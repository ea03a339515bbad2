---- MODULE MCAccess ----
(* Tokens differ in name only, and so do daemons.                             *)
EXTENDS Access, TLC

Symmetries == Permutations(Tokens) \cup Permutations(Daemons)
====
