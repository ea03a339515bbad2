------------------------------ MODULE MCTraces ------------------------------
(* Sessions and publishers are interchangeable. *)
EXTENDS Traces, TLC

Symmetry == Permutations(Sessions) \union Permutations(Publishers)
=============================================================================
