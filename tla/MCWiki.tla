---- MODULE MCWiki ----
(* A wiki with one markdown path and one that is not, linked to each other.  *)
EXTENDS Wiki, TLC

TargetsMC == [t \in Texts |-> IF t = "linking" THEN Paths ELSE {}]
\* Two handlers behave alike.
Handlers == Permutations(Clients)
====
