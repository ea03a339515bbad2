------------------------- MODULE MCMessagePipeline -------------------------
(* Decisions that differ in name only may be exchanged.                    *)
EXTENDS MessagePipeline, TLC

DecisionSymmetry == Permutations(Decisions \ Queryable)
============================================================================
