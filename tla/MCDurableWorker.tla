--------------------------- MODULE MCDurableWorker ---------------------------
(* Values for the constants of DurableWorker, and the symmetry of its ids. *)
EXTENDS DurableWorker, TLC

CONSTANTS w1, w2, c1, c2

\* The job with the larger id goes first.
PriorityDef == [j \in Jobs |-> IF j = 1 THEN 1 ELSE 0]
SamePriority == [j \in Jobs |-> 0]

IdSymmetry == Permutations(Workers) \cup Permutations(Callers)
=============================================================================
