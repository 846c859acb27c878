----------------------- MODULE MCRetentionCompletion -----------------------
(* RetentionCompletion on a small instance. *)
EXTENDS RetentionCompletion, TLC
CONSTANTS u1, u2
MCUsers == {u1, u2}
MCSymmetry == Permutations(MCUsers)
=============================================================================
