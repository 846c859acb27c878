------------------------- MODULE MCStorageReconciler -------------------------
(* Three tenants in pages of two. *)
EXTENDS StorageReconciler, TLC

CONSTANTS s1, s2

RunSymmetry == Permutations(Runs)
=============================================================================
