------------------------ MODULE MCStorageLifecycle ------------------------
(* StorageLifecycle on a small instance. *)
EXTENDS StorageLifecycle, TLC
CONSTANTS f1, f2
MCRequests == {f1, f2}
MCSymmetry == Permutations(MCRequests)
===========================================================================
