------------------------ MODULE MCTransactionalOutbox ------------------------
(* Model values for TransactionalOutbox; workers are interchangeable. *)
EXTENDS TransactionalOutbox, TLC

CONSTANTS e1, w1, w2

WorkerSymmetry == Permutations(Workers)
=============================================================================
