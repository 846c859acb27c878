SPECIFICATION FairShutdownSpec
CONSTANTS
  h1 = h1  h2 = h2
  Holders = {h1, h2}
CHECK_DEADLOCK FALSE
INVARIANTS
  AbandonedRequestRollsBack
  ServerErrorRollsBack
  CleanExitLosesNothing
  RollbackHasAReason
PROPERTIES
  HeldWorkIsNotCutShort
  TransactionComesToAnEnd
