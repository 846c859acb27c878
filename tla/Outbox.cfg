SPECIFICATION SweptSpec
CONSTANTS
  e1 = e1  w1 = w1  w2 = w2
  Events = {e1}
  Workers = {w1, w2}
  MaxAttempts = 2
  Lifetimes = {3, 5}
  LeaseTime = 2
  ReconcileLease = 2
  BackoffBase = 1
  BackoffMax = 4
  MaxLag = 1
  MaxClock = 6
  MaxVersion = 7
CHECK_DEADLOCK FALSE
INVARIANTS
  NoAttemptWhileOutcomeUnknown
  StrandedEventsWereNotDelivered
PROPERTIES
  KnownOutcomesAreFinal
  AbandonedAttemptIsReleased
