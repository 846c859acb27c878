SPECIFICATION SweptSpec
CONSTANTS
  w1 = w1  w2 = w2  c1 = c1  c2 = c2
  NoWorker = NoWorker  NoRun = NoRun  NoCaller = NoCaller
  Priority <- SamePriority
  Jobs = {1}
  Runs = {1, 2}
  Workers = {w1, w2}
  Callers = {c1, c2}
  MaxQueued = 1
  MaxRunning = 1
  MaxAttempts = 2
  LeaseTime = 2
  DeadlineTime = 3
  RetryBase = 1
  RetryMax = 2
  StartDelays = {0}
  MaxProgress = 0
  MaxLag = 1
  MaxClock = 3
  MaxVersion = 3
CHECK_DEADLOCK FALSE
INVARIANTS
  RunningJobHasOneRun
  SuccessIsCommittedOnce
  DecisionsHoldOrAreFenced
PROPERTIES
  OutcomesAreFinal
  LiveLeaseIsRespected
  FollowsJobPolicy
  EveryJobSettles
