SPECIFICATION Spec
CONSTANTS
  w1 = w1  w2 = w2  c1 = c1  c2 = c2
  NoWorker = NoWorker  NoRun = NoRun  NoCaller = NoCaller
  Priority <- PriorityDef
  Jobs = {1, 2, 3}
  Runs = {1, 2, 3, 4}
  Workers = {w1}
  Callers = {c1, c2}
  MaxQueued = 1
  MaxRunning = 1
  MaxAttempts = 2
  LeaseTime = 1
  DeadlineTime = 1
  RetryBase = 1
  RetryMax = 2
  StartDelays = {0}
  MaxProgress = 0
  MaxLag = 0
  MaxClock = 1
  MaxVersion = 0
SYMMETRY IdSymmetry
CHECK_DEADLOCK FALSE
INVARIANTS
  RunningWithinLimit
  LiveWorkWithinLimit
