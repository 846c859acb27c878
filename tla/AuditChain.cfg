SPECIFICATION Spec
CONSTANTS
  r1 = r1  r2 = r2  o1 = o1  o2 = o2  c1 = c1  c2 = c2
  Requests = {r1, r2}
  Orgs = {o1, o2}
  Contents = {c1, c2}
  MaxDepth = 2
  MaxEvents = 2
SYMMETRY Interchangeable
INVARIANTS
  CommittedChainsVerify
  BackstopNeverFires
  UnseenEventsHoldTheLock
