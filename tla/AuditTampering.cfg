SPECIFICATION TamperSpec
CONSTANTS
  o1 = o1  o2 = o2  p1 = p1  p2 = p2
  Org = o1
  OtherOrg = o2
  Contents = {p1, p2}
  MaxEvents = 3
  MaxEdits = 2
CHECK_DEADLOCK FALSE
INVARIANTS
  KeptEventVouchesForItsPast
  AnchorProtectsWhatItCovers
