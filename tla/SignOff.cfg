SPECIFICATION Spec
CONSTANTS
    r1 = r1
    r2 = r2
    r3 = r3
    Requests <- MCRequests
    Projects = {1, 2}
    Home = 2
    MaxClock = 1
    AccessExpiry = 1
INVARIANTS
    OneReceiptPerKey
    OnlyRetentionClosesACircle
PROPERTIES
    SignedOnReadyInputs
    ExportedUnderOneNda
    ReleaserHadAuthority
    ReleasedContentIsFrozen
SYMMETRY MCSymmetry
CHECK_DEADLOCK FALSE
