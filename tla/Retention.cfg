SPECIFICATION Spec
CONSTANTS
    u1 = u1
    u2 = u2
    Users <- MCUsers
    Nobody = Nobody
    Paths = {"p1", "p2"}
    Leased = {"p1"}
    MaximumAttempts = 2
    MaxReplays = 1
    EvidencePerEvent = 3
INVARIANTS
    CertifiedFilesAreGone
    BlockedOnlyByAnOperator
    VaultFileSurvives
    NoCopyIsForgotten
SYMMETRY MCSymmetry
CHECK_DEADLOCK FALSE
