SPECIFICATION Spec
CONSTANTS
    u1 = u1
    u2 = u2
    Users = {u1}
    Nobody = Nobody
    Paths = {"p1"}
    Leased = {"p1"}
    MaximumAttempts = 5
    MaxReplays = 3
    EvidencePerEvent = 6
INVARIANT TrustedEvidenceIsReadable
CHECK_DEADLOCK FALSE
