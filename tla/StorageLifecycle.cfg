SPECIFICATION Spec
CONSTANTS
    f1 = f1
    f2 = f2
    Requests <- MCRequests
    NoRequest = NoRequest
    Uploadable = {"clean", "mismatched", "suspect"}
    MaximumAttempts = 1
    MaxReplays = 1
    MaxUploads = 2
    MaxFaults = 1
    MaxLinks = 1
INVARIANTS
    ReferencedDocumentIsIntact
    EveryCopyIsTracked
SYMMETRY MCSymmetry
CHECK_DEADLOCK FALSE
