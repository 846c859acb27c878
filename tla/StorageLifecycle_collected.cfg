SPECIFICATION FairSpec
CONSTANTS
    f1 = f1
    f2 = f2
    Requests = {f1}
    NoRequest = NoRequest
    Uploadable = {"clean", "mismatched", "suspect"}
    MaximumAttempts = 2
    MaxReplays = 0
    MaxUploads = 1
    MaxFaults = 1
    MaxLinks = 0
PROPERTY OrphansAreCollected
CHECK_DEADLOCK FALSE
