SPECIFICATION Spec
CONSTANTS
    k1 = k1
    k2 = k2
    q1 = q1
    q2 = q2
    Keys = {k1, k2}
    Targets = {1}
    Chunks = {1, 2}
    Content <- SameArchive
    Requests = {q1}
    MaxUploadJobs = 1
    MaxJobs = 2
    MaxTries = 2
    MaxRetry = 1
    MaxFaults = 1
    MaxRestarts = 0
SYMMETRY AlikeUploads
INVARIANTS
    StoredHasArchive
CHECK_DEADLOCK FALSE
