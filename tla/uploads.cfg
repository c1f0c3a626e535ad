SPECIFICATION Spec
CONSTANTS
    k1 = k1
    k2 = k2
    q1 = q1
    q2 = q2
    Keys = {k1, k2}
    Targets = {1}
    Chunks = {1, 2}
    Content <- SameArchive
    Requests = {q1, q2}
    MaxUploadJobs = 2
    MaxJobs = 2
    MaxTries = 2
    MaxRetry = 1
    MaxFaults = 1
    MaxRestarts = 1
SYMMETRY AlikeUploads
INVARIANTS
    OneOwner
    InputIntact
    StoredOnce
    CommittedOnce
    SuccessIsStored
CHECK_DEADLOCK FALSE
