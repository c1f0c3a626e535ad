SPECIFICATION FairSpec
CONSTANTS
    r1 = r1
    r2 = r2
    w1 = w1
    w2 = w2
    a = a
    b = b
    ka = ka
    kab = kab
    None = None
    Failure = Failure
    Dependencies = {a}
    Keys = {ka}
    DependsOn <- OneItem
    Size <- OneSize
    Lapsing = {ka}
    Readers = {r1, r2}
    Impatient = {r2}
    Writers = {w1, w2}
    MaxEntries = 2
    MaxBytes = 2
    MaxCommits = 2
    MaxFailures = 0
PROPERTIES
    EndedIsNotServed
    EveryGetReturns
CHECK_DEADLOCK FALSE
