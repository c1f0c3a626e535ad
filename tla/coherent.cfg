SPECIFICATION Spec
CONSTANTS
    r1 = r1
    r2 = r2
    w1 = w1
    w2 = w2
    a = a
    b = b
    ka = ka
    kab = kab
    None = None
    Failure = Failure
    Dependencies = {a, b}
    Keys = {ka, kab}
    DependsOn <- TwoItems
    Size <- UnequalSizes
    Lapsing = {}
    Readers = {r1, r2}
    Impatient = {}
    Writers = {w1, w2}
    MaxEntries = 1
    MaxBytes = 2
    MaxCommits = 3
    MaxFailures = 1
SYMMETRY PeerSymmetry
INVARIANTS
    TypeOK
    ResidentIsCommitted
    NoRedundantLoad
    WithinCapacity
PROPERTIES
    ReadsAreCoherent
CHECK_DEADLOCK FALSE
