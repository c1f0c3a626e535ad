SPECIFICATION Spec
CONSTANTS
    ann = ann
    bob = bob
    cat = cat
    bot = bot
    sys = sys
    s1 = s1
    s2 = s2
    Users = {ann, bob, cat}
    Validator = bot
    System = sys
    Submissions = {s1}
    Staff = {ann, bob, cat}
    TrialCurators = {}
    Deciders = {ann, bob, cat}
    Adders = {cat}
    Deleters = {cat}
    Freezers = {cat}
    Gods = {}
    PostedActions = {"assign-testing", "assign-verification", "approve", "verify", "mark-added", "reject", "request-changes"}
    Verdicts <- FreezeOrNote
    MaxRows = 12
    MaxWindingRows = 7
    MaxBotRows = 2
    MaxDeletions = 1
SYMMETRY ReviewerSymmetry
INVARIANTS
    TypeOK
    CacheAgreesWithReduction
    SeparateReviewers
    RejectExcludesAdded
    NoTwoMinds
PROPERTIES
    NewVersionNeedsReview
    FrozenReadOnly
CHECK_DEADLOCK FALSE
