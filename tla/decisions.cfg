SPECIFICATION Spec
CONSTANTS
    ann = ann
    bob = bob
    cat = cat
    bot = bot
    sys = sys
    s1 = s1
    s2 = s2
    Users = {ann, bob, cat}
    Validator = bot
    System = sys
    Submissions = {s1, s2}
    Staff = {cat}
    TrialCurators = {bob}
    Deciders = {cat}
    Adders = {cat}
    Deleters = {cat}
    Freezers = {}
    Gods = {cat}
    PostedActions = {"mark-added", "reject"}
    Verdicts <- OneVerdict
    MaxRows = 9
    MaxWindingRows = 9
    MaxBotRows = 2
    MaxDeletions = 1
SYMMETRY SubmissionSymmetry
INVARIANTS
    OneAuditionSubmission
    AddedAtMostOnce
    AddedVersionImported
PROPERTIES
    MetaEditKeepsApproval
CHECK_DEADLOCK FALSE
