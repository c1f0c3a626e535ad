SPECIFICATION FairSpec
CONSTANTS
    g1 = g1
    g2 = g2
    p1 = p1
    p2 = p2
    p3 = p3
    c1 = c1
    c2 = c2
    c3 = c3
    unfreezer = unfreezer
    None = None
    Games = {g1, g2}
    Packs = {p1, p2, p3}
    Clients = {c1, c2}
    Unfreezer = unfreezer
    Ops = {"delete","restore","freeze","unfreeze","save","redirect","import"}
    InitialRows <- FirstRows
    Kept = {}
    Connections = 3
    MaxRequests = 2
    MaxFailures = 1
INVARIANTS
    TypeOK
    PackSurvives
    PacksInPlace
    RedirectsSound
PROPERTIES
    OnlyThePoolBlocks
    OldGamesThaw
CHECK_DEADLOCK FALSE
