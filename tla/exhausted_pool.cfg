SPECIFICATION FairSpec
CONSTANTS
    g1 = g1
    g2 = g2
    p1 = p1
    p2 = p2
    p3 = p3
    c1 = c1
    c2 = c2
    c3 = c3
    unfreezer = unfreezer
    None = None
    Games = {g1}
    Packs = {}
    Clients = {c1, c2, c3}
    Unfreezer = unfreezer
    Ops = {"delete", "freeze"}
    InitialRows <- OneFrozenRow
    Kept = {}
    Connections = 4
    MaxRequests = 3
    MaxFailures = 0
PROPERTIES
    EveryRequestReturns
CHECK_DEADLOCK FALSE
