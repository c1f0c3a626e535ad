CONSTANTS
    Packs = {"two", "none"}
    Files = {f1, f2}
    f1 = f1
    f2 = f2
    Contents <- PackContents
    Tasks = {"consumer", "autounfreezer"}
    NoPack = NoPack
    MaxMoves = 1
    MaxFailures = 2
SPECIFICATION FairSpec
INVARIANTS
    IndexedIsWhole
PROPERTIES
    StopReturns
CHECK_DEADLOCK FALSE
