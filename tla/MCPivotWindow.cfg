SPECIFICATION BatchSpec
CONSTANTS
    ingest = ingest
    autopull = autopull
    c1 = c1
    c2 = c2
    f1 = f1
    f2 = f2
    Inventory <- MCInventory
    Required = {ingest}
    MaxWindows = 3
    MaxKills = 1
    MaxOutside = 1
    NoRecord = NoRecord
    Cands = {c1, c2}
    Bound = {c1}
    Foreign = {f1, f2}
    Rival <- MCRival
    NoCand = NoCand
    NoSnap = NoSnap
INVARIANTS
    NoTaskIsForgotten
    WindowIsQuiet
    RestoreTakesOnlyTheBatch
    BatchIsWholeOrGone
CHECK_DEADLOCK FALSE
