SPECIFICATION FairDreamSpec
CONSTANTS
    a = a
    b = b
    nightly = nightly
    hand = hand
    insight = insight
    g1 = g1
    g2 = g2
    Rows = {a, b}
    Nightly = nightly
    Others = {hand}
    Insight = insight
    Groups = {g1, g2}
    MinWrites = 2
    MinCluster = 2
    MinMemories = 2
    MaxWrites = 3
    MaxAsked = 1
    MaxFailures = 1
    None = None
INVARIANTS
    MergesNeverLoop
PROPERTIES
    RepairSparesPairs
    ArchivingIsJustified
    QueueDrains
    LoneGroupsDissolve
CHECK_DEADLOCK FALSE
