SPECIFICATION FairSpec
CONSTANTS
    c1 = c1
    c2 = c2
    c3 = c3
    p1 = p1
    p2 = p2
    Calls = {c1, c2, c3}
    Procs = {p1, p2}
    Host <- MCHostShared
    Inodes = {i1, i2, i3}
    MaxAttempts = 2
    MaxCrashes = 2
    NoCall = NoCall
    NoInode = NoInode
INVARIANTS
    MutualExclusion
    LegacyHolderExcludes
PROPERTIES
    ImplementsMutex
    SomeoneGetsIn
