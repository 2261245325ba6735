SPECIFICATION Spec
CONSTANTS
    c1 = c1
    c2 = c2
    fallback = fallback
    x = x
    y = y
    Calls = {c1, c2}
    Times = {1, 2}
    Ids = {1, 2}
    Texts = {fallback, x, y}
    Minimal = fallback
    KeepPerScope = 1
    MaxCalls = 4
    None = None
SYMMETRY Symmetry
INVARIANTS
    PublishedStays
    OneFilePerId
    PurgeIsFinal
PROPERTIES
    MirrorMovesForward
\* The calls of a behaviour are bounded (MaxCalls): it ends when all have returned.
CHECK_DEADLOCK FALSE
