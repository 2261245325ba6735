SPECIFICATION ForgetSpec
CONSTANTS
    f1 = f1
    f2 = f2
    p1 = p1
    p2 = p2
    t1 = t1
    t2 = t2
    n1 = n1
    n2 = n2
    Forgetters = {f1}
    Pins = {p1, p2}
    Neighbours = {n1}
    Wordings = {t1, t2}
    MaxForgets = 2
    MaxRevisions = 1
    NoText = NoText
SYMMETRY Symmetry
INVARIANTS
    NoCopyOutlivesTheMemory
    StopsTellRemovals
\* The calls of a behaviour are bounded: it ends when all have returned.
CHECK_DEADLOCK FALSE
