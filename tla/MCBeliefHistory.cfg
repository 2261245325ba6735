SPECIFICATION Spec
CONSTANTS
    w1 = w1
    w2 = w2
    t1 = t1
    t2 = t2
    Writers = {w1, w2}
    Texts = {t1, t2}
    MaxStamp = 3
    MaxWrites = 3
    None = None
    NoWriter = NoWriter
SYMMETRY Symmetry
INVARIANTS
    HistoryIsAChain
    DedupedWasBelieved
PROPERTIES
    RevisionKeepsTheOldVersion
\* The calls of a behaviour are bounded (MaxWrites): it ends when all have returned.
CHECK_DEADLOCK FALSE
