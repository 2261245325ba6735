SPECIFICATION Spec
CONSTANTS
    w1 = w1
    w2 = w2
    t1 = t1
    t2 = t2
    Writers = {w1, w2}
    Texts = {t1, t2}
    MaxStamp = 2
    MaxWrites = 2
    None = None
    NoWriter = NoWriter
PROPERTIES
    BeliefsArePreserved
\* The calls of a behaviour are bounded (MaxWrites): it ends when all have returned.
CHECK_DEADLOCK FALSE
