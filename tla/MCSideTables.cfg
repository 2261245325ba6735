SPECIFICATION Spec
CONSTANTS
    m1 = m1
    m2 = m2
    m3 = m3
    t1 = t1
    t2 = t2
    f1 = f1
    f2 = f2
    c1 = c1
    c2 = c2
    Memories = {m1, m2, m3}
    Texts = {t1, t2}
    Facts = {f1, f2}
    Says <- MCSays
    Calls = {c1, c2}
    Asked = {m1}
    Cap = 2
    Slots = 1
    MaxClock = 1
    MaxWrites = 4
    None = None
INVARIANTS
    TypeOK
    TriplesAreEvidence
    GraphShowsTheNewest
PROPERTIES
    GroupsSwitchWhole
SYMMETRY MCSymmetry
CHECK_DEADLOCK FALSE
