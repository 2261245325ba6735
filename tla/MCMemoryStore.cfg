SPECIFICATION Spec
CONSTANTS
    a = a
    b = b
    t1 = t1
    t2 = t2
    c1 = c1
    c2 = c2
    Ids = {a, b}
    Texts = {t1, t2}
    Clients = {c1, c2}
    Stamps <- MCStamps
    MaxStamp = 2
    MaxOps = 3
    Absent = Absent
    NoClient = NoClient
SYMMETRY Symmetry
PROPERTIES
    StampsMoveForward
    DeletedStaysDeleted
    ImplementsTable
\* The calls of a behaviour are bounded (MaxOps): it ends when all have returned.
CHECK_DEADLOCK FALSE
