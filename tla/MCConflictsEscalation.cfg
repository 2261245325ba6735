SPECIFICATION Spec
CONSTANTS
    c1 = c1
    c2 = c2
    i1 = i1
    i2 = i2
    Calls = {c1, c2}
    Ids = {i1, i2}
    MaxReopens = 1
    None = None
PROPERTIES
    EscalationTouchesOpenOnly
