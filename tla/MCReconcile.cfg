SPECIFICATION Spec
CONSTANTS
    a = a
    b = b
    f1 = f1
    f2 = f2
    Texts = {a, b}
    Files = {f1, f2}
    MaxRuns = 1
    MaxUndos = 1
    MaxOthers = 1
    None = None
SYMMETRY Symmetry
PROPERTIES
    NoVoiceLost
    FilesSwitchWhole
    ForgottenStaysForgotten
    UndoRestores
    ChainsStayWhole
\* The runs of a behaviour are bounded: it ends when all have stopped.
CHECK_DEADLOCK FALSE
