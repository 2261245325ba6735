SPECIFICATION JudgmentSpec
CONSTANTS
    s1 = s1
    s2 = s2
    Order <- MCOrder
    MaxAttempts = 2
    MaxRuns = 3
    None = None
INVARIANTS
    EveryRequestIsReserved
    CompleteIsTrue
PROPERTIES
    ResultsAreFinal
CHECK_DEADLOCK FALSE
