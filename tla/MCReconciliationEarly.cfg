SPECIFICATION Spec
CONSTANTS
    Roots = {1}
    Requests = {q1}
    Early = TRUE
    MaxVersion = 2
    MaxMoves = 0
    MaxFaults = 1
PROPERTY AnsweredIsFresh
CHECK_DEADLOCK FALSE
