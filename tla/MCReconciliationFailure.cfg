SPECIFICATION Spec
CONSTANTS
    Roots = {1}
    Requests = {q1}
    Early = FALSE
    MaxVersion = 2
    MaxMoves = 0
    MaxFaults = 1
PROPERTY FailureIsOwn
CHECK_DEADLOCK FALSE
