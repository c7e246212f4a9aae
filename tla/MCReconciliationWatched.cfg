SPECIFICATION Spec
CONSTANTS
    Roots = {1}
    Requests = {q1}
    Early = FALSE
    MaxVersion = 2
    MaxMoves = 2
    MaxFaults = 1
PROPERTY AnsweredIsWatched
CHECK_DEADLOCK FALSE
