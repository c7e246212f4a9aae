SPECIFICATION FairSpec
CONSTANTS
    Roots = {1}
    Requests = {q1}
    Early = FALSE
    MaxVersion = 2
    MaxMoves = 1
    MaxFaults = 2
PROPERTIES NoSignalIsLost WatchComesBack AnsweredIsFresh
CHECK_DEADLOCK FALSE
