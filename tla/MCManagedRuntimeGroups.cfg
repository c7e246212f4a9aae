SPECIFICATION Spec
CONSTANTS
    Requests = {q1, q2}
    Tasks = {a, b}
    OptedIn = {a}
    None = None
    MaxProcesses = 1
    MaxFaults = 1
    Reuses = TRUE
INVARIANT EveryGroupOwned
CHECK_DEADLOCK FALSE
