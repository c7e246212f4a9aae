SPECIFICATION Spec
CONSTANTS
    Requests = {q1, q2}
    Tasks = {a, b}
    OptedIn = {a}
    None = None
    MaxProcesses = 1
    MaxFaults = 0
    Reuses = TRUE
PROPERTY AskedIsSpared
CHECK_DEADLOCK FALSE
