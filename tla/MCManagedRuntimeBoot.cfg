SPECIFICATION Spec
CONSTANTS
    Requests = {q1, q2, q3}
    Tasks = {a}
    OptedIn = {a}
    None = None
    MaxProcesses = 1
    MaxFaults = 2
    Reuses = TRUE
PROPERTY BootCompletes
CHECK_DEADLOCK FALSE
