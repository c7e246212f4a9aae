SPECIFICATION Spec
CONSTANTS
    Requests = {q1, q2, q3}
    Tasks = {a, b}
    OptedIn = {a}
    None = None
    MaxProcesses = 1
    MaxFaults = 0
    Reuses = TRUE
INVARIANT WithinBudget
CHECK_DEADLOCK FALSE
