SPECIFICATION Spec
CONSTANTS
    a = a
    b = b
    x = x
    y = y
    r1 = r1
    r2 = r2
    Worktrees = {a, b}
    Commits = {x, y}
    Asked <- TheRequests
    Begun <- First
    RunsOf <- TheRuns
    None = None
    CallsPerMinute = 3
    MaxPending = 2
    UnavailableAfter = 2
    MaxWatches = 2
    NoRunsAfter = 2
    TimeoutAfter = 4
INVARIANTS WithinCalls

CHECK_DEADLOCK FALSE
