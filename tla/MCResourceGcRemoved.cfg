SPECIFICATION Spec
CONSTANTS
    p = p
    q = q
    r = r
    o = o
    NoRun = NoRun
    Runs = {p, q, r}
    Owners = {o}
    Kinds = {"directory"}
    MaxCrashes = 0
    MaxTampers = 0
    MaxLive = 1
SYMMETRY Symmetry
INVARIANT
    RemovedIsGone
CHECK_DEADLOCK FALSE
