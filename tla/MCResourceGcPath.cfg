SPECIFICATION Spec
CONSTANTS
    p = p
    q = q
    r = r
    o = o
    NoRun = NoRun
    Runs = {p, q, r}
    Owners = {o}
    Kinds = {"file"}
    MaxCrashes = 0
    MaxTampers = 1
    MaxLive = 1
SYMMETRY Symmetry
INVARIANT
    DeletesOnlyOwned
CHECK_DEADLOCK FALSE
