SPECIFICATION Spec
CONSTANTS
    p = p
    q = q
    r = r
    o = o
    NoRun = NoRun
    Runs = {p, q, r}
    Owners = {o}
    Kinds = {"file", "directory"}
    MaxCrashes = 2
    MaxTampers = 1
    MaxLive = 2
SYMMETRY Symmetry
INVARIANTS ErasesWhatItChecked QuarantinedIsReserved
PROPERTIES ReferencesProtect AloneFinishes
CHECK_DEADLOCK FALSE
