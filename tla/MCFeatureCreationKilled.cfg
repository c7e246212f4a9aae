SPECIFICATION Spec
CONSTANTS
    Repos = {1, 2}
    Runs = {p, q}
    Commits = {c1, c2}
    None = None
    Main = c1
    Existing <- MCExisting
    Asked <- MCAsked
    Froms = {None}
    MaxFresh = 2
    MaxMeddling = 1
    MaxFaults = 1
    Kills = TRUE
    SlowGit = FALSE
INVARIANT
    CompletedIsWhole
CHECK_DEADLOCK FALSE
