CONSTANTS
    Runs <- TwoRuns
    Ops <- Changes
    Legacies <- NoLegacy
    Build <- MCBuild
    MaxPredecessors = 2
    MaxBusy = 1
    MaxLive = 1
    MaxMishaps = 1
    MaxFaults = 2
    TornWrites = TRUE
SPECIFICATION Spec
CHECK_DEADLOCK FALSE
INVARIANT AloneNeverRefused
