CONSTANTS
    Runs <- ThreeRuns
    Ops <- Takeovers
    Legacies <- OldLabel
    Build <- MCBuild
    MaxPredecessors = 2
    MaxBusy = 2
    MaxLive = 2
    MaxMishaps = 2
    MaxFaults = 2
    TornWrites = FALSE
SPECIFICATION Spec
CHECK_DEADLOCK FALSE
INVARIANT LockIsOwned
PROPERTY StatusKeepsDaemon
