CONSTANTS
    Runs <- FourRuns
    Ops <- Changes
    Legacies <- NoLegacy
    Build <- MCBuild
    MaxPredecessors = 2
    MaxBusy = 1
    MaxLive = 1
    MaxMishaps = 3
    MaxFaults = 2
    TornWrites = FALSE
SPECIFICATION Spec
CHECK_DEADLOCK FALSE
INVARIANTS DefinitionSurvives AloneNeverRefused
PROPERTIES StrangerSurvives FailedInstallRollsBack
