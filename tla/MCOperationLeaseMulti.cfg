SPECIFICATION FairSpec
CONSTANTS
    Procs <- MCPair
    Pid <- MCPairPid
    Host <- MCPairHost
    RootOrder <- MCRootOrder
    Repos = {1, 2}
    TTL = 1
    MaxClock = 1
    MaxRegistrations = 1
    MaxStage = 1
INVARIANT
    NothingLeftBehind
PROPERTIES
    NeverWaits
    MutexSpec
CHECK_DEADLOCK FALSE
