SPECIFICATION Spec
CONSTANTS
    Procs <- MCPair
    Pid <- MCPairPid
    Host <- MCPairHost
    RootOrder <- MCOneRoot
    Repos = {1}
    TTL = 1
    MaxClock = 1
    MaxRegistrations = 1
    MaxStage = 1
INVARIANT
    LiveHolderKeepsRow
CHECK_DEADLOCK FALSE
