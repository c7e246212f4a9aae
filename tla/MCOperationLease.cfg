SPECIFICATION Spec
CONSTANTS
    Procs <- MCProcs
    Pid <- MCPid
    Host <- MCHost
    RootOrder <- MCOneRoot
    Repos = {1}
    TTL = 1
    MaxClock = 2
    MaxRegistrations = 2
    MaxStage = 2
INVARIANTS
    MutualExclusion
    JobsExcludeDestruction
    JournalIsOwn
CHECK_DEADLOCK FALSE
