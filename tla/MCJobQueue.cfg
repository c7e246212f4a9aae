SPECIFICATION FairSpec
CONSTANTS
    Jobs = {1}
    WorktreeOf <- MCOneWorktree
    MaxConcurrent = 1
    MaxPending = 1
    MaxMishaps = 4
INVARIANTS
    NeverReplayed
    StopReasonWins
    SuccessIsReal
    StartedIsBound
PROPERTY
    EveryJobEnds
