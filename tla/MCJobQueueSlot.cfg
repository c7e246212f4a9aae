SPECIFICATION FairSpec
CONSTANTS
    Jobs = {1}
    WorktreeOf <- MCOneWorktree
    MaxConcurrent = 1
    MaxPending = 1
    MaxMishaps = 1
PROPERTY
    SlotIsReleased
CHECK_DEADLOCK FALSE
