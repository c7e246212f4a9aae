SPECIFICATION Spec
CONSTANTS
    Jobs = {1, 2}
    WorktreeOf <- MCSameWorktree
    MaxConcurrent = 2
    MaxPending = 2
    MaxMishaps = 2
INVARIANTS
    SlotCoversProcesses
    TaskNeverUnderDestruction
