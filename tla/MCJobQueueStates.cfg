SPECIFICATION Spec
CONSTANTS
    Jobs = {1}
    WorktreeOf <- MCOneWorktree
    MaxConcurrent = 1
    MaxPending = 1
    MaxMishaps = 1
PROPERTY
    DocumentedTransitions
CHECK_DEADLOCK FALSE
