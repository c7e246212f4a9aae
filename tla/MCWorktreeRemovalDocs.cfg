SPECIFICATION Spec
CONSTANTS
    Worktrees = {1}
    Ports = {1}
    Written = {"untracked"}
    MaxEvents = 2
INVARIANTS
    AbortLeavesLive
    StoppedBeforeGit
PROPERTY
    OrphanedGivesBack
