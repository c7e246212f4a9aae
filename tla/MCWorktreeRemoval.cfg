SPECIFICATION FairSpec
CONSTANTS
    Worktrees = {1, 2}
    Ports = {1, 2}
    Written = {"untracked", "ignored", "commit"}
    MaxEvents = 3
INVARIANTS
    WorkSurvives
    NoStartUnderLease
PROPERTY
    DeadLeasesEnd
