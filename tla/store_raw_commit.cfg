\* commit() on its own, without begin_new(), on a permanent store.
CONSTANTS
    MaxAddr = 3
    MaxVal = 2
    InitNext = 1
    MaxClock = 3
    MaxRefs = 1
    Transient = FALSE
    CoordinatorCommits = FALSE
SPECIFICATION Spec
INVARIANT CommitDurable
