\* A permanent store (the coordinator's initial storage) committed the way the coordinator commits it.
CONSTANTS
    MaxAddr = 3
    MaxVal = 2
    InitNext = 1
    MaxClock = 3
    MaxRefs = 1
    Transient = FALSE
    CoordinatorCommits = TRUE
SPECIFICATION Spec
INVARIANT TypeOK
INVARIANT NextAboveAll
INVARIANT CleanMatchesDisk
PROPERTY StoreRefinement
INVARIANT CommitDurable
