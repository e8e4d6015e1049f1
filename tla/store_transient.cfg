\* A transient version store: commit() on its own, check_use() under memory pressure, rollback() deleting the file.
CONSTANTS
    MaxAddr = 3
    MaxVal = 2
    InitNext = 1
    MaxClock = 3
    MaxRefs = 1
    Transient = TRUE
    CoordinatorCommits = FALSE
SPECIFICATION Spec
INVARIANT CleanMatchesDisk
PROPERTY StoreRefinement
