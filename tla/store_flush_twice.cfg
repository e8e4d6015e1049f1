\* flush_back() called twice in succession on a permanent store.
CONSTANTS
    MaxAddr = 3
    MaxVal = 2
    InitNext = 1
    MaxClock = 3
    MaxRefs = 1
    Transient = FALSE
    CoordinatorCommits = TRUE
SPECIFICATION Spec
INVARIANT FlushIdempotent
