\* merge() moves a writer's blocks into the chain's tail while readers read through it.
CONSTANTS
    s0 = s0
    s1 = s1
    s2 = s2
    s3 = s3
    Snap <- MCSnap
    InitialSnap = s0
    Nil = Nil
    MaxAddr = 2
    InitNext = 1
    MaxVersion = 5
    MergeEnabled = TRUE
    Peers = FALSE
    MaxRefs = 0
SYMMETRY MCSymmetry
SPECIFICATION Spec
INVARIANT SnapshotIsolation
