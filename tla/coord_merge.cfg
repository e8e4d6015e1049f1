\* Writers may finish through merge() as well as commit(), with replication
\* peers whose calls may fail.
CONSTANTS
    s0 = s0
    s1 = s1
    s2 = s2
    s3 = s3
    Snap <- MCSnap
    InitialSnap = s0
    Nil = Nil
    MaxAddr = 2
    InitNext = 1
    MaxVersion = 4
    MergeEnabled = TRUE
    Peers = TRUE
    MaxRefs = 2
SYMMETRY MCSymmetry
SPECIFICATION Spec
INVARIANT AddressesFresh
INVARIANT WriterOrderCurrent
INVARIANT CommittedReadable
INVARIANT ChainWellFormed
INVARIANT MoveVersionsAscend
