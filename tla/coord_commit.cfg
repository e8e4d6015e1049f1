\* Readers and a writer finishing through commit(); no replication peers.
CONSTANTS
    s0 = s0
    s1 = s1
    s2 = s2
    s3 = s3
    Snap <- MCSnap
    InitialSnap = s0
    Nil = Nil
    MaxAddr = 2
    InitNext = 1
    MaxVersion = 5
    MergeEnabled = FALSE
    Peers = FALSE
    MaxRefs = 0
SYMMETRY MCSymmetry
SPECIFICATION Spec
INVARIANT TypeOK
INVARIANT SnapshotIsolation
INVARIANT ReaderCountsExact
INVARIANT CountersAgree
INVARIANT AddressesFresh
INVARIANT CommittedReadable
PROPERTY MergeDownCollapses
PROPERTY CoordinatorRefinement
