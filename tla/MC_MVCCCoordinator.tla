------------------------- MODULE MC_MVCCCoordinator -------------------------
(* Model-checking instance of MVCCCoordinator: the initial snapshot plus   *)
(* three snapshot objects, three addresses of which the first exists on   *)
(* disk at startup.                                                        *)
EXTENDS MVCCCoordinator

CONSTANTS s0, s1, s2, s3

MCSnap == {s0, s1, s2, s3}

(* Snapshot objects other than the initial one are interchangeable.       *)
MCSymmetry == Permutations({s1, s2, s3})

=============================================================================
