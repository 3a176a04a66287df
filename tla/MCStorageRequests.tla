------------------------- MODULE MCStorageRequests -------------------------
(* Instances of StorageRequests for TLC.                                   *)
EXTENDS StorageRequests, TLC

CONSTANTS p1, p2, p3, k1, a, b

\* Pages of page accessors, some of which write, and a copy job.
TwoPages        == {p1, p2}
ThreePages      == {p1, p2, p3}
PagesAndCopyJob == {p1, p2, k1}
CopyJob         == {k1}
NoClient        == {}
OnePage         == {p1}

OneChunk  == {a}

TwoPageSymmetry == Permutations(TwoPages)
=============================================================================
