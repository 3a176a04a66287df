--------------------------- MODULE MCPageAccessor ---------------------------
(* Instances of PageAccessor for TLC.                                      *)
EXTENDS PageAccessor

CONSTANTS j1, j2, j3, u1, u2, u3, a, b, d, p1, p2, p3

None == {}

ThreeJobs == {j1, j2, j3}
OneUser   == {u1}
TwoUsers  == {u1, u2}
JustSecond == {u2}

OneChunk    == {a}
TwoChunks   == {a, b}
ThreeChunks == {a, b, d}

\* Each chunk is in the margin of the others, or of none.
AllNeighbours2 == [c \in TwoChunks |-> TwoChunks \ {c}]
AllNeighbours3 == [c \in ThreeChunks |-> ThreeChunks \ {c}]
NoNeighbours1  == [c \in OneChunk |-> {}]

TwoPages   == {p1, p2}
ThreePages == {p1, p2, p3}

Zero == {0}
=============================================================================
