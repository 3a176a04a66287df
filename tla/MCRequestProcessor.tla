------------------------- MODULE MCRequestProcessor -------------------------
(* Instances of RequestProcessor for TLC.                                  *)
EXTENDS RequestProcessor

CONSTANTS c1, c2, w1, w2, s1, s2, t1, t2

OneClient  == {c1}
TwoClients == {c1, c2}
OneWorker  == {w1}
TwoWorkers == {w1, w2}

NoChunks   == {}
OneSource  == {s1}
TwoSources == {s1, s2}
TwoTargets == {t1, t2}

NoRemap   == [c \in NoChunks |-> <<>>]
RemapOne  == [c \in TwoTargets |-> <<s1>>]

Ask(chunks)        == [NoRequest EXCEPT !.chunks = chunks]
AskFailing(chunks) == [Ask(chunks) EXCEPT !.fails = TRUE]
AskOneBit(chunks)  == [Ask(chunks) EXCEPT !.single = TRUE]

\* Requests for remapped chunks that share a page.
RemappedRequests == [t \in OneClient |-> {Ask(<<t1>>), Ask(<<t1, t2>>)}]
RemappedByTwo    == [t \in TwoClients |-> {Ask(<<t1>>)}]
\* Requests for chunks in the store, one of 1-bit data.
StoredRequests == [t \in OneClient |->
                     {Ask(<<s1, s2>>), AskFailing(<<s2>>), AskOneBit(<<s1>>)}]
OneBitRequest  == [t \in OneClient |-> {AskOneBit(<<s1, s2>>)}]
=============================================================================
