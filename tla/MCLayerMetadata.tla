--------------------------- MODULE MCLayerMetadata ---------------------------
(* Two chunks on one metadata page and a third on another; the layer was   *)
(* opened with the first page stored, or is new in this session.           *)
EXTENDS LayerMetadata

CONSTANTS a, b, d, p1, p2, h1

MCChunks == {a, b, d}
MCPages == {p1, p2}
MCPageOf == (a :> p1) @@ (b :> p1) @@ (d :> p2)
MCStored == {p1}
MCNone == {}
MCReader == {b}
MCWriters == {b, d}
MCOtherReader == {d}
MCPageWriters == {a, b}
MCHashers == {h1}
=============================================================================
