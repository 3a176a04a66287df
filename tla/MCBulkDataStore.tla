--------------------------- MODULE MCBulkDataStore ---------------------------
(* Chunks of one and two units in a file whose index pages have one entry. *)
(* The writes that may fail are those below the file table, or only that   *)
(* of the table.                                                           *)
EXTENDS BulkDataStore

MCChunkSize(c) == c
MCBelowTable == {"Chunk", "IndexPage", "PageDirectory"}
MCTable == {"FileTable"}
=============================================================================
