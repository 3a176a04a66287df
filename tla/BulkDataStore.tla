---------------------------- MODULE BulkDataStore ----------------------------
(***************************************************************************)
(* A VDS file: VolumeDataStoreVDSFile over HueBulkDataStore, one file that *)
(* contains one file per layer.  The header, at 0, points to the file      *)
(* table; the table to the page directory of each layer; that to its index *)
(* pages; and those to the chunks.  Chunks, index pages and tables that are*)
(* changed get new extents; the header, and the page directory of a layer  *)
(* whose metadata is rewritten, are written in place.  Commit writes from  *)
(* the bottom up, so that a crash before its last write leaves the old     *)
(* state.                                                                  *)
(*                                                                         *)
(* m_mutex of the store is kept by AddLayer and Flush (commit.layer # None *)
(* or a flush in progress) and by each half of WriteChunkImpl, but not     *)
(* while the data of a chunk is written.  A step is one write of the file, *)
(* or what is done in memory between two.  A write that fails has written  *)
(* nothing.  A clean buffer equals what is in the file, so the index pages *)
(* kept here are the dirty ones.                                           *)
(*                                                                         *)
(* A block of the file is where it begins, its size, and its content: the  *)
(* header <<table>>; the table the page directory of each layer, 0 if it is*)
(* not listed; a page directory the offset of each index page; an index    *)
(* page the offset of each of its chunks; a chunk <<layer, chunk, version>>*)
(***************************************************************************)
EXTENDS ExtentAllocator

CONSTANTS NumLayers, NumChunks,
          EntriesPerPage,  \* m_indexPageEntryCount
          HeaderSize, TableEntrySize, DirectorySize, IndexPageSize,
          ChunkSize(_),    \* the size of the data of a chunk
          FailingWrites,   \* the kinds of block whose write may fail
          MaxWrites,       \* bound: chunks written
          MaxAdds,         \* bound: calls of AddLayer
          MaxFlushes,      \* bound: calls of Flush
          MaxFaults,       \* bound: writes that fail
          MaxCrashes,      \* bound: crashes
          Lost,            \* read where the data of a chunk could not be written
          Garbage,         \* read where something else is
          Absent

Layers == 1 .. NumLayers
Chunks == 1 .. NumChunks
IndexPages == 1 .. ((NumChunks + EntriesPerPage - 1) \div EntriesPerPage)
PageOf(c)  == ((c - 1) \div EntriesPerPage) + 1
EntryOf(c) == ((c - 1) % EntriesPerPage) + 1
None == 0

ASSUME BulkAssumption ==
  /\ {NumLayers, NumChunks, EntriesPerPage, HeaderSize, TableEntrySize, DirectorySize,
      IndexPageSize} \subseteq Nat \ {0}
  /\ \A c \in Chunks : ChunkSize(c) \in Nat \ {0}

VARIABLES disk,      \* the blocks in the file,
          lost,      \* and where a chunk should have been written, and was not
          isOpen,    \* is the data store open, for writing?
          extents,   \* m_extentAllocator
          header,    \* m_header: its file table, and is it dirty?
          table,     \* m_fileTable
          files,     \* m_fileDescriptorList and m_layerFiles, with their FileInterface
          writes,    \* the chunks being written
          commit,    \* Commit, and the Flush or AddLayer that called it
          broken,    \* has the allocator been asked for space beyond the file?
          written, adds, flushes, faults, crashes   \* counted for the bounds
counters == <<written, adds, flushes, faults, crashes>>
memory == <<isOpen, extents, header, table, files, writes, commit>>
file == <<disk, lost>>
vars == <<file, memory, broken, counters>>

Kinds == {"DataStoreHeader", "FileTable", "PageDirectory", "IndexPage", "Chunk"}
Block == [at : Nat, size : Nat, kind : Kinds, content : Seq(Nat)]
NoBuffer == [at |-> None, content |-> <<>>]
Buffer == [at : Nat, content : Seq(Nat)]
FileRecord == [added : BOOLEAN,   \* is it in m_fileDescriptorList?
               listed : BOOLEAN,  \* is its m_fileIndex not -1?
               head : Nat,        \* m_headPageDirectoryOffset
               directory : Buffer, directoryDirty : BOOLEAN,
               pages : [IndexPages -> Buffer],
               dirty : BOOLEAN]   \* LayerFile.dirty
WriteRecord == [state : {"idle", "allocated", "written"}, at : Nat, version : 0 .. MaxWrites]
CommitRecord == [caller : {"none", "addLayer", "flush"}, layer : Layers \cup {None},
                 stage : {"idle", "pages", "table", "header", "returned"},
                 todo : SUBSET Layers, failed : BOOLEAN]

NoFile == [added |-> FALSE, listed |-> FALSE, head |-> None, directory |-> NoBuffer,
           directoryDirty |-> FALSE, pages |-> [p \in IndexPages |-> NoBuffer], dirty |-> FALSE]
NoWrite == [state |-> "idle", at |-> None, version |-> 0]
NoCommit == [caller |-> "none", layer |-> None, stage |-> "idle", todo |-> {}, failed |-> FALSE]
NoTable == [at |-> None, content |-> [l \in Layers |-> None], dirty |-> FALSE]

TypeOK ==
  /\ \A b \in disk : b \in Block
  /\ lost \subseteq Nat
  /\ isOpen \in BOOLEAN
  /\ \A x \in DOMAIN extents : x \in Nat /\ extents[x] \in Extent
  /\ isOpen => EndsFree(extents)
  /\ header \in [table : Nat, dirty : BOOLEAN]
  /\ table \in [at : Nat, content : [Layers -> Nat], dirty : BOOLEAN]
  /\ \A l \in Layers : files[l] \in FileRecord
  /\ writes \in [Layers \X Chunks -> WriteRecord]
  /\ commit \in CommitRecord
  /\ broken \in BOOLEAN
  /\ written \in 0 .. MaxWrites /\ adds \in 0 .. MaxAdds /\ flushes \in 0 .. MaxFlushes
  /\ faults \in 0 .. MaxFaults /\ crashes \in 0 .. MaxCrashes

Closed ==
  /\ isOpen' = FALSE /\ extents' = NewAllocator(HeaderSize)
  /\ header' = [table |-> None, dirty |-> FALSE] /\ table' = NoTable
  /\ files' = [l \in Layers |-> NoFile]
  /\ writes' = [w \in Layers \X Chunks |-> NoWrite]
  /\ commit' = NoCommit

Init ==
  /\ disk = {} /\ lost = {}
  /\ isOpen = FALSE /\ extents = NewAllocator(HeaderSize)
  /\ header = [table |-> None, dirty |-> FALSE] /\ table = NoTable
  /\ files = [l \in Layers |-> NoFile]
  /\ writes = [w \in Layers \X Chunks |-> NoWrite]
  /\ commit = NoCommit
  /\ broken = FALSE
  /\ written = 0 /\ adds = 0 /\ flushes = 0 /\ faults = 0 /\ crashes = 0

-----------------------------------------------------------------------------
(* The file.                                                               *)

BlockOf(at, size, kind, content) == [at |-> at, size |-> size, kind |-> kind, content |-> content]
Overlap(x, y) == x.at < y.at + y.size /\ y.at < x.at + x.size
Overwritten(b) == {x \in disk : ~Overlap(x, b)} \cup {b}
Content[at \in Nat, kind \in Kinds] ==
  LET found == {b \in disk : b.at = at /\ b.kind = kind}
  IN  IF found = {} THEN <<>> ELSE (CHOOSE b \in found : TRUE).content
FileSize == IF disk = {} THEN 0 ELSE Max({b.at + b.size : b \in disk})

\* One write of the file, that of a commit or of a chunk: ok, or an error.
WriteOk(at, size, kind, content) ==
  /\ disk' = Overwritten(BlockOf(at, size, kind, content))
  /\ lost' = lost \ (at .. at + size - 1)
  /\ UNCHANGED faults
WriteFails(at, kind) ==
  /\ kind \in FailingWrites /\ faults < MaxFaults /\ faults' = faults + 1
  /\ lost' = IF kind = "Chunk" THEN lost \cup {at} ELSE lost
  /\ UNCHANGED disk

TableSize(content) == TableEntrySize * Cardinality({l \in DOMAIN content : content[l] # None})
MutexFree == commit = NoCommit

-----------------------------------------------------------------------------
(* CreateNew, and Open with EnableWriting, which builds the allocator from *)
(* everything that the file refers to.                                     *)

ZeroPage == [i \in 1 .. EntriesPerPage |-> None]
ZeroDirectory == [p \in IndexPages |-> None]

\* The file is created once more if it has no header yet.
CreateNew ==
  /\ ~isOpen /\ Content[0, "DataStoreHeader"] = <<>>
  /\ disk' = {} /\ lost' = {}
  /\ isOpen' = TRUE
  /\ extents' = Allocated(NewAllocator(HeaderSize), HeaderSize, "DataStoreHeader")
  /\ header' = [table |-> None, dirty |-> TRUE]
  /\ UNCHANGED <<table, files, writes, commit, broken, counters>>

Ref(at, size, kind, owner) == [at |-> at, size |-> size, kind |-> kind, owner |-> owner]
ChunkRefs(l, p, page) ==
  {Ref(page[EntryOf(c)], ChunkSize(c), "Chunk", <<l, c>>) :
     c \in {d \in Chunks : PageOf(d) = p /\ page[EntryOf(d)] # None}}
DirectoryRefs(l, at, content) ==
  LET stored == {p \in IndexPages : content[p] # None}
  IN  {Ref(at, DirectorySize, "PageDirectory", <<l>>)}
        \cup {Ref(content[p], IndexPageSize, "IndexPage", <<l, p>>) : p \in stored}
        \cup UNION {ChunkRefs(l, p, Content[content[p], "IndexPage"]) : p \in stored}
FileRefs(at) ==
  LET content == Content[at, "FileTable"]
      listed  == {l \in DOMAIN content : content[l] # None}
  IN  {Ref(0, HeaderSize, "DataStoreHeader", <<>>), Ref(at, TableSize(content), "FileTable", <<>>)}
        \cup UNION {DirectoryRefs(l, content[l], Content[content[l], "PageDirectory"]) : l \in listed}

BuildExtentAllocator(refs) ==
  LET Refer(r, ext) == AddReference(ext, r.at, r.size, r.kind)
  IN  FoldSet(Refer, NewAllocator(FileSize), refs)

OpenedFile(l, head) ==
  IF head = None THEN NoFile
  ELSE [NoFile EXCEPT !.added = TRUE, !.listed = TRUE, !.head = head,
                      !.directory = [at |-> head, content |-> Content[head, "PageDirectory"]]]

Open ==
  LET at   == Content[0, "DataStoreHeader"][1]
      refs == FileRefs(at)
  IN  /\ ~isOpen /\ Content[0, "DataStoreHeader"] # <<>>
      /\ isOpen' = TRUE
      /\ IF \A r \in refs : r.at + r.size <= FileSize
         THEN extents' = BuildExtentAllocator(refs) /\ UNCHANGED broken
         ELSE broken' = TRUE /\ UNCHANGED extents
      /\ header' = [table |-> at, dirty |-> FALSE]
      /\ table' = [at |-> at, content |-> Content[at, "FileTable"], dirty |-> FALSE]
      /\ files' = [l \in Layers |-> OpenedFile(l, Content[at, "FileTable"][l])]
      /\ UNCHANGED <<file, writes, commit, counters>>

\* The process stops; Close, which commits nothing, is the same to the file.
Crash ==
  /\ isOpen /\ crashes < MaxCrashes /\ crashes' = crashes + 1
  /\ Closed
  /\ UNCHANGED <<file, broken, written, adds, flushes, faults>>

-----------------------------------------------------------------------------
(* WriteChunkImpl: the extent, then the data with the mutex released, whose*)
(* result nobody looks at, then the index entry.                           *)

CreateChunkDataIndexEntry(l, c) ==
  /\ isOpen /\ MutexFree /\ files[l].added /\ writes[l, c].state = "idle"
  /\ written < MaxWrites /\ written' = written + 1
  /\ extents' = Allocated(extents, ChunkSize(c), "Chunk")
  /\ writes' = [writes EXCEPT ![l, c] =
                  [state |-> "allocated", at |-> PlaceFor(extents, ChunkSize(c)), version |-> written']]
  /\ UNCHANGED <<file, isOpen, header, table, files, commit, broken, adds, flushes, faults, crashes>>

WriteChunkData(l, c) ==
  /\ writes[l, c].state = "allocated"
  /\ \/ WriteOk(writes[l, c].at, ChunkSize(c), "Chunk", <<l, c, writes[l, c].version>>)
     \/ WriteFails(writes[l, c].at, "Chunk")
  /\ writes' = [writes EXCEPT ![l, c].state = "written"]
  /\ UNCHANGED <<isOpen, extents, header, table, files, commit, broken,
                 written, adds, flushes, crashes>>

\* ReadIndexPage with makeWritable: the page is moved to a new extent, unless
\* it is dirty already.
WritablePage(l, p) ==
  LET old == files[l].directory.content[p]
  IN  IF files[l].pages[p] # NoBuffer THEN files[l].pages[p]
      ELSE [at |-> PlaceFor(extents, IndexPageSize),
            content |-> IF old = None THEN ZeroPage ELSE Content[old, "IndexPage"]]

EntryAllowed_Early(l, c) == writes[l, c].state # "idle" /\ MutexFree
EntryAllowed(l, c) == writes[l, c].state = "written" /\ MutexFree
WriteIndexEntry(l, c) ==
  LET p == PageOf(c)
  IN  /\ EntryAllowed(l, c)
      /\ files' = [files EXCEPT ![l].dirty = TRUE, ![l].pages[p] =
                     [WritablePage(l, p) EXCEPT !.content[EntryOf(c)] = writes[l, c].at]]
      /\ extents' = IF files[l].pages[p] # NoBuffer THEN extents
                    ELSE Allocated(extents, IndexPageSize, "IndexPage")
      /\ writes' = [writes EXCEPT ![l, c] = NoWrite]
      /\ UNCHANGED <<file, isOpen, header, table, commit, broken, counters>>

-----------------------------------------------------------------------------
(* AddLayer: AddFile, WriteFileMetadata and a Commit whose result is not   *)
(* looked at.  A layer that exists is replaced while nobody writes to it.  *)

AddLayer(l) ==
  LET at == PlaceFor(extents, DirectorySize)
  IN  /\ isOpen /\ MutexFree /\ adds < MaxAdds /\ adds' = adds + 1
      /\ \A c \in Chunks : writes[l, c].state = "idle"
      /\ extents' = Allocated(extents, DirectorySize, "PageDirectory")
      /\ files' = [files EXCEPT ![l] =
                     [@ EXCEPT !.added = TRUE, !.head = at, !.directoryDirty = TRUE,
                               !.directory = [at |-> at, content |-> ZeroDirectory],
                               !.pages = NoFile.pages]]
      /\ commit' = [NoCommit EXCEPT !.caller = "addLayer", !.layer = l, !.stage = "pages"]
      /\ UNCHANGED <<file, isOpen, header, table, writes, broken,
                     written, flushes, faults, crashes>>

(* Flush: every dirty layer in turn, whatever became of those before it.   *)

Flush ==
  /\ isOpen /\ MutexFree /\ flushes < MaxFlushes /\ flushes' = flushes + 1
  /\ commit' = [NoCommit EXCEPT !.caller = "flush", !.todo = {l \in Layers : files[l].dirty}]
  /\ UNCHANGED <<file, isOpen, extents, header, table, files, writes, broken,
                 written, adds, faults, crashes>>

\* WriteFileMetadata makes the page directory dirty where it is.
FlushLayer(l) ==
  /\ commit.caller = "flush" /\ commit.layer = None /\ l \in commit.todo
  /\ commit' = [commit EXCEPT !.layer = l, !.stage = "pages", !.todo = @ \ {l}]
  /\ files' = [files EXCEPT ![l].directoryDirty = TRUE]
  /\ UNCHANGED <<file, isOpen, extents, header, table, writes, broken, counters>>

FlushReturn ==
  /\ commit.caller = "flush" /\ commit.layer = None /\ commit.todo = {}
  /\ commit' = IF commit.stage = "idle" THEN [commit EXCEPT !.stage = "returned"] ELSE NoCommit
  /\ UNCHANGED <<file, isOpen, extents, header, table, files, writes, broken, counters>>

-----------------------------------------------------------------------------
(* Commit of the layer commit.layer.                                       *)

EndCommit_Clean(l, ok, saved) ==
  LET byFlush == commit.caller = "flush"
  IN  /\ files' = [files EXCEPT ![l] = [saved EXCEPT !.dirty = ~byFlush]]
      /\ commit' = IF byFlush
                   THEN [commit EXCEPT !.layer = None, !.stage = "idle", !.failed = @ \/ ~ok]
                   ELSE NoCommit
EndCommit(l, ok, saved) ==
  LET byFlush == commit.caller = "flush"
  IN  /\ files' = [files EXCEPT ![l] = [saved EXCEPT !.dirty = IF byFlush THEN @ /\ ~ok ELSE TRUE]]
      /\ commit' = IF byFlush
                   THEN [commit EXCEPT !.layer = None, !.stage = "idle", !.failed = @ \/ ~ok]
                   ELSE NoCommit
CommitFails(l) ==
  EndCommit(l, FALSE, files[l]) /\ UNCHANGED <<extents, header, table>>

DirtyPages(l) == {p \in IndexPages : files[l].pages[p] # NoBuffer}
CommitElse == UNCHANGED <<isOpen, writes, broken, written, adds, flushes, crashes>>

\* The index pages one by one, each then entered in the page directory.
CommitIndexPage(l) ==
  LET p    == Min(DirtyPages(l))
      page == files[l].pages[p]
  IN  /\ commit.layer = l /\ commit.stage = "pages" /\ DirtyPages(l) # {}
      /\ \/ /\ WriteOk(page.at, IndexPageSize, "IndexPage", page.content)
            /\ files' = [files EXCEPT ![l].pages[p] = NoBuffer,
                                      ![l].directory.content[p] = page.at]
            /\ UNCHANGED <<extents, header, table, commit>>
         \/ WriteFails(page.at, "IndexPage") /\ CommitFails(l)
      /\ CommitElse

\* UpdateFileTable: a new table for a file that is not in it, a table that is
\* moved for one whose page directory is elsewhere.  What is in the table by
\* then may not have been written: that is not looked at.
TableUnchanged(l) == files[l].listed /\ table.content[l] = files[l].directory.at
UpdateFileTable(l) ==
  LET content == [table.content EXCEPT ![l] = files[l].directory.at]
      moves   == ~files[l].listed \/ ~table.dirty
  IN  /\ extents' = IF moves THEN Allocated(extents, TableSize(content), "FileTable") ELSE extents
      /\ table' = [at |-> IF moves THEN PlaceFor(extents, TableSize(content)) ELSE table.at,
                   content |-> content, dirty |-> TRUE]
      /\ header' = IF files[l].listed THEN header ELSE [header EXCEPT !.dirty = TRUE]
      /\ files' = [files EXCEPT ![l].listed = TRUE, ![l].head = files[l].directory.at,
                                ![l].directoryDirty = FALSE]

CommitPageDirectory(l) ==
  LET directory == files[l].directory
      clean     == [files[l] EXCEPT !.head = directory.at, !.directoryDirty = FALSE]
  IN  /\ commit.layer = l /\ commit.stage = "pages" /\ DirtyPages(l) = {}
      /\ \/ /\ WriteOk(directory.at, DirectorySize, "PageDirectory", directory.content)
            /\ IF TableUnchanged(l)
               THEN EndCommit(l, TRUE, clean) /\ UNCHANGED <<extents, header, table>>
               ELSE UpdateFileTable(l) /\ commit' = [commit EXCEPT !.stage = "table"]
         \/ WriteFails(directory.at, "PageDirectory") /\ CommitFails(l)
      /\ CommitElse

\* CommitFileTable: the table, then the header that points to it.
CommitTable(l) ==
  /\ commit.layer = l /\ commit.stage = "table"
  /\ \/ /\ WriteOk(table.at, TableSize(table.content), "FileTable", table.content)
        /\ table' = [table EXCEPT !.dirty = FALSE]
        /\ header' = [table |-> table.at, dirty |-> TRUE]
        /\ commit' = [commit EXCEPT !.stage = "header"]
        /\ UNCHANGED <<extents, files>>
     \/ WriteFails(table.at, "FileTable") /\ CommitFails(l)
  /\ CommitElse

CommitHeader(l) ==
  /\ commit.layer = l /\ commit.stage = "header"
  /\ \/ /\ WriteOk(0, HeaderSize, "DataStoreHeader", <<header.table>>)
        /\ header' = [header EXCEPT !.dirty = FALSE]
        /\ EndCommit(l, TRUE, files[l])
        /\ UNCHANGED <<extents, table>>
     \/ WriteFails(0, "DataStoreHeader") /\ CommitFails(l)
  /\ CommitElse

-----------------------------------------------------------------------------
Next ==
  /\ ~broken
  /\ \/ CreateNew \/ Open \/ Crash \/ Flush \/ FlushReturn
     \/ \E l \in Layers :
          \/ AddLayer(l) \/ FlushLayer(l) \/ CommitIndexPage(l) \/ CommitPageDirectory(l)
          \/ CommitTable(l) \/ CommitHeader(l)
          \/ \E c \in Chunks : \/ CreateChunkDataIndexEntry(l, c) \/ WriteChunkData(l, c)
                               \/ WriteIndexEntry(l, c)
Spec == Init /\ [][Next]_vars

-----------------------------------------------------------------------------
(* Properties.                                                             *)

\* What a reader finds for the chunks of layer l by this page directory, the
\* index pages in memory before those in the file.
ReadChunkAt(l, c, at) ==
  LET block == Content[at, "Chunk"]
  IN  IF at = None THEN 0
      ELSE IF block # <<>> /\ block[1] = l /\ block[2] = c THEN block[3]
      ELSE IF at \in lost THEN Lost ELSE Garbage
ContentsBy[l \in Layers, directory \in Seq(Nat), pages \in [IndexPages -> Buffer]] ==
  LET Page(p) == IF pages[p] # NoBuffer THEN pages[p].content
                 ELSE IF directory[p] = None THEN ZeroPage ELSE Content[directory[p], "IndexPage"]
  IN  [c \in Chunks |-> ReadChunkAt(l, c, Page(PageOf(c))[EntryOf(c)])]

\* What a process that opens the file now would find, and what this one finds.
Durable ==
  LET head  == Content[0, "DataStoreHeader"]
      table0 == IF head = <<>> THEN NoTable.content ELSE Content[head[1], "FileTable"]
  IN  [l \in Layers |-> IF table0[l] = None THEN Absent
        ELSE ContentsBy[l, Content[table0[l], "PageDirectory"], NoFile.pages]]
Working ==
  IF ~isOpen THEN Durable
  ELSE [l \in Layers |-> IF files[l].added
         THEN ContentsBy[l, files[l].directory.content, files[l].pages] ELSE Absent]

\* The store keeps the promise of DurableLayers: whatever the process was
\* doing when it stopped, each layer is found as some Commit left it, whole;
\* a commit in progress, a write in progress and a failed write of an index
\* page or a page directory change nothing of it, and no write of a chunk
\* lands on anything that the file still refers to.
Promise == INSTANCE DurableLayers
             WITH Values <- 1 .. MaxWrites \cup {Lost}, Nothing <- 0,
                  working <- Working, durable <- Durable
KeepsPromise == Promise!Spec

\* Whatever the file refers to and whatever is being written has an extent of
\* its own, in this session and after the allocator has been built anew.
MemoryRefs ==
  LET added == {l \in Layers : files[l].added}
  IN  {Ref(0, HeaderSize, "DataStoreHeader", <<>>)}
        \cup (IF table.at = None THEN {}
              ELSE {Ref(table.at, TableSize(table.content), "FileTable", <<>>)})
        \cup UNION {DirectoryRefs(l, files[l].directory.at, files[l].directory.content) : l \in added}
        \cup UNION {{Ref(files[l].pages[p].at, IndexPageSize, "IndexPage", <<l, p>>)}
                      \cup ChunkRefs(l, p, files[l].pages[p].content) :
                        <<l, p>> \in {x \in Layers \X IndexPages : files[x[1]].pages[x[2]] # NoBuffer}}
        \cup {Ref(writes[w].at, ChunkSize(w[2]), "Chunk", w) :
                w \in {x \in Layers \X Chunks : writes[x].state # "idle"}}
ExtentsDisjoint ==
  LET head == Content[0, "DataStoreHeader"]
      refs == (IF head = <<>> THEN {} ELSE FileRefs(head[1])) \cup (IF isOpen THEN MemoryRefs ELSE {})
  IN  \A x, y \in refs : Overlap(x, y) => x = y

\* When Flush returns without an error, everything that had been written when
\* it was called would be found by a process that opens the file.
FlushSaves == commit.stage = "returned" /\ ~commit.failed => Durable = Working
=============================================================================
