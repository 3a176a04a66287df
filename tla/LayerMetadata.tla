---------------------------- MODULE LayerMetadata ----------------------------
(***************************************************************************)
(* The metadata pages of one layer in a cloud store: MetadataManager, and  *)
(* the parts of VolumeDataStoreIOManager that lock its pages - the reads   *)
(* of chunks, ReadChunkDataHash, the uploads of chunks with their retries, *)
(* and Flush, called as VolumeDataAccessManagerImpl::Flush calls it.       *)
(*                                                                         *)
(* A metadata page holds one entry per chunk.  It is created empty when    *)
(* nothing of it has been stored, and downloaded otherwise; it is locked   *)
(* while an operation needs it, becomes dirty when an upload sets an entry,*)
(* is uploaded by Flush, and is dropped, least recently used first, when   *)
(* it is clean, unlocked and beyond m_pageLimit.  The page directory, which*)
(* says what pages are stored, is uploaded last, in the layer status.      *)
(*                                                                         *)
(* Two mutexes: that of the metadata manager, which no step here keeps, and*)
(* that of the store, which PrepareReadChunkImpl keeps while LockPage may  *)
(* wait for a flush (ioMutex).  A step is one critical section of either.  *)
(* The request cache above (StorageRequests) lets one client at a time read*)
(* or write a chunk here, so an operation is named by its chunk; its entry *)
(* in m_pendingDownloadRequests or m_pendingUploadRequests is its pc.  The *)
(* exception is the download that a reader leaves behind: one that cancels *)
(* while a writer waits for it does not cancel its download, which goes on *)
(* beside the write (orphan).                                              *)
(* The callbacks of transfers and uploads run in one event loop (curl) or  *)
(* in a pool of threads (OneLoop).                                         *)
(* Entries and chunk objects are version numbers, 0 if never written.      *)
(***************************************************************************)
EXTENDS Integers, Sequences, FiniteSets, SequencesExt, UniqueLists

CONSTANTS Chunks, Pages,
          PageOf,         \* the metadata page of each chunk
          PageLimit,      \* m_pageLimit: clean pages kept in memory
          CreateEmpty,    \* m_createEmptyPages: the layer is new in this session
          StoredPages,    \* the pages stored when the layer was opened
          ReadChunks,     \* the chunks that are read, or whose hash is,
          WriteChunks,    \* those that are written,
          Hashers,        \* and the threads that read hashes
          OneLoop,        \* do the callbacks of the transport share one thread?
          MaxWrites,      \* bound: writes of a chunk
          MaxFaults,      \* bound: failed transfers, downloads and uploads
          MaxFlushes,     \* bound: calls of Flush
          MaxHashes,      \* bound: calls of ReadChunkDataHash
          NoPage,         \* no such page in m_pageMap
          NoOne           \* nobody holds the mutex, or is awaited

Versions == 0 .. MaxWrites + 1
MaxAttempts == 2
OrphanOf(c) == <<"left", c>>   \* the download of c that a reader left behind

Page == [valid : BOOLEAN, failed : BOOLEAN, lockCount : Nat,
         transfer : {"none", "running", "answered", "ended"}]

ASSUME MetadataAssumption ==
  /\ IsFiniteSet(Chunks) /\ Chunks # {}
  /\ IsFiniteSet(Hashers) /\ Hashers \cap Chunks = {}
  /\ \A c \in Chunks : OrphanOf(c) \notin Chunks \cup Hashers
  /\ OneLoop \in BOOLEAN
  /\ PageOf \in [Chunks -> Pages]
  /\ StoredPages \subseteq Pages
  /\ ReadChunks \subseteq Chunks
  /\ WriteChunks \subseteq Chunks
  /\ PageLimit \in Nat \ {0}
  /\ MaxWrites \in Nat
  /\ MaxFaults \in Nat /\ MaxFlushes \in Nat /\ MaxHashes \in Nat
  /\ CreateEmpty \in BOOLEAN
  /\ CreateEmpty => StoredPages = {}
  /\ NoPage \notin Page
  /\ NoOne \notin Chunks

VARIABLES page,            \* m_pageMap
          entry,           \* the entry of a chunk in its page in memory
          pageList,        \* m_pageList: clean pages, most recently used first
          dirtyPageList,   \* m_dirtyPageList
          lockedPageCount, \* m_lockedPageCount
          isFlushInProgress,
          directory,       \* the pages that m_pageDirectory knows to be stored
          layerStatusDirty,
          ioMutex,         \* the reader that keeps the mutex of the store
          pc,              \* the operation on each chunk
          orphan,          \* the download left behind by a reader of a chunk
          attempts,        \* of the upload in flight
          hashing,         \* where each hasher is, and its chunk
          flush,           \* where Flush is
          awaited,         \* the upload whose present attempt Flush waits for
          mustSave,        \* what had been written when Flush was called
          uploadErrors,    \* the number of upload errors not yet reported
          written,         \* the version of the last upload that succeeded
          object,          \* chunk objects in the cloud,
          storedEntry,     \* metadata pages in the cloud, entry by entry,
          storedDirectory, \* and the layer status in the cloud
          broken,          \* has an assertion failed, or freed memory been used?
          faults, flushes, hashes  \* counted for the bounds

pageVars   == <<page, entry, pageList, dirtyPageList, lockedPageCount>>
flushVars  == <<isFlushInProgress, directory, layerStatusDirty, flush, awaited,
                mustSave, flushes>>
cloudVars  == <<object, storedEntry, storedDirectory>>
clientVars == <<pc, orphan, attempts, written, uploadErrors>>
hashVars   == <<hashing, hashes>>
vars == <<pageVars, flushVars, cloudVars, clientVars, hashVars, ioMutex,
          broken, faults>>

ReadStates  == {"lockForRead", "initiateRead", "checkError", "checkValid", "waitPage",
                "pageError", "unlockRead", "unlockCancel", "download"}
WriteStates == {"lockForWrite", "initiateWrite", "startUpload", "upload", "uploadFailed",
                "uploaded", "entrySet"}
UploadStates == {"upload", "uploadFailed", "uploaded", "entrySet"}
FlushStates == {"idle", "waitWrites", "drain", "await", "uploadPages",
                "waitUnlocked", "dirtyPages", "status", "done"}
HashStates  == {"idle", "initiate", "complete"}

TypeOK ==
  /\ page \in [Pages -> Page \cup {NoPage}]
  /\ entry \in [Chunks -> Versions]
  /\ pageList \in Seq(Pages) /\ dirtyPageList \in Seq(Pages)
  /\ lockedPageCount \in Nat
  /\ isFlushInProgress \in BOOLEAN
  /\ directory \subseteq Pages
  /\ layerStatusDirty \in BOOLEAN
  /\ ioMutex \in Chunks \cup {NoOne}
  /\ pc \in [Chunks -> {"idle"} \cup ReadStates \cup WriteStates]
  /\ orphan \in [Chunks -> {"none", "waiting", "ended"}]
  /\ attempts \in [Chunks -> 0 .. MaxAttempts]
  /\ hashing \in [Hashers -> [at : Chunks, state : HashStates]]
  /\ flush \in FlushStates
  /\ awaited \in Chunks \cup {NoOne}
  /\ mustSave \in [Chunks -> Versions]
  /\ uploadErrors \in Nat
  /\ written \in [Chunks -> Versions]
  /\ object \in [Chunks -> Versions]
  /\ storedEntry \in [Chunks -> Versions]
  /\ storedDirectory \subseteq Pages
  /\ broken \in BOOLEAN
  /\ faults \in 0 .. MaxFaults
  /\ flushes \in 0 .. MaxFlushes
  /\ hashes \in 0 .. MaxHashes

NoChunk == CHOOSE c \in Chunks : TRUE   \* of a hasher that is idle
ChunksOf(p) == {c \in Chunks : PageOf[c] = p}
Initial(c)  == IF PageOf[c] \in StoredPages THEN 1 ELSE 0

Init ==
  /\ page = [p \in Pages |-> NoPage]
  /\ entry = [c \in Chunks |-> 0]
  /\ pageList = <<>> /\ dirtyPageList = <<>>
  /\ lockedPageCount = 0
  /\ isFlushInProgress = FALSE
  /\ directory = StoredPages
  /\ layerStatusDirty = CreateEmpty
  /\ ioMutex = NoOne
  /\ pc = [c \in Chunks |-> "idle"]
  /\ orphan = [c \in Chunks |-> "none"]
  /\ attempts = [c \in Chunks |-> 0]
  /\ hashing = [h \in Hashers |-> [at |-> NoChunk, state |-> "idle"]]
  /\ flush = "idle"
  /\ awaited = NoOne
  /\ mustSave = [c \in Chunks |-> 0]
  /\ uploadErrors = 0
  /\ written = [c \in Chunks |-> Initial(c)]
  /\ object = [c \in Chunks |-> Initial(c)]
  /\ storedEntry = [c \in Chunks |-> Initial(c)]
  /\ storedDirectory = StoredPages
  /\ broken = FALSE
  /\ faults = 0 /\ flushes = 0 /\ hashes = 0

-----------------------------------------------------------------------------
(* MetadataManager.                                                        *)

\* LimitPages: clean pages beyond the limit go from the back of the list, up
\* to the first one that is locked.
Kept(pg, list) ==
  LET last == {i \in DOMAIN list : i <= PageLimit \/ pg[list[i]].lockCount > 0}
  IN  IF last = {} THEN <<>> ELSE SubSeq(list, 1, CHOOSE i \in last : \A j \in last : j <= i)
LimitPages(pg, list, values) ==
  LET kept == Kept(pg, list)
      gone == ToSet(list) \ ToSet(kept)
  IN  /\ pageList' = kept
      /\ page'  = [p \in Pages |-> IF p \in gone THEN NoPage ELSE pg[p]]
      /\ entry' = [c \in Chunks |-> IF PageOf[c] \in gone THEN 0 ELSE values[c]]

\* LockPage waits for a flush, then finds the page or makes one.  A new page
\* is empty and valid when the layer is new or the page was never stored.
IsEmptyPage_Unrecorded(p) == CreateEmpty \/ p \notin storedDirectory
IsEmptyPage(p) == CreateEmpty \/ p \notin directory
LockedPage(p) ==
  IF page[p] # NoPage THEN [page[p] EXCEPT !.lockCount = @ + 1]
  ELSE [valid |-> IsEmptyPage(p), failed |-> FALSE, lockCount |-> 1, transfer |-> "none"]
MovedToFront(p) ==
  IF p \in ToSet(dirtyPageList) THEN pageList ELSE <<p>> \o Erase(pageList, p)
InitiateTransferNeeded(p) == page[p] = NoPage /\ ~IsEmptyPage(p)
LockPage(p) ==
  /\ ~isFlushInProgress
  /\ lockedPageCount' = IF LockedPage(p).lockCount = 1 THEN lockedPageCount + 1
                        ELSE lockedPageCount
  /\ LimitPages([page EXCEPT ![p] = LockedPage(p)], MovedToFront(p), entry)
  /\ UNCHANGED dirtyPageList

\* UnlockPage, by n holders: a page nobody holds that is not valid is dropped
\* and its transfer cancelled, whose callback, when it has begun or begins
\* nevertheless, has a pointer to the page.
UnlockPages_Counted(pg, p, n) ==
  /\ LimitPages([pg EXCEPT ![p].lockCount = @ - n], pageList, entry)
  /\ UNCHANGED <<lockedPageCount, dirtyPageList>>
UnlockPages(pg, p, n) ==
  LET left    == pg[p].lockCount - n
      dropped == left = 0 /\ ~pg[p].valid
  IN  /\ lockedPageCount' = IF left = 0 /\ n > 0 THEN lockedPageCount - 1 ELSE lockedPageCount
      /\ LimitPages([pg EXCEPT ![p] = IF dropped THEN NoPage ELSE [@ EXCEPT !.lockCount = left]],
                    IF dropped THEN Erase(pageList, p) ELSE pageList, entry)
      /\ UNCHANGED dirtyPageList
PointerLeft(p) ==
  page[p].lockCount = 1 /\ ~page[p].valid /\ page[p].transfer \in {"running", "answered"}
UnlockPage(p) ==
  /\ UnlockPages(page, p, 1)
  /\ \E tooLate \in BOOLEAN : broken' = (broken \/ (tooLate /\ PointerLeft(p)))

InitiateTransfer(p) ==
  /\ page' = [page EXCEPT ![p].transfer = "running"]
  /\ UNCHANGED <<entry, pageList, dirtyPageList, lockedPageCount>>

\* CompleteTransfer returns at once when the page is valid or nobody has
\* started a transfer, and waits for the end of the request otherwise.
TransferIsComplete(p) == page[p].valid \/ page[p].transfer \in {"none", "ended"}

SetPageEntry(c, v) ==
  LET p == PageOf[c]
  IN  /\ entry' = [entry EXCEPT ![c] = v]
      /\ IF p \in ToSet(dirtyPageList) THEN UNCHANGED <<pageList, dirtyPageList>>
         ELSE /\ pageList' = Erase(pageList, p)
              /\ dirtyPageList' = Append(dirtyPageList, p)
      /\ UNCHANGED <<page, lockedPageCount>>

\* The thread of the callbacks is free for another: no callback waits in it for
\* the mutex of the store, or for a page.
CallbackStates == {"uploadFailed", "uploaded", "entrySet"}
LoopFree ==
  OneLoop => /\ \A c \in Chunks : pc[c] \notin CallbackStates
             /\ \A p \in Pages : page[p] # NoPage => page[p].transfer # "answered"

\* The first half of the transfer's callback: PageTransferCompleted or
\* PageTransferError of the metadata manager.
Fault == faults < MaxFaults /\ faults' = faults + 1
TransferAnswers(p) ==
  /\ page[p] # NoPage /\ page[p].transfer = "running" /\ LoopFree
  /\ \/ /\ page' = [page EXCEPT ![p].transfer = "answered", ![p].valid = TRUE]
        /\ entry' = [c \in Chunks |-> IF PageOf[c] = p THEN storedEntry[c] ELSE entry[c]]
        /\ UNCHANGED faults
     \/ /\ Fault
        /\ page' = [page EXCEPT ![p].transfer = "answered", ![p].failed = TRUE]
        /\ UNCHANGED entry
  /\ UNCHANGED <<pageList, dirtyPageList, lockedPageCount, flushVars, cloudVars,
                 clientVars, hashVars, ioMutex, broken>>

\* PageTransferCompleted of the store, the second half: every download that
\* waits for the page - left behind or not - is started with its entry or
\* gets the error, and unlocks the page.
LeftBehind(p) == {OrphanOf(c) : c \in {d \in ChunksOf(p) : orphan[d] = "waiting"}}
WaitingFor(p) == {c \in ChunksOf(p) : pc[c] = "waitPage"} \cup LeftBehind(p)
PageTransferCompleted(p) ==
  LET ended == [page EXCEPT ![p].transfer = "ended"]
  IN  /\ page[p] # NoPage /\ page[p].transfer = "answered"
      /\ ioMutex = NoOne
      /\ pc' = [c \in Chunks |-> IF c \notin WaitingFor(p) THEN pc[c]
                                ELSE IF page[p].failed THEN "pageError" ELSE "download"]
      /\ orphan' = [c \in Chunks |-> IF OrphanOf(c) \in WaitingFor(p) THEN "ended" ELSE orphan[c]]
      /\ UnlockPages(ended, p, Cardinality(WaitingFor(p)))
      /\ UNCHANGED <<flushVars, cloudVars, attempts, written, uploadErrors, hashVars,
                     ioMutex, broken, faults>>

-----------------------------------------------------------------------------
(* PrepareReadChunkImpl, ReadChunkImpl and CancelReadChunkImpl.            *)

At(c, s) == pc[c] = s
Goto(c, s) == pc' = [pc EXCEPT ![c] = s]
ReadUnchanged == UNCHANGED <<flushVars, cloudVars, attempts, written, uploadErrors,
                             hashVars, faults>>

BeginPrepare(c) ==
  /\ At(c, "idle") /\ c \in ReadChunks /\ ioMutex = NoOne
  /\ ioMutex' = c
  /\ Goto(c, "lockForRead")
  /\ UNCHANGED <<pageVars, orphan, broken>> /\ ReadUnchanged

PrepareLock(c) ==
  /\ At(c, "lockForRead")
  /\ LockPage(PageOf[c])
  /\ Goto(c, IF InitiateTransferNeeded(PageOf[c]) THEN "initiateRead" ELSE "checkError")
  /\ UNCHANGED <<orphan, ioMutex, broken>> /\ ReadUnchanged

PrepareInitiate(c) ==
  /\ At(c, "initiateRead")
  /\ InitiateTransfer(PageOf[c])
  /\ Goto(c, "checkValid")
  /\ UNCHANGED <<orphan, ioMutex, broken>> /\ ReadUnchanged

ReturnError_Locked(c) == UNCHANGED <<pageVars, broken>>
ReturnError(c) == UnlockPage(PageOf[c])
PrepareCheckError(c) ==
  /\ At(c, "checkError")
  /\ IF page[PageOf[c]].failed
     THEN ReturnError(c) /\ ioMutex' = NoOne /\ Goto(c, "idle")
     ELSE UNCHANGED <<pageVars, ioMutex, broken>> /\ Goto(c, "checkValid")
  /\ UNCHANGED orphan /\ ReadUnchanged

\* A pending download is entered, and asserted to be the only one of the chunk.
AssertNoDownload(c) == orphan[c] = "none"
PrepareCheckValid(c) ==
  /\ At(c, "checkValid")
  /\ IF page[PageOf[c]].valid
     THEN Goto(c, "unlockRead") /\ UNCHANGED broken
     ELSE Goto(c, "waitPage") /\ broken' = (broken \/ ~AssertNoDownload(c))
  /\ ioMutex' = NoOne
  /\ UNCHANGED <<pageVars, orphan>> /\ ReadUnchanged

\* The page is unlocked without the mutex, which is taken again to enter the
\* download with the entry found.
PrepareUnlock(c) ==
  /\ At(c, "unlockRead")
  /\ IF AssertNoDownload(c) THEN UnlockPage(PageOf[c])
     ELSE UnlockPages(page, PageOf[c], 1) /\ broken' = TRUE
  /\ Goto(c, "download")
  /\ UNCHANGED <<orphan, ioMutex>> /\ ReadUnchanged

\* The chunk is read, or the read of it reports the error of its page.
ReadChunk(c) ==
  /\ pc[c] \in {"download", "pageError"} /\ ioMutex = NoOne
  /\ Goto(c, "idle")
  /\ UNCHANGED <<pageVars, orphan, ioMutex, broken>> /\ ReadUnchanged

CancelReadChunk(c) ==
  /\ At(c, "waitPage") /\ ioMutex = NoOne
  /\ Goto(c, "unlockCancel")
  /\ UNCHANGED <<pageVars, orphan, ioMutex, broken>> /\ ReadUnchanged

CancelUnlock(c) ==
  /\ At(c, "unlockCancel")
  /\ UnlockPage(PageOf[c])
  /\ Goto(c, "idle")
  /\ UNCHANGED <<orphan, ioMutex>> /\ ReadUnchanged

\* The reader cancels while a writer of the chunk waits for it: the request is
\* the writer's now, which goes on, and the download stays.
MayWrite(c) == c \in WriteChunks /\ written[c] < Initial(c) + MaxWrites
LeaveRead(c) ==
  /\ pc[c] \in {"waitPage", "download", "pageError"} /\ ioMutex = NoOne /\ MayWrite(c)
  /\ orphan' = [orphan EXCEPT ![c] = IF At(c, "waitPage") THEN "waiting" ELSE "ended"]
  /\ Goto(c, "lockForWrite")
  /\ UNCHANGED <<pageVars, ioMutex, broken>> /\ ReadUnchanged

-----------------------------------------------------------------------------
(* WriteChunkImpl and the callback of its upload, which the transport calls*)
(* before it wakes those who wait for that attempt.                        *)

WriteUnchanged == UNCHANGED <<isFlushInProgress, directory, layerStatusDirty, mustSave,
                              flushes, storedEntry, storedDirectory, orphan, hashVars, ioMutex>>
FlushUnchanged == UNCHANGED <<flush, awaited>>

WriteLock(c) ==
  /\ pc[c] \in {"idle", "lockForWrite"} /\ MayWrite(c)
  /\ LockPage(PageOf[c])
  /\ Goto(c, IF InitiateTransferNeeded(PageOf[c]) THEN "initiateWrite" ELSE "startUpload")
  /\ UNCHANGED <<attempts, written, uploadErrors, object, broken, faults>>
  /\ WriteUnchanged /\ FlushUnchanged

WriteInitiate(c) ==
  /\ At(c, "initiateWrite")
  /\ InitiateTransfer(PageOf[c])
  /\ Goto(c, "startUpload")
  /\ UNCHANGED <<attempts, written, uploadErrors, object, broken, faults>>
  /\ WriteUnchanged /\ FlushUnchanged

StartNewUpload(c) ==
  /\ At(c, "startUpload") /\ ioMutex = NoOne
  /\ Goto(c, "upload") /\ attempts' = [attempts EXCEPT ![c] = 1]
  /\ UNCHANGED <<pageVars, written, uploadErrors, object, broken, faults>>
  /\ WriteUnchanged /\ FlushUnchanged

\* The chunk object arrives in the cloud, or the attempt fails.
UploadEnds(c) ==
  /\ At(c, "upload") /\ LoopFree
  /\ \/ /\ Goto(c, "uploaded") /\ object' = [object EXCEPT ![c] = written[c] + 1]
        /\ UNCHANGED faults
     \/ Fault /\ Goto(c, "uploadFailed") /\ UNCHANGED object
  /\ UNCHANGED <<pageVars, attempts, written, uploadErrors, broken>>
  /\ WriteUnchanged /\ FlushUnchanged

\* A Flush that waited for the attempt returns its error.
AttemptFailed(c) ==
  /\ flush'   = IF awaited = c THEN "idle" ELSE flush
  /\ awaited' = IF awaited = c THEN NoOne ELSE awaited

MayRetry_Always(c) == TRUE
MayRetry(c) == attempts[c] < MaxAttempts
RetryUpload(c) ==
  /\ At(c, "uploadFailed") /\ ioMutex = NoOne /\ MayRetry(c)
  /\ Goto(c, "upload") /\ attempts' = [attempts EXCEPT ![c] = @ + 1]
  /\ AttemptFailed(c)
  /\ UNCHANGED <<pageVars, written, uploadErrors, object, broken, faults>> /\ WriteUnchanged

GiveUpUpload(c) ==
  /\ At(c, "uploadFailed") /\ ioMutex = NoOne /\ ~MayRetry(c)
  /\ uploadErrors' = uploadErrors + 1
  /\ UnlockPage(PageOf[c])
  /\ Goto(c, "idle") /\ attempts' = [attempts EXCEPT ![c] = 0]
  /\ AttemptFailed(c)
  /\ UNCHANGED <<written, object, faults>> /\ WriteUnchanged

\* CompleteTransfer, then SetPageEntry: the page is asserted to be valid.
SetChunkEntry(c) ==
  /\ At(c, "uploaded") /\ TransferIsComplete(PageOf[c])
  /\ IF page[PageOf[c]].valid
     THEN SetPageEntry(c, written[c] + 1) /\ Goto(c, "entrySet") /\ UNCHANGED broken
     ELSE broken' = TRUE /\ UNCHANGED <<pageVars, pc>>
  /\ UNCHANGED <<attempts, written, uploadErrors, object, faults>>
  /\ WriteUnchanged /\ FlushUnchanged

FinishUpload(c) ==
  /\ At(c, "entrySet") /\ ioMutex = NoOne
  /\ UnlockPage(PageOf[c])
  /\ Goto(c, "idle") /\ attempts' = [attempts EXCEPT ![c] = 0]
  /\ written' = [written EXCEPT ![c] = @ + 1]
  /\ flush'   = IF awaited = c THEN "drain" ELSE flush
  /\ awaited' = IF awaited = c THEN NoOne ELSE awaited
  /\ UNCHANGED <<uploadErrors, object, faults>> /\ WriteUnchanged

-----------------------------------------------------------------------------
(* ReadChunkDataHash, whose PageUnlocker unlocks the page at every return. *)

HashUnchanged == UNCHANGED <<flushVars, cloudVars, clientVars, ioMutex, faults>>

HashLock(h, c) ==
  /\ hashing[h].state = "idle" /\ hashes < MaxHashes
  /\ hashes' = hashes + 1
  /\ LockPage(PageOf[c])
  /\ hashing' = [hashing EXCEPT ![h] = [at |-> c, state |->
                   IF InitiateTransferNeeded(PageOf[c]) THEN "initiate" ELSE "complete"]]
  /\ UNCHANGED broken /\ HashUnchanged

HashInitiate(h) ==
  /\ hashing[h].state = "initiate"
  /\ InitiateTransfer(PageOf[hashing[h].at])
  /\ hashing' = [hashing EXCEPT ![h].state = "complete"]
  /\ UNCHANGED <<hashes, broken>> /\ HashUnchanged

HashReturn(h) ==
  /\ hashing[h].state = "complete" /\ TransferIsComplete(PageOf[hashing[h].at])
  /\ UnlockPage(PageOf[hashing[h].at])
  /\ hashing' = [hashing EXCEPT ![h] = [at |-> NoChunk, state |-> "idle"]]
  /\ UNCHANGED hashes /\ HashUnchanged

-----------------------------------------------------------------------------
(* Flush, called by one thread, as VolumeDataAccessManagerImpl calls it.   *)

FlushElse == UNCHANGED <<clientVars, hashVars, ioMutex, object, broken>>
Uploading == {c \in Chunks : pc[c] \in UploadStates}
FlushGoto(s) == flush' = s

FlushStart ==
  /\ flush = "idle" /\ flushes < MaxFlushes
  /\ FlushGoto("waitWrites") /\ flushes' = flushes + 1
  /\ mustSave' = [c \in Chunks |-> IF c \in Uploading THEN written[c] + 1 ELSE written[c]]
  /\ UNCHANGED <<pageVars, isFlushInProgress, directory, layerStatusDirty, awaited,
                 storedEntry, storedDirectory, faults>> /\ FlushElse

\* CompletePendingWriteChunkRequests(0); an earlier upload error is reported.
ErrorPending_Never == FALSE
ErrorPending == uploadErrors > 0
FlushWaited ==
  /\ flush = "waitWrites" /\ Uploading = {}
  /\ IF ErrorPending
     THEN FlushGoto("idle") /\ uploadErrors' = uploadErrors - 1
     ELSE FlushGoto("drain") /\ UNCHANGED uploadErrors
  /\ UNCHANGED <<pageVars, isFlushInProgress, directory, layerStatusDirty, awaited, mustSave,
                 flushes, cloudVars, faults, pc, orphan, attempts, written, hashVars, ioMutex, broken>>

\* The loop over m_pendingUploadRequests waits for the attempt it finds.
FlushDrain ==
  /\ flush = "drain" /\ ioMutex = NoOne
  /\ \/ Uploading = {} /\ FlushGoto("uploadPages") /\ UNCHANGED awaited
     \/ \E c \in Uploading : FlushGoto("await") /\ awaited' = c
  /\ UNCHANGED <<pageVars, isFlushInProgress, directory, layerStatusDirty, mustSave, flushes,
                 storedEntry, storedDirectory, faults>> /\ FlushElse

\* UploadDirtyPages: no page can be locked from here on,
FlushPages ==
  /\ flush = "uploadPages"
  /\ isFlushInProgress' = TRUE
  /\ FlushGoto("waitUnlocked")
  /\ UNCHANGED <<pageVars, directory, layerStatusDirty, awaited, mustSave, flushes,
                 storedEntry, storedDirectory, faults>> /\ FlushElse

\* and those that are must be unlocked.
FlushUnlocked ==
  /\ flush = "waitUnlocked" /\ lockedPageCount = 0
  /\ FlushGoto("dirtyPages")
  /\ UNCHANGED <<pageVars, isFlushInProgress, directory, layerStatusDirty, awaited, mustSave,
                 flushes, storedEntry, storedDirectory, faults>> /\ FlushElse

UploadDirtyPage ==
  LET p == Head(dirtyPageList)
  IN  /\ flush = "dirtyPages" /\ dirtyPageList # <<>> /\ LoopFree
      /\ \/ /\ storedEntry' = [c \in Chunks |-> IF PageOf[c] = p THEN entry[c] ELSE storedEntry[c]]
            /\ directory' = directory \cup {p}
            /\ dirtyPageList' = Tail(dirtyPageList) /\ pageList' = <<p>> \o pageList
            /\ layerStatusDirty' = TRUE
            /\ UNCHANGED <<isFlushInProgress, flush, faults>>
         \/ /\ Fault
            /\ dirtyPageList' = Append(Tail(dirtyPageList), p)
            /\ isFlushInProgress' = FALSE /\ FlushGoto("idle")
            /\ UNCHANGED <<storedEntry, directory, pageList, layerStatusDirty>>
      /\ UNCHANGED <<page, entry, lockedPageCount, awaited, mustSave, flushes, storedDirectory>>
      /\ FlushElse

DirtyPagesUploaded ==
  /\ flush = "dirtyPages" /\ dirtyPageList = <<>>
  /\ isFlushInProgress' = FALSE
  /\ FlushGoto(IF layerStatusDirty THEN "status" ELSE "done")
  /\ UNCHANGED <<pageVars, directory, layerStatusDirty, awaited, mustSave, flushes,
                 storedEntry, storedDirectory, faults>> /\ FlushElse

UploadLayerStatus ==
  /\ flush = "status" /\ LoopFree
  /\ \/ /\ storedDirectory' = directory /\ layerStatusDirty' = FALSE
        /\ FlushGoto("done")
        /\ UNCHANGED faults
     \/ Fault /\ FlushGoto("idle") /\ UNCHANGED <<storedDirectory, layerStatusDirty>>
  /\ UNCHANGED <<pageVars, isFlushInProgress, directory, awaited, mustSave, flushes, storedEntry>>
  /\ FlushElse

FlushReturn ==
  /\ flush = "done" /\ FlushGoto("idle")
  /\ UNCHANGED <<pageVars, isFlushInProgress, directory, layerStatusDirty, awaited, mustSave,
                 flushes, storedEntry, storedDirectory, faults>> /\ FlushElse

-----------------------------------------------------------------------------
PrepareStep(c) == PrepareLock(c) \/ PrepareInitiate(c) \/ PrepareCheckError(c)
                  \/ PrepareCheckValid(c)
UnlockStep(c)  == PrepareUnlock(c) \/ CancelUnlock(c)
MutexStep(c)   == StartNewUpload(c) \/ RetryUpload(c) \/ GiveUpUpload(c) \/ FinishUpload(c)
WriteStep(c)   == WriteInitiate(c) \/ UploadEnds(c) \/ SetChunkEntry(c)
HashStep(h)    == HashInitiate(h) \/ HashReturn(h)
FlushStep      == FlushWaited \/ FlushPages \/ FlushUnlocked \/ UploadDirtyPage
                  \/ DirtyPagesUploaded \/ UploadLayerStatus \/ FlushReturn

\* Threads run, transfers and uploads end; and those that want the mutex of the
\* store are not passed over for ever by readers that keep taking it.  This is
\* weaker than fairness to every thread, and enough: all but reads is bounded.
ReadWork  == \E c \in Chunks : PrepareStep(c) \/ UnlockStep(c)
FreeWork  == \/ \E p \in Pages : TransferAnswers(p)
             \/ \E c \in Chunks : WriteStep(c)
             \/ \E h \in Hashers : HashStep(h)
             \/ FlushStep
MutexWork == \/ \E p \in Pages : PageTransferCompleted(p)
             \/ \E c \in Chunks : MutexStep(c)
             \/ FlushDrain
Fairness == /\ WF_vars(~broken /\ ReadWork)
            /\ WF_vars(~broken /\ FreeWork)
            /\ SF_vars(~broken /\ MutexWork)

Next ==
  /\ ~broken
  /\ \/ ReadWork \/ FreeWork \/ MutexWork
     \/ \E c \in Chunks : BeginPrepare(c) \/ ReadChunk(c) \/ CancelReadChunk(c)
                           \/ LeaveRead(c) \/ WriteLock(c)
     \/ \E h \in Hashers, c \in ReadChunks : HashLock(h, c)
     \/ FlushStart

Spec == Init /\ [][Next]_vars
FairSpec == Spec /\ Fairness

-----------------------------------------------------------------------------
(* Properties.                                                             *)

HoldingStates == {"initiateRead", "checkError", "checkValid", "waitPage", "unlockRead",
                  "unlockCancel", "initiateWrite", "startUpload"} \cup UploadStates
Holders(p) == {c \in ChunksOf(p) : pc[c] \in HoldingStates} \cup LeftBehind(p)
                \cup {h \in Hashers : hashing[h].state # "idle" /\ PageOf[hashing[h].at] = p}

\* The lock count of a page is the number of operations that hold it, on every
\* path of theirs - errors, retries and cancellations included -, what Flush
\* waits for, m_lockedPageCount, counts the pages held, and m_pageList and
\* m_dirtyPageList share out the pages in memory (an assertion of LimitPages,
\* LockPage and UnlockPage), the dirty ones being valid.
InMemory == {p \in Pages : page[p] # NoPage}
PagesExact ==
  ~broken =>
    /\ \A p \in Pages : Cardinality(Holders(p)) = IF p \in InMemory THEN page[p].lockCount ELSE 0
    /\ lockedPageCount = Cardinality({p \in Pages : Holders(p) # {}})
    /\ ToSet(pageList) \cup ToSet(dirtyPageList) = InMemory
    /\ Len(pageList) + Len(dirtyPageList) = Cardinality(InMemory)
    /\ \A p \in ToSet(dirtyPageList) : page[p].valid

\* What LockPage would find for a chunk, in memory or by a download, is the
\* entry of its last upload: dropping pages from memory loses no entry.
FoundEntry(c) ==
  LET p == PageOf[c]
  IN  IF page[p] # NoPage /\ page[p].valid THEN entry[c]
      ELSE IF page[p] = NoPage /\ IsEmptyPage(p) THEN 0 ELSE storedEntry[c]
EntriesKept ==
  \A c \in Chunks : FoundEntry(c) = written[c] + (IF At(c, "entrySet") THEN 1 ELSE 0)

\* When Flush returns without an error, everything whose upload had begun when
\* it was called is found by who opens the layer anew: through the directory
\* of the layer status to a stored page that has the entry.
Recoverable(c) == IF PageOf[c] \in storedDirectory THEN storedEntry[c] ELSE 0
FlushSaves == flush = "done" => \A c \in Chunks : Recoverable(c) >= mustSave[c]

\* While a Flush has not returned some step that is not a client's can be taken,
\* but for two orders: a reader waits for the flush, in LockPage, with the mutex
\* of the store that those want who must unlock their pages first; or the one
\* thread of the callbacks waits, in CompleteTransfer, for a page whose transfer
\* it would have to answer.
ReaderWaitsForFlush == isFlushInProgress /\ ioMutex # NoOne /\ At(ioMutex, "lockForRead")
CallbackWaitsForPage ==
  OneLoop /\ \E c \in Chunks : At(c, "uploaded") /\ ~TransferIsComplete(PageOf[c])
FlushNotStuck ==
  flush # "idle" /\ ~broken /\ ~ReaderWaitsForFlush /\ ~CallbackWaitsForPage
    => ENABLED (ReadWork \/ FreeWork \/ MutexWork)

\* VolumeDataAccessManager.h says of Flush: "Flush any pending writes and write
\* updated layer status"; it should return.
FlushReturns == []<>(flush = "idle" \/ broken)

\* Format.rst: "Chunk-metadata page entries with a value of 0 indicate a chunk
\* has not been written", when a Flush has stored what was written before it.
ZeroMeansNotWritten ==
  flush = "done" => \A c \in Chunks :
    PageOf[c] \in storedDirectory /\ storedEntry[c] = 0 => mustSave[c] = 0

\* WriteChunkImpl asserts it of the page whose entry it sets, although nothing
\* has made sure of it.
UploadFindsPage ==
  \A c \in Chunks : At(c, "uploaded") /\ TransferIsComplete(PageOf[c]) => page[PageOf[c]].valid

\* CloudStorageFormat.rst: "It is an error to have mismatching chunk-metadata in
\* the chunk object and the chunk-metadata page": a download started with the
\* entry of a page is given the object of that entry.
DownloadsMatch ==
  [][\A c \in Chunks :
       orphan[c] = "waiting" /\ orphan'[c] = "ended" /\ page[PageOf[c]].valid => entry[c] = object[c]]_vars
=============================================================================
