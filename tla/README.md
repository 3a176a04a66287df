# OpenVDS: a verification of its chunk pipeline

OpenVDS stores volumes of seismic data as *chunks*, each an object in cloud
storage or an extent of one VDS file.  The part of the library that is hard to
get right is the pipeline between a request and the storage: caches with
reference counts, pages that one thread fills while others wait for them,
transfers that share one request, uploads that finish in any order, jobs that
can fail or be cancelled at every step, threads of a pool that wait for other
tasks of that pool, and files that must survive a crash at any write.  The TLA+
modules here model that pipeline one component at a time.  TLC checks them on
small instances, and TLAPS proves what matters most in the request cache, the
metadata pages, the page cache, the copies and the transfers for every instance.

Contents: [the system](#the-system), [the modules](#the-modules),
[the runs](#the-runs), [fairness](#fairness), [the proofs](#the-proofs),
[disagreements](#disagreements-between-the-code-and-what-it-says),
[what is left out](#what-is-left-out), [the plan](#the-plan).

## The system

Paths are relative to `src/src/OpenVDS` (`src` is the repository).

A client asks `VolumeDataAccessManagerImpl` for a box of voxels, or opens a page
accessor to read and write chunks itself.  A request is turned into a list of
chunks and becomes a *job* of `VolumeDataRequestProcessor`, which prepares a
page for each chunk in a `VolumeDataPageAccessorImpl` and hands one task per
page to a `ThreadPool`.  The page accessor gets the data of a page from
`VolumeDataStore`, which keeps one request per chunk however many accessors
want it, and which gets it from one of two stores.  `VolumeDataStoreIOManager`
may first have to download a page of metadata (`MetadataManager`) before it can
start the transfer of the chunk with an `IOManager`; `VolumeDataStoreVDSFile`
reads and writes the index pages and extents of one file (`HueBulkDataStore`,
`ExtentAllocator`).  Written pages go the same way back, through margins of
neighbouring pages and pages of coarser levels of detail.  Copies of chunks from
one VDS to another run as tasks of the same pool, and Flush waits for them, then
for uploads, then for the store.

| component | code | state it keeps | operations | hard behaviour | what makes it correct |
|---|---|---|---|---|---|
| request cache | `VDS/VolumeDataStore.cpp` | `m_requests`: a reference counted request per chunk | PrepareReadChunk, ReadChunk, CancelReadChunk, WriteChunk, its completion callback | `m_mutex` is released during a fetch and in `m_wait`; readers, cancellers, writers and callbacks of one chunk | the count is exact, one fetch at a time, writes do not overlap, a read is not older than its preparation |
| IO manager store | `VDS/VolumeDataStoreIOManager.cpp` | `m_pendingDownloadRequests`, `m_pendingUploadRequests` | the same calls one level down, Flush, Close | a download that waits for its metadata page; failed transfers; retried uploads against Flush | every pending entry is used or cancelled once; Flush returns when everything is stored |
| metadata manager | `VDS/MetadataManager.cpp` | pages of metadata, lock counts, dirty and clean lists | LockPage, UnlockPage, SetPageEntry, UploadDirtyPages, transfer callbacks | a page is freed while its transfer calls back; upload waits until nothing is locked | lock counts are exact, no entry is lost, Flush goes on |
| page accessor | `VDS/VolumeDataPageAccessorImpl.cpp`, `VolumeDataPageImpl.cpp` | `m_pages`, `m_pages_lru`, per page: pins, dirty, settingData, margins | ReadPage in two parts, CancelPreparedReadPage, CreatePage, GetWritableBuffer, UpdateWrittenRegion, Release, Commit, SetMaxPages | commit and eviction drop the mutex and wait for pages being read; pins without the mutex | pins and preparations are exact, nothing written is lost, margins arrive, calls return |
| request processor | `VDS/VolumeDataRequestProcessor.cpp`, `src/common/ThreadPool` | `m_jobs`, `m_pageAccessors`, the queue of the pool | AddJob, IsCompleted, IsCanceled, WaitForCompletion, Cancel, tasks, CleanupThread, destructor | AddJob comes back to itself for remapped layers, with another mutex held; tasks wait for tasks; a done job is deleted by its owner | pages are given back once, jobs end, a job that is gone is not touched, locks are ordered |
| access manager | `VDS/VolumeDataAccessManagerImpl.cpp` | accessors, `copyState`, upload errors | Flush, AddCopyPageJob, FlushCopyPageJobs, Invalidate | futures that one thread drains while others add to them; Flush against that; closing with tasks in flight | Flush has waited for every copy and reports every error; calls return |
| VDS file store | `VDS/VolumeDataStoreVDSFile.cpp` | one file per layer, dirty flags | WriteChunk in three parts, AddLayer, Flush, Close | the mutex is released while data is written | a Flush that succeeds has made everything durable |
| bulk data store | `BulkDataStore/HueBulkDataStore.cpp`, `ExtentAllocator.cpp` | header, file table, page directories, index pages, extents | AddFile, CreateChunkDataIndexEntry, WriteChunkData, WriteIndexEntry, Commit, EnableWriting | copy on write; a crash or a failure between the writes of a commit | extents do not overlap; the header always describes a complete state |
| curl transfers | `IO/IOManagerCurl.cpp`, `IOManagerRequestImpl.h` | queues to the event loop, handles, retry counts, results | add, Cancel, WaitForFinish, signals of the loop, messages and callbacks of curl | signals are coalesced and unordered; the callback runs in the loop; retries keep part of the state | handles and handlers agree, one report per request, who waits is woken |
| LOD generation | `VolumeDataPageImpl.cpp` WriteBack, CommitInternal | the parent accessor | writes of a page into a quarter of its parent | two accessors, two mutexes, one commit | a commit leaves all levels consistent |
| layers | `VDS/VolumeDataLayer.cpp`, `VolumeDataPartition.cpp`, ... | the write lock; sizes | boxes to chunks, chunks to chunks of other layers | arithmetic at the edges | chunks of a box cover it |
| back ends of the IO manager, tokens | `IO/` | transfers | ReadObject, WriteObject | URLs, headers, signatures over the curl transfers | a transfer completes once |
| compression, hashes, parsing, API, tools, bindings | `VDS/Rle.cpp`, `Wavelet*`, `ParseVDSJson.cpp`, `OpenVDS.cpp`, `src/tools`, `src/python`, `src/java` | none | sequential | | |

The hazards of these components, each at its line, are in `PROJECT.json`.

## The modules

| module | models | one action is |
|---|---|---|
| `StorageRequests` | `VolumeDataStore` and the download table of `VolumeDataStoreIOManager` | a critical section of `m_mutex` |
| `StorageRequestsProofs` | theorems about `StorageRequests` | |
| `CopyJobsProofs`, `CurlTransfersProofs` | theorems about `CopyJobs` and `CurlTransfers` | |
| `LayerMetadata` | the metadata pages of one layer: `MetadataManager`, the reads, hashes, uploads and Flush of `VolumeDataStoreIOManager` | a critical section of either mutex |
| `LayerMetadataProofs` | theorems about `LayerMetadata` | |
| `UniqueLists` | the lists of pages of `MetadataManager` and of the page accessor and the list of jobs: no element twice, erased at its place | |
| `UniqueListsProofs` | lemmas about these lists and about sets of positions | |
| `PageAccessor` | one `VolumeDataPageAccessorImpl` with its pages | a stretch with `m_pagesMutex` held, or without |
| `PageAccessorProofs` | theorems about `PageAccessor`: pins, lists, one page per chunk; what is in pages and store, preparations, margins | |
| `RequestProcessor` | `VolumeDataRequestProcessor`, `ThreadPool`, two accessors seen as pins | a stretch with `m_mutex` held, or without |
| `RequestProcessorProofs` | theorems about `RequestProcessor`: calls, tasks, who deletes a job, pins | |
| `RequestProcessorPagesProofs` | theorems about `RequestProcessor`, on top of these: references and the destructor, remapped pages, owners of jobs, what is read | |
| `CopyJobs` | AddCopyPageJob, Flush and Invalidate of `VolumeDataAccessManagerImpl`, tasks of the pool | a stretch with `m_mutex` held, or without |
| `CurlTransfers` | `IOManagerCurl` and `RequestImpl` | a callback of the event loop, or a call of a client |
| `ExtentAllocator` | `ExtentAllocator`, as operators on the map of extents | |
| `BulkDataStore` | `VolumeDataStoreVDSFile` over `HueBulkDataStore`; uses `ExtentAllocator` | one write of the file, or what is done in memory between two |
| `DurableLayers` | what a VDS file promises; `BulkDataStore` implements it | |
| `MC...` | the instances of each for TLC | |

Each layer is modelled against the promise of the one below.  `PageAccessor`
sees the store as a count of preparations per chunk, of which a read or a cancel
uses up one, and as a `WriteChunk` that waits until the count is 0: this is
what `RefCountExact`, `SingleFetch`, `WritesSerialized` and `ReadersReturn` of
`StorageRequests` establish.  `RequestProcessor` sees a page as its pins and a
page of a remapped layer as a small state, which is what `PinsExact` and
`OthersReturn` of `PageAccessor` establish; the reader whose wakeup is lost
([disagreements](#disagreements-between-the-code-and-what-it-says)) is not carried over.  `LayerMetadata` names an operation by its chunk, because
`SingleFetch` and `WritesSerialized` say that a chunk is read or written by one
client at a time; beside it there may be the one download that a reader left
behind (`orphan`).  `CopyJobs` sees the store by how an upload ends:
`FlushCopies` is the part of Flush before the call of the store, and `FlushSaves`
of `LayerMetadata` and of `BulkDataStore` the part after it.

### StorageRequests

`request[c]` is the entry of `m_requests` (reference count, has data, is being
fetched, error, content), `pending[c]` the entry of `m_pendingDownloadRequests`
("active", "done", "failed", or "noMetadata" when it has to wait for a metadata
page).  Contents are version numbers: the n-th write has version n.  `fetched`
and `stored` are the versions in a transfer and in the cloud; `uploads` are the
writes whose callback has not run, in any order.  A client goes from "prepared"
to "waiting", "reading" (without the mutex), "read" and back, or through
"waitExclusive" and "upload" when it writes.  `asleep` are the threads in
`m_wait`; `notify_all` empties it.  `floor` and `got` are history variables.
`CopyClients` are the pure-copy jobs of the access manager, which can return
without cancelling a failed preparation (`HoldPreparation`, counted in `leaked`).

### LayerMetadata

`page[p]` is the entry of `m_pageMap` (valid, failed, lock count, and its
transfer: running, answered by the IO manager, or ended), `entry[c]` the entry of
a chunk in its page in memory; `pageList`, `dirtyPageList`, `lockedPageCount` and
`directory` have the names of the code.  `pc[c]` is the operation on chunk c: a
read goes through "lockForRead" (LockPage may wait there for a flush, with the
mutex of the store, `ioMutex`), "initiateRead", "checkError", "checkValid" and
"waitPage" to "download"; an upload through "initiateWrite", "startUpload",
"upload" and, in its callback, "uploaded" and "entrySet", or "uploadFailed" and
again "upload".  A reader that cancels while a writer of the chunk waits for it is
not the last reference of its request, so VolumeDataStore does not cancel its
download (VolumeDataStore.cpp:398): `LeaveRead` hands the chunk to the writer and
keeps the download in `orphan[c]`, which waits for its page beside the write and
is a holder of that page (`LeftBehind`); the next request of the chunk meets the
entry, which the assertions of PrepareReadChunkImpl exclude (:382, :409;
`AssertNoDownload`).  `hashing` are the threads in ReadChunkDataHash and `flush` the
one Flush.  The cloud is `object`, `storedEntry` and `storedDirectory`.  A failed
transfer changes nothing in the cloud.  `mustSave` and `written` are history.
`broken` is set where an assertion of the code fails or memory is used after it
was freed; nothing happens after that, because nothing is known of it.  (A release
build goes on after a failed assertion; what then comes of a pending entry is in
`StorageRequests_stale_cancelled`.)  UnlockPage cancels the transfer of a page it
drops; whether the callback comes all the same, with a pointer to that page, is a
choice (`tooLate`), which depends on where the transport is: a request of curl that
is cancelled usually calls nobody back.

`OneLoop` says whether the callbacks of transfers and uploads share one thread, as
the event loop of IOManagerCurl, or have threads of their own, as in the other
transports.  Where they share one, none begins while another waits for the mutex of
the store or, in CompleteTransfer, for a page (`LoopFree`).  So two orders can block
a Flush: a reader that waits for it in LockPage with the mutex of the store
(`ReaderWaitsForFlush`), and a callback that waits in the loop for a page
(`CallbackWaitsForPage`).  Each happens
([disagreements](#disagreements-between-the-code-and-what-it-says)); FlushNotStuck
says that there is no third.

### PageAccessor

`pages` and `lru` are `m_pages` and `m_pages_lru`; `page[p]` has the pins, the
counter `m_settingData`, `requestPrepared`, `dirty`, and `data`, a function from
chunks to versions: the page's own samples and, in its margins, those of its
neighbours.  `mutex` is held between steps only in the loop of LimitPageListSize
and the end of CommitInternal, where `WriteChunk` may block.  *Jobs* are the
tasks of the request processor, which unpin without the mutex; *Users* call the
public interface.  An accessor has one kind of them or both, but jobs only read
from accessors that are opened read-only (VolumeDataRequestProcessor.cpp:1983), on
which CreatePage and GetWritableBuffer throw: with jobs there are no commits and
no writes.  `committing`, `cursor` and `writeLocked` are the state of a
commit.  `seen` (in a page) and `latest` are history; `fault` is set when
CopyMargin is called for a page without a buffer.  A wait with a timeout is an
action guarded by what it waits for, because the timeout only makes the loop
look again; the wait without timeout (ReadPreparedPage) is the set `asleep`.  A
task looks at the error of its page just before it reads it
(VolumeDataRequestProcessor.cpp:1928); an error that appears in between is found by
ReadPreparedPage, which returns false, and the page is unpinned all the same: the
end is that of a task which waited for the page (`AwaitData`), and `StartReading`
has no step of its own for it.

A reader that is not the one to fetch the data raises and lowers `m_settingData`
without a notification.  For a reader that sleeps while such a one passes by
(`PassedBy`) the code promises nothing (`PageAccessor_lost_wakeup`); `OthersReturn`
says that the calls of all others return.

### RequestProcessor

Chunks of "source" are in the store, chunks of "target" belong to a layer that
is remapped.  AddJob is split where it takes and drops mutexes: FindAccessor
takes `m_mutex`, EnsureMaxPages (which needs `m_pagesMutex`) drops it,
PrepareReadPage runs once per chunk, AddJob lists the job and queues its tasks.
For a page of "target" AddRemapJob takes `m_pagesMutex` and goes through the same
steps for the source chunks, as the code does by calling itself (`outer` is the
call that waits).  A task is a walk of a worker through ProcessPageInJob and
MarkJobAsDoneOnExit; the one task of a 1-bit request goes from page to page.
`listed` is `m_jobs`; a job that was erased keeps its place in `job`, without its
contents.  `closer` is the destructor's place in `m_jobs`.  `result`,
`cancelledBy` and `given` are history.

### CopyJobs

A thread in CopyPage goes from "prepared" (PrepareReadChunk or PrepareReadPage,
without the mutex) to "enqueue" (with `m_mutex`), and returns, or waits for the
thread that drains the buffer ("waitForFlush"), or drains some itself: "pop",
"get" and "drained" are FlushCurrentJobBuffer, which Flush runs too.  `jobs` are
the futures of `copyState.jobs`, `task[c]` and `upload[c]` the task behind one
and its upload, `uploadErrors` the errors in `m_uploadErrors`, `references` the
count of the two page accessors, of which each task holds one.  The two branches
of AddCopyPageJob (chunks that are copied as they are, pages that are compressed
again) take the same steps.  `reported`, `swallowed` and `before` (the copies
asked for before a Flush began) are history.

### CurlTransfers

`queued` are the four vectors of `UVEventLoopData`, `signalled` the `uv_async_t`
that were sent and have not run: libuv runs a callback once for several sends,
and in no promised order.  `easy`, `retries`, `message` and `processing` are the
handles, their retry counts, the message of curl that was not read, and
`processingRequests`.  `done`, `cancelled` and `error` are the request.  Bytes
are the number of the attempt that brought them (`received`, `delivered`), and
the body of an upload is whether it was sent (`sent`, `consumed`).  The loop is
one thread: while `running` is a request whose completion callback has not
returned, no other step of the loop or of curl is taken, and its mutex is held.
How an attempt ends (`AttemptEnds`) is external: success, an error that may
pass, an HTTP code that will not, or a certificate that is not accepted.

### BulkDataStore, ExtentAllocator, DurableLayers

`disk` is the set of blocks in the file, each with its offset, size, kind and
content; a write puts a block there and destroys what it overlaps.  `extents` is
`m_extents`, the map from offsets to reference counts and types; `header`,
`table` and `files` are what the process has in memory, with dirty flags, and
offsets are the ones the allocator gives.  A chunk is written in three steps,
CreateChunkDataIndexEntry, WriteChunkData (without the mutex) and
WriteIndexEntry; AddLayer and Flush commit: index pages, page directory, file
table, header, one write per step.  At any of them the write may fail, and before
any of them the process may stop (`Crash`) and open the file again (`Open`, which
builds the allocator from what the file refers to).

A failed write has written nothing; a write is not torn, and writes reach the
disk in the order they are made (the code flushes the file only at the end of a
commit, HueBulkDataStore.cpp:1184, so an operating system may reorder them).  A
buffer that is clean equals the file, so clean index pages are not kept.  If the
last chunk of the file could not be written and is still referred to, the
allocator that is built at the next opening is asked for space beyond its end;
the model marks this (`broken`) and stops there.

`DurableLayers` is the promise, in two variables: `working`, what a reader of
this session finds, and `durable`, what who opens the file after a crash finds.
A step writes one chunk, replaces a layer by an empty one, makes one whole layer
durable, or drops what is not durable.  `BulkDataStore` implements it with
`working <- Working` and `durable <- Durable`, the results of walking from the
header, or from memory, through tables, directories and index pages to chunks;
data that could not be written reads as `Lost`, and space that something else
has taken as `Garbage`, which the promise does not allow.

## The runs

Deadlock is not checked where calls are bounded, because then every thread may
have made its last call (`CHECK_DEADLOCK FALSE`); that no call hangs is what the
liveness properties say.

| run | instance | shows |
|---|---|---|
| `storage_safety` | two pages that write and one copy job, one chunk, 3 writes, 1 leak, metadata not in memory, failures | TypeOK, RefCountExact, WritesSerialized, SingleFetch |
| `storage_fresh` | three pages, one writer, 2 writes, metadata in memory, failures | FreshRead; ReadersReturn, LoneWriterProceeds under fairness |
| `pages_jobs` | three tasks with two calls each, one chunk, cache of 1, SetMaxPages(0), failing reads | TypeOK, PinsExact, PreparationsExact, OthersReturn |
| `pages_evict` | two users, three neighbouring chunks, cache of 1, 2 writes | LastWriteKept, ReadsSeeWrites, MarginsArrive |
| `pages_commit` | a user that reads, creates and writes, a user that commits, cache of 2, 3 writes, SetMaxPages(0) | CommitSaves, CallsReturn |
| `jobs_remap` | a client, two workers, two source and two target chunks, 4 jobs, failing reads, Cancel | TypeOK, PinsExact, TakenOutIsQuiet, CompletedMeansRead, RemapTargetAlive, JobsFinish |
| `jobs_stored` | a client, two workers, two chunks, 2 jobs, refused preparations, failing reads and processors, CleanupThread, destructor | AccessorsStay, CloseEnds |
| `metadata_pages` | three chunks on two metadata pages of which one stays in memory, a reader, a thread that reads hashes, two chunks that are written, 2 failures, 2 Flushes, one event loop | TypeOK, PagesExact, EntriesKept, FlushSaves, FlushNotStuck |
| `metadata_lost_entries` | a new layer, two chunks written, 2 Flushes | *violation*: ZeroMeansNotWritten |
| `bulk_commit` | two layers of two chunks, 2 writes, 2 AddLayers, 2 Flushes, 1 failed write below the file table, 1 crash | TypeOK, ExtentsDisjoint, FlushSaves; KeepsPromise: it implements `DurableLayers` |
| `transfers` | a download and an upload of two attempts each; both may be cancelled, waited for and dropped | HandlesExact (with the types), ReportedOnce, WaitsReturn |
| `copies` | two threads, one of which flushes twice, 3 copies, a buffer that is full with 3, a pool of 1 thread, failing preparations, copies and uploads, Close | TypeOK, FlushCopies, CallsReturn |

More configurations are kept beside these.  `CurlTransfers_batch.cfg` checks
the properties of `transfers` with two downloads, so that one signal brings two
requests.  The others are the disagreements below; `tlc -config X.cfg MCM` runs
configuration `X` of module `M`, for example
`tlc -config CopyJobs_race.cfg MCCopyJobs`.

### Why the bounds are enough

- One chunk in the storage runs: `m_requests` and `m_pendingDownloadRequests` are
  keyed by chunk, and chunks share only `m_mutex` and `m_wait`.  The proofs do
  not bound the chunks.
- Three clients of a chunk: a reader that fetches, one that waits, and a writer
  or canceller between them; or the two waiting writers of the hazard at
  VolumeDataStore.cpp:433 and a reader.
- Three tasks of one chunk in `pages_jobs`: one that fetches, one that sleeps and one
  that comes late are what a wakeup is lost with at VolumeDataPageAccessorImpl.cpp:549,
  and with two it cannot be; two calls each let a chunk be prepared again while a
  cancelled page is being deleted.  The other runs of pages have one or two threads
  that read, and no wakeup is lost in them.
- Caches of one or two pages with two or three chunks make every read evict.  Three
  neighbours are needed for a victim, the page that waits, and a third that is
  being read; the page objects bound how many pages are alive.
- Two workers and two target chunks fill the pool with tasks that wait for remap
  jobs.  MaxJobs = 4 allows a request of two target chunks with its two remap
  jobs, or two requests that share a target page.
- Two metadata pages of which one fits (PageLimit = 1), with two chunks on the
  first: a page is shared by two operations, and using the other page drops it.
  The run has `OneLoop`; without it the same five properties were checked once
  (623,946 states instead of 384,367), and the theorems do not assume either.
  Two failures let both attempts of one upload fail, or a download and an upload;
  the second Flush is the one that must store what the first could not.
- Two layers are needed so that a commit of one can disturb the other, two chunks
  of different sizes on index pages of their own so that free extents are taken,
  split and joined, and a second AddLayer of a layer replaces what was durable.
- A retry count of 1 gives a first, a repeated and a last attempt; the code has 4
  or 3, which differ from it in nothing but length.
- MinConcurrent = 1 makes three futures one too many, the pool of one thread keeps
  tasks in its queue, and the second thread adds to the buffer while the first
  drains it.  The code has at least 16 and 32: a larger buffer only takes longer to
  fill.
- Each bound is a CONSTANT that a guard names: MaxWrites, MaxLeaks, MaxCalls,
  MaxJobs, MaxFaults, MaxFlushes, MaxHashes, MaxAdds, MaxCrashes, MaxCopies, and
  the set of page objects.

### How each property can fail

Each property of a passing run has a mutant in the module, a definition whose name
begins with that of the definition it changes (`ForgetPage_Kept`,
`MayDrain_Always`, `TakeOutKeepsIncoming`): the mistake that somebody could make
there.  With the mutant in place of the definition TLC finds the property
violated under the same configuration.

## Fairness

Only on steps that the code takes by itself:

- `StorageRequests`: threads inside a call run; a page that was prepared is read
  or cancelled in the end (ReadPreparedPage and CancelPreparedReadPage are the
  only ends of a prepared page); transfers and uploads that are not cancelled
  complete, because every IO manager calls back on success and on failure.
  (IOManagerCurl does not call back for a cancelled transfer; then nobody waits
  for it.)  Nobody has to start anything.
- `PageAccessor`: threads inside a call run, and a job reads or cancels the page
  it prepared.  A user may keep a page for ever.
- `RequestProcessor`: AddJob, waits, tasks and the destructor go on.  No client
  has to ask, to cancel or to wait.
- `LayerMetadata`: weak fairness of the steps that need no mutex (`FreeWork`) and
  of the reader that has the mutex of the store (`ReadWork`), and strong fairness
  of those that need it (`MutexWork`), because readers take it again and again.
  Only FlushReturns, which the two configurations of a Flush that hangs break, uses
  it; FlushNotStuck says without fairness that something can go on.
- `CurlTransfers`: the loop runs each signal that was sent and each message of
  curl, callbacks return unless what they wait for does not come, and every
  attempt ends.  The last is an assumption about the network: the code sets no
  CURLOPT_TIMEOUT.
- `CopyJobs`: calls, the pool, tasks and uploads go on, and the pool is joined when
  it is empty.  An upload ends because a failed one is given up after its retries.

Except in `LayerMetadata` the fairness is weak.  `std::mutex` does not promise its
turn to a thread, and these models do not need it to: calls are bounded in every
instance, so that a mutex others keep taking is in the end free for good.

## The proofs

Eight modules have proofs (`UniqueListsProofs` only lemmas), for any sets of clients,
threads, requests, pages and chunks and any bounds.  What each assumes of its constants are the named ASSUMEs of the
module it is about (sets that are finite, subsets or disjoint, bounds that are
natural numbers), which TLC evaluates in the runs.

| module | theorem | states |
|---|---|---|
| `StorageRequestsProofs` | `Invariance` | `Spec => []IInv` |
| | `TypeCorrect` | `TypeOK` |
| | `ReferenceCounting` | `RefCountExact`: the count of a request is the clients between their first and last call, plus the uploads in flight, plus the leaks |
| | `SerializedWrites` | `WritesSerialized` |
| | `OneFetch` | `SingleFetch` |
| | `FreshReads` | `FreshRead`, if the metadata pages are in memory: a read returns what was stored when it was prepared, or later |
| `LayerMetadataProofs` | `PagesInvariance` | `Spec => []PagesInv` |
| | `TypeCorrect` | `TypeOK` |
| | `ExactPages` | `PagesExact`: lists, page map and lock counts agree, whatever is evicted, fails or is flushed |
| | `EntriesInvariance` | `EntriesInv`, in a layer that was opened |
| | `EntriesStay` | `EntriesKept`, in a layer that was opened: no entry that was written is lost |
| | `FlushSavesEntries` | `FlushSaves`, in a layer that was opened |
| `PageAccessorProofs` | `PinsInvariance` | `Spec => []PinsInv`, for accessors with `NoDuplicates` |
| | `TypeCorrect` | `TypeOK`, for the same |
| | `ExactPins` | `PinsExact`, for the same: a page in use is never deleted, and one that is given back is never kept |
| | `OnePage` | `OnePagePerChunk`, for the same |
| | `PagesInvariance` | `Spec => []PagesInv`, for the same |
| | `NothingLost` | `LastWriteKept`, for the same |
| | `WritesSeen` | `ReadsSeeWrites`, for the same |
| | `CommitsSave` | `CommitSaves`, for the same: an action property |
| | `ExactPreparations` | `PreparationsExact`, for the same, if nobody creates pages |
| | `MarginsCopied` | `MarginsArrive`, if nobody commits |
| `RequestProcessorProofs` | `TaskInvariance` | `Spec => []TaskInv`: each page of a job is to be handled by one task, in the queue or with one worker, and is counted once |
| | `TakenOutStaysQuiet` | `TakenOutIsQuiet`, if the processors of 1-bit requests have no errors: a job that its owner deleted is not touched by a task |
| | `PinsStayExact` | `PinsExact`: the pin count of a page is the positions of jobs and calls that still have to give it back |
| `RequestProcessorPagesProofs` | `ReferencesHold` | `References`: each job and call in progress has a reference to its accessor, which keeps its pages |
| | `AccessorsStayInUse` | `AccessorsStay`, if no layer is remapped or nobody calls the destructor |
| | `RemapTargetStaysAlive` | `RemapTargetAlive`: the page that a remap job writes to stays until the job is done |
| | `TypeCorrect` | `TypeOK`, and with it that counts of pins and references are never negative |
| | `JobsHaveOwners` | `OwnInv`: whoever asks for a job or waits for it finds it in `m_jobs` |
| | `CompletedIsRead` | `CompletedMeansRead`: what is reported as completed was read, all of it |
| `CopyJobsProofs` | `Invariance` | `Spec => []FlushInv` |
| | `TypeCorrect` | `TypeOK`, and with it that the page accessors have a reference for each task that has not ended |
| | `FlushWaits` | `FlushCopies`: a Flush without an error has waited for every copy before it |
| `CurlTransfersProofs` | `Invariance` | `Spec => []IInv` |
| | `ExactHandles` | `HandlesExact`: no handle is leaked or used after it was forgotten |
| | `ReportsOnce` | `ReportedOnce`, if no attempt ends with a certificate that is not accepted |

None of these properties is inductive; each proof has one lemma per action (or for a
few that act alike), and under it one step per conjunct of the invariant that the
action can disturb.

In `StorageRequests` a reference count can only be shown not to drop to 0 too
early if it is known how many clients hold one; that two writers cannot both
proceed follows from the count being 1 when one of them does, so WritesSerialized
needs RefCountExact; that nobody fetches while a write is in flight follows from
the flags of the request (has data, being fetched) agreeing with the positions of
the clients.  `IInv` is the conjunction of the type invariant, the count, the two
other properties, and the facts that tie the flags of a request to the positions
of its holders.  The proof rests on lemmas that say how the sets `Holders(c)` and
`Uploads(c)` and their cardinalities change when one client or one upload enters
or leaves.

`FreshReads` compares versions: a write that has not ended is newer than the object
in the cloud (`VersionsOrdered`); what a request shows, and what a finished download
holds for it, is no older than the object (`DataFresh`); and the object that was there
when a reader prepared is still there, or a newer one (`ReadersFresh`).  It has the
hypothesis `MetadataResident` because without it the property is false: a reader that
waits for a metadata page can find the pending entry of an earlier download.

In `LayerMetadata` an action does two things, one to the pages and one to the
operation on its chunk.  `PagesInv` is proved once for each kind of step of the pages
(`Kinds`: nothing, a lock, unlocks, the start or the answer of a transfer, a new
entry, the upload of a dirty page) and every action is shown to be of one kind; what
an operation sees of it are its `Outcomes`.  `PagesInv` has the two lists, the counts
(a page's lock count is the operations that hold it), the transfers (one operation
starts the transfer of a page), the downloads left behind (`OneDownload`: who
has a download of a chunk is alone with it), the phases of Flush, and how far each
version has come; none of them holds without the others, because a page is evicted
only when its count is 0 and its transfer is started by one who holds it.  Without
`OneDownload` a reader could leave its download behind in the place of another, and a
lock would have no holder.  `EntriesInv` says where an entry is: a clean page has in memory what is stored, a dirty one what was written
(`CleanStored`), and what Flush must save is on its way (`Saving`).  The
theorems about entries have the hypothesis `~CreateEmpty`: in a layer that was created
in this session a page that was evicted is made anew, empty, and they are false
(`LayerMetadata_lost_entries`).

In `PageAccessor` the actions are of a few kinds (`Steps`): those that change
counters and the order of the list alone (`Still`), the transfer from the store and
its end, the insertion of a page, its removal and deletion by a cancel, a write, an
eviction, and the end of a commit.  Each action is shown to be of a kind once,
and each invariant is proved for the kinds.  `PinsInv` says what a thread has at
each place of the code (`Place`), that the list and the map have the same pages
(`Listed`), that the pins of a page are the threads that hold it and those that wait
to evict it, and `settingData` the threads between EnterSettingData and
LeaveSettingData (`Counted`), and that what was written has data (`DataThere`).  The
parts need each other: an eviction deletes a page because its count is no more than
the evicting thread's own pin, which is safe only if the count is exact, and it
stays exact only if nobody has a page that is deleted.  `NoDuplicates` says that
nobody commits, or one thread inserts pages.  Without it `OnePage` is false
(`PageAccessor_duplicate`): the second page of a chunk takes the place of the first
in the map, and removing one of them then leaves the other on the list alone.

What is in the pages rests on this.  `PagesInv` adds that one thread reads a page at
a time, and that whoever waits for it waits for a thread that is reading
(`ReadersApart`); that, where there are no jobs, nobody cancels, so that a
preparation in the store belongs to the page on the list, which somebody is going to
read (`UsersAlone`); and that what a reader has got from the store is still the last
version when it publishes it, because nobody can write the chunk meanwhile
(`GotFresh`).  With these LastWriteKept and ReadsSeeWrites are inductive.  Where
jobs are, the accessor is read-only and every version is the first
(`NothingWritten`).  CommitsSave follows at the one step that ends a commit: a
chunk's last version is in the store already or in a dirty page on the list, and the
step stores each of those.  `ExactPreparations` needs that a page on the list which
is still prepared has a thread that is going to read it, and that a thread which
rests with a page has one that was read (`WaitedFor`).  It excludes CreatePage,
because a created page is marked as prepared without a preparation in the store
(VolumeDataPageAccessorImpl.cpp:307).  `MarginsCopied` excludes Commit, because
a commit copies margins into a page whose read failed (:833).

In `RequestProcessor` tasks and clients share a job without counting its owners: who
sees it done deletes it, and a task that comes later would touch what is gone.
`TaskInv` says where a page of a job can be: its task is in the queue or with one
worker (`OneQueued`, `OneOrOther`, `OneRuns`), and a job is done when as many pages
were counted as it has, which are all but those still with a task (`Counts`).  Only
the task that counted the last page may still tell the futures after that (`Lasts`,
`LastAlone`), and it does so before the job leaves the list.  The state of a call of
AddJob, with the call it was made from, is in `Calls`.  A remap job is deleted by the
worker that waited for it.  `TakenOutStaysQuiet` adds `QuietInv` for 1-bit requests:
their one task goes from page to page without being counted, tells the future at
its end, and could be found done by an owner that saw an error before.  It has the
hypothesis `OneBitSucceeds` because without it the property is false
(VolumeDataRequestProcessor.cpp:2061,
[disagreements](#disagreements-between-the-code-and-what-it-says)).

`PinsExact` counts claims: the positions of c in the pages of a job that are still
to be counted (`JobClaims`), and those that calls of AddJob have prepared
(`CallClaims`).  A step takes one page, gives back one or, where a 1-bit task gives
up, several, or is AddJob itself, which hands all claims of a call to the new job
without a change of the counts.  `References` counts the same way: the users of an
accessor are its jobs that are not done and the calls that prepare its pages, and
each step exchanges one user for another, adds one with its reference or removes one
with its reference, so that CleanupThread, which asks for a count of 0, empties only
what nobody uses.

`AccessorsStayInUse` adds `CloseInv`: once the destructor has begun, no client is in
a call, the list stays as it is and what the destructor has passed is done.  It
excludes a processor that has a remapped layer and is closed, because there a task
that gives up a remap job erases it from `m_jobs`, and the position of the
destructor in the list then means another job.

The pages of a remapped layer rest on the exact pins.  A page is read by who finds it
prepared and waits for its job (`OneReader`), and deleted by who gives it back last;
`ChunksInv`, `Holds` and `Known` (a remap job in the list is the one that its page
names, or a worker waits for it) could be broken only by a second holder whom the
deleting worker does not see, and two holders are two pins.  `OwnInv` says who may
take a job out of `m_jobs`: its owner, or, for a remap job, one worker that waits for
it or the one that will find its page.  `TypeCorrect` needs it, and the pins, for
what the types say of counts and of the job a worker waits for.

`CompletedIsRead` rests on `GivenInv`: for a listed job that is not cancelled, the
pages given to the processor and those still to be given (`Ungiven`) are all its
pages.  A page that failed or was given up leaves the job cancelled before it is
counted, and each page has one task (`TaskInv`).

In `CopyJobs` a Flush that finds the buffer empty, or drains it, has to know that
no copy it must wait for is anywhere else.  `FlushInv` says where a copy that was
asked for can be: with the thread that asked for it, in the buffer, with the one
thread that drains the buffer, or accounted for, which means that its task is over
or its error is with Flush or a CopyPage (`Somewhere`).  `BeforeOf` follows the
copies before one Flush: in the buffer they are among the futures it is still going
to take, and when it leaves the buffer all are accounted for.  It holds because
one thread drains at a time (`OneDrains`) and because the buffer is a queue.  The
references are exact because no copy is asked for, queued or buffered twice
(`HeldCopies`, `PoolQueued`, `JobsSent`), so that each task ends once.

In `CurlTransfers` the handlers and handles of the loop agree because a request
is added once: while its owner has not added it, neither the loop nor a queue
knows it (`NewIsUnknown`), and what is done has left both, or its callback runs
(`DoneIsOut`).  This is also why a request is reported once: the loop only reports
what it has.  `ReportsOnce` excludes the ending "certificate" because with it the
property is false: while retries are left, such a transfer is reported as a success
([disagreements](#disagreements-between-the-code-and-what-it-says)).

Only model-checked: the liveness properties (liveness under fairness and ENABLED,
and with it FlushNotStuck, are outside the prover's reach), the implementation of
`DurableLayers` by `BulkDataStore`, and the invariants of `BulkDataStore`.  The
extents that `Open` collects from the file are a fold over a set, of which the
provers know nothing without an induction.

## Disagreements between the code and what it says

The first has a run in `PROJECT.json`, which quotes the lines; the others have a
configuration.  Each of these configurations checks one property, and TLC finds a
behaviour of the model that violates it.

| configuration | property | what happens |
|---|---|---|
| `LayerMetadata_lost_entries` (run `metadata_lost_entries`) | ZeroMeansNotWritten | In a layer that is new in this session a metadata page that was stored and then dropped from memory is made anew, empty (MetadataManager.cpp:134), and stored over the old one. |
| `LayerMetadata_flush_deadlock` | FlushReturns | PrepareReadChunkImpl calls LockPage with `m_mutex` held (VolumeDataStoreIOManager.cpp:360); LockPage waits for a flush, which waits for pages that are unlocked only by those who get `m_mutex`. |
| `LayerMetadata_event_loop` | FlushReturns | With curl the callback of an upload that waits for its metadata page in CompleteTransfer (VolumeDataStoreIOManager.cpp:850) keeps the loop that would bring it (IOManagerCurl.cpp:849): the page is never unlocked, and Flush waits for the write. |
| `LayerMetadata_left_behind` | DownloadsMatch | The download that a cancelled reader left behind is started by PageTransferCompleted (:642 to :682) with the entry in the page, while a write of the chunk has stored the new object (:829) and not yet its entry; CloudStorageFormat.rst calls that an error. |
| `LayerMetadata_no_page` | UploadFindsPage | WriteChunkImpl asserts that the metadata page is valid when the upload of its chunk ends (:851, "Implement error handling"); its download may have failed. |
| `StorageRequests_stale_cancelled` | NoStalePending | A reader that cancels while a writer waits is not the last reference, so the download is not cancelled, and the write then hides it; the next request of the chunk finds a pending entry, which an assertion of PrepareReadChunkImpl excludes. |
| `PageAccessor_duplicate` | OnePagePerChunk | PrepareReadPage looks for the page, waits for a commit with the mutex released (VolumeDataPageAccessorImpl.cpp:386), and inserts a second page of the chunk without looking again. |
| `PageAccessor_lost_wakeup` | CallsReturn | A reader that is not the first in EnterSettingData raises the counter that others wait to see at 0 (:549); if the only notification arrives then, they sleep for good. |
| `RequestProcessor_lock_order` | NoCircularWait | AddJob calls GetMaxPages and SetMaxPages, which take `m_pagesMutex`, with `m_mutex` held (VolumeDataRequestProcessor.cpp:1993); PrepareReadPage of a remapped layer calls AddJob with `m_pagesMutex` held. |
| `RequestProcessor_one_bit` | JobsFinish | After an error in a 1-bit request the remaining pages are cancelled but not counted (:2066): the job is never done. |
| `BulkDataStore_table_retry` | FlushSaves | When the write of the file table fails, the table in memory already has the new offset of the page directory; the next Flush finds nothing to do (HueBulkDataStore.cpp:1144) and returns without an error. |
| `CurlTransfers_retry_data` | OneAttemptDelivered | retry (IOManagerCurl.cpp:674) keeps `responseData`: HandleData is given the bytes of a failed attempt in front of those of the next. |
| `CurlTransfers_retry_upload` | RetriesHaveBody | retry keeps `bufferIndex`: the next attempt of an upload whose body was sent has none left to send. |
| `CurlTransfers_certificate` | ReportedOnce | While retries are left, a certificate that is not accepted is neither retried nor made an error (:525 to :535): the transfer is reported as a success. |
| `CurlTransfers_upload_waits` | WaitsReturn | The completion callback of an upload runs in the event loop (:849); CompleteTransfer in it may wait for the download of the metadata page, which the same loop would bring. |
| `CopyJobs_lost_error` | NothingSwallowed | The error of a copy that AddCopyPageJob drains goes to a variable of its own (VolumeDataAccessManagerImpl.cpp:871) and is dropped; VDSCopy then prints that it has copied successfully. |
| `CopyJobs_early_close` | CallsReturn | Invalidate joins the pool with `m_mutex` held (:118), which the task needs that drops the last reference of a page accessor. |
| `CopyJobs_race` | BufferNotShared | FlushCurrentJobBuffer pops the buffer without `m_mutex` (:919 to :922) while another thread adds to it. |

The models and the reading of the code also showed these.  No configuration is
kept for them; the step is in the module unless it says otherwise.

In the stores:

- A failed transfer leaves its pending entry (VolumeDataStoreIOManager.cpp:470).
- ReadChunkImpl assigns `r->error` without the mutex while PrepareReadChunk of
  another thread reads it (VolumeDataStore.cpp:348).
- Reading a chunk whose metadata page must be downloaded can return data older
  than its preparation, because `emplace` keeps an old entry: `storage_fresh`
  has the metadata pages in memory.
- A metadata entry that cannot be parsed makes PrepareReadChunkImpl return without
  UnlockPage (VolumeDataStoreIOManager.cpp:392), and a Flush then waits for ever.
  Entries are versions in the model, and always parsed.
- UnlockPage frees an invalid page to which the callback of its transfer still has
  a pointer (MetadataManager.cpp:234; `PointerLeft` and `broken` in the model).
- Flush returns the error of an attempt that is being retried, and may succeed
  (VolumeDataStoreIOManager.cpp:960).  Two Flushes of one layer at a time share
  `m_isFlushInProgress`; the model has one.
- The layer status is marked dirty by assignment, not by adding to what it was
  (:325).
- The destructor of the store waits for requests with `m_mutex` held (:183).
- The result of WriteChunkData is ignored (VolumeDataStoreVDSFile.cpp:267): a write
  that failed is reported as a success, and reads as `Lost`.
- RetryableClose throws also after a flush that succeeded (OpenVDS.cpp:1369).
- The header that points to a new file table is written right after the table, and
  the file is flushed once, later (HueBulkDataStore.cpp:1184).

In the IO manager:

- A download that curl ends with an error has the response code 0, so that
  HandleData is given the bytes that had arrived before Completed is given the error
  (IOManagerCurl.cpp:707; `ResponseCodes` in `CurlTransfers`).
- WaitForFinish of a cancelled request returns success: `m_error` is not set.
- A second Cancel of a request cleans up the handle of curl again, because
  `curlEasy` is not reset; the clients in the library cancel once.

In pages and jobs:

- AddCopyPageJob returns on a failed preparation without cancelling it
  (VolumeDataAccessManagerImpl.cpp:776), and a task that could not read its page
  returns without releasing it (:847).
- A page that moves to the front of the list while a commit waits is skipped by
  its walk; its margin can be copied into a page that was not read, which the
  assertion at VolumeDataPageImpl.cpp:301 excludes.  With one reader `pages_commit`
  does not reach it.
- A commit copies margins into a page whose read failed
  (VolumeDataPageAccessorImpl.cpp:833), and an eviction waits for ever for such a
  page (:706): the passing runs of users have no failing reads.
- A second Commit returns at once while the first is still writing (:869).
- Invalidate sets `m_layer` to null while other threads are between their own test
  of it and its use (:100).
- AddJob cancels prepared pages with the mutex of the request processor held
  (:580).
- Reading back a created page asks the store for a chunk that nobody prepared
  (:307, `requestPrepared` stays true), and sets an error on a good page.
- UpdateWrittenRegion after a commit makes a page dirty without the write lock
  (VolumeDataPageImpl.cpp:576).  WriteBack of a page writes into the page of the
  parent accessor under the parent's mutex (:222), in no promised order with the
  parent's own commit; the parent is not modelled.
- An error that a processor returns does not cancel its job
  (VolumeDataRequestProcessor.cpp:1941): IsCompleted then returns true, although
  VolumeDataAccessManager.h:417 says that the buffer contains valid data.  A
  projected request on a VDS with several components does this.  CompletedMeansRead
  therefore only asks that every page was read and given to its processor.  For
  1-bit data the same error makes the task write to a job that may already be
  deleted (:2061), so the one 1-bit request of `jobs_stored` has a processor that
  does not fail.
- `++pagesProcessed == pagesCount` (:1906) may read `pagesCount` after the
  increment, when the task of another page may already have finished the job and
  its owner deleted it.  The model reads both at once.
- The destructor walks `m_jobs` and waits with the mutex released, while tasks
  erase finished remap jobs (:1875).
- A job with a refused preparation keeps its reference to the accessor (:2026),
  so that CleanupThread never empties it.
- Cancel of a job that is done makes IsCompleted false and IsCanceled true, while
  VolumeDataAccessManager.h:472 says that WaitForCompletion will return true.

## What is left out

- Contents of chunks, compression, conversion of formats, no-values: a block is
  known by versions.
- In `StorageRequests`: adaptive levels (a chunk has one load level while it is
  read), hashes of chunks, and the metadata pages themselves, which `LayerMetadata`
  has.
- In `LayerMetadata`: AddLayer, WriteSerializedVolumeDataLayout, the metadata of the
  VDS itself, adaptive level statistics, and a second Flush at the same time.  The
  arrival of an object and the callback of its upload are one step (`UploadEnds`); in
  the code the object is there before the callback begins, which makes the time in
  which a download left behind does not match only longer.
- In `PageAccessor`: the parent accessor, Invalidate, CopyPage, remapped layers,
  the two-phase reads of single-threaded builds, and the set of chunks a page was
  already copied to, which is empty whenever it could matter with one page per
  chunk.  CreateConstantValueDataBlock fails for invalid formats only.
- In `RequestProcessor`: the single-threaded build (OPENVDS_SINGLE_THREADED),
  waits with a timeout, a page that fails between the task's look
  at its error and ReadPreparedPage (`StartPage`; the page is then unpinned and its
  job cancelled, as where the task has waited for it), two threads that wait for the same job (the public
  interface excludes it), and the 30 seconds that CleanupThread lets pass.  The
  destructor walks `m_jobs` by position, and the runs that close have no remapped
  layer.
- In `CopyJobs`: the operations of the deque are atomic (BufferNotShared shows where
  they are not), there is one source and one destination accessor, and the part of
  Flush after the pending uploads belongs to the store.
- In `CurlTransfers`: the end of the event loop with its CurlHandler, sockets and
  timers of libuv, headers and URLs; a request is cancelled once.
- In `BulkDataStore`: RemoveFile, Rename and old revisions, chunks of a constant
  value, errors of reading index pages, WriteSerializedVolumeDataLayout, the limit
  of the cache of index pages, AddLayer of a layer that is being written, a file
  table whose names grow, and writes that are torn or reordered.
- The back ends of the IO manager, tokens, files, compression, parsing, the API entry
  points, tools and bindings have no module: they are protocols of others, system
  calls, numeric kernels, or wrappers without state.  `PROJECT.json` says so of
  each.

## The plan

Built: `StorageRequests`, `LayerMetadata`, `PageAccessor`, `RequestProcessor`,
`CurlTransfers` and `CopyJobs` with their proofs, `BulkDataStore` with
`ExtentAllocator` and `DurableLayers`.  Left, in this order:

1. Proofs: ExtentsDisjoint of `BulkDataStore`, from Allocate giving out no byte twice.
2. `LodCommit`: two page accessors, parent and child, one commit.
3. `ChunkStore`, the abstract store (per chunk: preparations and a version), and
   the proof that `StorageRequests` implements it; `PageAccessor` then uses it by
   INSTANCE instead of by its own two variables.
4. Operators for VolumeDataPartition (boxes to chunks) and Rle, checked against a
   definition over bounded inputs.
