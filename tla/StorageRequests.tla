--------------------------- MODULE StorageRequests ---------------------------
(***************************************************************************)
(* The request cache of VolumeDataStore: m_requests, one reference counted *)
(* StorageRequest per chunk, shared by everyone who reads the chunk and by *)
(* the write in flight.  PrepareReadChunk, ReadChunk, CancelReadChunk and  *)
(* WriteChunk run on any thread; m_mutex is released while a chunk is      *)
(* fetched, while a thread waits on m_wait, and between WriteChunk and its *)
(* completion callback, and each action below is one critical section.     *)
(*                                                                         *)
(* The store behind it is VolumeDataStoreIOManager: its table              *)
(* m_pendingDownloadRequests, keyed by chunk, is the variable "pending",   *)
(* and what its PrepareReadChunkImpl, ReadChunkImpl and CancelReadChunkImpl*)
(* do to that table is modelled here; metadata pages have their own module.*)
(*                                                                         *)
(* A client is one holder of a preparation: a page of a page accessor, or  *)
(* (CopyClients) a pure-copy job of the access manager.  The load level of *)
(* a layer is fixed while it is read, so a chunk has at most one request.  *)
(* Chunk contents are version numbers.                                     *)
(***************************************************************************)
EXTENDS Integers, FiniteSets

CONSTANTS Clients,          \* holders of a preparation, and writers
          CopyClients,      \* the clients that are copy jobs
          WriteClients,     \* the clients that also write chunks
          Chunks,
          MaxWrites,        \* bound: writes started in a behaviour
          MaxLeaks,         \* bound: preparations abandoned, per chunk
          MetadataResident, \* is the metadata page of every chunk in memory?
          TransfersMayFail, \* may a download, an upload or a metadata page fail?
          NoRequest         \* no StorageRequest for this chunk in m_requests

Versions == 0 .. MaxWrites

Request == [refCount : Nat, hasData : BOOLEAN, settingData : BOOLEAN,
            failed : BOOLEAN, data : Versions]

ASSUME StorageAssumption ==
  /\ IsFiniteSet(Clients)
  /\ CopyClients \subseteq Clients
  /\ WriteClients \subseteq Clients
  /\ MaxWrites \in Nat
  /\ MaxLeaks \in Nat
  /\ MetadataResident \in BOOLEAN
  /\ TransfersMayFail \in BOOLEAN
  /\ NoRequest \notin Request

VARIABLES request,  \* [Chunks -> Request or NoRequest]: m_requests
          pending,  \* m_pendingDownloadRequests of the IO manager store
          fetched,  \* the version a finished download holds
          stored,   \* the version of the object in the cloud
          uploads,  \* chunk uploads whose completion callback has not run
          writes,   \* writes started so far
          leaked,   \* preparations nobody will ever read or cancel
          pc, at,   \* each client's position, and the chunk it works on
          mine,     \* the version a writing client carries
          floor,    \* the stored version when the client prepared its read
          got,      \* the version the client's last read returned
          asleep    \* clients blocked in m_wait

cloudVars  == <<pending, fetched>>
clientVars == <<pc, at, mine, floor, got>>
vars == <<request, pending, fetched, stored, uploads, writes, leaked,
          pc, at, mine, floor, got, asleep>>

PendingState == {"none", "active", "done", "failed", "noMetadata"}
ReaderStates == {"prepared", "waiting", "reading", "read"}
WriterStates == {"waitExclusive", "upload"}
HolderStates == ReaderStates \cup WriterStates
NoVersion    == -1
Outcomes     == IF TransfersMayFail THEN BOOLEAN ELSE {TRUE}
\* Only a metadata page that could not be downloaded makes a preparation fail.
PrepareOutcomes == IF MetadataResident THEN {TRUE} ELSE Outcomes

TypeOK ==
  /\ request \in [Chunks -> Request \cup {NoRequest}]
  /\ pending \in [Chunks -> PendingState]
  /\ fetched \in [Chunks -> Versions]
  /\ stored  \in [Chunks -> Versions]
  /\ uploads \subseteq [chunk : Chunks, version : Versions]
  /\ writes  \in Versions
  /\ leaked  \in [Chunks -> 0 .. MaxLeaks]
  /\ pc      \in [Clients -> {"idle"} \cup HolderStates]
  /\ at      \in [Clients -> Chunks]
  /\ mine    \in [Clients -> Versions]
  /\ floor   \in [Clients -> Versions]
  /\ got     \in [Clients -> Versions \cup {NoVersion}]
  /\ asleep  \subseteq Clients

Init ==
  /\ request = [c \in Chunks |-> NoRequest]
  /\ pending = [c \in Chunks |-> "none"]
  /\ fetched = [c \in Chunks |-> 0]
  /\ stored  = [c \in Chunks |-> 0]
  /\ uploads = {}
  /\ writes  = 0
  /\ leaked  = [c \in Chunks |-> 0]
  /\ pc      = [t \in Clients |-> "idle"]
  /\ at      \in [Clients -> Chunks]
  /\ mine    = [t \in Clients |-> 0]
  /\ floor   = [t \in Clients |-> 0]
  /\ got     = [t \in Clients |-> NoVersion]
  /\ asleep  = {}

-----------------------------------------------------------------------------
(* VolumeDataStoreIOManager's three entry points.                          *)

\* A new entry is made in m_pendingDownloadRequests, unless the metadata page
\* is known to be unreadable.  An entry left behind by an earlier request is
\* overwritten when the metadata page is valid, but kept (emplace does nothing)
\* when the request must wait for the page.  Asserts are compiled out.
PrepareReadChunkImpl_Emplace(c, ok) ==
  /\ pending' = [pending EXCEPT ![c] = IF ok /\ @ = "none" THEN "active" ELSE @]
  /\ UNCHANGED fetched
PrepareReadChunkImpl(c, ok) ==
  IF ~ok THEN UNCHANGED cloudVars
         ELSE /\ \/ pending' = [pending EXCEPT ![c] = "active"]
                 \/ ~MetadataResident /\ pending[c] # "none" /\ UNCHANGED pending
              /\ UNCHANGED fetched

\* The object request finishes: with the object's present contents, with an
\* error, or (the metadata page could not be read) without ever being sent.
TransferFinished(c) ==
  /\ pending[c] = "active"
  /\ \/ /\ pending' = [pending EXCEPT ![c] = "done"]
        /\ fetched' = [fetched EXCEPT ![c] = stored[c]]
     \/ /\ TransfersMayFail
        /\ \E result \in {"failed", "noMetadata"} :
              pending' = [pending EXCEPT ![c] = result]
        /\ UNCHANGED fetched
  /\ UNCHANGED <<request, stored, uploads, writes, leaked, clientVars, asleep>>

\* ReadChunkImpl returns before it erases the entry when the transfer failed.
PendingAfterRead(c) ==
  [pending EXCEPT ![c] = IF @ = "failed" THEN "failed" ELSE "none"]

CancelReadChunkImpl(c) == pending' = [pending EXCEPT ![c] = "none"]

-----------------------------------------------------------------------------
(* VolumeDataStore.                                                        *)

FreshRequest_UncountedIfFailed(failed) ==
  [refCount |-> IF failed THEN 0 ELSE 1, hasData |-> FALSE, settingData |-> FALSE,
   failed |-> failed, data |-> 0]
FreshRequest(failed) ==
  [refCount |-> 1, hasData |-> FALSE, settingData |-> FALSE,
   failed |-> failed, data |-> 0]

WrittenRequest(version) ==
  [refCount |-> 1, hasData |-> TRUE, settingData |-> FALSE,
   failed |-> FALSE, data |-> version]

\* What the fetching client does to the request before it releases the mutex.
StartFetch_Unmarked(r) == r
StartFetch(r) == [r EXCEPT !.settingData = TRUE]

\* The predicate a writer waits for.
MayWrite_OnceWoken(r) == TRUE
MayWrite(r) == r.refCount = 1

\* Give up one reference to the request r of chunk c: the last one erases it,
\* any other wakes the threads in m_wait, whichever chunk they wait for.
DropReference_NoNotify(c, r) ==
  /\ request' = [request EXCEPT ![c] = IF r.refCount = 1 THEN NoRequest
                                       ELSE [r EXCEPT !.refCount = @ - 1]]
  /\ UNCHANGED asleep
DropReference(c, r) ==
  IF r.refCount = 1
  THEN /\ request' = [request EXCEPT ![c] = NoRequest]
       /\ UNCHANGED asleep
  ELSE /\ request' = [request EXCEPT ![c] = [r EXCEPT !.refCount = @ - 1]]
       /\ asleep' = {}

\* What a client holds after PrepareReadChunk: a page keeps its preparation
\* even if it failed, a copy job whose preparation failed is never enqueued
\* and forgets it.
HoldPreparation(t, c, ok) ==
  /\ at' = [at EXCEPT ![t] = c]
  /\ floor' = [floor EXCEPT ![t] = stored[c]]
  /\ got' = [got EXCEPT ![t] = NoVersion]
  /\ IF ok \/ t \notin CopyClients
     THEN /\ pc' = [pc EXCEPT ![t] = "prepared"]
          /\ UNCHANGED leaked
     ELSE /\ leaked[c] < MaxLeaks
          /\ leaked' = [leaked EXCEPT ![c] = @ + 1]
          /\ UNCHANGED pc

PrepareReadChunk(t, c) ==
  /\ pc[t] = "idle"
  /\ \/ /\ request[c] = NoRequest
        /\ \E ok \in PrepareOutcomes :
             /\ PrepareReadChunkImpl(c, ok)
             /\ request' = [request EXCEPT ![c] = FreshRequest(~ok)]
             /\ HoldPreparation(t, c, ok)
     \/ /\ request[c] # NoRequest
        /\ request' = [request EXCEPT ![c].refCount = @ + 1]
        /\ HoldPreparation(t, c, ~request[c].failed)
        /\ UNCHANGED cloudVars
  /\ UNCHANGED <<stored, uploads, writes, mine, asleep>>

\* The tail of ReadChunk: drop the reference and hand out the data.
FinishRead(t, c, r) ==
  /\ DropReference(c, r)
  /\ got' = [got EXCEPT ![t] = IF r.failed THEN NoVersion ELSE r.data]
  /\ pc' = [pc EXCEPT ![t] = "idle"]

\* ReadChunk finds the request and either returns its data, becomes the one
\* client that fetches it, or waits for the client that does.
ReadChunk(t) ==
  LET c == at[t]
      r == request[c]
  IN /\ pc[t] = "prepared"
     /\ r # NoRequest
     /\ \/ /\ r.hasData
           /\ FinishRead(t, c, r)
        \/ /\ ~r.hasData /\ ~r.settingData
           /\ request' = [request EXCEPT ![c] = StartFetch(r)]
           /\ pc' = [pc EXCEPT ![t] = "reading"]
           /\ UNCHANGED <<got, asleep>>
        \/ /\ ~r.hasData /\ r.settingData
           /\ pc' = [pc EXCEPT ![t] = "waiting"]
           /\ asleep' = asleep \cup {t}
           /\ UNCHANGED <<request, got>>
     /\ UNCHANGED <<pending, fetched, stored, uploads, writes, leaked, at, mine, floor>>

\* The fetching client, without the mutex, in ReadChunkImpl: it waits for the
\* transfer and writes data and error straight into the shared request (a
\* transfer that succeeds also clears the error of a failed preparation).
ReadChunkImpl(t) ==
  LET c == at[t]
  IN /\ pc[t] = "reading"
     /\ pending[c] # "active"
     /\ request' = [request EXCEPT ![c].failed = pending[c] # "done",
                                   ![c].data = IF pending[c] = "done" THEN fetched[c] ELSE @]
     /\ pending' = PendingAfterRead(c)
     /\ pc' = [pc EXCEPT ![t] = "read"]
     /\ UNCHANGED <<fetched, stored, uploads, writes, leaked, at, mine, floor, got, asleep>>

\* The fetching client locks the mutex again and publishes what it fetched.
ReadChunkPublish(t) ==
  LET c == at[t]
  IN /\ pc[t] = "read"
     /\ FinishRead(t, c, [request[c] EXCEPT !.hasData = TRUE])
     /\ UNCHANGED <<pending, fetched, stored, uploads, writes, leaked, at, mine, floor>>

\* A client woken in m_wait.wait(hasData) goes on, or back to sleep.
ReadChunkWake(t) ==
  LET c == at[t]
      r == request[c]
  IN /\ pc[t] = "waiting" /\ t \notin asleep
     /\ IF r.hasData
        THEN FinishRead(t, c, r)
        ELSE /\ asleep' = asleep \cup {t}
             /\ UNCHANGED <<request, got, pc>>
     /\ UNCHANGED <<pending, fetched, stored, uploads, writes, leaked, at, mine, floor>>

\* Only the last reference cancels the transfer, and only an unread one.
CancelReadChunk(t) ==
  LET c == at[t]
      r == request[c]
  IN /\ pc[t] = "prepared" /\ t \notin CopyClients
     /\ r # NoRequest
     /\ IF r.refCount = 1 /\ ~r.hasData /\ ~r.settingData
        THEN CancelReadChunkImpl(c)
        ELSE UNCHANGED pending
     /\ DropReference(c, r)
     /\ pc' = [pc EXCEPT ![t] = "idle"]
     /\ UNCHANGED <<fetched, stored, uploads, writes, leaked, at, mine, floor, got>>

\* WriteChunk takes a reference; if others hold the request it waits until its
\* own is the only one left.
WriteChunk(t, c) ==
  /\ pc[t] = "idle" /\ t \in WriteClients
  /\ writes < MaxWrites
  /\ writes' = writes + 1
  /\ mine' = [mine EXCEPT ![t] = writes + 1]
  /\ at' = [at EXCEPT ![t] = c]
  /\ \/ /\ request[c] = NoRequest
        /\ request' = [request EXCEPT ![c] = WrittenRequest(writes + 1)]
        /\ pc' = [pc EXCEPT ![t] = "upload"]
        /\ UNCHANGED asleep
     \/ /\ request[c] # NoRequest
        /\ request' = [request EXCEPT ![c].refCount = @ + 1]
        /\ pc' = [pc EXCEPT ![t] = "waitExclusive"]
        /\ asleep' = asleep \cup {t}
  /\ UNCHANGED <<pending, fetched, stored, uploads, leaked, floor, got>>

\* A writer woken in m_wait.wait(refCount == 1) goes on, or back to sleep.
WriteChunkWake(t) ==
  LET c == at[t]
  IN /\ pc[t] = "waitExclusive" /\ t \notin asleep
     /\ IF MayWrite(request[c])
        THEN /\ request' = [request EXCEPT ![c] = WrittenRequest(mine[t])]
             /\ pc' = [pc EXCEPT ![t] = "upload"]
             /\ UNCHANGED asleep
        ELSE /\ asleep' = asleep \cup {t}
             /\ UNCHANGED <<request, pc>>
     /\ UNCHANGED <<pending, fetched, stored, uploads, writes, leaked, at, mine, floor, got>>

\* WriteChunkImpl, without the mutex: the upload starts and WriteChunk returns.
WriteChunkImpl(t) ==
  /\ pc[t] = "upload"
  /\ uploads' = uploads \cup {[chunk |-> at[t], version |-> mine[t]]}
  /\ pc' = [pc EXCEPT ![t] = "idle"]
  /\ UNCHANGED <<request, pending, fetched, stored, writes, leaked, at, mine, floor, got, asleep>>

\* The callback given to WriteChunkImpl: the upload is over, its reference goes.
WriteCompleted(u) ==
  /\ uploads' = uploads \ {u}
  /\ \E ok \in Outcomes :
        stored' = IF ok THEN [stored EXCEPT ![u.chunk] = u.version] ELSE stored
  /\ request[u.chunk] # NoRequest
  /\ DropReference(u.chunk, request[u.chunk])
  /\ UNCHANGED <<pending, fetched, writes, leaked, clientVars>>

-----------------------------------------------------------------------------
ClientStep(t) ==
  \/ ReadChunkImpl(t) \/ ReadChunkPublish(t) \/ ReadChunkWake(t)
  \/ WriteChunkWake(t) \/ WriteChunkImpl(t)

Next ==
  \/ \E t \in Clients, c \in Chunks : PrepareReadChunk(t, c) \/ WriteChunk(t, c)
  \/ \E t \in Clients : ReadChunk(t) \/ CancelReadChunk(t) \/ ClientStep(t)
  \/ \E c \in Chunks : TransferFinished(c)
  \/ \E u \in uploads : WriteCompleted(u)

Spec == Init /\ [][Next]_vars

\* A thread that may run does, the cloud answers every request, and a page that
\* was prepared is read or cancelled in the end.  Nobody has to start anything.
Fairness ==
  /\ \A t \in Clients : WF_vars(ClientStep(t)) /\ WF_vars(ReadChunk(t) \/ CancelReadChunk(t))
  /\ \A c \in Chunks : WF_vars(TransferFinished(c))
  /\ WF_vars(\E u \in uploads : WriteCompleted(u))

FairSpec == Spec /\ Fairness

-----------------------------------------------------------------------------
Holders(c) == {t \in Clients : at[t] = c /\ pc[t] \in HolderStates}
Uploads(c) == {u \in uploads : u.chunk = c}

References(c) == IF request[c] = NoRequest THEN 0 ELSE request[c].refCount

\* The reference count of a chunk's request is the number of clients between
\* their first and last call for it, plus its uploads in flight, plus the
\* preparations that were forgotten; so the request is there exactly while it
\* is needed, and neither ReadChunk, CancelReadChunk nor the upload callback
\* (which throws) can miss it.
RefCountExact ==
  \A c \in Chunks :
    /\ References(c) = Cardinality(Holders(c)) + Cardinality(Uploads(c)) + leaked[c]
    /\ request[c] # NoRequest => References(c) > 0

\* The request of chunk c shows this version to every reader, for good.
Publishes(c, version) ==
  /\ request[c] # NoRequest
  /\ request[c].hasData /\ ~request[c].failed
  /\ request[c].data = version
  /\ \A t \in Holders(c) : pc[t] \notin {"reading", "read"}

\* Writes of one chunk are serialized: once a writer has put its data in the
\* request, until the upload's callback runs, no other writer has, no client
\* is fetching the chunk, and everyone who reads it is given that data.
WritesSerialized ==
  /\ \A t1, t2 \in Clients :
       pc[t1] = "upload" /\ pc[t2] = "upload" /\ at[t1] = at[t2] => t1 = t2
  /\ \A u1, u2 \in uploads : u1.chunk = u2.chunk => u1 = u2
  /\ \A t \in Clients : pc[t] = "upload" =>
       /\ Uploads(at[t]) = {}
       /\ Publishes(at[t], mine[t])
  /\ \A u \in uploads : Publishes(u.chunk, u.version)

Fetching(t) == pc[t] \in {"reading", "read"}

\* A chunk is fetched by one client at a time, and the clients that wait for
\* the data wait for one that is fetching it, or for one already published.
SingleFetch ==
  /\ \A t1, t2 \in Clients : Fetching(t1) /\ Fetching(t2) /\ at[t1] = at[t2] => t1 = t2
  /\ \A t \in Clients : pc[t] = "waiting" =>
       \/ request[at[t]].hasData
       \/ \E f \in Holders(at[t]) : Fetching(f)

\* A read never returns data older than the chunk that was in the cloud when
\* the read was prepared, whatever was cancelled or written in between.
FreshRead ==
  \A t \in Clients : pc[t] = "idle" /\ got[t] # NoVersion => got[t] >= floor[t]

\* VolumeDataStoreIOManager asserts that no download is pending for a chunk
\* when VolumeDataStore, having no request for it, prepares one.
NoStalePending ==
  \A c \in Chunks : request[c] = NoRequest => pending[c] = "none"

\* Every read that is started returns: no thread in m_wait is forgotten.
ReadersReturn ==
  \A t \in Clients : pc[t] \in ReaderStates ~> pc[t] = "idle"

\* A writer does not wait forever once it is the only one left that wants the
\* chunk: whoever drops the reference next to last wakes it.
LoneWriterProceeds ==
  \A t \in Clients :
    ~<>[](/\ pc[t] = "waitExclusive"
          /\ Holders(at[t]) = {t} /\ Uploads(at[t]) = {} /\ leaked[at[t]] = 0)
=============================================================================
