---------------------------- MODULE PageAccessor ----------------------------
(***************************************************************************)
(* VolumeDataPageAccessorImpl and the pages it caches (VolumeDataPageImpl).*)
(* m_pages maps a chunk to its page, m_pages_lru orders the pages by use,  *)
(* a page is kept while it is pinned and evicted, least recently used      *)
(* first, when there are more than m_maxPages.  Pages that were written    *)
(* are copied into the margins of their neighbours and written back when   *)
(* they are evicted or committed.                                          *)
(*                                                                         *)
(* m_pagesMutex is the variable "mutex".  An action that takes and drops   *)
(* it in one step only needs it free; the loop of LimitPageListSize and    *)
(* the end of CommitInternal keep it over several steps, because writing a *)
(* page back can block in VolumeDataStore::WriteChunk with the mutex held. *)
(* Waits with a timeout are steps guarded by what they wait for; the wait  *)
(* without one, in ReadPreparedPage, is the set "asleep".                  *)
(*                                                                         *)
(* Two kinds of threads use accessors.  Jobs are tasks of the request      *)
(* processor on a read-only accessor: PrepareReadPage, then                *)
(* ReadPreparedPage or CancelPreparedReadPage, then UnPin without the      *)
(* mutex.  Users call the public interface: ReadPage, CreatePage,          *)
(* GetWritableBuffer, UpdateWrittenRegion, Release, Commit, SetMaxPages.   *)
(*                                                                         *)
(* The store is seen through its contract (module StorageRequests): a      *)
(* chunk has a count of preparations, a read or a cancel uses one up, and  *)
(* WriteChunk waits until there are none.  The accessor has no parent (no  *)
(* LOD generation), reads no remapped layer and is not invalidated.        *)
(***************************************************************************)
EXTENDS Integers, FiniteSets, UniqueLists

CONSTANTS Jobs,        \* threads that process pages of requests
          Users,       \* threads that use the public interface
          Readers,     \* the users that call ReadPage
          Committers,  \* the users that call Commit
          Creators,    \* the users that call CreatePage
          Chunks,
          Neighbours,  \* [Chunks -> SUBSET Chunks]: whose margins a chunk fills
          Pages,       \* page objects; bounds the pages alive at one time
          InitialMaxPages,
          PageLimits,  \* the values SetMaxPages is called with
          MaxWrites,   \* bound: pages created or written in a behaviour
          MaxCalls,    \* bound: calls that a thread starts
          ReadsMayFail,
          NoPage, NoThread, NoData, Failed

Threads  == Jobs \cup Users
Versions == 0 .. MaxWrites
\* A block is known by the version of each chunk's samples that it holds: its
\* own, and in its margins those of its neighbours.
Blocks   == [Chunks -> Versions]

\* "seen" is history: the version of each neighbour that was written back while
\* the page was on the list.
PageRecord ==
  [chunk : Chunks, pins : Nat, settingData : Nat, requestPrepared : BOOLEAN,
   error : BOOLEAN, data : Blocks \cup {NoData}, dirty : BOOLEAN,
   written : BOOLEAN, seen : Blocks]

ASSUME PageAccessorAssumption ==
  /\ IsFiniteSet(Threads) /\ IsFiniteSet(Pages) /\ IsFiniteSet(Chunks) /\ Chunks # {}
  /\ Jobs \cap Users = {}
  /\ Readers \subseteq Users /\ Committers \subseteq Users /\ Creators \subseteq Users
  \* Jobs read from accessors that are read-only.
  /\ Jobs = {} \/ (Committers = {} /\ MaxWrites = 0)
  /\ Neighbours \in [Chunks -> SUBSET Chunks]
  /\ InitialMaxPages \in Nat /\ PageLimits \subseteq Nat
  /\ MaxWrites \in Nat /\ MaxCalls \in Nat
  /\ ReadsMayFail \in BOOLEAN
  /\ NoPage \notin Pages /\ NoThread \notin Threads
  /\ NoPage \notin PageRecord
  /\ NoData \notin Blocks /\ Failed \notin Blocks /\ NoData # Failed

VARIABLES pages,      \* [Chunks -> Pages or NoPage]: m_pages
          lru,        \* m_pages_lru, most recently used first
          page,       \* [Pages -> VolumeDataPageImpl, or NoPage when deleted]
          maxPages,   \* m_maxPages
          committing, \* m_isCommitInProgress
          cursor,     \* the page CommitInternal waits for
          writeLocked,\* m_isLayerWriteLocked
          mutex,      \* who holds m_pagesMutex between steps
          asleep,     \* threads in the wait of ReadPreparedPage
          thread,     \* each thread's position and local variables
          prepared,   \* the store's count of preparations of a chunk
          stored,     \* the block the store returns for a chunk
          clock,      \* writes so far
          latest,     \* the last version written to a chunk
          fault       \* CopyMargin met a page that has no data

cacheVars  == <<pages, lru, maxPages>>
commitVars == <<committing, cursor, writeLocked>>
storeVars  == <<prepared, stored>>
history    == <<clock, latest, fault>>
vars == <<cacheVars, page, commitVars, mutex, asleep, thread, storeVars, history>>

Positions ==
  {"idle", "waitCommit", "prepared", "enter", "fetch", "publish", "leave", "await",
   "cancel", "create", "holding", "limit", "limitBlocked", "limitWait",
   "commitWait", "commitFlush"}

\* The thread's page, and whether it has a writable buffer of it; the chunk it
\* wants while it waits for a commit; what it read from the store; the page
\* LimitPageListSize has pinned while it waits.
ThreadRecord ==
  [pc : Positions, page : Pages \cup {NoPage}, writable : BOOLEAN, chunk : Chunks,
   got : Blocks \cup {NoData, Failed}, victim : Pages \cup {NoPage},
   calls : 0 .. MaxCalls]

TypeOK ==
  /\ pages \in [Chunks -> Pages \cup {NoPage}]
  /\ lru \in Seq(Pages)
  /\ page \in [Pages -> PageRecord \cup {NoPage}]
  /\ maxPages \in Nat
  /\ committing \in BOOLEAN
  /\ cursor \in Pages \cup {NoPage}
  /\ writeLocked \in BOOLEAN
  /\ mutex \in Threads \cup {NoThread}
  /\ asleep \subseteq Threads
  /\ thread \in [Threads -> ThreadRecord]
  /\ prepared \in [Chunks -> Nat]
  /\ stored \in [Chunks -> Blocks]
  /\ clock \in Versions
  /\ latest \in [Chunks -> Versions]
  /\ fault \in BOOLEAN

Unwritten == [c \in Chunks |-> 0]

Init ==
  /\ pages = [c \in Chunks |-> NoPage]
  /\ lru = <<>>
  /\ page = [p \in Pages |-> NoPage]
  /\ maxPages = InitialMaxPages
  /\ committing = FALSE
  /\ cursor = NoPage
  /\ writeLocked = FALSE
  /\ mutex = NoThread
  /\ asleep = {}
  /\ thread = [t \in Threads |->
                 [pc |-> "idle", page |-> NoPage, writable |-> FALSE,
                  chunk |-> CHOOSE c \in Chunks : TRUE,
                  got |-> NoData, victim |-> NoPage, calls |-> 0]]
  /\ prepared = [c \in Chunks |-> 0]
  /\ stored = [c \in Chunks |-> Unwritten]
  /\ clock = 0
  /\ latest = [c \in Chunks |-> 0]
  /\ fault = FALSE

-----------------------------------------------------------------------------
(* Helpers.                                                                *)

MutexFree == mutex = NoThread
At(t, l)  == thread[t].pc = l
\* The page and the chunk the thread works on.
Mine(t)   == thread[t].page
On(t)     == page[Mine(t)]
OnList    == ToSet(lru)
Live      == {p \in Pages : page[p] # NoPage}

GoTo(t, l) == thread' = [thread EXCEPT ![t].pc = l]
\* Back to the caller, which still holds the page it was given, if any.
Resting(t) == IF Mine(t) = NoPage THEN "idle" ELSE "holding"
Starts(t)  == At(t, "idle") /\ thread[t].calls < MaxCalls

\* A page object that is not in use.
NewPageObject == CHOOSE p \in Pages : page[p] = NoPage
PageAvailable == \E p \in Pages : page[p] = NoPage

VolumeDataPageImpl(c, failed) ==
  [chunk |-> c, pins |-> 1, settingData |-> 0, requestPrepared |-> TRUE,
   error |-> failed, data |-> NoData, dirty |-> FALSE, written |-> FALSE,
   seen |-> Unwritten]

Pin_Forgotten(r) == r
Pin(r)   == [r EXCEPT !.pins = @ + 1]
UnPin(r) == [r EXCEPT !.pins = @ - 1]

\* m_pages without the entry of chunk c, whichever page it is.
ErasePage(c) == [pages EXCEPT ![c] = NoPage]

\* Whoever would insert or delete a page waits for a commit in progress.
CommitBlocks == committing

\* The new page p of chunk c enters m_pages and the front of m_pages_lru.
InsertPage(p, c, failed) ==
  /\ pages' = [pages EXCEPT ![c] = p]
  /\ lru' = <<p>> \o lru
  /\ page' = [page EXCEPT ![p] = VolumeDataPageImpl(c, failed)]
  /\ UNCHANGED maxPages

-----------------------------------------------------------------------------
(* PrepareReadPage.                                                        *)

\* A page that is found is pinned and becomes the most recently used.
FindPage(t, c) ==
  LET p == pages[c] IN
  /\ p # NoPage
  /\ page' = [page EXCEPT ![p] = Pin(@)]
  /\ lru' = <<p>> \o Erase(lru, p)
  /\ thread' = [thread EXCEPT ![t].pc = "prepared", ![t].page = p, ![t].calls = @ + 1]
  /\ UNCHANGED <<pages, maxPages, storeVars>>

\* A new page prepares its chunk in the store, which keeps the preparation
\* even if it failed.
NewPage(t, c) ==
  /\ PageAvailable
  /\ \E failed \in (IF ReadsMayFail THEN BOOLEAN ELSE {FALSE}) :
        InsertPage(NewPageObject, c, failed)
  /\ prepared' = [prepared EXCEPT ![c] = @ + 1]
  /\ UNCHANGED stored

PrepareReadPage(t, c) ==
  /\ t \in Jobs \cup Readers /\ Starts(t) /\ MutexFree
  /\ \/ FindPage(t, c)
     \/ /\ pages[c] = NoPage /\ ~CommitBlocks
        /\ NewPage(t, c)
        /\ thread' = [thread EXCEPT ![t].pc = "prepared", ![t].page = NewPageObject,
                                    ![t].calls = @ + 1]
     \/ /\ pages[c] = NoPage /\ CommitBlocks
        /\ thread' = [thread EXCEPT ![t].pc = "waitCommit", ![t].chunk = c, ![t].calls = @ + 1]
        /\ UNCHANGED <<cacheVars, page, storeVars>>
  /\ UNCHANGED <<commitVars, mutex, asleep, history>>

\* After the wait for a commit m_pages is not searched again.
PrepareAfterCommit(t) ==
  /\ At(t, "waitCommit") /\ MutexFree /\ ~CommitBlocks
  /\ NewPage(t, thread[t].chunk)
  /\ thread' = [thread EXCEPT ![t].pc = "prepared", ![t].page = NewPageObject]
  /\ UNCHANGED <<commitVars, mutex, asleep, history>>

-----------------------------------------------------------------------------
(* ReadPreparedPage.                                                       *)

\* A job has just asked whether its page has an error.  One that appears after
\* that ends the read like one that is found by waiting (AwaitData).
StartReading(t) ==
  /\ At(t, "prepared")
  /\ t \in Jobs => ~On(t).error
  /\ GoTo(t, IF On(t).requestPrepared THEN "enter" ELSE "holding")
  /\ UNCHANGED <<cacheVars, page, commitVars, mutex, asleep, storeVars, history>>

EnterSettingData(t) ==
  /\ At(t, "enter")
  /\ page' = [page EXCEPT ![Mine(t)].settingData = @ + 1]
  /\ GoTo(t, IF On(t).settingData = 0 THEN "fetch" ELSE "leave")
  /\ UNCHANGED <<cacheVars, commitVars, mutex, asleep, storeVars, history>>

\* The first to enter looks again whether the page still waits for its data,
\* then reads the chunk; the store refuses a chunk that nobody prepared.
ReadOutcomes(c, r) ==
  IF prepared[c] = 0 \/ r.error THEN {Failed}
  ELSE {stored[c]} \cup (IF ReadsMayFail THEN {Failed} ELSE {})

FetchChunk(t) ==
  LET c == On(t).chunk IN
  /\ At(t, "fetch")
  /\ IF ~On(t).requestPrepared
     THEN /\ page' = [page EXCEPT ![Mine(t)].settingData = @ - 1]
          /\ GoTo(t, "holding")
          /\ UNCHANGED prepared
     ELSE /\ \E result \in ReadOutcomes(c, On(t)) :
               thread' = [thread EXCEPT ![t].pc = "publish", ![t].got = result]
          /\ prepared' = [prepared EXCEPT ![c] = IF @ = 0 THEN 0 ELSE @ - 1]
          /\ UNCHANGED page
  /\ UNCHANGED <<cacheVars, commitVars, mutex, asleep, stored, history>>

\* What the setter does to the page under the mutex.
ReadPage_LeavesTwice(r, block) ==
  IF block = Failed
  THEN [r EXCEPT !.error = TRUE, !.requestPrepared = FALSE, !.settingData = @ - 2]
  ELSE [r EXCEPT !.data = block, !.requestPrepared = FALSE, !.settingData = @ - 1]
ReadPage(r, block) ==
  IF block = Failed
  THEN [r EXCEPT !.error = TRUE, !.requestPrepared = FALSE, !.settingData = @ - 1]
  ELSE [r EXCEPT !.data = block, !.requestPrepared = FALSE, !.settingData = @ - 1]

NotifyReaders_Forgotten == UNCHANGED asleep
NotifyReaders == asleep' = {}

PublishPage(t) ==
  /\ At(t, "publish") /\ MutexFree
  /\ page' = [page EXCEPT ![Mine(t)] = ReadPage(@, thread[t].got)]
  /\ thread' = [thread EXCEPT ![t].pc = IF thread[t].got = Failed
                                        THEN "holding" ELSE "limit",
                              ![t].got = NoData]
  /\ mutex' = IF thread[t].got = Failed THEN NoThread ELSE t
  /\ NotifyReaders
  /\ UNCHANGED <<cacheVars, commitVars, storeVars, history>>

LeaveSettingData(t) ==
  /\ At(t, "leave")
  /\ page' = [page EXCEPT ![Mine(t)].settingData = @ - 1]
  /\ GoTo(t, "await")
  /\ UNCHANGED <<cacheVars, commitVars, mutex, asleep, storeVars, history>>

\* Wait, without a timeout, until nobody is setting the page's data.
AwaitData(t) ==
  /\ At(t, "await") /\ MutexFree /\ t \notin asleep
  /\ IF On(t).settingData > 0
     THEN /\ asleep' = asleep \cup {t}
          /\ UNCHANGED <<mutex, thread>>
     ELSE /\ GoTo(t, IF On(t).error THEN "holding" ELSE "limit")
          /\ mutex' = IF On(t).error THEN NoThread ELSE t
          /\ UNCHANGED asleep
  /\ UNCHANGED <<cacheVars, page, commitVars, storeVars, history>>

-----------------------------------------------------------------------------
(* Giving a page back.                                                     *)

\* CancelPreparedReadPage: the last one to hold the page takes it out of the
\* cache, then, without the mutex, cancels the preparation and deletes it.
CancelPreparedReadPage(t) ==
  LET p == Mine(t) IN
  /\ At(t, "prepared") /\ t \in Jobs /\ MutexFree
  /\ page' = [page EXCEPT ![p] = UnPin(@)]
  /\ IF On(t).pins > 1
     THEN /\ thread' = [thread EXCEPT ![t].pc = "idle", ![t].page = NoPage]
          /\ UNCHANGED cacheVars
     ELSE /\ GoTo(t, "cancel")
          /\ pages' = ErasePage(On(t).chunk)
          /\ lru' = IF pages[On(t).chunk] = NoPage THEN lru ELSE Erase(lru, p)
          /\ UNCHANGED maxPages
  /\ UNCHANGED <<commitVars, mutex, asleep, storeVars, history>>

\* Does the page still own a preparation when it is deleted?
OwnsPreparation_Never(r) == FALSE
OwnsPreparation(r) == r.requestPrepared

DeleteCancelledPage(t) ==
  LET c == On(t).chunk IN
  /\ At(t, "cancel")
  /\ prepared' = [prepared EXCEPT ![c] =
                     IF OwnsPreparation(On(t)) /\ @ > 0 THEN @ - 1 ELSE @]
  /\ page' = [page EXCEPT ![Mine(t)] = NoPage]
  /\ thread' = [thread EXCEPT ![t].pc = "idle", ![t].page = NoPage]
  /\ NotifyReaders
  /\ UNCHANGED <<cacheVars, commitVars, mutex, stored, history>>

\* VolumeDataPage::Release under the mutex; a job's UnPin does without.
Release(t) ==
  /\ At(t, "holding")
  /\ t \in Users => MutexFree
  /\ page' = [page EXCEPT ![Mine(t)] = UnPin(@)]
  /\ thread' = [thread EXCEPT ![t].pc = "idle", ![t].page = NoPage, ![t].writable = FALSE]
  /\ UNCHANGED <<cacheVars, commitVars, mutex, asleep, storeVars, history>>
-----------------------------------------------------------------------------
(* Writing.                                                                *)

\* The bound on writes counts the pages being created.
MayWrite == clock + Cardinality({t \in Threads : At(t, "create")}) < MaxWrites

\* CreatePage looks the page up after the wait for a commit, and throws if it
\* exists.  The new page is not prepared in the store.
CreatePage(t, c) ==
  /\ Starts(t) /\ t \in Creators /\ MutexFree /\ ~CommitBlocks
  /\ MayWrite
  /\ writeLocked' = TRUE
  /\ IF pages[c] # NoPage
     THEN /\ thread' = [thread EXCEPT ![t].calls = @ + 1]
          /\ UNCHANGED <<cacheVars, page>>
     ELSE /\ PageAvailable
          /\ InsertPage(NewPageObject, c, FALSE)
          /\ thread' = [thread EXCEPT ![t].pc = "create", ![t].page = NewPageObject,
                                      ![t].calls = @ + 1]
  /\ UNCHANGED <<committing, cursor, mutex, asleep, storeVars, history>>

\* The constant value is a new version of the chunk's own samples.
FillCreatedPage(t) ==
  LET c == On(t).chunk IN
  /\ At(t, "create") /\ MutexFree
  /\ clock' = clock + 1
  /\ latest' = [latest EXCEPT ![c] = clock + 1]
  /\ page' = [page EXCEPT ![Mine(t)].data = [Unwritten EXCEPT ![c] = clock + 1],
                          ![Mine(t)].dirty = TRUE]
  /\ NotifyReaders
  /\ GoTo(t, "limit")
  /\ mutex' = t
  /\ UNCHANGED <<cacheVars, commitVars, storeVars, fault>>

GetWritableBuffer(t) ==
  /\ At(t, "holding") /\ t \in Users /\ MutexFree
  /\ On(t).data # NoData /\ ~On(t).error /\ ~thread[t].writable
  /\ writeLocked' = TRUE
  /\ thread' = [thread EXCEPT ![t].writable = TRUE]
  /\ UNCHANGED <<cacheVars, page, committing, cursor, mutex, asleep, storeVars, history>>

\* The user has changed the chunk's own samples in the buffer and says so, now
\* or, with the same buffer, any number of times.
MarkWritten_Clean(r) == [r EXCEPT !.written = TRUE]
MarkWritten(r) == [r EXCEPT !.written = TRUE, !.dirty = TRUE]

UpdateWrittenRegion(t) ==
  LET c == On(t).chunk IN
  /\ At(t, "holding") /\ thread[t].writable /\ MutexFree
  /\ MayWrite
  /\ clock' = clock + 1
  /\ latest' = [latest EXCEPT ![c] = clock + 1]
  /\ page' = [page EXCEPT ![Mine(t)] = MarkWritten([@ EXCEPT !.data[c] = clock + 1])]
  /\ UNCHANGED <<cacheVars, commitVars, mutex, asleep, thread, storeVars, fault>>

\* The pages x on the list into whose margins the written page w reaches.
IsCopyMarginNeeded(pg, w, x) ==
  /\ x # w /\ pg[w].written
  /\ pg[x].chunk \in Neighbours[pg[w].chunk] \cup {pg[w].chunk}

\* Copy the written samples of w into every page that needs them.
CopyMargins(pg, w) ==
  [x \in Pages |->
     IF x \in OnList /\ IsCopyMarginNeeded(pg, w, x) /\ pg[x].data # NoData
     THEN [pg[x] EXCEPT !.data[pg[w].chunk] = pg[w].data[pg[w].chunk], !.dirty = TRUE]
     ELSE pg[x]]

\* The copies of all written pages, in the order of the list.  If there are two
\* pages of a chunk the first one's samples are copied, over the other's too.
CopyAllMargins(pg) ==
  LET Sources(x) == {w \in OnList : IsCopyMarginNeeded(pg, w, x)}
      From(c) == lru[Min({i \in DOMAIN lru : pg[lru[i]].written /\ pg[lru[i]].chunk = c})]
  IN [x \in Pages |->
        IF x \notin OnList \/ Sources(x) = {} \/ pg[x].data = NoData THEN pg[x]
        ELSE [pg[x] EXCEPT
                !.data = [c \in Chunks |-> IF \E w \in Sources(x) : pg[w].chunk = c
                                          THEN pg[From(c)].data[c] ELSE pg[x].data[c]],
                !.dirty = TRUE]]

\* CopyMargin would write to a page without a buffer.
CopiesIntoNothing(w) ==
  \E x \in OnList : IsCopyMarginNeeded(page, w, x) /\ page[x].data = NoData

\* RequestWritePage for the dirty pages among D: the store has the blocks, in
\* the order of the list, once nobody else has the chunks prepared.
MayWriteBack(pg, D) == \A p \in D : pg[p].dirty => prepared[pg[p].chunk] = 0
WriteBack_Dropped(pg, D) == stored
WriteBack(pg, D) ==
  [c \in Chunks |->
     LET dirty == {i \in DOMAIN lru : lru[i] \in D /\ pg[lru[i]].dirty /\ pg[lru[i]].chunk = c}
     IN IF dirty = {} THEN stored[c] ELSE pg[lru[Max(dirty)]].data]

\* History: the other pages on the list are owed the samples written back.
NoteSeen(pg, D) ==
  [x \in Pages |->
     IF x \notin OnList THEN pg[x]
     ELSE [pg[x] EXCEPT !.seen =
             [c \in Chunks |->
                LET from == {w \in D : IsCopyMarginNeeded(pg, w, x) /\ pg[w].chunk = c}
                IN IF from = {} THEN @[c] ELSE pg[CHOOSE w \in from : TRUE].data[c]]]]

-----------------------------------------------------------------------------
(* LimitPageListSize.  The thread holds the mutex when it gets here.       *)

PagesListed == Cardinality({c \in Chunks : pages[c] # NoPage})

MayEvict(p) == page[p].pins = 0

\* A neighbour of the written page v is still being read.
IsReadInProgress_No(v) == FALSE
IsReadInProgress(v) ==
  \E x \in OnList : IsCopyMarginNeeded(page, v, x) /\ page[x].data = NoData

\* The page v leaves the cache.  Writing it back may have to wait for the
\* store, with the mutex held.
Evict(t, v) ==
  LET copied == CopyMargins(page, v) IN
  /\ MayWriteBack(copied, {v})
  /\ fault' = (fault \/ CopiesIntoNothing(v))
  /\ stored' = WriteBack(copied, {v})
  /\ page' = [NoteSeen(copied, {v}) EXCEPT ![v] = NoPage]
  /\ pages' = ErasePage(page[v].chunk)
  /\ lru' = Erase(lru, v)
  /\ thread' = [thread EXCEPT ![t].pc = "limit", ![t].victim = NoPage]
  /\ mutex' = t
  /\ UNCHANGED <<maxPages, prepared, clock, latest, asleep, commitVars>>

\* A read in progress is waited for with the victim pinned.
EvictOrWait(t, v) ==
  IF IsReadInProgress(v)
  THEN /\ page' = [page EXCEPT ![v] = Pin(@)]
       /\ thread' = [thread EXCEPT ![t].pc = "limitWait", ![t].victim = v]
       /\ mutex' = NoThread
       /\ UNCHANGED <<cacheVars, commitVars, asleep, storeVars, history>>
  ELSE Evict(t, v)

LimitReached(t) ==
  /\ GoTo(t, Resting(t))
  /\ mutex' = NoThread
  /\ UNCHANGED <<cacheVars, page, commitVars, asleep, storeVars, history>>

PickVictim(t) ==
  LET evictable == {i \in DOMAIN lru : MayEvict(lru[i])} IN
  IF evictable = {} THEN LimitReached(t) ELSE EvictOrWait(t, lru[Max(evictable)])

LimitPageListSize(t) ==
  /\ At(t, "limit") /\ mutex = t
  /\ CASE PagesListed <= maxPages -> LimitReached(t)
       [] PagesListed > maxPages /\ ~CommitBlocks -> PickVictim(t)
       [] OTHER -> /\ GoTo(t, "limitBlocked")
                   /\ mutex' = NoThread
                   /\ UNCHANGED <<cacheVars, page, commitVars, asleep, storeVars, history>>

\* The commit is over: evict a page, whatever the size is by now.
LimitAfterCommit(t) ==
  /\ At(t, "limitBlocked") /\ MutexFree /\ ~CommitBlocks
  /\ PickVictim(t)

\* After the wait a page that was pinned meanwhile is left alone.
LimitAfterRead(t) ==
  LET v == thread[t].victim IN
  /\ At(t, "limitWait") /\ MutexFree
  /\ IF page[v].pins > 1
     THEN /\ page' = [page EXCEPT ![v] = UnPin(@)]
          /\ thread' = [thread EXCEPT ![t].pc = "limit", ![t].victim = NoPage]
          /\ mutex' = t
          /\ UNCHANGED <<cacheVars, commitVars, asleep, storeVars, history>>
     ELSE ~IsReadInProgress(v) /\ Evict(t, v)

SetMaxPages(t, n) ==
  /\ Starts(t) /\ MutexFree
  /\ maxPages' = n
  /\ mutex' = t
  /\ thread' = [thread EXCEPT ![t].pc = "limit", ![t].calls = @ + 1]
  /\ UNCHANGED <<pages, lru, page, commitVars, asleep, storeVars, history>>

-----------------------------------------------------------------------------
(* Commit.                                                                 *)

IsUnread(p) == page[p].data = NoData /\ ~page[p].error

\* CommitInternal walks m_pages_lru, here over the places "rest" of it, and waits
\* for the first page that is unread.
WalkList(t, rest, threads) ==
  LET unread == {i \in rest : IsUnread(lru[i])} IN
  IF unread = {}
  THEN /\ thread' = [threads EXCEPT ![t].pc = "commitFlush"]
       /\ mutex' = t
       /\ cursor' = NoPage
  ELSE /\ thread' = [threads EXCEPT ![t].pc = "commitWait"]
       /\ mutex' = NoThread
       /\ cursor' = lru[Min(unread)]

\* A second Commit returns at once.
Commit(t) ==
  /\ t \in Committers /\ At(t, Resting(t)) /\ thread[t].calls < MaxCalls /\ MutexFree
  /\ ~committing
  /\ committing' = TRUE
  /\ WalkList(t, DOMAIN lru, [thread EXCEPT ![t].calls = @ + 1])
  /\ UNCHANGED <<cacheVars, page, writeLocked, asleep, storeVars, history>>

\* The walk goes on from where the page it waited for is now.
CommitWalk(t) ==
  LET passed == {i \in DOMAIN lru : \E j \in i .. Len(lru) : lru[j] = cursor} IN
  /\ At(t, "commitWait") /\ MutexFree /\ ~IsUnread(cursor)
  /\ WalkList(t, DOMAIN lru \ passed, thread)
  /\ UNCHANGED <<cacheVars, page, committing, writeLocked, asleep, storeVars, history>>

EndCommit_Forgotten == UNCHANGED committing
EndCommit == committing' = FALSE

\* All margins are copied, then all dirty pages written back.
CommitFlush(t) ==
  LET copied == CopyAllMargins(page)
      saved  == NoteSeen(copied, OnList) IN
  /\ At(t, "commitFlush") /\ mutex = t
  /\ MayWriteBack(copied, OnList)
  /\ fault' = (fault \/ \E w \in OnList : CopiesIntoNothing(w))
  /\ stored' = WriteBack(copied, OnList)
  /\ page' = [p \in Pages |->
                IF p \in OnList /\ copied[p].dirty
                THEN [saved[p] EXCEPT !.dirty = FALSE, !.written = FALSE] ELSE saved[p]]
  /\ EndCommit
  /\ writeLocked' = FALSE
  /\ mutex' = NoThread
  /\ GoTo(t, Resting(t))
  /\ UNCHANGED <<cacheVars, cursor, asleep, prepared, clock, latest>>

-----------------------------------------------------------------------------
\* The steps of a call that has started, and what starts one.
Continue(t) ==
  \/ PrepareAfterCommit(t)
  \/ StartReading(t) \/ EnterSettingData(t) \/ FetchChunk(t) \/ PublishPage(t)
  \/ LeaveSettingData(t) \/ AwaitData(t)
  \/ DeleteCancelledPage(t)
  \/ FillCreatedPage(t)
  \/ LimitPageListSize(t) \/ LimitAfterCommit(t) \/ LimitAfterRead(t)
  \/ CommitWalk(t) \/ CommitFlush(t)

Call(t) ==
  \/ \E c \in Chunks : PrepareReadPage(t, c) \/ CreatePage(t, c)
  \/ \E n \in PageLimits : SetMaxPages(t, n)
  \/ CancelPreparedReadPage(t)
  \/ GetWritableBuffer(t) \/ UpdateWrittenRegion(t)
  \/ Release(t)
  \/ Commit(t)

Next == \E t \in Threads : Continue(t) \/ Call(t)
Spec == Init /\ [][Next]_vars
\* Every thread that is inside a call is scheduled again and again.
FairSpec == Spec /\ \A t \in Threads : WF_vars(Continue(t) \/ CancelPreparedReadPage(t))
-----------------------------------------------------------------------------
(* Properties.                                                             *)

\* The pins of a page are exactly the threads that use it: those it was given
\* to and those that wait with it as a victim.  A page in use is never deleted,
\* although jobs unpin without the mutex and LimitPageListSize drops it.
PinsExact ==
  /\ \A p \in Live : page[p].pins = Cardinality({t \in Threads : Mine(t) = p /\ ~At(t, "cancel")})
                                    + Cardinality({t \in Threads : thread[t].victim = p})
  /\ \A t \in Threads : {Mine(t), thread[t].victim} \ {NoPage} \subseteq Live

\* The store has as many preparations of a chunk as there are pages that have
\* not read it yet: none is read twice, forgotten or cancelled twice, however
\* readers share pages and whoever cancels last (EnterSettingData and
\* CancelPreparedReadPage against VolumeDataStore's reference count).
PreparationsExact ==
  \A c \in Chunks :
    prepared[c] = Cardinality({p \in Live :
                     /\ page[p].chunk = c /\ page[p].requestPrepared
                     /\ ~\E t \in Threads : At(t, "publish") /\ Mine(t) = p})

\* m_pages and m_pages_lru hold the same pages, one for each chunk.
OnePagePerChunk ==
  /\ \A c \in Chunks : pages[c] # NoPage => pages[c] \in OnList
  /\ \A p \in OnList : p \in Live /\ pages[page[p].chunk] = p
  /\ Len(lru) = PagesListed

\* Nothing written is lost: the last version of a chunk is in the store or in a
\* dirty page of the cache, through every eviction, commit and reload.
LastWriteKept ==
  \A c \in Chunks :
    \/ stored[c][c] = latest[c]
    \/ \E p \in OnList : /\ page[p].chunk = c /\ page[p].dirty
                         /\ page[p].data # NoData /\ page[p].data[c] = latest[c]

\* Whoever reads a page has the last version of its chunk.
ReadsSeeWrites ==
  \A p \in OnList : page[p].data # NoData => page[p].data[page[p].chunk] = latest[page[p].chunk]

\* A page that was on the list when a neighbour was written back has the
\* neighbour's samples in its margin, even if it was still being read then; and
\* CopyMargin is never called for a page without a buffer, as its assertion says
\* (VolumeDataPageImpl.cpp:301).
MarginsArrive ==
  /\ ~fault
  /\ \A p \in OnList : page[p].data # NoData =>
       \A c \in Chunks : page[p].data[c] >= page[p].seen[c]

\* When a commit ends the store has every write, and no page is dirty.
CommitSaves ==
  [][committing /\ ~committing' =>
       /\ \A p \in OnList : ~page'[p].dirty
       /\ \A c \in Chunks : stored'[c][c] = latest[c]]_vars

\* Every call returns.
CallsReturn ==
  \A t \in Threads : ~At(t, "idle") ~> thread[t].pc \in {"idle", "holding"}

\* The same where several read a page, but for one case: a reader falls asleep in
\* its call and sleeps on although the page has been read, because others pass by,
\* who raise and lower m_settingData without notifying it.  Nothing else, neither
\* errors nor cancellations nor evictions by others, keeps a thread in its call.
PassedBy(t) ==
  /\ t \in asleep /\ ~On(t).requestPrepared
  /\ \E r \in Threads \ {t} : Mine(r) = Mine(t) /\ thread[r].pc \in {"leave", "fetch"}
OthersReturn ==
  \A t \in Threads :
    ~At(t, "idle") /\ t \notin asleep ~> (thread[t].pc \in {"idle", "holding"} \/ PassedBy(t))
=============================================================================
