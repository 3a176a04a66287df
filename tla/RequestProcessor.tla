-------------------------- MODULE RequestProcessor --------------------------
(***************************************************************************)
(* VolumeDataRequestProcessor: requests become jobs, a job prepares its    *)
(* pages in the thread of the caller and hands one task for each page (or  *)
(* one for all, for 1-bit data) to a ThreadPool.  The last page that is    *)
(* processed marks the job as done; IsCompleted, IsCanceled or             *)
(* WaitForCompletion then take it out of m_jobs.  CleanupThread empties    *)
(* page accessors nobody uses, and the destructor waits for all jobs.      *)
(*                                                                         *)
(* There are two page accessors.  Chunks of "source" are in the store.     *)
(* Chunks of "target" belong to a layer that is remapped: preparing a page *)
(* of it starts a job for the source chunks it is made of, from inside     *)
(* PrepareReadPage, and reading it waits for that job in a thread of the   *)
(* pool.  The pages themselves are the subject of module PageAccessor: here*)
(* a page is its count of pins and, for target pages, what is in it.       *)
(*                                                                         *)
(* m_mutex is "mutex" and m_pagesMutex of an accessor "pagesMutex"; a call *)
(* that takes and drops one in a step only needs it free.  Jobs are named  *)
(* by their number.  A job that was taken out of m_jobs is freed memory:   *)
(* its place in "job" stays, its contents do not.  A job has one owner,    *)
(* who does not call from two threads at a time, as VolumeDataRequest      *)
(* demands.                                                                *)
(***************************************************************************)
EXTENDS Integers, FiniteSets, UniqueLists

CONSTANTS Clients,         \* threads that make requests
          Workers,         \* threads of the pool
          SourceChunks, TargetChunks,
          RemapSources,    \* [TargetChunks -> Seq(SourceChunks)]
          Requests,        \* [Clients -> SUBSET Request]: what a client may ask for
          MaxJobs,         \* bound: jobs in a behaviour
          ReadsMayFail,
          PrepareMayFail,  \* PrepareReadPage may return no page
          ClientsCancel,
          MayClose,        \* the owner may destroy the request processor
          NoThread, NoChunk, NoFrame

Accessors == {"source", "target"}
Chunks    == SourceChunks \cup TargetChunks
Threads   == Clients \cup Workers
Jobs      == 1 .. MaxJobs
\* "single" is 1-bit data; "fails": the processor may return an error.
Request   == [chunks : Seq(Chunks), single : BOOLEAN, fails : BOOLEAN]

\* A call of AddJob from inside another, which waits with its request and pages.
Frame     == [request : Request, pages : Seq(Chunks)]

AccessorOf(c) == IF c \in TargetChunks THEN "target" ELSE "source"

ASSUME RequestProcessorAssumption ==
  /\ IsFiniteSet(Threads) /\ IsFiniteSet(Chunks)
  /\ Clients \cap Workers = {} /\ Workers # {}
  /\ SourceChunks \cap TargetChunks = {}
  /\ RemapSources \in [TargetChunks -> Seq(SourceChunks) \ {<<>>}]
  /\ MaxJobs \in Nat
  /\ \A client \in Clients : \A r \in Requests[client] :
       /\ r \in Request /\ r.chunks # <<>>
       /\ \A i, k \in DOMAIN r.chunks : AccessorOf(r.chunks[i]) = AccessorOf(r.chunks[k])
       /\ r.single => \A i \in DOMAIN r.chunks : r.chunks[i] \in SourceChunks
  /\ {ReadsMayFail, PrepareMayFail, ClientsCancel, MayClose} \subseteq BOOLEAN
  /\ NoThread \notin Threads /\ NoChunk \notin Chunks /\ NoFrame \notin Frame

VARIABLES mutex,      \* m_mutex
          pagesMutex, \* [Accessors -> thread]: m_pagesMutex
          references, \* [Accessors -> Nat]: m_references
          keepsPages, \* [Accessors -> BOOLEAN]: is m_maxPages above 0?
          pins,       \* [Chunks -> Nat]: the pins of a page
          content,    \* [TargetChunks -> ...]: the state of a page
          remapJob,   \* [TargetChunks -> job]: m_jobID of a page
          job,        \* every job there ever was
          listed,     \* m_jobs
          queue,      \* the tasks of the ThreadPool
          asleep,     \* threads in a wait on jobNotification
          thread,     \* each thread's position and local variables
          owned,      \* [Clients -> SUBSET Jobs]: requests not yet taken out
          closer,     \* the destructor: its place in m_jobs, and the last one
          result,     \* history: what a job's owner was told, job by job
          cancelledBy \* history: the jobs that somebody asked to cancel

accessorVars == <<pagesMutex, references, keepsPages>>
pageVars     == <<pins, content, remapJob>>
jobVars      == <<job, listed, queue>>
history      == <<result, cancelledBy>>
vars == <<mutex, accessorVars, pageVars, jobVars, asleep, thread, owned, closer, history>>

\* The processor of a remap job writes to the page "target".  "given" is
\* history: the pages that were read and given to the processor.
JobRecord ==
  [accessor : Accessors, single : BOOLEAN, fails : BOOLEAN, pages : Seq(Chunks \cup {NoChunk}),
   target : TargetChunks \cup {NoChunk},
   future : Seq({"none", "ok", "error"}), processed : Nat, done : BOOLEAN,
   cancelled : BOOLEAN, error : BOOLEAN, given : Nat]

Contents == {"none", "prepared", "reading", "read", "failed"}
Results  == {"none", "completed", "completed in part", "canceled", "canceled with error"}

ClientPositions == {"idle", "lock", "size", "prepare", "enqueue", "wait"}
WorkerPositions ==
  {"idle", "page", "remapWait", "await", "cancelRemap", "cancelWait",
   "process", "unpin", "last", "after", "future"}
Task == [job : Jobs, page : Nat]

ThreadRecord ==
  [pc : ClientPositions \cup WorkerPositions,
   request : Request, pages : Seq(Chunks), refused : BOOLEAN,
   outer : Frame \cup {NoFrame},
   waitsFor : Jobs \cup {0},
   job : Jobs \cup {0}, page : Nat, failed : BOOLEAN]

TypeOK ==
  /\ mutex \in Threads \cup {NoThread}
  /\ pagesMutex \in [Accessors -> Threads \cup {NoThread}]
  /\ references \in [Accessors -> Nat]
  /\ keepsPages \in [Accessors -> BOOLEAN]
  /\ pins \in [Chunks -> Nat]
  /\ content \in [TargetChunks -> Contents]
  /\ remapJob \in [TargetChunks -> Jobs \cup {0}]
  /\ job \in Seq(JobRecord) /\ Len(job) <= MaxJobs
  /\ listed \in Seq(Jobs)
  /\ queue \in Seq(Task)
  /\ asleep \subseteq Threads
  /\ thread \in [Threads -> ThreadRecord]
  /\ owned \in [Clients -> SUBSET Jobs]
  /\ closer \in Nat \X Nat
  /\ result \in [Jobs -> Results]
  /\ cancelledBy \subseteq Jobs

NoRequest == [chunks |-> <<>>, single |-> FALSE, fails |-> FALSE]

Init ==
  /\ mutex = NoThread
  /\ pagesMutex = [x \in Accessors |-> NoThread]
  /\ references = [x \in Accessors |-> 0]
  /\ keepsPages = [x \in Accessors |-> FALSE]
  /\ pins = [c \in Chunks |-> 0]
  /\ content = [c \in TargetChunks |-> "none"]
  /\ remapJob = [c \in TargetChunks |-> 0]
  /\ job = <<>> /\ listed = <<>> /\ queue = <<>>
  /\ asleep = {}
  /\ thread = [t \in Threads |->
                 [pc |-> "idle", request |-> NoRequest, pages |-> <<>>, refused |-> FALSE,
                  outer |-> NoFrame, waitsFor |-> 0, job |-> 0, page |-> 0, failed |-> FALSE]]
  /\ owned = [t \in Clients |-> {}]
  /\ closer = <<0, 0>>
  /\ result = [j \in Jobs |-> "none"]
  /\ cancelledBy = {}

-----------------------------------------------------------------------------
(* Helpers.                                                                *)

MutexFree         == mutex = NoThread
PagesMutexFree(x) == pagesMutex[x] = NoThread
At(t, l)          == thread[t].pc = l
GoTo(t, l)        == thread' = [thread EXCEPT ![t].pc = l]
Listed            == ToSet(listed)
Closing           == closer # <<0, 0>>
Closed            == closer[1] > closer[2]
JobOf(t)          == job[thread[t].job]
\* The page a worker is at.
PageOf(t)         == JobOf(t).pages[thread[t].page]
\* The accessor a client prepares pages of.
AccessorFor(t)    == AccessorOf(Head(thread[t].request.chunks))

\* m_jobs.erase deletes a job.
EraseJob(j) == listed' = Erase(listed, j)
Deleted(jobs, j) ==
  LET r == jobs[j] IN
  [jobs EXCEPT ![j] = [r EXCEPT !.pages = [i \in DOMAIN r.pages |-> NoChunk], !.future = <<>>,
                                !.processed = 0, !.error = FALSE, !.given = 0]]

\* jobNotification.notify_all.
NotifyAll == asleep' = {}

-----------------------------------------------------------------------------
(* AddJob.                                                                 *)

\* The bound on jobs counts those that calls in progress may still add.
JobsFor(r) == 1 + Cardinality({i \in DOMAIN r.chunks : r.chunks[i] \in TargetChunks})
JobsToAdd(t) ==
  CASE t \in Workers \/ thread[t].pc \in {"idle", "wait"} -> 0
    [] thread[t].pc \notin {"idle", "wait"} /\ thread[t].outer = NoFrame -> JobsFor(thread[t].request)
    [] OTHER -> 1 + JobsFor(thread[t].outer.request)

\* A client asks for volume data.
RequestData(t, r) ==
  /\ At(t, "idle") /\ ~Closing
  /\ Len(job) + MapThenSumSet(JobsToAdd, Clients) + JobsFor(r) <= MaxJobs
  /\ thread' = [thread EXCEPT ![t].pc = "lock", ![t].request = r]
  /\ UNCHANGED <<mutex, accessorVars, pageVars, jobVars, asleep, owned, closer, history>>

FindAccessor(t) ==
  /\ At(t, "lock") /\ MutexFree
  /\ mutex' = t
  /\ GoTo(t, "size")
  /\ UNCHANGED <<accessorVars, pageVars, jobVars, asleep, owned, closer, history>>

\* GetMaxPages and SetMaxPages of the accessor take its mutex, with m_mutex held,
\* which is then released, as preparing pages may come back here.
ReleaseToPrepare == mutex' = NoThread

EnsureMaxPages(t) ==
  LET x == AccessorFor(t) IN
  /\ At(t, "size") /\ PagesMutexFree(x)
  /\ keepsPages' = [keepsPages EXCEPT ![x] = TRUE]
  /\ references' = [references EXCEPT ![x] = @ + 1]
  /\ ReleaseToPrepare
  /\ GoTo(t, "prepare")
  /\ UNCHANGED <<pagesMutex, pageVars, jobVars, asleep, owned, closer, history>>

\* The page of the next chunk is found or created; it is pinned.
HasPage(t, c) ==
  thread' = [thread EXCEPT ![t].pages = Append(@, c),
               ![t].pc = IF Len(thread[t].pages) + 1 = Len(thread[t].request.chunks)
                         THEN "enqueue" ELSE "prepare"]

PrepareReadPage(t) ==
  LET c == thread[t].request.chunks[Len(thread[t].pages) + 1] IN
  /\ At(t, "prepare") /\ PagesMutexFree(AccessorOf(c))
  /\ c \in TargetChunks => content[c] # "none"
  /\ pins' = [pins EXCEPT ![c] = @ + 1]
  /\ HasPage(t, c)
  /\ UNCHANGED <<mutex, accessorVars, content, remapJob, jobVars, asleep, owned, closer, history>>

\* The layer is not available: no page, and no further one is tried.
PrepareRefused(t) ==
  LET c == thread[t].request.chunks[Len(thread[t].pages) + 1] IN
  /\ At(t, "prepare") /\ PrepareMayFail /\ c \in SourceChunks /\ PagesMutexFree("source")
  /\ thread' = [thread EXCEPT ![t].refused = TRUE, ![t].pc = "enqueue"]
  /\ UNCHANGED <<mutex, accessorVars, pageVars, jobVars, asleep, owned, closer, history>>

\* A new page of a remapped layer: AddRemapJob adds a job for its source chunks,
\* with m_pagesMutex held.
AddRemapJob(t) ==
  LET c == thread[t].request.chunks[Len(thread[t].pages) + 1] IN
  /\ At(t, "prepare") /\ c \in TargetChunks /\ content[c] = "none"
  /\ PagesMutexFree("target")
  /\ pagesMutex' = [pagesMutex EXCEPT !["target"] = t]
  /\ pins' = [pins EXCEPT ![c] = @ + 1]
  /\ content' = [content EXCEPT ![c] = "prepared"]
  /\ thread' = [thread EXCEPT ![t].pc = "lock",
                  ![t].outer = [request |-> thread[t].request, pages |-> thread[t].pages],
                  ![t].request = [NoRequest EXCEPT !.chunks = RemapSources[c]],
                  ![t].pages = <<>>]
  /\ UNCHANGED <<mutex, references, keepsPages, remapJob, jobVars, asleep, owned, closer, history>>

\* The page whose preparation led to this call, if any.
RemapTarget(t) ==
  LET o == thread[t].outer IN
  IF o = NoFrame THEN NoChunk ELSE o.request.chunks[Len(o.pages) + 1]

NewJob(t, pages, cancelled) ==
  [accessor |-> AccessorFor(t), single |-> thread[t].request.single,
   fails |-> thread[t].request.fails, pages |-> pages,
   target |-> RemapTarget(t),
   future |-> CASE cancelled -> <<>>
                [] ~cancelled /\ thread[t].request.single -> <<"none">>
                [] OTHER -> [i \in DOMAIN pages |-> "none"],
   processed |-> IF cancelled THEN Len(pages) ELSE 0,
   done |-> cancelled, cancelled |-> cancelled, error |-> cancelled, given |-> 0]

Tasks(j, n, single) ==
  IF single THEN <<[job |-> j, page |-> 0]>> ELSE [i \in 1 .. n |-> [job |-> j, page |-> i]]

\* ThreadPool: first in, first out.
Enqueue_First(tasks) == tasks \o queue
Enqueue(tasks) == queue \o tasks

\* AddJob returns the number of the job to the client, or to PrepareReadPage.
JobAdded(t, j) ==
  IF thread[t].outer = NoFrame
  THEN /\ owned' = [owned EXCEPT ![t] = @ \cup {j}]
       /\ thread' = [thread EXCEPT ![t].pc = "idle", ![t].request = NoRequest,
                                   ![t].pages = <<>>, ![t].refused = FALSE]
       /\ UNCHANGED <<pagesMutex, remapJob>>
  ELSE LET o == thread[t].outer
           c == RemapTarget(t) IN
       /\ remapJob' = [remapJob EXCEPT ![c] = j]
       /\ pagesMutex' = [pagesMutex EXCEPT !["target"] = NoThread]
       /\ thread' = [thread EXCEPT ![t].request = o.request, ![t].pages = Append(o.pages, c),
                       ![t].pc = IF Len(o.pages) + 1 = Len(o.request.chunks)
                                 THEN "enqueue" ELSE "prepare",
                       ![t].outer = NoFrame, ![t].refused = FALSE]
       /\ UNCHANGED owned

\* With every page prepared the job is listed and its tasks are enqueued.  If a
\* page was refused the others are given back and the job is done; the reference
\* to the accessor is kept.
AddJob(t) ==
  LET j     == Len(job) + 1
      pages == thread[t].pages IN
  /\ At(t, "enqueue") /\ MutexFree /\ j \in Jobs
  /\ listed' = Append(listed, j)
  /\ IF thread[t].refused
     THEN /\ PagesMutexFree(AccessorFor(t))
          /\ job' = Append(job, NewJob(t, [i \in 1 .. Len(pages) + 1 |-> NoChunk], TRUE))
          /\ pins' = [c \in Chunks |-> pins[c] - Cardinality({i \in DOMAIN pages : pages[i] = c})]
          /\ UNCHANGED queue
     ELSE /\ job' = Append(job, NewJob(t, pages, FALSE))
          /\ queue' = Enqueue(Tasks(j, Len(pages), thread[t].request.single))
          /\ UNCHANGED pins
  /\ JobAdded(t, j)
  /\ UNCHANGED <<mutex, references, keepsPages, content, asleep, closer, history>>

-----------------------------------------------------------------------------
(* Taking a job out of the system.                                         *)

\* SetErrorForJob asks the futures, in order, for the first error.
FuturesReady(j) ==
  LET f == job[j].future IN
  \/ \A i \in DOMAIN f : f[i] # "none"
  \/ \E i \in DOMAIN f : f[i] = "error" /\ \A k \in 1 .. i : f[k] # "none"
HasError(j) == job[j].error \/ \E i \in DOMAIN job[j].future : job[j].future[i] = "error"

IsDone(j) == job[j].done
MayComplete_Cancelled(j) == IsDone(j)
MayComplete(j) == IsDone(j) /\ ~job[j].cancelled

\* IsCompleted, and WaitForCompletion for a job that is done, return true.
TakeCompleted(j) ==
  /\ MayComplete(j)
  /\ EraseJob(j)
  /\ result' = [result EXCEPT ![j] = IF job[j].given = Len(job[j].pages)
                                     THEN "completed" ELSE "completed in part"]

\* IsCanceled returns true.
TakeCanceled(j) ==
  /\ IsDone(j) /\ job[j].cancelled /\ FuturesReady(j)
  /\ EraseJob(j)
  /\ result' = [result EXCEPT ![j] = IF HasError(j) THEN "canceled with error" ELSE "canceled"]

IsCompleted(t, j) ==
  /\ At(t, "idle") /\ j \in owned[t] /\ ~Closing /\ MutexFree
  /\ TakeCompleted(j)
  /\ owned' = [owned EXCEPT ![t] = @ \ {j}]
  /\ job' = Deleted(job, j)
  /\ UNCHANGED <<mutex, accessorVars, pageVars, queue, asleep, thread, closer, cancelledBy>>

IsCanceled(t, j) ==
  /\ At(t, "idle") /\ j \in owned[t] /\ ~Closing /\ MutexFree
  /\ TakeCanceled(j)
  /\ owned' = [owned EXCEPT ![t] = @ \ {j}]
  /\ job' = Deleted(job, j)
  /\ UNCHANGED <<mutex, accessorVars, pageVars, queue, asleep, thread, closer, cancelledBy>>

Cancel(t, j) ==
  /\ At(t, "idle") /\ j \in owned[t] \ cancelledBy /\ ~Closing /\ MutexFree /\ ClientsCancel
  /\ job' = [job EXCEPT ![j].cancelled = TRUE]
  /\ cancelledBy' = cancelledBy \cup {j}
  /\ NotifyAll
  /\ UNCHANGED <<mutex, accessorVars, pageVars, listed, queue, thread, owned, closer, result>>

WaitForCompletion(t, j) ==
  /\ At(t, "idle") /\ j \in owned[t] /\ ~Closing
  /\ thread' = [thread EXCEPT ![t].pc = "wait", ![t].waitsFor = j]
  /\ UNCHANGED <<mutex, accessorVars, pageVars, jobVars, asleep, owned, closer, history>>

\* The job is not done: sleep until jobNotification.
Sleep(t) ==
  /\ thread[t].pc \in {"wait", "remapWait", "cancelWait"}
  /\ MutexFree /\ t \notin asleep /\ ~IsDone(thread[t].waitsFor)
  /\ asleep' = asleep \cup {t}
  /\ UNCHANGED <<mutex, accessorVars, pageVars, jobVars, thread, owned, closer, history>>

\* WaitForCompletion returns: false for a job that was cancelled, which stays.
WaitReturns(t) ==
  LET j == thread[t].waitsFor IN
  /\ At(t, "wait") /\ MutexFree /\ t \notin asleep /\ IsDone(j)
  /\ thread' = [thread EXCEPT ![t].pc = "idle", ![t].waitsFor = 0]
  /\ \/ TakeCompleted(j) /\ job' = Deleted(job, j) /\ owned' = [owned EXCEPT ![t] = @ \ {j}]
     \/ ~MayComplete(j) /\ UNCHANGED <<job, listed, result, owned>>
  /\ UNCHANGED <<mutex, accessorVars, pageVars, queue, asleep, closer, cancelledBy>>

-----------------------------------------------------------------------------
(* A task: ProcessPageInJob for one page, or for one page after another.   *)

TakeTask(w) ==
  LET task == Head(queue) IN
  /\ At(w, "idle") /\ queue # <<>>
  /\ queue' = Tail(queue)
  /\ thread' = [thread EXCEPT ![w].pc = "page", ![w].job = task.job,
                  ![w].page = IF task.page = 0 THEN 1 ELSE task.page]
  /\ UNCHANGED <<mutex, accessorVars, pageVars, job, listed, asleep, owned, closer, history>>

\* The page has an error, from its preparation or an earlier reader.
FindError(w) ==
  LET c == PageOf(w) IN
  /\ At(w, "page") /\ PagesMutexFree(AccessorOf(c)) /\ ~thread[w].failed
  /\ IF c \in TargetChunks THEN content[c] = "failed" ELSE ReadsMayFail
  /\ job' = [job EXCEPT ![thread[w].job].cancelled = TRUE]
  /\ thread' = [thread EXCEPT ![w].failed = TRUE]
  /\ UNCHANGED <<mutex, accessorVars, pageVars, listed, queue, asleep, owned, closer, history>>

\* The page of a cancelled job is given back.  MarkJobAsDoneOnExit must not do
\* it again.
ForgetPage_Kept(j, i) == UNCHANGED job
ForgetPage(j, i) == job' = [job EXCEPT ![j].pages[i] = NoChunk]

\* CancelPreparedReadPage: the last one to hold a page takes it out of the cache
\* and, if it was not read, cancels its remap job.
CancelPage(w) ==
  LET c == PageOf(w)
      last == pins[c] = 1 /\ c \in TargetChunks IN
  /\ At(w, "page") /\ JobOf(w).cancelled /\ PagesMutexFree(AccessorOf(c))
  /\ pins' = [pins EXCEPT ![c] = @ - 1]
  /\ ForgetPage(thread[w].job, thread[w].page)
  /\ IF last /\ content[c] = "prepared"
     THEN thread' = [thread EXCEPT ![w].pc = "cancelRemap", ![w].waitsFor = remapJob[c]]
     ELSE GoTo(w, "unpin")
  /\ content' = [x \in TargetChunks |-> IF last /\ x = c THEN "none" ELSE content[x]]
  /\ UNCHANGED <<mutex, accessorVars, remapJob, listed, queue, asleep, owned, closer, history>>

\* CancelAndWaitForCompletion of the remap job, which nobody else knows.
CancelRemap_NoWait(w) ==
  /\ At(w, "cancelRemap") /\ MutexFree
  /\ job' = [job EXCEPT ![thread[w].waitsFor].cancelled = TRUE]
  /\ cancelledBy' = cancelledBy \cup {thread[w].waitsFor}
  /\ thread' = [thread EXCEPT ![w].pc = "unpin", ![w].waitsFor = 0]
  /\ NotifyAll
  /\ UNCHANGED <<mutex, accessorVars, pageVars, listed, queue, owned, closer, result>>
CancelRemap(w) ==
  /\ At(w, "cancelRemap") /\ MutexFree
  /\ job' = [job EXCEPT ![thread[w].waitsFor].cancelled = TRUE]
  /\ cancelledBy' = cancelledBy \cup {thread[w].waitsFor}
  /\ GoTo(w, "cancelWait")
  /\ NotifyAll
  /\ UNCHANGED <<mutex, accessorVars, pageVars, listed, queue, owned, closer, result>>

RemapCanceled(w) ==
  /\ At(w, "cancelWait") /\ MutexFree /\ w \notin asleep
  /\ TakeCanceled(thread[w].waitsFor)
  /\ job' = Deleted(job, thread[w].waitsFor)
  /\ thread' = [thread EXCEPT ![w].pc = "unpin", ![w].waitsFor = 0]
  /\ UNCHANGED <<mutex, accessorVars, pageVars, queue, asleep, owned, closer, cancelledBy>>

\* The page could not be read: the job is cancelled and the task has an error.
FailTo(w, jobs, failed) ==
  /\ job' = [jobs EXCEPT ![thread[w].job].cancelled = TRUE]
  /\ thread' = [thread EXCEPT ![w].pc = "unpin", ![w].waitsFor = 0, ![w].failed = failed]

\* ReadPreparedPage.  A source page is read from the store, or not.  One reader of
\* a target page waits for its remap job, the others wait for that reader.
StartPage(w) ==
  LET c == PageOf(w) IN
  /\ At(w, "page") /\ ~JobOf(w).cancelled /\ ~thread[w].failed
  /\ \/ c \in SourceChunks /\ GoTo(w, "process") /\ UNCHANGED <<content, job>>
     \/ c \in SourceChunks /\ ReadsMayFail /\ FailTo(w, job, TRUE) /\ UNCHANGED content
     \/ /\ c \in TargetChunks /\ content[c] = "prepared"
        /\ content' = [content EXCEPT ![c] = "reading"]
        /\ thread' = [thread EXCEPT ![w].pc = "remapWait", ![w].waitsFor = remapJob[c]]
        /\ UNCHANGED job
     \/ /\ c \in TargetChunks /\ content[c] \in {"reading", "read"}
        /\ GoTo(w, "await") /\ UNCHANGED <<content, job>>
  /\ UNCHANGED <<mutex, accessorVars, pins, remapJob, listed, queue, asleep, owned, closer, history>>

AwaitReader(w) ==
  /\ At(w, "await") /\ PagesMutexFree("target") /\ content[PageOf(w)] # "reading"
  /\ \/ content[PageOf(w)] = "read" /\ GoTo(w, "process") /\ UNCHANGED job
     \/ content[PageOf(w)] # "read" /\ FailTo(w, job, TRUE)
  /\ UNCHANGED <<mutex, accessorVars, pageVars, listed, queue, asleep, owned, closer, history>>

RemapReturns(w) ==
  LET c == PageOf(w)  j == thread[w].waitsFor IN
  /\ At(w, "remapWait") /\ MutexFree /\ w \notin asleep /\ IsDone(j) /\ PagesMutexFree("target")
  /\ \/ /\ TakeCompleted(j)
        /\ content' = [content EXCEPT ![c] = "read"]
        /\ job' = Deleted(job, j)
        /\ thread' = [thread EXCEPT ![w].pc = "process", ![w].waitsFor = 0]
     \/ /\ ~MayComplete(j) /\ TakeCanceled(j)
        /\ content' = [content EXCEPT ![c] = "failed"]
        /\ FailTo(w, Deleted(job, j), HasError(j))
  /\ UNCHANGED <<mutex, accessorVars, pins, remapJob, queue, asleep, owned, closer, cancelledBy>>

\* The processor copies from the page.  Its error goes to the future, but does
\* not cancel the job.
ProcessPage(w) ==
  /\ At(w, "process")
  /\ job' = [job EXCEPT ![thread[w].job].given = @ + 1]
  /\ \/ GoTo(w, "unpin")
     \/ JobOf(w).fails /\ thread' = [thread EXCEPT ![w].pc = "unpin", ![w].failed = TRUE]
  /\ UNCHANGED <<mutex, accessorVars, pageVars, listed, queue, asleep, owned, closer, history>>

\* MarkJobAsDoneOnExit.
IsLastPage_OffByOne(j) == job[j].processed + 2 >= Len(job[j].pages)
IsLastPage_Never(j) == job[j].processed + 1 > Len(job[j].pages)
IsLastPage(j) == job[j].processed + 1 = Len(job[j].pages)

UnPinPage(w) ==
  LET c == PageOf(w) IN
  /\ At(w, "unpin")
  /\ pins' = [x \in Chunks |-> IF x = c THEN pins[x] - 1 ELSE pins[x]]
  /\ job' = [job EXCEPT ![thread[w].job].processed = @ + 1]
  /\ GoTo(w, IF IsLastPage(thread[w].job) THEN "last" ELSE "after")
  /\ UNCHANGED <<mutex, accessorVars, content, remapJob, listed, queue, asleep, owned, closer, history>>

MarkJobAsDone(w) ==
  /\ At(w, "last") /\ MutexFree
  /\ references' = [references EXCEPT ![JobOf(w).accessor] = @ - 1]
  /\ job' = [job EXCEPT ![thread[w].job].done = TRUE]
  /\ NotifyAll
  /\ GoTo(w, "after")
  /\ UNCHANGED <<mutex, pagesMutex, keepsPages, pageVars, listed, queue, owned, closer, history>>

\* The one task of a 1-bit request goes on with the next page.
NextPage(w) ==
  LET more == thread[w].page < Len(JobOf(w).pages) IN
  /\ At(w, "after") /\ JobOf(w).single /\ ~thread[w].failed
  /\ thread' = [thread EXCEPT ![w].pc = IF more THEN "page" ELSE "future",
                              ![w].page = IF more THEN @ + 1 ELSE 1]
  /\ UNCHANGED <<mutex, accessorVars, pageVars, jobVars, asleep, owned, closer, history>>

\* After an error it cancels the pages that are left, but does not count them.
AbandonPages(w) ==
  LET pages == JobOf(w).pages
      left  == {i \in DOMAIN pages : i > thread[w].page} IN
  /\ At(w, "after") /\ JobOf(w).single /\ thread[w].failed /\ PagesMutexFree("source")
  /\ pins' = [c \in Chunks |-> pins[c] - Cardinality({i \in left : pages[i] = c})]
  /\ job' = [job EXCEPT ![thread[w].job].cancelled = TRUE,
                        ![thread[w].job].pages = [i \in DOMAIN @ |-> IF i \in left THEN NoChunk ELSE @[i]]]
  /\ thread' = [thread EXCEPT ![w].pc = "future", ![w].page = 1]
  /\ UNCHANGED <<mutex, accessorVars, content, remapJob, listed, queue, asleep, owned, closer, history>>

\* The task returns its error to the future.
FinishTask(w) ==
  /\ \/ At(w, "future")
     \/ At(w, "after") /\ ~JobOf(w).single
  /\ job' = IF thread[w].job \notin Listed THEN job
            ELSE [job EXCEPT ![thread[w].job].future[thread[w].page] =
                                IF thread[w].failed THEN "error" ELSE "ok"]
  /\ thread' = [thread EXCEPT ![w].pc = "idle", ![w].job = 0, ![w].page = 0, ![w].failed = FALSE]
  /\ UNCHANGED <<mutex, accessorVars, pageVars, listed, queue, asleep, owned, closer, history>>
-----------------------------------------------------------------------------
(* CleanupThread and the destructor.                                       *)

\* A page accessor that nobody uses, and has not for a while, is emptied.
MayCleanUp_Used(x) == TRUE
MayCleanUp(x) == references[x] = 0

CleanUp(x) ==
  /\ MutexFree /\ PagesMutexFree(x) /\ ~Closing
  /\ MayCleanUp(x) /\ keepsPages[x]
  /\ keepsPages' = [keepsPages EXCEPT ![x] = FALSE]
  /\ content' = [c \in TargetChunks |-> IF x = "target" /\ pins[c] = 0 THEN "none" ELSE content[c]]
  /\ UNCHANGED <<mutex, pagesMutex, references, pins, remapJob, jobVars, asleep, thread, owned, closer, history>>

\* The destructor cancels all jobs, then goes through m_jobs, from first to
\* last as they were when it began, and waits for each.
Close ==
  /\ MayClose /\ ~Closing /\ MutexFree /\ \A t \in Clients : At(t, "idle")
  /\ job' = [j \in DOMAIN job |-> IF j \in Listed THEN [job[j] EXCEPT !.cancelled = TRUE] ELSE job[j]]
  /\ cancelledBy' = cancelledBy \cup Listed
  /\ closer' = <<1, Len(listed)>>
  /\ UNCHANGED <<mutex, accessorVars, pageVars, listed, queue, asleep, thread, owned, result>>

MayPassJob_Cancelled(at) == job[listed[at]].cancelled
MayPassJob(at) == IsDone(listed[at])

CloseNext ==
  /\ Closing /\ ~Closed /\ MutexFree
  /\ closer[1] <= Len(listed) /\ MayPassJob(closer[1])
  /\ closer' = [closer EXCEPT ![1] = @ + 1]
  /\ UNCHANGED <<mutex, accessorVars, pageVars, jobVars, asleep, thread, owned, history>>

-----------------------------------------------------------------------------
\* The steps of AddJob, and those of a task.
Adding(t) ==
  \/ FindAccessor(t) \/ EnsureMaxPages(t) \/ PrepareReadPage(t) \/ PrepareRefused(t)
  \/ AddRemapJob(t) \/ AddJob(t)

Waiting(t) == Sleep(t) \/ WaitReturns(t)

Working(w) ==
  \/ TakeTask(w) \/ FindError(w) \/ CancelPage(w) \/ CancelRemap(w) \/ RemapCanceled(w)
  \/ StartPage(w) \/ AwaitReader(w) \/ RemapReturns(w) \/ ProcessPage(w)
  \/ UnPinPage(w) \/ MarkJobAsDone(w) \/ NextPage(w) \/ AbandonPages(w) \/ FinishTask(w)
  \/ Sleep(w)

Next ==
  \/ \E t \in Clients :
       \/ \E r \in Requests[t] : RequestData(t, r)
       \/ \E j \in owned[t] : IsCompleted(t, j) \/ IsCanceled(t, j) \/ Cancel(t, j)
                              \/ WaitForCompletion(t, j)
       \/ Adding(t) \/ Waiting(t)
  \/ \E w \in Workers : Working(w)
  \/ \E x \in Accessors : CleanUp(x)
  \/ Close \/ CloseNext

Spec == Init /\ [][Next]_vars
\* Threads that may run do.
FairSpec ==
  /\ Spec
  /\ \A t \in Clients : WF_vars(Adding(t) \/ Waiting(t))
  /\ \A w \in Workers : WF_vars(Working(w))
  /\ WF_vars(CloseNext)
-----------------------------------------------------------------------------
(* Properties.                                                             *)

\* A task that has not started, and the positions of a worker that still uses
\* the job.
Queued(j, i) == \E k \in DOMAIN queue : queue[k].job = j /\ queue[k].page \in {0, i}
UsingJob ==
  {"page", "remapWait", "await", "cancelRemap", "cancelWait", "process", "unpin", "last"}
Uses(w, j) ==
  /\ thread[w].job = j
  /\ \/ thread[w].pc \in UsingJob
     \/ At(w, "after") /\ job[j].single /\ (thread[w].failed \/ thread[w].page < Len(job[j].pages))

\* Does a task still have to give back page i of job j?
HasPinned(j, i) ==
  \/ Queued(j, i)
  \/ \E w \in Workers : /\ Uses(w, j)
                        /\ \/ thread[w].page = i /\ thread[w].pc \notin {"last", "after"}
                           \/ job[j].single /\ thread[w].page < i

\* The pages of job j with chunk c that are still to be given back.
PinnedPages(j, c) == {i \in DOMAIN job[j].pages : job[j].pages[i] = c /\ HasPinned(j, i)}

\* The pages a client has prepared for its own request, with the one whose
\* preparation led to a call from inside, and those for that call.
OwnPages(t) ==
  IF thread[t].outer = NoFrame THEN thread[t].pages
  ELSE Append(thread[t].outer.pages, RemapTarget(t))
RemapPages(t) == IF thread[t].outer = NoFrame THEN <<>> ELSE thread[t].pages
PreparedBy(t, c) ==
  ({"own"} \X {i \in DOMAIN OwnPages(t) : OwnPages(t)[i] = c})
  \cup ({"remap"} \X {i \in DOMAIN RemapPages(t) : RemapPages(t)[i] = c})

\* Every page that was prepared is pinned until it is given back, and is given
\* back once, by whichever of cancellation, failure and completion gets to it.
PinsExact ==
  \A c \in Chunks :
    pins[c] = Cardinality(UNION {{j} \X PinnedPages(j, c) : j \in DOMAIN job})
              + Cardinality(UNION {{t} \X PreparedBy(t, c) : t \in Clients})

\* Once a job was taken out of m_jobs its memory is free and its buffer belongs
\* to the caller: no task works on it.
TakenOutIsQuiet ==
  \A j \in DOMAIN job :
    ((\E w \in Workers : Uses(w, j)) \/ (\E k \in DOMAIN queue : queue[k].job = j)) => j \in Listed

\* A request that is reported as completed has had all its pages read and given
\* to its processor.
CompletedMeansRead == \A j \in DOMAIN job : result[j] # "completed in part"

\* The page accessor of a call or a job in progress stays as it is: CleanupThread
\* does not empty it, and the destructor does not end, and delete it, before the
\* last task has let go of it.
AccessorsStay ==
  /\ \A j \in DOMAIN job : ~job[j].done => keepsPages[job[j].accessor]
  /\ \A t \in Clients : thread[t].pc \in {"prepare", "enqueue"} => keepsPages[AccessorFor(t)]
  /\ Closed => queue = <<>> /\ \A w \in Workers : thread[w].pc \notin UsingJob

\* A remap job writes to a page that exists: the page is not deleted before the
\* job is done, not even when it is cancelled.
RemapTargetAlive ==
  \A j \in DOMAIN job :
    job[j].target # NoChunk /\ ~job[j].done =>
      \/ /\ remapJob[job[j].target] = j
         /\ content[job[j].target] \in {"prepared", "reading"}
      \/ \E w \in Workers : thread[w].waitsFor = j

\* Nobody asks for m_mutex with the pages mutex that its holder waits for.
NoCircularWait ==
  \A t, u \in Clients :
    ~(At(t, "lock") /\ mutex = u /\ At(u, "size") /\ pagesMutex[AccessorFor(u)] = t)

\* The destructor ends.
CloseEnds == Closing ~> Closed

\* Every job is done in the end: with jobs bounded, there is always a time to
\* come when all there are are done.
JobsFinish == []<>(\A j \in DOMAIN job : job[j].done)
=============================================================================
