------------------------------ MODULE CopyJobs ------------------------------
(* CopyPage and Flush of the access manager: copies run as tasks of the      *)
(* thread pool of the request processor, their futures wait in copyState,    *)
(* and are drained by Flush, or by CopyPage itself once too many wait.  The  *)
(* store is seen only by how an upload ends; closing the VDS invalidates the *)
(* manager, which joins the pool.                                            *)
EXTENDS Integers, Sequences, FiniteSets

CONSTANTS
  Threads,          \* the threads that copy
  Flushers,         \* those of them that also flush
  MaxCopies,        \* bound: calls of CopyPage that get past the hash test
  MinConcurrent,    \* minConcurrentCopyJobs
  PoolSize,         \* the threads of the pool
  MaxFlushes,       \* bound: calls of Flush
  CloseEarly,       \* the VDS may be closed while futures wait in copyState
  NoOne

ASSUME BoundsNat == {MaxCopies, MaxFlushes} \subseteq Nat
ASSUME SizesPositive == {MinConcurrent, PoolSize} \subseteq Nat \ {0}
ASSUME CloseEarlyType == CloseEarly \in BOOLEAN
ASSUME FlushersCopy == Flushers \subseteq Threads

Copies == 1..MaxCopies
Closer == "closer"
ASSUME NoOneDiffers == NoOne \notin Threads /\ Closer \notin Threads \cup {NoOne}

VARIABLES
  thread,       \* [Threads -> where a thread is in its call]
  mutex,        \* who holds m_mutex of the access manager
  jobs,         \* copyState.jobs
  flushing,     \* copyState.flushingBuffer
  pool,         \* the queue of the thread pool
  task,         \* [Copies -> the state of its task]
  upload,       \* [Copies -> the state of the upload of its chunk]
  uploadErrors, \* m_uploadErrors.errors
  reported,     \* copies with an error that a Flush returned
  swallowed,    \* copies with an error that a CopyPage found and did not return
  references,   \* m_references of the page accessors, source and destination
  started, flushes,   \* how many copies and Flushes there were
  closing       \* "open", "invalidating", "closed"

tasks == <<pool, task, upload>>
vars == <<thread, mutex, jobs, flushing, tasks, uploadErrors, reported, swallowed, references,
          started, flushes, closing>>

Idle == [pc |-> "idle", copy |-> 0, count |-> 0, isFlush |-> FALSE, error |-> 0, before |-> {}]
At(t, pc) == thread[t].pc = pc
Pending == {c \in Copies : upload[c] = "pending"}
InUse == {c \in Copies : task[c] \in {"queued", "running", "writing", "returning"}}
Destroyed == references = 0

Init ==
  /\ thread = [t \in Threads |-> Idle]
  /\ mutex = NoOne
  /\ jobs = <<>>
  /\ flushing = FALSE
  /\ pool = <<>>
  /\ task = [c \in Copies |-> "none"]
  /\ upload = [c \in Copies |-> "none"]
  /\ uploadErrors = <<>>
  /\ reported = {}
  /\ swallowed = {}
  /\ references = 1
  /\ started = 0
  /\ flushes = 0
  /\ closing = "open"

Goto(t, pc) == thread' = [thread EXCEPT ![t].pc = pc]
Return(t) == thread' = [thread EXCEPT ![t] = Idle]

-----------------------------------------------------------------------------
(* CopyPage: AddCopyPageJob.                                                 *)

\* The chunk is prepared for reading without m_mutex; that may fail.
PrepareCopy(t) ==
  /\ At(t, "idle") /\ closing = "open" /\ ~Destroyed
  /\ started < MaxCopies
  /\ started' = started + 1
  /\ \E fails \in BOOLEAN :
       /\ thread' = [thread EXCEPT ![t] = [Idle EXCEPT !.pc = "prepared", !.copy = started + 1]]
       /\ task' = [task EXCEPT ![started + 1] = IF fails THEN "unprepared" ELSE "prepared"]
  /\ UNCHANGED <<mutex, jobs, flushing, pool, upload, uploadErrors, reported, swallowed,
                 references, flushes, closing>>

\* An error of the preparation is kept for Flush.
RefuseCopy(t) ==
  /\ At(t, "prepared") /\ mutex = NoOne
  /\ task[thread[t].copy] = "unprepared"
  /\ uploadErrors' = Append(uploadErrors, thread[t].copy)
  /\ Return(t)
  /\ UNCHANGED <<mutex, jobs, flushing, tasks, reported, swallowed, references, started,
                 flushes, closing>>

LockToEnqueue(t) ==
  /\ At(t, "prepared") /\ mutex = NoOne
  /\ task[thread[t].copy] = "prepared"
  /\ mutex' = t
  /\ Goto(t, "enqueue")
  /\ UNCHANGED <<jobs, flushing, tasks, uploadErrors, reported, swallowed, references, started,
                 flushes, closing>>

\* Mutant: the task does not hold a reference to the page accessors.
TakeReferences_None == references' = references

TakeReferences == references' = references + 1

\* FlushCurrentJobBuffer, up to the destructor of its FlushNotifier: the thread
\* owns the buffer, and lets m_mutex go.
StartDraining(t, count) ==
  /\ flushing' = TRUE
  /\ mutex' = NoOne
  /\ thread' = [thread EXCEPT ![t].pc = "pop", ![t].count = count]

\* The task joins the pool and its future the buffer; with too many futures the
\* thread waits for whoever drains the buffer, or drains some itself.
EnqueueCopy(t) ==
  LET c == thread[t].copy IN
  /\ At(t, "enqueue")
  /\ TakeReferences
  /\ pool' = Append(pool, c)
  /\ task' = [task EXCEPT ![c] = "queued"]
  /\ jobs' = Append(jobs, c)
  /\ IF Len(jobs) + 1 <= 2 * MinConcurrent
     THEN mutex' = NoOne /\ Return(t) /\ UNCHANGED flushing
     ELSE IF flushing
     THEN mutex' = NoOne /\ Goto(t, "waitForFlush") /\ UNCHANGED flushing
     ELSE StartDraining(t, MinConcurrent)
  /\ UNCHANGED <<upload, uploadErrors, reported, swallowed, started, flushes, closing>>

WaitedForFlush(t) ==
  /\ At(t, "waitForFlush")
  /\ ~flushing /\ mutex = NoOne
  /\ Return(t)
  /\ UNCHANGED <<mutex, jobs, flushing, tasks, uploadErrors, reported, swallowed, references,
                 started, flushes, closing>>

-----------------------------------------------------------------------------
(* FlushCurrentJobBuffer, without m_mutex.                                   *)

PopJob(t) ==
  /\ At(t, "pop")
  /\ thread[t].count > 0 /\ jobs # <<>>
  /\ thread' = [thread EXCEPT ![t].pc = "get", ![t].copy = Head(jobs), ![t].count = @ - 1]
  /\ jobs' = Tail(jobs)
  /\ UNCHANGED <<mutex, flushing, tasks, uploadErrors, reported, swallowed, references, started,
                 flushes, closing>>

\* An error ends the drain; the futures behind it stay in the buffer.
GetResult(t) ==
  LET c == thread[t].copy IN
  /\ At(t, "get")
  /\ task[c] \in {"copied", "skipped", "failed"}
  /\ IF task[c] = "failed"
     THEN thread' = [thread EXCEPT ![t].pc = "drained", ![t].error = c]
     ELSE Goto(t, "pop")
  /\ UNCHANGED <<mutex, jobs, flushing, tasks, uploadErrors, reported, swallowed, references,
                 started, flushes, closing>>

DrainEnds(t) ==
  /\ At(t, "pop")
  /\ thread[t].count = 0 \/ jobs = <<>>
  /\ Goto(t, "drained")
  /\ UNCHANGED <<mutex, jobs, flushing, tasks, uploadErrors, reported, swallowed, references,
                 started, flushes, closing>>

\* Mutant: the buffer is not given back.
GiveBack_Never == flushing' = flushing

GiveBack == flushing' = FALSE

Errors(t) == IF thread[t].error = 0 THEN {} ELSE {thread[t].error}

\* ~FlushNotifier, and the return to the caller: AddCopyPageJob has the error in
\* a variable of its own and drops it, Flush returns it.
Drained(t) ==
  /\ At(t, "drained") /\ mutex = NoOne
  /\ GiveBack
  /\ IF thread[t].isFlush
     THEN /\ reported' = reported \cup Errors(t)
          /\ IF Errors(t) # {} THEN Return(t) ELSE Goto(t, "uploads")
          /\ UNCHANGED swallowed
     ELSE /\ swallowed' = swallowed \cup Errors(t)
          /\ Return(t)
          /\ UNCHANGED reported
  /\ UNCHANGED <<mutex, jobs, tasks, uploadErrors, references, started, flushes, closing>>

-----------------------------------------------------------------------------
(* Flush.                                                                    *)

BeginFlush(t) ==
  /\ t \in Flushers
  /\ At(t, "idle") /\ closing = "open"
  /\ flushes < MaxFlushes
  /\ flushes' = flushes + 1
  /\ thread' = [thread EXCEPT ![t] =
       [Idle EXCEPT !.pc = "flush", !.isFlush = TRUE,
                    !.before = {c \in 1..started : ~\E u \in Threads :
                                  thread[u].pc \in {"prepared", "enqueue"} /\ thread[u].copy = c}]]
  /\ UNCHANGED <<mutex, jobs, flushing, tasks, uploadErrors, reported, swallowed, references,
                 started, closing>>

\* Mutant: Flush does not wait for a thread that drains the buffer.
MayDrain_Always == TRUE

MayDrain == ~flushing

\* FlushCopyPageJobs: once nobody drains the buffer, all of it is drained.
FlushCopyPageJobs(t) ==
  /\ At(t, "flush") /\ mutex = NoOne
  /\ MayDrain
  /\ StartDraining(t, Len(jobs))
  /\ UNCHANGED <<jobs, tasks, uploadErrors, reported, swallowed, references, started, flushes,
                 closing>>

\* CompletePendingWriteChunkRequests(0): one error is returned, if there is any.
UploadsComplete(t) ==
  /\ At(t, "uploads")
  /\ Pending = {}
  /\ IF uploadErrors # <<>>
     THEN /\ reported' = reported \cup {Head(uploadErrors)}
          /\ uploadErrors' = Tail(uploadErrors)
     ELSE UNCHANGED <<reported, uploadErrors>>
  /\ Return(t)
  /\ UNCHANGED <<mutex, jobs, flushing, tasks, swallowed, references, started, flushes, closing>>

-----------------------------------------------------------------------------
(* The tasks of the pool, and the callbacks of uploads.                      *)

StartTask ==
  /\ pool # <<>>
  /\ Cardinality({c \in InUse : task[c] # "queued"}) < PoolSize
  /\ task' = [task EXCEPT ![Head(pool)] = "running"]
  /\ pool' = Tail(pool)
  /\ UNCHANGED <<thread, mutex, jobs, flushing, upload, uploadErrors, reported, swallowed,
                 references, started, flushes, closing>>

WriteChunk(c) ==
  /\ task[c] = "running"
  /\ task' = [task EXCEPT ![c] = "writing"]
  /\ upload' = [upload EXCEPT ![c] = "pending"]
  /\ UNCHANGED <<thread, mutex, jobs, flushing, pool, uploadErrors, reported, swallowed,
                 references, started, flushes, closing>>

\* CompletePendingWriteChunkRequests(threadCount).
WriteThrottled(c) ==
  /\ task[c] = "writing"
  /\ Cardinality(Pending) <= PoolSize
  /\ task' = [task EXCEPT ![c] = "returning"]
  /\ UNCHANGED <<thread, mutex, jobs, flushing, pool, upload, uploadErrors, reported, swallowed,
                 references, started, flushes, closing>>

\* The deleters of the task: its references go, the last one with the accessors,
\* under m_mutex; then the future is ready.
DropReferences ==
  /\ references = 1 => mutex = NoOne
  /\ references' = references - 1

\* The chunk could not be read, or was never written in the source.
EndTask(c, ending) ==
  /\ \/ task[c] = "running" /\ ending \in {"failed", "skipped"}
     \/ task[c] = "returning" /\ ending = "copied"
  /\ DropReferences
  /\ task' = [task EXCEPT ![c] = ending]
  /\ UNCHANGED <<thread, mutex, jobs, flushing, pool, upload, uploadErrors, reported, swallowed,
                 started, flushes, closing>>

UploadStored(c) ==
  /\ upload[c] = "pending"
  /\ upload' = [upload EXCEPT ![c] = "stored"]
  /\ UNCHANGED <<thread, mutex, jobs, flushing, pool, task, uploadErrors, reported, swallowed,
                 references, started, flushes, closing>>

UploadFailed(c) ==
  /\ upload[c] = "pending"
  /\ upload' = [upload EXCEPT ![c] = "lost"]
  /\ uploadErrors' = Append(uploadErrors, c)
  /\ UNCHANGED <<thread, mutex, jobs, flushing, pool, task, reported, swallowed, references,
                 started, flushes, closing>>

-----------------------------------------------------------------------------
(* The end: the user lets go of the page accessors and closes the VDS.       *)

AllIdle == \A t \in Threads : At(t, "idle")

ReleaseAccessors ==
  /\ AllIdle /\ closing = "open"
  /\ references = Cardinality(InUse) + 1
  /\ DropReferences
  /\ UNCHANGED <<thread, mutex, jobs, flushing, tasks, uploadErrors, reported, swallowed, started,
                 flushes, closing>>

\* Invalidate holds m_mutex while the request processor, and with it the pool,
\* is destroyed.
Invalidate ==
  /\ AllIdle /\ closing = "open" /\ mutex = NoOne
  /\ CloseEarly \/ jobs = <<>>
  /\ mutex' = Closer
  /\ closing' = "invalidating"
  /\ UNCHANGED <<thread, jobs, flushing, tasks, uploadErrors, reported, swallowed, references,
                 started, flushes>>

\* The pool is joined once its queue is empty and its threads have ended.
PoolJoined ==
  /\ closing = "invalidating"
  /\ InUse = {}
  /\ mutex' = NoOne
  /\ closing' = "closed"
  /\ UNCHANGED <<thread, jobs, flushing, tasks, uploadErrors, reported, swallowed, references,
                 started, flushes>>

-----------------------------------------------------------------------------
CallStep(t) ==
  \/ RefuseCopy(t) \/ LockToEnqueue(t) \/ EnqueueCopy(t) \/ WaitedForFlush(t)
  \/ PopJob(t) \/ GetResult(t) \/ DrainEnds(t) \/ Drained(t)
  \/ FlushCopyPageJobs(t) \/ UploadsComplete(t)

TaskStep(c) ==
  \/ WriteChunk(c) \/ WriteThrottled(c)
  \/ \E ending \in {"copied", "skipped", "failed"} : EndTask(c, ending)

UploadStep(c) == UploadStored(c) \/ UploadFailed(c)

Next ==
  \/ \E t \in Threads : PrepareCopy(t) \/ BeginFlush(t) \/ CallStep(t)
  \/ StartTask
  \/ \E c \in Copies : TaskStep(c) \/ UploadStep(c)
  \/ ReleaseAccessors \/ Invalidate \/ PoolJoined

\* Threads, tasks and callbacks that can go on do.
Fairness ==
  /\ \A t \in Threads : WF_vars(CallStep(t))
  /\ WF_vars(StartTask)
  /\ \A c \in Copies : WF_vars(TaskStep(c)) /\ WF_vars(UploadStep(c))
  /\ WF_vars(PoolJoined)

Spec == Init /\ [][Next]_vars /\ Fairness

-----------------------------------------------------------------------------
\* The states of calls and tasks; and the page accessors have one reference for
\* the user and one for each task that may use them.
TypeOK ==
  /\ thread \in [Threads ->
       [pc : {"idle", "prepared", "enqueue", "waitForFlush", "flush", "pop", "get", "drained",
              "uploads"},
        copy : 0..MaxCopies, count : 0..MaxCopies, isFlush : BOOLEAN, error : 0..MaxCopies,
        before : SUBSET Copies]]
  /\ mutex \in Threads \cup {Closer, NoOne}
  /\ jobs \in Seq(Copies) /\ pool \in Seq(Copies) /\ uploadErrors \in Seq(Copies)
  /\ task \in [Copies -> {"none", "unprepared", "prepared", "queued", "running", "writing",
                          "returning", "copied", "skipped", "failed"}]
  /\ upload \in [Copies -> {"none", "pending", "stored", "lost"}]
  /\ {reported, swallowed} \subseteq SUBSET Copies
  /\ references \in {Cardinality(InUse), Cardinality(InUse) + 1}
  /\ started \in 0..MaxCopies /\ flushes \in 0..MaxFlushes
  /\ closing \in {"open", "invalidating", "closed"}

\* The copy is in the store, or there was nothing to copy.
Settled(c) == upload[c] = "stored" \/ task[c] = "skipped"

\* A Flush that returns no error has waited for every copy that was asked for
\* before it: each is stored, or its error was returned by a Flush, or lost in a
\* CopyPage.  Copies that another thread has taken out of the buffer count too.
FlushCopies ==
  [][\A t \in Threads :
       At(t, "uploads") /\ thread'[t].pc = "idle" /\ uploadErrors = <<>> =>
         \A c \in thread[t].before : Settled(c) \/ c \in reported \cup swallowed]_vars

\* No error of a copy is lost: Flush reports it.
NothingSwallowed == swallowed = {}

\* Nobody takes from the buffer, without m_mutex, while another thread adds to
\* it.
BufferNotShared ==
  \A t, u \in Threads : At(t, "pop") /\ thread[t].count > 0 => ~At(u, "enqueue")

\* Every CopyPage and Flush returns, and so does Close: calls being bounded, there
\* is always a time to come when none is under way.
CallsReturn == []<>(AllIdle /\ closing # "invalidating")
=============================================================================
