---------------------------- MODULE CopyJobsProofs ----------------------------
(* Proofs about CopyPage and Flush, for any threads, copies and sizes.  That *)
(* a Flush waits for every copy before it needs to know where each copy is:  *)
(* with the thread that asked for it, in the buffer, with the one thread     *)
(* that drains the buffer, or accounted for.  That the page accessors have a *)
(* reference for each task needs that no copy is asked for, queued or kept   *)
(* in the buffer twice.                                                      *)
EXTENDS CopyJobs, FiniteSetTheorems, TLAPS

-----------------------------------------------------------------------------
(* The inductive invariants.                                                 *)

\* The thread has a copy that is not in the buffer yet; it drains the buffer.
Holds(t) == thread[t].pc \in {"prepared", "enqueue"}
Drains(t) == thread[t].pc \in {"pop", "get", "drained"}

\* No two threads hold the same copy, and its task was not queued.
HeldCopies ==
  /\ \A t \in Threads : Holds(t) =>
       /\ thread[t].copy \in 1..started
       /\ task[thread[t].copy] \in {"prepared", "unprepared"}
  /\ \A t \in Threads : At(t, "enqueue") => task[thread[t].copy] = "prepared"
  /\ \A t, u \in Threads : Holds(t) /\ Holds(u) /\ thread[t].copy = thread[u].copy => t = u

\* A copy that was not asked for has no task.
NotStarted == \A c \in Copies : c > started => task[c] = "none"

\* The queue of the pool has each queued task once.
PoolQueued ==
  /\ \A i \in 1..Len(pool) : task[pool[i]] = "queued"
  /\ \A i, j \in 1..Len(pool) : pool[i] = pool[j] => i = j

\* The buffer has each future once, of a task that was given to the pool.
JobsSent ==
  /\ \A i \in 1..Len(jobs) : task[jobs[i]] \notin {"none", "unprepared", "prepared"}
  /\ \A i, j \in 1..Len(jobs) : jobs[i] = jobs[j] => i = j

\* A thread waits for the future of a copy.
GetsCopy == \A t \in Threads : At(t, "get") => thread[t].copy \in Copies

TasksInv ==
  /\ TypeOK
  /\ HeldCopies
  /\ NotStarted
  /\ PoolQueued
  /\ JobsSent
  /\ GetsCopy

\* The buffer is drained by one thread at a time, which has no error before the
\* end.
OneDrains ==
  /\ \A t \in Threads : Drains(t) => flushing
  /\ \A t, u \in Threads : Drains(t) /\ Drains(u) => t = u
  /\ \A t \in Threads : thread[t].error # 0 => At(t, "drained")

\* The copies whose errors are kept for Flush, and whose futures are in the buffer.
Failures == {uploadErrors[i] : i \in 1..Len(uploadErrors)}
Buffer == {jobs[i] : i \in 1..Len(jobs)}

\* The task of the copy is over, or its error is with Flush or a CopyPage.
Accounted(c) ==
  task[c] \in {"copied", "skipped"} \/ c \in reported \cup swallowed \cup Failures

\* Where a copy that was asked for is.
Somewhere(c) ==
  \/ \E t \in Threads : Holds(t) /\ thread[t].copy = c
  \/ c \in Buffer
  \/ \E t \in Threads : At(t, "get") /\ thread[t].copy = c
  \/ \E t \in Threads : At(t, "drained") /\ thread[t].error = c
  \/ Accounted(c)

CopiesSomewhere == \A c \in 1..started : Somewhere(c)

\* What became of the upload of a copy.
UploadsKnown ==
  /\ \A c \in Copies : task[c] \in {"writing", "returning", "copied"} => upload[c] # "none"
  /\ \A c \in Copies : upload[c] = "lost" => c \in reported \cup Failures

\* The copies that were asked for before a Flush are no longer held; those in the
\* buffer are among the futures it is still going to take; in the end none are.
BeforeOf(t) ==
  /\ thread[t].before \subseteq 1..started
  /\ Holds(t) => thread[t].before = {}
  /\ \A u \in Threads : Holds(u) => thread[u].copy \notin thread[t].before
  /\ thread[t].pc \in {"pop", "get"} =>
       \A i \in 1..Len(jobs) : jobs[i] \in thread[t].before => i <= thread[t].count
  /\ At(t, "drained") /\ thread[t].error = 0 =>
       \A i \in 1..Len(jobs) : jobs[i] \notin thread[t].before
  /\ At(t, "uploads") => \A c \in thread[t].before : Accounted(c)

BeforeFlush == \A t \in Threads : BeforeOf(t)

FlushInv ==
  /\ TasksInv
  /\ OneDrains
  /\ CopiesSomewhere
  /\ UploadsKnown
  /\ BeforeFlush

USE BoundsNat, SizesPositive, FlushersCopy, NoOneDiffers

\* The records of the calls of threads.
Calls ==
  [pc : {"idle", "prepared", "enqueue", "waitForFlush", "flush", "pop", "get", "drained",
         "uploads"},
   copy : 0..MaxCopies, count : 0..MaxCopies, isFlush : BOOLEAN, error : 0..MaxCopies,
   before : SUBSET Copies]

\* The call of a thread.
LEMMA CallType ==
  ASSUME TypeOK, NEW t \in Threads
  PROVE  thread \in [Threads -> Calls] /\ thread[t] \in Calls
<1>1. thread \in [Threads -> Calls]
  BY DEF TypeOK, Calls
<1>2. QED  BY <1>1

\* A thread is given another call.
LEMMA CallMoves ==
  ASSUME TypeOK, NEW t \in Threads, NEW call \in Calls, thread' = [thread EXCEPT ![t] = call]
  PROVE  thread' \in [Threads -> Calls]
BY CallType

\* An idle thread, and one that goes on.
LEMMA CallTypes ==
  ASSUME TypeOK, NEW t \in Threads
  PROVE  /\ Idle \in Calls
         /\ [thread[t] EXCEPT !.pc = "uploads"] \in Calls
         /\ [thread[t] EXCEPT !.pc = "waitForFlush"] \in Calls
         /\ \A n \in 0..MaxCopies : [thread[t] EXCEPT !.pc = "pop", !.count = n] \in Calls
<1>1. thread[t] \in Calls
  BY CallType
<1>2. Idle \in Calls
  BY DEF Idle, Calls
<1>3. /\ [thread[t] EXCEPT !.pc = "uploads"] \in Calls
      /\ [thread[t] EXCEPT !.pc = "waitForFlush"] \in Calls
  BY <1>1 DEF Calls
<1>4. ASSUME NEW n \in 0..MaxCopies PROVE [thread[t] EXCEPT !.pc = "pop", !.count = n] \in Calls
  BY <1>1 DEF Calls
<1>5. QED  BY <1>2, <1>3, <1>4

\* A sequence that grows by one copy.
LEMMA Appended ==
  ASSUME NEW s \in Seq(Copies), NEW c \in Copies
  PROVE  /\ Append(s, c) \in Seq(Copies) /\ Len(s) \in Nat
         /\ Len(Append(s, c)) = Len(s) + 1 /\ Append(s, c)[Len(s) + 1] = c
         /\ \A i \in 1..Len(s) : Append(s, c)[i] = s[i]
OBVIOUS

\* A sequence that loses its first copy.
LEMMA Taken ==
  ASSUME NEW s \in Seq(Copies), s # <<>>
  PROVE  /\ Tail(s) \in Seq(Copies) /\ Head(s) = s[1] /\ s[1] \in Copies
         /\ Len(s) \in Nat \ {0} /\ Len(Tail(s)) = Len(s) - 1
         /\ \A i \in 1..Len(Tail(s)) : Tail(s)[i] = s[i + 1]
OBVIOUS

\* What the variables hold are copies.
LEMMA Ranges ==
  ASSUME TypeOK
  PROVE  /\ \A i \in 1..Len(jobs) : jobs[i] \in Copies
         /\ \A i \in 1..Len(pool) : pool[i] \in Copies
         /\ \A i \in 1..Len(uploadErrors) : uploadErrors[i] \in Copies
         /\ Len(jobs) \in Nat /\ Len(pool) \in Nat /\ Len(uploadErrors) \in Nat
         /\ started \in Nat /\ 1..started \subseteq Copies
         /\ \A t \in Threads : /\ thread[t].before \subseteq Copies
                               /\ {thread[t].copy, thread[t].error, thread[t].count} \subseteq Nat
<1>1. /\ jobs \in Seq(Copies) /\ pool \in Seq(Copies) /\ uploadErrors \in Seq(Copies)
      /\ started \in 0..MaxCopies
  BY DEF TypeOK
<1>2. \A t \in Threads : /\ thread[t].before \subseteq Copies
                         /\ {thread[t].copy, thread[t].error, thread[t].count} \subseteq Nat
  BY CallType DEF Calls
<1>3. 1..started \subseteq Copies
  BY <1>1 DEF Copies
<1>4. QED  BY <1>1, <1>2, <1>3

\* The tasks in use are finitely many.
LEMMA InUseFinite == IsFiniteSet(InUse) /\ Cardinality(InUse) \in Nat
<1>1. IsFiniteSet(Copies)
  BY FS_Interval DEF Copies
<1>2. InUse \subseteq Copies
  BY DEF InUse
<1>3. IsFiniteSet(InUse)
  BY <1>1, <1>2, FS_Subset
<1>4. QED  BY <1>3, FS_CardinalityType

\* A sequence that has each copy at most once is no longer than there are copies.
LEMMA LenBounded ==
  ASSUME NEW s \in Seq(Copies), \A i, j \in 1..Len(s) : s[i] = s[j] => i = j
  PROVE  Len(s) <= MaxCopies
<1>1. s \in Injection(1..Len(s), Copies)
  BY DEF Injection, IsInjective
<1>2. IsFiniteSet(Copies) /\ Cardinality(Copies) = MaxCopies
  BY FS_Interval DEF Copies
<1>3. IsFiniteSet(1..Len(s)) /\ Cardinality(1..Len(s)) = Len(s)
  <2>1. Len(s) \in Nat
    OBVIOUS
  <2>2. IsFiniteSet(1..Len(s)) /\ Cardinality(1..Len(s)) = IF 1 > Len(s) THEN 0 ELSE Len(s) - 1 + 1
    <3>1. 1 \in Int /\ Len(s) \in Int
      OBVIOUS
    <3>2. QED  BY ONLY <3>1, FS_Interval, Zenon
  <2>3. QED  BY <2>2
<1>4. Cardinality(1..Len(s)) <= Cardinality(Copies)
  BY <1>1, <1>2, FS_Injection
<1>5. QED  BY <1>2, <1>3, <1>4

\* An error that is kept for Flush.
LEMMA FailureKept ==
  ASSUME TypeOK, NEW c \in Copies, uploadErrors' = Append(uploadErrors, c)
  PROVE  Failures' = Failures \cup {c} /\ uploadErrors' \in Seq(Copies)
<1>1. uploadErrors \in Seq(Copies)
  BY DEF TypeOK
<1>2. /\ Len(uploadErrors) \in Nat /\ uploadErrors' \in Seq(Copies)
      /\ Len(uploadErrors') = Len(uploadErrors) + 1 /\ uploadErrors'[Len(uploadErrors) + 1] = c
      /\ \A i \in 1..Len(uploadErrors) : uploadErrors'[i] = uploadErrors[i]
  BY <1>1
<1>3. QED  BY <1>2 DEF Failures

\* There are no copies and no drains at first.
LEMMA InvInit == Init => FlushInv
<1> SUFFICES ASSUME Init PROVE FlushInv
  OBVIOUS
<1>1. InUse = {}
  BY DEF Init, InUse
<1>2. TypeOK
  BY <1>1, FS_EmptySet DEF Init, TypeOK, Idle
<1>3. HeldCopies /\ NotStarted /\ PoolQueued /\ JobsSent /\ GetsCopy
  BY DEF Init, HeldCopies, NotStarted, PoolQueued, JobsSent, GetsCopy, Holds, At, Idle
<1>4. OneDrains /\ CopiesSomewhere /\ UploadsKnown /\ BeforeFlush
  BY DEF Init, OneDrains, CopiesSomewhere, UploadsKnown, BeforeFlush, BeforeOf, Drains,
       Idle
<1>5. QED  BY <1>2, <1>3, <1>4 DEF FlushInv, TasksInv

\* A copy is asked for; no thread has its number yet.
LEMMA InvPrepareCopy ==
  ASSUME FlushInv, NEW t \in Threads, PrepareCopy(t)
  PROVE  FlushInv'
<1> TypeOK /\ HeldCopies /\ NotStarted /\ PoolQueued /\ JobsSent /\ GetsCopy
  BY DEF FlushInv, TasksInv
<1> OneDrains /\ CopiesSomewhere /\ UploadsKnown /\ BeforeFlush
  BY DEF FlushInv
<1>0. /\ \A i \in 1..Len(jobs) : jobs[i] \in Copies
      /\ \A i \in 1..Len(pool) : pool[i] \in Copies
      /\ \A i \in 1..Len(uploadErrors) : uploadErrors[i] \in Copies
      /\ Len(jobs) \in Nat /\ Len(pool) \in Nat /\ Len(uploadErrors) \in Nat
      /\ started \in Nat /\ 1..started \subseteq Copies
      /\ \A u \in Threads : /\ thread[u].before \subseteq Copies
                            /\ {thread[u].copy, thread[u].error, thread[u].count} \subseteq Nat
  BY Ranges
<1>1. /\ At(t, "idle")
      /\ started \in Nat /\ started + 1 \in Copies
      /\ task[started + 1] = "none"
      /\ started' = started + 1
      /\ task'[started + 1] \in {"prepared", "unprepared"}
      /\ \A d \in Copies : d # started + 1 => task'[d] = task[d]
      /\ Failures' = Failures
      /\ Buffer' = Buffer
      /\ UNCHANGED <<jobs, flushing, pool, upload, uploadErrors, reported, swallowed>>
  <2>1. started \in Nat /\ started + 1 \in Copies /\ task[started + 1] = "none"
    BY SMTT(30), <1>0 DEF PrepareCopy, NotStarted, Copies
  <2>2. PICK state \in {"prepared", "unprepared"} : task' = [task EXCEPT ![started + 1] = state]
    BY DEF PrepareCopy
  <2>3. /\ task'[started + 1] \in {"prepared", "unprepared"}
        /\ \A d \in Copies : d # started + 1 => task'[d] = task[d]
    BY <2>1, <2>2 DEF TypeOK
  <2>4. QED  BY <2>1, <2>3 DEF PrepareCopy, Failures, Buffer
<1>2. thread \in [Threads -> Calls] /\ thread[t] \in Calls
  BY CallType
<1>3. /\ \A u \in Threads \ {t} : thread'[u] = thread[u]
      /\ thread'[t].pc = "prepared" /\ thread'[t].copy = started + 1
      /\ thread'[t].error = 0 /\ thread'[t].before = {}
  BY <1>2 DEF PrepareCopy, Idle
<1>4. TypeOK'
  <2>1. InUse' = InUse
    BY <1>1 DEF InUse
  <2>2. thread' \in [Threads -> Calls]
    <3>1. [Idle EXCEPT !.pc = "prepared", !.copy = started + 1] \in Calls
      <4>1. Idle \in Calls
        BY CallTypes
      <4>2. started + 1 \in 0..MaxCopies
        BY <1>1 DEF Copies
      <4>3. QED  BY <4>1, <4>2 DEF Calls
    <3>2. QED  BY <3>1, CallMoves DEF PrepareCopy
  <2>3. \/ task' = [task EXCEPT ![started + 1] = "unprepared"]
        \/ task' = [task EXCEPT ![started + 1] = "prepared"]
    BY DEF PrepareCopy
  <2>4. started' \in 0..MaxCopies
    BY <1>1 DEF Copies
  <2>5. task' \in [Copies -> {"none", "unprepared", "prepared", "queued", "running", "writing",
                              "returning", "copied", "skipped", "failed"}]
    BY <2>3 DEF TypeOK
  <2>6. QED  BY <2>1, <2>2, <2>4, <2>5 DEF PrepareCopy, TypeOK, Calls
<1>5. HeldCopies'
  <2>1. \A u \in Threads : u # t /\ Holds(u)' =>
          /\ Holds(u) /\ thread'[u] = thread[u] /\ thread[u].copy \in 1..started
          /\ task'[thread[u].copy] = task[thread[u].copy]
    BY <1>0, <1>1, <1>3 DEF HeldCopies, Holds
  <2>2. \A u \in Threads : u # t /\ Holds(u)' =>
          thread[u].copy \in 1..started' /\ thread[u].copy # started + 1
    BY <2>1, <1>1
  <2>3. Holds(t)' => thread'[t].copy = started + 1 /\ started + 1 \in 1..started'
    BY <1>1, <1>3
  <2>4. QED  BY <2>1, <1>1, <1>3 DEF HeldCopies, Holds, At
<1>6. NotStarted'
  BY <1>1 DEF NotStarted, Copies
<1>7. PoolQueued'
  BY <1>0, <1>1 DEF PoolQueued
<1>8. JobsSent'
  BY <1>0, <1>1 DEF JobsSent
<1>9. GetsCopy'
  BY <1>3 DEF GetsCopy, At
<1>10. OneDrains'
  BY <1>1, <1>3 DEF OneDrains, Drains, At
<1>11. CopiesSomewhere'
  <2> SUFFICES ASSUME NEW d \in 1..started' PROVE Somewhere(d)'
    BY DEF CopiesSomewhere
  <2>1. ASSUME NEW u \in Threads, Holds(u), thread[u].copy = d PROVE Somewhere(d)'
    BY <2>1, <1>1, <1>3 DEF Somewhere, Holds, At
  <2>2. ASSUME d \in Buffer PROVE Somewhere(d)'
    BY <2>2, <1>1 DEF Somewhere
  <2>3. ASSUME NEW u \in Threads, At(u, "get"), thread[u].copy = d PROVE Somewhere(d)'
    BY <2>3, <1>1, <1>3 DEF Somewhere, At
  <2>4. ASSUME NEW u \in Threads, At(u, "drained"), thread[u].error = d PROVE Somewhere(d)'
    BY <2>4, <1>1, <1>3 DEF Somewhere, At
  <2>5. ASSUME d \in 1..started, Accounted(d) PROVE Somewhere(d)'
    BY <2>5, <1>0, <1>1 DEF Somewhere, Accounted
  <2>6. QED  BY <2>1, <2>3, <2>4, <2>5, <1>1, <1>3 DEF CopiesSomewhere, Somewhere, Holds
<1>12. UploadsKnown'
  BY <1>1 DEF UploadsKnown
<1>13. BeforeFlush'
  <2> SUFFICES ASSUME NEW w \in Threads PROVE BeforeOf(w)'
    BY DEF BeforeFlush
  <2>1. BeforeOf(w)
    BY DEF BeforeFlush
  <2>2. thread'[w].before \subseteq 1..started' /\ (Holds(w)' => thread'[w].before = {})
    BY <2>1, <1>1, <1>3 DEF BeforeOf, Holds
  <2>3. \A u \in Threads : Holds(u)' => thread'[u].copy \notin thread'[w].before
    BY <2>1, <1>1, <1>3 DEF BeforeOf, Holds
  <2>4. thread'[w].pc \in {"pop", "get"} =>
          \A i \in 1..Len(jobs') : jobs'[i] \in thread'[w].before => i <= thread'[w].count
    BY <2>1, <1>1, <1>3 DEF BeforeOf
  <2>5. At(w, "drained")' /\ thread'[w].error = 0 =>
          \A i \in 1..Len(jobs') : jobs'[i] \notin thread'[w].before
    BY <2>1, <1>1, <1>3 DEF BeforeOf, At
  <2>6. At(w, "uploads")' => \A d \in thread'[w].before : Accounted(d)'
    BY <2>1, <1>0, <1>1, <1>3 DEF BeforeOf, At, Accounted
  <2>7. QED  BY <2>2, <2>3, <2>4, <2>5, <2>6 DEF BeforeOf
<1>14. QED  BY <1>4, <1>5, <1>6, <1>7, <1>8, <1>9, <1>10, <1>11, <1>12, <1>13 DEF
     FlushInv, TasksInv

\* The error of a preparation is kept for Flush.
LEMMA InvRefuseCopy ==
  ASSUME FlushInv, NEW t \in Threads, RefuseCopy(t)
  PROVE  FlushInv'
<1> TypeOK /\ HeldCopies /\ NotStarted /\ PoolQueued /\ JobsSent /\ GetsCopy
  BY DEF FlushInv, TasksInv
<1> OneDrains /\ CopiesSomewhere /\ UploadsKnown /\ BeforeFlush
  BY DEF FlushInv
<1>0. /\ \A i \in 1..Len(jobs) : jobs[i] \in Copies
      /\ \A i \in 1..Len(pool) : pool[i] \in Copies
      /\ \A i \in 1..Len(uploadErrors) : uploadErrors[i] \in Copies
      /\ Len(jobs) \in Nat /\ Len(pool) \in Nat /\ Len(uploadErrors) \in Nat
      /\ started \in Nat /\ 1..started \subseteq Copies
      /\ \A u \in Threads : /\ thread[u].before \subseteq Copies
                            /\ {thread[u].copy, thread[u].error, thread[u].count} \subseteq Nat
  BY Ranges
<1>1. /\ At(t, "prepared")
      /\ Failures' = Failures \cup {thread[t].copy}
      /\ Buffer' = Buffer
      /\ UNCHANGED <<jobs, flushing, pool, task, upload, reported, swallowed, started>>
  <2>1. thread[t].copy \in Copies
    BY <1>0 DEF RefuseCopy, HeldCopies, Holds, At
  <2>2. Failures' = Failures \cup {thread[t].copy}
    BY <2>1, FailureKept DEF RefuseCopy
  <2>3. QED  BY <2>2 DEF RefuseCopy, tasks, Buffer
<1>2. thread \in [Threads -> Calls] /\ thread[t] \in Calls
  BY CallType
<1>3. /\ \A u \in Threads \ {t} : thread'[u] = thread[u]
      /\ thread'[t].pc = "idle" /\ thread'[t].error = 0 /\ thread'[t].before = {}
  BY <1>2 DEF RefuseCopy, Return, Idle
<1>4. TypeOK'
  <2>1. InUse' = InUse
    BY <1>1 DEF InUse
  <2>2. thread' \in [Threads -> Calls]
    BY <1>2 DEF RefuseCopy, Return, Idle, Calls
  <2>3. uploadErrors' \in Seq(Copies)
    BY <1>0 DEF RefuseCopy, TypeOK, HeldCopies, Holds, At
  <2>4. QED  BY <2>1, <2>2, <2>3 DEF RefuseCopy, tasks, TypeOK, Calls
<1>5. HeldCopies'
  BY <1>1, <1>3 DEF HeldCopies, Holds, At
<1>6. GetsCopy'
  BY <1>3 DEF GetsCopy, At
<1>7. OneDrains'
  BY <1>1, <1>3 DEF OneDrains, Drains, At
<1>8. CopiesSomewhere'
  BY <1>1, <1>3 DEF CopiesSomewhere, Somewhere, Holds, Accounted, At
<1>9. UploadsKnown'
  BY <1>1 DEF UploadsKnown
<1>10. BeforeFlush'
  <2> SUFFICES ASSUME NEW w \in Threads PROVE BeforeOf(w)'
    BY DEF BeforeFlush
  <2>1. BeforeOf(w)
    BY DEF BeforeFlush
  <2>2. thread'[w].before \subseteq 1..started' /\ (Holds(w)' => thread'[w].before = {})
    BY <2>1, <1>1, <1>3 DEF BeforeOf, Holds
  <2>3. \A u \in Threads : Holds(u)' => thread'[u].copy \notin thread'[w].before
    BY <2>1, <1>3 DEF BeforeOf, Holds
  <2>4. thread'[w].pc \in {"pop", "get"} =>
          \A i \in 1..Len(jobs') : jobs'[i] \in thread'[w].before => i <= thread'[w].count
    BY <2>1, <1>1, <1>3 DEF BeforeOf
  <2>5. At(w, "drained")' /\ thread'[w].error = 0 =>
          \A i \in 1..Len(jobs') : jobs'[i] \notin thread'[w].before
    BY <2>1, <1>1, <1>3 DEF BeforeOf, At
  <2>6. At(w, "uploads")' => \A d \in thread'[w].before : Accounted(d)'
    BY <2>1, <1>1, <1>3 DEF BeforeOf, At, Accounted
  <2>7. QED  BY <2>2, <2>3, <2>4, <2>5, <2>6 DEF BeforeOf
<1>11. NotStarted' /\ PoolQueued' /\ JobsSent'
  BY <1>1 DEF NotStarted, PoolQueued, JobsSent
<1>12. QED  BY <1>4, <1>5, <1>6, <1>7, <1>8, <1>9, <1>10, <1>11 DEF FlushInv, TasksInv

\* The thread that holds a copy locks the mutex.
LEMMA InvLockToEnqueue ==
  ASSUME FlushInv, NEW t \in Threads, LockToEnqueue(t)
  PROVE  FlushInv'
<1> TypeOK /\ HeldCopies /\ NotStarted /\ PoolQueued /\ JobsSent /\ GetsCopy
  BY DEF FlushInv, TasksInv
<1> OneDrains /\ CopiesSomewhere /\ UploadsKnown /\ BeforeFlush
  BY DEF FlushInv
<1>1. /\ At(t, "prepared")
      /\ task[thread[t].copy] = "prepared"
      /\ Failures' = Failures
      /\ Buffer' = Buffer
      /\ UNCHANGED <<jobs, flushing, pool, task, upload, uploadErrors, reported, swallowed, started>>
  BY DEF LockToEnqueue, tasks, Failures, Buffer
<1>2. thread \in [Threads -> Calls] /\ thread[t] \in Calls
  BY CallType
<1>3. /\ \A u \in Threads \ {t} : thread'[u] = thread[u]
      /\ thread'[t].pc = "enqueue"
      /\ thread'[t].copy = thread[t].copy
      /\ thread'[t].error = thread[t].error
      /\ thread'[t].before = thread[t].before /\ thread'[t].isFlush = thread[t].isFlush
  BY <1>2 DEF LockToEnqueue, Goto
<1>4. TypeOK'
  <2>1. InUse' = InUse
    BY <1>1 DEF InUse
  <2>2. thread' \in [Threads -> Calls]
    BY <1>2 DEF LockToEnqueue, Goto, Calls
  <2>3. QED  BY <2>1, <2>2 DEF LockToEnqueue, tasks, TypeOK, Calls
<1>5. HeldCopies'
  BY <1>1, <1>3 DEF HeldCopies, Holds, At
<1>6. GetsCopy'
  BY <1>3 DEF GetsCopy, At
<1>7. OneDrains'
  BY <1>1, <1>3 DEF OneDrains, Drains, At
<1>8. CopiesSomewhere'
  BY <1>1, <1>3 DEF CopiesSomewhere, Somewhere, Holds, Accounted, At
<1>9. BeforeFlush'
  BY SMTT(30), <1>1, <1>3 DEF BeforeFlush, BeforeOf, Holds, Accounted, At
<1>10. NotStarted' /\ PoolQueued' /\ JobsSent' /\ UploadsKnown'
  BY <1>1 DEF NotStarted, PoolQueued, JobsSent, UploadsKnown
<1>11. QED  BY <1>4, <1>5, <1>6, <1>7, <1>8, <1>9, <1>10 DEF FlushInv, TasksInv

\* The task joins the pool, its future the buffer; the thread may have to drain
\* the buffer.
LEMMA InvEnqueueCopy ==
  ASSUME FlushInv, NEW t \in Threads, EnqueueCopy(t)
  PROVE  FlushInv'
<1> TypeOK /\ HeldCopies /\ NotStarted /\ PoolQueued /\ JobsSent /\ GetsCopy
  BY DEF FlushInv, TasksInv
<1> OneDrains /\ CopiesSomewhere /\ UploadsKnown /\ BeforeFlush
  BY DEF FlushInv
<1>0. /\ \A i \in 1..Len(jobs) : jobs[i] \in Copies
      /\ \A i \in 1..Len(pool) : pool[i] \in Copies
      /\ \A i \in 1..Len(uploadErrors) : uploadErrors[i] \in Copies
      /\ Len(jobs) \in Nat /\ Len(pool) \in Nat /\ Len(uploadErrors) \in Nat
      /\ started \in Nat /\ 1..started \subseteq Copies
      /\ \A u \in Threads : /\ thread[u].before \subseteq Copies
                            /\ {thread[u].copy, thread[u].error, thread[u].count} \subseteq Nat
  BY Ranges
<1>1. /\ At(t, "enqueue")
      /\ thread[t].copy \in Copies /\ task[thread[t].copy] = "prepared"
      /\ task'[thread[t].copy] = "queued"
      /\ \A d \in Copies : d # thread[t].copy => task'[d] = task[d]
      /\ Len(pool') = Len(pool) + 1 /\ pool'[Len(pool) + 1] = thread[t].copy
      /\ \A i \in 1..Len(pool) : pool'[i] = pool[i]
      /\ Len(pool) \in Nat /\ Len(jobs) \in Nat
      /\ Len(jobs') = Len(jobs) + 1 /\ jobs'[Len(jobs) + 1] = thread[t].copy
      /\ \A i \in 1..Len(jobs) : jobs'[i] = jobs[i]
      /\ Buffer' = Buffer \cup {thread[t].copy} /\ Failures' = Failures
      /\ UNCHANGED <<upload, uploadErrors, reported, swallowed, started>>
  <2>1. At(t, "enqueue") /\ thread[t].copy \in Copies /\ task[thread[t].copy] = "prepared"
    BY <1>0 DEF EnqueueCopy, HeldCopies, Holds, At
  <2>2. /\ pool' = Append(pool, thread[t].copy) /\ jobs' = Append(jobs, thread[t].copy)
        /\ task' = [task EXCEPT ![thread[t].copy] = "queued"]
        /\ UNCHANGED <<upload, uploadErrors, reported, swallowed, started>>
    BY DEF EnqueueCopy
  <2>3. /\ pool \in Seq(Copies) /\ jobs \in Seq(Copies)
        /\ task'[thread[t].copy] = "queued"
        /\ \A d \in Copies : d # thread[t].copy => task'[d] = task[d]
    BY <2>1, <2>2 DEF TypeOK
  <2>4. /\ Len(pool') = Len(pool) + 1 /\ pool'[Len(pool) + 1] = thread[t].copy
        /\ \A i \in 1..Len(pool) : pool'[i] = pool[i]
        /\ Len(pool) \in Nat /\ Len(jobs) \in Nat
        /\ Len(jobs') = Len(jobs) + 1 /\ jobs'[Len(jobs) + 1] = thread[t].copy
        /\ \A i \in 1..Len(jobs) : jobs'[i] = jobs[i]
    BY <2>2
  <2>5. Buffer' = Buffer \cup {thread[t].copy} /\ Failures' = Failures
    BY SMTT(30), <2>2 DEF Buffer, Failures
  <2>6. QED  BY <2>1, <2>2, <2>3, <2>5
<1>2. thread \in [Threads -> Calls] /\ thread[t] \in Calls
  BY CallType
<1>3. /\ \A u \in Threads \ {t} : thread'[u] = thread[u]
      /\ \/ thread'[t].pc = "idle" /\ thread'[t].error = 0 /\ thread'[t].before = {} /\ flushing' = flushing
         \/ /\ thread'[t].pc = "waitForFlush" /\ thread'[t].error = thread[t].error /\ flushing' = flushing
            /\ thread'[t].before = thread[t].before /\ thread'[t].isFlush = thread[t].isFlush
         \/ /\ thread'[t].pc = "pop" /\ thread'[t].error = thread[t].error /\ ~flushing /\ flushing'
            /\ thread'[t].before = thread[t].before /\ thread'[t].isFlush = thread[t].isFlush
  BY <1>2 DEF EnqueueCopy, StartDraining, Goto, Return, Idle, Calls
<1>4. HeldCopies'
  <2>1. ~Holds(t)' /\ \A u \in Threads : Holds(u)' => u # t /\ Holds(u) /\ thread'[u] = thread[u]
    BY <1>3 DEF Holds
  <2>2. \A u \in Threads : u # t /\ Holds(u) =>
          thread[u].copy # thread[t].copy /\ thread[u].copy \in Copies
    BY <1>0, <1>1 DEF HeldCopies, Holds, At
  <2>3. \A u \in Threads : At(u, "enqueue")' => u # t /\ At(u, "enqueue") /\ thread'[u] = thread[u]
    BY <1>3 DEF At
  <2>4. QED  BY SMTT(30), <2>1, <2>2, <2>3, <1>1 DEF HeldCopies, Holds, At
<1>5. NotStarted'
  BY <1>1 DEF NotStarted
<1>6. PoolQueued'
  <2>1. \A i \in 1..Len(pool') :
          \/ i \in 1..Len(pool) /\ pool'[i] = pool[i]
          \/ i = Len(pool) + 1 /\ pool'[i] = thread[t].copy
    BY <1>1
  <2>2. \A i \in 1..Len(pool) : pool[i] # thread[t].copy /\ pool[i] \in Copies
    BY <1>0, <1>1 DEF PoolQueued
  <2>3. \A i, j \in 1..Len(pool') : pool'[i] = pool'[j] => i = j
    BY <2>1, <2>2 DEF PoolQueued
  <2>4. \A i \in 1..Len(pool') : task'[pool'[i]] = "queued"
    BY <2>1, <2>2, <1>1 DEF PoolQueued
  <2>5. QED  BY <2>3, <2>4 DEF PoolQueued
<1>7. JobsSent'
  <2>1. \A i \in 1..Len(jobs') :
          \/ i \in 1..Len(jobs) /\ jobs'[i] = jobs[i]
          \/ i = Len(jobs) + 1 /\ jobs'[i] = thread[t].copy
    BY <1>1
  <2>2. \A i \in 1..Len(jobs) : jobs[i] # thread[t].copy /\ jobs[i] \in Copies
    BY <1>0, <1>1 DEF JobsSent
  <2>3. \A i, j \in 1..Len(jobs') : jobs'[i] = jobs'[j] => i = j
    BY <2>1, <2>2 DEF JobsSent
  <2>4. \A i \in 1..Len(jobs') : task'[jobs'[i]] \notin {"none", "unprepared", "prepared"}
    BY <2>1, <2>2, <1>1 DEF JobsSent
  <2>5. QED  BY <2>3, <2>4 DEF JobsSent
<1>8. GetsCopy'
  BY <1>3 DEF GetsCopy, At
<1>9. OneDrains'
  BY <1>1, <1>3 DEF OneDrains, Drains, At
<1>10. CopiesSomewhere'
  <2> SUFFICES ASSUME NEW d \in 1..started' PROVE Somewhere(d)'
    BY DEF CopiesSomewhere
  <2>1. ASSUME NEW u \in Threads, Holds(u), thread[u].copy = d PROVE Somewhere(d)'
    BY <2>1, <1>1, <1>3 DEF Somewhere, Holds
  <2>2. ASSUME d \in Buffer PROVE Somewhere(d)'
    BY <2>2, <1>1 DEF Somewhere
  <2>3. ASSUME NEW u \in Threads, At(u, "get"), thread[u].copy = d PROVE Somewhere(d)'
    BY <2>3, <1>1, <1>3 DEF Somewhere, At
  <2>4. ASSUME NEW u \in Threads, At(u, "drained"), thread[u].error = d PROVE Somewhere(d)'
    BY <2>4, <1>1, <1>3 DEF Somewhere, At
  <2>5. ASSUME d \in 1..started, Accounted(d) PROVE Somewhere(d)'
    BY <2>5, <1>0, <1>1 DEF Somewhere, Accounted
  <2>6. QED  BY <2>1, <2>3, <2>4, <2>5, <1>1 DEF CopiesSomewhere, Somewhere
<1>11. UploadsKnown'
  BY <1>1 DEF UploadsKnown
<1>12. BeforeFlush'
  <2> SUFFICES ASSUME NEW w \in Threads PROVE BeforeOf(w)'
    BY DEF BeforeFlush
  <2>1. BeforeOf(w)
    BY DEF BeforeFlush
  <2>2. thread'[w].before \subseteq 1..started' /\ (Holds(w)' => thread'[w].before = {})
    BY <2>1, <1>1, <1>3 DEF BeforeOf, Holds
  <2>3. \A u \in Threads : Holds(u)' => thread'[u].copy \notin thread'[w].before
    BY <2>1, <1>3 DEF BeforeOf, Holds
  <2>4. thread'[w].pc \in {"pop", "get"} =>
          \A i \in 1..Len(jobs') : jobs'[i] \in thread'[w].before => i <= thread'[w].count
    BY SMTT(30), <2>1, <1>1, <1>3 DEF BeforeOf, At, Holds
  <2>5. At(w, "drained")' /\ thread'[w].error = 0 =>
          \A i \in 1..Len(jobs') : jobs'[i] \notin thread'[w].before
    BY SMTT(30), <2>1, <1>1, <1>3 DEF BeforeOf, At, Holds
  <2>6. At(w, "uploads")' => \A d \in thread'[w].before : Accounted(d)'
    BY <2>1, <1>0, <1>1, <1>3 DEF BeforeOf, At, Accounted
  <2>7. QED  BY <2>2, <2>3, <2>4, <2>5, <2>6 DEF BeforeOf
<1>13. TypeOK'
  <2>1. InUse' = InUse \cup {thread[t].copy} /\ thread[t].copy \notin InUse
    BY <1>1 DEF InUse
  <2>2. Cardinality(InUse') = Cardinality(InUse) + 1 /\ Cardinality(InUse) \in Nat
    BY <2>1, InUseFinite, FS_AddElement
  <2>3. jobs' \in Seq(Copies) /\ pool' \in Seq(Copies)
    BY <1>1 DEF EnqueueCopy, TypeOK
  <2>4. Len(jobs') <= MaxCopies
    BY <1>7, <2>3, LenBounded DEF JobsSent
  <2>5. thread' \in [Threads -> Calls]
    <3>1. CASE Len(jobs) + 1 <= 2 * MinConcurrent
      <4>1. thread' = [thread EXCEPT ![t] = Idle]
        BY <3>1 DEF EnqueueCopy, Return
      <4>2. QED  BY <4>1, CallMoves, CallTypes
    <3>2. CASE ~(Len(jobs) + 1 <= 2 * MinConcurrent) /\ flushing
      <4>1. thread' = [thread EXCEPT ![t] = [thread[t] EXCEPT !.pc = "waitForFlush"]]
        BY <3>2 DEF EnqueueCopy, Goto
      <4>2. QED  BY <4>1, CallMoves, CallTypes
    <3>3. CASE ~(Len(jobs) + 1 <= 2 * MinConcurrent) /\ ~flushing
      <4>1. thread' = [thread EXCEPT ![t] =
                         [thread[t] EXCEPT !.pc = "pop", !.count = MinConcurrent]]
        BY <3>3 DEF EnqueueCopy, StartDraining
      <4>2. MinConcurrent \in 0..MaxCopies
        BY <3>3, <2>4, <1>1
      <4>3. QED  BY <4>1, <4>2, CallMoves, CallTypes
    <3>4. QED  BY <3>1, <3>2, <3>3
  <2>6. task' \in [Copies -> {"none", "unprepared", "prepared", "queued", "running", "writing",
                              "returning", "copied", "skipped", "failed"}]
    BY DEF EnqueueCopy, TypeOK
  <2>7. mutex' = NoOne /\ references' = references + 1
    BY DEF EnqueueCopy, StartDraining, TakeReferences
  <2>8. references' \in {Cardinality(InUse'), Cardinality(InUse') + 1}
    BY <2>2, <2>7 DEF TypeOK
  <2>9. UNCHANGED <<upload, uploadErrors, reported, swallowed, started, flushes, closing>>
    BY DEF EnqueueCopy
  <2>10. QED  BY <2>3, <2>5, <2>6, <2>7, <2>8, <2>9 DEF TypeOK, Calls
<1>14. QED  BY <1>4, <1>5, <1>6, <1>7, <1>8, <1>9, <1>10, <1>11, <1>12, <1>13 DEF
     FlushInv, TasksInv

\* The drain that a thread waited for is over.
LEMMA InvWaitedForFlush ==
  ASSUME FlushInv, NEW t \in Threads, WaitedForFlush(t)
  PROVE  FlushInv'
<1> TypeOK /\ HeldCopies /\ NotStarted /\ PoolQueued /\ JobsSent /\ GetsCopy
  BY DEF FlushInv, TasksInv
<1> OneDrains /\ CopiesSomewhere /\ UploadsKnown /\ BeforeFlush
  BY DEF FlushInv
<1>1. /\ At(t, "waitForFlush")
      /\ Failures' = Failures
      /\ Buffer' = Buffer
      /\ UNCHANGED <<jobs, flushing, pool, task, upload, uploadErrors, reported, swallowed, started>>
  BY DEF WaitedForFlush, tasks, Failures, Buffer
<1>2. thread \in [Threads -> Calls] /\ thread[t] \in Calls
  BY CallType
<1>3. /\ \A u \in Threads \ {t} : thread'[u] = thread[u]
      /\ thread'[t].pc = "idle" /\ thread'[t].error = 0 /\ thread'[t].before = {}
  BY <1>2 DEF WaitedForFlush, Return, Idle
<1>4. TypeOK'
  <2>1. InUse' = InUse
    BY <1>1 DEF InUse
  <2>2. thread' \in [Threads -> Calls]
    BY <1>2 DEF WaitedForFlush, Return, Idle, Calls
  <2>3. QED  BY <2>1, <2>2 DEF WaitedForFlush, tasks, TypeOK, Calls
<1>5. HeldCopies'
  BY <1>1, <1>3 DEF HeldCopies, Holds, At
<1>6. GetsCopy'
  BY <1>3 DEF GetsCopy, At
<1>7. OneDrains'
  BY <1>1, <1>3 DEF OneDrains, Drains, At
<1>8. CopiesSomewhere'
  BY <1>1, <1>3 DEF CopiesSomewhere, Somewhere, Holds, Accounted, At
<1>9. BeforeFlush'
  BY <1>1, <1>3 DEF BeforeFlush, BeforeOf, Holds, Accounted, At
<1>10. NotStarted' /\ PoolQueued' /\ JobsSent' /\ UploadsKnown'
  BY <1>1 DEF NotStarted, PoolQueued, JobsSent, UploadsKnown
<1>11. QED  BY <1>4, <1>5, <1>6, <1>7, <1>8, <1>9, <1>10 DEF FlushInv, TasksInv

\* The thread that drains the buffer takes a future out of it.
LEMMA InvPopJob ==
  ASSUME FlushInv, NEW t \in Threads, PopJob(t)
  PROVE  FlushInv'
<1> TypeOK /\ HeldCopies /\ NotStarted /\ PoolQueued /\ JobsSent /\ GetsCopy
  BY DEF FlushInv, TasksInv
<1> OneDrains /\ CopiesSomewhere /\ UploadsKnown /\ BeforeFlush
  BY DEF FlushInv
<1>0. /\ \A i \in 1..Len(jobs) : jobs[i] \in Copies
      /\ \A i \in 1..Len(pool) : pool[i] \in Copies
      /\ \A i \in 1..Len(uploadErrors) : uploadErrors[i] \in Copies
      /\ Len(jobs) \in Nat /\ Len(pool) \in Nat /\ Len(uploadErrors) \in Nat
      /\ started \in Nat /\ 1..started \subseteq Copies
      /\ \A u \in Threads : /\ thread[u].before \subseteq Copies
                            /\ {thread[u].copy, thread[u].error, thread[u].count} \subseteq Nat
  BY Ranges
<1>1. /\ At(t, "pop") /\ thread[t].count > 0
      /\ Len(jobs) \in Nat \ {0} /\ Len(jobs') = Len(jobs) - 1
      /\ \A i \in 1..Len(jobs') : jobs'[i] = jobs[i + 1]
      /\ jobs[1] \in Copies
      /\ Buffer \subseteq Buffer' \cup {jobs[1]}
      /\ Failures' = Failures
      /\ UNCHANGED <<flushing, pool, task, upload, uploadErrors, reported, swallowed, started>>
  <2>1. jobs \in Seq(Copies) /\ jobs # <<>> /\ jobs' = Tail(jobs)
    BY DEF PopJob, TypeOK
  <2>2. /\ Len(jobs) \in Nat \ {0} /\ Len(jobs') = Len(jobs) - 1
        /\ \A i \in 1..Len(jobs') : jobs'[i] = jobs[i + 1]
        /\ jobs[1] \in Copies
    BY <2>1
  <2>3. Buffer \subseteq Buffer' \cup {jobs[1]}
    <3> SUFFICES ASSUME NEW i \in 1..Len(jobs), i # 1 PROVE jobs[i] \in Buffer'
      BY DEF Buffer
    <3>1. i - 1 \in 1..Len(jobs') /\ jobs'[i - 1] = jobs[i]
      BY <2>2
    <3>2. QED  BY <3>1 DEF Buffer
  <2>4. QED  BY <2>2, <2>3 DEF PopJob, tasks, Failures
<1>2. thread \in [Threads -> Calls] /\ thread[t] \in Calls
  BY CallType
<1>3. /\ \A u \in Threads \ {t} : thread'[u] = thread[u]
      /\ thread'[t].pc = "get" /\ thread'[t].copy = jobs[1]
      /\ thread'[t].count = thread[t].count - 1
      /\ thread'[t].error = thread[t].error
      /\ thread'[t].before = thread[t].before /\ thread'[t].isFlush = thread[t].isFlush
  BY <1>2 DEF PopJob
<1>4. TypeOK'
  <2>1. InUse' = InUse
    BY <1>1 DEF InUse
  <2>2. thread' \in [Threads -> Calls]
    <3>1. /\ jobs[1] \in 0..MaxCopies /\ Head(jobs) = jobs[1]
          /\ thread[t].count - 1 \in 0..MaxCopies
      <4>1. jobs \in Seq(Copies) /\ jobs # <<>>
        BY DEF PopJob, TypeOK
      <4>2. Head(jobs) = jobs[1] /\ jobs[1] \in 0..MaxCopies
        BY <4>1 DEF Copies
      <4>3. thread[t].count \in 0..MaxCopies
        BY <1>2 DEF Calls
      <4>4. QED  BY <4>2, <4>3, <1>1
    <3>2. [thread[t] EXCEPT !.pc = "get", !.copy = jobs[1], !.count = @ - 1] \in Calls
      BY <3>1, <1>2 DEF Calls
    <3>3. thread' = [thread EXCEPT ![t] =
                       [thread[t] EXCEPT !.pc = "get", !.copy = jobs[1], !.count = @ - 1]]
      BY <3>1 DEF PopJob
    <3>4. QED  BY <3>2, <3>3, CallMoves
  <2>3. jobs' \in Seq(Copies)
    BY DEF PopJob, TypeOK
  <2>4. QED  BY <2>1, <2>2, <2>3 DEF PopJob, tasks, TypeOK, Calls
<1>5. HeldCopies'
  <2>1. \A u \in Threads :
          /\ Holds(u)' => u # t /\ Holds(u) /\ thread'[u] = thread[u]
          /\ At(u, "enqueue")' => u # t /\ At(u, "enqueue") /\ thread'[u] = thread[u]
    BY <1>3 DEF Holds, At
  <2>2. UNCHANGED <<task, started>>
    BY <1>1
  <2>3. QED  BY <2>1, <2>2 DEF HeldCopies
<1>6. JobsSent'
  <2>1. \A i \in 1..Len(jobs') : i + 1 \in 1..Len(jobs) /\ jobs'[i] = jobs[i + 1]
    BY <1>1
  <2>2. \A i, j \in 1..Len(jobs') : jobs'[i] = jobs'[j] => i = j
    BY SMTT(30), <2>1 DEF JobsSent
  <2>3. \A i \in 1..Len(jobs') : task'[jobs'[i]] \notin {"none", "unprepared", "prepared"}
    BY SMTT(30), <1>1 DEF JobsSent
  <2>4. QED  BY <2>2, <2>3 DEF JobsSent
<1>7. GetsCopy'
  BY <1>1, <1>3 DEF GetsCopy, At
<1>8. OneDrains'
  <2>1. \A u \in Threads : /\ Drains(u)' => Drains(u)
                           /\ thread'[u].error = thread[u].error
                           /\ At(u, "drained") => At(u, "drained")'
    BY <1>1, <1>3 DEF Drains, At
  <2>2. flushing' = flushing
    BY <1>1
  <2>3. QED  BY <2>1, <2>2 DEF OneDrains
<1>9. CopiesSomewhere'
  <2> SUFFICES ASSUME NEW d \in 1..started' PROVE Somewhere(d)'
    BY DEF CopiesSomewhere
  <2>1. ASSUME NEW u \in Threads, Holds(u), thread[u].copy = d PROVE Somewhere(d)'
    BY <2>1, <1>1, <1>3 DEF Somewhere, Holds, At
  <2>2. ASSUME d \in Buffer PROVE Somewhere(d)'
    BY <2>2, <1>1, <1>3 DEF Somewhere, At
  <2>3. ASSUME NEW u \in Threads, At(u, "get"), thread[u].copy = d PROVE Somewhere(d)'
    BY <2>3, <1>1, <1>3 DEF Somewhere, At
  <2>4. ASSUME NEW u \in Threads, At(u, "drained"), thread[u].error = d PROVE Somewhere(d)'
    BY <2>4, <1>1, <1>3 DEF Somewhere, At
  <2>5. ASSUME d \in 1..started, Accounted(d) PROVE Somewhere(d)'
    BY <2>5, <1>1 DEF Somewhere, Accounted
  <2>6. QED  BY <2>1, <2>2, <2>3, <2>4, <2>5, <1>1 DEF CopiesSomewhere, Somewhere
<1>10. BeforeFlush'
  <2> SUFFICES ASSUME NEW w \in Threads PROVE BeforeOf(w)'
    BY DEF BeforeFlush
  <2>1. BeforeOf(w)
    BY DEF BeforeFlush
  <2>2. thread'[w].before \subseteq 1..started' /\ (Holds(w)' => thread'[w].before = {})
    BY <2>1, <1>1, <1>3 DEF BeforeOf, Holds
  <2>3. \A u \in Threads : Holds(u)' => thread'[u].copy \notin thread'[w].before
    BY <2>1, <1>3 DEF BeforeOf, Holds
  <2>4. ASSUME thread'[w].pc \in {"pop", "get"},
               NEW i \in 1..Len(jobs'), jobs'[i] \in thread'[w].before
        PROVE  i <= thread'[w].count
    <3>1. w = t
      BY <2>4, <1>1, <1>3 DEF OneDrains, Drains, At
    <3>2. i + 1 \in 1..Len(jobs) /\ jobs[i + 1] \in thread[t].before
      BY <3>1, <2>4, <1>1, <1>3
    <3>3. i + 1 <= thread[t].count
      BY <3>1, <3>2, <2>1, <1>1 DEF BeforeOf, At
    <3>4. QED  BY <3>1, <3>3, <1>0, <1>1, <1>3
  <2>5. At(w, "drained")' /\ thread'[w].error = 0 =>
          \A i \in 1..Len(jobs') : jobs'[i] \notin thread'[w].before
    BY SMTT(30), <2>1, <1>1, <1>3 DEF BeforeOf, At
  <2>6. At(w, "uploads")' => \A d \in thread'[w].before : Accounted(d)'
    BY <2>1, <1>1, <1>3 DEF BeforeOf, At, Accounted
  <2>7. QED  BY <2>2, <2>3, <2>4, <2>5, <2>6 DEF BeforeOf
<1>11. NotStarted' /\ PoolQueued' /\ UploadsKnown'
  BY <1>1 DEF NotStarted, PoolQueued, UploadsKnown
<1>12. QED  BY <1>4, <1>5, <1>6, <1>7, <1>8, <1>9, <1>10, <1>11 DEF FlushInv, TasksInv

\* The future is ready.
LEMMA InvGetResult ==
  ASSUME FlushInv, NEW t \in Threads, GetResult(t)
  PROVE  FlushInv'
<1> TypeOK /\ HeldCopies /\ NotStarted /\ PoolQueued /\ JobsSent /\ GetsCopy
  BY DEF FlushInv, TasksInv
<1> OneDrains /\ CopiesSomewhere /\ UploadsKnown /\ BeforeFlush
  BY DEF FlushInv
<1>0. /\ \A i \in 1..Len(jobs) : jobs[i] \in Copies
      /\ \A i \in 1..Len(pool) : pool[i] \in Copies
      /\ \A i \in 1..Len(uploadErrors) : uploadErrors[i] \in Copies
      /\ Len(jobs) \in Nat /\ Len(pool) \in Nat /\ Len(uploadErrors) \in Nat
      /\ started \in Nat /\ 1..started \subseteq Copies
      /\ \A u \in Threads : /\ thread[u].before \subseteq Copies
                            /\ {thread[u].copy, thread[u].error, thread[u].count} \subseteq Nat
  BY Ranges
<1>1. /\ At(t, "get")
      /\ Failures' = Failures
      /\ Buffer' = Buffer
      /\ UNCHANGED <<jobs, flushing, pool, task, upload, uploadErrors, reported, swallowed, started>>
  BY DEF GetResult, tasks, Failures, Buffer
<1>2. thread \in [Threads -> Calls] /\ thread[t] \in Calls
  BY CallType
<1>3. /\ \A u \in Threads \ {t} : thread'[u] = thread[u]
      /\ \/ /\ task[thread[t].copy] = "failed"
            /\ thread'[t].pc = "drained" /\ thread'[t].error = thread[t].copy
         \/ /\ task[thread[t].copy] \in {"copied", "skipped"}
            /\ thread'[t].pc = "pop" /\ thread'[t].error = thread[t].error
      /\ thread'[t].before = thread[t].before /\ thread'[t].isFlush = thread[t].isFlush
      /\ thread'[t].count = thread[t].count
  BY <1>2 DEF GetResult, Goto, Idle, Calls
<1>4. TypeOK'
  <2>1. InUse' = InUse
    BY <1>1 DEF InUse
  <2>2. thread' \in [Threads -> Calls]
    BY <1>2 DEF GetResult, Goto, Calls
  <2>3. QED  BY <2>1, <2>2 DEF GetResult, tasks, TypeOK, Calls
<1>5. HeldCopies'
  BY <1>1, <1>3 DEF HeldCopies, Holds, At
<1>6. GetsCopy'
  BY <1>3 DEF GetsCopy, At
<1>7. OneDrains'
  BY <1>1, <1>3 DEF OneDrains, Drains, At
<1>8. CopiesSomewhere'
  <2> SUFFICES ASSUME NEW d \in 1..started' PROVE Somewhere(d)'
    BY DEF CopiesSomewhere
  <2>1. ASSUME NEW u \in Threads, Holds(u), thread[u].copy = d PROVE Somewhere(d)'
    BY <2>1, <1>1, <1>3 DEF Somewhere, Holds, At
  <2>2. ASSUME d \in Buffer PROVE Somewhere(d)'
    BY <2>2, <1>1 DEF Somewhere
  <2>3. ASSUME NEW u \in Threads, At(u, "get"), thread[u].copy = d PROVE Somewhere(d)'
    BY <2>3, <1>1, <1>3 DEF Somewhere, At, Accounted
  <2>4. ASSUME NEW u \in Threads, At(u, "drained"), thread[u].error = d PROVE Somewhere(d)'
    BY <2>4, <1>1, <1>3 DEF Somewhere, At
  <2>5. ASSUME d \in 1..started, Accounted(d) PROVE Somewhere(d)'
    BY <2>5, <1>1 DEF Somewhere, Accounted
  <2>6. QED  BY <2>1, <2>3, <2>4, <2>5, <1>1 DEF CopiesSomewhere, Somewhere
<1>9. BeforeFlush'
  <2> SUFFICES ASSUME NEW w \in Threads PROVE BeforeOf(w)'
    BY DEF BeforeFlush
  <2>1. BeforeOf(w)
    BY DEF BeforeFlush
  <2>2. thread'[w].before \subseteq 1..started' /\ (Holds(w)' => thread'[w].before = {})
    BY <2>1, <1>1, <1>3 DEF BeforeOf, Holds
  <2>3. \A u \in Threads : Holds(u)' => thread'[u].copy \notin thread'[w].before
    BY <2>1, <1>3 DEF BeforeOf, Holds
  <2>4. thread'[w].pc \in {"pop", "get"} =>
          \A i \in 1..Len(jobs') : jobs'[i] \in thread'[w].before => i <= thread'[w].count
    BY <2>1, <1>1, <1>3 DEF BeforeOf, At
  <2>5. At(w, "drained")' /\ thread'[w].error = 0 =>
          \A i \in 1..Len(jobs') : jobs'[i] \notin thread'[w].before
    BY <2>1, <1>1, <1>3 DEF BeforeOf, At, GetsCopy, Copies
  <2>6. At(w, "uploads")' => \A d \in thread'[w].before : Accounted(d)'
    BY <2>1, <1>1, <1>3 DEF BeforeOf, At, Accounted
  <2>7. QED  BY <2>2, <2>3, <2>4, <2>5, <2>6 DEF BeforeOf
<1>10. NotStarted' /\ PoolQueued' /\ JobsSent' /\ UploadsKnown'
  BY <1>1 DEF NotStarted, PoolQueued, JobsSent, UploadsKnown
<1>11. QED  BY <1>4, <1>5, <1>6, <1>7, <1>8, <1>9, <1>10 DEF FlushInv, TasksInv

\* No future is left to take.
LEMMA InvDrainEnds ==
  ASSUME FlushInv, NEW t \in Threads, DrainEnds(t)
  PROVE  FlushInv'
<1> TypeOK /\ HeldCopies /\ NotStarted /\ PoolQueued /\ JobsSent /\ GetsCopy
  BY DEF FlushInv, TasksInv
<1> OneDrains /\ CopiesSomewhere /\ UploadsKnown /\ BeforeFlush
  BY DEF FlushInv
<1>1. /\ At(t, "pop")
      /\ thread[t].count = 0 \/ jobs = <<>>
      /\ Failures' = Failures
      /\ Buffer' = Buffer
      /\ UNCHANGED <<jobs, flushing, pool, task, upload, uploadErrors, reported, swallowed, started>>
  BY DEF DrainEnds, tasks, Failures, Buffer
<1>2. thread \in [Threads -> Calls] /\ thread[t] \in Calls
  BY CallType
<1>3. /\ \A u \in Threads \ {t} : thread'[u] = thread[u]
      /\ thread'[t].pc = "drained"
      /\ thread'[t].error = thread[t].error
      /\ thread'[t].before = thread[t].before /\ thread'[t].isFlush = thread[t].isFlush
  BY <1>2 DEF DrainEnds, Goto
<1>4. TypeOK'
  <2>1. InUse' = InUse
    BY <1>1 DEF InUse
  <2>2. thread' \in [Threads -> Calls]
    BY <1>2 DEF DrainEnds, Goto, Calls
  <2>3. QED  BY <2>1, <2>2 DEF DrainEnds, tasks, TypeOK, Calls
<1>5. HeldCopies'
  BY <1>1, <1>3 DEF HeldCopies, Holds, At
<1>6. GetsCopy'
  BY <1>3 DEF GetsCopy, At
<1>7. OneDrains'
  BY <1>1, <1>3 DEF OneDrains, Drains, At
<1>8. CopiesSomewhere'
  <2> SUFFICES ASSUME NEW d \in 1..started' PROVE Somewhere(d)'
    BY DEF CopiesSomewhere
  <2>1. ASSUME NEW u \in Threads, Holds(u), thread[u].copy = d PROVE Somewhere(d)'
    BY <2>1, <1>1, <1>3 DEF Somewhere, Holds, At
  <2>2. ASSUME d \in Buffer PROVE Somewhere(d)'
    BY <2>2, <1>1 DEF Somewhere
  <2>3. ASSUME NEW u \in Threads, At(u, "get"), thread[u].copy = d PROVE Somewhere(d)'
    BY <2>3, <1>1, <1>3 DEF Somewhere, At
  <2>4. ASSUME NEW u \in Threads, At(u, "drained"), thread[u].error = d PROVE Somewhere(d)'
    BY <2>4, <1>3 DEF Somewhere, At
  <2>5. ASSUME d \in 1..started, Accounted(d) PROVE Somewhere(d)'
    BY <2>5, <1>1 DEF Somewhere, Accounted
  <2>6. QED  BY <2>1, <2>3, <2>4, <2>5, <1>1 DEF CopiesSomewhere, Somewhere
<1>9. BeforeFlush'
  BY SMTT(30), <1>1, <1>3 DEF BeforeFlush, BeforeOf, Holds, Accounted, At
<1>10. NotStarted' /\ PoolQueued' /\ JobsSent' /\ UploadsKnown'
  BY <1>1 DEF NotStarted, PoolQueued, JobsSent, UploadsKnown
<1>11. QED  BY <1>4, <1>5, <1>6, <1>7, <1>8, <1>9, <1>10 DEF FlushInv, TasksInv

\* The buffer is given back.
LEMMA InvDrained ==
  ASSUME FlushInv, NEW t \in Threads, Drained(t)
  PROVE  FlushInv'
<1> TypeOK /\ HeldCopies /\ NotStarted /\ PoolQueued /\ JobsSent /\ GetsCopy
  BY DEF FlushInv, TasksInv
<1> OneDrains /\ CopiesSomewhere /\ UploadsKnown /\ BeforeFlush
  BY DEF FlushInv
<1>0. /\ \A i \in 1..Len(jobs) : jobs[i] \in Copies
      /\ \A i \in 1..Len(pool) : pool[i] \in Copies
      /\ \A i \in 1..Len(uploadErrors) : uploadErrors[i] \in Copies
      /\ Len(jobs) \in Nat /\ Len(pool) \in Nat /\ Len(uploadErrors) \in Nat
      /\ started \in Nat /\ 1..started \subseteq Copies
      /\ \A u \in Threads : /\ thread[u].before \subseteq Copies
                            /\ {thread[u].copy, thread[u].error, thread[u].count} \subseteq Nat
  BY Ranges
<1>1. /\ At(t, "drained")
      /\ ~flushing'
      /\ reported \subseteq reported'
      /\ swallowed \subseteq swallowed'
      /\ thread[t].error # 0 => thread[t].error \in reported' \cup swallowed'
      /\ Failures' = Failures
      /\ Buffer' = Buffer
      /\ UNCHANGED <<jobs, pool, task, upload, uploadErrors, started>>
  BY DEF Drained, GiveBack, Errors, tasks, Failures, Buffer
<1>2. thread \in [Threads -> Calls] /\ thread[t] \in Calls
  BY CallType
<1>3. /\ \A u \in Threads \ {t} : thread'[u] = thread[u]
      /\ \/ thread'[t].pc = "idle" /\ thread'[t].error = 0 /\ thread'[t].before = {}
         \/ /\ thread[t].isFlush /\ thread[t].error = 0
            /\ thread'[t].pc = "uploads" /\ thread'[t].error = 0
            /\ thread'[t].before = thread[t].before /\ thread'[t].isFlush = thread[t].isFlush
  BY <1>2 DEF Drained, Errors, Goto, Return, Idle, Calls
<1>4. TypeOK'
  <2>1. InUse' = InUse
    BY <1>1 DEF InUse
  <2>2. thread' \in [Threads -> Calls]
    <3>1. \/ thread' = [thread EXCEPT ![t] = Idle]
          \/ thread' = [thread EXCEPT ![t] = [thread[t] EXCEPT !.pc = "uploads"]]
      BY DEF Drained, Goto, Return
    <3>2. QED  BY <3>1, CallMoves, CallTypes
  <2>3. reported' \in SUBSET Copies /\ swallowed' \in SUBSET Copies
    BY DEF Drained, Errors, TypeOK, Copies
  <2>4. QED  BY <2>1, <2>2, <2>3 DEF Drained, tasks, TypeOK, Calls
<1>5. HeldCopies'
  BY <1>1, <1>3 DEF HeldCopies, Holds, At
<1>6. GetsCopy'
  BY <1>3 DEF GetsCopy, At
<1>7. OneDrains'
  BY <1>1, <1>3 DEF OneDrains, Drains, At
<1>8. CopiesSomewhere'
  <2> SUFFICES ASSUME NEW d \in 1..started' PROVE Somewhere(d)'
    BY DEF CopiesSomewhere
  <2>1. ASSUME NEW u \in Threads, Holds(u), thread[u].copy = d PROVE Somewhere(d)'
    BY <2>1, <1>1, <1>3 DEF Somewhere, Holds, At
  <2>2. ASSUME d \in Buffer PROVE Somewhere(d)'
    BY <2>2, <1>1 DEF Somewhere
  <2>3. ASSUME NEW u \in Threads, At(u, "get"), thread[u].copy = d PROVE Somewhere(d)'
    BY <2>3, <1>1, <1>3 DEF Somewhere, At
  <2>4. ASSUME NEW u \in Threads, At(u, "drained"), thread[u].error = d PROVE Somewhere(d)'
    BY <2>4, <1>1, <1>3 DEF Somewhere, At, Accounted
  <2>5. ASSUME d \in 1..started, Accounted(d) PROVE Somewhere(d)'
    BY <2>5, <1>1 DEF Somewhere, Accounted
  <2>6. QED  BY <2>1, <2>3, <2>4, <2>5, <1>1 DEF CopiesSomewhere, Somewhere
<1>9. UploadsKnown'
  BY <1>1 DEF UploadsKnown
<1>10. BeforeFlush'
  <2> SUFFICES ASSUME NEW w \in Threads PROVE BeforeOf(w)'
    BY DEF BeforeFlush
  <2>1. BeforeOf(w)
    BY DEF BeforeFlush
  <2>2. thread'[w].before \subseteq 1..started' /\ (Holds(w)' => thread'[w].before = {})
    BY <2>1, <1>1, <1>3 DEF BeforeOf, Holds
  <2>3. \A u \in Threads : Holds(u)' => thread'[u].copy \notin thread'[w].before
    BY <2>1, <1>3 DEF BeforeOf, Holds
  <2>4. thread'[w].pc \in {"pop", "get"} =>
          \A i \in 1..Len(jobs') : jobs'[i] \in thread'[w].before => i <= thread'[w].count
    BY <2>1, <1>1, <1>3 DEF BeforeOf
  <2>5. At(w, "drained")' /\ thread'[w].error = 0 =>
          \A i \in 1..Len(jobs') : jobs'[i] \notin thread'[w].before
    BY <2>1, <1>1, <1>3 DEF BeforeOf, At
  <2>6. ASSUME At(w, "uploads")', NEW d \in thread'[w].before PROVE Accounted(d)'
    <3>1. CASE w # t
      BY <3>1, <2>1, <2>6, <1>1, <1>3 DEF BeforeOf, At, Accounted
    <3>2. CASE w = t
      <4>1. /\ thread[t].error = 0 /\ d \in thread[t].before /\ d \in 1..started
            /\ ~\E u \in Threads : Holds(u) /\ thread[u].copy = d
            /\ d \notin Buffer
        BY <3>2, <2>1, <1>1, <1>3 DEF BeforeOf, Buffer
      <4>2. \A u \in Threads : ~At(u, "get") /\ (At(u, "drained") => u = t)
        BY <1>1 DEF OneDrains, Drains, At
      <4>3. Accounted(d)
        BY <4>1, <4>2 DEF CopiesSomewhere, Somewhere
      <4>4. QED  BY <4>3, <1>1 DEF Accounted
    <3>3. QED  BY <3>1, <3>2
  <2>7. QED  BY <2>2, <2>3, <2>4, <2>5, <2>6 DEF BeforeOf
<1>11. NotStarted' /\ PoolQueued' /\ JobsSent'
  BY <1>1 DEF NotStarted, PoolQueued, JobsSent
<1>12. QED  BY <1>4, <1>5, <1>6, <1>7, <1>8, <1>9, <1>10, <1>11 DEF FlushInv, TasksInv

\* A Flush begins: the copies before it are no longer held.
LEMMA InvBeginFlush ==
  ASSUME FlushInv, NEW t \in Threads, BeginFlush(t)
  PROVE  FlushInv'
<1> TypeOK /\ HeldCopies /\ NotStarted /\ PoolQueued /\ JobsSent /\ GetsCopy
  BY DEF FlushInv, TasksInv
<1> OneDrains /\ CopiesSomewhere /\ UploadsKnown /\ BeforeFlush
  BY DEF FlushInv
<1>1. /\ At(t, "idle")
      /\ Failures' = Failures
      /\ Buffer' = Buffer
      /\ UNCHANGED <<jobs, flushing, pool, task, upload, uploadErrors, reported, swallowed, started>>
  BY DEF BeginFlush, tasks, Failures, Buffer
<1>2. thread \in [Threads -> Calls] /\ thread[t] \in Calls
  BY CallType
<1>3. /\ \A u \in Threads \ {t} : thread'[u] = thread[u]
      /\ thread'[t].pc = "flush" /\ thread'[t].error = 0 /\ thread'[t].isFlush = TRUE
      /\ thread'[t].before = {c \in 1..started :
            ~\E u \in Threads : thread[u].pc \in {"prepared", "enqueue"} /\ thread[u].copy = c}
  BY <1>2 DEF BeginFlush, Idle
<1>4. TypeOK'
  <2>1. InUse' = InUse
    BY <1>1 DEF InUse
  <2>2. thread' \in [Threads -> Calls]
    <3>1. thread'[t].before \subseteq Copies
      BY <1>3, Ranges
    <3>2. thread'[t] \in Calls
      <4>1. thread'[t] = [Idle EXCEPT !.pc = "flush", !.isFlush = TRUE, !.before = thread'[t].before]
        BY <1>2 DEF BeginFlush
      <4>2. Idle \in Calls
        BY CallTypes
      <4>3. QED  BY <3>1, <4>1, <4>2 DEF Calls
    <3>3. thread' = [thread EXCEPT ![t] = thread'[t]]
      BY DEF BeginFlush
    <3>4. QED  BY <3>2, <3>3, CallMoves
  <2>3. /\ flushes' \in 0..MaxFlushes
        /\ UNCHANGED <<mutex, jobs, flushing, tasks, uploadErrors, reported, swallowed, references,
                       started, closing>>
    BY SMTT(30) DEF BeginFlush, TypeOK
  <2>4. QED  BY <2>1, <2>2, <2>3 DEF tasks, TypeOK, Calls
<1>5. HeldCopies'
  BY <1>1, <1>3 DEF HeldCopies, Holds, At
<1>6. GetsCopy'
  BY <1>3 DEF GetsCopy, At
<1>7. OneDrains'
  BY <1>1, <1>3 DEF OneDrains, Drains, At
<1>8. CopiesSomewhere'
  BY <1>1, <1>3 DEF CopiesSomewhere, Somewhere, Holds, Accounted, At
<1>9. BeforeFlush'
  BY SMTT(30), <1>1, <1>3 DEF BeforeFlush, BeforeOf, Holds, Accounted, At
<1>10. NotStarted' /\ PoolQueued' /\ JobsSent' /\ UploadsKnown'
  BY <1>1 DEF NotStarted, PoolQueued, JobsSent, UploadsKnown
<1>11. QED  BY <1>4, <1>5, <1>6, <1>7, <1>8, <1>9, <1>10 DEF FlushInv, TasksInv

\* Flush is going to take every future in the buffer.
LEMMA InvFlushCopyPageJobs ==
  ASSUME FlushInv, NEW t \in Threads, FlushCopyPageJobs(t)
  PROVE  FlushInv'
<1> TypeOK /\ HeldCopies /\ NotStarted /\ PoolQueued /\ JobsSent /\ GetsCopy
  BY DEF FlushInv, TasksInv
<1> OneDrains /\ CopiesSomewhere /\ UploadsKnown /\ BeforeFlush
  BY DEF FlushInv
<1>0. /\ \A i \in 1..Len(jobs) : jobs[i] \in Copies
      /\ \A i \in 1..Len(pool) : pool[i] \in Copies
      /\ \A i \in 1..Len(uploadErrors) : uploadErrors[i] \in Copies
      /\ Len(jobs) \in Nat /\ Len(pool) \in Nat /\ Len(uploadErrors) \in Nat
      /\ started \in Nat /\ 1..started \subseteq Copies
      /\ \A u \in Threads : /\ thread[u].before \subseteq Copies
                            /\ {thread[u].copy, thread[u].error, thread[u].count} \subseteq Nat
  BY Ranges
<1>1. /\ At(t, "flush")
      /\ ~flushing /\ flushing'
      /\ Failures' = Failures
      /\ Buffer' = Buffer
      /\ UNCHANGED <<jobs, pool, task, upload, uploadErrors, reported, swallowed, started>>
  BY DEF FlushCopyPageJobs, MayDrain, StartDraining, tasks, Failures, Buffer
<1>2. thread \in [Threads -> Calls] /\ thread[t] \in Calls
  BY CallType
<1>3. /\ \A u \in Threads \ {t} : thread'[u] = thread[u]
      /\ thread'[t].pc = "pop" /\ thread'[t].count = Len(jobs)
      /\ thread'[t].error = thread[t].error
      /\ thread'[t].before = thread[t].before /\ thread'[t].isFlush = thread[t].isFlush
  BY <1>2 DEF FlushCopyPageJobs, StartDraining
<1>4. TypeOK'
  <2>1. InUse' = InUse
    BY <1>1 DEF InUse
  <2>2. thread' \in [Threads -> Calls]
    <3>1. Len(jobs) \in 0..MaxCopies
      BY LenBounded, Ranges DEF JobsSent, TypeOK
    <3>2. QED  BY <3>1, <1>2 DEF FlushCopyPageJobs, StartDraining, Calls
  <2>3. QED  BY <2>1, <2>2 DEF FlushCopyPageJobs, StartDraining, tasks, TypeOK, Calls
<1>5. HeldCopies'
  BY <1>1, <1>3 DEF HeldCopies, Holds, At
<1>6. GetsCopy'
  BY <1>3 DEF GetsCopy, At
<1>7. OneDrains'
  BY <1>1, <1>3 DEF OneDrains, Drains, At
<1>8. CopiesSomewhere'
  <2> SUFFICES ASSUME NEW d \in 1..started' PROVE Somewhere(d)'
    BY DEF CopiesSomewhere
  <2>1. ASSUME NEW u \in Threads, Holds(u), thread[u].copy = d PROVE Somewhere(d)'
    BY <2>1, <1>1, <1>3 DEF Somewhere, Holds, At
  <2>2. ASSUME d \in Buffer PROVE Somewhere(d)'
    BY <2>2, <1>1 DEF Somewhere
  <2>3. ASSUME NEW u \in Threads, At(u, "get"), thread[u].copy = d PROVE Somewhere(d)'
    BY <2>3, <1>1, <1>3 DEF Somewhere, At
  <2>4. ASSUME NEW u \in Threads, At(u, "drained"), thread[u].error = d PROVE Somewhere(d)'
    BY <2>4, <1>1, <1>3 DEF Somewhere, At
  <2>5. ASSUME d \in 1..started, Accounted(d) PROVE Somewhere(d)'
    BY <2>5, <1>1 DEF Somewhere, Accounted
  <2>6. QED  BY <2>1, <2>3, <2>4, <2>5, <1>1 DEF CopiesSomewhere, Somewhere
<1>9. BeforeFlush'
  <2> SUFFICES ASSUME NEW w \in Threads PROVE BeforeOf(w)'
    BY DEF BeforeFlush
  <2>1. BeforeOf(w)
    BY DEF BeforeFlush
  <2>2. thread'[w].before \subseteq 1..started' /\ (Holds(w)' => thread'[w].before = {})
    BY <2>1, <1>1, <1>3 DEF BeforeOf, Holds
  <2>3. \A u \in Threads : Holds(u)' => thread'[u].copy \notin thread'[w].before
    BY <2>1, <1>3 DEF BeforeOf, Holds
  <2>4. thread'[w].pc \in {"pop", "get"} =>
          \A i \in 1..Len(jobs') : jobs'[i] \in thread'[w].before => i <= thread'[w].count
    BY <2>1, <1>1, <1>3 DEF BeforeOf
  <2>5. At(w, "drained")' /\ thread'[w].error = 0 =>
          \A i \in 1..Len(jobs') : jobs'[i] \notin thread'[w].before
    BY <2>1, <1>1, <1>3 DEF BeforeOf, At
  <2>6. At(w, "uploads")' => \A d \in thread'[w].before : Accounted(d)'
    BY <2>1, <1>1, <1>3 DEF BeforeOf, At, Accounted
  <2>7. QED  BY <2>2, <2>3, <2>4, <2>5, <2>6 DEF BeforeOf
<1>10. NotStarted' /\ PoolQueued' /\ JobsSent' /\ UploadsKnown'
  BY <1>1 DEF NotStarted, PoolQueued, JobsSent, UploadsKnown
<1>11. QED  BY <1>4, <1>5, <1>6, <1>7, <1>8, <1>9, <1>10 DEF FlushInv, TasksInv

\* Flush returns an error, if there is one.
LEMMA InvUploadsComplete ==
  ASSUME FlushInv, NEW t \in Threads, UploadsComplete(t)
  PROVE  FlushInv'
<1> TypeOK /\ HeldCopies /\ NotStarted /\ PoolQueued /\ JobsSent /\ GetsCopy
  BY DEF FlushInv, TasksInv
<1> OneDrains /\ CopiesSomewhere /\ UploadsKnown /\ BeforeFlush
  BY DEF FlushInv
<1>0. /\ \A i \in 1..Len(jobs) : jobs[i] \in Copies
      /\ \A i \in 1..Len(pool) : pool[i] \in Copies
      /\ \A i \in 1..Len(uploadErrors) : uploadErrors[i] \in Copies
      /\ Len(jobs) \in Nat /\ Len(pool) \in Nat /\ Len(uploadErrors) \in Nat
      /\ started \in Nat /\ 1..started \subseteq Copies
      /\ \A u \in Threads : /\ thread[u].before \subseteq Copies
                            /\ {thread[u].copy, thread[u].error, thread[u].count} \subseteq Nat
  BY Ranges
<1>1. /\ At(t, "uploads")
      /\ reported \subseteq reported' /\ reported \cup Failures \subseteq reported' \cup Failures'
      /\ Buffer' = Buffer
      /\ UNCHANGED <<jobs, flushing, pool, task, upload, swallowed, started>>
  <2>1. uploadErrors \in Seq(Copies)
    BY DEF TypeOK
  <2>2. CASE uploadErrors = <<>>
    BY <2>2 DEF UploadsComplete, tasks, Buffer, Failures
  <2>3. CASE uploadErrors # <<>>
    <3>1. /\ uploadErrors' = Tail(uploadErrors)
          /\ reported' = reported \cup {uploadErrors[1]}
      BY <2>3 DEF UploadsComplete
    <3>2. Failures \subseteq Failures' \cup {uploadErrors[1]}
      <4> SUFFICES ASSUME NEW i \in 1..Len(uploadErrors), i # 1
                   PROVE  uploadErrors[i] \in Failures'
        BY DEF Failures
      <4>1. i - 1 \in 1..Len(uploadErrors') /\ uploadErrors'[i - 1] = uploadErrors[i]
        BY <3>1
      <4>2. QED  BY <4>1 DEF Failures
    <3>3. UNCHANGED <<jobs, flushing, pool, task, upload, swallowed, started>> /\ At(t, "uploads")
      BY DEF UploadsComplete, tasks
    <3>4. Buffer' = Buffer
      BY <3>3 DEF Buffer
    <3>5. QED  BY <3>1, <3>2, <3>3, <3>4
  <2>4. QED  BY <2>2, <2>3
<1>2. thread \in [Threads -> Calls] /\ thread[t] \in Calls
  BY CallType
<1>3. /\ \A u \in Threads \ {t} : thread'[u] = thread[u]
      /\ thread'[t].pc = "idle" /\ thread'[t].error = 0 /\ thread'[t].before = {}
  BY <1>2 DEF UploadsComplete, Return, Idle
<1>4. TypeOK'
  <2>1. InUse' = InUse
    BY <1>1 DEF InUse
  <2>2. thread' \in [Threads -> Calls]
    BY <1>2 DEF UploadsComplete, Return, Idle, Calls
  <2>3. uploadErrors' \in Seq(Copies) /\ reported' \in SUBSET Copies
    <3>1. uploadErrors \in Seq(Copies) /\ reported \in SUBSET Copies
      BY DEF TypeOK
    <3>2. CASE uploadErrors = <<>>
      BY <3>1, <3>2 DEF UploadsComplete
    <3>3. CASE uploadErrors # <<>>
      <4>1. /\ Tail(uploadErrors) \in Seq(Copies)
            /\ Head(uploadErrors) \in Copies
        BY <3>1, <3>3
      <4>2. /\ uploadErrors' = Tail(uploadErrors)
            /\ reported' = reported \cup {Head(uploadErrors)}
        BY <3>3 DEF UploadsComplete
      <4>3. QED  BY <3>1, <4>1, <4>2
    <3>4. QED  BY <3>2, <3>3
  <2>4. QED  BY <2>1, <2>2, <2>3 DEF UploadsComplete, tasks, TypeOK, Calls
<1>5. HeldCopies'
  BY <1>1, <1>3 DEF HeldCopies, Holds, At
<1>6. GetsCopy'
  BY <1>3 DEF GetsCopy, At
<1>7. OneDrains'
  BY <1>1, <1>3 DEF OneDrains, Drains, At
<1>8. CopiesSomewhere'
  BY <1>1, <1>3 DEF CopiesSomewhere, Somewhere, Holds, Accounted, At
<1>9. UploadsKnown'
  BY <1>1 DEF UploadsKnown
<1>10. BeforeFlush'
  <2> SUFFICES ASSUME NEW w \in Threads PROVE BeforeOf(w)'
    BY DEF BeforeFlush
  <2>1. BeforeOf(w)
    BY DEF BeforeFlush
  <2>2. thread'[w].before \subseteq 1..started' /\ (Holds(w)' => thread'[w].before = {})
    BY <2>1, <1>1, <1>3 DEF BeforeOf, Holds
  <2>3. \A u \in Threads : Holds(u)' => thread'[u].copy \notin thread'[w].before
    BY <2>1, <1>3 DEF BeforeOf, Holds
  <2>4. thread'[w].pc \in {"pop", "get"} =>
          \A i \in 1..Len(jobs') : jobs'[i] \in thread'[w].before => i <= thread'[w].count
    BY <2>1, <1>1, <1>3 DEF BeforeOf
  <2>5. At(w, "drained")' /\ thread'[w].error = 0 =>
          \A i \in 1..Len(jobs') : jobs'[i] \notin thread'[w].before
    BY <2>1, <1>1, <1>3 DEF BeforeOf, At
  <2>6. At(w, "uploads")' => \A d \in thread'[w].before : Accounted(d)'
    BY <2>1, <1>1, <1>3 DEF BeforeOf, At, Accounted
  <2>7. QED  BY <2>2, <2>3, <2>4, <2>5, <2>6 DEF BeforeOf
<1>11. NotStarted' /\ PoolQueued' /\ JobsSent'
  BY <1>1 DEF NotStarted, PoolQueued, JobsSent
<1>12. QED  BY <1>4, <1>5, <1>6, <1>7, <1>8, <1>9, <1>10, <1>11 DEF FlushInv, TasksInv

\* A thread of the pool takes a task.
LEMMA InvStartTask ==
  ASSUME FlushInv, StartTask
  PROVE  FlushInv'
<1> TypeOK /\ HeldCopies /\ NotStarted /\ PoolQueued /\ JobsSent /\ GetsCopy
  BY DEF FlushInv, TasksInv
<1> OneDrains /\ CopiesSomewhere /\ UploadsKnown /\ BeforeFlush
  BY DEF FlushInv
<1>0. /\ \A i \in 1..Len(jobs) : jobs[i] \in Copies
      /\ \A i \in 1..Len(pool) : pool[i] \in Copies
      /\ \A i \in 1..Len(uploadErrors) : uploadErrors[i] \in Copies
      /\ Len(jobs) \in Nat /\ Len(pool) \in Nat /\ Len(uploadErrors) \in Nat
      /\ started \in Nat /\ 1..started \subseteq Copies
      /\ \A u \in Threads : /\ thread[u].before \subseteq Copies
                            /\ {thread[u].copy, thread[u].error, thread[u].count} \subseteq Nat
  BY Ranges
<1>1. /\ Len(pool) \in Nat \ {0} /\ Len(pool') = Len(pool) - 1
      /\ \A i \in 1..Len(pool') : pool'[i] = pool[i + 1]
      /\ pool[1] \in Copies /\ task[pool[1]] = "queued"
      /\ task'[pool[1]] = "running" /\ \A d \in Copies : d # pool[1] => task'[d] = task[d]
      /\ Failures' = Failures
      /\ Buffer' = Buffer
      /\ UNCHANGED <<thread, jobs, flushing, upload, uploadErrors, reported, swallowed, started>>
  <2>1. pool \in Seq(Copies) /\ pool # <<>> /\ pool' = Tail(pool)
    BY DEF StartTask, TypeOK
  <2>2. /\ Len(pool) \in Nat \ {0} /\ Len(pool') = Len(pool) - 1 /\ Head(pool) = pool[1]
        /\ \A i \in 1..Len(pool') : pool'[i] = pool[i + 1]
        /\ pool[1] \in Copies
    BY <2>1
  <2>3. task[pool[1]] = "queued"
    BY <2>2 DEF PoolQueued
  <2>4. task' = [task EXCEPT ![pool[1]] = "running"]
    BY DEF StartTask
  <2>5. task'[pool[1]] = "running" /\ \A d \in Copies : d # pool[1] => task'[d] = task[d]
    BY <2>2, <2>4 DEF TypeOK
  <2>6. QED  BY <2>2, <2>3, <2>5 DEF StartTask, Failures, Buffer
<1>2. TypeOK'
  <2>1. InUse' = InUse
    BY <1>1 DEF InUse
  <2>3. pool' \in Seq(Copies)
    BY DEF StartTask, TypeOK
  <2>4. QED  BY <2>1 DEF StartTask, TypeOK
<1>3. HeldCopies'
  BY <1>0, <1>1 DEF HeldCopies, Holds, At
<1>4. NotStarted'
  BY <1>1 DEF NotStarted
<1>5. PoolQueued'
  <2>1. \A i \in 1..Len(pool') : i + 1 \in 1..Len(pool) /\ pool'[i] = pool[i + 1]
    BY <1>1
  <2>2. \A i, j \in 1..Len(pool') : pool'[i] = pool'[j] => i = j
    BY <2>1 DEF PoolQueued
  <2>3. ASSUME NEW i \in 1..Len(pool') PROVE pool'[i] # pool[1] /\ pool'[i] \in Copies
    <3>1. 1 \in 1..Len(pool) /\ i + 1 # 1
      BY <1>1
    <3>2. pool[i + 1] # pool[1]
      BY <2>1 DEF PoolQueued
    <3>3. QED  BY <3>2, <2>1, <1>0
  <2>4. \A i \in 1..Len(pool') : task'[pool'[i]] = "queued"
    <3> SUFFICES ASSUME NEW i \in 1..Len(pool') PROVE task'[pool'[i]] = "queued"
      OBVIOUS
    <3>1. task[pool[i + 1]] = "queued"
      BY <2>1 DEF PoolQueued
    <3>2. task'[pool'[i]] = task[pool'[i]]
      BY <2>3, <1>1
    <3>3. QED  BY <3>1, <3>2, <2>1
  <2>5. QED  BY <2>2, <2>4 DEF PoolQueued
<1>6. JobsSent'
  BY <1>0, <1>1 DEF JobsSent
<1>7. CopiesSomewhere'
  <2> SUFFICES ASSUME NEW d \in 1..started' PROVE Somewhere(d)'
    BY DEF CopiesSomewhere
  <2>1. ASSUME NEW u \in Threads, Holds(u), thread[u].copy = d PROVE Somewhere(d)'
    BY <2>1, <1>1 DEF Somewhere, Holds
  <2>2. ASSUME d \in Buffer PROVE Somewhere(d)'
    BY <2>2, <1>1 DEF Somewhere
  <2>3. ASSUME NEW u \in Threads, At(u, "get"), thread[u].copy = d PROVE Somewhere(d)'
    BY <2>3, <1>1 DEF Somewhere, At
  <2>4. ASSUME NEW u \in Threads, At(u, "drained"), thread[u].error = d PROVE Somewhere(d)'
    BY <2>4, <1>1 DEF Somewhere, At
  <2>5. ASSUME d \in 1..started, Accounted(d) PROVE Somewhere(d)'
    BY <2>5, <1>0, <1>1 DEF Somewhere, Accounted
  <2>6. QED  BY <2>1, <2>3, <2>4, <2>5, <1>1 DEF CopiesSomewhere, Somewhere
<1>8. UploadsKnown'
  BY <1>1 DEF UploadsKnown
<1>9. BeforeFlush'
  <2> SUFFICES ASSUME NEW w \in Threads PROVE BeforeOf(w)'
    BY DEF BeforeFlush
  <2>1. BeforeOf(w)
    BY DEF BeforeFlush
  <2>2. thread'[w].before \subseteq 1..started' /\ (Holds(w)' => thread'[w].before = {})
    BY <2>1, <1>1 DEF BeforeOf, Holds
  <2>3. \A u \in Threads : Holds(u)' => thread'[u].copy \notin thread'[w].before
    BY <2>1, <1>1 DEF BeforeOf, Holds
  <2>4. thread'[w].pc \in {"pop", "get"} =>
          \A i \in 1..Len(jobs') : jobs'[i] \in thread'[w].before => i <= thread'[w].count
    BY <2>1, <1>1 DEF BeforeOf
  <2>5. At(w, "drained")' /\ thread'[w].error = 0 =>
          \A i \in 1..Len(jobs') : jobs'[i] \notin thread'[w].before
    BY <2>1, <1>1 DEF BeforeOf, At
  <2>6. At(w, "uploads")' => \A d \in thread'[w].before : Accounted(d)'
    BY <2>1, <1>0, <1>1 DEF BeforeOf, At, Accounted
  <2>7. QED  BY <2>2, <2>3, <2>4, <2>5, <2>6 DEF BeforeOf
<1>10. GetsCopy' /\ OneDrains'
  BY <1>1 DEF GetsCopy, At, OneDrains, Drains
<1>11. QED  BY <1>2, <1>3, <1>4, <1>5, <1>6, <1>7, <1>8, <1>9, <1>10 DEF FlushInv,
     TasksInv

\* The task starts an upload.
LEMMA InvWriteChunk ==
  ASSUME FlushInv, NEW c \in Copies, WriteChunk(c)
  PROVE  FlushInv'
<1> TypeOK /\ HeldCopies /\ NotStarted /\ PoolQueued /\ JobsSent /\ GetsCopy
  BY DEF FlushInv, TasksInv
<1> OneDrains /\ CopiesSomewhere /\ UploadsKnown /\ BeforeFlush
  BY DEF FlushInv
<1>0. /\ \A i \in 1..Len(jobs) : jobs[i] \in Copies
      /\ \A i \in 1..Len(pool) : pool[i] \in Copies
      /\ \A i \in 1..Len(uploadErrors) : uploadErrors[i] \in Copies
      /\ Len(jobs) \in Nat /\ Len(pool) \in Nat /\ Len(uploadErrors) \in Nat
      /\ started \in Nat /\ 1..started \subseteq Copies
      /\ \A u \in Threads : /\ thread[u].before \subseteq Copies
                            /\ {thread[u].copy, thread[u].error, thread[u].count} \subseteq Nat
  BY Ranges
<1>1. /\ task[c] = "running"
      /\ task'[c] = "writing" /\ \A d \in Copies : d # c => task'[d] = task[d]
      /\ upload'[c] = "pending" /\ \A d \in Copies : d # c => upload'[d] = upload[d]
      /\ Failures' = Failures
      /\ Buffer' = Buffer
      /\ UNCHANGED <<thread, jobs, flushing, pool, uploadErrors, reported, swallowed, started>>
  BY DEF WriteChunk, TypeOK, Failures, Buffer
<1>2. TypeOK'
  <2>1. InUse' = InUse
    BY <1>1 DEF InUse
  <2>2. QED  BY <2>1 DEF WriteChunk, TypeOK
<1>3. HeldCopies'
  BY <1>0, <1>1 DEF HeldCopies, Holds, At
<1>4. NotStarted'
  BY <1>1 DEF NotStarted
<1>5. PoolQueued'
  BY SMTT(30), <1>0, <1>1 DEF PoolQueued
<1>6. JobsSent'
  BY <1>0, <1>1 DEF JobsSent
<1>7. CopiesSomewhere'
  BY <1>0, <1>1 DEF CopiesSomewhere, Somewhere, Holds, Accounted, At
<1>8. UploadsKnown'
  BY <1>1 DEF UploadsKnown
<1>9. BeforeFlush'
  <2> SUFFICES ASSUME NEW w \in Threads PROVE BeforeOf(w)'
    BY DEF BeforeFlush
  <2>1. BeforeOf(w)
    BY DEF BeforeFlush
  <2>2. thread'[w].before \subseteq 1..started' /\ (Holds(w)' => thread'[w].before = {})
    BY <2>1, <1>1 DEF BeforeOf, Holds
  <2>3. \A u \in Threads : Holds(u)' => thread'[u].copy \notin thread'[w].before
    BY <2>1, <1>1 DEF BeforeOf, Holds
  <2>4. thread'[w].pc \in {"pop", "get"} =>
          \A i \in 1..Len(jobs') : jobs'[i] \in thread'[w].before => i <= thread'[w].count
    BY <2>1, <1>1 DEF BeforeOf
  <2>5. At(w, "drained")' /\ thread'[w].error = 0 =>
          \A i \in 1..Len(jobs') : jobs'[i] \notin thread'[w].before
    BY <2>1, <1>1 DEF BeforeOf, At
  <2>6. At(w, "uploads")' => \A d \in thread'[w].before : Accounted(d)'
    BY <2>1, <1>0, <1>1 DEF BeforeOf, At, Accounted
  <2>7. QED  BY <2>2, <2>3, <2>4, <2>5, <2>6 DEF BeforeOf
<1>10. GetsCopy' /\ OneDrains'
  BY <1>1 DEF GetsCopy, At, OneDrains, Drains
<1>11. QED  BY <1>2, <1>3, <1>4, <1>5, <1>6, <1>7, <1>8, <1>9, <1>10 DEF FlushInv,
     TasksInv

\* The task returns from the throttle.
LEMMA InvWriteThrottled ==
  ASSUME FlushInv, NEW c \in Copies, WriteThrottled(c)
  PROVE  FlushInv'
<1> TypeOK /\ HeldCopies /\ NotStarted /\ PoolQueued /\ JobsSent /\ GetsCopy
  BY DEF FlushInv, TasksInv
<1> OneDrains /\ CopiesSomewhere /\ UploadsKnown /\ BeforeFlush
  BY DEF FlushInv
<1>0. /\ \A i \in 1..Len(jobs) : jobs[i] \in Copies
      /\ \A i \in 1..Len(pool) : pool[i] \in Copies
      /\ \A i \in 1..Len(uploadErrors) : uploadErrors[i] \in Copies
      /\ Len(jobs) \in Nat /\ Len(pool) \in Nat /\ Len(uploadErrors) \in Nat
      /\ started \in Nat /\ 1..started \subseteq Copies
      /\ \A u \in Threads : /\ thread[u].before \subseteq Copies
                            /\ {thread[u].copy, thread[u].error, thread[u].count} \subseteq Nat
  BY Ranges
<1>1. /\ task[c] = "writing"
      /\ task'[c] = "returning" /\ \A d \in Copies : d # c => task'[d] = task[d]
      /\ Failures' = Failures
      /\ Buffer' = Buffer
      /\ UNCHANGED <<thread, jobs, flushing, pool, upload, uploadErrors, reported, swallowed, started>>
  BY DEF WriteThrottled, TypeOK, Failures, Buffer
<1>2. TypeOK'
  <2>1. InUse' = InUse
    BY <1>1 DEF InUse
  <2>2. QED  BY <2>1 DEF WriteThrottled, TypeOK
<1>3. HeldCopies'
  BY <1>0, <1>1 DEF HeldCopies, Holds, At
<1>4. NotStarted'
  BY <1>1 DEF NotStarted
<1>5. PoolQueued'
  BY <1>0, <1>1 DEF PoolQueued
<1>6. JobsSent'
  BY <1>0, <1>1 DEF JobsSent
<1>7. CopiesSomewhere'
  BY <1>0, <1>1 DEF CopiesSomewhere, Somewhere, Holds, Accounted, At
<1>8. UploadsKnown'
  BY <1>1 DEF UploadsKnown
<1>9. BeforeFlush'
  <2> SUFFICES ASSUME NEW w \in Threads PROVE BeforeOf(w)'
    BY DEF BeforeFlush
  <2>1. BeforeOf(w)
    BY DEF BeforeFlush
  <2>2. thread'[w].before \subseteq 1..started' /\ (Holds(w)' => thread'[w].before = {})
    BY <2>1, <1>1 DEF BeforeOf, Holds
  <2>3. \A u \in Threads : Holds(u)' => thread'[u].copy \notin thread'[w].before
    BY <2>1, <1>1 DEF BeforeOf, Holds
  <2>4. thread'[w].pc \in {"pop", "get"} =>
          \A i \in 1..Len(jobs') : jobs'[i] \in thread'[w].before => i <= thread'[w].count
    BY <2>1, <1>1 DEF BeforeOf
  <2>5. At(w, "drained")' /\ thread'[w].error = 0 =>
          \A i \in 1..Len(jobs') : jobs'[i] \notin thread'[w].before
    BY <2>1, <1>1 DEF BeforeOf, At
  <2>6. At(w, "uploads")' => \A d \in thread'[w].before : Accounted(d)'
    BY <2>1, <1>0, <1>1 DEF BeforeOf, At, Accounted
  <2>7. QED  BY <2>2, <2>3, <2>4, <2>5, <2>6 DEF BeforeOf
<1>10. GetsCopy' /\ OneDrains'
  BY <1>1 DEF GetsCopy, At, OneDrains, Drains
<1>11. QED  BY <1>2, <1>3, <1>4, <1>5, <1>6, <1>7, <1>8, <1>9, <1>10 DEF FlushInv,
     TasksInv

\* The task is over, and its references go.
LEMMA InvEndTask ==
  ASSUME FlushInv, NEW c \in Copies, NEW ending \in {"copied", "skipped", "failed"}, EndTask(c, ending)
  PROVE  FlushInv'
<1> TypeOK /\ HeldCopies /\ NotStarted /\ PoolQueued /\ JobsSent /\ GetsCopy
  BY DEF FlushInv, TasksInv
<1> OneDrains /\ CopiesSomewhere /\ UploadsKnown /\ BeforeFlush
  BY DEF FlushInv
<1>0. /\ \A i \in 1..Len(jobs) : jobs[i] \in Copies
      /\ \A i \in 1..Len(pool) : pool[i] \in Copies
      /\ \A i \in 1..Len(uploadErrors) : uploadErrors[i] \in Copies
      /\ Len(jobs) \in Nat /\ Len(pool) \in Nat /\ Len(uploadErrors) \in Nat
      /\ started \in Nat /\ 1..started \subseteq Copies
      /\ \A u \in Threads : /\ thread[u].before \subseteq Copies
                            /\ {thread[u].copy, thread[u].error, thread[u].count} \subseteq Nat
  BY Ranges
<1>1. /\ \/ task[c] = "running" /\ ending # "copied"
         \/ task[c] = "returning"
      /\ task'[c] = ending /\ \A d \in Copies : d # c => task'[d] = task[d]
      /\ Failures' = Failures
      /\ Buffer' = Buffer
      /\ UNCHANGED <<thread, jobs, flushing, pool, upload, uploadErrors, reported, swallowed, started>>
  BY DEF EndTask, TypeOK, Failures, Buffer
<1>2. TypeOK'
  <2>1. InUse' = InUse \ {c} /\ c \in InUse
    BY <1>1 DEF InUse
  <2>2. Cardinality(InUse') = Cardinality(InUse) - 1
    BY <2>1, InUseFinite, FS_RemoveElement
  <2>3. QED  BY SMTT(30), <2>2, InUseFinite DEF EndTask, DropReferences, TypeOK
<1>3. HeldCopies'
  BY <1>0, <1>1 DEF HeldCopies, Holds, At
<1>4. NotStarted'
  BY <1>1 DEF NotStarted
<1>5. PoolQueued'
  BY <1>0, <1>1 DEF PoolQueued
<1>6. JobsSent'
  BY <1>0, <1>1 DEF JobsSent
<1>7. CopiesSomewhere'
  <2> SUFFICES ASSUME NEW d \in 1..started' PROVE Somewhere(d)'
    BY DEF CopiesSomewhere
  <2>1. ASSUME NEW u \in Threads, Holds(u), thread[u].copy = d PROVE Somewhere(d)'
    BY <2>1, <1>1 DEF Somewhere, Holds
  <2>2. ASSUME d \in Buffer PROVE Somewhere(d)'
    BY <2>2, <1>1 DEF Somewhere
  <2>3. ASSUME NEW u \in Threads, At(u, "get"), thread[u].copy = d PROVE Somewhere(d)'
    BY <2>3, <1>1 DEF Somewhere, At
  <2>4. ASSUME NEW u \in Threads, At(u, "drained"), thread[u].error = d PROVE Somewhere(d)'
    BY <2>4, <1>1 DEF Somewhere, At
  <2>5. ASSUME d \in 1..started, Accounted(d) PROVE Somewhere(d)'
    BY <2>5, <1>0, <1>1 DEF Somewhere, Accounted
  <2>6. QED  BY <2>1, <2>3, <2>4, <2>5, <1>1 DEF CopiesSomewhere, Somewhere
<1>8. UploadsKnown'
  BY <1>1 DEF UploadsKnown
<1>9. BeforeFlush'
  <2> SUFFICES ASSUME NEW w \in Threads PROVE BeforeOf(w)'
    BY DEF BeforeFlush
  <2>1. BeforeOf(w)
    BY DEF BeforeFlush
  <2>2. thread'[w].before \subseteq 1..started' /\ (Holds(w)' => thread'[w].before = {})
    BY <2>1, <1>1 DEF BeforeOf, Holds
  <2>3. \A u \in Threads : Holds(u)' => thread'[u].copy \notin thread'[w].before
    BY <2>1, <1>1 DEF BeforeOf, Holds
  <2>4. thread'[w].pc \in {"pop", "get"} =>
          \A i \in 1..Len(jobs') : jobs'[i] \in thread'[w].before => i <= thread'[w].count
    BY <2>1, <1>1 DEF BeforeOf
  <2>5. At(w, "drained")' /\ thread'[w].error = 0 =>
          \A i \in 1..Len(jobs') : jobs'[i] \notin thread'[w].before
    BY <2>1, <1>1 DEF BeforeOf, At
  <2>6. At(w, "uploads")' => \A d \in thread'[w].before : Accounted(d)'
    BY <2>1, <1>0, <1>1 DEF BeforeOf, At, Accounted
  <2>7. QED  BY <2>2, <2>3, <2>4, <2>5, <2>6 DEF BeforeOf
<1>10. GetsCopy' /\ OneDrains'
  BY <1>1 DEF GetsCopy, At, OneDrains, Drains
<1>11. QED  BY <1>2, <1>3, <1>4, <1>5, <1>6, <1>7, <1>8, <1>9, <1>10 DEF FlushInv,
     TasksInv

\* An upload succeeds.
LEMMA InvUploadStored ==
  ASSUME FlushInv, NEW c \in Copies, UploadStored(c)
  PROVE  FlushInv'
<1> TypeOK /\ HeldCopies /\ NotStarted /\ PoolQueued /\ JobsSent /\ GetsCopy
  BY DEF FlushInv, TasksInv
<1> OneDrains /\ CopiesSomewhere /\ UploadsKnown /\ BeforeFlush
  BY DEF FlushInv
<1>1. /\ upload'[c] = "stored" /\ \A d \in Copies : d # c => upload'[d] = upload[d]
      /\ Failures' = Failures
      /\ Buffer' = Buffer
      /\ UNCHANGED <<thread, jobs, flushing, pool, task, uploadErrors, reported, swallowed, started>>
  BY DEF UploadStored, TypeOK, Failures, Buffer
<1>2. TypeOK'
  <2>1. InUse' = InUse
    BY <1>1 DEF InUse
  <2>2. QED  BY <2>1 DEF UploadStored, TypeOK
<1>3. UploadsKnown'
  BY <1>1 DEF UploadsKnown
<1>4. HeldCopies' /\ NotStarted' /\ PoolQueued' /\ JobsSent' /\ GetsCopy'
      /\ OneDrains' /\ CopiesSomewhere' /\ BeforeFlush'
  BY <1>1 DEF HeldCopies, Holds, At, NotStarted, PoolQueued, JobsSent, GetsCopy,
       OneDrains, Drains, CopiesSomewhere, Somewhere, Accounted, BeforeFlush, BeforeOf
<1>5. QED  BY <1>2, <1>3, <1>4 DEF FlushInv, TasksInv

\* The error of an upload is kept for Flush.
LEMMA InvUploadFailed ==
  ASSUME FlushInv, NEW c \in Copies, UploadFailed(c)
  PROVE  FlushInv'
<1> TypeOK /\ HeldCopies /\ NotStarted /\ PoolQueued /\ JobsSent /\ GetsCopy
  BY DEF FlushInv, TasksInv
<1> OneDrains /\ CopiesSomewhere /\ UploadsKnown /\ BeforeFlush
  BY DEF FlushInv
<1>0. /\ \A i \in 1..Len(jobs) : jobs[i] \in Copies
      /\ \A i \in 1..Len(pool) : pool[i] \in Copies
      /\ \A i \in 1..Len(uploadErrors) : uploadErrors[i] \in Copies
      /\ Len(jobs) \in Nat /\ Len(pool) \in Nat /\ Len(uploadErrors) \in Nat
      /\ started \in Nat /\ 1..started \subseteq Copies
      /\ \A u \in Threads : /\ thread[u].before \subseteq Copies
                            /\ {thread[u].copy, thread[u].error, thread[u].count} \subseteq Nat
  BY Ranges
<1>1. /\ upload'[c] = "lost" /\ \A d \in Copies : d # c => upload'[d] = upload[d]
      /\ Failures' = Failures \cup {c}
      /\ Buffer' = Buffer
      /\ UNCHANGED <<thread, jobs, flushing, pool, task, reported, swallowed, started>>
  <2>1. Failures' = Failures \cup {c}
    BY FailureKept DEF UploadFailed
  <2>2. QED  BY <2>1 DEF UploadFailed, TypeOK, Buffer
<1>2. TypeOK'
  <2>1. InUse' = InUse
    BY <1>1 DEF InUse
  <2>2. QED  BY <2>1 DEF UploadFailed, TypeOK
<1>3. CopiesSomewhere'
  BY <1>1 DEF CopiesSomewhere, Somewhere, Holds, Accounted, At
<1>4. UploadsKnown'
  BY <1>1 DEF UploadsKnown
<1>5. BeforeFlush'
  BY <1>1 DEF BeforeFlush, BeforeOf, Holds, Accounted, At
<1>6. HeldCopies' /\ NotStarted' /\ PoolQueued' /\ JobsSent' /\ GetsCopy' /\ OneDrains'
  BY <1>1 DEF HeldCopies, Holds, At, NotStarted, PoolQueued, JobsSent, GetsCopy,
       OneDrains, Drains
<1>7. QED  BY <1>2, <1>3, <1>4, <1>5, <1>6 DEF FlushInv, TasksInv

\* The user lets go of the page accessors.
LEMMA InvReleaseAccessors ==
  ASSUME FlushInv, ReleaseAccessors
  PROVE  FlushInv'
<1> TypeOK /\ HeldCopies /\ NotStarted /\ PoolQueued /\ JobsSent /\ GetsCopy
  BY DEF FlushInv, TasksInv
<1> OneDrains /\ CopiesSomewhere /\ UploadsKnown /\ BeforeFlush
  BY DEF FlushInv
<1>1. /\ Failures' = Failures
      /\ Buffer' = Buffer
      /\ UNCHANGED <<thread, jobs, flushing, pool, task, upload, uploadErrors, reported, swallowed, started>>
  BY DEF ReleaseAccessors, tasks, Failures, Buffer
<1>2. TypeOK'
  <2>1. InUse' = InUse
    BY <1>1 DEF InUse
  <2>2. QED  BY <2>1, InUseFinite DEF ReleaseAccessors, DropReferences, tasks, TypeOK
<1>3. HeldCopies' /\ NotStarted' /\ PoolQueued' /\ JobsSent' /\ GetsCopy'
      /\ OneDrains' /\ CopiesSomewhere' /\ UploadsKnown' /\ BeforeFlush'
  BY <1>1 DEF HeldCopies, Holds, At, NotStarted, PoolQueued, JobsSent, GetsCopy,
       OneDrains, Drains, CopiesSomewhere, Somewhere, Accounted, UploadsKnown,
       BeforeFlush, BeforeOf
<1>4. QED  BY <1>2, <1>3 DEF FlushInv, TasksInv

\* The VDS is closed.
LEMMA InvInvalidate ==
  ASSUME FlushInv, Invalidate
  PROVE  FlushInv'
<1> TypeOK /\ HeldCopies /\ NotStarted /\ PoolQueued /\ JobsSent /\ GetsCopy
  BY DEF FlushInv, TasksInv
<1> OneDrains /\ CopiesSomewhere /\ UploadsKnown /\ BeforeFlush
  BY DEF FlushInv
<1>1. /\ Failures' = Failures
      /\ Buffer' = Buffer
      /\ UNCHANGED <<thread, jobs, flushing, pool, task, upload, uploadErrors, reported, swallowed, started>>
  BY DEF Invalidate, tasks, Failures, Buffer
<1>2. TypeOK'
  <2>1. InUse' = InUse
    BY <1>1 DEF InUse, TypeOK
  <2>2. QED  BY <2>1 DEF Invalidate, tasks, TypeOK
<1>3. HeldCopies' /\ NotStarted' /\ PoolQueued' /\ JobsSent' /\ GetsCopy'
      /\ OneDrains' /\ CopiesSomewhere' /\ UploadsKnown' /\ BeforeFlush'
  BY <1>1 DEF HeldCopies, Holds, At, NotStarted, PoolQueued, JobsSent, GetsCopy,
       OneDrains, Drains, CopiesSomewhere, Somewhere, Accounted, UploadsKnown,
       BeforeFlush, BeforeOf
<1>4. QED  BY <1>2, <1>3 DEF FlushInv, TasksInv

\* The pool has ended.
LEMMA InvPoolJoined ==
  ASSUME FlushInv, PoolJoined
  PROVE  FlushInv'
<1> TypeOK /\ HeldCopies /\ NotStarted /\ PoolQueued /\ JobsSent /\ GetsCopy
  BY DEF FlushInv, TasksInv
<1> OneDrains /\ CopiesSomewhere /\ UploadsKnown /\ BeforeFlush
  BY DEF FlushInv
<1>1. /\ Failures' = Failures
      /\ Buffer' = Buffer
      /\ UNCHANGED <<thread, jobs, flushing, pool, task, upload, uploadErrors, reported, swallowed, started>>
  BY DEF PoolJoined, tasks, Failures, Buffer
<1>2. TypeOK'
  <2>1. InUse' = InUse
    BY <1>1 DEF InUse, TypeOK
  <2>2. QED  BY <2>1 DEF PoolJoined, tasks, TypeOK
<1>3. HeldCopies' /\ NotStarted' /\ PoolQueued' /\ JobsSent' /\ GetsCopy'
      /\ OneDrains' /\ CopiesSomewhere' /\ UploadsKnown' /\ BeforeFlush'
  BY <1>1 DEF HeldCopies, Holds, At, NotStarted, PoolQueued, JobsSent, GetsCopy,
       OneDrains, Drains, CopiesSomewhere, Somewhere, Accounted, UploadsKnown,
       BeforeFlush, BeforeOf
<1>4. QED  BY <1>2, <1>3 DEF FlushInv, TasksInv

-----------------------------------------------------------------------------
(* The theorems.                                                             *)

\* Every step keeps the invariant.
LEMMA InvStep == FlushInv /\ [Next]_vars => FlushInv'
<1> SUFFICES ASSUME FlushInv, [Next]_vars PROVE FlushInv'
  OBVIOUS
<1>1. ASSUME NEW t \in Threads, PrepareCopy(t) \/ BeginFlush(t) \/ CallStep(t) PROVE FlushInv'
  BY <1>1, InvPrepareCopy, InvBeginFlush, InvRefuseCopy, InvLockToEnqueue,
       InvEnqueueCopy, InvWaitedForFlush, InvPopJob, InvGetResult, InvDrainEnds,
       InvDrained, InvFlushCopyPageJobs, InvUploadsComplete DEF CallStep
<1>2. CASE StartTask
  BY <1>2, InvStartTask
<1>3. ASSUME NEW c \in Copies, TaskStep(c) \/ UploadStep(c) PROVE FlushInv'
  BY <1>3, InvWriteChunk, InvWriteThrottled, InvEndTask, InvUploadStored,
       InvUploadFailed DEF TaskStep, UploadStep
<1>4. CASE ReleaseAccessors \/ Invalidate \/ PoolJoined
  BY <1>4, InvReleaseAccessors, InvInvalidate, InvPoolJoined
<1>5. CASE UNCHANGED vars
  <2>1. /\ TypeOK' = TypeOK /\ HeldCopies' = HeldCopies /\ NotStarted' = NotStarted
        /\ PoolQueued' = PoolQueued /\ JobsSent' = JobsSent /\ GetsCopy' = GetsCopy
    BY <1>5 DEF vars, tasks, TypeOK, InUse, HeldCopies, NotStarted, PoolQueued,
         JobsSent, GetsCopy, Holds, At
  <2>2. /\ OneDrains' = OneDrains /\ CopiesSomewhere' = CopiesSomewhere
        /\ UploadsKnown' = UploadsKnown /\ BeforeFlush' = BeforeFlush
    BY <1>5 DEF vars, tasks, OneDrains, CopiesSomewhere, Somewhere, UploadsKnown,
         BeforeFlush, BeforeOf, Accounted, Failures, Buffer, Holds, Drains, At
  <2>3. QED  BY <2>1, <2>2 DEF FlushInv, TasksInv
<1>6. QED  BY <1>1, <1>2, <1>3, <1>4, <1>5 DEF Next

\* The inductive invariant, for every behaviour of copies and Flushes.
THEOREM Invariance == Spec => []FlushInv
BY InvInit, InvStep, PTL DEF Spec

\* TypeOK for any threads, copies and sizes: the page accessors have a reference
\* for each task that may use them, so none is destroyed under a copy.
THEOREM TypeCorrect == Spec => []TypeOK
<1>1. FlushInv => TypeOK
  BY DEF FlushInv, TasksInv
<1>2. QED  BY <1>1, Invariance, PTL

\* A thread leaves the last part of a Flush only when no upload is pending.
LEMMA LeavesUploads ==
  ASSUME TypeOK, NEW t \in Threads, At(t, "uploads"), thread'[t].pc = "idle", Next
  PROVE  Pending = {}
<1>1. thread \in [Threads -> Calls] /\ thread[t].pc = "uploads"
  BY CallType DEF At
<1>2. ASSUME NEW u \in Threads, PrepareCopy(u) \/ BeginFlush(u) \/ CallStep(u)
      PROVE  u = t
  BY <1>1, <1>2 DEF PrepareCopy, BeginFlush, CallStep, RefuseCopy, LockToEnqueue,
       EnqueueCopy, WaitedForFlush, PopJob, GetResult, DrainEnds, Drained,
       FlushCopyPageJobs, UploadsComplete, StartDraining, Goto, Return
<1>3. PrepareCopy(t) \/ BeginFlush(t) \/ CallStep(t) => UploadsComplete(t)
  BY DEF At, PrepareCopy, BeginFlush, CallStep, RefuseCopy, LockToEnqueue, EnqueueCopy,
       WaitedForFlush, PopJob, GetResult, DrainEnds, Drained, FlushCopyPageJobs
<1>4. ~StartTask /\ ~(\E c \in Copies : TaskStep(c) \/ UploadStep(c))
  BY <1>1 DEF StartTask, TaskStep, UploadStep, WriteChunk, WriteThrottled, EndTask,
       UploadStored, UploadFailed
<1>5. ~ReleaseAccessors /\ ~Invalidate /\ ~PoolJoined
  BY <1>1 DEF ReleaseAccessors, Invalidate, PoolJoined
<1>6. UploadsComplete(t)
  BY <1>2, <1>3, <1>4, <1>5 DEF Next
<1>7. QED  BY <1>6 DEF UploadsComplete

\* What a step does at the end of a Flush without an error.
FlushWaited ==
  \A t \in Threads :
    At(t, "uploads") /\ thread'[t].pc = "idle" /\ uploadErrors = <<>> =>
      \A c \in thread[t].before : Settled(c) \/ c \in reported \cup swallowed

\* At the end of a Flush the copies before it are accounted for, and no upload
\* is pending.
LEMMA FlushStep ==
  ASSUME FlushInv, Next
  PROVE  FlushWaited
<1> SUFFICES ASSUME NEW t \in Threads, At(t, "uploads"), thread'[t].pc = "idle",
                    uploadErrors = <<>>, NEW c \in thread[t].before
             PROVE  Settled(c) \/ c \in reported \cup swallowed
  BY DEF FlushWaited
<1>1. TypeOK
  BY DEF FlushInv, TasksInv
<1>2. Pending = {}
  BY <1>1, LeavesUploads
<1>3. c \in Copies /\ Failures = {}
  BY <1>1, Ranges DEF Failures
<1>4. Accounted(c)
  BY DEF FlushInv, BeforeFlush, BeforeOf
<1>5. CASE task[c] = "copied"
  <2>1. upload[c] \in {"stored", "lost"}
    BY <1>1, <1>2, <1>5 DEF FlushInv, UploadsKnown, TypeOK, Pending
  <2>2. QED  BY <2>1, <1>3 DEF FlushInv, UploadsKnown, Settled
<1>6. CASE task[c] # "copied"
  BY <1>3, <1>4, <1>6 DEF Accounted, Settled
<1>7. QED  BY <1>5, <1>6

\* FlushCopies for any threads, copies and sizes: a Flush that returns no error has
\* waited for every copy before it, those another thread had taken too.
THEOREM FlushWaits == Spec => FlushCopies
<1>1. FlushInv /\ [Next]_vars => [FlushWaited]_vars
  BY FlushStep
<1>2. QED  BY <1>1, Invariance, PTL DEF Spec, FlushCopies, FlushWaited
=============================================================================
