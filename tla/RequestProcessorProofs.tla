----------------------- MODULE RequestProcessorProofs -----------------------
(***************************************************************************)
(* Theorems about RequestProcessor, for any clients, workers, chunks and   *)
(* numbers of jobs: the calls, tasks and counts of a job, who deletes it,  *)
(* and the pins of its pages.  RequestProcessorPagesProofs goes on.        *)
(***************************************************************************)
EXTENDS RequestProcessor, UniqueListsProofs

-----------------------------------------------------------------------------
(* The calls of AddJob.                                                    *)

\* Clients ask for chunks of one accessor, and 1-bit data is not remapped.
Sources(r) == \A i \in 1 .. Len(r.chunks) : r.chunks[i] \in SourceChunks
Targets(r) == \A i \in 1 .. Len(r.chunks) : r.chunks[i] \in TargetChunks
Proper(r) ==
  /\ r \in Request /\ r.chunks # <<>>
  /\ Sources(r) \/ (Targets(r) /\ ~r.single)
\* The pages are those of the first chunks.
Begun(pages, r) ==
  Len(pages) <= Len(r.chunks) /\ \A i \in 1 .. Len(pages) : pages[i] = r.chunks[i]

InCall == {"lock", "size", "prepare", "enqueue"}
Call(t) ==
  /\ thread[t].pc \in ClientPositions
  /\ thread[t].pc \in InCall =>
       Proper(thread[t].request) /\ Begun(thread[t].pages, thread[t].request)
  /\ thread[t].pc \notin InCall =>
       thread[t].pages = <<>> /\ thread[t].outer = NoFrame /\ ~thread[t].refused
  /\ thread[t].pc \in {"lock", "size"} => thread[t].pages = <<>>
  /\ At(t, "prepare") => Len(thread[t].pages) < Len(thread[t].request.chunks)
  /\ At(t, "enqueue") /\ ~thread[t].refused =>
       Len(thread[t].pages) = Len(thread[t].request.chunks)
  /\ thread[t].refused =>
       /\ At(t, "enqueue") /\ Sources(thread[t].request)
       /\ Len(thread[t].pages) < Len(thread[t].request.chunks)
  /\ pagesMutex["target"] = t <=> thread[t].outer # NoFrame
\* The call that waits for a call that it made.
Outer(t) == thread[t].outer # NoFrame =>
  /\ Proper(thread[t].outer.request) /\ Targets(thread[t].outer.request)
  /\ Begun(thread[t].outer.pages, thread[t].outer.request)
  /\ Len(thread[t].outer.pages) < Len(thread[t].outer.request.chunks)
  /\ Sources(thread[t].request) /\ ~thread[t].request.single /\ ~thread[t].request.fails
Calls ==
  /\ \A t \in Clients : Call(t) /\ Outer(t)
  /\ pagesMutex["source"] = NoThread /\ pagesMutex["target"] \in Clients \cup {NoThread}

-----------------------------------------------------------------------------
(* Tasks.                                                                  *)

HasTask(w) == thread[w].job # 0
Worker(w) ==
  /\ thread[w].pc \in WorkerPositions
  /\ At(w, "idle") <=> thread[w].job = 0
  /\ HasTask(w) => /\ thread[w].job \in DOMAIN job
                   /\ thread[w].page \in 1 .. Len(JobOf(w).pages)
  /\ At(w, "future") => JobOf(w).single /\ thread[w].page = 1
InQueue(k) ==
  /\ queue[k].job \in DOMAIN job
  /\ queue[k].page \in 0 .. Len(job[queue[k].job].pages)
  /\ queue[k].page = 0 <=> job[queue[k].job].single
\* A task is in one place.
OneQueued == \A k, l \in DOMAIN queue : queue[k] = queue[l] => k = l
OneOrOther == \A k \in DOMAIN queue : \A w \in Workers :
  HasTask(w) /\ queue[k].job = thread[w].job =>
    ~JobOf(w).single /\ queue[k].page # thread[w].page
OneRuns == \A v, w \in Workers :
  HasTask(v) /\ thread[v].job = thread[w].job /\ v # w =>
    ~JobOf(w).single /\ thread[v].page # thread[w].page

\* The pages of a job that are still to be counted.
Pending(j) == {i \in DOMAIN job[j].pages : HasPinned(j, i)}
Counts == \A j \in DOMAIN job :
  /\ ~job[j].done => j \in Listed /\ job[j].processed + Cardinality(Pending(j)) <= Len(job[j].pages)
  /\ job[j].done => Pending(j) = {}
Lasts == \A w \in Workers : \A j \in DOMAIN job :
  At(w, "last") /\ thread[w].job = j => ~job[j].done /\ Pending(j) = {}
LastAlone == \A v, w \in Workers :
  At(v, "last") /\ At(w, "last") /\ thread[v].job = thread[w].job => v = w
JobsListed == Distinct(listed) /\ Listed \subseteq DOMAIN job
JobForms == \A j \in DOMAIN job : job[j].pages # <<>> /\ (job[j].single => job[j].target = NoChunk)

Shape ==
  /\ mutex \in Threads \cup {NoThread}
  /\ pagesMutex \in [Accessors -> Threads \cup {NoThread}]
  /\ references \in [Accessors -> Int]
  /\ keepsPages \in [Accessors -> BOOLEAN]
  /\ pins \in [Chunks -> Int]
  /\ content \in [TargetChunks -> Contents]
  /\ remapJob \in [TargetChunks -> Jobs \cup {0}]
  /\ job \in Seq(JobRecord) /\ Len(job) <= MaxJobs
  /\ listed \in Seq(Jobs)
  /\ queue \in Seq(Task)
  /\ asleep \subseteq Threads
  /\ thread \in [Threads -> ThreadRecord]
  /\ owned \in [Clients -> SUBSET Jobs]
  /\ closer \in Nat \X Nat
  /\ result \in [Jobs -> Results]
  /\ cancelledBy \subseteq Jobs \cup {0}

TaskInv ==
  /\ Shape /\ Calls /\ JobsListed /\ JobForms
  /\ \A w \in Workers : Worker(w)
  /\ \A k \in DOMAIN queue : InQueue(k)
  /\ OneQueued /\ OneOrOther /\ OneRuns /\ Counts /\ Lasts /\ LastAlone

USE DEF At

LEMMA Constants ==
  /\ Clients \cap Workers = {} /\ Clients \subseteq Threads /\ Workers \subseteq Threads
  /\ IsFiniteSet(Clients) /\ IsFiniteSet(Workers)
  /\ SourceChunks \cap TargetChunks = {}
  /\ SourceChunks \subseteq Chunks /\ TargetChunks \subseteq Chunks
  /\ NoThread \notin Threads /\ NoChunk \notin Chunks /\ NoFrame \notin Frame
  /\ MaxJobs \in Nat /\ Jobs \subseteq Nat /\ 0 \notin Jobs
<1>1. IsFiniteSet(Threads)
  BY RequestProcessorAssumption
<1>2. IsFiniteSet(Clients) /\ IsFiniteSet(Workers)
  BY <1>1, FS_Subset DEF Threads
<1>3. QED  BY <1>2, RequestProcessorAssumption DEF Threads, Chunks, Jobs

-----------------------------------------------------------------------------
(* The steps.                                                              *)

\* A step keeps what the tasks of a job depend on.
Stays(r, s) ==
  /\ s.single = r.single /\ s.accessor = r.accessor /\ s.target = r.target /\ s.done = r.done
  /\ Len(s.pages) = Len(r.pages)
  /\ r.done \/ s.processed = r.processed
JobsStay == Len(job') = Len(job) /\ \A j \in DOMAIN job : Stays(job[j], job'[j])
\* A job that is taken out of the list is done.
ListStays ==
  /\ Distinct(listed') /\ Listed' \subseteq Listed
  /\ \A j \in DOMAIN job : ~job[j].done /\ j \in Listed => j \in Listed'
\* Positions at which a worker has a page that it has not counted.
Carrying == UsingJob \ {"last"}
WorkerStays(w) ==
  /\ thread'[w].job = thread[w].job /\ thread'[w].page = thread[w].page
  /\ \/ thread[w].pc \in Carrying /\ thread'[w].pc \in Carrying
     \/ thread'[w].pc = thread[w].pc /\ thread'[w].failed = thread[w].failed
Rests ==
  /\ JobsStay /\ ListStays /\ queue' = queue
  /\ \A w \in Workers : WorkerStays(w)

\* What worker w still has to count.
Carries(w, j, i) ==
  /\ Uses(w, j)
  /\ \/ thread[w].page = i /\ thread[w].pc \notin {"last", "after"}
     \/ job[j].single /\ thread[w].page < i

LEMMA PinnedBy ==
  ASSUME NEW j, NEW i
  PROVE  HasPinned(j, i) <=> Queued(j, i) \/ \E w \in Workers : Carries(w, j, i)
BY DEF HasPinned, Carries

LEMMA JobPlaces ==
  ASSUME Shape
  PROVE  /\ DOMAIN job = 1 .. Len(job) /\ Len(job) \in Nat /\ Len(job) <= MaxJobs
         /\ \A j \in DOMAIN job : /\ j \in Jobs /\ j \in Nat /\ job[j] \in JobRecord
                                  /\ DOMAIN job[j].pages = 1 .. Len(job[j].pages)
                                  /\ Len(job[j].pages) \in Nat
                                  /\ job[j].processed \in Nat /\ job[j].done \in BOOLEAN
                                  /\ job[j].single \in BOOLEAN
<1>1. job \in Seq(JobRecord) /\ Len(job) <= MaxJobs
  BY DEF Shape
<1>2. DOMAIN job = 1 .. Len(job) /\ Len(job) \in Nat
  BY <1>1
<1>3. ASSUME NEW j \in DOMAIN job
      PROVE  /\ j \in Jobs /\ j \in Nat /\ job[j] \in JobRecord
             /\ DOMAIN job[j].pages = 1 .. Len(job[j].pages) /\ Len(job[j].pages) \in Nat
             /\ job[j].processed \in Nat /\ job[j].done \in BOOLEAN /\ job[j].single \in BOOLEAN
  <2>1. j \in Jobs /\ j \in Nat
    BY <1>1, <1>2, Constants DEF Jobs
  <2>2. job[j] \in JobRecord
    BY <1>1, <1>2
  <2>3. job[j].pages \in Seq(Chunks \cup {NoChunk})
    BY <2>2 DEF JobRecord
  <2>4. DOMAIN job[j].pages = 1 .. Len(job[j].pages) /\ Len(job[j].pages) \in Nat
    BY <2>3
  <2>5. QED  BY <2>1, <2>2, <2>4 DEF JobRecord
<1>4. QED  BY <1>1, <1>2, <1>3

LEMMA CarriesStays ==
  ASSUME Shape, Rests, NEW w \in Workers, NEW j \in DOMAIN job, NEW i
  PROVE  Carries(w, j, i)' <=> Carries(w, j, i)
<1>1. job'[j].single = job[j].single /\ Len(job'[j].pages) = Len(job[j].pages)
  BY DEF Rests, JobsStay, Stays
<1>2. thread'[w].job = thread[w].job /\ thread'[w].page = thread[w].page
  BY DEF Rests, WorkerStays
<1>3. CASE thread[w].pc \in Carrying /\ thread'[w].pc \in Carrying
  <2>1. Uses(w, j) <=> thread[w].job = j
    BY <1>3 DEF Uses, Carrying, UsingJob
  <2>2. Uses(w, j)' <=> thread'[w].job = j
    BY <1>3 DEF Uses, Carrying, UsingJob
  <2>3. thread[w].pc \notin {"last", "after"} /\ thread'[w].pc \notin {"last", "after"}
    BY <1>3 DEF Carrying, UsingJob
  <2>4. QED  BY <1>1, <1>2, <2>1, <2>2, <2>3 DEF Carries
<1>4. CASE thread'[w].pc = thread[w].pc /\ thread'[w].failed = thread[w].failed
  <2>1. Uses(w, j)' <=> Uses(w, j)
    BY <1>1, <1>2, <1>4 DEF Uses
  <2>2. QED  BY <1>1, <1>2, <1>4, <2>1 DEF Carries
<1>5. QED  BY <1>3, <1>4 DEF Rests, WorkerStays

LEMMA PlacesNext ==
  ASSUME Shape'
  PROVE  /\ DOMAIN job' = 1 .. Len(job') /\ Len(job') \in Nat /\ Len(job') <= MaxJobs
         /\ \A j \in DOMAIN job' : /\ j \in Jobs /\ j \in Nat /\ job'[j] \in JobRecord
                                   /\ DOMAIN job'[j].pages = 1 .. Len(job'[j].pages)
                                   /\ Len(job'[j].pages) \in Nat
                                   /\ job'[j].processed \in Nat /\ job'[j].done \in BOOLEAN
                                   /\ job'[j].single \in BOOLEAN
<1>1. job' \in Seq(JobRecord) /\ Len(job') <= MaxJobs
  BY DEF Shape
<1>2. DOMAIN job' = 1 .. Len(job') /\ Len(job') \in Nat
  BY <1>1
<1>3. ASSUME NEW j \in DOMAIN job'
      PROVE  /\ j \in Jobs /\ j \in Nat /\ job'[j] \in JobRecord
             /\ DOMAIN job'[j].pages = 1 .. Len(job'[j].pages) /\ Len(job'[j].pages) \in Nat
             /\ job'[j].processed \in Nat /\ job'[j].done \in BOOLEAN /\ job'[j].single \in BOOLEAN
  <2>1. j \in Jobs /\ j \in Nat
    BY <1>1, <1>2, Constants DEF Jobs
  <2>2. job'[j] \in JobRecord
    BY <1>1, <1>2
  <2>3. job'[j].pages \in Seq(Chunks \cup {NoChunk})
    BY <2>2 DEF JobRecord
  <2>4. DOMAIN job'[j].pages = 1 .. Len(job'[j].pages) /\ Len(job'[j].pages) \in Nat
    BY <2>3
  <2>5. QED  BY <2>1, <2>2, <2>4 DEF JobRecord
<1>4. QED  BY <1>1, <1>2, <1>3

LEMMA PendingStays ==
  ASSUME Shape, Shape', Rests, NEW j \in DOMAIN job
  PROVE  DOMAIN job' = DOMAIN job /\ Pending(j)' = Pending(j)
<1>1. DOMAIN job' = DOMAIN job /\ DOMAIN job'[j].pages = DOMAIN job[j].pages
  BY JobPlaces, PlacesNext DEF Rests, JobsStay, Stays
<1>2. \A i : HasPinned(j, i)' <=> HasPinned(j, i)
  <2>1. ASSUME NEW i PROVE Queued(j, i)' <=> Queued(j, i)
    BY DEF Queued, Rests
  <2>2. ASSUME NEW i PROVE (\E w \in Workers : Carries(w, j, i)') <=> \E w \in Workers : Carries(w, j, i)
    BY CarriesStays
  <2>3. ASSUME NEW i PROVE HasPinned(j, i)' <=> HasPinned(j, i)
    <3>1. HasPinned(j, i)' <=> Queued(j, i)' \/ \E w \in Workers : Carries(w, j, i)'
      BY DEF HasPinned, Carries
    <3>2. QED  BY <2>1, <2>2, <3>1, PinnedBy
  <2>4. QED  BY <2>3
<1>3. QED  BY <1>1, <1>2 DEF Pending

LEMMA RestsTasks ==
  ASSUME TaskInv, Rests, Shape', Calls'
  PROVE  TaskInv'
<1>1. Shape /\ DOMAIN job' = DOMAIN job /\ \A j \in DOMAIN job : Stays(job[j], job'[j])
  BY PendingStays, JobPlaces, PlacesNext DEF TaskInv, Rests, JobsStay
<1>2. \A j \in DOMAIN job : Pending(j)' = Pending(j)
  BY <1>1, PendingStays
<1>3. \A w \in Workers : WorkerStays(w) /\ Worker(w)
  BY DEF TaskInv, Rests
<1>4. JobsListed' /\ JobForms'
  <2>1. JobsListed'
    BY <1>1 DEF JobsListed, TaskInv, Rests, ListStays
  <2>2. ASSUME NEW j \in DOMAIN job'
        PROVE  job'[j].pages # <<>> /\ (job'[j].single => job'[j].target = NoChunk)
    <3>1. Stays(job[j], job'[j]) /\ job[j].pages # <<>> /\ (job[j].single => job[j].target = NoChunk)
      BY <1>1, <2>2 DEF TaskInv, JobForms
    <3>2. job[j].pages \in Seq(Chunks \cup {NoChunk}) /\ job'[j].pages \in Seq(Chunks \cup {NoChunk})
      BY <1>1, <2>2, JobPlaces, PlacesNext DEF JobRecord
    <3>3. Len(job'[j].pages) # 0
      BY <3>1, <3>2 DEF Stays
    <3>4. QED  BY <3>1, <3>2, <3>3 DEF Stays
  <2>3. QED  BY <2>1, <2>2 DEF JobForms
<1>5. ASSUME NEW w \in Workers PROVE Worker(w)'
  <2>1. thread'[w].pc \in WorkerPositions
    BY <1>3, <1>5 DEF WorkerStays, Worker, Carrying, UsingJob, WorkerPositions
  <2>2. /\ thread'[w].job = thread[w].job /\ thread'[w].page = thread[w].page
        /\ (thread'[w].pc = "idle" <=> thread[w].pc = "idle")
        /\ (thread'[w].pc = "future" => thread[w].pc = "future")
    BY <1>3, <1>5 DEF WorkerStays, Carrying, UsingJob
  <2>3. thread[w].pc = "idle" <=> thread[w].job = 0
    BY <1>3 DEF Worker
  <2>4. thread[w].job # 0 => /\ thread[w].job \in DOMAIN job /\ thread[w].page \in 1 .. Len(job[thread[w].job].pages)
                             /\ Stays(job[thread[w].job], job'[thread[w].job])
    BY <1>1, <1>3 DEF Worker, HasTask, JobOf
  <2>5. thread[w].pc = "future" => job[thread[w].job].single /\ thread[w].page = 1
    BY <1>3 DEF Worker, JobOf
  <2>6. QED  BY <1>1, <2>1, <2>2, <2>3, <2>4, <2>5 DEF Worker, HasTask, JobOf, Stays
<1>6. ASSUME NEW k \in DOMAIN queue' PROVE InQueue(k)'
  <2>1. queue' = queue /\ InQueue(k)
    BY <1>6 DEF TaskInv, Rests
  <2>2. QED  BY <1>1, <2>1 DEF InQueue, Stays
<1>7. OneQueued' /\ OneOrOther' /\ OneRuns'
  <2>1. queue' = queue /\ OneQueued'
    BY DEF Rests, TaskInv, OneQueued
  <2>2. ASSUME NEW w \in Workers, HasTask(w)
        PROVE  JobOf(w)'.single = JobOf(w).single
    BY <1>1, <1>3, <2>2 DEF Worker, HasTask, JobOf, Stays, WorkerStays
  <2>3. \A w \in Workers : thread'[w].job = thread[w].job /\ thread'[w].page = thread[w].page
    BY <1>3 DEF WorkerStays
  <2>4. OneOrOther'
    BY <2>1, <2>2, <2>3 DEF OneOrOther, HasTask, TaskInv
  <2>5. OneRuns'
    BY <2>2, <2>3 DEF OneRuns, HasTask, TaskInv
  <2>6. QED  BY <2>1, <2>4, <2>5
<1>8. Counts'
  <2>1. ASSUME NEW j \in DOMAIN job'
        PROVE  /\ ~job'[j].done => /\ j \in Listed'
                                   /\ job'[j].processed + Cardinality(Pending(j)') <= Len(job'[j].pages)
               /\ job'[j].done => Pending(j)' = {}
    <3>1. /\ j \in DOMAIN job /\ Stays(job[j], job'[j]) /\ Pending(j)' = Pending(j)
          /\ ~job[j].done => /\ j \in Listed
                             /\ job[j].processed + Cardinality(Pending(j)) <= Len(job[j].pages)
          /\ job[j].done => Pending(j) = {}
      BY <1>1, <1>2, <2>1 DEF TaskInv, Counts
    <3>2. j \in Listed /\ ~job[j].done => j \in Listed'
      BY <3>1 DEF Rests, ListStays
    <3>3. QED  BY <3>1, <3>2 DEF Stays
  <2>2. QED  BY <2>1 DEF Counts
<1>9. Lasts'
  <2>1. ASSUME NEW w \in Workers, NEW j \in DOMAIN job', thread'[w].pc = "last", thread'[w].job = j
        PROVE  ~job'[j].done /\ Pending(j)' = {}
    <3>1. j \in DOMAIN job /\ thread[w].pc = "last" /\ thread[w].job = j
      BY <1>1, <1>3, <2>1 DEF WorkerStays, Carrying
    <3>2. ~job[j].done /\ Pending(j) = {}
      BY <3>1 DEF TaskInv, Lasts
    <3>3. job'[j].done = job[j].done /\ Pending(j)' = Pending(j)
      BY <1>1, <1>2, <3>1 DEF Stays
    <3>4. QED  BY <3>2, <3>3
  <2>2. QED  BY <2>1 DEF Lasts
<1>10. LastAlone'
  BY <1>3 DEF LastAlone, TaskInv, WorkerStays, Carrying
<1>11. QED  BY <1>4, <1>5, <1>6, <1>7, <1>8, <1>9, <1>10 DEF TaskInv

\* Worker w goes on with its task, or ends it.
Forms(r, s) ==
  s.single = r.single /\ s.accessor = r.accessor /\ s.target = r.target /\ Len(s.pages) = Len(r.pages)
Turns(w) ==
  /\ \A v \in Workers \ {w} : thread'[v] = thread[v]
  /\ Len(job') = Len(job) /\ \A j \in DOMAIN job : Forms(job[j], job'[j])
  /\ listed' = listed
Elsewhere(w, j, i) == \E v \in Workers \ {w} : Carries(v, j, i)

LEMMA TurnsCarry ==
  ASSUME NEW w \in Workers, Turns(w), NEW j \in DOMAIN job, NEW i
  PROVE  /\ HasPinned(j, i) <=> Queued(j, i) \/ Carries(w, j, i) \/ Elsewhere(w, j, i)
         /\ HasPinned(j, i)' <=> Queued(j, i)' \/ Carries(w, j, i)' \/ Elsewhere(w, j, i)
<1>1. ASSUME NEW v \in Workers \ {w} PROVE Carries(v, j, i)' <=> Carries(v, j, i)
  BY <1>1 DEF Carries, Uses, Turns, Forms
<1>2. Elsewhere(w, j, i)' <=> Elsewhere(w, j, i)
  BY <1>1 DEF Elsewhere
<1>3. HasPinned(j, i) <=> Queued(j, i) \/ Carries(w, j, i) \/ Elsewhere(w, j, i)
  BY PinnedBy DEF Elsewhere
<1>4. HasPinned(j, i)' <=> Queued(j, i)' \/ \E v \in Workers : Carries(v, j, i)'
  BY DEF HasPinned, Carries
<1>5. QED  BY <1>2, <1>3, <1>4 DEF Elsewhere

LEMMA TurnsForms ==
  ASSUME TaskInv, Shape', NEW w \in Workers, Turns(w)
  PROVE  /\ DOMAIN job' = DOMAIN job /\ JobsListed' /\ JobForms'
         /\ \A j \in DOMAIN job : DOMAIN job'[j].pages = DOMAIN job[j].pages
         /\ \A v \in Workers \ {w} : Worker(v)'
<1>1. DOMAIN job' = DOMAIN job /\ \A j \in DOMAIN job : Forms(job[j], job'[j])
  BY JobPlaces, PlacesNext DEF TaskInv, Turns
<1>2. ASSUME NEW j \in DOMAIN job
      PROVE  /\ DOMAIN job'[j].pages = DOMAIN job[j].pages
             /\ job'[j].pages # <<>> /\ (job'[j].single => job'[j].target = NoChunk)
  <2>1. Forms(job[j], job'[j]) /\ job[j].pages # <<>> /\ (job[j].single => job[j].target = NoChunk)
    BY <1>1, <1>2 DEF TaskInv, JobForms
  <2>2. job[j].pages \in Seq(Chunks \cup {NoChunk}) /\ job'[j].pages \in Seq(Chunks \cup {NoChunk})
    BY <1>1, <1>2, JobPlaces, PlacesNext DEF TaskInv, JobRecord
  <2>3. Len(job'[j].pages) # 0
    BY <2>1, <2>2 DEF Forms
  <2>4. QED  BY <2>1, <2>2, <2>3 DEF Forms
<1>3. JobsListed'
  BY <1>1 DEF JobsListed, TaskInv, Turns, Listed
<1>4. ASSUME NEW v \in Workers \ {w} PROVE Worker(v)'
  <2>1. thread'[v] = thread[v] /\ Worker(v)
    BY <1>4 DEF Turns, TaskInv
  <2>2. HasTask(v) => Forms(job[thread[v].job], job'[thread[v].job])
    BY <1>1, <2>1 DEF Worker
  <2>3. QED  BY <1>1, <2>1, <2>2 DEF Worker, HasTask, JobOf, Forms
<1>5. QED  BY <1>1, <1>2, <1>3, <1>4 DEF JobForms

LEMMA TurnsOnce ==
  ASSUME TaskInv, Shape', NEW w \in Workers, Turns(w), queue' = queue,
         \/ thread'[w].job = 0
         \/ /\ thread'[w].job = thread[w].job
            /\ thread'[w].page = thread[w].page \/ JobOf(w).single
  PROVE  /\ \A k \in DOMAIN queue' : InQueue(k)'
         /\ OneQueued' /\ OneOrOther' /\ OneRuns'
<1>1. DOMAIN job' = DOMAIN job /\ \A j \in DOMAIN job : Forms(job[j], job'[j])
  BY TurnsForms DEF Turns
<1>2. ASSUME NEW k \in DOMAIN queue' PROVE InQueue(k)'
  <2>1. queue' = queue /\ InQueue(k)
    BY <1>2 DEF TaskInv
  <2>2. QED  BY <1>1, <2>1 DEF InQueue, Forms
<1>3. ASSUME NEW v \in Workers, HasTask(v)' PROVE HasTask(v) /\ thread'[v].job = thread[v].job
                                                  /\ JobOf(v)'.single = JobOf(v).single
  <2>1. HasTask(v) /\ thread'[v].job = thread[v].job
    BY <1>3 DEF HasTask, Turns
  <2>2. thread[v].job \in DOMAIN job
    BY <1>3, <2>1 DEF TaskInv, Worker
  <2>3. QED  BY <1>1, <2>1, <2>2 DEF JobOf, Forms
<1>4. ASSUME NEW v \in Workers, HasTask(v)', ~JobOf(v).single PROVE thread'[v].page = thread[v].page
  <2>1. CASE v = w
    <3>1. thread'[w].job # 0
      BY <1>4, <2>1 DEF HasTask
    <3>2. QED  BY <1>4, <2>1, <3>1
  <2>2. CASE v # w
    BY <1>4, <2>2 DEF Turns
  <2>3. QED  BY <2>1, <2>2
<1>5. OneOrOther'
  <2>1. ASSUME NEW k \in DOMAIN queue', NEW v \in Workers, HasTask(v)', queue'[k].job = thread'[v].job
        PROVE  ~JobOf(v)'.single /\ queue'[k].page # thread'[v].page
    <3>1. ~JobOf(v).single /\ queue[k].page # thread[v].page
      BY <1>3, <2>1 DEF TaskInv, OneOrOther
    <3>2. QED  BY <1>3, <1>4, <2>1, <3>1
  <2>2. QED  BY <2>1 DEF OneOrOther
<1>6. OneRuns'
  <2>1. ASSUME NEW u \in Workers, NEW v \in Workers, HasTask(u)', thread'[u].job = thread'[v].job, u # v
        PROVE  ~JobOf(v)'.single /\ thread'[u].page # thread'[v].page
    <3>1. HasTask(v)'
      BY <2>1 DEF HasTask
    <3>2. ~JobOf(v).single /\ thread[u].page # thread[v].page /\ JobOf(u) = JobOf(v)
      BY <1>3, <2>1, <3>1 DEF TaskInv, OneRuns, JobOf
    <3>3. QED  BY <1>3, <1>4, <2>1, <3>1, <3>2
  <2>2. QED  BY <2>1 DEF OneRuns
<1>7. OneQueued'
  BY DEF OneQueued, TaskInv
<1>8. QED  BY <1>2, <1>5, <1>6, <1>7

LEMMA PendingFinite ==
  ASSUME NEW j \in Nat, NEW A, NEW B, A \subseteq B, B \subseteq 1 .. j
  PROVE  /\ IsFiniteSet(A) /\ IsFiniteSet(B)
         /\ Cardinality(A) <= Cardinality(B) /\ Cardinality(B) <= j
         /\ Cardinality(A) \in Nat /\ Cardinality(B) \in Nat
         /\ A # B => Cardinality(A) < Cardinality(B)
<1>1. IsFiniteSet(1 .. j) /\ Cardinality(1 .. j) = j
  BY FS_Interval
<1>2. IsFiniteSet(B) /\ IsFiniteSet(A)
  BY <1>1, FS_Subset
<1>3. Cardinality(A) \in Nat /\ Cardinality(B) \in Nat
  BY <1>2, FS_CardinalityType
<1>4. A \in SUBSET B /\ B \in SUBSET (1 .. j)
  OBVIOUS
<1>5. Cardinality(A) <= Cardinality(B) /\ (Cardinality(A) = Cardinality(B) => A = B)
  BY <1>2, <1>4, FS_Subset
<1>6. Cardinality(B) <= j
  BY <1>1, <1>4, FS_Subset
<1>7. QED  BY <1>2, <1>3, <1>5, <1>6

\* The pages of job j that are not worker w's alone stay to be counted.
LEMMA TurnsCount ==
  ASSUME TaskInv, Shape', NEW w \in Workers, Turns(w), queue' = queue, Worker(w)', Calls',
         \/ thread'[w].job = 0
         \/ /\ thread'[w].job = thread[w].job
            /\ thread'[w].page = thread[w].page \/ JobOf(w).single,
         ~At(w, "last")',
         \A j \in DOMAIN job :
           /\ job'[j].processed = job[j].processed /\ (job[j].done => job'[j].done)
           /\ Pending(j)' \subseteq Pending(j)
           /\ job'[j].done => job[j].done \/ Pending(j)' = {}
           /\ job'[j].done # job[j].done => At(w, "last") /\ thread[w].job = j
  PROVE  TaskInv'
<1>1. /\ DOMAIN job' = DOMAIN job /\ JobsListed' /\ JobForms'
      /\ \A j \in DOMAIN job : Forms(job[j], job'[j])
      /\ \A v \in Workers \ {w} : Worker(v)' /\ thread'[v] = thread[v]
  BY TurnsForms DEF Turns
<1>2. (\A k \in DOMAIN queue' : InQueue(k)') /\ OneQueued' /\ OneOrOther' /\ OneRuns'
  BY TurnsOnce
<1>3. Counts'
  <2>1. ASSUME NEW j \in DOMAIN job'
        PROVE  /\ ~job'[j].done => /\ j \in Listed'
                                   /\ job'[j].processed + Cardinality(Pending(j)') <= Len(job'[j].pages)
               /\ job'[j].done => Pending(j)' = {}
    <3>1. /\ job'[j].processed = job[j].processed /\ (job[j].done => job'[j].done)
          /\ Pending(j)' \subseteq Pending(j) /\ Len(job'[j].pages) = Len(job[j].pages)
          /\ job'[j].done => job[j].done \/ Pending(j)' = {}
      BY <1>1, <2>1 DEF Forms
    <3>2. /\ ~job[j].done => j \in Listed /\ job[j].processed + Cardinality(Pending(j)) <= Len(job[j].pages)
          /\ job[j].done => Pending(j) = {}
      BY <1>1, <2>1 DEF TaskInv, Counts
    <3>3. /\ Cardinality(Pending(j)') <= Cardinality(Pending(j))
          /\ Cardinality(Pending(j)') \in Nat /\ Cardinality(Pending(j)) \in Nat
      <4>1. Pending(j) \subseteq 1 .. Len(job[j].pages) /\ Len(job[j].pages) \in Nat
        BY <1>1, <2>1, JobPlaces DEF TaskInv, Pending
      <4>2. QED  BY <3>1, <4>1, PendingFinite
    <3>4. job[j].processed \in Nat /\ Len(job[j].pages) \in Nat
      BY <1>1, <2>1, JobPlaces DEF TaskInv
    <3>5. Listed' = Listed
      BY DEF Listed, Turns
    <3>6. QED  BY <3>1, <3>2, <3>3, <3>4, <3>5
  <2>2. QED  BY <2>1 DEF Counts
<1>4. Lasts' /\ LastAlone'
  <2>1. ASSUME NEW v \in Workers, At(v, "last")' PROVE v # w /\ thread'[v] = thread[v]
    BY <1>1, <2>1
  <2>2. ASSUME NEW v \in Workers, NEW j \in DOMAIN job', At(v, "last")', thread'[v].job = j
        PROVE  ~job'[j].done /\ Pending(j)' = {}
    <3>1. v # w /\ At(v, "last") /\ thread[v].job = j /\ j \in DOMAIN job
      BY <1>1, <2>1, <2>2
    <3>2. ~job[j].done /\ Pending(j) = {}
      BY <3>1 DEF TaskInv, Lasts
    <3>3. ~(At(w, "last") /\ thread[w].job = j)
      BY <3>1 DEF TaskInv, LastAlone
    <3>4. job'[j].done = job[j].done /\ Pending(j)' \subseteq Pending(j)
      BY <3>1, <3>3
    <3>5. QED  BY <3>2, <3>4
  <2>3. Lasts'
    BY <2>2 DEF Lasts
  <2>4. LastAlone'
    BY <2>1 DEF LastAlone, TaskInv
  <2>5. QED  BY <2>3, <2>4
<1>5. QED  BY <1>1, <1>2, <1>3, <1>4 DEF TaskInv

LEMMA SameLength ==
  ASSUME NEW S, NEW s \in Seq(S), NEW T, NEW u \in Seq(T), DOMAIN s = DOMAIN u
  PROVE  Len(s) = Len(u)
<1>1. 1 .. Len(s) = 1 .. Len(u) /\ Len(s) \in Nat /\ Len(u) \in Nat
  OBVIOUS
<1>2. Len(s) <= Len(u)
  <2>1. CASE Len(s) = 0
    BY <1>1, <2>1
  <2>2. CASE Len(s) > 0
    <3>1. Len(s) \in 1 .. Len(s)
      BY <1>1, <2>2
    <3>2. Len(s) \in 1 .. Len(u)
      BY <1>1, <3>1
    <3>3. QED  BY <1>1, <3>2
  <2>3. QED  BY <1>1, <2>1, <2>2
<1>3. Len(u) <= Len(s)
  <2>1. CASE Len(u) = 0
    BY <1>1, <2>1
  <2>2. CASE Len(u) > 0
    <3>1. Len(u) \in 1 .. Len(u)
      BY <1>1, <2>2
    <3>2. Len(u) \in 1 .. Len(s)
      BY <1>1, <3>1
    <3>3. QED  BY <1>1, <3>2
  <2>3. QED  BY <1>1, <2>1, <2>2
<1>4. QED  BY <1>1, <1>2, <1>3

\* A worker whose record changes, and that alone.
LEMMA TurnsThread ==
  ASSUME Shape, NEW w \in Workers, NEW r, thread' = [thread EXCEPT ![w] = r]
  PROVE  thread'[w] = r /\ \A v \in Workers \ {w} : thread'[v] = thread[v]
<1>1. w \in Threads /\ Workers \subseteq Threads /\ DOMAIN thread = Threads
  BY Constants DEF Shape
<1>2. QED  BY <1>1

\* The record of one job changes.
LEMMA OneJob ==
  ASSUME Shape, Shape', NEW j, NEW r, job' = [job EXCEPT ![j] = r]
  PROVE  /\ DOMAIN job' = DOMAIN job /\ Len(job') = Len(job)
         /\ \A k \in DOMAIN job : job'[k] = IF k = j THEN r ELSE job[k]
<1>1. job \in Seq(JobRecord) /\ job' \in Seq(JobRecord)
  BY DEF Shape
<1>2. DOMAIN job' = DOMAIN job
  BY <1>1
<1>3. QED  BY <1>1, <1>2, SameLength

LEMMA MarkTasks ==
  ASSUME TaskInv, Shape', Calls', NEW w \in Workers, MarkJobAsDone(w)
  PROVE  TaskInv'
<1>1. PICK j : j = thread[w].job
  OBVIOUS
<1>2. Shape /\ thread[w].pc = "last" /\ Worker(w) /\ HasTask(w)
  BY DEF TaskInv, MarkJobAsDone, Worker, HasTask
<1>3. j \in DOMAIN job /\ thread[w].page \in 1 .. Len(job[j].pages)
  BY <1>1, <1>2 DEF Worker, JobOf
<1>4. /\ thread' = [thread EXCEPT ![w] = [thread[w] EXCEPT !.pc = "after"]]
      /\ job' = [job EXCEPT ![j] = [job[j] EXCEPT !.done = TRUE]]
      /\ queue' = queue /\ listed' = listed
  BY <1>1 DEF MarkJobAsDone, GoTo
<1>5. /\ DOMAIN job' = DOMAIN job /\ Len(job') = Len(job)
      /\ \A k \in DOMAIN job : job'[k] = IF k = j THEN [job[j] EXCEPT !.done = TRUE] ELSE job[k]
  BY <1>2, <1>4, OneJob
<1>6. /\ thread'[w] = [thread[w] EXCEPT !.pc = "after"]
      /\ \A v \in Workers \ {w} : thread'[v] = thread[v]
  BY <1>2, <1>4, TurnsThread
<1>7. \A k \in DOMAIN job : job[k] \in JobRecord
  BY <1>2, JobPlaces
<1>8. thread[w] \in ThreadRecord
  BY <1>2, Constants DEF Shape
<1>9. /\ thread'[w].pc = "after" /\ thread'[w].job = j /\ thread'[w].page = thread[w].page
      /\ thread'[w].failed = thread[w].failed
  BY <1>1, <1>6, <1>8 DEF ThreadRecord
<1>10. \A k \in DOMAIN job :
         /\ Forms(job[k], job'[k]) /\ job'[k].processed = job[k].processed
         /\ job'[k].done = IF k = j THEN TRUE ELSE job[k].done
  <2>1. PICK r \in JobRecord : r = job[j]
    BY <1>3, <1>7
  <2>2. job'[j] = [r EXCEPT !.done = TRUE]
    BY <1>3, <1>5, <2>1
  <2>3. /\ Forms(r, job'[j]) /\ job'[j].processed = r.processed /\ job'[j].done = TRUE
    BY <2>2 DEF Forms, JobRecord
  <2>4. QED  BY <1>5, <2>1, <2>3 DEF Forms
<1>11. Turns(w)
  BY <1>4, <1>5, <1>6, <1>10 DEF Turns
<1>12. ASSUME NEW k \in DOMAIN job PROVE Pending(k)' \subseteq Pending(k)
  <2>1. ASSUME NEW i, i \in DOMAIN job[k].pages, Carries(w, k, i)' PROVE Carries(w, k, i)
    BY <1>1, <1>2, <1>9, <1>10, <2>1 DEF Carries, Uses, UsingJob, Forms
  <2>2. \A i : Queued(k, i)' <=> Queued(k, i)
    BY <1>4 DEF Queued
  <2>3. DOMAIN job'[k].pages = DOMAIN job[k].pages
    BY <1>11, TurnsForms
  <2>4. QED  BY <1>11, <2>1, <2>2, <2>3, TurnsCarry DEF Pending
<1>13. ~job[j].done /\ Pending(j) = {}
  <2>1. Lasts
    BY DEF TaskInv
  <2>2. \A k \in DOMAIN job : At(w, "last") /\ thread[w].job = k => ~job[k].done /\ Pending(k) = {}
    BY <2>1 DEF Lasts
  <2>3. thread[w].pc = "last" /\ j = thread[w].job /\ j \in DOMAIN job
    BY <1>1, <1>2, <1>3
  <2>4. QED  BY <2>2, <2>3
<1>14. Worker(w)'
  <2>1. j # 0 /\ j \in DOMAIN job' /\ Len(job'[j].pages) = Len(job[j].pages)
    BY <1>1, <1>2, <1>3, <1>5, <1>10 DEF HasTask, Forms
  <2>2. QED  BY <1>3, <1>9, <2>1 DEF Worker, HasTask, JobOf, WorkerPositions
<1>15. QED
  BY <1>1, <1>2, <1>4, <1>9, <1>10, <1>11, <1>12, <1>13, <1>14, TurnsCount

-----------------------------------------------------------------------------
(* What an action changes.                                                 *)

\* The tasks notice no difference between job and J.
Kept(J) ==
  J \in Seq(JobRecord) /\ Len(J) = Len(job) /\ \A k \in DOMAIN job : Stays(job[k], J[k])

LEMMA ReplaceOne ==
  ASSUME NEW S, NEW s \in Seq(S), NEW j, NEW r, j \in DOMAIN s => r \in S
  PROVE  /\ [s EXCEPT ![j] = r] \in Seq(S) /\ Len([s EXCEPT ![j] = r]) = Len(s)
         /\ DOMAIN [s EXCEPT ![j] = r] = DOMAIN s
         /\ \A k \in DOMAIN s : [s EXCEPT ![j] = r][k] = IF k = j THEN r ELSE s[k]
<1> DEFINE u == [s EXCEPT ![j] = r]
<1>1. DOMAIN s = 1 .. Len(s) /\ Len(s) \in Nat /\ \A k \in 1 .. Len(s) : s[k] \in S
  OBVIOUS
<1>2. DOMAIN u = DOMAIN s /\ \A k \in DOMAIN s : u[k] = IF k = j THEN r ELSE s[k]
  OBVIOUS
<1>3. u \in [1 .. Len(s) -> S]
  BY <1>1
<1>4. u \in Seq(S) /\ Len(u) = Len(s)
  BY <1>1, <1>3, LenProperties, SeqDef
<1>5. QED  BY <1>2, <1>4

LEMMA ReplaceValue ==
  ASSUME NEW D, NEW S, NEW f \in [D -> S], NEW j, NEW r, j \in D => r \in S
  PROVE  /\ [f EXCEPT ![j] = r] \in [D -> S]
         /\ \A k \in D : [f EXCEPT ![j] = r][k] = IF k = j THEN r ELSE f[k]
<1>1. CASE j \in D
  BY <1>1
<1>2. CASE j \notin D
  <2>1. [f EXCEPT ![j] = r] = f
    BY <1>2
  <2>2. QED  BY <1>2, <2>1
<1>3. QED  BY <1>1, <1>2

LEMMA CancelsJob ==
  ASSUME Shape, NEW J, Kept(J), NEW j
  PROVE  /\ Kept([J EXCEPT ![j].cancelled = TRUE])
         /\ \A k \in DOMAIN job :
              [J EXCEPT ![j].cancelled = TRUE][k]
                = IF k = j THEN [J[j] EXCEPT !.cancelled = TRUE] ELSE J[k]
<1> DEFINE r == [J[j] EXCEPT !.cancelled = TRUE]
           K == [J EXCEPT ![j] = r]
<1>1. J \in Seq(JobRecord) /\ Len(J) = Len(job) /\ DOMAIN J = DOMAIN job
  BY JobPlaces DEF Kept
<1>2. [J EXCEPT ![j].cancelled = TRUE] = K
  BY <1>1
<1>3. ASSUME j \in DOMAIN job PROVE r \in JobRecord /\ Stays(job[j], r)
  <2>1. PICK q \in JobRecord : q = J[j]
    BY <1>1, <1>3
  <2>2. [q EXCEPT !.cancelled = TRUE] \in JobRecord /\ Stays(q, [q EXCEPT !.cancelled = TRUE])
    BY DEF JobRecord, Stays
  <2>3. Stays(job[j], q)
    BY <1>3, <2>1 DEF Kept
  <2>4. r \in JobRecord /\ Stays(q, r)
    BY <2>1, <2>2
  <2>5. QED  BY <2>3, <2>4 DEF Stays
<1>4. /\ K \in Seq(JobRecord) /\ Len(K) = Len(J) /\ DOMAIN K = DOMAIN J
      /\ \A k \in DOMAIN J : K[k] = IF k = j THEN r ELSE J[k]
  <2>1. j \in DOMAIN J => r \in JobRecord
    BY <1>1, <1>3
  <2> HIDE DEF r
  <2>2. QED  BY <1>1, <2>1, ReplaceOne
<1>5. Kept(K)
  <2>1. ASSUME NEW k \in DOMAIN job PROVE Stays(job[k], K[k])
    BY <1>1, <1>3, <1>4, <2>1 DEF Kept
  <2>2. QED  BY <1>1, <1>4, <2>1 DEF Kept
<1>6. QED  BY <1>1, <1>2, <1>4, <1>5

LEMMA StaysItself ==
  ASSUME Shape
  PROVE  Kept(job)
BY JobPlaces DEF Kept, Stays, Shape, JobRecord

LEMMA DeletesJob ==
  ASSUME Shape, NEW j, IsDone(j)
  PROVE  /\ Kept(Deleted(job, j))
         /\ \A k \in DOMAIN job : k # j => Deleted(job, j)[k] = job[k]
         /\ j \in DOMAIN job =>
              /\ Deleted(job, j)[j].pages = [i \in DOMAIN job[j].pages |-> NoChunk]
              /\ Deleted(job, j)[j].done = TRUE /\ Deleted(job, j)[j].target = job[j].target
              /\ Deleted(job, j)[j].cancelled = job[j].cancelled
              /\ Deleted(job, j)[j].accessor = job[j].accessor
              /\ Deleted(job, j)[j].fails = job[j].fails
<1> DEFINE blank(q) == [q EXCEPT !.pages = [i \in DOMAIN q.pages |-> NoChunk], !.future = <<>>,
                                 !.processed = 0, !.error = FALSE, !.given = 0]
           r == blank(job[j])
           K == [job EXCEPT ![j] = r]
<1>1. job \in Seq(JobRecord)
  BY DEF Shape
<1>2. Deleted(job, j) = K
  BY DEF Deleted
<1>3. ASSUME j \in DOMAIN job
      PROVE  /\ r \in JobRecord /\ Stays(job[j], r)
             /\ r.pages = [i \in DOMAIN job[j].pages |-> NoChunk]
             /\ r.done = TRUE /\ r.target = job[j].target /\ r.cancelled = job[j].cancelled
             /\ r.accessor = job[j].accessor /\ r.fails = job[j].fails
  <2>1. PICK q \in JobRecord : q = job[j]
    BY <1>1, <1>3
  <2>2. q.pages \in Seq(Chunks \cup {NoChunk})
    BY DEF JobRecord
  <2>3. PICK P : P = [i \in DOMAIN q.pages |-> NoChunk]
    OBVIOUS
  <2>4. P \in Seq(Chunks \cup {NoChunk}) /\ Len(P) = Len(q.pages)
    <3>1. DOMAIN q.pages = 1 .. Len(q.pages) /\ Len(q.pages) \in Nat
      BY <2>2
    <3>2. P \in [1 .. Len(q.pages) -> Chunks \cup {NoChunk}]
      BY <2>3, <3>1
    <3>3. QED  BY <3>1, <3>2, SeqDef, LenProperties
  <2>5. blank(q) = [q EXCEPT !.pages = P, !.future = <<>>, !.processed = 0, !.error = FALSE, !.given = 0]
    BY <2>3 DEF JobRecord
  <2>6. <<>> \in Seq({"none", "ok", "error"})
    OBVIOUS
  <2>7. /\ [q EXCEPT !.pages = P, !.future = <<>>, !.processed = 0, !.error = FALSE, !.given = 0] \in JobRecord
        /\ Stays(q, blank(q)) /\ blank(q).pages = P
        /\ blank(q).done = q.done /\ blank(q).target = q.target /\ blank(q).cancelled = q.cancelled
        /\ blank(q).accessor = q.accessor /\ blank(q).fails = q.fails
    <3> HIDE DEF blank
    <3>1. q.done = TRUE
      BY <2>1 DEF IsDone, JobRecord
    <3>2. QED  BY <2>4, <2>5, <2>6, <3>1 DEF JobRecord, Stays
  <2>8. r = blank(q) /\ q.done = TRUE
    BY <2>1 DEF IsDone, JobRecord
  <2> HIDE DEF r, blank
  <2>9. QED  BY <2>1, <2>3, <2>5, <2>7, <2>8
<1>4. /\ K \in Seq(JobRecord) /\ Len(K) = Len(job) /\ DOMAIN K = DOMAIN job
      /\ \A k \in DOMAIN job : K[k] = IF k = j THEN r ELSE job[k]
  <2>1. j \in DOMAIN job => r \in JobRecord
    BY <1>3
  <2> HIDE DEF r
  <2>2. QED  BY <1>1, <2>1, ReplaceOne
<1> HIDE DEF r, blank, K
<1>5. Kept(K)
  <2>1. ASSUME NEW k \in DOMAIN job PROVE Stays(job[k], K[k])
    BY <1>3, <1>4, <2>1, StaysItself DEF Kept
  <2>2. QED  BY <1>4, <2>1 DEF Kept
<1>6. QED  BY <1>2, <1>3, <1>4, <1>5

\* Taking a job that is done out of the list.
LEMMA ErasesJob ==
  ASSUME TaskInv, NEW j, IsDone(j), EraseJob(j)
  PROVE  ListStays /\ listed' \in Seq(Jobs) /\ Listed' = Listed \ {j}
<1>1. listed \in Seq(Jobs) /\ Distinct(listed) /\ listed' = Erase(listed, j)
  BY DEF TaskInv, Shape, JobsListed, EraseJob
<1>2. listed' \in Seq(Jobs) /\ Distinct(listed') /\ ToSet(listed') = ToSet(listed) \ {j}
  BY <1>1, EraseOne
<1>3. Listed' = Listed \ {j}
  BY <1>2 DEF Listed
<1>4. QED  BY <1>2, <1>3 DEF ListStays, IsDone

LEMMA ListItself ==
  ASSUME TaskInv, UNCHANGED listed
  PROVE  ListStays /\ Listed' = Listed
BY DEF ListStays, TaskInv, JobsListed, Listed

\* Thread t goes to position pc.
Moves(t, pc, waitsFor, failed) ==
  /\ thread' \in [Threads -> ThreadRecord]
  /\ \A u \in Threads \ {t} : thread'[u] = thread[u]
  /\ thread'[t].pc = pc /\ thread'[t].waitsFor = waitsFor /\ thread'[t].failed = failed
  /\ thread'[t].job = thread[t].job /\ thread'[t].page = thread[t].page
  /\ thread'[t].request = thread[t].request /\ thread'[t].pages = thread[t].pages
  /\ thread'[t].outer = thread[t].outer /\ thread'[t].refused = thread[t].refused

LEMMA MoveOn ==
  ASSUME Shape, NEW t \in Threads, NEW pc \in ClientPositions \cup WorkerPositions,
         NEW waitsFor \in Jobs \cup {0}, NEW failed \in BOOLEAN,
         \/ /\ thread' = [thread EXCEPT ![t].pc = pc]
            /\ waitsFor = thread[t].waitsFor /\ failed = thread[t].failed
         \/ /\ thread' = [thread EXCEPT ![t].pc = pc, ![t].waitsFor = waitsFor]
            /\ failed = thread[t].failed
         \/ /\ thread' = [thread EXCEPT ![t].pc = pc, ![t].failed = failed]
            /\ waitsFor = thread[t].waitsFor
         \/ /\ thread' = [thread EXCEPT ![t].failed = failed]
            /\ pc = thread[t].pc /\ waitsFor = thread[t].waitsFor
         \/ thread' = [thread EXCEPT ![t].pc = pc, ![t].waitsFor = waitsFor, ![t].failed = failed]
  PROVE  Moves(t, pc, waitsFor, failed)
<1>1. thread \in [Threads -> ThreadRecord]
  BY DEF Shape
<1>2. PICK r \in ThreadRecord : r = thread[t]
  BY <1>1
<1>3. PICK s : s = [r EXCEPT !.pc = pc, !.waitsFor = waitsFor, !.failed = failed]
  OBVIOUS
<1>4. /\ s \in ThreadRecord
      /\ s.pc = pc /\ s.waitsFor = waitsFor /\ s.failed = failed
      /\ s.job = r.job /\ s.page = r.page /\ s.request = r.request
      /\ s.pages = r.pages /\ s.outer = r.outer /\ s.refused = r.refused
  BY <1>3 DEF ThreadRecord
<1>5. thread' = [thread EXCEPT ![t] = s]
  <2>1. /\ [r EXCEPT !.pc = pc, !.waitsFor = r.waitsFor, !.failed = r.failed] = [r EXCEPT !.pc = pc]
        /\ [r EXCEPT !.pc = pc, !.waitsFor = waitsFor, !.failed = r.failed] = [r EXCEPT !.pc = pc, !.waitsFor = waitsFor]
        /\ [r EXCEPT !.pc = pc, !.waitsFor = r.waitsFor, !.failed = failed] = [r EXCEPT !.pc = pc, !.failed = failed]
        /\ [r EXCEPT !.pc = r.pc, !.waitsFor = r.waitsFor, !.failed = failed] = [r EXCEPT !.failed = failed]
    BY DEF ThreadRecord
  <2>2. CASE /\ thread' = [thread EXCEPT ![t].pc = pc]
             /\ waitsFor = thread[t].waitsFor /\ failed = thread[t].failed
    BY <1>1, <1>2, <1>3, <2>1, <2>2
  <2>3. CASE /\ thread' = [thread EXCEPT ![t].pc = pc, ![t].waitsFor = waitsFor]
             /\ failed = thread[t].failed
    BY <1>1, <1>2, <1>3, <2>1, <2>3
  <2>4. CASE /\ thread' = [thread EXCEPT ![t].pc = pc, ![t].failed = failed]
             /\ waitsFor = thread[t].waitsFor
    BY <1>1, <1>2, <1>3, <2>1, <2>4
  <2>5. CASE /\ thread' = [thread EXCEPT ![t].failed = failed]
             /\ pc = thread[t].pc /\ waitsFor = thread[t].waitsFor
    BY <1>1, <1>2, <1>3, <2>1, <2>5
  <2>6. CASE thread' = [thread EXCEPT ![t].pc = pc, ![t].waitsFor = waitsFor, ![t].failed = failed]
    BY <1>1, <1>2, <1>3, <2>6
  <2>7. QED  BY <2>2, <2>3, <2>4, <2>5, <2>6
<1>6. QED  BY <1>1, <1>2, <1>4, <1>5 DEF Moves

-----------------------------------------------------------------------------
(* The steps of a worker that has a page.                                  *)

LEMMA CallsStay ==
  ASSUME Calls, UNCHANGED pagesMutex, \A t \in Clients : thread'[t] = thread[t]
  PROVE  Calls'
<1>1. ASSUME NEW t \in Clients PROVE Call(t)' /\ Outer(t)'
  <2>1. Call(t) /\ Outer(t) /\ thread'[t] = thread[t] /\ pagesMutex' = pagesMutex
    BY <1>1 DEF Calls
  <2>2. Call(t)'
    BY <2>1 DEF Call
  <2>3. Outer(t)'
    BY <2>1 DEF Outer
  <2>4. QED  BY <2>2, <2>3
<1>2. QED  BY <1>1 DEF Calls

LEMMA WorkerRests ==
  ASSUME TaskInv, Shape', NEW w \in Workers, thread[w].pc \in Carrying,
         NEW pc \in Carrying, NEW waitsFor, NEW failed, Moves(w, pc, waitsFor, failed),
         Kept(job'), ListStays, UNCHANGED <<queue, pagesMutex>>
  PROVE  TaskInv'
<1>1. \A t \in Clients : thread'[t] = thread[t]
  BY Constants DEF Moves
<1>2. Calls'
  BY <1>1, CallsStay DEF TaskInv
<1>3. JobsStay
  BY DEF Kept, JobsStay
<1>4. \A v \in Workers : WorkerStays(v)
  BY Constants DEF Moves, WorkerStays
<1>5. Rests
  BY <1>3, <1>4 DEF Rests
<1>6. QED  BY <1>2, <1>5, RestsTasks

LEMMA WorkersPage ==
  ASSUME TaskInv, NEW w \in Workers, ~At(w, "idle")
  PROVE  /\ w \in Threads /\ thread[w] \in ThreadRecord
         /\ thread[w].job \in DOMAIN job /\ thread[w].page \in DOMAIN JobOf(w).pages
         /\ thread[w].job # 0
         /\ PageOf(w) \in Chunks \cup {NoChunk}
         /\ thread[w].waitsFor \in Jobs \cup {0} /\ thread[w].failed \in BOOLEAN
<1>1. Shape /\ Worker(w) /\ w \in Threads
  BY Constants DEF TaskInv
<1>2. thread[w] \in ThreadRecord
  BY <1>1 DEF Shape
<1>3. thread[w].job \in DOMAIN job /\ thread[w].page \in 1 .. Len(JobOf(w).pages) /\ thread[w].job # 0
  BY <1>1 DEF Worker, HasTask
<1>4. JobOf(w) \in JobRecord /\ DOMAIN JobOf(w).pages = 1 .. Len(JobOf(w).pages)
  BY <1>1, <1>3, JobPlaces DEF JobOf
<1>5. PageOf(w) \in Chunks \cup {NoChunk}
  BY <1>3, <1>4 DEF PageOf, JobRecord
<1>6. QED  BY <1>1, <1>2, <1>3, <1>4, <1>5 DEF ThreadRecord

LEMMA FindErrorTasks ==
  ASSUME TaskInv, NEW w \in Workers, FindError(w)
  PROVE  TaskInv' /\ Moves(w, "page", thread[w].waitsFor, TRUE)
<1>1. /\ Shape /\ w \in Threads /\ thread[w].job \in DOMAIN job /\ thread[w].pc = "page"
      /\ thread[w].waitsFor \in Jobs \cup {0}
  BY WorkersPage DEF TaskInv, FindError
<1>2. thread' = [thread EXCEPT ![w].failed = TRUE]
  BY DEF FindError
<1>3. Moves(w, "page", thread[w].waitsFor, TRUE)
  BY <1>1, <1>2, MoveOn DEF WorkerPositions
<1>4. Kept(job')
  <2>1. job' = [job EXCEPT ![thread[w].job].cancelled = TRUE]
    BY DEF FindError
  <2>2. QED  BY <1>1, <2>1, CancelsJob, StaysItself
<1>5. Shape'
  BY <1>1, <1>3, <1>4 DEF Shape, Moves, Kept, FindError, accessorVars, pageVars, history
<1>6. ListStays
  BY ListItself DEF FindError
<1>7. UNCHANGED <<queue, pagesMutex>>
  BY DEF FindError, accessorVars
<1>8. QED  BY <1>1, <1>3, <1>4, <1>5, <1>6, <1>7, WorkerRests DEF Carrying, UsingJob

LEMMA ForgetsPage ==
  ASSUME Shape, NEW j \in DOMAIN job, NEW i \in DOMAIN job[j].pages, ForgetPage(j, i)
  PROVE  /\ Kept(job')
         /\ \A k \in DOMAIN job : k # j => job'[k] = job[k]
         /\ job'[j].pages = [job[j].pages EXCEPT ![i] = NoChunk]
         /\ job'[j].done = job[j].done /\ job'[j].processed = job[j].processed
         /\ job'[j].cancelled = job[j].cancelled /\ job'[j].fails = job[j].fails
         /\ job'[j].future = job[j].future /\ job'[j].given = job[j].given
<1>1. job \in Seq(JobRecord)
  BY DEF Shape
<1>2. PICK q \in JobRecord : q = job[j]
  BY <1>1
<1>3. PICK P : P = [q.pages EXCEPT ![i] = NoChunk]
  OBVIOUS
<1>4. P \in Seq(Chunks \cup {NoChunk}) /\ Len(P) = Len(q.pages)
  <2>1. q.pages \in Seq(Chunks \cup {NoChunk})
    BY DEF JobRecord
  <2>2. NoChunk \in Chunks \cup {NoChunk}
    OBVIOUS
  <2>3. PICK p \in Seq(Chunks \cup {NoChunk}) : p = q.pages
    BY <2>1
  <2>4. [p EXCEPT ![i] = NoChunk] \in Seq(Chunks \cup {NoChunk}) /\ Len([p EXCEPT ![i] = NoChunk]) = Len(p)
    BY <2>2, ReplaceOne
  <2>5. QED  BY <1>3, <2>3, <2>4
<1>5. PICK r : r = [q EXCEPT !.pages = P]
  OBVIOUS
<1>6. /\ r \in JobRecord /\ Stays(q, r) /\ r.pages = P
      /\ r.done = q.done /\ r.processed = q.processed /\ r.cancelled = q.cancelled
      /\ r.fails = q.fails /\ r.future = q.future /\ r.given = q.given
  BY <1>4, <1>5 DEF JobRecord, Stays
<1>7. job' = [job EXCEPT ![j] = r]
  BY <1>1, <1>2, <1>3, <1>5 DEF ForgetPage
<1>8. /\ job' \in Seq(JobRecord) /\ Len(job') = Len(job)
      /\ \A k \in DOMAIN job : job'[k] = IF k = j THEN r ELSE job[k]
  BY <1>1, <1>6, <1>7, ReplaceOne
<1>9. Kept(job')
  <2>1. ASSUME NEW k \in DOMAIN job PROVE Stays(job[k], job'[k])
    BY <1>2, <1>6, <1>8, <2>1, StaysItself DEF Kept
  <2>2. QED  BY <1>8, <2>1 DEF Kept
<1>10. QED  BY <1>2, <1>3, <1>6, <1>8, <1>9

LEMMA CancelPageTasks ==
  ASSUME TaskInv, NEW w \in Workers, CancelPage(w)
  PROVE  /\ TaskInv'
         /\ \/ Moves(w, "cancelRemap", remapJob[PageOf(w)], thread[w].failed)
               /\ pins[PageOf(w)] = 1 /\ PageOf(w) \in TargetChunks /\ content[PageOf(w)] = "prepared"
            \/ Moves(w, "unpin", thread[w].waitsFor, thread[w].failed)
               /\ ~(pins[PageOf(w)] = 1 /\ PageOf(w) \in TargetChunks /\ content[PageOf(w)] = "prepared")
<1> DEFINE c == PageOf(w)
           last == pins[c] = 1 /\ c \in TargetChunks
<1>1. /\ Shape /\ w \in Threads /\ thread[w].job \in DOMAIN job /\ thread[w].pc = "page"
      /\ thread[w].waitsFor \in Jobs \cup {0} /\ thread[w].failed \in BOOLEAN
      /\ thread[w].page \in DOMAIN job[thread[w].job].pages
  BY WorkersPage DEF TaskInv, CancelPage, JobOf
<1>2. \/ Moves(w, "cancelRemap", remapJob[c], thread[w].failed) /\ last /\ content[c] = "prepared"
      \/ Moves(w, "unpin", thread[w].waitsFor, thread[w].failed) /\ ~(last /\ content[c] = "prepared")
  <2>1. CASE last /\ content[c] = "prepared"
    <3>1. thread' = [thread EXCEPT ![w].pc = "cancelRemap", ![w].waitsFor = remapJob[c]]
      BY <2>1 DEF CancelPage
    <3>2. remapJob[c] \in Jobs \cup {0}
      BY <1>1, <2>1 DEF Shape
    <3>3. QED  BY <1>1, <2>1, <3>1, <3>2, MoveOn DEF WorkerPositions
  <2>2. CASE ~(last /\ content[c] = "prepared")
    <3>1. thread' = [thread EXCEPT ![w].pc = "unpin"]
      BY <2>2 DEF CancelPage, GoTo
    <3>2. QED  BY <1>1, <2>2, <3>1, MoveOn DEF WorkerPositions
  <2>3. QED  BY <2>1, <2>2
<1>3. Kept(job')
  BY <1>1, ForgetsPage DEF CancelPage
<1>4. Shape'
  <2>1. pins' \in [Chunks -> Int]
    <3>1. pins \in [Chunks -> Int] /\ pins' = [pins EXCEPT ![c] = pins[c] - 1]
      BY <1>1 DEF CancelPage, Shape
    <3>2. PICK n : n = pins[c] - 1
      OBVIOUS
    <3>3. c \in Chunks => n \in Int
      BY <3>1, <3>2
    <3>4. QED  BY <3>1, <3>2, <3>3, ReplaceValue
  <2>2. content' \in [TargetChunks -> Contents]
    BY <1>1 DEF CancelPage, Shape, Contents
  <2>3. thread' \in [Threads -> ThreadRecord]
    BY <1>2 DEF Moves
  <2>4. QED  BY <1>1, <1>3, <2>1, <2>2, <2>3 DEF Shape, Kept, CancelPage, accessorVars, history
<1>5. ListStays
  BY ListItself DEF CancelPage
<1>6. UNCHANGED <<queue, pagesMutex>>
  BY DEF CancelPage, accessorVars
<1>7. TaskInv'
  BY <1>1, <1>2, <1>3, <1>4, <1>5, <1>6, WorkerRests DEF Carrying, UsingJob
<1>8. QED  BY <1>2, <1>7

LEMMA CancelRemapTasks ==
  ASSUME TaskInv, NEW w \in Workers, CancelRemap(w)
  PROVE  TaskInv' /\ Moves(w, "cancelWait", thread[w].waitsFor, thread[w].failed)
<1>1. /\ Shape /\ w \in Threads /\ thread[w].pc = "cancelRemap"
      /\ thread[w].waitsFor \in Jobs \cup {0} /\ thread[w].failed \in BOOLEAN
  BY WorkersPage DEF TaskInv, CancelRemap
<1>2. Moves(w, "cancelWait", thread[w].waitsFor, thread[w].failed)
  <2>1. thread' = [thread EXCEPT ![w].pc = "cancelWait"]
    BY DEF CancelRemap, GoTo
  <2>2. QED  BY <1>1, <2>1, MoveOn DEF WorkerPositions
<1>3. Kept(job')
  <2>1. job' = [job EXCEPT ![thread[w].waitsFor].cancelled = TRUE]
    BY DEF CancelRemap
  <2>2. QED  BY <1>1, <2>1, CancelsJob, StaysItself
<1>4. Shape'
  BY <1>1, <1>2, <1>3 DEF Shape, Moves, Kept, CancelRemap, accessorVars, pageVars, NotifyAll
<1>5. ListStays
  BY ListItself DEF CancelRemap
<1>6. UNCHANGED <<queue, pagesMutex>>
  BY DEF CancelRemap, accessorVars
<1>7. QED  BY <1>1, <1>2, <1>3, <1>4, <1>5, <1>6, WorkerRests DEF Carrying, UsingJob

LEMMA TakesResult ==
  ASSUME Shape, NEW j, TakeCompleted(j) \/ TakeCanceled(j)
  PROVE  result' \in [Jobs -> Results] /\ IsDone(j) /\ EraseJob(j)
<1>1. result \in [Jobs -> Results]
  BY DEF Shape
<1>2. PICK r : r \in Results /\ result' = [result EXCEPT ![j] = r]
  <2>1. CASE TakeCompleted(j)
    BY <2>1 DEF TakeCompleted, Results
  <2>2. CASE TakeCanceled(j)
    BY <2>2 DEF TakeCanceled, Results
  <2>3. QED  BY <2>1, <2>2
<1>3. result' \in [Jobs -> Results]
  BY <1>1, <1>2, ReplaceValue
<1>4. QED  BY <1>3 DEF TakeCompleted, TakeCanceled, MayComplete

LEMMA RemapCanceledTasks ==
  ASSUME TaskInv, NEW w \in Workers, RemapCanceled(w)
  PROVE  TaskInv' /\ Moves(w, "unpin", 0, thread[w].failed)
<1> DEFINE j == thread[w].waitsFor
<1>1. /\ Shape /\ w \in Threads /\ thread[w].pc = "cancelWait" /\ thread[w].failed \in BOOLEAN
  BY WorkersPage DEF TaskInv, RemapCanceled
<1>2. Moves(w, "unpin", 0, thread[w].failed)
  <2>1. thread' = [thread EXCEPT ![w].pc = "unpin", ![w].waitsFor = 0]
    BY DEF RemapCanceled
  <2>2. QED  BY <1>1, <2>1, MoveOn DEF WorkerPositions
<1>3. result' \in [Jobs -> Results] /\ IsDone(j) /\ EraseJob(j)
  BY <1>1, TakesResult DEF RemapCanceled
<1>4. Kept(job')
  BY <1>1, <1>3, DeletesJob DEF RemapCanceled
<1>5. ListStays /\ listed' \in Seq(Jobs)
  BY <1>3, ErasesJob
<1>6. Shape'
  BY <1>1, <1>2, <1>3, <1>4, <1>5 DEF Shape, Moves, Kept, RemapCanceled, accessorVars, pageVars
<1>7. UNCHANGED <<queue, pagesMutex>>
  BY DEF RemapCanceled, accessorVars
<1>8. QED  BY <1>1, <1>2, <1>4, <1>5, <1>6, <1>7, WorkerRests DEF Carrying, UsingJob

LEMMA FailsTo ==
  ASSUME TaskInv, NEW w \in Workers, NEW J, Kept(J), NEW failed \in BOOLEAN, FailTo(w, J, failed)
  PROVE  Moves(w, "unpin", 0, failed) /\ Kept(job')
<1>1. Shape /\ w \in Threads
  BY Constants DEF TaskInv
<1>2. Moves(w, "unpin", 0, failed)
  <2>1. thread' = [thread EXCEPT ![w].pc = "unpin", ![w].waitsFor = 0, ![w].failed = failed]
    BY DEF FailTo
  <2>2. QED  BY <1>1, <2>1, MoveOn DEF WorkerPositions
<1>3. job' = [J EXCEPT ![thread[w].job].cancelled = TRUE]
  BY DEF FailTo
<1>4. QED  BY <1>1, <1>2, <1>3, CancelsJob

LEMMA StartPageTasks ==
  ASSUME TaskInv, NEW w \in Workers, StartPage(w)
  PROVE  /\ TaskInv'
         /\ \/ /\ PageOf(w) \in SourceChunks /\ UNCHANGED <<content, job>>
               /\ Moves(w, "process", thread[w].waitsFor, thread[w].failed)
            \/ /\ PageOf(w) \in SourceChunks /\ UNCHANGED content /\ FailTo(w, job, TRUE)
               /\ Moves(w, "unpin", 0, TRUE)
            \/ /\ PageOf(w) \in TargetChunks /\ content[PageOf(w)] = "prepared"
               /\ content' = [content EXCEPT ![PageOf(w)] = "reading"] /\ UNCHANGED job
               /\ Moves(w, "remapWait", remapJob[PageOf(w)], thread[w].failed)
            \/ /\ PageOf(w) \in TargetChunks /\ content[PageOf(w)] \in {"reading", "read"}
               /\ UNCHANGED <<content, job>>
               /\ Moves(w, "await", thread[w].waitsFor, thread[w].failed)
<1> DEFINE c == PageOf(w)
<1>1. /\ Shape /\ w \in Threads /\ thread[w].pc = "page" /\ thread[w].failed \in BOOLEAN
      /\ thread[w].waitsFor \in Jobs \cup {0}
  BY WorkersPage DEF TaskInv, StartPage
<1>2. Kept(job)
  BY <1>1, StaysItself
<1>3. content \in [TargetChunks -> Contents]
  BY <1>1 DEF Shape
<1>4. \/ /\ c \in SourceChunks /\ UNCHANGED <<content, job>>
         /\ Moves(w, "process", thread[w].waitsFor, thread[w].failed)
      \/ /\ c \in SourceChunks /\ UNCHANGED content /\ FailTo(w, job, TRUE)
         /\ Moves(w, "unpin", 0, TRUE)
      \/ /\ c \in TargetChunks /\ content[c] = "prepared"
         /\ content' = [content EXCEPT ![c] = "reading"] /\ UNCHANGED job
         /\ Moves(w, "remapWait", remapJob[c], thread[w].failed)
      \/ /\ c \in TargetChunks /\ content[c] \in {"reading", "read"}
         /\ UNCHANGED <<content, job>>
         /\ Moves(w, "await", thread[w].waitsFor, thread[w].failed)
  <2>1. CASE c \in SourceChunks /\ GoTo(w, "process") /\ UNCHANGED <<content, job>>
    <3>1. thread' = [thread EXCEPT ![w].pc = "process"]
      BY <2>1 DEF GoTo
    <3>2. Moves(w, "process", thread[w].waitsFor, thread[w].failed)
      BY <1>1, <3>1, MoveOn DEF WorkerPositions
    <3>3. QED  BY <2>1, <3>2
  <2>2. CASE c \in SourceChunks /\ FailTo(w, job, TRUE) /\ UNCHANGED content
    <3>1. Moves(w, "unpin", 0, TRUE)
      BY <1>2, <2>2, FailsTo
    <3>2. QED  BY <2>2, <3>1
  <2>3. CASE /\ c \in TargetChunks /\ content[c] = "prepared"
             /\ content' = [content EXCEPT ![c] = "reading"]
             /\ thread' = [thread EXCEPT ![w].pc = "remapWait", ![w].waitsFor = remapJob[c]]
             /\ UNCHANGED job
    <3>1. remapJob[c] \in Jobs \cup {0}
      BY <1>1, <2>3 DEF Shape
    <3>2. thread' = [thread EXCEPT ![w].pc = "remapWait", ![w].waitsFor = remapJob[c]]
      BY <2>3
    <3>3. Moves(w, "remapWait", remapJob[c], thread[w].failed)
      BY <1>1, <3>1, <3>2, MoveOn DEF WorkerPositions
    <3>4. QED  BY <2>3, <3>3
  <2>4. CASE /\ c \in TargetChunks /\ content[c] \in {"reading", "read"}
             /\ GoTo(w, "await") /\ UNCHANGED <<content, job>>
    <3>1. thread' = [thread EXCEPT ![w].pc = "await"]
      BY <2>4 DEF GoTo
    <3>2. Moves(w, "await", thread[w].waitsFor, thread[w].failed)
      BY <1>1, <3>1, MoveOn DEF WorkerPositions
    <3>3. QED  BY <2>4, <3>2
  <2>5. QED  BY <2>1, <2>2, <2>3, <2>4 DEF StartPage
<1>5. PICK pc, waitsFor, failed : pc \in Carrying /\ Moves(w, pc, waitsFor, failed)
  BY <1>4 DEF Carrying, UsingJob
<1>6. Kept(job')
  <2>1. CASE UNCHANGED job
    BY <1>2, <2>1 DEF Kept
  <2>2. CASE FailTo(w, job, TRUE)
    BY <1>2, <2>2, FailsTo
  <2>3. QED  BY <1>4, <2>1, <2>2
<1>7. content' \in [TargetChunks -> Contents]
  BY <1>3, <1>4 DEF Contents
<1>8. Shape'
  BY <1>1, <1>5, <1>6, <1>7 DEF Shape, Moves, Kept, StartPage, accessorVars, history
<1>9. ListStays
  BY ListItself DEF StartPage
<1>10. UNCHANGED <<queue, pagesMutex>>
  BY DEF StartPage, accessorVars
<1>11. TaskInv'
  BY <1>1, <1>5, <1>6, <1>8, <1>9, <1>10, WorkerRests DEF Carrying, UsingJob
<1>12. QED  BY <1>4, <1>11

LEMMA AwaitReaderTasks ==
  ASSUME TaskInv, NEW w \in Workers, AwaitReader(w)
  PROVE  /\ TaskInv'
         /\ \/ /\ content[PageOf(w)] = "read" /\ UNCHANGED job
               /\ Moves(w, "process", thread[w].waitsFor, thread[w].failed)
            \/ /\ content[PageOf(w)] \notin {"read", "reading"} /\ FailTo(w, job, TRUE)
               /\ Moves(w, "unpin", 0, TRUE)
<1>1. /\ Shape /\ w \in Threads /\ thread[w].pc = "await" /\ thread[w].failed \in BOOLEAN
      /\ thread[w].waitsFor \in Jobs \cup {0}
  BY WorkersPage DEF TaskInv, AwaitReader
<1>2. Kept(job)
  BY <1>1, StaysItself
<1>3. \/ /\ content[PageOf(w)] = "read" /\ UNCHANGED job
         /\ Moves(w, "process", thread[w].waitsFor, thread[w].failed)
      \/ /\ content[PageOf(w)] \notin {"read", "reading"} /\ FailTo(w, job, TRUE)
         /\ Moves(w, "unpin", 0, TRUE)
  <2>1. CASE content[PageOf(w)] = "read" /\ GoTo(w, "process") /\ UNCHANGED job
    <3>1. thread' = [thread EXCEPT ![w].pc = "process"]
      BY <2>1 DEF GoTo
    <3>2. Moves(w, "process", thread[w].waitsFor, thread[w].failed)
      BY <1>1, <3>1, MoveOn DEF WorkerPositions
    <3>3. QED  BY <2>1, <3>2
  <2>2. CASE content[PageOf(w)] # "read" /\ FailTo(w, job, TRUE)
    <3>1. Moves(w, "unpin", 0, TRUE)
      BY <1>2, <2>2, FailsTo
    <3>2. QED  BY <2>2, <3>1 DEF AwaitReader
  <2>3. QED  BY <2>1, <2>2 DEF AwaitReader
<1>4. PICK pc, waitsFor, failed : pc \in Carrying /\ Moves(w, pc, waitsFor, failed)
  BY <1>3 DEF Carrying, UsingJob
<1>5. Kept(job')
  <2>1. CASE UNCHANGED job
    BY <1>2, <2>1 DEF Kept
  <2>2. CASE FailTo(w, job, TRUE)
    BY <1>2, <2>2, FailsTo
  <2>3. QED  BY <1>3, <2>1, <2>2
<1>6. Shape'
  BY <1>1, <1>4, <1>5 DEF Shape, Moves, Kept, AwaitReader, accessorVars, pageVars, history
<1>7. ListStays
  BY ListItself DEF AwaitReader
<1>8. UNCHANGED <<queue, pagesMutex>>
  BY DEF AwaitReader, accessorVars
<1>9. TaskInv'
  BY <1>1, <1>4, <1>5, <1>6, <1>7, <1>8, WorkerRests DEF Carrying, UsingJob
<1>10. QED  BY <1>3, <1>9

LEMMA RemapReturnsTasks ==
  ASSUME TaskInv, NEW w \in Workers, RemapReturns(w)
  PROVE  /\ TaskInv'
         /\ \/ /\ TakeCompleted(thread[w].waitsFor) /\ job' = Deleted(job, thread[w].waitsFor)
               /\ content' = [content EXCEPT ![PageOf(w)] = "read"]
               /\ Moves(w, "process", 0, thread[w].failed)
            \/ /\ TakeCanceled(thread[w].waitsFor)
               /\ content' = [content EXCEPT ![PageOf(w)] = "failed"]
               /\ FailTo(w, Deleted(job, thread[w].waitsFor), HasError(thread[w].waitsFor))
               /\ Moves(w, "unpin", 0, HasError(thread[w].waitsFor))
<1> DEFINE c == PageOf(w)
           j == thread[w].waitsFor
<1>1. /\ Shape /\ w \in Threads /\ thread[w].pc = "remapWait" /\ thread[w].failed \in BOOLEAN
      /\ IsDone(j)
  BY WorkersPage DEF TaskInv, RemapReturns
<1>2. Kept(Deleted(job, j))
  BY <1>1, DeletesJob
<1>3. HasError(j) \in BOOLEAN
  BY DEF HasError
<1>4. \/ /\ TakeCompleted(j) /\ job' = Deleted(job, j)
         /\ content' = [content EXCEPT ![c] = "read"]
         /\ Moves(w, "process", 0, thread[w].failed)
      \/ /\ TakeCanceled(j)
         /\ content' = [content EXCEPT ![c] = "failed"]
         /\ FailTo(w, Deleted(job, j), HasError(j)) /\ Moves(w, "unpin", 0, HasError(j))
  <2>1. CASE /\ TakeCompleted(j)
             /\ content' = [content EXCEPT ![c] = "read"]
             /\ job' = Deleted(job, j)
             /\ thread' = [thread EXCEPT ![w].pc = "process", ![w].waitsFor = 0]
    <3>1. thread' = [thread EXCEPT ![w].pc = "process", ![w].waitsFor = 0]
      BY <2>1
    <3>2. Moves(w, "process", 0, thread[w].failed)
      BY <1>1, <3>1, MoveOn DEF WorkerPositions
    <3>3. QED  BY <2>1, <3>2
  <2>2. CASE /\ ~MayComplete(j) /\ TakeCanceled(j)
             /\ content' = [content EXCEPT ![c] = "failed"]
             /\ FailTo(w, Deleted(job, j), HasError(j))
    <3>1. Moves(w, "unpin", 0, HasError(j))
      BY <1>2, <1>3, <2>2, FailsTo
    <3>2. QED  BY <2>2, <3>1
  <2>3. QED  BY <2>1, <2>2 DEF RemapReturns
<1>5. PICK pc, waitsFor, failed : pc \in Carrying /\ Moves(w, pc, waitsFor, failed)
  BY <1>4 DEF Carrying, UsingJob
<1>6. Kept(job')
  <2>1. CASE job' = Deleted(job, j)
    BY <1>2, <2>1
  <2>2. CASE FailTo(w, Deleted(job, j), HasError(j))
    BY <1>2, <1>3, <2>2, FailsTo
  <2>3. QED  BY <1>4, <2>1, <2>2
<1>7. content' \in [TargetChunks -> Contents]
  <2>1. content \in [TargetChunks -> Contents]
    BY <1>1 DEF Shape
  <2>2. PICK r \in {"read", "failed"} : content' = [content EXCEPT ![c] = r]
    BY <1>4
  <2>3. r \in Contents
    BY <2>2 DEF Contents
  <2>4. QED  BY <2>1, <2>2, <2>3, ReplaceValue
<1>8. result' \in [Jobs -> Results] /\ EraseJob(j)
  BY <1>1, <1>4, TakesResult
<1>9. ListStays /\ listed' \in Seq(Jobs)
  BY <1>1, <1>8, ErasesJob
<1>10. Shape'
  BY <1>1, <1>5, <1>6, <1>7, <1>8, <1>9 DEF Shape, Moves, Kept, RemapReturns, accessorVars
<1>11. UNCHANGED <<queue, pagesMutex>>
  BY DEF RemapReturns, accessorVars
<1>12. TaskInv'
  BY <1>1, <1>5, <1>6, <1>9, <1>10, <1>11, WorkerRests DEF Carrying, UsingJob
<1>13. QED  BY <1>4, <1>12

LEMMA ProcessPageTasks ==
  ASSUME TaskInv, NEW w \in Workers, ProcessPage(w)
  PROVE  /\ TaskInv' /\ \E failed : Moves(w, "unpin", thread[w].waitsFor, failed)
         /\ \A k \in DOMAIN job :
              /\ k # thread[w].job => job'[k] = job[k]
              /\ job'[k] = [job[k] EXCEPT !.given = job'[k].given]
              /\ k = thread[w].job => job'[k].given = job[k].given + 1
<1> DEFINE j == thread[w].job
<1>1. /\ Shape /\ w \in Threads /\ thread[w].pc = "process" /\ thread[w].failed \in BOOLEAN
      /\ thread[w].waitsFor \in Jobs \cup {0} /\ j \in DOMAIN job
  BY WorkersPage DEF TaskInv, ProcessPage
<1>2. PICK failed \in BOOLEAN : Moves(w, "unpin", thread[w].waitsFor, failed)
  <2>1. CASE GoTo(w, "unpin")
    <3>1. thread' = [thread EXCEPT ![w].pc = "unpin"]
      BY <2>1 DEF GoTo
    <3>2. QED  BY <1>1, <3>1, MoveOn DEF WorkerPositions
  <2>2. CASE thread' = [thread EXCEPT ![w].pc = "unpin", ![w].failed = TRUE]
    BY <1>1, <2>2, MoveOn DEF WorkerPositions
  <2>3. QED  BY <2>1, <2>2 DEF ProcessPage
<1>3. job \in Seq(JobRecord)
  BY <1>1 DEF Shape
<1>4. PICK q \in JobRecord : q = job[j]
  BY <1>1, <1>3
<1>5. PICK r : r = [q EXCEPT !.given = q.given + 1]
  OBVIOUS
<1>6. /\ r \in JobRecord /\ Stays(q, r) /\ r.given = q.given + 1
      /\ r = [q EXCEPT !.given = r.given] /\ \A s \in JobRecord : s = [s EXCEPT !.given = s.given]
  <2>1. q.given \in Nat /\ r.given = q.given + 1
    BY <1>5 DEF JobRecord
  <2>2. r \in JobRecord
    <3>1. PICK g \in Nat : g = q.given + 1
      BY <2>1
    <3>2. r = [q EXCEPT !.given = g]
      BY <1>5, <3>1
    <3>3. QED  BY <3>2 DEF JobRecord
  <2>3. Stays(q, r)
    BY <1>5 DEF JobRecord, Stays
  <2>4. r = [q EXCEPT !.given = r.given]
    BY <1>5, <2>1
  <2>5. \A s \in JobRecord : s = [s EXCEPT !.given = s.given]
    BY DEF JobRecord
  <2>6. QED  BY <2>1, <2>2, <2>3, <2>4, <2>5
<1>7. job' = [job EXCEPT ![j] = r]
  BY <1>1, <1>3, <1>4, <1>5 DEF ProcessPage
<1>8. /\ job' \in Seq(JobRecord) /\ Len(job') = Len(job)
      /\ \A k \in DOMAIN job : job'[k] = IF k = j THEN r ELSE job[k]
  BY <1>1, <1>3, <1>6, <1>7, ReplaceOne
<1>9. Kept(job')
  <2>1. ASSUME NEW k \in DOMAIN job PROVE Stays(job[k], job'[k])
    BY <1>1, <1>4, <1>6, <1>8, <2>1, StaysItself DEF Kept
  <2>2. QED  BY <1>8, <2>1 DEF Kept
<1>10. Shape'
  BY <1>1, <1>2, <1>9 DEF Shape, Moves, Kept, ProcessPage, accessorVars, pageVars, history
<1>11. ListStays
  BY ListItself DEF ProcessPage
<1>12. UNCHANGED <<queue, pagesMutex>>
  BY DEF ProcessPage, accessorVars
<1>13. TaskInv'
  BY <1>1, <1>2, <1>9, <1>10, <1>11, <1>12, WorkerRests DEF Carrying, UsingJob
<1>14. ASSUME NEW k \in DOMAIN job
       PROVE  /\ k # j => job'[k] = job[k]
              /\ job'[k] = [job[k] EXCEPT !.given = job'[k].given]
              /\ k = j => job'[k].given = job[k].given + 1
  <2>1. job[k] \in JobRecord
    BY <1>3, <1>14
  <2>2. QED  BY <1>4, <1>6, <1>8, <1>14, <2>1
<1>15. QED  BY <1>2, <1>13, <1>14

\* A page that nobody else has is counted.
LEMMA UnPinPageTasks ==
  ASSUME TaskInv, NEW w \in Workers, UnPinPage(w)
  PROVE  /\ TaskInv'
         /\ Moves(w, IF IsLastPage(thread[w].job) THEN "last" ELSE "after",
                  thread[w].waitsFor, thread[w].failed)
         /\ thread[w].page \in Pending(thread[w].job)
         /\ \A k \in DOMAIN job :
              /\ k # thread[w].job => job'[k] = job[k] /\ Pending(k)' = Pending(k)
              /\ job'[k] = [job[k] EXCEPT !.processed = job'[k].processed]
              /\ k = thread[w].job => Pending(k)' = Pending(k) \ {thread[w].page}
<1> DEFINE pc == IF IsLastPage(thread[w].job) THEN "last" ELSE "after"
<1>1. PICK j, p : j = thread[w].job /\ p = thread[w].page
  OBVIOUS
<1>2. /\ Shape /\ w \in Threads /\ thread[w].pc = "unpin" /\ thread[w].failed \in BOOLEAN
      /\ thread[w].waitsFor \in Jobs \cup {0} /\ j \in DOMAIN job /\ p \in DOMAIN job[j].pages
      /\ thread[w] \in ThreadRecord /\ j # 0
  BY <1>1, WorkersPage DEF TaskInv, UnPinPage, JobOf
<1>3. Moves(w, pc, thread[w].waitsFor, thread[w].failed)
  <2>1. thread' = [thread EXCEPT ![w].pc = pc]
    BY DEF UnPinPage, GoTo
  <2>2. pc \in ClientPositions \cup WorkerPositions
    BY DEF WorkerPositions
  <2> HIDE DEF pc
  <2>3. QED  BY <1>2, <2>1, <2>2, MoveOn
<1>4. job \in Seq(JobRecord)
  BY <1>2 DEF Shape
<1>5. PICK q \in JobRecord : q = job[j]
  BY <1>2, <1>4
<1>6. PICK r : r = [q EXCEPT !.processed = q.processed + 1]
  OBVIOUS
<1>7. /\ r \in JobRecord /\ Forms(q, r) /\ r.processed = q.processed + 1 /\ r.done = q.done
      /\ r.pages = q.pages
      /\ r = [q EXCEPT !.processed = r.processed]
      /\ \A s \in JobRecord : s = [s EXCEPT !.processed = s.processed] /\ Forms(s, s)
  <2>1. q.processed + 1 \in Nat
    BY <1>5 DEF JobRecord
  <2>2. r \in JobRecord /\ r.processed = q.processed + 1
    BY <1>6, <2>1 DEF JobRecord
  <2>3. /\ r.done = q.done /\ r.pages = q.pages /\ r.single = q.single
        /\ r.accessor = q.accessor /\ r.target = q.target
    BY <1>6 DEF JobRecord
  <2>4. r = [q EXCEPT !.processed = r.processed]
    BY <1>6, <2>2
  <2>5. \A s \in JobRecord : s = [s EXCEPT !.processed = s.processed]
    BY DEF JobRecord
  <2>6. \A s : Forms(s, s)
    BY DEF Forms
  <2>7. Forms(q, r)
    BY <2>3 DEF Forms
  <2>8. QED  BY <2>2, <2>3, <2>4, <2>5, <2>6, <2>7
<1>8. job' = [job EXCEPT ![j] = r]
  BY <1>1, <1>2, <1>4, <1>5, <1>6 DEF UnPinPage
<1>9. /\ job' \in Seq(JobRecord) /\ Len(job') = Len(job) /\ DOMAIN job' = DOMAIN job
      /\ \A k \in DOMAIN job : job'[k] = IF k = j THEN r ELSE job[k]
  <2> HIDE DEF pc
  <2>1. QED  BY <1>2, <1>4, <1>7, <1>8, ReplaceOne
<1>10. \A k \in DOMAIN job : /\ Forms(job[k], job'[k]) /\ job'[k].done = job[k].done
                             /\ job'[k].pages = job[k].pages
                             /\ job'[k] = [job[k] EXCEPT !.processed = job'[k].processed]
  <2>1. ASSUME NEW k \in DOMAIN job
        PROVE  /\ Forms(job[k], job'[k]) /\ job'[k].done = job[k].done
               /\ job'[k].pages = job[k].pages
               /\ job'[k] = [job[k] EXCEPT !.processed = job'[k].processed]
    <3>1. job[k] \in JobRecord
      BY <1>4, <2>1
    <3> HIDE DEF pc
    <3>2. QED  BY <1>5, <1>7, <1>9, <2>1, <3>1
  <2>2. QED  BY <2>1
<1>11. Shape'
  <2> HIDE DEF pc
  <2>1. pins' \in [Chunks -> Int]
    BY <1>2 DEF UnPinPage, Shape
  <2>2. QED  BY <1>2, <1>3, <1>9, <2>1 DEF Shape, Moves, UnPinPage, accessorVars, history
<1>12. Turns(w) /\ queue' = queue
  <2>1. queue' = queue /\ listed' = listed
    BY DEF UnPinPage
  <2>2. \A v \in Workers \ {w} : thread'[v] = thread[v]
    BY <1>3, Constants DEF Moves
  <2>3. QED  BY <1>9, <1>10, <2>1, <2>2 DEF Turns
<1>13. /\ thread'[w].pc \in {"last", "after"} /\ thread'[w].job = j /\ thread'[w].page = p
       /\ thread'[w].failed = thread[w].failed /\ thread'[w].pc = pc
  BY <1>1, <1>3 DEF Moves
<1> HIDE DEF pc
<1>14. ASSUME NEW k \in DOMAIN job, NEW i \in DOMAIN job[k].pages
       PROVE  /\ Carries(w, k, i) <=> k = j /\ (i = p \/ (job[j].single /\ p < i))
              /\ Carries(w, k, i)' <=> k = j /\ job[j].single /\ p < i
  <2>1. Carries(w, k, i) <=> k = j /\ (i = p \/ (job[j].single /\ p < i))
    BY <1>1, <1>2 DEF Carries, Uses, UsingJob
  <2>2. job'[k].single = job[k].single /\ job'[k].pages = job[k].pages
    BY <1>10, <1>14 DEF Forms
  <2>3. p \in Nat /\ i \in Nat /\ i <= Len(job[k].pages) /\ Len(job[k].pages) \in Nat
    <3>1. DOMAIN job[k].pages = 1 .. Len(job[k].pages) /\ Len(job[k].pages) \in Nat
      BY <1>2, <1>14, JobPlaces
    <3>2. DOMAIN job[j].pages = 1 .. Len(job[j].pages) /\ Len(job[j].pages) \in Nat
      BY <1>2, JobPlaces
    <3>3. QED  BY <1>2, <1>14, <3>1, <3>2
  <2>4. Uses(w, k)' => k = j
    BY <1>13 DEF Uses
  <2>5. k = j /\ job[j].single /\ p < i => Uses(w, k)'
    BY <1>13, <2>2, <2>3 DEF Uses, UsingJob
  <2>6. Carries(w, k, i)' <=> Uses(w, k)' /\ job[k].single /\ p < i
    BY <1>13, <2>2 DEF Carries
  <2>7. QED  BY <2>1, <2>4, <2>5, <2>6
<1>15. ~Queued(j, p) /\ ~Elsewhere(w, j, p)
  <2>1. ASSUME NEW k \in DOMAIN queue, queue[k].job = j, queue[k].page \in {0, p} PROVE FALSE
    <3>1. ~job[j].single /\ queue[k].page # p
      BY <1>1, <1>2, <2>1 DEF TaskInv, OneOrOther, HasTask, JobOf
    <3>2. queue[k].page = 0 <=> job[j].single
      BY <2>1 DEF TaskInv, InQueue
    <3>3. QED  BY <2>1, <3>1, <3>2
  <2>2. ASSUME NEW v \in Workers \ {w}, Carries(v, j, p) PROVE FALSE
    <3>1. thread[v].job = j
      BY <2>2 DEF Carries, Uses
    <3>2. ~job[j].single /\ thread[w].page # thread[v].page
      BY <1>1, <1>2, <3>1 DEF TaskInv, OneRuns, HasTask, JobOf
    <3>3. QED  BY <1>1, <2>2, <3>2 DEF Carries
  <2>3. QED  BY <2>1, <2>2 DEF Queued, Elsewhere
<1>16. /\ \A k \in DOMAIN job : k # j => Pending(k)' = Pending(k)
       /\ Pending(j)' = Pending(j) \ {p} /\ p \in Pending(j)
  <2>1. \A k \in DOMAIN job : DOMAIN job'[k].pages = DOMAIN job[k].pages
    BY <1>10
  <2>2. \A k, i : Queued(k, i)' <=> Queued(k, i)
    BY <1>12 DEF Queued
  <2>3. ASSUME NEW k \in DOMAIN job, NEW i \in DOMAIN job[k].pages
        PROVE  /\ HasPinned(k, i) <=> Queued(k, i) \/ Elsewhere(w, k, i)
                                      \/ (k = j /\ (i = p \/ (job[j].single /\ p < i)))
               /\ HasPinned(k, i)' <=> Queued(k, i) \/ Elsewhere(w, k, i)
                                       \/ (k = j /\ job[j].single /\ p < i)
    <3>1. /\ HasPinned(k, i) <=> Queued(k, i) \/ Carries(w, k, i) \/ Elsewhere(w, k, i)
          /\ HasPinned(k, i)' <=> Queued(k, i)' \/ Carries(w, k, i)' \/ Elsewhere(w, k, i)
      BY <1>12, TurnsCarry
    <3>2. QED  BY <1>14, <2>2, <3>1
  <2>4. \A k \in DOMAIN job : k # j => Pending(k)' = Pending(k)
    BY <2>1, <2>3 DEF Pending
  <2>5. ~(p < p)
    <3>1. p \in Nat
      BY <1>2, JobPlaces
    <3>2. QED  BY <3>1
  <2>6. Pending(j)' = Pending(j) \ {p} /\ p \in Pending(j)
    BY <1>2, <1>15, <2>1, <2>3, <2>5 DEF Pending
  <2>7. QED  BY <2>4, <2>6
<1>17. ~job[j].done /\ job[j].processed + Cardinality(Pending(j)) <= Len(job[j].pages) /\ j \in Listed
  BY <1>2, <1>16 DEF TaskInv, Counts
<1>18. /\ Cardinality(Pending(j)') = Cardinality(Pending(j)) - 1
       /\ Cardinality(Pending(j)) \in Nat /\ IsFiniteSet(Pending(j)')
  <2>1. Pending(j) \subseteq 1 .. Len(job[j].pages) /\ Len(job[j].pages) \in Nat
    BY <1>2, JobPlaces DEF Pending
  <2>2. IsFiniteSet(Pending(j)) /\ IsFiniteSet(Pending(j)') /\ Cardinality(Pending(j)) \in Nat
    BY <1>16, <2>1, PendingFinite
  <2>3. Cardinality(Pending(j) \ {p}) = Cardinality(Pending(j)) - 1
    BY <1>16, <2>2, FS_RemoveElement
  <2>4. QED  BY <1>16, <2>2, <2>3
<1>19. job'[j].processed = job[j].processed + 1 /\ job[j].processed \in Nat /\ Len(job[j].pages) \in Nat
  <2>1. job[j].processed \in Nat /\ Len(job[j].pages) \in Nat
    BY <1>2, JobPlaces
  <2>2. QED  BY <1>2, <1>5, <1>7, <1>9, <2>1
<1>20. Counts'
  <2>1. ASSUME NEW k \in DOMAIN job'
        PROVE  /\ ~job'[k].done => /\ k \in Listed'
                                   /\ job'[k].processed + Cardinality(Pending(k)') <= Len(job'[k].pages)
               /\ job'[k].done => Pending(k)' = {}
    <3>1. Listed' = Listed
      BY DEF UnPinPage, Listed
    <3>2. CASE k = j
      <4>1. job'[k].done = job[k].done /\ job'[k].pages = job[k].pages
        BY <1>9, <1>10, <2>1
      <4>2. job'[k].processed + Cardinality(Pending(k)') <= Len(job'[k].pages)
        BY <1>17, <1>18, <1>19, <3>2, <4>1
      <4>3. QED  BY <1>17, <3>1, <3>2, <4>1, <4>2
    <3>3. CASE k # j
      BY <1>9, <1>16, <2>1, <3>1, <3>3 DEF TaskInv, Counts
    <3>4. QED  BY <3>2, <3>3
  <2>2. QED  BY <2>1 DEF Counts
<1>21. ASSUME NEW v \in Workers, At(v, "last"), thread[v].job = j PROVE FALSE
  <2>1. Pending(j) = {}
    BY <1>2, <1>21 DEF TaskInv, Lasts
  <2>2. QED  BY <1>16, <2>1
<1>22. ASSUME NEW v \in Workers \ {w} PROVE thread'[v] = thread[v]
  BY <1>12, <1>22 DEF Turns
<1>23. Lasts'
  <2>1. ASSUME NEW v \in Workers, NEW k \in DOMAIN job', At(v, "last")', thread'[v].job = k
        PROVE  ~job'[k].done /\ Pending(k)' = {}
    <3>1. CASE v = w
      <4>1. k = j /\ IsLastPage(j)
        BY <1>1, <1>13, <2>1, <3>1 DEF pc
      <4>2. job[j].processed + 1 = Len(job[j].pages)
        BY <4>1 DEF IsLastPage
      <4>3. Cardinality(Pending(j)') = 0
        <5>1. Cardinality(Pending(j)') \in Nat
          BY <1>18, FS_CardinalityType
        <5>2. QED  BY <1>17, <1>18, <1>19, <4>2, <5>1
      <4>4. Pending(j)' = {}
        BY <1>18, <4>3, FS_EmptySet
      <4>5. QED  BY <1>2, <1>10, <1>17, <4>1, <4>4
    <3>2. CASE v # w
      <4>1. At(v, "last") /\ thread[v].job = k /\ k # j /\ k \in DOMAIN job
        BY <1>9, <1>21, <1>22, <2>1, <3>2
      <4>2. ~job[k].done /\ Pending(k) = {}
        BY <4>1 DEF TaskInv, Lasts
      <4>3. QED  BY <1>9, <1>16, <4>1, <4>2
    <3>3. QED  BY <3>1, <3>2
  <2>2. QED  BY <2>1 DEF Lasts
<1>24. LastAlone'
  <2>1. ASSUME NEW u \in Workers, NEW v \in Workers, At(u, "last")', At(v, "last")',
               thread'[u].job = thread'[v].job, u # v
        PROVE  FALSE
    <3>1. CASE u = w
      BY <1>13, <1>21, <1>22, <2>1, <3>1
    <3>2. CASE v = w
      BY <1>13, <1>21, <1>22, <2>1, <3>2
    <3>3. CASE u # w /\ v # w
      BY <1>22, <2>1, <3>3 DEF TaskInv, LastAlone
    <3>4. QED  BY <3>1, <3>2, <3>3
  <2>2. QED  BY <2>1 DEF LastAlone
<1>25. /\ JobsListed' /\ JobForms' /\ \A v \in Workers \ {w} : Worker(v)'
       /\ (\A k \in DOMAIN queue' : InQueue(k)') /\ OneQueued' /\ OneOrOther' /\ OneRuns'
  <2>1. JobsListed' /\ JobForms' /\ \A v \in Workers \ {w} : Worker(v)'
    BY <1>11, <1>12, TurnsForms
  <2>2. (\A k \in DOMAIN queue' : InQueue(k)') /\ OneQueued' /\ OneOrOther' /\ OneRuns'
    BY <1>1, <1>11, <1>12, <1>13, TurnsOnce
  <2>3. QED  BY <2>1, <2>2
<1>26. Worker(w)'
  <2>1. j \in DOMAIN job' /\ p \in 1 .. Len(job'[j].pages)
    <3>1. DOMAIN job[j].pages = 1 .. Len(job[j].pages)
      BY <1>2, JobPlaces
    <3>2. QED  BY <1>2, <1>9, <1>10, <3>1
  <2>2. QED  BY <1>2, <1>13, <2>1 DEF Worker, HasTask, JobOf, WorkerPositions
<1>27. Calls'
  <2>1. \A t \in Clients : thread'[t] = thread[t]
    BY <1>3, Constants DEF Moves
  <2>2. QED  BY <2>1, CallsStay DEF TaskInv, UnPinPage, accessorVars
<1>28. TaskInv'
  BY <1>11, <1>20, <1>23, <1>24, <1>25, <1>26, <1>27 DEF TaskInv
<1>29. QED  BY <1>1, <1>3, <1>9, <1>10, <1>16, <1>28 DEF pc

LEMMA NextPageTasks ==
  ASSUME TaskInv, NEW w \in Workers, NextPage(w)
  PROVE  /\ TaskInv' /\ UNCHANGED job
         /\ \A v \in Threads \ {w} : thread'[v] = thread[v]
         /\ thread'[w].pc \in {"page", "future"} /\ thread'[w].waitsFor = thread[w].waitsFor
         /\ thread'[w].job = thread[w].job /\ thread'[w].failed = thread[w].failed
         /\ thread'[w].pc = "page" => /\ thread'[w].page = thread[w].page + 1
                                      /\ thread'[w].page \in 1 .. Len(JobOf(w).pages)
         /\ \A k \in DOMAIN job : Pending(k)' = Pending(k)
<1>1. PICK j, p : j = thread[w].job /\ p = thread[w].page
  OBVIOUS
<1>2. /\ Shape /\ w \in Threads /\ thread[w].pc = "after" /\ ~thread[w].failed
      /\ j \in DOMAIN job /\ p \in DOMAIN job[j].pages
      /\ thread[w] \in ThreadRecord /\ j # 0 /\ job[j].single
  BY <1>1, WorkersPage DEF TaskInv, NextPage, JobOf
<1>3. /\ DOMAIN job[j].pages = 1 .. Len(job[j].pages) /\ Len(job[j].pages) \in Nat
      /\ p \in 1 .. Len(job[j].pages)
  BY <1>2, JobPlaces
<1>4. PICK more \in BOOLEAN : more <=> p < Len(job[j].pages)
  OBVIOUS
<1>5. PICK pc, page : /\ pc = IF more THEN "page" ELSE "future"
                      /\ page = IF more THEN p + 1 ELSE 1
  OBVIOUS
<1>6. thread' = [thread EXCEPT ![w] = [thread[w] EXCEPT !.pc = pc, !.page = page]]
  BY <1>1, <1>2, <1>4, <1>5 DEF NextPage, JobOf
<1>7. page \in 1 .. Len(job[j].pages) /\ pc \in {"page", "future"}
  BY <1>3, <1>4, <1>5
<1>8. /\ [thread[w] EXCEPT !.pc = pc, !.page = page] \in ThreadRecord
      /\ [thread[w] EXCEPT !.pc = pc, !.page = page].pc = pc
      /\ [thread[w] EXCEPT !.pc = pc, !.page = page].page = page
      /\ [thread[w] EXCEPT !.pc = pc, !.page = page].job = thread[w].job
      /\ [thread[w] EXCEPT !.pc = pc, !.page = page].waitsFor = thread[w].waitsFor
      /\ [thread[w] EXCEPT !.pc = pc, !.page = page].failed = thread[w].failed
  <2>1. page \in Nat
    BY <1>3, <1>7
  <2>2. PICK r \in ThreadRecord : r = thread[w]
    BY <1>2
  <2>3. /\ [r EXCEPT !.pc = pc, !.page = page] \in ThreadRecord
        /\ [r EXCEPT !.pc = pc, !.page = page].pc = pc
        /\ [r EXCEPT !.pc = pc, !.page = page].page = page
        /\ [r EXCEPT !.pc = pc, !.page = page].job = r.job
        /\ [r EXCEPT !.pc = pc, !.page = page].waitsFor = r.waitsFor
        /\ [r EXCEPT !.pc = pc, !.page = page].failed = r.failed
    BY <1>7, <2>1 DEF ThreadRecord, WorkerPositions
  <2>4. QED  BY <2>2, <2>3
<1>9. /\ thread' \in [Threads -> ThreadRecord] /\ \A v \in Threads \ {w} : thread'[v] = thread[v]
      /\ thread'[w].pc = pc /\ thread'[w].page = page /\ thread'[w].job = j
      /\ thread'[w].waitsFor = thread[w].waitsFor /\ thread'[w].failed = thread[w].failed
  <2>1. thread \in [Threads -> ThreadRecord]
    BY <1>2 DEF Shape
  <2>2. thread'[w] = [thread[w] EXCEPT !.pc = pc, !.page = page]
    BY <1>2, <1>6, <2>1
  <2>3. thread' \in [Threads -> ThreadRecord] /\ \A v \in Threads \ {w} : thread'[v] = thread[v]
    BY <1>2, <1>6, <1>8, <2>1
  <2>4. QED  BY <1>1, <1>8, <2>2, <2>3
<1>10. UNCHANGED <<job, listed, queue, pagesMutex>>
  BY DEF NextPage, jobVars, accessorVars
<1>11. Shape'
  BY <1>2, <1>9 DEF Shape, NextPage, accessorVars, pageVars, jobVars, history
<1>12. Turns(w)
  BY <1>9, <1>10, Constants DEF Turns, Forms
<1>13. ASSUME NEW k \in DOMAIN job, NEW i \in DOMAIN job[k].pages
       PROVE  Carries(w, k, i)' <=> Carries(w, k, i)
  <2>1. i \in Nat /\ i <= Len(job[k].pages) /\ DOMAIN job[k].pages = 1 .. Len(job[k].pages)
    BY <1>2, <1>13, JobPlaces
  <2>2. p \in Nat /\ Len(job[j].pages) \in Nat
    BY <1>3
  <2>3. Carries(w, k, i) <=> k = j /\ p < i
    <3>1. Uses(w, k) <=> k = j /\ p < Len(job[j].pages)
      BY <1>1, <1>2 DEF Uses, UsingJob
    <3>2. QED  BY <1>1, <1>2, <2>1, <2>2, <3>1 DEF Carries
  <2>4. CASE more
    <3>1. pc = "page" /\ page = p + 1
      BY <1>5, <2>4
    <3>2. Uses(w, k)' <=> k = j
      BY <1>9, <3>1 DEF Uses, UsingJob
    <3>3. Carries(w, k, i)' <=> k = j /\ (p + 1 = i \/ p + 1 < i)
      BY <1>2, <1>9, <1>10, <3>1, <3>2 DEF Carries
    <3>4. QED  BY <2>1, <2>2, <2>3, <3>3
  <2>5. CASE ~more
    <3>1. pc = "future"
      BY <1>5, <2>5
    <3>2. ~Uses(w, k)'
      BY <1>9, <3>1 DEF Uses, UsingJob
    <3>3. ~(k = j /\ p < i)
      BY <1>4, <2>1, <2>2, <2>5
    <3>4. QED  BY <2>3, <3>2, <3>3 DEF Carries
  <2>6. QED  BY <2>4, <2>5
<1>14. ASSUME NEW k \in DOMAIN job PROVE Pending(k)' = Pending(k)
  <2>1. \A i : Queued(k, i)' <=> Queued(k, i)
    BY <1>10 DEF Queued
  <2>2. \A i \in DOMAIN job[k].pages : HasPinned(k, i)' <=> HasPinned(k, i)
    BY <1>12, <1>13, <1>14, <2>1, TurnsCarry
  <2>3. QED  BY <1>10, <2>2 DEF Pending
<1>15. Worker(w)'
  BY <1>2, <1>5, <1>7, <1>9, <1>10 DEF Worker, HasTask, JobOf, WorkerPositions
<1>16. Calls'
  <2>1. \A t \in Clients : thread'[t] = thread[t]
    BY <1>9, Constants
  <2>2. QED  BY <1>10, <2>1, CallsStay DEF TaskInv
<1>17. TaskInv'
  <2>1. JobOf(w).single /\ thread'[w].job = thread[w].job /\ ~At(w, "last")'
    BY <1>1, <1>2, <1>7, <1>9 DEF JobOf
  <2>2. \A k \in DOMAIN job :
          /\ job'[k].processed = job[k].processed /\ (job[k].done => job'[k].done)
          /\ Pending(k)' \subseteq Pending(k)
          /\ job'[k].done => job[k].done \/ Pending(k)' = {}
          /\ job'[k].done # job[k].done => At(w, "last") /\ thread[w].job = k
    BY <1>10, <1>14
  <2>3. QED  BY <1>10, <1>11, <1>12, <1>15, <1>16, <2>1, <2>2, TurnsCount
<1>18. QED
  BY <1>1, <1>5, <1>7, <1>9, <1>10, <1>14, <1>17 DEF JobOf

\* The rest of a task that failed is given up.
LEMMA AbandonPagesTasks ==
  ASSUME TaskInv, NEW w \in Workers, AbandonPages(w)
  PROVE  /\ TaskInv'
         /\ \A v \in Threads \ {w} : thread'[v] = thread[v]
         /\ thread'[w].pc = "future" /\ thread'[w].waitsFor = thread[w].waitsFor
         /\ thread'[w].job = thread[w].job /\ thread'[w].failed = thread[w].failed
         /\ thread[w].page \in Nat
         /\ \A k \in DOMAIN job :
              /\ k # thread[w].job => job'[k] = job[k] /\ Pending(k)' = Pending(k)
              /\ k = thread[w].job =>
                   /\ job'[k] = [job[k] EXCEPT !.cancelled = TRUE, !.pages = job'[k].pages]
                   /\ DOMAIN job'[k].pages = DOMAIN job[k].pages
                   /\ \A i \in DOMAIN job[k].pages :
                        job'[k].pages[i] = IF i > thread[w].page THEN NoChunk ELSE job[k].pages[i]
                   /\ Pending(k)' = {i \in Pending(k) : ~(i > thread[w].page)}
<1>1. PICK j, p : j = thread[w].job /\ p = thread[w].page
  OBVIOUS
<1>2. /\ Shape /\ w \in Threads /\ thread[w].pc = "after" /\ thread[w].failed
      /\ j \in DOMAIN job /\ p \in DOMAIN job[j].pages
      /\ thread[w] \in ThreadRecord /\ j # 0 /\ job[j].single
  BY <1>1, WorkersPage DEF TaskInv, AbandonPages, JobOf
<1>3. /\ DOMAIN job[j].pages = 1 .. Len(job[j].pages) /\ Len(job[j].pages) \in Nat
      /\ p \in 1 .. Len(job[j].pages)
  BY <1>2, JobPlaces
<1>4. PICK s : s = [thread[w] EXCEPT !.pc = "future", !.page = 1]
  OBVIOUS
<1>5. /\ s \in ThreadRecord /\ s.pc = "future" /\ s.page = 1 /\ s.job = j
      /\ s.waitsFor = thread[w].waitsFor /\ s.failed = thread[w].failed
  <2>1. PICK r \in ThreadRecord : r = thread[w]
    BY <1>2
  <2>2. s = [r EXCEPT !.pc = "future", !.page = 1]
    BY <1>4, <2>1
  <2>3. /\ s \in ThreadRecord /\ s.pc = "future" /\ s.page = 1 /\ s.job = r.job
        /\ s.waitsFor = r.waitsFor /\ s.failed = r.failed
    BY <2>2 DEF ThreadRecord, WorkerPositions
  <2>4. QED  BY <1>1, <2>1, <2>3
<1>6. thread \in [Threads -> ThreadRecord] /\ thread' = [thread EXCEPT ![w] = s]
  BY <1>2, <1>4 DEF AbandonPages, Shape
<1>7. /\ thread' \in [Threads -> ThreadRecord] /\ thread'[w] = s
      /\ \A v \in Threads \ {w} : thread'[v] = thread[v]
  BY <1>2, <1>5, <1>6
<1>8. job \in Seq(JobRecord)
  BY <1>2 DEF Shape
<1>9. PICK q \in JobRecord : q = job[j]
  BY <1>2, <1>8
<1>10. PICK P : P = [i \in DOMAIN q.pages |-> IF i > p THEN NoChunk ELSE q.pages[i]]
  OBVIOUS
<1>11. /\ P \in Seq(Chunks \cup {NoChunk}) /\ Len(P) = Len(q.pages) /\ DOMAIN P = DOMAIN q.pages
       /\ \A i \in DOMAIN q.pages : P[i] = IF i > p THEN NoChunk ELSE q.pages[i]
  <2>1. q.pages \in Seq(Chunks \cup {NoChunk})
    BY DEF JobRecord
  <2>2. DOMAIN q.pages = 1 .. Len(q.pages) /\ Len(q.pages) \in Nat
    BY <2>1
  <2>3. P \in [1 .. Len(q.pages) -> Chunks \cup {NoChunk}]
    BY <1>10, <2>1, <2>2
  <2>4. P \in Seq(Chunks \cup {NoChunk}) /\ Len(P) = Len(q.pages)
    BY <2>2, <2>3, SeqDef, LenProperties
  <2>5. QED  BY <1>10, <2>4
<1>12. PICK r : r = [q EXCEPT !.cancelled = TRUE, !.pages = P]
  OBVIOUS
<1>13. /\ r \in JobRecord /\ r.pages = P /\ r.done = q.done /\ r.processed = q.processed
       /\ Forms(q, r) /\ r = [q EXCEPT !.cancelled = TRUE, !.pages = r.pages]
       /\ \A u \in JobRecord : Forms(u, u)
  BY <1>11, <1>12 DEF JobRecord, Forms
<1>14. job' = [job EXCEPT ![j] = r]
  <2>1. \A i \in DOMAIN q.pages : i \in {k \in DOMAIN job[j].pages : k > p} <=> i > p
    BY <1>9
  <2>2. P = [i \in DOMAIN q.pages |-> IF i \in {k \in DOMAIN job[j].pages : k > p} THEN NoChunk ELSE q.pages[i]]
    BY <1>10, <2>1
  <2>3. job' = [job EXCEPT ![j] = [job[j] EXCEPT !.cancelled = TRUE, !.pages =
                 [i \in DOMAIN job[j].pages |->
                    IF i \in {k \in DOMAIN job[j].pages : k > p} THEN NoChunk ELSE job[j].pages[i]]]]
    BY <1>1, <1>2, <1>8 DEF AbandonPages, JobOf
  <2>4. QED  BY <1>9, <1>12, <2>2, <2>3
<1>15. /\ job' \in Seq(JobRecord) /\ Len(job') = Len(job) /\ DOMAIN job' = DOMAIN job
       /\ \A k \in DOMAIN job : job'[k] = IF k = j THEN r ELSE job[k]
  BY <1>2, <1>8, <1>13, <1>14, ReplaceOne
<1>16. UNCHANGED <<listed, queue, pagesMutex>>
  BY DEF AbandonPages, accessorVars
<1>17. Shape'
  <2>1. pins' = [c \in Chunks |-> pins[c] - Cardinality({i \in {k \in DOMAIN job[j].pages : k > p} : job[j].pages[i] = c})]
    BY <1>1 DEF AbandonPages, JobOf
  <2>2. ASSUME NEW c \in Chunks
        PROVE  Cardinality({i \in {k \in DOMAIN job[j].pages : k > p} : job[j].pages[i] = c}) \in Int
    BY <1>3, PendingFinite
  <2>3. pins \in [Chunks -> Int]
    BY <1>2 DEF Shape
  <2>4. pins' \in [Chunks -> Int]
    BY <2>1, <2>2, <2>3
  <2>5. QED  BY <1>2, <1>7, <1>15, <2>4 DEF Shape, AbandonPages, accessorVars, history
<1>18. \A k \in DOMAIN job : /\ Forms(job[k], job'[k]) /\ job'[k].done = job[k].done
                             /\ job'[k].processed = job[k].processed
                             /\ DOMAIN job'[k].pages = DOMAIN job[k].pages
  <2>1. ASSUME NEW k \in DOMAIN job
        PROVE  /\ Forms(job[k], job'[k]) /\ job'[k].done = job[k].done
               /\ job'[k].processed = job[k].processed
               /\ DOMAIN job'[k].pages = DOMAIN job[k].pages
    <3>1. job[k] \in JobRecord
      BY <1>8, <2>1
    <3>2. QED  BY <1>9, <1>11, <1>13, <1>15, <2>1, <3>1
  <2>2. QED  BY <2>1
<1>19. Turns(w)
  BY <1>7, <1>15, <1>16, <1>18, Constants DEF Turns
<1>20. ASSUME NEW k \in DOMAIN job, NEW i \in DOMAIN job[k].pages
       PROVE  (Carries(w, k, i) <=> k = j /\ p < i) /\ ~Carries(w, k, i)'
  <2>1. Uses(w, k) <=> k = j
    BY <1>1, <1>2 DEF Uses, UsingJob
  <2>2. ~Uses(w, k)'
    BY <1>5, <1>7 DEF Uses, UsingJob
  <2>3. QED  BY <1>1, <1>2, <2>1, <2>2 DEF Carries
<1>21. ASSUME NEW k, k \in DOMAIN queue, queue[k].job = j PROVE FALSE
  <2>1. ~job[j].single
    BY <1>1, <1>2, <1>21 DEF TaskInv, OneOrOther, HasTask, JobOf
  <2>2. QED  BY <1>2, <2>1
<1>22. ASSUME NEW v \in Workers \ {w}, thread[v].job = j PROVE FALSE
  <2>1. ~job[j].single
    BY <1>1, <1>2, <1>22 DEF TaskInv, OneRuns, HasTask, JobOf
  <2>2. QED  BY <1>2, <2>1
<1>23. /\ \A k \in DOMAIN job : k # j => Pending(k)' = Pending(k)
       /\ Pending(j) = {i \in DOMAIN job[j].pages : i > p} /\ Pending(j)' = {}
  <2>1. \A k, i : Queued(k, i)' <=> Queued(k, i)
    BY <1>16 DEF Queued
  <2>2. ASSUME NEW k \in DOMAIN job, NEW i \in DOMAIN job[k].pages
        PROVE  /\ HasPinned(k, i) <=> Queued(k, i) \/ (k = j /\ p < i) \/ Elsewhere(w, k, i)
               /\ HasPinned(k, i)' <=> Queued(k, i) \/ Elsewhere(w, k, i)
    <3>1. /\ HasPinned(k, i) <=> Queued(k, i) \/ Carries(w, k, i) \/ Elsewhere(w, k, i)
          /\ HasPinned(k, i)' <=> Queued(k, i)' \/ Carries(w, k, i)' \/ Elsewhere(w, k, i)
      BY <1>19, TurnsCarry
    <3>2. QED  BY <1>20, <2>1, <3>1
  <2>3. \A k \in DOMAIN job : k # j => Pending(k)' = Pending(k)
    BY <1>18, <2>2 DEF Pending
  <2>4. \A i : ~Queued(j, i) /\ ~Elsewhere(w, j, i)
    BY <1>21, <1>22 DEF Queued, Elsewhere, Carries, Uses
  <2>5. \A i \in DOMAIN job[j].pages : (HasPinned(j, i) <=> p < i) /\ ~HasPinned(j, i)'
    BY <1>2, <2>2, <2>4
  <2>6. \A i \in DOMAIN job[j].pages : p < i <=> i > p
    BY <1>3
  <2>7. QED  BY <1>2, <1>18, <2>3, <2>5, <2>6 DEF Pending
<1>24. Worker(w)'
  <2>1. Len(job[j].pages) >= 1
    BY <1>3
  <2>2. j \in DOMAIN job' /\ 1 \in 1 .. Len(job'[j].pages) /\ job'[j].single
    BY <1>2, <1>3, <1>15, <1>18, <2>1 DEF Forms
  <2>3. QED  BY <1>2, <1>5, <1>7, <2>2 DEF Worker, HasTask, JobOf, WorkerPositions
<1>25. Calls'
  <2>1. \A t \in Clients : thread'[t] = thread[t]
    BY <1>7, Constants
  <2>2. QED  BY <1>16, <2>1, CallsStay DEF TaskInv
<1>26. TaskInv'
  <2>1. JobOf(w).single /\ thread'[w].job = thread[w].job /\ ~At(w, "last")'
    BY <1>1, <1>2, <1>5, <1>7 DEF JobOf
  <2>2. \A k \in DOMAIN job :
          /\ job'[k].processed = job[k].processed /\ (job[k].done => job'[k].done)
          /\ Pending(k)' \subseteq Pending(k)
          /\ job'[k].done => job[k].done \/ Pending(k)' = {}
          /\ job'[k].done # job[k].done => At(w, "last") /\ thread[w].job = k
    BY <1>18, <1>23
  <2>3. queue' = queue
    BY <1>16
  <2>4. thread'[w].job = thread[w].job /\ (thread'[w].page = thread[w].page \/ JobOf(w).single)
    BY <2>1
  <2>5. ~At(w, "last")'
    BY <2>1
  <2>6. QED  BY <1>17, <1>19, <1>24, <1>25, <2>2, <2>3, <2>4, <2>5, TurnsCount
<1>27. p \in Nat /\ Pending(j)' = {i \in Pending(j) : ~(i > p)}
  BY <1>3, <1>23
<1>28. QED
  BY <1>1, <1>5, <1>7, <1>9, <1>11, <1>13, <1>15, <1>23, <1>26, <1>27

LEMMA FinishTaskTasks ==
  ASSUME TaskInv, NEW w \in Workers, FinishTask(w)
  PROVE  /\ TaskInv'
         /\ \A v \in Threads \ {w} : thread'[v] = thread[v]
         /\ thread'[w].pc = "idle" /\ thread'[w].waitsFor = thread[w].waitsFor
         /\ thread'[w].job = 0 /\ thread'[w].failed = FALSE
         /\ \A k \in DOMAIN job :
              /\ k # thread[w].job => job'[k] = job[k]
              /\ k \notin Listed => job'[k] = job[k]
              /\ job'[k] = [job[k] EXCEPT !.future = job'[k].future]
              /\ k = thread[w].job /\ k \in Listed =>
                   job'[k].future = [job[k].future EXCEPT ![thread[w].page] =
                                       IF thread[w].failed THEN "error" ELSE "ok"]
              /\ Pending(k)' = Pending(k)
<1>1. PICK j, p : j = thread[w].job /\ p = thread[w].page
  OBVIOUS
<1>2. /\ Shape /\ w \in Threads
      /\ thread[w].pc = "future" \/ (thread[w].pc = "after" /\ ~job[j].single)
      /\ j \in DOMAIN job /\ p \in DOMAIN job[j].pages
      /\ thread[w] \in ThreadRecord /\ j # 0
  BY <1>1, WorkersPage DEF TaskInv, FinishTask, JobOf
<1>3. PICK s : s = [thread[w] EXCEPT !.pc = "idle", !.job = 0, !.page = 0, !.failed = FALSE]
  OBVIOUS
<1>4. /\ s \in ThreadRecord /\ s.pc = "idle" /\ s.job = 0 /\ s.failed = FALSE
      /\ s.waitsFor = thread[w].waitsFor
  <2>1. PICK r \in ThreadRecord : r = thread[w]
    BY <1>2
  <2>2. s = [r EXCEPT !.pc = "idle", !.job = 0, !.page = 0, !.failed = FALSE]
    BY <1>3, <2>1
  <2>3. /\ s \in ThreadRecord /\ s.pc = "idle" /\ s.job = 0 /\ s.failed = FALSE
        /\ s.waitsFor = r.waitsFor
    BY <2>2 DEF ThreadRecord, WorkerPositions
  <2>4. QED  BY <2>1, <2>3
<1>5. thread \in [Threads -> ThreadRecord] /\ thread' = [thread EXCEPT ![w] = s]
  BY <1>2, <1>3 DEF FinishTask, Shape
<1>6. /\ thread' \in [Threads -> ThreadRecord] /\ thread'[w] = s
      /\ \A v \in Threads \ {w} : thread'[v] = thread[v]
  BY <1>2, <1>4, <1>5
<1>7. job \in Seq(JobRecord)
  BY <1>2 DEF Shape
<1>8. PICK q \in JobRecord : q = job[j]
  BY <1>2, <1>7
<1>9. PICK e \in {"error", "ok"} : e = IF thread[w].failed THEN "error" ELSE "ok"
  OBVIOUS
<1>10. PICK f : f = [q.future EXCEPT ![p] = e]
  OBVIOUS
<1>11. f \in Seq({"none", "ok", "error"})
  <2>1. PICK g \in Seq({"none", "ok", "error"}) : g = q.future
    BY DEF JobRecord
  <2>2. e \in {"none", "ok", "error"}
    BY <1>9
  <2>3. [g EXCEPT ![p] = e] \in Seq({"none", "ok", "error"})
    BY <2>2, ReplaceOne
  <2>4. QED  BY <1>10, <2>1, <2>3
<1>12. PICK r : r = IF j \in Listed THEN [q EXCEPT !.future = f] ELSE q
  OBVIOUS
<1>13. /\ r \in JobRecord /\ r.done = q.done /\ r.processed = q.processed /\ r.pages = q.pages
       /\ Forms(q, r) /\ r = [q EXCEPT !.future = r.future]
       /\ j \in Listed => r.future = f
       /\ j \notin Listed => r = q
       /\ \A u \in JobRecord : Forms(u, u) /\ u = [u EXCEPT !.future = u.future]
  <2>1. CASE j \in Listed
    BY <1>11, <1>12, <2>1 DEF JobRecord, Forms
  <2>2. CASE j \notin Listed
    BY <1>12, <2>2 DEF JobRecord, Forms
  <2>3. QED  BY <2>1, <2>2
<1>14. job' = [job EXCEPT ![j] = r]
  <2>1. CASE j \in Listed
    BY <1>1, <1>2, <1>7, <1>8, <1>9, <1>10, <1>12, <2>1 DEF FinishTask
  <2>2. CASE j \notin Listed
    <3>1. job' = job /\ r = job[j]
      BY <1>1, <1>8, <1>12, <2>2 DEF FinishTask
    <3>2. QED  BY <1>2, <1>7, <3>1
  <2>3. QED  BY <2>1, <2>2
<1>15. /\ job' \in Seq(JobRecord) /\ Len(job') = Len(job) /\ DOMAIN job' = DOMAIN job
       /\ \A k \in DOMAIN job : job'[k] = IF k = j THEN r ELSE job[k]
  BY <1>2, <1>7, <1>13, <1>14, ReplaceOne
<1>16. UNCHANGED <<listed, queue, pagesMutex>>
  BY DEF FinishTask, accessorVars
<1>17. Shape'
  BY <1>2, <1>6, <1>15 DEF Shape, FinishTask, accessorVars, pageVars, history
<1>18. \A k \in DOMAIN job : /\ Forms(job[k], job'[k]) /\ job'[k].done = job[k].done
                             /\ job'[k].processed = job[k].processed
                             /\ job'[k].pages = job[k].pages
                             /\ job'[k] = [job[k] EXCEPT !.future = job'[k].future]
  <2>1. ASSUME NEW k \in DOMAIN job
        PROVE  /\ Forms(job[k], job'[k]) /\ job'[k].done = job[k].done
               /\ job'[k].processed = job[k].processed
               /\ job'[k].pages = job[k].pages
               /\ job'[k] = [job[k] EXCEPT !.future = job'[k].future]
    <3>1. job[k] \in JobRecord
      BY <1>7, <2>1
    <3>2. QED  BY <1>8, <1>13, <1>15, <2>1, <3>1
  <2>2. QED  BY <2>1
<1>19. Turns(w)
  BY <1>6, <1>15, <1>16, <1>18, Constants DEF Turns
<1>20. ASSUME NEW k \in DOMAIN job, NEW i \in DOMAIN job[k].pages
       PROVE  ~Carries(w, k, i) /\ ~Carries(w, k, i)'
  <2>1. ~Carries(w, k, i)
    BY <1>1, <1>2 DEF Carries, Uses, UsingJob
  <2>2. ~Uses(w, k)'
    BY <1>4, <1>6 DEF Uses, UsingJob
  <2>3. QED  BY <2>1, <2>2 DEF Carries
<1>21. ASSUME NEW k \in DOMAIN job PROVE Pending(k)' = Pending(k)
  <2>1. \A i : Queued(k, i)' <=> Queued(k, i)
    BY <1>16 DEF Queued
  <2>2. \A i \in DOMAIN job[k].pages : HasPinned(k, i)' <=> HasPinned(k, i)
    BY <1>19, <1>20, <1>21, <2>1, TurnsCarry
  <2>3. QED  BY <1>18, <1>21, <2>2 DEF Pending
<1>22. Worker(w)'
  BY <1>4, <1>6 DEF Worker, HasTask, WorkerPositions
<1>23. Calls'
  <2>1. \A t \in Clients : thread'[t] = thread[t]
    BY <1>6, Constants
  <2>2. QED  BY <1>16, <2>1, CallsStay DEF TaskInv
<1>24. TaskInv'
  <2>1. thread'[w].job = 0 /\ ~At(w, "last")'
    BY <1>4, <1>6
  <2>2. \A k \in DOMAIN job :
          /\ job'[k].processed = job[k].processed /\ (job[k].done => job'[k].done)
          /\ Pending(k)' \subseteq Pending(k)
          /\ job'[k].done => job[k].done \/ Pending(k)' = {}
          /\ job'[k].done # job[k].done => At(w, "last") /\ thread[w].job = k
    BY <1>18, <1>21
  <2>3. QED  BY <1>16, <1>17, <1>19, <1>22, <1>23, <2>1, <2>2, TurnsCount
<1>25. \A k \in DOMAIN job :
         /\ k # j => job'[k] = job[k]
         /\ k \notin Listed => job'[k] = job[k]
         /\ k = j /\ k \in Listed => job'[k].future = [job[k].future EXCEPT ![p] = IF thread[w].failed THEN "error" ELSE "ok"]
  BY <1>8, <1>9, <1>10, <1>13, <1>15
<1>26. QED
  BY <1>1, <1>4, <1>6, <1>18, <1>21, <1>24, <1>25

LEMMA TakeTaskTasks ==
  ASSUME TaskInv, NEW w \in Workers, TakeTask(w)
  PROVE  /\ TaskInv' /\ UNCHANGED job
         /\ \A v \in Threads \ {w} : thread'[v] = thread[v]
         /\ thread'[w].pc = "page" /\ thread'[w].waitsFor = thread[w].waitsFor
         /\ thread'[w].failed = thread[w].failed
         /\ thread'[w].job \in DOMAIN job
         /\ thread'[w].page \in 1 .. Len(job[thread'[w].job].pages)
         /\ thread'[w].job = queue[1].job /\ queue # <<>>
         /\ thread'[w].page = IF queue[1].page = 0 THEN 1 ELSE queue[1].page
         /\ \A k \in DOMAIN job : Pending(k)' = Pending(k)
<1>1. PICK j, p : j = queue[1].job /\ p = IF queue[1].page = 0 THEN 1 ELSE queue[1].page
  OBVIOUS
<1>2. /\ Shape /\ w \in Threads /\ thread[w].pc = "idle" /\ queue # <<>> /\ thread[w].job = 0
      /\ thread[w] \in ThreadRecord
  BY Constants DEF TaskInv, TakeTask, Shape, Worker
<1>3. /\ queue \in Seq(Task) /\ Len(queue) \in Nat /\ DOMAIN queue = 1 .. Len(queue) /\ 1 \in DOMAIN queue
      /\ queue' = Tail(queue) /\ Len(queue') = Len(queue) - 1 /\ DOMAIN queue' = 1 .. Len(queue) - 1
      /\ \A k \in DOMAIN queue' : k + 1 \in DOMAIN queue /\ queue'[k] = queue[k + 1]
      /\ queue' \in Seq(Task) /\ Head(queue) = queue[1]
  <2>1. queue \in Seq(Task) /\ queue' = Tail(queue)
    BY <1>2 DEF Shape, TakeTask
  <2>2. Len(queue) \in Nat /\ DOMAIN queue = 1 .. Len(queue)
    BY <2>1
  <2>3. Len(queue) # 0
    BY <1>2, <2>1
  <2>4. queue' \in Seq(Task) /\ Len(queue') = Len(queue) - 1 /\ Head(queue) = queue[1]
    BY <1>2, <2>1
  <2>5. DOMAIN queue' = 1 .. Len(queue) - 1
    BY <2>4
  <2>6. \A k \in 1 .. Len(queue) - 1 : queue'[k] = queue[k + 1]
    BY <1>2, <2>1
  <2>7. 1 \in DOMAIN queue /\ \A k \in 1 .. Len(queue) - 1 : k + 1 \in DOMAIN queue
    BY <2>2, <2>3
  <2>8. QED  BY <2>1, <2>2, <2>4, <2>5, <2>6, <2>7
<1>4. /\ j \in DOMAIN job /\ queue[1].page \in 0 .. Len(job[j].pages) /\ (queue[1].page = 0 <=> job[j].single)
      /\ j \in Nat /\ j \in Jobs /\ j # 0 /\ Len(job[j].pages) \in Nat /\ job[j].pages # <<>>
      /\ DOMAIN job[j].pages = 1 .. Len(job[j].pages)
  <2>1. j \in DOMAIN job /\ queue[1].page \in 0 .. Len(job[j].pages) /\ (queue[1].page = 0 <=> job[j].single)
    BY <1>1, <1>3 DEF TaskInv, InQueue
  <2>2. QED  BY <1>2, <2>1, JobPlaces, Constants DEF TaskInv, JobForms
<1>5. p \in 1 .. Len(job[j].pages)
  <2>1. job[j].pages \in Seq(Chunks \cup {NoChunk})
    BY <1>2, <1>4, JobPlaces DEF JobRecord
  <2>2. Len(job[j].pages) # 0
    BY <1>4, <2>1
  <2>3. QED  BY <1>1, <1>4, <2>2
<1>6. PICK s : s = [thread[w] EXCEPT !.pc = "page", !.job = j, !.page = p]
  OBVIOUS
<1>7. /\ s \in ThreadRecord /\ s.pc = "page" /\ s.job = j /\ s.page = p
      /\ s.failed = thread[w].failed /\ s.waitsFor = thread[w].waitsFor
  <2>1. PICK r \in ThreadRecord : r = thread[w]
    BY <1>2
  <2>2. s = [r EXCEPT !.pc = "page", !.job = j, !.page = p] /\ p \in Nat
    BY <1>4, <1>5, <1>6, <2>1
  <2>3. /\ s \in ThreadRecord /\ s.pc = "page" /\ s.job = j /\ s.page = p
        /\ s.failed = r.failed /\ s.waitsFor = r.waitsFor
    BY <1>4, <2>2 DEF ThreadRecord, WorkerPositions
  <2>4. QED  BY <2>1, <2>3
<1>8. thread \in [Threads -> ThreadRecord] /\ thread' = [thread EXCEPT ![w] = s]
  BY <1>1, <1>2, <1>3, <1>6 DEF TakeTask, Shape
<1>9. /\ thread' \in [Threads -> ThreadRecord] /\ thread'[w] = s
      /\ \A v \in Threads \ {w} : thread'[v] = thread[v]
  BY <1>2, <1>7, <1>8
<1>10. UNCHANGED <<job, listed, pagesMutex>>
  BY DEF TakeTask, accessorVars
<1>11. Shape'
  BY <1>2, <1>3, <1>9, <1>10 DEF Shape, TakeTask, accessorVars, pageVars, history
<1>12. Turns(w)
  BY <1>9, <1>10, Constants DEF Turns, Forms
<1>13. ASSUME NEW k \in DOMAIN job, NEW i \in DOMAIN job[k].pages
       PROVE  ~Carries(w, k, i) /\ (Carries(w, k, i)' <=> k = j /\ (i = p \/ (job[j].single /\ p < i)))
  <2>1. ~Carries(w, k, i)
    BY <1>2 DEF Carries, Uses, UsingJob
  <2>2. Uses(w, k)' <=> k = j
    BY <1>7, <1>9 DEF Uses, UsingJob
  <2>3. QED  BY <1>7, <1>9, <1>10, <2>1, <2>2 DEF Carries
<1>14. ASSUME NEW k \in DOMAIN job, NEW i \in DOMAIN job[k].pages
       PROVE  Queued(k, i) <=> Queued(k, i)' \/ (k = j /\ (i = p \/ (job[j].single /\ p < i)))
  <2>1. Queued(k, i) <=> Queued(k, i)' \/ (queue[1].job = k /\ queue[1].page \in {0, i})
    <3>1. ASSUME NEW l \in DOMAIN queue, l # 1 PROVE l - 1 \in DOMAIN queue' /\ queue'[l - 1] = queue[l]
      <4>1. l - 1 \in 1 .. Len(queue) - 1 /\ (l - 1) + 1 = l
        BY <1>3, <3>1
      <4>2. QED  BY <1>3, <4>1
    <3>2. Queued(k, i)' => Queued(k, i)
      BY <1>3 DEF Queued
    <3>3. queue[1].job = k /\ queue[1].page \in {0, i} => Queued(k, i)
      BY <1>3 DEF Queued
    <3>4. Queued(k, i) => Queued(k, i)' \/ (queue[1].job = k /\ queue[1].page \in {0, i})
      BY <3>1 DEF Queued
    <3>5. QED  BY <3>2, <3>3, <3>4
  <2>2. CASE k = j
    <3>1. i \in Nat /\ i >= 1 /\ p \in Nat
      BY <1>4, <1>5, <1>14, <2>2
    <3>2. CASE job[j].single
      <4>1. queue[1].page = 0 /\ p = 1
        BY <1>1, <1>4, <3>2
      <4>2. i = p \/ p < i
        BY <3>1, <4>1
      <4>3. QED  BY <1>1, <2>1, <2>2, <3>2, <4>1, <4>2
    <3>3. CASE ~job[j].single
      <4>1. queue[1].page # 0 /\ p = queue[1].page
        BY <1>1, <1>4, <3>3
      <4>2. i # 0
        BY <3>1
      <4>3. QED  BY <1>1, <2>1, <2>2, <3>3, <4>1, <4>2
    <3>4. QED  BY <3>2, <3>3
  <2>3. CASE k # j
    BY <1>1, <2>1, <2>3
  <2>4. QED  BY <2>2, <2>3
<1>15. \A k \in DOMAIN job : Pending(k)' = Pending(k)
  <2>1. ASSUME NEW k \in DOMAIN job, NEW i \in DOMAIN job[k].pages
        PROVE  HasPinned(k, i)' <=> HasPinned(k, i)
    <3>1. /\ HasPinned(k, i) <=> Queued(k, i) \/ Carries(w, k, i) \/ Elsewhere(w, k, i)
          /\ HasPinned(k, i)' <=> Queued(k, i)' \/ Carries(w, k, i)' \/ Elsewhere(w, k, i)
      BY <1>12, TurnsCarry
    <3>2. QED  BY <1>13, <1>14, <3>1
  <2>2. QED  BY <1>10, <2>1 DEF Pending
<1>16. JobsListed' /\ JobForms' /\ \A v \in Workers \ {w} : Worker(v)'
  BY <1>11, <1>12, TurnsForms
<1>17. \A k \in DOMAIN queue' : InQueue(k)'
  <2>1. ASSUME NEW k \in DOMAIN queue' PROVE InQueue(k)'
    <3>1. InQueue(k + 1) /\ queue'[k] = queue[k + 1]
      BY <1>3, <2>1 DEF TaskInv
    <3>2. QED  BY <1>10, <3>1 DEF InQueue
  <2>2. QED  BY <2>1
<1>18. OneQueued'
  <2>1. ASSUME NEW k \in DOMAIN queue', NEW l \in DOMAIN queue', queue'[k] = queue'[l]
        PROVE  k = l
    <3>1. k + 1 = l + 1
      BY <1>3, <2>1 DEF TaskInv, OneQueued
    <3>2. k \in Nat /\ l \in Nat
      BY <1>3, <2>1
    <3>3. QED  BY <3>1, <3>2
  <2>2. QED  BY <2>1 DEF OneQueued
<1>19. \* Another task of job j is for another page.
       ASSUME NEW k \in DOMAIN queue', queue'[k].job = j
       PROVE  ~job[j].single /\ queue'[k].page # p
  <2>1. k + 1 \in DOMAIN queue /\ queue'[k] = queue[k + 1] /\ k + 1 # 1 /\ queue[k + 1].job = j
    BY <1>3, <1>19
  <2>2. queue[1] \in Task /\ queue[k + 1] \in Task /\ queue[k + 1] # queue[1]
    BY <1>3, <2>1 DEF TaskInv, OneQueued
  <2>3. queue[k + 1].page # queue[1].page
    BY <1>1, <2>1, <2>2 DEF Task
  <2>4. queue[k + 1].page = 0 <=> job[j].single
    BY <2>1 DEF TaskInv, InQueue
  <2>5. QED  BY <1>1, <1>4, <2>1, <2>3, <2>4
<1>20. ASSUME NEW v \in Workers \ {w}, thread[v].job = j
       PROVE  ~job[j].single /\ thread[v].page # p
  <2>1. ~JobOf(v).single /\ queue[1].page # thread[v].page
    BY <1>1, <1>3, <1>4, <1>20 DEF TaskInv, OneOrOther, HasTask
  <2>2. ~job[j].single
    BY <1>20, <2>1 DEF JobOf
  <2>3. QED  BY <1>1, <1>4, <2>1, <2>2
<1>21. OneOrOther'
  <2>1. ASSUME NEW k \in DOMAIN queue', NEW v \in Workers, HasTask(v)', queue'[k].job = thread'[v].job
        PROVE  ~JobOf(v)'.single /\ queue'[k].page # thread'[v].page
    <3>1. CASE v = w
      BY <1>7, <1>9, <1>10, <1>19, <2>1, <3>1 DEF JobOf
    <3>2. CASE v # w
      <4>1. thread'[v] = thread[v] /\ HasTask(v) /\ queue'[k] = queue[k + 1] /\ k + 1 \in DOMAIN queue
        BY <1>3, <1>9, <2>1, <3>2, Constants DEF HasTask
      <4>2. ~JobOf(v).single /\ queue[k + 1].page # thread[v].page
        BY <2>1, <4>1 DEF TaskInv, OneOrOther
      <4>3. QED  BY <1>10, <4>1, <4>2 DEF JobOf
    <3>3. QED  BY <3>1, <3>2
  <2>2. QED  BY <2>1 DEF OneOrOther
<1>22. OneRuns'
  <2>1. ASSUME NEW u \in Workers, NEW v \in Workers, HasTask(u)', thread'[u].job = thread'[v].job, u # v
        PROVE  ~JobOf(v)'.single /\ thread'[u].page # thread'[v].page
    <3>1. CASE u = w
      <4>1. thread'[v] = thread[v] /\ thread[v].job = j
        BY <1>7, <1>9, <2>1, <3>1, Constants
      <4>2. ~job[j].single /\ thread[v].page # p
        BY <1>20, <2>1, <3>1, <4>1
      <4>3. QED  BY <1>7, <1>9, <1>10, <3>1, <4>1, <4>2 DEF JobOf
    <3>2. CASE v = w
      <4>1. thread'[u] = thread[u] /\ thread[u].job = j
        BY <1>7, <1>9, <2>1, <3>2, Constants
      <4>2. ~job[j].single /\ thread[u].page # p
        BY <1>20, <2>1, <3>2, <4>1
      <4>3. QED  BY <1>7, <1>9, <1>10, <3>2, <4>1, <4>2 DEF JobOf
    <3>3. CASE u # w /\ v # w
      <4>1. thread'[u] = thread[u] /\ thread'[v] = thread[v]
        BY <1>9, <3>3, Constants
      <4>2. ~JobOf(v).single /\ thread[u].page # thread[v].page
        BY <2>1, <4>1 DEF TaskInv, OneRuns, HasTask
      <4>3. QED  BY <1>10, <4>1, <4>2 DEF JobOf
    <3>4. QED  BY <3>1, <3>2, <3>3
  <2>2. QED  BY <2>1 DEF OneRuns
<1>23. Counts'
  <2>1. Listed' = Listed
    BY <1>10 DEF Listed
  <2>2. QED  BY <1>10, <1>15, <2>1 DEF TaskInv, Counts
<1>24. ASSUME NEW v \in Workers, At(v, "last")' PROVE v # w /\ thread'[v] = thread[v]
  BY <1>7, <1>9, <1>24, Constants
<1>25. Lasts'
  <2>1. ASSUME NEW v \in Workers, NEW k \in DOMAIN job', At(v, "last")', thread'[v].job = k
        PROVE  ~job'[k].done /\ Pending(k)' = {}
    <3>1. At(v, "last") /\ thread[v].job = k /\ k \in DOMAIN job
      BY <1>10, <1>24, <2>1
    <3>2. ~job[k].done /\ Pending(k) = {}
      BY <3>1 DEF TaskInv, Lasts
    <3>3. QED  BY <1>10, <1>15, <3>1, <3>2
  <2>2. QED  BY <2>1 DEF Lasts
<1>26. LastAlone'
  BY <1>24 DEF LastAlone, TaskInv
<1>27. Worker(w)'
  BY <1>4, <1>5, <1>7, <1>9, <1>10 DEF Worker, HasTask, JobOf, WorkerPositions
<1>28. Calls'
  <2>1. \A t \in Clients : thread'[t] = thread[t]
    BY <1>9, Constants
  <2>2. QED  BY <1>10, <2>1, CallsStay DEF TaskInv
<1>29. TaskInv'
  BY <1>11, <1>16, <1>17, <1>18, <1>21, <1>22, <1>23, <1>25, <1>26, <1>27, <1>28 DEF TaskInv
<1>30. QED
  BY <1>1, <1>2, <1>4, <1>5, <1>7, <1>9, <1>10, <1>15, <1>29

LEMMA MarkJobTasks ==
  ASSUME TaskInv, NEW w \in Workers, MarkJobAsDone(w)
  PROVE  /\ TaskInv' /\ Moves(w, "after", thread[w].waitsFor, thread[w].failed)
         /\ \A k \in DOMAIN job :
              job'[k] = IF k = thread[w].job THEN [job[k] EXCEPT !.done = TRUE] ELSE job[k]
         /\ ~JobOf(w).done /\ Pending(thread[w].job) = {}
         /\ DOMAIN job' = DOMAIN job
<1>1. PICK j : j = thread[w].job
  OBVIOUS
<1>2. /\ Shape /\ w \in Threads /\ thread[w].pc = "last" /\ thread[w].failed \in BOOLEAN
      /\ thread[w].waitsFor \in Jobs \cup {0} /\ j \in DOMAIN job
  BY <1>1, WorkersPage DEF TaskInv, MarkJobAsDone
<1>3. Moves(w, "after", thread[w].waitsFor, thread[w].failed)
  <2>1. thread' = [thread EXCEPT ![w].pc = "after"]
    BY DEF MarkJobAsDone, GoTo
  <2>2. QED  BY <1>2, <2>1, MoveOn DEF WorkerPositions
<1>4. job \in Seq(JobRecord)
  BY <1>2 DEF Shape
<1>5. PICK q \in JobRecord : q = job[j]
  BY <1>2, <1>4
<1>6. PICK r : r = [q EXCEPT !.done = TRUE]
  OBVIOUS
<1>7. r \in JobRecord
  BY <1>6 DEF JobRecord
<1>8. job' = [job EXCEPT ![j] = r]
  BY <1>1, <1>2, <1>4, <1>5, <1>6 DEF MarkJobAsDone
<1>9. /\ job' \in Seq(JobRecord) /\ Len(job') = Len(job) /\ DOMAIN job' = DOMAIN job
      /\ \A k \in DOMAIN job : job'[k] = IF k = j THEN r ELSE job[k]
  BY <1>2, <1>4, <1>7, <1>8, ReplaceOne
<1>10. references' \in [Accessors -> Int]
  <2>1. PICK x : x = JobOf(w).accessor
    OBVIOUS
  <2>2. references \in [Accessors -> Int] /\ references' = [references EXCEPT ![x] = references[x] - 1]
    BY <1>2, <2>1 DEF Shape, MarkJobAsDone
  <2>3. PICK n : n = references[x] - 1
    OBVIOUS
  <2>4. x \in Accessors => n \in Int
    BY <2>2, <2>3
  <2>5. QED  BY <2>2, <2>3, <2>4, ReplaceValue
<1>11. Shape'
  BY <1>2, <1>3, <1>9, <1>10 DEF Shape, Moves, MarkJobAsDone, pageVars, history, NotifyAll
<1>12. Calls'
  <2>1. \A t \in Clients : thread'[t] = thread[t]
    BY <1>3, Constants DEF Moves
  <2>2. QED  BY <2>1, CallsStay DEF TaskInv, MarkJobAsDone
<1>13. TaskInv'
  BY <1>11, <1>12, MarkTasks
<1>14. ~job[j].done /\ Pending(j) = {}
  <2>1. \A k \in DOMAIN job : At(w, "last") /\ thread[w].job = k => ~job[k].done /\ Pending(k) = {}
    BY DEF TaskInv, Lasts
  <2>2. QED  BY <1>1, <1>2, <2>1
<1>15. QED  BY <1>1, <1>3, <1>5, <1>6, <1>9, <1>13, <1>14 DEF JobOf

-----------------------------------------------------------------------------
(* The steps of clients, CleanupThread and the destructor.                 *)

LEMMA ClientRests ==
  ASSUME TaskInv, Shape', Calls', Kept(job'), ListStays, UNCHANGED queue,
         \A w \in Workers : thread'[w] = thread[w]
  PROVE  TaskInv'
<1>1. JobsStay
  BY DEF Kept, JobsStay
<1>2. Rests
  BY <1>1 DEF Rests, WorkerStays
<1>3. QED  BY <1>2, RestsTasks

\* One call goes on.
LEMMA CallsOf ==
  ASSUME Calls, NEW t \in Clients, \A u \in Clients \ {t} : thread'[u] = thread[u],
         pagesMutex'["source"] = pagesMutex["source"],
         \/ pagesMutex'["target"] = pagesMutex["target"]
         \/ pagesMutex["target"] = t /\ pagesMutex'["target"] = NoThread
         \/ pagesMutex["target"] = NoThread /\ pagesMutex'["target"] = t,
         Call(t)', Outer(t)'
  PROVE  Calls'
<1>1. ASSUME NEW u \in Clients PROVE Call(u)' /\ Outer(u)'
  <2>1. CASE u # t
    <3>1. Call(u) /\ Outer(u) /\ thread'[u] = thread[u]
      BY <1>1, <2>1 DEF Calls
    <3>2. pagesMutex'["target"] = u <=> pagesMutex["target"] = u
      BY <1>1, <2>1, Constants
    <3>3. Call(u)'
      BY <3>1, <3>2 DEF Call
    <3>4. Outer(u)'
      BY <3>1 DEF Outer
    <3>5. QED  BY <3>3, <3>4
  <2>2. QED  BY <2>1
<1>2. QED  BY <1>1 DEF Calls

LEMMA ClientsCall ==
  ASSUME TaskInv, NEW t \in Clients
  PROVE  /\ Shape /\ t \in Threads /\ thread[t] \in ThreadRecord /\ Call(t) /\ Outer(t)
         /\ thread[t].failed \in BOOLEAN /\ thread[t].waitsFor \in Jobs \cup {0}
         /\ thread[t].request \in Request /\ thread[t].pages \in Seq(Chunks)
         /\ Len(thread[t].pages) \in Nat
         /\ thread[t].request.chunks \in Seq(Chunks) /\ Len(thread[t].request.chunks) \in Nat
<1>1. Shape /\ t \in Threads /\ Call(t) /\ Outer(t)
  BY Constants DEF TaskInv, Calls
<1>2. thread[t] \in ThreadRecord
  BY <1>1 DEF Shape
<1>3. thread[t].request \in Request /\ thread[t].pages \in Seq(Chunks)
  BY <1>2 DEF ThreadRecord
<1>4. thread[t].request.chunks \in Seq(Chunks)
  BY <1>3 DEF Request
<1>5. QED  BY <1>1, <1>2, <1>3, <1>4 DEF ThreadRecord

LEMMA FindAccessorTasks ==
  ASSUME TaskInv, NEW t \in Clients, FindAccessor(t)
  PROVE  TaskInv' /\ Moves(t, "size", thread[t].waitsFor, thread[t].failed)
<1>1. Moves(t, "size", thread[t].waitsFor, thread[t].failed) /\ thread[t].pc = "lock"
  <2>1. thread' = [thread EXCEPT ![t].pc = "size"] /\ thread[t].pc = "lock"
    BY DEF FindAccessor, GoTo
  <2>2. QED  BY <2>1, ClientsCall, MoveOn DEF ClientPositions
<1>2. UNCHANGED <<job, listed, queue, pagesMutex>>
  BY DEF FindAccessor, jobVars, accessorVars
<1>3. Shape'
  BY <1>1, ClientsCall DEF Shape, Moves, FindAccessor, accessorVars, pageVars, jobVars, history
<1>4. Call(t)' /\ Outer(t)'
  <2>1. Call(t) /\ Outer(t)
    BY ClientsCall
  <2>2. Call(t)'
    BY <1>1, <1>2, <2>1 DEF Call, Moves, InCall, ClientPositions
  <2>3. Outer(t)'
    BY <1>1, <2>1 DEF Outer, Moves
  <2>4. QED  BY <2>2, <2>3
<1>5. Calls'
  <2>1. \A u \in Clients \ {t} : thread'[u] = thread[u]
    BY <1>1, Constants DEF Moves
  <2>2. QED  BY <1>2, <1>4, <2>1, CallsOf DEF TaskInv
<1>6. Kept(job') /\ ListStays
  BY <1>2, ClientsCall, StaysItself, ListItself
<1>7. \A w \in Workers : thread'[w] = thread[w]
  BY <1>1, Constants DEF Moves
<1>8. QED  BY <1>1, <1>2, <1>3, <1>5, <1>6, <1>7, ClientRests

LEMMA EnsureMaxPagesTasks ==
  ASSUME TaskInv, NEW t \in Clients, EnsureMaxPages(t)
  PROVE  TaskInv' /\ Moves(t, "prepare", thread[t].waitsFor, thread[t].failed)
<1>1. Moves(t, "prepare", thread[t].waitsFor, thread[t].failed) /\ thread[t].pc = "size"
  <2>1. thread' = [thread EXCEPT ![t].pc = "prepare"] /\ thread[t].pc = "size"
    BY DEF EnsureMaxPages, GoTo
  <2>2. QED  BY <2>1, ClientsCall, MoveOn DEF ClientPositions
<1>2. UNCHANGED <<job, listed, queue, pagesMutex>>
  BY DEF EnsureMaxPages, jobVars, accessorVars
<1>3. AccessorFor(t) \in Accessors
  BY DEF AccessorFor, AccessorOf, Accessors
<1>4. Shape'
  <2>1. references' \in [Accessors -> Int] /\ keepsPages' \in [Accessors -> BOOLEAN]
    BY <1>3, ClientsCall DEF Shape, EnsureMaxPages
  <2>2. mutex' \in Threads \cup {NoThread}
    BY DEF EnsureMaxPages, ReleaseToPrepare
  <2>3. QED  BY <1>1, <1>2, <2>1, <2>2, ClientsCall DEF Shape, Moves, EnsureMaxPages, pageVars, history
<1>5. Call(t)' /\ Outer(t)'
  <2>1. Call(t) /\ Outer(t) /\ thread[t].request.chunks \in Seq(Chunks)
    BY ClientsCall
  <2>2. Proper(thread[t].request) /\ thread[t].pages = <<>>
    BY <1>1, <2>1 DEF Call, InCall
  <2>3. Len(thread[t].pages) < Len(thread[t].request.chunks)
    BY <2>1, <2>2 DEF Proper
  <2>4. Call(t)'
    BY <1>1, <1>2, <2>1, <2>3 DEF Call, Moves, InCall, ClientPositions
  <2>5. Outer(t)'
    BY <1>1, <2>1 DEF Outer, Moves
  <2>6. QED  BY <2>4, <2>5
<1>6. Calls'
  <2>1. \A u \in Clients \ {t} : thread'[u] = thread[u]
    BY <1>1, Constants DEF Moves
  <2>2. QED  BY <1>2, <1>5, <2>1, CallsOf DEF TaskInv
<1>7. Kept(job') /\ ListStays
  BY <1>2, ClientsCall, StaysItself, ListItself
<1>8. \A w \in Workers : thread'[w] = thread[w]
  BY <1>1, Constants DEF Moves
<1>9. QED  BY <1>1, <1>2, <1>4, <1>6, <1>7, <1>8, ClientRests

\* A client is told about a job, or asks for it to be cancelled.
LEMMA QuietTasks ==
  ASSUME TaskInv, Shape', UNCHANGED <<thread, queue, pagesMutex>>, Kept(job'), ListStays
  PROVE  TaskInv'
<1>1. Calls'
  BY CallsStay DEF TaskInv
<1>2. QED  BY <1>1, ClientRests

LEMMA TakenTasks ==
  ASSUME TaskInv, NEW t \in Clients, NEW j \in owned[t], IsCompleted(t, j) \/ IsCanceled(t, j)
  PROVE  TaskInv'
<1>1. Shape /\ owned \in [Clients -> SUBSET Jobs]
  BY DEF TaskInv, Shape
<1>2. /\ TakeCompleted(j) \/ TakeCanceled(j)
      /\ owned' = [owned EXCEPT ![t] = @ \ {j}]
      /\ job' = Deleted(job, j)
      /\ UNCHANGED <<mutex, accessorVars, pageVars, queue, asleep, thread, closer, cancelledBy>>
  BY DEF IsCompleted, IsCanceled
<1>3. result' \in [Jobs -> Results] /\ IsDone(j) /\ EraseJob(j)
  BY <1>1, <1>2, TakesResult
<1>4. Kept(job')
  BY <1>1, <1>2, <1>3, DeletesJob
<1>5. ListStays /\ listed' \in Seq(Jobs)
  BY <1>3, ErasesJob
<1>6. owned' \in [Clients -> SUBSET Jobs]
  BY <1>1, <1>2
<1>7. Shape'
  BY <1>1, <1>2, <1>3, <1>4, <1>5, <1>6 DEF Shape, Kept, accessorVars, pageVars
<1>8. QED  BY <1>2, <1>4, <1>5, <1>7, QuietTasks DEF accessorVars

LEMMA CancelTasks ==
  ASSUME TaskInv, NEW t \in Clients, NEW j \in owned[t], Cancel(t, j)
  PROVE  TaskInv'
<1>1. Shape /\ owned \in [Clients -> SUBSET Jobs]
  BY DEF TaskInv, Shape
<1>2. job' = [job EXCEPT ![j].cancelled = TRUE] /\ cancelledBy' = cancelledBy \cup {j} /\ asleep' = {}
  BY DEF Cancel, NotifyAll
<1>3. Kept(job')
  BY <1>1, <1>2, CancelsJob, StaysItself
<1>4. cancelledBy' \subseteq Jobs \cup {0}
  BY <1>1, <1>2 DEF Shape
<1>5. UNCHANGED <<mutex, accessorVars, pageVars, listed, queue, thread, owned, closer, result>>
  BY DEF Cancel
<1>6. Shape'
  BY <1>1, <1>2, <1>3, <1>4, <1>5 DEF Shape, Kept, accessorVars, pageVars
<1>7. QED  BY <1>3, <1>5, <1>6, QuietTasks, ListItself DEF accessorVars

LEMMA SleepTasks ==
  ASSUME TaskInv, NEW t \in Threads, Sleep(t)
  PROVE  TaskInv'
<1>1. Shape
  BY DEF TaskInv
<1>2. asleep' \subseteq Threads /\ UNCHANGED <<mutex, accessorVars, pageVars, jobVars, thread, owned, closer, history>>
  BY <1>1 DEF Sleep, Shape
<1>3. Shape'
  BY <1>1, <1>2 DEF Shape, accessorVars, pageVars, jobVars, history
<1>4. Kept(job')
  BY <1>1, <1>2, StaysItself DEF jobVars
<1>5. QED  BY <1>2, <1>3, <1>4, QuietTasks, ListItself DEF accessorVars, jobVars

LEMMA CleanUpTasks ==
  ASSUME TaskInv, NEW x \in Accessors, CleanUp(x)
  PROVE  TaskInv'
<1>1. Shape
  BY DEF TaskInv
<1>2. UNCHANGED <<mutex, pagesMutex, references, pins, remapJob, jobVars, asleep, thread, owned, closer, history>>
  BY DEF CleanUp
<1>3. keepsPages' \in [Accessors -> BOOLEAN]
  BY <1>1 DEF CleanUp, Shape
<1>4. content' \in [TargetChunks -> Contents]
  BY <1>1 DEF CleanUp, Shape, Contents
<1>5. Shape'
  BY <1>1, <1>2, <1>3, <1>4 DEF Shape, jobVars, history
<1>6. Kept(job')
  BY <1>1, <1>2, StaysItself DEF jobVars
<1>7. QED  BY <1>2, <1>5, <1>6, QuietTasks, ListItself DEF jobVars

LEMMA CloseTasks ==
  ASSUME TaskInv, Close
  PROVE  TaskInv'
<1>1. Shape /\ Listed \subseteq DOMAIN job
  BY DEF TaskInv, JobsListed
<1>2. /\ job' = [j \in DOMAIN job |-> IF j \in Listed THEN [job[j] EXCEPT !.cancelled = TRUE] ELSE job[j]]
      /\ cancelledBy' = cancelledBy \cup Listed
      /\ closer' = <<1, Len(listed)>>
      /\ UNCHANGED <<mutex, accessorVars, pageVars, listed, queue, asleep, thread, owned, result>>
  BY DEF Close
<1>3. job \in Seq(JobRecord) /\ DOMAIN job = 1 .. Len(job) /\ Len(job) \in Nat
  BY <1>1, JobPlaces DEF Shape
<1>4. ASSUME NEW j \in DOMAIN job PROVE job'[j] \in JobRecord /\ Stays(job[j], job'[j])
  <2>1. PICK q \in JobRecord : q = job[j]
    BY <1>3, <1>4
  <2>2. job'[j] = [q EXCEPT !.cancelled = TRUE] \/ job'[j] = q
    BY <1>2, <1>4, <2>1
  <2>3. /\ [q EXCEPT !.cancelled = TRUE] \in JobRecord /\ Stays(q, [q EXCEPT !.cancelled = TRUE])
        /\ Stays(q, q)
    BY DEF JobRecord, Stays
  <2>4. QED  BY <2>1, <2>2, <2>3
<1>5. Kept(job')
  <2>1. job' \in [1 .. Len(job) -> JobRecord]
    BY <1>2, <1>3, <1>4
  <2>2. job' \in Seq(JobRecord) /\ Len(job') = Len(job)
    BY <1>3, <2>1, SeqDef, LenProperties
  <2>3. QED  BY <1>4, <2>2 DEF Kept
<1>6. cancelledBy' \subseteq Jobs \cup {0}
  <2>1. DOMAIN job \subseteq Jobs
    BY <1>1, JobPlaces
  <2>2. cancelledBy \subseteq Jobs \cup {0}
    BY <1>1 DEF Shape
  <2>3. QED  BY <1>1, <1>2, <2>1, <2>2
<1>7. closer' \in Nat \X Nat
  <2>1. Len(listed) \in Nat
    BY <1>1 DEF Shape
  <2>2. QED  BY <1>2, <2>1
<1>8. Shape'
  BY <1>1, <1>2, <1>5, <1>6, <1>7 DEF Shape, Kept, accessorVars, pageVars
<1>9. QED  BY <1>2, <1>5, <1>8, QuietTasks, ListItself DEF accessorVars

LEMMA CloseNextTasks ==
  ASSUME TaskInv, CloseNext
  PROVE  TaskInv'
<1>1. Shape
  BY DEF TaskInv
<1>2. closer' = [closer EXCEPT ![1] = @ + 1]
  BY DEF CloseNext
<1>3. UNCHANGED <<mutex, accessorVars, pageVars, jobVars, asleep, thread, owned, history>>
  BY DEF CloseNext
<1>4. closer' \in Nat \X Nat
  <2>1. closer \in Nat \X Nat
    BY <1>1 DEF Shape
  <2>2. QED  BY <1>2, <2>1
<1>5. Shape'
  BY <1>1, <1>3, <1>4 DEF Shape, accessorVars, pageVars, jobVars, history
<1>6. Kept(job')
  BY <1>1, <1>3, StaysItself DEF jobVars
<1>7. QED  BY <1>3, <1>5, <1>6, QuietTasks, ListItself DEF accessorVars, jobVars

LEMMA WaitsTasks ==
  ASSUME TaskInv, NEW t \in Clients, NEW j \in owned[t], WaitForCompletion(t, j)
  PROVE  TaskInv' /\ Moves(t, "wait", j, thread[t].failed)
<1>1. j \in Jobs
  BY DEF TaskInv, Shape
<1>2. Moves(t, "wait", j, thread[t].failed) /\ thread[t].pc = "idle"
  <2>1. thread' = [thread EXCEPT ![t].pc = "wait", ![t].waitsFor = j] /\ thread[t].pc = "idle"
    BY DEF WaitForCompletion
  <2>2. QED  BY <1>1, <2>1, ClientsCall, MoveOn DEF ClientPositions
<1>3. UNCHANGED <<job, listed, queue, pagesMutex>>
  BY DEF WaitForCompletion, jobVars, accessorVars
<1>4. Shape'
  BY <1>2, ClientsCall DEF Shape, Moves, WaitForCompletion, accessorVars, pageVars, jobVars, history
<1>5. Call(t)' /\ Outer(t)'
  <2>1. Call(t) /\ Outer(t)
    BY ClientsCall
  <2>2. Call(t)'
    BY <1>2, <1>3, <2>1 DEF Call, Moves, InCall, ClientPositions
  <2>3. Outer(t)'
    BY <1>2, <2>1 DEF Outer, Moves
  <2>4. QED  BY <2>2, <2>3
<1>6. Calls'
  <2>1. \A u \in Clients \ {t} : thread'[u] = thread[u]
    BY <1>2, Constants DEF Moves
  <2>2. QED  BY <1>3, <1>5, <2>1, CallsOf DEF TaskInv
<1>7. Kept(job') /\ ListStays
  BY <1>3, ClientsCall, StaysItself, ListItself
<1>8. \A w \in Workers : thread'[w] = thread[w]
  BY <1>2, Constants DEF Moves
<1>9. QED  BY <1>2, <1>3, <1>4, <1>6, <1>7, <1>8, ClientRests

LEMMA WaitReturnsTasks ==
  ASSUME TaskInv, NEW t \in Clients, WaitReturns(t)
  PROVE  TaskInv' /\ Moves(t, "idle", 0, thread[t].failed)
<1> DEFINE j == thread[t].waitsFor
<1>1. Moves(t, "idle", 0, thread[t].failed) /\ thread[t].pc = "wait"
  <2>1. thread' = [thread EXCEPT ![t].pc = "idle", ![t].waitsFor = 0] /\ thread[t].pc = "wait"
    BY DEF WaitReturns
  <2>2. QED  BY <2>1, ClientsCall, MoveOn DEF ClientPositions
<1>2. UNCHANGED <<queue, pagesMutex>>
  BY DEF WaitReturns, accessorVars
<1>3. Shape /\ owned \in [Clients -> SUBSET Jobs]
  BY DEF TaskInv, Shape
<1>4. /\ Kept(job') /\ ListStays /\ listed' \in Seq(Jobs) /\ result' \in [Jobs -> Results]
      /\ owned' \in [Clients -> SUBSET Jobs]
  <2>1. CASE TakeCompleted(j) /\ job' = Deleted(job, j) /\ owned' = [owned EXCEPT ![t] = @ \ {j}]
    <3>1. result' \in [Jobs -> Results] /\ IsDone(j) /\ EraseJob(j)
      BY <1>3, <2>1, TakesResult
    <3>2. Kept(job')
      BY <1>3, <2>1, <3>1, DeletesJob
    <3>3. ListStays /\ listed' \in Seq(Jobs)
      BY <3>1, ErasesJob
    <3>4. owned' \in [Clients -> SUBSET Jobs]
      BY <1>3, <2>1
    <3>5. QED  BY <3>1, <3>2, <3>3, <3>4
  <2>2. CASE UNCHANGED <<job, listed, result, owned>>
    BY <1>3, <2>2, StaysItself, ListItself DEF Shape
  <2>3. QED  BY <2>1, <2>2 DEF WaitReturns
<1>5. Shape'
  BY <1>1, <1>3, <1>4 DEF Shape, Moves, Kept, WaitReturns, accessorVars, pageVars
<1>6. Call(t)' /\ Outer(t)'
  <2>1. Call(t) /\ Outer(t)
    BY ClientsCall
  <2>2. Call(t)'
    BY <1>1, <1>2, <2>1 DEF Call, Moves, InCall, ClientPositions
  <2>3. Outer(t)'
    BY <1>1, <2>1 DEF Outer, Moves
  <2>4. QED  BY <2>2, <2>3
<1>7. Calls'
  <2>1. \A u \in Clients \ {t} : thread'[u] = thread[u]
    BY <1>1, Constants DEF Moves
  <2>2. QED  BY <1>2, <1>6, <2>1, CallsOf DEF TaskInv
<1>8. \A w \in Workers : thread'[w] = thread[w]
  BY <1>1, Constants DEF Moves
<1>9. QED  BY <1>1, <1>2, <1>4, <1>5, <1>7, <1>8, ClientRests

LEMMA ProperRequests ==
  ASSUME NEW t \in Clients, NEW r \in Requests[t]
  PROVE  Proper(r)
<1>1. /\ r \in Request /\ r.chunks # <<>>
      /\ \A i, k \in DOMAIN r.chunks : AccessorOf(r.chunks[i]) = AccessorOf(r.chunks[k])
      /\ r.single => \A i \in DOMAIN r.chunks : r.chunks[i] \in SourceChunks
  BY RequestProcessorAssumption
<1>2. r.chunks \in Seq(Chunks)
  BY <1>1 DEF Request
<1>3. DOMAIN r.chunks = 1 .. Len(r.chunks) /\ Len(r.chunks) \in Nat
  BY <1>2
<1>4. 1 \in 1 .. Len(r.chunks)
  <2>1. Len(r.chunks) # 0
    BY <1>1, <1>2
  <2>2. QED  BY <1>3, <2>1
<1>5. \A i \in 1 .. Len(r.chunks) : r.chunks[i] \in Chunks /\ AccessorOf(r.chunks[i]) = AccessorOf(r.chunks[1])
  BY <1>1, <1>2, <1>3, <1>4
<1>6. CASE r.chunks[1] \in TargetChunks
  <2>1. Targets(r)
    BY <1>5, <1>6 DEF Targets, AccessorOf, Accessors
  <2>2. ~r.single
    BY <1>1, <1>3, <1>4, <1>6, Constants
  <2>3. QED  BY <1>1, <2>1, <2>2 DEF Proper
<1>7. CASE r.chunks[1] \notin TargetChunks
  <2>1. Sources(r)
    BY <1>5, <1>7 DEF Sources, AccessorOf, Chunks
  <2>2. QED  BY <1>1, <2>1 DEF Proper
<1>8. QED  BY <1>6, <1>7

\* A call that changes only its own record.
LEMMA OwnRecord ==
  ASSUME TaskInv, NEW t \in Clients, NEW s \in ThreadRecord, thread' = [thread EXCEPT ![t] = s]
  PROVE  /\ thread' \in [Threads -> ThreadRecord] /\ thread'[t] = s
         /\ \A u \in Threads \ {t} : thread'[u] = thread[u]
         /\ \A u \in Clients \ {t} : thread'[u] = thread[u]
         /\ \A w \in Workers : thread'[w] = thread[w]
<1>1. thread \in [Threads -> ThreadRecord] /\ t \in Threads
  BY ClientsCall DEF Shape
<1>2. thread' \in [Threads -> ThreadRecord] /\ thread'[t] = s /\ \A u \in Threads \ {t} : thread'[u] = thread[u]
  BY <1>1
<1>3. QED  BY <1>2, Constants

LEMMA RequestDataTasks ==
  ASSUME TaskInv, NEW t \in Clients, NEW r \in Requests[t], RequestData(t, r)
  PROVE  /\ TaskInv' /\ \A u \in Threads \ {t} : thread'[u] = thread[u]
         /\ thread[t].pc = "idle" /\ thread'[t].pc = "lock" /\ thread'[t].waitsFor = thread[t].waitsFor
         /\ thread'[t].pages = <<>> /\ thread'[t].outer = NoFrame
         /\ thread[t].pages = <<>> /\ thread[t].outer = NoFrame /\ thread'[t].request = r
<1>1. PICK s : s = [thread[t] EXCEPT !.pc = "lock", !.request = r]
  OBVIOUS
<1>2. Proper(r)
  BY ProperRequests
<1>3. thread[t].pc = "idle" /\ Call(t) /\ thread[t] \in ThreadRecord
  BY ClientsCall DEF RequestData
<1>4. /\ s \in ThreadRecord /\ s.pc = "lock" /\ s.request = r /\ s.pages = thread[t].pages
      /\ s.outer = thread[t].outer /\ s.refused = thread[t].refused /\ s.waitsFor = thread[t].waitsFor
  <2>1. r \in Request
    BY <1>2 DEF Proper
  <2>2. PICK q \in ThreadRecord : q = thread[t]
    BY <1>3
  <2>3. s = [q EXCEPT !.pc = "lock", !.request = r]
    BY <1>1, <2>2
  <2>4. /\ s \in ThreadRecord /\ s.pc = "lock" /\ s.request = r /\ s.pages = q.pages
        /\ s.outer = q.outer /\ s.refused = q.refused /\ s.waitsFor = q.waitsFor
    BY <2>1, <2>3 DEF ThreadRecord, ClientPositions
  <2>5. QED  BY <2>2, <2>4
<1>5. thread' = [thread EXCEPT ![t] = s]
  BY <1>1, ClientsCall DEF RequestData, Shape
<1>6. /\ thread' \in [Threads -> ThreadRecord] /\ thread'[t] = s
      /\ \A u \in Threads \ {t} : thread'[u] = thread[u]
      /\ \A u \in Clients \ {t} : thread'[u] = thread[u]
      /\ \A w \in Workers : thread'[w] = thread[w]
  BY <1>4, <1>5, OwnRecord
<1>7. UNCHANGED <<mutex, accessorVars, pageVars, jobVars, asleep, owned, closer, history>>
  BY DEF RequestData
<1>8. Shape'
  BY <1>6, <1>7, ClientsCall DEF Shape, accessorVars, pageVars, jobVars, history
<1>9. thread[t].pages = <<>> /\ thread[t].outer = NoFrame /\ ~thread[t].refused
  BY <1>3 DEF Call, InCall
<1>10. Call(t)' /\ Outer(t)'
  <2>1. Begun(<<>>, r)
    <3>1. Len(r.chunks) \in Nat
      BY <1>2 DEF Proper, Request
    <3>2. QED  BY <3>1 DEF Begun
  <2>2. pagesMutex' = pagesMutex
    BY <1>7 DEF accessorVars
  <2>3. Call(t)'
    BY <1>2, <1>3, <1>4, <1>6, <1>9, <2>1, <2>2 DEF Call, InCall, ClientPositions
  <2>4. Outer(t)'
    BY <1>4, <1>6, <1>9 DEF Outer
  <2>5. QED  BY <2>3, <2>4
<1>11. Calls'
  BY <1>6, <1>7, <1>10, CallsOf DEF TaskInv, accessorVars
<1>12. Kept(job') /\ ListStays
  BY <1>7, ClientsCall, StaysItself, ListItself DEF jobVars
<1>13. TaskInv'
  BY <1>6, <1>7, <1>8, <1>11, <1>12, ClientRests DEF jobVars
<1>14. QED  BY <1>3, <1>4, <1>6, <1>9, <1>13

\* The page that is prepared next.
Next1(t) == thread[t].request.chunks[Len(thread[t].pages) + 1]

LEMMA NextPrepared ==
  ASSUME TaskInv, NEW t \in Clients, At(t, "prepare")
  PROVE  /\ Len(thread[t].pages) < Len(thread[t].request.chunks)
         /\ Len(thread[t].pages) + 1 \in 1 .. Len(thread[t].request.chunks)
         /\ Next1(t) \in Chunks
         /\ Proper(thread[t].request) /\ Begun(thread[t].pages, thread[t].request)
         /\ AccessorOf(Next1(t)) = AccessorFor(t)
         /\ ~thread[t].refused
         /\ Next1(t) \in TargetChunks => Targets(thread[t].request) /\ thread[t].outer = NoFrame
         /\ Next1(t) \in SourceChunks => Sources(thread[t].request)
<1>1. Call(t) /\ Outer(t) /\ thread[t].pc = "prepare"
  BY ClientsCall
<1>2. /\ Len(thread[t].pages) < Len(thread[t].request.chunks)
      /\ Proper(thread[t].request) /\ Begun(thread[t].pages, thread[t].request)
      /\ ~thread[t].refused
  BY <1>1 DEF Call, InCall
<1>3. Len(thread[t].pages) + 1 \in 1 .. Len(thread[t].request.chunks)
  BY <1>2, ClientsCall
<1>4. Next1(t) \in Chunks
  BY <1>3, ClientsCall DEF Next1
<1>5. /\ Next1(t) \in TargetChunks => Targets(thread[t].request)
      /\ Next1(t) \in SourceChunks => Sources(thread[t].request)
  BY <1>2, <1>3, Constants DEF Next1, Proper, Sources, Targets
<1>6. Head(thread[t].request.chunks) = thread[t].request.chunks[1] /\ 1 \in 1 .. Len(thread[t].request.chunks)
  BY <1>2, <1>3, ClientsCall
<1>7. AccessorOf(Next1(t)) = AccessorFor(t)
  <2>1. CASE Next1(t) \in TargetChunks
    BY <1>5, <1>6, <2>1 DEF Targets, AccessorFor, AccessorOf
  <2>2. CASE Next1(t) \notin TargetChunks
    <3>1. thread[t].request.chunks[1] \in SourceChunks
      BY <1>4, <1>5, <1>6, <2>2 DEF Sources, Chunks
    <3>2. QED  BY <1>6, <2>2, <3>1, Constants DEF AccessorFor, AccessorOf
  <2>3. QED  BY <2>1, <2>2
<1>8. Next1(t) \in TargetChunks => thread[t].outer = NoFrame
  BY <1>1, <1>3, Constants DEF Outer, Sources, Next1
<1>9. QED  BY <1>2, <1>3, <1>4, <1>5, <1>7, <1>8

LEMMA PreparePageTasks ==
  ASSUME TaskInv, NEW t \in Clients, PrepareReadPage(t)
  PROVE  /\ TaskInv' /\ \A u \in Threads \ {t} : thread'[u] = thread[u]
         /\ thread[t].pc = "prepare" /\ thread'[t].pc \in {"prepare", "enqueue"}
         /\ thread'[t].waitsFor = thread[t].waitsFor /\ thread'[t].request = thread[t].request
         /\ thread'[t].pages = Append(thread[t].pages, Next1(t))
         /\ thread'[t].outer = thread[t].outer
<1>1. PICK n, c, pages, pc :
        /\ n = Len(thread[t].pages) + 1 /\ c = Next1(t) /\ pages = Append(thread[t].pages, c)
        /\ pc = IF n = Len(thread[t].request.chunks) THEN "enqueue" ELSE "prepare"
  OBVIOUS
<1>2. PICK s : s = [thread[t] EXCEPT !.pages = pages, !.pc = pc]
  OBVIOUS
<1>3. /\ thread[t].pc = "prepare" /\ Call(t) /\ Outer(t) /\ thread[t] \in ThreadRecord
      /\ thread[t].pages \in Seq(Chunks) /\ Len(thread[t].pages) \in Nat
      /\ thread[t].request.chunks \in Seq(Chunks) /\ Len(thread[t].request.chunks) \in Nat
  BY ClientsCall DEF PrepareReadPage
<1>4. /\ c \in Chunks /\ n \in 1 .. Len(thread[t].request.chunks)
      /\ Proper(thread[t].request) /\ Begun(thread[t].pages, thread[t].request) /\ ~thread[t].refused
      /\ c = thread[t].request.chunks[n]
  BY <1>1, <1>3, NextPrepared DEF Next1
<1>5. /\ pages \in Seq(Chunks) /\ Len(pages) = n /\ pages[n] = c
      /\ \A i \in 1 .. Len(thread[t].pages) : pages[i] = thread[t].pages[i]
  BY <1>1, <1>3, <1>4
<1>6. /\ s \in ThreadRecord /\ s.pc = pc /\ s.request = thread[t].request /\ s.pages = pages
      /\ s.outer = thread[t].outer /\ s.refused = thread[t].refused /\ s.waitsFor = thread[t].waitsFor
  <2>1. PICK q \in ThreadRecord : q = thread[t]
    BY <1>3
  <2>2. s = [q EXCEPT !.pages = pages, !.pc = pc] /\ pc \in ClientPositions
    BY <1>1, <1>2, <2>1 DEF ClientPositions
  <2>3. /\ s \in ThreadRecord /\ s.pc = pc /\ s.request = q.request /\ s.pages = pages
        /\ s.outer = q.outer /\ s.refused = q.refused /\ s.waitsFor = q.waitsFor
    BY <1>5, <2>2 DEF ThreadRecord
  <2>4. QED  BY <2>1, <2>3
<1>7. thread' = [thread EXCEPT ![t] = s]
  BY <1>1, <1>2, <1>3, ClientsCall DEF PrepareReadPage, HasPage, Next1, Shape
<1>8. /\ thread' \in [Threads -> ThreadRecord] /\ thread'[t] = s
      /\ \A u \in Threads \ {t} : thread'[u] = thread[u]
      /\ \A u \in Clients \ {t} : thread'[u] = thread[u]
      /\ \A w \in Workers : thread'[w] = thread[w]
  BY <1>6, <1>7, OwnRecord
<1>9. UNCHANGED <<mutex, accessorVars, content, remapJob, jobVars, asleep, owned, closer, history>>
  BY DEF PrepareReadPage
<1>10. pins' \in [Chunks -> Int]
  <2>1. pins' = [pins EXCEPT ![c] = pins[c] + 1]
    BY <1>1 DEF PrepareReadPage, Next1
  <2>2. pins \in [Chunks -> Int]
    BY ClientsCall DEF Shape
  <2>3. QED  BY <1>4, <2>1, <2>2
<1>11. Shape'
  BY <1>8, <1>9, <1>10, ClientsCall DEF Shape, accessorVars, jobVars, history
<1>12. Call(t)' /\ Outer(t)'
  <2>1. Begun(pages, thread[t].request)
    <3>1. ASSUME NEW i \in 1 .. Len(pages) PROVE pages[i] = thread[t].request.chunks[i]
      <4>1. CASE i = n
        BY <1>4, <1>5, <4>1
      <4>2. CASE i # n
        <5>1. i \in 1 .. Len(thread[t].pages)
          BY <1>1, <1>3, <1>5, <4>2
        <5>2. QED  BY <1>4, <1>5, <5>1 DEF Begun
      <4>3. QED  BY <4>1, <4>2
    <3>2. QED  BY <1>3, <1>4, <1>5, <3>1 DEF Begun
  <2>2. pagesMutex' = pagesMutex
    BY <1>9 DEF accessorVars
  <2>3. pc \in {"prepare", "enqueue"} /\ (pc = "prepare" => Len(pages) < Len(thread[t].request.chunks))
        /\ (pc = "enqueue" => Len(pages) = Len(thread[t].request.chunks))
    BY <1>1, <1>3, <1>4, <1>5
  <2>4. Call(t)'
    BY <1>3, <1>4, <1>6, <1>8, <2>1, <2>2, <2>3 DEF Call, InCall, ClientPositions
  <2>5. Outer(t)'
    BY <1>3, <1>6, <1>8 DEF Outer
  <2>6. QED  BY <2>4, <2>5
<1>13. Calls'
  BY <1>8, <1>9, <1>12, CallsOf DEF TaskInv, accessorVars
<1>14. Kept(job') /\ ListStays
  BY <1>9, ClientsCall, StaysItself, ListItself DEF jobVars
<1>15. TaskInv'
  BY <1>8, <1>9, <1>11, <1>13, <1>14, ClientRests DEF jobVars
<1>16. QED  BY <1>1, <1>3, <1>6, <1>8, <1>15

LEMMA PrepareRefusedTasks ==
  ASSUME TaskInv, NEW t \in Clients, PrepareRefused(t)
  PROVE  /\ TaskInv' /\ \A u \in Threads \ {t} : thread'[u] = thread[u]
         /\ thread[t].pc = "prepare" /\ thread'[t].pc = "enqueue"
         /\ thread'[t].waitsFor = thread[t].waitsFor /\ thread'[t].request = thread[t].request
         /\ thread'[t].pages = thread[t].pages /\ thread'[t].outer = thread[t].outer
<1>1. PICK s : s = [thread[t] EXCEPT !.refused = TRUE, !.pc = "enqueue"]
  OBVIOUS
<1>2. thread[t].pc = "prepare" /\ Call(t) /\ Outer(t) /\ thread[t] \in ThreadRecord
  BY ClientsCall DEF PrepareRefused
<1>3. /\ Len(thread[t].pages) < Len(thread[t].request.chunks)
      /\ Proper(thread[t].request) /\ Begun(thread[t].pages, thread[t].request)
      /\ Sources(thread[t].request)
  BY <1>2, NextPrepared DEF PrepareRefused, Next1
<1>4. /\ s \in ThreadRecord /\ s.pc = "enqueue" /\ s.request = thread[t].request /\ s.pages = thread[t].pages
      /\ s.outer = thread[t].outer /\ s.refused = TRUE /\ s.waitsFor = thread[t].waitsFor
  <2>1. PICK q \in ThreadRecord : q = thread[t]
    BY <1>2
  <2>2. s = [q EXCEPT !.refused = TRUE, !.pc = "enqueue"]
    BY <1>1, <2>1
  <2>3. /\ s \in ThreadRecord /\ s.pc = "enqueue" /\ s.request = q.request /\ s.pages = q.pages
        /\ s.outer = q.outer /\ s.refused = TRUE /\ s.waitsFor = q.waitsFor
    BY <2>2 DEF ThreadRecord, ClientPositions
  <2>4. QED  BY <2>1, <2>3
<1>5. thread' = [thread EXCEPT ![t] = s]
  BY <1>1, ClientsCall DEF PrepareRefused, Shape
<1>6. /\ thread' \in [Threads -> ThreadRecord] /\ thread'[t] = s
      /\ \A u \in Threads \ {t} : thread'[u] = thread[u]
      /\ \A u \in Clients \ {t} : thread'[u] = thread[u]
      /\ \A w \in Workers : thread'[w] = thread[w]
  BY <1>4, <1>5, OwnRecord
<1>7. UNCHANGED <<mutex, accessorVars, pageVars, jobVars, asleep, owned, closer, history>>
  BY DEF PrepareRefused
<1>8. Shape'
  BY <1>6, <1>7, ClientsCall DEF Shape, accessorVars, pageVars, jobVars, history
<1>9. Call(t)' /\ Outer(t)'
  <2>1. pagesMutex' = pagesMutex
    BY <1>7 DEF accessorVars
  <2>2. Call(t)'
    BY <1>2, <1>3, <1>4, <1>6, <2>1 DEF Call, InCall, ClientPositions
  <2>3. Outer(t)'
    BY <1>2, <1>4, <1>6 DEF Outer
  <2>4. QED  BY <2>2, <2>3
<1>10. Calls'
  BY <1>6, <1>7, <1>9, CallsOf DEF TaskInv, accessorVars
<1>11. Kept(job') /\ ListStays
  BY <1>7, ClientsCall, StaysItself, ListItself DEF jobVars
<1>12. TaskInv'
  BY <1>6, <1>7, <1>8, <1>10, <1>11, ClientRests DEF jobVars
<1>13. QED  BY <1>2, <1>4, <1>6, <1>12

LEMMA RemapRequest ==
  ASSUME NEW c \in TargetChunks
  PROVE  /\ Proper([NoRequest EXCEPT !.chunks = RemapSources[c]])
         /\ Sources([NoRequest EXCEPT !.chunks = RemapSources[c]])
         /\ ~[NoRequest EXCEPT !.chunks = RemapSources[c]].single
         /\ ~[NoRequest EXCEPT !.chunks = RemapSources[c]].fails
<1>1. PICK r : r = [NoRequest EXCEPT !.chunks = RemapSources[c]]
  OBVIOUS
<1>2. RemapSources[c] \in Seq(SourceChunks) /\ RemapSources[c] # <<>>
  BY RequestProcessorAssumption
<1>3. r = [chunks |-> RemapSources[c], single |-> FALSE, fails |-> FALSE]
  BY <1>1 DEF NoRequest
<1>4. RemapSources[c] \in Seq(Chunks)
  BY <1>2, Constants
<1>5. r \in Request /\ r.chunks = RemapSources[c] /\ ~r.single /\ ~r.fails
  BY <1>3, <1>4 DEF Request
<1>6. Sources(r)
  BY <1>2, <1>5 DEF Sources
<1>7. Proper(r)
  BY <1>2, <1>5, <1>6 DEF Proper
<1>8. QED  BY <1>1, <1>5, <1>6, <1>7

LEMMA AddRemapJobTasks ==
  ASSUME TaskInv, NEW t \in Clients, AddRemapJob(t)
  PROVE  /\ TaskInv' /\ \A u \in Threads \ {t} : thread'[u] = thread[u]
         /\ thread[t].pc = "prepare" /\ thread'[t].pc = "lock"
         /\ Next1(t) \in TargetChunks /\ thread[t].outer = NoFrame
         /\ Targets(thread[t].request) /\ Proper(thread[t].request)
         /\ Len(thread[t].pages) < Len(thread[t].request.chunks)
         /\ thread'[t].waitsFor = thread[t].waitsFor
         /\ thread'[t].pages = <<>>
         /\ thread'[t].outer = [request |-> thread[t].request, pages |-> thread[t].pages]
         /\ thread'[t].outer # NoFrame
<1>1. PICK f, r, s : /\ f = [request |-> thread[t].request, pages |-> thread[t].pages]
                     /\ r = [NoRequest EXCEPT !.chunks = RemapSources[Next1(t)]]
                     /\ s = [thread[t] EXCEPT !.pc = "lock", !.outer = f, !.request = r, !.pages = <<>>]
  OBVIOUS
<1>2. thread[t].pc = "prepare" /\ Call(t) /\ Outer(t) /\ thread[t] \in ThreadRecord
  BY ClientsCall DEF AddRemapJob
<1>3. /\ Len(thread[t].pages) < Len(thread[t].request.chunks)
      /\ Proper(thread[t].request) /\ Begun(thread[t].pages, thread[t].request)
      /\ Targets(thread[t].request) /\ thread[t].outer = NoFrame /\ ~thread[t].refused
      /\ Next1(t) \in TargetChunks
  BY <1>2, NextPrepared DEF AddRemapJob, Next1
<1>4. Proper(r) /\ Sources(r) /\ ~r.single /\ ~r.fails
  BY <1>1, <1>3, RemapRequest
<1>5. f \in Frame /\ f # NoFrame /\ f.request = thread[t].request /\ f.pages = thread[t].pages
  BY <1>1, ClientsCall, Constants DEF Frame
<1>6. /\ s \in ThreadRecord /\ s.pc = "lock" /\ s.request = r /\ s.pages = <<>>
      /\ s.outer = f /\ s.refused = thread[t].refused /\ s.waitsFor = thread[t].waitsFor
  <2>1. PICK q \in ThreadRecord : q = thread[t]
    BY <1>2
  <2>2. s = [q EXCEPT !.pc = "lock", !.outer = f, !.request = r, !.pages = <<>>]
    BY <1>1, <2>1
  <2>3. r \in Request /\ <<>> \in Seq(Chunks)
    BY <1>4 DEF Proper
  <2>4. /\ s \in ThreadRecord /\ s.pc = "lock" /\ s.request = r /\ s.pages = <<>>
        /\ s.outer = f /\ s.refused = q.refused /\ s.waitsFor = q.waitsFor
    BY <1>5, <2>2, <2>3 DEF ThreadRecord, ClientPositions
  <2>5. QED  BY <2>1, <2>4
<1>7. thread' = [thread EXCEPT ![t] = s]
  BY <1>1, ClientsCall DEF AddRemapJob, Next1, Shape
<1>8. /\ thread' \in [Threads -> ThreadRecord] /\ thread'[t] = s
      /\ \A u \in Threads \ {t} : thread'[u] = thread[u]
      /\ \A u \in Clients \ {t} : thread'[u] = thread[u]
      /\ \A w \in Workers : thread'[w] = thread[w]
  BY <1>6, <1>7, OwnRecord
<1>9. UNCHANGED <<mutex, references, keepsPages, remapJob, jobVars, asleep, owned, closer, history>>
  BY DEF AddRemapJob
<1>10. /\ pagesMutex \in [Accessors -> Threads \cup {NoThread}]
       /\ pagesMutex' = [pagesMutex EXCEPT !["target"] = t]
       /\ pagesMutex["target"] = NoThread /\ t \in Threads
  BY ClientsCall DEF AddRemapJob, PagesMutexFree, Shape
<1>11. /\ pagesMutex' \in [Accessors -> Threads \cup {NoThread}]
       /\ pagesMutex'["target"] = t /\ pagesMutex'["source"] = pagesMutex["source"]
  BY <1>10 DEF Accessors
<1>12. pins' \in [Chunks -> Int] /\ content' \in [TargetChunks -> Contents]
  <2>1. Next1(t) \in Chunks
    BY <1>3, Constants
  <2>2. pins' = [pins EXCEPT ![Next1(t)] = pins[Next1(t)] + 1] /\ content' = [content EXCEPT ![Next1(t)] = "prepared"]
    BY DEF AddRemapJob, Next1
  <2>3. pins \in [Chunks -> Int] /\ content \in [TargetChunks -> Contents]
    BY ClientsCall DEF Shape
  <2>4. QED  BY <1>3, <2>1, <2>2, <2>3 DEF Contents
<1>13. Shape'
  BY <1>8, <1>9, <1>11, <1>12, ClientsCall DEF Shape, jobVars, history
<1>14. Call(t)' /\ Outer(t)'
  <2>1. Begun(<<>>, r)
    <3>1. Len(r.chunks) \in Nat
      BY <1>4 DEF Proper, Request
    <3>2. QED  BY <3>1 DEF Begun
  <2>2. Call(t)'
    BY <1>3, <1>4, <1>5, <1>6, <1>8, <1>11, <2>1 DEF Call, InCall, ClientPositions
  <2>3. Outer(t)'
    BY <1>3, <1>4, <1>5, <1>6, <1>8 DEF Outer
  <2>4. QED  BY <2>2, <2>3
<1>15. Calls'
  BY <1>8, <1>10, <1>11, <1>14, CallsOf DEF TaskInv
<1>16. Kept(job') /\ ListStays
  BY <1>9, ClientsCall, StaysItself, ListItself DEF jobVars
<1>17. TaskInv'
  BY <1>8, <1>9, <1>13, <1>15, <1>16, ClientRests DEF jobVars
<1>18. QED  BY <1>1, <1>2, <1>3, <1>5, <1>6, <1>8, <1>17

LEMMA TaskSequence ==
  ASSUME NEW j \in Jobs, NEW n \in Nat, NEW single \in BOOLEAN
  PROVE  /\ Tasks(j, n, single) \in Seq(Task)
         /\ \A k \in DOMAIN Tasks(j, n, single) : Tasks(j, n, single)[k].job = j
         /\ single => /\ DOMAIN Tasks(j, n, single) = {1}
                      /\ Tasks(j, n, single)[1].page = 0
         /\ ~single => /\ DOMAIN Tasks(j, n, single) = 1 .. n
                       /\ \A k \in 1 .. n : Tasks(j, n, single)[k].page = k
<1>1. PICK T : T = Tasks(j, n, single)
  OBVIOUS
<1>2. CASE single
  <2>1. T = <<[job |-> j, page |-> 0]>>
    BY <1>1, <1>2 DEF Tasks
  <2>2. [job |-> j, page |-> 0] \in Task
    BY DEF Task
  <2>3. T \in Seq(Task) /\ DOMAIN T = {1} /\ T[1] = [job |-> j, page |-> 0]
    BY <2>1, <2>2
  <2>4. T[1].job = j /\ T[1].page = 0
    BY <2>3
  <2>5. QED  BY <1>1, <1>2, <2>3, <2>4
<1>3. CASE ~single
  <2>1. T = [i \in 1 .. n |-> [job |-> j, page |-> i]]
    BY <1>1, <1>3 DEF Tasks
  <2>2. \A i \in 1 .. n : [job |-> j, page |-> i] \in Task
    BY DEF Task
  <2>3. T \in [1 .. n -> Task] /\ DOMAIN T = 1 .. n
    BY <2>1, <2>2
  <2>4. T \in Seq(Task)
    BY <2>3, SeqDef
  <2>5. QED  BY <1>1, <1>3, <2>1, <2>3, <2>4
<1>4. QED  BY <1>2, <1>3

LEMMA NewJobForm ==
  ASSUME TaskInv, NEW t \in Clients, At(t, "enqueue"), NEW pages \in Seq(Chunks \cup {NoChunk}),
         NEW cancelled \in BOOLEAN
  PROVE  LET r == NewJob(t, pages, cancelled) IN
         /\ r \in JobRecord /\ r.pages = pages /\ r.done = cancelled /\ r.cancelled = cancelled
         /\ r.single = thread[t].request.single /\ r.fails = thread[t].request.fails
         /\ r.accessor = AccessorFor(t)
         /\ r.processed = (IF cancelled THEN Len(pages) ELSE 0) /\ r.given = 0
         /\ r.target = RemapTarget(t) /\ (r.target # NoChunk <=> thread[t].outer # NoFrame)
         /\ r.target # NoChunk => r.target \in TargetChunks /\ ~r.single /\ ~r.fails
         /\ ~cancelled /\ r.single => r.future = <<"none">>
<1> DEFINE r == NewJob(t, pages, cancelled)
<1>1. AccessorFor(t) \in Accessors
  BY DEF AccessorFor, AccessorOf, Accessors
<1>2. thread[t].request.single \in BOOLEAN /\ thread[t].request.fails \in BOOLEAN
  BY ClientsCall DEF Request
<1>3. /\ RemapTarget(t) \in TargetChunks \cup {NoChunk}
      /\ RemapTarget(t) # NoChunk <=> thread[t].outer # NoFrame
      /\ RemapTarget(t) # NoChunk => ~thread[t].request.single /\ ~thread[t].request.fails
  <2>1. CASE thread[t].outer = NoFrame
    BY <2>1 DEF RemapTarget
  <2>2. CASE thread[t].outer # NoFrame
    <3>1. PICK o : o = thread[t].outer
      OBVIOUS
    <3>2. /\ Targets(o.request) /\ Len(o.pages) < Len(o.request.chunks)
          /\ ~thread[t].request.single /\ ~thread[t].request.fails
      BY <2>2, <3>1, ClientsCall DEF Outer
    <3>3. o \in Frame
      BY <2>2, <3>1, ClientsCall DEF ThreadRecord
    <3>4. Len(o.pages) \in Nat /\ Len(o.request.chunks) \in Nat
      BY <3>3 DEF Frame, Request
    <3>5. Len(o.pages) + 1 \in 1 .. Len(o.request.chunks)
      BY <3>2, <3>4
    <3>6. RemapTarget(t) \in TargetChunks
      BY <2>2, <3>1, <3>2, <3>5 DEF RemapTarget, Targets
    <3>7. QED  BY <2>2, <3>2, <3>6, Constants
  <2>3. QED  BY <2>1, <2>2
<1>4. PICK f : f = CASE cancelled -> <<>>
                     [] ~cancelled /\ thread[t].request.single -> <<"none">>
                     [] OTHER -> [i \in DOMAIN pages |-> "none"]
  OBVIOUS
<1>5. f \in Seq({"none", "ok", "error"}) /\ (~cancelled /\ thread[t].request.single => f = <<"none">>)
  <2>1. CASE cancelled
    BY <1>4, <2>1
  <2>2. CASE ~cancelled /\ thread[t].request.single
    BY <1>4, <2>2
  <2>3. CASE ~cancelled /\ ~thread[t].request.single
    <3>1. f = [i \in DOMAIN pages |-> "none"]
      BY <1>4, <2>3
    <3>2. DOMAIN pages = 1 .. Len(pages) /\ Len(pages) \in Nat
      OBVIOUS
    <3>3. f \in [1 .. Len(pages) -> {"none", "ok", "error"}]
      BY <3>1, <3>2
    <3>4. QED  BY <2>3, <3>2, <3>3, SeqDef
  <2>4. QED  BY <2>1, <2>2, <2>3
<1>6. PICK n \in Nat : n = IF cancelled THEN Len(pages) ELSE 0
  OBVIOUS
<1>7. r = [accessor |-> AccessorFor(t), single |-> thread[t].request.single,
           fails |-> thread[t].request.fails, pages |-> pages, target |-> RemapTarget(t),
           future |-> f, processed |-> n, done |-> cancelled, cancelled |-> cancelled,
           error |-> cancelled, given |-> 0]
  BY <1>4, <1>6 DEF NewJob
<1>8. r \in JobRecord
  BY <1>1, <1>2, <1>3, <1>5, <1>6, <1>7 DEF JobRecord
<1>9. QED  BY <1>3, <1>5, <1>6, <1>7, <1>8

\* A call ends: it returns to the client, or to the call that it was made by.
LEMMA CallReturns ==
  ASSUME TaskInv, NEW t \in Clients, At(t, "enqueue"), NEW j, JobAdded(t, j)
  PROVE  /\ \A u \in Threads \ {t} : thread'[u] = thread[u]
         /\ \A w \in Workers : thread'[w] = thread[w]
         /\ thread' \in [Threads -> ThreadRecord] /\ Calls'
         /\ thread'[t].outer = NoFrame /\ thread'[t].waitsFor = thread[t].waitsFor
         /\ pagesMutex' \in [Accessors -> Threads \cup {NoThread}]
         /\ thread[t].outer = NoFrame =>
              /\ thread'[t].pc = "idle" /\ thread'[t].pages = <<>>
              /\ owned' = [owned EXCEPT ![t] = @ \cup {j}] /\ UNCHANGED <<pagesMutex, remapJob>>
         /\ thread[t].outer # NoFrame =>
              /\ thread'[t].pc \in {"prepare", "enqueue"}
              /\ thread'[t].request = thread[t].outer.request
              /\ thread'[t].pages = Append(thread[t].outer.pages, RemapTarget(t))
              /\ RemapTarget(t) = thread[t].outer.request.chunks[Len(thread[t].outer.pages) + 1]
              /\ RemapTarget(t) \in TargetChunks
              /\ remapJob' = [remapJob EXCEPT ![RemapTarget(t)] = j] /\ UNCHANGED owned
<1>1. thread[t].pc = "enqueue" /\ Call(t) /\ Outer(t) /\ thread[t] \in ThreadRecord /\ Shape
  BY ClientsCall
<1>2. CASE thread[t].outer = NoFrame
  <2>1. PICK s : s = [thread[t] EXCEPT !.pc = "idle", !.request = NoRequest, !.pages = <<>>, !.refused = FALSE]
    OBVIOUS
  <2>2. /\ s \in ThreadRecord /\ s.pc = "idle" /\ s.pages = <<>> /\ s.refused = FALSE
        /\ s.outer = thread[t].outer /\ s.waitsFor = thread[t].waitsFor
    <3>1. PICK q \in ThreadRecord : q = thread[t]
      BY <1>1
    <3>2. s = [q EXCEPT !.pc = "idle", !.request = NoRequest, !.pages = <<>>, !.refused = FALSE]
      BY <2>1, <3>1
    <3>3. NoRequest \in Request /\ <<>> \in Seq(Chunks)
      BY DEF NoRequest, Request
    <3>4. /\ s \in ThreadRecord /\ s.pc = "idle" /\ s.pages = <<>> /\ s.refused = FALSE
          /\ s.outer = q.outer /\ s.waitsFor = q.waitsFor
      BY <3>2, <3>3 DEF ThreadRecord, ClientPositions
    <3>5. QED  BY <3>1, <3>4
  <2>3. /\ thread' = [thread EXCEPT ![t] = s]
        /\ owned' = [owned EXCEPT ![t] = @ \cup {j}] /\ UNCHANGED <<pagesMutex, remapJob>>
    BY <1>1, <1>2, <2>1 DEF JobAdded, Shape
  <2>4. /\ thread' \in [Threads -> ThreadRecord] /\ thread'[t] = s
        /\ \A u \in Threads \ {t} : thread'[u] = thread[u]
        /\ \A u \in Clients \ {t} : thread'[u] = thread[u]
        /\ \A w \in Workers : thread'[w] = thread[w]
    BY <2>2, <2>3, OwnRecord
  <2>5. Call(t)' /\ Outer(t)'
    <3>1. Call(t)'
      BY <1>1, <1>2, <2>2, <2>3, <2>4 DEF Call, InCall, ClientPositions
    <3>2. Outer(t)'
      BY <1>2, <2>2, <2>4 DEF Outer
    <3>3. QED  BY <3>1, <3>2
  <2>6. Calls'
    BY <2>3, <2>4, <2>5, CallsOf DEF TaskInv
  <2>7. pagesMutex' \in [Accessors -> Threads \cup {NoThread}]
    BY <1>1, <2>3 DEF Shape
  <2>8. QED  BY <1>2, <2>2, <2>3, <2>4, <2>6, <2>7
<1>3. CASE thread[t].outer # NoFrame
  <2>1. PICK o : o = thread[t].outer
    OBVIOUS
  <2>2. /\ o \in Frame /\ Proper(o.request) /\ Targets(o.request) /\ Begun(o.pages, o.request)
        /\ Len(o.pages) < Len(o.request.chunks)
    BY <1>1, <1>3, <2>1 DEF Outer, ThreadRecord
  <2>3. /\ o.pages \in Seq(Chunks) /\ Len(o.pages) \in Nat /\ o.request \in Request
        /\ o.request.chunks \in Seq(Chunks) /\ Len(o.request.chunks) \in Nat
    BY <2>2 DEF Frame, Request
  <2>4. PICK n, c, pages, pc :
          /\ n = Len(o.pages) + 1 /\ c = RemapTarget(t) /\ pages = Append(o.pages, c)
          /\ pc = IF n = Len(o.request.chunks) THEN "enqueue" ELSE "prepare"
    OBVIOUS
  <2>5. n \in 1 .. Len(o.request.chunks) /\ c = o.request.chunks[n] /\ c \in TargetChunks /\ c \in Chunks
    <3>1. n \in 1 .. Len(o.request.chunks)
      BY <2>2, <2>3, <2>4
    <3>2. c = o.request.chunks[n]
      BY <1>3, <2>1, <2>4 DEF RemapTarget
    <3>3. QED  BY <2>2, <3>1, <3>2, Constants DEF Targets
  <2>6. /\ pages \in Seq(Chunks) /\ Len(pages) = n /\ pages[n] = c
        /\ \A i \in 1 .. Len(o.pages) : pages[i] = o.pages[i]
    BY <2>3, <2>4, <2>5
  <2>7. Begun(pages, o.request)
    <3>1. ASSUME NEW i \in 1 .. Len(pages) PROVE pages[i] = o.request.chunks[i]
      <4>1. CASE i = n
        BY <2>5, <2>6, <4>1
      <4>2. CASE i # n
        <5>1. i \in 1 .. Len(o.pages)
          BY <2>3, <2>4, <2>6, <4>2
        <5>2. QED  BY <2>2, <2>6, <5>1 DEF Begun
      <4>3. QED  BY <4>1, <4>2
    <3>2. QED  BY <2>3, <2>5, <2>6, <3>1 DEF Begun
  <2>8. PICK s : s = [thread[t] EXCEPT !.request = o.request, !.pages = pages, !.pc = pc,
                                       !.outer = NoFrame, !.refused = FALSE]
    OBVIOUS
  <2>9. /\ s \in ThreadRecord /\ s.pc = pc /\ s.pages = pages /\ s.refused = FALSE
        /\ s.request = o.request /\ s.outer = NoFrame /\ s.waitsFor = thread[t].waitsFor
    <3>1. PICK q \in ThreadRecord : q = thread[t]
      BY <1>1
    <3>2. s = [q EXCEPT !.request = o.request, !.pages = pages, !.pc = pc,
                        !.outer = NoFrame, !.refused = FALSE]
      BY <2>8, <3>1
    <3>3. pc \in ClientPositions
      BY <2>4 DEF ClientPositions
    <3>4. /\ s \in ThreadRecord /\ s.pc = pc /\ s.pages = pages /\ s.refused = FALSE
          /\ s.request = o.request /\ s.outer = NoFrame /\ s.waitsFor = q.waitsFor
      <4>1. /\ s.pc = pc /\ s.pages = pages /\ s.refused = FALSE
            /\ s.request = o.request /\ s.outer = NoFrame /\ s.waitsFor = q.waitsFor
        BY <3>2 DEF ThreadRecord
      <4>2. s \in ThreadRecord
        BY <2>3, <2>6, <3>2, <3>3 DEF ThreadRecord
      <4>3. QED  BY <4>1, <4>2
    <3>5. QED  BY <3>1, <3>4
  <2>10. /\ remapJob' = [remapJob EXCEPT ![c] = j]
         /\ pagesMutex' = [pagesMutex EXCEPT !["target"] = NoThread]
         /\ UNCHANGED owned
    BY <1>3, <2>4 DEF JobAdded
  <2>11. thread' = [thread EXCEPT ![t] = s]
    <3>1. thread' = [thread EXCEPT ![t].request = o.request, ![t].pages = pages, ![t].pc = pc,
                                   ![t].outer = NoFrame, ![t].refused = FALSE]
      BY <1>3, <2>1, <2>4 DEF JobAdded
    <3>2. t \in DOMAIN thread
      BY <1>1, Constants DEF Shape
    <3>3. QED  BY <2>8, <3>1, <3>2
  <2>12. /\ thread' \in [Threads -> ThreadRecord] /\ thread'[t] = s
         /\ \A u \in Threads \ {t} : thread'[u] = thread[u]
         /\ \A u \in Clients \ {t} : thread'[u] = thread[u]
         /\ \A w \in Workers : thread'[w] = thread[w]
    BY <2>9, <2>11, OwnRecord
  <2>13. /\ pagesMutex' \in [Accessors -> Threads \cup {NoThread}]
         /\ pagesMutex'["target"] = NoThread /\ pagesMutex'["source"] = pagesMutex["source"]
         /\ pagesMutex["target"] = t
    <3>1. pagesMutex["target"] = t
      BY <1>1, <1>3 DEF Call
    <3>2. pagesMutex \in [Accessors -> Threads \cup {NoThread}]
      BY <1>1 DEF Shape
    <3>3. QED  BY <2>10, <3>1, <3>2 DEF Accessors
  <2>14. Call(t)' /\ Outer(t)'
    <3>1. pc \in {"prepare", "enqueue"} /\ (pc = "prepare" => Len(pages) < Len(o.request.chunks))
          /\ (pc = "enqueue" => Len(pages) = Len(o.request.chunks))
      BY <2>3, <2>4, <2>5, <2>6
    <3>2. t # NoThread
      BY Constants
    <3>3. Call(t)'
      BY <2>2, <2>7, <2>9, <2>12, <2>13, <3>1, <3>2 DEF Call, InCall, ClientPositions
    <3>4. Outer(t)'
      BY <2>9, <2>12 DEF Outer
    <3>5. QED  BY <3>3, <3>4
  <2>15. Calls'
    BY <2>12, <2>13, <2>14, CallsOf DEF TaskInv
  <2>16. pc \in {"prepare", "enqueue"}
    BY <2>4
  <2>17. QED
    BY <1>3, <2>1, <2>4, <2>5, <2>9, <2>10, <2>12, <2>13, <2>15, <2>16
<1>4. QED  BY <1>2, <1>3

\* A new job, with the tasks T.
NewJobOf(j, r, T) ==
  /\ job' = Append(job, r) /\ listed' = Append(listed, j) /\ queue' = queue \o T
  /\ \A w \in Workers : thread'[w] = thread[w]

ProperTasks(j, r, T) ==
  /\ r.pages # <<>>
  /\ r.single => r.target = NoChunk
  /\ \A k \in DOMAIN T : /\ T[k].job = j /\ T[k].page \in 0 .. Len(r.pages)
                         /\ T[k].page = 0 <=> r.single
  /\ \A k, l \in DOMAIN T : T[k] = T[l] => k = l
  /\ r.done => T = <<>>
  /\ ~r.done => r.processed = 0


\* What AddJob does to the tasks.
AddsTasks(j, r, T) ==
  /\ DOMAIN job' = DOMAIN job \cup {j} /\ j \notin DOMAIN job
  /\ job'[j] = r /\ \A i \in DOMAIN job : job'[i] = job[i] /\ Pending(i)' = Pending(i)
  /\ Listed' = Listed \cup {j}
  /\ \A i \in DOMAIN job : \A x : HasPinned(i, x)' <=> HasPinned(i, x)
  /\ \A k \in DOMAIN queue' :
       \/ k \in DOMAIN queue /\ queue'[k] = queue[k]
       \/ \E l \in DOMAIN T : k = Len(queue) + l /\ queue'[k] = T[l]
  /\ \A k \in DOMAIN queue : k \in DOMAIN queue' /\ queue'[k] = queue[k]
  /\ \A l \in DOMAIN T : Len(queue) + l \in DOMAIN queue' /\ queue'[Len(queue) + l] = T[l]

LEMMA NewJobTasks ==
  ASSUME TaskInv, Shape', Calls', NEW r \in JobRecord, NEW T \in Seq(Task), NEW j \in Jobs,
         j = Len(job) + 1, NewJobOf(j, r, T), ProperTasks(j, r, T)
  PROVE  TaskInv' /\ AddsTasks(j, r, T)
<1>0. /\ r.pages # <<>> /\ (r.single => r.target = NoChunk)
      /\ \A k \in DOMAIN T : /\ T[k].job = j /\ T[k].page \in 0 .. Len(r.pages)
                             /\ T[k].page = 0 <=> r.single
      /\ \A k, l \in DOMAIN T : T[k] = T[l] => k = l
      /\ r.done => T = <<>>
      /\ ~r.done => r.processed = 0
  BY DEF ProperTasks
<1>1. /\ DOMAIN job = 1 .. Len(job) /\ Len(job) \in Nat /\ job \in Seq(JobRecord)
      /\ Shape /\ listed \in Seq(Jobs) /\ queue \in Seq(Task)
  BY JobPlaces DEF TaskInv, Shape
<1>2. /\ DOMAIN job' = DOMAIN job \cup {j} /\ j \notin DOMAIN job /\ job'[j] = r
      /\ \A i \in DOMAIN job : job'[i] = job[i]
  <2>1. job' = Append(job, r)
    BY DEF NewJobOf
  <2>2. Len(job') = Len(job) + 1 /\ DOMAIN job' = 1 .. Len(job')
    BY <1>1, <2>1
  <2>3. /\ job'[Len(job) + 1] = r
        /\ \A i \in 1 .. Len(job) : job'[i] = job[i]
    BY <1>1, <2>1
  <2>4. 1 .. Len(job) + 1 = (1 .. Len(job)) \cup {Len(job) + 1} /\ Len(job) + 1 \notin 1 .. Len(job)
    BY <1>1
  <2>5. QED  BY <1>1, <2>2, <2>3, <2>4
<1>3. Distinct(listed') /\ Listed' = Listed \cup {j} /\ Listed \subseteq DOMAIN job
  <2>1. Distinct(listed) /\ Listed \subseteq DOMAIN job
    BY DEF TaskInv, JobsListed
  <2>2. j \notin ToSet(listed)
    BY <1>2, <2>1 DEF Listed
  <2>3. Distinct(Append(listed, j)) /\ ToSet(Append(listed, j)) = ToSet(listed) \cup {j}
    BY <1>1, <2>1, <2>2, PushBack
  <2>4. QED  BY <2>1, <2>3 DEF Listed, NewJobOf
<1>4. /\ \A k \in DOMAIN queue' :
           \/ k \in DOMAIN queue /\ queue'[k] = queue[k]
           \/ \E l \in DOMAIN T : k = Len(queue) + l /\ queue'[k] = T[l]
      /\ \A k \in DOMAIN queue : k \in DOMAIN queue' /\ queue'[k] = queue[k]
      /\ \A l \in DOMAIN T : Len(queue) + l \in DOMAIN queue' /\ queue'[Len(queue) + l] = T[l]
  <2>1. queue' = queue \o T /\ Len(queue) \in Nat /\ Len(T) \in Nat
        /\ DOMAIN queue = 1 .. Len(queue) /\ DOMAIN T = 1 .. Len(T)
    BY <1>1 DEF NewJobOf
  <2>2. DOMAIN queue' = 1 .. Len(queue) + Len(T)
    BY <1>1, <2>1
  <2>3. \A k \in 1 .. Len(queue) : queue'[k] = queue[k]
    BY <1>1, <2>1
  <2>4. ASSUME NEW l \in 1 .. Len(T)
        PROVE  Len(queue) + l \in DOMAIN queue' /\ queue'[Len(queue) + l] = T[l]
    BY <1>1, <2>1, <2>2, <2>4
  <2>5. ASSUME NEW k \in DOMAIN queue', k \notin 1 .. Len(queue)
        PROVE  \E l \in 1 .. Len(T) : k = Len(queue) + l /\ queue'[k] = T[l]
    <3>1. k \in 1 .. Len(queue) + Len(T) /\ k \notin 1 .. Len(queue)
      BY <2>2, <2>5
    <3>2. PICK l : l = k - Len(queue)
      OBVIOUS
    <3>3. l \in 1 .. Len(T) /\ k = Len(queue) + l
      BY <2>1, <3>1, <3>2
    <3>4. QED  BY <2>4, <3>3
  <2>6. 1 .. Len(queue) \subseteq 1 .. Len(queue) + Len(T)
    BY <2>1
  <2>7. QED  BY <2>1, <2>2, <2>3, <2>4, <2>5, <2>6
<1>5. \A w \in Workers : thread'[w] = thread[w] /\ thread[w].job # j
                         /\ (thread[w].job # 0 => thread[w].job \in DOMAIN job)
  <2>1. j # 0
    BY Constants
  <2>2. QED  BY <1>2, <2>1 DEF TaskInv, Worker, HasTask, NewJobOf
<1>6. ASSUME NEW w \in Workers PROVE Worker(w)'
  BY <1>2, <1>5, <1>6 DEF TaskInv, Worker, HasTask, JobOf
<1>7. ASSUME NEW k \in DOMAIN queue' PROVE InQueue(k)'
  <2>1. CASE k \in DOMAIN queue /\ queue'[k] = queue[k]
    BY <1>2, <2>1 DEF TaskInv, InQueue
  <2>2. CASE \E l \in DOMAIN T : k = Len(queue) + l /\ queue'[k] = T[l]
    BY <1>0, <1>2, <2>2 DEF InQueue
  <2>3. QED  BY <1>4, <1>7, <2>1, <2>2
<1>8. \A k \in DOMAIN queue : queue[k].job # j
  BY <1>2 DEF TaskInv, InQueue
<1>9. OneQueued'
  <2>1. ASSUME NEW k \in DOMAIN queue', NEW m \in DOMAIN queue', queue'[k] = queue'[m]
        PROVE  k = m
    <3>1. CASE k \in DOMAIN queue /\ queue'[k] = queue[k]
      <4>1. queue'[m].job # j
        BY <1>8, <2>1, <3>1
      <4>2. m \in DOMAIN queue /\ queue'[m] = queue[m]
        BY <1>0, <1>4, <2>1, <4>1
      <4>3. QED  BY <2>1, <3>1, <4>2 DEF TaskInv, OneQueued
    <3>2. CASE \E l \in DOMAIN T : k = Len(queue) + l /\ queue'[k] = T[l]
      <4>1. PICK l \in DOMAIN T : k = Len(queue) + l /\ queue'[k] = T[l]
        BY <3>2
      <4>2. PICK i \in DOMAIN T : m = Len(queue) + i /\ queue'[m] = T[i]
        BY <1>0, <1>4, <1>8, <2>1, <4>1
      <4>3. QED  BY <1>0, <2>1, <4>1, <4>2
    <3>3. QED  BY <1>4, <2>1, <3>1, <3>2
  <2>2. QED  BY <2>1 DEF OneQueued
<1>10. OneOrOther' /\ OneRuns'
  <2>1. ASSUME NEW w \in Workers, HasTask(w)' PROVE HasTask(w) /\ JobOf(w)' = JobOf(w)
    BY <1>2, <1>5, <2>1 DEF HasTask, JobOf
  <2>2. ASSUME NEW k \in DOMAIN queue', NEW w \in Workers, HasTask(w)', queue'[k].job = thread'[w].job
        PROVE  ~JobOf(w)'.single /\ queue'[k].page # thread'[w].page
    <3>1. k \in DOMAIN queue /\ queue'[k] = queue[k]
      BY <1>0, <1>4, <1>5, <2>2
    <3>2. QED  BY <1>5, <2>1, <2>2, <3>1 DEF TaskInv, OneOrOther
  <2>3. OneOrOther'
    BY <2>2 DEF OneOrOther
  <2>4. OneRuns'
    BY <1>5, <2>1 DEF TaskInv, OneRuns, HasTask
  <2>5. QED  BY <2>3, <2>4
<1>11. ASSUME NEW i \in DOMAIN job, NEW x PROVE HasPinned(i, x)' <=> HasPinned(i, x)
  <2>1. Queued(i, x)' <=> Queued(i, x)
    <3>1. ASSUME NEW k \in DOMAIN queue', queue'[k].job = i PROVE k \in DOMAIN queue /\ queue'[k] = queue[k]
      BY <1>0, <1>2, <1>4, <3>1
    <3>2. QED  BY <1>4, <3>1 DEF Queued
  <2>2. \A w \in Workers : Carries(w, i, x)' <=> Carries(w, i, x)
    BY <1>2, <1>5 DEF Carries, Uses
  <2>3. HasPinned(i, x)' <=> Queued(i, x)' \/ \E w \in Workers : Carries(w, i, x)'
    BY DEF HasPinned, Carries
  <2>4. QED  BY <2>1, <2>2, <2>3, PinnedBy
<1>12. ASSUME NEW i \in DOMAIN job PROVE Pending(i)' = Pending(i)
  BY <1>2, <1>11 DEF Pending
<1>13. Pending(j)' \subseteq 1 .. Len(r.pages) /\ Len(r.pages) \in Nat /\ (r.done => Pending(j)' = {})
  <2>1. r.pages \in Seq(Chunks \cup {NoChunk})
    BY DEF JobRecord
  <2>2. Pending(j)' \subseteq DOMAIN r.pages
    BY <1>2 DEF Pending
  <2>3. ASSUME r.done, NEW x, HasPinned(j, x)' PROVE FALSE
    <3>1. ~Queued(j, x)'
      BY <1>0, <1>4, <1>8, <2>3 DEF Queued
    <3>2. \A w \in Workers : ~Uses(w, j)'
      BY <1>5 DEF Uses
    <3>3. QED  BY <2>3, <3>1, <3>2 DEF HasPinned
  <2>4. QED  BY <2>1, <2>2, <2>3 DEF Pending
<1>14. Counts'
  <2>1. ASSUME NEW i \in DOMAIN job'
        PROVE  /\ ~job'[i].done => /\ i \in Listed'
                                   /\ job'[i].processed + Cardinality(Pending(i)') <= Len(job'[i].pages)
               /\ job'[i].done => Pending(i)' = {}
    <3>1. CASE i \in DOMAIN job
      BY <1>2, <1>3, <1>12, <3>1 DEF TaskInv, Counts
    <3>2. CASE i = j
      <4>1. Cardinality(Pending(j)') <= Len(r.pages) /\ Cardinality(Pending(j)') \in Nat
        BY <1>13, PendingFinite
      <4>2. QED  BY <1>0, <1>2, <1>3, <1>13, <3>2, <4>1
    <3>3. QED  BY <1>2, <3>1, <3>2
  <2>2. QED  BY <2>1 DEF Counts
<1>15. Lasts' /\ LastAlone'
  <2>1. ASSUME NEW w \in Workers, NEW i \in DOMAIN job', At(w, "last")', thread'[w].job = i
        PROVE  ~job'[i].done /\ Pending(i)' = {}
    <3>1. i \in DOMAIN job /\ At(w, "last") /\ thread[w].job = i
      BY <1>2, <1>5, <2>1
    <3>2. QED  BY <1>2, <1>12, <3>1 DEF TaskInv, Lasts
  <2>2. Lasts'
    BY <2>1 DEF Lasts
  <2>3. LastAlone'
    BY <1>5 DEF TaskInv, LastAlone
  <2>4. QED  BY <2>2, <2>3
<1>16. JobsListed' /\ JobForms'
  BY <1>0, <1>2, <1>3 DEF JobsListed, JobForms, TaskInv
<1>17. TaskInv'
  BY <1>6, <1>7, <1>9, <1>10, <1>14, <1>15, <1>16 DEF TaskInv
<1>18. AddsTasks(j, r, T)
  BY <1>2, <1>3, <1>4, <1>11, <1>12 DEF AddsTasks
<1>19. QED  BY <1>17, <1>18

\* The job that AddJob adds, and its tasks.
JobOfCall(t, r, T) ==
  /\ r.accessor = AccessorFor(t) /\ r.single = thread[t].request.single
  /\ r.fails = thread[t].request.fails /\ r.given = 0
  /\ r.target = RemapTarget(t) /\ (r.target # NoChunk <=> thread[t].outer # NoFrame)
  /\ r.target # NoChunk => r.target \in TargetChunks /\ ~r.single /\ ~r.fails
  /\ r.done = thread[t].refused /\ r.cancelled = thread[t].refused
  /\ ~thread[t].refused =>
       /\ r.pages = thread[t].pages /\ (r.single => r.future = <<"none">>) /\ pins' = pins
       /\ T = Tasks(Len(job) + 1, Len(r.pages), r.single)
  /\ thread[t].refused =>
       /\ r.pages = [i \in 1 .. Len(thread[t].pages) + 1 |-> NoChunk] /\ T = <<>>
       /\ pins' = [c \in Chunks |-> pins[c] - Cardinality({i \in DOMAIN thread[t].pages : thread[t].pages[i] = c})]

LEMMA AddedJob ==
  ASSUME TaskInv, NEW t \in Clients, AddJob(t), NEW j, j = Len(job) + 1
  PROVE  \E r \in JobRecord, T \in Seq(Task) : NewJobOf(j, r, T) /\ JobOfCall(t, r, T) /\ ProperTasks(j, r, T)
<1>1. /\ At(t, "enqueue") /\ Shape /\ j \in Jobs /\ Call(t) /\ thread[t] \in ThreadRecord
      /\ listed' = Append(listed, j) /\ JobAdded(t, j)
  BY ClientsCall DEF AddJob
<1>2. /\ thread[t].pages \in Seq(Chunks) /\ thread[t].refused \in BOOLEAN
      /\ thread[t].request.single \in BOOLEAN
      /\ thread[t].request.chunks # <<>> /\ thread[t].request.chunks \in Seq(Chunks)
  BY <1>1 DEF ThreadRecord, Request, Call, InCall, Proper
<1>3. \A w \in Workers : thread'[w] = thread[w]
  BY <1>1, CallReturns
<1>4. CASE thread[t].refused
  <2>1. PICK pages : pages = [i \in 1 .. Len(thread[t].pages) + 1 |-> NoChunk]
    OBVIOUS
  <2>2. PICK n \in Nat : n = Len(thread[t].pages)
    BY <1>2
  <2>3. pages \in Seq(Chunks \cup {NoChunk}) /\ Len(pages) = n + 1 /\ pages # <<>>
    <3>1. pages \in [1 .. n + 1 -> Chunks \cup {NoChunk}]
      BY <2>1, <2>2
    <3>2. n + 1 \in Nat
      OBVIOUS
    <3>3. pages \in Seq(Chunks \cup {NoChunk})
      BY <3>1, <3>2, SeqDef
    <3>4. Len(pages) = n + 1
      BY <3>1, <3>2, <3>3
    <3>5. QED  BY <3>3, <3>4
  <2>4. PICK r : r = NewJob(t, pages, TRUE)
    OBVIOUS
  <2>5. /\ r \in JobRecord /\ r.pages = pages /\ r.done = TRUE /\ r.cancelled = TRUE
        /\ r.single = thread[t].request.single /\ r.fails = thread[t].request.fails
        /\ r.accessor = AccessorFor(t) /\ r.given = 0
        /\ r.target = RemapTarget(t) /\ (r.target # NoChunk <=> thread[t].outer # NoFrame)
        /\ r.target # NoChunk => r.target \in TargetChunks /\ ~r.single /\ ~r.fails
    BY <1>1, <2>3, <2>4, NewJobForm
  <2>6. /\ job' = Append(job, r) /\ queue' = queue
        /\ pins' = [c \in Chunks |-> pins[c] - Cardinality({i \in DOMAIN thread[t].pages : thread[t].pages[i] = c})]
    BY <1>4, <2>1, <2>4 DEF AddJob
  <2>7. queue' = queue \o <<>>
    BY <1>1, <2>6 DEF Shape
  <2>8. NewJobOf(j, r, <<>>)
    BY <1>1, <1>3, <2>6, <2>7 DEF NewJobOf
  <2>9. JobOfCall(t, r, <<>>)
    BY <1>2, <1>4, <2>1, <2>5, <2>6 DEF JobOfCall
  <2>10. <<>> \in Seq(Task) /\ DOMAIN <<>> = {}
    OBVIOUS
  <2>11. r.single => r.target = NoChunk
    BY <2>5
  <2>12. ProperTasks(j, r, <<>>)
    BY <2>3, <2>5, <2>10, <2>11 DEF ProperTasks
  <2>13. QED  BY <2>5, <2>8, <2>9, <2>10, <2>12
<1>5. CASE ~thread[t].refused
  <2>1. PICK pages : pages = thread[t].pages
    OBVIOUS
  <2>2. PICK n \in Nat : n = Len(pages)
    BY <1>2, <2>1
  <2>3. pages \in Seq(Chunks) /\ n # 0 /\ pages # <<>>
    BY <1>1, <1>2, <1>5, <2>1, <2>2 DEF Call
  <2>4. pages \in Seq(Chunks \cup {NoChunk})
    BY <2>3
  <2>5. PICK r : r = NewJob(t, pages, FALSE)
    OBVIOUS
  <2>6. /\ r \in JobRecord /\ r.pages = pages /\ r.done = FALSE /\ r.cancelled = FALSE
        /\ r.single = thread[t].request.single /\ r.fails = thread[t].request.fails
        /\ r.accessor = AccessorFor(t) /\ r.given = 0 /\ r.processed = 0
        /\ r.target = RemapTarget(t) /\ (r.target # NoChunk <=> thread[t].outer # NoFrame)
        /\ r.target # NoChunk => r.target \in TargetChunks /\ ~r.single /\ ~r.fails
        /\ r.single => r.future = <<"none">>
    BY <1>1, <2>4, <2>5, NewJobForm
  <2>7. PICK T, single : T = Tasks(j, n, single) /\ single = r.single
    OBVIOUS
  <2>8. r.single \in BOOLEAN /\ single \in BOOLEAN
    BY <1>2, <2>6, <2>7
  <2>9. /\ T \in Seq(Task) /\ \A k \in DOMAIN T : T[k].job = j
        /\ r.single => DOMAIN T = {1} /\ T[1].page = 0
        /\ ~r.single => DOMAIN T = 1 .. n /\ \A k \in 1 .. n : T[k].page = k
    <3>1. /\ T \in Seq(Task) /\ \A k \in DOMAIN T : T[k].job = j
          /\ single => DOMAIN T = {1} /\ T[1].page = 0
          /\ ~single => DOMAIN T = 1 .. n /\ \A k \in 1 .. n : T[k].page = k
      BY <1>1, <2>7, <2>8, TaskSequence
    <3>2. QED  BY <2>7, <3>1
  <2>10. job' = Append(job, r) /\ pins' = pins /\ queue' = queue \o T
    BY <1>5, <2>1, <2>2, <2>5, <2>6, <2>7 DEF AddJob, Enqueue
  <2>11. NewJobOf(j, r, T)
    BY <1>1, <1>3, <2>10 DEF NewJobOf
  <2>12. JobOfCall(t, r, T)
    <3>1. T = Tasks(Len(job) + 1, Len(r.pages), r.single)
      BY <2>2, <2>6, <2>7
    <3>2. QED  BY <1>2, <1>5, <2>1, <2>6, <2>10, <3>1 DEF JobOfCall
  <2>13. ASSUME NEW k \in DOMAIN T
         PROVE  T[k].page \in 0 .. Len(r.pages) /\ (T[k].page = 0 <=> r.single)
    BY <2>2, <2>6, <2>8, <2>9, <2>13
  <2>14. ASSUME NEW k \in DOMAIN T, NEW l \in DOMAIN T, T[k] = T[l] PROVE k = l
    BY <2>8, <2>9, <2>14
  <2>15. r.single => r.target = NoChunk
    BY <2>6
  <2>16. r.pages # <<>>
    BY <2>3, <2>6
  <2>17. ProperTasks(j, r, T)
    BY <2>6, <2>9, <2>13, <2>14, <2>15, <2>16 DEF ProperTasks
  <2>18. QED  BY <2>6, <2>9, <2>11, <2>12, <2>17
<1>6. QED  BY <1>2, <1>4, <1>5

LEMMA AddJobTasks ==
  ASSUME TaskInv, NEW t \in Clients, AddJob(t), NEW j, j = Len(job) + 1
  PROVE  /\ TaskInv' /\ JobAdded(t, j) /\ j \in Jobs
         /\ \E r \in JobRecord, T \in Seq(Task) : AddsTasks(j, r, T) /\ JobOfCall(t, r, T)
<1>1. PICK r \in JobRecord, T \in Seq(Task) : NewJobOf(j, r, T) /\ JobOfCall(t, r, T) /\ ProperTasks(j, r, T)
  BY AddedJob
<1>2. /\ At(t, "enqueue") /\ Shape /\ j \in Jobs /\ thread[t] \in ThreadRecord
      /\ listed' = Append(listed, j) /\ JobAdded(t, j)
      /\ UNCHANGED <<mutex, references, keepsPages, content, asleep, closer, history>>
  BY ClientsCall DEF AddJob
<1>3. /\ thread' \in [Threads -> ThreadRecord] /\ Calls'
      /\ pagesMutex' \in [Accessors -> Threads \cup {NoThread}]
  BY <1>2, CallReturns
<1>4. job' \in Seq(JobRecord) /\ Len(job') <= MaxJobs
  <2>1. job' = Append(job, r) /\ job \in Seq(JobRecord) /\ Len(job) + 1 \in 1 .. MaxJobs
    BY <1>1, <1>2 DEF NewJobOf, Shape, Jobs
  <2>2. job' \in Seq(JobRecord) /\ Len(job') = Len(job) + 1
    BY <2>1
  <2>3. QED  BY <2>1, <2>2, Constants
<1>5. listed' \in Seq(Jobs) /\ queue' \in Seq(Task)
  BY <1>1, <1>2 DEF NewJobOf, Shape
<1>6. pins' \in [Chunks -> Int]
  <2>1. pins \in [Chunks -> Int] /\ thread[t].pages \in Seq(Chunks) /\ thread[t].refused \in BOOLEAN
    BY <1>2 DEF Shape, ThreadRecord
  <2>2. CASE ~thread[t].refused
    BY <1>1, <2>1, <2>2 DEF JobOfCall
  <2>3. CASE thread[t].refused
    <3>1. ASSUME NEW c \in Chunks
          PROVE  Cardinality({i \in DOMAIN thread[t].pages : thread[t].pages[i] = c}) \in Nat
      <4>1. DOMAIN thread[t].pages = 1 .. Len(thread[t].pages) /\ Len(thread[t].pages) \in Nat
        BY <2>1
      <4>2. {i \in DOMAIN thread[t].pages : thread[t].pages[i] = c} \subseteq 1 .. Len(thread[t].pages)
        BY <4>1
      <4>3. QED  BY <4>1, <4>2, PendingFinite
    <3>2. \A c \in Chunks : pins[c] - Cardinality({i \in DOMAIN thread[t].pages : thread[t].pages[i] = c}) \in Int
      BY <2>1, <3>1
    <3>3. QED  BY <1>1, <2>3, <3>2 DEF JobOfCall
  <2>4. QED  BY <2>1, <2>2, <2>3
<1>7. owned' \in [Clients -> SUBSET Jobs] /\ remapJob' \in [TargetChunks -> Jobs \cup {0}]
  <2>1. owned \in [Clients -> SUBSET Jobs] /\ remapJob \in [TargetChunks -> Jobs \cup {0}]
    BY <1>2 DEF Shape
  <2>2. CASE thread[t].outer = NoFrame
    <3>1. owned' = [owned EXCEPT ![t] = owned[t] \cup {j}] /\ remapJob' = remapJob
      BY <1>2, <2>2, CallReturns
    <3>2. owned[t] \cup {j} \in SUBSET Jobs
      BY <1>2, <2>1
    <3>3. QED  BY <2>1, <3>1, <3>2
  <2>3. CASE thread[t].outer # NoFrame
    <3>1. /\ remapJob' = [remapJob EXCEPT ![RemapTarget(t)] = j] /\ owned' = owned
          /\ RemapTarget(t) \in TargetChunks
      BY <1>2, <2>3, CallReturns
    <3>2. QED  BY <1>2, <2>1, <3>1
  <2>4. QED  BY <2>2, <2>3
<1>8. Shape'
  <2>1. /\ mutex' = mutex /\ references' = references /\ keepsPages' = keepsPages
        /\ content' = content /\ asleep' = asleep /\ closer' = closer /\ result' = result
        /\ cancelledBy' = cancelledBy
    BY <1>2 DEF history
  <2>2. QED  BY <1>2, <1>3, <1>4, <1>5, <1>6, <1>7, <2>1 DEF Shape
<1>9. TaskInv' /\ AddsTasks(j, r, T)
  BY <1>1, <1>2, <1>3, <1>8, NewJobTasks
<1>10. QED  BY <1>1, <1>2, <1>9

LEMMA InitTasks == Init => TaskInv
<1> SUFFICES ASSUME Init PROVE TaskInv
  OBVIOUS
<1>1. /\ job = <<>> /\ listed = <<>> /\ queue = <<>> /\ asleep = {} /\ mutex = NoThread
      /\ pagesMutex = [x \in Accessors |-> NoThread] /\ references = [x \in Accessors |-> 0]
      /\ keepsPages = [x \in Accessors |-> FALSE] /\ pins = [c \in Chunks |-> 0]
      /\ content = [c \in TargetChunks |-> "none"] /\ remapJob = [c \in TargetChunks |-> 0]
      /\ owned = [t \in Clients |-> {}] /\ closer = <<0, 0>> /\ result = [j \in Jobs |-> "none"]
      /\ cancelledBy = {}
  BY DEF Init
<1>2. PICK s : s = [pc |-> "idle", request |-> NoRequest, pages |-> <<>>, refused |-> FALSE,
                    outer |-> NoFrame, waitsFor |-> 0, job |-> 0, page |-> 0, failed |-> FALSE]
  OBVIOUS
<1>3. thread = [t \in Threads |-> s]
  BY <1>2 DEF Init
<1>4. /\ s \in ThreadRecord /\ s.pc = "idle" /\ s.pages = <<>> /\ s.refused = FALSE
      /\ s.outer = NoFrame /\ s.job = 0 /\ s.page = 0 /\ s.failed = FALSE /\ s.waitsFor = 0
  <2>1. NoRequest \in Request /\ <<>> \in Seq(Chunks)
    BY DEF NoRequest, Request
  <2>2. QED  BY <1>2, <2>1 DEF ThreadRecord, ClientPositions
<1>5. \A t \in Threads : thread[t] = s
  BY <1>3
<1>6. Shape
  <2>1. job \in Seq(JobRecord) /\ Len(job) = 0 /\ listed \in Seq(Jobs) /\ queue \in Seq(Task)
    BY <1>1
  <2>2. Len(job) <= MaxJobs
    BY <2>1, Constants
  <2>3. thread \in [Threads -> ThreadRecord]
    BY <1>3, <1>4
  <2>4. closer \in Nat \X Nat
    BY <1>1
  <2>5. content \in [TargetChunks -> Contents] /\ result \in [Jobs -> Results]
    BY <1>1 DEF Contents, Results
  <2>6. QED  BY <1>1, <2>1, <2>2, <2>3, <2>4, <2>5 DEF Shape
<1>7. Calls
  <2>1. pagesMutex["source"] = NoThread /\ pagesMutex["target"] = NoThread
    BY <1>1 DEF Accessors
  <2>2. ASSUME NEW t \in Clients PROVE Call(t) /\ Outer(t)
    <3>1. thread[t] = s /\ t # NoThread
      BY <1>5, Constants
    <3>2. QED  BY <1>4, <2>1, <3>1 DEF Call, Outer, InCall, ClientPositions
  <2>3. QED  BY <2>1, <2>2 DEF Calls
<1>8. DOMAIN job = {} /\ DOMAIN queue = {} /\ Listed = {} /\ Distinct(listed)
  BY <1>1 DEF Listed, ToSet, Distinct
<1>9. \A w \in Workers : thread[w] = s
  BY <1>5, Constants
<1>10. \A w \in Workers : Worker(w)
  BY <1>4, <1>9 DEF Worker, HasTask, WorkerPositions
<1>11. JobsListed /\ JobForms /\ Counts /\ Lasts
  BY <1>8 DEF JobsListed, JobForms, Counts, Lasts
<1>12. OneQueued /\ OneOrOther /\ \A k \in DOMAIN queue : InQueue(k)
  BY <1>8 DEF OneQueued, OneOrOther
<1>13. OneRuns /\ LastAlone
  BY <1>4, <1>9 DEF OneRuns, LastAlone, HasTask
<1>14. QED  BY <1>6, <1>7, <1>10, <1>11, <1>12, <1>13 DEF TaskInv

LEMMA StutterTasks ==
  ASSUME TaskInv, UNCHANGED vars
  PROVE  TaskInv'
<1>1. UNCHANGED <<thread, queue, pagesMutex, job, listed, mutex, references, keepsPages, pins,
                  content, remapJob, asleep, owned, closer, result, cancelledBy>>
  BY DEF vars, accessorVars, pageVars, jobVars, history
<1>2. Shape' /\ Shape
  BY <1>1 DEF TaskInv, Shape
<1>3. Kept(job') /\ ListStays
  BY <1>1, <1>2, StaysItself, ListItself
<1>4. QED  BY <1>1, <1>2, <1>3, QuietTasks

LEMMA WorkingTasks ==
  ASSUME TaskInv, NEW w \in Workers, Working(w)
  PROVE  TaskInv'
<1>1. w \in Threads
  BY Constants
<1>2. QED
  BY <1>1, TakeTaskTasks, FindErrorTasks, CancelPageTasks, CancelRemapTasks, RemapCanceledTasks,
     StartPageTasks, AwaitReaderTasks, RemapReturnsTasks, ProcessPageTasks, UnPinPageTasks,
     MarkJobTasks, NextPageTasks, AbandonPagesTasks, FinishTaskTasks, SleepTasks DEF Working

LEMMA AskingTasks ==
  ASSUME TaskInv, NEW t \in Clients, NEW j \in owned[t],
         IsCompleted(t, j) \/ IsCanceled(t, j) \/ Cancel(t, j) \/ WaitForCompletion(t, j)
  PROVE  TaskInv'
BY TakenTasks, CancelTasks, WaitsTasks

LEMMA AddingTasks ==
  ASSUME TaskInv, NEW t \in Clients, Adding(t) \/ Waiting(t)
  PROVE  TaskInv'
<1>1. t \in Threads
  BY Constants
<1>2. CASE AddJob(t)
  <2>1. PICK j : j = Len(job) + 1
    OBVIOUS
  <2>2. QED  BY <1>2, <2>1, AddJobTasks
<1>3. QED
  BY <1>1, <1>2, FindAccessorTasks, EnsureMaxPagesTasks, PreparePageTasks, PrepareRefusedTasks,
     AddRemapJobTasks, SleepTasks, WaitReturnsTasks DEF Adding, Waiting

LEMMA NextTasks ==
  ASSUME TaskInv, [Next]_vars
  PROVE  TaskInv'
<1>1. CASE \E t \in Clients : \E r \in Requests[t] : RequestData(t, r)
  BY <1>1, RequestDataTasks
<1>2. CASE \E t \in Clients : \E j \in owned[t] :
             IsCompleted(t, j) \/ IsCanceled(t, j) \/ Cancel(t, j) \/ WaitForCompletion(t, j)
  BY <1>2, AskingTasks
<1>3. CASE \E t \in Clients : Adding(t) \/ Waiting(t)
  BY <1>3, AddingTasks
<1>4. CASE \E w \in Workers : Working(w)
  BY <1>4, WorkingTasks
<1>5. CASE (\E x \in Accessors : CleanUp(x)) \/ Close \/ CloseNext
  BY <1>5, CleanUpTasks, CloseTasks, CloseNextTasks
<1>6. CASE UNCHANGED vars
  BY <1>6, StutterTasks
<1>7. QED
  <2>1. CASE Next
    <3>1. CASE \E t \in Clients :
                 \/ \E r \in Requests[t] : RequestData(t, r)
                 \/ \E j \in owned[t] : IsCompleted(t, j) \/ IsCanceled(t, j) \/ Cancel(t, j)
                                        \/ WaitForCompletion(t, j)
                 \/ Adding(t) \/ Waiting(t)
      BY <1>1, <1>2, <1>3, <3>1
    <3>2. QED  BY <1>4, <1>5, <2>1, <3>1 DEF Next
  <2>2. QED  BY <1>6, <2>1

\* Tasks and jobs stay together.
THEOREM TaskInvariance == Spec => []TaskInv
<1>1. TaskInv /\ [Next]_vars => TaskInv'
  BY NextTasks
<1>2. QED  BY <1>1, InitTasks, PTL DEF Spec

-----------------------------------------------------------------------------
(* What a step may change of a job that there is.                          *)

AlikeBut(k) ==
  /\ job'[k].single = job[k].single /\ job'[k].fails = job[k].fails
  /\ job'[k].accessor = job[k].accessor /\ job'[k].target = job[k].target
  /\ job'[k].done = job[k].done /\ Len(job'[k].pages) = Len(job[k].pages)
  /\ job[k].cancelled => job'[k].cancelled
Alike(k) ==
  /\ AlikeBut(k)
  /\ k \in Listed' => /\ k \in Listed /\ job'[k].future = job[k].future
                      /\ job'[k].given = job[k].given
JobsAlike == DOMAIN job' = DOMAIN job /\ \A k \in DOMAIN job : Alike(k)

LEMMA UnchangedAlike ==
  ASSUME UNCHANGED <<job, listed>>
  PROVE  JobsAlike
BY DEF JobsAlike, Alike, AlikeBut, Listed

LEMMA CancelledAlike ==
  ASSUME TaskInv, NEW j, job' = [job EXCEPT ![j].cancelled = TRUE], UNCHANGED listed
  PROVE  JobsAlike /\ \A k \in DOMAIN job : job'[k].pages = job[k].pages
                                            /\ (k = j => job'[k].cancelled = TRUE)
                                            /\ (k # j => job'[k] = job[k])
<1>1. Shape /\ Kept(job) /\ Listed' = Listed
  BY StaysItself DEF TaskInv, Listed
<1>2. /\ Kept(job')
      /\ \A k \in DOMAIN job : job'[k] = IF k = j THEN [job[k] EXCEPT !.cancelled = TRUE] ELSE job[k]
  BY <1>1, CancelsJob
<1>3. DOMAIN job' = DOMAIN job
  BY <1>1, <1>2, JobPlaces DEF Kept
<1>4. ASSUME NEW k \in DOMAIN job
      PROVE  Alike(k) /\ job'[k].pages = job[k].pages /\ (k = j => job'[k].cancelled = TRUE)
  <2>1. PICK q \in JobRecord : q = job[k]
    BY <1>1, <1>4, JobPlaces
  <2>2. CASE k = j
    <3>1. job'[k] = [q EXCEPT !.cancelled = TRUE]
      BY <1>2, <1>4, <2>1, <2>2
    <3>2. /\ job'[k].single = q.single /\ job'[k].fails = q.fails /\ job'[k].accessor = q.accessor
          /\ job'[k].target = q.target /\ job'[k].done = q.done /\ job'[k].pages = q.pages
          /\ job'[k].cancelled = TRUE /\ job'[k].future = q.future /\ job'[k].given = q.given
      BY <3>1 DEF JobRecord
    <3>3. QED  BY <1>1, <2>1, <3>2 DEF Alike, AlikeBut
  <2>3. CASE k # j
    BY <1>1, <1>2, <1>4, <2>3 DEF Alike, AlikeBut
  <2>4. QED  BY <2>2, <2>3
<1>5. QED  BY <1>2, <1>3, <1>4 DEF JobsAlike

LEMMA DeletedAlike ==
  ASSUME TaskInv, NEW j, IsDone(j), EraseJob(j), job' = Deleted(job, j)
  PROVE  JobsAlike /\ Listed' = Listed \ {j} /\ \A k \in DOMAIN job : k # j => job'[k] = job[k]
<1>1. Shape /\ Listed' = Listed \ {j}
  BY ErasesJob DEF TaskInv
<1>2. /\ Kept(job') /\ \A k \in DOMAIN job : k # j => job'[k] = job[k]
      /\ j \in DOMAIN job => /\ job'[j].done = TRUE /\ job'[j].target = job[j].target
                             /\ job'[j].cancelled = job[j].cancelled /\ job'[j].accessor = job[j].accessor
                             /\ job'[j].fails = job[j].fails
  BY <1>1, DeletesJob
<1>3. DOMAIN job' = DOMAIN job
  BY <1>1, <1>2, JobPlaces DEF Kept
<1>4. ASSUME NEW k \in DOMAIN job PROVE Alike(k)
  <2>1. CASE k = j
    <3>1. Stays(job[k], job'[k])
      BY <1>2 DEF Kept
    <3>2. QED  BY <1>1, <1>2, <2>1, <3>1 DEF Alike, AlikeBut, Stays
  <2>2. CASE k # j
    BY <1>1, <1>2, <2>2 DEF Alike, AlikeBut
  <2>3. QED  BY <2>1, <2>2
<1>5. QED  BY <1>1, <1>2, <1>3, <1>4 DEF JobsAlike

LEMMA CancelPageAlike ==
  ASSUME TaskInv, NEW w \in Workers, CancelPage(w)
  PROVE  /\ JobsAlike /\ Listed' = Listed
         /\ \A k \in DOMAIN job : k # thread[w].job => job'[k] = job[k]
         /\ job'[thread[w].job].pages = [JobOf(w).pages EXCEPT ![thread[w].page] = NoChunk]
<1>1. Shape /\ Listed' = Listed /\ ForgetPage(thread[w].job, thread[w].page)
  BY DEF TaskInv, CancelPage, Listed
<1>2. PICK j, i : j = thread[w].job /\ i = thread[w].page
  OBVIOUS
<1>3. j \in DOMAIN job /\ i \in DOMAIN job[j].pages
  BY <1>2, WorkersPage DEF CancelPage, JobOf
<1>4. /\ Kept(job') /\ \A k \in DOMAIN job : k # j => job'[k] = job[k]
      /\ job'[j].pages = [job[j].pages EXCEPT ![i] = NoChunk]
      /\ job'[j].done = job[j].done /\ job'[j].cancelled = job[j].cancelled
      /\ job'[j].fails = job[j].fails /\ job'[j].future = job[j].future /\ job'[j].given = job[j].given
  BY <1>1, <1>2, <1>3, ForgetsPage
<1>5. DOMAIN job' = DOMAIN job
  BY <1>1, <1>4, JobPlaces DEF Kept
<1>6. ASSUME NEW k \in DOMAIN job PROVE Alike(k)
  <2>1. CASE k = j
    <3>1. Stays(job[k], job'[k])
      BY <1>4 DEF Kept
    <3>2. QED  BY <1>1, <1>4, <2>1, <3>1 DEF Alike, AlikeBut, Stays
  <2>2. CASE k # j
    BY <1>1, <1>4, <2>2 DEF Alike, AlikeBut
  <2>3. QED  BY <2>1, <2>2
<1>7. QED  BY <1>1, <1>2, <1>4, <1>5, <1>6 DEF JobsAlike, JobOf

LEMMA AbandonAlike ==
  ASSUME TaskInv, NEW w \in Workers, AbandonPages(w)
  PROVE  JobsAlike /\ Listed' = Listed /\ job'[thread[w].job].cancelled = TRUE
<1>1. Shape /\ Listed' = Listed /\ TaskInv'
  BY AbandonPagesTasks DEF TaskInv, AbandonPages, Listed
<1>2. \A k \in DOMAIN job :
        /\ k # thread[w].job => job'[k] = job[k]
        /\ k = thread[w].job =>
             /\ job'[k] = [job[k] EXCEPT !.cancelled = TRUE, !.pages = job'[k].pages]
             /\ DOMAIN job'[k].pages = DOMAIN job[k].pages
  BY AbandonPagesTasks
<1>3. thread[w].job \in DOMAIN job
  BY WorkersPage DEF AbandonPages
<1>4. DOMAIN job' = DOMAIN job
  BY DEF AbandonPages
<1>5. ASSUME NEW k \in DOMAIN job, k = thread[w].job PROVE Alike(k) /\ job'[k].cancelled = TRUE
  <2>1. PICK q \in JobRecord : q = job[k]
    BY <1>1, <1>5, JobPlaces
  <2>2. PICK P : P = job'[k].pages
    OBVIOUS
  <2>3. job'[k] = [q EXCEPT !.cancelled = TRUE, !.pages = P]
    BY <1>2, <1>5, <2>1, <2>2
  <2>4. /\ job'[k].single = q.single /\ job'[k].fails = q.fails /\ job'[k].accessor = q.accessor
        /\ job'[k].target = q.target /\ job'[k].done = q.done
        /\ job'[k].cancelled = TRUE /\ job'[k].future = q.future /\ job'[k].given = q.given
    BY <2>3 DEF JobRecord
  <2>5. Len(P) = Len(q.pages)
    <3>1. q.pages \in Seq(Chunks \cup {NoChunk})
      BY DEF JobRecord
    <3>2. P \in Seq(Chunks \cup {NoChunk})
      BY <1>1, <1>4, <1>5, <2>2, PlacesNext DEF TaskInv, JobRecord
    <3>3. DOMAIN P = DOMAIN q.pages
      BY <1>2, <1>5, <2>1, <2>2
    <3>4. QED  BY <3>1, <3>2, <3>3, SameLength
  <2>6. QED  BY <1>1, <2>1, <2>2, <2>4, <2>5 DEF Alike, AlikeBut
<1>6. ASSUME NEW k \in DOMAIN job, k # thread[w].job PROVE Alike(k)
  BY <1>1, <1>2, <1>6 DEF Alike, AlikeBut
<1>7. QED  BY <1>1, <1>3, <1>4, <1>5, <1>6 DEF JobsAlike

LEMMA FailToAlike ==
  ASSUME TaskInv, NEW w \in Workers, NEW failed, FailTo(w, job, failed), UNCHANGED listed,
         ~At(w, "idle")
  PROVE  JobsAlike /\ job'[thread[w].job].cancelled = TRUE
<1>1. PICK j : j = thread[w].job
  OBVIOUS
<1>2. j \in DOMAIN job
  BY <1>1, WorkersPage
<1>3. job' = [job EXCEPT ![j].cancelled = TRUE]
  BY <1>1 DEF FailTo
<1>4. QED  BY <1>1, <1>2, <1>3, CancelledAlike

LEMMA RemapFailsAlike ==
  ASSUME TaskInv, NEW w \in Workers, NEW failed, NEW j, ~At(w, "idle"), IsDone(j), EraseJob(j),
         FailTo(w, Deleted(job, j), failed)
  PROVE  /\ JobsAlike /\ Listed' = Listed \ {j} /\ job'[thread[w].job].cancelled = TRUE
         /\ \A k \in DOMAIN job : k # j /\ k # thread[w].job => job'[k] = job[k]
         /\ \A k \in DOMAIN job : k # j => job'[k].pages = job[k].pages
<1>1. PICK i : i = thread[w].job
  OBVIOUS
<1>2. Shape /\ i \in DOMAIN job /\ Listed' = Listed \ {j}
  BY <1>1, WorkersPage, ErasesJob DEF TaskInv
<1>3. PICK J : J = Deleted(job, j)
  OBVIOUS
<1>4. /\ Kept(J) /\ \A k \in DOMAIN job : k # j => J[k] = job[k]
      /\ j \in DOMAIN job => /\ J[j].done = TRUE /\ J[j].target = job[j].target
                             /\ J[j].cancelled = job[j].cancelled /\ J[j].accessor = job[j].accessor
                             /\ J[j].fails = job[j].fails
  BY <1>2, <1>3, DeletesJob
<1>5. job' = [J EXCEPT ![i].cancelled = TRUE]
  BY <1>1, <1>3 DEF FailTo
<1>6. /\ Kept(job')
      /\ \A k \in DOMAIN job : job'[k] = IF k = i THEN [J[k] EXCEPT !.cancelled = TRUE] ELSE J[k]
  <2>1. J \in Seq(JobRecord) /\ DOMAIN J = DOMAIN job
    BY <1>2, <1>4, JobPlaces DEF Kept
  <2>2. Kept(job')
    BY <1>2, <1>4, <1>5, CancelsJob
  <2>3. PICK r : r = [J[i] EXCEPT !.cancelled = TRUE]
    OBVIOUS
  <2>4. i \in DOMAIN J /\ job' = [J EXCEPT ![i] = r]
    BY <1>2, <1>5, <2>1, <2>3
  <2>5. \A k \in DOMAIN J : job'[k] = IF k = i THEN r ELSE J[k]
    BY <2>1, <2>4
  <2>6. QED  BY <2>1, <2>2, <2>3, <2>5
<1>7. DOMAIN job' = DOMAIN job
  BY <1>2, <1>6, JobPlaces DEF Kept
<1>8. ASSUME NEW k \in DOMAIN job
      PROVE  /\ job'[k].fails = J[k].fails /\ job'[k].done = J[k].done /\ job'[k].future = J[k].future
             /\ job'[k].given = J[k].given /\ job'[k].pages = J[k].pages
             /\ job'[k].cancelled = TRUE \/ job'[k].cancelled = J[k].cancelled
             /\ k = i => job'[k].cancelled = TRUE
  <2>1. PICK q \in JobRecord : q = J[k]
    <3>1. J \in Seq(JobRecord) /\ DOMAIN J = DOMAIN job
      BY <1>2, <1>4, JobPlaces DEF Kept
    <3>2. QED  BY <1>8, <3>1
  <2>2. CASE k = i
    <3>1. job'[k] = [q EXCEPT !.cancelled = TRUE]
      BY <1>6, <2>1, <2>2
    <3>2. PICK r : r = job'[k]
      OBVIOUS
    <3>3. r = [q EXCEPT !.cancelled = TRUE]
      BY <3>1, <3>2
    <3>4. /\ r.fails = q.fails /\ r.done = q.done /\ r.future = q.future
          /\ r.given = q.given /\ r.pages = q.pages
      BY <3>3 DEF JobRecord
    <3>5. r.cancelled = TRUE
      BY <3>3 DEF JobRecord
    <3>6. QED  BY <2>1, <3>2, <3>4, <3>5
  <2>3. CASE k # i
    BY <1>6, <2>3
  <2>4. QED  BY <2>2, <2>3
<1>9. ASSUME NEW k \in DOMAIN job PROVE Alike(k)
  <2>1. Stays(job[k], job'[k]) /\ (k = j => job[k].done = TRUE)
    <3>1. k = j => job[k].done = TRUE
      BY <1>2, JobPlaces DEF IsDone
    <3>2. QED  BY <1>6, <3>1 DEF Kept
  <2>2. AlikeBut(k)
    <3>1. /\ job'[k].single = job[k].single /\ job'[k].accessor = job[k].accessor
          /\ job'[k].target = job[k].target /\ job'[k].done = job[k].done
          /\ Len(job'[k].pages) = Len(job[k].pages)
      BY <2>1 DEF Stays
    <3>2. k # j => J[k].fails = job[k].fails /\ J[k].cancelled = job[k].cancelled
      BY <1>4, <1>9
    <3>3. J[k].fails = job[k].fails /\ J[k].cancelled = job[k].cancelled
      BY <1>4, <1>9, <3>2
    <3>4. job'[k].fails = job[k].fails /\ (job[k].cancelled => job'[k].cancelled)
      BY <1>8, <1>9, <3>3
    <3>5. QED  BY <3>1, <3>4 DEF AlikeBut
  <2>3. ASSUME k \in Listed'
        PROVE  /\ k \in Listed /\ job'[k].future = job[k].future /\ job'[k].given = job[k].given
    <3>1. k \in Listed /\ k # j
      BY <1>2, <2>3
    <3>2. J[k] = job[k]
      BY <1>4, <1>9, <3>1
    <3>3. QED  BY <1>8, <1>9, <3>1, <3>2
  <2>4. QED  BY <2>2, <2>3 DEF Alike
<1>10. QED  BY <1>1, <1>2, <1>4, <1>6, <1>7, <1>8, <1>9 DEF JobsAlike

LEMMA WorkersAlike ==
  ASSUME TaskInv, NEW w \in Workers,
         \/ FindError(w) \/ CancelPage(w) \/ CancelRemap(w) \/ RemapCanceled(w) \/ StartPage(w)
         \/ AwaitReader(w) \/ RemapReturns(w) \/ NextPage(w) \/ AbandonPages(w) \/ TakeTask(w) \/ Sleep(w)
  PROVE  JobsAlike
<1>1. CASE FindError(w)
  <2>1. PICK j : j = thread[w].job
    OBVIOUS
  <2>2. job' = [job EXCEPT ![j].cancelled = TRUE] /\ UNCHANGED listed
    BY <1>1, <2>1 DEF FindError
  <2>3. QED  BY <2>2, CancelledAlike
<1>2. CASE CancelRemap(w)
  <2>1. PICK j : j = thread[w].waitsFor
    OBVIOUS
  <2>2. job' = [job EXCEPT ![j].cancelled = TRUE] /\ UNCHANGED listed
    BY <1>2, <2>1 DEF CancelRemap
  <2>3. QED  BY <2>2, CancelledAlike
<1>3. CASE RemapCanceled(w)
  <2>1. PICK j : j = thread[w].waitsFor
    OBVIOUS
  <2>2. job' = Deleted(job, j) /\ IsDone(j) /\ EraseJob(j)
    BY <1>3, <2>1 DEF RemapCanceled, TakeCanceled
  <2>3. QED  BY <2>2, DeletedAlike
<1>4. CASE StartPage(w)
  <2>1. UNCHANGED listed /\ ~At(w, "idle") /\ (UNCHANGED job \/ FailTo(w, job, TRUE))
    BY <1>4 DEF StartPage
  <2>2. QED  BY <2>1, FailToAlike, UnchangedAlike
<1>5. CASE AwaitReader(w)
  <2>1. UNCHANGED listed /\ ~At(w, "idle") /\ (UNCHANGED job \/ FailTo(w, job, TRUE))
    BY <1>5 DEF AwaitReader
  <2>2. QED  BY <2>1, FailToAlike, UnchangedAlike
<1>6. CASE RemapReturns(w)
  <2>1. PICK j : j = thread[w].waitsFor
    OBVIOUS
  <2>2. /\ ~At(w, "idle") /\ IsDone(j) /\ EraseJob(j)
        /\ job' = Deleted(job, j) \/ FailTo(w, Deleted(job, j), HasError(j))
    BY <1>6, <2>1 DEF RemapReturns, TakeCompleted, TakeCanceled
  <2>3. QED  BY <2>2, RemapFailsAlike, DeletedAlike
<1>7. CASE NextPage(w) \/ TakeTask(w) \/ Sleep(w)
  BY <1>7, UnchangedAlike DEF NextPage, TakeTask, Sleep, jobVars
<1>8. QED  BY <1>1, <1>2, <1>3, <1>4, <1>5, <1>6, <1>7, CancelPageAlike, AbandonAlike

LEMMA ClientsAlike ==
  ASSUME TaskInv,
         \/ \E t \in Clients :
              \/ \E r \in Requests[t] : RequestData(t, r)
              \/ \E j \in owned[t] : IsCompleted(t, j) \/ IsCanceled(t, j) \/ Cancel(t, j)
                                     \/ WaitForCompletion(t, j)
              \/ FindAccessor(t) \/ EnsureMaxPages(t) \/ PrepareReadPage(t) \/ PrepareRefused(t)
              \/ AddRemapJob(t) \/ Waiting(t)
         \/ (\E x \in Accessors : CleanUp(x)) \/ Close \/ CloseNext \/ UNCHANGED vars
  PROVE  JobsAlike
<1>1. CASE \E t \in Clients :
              \/ \E r \in Requests[t] : RequestData(t, r)
              \/ \E j \in owned[t] : WaitForCompletion(t, j)
              \/ FindAccessor(t) \/ EnsureMaxPages(t) \/ PrepareReadPage(t) \/ PrepareRefused(t)
              \/ AddRemapJob(t) \/ Sleep(t)
  BY <1>1, UnchangedAlike
     DEF RequestData, WaitForCompletion, FindAccessor, EnsureMaxPages, PrepareReadPage, PrepareRefused,
         AddRemapJob, Sleep, jobVars
<1>2. ASSUME NEW t \in Clients, NEW j \in owned[t], IsCompleted(t, j) \/ IsCanceled(t, j)
      PROVE  JobsAlike
  <2>1. job' = Deleted(job, j) /\ IsDone(j) /\ EraseJob(j)
    BY <1>2 DEF IsCompleted, IsCanceled, TakeCompleted, TakeCanceled, MayComplete
  <2>2. QED  BY <2>1, DeletedAlike
<1>3. ASSUME NEW t \in Clients, NEW j \in owned[t], Cancel(t, j)
      PROVE  JobsAlike
  <2>1. job' = [job EXCEPT ![j].cancelled = TRUE] /\ UNCHANGED listed
    BY <1>3 DEF Cancel
  <2>2. QED  BY <2>1, CancelledAlike
<1>4. ASSUME NEW t \in Clients, WaitReturns(t)
      PROVE  JobsAlike
  <2>1. PICK j : j = thread[t].waitsFor
    OBVIOUS
  <2>2. (job' = Deleted(job, j) /\ IsDone(j) /\ EraseJob(j)) \/ UNCHANGED <<job, listed>>
    BY <1>4, <2>1 DEF WaitReturns, TakeCompleted
  <2>3. QED  BY <2>2, DeletedAlike, UnchangedAlike
<1>5. ASSUME Close PROVE JobsAlike
  <2>1. Shape /\ Listed' = Listed
    BY <1>5 DEF TaskInv, Close, Listed
  <2>2. job' = [j \in DOMAIN job |-> IF j \in Listed THEN [job[j] EXCEPT !.cancelled = TRUE] ELSE job[j]]
    BY <1>5 DEF Close
  <2>3. ASSUME NEW k \in DOMAIN job PROVE Alike(k)
    <3>1. PICK q \in JobRecord : q = job[k]
      BY <2>1, <2>3, JobPlaces
    <3>2. job'[k] = IF k \in Listed THEN [q EXCEPT !.cancelled = TRUE] ELSE q
      BY <2>2, <2>3, <3>1
    <3>3. /\ job'[k].single = q.single /\ job'[k].fails = q.fails /\ job'[k].accessor = q.accessor
          /\ job'[k].target = q.target /\ job'[k].done = q.done /\ job'[k].pages = q.pages
          /\ job'[k].cancelled = TRUE \/ job'[k].cancelled = q.cancelled
          /\ job'[k].future = q.future /\ job'[k].given = q.given
      BY <3>2 DEF JobRecord
    <3>4. QED  BY <2>1, <3>1, <3>3 DEF Alike, AlikeBut
  <2>4. QED  BY <2>2, <2>3 DEF JobsAlike
<1>6. CASE (\E x \in Accessors : CleanUp(x)) \/ CloseNext \/ UNCHANGED vars
  BY <1>6, UnchangedAlike DEF CleanUp, CloseNext, vars, jobVars
<1>7. QED  BY <1>1, <1>2, <1>3, <1>4, <1>5, <1>6 DEF Waiting

-----------------------------------------------------------------------------
(* A job that was taken out of the list.                                   *)

\* The processor of 1-bit data has no errors.
OneBitSucceeds == \A t \in Clients : \A r \in Requests[t] : r.single => ~r.fails

SingleCalls == \A t \in Clients :
  thread[t].pc \in InCall /\ thread[t].request.single => ~thread[t].request.fails
SingleJobs == \A j \in DOMAIN job : job[j].single => ~job[j].fails
\* The one task of a 1-bit request is the only one to tell its future, at its end;
\* until then nobody takes a job with an error out of the list.
SingleErrors == \A w \in Workers : HasTask(w) /\ JobOf(w).single =>
  /\ thread[w].job \in Listed => JobOf(w).future = <<"none">>
  /\ thread[w].failed => thread[w].job \in Listed /\ JobOf(w).cancelled
SingleQueued == \A k \in DOMAIN queue :
  job[queue[k].job].single /\ queue[k].job \in Listed => job[queue[k].job].future = <<"none">>
IdleFine == \A w \in Workers : At(w, "idle") => ~thread[w].failed
QuietInv == SingleCalls /\ SingleJobs /\ SingleErrors /\ SingleQueued /\ IdleFine

\* A page that a worker has is to be counted, and its job is not done.
LEMMA CarriesPending ==
  ASSUME TaskInv, NEW w \in Workers, thread[w].pc \in Carrying
  PROVE  /\ thread[w].job \in DOMAIN job /\ thread[w].job \in Listed /\ ~JobOf(w).done
         /\ thread[w].page \in Pending(thread[w].job)
<1>1. PICK j, i : j = thread[w].job /\ i = thread[w].page
  OBVIOUS
<1>2. thread[w].pc # "idle" /\ thread[w].pc \in UsingJob /\ thread[w].pc \notin {"last", "after"}
  BY DEF Carrying, UsingJob
<1>3. j \in DOMAIN job /\ i \in DOMAIN job[j].pages
  BY <1>1, <1>2, WorkersPage DEF JobOf
<1>4. Carries(w, j, i)
  BY <1>1, <1>2 DEF Carries, Uses
<1>5. i \in Pending(j)
  BY <1>3, <1>4, PinnedBy DEF Pending
<1>6. j \in Listed /\ ~job[j].done
  BY <1>3, <1>5 DEF TaskInv, Counts
<1>7. QED  BY <1>1, <1>3, <1>5, <1>6 DEF JobOf

LEMMA QuietTaken ==
  ASSUME TaskInv, QuietInv
  PROVE  TakenOutIsQuiet
<1>1. ASSUME NEW j \in DOMAIN job, NEW w \in Workers, Uses(w, j) PROVE j \in Listed
  <2>1. thread[w].job = j /\ j # 0
    BY <1>1, JobPlaces, Constants DEF Uses, TaskInv
  <2>2. CASE thread[w].pc \in Carrying
    BY <2>1, <2>2, CarriesPending
  <2>3. CASE At(w, "last")
    BY <1>1, <2>1, <2>3 DEF TaskInv, Lasts, Counts
  <2>4. CASE At(w, "after") /\ job[j].single /\ thread[w].failed
    BY <2>1, <2>4 DEF QuietInv, SingleErrors, HasTask, JobOf
  <2>5. CASE At(w, "after") /\ job[j].single /\ thread[w].page < Len(job[j].pages)
    <3>1. PICK n, i : n = Len(job[j].pages) /\ i = thread[w].page
      OBVIOUS
    <3>2. n \in Nat /\ DOMAIN job[j].pages = 1 .. n /\ i \in DOMAIN job[j].pages
      BY <1>1, <2>1, <2>5, <3>1, JobPlaces, WorkersPage DEF TaskInv, JobOf
    <3>3. i + 1 \in 1 .. n /\ i < i + 1
      BY <2>5, <3>1, <3>2
    <3>4. Carries(w, j, i + 1)
      BY <1>1, <2>5, <3>1, <3>3 DEF Carries
    <3>5. i + 1 \in Pending(j)
      BY <3>2, <3>3, <3>4, PinnedBy DEF Pending
    <3>6. QED  BY <1>1, <3>5 DEF TaskInv, Counts
  <2>6. QED  BY <1>1, <2>2, <2>3, <2>4, <2>5 DEF Uses, Carrying
<1>2. ASSUME NEW j \in DOMAIN job, NEW k \in DOMAIN queue, queue[k].job = j PROVE j \in Listed
  <2>1. Len(job[j].pages) \in Nat /\ DOMAIN job[j].pages = 1 .. Len(job[j].pages)
        /\ job[j].pages \in Seq(Chunks \cup {NoChunk}) /\ job[j].pages # <<>>
    BY <1>2, JobPlaces DEF TaskInv, JobForms, JobRecord
  <2>2. Len(job[j].pages) # 0
    BY <2>1
  <2>3. queue[k].page \in 0 .. Len(job[j].pages)
    BY <1>2 DEF TaskInv, InQueue
  <2>4. PICK i : i = IF queue[k].page = 0 THEN 1 ELSE queue[k].page
    OBVIOUS
  <2>5. i \in 1 .. Len(job[j].pages) /\ queue[k].page \in {0, i}
    BY <2>1, <2>2, <2>3, <2>4
  <2>6. i \in Pending(j)
    BY <1>2, <2>1, <2>5 DEF Pending, HasPinned, Queued
  <2>7. QED  BY <1>2, <2>6 DEF TaskInv, Counts
<1>3. QED  BY <1>1, <1>2 DEF TakenOutIsQuiet

ErrorsAlike(k) ==
  /\ job'[k].single = job[k].single /\ job'[k].fails = job[k].fails
  /\ job[k].cancelled => job'[k].cancelled
  /\ k \in Listed' => k \in Listed /\ job'[k].future = job[k].future

LEMMA ErrorsStay ==
  ASSUME TaskInv, QuietInv, TaskInv', DOMAIN job' = DOMAIN job, UNCHANGED queue,
         \A k \in DOMAIN job :
           ErrorsAlike(k) /\ (k \in Listed /\ k \notin Listed' => ~job[k].cancelled \/ FuturesReady(k)),
         \A w \in Workers :
           /\ thread'[w].job = thread[w].job
           /\ thread'[w].failed => \/ thread[w].failed
                                   \/ /\ HasTask(w)
                                      /\ JobOf(w).single => /\ thread[w].job \in Listed'
                                                            /\ job'[thread[w].job].cancelled
  PROVE  SingleJobs' /\ SingleErrors' /\ SingleQueued' /\ IdleFine'
<1>1. SingleJobs'
  BY DEF SingleJobs, QuietInv, ErrorsAlike
<1>2. SingleErrors'
  <2>1. ASSUME NEW w \in Workers, HasTask(w)', JobOf(w)'.single
        PROVE  /\ thread'[w].job \in Listed' => JobOf(w)'.future = <<"none">>
               /\ thread'[w].failed => thread'[w].job \in Listed' /\ JobOf(w)'.cancelled
    <3>1. PICK j : j = thread[w].job
      OBVIOUS
    <3>2. HasTask(w) /\ j \in DOMAIN job /\ thread'[w].job = j
      BY <2>1, <3>1 DEF HasTask, TaskInv, Worker
    <3>3. ErrorsAlike(j) /\ job[j].single
      BY <2>1, <3>1, <3>2 DEF ErrorsAlike, JobOf
    <3>4. /\ j \in Listed => job[j].future = <<"none">>
          /\ thread[w].failed => j \in Listed /\ job[j].cancelled
      BY <3>1, <3>2, <3>3 DEF QuietInv, SingleErrors, JobOf
    <3>5. j \in Listed' => job'[j].future = <<"none">>
      BY <3>3, <3>4 DEF ErrorsAlike
    <3>6. ASSUME thread[w].failed PROVE j \in Listed' /\ job'[j].cancelled
      <4>1. j \in Listed /\ job[j].cancelled /\ job[j].future = <<"none">>
        BY <3>4, <3>6
      <4>2. ~FuturesReady(j)
        <5>1. PICK f : f = job[j].future
          OBVIOUS
        <5>2. DOMAIN f = {1} /\ f[1] = "none"
          BY <4>1, <5>1
        <5>3. QED  BY <5>1, <5>2 DEF FuturesReady
      <4>3. QED  BY <3>2, <3>3, <4>1, <4>2 DEF ErrorsAlike
    <3>7. thread'[w].failed => j \in Listed' /\ job'[j].cancelled
      BY <3>1, <3>3, <3>6 DEF JobOf
    <3>8. QED  BY <3>2, <3>5, <3>7 DEF JobOf
  <2>2. QED  BY <2>1 DEF SingleErrors
<1>3. SingleQueued'
  <2>1. ASSUME NEW k \in DOMAIN queue, job'[queue[k].job].single, queue[k].job \in Listed'
        PROVE  job'[queue[k].job].future = <<"none">>
    <3>1. queue[k].job \in DOMAIN job
      BY <2>1 DEF TaskInv, InQueue
    <3>2. QED  BY <2>1, <3>1 DEF QuietInv, SingleQueued, ErrorsAlike
  <2>2. QED  BY <2>1 DEF SingleQueued
<1>4. IdleFine'
  <2>1. ASSUME NEW w \in Workers, At(w, "idle")' PROVE ~thread'[w].failed
    <3>1. thread'[w].job = 0
      BY <2>1 DEF TaskInv, Worker
    <3>2. ~HasTask(w) /\ At(w, "idle")
      BY <2>1, <3>1 DEF TaskInv, Worker, HasTask
    <3>3. QED  BY <2>1, <3>2 DEF QuietInv, IdleFine
  <2>2. QED  BY <2>1 DEF IdleFine
<1>5. QED  BY <1>1, <1>2, <1>3, <1>4

LEMMA TakenReady ==
  ASSUME TaskInv, NEW j, TakeCompleted(j) \/ TakeCanceled(j)
  PROVE  \A k \in DOMAIN job : k \in Listed /\ k \notin Listed' => ~job[k].cancelled \/ FuturesReady(k)
<1>1. IsDone(j) /\ EraseJob(j) /\ (~job[j].cancelled \/ FuturesReady(j))
  BY DEF TakeCompleted, TakeCanceled, MayComplete
<1>2. Listed' = Listed \ {j}
  BY <1>1, ErasesJob
<1>3. QED  BY <1>1, <1>2

LEMMA WorkerErrors ==
  ASSUME TaskInv, QuietInv, TaskInv', NEW w \in Workers, UNCHANGED queue, DOMAIN job' = DOMAIN job,
         \A k \in DOMAIN job :
           ErrorsAlike(k) /\ (k \in Listed /\ k \notin Listed' => ~job[k].cancelled \/ FuturesReady(k)),
         \A u \in Threads \ {w} : thread'[u] = thread[u],
         thread'[w].job = thread[w].job,
         thread'[w].failed => \/ thread[w].failed
                              \/ /\ HasTask(w)
                                 /\ JobOf(w).single => /\ thread[w].job \in Listed'
                                                       /\ job'[thread[w].job].cancelled
  PROVE  QuietInv'
<1>1. \A u \in Workers : u # w => thread'[u] = thread[u]
  BY Constants
<1>2. \A t \in Clients : thread'[t] = thread[t]
  BY Constants
<1>3. SingleCalls'
  BY <1>2 DEF SingleCalls, QuietInv
<1>4. \A v \in Workers :
           /\ thread'[v].job = thread[v].job
           /\ thread'[v].failed => \/ thread[v].failed
                                   \/ /\ HasTask(v)
                                      /\ JobOf(v).single => /\ thread[v].job \in Listed'
                                                            /\ job'[thread[v].job].cancelled
  BY <1>1
<1>5. QED  BY <1>3, <1>4, ErrorsStay DEF QuietInv

LEMMA AlikeErrors ==
  ASSUME JobsAlike, NEW k \in DOMAIN job
  PROVE  ErrorsAlike(k)
BY DEF JobsAlike, Alike, AlikeBut, ErrorsAlike

LEMMA MovedErrors ==
  ASSUME TaskInv, QuietInv, TaskInv', NEW w \in Workers, NEW pc, NEW waitsFor, NEW failed,
         Moves(w, pc, waitsFor, failed), UNCHANGED queue, JobsAlike,
         \A k \in DOMAIN job : k \in Listed /\ k \notin Listed' => ~job[k].cancelled \/ FuturesReady(k),
         failed => \/ thread[w].failed
                   \/ /\ HasTask(w) /\ thread[w].job \in Listed' /\ job'[thread[w].job].cancelled
  PROVE  QuietInv'
<1>1. /\ \A u \in Threads \ {w} : thread'[u] = thread[u]
      /\ thread'[w].job = thread[w].job /\ thread'[w].failed = failed
  BY DEF Moves
<1>2. DOMAIN job' = DOMAIN job /\ \A k \in DOMAIN job : ErrorsAlike(k)
  BY AlikeErrors DEF JobsAlike
<1>3. QED  BY <1>1, <1>2, WorkerErrors

\* The steps of a worker that find out about errors.
LEMMA ReadingQuiet ==
  ASSUME TaskInv, QuietInv, NEW w \in Workers,
         FindError(w) \/ StartPage(w) \/ AwaitReader(w) \/ RemapReturns(w)
  PROVE  QuietInv'
<1>1. TaskInv' /\ JobsAlike /\ UNCHANGED queue
  BY FindErrorTasks, StartPageTasks, AwaitReaderTasks, RemapReturnsTasks, WorkersAlike
     DEF FindError, StartPage, AwaitReader, RemapReturns
<1>2. thread[w].pc \in Carrying /\ ~At(w, "idle")
  BY DEF FindError, StartPage, AwaitReader, RemapReturns, Carrying, UsingJob
<1>3. PICK j : j = thread[w].job
  OBVIOUS
<1>4. j \in DOMAIN job /\ j \in Listed /\ ~job[j].done /\ HasTask(w)
  BY <1>2, <1>3, CarriesPending, WorkersPage DEF HasTask, JobOf
<1>5. CASE FindError(w)
  <2>1. job' = [job EXCEPT ![j].cancelled = TRUE] /\ UNCHANGED listed
    BY <1>3, <1>5 DEF FindError
  <2>2. job'[j].cancelled = TRUE /\ Listed' = Listed
    BY <1>4, <2>1, CancelledAlike DEF Listed
  <2>3. Moves(w, "page", thread[w].waitsFor, TRUE)
    BY <1>5, FindErrorTasks
  <2>4. QED  BY <1>1, <1>3, <1>4, <2>2, <2>3, MovedErrors
<1>6. CASE StartPage(w)
  <2>1. Listed' = Listed /\ UNCHANGED listed
    BY <1>6 DEF StartPage, Listed
  <2>2. ASSUME NEW pc, NEW waitsFor, Moves(w, pc, waitsFor, thread[w].failed) PROVE QuietInv'
    BY <1>1, <2>1, <2>2, MovedErrors
  <2>3. ASSUME FailTo(w, job, TRUE), Moves(w, "unpin", 0, TRUE) PROVE QuietInv'
    <3>1. job'[j].cancelled = TRUE
      BY <1>2, <1>3, <2>1, <2>3, FailToAlike
    <3>2. QED  BY <1>1, <1>3, <1>4, <2>1, <2>3, <3>1, MovedErrors
  <2>4. QED  BY <1>6, <2>2, <2>3, StartPageTasks
<1>7. CASE AwaitReader(w)
  <2>1. Listed' = Listed /\ UNCHANGED listed
    BY <1>7 DEF AwaitReader, Listed
  <2>2. ASSUME NEW pc, NEW waitsFor, Moves(w, pc, waitsFor, thread[w].failed) PROVE QuietInv'
    BY <1>1, <2>1, <2>2, MovedErrors
  <2>3. ASSUME FailTo(w, job, TRUE), Moves(w, "unpin", 0, TRUE) PROVE QuietInv'
    <3>1. job'[j].cancelled = TRUE
      BY <1>2, <1>3, <2>1, <2>3, FailToAlike
    <3>2. QED  BY <1>1, <1>3, <1>4, <2>1, <2>3, <3>1, MovedErrors
  <2>4. QED  BY <1>7, <2>2, <2>3, AwaitReaderTasks
<1>8. CASE RemapReturns(w)
  <2>1. PICK i : i = thread[w].waitsFor
    OBVIOUS
  <2>2. TakeCompleted(i) \/ TakeCanceled(i)
    BY <1>8, <2>1 DEF RemapReturns
  <2>3. \A k \in DOMAIN job : k \in Listed /\ k \notin Listed' => ~job[k].cancelled \/ FuturesReady(k)
    BY <2>2, TakenReady
  <2>4. IsDone(i) /\ EraseJob(i) /\ i # j /\ Listed' = Listed \ {i}
    <3>1. IsDone(i) /\ EraseJob(i)
      BY <2>2 DEF TakeCompleted, TakeCanceled, MayComplete
    <3>2. i # j
      BY <1>4, <3>1 DEF IsDone
    <3>3. QED  BY <3>1, <3>2, ErasesJob
  <2>5. CASE Moves(w, "process", 0, thread[w].failed)
    BY <1>1, <2>3, <2>5, MovedErrors
  <2>6. CASE FailTo(w, Deleted(job, i), HasError(i)) /\ Moves(w, "unpin", 0, HasError(i))
    <3>1. PICK e : e = HasError(i)
      OBVIOUS
    <3>2. FailTo(w, Deleted(job, i), e) /\ Moves(w, "unpin", 0, e)
      BY <2>6, <3>1
    <3>3. job'[j].cancelled = TRUE
      BY <1>2, <1>3, <2>4, <3>2, RemapFailsAlike
    <3>4. QED  BY <1>1, <1>3, <1>4, <2>3, <2>4, <3>2, <3>3, MovedErrors
  <2>7. QED  BY <1>8, <2>1, <2>5, <2>6, RemapReturnsTasks
<1>9. QED  BY <1>5, <1>6, <1>7, <1>8

LEMMA OtherWorkersQuiet ==
  ASSUME TaskInv, QuietInv, NEW w \in Workers,
         \/ CancelPage(w) \/ CancelRemap(w) \/ RemapCanceled(w) \/ Sleep(w) \/ NextPage(w) \/ AbandonPages(w)
  PROVE  QuietInv'
<1>1. TaskInv' /\ JobsAlike /\ UNCHANGED queue
  BY CancelPageTasks, CancelRemapTasks, RemapCanceledTasks, SleepTasks, NextPageTasks, AbandonPagesTasks,
     WorkersAlike, Constants
     DEF CancelPage, CancelRemap, RemapCanceled, Sleep, NextPage, AbandonPages, jobVars
<1>2. \A k \in DOMAIN job : k \in Listed /\ k \notin Listed' => ~job[k].cancelled \/ FuturesReady(k)
  <2>1. CASE RemapCanceled(w)
    <3>1. PICK j : j = thread[w].waitsFor
      OBVIOUS
    <3>2. TakeCanceled(j)
      BY <2>1, <3>1 DEF RemapCanceled
    <3>3. QED  BY <3>2, TakenReady
  <2>2. CASE ~RemapCanceled(w)
    <3>1. UNCHANGED listed
      BY <2>2 DEF CancelPage, CancelRemap, Sleep, NextPage, AbandonPages, jobVars
    <3>2. QED  BY <3>1 DEF Listed
  <2>3. QED  BY <2>1, <2>2
<1>3. CASE CancelPage(w) \/ CancelRemap(w) \/ RemapCanceled(w)
  <2>1. ASSUME NEW pc, NEW waitsFor, Moves(w, pc, waitsFor, thread[w].failed) PROVE QuietInv'
    BY <1>1, <1>2, <2>1, MovedErrors
  <2>2. QED  BY <1>3, <2>1, CancelPageTasks, CancelRemapTasks, RemapCanceledTasks
<1>4. CASE Sleep(w) \/ NextPage(w) \/ AbandonPages(w)
  <2>1. /\ \A u \in Threads \ {w} : thread'[u] = thread[u]
        /\ thread'[w].job = thread[w].job /\ thread'[w].failed = thread[w].failed
    BY <1>4, NextPageTasks, AbandonPagesTasks DEF Sleep
  <2>2. DOMAIN job' = DOMAIN job /\ \A k \in DOMAIN job : ErrorsAlike(k)
    BY <1>1, AlikeErrors DEF JobsAlike
  <2>3. QED  BY <1>1, <1>2, <2>1, <2>2, WorkerErrors
<1>5. QED  BY <1>3, <1>4

LEMMA CountingQuiet ==
  ASSUME TaskInv, QuietInv, NEW w \in Workers, ProcessPage(w) \/ UnPinPage(w) \/ MarkJobAsDone(w)
  PROVE  QuietInv'
<1>1. TaskInv' /\ UNCHANGED <<queue, listed>> /\ Listed' = Listed /\ Shape /\ w \in Threads
      /\ ~At(w, "idle")
  BY ProcessPageTasks, UnPinPageTasks, MarkJobTasks, Constants
     DEF ProcessPage, UnPinPage, MarkJobAsDone, Listed, TaskInv
<1>2. PICK j : j = thread[w].job
  OBVIOUS
<1>3. j \in DOMAIN job /\ HasTask(w) /\ thread[w].failed \in BOOLEAN /\ thread[w].waitsFor \in Jobs \cup {0}
  BY <1>1, <1>2, WorkersPage DEF HasTask
<1>4. DOMAIN job' = DOMAIN job
  BY DEF ProcessPage, UnPinPage, MarkJobAsDone
<1>5. ASSUME NEW k \in DOMAIN job PROVE ErrorsAlike(k)
  <2>1. PICK q \in JobRecord : q = job[k]
    BY <1>1, <1>5, JobPlaces
  <2>2. PICK m, n, d : m = job'[k].given /\ n = job'[k].processed /\ d = TRUE
    OBVIOUS
  <2>3. \/ job'[k] = [q EXCEPT !.given = m] \/ job'[k] = [q EXCEPT !.processed = n]
        \/ job'[k] = [q EXCEPT !.done = d] \/ job'[k] = q
    BY <1>5, <2>1, <2>2, ProcessPageTasks, UnPinPageTasks, MarkJobTasks
  <2>4. /\ job'[k].single = q.single /\ job'[k].fails = q.fails
        /\ job'[k].cancelled = q.cancelled /\ job'[k].future = q.future
    BY <2>3 DEF JobRecord
  <2>5. QED  BY <1>1, <2>1, <2>4 DEF ErrorsAlike
<1>6. /\ \A u \in Threads \ {w} : thread'[u] = thread[u]
      /\ thread'[w].job = thread[w].job
      /\ thread'[w].failed => thread[w].failed \/ ~JobOf(w).single
  <2>1. ASSUME NEW pc, NEW failed, Moves(w, pc, thread[w].waitsFor, failed), failed => thread[w].failed \/ ~JobOf(w).single
        PROVE  /\ \A u \in Threads \ {w} : thread'[u] = thread[u]
               /\ thread'[w].job = thread[w].job
               /\ thread'[w].failed => thread[w].failed \/ ~JobOf(w).single
    BY <2>1 DEF Moves
  <2>2. CASE UnPinPage(w) \/ MarkJobAsDone(w)
    BY <2>1, <2>2, UnPinPageTasks, MarkJobTasks
  <2>3. CASE ProcessPage(w) /\ GoTo(w, "unpin")
    <3>1. Moves(w, "unpin", thread[w].waitsFor, thread[w].failed)
      BY <1>1, <1>3, <2>3, MoveOn DEF GoTo, WorkerPositions
    <3>2. QED  BY <2>1, <3>1
  <2>4. CASE ProcessPage(w) /\ ~GoTo(w, "unpin")
    <3>1. JobOf(w).fails /\ thread' = [thread EXCEPT ![w].pc = "unpin", ![w].failed = TRUE]
      BY <2>4 DEF ProcessPage
    <3>2. Moves(w, "unpin", thread[w].waitsFor, TRUE)
      BY <1>1, <1>3, <3>1, MoveOn DEF WorkerPositions
    <3>3. ~JobOf(w).single
      BY <1>2, <1>3, <3>1 DEF QuietInv, SingleJobs, JobOf
    <3>4. QED  BY <2>1, <3>2, <3>3
  <2>5. QED  BY <2>2, <2>3, <2>4
<1>7. \A k \in DOMAIN job : k \in Listed => k \in Listed'
  BY <1>1
<1>8. QED  BY <1>1, <1>3, <1>4, <1>5, <1>6, <1>7, WorkerErrors

LEMMA FinishTaskQuiet ==
  ASSUME TaskInv, QuietInv, NEW w \in Workers, FinishTask(w)
  PROVE  QuietInv'
<1>1. PICK j : j = thread[w].job
  OBVIOUS
<1>2. /\ TaskInv' /\ UNCHANGED <<queue, listed>> /\ Listed' = Listed /\ DOMAIN job' = DOMAIN job
      /\ ~At(w, "idle") /\ HasTask(w) /\ Shape
  BY FinishTaskTasks, WorkersPage DEF FinishTask, Listed, HasTask, TaskInv
<1>3. /\ \A v \in Threads \ {w} : thread'[v] = thread[v]
      /\ thread'[w].job = 0 /\ thread'[w].failed = FALSE
  BY FinishTaskTasks
<1>4. ASSUME NEW k \in DOMAIN job
      PROVE  /\ job'[k].single = job[k].single /\ job'[k].fails = job[k].fails
             /\ job'[k].cancelled = job[k].cancelled /\ (k # j => job'[k] = job[k])
  <2>1. PICK q \in JobRecord : q = job[k]
    BY <1>2, <1>4, JobPlaces
  <2>2. PICK f : f = job'[k].future
    OBVIOUS
  <2>3. job'[k] = [q EXCEPT !.future = f] /\ (k # j => job'[k] = q)
    BY <1>1, <1>4, <2>1, <2>2, FinishTaskTasks
  <2>4. job'[k].single = q.single /\ job'[k].fails = q.fails /\ job'[k].cancelled = q.cancelled
    BY <2>3 DEF JobRecord
  <2>5. QED  BY <2>1, <2>3, <2>4
<1>5. \A v \in Workers \ {w} : thread'[v] = thread[v]
  BY <1>3, Constants
<1>6. SingleCalls' /\ SingleJobs' /\ IdleFine'
  <2>1. \A t \in Clients : thread'[t] = thread[t]
    BY <1>3, Constants
  <2>2. SingleCalls'
    BY <2>1 DEF SingleCalls, QuietInv
  <2>3. SingleJobs'
    BY <1>2, <1>4 DEF SingleJobs, QuietInv
  <2>4. IdleFine'
    BY <1>3, <1>5 DEF IdleFine, QuietInv
  <2>5. QED  BY <2>2, <2>3, <2>4
<1>7. SingleErrors'
  <2>1. ASSUME NEW v \in Workers, HasTask(v)', JobOf(v)'.single
        PROVE  /\ thread'[v].job \in Listed' => JobOf(v)'.future = <<"none">>
               /\ thread'[v].failed => thread'[v].job \in Listed' /\ JobOf(v)'.cancelled
    <3>1. v # w /\ thread'[v] = thread[v] /\ HasTask(v)
      BY <1>3, <1>5, <2>1 DEF HasTask
    <3>2. PICK i : i = thread[v].job
      OBVIOUS
    <3>3. i \in DOMAIN job /\ job[i].single
      BY <1>4, <2>1, <3>1, <3>2 DEF JobOf, TaskInv, Worker
    <3>4. i # j
      BY <1>1, <1>2, <3>1, <3>2, <3>3 DEF TaskInv, OneRuns, JobOf
    <3>5. job'[i] = job[i]
      BY <1>4, <3>3, <3>4
    <3>6. /\ i \in Listed => job[i].future = <<"none">>
          /\ thread[v].failed => i \in Listed /\ job[i].cancelled
      BY <3>1, <3>2, <3>3 DEF QuietInv, SingleErrors, JobOf
    <3>7. QED  BY <1>2, <3>1, <3>2, <3>5, <3>6 DEF JobOf
  <2>2. QED  BY <2>1 DEF SingleErrors
<1>8. SingleQueued'
  <2>1. ASSUME NEW k \in DOMAIN queue, job'[queue[k].job].single, queue[k].job \in Listed'
        PROVE  job'[queue[k].job].future = <<"none">>
    <3>1. PICK i : i = queue[k].job
      OBVIOUS
    <3>2. i \in DOMAIN job /\ job[i].single
      BY <1>4, <2>1, <3>1 DEF TaskInv, InQueue
    <3>3. i # j
      BY <1>1, <1>2, <3>1, <3>2 DEF TaskInv, OneOrOther, JobOf
    <3>4. QED  BY <1>2, <1>4, <2>1, <3>1, <3>2, <3>3 DEF QuietInv, SingleQueued
  <2>2. QED  BY <1>2, <2>1 DEF SingleQueued
<1>9. QED  BY <1>6, <1>7, <1>8 DEF QuietInv

LEMMA TakeTaskQuiet ==
  ASSUME TaskInv, QuietInv, NEW w \in Workers, TakeTask(w)
  PROVE  QuietInv'
<1>1. /\ TaskInv' /\ UNCHANGED <<job, listed>> /\ Listed' = Listed /\ queue' = Tail(queue) /\ queue # <<>>
      /\ queue \in Seq(Task) /\ At(w, "idle")
  BY TakeTaskTasks DEF TakeTask, Listed, TaskInv, Shape
<1>2. /\ \A v \in Threads \ {w} : thread'[v] = thread[v]
      /\ thread'[w].pc = "page" /\ thread'[w].failed = thread[w].failed
      /\ thread'[w].job = queue[1].job
  BY TakeTaskTasks
<1>3. ~thread[w].failed
  BY <1>1 DEF QuietInv, IdleFine
<1>4. \A v \in Workers \ {w} : thread'[v] = thread[v]
  BY <1>2, Constants
<1>5. 1 \in DOMAIN queue /\ \A k \in DOMAIN queue' : k + 1 \in DOMAIN queue /\ queue'[k] = queue[k + 1]
  BY <1>1
<1>6. SingleCalls' /\ SingleJobs' /\ IdleFine'
  <2>1. \A t \in Clients : thread'[t] = thread[t]
    BY <1>2, Constants
  <2>2. SingleCalls'
    BY <2>1 DEF SingleCalls, QuietInv
  <2>3. SingleJobs'
    BY <1>1 DEF SingleJobs, QuietInv
  <2>4. IdleFine'
    BY <1>2, <1>4 DEF IdleFine, QuietInv
  <2>5. QED  BY <2>2, <2>3, <2>4
<1>7. SingleErrors'
  <2>1. ASSUME NEW v \in Workers, HasTask(v)', JobOf(v)'.single
        PROVE  /\ thread'[v].job \in Listed' => JobOf(v)'.future = <<"none">>
               /\ thread'[v].failed => thread'[v].job \in Listed' /\ JobOf(v)'.cancelled
    <3>1. CASE v = w
      BY <1>1, <1>2, <1>3, <1>5, <2>1, <3>1 DEF QuietInv, SingleQueued, JobOf
    <3>2. CASE v # w
      BY <1>1, <1>4, <2>1, <3>2 DEF QuietInv, SingleErrors, JobOf, HasTask
    <3>3. QED  BY <3>1, <3>2
  <2>2. QED  BY <2>1 DEF SingleErrors
<1>8. SingleQueued'
  <2>1. ASSUME NEW k \in DOMAIN queue', job'[queue'[k].job].single, queue'[k].job \in Listed'
        PROVE  job'[queue'[k].job].future = <<"none">>
    BY <1>1, <1>5, <2>1 DEF QuietInv, SingleQueued
  <2>2. QED  BY <2>1 DEF SingleQueued
<1>9. QED  BY <1>6, <1>7, <1>8 DEF QuietInv

\* The steps of clients that add no job, and those of nobody in particular.
LEMMA ClientSteps ==
  ASSUME TaskInv,
         \/ \E t \in Clients :
              \/ \E r \in Requests[t] : RequestData(t, r)
              \/ \E j \in owned[t] : IsCompleted(t, j) \/ IsCanceled(t, j) \/ Cancel(t, j)
                                     \/ WaitForCompletion(t, j)
              \/ FindAccessor(t) \/ EnsureMaxPages(t) \/ PrepareReadPage(t) \/ PrepareRefused(t)
              \/ AddRemapJob(t) \/ Waiting(t)
         \/ (\E x \in Accessors : CleanUp(x)) \/ Close \/ CloseNext \/ UNCHANGED vars
  PROVE  /\ TaskInv' /\ JobsAlike /\ UNCHANGED queue /\ \A w \in Workers : thread'[w] = thread[w]
         /\ \A k \in DOMAIN job : k \in Listed /\ k \notin Listed' => ~job[k].cancelled \/ FuturesReady(k)
<1>1. JobsAlike
  BY ClientsAlike
<1>2. ASSUME NEW t \in Clients,
             \/ \E r \in Requests[t] : RequestData(t, r)
             \/ \E j \in owned[t] : IsCompleted(t, j) \/ IsCanceled(t, j) \/ Cancel(t, j)
                                    \/ WaitForCompletion(t, j)
             \/ FindAccessor(t) \/ EnsureMaxPages(t) \/ PrepareReadPage(t) \/ PrepareRefused(t)
             \/ AddRemapJob(t) \/ Waiting(t)
      PROVE  TaskInv' /\ UNCHANGED queue /\ \A w \in Workers : thread'[w] = thread[w]
  <2>1. t \in Threads /\ t \notin Workers
    BY Constants
  <2>2. TaskInv'
    BY <1>2, RequestDataTasks, AskingTasks, AddingTasks DEF Adding
  <2>3. UNCHANGED queue
    BY <1>2 DEF RequestData, IsCompleted, IsCanceled, Cancel, WaitForCompletion, FindAccessor, EnsureMaxPages,
                PrepareReadPage, PrepareRefused, AddRemapJob, Waiting, Sleep, WaitReturns, jobVars
  <2>4. CASE \E j \in owned[t] : IsCompleted(t, j) \/ IsCanceled(t, j) \/ Cancel(t, j)
    BY <2>2, <2>3, <2>4 DEF IsCompleted, IsCanceled, Cancel
  <2>5. CASE Sleep(t)
    BY <2>2, <2>3, <2>5 DEF Sleep
  <2>6. CASE (\E j \in owned[t] : WaitForCompletion(t, j)) \/ FindAccessor(t) \/ EnsureMaxPages(t) \/ WaitReturns(t)
    <3>1. \A u \in Threads \ {t} : thread'[u] = thread[u]
      BY <2>6, WaitsTasks, FindAccessorTasks, EnsureMaxPagesTasks, WaitReturnsTasks DEF Moves
    <3>2. QED  BY <2>1, <2>2, <2>3, <3>1, Constants
  <2>7. CASE (\E r \in Requests[t] : RequestData(t, r)) \/ PrepareReadPage(t) \/ PrepareRefused(t) \/ AddRemapJob(t)
    <3>1. \A u \in Threads \ {t} : thread'[u] = thread[u]
      BY <2>7, RequestDataTasks, PreparePageTasks, PrepareRefusedTasks, AddRemapJobTasks
    <3>2. QED  BY <2>1, <2>2, <2>3, <3>1, Constants
  <2>8. QED  BY <1>2, <2>4, <2>5, <2>6, <2>7 DEF Waiting
<1>3. ASSUME (\E x \in Accessors : CleanUp(x)) \/ Close \/ CloseNext \/ UNCHANGED vars
      PROVE  TaskInv' /\ UNCHANGED queue /\ \A w \in Workers : thread'[w] = thread[w]
  <2>1. TaskInv'
    BY <1>3, CleanUpTasks, CloseTasks, CloseNextTasks, StutterTasks
  <2>2. CASE \E x \in Accessors : CleanUp(x)
    BY <2>1, <2>2 DEF CleanUp, jobVars
  <2>3. CASE Close
    BY <2>1, <2>3 DEF Close, jobVars
  <2>4. CASE CloseNext
    BY <2>1, <2>4 DEF CloseNext, jobVars
  <2>5. CASE UNCHANGED vars
    BY <2>1, <2>5 DEF vars, jobVars
  <2>6. QED  BY <1>3, <2>1, <2>2, <2>3, <2>4, <2>5
<1>4. TaskInv' /\ UNCHANGED queue /\ \A w \in Workers : thread'[w] = thread[w]
  BY <1>2, <1>3
<1>5. ASSUME NEW k \in DOMAIN job, k \in Listed, k \notin Listed' PROVE ~job[k].cancelled \/ FuturesReady(k)
  <2>1. ~UNCHANGED listed
    BY <1>5 DEF Listed
  <2>2. PICK t \in Clients : (\E j \in owned[t] : IsCompleted(t, j) \/ IsCanceled(t, j)) \/ WaitReturns(t)
    <3>1. ~((\E x \in Accessors : CleanUp(x)) \/ Close \/ CloseNext \/ UNCHANGED vars)
      BY <2>1 DEF CleanUp, Close, CloseNext, vars, jobVars
    <3>2. PICK t \in Clients :
            \/ \E r \in Requests[t] : RequestData(t, r)
            \/ \E j \in owned[t] : IsCompleted(t, j) \/ IsCanceled(t, j) \/ Cancel(t, j)
                                   \/ WaitForCompletion(t, j)
            \/ FindAccessor(t) \/ EnsureMaxPages(t) \/ PrepareReadPage(t) \/ PrepareRefused(t)
            \/ AddRemapJob(t) \/ Waiting(t)
      BY <3>1
    <3>3. ~\E r \in Requests[t] : RequestData(t, r)
      BY <2>1 DEF RequestData, jobVars
    <3>4. ~\E j \in owned[t] : Cancel(t, j) \/ WaitForCompletion(t, j)
      BY <2>1 DEF Cancel, WaitForCompletion, jobVars
    <3>5. ~(FindAccessor(t) \/ EnsureMaxPages(t) \/ PrepareReadPage(t) \/ PrepareRefused(t) \/ AddRemapJob(t))
      BY <2>1 DEF FindAccessor, EnsureMaxPages, PrepareReadPage, PrepareRefused, AddRemapJob, jobVars
    <3>6. ~Sleep(t)
      BY <2>1 DEF Sleep, jobVars
    <3>7. QED  BY <3>2, <3>3, <3>4, <3>5, <3>6 DEF Waiting
  <2>3. \E j : TakeCompleted(j) \/ TakeCanceled(j)
    BY <2>1, <2>2 DEF IsCompleted, IsCanceled, WaitReturns
  <2>4. QED  BY <1>5, <2>3, TakenReady
<1>6. QED  BY <1>1, <1>4, <1>5

LEMMA ClientsQuiet ==
  ASSUME OneBitSucceeds, TaskInv, QuietInv,
         \/ \E t \in Clients :
              \/ \E r \in Requests[t] : RequestData(t, r)
              \/ \E j \in owned[t] : IsCompleted(t, j) \/ IsCanceled(t, j) \/ Cancel(t, j)
                                     \/ WaitForCompletion(t, j)
              \/ FindAccessor(t) \/ EnsureMaxPages(t) \/ PrepareReadPage(t) \/ PrepareRefused(t)
              \/ AddRemapJob(t) \/ Waiting(t)
         \/ (\E x \in Accessors : CleanUp(x)) \/ Close \/ CloseNext \/ UNCHANGED vars
  PROVE  QuietInv'
<1>1. /\ TaskInv' /\ JobsAlike /\ UNCHANGED queue /\ \A w \in Workers : thread'[w] = thread[w]
      /\ \A k \in DOMAIN job : k \in Listed /\ k \notin Listed' => ~job[k].cancelled \/ FuturesReady(k)
  BY ClientSteps
<1>2. SingleJobs' /\ SingleErrors' /\ SingleQueued' /\ IdleFine'
  <2>1. DOMAIN job' = DOMAIN job /\ \A k \in DOMAIN job : ErrorsAlike(k)
    BY <1>1, AlikeErrors DEF JobsAlike
  <2>2. QED  BY <1>1, <2>1, ErrorsStay
<1>3. ASSUME NEW t \in Clients, \A u \in Threads \ {t} : thread'[u] = thread[u],
             thread'[t].pc \in InCall /\ thread'[t].request.single => ~thread'[t].request.fails
      PROVE  SingleCalls'
  <2>1. \A u \in Clients \ {t} : thread'[u] = thread[u]
    BY <1>3, Constants
  <2>2. QED  BY <1>3, <2>1 DEF QuietInv, SingleCalls
<1>4. ASSUME UNCHANGED thread PROVE SingleCalls'
  BY <1>4 DEF QuietInv, SingleCalls
<1>5. ASSUME NEW t \in Clients,
             \/ \E r \in Requests[t] : RequestData(t, r)
             \/ \E j \in owned[t] : IsCompleted(t, j) \/ IsCanceled(t, j) \/ Cancel(t, j)
                                    \/ WaitForCompletion(t, j)
             \/ FindAccessor(t) \/ EnsureMaxPages(t) \/ PrepareReadPage(t) \/ PrepareRefused(t)
             \/ AddRemapJob(t) \/ Waiting(t)
      PROVE  SingleCalls'
  <2>1. CASE \E r \in Requests[t] : RequestData(t, r)
    <3>1. PICK r \in Requests[t] : RequestData(t, r)
      BY <2>1
    <3>2. thread'[t].request = r /\ \A u \in Threads \ {t} : thread'[u] = thread[u]
      BY <3>1, RequestDataTasks
    <3>3. r.single => ~r.fails
      BY DEF OneBitSucceeds
    <3>4. QED  BY <1>3, <3>2, <3>3
  <2>2. CASE (\E j \in owned[t] : IsCompleted(t, j) \/ IsCanceled(t, j) \/ Cancel(t, j)) \/ Sleep(t)
    BY <1>4, <2>2 DEF IsCompleted, IsCanceled, Cancel, Sleep
  <2>3. CASE (\E j \in owned[t] : WaitForCompletion(t, j)) \/ WaitReturns(t)
    <3>1. thread'[t].pc \notin InCall /\ \A u \in Threads \ {t} : thread'[u] = thread[u]
      BY <2>3, WaitsTasks, WaitReturnsTasks DEF Moves, InCall
    <3>2. QED  BY <1>3, <3>1
  <2>4. CASE FindAccessor(t) \/ EnsureMaxPages(t)
    <3>1. thread[t].pc \in InCall /\ thread'[t].request = thread[t].request
          /\ \A u \in Threads \ {t} : thread'[u] = thread[u]
      BY <2>4, FindAccessorTasks, EnsureMaxPagesTasks DEF Moves, FindAccessor, EnsureMaxPages, InCall
    <3>2. QED  BY <1>3, <3>1 DEF QuietInv, SingleCalls
  <2>5. CASE PrepareReadPage(t) \/ PrepareRefused(t)
    <3>1. thread[t].pc \in InCall /\ thread'[t].request = thread[t].request
          /\ \A u \in Threads \ {t} : thread'[u] = thread[u]
      BY <2>5, PreparePageTasks, PrepareRefusedTasks DEF InCall
    <3>2. QED  BY <1>3, <3>1 DEF QuietInv, SingleCalls
  <2>6. CASE AddRemapJob(t)
    <3>1. thread'[t].outer # NoFrame /\ \A u \in Threads \ {t} : thread'[u] = thread[u]
      BY <2>6, AddRemapJobTasks
    <3>2. ~thread'[t].request.single
      BY <1>1, <3>1 DEF TaskInv, Calls, Outer
    <3>3. QED  BY <1>3, <3>1, <3>2
  <2>7. QED  BY <1>5, <2>1, <2>2, <2>3, <2>4, <2>5, <2>6 DEF Waiting
<1>6. SingleCalls'
  <2>1. CASE (\E x \in Accessors : CleanUp(x)) \/ Close \/ CloseNext \/ UNCHANGED vars
    BY <1>4, <2>1 DEF CleanUp, Close, CloseNext, vars
  <2>2. QED  BY <1>5, <2>1
<1>7. QED  BY <1>2, <1>6 DEF QuietInv

LEMMA AddJobQuiet ==
  ASSUME TaskInv, QuietInv, NEW t \in Clients, AddJob(t)
  PROVE  QuietInv'
<1>1. PICK j : j = Len(job) + 1
  OBVIOUS
<1>2. TaskInv' /\ JobAdded(t, j) /\ j \in Jobs /\ At(t, "enqueue")
  BY <1>1, AddJobTasks DEF AddJob
<1>3. PICK r \in JobRecord, T \in Seq(Task) : AddsTasks(j, r, T) /\ JobOfCall(t, r, T)
  BY <1>1, AddJobTasks
<1>4. /\ DOMAIN job' = DOMAIN job \cup {j} /\ j \notin DOMAIN job /\ job'[j] = r
      /\ \A i \in DOMAIN job : job'[i] = job[i]
      /\ Listed' = Listed \cup {j}
      /\ \A k \in DOMAIN queue' :
              \/ k \in DOMAIN queue /\ queue'[k] = queue[k]
              \/ \E l \in DOMAIN T : k = Len(queue) + l /\ queue'[k] = T[l]
  BY <1>3 DEF AddsTasks
<1>5. /\ \A u \in Threads \ {t} : thread'[u] = thread[u]
      /\ \A w \in Workers : thread'[w] = thread[w]
      /\ thread[t].outer # NoFrame => thread'[t].request = thread[t].outer.request
      /\ thread[t].outer = NoFrame => thread'[t].pc = "idle"
  BY <1>2, CallReturns
<1>6. SingleJobs'
  <2>1. r.single => ~r.fails
    BY <1>2, <1>3 DEF QuietInv, SingleCalls, InCall, JobOfCall
  <2>2. QED  BY <1>4, <2>1 DEF QuietInv, SingleJobs
<1>7. SingleCalls'
  <2>1. \A u \in Clients \ {t} : thread'[u] = thread[u]
    BY <1>5, Constants
  <2>2. CASE thread[t].outer = NoFrame
    BY <1>5, <2>1, <2>2 DEF QuietInv, SingleCalls, InCall
  <2>3. CASE thread[t].outer # NoFrame
    <3>1. PICK q : q = thread[t].outer.request
      OBVIOUS
    <3>2. Proper(q) /\ Targets(q)
      BY <2>3, <3>1, ClientsCall DEF Outer
    <3>3. ~q.single
      <4>1. q.chunks \in Seq(Chunks) /\ q.chunks # <<>>
        BY <3>2 DEF Proper, Request
      <4>2. 1 \in 1 .. Len(q.chunks)
        BY <4>1
      <4>3. q.chunks[1] \in TargetChunks /\ q.chunks[1] \notin SourceChunks
        BY <3>2, <4>2, Constants DEF Targets
      <4>4. ~Sources(q)
        BY <4>2, <4>3 DEF Sources
      <4>5. QED  BY <3>2, <4>4 DEF Proper
    <3>4. QED  BY <1>5, <2>1, <2>3, <3>1, <3>3 DEF QuietInv, SingleCalls
  <2>4. QED  BY <2>2, <2>3
<1>8. SingleErrors' /\ IdleFine'
  <2>1. ASSUME NEW v \in Workers, HasTask(v)', JobOf(v)'.single
        PROVE  /\ thread'[v].job \in Listed' => JobOf(v)'.future = <<"none">>
               /\ thread'[v].failed => thread'[v].job \in Listed' /\ JobOf(v)'.cancelled
    <3>1. PICK i : i = thread[v].job
      OBVIOUS
    <3>2. thread'[v] = thread[v] /\ HasTask(v) /\ i \in DOMAIN job
      BY <1>5, <2>1, <3>1 DEF HasTask, TaskInv, Worker
    <3>3. job'[i] = job[i] /\ (i \in Listed' <=> i \in Listed)
      BY <1>4, <3>2
    <3>4. /\ i \in Listed => job[i].future = <<"none">>
          /\ thread[v].failed => i \in Listed /\ job[i].cancelled
      BY <2>1, <3>1, <3>2, <3>3 DEF QuietInv, SingleErrors, JobOf
    <3>5. QED  BY <3>1, <3>2, <3>3, <3>4 DEF JobOf
  <2>2. SingleErrors'
    BY <2>1 DEF SingleErrors
  <2>3. IdleFine'
    BY <1>5 DEF QuietInv, IdleFine
  <2>4. QED  BY <2>2, <2>3
<1>9. SingleQueued'
  <2>1. ASSUME NEW k \in DOMAIN queue', job'[queue'[k].job].single, queue'[k].job \in Listed'
        PROVE  job'[queue'[k].job].future = <<"none">>
    <3>1. CASE k \in DOMAIN queue /\ queue'[k] = queue[k]
      <4>1. PICK i : i = queue[k].job
        OBVIOUS
      <4>2. i \in DOMAIN job
        BY <3>1, <4>1 DEF TaskInv, InQueue
      <4>3. job'[i] = job[i] /\ (i \in Listed' <=> i \in Listed)
        BY <1>4, <4>2
      <4>4. QED  BY <2>1, <3>1, <4>1, <4>3 DEF QuietInv, SingleQueued
    <3>2. CASE \E l \in DOMAIN T : k = Len(queue) + l /\ queue'[k] = T[l]
      <4>1. PICK l \in DOMAIN T : queue'[k] = T[l]
        BY <3>2
      <4>2. ~thread[t].refused /\ T = Tasks(Len(job) + 1, Len(r.pages), r.single)
        BY <1>3, <4>1 DEF JobOfCall
      <4>3. T[l].job = j
        <5>1. PICK n, single : n = Len(r.pages) /\ single = r.single
          OBVIOUS
        <5>2. n \in Nat /\ single \in BOOLEAN
          BY <5>1 DEF JobRecord
        <5>3. T = Tasks(j, n, single)
          BY <1>1, <4>2, <5>1
        <5>4. QED  BY <1>2, <4>1, <5>2, <5>3, TaskSequence
      <4>4. r.single => r.future = <<"none">>
        BY <1>3, <4>2 DEF JobOfCall
      <4>5. QED  BY <1>4, <2>1, <4>1, <4>3, <4>4
    <3>3. QED  BY <1>4, <2>1, <3>1, <3>2
  <2>2. QED  BY <2>1 DEF SingleQueued
<1>10. QED  BY <1>6, <1>7, <1>8, <1>9 DEF QuietInv

-----------------------------------------------------------------------------
LEMMA InitQuiet ==
  ASSUME Init
  PROVE  QuietInv
<1>1. job = <<>> /\ queue = <<>>
      /\ \A t \in Threads : thread[t].pc = "idle" /\ thread[t].job = 0 /\ ~thread[t].failed
  BY DEF Init
<1>2. DOMAIN job = {} /\ DOMAIN queue = {}
  BY <1>1
<1>3. \A t \in Clients \cup Workers : t \in Threads
  BY Constants
<1>4. QED
  BY <1>1, <1>2, <1>3
     DEF QuietInv, SingleCalls, SingleJobs, SingleErrors, SingleQueued, IdleFine, InCall, HasTask

LEMMA NextQuiet ==
  ASSUME OneBitSucceeds, TaskInv, QuietInv, [Next]_vars
  PROVE  QuietInv'
<1>1. ASSUME NEW w \in Workers, Working(w) PROVE QuietInv'
  BY <1>1, ReadingQuiet, OtherWorkersQuiet, CountingQuiet, FinishTaskQuiet, TakeTaskQuiet DEF Working
<1>2. ASSUME NEW t \in Clients,
             \/ \E r \in Requests[t] : RequestData(t, r)
             \/ \E j \in owned[t] : IsCompleted(t, j) \/ IsCanceled(t, j) \/ Cancel(t, j)
                                    \/ WaitForCompletion(t, j)
             \/ Adding(t) \/ Waiting(t)
      PROVE  QuietInv'
  <2>1. CASE AddJob(t)
    BY <2>1, AddJobQuiet
  <2>2. CASE ~AddJob(t)
    BY <1>2, <2>2, ClientsQuiet DEF Adding
  <2>3. QED  BY <2>1, <2>2
<1>3. CASE (\E x \in Accessors : CleanUp(x)) \/ Close \/ CloseNext \/ UNCHANGED vars
  BY <1>3, ClientsQuiet
<1>4. QED  BY <1>1, <1>2, <1>3 DEF Next

\* A job that was taken out of the list, and so is deleted, has no task in the
\* queue and no worker that will read it again: the workers and the clients
\* share a job without counting its owners.  Of 1-bit requests this holds
\* because their processor never fails.
THEOREM TakenOutStaysQuiet ==
  ASSUME OneBitSucceeds
  PROVE  Spec => []TakenOutIsQuiet
<1>1. QuietInv /\ TaskInv /\ [Next]_vars => QuietInv'
  BY NextQuiet
<1>2. TaskInv /\ QuietInv => TakenOutIsQuiet
  BY QuietTaken
<1>3. QED  BY <1>1, <1>2, InitQuiet, TaskInvariance, PTL DEF Spec
-----------------------------------------------------------------------------
(* Pages and pins.                                                         *)

JobClaims(c)  == UNION {{j} \X PinnedPages(j, c) : j \in DOMAIN job}
CallClaims(c) == UNION {{t} \X PreparedBy(t, c) : t \in Clients}

LEMMA FiniteClaims ==
  ASSUME NEW S, IsFiniteSet(S), NEW F, \A x \in S : IsFiniteSet(F[x])
  PROVE  IsFiniteSet(UNION {{x} \X F[x] : x \in S})
<1> DEFINE f == [x \in S |-> {x} \X F[x]]
           T == {{x} \X F[x] : x \in S}
<1>1. f \in Surjection(S, T)
  BY DEF Surjection
<1>2. IsFiniteSet(T)
  BY <1>1, FS_Surjection
<1>3. ASSUME NEW x \in S PROVE IsFiniteSet({x} \X F[x])
  BY <1>3, FS_Singleton, FS_Product
<1>4. QED  BY <1>2, <1>3, FS_UNION

LEMMA SingleCount ==
  ASSUME NEW x, NEW S, IsFiniteSet(S)
  PROVE  /\ IsFiniteSet({x} \X S) /\ Cardinality({x} \X S) = Cardinality(S)
         /\ Cardinality(S) \in Nat
<1>1. IsFiniteSet({x}) /\ Cardinality({x}) = 1
  BY FS_Singleton
<1>2. Cardinality(S) \in Nat
  BY FS_CardinalityType
<1>3. IsFiniteSet({x} \X S) /\ Cardinality({x} \X S) = Cardinality({x}) * Cardinality(S)
  BY <1>1, FS_Product
<1>4. QED  BY <1>1, <1>2, <1>3

\* The positions of a sequence that hold c.
LEMMA PositionsFinite ==
  ASSUME NEW S, NEW s \in Seq(S), NEW c
  PROVE  /\ IsFiniteSet({i \in DOMAIN s : s[i] = c}) /\ IsFiniteSet(DOMAIN s)
         /\ Cardinality({i \in DOMAIN s : s[i] = c}) \in Nat
<1>1. DOMAIN s = 1 .. Len(s) /\ Len(s) \in Nat
  OBVIOUS
<1>2. IsFiniteSet(DOMAIN s)
  BY <1>1, FS_Interval
<1>3. IsFiniteSet({i \in DOMAIN s : s[i] = c})
  BY <1>2, FS_Subset
<1>4. QED  BY <1>2, <1>3, FS_CardinalityType

LEMMA JobClaimsOf ==
  ASSUME TaskInv, NEW c
  PROVE  /\ IsFiniteSet(JobClaims(c)) /\ Cardinality(JobClaims(c)) \in Nat
         /\ \A j \in DOMAIN job : PinnedPages(j, c) = {i \in Pending(j) : job[j].pages[i] = c}
         /\ JobClaims(c) = {p \in (DOMAIN job) \X Nat : p[2] \in Pending(p[1]) /\ job[p[1]].pages[p[2]] = c}
<1>1. \A j \in DOMAIN job : PinnedPages(j, c) = {i \in Pending(j) : job[j].pages[i] = c}
  BY DEF PinnedPages, Pending
<1>2. DOMAIN job = 1 .. Len(job) /\ Len(job) \in Nat
      /\ \A j \in DOMAIN job : DOMAIN job[j].pages = 1 .. Len(job[j].pages) /\ Len(job[j].pages) \in Nat
  BY JobPlaces DEF TaskInv
<1>3. \A j \in DOMAIN job : Pending(j) \subseteq 1 .. Len(job[j].pages) /\ Pending(j) \subseteq Nat
  BY <1>2 DEF Pending
<1>4. JobClaims(c) = {p \in (DOMAIN job) \X Nat : p[2] \in Pending(p[1]) /\ job[p[1]].pages[p[2]] = c}
  <2>1. ASSUME NEW p \in JobClaims(c)
        PROVE  p \in (DOMAIN job) \X Nat /\ p[2] \in Pending(p[1]) /\ job[p[1]].pages[p[2]] = c
    <3>1. PICK j \in DOMAIN job : p \in {j} \X PinnedPages(j, c)
      BY <2>1 DEF JobClaims
    <3>2. PICK i \in PinnedPages(j, c) : p = <<j, i>>
      BY <3>1
    <3>3. i \in Pending(j) /\ job[j].pages[i] = c /\ i \in Nat
      BY <1>1, <1>3, <3>2
    <3>4. QED  BY <3>2, <3>3
  <2>2. ASSUME NEW p \in (DOMAIN job) \X Nat, p[2] \in Pending(p[1]), job[p[1]].pages[p[2]] = c
        PROVE  p \in JobClaims(c)
    <3>1. PICK j \in DOMAIN job, i \in Nat : p = <<j, i>>
      BY <2>2
    <3>2. i \in PinnedPages(j, c)
      BY <1>1, <2>2, <3>1
    <3>3. p \in {j} \X PinnedPages(j, c)
      BY <3>1, <3>2
    <3>4. QED  BY <3>3 DEF JobClaims
  <2>3. QED  BY <2>1, <2>2
<1>5. IsFiniteSet(JobClaims(c))
  <2> DEFINE F == [j \in DOMAIN job |-> PinnedPages(j, c)]
  <2>1. IsFiniteSet(DOMAIN job)
    BY <1>2, FS_Interval
  <2>2. ASSUME NEW j \in DOMAIN job PROVE IsFiniteSet(F[j])
    <3>0. PICK n \in Int : n = Len(job[j].pages)
      BY <1>2
    <3>1. IsFiniteSet(1 .. Len(job[j].pages))
      BY <3>0, FS_Interval
    <3>2. PinnedPages(j, c) \in SUBSET (1 .. Len(job[j].pages))
      BY <1>1, <1>3
    <3>3. QED  BY <3>1, <3>2, FS_Subset
  <2>3. JobClaims(c) = UNION {{j} \X F[j] : j \in DOMAIN job}
    BY DEF JobClaims
  <2>4. IsFiniteSet(UNION {{j} \X F[j] : j \in DOMAIN job})
    <3> HIDE DEF F
    <3>1. QED  BY <2>1, <2>2, FiniteClaims
  <2>5. QED  BY <2>3, <2>4
<1>6. QED  BY <1>1, <1>4, <1>5, FS_CardinalityType

LEMMA PreparedFinite ==
  ASSUME NEW t, OwnPages(t) \in Seq(Chunks), RemapPages(t) \in Seq(Chunks), NEW c
  PROVE  IsFiniteSet(PreparedBy(t, c))
<1>1. IsFiniteSet({i \in DOMAIN OwnPages(t) : OwnPages(t)[i] = c})
      /\ IsFiniteSet({i \in DOMAIN RemapPages(t) : RemapPages(t)[i] = c})
  BY PositionsFinite
<1>2. QED  BY <1>1, SingleCount, FS_Union DEF PreparedBy

LEMMA CallClaimsOf ==
  ASSUME TaskInv, NEW c
  PROVE  /\ IsFiniteSet(CallClaims(c)) /\ Cardinality(CallClaims(c)) \in Nat
         /\ \A t \in Clients : OwnPages(t) \in Seq(Chunks) /\ RemapPages(t) \in Seq(Chunks)
                               /\ IsFiniteSet(PreparedBy(t, c))
<1>1. ASSUME NEW t \in Clients
      PROVE  OwnPages(t) \in Seq(Chunks) /\ RemapPages(t) \in Seq(Chunks)
  <2>1. thread[t].pages \in Seq(Chunks) /\ Outer(t) /\ thread[t] \in ThreadRecord
    BY ClientsCall
  <2>2. RemapPages(t) \in Seq(Chunks)
    BY <2>1 DEF RemapPages
  <2>3. CASE thread[t].outer = NoFrame
    BY <2>1, <2>2, <2>3 DEF OwnPages
  <2>4. CASE thread[t].outer # NoFrame
    <3>1. PICK o : o = thread[t].outer
      OBVIOUS
    <3>2. o \in Frame /\ Len(o.pages) < Len(o.request.chunks)
      BY <2>1, <2>4, <3>1 DEF Outer, ThreadRecord
    <3>3. o.pages \in Seq(Chunks) /\ o.request.chunks \in Seq(Chunks)
      BY <3>2 DEF Frame, Request
    <3>4. Len(o.pages) + 1 \in 1 .. Len(o.request.chunks)
      BY <3>2, <3>3
    <3>5. o.request.chunks[Len(o.pages) + 1] \in Chunks
      BY <3>3, <3>4
    <3>6. OwnPages(t) = Append(o.pages, o.request.chunks[Len(o.pages) + 1])
      BY <2>4, <3>1 DEF OwnPages, RemapTarget
    <3>7. QED  BY <2>2, <3>3, <3>5, <3>6
  <2>5. QED  BY <2>3, <2>4
<1>2. \A t \in Clients : IsFiniteSet(PreparedBy(t, c))
  BY <1>1, PreparedFinite
<1>3. IsFiniteSet(Clients)
  BY Constants
<1>4. IsFiniteSet(CallClaims(c))
  <2> DEFINE F == [t \in Clients |-> PreparedBy(t, c)]
  <2>1. \A t \in Clients : IsFiniteSet(F[t])
    BY <1>2
  <2>2. CallClaims(c) = UNION {{t} \X F[t] : t \in Clients}
    BY DEF CallClaims
  <2>3. IsFiniteSet(UNION {{t} \X F[t] : t \in Clients})
    <3> HIDE DEF F
    <3>1. QED  BY <1>3, <2>1, FiniteClaims
  <2>4. QED  BY <2>2, <2>3
<1>5. QED  BY <1>1, <1>2, <1>4, FS_CardinalityType

LEMMA CountLess ==
  ASSUME NEW A, IsFiniteSet(A), NEW B, B \subseteq A
  PROVE  /\ IsFiniteSet(A \ B) /\ IsFiniteSet(B)
         /\ Cardinality(A) \in Nat /\ Cardinality(B) \in Nat
         /\ Cardinality(A \ B) = Cardinality(A) - Cardinality(B)
<1>1. IsFiniteSet(B) /\ IsFiniteSet(A \ B)
  BY FS_Subset
<1>2. A \cap B = B
  OBVIOUS
<1>3. Cardinality(A \ B) = Cardinality(A) - Cardinality(A \cap B)
  BY FS_Difference
<1>4. QED  BY <1>1, <1>2, <1>3, FS_CardinalityType

LEMMA CountMore ==
  ASSUME NEW A, IsFiniteSet(A), NEW B, IsFiniteSet(B), A \cap B = {}
  PROVE  /\ IsFiniteSet(A \cup B) /\ Cardinality(A) \in Nat /\ Cardinality(B) \in Nat
         /\ Cardinality(A \cup B) = Cardinality(A) + Cardinality(B)
<1>1. Cardinality(A) \in Nat /\ Cardinality(B) \in Nat
  BY FS_CardinalityType
<1>2. Cardinality(A \cup B) = Cardinality(A) + Cardinality(B) - Cardinality(A \cap B)
      /\ IsFiniteSet(A \cup B)
  BY FS_Union
<1>3. Cardinality(A \cap B) = 0
  BY FS_EmptySet
<1>4. QED  BY <1>1, <1>2, <1>3

LEMMA ExactPins ==
  PinsExact <=> \A c \in Chunks : pins[c] = Cardinality(JobClaims(c)) + Cardinality(CallClaims(c))
BY DEF PinsExact, JobClaims, CallClaims

LEMMA ExactPinsNext ==
  PinsExact' <=> \A c \in Chunks : pins'[c] = Cardinality(JobClaims(c)') + Cardinality(CallClaims(c)')
BY DEF PinsExact, JobClaims, CallClaims

LEMMA ClaimIn ==
  ASSUME NEW c, NEW p
  PROVE  p \in JobClaims(c) <=>
           \E j \in DOMAIN job : \E i \in Pending(j) : job[j].pages[i] = c /\ p = <<j, i>>
<1>1. \A j : PinnedPages(j, c) = {i \in Pending(j) : job[j].pages[i] = c}
  BY DEF PinnedPages, Pending
<1>2. p \in JobClaims(c) <=> \E j \in DOMAIN job : p \in {j} \X PinnedPages(j, c)
  BY DEF JobClaims
<1>3. QED  BY <1>1, <1>2

LEMMA ClaimNext ==
  ASSUME NEW c, NEW p
  PROVE  p \in JobClaims(c)' <=>
           \E j \in DOMAIN job' : \E i \in Pending(j)' : job'[j].pages[i] = c /\ p = <<j, i>>
<1>1. \A j : PinnedPages(j, c)' = {i \in Pending(j)' : job'[j].pages[i] = c}
  BY DEF PinnedPages, Pending
<1>2. p \in JobClaims(c)' <=> \E j \in DOMAIN job' : p \in {j} \X PinnedPages(j, c)'
  BY DEF JobClaims
<1>3. QED  BY <1>1, <1>2

\* Pages L of job j, all with chunk c, are given back.
LEMMA ClaimsLeft ==
  ASSUME DOMAIN job' = DOMAIN job, NEW c, NEW j \in DOMAIN job, NEW L,
         \A k \in DOMAIN job : k # j =>
           /\ Pending(k)' = Pending(k)
           /\ \A i \in Pending(k) : job'[k].pages[i] = job[k].pages[i],
         \A i : i \in Pending(j)' /\ job'[j].pages[i] = c
                  <=> i \in Pending(j) /\ job[j].pages[i] = c /\ i \notin L
  PROVE  JobClaims(c)' = JobClaims(c) \ ({j} \X L)
<1>1. ASSUME NEW p PROVE p \in JobClaims(c)' <=> p \in JobClaims(c) /\ p \notin {j} \X L
  <2>1. ASSUME p \in JobClaims(c)' PROVE p \in JobClaims(c) /\ p \notin {j} \X L
    <3>1. PICK k \in DOMAIN job : \E i \in Pending(k)' : job'[k].pages[i] = c /\ p = <<k, i>>
      BY <2>1, ClaimNext
    <3>2. PICK i \in Pending(k)' : job'[k].pages[i] = c /\ p = <<k, i>>
      BY <3>1
    <3>3. i \in Pending(k) /\ job[k].pages[i] = c /\ (k = j => i \notin L)
      BY <3>2
    <3>4. QED  BY <3>2, <3>3, ClaimIn
  <2>2. ASSUME p \in JobClaims(c), p \notin {j} \X L PROVE p \in JobClaims(c)'
    <3>1. PICK k \in DOMAIN job : \E i \in Pending(k) : job[k].pages[i] = c /\ p = <<k, i>>
      BY <2>2, ClaimIn
    <3>2. PICK i \in Pending(k) : job[k].pages[i] = c /\ p = <<k, i>>
      BY <3>1
    <3>3. k = j => i \notin L
      BY <2>2, <3>2
    <3>4. i \in Pending(k)' /\ job'[k].pages[i] = c
      BY <3>2, <3>3
    <3>5. QED  BY <3>2, <3>4, ClaimNext
  <2>3. QED  BY <2>1, <2>2
<1>2. QED  BY <1>1

LEMMA ClaimsStay ==
  ASSUME DOMAIN job' = DOMAIN job, NEW c,
         \A k \in DOMAIN job :
           /\ Pending(k)' = Pending(k)
           /\ \A i \in Pending(k) : job'[k].pages[i] = job[k].pages[i]
  PROVE  JobClaims(c)' = JobClaims(c)
<1>1. ASSUME NEW p PROVE p \in JobClaims(c)' <=> p \in JobClaims(c)
  <2>1. p \in JobClaims(c)' <=>
           \E j \in DOMAIN job : \E i \in Pending(j) : job'[j].pages[i] = c /\ p = <<j, i>>
    BY ClaimNext
  <2>2. p \in JobClaims(c) <=>
           \E j \in DOMAIN job : \E i \in Pending(j) : job[j].pages[i] = c /\ p = <<j, i>>
    BY ClaimIn
  <2>3. QED  BY <2>1, <2>2
<1>2. QED  BY <1>1

LEMMA CallsAlike ==
  ASSUME \A t \in Clients : thread'[t].outer = thread[t].outer /\ thread'[t].pages = thread[t].pages,
         NEW c
  PROVE  CallClaims(c)' = CallClaims(c)
<1>1. ASSUME NEW t \in Clients PROVE PreparedBy(t, c)' = PreparedBy(t, c)
  <2>1. OwnPages(t)' = OwnPages(t) /\ RemapPages(t)' = RemapPages(t)
    BY <1>1 DEF OwnPages, RemapPages, RemapTarget
  <2>2. QED  BY <2>1 DEF PreparedBy
<1>2. QED  BY <1>1 DEF CallClaims

\* The pages L of job j, all with chunk c, are given back by the job.
LEMMA PinsGiven ==
  ASSUME TaskInv, NEW c, NEW j \in DOMAIN job, NEW L, pins[c] = Cardinality(JobClaims(c)) + Cardinality(CallClaims(c)),
         L \subseteq {i \in Pending(j) : job[j].pages[i] = c},
         JobClaims(c)' = JobClaims(c) \ ({j} \X L), CallClaims(c)' = CallClaims(c),
         pins'[c] = pins[c] - Cardinality(L)
  PROVE  pins'[c] = Cardinality(JobClaims(c)') + Cardinality(CallClaims(c)')
<1>1. IsFiniteSet(JobClaims(c)) /\ Cardinality(CallClaims(c)) \in Nat
  BY JobClaimsOf, CallClaimsOf
<1>2. {j} \X L \subseteq JobClaims(c)
  <2>1. ASSUME NEW p \in {j} \X L PROVE p \in JobClaims(c)
    <3>1. PICK i \in L : p = <<j, i>>
      BY <2>1
    <3>2. QED  BY <3>1, ClaimIn
  <2>2. QED  BY <2>1
<1>3. IsFiniteSet(L)
  <2>1. IsFiniteSet({i \in Pending(j) : job[j].pages[i] = c})
    <3>1. PICK n \in Int : n = Len(job[j].pages)
      BY JobPlaces DEF TaskInv
    <3>2. {i \in Pending(j) : job[j].pages[i] = c} \subseteq 1 .. n
      BY <3>1, JobPlaces DEF Pending, TaskInv
    <3>3. IsFiniteSet(1 .. n)
      BY <3>1, FS_Interval
    <3>4. PICK A : A = {i \in Pending(j) : job[j].pages[i] = c}
      OBVIOUS
    <3>5. IsFiniteSet(A)
      BY <3>2, <3>3, <3>4, FS_Subset
    <3>6. QED  BY <3>4, <3>5
  <2>2. QED  BY <2>1, FS_Subset
<1>4. Cardinality({j} \X L) = Cardinality(L) /\ Cardinality(L) \in Nat
  BY <1>3, SingleCount
<1>5. Cardinality(JobClaims(c)') = Cardinality(JobClaims(c)) - Cardinality({j} \X L)
      /\ Cardinality(JobClaims(c)) \in Nat
  BY <1>1, <1>2, CountLess
<1>6. QED  BY <1>1, <1>4, <1>5

-----------------------------------------------------------------------------
(* Steps of a task that neither take nor give back a page.                 *)

LEMMA PendingAlike ==
  ASSUME Shape, Shape', NEW k \in DOMAIN job, k \in DOMAIN job', job'[k].single = job[k].single,
         Len(job'[k].pages) = Len(job[k].pages), queue' = queue,
         \A w \in Workers : WorkerStays(w) \/ (thread[w].job # k /\ thread'[w].job # k)
  PROVE  Pending(k)' = Pending(k)
<1>1. DOMAIN job'[k].pages = DOMAIN job[k].pages
  BY JobPlaces, PlacesNext
<1>2. ASSUME NEW w \in Workers, NEW i PROVE Carries(w, k, i)' <=> Carries(w, k, i)
  <2>1. CASE thread[w].job # k /\ thread'[w].job # k
    BY <2>1 DEF Carries, Uses
  <2>2. CASE WorkerStays(w)
    <3>1. thread'[w].job = thread[w].job /\ thread'[w].page = thread[w].page
      BY <2>2 DEF WorkerStays
    <3>2. CASE thread[w].pc \in Carrying /\ thread'[w].pc \in Carrying
      <4>1. Uses(w, k) <=> thread[w].job = k
        BY <3>2 DEF Uses, Carrying, UsingJob
      <4>2. Uses(w, k)' <=> thread'[w].job = k
        BY <3>2 DEF Uses, Carrying, UsingJob
      <4>3. thread[w].pc \notin {"last", "after"} /\ thread'[w].pc \notin {"last", "after"}
        BY <3>2 DEF Carrying, UsingJob
      <4>4. QED  BY <3>1, <4>1, <4>2, <4>3 DEF Carries
    <3>3. CASE thread'[w].pc = thread[w].pc /\ thread'[w].failed = thread[w].failed
      <4>1. Uses(w, k)' <=> Uses(w, k)
        BY <3>1, <3>3 DEF Uses
      <4>2. QED  BY <3>1, <3>3, <4>1 DEF Carries
    <3>4. QED  BY <2>2, <3>2, <3>3 DEF WorkerStays
  <2>3. QED  BY <1>2, <2>1, <2>2
<1>3. ASSUME NEW i PROVE HasPinned(k, i)' <=> HasPinned(k, i)
  <2>1. Queued(k, i)' <=> Queued(k, i)
    BY DEF Queued
  <2>2. HasPinned(k, i)' <=> Queued(k, i)' \/ \E w \in Workers : Carries(w, k, i)'
    BY DEF HasPinned, Carries
  <2>3. QED  BY <1>2, <2>1, <2>2, PinnedBy
<1>4. QED  BY <1>1, <1>3 DEF Pending

LEMMA MovedPending ==
  ASSUME TaskInv, TaskInv', NEW w \in Workers, NEW pc \in Carrying, NEW waitsFor, NEW failed,
         Moves(w, pc, waitsFor, failed), thread[w].pc \in Carrying, queue' = queue,
         DOMAIN job' = DOMAIN job,
         \A k \in DOMAIN job : job'[k].single = job[k].single /\ Len(job'[k].pages) = Len(job[k].pages)
  PROVE  /\ \A u \in Threads \ {w} : thread'[u] = thread[u]
         /\ \A k \in DOMAIN job : Pending(k)' = Pending(k)
<1>1. Shape /\ Shape'
  BY DEF TaskInv
<1>2. /\ \A u \in Threads \ {w} : thread'[u] = thread[u]
      /\ thread'[w].job = thread[w].job /\ thread'[w].page = thread[w].page /\ thread'[w].pc = pc
  BY DEF Moves
<1>3. ASSUME NEW v \in Workers PROVE WorkerStays(v)
  BY <1>2, <1>3, Constants DEF WorkerStays
<1>4. QED  BY <1>1, <1>2, <1>3, PendingAlike

Handling(w) ==
  \/ FindError(w) \/ CancelRemap(w) \/ RemapCanceled(w) \/ StartPage(w) \/ AwaitReader(w)
  \/ RemapReturns(w) \/ ProcessPage(w) \/ MarkJobAsDone(w) \/ NextPage(w) \/ TakeTask(w)
  \/ FinishTask(w) \/ Sleep(w)

\* Pages that are still to be counted are not forgotten.
PagesStay ==
  /\ DOMAIN job' = DOMAIN job
  /\ \A k \in DOMAIN job : Pending(k)' = Pending(k) /\ (job[k].done \/ job'[k].pages = job[k].pages)

LEMMA PagesOfAlike ==
  ASSUME JobsAlike
  PROVE  DOMAIN job' = DOMAIN job
         /\ \A k \in DOMAIN job : job'[k].single = job[k].single /\ Len(job'[k].pages) = Len(job[k].pages)
BY DEF JobsAlike, Alike, AlikeBut

LEMMA CancelledPages ==
  ASSUME TaskInv, NEW w \in Workers, FindError(w) \/ CancelRemap(w)
  PROVE  TaskInv' /\ PagesStay /\ UNCHANGED pins /\ \A u \in Threads \ {w} : thread'[u] = thread[u]
<1>1. CASE FindError(w)
  <2>1. TaskInv' /\ Moves(w, "page", thread[w].waitsFor, TRUE)
    BY <1>1, FindErrorTasks
  <2>2. JobsAlike /\ \A k \in DOMAIN job : job'[k].pages = job[k].pages
    <3>1. PICK j : j = thread[w].job
      OBVIOUS
    <3>2. job' = [job EXCEPT ![j].cancelled = TRUE] /\ UNCHANGED listed
      BY <1>1, <3>1 DEF FindError
    <3>3. QED  BY <3>2, CancelledAlike
  <2>3. thread[w].pc \in Carrying /\ "page" \in Carrying
    BY <1>1 DEF FindError, Carrying, UsingJob
  <2>4. queue' = queue /\ UNCHANGED pins
    BY <1>1 DEF FindError, pageVars
  <2>5. /\ \A u \in Threads \ {w} : thread'[u] = thread[u]
        /\ \A k \in DOMAIN job : Pending(k)' = Pending(k)
    BY <2>1, <2>2, <2>3, <2>4, PagesOfAlike, MovedPending
  <2>6. QED  BY <2>1, <2>2, <2>4, <2>5, PagesOfAlike DEF PagesStay
<1>2. CASE CancelRemap(w)
  <2>1. TaskInv' /\ Moves(w, "cancelWait", thread[w].waitsFor, thread[w].failed)
    BY <1>2, CancelRemapTasks
  <2>2. JobsAlike /\ \A k \in DOMAIN job : job'[k].pages = job[k].pages
    <3>1. PICK j : j = thread[w].waitsFor
      OBVIOUS
    <3>2. job' = [job EXCEPT ![j].cancelled = TRUE] /\ UNCHANGED listed
      BY <1>2, <3>1 DEF CancelRemap
    <3>3. QED  BY <3>2, CancelledAlike
  <2>3. thread[w].pc \in Carrying /\ "cancelWait" \in Carrying
    BY <1>2 DEF CancelRemap, Carrying, UsingJob
  <2>4. queue' = queue /\ UNCHANGED pins
    BY <1>2 DEF CancelRemap, pageVars
  <2>5. /\ \A u \in Threads \ {w} : thread'[u] = thread[u]
        /\ \A k \in DOMAIN job : Pending(k)' = Pending(k)
    BY <2>1, <2>2, <2>3, <2>4, PagesOfAlike, MovedPending
  <2>6. QED  BY <2>1, <2>2, <2>4, <2>5, PagesOfAlike DEF PagesStay
<1>3. QED  BY <1>1, <1>2

LEMMA DeletedPages ==
  ASSUME TaskInv, NEW w \in Workers, RemapCanceled(w) \/ RemapReturns(w)
  PROVE  TaskInv' /\ PagesStay /\ UNCHANGED pins /\ \A u \in Threads \ {w} : thread'[u] = thread[u]
<1>1. PICK j : j = thread[w].waitsFor
  OBVIOUS
<1>2. ~At(w, "idle") /\ thread[w].pc \in Carrying
  BY DEF RemapCanceled, RemapReturns, Carrying, UsingJob
<1>3. /\ "process" \in Carrying /\ "unpin" \in Carrying
  BY DEF Carrying, UsingJob
<1>4. queue' = queue /\ UNCHANGED pins
  BY DEF RemapCanceled, RemapReturns, pageVars
<1>5. /\ TaskInv' /\ IsDone(j)
      /\ JobsAlike /\ \A k \in DOMAIN job : k # j => job'[k].pages = job[k].pages
      /\ \E pc \in Carrying : \E waitsFor, failed : Moves(w, pc, waitsFor, failed)
  <2>1. CASE RemapCanceled(w)
    <3>1. TaskInv' /\ Moves(w, "unpin", 0, thread[w].failed)
      BY <2>1, RemapCanceledTasks
    <3>2. TakeCanceled(j) /\ job' = Deleted(job, j)
      BY <1>1, <2>1 DEF RemapCanceled
    <3>3. IsDone(j) /\ EraseJob(j)
      BY <3>2 DEF TakeCanceled
    <3>4. JobsAlike /\ \A k \in DOMAIN job : k # j => job'[k].pages = job[k].pages
      BY <3>2, <3>3, DeletedAlike
    <3>5. QED  BY <1>3, <3>1, <3>3, <3>4
  <2>2. CASE RemapReturns(w)
    <3>1. /\ TaskInv'
          /\ \/ /\ TakeCompleted(j) /\ job' = Deleted(job, j)
                /\ Moves(w, "process", 0, thread[w].failed)
             \/ /\ TakeCanceled(j) /\ FailTo(w, Deleted(job, j), HasError(j))
                /\ Moves(w, "unpin", 0, HasError(j))
      BY <1>1, <2>2, RemapReturnsTasks
    <3>2. CASE TakeCompleted(j) /\ job' = Deleted(job, j) /\ Moves(w, "process", 0, thread[w].failed)
      <4>1. IsDone(j) /\ EraseJob(j)
        BY <3>2 DEF TakeCompleted, MayComplete
      <4>2. JobsAlike /\ \A k \in DOMAIN job : k # j => job'[k].pages = job[k].pages
        BY <3>2, <4>1, DeletedAlike
      <4>3. QED  BY <1>3, <3>1, <3>2, <4>1, <4>2
    <3>3. CASE /\ TakeCanceled(j) /\ FailTo(w, Deleted(job, j), HasError(j))
               /\ Moves(w, "unpin", 0, HasError(j))
      <4>1. IsDone(j) /\ EraseJob(j)
        BY <3>3 DEF TakeCanceled
      <4>2. JobsAlike /\ \A k \in DOMAIN job : k # j => job'[k].pages = job[k].pages
        BY <1>2, <3>3, <4>1, RemapFailsAlike
      <4>3. QED  BY <1>3, <3>1, <3>3, <4>1, <4>2
    <3>4. QED  BY <3>1, <3>2, <3>3
  <2>3. QED  BY <2>1, <2>2
<1>6. /\ \A u \in Threads \ {w} : thread'[u] = thread[u]
      /\ \A k \in DOMAIN job : Pending(k)' = Pending(k)
  BY <1>2, <1>4, <1>5, PagesOfAlike, MovedPending
<1>7. QED  BY <1>4, <1>5, <1>6, PagesOfAlike DEF PagesStay, IsDone

LEMMA ReadingPages ==
  ASSUME TaskInv, NEW w \in Workers, StartPage(w) \/ AwaitReader(w) \/ ProcessPage(w)
  PROVE  TaskInv' /\ PagesStay /\ UNCHANGED pins /\ \A u \in Threads \ {w} : thread'[u] = thread[u]
<1>1. ~At(w, "idle") /\ thread[w].pc \in Carrying
  BY DEF StartPage, AwaitReader, ProcessPage, Carrying, UsingJob
<1>2. {"process", "unpin", "remapWait", "await"} \subseteq Carrying
  BY DEF Carrying, UsingJob
<1>3. queue' = queue /\ UNCHANGED <<pins, listed>>
  BY DEF StartPage, AwaitReader, ProcessPage, pageVars
<1>4. ASSUME UNCHANGED job \/ FailTo(w, job, TRUE)
      PROVE  /\ DOMAIN job' = DOMAIN job
             /\ \A k \in DOMAIN job : job'[k].single = job[k].single /\ job'[k].pages = job[k].pages
  <2>1. CASE UNCHANGED job
    BY <2>1
  <2>2. CASE FailTo(w, job, TRUE)
    <3>1. PICK j : j = thread[w].job
      OBVIOUS
    <3>2. job' = [job EXCEPT ![j].cancelled = TRUE]
      BY <2>2, <3>1 DEF FailTo
    <3>3. JobsAlike /\ \A k \in DOMAIN job : job'[k].pages = job[k].pages
      BY <1>3, <3>2, CancelledAlike
    <3>4. QED  BY <3>3, PagesOfAlike
  <2>3. QED  BY <1>4, <2>1, <2>2
<1>5. /\ TaskInv'
      /\ DOMAIN job' = DOMAIN job
      /\ \A k \in DOMAIN job : job'[k].single = job[k].single /\ job'[k].pages = job[k].pages
      /\ \E pc \in Carrying : \E waitsFor, failed : Moves(w, pc, waitsFor, failed)
  <2>1. CASE StartPage(w)
    BY <1>2, <1>4, <2>1, StartPageTasks
  <2>2. CASE AwaitReader(w)
    BY <1>2, <1>4, <2>2, AwaitReaderTasks
  <2>3. CASE ProcessPage(w)
    <3>1. /\ TaskInv' /\ \E failed : Moves(w, "unpin", thread[w].waitsFor, failed)
          /\ \A k \in DOMAIN job :
               /\ k # thread[w].job => job'[k] = job[k]
               /\ job'[k] = [job[k] EXCEPT !.given = job'[k].given]
      BY <2>3, ProcessPageTasks
    <3>2. DOMAIN job' = DOMAIN job
      <4>1. PICK j, r : j = thread[w].job /\ r = [job[j] EXCEPT !.given = @ + 1]
        OBVIOUS
      <4>2. job' = [job EXCEPT ![j] = r]
        BY <2>3, <4>1 DEF ProcessPage
      <4>3. QED  BY <3>1, <4>2, OneJob DEF TaskInv
    <3>3. ASSUME NEW k \in DOMAIN job PROVE job'[k].single = job[k].single /\ job'[k].pages = job[k].pages
      <4>1. PICK q \in JobRecord : q = job[k]
        BY <3>3, JobPlaces DEF TaskInv
      <4>2. PICK g : g = job'[k].given
        OBVIOUS
      <4>3. job'[k] = [q EXCEPT !.given = g]
        BY <3>1, <3>3, <4>1, <4>2
      <4>4. job'[k].single = q.single /\ job'[k].pages = q.pages
        BY <4>3 DEF JobRecord
      <4>5. QED  BY <4>1, <4>4
    <3>4. QED  BY <1>2, <3>1, <3>2, <3>3
  <2>4. QED  BY <2>1, <2>2, <2>3
<1>6. /\ \A u \in Threads \ {w} : thread'[u] = thread[u]
      /\ \A k \in DOMAIN job : Pending(k)' = Pending(k)
  <2>1. PICK pc \in Carrying : \E waitsFor, failed : Moves(w, pc, waitsFor, failed)
    BY <1>5
  <2>2. QED  BY <1>1, <1>3, <1>5, <2>1, MovedPending
<1>7. QED  BY <1>3, <1>5, <1>6 DEF PagesStay

LEMMA TurningPages ==
  ASSUME TaskInv, NEW w \in Workers,
         MarkJobAsDone(w) \/ NextPage(w) \/ TakeTask(w) \/ FinishTask(w) \/ Sleep(w)
  PROVE  TaskInv' /\ PagesStay /\ UNCHANGED pins /\ \A u \in Threads \ {w} : thread'[u] = thread[u]
<1>1. UNCHANGED pins
  BY DEF MarkJobAsDone, NextPage, TakeTask, FinishTask, Sleep, pageVars
<1>2. CASE MarkJobAsDone(w)
  <2>1. /\ TaskInv' /\ Moves(w, "after", thread[w].waitsFor, thread[w].failed)
        /\ \A k \in DOMAIN job :
             job'[k] = IF k = thread[w].job THEN [job[k] EXCEPT !.done = TRUE] ELSE job[k]
        /\ Pending(thread[w].job) = {} /\ DOMAIN job' = DOMAIN job
    BY <1>2, MarkJobTasks
  <2>2. \A u \in Threads \ {w} : thread'[u] = thread[u]
    BY <2>1 DEF Moves
  <2>3. thread'[w].job = thread[w].job /\ queue' = queue
    BY <1>2, <2>1 DEF Moves, MarkJobAsDone
  <2>4. ASSUME NEW k \in DOMAIN job
        PROVE  Pending(k)' = Pending(k) /\ job'[k].pages = job[k].pages
    <3>1. PICK q \in JobRecord : q = job[k]
      BY <2>4, JobPlaces DEF TaskInv
    <3>2. CASE k = thread[w].job
      <4>1. job'[k] = [q EXCEPT !.done = TRUE]
        BY <2>1, <2>4, <3>1, <3>2
      <4>2. job'[k].done = TRUE /\ job'[k].pages = q.pages
        BY <4>1 DEF JobRecord
      <4>3. Pending(k)' = {}
        BY <2>1, <2>4, <4>2 DEF TaskInv, Counts
      <4>4. QED  BY <2>1, <3>1, <3>2, <4>2, <4>3
    <3>3. CASE k # thread[w].job
      <4>1. job'[k] = job[k]
        BY <2>1, <2>4, <3>3
      <4>2. \A v \in Workers : WorkerStays(v) \/ (thread[v].job # k /\ thread'[v].job # k)
        BY <2>2, <2>3, <3>3, Constants DEF WorkerStays
      <4>3. QED  BY <2>1, <2>3, <2>4, <4>1, <4>2, PendingAlike DEF TaskInv
    <3>4. QED  BY <3>2, <3>3
  <2>5. QED  BY <1>1, <2>1, <2>2, <2>4 DEF PagesStay
<1>3. CASE NextPage(w)
  BY <1>1, <1>3, NextPageTasks DEF PagesStay
<1>4. CASE TakeTask(w)
  BY <1>1, <1>4, TakeTaskTasks DEF PagesStay
<1>5. CASE FinishTask(w)
  <2>1. /\ TaskInv' /\ \A v \in Threads \ {w} : thread'[v] = thread[v]
        /\ \A k \in DOMAIN job :
             job'[k] = [job[k] EXCEPT !.future = job'[k].future] /\ Pending(k)' = Pending(k)
    BY <1>5, FinishTaskTasks
  <2>2. DOMAIN job' = DOMAIN job
    <3>1. PICK j, i, f : j = thread[w].job /\ i = thread[w].page /\ f = IF thread[w].failed THEN "error" ELSE "ok"
      OBVIOUS
    <3>2. job' = job \/ job' = [job EXCEPT ![j].future[i] = f]
      BY <1>5, <3>1 DEF FinishTask
    <3>3. PICK r : r = [job[j] EXCEPT !.future[i] = f]
      OBVIOUS
    <3>4. job' = job \/ job' = [job EXCEPT ![j] = r]
      BY <3>2, <3>3
    <3>5. QED  BY <2>1, <3>4, OneJob DEF TaskInv
  <2>3. ASSUME NEW k \in DOMAIN job PROVE job'[k].pages = job[k].pages
    <3>1. PICK q \in JobRecord : q = job[k]
      BY <2>3, JobPlaces DEF TaskInv
    <3>2. PICK g : g = job'[k].future
      OBVIOUS
    <3>3. job'[k] = [q EXCEPT !.future = g]
      BY <2>1, <2>3, <3>1, <3>2
    <3>4. job'[k].pages = q.pages
      BY <3>3 DEF JobRecord
    <3>5. QED  BY <3>1, <3>4
  <2>4. QED  BY <1>1, <2>1, <2>2, <2>3 DEF PagesStay
<1>6. CASE Sleep(w)
  <2>1. TaskInv' /\ UNCHANGED <<thread, job, queue>>
    <3>1. w \in Threads
      BY Constants
    <3>2. TaskInv'
      BY <1>6, <3>1, SleepTasks
    <3>3. QED  BY <1>6, <3>2 DEF Sleep, jobVars
  <2>2. \A k \in DOMAIN job : Pending(k)' = Pending(k)
    BY <2>1 DEF Pending, HasPinned, Queued, Uses
  <2>3. QED  BY <1>1, <2>1, <2>2 DEF PagesStay
<1>7. QED  BY <1>2, <1>3, <1>4, <1>5, <1>6

LEMMA HandlingPages ==
  ASSUME TaskInv, NEW w \in Workers, Handling(w)
  PROVE  TaskInv' /\ PagesStay /\ UNCHANGED pins /\ \A u \in Threads \ {w} : thread'[u] = thread[u]
BY CancelledPages, DeletedPages, ReadingPages, TurningPages DEF Handling

LEMMA StayingPins ==
  ASSUME TaskInv, PinsExact, PagesStay, UNCHANGED pins, \A c \in Chunks : CallClaims(c)' = CallClaims(c)
  PROVE  PinsExact'
<1>1. ASSUME NEW k \in DOMAIN job, NEW i \in Pending(k) PROVE job'[k].pages[i] = job[k].pages[i]
  BY <1>1 DEF TaskInv, Counts, PagesStay
<1>2. \A c \in Chunks : JobClaims(c)' = JobClaims(c)
  BY <1>1, ClaimsStay DEF PagesStay
<1>3. QED  BY <1>2, ExactPins, ExactPinsNext

LEMMA HandlingPins ==
  ASSUME TaskInv, PinsExact, NEW w \in Workers, Handling(w)
  PROVE  PinsExact'
<1>1. /\ PagesStay /\ UNCHANGED pins
      /\ \A t \in Clients : thread'[t].outer = thread[t].outer /\ thread'[t].pages = thread[t].pages
  BY HandlingPages, Constants
<1>2. \A c \in Chunks : CallClaims(c)' = CallClaims(c)
  BY <1>1, CallsAlike
<1>3. QED  BY <1>1, <1>2, StayingPins

-----------------------------------------------------------------------------
(* Steps of a task that give back pages.                                   *)

LEMMA CancelPagePins ==
  ASSUME TaskInv, PinsExact, NEW w \in Workers, CancelPage(w)
  PROVE  PinsExact'
<1>1. PICK j, n, p : j = thread[w].job /\ n = thread[w].page /\ p = PageOf(w)
  OBVIOUS
<1>2. /\ At(w, "page") /\ thread[w].pc \in Carrying /\ queue' = queue
      /\ pins' = [pins EXCEPT ![p] = @ - 1]
  BY <1>1 DEF CancelPage, Carrying, UsingJob
<1>3. /\ j \in DOMAIN job /\ n \in Pending(j) /\ ~job[j].done
  BY <1>1, <1>2, CarriesPending DEF JobOf
<1>4. /\ JobsAlike /\ \A k \in DOMAIN job : k # j => job'[k] = job[k]
      /\ job'[j].pages = [job[j].pages EXCEPT ![n] = NoChunk]
  BY <1>1, CancelPageAlike DEF JobOf
<1>5. TaskInv' /\ \E pc \in Carrying : \E waitsFor, failed : Moves(w, pc, waitsFor, failed)
  <2>1. {"cancelRemap", "unpin"} \subseteq Carrying
    BY DEF Carrying, UsingJob
  <2>2. QED  BY <2>1, CancelPageTasks
<1>6. /\ \A u \in Threads \ {w} : thread'[u] = thread[u]
      /\ \A k \in DOMAIN job : Pending(k)' = Pending(k)
  BY <1>2, <1>4, <1>5, PagesOfAlike, MovedPending
<1>7. job[j].pages[n] = p /\ \A i \in DOMAIN job[j].pages : job'[j].pages[i] = IF i = n THEN NoChunk ELSE job[j].pages[i]
  <2>1. job[j].pages \in Seq(Chunks \cup {NoChunk})
    BY <1>3, JobPlaces DEF JobRecord, TaskInv
  <2>2. job[j].pages[n] = p
    BY <1>1 DEF PageOf, JobOf
  <2>3. PICK s \in Seq(Chunks \cup {NoChunk}) : s = job[j].pages
    BY <2>1
  <2>4. \A i \in DOMAIN s : [s EXCEPT ![n] = NoChunk][i] = IF i = n THEN NoChunk ELSE s[i]
    BY <2>3, ReplaceOne
  <2>5. QED  BY <1>4, <2>2, <2>3, <2>4
<1>8. ASSUME NEW c \in Chunks
      PROVE  pins'[c] = Cardinality(JobClaims(c)') + Cardinality(CallClaims(c)')
  <2>1. \A t \in Clients : thread'[t].outer = thread[t].outer /\ thread'[t].pages = thread[t].pages
    BY <1>6, Constants
  <2>2. CallClaims(c)' = CallClaims(c)
    BY <2>1, CallsAlike
  <2>3. PICK L : L = IF c = p THEN {n} ELSE {}
    OBVIOUS
  <2>4. \A i : i \in Pending(j)' /\ job'[j].pages[i] = c
                 <=> i \in Pending(j) /\ job[j].pages[i] = c /\ i \notin L
    <3>1. \A i \in Pending(j) : i \in DOMAIN job[j].pages
      BY DEF Pending
    <3>2. c # NoChunk
      BY <1>8, Constants
    <3>3. QED  BY <1>3, <1>6, <1>7, <2>3, <3>1, <3>2
  <2>5. JobClaims(c)' = JobClaims(c) \ ({j} \X L)
    <3>1. \A k \in DOMAIN job : k # j =>
            /\ Pending(k)' = Pending(k)
            /\ \A i \in Pending(k) : job'[k].pages[i] = job[k].pages[i]
      BY <1>4, <1>6
    <3>2. DOMAIN job' = DOMAIN job
      BY <1>4, PagesOfAlike
    <3>3. j \in DOMAIN job
      BY <1>3
    <3>4. QED  BY <2>4, <3>1, <3>2, <3>3, ClaimsLeft
  <2>6. L \subseteq {i \in Pending(j) : job[j].pages[i] = c}
    BY <1>3, <1>7, <2>3
  <2>7. pins'[c] = pins[c] - Cardinality(L)
    <3>1. pins \in [Chunks -> Int]
      BY DEF TaskInv, Shape
    <3>2. pins[c] \in Int
      BY <3>1
    <3>3. CASE c = p
      BY <1>2, <2>3, <3>1, <3>3, FS_Singleton
    <3>4. CASE c # p
      <4>1. pins'[c] = pins[c]
        BY <1>2, <3>1, <3>4
      <4>2. QED  BY <2>3, <3>2, <3>4, <4>1, FS_EmptySet
    <3>5. QED  BY <3>3, <3>4
  <2>8. pins[c] = Cardinality(JobClaims(c)) + Cardinality(CallClaims(c))
    BY ExactPins
  <2>9. QED  BY <1>3, <2>2, <2>5, <2>6, <2>7, <2>8, PinsGiven
<1>9. QED  BY <1>8, ExactPinsNext

LEMMA UnPinPagePins ==
  ASSUME TaskInv, PinsExact, NEW w \in Workers, UnPinPage(w)
  PROVE  PinsExact'
<1>1. PICK j, n, p : j = thread[w].job /\ n = thread[w].page /\ p = PageOf(w)
  OBVIOUS
<1>2. pins' = [x \in Chunks |-> IF x = p THEN pins[x] - 1 ELSE pins[x]] /\ thread[w].pc \in Carrying
  BY <1>1 DEF UnPinPage, Carrying, UsingJob
<1>3. /\ j \in DOMAIN job /\ n \in Pending(j) /\ job[j].pages[n] = p
  BY <1>1, <1>2, CarriesPending DEF PageOf, JobOf
<1>4. /\ \E pc, waitsFor, failed : Moves(w, pc, waitsFor, failed)
      /\ \A k \in DOMAIN job :
           /\ k # j => job'[k] = job[k] /\ Pending(k)' = Pending(k)
           /\ job'[k] = [job[k] EXCEPT !.processed = job'[k].processed]
           /\ k = j => Pending(k)' = Pending(k) \ {n}
  BY <1>1, UnPinPageTasks
<1>5. DOMAIN job' = DOMAIN job
  <2>1. PICK r : r = [job[j] EXCEPT !.processed = @ + 1]
    OBVIOUS
  <2>2. job' = [job EXCEPT ![j] = r]
    BY <1>1, <2>1 DEF UnPinPage
  <2>3. QED  BY <2>2, OneJob, UnPinPageTasks DEF TaskInv
<1>6. job'[j].pages = job[j].pages
  <2>1. PICK q \in JobRecord : q = job[j]
    BY <1>3, JobPlaces DEF TaskInv
  <2>2. PICK g : g = job'[j].processed
    OBVIOUS
  <2>3. job'[j] = [q EXCEPT !.processed = g]
    BY <1>3, <1>4, <2>1, <2>2
  <2>4. job'[j].pages = q.pages
    BY <2>3 DEF JobRecord
  <2>5. QED  BY <2>1, <2>4
<1>7. ASSUME NEW c \in Chunks
      PROVE  pins'[c] = Cardinality(JobClaims(c)') + Cardinality(CallClaims(c)')
  <2>1. \A t \in Clients : thread'[t].outer = thread[t].outer /\ thread'[t].pages = thread[t].pages
    BY <1>4, Constants DEF Moves
  <2>2. CallClaims(c)' = CallClaims(c)
    BY <2>1, CallsAlike
  <2>3. PICK L : L = IF c = p THEN {n} ELSE {}
    OBVIOUS
  <2>4. \A i : i \in Pending(j)' /\ job'[j].pages[i] = c
                 <=> i \in Pending(j) /\ job[j].pages[i] = c /\ i \notin L
    BY <1>3, <1>4, <1>6, <2>3
  <2>5. JobClaims(c)' = JobClaims(c) \ ({j} \X L)
    <3>1. \A k \in DOMAIN job : k # j =>
            /\ Pending(k)' = Pending(k)
            /\ \A i \in Pending(k) : job'[k].pages[i] = job[k].pages[i]
      BY <1>4
    <3>2. j \in DOMAIN job
      BY <1>3
    <3>3. QED  BY <1>5, <2>4, <3>1, <3>2, ClaimsLeft
  <2>6. L \subseteq {i \in Pending(j) : job[j].pages[i] = c}
    BY <1>3, <2>3
  <2>7. pins'[c] = pins[c] - Cardinality(L)
    <3>1. pins[c] \in Int
      BY <1>7 DEF TaskInv, Shape
    <3>2. CASE c = p
      <4>1. Cardinality(L) = 1
        BY <2>3, <3>2, FS_Singleton
      <4>2. QED  BY <1>2, <1>7, <3>1, <3>2, <4>1
    <3>3. CASE c # p
      <4>1. Cardinality(L) = 0
        BY <2>3, <3>3, FS_EmptySet
      <4>2. QED  BY <1>2, <1>7, <3>1, <3>3, <4>1
    <3>4. QED  BY <3>2, <3>3
  <2>8. pins[c] = Cardinality(JobClaims(c)) + Cardinality(CallClaims(c))
    BY ExactPins
  <2>9. QED  BY <1>3, <2>2, <2>5, <2>6, <2>7, <2>8, PinsGiven
<1>8. QED  BY <1>7, ExactPinsNext

LEMMA AbandonPins ==
  ASSUME TaskInv, PinsExact, NEW w \in Workers, AbandonPages(w)
  PROVE  PinsExact'
<1>1. PICK j, n, s : j = thread[w].job /\ n = thread[w].page /\ s = job[j].pages
  OBVIOUS
<1>2. PICK left : left = {i \in DOMAIN s : i > n}
  OBVIOUS
<1>3. /\ pins' = [c \in Chunks |-> pins[c] - Cardinality({i \in left : s[i] = c})]
      /\ At(w, "after") /\ job[j].single /\ thread[w].failed
  BY <1>1, <1>2 DEF AbandonPages, JobOf
<1>4. j \in DOMAIN job
  BY <1>1, <1>3, WorkersPage
<1>5. left \subseteq Pending(j)
  <2>1. Uses(w, j)
    BY <1>1, <1>3 DEF Uses
  <2>2. \A i \in left : n < i /\ i \in DOMAIN job[j].pages
    <3>1. n \in Nat
      BY <1>1, AbandonPagesTasks
    <3>2. DOMAIN s = 1 .. Len(s) /\ Len(s) \in Nat
      BY <1>1, <1>4, JobPlaces DEF TaskInv
    <3>3. QED  BY <1>1, <1>2, <3>1, <3>2
  <2>3. \A i \in left : Carries(w, j, i)
    BY <1>1, <1>3, <2>1, <2>2 DEF Carries
  <2>4. QED  BY <2>2, <2>3, PinnedBy DEF Pending
<1>6. /\ \A v \in Threads \ {w} : thread'[v] = thread[v]
      /\ \A k \in DOMAIN job :
           /\ k # j => job'[k] = job[k] /\ Pending(k)' = Pending(k)
           /\ k = j =>
                /\ \A i \in DOMAIN job[k].pages :
                     job'[k].pages[i] = IF i > n THEN NoChunk ELSE job[k].pages[i]
                /\ Pending(k)' = {i \in Pending(k) : ~(i > n)}
  <2>1. /\ \A v \in Threads \ {w} : thread'[v] = thread[v]
        /\ \A k \in DOMAIN job :
             /\ k # thread[w].job => job'[k] = job[k] /\ Pending(k)' = Pending(k)
             /\ k = thread[w].job =>
                  /\ \A i \in DOMAIN job[k].pages :
                       job'[k].pages[i] = IF i > thread[w].page THEN NoChunk ELSE job[k].pages[i]
                  /\ Pending(k)' = {i \in Pending(k) : ~(i > thread[w].page)}
    <3>1. TaskInv /\ w \in Workers /\ AbandonPages(w)
      OBVIOUS
    <3>2. \A v \in Threads \ {w} : thread'[v] = thread[v]
      BY <3>1, AbandonPagesTasks
    <3>3. ASSUME NEW k \in DOMAIN job, k # thread[w].job
          PROVE  job'[k] = job[k] /\ Pending(k)' = Pending(k)
      BY <3>1, <3>3, AbandonPagesTasks
    <3>4. ASSUME NEW k \in DOMAIN job, k = thread[w].job
          PROVE  /\ \A i \in DOMAIN job[k].pages :
                      job'[k].pages[i] = IF i > thread[w].page THEN NoChunk ELSE job[k].pages[i]
                 /\ Pending(k)' = {i \in Pending(k) : ~(i > thread[w].page)}
      BY <3>1, <3>4, AbandonPagesTasks
    <3>5. QED  BY <3>2, <3>3, <3>4
  <2>2. QED  BY <1>1, <2>1
<1>7. DOMAIN job' = DOMAIN job
  BY AbandonAlike, PagesOfAlike
<1>8. ASSUME NEW c \in Chunks
      PROVE  pins'[c] = Cardinality(JobClaims(c)') + Cardinality(CallClaims(c)')
  <2>1. \A t \in Clients : thread'[t].outer = thread[t].outer /\ thread'[t].pages = thread[t].pages
    BY <1>6, Constants
  <2>2. CallClaims(c)' = CallClaims(c)
    BY <2>1, CallsAlike
  <2>3. PICK L : L = {i \in left : s[i] = c}
    OBVIOUS
  <2>4. \A i : i \in Pending(j)' /\ job'[j].pages[i] = c
                 <=> i \in Pending(j) /\ job[j].pages[i] = c /\ i \notin L
    <3>1. \A i \in Pending(j) : i \in DOMAIN job[j].pages
      BY DEF Pending
    <3>2. QED  BY <1>1, <1>2, <1>4, <1>6, <2>3, <3>1
  <2>5. JobClaims(c)' = JobClaims(c) \ ({j} \X L)
    BY <1>4, <1>6, <1>7, <2>4, ClaimsLeft
  <2>6. L \subseteq {i \in Pending(j) : job[j].pages[i] = c}
    BY <1>1, <1>5, <2>3
  <2>7. pins'[c] = pins[c] - Cardinality(L)
    BY <1>3, <1>8, <2>3
  <2>8. pins[c] = Cardinality(JobClaims(c)) + Cardinality(CallClaims(c))
    BY ExactPins
  <2>9. QED  BY <1>4, <2>2, <2>5, <2>6, <2>7, <2>8, PinsGiven
<1>9. QED  BY <1>8, ExactPinsNext

-----------------------------------------------------------------------------
(* Steps of the calls.                                                     *)

\* Steps of a client that neither take nor give back a page, and of nobody.
Asking(t) ==
  \/ \E r \in Requests[t] : RequestData(t, r)
  \/ \E j \in owned[t] : IsCompleted(t, j) \/ IsCanceled(t, j) \/ Cancel(t, j)
                         \/ WaitForCompletion(t, j)
  \/ FindAccessor(t) \/ EnsureMaxPages(t) \/ PrepareRefused(t) \/ Waiting(t)
OtherStep == (\E x \in Accessors : CleanUp(x)) \/ Close \/ CloseNext \/ UNCHANGED vars
ClientStep ==
  \/ \E t \in Clients : Asking(t) \/ PrepareReadPage(t) \/ AddRemapJob(t)
  \/ OtherStep

LEMMA ClientStepTasks ==
  ASSUME TaskInv, ClientStep
  PROVE  /\ TaskInv' /\ JobsAlike /\ UNCHANGED queue /\ \A w \in Workers : thread'[w] = thread[w]
         /\ \A k \in DOMAIN job : k \in Listed /\ k \notin Listed' => ~job[k].cancelled \/ FuturesReady(k)
<1>1. \/ \E t \in Clients :
           \/ \E r \in Requests[t] : RequestData(t, r)
           \/ \E j \in owned[t] : IsCompleted(t, j) \/ IsCanceled(t, j) \/ Cancel(t, j)
                                  \/ WaitForCompletion(t, j)
           \/ FindAccessor(t) \/ EnsureMaxPages(t) \/ PrepareReadPage(t) \/ PrepareRefused(t)
           \/ AddRemapJob(t) \/ Waiting(t)
      \/ (\E x \in Accessors : CleanUp(x)) \/ Close \/ CloseNext \/ UNCHANGED vars
  BY DEF ClientStep, Asking, OtherStep
<1>2. QED  BY <1>1, ClientSteps

LEMMA ClientStepPages ==
  ASSUME TaskInv, ClientStep
  PROVE  PagesStay
<1>1. /\ TaskInv' /\ JobsAlike /\ UNCHANGED queue /\ \A w \in Workers : thread'[w] = thread[w]
  BY ClientStepTasks
<1>2. \A k \in DOMAIN job : Pending(k)' = Pending(k)
  <2>1. Shape /\ Shape'
    BY <1>1 DEF TaskInv
  <2>2. \A w \in Workers : WorkerStays(w)
    BY <1>1 DEF WorkerStays
  <2>3. QED  BY <1>1, <2>1, <2>2, PagesOfAlike, PendingAlike
<1>3. \A k \in DOMAIN job : job[k].done \/ job'[k].pages = job[k].pages
  <2>1. ASSUME NEW t \in Clients, NEW j \in owned[t], IsCompleted(t, j) \/ IsCanceled(t, j)
        PROVE  \A k \in DOMAIN job : job[k].done \/ job'[k].pages = job[k].pages
    <3>1. IsDone(j) /\ EraseJob(j) /\ job' = Deleted(job, j)
      BY <2>1 DEF IsCompleted, IsCanceled, TakeCompleted, TakeCanceled, MayComplete
    <3>2. QED  BY <3>1, DeletedAlike DEF IsDone
  <2>2. ASSUME NEW t \in Clients, NEW j \in owned[t], Cancel(t, j)
        PROVE  \A k \in DOMAIN job : job[k].done \/ job'[k].pages = job[k].pages
    <3>1. job' = [job EXCEPT ![j].cancelled = TRUE] /\ UNCHANGED listed
      BY <2>2 DEF Cancel
    <3>2. QED  BY <3>1, CancelledAlike
  <2>3. ASSUME NEW t \in Clients, WaitReturns(t)
        PROVE  \A k \in DOMAIN job : job[k].done \/ job'[k].pages = job[k].pages
    <3>1. PICK j : j = thread[t].waitsFor
      OBVIOUS
    <3>2. (IsDone(j) /\ EraseJob(j) /\ job' = Deleted(job, j)) \/ UNCHANGED job
      BY <2>3, <3>1 DEF WaitReturns, TakeCompleted, MayComplete
    <3>3. QED  BY <3>2, DeletedAlike DEF IsDone
  <2>4. ASSUME Close PROVE \A k \in DOMAIN job : job'[k].pages = job[k].pages
    <3>1. ASSUME NEW k \in DOMAIN job PROVE job'[k].pages = job[k].pages
      <4>1. PICK q \in JobRecord : q = job[k]
        BY <3>1, JobPlaces DEF TaskInv
      <4>2. job'[k] = q \/ job'[k] = [q EXCEPT !.cancelled = TRUE]
        BY <2>4, <3>1, <4>1 DEF Close
      <4>3. job'[k].pages = q.pages
        BY <4>2 DEF JobRecord
      <4>4. QED  BY <4>1, <4>3
    <3>2. QED  BY <3>1
  <2>5. ASSUME NEW t \in Clients,
               \/ \E r \in Requests[t] : RequestData(t, r)
               \/ \E j \in owned[t] : WaitForCompletion(t, j)
               \/ FindAccessor(t) \/ EnsureMaxPages(t) \/ PrepareReadPage(t) \/ PrepareRefused(t)
               \/ AddRemapJob(t) \/ Sleep(t)
        PROVE  UNCHANGED job
    BY <2>5 DEF RequestData, WaitForCompletion, FindAccessor, EnsureMaxPages, PrepareReadPage,
                PrepareRefused, AddRemapJob, Sleep, jobVars
  <2>6. ASSUME (\E x \in Accessors : CleanUp(x)) \/ CloseNext \/ UNCHANGED vars PROVE UNCHANGED job
    BY <2>6 DEF CleanUp, CloseNext, vars, jobVars
  <2>7. QED  BY <2>1, <2>2, <2>3, <2>4, <2>5, <2>6 DEF ClientStep, Asking, OtherStep, Waiting
<1>4. QED  BY <1>1, <1>2, <1>3, PagesOfAlike DEF PagesStay

CallsRest == \A t \in Clients : thread'[t].outer = thread[t].outer /\ thread'[t].pages = thread[t].pages

LEMMA MovedCalls ==
  ASSUME NEW t \in Clients, NEW pc, NEW waitsFor, NEW failed, Moves(t, pc, waitsFor, failed)
  PROVE  CallsRest
BY Constants DEF Moves, CallsRest

LEMMA AskingPins ==
  ASSUME TaskInv, (\E t \in Clients : Asking(t)) \/ OtherStep
  PROVE  UNCHANGED pins /\ CallsRest
<1>1. ASSUME NEW t \in Clients, NEW r \in Requests[t], RequestData(t, r)
      PROVE  UNCHANGED pins /\ CallsRest
  <2>1. UNCHANGED pins
    BY <1>1 DEF RequestData, pageVars
  <2>2. QED  BY <1>1, <2>1, RequestDataTasks, Constants DEF CallsRest
<1>2. ASSUME NEW t \in Clients, NEW j \in owned[t],
             IsCompleted(t, j) \/ IsCanceled(t, j) \/ Cancel(t, j)
      PROVE  UNCHANGED pins /\ CallsRest
  BY <1>2 DEF IsCompleted, IsCanceled, Cancel, pageVars, CallsRest
<1>3. ASSUME NEW t \in Clients, NEW j \in owned[t], WaitForCompletion(t, j)
      PROVE  UNCHANGED pins /\ CallsRest
  <2>1. UNCHANGED pins
    BY <1>3 DEF WaitForCompletion, pageVars
  <2>2. QED  BY <1>3, <2>1, WaitsTasks, MovedCalls
<1>4. ASSUME NEW t \in Clients, FindAccessor(t)
      PROVE  UNCHANGED pins /\ CallsRest
  <2>1. UNCHANGED pins
    BY <1>4 DEF FindAccessor, pageVars
  <2>2. QED  BY <1>4, <2>1, FindAccessorTasks, MovedCalls
<1>5. ASSUME NEW t \in Clients, EnsureMaxPages(t)
      PROVE  UNCHANGED pins /\ CallsRest
  <2>1. UNCHANGED pins
    BY <1>5 DEF EnsureMaxPages, pageVars
  <2>2. QED  BY <1>5, <2>1, EnsureMaxPagesTasks, MovedCalls
<1>6. ASSUME NEW t \in Clients, PrepareRefused(t)
      PROVE  UNCHANGED pins /\ CallsRest
  <2>1. UNCHANGED pins
    BY <1>6 DEF PrepareRefused, pageVars
  <2>2. QED  BY <1>6, <2>1, PrepareRefusedTasks, Constants DEF CallsRest
<1>7. ASSUME NEW t \in Clients, Sleep(t)
      PROVE  UNCHANGED pins /\ CallsRest
  BY <1>7 DEF Sleep, pageVars, CallsRest
<1>8. ASSUME NEW t \in Clients, WaitReturns(t)
      PROVE  UNCHANGED pins /\ CallsRest
  <2>1. UNCHANGED pins
    BY <1>8 DEF WaitReturns, pageVars
  <2>2. QED  BY <1>8, <2>1, WaitReturnsTasks, MovedCalls
<1>9. ASSUME OtherStep
      PROVE  UNCHANGED pins /\ CallsRest
  BY <1>9 DEF OtherStep, CleanUp, Close, CloseNext, vars, pageVars, CallsRest
<1>10. QED  BY <1>1, <1>2, <1>3, <1>4, <1>5, <1>6, <1>7, <1>8, <1>9 DEF Asking, Waiting

LEMMA AskedPins ==
  ASSUME TaskInv, PinsExact, (\E t \in Clients : Asking(t)) \/ OtherStep
  PROVE  PinsExact'
<1>1. UNCHANGED pins /\ CallsRest
  BY AskingPins
<1>2. \A c \in Chunks : CallClaims(c)' = CallClaims(c)
  BY <1>1, CallsAlike DEF CallsRest
<1>3. PagesStay
  BY ClientStepPages DEF ClientStep
<1>4. QED  BY <1>1, <1>2, <1>3, StayingPins

\* A call takes one more page.
LEMMA PinsTaken ==
  ASSUME TaskInv, PinsExact, PagesStay, NEW t \in Clients, NEW p \in Chunks, NEW x,
         \A u \in Clients \ {t} : thread'[u] = thread[u],
         \A c : PreparedBy(t, c)' = PreparedBy(t, c) \cup (IF c = p THEN {x} ELSE {}),
         x \notin PreparedBy(t, p),
         pins' = [pins EXCEPT ![p] = @ + 1]
  PROVE  PinsExact'
<1>1. ASSUME NEW k \in DOMAIN job, NEW i \in Pending(k) PROVE job'[k].pages[i] = job[k].pages[i]
  BY <1>1 DEF TaskInv, Counts, PagesStay
<1>2. \A c : JobClaims(c)' = JobClaims(c)
  BY <1>1, ClaimsStay DEF PagesStay
<1>3. ASSUME NEW c \in Chunks
      PROVE  pins'[c] = Cardinality(JobClaims(c)') + Cardinality(CallClaims(c)')
  <2>1. PICK N : N = IF c = p THEN {<<t, x>>} ELSE {}
    OBVIOUS
  <2>2. CallClaims(c)' = CallClaims(c) \cup N
    <3>1. ASSUME NEW u \in Clients \ {t} PROVE PreparedBy(u, c)' = PreparedBy(u, c)
      <4>1. thread'[u] = thread[u]
        BY <3>1
      <4>2. OwnPages(u)' = OwnPages(u) /\ RemapPages(u)' = RemapPages(u)
        BY <4>1 DEF OwnPages, RemapPages, RemapTarget
      <4>3. QED  BY <4>2 DEF PreparedBy
    <3>2. PreparedBy(t, c)' = PreparedBy(t, c) \cup (IF c = p THEN {x} ELSE {})
      OBVIOUS
    <3>3. ASSUME NEW y PROVE y \in CallClaims(c)' <=> y \in CallClaims(c) \/ y \in N
      <4>1. y \in CallClaims(c)' <=> \E u \in Clients : y \in {u} \X PreparedBy(u, c)'
        BY DEF CallClaims
      <4>2. y \in CallClaims(c) <=> \E u \in Clients : y \in {u} \X PreparedBy(u, c)
        BY DEF CallClaims
      <4>3. y \in {t} \X PreparedBy(t, c)' <=> y \in {t} \X PreparedBy(t, c) \/ y \in N
        BY <2>1, <3>2
      <4>4. QED  BY <3>1, <4>1, <4>2, <4>3
    <3>4. QED  BY <3>3
  <2>3. CallClaims(c) \cap N = {}
    <3>1. ASSUME c = p, <<t, x>> \in CallClaims(c) PROVE FALSE
      <4>1. PICK u \in Clients : <<t, x>> \in {u} \X PreparedBy(u, c)
        BY <3>1 DEF CallClaims
      <4>2. x \in PreparedBy(t, c)
        BY <4>1
      <4>3. QED  BY <3>1, <4>2
    <3>2. QED  BY <2>1, <3>1
  <2>4. IsFiniteSet(N) /\ Cardinality(N) = (IF c = p THEN 1 ELSE 0)
    BY <2>1, FS_Singleton, FS_EmptySet
  <2>5. IsFiniteSet(CallClaims(c)) /\ Cardinality(CallClaims(c)) \in Nat /\ Cardinality(JobClaims(c)) \in Nat
    BY CallClaimsOf, JobClaimsOf
  <2>6. Cardinality(CallClaims(c)') = Cardinality(CallClaims(c)) + Cardinality(N)
    BY <2>2, <2>3, <2>4, <2>5, CountMore
  <2>7. pins'[c] = pins[c] + (IF c = p THEN 1 ELSE 0)
    <3>1. pins \in [Chunks -> Int]
      BY DEF TaskInv, Shape
    <3>2. QED  BY <1>3, <3>1
  <2>8. pins[c] = Cardinality(JobClaims(c)) + Cardinality(CallClaims(c))
    BY ExactPins
  <2>9. JobClaims(c)' = JobClaims(c)
    BY <1>2
  <2>10. QED  BY <2>4, <2>5, <2>6, <2>7, <2>8, <2>9
<1>4. QED  BY <1>3, ExactPinsNext

\* One page is appended to the own pages, or to those of the inner call.
LEMMA AppendedClaim ==
  ASSUME NEW s \in Seq(Chunks), NEW s2, NEW p \in Chunks, s2 = Append(s, p), NEW c
  PROVE  {i \in DOMAIN s2 : s2[i] = c}
           = {i \in DOMAIN s : s[i] = c} \cup (IF c = p THEN {Len(s) + 1} ELSE {})
<1>1. /\ DOMAIN s = 1 .. Len(s) /\ Len(s) \in Nat
      /\ DOMAIN s2 = 1 .. Len(s) + 1
      /\ \A i \in 1 .. Len(s) : s2[i] = s[i]
      /\ s2[Len(s) + 1] = p
  OBVIOUS
<1>2. QED  BY <1>1

LEMMA PreparePins ==
  ASSUME TaskInv, PinsExact, NEW t \in Clients, PrepareReadPage(t)
  PROVE  PinsExact'
<1>1. PICK p, n : p = Next1(t) /\ n = Len(thread[t].pages) + 1
  OBVIOUS
<1>2. /\ \A u \in Threads \ {t} : thread'[u] = thread[u]
      /\ thread'[t].pages = Append(thread[t].pages, p)
      /\ thread'[t].outer = thread[t].outer
  BY <1>1, PreparePageTasks
<1>3. /\ p \in Chunks /\ pins' = [pins EXCEPT ![p] = @ + 1]
      /\ thread[t].pages \in Seq(Chunks) /\ Len(thread[t].pages) \in Nat
  BY <1>1, NextPrepared, ClientsCall DEF PrepareReadPage, Next1
<1>4. PagesStay
  BY ClientStepPages DEF ClientStep
<1>5. \A u \in Clients \ {t} : thread'[u] = thread[u]
  BY <1>2, Constants
<1>6. DOMAIN thread[t].pages = 1 .. Len(thread[t].pages)
  BY <1>3
<1>7. \A c : {i \in DOMAIN thread'[t].pages : thread'[t].pages[i] = c}
           = {i \in DOMAIN thread[t].pages : thread[t].pages[i] = c} \cup (IF c = p THEN {n} ELSE {})
  BY <1>1, <1>2, <1>3, AppendedClaim
<1>8. CASE thread[t].outer = NoFrame
  <2>1. OwnPages(t) = thread[t].pages /\ RemapPages(t) = <<>>
        /\ OwnPages(t)' = thread'[t].pages /\ RemapPages(t)' = <<>>
    BY <1>2, <1>8 DEF OwnPages, RemapPages
  <2>2. ASSUME NEW c
        PROVE  PreparedBy(t, c)' = PreparedBy(t, c) \cup (IF c = p THEN {<<"own", n>>} ELSE {})
    BY <1>7, <2>1 DEF PreparedBy
  <2>3. <<"own", n>> \notin PreparedBy(t, p)
    BY <1>1, <1>3, <1>6, <2>1 DEF PreparedBy
  <2>4. QED  BY <1>3, <1>4, <1>5, <2>2, <2>3, PinsTaken
<1>9. CASE thread[t].outer # NoFrame
  <2>1. RemapPages(t) = thread[t].pages /\ RemapPages(t)' = thread'[t].pages
        /\ OwnPages(t)' = OwnPages(t)
    BY <1>2, <1>9 DEF OwnPages, RemapPages, RemapTarget
  <2>2. ASSUME NEW c
        PROVE  PreparedBy(t, c)' = PreparedBy(t, c) \cup (IF c = p THEN {<<"remap", n>>} ELSE {})
    BY <1>7, <2>1 DEF PreparedBy
  <2>3. <<"remap", n>> \notin PreparedBy(t, p)
    BY <1>1, <1>3, <1>6, <2>1 DEF PreparedBy
  <2>4. QED  BY <1>3, <1>4, <1>5, <2>2, <2>3, PinsTaken
<1>10. QED  BY <1>8, <1>9

LEMMA AddRemapPins ==
  ASSUME TaskInv, PinsExact, NEW t \in Clients, AddRemapJob(t)
  PROVE  PinsExact'
<1>1. PICK p, n, s : p = Next1(t) /\ s = thread[t].pages /\ n = Len(s) + 1
  OBVIOUS
<1>2. /\ \A u \in Threads \ {t} : thread'[u] = thread[u]
      /\ thread[t].outer = NoFrame /\ thread'[t].pages = <<>>
      /\ thread'[t].outer = [request |-> thread[t].request, pages |-> s]
      /\ thread'[t].outer # NoFrame /\ At(t, "prepare")
  BY <1>1, AddRemapJobTasks
<1>3. /\ p \in Chunks /\ pins' = [pins EXCEPT ![p] = @ + 1]
      /\ s \in Seq(Chunks) /\ Len(s) \in Nat /\ DOMAIN s = 1 .. Len(s)
  <2>1. p \in Chunks
    BY <1>1, <1>2, NextPrepared
  <2>2. pins' = [pins EXCEPT ![p] = @ + 1]
    BY <1>1 DEF AddRemapJob, Next1
  <2>3. s \in Seq(Chunks)
    BY <1>1, ClientsCall
  <2>4. QED  BY <2>1, <2>2, <2>3
<1>4. PagesStay
  BY ClientStepPages DEF ClientStep
<1>5. \A u \in Clients \ {t} : thread'[u] = thread[u]
  BY <1>2, Constants
<1>6. OwnPages(t)' = Append(s, p) /\ RemapPages(t)' = <<>>
      /\ OwnPages(t) = s /\ RemapPages(t) = <<>>
  <2>1. thread'[t].outer.pages = s /\ thread'[t].outer.request = thread[t].request
    BY <1>2
  <2>2. RemapTarget(t)' = p
    BY <1>1, <1>2, <2>1 DEF RemapTarget, Next1
  <2>3. QED  BY <1>1, <1>2, <2>1, <2>2 DEF OwnPages, RemapPages
<1>7. PICK s2 : s2 = Append(s, p)
  OBVIOUS
<1>8. ASSUME NEW c
      PROVE  PreparedBy(t, c)' = PreparedBy(t, c) \cup (IF c = p THEN {<<"own", n>>} ELSE {})
  <2>1. {i \in DOMAIN s2 : s2[i] = c}
          = {i \in DOMAIN s : s[i] = c} \cup (IF c = p THEN {n} ELSE {})
    BY <1>1, <1>3, <1>7, AppendedClaim
  <2>2. PreparedBy(t, c)' = {"own"} \X {i \in DOMAIN s2 : s2[i] = c}
    BY <1>6, <1>7 DEF PreparedBy
  <2>3. PreparedBy(t, c) = {"own"} \X {i \in DOMAIN s : s[i] = c}
    BY <1>6 DEF PreparedBy
  <2>4. QED  BY <2>1, <2>2, <2>3
<1>9. <<"own", n>> \notin PreparedBy(t, p)
  BY <1>1, <1>3, <1>6 DEF PreparedBy
<1>10. QED  BY <1>3, <1>4, <1>5, <1>8, <1>9, PinsTaken

LEMMA TasksOfJob ==
  ASSUME NEW j \in Jobs, NEW n \in Nat, NEW single \in BOOLEAN
  PROVE  \A k \in DOMAIN Tasks(j, n, single) : Tasks(j, n, single)[k].job = j
BY TaskSequence

\* All pages of a new job are to be counted.
LEMMA AddJobPending ==
  ASSUME TaskInv, NEW t \in Clients, AddJob(t), NEW j, j = Len(job) + 1, ~thread[t].refused
  PROVE  job'[j].pages = thread[t].pages /\ Pending(j)' = DOMAIN thread[t].pages
<1>1. PICK s : s = thread[t].pages
  OBVIOUS
<1>2. j \in Jobs /\ \E r \in JobRecord, T \in Seq(Task) : AddsTasks(j, r, T) /\ JobOfCall(t, r, T)
  BY AddJobTasks
<1>3. PICK r \in JobRecord, T \in Seq(Task) : AddsTasks(j, r, T) /\ JobOfCall(t, r, T)
  BY <1>2
<1>4. At(t, "enqueue")
  BY DEF AddJob
<1>5. s \in Seq(Chunks) /\ DOMAIN s = 1 .. Len(s) /\ Len(s) \in Nat
  BY <1>1, ClientsCall
<1>6. r.pages = s /\ T = Tasks(j, Len(s), r.single) /\ job'[j] = r
  BY <1>1, <1>3 DEF JobOfCall, AddsTasks
<1>7. ASSUME NEW i \in DOMAIN s PROVE Queued(j, i)'
  <2>1. PICK l \in DOMAIN T : T[l].job = j /\ T[l].page \in {0, i}
    <3>1. j \in Jobs /\ Len(s) \in Nat /\ r.single \in BOOLEAN
      BY <1>2, <1>5 DEF JobRecord
    <3>2. CASE r.single
      <4>0. PICK n \in Nat, single \in BOOLEAN : n = Len(s) /\ single = r.single
        BY <3>1
      <4>1. T = Tasks(j, n, single) /\ single
        BY <1>6, <3>2, <4>0
      <4>2. DOMAIN Tasks(j, n, single) = {1} /\ Tasks(j, n, single)[1].page = 0
        BY <3>1, <4>1, TaskSequence
      <4>3. \A k \in DOMAIN Tasks(j, n, single) : Tasks(j, n, single)[k].job = j
        BY <3>1, <4>0, TasksOfJob
      <4>4. 1 \in DOMAIN T /\ T[1].job = j /\ T[1].page = 0
        BY <4>1, <4>2, <4>3
      <4>5. QED  BY <4>4
    <3>3. CASE ~r.single
      <4>1. PICK n \in Nat, single \in BOOLEAN : n = Len(s) /\ single = r.single
        BY <3>1
      <4>2. T = Tasks(j, n, single) /\ ~single /\ i \in 1 .. n
        BY <1>5, <1>6, <1>7, <3>3, <4>1
      <4>3. /\ DOMAIN Tasks(j, n, single) = 1 .. n
            /\ \A k \in 1 .. n : Tasks(j, n, single)[k].page = k
        BY <3>1, <4>2, TaskSequence
      <4>4. \A k \in DOMAIN Tasks(j, n, single) : Tasks(j, n, single)[k].job = j
        BY <3>1, <4>1, TasksOfJob
      <4>5. i \in DOMAIN T /\ T[i].job = j /\ T[i].page = i
        BY <4>2, <4>3, <4>4
      <4>6. QED  BY <4>5
    <3>4. QED  BY <3>2, <3>3
  <2>2. Len(queue) + l \in DOMAIN queue' /\ queue'[Len(queue) + l] = T[l]
    BY <1>3, <2>1 DEF AddsTasks
  <2>3. QED  BY <2>1, <2>2 DEF Queued
<1>8. \A i \in DOMAIN s : HasPinned(j, i)'
  BY <1>7 DEF HasPinned
<1>9. QED  BY <1>1, <1>6, <1>8 DEF Pending

LEMMA SamePrepared ==
  ASSUME NEW u, NEW c, thread'[u] = thread[u]
  PROVE  PreparedBy(u, c)' = PreparedBy(u, c)
<1>1. OwnPages(u)' = OwnPages(u) /\ RemapPages(u)' = RemapPages(u)
  BY DEF OwnPages, RemapPages, RemapTarget
<1>2. QED  BY <1>1 DEF PreparedBy

\* The positions of c in the pages of a call go to the job that it adds.
LEMMA AddJobPins ==
  ASSUME TaskInv, PinsExact, NEW t \in Clients, AddJob(t)
  PROVE  PinsExact'
<1>1. PICK j, s : j = Len(job) + 1 /\ s = thread[t].pages
  OBVIOUS
<1>2. /\ TaskInv' /\ JobAdded(t, j) /\ j \in Jobs
      /\ \E r \in JobRecord, T \in Seq(Task) : AddsTasks(j, r, T) /\ JobOfCall(t, r, T)
  BY <1>1, AddJobTasks
<1>3. PICK r \in JobRecord, T \in Seq(Task) : AddsTasks(j, r, T) /\ JobOfCall(t, r, T)
  BY <1>2
<1>4. At(t, "enqueue")
  BY DEF AddJob
<1>5. /\ \A u \in Threads \ {t} : thread'[u] = thread[u]
      /\ thread'[t].outer = NoFrame
      /\ thread[t].outer = NoFrame => thread'[t].pages = <<>>
      /\ thread[t].outer # NoFrame =>
           thread'[t].pages = Append(thread[t].outer.pages, RemapTarget(t))
  BY <1>2, <1>4, CallReturns
<1>6. s \in Seq(Chunks) /\ DOMAIN s = 1 .. Len(s) /\ Len(s) \in Nat
  BY <1>1, ClientsCall
<1>7. PICK tag : tag = IF thread[t].outer = NoFrame THEN "own" ELSE "remap"
  OBVIOUS
<1>8. ASSUME NEW c, NEW L, L = {i \in DOMAIN s : s[i] = c}
      PROVE  /\ PreparedBy(t, c)' = PreparedBy(t, c) \ ({tag} \X L)
             /\ {tag} \X L \subseteq PreparedBy(t, c)
  <2>1. CASE thread[t].outer = NoFrame
    <3>1. OwnPages(t) = s /\ RemapPages(t) = <<>> /\ OwnPages(t)' = <<>> /\ RemapPages(t)' = <<>>
      BY <1>1, <1>5, <2>1 DEF OwnPages, RemapPages
    <3>2. PreparedBy(t, c) = {"own"} \X L
      BY <1>8, <3>1 DEF PreparedBy
    <3>3. PreparedBy(t, c)' = {}
      BY <3>1 DEF PreparedBy
    <3>4. QED  BY <1>7, <2>1, <3>2, <3>3
  <2>2. CASE thread[t].outer # NoFrame
    <3>1. OwnPages(t)' = OwnPages(t) /\ RemapPages(t) = s /\ RemapPages(t)' = <<>>
      BY <1>1, <1>5, <2>2 DEF OwnPages, RemapPages
    <3>2. PICK A : A = {"own"} \X {i \in DOMAIN OwnPages(t) : OwnPages(t)[i] = c}
      OBVIOUS
    <3>3. PreparedBy(t, c) = A \cup ({"remap"} \X L)
      BY <1>8, <3>1, <3>2 DEF PreparedBy
    <3>4. PreparedBy(t, c)' = A
      BY <3>1, <3>2 DEF PreparedBy
    <3>5. A \cap ({"remap"} \X L) = {}
      BY <3>2
    <3>6. tag = "remap"
      BY <1>7, <2>2
    <3>7. QED  BY <3>3, <3>4, <3>5, <3>6
  <2>3. QED  BY <2>1, <2>2
<1>9. /\ DOMAIN job' = DOMAIN job \cup {j} /\ j \notin DOMAIN job /\ job'[j] = r
      /\ \A k \in DOMAIN job : job'[k] = job[k] /\ Pending(k)' = Pending(k)
  BY <1>3 DEF AddsTasks
<1>10. ASSUME NEW c \in Chunks
       PROVE  pins'[c] = Cardinality(JobClaims(c)') + Cardinality(CallClaims(c)')
  <2>1. PICK L : L = {i \in DOMAIN s : s[i] = c}
    OBVIOUS
  <2>2. PICK M : M = {tag} \X L
    OBVIOUS
  <2>3. PreparedBy(t, c)' = PreparedBy(t, c) \ M /\ M \subseteq PreparedBy(t, c)
    BY <1>8, <2>1, <2>2
  <2>4. CallClaims(c)' = CallClaims(c) \ ({t} \X M) /\ {t} \X M \subseteq CallClaims(c)
    <3>1. ASSUME NEW u \in Clients \ {t} PROVE PreparedBy(u, c)' = PreparedBy(u, c)
      <4>1. thread'[u] = thread[u]
        BY <1>5, Constants
      <4>2. QED  BY <4>1, SamePrepared
    <3>2. ASSUME NEW y PROVE y \in CallClaims(c)' <=> y \in CallClaims(c) /\ y \notin {t} \X M
      <4>1. y \in CallClaims(c)' <=> \E u \in Clients : y \in {u} \X PreparedBy(u, c)'
        BY DEF CallClaims
      <4>2. y \in CallClaims(c) <=> \E u \in Clients : y \in {u} \X PreparedBy(u, c)
        BY DEF CallClaims
      <4>3. y \in {t} \X PreparedBy(t, c)' <=> y \in {t} \X PreparedBy(t, c) /\ y \notin {t} \X M
        BY <2>3
      <4>4. \A u \in Clients \ {t} : y \in {u} \X PreparedBy(u, c) => y \notin {t} \X M
        OBVIOUS
      <4>5. QED  BY <3>1, <4>1, <4>2, <4>3, <4>4
    <3>3. {t} \X M \subseteq CallClaims(c)
      BY <2>3 DEF CallClaims
    <3>4. QED  BY <3>2, <3>3
  <2>5. IsFiniteSet(L) /\ Cardinality(L) \in Nat
    BY <1>6, <2>1, PositionsFinite
  <2>6. Cardinality({t} \X M) = Cardinality(L)
    <3>1. IsFiniteSet(M) /\ Cardinality(M) = Cardinality(L)
      BY <2>2, <2>5, SingleCount
    <3>2. QED  BY <3>1, SingleCount
  <2>7. /\ IsFiniteSet(CallClaims(c)) /\ Cardinality(CallClaims(c)) \in Nat
        /\ IsFiniteSet(JobClaims(c)) /\ Cardinality(JobClaims(c)) \in Nat
    BY CallClaimsOf, JobClaimsOf
  <2>8. Cardinality(CallClaims(c)') = Cardinality(CallClaims(c)) - Cardinality(L)
    BY <2>4, <2>6, <2>7, CountLess
  <2>9. pins[c] = Cardinality(JobClaims(c)) + Cardinality(CallClaims(c))
    BY ExactPins
  <2>10. CASE thread[t].refused
    <3>1. r.done /\ pins'[c] = pins[c] - Cardinality(L)
      BY <1>1, <1>3, <2>1, <2>10 DEF JobOfCall
    <3>2. Pending(j)' = {}
      BY <1>2, <1>9, <3>1 DEF TaskInv, Counts
    <3>3. ASSUME NEW p PROVE p \in JobClaims(c)' <=> p \in JobClaims(c)
      <4>1. p \in JobClaims(c)' <=>
               \E k \in DOMAIN job : \E i \in Pending(k) : job[k].pages[i] = c /\ p = <<k, i>>
        BY <1>9, <3>2, ClaimNext
      <4>2. QED  BY <4>1, ClaimIn
    <3>4. JobClaims(c)' = JobClaims(c)
      BY <3>3
    <3>5. QED  BY <2>5, <2>7, <2>8, <2>9, <3>1, <3>4
  <2>11. CASE ~thread[t].refused
    <3>1. r.pages = s /\ pins' = pins /\ T = Tasks(j, Len(s), r.single)
      BY <1>1, <1>3, <2>11 DEF JobOfCall
    <3>2. Pending(j)' = DOMAIN s
      BY <1>1, <2>11, AddJobPending
    <3>3. ASSUME NEW p PROVE p \in JobClaims(c)' <=> p \in JobClaims(c) \/ p \in {j} \X L
      <4>1. p \in JobClaims(c)' <=>
               \/ \E k \in DOMAIN job : \E i \in Pending(k) : job[k].pages[i] = c /\ p = <<k, i>>
               \/ \E i \in Pending(j)' : job'[j].pages[i] = c /\ p = <<j, i>>
        BY <1>9, ClaimNext
      <4>2. (\E i \in Pending(j)' : job'[j].pages[i] = c /\ p = <<j, i>>) <=> p \in {j} \X L
        BY <1>9, <2>1, <3>1, <3>2
      <4>3. QED  BY <4>1, <4>2, ClaimIn
    <3>4. JobClaims(c)' = JobClaims(c) \cup ({j} \X L)
      BY <3>3
    <3>5. JobClaims(c) \cap ({j} \X L) = {}
      <4>1. ASSUME NEW p \in JobClaims(c) PROVE p \notin {j} \X L
        <5>1. PICK k \in DOMAIN job : \E i \in Pending(k) : job[k].pages[i] = c /\ p = <<k, i>>
          BY <4>1, ClaimIn
        <5>2. k # j
          BY <1>9
        <5>3. QED  BY <5>1, <5>2
      <4>2. QED  BY <4>1
    <3>6. IsFiniteSet({j} \X L) /\ Cardinality({j} \X L) = Cardinality(L)
      BY <2>5, SingleCount
    <3>7. Cardinality(JobClaims(c)') = Cardinality(JobClaims(c)) + Cardinality({j} \X L)
      BY <2>7, <3>4, <3>5, <3>6, CountMore
    <3>8. QED  BY <2>5, <2>7, <2>8, <2>9, <3>1, <3>6, <3>7
  <2>12. QED  BY <2>10, <2>11
<1>11. QED  BY <1>10, ExactPinsNext

LEMMA InitPins == Init => PinsExact
<1>1. SUFFICES ASSUME Init PROVE PinsExact
  OBVIOUS
<1>2. ASSUME NEW c \in Chunks PROVE pins[c] = Cardinality(JobClaims(c)) + Cardinality(CallClaims(c))
  <2>1. JobClaims(c) = {}
    BY <1>1 DEF Init, JobClaims
  <2>2. \A t \in Clients : PreparedBy(t, c) = {}
    <3>1. ASSUME NEW t \in Clients PROVE PreparedBy(t, c) = {}
      <4>1. thread[t].outer = NoFrame /\ thread[t].pages = <<>>
        BY <1>1, Constants DEF Init
      <4>2. OwnPages(t) = <<>> /\ RemapPages(t) = <<>>
        BY <4>1 DEF OwnPages, RemapPages
      <4>3. QED  BY <4>2 DEF PreparedBy
    <3>2. QED  BY <3>1
  <2>3. CallClaims(c) = {}
    BY <2>2 DEF CallClaims
  <2>4. pins[c] = 0
    BY <1>1, <1>2 DEF Init
  <2>5. QED  BY <2>1, <2>3, <2>4, FS_EmptySet
<1>3. QED  BY <1>2, ExactPins

LEMMA NextPins ==
  ASSUME TaskInv, PinsExact, [Next]_vars
  PROVE  PinsExact'
<1>1. ASSUME NEW w \in Workers, Working(w) PROVE PinsExact'
  <2>1. Handling(w) \/ CancelPage(w) \/ UnPinPage(w) \/ AbandonPages(w)
    BY <1>1 DEF Working, Handling
  <2>2. QED  BY <2>1, HandlingPins, CancelPagePins, UnPinPagePins, AbandonPins
<1>2. ASSUME NEW t \in Clients, AddJob(t) PROVE PinsExact'
  BY <1>2, AddJobPins
<1>3. ASSUME NEW t \in Clients, PrepareReadPage(t) \/ AddRemapJob(t) PROVE PinsExact'
  BY <1>3, PreparePins, AddRemapPins
<1>4. ASSUME NEW t \in Clients, Asking(t) PROVE PinsExact'
  BY <1>4, AskedPins
<1>5. ASSUME OtherStep PROVE PinsExact'
  BY <1>5, AskedPins
<1>6. QED  BY <1>1, <1>2, <1>3, <1>4, <1>5 DEF Next, Adding, Asking, OtherStep

\* Pages that were prepared are pinned exactly as often as they are still to be
\* given back, by tasks and by calls in progress.
THEOREM PinsStayExact == Spec => []PinsExact
<1>1. PinsExact /\ TaskInv /\ [Next]_vars => PinsExact'
  BY NextPins
<1>2. QED  BY <1>1, InitPins, TaskInvariance, PTL DEF Spec
=============================================================================
