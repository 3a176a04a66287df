-------------------- MODULE RequestProcessorPagesProofs --------------------
(***************************************************************************)
(* Theorems about RequestProcessor that rest on the counts and pins of     *)
(* RequestProcessorProofs: the references to the page accessors and their  *)
(* destructor, the pages of a remapped layer and the jobs that read them,  *)
(* whose the jobs are, and what the owner of a job is told.                *)
(***************************************************************************)
EXTENDS RequestProcessorProofs

USE DEF At

-----------------------------------------------------------------------------
(* The pages of tasks.                                                     *)

\* A page that is still to be counted has not been forgotten, but by the worker
\* that gave it back and is about to count it.
Forgetting == {"cancelRemap", "cancelWait", "unpin"}
Forgets(w, j, i) == thread[w].pc \in Forgetting /\ thread[w].job = j /\ thread[w].page = i
PagesPending == \A j \in DOMAIN job : \A i \in Pending(j) :
  job[j].pages[i] \in Chunks \/ \E w \in Workers : Forgets(w, j, i)
WaitingPages == \A w \in Workers :
  /\ thread[w].pc \in {"remapWait", "await"} => PageOf(w) \in TargetChunks
  /\ thread[w].pc \in {"cancelRemap", "cancelWait"} => PageOf(w) = NoChunk
PageInv == PagesPending /\ WaitingPages

LEMMA CarriedPage ==
  ASSUME TaskInv, PagesPending, NEW w \in Workers,
         thread[w].pc \in {"page", "remapWait", "await", "process"}
  PROVE  PageOf(w) \in Chunks
<1>1. PICK j, i : j = thread[w].job /\ i = thread[w].page
  OBVIOUS
<1>2. j \in DOMAIN job /\ i \in Pending(j)
  BY <1>1, CarriesPending DEF Carrying, UsingJob
<1>3. ASSUME NEW v \in Workers, Forgets(v, j, i) PROVE FALSE
  <2>1. v # w
    BY <1>3 DEF Forgets, Forgetting
  <2>2. HasTask(v) /\ HasTask(w)
    <3>1. ~At(v, "idle") /\ ~At(w, "idle")
      BY <1>3 DEF Forgets, Forgetting
    <3>2. QED  BY <3>1, WorkersPage DEF HasTask
  <2>3. QED  BY <1>1, <1>3, <2>1, <2>2 DEF TaskInv, OneRuns, Forgets
<1>4. QED  BY <1>1, <1>2, <1>3 DEF PagesPending, PageOf, JobOf

LEMMA PageKept ==
  ASSUME TaskInv, PagesStay, NEW w \in Workers, thread[w].pc \in Carrying,
         thread'[w].job = thread[w].job, thread'[w].page = thread[w].page
  PROVE  PageOf(w)' = PageOf(w)
<1>1. thread[w].job \in DOMAIN job /\ ~job[thread[w].job].done
  BY CarriesPending DEF JobOf
<1>2. job'[thread[w].job].pages = job[thread[w].job].pages
  BY <1>1 DEF PagesStay
<1>3. QED  BY <1>2 DEF PageOf, JobOf

\* What becomes of the page of a worker that takes one of these steps.
HandledPage(w) ==
  /\ thread[w].pc \in Forgetting => thread'[w].pc \in Forgetting
  /\ thread[w].pc \in Forgetting \/ thread'[w].pc \in {"remapWait", "await", "cancelRemap", "cancelWait"} =>
       thread'[w].job = thread[w].job /\ thread'[w].page = thread[w].page /\ thread[w].pc \in Carrying
  /\ thread'[w].pc \in {"remapWait", "await"} =>
       PageOf(w) \in TargetChunks \/ thread[w].pc \in {"remapWait", "await"}
  /\ thread'[w].pc \in {"cancelRemap", "cancelWait"} => thread[w].pc \in {"cancelRemap", "cancelWait"}

LEMMA MovedPage ==
  ASSUME NEW w \in Workers, NEW pc \in Carrying, NEW waitsFor, NEW failed, Moves(w, pc, waitsFor, failed),
         thread[w].pc \in Carrying,
         thread[w].pc \in Forgetting => pc \in Forgetting,
         pc \in {"remapWait", "await"} =>
           PageOf(w) \in TargetChunks \/ thread[w].pc \in {"remapWait", "await"},
         pc \in {"cancelRemap", "cancelWait"} => thread[w].pc \in {"cancelRemap", "cancelWait"}
  PROVE  HandledPage(w)
BY DEF Moves, HandledPage

LEMMA HandlingPage ==
  ASSUME TaskInv, NEW w \in Workers, Handling(w)
  PROVE  HandledPage(w)
<1>1. CASE FindError(w)
  <2>1. thread[w].pc = "page" /\ Moves(w, "page", thread[w].waitsFor, TRUE)
    BY <1>1, FindErrorTasks DEF FindError
  <2>2. "page" \in Carrying /\ "page" \notin Forgetting
    BY DEF Carrying, UsingJob, Forgetting
  <2>3. QED  BY <2>1, <2>2, MovedPage
<1>2. CASE CancelRemap(w)
  <2>1. thread[w].pc = "cancelRemap" /\ Moves(w, "cancelWait", thread[w].waitsFor, thread[w].failed)
    BY <1>2, CancelRemapTasks DEF CancelRemap
  <2>2. {"cancelRemap", "cancelWait"} \subseteq Carrying /\ "cancelWait" \in Forgetting
    BY DEF Carrying, UsingJob, Forgetting
  <2>3. QED  BY <2>1, <2>2, MovedPage
<1>3. CASE RemapCanceled(w)
  <2>1. thread[w].pc = "cancelWait" /\ Moves(w, "unpin", 0, thread[w].failed)
    BY <1>3, RemapCanceledTasks DEF RemapCanceled
  <2>2. {"cancelWait", "unpin"} \subseteq Carrying /\ "unpin" \in Forgetting
    BY DEF Carrying, UsingJob, Forgetting
  <2>3. QED  BY <2>1, <2>2, MovedPage
<1>4. CASE StartPage(w)
  <2>1. thread[w].pc = "page"
    BY <1>4 DEF StartPage
  <2>2. {"page", "process", "unpin", "remapWait", "await"} \subseteq Carrying /\ "page" \notin Forgetting
    BY DEF Carrying, UsingJob, Forgetting
  <2>3. \/ \E waitsFor, failed :
             Moves(w, "process", waitsFor, failed) \/ Moves(w, "unpin", waitsFor, failed)
        \/ /\ PageOf(w) \in TargetChunks
           /\ \E waitsFor, failed :
                Moves(w, "remapWait", waitsFor, failed) \/ Moves(w, "await", waitsFor, failed)
    BY <1>4, StartPageTasks
  <2>4. QED  BY <2>1, <2>2, <2>3, MovedPage
<1>5. CASE AwaitReader(w)
  <2>1. thread[w].pc = "await"
    BY <1>5 DEF AwaitReader
  <2>2. {"process", "unpin", "await"} \subseteq Carrying /\ "await" \notin Forgetting
    BY DEF Carrying, UsingJob, Forgetting
  <2>3. \E waitsFor, failed :
          Moves(w, "process", waitsFor, failed) \/ Moves(w, "unpin", waitsFor, failed)
    BY <1>5, AwaitReaderTasks
  <2>4. QED  BY <2>1, <2>2, <2>3, MovedPage
<1>6. CASE RemapReturns(w)
  <2>1. thread[w].pc = "remapWait"
    BY <1>6 DEF RemapReturns
  <2>2. {"process", "unpin", "remapWait"} \subseteq Carrying /\ "remapWait" \notin Forgetting
    BY DEF Carrying, UsingJob, Forgetting
  <2>3. \E waitsFor, failed :
          Moves(w, "process", waitsFor, failed) \/ Moves(w, "unpin", waitsFor, failed)
    BY <1>6, RemapReturnsTasks
  <2>4. QED  BY <2>1, <2>2, <2>3, MovedPage
<1>7. CASE ProcessPage(w)
  <2>1. thread[w].pc = "process"
    BY <1>7 DEF ProcessPage
  <2>2. {"process", "unpin"} \subseteq Carrying /\ "process" \notin Forgetting
    BY DEF Carrying, UsingJob, Forgetting
  <2>3. \E waitsFor, failed : Moves(w, "unpin", waitsFor, failed)
    BY <1>7, ProcessPageTasks
  <2>4. QED  BY <2>1, <2>2, <2>3, MovedPage
<1>8. CASE MarkJobAsDone(w)
  <2>1. thread[w].pc = "last" /\ thread'[w].pc = "after"
    BY <1>8, MarkJobTasks DEF MarkJobAsDone, Moves
  <2>2. QED  BY <2>1 DEF HandledPage, Forgetting
<1>9. CASE NextPage(w) \/ TakeTask(w) \/ FinishTask(w)
  <2>1. thread[w].pc \in {"after", "idle", "future"} /\ thread'[w].pc \in {"page", "future", "idle"}
    BY <1>9, NextPageTasks, TakeTaskTasks, FinishTaskTasks DEF NextPage, TakeTask, FinishTask
  <2>2. QED  BY <2>1 DEF HandledPage, Forgetting
<1>10. CASE Sleep(w)
  <2>1. thread' = thread
    BY <1>10 DEF Sleep
  <2>2. QED  BY <2>1 DEF HandledPage, Forgetting, Carrying, UsingJob
<1>11. QED  BY <1>1, <1>2, <1>3, <1>4, <1>5, <1>6, <1>7, <1>8, <1>9, <1>10 DEF Handling

LEMMA StayingPages ==
  ASSUME TaskInv, PageInv, PagesStay,
         \A v \in Workers : HandledPage(v) \/ thread'[v] = thread[v]
  PROVE  PageInv'
<1>1. \A v \in Workers : HandledPage(v)
  BY DEF HandledPage, Forgetting, Carrying, UsingJob
<1>2. PagesPending'
  <2>1. ASSUME NEW j \in DOMAIN job', NEW i \in Pending(j)'
        PROVE  job'[j].pages[i] \in Chunks \/ \E w \in Workers : Forgets(w, j, i)'
    <3>1. j \in DOMAIN job /\ i \in Pending(j) /\ job'[j].pages = job[j].pages
      BY <2>1 DEF PagesStay, TaskInv, Counts
    <3>2. CASE job[j].pages[i] \in Chunks
      BY <3>1, <3>2
    <3>3. ASSUME NEW w \in Workers, Forgets(w, j, i) PROVE Forgets(w, j, i)'
      BY <1>1, <3>3 DEF HandledPage, Forgets
    <3>4. QED  BY <3>1, <3>2, <3>3 DEF PageInv, PagesPending
  <2>2. QED  BY <2>1 DEF PagesPending
<1>3. WaitingPages'
  <2>1. ASSUME NEW w \in Workers,
               thread'[w].pc \in {"remapWait", "await", "cancelRemap", "cancelWait"}
        PROVE  PageOf(w)' = PageOf(w)
    BY <1>1, <2>1, PageKept DEF HandledPage
  <2>2. ASSUME NEW w \in Workers, thread'[w].pc \in {"remapWait", "await"}
        PROVE  PageOf(w)' \in TargetChunks
    <3>1. PageOf(w)' = PageOf(w)
      BY <2>1, <2>2
    <3>2. PageOf(w) \in TargetChunks
      BY <1>1, <2>2 DEF HandledPage, PageInv, WaitingPages
    <3>3. QED  BY <3>1, <3>2
  <2>3. ASSUME NEW w \in Workers, thread'[w].pc \in {"cancelRemap", "cancelWait"}
        PROVE  PageOf(w)' = NoChunk
    <3>1. PageOf(w)' = PageOf(w)
      BY <2>1, <2>3
    <3>2. PageOf(w) = NoChunk
      BY <1>1, <2>3 DEF HandledPage, PageInv, WaitingPages
    <3>3. QED  BY <3>1, <3>2
  <2>4. QED  BY <2>2, <2>3 DEF WaitingPages
<1>4. QED  BY <1>2, <1>3 DEF PageInv

\* A worker keeps its page when others give back theirs.
OtherPages(w) == \A v \in Workers \ {w} : thread[v].pc \in Carrying => PageOf(v)' = PageOf(v)

LEMMA OnePageGiven ==
  ASSUME TaskInv, NEW w \in Workers, \A v \in Workers \ {w} : thread'[v] = thread[v],
         thread[w].job # 0,
         \A k \in DOMAIN job : \A i \in DOMAIN job[k].pages :
           k # thread[w].job \/ (~job[k].single /\ i # thread[w].page)
             => job'[k].pages[i] = job[k].pages[i]
  PROVE  OtherPages(w)
<1>1. ASSUME NEW v \in Workers \ {w}, thread[v].pc \in Carrying PROVE PageOf(v)' = PageOf(v)
  <2>1. thread[v].job \in DOMAIN job /\ thread[v].page \in Pending(thread[v].job)
    BY <1>1, CarriesPending
  <2>2. thread[v].page \in DOMAIN job[thread[v].job].pages
    BY <2>1 DEF Pending
  <2>3. HasTask(v) /\ HasTask(w)
    <3>1. ~At(v, "idle")
      BY <1>1 DEF Carrying, UsingJob
    <3>2. QED  BY <1>1, <3>1, WorkersPage DEF HasTask
  <2>4. \/ thread[v].job # thread[w].job
        \/ ~job[thread[v].job].single /\ thread[v].page # thread[w].page
    BY <1>1, <2>3 DEF TaskInv, OneRuns, JobOf
  <2>5. job'[thread[v].job].pages[thread[v].page] = job[thread[v].job].pages[thread[v].page]
    BY <2>1, <2>2, <2>4
  <2>6. QED  BY <1>1, <2>5 DEF PageOf, JobOf
<1>2. QED  BY <1>1 DEF OtherPages

\* The pages of the other workers.
LEMMA OtherPagesWait ==
  ASSUME PageInv, NEW w \in Workers, OtherPages(w), \A v \in Workers \ {w} : thread'[v] = thread[v],
         thread'[w].pc \notin {"remapWait", "await"},
         thread'[w].pc \in {"cancelRemap", "cancelWait"} => PageOf(w)' = NoChunk
  PROVE  WaitingPages'
<1>1. {"remapWait", "await", "cancelRemap", "cancelWait"} \subseteq Carrying
  BY DEF Carrying, UsingJob
<1>2. ASSUME NEW v \in Workers
      PROVE  /\ thread'[v].pc \in {"remapWait", "await"} => PageOf(v)' \in TargetChunks
             /\ thread'[v].pc \in {"cancelRemap", "cancelWait"} => PageOf(v)' = NoChunk
  <2>1. CASE v = w
    BY <2>1
  <2>2. CASE v # w
    <3>1. thread'[v] = thread[v] /\ (thread[v].pc \in Carrying => PageOf(v)' = PageOf(v))
      BY <1>2, <2>2 DEF OtherPages
    <3>2. /\ thread[v].pc \in {"remapWait", "await"} => PageOf(v) \in TargetChunks
          /\ thread[v].pc \in {"cancelRemap", "cancelWait"} => PageOf(v) = NoChunk
      BY DEF PageInv, WaitingPages
    <3>3. QED  BY <1>1, <3>1, <3>2
  <2>3. QED  BY <2>1, <2>2
<1>3. QED  BY <1>2 DEF WaitingPages

LEMMA CancelPagePage ==
  ASSUME TaskInv, PageInv, NEW w \in Workers, CancelPage(w)
  PROVE  PageInv' /\ OtherPages(w) /\ PageOf(w)' = NoChunk
<1>1. PICK j, n : j = thread[w].job /\ n = thread[w].page
  OBVIOUS
<1>2. At(w, "page") /\ thread[w].pc \in Carrying /\ queue' = queue
  BY DEF CancelPage, Carrying, UsingJob
<1>3. j \in DOMAIN job /\ n \in Pending(j) /\ ~job[j].done /\ n \in DOMAIN job[j].pages
  BY <1>1, <1>2, CarriesPending DEF JobOf, Pending
<1>4. /\ JobsAlike /\ \A k \in DOMAIN job : k # j => job'[k] = job[k]
      /\ job'[j].pages = [job[j].pages EXCEPT ![n] = NoChunk]
  BY <1>1, CancelPageAlike DEF JobOf
<1>5. /\ \A i \in DOMAIN job[j].pages : job'[j].pages[i] = IF i = n THEN NoChunk ELSE job[j].pages[i]
      /\ DOMAIN job'[j].pages = DOMAIN job[j].pages
  <2>1. PICK s \in Seq(Chunks \cup {NoChunk}) : s = job[j].pages
    BY <1>3, JobPlaces DEF JobRecord, TaskInv
  <2>2. \A i \in DOMAIN s : [s EXCEPT ![n] = NoChunk][i] = IF i = n THEN NoChunk ELSE s[i]
    BY <2>1, ReplaceOne
  <2>3. QED  BY <1>4, <2>1, <2>2
<1>6. TaskInv' /\ \E pc \in {"cancelRemap", "unpin"} : \E waitsFor, failed : Moves(w, pc, waitsFor, failed)
  BY CancelPageTasks
<1>7. PICK pc \in {"cancelRemap", "unpin"} : \E waitsFor, failed : Moves(w, pc, waitsFor, failed)
  BY <1>6
<1>8. /\ \A u \in Threads \ {w} : thread'[u] = thread[u]
      /\ \A k \in DOMAIN job : Pending(k)' = Pending(k)
  <2>1. pc \in Carrying
    BY <1>7 DEF Carrying, UsingJob
  <2>2. QED  BY <1>2, <1>4, <1>6, <1>7, <2>1, PagesOfAlike, MovedPending
<1>9. /\ thread'[w].job = j /\ thread'[w].page = n /\ thread'[w].pc = pc
      /\ \A v \in Workers \ {w} : thread'[v] = thread[v]
  BY <1>1, <1>7, Constants DEF Moves
<1>10. PageOf(w)' = NoChunk
  BY <1>3, <1>5, <1>9 DEF PageOf, JobOf
<1>11. OtherPages(w)
  <2>1. j # 0
    BY <1>3, Constants, JobPlaces DEF TaskInv
  <2>2. \A k \in DOMAIN job : \A i \in DOMAIN job[k].pages :
           k # thread[w].job \/ (~job[k].single /\ i # thread[w].page)
             => job'[k].pages[i] = job[k].pages[i]
    BY <1>1, <1>4, <1>5
  <2>3. QED  BY <1>1, <1>9, <2>1, <2>2, OnePageGiven
<1>12. WaitingPages'
  <2>1. thread'[w].pc \notin {"remapWait", "await"}
    BY <1>7, <1>9
  <2>2. QED  BY <1>9, <1>10, <1>11, <2>1, OtherPagesWait
<1>13. PagesPending'
  <2>1. ASSUME NEW k \in DOMAIN job', NEW i \in Pending(k)'
        PROVE  job'[k].pages[i] \in Chunks \/ \E v \in Workers : Forgets(v, k, i)'
    <3>1. k \in DOMAIN job /\ i \in Pending(k) /\ i \in DOMAIN job[k].pages
      BY <1>4, <1>8, <2>1, PagesOfAlike DEF Pending
    <3>2. CASE k = j /\ i = n
      <4>1. Forgets(w, k, i)'
        BY <1>7, <1>9, <3>2 DEF Forgets, Forgetting
      <4>2. QED  BY <4>1
    <3>3. CASE ~(k = j /\ i = n)
      <4>1. job'[k].pages[i] = job[k].pages[i]
        BY <1>4, <1>5, <3>1, <3>3
      <4>2. ASSUME NEW v \in Workers, Forgets(v, k, i) PROVE Forgets(v, k, i)'
        <5>1. v # w
          BY <1>1, <3>3, <4>2 DEF Forgets
        <5>2. QED  BY <1>9, <4>2, <5>1 DEF Forgets
      <4>3. QED  BY <3>1, <4>1, <4>2 DEF PageInv, PagesPending
    <3>4. QED  BY <3>2, <3>3
  <2>2. QED  BY <2>1 DEF PagesPending
<1>14. QED  BY <1>10, <1>11, <1>12, <1>13 DEF PageInv

\* A worker counts its page, or abandons those after it.
LEMMA CountedPage ==
  ASSUME TaskInv, PageInv, NEW w \in Workers, DOMAIN job' = DOMAIN job, OtherPages(w),
         \A v \in Workers \ {w} : thread'[v] = thread[v],
         thread'[w].pc \notin {"remapWait", "await", "cancelRemap", "cancelWait"},
         \A k \in DOMAIN job : \A i \in Pending(k)' :
           /\ i \in Pending(k) /\ job'[k].pages[i] = job[k].pages[i]
           /\ k # thread[w].job \/ i # thread[w].page \/ thread[w].pc \notin Forgetting
  PROVE  PageInv'
<1>1. ASSUME NEW k \in DOMAIN job', NEW i \in Pending(k)'
      PROVE  job'[k].pages[i] \in Chunks \/ \E v \in Workers : Forgets(v, k, i)'
  <2>1. /\ i \in Pending(k) /\ job'[k].pages[i] = job[k].pages[i]
        /\ k # thread[w].job \/ i # thread[w].page \/ thread[w].pc \notin Forgetting
    BY <1>1
  <2>2. ASSUME NEW v \in Workers, Forgets(v, k, i) PROVE Forgets(v, k, i)'
    <3>1. v # w
      BY <2>1, <2>2 DEF Forgets
    <3>2. QED  BY <2>2, <3>1 DEF Forgets
  <2>3. QED  BY <1>1, <2>1, <2>2 DEF PageInv, PagesPending
<1>2. WaitingPages'
  BY OtherPagesWait
<1>3. QED  BY <1>1, <1>2 DEF PageInv, PagesPending

LEMMA UnPinPagePage ==
  ASSUME TaskInv, PageInv, NEW w \in Workers, UnPinPage(w)
  PROVE  PageInv' /\ OtherPages(w)
<1>1. PICK j, n : j = thread[w].job /\ n = thread[w].page
  OBVIOUS
<1>2. thread[w].pc \in Carrying
  BY DEF UnPinPage, Carrying, UsingJob
<1>3. j \in DOMAIN job /\ n \in Pending(j)
  BY <1>1, <1>2, CarriesPending
<1>4. /\ \A v \in Threads \ {w} : thread'[v] = thread[v]
      /\ thread'[w].pc \in {"last", "after"}
      /\ \A k \in DOMAIN job :
           /\ k # j => job'[k] = job[k] /\ Pending(k)' = Pending(k)
           /\ job'[k] = [job[k] EXCEPT !.processed = job'[k].processed]
           /\ k = j => Pending(k)' = Pending(k) \ {n}
  BY <1>1, UnPinPageTasks DEF Moves
<1>5. DOMAIN job' = DOMAIN job
  <2>1. PICK r : r = [job[j] EXCEPT !.processed = @ + 1]
    OBVIOUS
  <2>2. job' = [job EXCEPT ![j] = r]
    BY <1>1, <2>1 DEF UnPinPage
  <2>3. QED  BY <2>2, OneJob, UnPinPageTasks DEF TaskInv
<1>6. ASSUME NEW k \in DOMAIN job PROVE job'[k].pages = job[k].pages
  <2>1. PICK q \in JobRecord : q = job[k]
    BY <1>6, JobPlaces DEF TaskInv
  <2>2. PICK g : g = job'[k].processed
    OBVIOUS
  <2>3. job'[k] = [q EXCEPT !.processed = g]
    BY <1>4, <1>6, <2>1, <2>2
  <2>4. job'[k].pages = q.pages
    BY <2>3 DEF JobRecord
  <2>5. QED  BY <2>1, <2>4
<1>7. \A v \in Workers \ {w} : thread'[v] = thread[v]
  BY <1>4, Constants
<1>8. OtherPages(w)
  <2>1. j # 0
    BY <1>3, Constants, JobPlaces DEF TaskInv
  <2>2. QED  BY <1>1, <1>6, <1>7, <2>1, OnePageGiven
<1>9. \A k \in DOMAIN job : \A i \in Pending(k)' :
         /\ i \in Pending(k) /\ job'[k].pages[i] = job[k].pages[i]
         /\ k # thread[w].job \/ i # thread[w].page \/ thread[w].pc \notin Forgetting
  BY <1>1, <1>4, <1>6
<1>10. thread'[w].pc \notin {"remapWait", "await", "cancelRemap", "cancelWait"}
  BY <1>4
<1>11. QED  BY <1>5, <1>7, <1>8, <1>9, <1>10, CountedPage

LEMMA AbandonPage ==
  ASSUME TaskInv, PageInv, NEW w \in Workers, AbandonPages(w)
  PROVE  PageInv' /\ OtherPages(w)
<1>1. PICK j, n : j = thread[w].job /\ n = thread[w].page
  OBVIOUS
<1>2. At(w, "after") /\ job[j].single
  BY <1>1 DEF AbandonPages, JobOf
<1>3. j \in DOMAIN job /\ j # 0
  BY <1>1, <1>2, WorkersPage
<1>4. /\ \A v \in Threads \ {w} : thread'[v] = thread[v]
      /\ thread'[w].pc = "future"
  BY AbandonPagesTasks
<1>5. ASSUME NEW k \in DOMAIN job, k # j
      PROVE  job'[k] = job[k] /\ Pending(k)' = Pending(k)
  BY <1>1, <1>5, AbandonPagesTasks
<1>6. /\ \A i \in DOMAIN job[j].pages :
           job'[j].pages[i] = IF i > n THEN NoChunk ELSE job[j].pages[i]
      /\ Pending(j)' = {i \in Pending(j) : ~(i > n)}
  <2>1. ASSUME NEW k \in DOMAIN job, k = thread[w].job
        PROVE  /\ \A i \in DOMAIN job[k].pages :
                    job'[k].pages[i] = IF i > thread[w].page THEN NoChunk ELSE job[k].pages[i]
               /\ Pending(k)' = {i \in Pending(k) : ~(i > thread[w].page)}
    BY <2>1, AbandonPagesTasks
  <2>2. QED  BY <1>1, <1>3, <2>1
<1>7. DOMAIN job' = DOMAIN job
  BY AbandonAlike, PagesOfAlike
<1>8. \A v \in Workers \ {w} : thread'[v] = thread[v]
  BY <1>4, Constants
<1>9. OtherPages(w)
  <2>1. \A k \in DOMAIN job : \A i \in DOMAIN job[k].pages :
           k # thread[w].job \/ (~job[k].single /\ i # thread[w].page)
             => job'[k].pages[i] = job[k].pages[i]
    BY <1>1, <1>2, <1>5
  <2>2. QED  BY <1>1, <1>3, <1>8, <2>1, OnePageGiven
<1>10. ASSUME NEW k \in DOMAIN job, NEW i \in Pending(k)'
       PROVE  i \in Pending(k) /\ job'[k].pages[i] = job[k].pages[i]
  <2>1. \A l \in Pending(k) : l \in DOMAIN job[k].pages
    BY DEF Pending
  <2>2. CASE k = j
    BY <1>6, <1>10, <2>1, <2>2
  <2>3. CASE k # j
    BY <1>5, <1>10, <2>3
  <2>4. QED  BY <2>2, <2>3
<1>11. thread[w].pc \notin Forgetting
  BY <1>2 DEF Forgetting
<1>12. thread'[w].pc \notin {"remapWait", "await", "cancelRemap", "cancelWait"}
  BY <1>4
<1>13. QED  BY <1>7, <1>8, <1>9, <1>10, <1>11, <1>12, CountedPage

LEMMA AddJobPage ==
  ASSUME TaskInv, PageInv, NEW t \in Clients, AddJob(t)
  PROVE  PageInv' /\ \A v \in Workers : thread'[v] = thread[v]
                                        /\ (thread[v].pc \in Carrying => PageOf(v)' = PageOf(v))
<1>1. PICK j, s : j = Len(job) + 1 /\ s = thread[t].pages
  OBVIOUS
<1>2. /\ TaskInv' /\ JobAdded(t, j)
      /\ \E r \in JobRecord, T \in Seq(Task) : AddsTasks(j, r, T) /\ JobOfCall(t, r, T)
  BY <1>1, AddJobTasks
<1>3. PICK r \in JobRecord, T \in Seq(Task) : AddsTasks(j, r, T) /\ JobOfCall(t, r, T)
  BY <1>2
<1>4. \A v \in Workers : thread'[v] = thread[v]
  <2>1. At(t, "enqueue")
    BY DEF AddJob
  <2>2. QED  BY <1>2, <2>1, CallReturns
<1>5. s \in Seq(Chunks)
  BY <1>1, ClientsCall
<1>6. /\ DOMAIN job' = DOMAIN job \cup {j} /\ j \notin DOMAIN job /\ job'[j] = r
      /\ \A k \in DOMAIN job : job'[k] = job[k] /\ Pending(k)' = Pending(k)
  BY <1>3 DEF AddsTasks
<1>7. ASSUME NEW v \in Workers, thread[v].pc \in Carrying PROVE PageOf(v)' = PageOf(v)
  <2>1. thread[v].job \in DOMAIN job
    BY <1>7, CarriesPending
  <2>2. QED  BY <1>4, <1>6, <2>1 DEF PageOf, JobOf
<1>8. WaitingPages'
  <2>1. {"remapWait", "await", "cancelRemap", "cancelWait"} \subseteq Carrying
    BY DEF Carrying, UsingJob
  <2>2. QED  BY <1>4, <1>7, <2>1 DEF PageInv, WaitingPages
<1>9. ASSUME NEW k \in DOMAIN job', NEW i \in Pending(k)'
      PROVE  job'[k].pages[i] \in Chunks \/ \E w \in Workers : Forgets(w, k, i)'
  <2>1. CASE k = j
    <3>1. CASE thread[t].refused
      <4>1. r.done
        BY <1>3, <3>1 DEF JobOfCall
      <4>2. QED  BY <1>2, <1>6, <1>9, <2>1, <4>1 DEF TaskInv, Counts
    <3>2. CASE ~thread[t].refused
      <4>1. r.pages = s
        BY <1>1, <1>3, <3>2 DEF JobOfCall
      <4>2. i \in DOMAIN job'[j].pages
        BY <1>9, <2>1 DEF Pending
      <4>3. s[i] \in Chunks
        BY <1>5, <1>6, <4>1, <4>2
      <4>4. QED  BY <1>6, <2>1, <4>1, <4>3
    <3>3. QED  BY <3>1, <3>2
  <2>2. CASE k # j
    <3>1. k \in DOMAIN job /\ job'[k] = job[k] /\ i \in Pending(k)
      BY <1>6, <1>9, <2>2
    <3>2. \A w \in Workers : Forgets(w, k, i) => Forgets(w, k, i)'
      BY <1>4 DEF Forgets
    <3>3. QED  BY <3>1, <3>2 DEF PageInv, PagesPending
  <2>3. QED  BY <2>1, <2>2
<1>10. QED  BY <1>4, <1>7, <1>8, <1>9 DEF PageInv, PagesPending

LEMMA NextPageInv ==
  ASSUME TaskInv, PageInv, [Next]_vars
  PROVE  PageInv'
<1>1. ASSUME NEW w \in Workers, Working(w) PROVE PageInv'
  <2>1. Handling(w) \/ CancelPage(w) \/ UnPinPage(w) \/ AbandonPages(w)
    BY <1>1 DEF Working, Handling
  <2>2. ASSUME Handling(w) PROVE PageInv'
    <3>1. PagesStay /\ \A u \in Threads \ {w} : thread'[u] = thread[u]
      BY <2>2, HandlingPages
    <3>2. \A v \in Workers : HandledPage(v) \/ thread'[v] = thread[v]
      BY <2>2, <3>1, HandlingPage, Constants
    <3>3. QED  BY <3>1, <3>2, StayingPages
  <2>3. QED  BY <2>1, <2>2, CancelPagePage, UnPinPagePage, AbandonPage
<1>2. ASSUME NEW t \in Clients, AddJob(t) PROVE PageInv'
  BY <1>2, AddJobPage
<1>3. ASSUME ClientStep PROVE PageInv'
  BY <1>3, ClientStepPages, ClientStepTasks, StayingPages
<1>4. QED  BY <1>1, <1>2, <1>3 DEF Next, Adding, Asking, OtherStep, ClientStep
-----------------------------------------------------------------------------
(* The references to a page accessor.                                      *)

\* Those who use accessor x: jobs that are not done, calls that prepare pages, and
\* calls that wait, with a page of "target", for a call that they made.
Users(x) ==
  ({"job"} \X {j \in DOMAIN job : ~job[j].done /\ job[j].accessor = x})
  \cup ({"call"} \X {t \in Clients : thread[t].pc \in {"prepare", "enqueue"} /\ AccessorFor(t) = x})
  \cup ({"outer"} \X {t \in Clients : thread[t].outer # NoFrame /\ x = "target"})
References == \A x \in Accessors :
  references[x] >= Cardinality(Users(x)) /\ (Users(x) # {} => keepsPages[x])

LEMMA UserIn ==
  ASSUME NEW x, NEW p
  PROVE  p \in Users(x) <=>
           \/ \E j \in DOMAIN job : ~job[j].done /\ job[j].accessor = x /\ p = <<"job", j>>
           \/ \E t \in Clients : thread[t].pc \in {"prepare", "enqueue"} /\ AccessorFor(t) = x
                                 /\ p = <<"call", t>>
           \/ \E t \in Clients : thread[t].outer # NoFrame /\ x = "target" /\ p = <<"outer", t>>
BY DEF Users

LEMMA UserNext ==
  ASSUME NEW x, NEW p
  PROVE  p \in Users(x)' <=>
           \/ \E j \in DOMAIN job' : ~job'[j].done /\ job'[j].accessor = x /\ p = <<"job", j>>
           \/ \E t \in Clients : thread'[t].pc \in {"prepare", "enqueue"} /\ AccessorFor(t)' = x
                                 /\ p = <<"call", t>>
           \/ \E t \in Clients : thread'[t].outer # NoFrame /\ x = "target" /\ p = <<"outer", t>>
BY DEF Users

LEMMA UsersFinite ==
  ASSUME TaskInv, NEW x
  PROVE  IsFiniteSet(Users(x))
<1>1. IsFiniteSet(DOMAIN job)
  <2>1. DOMAIN job = 1 .. Len(job) /\ Len(job) \in Nat
    BY JobPlaces DEF TaskInv
  <2>2. Len(job) \in Int
    BY <2>1
  <2>3. \A n \in Int : IsFiniteSet(1 .. n)
    BY FS_Interval
  <2>4. QED  BY <2>1, <2>2, <2>3
<1>2. PICK J, C, O :
        /\ J = {j \in DOMAIN job : ~job[j].done /\ job[j].accessor = x}
        /\ C = {t \in Clients : thread[t].pc \in {"prepare", "enqueue"} /\ AccessorFor(t) = x}
        /\ O = {t \in Clients : thread[t].outer # NoFrame /\ x = "target"}
  OBVIOUS
<1>3. J \subseteq DOMAIN job /\ C \subseteq Clients /\ O \subseteq Clients
  BY <1>2
<1>4. IsFiniteSet(J) /\ IsFiniteSet(C) /\ IsFiniteSet(O)
  BY <1>1, <1>3, Constants, FS_Subset
<1>5. IsFiniteSet({"job"} \X J) /\ IsFiniteSet({"call"} \X C) /\ IsFiniteSet({"outer"} \X O)
  BY <1>4, SingleCount
<1>6. Users(x) = ({"job"} \X J) \cup ({"call"} \X C) \cup ({"outer"} \X O)
  BY <1>2 DEF Users
<1>7. \A A, B : IsFiniteSet(A) /\ IsFiniteSet(B) => IsFiniteSet(A \cup B)
  BY FS_Union
<1>8. IsFiniteSet(({"job"} \X J) \cup ({"call"} \X C))
  BY <1>5, <1>7
<1>9. QED  BY <1>5, <1>6, <1>7, <1>8

\* The four ways a step may change who uses an accessor.
Keeps(x)       == Users(x)' \subseteq Users(x)
Passes(x, a, b) == a \in Users(x) /\ Users(x)' \subseteq (Users(x) \ {a}) \cup {b}
Drops(x, a)    == a \in Users(x) /\ Users(x)' \subseteq Users(x) \ {a}
Joins(x, b)    == Users(x)' \subseteq Users(x) \cup {b}

LEMMA CountedUsers ==
  ASSUME TaskInv, References, NEW x \in Accessors,
         \/ Keeps(x) /\ references'[x] = references[x] /\ (keepsPages'[x] = keepsPages[x] \/ Users(x) = {})
         \/ /\ \E a, b : Passes(x, a, b)
            /\ references'[x] = references[x] /\ keepsPages'[x] = keepsPages[x]
         \/ /\ \E a : Drops(x, a)
            /\ references'[x] = references[x] - 1 /\ keepsPages'[x] = keepsPages[x]
         \/ /\ \E b : Joins(x, b)
            /\ references'[x] = references[x] + 1 /\ keepsPages'[x]
  PROVE  references'[x] >= Cardinality(Users(x)') /\ (Users(x)' # {} => keepsPages'[x])
<1>1. /\ IsFiniteSet(Users(x)) /\ references[x] \in Int
      /\ references[x] >= Cardinality(Users(x)) /\ (Users(x) # {} => keepsPages[x])
  BY UsersFinite DEF References, TaskInv, Shape
<1>2. PICK U, V : U = Users(x) /\ V = Users(x)'
  OBVIOUS
<1>3. IsFiniteSet(U) /\ Cardinality(U) \in Nat
  BY <1>1, <1>2, FS_CardinalityType
<1>4. CASE Keeps(x) /\ references'[x] = references[x] /\ (keepsPages'[x] = keepsPages[x] \/ Users(x) = {})
  <2>1. V \subseteq U
    BY <1>2, <1>4 DEF Keeps
  <2>2. Cardinality(V) <= Cardinality(U) /\ Cardinality(V) \in Nat
    BY <1>3, <2>1, FS_Subset, FS_CardinalityType
  <2>3. QED  BY <1>1, <1>2, <1>3, <1>4, <2>1, <2>2
<1>5. ASSUME NEW a, NEW b, Passes(x, a, b),
             references'[x] = references[x], keepsPages'[x] = keepsPages[x]
      PROVE  references'[x] >= Cardinality(V) /\ keepsPages'[x]
  <2>1. a \in U /\ V \subseteq (U \ {a}) \cup {b}
    BY <1>2, <1>5 DEF Passes
  <2>2. PICK W : W = U \ {a}
    OBVIOUS
  <2>3. IsFiniteSet(W) /\ Cardinality(W) = Cardinality(U) - 1
    BY <1>3, <2>1, <2>2, FS_RemoveElement
  <2>4. IsFiniteSet(W \cup {b}) /\ Cardinality(W \cup {b}) <= Cardinality(W) + 1
        /\ Cardinality(W) \in Nat /\ Cardinality(W \cup {b}) \in Nat
    <3>1. Cardinality(W) \in Nat
      BY <2>3, FS_CardinalityType
    <3>2. IsFiniteSet(W \cup {b})
          /\ Cardinality(W \cup {b}) = IF b \in W THEN Cardinality(W) ELSE Cardinality(W) + 1
      BY <2>3, FS_AddElement
    <3>3. QED  BY <3>1, <3>2
  <2>5. Cardinality(V) <= Cardinality(W \cup {b}) /\ Cardinality(V) \in Nat
    <3>1. V \subseteq W \cup {b}
      BY <2>1, <2>2
    <3>2. QED  BY <2>4, <3>1, FS_Subset, FS_CardinalityType
  <2>6. keepsPages[x]
    BY <1>1, <1>2, <2>1
  <2>7. QED  BY <1>1, <1>2, <1>3, <1>5, <2>3, <2>4, <2>5, <2>6
<1>6. ASSUME NEW a, Drops(x, a), references'[x] = references[x] - 1, keepsPages'[x] = keepsPages[x]
      PROVE  references'[x] >= Cardinality(V) /\ keepsPages'[x]
  <2>1. a \in U /\ V \subseteq U \ {a}
    BY <1>2, <1>6 DEF Drops
  <2>2. PICK W : W = U \ {a}
    OBVIOUS
  <2>3. IsFiniteSet(W) /\ Cardinality(W) = Cardinality(U) - 1 /\ Cardinality(W) \in Nat
    BY <1>3, <2>1, <2>2, FS_RemoveElement, FS_CardinalityType
  <2>4. Cardinality(V) <= Cardinality(W) /\ Cardinality(V) \in Nat
    BY <2>1, <2>2, <2>3, FS_Subset, FS_CardinalityType
  <2>5. keepsPages[x]
    BY <1>1, <1>2, <2>1
  <2>6. QED  BY <1>1, <1>2, <1>3, <1>6, <2>3, <2>4, <2>5
<1>7. ASSUME NEW b, Joins(x, b), references'[x] = references[x] + 1, keepsPages'[x]
      PROVE  references'[x] >= Cardinality(V) /\ keepsPages'[x]
  <2>1. V \subseteq U \cup {b}
    BY <1>2, <1>7 DEF Joins
  <2>2. IsFiniteSet(U \cup {b}) /\ Cardinality(U \cup {b}) <= Cardinality(U) + 1
        /\ Cardinality(U \cup {b}) \in Nat
    <3>1. Cardinality(U) \in Nat
      BY <1>3, FS_CardinalityType
    <3>2. IsFiniteSet(U \cup {b})
          /\ Cardinality(U \cup {b}) = IF b \in U THEN Cardinality(U) ELSE Cardinality(U) + 1
      BY <1>3, FS_AddElement
    <3>3. QED  BY <3>1, <3>2
  <2>3. Cardinality(V) <= Cardinality(U \cup {b}) /\ Cardinality(V) \in Nat
    BY <2>1, <2>2, FS_Subset, FS_CardinalityType
  <2>4. QED  BY <1>1, <1>2, <1>3, <1>7, <2>2, <2>3
<1>8. QED  BY <1>2, <1>4, <1>5, <1>6, <1>7

\* No job or call begins to use an accessor.
JobsUse == DOMAIN job' = DOMAIN job /\ \A k \in DOMAIN job :
  /\ job'[k].accessor = job[k].accessor /\ job'[k].target = job[k].target
  /\ job'[k].single = job[k].single
  /\ job[k].done => job'[k].done
CallUses(t) ==
  /\ thread'[t].pc \in {"prepare", "enqueue"} =>
       thread[t].pc \in {"prepare", "enqueue"} /\ thread'[t].request = thread[t].request
  /\ thread'[t].outer # NoFrame => thread[t].outer # NoFrame

LEMMA UsersStay ==
  ASSUME NEW x, JobsUse, \A t \in Clients : CallUses(t)
  PROVE  Keeps(x)
<1>1. ASSUME NEW p \in Users(x)' PROVE p \in Users(x)
  <2>1. ASSUME NEW t \in Clients, thread'[t].pc \in {"prepare", "enqueue"}, AccessorFor(t)' = x
        PROVE  thread[t].pc \in {"prepare", "enqueue"} /\ AccessorFor(t) = x
    BY <2>1 DEF CallUses, AccessorFor
  <2>2. \A t \in Clients : thread'[t].outer # NoFrame => thread[t].outer # NoFrame
    BY DEF CallUses
  <2>3. \A j \in DOMAIN job' : ~job'[j].done /\ job'[j].accessor = x =>
          j \in DOMAIN job /\ ~job[j].done /\ job[j].accessor = x
    BY DEF JobsUse
  <2>4. QED  BY <1>1, <2>1, <2>2, <2>3, UserIn, UserNext
<1>2. QED  BY <1>1 DEF Keeps
LEMMA AlikeUse ==
  ASSUME JobsAlike
  PROVE  JobsUse
BY DEF JobsAlike, Alike, AlikeBut, JobsUse

LEMMA FieldsUse ==
  ASSUME TaskInv, DOMAIN job' = DOMAIN job,
         \A k \in DOMAIN job :
           \/ \E g : job'[k] = [job[k] EXCEPT !.given = g]
           \/ \E g : job'[k] = [job[k] EXCEPT !.processed = g]
           \/ \E g : job'[k] = [job[k] EXCEPT !.future = g]
           \/ job'[k] = [job[k] EXCEPT !.done = TRUE]
           \/ job'[k] = job[k]
  PROVE  JobsUse
<1>1. ASSUME NEW k \in DOMAIN job
      PROVE  /\ job'[k].accessor = job[k].accessor /\ job'[k].target = job[k].target
             /\ job'[k].single = job[k].single
             /\ job[k].done => job'[k].done
  <2>1. PICK q \in JobRecord : q = job[k]
    BY <1>1, JobPlaces DEF TaskInv
  <2>2. CASE \E g : job'[k] = [q EXCEPT !.given = g]
    BY <2>1, <2>2 DEF JobRecord
  <2>3. CASE \E g : job'[k] = [q EXCEPT !.processed = g]
    BY <2>1, <2>3 DEF JobRecord
  <2>4. CASE \E g : job'[k] = [q EXCEPT !.future = g]
    BY <2>1, <2>4 DEF JobRecord
  <2>5. CASE job'[k] = [q EXCEPT !.done = TRUE]
    BY <2>1, <2>5 DEF JobRecord
  <2>6. QED  BY <1>1, <2>1, <2>2, <2>3, <2>4, <2>5
<1>2. QED  BY <1>1 DEF JobsUse

LEMMA WorkerUses ==
  ASSUME TaskInv, NEW w \in Workers, Working(w)
  PROVE  /\ JobsUse /\ \A u \in Threads \ {w} : thread'[u] = thread[u]
         /\ UNCHANGED keepsPages /\ (UNCHANGED references \/ MarkJobAsDone(w))
<1>1. UNCHANGED keepsPages /\ (UNCHANGED references \/ MarkJobAsDone(w))
  BY DEF Working, TakeTask, FindError, CancelPage, CancelRemap, RemapCanceled, StartPage, AwaitReader,
         RemapReturns, ProcessPage, UnPinPage, MarkJobAsDone, NextPage, AbandonPages, FinishTask, Sleep,
         accessorVars
<1>2. \A u \in Threads \ {w} : thread'[u] = thread[u]
  <2>1. CASE Handling(w)
    BY <2>1, HandlingPages
  <2>2. CASE CancelPage(w)
    BY <2>2, CancelPageTasks DEF Moves
  <2>3. CASE UnPinPage(w)
    BY <2>3, UnPinPageTasks DEF Moves
  <2>4. CASE AbandonPages(w)
    BY <2>4, AbandonPagesTasks
  <2>5. QED  BY <2>1, <2>2, <2>3, <2>4 DEF Working, Handling
<1>3. JobsUse
  <2>1. CASE \/ FindError(w) \/ CancelPage(w) \/ CancelRemap(w) \/ RemapCanceled(w) \/ StartPage(w)
             \/ AwaitReader(w) \/ RemapReturns(w) \/ NextPage(w) \/ AbandonPages(w) \/ TakeTask(w)
             \/ Sleep(w)
    BY <2>1, WorkersAlike, AlikeUse
  <2>2. CASE ProcessPage(w)
    <3>1. DOMAIN job' = DOMAIN job
      BY <2>2, HandlingPages DEF Handling, PagesStay
    <3>2. \A k \in DOMAIN job : job'[k] = [job[k] EXCEPT !.given = job'[k].given]
      BY <2>2, ProcessPageTasks
    <3>3. QED  BY <3>1, <3>2, FieldsUse
  <2>3. CASE UnPinPage(w)
    <3>1. DOMAIN job' = DOMAIN job
      <4>1. PICK r : r = [job[thread[w].job] EXCEPT !.processed = @ + 1]
        OBVIOUS
      <4>2. job' = [job EXCEPT ![thread[w].job] = r]
        BY <2>3, <4>1 DEF UnPinPage
      <4>3. QED  BY <2>3, <4>2, OneJob, UnPinPageTasks DEF TaskInv
    <3>2. \A k \in DOMAIN job : job'[k] = [job[k] EXCEPT !.processed = job'[k].processed]
      BY <2>3, UnPinPageTasks
    <3>3. QED  BY <3>1, <3>2, FieldsUse
  <2>4. CASE MarkJobAsDone(w)
    <3>1. /\ DOMAIN job' = DOMAIN job
          /\ \A k \in DOMAIN job : job'[k] = [job[k] EXCEPT !.done = TRUE] \/ job'[k] = job[k]
      BY <2>4, MarkJobTasks
    <3>2. QED  BY <3>1, FieldsUse
  <2>5. CASE FinishTask(w)
    <3>1. DOMAIN job' = DOMAIN job
      BY <2>5, HandlingPages DEF Handling, PagesStay
    <3>2. \A k \in DOMAIN job : job'[k] = [job[k] EXCEPT !.future = job'[k].future]
      BY <2>5, FinishTaskTasks
    <3>3. QED  BY <3>1, <3>2, FieldsUse
  <2>6. QED  BY <2>1, <2>2, <2>3, <2>4, <2>5 DEF Working
<1>4. QED  BY <1>1, <1>2, <1>3

LEMMA WorkingReferences ==
  ASSUME TaskInv, References, NEW w \in Workers, Working(w)
  PROVE  References'
<1>1. /\ JobsUse /\ UNCHANGED keepsPages /\ (UNCHANGED references \/ MarkJobAsDone(w))
      /\ \A t \in Clients : thread'[t] = thread[t]
  BY WorkerUses, Constants
<1>2. \A x : Keeps(x)
  <2>1. \A t \in Clients : CallUses(t)
    BY <1>1 DEF CallUses
  <2>2. QED  BY <1>1, <2>1, UsersStay
<1>3. ASSUME NEW x \in Accessors
      PROVE  references'[x] >= Cardinality(Users(x)') /\ (Users(x)' # {} => keepsPages'[x])
  <2>1. CASE UNCHANGED references
    BY <1>1, <1>2, <1>3, <2>1, CountedUsers
  <2>2. CASE MarkJobAsDone(w)
    <3>1. PICK j, y : j = thread[w].job /\ y = JobOf(w).accessor
      OBVIOUS
    <3>2. /\ references' = [references EXCEPT ![y] = @ - 1] /\ references \in [Accessors -> Int]
          /\ At(w, "last")
      BY <2>2, <3>1 DEF MarkJobAsDone, TaskInv, Shape
    <3>3. j \in DOMAIN job /\ ~job[j].done /\ job[j].accessor = y
      BY <2>2, <3>1, <3>2, WorkersPage, MarkJobTasks DEF JobOf
    <3>4. CASE x # y
      <4>1. references'[x] = references[x]
        BY <1>3, <3>2, <3>4
      <4>2. QED  BY <1>1, <1>2, <1>3, <4>1, CountedUsers
    <3>5. CASE x = y
      <4>1. references'[x] = references[x] - 1
        BY <1>3, <3>2, <3>5
      <4>2. <<"job", j>> \in Users(x)
        BY <3>3, <3>5, UserIn
      <4>3. <<"job", j>> \notin Users(x)'
        <5>1. job'[j].done
          <6>1. PICK q \in JobRecord : q = job[j]
            BY <3>3, JobPlaces DEF TaskInv
          <6>2. job'[j] = [q EXCEPT !.done = TRUE]
            BY <2>2, <3>1, <3>3, <6>1, MarkJobTasks
          <6>3. QED  BY <6>2 DEF JobRecord
        <5>2. QED  BY <5>1, UserNext
      <4>4. Drops(x, <<"job", j>>)
        BY <1>2, <4>2, <4>3 DEF Keeps, Drops
      <4>5. QED  BY <1>1, <1>3, <4>1, <4>4, CountedUsers
    <3>6. QED  BY <3>4, <3>5
  <2>3. QED  BY <1>1, <2>1, <2>2
<1>4. QED  BY <1>3 DEF References
-----------------------------------------------------------------------------
(* Calls and references.                                                   *)

LEMMA ClientStepUse ==
  ASSUME TaskInv, ClientStep
  PROVE  JobsUse
BY ClientStepTasks, AlikeUse

\* Steps that leave the references as they are.
LEMMA AskingUses ==
  ASSUME TaskInv, NEW t \in Clients,
         \/ Asking(t) /\ ~EnsureMaxPages(t)
         \/ PrepareReadPage(t)
  PROVE  /\ UNCHANGED <<references, keepsPages>> /\ \A u \in Clients : CallUses(u)
<1>1. CASE \E r \in Requests[t] : RequestData(t, r)
  <2>1. PICK r \in Requests[t] : RequestData(t, r)
    BY <1>1
  <2>2. /\ \A u \in Threads \ {t} : thread'[u] = thread[u]
        /\ thread'[t].pc = "lock" /\ thread'[t].outer = NoFrame
    BY <2>1, RequestDataTasks
  <2>3. QED  BY <2>1, <2>2, Constants DEF RequestData, accessorVars, CallUses
<1>2. CASE \E j \in owned[t] : IsCompleted(t, j) \/ IsCanceled(t, j) \/ Cancel(t, j)
  BY <1>2 DEF IsCompleted, IsCanceled, Cancel, accessorVars, CallUses
<1>3. CASE \E j \in owned[t] : WaitForCompletion(t, j)
  <2>1. PICK j \in owned[t] : WaitForCompletion(t, j)
    BY <1>3
  <2>2. Moves(t, "wait", j, thread[t].failed)
    BY <2>1, WaitsTasks
  <2>3. QED  BY <2>1, <2>2, Constants DEF WaitForCompletion, accessorVars, CallUses, Moves
<1>4. CASE FindAccessor(t)
  <2>1. Moves(t, "size", thread[t].waitsFor, thread[t].failed)
    BY <1>4, FindAccessorTasks
  <2>2. QED  BY <1>4, <2>1, Constants DEF FindAccessor, accessorVars, CallUses, Moves
<1>5. CASE PrepareRefused(t)
  <2>1. /\ \A u \in Threads \ {t} : thread'[u] = thread[u]
        /\ thread[t].pc = "prepare" /\ thread'[t].request = thread[t].request
        /\ thread'[t].outer = thread[t].outer
    BY <1>5, PrepareRefusedTasks
  <2>2. QED  BY <1>5, <2>1, Constants DEF PrepareRefused, accessorVars, CallUses
<1>6. CASE PrepareReadPage(t)
  <2>1. /\ \A u \in Threads \ {t} : thread'[u] = thread[u]
        /\ thread[t].pc = "prepare" /\ thread'[t].request = thread[t].request
        /\ thread'[t].outer = thread[t].outer
    BY <1>6, PreparePageTasks
  <2>2. QED  BY <1>6, <2>1, Constants DEF PrepareReadPage, accessorVars, CallUses
<1>7. CASE Sleep(t)
  BY <1>7 DEF Sleep, accessorVars, CallUses
<1>8. CASE WaitReturns(t)
  <2>1. Moves(t, "idle", 0, thread[t].failed)
    BY <1>8, WaitReturnsTasks
  <2>2. QED  BY <1>8, <2>1, Constants DEF WaitReturns, accessorVars, CallUses, Moves
<1>9. QED  BY <1>1, <1>2, <1>3, <1>4, <1>5, <1>6, <1>7, <1>8 DEF Asking, Waiting

LEMMA AskingReferences ==
  ASSUME TaskInv, References, NEW t \in Clients,
         \/ Asking(t) /\ ~EnsureMaxPages(t)
         \/ PrepareReadPage(t)
  PROVE  References'
<1>1. UNCHANGED <<references, keepsPages>> /\ \A u \in Clients : CallUses(u)
  BY AskingUses
<1>2. JobsUse
  BY ClientStepUse DEF ClientStep
<1>3. \A x : Keeps(x)
  BY <1>1, <1>2, UsersStay
<1>4. ASSUME NEW x \in Accessors
      PROVE  references'[x] >= Cardinality(Users(x)') /\ (Users(x)' # {} => keepsPages'[x])
  BY <1>1, <1>3, <1>4, CountedUsers
<1>5. QED  BY <1>4 DEF References

LEMMA EnsureReferences ==
  ASSUME TaskInv, References, NEW t \in Clients, EnsureMaxPages(t)
  PROVE  References'
<1>1. PICK y : y = AccessorFor(t)
  OBVIOUS
<1>2. /\ keepsPages' = [keepsPages EXCEPT ![y] = TRUE] /\ keepsPages \in [Accessors -> BOOLEAN]
      /\ references' = [references EXCEPT ![y] = @ + 1] /\ references \in [Accessors -> Int]
  BY <1>1 DEF EnsureMaxPages, TaskInv, Shape
<1>3. Moves(t, "prepare", thread[t].waitsFor, thread[t].failed)
  BY EnsureMaxPagesTasks
<1>4. JobsUse
  BY ClientStepUse DEF ClientStep, Asking
<1>5. /\ \A u \in Clients \ {t} : thread'[u] = thread[u]
      /\ thread'[t].outer = thread[t].outer /\ AccessorFor(t)' = y
  BY <1>1, <1>3, Constants DEF Moves, AccessorFor
<1>6. ASSUME NEW x \in Accessors, NEW p \in Users(x)'
      PROVE  p \in Users(x) \/ (x = y /\ p = <<"call", t>>)
  <2>1. CASE \E j \in DOMAIN job' : ~job'[j].done /\ job'[j].accessor = x /\ p = <<"job", j>>
    BY <1>4, <2>1, UserIn DEF JobsUse
  <2>2. CASE \E u \in Clients : thread'[u].pc \in {"prepare", "enqueue"} /\ AccessorFor(u)' = x
                                /\ p = <<"call", u>>
    <3>1. PICK u \in Clients : thread'[u].pc \in {"prepare", "enqueue"} /\ AccessorFor(u)' = x
                                /\ p = <<"call", u>>
      BY <2>2
    <3>2. CASE u = t
      BY <1>5, <3>1, <3>2
    <3>3. CASE u # t
      <4>1. thread'[u] = thread[u]
        BY <1>5, <3>3
      <4>2. AccessorFor(u) = x
        BY <3>1, <4>1 DEF AccessorFor
      <4>3. QED  BY <3>1, <4>1, <4>2, UserIn
    <3>4. QED  BY <3>2, <3>3
  <2>3. CASE \E u \in Clients : thread'[u].outer # NoFrame /\ x = "target" /\ p = <<"outer", u>>
    <3>1. \A u \in Clients : thread'[u].outer = thread[u].outer
      BY <1>5
    <3>2. QED  BY <2>3, <3>1, UserIn
  <2>4. QED  BY <1>6, <2>1, <2>2, <2>3, UserNext
<1>7. ASSUME NEW x \in Accessors
      PROVE  references'[x] >= Cardinality(Users(x)') /\ (Users(x)' # {} => keepsPages'[x])
  <2>1. CASE x = y
    <3>1. Joins(x, <<"call", t>>)
      BY <1>6, <1>7 DEF Joins
    <3>2. references'[x] = references[x] + 1 /\ keepsPages'[x]
      BY <1>2, <1>7, <2>1
    <3>3. QED  BY <1>7, <3>1, <3>2, CountedUsers
  <2>2. CASE x # y
    <3>1. Keeps(x)
      BY <1>6, <1>7, <2>2 DEF Keeps
    <3>2. references'[x] = references[x] /\ keepsPages'[x] = keepsPages[x]
      BY <1>2, <1>7, <2>2
    <3>3. QED  BY <1>7, <3>1, <3>2, CountedUsers
  <2>3. QED  BY <2>1, <2>2
<1>8. QED  BY <1>7 DEF References

\* Who p is, if it uses accessor x after a step of client t.
NextUser(t, x, p) ==
  \/ \E j \in DOMAIN job' : ~job'[j].done /\ job'[j].accessor = x /\ p = <<"job", j>>
  \/ thread'[t].pc \in {"prepare", "enqueue"} /\ AccessorFor(t)' = x /\ p = <<"call", t>>
  \/ thread'[t].outer # NoFrame /\ x = "target" /\ p = <<"outer", t>>
  \/ p \in Users(x) /\ p # <<"call", t>> /\ p # <<"outer", t>> /\ \A j : p # <<"job", j>>

\* A call of another client goes on as it was.
LEMMA OthersUse ==
  ASSUME NEW x, NEW t \in Clients, \A u \in Clients \ {t} : thread'[u] = thread[u],
         NEW p, p \in Users(x)'
  PROVE  NextUser(t, x, p)
<1>1. CASE \E j \in DOMAIN job' : ~job'[j].done /\ job'[j].accessor = x /\ p = <<"job", j>>
  BY <1>1 DEF NextUser
<1>2. CASE \E u \in Clients : thread'[u].pc \in {"prepare", "enqueue"} /\ AccessorFor(u)' = x
                              /\ p = <<"call", u>>
  <2>1. PICK u \in Clients : thread'[u].pc \in {"prepare", "enqueue"} /\ AccessorFor(u)' = x
                              /\ p = <<"call", u>>
    BY <1>2
  <2>2. CASE u = t
    BY <2>1, <2>2 DEF NextUser
  <2>3. CASE u # t
    <3>1. thread'[u] = thread[u]
      BY <2>3
    <3>2. AccessorFor(u) = x
      BY <2>1, <3>1 DEF AccessorFor
    <3>3. p \in Users(x)
      BY <2>1, <3>1, <3>2, UserIn
    <3>4. QED  BY <2>1, <2>3, <3>3 DEF NextUser
  <2>4. QED  BY <2>2, <2>3
<1>3. CASE \E u \in Clients : thread'[u].outer # NoFrame /\ x = "target" /\ p = <<"outer", u>>
  <2>1. PICK u \in Clients : thread'[u].outer # NoFrame /\ x = "target" /\ p = <<"outer", u>>
    BY <1>3
  <2>2. CASE u = t
    BY <2>1, <2>2 DEF NextUser
  <2>3. CASE u # t
    <3>1. thread'[u] = thread[u]
      BY <2>3
    <3>2. p \in Users(x)
      BY <2>1, <3>1, UserIn
    <3>3. QED  BY <2>1, <2>3, <3>2 DEF NextUser
  <2>4. QED  BY <2>2, <2>3
<1>4. QED  BY <1>1, <1>2, <1>3, UserNext

\* A call from inside: the call that waits keeps its reference.
LEMMA AddRemapReferences ==
  ASSUME TaskInv, References, NEW t \in Clients, AddRemapJob(t)
  PROVE  References'
<1>1. /\ \A u \in Clients \ {t} : thread'[u] = thread[u]
      /\ thread[t].pc = "prepare" /\ thread'[t].pc = "lock" /\ Next1(t) \in TargetChunks
  BY AddRemapJobTasks, Constants
<1>2. AccessorFor(t) = "target"
  BY <1>1, NextPrepared DEF AccessorOf
<1>3. UNCHANGED <<references, keepsPages>> /\ JobsUse
  BY ClientStepUse DEF ClientStep, AddRemapJob
<1>4. ASSUME NEW x \in Accessors, NEW p \in Users(x)'
      PROVE  \/ p \in Users(x) /\ p # <<"call", t>>
             \/ x = "target" /\ p = <<"outer", t>>
  <2>1. \/ \E j \in DOMAIN job' : ~job'[j].done /\ job'[j].accessor = x /\ p = <<"job", j>>
        \/ x = "target" /\ p = <<"outer", t>>
        \/ p \in Users(x) /\ p # <<"call", t>>
    <3>1. thread'[t].pc \notin {"prepare", "enqueue"}
      BY <1>1
    <3>2. \/ \E j \in DOMAIN job' : ~job'[j].done /\ job'[j].accessor = x /\ p = <<"job", j>>
          \/ thread'[t].pc \in {"prepare", "enqueue"} /\ AccessorFor(t)' = x /\ p = <<"call", t>>
          \/ thread'[t].outer # NoFrame /\ x = "target" /\ p = <<"outer", t>>
          \/ p \in Users(x) /\ p # <<"call", t>> /\ p # <<"outer", t>>
             /\ \A j : p # <<"job", j>>
      <4>1. p \in Users(x)'
        BY <1>4
      <4>2. \A u \in Clients \ {t} : thread'[u] = thread[u]
        BY <1>1
      <4>3. NextUser(t, x, p)
        BY <4>1, <4>2, OthersUse
      <4>4. QED  BY <4>3 DEF NextUser
    <3>3. QED  BY <3>1, <3>2
  <2>2. CASE \E j \in DOMAIN job' : ~job'[j].done /\ job'[j].accessor = x /\ p = <<"job", j>>
    BY <1>3, <2>2, UserIn DEF JobsUse
  <2>3. QED  BY <2>1, <2>2
<1>5. ASSUME NEW x \in Accessors
      PROVE  references'[x] >= Cardinality(Users(x)') /\ (Users(x)' # {} => keepsPages'[x])
  <2>1. CASE x = "target"
    <3>1. <<"call", t>> \in Users(x)
      BY <1>1, <1>2, <2>1, UserIn
    <3>2. Passes(x, <<"call", t>>, <<"outer", t>>)
      BY <1>4, <1>5, <3>1 DEF Passes
    <3>3. QED  BY <1>3, <1>5, <3>2, CountedUsers
  <2>2. CASE x # "target"
    <3>1. Keeps(x)
      BY <1>4, <1>5, <2>2 DEF Keeps
    <3>2. QED  BY <1>3, <1>5, <3>1, CountedUsers
  <2>3. QED  BY <2>1, <2>2
<1>6. QED  BY <1>5 DEF References
LEMMA AccessorOfCall ==
  ASSUME NEW r \in Request, r.chunks # <<>>
  PROVE  /\ Sources(r) => AccessorOf(Head(r.chunks)) = "source"
         /\ Targets(r) => AccessorOf(Head(r.chunks)) = "target"
<1>1. r.chunks \in Seq(Chunks)
  BY DEF Request
<1>2. 1 \in 1 .. Len(r.chunks) /\ Head(r.chunks) = r.chunks[1]
  BY <1>1
<1>3. Sources(r) => r.chunks[1] \notin TargetChunks
  BY <1>2, Constants DEF Sources
<1>4. Targets(r) => r.chunks[1] \in TargetChunks
  BY <1>2 DEF Targets
<1>5. QED  BY <1>2, <1>3, <1>4 DEF AccessorOf

\* The reference of a call goes to the job that it adds.
LEMMA AddJobReferences ==
  ASSUME TaskInv, References, NEW t \in Clients, AddJob(t)
  PROVE  References'
<1>1. PICK j, y : j = Len(job) + 1 /\ y = AccessorFor(t)
  OBVIOUS
<1>2. /\ TaskInv' /\ JobAdded(t, j) /\ j \in Jobs
      /\ \E r \in JobRecord, T \in Seq(Task) : AddsTasks(j, r, T) /\ JobOfCall(t, r, T)
  BY <1>1, AddJobTasks
<1>3. PICK r \in JobRecord, T \in Seq(Task) : AddsTasks(j, r, T) /\ JobOfCall(t, r, T)
  BY <1>2
<1>4. At(t, "enqueue") /\ UNCHANGED <<references, keepsPages>>
  BY DEF AddJob
<1>5. /\ \A u \in Clients \ {t} : thread'[u] = thread[u]
      /\ thread'[t].outer = NoFrame
      /\ thread[t].outer = NoFrame => thread'[t].pc = "idle"
      /\ thread[t].outer # NoFrame => thread'[t].request = thread[t].outer.request
  BY <1>2, <1>4, CallReturns, Constants
<1>6. /\ DOMAIN job' = DOMAIN job \cup {j} /\ job'[j].accessor = y
      /\ \A k \in DOMAIN job : job'[k] = job[k]
  BY <1>1, <1>3 DEF AddsTasks, JobOfCall
<1>7. thread[t].outer # NoFrame => y = "source" /\ AccessorFor(t)' = "target"
  <2>1. SUFFICES ASSUME thread[t].outer # NoFrame PROVE y = "source" /\ AccessorFor(t)' = "target"
    OBVIOUS
  <2>2. PICK o, q : o = thread[t].outer.request /\ q = thread[t].request
    OBVIOUS
  <2>3. Call(t) /\ Outer(t) /\ At(t, "enqueue")
    BY <1>4, ClientsCall
  <2>4. Proper(o) /\ Targets(o) /\ Sources(q) /\ Proper(q)
    BY <2>1, <2>2, <2>3 DEF Outer, Call, InCall
  <2>5. AccessorOf(Head(o.chunks)) = "target" /\ AccessorOf(Head(q.chunks)) = "source"
    BY <2>4, AccessorOfCall DEF Proper
  <2>6. QED  BY <1>1, <1>5, <2>1, <2>2, <2>5 DEF AccessorFor
<1>8. ASSUME NEW x \in Accessors, NEW p \in Users(x)'
      PROVE  \/ p \in Users(x) /\ p # <<"call", t>> /\ p # <<"outer", t>>
             \/ x = y /\ p = <<"job", j>>
             \/ thread[t].outer # NoFrame /\ x = "target" /\ p = <<"call", t>>
  <2>1. \/ \E k \in DOMAIN job' : ~job'[k].done /\ job'[k].accessor = x /\ p = <<"job", k>>
        \/ thread'[t].pc \in {"prepare", "enqueue"} /\ AccessorFor(t)' = x /\ p = <<"call", t>>
        \/ thread'[t].outer # NoFrame /\ x = "target" /\ p = <<"outer", t>>
        \/ p \in Users(x) /\ p # <<"call", t>> /\ p # <<"outer", t>>
           /\ \A k : p # <<"job", k>>
    <3>1. p \in Users(x)'
      BY <1>8
    <3>2. \A u \in Clients \ {t} : thread'[u] = thread[u]
      BY <1>5
    <3>3. NextUser(t, x, p)
      BY <3>1, <3>2, OthersUse
    <3>4. QED  BY <3>3 DEF NextUser
  <2>2. CASE \E k \in DOMAIN job' : ~job'[k].done /\ job'[k].accessor = x /\ p = <<"job", k>>
    <3>1. PICK k \in DOMAIN job' : ~job'[k].done /\ job'[k].accessor = x /\ p = <<"job", k>>
      BY <2>2
    <3>2. CASE k = j
      BY <1>6, <3>1, <3>2
    <3>3. CASE k # j
      <4>1. k \in DOMAIN job /\ job'[k] = job[k]
        BY <1>6, <3>3
      <4>2. p \in Users(x)
        BY <3>1, <4>1, UserIn
      <4>3. QED  BY <3>1, <4>2
    <3>4. QED  BY <3>2, <3>3
  <2>3. CASE thread'[t].pc \in {"prepare", "enqueue"} /\ AccessorFor(t)' = x /\ p = <<"call", t>>
    BY <1>5, <1>7, <2>3
  <2>4. QED  BY <1>5, <2>1, <2>2, <2>3
<1>9. <<"call", t>> \in Users(y)
  BY <1>1, <1>4, UserIn
<1>10. thread[t].outer # NoFrame => <<"outer", t>> \in Users("target")
  BY UserIn
<1>11. ASSUME NEW x \in Accessors
       PROVE  references'[x] >= Cardinality(Users(x)') /\ (Users(x)' # {} => keepsPages'[x])
  <2>1. CASE x = y
    <3>1. x = "target" => thread[t].outer = NoFrame
      BY <1>7, <2>1
    <3>2. Passes(x, <<"call", t>>, <<"job", j>>)
      BY <1>8, <1>9, <1>11, <2>1, <3>1 DEF Passes
    <3>3. QED  BY <1>4, <1>11, <3>2, CountedUsers
  <2>2. CASE x # y /\ x = "target" /\ thread[t].outer # NoFrame
    <3>1. Passes(x, <<"outer", t>>, <<"call", t>>)
      BY <1>8, <1>10, <1>11, <2>2 DEF Passes
    <3>2. QED  BY <1>4, <1>11, <3>1, CountedUsers
  <2>3. CASE x # y /\ ~(x = "target" /\ thread[t].outer # NoFrame)
    <3>1. Keeps(x)
      BY <1>8, <1>11, <2>3 DEF Keeps
    <3>2. QED  BY <1>4, <1>11, <3>1, CountedUsers
  <2>4. QED  BY <2>1, <2>2, <2>3
<1>12. QED  BY <1>11 DEF References

\* CleanupThread empties an accessor that nobody uses.
LEMMA OtherReferences ==
  ASSUME TaskInv, References, OtherStep
  PROVE  References'
<1>1. JobsUse
  BY ClientStepUse DEF ClientStep
<1>2. UNCHANGED <<thread, references>>
  BY DEF OtherStep, CleanUp, Close, CloseNext, vars, accessorVars
<1>3. \A x : Keeps(x)
  <2>1. \A t \in Clients : CallUses(t)
    BY <1>2 DEF CallUses
  <2>2. QED  BY <1>1, <2>1, UsersStay
<1>4. ASSUME NEW x \in Accessors
      PROVE  keepsPages'[x] = keepsPages[x] \/ Users(x) = {}
  <2>1. CASE \E y \in Accessors : CleanUp(y)
    <3>1. PICK y \in Accessors : CleanUp(y)
      BY <2>1
    <3>2. keepsPages' = [keepsPages EXCEPT ![y] = FALSE] /\ references[y] = 0
          /\ keepsPages \in [Accessors -> BOOLEAN]
      BY <3>1 DEF CleanUp, MayCleanUp, TaskInv, Shape
    <3>3. CASE x = y
      <4>1. PICK U : U = Users(x)
        OBVIOUS
      <4>2. IsFiniteSet(U) /\ Cardinality(U) <= 0
        BY <1>4, <3>2, <3>3, <4>1, UsersFinite DEF References
      <4>3. Cardinality(U) = 0
        BY <4>2, FS_CardinalityType
      <4>4. U = {}
        BY <4>2, <4>3, FS_EmptySet
      <4>5. QED  BY <4>1, <4>4
    <3>4. CASE x # y
      BY <1>4, <3>2, <3>4
    <3>5. QED  BY <3>3, <3>4
  <2>2. CASE Close \/ CloseNext \/ UNCHANGED vars
    BY <2>2 DEF Close, CloseNext, vars, accessorVars
  <2>3. QED  BY <2>1, <2>2 DEF OtherStep
<1>5. ASSUME NEW x \in Accessors
      PROVE  references'[x] >= Cardinality(Users(x)') /\ (Users(x)' # {} => keepsPages'[x])
  BY <1>2, <1>3, <1>4, <1>5, CountedUsers
<1>6. QED  BY <1>5 DEF References

LEMMA InitReferences == Init => References
<1> SUFFICES ASSUME Init PROVE References
  OBVIOUS
<1>1. ASSUME NEW x \in Accessors PROVE Users(x) = {}
  <2>1. job = <<>> /\ DOMAIN job = {}
    BY DEF Init
  <2>2. \A t \in Clients : thread[t].pc = "idle" /\ thread[t].outer = NoFrame
    BY Constants DEF Init
  <2>3. \A p : p \notin Users(x)
    BY <2>1, <2>2, UserIn
  <2>4. QED  BY <2>3
<1>2. \A x \in Accessors : references[x] = 0
  BY DEF Init
<1>3. Cardinality({}) = 0
  BY FS_EmptySet
<1>4. QED  BY <1>1, <1>2, <1>3 DEF References

LEMMA NextReferences ==
  ASSUME TaskInv, References, [Next]_vars
  PROVE  References'
<1>1. CASE \E w \in Workers : Working(w)
  BY <1>1, WorkingReferences
<1>2. ASSUME NEW t \in Clients,
             \/ \E r \in Requests[t] : RequestData(t, r)
             \/ \E j \in owned[t] : IsCompleted(t, j) \/ IsCanceled(t, j) \/ Cancel(t, j)
                                    \/ WaitForCompletion(t, j)
             \/ Adding(t) \/ Waiting(t)
      PROVE  References'
  <2>1. CASE AddJob(t)
    BY <2>1, AddJobReferences
  <2>2. CASE AddRemapJob(t)
    BY <2>2, AddRemapReferences
  <2>3. CASE EnsureMaxPages(t)
    BY <2>3, EnsureReferences
  <2>4. CASE (Asking(t) /\ ~EnsureMaxPages(t)) \/ PrepareReadPage(t)
    BY <2>4, AskingReferences
  <2>5. QED  BY <1>2, <2>1, <2>2, <2>3, <2>4 DEF Adding, Asking
<1>3. CASE OtherStep
  BY <1>3, OtherReferences
<1>4. QED  BY <1>1, <1>2, <1>3 DEF Next, OtherStep

\* Every job in progress, and every call that prepares pages, holds a reference to
\* its page accessor, with remapped layers or without: CleanupThread never empties
\* an accessor that has one.
THEOREM ReferencesHold == Spec => []References
<1>1. Init => TaskInv /\ References
  BY InitTasks, InitReferences
<1>2. TaskInv /\ References /\ [Next]_vars => TaskInv' /\ References'
  BY NextTasks, NextReferences
<1>3. QED  BY <1>1, <1>2, PTL DEF Spec
-----------------------------------------------------------------------------
(* The destructor.                                                         *)

\* With no remapped layer the list stays as it is once the destructor began, and
\* it does not pass a job before that is done.
CloseInv ==
  /\ Closing => MayClose
  /\ TargetChunks = {} =>
       /\ \A w \in Workers : thread[w].pc \notin {"remapWait", "cancelRemap", "cancelWait"}
       /\ Closing =>
            /\ \A t \in Clients : At(t, "idle")
            /\ closer[2] = Len(listed)
            /\ \A i \in DOMAIN listed : i < closer[1] => job[listed[i]].done

LEMMA WorkersClose ==
  ASSUME TaskInv, PageInv, CloseInv, NEW w \in Workers, Working(w)
  PROVE  CloseInv'
<1>1. JobsUse /\ \A u \in Threads \ {w} : thread'[u] = thread[u]
  BY WorkerUses
<1>2. UNCHANGED closer
  BY DEF Working, TakeTask, FindError, CancelPage, CancelRemap, RemapCanceled, StartPage, AwaitReader,
         RemapReturns, ProcessPage, UnPinPage, MarkJobAsDone, NextPage, AbandonPages, FinishTask, Sleep
<1>3. ASSUME TargetChunks = {}
      PROVE  thread'[w].pc \notin {"remapWait", "cancelRemap", "cancelWait"} /\ UNCHANGED listed
  <2>1. thread[w].pc \notin {"remapWait", "cancelRemap", "cancelWait"}
    BY <1>3 DEF CloseInv
  <2>2. thread[w].pc # "await"
    BY <1>3 DEF PageInv, WaitingPages
  <2>3. thread'[w].pc \notin {"remapWait", "cancelRemap", "cancelWait"}
    <3>1. CASE Handling(w)
      BY <1>3, <2>1, <2>2, <3>1, HandlingPage DEF HandledPage
    <3>2. CASE CancelPage(w)
      BY <1>3, <3>2, CancelPageTasks DEF Moves
    <3>3. CASE UnPinPage(w)
      BY <3>3, UnPinPageTasks DEF Moves
    <3>4. CASE AbandonPages(w)
      BY <3>4, AbandonPagesTasks
    <3>5. QED  BY <3>1, <3>2, <3>3, <3>4 DEF Working, Handling
  <2>4. UNCHANGED listed
    BY <2>1 DEF At, Working, TakeTask, FindError, CancelPage, CancelRemap, RemapCanceled, StartPage,
         AwaitReader, RemapReturns, ProcessPage, UnPinPage, MarkJobAsDone, NextPage, AbandonPages,
         FinishTask, Sleep, jobVars
  <2>5. QED  BY <2>3, <2>4
<1>4. Closing' <=> Closing
  BY <1>2 DEF Closing
<1>5. ASSUME TargetChunks = {}, Closing
      PROVE  /\ \A t \in Clients : At(t, "idle")'
             /\ closer'[2] = Len(listed')
             /\ \A i \in DOMAIN listed' : i < closer'[1] => job'[listed'[i]].done
  <2>1. \A t \in Clients : thread'[t].pc = "idle"
    BY <1>1, <1>5, Constants DEF CloseInv, At
  <2>2. closer'[2] = Len(listed')
    BY <1>2, <1>3, <1>5 DEF CloseInv
  <2>3. ASSUME NEW i \in DOMAIN listed, i < closer[1] PROVE job'[listed[i]].done
    <3>1. job[listed[i]].done
      BY <1>5, <2>3 DEF CloseInv
    <3>2. listed[i] \in DOMAIN job
      BY <2>3 DEF TaskInv, JobsListed, Listed, ToSet
    <3>3. QED  BY <1>1, <3>1, <3>2 DEF JobsUse
  <2>4. QED  BY <1>2, <1>3, <1>5, <2>1, <2>2, <2>3 DEF At
<1>6. \A u \in Workers \ {w} : thread'[u] = thread[u]
  BY <1>1, Constants
<1>7. QED  BY <1>3, <1>4, <1>5, <1>6 DEF CloseInv

\* Nobody calls while the destructor runs.
LEMMA ClientsClose ==
  ASSUME TaskInv, CloseInv, NEW t \in Clients,
         \/ \E r \in Requests[t] : RequestData(t, r)
         \/ \E j \in owned[t] : IsCompleted(t, j) \/ IsCanceled(t, j) \/ Cancel(t, j)
                                \/ WaitForCompletion(t, j)
         \/ Adding(t) \/ Waiting(t)
  PROVE  CloseInv'
<1>1. UNCHANGED closer
  BY DEF RequestData, IsCompleted, IsCanceled, Cancel, WaitForCompletion, Adding, Waiting, FindAccessor,
         EnsureMaxPages, PrepareReadPage, PrepareRefused, AddRemapJob, AddJob, Sleep, WaitReturns
<1>2. \A w \in Workers : thread'[w] = thread[w]
  <2>1. CASE AddJob(t)
    <3>1. \A u \in Threads \ {t} : thread'[u] = thread[u]
      <4>1. At(t, "enqueue") /\ JobAdded(t, Len(job) + 1)
        BY <2>1 DEF AddJob
      <4>2. QED  BY <4>1, CallReturns
    <3>2. QED  BY <3>1, Constants
  <2>2. CASE ~AddJob(t)
    BY <2>2, ClientStepTasks DEF ClientStep, Asking, Adding
  <2>3. QED  BY <2>1, <2>2
<1>3. TargetChunks = {} => ~Closing
  <2>1. SUFFICES ASSUME TargetChunks = {}, Closing PROVE FALSE
    OBVIOUS
  <2>2. At(t, "idle")
    BY <2>1 DEF CloseInv
  <2>3. QED  BY <2>1, <2>2 DEF At, RequestData, IsCompleted, IsCanceled, Cancel, WaitForCompletion, Adding,
               Waiting, FindAccessor, EnsureMaxPages, PrepareReadPage, PrepareRefused, AddRemapJob, AddJob,
               Sleep, WaitReturns
<1>4. Closing' <=> Closing
  BY <1>1 DEF Closing
<1>5. QED  BY <1>2, <1>3, <1>4 DEF CloseInv

LEMMA OtherClose ==
  ASSUME TaskInv, CloseInv, OtherStep
  PROVE  CloseInv'
<1>1. UNCHANGED <<thread, listed>> /\ JobsUse
  BY ClientStepUse DEF ClientStep, OtherStep, CleanUp, Close, CloseNext, vars, jobVars
<1>2. CASE UNCHANGED closer
  <2>1. Closing' <=> Closing
    BY <1>2 DEF Closing
  <2>2. ASSUME TargetChunks = {}, Closing, NEW i \in DOMAIN listed, i < closer[1]
        PROVE  job'[listed[i]].done
    <3>1. job[listed[i]].done
      BY <2>2 DEF CloseInv
    <3>2. listed[i] \in DOMAIN job
      BY <2>2 DEF TaskInv, JobsListed, Listed, ToSet
    <3>3. QED  BY <1>1, <3>1, <3>2 DEF JobsUse
  <2>3. QED  BY <1>1, <1>2, <2>1, <2>2 DEF CloseInv, At
<1>3. CASE Close
  <2>1. /\ MayClose /\ closer' = <<1, Len(listed)>> /\ \A u \in Clients : At(u, "idle")
    BY <1>3 DEF Close
  <2>2. closer'[1] = 1 /\ closer'[2] = Len(listed)
    BY <2>1
  <2>3. \A i \in DOMAIN listed : ~(i < 1)
    BY DEF TaskInv, Shape
  <2>4. QED  BY <1>1, <2>1, <2>2, <2>3 DEF CloseInv, At
<1>4. CASE CloseNext
  <2>1. /\ Closing /\ closer' = [closer EXCEPT ![1] = @ + 1] /\ job[listed[closer[1]]].done
        /\ UNCHANGED job
    BY <1>4 DEF CloseNext, MayPassJob, IsDone, jobVars
  <2>2. closer \in Nat \X Nat
    BY DEF TaskInv, Shape
  <2>3. PICK a \in Nat, b \in Nat : closer = <<a, b>>
    BY <2>2
  <2>4. closer' = <<a + 1, b>>
    BY <2>1, <2>3
  <2>5. closer[1] = a /\ closer[2] = b /\ closer'[1] = a + 1 /\ closer'[2] = b
    BY <2>3, <2>4
  <2>6. MayClose
    BY <2>1 DEF CloseInv
  <2>7. ASSUME TargetChunks = {}
        PROVE  /\ \A u \in Clients : At(u, "idle")'
               /\ closer'[2] = Len(listed')
               /\ \A i \in DOMAIN listed' : i < closer'[1] => job'[listed'[i]].done
    <3>1. /\ \A u \in Clients : At(u, "idle")
          /\ closer[2] = Len(listed)
          /\ \A i \in DOMAIN listed : i < closer[1] => job[listed[i]].done
      BY <2>1, <2>7 DEF CloseInv
    <3>2. \A i \in DOMAIN listed : i < a + 1 => i < a \/ i = a
      <4>1. DOMAIN listed \subseteq Nat
        BY DEF TaskInv, Shape
      <4>2. QED  BY <4>1
    <3>3. QED  BY <1>1, <2>1, <2>5, <3>1, <3>2 DEF At
  <2>8. QED  BY <1>1, <2>6, <2>7 DEF CloseInv
<1>5. UNCHANGED closer \/ Close \/ CloseNext
  BY DEF OtherStep, CleanUp, vars
<1>6. QED  BY <1>2, <1>3, <1>4, <1>5

LEMMA InitClose == Init => CloseInv
<1> SUFFICES ASSUME Init PROVE CloseInv
  OBVIOUS
<1>1. ~Closing
  BY DEF Init, Closing
<1>2. \A w \in Workers : thread[w].pc = "idle"
  BY Constants DEF Init
<1>3. QED  BY <1>1, <1>2 DEF CloseInv

LEMMA NextClose ==
  ASSUME TaskInv, PageInv, CloseInv, [Next]_vars
  PROVE  CloseInv'
BY WorkersClose, ClientsClose, OtherClose DEF Next, OtherStep

LEMMA InitPageInv == Init => PageInv
<1> SUFFICES ASSUME Init PROVE PageInv
  OBVIOUS
<1>1. job = <<>> /\ DOMAIN job = {} /\ \A w \in Workers : thread[w].pc = "idle"
  BY Constants DEF Init
<1>2. QED  BY <1>1 DEF PageInv, PagesPending, WaitingPages

\* Of a task that is queued a page is pending.
LEMMA QueuedPending ==
  ASSUME TaskInv, NEW k \in DOMAIN queue
  PROVE  queue[k].job \in DOMAIN job /\ Pending(queue[k].job) # {}
<1>1. PICK j, n : j = queue[k].job /\ n = queue[k].page
  OBVIOUS
<1>2. j \in DOMAIN job /\ n \in 0 .. Len(job[j].pages)
  BY <1>1 DEF TaskInv, InQueue
<1>3. /\ DOMAIN job[j].pages = 1 .. Len(job[j].pages) /\ Len(job[j].pages) \in Nat
      /\ Len(job[j].pages) # 0
  <2>1. /\ DOMAIN job[j].pages = 1 .. Len(job[j].pages) /\ Len(job[j].pages) \in Nat
        /\ job[j].pages \in Seq(Chunks \cup {NoChunk}) /\ job[j].pages # <<>>
    BY <1>2, JobPlaces DEF TaskInv, JobForms, JobRecord
  <2>2. QED  BY <2>1
<1>4. PICK i \in DOMAIN job[j].pages : n = 0 \/ n = i
  <2>1. CASE n = 0
    <3>1. 1 \in DOMAIN job[j].pages
      BY <1>3
    <3>2. QED  BY <2>1, <3>1
  <2>2. CASE n # 0
    BY <1>2, <1>3, <2>2
  <2>3. QED  BY <2>1, <2>2
<1>5. Queued(j, i)
  BY <1>1, <1>4 DEF Queued
<1>6. i \in Pending(j)
  BY <1>4, <1>5, PinnedBy DEF Pending
<1>7. QED  BY <1>1, <1>2, <1>6

LEMMA ClosedQuiet ==
  ASSUME TaskInv, CloseInv, TargetChunks = {}, Closed
  PROVE  queue = <<>> /\ \A w \in Workers : thread[w].pc \notin UsingJob
<1>1. Closing
  <2>1. ~(<<0, 0>>[1] > <<0, 0>>[2])
    OBVIOUS
  <2>2. QED  BY <2>1 DEF Closed, Closing
<1>2. \A j \in Listed : job[j].done
  <2>1. ASSUME NEW j \in Listed PROVE job[j].done
    <3>1. listed \in Seq(Jobs) /\ closer \in Nat \X Nat
      BY DEF TaskInv, Shape
    <3>2. PICK i \in DOMAIN listed : listed[i] = j
      BY <2>1 DEF Listed, ToSet
    <3>3. i <= Len(listed) /\ i \in Nat /\ Len(listed) \in Nat
      BY <3>1, <3>2
    <3>4. closer[1] > Len(listed) /\ closer[1] \in Nat
      BY <1>1, <3>1 DEF CloseInv, Closed
    <3>5. i < closer[1]
      BY <3>3, <3>4
    <3>6. QED  BY <1>1, <3>2, <3>5 DEF CloseInv
  <2>2. QED  BY <2>1
<1>3. \A j \in DOMAIN job : job[j].done /\ Pending(j) = {}
  BY <1>2 DEF TaskInv, Counts
<1>4. queue = <<>>
  <2>1. DOMAIN queue = {}
    BY <1>3, QueuedPending
  <2>2. queue \in Seq(Task)
    BY DEF TaskInv, Shape
  <2>3. QED  BY <2>1, <2>2
<1>5. ASSUME NEW w \in Workers, thread[w].pc \in UsingJob PROVE FALSE
  <2>1. CASE At(w, "last")
    <3>1. thread[w].job \in DOMAIN job
      BY <2>1, WorkersPage
    <3>2. QED  BY <1>3, <2>1, <3>1 DEF TaskInv, Lasts
  <2>2. CASE ~At(w, "last")
    <3>1. thread[w].pc \in Carrying
      BY <1>5, <2>2 DEF Carrying
    <3>2. QED  BY <1>3, <3>1, CarriesPending DEF JobOf
  <2>3. QED  BY <2>1, <2>2
<1>6. QED  BY <1>4, <1>5

\* The page accessor of a job or call in progress is not emptied; and, with no
\* remapped layer, the destructor does not end before the last task has let go of
\* its job and its accessor.  With one, a task may erase a job from m_jobs while the
\* destructor waits in its loop over it.
THEOREM AccessorsStayInUse ==
  ASSUME TargetChunks = {} \/ ~MayClose
  PROVE  Spec => []AccessorsStay
<1>1. Init => TaskInv /\ PageInv /\ References /\ CloseInv
  BY InitTasks, InitPageInv, InitReferences, InitClose
<1>2. TaskInv /\ PageInv /\ References /\ CloseInv /\ [Next]_vars
        => TaskInv' /\ PageInv' /\ References' /\ CloseInv'
  BY NextTasks, NextPageInv, NextReferences, NextClose
<1>3. TaskInv /\ References /\ CloseInv => AccessorsStay
  <2> SUFFICES ASSUME TaskInv, References, CloseInv PROVE AccessorsStay
    OBVIOUS
  <2>1. ASSUME NEW j \in DOMAIN job, ~job[j].done PROVE keepsPages[job[j].accessor]
    <3>1. job[j].accessor \in Accessors
      BY <2>1, JobPlaces DEF TaskInv, JobRecord
    <3>2. <<"job", j>> \in Users(job[j].accessor)
      BY <2>1, UserIn
    <3>3. QED  BY <3>1, <3>2 DEF References
  <2>2. ASSUME NEW t \in Clients, thread[t].pc \in {"prepare", "enqueue"}
        PROVE  keepsPages[AccessorFor(t)]
    <3>1. AccessorFor(t) \in Accessors
      BY DEF AccessorFor, AccessorOf, Accessors
    <3>2. <<"call", t>> \in Users(AccessorFor(t))
      BY <2>2, UserIn
    <3>3. QED  BY <3>1, <3>2 DEF References
  <2>3. Closed => queue = <<>> /\ \A w \in Workers : thread[w].pc \notin UsingJob
    <3>1. CASE MayClose
      BY <3>1, ClosedQuiet
    <3>2. CASE ~MayClose
      <4>1. closer = <<0, 0>>
        BY <3>2 DEF CloseInv, Closing
      <4>2. ~Closed
        BY <4>1 DEF Closed
      <4>3. QED  BY <4>2
    <3>3. QED  BY <3>1, <3>2
  <2>4. QED  BY <2>1, <2>2, <2>3 DEF AccessorsStay
<1>4. QED  BY <1>1, <1>2, <1>3, PTL DEF Spec
-----------------------------------------------------------------------------
(* The pages of a remapped layer.                                          *)

\* A client is adding the job for target page c.
Added(c) == \E t \in Clients : thread[t].outer # NoFrame /\ RemapTarget(t) = c

\* A page in the cache was prepared once; its last user takes it out.
ChunksInv == \A c \in TargetChunks :
  /\ content[c] = "none" => pins[c] = 0
  /\ content[c] = "prepared" => pins[c] # 0 /\ (Added(c) \/ remapJob[c] \in Jobs)
  /\ Added(c) => content[c] = "prepared" /\ pins[c] = 1

\* What a worker finds in the page of a remapped layer that it holds.
Holds(w) ==
  /\ thread[w].pc \in Carrying /\ PageOf(w) \in TargetChunks =>
       /\ At(w, "remapWait") => content[PageOf(w)] = "reading"
       /\ At(w, "await") => content[PageOf(w)] \in {"reading", "read", "failed"}
       /\ thread[w].pc \in {"process", "unpin"} => content[PageOf(w)] \in {"read", "failed"}
  /\ At(w, "cancelRemap") => thread[w].waitsFor \in Jobs
OneReader == \A v, w \in Workers :
  At(v, "remapWait") /\ At(w, "remapWait") /\ PageOf(v) = PageOf(w) => v = w
\* 1-bit data is not remapped.
SinglePages == \A j \in DOMAIN job : job[j].single =>
  \A i \in Pending(j) : job[j].pages[i] \notin TargetChunks

LEMMA SomeMembers ==
  ASSUME NEW A, IsFiniteSet(A), NEW a \in A
  PROVE  /\ Cardinality(A) \in Nat /\ Cardinality(A) >= 1
         /\ \A b \in A : b # a => Cardinality(A) >= 2
<1>1. IsFiniteSet({a}) /\ Cardinality({a}) = 1
  BY FS_Singleton
<1>2. {a} \subseteq A
  OBVIOUS
<1>3. Cardinality(A) \in Nat /\ Cardinality(A) >= 1
  BY <1>1, <1>2, FS_Subset, FS_CardinalityType
<1>4. ASSUME NEW b \in A, b # a PROVE Cardinality(A) >= 2
  <2>1. Cardinality({a} \cup {b}) = 2 /\ IsFiniteSet({a} \cup {b})
    <3>1. b \notin {a}
      BY <1>4
    <3>2. QED  BY <1>1, <3>1, FS_AddElement
  <2>2. {a} \cup {b} \subseteq A
    BY <1>4
  <2>3. Cardinality({a} \cup {b}) <= Cardinality(A)
    BY <2>2, FS_Subset
  <2>4. QED  BY <1>3, <2>1, <2>3
<1>5. QED  BY <1>3, <1>4

\* Each worker that holds a page, and the call that adds a job for it, has a pin.
LEMMA HeldClaim ==
  ASSUME TaskInv, NEW w \in Workers, thread[w].pc \in Carrying
  PROVE  <<thread[w].job, thread[w].page>> \in JobClaims(PageOf(w))
<1>1. PICK j, i, c : j = thread[w].job /\ i = thread[w].page /\ c = PageOf(w)
  OBVIOUS
<1>2. j \in DOMAIN job /\ i \in Pending(j) /\ job[j].pages[i] = c
  BY <1>1, CarriesPending DEF PageOf, JobOf
<1>3. <<j, i>> \in JobClaims(c)
  BY <1>2, ClaimIn
<1>4. QED  BY <1>1, <1>3

LEMMA HeldPins ==
  ASSUME TaskInv, PinsExact, NEW c \in Chunks, NEW w \in Workers, thread[w].pc \in Carrying,
         PageOf(w) = c
  PROVE  /\ pins[c] \in Nat /\ pins[c] >= 1
         /\ \A v \in Workers : v # w /\ thread[v].pc \in Carrying /\ PageOf(v) = c => pins[c] >= 2
         /\ Added(c) => pins[c] >= 2
<1>1. PICK A, B : A = JobClaims(c) /\ B = CallClaims(c)
  OBVIOUS
<1>2. /\ IsFiniteSet(A) /\ IsFiniteSet(B) /\ Cardinality(A) \in Nat /\ Cardinality(B) \in Nat
      /\ pins[c] = Cardinality(A) + Cardinality(B)
  BY <1>1, JobClaimsOf, CallClaimsOf, ExactPins
<1>3. PICK a : a = <<thread[w].job, thread[w].page>>
  OBVIOUS
<1>4. a \in A
  BY <1>1, <1>3, HeldClaim
<1>5. Cardinality(A) >= 1
  BY <1>2, <1>4, SomeMembers
<1>6. ASSUME NEW v \in Workers, v # w, thread[v].pc \in Carrying, PageOf(v) = c
      PROVE  pins[c] >= 2
  <2>1. PICK b : b = <<thread[v].job, thread[v].page>>
    OBVIOUS
  <2>2. b \in A
    BY <1>1, <1>6, <2>1, HeldClaim
  <2>3. b # a
    <3>1. thread[v].job # 0
      BY <1>6, WorkersPage DEF Carrying, UsingJob
    <3>2. thread[v].job = thread[w].job => thread[v].page # thread[w].page
      BY <1>6, <3>1 DEF TaskInv, OneRuns, HasTask
    <3>3. QED  BY <1>3, <2>1, <3>2
  <2>4. Cardinality(A) >= 2
    BY <1>2, <1>4, <2>2, <2>3, SomeMembers
  <2>5. QED  BY <1>2, <2>4
<1>7. ASSUME Added(c) PROVE pins[c] >= 2
  <2>1. PICK t \in Clients : thread[t].outer # NoFrame /\ RemapTarget(t) = c
    BY <1>7 DEF Added
  <2>2. PICK s : s = thread[t].outer.pages
    OBVIOUS
  <2>3. s \in Seq(Chunks)
    BY <2>1, <2>2, ClientsCall DEF ThreadRecord, Frame
  <2>4. OwnPages(t) = Append(s, c)
    BY <2>1, <2>2 DEF OwnPages
  <2>5. PICK n : n = Len(s) + 1
    OBVIOUS
  <2>6. n \in DOMAIN Append(s, c) /\ Append(s, c)[n] = c
    BY <1>7, <2>3, <2>5
  <2>7. <<"own", n>> \in PreparedBy(t, c)
    BY <2>4, <2>6 DEF PreparedBy
  <2>8. <<t, <<"own", n>>>> \in B
    BY <1>1, <2>7 DEF CallClaims
  <2>9. Cardinality(B) >= 1
    BY <1>2, <2>8, SomeMembers
  <2>10. QED  BY <1>2, <1>5, <2>9
<1>8. QED  BY <1>2, <1>5, <1>6, <1>7

\* A page that is still to be given back is the one it was, or no page any more.
PagesGo == DOMAIN job' = DOMAIN job /\ \A k \in DOMAIN job :
  /\ job'[k].single = job[k].single
  /\ \A i \in Pending(k)' : i \in Pending(k) /\ job'[k].pages[i] \in {job[k].pages[i], NoChunk}

LEMMA GoSingle ==
  ASSUME SinglePages, PagesGo
  PROVE  SinglePages'
<1>1. ASSUME NEW k \in DOMAIN job, job'[k].single, NEW i \in Pending(k)'
      PROVE  job'[k].pages[i] \notin TargetChunks
  <2>1. /\ job[k].single /\ i \in Pending(k) /\ job'[k].pages[i] \in {job[k].pages[i], NoChunk}
    BY <1>1 DEF PagesGo
  <2>2. NoChunk \notin TargetChunks
    BY Constants
  <2>3. QED  BY <2>1, <2>2 DEF SinglePages
<1>2. QED  BY <1>1 DEF SinglePages, PagesGo

LEMMA StayingGo ==
  ASSUME TaskInv, PagesStay, \A k \in DOMAIN job : job'[k].single = job[k].single
  PROVE  PagesGo
<1>1. ASSUME NEW k \in DOMAIN job, NEW i \in Pending(k)'
      PROVE  i \in Pending(k) /\ job'[k].pages[i] = job[k].pages[i]
  <2>1. i \in Pending(k)
    BY <1>1 DEF PagesStay
  <2>2. ~job[k].done
    BY <2>1 DEF TaskInv, Counts
  <2>3. QED  BY <2>1, <2>2 DEF PagesStay
<1>2. QED  BY <1>1 DEF PagesGo, PagesStay
LEMMA WorkersGo ==
  ASSUME TaskInv, NEW w \in Workers, Working(w)
  PROVE  PagesGo
<1>1. JobsUse
  BY WorkerUses
<1>2. CASE Handling(w)
  BY <1>1, <1>2, HandlingPages, StayingGo DEF JobsUse
<1>3. CASE CancelPage(w)
  <2>1. PICK j, n : j = thread[w].job /\ n = thread[w].page
    OBVIOUS
  <2>2. thread[w].pc \in Carrying /\ queue' = queue
    BY <1>3 DEF CancelPage, Carrying, UsingJob
  <2>3. j \in DOMAIN job
    BY <2>1, <2>2, CarriesPending
  <2>4. /\ JobsAlike /\ \A k \in DOMAIN job : k # j => job'[k] = job[k]
        /\ job'[j].pages = [job[j].pages EXCEPT ![n] = NoChunk]
    BY <1>3, <2>1, CancelPageAlike DEF JobOf
  <2>5. TaskInv' /\ \E pc \in Carrying : \E waitsFor, failed : Moves(w, pc, waitsFor, failed)
    <3>1. {"cancelRemap", "unpin"} \subseteq Carrying
      BY DEF Carrying, UsingJob
    <3>2. QED  BY <1>3, <3>1, CancelPageTasks
  <2>6. \A k \in DOMAIN job : Pending(k)' = Pending(k)
    BY <2>2, <2>4, <2>5, PagesOfAlike, MovedPending
  <2>7. \A i \in DOMAIN job[j].pages : job'[j].pages[i] \in {job[j].pages[i], NoChunk}
    <3>1. PICK s \in Seq(Chunks \cup {NoChunk}) : s = job[j].pages
      BY <2>3, JobPlaces DEF JobRecord, TaskInv
    <3>2. \A i \in DOMAIN s : [s EXCEPT ![n] = NoChunk][i] = IF i = n THEN NoChunk ELSE s[i]
      BY <3>1, ReplaceOne
    <3>3. QED  BY <2>4, <3>1, <3>2
  <2>8. \A k \in DOMAIN job : \A i \in Pending(k) : i \in DOMAIN job[k].pages
    BY DEF Pending
  <2>9. QED  BY <1>1, <2>4, <2>6, <2>7, <2>8 DEF JobsUse, PagesGo
<1>4. CASE UnPinPage(w)
  <2>1. \A k \in DOMAIN job :
          /\ job'[k] = [job[k] EXCEPT !.processed = job'[k].processed]
          /\ Pending(k)' \subseteq Pending(k)
    <3>1. \A k \in DOMAIN job :
            /\ k # thread[w].job => job'[k] = job[k] /\ Pending(k)' = Pending(k)
            /\ job'[k] = [job[k] EXCEPT !.processed = job'[k].processed]
            /\ k = thread[w].job => Pending(k)' = Pending(k) \ {thread[w].page}
      BY <1>4, UnPinPageTasks
    <3>2. QED  BY <3>1
  <2>2. ASSUME NEW k \in DOMAIN job PROVE job'[k].pages = job[k].pages
    <3>1. PICK q \in JobRecord : q = job[k]
      BY <2>2, JobPlaces DEF TaskInv
    <3>2. PICK g : g = job'[k].processed
      OBVIOUS
    <3>3. job'[k] = [q EXCEPT !.processed = g]
      BY <2>1, <2>2, <3>1, <3>2
    <3>4. job'[k].pages = q.pages
      BY <3>3 DEF JobRecord
    <3>5. QED  BY <3>1, <3>4
  <2>3. QED  BY <1>1, <2>1, <2>2 DEF JobsUse, PagesGo
<1>5. CASE AbandonPages(w)
  <2>1. ASSUME NEW k \in DOMAIN job, NEW i \in Pending(k)'
        PROVE  i \in Pending(k) /\ job'[k].pages[i] \in {job[k].pages[i], NoChunk}
    <3>1. CASE k # thread[w].job
      BY <1>5, <2>1, <3>1, AbandonPagesTasks
    <3>2. CASE k = thread[w].job
      <4>1. /\ \A x \in DOMAIN job[k].pages :
                 job'[k].pages[x] = IF x > thread[w].page THEN NoChunk ELSE job[k].pages[x]
            /\ Pending(k)' = {x \in Pending(k) : ~(x > thread[w].page)}
        BY <1>5, <2>1, <3>2, AbandonPagesTasks
      <4>2. i \in Pending(k) /\ i \in DOMAIN job[k].pages
        BY <2>1, <4>1 DEF Pending
      <4>3. QED  BY <4>1, <4>2
    <3>3. QED  BY <3>1, <3>2
  <2>2. QED  BY <1>1, <2>1 DEF JobsUse, PagesGo
<1>6. QED  BY <1>2, <1>3, <1>4, <1>5 DEF Working, Handling

\* The page that another worker holds stays its page.
LEMMA WorkersOther ==
  ASSUME TaskInv, PageInv, NEW w \in Workers, Working(w)
  PROVE  OtherPages(w) /\ \A v \in Workers \ {w} : thread'[v] = thread[v]
<1>1. \A v \in Workers \ {w} : thread'[v] = thread[v]
  BY WorkerUses, Constants
<1>2. OtherPages(w)
  <2>1. CASE Handling(w)
    BY <1>1, <2>1, HandlingPages, PageKept DEF OtherPages
  <2>2. CASE ~Handling(w)
    BY <2>2, CancelPagePage, UnPinPagePage, AbandonPage DEF Working, Handling
  <2>3. QED  BY <2>1, <2>2
<1>3. QED  BY <1>1, <1>2

\* Whoever holds a page finds it as it was, or further on.
Onward(v) == thread[v].pc \in Carrying /\ PageOf(v) \in TargetChunks =>
  \/ content'[PageOf(v)] = content[PageOf(v)]
  \/ content[PageOf(v)] = "prepared" /\ content'[PageOf(v)] = "reading"
  \/ content[PageOf(v)] = "reading" /\ content'[PageOf(v)] \in {"read", "failed"} /\ ~At(v, "remapWait")

LEMMA OnwardHolds ==
  ASSUME NEW v \in Workers, Holds(v), Onward(v), thread'[v] = thread[v],
         thread[v].pc \in Carrying => PageOf(v)' = PageOf(v)
  PROVE  Holds(v)'
<1>1. At(v, "cancelRemap")' => thread'[v].waitsFor \in Jobs
  BY DEF Holds, At
<1>2. ASSUME thread[v].pc \in Carrying, PageOf(v)' \in TargetChunks
      PROVE  /\ At(v, "remapWait")' => content'[PageOf(v)'] = "reading"
             /\ At(v, "await")' => content'[PageOf(v)'] \in {"reading", "read", "failed"}
             /\ thread'[v].pc \in {"process", "unpin"} => content'[PageOf(v)'] \in {"read", "failed"}
  <2>1. PICK c : c = PageOf(v)
    OBVIOUS
  <2>2. PageOf(v)' = c /\ c \in TargetChunks
    BY <1>2, <2>1
  <2>3. /\ At(v, "remapWait") => content[c] = "reading"
        /\ At(v, "await") => content[c] \in {"reading", "read", "failed"}
        /\ thread[v].pc \in {"process", "unpin"} => content[c] \in {"read", "failed"}
    BY <1>2, <2>1, <2>2 DEF Holds
  <2>4. \/ content'[c] = content[c]
        \/ content[c] = "prepared" /\ content'[c] = "reading"
        \/ content[c] = "reading" /\ content'[c] \in {"read", "failed"} /\ ~At(v, "remapWait")
    BY <1>2, <2>1, <2>2 DEF Onward
  <2>5. QED  BY <2>2, <2>3, <2>4 DEF At
<1>3. QED  BY <1>1, <1>2 DEF Holds

LEMMA AddedStays ==
  ASSUME \A t \in Clients : thread'[t] = thread[t], NEW c
  PROVE  Added(c)' <=> Added(c)
BY DEF Added, RemapTarget
ReadInv == SinglePages /\ ChunksInv /\ (\A w \in Workers : Holds(w)) /\ OneReader

\* What a step of worker w does to the pages of the remapped layer.
Handled(w) ==
  /\ ChunksInv' /\ Holds(w)' /\ \A v \in Workers \ {w} : Onward(v)
  /\ At(w, "remapWait")' => \A v \in Workers \ {w} : At(v, "remapWait") => PageOf(v) # PageOf(w)'

LEMMA ChunksStay ==
  ASSUME ChunksInv, UNCHANGED <<content, remapJob>>, \A c \in TargetChunks : pins'[c] = pins[c],
         \A t \in Clients : thread'[t] = thread[t]
  PROVE  ChunksInv' /\ \A v \in Workers : Onward(v)
<1>1. \A c \in TargetChunks : Added(c)' <=> Added(c)
  BY AddedStays
<1>2. QED  BY <1>1 DEF ChunksInv, Onward

LEMMA StartReads ==
  ASSUME TaskInv, PageInv, PinsExact, ReadInv, NEW w \in Workers, StartPage(w)
  PROVE  Handled(w)
<1>1. PICK c : c = PageOf(w)
  OBVIOUS
<1>2. /\ thread[w].pc = "page" /\ thread[w].pc \in Carrying /\ UNCHANGED <<pins, remapJob>>
  BY DEF StartPage, Carrying, UsingJob
<1>3. /\ PagesStay /\ \A t \in Clients : thread'[t] = thread[t]
  BY HandlingPages, Constants DEF Handling
<1>4. /\ content \in [TargetChunks -> Contents] /\ SourceChunks \cap TargetChunks = {}
  BY Constants DEF TaskInv, Shape
<1>5. \A pc, waitsFor, failed : Moves(w, pc, waitsFor, failed) =>
        PageOf(w)' = c /\ thread'[w].pc = pc
  BY <1>1, <1>2, <1>3, PageKept DEF Moves
<1>6. CASE c \in SourceChunks /\ UNCHANGED content
           /\ \E pc \in {"process", "unpin"} : \E waitsFor, failed : Moves(w, pc, waitsFor, failed)
  <2>1. PageOf(w)' = c /\ thread'[w].pc \in {"process", "unpin"}
    BY <1>5, <1>6
  <2>2. Holds(w)' /\ ~At(w, "remapWait")'
    BY <1>4, <1>6, <2>1 DEF Holds, At
  <2>3. ChunksInv' /\ \A v \in Workers : Onward(v)
    BY <1>2, <1>3, <1>6, ChunksStay DEF ReadInv
  <2>4. QED  BY <2>2, <2>3 DEF Handled
<1>7. CASE c \in TargetChunks /\ content[c] \in {"reading", "read"} /\ UNCHANGED content
           /\ Moves(w, "await", thread[w].waitsFor, thread[w].failed)
  <2>1. PageOf(w)' = c /\ thread'[w].pc = "await"
    BY <1>5, <1>7
  <2>2. Holds(w)' /\ ~At(w, "remapWait")'
    BY <1>7, <2>1 DEF Holds, At
  <2>3. ChunksInv' /\ \A v \in Workers : Onward(v)
    BY <1>2, <1>3, <1>7, ChunksStay DEF ReadInv
  <2>4. QED  BY <2>2, <2>3 DEF Handled
<1>8. CASE /\ c \in TargetChunks /\ content[c] = "prepared"
           /\ content' = [content EXCEPT ![c] = "reading"]
           /\ Moves(w, "remapWait", remapJob[c], thread[w].failed)
  <2>1. PageOf(w)' = c /\ thread'[w].pc = "remapWait"
    BY <1>5, <1>8
  <2>2. \A d \in TargetChunks : content'[d] = IF d = c THEN "reading" ELSE content[d]
    BY <1>4, <1>8
  <2>3. Holds(w)'
    BY <1>8, <2>1, <2>2 DEF Holds, At
  <2>4. \A v \in Workers \ {w} : At(v, "remapWait") => PageOf(v) # PageOf(w)'
    <3>1. ASSUME NEW v \in Workers \ {w}, At(v, "remapWait"), PageOf(v) = c PROVE FALSE
      <4>1. thread[v].pc \in Carrying
        BY <3>1 DEF At, Carrying, UsingJob
      <4>2. content[c] = "reading"
        BY <1>8, <3>1, <4>1 DEF ReadInv, Holds
      <4>3. QED  BY <1>8, <4>2
    <3>2. QED  BY <2>1, <3>1
  <2>5. \A v \in Workers \ {w} : Onward(v)
    BY <1>8, <2>2 DEF Onward
  <2>6. ChunksInv'
    <3>1. \A d \in TargetChunks : Added(d)' <=> Added(d)
      BY <1>3, AddedStays
    <3>2. ~Added(c)
      <4>1. Added(c) => pins[c] >= 2
        BY <1>1, <1>2, <1>8, Constants, HeldPins
      <4>2. Added(c) => pins[c] = 1
        BY <1>8 DEF ReadInv, ChunksInv
      <4>3. QED  BY <4>1, <4>2
    <3>3. QED  BY <1>2, <2>2, <3>1, <3>2 DEF ReadInv, ChunksInv
  <2>7. QED  BY <2>3, <2>4, <2>5, <2>6 DEF Handled
<1>9. QED  BY <1>1, <1>6, <1>7, <1>8, StartPageTasks

LEMMA ReturnReads ==
  ASSUME TaskInv, PageInv, PinsExact, ReadInv, NEW w \in Workers, RemapReturns(w)
  PROVE  Handled(w)
<1>1. PICK c : c = PageOf(w)
  OBVIOUS
<1>2. /\ At(w, "remapWait") /\ thread[w].pc \in Carrying /\ UNCHANGED <<pins, remapJob>>
  BY DEF RemapReturns, At, Carrying, UsingJob
<1>3. /\ PagesStay /\ \A t \in Clients : thread'[t] = thread[t]
  BY HandlingPages, Constants DEF Handling
<1>4. c \in TargetChunks /\ content[c] = "reading" /\ content \in [TargetChunks -> Contents]
  BY <1>1, <1>2 DEF At, TaskInv, Shape, PageInv, WaitingPages, ReadInv, Holds
<1>5. \E x \in {"read", "failed"} : content' = [content EXCEPT ![c] = x]
  BY <1>1, RemapReturnsTasks
<1>6. PICK x \in {"read", "failed"} : content' = [content EXCEPT ![c] = x]
  BY <1>5
<1>7. \A d \in TargetChunks : content'[d] = IF d = c THEN x ELSE content[d]
  BY <1>4, <1>6
<1>8. PageOf(w)' = c /\ thread'[w].pc \in {"process", "unpin"}
  <2>1. \E pc \in {"process", "unpin"} : \E waitsFor, failed : Moves(w, pc, waitsFor, failed)
    BY RemapReturnsTasks
  <2>2. QED  BY <1>1, <1>2, <1>3, <2>1, PageKept DEF Moves
<1>9. Holds(w)' /\ ~At(w, "remapWait")'
  BY <1>4, <1>7, <1>8 DEF Holds, At
<1>10. \A v \in Workers \ {w} : Onward(v)
  <2>1. ASSUME NEW v \in Workers \ {w}, PageOf(v) = c PROVE ~At(v, "remapWait")
    BY <1>1, <1>2, <2>1 DEF ReadInv, OneReader
  <2>2. QED  BY <1>4, <1>7, <2>1 DEF Onward
<1>11. ChunksInv'
  <2>1. \A d \in TargetChunks : Added(d)' <=> Added(d)
    BY <1>3, AddedStays
  <2>2. ~Added(c)
    BY <1>4 DEF ReadInv, ChunksInv
  <2>3. QED  BY <1>2, <1>7, <2>1, <2>2 DEF ReadInv, ChunksInv
<1>12. QED  BY <1>9, <1>10, <1>11 DEF Handled

LEMMA CancelReads ==
  ASSUME TaskInv, PageInv, PinsExact, ReadInv, NEW w \in Workers, CancelPage(w)
  PROVE  Handled(w)
<1>1. PICK c : c = PageOf(w)
  OBVIOUS
<1>2. /\ thread[w].pc = "page" /\ thread[w].pc \in Carrying /\ UNCHANGED remapJob
  BY DEF CancelPage, At, Carrying, UsingJob
<1>3. \A t \in Clients : thread'[t] = thread[t]
  BY WorkerUses, Constants DEF Working
<1>4. c \in Chunks
  BY <1>1, <1>2, CarriedPage DEF PageInv
<1>5. /\ pins[c] \in Nat /\ pins[c] >= 1
      /\ \A v \in Workers : v # w /\ thread[v].pc \in Carrying /\ PageOf(v) = c => pins[c] >= 2
      /\ Added(c) => pins[c] >= 2
  BY <1>1, <1>2, <1>4, HeldPins
<1>6. PageOf(w)' = NoChunk
  BY CancelPagePage
<1>7. /\ pins \in [Chunks -> Int] /\ pins' = [pins EXCEPT ![c] = @ - 1]
      /\ content' = [x \in TargetChunks |->
                       IF pins[c] = 1 /\ c \in TargetChunks /\ x = c THEN "none" ELSE content[x]]
  BY <1>1 DEF CancelPage, TaskInv, Shape
<1>8. /\ \A d \in Chunks : pins'[d] = IF d = c THEN pins[c] - 1 ELSE pins[d]
      /\ \A d \in TargetChunks : content'[d] = IF pins[c] = 1 /\ d = c THEN "none" ELSE content[d]
  BY <1>4, <1>7
<1>9. Holds(w)' /\ ~At(w, "remapWait")'
  <2>1. /\ thread'[w].pc \in {"cancelRemap", "unpin"}
        /\ thread'[w].pc = "cancelRemap" => thread'[w].waitsFor = remapJob[c] /\ pins[c] = 1
                                            /\ c \in TargetChunks /\ content[c] = "prepared"
    BY <1>1, CancelPageTasks DEF Moves
  <2>2. thread'[w].pc = "cancelRemap" => thread'[w].waitsFor \in Jobs
    BY <1>5, <2>1 DEF ReadInv, ChunksInv
  <2>3. NoChunk \notin TargetChunks
    BY Constants
  <2>4. QED  BY <1>6, <2>1, <2>2, <2>3 DEF Holds, At
<1>10. \A v \in Workers \ {w} : Onward(v)
  BY <1>5, <1>8 DEF Onward
<1>11. ChunksInv'
  <2>1. \A d \in TargetChunks : Added(d)' <=> Added(d)
    BY <1>3, AddedStays
  <2>2. ASSUME NEW d \in TargetChunks
        PROVE  /\ content'[d] = "none" => pins'[d] = 0
               /\ content'[d] = "prepared" => pins'[d] # 0 /\ (Added(d) \/ remapJob[d] \in Jobs)
               /\ Added(d) => content'[d] = "prepared" /\ pins'[d] = 1
    <3>1. /\ content[d] = "none" => pins[d] = 0
          /\ content[d] = "prepared" => pins[d] # 0 /\ (Added(d) \/ remapJob[d] \in Jobs)
          /\ Added(d) => content[d] = "prepared" /\ pins[d] = 1
      BY <2>2 DEF ReadInv, ChunksInv
    <3>2. d \in Chunks
      BY <2>2, Constants
    <3>3. CASE d # c
      BY <1>8, <2>2, <3>1, <3>2, <3>3
    <3>4. CASE d = c
      <4>1. pins'[d] = pins[d] - 1 /\ content'[d] = IF pins[d] = 1 THEN "none" ELSE content[d]
        BY <1>8, <2>2, <3>2, <3>4
      <4>2. pins[d] \in Nat /\ pins[d] >= 1 /\ (Added(d) => pins[d] >= 2)
        BY <1>5, <3>4
      <4>3. QED  BY <3>1, <4>1, <4>2
    <3>5. QED  BY <3>3, <3>4
  <2>3. QED  BY <1>2, <2>1, <2>2 DEF ChunksInv
<1>12. QED  BY <1>9, <1>10, <1>11 DEF Handled
LEMMA UnPinReads ==
  ASSUME TaskInv, PageInv, PinsExact, ReadInv, NEW w \in Workers, UnPinPage(w)
  PROVE  Handled(w)
<1>1. PICK c : c = PageOf(w)
  OBVIOUS
<1>2. /\ thread[w].pc = "unpin" /\ thread[w].pc \in Carrying /\ UNCHANGED <<content, remapJob>>
      /\ pins' = [x \in Chunks |-> IF x = c THEN pins[x] - 1 ELSE pins[x]]
  BY <1>1 DEF UnPinPage, At, Carrying, UsingJob
<1>3. \A t \in Clients : thread'[t] = thread[t]
  BY WorkerUses, Constants DEF Working
<1>4. thread'[w].pc \in {"last", "after"}
  BY UnPinPageTasks DEF Moves
<1>5. Holds(w)' /\ ~At(w, "remapWait")'
  BY <1>4 DEF Holds, At, Carrying, UsingJob
<1>6. \A v \in Workers \ {w} : Onward(v)
  BY <1>2 DEF Onward
<1>7. ChunksInv'
  <2>1. \A d \in TargetChunks : Added(d)' <=> Added(d)
    BY <1>3, AddedStays
  <2>2. c \in TargetChunks => content[c] \in {"read", "failed"}
    BY <1>1, <1>2 DEF ReadInv, Holds
  <2>3. \A d \in TargetChunks : d # c => pins'[d] = pins[d]
    BY <1>2, Constants
  <2>4. QED  BY <1>2, <2>1, <2>2, <2>3 DEF ReadInv, ChunksInv
<1>8. QED  BY <1>5, <1>6, <1>7 DEF Handled

LEMMA AbandonReads ==
  ASSUME TaskInv, PageInv, PinsExact, ReadInv, NEW w \in Workers, AbandonPages(w)
  PROVE  Handled(w)
<1>1. PICK j, n, s : j = thread[w].job /\ n = thread[w].page /\ s = job[j].pages
  OBVIOUS
<1>2. PICK left : left = {i \in DOMAIN s : i > n}
  OBVIOUS
<1>3. /\ pins' = [c \in Chunks |-> pins[c] - Cardinality({i \in left : s[i] = c})]
      /\ At(w, "after") /\ job[j].single /\ thread[w].failed /\ UNCHANGED <<content, remapJob>>
  BY <1>1, <1>2 DEF AbandonPages, JobOf
<1>4. j \in DOMAIN job
  BY <1>1, <1>3, WorkersPage
<1>5. left \subseteq Pending(j)
  <2>1. Uses(w, j)
    BY <1>1, <1>3 DEF Uses
  <2>2. \A i \in left : n < i /\ i \in DOMAIN job[j].pages
    <3>1. n \in Nat
      BY <1>1, AbandonPagesTasks
    <3>2. DOMAIN s = 1 .. Len(s) /\ Len(s) \in Nat
      BY <1>1, <1>4, JobPlaces DEF TaskInv
    <3>3. QED  BY <1>1, <1>2, <3>1, <3>2
  <2>3. \A i \in left : Carries(w, j, i)
    BY <1>1, <1>3, <2>1, <2>2 DEF Carries
  <2>4. QED  BY <2>2, <2>3, PinnedBy DEF Pending
<1>6. ASSUME NEW c \in TargetChunks PROVE pins'[c] = pins[c]
  <2>1. \A i \in left : s[i] # c
    BY <1>1, <1>3, <1>4, <1>5 DEF ReadInv, SinglePages
  <2>2. {i \in left : s[i] = c} = {}
    BY <2>1
  <2>3. Cardinality({i \in left : s[i] = c}) = 0
    BY <2>2, FS_EmptySet
  <2>4. c \in Chunks /\ pins[c] \in Int
    BY Constants DEF TaskInv, Shape
  <2>5. QED  BY <1>3, <2>3, <2>4
<1>7. \A t \in Clients : thread'[t] = thread[t]
  BY WorkerUses, Constants DEF Working
<1>8. ChunksInv' /\ \A v \in Workers : Onward(v)
  BY <1>3, <1>6, <1>7, ChunksStay DEF ReadInv
<1>9. Holds(w)' /\ ~At(w, "remapWait")'
  <2>1. thread'[w].pc = "future"
    BY AbandonPagesTasks
  <2>2. QED  BY <2>1 DEF Holds, At, Carrying, UsingJob
<1>10. QED  BY <1>8, <1>9 DEF Handled

LEMMA TurnReads ==
  ASSUME TaskInv, PageInv, ReadInv, NEW w \in Workers,
         \/ FindError(w) \/ CancelRemap(w) \/ RemapCanceled(w) \/ AwaitReader(w) \/ ProcessPage(w)
         \/ MarkJobAsDone(w) \/ NextPage(w) \/ TakeTask(w) \/ FinishTask(w) \/ Sleep(w)
  PROVE  Handled(w)
<1>1. PagesStay /\ \A t \in Clients : thread'[t] = thread[t]
  BY HandlingPages, Constants DEF Handling
<1>2. UNCHANGED <<content, pins, remapJob>>
  BY DEF FindError, CancelRemap, RemapCanceled, AwaitReader, ProcessPage, MarkJobAsDone, NextPage,
         TakeTask, FinishTask, Sleep, pageVars
<1>3. ChunksInv' /\ \A v \in Workers : Onward(v)
  BY <1>1, <1>2, ChunksStay DEF ReadInv
<1>4. ASSUME NEW pc, NEW waitsFor, NEW failed, Moves(w, pc, waitsFor, failed), thread[w].pc \in Carrying
      PROVE  PageOf(w)' = PageOf(w) /\ thread'[w].pc = pc
  BY <1>1, <1>4, PageKept DEF Moves
<1>5. CASE FindError(w) \/ NextPage(w) \/ TakeTask(w) \/ FinishTask(w) \/ MarkJobAsDone(w)
  <2>1. thread'[w].pc \in {"page", "future", "idle", "after"}
    BY <1>5, FindErrorTasks, NextPageTasks, TakeTaskTasks, FinishTaskTasks, MarkJobTasks DEF Moves
  <2>2. QED  BY <1>3, <2>1 DEF Handled, Holds, At
<1>6. CASE CancelRemap(w)
  <2>1. thread'[w].pc = "cancelWait"
    BY <1>6, CancelRemapTasks DEF Moves
  <2>2. QED  BY <1>3, <2>1 DEF Handled, Holds, At
<1>7. CASE RemapCanceled(w)
  <2>1. thread[w].pc = "cancelWait" /\ thread[w].pc \in Carrying
    BY <1>7 DEF RemapCanceled, At, Carrying, UsingJob
  <2>2. PageOf(w)' = NoChunk /\ thread'[w].pc = "unpin"
    BY <1>4, <1>7, <2>1, RemapCanceledTasks DEF PageInv, WaitingPages
  <2>3. NoChunk \notin TargetChunks
    BY Constants
  <2>4. QED  BY <1>3, <2>2, <2>3 DEF Handled, Holds, At
<1>8. CASE AwaitReader(w)
  <2>1. thread[w].pc = "await" /\ thread[w].pc \in Carrying
    BY <1>8 DEF AwaitReader, At, Carrying, UsingJob
  <2>2. PICK c : c = PageOf(w)
    OBVIOUS
  <2>3. c \in TargetChunks /\ content[c] \in {"reading", "read", "failed"}
    BY <2>1, <2>2 DEF PageInv, WaitingPages, ReadInv, Holds, At
  <2>4. content[c] # "reading"
    BY <1>8, <2>2 DEF AwaitReader
  <2>5. PageOf(w)' = c /\ thread'[w].pc \in {"process", "unpin"}
    BY <1>4, <1>8, <2>1, <2>2, AwaitReaderTasks
  <2>6. QED  BY <1>2, <1>3, <2>3, <2>4, <2>5 DEF Handled, Holds, At
<1>9. CASE ProcessPage(w)
  <2>1. thread[w].pc = "process" /\ thread[w].pc \in Carrying
    BY <1>9 DEF ProcessPage, At, Carrying, UsingJob
  <2>2. PICK c : c = PageOf(w)
    OBVIOUS
  <2>3. c \in TargetChunks => content[c] \in {"read", "failed"}
    BY <2>1, <2>2 DEF ReadInv, Holds
  <2>4. PageOf(w)' = c /\ thread'[w].pc = "unpin"
    BY <1>4, <1>9, <2>1, <2>2, ProcessPageTasks
  <2>5. QED  BY <1>2, <1>3, <2>3, <2>4 DEF Handled, Holds, At
<1>10. CASE Sleep(w)
  <2>1. thread' = thread
    BY <1>10 DEF Sleep
  <2>2. thread[w].pc \in Carrying => PageOf(w)' = PageOf(w)
    BY <1>1, <2>1, PageKept
  <2>3. Holds(w)'
    BY <1>3, <2>1, <2>2, OnwardHolds DEF ReadInv
  <2>4. At(w, "remapWait") => thread[w].pc \in Carrying
    BY DEF At, Carrying, UsingJob
  <2>5. QED  BY <1>3, <2>1, <2>2, <2>3, <2>4 DEF Handled, ReadInv, OneReader, At
<1>11. QED  BY <1>5, <1>6, <1>7, <1>8, <1>9, <1>10

LEMMA WorkersRead ==
  ASSUME TaskInv, PageInv, PinsExact, ReadInv, NEW w \in Workers, Working(w)
  PROVE  ReadInv' /\ Handled(w)
<1>1. Handled(w)
  BY StartReads, ReturnReads, CancelReads, UnPinReads, AbandonReads, TurnReads DEF Working
<1>2. OtherPages(w) /\ \A v \in Workers \ {w} : thread'[v] = thread[v]
  BY WorkersOther
<1>3. SinglePages'
  BY WorkersGo, GoSingle DEF ReadInv
<1>4. \A v \in Workers : Holds(v)'
  <2>1. ASSUME NEW v \in Workers, v # w PROVE Holds(v)'
    BY <1>1, <1>2, <2>1, OnwardHolds DEF OtherPages, Handled, ReadInv
  <2>2. QED  BY <1>1, <2>1 DEF Handled
<1>5. OneReader'
  <2>1. ASSUME NEW u \in Workers, NEW v \in Workers, At(u, "remapWait")', At(v, "remapWait")',
               PageOf(u)' = PageOf(v)', u # v
        PROVE  FALSE
    <3>1. ASSUME NEW x \in Workers, x # w, At(x, "remapWait")'
          PROVE  At(x, "remapWait") /\ PageOf(x)' = PageOf(x)
      <4>1. thread'[x] = thread[x]
        BY <1>2, <3>1
      <4>2. At(x, "remapWait") /\ thread[x].pc \in Carrying
        BY <3>1, <4>1 DEF At, Carrying, UsingJob
      <4>3. QED  BY <1>2, <3>1, <4>2 DEF OtherPages
    <3>2. ASSUME NEW x \in Workers, x # w, At(x, "remapWait")', At(w, "remapWait")'
          PROVE  PageOf(x)' # PageOf(w)'
      BY <1>1, <3>1, <3>2 DEF Handled
    <3>3. CASE u = w \/ v = w
      BY <2>1, <3>2, <3>3
    <3>4. CASE u # w /\ v # w
      BY <2>1, <3>1, <3>4 DEF ReadInv, OneReader
    <3>5. QED  BY <3>3, <3>4
  <2>2. QED  BY <2>1 DEF OneReader
<1>6. QED  BY <1>1, <1>3, <1>4, <1>5 DEF Handled, ReadInv
-----------------------------------------------------------------------------
\* The call that adds a job for a page has the mutex of the remapped layer.
LEMMA AddedHolds ==
  ASSUME TaskInv
  PROVE  /\ PagesMutexFree("target") => \A c : ~Added(c)
         /\ \A t, u \in Clients : thread[t].outer # NoFrame /\ thread[u].outer # NoFrame => t = u
<1>1. \A t \in Clients : thread[t].outer # NoFrame => pagesMutex["target"] = t /\ t # NoThread
  BY ClientsCall, Constants DEF Call
<1>2. QED  BY <1>1 DEF Added, PagesMutexFree

LEMMA CallersRead ==
  ASSUME ReadInv, SinglePages', ChunksInv',
         \A w \in Workers : thread'[w] = thread[w] /\ Onward(w)
                            /\ (thread[w].pc \in Carrying => PageOf(w)' = PageOf(w))
  PROVE  ReadInv'
<1>1. \A w \in Workers : Holds(w)'
  BY OnwardHolds DEF ReadInv
<1>2. OneReader'
  <2>1. ASSUME NEW u \in Workers, NEW v \in Workers, At(u, "remapWait")', At(v, "remapWait")',
               PageOf(u)' = PageOf(v)'
        PROVE  u = v
    <3>1. thread[u].pc = "remapWait" /\ thread[v].pc = "remapWait"
      BY <2>1 DEF At
    <3>2. PageOf(u) = PageOf(v)
      BY <2>1, <3>1 DEF Carrying, UsingJob
    <3>3. QED  BY <3>1, <3>2 DEF ReadInv, OneReader, At
  <2>2. QED  BY <2>1 DEF OneReader
<1>3. QED  BY <1>1, <1>2 DEF ReadInv

\* A call that adds no job leaves the pages of the tasks alone.
LEMMA SteppersRead ==
  ASSUME TaskInv, ReadInv, ClientStep, ChunksInv', \A w \in Workers : Onward(w)
  PROVE  ReadInv'
<1>1. PagesStay /\ JobsUse /\ \A w \in Workers : thread'[w] = thread[w]
  BY ClientStepPages, ClientStepUse, ClientStepTasks
<1>2. SinglePages'
  <2>1. PagesGo
    BY <1>1, StayingGo DEF JobsUse
  <2>2. QED  BY <2>1, GoSingle DEF ReadInv
<1>3. \A w \in Workers : thread[w].pc \in Carrying => PageOf(w)' = PageOf(w)
  BY <1>1, PageKept
<1>4. QED  BY <1>1, <1>2, <1>3, CallersRead

LEMMA AskingContent ==
  ASSUME (\E t \in Clients : Asking(t)) \/ OtherStep
  PROVE  UNCHANGED remapJob /\ (UNCHANGED content \/ \E x \in Accessors : CleanUp(x))
<1>1. ASSUME NEW t \in Clients, Asking(t)
      PROVE  UNCHANGED <<remapJob, content>>
  <2>1. CASE \E r \in Requests[t] : RequestData(t, r)
    BY <2>1 DEF RequestData, pageVars
  <2>2. CASE \E j \in owned[t] : IsCompleted(t, j) \/ IsCanceled(t, j) \/ Cancel(t, j)
    BY <2>2 DEF IsCompleted, IsCanceled, Cancel, pageVars
  <2>3. CASE (\E j \in owned[t] : WaitForCompletion(t, j)) \/ Waiting(t)
    BY <2>3 DEF WaitForCompletion, Waiting, Sleep, WaitReturns, pageVars
  <2>4. CASE FindAccessor(t) \/ EnsureMaxPages(t) \/ PrepareRefused(t)
    BY <2>4 DEF FindAccessor, EnsureMaxPages, PrepareRefused, pageVars
  <2>5. QED  BY <1>1, <2>1, <2>2, <2>3, <2>4 DEF Asking
<1>2. CASE \E x \in Accessors : CleanUp(x)
  BY <1>2 DEF CleanUp
<1>3. CASE Close \/ CloseNext
  BY <1>3 DEF Close, CloseNext, pageVars
<1>4. CASE UNCHANGED vars
  BY <1>4 DEF vars, pageVars
<1>5. QED  BY <1>1, <1>2, <1>3, <1>4 DEF OtherStep

LEMMA AskingRead ==
  ASSUME TaskInv, PageInv, PinsExact, ReadInv, (\E t \in Clients : Asking(t)) \/ OtherStep
  PROVE  ReadInv'
<1>1. UNCHANGED pins /\ CallsRest /\ ClientStep
  BY AskingPins DEF ClientStep
<1>2. UNCHANGED remapJob
  BY AskingContent
<1>3. \A c \in TargetChunks : content'[c] = content[c] \/ (content'[c] = "none" /\ pins[c] = 0)
  <2>1. CASE \E x \in Accessors : CleanUp(x)
    <3>1. PICK x \in Accessors : CleanUp(x)
      BY <2>1
    <3>2. QED  BY <3>1 DEF CleanUp
  <2>2. CASE UNCHANGED content
    BY <2>2
  <2>3. UNCHANGED content \/ \E x \in Accessors : CleanUp(x)
    BY AskingContent
  <2>4. QED  BY <2>1, <2>2, <2>3
<1>4. \A c : Added(c)' <=> Added(c)
  BY <1>1 DEF CallsRest, Added, RemapTarget
<1>5. ChunksInv'
  BY <1>1, <1>2, <1>3, <1>4 DEF ReadInv, ChunksInv
<1>6. \A w \in Workers : Onward(w)
  <2>1. ASSUME NEW w \in Workers, thread[w].pc \in Carrying, NEW c \in TargetChunks, PageOf(w) = c
        PROVE  content'[c] = content[c]
    <3>1. c \in Chunks
      BY Constants
    <3>2. pins[c] >= 1
      BY <2>1, <3>1, HeldPins
    <3>3. QED  BY <1>3, <3>2
  <2>2. QED  BY <2>1 DEF Onward
<1>7. QED  BY <1>1, <1>5, <1>6, SteppersRead

\* Pins are counted.
LEMMA PinsNatural ==
  ASSUME TaskInv, PinsExact
  PROVE  \A c \in Chunks : pins[c] \in Nat
BY JobClaimsOf, CallClaimsOf, ExactPins

LEMMA PrepareReads ==
  ASSUME TaskInv, PinsExact, ReadInv, NEW t \in Clients, PrepareReadPage(t)
  PROVE  ReadInv'
<1>1. PICK c : c = Next1(t)
  OBVIOUS
<1>2. /\ At(t, "prepare") /\ PagesMutexFree(AccessorOf(c)) /\ (c \in TargetChunks => content[c] # "none")
      /\ pins' = [pins EXCEPT ![c] = @ + 1] /\ UNCHANGED <<content, remapJob>>
  BY <1>1 DEF PrepareReadPage, Next1
<1>3. /\ \A u \in Clients : thread'[u].outer = thread[u].outer
      /\ pins \in [Chunks -> Int] /\ c \in Chunks
  BY <1>1, <1>2, PreparePageTasks, NextPrepared, Constants DEF TaskInv, Shape
<1>4. \A d \in Chunks : pins'[d] = IF d = c THEN pins[d] + 1 ELSE pins[d]
  BY <1>2, <1>3
<1>5. \A d : Added(d)' <=> Added(d)
  BY <1>3 DEF Added, RemapTarget
<1>6. c \in TargetChunks => ~Added(c)
  BY <1>2, AddedHolds DEF AccessorOf
<1>7. \A d \in Chunks : pins[d] \in Nat
  BY PinsNatural
<1>8. ChunksInv'
  <2>1. ASSUME NEW d \in TargetChunks
        PROVE  /\ content'[d] = "none" => pins'[d] = 0
               /\ content'[d] = "prepared" => pins'[d] # 0 /\ (Added(d)' \/ remapJob'[d] \in Jobs)
               /\ Added(d)' => content'[d] = "prepared" /\ pins'[d] = 1
    <3>1. d \in Chunks
      BY <2>1, Constants
    <3>2. pins'[d] = (IF d = c THEN pins[d] + 1 ELSE pins[d]) /\ pins[d] \in Nat
      BY <1>4, <1>7, <3>1
    <3>3. /\ content[d] = "none" => pins[d] = 0
          /\ content[d] = "prepared" => pins[d] # 0 /\ (Added(d) \/ remapJob[d] \in Jobs)
          /\ Added(d) => content[d] = "prepared" /\ pins[d] = 1
      BY <2>1 DEF ReadInv, ChunksInv
    <3>4. CASE d # c
      BY <1>2, <1>5, <3>2, <3>3, <3>4
    <3>5. CASE d = c
      BY <1>2, <1>5, <1>6, <2>1, <3>2, <3>3, <3>5
    <3>6. QED  BY <3>4, <3>5
  <2>2. QED  BY <2>1 DEF ChunksInv
<1>9. \A w \in Workers : Onward(w)
  BY <1>2 DEF Onward
<1>10. ClientStep
  BY DEF ClientStep
<1>11. QED  BY <1>8, <1>9, <1>10, SteppersRead

LEMMA AddRemapReads ==
  ASSUME TaskInv, PageInv, PinsExact, ReadInv, NEW t \in Clients, AddRemapJob(t)
  PROVE  ReadInv'
<1>1. PICK c : c = Next1(t)
  OBVIOUS
<1>2. /\ c \in TargetChunks /\ content[c] = "none" /\ PagesMutexFree("target")
      /\ pins' = [pins EXCEPT ![c] = @ + 1] /\ content' = [content EXCEPT ![c] = "prepared"]
      /\ UNCHANGED remapJob
  BY <1>1 DEF AddRemapJob, Next1
<1>3. /\ \A u \in Clients \ {t} : thread'[u] = thread[u]
      /\ thread'[t].outer = [request |-> thread[t].request, pages |-> thread[t].pages]
      /\ thread'[t].outer # NoFrame
  BY AddRemapJobTasks, Constants
<1>4. RemapTarget(t)' = c
  BY <1>1, <1>3 DEF RemapTarget, Next1
<1>5. \A d : ~Added(d)
  BY <1>2, AddedHolds
<1>6. \A d : Added(d)' <=> d = c
  <2>1. \A u \in Clients \ {t} : thread'[u].outer = NoFrame
    BY <1>3, <1>5 DEF Added
  <2>2. QED  BY <1>3, <1>4, <2>1 DEF Added
<1>7. /\ pins \in [Chunks -> Int] /\ c \in Chunks /\ content \in [TargetChunks -> Contents]
  BY <1>2, Constants DEF TaskInv, Shape
<1>8. pins[c] = 0
  BY <1>2 DEF ReadInv, ChunksInv
<1>9. /\ pins'[c] = 1 /\ \A d \in Chunks : d # c => pins'[d] = pins[d]
      /\ content'[c] = "prepared" /\ \A d \in TargetChunks : d # c => content'[d] = content[d]
  BY <1>2, <1>7, <1>8
<1>10. ChunksInv'
  <2>1. \A d \in TargetChunks : d \in Chunks
    BY Constants
  <2>2. QED  BY <1>2, <1>5, <1>6, <1>9, <2>1 DEF ReadInv, ChunksInv
<1>11. \A w \in Workers : Onward(w)
  <2>1. ASSUME NEW w \in Workers, thread[w].pc \in Carrying, PageOf(w) = c
        PROVE  FALSE
    <3>1. pins[c] >= 1
      BY <1>7, <2>1, HeldPins
    <3>2. QED  BY <1>8, <3>1
  <2>2. QED  BY <1>9, <2>1 DEF Onward
<1>12. ClientStep
  BY DEF ClientStep
<1>13. QED  BY <1>10, <1>11, <1>12, SteppersRead
\* The pages of a call for source chunks, or for 1-bit data, are not remapped.
LEMMA CallPages ==
  ASSUME TaskInv, NEW t \in Clients, At(t, "enqueue"), thread[t].refused \/ thread[t].request.single
  PROVE  \A i \in DOMAIN thread[t].pages : thread[t].pages[i] \notin TargetChunks
<1>1. PICK s, r : s = thread[t].pages /\ r = thread[t].request
  OBVIOUS
<1>2. Proper(r) /\ Begun(s, r) /\ (thread[t].refused => Sources(r)) /\ s \in Seq(Chunks) /\ Len(r.chunks) \in Nat
  BY <1>1, ClientsCall DEF Call, InCall, At
<1>3. Sources(r)
  BY <1>1, <1>2 DEF Proper
<1>4. ASSUME NEW i \in DOMAIN s PROVE s[i] \notin TargetChunks
  <2>1. i \in 1 .. Len(s) /\ i \in 1 .. Len(r.chunks)
    BY <1>2, <1>4 DEF Begun
  <2>2. s[i] \in SourceChunks
    BY <1>2, <1>3, <2>1 DEF Begun, Sources
  <2>3. QED  BY <2>2, Constants
<1>5. QED  BY <1>1, <1>4

LEMMA AddJobReads ==
  ASSUME TaskInv, PageInv, PinsExact, ReadInv, NEW t \in Clients, AddJob(t)
  PROVE  ReadInv' /\ (thread[t].outer # NoFrame => \A d : Added(d) <=> d = RemapTarget(t))
<1>1. PICK j : j = Len(job) + 1
  OBVIOUS
<1>2. /\ TaskInv' /\ JobAdded(t, j) /\ j \in Jobs
      /\ \E r \in JobRecord, T \in Seq(Task) : AddsTasks(j, r, T) /\ JobOfCall(t, r, T)
  BY <1>1, AddJobTasks
<1>3. PICK r \in JobRecord, T \in Seq(Task) : AddsTasks(j, r, T) /\ JobOfCall(t, r, T)
  BY <1>2
<1>4. At(t, "enqueue") /\ UNCHANGED content
  BY DEF AddJob
<1>5. /\ \A u \in Clients \ {t} : thread'[u] = thread[u]
      /\ thread'[t].outer = NoFrame
      /\ thread[t].outer = NoFrame => UNCHANGED remapJob
      /\ thread[t].outer # NoFrame =>
           RemapTarget(t) \in TargetChunks /\ remapJob' = [remapJob EXCEPT ![RemapTarget(t)] = j]
  BY <1>2, <1>4, CallReturns, Constants
<1>6. ASSUME NEW d \in TargetChunks PROVE pins'[d] = pins[d]
  <2>1. PICK s : s = thread[t].pages
    OBVIOUS
  <2>2. CASE ~thread[t].refused
    BY <1>3, <2>2 DEF JobOfCall
  <2>3. CASE thread[t].refused
    <3>1. {i \in DOMAIN s : s[i] = d} = {}
      BY <1>4, <1>6, <2>1, <2>3, CallPages
    <3>2. pins' = [c \in Chunks |-> pins[c] - Cardinality({i \in DOMAIN s : s[i] = c})]
      BY <1>3, <2>1, <2>3 DEF JobOfCall
    <3>3. d \in Chunks /\ pins[d] \in Int
      BY <1>6, Constants DEF TaskInv, Shape
    <3>4. Cardinality({i \in DOMAIN s : s[i] = d}) = 0
      BY <3>1, FS_EmptySet
    <3>5. QED  BY <3>2, <3>3, <3>4
  <2>4. QED  BY <2>2, <2>3
<1>7. thread[t].outer # NoFrame => \A d : Added(d) <=> d = RemapTarget(t)
  BY AddedHolds DEF Added
<1>8. \A d : Added(d)' <=> Added(d) /\ thread[t].outer = NoFrame
  <2>1. \A u \in Clients \ {t} : RemapTarget(u)' = RemapTarget(u)
    BY <1>5 DEF RemapTarget
  <2>2. CASE thread[t].outer = NoFrame
    BY <1>5, <2>1, <2>2 DEF Added
  <2>3. CASE thread[t].outer # NoFrame
    <3>1. \A u \in Clients : thread'[u].outer = NoFrame
      BY <1>5, <2>3, AddedHolds
    <3>2. QED  BY <2>3, <3>1 DEF Added
  <2>4. QED  BY <2>2, <2>3
<1>9. ChunksInv'
  <2>1. ASSUME NEW d \in TargetChunks
        PROVE  /\ content'[d] = "none" => pins'[d] = 0
               /\ content'[d] = "prepared" => pins'[d] # 0 /\ (Added(d)' \/ remapJob'[d] \in Jobs)
               /\ Added(d)' => content'[d] = "prepared" /\ pins'[d] = 1
    <3>1. /\ content[d] = "none" => pins[d] = 0
          /\ content[d] = "prepared" => pins[d] # 0 /\ (Added(d) \/ remapJob[d] \in Jobs)
          /\ Added(d) => content[d] = "prepared" /\ pins[d] = 1
      BY <2>1 DEF ReadInv, ChunksInv
    <3>2. pins'[d] = pins[d] /\ content'[d] = content[d]
      BY <1>4, <1>6, <2>1
    <3>3. CASE thread[t].outer = NoFrame
      BY <1>5, <1>8, <3>1, <3>2, <3>3
    <3>4. CASE thread[t].outer # NoFrame
      <4>1. remapJob \in [TargetChunks -> Jobs \cup {0}]
        BY DEF TaskInv, Shape
      <4>2. remapJob'[d] = IF d = RemapTarget(t) THEN j ELSE remapJob[d]
        BY <1>5, <2>1, <3>4, <4>1
      <4>3. QED  BY <1>2, <1>7, <1>8, <3>1, <3>2, <3>4, <4>2
    <3>5. QED  BY <3>3, <3>4
  <2>2. QED  BY <2>1 DEF ChunksInv
<1>10. SinglePages'
  <2>1. /\ DOMAIN job' = DOMAIN job \cup {j} /\ job'[j] = r
        /\ \A k \in DOMAIN job : job'[k] = job[k] /\ Pending(k)' = Pending(k)
    BY <1>3 DEF AddsTasks
  <2>2. r.single => \A i \in DOMAIN r.pages : r.pages[i] \notin TargetChunks
    <3>1. CASE thread[t].refused
      <4>1. r.pages = [i \in 1 .. Len(thread[t].pages) + 1 |-> NoChunk]
        BY <1>3, <3>1 DEF JobOfCall
      <4>2. \A i \in DOMAIN r.pages : r.pages[i] = NoChunk
        BY <4>1
      <4>3. QED  BY <4>2, Constants
    <3>2. CASE ~thread[t].refused
      BY <1>3, <1>4, <3>2, CallPages DEF JobOfCall
    <3>3. QED  BY <3>1, <3>2
  <2>3. \A i \in Pending(j)' : i \in DOMAIN r.pages
    BY <2>1 DEF Pending
  <2>4. QED  BY <2>1, <2>2, <2>3 DEF SinglePages, ReadInv
<1>11. \A w \in Workers : thread'[w] = thread[w] /\ Onward(w)
                          /\ (thread[w].pc \in Carrying => PageOf(w)' = PageOf(w))
  BY <1>4, AddJobPage DEF Onward
<1>12. QED  BY <1>7, <1>9, <1>10, <1>11, CallersRead

LEMMA InitReads == Init => ReadInv
<1> SUFFICES ASSUME Init PROVE ReadInv
  OBVIOUS
<1>1. job = <<>> /\ DOMAIN job = {} /\ \A w \in Workers : thread[w].pc = "idle"
  BY Constants DEF Init
<1>2. \A c : ~Added(c)
  BY Constants DEF Init, Added
<1>3. \A c \in TargetChunks : content[c] = "none" /\ pins[c] = 0
  BY Constants DEF Init
<1>4. SinglePages
  BY <1>1 DEF SinglePages
<1>5. ChunksInv
  BY <1>2, <1>3 DEF ChunksInv
<1>6. OneReader
  BY <1>1 DEF OneReader, At
<1>7. \A w \in Workers : Holds(w)
  BY <1>1 DEF Holds, At, Carrying, UsingJob
<1>8. QED  BY <1>4, <1>5, <1>6, <1>7 DEF ReadInv

LEMMA NextReads ==
  ASSUME TaskInv, PageInv, PinsExact, ReadInv, [Next]_vars
  PROVE  ReadInv'
<1>1. CASE \E w \in Workers : Working(w)
  BY <1>1, WorkersRead
<1>2. ASSUME NEW t \in Clients,
             \/ \E r \in Requests[t] : RequestData(t, r)
             \/ \E j \in owned[t] : IsCompleted(t, j) \/ IsCanceled(t, j) \/ Cancel(t, j)
                                    \/ WaitForCompletion(t, j)
             \/ Adding(t) \/ Waiting(t)
      PROVE  ReadInv'
  BY <1>2, AddJobReads, AddRemapReads, PrepareReads, AskingRead DEF Adding, Asking
<1>3. CASE OtherStep
  BY <1>3, AskingRead
<1>4. QED  BY <1>1, <1>2, <1>3 DEF Next, OtherStep
-----------------------------------------------------------------------------
(* The jobs for remapped pages.                                            *)

\* A job for a remapped page is the one that the page names, which nobody reads
\* yet, or a worker waits for it.
WaitsAt == {"remapWait", "cancelRemap", "cancelWait"}
Waits(w, j) == thread[w].pc \in WaitsAt /\ thread[w].waitsFor = j
Named(j) ==
  /\ job[j].target \in TargetChunks /\ content[job[j].target] = "prepared"
  /\ remapJob[job[j].target] = j /\ ~Added(job[j].target)
Known == \A j \in DOMAIN job : job[j].target # NoChunk /\ j \in Listed =>
  Named(j) \/ \E w \in Workers : Waits(w, j)

\* A worker leaves a page that was prepared, or waits for its job; it waits until
\* the job is taken out of the list.
Follows(w) ==
  /\ Listed' \subseteq Listed /\ UNCHANGED remapJob
  /\ \A j \in Listed' : Waits(w, j) => Waits(w, j)'
  /\ \A c \in TargetChunks : content[c] = "prepared" =>
       \/ content'[c] = "prepared"
       \/ thread'[w].pc \in WaitsAt /\ thread'[w].waitsFor = remapJob[c]

LEMMA StayFollows ==
  ASSUME NEW w \in Workers, UNCHANGED <<content, remapJob>>, UNCHANGED listed,
         thread[w].pc \in WaitsAt => thread'[w].pc \in WaitsAt /\ thread'[w].waitsFor = thread[w].waitsFor
  PROVE  Follows(w)
<1>1. Listed' = Listed
  BY DEF Listed
<1>2. QED  BY <1>1 DEF Follows, Waits

LEMMA CancelFollows ==
  ASSUME TaskInv, NEW w \in Workers, CancelPage(w)
  PROVE  Follows(w)
<1>1. PICK c : c = PageOf(w)
  OBVIOUS
<1>2. /\ thread[w].pc = "page" /\ UNCHANGED <<remapJob, listed>>
      /\ content' = [x \in TargetChunks |->
                       IF pins[c] = 1 /\ c \in TargetChunks /\ x = c THEN "none" ELSE content[x]]
  BY <1>1 DEF CancelPage, At
<1>3. \/ /\ thread'[w].pc = "cancelRemap" /\ thread'[w].waitsFor = remapJob[c]
         /\ c \in TargetChunks
      \/ ~(pins[c] = 1 /\ c \in TargetChunks /\ content[c] = "prepared")
  BY <1>1, CancelPageTasks DEF Moves
<1>4. ~(thread[w].pc \in WaitsAt)
  BY <1>2 DEF WaitsAt
<1>5. \A d \in TargetChunks : content[d] = "prepared" =>
        \/ content'[d] = "prepared"
        \/ thread'[w].pc \in WaitsAt /\ thread'[w].waitsFor = remapJob[d]
  BY <1>2, <1>3 DEF WaitsAt
<1>6. Listed' = Listed
  BY <1>2 DEF Listed
<1>7. QED  BY <1>2, <1>4, <1>5, <1>6 DEF Follows, Waits

LEMMA StartFollows ==
  ASSUME TaskInv, NEW w \in Workers, StartPage(w)
  PROVE  Follows(w)
<1>1. PICK c : c = PageOf(w)
  OBVIOUS
<1>2. thread[w].pc = "page" /\ UNCHANGED <<remapJob, listed>>
  BY DEF StartPage, At
<1>3. ~(thread[w].pc \in WaitsAt)
  BY <1>2 DEF WaitsAt
<1>4. CASE UNCHANGED content
  BY <1>2, <1>3, <1>4, StayFollows
<1>5. CASE content' = [content EXCEPT ![c] = "reading"] /\ Moves(w, "remapWait", remapJob[c], thread[w].failed)
  <2>1. thread'[w].pc \in WaitsAt /\ thread'[w].waitsFor = remapJob[c]
    BY <1>5 DEF Moves, WaitsAt
  <2>2. \A d \in TargetChunks : d # c => content'[d] = content[d]
    BY <1>5 DEF TaskInv, Shape
  <2>3. Listed' = Listed
    BY <1>2 DEF Listed
  <2>4. QED  BY <1>2, <1>3, <2>1, <2>2, <2>3 DEF Follows, Waits
<1>6. QED  BY <1>1, <1>4, <1>5, StartPageTasks

LEMMA ReturnFollows ==
  ASSUME TaskInv, PageInv, ReadInv, NEW w \in Workers, RemapReturns(w) \/ RemapCanceled(w)
  PROVE  Follows(w)
<1>1. PICK c, k : c = PageOf(w) /\ k = thread[w].waitsFor
  OBVIOUS
<1>2. UNCHANGED remapJob
  BY DEF RemapReturns, RemapCanceled, pageVars
<1>3. Listed' = Listed \ {k}
  <2>1. TakeCompleted(k) \/ TakeCanceled(k)
    BY <1>1 DEF RemapReturns, RemapCanceled
  <2>2. IsDone(k) /\ EraseJob(k)
    BY <2>1, TakesResult DEF TaskInv
  <2>3. QED  BY <2>2, ErasesJob
<1>4. \A j \in Listed' : ~Waits(w, j)
  BY <1>1, <1>3 DEF Waits
<1>5. \A d \in TargetChunks : content[d] = "prepared" => content'[d] = "prepared"
  <2>1. CASE RemapCanceled(w)
    BY <2>1 DEF RemapCanceled, pageVars
  <2>2. CASE RemapReturns(w)
    <3>1. thread[w].pc = "remapWait" /\ thread[w].pc \in Carrying
      BY <2>2 DEF RemapReturns, At, Carrying, UsingJob
    <3>2. c \in TargetChunks /\ content[c] = "reading"
      BY <1>1, <3>1 DEF PageInv, WaitingPages, ReadInv, Holds, At
    <3>3. \A d \in TargetChunks : d # c => content'[d] = content[d]
      BY <1>1, <2>2, RemapReturnsTasks DEF TaskInv, Shape
    <3>4. QED  BY <3>2, <3>3
  <2>3. QED  BY <2>1, <2>2
<1>6. QED  BY <1>2, <1>3, <1>4, <1>5 DEF Follows

LEMMA WorkersFollow ==
  ASSUME TaskInv, PageInv, ReadInv, NEW w \in Workers, Working(w)
  PROVE  Follows(w)
<1>1. CASE CancelRemap(w) \/ Sleep(w)
  <2>1. UNCHANGED <<content, remapJob>> /\ UNCHANGED listed
    BY <1>1 DEF CancelRemap, Sleep, pageVars, jobVars
  <2>2. thread[w].pc \in WaitsAt => thread'[w].pc \in WaitsAt /\ thread'[w].waitsFor = thread[w].waitsFor
    BY <1>1, CancelRemapTasks DEF Moves, Sleep, WaitsAt
  <2>3. QED  BY <2>1, <2>2, StayFollows
<1>2. CASE \/ TakeTask(w) \/ FindError(w) \/ AwaitReader(w) \/ ProcessPage(w) \/ UnPinPage(w)
           \/ MarkJobAsDone(w) \/ NextPage(w) \/ AbandonPages(w) \/ FinishTask(w)
  <2>1. UNCHANGED <<content, remapJob>> /\ UNCHANGED listed
    BY <1>2 DEF TakeTask, FindError, AwaitReader, ProcessPage, UnPinPage, MarkJobAsDone, NextPage,
         AbandonPages, FinishTask, pageVars, jobVars
  <2>2. ~(thread[w].pc \in WaitsAt)
    BY <1>2 DEF TakeTask, FindError, AwaitReader, ProcessPage, UnPinPage, MarkJobAsDone, NextPage,
         AbandonPages, FinishTask, At, WaitsAt
  <2>3. QED  BY <2>1, <2>2, StayFollows
<1>3. QED  BY <1>1, <1>2, CancelFollows, StartFollows, ReturnFollows DEF Working

LEMMA WorkersKnow ==
  ASSUME TaskInv, PageInv, ReadInv, Known, NEW w \in Workers, Working(w)
  PROVE  Known'
<1>1. JobsUse /\ \A u \in Threads \ {w} : thread'[u] = thread[u]
  BY WorkerUses
<1>2. Follows(w)
  BY WorkersFollow
<1>3. \A t \in Clients : thread'[t] = thread[t]
  BY <1>1, Constants
<1>4. ASSUME NEW j \in DOMAIN job, job'[j].target # NoChunk, j \in Listed'
      PROVE  Named(j)' \/ \E v \in Workers : Waits(v, j)'
  <2>1. PICK c : c = job[j].target
    OBVIOUS
  <2>2. job'[j].target = c /\ c # NoChunk /\ j \in Listed
    BY <1>1, <1>2, <1>4, <2>1 DEF JobsUse, Follows
  <2>3. CASE \E v \in Workers : Waits(v, j)
    <3>1. PICK v \in Workers : Waits(v, j)
      BY <2>3
    <3>2. CASE v = w
      BY <1>2, <1>4, <3>1, <3>2 DEF Follows
    <3>3. CASE v # w
      <4>1. thread'[v] = thread[v]
        BY <1>1, <3>3, Constants
      <4>2. QED  BY <3>1, <4>1 DEF Waits
    <3>4. QED  BY <3>2, <3>3
  <2>4. CASE Named(j)
    <3>1. c \in TargetChunks /\ content[c] = "prepared" /\ remapJob[c] = j /\ ~Added(c)
      BY <2>1, <2>4 DEF Named
    <3>2. ~Added(c)' /\ remapJob'[c] = j
      BY <1>2, <1>3, <3>1, AddedStays DEF Follows
    <3>3. CASE content'[c] = "prepared"
      BY <2>2, <3>1, <3>2, <3>3 DEF Named
    <3>4. CASE thread'[w].pc \in WaitsAt /\ thread'[w].waitsFor = remapJob[c]
      BY <3>1, <3>4 DEF Waits
    <3>5. QED  BY <1>2, <3>1, <3>3, <3>4 DEF Follows
  <2>5. QED  BY <1>4, <2>1, <2>2, <2>3, <2>4 DEF Known
<1>5. QED  BY <1>1, <1>4 DEF Known, JobsUse
\* Calls leave a page that was prepared, and its job, as they are.
KeepsNamed == UNCHANGED remapJob /\ \A c \in TargetChunks :
  content[c] = "prepared" /\ ~Added(c) <=> content'[c] = "prepared" /\ ~Added(c)'

LEMMA CallsKeepNamed ==
  ASSUME TaskInv, ReadInv, ClientStep
  PROVE  KeepsNamed
<1>1. CASE (\E t \in Clients : Asking(t)) \/ OtherStep
  <2>1. UNCHANGED remapJob
    BY <1>1, AskingContent
  <2>2. \A c : Added(c)' <=> Added(c)
    BY <1>1, AskingPins DEF CallsRest, Added, RemapTarget
  <2>3. ASSUME NEW c \in TargetChunks PROVE content[c] = "prepared" <=> content'[c] = "prepared"
    <3>1. content[c] = "prepared" => pins[c] # 0
      BY DEF ReadInv, ChunksInv
    <3>2. CASE \E x \in Accessors : CleanUp(x)
      BY <2>3, <3>1, <3>2 DEF CleanUp
    <3>3. UNCHANGED content \/ \E x \in Accessors : CleanUp(x)
      BY <1>1, AskingContent
    <3>4. QED  BY <3>2, <3>3
  <2>4. QED  BY <2>1, <2>2, <2>3 DEF KeepsNamed
<1>2. ASSUME NEW t \in Clients, PrepareReadPage(t) PROVE KeepsNamed
  <2>1. UNCHANGED <<content, remapJob>>
    BY <1>2 DEF PrepareReadPage
  <2>2. \A u \in Clients : thread'[u].outer = thread[u].outer
    BY <1>2, PreparePageTasks, Constants
  <2>3. \A c : Added(c)' <=> Added(c)
    BY <2>2 DEF Added, RemapTarget
  <2>4. QED  BY <2>1, <2>3 DEF KeepsNamed
<1>3. ASSUME NEW t \in Clients, AddRemapJob(t) PROVE KeepsNamed
  <2>1. PICK c : c = Next1(t)
    OBVIOUS
  <2>2. content[c] = "none" /\ content' = [content EXCEPT ![c] = "prepared"] /\ UNCHANGED remapJob
    BY <1>3, <2>1 DEF AddRemapJob, Next1
  <2>3. /\ \A u \in Clients \ {t} : thread'[u] = thread[u]
        /\ thread'[t].outer = [request |-> thread[t].request, pages |-> thread[t].pages]
    BY <1>3, AddRemapJobTasks, Constants
  <2>4. RemapTarget(t)' = c \/ thread'[t].outer = NoFrame
    BY <2>1, <2>3 DEF RemapTarget, Next1
  <2>5. Added(c)' /\ \A d : d # c /\ Added(d)' => Added(d)
    <3>1. thread'[t].outer # NoFrame
      BY <1>3, AddRemapJobTasks
    <3>2. Added(c)'
      BY <2>4, <3>1 DEF Added
    <3>3. \A u \in Clients \ {t} : RemapTarget(u)' = RemapTarget(u)
      BY <2>3 DEF RemapTarget
    <3>4. QED  BY <2>3, <2>4, <3>1, <3>2, <3>3 DEF Added
  <2>6. \A d \in TargetChunks : d # c => content'[d] = content[d]
    BY <2>2 DEF TaskInv, Shape
  <2>7. \A d : ~Added(d)
    BY <1>3, AddedHolds DEF AddRemapJob
  <2>8. QED  BY <2>2, <2>5, <2>6, <2>7 DEF KeepsNamed
<1>4. QED  BY <1>1, <1>2, <1>3 DEF ClientStep

LEMMA CallsKnow ==
  ASSUME TaskInv, ReadInv, Known, ClientStep
  PROVE  Known'
<1>1. /\ JobsUse /\ KeepsNamed /\ \A w \in Workers : thread'[w] = thread[w]
      /\ \A k \in DOMAIN job : k \in Listed' => k \in Listed
  BY ClientStepUse, CallsKeepNamed, ClientStepTasks DEF JobsAlike, Alike
<1>2. ASSUME NEW j \in DOMAIN job, job'[j].target # NoChunk, j \in Listed'
      PROVE  Named(j)' \/ \E w \in Workers : Waits(w, j)'
  <2>1. PICK c : c = job[j].target
    OBVIOUS
  <2>2. job'[j].target = c /\ c # NoChunk /\ j \in Listed
    BY <1>1, <1>2, <2>1 DEF JobsUse
  <2>3. CASE Named(j)
    <3>1. c \in TargetChunks /\ content[c] = "prepared" /\ remapJob[c] = j /\ ~Added(c)
      BY <2>1, <2>3 DEF Named
    <3>2. content'[c] = "prepared" /\ remapJob'[c] = j /\ ~Added(c)'
      BY <1>1, <3>1 DEF KeepsNamed
    <3>3. QED  BY <2>2, <3>1, <3>2 DEF Named
  <2>4. CASE \E w \in Workers : Waits(w, j)
    BY <1>1, <2>4 DEF Waits
  <2>5. QED  BY <1>2, <2>1, <2>2, <2>3, <2>4 DEF Known
<1>3. QED  BY <1>1, <1>2 DEF Known, JobsUse

LEMMA AddJobKnows ==
  ASSUME TaskInv, PageInv, PinsExact, ReadInv, Known, NEW t \in Clients, AddJob(t)
  PROVE  Known'
<1>1. PICK j : j = Len(job) + 1
  OBVIOUS
<1>2. /\ TaskInv' /\ JobAdded(t, j) /\ j \in Jobs
      /\ \E r \in JobRecord, T \in Seq(Task) : AddsTasks(j, r, T) /\ JobOfCall(t, r, T)
  BY <1>1, AddJobTasks
<1>3. PICK r \in JobRecord, T \in Seq(Task) : AddsTasks(j, r, T) /\ JobOfCall(t, r, T)
  BY <1>2
<1>4. At(t, "enqueue") /\ UNCHANGED content
  BY DEF AddJob
<1>5. /\ \A u \in Clients \ {t} : thread'[u] = thread[u]
      /\ \A w \in Workers : thread'[w] = thread[w]
      /\ thread'[t].outer = NoFrame
      /\ thread[t].outer = NoFrame => UNCHANGED remapJob
      /\ thread[t].outer # NoFrame =>
           RemapTarget(t) \in TargetChunks /\ remapJob' = [remapJob EXCEPT ![RemapTarget(t)] = j]
  BY <1>2, <1>4, CallReturns, Constants
<1>6. /\ DOMAIN job' = DOMAIN job \cup {j} /\ job'[j] = r /\ \A k \in DOMAIN job : job'[k] = job[k]
      /\ Listed' = Listed \cup {j} /\ j \notin DOMAIN job
  BY <1>3 DEF AddsTasks
<1>7. thread[t].outer # NoFrame => \A d : Added(d) <=> d = RemapTarget(t)
  BY AddJobReads
<1>8. \A d : Added(d)' => Added(d) /\ thread[t].outer = NoFrame
  <2>1. \A u \in Clients \ {t} : RemapTarget(u)' = RemapTarget(u)
    BY <1>5 DEF RemapTarget
  <2>2. thread[t].outer # NoFrame => \A u \in Clients \ {t} : thread[u].outer = NoFrame
    BY AddedHolds
  <2>3. QED  BY <1>5, <2>1, <2>2 DEF Added
<1>9. ASSUME NEW k \in DOMAIN job, job[k].target # NoChunk, k \in Listed
      PROVE  Named(k)' \/ \E w \in Workers : Waits(w, k)'
  <2>1. PICK c : c = job[k].target
    OBVIOUS
  <2>2. CASE \E w \in Workers : Waits(w, k)
    BY <1>5, <2>2 DEF Waits
  <2>3. CASE Named(k)
    <3>1. c \in TargetChunks /\ content[c] = "prepared" /\ remapJob[c] = k /\ ~Added(c)
      BY <2>1, <2>3 DEF Named
    <3>2. remapJob'[c] = k
      <4>1. CASE thread[t].outer = NoFrame
        BY <1>5, <3>1, <4>1
      <4>2. CASE thread[t].outer # NoFrame
        <5>1. c # RemapTarget(t)
          BY <1>7, <3>1, <4>2
        <5>2. QED  BY <1>5, <3>1, <4>2, <5>1 DEF TaskInv, Shape
      <4>3. QED  BY <4>1, <4>2
    <3>3. content'[c] = "prepared" /\ ~Added(c)'
      BY <1>4, <1>8, <3>1
    <3>4. job'[k].target = c
      BY <1>6, <2>1
    <3>5. QED  BY <3>1, <3>2, <3>3, <3>4 DEF Named
  <2>4. QED  BY <1>9, <2>2, <2>3 DEF Known
<1>10. ASSUME r.target # NoChunk PROVE Named(j)'
  <2>1. PICK c : c = RemapTarget(t)
    OBVIOUS
  <2>2. thread[t].outer # NoFrame /\ r.target = c /\ c \in TargetChunks
    BY <1>3, <1>5, <1>10, <2>1 DEF JobOfCall
  <2>3. Added(c)
    BY <1>7, <2>1, <2>2
  <2>4. content'[c] = "prepared"
    BY <1>4, <2>2, <2>3 DEF ReadInv, ChunksInv
  <2>5. remapJob'[c] = j
    BY <1>5, <2>1, <2>2 DEF TaskInv, Shape
  <2>6. ~Added(c)'
    BY <1>8, <2>2
  <2>7. job'[j].target = c
    BY <1>6, <2>2
  <2>8. QED  BY <2>2, <2>4, <2>5, <2>6, <2>7 DEF Named
<1>11. ASSUME NEW k \in DOMAIN job', job'[k].target # NoChunk, k \in Listed'
       PROVE  Named(k)' \/ \E w \in Workers : Waits(w, k)'
  <2>1. CASE k = j
    BY <1>6, <1>10, <1>11, <2>1
  <2>2. CASE k # j
    BY <1>6, <1>9, <1>11, <2>2
  <2>3. QED  BY <2>1, <2>2
<1>12. QED  BY <1>11 DEF Known

LEMMA InitKnows == Init => Known
<1> SUFFICES ASSUME Init PROVE Known
  OBVIOUS
<1>1. job = <<>> /\ DOMAIN job = {}
  BY DEF Init
<1>2. QED  BY <1>1 DEF Known

LEMMA NextKnows ==
  ASSUME TaskInv, PageInv, PinsExact, ReadInv, Known, [Next]_vars
  PROVE  Known'
<1>1. CASE \E w \in Workers : Working(w)
  BY <1>1, WorkersKnow
<1>2. ASSUME NEW t \in Clients,
             \/ \E r \in Requests[t] : RequestData(t, r)
             \/ \E j \in owned[t] : IsCompleted(t, j) \/ IsCanceled(t, j) \/ Cancel(t, j)
                                    \/ WaitForCompletion(t, j)
             \/ Adding(t) \/ Waiting(t)
      PROVE  Known'
  BY <1>2, AddJobKnows, CallsKnow DEF Adding, Asking, ClientStep
<1>3. CASE OtherStep
  BY <1>3, CallsKnow DEF ClientStep
<1>4. QED  BY <1>1, <1>2, <1>3 DEF Next, OtherStep

\* Only jobs are cancelled.
JobsCancelled == cancelledBy \subseteq Jobs

LEMMA NextCancelled ==
  ASSUME TaskInv, ReadInv, JobsCancelled, [Next]_vars
  PROVE  JobsCancelled'
<1> USE DEF JobsCancelled
<1>1. ASSUME NEW w \in Workers, Working(w) PROVE cancelledBy' \subseteq Jobs
  <2>1. CASE CancelRemap(w)
    BY <2>1 DEF CancelRemap, ReadInv, Holds
  <2>2. CASE UNCHANGED cancelledBy
    BY <2>2
  <2>3. CancelRemap(w) \/ UNCHANGED cancelledBy
    BY <1>1 DEF Working, TakeTask, FindError, CancelPage, RemapCanceled, StartPage, AwaitReader,
         RemapReturns, ProcessPage, UnPinPage, MarkJobAsDone, NextPage, AbandonPages, FinishTask, Sleep, history
  <2>4. QED  BY <2>1, <2>2, <2>3
<1>2. ASSUME NEW t \in Clients,
             \/ \E r \in Requests[t] : RequestData(t, r)
             \/ \E j \in owned[t] : IsCompleted(t, j) \/ IsCanceled(t, j) \/ Cancel(t, j)
                                    \/ WaitForCompletion(t, j)
             \/ Adding(t) \/ Waiting(t)
      PROVE  cancelledBy' \subseteq Jobs
  <2>1. ASSUME NEW j \in owned[t], Cancel(t, j) PROVE cancelledBy' \subseteq Jobs
    <3>1. owned \in [Clients -> SUBSET Jobs]
      BY DEF TaskInv, Shape
    <3>2. QED  BY <2>1, <3>1 DEF Cancel
  <2>2. CASE UNCHANGED cancelledBy
    BY <2>2
  <2>3. (\E j \in owned[t] : Cancel(t, j)) \/ UNCHANGED cancelledBy
    BY <1>2 DEF RequestData, IsCompleted, IsCanceled, WaitForCompletion, Adding, Waiting, FindAccessor,
         EnsureMaxPages, PrepareReadPage, PrepareRefused, AddRemapJob, AddJob, Sleep, WaitReturns, history
  <2>4. QED  BY <2>1, <2>2, <2>3
<1>3. CASE OtherStep
  <2>1. listed \in Seq(Jobs)
    BY DEF TaskInv, Shape
  <2>2. Listed \subseteq Jobs
    BY <2>1 DEF Listed, ToSet
  <2>3. QED  BY <1>3, <2>2 DEF OtherStep, CleanUp, Close, CloseNext, vars, history
<1>4. QED  BY <1>1, <1>2, <1>3 DEF Next, OtherStep

LEMMA SpecReads == Spec => [](TaskInv /\ PageInv /\ PinsExact /\ ReadInv /\ Known /\ JobsCancelled)
<1>1. Init => TaskInv /\ PageInv /\ PinsExact /\ ReadInv /\ Known /\ JobsCancelled
  <2>1. Init => JobsCancelled
    BY DEF Init, JobsCancelled
  <2>2. QED  BY <2>1, InitTasks, InitPageInv, InitPins, InitReads, InitKnows
<1>2. TaskInv /\ PageInv /\ PinsExact /\ ReadInv /\ Known /\ JobsCancelled /\ [Next]_vars
        => TaskInv' /\ PageInv' /\ PinsExact' /\ ReadInv' /\ Known' /\ JobsCancelled'
  <2>1. SUFFICES ASSUME TaskInv, PageInv, PinsExact, ReadInv, Known, JobsCancelled, [Next]_vars
                 PROVE  TaskInv' /\ PageInv' /\ PinsExact' /\ ReadInv' /\ Known' /\ JobsCancelled'
    OBVIOUS
  <2>2. TaskInv' /\ PageInv'
    BY <2>1, NextTasks, NextPageInv
  <2>3. PinsExact' /\ ReadInv'
    BY <2>1, NextPins, NextReads
  <2>4. Known'
    BY <2>1, NextKnows
  <2>5. JobsCancelled'
    BY <2>1, NextCancelled
  <2>6. QED  BY <2>2, <2>3, <2>4, <2>5
<1>3. QED  BY <1>1, <1>2, PTL DEF Spec

\* The page that a remap job writes to stays until the job is done, even when it is
\* cancelled and when the last user of the page gives it up: CancelPreparedReadPage
\* and ReadPreparedPage wait for the job.
THEOREM RemapTargetStaysAlive == Spec => []RemapTargetAlive
<1>1. TaskInv /\ Known => RemapTargetAlive
  <2>1. SUFFICES ASSUME TaskInv, Known, NEW j \in DOMAIN job, job[j].target # NoChunk, ~job[j].done
                 PROVE  \/ remapJob[job[j].target] = j /\ content[job[j].target] \in {"prepared", "reading"}
                        \/ \E w \in Workers : thread[w].waitsFor = j
    BY DEF RemapTargetAlive
  <2>2. j \in Listed
    BY <2>1 DEF TaskInv, Counts
  <2>3. QED  BY <2>1, <2>2 DEF Known, Named, Waits
<1>2. QED  BY <1>1, SpecReads, PTL

\* Every variable has its type: counts of pins and of references are never negative,
\* and a page that is cancelled had a job.
THEOREM TypeCorrect == Spec => []TypeOK
<1>1. ASSUME TaskInv, PinsExact, References, JobsCancelled PROVE TypeOK
  <2>1. pins \in [Chunks -> Nat]
    <3>1. \A c \in Chunks : pins[c] \in Nat
      BY <1>1, PinsNatural
    <3>2. pins \in [Chunks -> Int]
      BY <1>1 DEF TaskInv, Shape
    <3>3. QED  BY <3>1, <3>2
  <2>2. references \in [Accessors -> Nat]
    <3>1. ASSUME NEW x \in Accessors PROVE references[x] \in Nat
      <4>1. PICK n : n = Cardinality(Users(x))
        OBVIOUS
      <4>2. n \in Nat
        BY <1>1, <4>1, UsersFinite, FS_CardinalityType
      <4>3. references[x] \in Int /\ references[x] >= n
        BY <1>1, <3>1, <4>1 DEF TaskInv, Shape, References
      <4>4. QED  BY <4>2, <4>3
    <3>2. references \in [Accessors -> Int]
      BY <1>1 DEF TaskInv, Shape
    <3>3. QED  BY <3>1, <3>2
  <2>3. QED  BY <1>1, <2>1, <2>2 DEF TypeOK, TaskInv, Shape, JobsCancelled
<1>2. QED  BY <1>1, SpecReads, ReferencesHold, PTL
-----------------------------------------------------------------------------
(* Whose the jobs are.                                                     *)

\* A job in the list is known to its owner, to one worker that waits for it, or to
\* the page that it was added for.
Owners == \A t \in Clients :
  /\ \A j \in owned[t] : j \in Listed /\ job[j].target = NoChunk
  /\ \A u \in Clients \ {t} : owned[t] \cap owned[u] = {}
  /\ At(t, "wait") => thread[t].waitsFor \in owned[t]
Waiters == \A w \in Workers : thread[w].pc \in WaitsAt =>
  /\ thread[w].waitsFor \in Listed /\ job[thread[w].waitsFor].target # NoChunk
  /\ \A v \in Workers \ {w} : ~Waits(v, thread[w].waitsFor)
RemapJobs == \A c \in TargetChunks : content[c] = "prepared" /\ ~Added(c) =>
  /\ remapJob[c] \in Listed /\ job[remapJob[c]].target = c
  /\ \A w \in Workers : ~Waits(w, remapJob[c])
OwnInv == Owners /\ Waiters /\ RemapJobs

\* What the steps of a worker leave alone.
OneWorks(w) ==
  /\ JobsUse /\ UNCHANGED <<owned, remapJob>>
  /\ (\A t \in Clients : thread'[t] = thread[t]) /\ \A v \in Workers \ {w} : thread'[v] = thread[v]

LEMMA WorkersOne ==
  ASSUME TaskInv, NEW w \in Workers, Working(w)
  PROVE  OneWorks(w)
<1>1. JobsUse /\ \A u \in Threads \ {w} : thread'[u] = thread[u]
  BY WorkerUses
<1>2. UNCHANGED <<owned, remapJob>>
  BY DEF Working, TakeTask, FindError, CancelPage, CancelRemap, RemapCanceled, StartPage, AwaitReader,
       RemapReturns, ProcessPage, UnPinPage, MarkJobAsDone, NextPage, AbandonPages, FinishTask, Sleep, pageVars
<1>3. QED  BY <1>1, <1>2, Constants DEF OneWorks

LEMMA SameTargets ==
  ASSUME TaskInv, JobsUse
  PROVE  \A j \in Listed : j \in DOMAIN job /\ job'[j].target = job[j].target
BY DEF TaskInv, JobsListed, JobsUse

\* The worker goes on waiting, or not waiting.
LEMMA OwnStays ==
  ASSUME TaskInv, OwnInv, NEW w \in Workers, OneWorks(w), Listed' = Listed,
         \A c \in TargetChunks : content'[c] = "prepared" => content[c] = "prepared",
         thread'[w].pc \in WaitsAt =>
           thread[w].pc \in WaitsAt /\ thread'[w].waitsFor = thread[w].waitsFor
  PROVE  OwnInv'
<1>1. \A j \in Listed : job'[j].target = job[j].target
  BY SameTargets DEF OneWorks
<1>2. \A v \in Workers : \A j : Waits(v, j)' => Waits(v, j)
  BY DEF OneWorks, Waits
<1>3. Owners'
  BY <1>1 DEF OwnInv, Owners, OneWorks, At
<1>4. Waiters'
  <2>1. \A v \in Workers : thread'[v].pc \in WaitsAt =>
          thread[v].pc \in WaitsAt /\ thread'[v].waitsFor = thread[v].waitsFor
    BY DEF OneWorks
  <2>2. QED  BY <1>1, <1>2, <2>1 DEF OwnInv, Waiters
<1>5. RemapJobs'
  <2>1. \A c : Added(c)' <=> Added(c)
    BY AddedStays DEF OneWorks
  <2>2. QED  BY <1>1, <1>2, <2>1 DEF OwnInv, RemapJobs, OneWorks
<1>6. QED  BY <1>3, <1>4, <1>5 DEF OwnInv

\* The worker begins to wait for the job that a page names.
LEMMA OwnBegins ==
  ASSUME TaskInv, OwnInv, NEW w \in Workers, OneWorks(w), Listed' = Listed,
         NEW c \in TargetChunks, content[c] = "prepared", ~Added(c), content'[c] # "prepared",
         \A d \in TargetChunks : d # c => content'[d] = content[d],
         thread'[w].pc \in WaitsAt, thread'[w].waitsFor = remapJob[c]
  PROVE  OwnInv'
<1>1. \A j \in Listed : job'[j].target = job[j].target
  BY SameTargets DEF OneWorks
<1>2. PICK k : k = remapJob[c]
  OBVIOUS
<1>3. k \in Listed /\ job[k].target = c /\ \A v \in Workers : ~Waits(v, k)
  BY <1>2 DEF OwnInv, RemapJobs
<1>4. \A v \in Workers : \A j : Waits(v, j)' => Waits(v, j) \/ (v = w /\ j = k)
  BY <1>2 DEF OneWorks, Waits
<1>5. Owners'
  BY <1>1 DEF OwnInv, Owners, OneWorks, At
<1>6. Waiters'
  <2>1. ASSUME NEW v \in Workers, thread'[v].pc \in WaitsAt
        PROVE  /\ thread'[v].waitsFor \in Listed' /\ job'[thread'[v].waitsFor].target # NoChunk
               /\ \A u \in Workers \ {v} : ~(thread'[u].pc \in WaitsAt /\ thread'[u].waitsFor = thread'[v].waitsFor)
    <3>1. CASE v = w
      <4>1. c # NoChunk /\ thread'[w].waitsFor = k
        BY <1>2, Constants
      <4>2. \A u \in Workers \ {w} : ~Waits(u, k)'
        BY <1>3, <1>4
      <4>3. QED  BY <1>1, <1>3, <3>1, <4>1, <4>2 DEF Waits
    <3>2. CASE v # w
      <4>1. thread'[v] = thread[v]
        BY <3>2 DEF OneWorks
      <4>2. PICK j : j = thread[v].waitsFor
        OBVIOUS
      <4>3. j \in Listed /\ job[j].target # NoChunk /\ \A u \in Workers \ {v} : ~Waits(u, j)
        BY <2>1, <4>1, <4>2 DEF OwnInv, Waiters
      <4>4. j # k
        BY <1>3, <2>1, <4>1, <4>2 DEF Waits
      <4>5. \A u \in Workers \ {v} : ~Waits(u, j)'
        BY <1>4, <4>3, <4>4
      <4>6. QED  BY <1>1, <4>1, <4>2, <4>3, <4>5 DEF Waits
    <3>3. QED  BY <3>1, <3>2
  <2>2. QED  BY <2>1 DEF Waiters, Waits
<1>7. RemapJobs'
  <2>1. \A d : Added(d)' <=> Added(d)
    BY AddedStays DEF OneWorks
  <2>2. ASSUME NEW d \in TargetChunks, content'[d] = "prepared", ~Added(d)'
        PROVE  /\ remapJob'[d] \in Listed' /\ job'[remapJob'[d]].target = d
               /\ \A v \in Workers : ~(thread'[v].pc \in WaitsAt /\ thread'[v].waitsFor = remapJob'[d])
    <3>1. PICK j : j = remapJob[d]
      OBVIOUS
    <3>2. d # c /\ content[d] = "prepared" /\ ~Added(d)
      BY <2>1, <2>2
    <3>3. j \in Listed /\ job[j].target = d /\ \A v \in Workers : ~Waits(v, j)
      BY <3>1, <3>2 DEF OwnInv, RemapJobs
    <3>4. j # k
      BY <1>3, <3>2, <3>3
    <3>5. remapJob'[d] = j
      BY <3>1 DEF OneWorks
    <3>6. \A v \in Workers : ~Waits(v, j)'
      BY <1>4, <3>3, <3>4
    <3>7. QED  BY <1>1, <3>3, <3>5, <3>6 DEF Waits
  <2>3. QED  BY <2>2 DEF RemapJobs, Waits
<1>8. QED  BY <1>5, <1>6, <1>7 DEF OwnInv

\* The worker takes the job that it waited for.
LEMMA OwnEnds ==
  ASSUME TaskInv, OwnInv, NEW w \in Workers, OneWorks(w), thread[w].pc \in WaitsAt,
         Listed' = Listed \ {thread[w].waitsFor},
         \A c \in TargetChunks : content'[c] = "prepared" => content[c] = "prepared",
         thread'[w].pc \notin WaitsAt
  PROVE  OwnInv'
<1>1. \A j \in Listed : job'[j].target = job[j].target
  BY SameTargets DEF OneWorks
<1>2. PICK k : k = thread[w].waitsFor
  OBVIOUS
<1>3. k \in Listed /\ job[k].target # NoChunk /\ Waits(w, k) /\ \A v \in Workers \ {w} : ~Waits(v, k)
  BY <1>2 DEF OwnInv, Waiters, Waits
<1>4. \A v \in Workers : \A j : Waits(v, j)' => Waits(v, j)
  BY DEF OneWorks, Waits
<1>5. Owners'
  <2>1. \A t \in Clients : \A j \in owned[t] : j \in Listed' /\ job'[j].target = NoChunk
    BY <1>1, <1>2, <1>3 DEF OwnInv, Owners
  <2>2. QED  BY <2>1 DEF OwnInv, Owners, OneWorks, At
<1>6. Waiters'
  <2>1. ASSUME NEW v \in Workers, thread'[v].pc \in WaitsAt
        PROVE  /\ thread'[v].waitsFor \in Listed' /\ job'[thread'[v].waitsFor].target # NoChunk
               /\ \A u \in Workers \ {v} : ~(thread'[u].pc \in WaitsAt /\ thread'[u].waitsFor = thread'[v].waitsFor)
    <3>1. v # w /\ thread'[v] = thread[v]
      BY <2>1 DEF OneWorks
    <3>2. PICK j : j = thread[v].waitsFor
      OBVIOUS
    <3>3. j \in Listed /\ job[j].target # NoChunk /\ \A u \in Workers \ {v} : ~Waits(u, j)
      BY <2>1, <3>1, <3>2 DEF OwnInv, Waiters
    <3>4. j # k
      BY <1>3, <2>1, <3>1, <3>2 DEF Waits
    <3>5. QED  BY <1>1, <1>2, <1>4, <3>1, <3>2, <3>3, <3>4 DEF Waits
  <2>2. QED  BY <2>1 DEF Waiters, Waits
<1>7. RemapJobs'
  <2>1. \A d : Added(d)' <=> Added(d)
    BY AddedStays DEF OneWorks
  <2>2. ASSUME NEW d \in TargetChunks, content'[d] = "prepared", ~Added(d)'
        PROVE  /\ remapJob'[d] \in Listed' /\ job'[remapJob'[d]].target = d
               /\ \A v \in Workers : ~(thread'[v].pc \in WaitsAt /\ thread'[v].waitsFor = remapJob'[d])
    <3>1. PICK j : j = remapJob[d]
      OBVIOUS
    <3>2. j \in Listed /\ job[j].target = d /\ \A v \in Workers : ~Waits(v, j)
      BY <2>1, <2>2, <3>1 DEF OwnInv, RemapJobs
    <3>3. j # k
      BY <1>3, <3>2
    <3>4. remapJob'[d] = j
      BY <3>1 DEF OneWorks
    <3>5. QED  BY <1>1, <1>2, <1>4, <3>2, <3>3, <3>4 DEF Waits
  <2>3. QED  BY <2>2 DEF RemapJobs, Waits
<1>8. QED  BY <1>5, <1>6, <1>7 DEF OwnInv

LEMMA WorkersOwn ==
  ASSUME TaskInv, PageInv, PinsExact, ReadInv, OwnInv, NEW w \in Workers, Working(w)
  PROVE  OwnInv'
<1>1. OneWorks(w)
  BY WorkersOne
<1>2. PICK c : c = PageOf(w)
  OBVIOUS
<1>3. content \in [TargetChunks -> Contents]
  BY DEF TaskInv, Shape
<1>4. thread[w].pc = "page" /\ c \in TargetChunks /\ content[c] = "prepared" =>
        ~Added(c) \/ pins[c] >= 2
  BY <1>2, HeldPins, Constants DEF Carrying, UsingJob
<1>5. Added(c) /\ c \in TargetChunks => pins[c] = 1
  BY DEF ReadInv, ChunksInv
<1>6. CASE CancelPage(w)
  <2>1. /\ thread[w].pc = "page" /\ UNCHANGED listed
        /\ content' = [x \in TargetChunks |->
                       IF pins[c] = 1 /\ c \in TargetChunks /\ x = c THEN "none" ELSE content[x]]
    BY <1>2, <1>6 DEF CancelPage, At
  <2>2. Listed' = Listed
    BY <2>1 DEF Listed
  <2>3. CASE Moves(w, "cancelRemap", remapJob[c], thread[w].failed)
             /\ pins[c] = 1 /\ c \in TargetChunks /\ content[c] = "prepared"
    <3>1. thread'[w].pc \in WaitsAt /\ thread'[w].waitsFor = remapJob[c]
      BY <2>3 DEF Moves, WaitsAt
    <3>2. ~Added(c)
      BY <1>4, <1>5, <2>1, <2>3
    <3>3. content'[c] # "prepared" /\ \A d \in TargetChunks : d # c => content'[d] = content[d]
      BY <2>1, <2>3
    <3>4. QED  BY <1>1, <2>2, <2>3, <3>1, <3>2, <3>3, OwnBegins
  <2>4. CASE Moves(w, "unpin", thread[w].waitsFor, thread[w].failed)
    <3>1. thread'[w].pc \notin WaitsAt
      BY <2>4 DEF Moves, WaitsAt
    <3>2. \A d \in TargetChunks : content'[d] = "prepared" => content[d] = "prepared"
      BY <2>1
    <3>3. QED  BY <1>1, <2>2, <3>1, <3>2, OwnStays
  <2>5. QED  BY <1>2, <1>6, <2>3, <2>4, CancelPageTasks
<1>7. CASE StartPage(w)
  <2>1. thread[w].pc = "page" /\ UNCHANGED listed
    BY <1>7 DEF StartPage, At
  <2>2. Listed' = Listed
    BY <2>1 DEF Listed
  <2>3. CASE /\ c \in TargetChunks /\ content[c] = "prepared"
             /\ content' = [content EXCEPT ![c] = "reading"]
             /\ Moves(w, "remapWait", remapJob[c], thread[w].failed)
    <3>1. thread'[w].pc \in WaitsAt /\ thread'[w].waitsFor = remapJob[c]
      BY <2>3 DEF Moves, WaitsAt
    <3>2. ~Added(c)
      BY <1>4, <1>5, <2>1, <2>3
    <3>3. content'[c] # "prepared" /\ \A d \in TargetChunks : d # c => content'[d] = content[d]
      BY <1>3, <2>3
    <3>4. QED  BY <1>1, <2>2, <2>3, <3>1, <3>2, <3>3, OwnBegins
  <2>4. CASE UNCHANGED content /\ \E pc \in {"process", "unpin", "await"} :
               \E waitsFor, failed : Moves(w, pc, waitsFor, failed)
    <3>1. thread'[w].pc \notin WaitsAt
      BY <2>4 DEF Moves, WaitsAt
    <3>2. QED  BY <1>1, <2>2, <2>4, <3>1, OwnStays
  <2>5. QED  BY <1>2, <1>7, <2>3, <2>4, StartPageTasks
<1>8. CASE RemapReturns(w) \/ RemapCanceled(w)
  <2>1. thread[w].pc \in WaitsAt
    BY <1>8 DEF RemapReturns, RemapCanceled, At, WaitsAt
  <2>2. PICK k : k = thread[w].waitsFor
    OBVIOUS
  <2>3. Listed' = Listed \ {k}
    <3>1. TakeCompleted(k) \/ TakeCanceled(k)
      BY <1>8, <2>2 DEF RemapReturns, RemapCanceled
    <3>2. IsDone(k) /\ EraseJob(k)
      BY <3>1, TakesResult DEF TaskInv
    <3>3. QED  BY <3>2, ErasesJob
  <2>4. thread'[w].pc \notin WaitsAt
    BY <1>8, RemapReturnsTasks, RemapCanceledTasks DEF Moves, WaitsAt
  <2>5. \A d \in TargetChunks : content'[d] = "prepared" => content[d] = "prepared"
    BY <1>3, <1>8, RemapReturnsTasks DEF RemapCanceled, pageVars
  <2>6. QED  BY <1>1, <2>1, <2>2, <2>3, <2>4, <2>5, OwnEnds
<1>9. CASE CancelRemap(w) \/ Sleep(w)
  <2>1. UNCHANGED content /\ UNCHANGED listed
    BY <1>9 DEF CancelRemap, Sleep, pageVars, jobVars
  <2>2. thread'[w].pc \in WaitsAt => thread[w].pc \in WaitsAt /\ thread'[w].waitsFor = thread[w].waitsFor
    BY <1>9, CancelRemapTasks DEF Moves, Sleep, WaitsAt, CancelRemap, At
  <2>3. Listed' = Listed
    BY <2>1 DEF Listed
  <2>4. QED  BY <1>1, <2>1, <2>2, <2>3, OwnStays
<1>10. CASE \/ TakeTask(w) \/ FindError(w) \/ AwaitReader(w) \/ ProcessPage(w) \/ UnPinPage(w)
            \/ MarkJobAsDone(w) \/ NextPage(w) \/ AbandonPages(w) \/ FinishTask(w)
  <2>1. UNCHANGED content /\ UNCHANGED listed
    BY <1>10 DEF TakeTask, FindError, AwaitReader, ProcessPage, UnPinPage, MarkJobAsDone, NextPage,
         AbandonPages, FinishTask, pageVars, jobVars
  <2>2. thread'[w].pc \in {"idle", "page", "process", "unpin", "last", "after", "future"}
    <3>1. CASE TakeTask(w) \/ FindError(w)
      BY <3>1, TakeTaskTasks, FindErrorTasks DEF Moves
    <3>2. CASE AwaitReader(w) \/ ProcessPage(w)
      BY <3>2, AwaitReaderTasks, ProcessPageTasks DEF Moves
    <3>3. CASE UnPinPage(w) \/ MarkJobAsDone(w)
      BY <3>3, UnPinPageTasks, MarkJobTasks DEF Moves
    <3>4. CASE NextPage(w)
      BY <3>4, NextPageTasks DEF Moves
    <3>5. CASE AbandonPages(w) \/ FinishTask(w)
      BY <3>5, AbandonPagesTasks, FinishTaskTasks DEF Moves
    <3>6. QED  BY <1>10, <3>1, <3>2, <3>3, <3>4, <3>5
  <2>3. Listed' = Listed /\ thread'[w].pc \notin WaitsAt
    BY <2>1, <2>2 DEF Listed, WaitsAt
  <2>4. QED  BY <1>1, <2>1, <2>3, OwnStays
<1>11. QED  BY <1>6, <1>7, <1>8, <1>9, <1>10 DEF Working
\* Jobs that are taken out were their owner's.
LEMMA CallsOwn ==
  ASSUME TaskInv, OwnInv, JobsUse, KeepsNamed, \A w \in Workers : thread'[w] = thread[w],
         NEW D, \A j \in D : job[j].target = NoChunk, Listed' = Listed \ D,
         \A t \in Clients : owned'[t] = owned[t] \ D,
         \A t \in Clients : thread'[t].pc = "wait" => thread'[t].waitsFor \in owned'[t]
  PROVE  OwnInv'
<1>1. \A j \in Listed : job'[j].target = job[j].target
  BY SameTargets
<1>2. \A w \in Workers : \A j : Waits(w, j)' <=> Waits(w, j)
  BY DEF Waits
<1>3. Owners'
  BY <1>1 DEF OwnInv, Owners, At
<1>4. Waiters'
  <2>1. ASSUME NEW w \in Workers, thread[w].pc \in WaitsAt
        PROVE  /\ thread[w].waitsFor \in Listed' /\ job'[thread[w].waitsFor].target # NoChunk
               /\ \A v \in Workers \ {w} : ~Waits(v, thread[w].waitsFor)
    BY <1>1, <2>1 DEF OwnInv, Waiters
  <2>2. QED  BY <2>1 DEF Waiters, Waits
<1>5. RemapJobs'
  <2>1. ASSUME NEW c \in TargetChunks, content'[c] = "prepared", ~Added(c)'
        PROVE  /\ remapJob[c] \in Listed' /\ job'[remapJob[c]].target = c
               /\ \A w \in Workers : ~Waits(w, remapJob[c])
    <3>1. /\ remapJob[c] \in Listed /\ job[remapJob[c]].target = c
          /\ \A w \in Workers : ~Waits(w, remapJob[c])
      BY <2>1 DEF OwnInv, RemapJobs, KeepsNamed
    <3>2. c # NoChunk
      BY <2>1, Constants
    <3>3. QED  BY <1>1, <3>1, <3>2
  <2>2. QED  BY <2>1 DEF RemapJobs, Waits, KeepsNamed
<1>6. QED  BY <1>3, <1>4, <1>5 DEF OwnInv

\* The owner takes out its job.
LEMMA TakenOwn ==
  ASSUME TaskInv, ReadInv, OwnInv, NEW t \in Clients, NEW j,
         IsCompleted(t, j) \/ IsCanceled(t, j) \/ (WaitReturns(t) /\ j = thread[t].waitsFor /\ TakeCompleted(j)),
         ClientStep
  PROVE  OwnInv'
<1>1. /\ JobsUse /\ KeepsNamed /\ \A w \in Workers : thread'[w] = thread[w]
  BY ClientStepUse, CallsKeepNamed, ClientStepTasks
<1>2. TakeCompleted(j) \/ TakeCanceled(j)
  BY DEF IsCompleted, IsCanceled
<1>3. Listed' = Listed \ {j}
  <2>1. IsDone(j) /\ EraseJob(j)
    BY <1>2, TakesResult DEF TaskInv
  <2>2. QED  BY <2>1, ErasesJob
<1>4. j \in owned[t]
  BY DEF IsCompleted, IsCanceled, WaitReturns, OwnInv, Owners
<1>5. owned' = [owned EXCEPT ![t] = @ \ {j}]
  <2>1. CASE IsCompleted(t, j) \/ IsCanceled(t, j)
    BY <2>1 DEF IsCompleted, IsCanceled
  <2>2. CASE WaitReturns(t) /\ j = thread[t].waitsFor /\ TakeCompleted(j)
    BY <2>2 DEF WaitReturns, TakeCompleted
  <2>3. QED  BY <2>1, <2>2
<1>6. ASSUME NEW u \in Clients PROVE owned'[u] = owned[u] \ {j}
  <2>1. owned \in [Clients -> SUBSET Jobs]
    BY DEF TaskInv, Shape
  <2>2. CASE u = t
    BY <1>5, <2>1, <2>2
  <2>3. CASE u # t
    <3>1. owned[t] \cap owned[u] = {}
      BY <1>6, <2>3 DEF OwnInv, Owners
    <3>2. QED  BY <1>4, <1>5, <1>6, <2>1, <2>3, <3>1
  <2>4. QED  BY <2>2, <2>3
<1>7. /\ thread'[t].pc = "idle" /\ \A u \in Clients \ {t} : thread'[u] = thread[u]
  <2>1. CASE IsCompleted(t, j) \/ IsCanceled(t, j)
    BY <2>1 DEF IsCompleted, IsCanceled, At
  <2>2. CASE WaitReturns(t)
    BY <2>2, WaitReturnsTasks, Constants DEF Moves
  <2>3. QED  BY <2>1, <2>2
<1>8. ASSUME NEW u \in Clients, thread'[u].pc = "wait" PROVE thread'[u].waitsFor \in owned'[u]
  <2>1. u # t /\ thread'[u] = thread[u]
    BY <1>7, <1>8
  <2>2. thread[u].waitsFor \in owned[u] /\ owned[t] \cap owned[u] = {}
    BY <1>8, <2>1 DEF OwnInv, Owners, At
  <2>3. QED  BY <1>4, <1>6, <2>1, <2>2
<1>9. \A k \in {j} : job[k].target = NoChunk
  BY <1>4 DEF OwnInv, Owners
<1>10. QED  BY <1>1, <1>3, <1>6, <1>8, <1>9, CallsOwn

LEMMA AskingOwn ==
  ASSUME TaskInv, ReadInv, OwnInv, ClientStep
  PROVE  OwnInv'
<1>1. /\ JobsUse /\ KeepsNamed /\ \A w \in Workers : thread'[w] = thread[w]
  BY ClientStepUse, CallsKeepNamed, ClientStepTasks
<1>2. ASSUME UNCHANGED owned, UNCHANGED listed,
             \A t \in Clients : \/ thread'[t].pc # "wait" \/ thread'[t] = thread[t]
                                \/ thread'[t].waitsFor \in owned[t]
      PROVE  OwnInv'
  <2>1. Listed' = Listed
    BY <1>2 DEF Listed
  <2>2. \A t \in Clients : thread'[t].pc = "wait" => thread'[t].waitsFor \in owned'[t]
    BY <1>2 DEF OwnInv, Owners, At
  <2>3. /\ \A j \in {} : job[j].target = NoChunk
        /\ Listed' = Listed \ {} /\ \A t \in Clients : owned'[t] = owned[t] \ {}
    BY <1>2, <2>1
  <2>4. QED  BY <1>1, <2>2, <2>3, CallsOwn
<1>3. CASE OtherStep
  BY <1>2, <1>3 DEF OtherStep, CleanUp, Close, CloseNext, vars, jobVars
<1>4. ASSUME NEW t \in Clients, Asking(t) \/ PrepareReadPage(t) \/ AddRemapJob(t)
      PROVE  OwnInv'
  <2>1. CASE \E j \in owned[t] : IsCompleted(t, j) \/ IsCanceled(t, j)
    BY <2>1, TakenOwn
  <2>2. CASE WaitReturns(t)
    <3>1. PICK j : j = thread[t].waitsFor
      OBVIOUS
    <3>2. CASE TakeCompleted(j)
      BY <2>2, <3>1, <3>2, TakenOwn
    <3>3. CASE UNCHANGED <<listed, owned>>
      <4>1. thread'[t].pc = "idle" /\ \A u \in Clients \ {t} : thread'[u] = thread[u]
        BY <2>2, WaitReturnsTasks, Constants DEF Moves
      <4>2. QED  BY <1>2, <3>3, <4>1
    <3>4. QED  BY <2>2, <3>1, <3>2, <3>3 DEF WaitReturns
  <2>3. CASE \E j \in owned[t] : Cancel(t, j) \/ WaitForCompletion(t, j)
    <3>1. PICK j \in owned[t] : Cancel(t, j) \/ WaitForCompletion(t, j)
      BY <2>3
    <3>2. UNCHANGED owned /\ UNCHANGED listed
      BY <3>1 DEF Cancel, WaitForCompletion, jobVars
    <3>3. CASE Cancel(t, j)
      BY <1>2, <3>2, <3>3 DEF Cancel
    <3>4. CASE WaitForCompletion(t, j)
      <4>1. thread'[t].waitsFor = j /\ \A u \in Clients \ {t} : thread'[u] = thread[u]
        BY <3>4, WaitsTasks, Constants DEF Moves
      <4>2. QED  BY <1>2, <3>2, <4>1
    <3>5. QED  BY <3>1, <3>3, <3>4
  <2>4. CASE Sleep(t)
    BY <1>2, <2>4 DEF Sleep, jobVars
  <2>5. CASE \/ \E r \in Requests[t] : RequestData(t, r)
             \/ FindAccessor(t) \/ EnsureMaxPages(t) \/ PrepareRefused(t)
             \/ PrepareReadPage(t) \/ AddRemapJob(t)
    <3>1. UNCHANGED owned /\ UNCHANGED listed
      BY <2>5 DEF RequestData, FindAccessor, EnsureMaxPages, PrepareRefused, PrepareReadPage, AddRemapJob, jobVars
    <3>2. thread'[t].pc # "wait" /\ \A u \in Clients \ {t} : thread'[u] = thread[u]
      <4>1. CASE (\E r \in Requests[t] : RequestData(t, r)) \/ PrepareRefused(t)
        BY <4>1, RequestDataTasks, PrepareRefusedTasks, Constants
      <4>2. CASE FindAccessor(t) \/ EnsureMaxPages(t)
        BY <4>2, FindAccessorTasks, EnsureMaxPagesTasks, Constants DEF Moves
      <4>3. CASE PrepareReadPage(t) \/ AddRemapJob(t)
        BY <4>3, PreparePageTasks, AddRemapJobTasks, Constants
      <4>4. QED  BY <2>5, <4>1, <4>2, <4>3
    <3>3. QED  BY <1>2, <3>1, <3>2
  <2>6. QED  BY <1>4, <2>1, <2>2, <2>3, <2>4, <2>5 DEF Asking, Waiting
<1>5. QED  BY <1>3, <1>4 DEF ClientStep

LEMMA AddJobOwns ==
  ASSUME TaskInv, PageInv, PinsExact, ReadInv, OwnInv, NEW t \in Clients, AddJob(t)
  PROVE  OwnInv'
<1>1. PICK j : j = Len(job) + 1
  OBVIOUS
<1>2. /\ TaskInv' /\ JobAdded(t, j) /\ j \in Jobs
      /\ \E r \in JobRecord, T \in Seq(Task) : AddsTasks(j, r, T) /\ JobOfCall(t, r, T)
  BY <1>1, AddJobTasks
<1>3. PICK r \in JobRecord, T \in Seq(Task) : AddsTasks(j, r, T) /\ JobOfCall(t, r, T)
  BY <1>2
<1>4. At(t, "enqueue") /\ UNCHANGED content
  BY DEF AddJob
<1>5. /\ \A u \in Clients \ {t} : thread'[u] = thread[u]
      /\ \A w \in Workers : thread'[w] = thread[w]
      /\ thread'[t].outer = NoFrame /\ thread'[t].pc # "wait"
      /\ thread[t].outer = NoFrame => UNCHANGED remapJob /\ owned' = [owned EXCEPT ![t] = @ \cup {j}]
      /\ thread[t].outer # NoFrame =>
           /\ RemapTarget(t) \in TargetChunks /\ remapJob' = [remapJob EXCEPT ![RemapTarget(t)] = j]
           /\ UNCHANGED owned
  BY <1>2, <1>4, CallReturns, Constants
<1>6. /\ DOMAIN job' = DOMAIN job \cup {j} /\ job'[j] = r /\ \A k \in DOMAIN job : job'[k] = job[k]
      /\ Listed' = Listed \cup {j} /\ j \notin DOMAIN job
  BY <1>3 DEF AddsTasks
<1>7. \A k \in Listed : k \in DOMAIN job /\ k # j /\ k \in Listed' /\ job'[k].target = job[k].target
  BY <1>6 DEF TaskInv, JobsListed
<1>8. owned \in [Clients -> SUBSET Jobs]
  BY DEF TaskInv, Shape
<1>9. r.target = RemapTarget(t) /\ (r.target # NoChunk <=> thread[t].outer # NoFrame)
  BY <1>3 DEF JobOfCall
<1>10. \A u \in Clients : j \notin owned[u]
  BY <1>7 DEF OwnInv, Owners
<1>11. Owners'
  <2>1. \A u \in Clients : At(u, "wait")' => At(u, "wait") /\ thread'[u].waitsFor = thread[u].waitsFor
    BY <1>5 DEF At
  <2>2. CASE thread[t].outer # NoFrame
    <3>1. UNCHANGED owned
      BY <1>5, <2>2
    <3>2. QED  BY <1>7, <2>1, <3>1 DEF OwnInv, Owners
  <2>3. CASE thread[t].outer = NoFrame
    <3>1. owned'[t] = owned[t] \cup {j} /\ \A u \in Clients \ {t} : owned'[u] = owned[u]
      BY <1>5, <1>8, <2>3
    <3>2. job'[j].target = NoChunk /\ j \in Listed'
      <4>1. r.target = NoChunk
        BY <1>9, <2>3
      <4>2. QED  BY <1>6, <4>1
    <3>3. \A u \in Clients : \A k \in owned'[u] : k \in Listed' /\ job'[k].target = NoChunk
      <4>1. ASSUME NEW u \in Clients, NEW k \in owned[u] PROVE k \in Listed' /\ job'[k].target = NoChunk
        BY <1>7, <4>1 DEF OwnInv, Owners
      <4>2. QED  BY <3>1, <3>2, <4>1
    <3>4. \A u \in Clients : \A v \in Clients \ {u} : owned'[u] \cap owned'[v] = {}
      <4>1. \A u \in Clients : \A v \in Clients \ {u} : owned[u] \cap owned[v] = {}
        BY DEF OwnInv, Owners
      <4>2. ASSUME NEW u \in Clients, NEW v \in Clients \ {u}, NEW k \in owned'[u], k \in owned'[v] PROVE FALSE
        <5>1. (k \in owned[u] \/ k = j) /\ (k \in owned[v] \/ k = j)
          BY <3>1, <4>2
        <5>2. k = j
          BY <4>1, <4>2, <5>1
        <5>3. u = t /\ v = t
          BY <1>10, <3>1, <4>2, <5>2
        <5>4. QED  BY <4>2, <5>3
      <4>3. QED  BY <4>2
    <3>5. \A u \in Clients : At(u, "wait")' => thread'[u].waitsFor \in owned'[u]
      BY <2>1, <3>1 DEF OwnInv, Owners
    <3>6. QED  BY <3>3, <3>4, <3>5 DEF Owners
  <2>4. QED  BY <2>2, <2>3
<1>12. Waiters'
  <2>1. ASSUME NEW w \in Workers, thread[w].pc \in WaitsAt
        PROVE  /\ thread[w].waitsFor \in Listed' /\ job'[thread[w].waitsFor].target # NoChunk
               /\ \A v \in Workers \ {w} : ~Waits(v, thread[w].waitsFor)
    BY <1>7, <2>1 DEF OwnInv, Waiters
  <2>2. QED  BY <1>5, <2>1 DEF Waiters, Waits
<1>13. \A w \in Workers : ~Waits(w, j)
  BY <1>7 DEF OwnInv, Waiters, Waits
<1>14. thread[t].outer # NoFrame => \A d : Added(d) <=> d = RemapTarget(t)
  BY AddJobReads
<1>15. \A d : Added(d)' <=> Added(d) /\ thread[t].outer = NoFrame
  <2>1. \A u \in Clients \ {t} : RemapTarget(u)' = RemapTarget(u)
    BY <1>5 DEF RemapTarget
  <2>2. thread[t].outer # NoFrame => \A u \in Clients \ {t} : thread[u].outer = NoFrame
    BY AddedHolds
  <2>3. QED  BY <1>5, <2>1, <2>2 DEF Added
<1>16. RemapJobs'
  <2>1. ASSUME NEW c \in TargetChunks, content[c] = "prepared", ~Added(c)'
        PROVE  /\ remapJob'[c] \in Listed' /\ job'[remapJob'[c]].target = c
               /\ \A w \in Workers : ~Waits(w, remapJob'[c])
    <3>1. remapJob'[c] = IF thread[t].outer # NoFrame /\ c = RemapTarget(t) THEN j ELSE remapJob[c]
      BY <1>5, <2>1 DEF TaskInv, Shape
    <3>2. CASE thread[t].outer # NoFrame /\ c = RemapTarget(t)
      BY <1>6, <1>9, <1>13, <3>1, <3>2
    <3>3. CASE ~(thread[t].outer # NoFrame /\ c = RemapTarget(t))
      <4>1. ~Added(c)
        BY <1>14, <1>15, <2>1, <3>3
      <4>2. /\ remapJob[c] \in Listed /\ job[remapJob[c]].target = c
            /\ \A w \in Workers : ~Waits(w, remapJob[c])
        BY <2>1, <4>1 DEF OwnInv, RemapJobs
      <4>3. QED  BY <1>7, <3>1, <3>3, <4>2
    <3>4. QED  BY <3>2, <3>3
  <2>2. QED  BY <1>4, <1>5, <2>1 DEF RemapJobs, Waits
<1>17. QED  BY <1>11, <1>12, <1>16 DEF OwnInv

LEMMA InitOwns == Init => OwnInv
<1> SUFFICES ASSUME Init PROVE OwnInv
  OBVIOUS
<1>1. /\ \A t \in Clients : owned[t] = {} /\ thread[t].pc = "idle"
      /\ \A w \in Workers : thread[w].pc = "idle"
      /\ \A c \in TargetChunks : content[c] = "none"
  BY Constants DEF Init
<1>2. QED  BY <1>1 DEF OwnInv, Owners, Waiters, RemapJobs, At, WaitsAt

LEMMA NextOwns ==
  ASSUME TaskInv, PageInv, PinsExact, ReadInv, OwnInv, [Next]_vars
  PROVE  OwnInv'
<1>1. CASE \E w \in Workers : Working(w)
  BY <1>1, WorkersOwn
<1>2. ASSUME NEW t \in Clients,
             \/ \E r \in Requests[t] : RequestData(t, r)
             \/ \E j \in owned[t] : IsCompleted(t, j) \/ IsCanceled(t, j) \/ Cancel(t, j)
                                    \/ WaitForCompletion(t, j)
             \/ Adding(t) \/ Waiting(t)
      PROVE  OwnInv'
  BY <1>2, AddJobOwns, AskingOwn DEF Adding, Asking, ClientStep
<1>3. CASE OtherStep
  BY <1>3, AskingOwn DEF ClientStep
<1>4. QED  BY <1>1, <1>2, <1>3 DEF Next, OtherStep

\* Whoever asks for a job or waits for it finds it in m_jobs: a job is taken out
\* once, by its owner, or by the worker that reads or gives up the page it was for.
THEOREM JobsHaveOwners == Spec => []OwnInv
<1>1. Init => OwnInv
  BY InitOwns
<1>2. TaskInv /\ PageInv /\ PinsExact /\ ReadInv /\ OwnInv /\ [Next]_vars => OwnInv'
  BY NextOwns
<1>3. QED  BY <1>1, <1>2, SpecReads, PTL DEF Spec

-----------------------------------------------------------------------------
(* What is read.                                                           *)

\* The pages of a job that are still to be given to its processor.
Ungiven(j) == {i \in Pending(j) : \A w \in Workers : ~Forgets(w, j, i)}
AllGiven(j) == job[j].given + Cardinality(Ungiven(j)) = Len(job[j].pages)
GivenInv == \A j \in DOMAIN job : j \in Listed /\ ~job[j].cancelled => AllGiven(j)

GivenAlike(k) == k \in Listed' /\ ~job'[k].cancelled =>
  /\ k \in Listed /\ ~job[k].cancelled
  /\ job'[k].given = job[k].given /\ Len(job'[k].pages) = Len(job[k].pages)

LEMMA AlikeGiven ==
  ASSUME NEW k, Alike(k)
  PROVE  GivenAlike(k)
BY DEF Alike, AlikeBut, GivenAlike

LEMMA GivenNext == GivenInv' <=>
  (\A k \in DOMAIN job' : k \in Listed' /\ ~job'[k].cancelled =>
     job'[k].given + Cardinality(Ungiven(k)') = Len(job'[k].pages))
BY DEF GivenInv, AllGiven

LEMMA GivenStays ==
  ASSUME GivenInv, NEW k \in DOMAIN job, GivenAlike(k), k \in Listed', ~job'[k].cancelled,
         Ungiven(k)' = Ungiven(k)
  PROVE  job'[k].given + Cardinality(Ungiven(k)') = Len(job'[k].pages)
<1>1. /\ job'[k].given = job[k].given /\ Len(job'[k].pages) = Len(job[k].pages)
      /\ k \in Listed /\ ~job[k].cancelled
  BY DEF GivenAlike
<1>2. job[k].given + Cardinality(Ungiven(k)) = Len(job[k].pages)
  BY <1>1 DEF GivenInv, AllGiven
<1>3. QED  BY <1>1, <1>2

LEMMA UngivenStays ==
  ASSUME NEW k, Pending(k)' = Pending(k),
         \A w \in Workers : \A i : Forgets(w, k, i)' <=> Forgets(w, k, i)
  PROVE  Ungiven(k)' = Ungiven(k)
BY DEF Ungiven

LEMMA UngivenFinite ==
  ASSUME TaskInv, NEW j \in DOMAIN job
  PROVE  IsFiniteSet(Ungiven(j)) /\ Cardinality(Ungiven(j)) \in Nat
<1>1. Ungiven(j) \subseteq 1 .. Len(job[j].pages) /\ Len(job[j].pages) \in Nat
  BY JobPlaces DEF TaskInv, Ungiven, Pending
<1>2. QED  BY <1>1, PendingFinite

LEMMA OthersForget ==
  ASSUME NEW w \in Workers, \A v \in Workers \ {w} : thread'[v] = thread[v]
  PROVE  \A v \in Workers \ {w} : \A k, i : Forgets(v, k, i)' <=> Forgets(v, k, i)
BY DEF Forgets

\* A worker that comes to give back a page without having read it has failed: its
\* job is cancelled.
LEMMA FailureCancels ==
  ASSUME TaskInv, NEW w \in Workers, Handling(w), ~ProcessPage(w),
         thread'[w].pc \in Forgetting, thread[w].pc \notin Forgetting
  PROVE  thread'[w].job = thread[w].job /\ job'[thread[w].job].cancelled = TRUE
<1>1. CASE FindError(w)
  <2>1. thread'[w].pc = "page"
    BY <1>1, FindErrorTasks DEF Moves
  <2>2. QED  BY <2>1 DEF Forgetting
<1>2. CASE CancelRemap(w) \/ RemapCanceled(w)
  BY <1>2 DEF CancelRemap, RemapCanceled, Forgetting
<1>3. CASE StartPage(w)
  <2>1. FailTo(w, job, TRUE) /\ thread'[w].job = thread[w].job
    BY <1>3, StartPageTasks DEF Moves, Forgetting
  <2>2. UNCHANGED listed /\ ~At(w, "idle")
    BY <1>3 DEF StartPage
  <2>3. QED  BY <2>1, <2>2, FailToAlike
<1>4. CASE AwaitReader(w)
  <2>1. FailTo(w, job, TRUE) /\ thread'[w].job = thread[w].job
    BY <1>4, AwaitReaderTasks DEF Moves, Forgetting
  <2>2. UNCHANGED listed /\ ~At(w, "idle")
    BY <1>4 DEF AwaitReader
  <2>3. QED  BY <2>1, <2>2, FailToAlike
<1>5. CASE RemapReturns(w)
  <2>1. PICK j, failed : j = thread[w].waitsFor /\ failed = HasError(j)
    OBVIOUS
  <2>2. FailTo(w, Deleted(job, j), failed) /\ thread'[w].job = thread[w].job /\ TakeCanceled(j)
    BY <1>5, <2>1, RemapReturnsTasks DEF Moves, Forgetting
  <2>3. IsDone(j) /\ EraseJob(j) /\ ~At(w, "idle")
    BY <1>5, <2>2 DEF RemapReturns, TakeCanceled
  <2>4. QED  BY <2>2, <2>3, RemapFailsAlike
<1>6. CASE MarkJobAsDone(w)
  <2>1. thread'[w].pc = "after"
    BY <1>6, MarkJobTasks DEF Moves
  <2>2. QED  BY <2>1 DEF Forgetting
<1>7. CASE NextPage(w) \/ TakeTask(w) \/ FinishTask(w)
  <2>1. thread'[w].pc \in {"page", "future", "idle"}
    BY <1>7, NextPageTasks, TakeTaskTasks, FinishTaskTasks
  <2>2. QED  BY <2>1 DEF Forgetting
<1>8. CASE Sleep(w)
  BY <1>8 DEF Sleep
<1>9. QED  BY <1>1, <1>2, <1>3, <1>4, <1>5, <1>6, <1>7, <1>8 DEF Handling

LEMMA HandlingForgets ==
  ASSUME TaskInv, NEW w \in Workers, Handling(w), ~ProcessPage(w), NEW k, ~job'[k].cancelled, NEW i
  PROVE  Forgets(w, k, i)' <=> Forgets(w, k, i)
<1>1. HandledPage(w)
  BY HandlingPage
<1>2. Forgets(w, k, i) => Forgets(w, k, i)'
  BY <1>1 DEF HandledPage, Forgets
<1>3. ASSUME Forgets(w, k, i)' PROVE Forgets(w, k, i)
  <2>1. CASE thread[w].pc \in Forgetting
    BY <1>1, <1>3, <2>1 DEF HandledPage, Forgets
  <2>2. CASE thread[w].pc \notin Forgetting
    BY <1>3, <2>2, FailureCancels DEF Forgets
  <2>3. QED  BY <2>1, <2>2
<1>4. QED  BY <1>2, <1>3

LEMMA HandlingAlike ==
  ASSUME TaskInv, NEW w \in Workers, Handling(w), ~ProcessPage(w), NEW k \in DOMAIN job
  PROVE  GivenAlike(k)
<1>1. CASE MarkJobAsDone(w) \/ FinishTask(w)
  <2>1. Listed' = Listed
    BY <1>1 DEF MarkJobAsDone, FinishTask, Listed
  <2>2. PICK q \in JobRecord : q = job[k]
    BY JobPlaces DEF TaskInv
  <2>3. PICK f, d : f = job'[k].future /\ d = TRUE
    OBVIOUS
  <2>4. job'[k] = q \/ job'[k] = [q EXCEPT !.done = d] \/ job'[k] = [q EXCEPT !.future = f]
    BY <1>1, <2>2, <2>3, MarkJobTasks, FinishTaskTasks
  <2>5. job'[k].given = q.given /\ job'[k].pages = q.pages /\ job'[k].cancelled = q.cancelled
    BY <2>4 DEF JobRecord
  <2>6. QED  BY <2>1, <2>2, <2>5 DEF GivenAlike
<1>2. CASE ~(MarkJobAsDone(w) \/ FinishTask(w))
  <2>1. JobsAlike
    BY <1>2, WorkersAlike DEF Handling
  <2>2. QED  BY <2>1, AlikeGiven DEF JobsAlike
<1>3. QED  BY <1>1, <1>2

LEMMA HandlingGiven ==
  ASSUME TaskInv, GivenInv, NEW w \in Workers, Handling(w), ~ProcessPage(w)
  PROVE  GivenInv'
<1>1. PagesStay /\ \A v \in Workers \ {w} : thread'[v] = thread[v]
  BY HandlingPages, Constants
<1>2. ASSUME NEW k \in DOMAIN job', k \in Listed', ~job'[k].cancelled
      PROVE  job'[k].given + Cardinality(Ungiven(k)') = Len(job'[k].pages)
  <2>1. k \in DOMAIN job /\ Pending(k)' = Pending(k)
    BY <1>1, <1>2 DEF PagesStay
  <2>2. \A v \in Workers : \A i : Forgets(v, k, i)' <=> Forgets(v, k, i)
    BY <1>1, <1>2, HandlingForgets, OthersForget
  <2>3. Ungiven(k)' = Ungiven(k)
    BY <2>1, <2>2, UngivenStays
  <2>4. GivenAlike(k)
    BY <2>1, HandlingAlike
  <2>5. QED  BY <1>2, <2>1, <2>3, <2>4, GivenStays
<1>3. QED  BY <1>2, GivenNext

\* The page is given to the processor.
LEMMA ProcessPageGiven ==
  ASSUME TaskInv, GivenInv, NEW w \in Workers, ProcessPage(w)
  PROVE  GivenInv'
<1>1. PICK j, n : j = thread[w].job /\ n = thread[w].page
  OBVIOUS
<1>2. /\ PagesStay /\ \A v \in Workers \ {w} : thread'[v] = thread[v]
  BY HandlingPages, Constants DEF Handling
<1>3. /\ thread'[w].pc = "unpin" /\ thread'[w].job = j /\ thread'[w].page = n
      /\ \A k \in DOMAIN job :
           /\ k # j => job'[k] = job[k]
           /\ job'[k] = [job[k] EXCEPT !.given = job'[k].given]
           /\ k = j => job'[k].given = job[k].given + 1
  BY <1>1, ProcessPageTasks DEF Moves
<1>4. thread[w].pc = "process" /\ thread[w].pc \in Carrying /\ Listed' = Listed
  BY DEF ProcessPage, Carrying, UsingJob, Listed
<1>5. j \in DOMAIN job /\ n \in Pending(j)
  BY <1>1, <1>4, CarriesPending
<1>6. ASSUME NEW k \in DOMAIN job
      PROVE  job'[k].pages = job[k].pages /\ job'[k].cancelled = job[k].cancelled
  <2>1. PICK q \in JobRecord : q = job[k]
    BY <1>6, JobPlaces DEF TaskInv
  <2>2. PICK g : g = job'[k].given
    OBVIOUS
  <2>3. job'[k] = [q EXCEPT !.given = g]
    BY <1>3, <1>6, <2>1, <2>2
  <2>4. QED  BY <2>1, <2>3 DEF JobRecord
<1>7. ASSUME NEW k \in DOMAIN job', k \in Listed', ~job'[k].cancelled
      PROVE  job'[k].given + Cardinality(Ungiven(k)') = Len(job'[k].pages)
  <2>1. k \in DOMAIN job /\ Pending(k)' = Pending(k)
    BY <1>2, <1>7 DEF PagesStay
  <2>2. k \in Listed /\ ~job[k].cancelled
    BY <1>4, <1>6, <1>7, <2>1
  <2>3. CASE k # j
    <3>1. \A i : ~Forgets(w, k, i) /\ ~Forgets(w, k, i)'
      BY <1>1, <1>3, <2>3 DEF Forgets
    <3>2. \A v \in Workers : \A i : Forgets(v, k, i)' <=> Forgets(v, k, i)
      BY <1>2, <3>1, OthersForget
    <3>3. Ungiven(k)' = Ungiven(k)
      BY <2>1, <3>2, UngivenStays
    <3>4. GivenAlike(k)
      BY <1>3, <2>1, <2>2, <2>3 DEF GivenAlike
    <3>5. QED  BY <1>7, <2>1, <3>3, <3>4, GivenStays
  <2>4. CASE k = j
    <3>1. \A i : Forgets(w, j, i)' <=> i = n
      BY <1>3 DEF Forgets, Forgetting
    <3>2. \A i : ~Forgets(w, j, i)
      BY <1>4 DEF Forgets, Forgetting
    <3>3. \A v \in Workers \ {w} : \A i : Forgets(v, j, i)' <=> Forgets(v, j, i)
      BY <1>2, OthersForget
    <3>4. ASSUME NEW v \in Workers \ {w}, Forgets(v, j, n) PROVE FALSE
      <4>1. HasTask(v) /\ HasTask(w)
        <5>1. ~At(v, "idle") /\ ~At(w, "idle")
          BY <1>4, <3>4 DEF Forgets, Forgetting
        <5>2. QED  BY <5>1, WorkersPage DEF HasTask
      <4>2. QED  BY <1>1, <3>4, <4>1 DEF TaskInv, OneRuns, Forgets
    <3>5. Ungiven(j)' = Ungiven(j) \ {n} /\ n \in Ungiven(j)
      BY <1>5, <2>1, <2>4, <3>1, <3>2, <3>3, <3>4 DEF Ungiven
    <3>6. IsFiniteSet(Ungiven(j)) /\ Cardinality(Ungiven(j)) \in Nat
      BY <1>5, UngivenFinite
    <3>7. Cardinality(Ungiven(j)') = Cardinality(Ungiven(j)) - 1
      BY <3>5, <3>6, FS_RemoveElement
    <3>8. job[j].given + Cardinality(Ungiven(j)) = Len(job[j].pages)
      BY <1>5, <2>2, <2>4 DEF GivenInv, AllGiven
    <3>9. job'[j].given = job[j].given + 1 /\ job'[j].pages = job[j].pages /\ job[j].given \in Nat
      <4>1. job[j].given \in Nat
        BY <1>5, JobPlaces DEF TaskInv, JobRecord
      <4>2. QED  BY <1>3, <1>5, <1>6, <4>1
    <3>10. job'[j].given + Cardinality(Ungiven(j)') = Len(job'[j].pages)
      <4>1. PICK g \in Nat, m \in Nat : g = job[j].given /\ m = Cardinality(Ungiven(j))
        BY <3>6, <3>9
      <4>2. g + m = Len(job[j].pages)
        BY <3>8, <4>1
      <4>3. job'[j].given = g + 1 /\ Cardinality(Ungiven(j)') = m - 1 /\ Len(job'[j].pages) = g + m
        BY <3>7, <3>9, <4>1, <4>2
      <4>4. (g + 1) + (m - 1) = g + m
        OBVIOUS
      <4>5. QED  BY <4>3, <4>4
    <3>11. QED  BY <2>4, <3>10
  <2>5. QED  BY <2>3, <2>4
<1>8. QED  BY <1>7, GivenNext

\* The page that is counted was given, or given up, before.
LEMMA UnPinPageGiven ==
  ASSUME TaskInv, GivenInv, NEW w \in Workers, UnPinPage(w)
  PROVE  GivenInv'
<1>1. PICK j, n : j = thread[w].job /\ n = thread[w].page
  OBVIOUS
<1>2. /\ \A v \in Workers \ {w} : thread'[v] = thread[v]
      /\ thread'[w].pc \in {"last", "after"}
      /\ \A k \in DOMAIN job :
           /\ k # j => job'[k] = job[k] /\ Pending(k)' = Pending(k)
           /\ job'[k] = [job[k] EXCEPT !.processed = job'[k].processed]
           /\ k = j => Pending(k)' = Pending(k) \ {n}
  BY <1>1, UnPinPageTasks, Constants DEF Moves
<1>3. DOMAIN job' = DOMAIN job
  <2>1. PICK r : r = [job[j] EXCEPT !.processed = @ + 1]
    OBVIOUS
  <2>2. job' = [job EXCEPT ![j] = r]
    BY <1>1, <2>1 DEF UnPinPage
  <2>3. QED  BY <2>2, OneJob, UnPinPageTasks DEF TaskInv
<1>4. thread[w].pc = "unpin" /\ Listed' = Listed
  BY DEF UnPinPage, Listed
<1>5. ASSUME NEW k \in DOMAIN job PROVE GivenAlike(k)
  <2>1. PICK q \in JobRecord : q = job[k]
    BY <1>5, JobPlaces DEF TaskInv
  <2>2. PICK g : g = job'[k].processed
    OBVIOUS
  <2>3. job'[k] = [q EXCEPT !.processed = g]
    BY <1>2, <1>5, <2>1, <2>2
  <2>4. job'[k].given = q.given /\ job'[k].pages = q.pages /\ job'[k].cancelled = q.cancelled
    BY <2>3 DEF JobRecord
  <2>5. QED  BY <1>4, <2>1, <2>4 DEF GivenAlike
<1>6. ASSUME NEW k \in DOMAIN job PROVE Ungiven(k)' = Ungiven(k)
  <2>1. \A i : ~Forgets(w, k, i)'
    BY <1>2 DEF Forgets, Forgetting
  <2>2. \A i : Forgets(w, k, i) <=> k = j /\ i = n
    BY <1>1, <1>4 DEF Forgets, Forgetting
  <2>3. \A v \in Workers \ {w} : \A i : Forgets(v, k, i)' <=> Forgets(v, k, i)
    BY <1>2, OthersForget
  <2>4. CASE k # j
    <3>1. \A v \in Workers : \A i : Forgets(v, k, i)' <=> Forgets(v, k, i)
      BY <2>1, <2>2, <2>3, <2>4
    <3>2. QED  BY <1>2, <1>6, <2>4, <3>1, UngivenStays
  <2>5. CASE k = j
    <3>1. Pending(k)' = Pending(k) \ {n}
      BY <1>2, <1>6, <2>5
    <3>2. QED  BY <2>1, <2>2, <2>3, <2>5, <3>1 DEF Ungiven
  <2>6. QED  BY <2>4, <2>5
<1>7. ASSUME NEW k \in DOMAIN job', k \in Listed', ~job'[k].cancelled
      PROVE  job'[k].given + Cardinality(Ungiven(k)') = Len(job'[k].pages)
  <2>1. k \in DOMAIN job
    BY <1>3, <1>7
  <2>2. GivenAlike(k) /\ Ungiven(k)' = Ungiven(k)
    BY <1>5, <1>6, <2>1
  <2>3. QED  BY <1>7, <2>1, <2>2, GivenStays
<1>8. QED  BY <1>7, GivenNext

\* A worker that gives up pages has a job that is cancelled.
LEMMA CancelledGiven ==
  ASSUME TaskInv, GivenInv, NEW w \in Workers, NEW j, JobsAlike, job'[j].cancelled,
         thread[w].job = j, thread'[w].job = j, \A v \in Workers \ {w} : thread'[v] = thread[v],
         \A k \in DOMAIN job : k # j => Pending(k)' = Pending(k)
  PROVE  GivenInv'
<1>1. ASSUME NEW k \in DOMAIN job', k \in Listed', ~job'[k].cancelled
      PROVE  job'[k].given + Cardinality(Ungiven(k)') = Len(job'[k].pages)
  <2>1. k \in DOMAIN job /\ GivenAlike(k) /\ k # j
    BY <1>1, AlikeGiven DEF JobsAlike
  <2>2. \A v \in Workers : \A i : Forgets(v, k, i)' <=> Forgets(v, k, i)
    <3>1. \A i : ~Forgets(w, k, i) /\ ~Forgets(w, k, i)'
      BY <2>1 DEF Forgets
    <3>2. QED  BY <3>1, OthersForget
  <2>3. Ungiven(k)' = Ungiven(k)
    BY <2>1, <2>2, UngivenStays
  <2>4. QED  BY <1>1, <2>1, <2>3, GivenStays
<1>2. QED  BY <1>1, GivenNext

LEMMA CancelPageGiven ==
  ASSUME TaskInv, GivenInv, NEW w \in Workers, CancelPage(w)
  PROVE  GivenInv'
<1>1. PICK j : j = thread[w].job
  OBVIOUS
<1>2. /\ thread[w].pc \in Carrying /\ queue' = queue /\ JobOf(w).cancelled
  BY DEF CancelPage, Carrying, UsingJob
<1>3. j \in DOMAIN job /\ job[j].cancelled
  BY <1>1, <1>2, CarriesPending DEF JobOf
<1>4. JobsAlike
  BY CancelPageAlike
<1>5. TaskInv' /\ \E pc \in Carrying : \E waitsFor, failed : Moves(w, pc, waitsFor, failed)
  <2>1. {"cancelRemap", "unpin"} \subseteq Carrying
    BY DEF Carrying, UsingJob
  <2>2. QED  BY <2>1, CancelPageTasks
<1>6. /\ \A u \in Threads \ {w} : thread'[u] = thread[u]
      /\ \A k \in DOMAIN job : Pending(k)' = Pending(k)
  BY <1>2, <1>4, <1>5, PagesOfAlike, MovedPending
<1>7. thread'[w].job = j
  BY <1>1, <1>5 DEF Moves
<1>8. job'[j].cancelled
  BY <1>3, <1>4 DEF JobsAlike, Alike, AlikeBut
<1>9. \A v \in Workers \ {w} : thread'[v] = thread[v]
  BY <1>6, Constants
<1>10. QED  BY <1>1, <1>4, <1>6, <1>7, <1>8, <1>9, CancelledGiven

LEMMA AbandonGiven ==
  ASSUME TaskInv, GivenInv, NEW w \in Workers, AbandonPages(w)
  PROVE  GivenInv'
<1>1. PICK j : j = thread[w].job
  OBVIOUS
<1>2. JobsAlike /\ job'[j].cancelled = TRUE
  BY <1>1, AbandonAlike
<1>3. \A k \in DOMAIN job : k # j => Pending(k)' = Pending(k)
  BY <1>1, AbandonPagesTasks
<1>4. \A v \in Workers \ {w} : thread'[v] = thread[v]
  BY AbandonPagesTasks, Constants
<1>5. thread'[w].job = j
  <2>1. thread \in [Threads -> ThreadRecord] /\ w \in Threads
    BY Constants DEF TaskInv, Shape
  <2>2. thread' = [thread EXCEPT ![w].pc = "future", ![w].page = 1]
    BY DEF AbandonPages
  <2>3. PICK q \in ThreadRecord : q = thread[w]
    BY <2>1
  <2>4. thread'[w] = [q EXCEPT !.pc = "future", !.page = 1]
    BY <2>1, <2>2, <2>3
  <2>5. thread'[w].job = q.job
    BY <2>4 DEF ThreadRecord
  <2>6. QED  BY <1>1, <2>3, <2>5
<1>6. QED  BY <1>1, <1>2, <1>3, <1>4, <1>5, CancelledGiven

LEMMA ClientStepGiven ==
  ASSUME TaskInv, GivenInv, ClientStep
  PROVE  GivenInv'
<1>1. JobsAlike /\ PagesStay /\ \A w \in Workers : thread'[w] = thread[w]
  BY ClientStepTasks, ClientStepPages
<1>2. ASSUME NEW k \in DOMAIN job', k \in Listed', ~job'[k].cancelled
      PROVE  job'[k].given + Cardinality(Ungiven(k)') = Len(job'[k].pages)
  <2>1. k \in DOMAIN job /\ GivenAlike(k) /\ Pending(k)' = Pending(k)
    BY <1>1, <1>2, AlikeGiven DEF JobsAlike, PagesStay
  <2>2. \A v \in Workers : \A i : Forgets(v, k, i)' <=> Forgets(v, k, i)
    BY <1>1 DEF Forgets
  <2>3. Ungiven(k)' = Ungiven(k)
    BY <2>1, <2>2, UngivenStays
  <2>4. QED  BY <1>2, <2>1, <2>3, GivenStays
<1>3. QED  BY <1>2, GivenNext

\* A new job has all its pages to give, or was cancelled before it began.
LEMMA AddJobGiven ==
  ASSUME TaskInv, GivenInv, NEW t \in Clients, AddJob(t)
  PROVE  GivenInv'
<1>1. PICK j, s : j = Len(job) + 1 /\ s = thread[t].pages
  OBVIOUS
<1>2. /\ JobAdded(t, j)
      /\ \E r \in JobRecord, T \in Seq(Task) : AddsTasks(j, r, T) /\ JobOfCall(t, r, T)
  BY <1>1, AddJobTasks
<1>3. PICK r \in JobRecord, T \in Seq(Task) : AddsTasks(j, r, T) /\ JobOfCall(t, r, T)
  BY <1>2
<1>4. At(t, "enqueue")
  BY DEF AddJob
<1>5. \A w \in Workers : thread'[w] = thread[w]
  BY <1>2, <1>4, CallReturns
<1>6. /\ DOMAIN job' = DOMAIN job \cup {j} /\ j \notin DOMAIN job /\ job'[j] = r /\ Listed' = Listed \cup {j}
      /\ \A k \in DOMAIN job : job'[k] = job[k] /\ Pending(k)' = Pending(k)
  BY <1>3 DEF AddsTasks
<1>7. ASSUME NEW k \in DOMAIN job, k \in Listed', ~job'[k].cancelled
      PROVE  job'[k].given + Cardinality(Ungiven(k)') = Len(job'[k].pages)
  <2>1. GivenAlike(k) /\ Pending(k)' = Pending(k)
    BY <1>6, <1>7 DEF GivenAlike
  <2>2. \A v \in Workers : \A i : Forgets(v, k, i)' <=> Forgets(v, k, i)
    BY <1>5 DEF Forgets
  <2>3. Ungiven(k)' = Ungiven(k)
    BY <2>1, <2>2, UngivenStays
  <2>4. QED  BY <1>7, <2>1, <2>3, GivenStays
<1>8. ASSUME ~job'[j].cancelled
      PROVE  job'[j].given + Cardinality(Ungiven(j)') = Len(job'[j].pages)
  <2>1. ~thread[t].refused /\ r.given = 0
    BY <1>3, <1>6, <1>8 DEF JobOfCall
  <2>2. job'[j].pages = s /\ Pending(j)' = DOMAIN s
    BY <1>1, <2>1, AddJobPending
  <2>3. s \in Seq(Chunks) /\ DOMAIN s = 1 .. Len(s) /\ Len(s) \in Nat
    BY <1>1, ClientsCall
  <2>4. \A w \in Workers : \A i : ~Forgets(w, j, i)'
    <3>1. ASSUME NEW w \in Workers, thread[w].pc \in Forgetting PROVE thread[w].job # j
      <4>1. ~At(w, "idle")
        BY <3>1 DEF Forgetting
      <4>2. QED  BY <1>6, <4>1, WorkersPage
    <3>2. QED  BY <1>5, <3>1 DEF Forgets
  <2>5. Ungiven(j)' = 1 .. Len(s)
    <3>1. PICK U, D : U = Ungiven(j)' /\ D = 1 .. Len(s)
      OBVIOUS
    <3>2. ASSUME NEW i PROVE i \in U <=> i \in D
      <4>1. i \in Ungiven(j)' <=> i \in Pending(j)' /\ \A w \in Workers : ~Forgets(w, j, i)'
        BY DEF Ungiven
      <4>2. QED  BY <2>2, <2>3, <2>4, <3>1, <4>1
    <3>3. U = D
      BY <3>2
    <3>4. QED  BY <3>1, <3>3
  <2>6. Cardinality(1 .. Len(s)) = Len(s)
    <3>1. \A n \in Nat : Cardinality(1 .. n) = n
      BY FS_Interval
    <3>2. QED  BY <2>3, <3>1
  <2>7. 0 + Len(s) = Len(s)
    BY <2>3
  <2>8. QED  BY <1>6, <2>1, <2>2, <2>5, <2>6, <2>7
<1>9. QED  BY <1>6, <1>7, <1>8, GivenNext

LEMMA InitGiven == Init => GivenInv
BY DEF Init, GivenInv

LEMMA NextGiven ==
  ASSUME TaskInv, GivenInv, [Next]_vars
  PROVE  GivenInv'
<1>1. ASSUME NEW w \in Workers, Working(w) PROVE GivenInv'
  <2>1. Handling(w) \/ CancelPage(w) \/ UnPinPage(w) \/ AbandonPages(w)
    BY <1>1 DEF Working, Handling
  <2>2. QED  BY <2>1, HandlingGiven, ProcessPageGiven, CancelPageGiven, UnPinPageGiven, AbandonGiven
<1>2. ASSUME NEW t \in Clients,
             \/ \E r \in Requests[t] : RequestData(t, r)
             \/ \E j \in owned[t] : IsCompleted(t, j) \/ IsCanceled(t, j) \/ Cancel(t, j)
                                    \/ WaitForCompletion(t, j)
             \/ Adding(t) \/ Waiting(t)
      PROVE  GivenInv'
  BY <1>2, AddJobGiven, ClientStepGiven DEF Adding, Asking, ClientStep
<1>3. CASE OtherStep
  BY <1>3, ClientStepGiven DEF ClientStep
<1>4. QED  BY <1>1, <1>2, <1>3 DEF Next, OtherStep

-----------------------------------------------------------------------------
(* What the owner of a job is told.                                        *)

ToldTruly == \A j \in Jobs : result[j] # "completed in part"

\* A job in the list that is done and was not cancelled has given all its pages.
LEMMA TakenTruly ==
  ASSUME TaskInv, GivenInv, ToldTruly, NEW j \in Listed, TakeCompleted(j) \/ TakeCanceled(j)
  PROVE  ToldTruly'
<1>1. j \in DOMAIN job /\ j \in Jobs /\ job[j].done /\ result \in [Jobs -> Results]
  <2>1. j \in DOMAIN job /\ Shape
    BY DEF TaskInv, JobsListed
  <2>2. j \in Jobs
    BY <2>1, JobPlaces
  <2>3. job[j].done
    BY DEF TakeCompleted, TakeCanceled, MayComplete, IsDone
  <2>4. QED  BY <2>1, <2>2, <2>3 DEF Shape
<1>2. PICK r : result' = [result EXCEPT ![j] = r] /\ r # "completed in part"
  <2>1. CASE TakeCanceled(j)
    <3>1. PICK q : q \in {"canceled", "canceled with error"} /\ result' = [result EXCEPT ![j] = q]
      BY <2>1 DEF TakeCanceled
    <3>2. q # "completed in part"
      BY <3>1
    <3>3. QED  BY <3>1, <3>2
  <2>2. CASE TakeCompleted(j)
    <3>1. ~job[j].cancelled
      BY <2>2 DEF TakeCompleted, MayComplete
    <3>2. job[j].given + Cardinality(Ungiven(j)) = Len(job[j].pages)
      BY <1>1, <3>1 DEF GivenInv, AllGiven
    <3>3. Ungiven(j) = {}
      <4>1. Pending(j) = {}
        BY <1>1 DEF TaskInv, Counts
      <4>2. QED  BY <4>1 DEF Ungiven
    <3>4. Cardinality(Ungiven(j)) = 0
      BY <3>3, FS_EmptySet
    <3>5. job[j].given \in Nat
      <4>1. job[j] \in JobRecord
        BY <1>1, JobPlaces DEF TaskInv
      <4>2. QED  BY <4>1 DEF JobRecord
    <3>6. job[j].given = Len(job[j].pages)
      <4>1. PICK g \in Nat : g = job[j].given
        BY <3>5
      <4>2. g + 0 = Len(job[j].pages)
        BY <3>2, <3>4, <4>1
      <4>3. g + 0 = g
        OBVIOUS
      <4>4. QED  BY <4>1, <4>2, <4>3
    <3>7. PICK q : q = IF job[j].given = Len(job[j].pages) THEN "completed" ELSE "completed in part"
      OBVIOUS
    <3>8. result' = [result EXCEPT ![j] = q]
      BY <2>2, <3>7 DEF TakeCompleted
    <3>9. q # "completed in part"
      BY <3>6, <3>7
    <3>10. QED  BY <3>8, <3>9
  <2>3. QED  BY <2>1, <2>2
<1>3. QED  BY <1>1, <1>2 DEF ToldTruly

LEMMA NextTruly ==
  ASSUME TaskInv, OwnInv, GivenInv, ToldTruly, [Next]_vars
  PROVE  ToldTruly'
<1>1. ASSUME UNCHANGED result PROVE ToldTruly'
  BY <1>1 DEF ToldTruly
<1>2. ASSUME NEW w \in Workers, Working(w) PROVE ToldTruly'
  <2>1. CASE RemapCanceled(w) \/ RemapReturns(w)
    <3>1. PICK j : j = thread[w].waitsFor
      OBVIOUS
    <3>2. j \in Listed
      BY <2>1, <3>1 DEF RemapCanceled, RemapReturns, WaitsAt, OwnInv, Waiters
    <3>3. TakeCompleted(j) \/ TakeCanceled(j)
      BY <2>1, <3>1 DEF RemapCanceled, RemapReturns
    <3>4. QED  BY <3>2, <3>3, TakenTruly
  <2>2. CASE ~(RemapCanceled(w) \/ RemapReturns(w))
    BY <1>1, <1>2, <2>2
       DEF Working, TakeTask, FindError, CancelPage, CancelRemap, StartPage, AwaitReader, ProcessPage,
           UnPinPage, MarkJobAsDone, NextPage, AbandonPages, FinishTask, Sleep, history
  <2>3. QED  BY <2>1, <2>2
<1>3. ASSUME NEW t \in Clients, NEW j \in owned[t],
             IsCompleted(t, j) \/ IsCanceled(t, j) \/ (WaitReturns(t) /\ j = thread[t].waitsFor)
      PROVE  ToldTruly'
  <2>1. j \in Listed
    BY <1>3 DEF OwnInv, Owners
  <2>2. TakeCompleted(j) \/ TakeCanceled(j) \/ UNCHANGED result
    BY <1>3 DEF IsCompleted, IsCanceled, WaitReturns
  <2>3. QED  BY <1>1, <2>1, <2>2, TakenTruly
<1>4. ASSUME NEW t \in Clients, WaitReturns(t) PROVE ToldTruly'
  <2>1. thread[t].waitsFor \in owned[t]
    BY <1>4 DEF WaitReturns, OwnInv, Owners
  <2>2. QED  BY <1>3, <1>4, <2>1
<1>5. ASSUME NEW t \in Clients,
             \/ \E r \in Requests[t] : RequestData(t, r)
             \/ \E j \in owned[t] : Cancel(t, j) \/ WaitForCompletion(t, j)
             \/ Adding(t) \/ Sleep(t)
      PROVE  UNCHANGED result
  BY <1>5 DEF RequestData, Cancel, WaitForCompletion, Sleep, Adding, FindAccessor, EnsureMaxPages,
              PrepareReadPage, PrepareRefused, AddRemapJob, AddJob, history
<1>6. CASE OtherStep
  BY <1>1, <1>6 DEF OtherStep, CleanUp, Close, CloseNext, vars, history
<1>7. QED  BY <1>1, <1>2, <1>3, <1>4, <1>5, <1>6 DEF Next, OtherStep, Waiting

\* A request that is reported as completed had all its pages read and given to its
\* processor: a page that could not be read, and one that was given up, leave their
\* job cancelled before they are counted, and what is neither is given once.
THEOREM CompletedIsRead == Spec => []CompletedMeansRead
<1>1. Init => GivenInv /\ ToldTruly
  <2>1. Init => ToldTruly
    BY DEF Init, ToldTruly
  <2>2. QED  BY <2>1, InitGiven
<1>2. TaskInv /\ OwnInv /\ GivenInv /\ ToldTruly /\ [Next]_vars => GivenInv' /\ ToldTruly'
  BY NextGiven, NextTruly
<1>3. TaskInv /\ ToldTruly => CompletedMeansRead
  BY JobPlaces DEF TaskInv, ToldTruly, CompletedMeansRead
<1>4. QED  BY <1>1, <1>2, <1>3, TaskInvariance, JobsHaveOwners, PTL DEF Spec
=============================================================================
