------------------------- MODULE CurlTransfersProofs -------------------------
(* Proofs about the transfers of the curl IO manager, for any requests and   *)
(* any number of retries.  That a handle is in the multi handle exactly while*)
(* its handler is processed needs that a request is added only once, and that*)
(* none is reported twice, that what is done has left the loop: IInv says so *)
(* of all queues.                                                            *)
EXTENDS CurlTransfers, TLAPS

\* The loop has the request, or will find it in the queue.
InLoop(r) == r \in processing \/ r \in queued[AddQueue(r)]

\* A request is only in the queues of its kind.
QueuesByKind ==
  \A r \in Requests, q \in Queues : r \in queued[q] => q \in {AddQueue(r), CancelQueue(r)}

\* The loop knows nothing of a request that was not added yet.
NewIsUnknown ==
  \A r \in Requests :
    client[r] = "new" => ~InLoop(r) /\ r \notin queued[CancelQueue(r)] /\ ~done[r]

\* A request that is done has left the loop, or its callback runs.
DoneIsOut == \A r \in Requests : done[r] => running = r \/ ~InLoop(r)

\* What was reported is done.
ReportedIsDone == \A r \in Requests : reported[r] # 0 => done[r]

\* The callback that runs is that of a request in the loop.
RunningIsIn == running # NoRequest => running \in processing

IInv ==
  /\ HandlesExact
  /\ QueuesByKind
  /\ NewIsUnknown
  /\ DoneIsOut
  /\ ReportedIsDone
  /\ RunningIsIn

USE KindsDiffer, RetryCountNat, OutcomesKnown

\* The queues and kinds of a request.
LEMMA QueueNames ==
  ASSUME NEW r \in Requests
  PROVE  /\ AddQueue(r) \in {"addDownload", "addUpload"}
         /\ CancelQueue(r) \in {"cancelDownload", "cancelUpload"}
         /\ {AddQueue(r), CancelQueue(r)} \subseteq Queues
         /\ AddQueue(r) = "addDownload" <=> CancelQueue(r) = "cancelDownload"
BY DEF AddQueue, CancelQueue, Queues

\* No request is known to the event loop at first.
LEMMA InvInit == Init => IInv
<1> SUFFICES ASSUME Init PROVE IInv
  OBVIOUS
<1>1. TypeOK
  BY DEF Init, TypeOK
<1>2. HandlesExact
  BY <1>1 DEF Init, HandlesExact
<1>3. QueuesByKind /\ NewIsUnknown /\ DoneIsOut /\ ReportedIsDone /\ RunningIsIn
  BY QueueNames DEF Init, QueuesByKind, NewIsUnknown, DoneIsOut, ReportedIsDone,
       RunningIsIn, InLoop
<1>4. QED  BY <1>2, <1>3 DEF IInv

\* A new request enters the queue of those to be added; none of its kind can be
\* in the loop already.
LEMMA InvAddRequest ==
  ASSUME IInv, NEW r \in Requests, AddRequest(r)
  PROVE  IInv'
<1> USE DEF AddRequest, Enqueue, shared, state, transfer
<1>1. TypeOK
  BY DEF IInv, HandlesExact
<1>2. TypeOK'
  <2>1. queued' \in [Queues -> SUBSET Requests] /\ signalled' \subseteq Queues
    BY <1>1, QueueNames DEF TypeOK
  <2>2. QED  BY <1>1, <2>1 DEF TypeOK
<1>3. HandlesExact'
  BY <1>2 DEF HandlesExact, IInv, NewIsUnknown, InLoop
<1>4. QueuesByKind'
  BY DEF QueuesByKind, IInv
<1>5. NewIsUnknown'
  BY <1>1 DEF NewIsUnknown, InLoop, IInv, TypeOK
<1>6. DoneIsOut'
  BY DEF DoneIsOut, NewIsUnknown, InLoop, IInv
<1>7. ReportedIsDone'
  BY DEF ReportedIsDone, IInv
<1>8. RunningIsIn'
  BY DEF RunningIsIn, IInv
<1>9. QED  BY <1>3, <1>4, <1>5, <1>6, <1>7, <1>8 DEF IInv

\* Cancel only enters a queue.
LEMMA InvCancel ==
  ASSUME IInv, NEW r \in Requests, Cancel(r)
  PROVE  IInv'
<1> USE DEF Cancel, Enqueue, shared, state, transfer
<1>1. TypeOK
  BY DEF IInv, HandlesExact
<1>2. TypeOK'
  <2>1. queued' \in [Queues -> SUBSET Requests] /\ signalled' \subseteq Queues
    BY <1>1, QueueNames DEF TypeOK
  <2>2. QED  BY <1>1, <2>1 DEF TypeOK
<1>3. HandlesExact'
  BY <1>2, QueueNames DEF HandlesExact, IInv
<1>4. QueuesByKind'
  BY DEF QueuesByKind, IInv
<1>5. NewIsUnknown'
  BY DEF NewIsUnknown, InLoop, IInv
<1>6. DoneIsOut'
  BY QueueNames DEF DoneIsOut, InLoop, IInv
<1>7. ReportedIsDone'
  BY DEF ReportedIsDone, IInv
<1>8. RunningIsIn'
  BY DEF RunningIsIn, IInv
<1>9. QED  BY <1>3, <1>4, <1>5, <1>6, <1>7, <1>8 DEF IInv

\* What the owner does alone changes nothing the loop knows.
LEMMA InvOwner ==
  ASSUME IInv, NEW r \in Requests, WaitForFinish(r) \/ WaitEnds(r) \/ Release(r)
  PROVE  IInv'
<1> USE DEF WaitForFinish, WaitEnds, Release, shared, state, transfer
<1>1. TypeOK
  BY DEF IInv, HandlesExact
<1>2. TypeOK'
  BY <1>1 DEF TypeOK
<1>3. HandlesExact'
  BY <1>2 DEF HandlesExact, IInv
<1>4. QueuesByKind'
  BY DEF QueuesByKind, IInv
<1>5. NewIsUnknown'
  BY <1>1 DEF NewIsUnknown, InLoop, IInv, TypeOK
<1>6. DoneIsOut'
  BY DEF DoneIsOut, InLoop, IInv
<1>7. ReportedIsDone'
  BY DEF ReportedIsDone, IInv
<1>8. RunningIsIn'
  BY DEF RunningIsIn, IInv
<1>9. QED  BY <1>3, <1>4, <1>5, <1>6, <1>7, <1>8 DEF IInv

\* The requests of a queue of additions get their handles.
LEMMA InvTakeIncoming ==
  ASSUME IInv, NEW q \in {"addDownload", "addUpload"}, TakeIncoming(q)
  PROVE  IInv'
<1> USE DEF TakeIncoming, LoopFree, shared, state, transfer
<1>1. TypeOK
  BY DEF IInv, HandlesExact
<1>2. TypeOK'
  BY <1>1 DEF TypeOK
<1>3. HandlesExact'
  BY QueueNames DEF HandlesExact, IInv, QueuesByKind, TypeOK, Queues
<1>4. QueuesByKind'
  BY DEF QueuesByKind, IInv
<1>5. NewIsUnknown'
  BY <1>1 DEF NewIsUnknown, QueuesByKind, InLoop, IInv, TypeOK
<1>6. DoneIsOut'
  BY <1>1, QueueNames DEF DoneIsOut, InLoop, IInv, QueuesByKind, TypeOK
<1>7. ReportedIsDone'
  BY DEF ReportedIsDone, IInv
<1>8. RunningIsIn'
  BY DEF RunningIsIn
<1>9. QED  BY <1>3, <1>4, <1>5, <1>6, <1>7, <1>8 DEF IInv

\* Cancelled requests leave the loop, whichever signal came first.
LEMMA InvTakeCancelled ==
  ASSUME IInv, NEW q, NEW add, TakeCancelled(q, add),
         \/ q = "cancelDownload" /\ add = "addDownload"
         \/ q = "cancelUpload" /\ add = "addUpload"
  PROVE  IInv'
<1> USE DEF TakeCancelled, LoopFree, TakeOut, Told, shared, state, transfer
<1>1. TypeOK
  BY DEF IInv, HandlesExact
<1>2. TypeOK'
  <2>1. queued' \in [Queues -> SUBSET Requests] /\ signalled' \subseteq Queues
    BY <1>1 DEF TypeOK
  <2>2. processing' \subseteq Requests /\ easy' \in [Requests -> {"null", "multi", "freed"}]
    BY <1>1 DEF TypeOK
  <2>3. message' \in [Requests -> Outcomes \cup {"none"}]
    BY <1>1 DEF TypeOK
  <2>4. done' \in [Requests -> BOOLEAN] /\ cancelled' \in [Requests -> BOOLEAN]
    BY <1>1 DEF TypeOK
  <2>5. QED  BY SMTT(30), <1>1, <2>1, <2>2, <2>3, <2>4 DEF TypeOK
<1>3. HandlesExact'
  BY DEF HandlesExact, IInv, TypeOK, Queues
<1>4. QueuesByKind'
  BY <1>1 DEF QueuesByKind, IInv, TypeOK
<1>5. NewIsUnknown'
  BY <1>1, QueueNames DEF NewIsUnknown, QueuesByKind, InLoop, IInv, TypeOK
<1>6. DoneIsOut'
  BY <1>1, QueueNames DEF DoneIsOut, InLoop, IInv, QueuesByKind, TypeOK
<1>7. ReportedIsDone'
  BY DEF ReportedIsDone, IInv
<1>8. RunningIsIn'
  BY DEF RunningIsIn
<1>9. QED  BY <1>3, <1>4, <1>5, <1>6, <1>7, <1>8 DEF IInv

\* The callbacks of curl and its message concern a handle of the multi handle.
LEMMA InvCurl ==
  ASSUME IInv, NEW r \in Requests,
         \/ HandleWriteData(r) \/ HandleReadRequest(r)
         \/ \E ending \in Outcomes : AttemptEnds(r, ending)
  PROVE  IInv'
<1> USE DEF HandleWriteData, HandleReadRequest, AttemptEnds, Active, LoopFree, Attempt,
       shared, state, transfer
<1>1. TypeOK
  BY DEF IInv, HandlesExact
<1>2. TypeOK'
  <2>1. received' \in [Requests -> SUBSET (0..RetryCount)]
    BY <1>1 DEF TypeOK
  <2>2. message' \in [Requests -> Outcomes \cup {"none"}]
    BY <1>1 DEF TypeOK
  <2>3. consumed' \in [Requests -> BOOLEAN] /\ sent' \in [Requests -> BOOLEAN]
    BY <1>1 DEF TypeOK
  <2>4. QED  BY <1>1, <2>1, <2>2, <2>3 DEF TypeOK
<1>3. HandlesExact'
  BY <1>2 DEF HandlesExact, IInv, TypeOK
<1>4. QueuesByKind'
  BY DEF QueuesByKind, IInv
<1>5. NewIsUnknown'
  BY DEF NewIsUnknown, InLoop, IInv
<1>6. DoneIsOut'
  BY DEF DoneIsOut, InLoop, IInv
<1>7. ReportedIsDone'
  BY DEF ReportedIsDone, IInv
<1>8. RunningIsIn'
  BY DEF RunningIsIn
<1>9. QED  BY <1>3, <1>4, <1>5, <1>6, <1>7, <1>8 DEF IInv

\* A retry keeps the handler and replaces its handle.
LEMMA InvRetry ==
  ASSUME IInv, NEW r \in Requests, Retry(r)
  PROVE  IInv'
<1> USE DEF Retry, LoopFree, ShouldRetry, shared, state, transfer
<1>1. TypeOK
  BY DEF IInv, HandlesExact
<1>2. TypeOK'
  BY <1>1 DEF TypeOK
<1>3. HandlesExact'
  BY <1>2 DEF HandlesExact, IInv
<1>4. QueuesByKind'
  BY DEF QueuesByKind, IInv
<1>5. NewIsUnknown'
  BY DEF NewIsUnknown, InLoop, IInv
<1>6. DoneIsOut'
  BY DEF DoneIsOut, InLoop, IInv
<1>7. ReportedIsDone'
  BY DEF ReportedIsDone, IInv
<1>8. RunningIsIn'
  BY DEF RunningIsIn
<1>9. QED  BY <1>3, <1>4, <1>5, <1>6, <1>7, <1>8 DEF IInv

\* What is reported is in the loop, so it was not done before.
LEMMA InvHandleDone ==
  ASSUME IInv, NEW r \in Requests, HandleDone(r)
  PROVE  IInv'
<1>1. TypeOK
  BY DEF IInv, HandlesExact
<1>2. /\ running = NoRequest /\ message[r] # "none"
      /\ done' = [done EXCEPT ![r] = TRUE]
      /\ error' = [error EXCEPT ![r] = ErrorOf(r)]
      /\ reported' = [reported EXCEPT ![r] = @ + 1]
      /\ running' = r
      /\ UNCHANGED <<client, cancelRequested, queued, signalled, cancelled, processing,
                     easy, retries, message, received, consumed, sent>>
  BY DEF HandleDone, LoopFree, shared, transfer
<1>3. delivered' \in [Requests -> SUBSET (0..RetryCount)]
  <2>1. PICK code \in ResponseCodes(r) :
          delivered' = [delivered EXCEPT ![r] =
            IF r \in Downloads /\ code = "below 300" THEN @ \cup received[r] ELSE @]
    BY DEF HandleDone
  <2>2. delivered[r] \cup received[r] \in SUBSET (0..RetryCount)
    BY <1>1 DEF TypeOK
  <2>3. QED  BY <1>1, <2>1, <2>2 DEF TypeOK
<1>4. HandlesExact'
  <2>1. reported[r] = 0
    BY <1>1, <1>2 DEF TypeOK, IInv, ReportedIsDone, DoneIsOut, InLoop, HandlesExact
  <2>2. reported' \in [Requests -> 0..1]
    BY <1>1, <1>2, <2>1 DEF TypeOK
  <2>3. done' \in [Requests -> BOOLEAN] /\ error' \in [Requests -> BOOLEAN]
    BY <1>1, <1>2 DEF TypeOK, ErrorOf, ShouldRetry
  <2>4. TypeOK'
    BY <1>1, <1>2, <1>3, <2>2, <2>3 DEF TypeOK
  <2>5. QED  BY <1>2, <2>4 DEF HandlesExact, IInv
<1>5. QueuesByKind'
  BY <1>2 DEF QueuesByKind, IInv
<1>6. NewIsUnknown'
  BY <1>1, <1>2 DEF NewIsUnknown, InLoop, IInv, HandlesExact, TypeOK
<1>7. DoneIsOut'
  BY <1>1, <1>2 DEF DoneIsOut, InLoop, IInv, TypeOK
<1>8. ReportedIsDone'
  BY <1>1, <1>2 DEF ReportedIsDone, IInv, TypeOK
<1>9. RunningIsIn'
  BY <1>2 DEF RunningIsIn, IInv, HandlesExact
<1>10. QED  BY <1>4, <1>5, <1>6, <1>7, <1>8, <1>9 DEF IInv

\* A handler without a request is forgotten.
LEMMA InvDropDone ==
  ASSUME IInv, NEW r \in Requests, DropDone(r)
  PROVE  IInv'
<1> USE DEF DropDone, Forget, LoopFree, shared, state, transfer
<1>1. TypeOK
  BY DEF IInv, HandlesExact
<1>2. TypeOK'
  BY <1>1 DEF TypeOK
<1>3. HandlesExact'
  BY DEF HandlesExact, IInv, TypeOK
<1>4. QueuesByKind'
  BY DEF QueuesByKind, IInv
<1>5. NewIsUnknown'
  BY DEF NewIsUnknown, InLoop, IInv
<1>6. DoneIsOut'
  BY DEF DoneIsOut, InLoop, IInv
<1>7. ReportedIsDone'
  BY DEF ReportedIsDone, IInv
<1>8. RunningIsIn'
  BY DEF RunningIsIn
<1>9. QED  BY <1>3, <1>4, <1>5, <1>6, <1>7, <1>8 DEF IInv

\* The handler is forgotten after its callback.
LEMMA InvCallbackReturns ==
  ASSUME IInv, NEW r \in Requests, CallbackReturns(r)
  PROVE  IInv'
<1> USE DEF CallbackReturns, Forget, shared, state, transfer
<1>1. TypeOK
  BY DEF IInv, HandlesExact
<1>2. TypeOK'
  BY <1>1 DEF TypeOK
<1>3. HandlesExact'
  BY DEF HandlesExact, IInv, TypeOK
<1>4. QueuesByKind'
  BY DEF QueuesByKind, IInv
<1>5. NewIsUnknown'
  BY DEF NewIsUnknown, InLoop, IInv
<1>6. DoneIsOut'
  BY QueueNames DEF DoneIsOut, RunningIsIn, InLoop, IInv, HandlesExact
<1>7. ReportedIsDone'
  BY DEF ReportedIsDone, IInv
<1>8. RunningIsIn'
  BY DEF RunningIsIn
<1>9. QED  BY <1>3, <1>4, <1>5, <1>6, <1>7, <1>8 DEF IInv

\* Every step keeps the invariant.
LEMMA InvStep == IInv /\ [Next]_vars => IInv'
<1> SUFFICES ASSUME IInv, [Next]_vars PROVE IInv'
  OBVIOUS
<1>1. CASE LoopStep
  BY <1>1, InvTakeIncoming, InvTakeCancelled, InvRetry, InvHandleDone, InvDropDone,
       InvCallbackReturns DEF LoopStep
<1>2. CASE CurlStep
  BY <1>2, InvCurl DEF CurlStep
<1>3. CASE ClientStep
  BY <1>3, InvAddRequest, InvCancel, InvOwner DEF ClientStep
<1>4. CASE UNCHANGED vars
  BY <1>4 DEF vars, shared, state, transfer, IInv, HandlesExact, TypeOK, QueuesByKind,
       NewIsUnknown, DoneIsOut, ReportedIsDone, RunningIsIn, InLoop
<1>5. QED  BY <1>1, <1>2, <1>3, <1>4 DEF Next

\* The inductive invariant, for every behaviour of the transfers.
THEOREM Invariance == Spec => []IInv
BY InvInit, InvStep, PTL DEF Spec

\* HandlesExact for any requests, retries and outcomes: curl never calls back
\* into a handler that was forgotten, and no handle is leaked in the multi handle.
THEOREM ExactHandles == Spec => []HandlesExact
<1>1. IInv => HandlesExact
  BY DEF IInv
<1>2. QED  BY <1>1, Invariance, PTL

\* What a step does to what a request reported.
Reports ==
  \A r \in Requests :
    /\ done[r] => reported'[r] = reported[r] /\ error'[r] = error[r]
    /\ reported'[r] # reported[r] => (error'[r] <=> message[r] # "success")

\* A step reports what is in the loop, which is not done, with the error of its
\* last message.
LEMMA ReportsStep ==
  ASSUME "certificate" \notin Outcomes, IInv, [Next]_vars
  PROVE  Reports
<1>1. CASE \E r \in Requests : HandleDone(r)
  <2>1. PICK r \in Requests : HandleDone(r)
    BY <1>1
  <2>2. ~done[r]
    <3>1. running = NoRequest /\ message[r] # "none"
      BY <2>1 DEF HandleDone, LoopFree
    <3>2. QED  BY <3>1 DEF IInv, HandlesExact, TypeOK, DoneIsOut, InLoop
  <2>3. message[r] \in {"success", "transient", "refused"}
    <3>1. message[r] \in Outcomes \cup {"none"}
      BY DEF IInv, HandlesExact, TypeOK
    <3>2. message[r] # "none"
      BY <2>1 DEF HandleDone
    <3>3. QED  BY <3>1, <3>2, OutcomesKnown DEF Endings
  <2>4. reported' = [reported EXCEPT ![r] = @ + 1] /\ error' = [error EXCEPT ![r] = ErrorOf(r)]
    BY <2>1 DEF HandleDone
  <2>5. ErrorOf(r) <=> message[r] # "success"
    BY <2>3 DEF ErrorOf
  <2>6. QED  BY <2>2, <2>4, <2>5 DEF Reports, IInv, HandlesExact, TypeOK
<1>2. CASE ~\E r \in Requests : HandleDone(r)
  <2>1. UNCHANGED <<reported, error>>
    BY <1>2 DEF Next, LoopStep, CurlStep, ClientStep, vars, state, TakeIncoming,
         TakeCancelled, Retry, DropDone, CallbackReturns, HandleWriteData,
         HandleReadRequest, AttemptEnds, AddRequest, Cancel, WaitForFinish, WaitEnds,
         Release
  <2>2. QED  BY <2>1 DEF Reports
<1>3. QED  BY <1>1, <1>2

\* ReportedOnce for any requests and retries, as long as no attempt ends with an
\* error of the certificate: a request is reported at most once, and with an
\* error exactly if its last attempt failed.
THEOREM ReportsOnce == "certificate" \notin Outcomes => (Spec => ReportedOnce)
<1> SUFFICES ASSUME "certificate" \notin Outcomes PROVE Spec => ReportedOnce
  OBVIOUS
<1>1. IInv /\ [Next]_vars => [Reports]_vars
  BY ReportsStep
<1>2. QED  BY <1>1, Invariance, PTL DEF Spec, ReportedOnce, Reports
=============================================================================
