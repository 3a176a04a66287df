---------------------------- MODULE CurlTransfers ----------------------------
(* The transfers of IOManagerCurl: client threads hand requests and          *)
(* cancellations to one event loop over queues and coalesced uv_async        *)
(* signals; the loop gives each request an easy handle of the multi handle   *)
(* of curl, retries what may succeed on another attempt, and reports the     *)
(* result with the mutex of the request held.  The loop is one thread: while *)
(* a completion callback runs, nothing else of it does.                      *)
EXTENDS Integers, FiniteSets, Sequences

CONSTANTS
  Downloads, Uploads,   \* the requests, by kind
  RetryCount,           \* retry_count of a new handler
  Outcomes,             \* how an attempt can end: a subset of Endings
  WaitsFor              \* [Requests -> Requests \cup {NoRequest}]: the request
                        \* that the completion callback waits for
CONSTANT NoRequest

Requests == Downloads \cup Uploads
Queues == {"addDownload", "cancelDownload", "addUpload", "cancelUpload"}

\* An HTTP code of success; a code of the server that may pass, or an error of
\* curl; an HTTP code that will not; a certificate that is not accepted.
Endings == {"success", "transient", "refused", "certificate"}

ASSUME KindsDiffer == Downloads \cap Uploads = {} /\ NoRequest \notin Requests
ASSUME RetryCountNat == RetryCount \in Nat
ASSUME OutcomesKnown == Outcomes \subseteq Endings
ASSUME WaitsForType == WaitsFor \in [Requests -> Requests \cup {NoRequest}]

VARIABLES
  client,           \* what the owner of a request does with it
  cancelRequested,  \* m_cancelledRequested
  done, cancelled, error,   \* m_done, m_cancelled, m_error of a request
  queued,           \* the four vectors of UVEventLoopData, by queue
  signalled,        \* the queues whose uv_async_t was sent and has not run
  processing,       \* processingRequests
  easy,             \* curlEasy: null, in the multi handle, or cleaned up
  retries,          \* retry_count
  message,          \* the CURLMSG_DONE of curl that was not read yet
  received,         \* the attempts whose bytes are in responseData
  consumed, sent,   \* bufferIndex is at the end; this attempt sent the body
  delivered,        \* the attempts whose bytes HandleData was given
  reported,         \* how often Completed or m_completedCallback was called
  running           \* the request whose callback the loop is in

shared == <<cancelRequested, queued, signalled>>
state == <<done, cancelled, error>>
transfer == <<easy, retries, message, received, consumed, sent>>
vars == <<client, shared, state, processing, transfer, delivered, reported, running>>

Attempt(r) == RetryCount - retries[r]
LoopFree == running = NoRequest
AddQueue(r) == IF r \in Downloads THEN "addDownload" ELSE "addUpload"
CancelQueue(r) == IF r \in Downloads THEN "cancelDownload" ELSE "cancelUpload"

Init ==
  /\ client = [r \in Requests |-> "new"]
  /\ cancelRequested = [r \in Requests |-> FALSE]
  /\ done = [r \in Requests |-> FALSE]
  /\ cancelled = [r \in Requests |-> FALSE]
  /\ error = [r \in Requests |-> FALSE]
  /\ queued = [q \in Queues |-> {}]
  /\ signalled = {}
  /\ processing = {}
  /\ easy = [r \in Requests |-> "null"]
  /\ retries = [r \in Requests |-> RetryCount]
  /\ message = [r \in Requests |-> "none"]
  /\ received = [r \in Requests |-> {}]
  /\ consumed = [r \in Requests |-> FALSE]
  /\ sent = [r \in Requests |-> FALSE]
  /\ delivered = [r \in Requests |-> {}]
  /\ reported = [r \in Requests |-> 0]
  /\ running = NoRequest

-----------------------------------------------------------------------------
(* The client threads.                                                       *)

\* push_back and uv_async_send with the mutex of the loop held.
Enqueue(q, r) ==
  /\ queued' = [queued EXCEPT ![q] = @ \cup {r}]
  /\ signalled' = signalled \cup {q}

AddRequest(r) ==
  /\ client[r] = "new"
  /\ client' = [client EXCEPT ![r] = "held"]
  /\ Enqueue(AddQueue(r), r)
  /\ UNCHANGED <<cancelRequested, state, processing, transfer, delivered, reported, running>>

\* A request is cancelled once, by its owner or by a thread that has the owner
\* wait for it; it may be done already.
Cancel(r) ==
  /\ client[r] \in {"held", "waiting"}
  /\ ~cancelRequested[r]
  /\ cancelRequested' = [cancelRequested EXCEPT ![r] = TRUE]
  /\ Enqueue(CancelQueue(r), r)
  /\ UNCHANGED <<client, state, processing, transfer, delivered, reported, running>>

WaitForFinish(r) ==
  /\ client[r] = "held"
  /\ client' = [client EXCEPT ![r] = "waiting"]
  /\ UNCHANGED <<shared, state, processing, transfer, delivered, reported, running>>

\* The wait needs the mutex of the request, which a callback that runs holds.
WaitEnds(r) ==
  /\ client[r] = "waiting"
  /\ done[r] /\ running # r
  /\ client' = [client EXCEPT ![r] = "held"]
  /\ UNCHANGED <<shared, state, processing, transfer, delivered, reported, running>>

\* The owner drops the last reference: the weak_ptr of the handler expires.
Release(r) ==
  /\ client[r] = "held"
  /\ client' = [client EXCEPT ![r] = "gone"]
  /\ UNCHANGED <<shared, state, processing, transfer, delivered, reported, running>>

-----------------------------------------------------------------------------
(* The event loop: the callbacks of its signals.                             *)

\* addDownloadCB and addUploadCB: every request that has arrived gets an easy
\* handle and joins the multi handle.
TakeIncoming(q) ==
  /\ LoopFree /\ q \in signalled
  /\ signalled' = signalled \ {q}
  /\ queued' = [queued EXCEPT ![q] = {}]
  /\ processing' = processing \cup queued[q]
  /\ easy' = [r \in Requests |-> IF r \in queued[q] THEN "multi" ELSE easy[r]]
  /\ UNCHANGED <<client, cancelRequested, state, retries, message, received, consumed,
                 sent, delivered, reported, running>>

\* Mutant: a cancelled request stays among those to be added.
TakeOutKeepsIncoming(q, add) == queued' = [queued EXCEPT ![q] = {}]

\* The cancelled requests of a queue leave the queue of those to be added too.
TakeOut(q, add) == queued' = [queued EXCEPT ![q] = {}, ![add] = @ \ queued[q]]

\* Mutant: only the waiters of transfers under way are told.
ToldWhileProcessing(gone) == {r \in gone \cap processing : client[r] # "gone"}

\* The requests of cancelled handlers that still exist.
Told(gone) == {r \in gone : client[r] # "gone"}

\* cancelledDownloadCB and cancelledUploadCB: a cancelled request leaves the
\* queue and the multi handle, and is done without a call of its handler.
TakeCancelled(q, add) ==
  LET gone == queued[q] IN
  /\ LoopFree /\ q \in signalled
  /\ signalled' = signalled \ {q}
  /\ TakeOut(q, add)
  /\ processing' = processing \ gone
  /\ easy' = [r \in Requests |-> IF r \in gone /\ easy[r] # "null" THEN "freed" ELSE easy[r]]
  /\ message' = [r \in Requests |-> IF r \in gone THEN "none" ELSE message[r]]
  /\ done' = [r \in Requests |-> done[r] \/ r \in Told(gone)]
  /\ cancelled' = [r \in Requests |-> cancelled[r] \/ r \in Told(gone)]
  /\ UNCHANGED <<client, cancelRequested, error, retries, received, consumed, sent,
                 delivered, reported, running>>

-----------------------------------------------------------------------------
(* curl, which runs in the loop too: the callbacks it makes for a handle of  *)
(* the multi handle, and the message with which an attempt ends.             *)

Active(r) == LoopFree /\ easy[r] = "multi" /\ message[r] = "none"

\* handleWriteData appends to responseData.
HandleWriteData(r) ==
  /\ Active(r)
  /\ received' = [received EXCEPT ![r] = @ \cup {Attempt(r)}]
  /\ received' # received
  /\ UNCHANGED <<client, shared, state, processing, easy, retries, message, consumed, sent,
                 delivered, reported, running>>

\* handleReadRequest copies the next buffer, as long as there is one.
HandleReadRequest(r) ==
  /\ Active(r) /\ r \in Uploads
  /\ ~consumed[r]
  /\ consumed' = [consumed EXCEPT ![r] = TRUE]
  /\ sent' = [sent EXCEPT ![r] = TRUE]
  /\ UNCHANGED <<client, shared, state, processing, easy, retries, message, received,
                 delivered, reported, running>>

\* An upload succeeds only if its body was sent; a download that succeeds has
\* brought its bytes.  An attempt that fails may have brought some: of the
\* object, or of the body that the server sends with the code of an error.
AttemptEnds(r, ending) ==
  /\ Active(r)
  /\ ending = "success" => (IF r \in Uploads THEN sent[r] ELSE Attempt(r) \in received[r])
  /\ message' = [message EXCEPT ![r] = ending]
  /\ UNCHANGED <<client, shared, state, processing, easy, retries, received, consumed, sent,
                 delivered, reported, running>>

-----------------------------------------------------------------------------
(* beforeBlockCB: the messages of curl.                                      *)

\* Mutant: one attempt too many.
ShouldRetryOnceMore(r) == retries[r] >= 0

ShouldRetry(r) == retries[r] > 0

\* The code and the error as the switch of beforeBlockCB leaves them: an error
\* of the certificate is not retried, and is none while retries are left.
ErrorOf(r) ==
  \/ message[r] \in {"transient", "refused"}
  \/ message[r] = "certificate" /\ ~ShouldRetry(r)

\* What HandleData goes by.  An error of curl leaves the code 0, so that what has
\* arrived is given to the handler together with the error.
ResponseCodes(r) ==
  CASE message[r] = "refused"   -> {"an error"}
    [] message[r] = "transient" -> {"an error", "below 300"}
    [] OTHER                    -> {"below 300"}

\* retry: the handle is replaced by a duplicate.
Retry(r) ==
  /\ LoopFree /\ message[r] = "transient" /\ ShouldRetry(r)
  /\ retries' = [retries EXCEPT ![r] = @ - 1]
  /\ easy' = [easy EXCEPT ![r] = "multi"]
  /\ message' = [message EXCEPT ![r] = "none"]
  /\ sent' = [sent EXCEPT ![r] = FALSE]
  /\ UNCHANGED <<client, shared, state, processing, received, consumed, delivered, reported, running>>

\* Mutant: the handler stays in processingRequests.
ForgetHandleOnly(r) ==
  /\ easy' = [easy EXCEPT ![r] = "null"]
  /\ message' = [message EXCEPT ![r] = "none"]
  /\ UNCHANGED <<processing, retries, received, consumed, sent>>

\* After handleDone the handle is cleaned up and the handler forgotten.
Forget(r) ==
  /\ easy' = [easy EXCEPT ![r] = "null"]
  /\ message' = [message EXCEPT ![r] = "none"]
  /\ processing' = processing \ {r}
  /\ UNCHANGED <<retries, received, consumed, sent>>

\* handleDone, up to the callback, which runs with the mutex of the request.
HandleDone(r) ==
  /\ LoopFree /\ message[r] # "none"
  /\ ~(message[r] = "transient" /\ ShouldRetry(r))
  /\ client[r] # "gone"
  /\ done' = [done EXCEPT ![r] = TRUE]
  /\ error' = [error EXCEPT ![r] = ErrorOf(r)]
  /\ \E code \in ResponseCodes(r) :
       delivered' = [delivered EXCEPT ![r] =
                       IF r \in Downloads /\ code = "below 300" THEN @ \cup received[r] ELSE @]
  /\ reported' = [reported EXCEPT ![r] = @ + 1]
  /\ running' = r
  /\ UNCHANGED <<client, shared, cancelled, processing, transfer>>

\* A handler whose request is gone reports to nobody.
DropDone(r) ==
  /\ LoopFree /\ message[r] # "none"
  /\ ~(message[r] = "transient" /\ ShouldRetry(r))
  /\ client[r] = "gone"
  /\ Forget(r)
  /\ UNCHANGED <<client, shared, state, delivered, reported, running>>

\* The callback returns, once the request it waits for, if any, is done.
CallbackReturns(r) ==
  /\ running = r
  /\ WaitsFor[r] # NoRequest => client[WaitsFor[r]] = "new" \/ done[WaitsFor[r]]
  /\ running' = NoRequest
  /\ Forget(r)
  /\ UNCHANGED <<client, shared, state, delivered, reported>>

-----------------------------------------------------------------------------
LoopStep ==
  \/ TakeIncoming("addDownload")
  \/ TakeCancelled("cancelDownload", "addDownload")
  \/ TakeIncoming("addUpload")
  \/ TakeCancelled("cancelUpload", "addUpload")
  \/ \E r \in Requests : Retry(r) \/ HandleDone(r) \/ DropDone(r) \/ CallbackReturns(r)

CurlStep ==
  \E r \in Requests :
    \/ HandleWriteData(r)
    \/ HandleReadRequest(r)
    \/ \E ending \in Outcomes : AttemptEnds(r, ending)

ClientStep ==
  \E r \in Requests :
    AddRequest(r) \/ Cancel(r) \/ WaitForFinish(r) \/ WaitEnds(r) \/ Release(r)

Next == LoopStep \/ CurlStep \/ ClientStep

\* The loop runs its signals and messages, and every attempt ends: there is an
\* answer, or the connection does not last for ever.
Fairness ==
  /\ \A k \in {"Download", "Upload"} :
       /\ WF_vars(TakeIncoming("add" \o k))
       /\ WF_vars(TakeCancelled("cancel" \o k, "add" \o k))
  /\ \A r \in Requests :
       /\ WF_vars(\E ending \in Outcomes : AttemptEnds(r, ending))
       /\ WF_vars(Retry(r) \/ HandleDone(r) \/ DropDone(r))
       /\ WF_vars(CallbackReturns(r))
       /\ WF_vars(WaitEnds(r))

Spec == Init /\ [][Next]_vars /\ Fairness

-----------------------------------------------------------------------------
\* The states of requests, handlers and queues.
TypeOK ==
  /\ client \in [Requests -> {"new", "held", "waiting", "gone"}]
  /\ {cancelRequested, done, cancelled, error, consumed, sent}
       \subseteq [Requests -> BOOLEAN]
  /\ queued \in [Queues -> SUBSET Requests]
  /\ signalled \subseteq Queues
  /\ processing \subseteq Requests
  /\ easy \in [Requests -> {"null", "multi", "freed"}]
  /\ retries \in [Requests -> 0..RetryCount]
  /\ message \in [Requests -> Outcomes \cup {"none"}]
  /\ {received, delivered} \subseteq [Requests -> SUBSET (0..RetryCount)]
  /\ reported \in [Requests -> 0..1]
  /\ running \in Requests \cup {NoRequest}

\* The easy handles in the multi handle are those of processingRequests, however
\* adding, cancelling, retrying and finishing interleave: curl never calls back
\* into a handler that was forgotten, and no handle is leaked in it.  (The types
\* are checked with it.)
HandlesExact ==
  /\ TypeOK
  /\ processing = {r \in Requests : easy[r] = "multi"}
  /\ \A r \in Requests : message[r] # "none" => r \in processing
  /\ \A q \in {"addDownload", "addUpload"} : queued[q] \cap processing = {}

\* A request is reported once, with an error exactly if its last attempt failed,
\* and never after it is done: not after its cancellation was carried out, not
\* even if the signal to add it comes after the one to cancel it.
ReportedOnce ==
  [][\A r \in Requests :
       /\ done[r] => reported'[r] = reported[r] /\ error'[r] = error[r]
       /\ reported'[r] # reported[r] => (error'[r] <=> message[r] # "success")]_vars

\* HandleData is given the bytes of one attempt.
OneAttemptDelivered == \A r \in Downloads : Cardinality(delivered[r]) <= 1

\* An attempt to upload has a body to send.
RetriesHaveBody == \A r \in Uploads : Active(r) /\ ~sent[r] => ~consumed[r]

\* Whoever waits for a request is woken, when it is cancelled too.
WaitsReturn == \A r \in Requests : client[r] = "waiting" ~> client[r] # "waiting"
=============================================================================
