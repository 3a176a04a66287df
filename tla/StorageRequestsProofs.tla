------------------------ MODULE StorageRequestsProofs ------------------------
(***************************************************************************)
(* Proofs about the request cache, for any set of clients and chunks.      *)
(*                                                                         *)
(* The invariants the model is checked for are not inductive one by one:   *)
(* that a writer is alone when it sees refCount = 1 is what the reference  *)
(* count says, that the count is not dropped below zero is what the        *)
(* clients' positions say.  IInv is their conjunction, with the fact that  *)
(* a client that fetches finds its request marked as being fetched.        *)
(***************************************************************************)
EXTENDS StorageRequests, FiniteSetTheorems, TLAPS

\* A request is marked as being fetched, without data, exactly while a client
\* is in ReadChunkImpl for it; whoever waits, waits for a request once marked.
FetchMarked ==
  /\ \A t \in Clients : Fetching(t) =>
       /\ request[at[t]] # NoRequest
       /\ request[at[t]].settingData /\ ~request[at[t]].hasData
  /\ \A t \in Clients : pc[t] = "waiting" =>
       request[at[t]] # NoRequest /\ request[at[t]].settingData
  /\ \A c \in Chunks :
       request[c] # NoRequest /\ request[c].settingData /\ ~request[c].hasData =>
         \E t \in Clients : Fetching(t) /\ at[t] = c

IInv == /\ TypeOK
        /\ IsFiniteSet(uploads)
        /\ RefCountExact
        /\ WritesSerialized
        /\ SingleFetch
        /\ FetchMarked

USE StorageAssumption

-----------------------------------------------------------------------------
(* New requests.                                                           *)

\* A request made by PrepareReadChunk is counted once and neither filled nor marked.
LEMMA FreshIsRequest ==
  ASSUME NEW f \in BOOLEAN
  PROVE  /\ FreshRequest(f) \in Request /\ FreshRequest(f) # NoRequest
         /\ FreshRequest(f).refCount = 1
         /\ ~FreshRequest(f).hasData /\ ~FreshRequest(f).settingData
<1>1. FreshRequest(f) \in Request
  BY DEF FreshRequest, Request, Versions
<1>2. FreshRequest(f) # NoRequest
  BY <1>1
<1>3. QED  BY <1>1, <1>2 DEF FreshRequest

\* A request made by WriteChunk is counted once and shows the data written.
LEMMA WrittenIsRequest ==
  ASSUME NEW v \in Versions
  PROVE  /\ WrittenRequest(v) \in Request /\ WrittenRequest(v) # NoRequest
         /\ WrittenRequest(v).refCount = 1 /\ WrittenRequest(v).data = v
         /\ WrittenRequest(v).hasData /\ ~WrittenRequest(v).failed
<1>1. WrittenRequest(v) \in Request
  BY DEF WrittenRequest, Request
<1>2. WrittenRequest(v) # NoRequest
  BY <1>1
<1>3. QED  BY <1>1, <1>2 DEF WrittenRequest

-----------------------------------------------------------------------------
(* Who holds a chunk, before and after a client moves.                     *)

\* The clients and the uploads that count for a chunk are finitely many.
LEMMA HoldersFinite ==
  ASSUME IsFiniteSet(uploads), NEW c \in Chunks
  PROVE  /\ IsFiniteSet(Holders(c)) /\ Cardinality(Holders(c)) \in Nat
         /\ IsFiniteSet(Uploads(c)) /\ Cardinality(Uploads(c)) \in Nat
<1>1. Holders(c) \subseteq Clients /\ Uploads(c) \subseteq uploads
  BY DEF Holders, Uploads
<1>2. IsFiniteSet(Holders(c)) /\ IsFiniteSet(Uploads(c))
  BY <1>1, FS_Subset
<1>3. QED  BY <1>2, FS_CardinalityType

\* An idle client that starts an operation joins the holders of its chunk.
LEMMA HoldersJoin ==
  ASSUME TypeOK, NEW t \in Clients, NEW c \in Chunks, NEW s \in HolderStates,
         pc[t] = "idle", pc' = [pc EXCEPT ![t] = s], at' = [at EXCEPT ![t] = c]
  PROVE  /\ t \notin Holders(c)
         /\ Holders(c)' = Holders(c) \cup {t}
         /\ \A d \in Chunks \ {c} : Holders(d)' = Holders(d)
BY DEF TypeOK, Holders, HolderStates, ReaderStates, WriterStates

\* A client that finishes leaves the holders of its chunk.
LEMMA HoldersLeave ==
  ASSUME TypeOK, NEW t \in Clients, pc[t] \in HolderStates,
         pc' = [pc EXCEPT ![t] = "idle"], at' = at
  PROVE  /\ t \in Holders(at[t])
         /\ Holders(at[t])' = Holders(at[t]) \ {t}
         /\ \A d \in Chunks \ {at[t]} : Holders(d)' = Holders(d)
BY DEF TypeOK, Holders, HolderStates, ReaderStates, WriterStates

\* A client in the middle of an operation stays a holder.
LEMMA HoldersStay ==
  ASSUME TypeOK, NEW t \in Clients, pc[t] \in HolderStates,
         NEW s \in HolderStates, pc' = [pc EXCEPT ![t] = s], at' = at
  PROVE  \A d \in Chunks : Holders(d)' = Holders(d)
BY DEF TypeOK, Holders, HolderStates, ReaderStates, WriterStates

-----------------------------------------------------------------------------
(* What the reference count says.                                          *)

\* A chunk without a request has no holder, no upload and nothing leaked.
LEMMA NoRequestNobody ==
  ASSUME IInv, NEW c \in Chunks, request[c] = NoRequest
  PROVE  Holders(c) = {} /\ Uploads(c) = {} /\ leaked[c] = 0
<1>1. /\ IsFiniteSet(Holders(c)) /\ Cardinality(Holders(c)) \in Nat
      /\ IsFiniteSet(Uploads(c)) /\ Cardinality(Uploads(c)) \in Nat
  BY HoldersFinite DEF IInv
<1>2. 0 = Cardinality(Holders(c)) + Cardinality(Uploads(c)) + leaked[c]
  BY DEF IInv, RefCountExact, References
<1>3. leaked[c] \in Nat
  BY DEF IInv, TypeOK
<1>4. Cardinality(Holders(c)) = 0 /\ Cardinality(Uploads(c)) = 0 /\ leaked[c] = 0
  BY <1>1, <1>2, <1>3
<1>5. QED  BY <1>1, <1>4, FS_EmptySet

\* Whoever holds a chunk finds its request, counted at least once.
LEMMA HolderHasRequest ==
  ASSUME IInv, NEW t \in Clients, pc[t] \in HolderStates
  PROVE  /\ at[t] \in Chunks /\ t \in Holders(at[t])
         /\ request[at[t]] \in Request /\ request[at[t]].refCount > 0
<1>1. at[t] \in Chunks /\ t \in Holders(at[t])
  BY DEF IInv, TypeOK, Holders
<1>2. request[at[t]] # NoRequest
  BY <1>1, NoRequestNobody
<1>3. QED  BY <1>1, <1>2 DEF IInv, TypeOK, RefCountExact, References

\* So does the callback of an upload.
LEMMA UploadHasRequest ==
  ASSUME IInv, NEW u \in uploads
  PROVE  /\ u.chunk \in Chunks /\ u.version \in Versions /\ u \in Uploads(u.chunk)
         /\ request[u.chunk] \in Request /\ request[u.chunk].refCount > 0
<1>1. u.chunk \in Chunks /\ u.version \in Versions /\ u \in Uploads(u.chunk)
  BY DEF IInv, TypeOK, Uploads
<1>2. request[u.chunk] # NoRequest
  BY <1>1, NoRequestNobody
<1>3. QED  BY <1>1, <1>2 DEF IInv, TypeOK, RefCountExact, References

\* A holder that sees refCount = 1 is alone: no other client, no upload.
LEMMA SoleHolder ==
  ASSUME IInv, NEW t \in Clients, pc[t] \in HolderStates,
         request[at[t]].refCount = 1
  PROVE  Holders(at[t]) = {t} /\ Uploads(at[t]) = {}
<1> DEFINE c == at[t]
<1>1. c \in Chunks /\ t \in Holders(c) /\ request[c] \in Request
  BY HolderHasRequest
<1>2. /\ IsFiniteSet(Holders(c)) /\ Cardinality(Holders(c)) \in Nat
      /\ IsFiniteSet(Uploads(c)) /\ Cardinality(Uploads(c)) \in Nat
  BY <1>1, HoldersFinite DEF IInv
<1>3. 1 = Cardinality(Holders(c)) + Cardinality(Uploads(c)) + leaked[c]
  BY <1>1 DEF IInv, RefCountExact, References
<1>4. leaked[c] \in Nat
  BY <1>1 DEF IInv, TypeOK
<1>5. IsFiniteSet(Holders(c) \ {t}) /\ Cardinality(Holders(c) \ {t}) = Cardinality(Holders(c)) - 1
  BY <1>1, <1>2, FS_RemoveElement
<1>6. Cardinality(Holders(c) \ {t}) \in Nat
  BY <1>5, FS_CardinalityType
<1>7. Cardinality(Holders(c) \ {t}) = 0 /\ Cardinality(Uploads(c)) = 0
  BY <1>2, <1>3, <1>4, <1>5, <1>6
<1>8. Holders(c) \ {t} = {} /\ Uploads(c) = {}
  BY <1>2, <1>5, <1>7, FS_EmptySet
<1>9. QED  BY <1>1, <1>8

-----------------------------------------------------------------------------
(* What a dropped reference leaves behind.                                 *)

\* DropReference lowers the count by one, erases the request exactly when that
\* makes it zero, and otherwise changes nothing a reader can see.
LEMMA DropReferenceEffect ==
  ASSUME TypeOK, NEW c \in Chunks, NEW r \in Request, r.refCount > 0,
         DropReference(c, r)
  PROVE  /\ request' \in [Chunks -> Request \cup {NoRequest}]
         /\ asleep' \subseteq Clients
         /\ References(c)' = r.refCount - 1
         /\ request'[c] = NoRequest <=> r.refCount = 1
         /\ request'[c] # NoRequest =>
              /\ request'[c].refCount > 0
              /\ request'[c].settingData = r.settingData
              /\ request'[c].hasData = r.hasData
              /\ request'[c].failed = r.failed
              /\ request'[c].data = r.data
         /\ \A d \in Chunks \ {c} : request'[d] = request[d]
<1>1. CASE r.refCount = 1
  BY <1>1 DEF DropReference, TypeOK, References
<1>2. CASE r.refCount # 1
  <2> DEFINE q == [r EXCEPT !.refCount = @ - 1]
  <2>1. q \in Request /\ q # NoRequest
    BY <1>2 DEF Request
  <2>2. q.refCount = r.refCount - 1 /\ q.refCount > 0
    BY <1>2 DEF Request
  <2>3. /\ q.settingData = r.settingData /\ q.hasData = r.hasData
        /\ q.failed = r.failed /\ q.data = r.data
    BY DEF Request
  <2>4. request' = [request EXCEPT ![c] = q] /\ asleep' = {}
    BY <1>2 DEF DropReference
  <2> HIDE DEF q
  <2>5. request'[c] = q /\ \A d \in Chunks \ {c} : request'[d] = request[d]
    BY <2>4 DEF TypeOK
  <2>6. request' \in [Chunks -> Request \cup {NoRequest}]
    BY <2>1, <2>4 DEF TypeOK
  <2>7. QED  BY <1>2, <2>1, <2>2, <2>3, <2>4, <2>5, <2>6 DEF References
<1>3. QED  BY <1>1, <1>2

-----------------------------------------------------------------------------
(* Types.                                                                  *)

\* Every step keeps the types, and adds at most one upload.
LEMMA TypeStep ==
  ASSUME IInv, [Next]_vars
  PROVE  TypeOK' /\ IsFiniteSet(uploads)'
<1> USE DEF HolderStates, ReaderStates, WriterStates, PendingState
<1>0. TypeOK /\ IsFiniteSet(uploads)
  BY DEF IInv
<1>1. ASSUME NEW t \in Clients, NEW c \in Chunks, PrepareReadChunk(t, c)
      PROVE  TypeOK' /\ IsFiniteSet(uploads)'
  <2>1. \A f \in BOOLEAN : FreshRequest(f) \in Request
    BY FreshIsRequest
  <2>2. request' \in [Chunks -> Request \cup {NoRequest}]
    <3>1. CASE request[c] = NoRequest
      <4>1. PICK ok \in BOOLEAN : request' = [request EXCEPT ![c] = FreshRequest(~ok)]
        BY <1>1, <3>1 DEF PrepareReadChunk, PrepareOutcomes, Outcomes
      <4>2. QED  BY <1>0, <2>1, <4>1 DEF TypeOK
    <3>2. CASE request[c] # NoRequest
      <4>1. request[c] \in Request
        BY <1>0, <3>2 DEF TypeOK
      <4>2. [request[c] EXCEPT !.refCount = @ + 1] \in Request
        BY <4>1 DEF Request
      <4>3. request' = [request EXCEPT ![c] = [request[c] EXCEPT !.refCount = @ + 1]]
        BY <1>1, <3>2 DEF PrepareReadChunk
      <4>4. QED  BY <1>0, <4>2, <4>3 DEF TypeOK
    <3>3. QED  BY <3>1, <3>2
  <2>3. pending' \in [Chunks -> PendingState] /\ fetched' = fetched
    BY <1>0, <1>1 DEF PrepareReadChunk, PrepareReadChunkImpl, cloudVars, TypeOK
  <2>4. PICK ok \in BOOLEAN : HoldPreparation(t, c, ok)
    BY <1>1 DEF PrepareReadChunk, PrepareOutcomes, Outcomes
  <2>5. QED  BY <1>0, <1>1, <2>2, <2>3, <2>4 DEF TypeOK, HoldPreparation, PrepareReadChunk
<1>2. ASSUME NEW t \in Clients, NEW c \in Chunks, WriteChunk(t, c)
      PROVE  TypeOK' /\ IsFiniteSet(uploads)'
  <2>1. writes + 1 \in Versions
    BY <1>0, <1>2 DEF WriteChunk, TypeOK, Versions
  <2>2. WrittenRequest(writes + 1) \in Request
    BY <2>1, WrittenIsRequest
  <2>3. request' \in [Chunks -> Request \cup {NoRequest}]
    <3>1. CASE request[c] = NoRequest
      BY <1>0, <1>2, <2>2, <3>1 DEF WriteChunk, TypeOK
    <3>2. CASE request[c] # NoRequest
      <4>1. [request[c] EXCEPT !.refCount = @ + 1] \in Request
        BY <1>0, <3>2 DEF Request, TypeOK
      <4>2. request' = [request EXCEPT ![c] = [request[c] EXCEPT !.refCount = @ + 1]]
        BY <1>2, <3>2 DEF WriteChunk
      <4>3. QED  BY <1>0, <4>1, <4>2 DEF TypeOK
    <3>3. QED  BY <3>1, <3>2
  <2>4. QED  BY <1>0, <1>2, <2>1, <2>3 DEF WriteChunk, TypeOK
<1>3. ASSUME NEW t \in Clients, ReadChunk(t) PROVE TypeOK' /\ IsFiniteSet(uploads)'
  <2> DEFINE c == at[t]  r == request[c]
  <2>1. pc[t] \in HolderStates
    BY <1>3 DEF ReadChunk
  <2>2. c \in Chunks /\ r \in Request /\ r.refCount > 0
    BY <2>1, HolderHasRequest
  <2>3. CASE FinishRead(t, c, r)
    <3>1. request' \in [Chunks -> Request \cup {NoRequest}] /\ asleep' \subseteq Clients
      BY <1>0, <2>2, <2>3, DropReferenceEffect DEF FinishRead
    <3>2. r.data \in Versions
      BY <2>2 DEF Request
    <3>3. QED  BY <1>0, <1>3, <2>3, <3>1, <3>2 DEF ReadChunk, FinishRead, TypeOK
  <2>4. CASE request' = [request EXCEPT ![c] = StartFetch(r)] /\ UNCHANGED asleep
                /\ pc' = [pc EXCEPT ![t] = "reading"] /\ UNCHANGED got
    <3>1. StartFetch(r) \in Request
      BY <2>2 DEF StartFetch, Request
    <3>2. QED  BY <1>0, <1>3, <2>2, <2>4, <3>1 DEF ReadChunk, TypeOK
  <2>5. CASE request' = request /\ asleep' = asleep \cup {t}
                /\ pc' = [pc EXCEPT ![t] = "waiting"] /\ UNCHANGED got
    BY <1>0, <1>3, <2>5 DEF ReadChunk, TypeOK
  <2>6. QED  BY <1>3, <2>3, <2>4, <2>5 DEF ReadChunk
<1>4. ASSUME NEW t \in Clients, CancelReadChunk(t) PROVE TypeOK' /\ IsFiniteSet(uploads)'
  <2> DEFINE c == at[t]  r == request[c]
  <2>1. pc[t] \in HolderStates
    BY <1>4 DEF CancelReadChunk
  <2>2. c \in Chunks /\ r \in Request /\ r.refCount > 0
    BY <2>1, HolderHasRequest
  <2>3. request' \in [Chunks -> Request \cup {NoRequest}] /\ asleep' \subseteq Clients
    BY <1>0, <1>4, <2>2, DropReferenceEffect DEF CancelReadChunk
  <2>4. QED  BY <1>0, <1>4, <2>3 DEF CancelReadChunk, CancelReadChunkImpl, TypeOK
<1>5. ASSUME NEW t \in Clients, ReadChunkImpl(t) PROVE TypeOK' /\ IsFiniteSet(uploads)'
  <2> DEFINE c == at[t]  r == request[c]
             q == [r EXCEPT !.failed = pending[c] # "done",
                            !.data = IF pending[c] = "done" THEN fetched[c] ELSE @]
  <2>1. pc[t] \in HolderStates
    BY <1>5 DEF ReadChunkImpl
  <2>2. c \in Chunks /\ r \in Request
    BY <2>1, HolderHasRequest
  <2>3. q \in Request
    BY <1>0, <2>2 DEF Request, TypeOK
  <2>4. request' = [request EXCEPT ![c] = q]
    BY <1>0, <1>5, <2>2 DEF ReadChunkImpl, TypeOK
  <2>5. request' \in [Chunks -> Request \cup {NoRequest}]
    BY <1>0, <2>2, <2>3, <2>4 DEF TypeOK
  <2>6. QED  BY <1>0, <1>5, <2>2, <2>5 DEF ReadChunkImpl, PendingAfterRead, TypeOK
<1>6. ASSUME NEW t \in Clients, ReadChunkPublish(t) PROVE TypeOK' /\ IsFiniteSet(uploads)'
  <2> DEFINE c == at[t]  r == [request[c] EXCEPT !.hasData = TRUE]
  <2>1. pc[t] \in HolderStates
    BY <1>6 DEF ReadChunkPublish
  <2>2. c \in Chunks /\ r \in Request /\ r.refCount > 0 /\ r.data \in Versions
    BY <2>1, HolderHasRequest DEF Request
  <2>3. FinishRead(t, c, r)
    BY <1>6 DEF ReadChunkPublish
  <2> HIDE DEF r
  <2>4. request' \in [Chunks -> Request \cup {NoRequest}] /\ asleep' \subseteq Clients
    BY <1>0, <2>2, <2>3, DropReferenceEffect DEF FinishRead
  <2>5. QED  BY <1>0, <1>6, <2>2, <2>3, <2>4 DEF ReadChunkPublish, FinishRead, TypeOK
<1>7. ASSUME NEW t \in Clients, ReadChunkWake(t) PROVE TypeOK' /\ IsFiniteSet(uploads)'
  <2> DEFINE c == at[t]  r == request[c]
  <2>1. pc[t] \in HolderStates
    BY <1>7 DEF ReadChunkWake
  <2>2. c \in Chunks /\ r \in Request /\ r.refCount > 0 /\ r.data \in Versions
    BY <2>1, HolderHasRequest DEF Request
  <2>3. CASE r.hasData
    <3>1. FinishRead(t, c, r)
      BY <1>7, <2>3 DEF ReadChunkWake
    <3>2. request' \in [Chunks -> Request \cup {NoRequest}] /\ asleep' \subseteq Clients
      BY <1>0, <2>2, <3>1, DropReferenceEffect DEF FinishRead
    <3>3. QED  BY <1>0, <1>7, <2>2, <3>1, <3>2 DEF ReadChunkWake, FinishRead, TypeOK
  <2>4. CASE ~r.hasData
    BY <1>0, <1>7, <2>4 DEF ReadChunkWake, TypeOK
  <2>5. QED  BY <2>3, <2>4
<1>8. ASSUME NEW t \in Clients, WriteChunkWake(t) PROVE TypeOK' /\ IsFiniteSet(uploads)'
  <2>1. WrittenRequest(mine[t]) \in Request
    BY <1>0, WrittenIsRequest DEF TypeOK
  <2>2. QED  BY <1>0, <1>8, <2>1 DEF WriteChunkWake, TypeOK
<1>9. ASSUME NEW t \in Clients, WriteChunkImpl(t) PROVE TypeOK' /\ IsFiniteSet(uploads)'
  <2>1. IsFiniteSet(uploads')
    BY <1>0, <1>9, FS_AddElement DEF WriteChunkImpl
  <2>2. QED  BY <1>0, <1>9, <2>1 DEF WriteChunkImpl, TypeOK
<1>10. ASSUME NEW c \in Chunks, TransferFinished(c) PROVE TypeOK' /\ IsFiniteSet(uploads)'
  BY <1>0, <1>10 DEF TransferFinished, TypeOK, clientVars
<1>11. ASSUME NEW u \in uploads, WriteCompleted(u) PROVE TypeOK' /\ IsFiniteSet(uploads)'
  <2>1. /\ u.chunk \in Chunks /\ u.version \in Versions
        /\ request[u.chunk] \in Request /\ request[u.chunk].refCount > 0
    BY <1>11, UploadHasRequest
  <2>2. request' \in [Chunks -> Request \cup {NoRequest}] /\ asleep' \subseteq Clients
    BY <1>0, <1>11, <2>1, DropReferenceEffect DEF WriteCompleted
  <2>3. IsFiniteSet(uploads')
    BY <1>0, <1>11, FS_RemoveElement DEF WriteCompleted
  <2>4. QED  BY <1>0, <1>11, <2>1, <2>2, <2>3 DEF WriteCompleted, TypeOK, clientVars
<1>12. CASE UNCHANGED vars
  BY <1>0, <1>12 DEF vars, TypeOK
<1>13. QED
  BY <1>1, <1>2, <1>3, <1>4, <1>5, <1>6, <1>7, <1>8, <1>9, <1>10, <1>11, <1>12
  DEF Next, ClientStep

-----------------------------------------------------------------------------
(* The reference count.                                                    *)

\* RefCountExact, for one chunk.
CountExact(c) ==
  /\ References(c) = Cardinality(Holders(c)) + Cardinality(Uploads(c)) + leaked[c]
  /\ request[c] # NoRequest => References(c) > 0

\* A chunk whose request, holders, uploads and leaks are as before is as exact.
LEMMA CountUnchanged ==
  ASSUME IInv, NEW c \in Chunks, request'[c] = request[c],
         Holders(c)' = Holders(c), Uploads(c)' = Uploads(c), leaked'[c] = leaked[c]
  PROVE  CountExact(c)'
BY DEF IInv, RefCountExact, CountExact, References

\* A client joins the holders of a chunk and the reference count goes up by one.
LEMMA CountJoin ==
  ASSUME IInv, NEW t \in Clients, NEW c \in Chunks,
         t \notin Holders(c), Holders(c)' = Holders(c) \cup {t},
         Uploads(c)' = Uploads(c), leaked'[c] = leaked[c],
         References(c)' = References(c) + 1
  PROVE  CountExact(c)'
<1>1. /\ IsFiniteSet(Holders(c)) /\ Cardinality(Holders(c)) \in Nat
      /\ Cardinality(Uploads(c)) \in Nat
  BY HoldersFinite DEF IInv
<1>2. Cardinality(Holders(c)') = Cardinality(Holders(c)) + 1
  BY <1>1, FS_AddElement
<1>3. leaked[c] \in Nat
  BY DEF IInv, TypeOK
<1>4. References(c) = Cardinality(Holders(c)) + Cardinality(Uploads(c)) + leaked[c]
  BY DEF IInv, RefCountExact
<1>5. Cardinality(Uploads(c)') = Cardinality(Uploads(c))
  OBVIOUS
<1>6. QED  BY <1>1, <1>2, <1>3, <1>4, <1>5 DEF CountExact

\* A client leaves the holders of a chunk and the count goes down by one.
LEMMA CountLeave ==
  ASSUME IInv, NEW t \in Clients, NEW c \in Chunks,
         t \in Holders(c), Holders(c)' = Holders(c) \ {t},
         Uploads(c)' = Uploads(c), leaked'[c] = leaked[c],
         References(c)' = References(c) - 1,
         request'[c] # NoRequest => References(c)' > 0
  PROVE  CountExact(c)'
<1>1. /\ IsFiniteSet(Holders(c)) /\ Cardinality(Holders(c)) \in Nat
      /\ Cardinality(Uploads(c)) \in Nat
  BY HoldersFinite DEF IInv
<1>2. Cardinality(Holders(c)') = Cardinality(Holders(c)) - 1
  BY <1>1, FS_RemoveElement
<1>3. leaked[c] \in Nat
  BY DEF IInv, TypeOK
<1>4. References(c) = Cardinality(Holders(c)) + Cardinality(Uploads(c)) + leaked[c]
  BY DEF IInv, RefCountExact
<1>5. Cardinality(Uploads(c)') = Cardinality(Uploads(c))
  OBVIOUS
<1>6. QED  BY <1>1, <1>2, <1>3, <1>4, <1>5 DEF CountExact

\* A client that drops its reference keeps the count of every chunk exact.
LEMMA CountDrop ==
  ASSUME IInv, NEW t \in Clients, pc[t] \in HolderStates, NEW r \in Request,
         r.refCount = request[at[t]].refCount, DropReference(at[t], r),
         pc' = [pc EXCEPT ![t] = "idle"], UNCHANGED <<at, uploads, leaked>>
  PROVE  \A c \in Chunks : CountExact(c)'
<1>1. TypeOK
  BY DEF IInv
<1>2. /\ at[t] \in Chunks /\ t \in Holders(at[t])
      /\ request[at[t]] \in Request /\ request[at[t]].refCount > 0
  BY HolderHasRequest
<1>3. /\ References(at[t])' = r.refCount - 1
      /\ request'[at[t]] = NoRequest <=> r.refCount = 1
      /\ \A d \in Chunks \ {at[t]} : request'[d] = request[d]
  BY <1>1, <1>2, DropReferenceEffect
<1>4. /\ Holders(at[t])' = Holders(at[t]) \ {t}
      /\ \A d \in Chunks \ {at[t]} : Holders(d)' = Holders(d)
  BY <1>1, HoldersLeave
<1>5. \A d \in Chunks : Uploads(d)' = Uploads(d)
  BY DEF Uploads
<1>6. References(at[t]) = r.refCount
  BY <1>2 DEF References
<1>7. r.refCount \in Nat
  BY DEF Request
<1>8. CountExact(at[t])'
  BY <1>2, <1>3, <1>4, <1>5, <1>6, <1>7, CountLeave
<1>9. ASSUME NEW d \in Chunks \ {at[t]} PROVE CountExact(d)'
  BY <1>3, <1>4, <1>5, <1>9, CountUnchanged
<1>10. QED  BY <1>8, <1>9

\* A step of a client that keeps its reference, and every count with it.
LEMMA CountKeep ==
  ASSUME IInv, NEW t \in Clients, pc[t] \in HolderStates,
         NEW s \in HolderStates, pc' = [pc EXCEPT ![t] = s],
         UNCHANGED <<at, uploads, leaked>>,
         \A c \in Chunks : /\ References(c)' = References(c)
                           /\ request'[c] # NoRequest => request[c] # NoRequest
  PROVE  \A c \in Chunks : CountExact(c)'
<1>1. \A d \in Chunks : Holders(d)' = Holders(d)
  BY HoldersStay DEF IInv
<1>2. \A d \in Chunks : Uploads(d)' = Uploads(d)
  BY DEF Uploads
<1>3. ASSUME NEW c \in Chunks PROVE CountExact(c)'
  <2>1. /\ Cardinality(Holders(c)') = Cardinality(Holders(c))
        /\ Cardinality(Uploads(c)') = Cardinality(Uploads(c))
    BY <1>1, <1>2
  <2>2. CountExact(c)
    BY DEF IInv, RefCountExact, CountExact
  <2>3. /\ leaked'[c] = leaked[c]
        /\ References(c)' = References(c)
        /\ request'[c] # NoRequest => request[c] # NoRequest
    BY DEF References
  <2>4. /\ References(c)' = Cardinality(Holders(c)') + Cardinality(Uploads(c)') + leaked'[c]
        /\ request'[c] # NoRequest => References(c)' > 0
    BY <2>1, <2>2, <2>3 DEF CountExact
  <2>5. QED  BY <2>4 DEF CountExact
<1>4. QED  BY <1>3

\* Every step keeps the reference count of every chunk exact.
LEMMA CountStep ==
  ASSUME IInv, [Next]_vars
  PROVE  RefCountExact'
<1> SUFFICES \A c \in Chunks : CountExact(c)'
  BY DEF CountExact, RefCountExact
<1>0. TypeOK
  BY DEF IInv
<1> USE DEF HolderStates, ReaderStates, WriterStates
<1>1. ASSUME NEW t \in Clients, NEW c \in Chunks, PrepareReadChunk(t, c)
      PROVE  \A d \in Chunks : CountExact(d)'
  <2>1. PICK ok \in BOOLEAN : HoldPreparation(t, c, ok)
    BY <1>1 DEF PrepareReadChunk, PrepareOutcomes, Outcomes
  <2>2. \A d \in Chunks : Uploads(d)' = Uploads(d)
    BY <1>1 DEF PrepareReadChunk, Uploads
  <2>3. /\ References(c)' = References(c) + 1
        /\ request'[c] # NoRequest
        /\ \A d \in Chunks \ {c} : request'[d] = request[d]
    <3>1. CASE request[c] = NoRequest
      <4>1. PICK f \in BOOLEAN : request' = [request EXCEPT ![c] = FreshRequest(f)]
        BY <1>1, <3>1 DEF PrepareReadChunk, PrepareOutcomes, Outcomes
      <4>2. FreshRequest(f).refCount = 1 /\ FreshRequest(f) # NoRequest
        BY FreshIsRequest
      <4>3. QED  BY <1>0, <3>1, <4>1, <4>2 DEF TypeOK, References
    <3>2. CASE request[c] # NoRequest
      <4> DEFINE q == [request[c] EXCEPT !.refCount = @ + 1]
      <4>1. request[c] \in Request
        BY <1>0, <3>2 DEF TypeOK
      <4>2. q \in Request /\ q.refCount = request[c].refCount + 1
        BY <4>1 DEF Request
      <4>3. request' = [request EXCEPT ![c] = q]
        BY <1>1, <3>2 DEF PrepareReadChunk
      <4> HIDE DEF q
      <4>4. QED  BY <1>0, <3>2, <4>2, <4>3 DEF TypeOK, References
    <3>3. QED  BY <3>1, <3>2
  <2>4. CASE pc' = [pc EXCEPT ![t] = "prepared"] /\ leaked' = leaked
    <3>1. /\ t \notin Holders(c)
          /\ Holders(c)' = Holders(c) \cup {t}
          /\ \A d \in Chunks \ {c} : Holders(d)' = Holders(d)
      BY <1>0, <1>1, <2>1, <2>4, HoldersJoin DEF PrepareReadChunk, HoldPreparation
    <3>2. CountExact(c)'
      BY <2>2, <2>3, <2>4, <3>1, CountJoin
    <3>3. ASSUME NEW d \in Chunks \ {c} PROVE CountExact(d)'
      BY <2>2, <2>3, <2>4, <3>1, <3>3, CountUnchanged
    <3>4. QED  BY <3>2, <3>3
  <2>5. CASE pc' = pc /\ leaked' = [leaked EXCEPT ![c] = @ + 1]
    <3>1. \A d \in Chunks : Holders(d)' = Holders(d)
      BY <1>0, <1>1, <2>1, <2>5 DEF PrepareReadChunk, HoldPreparation, Holders, TypeOK
    <3>2. leaked'[c] = leaked[c] + 1 /\ \A d \in Chunks \ {c} : leaked'[d] = leaked[d]
      BY <1>0, <2>5 DEF TypeOK
    <3>3. /\ Cardinality(Holders(c)) \in Nat /\ Cardinality(Uploads(c)) \in Nat
          /\ leaked[c] \in Nat
      BY <1>0, HoldersFinite DEF IInv, TypeOK
    <3>4. References(c) = Cardinality(Holders(c)) + Cardinality(Uploads(c)) + leaked[c]
      BY DEF IInv, RefCountExact
    <3>5. /\ Cardinality(Holders(c)') = Cardinality(Holders(c))
          /\ Cardinality(Uploads(c)') = Cardinality(Uploads(c))
      BY <2>2, <3>1
    <3>6. CountExact(c)'
      BY <2>3, <3>2, <3>3, <3>4, <3>5 DEF CountExact
    <3>7. ASSUME NEW d \in Chunks \ {c} PROVE CountExact(d)'
      BY <2>2, <2>3, <3>1, <3>2, <3>7, CountUnchanged
    <3>8. QED  BY <3>6, <3>7
  <2>6. QED  BY <2>1, <2>4, <2>5 DEF HoldPreparation
<1>2. ASSUME NEW t \in Clients, NEW c \in Chunks, WriteChunk(t, c)
      PROVE  \A d \in Chunks : CountExact(d)'
  <2>1. \A d \in Chunks : Uploads(d)' = Uploads(d)
    BY <1>2 DEF WriteChunk, Uploads
  <2>2. /\ References(c)' = References(c) + 1
        /\ \A d \in Chunks \ {c} : request'[d] = request[d]
    <3>1. CASE request[c] = NoRequest
      <4>1. WrittenRequest(writes + 1).refCount = 1 /\ WrittenRequest(writes + 1) # NoRequest
        <5>1. writes + 1 \in Versions
          BY <1>0, <1>2 DEF WriteChunk, TypeOK, Versions
        <5>2. QED  BY <5>1, WrittenIsRequest
      <4>2. request' = [request EXCEPT ![c] = WrittenRequest(writes + 1)]
        BY <1>2, <3>1 DEF WriteChunk
      <4>3. QED  BY <1>0, <3>1, <4>1, <4>2 DEF TypeOK, References
    <3>2. CASE request[c] # NoRequest
      <4> DEFINE q == [request[c] EXCEPT !.refCount = @ + 1]
      <4>1. q \in Request /\ q.refCount = request[c].refCount + 1
        BY <1>0, <3>2 DEF TypeOK, Request
      <4>2. request' = [request EXCEPT ![c] = q]
        BY <1>2, <3>2 DEF WriteChunk
      <4> HIDE DEF q
      <4>3. QED  BY <1>0, <3>2, <4>1, <4>2 DEF TypeOK, References
    <3>3. QED  BY <3>1, <3>2
  <2>3. PICK s \in WriterStates : pc' = [pc EXCEPT ![t] = s]
    BY <1>2 DEF WriteChunk
  <2>4. /\ t \notin Holders(c)
        /\ Holders(c)' = Holders(c) \cup {t}
        /\ \A d \in Chunks \ {c} : Holders(d)' = Holders(d)
    BY <1>0, <1>2, <2>3, HoldersJoin DEF WriteChunk
  <2>5. leaked' = leaked
    BY <1>2 DEF WriteChunk
  <2>6. CountExact(c)'
    BY <2>1, <2>2, <2>4, <2>5, CountJoin
  <2>7. ASSUME NEW d \in Chunks \ {c} PROVE CountExact(d)'
    BY <2>1, <2>2, <2>4, <2>5, <2>7, CountUnchanged
  <2>8. QED  BY <2>6, <2>7
<1>3. ASSUME NEW t \in Clients, ReadChunk(t) PROVE \A d \in Chunks : CountExact(d)'
  <2> DEFINE c == at[t]  r == request[c]
  <2>1. pc[t] \in HolderStates /\ UNCHANGED <<at, uploads, leaked>>
    BY <1>3 DEF ReadChunk
  <2>2. c \in Chunks /\ r \in Request
    BY <2>1, HolderHasRequest
  <2>3. CASE FinishRead(t, c, r)
    BY <2>1, <2>2, <2>3, CountDrop DEF FinishRead
  <2>4. CASE request' = [request EXCEPT ![c] = StartFetch(r)] /\ pc' = [pc EXCEPT ![t] = "reading"]
    <3>1. StartFetch(r) \in Request /\ StartFetch(r).refCount = r.refCount
      BY <2>2 DEF StartFetch, Request
    <3>2. \A d \in Chunks : /\ References(d)' = References(d)
                            /\ request'[d] # NoRequest => request[d] # NoRequest
      BY <1>0, <2>2, <2>4, <3>1 DEF TypeOK, References
    <3>3. QED  BY <2>1, <2>4, <3>2, CountKeep
  <2>5. CASE request' = request /\ pc' = [pc EXCEPT ![t] = "waiting"]
    <3>1. \A d \in Chunks : References(d)' = References(d)
      BY <2>5 DEF References
    <3>2. QED  BY <2>1, <2>5, <3>1, CountKeep
  <2>6. QED  BY <1>3, <2>3, <2>4, <2>5 DEF ReadChunk
<1>4. ASSUME NEW t \in Clients, CancelReadChunk(t) PROVE \A d \in Chunks : CountExact(d)'
  <2>1. pc[t] \in HolderStates
    BY <1>4 DEF CancelReadChunk
  <2>2. QED  BY <1>4, <2>1, HolderHasRequest, CountDrop DEF CancelReadChunk
<1>5. ASSUME NEW t \in Clients, ReadChunkImpl(t) PROVE \A d \in Chunks : CountExact(d)'
  <2> DEFINE c == at[t]  r == request[c]
             q == [r EXCEPT !.failed = pending[c] # "done",
                            !.data = IF pending[c] = "done" THEN fetched[c] ELSE @]
  <2>1. pc[t] \in HolderStates /\ UNCHANGED <<at, uploads, leaked>> /\ pc' = [pc EXCEPT ![t] = "read"]
    BY <1>5 DEF ReadChunkImpl
  <2>2. c \in Chunks /\ r \in Request
    BY <2>1, HolderHasRequest
  <2>3. q \in Request /\ q.refCount = r.refCount
    BY <1>0, <2>2 DEF Request, TypeOK
  <2>4. request' = [request EXCEPT ![c] = q]
    BY <1>0, <1>5, <2>2 DEF ReadChunkImpl, TypeOK
  <2> HIDE DEF q
  <2>5. \A d \in Chunks : /\ References(d)' = References(d)
                          /\ request'[d] # NoRequest => request[d] # NoRequest
    BY <1>0, <2>2, <2>3, <2>4 DEF TypeOK, References
  <2>6. QED  BY <2>1, <2>5, CountKeep
<1>6. ASSUME NEW t \in Clients, ReadChunkPublish(t) PROVE \A d \in Chunks : CountExact(d)'
  <2> DEFINE r == [request[at[t]] EXCEPT !.hasData = TRUE]
  <2>1. pc[t] \in HolderStates
    BY <1>6 DEF ReadChunkPublish
  <2>2. r \in Request /\ r.refCount = request[at[t]].refCount
    BY <2>1, HolderHasRequest DEF Request
  <2>3. FinishRead(t, at[t], r) /\ UNCHANGED <<at, uploads, leaked>>
    BY <1>6 DEF ReadChunkPublish
  <2> HIDE DEF r
  <2>4. QED  BY <2>1, <2>2, <2>3, CountDrop DEF FinishRead
<1>7. ASSUME NEW t \in Clients, ReadChunkWake(t) PROVE \A d \in Chunks : CountExact(d)'
  <2> DEFINE r == request[at[t]]
  <2>1. pc[t] = "waiting" /\ UNCHANGED <<at, uploads, leaked>>
    BY <1>7 DEF ReadChunkWake
  <2>2. r \in Request
    BY <2>1, HolderHasRequest
  <2>3. CASE FinishRead(t, at[t], r)
    BY <2>1, <2>2, <2>3, CountDrop DEF FinishRead
  <2>4. CASE UNCHANGED <<request, pc>>
    BY <2>1, <2>4 DEF IInv, RefCountExact, CountExact, References, Holders, Uploads
  <2>5. QED  BY <1>7, <2>3, <2>4 DEF ReadChunkWake
<1>8. ASSUME NEW t \in Clients, WriteChunkWake(t) PROVE \A d \in Chunks : CountExact(d)'
  <2> DEFINE c == at[t]
  <2>1. pc[t] = "waitExclusive" /\ UNCHANGED <<at, uploads, leaked>>
    BY <1>8 DEF WriteChunkWake
  <2>2. c \in Chunks /\ request[c] \in Request
    BY <2>1, HolderHasRequest
  <2>3. CASE MayWrite(request[c])
    <3>1. request' = [request EXCEPT ![c] = WrittenRequest(mine[t])] /\ pc' = [pc EXCEPT ![t] = "upload"]
      BY <1>8, <2>3 DEF WriteChunkWake
    <3>2. WrittenRequest(mine[t]) # NoRequest /\ WrittenRequest(mine[t]).refCount = request[c].refCount
      BY <1>0, <2>3, WrittenIsRequest DEF MayWrite, TypeOK
    <3>3. \A d \in Chunks : /\ References(d)' = References(d)
                            /\ request'[d] # NoRequest => request[d] # NoRequest
      BY <1>0, <2>2, <3>1, <3>2 DEF TypeOK, References
    <3>4. QED  BY <2>1, <3>1, <3>3, CountKeep
  <2>4. CASE ~MayWrite(request[c])
    <3>1. UNCHANGED <<request, pc>>
      BY <1>8, <2>4 DEF WriteChunkWake
    <3>2. QED  BY <2>1, <3>1 DEF IInv, RefCountExact, CountExact, References, Holders, Uploads
  <2>5. QED  BY <2>3, <2>4
<1>9. ASSUME NEW t \in Clients, WriteChunkImpl(t) PROVE \A d \in Chunks : CountExact(d)'
  <2> DEFINE c == at[t]  u == [chunk |-> c, version |-> mine[t]]
  <2>1. pc[t] = "upload" /\ pc' = [pc EXCEPT ![t] = "idle"]
        /\ uploads' = uploads \cup {u} /\ UNCHANGED <<at, request, leaked>>
    BY <1>9 DEF WriteChunkImpl
  <2>2. c \in Chunks /\ t \in Holders(c)
    BY <2>1, HolderHasRequest
  <2>3. /\ Holders(c)' = Holders(c) \ {t}
        /\ \A d \in Chunks \ {c} : Holders(d)' = Holders(d)
    BY <1>0, <2>1, HoldersLeave
  <2>4. Uploads(c) = {}
    BY <2>1 DEF IInv, WritesSerialized
  <2>5. Uploads(c)' = {u} /\ \A d \in Chunks \ {c} : Uploads(d)' = Uploads(d)
    BY <2>1, <2>4 DEF Uploads
  <2>6. /\ IsFiniteSet(Holders(c)) /\ Cardinality(Holders(c)) \in Nat
        /\ leaked[c] \in Nat
    BY <1>0, <2>2, HoldersFinite DEF IInv, TypeOK
  <2>7. Cardinality(Holders(c)') = Cardinality(Holders(c)) - 1
    <3>1. Cardinality(Holders(c) \ {t}) = Cardinality(Holders(c)) - 1
      BY <2>2, <2>6, FS_RemoveElement
    <3>2. QED  BY <2>3, <3>1
  <2>8. Cardinality(Uploads(c)) = 0 /\ Cardinality(Uploads(c)') = 1
    BY <2>4, <2>5, FS_EmptySet, FS_Singleton
  <2>9. CountExact(c)'
    <3>1. References(c)' = References(c) /\ leaked'[c] = leaked[c]
      BY <2>1 DEF References
    <3>2. CountExact(c)
      BY <2>2 DEF IInv, RefCountExact, CountExact
    <3>3. References(c)' = Cardinality(Holders(c)') + Cardinality(Uploads(c)') + leaked'[c]
      BY <2>6, <2>7, <2>8, <3>1, <3>2 DEF CountExact
    <3>4. QED  BY <2>1, <3>1, <3>2, <3>3 DEF CountExact
  <2>10. ASSUME NEW d \in Chunks \ {c} PROVE CountExact(d)'
    BY <2>1, <2>3, <2>5, <2>10, CountUnchanged
  <2>11. QED  BY <2>1, <2>9, <2>10
<1>10. ASSUME NEW c \in Chunks, TransferFinished(c) PROVE \A d \in Chunks : CountExact(d)'
  BY <1>10 DEF TransferFinished, clientVars, IInv, RefCountExact, CountExact, References,
               Holders, Uploads
<1>11. ASSUME NEW u \in uploads, WriteCompleted(u) PROVE \A d \in Chunks : CountExact(d)'
  <2> DEFINE c == u.chunk  r == request[c]
  <2>1. c \in Chunks /\ u \in Uploads(c) /\ r \in Request /\ r.refCount > 0
    BY <1>11, UploadHasRequest
  <2>2. DropReference(c, r) /\ uploads' = uploads \ {u} /\ UNCHANGED <<pc, at, leaked>>
    BY <1>11 DEF WriteCompleted, clientVars
  <2>3. /\ References(c)' = r.refCount - 1
        /\ request'[c] = NoRequest <=> r.refCount = 1
        /\ \A d \in Chunks \ {c} : request'[d] = request[d]
    BY <1>0, <2>1, <2>2, DropReferenceEffect
  <2>4. \A d \in Chunks : Holders(d)' = Holders(d)
    BY <2>2 DEF Holders
  <2>5. Uploads(c)' = Uploads(c) \ {u} /\ \A d \in Chunks \ {c} : Uploads(d)' = Uploads(d)
    BY <2>1, <2>2 DEF Uploads
  <2>6. /\ Cardinality(Holders(c)) \in Nat /\ leaked[c] \in Nat
        /\ IsFiniteSet(Uploads(c)) /\ Cardinality(Uploads(c)) \in Nat
    BY <1>0, <2>1, HoldersFinite DEF IInv, TypeOK
  <2>7. Cardinality(Uploads(c) \ {u}) = Cardinality(Uploads(c)) - 1
    BY <2>1, <2>6, FS_RemoveElement
  <2>13. Cardinality(Uploads(c)') = Cardinality(Uploads(c)) - 1
    BY <2>5, <2>7
  <2>8. Cardinality(Holders(c)') = Cardinality(Holders(c))
    BY <2>1, <2>4
  <2>9. /\ References(c) = r.refCount /\ r.refCount \in Nat
        /\ References(c) = Cardinality(Holders(c)) + Cardinality(Uploads(c)) + leaked[c]
    BY <2>1 DEF IInv, RefCountExact, References, Request
  <2>10. CountExact(c)'
    BY <2>1, <2>2, <2>3, <2>6, <2>13, <2>8, <2>9 DEF CountExact
  <2>11. ASSUME NEW d \in Chunks \ {c} PROVE CountExact(d)'
    BY <2>2, <2>3, <2>4, <2>5, <2>11, CountUnchanged
  <2>12. QED  BY <2>10, <2>11
<1>12. CASE UNCHANGED vars
  BY <1>12 DEF vars, IInv, RefCountExact, CountExact, References, Holders, Uploads
<1>13. QED
  BY <1>1, <1>2, <1>3, <1>4, <1>5, <1>6, <1>7, <1>8, <1>9, <1>10, <1>11, <1>12
  DEF Next, ClientStep

-----------------------------------------------------------------------------
(* Writes.                                                                 *)

\* Some client or some upload has put its data in the request of chunk c.
Written(c) == Uploads(c) # {} \/ \E w \in Clients : pc[w] = "upload" /\ at[w] = c

\* A step of a client t outside the upload leaves writes serialized if no
\* request that shows a write stops doing so.
LEMMA WritersUnmoved ==
  ASSUME IInv, NEW t \in Clients, pc[t] # "upload",
         NEW s, s # "upload", pc' = [pc EXCEPT ![t] = s],
         \A w \in Clients \ {t} : at'[w] = at[w],
         mine' = mine \/ \A w \in Clients \ {t} : mine'[w] = mine[w],
         uploads' = uploads,
         \A c \in Chunks : \A v \in Versions :
           Written(c) /\ Publishes(c, v) => Publishes(c, v)'
  PROVE  WritesSerialized'
<1>1. \A w \in Clients : pc'[w] = "upload" => /\ w # t /\ pc[w] = "upload"
                                             /\ at'[w] = at[w] /\ at[w] \in Chunks
                                             /\ mine'[w] = mine[w] /\ mine[w] \in Versions
  BY DEF IInv, TypeOK
<1>2. \A u \in uploads : u.chunk \in Chunks /\ u.version \in Versions /\ Uploads(u.chunk) # {}
  BY UploadHasRequest
<1>3. \A c \in Chunks : Uploads(c)' = Uploads(c)
  BY DEF Uploads
<1>4. \A w \in Clients : pc[w] = "upload" => Written(at[w])
  BY DEF Written
<1>5. \A u \in uploads : Written(u.chunk)
  BY <1>2 DEF Written
<1>6. WritesSerialized
  BY DEF IInv
<1>7. \A t1, t2 \in Clients :
        pc'[t1] = "upload" /\ pc'[t2] = "upload" /\ at'[t1] = at'[t2] => t1 = t2
  BY <1>1, <1>6 DEF WritesSerialized
<1>8. (\A w \in Clients : pc[w] = "upload" => Uploads(at[w]) = {} /\ Publishes(at[w], mine[w]))'
  <2> SUFFICES ASSUME NEW w \in Clients, pc'[w] = "upload"
               PROVE  (Uploads(at[w]) = {} /\ Publishes(at[w], mine[w]))'
    OBVIOUS
  <2>1. PICK c \in Chunks, v \in Versions : c = at[w] /\ c = at'[w] /\ v = mine[w] /\ v = mine'[w]
    BY <1>1
  <2>2. Uploads(c) = {} /\ Publishes(c, v) /\ Written(c)
    BY <1>1, <1>4, <1>6, <2>1 DEF WritesSerialized
  <2>3. Uploads(c)' = {} /\ Publishes(c, v)'
    BY <1>3, <2>2
  <2>4. (Uploads(at[w]) = {})'
    BY <2>1, <2>3 DEF Uploads
  <2>5. Publishes(at[w], mine[w])'
    BY <2>1, <2>3 DEF Publishes, Holders
  <2>6. QED  BY <2>4, <2>5
<1>9. (\A u \in uploads : Publishes(u.chunk, u.version))'
  BY <1>2, <1>5, <1>6 DEF WritesSerialized
<1>10. (\A u1, u2 \in uploads : u1.chunk = u2.chunk => u1 = u2)'
  BY <1>6 DEF WritesSerialized
<1>11. QED
  BY <1>7, <1>8, <1>9, <1>10 DEF WritesSerialized

\* A client moves to s at chunk c; a request that shows a write goes on doing
\* so if it is left alone and the client does not start to fetch its chunk.
LEMMA PublishesKept ==
  ASSUME IInv, NEW t \in Clients, NEW c \in Chunks, NEW s,
         pc' = [pc EXCEPT ![t] = s], at' = [at EXCEPT ![t] = c],
         \A d \in Chunks \ {c} : request'[d] = request[d],
         \A v \in Versions : Written(c) /\ Publishes(c, v) =>
           /\ s \notin {"reading", "read"}
           /\ request'[c] # NoRequest
           /\ request'[c].hasData = request[c].hasData
           /\ request'[c].failed = request[c].failed
           /\ request'[c].data = request[c].data
  PROVE  \A d \in Chunks : \A v \in Versions :
           Written(d) /\ Publishes(d, v) => Publishes(d, v)'
<1>1. TypeOK
  BY DEF IInv
<1>2. ASSUME NEW d \in Chunks \ {c}, NEW v \in Versions, Publishes(d, v)
      PROVE  Publishes(d, v)'
  <2>1. \A w \in Holders(d)' : w \in Holders(d) /\ pc'[w] = pc[w]
    BY <1>1 DEF TypeOK, Holders
  <2>2. QED  BY <1>2, <2>1 DEF Publishes
<1>3. ASSUME NEW v \in Versions, Written(c), Publishes(c, v)
      PROVE  Publishes(c, v)'
  <2>1. \A w \in Holders(c)' : w = t \/ (w \in Holders(c) /\ pc'[w] = pc[w])
    BY <1>1 DEF TypeOK, Holders
  <2>2. pc'[t] \notin {"reading", "read"}
    BY <1>1, <1>3 DEF TypeOK
  <2>3. \A w \in Holders(c)' : pc'[w] \notin {"reading", "read"}
    BY <1>3, <2>1, <2>2 DEF Publishes
  <2>4. QED  BY <1>3, <2>3 DEF Publishes
<1>4. QED  BY <1>2, <1>3

\* The reference a reader drops is never the last one of a written chunk.
LEMMA DropKeepsWritten ==
  ASSUME IInv, NEW t \in Clients, pc[t] \in ReaderStates, Written(at[t]),
         NEW r \in Request, r.refCount = request[at[t]].refCount,
         DropReference(at[t], r)
  PROVE  /\ request'[at[t]] # NoRequest
         /\ request'[at[t]].hasData = r.hasData
         /\ request'[at[t]].failed = r.failed
         /\ request'[at[t]].data = r.data
<1>1. TypeOK /\ pc[t] \in HolderStates
  BY DEF IInv, HolderStates
<1>2. at[t] \in Chunks /\ request[at[t]] \in Request /\ request[at[t]].refCount > 0
  BY <1>1, HolderHasRequest
<1>3. ASSUME request[at[t]].refCount = 1 PROVE FALSE
  <2>1. Holders(at[t]) = {t} /\ Uploads(at[t]) = {}
    BY <1>1, <1>3, SoleHolder
  <2>2. PICK w \in Clients : pc[w] = "upload" /\ at[w] = at[t]
    BY <2>1 DEF Written
  <2>3. w \in Holders(at[t])
    BY <2>2 DEF Holders, HolderStates, WriterStates
  <2>4. QED  BY <2>1, <2>2, <2>3 DEF ReaderStates
<1>4. QED  BY <1>1, <1>2, <1>3, DropReferenceEffect

\* A reader that finishes leaves writes serialized.
LEMMA WriteDrop ==
  ASSUME IInv, NEW t \in Clients, pc[t] \in ReaderStates, NEW r \in Request,
         r.refCount = request[at[t]].refCount, DropReference(at[t], r),
         \A v \in Versions : Publishes(at[t], v) => r = request[at[t]],
         pc' = [pc EXCEPT ![t] = "idle"], UNCHANGED <<at, mine, uploads>>
  PROVE  WritesSerialized'
<1>1. TypeOK /\ pc[t] \in HolderStates /\ pc[t] # "upload"
  BY DEF IInv, HolderStates, ReaderStates
<1>2. at[t] \in Chunks /\ r.refCount > 0
  BY <1>1, HolderHasRequest
<1>3. at' = [at EXCEPT ![t] = at[t]]
  BY <1>1 DEF TypeOK
<1>4. \A d \in Chunks \ {at[t]} : request'[d] = request[d]
  BY <1>1, <1>2, DropReferenceEffect
<1>5. \A v \in Versions : Written(at[t]) /\ Publishes(at[t], v) =>
        /\ request'[at[t]] # NoRequest
        /\ request'[at[t]].hasData = request[at[t]].hasData
        /\ request'[at[t]].failed = request[at[t]].failed
        /\ request'[at[t]].data = request[at[t]].data
  BY DropKeepsWritten
<1>6. \A d \in Chunks : \A v \in Versions :
        Written(d) /\ Publishes(d, v) => Publishes(d, v)'
  <2>1. PICK c \in Chunks : c = at[t]
    BY <1>2
  <2>2. at' = [at EXCEPT ![t] = c] /\ \A d \in Chunks \ {c} : request'[d] = request[d]
    BY <1>3, <1>4, <2>1
  <2>3. \A v \in Versions : Written(c) /\ Publishes(c, v) =>
          /\ "idle" \notin {"reading", "read"}
          /\ request'[c] # NoRequest
          /\ request'[c].hasData = request[c].hasData
          /\ request'[c].failed = request[c].failed
          /\ request'[c].data = request[c].data
    BY <1>5, <2>1
  <2>4. QED  BY <2>2, <2>3, PublishesKept
<1>7. QED  BY <1>1, <1>6, WritersUnmoved

\* A step of a client that keeps its reference and the published requests.
LEMMA WriteKeep ==
  ASSUME IInv, NEW t \in Clients, pc[t] \in HolderStates, pc[t] # "upload",
         NEW s, s # "upload", pc' = [pc EXCEPT ![t] = s],
         UNCHANGED <<at, mine, uploads>>,
         \A d \in Chunks \ {at[t]} : request'[d] = request[d],
         \A v \in Versions : Publishes(at[t], v) =>
           /\ s \notin {"reading", "read"}
           /\ request'[at[t]] = request[at[t]]
  PROVE  WritesSerialized'
<1>1. PICK c \in Chunks : c = at[t]
  BY HolderHasRequest
<1>2. at' = [at EXCEPT ![t] = c]
  BY <1>1 DEF IInv, TypeOK
<1>3. \A v \in Versions : Publishes(c, v) => request[c] # NoRequest
  BY DEF Publishes
<1>4. \A d \in Chunks \ {c} : request'[d] = request[d]
  BY <1>1
<1>5. \A v \in Versions : Written(c) /\ Publishes(c, v) =>
        /\ s \notin {"reading", "read"}
        /\ request'[c] # NoRequest
        /\ request'[c].hasData = request[c].hasData
        /\ request'[c].failed = request[c].failed
        /\ request'[c].data = request[c].data
  BY <1>1, <1>3
<1>6. \A d \in Chunks : \A v \in Versions :
        Written(d) /\ Publishes(d, v) => Publishes(d, v)'
  BY <1>2, <1>4, <1>5, PublishesKept
<1>7. QED  BY <1>6, WritersUnmoved

\* A client takes its first reference to a chunk, and does not write it yet.
LEMMA WriteJoin ==
  ASSUME IInv, NEW t \in Clients, pc[t] = "idle", NEW c \in Chunks,
         NEW s, s \notin {"upload", "reading", "read"}, pc' = [pc EXCEPT ![t] = s],
         at' = [at EXCEPT ![t] = c],
         mine' = mine \/ \A w \in Clients \ {t} : mine'[w] = mine[w],
         UNCHANGED uploads,
         \A d \in Chunks \ {c} : request'[d] = request[d],
         request[c] # NoRequest =>
           request' = [request EXCEPT ![c] = [request[c] EXCEPT !.refCount = @ + 1]]
  PROVE  WritesSerialized'
<1>1. TypeOK
  BY DEF IInv
<1>2. ASSUME NEW v \in Versions, Publishes(c, v)
      PROVE  /\ request'[c] # NoRequest
             /\ request'[c].hasData = request[c].hasData
             /\ request'[c].failed = request[c].failed
             /\ request'[c].data = request[c].data
  <2> DEFINE q == [request[c] EXCEPT !.refCount = @ + 1]
  <2>1. request[c] # NoRequest /\ request[c] \in Request
    BY <1>1, <1>2 DEF Publishes, TypeOK
  <2>2. q \in Request
    BY <2>1 DEF Request
  <2>3. /\ q.hasData = request[c].hasData
        /\ q.failed = request[c].failed /\ q.data = request[c].data
    BY <2>1 DEF Request
  <2> HIDE DEF q
  <2>4. request' = [request EXCEPT ![c] = q]
    BY <2>1 DEF q
  <2>5. request'[c] = q
    BY <1>1, <2>4 DEF TypeOK
  <2>6. QED  BY <2>2, <2>3, <2>5
<1>3. \A d \in Chunks : \A v \in Versions :
        Written(d) /\ Publishes(d, v) => Publishes(d, v)'
  BY <1>2, PublishesKept
<1>4. \A w \in Clients \ {t} : at'[w] = at[w]
  BY <1>1 DEF TypeOK
<1>5. QED  BY <1>3, <1>4, WritersUnmoved

\* A client that is alone with its chunk puts its data in the request.
LEMMA WriteBegin ==
  ASSUME IInv, NEW t \in Clients, NEW c \in Chunks, NEW v \in Versions,
         Holders(c) \ {t} = {}, Uploads(c) = {},
         request' = [request EXCEPT ![c] = WrittenRequest(v)],
         pc' = [pc EXCEPT ![t] = "upload"], at' = [at EXCEPT ![t] = c],
         mine' = [mine EXCEPT ![t] = v], uploads' = uploads
  PROVE  WritesSerialized'
<1>1. TypeOK /\ WritesSerialized
  BY DEF IInv
<1>2. pc'[t] = "upload" /\ at'[t] = c /\ mine'[t] = v
  BY <1>1 DEF TypeOK
<1>3. \A w \in Clients \ {t} : /\ pc'[w] = pc[w] /\ at'[w] = at[w] /\ mine'[w] = mine[w]
                              /\ w \notin Holders(c)
  BY <1>1 DEF TypeOK
<1>4. \A w \in Clients \ {t} : pc[w] = "upload" => at[w] # c
  BY <1>3 DEF Holders, HolderStates, WriterStates
<1>5. \A d \in Chunks : Uploads(d)' = Uploads(d)
  BY DEF Uploads
<1>6. Publishes(c, v)'
  <2>1. request'[c] = WrittenRequest(v)
    BY <1>1 DEF TypeOK
  <2>2. \A w \in Holders(c)' : w = t
    BY <1>3 DEF Holders
  <2>3. \A w \in Holders(c)' : pc'[w] \notin {"reading", "read"}
    BY <1>2, <2>2
  <2>4. QED  BY <2>1, <2>3, WrittenIsRequest DEF Publishes
<1>7. ASSUME NEW d \in Chunks \ {c}, NEW x \in Versions, Publishes(d, x)
      PROVE  Publishes(d, x)'
  <2>1. request'[d] = request[d]
    BY <1>1 DEF TypeOK
  <2>2. \A w \in Holders(d)' : w \in Holders(d) /\ pc'[w] = pc[w]
    BY <1>2, <1>3 DEF Holders
  <2>3. QED  BY <1>7, <2>1, <2>2 DEF Publishes
<1>8. (\A t1, t2 \in Clients :
         pc[t1] = "upload" /\ pc[t2] = "upload" /\ at[t1] = at[t2] => t1 = t2)'
  BY <1>1, <1>2, <1>3, <1>4 DEF WritesSerialized
<1>9. (\A w \in Clients : pc[w] = "upload" => Uploads(at[w]) = {} /\ Publishes(at[w], mine[w]))'
  <2> SUFFICES ASSUME NEW w \in Clients, pc'[w] = "upload"
               PROVE  (Uploads(at[w]) = {} /\ Publishes(at[w], mine[w]))'
    OBVIOUS
  <2>1. PICK d \in Chunks, x \in Versions : d = at'[w] /\ x = mine'[w]
    BY <1>1, <1>2, <1>3 DEF TypeOK
  <2>2. Uploads(d)' = {} /\ Publishes(d, x)'
    <3>1. CASE w = t
      BY <1>2, <1>5, <1>6, <2>1, <3>1
    <3>2. CASE w # t
      <4>1. pc[w] = "upload" /\ at[w] = d /\ mine[w] = x /\ d # c
        BY <1>3, <1>4, <2>1, <3>2
      <4>2. Uploads(d) = {} /\ Publishes(d, x)
        BY <1>1, <4>1 DEF WritesSerialized
      <4>3. QED  BY <1>5, <1>7, <4>1, <4>2
    <3>3. QED  BY <3>1, <3>2
  <2>3. (Uploads(at[w]) = {})'
    BY <2>1, <2>2 DEF Uploads
  <2>4. Publishes(at[w], mine[w])'
    BY <2>1, <2>2 DEF Publishes, Holders
  <2>5. QED  BY <2>3, <2>4
<1>10. (\A u \in uploads : Publishes(u.chunk, u.version))'
  <2>1. \A u \in uploads : u.chunk \in Chunks /\ u.version \in Versions /\ u.chunk # c
    BY UploadHasRequest DEF Uploads
  <2>2. QED  BY <1>1, <1>7, <2>1 DEF WritesSerialized
<1>11. (\A u1, u2 \in uploads : u1.chunk = u2.chunk => u1 = u2)'
  BY <1>1 DEF WritesSerialized
<1>12. QED  BY <1>8, <1>9, <1>10, <1>11 DEF WritesSerialized

\* The upload takes over from its writer.
LEMMA WriteHandOver ==
  ASSUME IInv, NEW t \in Clients, WriteChunkImpl(t)
  PROVE  WritesSerialized'
<1>1. TypeOK /\ WritesSerialized
  BY DEF IInv
<1>2. PICK c \in Chunks, v \in Versions, u \in [chunk : Chunks, version : Versions] :
        c = at[t] /\ v = mine[t] /\ u = [chunk |-> c, version |-> v]
  <2>1. PICK c \in Chunks, v \in Versions : c = at[t] /\ v = mine[t]
    BY <1>1 DEF TypeOK
  <2>2. [chunk |-> c, version |-> v] \in [chunk : Chunks, version : Versions]
    OBVIOUS
  <2>3. QED  BY <2>1, <2>2
<1>3. /\ pc[t] = "upload" /\ pc' = [pc EXCEPT ![t] = "idle"]
      /\ uploads' = uploads \cup {u} /\ UNCHANGED <<at, mine, request>>
  BY <1>2 DEF WriteChunkImpl
<1>4. Uploads(c) = {} /\ Publishes(c, v)
  BY <1>1, <1>2, <1>3 DEF WritesSerialized
<1>5. \A w \in Clients : pc'[w] = "upload" => pc[w] = "upload" /\ w # t /\ at[w] # c
  BY <1>1, <1>2, <1>3 DEF TypeOK, WritesSerialized
<1>6. ASSUME NEW d \in Chunks, NEW x \in Versions, Publishes(d, x)
      PROVE  Publishes(d, x)'
  <2>1. \A w \in Holders(d)' : w \in Holders(d) /\ pc'[w] = pc[w]
    BY <1>1, <1>3 DEF TypeOK, Holders, HolderStates, ReaderStates, WriterStates
  <2>2. QED  BY <1>3, <1>6, <2>1 DEF Publishes
<1>7. \A d \in Chunks \ {c} : Uploads(d)' = Uploads(d)
  BY <1>2, <1>3 DEF Uploads
<1>8. (\A t1, t2 \in Clients :
         pc[t1] = "upload" /\ pc[t2] = "upload" /\ at[t1] = at[t2] => t1 = t2)'
  BY <1>1, <1>3, <1>5 DEF WritesSerialized
<1>9. (\A w \in Clients : pc[w] = "upload" => Uploads(at[w]) = {} /\ Publishes(at[w], mine[w]))'
  <2> SUFFICES ASSUME NEW w \in Clients, pc'[w] = "upload"
               PROVE  (Uploads(at[w]) = {} /\ Publishes(at[w], mine[w]))'
    OBVIOUS
  <2>1. PICK d \in Chunks \ {c}, x \in Versions :
          d = at[w] /\ d = at'[w] /\ x = mine[w] /\ x = mine'[w]
    BY <1>1, <1>3, <1>5 DEF TypeOK
  <2>6. Uploads(d) = {} /\ Publishes(d, x)
    BY <1>1, <1>5, <2>1 DEF WritesSerialized
  <2>2. Uploads(d)' = {} /\ Publishes(d, x)'
    BY <1>6, <1>7, <2>6
  <2>3. (Uploads(at[w]) = {})'
    BY <2>1, <2>2 DEF Uploads
  <2>4. Publishes(at[w], mine[w])'
    BY <2>1, <2>2 DEF Publishes, Holders
  <2>7. QED  BY <2>3, <2>4
<1>10. (\A x \in uploads : Publishes(x.chunk, x.version))'
  <2>1. \A x \in uploads : x.chunk \in Chunks /\ x.version \in Versions
    BY UploadHasRequest
  <2>2. Publishes(c, v)'
    BY <1>4, <1>6
  <2>3. ASSUME NEW x \in uploads PROVE Publishes(x.chunk, x.version)'
    BY <1>1, <1>6, <2>1 DEF WritesSerialized
  <2>4. Publishes(u.chunk, u.version)'
    BY <1>2, <2>2
  <2>5. QED  BY <1>3, <2>3, <2>4
<1>11. (\A u1, u2 \in uploads : u1.chunk = u2.chunk => u1 = u2)'
  <2>1. \A x \in uploads : x.chunk # u.chunk
    BY <1>2, <1>4 DEF Uploads
  <2>2. QED  BY <1>1, <1>3, <2>1 DEF WritesSerialized
<1>12. QED  BY <1>8, <1>9, <1>10, <1>11 DEF WritesSerialized

\* The upload's callback drops its reference; the other chunks are as before.
LEMMA WriteEnd ==
  ASSUME IInv, NEW u \in uploads, WriteCompleted(u)
  PROVE  WritesSerialized'
<1>1. TypeOK /\ WritesSerialized
  BY DEF IInv
<1>2. PICK c \in Chunks : c = u.chunk
  BY UploadHasRequest
<1>3. /\ uploads' = uploads \ {u} /\ UNCHANGED <<pc, at, mine>>
      /\ \A d \in Chunks \ {c} : request'[d] = request[d]
  BY <1>1, <1>2, UploadHasRequest, DropReferenceEffect DEF WriteCompleted, clientVars
<1>4. \A w \in Clients : pc[w] = "upload" => at[w] # c
  BY <1>1, <1>2 DEF WritesSerialized, Uploads
<1>5. \A x \in uploads' : x \in uploads /\ x.chunk \in Chunks \ {c} /\ x.version \in Versions
  BY <1>1, <1>2, <1>3, UploadHasRequest DEF WritesSerialized
<1>6. \A d \in Chunks \ {c} : Uploads(d)' = Uploads(d)
  BY <1>2, <1>3 DEF Uploads
<1>7. ASSUME NEW d \in Chunks \ {c}, NEW x \in Versions, Publishes(d, x)
      PROVE  Publishes(d, x)'
  BY <1>3, <1>7 DEF Publishes, Holders
<1>8. (\A t1, t2 \in Clients :
         pc[t1] = "upload" /\ pc[t2] = "upload" /\ at[t1] = at[t2] => t1 = t2)'
  BY <1>1, <1>3 DEF WritesSerialized
<1>9. (\A w \in Clients : pc[w] = "upload" => Uploads(at[w]) = {} /\ Publishes(at[w], mine[w]))'
  <2> SUFFICES ASSUME NEW w \in Clients, pc'[w] = "upload"
               PROVE  (Uploads(at[w]) = {} /\ Publishes(at[w], mine[w]))'
    OBVIOUS
  <2>1. PICK d \in Chunks \ {c}, x \in Versions :
          d = at[w] /\ d = at'[w] /\ x = mine[w] /\ x = mine'[w]
    BY <1>1, <1>3, <1>4 DEF TypeOK
  <2>2. Uploads(d)' = {} /\ Publishes(d, x)'
    BY <1>1, <1>3, <1>6, <1>7, <2>1 DEF WritesSerialized
  <2>3. (Uploads(at[w]) = {})'
    BY <2>1, <2>2 DEF Uploads
  <2>4. Publishes(at[w], mine[w])'
    BY <2>1, <2>2 DEF Publishes, Holders
  <2>5. QED  BY <2>3, <2>4
<1>10. (\A x \in uploads : Publishes(x.chunk, x.version))'
  BY <1>1, <1>5, <1>7 DEF WritesSerialized
<1>11. (\A u1, u2 \in uploads : u1.chunk = u2.chunk => u1 = u2)'
  BY <1>1, <1>3 DEF WritesSerialized
<1>12. QED  BY <1>8, <1>9, <1>10, <1>11 DEF WritesSerialized

\* Every step leaves writes serialized.
LEMMA WriteStep ==
  ASSUME IInv, [Next]_vars
  PROVE  WritesSerialized'
<1>0. TypeOK
  BY DEF IInv
<1>1. ASSUME NEW t \in Clients, NEW c \in Chunks, PrepareReadChunk(t, c) PROVE WritesSerialized'
  <2>1. PICK ok \in BOOLEAN : HoldPreparation(t, c, ok)
    BY <1>1 DEF PrepareReadChunk, PrepareOutcomes, Outcomes
  <2>2. PICK s \in {"idle", "prepared"} : pc' = [pc EXCEPT ![t] = s]
    BY <1>0, <1>1, <2>1 DEF HoldPreparation, PrepareReadChunk, TypeOK
  <2>3. /\ pc[t] = "idle" /\ at' = [at EXCEPT ![t] = c] /\ UNCHANGED <<mine, uploads>>
        /\ \A d \in Chunks \ {c} : request'[d] = request[d]
        /\ request[c] # NoRequest =>
             request' = [request EXCEPT ![c] = [request[c] EXCEPT !.refCount = @ + 1]]
    BY <1>0, <1>1, <2>1 DEF HoldPreparation, PrepareReadChunk, TypeOK
  <2>4. QED  BY <2>2, <2>3, WriteJoin
<1>2. ASSUME NEW t \in Clients, NEW c \in Chunks, WriteChunk(t, c) PROVE WritesSerialized'
  <2>1. /\ pc[t] = "idle" /\ at' = [at EXCEPT ![t] = c] /\ UNCHANGED uploads
        /\ mine' = [mine EXCEPT ![t] = writes + 1]
    BY <1>2 DEF WriteChunk
  <2>2. CASE request[c] = NoRequest
    <3>1. writes + 1 \in Versions
      BY <1>0, <1>2 DEF WriteChunk, TypeOK, Versions
    <3>2. Holders(c) = {} /\ Uploads(c) = {}
      BY <2>2, NoRequestNobody
    <3>3. /\ request' = [request EXCEPT ![c] = WrittenRequest(writes + 1)]
          /\ pc' = [pc EXCEPT ![t] = "upload"]
      BY <1>2, <2>2 DEF WriteChunk
    <3>4. PICK v \in Versions : v = writes + 1
      BY <3>1
    <3>5. QED  BY <2>1, <3>2, <3>3, <3>4, WriteBegin
  <2>3. CASE request[c] # NoRequest
    <3>1. /\ request' = [request EXCEPT ![c] = [request[c] EXCEPT !.refCount = @ + 1]]
          /\ pc' = [pc EXCEPT ![t] = "waitExclusive"]
      BY <1>2, <2>3 DEF WriteChunk
    <3>2. /\ \A d \in Chunks \ {c} : request'[d] = request[d]
          /\ \A w \in Clients \ {t} : mine'[w] = mine[w]
      BY <1>0, <2>1, <3>1 DEF TypeOK
    <3>3. QED  BY <2>1, <3>1, <3>2, WriteJoin
  <2>4. QED  BY <2>2, <2>3
<1>3. ASSUME NEW t \in Clients, ReadChunk(t) PROVE WritesSerialized'
  <2> DEFINE c == at[t]  r == request[c]
  <2>1. pc[t] = "prepared" /\ UNCHANGED <<at, mine, uploads>>
    BY <1>3 DEF ReadChunk
  <2>2. pc[t] \in HolderStates /\ pc[t] \in ReaderStates
    BY <2>1 DEF HolderStates, ReaderStates
  <2>3. c \in Chunks /\ r \in Request
    BY <2>2, HolderHasRequest
  <2>4. CASE FinishRead(t, c, r)
    BY <2>1, <2>2, <2>3, <2>4, WriteDrop DEF FinishRead
  <2>5. CASE ~r.hasData /\ request' = [request EXCEPT ![c] = StartFetch(r)]
             /\ pc' = [pc EXCEPT ![t] = "reading"]
    <3>1. \A v \in Versions : ~Publishes(c, v)
      BY <2>5 DEF Publishes
    <3>2. \A d \in Chunks \ {c} : request'[d] = request[d]
      BY <1>0, <2>5 DEF TypeOK
    <3>3. QED  BY <2>1, <2>2, <2>5, <3>1, <3>2, WriteKeep
  <2>6. CASE request' = request /\ pc' = [pc EXCEPT ![t] = "waiting"]
    <3>1. PICK s \in {"waiting"} : pc' = [pc EXCEPT ![t] = s]
      BY <2>6
    <3>2. pc[t] # "upload" /\ s \notin {"upload", "reading", "read"}
      BY <2>1, <3>1
    <3>3. QED  BY <2>1, <2>2, <2>6, <3>1, <3>2, WriteKeep
  <2>7. QED  BY <1>3, <2>4, <2>5, <2>6 DEF ReadChunk
<1>4. ASSUME NEW t \in Clients, CancelReadChunk(t) PROVE WritesSerialized'
  <2>1. /\ pc[t] = "prepared" /\ UNCHANGED <<at, mine, uploads>>
        /\ DropReference(at[t], request[at[t]]) /\ pc' = [pc EXCEPT ![t] = "idle"]
    BY <1>4 DEF CancelReadChunk
  <2>2. pc[t] \in HolderStates /\ pc[t] \in ReaderStates
    BY <2>1 DEF HolderStates, ReaderStates
  <2>3. QED  BY <2>1, <2>2, HolderHasRequest, WriteDrop
<1>5. ASSUME NEW t \in Clients, ReadChunkImpl(t) PROVE WritesSerialized'
  <2>1. /\ pc[t] = "reading" /\ UNCHANGED <<at, mine, uploads>>
        /\ pc' = [pc EXCEPT ![t] = "read"]
        /\ \A d \in Chunks \ {at[t]} : request'[d] = request[d]
    BY <1>0, <1>5 DEF ReadChunkImpl, TypeOK
  <2>2. pc[t] \in HolderStates /\ pc[t] # "upload"
    BY <2>1 DEF HolderStates, ReaderStates
  <2>3. \A v \in Versions : ~Publishes(at[t], v)
    BY <2>1, <2>2, HolderHasRequest DEF Publishes
  <2>4. QED  BY <2>1, <2>2, <2>3, WriteKeep
<1>6. ASSUME NEW t \in Clients, ReadChunkPublish(t) PROVE WritesSerialized'
  <2> DEFINE r == [request[at[t]] EXCEPT !.hasData = TRUE]
  <2>1. /\ pc[t] = "read" /\ UNCHANGED <<at, mine, uploads>>
        /\ DropReference(at[t], r) /\ pc' = [pc EXCEPT ![t] = "idle"]
    BY <1>6 DEF ReadChunkPublish, FinishRead
  <2>2. pc[t] \in HolderStates /\ pc[t] \in ReaderStates
    BY <2>1 DEF HolderStates, ReaderStates
  <2>3. r \in Request /\ r.refCount = request[at[t]].refCount
    BY <2>2, HolderHasRequest DEF Request
  <2>4. \A v \in Versions : ~Publishes(at[t], v)
    BY <2>1, <2>2, HolderHasRequest DEF Publishes
  <2> HIDE DEF r
  <2>5. QED  BY <2>1, <2>2, <2>3, <2>4, WriteDrop
<1>7. ASSUME NEW t \in Clients, ReadChunkWake(t) PROVE WritesSerialized'
  <2> DEFINE c == at[t]  r == request[c]
  <2>1. pc[t] = "waiting" /\ UNCHANGED <<at, mine, uploads>>
    BY <1>7 DEF ReadChunkWake
  <2>2. pc[t] \in HolderStates /\ pc[t] \in ReaderStates
    BY <2>1 DEF HolderStates, ReaderStates
  <2>3. r \in Request
    BY <2>2, HolderHasRequest
  <2>4. CASE FinishRead(t, c, r)
    BY <2>1, <2>2, <2>3, <2>4, WriteDrop DEF FinishRead
  <2>5. CASE UNCHANGED <<request, pc>>
    BY <1>0, <2>1, <2>5 DEF WritesSerialized, IInv, Uploads, Publishes, Holders
  <2>6. QED  BY <1>7, <2>4, <2>5 DEF ReadChunkWake
<1>8. ASSUME NEW t \in Clients, WriteChunkWake(t) PROVE WritesSerialized'
  <2>1. pc[t] = "waitExclusive" /\ UNCHANGED <<at, mine, uploads>>
    BY <1>8 DEF WriteChunkWake
  <2>2. CASE MayWrite(request[at[t]])
    <3>1. PICK c \in Chunks, v \in Versions : c = at[t] /\ v = mine[t]
      BY <1>0 DEF TypeOK
    <3>2. Holders(c) = {t} /\ Uploads(c) = {}
      BY <2>1, <2>2, <3>1, SoleHolder DEF MayWrite, HolderStates, WriterStates
    <3>3. /\ request' = [request EXCEPT ![c] = WrittenRequest(v)]
          /\ pc' = [pc EXCEPT ![t] = "upload"]
      BY <1>8, <2>2, <3>1 DEF WriteChunkWake
    <3>4. at' = [at EXCEPT ![t] = c] /\ mine' = [mine EXCEPT ![t] = v]
      BY <1>0, <2>1, <3>1 DEF TypeOK
    <3>5. QED  BY <2>1, <3>2, <3>3, <3>4, WriteBegin
  <2>3. CASE ~MayWrite(request[at[t]])
    BY <1>8, <2>1, <2>3 DEF WriteChunkWake, WritesSerialized, IInv, Uploads, Publishes, Holders
  <2>4. QED  BY <2>2, <2>3
<1>9. ASSUME NEW t \in Clients, WriteChunkImpl(t) PROVE WritesSerialized'
  BY <1>9, WriteHandOver
<1>10. ASSUME NEW c \in Chunks, TransferFinished(c) PROVE WritesSerialized'
  BY <1>10 DEF TransferFinished, clientVars, WritesSerialized, IInv, Uploads, Publishes, Holders
<1>11. ASSUME NEW u \in uploads, WriteCompleted(u) PROVE WritesSerialized'
  BY <1>11, WriteEnd
<1>12. CASE UNCHANGED vars
  BY <1>12 DEF vars, WritesSerialized, IInv, Uploads, Publishes, Holders
<1>13. QED
  BY <1>1, <1>2, <1>3, <1>4, <1>5, <1>6, <1>7, <1>8, <1>9, <1>10, <1>11, <1>12
  DEF Next, ClientStep

-----------------------------------------------------------------------------
(* Fetches.                                                                *)

\* Nobody fetches a chunk that another client fetches.
FetchOnce ==
  \A t1, t2 \in Clients : Fetching(t1) /\ Fetching(t2) /\ at[t1] = at[t2] => t1 = t2

\* A step of client t at chunk c leaves the marks that other clients rely on.
MarksKept(t, c) ==
  /\ \A d \in Chunks \ {c} : request'[d] = request[d]
  /\ \A w \in Clients \ {t} : (Fetching(w) \/ pc[w] = "waiting") /\ at[w] = c =>
       /\ request'[c] # NoRequest
       /\ request'[c].settingData = request[c].settingData
       /\ request'[c].hasData = request[c].hasData
  /\ request'[c] # NoRequest /\ request'[c].settingData /\ ~request'[c].hasData =>
       request[c] # NoRequest /\ request[c].settingData /\ ~request[c].hasData

\* Waiters wait for a fetch because of the marks: only these, and that nobody
\* fetches twice, have to be kept.
LEMMA MarkedIsWaitedFor ==
  ASSUME TypeOK, FetchMarked, FetchOnce
  PROVE  SingleFetch
<1>1. ASSUME NEW t \in Clients, pc[t] = "waiting", ~request[at[t]].hasData
      PROVE  \E f \in Holders(at[t]) : Fetching(f)
  <2>1. PICK c \in Chunks : c = at[t]
    BY DEF TypeOK
  <2>2. PICK f \in Clients : Fetching(f) /\ at[f] = c
    BY <1>1, <2>1 DEF FetchMarked
  <2>3. QED  BY <2>1, <2>2 DEF Fetching, Holders, HolderStates, ReaderStates
<1>2. QED  BY <1>1 DEF SingleFetch, FetchOnce

\* A client that does not fetch moves, and the marks of its chunk stay.
LEMMA FetchKept ==
  ASSUME IInv, NEW t \in Clients, NEW c \in Chunks, NEW s, ~Fetching(t),
         s \notin {"reading", "read"},
         pc' = [pc EXCEPT ![t] = s], at' = [at EXCEPT ![t] = c],
         MarksKept(t, c),
         s = "waiting" => request'[c] # NoRequest /\ request'[c].settingData
  PROVE  FetchMarked' /\ FetchOnce'
<1>1. TypeOK /\ FetchMarked /\ SingleFetch
  BY DEF IInv
<1>2. pc'[t] = s /\ at'[t] = c /\ ~Fetching(t)'
  BY <1>1 DEF TypeOK, Fetching
<1>3. \A w \in Clients \ {t} : /\ pc'[w] = pc[w] /\ at'[w] = at[w] /\ at[w] \in Chunks
                              /\ Fetching(w)' = Fetching(w)
  BY <1>1 DEF TypeOK, Fetching
<1>4. FetchOnce'
  BY <1>1, <1>2, <1>3 DEF SingleFetch, FetchOnce
<1>5. ASSUME NEW w \in Clients, Fetching(w)'
      PROVE  (request[at[w]] # NoRequest /\ request[at[w]].settingData /\ ~request[at[w]].hasData)'
  BY <1>1, <1>2, <1>3, <1>5 DEF FetchMarked, MarksKept
<1>6. ASSUME NEW w \in Clients, pc'[w] = "waiting"
      PROVE  (request[at[w]] # NoRequest /\ request[at[w]].settingData)'
  BY <1>1, <1>2, <1>3, <1>6 DEF FetchMarked, MarksKept
<1>7. ASSUME NEW d \in Chunks, request'[d] # NoRequest, request'[d].settingData, ~request'[d].hasData
      PROVE  (\E w \in Clients : Fetching(w) /\ at[w] = d)'
  <2>1. PICK w \in Clients : Fetching(w) /\ at[w] = d
    BY <1>1, <1>7 DEF FetchMarked, MarksKept
  <2>2. QED  BY <1>3, <2>1
<1>8. QED  BY <1>4, <1>5, <1>6, <1>7 DEF FetchMarked

\* While another client holds the chunk, a dropped reference leaves the request.
LEMMA DropKeepsShared ==
  ASSUME IInv, NEW t \in Clients, pc[t] \in HolderStates,
         NEW w \in Clients \ {t}, pc[w] \in HolderStates, at[w] = at[t],
         NEW r \in Request, r.refCount = request[at[t]].refCount, DropReference(at[t], r)
  PROVE  /\ request'[at[t]] # NoRequest
         /\ request'[at[t]].settingData = r.settingData
         /\ request'[at[t]].hasData = r.hasData
<1>1. TypeOK /\ w \in Holders(at[t])
  BY DEF IInv, Holders
<1>2. at[t] \in Chunks /\ request[at[t]].refCount > 0
  BY HolderHasRequest
<1>3. request[at[t]].refCount # 1
  BY <1>1, SoleHolder
<1>4. QED  BY <1>1, <1>2, <1>3, DropReferenceEffect

\* A client that does not fetch gives up its reference.
LEMMA FetchDrop ==
  ASSUME IInv, NEW t \in Clients, pc[t] \in HolderStates, ~Fetching(t),
         DropReference(at[t], request[at[t]]),
         pc' = [pc EXCEPT ![t] = "idle"], at' = at
  PROVE  FetchMarked' /\ FetchOnce'
<1>1. TypeOK
  BY DEF IInv
<1>2. PICK c \in Chunks, r \in Request : c = at[t] /\ r = request[c] /\ r.refCount > 0
  BY HolderHasRequest
<1>3. /\ \A d \in Chunks \ {c} : request'[d] = request[d]
      /\ request'[c] # NoRequest =>
           request'[c].settingData = r.settingData /\ request'[c].hasData = r.hasData
  BY <1>1, <1>2, DropReferenceEffect
<1>4. \A w \in Clients : Fetching(w) \/ pc[w] = "waiting" => pc[w] \in HolderStates
  BY DEF Fetching, HolderStates, ReaderStates
<1>5. ASSUME NEW w \in Clients \ {t}, Fetching(w) \/ pc[w] = "waiting", at[w] = c
      PROVE  /\ request'[c] # NoRequest
             /\ request'[c].settingData = request[c].settingData
             /\ request'[c].hasData = request[c].hasData
  BY <1>2, <1>4, <1>5, DropKeepsShared
<1>6. request[c] # NoRequest
  BY <1>2
<1>7. at' = [at EXCEPT ![t] = c]
  BY <1>1, <1>2 DEF TypeOK
<1>8. PICK s \in {"idle"} : pc' = [pc EXCEPT ![t] = s]
  OBVIOUS
<1>9. s \notin {"reading", "read"} /\ s # "waiting"
  BY <1>8
<1>10. MarksKept(t, c)
  BY <1>2, <1>3, <1>5, <1>6 DEF MarksKept
<1>11. QED  BY <1>7, <1>8, <1>9, <1>10, FetchKept

\* The callback of an upload that sees refCount = 1 leaves no client behind.
LEMMA UploadAlone ==
  ASSUME IInv, NEW u \in uploads, request[u.chunk].refCount = 1
  PROVE  Holders(u.chunk) = {}
<1> DEFINE c == u.chunk
<1>1. c \in Chunks /\ u \in Uploads(c) /\ request[c] \in Request
  BY UploadHasRequest
<1>2. /\ IsFiniteSet(Holders(c)) /\ Cardinality(Holders(c)) \in Nat
      /\ IsFiniteSet(Uploads(c)) /\ Cardinality(Uploads(c)) \in Nat
  BY <1>1, HoldersFinite DEF IInv
<1>3. 1 = Cardinality(Holders(c)) + Cardinality(Uploads(c)) + leaked[c]
  BY <1>1 DEF IInv, RefCountExact, References
<1>4. leaked[c] \in Nat
  BY <1>1 DEF IInv, TypeOK
<1>5. Cardinality(Uploads(c)) # 0
  BY <1>1, <1>2, FS_EmptySet
<1>6. Cardinality(Holders(c)) = 0
  BY <1>2, <1>3, <1>4, <1>5
<1>7. QED  BY <1>2, <1>6, FS_EmptySet

\* A step that moves no client and erases no held request keeps the marks.
LEMMA FetchStill ==
  ASSUME IInv, UNCHANGED <<pc, at>>,
         \A c \in Chunks : request'[c] # NoRequest =>
           /\ request[c] # NoRequest
           /\ request'[c].settingData = request[c].settingData
           /\ request'[c].hasData = request[c].hasData,
         \A c \in Chunks : request'[c] = NoRequest =>
           request[c] = NoRequest \/ Holders(c) = {}
  PROVE  FetchMarked' /\ FetchOnce'
<1>1. TypeOK /\ FetchMarked /\ SingleFetch
  BY DEF IInv
<1>2. \A w \in Clients : Fetching(w)' = Fetching(w)
  BY DEF Fetching
<1>3. FetchOnce'
  BY <1>1, <1>2 DEF SingleFetch, FetchOnce
<1>4. ASSUME NEW w \in Clients, Fetching(w) \/ pc[w] = "waiting"
      PROVE  /\ at[w] \in Chunks /\ request[at[w]] # NoRequest /\ request'[at[w]] # NoRequest
             /\ request'[at[w]].settingData = request[at[w]].settingData
             /\ request'[at[w]].hasData = request[at[w]].hasData
  <2>1. at[w] \in Chunks /\ w \in Holders(at[w])
    BY <1>1, <1>4 DEF TypeOK, Fetching, Holders, HolderStates, ReaderStates
  <2>2. request[at[w]] # NoRequest
    BY <1>1, <1>4 DEF FetchMarked
  <2>3. QED  BY <2>1, <2>2
<1>5. ASSUME NEW w \in Clients, Fetching(w)'
      PROVE  (request[at[w]] # NoRequest /\ request[at[w]].settingData /\ ~request[at[w]].hasData)'
  BY <1>1, <1>2, <1>4, <1>5 DEF FetchMarked
<1>6. ASSUME NEW w \in Clients, pc'[w] = "waiting"
      PROVE  (request[at[w]] # NoRequest /\ request[at[w]].settingData)'
  BY <1>1, <1>4, <1>6 DEF FetchMarked
<1>7. ASSUME NEW d \in Chunks, request'[d] # NoRequest, request'[d].settingData, ~request'[d].hasData
      PROVE  (\E w \in Clients : Fetching(w) /\ at[w] = d)'
  BY <1>1, <1>2, <1>7 DEF FetchMarked
<1>8. QED  BY <1>3, <1>5, <1>6, <1>7 DEF FetchMarked

\* A client takes its first reference to a chunk: it does not fetch or wait yet.
LEMMA FetchJoin ==
  ASSUME IInv, NEW t \in Clients, pc[t] = "idle", NEW c \in Chunks,
         NEW s, s \notin {"waiting", "reading", "read"}, pc' = [pc EXCEPT ![t] = s],
         at' = [at EXCEPT ![t] = c],
         \A d \in Chunks \ {c} : request'[d] = request[d],
         request[c] = NoRequest =>
           ~request'[c].settingData,
         request[c] # NoRequest =>
           request' = [request EXCEPT ![c] = [request[c] EXCEPT !.refCount = @ + 1]]
  PROVE  FetchMarked' /\ FetchOnce'
<1>1. TypeOK
  BY DEF IInv
<1>2. ASSUME request[c] # NoRequest
      PROVE  /\ request'[c] # NoRequest
             /\ request'[c].settingData = request[c].settingData
             /\ request'[c].hasData = request[c].hasData
  <2> DEFINE q == [request[c] EXCEPT !.refCount = @ + 1]
  <2>1. request[c] \in Request
    BY <1>1, <1>2 DEF TypeOK
  <2>2. q \in Request
    BY <2>1 DEF Request
  <2>3. q.settingData = request[c].settingData /\ q.hasData = request[c].hasData
    BY <2>1 DEF Request
  <2>4. request' = [request EXCEPT ![c] = q]
    BY <1>2
  <2> HIDE DEF q
  <2>5. request'[c] = q
    BY <1>1, <2>4 DEF TypeOK
  <2>6. QED  BY <2>2, <2>3, <2>5
<1>3. ASSUME NEW w \in Clients \ {t}, Fetching(w) \/ pc[w] = "waiting", at[w] = c
      PROVE  request[c] # NoRequest
  <2>1. w \in Holders(c)
    BY <1>3 DEF Fetching, Holders, HolderStates, ReaderStates
  <2>2. QED  BY <2>1, NoRequestNobody
<1>4. MarksKept(t, c)
  BY <1>2, <1>3 DEF MarksKept
<1>5. ~Fetching(t)
  BY DEF Fetching
<1>6. QED  BY <1>4, <1>5, FetchKept

\* The one client that finds a request neither filled nor marked marks it.
LEMMA FetchBegin ==
  ASSUME IInv, NEW t \in Clients, pc[t] = "prepared",
         ~request[at[t]].hasData, ~request[at[t]].settingData,
         request' = [request EXCEPT ![at[t]] = StartFetch(request[at[t]])],
         pc' = [pc EXCEPT ![t] = "reading"], at' = at
  PROVE  FetchMarked' /\ FetchOnce'
<1>1. TypeOK /\ FetchMarked /\ SingleFetch
  BY DEF IInv
<1>2. PICK c \in Chunks, r \in Request : c = at[t] /\ r = request[c]
  BY HolderHasRequest DEF HolderStates, ReaderStates
<1>3. PICK q \in Request : q = StartFetch(r) /\ q.settingData /\ ~q.hasData
  <2>1. StartFetch(r) \in Request /\ StartFetch(r).settingData /\ ~StartFetch(r).hasData
    BY <1>2 DEF StartFetch, Request
  <2>2. QED  BY <2>1
<1>4. request'[c] = q /\ \A d \in Chunks \ {c} : request'[d] = request[d]
  BY <1>1, <1>2, <1>3 DEF TypeOK
<1>5. Fetching(t)' /\ pc'[t] = "reading"
  BY <1>1 DEF TypeOK, Fetching
<1>6. \A w \in Clients \ {t} : pc'[w] = pc[w] /\ Fetching(w)' = Fetching(w)
  BY <1>1 DEF TypeOK, Fetching
<1>7. \A w \in Clients : Fetching(w) => at[w] # c
  BY <1>1, <1>2 DEF FetchMarked
<1>8. FetchOnce'
  BY <1>1, <1>2, <1>6, <1>7 DEF SingleFetch, FetchOnce
<1>9. ASSUME NEW w \in Clients, Fetching(w)'
      PROVE  (request[at[w]] # NoRequest /\ request[at[w]].settingData /\ ~request[at[w]].hasData)'
  BY <1>1, <1>2, <1>3, <1>4, <1>6, <1>9 DEF FetchMarked, TypeOK
<1>10. ASSUME NEW w \in Clients, pc'[w] = "waiting"
       PROVE  (request[at[w]] # NoRequest /\ request[at[w]].settingData)'
  BY <1>1, <1>3, <1>4, <1>5, <1>6, <1>10 DEF FetchMarked, TypeOK
<1>11. ASSUME NEW d \in Chunks, request'[d] # NoRequest, request'[d].settingData, ~request'[d].hasData
       PROVE  (\E w \in Clients : Fetching(w) /\ at[w] = d)'
  <2>1. CASE d = c
    BY <1>2, <1>5, <2>1
  <2>2. CASE d # c
    <3>1. PICK w \in Clients : Fetching(w) /\ at[w] = d
      BY <1>1, <1>4, <1>11, <2>2 DEF FetchMarked
    <3>2. QED  BY <1>2, <1>5, <1>6, <3>1
  <2>3. QED  BY <2>1, <2>2
<1>12. QED  BY <1>8, <1>9, <1>10, <1>11 DEF FetchMarked

\* The fetching client fills the request behind the mark.
LEMMA FetchFill ==
  ASSUME IInv, NEW t \in Clients, ReadChunkImpl(t)
  PROVE  FetchMarked' /\ FetchOnce'
<1>1. TypeOK /\ FetchMarked /\ SingleFetch
  BY DEF IInv
<1>2. pc[t] = "reading" /\ pc' = [pc EXCEPT ![t] = "read"] /\ at' = at
  BY DEF ReadChunkImpl
<1>3. PICK c \in Chunks, r \in Request : c = at[t] /\ r = request[c]
  BY <1>2, HolderHasRequest DEF HolderStates, ReaderStates
<1>4. PICK q \in Request : /\ request' = [request EXCEPT ![c] = q]
                           /\ q.settingData = r.settingData /\ q.hasData = r.hasData
  <2> DEFINE q == [r EXCEPT !.failed = pending[c] # "done",
                            !.data = IF pending[c] = "done" THEN fetched[c] ELSE @]
  <2>1. q \in Request
    BY <1>1, <1>3 DEF Request, TypeOK
  <2>2. q.settingData = r.settingData /\ q.hasData = r.hasData
    BY <1>3 DEF Request
  <2>3. request' = [request EXCEPT ![c] = q]
    BY <1>1, <1>3 DEF ReadChunkImpl, TypeOK
  <2> HIDE DEF q
  <2>4. QED  BY <2>1, <2>2, <2>3
<1>5. \A w \in Clients : Fetching(w)' = Fetching(w) /\ (pc'[w] = "waiting" => pc[w] = "waiting")
  BY <1>1, <1>2 DEF TypeOK, Fetching
<1>6. \A d \in Chunks :
        /\ request'[d] # NoRequest <=> request[d] # NoRequest
        /\ request'[d].settingData = request[d].settingData
        /\ request'[d].hasData = request[d].hasData
  BY <1>1, <1>3, <1>4 DEF TypeOK
<1>7. FetchOnce'
  BY <1>1, <1>2, <1>5 DEF SingleFetch, FetchOnce
<1>8. ASSUME NEW w \in Clients, Fetching(w)'
      PROVE  (request[at[w]] # NoRequest /\ request[at[w]].settingData /\ ~request[at[w]].hasData)'
  BY <1>1, <1>2, <1>5, <1>6, <1>8 DEF FetchMarked, TypeOK
<1>9. ASSUME NEW w \in Clients, pc'[w] = "waiting"
      PROVE  (request[at[w]] # NoRequest /\ request[at[w]].settingData)'
  BY <1>1, <1>2, <1>5, <1>6, <1>9 DEF FetchMarked, TypeOK
<1>10. ASSUME NEW d \in Chunks, request'[d] # NoRequest, request'[d].settingData, ~request'[d].hasData
       PROVE  (\E w \in Clients : Fetching(w) /\ at[w] = d)'
  BY <1>1, <1>2, <1>5, <1>6, <1>10 DEF FetchMarked
<1>11. QED  BY <1>7, <1>8, <1>9, <1>10 DEF FetchMarked

\* The fetching client publishes the data: those who wait still find it there.
LEMMA FetchEnd ==
  ASSUME IInv, NEW t \in Clients, ReadChunkPublish(t)
  PROVE  FetchMarked' /\ FetchOnce'
<1>1. TypeOK /\ FetchMarked /\ SingleFetch
  BY DEF IInv
<1>2. pc[t] = "read" /\ pc' = [pc EXCEPT ![t] = "idle"] /\ at' = at
  BY DEF ReadChunkPublish, FinishRead
<1>3. pc[t] \in HolderStates /\ Fetching(t)
  BY <1>2 DEF HolderStates, ReaderStates, Fetching
<1>4. PICK c \in Chunks : c = at[t] /\ request[c] \in Request /\ request[c].refCount > 0
  BY <1>3, HolderHasRequest
<1>5. PICK r \in Request : /\ DropReference(c, r) /\ r.refCount = request[c].refCount
                           /\ r.settingData /\ r.hasData
  <2> DEFINE q == [request[c] EXCEPT !.hasData = TRUE]
  <2>1. q \in Request /\ q.refCount = request[c].refCount /\ q.hasData
        /\ q.settingData = request[c].settingData
    BY <1>4 DEF Request
  <2>2. DropReference(c, q)
    BY <1>4 DEF ReadChunkPublish, FinishRead
  <2>3. request[c].settingData
    BY <1>1, <1>3, <1>4 DEF FetchMarked
  <2> HIDE DEF q
  <2>4. QED  BY <2>1, <2>2, <2>3
<1>6. \A d \in Chunks \ {c} : request'[d] = request[d]
  BY <1>1, <1>4, <1>5, DropReferenceEffect
<1>7. request'[c] # NoRequest => request'[c].settingData /\ request'[c].hasData
  BY <1>1, <1>4, <1>5, DropReferenceEffect
<1>8. \A w \in Clients \ {t} : at[w] = c => ~Fetching(w)
  BY <1>1, <1>3, <1>4 DEF SingleFetch
<1>9. ASSUME NEW w \in Clients \ {t}, pc[w] = "waiting", at[w] = c
      PROVE  request'[c] # NoRequest
  <2>1. pc[w] \in HolderStates
    BY <1>9 DEF HolderStates, ReaderStates
  <2>2. QED  BY <1>3, <1>4, <1>5, <1>9, <2>1, DropKeepsShared
<1>10. \A w \in Clients \ {t} : pc'[w] = pc[w] /\ Fetching(w)' = Fetching(w)
  BY <1>1, <1>2 DEF TypeOK, Fetching
<1>11. pc'[t] = "idle" /\ ~Fetching(t)'
  BY <1>1, <1>2 DEF TypeOK, Fetching
<1>12. FetchOnce'
  BY <1>1, <1>2, <1>10, <1>11 DEF SingleFetch, FetchOnce
<1>13. ASSUME NEW w \in Clients, Fetching(w)'
       PROVE  (request[at[w]] # NoRequest /\ request[at[w]].settingData /\ ~request[at[w]].hasData)'
  <2>1. w # t /\ Fetching(w) /\ at'[w] = at[w] /\ at[w] \in Chunks \ {c}
    BY <1>1, <1>2, <1>8, <1>10, <1>11, <1>13 DEF TypeOK
  <2>2. QED  BY <1>1, <1>6, <2>1 DEF FetchMarked
<1>14. ASSUME NEW w \in Clients, pc'[w] = "waiting"
       PROVE  (request[at[w]] # NoRequest /\ request[at[w]].settingData)'
  <2>1. w # t /\ pc[w] = "waiting" /\ at'[w] = at[w] /\ at[w] \in Chunks
    BY <1>1, <1>2, <1>10, <1>11, <1>14 DEF TypeOK
  <2>2. QED  BY <1>1, <1>6, <1>7, <1>9, <2>1 DEF FetchMarked
<1>15. ASSUME NEW d \in Chunks, request'[d] # NoRequest, request'[d].settingData, ~request'[d].hasData
       PROVE  (\E w \in Clients : Fetching(w) /\ at[w] = d)'
  <2>1. d # c /\ request'[d] = request[d]
    BY <1>6, <1>7, <1>15
  <2>2. PICK w \in Clients : Fetching(w) /\ at[w] = d
    BY <1>1, <1>15, <2>1 DEF FetchMarked
  <2>3. w # t
    BY <1>4, <2>1, <2>2
  <2>4. QED  BY <1>2, <1>10, <2>2, <2>3
<1>16. QED  BY <1>12, <1>13, <1>14, <1>15 DEF FetchMarked

\* Every step keeps the marks, and lets one client at a time fetch a chunk.
LEMMA FetchStep ==
  ASSUME IInv, [Next]_vars
  PROVE  FetchMarked' /\ FetchOnce'
<1>0. TypeOK
  BY DEF IInv
<1> USE DEF HolderStates, ReaderStates, WriterStates
<1>1. ASSUME NEW t \in Clients, NEW c \in Chunks, PrepareReadChunk(t, c)
      PROVE  FetchMarked' /\ FetchOnce'
  <2>1. PICK ok \in BOOLEAN : HoldPreparation(t, c, ok)
    BY <1>1 DEF PrepareReadChunk, PrepareOutcomes, Outcomes
  <2>2. PICK s \in {"idle", "prepared"} : pc' = [pc EXCEPT ![t] = s]
    BY <1>0, <1>1, <2>1 DEF HoldPreparation, PrepareReadChunk, TypeOK
  <2>3. /\ pc[t] = "idle" /\ at' = [at EXCEPT ![t] = c]
        /\ \A d \in Chunks \ {c} : request'[d] = request[d]
        /\ request[c] # NoRequest =>
             request' = [request EXCEPT ![c] = [request[c] EXCEPT !.refCount = @ + 1]]
    BY <1>0, <1>1, <2>1 DEF HoldPreparation, PrepareReadChunk, TypeOK
  <2>4. request[c] = NoRequest => ~request'[c].settingData
    <3>1. SUFFICES ASSUME request[c] = NoRequest PROVE ~request'[c].settingData
      OBVIOUS
    <3>2. PICK f \in BOOLEAN : request' = [request EXCEPT ![c] = FreshRequest(f)]
      BY <1>1, <3>1 DEF PrepareReadChunk, PrepareOutcomes, Outcomes
    <3>3. request'[c] = FreshRequest(f)
      BY <1>0, <3>2 DEF TypeOK
    <3>4. QED  BY <3>3, FreshIsRequest
  <2>5. s \notin {"waiting", "reading", "read"}
    OBVIOUS
  <2>6. QED  BY <2>2, <2>3, <2>4, <2>5, FetchJoin
<1>2. ASSUME NEW t \in Clients, NEW c \in Chunks, WriteChunk(t, c)
      PROVE  FetchMarked' /\ FetchOnce'
  <2>1. PICK s \in {"upload", "waitExclusive"} : pc' = [pc EXCEPT ![t] = s]
    BY <1>2 DEF WriteChunk
  <2>2. /\ pc[t] = "idle" /\ at' = [at EXCEPT ![t] = c]
        /\ \A d \in Chunks \ {c} : request'[d] = request[d]
        /\ request[c] # NoRequest =>
             request' = [request EXCEPT ![c] = [request[c] EXCEPT !.refCount = @ + 1]]
    BY <1>0, <1>2 DEF WriteChunk, TypeOK
  <2>3. request[c] = NoRequest => ~request'[c].settingData
    BY <1>0, <1>2 DEF WriteChunk, WrittenRequest, TypeOK
  <2>4. s \notin {"waiting", "reading", "read"}
    OBVIOUS
  <2>5. QED  BY <2>1, <2>2, <2>3, <2>4, FetchJoin
<1>3. ASSUME NEW t \in Clients, ReadChunk(t) PROVE FetchMarked' /\ FetchOnce'
  <2>1. pc[t] = "prepared" /\ at' = at
    BY <1>3 DEF ReadChunk
  <2>2. PICK c \in Chunks : c = at[t] /\ request[c] # NoRequest
    BY <1>3, <2>1, HolderHasRequest DEF ReadChunk
  <2>3. CASE FinishRead(t, at[t], request[at[t]])
    BY <2>1, <2>3, FetchDrop DEF FinishRead, Fetching
  <2>4. CASE /\ ~request[at[t]].hasData /\ ~request[at[t]].settingData
             /\ request' = [request EXCEPT ![at[t]] = StartFetch(request[at[t]])]
             /\ pc' = [pc EXCEPT ![t] = "reading"]
    BY <2>1, <2>4, FetchBegin
  <2>5. CASE /\ request[at[t]].settingData /\ request' = request
             /\ pc' = [pc EXCEPT ![t] = "waiting"]
    <3>1. MarksKept(t, c)
      <4>1. \A w \in Clients : Fetching(w) \/ pc[w] = "waiting" => request[at[w]] # NoRequest
        BY DEF IInv, FetchMarked
      <4>2. QED  BY <2>5, <4>1 DEF MarksKept
    <3>2. at' = [at EXCEPT ![t] = c]
      BY <1>0, <2>1, <2>2 DEF TypeOK
    <3>3. PICK s \in {"waiting"} : pc' = [pc EXCEPT ![t] = s]
      BY <2>5
    <3>4. s \notin {"reading", "read"} /\ ~Fetching(t)
      BY <2>1 DEF Fetching
    <3>5. s = "waiting" => request'[c] # NoRequest /\ request'[c].settingData
      BY <2>2, <2>5
    <3>6. QED  BY <3>1, <3>2, <3>3, <3>4, <3>5, FetchKept
  <2>6. QED  BY <1>3, <2>3, <2>4, <2>5 DEF ReadChunk
<1>4. ASSUME NEW t \in Clients, CancelReadChunk(t) PROVE FetchMarked' /\ FetchOnce'
  <2>1. /\ pc[t] = "prepared" /\ at' = at /\ pc' = [pc EXCEPT ![t] = "idle"]
        /\ DropReference(at[t], request[at[t]])
    BY <1>4 DEF CancelReadChunk
  <2>2. QED  BY <2>1, FetchDrop DEF Fetching
<1>5. ASSUME NEW t \in Clients, ReadChunkImpl(t) PROVE FetchMarked' /\ FetchOnce'
  BY <1>5, FetchFill
<1>6. ASSUME NEW t \in Clients, ReadChunkPublish(t) PROVE FetchMarked' /\ FetchOnce'
  BY <1>6, FetchEnd
<1>7. ASSUME NEW t \in Clients, ReadChunkWake(t) PROVE FetchMarked' /\ FetchOnce'
  <2>1. pc[t] = "waiting" /\ at' = at
    BY <1>7 DEF ReadChunkWake
  <2>2. CASE FinishRead(t, at[t], request[at[t]])
    BY <2>1, <2>2, FetchDrop DEF FinishRead, Fetching
  <2>3. CASE UNCHANGED <<request, pc>>
    BY <2>1, <2>3, FetchStill
  <2>4. QED  BY <1>7, <2>2, <2>3 DEF ReadChunkWake
<1>8. ASSUME NEW t \in Clients, WriteChunkWake(t) PROVE FetchMarked' /\ FetchOnce'
  <2>1. pc[t] = "waitExclusive" /\ at' = at
    BY <1>8 DEF WriteChunkWake
  <2>2. CASE MayWrite(request[at[t]])
    <3>1. PICK c \in Chunks : c = at[t]
      BY <1>0 DEF TypeOK
    <3>2. Holders(c) = {t}
      BY <2>1, <2>2, <3>1, SoleHolder DEF MayWrite
    <3>3. /\ request' = [request EXCEPT ![c] = WrittenRequest(mine[t])]
          /\ pc' = [pc EXCEPT ![t] = "upload"]
      BY <1>8, <2>2, <3>1 DEF WriteChunkWake
    <3>4. request'[c].hasData /\ \A d \in Chunks \ {c} : request'[d] = request[d]
      BY <1>0, <3>3 DEF WrittenRequest, TypeOK
    <3>5. \A w \in Clients \ {t} : (Fetching(w) \/ pc[w] = "waiting") => at[w] # c
      BY <3>2 DEF Holders, Fetching
    <3>6. MarksKept(t, c)
      BY <3>4, <3>5 DEF MarksKept
    <3>7. PICK s \in {"upload"} : pc' = [pc EXCEPT ![t] = s]
      BY <3>3
    <3>8. s \notin {"reading", "read"} /\ s # "waiting" /\ ~Fetching(t)
      BY <2>1 DEF Fetching
    <3>9. at' = [at EXCEPT ![t] = c]
      BY <1>0, <2>1, <3>1 DEF TypeOK
    <3>10. QED  BY <3>6, <3>7, <3>8, <3>9, FetchKept
  <2>3. CASE ~MayWrite(request[at[t]])
    BY <1>8, <2>1, <2>3, FetchStill DEF WriteChunkWake
  <2>4. QED  BY <2>2, <2>3
<1>9. ASSUME NEW t \in Clients, WriteChunkImpl(t) PROVE FetchMarked' /\ FetchOnce'
  <2>1. /\ pc[t] = "upload" /\ UNCHANGED <<at, request>>
        /\ pc' = [pc EXCEPT ![t] = "idle"]
    BY <1>9 DEF WriteChunkImpl
  <2>2. PICK c \in Chunks : c = at[t]
    BY <1>0 DEF TypeOK
  <2>3. MarksKept(t, c)
    <3>1. \A w \in Clients : Fetching(w) \/ pc[w] = "waiting" => request[at[w]] # NoRequest
      BY DEF IInv, FetchMarked
    <3>2. QED  BY <2>1, <3>1 DEF MarksKept
  <2>4. at' = [at EXCEPT ![t] = c]
    BY <1>0, <2>1, <2>2 DEF TypeOK
  <2>5. PICK s \in {"idle"} : pc' = [pc EXCEPT ![t] = s]
    BY <2>1
  <2>6. s \notin {"reading", "read"} /\ s # "waiting" /\ ~Fetching(t)
    BY <2>1 DEF Fetching
  <2>7. QED  BY <2>3, <2>4, <2>5, <2>6, FetchKept
<1>10. ASSUME NEW c \in Chunks, TransferFinished(c) PROVE FetchMarked' /\ FetchOnce'
  BY <1>10, FetchStill DEF TransferFinished, clientVars
<1>11. ASSUME NEW u \in uploads, WriteCompleted(u) PROVE FetchMarked' /\ FetchOnce'
  <2>1. PICK c \in Chunks, r \in Request : c = u.chunk /\ r = request[c] /\ r.refCount > 0
    BY UploadHasRequest
  <2>2. DropReference(c, r) /\ UNCHANGED <<pc, at>>
    BY <1>11, <2>1 DEF WriteCompleted, clientVars
  <2>3. /\ request'[c] = NoRequest <=> r.refCount = 1
        /\ request'[c] # NoRequest =>
             request'[c].settingData = r.settingData /\ request'[c].hasData = r.hasData
        /\ \A d \in Chunks \ {c} : request'[d] = request[d]
    BY <1>0, <2>1, <2>2, DropReferenceEffect
  <2>4. request'[c] = NoRequest => Holders(c) = {}
    BY <2>1, <2>3, UploadAlone
  <2>5. request[c] # NoRequest
    BY <2>1
  <2>6. QED  BY <2>1, <2>2, <2>3, <2>4, <2>5, FetchStill
<1>12. CASE UNCHANGED vars
  BY <1>12, FetchStill DEF vars
<1>13. QED
  BY <1>1, <1>2, <1>3, <1>4, <1>5, <1>6, <1>7, <1>8, <1>9, <1>10, <1>11, <1>12
  DEF Next, ClientStep

-----------------------------------------------------------------------------
(* The theorems.                                                           *)

\* The inductive invariant holds when the store is opened.
LEMMA InvInit == Init => IInv
<1> SUFFICES ASSUME Init PROVE IInv
  OBVIOUS
<1>1. TypeOK
  BY DEF Init, TypeOK, PendingState, Versions
<1>2. IsFiniteSet(uploads)
  BY FS_EmptySet DEF Init
<1>3. \A c \in Chunks : Holders(c) = {} /\ Uploads(c) = {}
  BY DEF Init, Holders, Uploads, HolderStates, ReaderStates, WriterStates
<1>4. RefCountExact
  <2>1. \A c \in Chunks : Cardinality(Holders(c)) = 0 /\ Cardinality(Uploads(c)) = 0
    BY <1>3, FS_EmptySet
  <2>2. \A c \in Chunks : References(c) = 0 /\ leaked[c] = 0 /\ request[c] = NoRequest
    BY DEF Init, References
  <2>3. QED  BY <2>1, <2>2 DEF RefCountExact
<1>5. WritesSerialized
  BY DEF Init, WritesSerialized
<1>6. SingleFetch /\ FetchMarked
  BY DEF Init, SingleFetch, FetchMarked, Fetching
<1>7. QED  BY <1>1, <1>2, <1>4, <1>5, <1>6 DEF IInv

\* Every step keeps the inductive invariant.
LEMMA InvStep == IInv /\ [Next]_vars => IInv'
<1> SUFFICES ASSUME IInv, [Next]_vars PROVE IInv'
  OBVIOUS
<1>1. TypeOK' /\ IsFiniteSet(uploads)'
  BY TypeStep
<1>2. RefCountExact'
  BY CountStep
<1>3. WritesSerialized'
  BY WriteStep
<1>4. FetchMarked' /\ FetchOnce'
  BY FetchStep
<1>5. (TypeOK /\ FetchMarked /\ FetchOnce => SingleFetch)'
  BY MarkedIsWaitedFor, PTL
<1>6. SingleFetch'
  BY <1>1, <1>4, <1>5
<1>7. QED  BY <1>1, <1>2, <1>3, <1>4, <1>6 DEF IInv

\* The inductive invariant holds in every reachable state, for any clients,
\* chunks and bounds.
THEOREM Invariance == Spec => []IInv
BY InvInit, InvStep, PTL DEF Spec

\* Every variable keeps its type: in particular the reference count of a
\* request never goes below zero and uploads never carry an unknown version.
THEOREM TypeCorrect == Spec => []TypeOK
<1>1. IInv => TypeOK
  BY DEF IInv
<1>2. QED  BY <1>1, Invariance, PTL

\* The reference count of m_requests is exact: the request is erased by the
\* last of those who use it, so nobody who still needs it can miss it.
THEOREM ReferenceCounting == Spec => []RefCountExact
<1>1. IInv => RefCountExact
  BY DEF IInv
<1>2. QED  BY <1>1, Invariance, PTL

\* Two writes of one chunk never overlap, from the moment the data is put in
\* the request until the upload's callback, and readers see the data meanwhile.
THEOREM SerializedWrites == Spec => []WritesSerialized
<1>1. IInv => WritesSerialized
  BY DEF IInv
<1>2. QED  BY <1>1, Invariance, PTL

\* A chunk is fetched by one client at a time; whoever waits in m_wait waits
\* for a client that is fetching, or for data that is already there.
THEOREM OneFetch == Spec => []SingleFetch
<1>1. IInv => SingleFetch
  BY DEF IInv
<1>2. QED  BY <1>1, Invariance, PTL
-----------------------------------------------------------------------------
(* What a read returns.                                                    *)

\* Versions are given out in order, and a write that has not ended is newer
\* than the object in the cloud and than whatever it waits for.
VersionsOrdered ==
  /\ \A c \in Chunks : stored[c] <= writes
  /\ \A u \in uploads : stored[u.chunk] < u.version /\ u.version <= writes
  /\ \A t \in Clients : pc[t] \in WriterStates =>
       stored[at[t]] < mine[t] /\ mine[t] <= writes
  /\ \A t \in Clients : pc[t] = "waitExclusive" =>
       /\ \A u \in Uploads(at[t]) : u.version < mine[t]
       /\ \A w \in Clients : pc[w] = "upload" /\ at[w] = at[t] => mine[w] < mine[t]

\* What a request shows, and what a finished download holds for one without
\* data, is no older than the object in the cloud.
DataFresh ==
  \A c \in Chunks : request[c] # NoRequest =>
    /\ request[c].hasData /\ ~request[c].failed => stored[c] <= request[c].data
    /\ ~request[c].hasData /\ pending[c] = "done" => stored[c] <= fetched[c]

\* The object that was in the cloud when a reader prepared is still there, or
\* a newer one; what its fetch or its last read returned is no older.
ReadersFresh ==
  \A t \in Clients :
    /\ pc[t] \in ReaderStates => floor[t] <= stored[at[t]]
    /\ pc[t] = "read" /\ ~request[at[t]].failed => stored[at[t]] <= request[at[t]].data
    /\ got[t] # NoVersion => floor[t] <= got[t]

FreshInv == VersionsOrdered /\ DataFresh /\ ReadersFresh

\* A client that is not, and does not become, a writer leaves the order alone.
LEMMA VersionsKept ==
  ASSUME TypeOK, VersionsOrdered, UNCHANGED <<stored, writes, uploads, mine>>,
         NEW t \in Clients, NEW c \in Chunks, NEW s, s \notin WriterStates,
         pc' = [pc EXCEPT ![t] = s], at' = [at EXCEPT ![t] = c]
  PROVE  VersionsOrdered'
<1>1. \A w \in Clients : pc'[w] \in WriterStates =>
        pc'[w] = pc[w] /\ at'[w] = at[w] /\ mine'[w] = mine[w]
  BY DEF TypeOK
<1>2. \A c1 \in Chunks : stored'[c1] <= writes'
  BY DEF VersionsOrdered
<1>3. \A u \in uploads' : stored'[u.chunk] < u.version /\ u.version <= writes'
  BY DEF VersionsOrdered
<1>4. \A w \in Clients : pc'[w] \in WriterStates =>
        stored'[at'[w]] < mine'[w] /\ mine'[w] <= writes'
  BY <1>1 DEF VersionsOrdered
<1>5. ASSUME NEW w \in Clients, pc'[w] = "waitExclusive"
      PROVE  /\ \A u \in Uploads(at[w])' : u.version < mine'[w]
             /\ \A x \in Clients : pc'[x] = "upload" /\ at'[x] = at'[w] => mine'[x] < mine'[w]
  BY <1>1, <1>5 DEF VersionsOrdered, Uploads, WriterStates
<1>6. QED  BY <1>2, <1>3, <1>4, <1>5 DEF VersionsOrdered

\* Nor does a step that moves no client and no version.
LEMMA VersionsStill ==
  ASSUME VersionsOrdered, UNCHANGED <<stored, writes, uploads, mine, pc, at>>
  PROVE  VersionsOrdered'
BY DEF VersionsOrdered, Uploads

\* A write gets a version newer than all others.
LEMMA VersionsBegin ==
  ASSUME IInv, VersionsOrdered, NEW t \in Clients, NEW c \in Chunks, WriteChunk(t, c)
  PROVE  VersionsOrdered'
<1>0. TypeOK
  BY DEF IInv
<1>1. PICK s \in WriterStates : pc' = [pc EXCEPT ![t] = s]
  BY DEF WriteChunk, WriterStates
<1>2. /\ writes' = writes + 1 /\ mine' = [mine EXCEPT ![t] = writes + 1]
      /\ at' = [at EXCEPT ![t] = c] /\ UNCHANGED <<stored, uploads>> /\ writes \in Nat
  BY <1>0 DEF WriteChunk, TypeOK, Versions
<1>3. /\ pc'[t] = s /\ at'[t] = c /\ mine'[t] = writes + 1
      /\ \A w \in Clients \ {t} : pc'[w] = pc[w] /\ at'[w] = at[w] /\ mine'[w] = mine[w]
  BY <1>0, <1>1, <1>2 DEF TypeOK
<1>4. \A d \in Chunks : stored'[d] = stored[d] /\ stored[d] <= writes /\ stored[d] \in Nat
  BY <1>0, <1>2 DEF VersionsOrdered, TypeOK, Versions
<1>5. \A u \in uploads : u.chunk \in Chunks /\ u.version \in Nat
  BY <1>0 DEF TypeOK, Versions
<1>6. \A w \in Clients : at'[w] \in Chunks /\ mine'[w] \in Nat /\ mine[w] \in Nat
  BY <1>0, <1>2, <1>3 DEF TypeOK, Versions
<1>7. \A u \in uploads' : stored'[u.chunk] < u.version /\ u.version <= writes'
  BY <1>2, <1>5 DEF VersionsOrdered
<1>8. ASSUME NEW w \in Clients, pc'[w] \in WriterStates
      PROVE  stored'[at'[w]] < mine'[w] /\ mine'[w] <= writes'
  <2>1. CASE w = t
    BY <1>2, <1>3, <1>4, <2>1
  <2>2. CASE w # t
    <3>1. stored[at[w]] < mine[w] /\ mine[w] <= writes
      BY <1>3, <1>8, <2>2 DEF VersionsOrdered
    <3>2. QED  BY <1>2, <1>3, <1>6, <2>2, <3>1
  <2>3. QED  BY <2>1, <2>2
<1>9. ASSUME NEW w \in Clients, pc'[w] = "waitExclusive"
      PROVE  /\ \A u \in Uploads(at[w])' : u.version < mine'[w]
             /\ \A x \in Clients : pc'[x] = "upload" /\ at'[x] = at'[w] => mine'[x] < mine'[w]
  <2>1. CASE w = t
    <3>1. \A u \in uploads : u.version <= writes
      BY DEF VersionsOrdered
    <3>2. \A x \in Clients \ {t} : pc[x] = "upload" => mine[x] <= writes
      BY DEF VersionsOrdered, WriterStates
    <3>3. pc'[t] # "upload"
      BY <1>9, <2>1
    <3>4. QED  BY <1>2, <1>3, <1>5, <1>6, <2>1, <3>1, <3>2, <3>3 DEF Uploads
  <2>2. CASE w # t
    <3>1. pc[w] = "waitExclusive" /\ at'[w] = at[w] /\ mine'[w] = mine[w]
      BY <1>3, <1>9, <2>2
    <3>2. \A u \in Uploads(at[w])' : u.version < mine'[w]
      BY <1>2, <3>1 DEF VersionsOrdered, Uploads
    <3>3. ASSUME pc'[t] = "upload" PROVE at'[w] # c
      <4>1. request[c] = NoRequest
        BY <1>0, <3>3 DEF WriteChunk, TypeOK
      <4>2. Holders(c) = {}
        BY <4>1, NoRequestNobody
      <4>3. QED  BY <1>3, <2>2, <3>1, <4>2 DEF Holders, HolderStates, WriterStates
    <3>4. \A x \in Clients : pc'[x] = "upload" /\ at'[x] = at'[w] => mine'[x] < mine'[w]
      BY <1>3, <3>1, <3>3 DEF VersionsOrdered
    <3>5. QED  BY <3>2, <3>4
  <2>3. QED  BY <2>1, <2>2
<1>10. \A d \in Chunks : stored'[d] <= writes'
  BY <1>2, <1>4
<1>11. QED  BY <1>7, <1>8, <1>9, <1>10 DEF VersionsOrdered

\* The writer that goes on is alone, so nobody waits for what it writes.
LEMMA VersionsHandOver ==
  ASSUME IInv, VersionsOrdered, NEW t \in Clients, WriteChunkWake(t)
  PROVE  VersionsOrdered'
<1> USE DEF WriterStates
<1>0. TypeOK /\ pc[t] = "waitExclusive" /\ UNCHANGED <<stored, writes, uploads, mine, at>>
  BY DEF IInv, WriteChunkWake
<1>1. CASE MayWrite(request[at[t]])
  <2>1. Holders(at[t]) = {t}
    BY <1>0, <1>1, SoleHolder DEF MayWrite, HolderStates
  <2>2. pc' = [pc EXCEPT ![t] = "upload"]
    BY <1>1 DEF WriteChunkWake
  <2>3. pc'[t] = "upload" /\ \A w \in Clients \ {t} : pc'[w] = pc[w]
    BY <1>0, <2>2 DEF TypeOK
  <2>4. \A w \in Clients : pc'[w] \in WriterStates => pc[w] \in WriterStates
    BY <1>0, <2>3
  <2>5. \A w \in Clients : pc'[w] = "waitExclusive" =>
          pc[w] = "waitExclusive" /\ at[w] # at[t]
    BY <2>1, <2>3 DEF Holders, HolderStates
  <2>6. ASSUME NEW w \in Clients, pc'[w] = "waitExclusive"
        PROVE  /\ \A u \in Uploads(at[w])' : u.version < mine'[w]
               /\ \A x \in Clients : pc'[x] = "upload" /\ at'[x] = at'[w] => mine'[x] < mine'[w]
    BY <1>0, <2>3, <2>5, <2>6 DEF VersionsOrdered, Uploads
  <2>7. \A w \in Clients : pc'[w] \in WriterStates =>
          stored'[at'[w]] < mine'[w] /\ mine'[w] <= writes'
    BY <1>0, <2>4 DEF VersionsOrdered
  <2>8. QED  BY <1>0, <2>6, <2>7 DEF VersionsOrdered
<1>2. CASE ~MayWrite(request[at[t]])
  BY <1>0, <1>2, VersionsStill DEF WriteChunkWake
<1>3. QED  BY <1>1, <1>2

\* An upload carries on the version of the writer that starts it.
LEMMA VersionsUpload ==
  ASSUME TypeOK, VersionsOrdered, NEW t \in Clients, WriteChunkImpl(t)
  PROVE  VersionsOrdered'
<1> USE DEF WriterStates
<1> DEFINE n == [chunk |-> at[t], version |-> mine[t]]
<1>1. /\ pc[t] = "upload" /\ UNCHANGED <<stored, writes, mine, at>>
      /\ uploads' = uploads \cup {n} /\ n.chunk = at[t] /\ n.version = mine[t]
  BY DEF WriteChunkImpl
<1> HIDE DEF n
<1>2. pc'[t] = "idle" /\ \A w \in Clients \ {t} : pc'[w] = pc[w]
  BY DEF WriteChunkImpl, TypeOK
<1>3. \A u \in uploads' : stored'[u.chunk] < u.version /\ u.version <= writes'
  BY <1>1 DEF VersionsOrdered
<1>4. \A w \in Clients : pc'[w] \in WriterStates => pc'[w] = pc[w] /\ w # t
  BY <1>2
<1>5. ASSUME NEW w \in Clients, pc'[w] = "waitExclusive"
      PROVE  /\ \A u \in Uploads(at[w])' : u.version < mine'[w]
             /\ \A x \in Clients : pc'[x] = "upload" /\ at'[x] = at'[w] => mine'[x] < mine'[w]
  <2>1. pc[w] = "waitExclusive"
    BY <1>4, <1>5
  <2>2. at[t] = at[w] => mine[t] < mine[w]
    BY <1>1, <2>1 DEF VersionsOrdered
  <2>3. \A u \in Uploads(at[w])' : u \in Uploads(at[w]) \/ (u = n /\ at[t] = at[w])
    BY <1>1 DEF Uploads
  <2>4. \A u \in Uploads(at[w])' : u.version < mine'[w]
    BY <1>1, <2>1, <2>2, <2>3 DEF VersionsOrdered
  <2>5. \A x \in Clients : pc'[x] = "upload" => pc[x] = "upload"
    BY <1>4
  <2>6. QED  BY <1>1, <2>1, <2>4, <2>5 DEF VersionsOrdered
<1>6. \A w \in Clients : pc'[w] \in WriterStates =>
        stored'[at'[w]] < mine'[w] /\ mine'[w] <= writes'
  BY <1>1, <1>4 DEF VersionsOrdered
<1>7. QED  BY <1>1, <1>3, <1>5, <1>6 DEF VersionsOrdered

\* An upload that ends makes the object newer, and no newer than those writes
\* that have yet to begin; writes of one chunk are serialized.
LEMMA VersionsEnd ==
  ASSUME IInv, VersionsOrdered, NEW u \in uploads, WriteCompleted(u)
  PROVE  VersionsOrdered' /\ \A c \in Chunks : stored[c] <= stored'[c]
<1> USE DEF WriterStates
<1>0. /\ TypeOK /\ UNCHANGED <<writes, mine, pc, at>> /\ uploads' = uploads \ {u}
      /\ u.chunk \in Chunks /\ u.version \in Nat /\ stored[u.chunk] < u.version
      /\ u.version <= writes
  BY DEF IInv, WriteCompleted, TypeOK, Versions, VersionsOrdered, clientVars
<1>1. \/ stored' = stored
      \/ stored' = [stored EXCEPT ![u.chunk] = u.version]
  BY DEF WriteCompleted
<1>2. /\ \A c \in Chunks \ {u.chunk} : stored'[c] = stored[c]
      /\ stored'[u.chunk] \in {stored[u.chunk], u.version}
      /\ \A c \in Chunks : stored[c] \in Nat
  BY <1>0, <1>1 DEF TypeOK, Versions
<1>3. \A x \in uploads' : x \in uploads /\ x.chunk \in Chunks /\ x.chunk # u.chunk
  BY <1>0 DEF IInv, WritesSerialized, TypeOK
<1>4. \A x \in uploads' : stored'[x.chunk] < x.version /\ x.version <= writes'
  BY <1>0, <1>2, <1>3 DEF VersionsOrdered
<1>5. ASSUME NEW w \in Clients, pc'[w] \in WriterStates
      PROVE  stored'[at'[w]] < mine'[w] /\ mine'[w] <= writes'
  <2>1. at[w] \in Chunks /\ stored[at[w]] < mine[w] /\ mine[w] <= writes
    BY <1>0, <1>5 DEF VersionsOrdered, TypeOK
  <2>2. at[w] = u.chunk => pc[w] = "waitExclusive"
    BY <1>0, <1>5 DEF IInv, WritesSerialized, Uploads
  <2>3. at[w] = u.chunk => u.version < mine[w]
    BY <2>2 DEF VersionsOrdered, Uploads
  <2>4. QED  BY <1>0, <1>2, <2>1, <2>3
<1>6. ASSUME NEW w \in Clients, pc'[w] = "waitExclusive"
      PROVE  /\ \A x \in Uploads(at[w])' : x.version < mine'[w]
             /\ \A x \in Clients : pc'[x] = "upload" /\ at'[x] = at'[w] => mine'[x] < mine'[w]
  BY <1>0, <1>6 DEF VersionsOrdered, Uploads
<1>7. \A c \in Chunks : stored'[c] <= writes' /\ stored[c] <= stored'[c]
  BY <1>0, <1>2 DEF VersionsOrdered
<1>8. QED  BY <1>4, <1>5, <1>6, <1>7 DEF VersionsOrdered

\* Every step keeps the order, and no step makes an object in the cloud older.
LEMMA VersionStep ==
  ASSUME IInv, VersionsOrdered, [Next]_vars
  PROVE  VersionsOrdered' /\ \A c \in Chunks : stored[c] <= stored'[c]
<1>0. TypeOK /\ \A c \in Chunks : stored[c] \in Nat
  BY DEF IInv, TypeOK, Versions
<1> USE DEF WriterStates
<1>1. ASSUME NEW t \in Clients, NEW c \in Chunks, PrepareReadChunk(t, c)
      PROVE  VersionsOrdered' /\ stored' = stored
  <2>1. PICK ok \in BOOLEAN : HoldPreparation(t, c, ok)
    BY <1>1 DEF PrepareReadChunk, PrepareOutcomes, Outcomes
  <2>2. PICK s \in {"idle", "prepared"} : pc' = [pc EXCEPT ![t] = s]
    BY <1>0, <1>1, <2>1 DEF HoldPreparation, PrepareReadChunk, TypeOK
  <2>3. s \notin WriterStates /\ at' = [at EXCEPT ![t] = c]
    BY <2>1 DEF HoldPreparation
  <2>4. UNCHANGED <<stored, writes, uploads, mine>>
    BY <1>1 DEF PrepareReadChunk
  <2>5. QED  BY <1>0, <2>2, <2>3, <2>4, VersionsKept
<1>2. ASSUME NEW t \in Clients, NEW c \in Chunks, WriteChunk(t, c)
      PROVE  VersionsOrdered' /\ stored' = stored
  BY <1>2, VersionsBegin DEF WriteChunk
<1>3. ASSUME NEW t \in Clients,
             \/ ReadChunk(t) \/ CancelReadChunk(t) \/ ReadChunkImpl(t)
             \/ ReadChunkPublish(t) \/ ReadChunkWake(t)
      PROVE  VersionsOrdered' /\ stored' = stored
  <2>1. UNCHANGED <<stored, writes, uploads, mine, at>>
    BY <1>3 DEF ReadChunk, CancelReadChunk, ReadChunkImpl, ReadChunkPublish, ReadChunkWake
  <2>2. PICK s \in {"idle", "reading", "waiting", "read"} : pc' = [pc EXCEPT ![t] = s]
    BY <1>0, <1>3
    DEF ReadChunk, CancelReadChunk, ReadChunkImpl, ReadChunkPublish, ReadChunkWake,
        FinishRead, TypeOK
  <2>3. PICK c \in Chunks : at' = [at EXCEPT ![t] = c]
    BY <1>0, <2>1 DEF TypeOK
  <2>4. s \notin WriterStates
    OBVIOUS
  <2>5. QED  BY <1>0, <2>1, <2>2, <2>3, <2>4, VersionsKept
<1>4. ASSUME NEW t \in Clients, WriteChunkWake(t) PROVE VersionsOrdered' /\ stored' = stored
  BY <1>4, VersionsHandOver DEF WriteChunkWake
<1>5. ASSUME NEW t \in Clients, WriteChunkImpl(t) PROVE VersionsOrdered' /\ stored' = stored
  BY <1>0, <1>5, VersionsUpload DEF WriteChunkImpl
<1>6. ASSUME NEW c \in Chunks, TransferFinished(c) PROVE VersionsOrdered' /\ stored' = stored
  BY <1>6, VersionsStill DEF TransferFinished, clientVars
<1>7. ASSUME NEW u \in uploads, WriteCompleted(u)
      PROVE  VersionsOrdered' /\ \A c \in Chunks : stored[c] <= stored'[c]
  BY <1>7, VersionsEnd
<1>8. CASE UNCHANGED vars
  BY <1>0, <1>8, VersionsStill DEF vars
<1>9. ASSUME stored' = stored PROVE \A c \in Chunks : stored[c] <= stored'[c]
  BY <1>0, <1>9
<1>10. QED
  BY <1>1, <1>2, <1>3, <1>4, <1>5, <1>6, <1>7, <1>8, <1>9 DEF Next, ClientStep

\* A dropped reference changes nothing that is shown.
LEMMA DataDrop ==
  ASSUME TypeOK, DataFresh, NEW c \in Chunks, NEW r \in Request, r.refCount > 0,
         DropReference(c, r), UNCHANGED <<stored, fetched>>,
         pending' = pending \/ pending' = [pending EXCEPT ![c] = "none"],
         r.hasData /\ ~r.failed => stored[c] <= r.data,
         ~r.hasData /\ pending[c] = "done" => stored[c] <= fetched[c]
  PROVE  DataFresh'
<1>1. /\ request'[c] # NoRequest =>
           /\ request'[c].hasData = r.hasData
           /\ request'[c].failed = r.failed
           /\ request'[c].data = r.data
      /\ \A d \in Chunks \ {c} : request'[d] = request[d]
  BY DropReferenceEffect
<1>2. /\ pending'[c] \in {pending[c], "none"}
      /\ \A d \in Chunks \ {c} : pending'[d] = pending[d]
  BY DEF TypeOK
<1>3. QED  BY <1>1, <1>2 DEF DataFresh

\* One request changes, the others do not.
LEMMA DataKept ==
  ASSUME DataFresh, NEW c \in Chunks, UNCHANGED stored,
         \A d \in Chunks \ {c} :
           request'[d] = request[d] /\ pending'[d] = pending[d] /\ fetched'[d] = fetched[d],
         request'[c] # NoRequest =>
           /\ request'[c].hasData /\ ~request'[c].failed => stored[c] <= request'[c].data
           /\ ~request'[c].hasData /\ pending'[c] = "done" => stored[c] <= fetched'[c]
  PROVE  DataFresh'
BY DEF DataFresh

\* With the metadata page in memory, every preparation starts a new transfer.
LEMMA DataPrepare ==
  ASSUME IInv, DataFresh, MetadataResident,
         NEW t \in Clients, NEW c \in Chunks, PrepareReadChunk(t, c)
  PROVE  DataFresh'
<1>0. TypeOK /\ stored' = stored
  BY DEF IInv, PrepareReadChunk
<1>1. CASE request[c] = NoRequest
  <2>1. /\ request' = [request EXCEPT ![c] = FreshRequest(FALSE)]
        /\ PrepareReadChunkImpl(c, TRUE)
    BY <1>1 DEF PrepareReadChunk, PrepareOutcomes
  <2>2. pending' = [pending EXCEPT ![c] = "active"] /\ fetched' = fetched
    BY <2>1 DEF PrepareReadChunkImpl
  <2>3. ~request'[c].hasData /\ pending'[c] = "active"
    BY <1>0, <2>1, <2>2, FreshIsRequest DEF TypeOK
  <2>4. \A d \in Chunks \ {c} : request'[d] = request[d] /\ pending'[d] = pending[d]
    BY <1>0, <2>1, <2>2 DEF TypeOK
  <2>5. QED  BY <1>0, <2>2, <2>3, <2>4, DataKept
<1>2. CASE request[c] # NoRequest
  <2> DEFINE q == [request[c] EXCEPT !.refCount = @ + 1]
  <2>1. request' = [request EXCEPT ![c] = q] /\ UNCHANGED <<pending, fetched>>
    BY <1>2 DEF PrepareReadChunk, cloudVars
  <2>2. /\ request[c] \in Request
        /\ q.hasData = request[c].hasData /\ q.failed = request[c].failed
        /\ q.data = request[c].data
    BY <1>0, <1>2 DEF TypeOK, Request
  <2> HIDE DEF q
  <2>3. request'[c] = q /\ \A d \in Chunks \ {c} : request'[d] = request[d]
    BY <1>0, <2>1 DEF TypeOK
  <2>4. QED  BY <1>0, <1>2, <2>1, <2>2, <2>3, DataKept DEF DataFresh
<1>3. QED  BY <1>1, <1>2

\* What a writer puts in the request is newer than the object in the cloud.
LEMMA DataWritten ==
  ASSUME TypeOK, DataFresh, NEW c \in Chunks, NEW v \in Versions, stored[c] < v,
         request' = [request EXCEPT ![c] = WrittenRequest(v)],
         UNCHANGED <<stored, pending, fetched>>
  PROVE  DataFresh'
<1>1. /\ request'[c] = WrittenRequest(v)
      /\ \A d \in Chunks \ {c} : request'[d] = request[d]
  BY DEF TypeOK
<1>2. stored[c] <= v
  BY DEF TypeOK, Versions
<1>3. QED  BY <1>1, <1>2, WrittenIsRequest, DataKept

\* The one client that fetches empties the download, and shows what it held.
LEMMA DataFetched ==
  ASSUME IInv, DataFresh, NEW t \in Clients, ReadChunkImpl(t)
  PROVE  DataFresh'
<1> DEFINE c == at[t]
           q == [request[c] EXCEPT !.failed = pending[c] # "done",
                   !.data = IF pending[c] = "done" THEN fetched[c] ELSE @]
<1>0. TypeOK /\ UNCHANGED <<stored, fetched>>
  BY DEF IInv, ReadChunkImpl
<1>1. c \in Chunks /\ request[c] \in Request
  BY HolderHasRequest DEF ReadChunkImpl, HolderStates, ReaderStates
<1>2. ~request[c].hasData
  BY DEF IInv, FetchMarked, Fetching, ReadChunkImpl
<1>3. request' = [request EXCEPT ![c] = q]
  BY <1>0, <1>1 DEF ReadChunkImpl, TypeOK
<1>4. ~q.hasData
  BY <1>1, <1>2 DEF Request
<1> HIDE DEF q
<1>5. ~request'[c].hasData /\ \A d \in Chunks \ {c} : request'[d] = request[d]
  BY <1>0, <1>1, <1>3, <1>4 DEF TypeOK
<1>6. pending'[c] # "done" /\ \A d \in Chunks \ {c} : pending'[d] = pending[d]
  BY <1>0, <1>1 DEF ReadChunkImpl, PendingAfterRead, TypeOK
<1>7. QED  BY <1>0, <1>1, <1>5, <1>6, DataKept

\* An upload that ends stores what the request shows.
LEMMA DataStored ==
  ASSUME IInv, DataFresh, NEW u \in uploads, WriteCompleted(u)
  PROVE  DataFresh'
<1>0. TypeOK /\ UNCHANGED <<pending, fetched>>
  BY DEF IInv, WriteCompleted
<1>1. PICK c \in Chunks, r \in Request :
        /\ c = u.chunk /\ r = request[c] /\ r.refCount > 0
        /\ r.hasData /\ ~r.failed /\ r.data = u.version
  BY UploadHasRequest DEF IInv, WritesSerialized, Publishes
<1>2. DropReference(c, r)
  BY <1>1 DEF WriteCompleted
<1>3. /\ request'[c] # NoRequest =>
           request'[c].hasData = r.hasData /\ request'[c].data = r.data
      /\ \A d \in Chunks \ {c} : request'[d] = request[d]
  BY <1>0, <1>1, <1>2, DropReferenceEffect
<1>4. /\ \A d \in Chunks \ {c} : stored'[d] = stored[d]
      /\ stored'[c] \in {stored[c], u.version}
  BY <1>0, <1>1 DEF WriteCompleted, TypeOK
<1>5. stored[c] <= r.data /\ r.data \in Nat
  BY <1>1 DEF DataFresh, Request, Versions
<1>6. stored'[c] <= r.data
  BY <1>1, <1>4, <1>5
<1>7. QED  BY <1>0, <1>1, <1>3, <1>4, <1>6 DEF DataFresh

\* Every step keeps what requests and downloads hold fresh.
LEMMA DataStep ==
  ASSUME IInv, FreshInv, MetadataResident, [Next]_vars
  PROVE  DataFresh'
<1>0. TypeOK /\ DataFresh /\ VersionsOrdered /\ ReadersFresh
  BY DEF IInv, FreshInv
<1> USE DEF HolderStates, ReaderStates, WriterStates
<1>1. ASSUME NEW t \in Clients, NEW c \in Chunks, PrepareReadChunk(t, c) PROVE DataFresh'
  BY <1>0, <1>1, DataPrepare
<1>2. ASSUME NEW t \in Clients, NEW c \in Chunks, WriteChunk(t, c) PROVE DataFresh'
  <2>1. UNCHANGED <<stored, pending, fetched>>
    BY <1>2 DEF WriteChunk
  <2>2. CASE request[c] = NoRequest
    <3>1. writes + 1 \in Versions /\ stored[c] < writes + 1
      BY <1>0, <1>2 DEF WriteChunk, TypeOK, Versions, VersionsOrdered
    <3>2. request' = [request EXCEPT ![c] = WrittenRequest(writes + 1)]
      BY <1>2, <2>2 DEF WriteChunk
    <3>3. QED  BY <1>0, <2>1, <3>1, <3>2, DataWritten
  <2>3. CASE request[c] # NoRequest
    <3> DEFINE q == [request[c] EXCEPT !.refCount = @ + 1]
    <3>1. request' = [request EXCEPT ![c] = q]
      BY <1>2, <2>3 DEF WriteChunk
    <3>2. /\ q.hasData = request[c].hasData /\ q.failed = request[c].failed
          /\ q.data = request[c].data
      BY <1>0, <2>3 DEF TypeOK, Request
    <3> HIDE DEF q
    <3>3. request'[c] = q /\ \A d \in Chunks \ {c} : request'[d] = request[d]
      BY <1>0, <3>1 DEF TypeOK
    <3>4. QED  BY <1>0, <2>1, <2>3, <3>2, <3>3, DataKept DEF DataFresh
  <2>4. QED  BY <2>2, <2>3
<1>3. ASSUME NEW t \in Clients, pc[t] \in ReaderStates,
             DropReference(at[t], request[at[t]]),
             \/ pending' = pending
             \/ pending' = [pending EXCEPT ![at[t]] = "none"],
             UNCHANGED <<stored, fetched>>
      PROVE  DataFresh'
  <2>1. PICK c \in Chunks, r \in Request : c = at[t] /\ r = request[c] /\ r.refCount > 0
    BY <1>3, HolderHasRequest
  <2>2. /\ r.hasData /\ ~r.failed => stored[c] <= r.data
        /\ ~r.hasData /\ pending[c] = "done" => stored[c] <= fetched[c]
    BY <1>0, <2>1 DEF DataFresh
  <2>3. QED  BY <1>0, <1>3, <2>1, <2>2, DataDrop
<1>4. ASSUME NEW t \in Clients, ReadChunk(t) PROVE DataFresh'
  <2>1. pc[t] = "prepared" /\ UNCHANGED <<stored, pending, fetched>>
    BY <1>4 DEF ReadChunk
  <2>2. CASE FinishRead(t, at[t], request[at[t]])
    BY <1>3, <2>1, <2>2 DEF FinishRead
  <2>3. CASE request' = [request EXCEPT ![at[t]] = StartFetch(request[at[t]])]
    <3>1. PICK c \in Chunks, r \in Request : c = at[t] /\ r = request[c]
      BY <2>1, HolderHasRequest
    <3>2. /\ StartFetch(r).hasData = r.hasData /\ StartFetch(r).failed = r.failed
          /\ StartFetch(r).data = r.data
      BY DEF StartFetch, Request
    <3>3. /\ request'[c] = StartFetch(r)
          /\ \A d \in Chunks \ {c} : request'[d] = request[d]
      BY <1>0, <2>3, <3>1 DEF TypeOK
    <3>4. r # NoRequest
      OBVIOUS
    <3>5. QED  BY <1>0, <2>1, <3>1, <3>2, <3>3, <3>4, DataKept DEF DataFresh
  <2>4. CASE request' = request
    BY <1>0, <2>1, <2>4 DEF DataFresh
  <2>5. QED  BY <1>4, <2>2, <2>3, <2>4 DEF ReadChunk
<1>5. ASSUME NEW t \in Clients, CancelReadChunk(t) PROVE DataFresh'
  BY <1>3, <1>5 DEF CancelReadChunk, CancelReadChunkImpl
<1>6. ASSUME NEW t \in Clients, ReadChunkImpl(t) PROVE DataFresh'
  BY <1>0, <1>6, DataFetched
<1>7. ASSUME NEW t \in Clients, ReadChunkPublish(t) PROVE DataFresh'
  <2>1. pc[t] = "read" /\ UNCHANGED <<stored, pending, fetched>>
    BY <1>7 DEF ReadChunkPublish
  <2>2. PICK c \in Chunks, r \in Request : c = at[t] /\ r = request[c] /\ r.refCount > 0
    BY <2>1, HolderHasRequest
  <2> DEFINE q == [r EXCEPT !.hasData = TRUE]
  <2>3. q \in Request /\ q.refCount = r.refCount /\ q.hasData /\ q.failed = r.failed /\ q.data = r.data
    BY DEF Request
  <2>4. DropReference(c, q)
    BY <1>7, <2>2 DEF ReadChunkPublish, FinishRead
  <2> HIDE DEF q
  <2>5. ~q.failed => stored[c] <= q.data
    BY <1>0, <2>1, <2>2, <2>3 DEF ReadersFresh
  <2>6. QED  BY <1>0, <2>1, <2>2, <2>3, <2>4, <2>5, DataDrop
<1>8. ASSUME NEW t \in Clients, ReadChunkWake(t) PROVE DataFresh'
  <2>1. pc[t] = "waiting" /\ UNCHANGED <<stored, pending, fetched>>
    BY <1>8 DEF ReadChunkWake
  <2>2. CASE FinishRead(t, at[t], request[at[t]])
    BY <1>3, <2>1, <2>2 DEF FinishRead
  <2>3. CASE request' = request
    BY <1>0, <2>1, <2>3 DEF DataFresh
  <2>4. QED  BY <1>8, <2>2, <2>3 DEF ReadChunkWake
<1>9. ASSUME NEW t \in Clients, WriteChunkWake(t) PROVE DataFresh'
  <2>1. pc[t] = "waitExclusive" /\ UNCHANGED <<stored, pending, fetched>>
    BY <1>9 DEF WriteChunkWake
  <2>2. CASE MayWrite(request[at[t]])
    <3>1. request' = [request EXCEPT ![at[t]] = WrittenRequest(mine[t])]
      BY <1>9, <2>2 DEF WriteChunkWake
    <3>2. at[t] \in Chunks /\ mine[t] \in Versions /\ stored[at[t]] < mine[t]
      BY <1>0, <2>1 DEF TypeOK, VersionsOrdered
    <3>3. QED  BY <1>0, <2>1, <3>1, <3>2, DataWritten
  <2>3. CASE ~MayWrite(request[at[t]])
    BY <1>0, <1>9, <2>1, <2>3 DEF WriteChunkWake, DataFresh
  <2>4. QED  BY <2>2, <2>3
<1>10. ASSUME NEW t \in Clients, WriteChunkImpl(t) PROVE DataFresh'
  BY <1>0, <1>10 DEF WriteChunkImpl, DataFresh
<1>11. ASSUME NEW c \in Chunks, TransferFinished(c) PROVE DataFresh'
  <2>1. UNCHANGED <<request, stored>>
    BY <1>11 DEF TransferFinished
  <2>2. /\ \A d \in Chunks \ {c} : pending'[d] = pending[d] /\ fetched'[d] = fetched[d]
        /\ pending'[c] = "done" => fetched'[c] = stored[c]
    BY <1>0, <1>11 DEF TransferFinished, TypeOK
  <2>3. stored[c] <= stored[c]
    BY <1>0 DEF TypeOK, Versions
  <2>4. QED  BY <1>0, <2>1, <2>2, <2>3, DataKept DEF DataFresh
<1>12. ASSUME NEW u \in uploads, WriteCompleted(u) PROVE DataFresh'
  BY <1>0, <1>12, DataStored
<1>13. CASE UNCHANGED vars
  BY <1>0, <1>13 DEF vars, DataFresh
<1>14. QED
  BY <1>1, <1>2, <1>4, <1>5, <1>6, <1>7, <1>8, <1>9, <1>10, <1>11, <1>12, <1>13
  DEF Next, ClientStep

\* A client that is at "read" is the only one that writes into its request.
ReadUntouched(t) ==
  \A w \in Clients \ {t} : pc[w] = "read" =>
    /\ request'[at[w]].failed = request[at[w]].failed
    /\ request'[at[w]].data = request[at[w]].data

\* A client moves, no object changes, and nobody's fetched data is touched.
LEMMA ReadersKept ==
  ASSUME ReadersFresh, stored' = stored, NEW t \in Clients, ReadUntouched(t),
         \A w \in Clients \ {t} :
           pc'[w] = pc[w] /\ at'[w] = at[w] /\ floor'[w] = floor[w] /\ got'[w] = got[w],
         pc'[t] \in ReaderStates => floor'[t] <= stored[at'[t]],
         pc'[t] = "read" /\ ~request'[at'[t]].failed => stored[at'[t]] <= request'[at'[t]].data,
         got'[t] # NoVersion => floor'[t] <= got'[t]
  PROVE  ReadersFresh'
BY DEF ReadersFresh, ReadUntouched

\* Nobody moves.
LEMMA ReadersStill ==
  ASSUME ReadersFresh, UNCHANGED <<stored, pc, at, floor, got>>,
         \A w \in Clients : pc[w] = "read" =>
           /\ request'[at[w]].failed = request[at[w]].failed
           /\ request'[at[w]].data = request[at[w]].data
  PROVE  ReadersFresh'
BY DEF ReadersFresh

\* The holder of a chunk that drops its reference erases no other's request.
LEMMA DropUntouched ==
  ASSUME IInv, NEW t \in Clients, pc[t] \in HolderStates,
         NEW r \in Request, r.refCount = request[at[t]].refCount,
         r.failed = request[at[t]].failed, r.data = request[at[t]].data,
         DropReference(at[t], r)
  PROVE  ReadUntouched(t)
<1>1. at[t] \in Chunks /\ r.refCount > 0 /\ TypeOK
  BY HolderHasRequest DEF IInv
<1>2. /\ request'[at[t]] = NoRequest <=> r.refCount = 1
      /\ request'[at[t]] # NoRequest =>
           request'[at[t]].failed = r.failed /\ request'[at[t]].data = r.data
      /\ \A d \in Chunks \ {at[t]} : request'[d] = request[d]
  BY <1>1, DropReferenceEffect
<1>3. ASSUME NEW w \in Clients \ {t}, pc[w] = "read", at[w] = at[t]
      PROVE  request'[at[t]] # NoRequest
  <2>1. Holders(at[t]) # {t}
    BY <1>3 DEF Holders, HolderStates, ReaderStates
  <2>2. QED  BY <1>2, <2>1, SoleHolder
<1>4. QED  BY <1>1, <1>2, <1>3 DEF ReadUntouched, TypeOK

\* A reader that drops its reference and takes what the request shows.
LEMMA ReadersFinish ==
  ASSUME IInv, ReadersFresh, NEW t \in Clients, pc[t] \in ReaderStates,
         UNCHANGED <<stored, at, floor>>,
         NEW r \in Request, r.refCount = request[at[t]].refCount,
         r.failed = request[at[t]].failed, r.data = request[at[t]].data,
         FinishRead(t, at[t], r),
         ~r.failed => stored[at[t]] <= r.data
  PROVE  ReadersFresh'
<1>0. TypeOK
  BY DEF IInv
<1>1. /\ pc'[t] = "idle" /\ got'[t] = IF r.failed THEN NoVersion ELSE r.data
      /\ \A w \in Clients \ {t} : pc'[w] = pc[w] /\ got'[w] = got[w]
  BY <1>0 DEF FinishRead, TypeOK
<1>2. floor[t] <= stored[at[t]] /\ floor[t] \in Nat /\ stored[at[t]] \in Nat /\ r.data \in Nat
  BY <1>0 DEF ReadersFresh, TypeOK, Request, Versions
<1>3. got'[t] # NoVersion => floor'[t] <= got'[t]
  BY <1>1, <1>2
<1>4. ReadUntouched(t)
  BY DropUntouched DEF FinishRead, HolderStates
<1>5. pc'[t] \notin ReaderStates
  BY <1>1 DEF ReaderStates
<1>6. QED  BY <1>1, <1>3, <1>4, <1>5, ReadersKept DEF ReaderStates

\* A client moves within its operation, without reading.
LEMMA ReadersMove ==
  ASSUME TypeOK, ReadersFresh, NEW t \in Clients, ReadUntouched(t),
         UNCHANGED <<stored, at, floor, got>>, NEW s, pc' = [pc EXCEPT ![t] = s],
         s # "read", s \in ReaderStates => pc[t] \in ReaderStates
  PROVE  ReadersFresh'
<1>1. pc'[t] = s /\ \A w \in Clients \ {t} : pc'[w] = pc[w]
  BY DEF TypeOK
<1>2. /\ pc'[t] \in ReaderStates => floor[t] <= stored[at[t]]
      /\ got[t] # NoVersion => floor[t] <= got[t]
  BY <1>1 DEF ReadersFresh
<1>3. QED  BY <1>1, <1>2, ReadersKept

\* A preparation sets the mark that what is read is measured by.
LEMMA ReadersPrepare ==
  ASSUME IInv, ReadersFresh, NEW t \in Clients, NEW c \in Chunks, PrepareReadChunk(t, c)
  PROVE  ReadersFresh'
<1>0. TypeOK
  BY DEF IInv
<1>1. PICK ok \in BOOLEAN : HoldPreparation(t, c, ok)
  BY DEF PrepareReadChunk, PrepareOutcomes, Outcomes
<1>2. pc'[t] # "read" /\ \A w \in Clients \ {t} : pc'[w] = pc[w]
  BY <1>0, <1>1 DEF HoldPreparation, PrepareReadChunk, TypeOK
<1>3. /\ at'[t] = c /\ floor'[t] = stored[c] /\ got'[t] = NoVersion /\ stored' = stored
      /\ \A w \in Clients \ {t} : at'[w] = at[w] /\ floor'[w] = floor[w] /\ got'[w] = got[w]
  BY <1>0, <1>1 DEF HoldPreparation, PrepareReadChunk, TypeOK
<1>4. floor'[t] <= stored[at'[t]]
  BY <1>0, <1>3 DEF TypeOK, Versions
<1>5. ReadUntouched(t)
  <2>1. \A d \in Chunks \ {c} : request'[d] = request[d]
    BY <1>0 DEF PrepareReadChunk, TypeOK
  <2>2. CASE request[c] = NoRequest
    <3>1. \A w \in Clients : pc[w] = "read" => at[w] # c
      BY <2>2, NoRequestNobody DEF Holders, HolderStates, ReaderStates
    <3>2. QED  BY <1>0, <2>1, <3>1 DEF ReadUntouched, TypeOK
  <2>3. CASE request[c] # NoRequest
    <3> DEFINE q == [request[c] EXCEPT !.refCount = @ + 1]
    <3>1. request'[c] = q
      BY <1>0, <2>3 DEF PrepareReadChunk, TypeOK
    <3>2. q.failed = request[c].failed /\ q.data = request[c].data
      BY <1>0, <2>3 DEF TypeOK, Request
    <3>3. QED  BY <1>0, <2>1, <3>1, <3>2 DEF ReadUntouched, TypeOK
  <2>4. QED  BY <2>2, <2>3
<1>6. QED  BY <1>2, <1>3, <1>4, <1>5, ReadersKept

\* A new write moves a client away from what it read before, and nothing else.
LEMMA ReadersWrite ==
  ASSUME IInv, ReadersFresh, NEW t \in Clients, NEW c \in Chunks, WriteChunk(t, c)
  PROVE  ReadersFresh'
<1>0. TypeOK
  BY DEF IInv
<1>1. pc'[t] \in WriterStates /\ \A w \in Clients \ {t} : pc'[w] = pc[w]
  BY <1>0 DEF WriteChunk, WriterStates, TypeOK
<1>2. /\ UNCHANGED <<stored, floor, got>>
      /\ \A w \in Clients \ {t} : at'[w] = at[w]
  BY <1>0 DEF WriteChunk, TypeOK
<1>3. got'[t] # NoVersion => floor'[t] <= got'[t]
  BY <1>2 DEF ReadersFresh
<1>4. pc'[t] \notin ReaderStates /\ pc'[t] # "read"
  BY <1>1 DEF ReaderStates, WriterStates
<1>5. ReadUntouched(t)
  <2>1. \A d \in Chunks \ {c} : request'[d] = request[d]
    BY <1>0 DEF WriteChunk, TypeOK
  <2>2. CASE request[c] = NoRequest
    <3>1. \A w \in Clients : pc[w] = "read" => at[w] # c
      BY <2>2, NoRequestNobody DEF Holders, HolderStates, ReaderStates
    <3>2. QED  BY <1>0, <2>1, <3>1 DEF ReadUntouched, TypeOK
  <2>3. CASE request[c] # NoRequest
    <3> DEFINE q == [request[c] EXCEPT !.refCount = @ + 1]
    <3>1. request'[c] = q
      BY <1>0, <2>3 DEF WriteChunk, TypeOK
    <3>2. q.failed = request[c].failed /\ q.data = request[c].data
      BY <1>0, <2>3 DEF TypeOK, Request
    <3>3. QED  BY <1>0, <2>1, <3>1, <3>2 DEF ReadUntouched, TypeOK
  <2>4. QED  BY <2>2, <2>3
<1>6. QED  BY <1>1, <1>2, <1>3, <1>4, <1>5, ReadersKept

\* What a fetch shows was in the cloud when the transfer finished, and a write
\* could not end since, for want of data in the request.
LEMMA ReadersFetch ==
  ASSUME IInv, DataFresh, ReadersFresh, NEW t \in Clients, ReadChunkImpl(t)
  PROVE  ReadersFresh'
<1>0. /\ TypeOK /\ pc[t] = "reading" /\ UNCHANGED <<stored, at, floor, got>>
      /\ pc' = [pc EXCEPT ![t] = "read"]
  BY DEF IInv, ReadChunkImpl
<1>1. PICK c \in Chunks, r \in Request : c = at[t] /\ r = request[c]
  BY <1>0, HolderHasRequest DEF HolderStates, ReaderStates
<1> DEFINE q == [r EXCEPT !.failed = pending[c] # "done",
                   !.data = IF pending[c] = "done" THEN fetched[c] ELSE @]
<1>2. request' = [request EXCEPT ![c] = q]
  BY <1>0, <1>1 DEF ReadChunkImpl, TypeOK
<1>3. ~q.failed => pending[c] = "done" /\ q.data = fetched[c]
  BY DEF Request
<1> HIDE DEF q
<1>4. request'[c] = q /\ \A d \in Chunks \ {c} : request'[d] = request[d]
  BY <1>0, <1>2 DEF TypeOK
<1>5. ~r.hasData
  BY <1>0, <1>1 DEF IInv, FetchMarked, Fetching
<1>6. ~request'[c].failed => stored[c] <= request'[c].data
  BY <1>1, <1>3, <1>4, <1>5 DEF DataFresh
<1>7. ReadUntouched(t)
  <2>1. \A w \in Clients \ {t} : pc[w] = "read" => at[w] # c
    BY <1>0, <1>1 DEF IInv, SingleFetch, Fetching
  <2>2. QED  BY <1>0, <1>4, <2>1 DEF ReadUntouched, TypeOK
<1>8. /\ floor[t] <= stored[c] /\ (got[t] # NoVersion => floor[t] <= got[t])
      /\ \A w \in Clients \ {t} : pc'[w] = pc[w]
  BY <1>0, <1>1 DEF ReadersFresh, ReaderStates, TypeOK
<1>9. QED  BY <1>0, <1>1, <1>6, <1>7, <1>8, ReadersKept

\* While an upload is in flight nobody fetches its chunk.
LEMMA ReadersStored ==
  ASSUME IInv, VersionsOrdered, ReadersFresh, NEW u \in uploads, WriteCompleted(u)
  PROVE  ReadersFresh'
<1>0. TypeOK /\ UNCHANGED <<pc, at, floor, got>>
  BY DEF IInv, WriteCompleted, clientVars
<1>1. PICK c \in Chunks : c = u.chunk /\ c \in Chunks
  BY UploadHasRequest
<1>2. /\ \A d \in Chunks \ {c} : stored'[d] = stored[d] /\ request'[d] = request[d]
      /\ \A d \in Chunks : stored[d] <= stored'[d] /\ stored[d] \in Nat /\ stored'[d] \in Nat
  <2>1. \A d \in Chunks : stored[d] <= stored'[d]
    BY VersionsEnd
  <2>2. TypeOK'
    BY TypeStep DEF Next
  <2>3. \A d \in Chunks \ {c} : stored'[d] = stored[d] /\ request'[d] = request[d]
    BY <1>0, <1>1 DEF WriteCompleted, DropReference, TypeOK
  <2>4. QED  BY <1>0, <2>1, <2>2, <2>3 DEF TypeOK, Versions
<1>3. \A w \in Clients : pc[w] = "read" => at[w] \in Chunks \ {c}
  BY <1>0, <1>1 DEF IInv, WritesSerialized, Publishes, Holders, HolderStates, ReaderStates, TypeOK
<1>4. \A w \in Clients : at[w] \in Chunks /\ floor[w] \in Nat
  BY <1>0 DEF TypeOK, Versions
<1>5. \A w \in Clients : pc'[w] \in ReaderStates => floor'[w] <= stored'[at'[w]]
  BY <1>0, <1>2, <1>4 DEF ReadersFresh
<1>6. QED  BY <1>0, <1>2, <1>3, <1>5 DEF ReadersFresh

\* Every step keeps what readers are owed and what they got.
LEMMA ReadersStep ==
  ASSUME IInv, FreshInv, [Next]_vars
  PROVE  ReadersFresh'
<1>0. TypeOK /\ DataFresh /\ VersionsOrdered /\ ReadersFresh
  BY DEF IInv, FreshInv
<1> USE DEF HolderStates, ReaderStates, WriterStates
<1>1. ASSUME NEW t \in Clients, NEW c \in Chunks, PrepareReadChunk(t, c) PROVE ReadersFresh'
  BY <1>0, <1>1, ReadersPrepare
<1>2. ASSUME NEW t \in Clients, NEW c \in Chunks, WriteChunk(t, c) PROVE ReadersFresh'
  BY <1>0, <1>2, ReadersWrite
<1>3. ASSUME NEW t \in Clients, pc[t] \in {"prepared", "waiting"}, request[at[t]].hasData,
             FinishRead(t, at[t], request[at[t]]), UNCHANGED <<stored, at, floor>>
      PROVE  ReadersFresh'
  <2>1. PICK c \in Chunks, r \in Request : c = at[t] /\ r = request[c]
    BY <1>3, HolderHasRequest
  <2>2. ~r.failed => stored[c] <= r.data
    BY <1>0, <1>3, <2>1 DEF DataFresh
  <2>3. QED  BY <1>0, <1>3, <2>1, <2>2, ReadersFinish
<1>4. ASSUME NEW t \in Clients, ReadChunk(t) PROVE ReadersFresh'
  <2>1. pc[t] = "prepared" /\ UNCHANGED <<stored, at, floor>>
    BY <1>4 DEF ReadChunk
  <2>2. CASE request[at[t]].hasData /\ FinishRead(t, at[t], request[at[t]])
    BY <1>3, <2>1, <2>2
  <2>3. CASE /\ request' = [request EXCEPT ![at[t]] = StartFetch(request[at[t]])]
             /\ pc' = [pc EXCEPT ![t] = "reading"] /\ UNCHANGED got
    <3>1. PICK c \in Chunks, r \in Request : c = at[t] /\ r = request[c]
      BY <2>1, HolderHasRequest
    <3>2. StartFetch(r).failed = r.failed /\ StartFetch(r).data = r.data
      BY DEF StartFetch, Request
    <3>3. /\ request'[c] = StartFetch(r)
          /\ \A d \in Chunks \ {c} : request'[d] = request[d]
      BY <1>0, <2>3, <3>1 DEF TypeOK
    <3>4. ReadUntouched(t)
      BY <1>0, <3>1, <3>2, <3>3 DEF ReadUntouched, TypeOK
    <3>5. QED  BY <1>0, <2>1, <2>3, <3>4, ReadersMove
  <2>4. CASE /\ request' = request /\ pc' = [pc EXCEPT ![t] = "waiting"] /\ UNCHANGED got
    BY <1>0, <2>1, <2>4, ReadersMove DEF ReadUntouched
  <2>5. QED  BY <1>4, <2>2, <2>3, <2>4 DEF ReadChunk
<1>5. ASSUME NEW t \in Clients, CancelReadChunk(t) PROVE ReadersFresh'
  <2>1. /\ pc[t] = "prepared" /\ UNCHANGED <<stored, at, floor, got>>
        /\ pc' = [pc EXCEPT ![t] = "idle"] /\ DropReference(at[t], request[at[t]])
    BY <1>5 DEF CancelReadChunk
  <2>2. request[at[t]] \in Request
    BY <2>1, HolderHasRequest
  <2>3. ReadUntouched(t)
    BY <2>1, <2>2, DropUntouched
  <2>4. QED  BY <1>0, <2>1, <2>3, ReadersMove
<1>6. ASSUME NEW t \in Clients, ReadChunkImpl(t) PROVE ReadersFresh'
  BY <1>0, <1>6, ReadersFetch
<1>7. ASSUME NEW t \in Clients, ReadChunkPublish(t) PROVE ReadersFresh'
  <2>1. pc[t] = "read" /\ UNCHANGED <<stored, at, floor>>
    BY <1>7 DEF ReadChunkPublish
  <2>2. PICK c \in Chunks, r \in Request : c = at[t] /\ r = request[c]
    BY <2>1, HolderHasRequest
  <2> DEFINE q == [r EXCEPT !.hasData = TRUE]
  <2>3. q \in Request /\ q.refCount = r.refCount /\ q.failed = r.failed /\ q.data = r.data
    BY DEF Request
  <2>4. FinishRead(t, at[t], q)
    BY <1>7, <2>2 DEF ReadChunkPublish
  <2> HIDE DEF q
  <2>5. ~q.failed => stored[c] <= q.data
    BY <1>0, <2>1, <2>2, <2>3 DEF ReadersFresh
  <2>6. QED  BY <1>0, <2>1, <2>2, <2>3, <2>4, <2>5, ReadersFinish
<1>8. ASSUME NEW t \in Clients, ReadChunkWake(t) PROVE ReadersFresh'
  <2>1. pc[t] = "waiting" /\ UNCHANGED <<stored, at, floor>>
    BY <1>8 DEF ReadChunkWake
  <2>2. CASE request[at[t]].hasData
    BY <1>3, <1>8, <2>1, <2>2 DEF ReadChunkWake
  <2>3. CASE ~request[at[t]].hasData
    BY <1>0, <1>8, <2>1, <2>3, ReadersStill DEF ReadChunkWake
  <2>4. QED  BY <2>2, <2>3
<1>9. ASSUME NEW t \in Clients, WriteChunkWake(t) PROVE ReadersFresh'
  <2>1. pc[t] = "waitExclusive" /\ UNCHANGED <<stored, at, floor, got>>
    BY <1>9 DEF WriteChunkWake
  <2>2. CASE MayWrite(request[at[t]])
    <3>1. /\ request' = [request EXCEPT ![at[t]] = WrittenRequest(mine[t])]
          /\ pc' = [pc EXCEPT ![t] = "upload"]
      BY <1>9, <2>2 DEF WriteChunkWake
    <3>2. Holders(at[t]) = {t}
      BY <2>1, <2>2, SoleHolder DEF MayWrite
    <3>3. ReadUntouched(t)
      BY <1>0, <3>1, <3>2 DEF ReadUntouched, Holders, TypeOK
    <3>4. QED  BY <1>0, <2>1, <3>1, <3>3, ReadersMove
  <2>3. CASE ~MayWrite(request[at[t]])
    BY <1>0, <1>9, <2>1, <2>3, ReadersStill DEF WriteChunkWake
  <2>4. QED  BY <2>2, <2>3
<1>10. ASSUME NEW t \in Clients, WriteChunkImpl(t) PROVE ReadersFresh'
  <2>1. /\ UNCHANGED <<request, stored, at, floor, got>>
        /\ pc' = [pc EXCEPT ![t] = "idle"]
    BY <1>10 DEF WriteChunkImpl
  <2>2. QED  BY <1>0, <2>1, ReadersMove DEF ReadUntouched
<1>11. ASSUME NEW c \in Chunks, TransferFinished(c) PROVE ReadersFresh'
  BY <1>0, <1>11, ReadersStill DEF TransferFinished, clientVars
<1>12. ASSUME NEW u \in uploads, WriteCompleted(u) PROVE ReadersFresh'
  BY <1>0, <1>12, ReadersStored
<1>13. CASE UNCHANGED vars
  BY <1>0, <1>13, ReadersStill DEF vars
<1>14. QED
  BY <1>1, <1>2, <1>4, <1>5, <1>6, <1>7, <1>8, <1>9, <1>10, <1>11, <1>12, <1>13
  DEF Next, ClientStep

\* While the metadata pages stay in memory, a read never returns data older
\* than the object that was in the cloud when PrepareReadChunk was called,
\* whatever is cancelled, retried or written meanwhile.
THEOREM FreshReads == MetadataResident => (Spec => []FreshRead)
<1> SUFFICES ASSUME MetadataResident PROVE Spec => []FreshRead
  OBVIOUS
<1>1. Init => FreshInv
  BY DEF Init, FreshInv, VersionsOrdered, DataFresh, ReadersFresh, ReaderStates, WriterStates
<1>2. IInv /\ FreshInv /\ [Next]_vars => FreshInv'
  BY VersionStep, DataStep, ReadersStep DEF FreshInv
<1>3. IInv /\ FreshInv => FreshRead
  BY DEF IInv, FreshInv, ReadersFresh, FreshRead, TypeOK, Versions, NoVersion
<1>4. QED  BY <1>1, <1>2, <1>3, Invariance, PTL DEF Spec

=============================================================================
