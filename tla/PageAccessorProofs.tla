------------------------- MODULE PageAccessorProofs -------------------------
(***************************************************************************)
(* Proofs about a page accessor, for any threads, chunks, pages and bounds.*)
(*                                                                         *)
(* A step of a thread is one of ten (Steps): it moves only the thread and  *)
(* the counters of its page, or it reads, publishes, inserts, takes out,   *)
(* deletes, fills, writes or evicts a page, or ends a commit.  The first   *)
(* part shows which step each action is; what holds of pages and threads   *)
(* is then proved for each step.  The second part is about the data of the *)
(* pages, on top of what the first shows: preparations are exact, no write *)
(* is lost, and every reader sees the last write.                          *)
(***************************************************************************)
EXTENDS PageAccessor, UniqueListsProofs

USE PageAccessorAssumption DEF At, Mine, On

-----------------------------------------------------------------------------
(* The inductive invariant of the cache: who holds which page.             *)

\* Who inserts pages.  A chunk can get a second page when one inserts it while
\* another waits for a commit, so that the theorems ask for an accessor that is
\* not committed, or that one thread inserts pages into.
Inserters == Jobs \cup Readers \cup Creators
NoDuplicates == Committers = {} \/ \A t, u \in Inserters : t = u

\* m_pages and m_pages_lru have the same pages.
Listed ==
  /\ Distinct(lru)
  /\ \A c \in Chunks : pages[c] # NoPage => pages[c] \in OnList /\ page[pages[c]].chunk = c
  /\ \A p \in OnList : page[p] # NoPage /\ pages[page[p].chunk] = p

\* What a thread is given is on the list until it cancels it; a thread that
\* waits for a commit is the one to insert its chunk.
PageStates == {"prepared", "enter", "fetch", "publish", "leave", "await", "cancel",
               "create", "holding"}
Place(t) ==
  /\ thread[t].pc \in {"idle", "waitCommit"} => Mine(t) = NoPage
  /\ thread[t].pc \in PageStates => Mine(t) # NoPage
  /\ Mine(t) # NoPage => page[Mine(t)] # NoPage /\ (At(t, "cancel") <=> Mine(t) \notin OnList)
  /\ thread[t].victim # NoPage <=> At(t, "limitWait")
  /\ thread[t].victim # NoPage => thread[t].victim \in OnList
  /\ At(t, "waitCommit") =>
       Committers # {} /\ t \in Inserters /\ pages[thread[t].chunk] = NoPage
  /\ thread[t].pc \in {"commitWait", "commitFlush"} => Committers # {}
  /\ At(t, "publish") => thread[t].got # NoData
OneCanceller == \A t, u \in Threads :
  At(t, "cancel") /\ At(u, "cancel") /\ Mine(t) = Mine(u) => t = u

\* The counters of a page are the threads that raised them.
Holders(p) == {t \in Threads : Mine(t) = p /\ ~At(t, "cancel")}
Victims(p) == {t \in Threads : thread[t].victim = p}
Setters(p) == {t \in Threads : Mine(t) = p /\ thread[t].pc \in {"fetch", "publish", "leave"}}
Counted == \A p \in Live :
  /\ page[p].pins = Cardinality(Holders(p)) + Cardinality(Victims(p))
  /\ page[p].settingData = Cardinality(Setters(p))

WritesBounded == clock + Cardinality({t \in Threads : At(t, "create")}) <= MaxWrites
CommitsOnly == committing => Committers # {}

\* A page that was written has data, and so has the page of a thread that has a
\* buffer of it or waits to evict it.
DataThere ==
  /\ \A p \in Live : page[p].dirty \/ page[p].written => page[p].data # NoData
  /\ \A t \in Threads :
       /\ thread[t].victim # NoPage => page[thread[t].victim].data # NoData
       /\ thread[t].writable =>
            /\ thread[t].pc \in {"holding", "commitWait", "commitFlush"}
            /\ Mine(t) # NoPage /\ On(t).data # NoData

PinsInv ==
  /\ TypeOK /\ Listed /\ (\A t \in Threads : Place(t)) /\ OneCanceller /\ Counted
  /\ WritesBounded /\ CommitsOnly /\ DataThere

-----------------------------------------------------------------------------
(* The steps.                                                              *)

\* Only thread t moves.
Moves(t) == thread' \in [Threads -> ThreadRecord] /\ \A u \in Threads \ {t} : thread'[u] = thread[u]
\* It keeps its page, its victim and its buffers.
Keeps(t) ==
  /\ thread'[t].page = Mine(t) /\ thread'[t].victim = thread[t].victim
  /\ thread'[t].writable = thread[t].writable /\ thread'[t].got = thread[t].got
Goes(t, l, m) == At(t, l) /\ thread'[t].pc = m /\ Keeps(t)

\* The counters of page p change by what thread t does.
Bit(test) == IF test THEN 1 ELSE 0
Holds(t, p) == Mine(t) = p /\ ~At(t, "cancel")
Waits(t, p) == thread[t].victim = p
Sets(t, p)  == Mine(t) = p /\ thread[t].pc \in {"fetch", "publish", "leave"}
CountedBy(t, p) ==
  /\ page'[p].pins + Bit(Holds(t, p)) + Bit(Waits(t, p))
       = page[p].pins + Bit(Holds(t, p)') + Bit(Waits(t, p)')
  /\ page'[p].settingData + Bit(Sets(t, p)) = page[p].settingData + Bit(Sets(t, p)')

\* Two pages that differ in their counters alone.
Alike(r, s) ==
  /\ s \in PageRecord /\ r.chunk = s.chunk /\ r.requestPrepared = s.requestPrepared
  /\ r.error = s.error /\ r.data = s.data /\ r.dirty = s.dirty /\ r.written = s.written
  /\ r.seen = s.seen
SameList == UNCHANGED pages /\ lru' \in Seq(Pages) /\ Distinct(lru') /\ OnList' = OnList
Untouched(P) == \A p \in Pages \ P : page'[p] = page[p]

\* Where a step that changes no more than counters takes its thread.
Resters == {"idle", "holding"}
Begins(t) ==
  \/ /\ At(t, "idle") /\ thread'[t].pc = "prepared" /\ thread'[t].page \in OnList
     /\ thread'[t].victim = thread[t].victim /\ thread'[t].writable = thread[t].writable
     /\ t \in Inserters
  \/ /\ Goes(t, "idle", "waitCommit") /\ t \in Inserters /\ committing
     /\ pages[thread'[t].chunk] = NoPage
  \/ Goes(t, "idle", "limit")
  \/ Goes(t, "idle", "idle")
Reads(t) ==
  \/ Goes(t, "prepared", "enter") /\ On(t).requestPrepared
  \/ Goes(t, "prepared", "holding") /\ ~On(t).requestPrepared
  \/ Goes(t, "enter", "fetch") /\ On(t).settingData = 0
  \/ Goes(t, "enter", "leave") /\ On(t).settingData # 0
  \/ Goes(t, "fetch", "holding") /\ ~On(t).requestPrepared
  \/ Goes(t, "leave", "await")
  \/ Goes(t, "await", "await")
  \/ Goes(t, "await", "limit") /\ On(t).settingData = 0
  \/ Goes(t, "await", "holding") /\ On(t).settingData = 0
GivesBack(t) ==
  /\ thread'[t].pc = "idle" /\ thread'[t].page = NoPage
  /\ thread'[t].victim = thread[t].victim
  /\ \/ At(t, "prepared") /\ t \in Jobs /\ On(t).pins > 1 /\ thread'[t].writable = thread[t].writable
     \/ At(t, "holding") /\ ~thread'[t].writable
TakesBuffer(t) ==
  /\ At(t, "holding") /\ thread'[t].pc = "holding" /\ On(t).data # NoData
  /\ thread'[t].page = Mine(t) /\ thread'[t].victim = thread[t].victim
Limits(t) ==
  \/ Goes(t, "limit", Resting(t)) \/ Goes(t, "limitBlocked", Resting(t))
  \/ Goes(t, "limit", "limitBlocked")
  \/ /\ thread[t].pc \in {"limit", "limitBlocked"} /\ thread'[t].pc = "limitWait"
     /\ thread'[t].victim \in OnList /\ page[thread'[t].victim].written
     /\ thread'[t].page = Mine(t) /\ thread'[t].writable = thread[t].writable
  \/ /\ At(t, "limitWait") /\ thread'[t].pc = "limit" /\ thread'[t].victim = NoPage
     /\ page[thread[t].victim].pins > 1
     /\ thread'[t].page = Mine(t) /\ thread'[t].writable = thread[t].writable
Commits(t) ==
  /\ Committers # {} /\ Keeps(t)
  /\ thread[t].pc \in {Resting(t), "commitWait"}
  /\ thread'[t].pc \in {"commitWait", "commitFlush"}
Still(t) ==
  /\ Moves(t) /\ SameList
  /\ \A p \in Pages : IF page[p] = NoPage THEN page'[p] = NoPage
                      ELSE Alike(page[p], page'[p]) /\ CountedBy(t, p)
  /\ UNCHANGED <<prepared, stored, clock, latest, fault>>
  /\ committing' => committing \/ Committers # {}
  /\ committing => committing'
  /\ Begins(t) \/ Reads(t) \/ GivesBack(t) \/ TakesBuffer(t) \/ Limits(t) \/ Commits(t)

\* The other steps.
Fetches(t) ==
  /\ Moves(t) /\ At(t, "fetch") /\ thread'[t].pc = "publish" /\ On(t).requestPrepared
  /\ thread'[t].page = Mine(t) /\ thread'[t].victim = thread[t].victim
  /\ thread'[t].writable = thread[t].writable
  /\ thread'[t].got \in ReadOutcomes(On(t).chunk, On(t))
  /\ prepared' = [prepared EXCEPT ![On(t).chunk] = IF @ = 0 THEN 0 ELSE @ - 1]
  /\ UNCHANGED <<pages, lru, page, stored, clock, latest, fault, committing>>
Publishes(t) ==
  /\ Moves(t) /\ At(t, "publish") /\ thread'[t].pc \in {"holding", "limit"}
  /\ thread'[t].page = Mine(t) /\ thread'[t].victim = thread[t].victim
  /\ thread'[t].writable = thread[t].writable
  /\ page'[Mine(t)] = ReadPage(On(t), thread[t].got) /\ Untouched({Mine(t)})
  /\ UNCHANGED <<pages, lru, prepared, stored, clock, latest, fault, committing>>
Inserts(t, p, c) ==
  /\ Moves(t) /\ page[p] = NoPage /\ pages[c] = NoPage /\ t \in Inserters
  /\ thread'[t].page = p /\ thread'[t].victim = thread[t].victim
  /\ thread'[t].writable = thread[t].writable
  /\ pages' = [pages EXCEPT ![c] = p] /\ lru' = <<p>> \o lru
  /\ \E failed \in BOOLEAN : page'[p] = VolumeDataPageImpl(c, failed)
  /\ Untouched({p})
  /\ \/ /\ thread[t].pc \in {"idle", "waitCommit"} /\ thread'[t].pc = "prepared"
        /\ prepared' = [prepared EXCEPT ![c] = @ + 1]
     \/ /\ At(t, "idle") /\ thread'[t].pc = "create" /\ t \in Creators /\ MayWrite
        /\ UNCHANGED prepared
  /\ UNCHANGED <<stored, clock, latest, fault, committing>>
TakesOut(t) ==
  /\ Moves(t) /\ At(t, "prepared") /\ t \in Jobs /\ thread'[t].pc = "cancel"
  /\ On(t).pins = 1 /\ Keeps(t)
  /\ pages' = ErasePage(On(t).chunk) /\ lru' = Erase(lru, Mine(t))
  /\ page'[Mine(t)] = UnPin(On(t)) /\ Untouched({Mine(t)})
  /\ UNCHANGED <<prepared, stored, clock, latest, fault, committing>>
Deletes(t) ==
  /\ Moves(t) /\ At(t, "cancel") /\ thread'[t].pc = "idle" /\ thread'[t].page = NoPage
  /\ thread'[t].victim = thread[t].victim /\ thread'[t].writable = thread[t].writable
  /\ prepared' = [prepared EXCEPT ![On(t).chunk] =
                    IF OwnsPreparation(On(t)) /\ @ > 0 THEN @ - 1 ELSE @]
  /\ page'[Mine(t)] = NoPage /\ Untouched({Mine(t)})
  /\ UNCHANGED <<pages, lru, stored, clock, latest, fault, committing>>
Fills(t) ==
  /\ Moves(t) /\ Goes(t, "create", "limit")
  /\ clock' = clock + 1 /\ latest' = [latest EXCEPT ![On(t).chunk] = clock + 1]
  /\ page'[Mine(t)] = [On(t) EXCEPT !.data = [Unwritten EXCEPT ![On(t).chunk] = clock + 1],
                                    !.dirty = TRUE]
  /\ Untouched({Mine(t)})
  /\ UNCHANGED <<pages, lru, prepared, stored, fault, committing>>
Writes(t) ==
  /\ At(t, "holding") /\ thread[t].writable /\ MayWrite
  /\ clock' = clock + 1 /\ latest' = [latest EXCEPT ![On(t).chunk] = clock + 1]
  /\ page'[Mine(t)] = MarkWritten([On(t) EXCEPT !.data[On(t).chunk] = clock + 1])
  /\ Untouched({Mine(t)})
  /\ UNCHANGED <<pages, lru, thread, prepared, stored, fault, committing>>
Evicts(t, v) ==
  /\ Moves(t) /\ v \in OnList /\ thread'[t].pc = "limit" /\ thread'[t].victim = NoPage
  /\ thread'[t].page = Mine(t) /\ thread'[t].writable = thread[t].writable
  /\ ~IsReadInProgress(v)
  /\ \/ thread[t].pc \in {"limit", "limitBlocked"} /\ page[v].pins = 0
     \/ At(t, "limitWait") /\ thread[t].victim = v /\ page[v].pins <= 1
  /\ pages' = ErasePage(page[v].chunk) /\ lru' = Erase(lru, v)
  /\ fault' = (fault \/ CopiesIntoNothing(v))
  /\ stored' = WriteBack(CopyMargins(page, v), {v})
  /\ page' = [NoteSeen(CopyMargins(page, v), {v}) EXCEPT ![v] = NoPage]
  /\ UNCHANGED <<prepared, clock, latest, committing>>
Flushes(t) ==
  /\ Moves(t) /\ Goes(t, "commitFlush", Resting(t))
  /\ stored' = WriteBack(CopyAllMargins(page), OnList)
  /\ page' = [p \in Pages |->
                IF p \in OnList /\ CopyAllMargins(page)[p].dirty
                THEN [NoteSeen(CopyAllMargins(page), OnList)[p] EXCEPT !.dirty = FALSE, !.written = FALSE]
                ELSE NoteSeen(CopyAllMargins(page), OnList)[p]]
  /\ ~committing'
  /\ UNCHANGED <<pages, lru, prepared, clock, latest>>
Steps(t) ==
  \/ Still(t) \/ Fetches(t) \/ Publishes(t) \/ (\E p \in Pages, c \in Chunks : Inserts(t, p, c))
  \/ TakesOut(t) \/ Deletes(t) \/ Fills(t) \/ Writes(t)
  \/ (\E v \in Pages : Evicts(t, v)) \/ Flushes(t)

-----------------------------------------------------------------------------
(* Counting threads.                                                       *)

\* Two sets that differ in x at most.
LEMMA CountMoves ==
  ASSUME NEW S, IsFiniteSet(S), NEW A \in SUBSET S, NEW B \in SUBSET S, NEW x \in S,
         A \ {x} = B \ {x}
  PROVE  /\ Cardinality(A) \in Nat /\ Cardinality(B) \in Nat
         /\ Cardinality(B) + Bit(x \in A) = Cardinality(A) + Bit(x \in B)
<1> DEFINE C == A \ {x}
<1>1. IsFiniteSet(A) /\ IsFiniteSet(B) /\ IsFiniteSet(C)
  BY FS_Subset
<1>2. /\ Cardinality(A) \in Nat /\ Cardinality(B) \in Nat /\ Cardinality(C) \in Nat
  BY <1>1, FS_CardinalityType
<1>3. /\ Cardinality(C) = IF x \in A THEN Cardinality(A) - 1 ELSE Cardinality(A)
      /\ Cardinality(C) = IF x \in B THEN Cardinality(B) - 1 ELSE Cardinality(B)
  BY <1>1, FS_RemoveElement
<1>4. QED  BY <1>2, <1>3 DEF Bit

LEMMA ThreadsMove ==
  ASSUME NEW t \in Threads, Moves(t), NEW p
  PROVE  /\ Cardinality(Holders(p)) \in Nat /\ Cardinality(Holders(p)') \in Nat
         /\ Cardinality(Victims(p)) \in Nat /\ Cardinality(Victims(p)') \in Nat
         /\ Cardinality(Setters(p)) \in Nat /\ Cardinality(Setters(p)') \in Nat
         /\ Cardinality(Holders(p)') + Bit(Holds(t, p)) = Cardinality(Holders(p)) + Bit(Holds(t, p)')
         /\ Cardinality(Victims(p)') + Bit(Waits(t, p)) = Cardinality(Victims(p)) + Bit(Waits(t, p)')
         /\ Cardinality(Setters(p)') + Bit(Sets(t, p)) = Cardinality(Setters(p)) + Bit(Sets(t, p)')
<1>1. /\ Holders(p) \in SUBSET Threads /\ Holders(p)' \in SUBSET Threads
      /\ Holders(p) \ {t} = Holders(p)' \ {t}
      /\ (t \in Holders(p) <=> Holds(t, p)) /\ (t \in Holders(p)' <=> Holds(t, p)')
  BY DEF Moves, Holders, Holds
<1>2. /\ Victims(p) \in SUBSET Threads /\ Victims(p)' \in SUBSET Threads
      /\ Victims(p) \ {t} = Victims(p)' \ {t}
      /\ (t \in Victims(p) <=> Waits(t, p)) /\ (t \in Victims(p)' <=> Waits(t, p)')
  BY DEF Moves, Victims, Waits
<1>3. /\ Setters(p) \in SUBSET Threads /\ Setters(p)' \in SUBSET Threads
      /\ Setters(p) \ {t} = Setters(p)' \ {t}
      /\ (t \in Setters(p) <=> Sets(t, p)) /\ (t \in Setters(p)' <=> Sets(t, p)')
  BY DEF Moves, Setters, Sets
<1>4. /\ Cardinality(Holders(p)) \in Nat /\ Cardinality(Holders(p)') \in Nat
      /\ Cardinality(Holders(p)') + Bit(t \in Holders(p)) = Cardinality(Holders(p)) + Bit(t \in Holders(p)')
  BY <1>1, CountMoves
<1>5. /\ Cardinality(Victims(p)) \in Nat /\ Cardinality(Victims(p)') \in Nat
      /\ Cardinality(Victims(p)') + Bit(t \in Victims(p)) = Cardinality(Victims(p)) + Bit(t \in Victims(p)')
  BY <1>2, CountMoves
<1>6. /\ Cardinality(Setters(p)) \in Nat /\ Cardinality(Setters(p)') \in Nat
      /\ Cardinality(Setters(p)') + Bit(t \in Setters(p)) = Cardinality(Setters(p)) + Bit(t \in Setters(p)')
  BY <1>3, CountMoves
<1>7. QED  BY <1>1, <1>2, <1>3, <1>4, <1>5, <1>6 DEF Bit

LEMMA PlacedLive ==
  ASSUME Listed, \A u \in Threads : Place(u), NEW p \in Pages, page[p] = NoPage
  PROVE  \A u \in Threads : Mine(u) # p /\ thread[u].victim # p
BY DEF Listed, Place

\* The counters stay exact when those of each page change as thread t does.
Rest(t, p) == /\ page'[p].pins = Bit(Holds(t, p)') + Bit(Waits(t, p)')
              /\ page'[p].settingData = Bit(Sets(t, p)')
LEMMA CountsKept ==
  ASSUME TypeOK, Listed, Counted, \A u \in Threads : Place(u), NEW t \in Threads, Moves(t),
         page' \in [Pages -> PageRecord \cup {NoPage}],
         \A p \in Pages : page'[p] # NoPage =>
           IF page[p] # NoPage THEN CountedBy(t, p) ELSE Rest(t, p)
  PROVE  Counted'
<1>1. SUFFICES ASSUME NEW p \in Pages, page'[p] # NoPage
               PROVE  /\ page'[p].pins = Cardinality(Holders(p)') + Cardinality(Victims(p)')
                      /\ page'[p].settingData = Cardinality(Setters(p)')
  BY DEF Counted, Live
<1>2. /\ Cardinality(Holders(p)) \in Nat /\ Cardinality(Holders(p)') \in Nat
      /\ Cardinality(Victims(p)) \in Nat /\ Cardinality(Victims(p)') \in Nat
      /\ Cardinality(Setters(p)) \in Nat /\ Cardinality(Setters(p)') \in Nat
      /\ Cardinality(Holders(p)') + Bit(Holds(t, p)) = Cardinality(Holders(p)) + Bit(Holds(t, p)')
      /\ Cardinality(Victims(p)') + Bit(Waits(t, p)) = Cardinality(Victims(p)) + Bit(Waits(t, p)')
      /\ Cardinality(Setters(p)') + Bit(Sets(t, p)) = Cardinality(Setters(p)) + Bit(Sets(t, p)')
  BY ThreadsMove
<1>3. page'[p].pins \in Nat /\ page'[p].settingData \in Nat
  BY <1>1 DEF PageRecord
<1>4. CASE page[p] # NoPage
  <2>1. CountedBy(t, p) /\ page[p] \in PageRecord
    BY <1>1, <1>4 DEF TypeOK
  <2>2. /\ page[p].pins = Cardinality(Holders(p)) + Cardinality(Victims(p))
        /\ page[p].settingData = Cardinality(Setters(p))
    BY <1>4 DEF Counted, Live
  <2>3. QED  BY <1>2, <1>3, <2>1, <2>2 DEF CountedBy, Bit
<1>5. CASE page[p] = NoPage
  <2>1. Holders(p) = {} /\ Victims(p) = {} /\ Setters(p) = {}
    <3>1. ASSUME NEW u \in Threads PROVE Mine(u) # p /\ thread[u].victim # p
      BY <1>5, PlacedLive
    <3>2. QED  BY <3>1 DEF Holders, Victims, Setters
  <2>2. /\ Cardinality(Holders(p)) = 0 /\ Cardinality(Victims(p)) = 0
        /\ Cardinality(Setters(p)) = 0
    BY <2>1, FS_EmptySet
  <2>3. ~Holds(t, p) /\ ~Waits(t, p) /\ ~Sets(t, p)
    BY <2>1 DEF Holds, Waits, Sets, Holders, Victims, Setters
  <2>4. Rest(t, p)
    BY <1>1, <1>5
  <2>5. QED  BY <1>2, <1>3, <2>2, <2>3, <2>4 DEF Rest, Bit
<1>6. QED  BY <1>4, <1>5

\* Other threads stay placed when their pages stay where they are.
LEMMA OthersPlaced ==
  ASSUME \A u \in Threads : Place(u), NEW t \in Threads, Moves(t),
         \A u \in Threads \ {t} : \A p \in {Mine(u), thread[u].victim} \ {NoPage} :
           page'[p] # NoPage /\ (p \in OnList' <=> p \in OnList),
         \A u \in Threads \ {t} : At(u, "waitCommit") => pages'[thread[u].chunk] = NoPage
  PROVE  \A u \in Threads \ {t} : Place(u)'
<1>1. SUFFICES ASSUME NEW u \in Threads \ {t} PROVE Place(u)'
  OBVIOUS
<1>2. thread'[u] = thread[u] /\ Place(u)
  BY DEF Moves
<1>3. /\ Mine(u) # NoPage => page'[Mine(u)] # NoPage /\ (Mine(u) \in OnList' <=> Mine(u) \in OnList)
      /\ thread[u].victim # NoPage =>
           (thread[u].victim \in OnList' <=> thread[u].victim \in OnList)
  OBVIOUS
<1>4. At(u, "waitCommit") => pages'[thread[u].chunk] = NoPage
  OBVIOUS
<1>5. QED  BY <1>2, <1>3, <1>4 DEF Place

\* Of the threads that cancel, only t can be new.
LEMMA CancellersKept ==
  ASSUME OneCanceller, NEW t \in Threads, Moves(t),
         At(t, "cancel")' => \A u \in Threads \ {t} : At(u, "cancel") => Mine(u) # thread'[t].page
  PROVE  OneCanceller'
BY DEF OneCanceller, Moves

\* The bound on writes, when the clock stands still.
LEMMA WritesKept ==
  ASSUME TypeOK, WritesBounded, NEW t \in Threads, Moves(t), UNCHANGED clock,
         At(t, "create")' => At(t, "create")
  PROVE  WritesBounded'
<1> DEFINE A == {u \in Threads : At(u, "create")}
           B == {u \in Threads : At(u, "create")'}
<1>1. B \in SUBSET A /\ IsFiniteSet(A)
  <2>1. A \in SUBSET Threads
    OBVIOUS
  <2>2. B \in SUBSET A
    BY DEF Moves
  <2>3. QED  BY <2>1, <2>2, FS_Subset
<1>2. Cardinality(B) <= Cardinality(A) /\ Cardinality(A) \in Nat /\ Cardinality(B) \in Nat
  BY <1>1, FS_Subset, FS_CardinalityType
<1>3. clock \in Nat
  BY DEF TypeOK, Versions
<1>4. clock' + Cardinality(B) <= MaxWrites
  <2>1. clock + Cardinality(A) <= MaxWrites
    BY DEF WritesBounded
  <2> HIDE DEF A, B
  <2>2. QED  BY <1>2, <1>3, <2>1
<1>5. QED  BY <1>4 DEF WritesBounded

-----------------------------------------------------------------------------
(* The invariant of the cache, step by step.                               *)

\* A page on the list is a page.
LEMMA ListedPages ==
  ASSUME TypeOK, Listed
  PROVE  OnList \subseteq Live /\ \A p \in OnList : page[p] \in PageRecord
<1>1. OnList \subseteq Pages
  BY ListMembers DEF TypeOK, OnList
<1>2. QED  BY <1>1 DEF TypeOK, Listed, Live

\* A page that a thread has, and the record of it.
LEMMA MyPage ==
  ASSUME PinsInv, NEW t \in Threads, Mine(t) # NoPage
  PROVE  /\ Mine(t) \in Pages /\ On(t) \in PageRecord /\ On(t) # NoPage
         /\ ~At(t, "cancel") => Mine(t) \in OnList /\ pages[On(t).chunk] = Mine(t)
BY DEF PinsInv, TypeOK, ThreadRecord, Place, Listed

\* The pages that threads have and wait with.
LEMMA PagesAlive ==
  ASSUME PinsInv
  PROVE  \A u \in Threads : {Mine(u), thread[u].victim} \ {NoPage} \subseteq Live
<1>1. ASSUME NEW u \in Threads, Mine(u) # NoPage PROVE Mine(u) \in Live
  BY <1>1, MyPage DEF Live
<1>2. ASSUME NEW u \in Threads, thread[u].victim # NoPage PROVE thread[u].victim \in Live
  <2>1. thread[u].victim \in OnList
    BY <1>2 DEF PinsInv, Place
  <2>2. QED  BY <2>1, ListedPages DEF PinsInv
<1>3. QED  BY <1>1, <1>2

\* Steps that change no more than counters.
LEMMA StillPlaces ==
  ASSUME PinsInv, NEW t \in Threads, Still(t)
  PROVE  Place(t)' /\ ~At(t, "cancel")' /\ ~At(t, "create")' /\ ~At(t, "cancel")
<1>1. /\ Place(t) /\ thread[t] \in ThreadRecord /\ thread'[t] \in ThreadRecord
      /\ \A p \in Pages : page[p] # NoPage => page'[p] # NoPage
      /\ OnList' = OnList /\ pages' = pages
      /\ OnList \subseteq Live /\ Mine(t) \in Pages \cup {NoPage}
  <2>1. /\ Place(t) /\ thread[t] \in ThreadRecord /\ thread'[t] \in ThreadRecord
        /\ OnList' = OnList /\ pages' = pages
    BY DEF PinsInv, TypeOK, Still, SameList, Moves
  <2>2. \A p \in Pages : page[p] # NoPage => page'[p] # NoPage
    BY DEF Still, Alike
  <2>3. OnList \subseteq Live
    BY ListedPages DEF PinsInv
  <2>4. QED  BY <2>1, <2>2, <2>3 DEF ThreadRecord
<1>2. committing => Committers # {}
  BY DEF PinsInv, CommitsOnly
<1>3. CASE Begins(t)
  BY <1>1, <1>2, <1>3 DEF Begins, Goes, Keeps, Place, PageStates, Live
<1>4. CASE Reads(t)
  BY <1>1, <1>4 DEF Reads, Goes, Keeps, Place, PageStates, Live
<1>5. CASE GivesBack(t)
  BY <1>1, <1>5 DEF GivesBack, Goes, Keeps, Place, PageStates, Live
<1>6. CASE TakesBuffer(t)
  BY <1>1, <1>6 DEF TakesBuffer, Goes, Keeps, Place, PageStates, Live
<1>7. CASE Limits(t)
  BY <1>1, <1>7 DEF Limits, Goes, Keeps, Place, PageStates, Live, Resting
<1>8. CASE Commits(t)
  BY <1>1, <1>8 DEF Commits, Goes, Keeps, Place, PageStates, Live, Resting
<1>9. QED  BY <1>3, <1>4, <1>5, <1>6, <1>7, <1>8 DEF Still

\* A step that leaves every page where it is.
LEMMA StaysInv ==
  ASSUME PinsInv, TypeOK', NEW t \in Threads, Moves(t), SameList,
         \A p \in Pages : page[p] = NoPage => page'[p] = NoPage,
         \A p \in Live : page'[p] # NoPage /\ page'[p].chunk = page[p].chunk /\ CountedBy(t, p),
         Place(t)', ~At(t, "cancel")', WritesBounded', CommitsOnly', DataThere'
  PROVE  PinsInv'
<1>0. /\ TypeOK /\ Listed /\ OneCanceller /\ Counted /\ (\A u \in Threads : Place(u))
      /\ page \in [Pages -> PageRecord \cup {NoPage}] /\ page' \in [Pages -> PageRecord \cup {NoPage}]
      /\ OnList \subseteq Live /\ OnList' = OnList /\ pages' = pages /\ Distinct(lru')
  BY ListedPages DEF PinsInv, TypeOK, SameList
<1>1. Listed'
  BY <1>0 DEF Listed, TypeOK
<1>2. \A u \in Threads \ {t} : Place(u)'
  <2>1. \A u \in Threads : \A p \in {Mine(u), thread[u].victim} \ {NoPage} : p \in Live
    BY PagesAlive
  <2>2. \A u \in Threads \ {t} : At(u, "waitCommit") => pages'[thread[u].chunk] = NoPage
    BY <1>0 DEF Place
  <2>3. QED  BY <1>0, <2>1, <2>2, OthersPlaced
<1>3. OneCanceller'
  BY <1>0, CancellersKept
<1>4. Counted'
  BY <1>0, CountsKept DEF Live
<1>5. QED  BY <1>1, <1>2, <1>3, <1>4 DEF PinsInv

\* No page that a thread has loses its data.
LEMMA DataKept ==
  ASSUME PinsInv, NEW t \in Threads, Moves(t),
         \A p \in Pages : page'[p] # NoPage /\ (page'[p].dirty \/ page'[p].written) =>
                            page'[p].data # NoData,
         \A u \in Threads \ {t} : \A p \in {Mine(u), thread[u].victim} \ {NoPage} :
           page[p].data # NoData => page'[p].data # NoData,
         thread'[t].victim # NoPage => page'[thread'[t].victim].data # NoData,
         thread'[t].writable =>
           /\ thread'[t].pc \in {"holding", "commitWait", "commitFlush"}
           /\ thread'[t].page # NoPage /\ page'[thread'[t].page].data # NoData
  PROVE  DataThere'
<1>1. ASSUME NEW u \in Threads \ {t}
      PROVE  /\ thread'[u].victim # NoPage => page'[thread'[u].victim].data # NoData
             /\ thread'[u].writable =>
                  /\ thread'[u].pc \in {"holding", "commitWait", "commitFlush"}
                  /\ thread'[u].page # NoPage /\ page'[thread'[u].page].data # NoData
  <2>1. thread'[u] = thread[u] /\ Place(u) /\ DataThere
    BY DEF Moves, PinsInv
  <2>2. QED  BY <2>1 DEF DataThere
<1>2. QED  BY <1>1 DEF DataThere, Live

LEMMA StillData ==
  ASSUME PinsInv, NEW t \in Threads, Still(t)
  PROVE  DataThere'
<1>1. /\ \A p \in Live : page'[p] # NoPage /\ page'[p].data = page[p].data
           /\ page'[p].dirty = page[p].dirty /\ page'[p].written = page[p].written
      /\ \A p \in Pages : page[p] = NoPage => page'[p] = NoPage
  BY DEF Still, Alike, Live
<1>2. /\ TypeOK /\ DataThere /\ Place(t) /\ Moves(t) /\ OnList \subseteq Live
      /\ \A u \in Threads : {Mine(u), thread[u].victim} \ {NoPage} \subseteq Live
  BY PagesAlive, ListedPages DEF PinsInv, Still
<1>3. \A p \in Pages : page'[p] # NoPage /\ (page'[p].dirty \/ page'[p].written) =>
                         page'[p].data # NoData
  BY <1>1, <1>2 DEF DataThere, Live
<1>4. \A u \in Threads \ {t} : \A p \in {Mine(u), thread[u].victim} \ {NoPage} :
        page[p].data # NoData => page'[p].data # NoData
  BY <1>1, <1>2
<1>5. /\ thread'[t].victim # NoPage => page'[thread'[t].victim].data # NoData
      /\ thread'[t].writable =>
           /\ thread'[t].pc \in {"holding", "commitWait", "commitFlush"}
           /\ thread'[t].page # NoPage /\ page'[thread'[t].page].data # NoData
  <2>1. /\ thread[t].victim # NoPage => page[thread[t].victim].data # NoData
        /\ thread[t].writable => /\ thread[t].pc \in {"holding", "commitWait", "commitFlush"}
                                 /\ Mine(t) # NoPage /\ On(t).data # NoData
    BY <1>2 DEF DataThere
  <2>2. \A p \in OnList : page[p].written => page[p].data # NoData
    BY <1>2 DEF DataThere
  <2>3. Mine(t) # NoPage => page'[Mine(t)].data = On(t).data
    BY <1>1, <1>2
  <2>4. thread[t].victim # NoPage => page'[thread[t].victim].data = page[thread[t].victim].data
    BY <1>1, <1>2
  <2>5. \A p \in OnList : page'[p].data = page[p].data
    BY <1>1, <1>2
  <2> HIDE DEF Mine, On
  <2> USE DEF Place, PageStates
  <2>6. CASE Begins(t)
    BY <2>1, <2>2, <2>3, <2>4, <2>5, <2>6, <1>2 DEF Begins, Goes, Keeps
  <2>7. CASE Reads(t)
    BY <2>1, <2>2, <2>3, <2>4, <2>5, <2>7, <1>2 DEF Reads, Goes, Keeps
  <2>8. CASE GivesBack(t)
    BY <2>1, <2>2, <2>3, <2>4, <2>5, <2>8, <1>2 DEF GivesBack, Goes, Keeps
  <2>9. CASE TakesBuffer(t)
    BY <2>1, <2>2, <2>3, <2>4, <2>5, <2>9, <1>2 DEF TakesBuffer, Goes, Keeps
  <2>10. CASE Limits(t)
    BY <2>1, <2>2, <2>3, <2>4, <2>5, <2>10, <1>2 DEF Limits, Goes, Keeps, Resting
  <2>11. CASE Commits(t)
    BY <2>1, <2>2, <2>3, <2>4, <2>5, <2>11, <1>2 DEF Commits, Goes, Keeps, Resting
  <2>12. QED  BY <2>6, <2>7, <2>8, <2>9, <2>10, <2>11 DEF Still
<1>6. QED  BY <1>2, <1>3, <1>4, <1>5, DataKept

LEMMA StillInv ==
  ASSUME PinsInv, TypeOK', NEW t \in Threads, Still(t)
  PROVE  PinsInv'
<1>1. Place(t)' /\ ~At(t, "cancel")' /\ ~At(t, "create")' /\ Moves(t)
  BY StillPlaces DEF Still
<1>2. /\ SameList
      /\ \A p \in Pages : page[p] = NoPage => page'[p] = NoPage
      /\ \A p \in Live : page'[p] # NoPage /\ page'[p].chunk = page[p].chunk /\ CountedBy(t, p)
  BY DEF Still, Alike, Live
<1>3. WritesBounded'
  BY <1>1, WritesKept DEF Still, PinsInv
<1>4. CommitsOnly'
  BY DEF CommitsOnly, PinsInv, Still
<1>5. DataThere'
  BY StillData
<1>6. QED  BY <1>1, <1>2, <1>3, <1>4, <1>5, StaysInv

\* Steps that leave every page where it is and change the record of one.
LEMMA OneRecord ==
  ASSUME PinsInv, TypeOK', NEW t \in Threads, Moves(t), UNCHANGED <<pages, lru>>,
         Mine(t) # NoPage,
         Untouched({Mine(t)}),
         page'[Mine(t)] # NoPage /\ page'[Mine(t)].chunk = On(t).chunk,
         \A p \in Live : CountedBy(t, p),
         (page'[Mine(t)].dirty \/ page'[Mine(t)].written) => page'[Mine(t)].data # NoData,
         On(t).data # NoData => page'[Mine(t)].data # NoData,
         thread'[t].page = Mine(t), thread'[t].victim = thread[t].victim,
         thread'[t].writable = thread[t].writable, thread[t].writable => thread'[t].pc = "holding",
         At(t, "limitWait") <=> thread'[t].pc = "limitWait",
         thread'[t].pc \notin {"idle", "waitCommit", "cancel", "commitWait", "commitFlush"},
         thread'[t].pc = "publish" => thread'[t].got # NoData,
         ~At(t, "cancel"), WritesBounded', UNCHANGED committing
  PROVE  PinsInv'
<1>0. /\ TypeOK /\ Listed /\ Place(t) /\ DataThere /\ CommitsOnly
      /\ Mine(t) \in Pages /\ page[Mine(t)] # NoPage
      /\ \A p \in Pages \ {Mine(t)} : page'[p] = page[p]
      /\ \A u \in Threads : {Mine(u), thread[u].victim} \ {NoPage} \subseteq Live
  <2>1. \A u \in Threads : {Mine(u), thread[u].victim} \ {NoPage} \subseteq Live
    BY PagesAlive
  <2>2. QED  BY <2>1, MyPage DEF PinsInv, Untouched
<1>1. SameList
  BY <1>0 DEF SameList, OnList, Listed, TypeOK
<1>2. /\ \A p \in Pages : page[p] = NoPage => page'[p] = NoPage
      /\ \A p \in Live : page'[p] # NoPage /\ page'[p].chunk = page[p].chunk
      /\ \A p \in Live : page[p].data # NoData => page'[p].data # NoData
  BY <1>0 DEF Live
<1>3. Place(t)'
  BY <1>0, <1>1, <1>2 DEF Place, SameList, PageStates, Live
<1>4. CommitsOnly'
  BY <1>0 DEF CommitsOnly
<1>5. DataThere'
  <2>1. \A p \in Pages : page'[p] # NoPage /\ (page'[p].dirty \/ page'[p].written) =>
                           page'[p].data # NoData
    BY <1>0 DEF DataThere, Live
  <2>2. \A u \in Threads \ {t} : \A p \in {Mine(u), thread[u].victim} \ {NoPage} :
          page[p].data # NoData => page'[p].data # NoData
    BY <1>0, <1>2
  <2>3. thread'[t].victim # NoPage => page'[thread'[t].victim].data # NoData
    BY <1>0, <1>2 DEF DataThere
  <2>4. thread'[t].writable =>
          /\ thread'[t].pc \in {"holding", "commitWait", "commitFlush"}
          /\ thread'[t].page # NoPage /\ page'[thread'[t].page].data # NoData
    BY <1>0 DEF DataThere
  <2>5. QED  BY <2>1, <2>2, <2>3, <2>4, DataKept
<1>6. QED  BY <1>1, <1>2, <1>3, <1>4, <1>5, StaysInv

\* The counters of the other pages, when the thread's page and victim stay.
LEMMA OtherCounts ==
  ASSUME NEW t \in Threads, Moves(t), NEW q \in Pages, q # Mine(t), page'[q] = page[q],
         thread'[t].page = Mine(t), thread'[t].victim = thread[t].victim
  PROVE  CountedBy(t, q)
BY DEF CountedBy, Holds, Waits, Sets

LEMMA FetchInv ==
  ASSUME PinsInv, TypeOK', NEW t \in Threads, Fetches(t)
  PROVE  PinsInv'
<1>1. /\ Moves(t) /\ At(t, "fetch") /\ thread'[t].pc = "publish" /\ UNCHANGED <<pages, lru, page>>
      /\ thread'[t].page = Mine(t) /\ thread'[t].victim = thread[t].victim
      /\ thread'[t].writable = thread[t].writable /\ UNCHANGED <<clock, committing>>
  BY DEF Fetches
<1>2. Mine(t) # NoPage /\ ~thread[t].writable /\ DataThere /\ TypeOK /\ WritesBounded
  BY <1>1 DEF PinsInv, Place, PageStates, DataThere
<1>3. /\ Mine(t) \in Pages /\ On(t) \in PageRecord /\ On(t) # NoPage
      /\ thread'[t].got # NoData
  <2>1. Mine(t) \in Pages /\ On(t) \in PageRecord /\ On(t) # NoPage
    BY <1>2, MyPage
  <2>2. stored[On(t).chunk] \in Blocks
    BY <1>2, <2>1 DEF TypeOK, PageRecord
  <2>3. QED  BY <2>1, <2>2 DEF Fetches, ReadOutcomes
<1>4. Untouched({Mine(t)}) /\ page'[Mine(t)] = On(t)
  BY <1>1 DEF Untouched
<1>5. CountedBy(t, Mine(t))
  BY <1>1 DEF CountedBy, Holds, Waits, Sets
<1>6. \A p \in Live : CountedBy(t, p)
  BY <1>1, <1>5, OtherCounts DEF Live
<1>7. WritesBounded'
  BY <1>1, <1>2, WritesKept
<1>8. On(t).dirty \/ On(t).written => On(t).data # NoData
  BY <1>2, <1>3 DEF DataThere, Live
<1>9. QED  BY <1>1, <1>2, <1>3, <1>4, <1>6, <1>7, <1>8, OneRecord

\* What the setter changes.
LEMMA ReadPageFields ==
  ASSUME NEW r \in PageRecord, NEW block \in Blocks \cup {NoData, Failed}
  PROVE  /\ ReadPage(r, block).chunk = r.chunk /\ ReadPage(r, block).pins = r.pins
         /\ ReadPage(r, block).settingData = r.settingData - 1
         /\ ReadPage(r, block).dirty = r.dirty /\ ReadPage(r, block).written = r.written
         /\ ReadPage(r, block).seen = r.seen /\ ~ReadPage(r, block).requestPrepared
         /\ ReadPage(r, block).data = IF block = Failed THEN r.data ELSE block
         /\ r.settingData > 0 => ReadPage(r, block) \in PageRecord
<1>1. CASE block = Failed
  <2>1. PICK s : s = [r EXCEPT !.error = TRUE, !.requestPrepared = FALSE, !.settingData = @ - 1]
    OBVIOUS
  <2>2. /\ s.chunk = r.chunk /\ s.pins = r.pins /\ s.settingData = r.settingData - 1
        /\ s.dirty = r.dirty /\ s.written = r.written /\ s.seen = r.seen
        /\ ~s.requestPrepared /\ s.data = r.data
    BY <2>1 DEF PageRecord
  <2>3. ASSUME r.settingData > 0 PROVE s \in PageRecord
    <3>1. r.settingData - 1 \in Nat
      BY <2>3 DEF PageRecord
    <3>2. QED  BY <2>1, <3>1 DEF PageRecord
  <2>4. QED  BY <1>1, <2>1, <2>2, <2>3 DEF ReadPage
<1>2. CASE block # Failed
  <2>1. PICK s : s = [r EXCEPT !.data = block, !.requestPrepared = FALSE, !.settingData = @ - 1]
    OBVIOUS
  <2>2. /\ s.chunk = r.chunk /\ s.pins = r.pins /\ s.settingData = r.settingData - 1
        /\ s.dirty = r.dirty /\ s.written = r.written /\ s.seen = r.seen
        /\ ~s.requestPrepared /\ s.data = block
    BY <2>1 DEF PageRecord
  <2>3. block \in Blocks \cup {NoData}
    BY <1>2
  <2>4. ASSUME r.settingData > 0 PROVE s \in PageRecord
    <3>1. r.settingData - 1 \in Nat
      BY <2>4 DEF PageRecord
    <3>2. QED  BY <2>1, <2>3, <3>1 DEF PageRecord
  <2>5. QED  BY <1>2, <2>1, <2>2, <2>4 DEF ReadPage
<1>3. QED  BY <1>1, <1>2

\* A thread that sets a page's data is counted.
LEMMA SetterCounts ==
  ASSUME PinsInv, NEW t \in Threads, thread[t].pc \in {"fetch", "publish", "leave"}
  PROVE  On(t).settingData > 0
<1>1. Mine(t) \in Live
  BY MyPage DEF PinsInv, Place, PageStates, Live
<1>2. On(t).settingData = Cardinality(Setters(Mine(t))) /\ t \in Setters(Mine(t))
  BY <1>1 DEF PinsInv, Counted, Setters
<1>3. IsFiniteSet(Setters(Mine(t)))
  <2>1. Setters(Mine(t)) \in SUBSET Threads
    BY DEF Setters
  <2>2. QED  BY <2>1, FS_Subset
<1>4. Cardinality(Setters(Mine(t))) # 0 /\ Cardinality(Setters(Mine(t))) \in Nat
  BY <1>2, <1>3, FS_EmptySet, FS_CardinalityType
<1>5. QED  BY <1>2, <1>4

LEMMA PublishInv ==
  ASSUME PinsInv, TypeOK', NEW t \in Threads, Publishes(t)
  PROVE  PinsInv'
<1>1. /\ Moves(t) /\ At(t, "publish") /\ thread'[t].pc \in {"holding", "limit"}
      /\ UNCHANGED <<pages, lru>>
      /\ thread'[t].page = Mine(t) /\ thread'[t].victim = thread[t].victim
      /\ thread'[t].writable = thread[t].writable /\ UNCHANGED <<clock, committing>>
      /\ Untouched({Mine(t)})
  BY DEF Publishes
<1>2. /\ Mine(t) # NoPage /\ ~thread[t].writable /\ DataThere /\ TypeOK /\ WritesBounded
      /\ thread[t].got \in Blocks \cup {NoData, Failed} /\ thread[t].got # NoData
  BY <1>1 DEF PinsInv, Place, PageStates, DataThere, TypeOK, ThreadRecord
<1>3. Mine(t) \in Pages /\ On(t) \in PageRecord /\ On(t) # NoPage
  BY <1>2, MyPage
<1>4. PICK s : s = page'[Mine(t)]
  OBVIOUS
<1>5. /\ s.chunk = On(t).chunk /\ s.pins = On(t).pins /\ s.settingData = On(t).settingData - 1
      /\ s.dirty = On(t).dirty /\ s.written = On(t).written
      /\ s.data = IF thread[t].got = Failed THEN On(t).data ELSE thread[t].got
      /\ On(t).settingData > 0 => s \in PageRecord
  BY <1>2, <1>3, <1>4, ReadPageFields DEF Publishes
<1>6. On(t).settingData > 0
  BY <1>1, SetterCounts
<1>7. CountedBy(t, Mine(t))
  BY <1>1, <1>3, <1>4, <1>5 DEF CountedBy, Holds, Waits, Sets, PageRecord, Bit
<1>8. \A p \in Live : CountedBy(t, p)
  BY <1>1, <1>7, OtherCounts DEF Live, Untouched
<1>9. WritesBounded'
  BY <1>1, <1>2, WritesKept
<1>10. /\ On(t).dirty \/ On(t).written => On(t).data # NoData
       /\ s # NoPage
  BY <1>2, <1>3, <1>5, <1>6 DEF DataThere, Live
<1>11. /\ s.dirty \/ s.written => s.data # NoData
       /\ On(t).data # NoData => s.data # NoData
  BY <1>2, <1>5, <1>10
<1>12. QED  BY <1>1, <1>2, <1>4, <1>5, <1>8, <1>9, <1>10, <1>11, OneRecord

\* A page that is created gets its data: it counts as written, no longer as
\* being created.
LEMMA FillInv ==
  ASSUME PinsInv, TypeOK', NEW t \in Threads, Fills(t)
  PROVE  PinsInv'
<1>1. /\ Moves(t) /\ At(t, "create") /\ thread'[t].pc = "limit"
      /\ UNCHANGED <<pages, lru>> /\ Keeps(t)
      /\ UNCHANGED committing /\ Untouched({Mine(t)}) /\ clock' = clock + 1
  BY DEF Fills, Goes
<1>2. /\ Mine(t) # NoPage /\ ~thread[t].writable /\ DataThere /\ TypeOK /\ WritesBounded
  BY <1>1 DEF PinsInv, Place, PageStates, DataThere
<1>3. Mine(t) \in Pages /\ On(t) \in PageRecord /\ On(t) # NoPage
  BY <1>2, MyPage
<1>4. PICK r \in PageRecord : r = On(t)
  BY <1>3
<1>5. PICK s : s = page'[Mine(t)]
  OBVIOUS
<1>6. /\ s.chunk = r.chunk /\ s.pins = r.pins /\ s.settingData = r.settingData
      /\ s.data = [Unwritten EXCEPT ![r.chunk] = clock + 1]
  BY <1>4, <1>5 DEF Fills, PageRecord
<1>7. s \in PageRecord \cup {NoPage} /\ clock + 1 \in Versions /\ s.data \in Blocks
  <2>1. clock' \in Versions /\ page' \in [Pages -> PageRecord \cup {NoPage}]
    BY DEF TypeOK
  <2>2. Unwritten \in Blocks
    BY DEF Unwritten, Blocks, Versions
  <2>3. s \in PageRecord \cup {NoPage} /\ clock + 1 \in Versions
    BY <1>1, <1>3, <1>5, <2>1
  <2>4. QED  BY <1>6, <2>2, <2>3 DEF Blocks
<1>8. s # NoPage
  <2>1. [r EXCEPT !.data = [Unwritten EXCEPT ![r.chunk] = clock + 1], !.dirty = TRUE] \in PageRecord
    BY <1>6, <1>7 DEF PageRecord
  <2>2. QED  BY <1>4, <1>5, <2>1 DEF Fills
<1>9. CountedBy(t, Mine(t))
  BY <1>1, <1>4, <1>5, <1>6 DEF CountedBy, Holds, Waits, Sets, PageRecord, Bit, Keeps
<1>10. \A p \in Live : CountedBy(t, p)
  BY <1>1, <1>9, OtherCounts DEF Live, Untouched, Keeps
<1>11. WritesBounded'
  <2> DEFINE A == {u \in Threads : At(u, "create")}
             B == {u \in Threads : At(u, "create")'}
  <2>1. B = A \ {t} /\ t \in A
    BY <1>1 DEF Moves
  <2>2. IsFiniteSet(A)
    <3>1. A \in SUBSET Threads
      OBVIOUS
    <3>2. QED  BY <3>1, FS_Subset
  <2>3. clock + Cardinality(A) <= MaxWrites
    BY <1>2 DEF WritesBounded
  <2> HIDE DEF A, B
  <2>4. Cardinality(B) = Cardinality(A) - 1 /\ Cardinality(A) \in Nat
    BY <2>1, <2>2, FS_RemoveElement, FS_CardinalityType
  <2>5. clock' + Cardinality(B) <= MaxWrites
    BY <1>1, <1>2, <2>3, <2>4 DEF TypeOK, Versions
  <2>6. QED  BY <2>5 DEF WritesBounded, B
<1>12. QED  BY <1>1, <1>2, <1>4, <1>5, <1>6, <1>7, <1>8, <1>10, <1>11, OneRecord DEF Keeps

LEMMA WriteInv ==
  ASSUME PinsInv, TypeOK', NEW t \in Threads, Writes(t)
  PROVE  PinsInv'
<1>1. /\ At(t, "holding") /\ thread[t].writable /\ UNCHANGED <<pages, lru, thread>>
      /\ UNCHANGED committing /\ Untouched({Mine(t)}) /\ clock' = clock + 1 /\ MayWrite
  BY DEF Writes
<1>2. /\ Mine(t) # NoPage /\ DataThere /\ TypeOK /\ WritesBounded
  BY <1>1 DEF PinsInv, Place, PageStates
<1>3. Mine(t) \in Pages /\ On(t) \in PageRecord /\ On(t) # NoPage
  BY <1>2, MyPage
<1>4. PICK r \in PageRecord : r = On(t)
  BY <1>3
<1>5. PICK s : s = page'[Mine(t)]
  OBVIOUS
<1>6. r.data \in Blocks /\ clock + 1 \in Versions
  BY <1>1, <1>2, <1>4 DEF DataThere, PageRecord, TypeOK
<1>7. /\ s.chunk = r.chunk /\ s.pins = r.pins /\ s.settingData = r.settingData
      /\ s.data = [r.data EXCEPT ![r.chunk] = clock + 1] /\ s.data \in Blocks /\ s # NoPage
  <2>1. PICK d \in Blocks : d = [r.data EXCEPT ![r.chunk] = clock + 1]
    BY <1>6 DEF Blocks
  <2>2. PICK q \in PageRecord : q = [r EXCEPT !.data[r.chunk] = clock + 1]
    BY <2>1 DEF PageRecord
  <2>3. q.data = d /\ q.chunk = r.chunk /\ q.pins = r.pins /\ q.settingData = r.settingData
    BY <2>1, <2>2 DEF PageRecord
  <2>4. s = MarkWritten(q)
    BY <1>4, <1>5, <2>2 DEF Writes
  <2>5. MarkWritten(q) \in PageRecord
    BY DEF MarkWritten, PageRecord
  <2>6. QED  BY <2>1, <2>3, <2>4, <2>5 DEF MarkWritten, PageRecord
<1>8. Moves(t)
  BY <1>1, <1>2 DEF Moves, TypeOK
<1>9. CountedBy(t, Mine(t))
  BY <1>1, <1>4, <1>5, <1>7 DEF CountedBy, Holds, Waits, Sets, PageRecord, Bit
<1>10. \A p \in Live : CountedBy(t, p)
  BY <1>1, <1>8, <1>9, OtherCounts DEF Live, Untouched
<1>11. WritesBounded'
  <2>1. clock + Cardinality({u \in Threads : At(u, "create")}) < MaxWrites
    BY <1>1 DEF MayWrite
  <2>2. PICK n : n = Cardinality({u \in Threads : At(u, "create")})
    OBVIOUS
  <2>3. n \in Nat
    <3>1. {u \in Threads : At(u, "create")} \in SUBSET Threads
      OBVIOUS
    <3>2. QED  BY <2>2, <3>1, FS_Subset, FS_CardinalityType
  <2>4. clock + 1 + n <= MaxWrites
    BY <1>2, <2>1, <2>2, <2>3 DEF TypeOK, Versions
  <2>5. QED  BY <1>1, <2>2, <2>4 DEF WritesBounded
<1>12. QED  BY <1>1, <1>2, <1>4, <1>5, <1>6, <1>7, <1>8, <1>10, <1>11, OneRecord

-----------------------------------------------------------------------------
(* Pages that come and go.                                                 *)

\* A new page of a chunk that has none.
LEMMA InsertInv ==
  ASSUME NoDuplicates, PinsInv, TypeOK', NEW t \in Threads, NEW p \in Pages, NEW c \in Chunks,
         Inserts(t, p, c)
  PROVE  PinsInv'
<1>0. /\ TypeOK /\ Listed /\ OneCanceller /\ Counted /\ (\A u \in Threads : Place(u)) /\ Moves(t)
      /\ WritesBounded /\ DataThere /\ CommitsOnly /\ page[p] = NoPage /\ pages[c] = NoPage
      /\ page' \in [Pages -> PageRecord \cup {NoPage}]
      /\ p # NoPage /\ OnList \subseteq Live /\ p \notin OnList
      /\ \A u \in Threads : {Mine(u), thread[u].victim} \ {NoPage} \subseteq Live
      /\ \A q \in Pages \ {p} : page'[q] = page[q]
      /\ thread'[t].page = p /\ thread'[t].victim = thread[t].victim
      /\ thread'[t].writable = thread[t].writable
      /\ thread[t].pc \in {"idle", "waitCommit"} /\ thread'[t].pc \in {"prepared", "create"}
  BY ListedPages, PagesAlive DEF PinsInv, Inserts, Untouched, Live, TypeOK
<1>1. PICK r : r = page'[p]
  OBVIOUS
<1>2. /\ r \in PageRecord /\ r # NoPage /\ r.chunk = c /\ r.pins = 1 /\ r.settingData = 0
      /\ ~r.dirty /\ ~r.written
  <2>1. PICK failed \in BOOLEAN : r = VolumeDataPageImpl(c, failed)
    BY <1>1 DEF Inserts
  <2>2. Unwritten \in Blocks
    BY DEF Unwritten, Blocks, Versions
  <2>3. VolumeDataPageImpl(c, failed) \in PageRecord
    BY <2>2 DEF VolumeDataPageImpl, PageRecord
  <2>4. QED  BY <2>1, <2>3 DEF VolumeDataPageImpl
<1>3. /\ lru' \in Seq(Pages) /\ Distinct(lru') /\ OnList' = OnList \cup {p}
  BY <1>0, PushFront DEF Inserts, Listed, TypeOK, OnList
<1>4. pages' = [pages EXCEPT ![c] = p] /\ pages \in [Chunks -> Pages \cup {NoPage}]
  BY <1>0 DEF Inserts, TypeOK
<1>5. \A q \in OnList : page'[q] = page[q] /\ page[q].chunk \in Chunks \ {c} /\ q # p
  BY <1>0, ListedPages DEF Listed, PageRecord, Live
<1>6. Listed'
  <2>1. \A d \in Chunks : pages'[d] # NoPage => pages'[d] \in OnList' /\ page'[pages'[d]].chunk = d
    BY <1>0, <1>1, <1>2, <1>3, <1>4, <1>5 DEF Listed
  <2>2. \A q \in OnList' : page'[q] # NoPage /\ pages'[page'[q].chunk] = q
    BY <1>0, <1>1, <1>2, <1>3, <1>4, <1>5 DEF Listed
  <2>3. QED  BY <1>3, <2>1, <2>2 DEF Listed
<1>7. \A u \in Threads : Place(u)'
  <2>1. \A u \in Threads \ {t} : \A q \in {Mine(u), thread[u].victim} \ {NoPage} :
          page'[q] # NoPage /\ (q \in OnList' <=> q \in OnList)
    BY <1>0, <1>3 DEF Live
  <2>2. ASSUME NEW u \in Threads \ {t}, At(u, "waitCommit")
        PROVE  pages'[thread[u].chunk] = NoPage
    <3>1. Committers # {} /\ u \in Inserters /\ t \in Inserters
      BY <1>0, <2>2 DEF Place, Inserts
    <3>2. QED  BY <3>1 DEF NoDuplicates
  <2>3. \A u \in Threads \ {t} : Place(u)'
    BY <1>0, <2>1, <2>2, OthersPlaced
  <2>4. Place(t)'
    BY <1>0, <1>1, <1>2, <1>3 DEF Place, PageStates
  <2>5. QED  BY <2>3, <2>4
<1>8. OneCanceller'
  BY <1>0, CancellersKept
<1>9. Counted'
  <2>1. Rest(t, p)
    <3>1. Holds(t, p)' /\ ~Waits(t, p)' /\ ~Sets(t, p)'
      BY <1>0, <1>7 DEF Holds, Waits, Sets, Place
    <3>2. QED  BY <1>1, <1>2, <3>1 DEF Rest, Bit
  <2>2. ASSUME NEW q \in Pages, page[q] # NoPage PROVE CountedBy(t, q)
    <3>1. ~Holds(t, q) /\ ~Sets(t, q) /\ ~Holds(t, q)' /\ ~Sets(t, q)'
      BY <1>0, <2>2 DEF Holds, Sets, Place
    <3>2. page'[q] = page[q] /\ (Waits(t, q)' <=> Waits(t, q))
      BY <1>0, <2>2 DEF Waits
    <3>3. QED  BY <3>1, <3>2 DEF CountedBy, Bit
  <2>3. QED  BY <1>0, <2>1, <2>2, CountsKept
<1>10. WritesBounded'
  <2>1. CASE thread'[t].pc = "prepared"
    BY <1>0, <2>1, WritesKept DEF Inserts
  <2>2. CASE thread'[t].pc = "create"
    <3> DEFINE A == {u \in Threads : At(u, "create")}
               B == {u \in Threads : At(u, "create")'}
    <3>1. B = A \cup {t} /\ t \notin A
      BY <1>0, <2>2 DEF Moves
    <3>2. IsFiniteSet(A)
      <4>1. A \in SUBSET Threads
        OBVIOUS
      <4>2. QED  BY <4>1, FS_Subset
    <3>3. clock + Cardinality(A) < MaxWrites /\ clock' = clock
      BY <2>2 DEF Inserts, MayWrite
    <3> HIDE DEF A, B
    <3>4. Cardinality(B) = Cardinality(A) + 1 /\ Cardinality(A) \in Nat
      BY <3>1, <3>2, FS_AddElement, FS_CardinalityType
    <3>5. PICK m, n : m = Cardinality(A) /\ n = Cardinality(B)
      OBVIOUS
    <3>6. clock \in Nat
      BY <1>0 DEF TypeOK, Versions
    <3>7. clock' + n <= MaxWrites
      BY <3>3, <3>4, <3>5, <3>6
    <3>8. QED  BY <3>5, <3>7 DEF WritesBounded, B
  <2>3. QED  BY <1>0, <2>1, <2>2
<1>11. CommitsOnly'
  BY <1>0 DEF CommitsOnly, Inserts
<1>12. DataThere'
  <2>1. \A q \in Pages : page'[q] # NoPage /\ (page'[q].dirty \/ page'[q].written) =>
                           page'[q].data # NoData
    BY <1>0, <1>1, <1>2 DEF DataThere, Live
  <2>2. \A u \in Threads \ {t} : \A q \in {Mine(u), thread[u].victim} \ {NoPage} :
          page[q].data # NoData => page'[q].data # NoData
    BY <1>0 DEF Live
  <2>3. thread'[t].victim = NoPage /\ ~thread'[t].writable
    BY <1>0 DEF Place, DataThere
  <2>4. QED  BY <1>0, <2>1, <2>2, <2>3, DataKept
<1>13. QED  BY <1>6, <1>7, <1>8, <1>9, <1>10, <1>11, <1>12 DEF PinsInv

\* Who has a page with few pins.
LEMMA FewPins ==
  ASSUME PinsInv, NEW p \in Live
  PROVE  /\ page[p].pins = 0 => Holders(p) = {} /\ Victims(p) = {}
         /\ \A t \in Holders(p) : page[p].pins > 0 /\ (page[p].pins = 1 => Holders(p) = {t} /\ Victims(p) = {})
         /\ \A t \in Victims(p) : page[p].pins > 0 /\ (page[p].pins = 1 => Holders(p) = {} /\ Victims(p) = {t})
<1> DEFINE H == Holders(p)
           V == Victims(p)
<1>1. IsFiniteSet(H) /\ IsFiniteSet(V) /\ H \in SUBSET Threads /\ V \in SUBSET Threads
  <2>1. H \in SUBSET Threads /\ V \in SUBSET Threads
    BY DEF Holders, Victims
  <2>2. QED  BY <2>1, FS_Subset
<1>2. page[p].pins = Cardinality(H) + Cardinality(V)
  BY DEF PinsInv, Counted
<1> HIDE DEF H, V
<1>3. Cardinality(H) \in Nat /\ Cardinality(V) \in Nat
  BY <1>1, FS_CardinalityType
<1>4. page[p].pins = 0 => H = {} /\ V = {}
  BY <1>1, <1>2, <1>3, FS_EmptySet
<1>5. ASSUME NEW t \in H PROVE page[p].pins > 0 /\ (page[p].pins = 1 => H = {t} /\ V = {})
  <2>1. Cardinality(H) # 0
    BY <1>1, <1>5, FS_EmptySet
  <2>2. page[p].pins = 1 => Cardinality(H) = 1 /\ Cardinality(V) = 0
    BY <1>2, <1>3, <2>1
  <2>3. (Cardinality(H) = 1 => \E x : H = {x}) /\ (Cardinality(V) = 0 => V = {})
    BY <1>1, FS_Singleton, FS_EmptySet
  <2>4. QED  BY <1>2, <1>3, <1>5, <2>1, <2>2, <2>3
<1>6. ASSUME NEW t \in V PROVE page[p].pins > 0 /\ (page[p].pins = 1 => H = {} /\ V = {t})
  <2>1. Cardinality(V) # 0
    BY <1>1, <1>6, FS_EmptySet
  <2>2. page[p].pins = 1 => Cardinality(V) = 1 /\ Cardinality(H) = 0
    BY <1>2, <1>3, <2>1
  <2>3. (Cardinality(V) = 1 => \E x : V = {x}) /\ (Cardinality(H) = 0 => H = {})
    BY <1>1, FS_Singleton, FS_EmptySet
  <2>4. QED  BY <1>2, <1>3, <1>6, <2>1, <2>2, <2>3
<1>7. QED  BY <1>4, <1>5, <1>6 DEF H, V

\* A page leaves the list; nobody but t may have it.
LEMMA ListLeaves ==
  ASSUME PinsInv, TypeOK', NEW v \in OnList,
         pages' = ErasePage(page[v].chunk), lru' = Erase(lru, v),
         \A q \in Live \ {v} : page'[q] # NoPage /\ page'[q].chunk = page[q].chunk
  PROVE  Listed' /\ OnList' = OnList \ {v}
<1>1. TypeOK /\ Listed /\ OnList \subseteq Live /\ \A q \in OnList : page[q] \in PageRecord
  BY ListedPages DEF PinsInv
<1>2. OnList' = OnList \ {v} /\ Distinct(lru')
  BY <1>1, EraseOne DEF Listed, TypeOK, OnList
<1>3. pages' = [pages EXCEPT ![page[v].chunk] = NoPage] /\ pages \in [Chunks -> Pages \cup {NoPage}]
  BY <1>1 DEF ErasePage, TypeOK
<1>4. \A q \in OnList : page[q].chunk \in Chunks /\ pages[page[q].chunk] = q
  BY <1>1 DEF Listed, PageRecord
<1>5. \A d \in Chunks : pages'[d] # NoPage => pages'[d] \in OnList' /\ page'[pages'[d]].chunk = d
  <2>1. ASSUME NEW d \in Chunks, pages'[d] # NoPage
        PROVE  pages'[d] \in OnList' /\ page'[pages'[d]].chunk = d
    <3>1. d # page[v].chunk /\ pages'[d] = pages[d] /\ pages[d] \in OnList /\ page[pages[d]].chunk = d
      BY <1>1, <1>3, <2>1 DEF Listed
    <3>2. pages[d] # v
      BY <3>1
    <3>3. QED  BY <1>1, <1>2, <3>1, <3>2
  <2>2. QED  BY <2>1
<1>6. \A q \in OnList' : page'[q] # NoPage /\ pages'[page'[q].chunk] = q
  <2>1. ASSUME NEW q \in OnList, q # v PROVE page'[q] # NoPage /\ pages'[page'[q].chunk] = q
    <3>1. page'[q] # NoPage /\ page'[q].chunk = page[q].chunk
      BY <1>1, <2>1
    <3>2. page[q].chunk # page[v].chunk
      BY <1>4, <2>1
    <3>3. QED  BY <1>3, <1>4, <3>1, <3>2
  <2>2. QED  BY <1>2, <2>1
<1>7. QED  BY <1>2, <1>5, <1>6 DEF Listed

LEMMA TakeOutInv ==
  ASSUME PinsInv, TypeOK', NEW t \in Threads, TakesOut(t)
  PROVE  PinsInv'
<1>0. /\ TypeOK /\ Listed /\ OneCanceller /\ Counted /\ (\A u \in Threads : Place(u)) /\ Moves(t)
      /\ WritesBounded /\ DataThere /\ CommitsOnly /\ Mine(t) # NoPage
      /\ At(t, "prepared") /\ thread'[t].pc = "cancel" /\ Keeps(t) /\ On(t).pins = 1
      /\ page' \in [Pages -> PageRecord \cup {NoPage}]
      /\ \A u \in Threads : {Mine(u), thread[u].victim} \ {NoPage} \subseteq Live
      /\ \A q \in Pages \ {Mine(t)} : page'[q] = page[q]
  BY PagesAlive DEF PinsInv, TakesOut, Untouched, TypeOK, Place, PageStates
<1>1. Mine(t) \in Pages /\ On(t) \in PageRecord /\ On(t) # NoPage /\ Mine(t) \in OnList /\ Mine(t) \in Live
  BY <1>0, MyPage DEF Live
<1>2. PICK s : s = page'[Mine(t)]
  OBVIOUS
<1>3. /\ s # NoPage /\ s.chunk = On(t).chunk /\ s.pins = 0 /\ s.settingData = On(t).settingData
      /\ s.dirty = On(t).dirty /\ s.written = On(t).written /\ s.data = On(t).data
  <2>1. PICK r \in PageRecord : r = On(t)
    BY <1>1
  <2>2. s = [r EXCEPT !.pins = @ - 1] /\ r.pins = 1
    BY <1>0, <1>2, <2>1 DEF TakesOut, UnPin
  <2>3. s \in PageRecord
    BY <2>2 DEF PageRecord
  <2>4. QED  BY <2>1, <2>2, <2>3 DEF PageRecord
<1>4. Listed' /\ OnList' = OnList \ {Mine(t)}
  BY <1>0, <1>1, <1>2, <1>3, ListLeaves DEF TakesOut, Live
<1>5. \A u \in Threads \ {t} : Mine(u) # Mine(t) /\ thread[u].victim # Mine(t)
  <2>1. t \in Holders(Mine(t))
    BY <1>0 DEF Holders
  <2>2. Holders(Mine(t)) = {t} /\ Victims(Mine(t)) = {}
    BY <1>0, <1>1, <2>1, FewPins
  <2>3. ASSUME NEW u \in Threads \ {t} PROVE Mine(u) # Mine(t)
    BY <1>0, <1>1, <2>2 DEF Holders, Place
  <2>4. QED  BY <2>2, <2>3 DEF Victims
<1>6. \A u \in Threads : Place(u)'
  <2>1. \A u \in Threads \ {t} : \A q \in {Mine(u), thread[u].victim} \ {NoPage} :
          page'[q] # NoPage /\ (q \in OnList' <=> q \in OnList)
    BY <1>0, <1>4, <1>5 DEF Live
  <2>2. ASSUME NEW u \in Threads \ {t}, At(u, "waitCommit")
        PROVE  pages'[thread[u].chunk] = NoPage
    <3>1. pages[thread[u].chunk] = NoPage /\ thread[u].chunk \in Chunks
      BY <1>0, <2>2 DEF Place, TypeOK, ThreadRecord
    <3>2. QED  BY <1>0, <3>1 DEF TakesOut, ErasePage, TypeOK
  <2>3. \A u \in Threads \ {t} : Place(u)'
    BY <1>0, <2>1, <2>2, OthersPlaced
  <2>4. Place(t)'
    BY <1>0, <1>1, <1>2, <1>3, <1>4 DEF Place, PageStates, Keeps
  <2>5. QED  BY <2>3, <2>4
<1>7. OneCanceller'
  <2>1. \A u \in Threads \ {t} : At(u, "cancel") => Mine(u) # thread'[t].page
    BY <1>0, <1>5 DEF Keeps
  <2>2. QED  BY <1>0, <2>1, CancellersKept
<1>8. Counted'
  <2>1. CountedBy(t, Mine(t))
    <3>1. Holds(t, Mine(t)) /\ ~Sets(t, Mine(t)) /\ ~Waits(t, Mine(t))
      BY <1>0 DEF Holds, Sets, Waits, Place
    <3>2. ASSUME NEW q, q = Mine(t) PROVE ~Holds(t, q)' /\ ~Sets(t, q)' /\ ~Waits(t, q)'
      BY <1>0, <3>1, <3>2 DEF Holds, Sets, Waits, Keeps
    <3>3. PICK q : q = Mine(t)
      OBVIOUS
    <3>4. CountedBy(t, q)
      BY <1>0, <1>1, <1>2, <1>3, <3>1, <3>2, <3>3 DEF CountedBy, Bit, PageRecord
    <3>5. QED  BY <3>3, <3>4
  <2>2. \A q \in Live : CountedBy(t, q)
    BY <1>0, <2>1, OtherCounts DEF Live, Keeps
  <2>3. \A q \in Pages : page[q] = NoPage => page'[q] = NoPage
    BY <1>0, <1>1
  <2>4. QED  BY <1>0, <2>2, <2>3, CountsKept DEF Live
<1>9. WritesBounded'
  BY <1>0, WritesKept DEF TakesOut
<1>10. CommitsOnly'
  BY <1>0 DEF CommitsOnly, TakesOut
<1>11. DataThere'
  <2>1. \A q \in Pages : page'[q] # NoPage /\ (page'[q].dirty \/ page'[q].written) =>
                           page'[q].data # NoData
    BY <1>0, <1>1, <1>2, <1>3 DEF DataThere, Live
  <2>2. \A u \in Threads \ {t} : \A q \in {Mine(u), thread[u].victim} \ {NoPage} :
          page[q].data # NoData => page'[q].data # NoData
    BY <1>0, <1>5 DEF Live
  <2>3. thread'[t].victim = NoPage /\ ~thread'[t].writable
    BY <1>0 DEF Place, DataThere, Keeps
  <2>4. QED  BY <1>0, <2>1, <2>2, <2>3, DataKept
<1>12. QED  BY <1>4, <1>6, <1>7, <1>8, <1>9, <1>10, <1>11 DEF PinsInv

LEMMA DeleteInv ==
  ASSUME PinsInv, TypeOK', NEW t \in Threads, Deletes(t)
  PROVE  PinsInv'
<1>0. /\ TypeOK /\ Listed /\ OneCanceller /\ Counted /\ (\A u \in Threads : Place(u)) /\ Moves(t)
      /\ WritesBounded /\ DataThere /\ CommitsOnly /\ Mine(t) # NoPage
      /\ At(t, "cancel") /\ thread'[t].pc = "idle" /\ thread'[t].page = NoPage
      /\ thread'[t].victim = thread[t].victim /\ thread'[t].writable = thread[t].writable
      /\ page' \in [Pages -> PageRecord \cup {NoPage}]
      /\ \A u \in Threads : {Mine(u), thread[u].victim} \ {NoPage} \subseteq Live
      /\ \A q \in Pages \ {Mine(t)} : page'[q] = page[q]
      /\ UNCHANGED <<pages, lru>> /\ page'[Mine(t)] = NoPage /\ OnList \subseteq Live
  BY PagesAlive, ListedPages DEF PinsInv, Deletes, Untouched, TypeOK, Place, PageStates
<1>1. Mine(t) \in Pages /\ Mine(t) \notin OnList /\ OnList' = OnList
  BY <1>0, MyPage DEF Place, OnList
<1>2. Listed'
  <2>1. \A q \in OnList : page'[q] = page[q]
    BY <1>0, <1>1 DEF Live
  <2>2. Distinct(lru') /\ pages' = pages
    BY <1>0 DEF Listed
  <2>3. \A c \in Chunks : pages'[c] # NoPage => pages'[c] \in OnList' /\ page'[pages'[c]].chunk = c
    BY <1>0, <1>1, <2>1, <2>2 DEF Listed
  <2>4. \A q \in OnList' : page'[q] # NoPage /\ pages'[page'[q].chunk] = q
    BY <1>0, <1>1, <2>1, <2>2 DEF Listed
  <2>5. QED  BY <2>2, <2>3, <2>4 DEF Listed
<1>3. \A u \in Threads \ {t} : Mine(u) # Mine(t) /\ thread[u].victim # Mine(t)
  <2>1. ASSUME NEW u \in Threads \ {t} PROVE Mine(u) # Mine(t)
    BY <1>0, <1>1 DEF Place, OneCanceller
  <2>2. QED  BY <1>0, <1>1, <2>1 DEF Place
<1>4. \A u \in Threads : Place(u)'
  <2>1. \A u \in Threads \ {t} : \A q \in {Mine(u), thread[u].victim} \ {NoPage} :
          page'[q] # NoPage /\ (q \in OnList' <=> q \in OnList)
    BY <1>0, <1>1, <1>3 DEF Live
  <2>2. \A u \in Threads \ {t} : At(u, "waitCommit") => pages'[thread[u].chunk] = NoPage
    BY <1>0 DEF Place
  <2>3. \A u \in Threads \ {t} : Place(u)'
    BY <1>0, <2>1, <2>2, OthersPlaced
  <2>4. Place(t)'
    BY <1>0 DEF Place, PageStates
  <2>5. QED  BY <2>3, <2>4
<1>5. OneCanceller'
  BY <1>0, CancellersKept
<1>6. Counted'
  <2>1. ASSUME NEW q \in Pages, page'[q] # NoPage PROVE page[q] # NoPage /\ CountedBy(t, q)
    <3>1. q # Mine(t) /\ page'[q] = page[q]
      BY <1>0, <2>1
    <3>2. /\ ~Holds(t, q) /\ ~Sets(t, q) /\ ~Holds(t, q)' /\ ~Sets(t, q)'
          /\ (Waits(t, q)' <=> Waits(t, q))
      BY <1>0, <3>1 DEF Holds, Sets, Waits
    <3>3. QED  BY <2>1, <3>1, <3>2 DEF CountedBy, Bit
  <2>2. QED  BY <1>0, <2>1, CountsKept
<1>7. WritesBounded'
  BY <1>0, WritesKept DEF Deletes
<1>8. CommitsOnly'
  BY <1>0 DEF CommitsOnly, Deletes
<1>9. DataThere'
  <2>1. \A q \in Pages : page'[q] # NoPage /\ (page'[q].dirty \/ page'[q].written) =>
                           page'[q].data # NoData
    BY <1>0 DEF DataThere, Live
  <2>2. \A u \in Threads \ {t} : \A q \in {Mine(u), thread[u].victim} \ {NoPage} :
          page[q].data # NoData => page'[q].data # NoData
    BY <1>0, <1>3 DEF Live
  <2>3. thread'[t].victim = NoPage /\ ~thread'[t].writable
    BY <1>0 DEF Place, DataThere
  <2>4. QED  BY <1>0, <2>1, <2>2, <2>3, DataKept
<1>10. QED  BY <1>2, <1>4, <1>5, <1>6, <1>7, <1>8, <1>9 DEF PinsInv

-----------------------------------------------------------------------------
(* What the copies into margins do to a page.                              *)

Copied(r, s) ==
  /\ s \in PageRecord /\ s.chunk = r.chunk /\ s.pins = r.pins /\ s.settingData = r.settingData
  /\ s.requestPrepared = r.requestPrepared /\ s.error = r.error /\ s.written = r.written
  /\ (s.data = NoData <=> r.data = NoData)
  /\ (s.dirty => r.dirty \/ r.data # NoData) /\ (r.dirty => s.dirty)

\* A written page on the list has samples.
LEMMA WrittenData ==
  ASSUME PinsInv, NEW w \in Live, page[w].written \/ page[w].dirty
  PROVE  page[w].data \in Blocks
BY DEF PinsInv, TypeOK, DataThere, Live, PageRecord

LEMMA MarginCopies ==
  ASSUME PinsInv, NEW v \in OnList, NEW q \in Live
  PROVE  /\ Copied(page[q], CopyMargins(page, v)[q])
         /\ CopyMargins(page, v)[q].seen = page[q].seen
         /\ IF q \in OnList /\ IsCopyMarginNeeded(page, v, q) /\ page[q].data # NoData
            THEN /\ CopyMargins(page, v)[q].dirty
                 /\ CopyMargins(page, v)[q].data =
                      [page[q].data EXCEPT ![page[v].chunk] = page[v].data[page[v].chunk]]
            ELSE CopyMargins(page, v)[q] = page[q]
<1>1. q \in Pages /\ v \in Live /\ page[q] \in PageRecord /\ page[v] \in PageRecord
  BY ListedPages DEF PinsInv, TypeOK, Live
<1>2. CASE q \in OnList /\ IsCopyMarginNeeded(page, v, q) /\ page[q].data # NoData
  <2>1. PICK r \in PageRecord : r = page[q]
    BY <1>1
  <2>2. page[v].data \in Blocks /\ r.data \in Blocks /\ page[v].chunk \in Chunks
    BY <1>1, <1>2, <2>1, WrittenData DEF IsCopyMarginNeeded, PageRecord
  <2>3. PICK d \in Blocks : d = [r.data EXCEPT ![page[v].chunk] = page[v].data[page[v].chunk]]
    BY <2>2 DEF Blocks
  <2>4. PICK s : s = [r EXCEPT !.data = d, !.dirty = TRUE]
    OBVIOUS
  <2>5. s = CopyMargins(page, v)[q]
    BY <1>1, <1>2, <2>1, <2>3, <2>4 DEF CopyMargins
  <2>6. s \in PageRecord /\ s.data = d /\ s.dirty
    BY <2>4 DEF PageRecord
  <2>7. /\ s.chunk = r.chunk /\ s.pins = r.pins /\ s.settingData = r.settingData /\ s.seen = r.seen
        /\ s.requestPrepared = r.requestPrepared /\ s.error = r.error /\ s.written = r.written
    BY <2>4 DEF PageRecord
  <2>8. r.data # NoData /\ d # NoData
    BY <2>2
  <2>9. Copied(r, s)
    BY <2>6, <2>7, <2>8 DEF Copied
  <2>10. QED  BY <1>2, <2>1, <2>3, <2>5, <2>6, <2>7, <2>9
<1>3. CASE ~(q \in OnList /\ IsCopyMarginNeeded(page, v, q) /\ page[q].data # NoData)
  <2>1. CopyMargins(page, v)[q] = page[q]
    BY <1>1, <1>3 DEF CopyMargins
  <2>2. Copied(page[q], page[q])
    BY <1>1 DEF Copied
  <2>3. QED  BY <1>3, <2>1, <2>2
<1>4. QED  BY <1>2, <1>3

\* The first written page of a chunk is the only one.
LEMMA OneSource ==
  ASSUME PinsInv, NEW w \in OnList, page[w].written
  PROVE  lru[Min({i \in DOMAIN lru : page[lru[i]].written /\ page[lru[i]].chunk = page[w].chunk})] = w
<1> DEFINE I == {i \in DOMAIN lru : page[lru[i]].written /\ page[lru[i]].chunk = page[w].chunk}
<1>1. TypeOK /\ Listed /\ DOMAIN lru = 1 .. Len(lru) /\ Len(lru) \in Nat
      /\ OnList = {lru[i] : i \in 1 .. Len(lru)}
  BY ListMembers DEF PinsInv, TypeOK, OnList
<1>2. PICK i \in 1 .. Len(lru) : lru[i] = w
  BY <1>1
<1>3. I \in SUBSET (1 .. Len(lru)) /\ I # {}
  BY <1>1, <1>2
<1>4. Min(I) \in I
  BY <1>1, <1>3, EndPositions
<1>5. ASSUME NEW j \in I PROVE lru[j] = w
  <2>1. lru[j] \in OnList /\ page[lru[j]].chunk = page[w].chunk
    BY <1>1
  <2>2. QED  BY <1>1, <2>1 DEF Listed
<1>6. QED  BY <1>4, <1>5

LEMMA AllMarginCopies ==
  ASSUME PinsInv, NEW q \in Live
  PROVE  /\ Copied(page[q], CopyAllMargins(page)[q])
         /\ CopyAllMargins(page)[q].seen = page[q].seen
         /\ IF q \in OnList /\ page[q].data # NoData /\ \E w \in OnList : IsCopyMarginNeeded(page, w, q)
            THEN /\ CopyAllMargins(page)[q].dirty
                 /\ \A c \in Chunks :
                      IF \E w \in OnList : IsCopyMarginNeeded(page, w, q) /\ page[w].chunk = c
                      THEN \E w \in OnList : /\ IsCopyMarginNeeded(page, w, q) /\ page[w].chunk = c
                                             /\ CopyAllMargins(page)[q].data[c] = page[w].data[c]
                      ELSE CopyAllMargins(page)[q].data[c] = page[q].data[c]
            ELSE CopyAllMargins(page)[q] = page[q]
<1> DEFINE Sources == {w \in OnList : IsCopyMarginNeeded(page, w, q)}
           From(c) == lru[Min({i \in DOMAIN lru : page[lru[i]].written /\ page[lru[i]].chunk = c})]
<1>1. q \in Pages /\ page[q] \in PageRecord /\ OnList \subseteq Live
  BY ListedPages DEF PinsInv, TypeOK, Live
<1>2. CASE q \in OnList /\ page[q].data # NoData /\ Sources # {}
  <2>1. PICK r \in PageRecord : r = page[q]
    BY <1>1
  <2>2. PICK d : d = [c \in Chunks |-> IF \E w \in Sources : page[w].chunk = c
                                       THEN page[From(c)].data[c] ELSE page[q].data[c]]
    OBVIOUS
  <2>3. ASSUME NEW c \in Chunks, NEW w \in Sources, page[w].chunk = c
        PROVE  d[c] = page[w].data[c] /\ page[w].data \in Blocks
    <3>1. page[w].written /\ w \in OnList /\ w \in Live
      BY <1>1 DEF IsCopyMarginNeeded
    <3>2. From(c) = w
      BY <2>3, <3>1, OneSource
    <3>3. page[w].data \in Blocks
      BY <3>1, WrittenData
    <3>4. QED  BY <2>2, <2>3, <3>2, <3>3
  <2>4. r.data \in Blocks
    BY <1>2, <2>1 DEF PageRecord
  <2>5. ASSUME NEW c \in Chunks, ~\E w \in Sources : page[w].chunk = c
        PROVE  d[c] = r.data[c]
    BY <2>1, <2>2, <2>5
  <2>6. d \in Blocks
    <3>1. ASSUME NEW c \in Chunks PROVE d[c] \in Versions
      <4>1. CASE \E w \in Sources : page[w].chunk = c
        BY <2>3, <4>1 DEF Blocks
      <4>2. CASE ~\E w \in Sources : page[w].chunk = c
        BY <2>4, <2>5, <4>2 DEF Blocks
      <4>3. QED  BY <4>1, <4>2
    <3>2. QED  BY <2>2, <3>1 DEF Blocks
  <2>7. PICK s : s = [r EXCEPT !.data = d, !.dirty = TRUE]
    OBVIOUS
  <2>8. s = CopyAllMargins(page)[q]
    BY <1>1, <1>2, <2>1, <2>2, <2>7 DEF CopyAllMargins
  <2>9. s \in PageRecord /\ s.data = d /\ s.dirty
    BY <2>6, <2>7 DEF PageRecord
  <2>10. /\ s.chunk = r.chunk /\ s.pins = r.pins /\ s.settingData = r.settingData /\ s.seen = r.seen
         /\ s.requestPrepared = r.requestPrepared /\ s.error = r.error /\ s.written = r.written
    BY <2>7 DEF PageRecord
  <2>11. r.data # NoData /\ d # NoData
    BY <2>4, <2>6
  <2>12. Copied(r, s)
    BY <2>9, <2>10, <2>11 DEF Copied
  <2>13. ASSUME NEW c \in Chunks
         PROVE  IF \E w \in OnList : IsCopyMarginNeeded(page, w, q) /\ page[w].chunk = c
                THEN \E w \in OnList : /\ IsCopyMarginNeeded(page, w, q) /\ page[w].chunk = c
                                       /\ d[c] = page[w].data[c]
                ELSE d[c] = r.data[c]
    BY <2>3, <2>5
  <2>14. QED  BY <1>2, <2>1, <2>8, <2>9, <2>10, <2>12, <2>13
<1>3. CASE ~(q \in OnList /\ page[q].data # NoData /\ Sources # {})
  <2>1. CopyAllMargins(page)[q] = page[q]
    BY <1>1, <1>3 DEF CopyAllMargins
  <2>2. Copied(page[q], page[q])
    BY <1>1 DEF Copied
  <2>3. QED  BY <1>3, <2>1, <2>2
<1>4. QED  BY <1>2, <1>3

\* The note of what was written back touches nothing else.
LEMMA SeenNoted ==
  ASSUME NEW pg, NEW D \in SUBSET Pages, NEW q \in Pages, pg[q] \in PageRecord,
         \A w \in D : pg[w].written => pg[w].data \in Blocks
  PROVE  /\ Copied(pg[q], NoteSeen(pg, D)[q])
         /\ NoteSeen(pg, D)[q].data = pg[q].data /\ NoteSeen(pg, D)[q].dirty = pg[q].dirty
         /\ \A c \in Chunks :
              \/ NoteSeen(pg, D)[q].seen[c] = pg[q].seen[c]
              \/ \E w \in D : /\ q \in OnList /\ IsCopyMarginNeeded(pg, w, q) /\ pg[w].chunk = c
                              /\ NoteSeen(pg, D)[q].seen[c] = pg[w].data[c]
<1>1. CASE q \notin OnList
  <2>1. NoteSeen(pg, D)[q] = pg[q]
    BY <1>1 DEF NoteSeen
  <2>2. QED  BY <2>1 DEF Copied
<1>2. CASE q \in OnList
  <2>1. PICK r \in PageRecord : r = pg[q]
    OBVIOUS
  <2> DEFINE From(c) == {w \in D : IsCopyMarginNeeded(pg, w, q) /\ pg[w].chunk = c}
  <2>2. PICK d : d = [c \in Chunks |-> IF From(c) = {} THEN r.seen[c]
                                       ELSE pg[CHOOSE w \in From(c) : TRUE].data[c]]
    OBVIOUS
  <2>3. ASSUME NEW c \in Chunks
        PROVE  /\ d[c] \in Versions
               /\ \/ d[c] = r.seen[c]
                  \/ \E w \in D : /\ IsCopyMarginNeeded(pg, w, q) /\ pg[w].chunk = c
                                  /\ d[c] = pg[w].data[c]
    <3>1. CASE From(c) = {}
      BY <2>2, <3>1 DEF PageRecord, Blocks
    <3>2. CASE From(c) # {}
      <4>1. PICK w : w = CHOOSE x \in From(c) : TRUE
        OBVIOUS
      <4>2. w \in From(c)
        BY <3>2, <4>1
      <4>3. pg[w].data \in Blocks
        BY <4>2 DEF IsCopyMarginNeeded
      <4>4. d[c] = pg[w].data[c]
        BY <2>2, <3>2, <4>1
      <4>5. QED  BY <4>2, <4>3, <4>4 DEF Blocks
    <3>3. QED  BY <3>1, <3>2
  <2>4. d \in Blocks
    BY <2>2, <2>3 DEF Blocks
  <2>5. PICK s : s = [r EXCEPT !.seen = d]
    OBVIOUS
  <2>6. s = NoteSeen(pg, D)[q]
    BY <1>2, <2>1, <2>2, <2>5 DEF NoteSeen
  <2>7. s \in PageRecord /\ s.seen = d
    BY <2>4, <2>5 DEF PageRecord
  <2>8. /\ s.chunk = r.chunk /\ s.pins = r.pins /\ s.settingData = r.settingData /\ s.data = r.data
        /\ s.requestPrepared = r.requestPrepared /\ s.error = r.error /\ s.written = r.written
        /\ s.dirty = r.dirty
    BY <2>5 DEF PageRecord
  <2>9. QED  BY <1>2, <2>1, <2>3, <2>6, <2>7, <2>8 DEF Copied
<1>3. QED  BY <1>1, <1>2

\* What is written back is a dirty page's block.
LEMMA WrittenBack ==
  ASSUME TypeOK, NEW pg, NEW D, NEW c \in Chunks
  PROVE  \/ \E p \in OnList : /\ p \in D /\ pg[p].dirty /\ pg[p].chunk = c
                              /\ WriteBack(pg, D)[c] = pg[p].data
         \/ /\ \A p \in OnList : ~(p \in D /\ pg[p].dirty /\ pg[p].chunk = c)
            /\ WriteBack(pg, D)[c] = stored[c]
<1> DEFINE I == {i \in DOMAIN lru : lru[i] \in D /\ pg[lru[i]].dirty /\ pg[lru[i]].chunk = c}
<1>1. /\ DOMAIN lru = 1 .. Len(lru) /\ Len(lru) \in Nat
      /\ OnList = {lru[i] : i \in 1 .. Len(lru)}
  BY ListMembers DEF TypeOK, OnList
<1>2. WriteBack(pg, D)[c] = IF I = {} THEN stored[c] ELSE pg[lru[Max(I)]].data
  BY DEF WriteBack
<1>3. I # {} => Max(I) \in I
  <2>1. I \in SUBSET (1 .. Len(lru))
    BY <1>1
  <2>2. QED  BY <1>1, <2>1, EndPositions
<1>4. CASE I = {}
  <2>1. \A p \in OnList : ~(p \in D /\ pg[p].dirty /\ pg[p].chunk = c)
    BY <1>1, <1>4
  <2>2. QED  BY <1>2, <1>4, <2>1
<1>5. CASE I # {}
  <2>1. PICK p : p = lru[Max(I)]
    OBVIOUS
  <2>2. p \in OnList /\ p \in D /\ pg[p].dirty /\ pg[p].chunk = c
    BY <1>1, <1>3, <1>5, <2>1
  <2>3. QED  BY <1>2, <1>5, <2>1, <2>2
<1>6. QED  BY <1>4, <1>5

LEMMA CopiedTwice ==
  ASSUME NEW r, NEW s, NEW u, Copied(r, s), Copied(s, u)
  PROVE  Copied(r, u)
BY DEF Copied

\* The pages when v has been copied into the margins of its neighbours.
LEMMA EvictPages ==
  ASSUME PinsInv, NEW v \in OnList
  PROVE  /\ \A q \in Live :
              /\ Copied(page[q], NoteSeen(CopyMargins(page, v), {v})[q])
              /\ NoteSeen(CopyMargins(page, v), {v})[q].data = CopyMargins(page, v)[q].data
              /\ NoteSeen(CopyMargins(page, v), {v})[q].dirty = CopyMargins(page, v)[q].dirty
              /\ \A c \in Chunks :
                   \/ NoteSeen(CopyMargins(page, v), {v})[q].seen[c] = page[q].seen[c]
                   \/ /\ q \in OnList /\ IsCopyMarginNeeded(page, v, q) /\ page[v].chunk = c
                      /\ NoteSeen(CopyMargins(page, v), {v})[q].seen[c] = page[v].data[c]
         /\ \A q \in Pages \ Live : NoteSeen(CopyMargins(page, v), {v})[q] = NoPage
         /\ CopyMargins(page, v)[v] = page[v]
<1>1. PICK pg : pg = CopyMargins(page, v)
  OBVIOUS
<1>2. OnList \subseteq Live /\ Live \subseteq Pages
  BY ListedPages DEF PinsInv, Live
<1>3. pg[v] = page[v]
  BY <1>1, <1>2 DEF CopyMargins, IsCopyMarginNeeded
<1>4. \A w \in {v} : pg[w].written => pg[w].data \in Blocks
  BY <1>2, <1>3, WrittenData
<1>5. {v} \in SUBSET Pages
  BY <1>2
<1>6. ASSUME NEW q \in Live
      PROVE  /\ Copied(page[q], NoteSeen(pg, {v})[q])
             /\ NoteSeen(pg, {v})[q].data = pg[q].data /\ NoteSeen(pg, {v})[q].dirty = pg[q].dirty
             /\ \A c \in Chunks :
                  \/ NoteSeen(pg, {v})[q].seen[c] = page[q].seen[c]
                  \/ /\ q \in OnList /\ IsCopyMarginNeeded(page, v, q) /\ page[v].chunk = c
                     /\ NoteSeen(pg, {v})[q].seen[c] = page[v].data[c]
  <2>1. Copied(page[q], pg[q]) /\ pg[q].seen = page[q].seen
    BY <1>1, MarginCopies
  <2>2. pg[q] \in PageRecord /\ pg[q].chunk = page[q].chunk
    BY <2>1 DEF Copied
  <2>3. /\ Copied(pg[q], NoteSeen(pg, {v})[q])
        /\ NoteSeen(pg, {v})[q].data = pg[q].data /\ NoteSeen(pg, {v})[q].dirty = pg[q].dirty
        /\ \A c \in Chunks :
             \/ NoteSeen(pg, {v})[q].seen[c] = pg[q].seen[c]
             \/ \E w \in {v} : /\ q \in OnList /\ IsCopyMarginNeeded(pg, w, q) /\ pg[w].chunk = c
                               /\ NoteSeen(pg, {v})[q].seen[c] = pg[w].data[c]
    BY <1>2, <1>4, <1>5, <2>2, SeenNoted
  <2>4. IsCopyMarginNeeded(pg, v, q) <=> IsCopyMarginNeeded(page, v, q)
    BY <1>3, <2>2 DEF IsCopyMarginNeeded
  <2>5. Copied(page[q], NoteSeen(pg, {v})[q])
    BY <2>1, <2>3, CopiedTwice
  <2>6. ASSUME NEW c \in Chunks
        PROVE  \/ NoteSeen(pg, {v})[q].seen[c] = page[q].seen[c]
               \/ /\ q \in OnList /\ IsCopyMarginNeeded(page, v, q) /\ page[v].chunk = c
                  /\ NoteSeen(pg, {v})[q].seen[c] = page[v].data[c]
    <3>1. PICK n : n = NoteSeen(pg, {v})[q].seen[c]
      OBVIOUS
    <3>2. \/ n = pg[q].seen[c]
          \/ q \in OnList /\ IsCopyMarginNeeded(pg, v, q) /\ pg[v].chunk = c /\ n = pg[v].data[c]
      BY <2>3, <3>1
    <3>3. \/ n = page[q].seen[c]
          \/ q \in OnList /\ IsCopyMarginNeeded(page, v, q) /\ page[v].chunk = c /\ n = page[v].data[c]
      BY <1>3, <2>1, <2>4, <3>2
    <3>4. QED  BY <3>1, <3>3
  <2>7. QED  BY <2>3, <2>5, <2>6
<1>7. ASSUME NEW q \in Pages \ Live PROVE NoteSeen(pg, {v})[q] = NoPage
  <2>1. q \notin OnList /\ page[q] = NoPage
    BY <1>2, <1>7 DEF Live
  <2>2. pg[q] = NoPage
    BY <1>1, <2>1 DEF CopyMargins
  <2>3. QED  BY <2>1, <2>2 DEF NoteSeen
<1>8. \A q \in Pages \ Live : NoteSeen(CopyMargins(page, v), {v})[q] = NoPage
  BY <1>1, <1>7
<1>9. CopyMargins(page, v)[v] = page[v]
  BY <1>1, <1>3
<1>10. ASSUME NEW q \in Live
       PROVE  /\ Copied(page[q], NoteSeen(CopyMargins(page, v), {v})[q])
              /\ NoteSeen(CopyMargins(page, v), {v})[q].data = CopyMargins(page, v)[q].data
              /\ NoteSeen(CopyMargins(page, v), {v})[q].dirty = CopyMargins(page, v)[q].dirty
  BY <1>1, <1>6
<1>11. ASSUME NEW q \in Live, NEW c \in Chunks
       PROVE  \/ NoteSeen(CopyMargins(page, v), {v})[q].seen[c] = page[q].seen[c]
              \/ /\ q \in OnList /\ IsCopyMarginNeeded(page, v, q) /\ page[v].chunk = c
                 /\ NoteSeen(CopyMargins(page, v), {v})[q].seen[c] = page[v].data[c]
  <2>1. \/ NoteSeen(pg, {v})[q].seen[c] = page[q].seen[c]
        \/ /\ q \in OnList /\ IsCopyMarginNeeded(page, v, q) /\ page[v].chunk = c
           /\ NoteSeen(pg, {v})[q].seen[c] = page[v].data[c]
    <3>1. \A d \in Chunks :
            \/ NoteSeen(pg, {v})[q].seen[d] = page[q].seen[d]
            \/ /\ q \in OnList /\ IsCopyMarginNeeded(page, v, q) /\ page[v].chunk = d
               /\ NoteSeen(pg, {v})[q].seen[d] = page[v].data[d]
      BY <1>6
    <3>2. QED  BY <3>1
  <2>2. NoteSeen(CopyMargins(page, v), {v}) = NoteSeen(pg, {v})
    BY <1>1
  <2>3. QED  BY <2>1, <2>2
<1>12. QED  BY <1>8, <1>9, <1>10, <1>11

\* Nobody else has the page that leaves.
LEMMA VictimAlone ==
  ASSUME PinsInv, NEW t \in Threads, NEW v \in OnList, thread[t].victim = v \/ page[v].pins = 0,
         page[v].pins <= 1
  PROVE  /\ \A u \in Threads : Mine(u) # v
         /\ \A u \in Threads \ {t} : thread[u].victim # v
<1>1. v \in Live /\ page[v] \in PageRecord
  BY ListedPages DEF PinsInv
<1>2. Holders(v) = {} /\ Victims(v) \subseteq {t}
  <2>1. CASE page[v].pins = 0
    BY <1>1, <2>1, FewPins
  <2>2. CASE thread[t].victim = v
    <3>1. t \in Victims(v)
      BY <2>2 DEF Victims
    <3>2. page[v].pins = 1
      BY <1>1, <3>1, FewPins DEF PageRecord
    <3>3. QED  BY <1>1, <3>1, <3>2, FewPins
  <2>3. QED  BY <2>1, <2>2
<1>3. ASSUME NEW u \in Threads PROVE Mine(u) # v
  <2>1. Mine(u) = v => ~At(u, "cancel")
    <3>1. v # NoPage
      BY <1>1 DEF Live
    <3>2. QED  BY <3>1 DEF PinsInv, Place
  <2>2. QED  BY <1>2, <2>1 DEF Holders
<1>4. QED  BY <1>2, <1>3 DEF Victims

LEMMA EvictInv ==
  ASSUME PinsInv, TypeOK', NEW t \in Threads, NEW v \in Pages, Evicts(t, v)
  PROVE  PinsInv'
<1>0. /\ TypeOK /\ Listed /\ OneCanceller /\ Counted /\ (\A u \in Threads : Place(u)) /\ Moves(t)
      /\ WritesBounded /\ DataThere /\ CommitsOnly /\ v \in OnList
      /\ thread[t].pc \in {"limit", "limitBlocked", "limitWait"} /\ thread'[t].pc = "limit"
      /\ thread'[t].page = Mine(t) /\ thread'[t].victim = NoPage
      /\ thread'[t].writable = thread[t].writable
      /\ thread[t].victim \in {v, NoPage}
      /\ page' \in [Pages -> PageRecord \cup {NoPage}]
      /\ \A u \in Threads : {Mine(u), thread[u].victim} \ {NoPage} \subseteq Live
      /\ OnList \subseteq Live /\ UNCHANGED <<clock, committing>>
  <2>1. OnList \subseteq Live
    BY ListedPages DEF PinsInv
  <2>2. \A u \in Threads : {Mine(u), thread[u].victim} \ {NoPage} \subseteq Live
    BY PagesAlive
  <2>3. thread[t].victim \in {v, NoPage} /\ thread[t].pc \in {"limit", "limitBlocked", "limitWait"}
    BY DEF Evicts, PinsInv, Place
  <2>4. QED  BY <2>1, <2>2, <2>3 DEF PinsInv, Evicts, TypeOK
<1>1. /\ \A u \in Threads : Mine(u) # v
      /\ \A u \in Threads \ {t} : thread[u].victim # v
  <2>1. page[v] \in PageRecord
    BY <1>0, ListedPages
  <2>2. page[v].pins <= 1 /\ (thread[t].victim = v \/ page[v].pins = 0)
    BY <2>1 DEF Evicts, PageRecord
  <2>3. QED  BY <1>0, <2>2, VictimAlone
<1>2. /\ page'[v] = NoPage
      /\ \A q \in Live \ {v} : page'[q] # NoPage /\ Copied(page[q], page'[q])
      /\ \A q \in Pages \ Live : page'[q] = NoPage
  <2>1. PICK saved : saved = NoteSeen(CopyMargins(page, v), {v})
    OBVIOUS
  <2>2. page' = [saved EXCEPT ![v] = NoPage] /\ DOMAIN saved = Pages
    BY <2>1 DEF Evicts, NoteSeen
  <2>3. \A q \in Live : Copied(page[q], saved[q])
    BY <1>0, <2>1, EvictPages
  <2>4. \A q \in Pages \ Live : saved[q] = NoPage
    BY <1>0, <2>1, EvictPages
  <2>5. \A q \in Live : saved[q] \in PageRecord
    BY <2>3 DEF Copied
  <2>6. QED  BY <2>2, <2>3, <2>4, <2>5 DEF Live
<1>3. Listed' /\ OnList' = OnList \ {v}
  <2>1. \A q \in Live \ {v} : page'[q] # NoPage /\ page'[q].chunk = page[q].chunk
    BY <1>2 DEF Copied
  <2>2. QED  BY <1>0, <2>1, ListLeaves DEF Evicts
<1>4. \A u \in Threads : Place(u)'
  <2>1. \A u \in Threads \ {t} : \A q \in {Mine(u), thread[u].victim} \ {NoPage} :
          page'[q] # NoPage /\ (q \in OnList' <=> q \in OnList)
    BY <1>0, <1>1, <1>2, <1>3
  <2>2. ASSUME NEW u \in Threads \ {t}, At(u, "waitCommit")
        PROVE  pages'[thread[u].chunk] = NoPage
    <3>1. pages[thread[u].chunk] = NoPage /\ thread[u].chunk \in Chunks
      BY <1>0, <2>2 DEF Place, TypeOK, ThreadRecord
    <3>2. QED  BY <1>0, <3>1 DEF Evicts, ErasePage, TypeOK
  <2>3. \A u \in Threads \ {t} : Place(u)'
    BY <1>0, <2>1, <2>2, OthersPlaced
  <2>4. Mine(t) # NoPage => Mine(t) \in OnList /\ Mine(t) \in Live
    BY <1>0 DEF Place
  <2>5. Place(t)'
    BY <1>0, <1>1, <1>2, <1>3, <2>4 DEF Place, PageStates
  <2>6. QED  BY <2>3, <2>5
<1>5. OneCanceller'
  BY <1>0, CancellersKept
<1>6. Counted'
  <2>1. ASSUME NEW q \in Pages, page'[q] # NoPage PROVE page[q] # NoPage /\ CountedBy(t, q)
    <3>1. q # v /\ q \in Live /\ Copied(page[q], page'[q])
      BY <1>2, <2>1
    <3>2. /\ page[q] # NoPage /\ page'[q].pins = page[q].pins
          /\ page'[q].settingData = page[q].settingData
      BY <3>1 DEF Live, Copied
    <3>3. /\ Holds(t, q) <=> Holds(t, q)'
          /\ ~Waits(t, q) /\ ~Waits(t, q)' /\ ~Sets(t, q) /\ ~Sets(t, q)'
      BY <1>0, <3>1, <3>2 DEF Holds, Waits, Sets
    <3>4. QED  BY <3>2, <3>3 DEF CountedBy, Bit
  <2>2. QED  BY <1>0, <2>1, CountsKept
<1>7. WritesBounded'
  BY <1>0, WritesKept
<1>8. CommitsOnly'
  BY <1>0 DEF CommitsOnly
<1>9. DataThere'
  <2>1. ASSUME NEW q \in Pages, page'[q] # NoPage, page'[q].dirty \/ page'[q].written
        PROVE  page'[q].data # NoData
    <3>1. q \in Live /\ Copied(page[q], page'[q])
      BY <1>2, <2>1
    <3>2. QED  BY <1>0, <2>1, <3>1 DEF DataThere, Copied
  <2>2. \A u \in Threads \ {t} : \A q \in {Mine(u), thread[u].victim} \ {NoPage} :
          page[q].data # NoData => page'[q].data # NoData
    BY <1>0, <1>1, <1>2 DEF Copied
  <2>3. thread'[t].victim = NoPage /\ ~thread'[t].writable
    BY <1>0 DEF DataThere
  <2>4. QED  BY <1>0, <2>1, <2>2, <2>3, DataKept
<1>10. QED  BY <1>3, <1>4, <1>5, <1>6, <1>7, <1>8, <1>9 DEF PinsInv

-----------------------------------------------------------------------------
(* The end of a commit.                                                    *)

\* A page that is saved is clean; the others are as they were copied.
Saved(r, s) ==
  /\ s \in PageRecord /\ s.chunk = r.chunk /\ s.pins = r.pins /\ s.settingData = r.settingData
  /\ s.requestPrepared = r.requestPrepared /\ s.error = r.error
  /\ (s.data = NoData <=> r.data = NoData)
  /\ (s.dirty \/ s.written) => r.dirty \/ r.written \/ r.data # NoData

LEMMA FlushPages ==
  ASSUME PinsInv, NEW t \in Threads, Flushes(t)
  PROVE  /\ \A q \in Live :
              /\ Saved(page[q], page'[q])
              /\ page'[q].data = CopyAllMargins(page)[q].data
              /\ q \in OnList => ~page'[q].dirty
              /\ \A c \in Chunks :
                   \/ page'[q].seen[c] = page[q].seen[c]
                   \/ \E w \in OnList : /\ q \in OnList /\ IsCopyMarginNeeded(page, w, q)
                                        /\ page[w].chunk = c
                                        /\ page'[q].seen[c] = CopyAllMargins(page)[w].data[c]
         /\ \A q \in Pages \ Live : page'[q] = NoPage
<1>1. PICK pg : pg = CopyAllMargins(page)
  OBVIOUS
<1>2. PICK saved : saved = NoteSeen(pg, OnList)
  OBVIOUS
<1>3. OnList \subseteq Live /\ Live \subseteq Pages
  BY ListedPages DEF PinsInv, Live
<1>4. ASSUME NEW q \in Live
      PROVE  Copied(page[q], pg[q]) /\ pg[q].seen = page[q].seen /\ pg[q] \in PageRecord
  BY <1>1, AllMarginCopies DEF Copied
<1>5. \A w \in OnList : pg[w].written => pg[w].data \in Blocks
  <2>1. ASSUME NEW w \in OnList, pg[w].written PROVE pg[w].data \in Blocks
    <3>1. page[w].written /\ pg[w] \in PageRecord /\ (pg[w].data = NoData <=> page[w].data = NoData)
      BY <1>3, <1>4, <2>1 DEF Copied
    <3>2. page[w].data \in Blocks
      BY <1>3, <3>1, WrittenData
    <3>3. QED  BY <3>1, <3>2 DEF PageRecord
  <2>2. QED  BY <2>1
<1>6. OnList \in SUBSET Pages
  BY <1>3
<1>7. ASSUME NEW q \in Live
      PROVE  /\ Copied(page[q], saved[q])
             /\ saved[q].data = pg[q].data /\ saved[q].dirty = pg[q].dirty
             /\ \A c \in Chunks :
                  \/ saved[q].seen[c] = page[q].seen[c]
                  \/ \E w \in OnList : /\ q \in OnList /\ IsCopyMarginNeeded(page, w, q)
                                       /\ page[w].chunk = c /\ saved[q].seen[c] = pg[w].data[c]
  <2>1. Copied(page[q], pg[q]) /\ pg[q].seen = page[q].seen /\ pg[q] \in PageRecord /\ q \in Pages
    BY <1>3, <1>4
  <2>2. /\ Copied(pg[q], saved[q])
        /\ saved[q].data = pg[q].data /\ saved[q].dirty = pg[q].dirty
        /\ \A c \in Chunks :
             \/ saved[q].seen[c] = pg[q].seen[c]
             \/ \E w \in OnList : /\ q \in OnList /\ IsCopyMarginNeeded(pg, w, q)
                                  /\ pg[w].chunk = c /\ saved[q].seen[c] = pg[w].data[c]
    BY <1>2, <1>5, <1>6, <2>1, SeenNoted
  <2>3. \A w \in OnList : /\ IsCopyMarginNeeded(pg, w, q) => IsCopyMarginNeeded(page, w, q)
                          /\ pg[w].chunk = page[w].chunk
    <3>1. ASSUME NEW w \in OnList
          PROVE  pg[w].chunk = page[w].chunk /\ pg[w].written = page[w].written
      BY <1>3, <1>4 DEF Copied
    <3>2. pg[q].chunk = page[q].chunk
      BY <2>1 DEF Copied
    <3>3. QED  BY <3>1, <3>2 DEF IsCopyMarginNeeded
  <2>4. Copied(page[q], saved[q])
    BY <2>1, <2>2, CopiedTwice
  <2>5. QED  BY <2>1, <2>2, <2>3, <2>4
<1>8. \A q \in Pages : page'[q] = IF q \in OnList /\ pg[q].dirty
                                  THEN [saved[q] EXCEPT !.dirty = FALSE, !.written = FALSE]
                                  ELSE saved[q]
  BY <1>1, <1>2 DEF Flushes
<1>9. ASSUME NEW q \in Live
      PROVE  /\ Saved(page[q], page'[q])
             /\ page'[q].data = pg[q].data
             /\ q \in OnList => ~page'[q].dirty
             /\ \A c \in Chunks :
                  \/ page'[q].seen[c] = page[q].seen[c]
                  \/ \E w \in OnList : /\ q \in OnList /\ IsCopyMarginNeeded(page, w, q)
                                       /\ page[w].chunk = c /\ page'[q].seen[c] = pg[w].data[c]
  <2>1. Copied(page[q], saved[q]) /\ saved[q].data = pg[q].data /\ saved[q].dirty = pg[q].dirty
    BY <1>7
  <2>2. CASE q \in OnList /\ pg[q].dirty
    <3>1. PICK r \in PageRecord : r = saved[q]
      BY <2>1 DEF Copied
    <3>2. PICK s : s = [r EXCEPT !.dirty = FALSE, !.written = FALSE]
      OBVIOUS
    <3>3. s = page'[q]
      BY <1>3, <1>8, <2>2, <3>1, <3>2
    <3>4. s \in PageRecord /\ ~s.dirty /\ ~s.written
      BY <3>2 DEF PageRecord
    <3>5. /\ s.chunk = r.chunk /\ s.pins = r.pins /\ s.settingData = r.settingData
          /\ s.requestPrepared = r.requestPrepared /\ s.error = r.error /\ s.data = r.data
          /\ s.seen = r.seen
      BY <3>2 DEF PageRecord
    <3>6. Saved(page[q], s)
      BY <2>1, <3>1, <3>4, <3>5 DEF Saved, Copied
    <3>7. QED  BY <1>7, <2>1, <3>1, <3>3, <3>4, <3>5, <3>6
  <2>3. CASE ~(q \in OnList /\ pg[q].dirty)
    <3>1. page'[q] = saved[q]
      BY <1>3, <1>8, <2>3
    <3>2. Saved(page[q], saved[q])
      BY <2>1 DEF Saved, Copied
    <3>3. q \in OnList => ~saved[q].dirty
      BY <2>1, <2>3
    <3>4. QED  BY <1>7, <2>1, <3>1, <3>2, <3>3
  <2>4. QED  BY <2>2, <2>3
<1>10. ASSUME NEW q \in Pages \ Live PROVE page'[q] = NoPage
  <2>1. q \notin OnList /\ page[q] = NoPage
    BY <1>3, <1>10 DEF Live
  <2>2. pg[q] = NoPage
    BY <1>1, <2>1 DEF CopyAllMargins
  <2>3. saved[q] = NoPage
    BY <1>2, <2>1, <2>2 DEF NoteSeen
  <2>4. QED  BY <1>8, <2>1, <2>3
<1>11. QED  BY <1>1, <1>9, <1>10

LEMMA FlushInv ==
  ASSUME PinsInv, TypeOK', NEW t \in Threads, Flushes(t)
  PROVE  PinsInv'
<1>0. /\ TypeOK /\ Listed /\ Place(t) /\ Moves(t) /\ DataThere /\ WritesBounded
      /\ At(t, "commitFlush") /\ Keeps(t) /\ thread'[t].pc = Resting(t)
      /\ UNCHANGED <<pages, lru, clock>> /\ ~committing' /\ OnList \subseteq Live
      /\ \A u \in Threads : {Mine(u), thread[u].victim} \ {NoPage} \subseteq Live
      /\ Mine(t) \in Pages \cup {NoPage}
  BY ListedPages, PagesAlive DEF PinsInv, Flushes, Goes, TypeOK, ThreadRecord
<1>1. /\ \A q \in Live : Saved(page[q], page'[q])
      /\ \A q \in Pages \ Live : page'[q] = NoPage
  BY FlushPages
<1>2. \A q \in Live : page'[q] # NoPage /\ page'[q].chunk = page[q].chunk
  BY <1>1 DEF Saved
<1>3. \A q \in Pages : page[q] = NoPage => page'[q] = NoPage
  BY <1>1 DEF Live
<1>4. SameList
  BY <1>0 DEF SameList, Listed, TypeOK, OnList
<1>5. thread'[t].pc \in {"idle", "holding"}
  BY <1>0 DEF Resting
<1>6. \A q \in Live : CountedBy(t, q)
  <2>1. ASSUME NEW q \in Live PROVE CountedBy(t, q)
    <3>1. page'[q].pins = page[q].pins /\ page'[q].settingData = page[q].settingData
      BY <1>1 DEF Saved
    <3>2. /\ Holds(t, q) <=> Holds(t, q)'
          /\ Waits(t, q) <=> Waits(t, q)'
          /\ ~Sets(t, q) /\ ~Sets(t, q)'
      BY <1>0, <1>5 DEF Holds, Waits, Sets, Keeps
    <3>3. QED  BY <3>1, <3>2 DEF CountedBy, Bit
  <2>2. QED  BY <2>1
<1>7. Place(t)'
  BY <1>0, <1>2, <1>4, <1>5 DEF Place, PageStates, Resting, Keeps, SameList, Live
<1>8. WritesBounded'
  BY <1>0, <1>5, WritesKept
<1>9. CommitsOnly'
  BY <1>0 DEF CommitsOnly
<1>10. DataThere'
  <2>1. ASSUME NEW q \in Pages, page'[q] # NoPage, page'[q].dirty \/ page'[q].written
        PROVE  page'[q].data # NoData
    <3>1. q \in Live /\ Saved(page[q], page'[q])
      BY <1>1, <2>1
    <3>2. QED  BY <1>0, <2>1, <3>1 DEF DataThere, Saved
  <2>2. \A u \in Threads \ {t} : \A q \in {Mine(u), thread[u].victim} \ {NoPage} :
          page[q].data # NoData => page'[q].data # NoData
    BY <1>0, <1>1 DEF Saved
  <2>3. thread'[t].victim = NoPage
    BY <1>0 DEF Place, Keeps
  <2>4. thread'[t].writable =>
          /\ thread'[t].pc \in {"holding", "commitWait", "commitFlush"}
          /\ thread'[t].page # NoPage /\ page'[thread'[t].page].data # NoData
    <3>1. thread[t].writable => Mine(t) # NoPage /\ Mine(t) \in Live /\ On(t).data # NoData
      BY <1>0 DEF DataThere
    <3>2. QED  BY <1>0, <1>1, <3>1 DEF Saved, Keeps, Resting
  <2>5. QED  BY <1>0, <2>1, <2>2, <2>3, <2>4, DataKept, PagesAlive
<1>11. ~At(t, "cancel")'
  BY <1>5
<1>12. QED  BY <1>0, <1>2, <1>3, <1>4, <1>6, <1>7, <1>8, <1>9, <1>10, <1>11, StaysInv

-----------------------------------------------------------------------------
(* Which step each action is.                                              *)

\* The counters of a page go up and down.
LEMMA Counters ==
  ASSUME NEW r \in PageRecord
  PROVE  /\ Alike(r, Pin(r)) /\ Pin(r).pins = r.pins + 1 /\ Pin(r).settingData = r.settingData
         /\ r.pins > 0 => /\ Alike(r, UnPin(r)) /\ UnPin(r).pins = r.pins - 1
                          /\ UnPin(r).settingData = r.settingData
         /\ \A n \in Nat :
              /\ Alike(r, [r EXCEPT !.settingData = n])
              /\ [r EXCEPT !.settingData = n].pins = r.pins
              /\ [r EXCEPT !.settingData = n].settingData = n
<1>1. ASSUME NEW n \in Nat
      PROVE  /\ Alike(r, [r EXCEPT !.pins = n])
             /\ [r EXCEPT !.pins = n].pins = n
             /\ [r EXCEPT !.pins = n].settingData = r.settingData
  <2>1. PICK s : s = [r EXCEPT !.pins = n]
    OBVIOUS
  <2>2. s \in PageRecord
    BY <2>1 DEF PageRecord
  <2>3. Alike(r, s) /\ s.pins = n /\ s.settingData = r.settingData
    BY <2>1, <2>2 DEF Alike, PageRecord
  <2>4. QED  BY <2>1, <2>3
<1>2. ASSUME NEW n \in Nat
      PROVE  /\ Alike(r, [r EXCEPT !.settingData = n])
             /\ [r EXCEPT !.settingData = n].pins = r.pins
             /\ [r EXCEPT !.settingData = n].settingData = n
  <2>1. PICK s : s = [r EXCEPT !.settingData = n]
    OBVIOUS
  <2>2. s \in PageRecord
    BY <2>1 DEF PageRecord
  <2>3. Alike(r, s) /\ s.settingData = n /\ s.pins = r.pins
    BY <2>1, <2>2 DEF Alike, PageRecord
  <2>4. QED  BY <2>1, <2>3
<1>3. r.pins + 1 \in Nat /\ (r.pins > 0 => r.pins - 1 \in Nat)
  BY DEF PageRecord
<1>4. Pin(r) = [r EXCEPT !.pins = r.pins + 1] /\ UnPin(r) = [r EXCEPT !.pins = r.pins - 1]
  BY DEF Pin, UnPin
<1>5. QED  BY <1>1, <1>2, <1>3, <1>4

\* A step that replaces the record of one thread.
LEMMA OneMoves ==
  ASSUME TypeOK, NEW t \in Threads, NEW r \in ThreadRecord, thread' = [thread EXCEPT ![t] = r]
  PROVE  Moves(t) /\ thread'[t] = r
BY DEF TypeOK, Moves

LEMMA ThreadGoes ==
  ASSUME TypeOK, NEW t \in Threads, NEW l \in Positions, GoTo(t, l)
  PROVE  /\ Moves(t) /\ Keeps(t) /\ thread'[t].pc = l
         /\ thread'[t].chunk = thread[t].chunk
<1>1. PICK r \in ThreadRecord : r = thread[t]
  BY DEF TypeOK
<1>2. PICK s : s = [r EXCEPT !.pc = l]
  OBVIOUS
<1>3. s \in ThreadRecord /\ s.pc = l /\ s.page = r.page /\ s.victim = r.victim
      /\ s.writable = r.writable /\ s.got = r.got /\ s.chunk = r.chunk
  BY <1>2 DEF ThreadRecord
<1>4. thread' = [thread EXCEPT ![t] = s]
  BY <1>1, <1>2 DEF GoTo
<1>5. Moves(t) /\ thread'[t] = s
  BY <1>3, <1>4, OneMoves
<1>6. QED  BY <1>1, <1>3, <1>5 DEF Keeps

\* What a step that changes counters alone does to the pages.
PagesStill(t) ==
  /\ SameList
  /\ \A p \in Pages : IF page[p] = NoPage THEN page'[p] = NoPage
                      ELSE Alike(page[p], page'[p]) /\ CountedBy(t, p)

LEMMA NoneChanges ==
  ASSUME PinsInv, NEW t \in Threads, Moves(t), UNCHANGED <<pages, lru, page>>,
         thread'[t].page = Mine(t), thread'[t].victim = thread[t].victim,
         ~At(t, "cancel"), thread'[t].pc # "cancel",
         thread[t].pc \in {"fetch", "publish", "leave"} <=> thread'[t].pc \in {"fetch", "publish", "leave"}
  PROVE  PagesStill(t)
<1>1. TypeOK /\ Listed
  BY DEF PinsInv
<1>2. SameList
  BY <1>1 DEF SameList, TypeOK, Listed, OnList
<1>3. ASSUME NEW p \in Pages, page[p] # NoPage PROVE Alike(page[p], page'[p]) /\ CountedBy(t, p)
  <2>1. Alike(page[p], page[p])
    BY <1>1, <1>3 DEF TypeOK, Alike
  <2>2. /\ Holds(t, p) <=> Holds(t, p)'
        /\ Waits(t, p) <=> Waits(t, p)'
        /\ Sets(t, p) <=> Sets(t, p)'
    BY DEF Holds, Waits, Sets
  <2>3. QED  BY <2>1, <2>2 DEF CountedBy, Bit
<1>4. QED  BY <1>2, <1>3 DEF PagesStill

LEMMA OneChanges ==
  ASSUME PinsInv, NEW t \in Threads, Moves(t), SameList,
         NEW p \in Live, NEW s, page' = [page EXCEPT ![p] = s], Alike(page[p], s), CountedBy(t, p),
         Mine(t) = p \/ Mine(t) = NoPage \/ thread'[t].page = Mine(t),
         thread'[t].page \in {Mine(t), p, NoPage},
         thread[t].victim = p \/ thread[t].victim = NoPage \/ thread'[t].victim = thread[t].victim,
         thread'[t].victim \in {thread[t].victim, p, NoPage},
         ~At(t, "cancel"), thread'[t].pc # "cancel",
         Mine(t) = p \/ (thread[t].pc \notin {"fetch", "publish", "leave"}
                         /\ thread'[t].pc \notin {"fetch", "publish", "leave"})
  PROVE  PagesStill(t)
<1>1. TypeOK /\ Listed /\ p \in Pages
  BY DEF PinsInv, Live
<1>2. page'[p] = s /\ \A q \in Pages \ {p} : page'[q] = page[q]
  BY <1>1 DEF TypeOK
<1>3. ASSUME NEW q \in Pages, page[q] # NoPage, q # p PROVE Alike(page[q], page'[q]) /\ CountedBy(t, q)
  <2>1. Alike(page[q], page[q])
    BY <1>1, <1>3 DEF TypeOK, Alike
  <2>2. q # NoPage
    OBVIOUS
  <2>3. /\ Holds(t, q) <=> Holds(t, q)'
        /\ Waits(t, q) <=> Waits(t, q)'
        /\ Sets(t, q) <=> Sets(t, q)'
    BY <1>3, <2>2 DEF Holds, Waits, Sets
  <2>4. QED  BY <1>2, <1>3, <2>1, <2>3 DEF CountedBy, Bit
<1>4. QED  BY <1>2, <1>3 DEF PagesStill, Live

\* The types of what a step that changes counters alone may change.
LEMMA StillTyped ==
  ASSUME PinsInv, NEW t \in Threads, Moves(t), PagesStill(t),
         page' = [p \in Pages |-> page'[p]],
         UNCHANGED <<prepared, stored, clock, latest, fault>>,
         maxPages' \in Nat, committing' \in BOOLEAN, cursor' \in Pages \cup {NoPage},
         writeLocked' \in BOOLEAN, mutex' \in Threads \cup {NoThread}, asleep' \subseteq Threads
  PROVE  TypeOK'
<1>1. TypeOK
  BY DEF PinsInv
<1>2. page' \in [Pages -> PageRecord \cup {NoPage}]
  BY DEF PagesStill, Alike
<1>3. pages' \in [Chunks -> Pages \cup {NoPage}] /\ lru' \in Seq(Pages)
  BY <1>1 DEF PagesStill, SameList, TypeOK
<1>4. QED  BY <1>1, <1>2, <1>3 DEF TypeOK, Moves

LEMMA StillOne ==
  ASSUME NEW t \in Threads, Moves(t), PagesStill(t),
         UNCHANGED <<prepared, stored, clock, latest, fault>>,
         committing' => committing \/ Committers # {}, committing => committing',
         Begins(t) \/ Reads(t) \/ GivesBack(t) \/ TakesBuffer(t) \/ Limits(t) \/ Commits(t)
  PROVE  Steps(t)
BY DEF Steps, Still, PagesStill

\* The variables of a step that changes no page and moves a thread.
LEMMA GoesOn ==
  ASSUME PinsInv, NEW t \in Threads, NEW l \in Positions, GoTo(t, l), UNCHANGED <<cacheVars,
         page>>,
         ~At(t, "cancel"), l # "cancel",
         thread[t].pc \in {"fetch", "publish", "leave"} <=> l \in {"fetch", "publish", "leave"},
         UNCHANGED <<commitVars, storeVars, history>>,
         mutex' \in Threads \cup {NoThread}, asleep' \subseteq Threads
  PROVE  /\ TypeOK' /\ Moves(t) /\ PagesStill(t) /\ Goes(t, thread[t].pc, l)
<1>1. TypeOK
  BY DEF PinsInv
<1>2. Moves(t) /\ Keeps(t) /\ thread'[t].pc = l
  BY <1>1, ThreadGoes
<1>3. PagesStill(t)
  BY <1>2, NoneChanges DEF cacheVars, Keeps
<1>4. page' = [p \in Pages |-> page'[p]]
  BY <1>1 DEF TypeOK
<1>5. UNCHANGED <<prepared, stored, clock, latest, fault, maxPages, committing, cursor, writeLocked>>
  BY DEF cacheVars, commitVars, storeVars, history
<1>6. TypeOK'
  BY <1>1, <1>2, <1>3, <1>4, <1>5, StillTyped DEF TypeOK
<1>7. QED  BY <1>2, <1>3, <1>6 DEF Goes

-----------------------------------------------------------------------------
(* ReadPreparedPage.                                                       *)

LEMMA StartReadingSteps ==
  ASSUME PinsInv, NEW t \in Threads, StartReading(t)
  PROVE  TypeOK' /\ Steps(t)
<1>1. PICK l : l = IF On(t).requestPrepared THEN "enter" ELSE "holding"
  OBVIOUS
<1>2. /\ At(t, "prepared") /\ GoTo(t, l) /\ l \in {"enter", "holding"}
      /\ UNCHANGED <<cacheVars, page, commitVars, mutex, asleep, storeVars, history>>
  BY <1>1 DEF StartReading
<1>3. l \in Positions /\ mutex' \in Threads \cup {NoThread} /\ asleep' \subseteq Threads
  BY <1>2 DEF Positions, PinsInv, TypeOK
<1>4. TypeOK' /\ Moves(t) /\ PagesStill(t) /\ Goes(t, "prepared", l)
  BY <1>2, <1>3, GoesOn
<1>5. Reads(t)
  BY <1>1, <1>4 DEF Reads
<1>6. QED  BY <1>2, <1>4, <1>5, StillOne DEF commitVars, storeVars, history

LEMMA EnterSettingDataSteps ==
  ASSUME PinsInv, NEW t \in Threads, EnterSettingData(t)
  PROVE  TypeOK' /\ Steps(t)
<1>1. PICK l : l = IF On(t).settingData = 0 THEN "fetch" ELSE "leave"
  OBVIOUS
<1>2. /\ At(t, "enter") /\ GoTo(t, l) /\ l \in {"fetch", "leave"} /\ l \in Positions
      /\ page' = [page EXCEPT ![Mine(t)].settingData = @ + 1]
      /\ UNCHANGED <<cacheVars, commitVars, mutex, asleep, storeVars, history>>
  BY <1>1 DEF EnterSettingData, Positions
<1>3. TypeOK /\ Mine(t) # NoPage /\ Listed
  BY <1>2 DEF PinsInv, Place, PageStates
<1>4. Mine(t) \in Live /\ On(t) \in PageRecord
  BY <1>3, MyPage DEF Live
<1>5. Moves(t) /\ Keeps(t) /\ thread'[t].pc = l
  BY <1>2, <1>3, ThreadGoes
<1>6. PICK r \in PageRecord : r = On(t)
  BY <1>4
<1>7. PICK s : s = [r EXCEPT !.settingData = r.settingData + 1]
  OBVIOUS
<1>8. Alike(r, s) /\ s.pins = r.pins /\ s.settingData = r.settingData + 1
  <2>1. r.settingData + 1 \in Nat
    BY DEF PageRecord
  <2>2. QED  BY <1>7, <2>1, Counters
<1>9. page' = [page EXCEPT ![Mine(t)] = s] /\ page'[Mine(t)] = s
  BY <1>2, <1>3, <1>4, <1>6, <1>7 DEF TypeOK, Live
<1>10. SameList
  BY <1>2, <1>3 DEF SameList, TypeOK, Listed, OnList, cacheVars
<1>11. CountedBy(t, Mine(t))
  <2>1. ~Sets(t, Mine(t)) /\ ~Waits(t, Mine(t)) /\ Holds(t, Mine(t))
    BY <1>2, <1>3 DEF Sets, Waits, Holds, PinsInv, Place
  <2>2. PICK p : p = Mine(t)
    OBVIOUS
  <2>3. Sets(t, p)' /\ ~Waits(t, p)' /\ Holds(t, p)'
    BY <1>2, <1>5, <2>1, <2>2 DEF Sets, Waits, Holds, Keeps
  <2>4. CountedBy(t, p)
    BY <1>6, <1>8, <1>9, <2>1, <2>2, <2>3 DEF CountedBy, Bit, PageRecord
  <2>5. QED  BY <2>2, <2>4
<1>12. PagesStill(t)
  <2>1. PICK p \in Live : p = Mine(t)
    BY <1>4
  <2>2. CountedBy(t, p) /\ page' = [page EXCEPT ![p] = s] /\ Alike(page[p], s)
    BY <1>6, <1>8, <1>9, <1>11, <2>1
  <2>3. QED  BY <1>2, <1>5, <1>10, <2>1, <2>2, OneChanges DEF Keeps
<1>13. TypeOK'
  <2>1. page' = [p \in Pages |-> page'[p]]
    BY <1>3, <1>9 DEF TypeOK
  <2>2. /\ UNCHANGED <<prepared, stored, clock, latest, fault>>
        /\ UNCHANGED <<maxPages, committing, cursor, writeLocked, mutex, asleep>>
    BY <1>2 DEF cacheVars, commitVars, storeVars, history
  <2>3. QED  BY <1>3, <1>5, <1>12, <2>1, <2>2, StillTyped DEF TypeOK
<1>14. Reads(t)
  BY <1>1, <1>2, <1>5 DEF Reads, Goes
<1>15. QED  BY <1>2, <1>5, <1>12, <1>13, <1>14, StillOne DEF commitVars, storeVars, history

LEMMA LeaveSettingDataSteps ==
  ASSUME PinsInv, NEW t \in Threads, NEW l \in {"await", "holding"},
         thread[t].pc \in {"fetch", "leave"},
         GoTo(t, l), page' = [page EXCEPT ![Mine(t)].settingData = @ - 1],
         UNCHANGED <<cacheVars, commitVars, mutex, asleep, storeVars, history>>
  PROVE  TypeOK' /\ Moves(t) /\ PagesStill(t) /\ Goes(t, thread[t].pc, l)
<1>1. TypeOK /\ Mine(t) # NoPage /\ Listed /\ l \in Positions
  BY DEF PinsInv, Place, PageStates, Positions
<1>2. Mine(t) \in Live /\ On(t) \in PageRecord /\ On(t).settingData > 0
  BY <1>1, MyPage, SetterCounts DEF Live
<1>3. Moves(t) /\ Keeps(t) /\ thread'[t].pc = l
  BY <1>1, ThreadGoes
<1>4. PICK r \in PageRecord : r = On(t)
  BY <1>2
<1>5. PICK s : s = [r EXCEPT !.settingData = r.settingData - 1]
  OBVIOUS
<1>6. Alike(r, s) /\ s.pins = r.pins /\ s.settingData = r.settingData - 1
  <2>1. r.settingData - 1 \in Nat
    BY <1>2, <1>4 DEF PageRecord
  <2>2. QED  BY <1>5, <2>1, Counters
<1>7. page' = [page EXCEPT ![Mine(t)] = s] /\ page'[Mine(t)] = s
  BY <1>1, <1>2, <1>4, <1>5 DEF TypeOK, Live
<1>8. SameList
  BY <1>1 DEF SameList, TypeOK, Listed, OnList, cacheVars
<1>9. CountedBy(t, Mine(t))
  <2>1. Sets(t, Mine(t)) /\ ~Waits(t, Mine(t)) /\ Holds(t, Mine(t))
    BY <1>1 DEF Sets, Waits, Holds, PinsInv, Place
  <2>2. PICK p : p = Mine(t)
    OBVIOUS
  <2>3. ~Sets(t, p)' /\ ~Waits(t, p)' /\ Holds(t, p)'
    BY <1>3, <2>1, <2>2 DEF Sets, Waits, Holds, Keeps
  <2>4. CountedBy(t, p)
    BY <1>4, <1>6, <1>7, <2>1, <2>2, <2>3 DEF CountedBy, Bit, PageRecord
  <2>5. QED  BY <2>2, <2>4
<1>10. PagesStill(t)
  <2>1. PICK p \in Live : p = Mine(t)
    BY <1>2
  <2>2. CountedBy(t, p) /\ page' = [page EXCEPT ![p] = s] /\ Alike(page[p], s)
    BY <1>4, <1>6, <1>7, <1>9, <2>1
  <2>3. QED  BY <1>3, <1>8, <2>1, <2>2, OneChanges DEF Keeps
<1>11. TypeOK'
  <2>1. page' = [p \in Pages |-> page'[p]]
    BY <1>1, <1>7 DEF TypeOK
  <2>2. /\ UNCHANGED <<prepared, stored, clock, latest, fault>>
        /\ UNCHANGED <<maxPages, committing, cursor, writeLocked, mutex, asleep>>
    BY DEF cacheVars, commitVars, storeVars, history
  <2>3. QED  BY <1>1, <1>3, <1>10, <2>1, <2>2, StillTyped DEF TypeOK
<1>12. QED  BY <1>3, <1>10, <1>11 DEF Goes

LEMMA FetchChunkSteps ==
  ASSUME PinsInv, NEW t \in Threads, FetchChunk(t)
  PROVE  TypeOK' /\ Steps(t)
<1>1. /\ At(t, "fetch") /\ TypeOK /\ Mine(t) # NoPage
      /\ UNCHANGED <<cacheVars, commitVars, mutex, asleep, stored, history>>
  BY DEF FetchChunk, PinsInv, Place, PageStates
<1>2. On(t) \in PageRecord
  BY <1>1, MyPage
<1>3. CASE ~On(t).requestPrepared
  <2>1. /\ GoTo(t, "holding") /\ page' = [page EXCEPT ![Mine(t)].settingData = @ - 1]
        /\ UNCHANGED <<cacheVars, commitVars, mutex, asleep, storeVars, history>>
    BY <1>1, <1>3 DEF FetchChunk, storeVars
  <2>2. TypeOK' /\ Moves(t) /\ PagesStill(t) /\ Goes(t, "fetch", "holding")
    BY <1>1, <2>1, LeaveSettingDataSteps
  <2>3. Reads(t)
    BY <1>3, <2>2 DEF Reads
  <2>4. QED  BY <2>1, <2>2, <2>3, StillOne DEF commitVars, storeVars, history
<1>4. CASE On(t).requestPrepared
  <2>1. PICK result \in ReadOutcomes(On(t).chunk, On(t)) :
          thread' = [thread EXCEPT ![t].pc = "publish", ![t].got = result]
    BY <1>4 DEF FetchChunk
  <2>2. /\ prepared' = [prepared EXCEPT ![On(t).chunk] = IF @ = 0 THEN 0 ELSE @ - 1]
        /\ UNCHANGED page
    BY <1>4 DEF FetchChunk
  <2>3. result \in Blocks \cup {Failed}
    <3>1. stored[On(t).chunk] \in Blocks
      BY <1>1, <1>2 DEF TypeOK, PageRecord
    <3>2. QED  BY <2>1, <3>1 DEF ReadOutcomes
  <2>4. PICK r \in ThreadRecord : r = thread[t]
    BY <1>1 DEF TypeOK
  <2>5. PICK s : s = [r EXCEPT !.pc = "publish", !.got = result]
    OBVIOUS
  <2>6. /\ s \in ThreadRecord /\ s.pc = "publish" /\ s.got = result /\ s.page = r.page
        /\ s.victim = r.victim /\ s.writable = r.writable
    BY <2>3, <2>5 DEF ThreadRecord, Positions
  <2>7. thread' = [thread EXCEPT ![t] = s]
    BY <2>1, <2>4, <2>5
  <2>8. Moves(t) /\ thread'[t] = s
    BY <1>1, <2>6, <2>7, OneMoves
  <2>9. prepared' \in [Chunks -> Nat]
    <3>1. PICK n : n = IF prepared[On(t).chunk] = 0 THEN 0 ELSE prepared[On(t).chunk] - 1
      OBVIOUS
    <3>2. n \in Nat /\ prepared \in [Chunks -> Nat]
      BY <1>1, <1>2, <3>1 DEF TypeOK, PageRecord
    <3>3. prepared' = [prepared EXCEPT ![On(t).chunk] = n]
      BY <2>2, <3>1
    <3>4. QED  BY <3>2, <3>3
  <2>10. UNCHANGED <<pages, lru, maxPages, page, committing, cursor, writeLocked, mutex, asleep,
                     stored, clock, latest, fault>>
    BY <1>1, <2>2 DEF cacheVars, commitVars, history
  <2>11. TypeOK'
    BY <1>1, <2>8, <2>9, <2>10 DEF TypeOK, Moves
  <2>12. Fetches(t)
    BY <1>1, <1>4, <2>1, <2>2, <2>4, <2>6, <2>8, <2>10 DEF Fetches
  <2>13. QED  BY <2>11, <2>12 DEF Steps
<1>5. QED  BY <1>3, <1>4

LEMMA PublishPageSteps ==
  ASSUME PinsInv, NEW t \in Threads, PublishPage(t)
  PROVE  TypeOK' /\ Steps(t)
<1>1. /\ At(t, "publish") /\ TypeOK /\ Mine(t) # NoPage /\ thread[t].got # NoData
      /\ UNCHANGED <<cacheVars, commitVars, storeVars, history>>
      /\ page' = [page EXCEPT ![Mine(t)] = ReadPage(@, thread[t].got)]
  BY DEF PublishPage, PinsInv, Place, PageStates
<1>2. Mine(t) \in Pages /\ On(t) \in PageRecord /\ On(t).settingData > 0
  BY <1>1, MyPage, SetterCounts
<1>3. PICK l : l = IF thread[t].got = Failed THEN "holding" ELSE "limit"
  OBVIOUS
<1>4. PICK r \in ThreadRecord : r = thread[t]
  BY <1>1 DEF TypeOK
<1>5. PICK s : s = [r EXCEPT !.pc = l, !.got = NoData]
  OBVIOUS
<1>6. /\ s \in ThreadRecord /\ s.pc = l /\ s.page = r.page
      /\ s.victim = r.victim /\ s.writable = r.writable
  BY <1>3, <1>5 DEF ThreadRecord, Positions
<1>7. thread' = [thread EXCEPT ![t] = s]
  BY <1>3, <1>4, <1>5 DEF PublishPage
<1>8. Moves(t) /\ thread'[t] = s
  BY <1>1, <1>6, <1>7, OneMoves
<1>9. ReadPage(On(t), thread[t].got) \in PageRecord
  BY <1>1, <1>2, ReadPageFields DEF TypeOK, ThreadRecord
<1>10. /\ page' \in [Pages -> PageRecord \cup {NoPage}]
       /\ page'[Mine(t)] = ReadPage(On(t), thread[t].got) /\ Untouched({Mine(t)})
  BY <1>1, <1>2, <1>9 DEF TypeOK, Untouched
<1>11. mutex' \in Threads \cup {NoThread} /\ asleep' \subseteq Threads
  BY DEF PublishPage, NotifyReaders
<1>12. UNCHANGED <<pages, lru, maxPages, committing, cursor, writeLocked,
                   prepared, stored, clock, latest, fault>>
  BY <1>1 DEF cacheVars, commitVars, storeVars, history
<1>13. TypeOK'
  BY <1>1, <1>8, <1>10, <1>11, <1>12 DEF TypeOK, Moves
<1>14. Publishes(t)
  BY <1>1, <1>3, <1>4, <1>6, <1>8, <1>10, <1>12 DEF Publishes
<1>15. QED  BY <1>13, <1>14 DEF Steps

LEMMA AwaitDataSteps ==
  ASSUME PinsInv, NEW t \in Threads, AwaitData(t)
  PROVE  TypeOK' /\ Steps(t)
<1>1. /\ At(t, "await") /\ TypeOK /\ Mine(t) # NoPage
      /\ UNCHANGED <<cacheVars, page, commitVars, storeVars, history>>
  BY DEF AwaitData, PinsInv, Place, PageStates
<1>2. On(t).settingData \in Nat
  BY <1>1, MyPage DEF PageRecord
<1>3. PICK l : l = IF On(t).settingData > 0 THEN "await"
                   ELSE IF On(t).error THEN "holding" ELSE "limit"
  OBVIOUS
<1>4. /\ l \in {"await", "holding", "limit"} /\ l \in Positions /\ GoTo(t, l)
      /\ mutex' \in Threads \cup {NoThread} /\ asleep' \subseteq Threads
  <2>1. CASE On(t).settingData > 0
    <3>1. thread' = thread /\ l = "await" /\ mutex' = mutex /\ asleep' = asleep \cup {t}
      BY <1>3, <2>1 DEF AwaitData
    <3>2. GoTo(t, "await")
      <4>1. PICK r \in ThreadRecord : r = thread[t]
        BY <1>1 DEF TypeOK
      <4>2. [r EXCEPT !.pc = "await"] = r
        BY <1>1, <4>1 DEF ThreadRecord
      <4>3. QED  BY <1>1, <3>1, <4>1, <4>2 DEF GoTo, TypeOK
    <3>3. QED  BY <1>1, <3>1, <3>2 DEF TypeOK, Positions
  <2>2. CASE ~(On(t).settingData > 0)
    BY <1>1, <1>3, <2>2 DEF AwaitData, TypeOK, Positions
  <2>3. QED  BY <2>1, <2>2
<1>5. TypeOK' /\ Moves(t) /\ PagesStill(t) /\ Goes(t, "await", l)
  BY <1>1, <1>4, GoesOn
<1>6. Reads(t)
  BY <1>2, <1>3, <1>5 DEF Reads
<1>7. QED  BY <1>1, <1>5, <1>6, StillOne DEF commitVars, storeVars, history

LEMMA LeavesSteps ==
  ASSUME PinsInv, NEW t \in Threads, LeaveSettingData(t)
  PROVE  TypeOK' /\ Steps(t)
<1>1. /\ At(t, "leave") /\ GoTo(t, "await") /\ page' = [page EXCEPT ![Mine(t)].settingData = @ - 1]
      /\ UNCHANGED <<cacheVars, commitVars, mutex, asleep, storeVars, history>>
  BY DEF LeaveSettingData
<1>2. TypeOK' /\ Moves(t) /\ PagesStill(t) /\ Goes(t, "leave", "await")
  BY <1>1, LeaveSettingDataSteps
<1>3. QED  BY <1>1, <1>2, StillOne DEF commitVars, storeVars, history, Reads

-----------------------------------------------------------------------------
(* PrepareReadPage and CreatePage.                                         *)

LEMMA NewPageObjectFree ==
  ASSUME PageAvailable
  PROVE  NewPageObject \in Pages /\ page[NewPageObject] = NoPage
BY DEF PageAvailable, NewPageObject

LEMMA NewPagesTyped ==
  ASSUME NEW c \in Chunks, NEW failed \in BOOLEAN
  PROVE  VolumeDataPageImpl(c, failed) \in PageRecord
<1>1. Unwritten \in Blocks
  BY DEF Unwritten, Blocks, Versions
<1>2. QED  BY <1>1 DEF VolumeDataPageImpl, PageRecord

\* A page is inserted, and given to t.
LEMMA InsertSteps ==
  ASSUME PinsInv, NEW t \in Threads, NEW c \in Chunks, NEW p \in Pages, page[p] = NoPage,
         pages[c] = NoPage, t \in Inserters, NEW failed \in BOOLEAN, InsertPage(p, c, failed),
         NEW s \in ThreadRecord, thread' = [thread EXCEPT ![t] = s],
         s.page = p, s.victim = thread[t].victim, s.writable = thread[t].writable,
         \/ /\ thread[t].pc \in {"idle", "waitCommit"} /\ s.pc = "prepared"
            /\ prepared' = [prepared EXCEPT ![c] = @ + 1]
         \/ /\ At(t, "idle") /\ s.pc = "create" /\ t \in Creators /\ MayWrite
            /\ UNCHANGED prepared,
         UNCHANGED <<committing, cursor, mutex, asleep, stored, history>>, writeLocked' \in BOOLEAN
  PROVE  TypeOK' /\ Steps(t)
<1>1. TypeOK /\ Listed
  BY DEF PinsInv
<1>2. Moves(t) /\ thread'[t] = s
  BY <1>1, OneMoves
<1>3. VolumeDataPageImpl(c, failed) \in PageRecord
  BY NewPagesTyped
<1>4. /\ page' \in [Pages -> PageRecord \cup {NoPage}]
      /\ page'[p] = VolumeDataPageImpl(c, failed) /\ Untouched({p})
  BY <1>1, <1>3 DEF InsertPage, TypeOK, Untouched
<1>5. /\ pages' = [pages EXCEPT ![c] = p] /\ lru' = <<p>> \o lru /\ UNCHANGED maxPages
  BY DEF InsertPage
<1>6. pages' \in [Chunks -> Pages \cup {NoPage}]
  BY <1>1, <1>5 DEF TypeOK
<1>7. lru' \in Seq(Pages)
  BY <1>1, <1>5 DEF TypeOK
<1>8. prepared' \in [Chunks -> Nat]
  <2>1. prepared \in [Chunks -> Nat] /\ prepared[c] + 1 \in Nat
    BY <1>1 DEF TypeOK
  <2>2. QED  BY <2>1
<1>9. UNCHANGED <<clock, latest, fault>>
  BY DEF history
<1>10. TypeOK'
  BY <1>1, <1>2, <1>4, <1>5, <1>6, <1>7, <1>8, <1>9 DEF TypeOK, Moves
<1>11. Inserts(t, p, c)
  BY <1>2, <1>4, <1>5, <1>9 DEF Inserts
<1>12. QED  BY <1>10, <1>11 DEF Steps

LEMMA PrepareAfterCommitSteps ==
  ASSUME PinsInv, NEW t \in Threads, PrepareAfterCommit(t)
  PROVE  TypeOK' /\ Steps(t)
<1>1. /\ At(t, "waitCommit") /\ NewPage(t, thread[t].chunk)
      /\ thread' = [thread EXCEPT ![t].pc = "prepared", ![t].page = NewPageObject]
      /\ UNCHANGED <<commitVars, mutex, asleep, history>>
  BY DEF PrepareAfterCommit
<1>2. TypeOK /\ t \in Inserters /\ pages[thread[t].chunk] = NoPage
  BY <1>1 DEF PinsInv, Place
<1>3. PICK r \in ThreadRecord : r = thread[t]
  BY <1>2 DEF TypeOK
<1>4. PICK p \in Pages : p = NewPageObject /\ page[p] = NoPage
  BY <1>1, NewPageObjectFree DEF NewPage
<1>5. PICK failed \in BOOLEAN : InsertPage(p, r.chunk, failed)
  BY <1>1, <1>3, <1>4 DEF NewPage
<1>6. PICK s : s = [r EXCEPT !.pc = "prepared", !.page = p]
  OBVIOUS
<1>7. /\ s \in ThreadRecord /\ s.pc = "prepared" /\ s.page = p
      /\ s.victim = r.victim /\ s.writable = r.writable
  BY <1>6 DEF ThreadRecord, Positions
<1>8. thread' = [thread EXCEPT ![t] = s]
  BY <1>1, <1>3, <1>4, <1>6
<1>9. r.chunk \in Chunks
  BY DEF ThreadRecord
<1>10. /\ prepared' = [prepared EXCEPT ![r.chunk] = @ + 1] /\ UNCHANGED stored
  BY <1>1, <1>3 DEF NewPage
<1>11. writeLocked' \in BOOLEAN /\ UNCHANGED <<committing, cursor>>
  BY <1>1, <1>2 DEF TypeOK, commitVars
<1>12. /\ page[p] = NoPage /\ pages[r.chunk] = NoPage /\ thread[t].pc = "waitCommit"
       /\ s.victim = thread[t].victim /\ s.writable = thread[t].writable
       /\ UNCHANGED <<committing, cursor, mutex, asleep, stored, history>>
  BY <1>1, <1>2, <1>3, <1>4, <1>7, <1>10, <1>11 DEF commitVars
<1>13. QED  BY <1>2, <1>5, <1>7, <1>8, <1>9, <1>10, <1>11, <1>12, InsertSteps

\* A page that is found goes to the front of the list.
LEMMA FrontOfPages ==
  ASSUME PinsInv, NEW p \in OnList, UNCHANGED pages, lru' = <<p>> \o Erase(lru, p)
  PROVE  SameList
<1>1. lru \in Seq(Pages) /\ Distinct(lru) /\ p \in Pages
  BY ListedPages DEF PinsInv, TypeOK, Listed, Live
<1>2. /\ Erase(lru, p) \in Seq(Pages) /\ Distinct(Erase(lru, p))
      /\ ToSet(Erase(lru, p)) = ToSet(lru) \ {p}
  BY <1>1, EraseOne
<1>3. /\ <<p>> \o Erase(lru, p) \in Seq(Pages) /\ Distinct(<<p>> \o Erase(lru, p))
      /\ ToSet(<<p>> \o Erase(lru, p)) = {p} \cup ToSet(Erase(lru, p))
  BY <1>1, <1>2, PushFront
<1>4. QED  BY <1>2, <1>3 DEF SameList, OnList

LEMMA FindPageSteps ==
  ASSUME PinsInv, NEW t \in Threads, NEW c \in Chunks, Starts(t), t \in Inserters, FindPage(t, c),
         UNCHANGED <<commitVars, mutex, asleep, history>>
  PROVE  TypeOK' /\ Steps(t)
<1>1. TypeOK /\ Listed /\ Place(t) /\ At(t, "idle") /\ thread[t].calls < MaxCalls /\ Mine(t) = NoPage
  BY DEF PinsInv, Starts, Place
<1>2. PICK p \in OnList : p = pages[c]
  BY <1>1 DEF FindPage, Listed
<1>3. p \in Live /\ page[p] \in PageRecord /\ p # NoPage /\ p \in Pages
  BY <1>1, <1>2, ListedPages DEF Live
<1>4. /\ page' = [page EXCEPT ![p] = Pin(page[p])] /\ lru' = <<p>> \o Erase(lru, p)
      /\ thread' = [thread EXCEPT ![t].pc = "prepared", ![t].page = p, ![t].calls = @ + 1]
      /\ UNCHANGED <<pages, maxPages, prepared, stored>>
  BY <1>2 DEF FindPage, storeVars
<1>5. SameList
  BY <1>4, FrontOfPages
<1>6. PICK r \in ThreadRecord : r = thread[t]
  BY <1>1 DEF TypeOK
<1>7. PICK s : s = [r EXCEPT !.pc = "prepared", !.page = p, !.calls = @ + 1]
  OBVIOUS
<1>8. /\ s \in ThreadRecord /\ s.pc = "prepared" /\ s.page = p
      /\ s.victim = r.victim /\ s.writable = r.writable
  <2>1. r.calls + 1 \in 0 .. MaxCalls
    BY <1>1, <1>6 DEF ThreadRecord
  <2>2. QED  BY <1>3, <1>7, <2>1 DEF ThreadRecord, Positions
<1>9. thread' = [thread EXCEPT ![t] = s]
  BY <1>4, <1>6, <1>7
<1>10. Moves(t) /\ thread'[t] = s
  BY <1>1, <1>8, <1>9, OneMoves
<1>11. PICK q : q = Pin(page[p])
  OBVIOUS
<1>12. Alike(page[p], q) /\ q.pins = page[p].pins + 1 /\ q.settingData = page[p].settingData
  BY <1>3, <1>11, Counters
<1>13. CountedBy(t, p)
  <2>1. /\ ~Holds(t, p) /\ ~Waits(t, p) /\ ~Sets(t, p)
        /\ Holds(t, p)' /\ ~Waits(t, p)' /\ ~Sets(t, p)'
    BY <1>1, <1>3, <1>6, <1>8, <1>10 DEF Holds, Waits, Sets, Place
  <2>2. page'[p] = q
    BY <1>1, <1>3, <1>4, <1>11 DEF TypeOK
  <2>3. QED  BY <1>3, <1>12, <2>1, <2>2 DEF CountedBy, Bit, PageRecord
<1>14. PagesStill(t)
  BY <1>1, <1>3, <1>4, <1>5, <1>6, <1>8, <1>10, <1>11, <1>12, <1>13, OneChanges
<1>15. TypeOK'
  <2>1. page' = [x \in Pages |-> page'[x]]
    BY <1>1, <1>4 DEF TypeOK
  <2>2. UNCHANGED <<clock, latest, fault, committing, cursor, writeLocked>>
    BY DEF history, commitVars
  <2>3. QED  BY <1>1, <1>4, <1>10, <1>14, <2>1, <2>2, StillTyped DEF TypeOK
<1>16. Begins(t)
  BY <1>1, <1>2, <1>6, <1>8, <1>10 DEF Begins
<1>17. QED  BY <1>4, <1>10, <1>14, <1>15, <1>16, StillOne DEF history, commitVars

LEMMA PrepareReadPageSteps ==
  ASSUME PinsInv, NEW t \in Threads, NEW c \in Chunks, PrepareReadPage(t, c)
  PROVE  TypeOK' /\ Steps(t)
<1>1. /\ t \in Inserters /\ Starts(t) /\ TypeOK /\ At(t, "idle") /\ thread[t].calls < MaxCalls
      /\ UNCHANGED <<commitVars, mutex, asleep, history>>
  BY DEF PrepareReadPage, Inserters, Starts, PinsInv
<1>2. PICK r \in ThreadRecord : r = thread[t]
  BY <1>1 DEF TypeOK
<1>3. r.calls + 1 \in 0 .. MaxCalls
  BY <1>1, <1>2 DEF ThreadRecord
<1>4. CASE FindPage(t, c)
  BY <1>1, <1>4, FindPageSteps
<1>5. CASE /\ pages[c] = NoPage /\ NewPage(t, c)
           /\ thread' = [thread EXCEPT ![t].pc = "prepared", ![t].page = NewPageObject,
                                       ![t].calls = @ + 1]
  <2>1. PICK p \in Pages : p = NewPageObject /\ page[p] = NoPage
    BY <1>5, NewPageObjectFree DEF NewPage
  <2>2. PICK failed \in BOOLEAN : InsertPage(p, c, failed)
    BY <1>5, <2>1 DEF NewPage
  <2>3. PICK s : s = [r EXCEPT !.pc = "prepared", !.page = p, !.calls = @ + 1]
    OBVIOUS
  <2>4. /\ s \in ThreadRecord /\ s.pc = "prepared" /\ s.page = p
        /\ s.victim = r.victim /\ s.writable = r.writable
    BY <1>3, <2>3 DEF ThreadRecord, Positions
  <2>5. thread' = [thread EXCEPT ![t] = s]
    BY <1>2, <1>5, <2>1, <2>3
  <2>6. prepared' = [prepared EXCEPT ![c] = @ + 1] /\ UNCHANGED stored
    BY <1>5 DEF NewPage
  <2>7. writeLocked' \in BOOLEAN /\ UNCHANGED <<committing, cursor>>
    BY <1>1 DEF TypeOK, commitVars
  <2>8. /\ t \in Inserters /\ pages[c] = NoPage /\ page[p] = NoPage
        /\ s.page = p /\ s.victim = thread[t].victim /\ s.writable = thread[t].writable
    BY <1>1, <1>2, <1>5, <2>1, <2>4
  <2>9. /\ thread[t].pc \in {"idle", "waitCommit"} /\ s.pc = "prepared"
        /\ prepared' = [prepared EXCEPT ![c] = @ + 1]
    BY <1>1, <2>4, <2>6
  <2>10. UNCHANGED <<committing, cursor, mutex, asleep, stored, history>>
    BY <1>1, <2>6, <2>7
  <2>11. QED  BY <2>2, <2>4, <2>5, <2>7, <2>8, <2>9, <2>10, InsertSteps
<1>6. CASE /\ pages[c] = NoPage /\ CommitBlocks
           /\ thread' = [thread EXCEPT ![t].pc = "waitCommit", ![t].chunk = c, ![t].calls = @ + 1]
           /\ UNCHANGED <<cacheVars, page, storeVars>>
  <2>1. PICK s : s = [r EXCEPT !.pc = "waitCommit", !.chunk = c, !.calls = @ + 1]
    OBVIOUS
  <2>2. /\ s \in ThreadRecord /\ s.pc = "waitCommit" /\ s.page = r.page /\ s.chunk = c
        /\ s.victim = r.victim /\ s.writable = r.writable /\ s.got = r.got
    BY <1>3, <2>1 DEF ThreadRecord, Positions
  <2>3. thread' = [thread EXCEPT ![t] = s]
    BY <1>2, <1>6, <2>1
  <2>4. Moves(t) /\ thread'[t] = s
    BY <1>1, <2>2, <2>3, OneMoves
  <2>5. UNCHANGED <<pages, lru, maxPages, page, prepared, stored, clock, latest, fault,
                    committing, cursor, writeLocked>>
    BY <1>1, <1>6 DEF cacheVars, storeVars, history, commitVars
  <2>6. PagesStill(t)
    BY <1>1, <1>2, <2>2, <2>4, <2>5, NoneChanges
  <2>7. TypeOK'
    <3>1. page' = [x \in Pages |-> page'[x]]
      BY <1>1, <2>5 DEF TypeOK
    <3>2. QED  BY <1>1, <2>4, <2>5, <2>6, <3>1, StillTyped DEF TypeOK
  <2>8. Begins(t)
    BY <1>1, <1>2, <1>6, <2>2, <2>4 DEF Begins, Goes, Keeps, CommitBlocks
  <2>9. QED  BY <2>4, <2>5, <2>6, <2>7, <2>8, StillOne
<1>7. QED  BY <1>4, <1>5, <1>6 DEF PrepareReadPage

LEMMA CreatePageSteps ==
  ASSUME PinsInv, NEW t \in Threads, NEW c \in Chunks, CreatePage(t, c)
  PROVE  TypeOK' /\ Steps(t)
<1>1. /\ t \in Inserters /\ t \in Creators /\ Starts(t) /\ TypeOK /\ At(t, "idle")
      /\ thread[t].calls < MaxCalls /\ MayWrite /\ writeLocked' = TRUE
      /\ UNCHANGED <<committing, cursor, mutex, asleep, storeVars, history>>
  BY DEF CreatePage, Inserters, Starts, PinsInv
<1>2. PICK r \in ThreadRecord : r = thread[t]
  BY <1>1 DEF TypeOK
<1>3. r.calls + 1 \in 0 .. MaxCalls
  BY <1>1, <1>2 DEF ThreadRecord
<1>4. CASE pages[c] # NoPage
  <2>1. /\ thread' = [thread EXCEPT ![t].calls = @ + 1] /\ UNCHANGED <<cacheVars, page>>
    BY <1>4 DEF CreatePage
  <2>2. PICK s : s = [r EXCEPT !.calls = @ + 1]
    OBVIOUS
  <2>3. /\ s \in ThreadRecord /\ s.pc = r.pc /\ s.page = r.page
        /\ s.victim = r.victim /\ s.writable = r.writable /\ s.got = r.got
    BY <1>3, <2>2 DEF ThreadRecord
  <2>4. thread' = [thread EXCEPT ![t] = s]
    BY <1>2, <2>1, <2>2
  <2>5. Moves(t) /\ thread'[t] = s
    BY <1>1, <2>3, <2>4, OneMoves
  <2>6. UNCHANGED <<pages, lru, maxPages, page, prepared, stored, clock, latest, fault>>
    BY <1>1, <2>1 DEF cacheVars, storeVars, history
  <2>7. PagesStill(t)
    BY <1>1, <1>2, <2>3, <2>5, <2>6, NoneChanges
  <2>8. TypeOK'
    <3>1. page' = [x \in Pages |-> page'[x]]
      BY <1>1, <2>6 DEF TypeOK
    <3>2. QED  BY <1>1, <2>5, <2>6, <2>7, <3>1, StillTyped DEF TypeOK
  <2>9. Begins(t)
    BY <1>1, <1>2, <2>3, <2>5 DEF Begins, Goes, Keeps
  <2>10. QED  BY <1>1, <2>5, <2>6, <2>7, <2>8, <2>9, StillOne
<1>5. CASE pages[c] = NoPage
  <2>1. /\ PageAvailable /\ InsertPage(NewPageObject, c, FALSE)
        /\ thread' = [thread EXCEPT ![t].pc = "create", ![t].page = NewPageObject,
                                    ![t].calls = @ + 1]
    BY <1>5 DEF CreatePage
  <2>2. PICK p \in Pages : p = NewPageObject /\ page[p] = NoPage
    BY <2>1, NewPageObjectFree
  <2>3. PICK s : s = [r EXCEPT !.pc = "create", !.page = p, !.calls = @ + 1]
    OBVIOUS
  <2>4. /\ s \in ThreadRecord /\ s.pc = "create" /\ s.page = p
        /\ s.victim = r.victim /\ s.writable = r.writable
    BY <1>3, <2>3 DEF ThreadRecord, Positions
  <2>5. thread' = [thread EXCEPT ![t] = s]
    BY <1>2, <2>1, <2>2, <2>3
  <2>6. InsertPage(p, c, FALSE) /\ writeLocked' \in BOOLEAN /\ UNCHANGED <<prepared, stored>>
    BY <1>1, <2>1, <2>2 DEF storeVars
  <2>7. QED  BY <1>1, <1>2, <1>5, <2>2, <2>4, <2>5, <2>6, InsertSteps
<1>6. QED  BY <1>4, <1>5

LEMMA SetMaxPagesSteps ==
  ASSUME PinsInv, NEW t \in Threads, NEW n \in PageLimits, SetMaxPages(t, n)
  PROVE  TypeOK' /\ Steps(t)
<1>1. /\ Starts(t) /\ TypeOK /\ At(t, "idle") /\ thread[t].calls < MaxCalls
      /\ UNCHANGED <<pages, lru, page, commitVars, asleep, storeVars, history>>
      /\ maxPages' \in Nat /\ mutex' = t
      /\ thread' = [thread EXCEPT ![t].pc = "limit", ![t].calls = @ + 1]
  BY DEF SetMaxPages, Starts, PinsInv
<1>2. PICK r \in ThreadRecord : r = thread[t]
  BY <1>1 DEF TypeOK
<1>3. r.calls + 1 \in 0 .. MaxCalls
  BY <1>1, <1>2 DEF ThreadRecord
<1>4. PICK s : s = [r EXCEPT !.pc = "limit", !.calls = @ + 1]
  OBVIOUS
<1>5. /\ s \in ThreadRecord /\ s.pc = "limit" /\ s.page = r.page
      /\ s.victim = r.victim /\ s.writable = r.writable /\ s.got = r.got
  BY <1>3, <1>4 DEF ThreadRecord, Positions
<1>6. thread' = [thread EXCEPT ![t] = s]
  BY <1>1, <1>2, <1>4
<1>7. Moves(t) /\ thread'[t] = s
  BY <1>1, <1>5, <1>6, OneMoves
<1>8. UNCHANGED <<prepared, stored, clock, latest, fault, committing, cursor, writeLocked>>
  BY <1>1 DEF commitVars, storeVars, history
<1>9. PagesStill(t)
  BY <1>1, <1>2, <1>5, <1>7, NoneChanges
<1>10. TypeOK'
  <2>1. page' = [x \in Pages |-> page'[x]]
    BY <1>1 DEF TypeOK
  <2>2. QED  BY <1>1, <1>7, <1>8, <1>9, <2>1, StillTyped DEF TypeOK
<1>11. Begins(t)
  BY <1>1, <1>2, <1>5, <1>7 DEF Begins, Goes, Keeps
<1>12. QED  BY <1>7, <1>8, <1>9, <1>10, <1>11, StillOne

-----------------------------------------------------------------------------
(* Giving a page back, and writing it.                                     *)

\* A thread has its page pinned.
LEMMA HolderCounts ==
  ASSUME PinsInv, NEW t \in Threads, Mine(t) # NoPage, ~At(t, "cancel")
  PROVE  /\ Mine(t) \in Live /\ On(t) \in PageRecord /\ On(t).pins > 0
         /\ Alike(On(t), UnPin(On(t))) /\ UnPin(On(t)).pins = On(t).pins - 1
         /\ UnPin(On(t)).settingData = On(t).settingData
<1>1. Mine(t) \in Live /\ On(t) \in PageRecord
  BY MyPage DEF Live
<1>2. t \in Holders(Mine(t))
  BY DEF Holders
<1>3. On(t).pins > 0
  BY <1>1, <1>2, FewPins
<1>4. QED  BY <1>1, <1>3, Counters

\* A page is unpinned and t leaves it.
LEMMA UnPinSteps ==
  ASSUME PinsInv, NEW t \in Threads, Mine(t) # NoPage, thread[t].pc \in {"prepared", "holding"},
         page' = [page EXCEPT ![Mine(t)] = UnPin(@)],
         NEW s \in ThreadRecord, thread' = [thread EXCEPT ![t] = s],
         s.pc = "idle", s.page = NoPage, s.victim = thread[t].victim,
         UNCHANGED <<cacheVars, commitVars, mutex, asleep, storeVars, history>>,
         \/ At(t, "prepared") /\ t \in Jobs /\ On(t).pins > 1 /\ s.writable = thread[t].writable
         \/ At(t, "holding") /\ ~s.writable
  PROVE  TypeOK' /\ Steps(t)
<1>1. TypeOK /\ Listed /\ Place(t) /\ ~At(t, "cancel") /\ ~Sets(t, Mine(t))
  BY DEF PinsInv, Sets
<1>2. /\ Mine(t) \in Live /\ On(t) \in PageRecord /\ On(t).pins > 0
      /\ Alike(On(t), UnPin(On(t))) /\ UnPin(On(t)).pins = On(t).pins - 1
      /\ UnPin(On(t)).settingData = On(t).settingData
  BY <1>1, HolderCounts
<1>3. Moves(t) /\ thread'[t] = s
  BY <1>1, OneMoves
<1>4. PICK p \in Live : p = Mine(t)
  BY <1>2
<1>5. PICK q : q = UnPin(page[p])
  OBVIOUS
<1>6. /\ page' = [page EXCEPT ![p] = q] /\ page'[p] = q
  BY <1>1, <1>4, <1>5 DEF TypeOK, Live
<1>7. /\ Alike(page[p], q) /\ q.pins = page[p].pins - 1 /\ q.settingData = page[p].settingData
      /\ page[p] \in PageRecord /\ page[p].pins > 0
  BY <1>2, <1>4, <1>5
<1>8. SameList
  BY <1>1 DEF SameList, TypeOK, Listed, OnList, cacheVars
<1>9. CountedBy(t, p)
  <2>1. p # NoPage
    BY <1>4
  <2>2. /\ Holds(t, p) /\ ~Waits(t, p) /\ ~Sets(t, p)
        /\ ~Holds(t, p)' /\ ~Waits(t, p)' /\ ~Sets(t, p)'
    BY <1>1, <1>3, <1>4, <2>1 DEF Holds, Waits, Sets, Place
  <2>3. QED  BY <1>6, <1>7, <2>2 DEF CountedBy, Bit, PageRecord
<1>10. PagesStill(t)
  BY <1>1, <1>3, <1>4, <1>6, <1>7, <1>8, <1>9, OneChanges
<1>11. UNCHANGED <<prepared, stored, clock, latest, fault, maxPages, committing, cursor, writeLocked>>
  BY DEF cacheVars, commitVars, storeVars, history
<1>12. TypeOK'
  <2>1. page' = [x \in Pages |-> page'[x]]
    BY <1>1, <1>6 DEF TypeOK
  <2>2. QED  BY <1>1, <1>3, <1>10, <1>11, <2>1, StillTyped DEF TypeOK
<1>13. GivesBack(t)
  BY <1>3 DEF GivesBack
<1>14. QED  BY <1>3, <1>10, <1>11, <1>12, <1>13, StillOne

LEMMA CancelSteps ==
  ASSUME PinsInv, NEW t \in Threads, CancelPreparedReadPage(t)
  PROVE  TypeOK' /\ Steps(t)
<1>1. /\ At(t, "prepared") /\ t \in Jobs /\ TypeOK /\ Listed /\ Mine(t) # NoPage
      /\ page' = [page EXCEPT ![Mine(t)] = UnPin(@)]
      /\ UNCHANGED <<commitVars, mutex, asleep, storeVars, history>>
  BY DEF CancelPreparedReadPage, PinsInv, Place, PageStates
<1>2. PICK r \in ThreadRecord : r = thread[t]
  BY <1>1 DEF TypeOK
<1>3. /\ Mine(t) \in Live /\ On(t) \in PageRecord /\ On(t).pins > 0
      /\ Alike(On(t), UnPin(On(t))) /\ pages[On(t).chunk] = Mine(t) /\ Mine(t) \in OnList
  BY <1>1, HolderCounts, MyPage
<1>4. CASE On(t).pins > 1
  <2>1. /\ thread' = [thread EXCEPT ![t].pc = "idle", ![t].page = NoPage] /\ UNCHANGED cacheVars
    BY <1>4 DEF CancelPreparedReadPage
  <2>2. PICK s : s = [r EXCEPT !.pc = "idle", !.page = NoPage]
    OBVIOUS
  <2>3. /\ s \in ThreadRecord /\ s.pc = "idle" /\ s.page = NoPage
        /\ s.victim = r.victim /\ s.writable = r.writable
    BY <2>2 DEF ThreadRecord, Positions
  <2>4. thread' = [thread EXCEPT ![t] = s]
    BY <1>2, <2>1, <2>2
  <2>5. QED  BY <1>1, <1>2, <1>4, <2>1, <2>3, <2>4, UnPinSteps
<1>5. CASE ~(On(t).pins > 1)
  <2>1. /\ GoTo(t, "cancel") /\ pages' = ErasePage(On(t).chunk) /\ lru' = Erase(lru, Mine(t))
        /\ UNCHANGED maxPages
    BY <1>1, <1>3, <1>5 DEF CancelPreparedReadPage
  <2>2. On(t).pins = 1
    BY <1>3, <1>5 DEF PageRecord
  <2>3. Moves(t) /\ Keeps(t) /\ thread'[t].pc = "cancel"
    <3>1. "cancel" \in Positions
      BY DEF Positions
    <3>2. QED  BY <1>1, <2>1, <3>1, ThreadGoes
  <2>4. /\ page' \in [Pages -> PageRecord \cup {NoPage}]
        /\ page'[Mine(t)] = UnPin(On(t)) /\ Untouched({Mine(t)})
    BY <1>1, <1>3 DEF TypeOK, Alike, Untouched, Live
  <2>5. pages' \in [Chunks -> Pages \cup {NoPage}]
    BY <1>1, <2>1 DEF ErasePage, TypeOK
  <2>6. lru' \in Seq(Pages)
    BY <1>1, <2>1, EraseOne DEF TypeOK, Listed
  <2>7. UNCHANGED <<prepared, stored, clock, latest, fault, committing, cursor, writeLocked>>
    BY <1>1 DEF commitVars, storeVars, history
  <2>8. TypeOK'
    BY <1>1, <2>1, <2>3, <2>4, <2>5, <2>6, <2>7 DEF TypeOK, Moves
  <2>9. TakesOut(t)
    BY <1>1, <2>1, <2>2, <2>3, <2>4, <2>7 DEF TakesOut
  <2>10. QED  BY <2>8, <2>9 DEF Steps
<1>6. QED  BY <1>4, <1>5

LEMMA DeleteSteps ==
  ASSUME PinsInv, NEW t \in Threads, DeleteCancelledPage(t)
  PROVE  TypeOK' /\ Steps(t)
<1>1. /\ At(t, "cancel") /\ TypeOK /\ Mine(t) # NoPage /\ asleep' = {}
      /\ prepared' = [prepared EXCEPT ![On(t).chunk] =
                        IF OwnsPreparation(On(t)) /\ @ > 0 THEN @ - 1 ELSE @]
      /\ page' = [page EXCEPT ![Mine(t)] = NoPage]
      /\ thread' = [thread EXCEPT ![t].pc = "idle", ![t].page = NoPage]
      /\ UNCHANGED <<cacheVars, commitVars, mutex, stored, history>>
  BY DEF DeleteCancelledPage, PinsInv, Place, PageStates, NotifyReaders
<1>2. Mine(t) \in Pages /\ On(t) \in PageRecord
  BY <1>1, MyPage
<1>3. PICK r \in ThreadRecord : r = thread[t]
  BY <1>1 DEF TypeOK
<1>4. PICK s : s = [r EXCEPT !.pc = "idle", !.page = NoPage]
  OBVIOUS
<1>5. /\ s \in ThreadRecord /\ s.pc = "idle" /\ s.page = NoPage
      /\ s.victim = r.victim /\ s.writable = r.writable
  BY <1>4 DEF ThreadRecord, Positions
<1>6. thread' = [thread EXCEPT ![t] = s]
  BY <1>1, <1>3, <1>4
<1>7. Moves(t) /\ thread'[t] = s
  BY <1>1, <1>5, <1>6, OneMoves
<1>8. prepared' \in [Chunks -> Nat]
  <2>1. PICK n : n = IF OwnsPreparation(On(t)) /\ prepared[On(t).chunk] > 0
                     THEN prepared[On(t).chunk] - 1 ELSE prepared[On(t).chunk]
    OBVIOUS
  <2>2. n \in Nat /\ prepared \in [Chunks -> Nat]
    BY <1>1, <1>2, <2>1 DEF TypeOK, PageRecord
  <2>3. prepared' = [prepared EXCEPT ![On(t).chunk] = n]
    BY <1>1, <2>1
  <2>4. QED  BY <2>2, <2>3
<1>9. page' \in [Pages -> PageRecord \cup {NoPage}] /\ page'[Mine(t)] = NoPage /\ Untouched({Mine(t)})
  BY <1>1, <1>2 DEF TypeOK, Untouched
<1>10. UNCHANGED <<pages, lru, maxPages, stored, clock, latest, fault, committing, cursor, writeLocked>>
  BY <1>1 DEF cacheVars, commitVars, history
<1>11. TypeOK'
  BY <1>1, <1>7, <1>8, <1>9, <1>10 DEF TypeOK, Moves
<1>12. Deletes(t)
  BY <1>1, <1>3, <1>5, <1>7, <1>9, <1>10 DEF Deletes
<1>13. QED  BY <1>11, <1>12 DEF Steps

LEMMA ReleaseSteps ==
  ASSUME PinsInv, NEW t \in Threads, Release(t)
  PROVE  TypeOK' /\ Steps(t)
<1>1. /\ At(t, "holding") /\ TypeOK /\ Mine(t) # NoPage
      /\ page' = [page EXCEPT ![Mine(t)] = UnPin(@)]
      /\ thread' = [thread EXCEPT ![t].pc = "idle", ![t].page = NoPage, ![t].writable = FALSE]
      /\ UNCHANGED <<cacheVars, commitVars, mutex, asleep, storeVars, history>>
  BY DEF Release, PinsInv, Place, PageStates
<1>2. PICK r \in ThreadRecord : r = thread[t]
  BY <1>1 DEF TypeOK
<1>3. PICK s : s = [r EXCEPT !.pc = "idle", !.page = NoPage, !.writable = FALSE]
  OBVIOUS
<1>4. /\ s \in ThreadRecord /\ s.pc = "idle" /\ s.page = NoPage
      /\ s.victim = r.victim /\ ~s.writable
  BY <1>3 DEF ThreadRecord, Positions
<1>5. thread' = [thread EXCEPT ![t] = s]
  BY <1>1, <1>2, <1>3
<1>6. QED  BY <1>1, <1>2, <1>4, <1>5, UnPinSteps

LEMMA FillSteps ==
  ASSUME PinsInv, NEW t \in Threads, FillCreatedPage(t)
  PROVE  TypeOK' /\ Steps(t)
<1>1. /\ At(t, "create") /\ TypeOK /\ Mine(t) # NoPage /\ WritesBounded /\ asleep' = {}
      /\ clock' = clock + 1 /\ latest' = [latest EXCEPT ![On(t).chunk] = clock + 1]
      /\ page' = [page EXCEPT ![Mine(t)].data = [Unwritten EXCEPT ![On(t).chunk] = clock + 1],
                              ![Mine(t)].dirty = TRUE]
      /\ GoTo(t, "limit") /\ mutex' = t
      /\ UNCHANGED <<cacheVars, commitVars, storeVars, fault>>
  BY DEF FillCreatedPage, PinsInv, Place, PageStates, NotifyReaders
<1>2. Mine(t) \in Pages /\ On(t) \in PageRecord
  BY <1>1, MyPage
<1>3. PICK r \in PageRecord : r = On(t)
  BY <1>2
<1>4. clock + 1 \in Versions
  <2>1. PICK n : n = Cardinality({u \in Threads : At(u, "create")})
    OBVIOUS
  <2>2. n \in Nat /\ n # 0
    <3>1. {u \in Threads : At(u, "create")} \in SUBSET Threads
      OBVIOUS
    <3>2. IsFiniteSet({u \in Threads : At(u, "create")}) /\ {u \in Threads : At(u, "create")} # {}
      BY <1>1, <3>1, FS_Subset
    <3>3. QED  BY <2>1, <3>2, FS_CardinalityType, FS_EmptySet
  <2>3. clock + n <= MaxWrites
    BY <1>1, <2>1 DEF WritesBounded
  <2>4. QED  BY <1>1, <2>2, <2>3 DEF TypeOK, Versions
<1>5. PICK d \in Blocks : d = [Unwritten EXCEPT ![r.chunk] = clock + 1]
  <2>1. Unwritten \in Blocks
    BY DEF Unwritten, Blocks, Versions
  <2>2. QED  BY <1>4, <2>1 DEF Blocks
<1>6. PICK s : s = [r EXCEPT !.data = d, !.dirty = TRUE]
  OBVIOUS
<1>7. s \in PageRecord
  BY <1>6 DEF PageRecord
<1>8. page' = [page EXCEPT ![Mine(t)] = s]
  BY <1>1, <1>3, <1>5, <1>6
<1>9. page' \in [Pages -> PageRecord \cup {NoPage}] /\ page'[Mine(t)] = s /\ Untouched({Mine(t)})
  <2>1. page \in [Pages -> PageRecord \cup {NoPage}]
    BY <1>1 DEF TypeOK
  <2>2. QED  BY <1>2, <1>7, <1>8, <2>1 DEF Untouched
<1>10. latest' \in [Chunks -> Versions]
  BY <1>1, <1>4 DEF TypeOK
<1>11. Moves(t) /\ Keeps(t) /\ thread'[t].pc = "limit"
  <2>1. "limit" \in Positions
    BY DEF Positions
  <2>2. QED  BY <1>1, <2>1, ThreadGoes
<1>12. UNCHANGED <<pages, lru, maxPages, prepared, stored, fault, committing, cursor, writeLocked>>
  BY <1>1 DEF cacheVars, commitVars, storeVars
<1>13. TypeOK'
  BY <1>1, <1>4, <1>9, <1>10, <1>11, <1>12 DEF TypeOK, Moves
<1>14. Fills(t)
  BY <1>1, <1>3, <1>5, <1>6, <1>9, <1>11, <1>12 DEF Fills, Goes
<1>15. QED  BY <1>13, <1>14 DEF Steps

LEMMA GetWritableBufferSteps ==
  ASSUME PinsInv, NEW t \in Threads, GetWritableBuffer(t)
  PROVE  TypeOK' /\ Steps(t)
<1>1. /\ At(t, "holding") /\ TypeOK /\ On(t).data # NoData /\ writeLocked' = TRUE
      /\ thread' = [thread EXCEPT ![t].writable = TRUE]
      /\ UNCHANGED <<cacheVars, page, committing, cursor, mutex, asleep, storeVars, history>>
  BY DEF GetWritableBuffer, PinsInv
<1>2. PICK r \in ThreadRecord : r = thread[t]
  BY <1>1 DEF TypeOK
<1>3. PICK s : s = [r EXCEPT !.writable = TRUE]
  OBVIOUS
<1>4. /\ s \in ThreadRecord /\ s.pc = r.pc /\ s.page = r.page /\ s.victim = r.victim
  BY <1>3 DEF ThreadRecord
<1>5. thread' = [thread EXCEPT ![t] = s]
  BY <1>1, <1>2, <1>3
<1>6. Moves(t) /\ thread'[t] = s
  BY <1>1, <1>4, <1>5, OneMoves
<1>7. UNCHANGED <<pages, lru, maxPages, prepared, stored, clock, latest, fault>>
  BY <1>1 DEF cacheVars, storeVars, history
<1>8. PagesStill(t)
  BY <1>1, <1>2, <1>4, <1>6, <1>7, NoneChanges
<1>9. TypeOK'
  <2>1. page' = [x \in Pages |-> page'[x]]
    BY <1>1 DEF TypeOK
  <2>2. QED  BY <1>1, <1>6, <1>7, <1>8, <2>1, StillTyped DEF TypeOK
<1>10. TakesBuffer(t)
  BY <1>1, <1>2, <1>4, <1>6 DEF TakesBuffer
<1>11. QED  BY <1>1, <1>6, <1>7, <1>8, <1>9, <1>10, StillOne

LEMMA UpdateWrittenRegionSteps ==
  ASSUME PinsInv, NEW t \in Threads, UpdateWrittenRegion(t)
  PROVE  TypeOK' /\ Steps(t)
<1>1. /\ At(t, "holding") /\ TypeOK /\ Mine(t) # NoPage /\ thread[t].writable /\ MayWrite /\ DataThere
      /\ clock' = clock + 1 /\ latest' = [latest EXCEPT ![On(t).chunk] = clock + 1]
      /\ page' = [page EXCEPT ![Mine(t)] = MarkWritten([@ EXCEPT !.data[On(t).chunk] = clock + 1])]
      /\ UNCHANGED <<cacheVars, commitVars, mutex, asleep, thread, storeVars, fault>>
  BY DEF UpdateWrittenRegion, PinsInv, Place, PageStates
<1>2. Mine(t) \in Pages /\ On(t) \in PageRecord
  BY <1>1, MyPage
<1>3. PICK r \in PageRecord : r = On(t)
  BY <1>2
<1>4. clock + 1 \in Versions
  <2>1. PICK n : n = Cardinality({u \in Threads : At(u, "create")})
    OBVIOUS
  <2>2. n \in Nat
    <3>1. {u \in Threads : At(u, "create")} \in SUBSET Threads
      OBVIOUS
    <3>2. QED  BY <2>1, <3>1, FS_Subset, FS_CardinalityType
  <2>3. clock + n < MaxWrites
    BY <1>1, <2>1 DEF MayWrite
  <2>4. QED  BY <1>1, <2>2, <2>3 DEF TypeOK, Versions
<1>5. r.data \in Blocks
  BY <1>1, <1>3 DEF DataThere, PageRecord
<1>6. PICK d \in Blocks : d = [r.data EXCEPT ![r.chunk] = clock + 1]
  BY <1>4, <1>5 DEF Blocks
<1>7. PICK s : s = MarkWritten([r EXCEPT !.data[r.chunk] = clock + 1])
  OBVIOUS
<1>8. s \in PageRecord
  <2>1. PICK q \in PageRecord : q = [r EXCEPT !.data[r.chunk] = clock + 1]
    BY <1>6 DEF PageRecord
  <2>2. MarkWritten(q) \in PageRecord
    BY DEF MarkWritten, PageRecord
  <2>3. QED  BY <1>7, <2>1, <2>2
<1>9. page' = [page EXCEPT ![Mine(t)] = s]
  BY <1>1, <1>3, <1>7
<1>10. page' \in [Pages -> PageRecord \cup {NoPage}] /\ page'[Mine(t)] = s /\ Untouched({Mine(t)})
  <2>1. page \in [Pages -> PageRecord \cup {NoPage}]
    BY <1>1 DEF TypeOK
  <2>2. QED  BY <1>2, <1>8, <1>9, <2>1 DEF Untouched
<1>11. latest' \in [Chunks -> Versions]
  BY <1>1, <1>4 DEF TypeOK
<1>12. UNCHANGED <<pages, lru, maxPages, prepared, stored, fault, committing, cursor, writeLocked>>
  BY <1>1 DEF cacheVars, commitVars, storeVars
<1>13. TypeOK'
  BY <1>1, <1>4, <1>10, <1>11, <1>12 DEF TypeOK
<1>14. Writes(t)
  BY <1>1, <1>3, <1>7, <1>10, <1>12 DEF Writes
<1>15. QED  BY <1>13, <1>14 DEF Steps

-----------------------------------------------------------------------------
(* LimitPageListSize.                                                      *)

LEMMA LimitReachedSteps ==
  ASSUME PinsInv, NEW t \in Threads, thread[t].pc \in {"limit", "limitBlocked"}, LimitReached(t)
  PROVE  TypeOK' /\ Steps(t)
<1>1. PICK l : l = Resting(t)
  OBVIOUS
<1>2. /\ l \in Positions /\ l \in {"idle", "holding"} /\ GoTo(t, l) /\ mutex' = NoThread
      /\ UNCHANGED <<cacheVars, page, commitVars, asleep, storeVars, history>>
  BY <1>1 DEF LimitReached, Resting, Positions
<1>3. mutex' \in Threads \cup {NoThread} /\ asleep' \subseteq Threads
  BY <1>2 DEF PinsInv, TypeOK
<1>4. TypeOK' /\ Moves(t) /\ PagesStill(t) /\ Goes(t, thread[t].pc, l)
  BY <1>2, <1>3, GoesOn
<1>5. Limits(t)
  BY <1>1, <1>4 DEF Limits
<1>6. QED  BY <1>2, <1>4, <1>5, StillOne DEF commitVars, storeVars, history

LEMMA LimitBlockedSteps ==
  ASSUME PinsInv, NEW t \in Threads, At(t, "limit"), GoTo(t, "limitBlocked"), mutex' = NoThread,
         UNCHANGED <<cacheVars, page, commitVars, asleep, storeVars, history>>
  PROVE  TypeOK' /\ Steps(t)
<1>1. /\ "limitBlocked" \in Positions
      /\ mutex' \in Threads \cup {NoThread} /\ asleep' \subseteq Threads
  BY DEF PinsInv, TypeOK, Positions
<1>2. TypeOK' /\ Moves(t) /\ PagesStill(t) /\ Goes(t, "limit", "limitBlocked")
  BY <1>1, GoesOn
<1>3. Limits(t)
  BY <1>2 DEF Limits
<1>4. QED  BY <1>2, <1>3, StillOne DEF commitVars, storeVars, history

LEMMA EvictSteps ==
  ASSUME PinsInv, NEW t \in Threads, NEW v \in OnList, Evict(t, v), ~IsReadInProgress(v),
         \/ thread[t].pc \in {"limit", "limitBlocked"} /\ page[v].pins = 0
         \/ At(t, "limitWait") /\ thread[t].victim = v /\ page[v].pins <= 1
  PROVE  TypeOK' /\ Steps(t)
<1>1. TypeOK /\ Listed /\ OnList \subseteq Live /\ v \in Pages
  BY ListedPages DEF PinsInv, Live
<1>2. /\ fault' = (fault \/ CopiesIntoNothing(v))
      /\ stored' = WriteBack(CopyMargins(page, v), {v})
      /\ page' = [NoteSeen(CopyMargins(page, v), {v}) EXCEPT ![v] = NoPage]
      /\ pages' = ErasePage(page[v].chunk) /\ lru' = Erase(lru, v)
      /\ thread' = [thread EXCEPT ![t].pc = "limit", ![t].victim = NoPage] /\ mutex' = t
      /\ UNCHANGED <<maxPages, prepared, clock, latest, asleep, committing, cursor, writeLocked>>
  BY DEF Evict, commitVars
<1>3. PICK r \in ThreadRecord : r = thread[t]
  BY <1>1 DEF TypeOK
<1>4. PICK s : s = [r EXCEPT !.pc = "limit", !.victim = NoPage]
  OBVIOUS
<1>5. /\ s \in ThreadRecord /\ s.pc = "limit" /\ s.page = r.page
      /\ s.victim = NoPage /\ s.writable = r.writable
  BY <1>4 DEF ThreadRecord, Positions
<1>6. thread' = [thread EXCEPT ![t] = s]
  BY <1>2, <1>3, <1>4
<1>7. Moves(t) /\ thread'[t] = s
  BY <1>1, <1>5, <1>6, OneMoves
<1>8. page' \in [Pages -> PageRecord \cup {NoPage}]
  <2>1. PICK saved : saved = NoteSeen(CopyMargins(page, v), {v})
    OBVIOUS
  <2>2. saved = [q \in Pages |-> saved[q]]
    BY <2>1 DEF NoteSeen
  <2>3. ASSUME NEW q \in Pages PROVE saved[q] \in PageRecord \cup {NoPage}
    BY <2>1, EvictPages DEF Copied
  <2>4. QED  BY <1>2, <2>1, <2>2, <2>3
<1>9. stored' \in [Chunks -> Blocks]
  <2>1. PICK pg : pg = CopyMargins(page, v)
    OBVIOUS
  <2>2. pg[v] = page[v]
    BY <2>1, EvictPages
  <2>3. ASSUME NEW c \in Chunks PROVE stored'[c] \in Blocks
    <3>1. \/ \E p \in OnList : p \in {v} /\ pg[p].dirty /\ pg[p].chunk = c /\ stored'[c] = pg[p].data
          \/ stored'[c] = stored[c]
      BY <1>1, <1>2, <2>1, WrittenBack
    <3>2. page[v].dirty => page[v].data \in Blocks
      BY <1>1, WrittenData
    <3>3. QED  BY <1>1, <2>2, <3>1, <3>2 DEF TypeOK
  <2>4. stored' = [c \in Chunks |-> stored'[c]]
    BY <1>2 DEF WriteBack
  <2>5. QED  BY <2>3, <2>4
<1>10. pages' \in [Chunks -> Pages \cup {NoPage}]
  BY <1>1, <1>2 DEF ErasePage, TypeOK
<1>11. lru' \in Seq(Pages)
  BY <1>1, <1>2, EraseOne DEF TypeOK, Listed
<1>12. fault' \in BOOLEAN
  BY <1>2 DEF CopiesIntoNothing
<1>13. TypeOK'
  BY <1>1, <1>2, <1>7, <1>8, <1>9, <1>10, <1>11, <1>12 DEF TypeOK, Moves
<1>14. Evicts(t, v)
  BY <1>2, <1>3, <1>5, <1>7 DEF Evicts
<1>15. QED  BY <1>1, <1>13, <1>14 DEF Steps

\* The victim is pinned while its neighbour is being read.
LEMMA WaitSteps ==
  ASSUME PinsInv, NEW t \in Threads, thread[t].pc \in {"limit", "limitBlocked"},
         NEW v \in OnList, IsReadInProgress(v), EvictOrWait(t, v)
  PROVE  TypeOK' /\ Steps(t)
<1>1. TypeOK /\ Listed /\ Place(t) /\ OnList \subseteq Live /\ v \in Live /\ page[v] \in PageRecord
  BY ListedPages DEF PinsInv
<1>2. /\ page' = [page EXCEPT ![v] = Pin(@)]
      /\ thread' = [thread EXCEPT ![t].pc = "limitWait", ![t].victim = v]
      /\ mutex' = NoThread
      /\ UNCHANGED <<cacheVars, commitVars, asleep, storeVars, history>>
  BY DEF EvictOrWait
<1>3. PICK r \in ThreadRecord : r = thread[t]
  BY <1>1 DEF TypeOK
<1>4. PICK s : s = [r EXCEPT !.pc = "limitWait", !.victim = v]
  OBVIOUS
<1>5. /\ s \in ThreadRecord /\ s.pc = "limitWait" /\ s.page = r.page
      /\ s.victim = v /\ s.writable = r.writable
  BY <1>1, <1>4 DEF ThreadRecord, Positions, Live
<1>6. thread' = [thread EXCEPT ![t] = s]
  BY <1>2, <1>3, <1>4
<1>7. Moves(t) /\ thread'[t] = s
  BY <1>1, <1>5, <1>6, OneMoves
<1>8. PICK q : q = Pin(page[v])
  OBVIOUS
<1>9. Alike(page[v], q) /\ q.pins = page[v].pins + 1 /\ q.settingData = page[v].settingData
  BY <1>1, <1>8, Counters
<1>10. page' = [page EXCEPT ![v] = q] /\ page'[v] = q
  BY <1>1, <1>2, <1>8 DEF TypeOK, Live
<1>11. SameList
  BY <1>1, <1>2 DEF SameList, TypeOK, Listed, OnList, cacheVars
<1>12. thread[t].victim = NoPage
  BY <1>1 DEF Place
<1>13. CountedBy(t, v)
  <2>1. v # NoPage
    BY <1>1 DEF Live
  <2>2. /\ Holds(t, v) <=> Holds(t, v)'
        /\ ~Waits(t, v) /\ Waits(t, v)' /\ ~Sets(t, v) /\ ~Sets(t, v)'
    BY <1>3, <1>5, <1>7, <1>12, <2>1 DEF Holds, Waits, Sets
  <2>3. QED  BY <1>1, <1>9, <1>10, <2>2 DEF CountedBy, Bit, PageRecord
<1>14. PagesStill(t)
  BY <1>1, <1>3, <1>5, <1>7, <1>9, <1>10, <1>11, <1>12, <1>13, OneChanges
<1>15. UNCHANGED <<prepared, stored, clock, latest, fault, maxPages, committing, cursor, writeLocked>>
  BY <1>2 DEF cacheVars, commitVars, storeVars, history
<1>16. TypeOK'
  <2>1. page' = [x \in Pages |-> page'[x]]
    BY <1>1, <1>10 DEF TypeOK
  <2>2. QED  BY <1>1, <1>2, <1>7, <1>14, <1>15, <2>1, StillTyped DEF TypeOK
<1>17. Limits(t)
  <2>1. page[v].written
    BY DEF IsReadInProgress, IsCopyMarginNeeded
  <2>2. QED  BY <1>3, <1>5, <1>7, <2>1 DEF Limits
<1>18. QED  BY <1>7, <1>14, <1>15, <1>16, <1>17, StillOne

LEMMA PickVictimSteps ==
  ASSUME PinsInv, NEW t \in Threads, thread[t].pc \in {"limit", "limitBlocked"}, PickVictim(t)
  PROVE  TypeOK' /\ Steps(t)
<1> DEFINE evictable == {i \in DOMAIN lru : MayEvict(lru[i])}
<1>1. /\ DOMAIN lru = 1 .. Len(lru) /\ Len(lru) \in Nat
      /\ OnList = {lru[i] : i \in 1 .. Len(lru)}
  BY ListMembers DEF PinsInv, TypeOK, OnList
<1>2. CASE evictable = {}
  BY <1>2, LimitReachedSteps DEF PickVictim
<1>3. CASE evictable # {}
  <2>1. evictable \in SUBSET (1 .. Len(lru))
    BY <1>1
  <2>2. Max(evictable) \in evictable
    BY <1>1, <1>3, <2>1, EndPositions
  <2>3. PICK v : v = lru[Max(evictable)]
    OBVIOUS
  <2>4. v \in OnList /\ page[v].pins = 0 /\ EvictOrWait(t, v)
    BY <1>1, <1>3, <2>2, <2>3 DEF PickVictim, MayEvict
  <2>5. CASE IsReadInProgress(v)
    BY <2>4, <2>5, WaitSteps
  <2>6. CASE ~IsReadInProgress(v)
    BY <2>4, <2>6, EvictSteps DEF EvictOrWait
  <2>7. QED  BY <2>5, <2>6
<1>4. QED  BY <1>2, <1>3

LEMMA LimitPageListSizeSteps ==
  ASSUME PinsInv, NEW t \in Threads, LimitPageListSize(t)
  PROVE  TypeOK' /\ Steps(t)
<1>1. At(t, "limit")
  BY DEF LimitPageListSize
<1>2. PagesListed \in Nat /\ maxPages \in Nat
  <2>1. {c \in Chunks : pages[c] # NoPage} \in SUBSET Chunks
    OBVIOUS
  <2>2. IsFiniteSet({c \in Chunks : pages[c] # NoPage})
    BY <2>1, FS_Subset
  <2>3. QED  BY <2>2, FS_CardinalityType DEF PagesListed, PinsInv, TypeOK
<1>3. CASE PagesListed <= maxPages
  <2>1. LimitReached(t)
    BY <1>2, <1>3 DEF LimitPageListSize
  <2>2. QED  BY <1>1, <2>1, LimitReachedSteps
<1>4. CASE PagesListed > maxPages /\ ~CommitBlocks
  <2>1. PickVictim(t)
    BY <1>2, <1>4 DEF LimitPageListSize
  <2>2. QED  BY <1>1, <2>1, PickVictimSteps
<1>5. CASE PagesListed > maxPages /\ CommitBlocks
  <2>1. /\ GoTo(t, "limitBlocked") /\ mutex' = NoThread
        /\ UNCHANGED <<cacheVars, page, commitVars, asleep, storeVars, history>>
    BY <1>2, <1>5 DEF LimitPageListSize
  <2>2. QED  BY <1>1, <2>1, LimitBlockedSteps
<1>6. QED  BY <1>2, <1>3, <1>4, <1>5

LEMMA LimitAfterReadSteps ==
  ASSUME PinsInv, NEW t \in Threads, LimitAfterRead(t)
  PROVE  TypeOK' /\ Steps(t)
<1>1. /\ At(t, "limitWait") /\ TypeOK /\ Listed /\ thread[t].victim # NoPage
      /\ thread[t].victim \in OnList
  BY DEF LimitAfterRead, PinsInv, Place
<1>2. PICK v \in OnList : v = thread[t].victim
  BY <1>1
<1>3. v \in Live /\ page[v] \in PageRecord /\ v # NoPage
  BY <1>1, <1>2, ListedPages DEF Live
<1>4. CASE page[v].pins > 1
  <2>1. /\ page' = [page EXCEPT ![v] = UnPin(page[v])]
        /\ thread' = [thread EXCEPT ![t].pc = "limit", ![t].victim = NoPage] /\ mutex' = t
        /\ UNCHANGED <<cacheVars, commitVars, asleep, storeVars, history>>
    BY <1>2, <1>4 DEF LimitAfterRead
  <2>2. PICK r \in ThreadRecord : r = thread[t]
    BY <1>1 DEF TypeOK
  <2>3. PICK s : s = [r EXCEPT !.pc = "limit", !.victim = NoPage]
    OBVIOUS
  <2>4. /\ s \in ThreadRecord /\ s.pc = "limit" /\ s.page = r.page
        /\ s.victim = NoPage /\ s.writable = r.writable
    BY <2>3 DEF ThreadRecord, Positions
  <2>5. thread' = [thread EXCEPT ![t] = s]
    BY <2>1, <2>2, <2>3
  <2>6. Moves(t) /\ thread'[t] = s
    BY <1>1, <2>4, <2>5, OneMoves
  <2>7. PICK q : q = UnPin(page[v])
    OBVIOUS
  <2>8. Alike(page[v], q) /\ q.pins = page[v].pins - 1 /\ q.settingData = page[v].settingData
    BY <1>3, <1>4, <2>7, Counters DEF PageRecord
  <2>9. page' = [page EXCEPT ![v] = q] /\ page'[v] = q
    BY <1>1, <1>3, <2>1, <2>7 DEF TypeOK, Live
  <2>10. SameList
    BY <1>1, <2>1 DEF SameList, TypeOK, Listed, OnList, cacheVars
  <2>11. CountedBy(t, v)
    <3>1. /\ Holds(t, v) <=> Holds(t, v)'
          /\ Waits(t, v) /\ ~Waits(t, v)' /\ ~Sets(t, v) /\ ~Sets(t, v)'
      BY <1>1, <1>2, <1>3, <2>2, <2>4, <2>6 DEF Holds, Waits, Sets
    <3>2. QED  BY <1>3, <1>4, <2>8, <2>9, <3>1 DEF CountedBy, Bit, PageRecord
  <2>12. PagesStill(t)
    BY <1>1, <1>2, <1>3, <2>2, <2>4, <2>6, <2>8, <2>9, <2>10, <2>11, OneChanges
  <2>13. UNCHANGED <<prepared, stored, clock, latest, fault, maxPages, committing, cursor, writeLocked>>
    BY <2>1 DEF cacheVars, commitVars, storeVars, history
  <2>14. TypeOK'
    <3>1. page' = [x \in Pages |-> page'[x]]
      BY <1>1, <2>9 DEF TypeOK
    <3>2. QED  BY <1>1, <2>1, <2>6, <2>12, <2>13, <3>1, StillTyped DEF TypeOK
  <2>15. Limits(t)
    BY <1>1, <1>2, <1>4, <2>2, <2>4, <2>6 DEF Limits
  <2>16. QED  BY <2>6, <2>12, <2>13, <2>14, <2>15, StillOne
<1>5. CASE ~(page[v].pins > 1)
  <2>1. ~IsReadInProgress(v) /\ Evict(t, v) /\ page[v].pins <= 1
    BY <1>2, <1>3, <1>5 DEF LimitAfterRead, PageRecord
  <2>2. QED  BY <1>1, <1>2, <2>1, EvictSteps
<1>6. QED  BY <1>4, <1>5

-----------------------------------------------------------------------------
(* Commit.                                                                 *)

LEMMA WalkListSteps ==
  ASSUME PinsInv, NEW t \in Threads, NEW rest \in SUBSET DOMAIN lru,
         thread[t].pc \in {Resting(t), "commitWait"}, Committers # {},
         NEW r \in ThreadRecord, r.page = Mine(t), r.victim = thread[t].victim,
         r.writable = thread[t].writable, r.got = thread[t].got,
         WalkList(t, rest, [thread EXCEPT ![t] = r]),
         UNCHANGED <<cacheVars, page, writeLocked, asleep, storeVars, history>>,
         committing' \in BOOLEAN, committing => committing'
  PROVE  TypeOK' /\ Steps(t)
<1> DEFINE unread == {i \in rest : IsUnread(lru[i])}
<1>1. /\ TypeOK /\ DOMAIN lru = 1 .. Len(lru) /\ Len(lru) \in Nat
      /\ \A i \in 1 .. Len(lru) : lru[i] \in Pages
  BY ListMembers DEF PinsInv, TypeOK
<1>2. PICK l : l = IF unread = {} THEN "commitFlush" ELSE "commitWait"
  OBVIOUS
<1>3. PICK s : s = [r EXCEPT !.pc = l]
  OBVIOUS
<1>4. /\ s \in ThreadRecord /\ s.pc = l /\ s.page = r.page
      /\ s.victim = r.victim /\ s.writable = r.writable /\ s.got = r.got
  BY <1>2, <1>3 DEF ThreadRecord, Positions
<1>5. /\ thread' = [[thread EXCEPT ![t] = r] EXCEPT ![t].pc = l]
      /\ mutex' \in Threads \cup {NoThread}
      /\ cursor' = IF unread = {} THEN NoPage ELSE lru[Min(unread)]
  BY <1>2 DEF WalkList
<1>6. thread' = [thread EXCEPT ![t] = s]
  BY <1>1, <1>3, <1>5 DEF TypeOK
<1>7. Moves(t) /\ thread'[t] = s
  BY <1>1, <1>4, <1>6, OneMoves
<1>8. cursor' \in Pages \cup {NoPage}
  <2>1. unread \in SUBSET (1 .. Len(lru))
    BY <1>1
  <2>2. unread # {} => Min(unread) \in unread
    BY <1>1, <2>1, EndPositions
  <2>3. QED  BY <1>1, <1>5, <2>1, <2>2
<1>9. thread[t].pc \in {"idle", "holding", "commitWait"} /\ s.pc \in {"commitWait", "commitFlush"}
  BY <1>2, <1>4 DEF Resting
<1>10. UNCHANGED <<pages, lru, maxPages, prepared, stored, clock, latest, fault>>
  BY DEF cacheVars, storeVars, history
<1>11. PagesStill(t)
  BY <1>4, <1>7, <1>9, <1>10, NoneChanges
<1>12. TypeOK'
  <2>1. page' = [x \in Pages |-> page'[x]]
    BY <1>1 DEF TypeOK
  <2>2. QED  BY <1>1, <1>5, <1>7, <1>8, <1>10, <1>11, <2>1, StillTyped DEF TypeOK
<1>13. Commits(t)
  BY <1>4, <1>7, <1>9 DEF Commits, Keeps
<1>14. QED  BY <1>7, <1>10, <1>11, <1>12, <1>13, StillOne

LEMMA CommitSteps ==
  ASSUME PinsInv, NEW t \in Threads, Commit(t)
  PROVE  TypeOK' /\ Steps(t)
<1>1. /\ t \in Committers /\ At(t, Resting(t)) /\ thread[t].calls < MaxCalls /\ TypeOK
      /\ committing' = TRUE /\ WalkList(t, DOMAIN lru, [thread EXCEPT ![t].calls = @ + 1])
      /\ UNCHANGED <<cacheVars, page, writeLocked, asleep, storeVars, history>>
  BY DEF Commit, PinsInv
<1>2. PICK r \in ThreadRecord : r = thread[t]
  BY <1>1 DEF TypeOK
<1>3. PICK s : s = [r EXCEPT !.calls = @ + 1]
  OBVIOUS
<1>4. /\ s \in ThreadRecord /\ s.page = r.page
      /\ s.victim = r.victim /\ s.writable = r.writable /\ s.got = r.got
  <2>1. r.calls + 1 \in 0 .. MaxCalls
    BY <1>1, <1>2 DEF ThreadRecord
  <2>2. QED  BY <1>3, <2>1 DEF ThreadRecord
<1>5. WalkList(t, DOMAIN lru, [thread EXCEPT ![t] = s])
  BY <1>1, <1>2, <1>3
<1>6. QED  BY <1>1, <1>2, <1>4, <1>5, WalkListSteps

LEMMA CommitWalkSteps ==
  ASSUME PinsInv, NEW t \in Threads, CommitWalk(t)
  PROVE  TypeOK' /\ Steps(t)
<1>1. PICK rest \in SUBSET DOMAIN lru : WalkList(t, rest, thread)
  BY DEF CommitWalk
<1>2. /\ At(t, "commitWait") /\ TypeOK /\ Committers # {}
      /\ UNCHANGED <<cacheVars, page, committing, writeLocked, asleep, storeVars, history>>
  BY DEF CommitWalk, PinsInv, Place
<1>3. PICK r \in ThreadRecord : r = thread[t]
  BY <1>2 DEF TypeOK
<1>4. [thread EXCEPT ![t] = r] = thread
  BY <1>2, <1>3 DEF TypeOK
<1>5. WalkList(t, rest, [thread EXCEPT ![t] = r])
  BY <1>1, <1>4
<1>6. committing' \in BOOLEAN /\ (committing => committing')
  BY <1>2 DEF TypeOK
<1>7. QED  BY <1>1, <1>2, <1>3, <1>5, <1>6, WalkListSteps

LEMMA CommitFlushSteps ==
  ASSUME PinsInv, NEW t \in Threads, CommitFlush(t)
  PROVE  TypeOK' /\ Steps(t)
<1>1. PICK l : l = Resting(t)
  OBVIOUS
<1>2. /\ At(t, "commitFlush") /\ TypeOK /\ GoTo(t, l)
      /\ fault' = (fault \/ \E w \in OnList : CopiesIntoNothing(w))
      /\ stored' = WriteBack(CopyAllMargins(page), OnList)
      /\ page' = [p \in Pages |->
                    IF p \in OnList /\ CopyAllMargins(page)[p].dirty
                    THEN [NoteSeen(CopyAllMargins(page), OnList)[p] EXCEPT !.dirty = FALSE, !.written = FALSE]
                    ELSE NoteSeen(CopyAllMargins(page), OnList)[p]]
      /\ committing' = FALSE /\ writeLocked' = FALSE /\ mutex' = NoThread
      /\ UNCHANGED <<pages, lru, maxPages, cursor, asleep, prepared, clock, latest>>
  BY <1>1 DEF CommitFlush, EndCommit, PinsInv, cacheVars
<1>3. Moves(t) /\ Keeps(t) /\ thread'[t].pc = l
  <2>1. l \in Positions
    BY <1>1 DEF Resting, Positions
  <2>2. QED  BY <1>2, <2>1, ThreadGoes
<1>4. Flushes(t)
  BY <1>1, <1>2, <1>3 DEF Flushes, Goes
<1>5. page' \in [Pages -> PageRecord \cup {NoPage}]
  <2>1. ASSUME NEW q \in Pages PROVE page'[q] \in PageRecord \cup {NoPage}
    BY <1>4, FlushPages DEF Saved
  <2>2. page' = [q \in Pages |-> page'[q]]
    BY <1>2
  <2>3. QED  BY <2>1, <2>2
<1>6. stored' \in [Chunks -> Blocks]
  <2>1. PICK pg : pg = CopyAllMargins(page)
    OBVIOUS
  <2>2. ASSUME NEW p \in OnList, pg[p].dirty PROVE pg[p].data \in Blocks
    <3>1. p \in Live /\ Copied(page[p], pg[p])
      BY <1>2, <2>1, AllMarginCopies, ListedPages DEF PinsInv
    <3>2. pg[p].data # NoData
      <4>1. CASE page[p].dirty
        BY <3>1, <4>1, WrittenData DEF Copied
      <4>2. CASE ~page[p].dirty
        BY <2>2, <3>1, <4>2 DEF Copied
      <4>3. QED  BY <4>1, <4>2
    <3>3. QED  BY <3>1, <3>2 DEF Copied, PageRecord
  <2>3. ASSUME NEW c \in Chunks PROVE stored'[c] \in Blocks
    <3>1. \/ \E p \in OnList : p \in OnList /\ pg[p].dirty /\ pg[p].chunk = c /\ stored'[c] = pg[p].data
          \/ stored'[c] = stored[c]
      <4>1. stored' = WriteBack(pg, OnList) /\ TypeOK
        BY <1>2, <2>1
      <4>2. QED  BY <4>1, WrittenBack
    <3>2. stored[c] \in Blocks
      BY <1>2 DEF TypeOK
    <3>3. QED  BY <2>2, <3>1, <3>2
  <2>4. stored' = [c \in Chunks |-> stored'[c]]
    BY <1>2 DEF WriteBack
  <2>5. QED  BY <2>3, <2>4
<1>7. fault' \in BOOLEAN
  BY <1>2 DEF CopiesIntoNothing
<1>8. TypeOK'
  BY <1>2, <1>3, <1>5, <1>6, <1>7 DEF TypeOK, Moves
<1>9. QED  BY <1>4, <1>8 DEF Steps

-----------------------------------------------------------------------------
(* Every action is a step.                                                 *)

LEMMA NextSteps ==
  ASSUME PinsInv, NEW t \in Threads, Continue(t) \/ Call(t)
  PROVE  TypeOK' /\ Steps(t)
<1>1. CASE Continue(t)
  BY <1>1, PrepareAfterCommitSteps, StartReadingSteps, EnterSettingDataSteps, FetchChunkSteps,
     PublishPageSteps, LeavesSteps, AwaitDataSteps, DeleteSteps, FillSteps,
     LimitPageListSizeSteps, LimitAfterReadSteps, PickVictimSteps, CommitWalkSteps, CommitFlushSteps
     DEF Continue, LimitAfterCommit
<1>2. CASE Call(t)
  BY <1>2, PrepareReadPageSteps, CreatePageSteps, SetMaxPagesSteps, CancelSteps,
     GetWritableBufferSteps, UpdateWrittenRegionSteps, ReleaseSteps, CommitSteps DEF Call
<1>3. QED  BY <1>1, <1>2

LEMMA NextPins ==
  ASSUME NoDuplicates, PinsInv, TypeOK', NEW t \in Threads, Steps(t)
  PROVE  PinsInv'
BY StillInv, FetchInv, PublishInv, InsertInv, TakeOutInv, DeleteInv, FillInv, WriteInv,
   EvictInv, FlushInv DEF Steps

LEMMA InitPins == Init => PinsInv
<1>1. SUFFICES ASSUME Init PROVE PinsInv
  OBVIOUS
<1>2. TypeOK
  <2>1. Unwritten \in Blocks /\ 0 \in Versions
    BY DEF Unwritten, Blocks, Versions
  <2>2. (CHOOSE c \in Chunks : TRUE) \in Chunks
    OBVIOUS
  <2>3. PICK r : r = [pc |-> "idle", page |-> NoPage, writable |-> FALSE,
                      chunk |-> CHOOSE c \in Chunks : TRUE,
                      got |-> NoData, victim |-> NoPage, calls |-> 0]
    OBVIOUS
  <2>4. r \in ThreadRecord
    BY <2>2, <2>3 DEF ThreadRecord, Positions
  <2>5. thread \in [Threads -> ThreadRecord]
    BY <1>1, <2>3, <2>4 DEF Init
  <2>6. lru \in Seq(Pages)
    BY <1>1 DEF Init
  <2>7. /\ stored \in [Chunks -> Blocks] /\ clock \in Versions /\ latest \in [Chunks -> Versions]
        /\ prepared \in [Chunks -> Nat]
    BY <1>1, <2>1 DEF Init
  <2>8. /\ pages \in [Chunks -> Pages \cup {NoPage}] /\ page \in [Pages -> PageRecord \cup {NoPage}]
        /\ maxPages \in Nat /\ committing \in BOOLEAN /\ cursor \in Pages \cup {NoPage}
        /\ writeLocked \in BOOLEAN /\ mutex \in Threads \cup {NoThread} /\ asleep \subseteq Threads
        /\ fault \in BOOLEAN
    BY <1>1 DEF Init
  <2>9. QED  BY <2>5, <2>6, <2>7, <2>8 DEF TypeOK
<1>3. Listed
  BY <1>1 DEF Init, Listed, Distinct, OnList, ToSet
<1>4. \A t \in Threads : Place(t)
  BY <1>1 DEF Init, Place, PageStates
<1>5. OneCanceller /\ Counted
  BY <1>1 DEF Init, OneCanceller, Counted, Live
<1>6. WritesBounded
  <2>1. {t \in Threads : At(t, "create")} = {}
    BY <1>1 DEF Init
  <2>2. Cardinality({t \in Threads : At(t, "create")}) = 0
    BY <2>1, FS_EmptySet
  <2>3. QED  BY <1>1, <2>2 DEF Init, WritesBounded
<1>7. CommitsOnly /\ DataThere
  BY <1>1 DEF Init, CommitsOnly, DataThere, Live
<1>8. QED  BY <1>2, <1>3, <1>4, <1>5, <1>6, <1>7 DEF PinsInv

LEMMA NextInv ==
  ASSUME NoDuplicates, PinsInv, [Next]_vars
  PROVE  PinsInv'
<1>1. CASE Next
  <2>1. PICK t \in Threads : Continue(t) \/ Call(t)
    BY <1>1 DEF Next
  <2>2. TypeOK' /\ Steps(t)
    BY <2>1, NextSteps
  <2>3. QED  BY <2>2, NextPins
<1>2. CASE UNCHANGED vars
  <2>1. UNCHANGED <<pages, lru, page, maxPages, committing, cursor, writeLocked, mutex, asleep,
                    thread, prepared, stored, clock, latest, fault>>
    BY <1>2 DEF vars, cacheVars, commitVars, storeVars, history
  <2>2. TypeOK' /\ Listed'
    BY <2>1 DEF PinsInv, TypeOK, Listed, OnList
  <2>3. \A t \in Threads : Place(t)'
    BY <2>1 DEF PinsInv, Place, OnList
  <2>4. OneCanceller' /\ WritesBounded' /\ CommitsOnly'
    BY <2>1 DEF PinsInv, OneCanceller, WritesBounded, CommitsOnly
  <2>5. Counted'
    <3>1. \A p : Holders(p)' = Holders(p) /\ Victims(p)' = Victims(p) /\ Setters(p)' = Setters(p)
      BY <2>1 DEF Holders, Victims, Setters
    <3>2. QED  BY <2>1, <3>1 DEF PinsInv, Counted, Live
  <2>6. DataThere'
    BY <2>1 DEF PinsInv, DataThere, Live
  <2>7. QED  BY <2>2, <2>3, <2>4, <2>5, <2>6 DEF PinsInv
<1>3. QED  BY <1>1, <1>2

\* The inductive invariant.
THEOREM PinsInvariance ==
  ASSUME NoDuplicates
  PROVE  Spec => []PinsInv
<1>1. Init => PinsInv
  BY InitPins
<1>2. PinsInv /\ [Next]_vars => PinsInv'
  BY NextInv
<1>3. QED  BY <1>1, <1>2, PTL DEF Spec

\* Types: no counter of a page or of the store goes below zero.
THEOREM TypeCorrect ==
  ASSUME NoDuplicates
  PROVE  Spec => []TypeOK
<1>1. PinsInv => TypeOK
  BY DEF PinsInv
<1>2. QED  BY <1>1, PinsInvariance, PTL

\* The pins of a page are the threads that use it, and nobody uses a page that
\* is deleted (CancelPreparedReadPage, LimitPageListSize, VolumeDataPageImpl::Pin).
THEOREM ExactPins ==
  ASSUME NoDuplicates
  PROVE  Spec => []PinsExact
<1>1. PinsInv => PinsExact
  <2>1. SUFFICES ASSUME PinsInv PROVE PinsExact
    OBVIOUS
  <2>2. \A p \in Live : page[p].pins = Cardinality(Holders(p)) + Cardinality(Victims(p))
    BY <2>1 DEF PinsInv, Counted
  <2>3. \A t \in Threads : {Mine(t), thread[t].victim} \ {NoPage} \subseteq Live
    BY <2>1, PagesAlive
  <2>4. QED  BY <2>2, <2>3 DEF PinsExact, Holders, Victims
<1>2. QED  BY <1>1, PinsInvariance, PTL

\* m_pages and m_pages_lru hold the same pages, one for each chunk.
THEOREM OnePage ==
  ASSUME NoDuplicates
  PROVE  Spec => []OnePagePerChunk
<1>1. PinsInv => OnePagePerChunk
  <2>1. SUFFICES ASSUME PinsInv PROVE OnePagePerChunk
    OBVIOUS
  <2> DEFINE C == {c \in Chunks : pages[c] # NoPage}
             f == [p \in OnList |-> page[p].chunk]
  <2>2. TypeOK /\ Listed /\ OnList \subseteq Live /\ \A p \in OnList : page[p] \in PageRecord
    BY <2>1, ListedPages DEF PinsInv
  <2>3. IsFiniteSet(OnList) /\ Cardinality(OnList) = Len(lru)
    BY <2>2, DistinctCount DEF TypeOK, Listed, OnList
  <2>4. f \in Bijection(OnList, C)
    <3>1. f \in [OnList -> C]
      BY <2>2 DEF Listed, PageRecord, Live
    <3>2. f \in Injection(OnList, C)
      BY <2>2, <3>1 DEF Listed, Injection, IsInjective
    <3>3. f \in Surjection(OnList, C)
      BY <2>2, <3>1 DEF Listed, Surjection
    <3>4. QED  BY <3>2, <3>3 DEF Bijection
  <2>5. Cardinality(C) = Cardinality(OnList)
    <3>1. ExistsBijection(OnList, C)
      BY <2>4 DEF ExistsBijection
    <3>2. QED  BY <2>3, <3>1, FS_Bijection
  <2>6. Len(lru) = PagesListed
    BY <2>3, <2>5 DEF PagesListed
  <2>7. QED  BY <2>2, <2>6 DEF OnePagePerChunk, Listed
<1>2. QED  BY <1>1, PinsInvariance, PTL

-----------------------------------------------------------------------------
(* What a step does to a thread and to a page.                             *)

LEMMA ThreadSteps ==
  ASSUME PinsInv, NEW t \in Threads, Steps(t)
  PROVE  /\ Moves(t)
         /\ thread'[t].pc = "fetch" =>
              At(t, "enter") /\ On(t).settingData = 0 /\ thread'[t].page = Mine(t)
         /\ thread'[t].pc = "publish" => Fetches(t)
         /\ thread'[t].pc \in {"leave", "await"} =>
              /\ thread[t].pc \in {"enter", "leave", "await"} /\ thread'[t].page = Mine(t)
              /\ At(t, "enter") => On(t).settingData # 0
         /\ thread'[t].pc = "create" => \E p \in Pages, c \in Chunks : Inserts(t, p, c)
         /\ thread'[t].pc = "cancel" => TakesOut(t)
         /\ At(t, "fetch") => Fetches(t) \/ ~On(t).requestPrepared
         /\ At(t, "publish") => Publishes(t)
         /\ At(t, "create") => Fills(t)
<1>1. TypeOK /\ Place(t)
  BY DEF PinsInv
<1>2. CASE Still(t)
  <2>1. CASE Begins(t)
    BY <1>2, <2>1 DEF Still, Begins, Goes
  <2>2. CASE Reads(t)
    BY <1>2, <2>2 DEF Still, Reads, Goes, Keeps
  <2>3. CASE GivesBack(t)
    BY <1>2, <2>3 DEF Still, GivesBack
  <2>4. CASE TakesBuffer(t)
    BY <1>2, <2>4 DEF Still, TakesBuffer
  <2>5. CASE Limits(t)
    BY <1>2, <2>5 DEF Still, Limits, Goes, Resting
  <2>6. CASE Commits(t)
    BY <1>2, <2>6 DEF Still, Commits, Resting
  <2>7. QED  BY <1>2, <2>1, <2>2, <2>3, <2>4, <2>5, <2>6 DEF Still
<1>3. CASE Fetches(t)
  BY <1>3 DEF Fetches
<1>4. CASE Publishes(t)
  BY <1>4 DEF Publishes
<1>5. CASE \E p \in Pages, c \in Chunks : Inserts(t, p, c)
  BY <1>5 DEF Inserts
<1>6. CASE TakesOut(t)
  BY <1>6 DEF TakesOut
<1>7. CASE Deletes(t)
  BY <1>7 DEF Deletes
<1>8. CASE Fills(t)
  BY <1>8 DEF Fills, Goes
<1>9. CASE Writes(t)
  BY <1>1, <1>9 DEF Writes, Moves, TypeOK
<1>10. CASE \E v \in Pages : Evicts(t, v)
  BY <1>10 DEF Evicts
<1>11. CASE Flushes(t)
  BY <1>11 DEF Flushes, Goes, Resting
<1>12. QED  BY <1>2, <1>3, <1>4, <1>5, <1>6, <1>7, <1>8, <1>9, <1>10, <1>11 DEF Steps

\* A step leaves a page its chunk; it gives it data or notes that it was read
\* only when t publishes or fills it.
Kept(r, s) ==
  s.chunk = r.chunk /\ s.requestPrepared = r.requestPrepared /\ (s.data = NoData <=> r.data = NoData)

LEMMA UnPinKept ==
  ASSUME NEW r \in PageRecord
  PROVE  Kept(r, UnPin(r))
<1>1. PICK s : s = [r EXCEPT !.pins = @ - 1]
  OBVIOUS
<1>2. s.chunk = r.chunk /\ s.requestPrepared = r.requestPrepared /\ s.data = r.data
  BY <1>1 DEF PageRecord
<1>3. QED  BY <1>1, <1>2 DEF Kept, UnPin

\* The page that t creates or writes.
LEMMA FilledPage ==
  ASSUME PinsInv, TypeOK', NEW t \in Threads, Fills(t)
  PROVE  /\ page'[Mine(t)].chunk = On(t).chunk
         /\ page'[Mine(t)].requestPrepared = On(t).requestPrepared
         /\ page'[Mine(t)].data = [Unwritten EXCEPT ![On(t).chunk] = clock + 1]
         /\ page'[Mine(t)].data \in Blocks /\ page'[Mine(t)].dirty
         /\ page'[Mine(t)].seen = On(t).seen /\ page'[Mine(t)].written = On(t).written
<1>1. TypeOK /\ Mine(t) # NoPage
  BY DEF PinsInv, Place, PageStates, Fills, Goes
<1>2. PICK r \in PageRecord : r = On(t)
  BY <1>1, MyPage
<1>3. PICK s : s = page'[Mine(t)]
  OBVIOUS
<1>4. s = [r EXCEPT !.data = [Unwritten EXCEPT ![r.chunk] = clock + 1], !.dirty = TRUE]
  BY <1>2, <1>3 DEF Fills
<1>5. /\ s.chunk = r.chunk /\ s.requestPrepared = r.requestPrepared /\ s.dirty
      /\ s.seen = r.seen /\ s.written = r.written
      /\ s.data = [Unwritten EXCEPT ![r.chunk] = clock + 1]
  BY <1>4 DEF PageRecord
<1>6. [Unwritten EXCEPT ![r.chunk] = clock + 1] \in Blocks
  <2>1. clock' \in Versions /\ clock' = clock + 1
    BY DEF TypeOK, Fills
  <2>2. Unwritten \in Blocks
    BY DEF Unwritten, Blocks, Versions
  <2>3. QED  BY <2>1, <2>2 DEF Blocks
<1>7. QED  BY <1>2, <1>3, <1>5, <1>6

LEMMA WrittenPage ==
  ASSUME PinsInv, TypeOK', NEW t \in Threads, Writes(t)
  PROVE  /\ Mine(t) \in Pages /\ Mine(t) # NoPage /\ On(t).data \in Blocks
         /\ page'[Mine(t)].chunk = On(t).chunk
         /\ page'[Mine(t)].requestPrepared = On(t).requestPrepared
         /\ page'[Mine(t)].data = [On(t).data EXCEPT ![On(t).chunk] = clock + 1]
         /\ page'[Mine(t)].data \in Blocks /\ page'[Mine(t)].dirty
         /\ page'[Mine(t)].seen = On(t).seen
<1>1. TypeOK /\ DataThere /\ Mine(t) # NoPage
  BY DEF PinsInv, Place, PageStates, Writes
<1>2. Mine(t) \in Pages /\ On(t) \in PageRecord
  BY <1>1, MyPage
<1>3. PICK r \in PageRecord : r = On(t)
  BY <1>2
<1>4. PICK s : s = page'[Mine(t)]
  OBVIOUS
<1>5. r.data \in Blocks /\ clock + 1 \in Versions
  <2>1. clock' \in Versions /\ clock' = clock + 1
    BY DEF TypeOK, Writes
  <2>2. r.data # NoData
    BY <1>1, <1>3 DEF DataThere, Writes
  <2>3. QED  BY <2>1, <2>2 DEF PageRecord
<1>6. PICK d \in Blocks : d = [r.data EXCEPT ![r.chunk] = clock + 1]
  BY <1>5 DEF Blocks
<1>7. PICK q \in PageRecord : q = [r EXCEPT !.data[r.chunk] = clock + 1]
  BY <1>6 DEF PageRecord
<1>8. q.data = d /\ q.chunk = r.chunk /\ q.requestPrepared = r.requestPrepared /\ q.seen = r.seen
  BY <1>6, <1>7 DEF PageRecord
<1>9. s = MarkWritten(q)
  BY <1>3, <1>4, <1>7 DEF Writes
<1>10. /\ s.data = q.data /\ s.chunk = q.chunk /\ s.requestPrepared = q.requestPrepared
       /\ s.seen = q.seen /\ s.dirty
  BY <1>9 DEF MarkWritten, PageRecord
<1>11. QED  BY <1>1, <1>2, <1>3, <1>4, <1>5, <1>6, <1>8, <1>10

LEMMA PageSteps ==
  ASSUME PinsInv, TypeOK', NEW t \in Threads, Steps(t), NEW q \in Pages, page'[q] # NoPage
  PROVE  \/ page[q] = NoPage /\ \E c \in Chunks : Inserts(t, q, c)
         \/ page[q] # NoPage /\ Kept(page[q], page'[q])
         \/ page[q] # NoPage /\ q = Mine(t) /\ (Publishes(t) \/ Fills(t))
<1>1. TypeOK /\ Place(t) /\ OnList \subseteq Live
  BY ListedPages DEF PinsInv
<1>2. CASE Still(t)
  BY <1>2 DEF Still, Alike, Kept
<1>3. CASE Fetches(t)
  BY <1>3 DEF Fetches, Kept
<1>4. CASE Publishes(t)
  <2>1. Mine(t) # NoPage
    BY <1>1, <1>4 DEF Publishes, Place, PageStates
  <2>2. On(t) # NoPage
    BY <2>1, MyPage
  <2>3. CASE q = Mine(t)
    BY <1>4, <2>2, <2>3
  <2>4. CASE q # Mine(t)
    BY <1>4, <2>4 DEF Publishes, Untouched, Kept
  <2>5. QED  BY <2>3, <2>4
<1>5. CASE \E p \in Pages, c \in Chunks : Inserts(t, p, c)
  <2>1. PICK p \in Pages, c \in Chunks : Inserts(t, p, c)
    BY <1>5
  <2>2. page[p] = NoPage /\ Untouched({p})
    BY <2>1 DEF Inserts
  <2>3. CASE q = p
    BY <2>1, <2>2, <2>3
  <2>4. CASE q # p
    BY <2>2, <2>4 DEF Untouched, Kept
  <2>5. QED  BY <2>3, <2>4
<1>6. CASE TakesOut(t)
  <2>1. Mine(t) # NoPage
    BY <1>1, <1>6 DEF TakesOut, Place, PageStates
  <2>2. On(t) # NoPage /\ On(t) \in PageRecord
    BY <2>1, MyPage
  <2>3. CASE q = Mine(t)
    <3>1. Kept(On(t), UnPin(On(t)))
      BY <2>2, UnPinKept
    <3>2. QED  BY <1>6, <2>2, <2>3, <3>1 DEF TakesOut
  <2>4. CASE q # Mine(t)
    BY <1>6, <2>4 DEF TakesOut, Untouched, Kept
  <2>5. QED  BY <2>3, <2>4
<1>7. CASE Deletes(t)
  BY <1>7 DEF Deletes, Untouched, Kept
<1>8. CASE Fills(t)
  <2>1. Mine(t) # NoPage
    BY <1>1, <1>8 DEF Fills, Goes, Place, PageStates
  <2>2. On(t) # NoPage
    BY <2>1, MyPage
  <2>3. CASE q = Mine(t)
    BY <1>8, <2>2, <2>3
  <2>4. CASE q # Mine(t)
    BY <1>8, <2>4 DEF Fills, Untouched, Kept
  <2>5. QED  BY <2>3, <2>4
<1>9. CASE Writes(t)
  <2>1. Mine(t) # NoPage
    BY <1>9, WrittenPage
  <2>2. On(t) # NoPage
    BY <2>1, MyPage
  <2>3. CASE q = Mine(t)
    <3>1. Kept(On(t), page'[Mine(t)])
      BY <1>9, WrittenPage DEF Kept
    <3>2. QED  BY <2>2, <2>3, <3>1
  <2>4. CASE q # Mine(t)
    BY <1>9, <2>4 DEF Writes, Untouched, Kept
  <2>5. QED  BY <2>3, <2>4
<1>10. CASE \E v \in Pages : Evicts(t, v)
  <2>1. PICK v \in Pages : Evicts(t, v)
    BY <1>10
  <2>2. PICK saved : saved = NoteSeen(CopyMargins(page, v), {v})
    OBVIOUS
  <2>3. page' = [saved EXCEPT ![v] = NoPage] /\ v \in OnList /\ DOMAIN saved = Pages
    BY <2>1, <2>2 DEF Evicts, NoteSeen
  <2>4. q # v /\ page'[q] = saved[q]
    BY <2>3
  <2>5. q \in Live
    BY <2>2, <2>3, <2>4, EvictPages
  <2>6. Copied(page[q], saved[q])
    BY <2>2, <2>3, <2>5, EvictPages
  <2>7. QED  BY <2>4, <2>5, <2>6 DEF Copied, Kept, Live
<1>11. CASE Flushes(t)
  <2>1. q \in Live
    BY <1>11, FlushPages
  <2>2. Saved(page[q], page'[q])
    BY <1>11, <2>1, FlushPages
  <2>3. QED  BY <2>1, <2>2 DEF Saved, Kept, Live
<1>12. QED  BY <1>2, <1>3, <1>4, <1>5, <1>6, <1>7, <1>8, <1>9, <1>10, <1>11 DEF Steps

\* The page whose data t publishes.
LEMMA PublishedPage ==
  ASSUME PinsInv, NEW t \in Threads, Publishes(t)
  PROVE  /\ Mine(t) \in OnList /\ Mine(t) \in Live
         /\ page'[Mine(t)].chunk = On(t).chunk /\ ~page'[Mine(t)].requestPrepared
         /\ page'[Mine(t)].data = IF thread[t].got = Failed THEN On(t).data ELSE thread[t].got
         /\ thread[t].got \in Blocks \cup {Failed}
         /\ page'[Mine(t)].dirty = On(t).dirty /\ page'[Mine(t)].written = On(t).written
         /\ page'[Mine(t)].seen = On(t).seen
<1>1. TypeOK /\ Place(t) /\ At(t, "publish") /\ Mine(t) # NoPage
  BY DEF PinsInv, Publishes, Place, PageStates
<1>2. On(t) \in PageRecord /\ Mine(t) \in OnList /\ Mine(t) \in Live
  BY <1>1, MyPage DEF Place, Live
<1>3. thread[t].got \in Blocks \cup {NoData, Failed} /\ thread[t].got # NoData
  BY <1>1 DEF TypeOK, ThreadRecord, Place
<1>4. PICK r \in PageRecord : r = On(t)
  BY <1>2
<1>5. PICK s : s = page'[Mine(t)]
  OBVIOUS
<1>6. s = ReadPage(r, thread[t].got)
  BY <1>4, <1>5 DEF Publishes
<1>7. /\ s.chunk = r.chunk /\ ~s.requestPrepared /\ s.dirty = r.dirty /\ s.written = r.written
      /\ s.seen = r.seen /\ s.data = IF thread[t].got = Failed THEN r.data ELSE thread[t].got
  BY <1>3, <1>6, ReadPageFields
<1>8. QED  BY <1>2, <1>3, <1>4, <1>5, <1>7

-----------------------------------------------------------------------------
(* One thread at a time reads a page, and those that wait for its data wait *)
(* for a reader.                                                            *)

InRead(t) == thread[t].pc \in {"fetch", "publish"}
ReadersApart ==
  /\ \A t, u \in Threads : InRead(t) /\ InRead(u) /\ Mine(t) = Mine(u) => t = u
  /\ \A t \in Threads :
       /\ At(t, "publish") => On(t).requestPrepared
       /\ thread[t].pc \in {"leave", "await"} /\ On(t).requestPrepared =>
            \E u \in Threads : InRead(u) /\ Mine(u) = Mine(t)

\* Whoever sets the data of a page that waits for it has a reader.
LEMMA SomeoneReads ==
  ASSUME PinsInv, ReadersApart, NEW p \in Live, page[p].requestPrepared,
         page[p].settingData # 0
  PROVE  \E u \in Threads : InRead(u) /\ Mine(u) = p
<1>1. page[p].settingData = Cardinality(Setters(p))
  BY DEF PinsInv, Counted
<1>2. Setters(p) # {}
  BY <1>1, FS_EmptySet
<1>3. PICK u \in Threads : Mine(u) = p /\ thread[u].pc \in {"fetch", "publish", "leave"}
  BY <1>2 DEF Setters
<1>4. QED  BY <1>3 DEF ReadersApart, InRead

LEMMA ReadersKept ==
  ASSUME PinsInv, PinsInv', ReadersApart, NEW t \in Threads, Steps(t)
  PROVE  ReadersApart'
<1>1. /\ Moves(t) /\ TypeOK' /\ \A u \in Threads : Place(u) /\ Place(u)'
      /\ \A u \in Threads \ {t} : thread'[u] = thread[u]
      /\ thread'[t].pc = "fetch" =>
           At(t, "enter") /\ On(t).settingData = 0 /\ thread'[t].page = Mine(t)
      /\ thread'[t].pc = "publish" => Fetches(t)
      /\ thread'[t].pc \in {"leave", "await"} =>
              /\ thread[t].pc \in {"enter", "leave", "await"} /\ thread'[t].page = Mine(t)
              /\ At(t, "enter") => On(t).settingData # 0
      /\ At(t, "fetch") => Fetches(t) \/ ~On(t).requestPrepared
      /\ At(t, "publish") => Publishes(t)
  BY ThreadSteps DEF PinsInv, Moves
<1>2. ASSUME Fetches(t)
      PROVE  /\ At(t, "fetch") /\ thread'[t].page = Mine(t) /\ On(t).requestPrepared
             /\ page' = page /\ thread'[t].pc = "publish"
  BY <1>2 DEF Fetches
<1>3. ASSUME NEW u \in Threads, InRead(u)'
      PROVE  /\ thread'[u].page = Mine(u)
             /\ InRead(u) \/ (u = t /\ On(t).settingData = 0 /\ At(t, "enter"))
  BY <1>1, <1>2, <1>3 DEF InRead
<1>4. ASSUME NEW u \in Threads, InRead(u), Mine(u) = Mine(t), At(t, "enter") PROVE On(t).settingData # 0
  <2>1. On(u).settingData > 0
    BY <1>4, SetterCounts DEF InRead
  <2>2. QED  BY <1>4, <2>1
<1>5. ASSUME NEW q \in Pages, page[q] # NoPage, page'[q] # NoPage
      PROVE  /\ page'[q].requestPrepared => page[q].requestPrepared
             /\ page[q].requestPrepared /\ ~page'[q].requestPrepared => Publishes(t) /\ q = Mine(t)
             /\ page'[q].requestPrepared /\ Publishes(t) => q # Mine(t)
  <2>1. Publishes(t) => ~page'[Mine(t)].requestPrepared
    BY PublishedPage
  <2>2. Fills(t) => page'[Mine(t)].requestPrepared = On(t).requestPrepared
    BY <1>1, FilledPage
  <2>3. \/ Kept(page[q], page'[q])
        \/ q = Mine(t) /\ (Publishes(t) \/ Fills(t))
    BY <1>1, <1>5, PageSteps
  <2>4. QED  BY <2>1, <2>2, <2>3 DEF Kept
<1>6. ASSUME NEW u \in Threads, NEW w \in Threads, InRead(u)', InRead(w)', Mine(u)' = Mine(w)'
      PROVE  u = w
  BY <1>3, <1>4, <1>6 DEF ReadersApart
<1>7. ASSUME NEW u \in Threads, Mine(u) # NoPage, Mine(u)' = Mine(u), Mine(u)' # NoPage
      PROVE  Mine(u) \in Pages /\ page[Mine(u)] # NoPage /\ page'[Mine(u)] # NoPage
  BY <1>1, <1>7 DEF Place, PinsInv, TypeOK, ThreadRecord
<1>8. ASSUME NEW u \in Threads, At(u, "publish")' PROVE On(u)'.requestPrepared
  <2>1. CASE u = t
    <3>1. On(t).requestPrepared /\ page' = page /\ thread'[t].page = Mine(t)
      BY <1>1, <1>2, <1>8, <2>1
    <3>2. QED  BY <2>1, <3>1
  <2>2. CASE u # t
    <3>1. thread'[u] = thread[u] /\ At(u, "publish") /\ Mine(u) # NoPage
      BY <1>1, <1>8, <2>2 DEF Place, PageStates
    <3>2. PICK q : q = Mine(u)
      OBVIOUS
    <3>3. q \in Pages /\ page[q] # NoPage /\ page'[q] # NoPage /\ page[q].requestPrepared
      BY <1>7, <3>1, <3>2 DEF ReadersApart
    <3>4. Publishes(t) => q # Mine(t)
      BY <2>2, <3>1, <3>2 DEF Publishes, ReadersApart, InRead
    <3>5. page'[q].requestPrepared
      BY <1>5, <3>3, <3>4
    <3>6. QED  BY <3>1, <3>2, <3>5
  <2>3. QED  BY <2>1, <2>2
<1>9. ASSUME NEW u \in Threads, thread'[u].pc \in {"leave", "await"}, On(u)'.requestPrepared
      PROVE  \E w \in Threads : InRead(w)' /\ Mine(w)' = Mine(u)'
  <2>1. /\ thread'[u].page = Mine(u) /\ thread[u].pc \in {"enter", "leave", "await"}
        /\ At(u, "enter") => On(u).settingData # 0
    BY <1>1, <1>9
  <2>2. PICK q : q = Mine(u)
    OBVIOUS
  <2>3. q # NoPage
    BY <1>1, <2>1, <2>2 DEF Place, PageStates
  <2>4. q \in Pages /\ page[q] # NoPage /\ page'[q] # NoPage
    BY <1>7, <2>1, <2>2, <2>3
  <2>5. page'[q].requestPrepared
    BY <1>9, <2>1, <2>2
  <2>6. page[q].requestPrepared /\ (Publishes(t) => q # Mine(t))
    BY <1>5, <2>4, <2>5
  <2>7. PICK w \in Threads : InRead(w) /\ Mine(w) = q
    <3>1. CASE At(u, "enter")
      BY <2>1, <2>2, <2>4, <2>6, <3>1, SomeoneReads DEF Live
    <3>2. CASE ~At(u, "enter")
      BY <2>1, <2>2, <2>6, <3>2 DEF ReadersApart
    <3>3. QED  BY <3>1, <3>2
  <2>8. InRead(w)' /\ thread'[w].page = q
    <3>1. CASE w # t
      BY <1>1, <2>7, <3>1 DEF InRead
    <3>2. CASE w = t
      BY <1>1, <1>2, <2>6, <2>7, <3>2 DEF InRead
    <3>3. QED  BY <3>1, <3>2
  <2>9. QED  BY <2>1, <2>2, <2>8
<1>10. QED  BY <1>6, <1>8, <1>9 DEF ReadersApart

-----------------------------------------------------------------------------
(* The list and the preparations.                                          *)

LEMMA ListSteps ==
  ASSUME PinsInv, TypeOK', NEW t \in Threads, Steps(t)
  PROVE  \/ UNCHANGED pages /\ OnList' = OnList
         \/ \E p \in Pages, c \in Chunks :
              Inserts(t, p, c) /\ pages' = [pages EXCEPT ![c] = p] /\ OnList' = OnList \cup {p}
         \/ \E v \in OnList :
              /\ pages' = [pages EXCEPT ![page[v].chunk] = NoPage] /\ OnList' = OnList \ {v}
              /\ (TakesOut(t) /\ v = Mine(t)) \/ Evicts(t, v)
<1>1. TypeOK /\ Listed /\ Place(t) /\ lru \in Seq(Pages) /\ Distinct(lru)
  BY DEF PinsInv, TypeOK, Listed
<1>2. CASE Still(t)
  BY <1>2 DEF Still, SameList
<1>3. CASE Fetches(t) \/ Publishes(t) \/ Deletes(t) \/ Fills(t) \/ Writes(t) \/ Flushes(t)
  <2>1. UNCHANGED <<pages, lru>>
    BY <1>3 DEF Fetches, Publishes, Deletes, Fills, Writes, Flushes
  <2>2. QED  BY <2>1 DEF OnList
<1>4. CASE \E p \in Pages, c \in Chunks : Inserts(t, p, c)
  <2>1. PICK p \in Pages, c \in Chunks : Inserts(t, p, c)
    BY <1>4
  <2>2. pages' = [pages EXCEPT ![c] = p] /\ lru' = <<p>> \o lru /\ page[p] = NoPage
    BY <2>1 DEF Inserts
  <2>3. p \notin OnList
    BY <1>1, <2>2 DEF Listed
  <2>4. OnList' = OnList \cup {p}
    BY <1>1, <2>2, <2>3, PushFront DEF OnList
  <2>5. QED  BY <2>1, <2>2, <2>4
<1>5. CASE TakesOut(t)
  <2>1. Mine(t) \in OnList
    BY <1>1, <1>5 DEF TakesOut, Place, PageStates
  <2>2. pages' = [pages EXCEPT ![On(t).chunk] = NoPage] /\ lru' = Erase(lru, Mine(t))
    BY <1>5 DEF TakesOut, ErasePage
  <2>3. OnList' = OnList \ {Mine(t)}
    BY <1>1, <2>1, <2>2, EraseOne DEF OnList
  <2>4. QED  BY <1>5, <2>1, <2>2, <2>3
<1>6. CASE \E v \in Pages : Evicts(t, v)
  <2>1. PICK v \in Pages : Evicts(t, v)
    BY <1>6
  <2>2. v \in OnList /\ pages' = [pages EXCEPT ![page[v].chunk] = NoPage] /\ lru' = Erase(lru, v)
    BY <2>1 DEF Evicts, ErasePage
  <2>3. OnList' = OnList \ {v}
    BY <1>1, <2>2, EraseOne DEF OnList
  <2>4. QED  BY <2>1, <2>2, <2>3
<1>7. QED  BY <1>2, <1>3, <1>4, <1>5, <1>6 DEF Steps

LEMMA PreparedSteps ==
  ASSUME PinsInv, NEW t \in Threads, Steps(t), NEW c \in Chunks
  PROVE  \/ prepared'[c] = prepared[c]
         \/ /\ Fetches(t) /\ c = On(t).chunk
            /\ prepared'[c] = IF prepared[c] = 0 THEN 0 ELSE prepared[c] - 1
         \/ Deletes(t)
         \/ /\ \E p \in Pages : Inserts(t, p, c) /\ thread'[t].pc = "prepared"
            /\ prepared'[c] = prepared[c] + 1
<1>1. TypeOK
  BY DEF PinsInv
<1>2. CASE Fetches(t)
  BY <1>1, <1>2 DEF Fetches, TypeOK
<1>3. CASE \E p \in Pages, d \in Chunks : Inserts(t, p, d)
  <2>1. PICK p \in Pages, d \in Chunks : Inserts(t, p, d)
    BY <1>3
  <2>2. \/ prepared' = prepared
        \/ prepared' = [prepared EXCEPT ![d] = @ + 1] /\ thread'[t].pc = "prepared"
    BY <2>1 DEF Inserts
  <2>3. CASE prepared' = prepared
    BY <2>3
  <2>4. CASE prepared' = [prepared EXCEPT ![d] = @ + 1] /\ thread'[t].pc = "prepared"
    BY <1>1, <2>1, <2>4 DEF TypeOK
  <2>5. QED  BY <2>2, <2>3, <2>4
<1>4. CASE Still(t) \/ Publishes(t) \/ TakesOut(t) \/ Fills(t) \/ Writes(t)
  BY <1>4 DEF Still, Publishes, TakesOut, Fills, Writes
<1>5. CASE (\E v \in Pages : Evicts(t, v)) \/ Flushes(t)
  BY <1>5 DEF Evicts, Flushes
<1>6. QED  BY <1>2, <1>3, <1>4, <1>5 DEF Steps

\* A new page.
LEMMA InsertedPage ==
  ASSUME NEW t \in Threads, NEW p \in Pages, NEW c \in Chunks, Inserts(t, p, c)
  PROVE  /\ page[p] = NoPage /\ pages[c] = NoPage /\ page'[p].chunk = c
         /\ page'[p].data = NoData /\ page'[p].requestPrepared /\ ~page'[p].dirty
         /\ page'[p].seen = Unwritten /\ page'[p] # NoPage
         /\ thread'[t].page = p /\ thread[t].pc \in {"idle", "waitCommit"}
         /\ thread'[t].pc \in {"prepared", "create"}
         /\ \A q \in Pages \ {p} : page'[q] = page[q]
<1>1. PICK failed \in BOOLEAN : page'[p] = VolumeDataPageImpl(c, failed)
  BY DEF Inserts
<1>2. VolumeDataPageImpl(c, failed) \in PageRecord
  BY NewPagesTyped
<1>3. /\ page'[p].chunk = c /\ page'[p].data = NoData /\ page'[p].requestPrepared
      /\ ~page'[p].dirty /\ page'[p].seen = Unwritten
  BY <1>1 DEF VolumeDataPageImpl
<1>4. page'[p] # NoPage
  BY <1>1, <1>2
<1>5. QED  BY <1>3, <1>4 DEF Inserts, Untouched

-----------------------------------------------------------------------------
(* Without jobs nobody cancels: a preparation belongs to the page on the    *)
(* list, until somebody who has the page reads it.                          *)

Asks(t) == thread[t].pc \in {"prepared", "enter", "fetch"}
UsersAlone ==
  /\ \A t \in Threads : ~At(t, "cancel")
  /\ \A c \in Chunks : prepared[c] > 0 =>
       /\ prepared[c] = 1 /\ pages[c] # NoPage
       /\ page[pages[c]].data = NoData /\ page[pages[c]].requestPrepared
       /\ \E t \in Threads : Asks(t) /\ Mine(t) = pages[c]
  /\ \A t \in Threads : thread[t].pc \in {"create", "publish"} => prepared[On(t).chunk] = 0

\* Who is to read a page reads it, unless that is done or another one does.
LEMMA AskSteps ==
  ASSUME Jobs = {}, PinsInv, NEW t \in Threads, Steps(t), Asks(t)
  PROVE  \/ thread'[t].page = Mine(t) /\ Asks(t)'
         \/ ~On(t).requestPrepared
         \/ At(t, "enter") /\ On(t).settingData # 0
         \/ Fetches(t)
<1>1. CASE Still(t)
  <2>1. CASE Begins(t)
    BY <2>1 DEF Begins, Goes, Asks
  <2>2. CASE Reads(t)
    BY <2>2 DEF Reads, Goes, Keeps, Asks
  <2>3. CASE GivesBack(t)
    BY <2>3 DEF GivesBack, Asks
  <2>4. CASE TakesBuffer(t)
    BY <2>4 DEF TakesBuffer, Asks
  <2>5. CASE Limits(t)
    BY <2>5 DEF Limits, Goes, Asks
  <2>6. CASE Commits(t)
    BY <2>6 DEF Commits, Resting, Asks
  <2>7. QED  BY <1>1, <2>1, <2>2, <2>3, <2>4, <2>5, <2>6 DEF Still
<1>2. CASE \E p \in Pages, c \in Chunks : Inserts(t, p, c)
  BY <1>2 DEF Inserts, Asks
<1>3. CASE \E v \in Pages : Evicts(t, v)
  BY <1>3 DEF Evicts, Asks
<1>4. CASE TakesOut(t) \/ Deletes(t) \/ Publishes(t) \/ Fills(t) \/ Writes(t) \/ Flushes(t)
  BY <1>4 DEF TakesOut, Deletes, Publishes, Fills, Writes, Flushes, Goes, Asks
<1>5. QED  BY <1>1, <1>2, <1>3, <1>4 DEF Steps

\* The thread that evicts a page, and those that have one.
LEMMA EvictedAlone ==
  ASSUME PinsInv, NEW t \in Threads, NEW v \in OnList, Evicts(t, v)
  PROVE  /\ \A u \in Threads : Mine(u) # v
         /\ \A u \in Threads \ {t} : thread[u].victim # v
<1>1. page[v] \in PageRecord
  BY ListedPages DEF PinsInv
<1>2. page[v].pins <= 1 /\ (thread[t].victim = v \/ page[v].pins = 0)
  BY <1>1 DEF Evicts, PageRecord
<1>3. QED  BY <1>2, VictimAlone

LEMMA AloneKept ==
  ASSUME Jobs = {}, PinsInv, PinsInv', ReadersApart, UsersAlone, NEW t \in Threads, Steps(t)
  PROVE  UsersAlone'
<1>1. /\ Moves(t) /\ TypeOK /\ TypeOK' /\ Listed /\ Listed' /\ \A u \in Threads : Place(u) /\ Place(u)'
      /\ \A u \in Threads \ {t} : thread'[u] = thread[u]
      /\ prepared \in [Chunks -> Nat] /\ prepared' \in [Chunks -> Nat]
      /\ \A u \in Threads : thread[u] \in ThreadRecord
  BY ThreadSteps DEF PinsInv, Moves, TypeOK
<1>2. ~TakesOut(t) /\ ~Deletes(t)
  BY DEF TakesOut, Deletes, UsersAlone
<1>3. \A u \in Threads : ~At(u, "cancel")'
  BY <1>1, <1>2, ThreadSteps DEF UsersAlone
<1>4. ASSUME NEW u \in Threads, Mine(u) # NoPage
      PROVE  Mine(u) \in OnList /\ On(u).chunk \in Chunks /\ pages[On(u).chunk] = Mine(u)
  <2>1. Mine(u) \in OnList
    BY <1>1, <1>4 DEF Place, UsersAlone
  <2>2. QED  BY <2>1, ListedPages DEF Listed, PinsInv, PageRecord
<1>5. ASSUME NEW c \in Chunks, prepared[c] > 0, prepared'[c] > 0, \A p \in Pages : ~Inserts(t, p, c)
      PROVE  /\ prepared'[c] = 1 /\ pages'[c] # NoPage
             /\ page'[pages'[c]].data = NoData /\ page'[pages'[c]].requestPrepared
             /\ \E u \in Threads : Asks(u)' /\ Mine(u)' = pages'[c]
  <2>1. PICK q : q = pages[c]
    OBVIOUS
  <2>2. /\ prepared[c] = 1 /\ q # NoPage /\ page[q].data = NoData /\ page[q].requestPrepared
        /\ q \in OnList /\ page[q].chunk = c /\ q \in Live /\ q \in Pages
    BY <1>1, <1>5, <2>1, ListedPages DEF UsersAlone, Listed, Live
  <2>3. PICK w \in Threads : Asks(w) /\ Mine(w) = q
    BY <1>5, <2>1 DEF UsersAlone
  <2>4. prepared'[c] = 1 /\ ~(Fetches(t) /\ On(t).chunk = c)
    <3>1. \/ prepared'[c] = prepared[c]
          \/ Fetches(t) /\ c = On(t).chunk /\ prepared'[c] = 0
      <4>1. (IF prepared[c] = 0 THEN 0 ELSE prepared[c] - 1) = 0
        BY <2>2
      <4>2. QED  BY <1>2, <1>5, <4>1, PreparedSteps
    <3>2. Fetches(t) /\ c = On(t).chunk => prepared'[c] = 0
      BY <1>1, <2>2 DEF Fetches
    <3>3. QED  BY <1>5, <2>2, <3>1, <3>2
  <2>5. pages'[c] = q
    <3>1. CASE UNCHANGED pages
      BY <2>1, <3>1
    <3>2. CASE \E p \in Pages, d \in Chunks : Inserts(t, p, d) /\ pages' = [pages EXCEPT ![d] = p]
      BY <1>1, <1>5, <2>1, <3>2 DEF TypeOK
    <3>3. CASE \E v \in OnList : pages' = [pages EXCEPT ![page[v].chunk] = NoPage] /\ Evicts(t, v)
      <4>1. PICK v \in OnList : pages' = [pages EXCEPT ![page[v].chunk] = NoPage] /\ Evicts(t, v)
        BY <3>3
      <4>2. v # q
        BY <2>3, <4>1, EvictedAlone
      <4>3. page[v].chunk # c
        BY <1>1, <2>1, <4>2 DEF Listed
      <4>4. QED  BY <1>1, <2>1, <4>1, <4>3 DEF TypeOK
    <3>4. QED  BY <1>1, <1>2, <3>1, <3>2, <3>3, ListSteps
  <2>6. page'[q] # NoPage
    BY <1>1, <2>2, <2>5 DEF Listed
  <2>7. Kept(page[q], page'[q])
    <3>1. ASSUME q = Mine(t), Publishes(t) \/ Fills(t) PROVE FALSE
      <4>1. thread[t].pc \in {"create", "publish"}
        BY <3>1 DEF Publishes, Fills, Goes
      <4>2. prepared[On(t).chunk] = 0 /\ On(t).chunk = c
        BY <2>2, <3>1, <4>1 DEF UsersAlone
      <4>3. QED  BY <2>2, <4>2
    <3>2. QED  BY <1>1, <2>2, <2>6, <3>1, PageSteps DEF Live
  <2>8. \E u \in Threads : Asks(u)' /\ Mine(u)' = q
    <3>1. CASE w # t
      BY <1>1, <2>3, <3>1 DEF Asks
    <3>2. CASE w = t
      <4>1. \/ thread'[t].page = Mine(t) /\ Asks(t)'
            \/ At(t, "enter") /\ On(t).settingData # 0
            \/ Fetches(t)
        BY <2>2, <2>3, <3>2, AskSteps
      <4>2. ~Fetches(t)
        BY <2>2, <2>3, <2>4, <3>2
      <4>3. CASE At(t, "enter") /\ On(t).settingData # 0
        <5>1. PICK x \in Threads : InRead(x) /\ Mine(x) = q
          BY <2>2, <2>3, <3>2, <4>3, SomeoneReads
        <5>2. ~At(x, "publish")
          BY <2>2, <5>1 DEF UsersAlone
        <5>3. x # t /\ thread'[x] = thread[x] /\ At(x, "fetch")
          BY <1>1, <4>3, <5>1, <5>2 DEF InRead
        <5>4. QED  BY <5>1, <5>3 DEF Asks
      <4>4. QED  BY <2>3, <3>2, <4>1, <4>2, <4>3
    <3>3. QED  BY <3>1, <3>2
  <2>9. QED  BY <2>2, <2>4, <2>5, <2>7, <2>8 DEF Kept
<1>6. ASSUME NEW c \in Chunks, prepared'[c] > 0
      PROVE  /\ prepared'[c] = 1 /\ pages'[c] # NoPage
             /\ page'[pages'[c]].data = NoData /\ page'[pages'[c]].requestPrepared
             /\ \E u \in Threads : Asks(u)' /\ Mine(u)' = pages'[c]
  <2>1. CASE \E p \in Pages : Inserts(t, p, c)
    <3>1. PICK p \in Pages : Inserts(t, p, c)
      BY <2>1
    <3>2. prepared[c] = 0
      <4>1. pages[c] = NoPage
        BY <3>1 DEF Inserts
      <4>2. QED  BY <1>1, <4>1 DEF UsersAlone
    <3>3. thread'[t].pc = "prepared" /\ prepared'[c] = 1 /\ pages'[c] = p
      <4>1. pages' = [pages EXCEPT ![c] = p] /\ (prepared' = [prepared EXCEPT ![c] = @ + 1] \/ prepared' = prepared)
        BY <3>1 DEF Inserts
      <4>2. pages'[c] = p /\ (prepared'[c] = 1 \/ prepared'[c] = 0)
        BY <1>1, <3>2, <4>1 DEF TypeOK
      <4>3. prepared' # prepared
        BY <1>6, <3>2
      <4>4. QED  BY <1>6, <3>1, <4>2, <4>3 DEF Inserts
    <3>4. QED  BY <1>1, <3>1, <3>3, InsertedPage DEF Asks
  <2>2. CASE \A p \in Pages : ~Inserts(t, p, c)
    <3>1. prepared[c] > 0
      BY <1>1, <1>2, <1>6, <2>2, PreparedSteps
    <3>2. QED  BY <1>5, <1>6, <2>2, <3>1
  <2>3. QED  BY <2>1, <2>2
<1>7. ASSUME NEW u \in Threads, thread'[u].pc \in {"create", "publish"}
      PROVE  prepared'[On(u)'.chunk] = 0
  <2>1. CASE u # t
    <3>1. thread'[u] = thread[u] /\ thread[u].pc \in {"create", "publish"} /\ Mine(u) # NoPage
      BY <1>1, <1>7, <2>1 DEF Place, PageStates
    <3>2. PICK q : q = Mine(u)
      OBVIOUS
    <3>3. PICK c : c = page[q].chunk
      OBVIOUS
    <3>4. q \in Pages /\ page[q] # NoPage /\ page'[q] # NoPage /\ c \in Chunks /\ pages[c] = q
      BY <1>1, <1>4, <3>1, <3>2, <3>3 DEF Place, ThreadRecord
    <3>5. page'[q].chunk = c
      <4>1. Fills(t) => page'[Mine(t)].chunk = On(t).chunk
        BY <1>1, FilledPage
      <4>2. Publishes(t) => page'[Mine(t)].chunk = On(t).chunk
        BY PublishedPage
      <4>3. QED  BY <1>1, <3>3, <3>4, <4>1, <4>2, PageSteps DEF Kept
    <3>6. prepared[c] = 0
      BY <3>1, <3>2, <3>3 DEF UsersAlone
    <3>7. \A p \in Pages : ~Inserts(t, p, c)
      BY <3>1, <3>2, <3>4 DEF Inserts
    <3>8. prepared'[c] = 0
      BY <1>2, <3>4, <3>6, <3>7, PreparedSteps
    <3>9. QED  BY <3>1, <3>2, <3>5, <3>8
  <2>2. CASE u = t /\ thread'[t].pc = "publish"
    <3>1. Fetches(t)
      BY <2>2, ThreadSteps
    <3>2. Mine(t) # NoPage /\ thread'[t].page = Mine(t) /\ page' = page
          /\ prepared' = [prepared EXCEPT ![On(t).chunk] = IF @ = 0 THEN 0 ELSE @ - 1]
      BY <1>1, <3>1 DEF Fetches, Place, PageStates
    <3>3. On(t).chunk \in Chunks
      BY <1>4, <3>2
    <3>4. prepared[On(t).chunk] \in {0, 1}
      BY <1>1, <3>3 DEF UsersAlone
    <3>5. prepared'[On(t).chunk] = 0
      BY <1>1, <3>2, <3>3, <3>4
    <3>6. QED  BY <2>2, <3>2, <3>5
  <2>3. CASE u = t /\ thread'[t].pc = "create"
    <3>1. PICK p \in Pages, c \in Chunks : Inserts(t, p, c)
      BY <2>3, ThreadSteps
    <3>2. pages[c] = NoPage /\ prepared' = prepared /\ thread'[t].page = p /\ page'[p].chunk = c
      <4>1. prepared' = prepared
        BY <2>3, <3>1 DEF Inserts
      <4>2. QED  BY <3>1, <4>1, InsertedPage
    <3>3. prepared[c] = 0
      BY <1>1, <3>2 DEF UsersAlone
    <3>4. QED  BY <2>3, <3>2, <3>3
  <2>4. QED  BY <1>7, <2>1, <2>2, <2>3
<1>8. QED  BY <1>3, <1>6, <1>7 DEF UsersAlone

-----------------------------------------------------------------------------
(* The samples of a chunk.                                                 *)

\* A page keeps its own samples unless t publishes, fills or writes it.
LEMMA OwnSamples ==
  ASSUME PinsInv, TypeOK', NEW t \in Threads, Steps(t), NEW q \in OnList, page'[q] # NoPage
  PROVE  \/ /\ page'[q].data = NoData <=> page[q].data = NoData
            /\ page[q].data # NoData => page'[q].data[page[q].chunk] = page[q].data[page[q].chunk]
            /\ page[q].dirty /\ ~page'[q].dirty => Flushes(t)
         \/ q = Mine(t) /\ (Publishes(t) \/ Fills(t) \/ Writes(t))
<1>1. TypeOK /\ Listed /\ q \in Live /\ q \in Pages /\ page[q] # NoPage /\ page[q] \in PageRecord
  BY ListedPages DEF PinsInv, Live
<1>2. CASE Still(t)
  BY <1>1, <1>2 DEF Still, Alike
<1>3. CASE Fetches(t)
  BY <1>3 DEF Fetches
<1>4. CASE Publishes(t) \/ Fills(t) \/ Writes(t)
  BY <1>1, <1>4 DEF Publishes, Fills, Writes, Untouched
<1>5. CASE Deletes(t)
  BY <1>1, <1>5 DEF Deletes, Untouched
<1>6. CASE \E p \in Pages, c \in Chunks : Inserts(t, p, c)
  BY <1>1, <1>6 DEF Inserts, Untouched
<1>7. CASE TakesOut(t)
  <2>1. CASE q = Mine(t)
    <3>1. PICK r \in PageRecord : r = page[q]
      BY <1>1
    <3>2. PICK s : s = [r EXCEPT !.pins = @ - 1]
      OBVIOUS
    <3>3. s = page'[q]
      BY <1>7, <2>1, <3>1, <3>2 DEF TakesOut, UnPin
    <3>4. s.data = r.data /\ s.dirty = r.dirty
      BY <3>2 DEF PageRecord
    <3>5. QED  BY <3>1, <3>3, <3>4
  <2>2. CASE q # Mine(t)
    BY <1>1, <1>7, <2>2 DEF TakesOut, Untouched
  <2>3. QED  BY <2>1, <2>2
<1>8. CASE \E v \in Pages : Evicts(t, v)
  <2>1. PICK v \in Pages : Evicts(t, v)
    BY <1>8
  <2>2. PICK saved : saved = NoteSeen(CopyMargins(page, v), {v})
    OBVIOUS
  <2>3. page' = [saved EXCEPT ![v] = NoPage] /\ v \in OnList /\ DOMAIN saved = Pages
    BY <2>1, <2>2 DEF Evicts, NoteSeen
  <2>4. q # v /\ page'[q] = saved[q]
    BY <1>1, <2>3
  <2>5. saved[q].data = CopyMargins(page, v)[q].data /\ saved[q].dirty = CopyMargins(page, v)[q].dirty
    BY <1>1, <2>2, <2>3, EvictPages
  <2>6. PICK s : s = CopyMargins(page, v)[q]
    OBVIOUS
  <2>7. /\ Copied(page[q], s)
        /\ \/ s = page[q]
           \/ s.data = [page[q].data EXCEPT ![page[v].chunk] = page[v].data[page[v].chunk]]
    BY <1>1, <2>3, <2>6, MarginCopies
  <2>8. page[v].chunk # page[q].chunk
    BY <1>1, <2>3, <2>4 DEF Listed
  <2>9. /\ s.data = NoData <=> page[q].data = NoData
        /\ page[q].dirty => s.dirty
    BY <2>7 DEF Copied
  <2>10. page[q].data # NoData => s.data[page[q].chunk] = page[q].data[page[q].chunk]
    <3>1. page[q].data # NoData => page[q].data \in Blocks
      BY <1>1 DEF PageRecord
    <3>2. CASE s = page[q]
      BY <3>2
    <3>3. CASE s.data = [page[q].data EXCEPT ![page[v].chunk] = page[v].data[page[v].chunk]]
      <4>1. PICK a, b, n : a = page[q].chunk /\ b = page[v].chunk /\ n = page[v].data[b]
        OBVIOUS
      <4>2. a \in Chunks /\ a # b
        BY <1>1, <2>8, <4>1 DEF PageRecord
      <4>3. ASSUME NEW d \in Blocks PROVE [d EXCEPT ![b] = n][a] = d[a]
        BY <4>2 DEF Blocks
      <4>4. QED  BY <3>1, <3>3, <4>1, <4>3
    <3>4. QED  BY <2>7, <3>2, <3>3
  <2>11. QED  BY <2>4, <2>5, <2>6, <2>9, <2>10
<1>9. CASE Flushes(t)
  <2>1. PICK s : s = CopyAllMargins(page)[q]
    OBVIOUS
  <2>2. page'[q].data = s.data
    BY <1>1, <1>9, <2>1, FlushPages
  <2>3. Copied(page[q], s)
    BY <1>1, <2>1, AllMarginCopies
  <2>4. page[q].chunk \in Chunks
    BY <1>1 DEF PageRecord
  <2>5. ~\E w \in OnList : IsCopyMarginNeeded(page, w, q) /\ page[w].chunk = page[q].chunk
    BY <1>1 DEF IsCopyMarginNeeded, Listed
  <2>6. \/ s = page[q]
        \/ s.data[page[q].chunk] = page[q].data[page[q].chunk]
    BY <1>1, <2>1, <2>4, <2>5, AllMarginCopies
  <2>7. s.data = NoData <=> page[q].data = NoData
    BY <2>3 DEF Copied
  <2>8. QED  BY <1>9, <2>2, <2>6, <2>7
<1>10. QED  BY <1>2, <1>3, <1>4, <1>5, <1>6, <1>7, <1>8, <1>9 DEF Steps

\* The store and the history change with pages that are written and written back.
LEMMA StoreSteps ==
  ASSUME NEW t \in Threads, Steps(t)
  PROVE  /\ UNCHANGED stored \/ (\E v \in Pages : Evicts(t, v)) \/ Flushes(t)
         /\ \/ UNCHANGED <<clock, latest>>
            \/ /\ Fills(t) \/ Writes(t)
               /\ latest' = [latest EXCEPT ![On(t).chunk] = clock + 1] /\ clock' = clock + 1
<1>1. CASE Still(t) \/ Fetches(t) \/ Publishes(t) \/ (\E p \in Pages, c \in Chunks : Inserts(t, p, c))
  BY <1>1 DEF Still, Fetches, Publishes, Inserts
<1>2. CASE TakesOut(t) \/ Deletes(t) \/ Fills(t) \/ Writes(t)
  BY <1>2 DEF TakesOut, Deletes, Fills, Writes
<1>3. CASE (\E v \in Pages : Evicts(t, v)) \/ Flushes(t)
  BY <1>3 DEF Evicts, Flushes
<1>4. QED  BY <1>1, <1>2, <1>3 DEF Steps

\* At the end of a commit the store has everything.
LEMMA FlushStores ==
  ASSUME PinsInv, LastWriteKept, ReadsSeeWrites, NEW t \in Threads, Flushes(t), NEW c \in Chunks
  PROVE  stored'[c][c] = latest[c]
<1>1. TypeOK /\ Listed /\ OnList \subseteq Live /\ DataThere
  BY ListedPages DEF PinsInv
<1>2. PICK pg : pg = CopyAllMargins(page)
  OBVIOUS
<1>3. stored' = WriteBack(pg, OnList)
  BY <1>2 DEF Flushes
<1>4. ASSUME NEW q \in OnList
      PROVE  /\ pg[q].chunk = page[q].chunk /\ (page[q].dirty => pg[q].dirty)
             /\ pg[q].dirty => page[q].data # NoData
             /\ page[q].data # NoData =>
                  pg[q].data[page[q].chunk] = page[q].data[page[q].chunk]
  <2>1. Copied(page[q], pg[q]) /\ page[q].chunk \in Chunks
    BY <1>1, <1>2, AllMarginCopies DEF Live, TypeOK, PageRecord
  <2>2. ~\E w \in OnList : IsCopyMarginNeeded(page, w, q) /\ page[w].chunk = page[q].chunk
    BY <1>1 DEF IsCopyMarginNeeded, Listed
  <2>3. \/ pg[q] = page[q]
        \/ pg[q].data[page[q].chunk] = page[q].data[page[q].chunk]
    BY <1>1, <1>2, <2>1, <2>2, AllMarginCopies
  <2>4. page[q].dirty => page[q].data # NoData
    BY <1>1 DEF DataThere
  <2>5. QED  BY <2>1, <2>3, <2>4 DEF Copied
<1>5. CASE \E p \in OnList : pg[p].dirty /\ pg[p].chunk = c /\ WriteBack(pg, OnList)[c] = pg[p].data
  <2>1. PICK p \in OnList : pg[p].dirty /\ pg[p].chunk = c /\ WriteBack(pg, OnList)[c] = pg[p].data
    BY <1>5
  <2>2. /\ page[p].chunk = c /\ page[p].data # NoData
        /\ pg[p].data[c] = page[p].data[c]
    BY <1>4, <2>1
  <2>3. page[p].data[c] = latest[c]
    BY <2>2 DEF ReadsSeeWrites
  <2>4. QED  BY <1>3, <2>1, <2>2, <2>3
<1>6. CASE /\ \A p \in OnList : ~(pg[p].dirty /\ pg[p].chunk = c)
           /\ WriteBack(pg, OnList)[c] = stored[c]
  <2>1. \A p \in OnList : ~(page[p].chunk = c /\ page[p].dirty)
    BY <1>4, <1>6
  <2>2. stored[c][c] = latest[c]
    BY <2>1 DEF LastWriteKept
  <2>3. QED  BY <1>3, <1>6, <2>2
<1>7. QED  BY <1>1, <1>5, <1>6, WrittenBack

\* What a reader has got from the store is what the chunk has had since.
GotFresh == \A t \in Threads : At(t, "publish") /\ thread[t].got \in Blocks =>
  /\ On(t).data = NoData /\ thread[t].got[On(t).chunk] = latest[On(t).chunk]
  /\ \A u \in Threads : At(u, "create") => Mine(u) # Mine(t)

DataInv == UsersAlone /\ LastWriteKept /\ ReadsSeeWrites /\ GotFresh

\* The page of a chunk on the list is the only one.
LEMMA OneOfChunk ==
  ASSUME PinsInv, NEW p \in OnList, NEW q \in OnList, page[p].chunk = page[q].chunk
  PROVE  p = q
BY DEF PinsInv, Listed

\* Without jobs, whoever has a page has it on the list.
LEMMA MineListed ==
  ASSUME PinsInv, UsersAlone, NEW u \in Threads, Mine(u) # NoPage
  PROVE  Mine(u) \in OnList /\ On(u).chunk \in Chunks /\ On(u) # NoPage
<1>1. Mine(u) \in OnList
  BY DEF PinsInv, Place, UsersAlone
<1>2. QED  BY <1>1, ListedPages DEF PinsInv, PageRecord, Live

\* No other chunk has a new version.
LEMMA LatestStays ==
  ASSUME PinsInv, UsersAlone, NEW t \in Threads, Steps(t), NEW q \in OnList,
         ~(q = Mine(t) /\ (Publishes(t) \/ Fills(t) \/ Writes(t)))
  PROVE  latest'[page[q].chunk] = latest[page[q].chunk]
<1>1. CASE UNCHANGED latest
  BY <1>1
<1>2. CASE Fills(t) \/ Writes(t)
  <2>1. latest \in [Chunks -> Versions] /\ Place(t)
    BY DEF PinsInv, TypeOK
  <2>2. Mine(t) # NoPage
    BY <1>2, <2>1 DEF Fills, Writes, Goes, Place, PageStates
  <2>3. Mine(t) \in OnList
    BY <2>2, MineListed
  <2>4. On(t).chunk # page[q].chunk
    BY <1>2, <2>3, OneOfChunk
  <2>5. page[q].chunk \in Chunks
    BY ListedPages DEF PinsInv, PageRecord
  <2>6. latest' = [latest EXCEPT ![On(t).chunk] = clock + 1]
    BY <1>2 DEF Fills, Writes
  <2>7. QED  BY <2>1, <2>4, <2>5, <2>6
<1>3. QED  BY <1>1, <1>2, StoreSteps

LEMMA ReadsKept ==
  ASSUME PinsInv, PinsInv', DataInv, NEW t \in Threads, Steps(t)
  PROVE  ReadsSeeWrites'
<1>1. /\ TypeOK /\ TypeOK' /\ Listed /\ Listed' /\ latest \in [Chunks -> Versions]
  BY DEF PinsInv, TypeOK
<1>2. ASSUME NEW q \in OnList', page'[q].data # NoData
      PROVE  page'[q].data[page'[q].chunk] = latest'[page'[q].chunk]
  <2>1. page'[q] # NoPage
    BY <1>1, <1>2 DEF Listed
  <2>2. CASE \E p \in Pages, c \in Chunks : Inserts(t, p, c) /\ q = p
    BY <1>2, <2>2, InsertedPage
  <2>3. CASE q \in OnList
    <3>1. q \in Pages /\ page[q] # NoPage /\ page[q].chunk \in Chunks
      BY <2>3, ListedPages DEF PinsInv, Live, PageRecord
    <3>2. PICK c \in Chunks : c = page[q].chunk
      BY <3>1
    <3>3. page[q].data # NoData => page[q].data[c] = latest[c]
      BY <2>3, <3>2 DEF DataInv, ReadsSeeWrites
    <3>4. CASE q = Mine(t) /\ Publishes(t)
      <4>1. /\ page'[q].chunk = c
            /\ page'[q].data = IF thread[t].got = Failed THEN page[q].data ELSE thread[t].got
            /\ thread[t].got \in Blocks \cup {Failed} /\ At(t, "publish") /\ latest' = latest
        BY <3>2, <3>4, PublishedPage DEF Publishes
      <4>2. CASE thread[t].got = Failed
        BY <1>2, <3>3, <4>1, <4>2
      <4>3. CASE thread[t].got \in Blocks
        BY <3>2, <3>4, <4>1, <4>3 DEF DataInv, GotFresh
      <4>4. QED  BY <4>1, <4>2, <4>3
    <3>5. CASE q = Mine(t) /\ Fills(t)
      <4>1. /\ page'[q].chunk = c /\ page'[q].data = [Unwritten EXCEPT ![c] = clock + 1]
            /\ latest' = [latest EXCEPT ![c] = clock + 1]
        BY <1>1, <3>2, <3>5, FilledPage DEF Fills
      <4>2. QED  BY <1>1, <4>1 DEF Unwritten
    <3>6. CASE q = Mine(t) /\ Writes(t)
      <4>1. /\ page'[q].chunk = c /\ page'[q].data = [page[q].data EXCEPT ![c] = clock + 1]
            /\ page[q].data \in Blocks /\ latest' = [latest EXCEPT ![c] = clock + 1]
        BY <1>1, <3>2, <3>6, WrittenPage DEF Writes
      <4>2. QED  BY <1>1, <4>1 DEF Blocks
    <3>7. CASE ~(q = Mine(t) /\ (Publishes(t) \/ Fills(t) \/ Writes(t)))
      <4>1. /\ page'[q].data = NoData <=> page[q].data = NoData
            /\ page[q].data # NoData => page'[q].data[c] = page[q].data[c]
        BY <1>1, <2>1, <2>3, <3>2, <3>7, OwnSamples
      <4>2. page'[q].chunk = c
        BY <1>1, <2>1, <3>1, <3>2, <3>7, PageSteps DEF Kept
      <4>3. latest'[c] = latest[c]
        BY <2>3, <3>2, <3>7, LatestStays DEF DataInv
      <4>4. QED  BY <1>2, <3>3, <4>1, <4>2, <4>3
    <3>8. QED  BY <3>4, <3>5, <3>6, <3>7
  <2>4. QED  BY <1>1, <2>2, <2>3, ListSteps
<1>3. QED  BY <1>2 DEF ReadsSeeWrites

LEMMA FreshKept ==
  ASSUME PinsInv, PinsInv', ReadersApart, DataInv, NEW t \in Threads, Steps(t)
  PROVE  GotFresh'
<1>1. /\ TypeOK /\ TypeOK' /\ Listed /\ Moves(t) /\ latest \in [Chunks -> Versions]
      /\ \A u \in Threads : Place(u) /\ Place(u)' /\ ~At(u, "cancel")
      /\ \A u \in Threads \ {t} : thread'[u] = thread[u]
  BY ThreadSteps DEF PinsInv, TypeOK, Moves, DataInv, UsersAlone
<1>2. ASSUME NEW u \in Threads, At(u, "publish")', thread'[u].got \in Blocks
      PROVE  /\ On(u)'.data = NoData /\ thread'[u].got[On(u)'.chunk] = latest'[On(u)'.chunk]
             /\ \A w \in Threads : At(w, "create")' => Mine(w)' # Mine(u)'
  <2>1. CASE u = t
    <3>1. Fetches(t)
      BY <1>2, <2>1, ThreadSteps
    <3>2. /\ Mine(t) # NoPage /\ thread'[t].page = Mine(t) /\ page' = page /\ latest' = latest
          /\ thread'[t].got \in ReadOutcomes(On(t).chunk, On(t)) /\ thread'[t].pc = "publish"
          /\ On(t).requestPrepared
      BY <1>1, <3>1 DEF Fetches, Place, PageStates
    <3>3. PICK q, c : q = Mine(t) /\ c = On(t).chunk
      OBVIOUS
    <3>4. q \in OnList /\ c \in Chunks /\ page[q].chunk = c /\ pages[c] = q
      BY <1>1, <3>2, <3>3, MineListed DEF DataInv, Listed
    <3>5. prepared[c] # 0 /\ thread'[t].got = stored[c]
      BY <1>2, <2>1, <3>2, <3>3 DEF ReadOutcomes
    <3>6. prepared[c] > 0
      BY <1>1, <3>4, <3>5 DEF TypeOK
    <3>7. page[q].data = NoData
      BY <3>4, <3>6 DEF DataInv, UsersAlone
    <3>8. stored[c][c] = latest[c]
      <4>1. ASSUME NEW p \in OnList, page[p].chunk = c PROVE page[p].data = NoData
        BY <3>4, <3>7, <4>1, OneOfChunk
      <4>2. QED  BY <3>4, <4>1 DEF DataInv, LastWriteKept
    <3>9. ASSUME NEW w \in Threads, At(w, "create")' PROVE Mine(w)' # q
      <4>1. w # t /\ thread'[w] = thread[w]
        BY <1>1, <3>2, <3>9
      <4>2. Mine(w) = q => prepared[c] = 0
        BY <3>3, <3>9, <4>1 DEF DataInv, UsersAlone
      <4>3. QED  BY <3>6, <4>1, <4>2
    <3>10. QED  BY <2>1, <3>2, <3>3, <3>5, <3>7, <3>8, <3>9
  <2>2. CASE u # t
    <3>1. thread'[u] = thread[u] /\ At(u, "publish") /\ thread[u].got \in Blocks /\ Mine(u) # NoPage
      BY <1>1, <1>2, <2>2 DEF Place, PageStates
    <3>2. PICK q, c : q = Mine(u) /\ c = On(u).chunk
      OBVIOUS
    <3>3. q \in OnList /\ c \in Chunks /\ page[q].chunk = c /\ page[q] # NoPage /\ q \in Pages
      BY <1>1, <3>1, <3>2, MineListed DEF DataInv, TypeOK, ThreadRecord
    <3>4. /\ page[q].data = NoData /\ thread[u].got[c] = latest[c]
          /\ \A w \in Threads : At(w, "create") => Mine(w) # q
      BY <3>1, <3>2 DEF DataInv, GotFresh
    <3>5. ~(q = Mine(t) /\ (Publishes(t) \/ Fills(t) \/ Writes(t)))
      <4>1. ASSUME q = Mine(t), Publishes(t) PROVE FALSE
        <5>1. At(t, "publish")
          BY <4>1 DEF Publishes
        <5>2. InRead(t) /\ InRead(u) /\ Mine(t) = Mine(u)
          BY <3>1, <3>2, <4>1, <5>1 DEF InRead
        <5>3. QED  BY <2>2, <5>2 DEF ReadersApart
      <4>2. q = Mine(t) => ~Fills(t)
        BY <3>4 DEF Fills, Goes
      <4>3. q = Mine(t) => ~Writes(t)
        BY <1>1, <3>4, WrittenPage
      <4>4. QED  BY <4>1, <4>2, <4>3
    <3>6. page'[q] # NoPage
      BY <1>1, <3>1, <3>2 DEF Place
    <3>7. page'[q].data = NoData
      BY <1>1, <3>3, <3>4, <3>5, <3>6, OwnSamples
    <3>8. page'[q].chunk = c
      BY <1>1, <3>3, <3>5, <3>6, PageSteps DEF Kept
    <3>9. latest'[c] = latest[c]
      BY <3>3, <3>5, LatestStays DEF DataInv
    <3>10. ASSUME NEW w \in Threads, At(w, "create")' PROVE Mine(w)' # q
      <4>1. CASE w = t
        <5>1. PICK p \in Pages, d \in Chunks : Inserts(t, p, d)
          BY <3>10, <4>1, ThreadSteps
        <5>2. thread'[t].page = p /\ page[p] = NoPage
          BY <5>1, InsertedPage
        <5>3. QED  BY <3>3, <4>1, <5>2
      <4>2. CASE w # t
        BY <1>1, <3>4, <3>10, <4>2
      <4>3. QED  BY <4>1, <4>2
    <3>11. QED  BY <3>1, <3>2, <3>4, <3>7, <3>8, <3>9, <3>10
  <2>3. QED  BY <2>1, <2>2
<1>3. QED  BY <1>2 DEF GotFresh

LEMMA WritesKeptStored ==
  ASSUME Jobs = {}, PinsInv, PinsInv', DataInv, NEW t \in Threads, Steps(t)
  PROVE  LastWriteKept'
<1>1. /\ TypeOK /\ TypeOK' /\ Listed /\ Listed' /\ latest \in [Chunks -> Versions]
      /\ Place(t)
  BY DEF PinsInv, TypeOK
<1>7. ~TakesOut(t)
  BY <1>1 DEF TakesOut
<1>2. SUFFICES ASSUME NEW c \in Chunks
               PROVE  \/ stored'[c][c] = latest'[c]
                      \/ \E p \in OnList' : /\ page'[p].chunk = c /\ page'[p].dirty
                                            /\ page'[p].data # NoData /\ page'[p].data[c] = latest'[c]
  BY DEF LastWriteKept
<1>3. CASE Flushes(t)
  <2>1. latest' = latest
    BY <1>3 DEF Flushes
  <2>2. QED  BY <1>3, <2>1, FlushStores DEF DataInv
<1>4. CASE (Fills(t) \/ Writes(t)) /\ On(t).chunk = c
  <2>1. Mine(t) # NoPage
    BY <1>1, <1>4 DEF Fills, Writes, Goes, Place, PageStates
  <2>2. Mine(t) \in OnList
    BY <2>1, MineListed DEF DataInv
  <2>3. OnList' = OnList
    BY <1>4 DEF Fills, Writes, OnList
  <2>4. latest'[c] = clock + 1
    BY <1>1, <1>4 DEF Fills, Writes
  <2>5. /\ page'[Mine(t)].chunk = c /\ page'[Mine(t)].dirty
        /\ page'[Mine(t)].data # NoData /\ page'[Mine(t)].data[c] = clock + 1
    <3>1. CASE Fills(t)
      <4>1. [Unwritten EXCEPT ![c] = clock + 1][c] = clock + 1
        BY DEF Unwritten
      <4>2. QED  BY <1>1, <1>4, <3>1, <4>1, FilledPage
    <3>2. CASE Writes(t)
      <4>1. ASSUME NEW d \in Blocks PROVE [d EXCEPT ![c] = clock + 1][c] = clock + 1
        BY DEF Blocks
      <4>2. /\ page'[Mine(t)].chunk = On(t).chunk /\ page'[Mine(t)].dirty
            /\ On(t).data \in Blocks /\ page'[Mine(t)].data \in Blocks
            /\ page'[Mine(t)].data = [On(t).data EXCEPT ![On(t).chunk] = clock + 1]
        BY <1>1, <3>2, WrittenPage
      <4>3. page'[Mine(t)].data # NoData
        BY <2>2, <4>2
      <4>4. QED  BY <1>4, <4>1, <4>2, <4>3
    <3>3. QED  BY <1>4, <3>1, <3>2
  <2>6. QED  BY <2>2, <2>3, <2>4, <2>5
<1>5. CASE ~Flushes(t) /\ ~((Fills(t) \/ Writes(t)) /\ On(t).chunk = c)
  <2>1. latest'[c] = latest[c]
    <3>1. CASE UNCHANGED latest
      BY <3>1
    <3>2. CASE (Fills(t) \/ Writes(t)) /\ latest' = [latest EXCEPT ![On(t).chunk] = clock + 1]
      BY <1>1, <1>5, <3>2
    <3>3. QED  BY <3>1, <3>2, StoreSteps
  <2>2. CASE \E p \in OnList : /\ page[p].chunk = c /\ page[p].dirty
                               /\ page[p].data # NoData /\ page[p].data[c] = latest[c]
    <3>1. PICK p \in OnList : /\ page[p].chunk = c /\ page[p].dirty
                              /\ page[p].data # NoData /\ page[p].data[c] = latest[c]
      BY <2>2
    <3>2. CASE Evicts(t, p)
      <4>1. CopyMargins(page, p)[p] = page[p]
        BY EvictPages
      <4>2. stored' = WriteBack(CopyMargins(page, p), {p})
        BY <3>2 DEF Evicts
      <4>3. PICK pg : pg = CopyMargins(page, p)
        OBVIOUS
      <4>4. \/ \E q \in OnList : /\ q \in {p} /\ pg[q].dirty /\ pg[q].chunk = c
                                 /\ WriteBack(pg, {p})[c] = pg[q].data
            \/ \A q \in OnList : ~(q \in {p} /\ pg[q].dirty /\ pg[q].chunk = c)
        BY <1>1, WrittenBack
      <4>5. WriteBack(pg, {p})[c] = page[p].data
        BY <3>1, <4>1, <4>3, <4>4
      <4>6. QED  BY <2>1, <3>1, <4>2, <4>3, <4>5
    <3>3. CASE ~Evicts(t, p)
      <4>1. p \in OnList'
        BY <1>1, <1>7, <3>3, ListSteps
      <4>2. p \in Pages /\ page[p] # NoPage /\ page'[p] # NoPage
        BY <1>1, <4>1, ListedPages DEF Listed, Live, PinsInv
      <4>3. CASE p = Mine(t) /\ Publishes(t)
        <5>0. At(t, "publish")
          BY <4>3 DEF Publishes
        <5>1. /\ page'[p].chunk = c /\ page'[p].dirty
              /\ page'[p].data = IF thread[t].got = Failed THEN page[p].data ELSE thread[t].got
              /\ thread[t].got \in Blocks \cup {Failed}
          BY <3>1, <4>3, PublishedPage
        <5>2. thread[t].got \notin Blocks
          BY <3>1, <4>3, <5>0, <5>1 DEF DataInv, GotFresh
        <5>3. QED  BY <2>1, <3>1, <4>1, <5>1, <5>2
      <4>4. CASE ~(p = Mine(t) /\ Publishes(t))
        <5>1. ~(p = Mine(t) /\ (Fills(t) \/ Writes(t)))
          BY <1>5, <3>1
        <5>2. /\ page'[p].data # NoData /\ page'[p].data[c] = page[p].data[c] /\ page'[p].dirty
          BY <1>1, <1>5, <3>1, <4>2, <4>4, <5>1, OwnSamples
        <5>3. page'[p].chunk = c
          BY <1>1, <3>1, <4>2, <4>4, <5>1, PageSteps DEF Kept
        <5>4. QED  BY <2>1, <3>1, <4>1, <5>2, <5>3
      <4>5. QED  BY <4>3, <4>4
    <3>4. QED  BY <3>2, <3>3
  <2>3. CASE stored[c][c] = latest[c]
    <3>1. CASE UNCHANGED stored
      BY <2>1, <2>3, <3>1
    <3>2. CASE \E v \in Pages : Evicts(t, v)
      <4>1. PICK v \in Pages : Evicts(t, v)
        BY <3>2
      <4>2. v \in OnList /\ stored' = WriteBack(CopyMargins(page, v), {v})
        BY <4>1 DEF Evicts
      <4>3. CopyMargins(page, v)[v] = page[v]
        BY <4>2, EvictPages
      <4>4. PICK pg : pg = CopyMargins(page, v)
        OBVIOUS
      <4>5. \/ page[v].dirty /\ page[v].chunk = c /\ stored'[c] = page[v].data
            \/ stored'[c] = stored[c]
        <5>1. \/ \E q \in OnList : /\ q \in {v} /\ pg[q].dirty /\ pg[q].chunk = c
                                   /\ WriteBack(pg, {v})[c] = pg[q].data
              \/ WriteBack(pg, {v})[c] = stored[c]
          BY <1>1, WrittenBack
        <5>2. QED  BY <4>2, <4>3, <4>4, <5>1
      <4>6. page[v].dirty /\ page[v].chunk = c => page[v].data[c] = latest[c]
        <5>1. v \in Live
          BY <4>2, ListedPages DEF PinsInv
        <5>2. page[v].dirty => page[v].data # NoData
          BY <5>1 DEF PinsInv, DataThere
        <5>3. QED  BY <4>2, <5>2 DEF DataInv, ReadsSeeWrites
      <4>7. QED  BY <2>1, <2>3, <4>5, <4>6
    <3>3. QED  BY <1>5, <3>1, <3>2, StoreSteps
  <2>4. QED  BY <2>2, <2>3 DEF DataInv, LastWriteKept
<1>6. QED  BY <1>3, <1>4, <1>5

-----------------------------------------------------------------------------
(* The data of pages, along behaviours.                                    *)

PagesInv == PinsInv /\ ReadersApart /\ (Jobs = {} => DataInv)

LEMMA InitPages == Init => PagesInv
<1>1. SUFFICES ASSUME Init PROVE PagesInv
  OBVIOUS
<1>2. PinsInv
  BY <1>1, InitPins
<1>3. /\ \A t \in Threads : thread[t].pc = "idle" /\ Mine(t) = NoPage
      /\ \A c \in Chunks : prepared[c] = 0 /\ stored[c][c] = 0 /\ latest[c] = 0
      /\ OnList = {}
  BY <1>1 DEF Init, Unwritten, OnList, ToSet
<1>4. ReadersApart
  BY <1>3 DEF ReadersApart, InRead
<1>5. UsersAlone
  BY <1>3 DEF UsersAlone
<1>6. LastWriteKept /\ ReadsSeeWrites /\ GotFresh
  BY <1>3 DEF LastWriteKept, ReadsSeeWrites, GotFresh
<1>7. QED  BY <1>1, <1>2, <1>4, <1>5, <1>6 DEF PagesInv, DataInv

LEMMA NextPages ==
  ASSUME NoDuplicates, PagesInv, [Next]_vars
  PROVE  PagesInv'
<1>1. PinsInv'
  BY NextInv DEF PagesInv
<1>2. CASE Next
  <2>1. PICK t \in Threads : Continue(t) \/ Call(t)
    BY <1>2 DEF Next
  <2>2. Steps(t)
    BY <2>1, NextSteps DEF PagesInv
  <2>3. ReadersApart'
    BY <1>1, <2>2, ReadersKept DEF PagesInv
  <2>4. ASSUME Jobs = {} PROVE DataInv'
    <3>1. DataInv
      BY <2>4 DEF PagesInv
    <3>2. UsersAlone'
      BY <1>1, <2>2, <2>4, <3>1, AloneKept DEF PagesInv, DataInv
    <3>3. LastWriteKept'
      BY <1>1, <2>2, <2>4, <3>1, WritesKeptStored DEF PagesInv
    <3>4. ReadsSeeWrites'
      BY <1>1, <2>2, <2>4, <3>1, ReadsKept DEF PagesInv
    <3>5. GotFresh'
      BY <1>1, <2>2, <2>4, <3>1, FreshKept DEF PagesInv
    <3>6. QED  BY <3>2, <3>3, <3>4, <3>5 DEF DataInv
  <2>5. QED  BY <1>1, <2>3, <2>4 DEF PagesInv
<1>3. CASE UNCHANGED vars
  <2>1. UNCHANGED <<pages, lru, page, thread, prepared, stored, latest>>
    BY <1>3 DEF vars, cacheVars, storeVars, history
  <2>2. ReadersApart'
    BY <2>1 DEF PagesInv, ReadersApart, InRead
  <2>3. Jobs = {} => UsersAlone'
    BY <2>1 DEF PagesInv, DataInv, UsersAlone, Asks
  <2>4. Jobs = {} => LastWriteKept' /\ ReadsSeeWrites'
    BY <2>1 DEF PagesInv, DataInv, LastWriteKept, ReadsSeeWrites, OnList
  <2>5. Jobs = {} => GotFresh'
    BY <2>1 DEF PagesInv, DataInv, GotFresh
  <2>6. QED  BY <1>1, <2>2, <2>3, <2>4, <2>5 DEF PagesInv, DataInv
<1>4. QED  BY <1>2, <1>3

THEOREM PagesInvariance ==
  ASSUME NoDuplicates
  PROVE  Spec => []PagesInv
<1>1. Init => PagesInv
  BY InitPages
<1>2. PagesInv /\ [Next]_vars => PagesInv'
  BY NextPages
<1>3. QED  BY <1>1, <1>2, PTL DEF Spec

\* What jobs read is never written.
LEMMA NothingWritten ==
  ASSUME PinsInv, Jobs # {}
  PROVE  LastWriteKept /\ ReadsSeeWrites /\ ~committing
<1>1. Versions = {0} /\ Committers = {}
  BY DEF Versions
<1>2. ASSUME NEW b \in Blocks, NEW c \in Chunks PROVE b[c] = 0
  BY <1>1 DEF Blocks
<1>3. TypeOK /\ ~committing
  BY <1>1 DEF PinsInv, CommitsOnly
<1>4. \A c \in Chunks : latest[c] = 0 /\ stored[c][c] = 0
  BY <1>1, <1>2, <1>3 DEF TypeOK
<1>5. ASSUME NEW p \in OnList, page[p].data # NoData
      PROVE  page[p].data[page[p].chunk] = latest[page[p].chunk]
  <2>1. page[p] \in PageRecord
    BY ListedPages DEF PinsInv
  <2>2. page[p].data \in Blocks /\ page[p].chunk \in Chunks
    BY <1>5, <2>1 DEF PageRecord
  <2>3. QED  BY <1>2, <1>4, <2>2
<1>6. QED  BY <1>3, <1>4, <1>5 DEF LastWriteKept, ReadsSeeWrites

\* Nothing written is lost: the last version of a chunk is in the store or in a
\* dirty page, through LimitPageListSize, CommitInternal and every reload.
THEOREM NothingLost ==
  ASSUME NoDuplicates
  PROVE  Spec => []LastWriteKept
<1>1. PagesInv => LastWriteKept
  BY NothingWritten DEF PagesInv, DataInv
<1>2. QED  BY <1>1, PagesInvariance, PTL

\* Whoever reads a page, now or after it was evicted and read again, has the
\* last version of its chunk.
THEOREM WritesSeen ==
  ASSUME NoDuplicates
  PROVE  Spec => []ReadsSeeWrites
<1>1. PagesInv => ReadsSeeWrites
  BY NothingWritten DEF PagesInv, DataInv
<1>2. QED  BY <1>1, PagesInvariance, PTL

\* When CommitInternal has ended the store has every write, and no page is dirty.
THEOREM CommitsSave ==
  ASSUME NoDuplicates
  PROVE  Spec => CommitSaves
<1> DEFINE Saves == committing /\ ~committing' =>
                      /\ \A p \in OnList : ~page'[p].dirty
                      /\ \A c \in Chunks : stored'[c][c] = latest[c]
<1>1. ASSUME PagesInv, Next PROVE Saves
  <2>1. SUFFICES ASSUME committing, ~committing'
                 PROVE  /\ \A p \in OnList : ~page'[p].dirty
                        /\ \A c \in Chunks : stored'[c][c] = latest[c]
    OBVIOUS
  <2>2. PinsInv /\ LastWriteKept /\ ReadsSeeWrites
    BY <1>1, NothingWritten DEF PagesInv, DataInv
  <2>3. PICK t \in Threads : Continue(t) \/ Call(t)
    BY <1>1 DEF Next
  <2>4. Steps(t)
    BY <2>2, <2>3, NextSteps
  <2>5. Flushes(t)
    BY <2>1, <2>4 DEF Steps, Still, Fetches, Publishes, Inserts, TakesOut, Deletes, Fills,
       Writes, Evicts
  <2>6. \A c \in Chunks : stored'[c][c] = latest[c]
    BY <2>2, <2>5, FlushStores
  <2>7. \A p \in OnList : ~page'[p].dirty
    <3>1. OnList \subseteq Live
      BY <2>2, ListedPages DEF PinsInv
    <3>2. QED  BY <2>2, <2>5, <3>1, FlushPages
  <2>8. QED  BY <2>6, <2>7
<1>2. PagesInv /\ [Next]_vars => [Saves]_vars
  BY <1>1
<1>3. QED  BY <1>2, PagesInvariance, PTL DEF Spec, CommitSaves

-----------------------------------------------------------------------------
(* Where nobody creates pages, a page that waits for its data has somebody   *)
(* who is to read it, and the store has one preparation of it.               *)

Expects(t) == thread[t].pc \in {"prepared", "enter", "fetch", "publish"}
Rested == {"holding", "limit", "limitBlocked", "limitWait", "commitWait", "commitFlush"}
WaitedFor ==
  /\ \A t \in Threads : ~At(t, "create")
  /\ \A t \in Threads : thread[t].pc \in Rested /\ Mine(t) # NoPage => ~On(t).requestPrepared
  /\ \A p \in Live : page[p].data # NoData => ~page[p].requestPrepared
  /\ \A p \in OnList : page[p].requestPrepared => \E t \in Threads : Expects(t) /\ Mine(t) = p

\* A thread that rests after the step has a page that was read.
LEMMA RestsRead ==
  ASSUME PinsInv, ReadersApart, WaitedFor, NEW t \in Threads, Steps(t),
         thread'[t].pc \in Rested, thread'[t].page # NoPage, ~Publishes(t)
  PROVE  thread'[t].page = Mine(t) /\ ~On(t).requestPrepared
<1>1. TypeOK /\ Place(t)
  BY DEF PinsInv
<1>2. CASE Still(t)
  <2>1. CASE Begins(t)
    BY <1>1, <2>1 DEF Begins, Goes, Keeps, Rested, Place
  <2>2. CASE Reads(t)
    <3>1. CASE thread[t].pc \in {"prepared", "fetch"}
      BY <2>2, <3>1 DEF Reads, Goes, Keeps, Rested
    <3>2. CASE At(t, "await") /\ On(t).settingData = 0 /\ thread'[t].page = Mine(t)
      <4>1. ASSUME On(t).requestPrepared PROVE FALSE
        <5>1. PICK u \in Threads : InRead(u) /\ Mine(u) = Mine(t)
          BY <3>2, <4>1 DEF ReadersApart
        <5>2. On(u).settingData > 0
          BY <5>1, SetterCounts DEF InRead
        <5>3. QED  BY <3>2, <5>1, <5>2
      <4>2. QED  BY <3>2, <4>1
    <3>3. QED  BY <2>2, <3>1, <3>2 DEF Reads, Goes, Keeps, Rested
  <2>3. CASE GivesBack(t)
    BY <2>3 DEF GivesBack
  <2>4. CASE TakesBuffer(t)
    BY <2>4 DEF TakesBuffer, WaitedFor, Rested
  <2>5. CASE Limits(t)
    BY <2>5 DEF Limits, Goes, Keeps, WaitedFor, Rested
  <2>6. CASE Commits(t)
    <3>1. thread[t].pc \in {"idle", "holding", "commitWait"} /\ thread'[t].page = Mine(t)
      BY <2>6 DEF Commits, Resting, Keeps
    <3>2. thread[t].pc # "idle"
      BY <1>1, <3>1 DEF Place
    <3>3. QED  BY <3>1, <3>2 DEF WaitedFor, Rested
  <2>7. QED  BY <1>2, <2>1, <2>2, <2>3, <2>4, <2>5, <2>6 DEF Still
<1>3. CASE Fetches(t) \/ TakesOut(t) \/ Deletes(t) \/ Fills(t)
  BY <1>3 DEF Fetches, TakesOut, Deletes, Fills, Goes, WaitedFor, Rested
<1>4. CASE \E p \in Pages, c \in Chunks : Inserts(t, p, c)
  BY <1>4, InsertedPage DEF Rested
<1>5. CASE Writes(t)
  BY <1>5 DEF Writes, WaitedFor, Rested
<1>6. CASE \E v \in Pages : Evicts(t, v)
  BY <1>6 DEF Evicts, WaitedFor, Rested
<1>7. CASE Flushes(t)
  <2>1. At(t, "commitFlush") /\ thread'[t].page = Mine(t)
    BY <1>7 DEF Flushes, Goes, Keeps
  <2>2. QED  BY <2>1 DEF WaitedFor, Rested
<1>8. QED  BY <1>2, <1>3, <1>4, <1>5, <1>6, <1>7 DEF Steps

\* Who has a page that waits for its data expects it, or another one reads it.
LEMMA SomeoneExpects ==
  ASSUME PinsInv, ReadersApart, WaitedFor, NEW u \in Threads, ~At(u, "cancel"),
         Mine(u) # NoPage, On(u).requestPrepared
  PROVE  Expects(u) \/ \E w \in Threads : InRead(w) /\ Mine(w) = Mine(u)
<1>1. Place(u) /\ thread[u].pc \in Positions
  BY DEF PinsInv, TypeOK, ThreadRecord
<1>2. thread[u].pc \notin Rested \cup {"idle", "waitCommit", "create"}
  BY <1>1 DEF WaitedFor, Place
<1>3. CASE thread[u].pc \in {"leave", "await"}
  BY <1>3 DEF ReadersApart
<1>4. QED  BY <1>1, <1>2, <1>3 DEF Positions, Rested, Expects

\* Who expects a page goes on doing so, unless it is read or another one does.
LEMMA ExpectSteps ==
  ASSUME PinsInv, NEW t \in Threads, Steps(t), Expects(t), On(t).requestPrepared
  PROVE  \/ Expects(t)' /\ thread'[t].page = Mine(t)
         \/ Publishes(t) \/ TakesOut(t)
         \/ At(t, "enter") /\ On(t).settingData # 0
         \/ At(t, "prepared") /\ On(t).pins > 1
<1>1. CASE Still(t)
  <2>1. CASE Begins(t)
    BY <2>1 DEF Begins, Goes, Expects
  <2>2. CASE Reads(t)
    BY <2>2 DEF Reads, Goes, Keeps, Expects
  <2>3. CASE GivesBack(t)
    BY <2>3 DEF GivesBack, Expects
  <2>4. CASE TakesBuffer(t)
    BY <2>4 DEF TakesBuffer, Expects
  <2>5. CASE Limits(t)
    BY <2>5 DEF Limits, Goes, Expects
  <2>6. CASE Commits(t)
    BY <2>6 DEF Commits, Resting, Expects
  <2>7. QED  BY <1>1, <2>1, <2>2, <2>3, <2>4, <2>5, <2>6 DEF Still
<1>2. CASE Fetches(t)
  BY <1>2 DEF Fetches, Expects
<1>3. CASE \E p \in Pages, c \in Chunks : Inserts(t, p, c)
  BY <1>3, InsertedPage DEF Expects
<1>4. CASE \E v \in Pages : Evicts(t, v)
  BY <1>4 DEF Evicts, Expects
<1>5. CASE Deletes(t) \/ Fills(t) \/ Writes(t) \/ Flushes(t)
  BY <1>5 DEF Deletes, Fills, Writes, Flushes, Goes, Expects
<1>6. QED  BY <1>1, <1>2, <1>3, <1>4, <1>5 DEF Steps

\* A page that t does not hold alone.
LEMMA AnotherExpects ==
  ASSUME PinsInv, ReadersApart, WaitedFor, NEW t \in Threads, At(t, "prepared"),
         On(t).pins > 1, On(t).requestPrepared
  PROVE  \E w \in Threads \ {t} : Expects(w) /\ Mine(w) = Mine(t)
<1>1. Place(t) /\ Mine(t) # NoPage /\ Mine(t) \in Live
  BY PagesAlive DEF PinsInv, Place, PageStates
<1>2. PICK p : p = Mine(t)
  OBVIOUS
<1>3. Victims(p) = {}
  BY <1>1, <1>2 DEF Victims, PinsInv, DataThere, WaitedFor
<1>4. \E u \in Threads \ {t} : u \in Holders(p)
  <2>1. SUFFICES ASSUME Holders(p) \subseteq {t} PROVE FALSE
    BY DEF Holders
  <2>2. Holders(p) = {t}
    BY <1>2, <2>1 DEF Holders
  <2>3. page[p].pins = Cardinality({t}) + Cardinality({})
    BY <1>1, <1>2, <1>3, <2>2 DEF PinsInv, Counted
  <2>4. Cardinality({t}) = 1 /\ Cardinality({}) = 0
    BY FS_Singleton, FS_EmptySet
  <2>5. page[p].pins = 1
    BY <2>3, <2>4
  <2>6. QED  BY <1>2, <2>5
<1>5. PICK u \in Threads \ {t} : Mine(u) = p /\ ~At(u, "cancel")
  BY <1>4 DEF Holders
<1>6. CASE Expects(u)
  BY <1>2, <1>5, <1>6
<1>7. CASE \E w \in Threads : InRead(w) /\ Mine(w) = Mine(u)
  BY <1>2, <1>5, <1>7 DEF InRead, Expects
<1>8. Expects(u) \/ \E w \in Threads : InRead(w) /\ Mine(w) = Mine(u)
  BY <1>1, <1>2, <1>5, SomeoneExpects
<1>9. QED  BY <1>6, <1>7, <1>8

LEMMA WaitedForKept ==
  ASSUME Creators = {}, PinsInv, PinsInv', ReadersApart, WaitedFor, NEW t \in Threads, Steps(t)
  PROVE  WaitedFor'
<1>1. /\ Moves(t) /\ TypeOK /\ TypeOK' /\ Listed /\ Listed' /\ \A u \in Threads : Place(u) /\ Place(u)'
      /\ \A u \in Threads \ {t} : thread'[u] = thread[u]
      /\ ~Fills(t)
  BY ThreadSteps DEF PinsInv, Moves, Fills, Goes, WaitedFor
<1>2. \A u \in Threads : ~At(u, "create")'
  <2>1. ~At(t, "create")'
    <3>1. SUFFICES ASSUME NEW p \in Pages, NEW c \in Chunks, Inserts(t, p, c), At(t, "create")'
                   PROVE  FALSE
      BY ThreadSteps
    <3>2. QED  BY <3>1 DEF Inserts
  <2>2. QED  BY <1>1, <2>1 DEF WaitedFor
<1>3. ASSUME NEW q \in Pages, page'[q] # NoPage
      PROVE  \/ page[q] = NoPage /\ \E c \in Chunks : Inserts(t, q, c)
             \/ page[q] # NoPage /\ q \in Live /\ Kept(page[q], page'[q])
             \/ page[q] # NoPage /\ q = Mine(t) /\ Publishes(t) /\ ~page'[q].requestPrepared
  BY <1>1, <1>3, PageSteps, PublishedPage DEF Live
<1>4. ASSUME NEW u \in Threads, thread'[u].pc \in Rested, thread'[u].page # NoPage
      PROVE  ~On(u)'.requestPrepared
  <2>1. PICK q : q = thread'[u].page
    OBVIOUS
  <2>2. q \in Pages /\ page'[q] # NoPage
    BY <1>1, <1>4, <2>1 DEF Place, TypeOK, ThreadRecord
  <2>3. CASE u = t /\ Publishes(t)
    <3>1. q = Mine(t)
      BY <2>1, <2>3 DEF Publishes
    <3>2. QED  BY <2>1, <2>3, <3>1, PublishedPage
  <2>4. CASE ~(u = t /\ Publishes(t))
    <3>1. q = Mine(u) /\ ~page[q].requestPrepared
      <4>1. CASE u = t
        BY <1>4, <2>1, <2>4, <4>1, RestsRead
      <4>2. CASE u # t
        BY <1>1, <1>4, <2>1, <4>2 DEF WaitedFor
      <4>3. QED  BY <4>1, <4>2
    <3>2. page[q] # NoPage
      BY <1>1, <2>1, <1>4, <3>1 DEF Place
    <3>3. QED  BY <1>3, <2>1, <2>2, <3>1, <3>2 DEF Kept
  <2>5. QED  BY <2>3, <2>4
<1>5. ASSUME NEW q \in Pages, page'[q] # NoPage, page'[q].data # NoData
      PROVE  ~page'[q].requestPrepared
  <2>1. CASE \E c \in Chunks : Inserts(t, q, c)
    BY <1>5, <2>1, InsertedPage
  <2>2. CASE q \in Live /\ Kept(page[q], page'[q])
    BY <1>5, <2>2 DEF WaitedFor, Kept
  <2>3. QED  BY <1>3, <1>5, <2>1, <2>2
<1>6. ASSUME NEW q \in OnList', page'[q].requestPrepared
      PROVE  \E u \in Threads : Expects(u)' /\ Mine(u)' = q
  <2>1. q \in Pages /\ page'[q] # NoPage
    <3>1. OnList' \subseteq Pages
      BY <1>1, ListMembers DEF TypeOK, OnList
    <3>2. QED  BY <1>1, <3>1 DEF Listed
  <2>2. CASE \E c \in Chunks : Inserts(t, q, c)
    <3>1. thread'[t].page = q /\ thread'[t].pc \in {"prepared", "create"}
      <4>1. PICK c \in Chunks : Inserts(t, q, c)
        BY <2>2
      <4>2. QED  BY <2>1, <4>1, InsertedPage
    <3>2. thread'[t].pc # "create"
      BY <1>2
    <3>3. QED  BY <3>1, <3>2 DEF Expects
  <2>3. CASE q \in Live /\ Kept(page[q], page'[q])
    <3>1. q \in OnList /\ page[q].requestPrepared /\ page[q] # NoPage
      <4>1. OnList' \subseteq OnList \cup {p \in Pages : page[p] = NoPage}
        <5>1. ASSUME NEW p \in Pages, NEW c \in Chunks, Inserts(t, p, c) PROVE page[p] = NoPage
          BY <5>1 DEF Inserts
        <5>2. QED  BY <1>1, <5>1, ListSteps
      <4>2. QED  BY <1>6, <2>3, <4>1 DEF Kept, Live
    <3>2. PICK w \in Threads : Expects(w) /\ Mine(w) = q
      BY <3>1 DEF WaitedFor
    <3>3. CASE w # t
      BY <1>1, <3>2, <3>3 DEF Expects
    <3>4. CASE w = t
      <4>1. ~Publishes(t)
        BY <1>6, <3>2, <3>4, PublishedPage
      <4>2. ~TakesOut(t)
        <5>1. ASSUME TakesOut(t) PROVE FALSE
          <6>1. At(t, "cancel")' /\ thread'[t].page = q
            BY <3>2, <3>4, <5>1 DEF TakesOut, Keeps
          <6>2. q \notin OnList'
            BY <1>1, <2>1, <6>1 DEF Place
          <6>3. QED  BY <1>6, <6>2
        <5>2. QED  BY <5>1
      <4>3. CASE At(t, "enter") /\ On(t).settingData # 0
        <5>1. PICK x \in Threads : InRead(x) /\ Mine(x) = q
          BY <2>3, <3>1, <3>2, <3>4, <4>3, SomeoneReads
        <5>2. x # t
          BY <4>3, <5>1 DEF InRead
        <5>3. QED  BY <1>1, <5>1, <5>2 DEF InRead, Expects
      <4>4. CASE At(t, "prepared") /\ On(t).pins > 1
        <5>1. PICK x \in Threads \ {t} : Expects(x) /\ Mine(x) = q
          BY <3>1, <3>2, <3>4, <4>4, AnotherExpects
        <5>2. QED  BY <1>1, <5>1 DEF Expects
      <4>5. QED  BY <3>1, <3>2, <3>4, <4>1, <4>2, <4>3, <4>4, ExpectSteps
    <3>5. QED  BY <3>3, <3>4
  <2>4. QED  BY <1>3, <1>6, <2>1, <2>2, <2>3
<1>7. QED
  <2>1. \A p \in OnList' : page'[p].requestPrepared => \E u \in Threads : Expects(u)' /\ Mine(u)' = p
    BY <1>6
  <2>2. \A p \in Live' : page'[p].data # NoData => ~page'[p].requestPrepared
    BY <1>5 DEF Live
  <2>3. \A u \in Threads : thread'[u].pc \in Rested /\ Mine(u)' # NoPage => ~On(u)'.requestPrepared
    BY <1>4
  <2>4. QED  BY <1>2, <2>1, <2>2, <2>3 DEF WaitedFor

\* The pages of chunk c that the store has a preparation of.
Owed(c) == {p \in Live : /\ page[p].chunk = c /\ page[p].requestPrepared
                         /\ ~\E t \in Threads : At(t, "publish") /\ Mine(t) = p}

\* Pages are deleted one at a time.
LEMMA PageGoes ==
  ASSUME PinsInv, PinsInv', NEW t \in Threads, Steps(t), NEW q \in Live, page'[q] = NoPage
  PROVE  (Deletes(t) /\ q = Mine(t)) \/ Evicts(t, q)
<1>1. TypeOK /\ TypeOK' /\ Place(t) /\ Place(t)' /\ q \in Pages /\ page[q] # NoPage /\ page[q] \in PageRecord
  BY DEF PinsInv, Live, TypeOK
<1>2. CASE Still(t)
  BY <1>1, <1>2 DEF Still, Alike
<1>3. CASE Fetches(t)
  BY <1>1, <1>3 DEF Fetches
<1>4. CASE Publishes(t) \/ Fills(t) \/ TakesOut(t) \/ Writes(t)
  <2>1. thread[t].pc \in PageStates \/ Writes(t)
    BY <1>4 DEF Publishes, Fills, TakesOut, Goes, PageStates
  <2>2. Mine(t) # NoPage
    BY <1>1, <2>1, WrittenPage DEF Place
  <2>3. thread'[t].page = Mine(t)
    BY <1>4 DEF Publishes, Fills, TakesOut, Writes, Goes, Keeps
  <2>4. page'[Mine(t)] # NoPage
    BY <1>1, <2>2, <2>3 DEF Place
  <2>5. QED  BY <1>1, <1>4, <2>4 DEF Publishes, Fills, TakesOut, Writes, Untouched
<1>5. CASE \E p \in Pages, c \in Chunks : Inserts(t, p, c)
  BY <1>1, <1>5 DEF Inserts, Untouched
<1>6. CASE Deletes(t)
  BY <1>1, <1>6 DEF Deletes, Untouched
<1>7. CASE \E v \in Pages : Evicts(t, v)
  <2>1. PICK v \in Pages : Evicts(t, v)
    BY <1>7
  <2>2. PICK saved : saved = NoteSeen(CopyMargins(page, v), {v})
    OBVIOUS
  <2>3. page' = [saved EXCEPT ![v] = NoPage] /\ v \in OnList /\ DOMAIN saved = Pages
    BY <2>1, <2>2 DEF Evicts, NoteSeen
  <2>4. saved[q] # NoPage
    <3>1. Copied(page[q], saved[q])
      BY <2>2, <2>3, EvictPages
    <3>2. QED  BY <3>1 DEF Copied
  <2>5. QED  BY <1>1, <2>1, <2>3, <2>4
<1>8. CASE Flushes(t)
  <2>1. Saved(page[q], page'[q])
    BY <1>8, FlushPages
  <2>2. QED  BY <1>1, <2>1 DEF Saved
<1>9. QED  BY <1>2, <1>3, <1>4, <1>5, <1>6, <1>7, <1>8 DEF Steps

\* A page is owed after the step as before it, but for the one that t inserts,
\* begins to read or deletes.
LEMMA OwedSteps ==
  ASSUME Creators = {}, PinsInv, PinsInv', ReadersApart, WaitedFor, NEW t \in Threads, Steps(t),
         NEW q \in Pages, \A c \in Chunks : ~Inserts(t, q, c),
         ~(q = Mine(t) /\ (Fetches(t) \/ Deletes(t))), NEW c \in Chunks
  PROVE  q \in Owed(c) <=> q \in Owed(c)'
<1>1. /\ Moves(t) /\ TypeOK /\ TypeOK' /\ \A u \in Threads \ {t} : thread'[u] = thread[u]
      /\ ~Fills(t)
  BY ThreadSteps DEF PinsInv, Moves, Fills, Goes, WaitedFor
<1>2. CASE page[q] = NoPage
  <2>1. page'[q] = NoPage
    BY <1>1, <1>2, PageSteps
  <2>2. QED  BY <1>2, <2>1 DEF Owed, Live
<1>3. CASE page[q] # NoPage /\ page'[q] = NoPage
  <2>1. q \in Live /\ Evicts(t, q)
    BY <1>3, PageGoes DEF Live
  <2>2. q \in OnList
    BY <2>1 DEF Evicts
  <2>3. ~page[q].requestPrepared
    BY <2>1, <2>2, EvictedAlone DEF WaitedFor
  <2>4. QED  BY <1>3, <2>3 DEF Owed, Live
<1>4. CASE page[q] # NoPage /\ page'[q] # NoPage
  <2>1. CASE q = Mine(t) /\ Publishes(t)
    <3>1. At(t, "publish") /\ ~page'[q].requestPrepared
      BY <2>1, PublishedPage DEF Publishes
    <3>2. QED  BY <2>1, <3>1 DEF Owed
  <2>2. CASE ~(q = Mine(t) /\ Publishes(t))
    <3>1. page'[q].chunk = page[q].chunk /\ page'[q].requestPrepared = page[q].requestPrepared
      BY <1>1, <1>4, <2>2, PageSteps DEF Kept
    <3>2. ASSUME NEW u \in Threads PROVE At(u, "publish") /\ Mine(u) = q <=> At(u, "publish")' /\ Mine(u)' = q
      <4>1. CASE u # t
        BY <1>1, <4>1
      <4>2. CASE u = t
        <5>1. ~(At(t, "publish") /\ Mine(t) = q)
          BY <2>2, ThreadSteps
        <5>2. ASSUME At(t, "publish")', Mine(t)' = q PROVE FALSE
          <6>1. Fetches(t)
            BY <5>2, ThreadSteps
          <6>2. Mine(t) = q
            BY <5>2, <6>1 DEF Fetches
          <6>3. QED  BY <6>1, <6>2
        <5>3. QED  BY <4>2, <5>1, <5>2
      <4>3. QED  BY <4>1, <4>2
    <3>3. QED  BY <1>4, <3>1, <3>2 DEF Owed, Live
  <2>3. QED  BY <2>1, <2>2
<1>5. QED  BY <1>2, <1>3, <1>4

LEMMA OwedCounts ==
  ASSUME TypeOK, TypeOK', NEW c \in Chunks, NEW x \in Pages,
         \A q \in Pages \ {x} : q \in Owed(c) <=> q \in Owed(c)'
  PROVE  /\ Cardinality(Owed(c)) \in Nat /\ Cardinality(Owed(c)') \in Nat
         /\ x \in Owed(c) => Cardinality(Owed(c)) > 0
         /\ Cardinality(Owed(c)') + Bit(x \in Owed(c)) = Cardinality(Owed(c)) + Bit(x \in Owed(c)')
<1>1. Owed(c) \in SUBSET Pages /\ Owed(c)' \in SUBSET Pages
  BY DEF Owed, Live
<1>2. PICK A, B : A = Owed(c) /\ B = Owed(c)'
  OBVIOUS
<1>3. A \in SUBSET Pages /\ B \in SUBSET Pages /\ A \ {x} = B \ {x}
  BY <1>1, <1>2
<1>4. /\ Cardinality(A) \in Nat /\ Cardinality(B) \in Nat
      /\ Cardinality(B) + Bit(x \in A) = Cardinality(A) + Bit(x \in B)
  BY <1>3, CountMoves
<1>5. x \in A => Cardinality(A) # 0
  BY <1>3, FS_Subset, FS_EmptySet
<1>6. QED  BY <1>2, <1>4, <1>5

LEMMA PreparationsKept ==
  ASSUME Creators = {}, PinsInv, PinsInv', ReadersApart, WaitedFor,
         NEW t \in Threads, Steps(t), NEW c \in Chunks, prepared[c] = Cardinality(Owed(c))
  PROVE  prepared'[c] = Cardinality(Owed(c)')
<1>1. TypeOK /\ TypeOK' /\ Place(t) /\ prepared[c] \in Nat
  BY DEF PinsInv, TypeOK
<1>2. ASSUME \A q \in Pages : q \in Owed(c) <=> q \in Owed(c)'
      PROVE  Cardinality(Owed(c)') = Cardinality(Owed(c))
  <2>1. Owed(c) = Owed(c)'
    BY <1>2 DEF Owed, Live
  <2>2. QED  BY <2>1
<1>3. CASE Fetches(t)
  <2>1. /\ Mine(t) \in Pages /\ Mine(t) \in Live /\ On(t).requestPrepared /\ On(t).chunk \in Chunks
        /\ At(t, "fetch") /\ At(t, "publish")' /\ thread'[t].page = Mine(t) /\ page' = page
        /\ prepared' = [prepared EXCEPT ![On(t).chunk] = IF @ = 0 THEN 0 ELSE @ - 1]
    BY <1>1, <1>3, MyPage DEF Fetches, Place, PageStates, Live, PageRecord
  <2>2. PICK p : p = Mine(t)
    OBVIOUS
  <2>3. \A q \in Pages \ {p} : q \in Owed(c) <=> q \in Owed(c)'
    <3>1. ASSUME NEW q \in Pages \ {p}, NEW d \in Chunks PROVE ~Inserts(t, q, d)
      BY <2>1 DEF Inserts
    <3>2. QED  BY <2>2, <3>1, OwedSteps
  <2>4. p \notin Owed(c)'
    BY <2>1, <2>2 DEF Owed
  <2>5. p \in Owed(c) <=> On(t).chunk = c
    <3>1. ASSUME NEW u \in Threads, At(u, "publish"), Mine(u) = p PROVE FALSE
      <4>1. InRead(t) /\ InRead(u) /\ Mine(t) = Mine(u)
        BY <2>1, <2>2, <3>1 DEF InRead
      <4>2. QED  BY <2>1, <3>1, <4>1 DEF ReadersApart
    <3>2. QED  BY <2>1, <2>2, <3>1 DEF Owed
  <2>6. /\ Cardinality(Owed(c)) \in Nat /\ Cardinality(Owed(c)') \in Nat
        /\ p \in Owed(c) => Cardinality(Owed(c)) > 0
        /\ Cardinality(Owed(c)') + Bit(p \in Owed(c)) = Cardinality(Owed(c)) + Bit(p \in Owed(c)')
    BY <1>1, <2>1, <2>2, <2>3, OwedCounts
  <2>7. CASE On(t).chunk = c
    <3>1. prepared'[c] = IF prepared[c] = 0 THEN 0 ELSE prepared[c] - 1
      BY <1>1, <2>1, <2>7 DEF TypeOK
    <3>2. Cardinality(Owed(c)') + 1 = Cardinality(Owed(c))
      BY <2>4, <2>5, <2>6, <2>7 DEF Bit
    <3>3. QED  BY <2>6, <3>1, <3>2
  <2>8. CASE On(t).chunk # c
    <3>1. prepared'[c] = prepared[c]
      BY <1>1, <2>1, <2>8 DEF TypeOK
    <3>2. Cardinality(Owed(c)') = Cardinality(Owed(c))
      BY <2>4, <2>5, <2>6, <2>8 DEF Bit
    <3>3. QED  BY <3>1, <3>2
  <2>9. QED  BY <2>7, <2>8
<1>4. CASE Deletes(t)
  <2>1. /\ Mine(t) \in Pages /\ Mine(t) \in Live /\ On(t).chunk \in Chunks
        /\ At(t, "cancel") /\ page'[Mine(t)] = NoPage
        /\ prepared' = [prepared EXCEPT ![On(t).chunk] =
                          IF OwnsPreparation(On(t)) /\ @ > 0 THEN @ - 1 ELSE @]
    BY <1>1, <1>4, MyPage DEF Deletes, Place, PageStates, Live, PageRecord
  <2>2. PICK p : p = Mine(t)
    OBVIOUS
  <2>3. \A q \in Pages \ {p} : q \in Owed(c) <=> q \in Owed(c)'
    <3>1. ASSUME NEW q \in Pages \ {p}, NEW d \in Chunks PROVE ~Inserts(t, q, d)
      BY <2>1, <2>2 DEF Inserts, Deletes
    <3>2. QED  BY <2>2, <3>1, OwedSteps
  <2>4. p \notin Owed(c)'
    BY <2>1, <2>2 DEF Owed, Live
  <2>5. p \in Owed(c) <=> On(t).chunk = c /\ On(t).requestPrepared
    <3>1. ASSUME NEW u \in Threads, At(u, "publish"), Mine(u) = p PROVE FALSE
      <4>1. p \notin OnList
        BY <1>1, <2>1, <2>2, MyPage DEF Place, Live
      <4>2. p \in OnList
        BY <2>1, <2>2, <3>1, MyPage DEF PinsInv, Place, PageStates
      <4>3. QED  BY <4>1, <4>2
    <3>2. QED  BY <2>1, <2>2, <3>1 DEF Owed
  <2>6. /\ Cardinality(Owed(c)) \in Nat /\ Cardinality(Owed(c)') \in Nat
        /\ p \in Owed(c) => Cardinality(Owed(c)) > 0
        /\ Cardinality(Owed(c)') + Bit(p \in Owed(c)) = Cardinality(Owed(c)) + Bit(p \in Owed(c)')
    BY <1>1, <2>1, <2>2, <2>3, OwedCounts
  <2>7. CASE On(t).chunk = c /\ On(t).requestPrepared
    <3>1. prepared'[c] = IF prepared[c] > 0 THEN prepared[c] - 1 ELSE prepared[c]
      BY <1>1, <2>1, <2>7 DEF TypeOK, OwnsPreparation
    <3>2. Cardinality(Owed(c)') + 1 = Cardinality(Owed(c))
      BY <2>4, <2>5, <2>6, <2>7 DEF Bit
    <3>3. QED  BY <2>6, <3>1, <3>2
  <2>8. CASE ~(On(t).chunk = c /\ On(t).requestPrepared)
    <3>1. prepared'[c] = prepared[c]
      BY <1>1, <2>1, <2>8 DEF TypeOK, OwnsPreparation
    <3>2. Cardinality(Owed(c)') = Cardinality(Owed(c))
      BY <2>4, <2>5, <2>6, <2>8 DEF Bit
    <3>3. QED  BY <3>1, <3>2
  <2>9. QED  BY <2>7, <2>8
<1>5. CASE \E p \in Pages, d \in Chunks : Inserts(t, p, d)
  <2>1. PICK p \in Pages, d \in Chunks : Inserts(t, p, d)
    BY <1>5
  <2>2. /\ page[p] = NoPage /\ page'[p] # NoPage /\ page'[p].chunk = d /\ page'[p].requestPrepared
        /\ prepared' = [prepared EXCEPT ![d] = @ + 1]
        /\ thread'[t].pc = "prepared" /\ thread[t].pc \in {"idle", "waitCommit"}
    <3>1. thread'[t].pc = "prepared" /\ prepared' = [prepared EXCEPT ![d] = @ + 1]
      BY <2>1 DEF Inserts
    <3>2. QED  BY <2>1, <3>1, InsertedPage
  <2>3. \A q \in Pages \ {p} : q \in Owed(c) <=> q \in Owed(c)'
    <3>1. ASSUME NEW q \in Pages \ {p} PROVE q \in Owed(c) <=> q \in Owed(c)'
      <4>1. ASSUME NEW e \in Chunks PROVE ~Inserts(t, q, e)
        BY <2>1, <3>1 DEF Inserts
      <4>2. ~Fetches(t) /\ ~Deletes(t)
        BY <2>2 DEF Fetches, Deletes
      <4>3. QED  BY <4>1, <4>2, OwedSteps
    <3>2. QED  BY <3>1
  <2>4. p \notin Owed(c)
    BY <2>2 DEF Owed, Live
  <2>5. p \in Owed(c)' <=> d = c
    <3>1. ASSUME NEW u \in Threads, At(u, "publish")', Mine(u)' = p PROVE FALSE
      <4>1. u # t /\ thread'[u] = thread[u]
        BY <2>1, <2>2, <3>1 DEF Inserts, Moves
      <4>2. Mine(u) = p /\ Mine(u) # NoPage
        BY <3>1, <4>1
      <4>3. QED  BY <2>2, <4>2, MyPage
    <3>2. QED  BY <2>2, <3>1 DEF Owed, Live
  <2>6. /\ Cardinality(Owed(c)) \in Nat /\ Cardinality(Owed(c)') \in Nat
        /\ Cardinality(Owed(c)') + Bit(p \in Owed(c)) = Cardinality(Owed(c)) + Bit(p \in Owed(c)')
    BY <1>1, <2>3, OwedCounts
  <2>7. CASE d = c
    <3>1. prepared'[c] = prepared[c] + 1
      BY <1>1, <2>2, <2>7 DEF TypeOK
    <3>2. Cardinality(Owed(c)') = Cardinality(Owed(c)) + 1
      BY <2>4, <2>5, <2>6, <2>7 DEF Bit
    <3>3. QED  BY <3>1, <3>2
  <2>8. CASE d # c
    <3>1. prepared'[c] = prepared[c]
      BY <1>1, <2>2, <2>8 DEF TypeOK
    <3>2. Cardinality(Owed(c)') = Cardinality(Owed(c))
      BY <2>4, <2>5, <2>6, <2>8 DEF Bit
    <3>3. QED  BY <3>1, <3>2
  <2>9. QED  BY <2>7, <2>8
<1>6. CASE ~Fetches(t) /\ ~Deletes(t) /\ ~\E p \in Pages, d \in Chunks : Inserts(t, p, d)
  <2>1. prepared'[c] = prepared[c]
    BY <1>6, PreparedSteps
  <2>2. \A q \in Pages : q \in Owed(c) <=> q \in Owed(c)'
    BY <1>6, OwedSteps
  <2>3. QED  BY <1>2, <2>1, <2>2
<1>7. QED  BY <1>3, <1>4, <1>5, <1>6

PreparedInv == PagesInv /\ WaitedFor /\ PreparationsExact

LEMMA NextPrepared ==
  ASSUME NoDuplicates, Creators = {}, PreparedInv, [Next]_vars
  PROVE  PreparedInv'
<1>1. PagesInv'
  BY NextPages DEF PreparedInv
<1>2. CASE Next
  <2>1. PICK t \in Threads : Continue(t) \/ Call(t)
    BY <1>2 DEF Next
  <2>2. PinsInv /\ PinsInv' /\ ReadersApart /\ WaitedFor /\ Steps(t)
    BY <1>1, <2>1, NextSteps DEF PreparedInv, PagesInv
  <2>3. WaitedFor'
    BY <2>2, WaitedForKept
  <2>4. PreparationsExact'
    <3>1. ASSUME NEW c \in Chunks PROVE prepared'[c] = Cardinality(Owed(c)')
      <4>1. prepared[c] = Cardinality(Owed(c))
        BY DEF PreparedInv, PreparationsExact, Owed
      <4>2. QED  BY <2>2, <4>1, PreparationsKept
    <3>2. QED  BY <3>1 DEF PreparationsExact, Owed
  <2>5. QED  BY <1>1, <2>3, <2>4 DEF PreparedInv
<1>3. CASE UNCHANGED vars
  <2>1. UNCHANGED <<lru, page, thread, prepared>>
    BY <1>3 DEF vars, cacheVars, storeVars
  <2>2. WaitedFor'
    BY <2>1 DEF PreparedInv, WaitedFor, Live, OnList, Expects
  <2>3. PreparationsExact'
    BY <2>1 DEF PreparedInv, PreparationsExact, Live
  <2>4. QED  BY <1>1, <2>2, <2>3 DEF PreparedInv
<1>4. QED  BY <1>2, <1>3

\* Where nobody creates pages, the store has as many preparations of a chunk as
\* there are pages that have not read it: ReadPreparedPage reads each one once,
\* and CancelPreparedReadPage cancels the rest, for any number of readers and jobs.
THEOREM ExactPreparations ==
  ASSUME NoDuplicates, Creators = {}
  PROVE  Spec => []PreparationsExact
<1>1. Init => PreparedInv
  <2>1. SUFFICES ASSUME Init PROVE PreparedInv
    OBVIOUS
  <2>2. PagesInv
    BY <2>1, InitPages
  <2>3. /\ \A t \in Threads : thread[t].pc = "idle"
        /\ \A c \in Chunks : prepared[c] = 0
        /\ OnList = {} /\ Live = {}
    BY <2>1 DEF Init, OnList, Live, ToSet
  <2>4. WaitedFor
    BY <2>3 DEF WaitedFor, Rested
  <2>5. PreparationsExact
    BY <2>3, FS_EmptySet DEF PreparationsExact
  <2>6. QED  BY <2>2, <2>4, <2>5 DEF PreparedInv
<1>2. PreparedInv /\ [Next]_vars => PreparedInv'
  BY NextPrepared
<1>3. PreparedInv => PreparationsExact
  BY DEF PreparedInv
<1>4. QED  BY <1>1, <1>2, <1>3, PTL DEF Spec

-----------------------------------------------------------------------------
(* The margins, where nobody commits: what a page was owed when a neighbour  *)
(* was written back it has, or gets with its data.                           *)

CreatedEmpty ==
  /\ \A t \in Threads : At(t, "create") => On(t).data = NoData
  /\ \A t, u \in Threads : At(t, "create") /\ At(u, "create") /\ Mine(t) = Mine(u) => t = u
MarginsInv ==
  /\ \A c \in Chunks : latest[c] <= clock
  /\ \A p \in Live : \A c \in Chunks :
       /\ page[p].seen[c] <= latest[c]
       /\ page[p].data = NoData => page[p].seen[c] = 0
       /\ page[p].data # NoData => page[p].seen[c] <= page[p].data[c]

LEMMA EmptyKept ==
  ASSUME Jobs = {}, PinsInv, PinsInv', DataInv, CreatedEmpty, NEW t \in Threads, Steps(t)
  PROVE  CreatedEmpty'
<1>1. /\ Moves(t) /\ TypeOK /\ TypeOK' /\ \A u \in Threads : Place(u) /\ Place(u)'
      /\ \A u \in Threads \ {t} : thread'[u] = thread[u]
  BY ThreadSteps DEF PinsInv, Moves
<1>2. ASSUME At(t, "create")'
      PROVE  /\ thread'[t].page \in Pages /\ page[thread'[t].page] = NoPage
             /\ page'[thread'[t].page].data = NoData
  <2>1. PICK p \in Pages, c \in Chunks : Inserts(t, p, c)
    BY <1>2, ThreadSteps
  <2>2. QED  BY <2>1, InsertedPage
<1>3. ASSUME NEW u \in Threads, At(u, "create")' PROVE On(u)'.data = NoData
  <2>1. CASE u = t
    BY <1>2, <1>3, <2>1
  <2>2. CASE u # t
    <3>1. thread'[u] = thread[u] /\ At(u, "create") /\ Mine(u) # NoPage
      BY <1>1, <1>3, <2>2 DEF Place, PageStates
    <3>2. PICK q : q = Mine(u)
      OBVIOUS
    <3>3. q \in Pages /\ page[q] # NoPage /\ page'[q] # NoPage /\ page[q].data = NoData
      BY <1>1, <3>1, <3>2 DEF Place, TypeOK, ThreadRecord, CreatedEmpty
    <3>4. ~(q = Mine(t) /\ Fills(t))
      BY <2>2, <3>1, <3>2 DEF CreatedEmpty, Fills, Goes
    <3>5. CASE q = Mine(t) /\ Publishes(t)
      <4>1. At(t, "publish")
        BY <3>5 DEF Publishes
      <4>2. thread[t].got \notin Blocks
        <5>1. GotFresh
          BY DEF DataInv
        <5>2. Mine(u) = Mine(t)
          BY <3>2, <3>5
        <5>3. QED  BY <3>1, <4>1, <5>1, <5>2 DEF GotFresh
      <4>3. page'[q].data = page[q].data
        BY <3>5, <4>2, PublishedPage
      <4>4. QED  BY <3>1, <3>2, <3>3, <4>3
    <3>6. CASE ~(q = Mine(t) /\ Publishes(t))
      <4>1. page'[q].data = NoData
        BY <1>1, <3>3, <3>4, <3>6, PageSteps DEF Kept
      <4>2. QED  BY <3>1, <3>2, <4>1
    <3>7. QED  BY <3>5, <3>6
  <2>3. QED  BY <2>1, <2>2
<1>4. ASSUME NEW u \in Threads, At(u, "create")', At(t, "create")',
             Mine(u)' = Mine(t)' PROVE u = t
  <2>1. SUFFICES ASSUME u # t PROVE FALSE
    OBVIOUS
  <2>2. Mine(u) = thread'[t].page
    BY <1>1, <1>4, <2>1
  <2>3. Mine(u) # NoPage /\ page[Mine(u)] # NoPage
    BY <1>1, <1>2, <1>4, <2>2 DEF Place
  <2>4. QED  BY <1>2, <1>4, <2>2, <2>3
<1>5. ASSUME NEW u \in Threads, NEW w \in Threads, At(u, "create")', At(w, "create")',
             Mine(u)' = Mine(w)'
      PROVE  u = w
  <2>1. CASE u = t \/ w = t
    BY <1>4, <1>5, <2>1
  <2>2. CASE u # t /\ w # t
    BY <1>1, <1>5, <2>2 DEF CreatedEmpty
  <2>3. QED  BY <2>1, <2>2
<1>6. QED  BY <1>3, <1>5 DEF CreatedEmpty

\* What a step does to the samples of a page and to what it is owed.
LEMMA OtherSamples ==
  ASSUME PinsInv, TypeOK', NEW t \in Threads, Steps(t), ~Flushes(t), NEW q \in Live,
         page'[q] # NoPage
  PROVE  \/ page'[q].data = page[q].data /\ page'[q].seen = page[q].seen
         \/ q = Mine(t) /\ (Publishes(t) \/ Fills(t) \/ Writes(t))
         \/ \E v \in OnList : Evicts(t, v) /\ q # v
<1>1. TypeOK /\ q \in Pages /\ page[q] # NoPage /\ page[q] \in PageRecord
  BY DEF PinsInv, TypeOK, Live
<1>2. CASE Still(t)
  BY <1>1, <1>2 DEF Still, Alike
<1>3. CASE Fetches(t)
  BY <1>3 DEF Fetches
<1>4. CASE Publishes(t) \/ Fills(t) \/ Writes(t)
  BY <1>1, <1>4 DEF Publishes, Fills, Writes, Untouched
<1>5. CASE Deletes(t)
  BY <1>1, <1>5 DEF Deletes, Untouched
<1>6. CASE \E p \in Pages, c \in Chunks : Inserts(t, p, c)
  BY <1>1, <1>6 DEF Inserts, Untouched
<1>7. CASE TakesOut(t)
  <2>1. CASE q = Mine(t)
    <3>1. PICK r \in PageRecord : r = page[q]
      BY <1>1
    <3>2. PICK s : s = [r EXCEPT !.pins = @ - 1]
      OBVIOUS
    <3>3. s = page'[q]
      BY <1>7, <2>1, <3>1, <3>2 DEF TakesOut, UnPin
    <3>4. s.data = r.data /\ s.seen = r.seen
      BY <3>2 DEF PageRecord
    <3>5. QED  BY <3>1, <3>3, <3>4
  <2>2. CASE q # Mine(t)
    BY <1>1, <1>7, <2>2 DEF TakesOut, Untouched
  <2>3. QED  BY <2>1, <2>2
<1>8. CASE \E v \in Pages : Evicts(t, v)
  <2>1. PICK v \in Pages : Evicts(t, v)
    BY <1>8
  <2>2. PICK saved : saved = NoteSeen(CopyMargins(page, v), {v})
    OBVIOUS
  <2>3. page' = [saved EXCEPT ![v] = NoPage] /\ v \in OnList /\ DOMAIN saved = Pages
    BY <2>1, <2>2 DEF Evicts, NoteSeen
  <2>4. QED  BY <1>1, <2>1, <2>3
<1>9. QED  BY <1>2, <1>3, <1>4, <1>5, <1>6, <1>7, <1>8 DEF Steps

\* What an eviction does to them.
LEMMA EvictedSamples ==
  ASSUME PinsInv, ReadsSeeWrites, NEW t \in Threads, NEW v \in OnList, Evicts(t, v),
         NEW q \in Live, q # v, NEW c \in Chunks
  PROVE  /\ page'[q].data = NoData <=> page[q].data = NoData
         /\ \/ /\ page'[q].seen[c] = page[q].seen[c]
               /\ page[q].data # NoData =>
                    page'[q].data[c] = page[q].data[c] \/ page'[q].data[c] = latest[c]
            \/ /\ page'[q].data # NoData
               /\ page'[q].seen[c] = latest[c] /\ page'[q].data[c] = latest[c]
<1>1. TypeOK /\ Listed /\ v \in Live /\ q \in Pages /\ page[q] \in PageRecord /\ page[v] \in PageRecord
  BY ListedPages DEF PinsInv, TypeOK, Live
<1>2. PICK saved : saved = NoteSeen(CopyMargins(page, v), {v})
  OBVIOUS
<1>3. page' = [saved EXCEPT ![v] = NoPage] /\ DOMAIN saved = Pages /\ ~IsReadInProgress(v)
  BY <1>2 DEF Evicts, NoteSeen
<1>4. page'[q] = saved[q]
  BY <1>1, <1>3
<1>5. PICK s : s = CopyMargins(page, v)[q]
  OBVIOUS
<1>6. /\ saved[q].data = s.data
      /\ \/ saved[q].seen[c] = page[q].seen[c]
         \/ /\ q \in OnList /\ IsCopyMarginNeeded(page, v, q) /\ page[v].chunk = c
            /\ saved[q].seen[c] = page[v].data[c]
  BY <1>1, <1>2, <1>5, EvictPages
<1>7. /\ Copied(page[q], s)
      /\ IF q \in OnList /\ IsCopyMarginNeeded(page, v, q) /\ page[q].data # NoData
         THEN s.data = [page[q].data EXCEPT ![page[v].chunk] = page[v].data[page[v].chunk]]
         ELSE s = page[q]
  BY <1>1, <1>5, MarginCopies
<1>8. s.data = NoData <=> page[q].data = NoData
  BY <1>7 DEF Copied
<1>9. CASE q \in OnList /\ IsCopyMarginNeeded(page, v, q)
  <2>1. page[q].data # NoData
    BY <1>3, <1>9 DEF IsReadInProgress
  <2>2. PICK d \in Blocks : d = page[q].data
    BY <1>1, <2>1 DEF PageRecord
  <2>3. PICK e : e = page[v].chunk
    OBVIOUS
  <2>4. page[v].written /\ page[v].data # NoData
    <3>1. page[v].written
      BY <1>9 DEF IsCopyMarginNeeded
    <3>2. QED  BY <1>1, <3>1 DEF PinsInv, DataThere
  <2>5. page[v].data[e] = latest[e]
    BY <2>3, <2>4 DEF ReadsSeeWrites
  <2>6. s.data = [d EXCEPT ![e] = latest[e]]
    BY <1>7, <1>9, <2>1, <2>2, <2>3, <2>5
  <2>7. s.data[c] = IF c = e THEN latest[c] ELSE d[c]
    BY <2>2, <2>6 DEF Blocks
  <2>8. saved[q].seen[c] = page[q].seen[c] \/ (c = e /\ saved[q].seen[c] = latest[c])
    BY <1>6, <2>3, <2>5
  <2>9. QED  BY <1>4, <1>6, <1>8, <2>1, <2>2, <2>7, <2>8
<1>10. CASE ~(q \in OnList /\ IsCopyMarginNeeded(page, v, q))
  <2>1. s = page[q]
    BY <1>7, <1>10
  <2>2. saved[q].seen[c] = page[q].seen[c] /\ saved[q].data = page[q].data
    BY <1>6, <1>10, <2>1
  <2>3. QED  BY <1>4, <2>2
<1>11. QED  BY <1>9, <1>10

LEMMA MarginsKept ==
  ASSUME Jobs = {}, Committers = {}, PinsInv, PinsInv', DataInv, CreatedEmpty, MarginsInv,
         NEW t \in Threads, Steps(t)
  PROVE  MarginsInv'
<1>1. /\ TypeOK /\ TypeOK' /\ ~Flushes(t) /\ clock \in Nat /\ clock' \in Nat
      /\ latest \in [Chunks -> Nat] /\ latest' \in [Chunks -> Nat]
  <2>1. TypeOK /\ TypeOK' /\ ~Flushes(t)
    BY DEF PinsInv, Place, Flushes, Goes
  <2>2. Versions \subseteq Nat
    BY DEF Versions
  <2>3. latest \in [Chunks -> Versions] /\ latest' \in [Chunks -> Versions]
    BY <2>1 DEF TypeOK
  <2>4. clock \in Nat /\ clock' \in Nat
    BY <2>1, <2>2 DEF TypeOK
  <2>5. QED  BY <2>1, <2>2, <2>3, <2>4
<1>2. \A c \in Chunks : latest'[c] <= clock' /\ latest[c] <= latest'[c]
  <2>1. CASE UNCHANGED <<clock, latest>>
    BY <1>1, <2>1 DEF MarginsInv
  <2>2. CASE latest' = [latest EXCEPT ![On(t).chunk] = clock + 1] /\ clock' = clock + 1
    <3>1. \A c \in Chunks : latest'[c] = IF c = On(t).chunk THEN clock + 1 ELSE latest[c]
      BY <1>1, <2>2
    <3>2. QED  BY <1>1, <2>2, <3>1 DEF MarginsInv
  <2>3. QED  BY <2>1, <2>2, StoreSteps
<1>3. ASSUME NEW q \in Live', NEW c \in Chunks
      PROVE  /\ page'[q].seen[c] <= latest'[c]
             /\ page'[q].data = NoData => page'[q].seen[c] = 0
             /\ page'[q].data # NoData => page'[q].seen[c] <= page'[q].data[c]
  <2>1. q \in Pages /\ page'[q] # NoPage /\ page'[q] \in PageRecord
    BY <1>1 DEF Live, TypeOK
  <2>2. /\ page'[q].seen[c] \in Nat
        /\ page'[q].data \in Blocks => page'[q].data[c] \in Nat
        /\ page'[q].data # NoData <=> page'[q].data \in Blocks
    BY <2>1 DEF PageRecord, Blocks, Versions
  <2>3. CASE page[q] = NoPage
    <3>1. PICK d \in Chunks : Inserts(t, q, d)
      BY <1>1, <2>1, <2>3, PageSteps
    <3>2. page'[q].data = NoData /\ page'[q].seen = Unwritten
      BY <2>1, <3>1, InsertedPage
    <3>3. QED  BY <1>1, <3>2 DEF Unwritten
  <2>4. CASE page[q] # NoPage
    <3>1. q \in Live /\ page[q] \in PageRecord
      BY <1>1, <2>1, <2>4 DEF Live, TypeOK
    <3>2. /\ page[q].seen[c] \in Nat /\ page[q].seen[c] <= latest[c] /\ page[q].seen[c] <= latest'[c]
          /\ page[q].data = NoData => page[q].seen[c] = 0
          /\ page[q].data # NoData => page[q].seen[c] <= page[q].data[c]
      <4>1. page[q].seen[c] \in Nat
        BY <3>1 DEF PageRecord, Blocks, Versions
      <4>2. QED  BY <1>1, <1>2, <3>1, <4>1 DEF MarginsInv
    <3>3. CASE page'[q].data = page[q].data /\ page'[q].seen = page[q].seen
      BY <3>2, <3>3
    <3>4. CASE q = Mine(t) /\ Publishes(t)
      <4>1. /\ page'[q].data = IF thread[t].got = Failed THEN page[q].data ELSE thread[t].got
            /\ thread[t].got \in Blocks \cup {Failed} /\ page'[q].seen = page[q].seen
        BY <3>4, PublishedPage
      <4>2. CASE thread[t].got = Failed
        BY <3>2, <4>1, <4>2
      <4>3. CASE thread[t].got \in Blocks
        <5>1. At(t, "publish")
          BY <3>4 DEF Publishes
        <5>2. page[q].data = NoData
          BY <3>4, <4>3, <5>1 DEF DataInv, GotFresh
        <5>3. page'[q].data \in Blocks
          BY <4>1, <4>3
        <5>4. page'[q].seen[c] = 0
          BY <3>2, <4>1, <5>2
        <5>5. QED  BY <1>1, <2>2, <5>3, <5>4
      <4>4. QED  BY <4>1, <4>2, <4>3
    <3>5. CASE q = Mine(t) /\ Fills(t)
      <4>1. page'[q].data \in Blocks /\ page'[q].seen = page[q].seen
        BY <1>1, <3>5, FilledPage
      <4>2. page[q].data = NoData
        BY <3>5 DEF CreatedEmpty, Fills, Goes
      <4>3. page'[q].seen[c] = 0
        BY <3>2, <4>1, <4>2
      <4>4. QED  BY <1>1, <2>2, <4>1, <4>3
    <3>6. CASE q = Mine(t) /\ Writes(t)
      <4>1. /\ page[q].data \in Blocks /\ page'[q].data \in Blocks /\ page'[q].seen = page[q].seen
            /\ page'[q].data = [page[q].data EXCEPT ![page[q].chunk] = clock + 1]
        BY <1>1, <3>6, WrittenPage
      <4>2. PICK d \in Blocks : d = page[q].data
        BY <4>1
      <4>3. PICK e : e = page[q].chunk
        OBVIOUS
      <4>4. page'[q].data[c] = IF c = e THEN clock + 1 ELSE d[c]
        BY <4>1, <4>2, <4>3 DEF Blocks
      <4>5. latest[c] <= clock /\ latest[c] \in Nat
        BY <1>1 DEF MarginsInv
      <4>6. page[q].seen[c] <= d[c] /\ page[q].seen[c] <= clock + 1
        BY <1>1, <3>2, <4>2, <4>5
      <4>7. QED  BY <2>2, <3>2, <4>1, <4>4, <4>6
    <3>7. CASE \E v \in OnList : Evicts(t, v) /\ q # v
      <4>1. PICK v \in OnList : Evicts(t, v) /\ q # v
        BY <3>7
      <4>2. latest' = latest
        BY <4>1 DEF Evicts
      <4>3. /\ page'[q].data = NoData <=> page[q].data = NoData
            /\ \/ /\ page'[q].seen[c] = page[q].seen[c]
                  /\ page[q].data # NoData =>
                       page'[q].data[c] = page[q].data[c] \/ page'[q].data[c] = latest[c]
               \/ /\ page'[q].data # NoData
                  /\ page'[q].seen[c] = latest[c] /\ page'[q].data[c] = latest[c]
        BY <3>1, <4>1, EvictedSamples DEF DataInv
      <4>4. QED  BY <1>1, <3>2, <4>2, <4>3
    <3>8. QED  BY <1>1, <2>1, <3>1, <3>3, <3>4, <3>5, <3>6, <3>7, OtherSamples
  <2>5. QED  BY <2>3, <2>4
<1>4. QED  BY <1>2, <1>3 DEF MarginsInv

\* CopyMargin is not called for a page without a buffer.
LEMMA NoFault ==
  ASSUME Committers = {}, PinsInv, ~fault, NEW t \in Threads, Steps(t)
  PROVE  ~fault'
<1>1. ~Flushes(t)
  BY DEF PinsInv, Place, Flushes, Goes
<1>2. CASE \E v \in Pages : Evicts(t, v)
  BY <1>2 DEF Evicts, IsReadInProgress, CopiesIntoNothing
<1>3. CASE Still(t) \/ Fetches(t) \/ Publishes(t) \/ (\E p \in Pages, c \in Chunks : Inserts(t, p, c))
  BY <1>3 DEF Still, Fetches, Publishes, Inserts
<1>4. CASE TakesOut(t) \/ Deletes(t) \/ Fills(t) \/ Writes(t)
  BY <1>4 DEF TakesOut, Deletes, Fills, Writes
<1>5. QED  BY <1>1, <1>2, <1>3, <1>4 DEF Steps

MarginsHeld == PagesInv /\ ~fault /\ (Jobs = {} => CreatedEmpty /\ MarginsInv)

LEMMA NextMargins ==
  ASSUME Committers = {}, MarginsHeld, [Next]_vars
  PROVE  MarginsHeld'
<1>0. NoDuplicates
  BY DEF NoDuplicates
<1>1. PagesInv' /\ PinsInv /\ PinsInv'
  BY <1>0, NextPages DEF MarginsHeld, PagesInv
<1>2. CASE Next
  <2>1. PICK t \in Threads : Continue(t) \/ Call(t)
    BY <1>2 DEF Next
  <2>2. Steps(t)
    BY <1>1, <2>1, NextSteps
  <2>3. ~fault'
    BY <1>1, <2>2, NoFault DEF MarginsHeld
  <2>4. ASSUME Jobs = {} PROVE CreatedEmpty' /\ MarginsInv'
    <3>1. DataInv /\ CreatedEmpty /\ MarginsInv
      BY <2>4 DEF MarginsHeld, PagesInv
    <3>2. QED  BY <1>1, <2>2, <2>4, <3>1, EmptyKept, MarginsKept
  <2>5. QED  BY <1>1, <2>3, <2>4 DEF MarginsHeld
<1>3. CASE UNCHANGED vars
  <2>1. UNCHANGED <<page, thread, clock, latest, fault>>
    BY <1>3 DEF vars, history
  <2>2. Jobs = {} => CreatedEmpty' /\ MarginsInv'
    BY <2>1 DEF MarginsHeld, CreatedEmpty, MarginsInv, Live
  <2>3. QED  BY <1>1, <2>1, <2>2 DEF MarginsHeld
<1>4. QED  BY <1>2, <1>3

\* Where nobody commits, a page has the samples of its neighbours that were
\* written back while it was on the list, even if it was being read then, and
\* CopyMargin always has a buffer to write to.
THEOREM MarginsCopied ==
  ASSUME Committers = {}
  PROVE  Spec => []MarginsArrive
<1>1. Init => MarginsHeld
  <2>1. SUFFICES ASSUME Init PROVE MarginsHeld
    OBVIOUS
  <2>2. /\ \A t \in Threads : thread[t].pc = "idle"
        /\ \A c \in Chunks : latest[c] = 0
        /\ clock = 0 /\ Live = {} /\ ~fault
    BY <2>1 DEF Init, Live
  <2>3. CreatedEmpty /\ MarginsInv
    BY <2>2 DEF CreatedEmpty, MarginsInv
  <2>4. QED  BY <2>1, <2>2, <2>3, InitPages DEF MarginsHeld
<1>2. MarginsHeld /\ [Next]_vars => MarginsHeld'
  BY NextMargins
<1>3. MarginsHeld => MarginsArrive
  <2>1. SUFFICES ASSUME MarginsHeld, NEW p \in OnList, page[p].data # NoData, NEW c \in Chunks
                 PROVE  page[p].data[c] >= page[p].seen[c]
    BY DEF MarginsArrive, MarginsHeld
  <2>2. p \in Live /\ page[p] \in PageRecord
    BY <2>1, ListedPages DEF MarginsHeld, PagesInv, PinsInv
  <2>3. page[p].data \in Blocks /\ page[p].seen \in Blocks
    BY <2>1, <2>2 DEF PageRecord
  <2>4. page[p].data[c] \in Versions /\ page[p].seen[c] \in Versions
    BY <2>3 DEF Blocks
  <2>5. CASE Jobs = {}
    <3>1. page[p].seen[c] <= page[p].data[c]
      BY <2>1, <2>2, <2>5 DEF MarginsHeld, MarginsInv
    <3>2. QED  BY <2>4, <3>1 DEF Versions
  <2>6. CASE Jobs # {}
    BY <2>4, <2>6 DEF Versions
  <2>7. QED  BY <2>5, <2>6
<1>4. QED  BY <1>1, <1>2, <1>3, PTL DEF Spec
=============================================================================
