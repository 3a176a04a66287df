------------------------ MODULE LayerMetadataProofs ------------------------
(***************************************************************************)
(* Proofs about the metadata pages of a layer, for any chunks, pages,      *)
(* hashers and bounds.                                                     *)
(*                                                                         *)
(* A step does one of seven things to the pages (Kinds): nothing, a lock,  *)
(* unlocks, the start or the answer of a transfer, a new entry, the upload *)
(* of a dirty page.  What the pages keep is proved for each kind; what the *)
(* operations on chunks keep is proved for each action.                    *)
(***************************************************************************)
EXTENDS LayerMetadata, UniqueListsProofs

USE MetadataAssumption

-----------------------------------------------------------------------------
(* The inductive invariant.                                                *)

\* The lists hold the pages in memory, each once, and a dirty page is valid.
Lists ==
  /\ Distinct(pageList) /\ Distinct(dirtyPageList)
  /\ ToSet(pageList) \cap ToSet(dirtyPageList) = {}
  /\ ToSet(pageList) \cup ToSet(dirtyPageList) = InMemory
  /\ \A p \in ToSet(dirtyPageList) : page[p].valid

\* The counts are those of the operations that hold pages.
Locks(p) == IF p \in InMemory THEN page[p].lockCount ELSE 0
Held == {p \in Pages : Holders(p) # {}}
Counts ==
  /\ \A p \in Pages : Cardinality(Holders(p)) = Locks(p)
  /\ lockedPageCount = Cardinality(Held)

\* One operation starts the transfer of a page, which has not begun; a page is
\* not valid while it is transferred, and valid or in error afterwards.
InitiateStates == {"initiateRead", "initiateWrite"}
Initiating(p) ==
  {c \in ChunksOf(p) : pc[c] \in InitiateStates}
    \cup {h \in Hashers : hashing[h].state = "initiate" /\ PageOf[hashing[h].at] = p}
Transfers ==
  /\ \A p \in Pages : Initiating(p) # {} =>
       page[p] # NoPage /\ ~page[p].valid /\ page[p].transfer = "none"
  /\ \A p \in Pages : \A x, y \in Initiating(p) : x = y
  /\ \A p \in InMemory :
       /\ page[p].transfer = "running" => ~page[p].valid
       /\ page[p].transfer = "answered" => page[p].valid \/ page[p].failed

\* While Flush uploads pages nobody holds one; it waits for an upload only in
\* its loop over them.
FlushPhases ==
  /\ isFlushInProgress <=> flush \in {"waitUnlocked", "dirtyPages"}
  /\ flush = "dirtyPages" => \A p \in Pages : Holders(p) = {}
  /\ awaited # NoOne => flush = "await"

\* The versions written are bounded, and an object is one version ahead of
\* what is written while the end of its upload is processed.
Writing ==
  \A c \in Chunks :
    /\ written[c] <= Initial(c) + MaxWrites
    /\ pc[c] \in WriteStates => written[c] < Initial(c) + MaxWrites
    /\ object[c] = written[c] + (IF pc[c] \in {"uploaded", "entrySet"} THEN 1 ELSE 0)

\* A reader that waits for its page, or has what it read, is the only one to
\* download its chunk: an assertion fails otherwise.
DownloadStates == {"waitPage", "download", "pageError"}
OneDownload == ~broken => \A c \in Chunks : pc[c] \in DownloadStates => orphan[c] = "none"

PagesInv == TypeOK /\ Lists /\ Counts /\ Transfers /\ FlushPhases /\ Writing /\ OneDownload

\* A page that is not in the directory has no entry; one that is not valid has
\* none in memory; a clean one has in memory what is stored.
ValidPage(p) == page[p] # NoPage /\ page[p].valid
CleanStored ==
  \A c \in Chunks :
    /\ PageOf[c] \notin directory => storedEntry[c] = 0
    /\ ~ValidPage(PageOf[c]) => entry[c] = 0
    /\ ValidPage(PageOf[c]) /\ PageOf[c] \notin ToSet(dirtyPageList) => entry[c] = storedEntry[c]

\* What Flush must save has been written once it does not wait for writes or
\* report an error, and is stored once the dirty pages have been uploaded.
Saving ==
  /\ flush = "waitWrites" => \A c \in Chunks :
       \/ written[c] >= mustSave[c]
       \/ pc[c] \in UploadStates /\ written[c] + 1 >= mustSave[c]
       \/ uploadErrors > 0
  /\ flush \in {"drain", "await", "uploadPages", "waitUnlocked", "dirtyPages"} =>
       \A c \in Chunks : written[c] >= mustSave[c]
  /\ flush \in {"status", "done"} => \A c \in Chunks : storedEntry[c] >= mustSave[c]
  /\ ~layerStatusDirty => storedDirectory = directory
  /\ flush = "done" => ~layerStatusDirty

EntriesInv == EntriesKept /\ CleanStored /\ Saving

-----------------------------------------------------------------------------
(* LimitPages, LockPage and UnlockPage.                                    *)

PageMap == [Pages -> Page \cup {NoPage}]
PageTypes ==
  /\ page \in PageMap
  /\ entry \in [Chunks -> Versions]
  /\ pageList \in Seq(Pages) /\ dirtyPageList \in Seq(Pages)
  /\ lockedPageCount \in Nat

\* The pages that stay in the list, and those that go, which nobody has locked.
LEMMA KeptPages ==
  ASSUME NEW pg \in PageMap, NEW list \in Seq(Pages), Distinct(list),
         \A p \in ToSet(list) : pg[p] # NoPage
  PROVE  /\ Kept(pg, list) \in Seq(Pages) /\ Distinct(Kept(pg, list))
         /\ ToSet(Kept(pg, list)) \subseteq ToSet(list)
         /\ \A p \in ToSet(list) \ ToSet(Kept(pg, list)) : pg[p].lockCount = 0
<1> DEFINE n == Len(list)
           T == {i \in DOMAIN list : i <= PageLimit \/ pg[list[i]].lockCount > 0}
           last == CHOOSE i \in T : \A j \in T : j <= i
<1>1. /\ DOMAIN list = 1 .. n /\ n \in Nat /\ ToSet(list) = {list[i] : i \in 1 .. n}
      /\ \A i \in 1 .. n : list[i] \in Pages
  BY ListMembers
<1>2. \A i \in 1 .. n : pg[list[i]] \in Page /\ pg[list[i]].lockCount \in Nat
  BY <1>1 DEF PageMap, Page
<1>3. CASE T = {}
  <2>1. Kept(pg, list) = <<>>
    BY <1>3 DEF Kept
  <2>2. <<>> \in Seq(Pages) /\ Distinct(<<>>) /\ ToSet(<<>>) = {}
    BY DEF Distinct, ToSet
  <2>3. \A i \in 1 .. n : ~(pg[list[i]].lockCount > 0)
    BY <1>1, <1>3
  <2>4. \A p \in ToSet(list) : pg[p].lockCount = 0
    BY <1>1, <1>2, <2>3
  <2>5. QED  BY <2>1, <2>2, <2>4
<1>4. CASE T # {}
  <2>1. T \in SUBSET (1 .. n)
    BY <1>1
  <2>2. last \in T /\ \A j \in T : j <= last
    BY <1>1, <1>4, <2>1, LastPosition
  <2>3. Kept(pg, list) = SubSeq(list, 1, last)
    BY <1>4 DEF Kept
  <2> HIDE DEF last
  <2>4. last \in 0 .. n
    BY <1>1, <2>2
  <2>5. /\ SubSeq(list, 1, last) \in Seq(Pages) /\ Distinct(SubSeq(list, 1, last))
        /\ ToSet(SubSeq(list, 1, last)) = {list[i] : i \in 1 .. last}
        /\ ToSet(list) \ ToSet(SubSeq(list, 1, last)) = {list[i] : i \in last + 1 .. n}
    BY <2>4, FrontOfList
  <2>6. \A i \in last + 1 .. n : pg[list[i]].lockCount = 0
    BY <1>1, <1>2, <2>2, <2>4
  <2>7. {list[i] : i \in 1 .. last} \subseteq ToSet(list)
    BY <1>1, <2>4
  <2>8. QED  BY <2>3, <2>5, <2>6, <2>7
<1>5. QED  BY <1>3, <1>4

\* LimitPages: the pages that go were clean and unlocked.
LEMMA LimitEffect ==
  ASSUME NEW pg \in PageMap, NEW list \in Seq(Pages), Distinct(list),
         NEW values \in [Chunks -> Versions],
         \A p \in ToSet(list) : pg[p] # NoPage, LimitPages(pg, list, values)
  PROVE  /\ page' \in PageMap /\ entry' \in [Chunks -> Versions]
         /\ pageList' \in Seq(Pages) /\ Distinct(pageList')
         /\ ToSet(pageList') \subseteq ToSet(list)
         /\ \A p \in Pages :
              IF p \in ToSet(list) \ ToSet(pageList')
              THEN /\ pg[p].lockCount = 0 /\ page'[p] = NoPage
                   /\ \A c \in ChunksOf(p) : entry'[c] = 0
              ELSE page'[p] = pg[p] /\ \A c \in ChunksOf(p) : entry'[c] = values[c]
<1> DEFINE gone == ToSet(list) \ ToSet(Kept(pg, list))
<1>1. /\ Kept(pg, list) \in Seq(Pages) /\ Distinct(Kept(pg, list))
      /\ ToSet(Kept(pg, list)) \subseteq ToSet(list)
      /\ \A p \in gone : pg[p].lockCount = 0
  BY KeptPages
<1>2. /\ pageList' = Kept(pg, list)
      /\ page' = [p \in Pages |-> IF p \in gone THEN NoPage ELSE pg[p]]
      /\ entry' = [c \in Chunks |-> IF PageOf[c] \in gone THEN 0 ELSE values[c]]
  BY DEF LimitPages
<1> HIDE DEF gone
<1>3. page' \in PageMap
  BY <1>2 DEF PageMap
<1>4. entry' \in [Chunks -> Versions]
  BY <1>2 DEF Versions
<1>5. ASSUME NEW p \in Pages
      PROVE  IF p \in gone
             THEN page'[p] = NoPage /\ \A c \in ChunksOf(p) : entry'[c] = 0
             ELSE page'[p] = pg[p] /\ \A c \in ChunksOf(p) : entry'[c] = values[c]
  BY <1>2 DEF ChunksOf
<1>6. QED  BY <1>1, <1>2, <1>3, <1>4, <1>5 DEF gone

\* After LimitPages the lists hold the pages in memory again.
LEMMA LimitLists ==
  ASSUME PageTypes, Distinct(dirtyPageList), UNCHANGED dirtyPageList,
         NEW pg \in PageMap, NEW list \in Seq(Pages), Distinct(list),
         ToSet(list) \cap ToSet(dirtyPageList) = {},
         ToSet(list) \cup ToSet(dirtyPageList) = {p \in Pages : pg[p] # NoPage},
         \A p \in ToSet(dirtyPageList) : pg[p].valid,
         NEW values \in [Chunks -> Versions], LimitPages(pg, list, values)
  PROVE  Lists'
<1>1. /\ Distinct(pageList') /\ ToSet(pageList') \subseteq ToSet(list)
      /\ \A p \in Pages :
           IF p \in ToSet(list) \ ToSet(pageList') THEN page'[p] = NoPage ELSE page'[p] = pg[p]
  BY LimitEffect
<1>2. ToSet(pageList') \cup ToSet(dirtyPageList) = {p \in Pages : page'[p] # NoPage}
  BY <1>1
<1>3. \A p \in ToSet(dirtyPageList) : page'[p].valid
  BY <1>1
<1>4. QED  BY <1>1, <1>2, <1>3 DEF Lists, InMemory

\* What a step may do to the pages it is not about.
Stays(p) == page'[p] = page[p] /\ \A c \in ChunksOf(p) : entry'[c] = entry[c]
Evicted(p) ==
  /\ page[p] # NoPage /\ page[p].lockCount = 0 /\ p \notin ToSet(dirtyPageList)
  /\ page'[p] = NoPage /\ \A c \in ChunksOf(p) : entry'[c] = 0
OthersStay(p) == \A q \in Pages \ {p} : Stays(q) \/ Evicted(q)

\* LockPage: the page is there, locked once more, and keeps its entries.
LEMMA LockEffect ==
  ASSUME PageTypes, Lists, NEW p \in Pages, LockPage(p)
  PROVE  /\ PageTypes' /\ Lists' /\ OthersStay(p) /\ LockedPage(p) \in Page
         /\ page'[p] = LockedPage(p) /\ \A c \in ChunksOf(p) : entry'[c] = entry[c]
         /\ UNCHANGED dirtyPageList
<1> DEFINE pg == [page EXCEPT ![p] = LockedPage(p)]
           list == MovedToFront(p)
<1>1. IsEmptyPage(p) \in BOOLEAN
  BY DEF IsEmptyPage
<1>2. LockedPage(p) \in Page /\ LockedPage(p).lockCount > 0
      /\ (page[p] # NoPage => LockedPage(p).valid = page[p].valid)
  <2>1. CASE page[p] = NoPage
    BY <1>1, <2>1 DEF LockedPage, Page
  <2>2. CASE page[p] # NoPage
    <3>1. page[p] \in Page
      BY <2>2 DEF PageTypes, PageMap
    <3>2. QED  BY <2>2, <3>1 DEF LockedPage, Page
  <2>3. QED  BY <2>1, <2>2
<1>3. LockedPage(p) # NoPage
  BY <1>2
<1> HIDE DEF LockedPage
<1>4. /\ pg \in PageMap /\ pg[p] = LockedPage(p)
      /\ \A q \in Pages \ {p} : pg[q] = page[q]
  BY <1>2 DEF PageTypes, PageMap
<1>5. /\ list \in Seq(Pages) /\ Distinct(list)
      /\ ToSet(list) = IF p \in ToSet(dirtyPageList) THEN ToSet(pageList) ELSE ToSet(pageList) \cup {p}
  <2>1. CASE p \in ToSet(dirtyPageList)
    BY <2>1 DEF MovedToFront, Lists, PageTypes
  <2>2. CASE p \notin ToSet(dirtyPageList)
    <3>1. /\ Erase(pageList, p) \in Seq(Pages) /\ Distinct(Erase(pageList, p))
          /\ ToSet(Erase(pageList, p)) = ToSet(pageList) \ {p}
      BY EraseOne DEF Lists, PageTypes
    <3>2. p \notin ToSet(Erase(pageList, p))
      BY <3>1
    <3>3. /\ <<p>> \o Erase(pageList, p) \in Seq(Pages)
          /\ Distinct(<<p>> \o Erase(pageList, p))
          /\ ToSet(<<p>> \o Erase(pageList, p)) = {p} \cup ToSet(Erase(pageList, p))
      BY <3>1, <3>2, PushFront
    <3>4. list = <<p>> \o Erase(pageList, p)
      BY <2>2 DEF MovedToFront
    <3>5. QED  BY <2>2, <3>1, <3>3, <3>4
  <2>3. QED  BY <2>1, <2>2
<1>6. /\ UNCHANGED dirtyPageList /\ LimitPages(pg, list, entry)
      /\ lockedPageCount' \in Nat
  BY DEF LockPage, PageTypes
<1>7. entry \in [Chunks -> Versions] /\ dirtyPageList \in Seq(Pages) /\ ToSet(dirtyPageList) \subseteq Pages
  BY ListMembers DEF PageTypes
<1> HIDE DEF pg, list
<1>8. \A q \in Pages : q \in InMemory \/ q = p <=> pg[q] # NoPage
  BY <1>3, <1>4 DEF InMemory
<1>9. \A q \in ToSet(list) : pg[q] # NoPage
  <2>1. ToSet(list) \subseteq Pages
    BY <1>5, ListMembers
  <2>2. QED  BY <1>5, <1>8, <2>1 DEF Lists
<1>10. /\ page' \in PageMap /\ entry' \in [Chunks -> Versions] /\ pageList' \in Seq(Pages)
       /\ \A q \in Pages :
            IF q \in ToSet(list) \ ToSet(pageList')
            THEN /\ pg[q].lockCount = 0 /\ page'[q] = NoPage
                 /\ \A c \in ChunksOf(q) : entry'[c] = 0
            ELSE page'[q] = pg[q] /\ \A c \in ChunksOf(q) : entry'[c] = entry[c]
  BY <1>4, <1>5, <1>6, <1>7, <1>9, LimitEffect
<1>11. PageTypes'
  BY <1>6, <1>7, <1>10 DEF PageTypes
<1>12. Lists'
  <2>1. ToSet(list) \cap ToSet(dirtyPageList) = {}
    BY <1>5 DEF Lists
  <2>2. ToSet(list) \cup ToSet(dirtyPageList) = {q \in Pages : pg[q] # NoPage}
    BY <1>5, <1>7, <1>8 DEF Lists, InMemory
  <2>3. \A q \in ToSet(dirtyPageList) : pg[q].valid
    BY <1>2, <1>4, <1>7 DEF Lists, InMemory
  <2>4. QED  BY <1>4, <1>5, <1>6, <1>7, <2>1, <2>2, <2>3, LimitLists DEF Lists
<1>13. page'[p] = LockedPage(p) /\ \A c \in ChunksOf(p) : entry'[c] = entry[c]
  BY <1>2, <1>4, <1>10
<1>14. ASSUME NEW q \in Pages \ {p} PROVE Stays(q) \/ Evicted(q)
  <2>1. CASE q \in ToSet(list) \ ToSet(pageList')
    <3>1. pg[q].lockCount = 0 /\ page'[q] = NoPage /\ \A c \in ChunksOf(q) : entry'[c] = 0
      BY <1>10, <2>1
    <3>2. pg[q] = page[q] /\ page[q] # NoPage /\ q \notin ToSet(dirtyPageList)
      BY <1>4, <1>5, <1>9, <2>1 DEF Lists
    <3>3. QED  BY <3>1, <3>2 DEF Evicted
  <2>2. CASE q \notin ToSet(list) \ ToSet(pageList')
    BY <1>4, <1>10, <2>2 DEF Stays
  <2>3. QED  BY <2>1, <2>2
<1>15. QED  BY <1>2, <1>6, <1>11, <1>12, <1>13, <1>14 DEF OthersStay

\* What becomes of a page that n holders unlock: dropped when it was never
\* valid, evicted, or left with the remaining lock count.  pg is the map with
\* the end of the transfer noted.
Noted(pg, p) == pg = page \/ pg = [page EXCEPT ![p].transfer = "ended"]
Left(p, n) == page[p].lockCount - n
Dropped(p, n) ==
  /\ Left(p, n) = 0 /\ ~page[p].valid /\ page'[p] = NoPage
  /\ \A c \in ChunksOf(p) : entry'[c] = entry[c]
LetGo(p, n) ==
  /\ Left(p, n) = 0 /\ page[p].valid /\ p \notin ToSet(dirtyPageList)
  /\ page'[p] = NoPage /\ \A c \in ChunksOf(p) : entry'[c] = 0
Unlocked(pg, p, n) ==
  /\ Left(p, n) = 0 => page[p].valid
  /\ page'[p] = [pg[p] EXCEPT !.lockCount = Left(p, n)]
  /\ \A c \in ChunksOf(p) : entry'[c] = entry[c]

LEMMA UnlockEffect ==
  ASSUME PageTypes, Lists, NEW p \in InMemory, NEW pg, Noted(pg, p),
         NEW n \in Nat, n <= page[p].lockCount, n > 0 => lockedPageCount > 0,
         UnlockPages(pg, p, n)
  PROVE  /\ PageTypes' /\ Lists' /\ OthersStay(p)
         /\ Dropped(p, n) \/ LetGo(p, n) \/ Unlocked(pg, p, n)
         /\ UNCHANGED dirtyPageList
         /\ lockedPageCount' = IF Left(p, n) = 0 /\ n > 0 THEN lockedPageCount - 1 ELSE lockedPageCount
<1> DEFINE left == pg[p].lockCount - n
           dropped == left = 0 /\ ~pg[p].valid
           rest == [pg[p] EXCEPT !.lockCount = left]
           next == [pg EXCEPT ![p] = IF dropped THEN NoPage ELSE rest]
           list == IF dropped THEN Erase(pageList, p) ELSE pageList
<1>1. p \in Pages /\ page[p] \in Page /\ page[p] # NoPage
  BY DEF InMemory, PageTypes, PageMap
<1>2. /\ pg \in PageMap /\ pg[p] \in Page /\ \A q \in Pages \ {p} : pg[q] = page[q]
      /\ pg[p].valid = page[p].valid /\ pg[p].lockCount = page[p].lockCount
  <2>1. CASE pg = page
    BY <1>1, <2>1 DEF PageTypes
  <2>2. CASE pg = [page EXCEPT ![p].transfer = "ended"]
    <3>1. [page[p] EXCEPT !.transfer = "ended"] \in Page
      BY <1>1 DEF Page
    <3>2. pg[p] = [page[p] EXCEPT !.transfer = "ended"] /\ \A q \in Pages \ {p} : pg[q] = page[q]
      BY <1>1, <2>2 DEF PageTypes, PageMap
    <3>3. pg \in PageMap
      BY <2>2, <1>1, <3>1 DEF PageTypes, PageMap
    <3>4. pg[p].valid = page[p].valid /\ pg[p].lockCount = page[p].lockCount
      BY <1>1, <3>2 DEF Page
    <3>5. QED  BY <3>1, <3>2, <3>3, <3>4
  <2>3. QED  BY <2>1, <2>2 DEF Noted
<1>3. left = Left(p, n) /\ left \in Nat /\ page[p].valid \in BOOLEAN
  BY <1>1, <1>2 DEF Left, Page
<1>4. /\ lockedPageCount' = IF left = 0 /\ n > 0 THEN lockedPageCount - 1 ELSE lockedPageCount
      /\ LimitPages(next, list, entry) /\ UNCHANGED dirtyPageList
  <2>1. next = [pg EXCEPT ![p] = IF dropped THEN NoPage ELSE [@ EXCEPT !.lockCount = left]]
    OBVIOUS
  <2>2. QED  BY <2>1 DEF UnlockPages
<1>5. lockedPageCount' \in Nat
  BY <1>4 DEF PageTypes
<1> HIDE DEF left
<1>6. rest \in Page /\ rest.valid = page[p].valid /\ rest.lockCount = left /\ rest # NoPage
  BY <1>2, <1>3 DEF Page
<1> HIDE DEF rest
<1>7. /\ next \in PageMap /\ next[p] = (IF dropped THEN NoPage ELSE rest)
      /\ \A q \in Pages \ {p} : next[q] = page[q]
  BY <1>1, <1>2, <1>6 DEF PageMap
<1>8. /\ list \in Seq(Pages) /\ Distinct(list)
      /\ ToSet(list) = IF dropped THEN ToSet(pageList) \ {p} ELSE ToSet(pageList)
  BY EraseOne DEF Lists, PageTypes
<1>9. dropped => p \notin ToSet(dirtyPageList)
  BY <1>2 DEF Lists
<1>10. entry \in [Chunks -> Versions] /\ dirtyPageList \in Seq(Pages) /\ ToSet(dirtyPageList) \subseteq Pages
  BY ListMembers DEF PageTypes
<1>11. dropped <=> left = 0 /\ ~page[p].valid
  BY <1>2
<1> HIDE DEF dropped, next, list
<1>12. ToSet(list) \subseteq Pages
  BY <1>8, ListMembers
<1>13. \A q \in Pages : next[q] # NoPage <=> IF q = p THEN ~dropped ELSE q \in InMemory
  BY <1>6, <1>7 DEF InMemory
<1>14. \A q \in ToSet(list) : next[q] # NoPage
  BY <1>8, <1>12, <1>13 DEF Lists
<1>15. /\ page' \in PageMap /\ entry' \in [Chunks -> Versions] /\ pageList' \in Seq(Pages)
       /\ \A q \in Pages :
            IF q \in ToSet(list) \ ToSet(pageList')
            THEN /\ next[q].lockCount = 0 /\ page'[q] = NoPage
                 /\ \A c \in ChunksOf(q) : entry'[c] = 0
            ELSE page'[q] = next[q] /\ \A c \in ChunksOf(q) : entry'[c] = entry[c]
  BY <1>4, <1>7, <1>8, <1>10, <1>14, LimitEffect
<1>16. PageTypes'
  BY <1>4, <1>5, <1>10, <1>15 DEF PageTypes
<1>17. Lists'
  <2>1. ToSet(list) \cap ToSet(dirtyPageList) = {}
    BY <1>8 DEF Lists
  <2>2. ToSet(list) \cup ToSet(dirtyPageList) = {q \in Pages : next[q] # NoPage}
    BY <1>1, <1>8, <1>9, <1>10, <1>12, <1>13 DEF Lists, InMemory
  <2>3. \A q \in ToSet(dirtyPageList) : next[q].valid
    BY <1>6, <1>7, <1>9, <1>10 DEF Lists
  <2>4. QED  BY <1>4, <1>7, <1>8, <1>10, <2>1, <2>2, <2>3, LimitLists DEF Lists
<1>18. OthersStay(p)
  <2>1. SUFFICES ASSUME NEW q \in Pages \ {p} PROVE Stays(q) \/ Evicted(q)
    BY DEF OthersStay
  <2>2. CASE q \in ToSet(list) \ ToSet(pageList')
    <3>1. next[q].lockCount = 0 /\ page'[q] = NoPage /\ \A c \in ChunksOf(q) : entry'[c] = 0
      BY <1>15, <2>2
    <3>2. next[q] = page[q] /\ page[q] # NoPage /\ q \notin ToSet(dirtyPageList)
      BY <1>7, <1>8, <1>14, <2>2 DEF Lists
    <3>3. QED  BY <3>1, <3>2 DEF Evicted
  <2>3. CASE q \notin ToSet(list) \ ToSet(pageList')
    BY <1>7, <1>15, <2>3 DEF Stays
  <2>4. QED  BY <2>2, <2>3
<1>19. Dropped(p, n) \/ LetGo(p, n) \/ Unlocked(pg, p, n)
  <2>1. CASE dropped
    <3>1. p \notin ToSet(list)
      BY <1>8, <2>1
    <3>2. page'[p] = NoPage /\ \A c \in ChunksOf(p) : entry'[c] = entry[c]
      BY <1>1, <1>7, <1>15, <2>1, <3>1
    <3>3. QED  BY <1>3, <1>11, <2>1, <3>2 DEF Dropped
  <2>2. CASE ~dropped /\ p \in ToSet(list) \ ToSet(pageList')
    <3>1. /\ next[p].lockCount = 0 /\ page'[p] = NoPage
          /\ \A c \in ChunksOf(p) : entry'[c] = 0
      BY <1>1, <1>15, <2>2
    <3>2. left = 0 /\ page[p].valid /\ p \notin ToSet(dirtyPageList)
      BY <1>3, <1>6, <1>7, <1>8, <1>11, <2>2, <3>1 DEF Lists
    <3>3. QED  BY <1>3, <3>1, <3>2 DEF LetGo
  <2>3. CASE ~dropped /\ p \notin ToSet(list) \ ToSet(pageList')
    <3>1. page'[p] = rest /\ \A c \in ChunksOf(p) : entry'[c] = entry[c]
      BY <1>1, <1>7, <1>15, <2>3
    <3>2. left = 0 => page[p].valid
      BY <1>3, <1>11, <2>3
    <3>3. QED  BY <1>3, <3>1, <3>2 DEF Unlocked, rest
  <2>4. QED  BY <2>1, <2>2, <2>3
<1>20. QED  BY <1>3, <1>4, <1>16, <1>17, <1>18, <1>19

-----------------------------------------------------------------------------
(* Who holds a page.                                                       *)

ClientTypes ==
  /\ pc \in [Chunks -> {"idle"} \cup ReadStates \cup WriteStates]
  /\ orphan \in [Chunks -> {"none", "waiting", "ended"}]
  /\ hashing \in [Hashers -> [at : Chunks, state : HashStates]]

\* Who holds a page may change when a reader leaves its download behind: what
\* stays is their number.
HoldersStay ==
  \A p \in Pages : /\ Cardinality(Holders(p)') = Cardinality(Holders(p))
                   /\ Holders(p)' = {} <=> Holders(p) = {}
InitiatingStay == \A p \in Pages : Initiating(p)' = Initiating(p)
Joins(x, p) ==
  /\ x \notin Holders(p) /\ Holders(p)' = Holders(p) \cup {x}
  /\ \A q \in Pages \ {p} : Holders(q)' = Holders(q)
Leave(W, p) ==
  /\ W \subseteq Holders(p) /\ Holders(p)' = Holders(p) \ W
  /\ \A q \in Pages \ {p} : Holders(q)' = Holders(q)
Starts(x, p) ==
  /\ Initiating(p)' = Initiating(p) \cup {x}
  /\ \A q \in Pages \ {p} : Initiating(q)' = Initiating(q)
Started(x, p) ==
  /\ x \in Initiating(p) /\ Initiating(p)' = Initiating(p) \ {x}
  /\ \A q \in Pages \ {p} : Initiating(q)' = Initiating(q)

\* The downloads left behind are neither chunks nor hashers, one for each chunk.
LEMMA LeftBehindAre ==
  ASSUME NEW p \in Pages
  PROVE  /\ \A x \in LeftBehind(p) : x \notin Chunks /\ x \notin Hashers
         /\ \A c \in Chunks : OrphanOf(c) \in LeftBehind(p) <=> PageOf[c] = p /\ orphan[c] = "waiting"
         /\ IsFiniteSet(LeftBehind(p))
<1>1. \A x \in LeftBehind(p) : x \notin Chunks /\ x \notin Hashers
  BY DEF LeftBehind, ChunksOf
<1>2. \A c, d : OrphanOf(c) = OrphanOf(d) => c = d
  BY DEF OrphanOf
<1>3. ASSUME NEW c \in Chunks
      PROVE  OrphanOf(c) \in LeftBehind(p) <=> PageOf[c] = p /\ orphan[c] = "waiting"
  <2>1. ASSUME OrphanOf(c) \in LeftBehind(p) PROVE PageOf[c] = p /\ orphan[c] = "waiting"
    <3>1. PICK d \in ChunksOf(p) : orphan[d] = "waiting" /\ OrphanOf(c) = OrphanOf(d)
      BY <2>1 DEF LeftBehind
    <3>2. c = d
      BY <1>2, <3>1
    <3>3. QED  BY <3>1, <3>2 DEF ChunksOf
  <2>2. ASSUME PageOf[c] = p /\ orphan[c] = "waiting" PROVE OrphanOf(c) \in LeftBehind(p)
    BY <2>2 DEF LeftBehind, ChunksOf
  <2>3. QED  BY <2>1, <2>2
<1>4. IsFiniteSet(LeftBehind(p))
  <2> DEFINE T == {OrphanOf(c) : c \in Chunks}
             f == [c \in Chunks |-> OrphanOf(c)]
  <2>1. f \in Surjection(Chunks, T)
    BY DEF Surjection
  <2>2. IsFiniteSet(T)
    BY <2>1, FS_Surjection
  <2>3. LeftBehind(p) \subseteq T
    BY DEF LeftBehind, ChunksOf
  <2>4. QED  BY <2>2, <2>3, FS_Subset
<1>5. QED  BY <1>1, <1>3, <1>4

\* The holders of a page are finitely many chunks of it, downloads and hashers.
LEMMA HoldersFinite ==
  ASSUME NEW p \in Pages
  PROVE  IsFiniteSet(Holders(p)) /\ Initiating(p) \subseteq Holders(p)
<1>1. Holders(p) \subseteq (Chunks \cup Hashers) \cup LeftBehind(p)
  BY DEF Holders, ChunksOf
<1>2. IsFiniteSet((Chunks \cup Hashers) \cup LeftBehind(p))
  <2>1. IsFiniteSet(Chunks \cup Hashers)
    BY FS_Union
  <2>2. QED  BY <2>1, LeftBehindAre, FS_Union
<1>3. Initiating(p) \subseteq Holders(p)
  BY DEF Initiating, Holders, InitiateStates, HoldingStates
<1>4. QED  BY <1>1, <1>2, <1>3, FS_Subset

\* The same holders are as many.
LEMMA SameHolders ==
  ASSUME \A p \in Pages : Holders(p)' = Holders(p)
  PROVE  HoldersStay
BY DEF HoldersStay

\* A step of the operation on a chunk.
Moves(c) == (\A d \in Chunks \ {c} : pc'[d] = pc[d]) /\ UNCHANGED <<orphan, hashing>>

LEMMA ChunkMoves ==
  ASSUME NEW c \in Chunks, Moves(c)
  PROVE  /\ (pc[c] \in HoldingStates <=> pc'[c] \in HoldingStates) => HoldersStay
         /\ pc[c] \notin HoldingStates /\ pc'[c] \in HoldingStates => Joins(c, PageOf[c])
         /\ pc[c] \in HoldingStates /\ pc'[c] \notin HoldingStates => Leave({c}, PageOf[c])
         /\ (pc[c] \in InitiateStates <=> pc'[c] \in InitiateStates) => InitiatingStay
         /\ pc[c] \notin InitiateStates /\ pc'[c] \in InitiateStates => Starts(c, PageOf[c])
         /\ pc[c] \in InitiateStates /\ pc'[c] \notin InitiateStates => Started(c, PageOf[c])
<1> DEFINE B(p) == LeftBehind(p)
<1>0. \A p \in Pages : LeftBehind(p)' = B(p)
  BY DEF LeftBehind, ChunksOf, Moves
<1>1. \A p \in Pages : \A x : x \in Holders(p) <=>
        \/ x \in Chunks /\ PageOf[x] = p /\ pc[x] \in HoldingStates
        \/ x \in B(p)
        \/ x \in Hashers /\ hashing[x].state # "idle" /\ PageOf[hashing[x].at] = p
  BY DEF Holders, ChunksOf
<1>2. \A p \in Pages : \A x : x \in Holders(p)' <=>
        \/ x \in Chunks /\ PageOf[x] = p /\ pc'[x] \in HoldingStates
        \/ x \in B(p)
        \/ x \in Hashers /\ hashing[x].state # "idle" /\ PageOf[hashing[x].at] = p
  BY <1>0 DEF Holders, ChunksOf, Moves, HoldingStates
<1>3. \A p \in Pages : \A x : x \in Initiating(p) <=>
        \/ x \in Chunks /\ PageOf[x] = p /\ pc[x] \in InitiateStates
        \/ x \in Hashers /\ hashing[x].state = "initiate" /\ PageOf[hashing[x].at] = p
  BY DEF Initiating, ChunksOf
<1>4. \A p \in Pages : \A x : x \in Initiating(p)' <=>
        \/ x \in Chunks /\ PageOf[x] = p /\ pc'[x] \in InitiateStates
        \/ x \in Hashers /\ hashing[x].state = "initiate" /\ PageOf[hashing[x].at] = p
  BY DEF Initiating, ChunksOf, Moves, InitiateStates
<1>5. PageOf[c] \in Pages /\ c \notin Hashers /\ \A p \in Pages : c \notin B(p)
  BY LeftBehindAre
<1> HIDE DEF HoldingStates, InitiateStates, B
<1>6. \A p \in Pages : \A x : x # c \/ p # PageOf[c] =>
        /\ x \in Holders(p)' <=> x \in Holders(p)
        /\ x \in Initiating(p)' <=> x \in Initiating(p)
  BY <1>1, <1>2, <1>3, <1>4, <1>5 DEF Moves
<1>60. /\ \A x : x # c => (x \in Holders(PageOf[c])' <=> x \in Holders(PageOf[c]))
       /\ \A x : x # c => (x \in Initiating(PageOf[c])' <=> x \in Initiating(PageOf[c]))
  BY ONLY <1>5, <1>6
<1>7. \A p \in Pages \ {PageOf[c]} : Holders(p)' = Holders(p) /\ Initiating(p)' = Initiating(p)
  BY <1>6
<1>8. /\ c \in Holders(PageOf[c]) <=> pc[c] \in HoldingStates
      /\ c \in Holders(PageOf[c])' <=> pc'[c] \in HoldingStates
      /\ c \in Initiating(PageOf[c]) <=> pc[c] \in InitiateStates
      /\ c \in Initiating(PageOf[c])' <=> pc'[c] \in InitiateStates
  <2>1. c \in Chunks
    BY DEF Moves
  <2>2. c \in Holders(PageOf[c]) <=> pc[c] \in HoldingStates
    BY ONLY <1>1, <1>5, <2>1
  <2>3. c \in Holders(PageOf[c])' <=> pc'[c] \in HoldingStates
    BY ONLY <1>2, <1>5, <2>1
  <2>4. c \in Initiating(PageOf[c]) <=> pc[c] \in InitiateStates
    BY ONLY <1>3, <1>5, <2>1
  <2>5. c \in Initiating(PageOf[c])' <=> pc'[c] \in InitiateStates
    BY ONLY <1>4, <1>5, <2>1
  <2>6. QED  BY <2>2, <2>3, <2>4, <2>5
<1>9. (pc[c] \in HoldingStates <=> pc'[c] \in HoldingStates) => HoldersStay
  <2>1. (c \in Holders(PageOf[c]) <=> c \in Holders(PageOf[c])')
          => Holders(PageOf[c])' = Holders(PageOf[c])
    BY ONLY <1>60
  <2>2. (pc[c] \in HoldingStates <=> pc'[c] \in HoldingStates) => \A p \in Pages : Holders(p)' = Holders(p)
    BY <1>7, <1>8, <2>1
  <2>3. QED  BY <2>2, SameHolders
<1>10. pc[c] \notin HoldingStates /\ pc'[c] \in HoldingStates => Joins(c, PageOf[c])
  <2>1. c \in Holders(PageOf[c])' => Holders(PageOf[c])' = Holders(PageOf[c]) \cup {c}
    BY ONLY <1>60
  <2>2. QED  BY <1>7, <1>8, <2>1 DEF Joins
<1>11. pc[c] \in HoldingStates /\ pc'[c] \notin HoldingStates => Leave({c}, PageOf[c])
  <2>1. c \notin Holders(PageOf[c])' => Holders(PageOf[c])' = Holders(PageOf[c]) \ {c}
    BY ONLY <1>60
  <2>2. QED  BY <1>7, <1>8, <2>1 DEF Leave
<1>12. (pc[c] \in InitiateStates <=> pc'[c] \in InitiateStates) => InitiatingStay
  <2>1. (c \in Initiating(PageOf[c]) <=> c \in Initiating(PageOf[c])')
          => Initiating(PageOf[c])' = Initiating(PageOf[c])
    BY ONLY <1>60
  <2>2. QED  BY <1>7, <1>8, <2>1 DEF InitiatingStay
<1>13. pc[c] \notin InitiateStates /\ pc'[c] \in InitiateStates => Starts(c, PageOf[c])
  <2>1. c \in Initiating(PageOf[c])' => Initiating(PageOf[c])' = Initiating(PageOf[c]) \cup {c}
    BY ONLY <1>60
  <2>2. QED  BY <1>7, <1>8, <2>1 DEF Starts
<1>14. pc[c] \in InitiateStates /\ pc'[c] \notin InitiateStates => Started(c, PageOf[c])
  <2>1. c \notin Initiating(PageOf[c])' => Initiating(PageOf[c])' = Initiating(PageOf[c]) \ {c}
    BY ONLY <1>60
  <2>2. QED  BY <1>7, <1>8, <2>1 DEF Started
<1>15. QED  BY <1>9, <1>10, <1>11, <1>12, <1>13, <1>14

\* A step of a hasher.
HashMoves(h) == (\A g \in Hashers \ {h} : hashing'[g] = hashing[g]) /\ UNCHANGED <<pc, orphan>>

LEMMA HasherMoves ==
  ASSUME NEW h \in Hashers, HashMoves(h), NEW p \in Pages
  PROVE  /\ hashing[h].state = "idle" /\ hashing'[h].state # "idle" /\ PageOf[hashing'[h].at] = p
              => Joins(h, p)
         /\ hashing[h].state # "idle" /\ hashing'[h].state = "idle" /\ PageOf[hashing[h].at] = p
              => Leave({h}, p)
         /\ hashing[h].state # "idle" /\ hashing'[h].state # "idle" /\ hashing'[h].at = hashing[h].at
              => HoldersStay
         /\ hashing[h].state # "initiate" /\ hashing'[h].state # "initiate" => InitiatingStay
         /\ hashing[h].state # "initiate" /\ hashing'[h].state = "initiate" /\ PageOf[hashing'[h].at] = p
              => Starts(h, p)
         /\ hashing[h].state = "initiate" /\ hashing'[h].state # "initiate" /\ PageOf[hashing[h].at] = p
              => Started(h, p)
<1> DEFINE B(q) == LeftBehind(q)
<1>0. \A q \in Pages : LeftBehind(q)' = B(q)
  BY DEF LeftBehind, ChunksOf, HashMoves
<1>1. \A q \in Pages : \A x : x \in Holders(q) <=>
        \/ x \in Chunks /\ PageOf[x] = q /\ pc[x] \in HoldingStates
        \/ x \in B(q)
        \/ x \in Hashers /\ hashing[x].state # "idle" /\ PageOf[hashing[x].at] = q
  BY DEF Holders, ChunksOf
<1>2. \A q \in Pages : \A x : x \in Holders(q)' <=>
        \/ x \in Chunks /\ PageOf[x] = q /\ pc[x] \in HoldingStates
        \/ x \in B(q)
        \/ x \in Hashers /\ hashing'[x].state # "idle" /\ PageOf[hashing'[x].at] = q
  BY <1>0 DEF Holders, ChunksOf, HashMoves, HoldingStates
<1>3. \A q \in Pages : \A x : x \in Initiating(q) <=>
        \/ x \in Chunks /\ PageOf[x] = q /\ pc[x] \in InitiateStates
        \/ x \in Hashers /\ hashing[x].state = "initiate" /\ PageOf[hashing[x].at] = q
  BY DEF Initiating, ChunksOf
<1>4. \A q \in Pages : \A x : x \in Initiating(q)' <=>
        \/ x \in Chunks /\ PageOf[x] = q /\ pc[x] \in InitiateStates
        \/ x \in Hashers /\ hashing'[x].state = "initiate" /\ PageOf[hashing'[x].at] = q
  BY DEF Initiating, ChunksOf, HashMoves, InitiateStates
<1>5. h \notin Chunks /\ (\A c \in Chunks : PageOf[c] \in Pages) /\ \A q \in Pages : h \notin B(q)
  BY LeftBehindAre
<1> HIDE DEF HoldingStates, InitiateStates, B
<1>6. \A q \in Pages : \A x : x # h =>
        /\ x \in Holders(q)' <=> x \in Holders(q)
        /\ x \in Initiating(q)' <=> x \in Initiating(q)
  BY <1>1, <1>2, <1>3, <1>4 DEF HashMoves
<1>7. \A q \in Pages :
        /\ h \in Holders(q) <=> hashing[h].state # "idle" /\ PageOf[hashing[h].at] = q
        /\ h \in Holders(q)' <=> hashing'[h].state # "idle" /\ PageOf[hashing'[h].at] = q
        /\ h \in Initiating(q) <=> hashing[h].state = "initiate" /\ PageOf[hashing[h].at] = q
        /\ h \in Initiating(q)' <=> hashing'[h].state = "initiate" /\ PageOf[hashing'[h].at] = q
  BY <1>1, <1>2, <1>3, <1>4, <1>5
<1>8. ASSUME NEW q \in Pages
      PROVE  /\ (h \in Holders(q)' <=> h \in Holders(q)) => Holders(q)' = Holders(q)
             /\ h \in Holders(q)' => Holders(q)' = Holders(q) \cup {h}
             /\ h \notin Holders(q)' => Holders(q)' = Holders(q) \ {h}
  <2>1. \A x : x # h => (x \in Holders(q)' <=> x \in Holders(q))
    BY <1>6
  <2>2. (h \in Holders(q)' <=> h \in Holders(q)) => Holders(q)' = Holders(q)
    BY <2>1
  <2>3. h \in Holders(q)' => Holders(q)' = Holders(q) \cup {h}
    BY <2>1
  <2>4. h \notin Holders(q)' => Holders(q)' = Holders(q) \ {h}
    BY <2>1
  <2>5. QED  BY <2>2, <2>3, <2>4
<1>9. ASSUME NEW q \in Pages
      PROVE  /\ (h \in Initiating(q)' <=> h \in Initiating(q)) => Initiating(q)' = Initiating(q)
             /\ h \in Initiating(q)' => Initiating(q)' = Initiating(q) \cup {h}
             /\ h \notin Initiating(q)' => Initiating(q)' = Initiating(q) \ {h}
  <2>1. \A x : x # h => (x \in Initiating(q)' <=> x \in Initiating(q))
    BY <1>6
  <2>2. (h \in Initiating(q)' <=> h \in Initiating(q)) => Initiating(q)' = Initiating(q)
    BY <2>1
  <2>3. h \in Initiating(q)' => Initiating(q)' = Initiating(q) \cup {h}
    BY <2>1
  <2>4. h \notin Initiating(q)' => Initiating(q)' = Initiating(q) \ {h}
    BY <2>1
  <2>5. QED  BY <2>2, <2>3, <2>4
<1>10. hashing[h].state = "idle" /\ hashing'[h].state # "idle" /\ PageOf[hashing'[h].at] = p
         => Joins(h, p)
  <2>1. SUFFICES ASSUME hashing[h].state = "idle" /\ hashing'[h].state # "idle", PageOf[hashing'[h].at] = p
                 PROVE  Joins(h, p)
    OBVIOUS
  <2>2. \A q \in Pages \ {p} : Holders(q)' = Holders(q)
    <3>1. \A q \in Pages \ {p} : h \in Holders(q)' <=> h \in Holders(q)
      BY <1>7, <2>1
    <3>2. QED  BY <1>8, <3>1
  <2>3. QED  BY <1>7, <1>8, <2>1, <2>2 DEF Joins
<1>11. hashing[h].state # "idle" /\ hashing'[h].state = "idle" /\ PageOf[hashing[h].at] = p
         => Leave({h}, p)
  <2>1. SUFFICES ASSUME hashing[h].state # "idle" /\ hashing'[h].state = "idle", PageOf[hashing[h].at] = p
                 PROVE  Leave({h}, p)
    OBVIOUS
  <2>2. \A q \in Pages \ {p} : Holders(q)' = Holders(q)
    <3>1. \A q \in Pages \ {p} : h \in Holders(q)' <=> h \in Holders(q)
      BY <1>7, <2>1
    <3>2. QED  BY <1>8, <3>1
  <2>3. QED  BY <1>7, <1>8, <2>1, <2>2 DEF Leave
<1>12. hashing[h].state # "idle" /\ hashing'[h].state # "idle" /\ hashing'[h].at = hashing[h].at
         => HoldersStay
  BY <1>7, <1>8, SameHolders
<1>13. hashing[h].state # "initiate" /\ hashing'[h].state # "initiate" => InitiatingStay
  BY <1>7, <1>9 DEF InitiatingStay
<1>14. hashing[h].state # "initiate" /\ hashing'[h].state = "initiate" /\ PageOf[hashing'[h].at] = p
         => Starts(h, p)
  <2>1. SUFFICES ASSUME hashing[h].state # "initiate" /\ hashing'[h].state = "initiate", PageOf[hashing'[h].at] = p
                 PROVE  Starts(h, p)
    OBVIOUS
  <2>2. \A q \in Pages \ {p} : Initiating(q)' = Initiating(q)
    <3>1. \A q \in Pages \ {p} : h \in Initiating(q)' <=> h \in Initiating(q)
      BY <1>7, <2>1
    <3>2. QED  BY <1>9, <3>1
  <2>3. QED  BY <1>7, <1>9, <2>1, <2>2 DEF Starts
<1>15. hashing[h].state = "initiate" /\ hashing'[h].state # "initiate" /\ PageOf[hashing[h].at] = p
         => Started(h, p)
  <2>1. SUFFICES ASSUME hashing[h].state = "initiate" /\ hashing'[h].state # "initiate", PageOf[hashing[h].at] = p
                 PROVE  Started(h, p)
    OBVIOUS
  <2>2. \A q \in Pages \ {p} : Initiating(q)' = Initiating(q)
    <3>1. \A q \in Pages \ {p} : h \in Initiating(q)' <=> h \in Initiating(q)
      BY <1>7, <2>1
    <3>2. QED  BY <1>9, <3>1
  <2>3. QED  BY <1>7, <1>9, <2>1, <2>2 DEF Started
<1>16. QED  BY <1>10, <1>11, <1>12, <1>13, <1>14, <1>15

-----------------------------------------------------------------------------
(* What a step does to the pages and to those who hold them.               *)

NothingKind == UNCHANGED pageVars /\ HoldersStay /\ InitiatingStay
LockKind(p, x) ==
  /\ LockPage(p) /\ Joins(x, p)
  /\ IF InitiateTransferNeeded(p) THEN Starts(x, p) ELSE InitiatingStay
UnlockKind(pg, p, W) ==
  /\ page[p] # NoPage /\ IsFiniteSet(W) /\ Leave(W, p) /\ InitiatingStay
  /\ \/ pg = page
     \/ page[p].transfer = "answered" /\ pg = [page EXCEPT ![p].transfer = "ended"]
  /\ UnlockPages(pg, p, Cardinality(W))
InitiateKind(p, x) == InitiateTransfer(p) /\ HoldersStay /\ Started(x, p)
AnswerKind(p) == TransferAnswers(p) /\ HoldersStay /\ InitiatingStay
EntryKind(c) ==
  /\ c \in Chunks /\ ValidPage(PageOf[c])
  /\ pc[c] = "uploaded" /\ pc'[c] = "entrySet" /\ SetPageEntry(c, written[c] + 1)
  /\ HoldersStay /\ InitiatingStay
UploadKind == UploadDirtyPage /\ HoldersStay /\ InitiatingStay

Kinds ==
  \/ NothingKind
  \/ \E p \in Pages : \E x : LockKind(p, x)
  \/ \E p \in Pages : \E pg, W : UnlockKind(pg, p, W)
  \/ \E p \in Pages : \E x : InitiateKind(p, x)
  \/ \E p \in Pages : AnswerKind(p)
  \/ \E c \in Chunks : EntryKind(c)
  \/ UploadKind

\* Nobody moves.
LEMMA NobodyMoves ==
  ASSUME UNCHANGED <<pc, orphan, hashing>>
  PROVE  HoldersStay /\ InitiatingStay
<1>1. \A p \in Pages : Holders(p)' = Holders(p)
  BY DEF Holders, LeftBehind, ChunksOf, HoldingStates
<1>2. \A p \in Pages : Initiating(p)' = Initiating(p)
  BY DEF Initiating, ChunksOf, InitiateStates
<1>3. QED  BY <1>1, <1>2, SameHolders DEF InitiatingStay

\* A page that somebody holds is in memory.
LEMMA HeldInMemory ==
  ASSUME Counts, NEW p \in Pages, NEW x, x \in Holders(p)
  PROVE  page[p] # NoPage
<1>1. Cardinality(Holders(p)) # 0
  BY HoldersFinite, FS_EmptySet
<1>2. QED  BY <1>1 DEF Counts, Locks, InMemory

\* One operation unlocks its page.
LEMMA UnlockOne ==
  ASSUME Counts, NEW p \in Pages, NEW x, Leave({x}, p), InitiatingStay, UnlockPages(page, p, 1)
  PROVE  Kinds
<1>1. page[p] # NoPage
  BY HeldInMemory DEF Leave
<1>2. IsFiniteSet({x}) /\ Cardinality({x}) = 1
  BY FS_Singleton
<1>3. UnlockPages(page, p, Cardinality({x}))
  BY <1>2
<1>4. UnlockKind(page, p, {x})
  BY <1>1, <1>2, <1>3 DEF UnlockKind
<1>5. \E pg, W : UnlockKind(pg, p, W)
  BY <1>4
<1>6. \E q \in Pages : \E pg, W : UnlockKind(pg, q, W)
  BY <1>5
<1>7. QED  BY <1>6 DEF Kinds

\* Reads of chunks.
LEMMA ReadKinds ==
  ASSUME ClientTypes, Counts, NEW c \in Chunks,
         BeginPrepare(c) \/ PrepareStep(c) \/ UnlockStep(c) \/ ReadChunk(c) \/ CancelReadChunk(c)
  PROVE  Kinds
<1> DEFINE p == PageOf[c]
<1>1. p \in Pages /\ (UNCHANGED hashVars => UNCHANGED hashing)
  BY DEF hashVars
<1>2. ASSUME NEW s, Goto(c, s), UNCHANGED <<orphan, hashVars>>
      PROVE  Moves(c) /\ pc'[c] = s
  BY <1>2 DEF Goto, ClientTypes, Moves, hashVars
<1>3. CASE BeginPrepare(c)
  <2>1. Moves(c) /\ pc[c] = "idle" /\ pc'[c] = "lockForRead" /\ UNCHANGED pageVars
    BY <1>2, <1>3 DEF BeginPrepare, At, ReadUnchanged
  <2>2. HoldersStay /\ InitiatingStay
    BY <2>1, ChunkMoves DEF HoldingStates, UploadStates, InitiateStates
  <2>3. QED  BY <2>1, <2>2 DEF Kinds, NothingKind
<1>4. CASE PrepareLock(c)
  <2>1. /\ Moves(c) /\ pc[c] = "lockForRead" /\ LockPage(p)
        /\ pc'[c] = IF InitiateTransferNeeded(p) THEN "initiateRead" ELSE "checkError"
    BY <1>2, <1>4 DEF PrepareLock, At, ReadUnchanged
  <2>2. Joins(c, p) /\ IF InitiateTransferNeeded(p) THEN Starts(c, p) ELSE InitiatingStay
    BY <2>1, ChunkMoves DEF HoldingStates, UploadStates, InitiateStates
  <2>3. QED  BY <1>1, <2>1, <2>2 DEF Kinds, LockKind
<1>5. CASE PrepareInitiate(c)
  <2>1. Moves(c) /\ pc[c] = "initiateRead" /\ pc'[c] = "checkValid" /\ InitiateTransfer(p)
    BY <1>2, <1>5 DEF PrepareInitiate, At, ReadUnchanged
  <2>2. HoldersStay /\ Started(c, p)
    BY <2>1, ChunkMoves DEF HoldingStates, UploadStates, InitiateStates
  <2>3. QED  BY <1>1, <2>1, <2>2 DEF Kinds, InitiateKind
<1>6. CASE PrepareCheckError(c) /\ page[p].failed
  <2>1. Moves(c) /\ pc[c] = "checkError" /\ pc'[c] = "idle" /\ UnlockPages(page, p, 1)
    BY <1>2, <1>6 DEF PrepareCheckError, At, ReadUnchanged, ReturnError, UnlockPage
  <2>2. Leave({c}, p) /\ InitiatingStay
    BY <2>1, ChunkMoves DEF HoldingStates, UploadStates, InitiateStates
  <2>3. QED  BY <1>1, <2>1, <2>2, UnlockOne
<1>7. CASE PrepareCheckError(c) /\ ~page[p].failed
  <2>1. Moves(c) /\ pc[c] = "checkError" /\ pc'[c] = "checkValid" /\ UNCHANGED pageVars
    BY <1>2, <1>7 DEF PrepareCheckError, At, ReadUnchanged
  <2>2. HoldersStay /\ InitiatingStay
    BY <2>1, ChunkMoves DEF HoldingStates, UploadStates, InitiateStates
  <2>3. QED  BY <2>1, <2>2 DEF Kinds, NothingKind
<1>8. CASE PrepareCheckValid(c)
  <2>1. Moves(c) /\ pc[c] = "checkValid" /\ pc'[c] \in {"unlockRead", "waitPage"} /\ UNCHANGED pageVars
    BY <1>2, <1>8 DEF PrepareCheckValid, At, ReadUnchanged
  <2>2. HoldersStay /\ InitiatingStay
    BY <2>1, ChunkMoves DEF HoldingStates, UploadStates, InitiateStates
  <2>3. QED  BY <2>1, <2>2 DEF Kinds, NothingKind
<1>9. CASE PrepareUnlock(c)
  <2>1. Moves(c) /\ pc[c] = "unlockRead" /\ pc'[c] = "download" /\ UnlockPages(page, p, 1)
    BY <1>2, <1>9 DEF PrepareUnlock, At, ReadUnchanged, UnlockPage
  <2>2. Leave({c}, p) /\ InitiatingStay
    BY <2>1, ChunkMoves DEF HoldingStates, UploadStates, InitiateStates
  <2>3. QED  BY <1>1, <2>1, <2>2, UnlockOne
<1>10. CASE CancelUnlock(c)
  <2>1. Moves(c) /\ pc[c] = "unlockCancel" /\ pc'[c] = "idle" /\ UnlockPages(page, p, 1)
    BY <1>2, <1>10 DEF CancelUnlock, At, ReadUnchanged, UnlockPage
  <2>2. Leave({c}, p) /\ InitiatingStay
    BY <2>1, ChunkMoves DEF HoldingStates, UploadStates, InitiateStates
  <2>3. QED  BY <1>1, <2>1, <2>2, UnlockOne
<1>11. CASE ReadChunk(c)
  <2>1. Moves(c) /\ pc[c] \in {"download", "pageError"} /\ pc'[c] = "idle" /\ UNCHANGED pageVars
    BY <1>2, <1>11 DEF ReadChunk, At, ReadUnchanged
  <2>2. HoldersStay /\ InitiatingStay
    BY <2>1, ChunkMoves DEF HoldingStates, UploadStates, InitiateStates
  <2>3. QED  BY <2>1, <2>2 DEF Kinds, NothingKind
<1>12. CASE CancelReadChunk(c)
  <2>1. Moves(c) /\ pc[c] = "waitPage" /\ pc'[c] = "unlockCancel" /\ UNCHANGED pageVars
    BY <1>2, <1>12 DEF CancelReadChunk, At, ReadUnchanged
  <2>2. HoldersStay /\ InitiatingStay
    BY <2>1, ChunkMoves DEF HoldingStates, UploadStates, InitiateStates
  <2>3. QED  BY <2>1, <2>2 DEF Kinds, NothingKind
<1>13. QED
  BY <1>3, <1>4, <1>5, <1>6, <1>7, <1>8, <1>9, <1>10, <1>11, <1>12
  DEF PrepareStep, UnlockStep

\* A reader that leaves its download behind hands it what it holds.
LEMMA LeaveKinds ==
  ASSUME ClientTypes, OneDownload, ~broken, NEW c \in Chunks, LeaveRead(c)
  PROVE  Kinds
<1> DEFINE p == PageOf[c]
           B(q) == LeftBehind(q)
           C(q) == LeftBehind(q)'
<1>1. /\ pc[c] \in DownloadStates /\ orphan[c] = "none" /\ p \in Pages /\ c \notin Hashers
      /\ pc'[c] = "lockForWrite" /\ \A d \in Chunks \ {c} : pc'[d] = pc[d]
      /\ orphan'[c] = (IF pc[c] = "waitPage" THEN "waiting" ELSE "ended")
      /\ \A d \in Chunks \ {c} : orphan'[d] = orphan[d]
      /\ UNCHANGED <<pageVars, hashing>>
  BY DEF LeaveRead, OneDownload, DownloadStates, ClientTypes, At, Goto, ReadUnchanged, hashVars
<1>2. \A q \in Pages : \A x : x \in Holders(q) <=>
        \/ x \in Chunks /\ PageOf[x] = q /\ pc[x] \in HoldingStates
        \/ x \in B(q)
        \/ x \in Hashers /\ hashing[x].state # "idle" /\ PageOf[hashing[x].at] = q
  BY DEF Holders, ChunksOf
<1>3. \A q \in Pages : \A x : x \in Holders(q)' <=>
        \/ x \in Chunks /\ PageOf[x] = q /\ pc'[x] \in HoldingStates
        \/ x \in C(q)
        \/ x \in Hashers /\ hashing[x].state # "idle" /\ PageOf[hashing[x].at] = q
  BY <1>1 DEF Holders, ChunksOf, HoldingStates
<1>4. /\ \A q \in Pages \ {p} : C(q) = B(q)
      /\ C(p) = IF pc[c] = "waitPage" THEN B(p) \cup {OrphanOf(c)} ELSE B(p)
  <2>1. \A q \in Pages \ {p} : \A d \in ChunksOf(q) : orphan'[d] = orphan[d]
    BY <1>1 DEF ChunksOf
  <2>2. \A q \in Pages \ {p} : C(q) = B(q)
    BY <2>1 DEF LeftBehind, ChunksOf
  <2>3. {d \in ChunksOf(p) : orphan'[d] = "waiting"}
          = IF pc[c] = "waitPage" THEN {d \in ChunksOf(p) : orphan[d] = "waiting"} \cup {c}
            ELSE {d \in ChunksOf(p) : orphan[d] = "waiting"}
    <3>1. \A d \in ChunksOf(p) : IF d = c THEN orphan[d] # "waiting" /\ (orphan'[d] = "waiting" <=> pc[c] = "waitPage")
                                 ELSE orphan'[d] = orphan[d]
      BY <1>1 DEF ChunksOf
    <3>2. c \in ChunksOf(p)
      BY DEF ChunksOf
    <3>3. QED  BY <3>1, <3>2
  <2>4. C(p) = {OrphanOf(d) : d \in {d \in ChunksOf(p) : orphan'[d] = "waiting"}}
    BY DEF LeftBehind, ChunksOf
  <2>5. QED  BY <2>2, <2>3, <2>4 DEF LeftBehind
<1>5. c \notin B(p) /\ OrphanOf(c) \notin Chunks \cup Hashers /\ OrphanOf(c) \notin B(p)
  BY <1>1, LeftBehindAre
<1>6. \A q \in Pages \ {p} : Holders(q)' = Holders(q)
  <2>1. ASSUME NEW q \in Pages \ {p}, NEW x PROVE x \in Holders(q)' <=> x \in Holders(q)
    BY <1>1, <1>2, <1>3, <1>4
  <2>2. QED  BY <2>1
<1> HIDE DEF B, C
<1>7. CASE pc[c] = "waitPage"
  <2>1. pc[c] \in HoldingStates /\ pc'[c] \notin HoldingStates
    BY <1>1, <1>7 DEF HoldingStates, UploadStates
  <2> HIDE DEF HoldingStates
  <2>2. Holders(p)' = (Holders(p) \ {c}) \cup {OrphanOf(c)}
    <3>1. ASSUME NEW x PROVE x \in Holders(p)' <=> x \in (Holders(p) \ {c}) \cup {OrphanOf(c)}
      BY <1>1, <1>2, <1>3, <1>4, <1>5, <1>7, <2>1
    <3>2. QED  BY <3>1
  <2>3. c \in Holders(p) /\ OrphanOf(c) \notin Holders(p)
    BY <1>1, <1>2, <1>5, <2>1
  <2>4. IsFiniteSet(Holders(p)) /\ Cardinality(Holders(p)) \in Nat
    BY <1>1, HoldersFinite, FS_CardinalityType
  <2>5. /\ IsFiniteSet(Holders(p) \ {c})
        /\ Cardinality(Holders(p) \ {c}) = Cardinality(Holders(p)) - 1
    BY <2>3, <2>4, FS_RemoveElement
  <2>6. Cardinality((Holders(p) \ {c}) \cup {OrphanOf(c)}) = Cardinality(Holders(p) \ {c}) + 1
    BY <2>3, <2>5, FS_AddElement
  <2>7. Cardinality(Holders(p)') = Cardinality(Holders(p))
    BY <2>2, <2>4, <2>5, <2>6
  <2>8. Holders(p)' # {} /\ Holders(p) # {}
    BY <2>2, <2>3
  <2>9. HoldersStay
    BY <1>6, <2>7, <2>8 DEF HoldersStay
  <2>10. InitiatingStay
    <3>1. ASSUME NEW d \in Chunks PROVE pc'[d] \in InitiateStates <=> pc[d] \in InitiateStates
      BY <1>1, <1>7 DEF InitiateStates
    <3>2. QED  BY <1>1, <3>1 DEF InitiatingStay, Initiating, ChunksOf, InitiateStates
  <2>11. QED  BY <1>1, <2>9, <2>10 DEF Kinds, NothingKind
<1>8. CASE pc[c] # "waitPage"
  <2>1. pc[c] \notin HoldingStates /\ pc'[c] \notin HoldingStates
    BY <1>1, <1>8 DEF HoldingStates, UploadStates, DownloadStates
  <2> HIDE DEF HoldingStates
  <2>2. Holders(p)' = Holders(p)
    <3>1. ASSUME NEW x PROVE x \in Holders(p)' <=> x \in Holders(p)
      BY <1>1, <1>2, <1>3, <1>4, <1>8, <2>1
    <3>2. QED  BY <3>1
  <2>3. HoldersStay
    BY <1>6, <2>2, SameHolders
  <2>4. InitiatingStay
    <3>1. ASSUME NEW d \in Chunks PROVE pc'[d] \in InitiateStates <=> pc[d] \in InitiateStates
      BY <1>1 DEF InitiateStates, DownloadStates
    <3>2. QED  BY <1>1, <3>1 DEF InitiatingStay, Initiating, ChunksOf, InitiateStates
  <2>5. QED  BY <1>1, <2>3, <2>4 DEF Kinds, NothingKind
<1>9. QED  BY <1>7, <1>8

\* Writes of chunks.
LEMMA WriteKinds ==
  ASSUME ClientTypes, Counts, NEW c \in Chunks,
         WriteLock(c) \/ WriteStep(c) \/ MutexStep(c)
  PROVE  Kinds
<1> DEFINE p == PageOf[c]
<1>1. p \in Pages /\ (UNCHANGED hashVars => UNCHANGED hashing)
  BY DEF hashVars
<1>2. ASSUME NEW s, Goto(c, s), UNCHANGED <<orphan, hashVars>>
      PROVE  Moves(c) /\ pc'[c] = s
  BY <1>2 DEF Goto, ClientTypes, Moves, hashVars
<1>3. CASE WriteLock(c)
  <2>1. /\ Moves(c) /\ pc[c] \in {"idle", "lockForWrite"} /\ LockPage(p)
        /\ pc'[c] = IF InitiateTransferNeeded(p) THEN "initiateWrite" ELSE "startUpload"
    BY <1>2, <1>3 DEF WriteLock, At, WriteUnchanged
  <2>2. Joins(c, p) /\ IF InitiateTransferNeeded(p) THEN Starts(c, p) ELSE InitiatingStay
    BY <2>1, ChunkMoves DEF HoldingStates, UploadStates, InitiateStates
  <2>3. QED  BY <1>1, <2>1, <2>2 DEF Kinds, LockKind
<1>4. CASE WriteInitiate(c)
  <2>1. Moves(c) /\ pc[c] = "initiateWrite" /\ pc'[c] = "startUpload" /\ InitiateTransfer(p)
    BY <1>2, <1>4 DEF WriteInitiate, At, WriteUnchanged
  <2>2. HoldersStay /\ Started(c, p)
    BY <2>1, ChunkMoves DEF HoldingStates, UploadStates, InitiateStates
  <2>3. QED  BY <1>1, <2>1, <2>2 DEF Kinds, InitiateKind
<1>5. CASE StartNewUpload(c)
  <2>1. Moves(c) /\ pc[c] = "startUpload" /\ pc'[c] = "upload" /\ UNCHANGED pageVars
    BY <1>2, <1>5 DEF StartNewUpload, At, WriteUnchanged
  <2>2. HoldersStay /\ InitiatingStay
    BY <2>1, ChunkMoves DEF HoldingStates, UploadStates, InitiateStates
  <2>3. QED  BY <2>1, <2>2 DEF Kinds, NothingKind
<1>6. CASE UploadEnds(c)
  <2>1. Moves(c) /\ pc[c] = "upload" /\ pc'[c] \in {"uploaded", "uploadFailed"} /\ UNCHANGED pageVars
    BY <1>2, <1>6 DEF UploadEnds, At, WriteUnchanged
  <2>2. HoldersStay /\ InitiatingStay
    BY <2>1, ChunkMoves DEF HoldingStates, UploadStates, InitiateStates
  <2>3. QED  BY <2>1, <2>2 DEF Kinds, NothingKind
<1>7. CASE RetryUpload(c)
  <2>1. Moves(c) /\ pc[c] = "uploadFailed" /\ pc'[c] = "upload" /\ UNCHANGED pageVars
    BY <1>2, <1>7 DEF RetryUpload, At, WriteUnchanged
  <2>2. HoldersStay /\ InitiatingStay
    BY <2>1, ChunkMoves DEF HoldingStates, UploadStates, InitiateStates
  <2>3. QED  BY <2>1, <2>2 DEF Kinds, NothingKind
<1>8. CASE GiveUpUpload(c)
  <2>1. Moves(c) /\ pc[c] = "uploadFailed" /\ pc'[c] = "idle" /\ UnlockPages(page, p, 1)
    BY <1>2, <1>8 DEF GiveUpUpload, At, WriteUnchanged, UnlockPage
  <2>2. Leave({c}, p) /\ InitiatingStay
    BY <2>1, ChunkMoves DEF HoldingStates, UploadStates, InitiateStates
  <2>3. QED  BY <1>1, <2>1, <2>2, UnlockOne
<1>9. CASE SetChunkEntry(c) /\ page[p].valid
  <2>1. /\ Moves(c) /\ pc[c] = "uploaded" /\ pc'[c] = "entrySet"
        /\ SetPageEntry(c, written[c] + 1)
    BY <1>2, <1>9 DEF SetChunkEntry, At, WriteUnchanged
  <2>2. HoldersStay /\ InitiatingStay
    BY <2>1, ChunkMoves DEF HoldingStates, UploadStates, InitiateStates
  <2>3. c \in Holders(p)
    BY <2>1 DEF Holders, ChunksOf, HoldingStates, UploadStates
  <2>4. ValidPage(p)
    BY <1>1, <1>9, <2>3, HeldInMemory DEF ValidPage
  <2>5. EntryKind(c)
    BY <2>1, <2>2, <2>4 DEF EntryKind
  <2>6. QED  BY <2>5 DEF Kinds
<1>10. CASE SetChunkEntry(c) /\ ~page[p].valid
  <2>1. UNCHANGED <<pc, orphan, hashing, pageVars>>
    BY <1>1, <1>10 DEF SetChunkEntry, WriteUnchanged
  <2>2. QED  BY <2>1, NobodyMoves DEF Kinds, NothingKind
<1>11. CASE FinishUpload(c)
  <2>1. Moves(c) /\ pc[c] = "entrySet" /\ pc'[c] = "idle" /\ UnlockPages(page, p, 1)
    BY <1>2, <1>11 DEF FinishUpload, At, WriteUnchanged, UnlockPage
  <2>2. Leave({c}, p) /\ InitiatingStay
    BY <2>1, ChunkMoves DEF HoldingStates, UploadStates, InitiateStates
  <2>3. QED  BY <1>1, <2>1, <2>2, UnlockOne
<1>12. QED
  BY <1>3, <1>4, <1>5, <1>6, <1>7, <1>8, <1>9, <1>10, <1>11
  DEF WriteStep, MutexStep

\* Reads of hashes.
LEMMA HashKinds ==
  ASSUME ClientTypes, Counts, NEW h \in Hashers,
         HashStep(h) \/ \E c \in ReadChunks : HashLock(h, c)
  PROVE  Kinds
<1>1. hashing[h] \in [at : Chunks, state : HashStates]
  BY DEF ClientTypes
<1>2. ASSUME NEW r, hashing' = [hashing EXCEPT ![h] = r], UNCHANGED clientVars
      PROVE  HashMoves(h) /\ hashing'[h] = r
  BY <1>2 DEF ClientTypes, HashMoves, clientVars
<1>3. ASSUME NEW c \in ReadChunks, HashLock(h, c) PROVE Kinds
  <2> DEFINE p == PageOf[c]
  <2>1. p \in Pages
    OBVIOUS
  <2>2. /\ HashMoves(h) /\ hashing[h].state = "idle" /\ LockPage(p) /\ hashing'[h].at = c
        /\ hashing'[h].state = IF InitiateTransferNeeded(p) THEN "initiate" ELSE "complete"
    <3>1. /\ hashing[h].state = "idle" /\ LockPage(p) /\ UNCHANGED clientVars
          /\ hashing' = [hashing EXCEPT ![h] = [at |-> c, state |->
                          IF InitiateTransferNeeded(p) THEN "initiate" ELSE "complete"]]
      BY <1>3 DEF HashLock, HashUnchanged
    <3>2. /\ HashMoves(h)
          /\ hashing'[h] = [at |-> c, state |->
                            IF InitiateTransferNeeded(p) THEN "initiate" ELSE "complete"]
      BY <1>2, <3>1
    <3>3. QED  BY <3>1, <3>2
  <2>3. Joins(h, p) /\ IF InitiateTransferNeeded(p) THEN Starts(h, p) ELSE InitiatingStay
    BY <2>1, <2>2, HasherMoves
  <2>4. LockKind(p, h)
    BY <2>2, <2>3 DEF LockKind
  <2>5. QED  BY <2>1, <2>4 DEF Kinds
<1>4. CASE HashInitiate(h)
  <2>1. PICK p \in Pages : p = PageOf[hashing[h].at]
    BY <1>1
  <2>2. [hashing EXCEPT ![h].state = "complete"]
          = [hashing EXCEPT ![h] = [hashing[h] EXCEPT !.state = "complete"]]
    BY DEF ClientTypes
  <2>3. /\ HashMoves(h) /\ hashing[h].state = "initiate" /\ InitiateTransfer(p)
        /\ hashing'[h] = [hashing[h] EXCEPT !.state = "complete"]
    BY <1>2, <1>4, <2>1, <2>2 DEF HashInitiate, HashUnchanged
  <2>4. hashing'[h].state = "complete" /\ hashing'[h].at = hashing[h].at
    BY <1>1, <2>3
  <2>5. HoldersStay /\ Started(h, p)
    BY <2>1, <2>3, <2>4, HasherMoves
  <2>6. InitiateKind(p, h)
    BY <2>3, <2>5 DEF InitiateKind
  <2>7. QED  BY <2>6 DEF Kinds
<1>5. CASE HashReturn(h)
  <2>1. PICK p \in Pages : p = PageOf[hashing[h].at]
    BY <1>1
  <2>2. /\ HashMoves(h) /\ hashing[h].state = "complete" /\ UnlockPages(page, p, 1)
        /\ hashing'[h].state = "idle"
    <3>1. /\ hashing[h].state = "complete" /\ UnlockPages(page, p, 1) /\ UNCHANGED clientVars
          /\ hashing' = [hashing EXCEPT ![h] = [at |-> NoChunk, state |-> "idle"]]
      BY <1>5, <2>1 DEF HashReturn, HashUnchanged, UnlockPage
    <3>2. HashMoves(h) /\ hashing'[h] = [at |-> NoChunk, state |-> "idle"]
      BY <1>2, <3>1
    <3>3. QED  BY <3>1, <3>2
  <2>3. Leave({h}, p) /\ InitiatingStay
    BY <2>1, <2>2, HasherMoves
  <2>4. QED  BY <2>2, <2>3, UnlockOne
<1>6. QED  BY <1>3, <1>4, <1>5 DEF HashStep

\* The end of a transfer: every download that waits for it unlocks the page.
LEMMA CompletedKind ==
  ASSUME ClientTypes, NEW p \in Pages, PageTransferCompleted(p)
  PROVE  \E pg, W : UnlockKind(pg, p, W)
<1> DEFINE waiting == {c \in ChunksOf(p) : pc[c] = "waitPage"}
           ended == [page EXCEPT ![p].transfer = "ended"]
           B(q) == LeftBehind(q)
           W == WaitingFor(p)
<1>1. /\ page[p] # NoPage /\ page[p].transfer = "answered"
      /\ UnlockPages(ended, p, Cardinality(W)) /\ UNCHANGED hashing
      /\ pc' = [c \in Chunks |-> IF c \notin W THEN pc[c]
                                ELSE IF page[p].failed THEN "pageError" ELSE "download"]
      /\ orphan' = [c \in Chunks |-> IF OrphanOf(c) \in W THEN "ended" ELSE orphan[c]]
  BY DEF PageTransferCompleted, hashVars
<1>2. \A x : x \in W <=> x \in waiting \/ x \in B(p)
  BY DEF WaitingFor
<1>3. \A c \in Chunks : c \in W <=> c \in waiting
  BY <1>2, LeftBehindAre
<1>4. \A c \in Chunks : OrphanOf(c) \in W <=> PageOf[c] = p /\ orphan[c] = "waiting"
  <2>1. \A c \in Chunks : OrphanOf(c) \notin waiting
    BY DEF ChunksOf
  <2>2. QED  BY <1>2, <2>1, LeftBehindAre
<1>5. \A c \in Chunks : IF c \in waiting THEN pc'[c] \in {"pageError", "download"} ELSE pc'[c] = pc[c]
  BY <1>1, <1>3
<1>6. /\ \A c \in waiting : c \in Chunks /\ PageOf[c] = p /\ pc[c] = "waitPage"
      /\ \A q \in Pages : \A x \in B(q) : x \notin Chunks /\ x \notin Hashers
  BY LeftBehindAre DEF ChunksOf
<1>7. IsFiniteSet(W)
  <2>1. IsFiniteSet(waiting)
    BY <1>6, FS_Subset
  <2>2. W = waiting \cup B(p)
    BY <1>2
  <2>3. IsFiniteSet(B(p))
    BY LeftBehindAre
  <2>4. IsFiniteSet(waiting \cup B(p))
    BY <2>1, <2>3, FS_Union
  <2>5. QED  BY <2>2, <2>4
<1>8. LeftBehind(p)' = {} /\ \A q \in Pages \ {p} : LeftBehind(q)' = B(q)
  <2>1. \A c \in ChunksOf(p) : orphan'[c] # "waiting"
    BY <1>1, <1>4 DEF ChunksOf
  <2>2. \A q \in Pages \ {p} : \A c \in ChunksOf(q) : orphan'[c] = orphan[c]
    BY <1>1, <1>4 DEF ChunksOf
  <2>3. LeftBehind(p)' = {}
    BY <2>1 DEF LeftBehind, ChunksOf
  <2>4. \A q \in Pages \ {p} : LeftBehind(q)' = B(q)
    BY <2>2 DEF LeftBehind, ChunksOf
  <2>5. QED  BY <2>3, <2>4
<1> HIDE DEF waiting, ended, B, W
<1>9. \A q \in Pages : \A x : x \in Holders(q) <=>
        \/ x \in Chunks /\ PageOf[x] = q /\ pc[x] \in HoldingStates
        \/ x \in B(q)
        \/ x \in Hashers /\ hashing[x].state # "idle" /\ PageOf[hashing[x].at] = q
  BY DEF Holders, ChunksOf, B
<1>10. \A q \in Pages : \A x : x \in Holders(q)' <=>
        \/ x \in Chunks /\ PageOf[x] = q /\ pc'[x] \in HoldingStates
        \/ q # p /\ x \in B(q)
        \/ x \in Hashers /\ hashing[x].state # "idle" /\ PageOf[hashing[x].at] = q
  BY <1>1, <1>8 DEF Holders, ChunksOf, HoldingStates
<1>11. \A c \in waiting : pc[c] \in HoldingStates /\ pc'[c] \notin HoldingStates /\ c \notin Hashers
  BY <1>5, <1>6 DEF HoldingStates, UploadStates
<1> HIDE DEF HoldingStates
<1>12. \A q \in Pages \ {p} : Holders(q)' = Holders(q)
  <2>1. ASSUME NEW q \in Pages \ {p}, NEW x PROVE x \in Holders(q)' <=> x \in Holders(q)
    BY <1>5, <1>6, <1>9, <1>10
  <2>2. QED  BY <2>1
<1>13. Holders(p)' = Holders(p) \ W
  <2>1. ASSUME NEW x PROVE x \in Holders(p)' <=> x \in Holders(p) /\ x \notin W
    BY <1>2, <1>5, <1>6, <1>9, <1>10, <1>11
  <2>2. QED  BY <2>1
<1>14. W \subseteq Holders(p)
  BY <1>2, <1>6, <1>9, <1>11
<1>15. InitiatingStay
  <2>1. ASSUME NEW c \in Chunks PROVE pc'[c] \in InitiateStates <=> pc[c] \in InitiateStates
    BY <1>5, <1>6 DEF InitiateStates
  <2>2. ASSUME NEW q \in Pages
        PROVE  {c \in ChunksOf(q) : pc'[c] \in InitiateStates} = {c \in ChunksOf(q) : pc[c] \in InitiateStates}
    BY <2>1 DEF ChunksOf
  <2>3. QED  BY <1>1, <2>2 DEF InitiatingStay, Initiating, ChunksOf, InitiateStates
<1>16. Leave(W, p)
  BY <1>12, <1>13, <1>14 DEF Leave
<1>17. UnlockKind(ended, p, W)
  BY <1>1, <1>7, <1>15, <1>16 DEF UnlockKind, ended
<1>18. QED  BY <1>17

\* Transfers of pages, and Flush.
LEMMA FlushKinds ==
  ASSUME FlushStart \/ FlushDrain \/ FlushStep \/ \E p \in Pages : TransferAnswers(p)
  PROVE  Kinds
<1>1. ASSUME UNCHANGED <<pageVars, clientVars, hashVars>> PROVE Kinds
  BY <1>1, NobodyMoves DEF Kinds, NothingKind, clientVars, hashVars
<1>2. CASE FlushStart
  BY <1>1, <1>2 DEF FlushStart, FlushElse
<1>3. CASE FlushWaited
  <2>1. UNCHANGED <<pageVars, pc, orphan, hashing>>
    BY <1>3 DEF FlushWaited, hashVars
  <2>2. QED  BY <2>1, NobodyMoves DEF Kinds, NothingKind
<1>4. CASE FlushDrain
  BY <1>1, <1>4 DEF FlushDrain, FlushElse
<1>5. CASE FlushPages
  BY <1>1, <1>5 DEF FlushPages, FlushElse
<1>6. CASE FlushUnlocked
  BY <1>1, <1>6 DEF FlushUnlocked, FlushElse
<1>7. CASE UploadDirtyPage
  <2>1. UNCHANGED <<pc, orphan, hashing>>
    BY <1>7 DEF UploadDirtyPage, FlushElse, clientVars, hashVars
  <2>2. UploadKind
    BY <1>7, <2>1, NobodyMoves DEF UploadKind
  <2>3. QED  BY <2>2 DEF Kinds
<1>8. CASE DirtyPagesUploaded
  BY <1>1, <1>8 DEF DirtyPagesUploaded, FlushElse
<1>9. CASE UploadLayerStatus
  BY <1>1, <1>9 DEF UploadLayerStatus, FlushElse
<1>10. CASE FlushReturn
  BY <1>1, <1>10 DEF FlushReturn, FlushElse
<1>11. ASSUME NEW p \in Pages, TransferAnswers(p) PROVE Kinds
  <2>1. UNCHANGED <<pc, orphan, hashing>>
    BY <1>11 DEF TransferAnswers, clientVars, hashVars
  <2>2. AnswerKind(p)
    BY <1>11, <2>1, NobodyMoves DEF AnswerKind
  <2>3. QED  BY <2>2 DEF Kinds
<1>12. QED
  BY <1>2, <1>3, <1>4, <1>5, <1>6, <1>7, <1>8, <1>9, <1>10, <1>11 DEF FlushStep

\* Every step is of one of the kinds.
LEMMA StepKind ==
  ASSUME ClientTypes, Counts, OneDownload, Next
  PROVE  Kinds
<1>1. ASSUME NEW p \in Pages, PageTransferCompleted(p) PROVE Kinds
  BY <1>1, CompletedKind DEF Kinds
<1>2. ASSUME NEW c \in Chunks,
             BeginPrepare(c) \/ PrepareStep(c) \/ UnlockStep(c) \/ ReadChunk(c) \/ CancelReadChunk(c)
      PROVE  Kinds
  BY <1>2, ReadKinds
<1>3. ASSUME NEW c \in Chunks, WriteLock(c) \/ WriteStep(c) \/ MutexStep(c) PROVE Kinds
  BY <1>3, WriteKinds
<1>4. ASSUME NEW h \in Hashers, HashStep(h) \/ \E c \in ReadChunks : HashLock(h, c) PROVE Kinds
  BY <1>4, HashKinds
<1>5. ASSUME NEW c \in Chunks, LeaveRead(c) PROVE Kinds
  BY <1>5, LeaveKinds DEF Next
<1>6. QED
  BY <1>1, <1>2, <1>3, <1>4, <1>5, FlushKinds DEF Next, ReadWork, FreeWork, MutexWork

-----------------------------------------------------------------------------
(* The lists, the counts and the transfers, kind by kind.                  *)

\* The upload that is acknowledged has a version.
EntryFits == \A c \in Chunks : pc[c] = "uploaded" => written[c] + 1 \in Versions

\* Finitely many pages are held.
LEMMA HeldFinite ==
  ASSUME ClientTypes
  PROVE  IsFiniteSet(Held) /\ Cardinality(Held) \in Nat
<1> DEFINE T == {PageOf[c] : c \in Chunks}
<1>1. PageOf \in Surjection(Chunks, T)
  BY DEF Surjection
<1>2. IsFiniteSet(T)
  BY <1>1, FS_Surjection
<1>3. Held \subseteq T
  <2>1. ASSUME NEW p \in Pages, NEW x \in Holders(p) PROVE p \in T
    <3>1. CASE x \in ChunksOf(p)
      BY <3>1 DEF ChunksOf
    <3>2. CASE x \in LeftBehind(p)
      BY <3>2 DEF LeftBehind, ChunksOf
    <3>3. CASE x \notin ChunksOf(p) /\ x \notin LeftBehind(p)
      <4>1. x \in Hashers /\ PageOf[hashing[x].at] = p
        BY <3>3 DEF Holders
      <4>2. hashing[x].at \in Chunks
        BY <4>1 DEF ClientTypes
      <4>3. QED  BY <4>1, <4>2
    <3>4. QED  BY <3>1, <3>2, <3>3
  <2>2. QED  BY <2>1 DEF Held
<1>4. QED  BY <1>2, <1>3, FS_Subset, FS_CardinalityType

\* A page that is locked is in memory; its lock count is that of its holders.
LEMMA HeldCount ==
  ASSUME PageTypes, Counts, NEW p \in Pages
  PROVE  /\ Cardinality(Holders(p)) = Locks(p) /\ Locks(p) \in Nat
         /\ Locks(p) = 0 <=> Holders(p) = {}
<1>1. Locks(p) \in Nat
  BY DEF Locks, InMemory, PageTypes, PageMap, Page
<1>2. QED  BY <1>1, HoldersFinite, FS_EmptySet DEF Counts

\* UnlockEffect, of those who leave a page.
LEMMA UnlockKindEffect ==
  ASSUME PageTypes, Lists, Counts, ClientTypes, NEW p \in Pages, NEW pg, NEW W, UnlockKind(pg, p, W)
  PROVE  /\ PageTypes' /\ Lists' /\ OthersStay(p) /\ UNCHANGED dirtyPageList
         /\ Cardinality(W) \in Nat
         /\ Left(p, Cardinality(W)) \in Nat
         /\ Cardinality(Holders(p)') = Left(p, Cardinality(W))
         /\ \/ Dropped(p, Cardinality(W)) \/ LetGo(p, Cardinality(W))
            \/ Unlocked(pg, p, Cardinality(W))
         /\ Left(p, Cardinality(W)) = 0 => Holders(p)' = {}
         /\ lockedPageCount' = IF Left(p, Cardinality(W)) = 0 /\ Cardinality(W) > 0
                               THEN lockedPageCount - 1 ELSE lockedPageCount
<1> DEFINE n == Cardinality(W)
<1>1. IsFiniteSet(W) /\ Leave(W, p) /\ p \in InMemory /\ Noted(pg, p) /\ UnlockPages(pg, p, n)
  BY DEF UnlockKind, InMemory, Noted
<1>2. Cardinality(Holders(p)) = page[p].lockCount /\ page[p].lockCount \in Nat
  BY <1>1, HeldCount DEF Locks
<1>3. IsFiniteSet(Holders(p))
  BY HoldersFinite
<1>4. n \in Nat /\ n <= page[p].lockCount
  BY <1>1, <1>2, <1>3, FS_Subset, FS_CardinalityType DEF Leave
<1>5. n > 0 => lockedPageCount > 0
  <2>1. SUFFICES ASSUME n > 0 PROVE lockedPageCount > 0
    OBVIOUS
  <2>2. Holders(p) # {}
    BY <1>2, <1>3, <1>4, <2>1, FS_EmptySet
  <2>3. Held # {}
    BY <2>2 DEF Held
  <2>4. QED  BY <2>3, HeldFinite, FS_EmptySet DEF Counts
<1>6. Left(p, n) \in Nat
  BY <1>2, <1>4 DEF Left
<1>7. IsFiniteSet(Holders(p) \ W) /\ Cardinality(Holders(p) \ W) = Left(p, n)
  <2>1. Holders(p) \cap W = W
    BY <1>1 DEF Leave
  <2>2. QED  BY <1>2, <1>3, <2>1, FS_Difference DEF Left
<1>8. Holders(p)' = Holders(p) \ W
  BY <1>1 DEF Leave
<1> HIDE DEF n
<1>9. Left(p, n) = 0 => Holders(p)' = {}
  BY <1>7, <1>8, FS_EmptySet
<1>10. /\ PageTypes' /\ Lists' /\ OthersStay(p)
       /\ Dropped(p, n) \/ LetGo(p, n) \/ Unlocked(pg, p, n)
       /\ UNCHANGED dirtyPageList
       /\ lockedPageCount' = IF Left(p, n) = 0 /\ n > 0 THEN lockedPageCount - 1 ELSE lockedPageCount
  BY <1>1, <1>4, <1>5, UnlockEffect
<1>11. QED  BY <1>4, <1>6, <1>7, <1>8, <1>9, <1>10 DEF n

\* The pages and the lists keep their types, and the lists hold the pages.
LEMMA ListsStep ==
  ASSUME PageTypes, Lists, Counts, ClientTypes, EntryFits, storedEntry \in [Chunks -> Versions], Kinds
  PROVE  PageTypes' /\ Lists'
<1>1. CASE NothingKind
  BY <1>1 DEF NothingKind, pageVars, PageTypes, Lists, InMemory
<1>2. ASSUME NEW p \in Pages, NEW x, LockKind(p, x) PROVE PageTypes' /\ Lists'
  BY <1>2, LockEffect DEF LockKind
<1>3. ASSUME NEW p \in Pages, NEW pg, NEW W, UnlockKind(pg, p, W) PROVE PageTypes' /\ Lists'
  BY <1>3, UnlockKindEffect
<1>4. ASSUME NEW p \in Pages, NEW x, InitiateKind(p, x) PROVE PageTypes' /\ Lists'
  <2>1. page[p] # NoPage /\ page[p] \in Page
    <3>1. x \in Holders(p)
      BY <1>4, HoldersFinite DEF InitiateKind, Started
    <3>2. QED  BY <3>1, HeldInMemory DEF PageTypes, PageMap
  <2>2. /\ page' = [page EXCEPT ![p].transfer = "running"]
        /\ UNCHANGED <<entry, pageList, dirtyPageList, lockedPageCount>>
    BY <1>4 DEF InitiateKind, InitiateTransfer
  <2>3. /\ page'[p] \in Page /\ page'[p].valid = page[p].valid
        /\ \A q \in Pages \ {p} : page'[q] = page[q]
        /\ page' \in PageMap
    BY <2>1, <2>2 DEF PageTypes, PageMap, Page
  <2>4. InMemory' = InMemory
    BY <2>1, <2>3 DEF InMemory
  <2>5. ToSet(dirtyPageList) \subseteq Pages
    BY ListMembers DEF PageTypes
  <2>6. QED  BY <2>2, <2>3, <2>4, <2>5 DEF PageTypes, Lists
<1>5. ASSUME NEW p \in Pages, AnswerKind(p) PROVE PageTypes' /\ Lists'
  <2>1. page[p] # NoPage /\ page[p] \in Page
    BY <1>5 DEF AnswerKind, TransferAnswers, PageTypes, PageMap
  <2>2. UNCHANGED <<pageList, dirtyPageList, lockedPageCount>>
    BY <1>5 DEF AnswerKind, TransferAnswers
  <2>3. /\ page'[p] \in Page /\ (page[p].valid => page'[p].valid)
        /\ \A q \in Pages \ {p} : page'[q] = page[q]
        /\ page' \in PageMap
    <3>1. \/ page' = [page EXCEPT ![p].transfer = "answered", ![p].valid = TRUE]
          \/ page' = [page EXCEPT ![p].transfer = "answered", ![p].failed = TRUE]
      BY <1>5 DEF AnswerKind, TransferAnswers
    <3>2. CASE page' = [page EXCEPT ![p].transfer = "answered", ![p].valid = TRUE]
      BY <2>1, <3>2 DEF PageTypes, PageMap, Page
    <3>3. CASE page' = [page EXCEPT ![p].transfer = "answered", ![p].failed = TRUE]
      BY <2>1, <3>3 DEF PageTypes, PageMap, Page
    <3>4. QED  BY <3>1, <3>2, <3>3
  <2>4. InMemory' = InMemory
    BY <2>1, <2>3 DEF InMemory
  <2>5. entry' \in [Chunks -> Versions]
    BY <1>5 DEF AnswerKind, TransferAnswers, PageTypes
  <2>6. ToSet(dirtyPageList) \subseteq Pages
    BY ListMembers DEF PageTypes
  <2>7. QED  BY <2>2, <2>3, <2>4, <2>5, <2>6 DEF PageTypes, Lists
<1>6. ASSUME NEW c \in Chunks, EntryKind(c) PROVE PageTypes' /\ Lists'
  <2> DEFINE p == PageOf[c]
  <2>1. p \in InMemory /\ page[p].valid /\ SetPageEntry(c, written[c] + 1) /\ pc[c] = "uploaded"
    BY <1>6 DEF EntryKind, ValidPage, InMemory
  <2>2. UNCHANGED <<page, lockedPageCount>> /\ entry' = [entry EXCEPT ![c] = written[c] + 1]
    BY <2>1 DEF SetPageEntry
  <2>3. entry' \in [Chunks -> Versions] /\ InMemory' = InMemory
    BY <2>1, <2>2 DEF EntryFits, PageTypes, InMemory
  <2>4. CASE p \in ToSet(dirtyPageList)
    <3>1. UNCHANGED <<pageList, dirtyPageList>>
      BY <2>1, <2>4 DEF SetPageEntry
    <3>2. QED  BY <2>2, <2>3, <3>1 DEF PageTypes, Lists
  <2>5. CASE p \notin ToSet(dirtyPageList)
    <3>1. pageList' = Erase(pageList, p) /\ dirtyPageList' = Append(dirtyPageList, p)
      BY <2>1, <2>5 DEF SetPageEntry
    <3>2. /\ pageList' \in Seq(Pages) /\ Distinct(pageList') /\ ToSet(pageList') = ToSet(pageList) \ {p}
      BY <3>1, EraseOne DEF PageTypes, Lists
    <3>3. /\ dirtyPageList' \in Seq(Pages) /\ Distinct(dirtyPageList')
          /\ ToSet(dirtyPageList') = ToSet(dirtyPageList) \cup {p}
      BY <2>5, <3>1, PushBack DEF PageTypes, Lists
    <3>4. PageTypes'
      BY <2>2, <2>3, <3>2, <3>3 DEF PageTypes
    <3>5. Lists'
      BY <2>1, <2>2, <2>3, <3>2, <3>3 DEF Lists
    <3>6. QED  BY <3>4, <3>5
  <2>6. QED  BY <2>4, <2>5
<1>7. CASE UploadKind
  <2> DEFINE p == Head(dirtyPageList)
  <2>1. /\ dirtyPageList # <<>> /\ UNCHANGED <<page, entry, lockedPageCount>>
        /\ \/ dirtyPageList' = Tail(dirtyPageList) /\ pageList' = <<p>> \o pageList
           \/ dirtyPageList' = Append(Tail(dirtyPageList), p) /\ UNCHANGED pageList
    BY <1>7 DEF UploadKind, UploadDirtyPage
  <2>2. /\ p \in ToSet(dirtyPageList) /\ Tail(dirtyPageList) \in Seq(Pages)
        /\ Distinct(Tail(dirtyPageList))
        /\ ToSet(Tail(dirtyPageList)) = ToSet(dirtyPageList) \ {p}
    BY <2>1, PopFront DEF PageTypes, Lists
  <2>3. p \in Pages /\ p \notin ToSet(pageList)
    BY <2>2, ListMembers DEF PageTypes, Lists
  <2> HIDE DEF p
  <2>4. CASE dirtyPageList' = Tail(dirtyPageList) /\ pageList' = <<p>> \o pageList
    <3>1. pageList' \in Seq(Pages) /\ Distinct(pageList') /\ ToSet(pageList') = {p} \cup ToSet(pageList)
      BY <2>3, <2>4, PushFront DEF PageTypes, Lists
    <3>2. PageTypes'
      BY <2>1, <2>2, <2>4, <3>1 DEF PageTypes
    <3>3. ToSet(dirtyPageList') = ToSet(dirtyPageList) \ {p} /\ Distinct(dirtyPageList')
      BY <2>2, <2>4
    <3>4. /\ ToSet(pageList') \cap ToSet(dirtyPageList') = {}
          /\ ToSet(pageList') \cup ToSet(dirtyPageList') = ToSet(pageList) \cup ToSet(dirtyPageList)
      BY ONLY <2>2, <2>3, <3>1, <3>3, Lists DEF Lists
    <3>5. InMemory' = InMemory /\ \A q \in ToSet(dirtyPageList') : page'[q].valid
      BY <2>1, <3>3 DEF Lists, InMemory
    <3>6. Lists'
      BY <3>1, <3>3, <3>4, <3>5 DEF Lists
    <3>7. QED  BY <3>2, <3>6
  <2>5. CASE dirtyPageList' = Append(Tail(dirtyPageList), p) /\ UNCHANGED pageList
    <3>1. p \notin ToSet(Tail(dirtyPageList))
      BY <2>2
    <3>2. /\ dirtyPageList' \in Seq(Pages) /\ Distinct(dirtyPageList')
          /\ ToSet(dirtyPageList') = ToSet(Tail(dirtyPageList)) \cup {p}
      <4> DEFINE tail == Tail(dirtyPageList)
      <4>1. tail \in Seq(Pages) /\ Distinct(tail) /\ p \notin ToSet(tail)
        BY <2>2, <3>1
      <4> HIDE DEF tail
      <4>2. /\ Append(tail, p) \in Seq(Pages) /\ Distinct(Append(tail, p))
            /\ ToSet(Append(tail, p)) = ToSet(tail) \cup {p}
        BY <2>3, <4>1, PushBack
      <4>3. dirtyPageList' = Append(tail, p)
        BY <2>5 DEF tail
      <4>4. QED  BY <4>2, <4>3 DEF tail
    <3>3. ToSet(dirtyPageList') = ToSet(dirtyPageList)
      <4>1. ToSet(dirtyPageList') = (ToSet(dirtyPageList) \ {p}) \cup {p}
        BY <2>2, <3>2
      <4>2. (ToSet(dirtyPageList) \ {p}) \cup {p} = ToSet(dirtyPageList)
        BY <2>2
      <4>3. QED  BY <4>1, <4>2
    <3>4. PageTypes'
      BY <2>1, <2>5, <3>2 DEF PageTypes
    <3>5. UNCHANGED <<page, pageList>> /\ InMemory' = InMemory
      BY <2>1, <2>5 DEF InMemory
    <3>6. Distinct(pageList') /\ ToSet(pageList') = ToSet(pageList)
      BY <3>5 DEF Lists
    <3>7. Lists'
      BY <3>2, <3>3, <3>5, <3>6 DEF Lists
    <3>8. QED  BY <3>4, <3>7
  <2>6. QED  BY <2>1, <2>4, <2>5
<1>8. QED  BY <1>1, <1>2, <1>3, <1>4, <1>5, <1>6, <1>7 DEF Kinds

\* A page that a step is not about keeps its lock count.
LEMMA OthersLocks ==
  ASSUME NEW p, OthersStay(p), NEW q \in Pages \ {p}
  PROVE  Locks(q)' = Locks(q)
<1>1. CASE Stays(q)
  BY <1>1 DEF Stays, Locks, InMemory
<1>2. CASE Evicted(q)
  BY <1>2 DEF Evicted, Locks, InMemory
<1>3. QED  BY <1>1, <1>2 DEF OthersStay

\* The counts are those of the holders.
LEMMA CountsStep ==
  ASSUME PageTypes, Lists, Counts, ClientTypes, Kinds
  PROVE  Counts'
<1>1. ASSUME HoldersStay, UNCHANGED lockedPageCount, \A p \in Pages : Locks(p)' = Locks(p)
      PROVE  Counts'
  <2>1. \A p \in Pages : Cardinality(Holders(p)') = Locks(p)'
    BY <1>1 DEF HoldersStay, Counts
  <2>2. Held' = Held
    BY <1>1 DEF HoldersStay, Held
  <2>3. QED  BY <1>1, <2>1, <2>2 DEF Counts
<1>2. CASE NothingKind
  <2>1. \A p \in Pages : Locks(p)' = Locks(p)
    BY <1>2 DEF NothingKind, pageVars, Locks, InMemory
  <2>2. QED  BY <1>1, <1>2, <2>1 DEF NothingKind, pageVars
<1>3. ASSUME NEW p \in Pages, NEW x, LockKind(p, x) PROVE Counts'
  <2>1. /\ LockPage(p) /\ Joins(x, p) /\ OthersStay(p) /\ page'[p] = LockedPage(p)
        /\ LockedPage(p) \in Page
    BY <1>3, LockEffect DEF LockKind
  <2>2. LockedPage(p).lockCount = Locks(p) + 1
    <3>1. CASE page[p] = NoPage
      BY <3>1 DEF LockedPage, Locks, InMemory
    <3>2. CASE page[p] # NoPage
      <4>1. page[p] \in Page
        BY <3>2 DEF PageTypes, PageMap
      <4>2. QED  BY <3>2, <4>1 DEF LockedPage, Locks, InMemory, Page
    <3>3. QED  BY <3>1, <3>2
  <2>3. Locks(p)' = Locks(p) + 1
    BY <2>1, <2>2 DEF Locks, InMemory
  <2>4. /\ Cardinality(Holders(p)) = Locks(p) /\ Locks(p) \in Nat
        /\ Locks(p) = 0 <=> Holders(p) = {}
    BY HeldCount
  <2>5. Cardinality(Holders(p)') = Locks(p) + 1
    <3>1. IsFiniteSet(Holders(p)) /\ x \notin Holders(p) /\ Holders(p)' = Holders(p) \cup {x}
      BY <2>1, HoldersFinite DEF Joins
    <3>2. Cardinality(Holders(p) \cup {x}) = Cardinality(Holders(p)) + 1
      BY <3>1, FS_AddElement
    <3>3. QED  BY <2>4, <3>1, <3>2
  <2>6. \A q \in Pages \ {p} : Holders(q)' = Holders(q) /\ Locks(q)' = Locks(q)
    BY <2>1, OthersLocks DEF Joins
  <2>7. \A q \in Pages : Cardinality(Holders(q)') = Locks(q)'
    BY <2>3, <2>5, <2>6 DEF Counts
  <2>8. Held' = Held \cup {p}
    BY <2>1, <2>6 DEF Held, Joins
  <2>9. Cardinality(Held') = IF p \in Held THEN Cardinality(Held) ELSE Cardinality(Held) + 1
    BY <2>8, HeldFinite, FS_AddElement
  <2>10. p \in Held <=> Locks(p) # 0
    BY <2>4 DEF Held
  <2>11. lockedPageCount' = IF Locks(p) = 0 THEN lockedPageCount + 1 ELSE lockedPageCount
    BY <2>1, <2>2, <2>4 DEF LockPage
  <2>12. lockedPageCount' = Cardinality(Held')
    BY <2>9, <2>10, <2>11 DEF Counts
  <2>13. QED  BY <2>7, <2>12 DEF Counts
<1>4. ASSUME NEW p \in Pages, NEW pg, NEW W, UnlockKind(pg, p, W) PROVE Counts'
  <2> DEFINE n == Cardinality(W)
  <2>1. /\ OthersStay(p) /\ n \in Nat /\ Left(p, n) \in Nat
        /\ Cardinality(Holders(p)') = Left(p, n)
        /\ Dropped(p, n) \/ LetGo(p, n) \/ Unlocked(pg, p, n)
        /\ Left(p, n) = 0 => Holders(p)' = {}
        /\ lockedPageCount' = IF Left(p, n) = 0 /\ n > 0 THEN lockedPageCount - 1 ELSE lockedPageCount
    BY <1>4, UnlockKindEffect
  <2>2. Leave(W, p) /\ IsFiniteSet(W) /\ page[p] # NoPage
    BY <1>4 DEF UnlockKind
  <2>3. n = 0 <=> W = {}
    BY <2>2, FS_EmptySet
  <2> HIDE DEF n
  <2>4. Locks(p)' = Left(p, n)
    <3>1. CASE Dropped(p, n)
      BY <3>1 DEF Dropped, Locks, InMemory
    <3>2. CASE LetGo(p, n)
      BY <3>2 DEF LetGo, Locks, InMemory
    <3>3. CASE Unlocked(pg, p, n)
      <4>1. page[p] \in Page
        BY <2>2 DEF PageTypes, PageMap
      <4>2. pg[p] \in Page
        <5>1. pg = page \/ pg = [page EXCEPT ![p].transfer = "ended"]
          BY <1>4 DEF UnlockKind
        <5>2. CASE pg = page
          BY <4>1, <5>2
        <5>3. CASE pg = [page EXCEPT ![p].transfer = "ended"]
          <6>1. pg[p] = [page[p] EXCEPT !.transfer = "ended"]
            BY <5>3 DEF PageTypes, PageMap
          <6>2. QED  BY <4>1, <6>1 DEF Page
        <5>4. QED  BY <5>1, <5>2, <5>3
      <4>3. page'[p].lockCount = Left(p, n) /\ page'[p] \in Page
        BY <2>1, <3>3, <4>2 DEF Unlocked, Page
      <4>4. QED  BY <4>3 DEF Locks, InMemory
    <3>4. QED  BY <2>1, <3>1, <3>2, <3>3
  <2>5. \A q \in Pages \ {p} : Holders(q)' = Holders(q) /\ Locks(q)' = Locks(q)
    BY <2>1, <2>2, OthersLocks DEF Leave
  <2>6. \A q \in Pages : Cardinality(Holders(q)') = Locks(q)'
    BY <2>1, <2>4, <2>5 DEF Counts
  <2>7. IsFiniteSet(Held) /\ Cardinality(Held) \in Nat /\ lockedPageCount = Cardinality(Held)
    BY HeldFinite DEF Counts
  <2>8. CASE W = {}
    <3>1. Held' = Held
      BY <2>2, <2>5, <2>8 DEF Held, Leave
    <3>2. lockedPageCount' = lockedPageCount
      BY <2>1, <2>3, <2>8
    <3>3. QED  BY <2>6, <2>7, <3>1, <3>2 DEF Counts
  <2>9. CASE W # {} /\ Left(p, n) = 0
    <3>1. Held' = Held \ {p} /\ p \in Held
      BY <2>1, <2>2, <2>5, <2>9 DEF Held, Leave
    <3>2. lockedPageCount' = lockedPageCount - 1
      BY <2>1, <2>3, <2>9
    <3>3. lockedPageCount' = Cardinality(Held')
      BY <2>7, <3>1, <3>2, FS_RemoveElement
    <3>4. QED  BY <2>6, <3>3 DEF Counts
  <2>10. CASE W # {} /\ Left(p, n) # 0
    <3>1. Holders(p)' # {} /\ Holders(p) # {}
      <4>1. Cardinality(Holders(p)') # 0
        BY <2>1, <2>10
      <4>2. QED  BY <2>2, <2>10, <4>1, FS_EmptySet DEF Leave
    <3>2. Held' = Held
      BY <2>5, <3>1 DEF Held
    <3>3. lockedPageCount' = lockedPageCount
      BY <2>1, <2>10
    <3>4. QED  BY <2>6, <2>7, <3>2, <3>3 DEF Counts
  <2>11. QED  BY <2>8, <2>9, <2>10
<1>5. ASSUME NEW p \in Pages, NEW x, InitiateKind(p, x) PROVE Counts'
  <2>1. page[p] # NoPage /\ page[p] \in Page
    <3>1. x \in Holders(p)
      BY <1>5, HoldersFinite DEF InitiateKind, Started
    <3>2. QED  BY <3>1, HeldInMemory DEF PageTypes, PageMap
  <2>2. /\ UNCHANGED lockedPageCount /\ page'[p] \in Page
        /\ page'[p].lockCount = page[p].lockCount
        /\ \A q \in Pages \ {p} : page'[q] = page[q]
    BY <1>5, <2>1 DEF InitiateKind, InitiateTransfer, PageTypes, PageMap, Page
  <2>3. \A q \in Pages : Locks(q)' = Locks(q)
    BY <2>1, <2>2 DEF Locks, InMemory
  <2>4. QED  BY <1>1, <1>5, <2>2, <2>3 DEF InitiateKind
<1>6. ASSUME NEW p \in Pages, AnswerKind(p) PROVE Counts'
  <2>1. page[p] # NoPage /\ page[p] \in Page
    BY <1>6 DEF AnswerKind, TransferAnswers, PageTypes, PageMap
  <2>2. /\ UNCHANGED lockedPageCount /\ page'[p] \in Page
        /\ page'[p].lockCount = page[p].lockCount
        /\ \A q \in Pages \ {p} : page'[q] = page[q]
    <3>1. /\ UNCHANGED lockedPageCount
          /\ \/ page' = [page EXCEPT ![p].transfer = "answered", ![p].valid = TRUE]
             \/ page' = [page EXCEPT ![p].transfer = "answered", ![p].failed = TRUE]
      BY <1>6 DEF AnswerKind, TransferAnswers
    <3>2. CASE page' = [page EXCEPT ![p].transfer = "answered", ![p].valid = TRUE]
      BY <2>1, <3>1, <3>2 DEF PageTypes, PageMap, Page
    <3>3. CASE page' = [page EXCEPT ![p].transfer = "answered", ![p].failed = TRUE]
      BY <2>1, <3>1, <3>3 DEF PageTypes, PageMap, Page
    <3>4. QED  BY <3>1, <3>2, <3>3
  <2>3. \A q \in Pages : Locks(q)' = Locks(q)
    BY <2>1, <2>2 DEF Locks, InMemory
  <2>4. QED  BY <1>1, <1>6, <2>2, <2>3 DEF AnswerKind
<1>7. ASSUME NEW c \in Chunks, EntryKind(c) PROVE Counts'
  <2>1. UNCHANGED <<page, lockedPageCount>>
    BY <1>7 DEF EntryKind, SetPageEntry
  <2>2. \A p \in Pages : Locks(p)' = Locks(p)
    BY <2>1 DEF Locks, InMemory
  <2>3. QED  BY <1>1, <1>7, <2>1, <2>2 DEF EntryKind
<1>8. CASE UploadKind
  <2>1. UNCHANGED <<page, lockedPageCount>>
    BY <1>8 DEF UploadKind, UploadDirtyPage
  <2>2. \A p \in Pages : Locks(p)' = Locks(p)
    BY <2>1 DEF Locks, InMemory
  <2>3. QED  BY <1>1, <1>8, <2>1, <2>2 DEF UploadKind
<1>9. QED  BY <1>2, <1>3, <1>4, <1>5, <1>6, <1>7, <1>8 DEF Kinds

\* The operations that start transfers.
LEMMA TransfersStep ==
  ASSUME PageTypes, Lists, Counts, ClientTypes, Transfers, Kinds
  PROVE  Transfers'
<1> DEFINE Fits(p) ==
      /\ Initiating(p) # {} => page[p] # NoPage /\ ~page[p].valid /\ page[p].transfer = "none"
      /\ \A x, y \in Initiating(p) : x = y
      /\ page[p] # NoPage =>
           /\ page[p].transfer = "running" => ~page[p].valid
           /\ page[p].transfer = "answered" => page[p].valid \/ page[p].failed
<1>1. \A p \in Pages : Fits(p)
  BY DEF Transfers, InMemory
<1>2. SUFFICES \A p \in Pages : Fits(p)'
  <2>1. ASSUME \A p \in Pages : Fits(p)' PROVE Transfers'
    BY <2>1 DEF Transfers, InMemory
  <2>2. QED  BY <2>1
<1>3. ASSUME NEW p \in Pages, Initiating(p)' = Initiating(p), page'[p] = page[p] PROVE Fits(p)'
  <2>1. Fits(p)
    BY <1>1
  <2>2. QED  BY <1>3, <2>1
<1>4. ASSUME NEW p \in Pages, page'[p] = NoPage, Initiating(p)' = {} PROVE Fits(p)'
  BY <1>4
<1>5. ASSUME NEW p, OthersStay(p), NEW q \in Pages \ {p}, Initiating(q)' = Initiating(q) PROVE Fits(q)'
  <2>1. CASE Stays(q)
    BY <1>3, <1>5, <2>1 DEF Stays
  <2>2. CASE Evicted(q)
    <3>1. Holders(q) = {}
      BY <2>2, HeldCount DEF Evicted, Locks, InMemory
    <3>2. Initiating(q) = {}
      BY <3>1, HoldersFinite
    <3>3. QED  BY <1>4, <1>5, <2>2, <3>2 DEF Evicted
  <2>3. QED  BY <1>5, <2>1, <2>2 DEF OthersStay
<1> HIDE DEF Fits
<1>6. ASSUME InitiatingStay, UNCHANGED page PROVE \A p \in Pages : Fits(p)'
  BY <1>3, <1>6 DEF InitiatingStay
<1>7. ASSUME NEW p \in Pages, NEW x, LockKind(p, x) PROVE \A q \in Pages : Fits(q)'
  <2>1. LockPage(p) /\ OthersStay(p) /\ page'[p] = LockedPage(p)
    BY <1>7, LockEffect DEF LockKind
  <2>2. \A q \in Pages \ {p} : Initiating(q)' = Initiating(q)
    BY <1>7 DEF LockKind, Starts, InitiatingStay
  <2>3. Fits(p)'
    <3>1. CASE page[p] = NoPage
      <4>1. page'[p] = [valid |-> IsEmptyPage(p), failed |-> FALSE, lockCount |-> 1, transfer |-> "none"]
        BY <2>1, <3>1 DEF LockedPage
      <4>2. Initiating(p) = {}
        BY <1>1, <3>1 DEF Fits
      <4>3. CASE IsEmptyPage(p)
        <5>1. Initiating(p)' = {}
          BY <1>7, <4>2, <4>3 DEF LockKind, InitiateTransferNeeded, InitiatingStay
        <5>2. QED  BY <4>1, <5>1 DEF Fits
      <4>4. CASE ~IsEmptyPage(p)
        <5>1. Initiating(p)' = {x}
          BY <1>7, <3>1, <4>2, <4>4 DEF LockKind, InitiateTransferNeeded, Starts
        <5>2. ~page'[p].valid /\ page'[p].transfer = "none" /\ page'[p] # NoPage
          <6>1. IsEmptyPage(p) = FALSE
            BY <4>4 DEF IsEmptyPage
          <6>2. page'[p] = [valid |-> FALSE, failed |-> FALSE, lockCount |-> 1, transfer |-> "none"]
            BY <4>1, <6>1
          <6>3. page'[p] \in Page
            BY <6>2 DEF Page
          <6>4. page'[p].valid = FALSE /\ page'[p].transfer = "none"
            BY <6>2
          <6>5. page'[p] # NoPage
            BY <6>3
          <6>6. QED  BY <6>4, <6>5
        <5>3. QED  BY <5>1, <5>2 DEF Fits
      <4>5. QED  BY <4>3, <4>4
    <3>2. CASE page[p] # NoPage
      <4>1. page[p] \in Page /\ page'[p] = [page[p] EXCEPT !.lockCount = @ + 1]
        BY <2>1, <3>2 DEF LockedPage, PageTypes, PageMap
      <4>2. Initiating(p)' = Initiating(p)
        BY <1>7, <3>2 DEF LockKind, InitiateTransferNeeded, InitiatingStay
      <4>3. /\ page'[p] # NoPage /\ page'[p].valid = page[p].valid
            /\ page'[p].failed = page[p].failed /\ page'[p].transfer = page[p].transfer
        BY <4>1 DEF Page
      <4>4. Fits(p)
        BY <1>1
      <4>5. QED  BY <3>2, <4>2, <4>3, <4>4 DEF Fits
    <3>3. QED  BY <3>1, <3>2
  <2>4. QED  BY <1>5, <2>1, <2>2, <2>3
<1>8. ASSUME NEW p \in Pages, NEW pg, NEW W, UnlockKind(pg, p, W) PROVE \A q \in Pages : Fits(q)'
  <2> DEFINE n == Cardinality(W)
  <2>1. /\ OthersStay(p)
        /\ Left(p, n) = 0 => Holders(p)' = {}
        /\ Left(p, n) \in Nat
        /\ Dropped(p, n) \/ LetGo(p, n) \/ Unlocked(pg, p, n)
    BY <1>8, UnlockKindEffect
  <2>2. InitiatingStay /\ page[p] # NoPage
    BY <1>8 DEF UnlockKind
  <2> HIDE DEF n
  <2>3. SUFFICES Fits(p)'
    <3>1. \A q \in Pages \ {p} : Initiating(q)' = Initiating(q)
      BY <2>2 DEF InitiatingStay
    <3>2. OthersStay(p)
      BY <2>1
    <3>3. \A q \in Pages \ {p} : Fits(q)'
      BY <1>5, <3>1, <3>2
    <3>4. QED  BY <3>3
  <2>4. ASSUME page'[p] = NoPage, Left(p, n) = 0 PROVE Fits(p)'
    <3>1. Holders(p)' = {}
      BY <1>8, <2>4, UnlockKindEffect DEF n
    <3>2. Initiating(p)' \subseteq Holders(p)'
      BY DEF Initiating, Holders, InitiateStates, HoldingStates, ChunksOf
    <3>3. QED  BY <1>4, <2>4, <3>1, <3>2
  <2>5. CASE Dropped(p, n)
    BY <2>4, <2>5 DEF Dropped
  <2>6. CASE LetGo(p, n)
    BY <2>4, <2>6 DEF LetGo
  <2>7. CASE Unlocked(pg, p, n)
    <3>1. page[p] \in Page /\ Fits(p) /\ Initiating(p)' = Initiating(p)
      BY <1>1, <2>2 DEF PageTypes, PageMap, InitiatingStay
    <3>2. CASE pg = page
      <4>1. page'[p] = [page[p] EXCEPT !.lockCount = Left(p, n)]
        BY <2>7, <3>2 DEF Unlocked
      <4>2. /\ page'[p] # NoPage /\ page'[p].valid = page[p].valid
            /\ page'[p].failed = page[p].failed /\ page'[p].transfer = page[p].transfer
        <5>1. page'[p] \in Page
          BY <2>1, <3>1, <4>1 DEF Page
        <5>2. QED  BY <3>1, <4>1, <5>1 DEF Page
      <4>3. QED  BY <2>2, <3>1, <4>2 DEF Fits
    <3>3. CASE pg # page
      <4>1. page[p].transfer = "answered" /\ pg = [page EXCEPT ![p].transfer = "ended"]
        BY <1>8, <3>3 DEF UnlockKind
      <4>2. pg[p] = [page[p] EXCEPT !.transfer = "ended"]
        BY <4>1 DEF PageTypes, PageMap
      <4>3. pg[p] \in Page /\ pg[p].transfer = "ended"
        BY <3>1, <4>2 DEF Page
      <4>4. page'[p] = [pg[p] EXCEPT !.lockCount = Left(p, n)]
        BY <2>7 DEF Unlocked
      <4>5. page'[p].transfer = "ended"
        BY <4>3, <4>4 DEF Page
      <4>6. Initiating(p) = {}
        BY <3>1, <4>1 DEF Fits
      <4>7. QED  BY <3>1, <4>5, <4>6 DEF Fits
    <3>4. QED  BY <3>2, <3>3
  <2>8. QED  BY <2>1, <2>5, <2>6, <2>7
<1>9. ASSUME NEW p \in Pages, NEW x, InitiateKind(p, x) PROVE \A q \in Pages : Fits(q)'
  <2>1. x \in Initiating(p) /\ Initiating(p)' = Initiating(p) \ {x}
        /\ \A q \in Pages \ {p} : Initiating(q)' = Initiating(q)
    BY <1>9 DEF InitiateKind, Started
  <2>2. Initiating(p)' = {}
    BY <1>1, <2>1 DEF Fits
  <2>3. page[p] # NoPage /\ ~page[p].valid /\ page[p] \in Page
    BY <1>1, <2>1 DEF Fits, PageTypes, PageMap
  <2>4. page' = [page EXCEPT ![p].transfer = "running"]
    BY <1>9 DEF InitiateKind, InitiateTransfer
  <2>5. /\ page'[p] = [page[p] EXCEPT !.transfer = "running"]
        /\ \A q \in Pages \ {p} : page'[q] = page[q]
    BY <2>4 DEF PageTypes, PageMap
  <2>6. page'[p].transfer = "running" /\ ~page'[p].valid
    BY <2>3, <2>5 DEF Page
  <2>7. Fits(p)'
    BY <2>2, <2>6 DEF Fits
  <2>8. QED  BY <1>3, <2>1, <2>5, <2>7
<1>10. ASSUME NEW p \in Pages, AnswerKind(p) PROVE \A q \in Pages : Fits(q)'
  <2>1. page[p] # NoPage /\ page[p].transfer = "running" /\ page[p] \in Page /\ InitiatingStay
    BY <1>10 DEF AnswerKind, TransferAnswers, PageTypes, PageMap
  <2>2. Initiating(p)' = {}
    BY <1>1, <2>1 DEF Fits, InitiatingStay
  <2>3. \/ page' = [page EXCEPT ![p].transfer = "answered", ![p].valid = TRUE]
        \/ page' = [page EXCEPT ![p].transfer = "answered", ![p].failed = TRUE]
    BY <1>10 DEF AnswerKind, TransferAnswers
  <2>4. /\ page'[p].transfer = "answered" /\ (page'[p].valid \/ page'[p].failed)
        /\ \A q \in Pages \ {p} : page'[q] = page[q]
    BY <2>1, <2>3 DEF PageTypes, PageMap, Page
  <2>5. Fits(p)'
    BY <2>2, <2>4 DEF Fits
  <2>6. QED  BY <1>3, <2>1, <2>4, <2>5 DEF InitiatingStay
<1>11. CASE NothingKind
  BY <1>6, <1>11 DEF NothingKind, pageVars
<1>12. ASSUME NEW c \in Chunks, EntryKind(c) PROVE \A q \in Pages : Fits(q)'
  BY <1>6, <1>12 DEF EntryKind, SetPageEntry
<1>13. CASE UploadKind
  BY <1>6, <1>13 DEF UploadKind, UploadDirtyPage
<1>14. QED  BY <1>7, <1>8, <1>9, <1>10, <1>11, <1>12, <1>13 DEF Kinds

-----------------------------------------------------------------------------
(* The operations on chunks, and Flush, action by action.                  *)

FlushTypes ==
  /\ isFlushInProgress \in BOOLEAN /\ directory \subseteq Pages /\ layerStatusDirty \in BOOLEAN
  /\ flush \in FlushStates /\ awaited \in Chunks \cup {NoOne}
  /\ mustSave \in [Chunks -> Versions] /\ flushes \in 0 .. MaxFlushes
CloudTypes ==
  /\ object \in [Chunks -> Versions] /\ storedEntry \in [Chunks -> Versions]
  /\ storedDirectory \subseteq Pages
WriterTypes ==
  /\ attempts \in [Chunks -> 0 .. MaxAttempts] /\ uploadErrors \in Nat
  /\ written \in [Chunks -> Versions]
ReaderTypes == ioMutex \in Chunks \cup {NoOne} /\ broken \in BOOLEAN
BoundTypes == faults \in 0 .. MaxFaults /\ hashes \in 0 .. MaxHashes
OtherTypes ==
  FlushTypes /\ CloudTypes /\ WriterTypes /\ ReaderTypes /\ BoundTypes /\ ClientTypes

\* The types are those of the pages and the others.
LEMMA SplitTypes ==
  /\ TypeOK <=> PageTypes /\ OtherTypes
  /\ TypeOK' <=> PageTypes' /\ OtherTypes'
<1>1. TypeOK <=> PageTypes /\ OtherTypes
  BY DEF TypeOK, PageTypes, PageMap, OtherTypes, FlushTypes, CloudTypes, WriterTypes, ReaderTypes,
         BoundTypes, ClientTypes
<1>2. TypeOK' <=> PageTypes' /\ OtherTypes'
  BY DEF TypeOK, PageTypes, PageMap, OtherTypes, FlushTypes, CloudTypes, WriterTypes, ReaderTypes,
         BoundTypes, ClientTypes
<1>3. QED  BY <1>1, <1>2

\* What is not about the pages, the readers or the hashes.
aside == <<flushVars, cloudVars, attempts, written, uploadErrors, faults>>

\* The types of what a step leaves alone.
LEMMA AsideTypes ==
  ASSUME OtherTypes, UNCHANGED aside
  PROVE  FlushTypes' /\ CloudTypes' /\ WriterTypes' /\ faults' \in 0 .. MaxFaults
BY DEF OtherTypes, aside, flushVars, cloudVars, FlushTypes, CloudTypes, WriterTypes, BoundTypes

\* A reader of a chunk leaves all else alone, and is the only one to download it.
ReadState == {"idle"} \cup ReadStates
ReaderStep(c) ==
  BeginPrepare(c) \/ PrepareStep(c) \/ UnlockStep(c) \/ ReadChunk(c) \/ CancelReadChunk(c)

LEMMA ReadEffect ==
  ASSUME OtherTypes, NEW c \in Chunks, ReaderStep(c)
  PROVE  /\ UNCHANGED aside /\ UNCHANGED <<orphan, hashVars>>
         /\ pc[c] \in ReadState /\ pc'[c] \in ReadState
         /\ \A d \in Chunks \ {c} : pc'[d] = pc[d]
         /\ pc'[c] \in DownloadStates => broken' \/ orphan[c] = "none"
         /\ OtherTypes'
<1> DEFINE Alone(s) == s \in DownloadStates => broken' \/ orphan[c] = "none"
<1>1. /\ UNCHANGED aside /\ UNCHANGED <<orphan, hashVars>>
      /\ \E s \in ReadState : Goto(c, s) /\ pc[c] \in ReadState /\ Alone(s)
      /\ ioMutex' \in {ioMutex, c, NoOne}
      /\ broken' \in BOOLEAN
  <2>1. broken \in BOOLEAN
    BY DEF OtherTypes, ReaderTypes
  <2>2. CASE BeginPrepare(c)
    BY <2>1, <2>2 DEF BeginPrepare, At, ReadUnchanged, aside, ReadState, ReadStates, DownloadStates
  <2>3. CASE PrepareLock(c)
    BY <2>1, <2>3 DEF PrepareLock, At, ReadUnchanged, aside, ReadState, ReadStates, DownloadStates
  <2>4. CASE PrepareInitiate(c)
    BY <2>1, <2>4 DEF PrepareInitiate, At, ReadUnchanged, aside, ReadState, ReadStates, DownloadStates
  <2>5. CASE PrepareCheckError(c)
    BY <2>1, <2>5 DEF PrepareCheckError, ReturnError, UnlockPage, At, ReadUnchanged, aside, ReadState, ReadStates,
       DownloadStates
  <2>6. CASE PrepareCheckValid(c)
    <3>1. /\ pc[c] = "checkValid" /\ ioMutex' = NoOne
          /\ UNCHANGED <<orphan, hashVars>> /\ UNCHANGED aside
          /\ \/ Goto(c, "unlockRead") /\ UNCHANGED broken
             \/ Goto(c, "waitPage") /\ broken' = (broken \/ ~(orphan[c] = "none"))
      BY <2>6 DEF PrepareCheckValid, AssertNoDownload, At, ReadUnchanged, aside
    <3>2. /\ {"checkValid", "unlockRead", "waitPage"} \subseteq ReadState
          /\ "unlockRead" \notin DownloadStates
      BY DEF ReadState, ReadStates, DownloadStates
    <3>3. CASE Goto(c, "unlockRead") /\ UNCHANGED broken
      <4>1. Goto(c, "unlockRead") /\ pc[c] \in ReadState /\ Alone("unlockRead")
        BY <3>1, <3>2, <3>3
      <4>2. QED  BY <2>1, <3>1, <3>2, <3>3, <4>1
    <3>4. CASE Goto(c, "waitPage") /\ broken' = (broken \/ ~(orphan[c] = "none"))
      <4>1. Alone("waitPage") /\ broken' \in BOOLEAN
        BY <3>4
      <4>2. Goto(c, "waitPage") /\ pc[c] \in ReadState /\ Alone("waitPage")
        BY <3>1, <3>2, <3>4, <4>1
      <4>3. QED  BY <3>1, <3>2, <4>1, <4>2
    <3>5. QED  BY <3>1, <3>3, <3>4
  <2>7. CASE PrepareUnlock(c)
    BY <2>1, <2>7 DEF PrepareUnlock, AssertNoDownload, UnlockPage, At, ReadUnchanged, aside, ReadState, ReadStates,
       DownloadStates
  <2>8. CASE CancelUnlock(c)
    BY <2>1, <2>8 DEF CancelUnlock, UnlockPage, At, ReadUnchanged, aside, ReadState, ReadStates, DownloadStates
  <2>9. CASE ReadChunk(c)
    BY <2>1, <2>9 DEF ReadChunk, At, ReadUnchanged, aside, ReadState, ReadStates, DownloadStates
  <2>10. CASE CancelReadChunk(c)
    BY <2>1, <2>10 DEF CancelReadChunk, At, ReadUnchanged, aside, ReadState, ReadStates, DownloadStates
  <2>11. QED
    BY <2>2, <2>3, <2>4, <2>5, <2>6, <2>7, <2>8, <2>9, <2>10 DEF ReaderStep, PrepareStep, UnlockStep
<1>2. pc \in [Chunks -> ReadState \cup WriteStates] /\ ioMutex \in Chunks \cup {NoOne}
  BY DEF OtherTypes, ClientTypes, ReaderTypes, ReadState
<1>3. PICK s \in ReadState : Goto(c, s) /\ pc[c] \in ReadState /\ Alone(s)
  BY <1>1
<1>4. pc' = [pc EXCEPT ![c] = s]
  BY <1>3 DEF Goto
<1>5. /\ pc'[c] = s /\ \A d \in Chunks \ {c} : pc'[d] = pc[d]
      /\ pc' \in [Chunks -> ReadState \cup WriteStates]
  BY <1>2, <1>4
<1>6. pc'[c] \in DownloadStates => broken' \/ orphan[c] = "none"
  BY <1>3, <1>5 DEF Alone
<1>7. FlushTypes' /\ CloudTypes' /\ WriterTypes' /\ faults' \in 0 .. MaxFaults
  BY <1>1, AsideTypes
<1>8. ClientTypes' /\ BoundTypes' /\ ReaderTypes'
  BY <1>1, <1>2, <1>5, <1>7
  DEF ClientTypes, BoundTypes, ReaderTypes, OtherTypes, ReadState, hashVars
<1>9. OtherTypes'
  BY <1>7, <1>8 DEF OtherTypes
<1>10. QED  BY <1>1, <1>3, <1>5, <1>6, <1>9

\* A step that is neither a write's nor Flush's: readers go on, or make way for
\* a writer, and none begins a download beside one that was left behind.
Looks(c) ==
  /\ \/ pc'[c] = pc[c]
     \/ pc[c] \in ReadState /\ pc'[c] \in ReadState
     \/ pc[c] \in ReadState /\ pc'[c] = "lockForWrite" /\ written[c] < Initial(c) + MaxWrites
  /\ pc'[c] \in DownloadStates =>
       broken' \/ orphan'[c] = "none" \/ (pc[c] \in DownloadStates /\ orphan[c] # "none")
ReadOutcome ==
  /\ UNCHANGED <<flushVars, cloudVars, attempts, written, uploadErrors>>
  /\ \A c \in Chunks : Looks(c)

LEMMA ReadOutcomes ==
  ASSUME TypeOK,
         \/ \E c \in Chunks : ReaderStep(c) \/ LeaveRead(c)
         \/ \E p \in Pages : TransferAnswers(p) \/ PageTransferCompleted(p)
         \/ \E h \in Hashers : HashStep(h) \/ \E c \in ReadChunks : HashLock(h, c)
  PROVE  ReadOutcome /\ OtherTypes'
<1>1. /\ OtherTypes /\ FlushTypes /\ CloudTypes /\ WriterTypes /\ ReaderTypes
      /\ BoundTypes /\ ClientTypes
  BY SplitTypes DEF OtherTypes
<1>2. ASSUME NEW c \in Chunks, ReaderStep(c) PROVE ReadOutcome /\ OtherTypes'
  <2>1. /\ UNCHANGED aside /\ UNCHANGED <<orphan, hashVars>> /\ OtherTypes'
        /\ pc[c] \in ReadState /\ pc'[c] \in ReadState
        /\ \A d \in Chunks \ {c} : pc'[d] = pc[d]
        /\ pc'[c] \in DownloadStates => broken' \/ orphan[c] = "none"
    BY <1>1, <1>2, ReadEffect
  <2>2. Looks(c)
    BY <2>1 DEF Looks
  <2>3. \A d \in Chunks \ {c} : Looks(d)
    BY <2>1 DEF Looks
  <2>4. QED  BY <2>1, <2>2, <2>3 DEF ReadOutcome, aside
<1>3. ASSUME NEW p \in Pages, TransferAnswers(p) PROVE ReadOutcome /\ OtherTypes'
  <2>1. UNCHANGED <<flushVars, cloudVars, clientVars, hashVars, ioMutex, broken>>
    BY <1>3 DEF TransferAnswers
  <2>2. faults' \in 0 .. MaxFaults
    BY <1>1, <1>3 DEF TransferAnswers, Fault, BoundTypes
  <2>3. OtherTypes'
    BY <1>1, <2>1, <2>2 DEF flushVars, cloudVars, clientVars, hashVars, OtherTypes, FlushTypes, CloudTypes,
       WriterTypes, ReaderTypes, BoundTypes, ClientTypes
  <2>4. QED  BY <2>1, <2>3 DEF ReadOutcome, Looks, clientVars
<1>4. ASSUME NEW p \in Pages, PageTransferCompleted(p) PROVE ReadOutcome /\ OtherTypes'
  <2>1. /\ UNCHANGED <<flushVars, cloudVars, attempts, written, uploadErrors, hashVars, ioMutex,
                       broken, faults>>
        /\ pc' = [c \in Chunks |-> IF c \notin WaitingFor(p) THEN pc[c]
                                  ELSE IF page[p].failed THEN "pageError" ELSE "download"]
        /\ orphan' = [c \in Chunks |-> IF OrphanOf(c) \in WaitingFor(p) THEN "ended" ELSE orphan[c]]
    BY <1>4 DEF PageTransferCompleted
  <2>2. \A c \in Chunks : c \in WaitingFor(p) => pc[c] = "waitPage"
    BY LeftBehindAre DEF WaitingFor, ChunksOf
  <2>3. \A c \in Chunks : OrphanOf(c) \in WaitingFor(p) => orphan[c] = "waiting"
    <3>1. \A c \in Chunks : OrphanOf(c) \notin ChunksOf(p)
      BY DEF ChunksOf
    <3>2. QED  BY <3>1, LeftBehindAre DEF WaitingFor
  <2>4. \A c \in Chunks : Looks(c)
    <3>1. SUFFICES ASSUME NEW c \in Chunks PROVE Looks(c)
      OBVIOUS
    <3>2. \/ pc'[c] = pc[c]
          \/ pc[c] = "waitPage" /\ pc'[c] \in {"pageError", "download"}
      BY <2>1, <2>2
    <3>3. pc'[c] \in DownloadStates => pc[c] \in DownloadStates
      BY <3>2 DEF DownloadStates
    <3>4. orphan[c] = "none" => orphan'[c] = "none"
      BY <2>1, <2>3
    <3>5. QED  BY <3>2, <3>3, <3>4 DEF Looks, ReadState, ReadStates
  <2>5. ClientTypes' /\ ReaderTypes'
    BY <1>1, <2>1 DEF ClientTypes, ReaderTypes, hashVars, ReadStates
  <2>6. OtherTypes'
    BY <1>1, <2>1, <2>5 DEF flushVars, cloudVars, hashVars, OtherTypes, FlushTypes, CloudTypes,
       WriterTypes, BoundTypes
  <2>7. QED  BY <2>1, <2>4, <2>6 DEF ReadOutcome
<1>5. ASSUME NEW h \in Hashers, HashStep(h) \/ \E c \in ReadChunks : HashLock(h, c)
      PROVE  ReadOutcome /\ OtherTypes'
  <2>1. /\ HashUnchanged /\ broken' \in BOOLEAN /\ hashes' \in 0 .. MaxHashes
        /\ \E r \in [at : Chunks, state : HashStates] : hashing' = [hashing EXCEPT ![h] = r]
    <3>1. hashing[h] \in [at : Chunks, state : HashStates] /\ NoChunk \in Chunks
          /\ broken \in BOOLEAN /\ hashes \in 0 .. MaxHashes
      BY <1>1 DEF NoChunk, ClientTypes, ReaderTypes, BoundTypes
    <3>2. ASSUME NEW c \in ReadChunks, HashLock(h, c)
          PROVE  /\ HashUnchanged /\ broken' \in BOOLEAN /\ hashes' \in 0 .. MaxHashes
                 /\ \E r \in [at : Chunks, state : HashStates] : hashing' = [hashing EXCEPT ![h] = r]
      <4> DEFINE r == [at |-> c, state |->
                         IF InitiateTransferNeeded(PageOf[c]) THEN "initiate" ELSE "complete"]
      <4>1. /\ HashUnchanged /\ UNCHANGED broken /\ hashes < MaxHashes /\ hashes' = hashes + 1
            /\ hashing' = [hashing EXCEPT ![h] = r]
        BY <3>2 DEF HashLock
      <4>2. r \in [at : Chunks, state : HashStates]
        BY DEF HashStates
      <4> HIDE DEF r
      <4>3. hashes' \in 0 .. MaxHashes /\ broken' \in BOOLEAN
        BY <3>1, <4>1
      <4>4. QED  BY <4>1, <4>2, <4>3
    <3>3. CASE HashInitiate(h)
      <4> DEFINE r == [hashing[h] EXCEPT !.state = "complete"]
      <4>1. /\ HashUnchanged /\ UNCHANGED <<hashes, broken>>
            /\ hashing' = [hashing EXCEPT ![h] = r]
        BY <3>3 DEF HashInitiate
      <4>2. r \in [at : Chunks, state : HashStates]
        BY <3>1 DEF HashStates
      <4>3. QED  BY <3>1, <4>1, <4>2
    <3>4. CASE HashReturn(h)
      <4> DEFINE r == [at |-> NoChunk, state |-> "idle"]
      <4>1. /\ HashUnchanged /\ UNCHANGED hashes /\ broken' \in BOOLEAN
            /\ hashing' = [hashing EXCEPT ![h] = r]
        BY <3>1, <3>4 DEF HashReturn, UnlockPage
      <4>2. r \in [at : Chunks, state : HashStates]
        BY <3>1 DEF HashStates
      <4>3. QED  BY <3>1, <4>1, <4>2
    <3>5. QED  BY <1>5, <3>2, <3>3, <3>4 DEF HashStep
  <2>2. ClientTypes' /\ BoundTypes' /\ ReaderTypes'
    BY <1>1, <2>1 DEF HashUnchanged, clientVars, ClientTypes, BoundTypes, ReaderTypes
  <2>3. OtherTypes'
    BY <1>1, <2>1, <2>2 DEF HashUnchanged, flushVars, cloudVars, clientVars, OtherTypes, FlushTypes,
       CloudTypes, WriterTypes
  <2>4. QED  BY <2>1, <2>3 DEF ReadOutcome, Looks, HashUnchanged, clientVars
<1>6. ASSUME NEW c \in Chunks, LeaveRead(c) PROVE ReadOutcome /\ OtherTypes'
  <2>1. /\ UNCHANGED aside /\ UNCHANGED <<hashVars, ioMutex, broken>>
        /\ pc[c] \in {"waitPage", "download", "pageError"} /\ written[c] < Initial(c) + MaxWrites
        /\ pc' = [pc EXCEPT ![c] = "lockForWrite"]
        /\ orphan' = [orphan EXCEPT ![c] = IF At(c, "waitPage") THEN "waiting" ELSE "ended"]
    BY <1>6 DEF LeaveRead, MayWrite, Goto, ReadUnchanged, aside
  <2>2. /\ pc'[c] = "lockForWrite"
        /\ \A d \in Chunks \ {c} : pc'[d] = pc[d] /\ orphan'[d] = orphan[d]
    BY <1>1, <2>1 DEF ClientTypes
  <2>3. Looks(c)
    BY <2>1, <2>2 DEF Looks, ReadState, ReadStates, DownloadStates
  <2>4. \A d \in Chunks \ {c} : Looks(d)
    BY <2>2 DEF Looks
  <2>5. ClientTypes' /\ ReaderTypes'
    BY <1>1, <2>1 DEF ClientTypes, ReaderTypes, WriteStates, hashVars
  <2>6. FlushTypes' /\ CloudTypes' /\ WriterTypes' /\ BoundTypes'
    BY <1>1, <2>1, AsideTypes DEF BoundTypes, hashVars
  <2>7. QED  BY <2>1, <2>3, <2>4, <2>5, <2>6 DEF ReadOutcome, OtherTypes, aside
<1>7. QED  BY <1>2, <1>3, <1>4, <1>5, <1>6

\* What a step of a write does: it goes on; its object arrives; its entry is set,
\* or found to have no page; it has been written; or it is given up.
GoesOn(c) ==
  /\ pc[c] \in {"idle", "lockForWrite", "initiateWrite", "startUpload", "upload", "uploadFailed"}
  /\ pc'[c] \in {"initiateWrite", "startUpload", "upload", "uploadFailed"}
  /\ pc[c] = "idle" => written[c] < Initial(c) + MaxWrites
  /\ pc[c] \in UploadStates => pc'[c] \in UploadStates
  /\ UNCHANGED <<written, object, uploadErrors>>
Arrives(c) ==
  /\ pc[c] = "upload" /\ pc'[c] = "uploaded" /\ object'[c] = written[c] + 1
  /\ UNCHANGED <<written, uploadErrors>>
SetsEntry(c) ==
  /\ pc[c] = "uploaded" /\ pc'[c] = "entrySet" /\ SetPageEntry(c, written[c] + 1)
  /\ ValidPage(PageOf[c])
  /\ UNCHANGED <<written, object, uploadErrors>>
HasNoPage(c) ==
  /\ pc[c] = "uploaded" /\ pc'[c] = "uploaded"
  /\ UNCHANGED <<pageVars, written, object, uploadErrors>>
Finishes(c) ==
  /\ pc[c] = "entrySet" /\ pc'[c] = "idle" /\ written'[c] = written[c] + 1
  /\ UNCHANGED <<object, uploadErrors>>
GivesUp(c) ==
  /\ pc[c] = "uploadFailed" /\ pc'[c] = "idle" /\ uploadErrors' = uploadErrors + 1
  /\ UNCHANGED <<written, object>>
FlushLearns(c) ==
  \/ UNCHANGED <<flush, awaited>>
  \/ awaited = c /\ awaited' = NoOne /\ flush' = IF Finishes(c) THEN "drain" ELSE "idle"
WriteOutcome(c) ==
  /\ GoesOn(c) \/ Arrives(c) \/ SetsEntry(c) \/ HasNoPage(c) \/ Finishes(c) \/ GivesUp(c)
  /\ SetsEntry(c) \/ pc'[c] # "entrySet"
  /\ \A d \in Chunks \ {c} : pc'[d] = pc[d] /\ written'[d] = written[d] /\ object'[d] = object[d]
  /\ FlushLearns(c)
  /\ UNCHANGED <<isFlushInProgress, directory, layerStatusDirty, mustSave, flushes, storedEntry,
                 storedDirectory, orphan>>

WriterStep(c) == WriteLock(c) \/ WriteStep(c) \/ MutexStep(c)

LEMMA WriteTypes ==
  ASSUME OtherTypes, NEW c \in Chunks, WriteUnchanged,
         NEW s \in WriteStates \cup {"idle"}, pc' = [pc EXCEPT ![c] = s] \/ UNCHANGED pc,
         attempts' \in [Chunks -> 0 .. MaxAttempts], uploadErrors' \in Nat,
         written' \in [Chunks -> Versions], object' \in [Chunks -> Versions],
         broken' \in BOOLEAN, faults' \in 0 .. MaxFaults,
         flush' \in FlushStates, awaited' \in Chunks \cup {NoOne}
  PROVE  OtherTypes'
<1>1. /\ OtherTypes /\ FlushTypes /\ CloudTypes /\ WriterTypes /\ ReaderTypes
      /\ BoundTypes /\ ClientTypes
  BY DEF OtherTypes
<1>2. ClientTypes'
  BY <1>1 DEF ClientTypes, WriteUnchanged, hashVars
<1>3. FlushTypes' /\ CloudTypes'
  BY <1>1 DEF FlushTypes, CloudTypes, WriteUnchanged
<1>4. WriterTypes' /\ ReaderTypes' /\ BoundTypes'
  BY <1>1 DEF WriterTypes, ReaderTypes, BoundTypes, WriteUnchanged, hashVars
<1>5. QED  BY <1>2, <1>3, <1>4 DEF OtherTypes

LEMMA WriteOutcomes ==
  ASSUME TypeOK, Counts, Writing, NEW c \in Chunks, WriterStep(c)
  PROVE  WriteOutcome(c) /\ OtherTypes'
<1>1. /\ OtherTypes /\ FlushTypes /\ CloudTypes /\ WriterTypes /\ ReaderTypes
      /\ BoundTypes /\ ClientTypes
  BY SplitTypes DEF OtherTypes
<1>2. /\ attempts \in [Chunks -> 0 .. MaxAttempts] /\ uploadErrors \in Nat
      /\ written \in [Chunks -> Versions] /\ object \in [Chunks -> Versions]
      /\ broken \in BOOLEAN /\ faults \in 0 .. MaxFaults
      /\ flush \in FlushStates /\ awaited \in Chunks \cup {NoOne}
  BY <1>1 DEF FlushTypes, CloudTypes, WriterTypes, ReaderTypes, BoundTypes
<1>3. pc[c] \in WriteStates => written[c] + 1 \in Versions
  BY <1>2 DEF Writing, Versions, Initial
<1>4. ASSUME NEW s, pc' = [pc EXCEPT ![c] = s]
      PROVE  pc'[c] = s /\ \A d \in Chunks \ {c} : pc'[d] = pc[d]
  BY <1>1, <1>4 DEF ClientTypes
<1>5. /\ \A s \in {"initiateWrite", "startUpload", "upload", "uploadFailed", "uploaded", "entrySet"} :
           s \in WriteStates
      /\ "idle" \in FlushStates /\ "drain" \in FlushStates
  BY DEF WriteStates, FlushStates
<1>6. CASE WriteLock(c)
  <2>1. PICK s \in {"initiateWrite", "startUpload"} : pc' = [pc EXCEPT ![c] = s]
    BY <1>6 DEF WriteLock, Goto
  <2>2. /\ pc[c] \in {"idle", "lockForWrite"} /\ written[c] < Initial(c) + MaxWrites
        /\ WriteUnchanged /\ FlushUnchanged
        /\ UNCHANGED <<attempts, written, uploadErrors, object, broken, faults>>
    BY <1>6 DEF WriteLock, MayWrite
  <2>3. OtherTypes'
    BY <1>1, <1>2, <1>5, <2>1, <2>2, WriteTypes DEF FlushUnchanged
  <2>4. GoesOn(c)
    BY <1>4, <2>1, <2>2 DEF GoesOn, UploadStates
  <2>5. pc'[c] # "entrySet" /\ \A d \in Chunks \ {c} : pc'[d] = pc[d]
    BY <1>4, <2>1
  <2>6. QED  BY <2>2, <2>3, <2>4, <2>5 DEF WriteOutcome, FlushLearns, WriteUnchanged, FlushUnchanged
<1>7. CASE WriteInitiate(c)
  <2>1. /\ pc[c] = "initiateWrite" /\ pc' = [pc EXCEPT ![c] = "startUpload"]
        /\ WriteUnchanged /\ FlushUnchanged
        /\ UNCHANGED <<attempts, written, uploadErrors, object, broken, faults>>
    BY <1>7 DEF WriteInitiate, At, Goto
  <2>2. OtherTypes'
    BY <1>1, <1>2, <1>5, <2>1, WriteTypes DEF FlushUnchanged
  <2>3. GoesOn(c) /\ pc'[c] # "entrySet" /\ \A d \in Chunks \ {c} : pc'[d] = pc[d]
    BY <1>4, <2>1 DEF GoesOn, UploadStates
  <2>4. QED  BY <2>1, <2>2, <2>3 DEF WriteOutcome, FlushLearns, WriteUnchanged, FlushUnchanged
<1>8. CASE StartNewUpload(c)
  <2>1. /\ pc[c] = "startUpload" /\ pc' = [pc EXCEPT ![c] = "upload"]
        /\ attempts' = [attempts EXCEPT ![c] = 1] /\ WriteUnchanged /\ FlushUnchanged
        /\ UNCHANGED <<written, uploadErrors, object, broken, faults>>
    BY <1>8 DEF StartNewUpload, At, Goto
  <2>2. attempts' \in [Chunks -> 0 .. MaxAttempts]
    BY <1>2, <2>1 DEF MaxAttempts
  <2>3. OtherTypes'
    BY <1>1, <1>2, <1>5, <2>1, <2>2, WriteTypes DEF FlushUnchanged
  <2>4. GoesOn(c) /\ pc'[c] # "entrySet" /\ \A d \in Chunks \ {c} : pc'[d] = pc[d]
    BY <1>4, <2>1 DEF GoesOn, UploadStates
  <2>5. QED  BY <2>1, <2>3, <2>4 DEF WriteOutcome, FlushLearns, WriteUnchanged, FlushUnchanged
<1>9. CASE UploadEnds(c)
  <2>1. /\ pc[c] = "upload" /\ WriteUnchanged /\ FlushUnchanged
        /\ UNCHANGED <<attempts, written, uploadErrors, broken>>
    BY <1>9 DEF UploadEnds, At
  <2>2. CASE /\ pc' = [pc EXCEPT ![c] = "uploaded"] /\ object' = [object EXCEPT ![c] = written[c] + 1]
             /\ UNCHANGED faults
    <3>1. /\ object' \in [Chunks -> Versions] /\ object'[c] = written[c] + 1
          /\ \A d \in Chunks \ {c} : object'[d] = object[d]
      <4>1. written[c] + 1 \in Versions
        BY <1>3, <1>5, <2>1
      <4>2. QED  BY <1>2, <2>2, <4>1
    <3>2. OtherTypes'
      BY <1>1, <1>2, <1>5, <2>1, <2>2, <3>1, WriteTypes DEF FlushUnchanged
    <3>3. Arrives(c) /\ pc'[c] # "entrySet" /\ \A d \in Chunks \ {c} : pc'[d] = pc[d]
      <4>1. pc'[c] = "uploaded" /\ \A d \in Chunks \ {c} : pc'[d] = pc[d]
        BY <1>4, <2>2
      <4>2. pc[c] = "upload" /\ object'[c] = written[c] + 1 /\ UNCHANGED <<written, uploadErrors>>
        BY <2>1, <3>1
      <4>3. QED  BY <4>1, <4>2 DEF Arrives
    <3>4. QED  BY <2>1, <3>1, <3>2, <3>3 DEF WriteOutcome, FlushLearns, WriteUnchanged, FlushUnchanged
  <2>3. CASE Fault /\ pc' = [pc EXCEPT ![c] = "uploadFailed"] /\ UNCHANGED object
    <3>1. faults' \in 0 .. MaxFaults
      BY <1>2, <2>3 DEF Fault
    <3>2. OtherTypes'
      BY <1>1, <1>2, <1>5, <2>1, <2>3, <3>1, WriteTypes DEF FlushUnchanged
    <3>3. GoesOn(c) /\ pc'[c] # "entrySet" /\ \A d \in Chunks \ {c} : pc'[d] = pc[d]
      BY <1>4, <2>1, <2>3 DEF GoesOn, UploadStates
    <3>4. QED  BY <2>1, <2>3, <3>2, <3>3 DEF WriteOutcome, FlushLearns, WriteUnchanged, FlushUnchanged
  <2>4. QED  BY <1>9, <2>2, <2>3 DEF UploadEnds, Goto
<1>10. CASE RetryUpload(c)
  <2>1. /\ pc[c] = "uploadFailed" /\ pc' = [pc EXCEPT ![c] = "upload"] /\ MayRetry(c)
        /\ attempts' = [attempts EXCEPT ![c] = @ + 1] /\ WriteUnchanged /\ AttemptFailed(c)
        /\ UNCHANGED <<written, uploadErrors, object, broken, faults>>
    BY <1>10 DEF RetryUpload, At, Goto
  <2>2. attempts' \in [Chunks -> 0 .. MaxAttempts]
    BY <1>2, <2>1 DEF MayRetry, MaxAttempts
  <2>3. GoesOn(c) /\ pc'[c] = "upload" /\ \A d \in Chunks \ {c} : pc'[d] = pc[d]
    BY <1>4, <2>1 DEF GoesOn, UploadStates
  <2>4. FlushLearns(c) /\ flush' \in FlushStates /\ awaited' \in Chunks \cup {NoOne}
    BY <1>2, <1>5, <2>1, <2>3 DEF FlushLearns, AttemptFailed, Finishes
  <2>5. OtherTypes'
    BY <1>1, <1>2, <1>5, <2>1, <2>2, <2>4, WriteTypes
  <2>6. QED  BY <2>1, <2>3, <2>4, <2>5 DEF WriteOutcome, WriteUnchanged
<1>11. CASE GiveUpUpload(c)
  <2>1. /\ pc[c] = "uploadFailed" /\ pc' = [pc EXCEPT ![c] = "idle"]
        /\ uploadErrors' = uploadErrors + 1 /\ broken' \in BOOLEAN
        /\ attempts' = [attempts EXCEPT ![c] = 0] /\ WriteUnchanged /\ AttemptFailed(c)
        /\ UNCHANGED <<written, object, faults>>
    BY <1>2, <1>11 DEF GiveUpUpload, At, Goto, UnlockPage
  <2>2. attempts' \in [Chunks -> 0 .. MaxAttempts] /\ uploadErrors' \in Nat
    BY <1>2, <2>1 DEF MaxAttempts
  <2>3. GivesUp(c) /\ pc'[c] = "idle" /\ \A d \in Chunks \ {c} : pc'[d] = pc[d]
    BY <1>4, <2>1 DEF GivesUp
  <2>4. FlushLearns(c) /\ flush' \in FlushStates /\ awaited' \in Chunks \cup {NoOne}
    BY <1>2, <1>5, <2>1, <2>3 DEF FlushLearns, AttemptFailed, Finishes
  <2>5. OtherTypes'
    BY <1>1, <1>2, <1>5, <2>1, <2>2, <2>4, WriteTypes
  <2>6. QED  BY <2>1, <2>3, <2>4, <2>5 DEF WriteOutcome, WriteUnchanged
<1>12. CASE SetChunkEntry(c)
  <2>1. /\ pc[c] = "uploaded" /\ WriteUnchanged /\ FlushUnchanged
        /\ UNCHANGED <<attempts, written, uploadErrors, object, faults>>
    BY <1>12 DEF SetChunkEntry, At
  <2>2. CASE page[PageOf[c]].valid
    <3>1. /\ SetPageEntry(c, written[c] + 1) /\ pc' = [pc EXCEPT ![c] = "entrySet"]
          /\ UNCHANGED broken
      BY <1>12, <2>2 DEF SetChunkEntry, Goto
    <3>2. OtherTypes'
      BY <1>1, <1>2, <1>5, <2>1, <3>1, WriteTypes DEF FlushUnchanged
    <3>3. ValidPage(PageOf[c])
      <4>1. c \in Holders(PageOf[c]) /\ PageOf[c] \in Pages
        BY <2>1 DEF Holders, ChunksOf, HoldingStates, UploadStates
      <4>2. QED  BY <2>2, <4>1, HeldInMemory DEF ValidPage
    <3>4. SetsEntry(c) /\ \A d \in Chunks \ {c} : pc'[d] = pc[d]
      BY <1>4, <2>1, <3>1, <3>3 DEF SetsEntry
    <3>5. QED  BY <2>1, <3>2, <3>4 DEF WriteOutcome, FlushLearns, WriteUnchanged, FlushUnchanged
  <2>3. CASE ~page[PageOf[c]].valid
    <3>1. broken' = TRUE /\ UNCHANGED <<pageVars, pc>>
      BY <1>12, <2>3 DEF SetChunkEntry
    <3>2. OtherTypes'
      BY <1>1, <1>2, <1>5, <2>1, <3>1, WriteTypes DEF FlushUnchanged
    <3>3. HasNoPage(c) /\ pc'[c] = "uploaded"
      BY <2>1, <3>1 DEF HasNoPage
    <3>4. QED  BY <2>1, <3>1, <3>2, <3>3 DEF WriteOutcome, FlushLearns, WriteUnchanged, FlushUnchanged
  <2>4. QED  BY <2>2, <2>3
<1>13. CASE FinishUpload(c)
  <2>1. /\ pc[c] = "entrySet" /\ pc' = [pc EXCEPT ![c] = "idle"] /\ broken' \in BOOLEAN
        /\ attempts' = [attempts EXCEPT ![c] = 0] /\ written' = [written EXCEPT ![c] = @ + 1]
        /\ WriteUnchanged /\ UNCHANGED <<uploadErrors, object, faults>>
        /\ flush' = IF awaited = c THEN "drain" ELSE flush
        /\ awaited' = IF awaited = c THEN NoOne ELSE awaited
    BY <1>2, <1>13 DEF FinishUpload, At, Goto, UnlockPage
  <2>2. attempts' \in [Chunks -> 0 .. MaxAttempts]
    BY <1>2, <2>1 DEF MaxAttempts
  <2>3. /\ written' \in [Chunks -> Versions] /\ written'[c] = written[c] + 1
        /\ \A d \in Chunks \ {c} : written'[d] = written[d]
    BY <1>2, <1>3, <1>5, <2>1
  <2>4. Finishes(c) /\ pc'[c] = "idle" /\ \A d \in Chunks \ {c} : pc'[d] = pc[d]
    BY <1>4, <2>1, <2>3 DEF Finishes
  <2>5. FlushLearns(c) /\ flush' \in FlushStates /\ awaited' \in Chunks \cup {NoOne}
    BY <1>2, <1>5, <2>1, <2>4 DEF FlushLearns
  <2>6. OtherTypes'
    BY <1>1, <1>2, <2>1, <2>2, <2>3, <2>5, WriteTypes
  <2>7. QED  BY <2>1, <2>3, <2>4, <2>5, <2>6 DEF WriteOutcome, WriteUnchanged
<1>14. QED
  BY <1>6, <1>7, <1>8, <1>9, <1>10, <1>11, <1>12, <1>13
  DEF WriterStep, WriteStep, MutexStep

\* A step of Flush keeps the types.
LEMMA FlushTypesStep ==
  ASSUME TypeOK, Writing, FlushStart \/ FlushDrain \/ FlushStep
  PROVE  OtherTypes'
<1>1. /\ OtherTypes /\ FlushTypes /\ CloudTypes /\ WriterTypes /\ ReaderTypes
      /\ BoundTypes /\ ClientTypes /\ PageTypes
  BY SplitTypes DEF OtherTypes
<1>2. ASSUME FlushTypes', CloudTypes', WriterTypes', BoundTypes', UNCHANGED <<pc, orphan, hashing, ioMutex, broken>>
      PROVE  OtherTypes'
  BY <1>1, <1>2 DEF OtherTypes, ReaderTypes, ClientTypes
<1>3. \A s \in {"idle", "waitWrites", "drain", "await", "uploadPages", "waitUnlocked", "dirtyPages", "status", "done"} :
        s \in FlushStates
  BY DEF FlushStates
<1>4. CASE FlushStart
  <2>1. mustSave' \in [Chunks -> Versions]
    <3>1. \A c \in Chunks : c \in Uploading => written[c] + 1 \in Versions
      BY <1>1 DEF Writing, WriterTypes, Versions, Initial, Uploading, UploadStates, WriteStates
    <3>2. \A c \in Chunks : written[c] \in Versions
      BY <1>1 DEF WriterTypes
    <3>3. mustSave' = [c \in Chunks |-> IF c \in Uploading THEN written[c] + 1 ELSE written[c]]
      BY <1>4 DEF FlushStart
    <3>4. QED  BY <3>1, <3>2, <3>3
  <2>2. FlushTypes'
    BY <1>1, <1>3, <1>4, <2>1 DEF FlushStart, FlushGoto, FlushTypes
  <2>3. CloudTypes' /\ WriterTypes' /\ BoundTypes' /\ UNCHANGED <<pc, orphan, hashing, ioMutex, broken>>
    BY <1>1, <1>4 DEF FlushStart, FlushElse, clientVars, hashVars, CloudTypes, WriterTypes, BoundTypes
  <2>4. QED  BY <1>2, <2>2, <2>3
<1>5. CASE FlushWaited
  <2>1. FlushTypes'
    BY <1>1, <1>3, <1>5 DEF FlushWaited, FlushGoto, FlushTypes
  <2>2. uploadErrors' \in Nat
    BY <1>1, <1>5 DEF FlushWaited, ErrorPending, WriterTypes
  <2>3. CloudTypes' /\ WriterTypes' /\ BoundTypes' /\ UNCHANGED <<pc, orphan, hashing, ioMutex, broken>>
    BY <1>1, <1>5, <2>2 DEF FlushWaited, cloudVars, hashVars, CloudTypes, WriterTypes, BoundTypes
  <2>4. QED  BY <1>2, <2>1, <2>3
<1>6. CASE FlushDrain
  <2>1. FlushTypes'
    BY <1>1, <1>3, <1>6 DEF FlushDrain, FlushGoto, FlushTypes, Uploading
  <2>2. CloudTypes' /\ WriterTypes' /\ BoundTypes' /\ UNCHANGED <<pc, orphan, hashing, ioMutex, broken>>
    BY <1>1, <1>6 DEF FlushDrain, FlushElse, clientVars, hashVars, CloudTypes, WriterTypes, BoundTypes
  <2>3. QED  BY <1>2, <2>1, <2>2
<1>7. CASE FlushPages
  BY <1>1, <1>2, <1>3, <1>7 DEF FlushPages, FlushGoto, FlushElse, clientVars, hashVars,
     FlushTypes, CloudTypes, WriterTypes, BoundTypes
<1>8. CASE FlushUnlocked
  BY <1>1, <1>2, <1>3, <1>8 DEF FlushUnlocked, FlushGoto, FlushElse, clientVars, hashVars,
     FlushTypes, CloudTypes, WriterTypes, BoundTypes
<1>9. CASE UploadDirtyPage
  <2> DEFINE p == Head(dirtyPageList)
  <2>1. p \in Pages
    BY <1>1, <1>9 DEF UploadDirtyPage, PageTypes
  <2>2. FlushTypes'
    BY <1>1, <1>3, <1>9, <2>1 DEF UploadDirtyPage, FlushGoto, FlushTypes
  <2>3. storedEntry' \in [Chunks -> Versions]
    BY <1>1, <1>9 DEF UploadDirtyPage, CloudTypes, PageTypes
  <2>4. faults' \in 0 .. MaxFaults
    BY <1>1, <1>9 DEF UploadDirtyPage, Fault, BoundTypes
  <2>5. CloudTypes' /\ WriterTypes' /\ BoundTypes' /\ UNCHANGED <<pc, orphan, hashing, ioMutex, broken>>
    BY <1>1, <1>9, <2>3, <2>4 DEF UploadDirtyPage, FlushElse, clientVars, hashVars, CloudTypes,
       WriterTypes, BoundTypes
  <2>6. QED  BY <1>2, <2>2, <2>5
<1>10. CASE DirtyPagesUploaded
  <2>1. flush' \in FlushStates
    BY <1>3, <1>10 DEF DirtyPagesUploaded, FlushGoto
  <2>2. QED
    BY <1>1, <1>2, <1>10, <2>1 DEF DirtyPagesUploaded, FlushElse, clientVars, hashVars,
       FlushTypes, CloudTypes, WriterTypes, BoundTypes
<1>11. CASE UploadLayerStatus
  <2>1. FlushTypes'
    BY <1>1, <1>3, <1>11 DEF UploadLayerStatus, FlushGoto, FlushTypes
  <2>2. faults' \in 0 .. MaxFaults /\ storedDirectory' \subseteq Pages
    BY <1>1, <1>11 DEF UploadLayerStatus, Fault, BoundTypes, FlushTypes, CloudTypes
  <2>3. CloudTypes' /\ WriterTypes' /\ BoundTypes' /\ UNCHANGED <<pc, orphan, hashing, ioMutex, broken>>
    BY <1>1, <1>11, <2>2 DEF UploadLayerStatus, FlushElse, clientVars, hashVars, CloudTypes,
       WriterTypes, BoundTypes
  <2>4. QED  BY <1>2, <2>1, <2>3
<1>12. CASE FlushReturn
  BY <1>1, <1>2, <1>3, <1>12 DEF FlushReturn, FlushGoto, FlushElse, clientVars, hashVars,
     FlushTypes, CloudTypes, WriterTypes, BoundTypes
<1>13. QED
  BY <1>4, <1>5, <1>6, <1>7, <1>8, <1>9, <1>10, <1>11, <1>12 DEF FlushStep

\* Every step is a reader's, a write's or Flush's, and keeps the types.
Outcomes == ReadOutcome \/ (\E c \in Chunks : WriteOutcome(c)) \/ FlushStart \/ FlushDrain \/ FlushStep

LEMMA StepOutcome ==
  ASSUME TypeOK, Counts, Writing, Next
  PROVE  Outcomes /\ OtherTypes'
<1>1. CASE \/ \E c \in Chunks : ReaderStep(c) \/ LeaveRead(c)
           \/ \E p \in Pages : TransferAnswers(p) \/ PageTransferCompleted(p)
           \/ \E h \in Hashers : HashStep(h) \/ \E c \in ReadChunks : HashLock(h, c)
  BY <1>1, ReadOutcomes DEF Outcomes
<1>2. CASE \E c \in Chunks : WriterStep(c)
  BY <1>2, WriteOutcomes DEF Outcomes
<1>3. CASE FlushStart \/ FlushDrain \/ FlushStep
  BY <1>3, FlushTypesStep DEF Outcomes
<1>4. QED
  BY <1>1, <1>2, <1>3 DEF Next, ReadWork, FreeWork, MutexWork, ReaderStep, WriterStep

\* What Flush leaves alone.
LEMMA FlushLeaves ==
  ASSUME FlushStart \/ FlushDrain \/ FlushStep
  PROVE  UNCHANGED <<pc, orphan, attempts, written, hashing, object, ioMutex, broken>>
BY DEF FlushStep, FlushStart, FlushWaited, FlushDrain, FlushPages, FlushUnlocked, UploadDirtyPage,
       DirtyPagesUploaded, UploadLayerStatus, FlushReturn, FlushElse, clientVars, cloudVars, hashVars

\* The versions of the writes.
LEMMA WritingStep ==
  ASSUME TypeOK, Writing, Outcomes
  PROVE  Writing'
<1>1. OtherTypes /\ ClientTypes /\ written \in [Chunks -> Versions] /\ object \in [Chunks -> Versions]
  BY SplitTypes DEF OtherTypes, WriterTypes, CloudTypes
<1> DEFINE Is(c) ==
      /\ written[c] <= Initial(c) + MaxWrites
      /\ pc[c] \in WriteStates => written[c] < Initial(c) + MaxWrites
      /\ object[c] = written[c] + (IF pc[c] \in {"uploaded", "entrySet"} THEN 1 ELSE 0)
<1>2. \A c \in Chunks : Is(c)
  BY DEF Writing
<1>3. SUFFICES \A c \in Chunks : Is(c)'
  BY DEF Writing
<1>4. ASSUME NEW c \in Chunks, pc'[c] = pc[c], written'[c] = written[c], object'[c] = object[c]
      PROVE  Is(c)'
  <2>1. Is(c)
    BY <1>2
  <2>2. QED  BY <1>4, <2>1
<1>5. CASE ReadOutcome
  <2>1. UNCHANGED <<written, object>>
    BY <1>5 DEF ReadOutcome, cloudVars
  <2>2. ASSUME NEW c \in Chunks PROVE Is(c)'
    <3>1. CASE pc'[c] = pc[c]
      BY <1>4, <2>1, <3>1
    <3>2. CASE pc[c] \in ReadState /\ pc'[c] \in ReadState
      <4>1. /\ pc[c] \notin {"uploaded", "entrySet"} /\ pc'[c] \notin {"uploaded", "entrySet"}
            /\ pc'[c] \notin WriteStates
        BY <3>2 DEF ReadState, ReadStates, WriteStates
      <4>2. Is(c)
        BY <1>2
      <4>3. QED  BY <2>1, <4>1, <4>2
    <3>3. CASE pc[c] \in ReadState /\ pc'[c] = "lockForWrite" /\ written[c] < Initial(c) + MaxWrites
      <4>1. pc[c] \notin {"uploaded", "entrySet"} /\ pc'[c] \notin {"uploaded", "entrySet"}
        BY <3>3 DEF ReadState, ReadStates
      <4>2. Is(c)
        BY <1>2
      <4>3. QED  BY <2>1, <3>3, <4>1, <4>2 DEF Initial
    <3>4. QED  BY <1>5, <3>1, <3>2, <3>3 DEF ReadOutcome, Looks
  <2>3. QED  BY <2>2
<1>6. ASSUME NEW c \in Chunks, WriteOutcome(c) PROVE \A d \in Chunks : Is(d)'
  <2>1. \A d \in Chunks \ {c} : Is(d)'
    BY <1>4, <1>6 DEF WriteOutcome
  <2>2. SUFFICES Is(c)'
    BY <2>1
  <2>3. Is(c) /\ written[c] \in Int /\ Initial(c) + MaxWrites \in Int
    BY <1>1, <1>2 DEF Versions, Initial
  <2>4. CASE GoesOn(c)
    BY <2>3, <2>4 DEF GoesOn, WriteStates, UploadStates
  <2>5. CASE Arrives(c)
    BY <2>3, <2>5 DEF Arrives, WriteStates
  <2>6. CASE SetsEntry(c) \/ HasNoPage(c)
    BY <2>3, <2>6 DEF SetsEntry, HasNoPage, WriteStates
  <2>7. CASE Finishes(c)
    BY <2>3, <2>7 DEF Finishes, WriteStates
  <2>8. CASE GivesUp(c)
    BY <2>3, <2>8 DEF GivesUp, WriteStates
  <2>9. QED  BY <1>6, <2>4, <2>5, <2>6, <2>7, <2>8 DEF WriteOutcome
<1>7. CASE FlushStart \/ FlushDrain \/ FlushStep
  <2>1. UNCHANGED <<pc, written, object>>
    BY <1>7, FlushLeaves
  <2>2. QED  BY <1>4, <2>1
<1>8. QED  BY <1>5, <1>6, <1>7 DEF Outcomes

\* Nobody downloads a chunk beside a download left behind.
LEMMA OneDownloadStep ==
  ASSUME OneDownload, ~broken, Outcomes
  PROVE  OneDownload'
<1>1. SUFFICES ASSUME ~broken', NEW c \in Chunks, pc'[c] \in DownloadStates PROVE orphan'[c] = "none"
  BY DEF OneDownload, DownloadStates
<1>2. pc[c] \in DownloadStates => orphan[c] = "none"
  BY DEF OneDownload
<1>3. CASE ReadOutcome
  BY <1>1, <1>2, <1>3 DEF ReadOutcome, Looks
<1>4. ASSUME NEW d \in Chunks, WriteOutcome(d) PROVE orphan'[c] = "none"
  <2>1. UNCHANGED orphan /\ (d # c => pc'[c] = pc[c])
    BY <1>4 DEF WriteOutcome
  <2>2. d = c => pc'[c] \notin DownloadStates
    BY <1>4 DEF WriteOutcome, GoesOn, Arrives, SetsEntry, HasNoPage, Finishes, GivesUp, DownloadStates
  <2>3. QED  BY <1>1, <1>2, <2>1, <2>2
<1>5. CASE FlushStart \/ FlushDrain \/ FlushStep
  BY <1>1, <1>2, <1>5, FlushLeaves
<1>6. QED  BY <1>3, <1>4, <1>5 DEF Outcomes

\* While Flush is in progress nobody locks a page.
LEMMA HoldersShrink ==
  ASSUME Kinds, isFlushInProgress, NEW p \in Pages
  PROVE  Holders(p) = {} => Holders(p)' = {}
<1>1. \A q \in Pages : \A x : ~LockKind(q, x)
  BY DEF LockKind, LockPage
<1>2. ASSUME NEW q \in Pages, NEW pg, NEW W, UnlockKind(pg, q, W) PROVE Holders(p) = {} => Holders(p)' = {}
  BY <1>2 DEF UnlockKind, Leave
<1>3. HoldersStay => (Holders(p) = {} => Holders(p)' = {})
  BY DEF HoldersStay
<1>4. QED
  BY <1>1, <1>2, <1>3 DEF Kinds, NothingKind, InitiateKind, AnswerKind, EntryKind, UploadKind

\* The phases of Flush.
LEMMA PhasesStep ==
  ASSUME TypeOK, Counts, FlushPhases, Outcomes, Kinds
  PROVE  FlushPhases'
<1>1. ASSUME UNCHANGED isFlushInProgress,
             \/ UNCHANGED <<flush, awaited>>
             \/ awaited # NoOne /\ awaited' = NoOne /\ flush' \in {"idle", "drain"}
      PROVE  FlushPhases'
  <2>1. (isFlushInProgress <=> flush \in {"waitUnlocked", "dirtyPages"})'
    BY <1>1 DEF FlushPhases
  <2>2. (awaited # NoOne => flush = "await")'
    BY <1>1 DEF FlushPhases
  <2>3. ASSUME flush' = "dirtyPages" PROVE \A p \in Pages : Holders(p)' = {}
    <3>1. flush = "dirtyPages"
      BY <1>1, <2>3
    <3>2. isFlushInProgress /\ \A p \in Pages : Holders(p) = {}
      BY <3>1 DEF FlushPhases
    <3>3. QED  BY <3>2, HoldersShrink
  <2>4. QED  BY <2>1, <2>2, <2>3 DEF FlushPhases
<1>2. CASE ReadOutcome
  BY <1>1, <1>2 DEF ReadOutcome, flushVars
<1>3. ASSUME NEW c \in Chunks, WriteOutcome(c) PROVE FlushPhases'
  <2>1. c # NoOne
    OBVIOUS
  <2>2. QED  BY <1>1, <1>3, <2>1 DEF WriteOutcome, FlushLearns
<1>4. ASSUME FlushStart \/ FlushDrain \/ FlushStep,
             (isFlushInProgress <=> flush \in {"waitUnlocked", "dirtyPages"})',
             (awaited # NoOne => flush = "await")',
             flush' = "dirtyPages" => flush = "dirtyPages" \/ lockedPageCount = 0
      PROVE  FlushPhases'
  <2>1. ASSUME flush' = "dirtyPages" PROVE \A p \in Pages : Holders(p)' = {}
    <3>1. HoldersStay
      BY <1>4, FlushLeaves, NobodyMoves
    <3>2. \A p \in Pages : Holders(p) = {}
      <4>1. CASE flush = "dirtyPages"
        BY <4>1 DEF FlushPhases
      <4>2. CASE lockedPageCount = 0
        <5>1. Held = {}
          BY <4>2, HeldFinite, FS_EmptySet, SplitTypes DEF Counts, OtherTypes
        <5>2. QED  BY <5>1 DEF Held
      <4>3. QED  BY <1>4, <2>1, <4>1, <4>2
    <3>3. QED  BY <3>1, <3>2 DEF HoldersStay
  <2>2. QED  BY <1>4, <2>1 DEF FlushPhases
<1>5. CASE FlushStart
  BY <1>4, <1>5 DEF FlushStart, FlushGoto, FlushPhases
<1>6. CASE FlushWaited
  BY <1>4, <1>6 DEF FlushStep, FlushWaited, FlushGoto, FlushPhases
<1>7. CASE FlushDrain
  BY <1>4, <1>7 DEF FlushDrain, FlushGoto, FlushPhases
<1>8. CASE FlushPages
  BY <1>4, <1>8 DEF FlushStep, FlushPages, FlushGoto, FlushPhases
<1>9. CASE FlushUnlocked
  BY <1>4, <1>9 DEF FlushStep, FlushUnlocked, FlushGoto, FlushPhases
<1>10. CASE UploadDirtyPage
  <2>1. /\ flush = "dirtyPages" /\ UNCHANGED awaited
        /\ \/ UNCHANGED <<isFlushInProgress, flush>>
           \/ isFlushInProgress' = FALSE /\ flush' = "idle"
    BY <1>10 DEF UploadDirtyPage, FlushGoto
  <2>2. (isFlushInProgress <=> flush \in {"waitUnlocked", "dirtyPages"})'
    BY <2>1 DEF FlushPhases
  <2>3. (awaited # NoOne => flush = "await")'
    BY <2>1 DEF FlushPhases
  <2>4. QED  BY <1>4, <1>10, <2>1, <2>2, <2>3 DEF FlushStep
<1>11. CASE DirtyPagesUploaded
  BY <1>4, <1>11 DEF FlushStep, DirtyPagesUploaded, FlushGoto, FlushPhases
<1>12. CASE UploadLayerStatus
  BY <1>4, <1>12 DEF FlushStep, UploadLayerStatus, FlushGoto, FlushPhases
<1>13. CASE FlushReturn
  BY <1>4, <1>13 DEF FlushStep, FlushReturn, FlushGoto, FlushPhases
<1>14. QED
  BY <1>2, <1>3, <1>5, <1>6, <1>7, <1>8, <1>9, <1>10, <1>11, <1>12, <1>13 DEF Outcomes, FlushStep

-----------------------------------------------------------------------------
(* The first invariant.                                                    *)

LEMMA PagesInit ==
  ASSUME Init
  PROVE  PagesInv
<1>1. TypeOK
  <2>1. NoChunk \in Chunks
    BY DEF NoChunk
  <2>2. \A c \in Chunks : Initial(c) \in Versions
    BY DEF Initial, Versions
  <2>3. 0 \in Versions /\ 0 \in 0 .. MaxAttempts /\ 0 \in 0 .. MaxFaults /\ 0 \in 0 .. MaxFlushes
        /\ 0 \in 0 .. MaxHashes /\ <<>> \in Seq(Pages)
    BY DEF Versions, MaxAttempts
  <2>4. PageTypes
    BY <2>3 DEF Init, PageTypes, PageMap
  <2>5. OtherTypes
    BY <2>1, <2>2, <2>3 DEF Init, OtherTypes, FlushTypes, CloudTypes, WriterTypes, ReaderTypes,
       BoundTypes, ClientTypes, FlushStates, HashStates
  <2>6. QED  BY <2>4, <2>5, SplitTypes
<1>2. \A p \in Pages : page[p] = NoPage
  BY DEF Init
<1>3. Lists
  <2>1. InMemory = {}
    BY <1>2 DEF InMemory
  <2>2. ToSet(<<>>) = {} /\ Distinct(<<>>)
    BY DEF ToSet, Distinct
  <2>3. QED  BY <2>1, <2>2 DEF Lists, Init
<1>4. \A p \in Pages : Holders(p) = {}
  BY DEF Init, Holders, LeftBehind, ChunksOf, HoldingStates, UploadStates
<1>5. Counts
  <2>1. Cardinality({}) = 0
    BY FS_EmptySet
  <2>2. Held = {} /\ \A p \in Pages : Locks(p) = 0
    BY <1>2, <1>4 DEF Held, Locks, InMemory
  <2>3. lockedPageCount = 0
    BY DEF Init
  <2>4. QED  BY <1>4, <2>1, <2>2, <2>3 DEF Counts
<1>6. Transfers
  <2>1. \A p \in Pages : Initiating(p) = {}
    BY <1>4, HoldersFinite
  <2>2. QED  BY <1>2, <2>1 DEF Transfers, InMemory
<1>7. FlushPhases
  BY DEF Init, FlushPhases
<1>8. Writing
  BY DEF Init, Writing, WriteStates, Initial
<1>9. OneDownload
  BY DEF Init, OneDownload
<1>10. QED  BY <1>1, <1>3, <1>5, <1>6, <1>7, <1>8, <1>9 DEF PagesInv

\* A step, and what it is.
LEMMA PagesStep ==
  ASSUME PagesInv, Next
  PROVE  PagesInv' /\ Kinds /\ Outcomes
<1>1. TypeOK /\ Lists /\ Counts /\ Transfers /\ FlushPhases /\ Writing /\ OneDownload
  BY DEF PagesInv
<1>2. /\ PageTypes /\ OtherTypes /\ ClientTypes /\ storedEntry \in [Chunks -> Versions]
      /\ written \in [Chunks -> Versions]
  BY <1>1, SplitTypes DEF OtherTypes, CloudTypes, WriterTypes
<1>3. Kinds
  BY <1>1, <1>2, StepKind
<1>4. Outcomes /\ OtherTypes'
  BY <1>1, StepOutcome
<1>5. EntryFits
  BY <1>1, <1>2 DEF EntryFits, Writing, WriteStates, Versions, Initial
<1>6. PageTypes' /\ Lists'
  BY <1>1, <1>2, <1>3, <1>5, ListsStep
<1>7. TypeOK'
  BY <1>4, <1>6, SplitTypes
<1>8. Counts'
  BY <1>1, <1>2, <1>3, CountsStep
<1>9. Transfers'
  BY <1>1, <1>2, <1>3, TransfersStep
<1>10. FlushPhases'
  BY <1>1, <1>3, <1>4, PhasesStep
<1>11. Writing'
  BY <1>1, <1>4, WritingStep
<1>12. OneDownload'
  <2>1. ~broken
    BY DEF Next
  <2>2. QED  BY <1>1, <1>4, <2>1, OneDownloadStep
<1>13. QED  BY <1>3, <1>4, <1>6, <1>7, <1>8, <1>9, <1>10, <1>11, <1>12 DEF PagesInv

LEMMA PagesStutter ==
  ASSUME PagesInv, UNCHANGED vars
  PROVE  PagesInv'
<1>1. /\ UNCHANGED <<page, entry, pageList, dirtyPageList, lockedPageCount>>
      /\ UNCHANGED <<isFlushInProgress, directory, layerStatusDirty, flush, awaited, mustSave, flushes>>
      /\ UNCHANGED <<object, storedEntry, storedDirectory, pc, orphan, attempts, written, uploadErrors>>
      /\ UNCHANGED <<hashing, hashes, ioMutex, broken, faults>>
  BY DEF vars, pageVars, flushVars, cloudVars, clientVars, hashVars
<1>2. HoldersStay /\ InitiatingStay /\ InMemory' = InMemory
  BY <1>1, NobodyMoves DEF InMemory
<1>3. TypeOK'
  BY <1>1 DEF PagesInv, TypeOK
<1>4. Lists'
  BY <1>1, <1>2 DEF PagesInv, Lists
<1>5. Counts'
  <2>1. Held' = Held
    BY <1>2 DEF Held, HoldersStay
  <2>2. \A p \in Pages : Locks(p)' = Locks(p)
    BY <1>1, <1>2 DEF Locks
  <2>3. QED  BY <1>1, <1>2, <2>1, <2>2 DEF PagesInv, Counts, HoldersStay
<1>6. Transfers'
  BY <1>1, <1>2 DEF PagesInv, Transfers, InitiatingStay
<1>7. FlushPhases'
  BY <1>1, <1>2 DEF PagesInv, FlushPhases, HoldersStay
<1>8. Writing'
  BY <1>1 DEF PagesInv, Writing, WriteStates
<1>9. OneDownload'
  BY <1>1 DEF PagesInv, OneDownload, DownloadStates
<1>10. QED  BY <1>3, <1>4, <1>5, <1>6, <1>7, <1>8, <1>9 DEF PagesInv

\* The invariant is that of every behaviour.
THEOREM PagesInvariance == Spec => []PagesInv
<1>1. Init => PagesInv
  BY PagesInit
<1>2. PagesInv /\ [Next]_vars => PagesInv'
  BY PagesStep, PagesStutter
<1>3. QED  BY <1>1, <1>2, PTL DEF Spec

\* Every variable has its type: no lock count, no count of locked pages is
\* negative, and versions and attempts stay within their bounds.
THEOREM TypeCorrect == Spec => []TypeOK
<1>1. PagesInv => TypeOK
  BY DEF PagesInv
<1>2. QED  BY <1>1, PagesInvariance, PTL

\* The lock counts, the count of locked pages and the two lists are exact
\* (LockPage, UnlockPage, LimitPages, SetPageEntry and UploadDirtyPages).
THEOREM ExactPages == Spec => []PagesExact
<1>1. PagesInv => PagesExact
  <2>1. SUFFICES ASSUME PagesInv PROVE PagesExact
    OBVIOUS
  <2>2. PageTypes /\ Lists /\ Counts
    <3>1. TypeOK /\ Lists /\ Counts
      BY <2>1 DEF PagesInv
    <3>2. QED  BY <3>1, SplitTypes
  <2>3. /\ IsFiniteSet(ToSet(pageList)) /\ Cardinality(ToSet(pageList)) = Len(pageList)
        /\ IsFiniteSet(ToSet(dirtyPageList))
        /\ Cardinality(ToSet(dirtyPageList)) = Len(dirtyPageList)
    <3>1. pageList \in Seq(Pages) /\ Distinct(pageList)
      BY <2>2 DEF PageTypes, Lists
    <3>2. dirtyPageList \in Seq(Pages) /\ Distinct(dirtyPageList)
      BY <2>2 DEF PageTypes, Lists
    <3>3. IsFiniteSet(ToSet(pageList)) /\ Cardinality(ToSet(pageList)) = Len(pageList)
      BY <3>1, DistinctCount
    <3>4. IsFiniteSet(ToSet(dirtyPageList)) /\ Cardinality(ToSet(dirtyPageList)) = Len(dirtyPageList)
      BY <3>2, DistinctCount
    <3>5. QED  BY <3>3, <3>4
  <2>4. ToSet(pageList) \cap ToSet(dirtyPageList) = {} /\ ToSet(pageList) \cup ToSet(dirtyPageList) = InMemory
    BY <2>2 DEF Lists
  <2>5. Len(pageList) \in Nat /\ Len(dirtyPageList) \in Nat
    BY <2>2 DEF PageTypes
  <2>6. Cardinality(InMemory) = Len(pageList) + Len(dirtyPageList)
    <3>1. Cardinality({}) = 0
      BY FS_EmptySet
    <3>2. Cardinality(ToSet(pageList) \cup ToSet(dirtyPageList))
            = Cardinality(ToSet(pageList)) + Cardinality(ToSet(dirtyPageList))
                - Cardinality(ToSet(pageList) \cap ToSet(dirtyPageList))
      BY <2>3, FS_Union
    <3>3. Cardinality(ToSet(pageList) \cap ToSet(dirtyPageList)) = 0
      BY <2>4, <3>1
    <3>4. Cardinality(InMemory) = Cardinality(ToSet(pageList) \cup ToSet(dirtyPageList))
      BY <2>4
    <3>5. QED  BY <2>3, <2>5, <3>2, <3>3, <3>4
  <2>7. lockedPageCount = Cardinality({p \in Pages : Holders(p) # {}})
    BY <2>2 DEF Counts, Held
  <2>8. \A p \in Pages : Cardinality(Holders(p)) = IF p \in InMemory THEN page[p].lockCount ELSE 0
    BY <2>2 DEF Counts, Locks
  <2>9. \A p \in ToSet(dirtyPageList) : page[p].valid
    BY <2>2 DEF Lists
  <2>10. QED  BY <2>4, <2>6, <2>7, <2>8, <2>9 DEF PagesExact
<1>2. QED  BY <1>1, PagesInvariance, PTL

-----------------------------------------------------------------------------
(* The entries: what a chunk's next reader would find.                     *)

\* A layer that was not created in this session: a page that is not in memory is
\* found where it is stored.
Found(c) == IF ValidPage(PageOf[c]) THEN entry[c] ELSE storedEntry[c]
Clean(c) ==
  /\ PageOf[c] \notin directory => storedEntry[c] = 0
  /\ ~ValidPage(PageOf[c]) => entry[c] = 0
  /\ ValidPage(PageOf[c]) /\ PageOf[c] \notin ToSet(dirtyPageList) => entry[c] = storedEntry[c]

LEMMA FoundIs ==
  ASSUME ~CreateEmpty, NEW c \in Chunks
  PROVE  /\ Clean(c) => FoundEntry(c) = Found(c)
         /\ Clean(c)' => FoundEntry(c)' = Found(c)'
<1>1. Clean(c) => FoundEntry(c) = Found(c)
  BY DEF Clean, FoundEntry, Found, ValidPage, IsEmptyPage
<1>2. Clean(c)' => FoundEntry(c)' = Found(c)'
  BY DEF Clean, FoundEntry, Found, ValidPage, IsEmptyPage
<1>3. QED  BY <1>1, <1>2

\* The entry stays with its page, goes with a page that is clean or not valid, or
\* comes back with it.
Same(c) ==
  /\ ValidPage(PageOf[c])' <=> ValidPage(PageOf[c])
  /\ entry'[c] = entry[c]
  /\ PageOf[c] \in ToSet(dirtyPageList) => PageOf[c] \in ToSet(dirtyPageList')
Goes(c) ==
  /\ ~ValidPage(PageOf[c])' /\ entry'[c] = 0
  /\ ValidPage(PageOf[c]) => PageOf[c] \notin ToSet(dirtyPageList)
Comes(c) == ~ValidPage(PageOf[c]) /\ ValidPage(PageOf[c])' /\ entry'[c] = storedEntry[c]
Keeps(c) == Same(c) \/ Goes(c) \/ Comes(c)

LEMMA KeepsEntry ==
  ASSUME NEW c \in Chunks, Clean(c), Keeps(c), UNCHANGED <<storedEntry, directory>>
  PROVE  Clean(c)' /\ Found(c)' = Found(c)
<1>1. CASE Same(c)
  BY <1>1 DEF Same, Clean, Found
<1>2. CASE Goes(c)
  BY <1>2 DEF Goes, Clean, Found
<1>3. CASE Comes(c)
  BY <1>3 DEF Comes, Clean, Found
<1>4. QED  BY <1>1, <1>2, <1>3 DEF Keeps

\* A step that is not about the page of a chunk keeps its entry.
LEMMA OthersKeep ==
  ASSUME NEW p, OthersStay(p), UNCHANGED dirtyPageList, NEW c \in Chunks, PageOf[c] # p
  PROVE  Keeps(c)
<1>1. PageOf[c] \in Pages \ {p} /\ c \in ChunksOf(PageOf[c])
  BY DEF ChunksOf
<1>2. CASE Stays(PageOf[c])
  <2>1. page'[PageOf[c]] = page[PageOf[c]] /\ entry'[c] = entry[c]
    BY <1>1, <1>2 DEF Stays
  <2>2. QED  BY <2>1 DEF Keeps, Same, ValidPage
<1>3. CASE Evicted(PageOf[c])
  <2>1. page'[PageOf[c]] = NoPage /\ entry'[c] = 0 /\ PageOf[c] \notin ToSet(dirtyPageList)
    BY <1>1, <1>3 DEF Evicted
  <2>2. QED  BY <2>1 DEF Keeps, Goes, ValidPage
<1>4. QED  BY <1>1, <1>2, <1>3 DEF OthersStay

\* An upload sets the entry of its chunk, which makes the page dirty.
NewEntry(c) ==
  /\ ValidPage(PageOf[c]) /\ pc[c] = "uploaded" /\ pc'[c] = "entrySet"
  /\ SetPageEntry(c, written[c] + 1)

LEMMA NewEntryEffect ==
  ASSUME PageTypes, Lists, NEW c \in Chunks, NewEntry(c)
  PROVE  /\ ValidPage(PageOf[c])' /\ entry'[c] = written[c] + 1
         /\ PageOf[c] \in ToSet(dirtyPageList')
         /\ \A d \in Chunks \ {c} : Keeps(d)
<1> DEFINE p == PageOf[c]
<1>1. UNCHANGED page /\ entry' = [entry EXCEPT ![c] = written[c] + 1]
  BY DEF NewEntry, SetPageEntry
<1>2. entry'[c] = written[c] + 1 /\ \A d \in Chunks \ {c} : entry'[d] = entry[d]
  BY <1>1 DEF PageTypes
<1>3. p \in ToSet(dirtyPageList') /\ ToSet(dirtyPageList) \subseteq ToSet(dirtyPageList')
  <2>1. CASE p \in ToSet(dirtyPageList)
    BY <2>1 DEF NewEntry, SetPageEntry
  <2>2. CASE p \notin ToSet(dirtyPageList)
    <3>1. dirtyPageList' = Append(dirtyPageList, p)
      BY <2>2 DEF NewEntry, SetPageEntry
    <3>2. p \in Pages /\ dirtyPageList \in Seq(Pages) /\ Distinct(dirtyPageList)
      BY DEF PageTypes, Lists
    <3>3. ToSet(dirtyPageList') = ToSet(dirtyPageList) \cup {p}
      BY <2>2, <3>1, <3>2, PushBack
    <3>4. QED  BY <3>3
  <2>3. QED  BY <2>1, <2>2
<1>4. \A q : ValidPage(q)' <=> ValidPage(q)
  BY <1>1 DEF ValidPage
<1>5. \A d \in Chunks \ {c} : Keeps(d)
  BY <1>2, <1>3, <1>4 DEF Keeps, Same
<1>6. QED  BY <1>2, <1>3, <1>4, <1>5 DEF NewEntry

\* Every step keeps the entry of a chunk, but for its upload's and Flush's.
LEMMA EntryMoves ==
  ASSUME PagesInv, CleanStored, ~CreateEmpty, Kinds, UNCHANGED <<storedEntry, directory>>,
         NEW c \in Chunks
  PROVE  Keeps(c) \/ NewEntry(c) \/ UploadKind
<1> DEFINE p == PageOf[c]
<1>1. PageTypes /\ Lists /\ Counts /\ Transfers /\ ClientTypes
  <2>1. TypeOK /\ Lists /\ Counts /\ Transfers
    BY DEF PagesInv
  <2>2. QED  BY <2>1, SplitTypes DEF OtherTypes
<1>2. p \in Pages /\ c \in ChunksOf(p) /\ Clean(c)
  BY DEF CleanStored, Clean, ChunksOf
<1>3. CASE NothingKind
  BY <1>3 DEF NothingKind, pageVars, Keeps, Same, ValidPage
<1>4. ASSUME NEW q \in Pages, NEW x, LockKind(q, x) PROVE Keeps(c)
  <2>1. /\ OthersStay(q) /\ LockedPage(q) \in Page /\ page'[q] = LockedPage(q)
        /\ \A d \in ChunksOf(q) : entry'[d] = entry[d]
        /\ UNCHANGED dirtyPageList
    BY <1>1, <1>4, LockEffect DEF LockKind
  <2>2. CASE p # q
    BY <2>1, <2>2, OthersKeep
  <2>3. CASE p = q /\ page[p] # NoPage
    <3>1. page[p] \in Page /\ page'[p] = [page[p] EXCEPT !.lockCount = @ + 1] /\ page'[p] # NoPage
      BY <1>1, <1>2, <2>1, <2>3 DEF LockedPage, PageTypes, PageMap
    <3>2. page'[p].valid = page[p].valid
      BY <3>1 DEF Page
    <3>3. QED  BY <1>2, <2>1, <2>3, <3>1, <3>2 DEF Keeps, Same, ValidPage
  <2>4. CASE p = q /\ page[p] = NoPage
    <3>1. page'[p] # NoPage /\ page'[p].valid = IsEmptyPage(p)
      BY <2>1, <2>4 DEF LockedPage
    <3>2. entry'[c] = 0 /\ ~ValidPage(p)
      BY <1>2, <2>1, <2>4 DEF Clean, ValidPage
    <3>3. IsEmptyPage(p) => storedEntry[c] = 0
      BY <1>2 DEF Clean, IsEmptyPage
    <3>4. CASE IsEmptyPage(p)
      BY <3>1, <3>2, <3>3, <3>4 DEF Keeps, Comes, ValidPage
    <3>5. CASE ~IsEmptyPage(p)
      BY <3>1, <3>2, <3>5 DEF Keeps, Goes, ValidPage
    <3>6. QED  BY <3>4, <3>5
  <2>5. QED  BY <2>2, <2>3, <2>4
<1>5. ASSUME NEW q \in Pages, NEW pg, NEW W, UnlockKind(pg, q, W) PROVE Keeps(c)
  <2> DEFINE n == Cardinality(W)
  <2>1. /\ OthersStay(q) /\ UNCHANGED dirtyPageList
        /\ Dropped(q, n) \/ LetGo(q, n) \/ Unlocked(pg, q, n)
    BY <1>1, <1>5, UnlockKindEffect
  <2> HIDE DEF n
  <2>2. CASE p # q
    BY <2>1, <2>2, OthersKeep
  <2>3. CASE p = q /\ Dropped(q, n)
    BY <1>2, <2>3 DEF Dropped, Keeps, Goes, ValidPage, Clean
  <2>4. CASE p = q /\ LetGo(q, n)
    BY <1>2, <2>4 DEF LetGo, Keeps, Goes, ValidPage
  <2>5. CASE p = q /\ Unlocked(pg, q, n)
    <3>1. page[p] # NoPage /\ page[p] \in Page
      BY <1>1, <1>2, <1>5, <2>5 DEF UnlockKind, PageTypes, PageMap
    <3>2. pg[p] \in Page /\ pg[p].valid = page[p].valid
      <4>1. CASE pg = page
        BY <3>1, <4>1
      <4>2. CASE pg = [page EXCEPT ![p].transfer = "ended"]
        <5>1. pg[p] = [page[p] EXCEPT !.transfer = "ended"]
          BY <1>1, <1>2, <4>2 DEF PageTypes, PageMap
        <5>2. QED  BY <3>1, <5>1 DEF Page
      <4>3. QED  BY <1>5, <2>5, <4>1, <4>2 DEF UnlockKind
    <3>3. page'[p] = [pg[p] EXCEPT !.lockCount = Left(p, n)] /\ entry'[c] = entry[c]
      BY <1>2, <2>5 DEF Unlocked
    <3>4. page'[p].valid = page[p].valid
      BY <3>2, <3>3 DEF Page
    <3>5. page'[p] # NoPage
      <4>1. PageTypes'
        BY <1>1, <1>5, UnlockKindEffect
      <4>2. page'[p].lockCount = Left(p, n) /\ Left(p, n) \in Nat
        BY <1>1, <1>5, <2>5, <3>2, <3>3, UnlockKindEffect DEF Page, n
      <4>3. page'[p] = [valid |-> pg[p].valid, failed |-> pg[p].failed, lockCount |-> Left(p, n),
                        transfer |-> pg[p].transfer]
        BY <3>2, <3>3 DEF Page
      <4>4. page'[p] \in Page
        BY <3>2, <4>2, <4>3 DEF Page
      <4>5. QED  BY <4>4
    <3>6. QED  BY <2>1, <3>1, <3>3, <3>4, <3>5 DEF Keeps, Same, ValidPage
  <2>6. QED  BY <2>1, <2>2, <2>3, <2>4, <2>5
<1>6. ASSUME NEW q \in Pages, NEW x, InitiateKind(q, x) PROVE Keeps(c)
  <2>1. /\ page' = [page EXCEPT ![q].transfer = "running"]
        /\ UNCHANGED <<entry, dirtyPageList>>
    BY <1>6 DEF InitiateKind, InitiateTransfer
  <2>2. page[q] # NoPage /\ ~page[q].valid
    BY <1>1, <1>6 DEF InitiateKind, Started, Transfers
  <2>3. page[q] \in Page
    BY <1>1, <2>2 DEF PageTypes, PageMap
  <2>4. page'[q] = [page[q] EXCEPT !.transfer = "running"]
    BY <1>1, <2>1 DEF PageTypes, PageMap
  <2>5. page'[q].valid = page[q].valid
    BY <2>3, <2>4 DEF Page
  <2>6. CASE p = q
    BY <2>1, <2>2, <2>5, <2>6 DEF Keeps, Same, ValidPage, Goes, Clean, Comes
  <2>7. CASE p # q
    <3>1. page'[p] = page[p]
      BY <1>1, <1>2, <2>1, <2>7 DEF PageTypes, PageMap
    <3>2. QED  BY <2>1, <3>1 DEF Keeps, Same, ValidPage
  <2>8. QED  BY <2>6, <2>7
<1>7. ASSUME NEW q \in Pages, AnswerKind(q) PROVE Keeps(c)
  <2>1. /\ page[q] # NoPage /\ page[q].transfer = "running" /\ UNCHANGED dirtyPageList
        /\ \/ /\ page' = [page EXCEPT ![q].transfer = "answered", ![q].valid = TRUE]
              /\ entry' = [d \in Chunks |-> IF PageOf[d] = q THEN storedEntry[d] ELSE entry[d]]
           \/ /\ page' = [page EXCEPT ![q].transfer = "answered", ![q].failed = TRUE]
              /\ UNCHANGED entry
    BY <1>7 DEF AnswerKind, TransferAnswers
  <2>2. ~page[q].valid /\ page[q] \in Page
    BY <1>1, <2>1 DEF Transfers, InMemory, PageTypes, PageMap
  <2>3. CASE p # q
    <3>1. page'[p] = page[p]
      BY <1>1, <1>2, <2>1, <2>3 DEF PageTypes, PageMap
    <3>2. entry'[c] = entry[c]
      BY <2>1, <2>3
    <3>3. QED  BY <2>1, <3>1, <3>2 DEF Keeps, Same, ValidPage
  <2>4. CASE /\ p = q /\ page' = [page EXCEPT ![q].transfer = "answered", ![q].valid = TRUE]
             /\ entry' = [d \in Chunks |-> IF PageOf[d] = q THEN storedEntry[d] ELSE entry[d]]
    <3>1. page'[p] = [page[p] EXCEPT !.transfer = "answered", !.valid = TRUE]
      BY <1>1, <1>2, <2>4 DEF PageTypes, PageMap
    <3>2. page'[p] \in Page /\ page'[p].valid
      <4>1. page[p] \in Page
        BY <2>2, <2>4
      <4>2. PICK r \in Page : r = page[p]
        BY <4>1
      <4>3. [r EXCEPT !.transfer = "answered", !.valid = TRUE] \in Page
        BY DEF Page
      <4>4. [r EXCEPT !.transfer = "answered", !.valid = TRUE].valid = TRUE
        BY DEF Page
      <4>5. QED  BY <3>1, <4>2, <4>3, <4>4
    <3>3. entry'[c] = storedEntry[c] /\ page'[p] # NoPage
      BY <2>4, <3>2
    <3>4. ~ValidPage(p) /\ ValidPage(p)'
      BY <2>2, <2>4, <3>2, <3>3 DEF ValidPage
    <3>5. QED  BY <3>3, <3>4 DEF Keeps, Comes
  <2>5. CASE /\ p = q /\ page' = [page EXCEPT ![q].transfer = "answered", ![q].failed = TRUE]
             /\ UNCHANGED entry
    <3>1. page'[p] = [page[p] EXCEPT !.transfer = "answered", !.failed = TRUE]
      BY <1>1, <1>2, <2>5 DEF PageTypes, PageMap
    <3>2. page'[p].valid = page[p].valid
      <4>1. page[p] \in Page
        BY <2>2, <2>5
      <4>2. PICK r \in Page : r = page[p]
        BY <4>1
      <4>3. [r EXCEPT !.transfer = "answered", !.failed = TRUE].valid = r.valid
        BY DEF Page
      <4>4. QED  BY <3>1, <4>2, <4>3
    <3>3. entry'[c] = 0
      BY <1>2, <2>2, <2>5 DEF Clean, ValidPage
    <3>4. QED  BY <2>2, <2>5, <3>2, <3>3 DEF Keeps, Goes, ValidPage
  <2>6. QED  BY <2>1, <2>3, <2>4, <2>5
<1>8. ASSUME NEW d \in Chunks, EntryKind(d) PROVE Keeps(c) \/ NewEntry(c)
  <2>1. NewEntry(d)
    BY <1>8 DEF EntryKind, NewEntry
  <2>2. CASE c = d
    BY <2>1, <2>2
  <2>3. CASE c # d
    BY <1>1, <2>1, <2>3, NewEntryEffect
  <2>4. QED  BY <2>2, <2>3
<1>9. QED  BY <1>3, <1>4, <1>5, <1>6, <1>7, <1>8 DEF Kinds

\* Flush stores the entries of a dirty page, which it puts among the clean ones.
LEMMA UploadKeeps ==
  ASSUME PageTypes, Lists, CleanStored, UploadDirtyPage,
         storedEntry \in [Chunks -> Versions], NEW c \in Chunks
  PROVE  Clean(c)' /\ Found(c)' = Found(c)
<1> DEFINE p == Head(dirtyPageList)
           q == PageOf[c]
<1>1. Clean(c) /\ UNCHANGED <<page, entry>> /\ dirtyPageList # <<>>
  BY DEF CleanStored, Clean, UploadDirtyPage
<1>2. /\ p \in ToSet(dirtyPageList) /\ Tail(dirtyPageList) \in Seq(Pages)
      /\ Distinct(Tail(dirtyPageList))
      /\ ToSet(Tail(dirtyPageList)) = ToSet(dirtyPageList) \ {p}
  BY <1>1, PopFront DEF PageTypes, Lists
<1>3. p \in Pages /\ ValidPage(p)
  <2>1. p \in Pages
    BY <1>2, ListMembers DEF PageTypes
  <2>2. QED  BY <1>2, <2>1 DEF Lists, InMemory, ValidPage
<1> HIDE DEF p
<1>4. ValidPage(q)' <=> ValidPage(q)
  BY <1>1 DEF ValidPage
<1>5. CASE /\ storedEntry' = [d \in Chunks |-> IF PageOf[d] = p THEN entry[d] ELSE storedEntry[d]]
           /\ directory' = directory \cup {p} /\ dirtyPageList' = Tail(dirtyPageList)
  <2>1. CASE q = p
    <3>1. storedEntry'[c] = entry[c] /\ q \in directory'
      BY <1>5, <2>1
    <3>2. QED  BY <1>1, <1>3, <1>4, <2>1, <3>1 DEF Clean, Found
  <2>2. CASE q # p
    <3>1. storedEntry'[c] = storedEntry[c] /\ (q \in directory' <=> q \in directory)
      BY <1>5, <2>2
    <3>2. q \in ToSet(dirtyPageList') <=> q \in ToSet(dirtyPageList)
      BY <1>2, <1>5, <2>2
    <3>3. QED  BY <1>1, <1>4, <3>1, <3>2 DEF Clean, Found
  <2>3. QED  BY <2>1, <2>2
<1>6. CASE dirtyPageList' = Append(Tail(dirtyPageList), p) /\ UNCHANGED <<storedEntry, directory>>
  <2> DEFINE tail == Tail(dirtyPageList)
  <2>1. tail \in Seq(Pages) /\ Distinct(tail) /\ p \notin ToSet(tail)
        /\ ToSet(tail) = ToSet(dirtyPageList) \ {p} /\ dirtyPageList' = Append(tail, p)
    BY <1>2, <1>6
  <2> HIDE DEF tail
  <2>2. ToSet(dirtyPageList') = ToSet(tail) \cup {p}
    BY <1>3, <2>1, PushBack
  <2>3. Same(c)
    BY <1>1, <1>2, <1>4, <2>1, <2>2 DEF Same
  <2>4. QED  BY <1>1, <1>6, <2>3, KeepsEntry DEF Keeps
<1>7. QED  BY <1>5, <1>6 DEF UploadDirtyPage, p

\* What is stored changes when Flush uploads a page.
LEMMA StoredStays ==
  ASSUME Outcomes
  PROVE  UploadDirtyPage \/ UNCHANGED <<storedEntry, directory>>
<1>1. CASE ReadOutcome
  BY <1>1 DEF ReadOutcome, flushVars, cloudVars
<1>2. ASSUME NEW c \in Chunks, WriteOutcome(c) PROVE UNCHANGED <<storedEntry, directory>>
  BY <1>2 DEF WriteOutcome
<1>3. CASE FlushStart
  BY <1>3 DEF FlushStart
<1>4. CASE FlushDrain
  BY <1>4 DEF FlushDrain
<1>5. CASE FlushStep
  BY <1>5 DEF FlushStep, FlushWaited, FlushPages, FlushUnlocked, DirtyPagesUploaded, UploadLayerStatus,
              FlushReturn, cloudVars
<1>6. QED  BY <1>1, <1>2, <1>3, <1>4, <1>5 DEF Outcomes

\* Who sets an entry moves on from "uploaded".
LEMMA NewEntryOutcome ==
  ASSUME Outcomes, NEW c \in Chunks, NewEntry(c)
  PROVE  WriteOutcome(c) /\ SetsEntry(c)
<1>1. pc[c] = "uploaded" /\ pc'[c] = "entrySet"
  BY DEF NewEntry
<1>2. CASE ReadOutcome
  <2>1. Looks(c)
    BY <1>2 DEF ReadOutcome
  <2>2. QED  BY <1>1, <2>1 DEF Looks, ReadState, ReadStates
<1>3. ASSUME NEW d \in Chunks, WriteOutcome(d) PROVE WriteOutcome(c) /\ SetsEntry(c)
  <2>1. d = c
    BY <1>1, <1>3 DEF WriteOutcome
  <2>2. QED  BY <1>1, <1>3, <2>1 DEF WriteOutcome
<1>4. CASE FlushStart \/ FlushDrain \/ FlushStep
  BY <1>1, <1>4, FlushLeaves
<1>5. QED  BY <1>2, <1>3, <1>4 DEF Outcomes

\* The version whose entry is set, or that has been written.
Expected(c) == written[c] + (IF pc[c] = "entrySet" THEN 1 ELSE 0)

LEMMA ExpectedStep ==
  ASSUME Outcomes, written \in [Chunks -> Versions], NEW c \in Chunks
  PROVE  \/ Expected(c)' = Expected(c)
         \/ NewEntry(c) /\ Expected(c)' = written[c] + 1
<1>1. written[c] \in Int
  BY DEF Versions
<1>2. ASSUME pc'[c] = pc[c], written'[c] = written[c] PROVE Expected(c)' = Expected(c)
  BY <1>2 DEF Expected
<1>3. CASE ReadOutcome
  <2>1. written'[c] = written[c] /\ Looks(c)
    BY <1>3 DEF ReadOutcome
  <2>2. CASE pc'[c] = pc[c]
    BY <1>2, <2>1, <2>2
  <2>3. CASE pc[c] \in ReadState /\ pc'[c] \in ReadState \cup {"lockForWrite"}
    BY <2>1, <2>3 DEF Expected, ReadState, ReadStates
  <2>4. QED  BY <2>1, <2>2, <2>3 DEF Looks
<1>4. ASSUME NEW d \in Chunks, WriteOutcome(d), d # c PROVE Expected(c)' = Expected(c)
  BY <1>2, <1>4 DEF WriteOutcome
<1>5. CASE WriteOutcome(c)
  <2>1. CASE SetsEntry(c)
    <3>1. NewEntry(c)
      BY <2>1 DEF SetsEntry, NewEntry
    <3>2. Expected(c)' = written[c] + 1
      BY <1>1, <2>1 DEF SetsEntry, Expected
    <3>3. QED  BY <3>1, <3>2
  <2>2. CASE GoesOn(c)
    BY <1>1, <2>2 DEF GoesOn, Expected
  <2>3. CASE Arrives(c)
    BY <1>1, <2>3 DEF Arrives, Expected
  <2>4. CASE HasNoPage(c)
    BY <1>1, <2>4 DEF HasNoPage, Expected
  <2>5. CASE Finishes(c)
    BY <1>1, <2>5 DEF Finishes, Expected
  <2>6. CASE GivesUp(c)
    BY <1>1, <2>6 DEF GivesUp, Expected
  <2>7. QED  BY <1>5, <2>1, <2>2, <2>3, <2>4, <2>5, <2>6 DEF WriteOutcome
<1>6. CASE FlushStart \/ FlushDrain \/ FlushStep
  <2>1. UNCHANGED <<pc, written>>
    BY <1>6, FlushLeaves
  <2>2. QED  BY <1>2, <2>1
<1>7. QED  BY <1>3, <1>4, <1>5, <1>6 DEF Outcomes

\* The entries are kept, whatever the step.
LEMMA EntriesStep ==
  ASSUME PagesInv, Kinds, Outcomes, ~CreateEmpty, CleanStored, EntriesKept
  PROVE  CleanStored' /\ EntriesKept'
<1>1. PageTypes /\ Lists /\ storedEntry \in [Chunks -> Versions] /\ written \in [Chunks -> Versions]
  <2>1. TypeOK /\ Lists
    BY DEF PagesInv
  <2>2. QED  BY <2>1, SplitTypes DEF OtherTypes, CloudTypes, WriterTypes
<1>2. ASSUME NEW c \in Chunks PROVE Clean(c)' /\ Found(c)' = Expected(c)'
  <2>1. Clean(c) /\ Found(c) = Expected(c)
    BY FoundIs DEF CleanStored, Clean, EntriesKept, Expected, At
  <2>2. \/ Expected(c)' = Expected(c)
        \/ NewEntry(c) /\ Expected(c)' = written[c] + 1
    BY <1>1, ExpectedStep
  <2>3. CASE UploadDirtyPage
    <3>1. Clean(c)' /\ Found(c)' = Found(c)
      BY <1>1, <2>3, UploadKeeps
    <3>2. ~NewEntry(c)
      <4>1. UNCHANGED pc
        BY <2>3, FlushLeaves DEF FlushStep
      <4>2. QED  BY <4>1 DEF NewEntry
    <3>3. QED  BY <2>1, <2>2, <3>1, <3>2
  <2>4. CASE NewEntry(c)
    <3>1. ValidPage(PageOf[c])' /\ entry'[c] = written[c] + 1 /\ PageOf[c] \in ToSet(dirtyPageList')
      BY <1>1, <2>4, NewEntryEffect
    <3>2. WriteOutcome(c) /\ SetsEntry(c)
      BY <2>4, NewEntryOutcome
    <3>3. UNCHANGED <<storedEntry, directory>>
      BY <3>2 DEF WriteOutcome
    <3>4. Clean(c)' /\ Found(c)' = written[c] + 1
      BY <2>1, <3>1, <3>3 DEF Clean, Found
    <3>5. Expected(c)' = written[c] + 1
      BY <3>2 DEF SetsEntry, Expected
    <3>6. QED  BY <3>4, <3>5
  <2>5. CASE ~NewEntry(c) /\ ~UploadDirtyPage
    <3>1. UNCHANGED <<storedEntry, directory>>
      BY <2>5, StoredStays
    <3>2. Keeps(c)
      BY <2>5, <3>1, EntryMoves DEF UploadKind
    <3>3. QED  BY <2>1, <2>2, <2>5, <3>1, <3>2, KeepsEntry
  <2>6. QED  BY <2>3, <2>4, <2>5
<1>3. CleanStored'
  BY <1>2 DEF CleanStored, Clean
<1>4. EntriesKept'
  <2>1. ASSUME NEW c \in Chunks PROVE FoundEntry(c)' = Expected(c)'
    BY <1>2, <2>1, FoundIs
  <2>2. QED  BY <2>1 DEF EntriesKept, Expected, At
<1>5. QED  BY <1>3, <1>4

\* When Flush has uploaded the dirty pages, all that has been written is stored.
LEMMA AllStored ==
  ASSUME PagesInv, ~CreateEmpty, CleanStored, EntriesKept, flush = "dirtyPages", dirtyPageList = <<>>
  PROVE  \A c \in Chunks : storedEntry[c] = written[c]
<1>1. SUFFICES ASSUME NEW c \in Chunks PROVE storedEntry[c] = written[c]
  OBVIOUS
<1>2. TypeOK /\ FlushPhases
  BY DEF PagesInv
<1>3. written[c] \in Int
  BY <1>2, SplitTypes DEF OtherTypes, WriterTypes, Versions
<1>4. PageOf[c] \in Pages /\ Holders(PageOf[c]) = {}
  BY <1>2 DEF FlushPhases
<1>5. pc[c] # "entrySet"
  BY <1>4 DEF Holders, ChunksOf, HoldingStates, UploadStates
<1>6. ToSet(dirtyPageList) = {}
  BY DEF ToSet
<1>7. Clean(c)
  BY DEF CleanStored, Clean
<1>8. Found(c) = storedEntry[c]
  BY <1>6, <1>7 DEF Found, Clean
<1>9. FoundEntry(c) = written[c] + (IF At(c, "entrySet") THEN 1 ELSE 0)
  BY DEF EntriesKept
<1>10. QED  BY <1>3, <1>5, <1>7, <1>8, <1>9, FoundIs DEF At

\* What Flush must save, phase by phase.
WaitsFor(c) ==
  \/ written[c] >= mustSave[c]
  \/ pc[c] \in UploadStates /\ written[c] + 1 >= mustSave[c]
  \/ uploadErrors > 0
Waited == {"drain", "await", "uploadPages", "waitUnlocked", "dirtyPages"}

LEMMA SavingReads ==
  ASSUME Saving, ReadOutcome
  PROVE  Saving'
<1>1. /\ UNCHANGED <<flush, mustSave, layerStatusDirty, directory, storedDirectory, storedEntry>>
      /\ UNCHANGED <<written, uploadErrors>>
  BY DEF ReadOutcome, flushVars, cloudVars
<1>2. \A c \in Chunks : pc[c] \in UploadStates => pc'[c] \in UploadStates
  BY DEF ReadOutcome, Looks, ReadState, ReadStates, UploadStates
<1>3. (flush = "waitWrites" => \A c \in Chunks : WaitsFor(c))'
  BY <1>1, <1>2 DEF Saving, WaitsFor, UploadStates
<1>4. QED  BY <1>1, <1>3 DEF Saving, WaitsFor

LEMMA SavingWrites ==
  ASSUME TypeOK, FlushPhases, Saving, NEW c \in Chunks, WriteOutcome(c)
  PROVE  Saving'
<1>1. /\ written \in [Chunks -> Versions] /\ mustSave \in [Chunks -> Versions] /\ uploadErrors \in Nat
  BY SplitTypes DEF OtherTypes, WriterTypes, FlushTypes
<1>2. \A d \in Chunks : written[d] \in Int /\ mustSave[d] \in Int
  BY <1>1 DEF Versions
<1>3. UNCHANGED <<mustSave, layerStatusDirty, directory, storedDirectory, storedEntry>>
  BY DEF WriteOutcome
<1>4. /\ written'[c] = written[c] \/ written'[c] = written[c] + 1
      /\ uploadErrors' = uploadErrors \/ uploadErrors' = uploadErrors + 1
      /\ pc[c] \in UploadStates =>
           pc'[c] \in UploadStates \/ written'[c] = written[c] + 1 \/ uploadErrors' = uploadErrors + 1
  BY DEF WriteOutcome, GoesOn, Arrives, SetsEntry, HasNoPage, Finishes, GivesUp, UploadStates
<1>5. \A d \in Chunks \ {c} : pc'[d] = pc[d] /\ written'[d] = written[d]
  BY DEF WriteOutcome
<1>6. \A d \in Chunks : written'[d] >= written[d] /\ written'[d] \in Int
  BY <1>2, <1>4, <1>5
<1>7. \/ flush' = flush
      \/ flush = "await" /\ flush' \in {"idle", "drain"}
  BY DEF WriteOutcome, FlushLearns, FlushPhases
<1>8. ASSUME flush' = "waitWrites", NEW d \in Chunks PROVE WaitsFor(d)'
  <2>1. flush = "waitWrites" /\ WaitsFor(d)
    BY <1>7, <1>8 DEF Saving, WaitsFor
  <2>2. CASE written[d] >= mustSave[d]
    BY <1>2, <1>3, <1>6, <2>2 DEF WaitsFor
  <2>3. CASE uploadErrors > 0
    BY <1>1, <1>4, <2>3 DEF WaitsFor
  <2>4. CASE pc[d] \in UploadStates /\ written[d] + 1 >= mustSave[d]
    <3>1. CASE d # c
      <4>1. pc'[d] \in UploadStates /\ written'[d] + 1 >= mustSave'[d]
        BY <1>3, <1>5, <2>4, <3>1 DEF UploadStates
      <4>2. QED  BY <4>1 DEF WaitsFor, UploadStates
    <3>2. CASE d = c /\ pc'[c] \in UploadStates
      <4>1. written'[d] + 1 >= mustSave'[d]
        BY <1>2, <1>3, <1>6, <2>4
      <4>2. QED  BY <3>2, <4>1 DEF WaitsFor, UploadStates
    <3>3. CASE d = c /\ written'[c] = written[c] + 1
      BY <1>2, <1>3, <2>4, <3>3 DEF WaitsFor
    <3>4. CASE uploadErrors' = uploadErrors + 1
      BY <1>1, <3>4 DEF WaitsFor
    <3>5. QED  BY <1>4, <2>4, <3>1, <3>2, <3>3, <3>4
  <2>5. QED  BY <2>1, <2>2, <2>3, <2>4 DEF WaitsFor
<1>9. ASSUME flush' \in Waited, NEW d \in Chunks PROVE written'[d] >= mustSave'[d]
  <2>1. written[d] >= mustSave[d]
    BY <1>7, <1>9 DEF Saving, Waited
  <2>2. QED  BY <1>2, <1>3, <1>6, <2>1
<1>10. /\ (flush \in {"status", "done"} => \A d \in Chunks : storedEntry[d] >= mustSave[d])'
       /\ (~layerStatusDirty => storedDirectory = directory)'
       /\ (flush = "done" => ~layerStatusDirty)'
  BY <1>3, <1>7 DEF Saving
<1>11. QED  BY <1>8, <1>9, <1>10 DEF Saving, WaitsFor, Waited

LEMMA SavingFlush ==
  ASSUME PagesInv, ~CreateEmpty, CleanStored, EntriesKept, Saving, FlushStart \/ FlushDrain \/ FlushStep
  PROVE  Saving'
<1>1. TypeOK /\ FlushPhases
  BY DEF PagesInv
<1>2. /\ written \in [Chunks -> Versions] /\ mustSave \in [Chunks -> Versions] /\ uploadErrors \in Nat
  BY <1>1, SplitTypes DEF OtherTypes, WriterTypes, FlushTypes
<1>3. \A c \in Chunks : written[c] \in Int /\ mustSave[c] \in Int
  BY <1>2 DEF Versions
<1>4. UNCHANGED <<pc, written>>
  BY FlushLeaves
<1>5. CASE FlushStart
  <2>1. /\ flush' = "waitWrites" /\ UNCHANGED <<layerStatusDirty, directory, storedDirectory>>
        /\ mustSave' = [c \in Chunks |-> IF c \in Uploading THEN written[c] + 1 ELSE written[c]]
    BY <1>5 DEF FlushStart, FlushGoto
  <2>2. ASSUME NEW c \in Chunks PROVE WaitsFor(c)'
    <3>1. CASE pc[c] \in UploadStates
      <4>1. mustSave'[c] = written[c] + 1
        BY <2>1, <3>1 DEF Uploading
      <4>2. pc'[c] \in UploadStates /\ written'[c] + 1 >= mustSave'[c]
        BY <1>3, <1>4, <3>1, <4>1
      <4>3. QED  BY <4>2 DEF WaitsFor, UploadStates
    <3>2. CASE pc[c] \notin UploadStates
      <4>1. mustSave'[c] = written[c]
        BY <2>1, <3>2 DEF Uploading
      <4>2. QED  BY <1>3, <1>4, <4>1 DEF WaitsFor
    <3>3. QED  BY <3>1, <3>2
  <2>3. QED  BY <2>1, <2>2 DEF Saving, WaitsFor
<1>6. CASE FlushWaited
  <2>1. /\ flush = "waitWrites" /\ Uploading = {}
        /\ \/ flush' = "idle"
           \/ flush' = "drain" /\ ~(uploadErrors > 0)
        /\ UNCHANGED <<layerStatusDirty, directory, storedDirectory, storedEntry, mustSave>>
    BY <1>6 DEF FlushWaited, FlushGoto, ErrorPending, cloudVars
  <2>2. ASSUME flush' = "drain", NEW c \in Chunks PROVE written'[c] >= mustSave'[c]
    <3>1. WaitsFor(c) /\ ~(uploadErrors > 0)
      BY <2>1, <2>2 DEF Saving, WaitsFor
    <3>2. pc[c] \notin UploadStates
      BY <2>1 DEF Uploading
    <3>3. QED  BY <1>4, <2>1, <3>1, <3>2 DEF WaitsFor
  <2>3. QED  BY <2>1, <2>2 DEF Saving
<1>7. ASSUME flush \in Waited, flush' \in Waited \cup {"idle"}, UNCHANGED mustSave,
             \/ UNCHANGED <<layerStatusDirty, directory, storedDirectory>>
             \/ layerStatusDirty'
      PROVE  Saving'
  <2>1. \A c \in Chunks : written[c] >= mustSave[c]
    BY <1>7 DEF Saving, Waited
  <2>2. \A c \in Chunks : written'[c] >= mustSave'[c]
    BY <1>4, <1>7, <2>1
  <2>3. (~layerStatusDirty => storedDirectory = directory)'
    BY <1>7 DEF Saving
  <2>4. flush' \notin {"waitWrites", "status", "done"}
    BY <1>7 DEF Waited
  <2>5. QED  BY <2>2, <2>3, <2>4 DEF Saving
<1>8. CASE FlushDrain
  BY <1>7, <1>8 DEF FlushDrain, FlushGoto, Waited
<1>9. CASE FlushPages
  BY <1>7, <1>9 DEF FlushPages, FlushGoto, Waited
<1>10. CASE FlushUnlocked
  BY <1>7, <1>10 DEF FlushUnlocked, FlushGoto, Waited
<1>11. CASE UploadDirtyPage
  <2>1. /\ flush = "dirtyPages" /\ flush' \in {"dirtyPages", "idle"} /\ UNCHANGED mustSave
        /\ \/ UNCHANGED <<layerStatusDirty, directory, storedDirectory>>
           \/ layerStatusDirty'
    BY <1>11 DEF UploadDirtyPage, FlushGoto
  <2>2. QED  BY <1>7, <2>1 DEF Waited
<1>12. CASE DirtyPagesUploaded
  <2>1. /\ flush = "dirtyPages" /\ dirtyPageList = <<>>
        /\ flush' = (IF layerStatusDirty THEN "status" ELSE "done")
        /\ UNCHANGED <<layerStatusDirty, directory, storedDirectory, storedEntry, mustSave>>
    BY <1>12 DEF DirtyPagesUploaded, FlushGoto
  <2>2. \A c \in Chunks : written[c] >= mustSave[c] /\ storedEntry[c] = written[c]
    BY <2>1, AllStored DEF Saving
  <2>3. \A c \in Chunks : storedEntry'[c] >= mustSave'[c]
    BY <2>1, <2>2
  <2>4. QED  BY <2>1, <2>3 DEF Saving
<1>13. CASE UploadLayerStatus
  <2>1. /\ flush = "status" /\ UNCHANGED <<directory, storedEntry, mustSave>>
        /\ \/ storedDirectory' = directory /\ layerStatusDirty' = FALSE /\ flush' = "done"
           \/ flush' = "idle" /\ UNCHANGED <<storedDirectory, layerStatusDirty>>
    BY <1>13 DEF UploadLayerStatus, FlushGoto
  <2>2. QED  BY <2>1 DEF Saving
<1>14. CASE FlushReturn
  <2>1. flush' = "idle" /\ UNCHANGED <<layerStatusDirty, directory, storedDirectory>>
    BY <1>14 DEF FlushReturn, FlushGoto
  <2>2. QED  BY <2>1 DEF Saving
<1>15. QED
  BY <1>5, <1>6, <1>8, <1>9, <1>10, <1>11, <1>12, <1>13, <1>14 DEF FlushStep

-----------------------------------------------------------------------------
(* The second invariant, of a layer that was not created in this session.  *)

LEMMA EntriesInit ==
  ASSUME Init, ~CreateEmpty
  PROVE  EntriesInv
<1>1. ASSUME NEW c \in Chunks PROVE Clean(c) /\ Found(c) = written[c] /\ pc[c] = "idle"
  <2>1. /\ page[PageOf[c]] = NoPage /\ entry[c] = 0 /\ pc[c] = "idle"
        /\ storedEntry[c] = Initial(c) /\ written[c] = Initial(c) /\ directory = StoredPages
    BY DEF Init
  <2>2. QED  BY <2>1 DEF Clean, Found, ValidPage, Initial
<1>2. CleanStored
  BY <1>1 DEF CleanStored, Clean
<1>3. EntriesKept
  <2>1. ASSUME NEW c \in Chunks
        PROVE  FoundEntry(c) = written[c] + (IF At(c, "entrySet") THEN 1 ELSE 0)
    <3>1. written[c] \in Int
      BY DEF Init, Initial
    <3>2. FoundEntry(c) = written[c] /\ ~At(c, "entrySet")
      BY <1>1, FoundIs DEF At
    <3>3. QED  BY <3>1, <3>2
  <2>2. QED  BY <2>1 DEF EntriesKept
<1>4. Saving
  BY DEF Init, Saving
<1>5. QED  BY <1>2, <1>3, <1>4 DEF EntriesInv

\* It holds of every behaviour.
THEOREM EntriesInvariance == ~CreateEmpty => (Spec => [](PagesInv /\ EntriesInv))
<1>1. SUFFICES ASSUME ~CreateEmpty PROVE Spec => [](PagesInv /\ EntriesInv)
  OBVIOUS
<1>2. Init => PagesInv /\ EntriesInv
  BY <1>1, PagesInit, EntriesInit
<1>3. ASSUME PagesInv, EntriesInv, Next PROVE PagesInv' /\ EntriesInv'
  <2>1. CleanStored /\ EntriesKept /\ Saving /\ TypeOK /\ FlushPhases
    BY <1>3 DEF EntriesInv, PagesInv
  <2>2. PagesInv' /\ Kinds /\ Outcomes
    BY <1>3, PagesStep
  <2>3. CleanStored' /\ EntriesKept'
    BY <1>1, <1>3, <2>1, <2>2, EntriesStep
  <2>4. Saving'
    <3>1. CASE ReadOutcome
      BY <2>1, <3>1, SavingReads
    <3>2. CASE \E c \in Chunks : WriteOutcome(c)
      BY <2>1, <3>2, SavingWrites
    <3>3. CASE FlushStart \/ FlushDrain \/ FlushStep
      BY <1>1, <1>3, <2>1, <3>3, SavingFlush
    <3>4. QED  BY <2>2, <3>1, <3>2, <3>3 DEF Outcomes
  <2>5. QED  BY <2>2, <2>3, <2>4 DEF EntriesInv
<1>4. ASSUME PagesInv, EntriesInv, UNCHANGED vars PROVE PagesInv' /\ EntriesInv'
  <2>1. /\ UNCHANGED <<page, entry, pageList, dirtyPageList, pc, written, uploadErrors>>
        /\ UNCHANGED <<directory, layerStatusDirty, flush, mustSave, storedEntry, storedDirectory>>
    BY <1>4 DEF vars, pageVars, flushVars, cloudVars, clientVars
  <2>2. CleanStored'
    BY <1>4, <2>1 DEF EntriesInv, CleanStored, ValidPage
  <2>3. EntriesKept'
    BY <1>4, <2>1 DEF EntriesInv, EntriesKept, FoundEntry, IsEmptyPage, At
  <2>4. Saving'
    BY <1>4, <2>1 DEF EntriesInv, Saving, UploadStates
  <2>5. QED  BY <1>4, <2>2, <2>3, <2>4, PagesStutter DEF EntriesInv
<1>5. QED  BY <1>2, <1>3, <1>4, PTL DEF Spec

\* What LockPage would find for a chunk, in memory or by a download, is the entry
\* of its last upload: LimitPages, UnlockPage and failed transfers lose none.
THEOREM EntriesStay == ~CreateEmpty => (Spec => []EntriesKept)
<1>1. PagesInv /\ EntriesInv => EntriesKept
  BY DEF EntriesInv
<1>2. QED  BY <1>1, EntriesInvariance, PTL

\* When Flush returns without an error, who opens the layer anew finds every
\* entry whose upload had begun when Flush was called.
THEOREM FlushSavesEntries == ~CreateEmpty => (Spec => []FlushSaves)
<1>1. PagesInv /\ EntriesInv => FlushSaves
  <2>1. SUFFICES ASSUME PagesInv, EntriesInv, flush = "done", NEW c \in Chunks
                 PROVE  Recoverable(c) >= mustSave[c]
    BY DEF FlushSaves
  <2>2. Saving /\ CleanStored
    BY <2>1 DEF EntriesInv
  <2>3. storedDirectory = directory /\ storedEntry[c] >= mustSave[c]
    BY <2>1, <2>2 DEF Saving
  <2>4. PageOf[c] \notin directory => storedEntry[c] = 0
    BY <2>2 DEF CleanStored
  <2>5. QED  BY <2>3, <2>4 DEF Recoverable
<1>2. QED  BY <1>1, EntriesInvariance, PTL
=============================================================================
