--------------------------- MODULE ExtentAllocator ---------------------------
(***************************************************************************)
(* ExtentAllocator: which parts of the file of a bulk data store are in    *)
(* use.  m_extents maps the offset where an extent begins to its reference *)
(* count and its type; the extent ends where the next one begins, and the  *)
(* last one is free and has no end.  Nothing is ever given back: the space *)
(* of what is no longer referenced is found again when the allocator is    *)
(* built anew from what the file refers to.  m_combinedExtents is only     *)
(* counted, and left out.                                                  *)
(***************************************************************************)
EXTENDS Integers, SequencesExt

ExtentTypes == {"Free", "DataStoreHeader", "FileTable", "PageDirectory", "IndexPage",
                "Chunk", "Mixed"}
Extent == [count : Nat, type : ExtentTypes]
FreeExtent == [count |-> 0, type |-> "Free"]

NewAllocator(initialSize) == (0 :> FreeExtent) @@ (initialSize :> FreeExtent)

LastOf(ext) == Max(DOMAIN ext)
NextOf(ext, b) == Min({x \in DOMAIN ext : x > b})
BeforeOf(ext, b) == Max({x \in DOMAIN ext : x < b})

\* CombineCompatibleExtents: b joins the extent before it when they agree.
Combine(ext, b) ==
  IF ext[b].type \in {"Free", "IndexPage", "Chunk"} /\ b > 0 /\ ext[BeforeOf(ext, b)] = ext[b]
  THEN Restrict(ext, DOMAIN ext \ {b}) ELSE ext

\* Allocate: the first free extent that is large enough, or the end of the file,
\* with the free extent before it if there is one.
Fitting_AnySize(ext, size) == {b \in DOMAIN ext \ {LastOf(ext)} : ext[b].count = 0}
Fitting(ext, size) ==
  {b \in DOMAIN ext \ {LastOf(ext)} : ext[b].count = 0 /\ NextOf(ext, b) - b >= size}
PlaceFor(ext, size) ==
  LET last == LastOf(ext)
  IN  IF Fitting(ext, size) # {} THEN Min(Fitting(ext, size))
      ELSE IF ext[BeforeOf(ext, last)].type = "Free" THEN BeforeOf(ext, last) ELSE last
Allocated_NoEnd(ext, size, type) ==
  LET at == PlaceFor(ext, size)
  IN  Combine([ext EXCEPT ![at] = [count |-> 1, type |-> type]], at)
Allocated(ext, size, type) ==
  LET at    == PlaceFor(ext, size)
      grown == IF Fitting(ext, size) # {} THEN ext
               ELSE (at + size :> FreeExtent) @@ Restrict(ext, {b \in DOMAIN ext : b <= at})
      taken == [grown EXCEPT ![at] = [count |-> 1, type |-> type]]
      left  == IF NextOf(grown, at) > at + size THEN (at + size :> FreeExtent) @@ taken ELSE taken
  IN  Combine(left, at)

\* GetPosition: the extent that offset lies in is split.
SplitAt(ext, offset) ==
  IF offset \in DOMAIN ext THEN ext ELSE (offset :> ext[BeforeOf(ext, offset)]) @@ ext

\* AddReference, of an extent within the file.
AddReference(ext, at, size, type) ==
  LET split == SplitAt(SplitAt(ext, at), at + size)
      added == [b \in DOMAIN split |->
                  IF b < at \/ b >= at + size THEN split[b]
                  ELSE [count |-> split[b].count + 1,
                        type  |-> IF split[b].type \in {"Free", type} THEN type ELSE "Mixed"]]
      start == Combine(added, at)
  IN  Combine(start, at + size)

\* The last extent is free, for Allocate to find.
EndsFree(ext) == ext[LastOf(ext)].count = 0
=============================================================================
