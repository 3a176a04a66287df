----------------------------- MODULE UniqueLists -----------------------------
(***************************************************************************)
(* std::list with iterators: the lists of pages of MetadataManager and of  *)
(* VolumeDataPageAccessorImpl hold an element at most once, and an element *)
(* is erased at its place.                                                 *)
(***************************************************************************)
EXTENDS Integers, Sequences, SequencesExt

\* No element is in the list twice.
Distinct(list) == \A i, j \in DOMAIN list : list[i] = list[j] => i = j

\* list.erase(iterator): the list without e, which is in it at most once.
Erase(list, e) ==
  IF e \in ToSet(list) THEN RemoveAt(list, CHOOSE i \in DOMAIN list : list[i] = e) ELSE list
=============================================================================
