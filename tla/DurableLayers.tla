---------------------------- MODULE DurableLayers ----------------------------
(***************************************************************************)
(* What a VDS file promises: chunks of layers that are read as they were   *)
(* written, and become durable one whole layer at a time.  A crash leaves  *)
(* every layer as it last became durable, never a part of what was written *)
(* since, and never nothing.                                               *)
(***************************************************************************)
EXTENDS Integers

CONSTANTS Layers, Chunks,
          Values,            \* what a chunk can contain,
          Nothing,           \* or that it has not been written
          Absent             \* a layer that is not in the file

Empty == [c \in Chunks |-> Nothing]

VARIABLES working, \* what a reader of this session finds
          durable  \* what a reader who opens the file after a crash finds
vars == <<working, durable>>

Init == working = [l \in Layers |-> Absent] /\ durable = [l \in Layers |-> Absent]

\* A commit makes a layer durable; a crash leaves what is durable; AddLayer
\* replaces a layer by an empty one; and a chunk that is written gets a value.
\* (Bound by a quantifier, what implements working and durable is evaluated once.)
Next ==
  \E now \in {working}, then \in {working'}, kept \in {durable}, next \in {durable'} :
    \/ then = now /\ (next = kept \/ \E l \in Layers : next = [kept EXCEPT ![l] = now[l]])
    \/ /\ next = kept
       /\ \/ then = kept
          \/ \E l \in Layers :
               \/ then = [now EXCEPT ![l] = Empty]
               \/ /\ now[l] # Absent
                  /\ \E c \in Chunks, v \in Values : then = [now EXCEPT ![l][c] = v]
Spec == Init /\ [][Next]_vars
=============================================================================
