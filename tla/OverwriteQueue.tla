--------------------------- MODULE OverwriteQueue ---------------------------
(***************************************************************************)
(* What a CircularBuffer promises its clients: a FIFO of at most Capacity  *)
(* items in which put() always succeeds and, when the queue is full,       *)
(* discards the OLDEST item (src/src/CircularBuffer.h:64).  The Controller *)
(* keeps its action bus in one (Controller.h:122), TimedResponse its tasks *)
(* (TimedResponse.h:50).                                                   *)
(***************************************************************************)
EXTENDS Naturals, Sequences

CONSTANTS
  Capacity,   \* bufferCapacity: the number of items the queue can hold
  Item,       \* the items that are put
  NoItem      \* nothing has been read yet

VARIABLES
  queue,      \* the items held, oldest first
  got         \* what the last pop() or peek() returned

vars == <<queue, got>>

(* s followed by e, without its oldest item when s was already full.       *)
Pushed(s, e) == Append(IF Len(s) = Capacity THEN Tail(s) ELSE s, e)

Init == queue = <<>> /\ got = NoItem

Put(e) == queue' = Pushed(queue, e) /\ UNCHANGED got

Peek ==
  /\ queue # <<>>
  /\ got' = Head(queue)
  /\ UNCHANGED queue

Pop ==
  /\ queue # <<>>
  /\ got' = Head(queue)
  /\ queue' = Tail(queue)

Clear == queue' = <<>> /\ UNCHANGED got

Next == (\E e \in Item : Put(e)) \/ Peek \/ Pop \/ Clear

Spec == Init /\ [][Next]_vars
=============================================================================
