--------------------------- MODULE CircularBuffer ---------------------------
(***************************************************************************)
(* The ring buffer of src/src/CircularBuffer.h: one action per operation   *)
(* of the class that changes its state, with the arithmetic of its small   *)
(* integers.  The callers guard peek() and pop() with available()          *)
(* (Controller.cpp:145, TimedResponse.cpp:22), as the comment on pop()     *)
(* requires, so those two actions carry that guard.                        *)
(*                                                                         *)
(* A byte has ByteSize values, 256 in the code.  The size of the buffer is *)
(* computed in an int8_t and its counters are uint8_t, so ByteSize is what *)
(* bounds Capacity from above; a small ByteSize lets TLC reach the         *)
(* wrap-around of every counter.                                           *)
(***************************************************************************)
EXTENDS Integers, Sequences

CONSTANTS
  Capacity,   \* bufferCapacity
  Item,       \* the type E of the entries
  NoItem,     \* the content of a slot that was never written
  ByteSize    \* number of values of a uint8_t

(* capacity is a uint8_t that bufUse() copies to an int8_t: more than half *)
(* a byte's range does not fit.                                            *)
ASSUME SizeAssumption ==
  /\ ByteSize \in Nat \ {0}
  /\ Capacity \in Nat \ {0}
  /\ 2 * Capacity <= ByteSize

VARIABLES
  buffer,       \* the slots
  head,         \* index of the next slot to write
  tail,         \* index of the oldest item
  full,         \* tells a full buffer from an empty one when head = tail
  hwm,          \* high water mark
  numPuts, numGets, numOverflows,   \* uint8_t diagnostics
  got,          \* what the last pop() or peek() returned
  discarded     \* history: items thrown away by clear(), modulo ByteSize

indices  == <<head, tail, full>>
counters == <<hwm, numPuts, numGets, numOverflows>>
vars     == <<buffer, indices, counters, got, discarded>>

Slot == 0 .. Capacity - 1
Byte == 0 .. ByteSize - 1

(* Conversions to int8_t and uint8_t of the values that occur in bufUse(). *)
Int8(x)  == IF 2 * x >= ByteSize THEN x - ByteSize
            ELSE IF 2 * x < -ByteSize THEN x + ByteSize ELSE x
UInt8(x) == IF x < 0 THEN x + ByteSize ELSE x

(* The mutants of this module, each standing before the definition it      *)
(* replaces, are slips this code could have made: an index that does not   *)
(* wrap, a counter that saturates, a distance taken without the wrap, a    *)
(* weaker available(), a pop() that forgets full or reads the new tail.    *)
NextSlotUnwrapped(i) == i + 1

NextSlot(i) == (i + 1) % Capacity

BumpSaturating(n) == IF n = ByteSize - 1 THEN n ELSE n + 1
Bump(n) == (n + 1) % ByteSize

UseUnwrapped(h, t, f) == UInt8(IF f THEN Int8(Capacity) ELSE Int8(h - t))

(* bufUse() of a buffer with head h, tail t and flag f.                    *)
Use(h, t, f) ==
  LET size == IF f THEN Int8(Capacity)
              ELSE LET diff == Int8(h - t)
                   IN  IF diff < 0 THEN Int8(diff + Capacity) ELSE diff
  IN  UInt8(size)

BufUse == Use(head, tail, full)

AvailableOrEmpty == full \/ head >= tail

Available == full \/ head # tail

Init ==
  /\ buffer = [i \in Slot |-> NoItem]
  /\ head = 0 /\ tail = 0 /\ full = FALSE
  /\ hwm = 0 /\ numPuts = 0 /\ numGets = 0 /\ numOverflows = 0
  /\ got = NoItem
  /\ discarded = 0

(* Store an entry, overwriting the oldest one when the buffer is full.     *)
Put(e) ==
  /\ buffer' = [buffer EXCEPT ![head] = e]
  /\ tail' = IF full THEN NextSlot(tail) ELSE tail
  /\ numOverflows' = IF full THEN Bump(numOverflows) ELSE numOverflows
  /\ head' = NextSlot(head)
  /\ full' = (head' = tail')
  /\ LET size == Use(head', tail', full')
     IN  hwm' = IF size > hwm THEN size ELSE hwm
  /\ numPuts' = Bump(numPuts)
  /\ UNCHANGED <<numGets, got, discarded>>

PopKeepsFull ==
  /\ Available
  /\ got' = buffer[tail]
  /\ tail' = NextSlot(tail)
  /\ numGets' = Bump(numGets)
  /\ UNCHANGED <<buffer, head, full, hwm, numPuts, numOverflows, discarded>>

PopReadsNewTail ==
  /\ Available
  /\ tail' = NextSlot(tail)
  /\ got' = buffer[tail']
  /\ full' = FALSE
  /\ numGets' = Bump(numGets)
  /\ UNCHANGED <<buffer, head, hwm, numPuts, numOverflows, discarded>>

(* Retrieve the oldest entry.                                              *)
Pop ==
  /\ Available
  /\ got' = buffer[tail]
  /\ full' = FALSE
  /\ tail' = NextSlot(tail)
  /\ numGets' = Bump(numGets)
  /\ UNCHANGED <<buffer, head, hwm, numPuts, numOverflows, discarded>>

(* Look at the oldest entry without removing it.                           *)
Peek ==
  /\ Available
  /\ got' = buffer[tail]
  /\ UNCHANGED <<buffer, indices, counters, discarded>>

(* Drop every entry.  The diagnostics are not reset.                       *)
Clear ==
  /\ head' = 0 /\ tail' = 0 /\ full' = FALSE
  /\ discarded' = (discarded + BufUse) % ByteSize
  /\ UNCHANGED <<buffer, counters, got>>

Next == (\E e \in Item : Put(e)) \/ Pop \/ Peek \/ Clear

Spec == Init /\ [][Next]_vars
-----------------------------------------------------------------------------
(* Every variable stays within its C++ type, and the indices inside the    *)
(* array they index (CircularBuffer.h:38-49).                              *)
TypeOK ==
  /\ buffer \in [Slot -> Item \cup {NoItem}]
  /\ head \in Slot /\ tail \in Slot /\ full \in BOOLEAN
  /\ hwm \in Byte /\ numPuts \in Byte /\ numGets \in Byte
  /\ numOverflows \in Byte /\ discarded \in Byte
  /\ got \in Item \cup {NoItem}

(* full is only ever set while head and tail coincide, which is what lets  *)
(* available() and bufUse() tell full from empty (CircularBuffer.h:71).    *)
FullMeansWrapped == full => head = tail

(* No slot that bufUse() counts as occupied was left unwritten: pop() and  *)
(* peek() never hand out a slot nobody filled (CircularBuffer.h:94,109).   *)
OccupiedSlotsAreWritten ==
  \A i \in 0 .. BufUse - 1 : buffer[(tail + i) % Capacity] \in Item

(* The high water mark that diagnostic 2 reports bounds every occupancy    *)
(* and never exceeds the capacity (CircularBuffer.h:83).                   *)
HighWaterMark == BufUse <= hwm /\ hwm <= Capacity

(* Conservation: whatever was put is still held, was handed out, was       *)
(* overwritten or was cleared.  The four counters are bytes, so the law    *)
(* holds modulo ByteSize, through their wrap-around.                       *)
CountersAddUp ==
  numPuts = (numGets + numOverflows + discarded + BufUse) % ByteSize

(* The items in the order in which they will be read.                      *)
Contents == [i \in 1 .. BufUse |-> buffer[(tail + i - 1) % Capacity]]

Abstract == INSTANCE OverwriteQueue WITH queue <- Contents

(* The ring buffer is a FIFO that loses only its oldest items, and those   *)
(* only to a put() that finds it full.                                     *)
RefinesQueue == Abstract!Spec
=============================================================================
