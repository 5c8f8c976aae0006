----------------------------- MODULE EventTable -----------------------------
(***************************************************************************)
(* The event table of Configuration (Configuration.cpp): NumEvents slots   *)
(* in persistent storage, each the four bytes of an event (node number,    *)
(* event number) followed by its event variables, and in RAM one hash per  *)
(* slot, which every lookup trusts.  A hash of 0 says that the slot is     *)
(* free; in storage a free slot has an event of four 0xFF bytes.           *)
(***************************************************************************)
EXTENDS Integers, Sequences, FiniteSetsExt

CONSTANTS
  NumEvents,   \* getNumEvents()
  NumEVs       \* getNumEVs(): event variables of an event

ASSUME TableAssumption ==
  /\ NumEvents \in 1 .. 255
  /\ NumEVs \in 1 .. 251

VARIABLES
  store,       \* the slots in storage
  hash         \* evhashtbl

EE_HASH_BYTES == 4
HASH_LENGTH == 128

Byte    == 0 .. 255
Index   == 0 .. NumEvents - 1
EvNum   == 1 .. NumEVs
Cell    == 1 .. EE_HASH_BYTES + NumEVs
EventId == [1 .. EE_HASH_BYTES -> Byte]

unused_entry == [k \in 1 .. EE_HASH_BYTES |-> 255]

TableTypeOK ==
  /\ store \in [Index -> [Cell -> Byte]]
  /\ hash \in [Index -> Byte]

-----------------------------------------------------------------------------
(* Hashing.  Exclusive or is a table of bytes.                             *)
Xor ==
  [a \in Byte |-> [b \in Byte |->
     LET bit(p) == p * (((a \div p) + (b \div p)) % 2)
     IN  bit(1) + bit(2) + bit(4) + bit(8) + bit(16) + bit(32) + bit(64) + bit(128)]]

MakeHashUnbounded(e) ==                             \* mutant: may return 0
  ((7 * Xor[e[1]][e[2]] + Xor[e[3]][e[4]]) % 256) % HASH_LENGTH

MakeHash(e) ==
  LET h == ((7 * Xor[e[1]][e[2]] + Xor[e[3]][e[4]]) % 256) % HASH_LENGTH
  IN  IF h = 0 THEN 255 ELSE h

EventAt(st, i) == [k \in 1 .. EE_HASH_BYTES |-> st[i][k]]

readEvent(i) == EventAt(store, i)

EVCell(n) == EE_HASH_BYTES + n
getEventEVval(i, n) == store[i][EVCell(n)]

(* What updateEvHashEntry(i) puts in the table when the slots are st.      *)
HashEntry(st, i) ==
  IF EventAt(st, i) = unused_entry THEN 0 ELSE MakeHash(EventAt(st, i))

HashTable(st) == [i \in Index |-> HashEntry(st, i)]

-----------------------------------------------------------------------------
(* Lookups.  They return NumEvents when nothing is found.                  *)
FirstOf(S) == IF S = {} THEN NumEvents ELSE Min(S)
IsEventIndexValid(i) == i < NumEvents

InUse == {i \in Index : hash[i] # 0}

MatchesByHashOnly(e) == {i \in Index : hash[i] = MakeHash(e)}  \* mutant

Matches(e) ==
  LET h == MakeHash(e) IN {i \in Index : hash[i] = h /\ readEvent(i) = e}

findExistingEventButLast(e) == FirstOf(Matches(e) \ {NumEvents - 1})  \* mutant

findExistingEvent(e) == FirstOf(Matches(e))
findEventSpace == FirstOf(Index \ InUse)
findExistingEventByEv(n, v) == FirstOf({i \in InUse : getEventEVval(i, n) = v})

-----------------------------------------------------------------------------
(* Writes: the slots after a write to the slots st.                        *)
WithEvent(st, i, e) ==
  [st EXCEPT ![i] = [c \in Cell |-> IF c <= EE_HASH_BYTES THEN e[c] ELSE st[i][c]]]

WithEV(st, i, n, v) == [st EXCEPT ![i][EVCell(n)] = v]

ClearedKeepingEVs(st, S) ==                     \* mutant: only the event bytes
  [i \in Index |-> [c \in Cell |->
     IF i \in S /\ c <= EE_HASH_BYTES THEN 255 ELSE st[i][c]]]

Cleared(st, S) ==
  [i \in Index |-> IF i \in S THEN [c \in Cell |-> 255] ELSE st[i]]

(* createEventAtIndex: every event variable starts at 0.                   *)
Created(st, i, e) ==
  [st EXCEPT ![i] = [c \in Cell |-> IF c <= EE_HASH_BYTES THEN e[c] ELSE 0]]

(* updateEvHashEntry for the slots in S, once the slots are st.            *)
Rehashed(st, S) == [i \in Index |-> IF i \in S THEN HashEntry(st, i) ELSE hash[i]]

(* Every handler writes its bytes in ascending order of address: power     *)
(* that fails when cut bytes of the table are done leaves the rest as is.  *)
Torn(new, cut) ==
  [i \in Index |-> [c \in Cell |->
     IF i * (EE_HASH_BYTES + NumEVs) + c <= cut THEN new[i][c] ELSE store[i][c]]]
=============================================================================
