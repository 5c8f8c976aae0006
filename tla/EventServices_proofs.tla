------------------------ MODULE EventServices_proofs ------------------------
(***************************************************************************)
(* Theorems about EventServices, for tables of every size, any events and  *)
(* values, and power that fails at any byte of a write.                    *)
(***************************************************************************)
EXTENDS EventServices, SequenceTheorems, FiniteSetTheorems, WellFoundedInduction, TLAPS

-----------------------------------------------------------------------------
(* Searches.                                                               *)

(* A set of slots that is not empty has a first one.                       *)
LEMMA LeastExists ==
  ASSUME NEW S \in SUBSET Nat, S # {}
  PROVE  \E x \in S : \A y \in S : x <= y
<1>1. PICK x \in S : \A y \in S : ~ (<<y, x>> \in OpToRel(<, Nat))
  BY NatLessThanWellFounded, WFMin
<1>2. \A y \in S : ~ (y < x)
  BY <1>1 DEF OpToRel
<1> QED
  BY <1>2

LEMMA MinIsIn ==
  ASSUME NEW S \in SUBSET Nat, S # {}
  PROVE  Min(S) \in S /\ \A y \in S : Min(S) <= y
BY LeastExists DEF Min

(* A search returns the first slot that fits, or NumEvents.                *)
LEMMA FirstOfIs ==
  ASSUME NEW S \in SUBSET Index
  PROVE  /\ S = {} => FirstOf(S) = NumEvents /\ ~IsEventIndexValid(FirstOf(S))
         /\ S # {} => FirstOf(S) \in S /\ IsEventIndexValid(FirstOf(S))
         /\ IsEventIndexValid(FirstOf(S)) => FirstOf(S) \in S
<1>1. NumEvents \in Nat /\ S \in SUBSET Nat
  BY TableAssumption DEF Index
<1>2. S = {} => FirstOf(S) = NumEvents /\ ~IsEventIndexValid(FirstOf(S))
  BY <1>1 DEF FirstOf, IsEventIndexValid
<1>3. S # {} => FirstOf(S) \in S
  BY <1>1, MinIsIn DEF FirstOf
<1>4. \A i \in Index : IsEventIndexValid(i)
  BY <1>1 DEF Index, IsEventIndexValid
<1> QED
  BY <1>2, <1>3, <1>4

-----------------------------------------------------------------------------
(* The event of a slot after a write of the table.                         *)

LEMMA Sizes ==
  /\ NumEvents \in Nat \ {0} /\ NumEVs \in Nat \ {0}
  /\ Index \subseteq Nat /\ EvNum \subseteq Nat
  /\ \A k \in 1 .. EE_HASH_BYTES : k \in Cell
  /\ \A n \in EvNum : EVCell(n) \in Cell /\ \A k \in 1 .. EE_HASH_BYTES : EVCell(n) # k
  /\ \A m, n \in EvNum : EVCell(m) = EVCell(n) => m = n
  /\ \A c \in Cell : c <= EE_HASH_BYTES <=> c \in 1 .. EE_HASH_BYTES
BY TableAssumption DEF Index, EvNum, Cell, EVCell, EE_HASH_BYTES

Slots == [Index -> [Cell -> Byte]]

LEMMA EventAtType ==
  ASSUME NEW st \in Slots, NEW i \in Index
  PROVE  EventAt(st, i) \in EventId
BY Sizes DEF EventAt, EventId, Slots

(* The hash of an event is a byte and never the mark of a free slot.       *)
LEMMA HashIsByte ==
  ASSUME NEW e \in EventId
  PROVE  MakeHash(e) \in Byte /\ MakeHash(e) # 0
<1>1. \A a \in Byte, p \in Nat \ {0} : (a \div p) \in Nat
  BY DEF Byte
<1>2. \A a, b \in Byte : Xor[a][b] \in Nat
  <2> SUFFICES ASSUME NEW a \in Byte, NEW b \in Byte PROVE Xor[a][b] \in Nat
    OBVIOUS
  <2> DEFINE bit(p) == p * (((a \div p) + (b \div p)) % 2)
  <2>1. \A p \in Nat \ {0} : bit(p) \in Nat
    <3> TAKE p \in Nat \ {0}
    <3>1. (a \div p) + (b \div p) \in Nat
      BY <1>1
    <3>2. \A x \in Nat : x % 2 \in {0, 1}
      OBVIOUS
    <3>3. ((a \div p) + (b \div p)) % 2 \in {0, 1}
      BY <3>1, <3>2
    <3> QED
      BY <3>3
  <2>2. /\ bit(1) \in Nat /\ bit(2) \in Nat /\ bit(4) \in Nat /\ bit(8) \in Nat
        /\ bit(16) \in Nat /\ bit(32) \in Nat /\ bit(64) \in Nat /\ bit(128) \in Nat
    BY <2>1
  <2> HIDE DEF bit
  <2>3. bit(1) + bit(2) + bit(4) + bit(8) + bit(16) + bit(32) + bit(64) + bit(128) \in Nat
    BY <2>2
  <2> QED
    BY <2>3 DEF Xor, bit
<1>3. e[1] \in Byte /\ e[2] \in Byte /\ e[3] \in Byte /\ e[4] \in Byte
  BY DEF EventId, EE_HASH_BYTES
<1>4. \A x, y \in Nat : ((7 * x + y) % 256) % 128 \in 0 .. 127
  OBVIOUS
<1> DEFINE h == ((7 * Xor[e[1]][e[2]] + Xor[e[3]][e[4]]) % 256) % HASH_LENGTH
<1>5. h \in 0 .. 127
  BY <1>2, <1>3, <1>4 DEF HASH_LENGTH
<1>6. MakeHash(e) = IF h = 0 THEN 255 ELSE h
  BY Zenon DEF MakeHash
<1> HIDE DEF h
<1> QED
  BY <1>5, <1>6 DEF Byte

LEMMA HashEntryIsByte ==
  ASSUME NEW st \in Slots, NEW i \in Index
  PROVE  /\ HashEntry(st, i) \in Byte
         /\ HashEntry(st, i) = 0 <=> EventAt(st, i) = unused_entry
BY EventAtType, HashIsByte DEF HashEntry, Byte

(* Clearing frees the slots of S and leaves the others alone.              *)
LEMMA ClearedSlots ==
  ASSUME NEW st \in Slots, NEW S \in SUBSET Index
  PROVE  /\ Cleared(st, S) \in Slots
         /\ \A i \in S : EventAt(Cleared(st, S), i) = unused_entry
         /\ \A i \in S : \A c \in Cell : Cleared(st, S)[i][c] = 255
         /\ \A i \in Index \ S : Cleared(st, S)[i] = st[i]
         /\ \A i \in Index \ S : EventAt(Cleared(st, S), i) = EventAt(st, i)
<1>1. Cleared(st, S) \in Slots
  BY DEF Cleared, Slots, Byte
<1>2. \A i \in S : \A c \in Cell : Cleared(st, S)[i][c] = 255
  BY DEF Cleared
<1>3. \A i \in S : EventAt(Cleared(st, S), i) = unused_entry
  BY <1>2, Sizes DEF EventAt, unused_entry
<1>4. \A i \in Index \ S : Cleared(st, S)[i] = st[i]
  BY DEF Cleared
<1>5. \A i \in Index \ S : EventAt(Cleared(st, S), i) = EventAt(st, i)
  BY <1>4 DEF EventAt
<1> QED
  BY <1>1, <1>2, <1>3, <1>4, <1>5

(* A variable is written beside the event.                                 *)
LEMMA EVWritten ==
  ASSUME NEW st \in Slots, NEW i \in Index, NEW n \in EvNum, NEW v \in Byte
  PROVE  /\ WithEV(st, i, n, v) \in Slots
         /\ \A j \in Index : EventAt(WithEV(st, i, n, v), j) = EventAt(st, j)
         /\ \A j \in Index \ {i} : WithEV(st, i, n, v)[j] = st[j]
         /\ WithEV(st, i, n, v)[i][EVCell(n)] = v
         /\ \A m \in EvNum \ {n} : WithEV(st, i, n, v)[i][EVCell(m)] = st[i][EVCell(m)]
<1> DEFINE new == WithEV(st, i, n, v)
<1>1. new \in Slots
  BY Sizes DEF WithEV, Slots
<1>2. \A j \in Index \ {i} : new[j] = st[j]
  BY DEF WithEV, Slots
<1>3. \A c \in Cell \ {EVCell(n)} : new[i][c] = st[i][c]
  BY DEF WithEV, Slots
<1>4. \A k \in 1 .. EE_HASH_BYTES : new[i][k] = st[i][k]
  BY <1>3, Sizes
<1>5. \A j \in Index : EventAt(new, j) = EventAt(st, j)
  BY <1>2, <1>4 DEF EventAt
<1>6. \A m \in EvNum \ {n} : EVCell(m) \in Cell \ {EVCell(n)}
  BY Sizes
<1>7. new[i][EVCell(n)] = v
  BY Sizes DEF WithEV, Slots
<1> QED
  BY <1>1, <1>2, <1>3, <1>5, <1>6, <1>7

LEMMA EventWritten ==
  ASSUME NEW st \in Slots, NEW i \in Index, NEW e \in EventId
  PROVE  /\ WithEvent(st, i, e) \in Slots
         /\ EventAt(WithEvent(st, i, e), i) = e
         /\ \A j \in Index \ {i} : WithEvent(st, i, e)[j] = st[j]
         /\ \A j \in Index \ {i} : EventAt(WithEvent(st, i, e), j) = EventAt(st, j)
         /\ \A n \in EvNum : WithEvent(st, i, e)[i][EVCell(n)] = st[i][EVCell(n)]
<1> DEFINE new == WithEvent(st, i, e)
<1>1. new[i] = [c \in Cell |-> IF c <= EE_HASH_BYTES THEN e[c] ELSE st[i][c]]
  BY DEF WithEvent, Slots
<1>2. \A j \in Index \ {i} : new[j] = st[j]
  BY DEF WithEvent, Slots
<1>3. \A c \in Cell : c <= EE_HASH_BYTES => e[c] \in Byte
  BY Sizes DEF EventId
<1>4. new[i] \in [Cell -> Byte]
  BY <1>1, <1>3 DEF Slots
<1>5. new \in Slots
  BY <1>4, <1>2 DEF WithEvent, Slots
<1>6. \A k \in 1 .. EE_HASH_BYTES : new[i][k] = e[k]
  BY <1>1, Sizes
<1>7. EventAt(new, i) = e
  BY <1>6 DEF EventAt, EventId
<1>8. \A j \in Index \ {i} : EventAt(new, j) = EventAt(st, j)
  BY <1>2 DEF EventAt
<1>9. \A n \in EvNum : ~(EVCell(n) <= EE_HASH_BYTES)
  BY Sizes DEF EVCell, EE_HASH_BYTES, EvNum
<1>10. \A n \in EvNum : new[i][EVCell(n)] = st[i][EVCell(n)]
  BY <1>1, <1>9, Sizes
<1> QED
  BY <1>2, <1>5, <1>7, <1>8, <1>10

LEMMA EventCreated ==
  ASSUME NEW st \in Slots, NEW i \in Index, NEW e \in EventId
  PROVE  /\ Created(st, i, e) \in Slots
         /\ EventAt(Created(st, i, e), i) = e
         /\ \A j \in Index \ {i} : Created(st, i, e)[j] = st[j]
         /\ \A j \in Index \ {i} : EventAt(Created(st, i, e), j) = EventAt(st, j)
<1> DEFINE new == Created(st, i, e)
<1>1. new[i] = [c \in Cell |-> IF c <= EE_HASH_BYTES THEN e[c] ELSE 0]
  BY DEF Created, Slots
<1>2. \A j \in Index \ {i} : new[j] = st[j]
  BY DEF Created, Slots
<1>3. \A c \in Cell : c <= EE_HASH_BYTES => e[c] \in Byte
  BY Sizes DEF EventId
<1>4. new[i] \in [Cell -> Byte]
  BY <1>1, <1>3 DEF Byte
<1>5. new \in Slots
  BY <1>4, <1>2 DEF Created, Slots
<1>6. \A k \in 1 .. EE_HASH_BYTES : new[i][k] = e[k]
  BY <1>1, Sizes
<1>7. EventAt(new, i) = e
  BY <1>6 DEF EventAt, EventId
<1>8. \A j \in Index \ {i} : EventAt(new, j) = EventAt(st, j)
  BY <1>2 DEF EventAt
<1> QED
  BY <1>2, <1>5, <1>7, <1>8

LEMMA TornSlots ==
  ASSUME NEW new \in Slots, store \in Slots, NEW cut \in Nat
  PROVE  Torn(new, cut) \in Slots
BY DEF Torn, Slots

-----------------------------------------------------------------------------
(* What the searches find in a table whose hashes are right.               *)

LEMMA InUseAre ==
  ASSUME TableTypeOK, HashFollowsSlots
  PROVE  /\ InUse \in SUBSET Index
         /\ \A i \in Index : i \in InUse <=> readEvent(i) # unused_entry
BY HashEntryIsByte DEF TableTypeOK, HashFollowsSlots, HashTable, InUse, readEvent, Slots

LEMMA MatchesAre ==
  ASSUME TableTypeOK, HashFollowsSlots, NEW e \in EventId
  PROVE  /\ Matches(e) \in SUBSET Index
         /\ Matches(e) \in SUBSET InUse
         /\ e # unused_entry => \A i \in Index : i \in Matches(e) <=> readEvent(i) = e
         /\ \A i \in Matches(e) : readEvent(i) = e
<1>1. \A i \in Index : i \in Matches(e) <=> hash[i] = MakeHash(e) /\ readEvent(i) = e
  BY DEF Matches
<1>2. \A i \in Matches(e) : hash[i] # 0
  BY <1>1, HashIsByte DEF Matches
<1>3. ASSUME NEW i \in Index, readEvent(i) = e, e # unused_entry PROVE hash[i] = MakeHash(e)
  BY <1>3 DEF HashFollowsSlots, HashTable, HashEntry, readEvent
<1> QED
  BY <1>1, <1>2, <1>3 DEF Matches, InUse

LEMMA SpaceIsFree ==
  ASSUME TableTypeOK, IsEventIndexValid(findEventSpace)
  PROVE  findEventSpace \in Index \ InUse
BY FirstOfIs DEF findEventSpace

(* The sketch finds a number that is free as soon as there is a free slot: *)
(* of the numbers 1 to NumEvents one is in none of the other slots.        *)
LEMMA CreatedEventIsNew ==
  ASSUME TableTypeOK, HashFollowsSlots, NEW sw \in Switches,
         IsEventIndexValid(findEventSpace)
  PROVE  /\ CreateEventId(sw) \in EventId
         /\ CreateEventId(sw) \in {OwnEvent(en) : en \in Switches \cup 1 .. NumEvents + 1}
         /\ CreateEventId(sw) # unused_entry
         /\ Matches(CreateEventId(sw)) = {}
<1> DEFINE N == 1 .. NumEvents
           free == {en \in 1 .. NumEvents + 1 : Matches(OwnEvent(en)) = {}}
<1>1. \A en \in Byte : OwnEvent(en) \in EventId /\ OwnEvent(en) # unused_entry
                         /\ OwnEvent(en)[4] = en
  BY ServiceAssumption DEF OwnEvent, EventId, EE_HASH_BYTES, Byte, unused_entry
<1>2. N \subseteq Byte /\ sw \in Byte /\ NumEvents \in Nat
  BY TableAssumption, ServiceAssumption DEF Byte
<1>3. \E en \in N : Matches(OwnEvent(en)) = {}
  <2> SUFFICES ASSUME \A en \in N : Matches(OwnEvent(en)) # {} PROVE FALSE
    OBVIOUS
  <2> DEFINE others == Index \ {findEventSpace}
             f == [en \in N |-> CHOOSE i \in Matches(OwnEvent(en)) : TRUE]
  <2>1. findEventSpace \in Index /\ findEventSpace \notin InUse
    BY SpaceIsFree
  <2>2. \A en \in N : f[en] \in Matches(OwnEvent(en))
    OBVIOUS
  <2>3. \A en \in N : f[en] \in others /\ readEvent(f[en]) = OwnEvent(en)
    BY <1>1, <1>2, <2>1, <2>2, MatchesAre
  <2>4. f \in [N -> others]
    BY <2>3
  <2>5. /\ IsFiniteSet(Index) /\ Cardinality(Index) = NumEvents
        /\ IsFiniteSet(N) /\ Cardinality(N) = NumEvents
    BY <1>2, FS_Interval, TableAssumption DEF Index
  <2>6. IsFiniteSet(others) /\ Cardinality(others) = NumEvents - 1
    BY <2>1, <2>5, FS_RemoveElement
  <2>7. Cardinality(others) < Cardinality(N)
    BY <1>2, <2>5, <2>6
  <2> HIDE DEF f, others
  <2>8. PICK x, y \in N : x # y /\ f[x] = f[y]
    BY <2>4, <2>5, <2>6, <2>7, FS_PigeonHole, Zenon
  <2>9. OwnEvent(x) = OwnEvent(y)
    BY <2>3, <2>8
  <2> QED
    BY <1>1, <1>2, <2>8, <2>9
<1>4. free \in SUBSET Nat /\ free # {}
  BY <1>2, <1>3
<1>5. Min(free) \in free /\ \A en \in free : Min(free) <= en
  BY <1>4, MinIsIn
<1>6. Min(free) \in N
  BY <1>2, <1>3, <1>5
<1>7. CASE Matches(OwnEvent(sw)) = {}
  BY <1>1, <1>2, <1>7 DEF CreateEventId
<1>8. CASE Matches(OwnEvent(sw)) # {}
  <2>1. CreateEventId(sw) = OwnEvent(Min(free))
    BY <1>8 DEF CreateEventId
  <2> HIDE DEF free
  <2>2. Min(free) \in 1 .. NumEvents + 1
    BY <1>2, <1>6
  <2> QED
    BY <1>1, <1>2, <1>5, <1>6, <2>1, <2>2 DEF free
<1> QED
  BY <1>7, <1>8

-----------------------------------------------------------------------------
(* What a step does to the table: it keeps it, frees the slots of an       *)
(* event, clears all, teaches an event once more or in a free slot,        *)
(* creates one for a switch, teaches a slot, starts again, or is torn.     *)
LearnFlag == learn' \in {learn, TRUE, FALSE}

Same == UNCHANGED <<service, damaged>> /\ LearnFlag

(* A request for a list starts with what the table has.                    *)
NewTask ==
  {t \in Task : t.seq = 0 /\ (t.kind = "events" => t.due \subseteq KnownIn(store))}

QueueStep == UNCHANGED tasks \/ (\E t \in NewTask : Add(t)) \/ TimedStep

Keeps == UNCHANGED <<store, hash>> /\ Same /\ QueueStep

Unlearns(e) ==
  Change(Cleared(store, Matches(e)), Matches(e)) /\ Same

ClearsAll ==
  /\ store' = Cleared(store, Index) /\ hash' = [i \in Index |-> 0]
  /\ tasks' = StillDue(Cleared(store, Index))
  /\ damaged' = FALSE /\ UNCHANGED service /\ LearnFlag

LearnsAgain(i, e, n, v) ==
  /\ i \in Matches(e) /\ EventValidator(n, v)
  /\ Change(WithEV(store, i, n, v), {i}) /\ Same

LearnsNew(i, e, n, v) ==
  /\ i \in Index \ InUse /\ Matches(e) = {} /\ EventValidator(n, v)
  /\ Change(WithEV(WithEvent(store, i, e), i, n, v), {i}) /\ Same

Creates(i, e, sw) ==
  /\ i \in Index \ InUse /\ Matches(e) = {} /\ e # unused_entry
  /\ ~SwitchEventKnown(sw)
  /\ Change(WithEV(Created(store, i, e), i, 1, sw), {i}) /\ Same

TeachesSlot(st, S) ==
  /\ service = "bySlot" /\ st \in Slots
  /\ \A i \in Index \ S : EventAt(st, i) = EventAt(store, i)
  /\ Change(st, S) /\ Same

StartsAgain ==
  /\ hash' = HashTable(store') /\ tasks' = <<>>
  /\ UNCHANGED <<store, service, damaged>> /\ LearnFlag

IsTorn ==
  /\ store' \in Slots /\ hash' = HashTable(store') /\ tasks' = <<>>
  /\ damaged' = TRUE /\ UNCHANGED service /\ LearnFlag

Effect ==
  \/ Keeps
  \/ \E e \in EventId \ {unused_entry} : Unlearns(e)
  \/ ClearsAll
  \/ /\ service = "byEvent"
     /\ \E i \in Index, e \in EventId \ {unused_entry} :
          \/ \E n \in EvNum, v \in Values : LearnsAgain(i, e, n, v) \/ LearnsNew(i, e, n, v)
          \/ \E sw \in Switches : Creates(i, e, sw)
  \/ \E st, S : TeachesSlot(st, S)
  \/ StartsAgain
  \/ IsTorn

Table == TableTypeOK /\ HashFollowsSlots

LEMMA OnlyKeeps ==
  ASSUME NEW messages, Only(messages)
  PROVE  Effect /\ Keeps
BY DEF Only, Effect, Keeps, Same, LearnFlag, QueueStep, flags

LEMMA TaughtEvents ==
  /\ Taught \subseteq EventId \ {unused_entry, NoEvent}
  /\ Events \subseteq EventId \ {unused_entry}
  /\ NoEvent \in EventId
<1>1. \A sw \in Switches : OwnEvent(sw) \in EventId /\ OwnEvent(sw) # unused_entry
  BY ServiceAssumption DEF OwnEvent, EventId, EE_HASH_BYTES, Byte, unused_entry
<1>2. NoEvent \in EventId
  BY DEF NoEvent, EventId, EE_HASH_BYTES, Byte
<1> QED
  BY <1>1, <1>2, ServiceAssumption DEF Events

(* EVLRN goes to the slot of the event or else to a free one.              *)
LEMMA LearnSlotIs ==
  ASSUME Table, NEW e \in EventId, IsEventIndexValid(LearnSlot(e))
  PROVE  \/ /\ LearnSlot(e) \in Matches(e) /\ LearnSlot(e) \in Index
            /\ IsEventIndexValid(findExistingEvent(e))
         \/ /\ Matches(e) = {} /\ ~IsEventIndexValid(findExistingEvent(e))
            /\ LearnSlot(e) \in Index \ InUse
<1>1. Matches(e) \in SUBSET Index
  BY DEF Matches
<1>2. CASE Matches(e) # {}
  <2>1. findExistingEvent(e) \in Matches(e) /\ IsEventIndexValid(findExistingEvent(e))
    BY <1>1, <1>2, FirstOfIs DEF findExistingEvent
  <2> QED
    BY <1>1, <2>1 DEF LearnSlot
<1>3. CASE Matches(e) = {}
  <2>1. ~IsEventIndexValid(findExistingEvent(e))
    BY <1>3, FirstOfIs DEF findExistingEvent
  <2>2. LearnSlot(e) = findEventSpace
    BY <2>1 DEF LearnSlot
  <2> QED
    BY <1>3, <2>1, <2>2, SpaceIsFree DEF Table
<1> QED
  BY <1>2, <1>3

LEMMA LearnedType ==
  ASSUME Table, NEW e \in Taught, NEW n \in EvNum, NEW v \in Values, LearnValid(e, n, v)
  PROVE  Learned(LearnSlot(e), e, n, v) \in Slots
<1>1. /\ e \in EventId /\ v \in Byte /\ store \in Slots
      /\ LearnSlot(e) \in Index
  BY TaughtEvents, ServiceAssumption, LearnSlotIs DEF LearnValid, Table, TableTypeOK, Slots
<1>2. WithEvent(store, LearnSlot(e), e) \in Slots
  BY <1>1, EventWritten
<1> QED
  BY <1>1, <1>2, EVWritten DEF Learned

LEMMA EVLRN ==
  ASSUME Table, NEW e \in Taught, NEW n \in EvArg, NEW v \in Values,
         handleLearnEvent(e, n, v)
  PROVE  Effect
<1>1. CASE Only(Refused("INV_EV_IDX")) \/ Only(Refused("INV_EV_VALUE"))
             \/ Only(Refused("TOO_MANY_EVENTS"))
  BY <1>1, OnlyKeeps
<1>2. CASE /\ LearnValid(e, n, v)
           /\ Change(Learned(LearnSlot(e), e, n, v), {LearnSlot(e)})
           /\ UNCHANGED <<flags, damaged>>
  <2>1. Same /\ service = "byEvent" /\ n \in EvNum /\ EventValidator(n, v)
    BY <1>2 DEF Same, LearnFlag, flags, LearnValid
  <2>2. e \in EventId \ {unused_entry} /\ IsEventIndexValid(LearnSlot(e))
    BY <1>2, TaughtEvents DEF LearnValid
  <2>3. CASE /\ LearnSlot(e) \in Matches(e) /\ LearnSlot(e) \in Index
             /\ IsEventIndexValid(findExistingEvent(e))
    <3>1. LearnsAgain(LearnSlot(e), e, n, v)
      BY <1>2, <2>1, <2>3 DEF LearnsAgain, Learned
    <3> QED
      BY <2>1, <2>2, <2>3, <3>1 DEF Effect
  <2>4. CASE /\ Matches(e) = {} /\ ~IsEventIndexValid(findExistingEvent(e))
             /\ LearnSlot(e) \in Index \ InUse
    <3>1. LearnsNew(LearnSlot(e), e, n, v)
      BY <1>2, <2>1, <2>4 DEF LearnsNew, Learned
    <3> QED
      BY <2>1, <2>2, <2>4, <3>1 DEF Effect
  <2> QED
    BY <2>2, <2>3, <2>4, LearnSlotIs
<1> QED
  BY <1>1, <1>2 DEF handleLearnEvent

LEMMA SlotLearnedType ==
  ASSUME Table, NEW e \in Taught \cup {NoEvent}, NEW i \in Index, NEW n \in 0 .. NumEVs,
         NEW v \in Byte
  PROVE  SlotLearned(e, i, n, v) \in Slots
<1> DEFINE taught == IF e \in {NoEvent, readEvent(i)} THEN store
                     ELSE WithEvent(store, i, e)
<1>1. e \in EventId /\ store \in Slots /\ (n = 0 \/ n \in EvNum)
  BY Sizes, TaughtEvents DEF EvNum, Table, TableTypeOK, Slots
<1>2. Cleared(store, {i}) \in Slots
  BY <1>1, ClearedSlots
<1>3. taught \in Slots
  BY <1>1, EventWritten
<1> HIDE DEF taught
<1>4. n \in EvNum => WithEV(taught, i, n, v) \in Slots
  BY <1>3, EVWritten
<1> QED
  BY <1>1, <1>2, <1>3, <1>4 DEF SlotLearned, taught

LEMMA EVLRNI ==
  ASSUME Table, NEW e \in Taught \cup {NoEvent}, NEW i \in 0 .. NumEvents,
         NEW n \in EvArg, NEW v \in Byte, handleLearnEventIndex(e, i, n, v)
  PROVE  Effect
<1>1. CASE Only(<<GRSP("INV_EN_IDX")>>) \/ Only(Refused("INV_EV_IDX"))
  BY <1>1, OnlyKeeps
<1>2. CASE /\ SlotLearnValid(i, n)
           /\ Change(SlotLearned(e, i, n, v), SlotRehashed(e, i, n, v))
           /\ UNCHANGED <<flags, damaged>>
  <2> DEFINE st == SlotLearned(e, i, n, v)
             S  == SlotRehashed(e, i, n, v)
             taught == IF e \in {NoEvent, readEvent(i)} THEN store
                       ELSE WithEvent(store, i, e)
             forget == e = NoEvent /\ n = 0 /\ v = 0
  <2>1. /\ service = "bySlot" /\ i \in Index /\ (n = 0 \/ n \in EvNum)
        /\ e \in EventId /\ store \in Slots
    BY <1>2, Sizes, TaughtEvents
       DEF SlotLearnValid, IsEventIndexValid, Index, EvArg, EvNum, Table, TableTypeOK, Slots
  <2>2. CASE forget
    <3>1. st = Cleared(store, {i}) /\ S = {i}
      BY <2>2 DEF SlotLearned, SlotRehashed
    <3>2. /\ Cleared(store, {i}) \in Slots
          /\ \A j \in Index \ {i} : EventAt(Cleared(store, {i}), j) = EventAt(store, j)
      BY <2>1, ClearedSlots
    <3>3. TeachesSlot(st, S)
      BY <1>2, <2>1, <3>1, <3>2 DEF TeachesSlot, Same, LearnFlag, flags
    <3> QED
      BY <3>3 DEF Effect
  <2>3. CASE ~forget
    <3>1. st = IF n = 0 THEN taught ELSE WithEV(taught, i, n, v)
      BY <2>3 DEF SlotLearned
    <3>2. S = IF e \notin {NoEvent, readEvent(i)} THEN {i} ELSE {}
      BY <2>3 DEF SlotRehashed
    <3>3. taught \in Slots /\ \A j \in Index \ S : EventAt(taught, j) = EventAt(store, j)
      BY <2>1, <3>2, EventWritten
    <3> HIDE DEF taught, S
    <3>4. st \in Slots /\ \A j \in Index : EventAt(st, j) = EventAt(taught, j)
      BY <2>1, <3>1, <3>3, EVWritten
    <3>5. TeachesSlot(st, S)
      BY <1>2, <2>1, <3>3, <3>4 DEF TeachesSlot, Same, LearnFlag, flags, S
    <3> QED
      BY <3>5 DEF Effect
  <2> QED
    BY <2>2, <2>3
<1> QED
  BY <1>1, <1>2 DEF handleLearnEventIndex

LEMMA EVULN ==
  ASSUME NEW e \in Events, handleUnlearnEvent(e)
  PROVE  Effect
<1>1. CASE Only(Refused("INVALID_EVENT"))
  BY <1>1, OnlyKeeps
<1>2. CASE /\ Change(Cleared(store, Matches(e)), Matches(e))
           /\ UNCHANGED <<flags, damaged>>
  <2>1. Unlearns(e)
    BY <1>2 DEF Unlearns, Same, LearnFlag, flags
  <2> QED
    BY <2>1, TaughtEvents DEF Effect
<1> QED
  BY <1>1, <1>2 DEF handleUnlearnEvent

LEMMA NNCLR ==
  ASSUME handleClearEvents
  PROVE  Effect
<1>1. CASE Only(Refused("NOT_LRN"))
  BY <1>1, OnlyKeeps
<1>2. CASE ~Only(Refused("NOT_LRN"))
  BY <1>2 DEF handleClearEvents, Effect, ClearsAll, LearnFlag, flags
<1> QED
  BY <1>1, <1>2

(* Requests, events and answers do not touch the table.                    *)
LEMMA AskKeeps ==
  ASSUME Table, Ask
  PROVE  Keeps
<1>1. CASE handleRequestEventCount \/ handleGetFreeEventSlots
  BY <1>1, OnlyKeeps DEF handleRequestEventCount, handleGetFreeEventSlots
<1>2. CASE handleReadEvents
  <2> DEFINE due == IF service = "byEvent" THEN KnownIn(store) ELSE {}
  <2>1. KnownIn(store) \in SUBSET EventId
    BY EventAtType DEF KnownIn, Table, TableTypeOK, Slots
  <2>2. due \in SUBSET EventId /\ due \subseteq KnownIn(store)
    BY <2>1
  <2> HIDE DEF due
  <2>3. EventsTask(due) \in NewTask
    BY <2>2, Sizes DEF EventsTask, NewTask, Task
  <2>4. Add(EventsTask(due))
    BY <1>2 DEF handleReadEvents, due
  <2> QED
    BY <1>2, <2>3, <2>4 DEF handleReadEvents, Keeps, Same, LearnFlag, QueueStep, flags
<1>3. ASSUME NEW i \in 0 .. NumEvents, NEW n \in EvArg, handleReadEventVariable(i, n)
      PROVE  Keeps
  <2>1. ASSUME i \in InUse PROVE EventVarTask(i) \in NewTask
    BY <2>1, Sizes DEF EventVarTask, NewTask, Task, InUse
  <2> QED
    BY <1>3, <2>1, OnlyKeeps
       DEF handleReadEventVariable, Keeps, Same, LearnFlag, QueueStep, flags
<1>4. ASSUME NEW i \in 0 .. NumEvents, handleReadEventIndex(i)
      PROVE  Keeps
  BY <1>4, OnlyKeeps DEF handleReadEventIndex
<1>5. ASSUME NEW e \in Events, NEW n \in EvArg, handleRequestEventVariable(e, n)
      PROVE  Keeps
  <2> DEFINE j == findExistingEvent(e)
  <2>1. ASSUME IsEventIndexValid(j) PROVE EVTask(e, j) \in NewTask
    <3>1. j \in Index /\ e \in EventId
      BY <2>1, FirstOfIs, TaughtEvents DEF findExistingEvent, Matches
    <3> HIDE DEF j
    <3> QED
      BY <3>1, Sizes DEF EVTask, NewTask, Task
  <2> QED
    BY <1>5, <2>1, OnlyKeeps
       DEF handleRequestEventVariable, Keeps, Same, LearnFlag, QueueStep, flags
<1> QED
  BY <1>1, <1>2, <1>3, <1>4, <1>5 DEF Ask

LEMMA UseEffect ==
  ASSUME Table, Use
  PROVE  Effect
<1>1. ASSUME NEW e \in Events, NEW short \in BOOLEAN, NEW on \in BOOLEAN,
             handleConsumedMessage(e, short, on)
      PROVE  Effect
  BY <1>1, OnlyKeeps DEF handleConsumedMessage, processAccessoryEvent
<1>2. ASSUME NEW e \in Events, NEW short \in BOOLEAN, handleProdSvcMessage(e, short)
      PROVE  Effect
  BY <1>2, OnlyKeeps DEF handleProdSvcMessage
<1>3. ASSUME NEW e \in Taught, SendEvent(e)
      PROVE  Effect
  BY <1>3, OnlyKeeps DEF SendEvent
<1>4. ASSUME NEW sw \in Switches, processSwitches(sw)
      PROVE  Effect
  <2>1. CASE UseSwitchEvent(sw)
    BY <2>1, OnlyKeeps DEF UseSwitchEvent
  <2>2. CASE CreateSwitchEvent(sw)
    <3> DEFINE i == findEventSpace
               e == CreateEventId(sw)
    <3>1. /\ ~SwitchEventKnown(sw) /\ IsEventIndexValid(i) /\ Same
          /\ Change(WithEV(Created(store, i, e), i, 1, sw), {i})
      BY <2>2 DEF CreateSwitchEvent, CanCreate, SwitchEventCreated, Same, LearnFlag, flags
    <3>2. i \in Index \ InUse
      BY <3>1, SpaceIsFree DEF Table
    <3>3. e \in EventId \ {unused_entry} /\ Matches(e) = {}
      BY <3>1, CreatedEventIsNew DEF Table
    <3>4. Creates(i, e, sw)
      BY <3>1, <3>2, <3>3 DEF Creates
    <3>5. service = "byEvent"
      BY <1>4 DEF processSwitches
    <3> QED
      BY <3>2, <3>3, <3>4, <3>5 DEF Effect
  <2> QED
    BY <1>4, <2>1, <2>2 DEF processSwitches
<1>5. ASSUME NEW on \in BOOLEAN, SetEventAck(on)
      PROVE  Effect
  BY <1>5, OnlyKeeps DEF SetEventAck
<1> QED
  BY <1>1, <1>2, <1>3, <1>4, <1>5 DEF Use

LEMMA TeachEffect ==
  ASSUME Table, Teach
  PROVE  Effect
<1>1. ASSUME NEW on \in BOOLEAN, handleLearnMode(on) \/ handleLearn(on)
      PROVE  Effect
  BY <1>1 DEF handleLearnMode, handleLearn, Effect, Keeps, Same, LearnFlag, QueueStep
<1>2. CASE handleUnlearn \/ ShortMessage
  BY <1>2, OnlyKeeps DEF handleUnlearn, handleLearnMode, ShortMessage, Effect, Keeps, Same,
                               LearnFlag, QueueStep
<1>3. 0 \in EvArg /\ 0 \in Byte /\ Values \subseteq Byte
  BY Sizes, ServiceAssumption DEF EvArg, Byte
<1> QED
  BY <1>1, <1>2, <1>3, EVULN, NNCLR, EVLRN, EVLRNI DEF Teach

LEMMA TornEffect ==
  ASSUME Table, PowerFailsInWrite
  PROVE  IsTorn
<1>1. PICK new \in Writes, cut \in Cuts : store' = Torn(new, cut)
  BY DEF PowerFailsInWrite
<1>2. store \in Slots /\ cut \in Nat
  BY ServiceAssumption DEF Table, TableTypeOK, Slots
<1>3. new \in Slots
  <2>1. ASSUME NEW x \in Taught \X EvNum \X Values, LearnValid(x[1], x[2], x[3])
        PROVE  Learned(LearnSlot(x[1]), x[1], x[2], x[3]) \in Slots
    <3>1. x[1] \in Taught /\ x[2] \in EvNum /\ x[3] \in Values
      OBVIOUS
    <3> QED
      BY <2>1, <3>1, LearnedType
  <2>2. ASSUME NEW x \in (Taught \cup {NoEvent}) \X Index \X (0 .. NumEVs) \X Values
        PROVE  SlotLearned(x[1], x[2], x[3], x[4]) \in Slots
    <3>1. /\ x[1] \in Taught \cup {NoEvent} /\ x[2] \in Index
          /\ x[3] \in 0 .. NumEVs /\ x[4] \in Byte
      BY ServiceAssumption
    <3> QED
      BY <3>1, SlotLearnedType
  <2>3. ASSUME NEW S \in SUBSET Index
        PROVE  Cleared(store, S) \in Slots
    BY <1>2, ClearedSlots
  <2>4. ASSUME NEW sw \in Switches, CanCreate(sw)
        PROVE  /\ Created(store, findEventSpace, CreateEventId(sw)) \in Slots
               /\ SwitchEventCreated(sw) \in Slots
    <3> DEFINE i == findEventSpace
               e == CreateEventId(sw)
    <3>1. i \in Index
      BY <2>4, SpaceIsFree DEF CanCreate, Table
    <3>2. e \in EventId
      BY <2>4, CreatedEventIsNew DEF CanCreate, Table
    <3>3. 1 \in EvNum /\ sw \in Byte
      BY Sizes, ServiceAssumption DEF EvNum
    <3> HIDE DEF i, e
    <3>4. Created(store, i, e) \in Slots
      BY <1>2, <3>1, <3>2, EventCreated
    <3>5. WithEV(Created(store, i, e), i, 1, sw) \in Slots
      BY <3>1, <3>3, <3>4, EVWritten
    <3> QED
      BY <3>4, <3>5 DEF SwitchEventCreated, i, e
  <2>5. /\ Index \in SUBSET Index
        /\ \A e \in Taught : Matches(e) \in SUBSET Index
        /\ \A i \in Index : {i} \in SUBSET Index
    BY DEF Matches
  <2> QED
    BY <2>1, <2>2, <2>3, <2>4, <2>5 DEF Writes
<1>4. Torn(new, cut) \in Slots
  BY <1>2, <1>3, TornSlots
<1> QED
  BY <1>1, <1>4 DEF PowerFailsInWrite, Start, IsTorn, LearnFlag, HashTable

LEMMA StepEffect ==
  ASSUME Table, [Next]_vars
  PROVE  Effect
<1>1. CASE TimedStep
  BY <1>1 DEF TimedStep, Effect, Keeps, Same, LearnFlag, QueueStep, flags
<1>2. CASE Restart
  BY <1>2 DEF Restart, Start, Effect, StartsAgain, LearnFlag, HashTable
<1>3. CASE UNCHANGED vars
  BY <1>3 DEF vars, flags, Effect, Keeps, Same, LearnFlag, QueueStep
<1> QED
  BY <1>1, <1>2, <1>3, TeachEffect, AskKeeps, UseEffect, TornEffect DEF Next, Effect

-----------------------------------------------------------------------------
(* The hash table.                                                         *)

LEMMA ChangeKeepsTable ==
  ASSUME Table, NEW st \in Slots, NEW S, Change(st, S),
         \A i \in Index \ S : EventAt(st, i) = EventAt(store, i)
  PROVE  Table'
<1>1. \A i \in Index : hash'[i] = HashEntry(st, i)
  <2>1. \A i \in Index \ S : HashEntry(st, i) = HashEntry(store, i)
    BY DEF HashEntry
  <2>2. \A i \in Index : hash[i] = HashEntry(store, i)
    BY DEF Table, HashFollowsSlots, HashTable
  <2> QED
    BY <2>1, <2>2 DEF Change, Rehashed
<1>2. hash' = HashTable(st)
  BY <1>1 DEF Change, Rehashed, HashTable
<1>3. hash' \in [Index -> Byte]
  BY <1>2, HashEntryIsByte DEF HashTable
<1> QED
  BY <1>2, <1>3 DEF Change, Table, TableTypeOK, HashFollowsSlots, Slots

(* The slots that each effect writes.                                      *)
LEMMA Written ==
  ASSUME Table, NEW i \in Index, NEW e \in EventId, NEW n \in EvNum, NEW v \in Byte
  PROVE  /\ WithEV(store, i, n, v) \in Slots
         /\ WithEV(WithEvent(store, i, e), i, n, v) \in Slots
         /\ WithEV(Created(store, i, e), i, n, v) \in Slots
         /\ \A j \in Index : EventAt(WithEV(store, i, n, v), j) = EventAt(store, j)
         /\ EventAt(WithEV(WithEvent(store, i, e), i, n, v), i) = e
         /\ EventAt(WithEV(Created(store, i, e), i, n, v), i) = e
         /\ \A j \in Index \ {i} :
              /\ WithEV(store, i, n, v)[j] = store[j]
              /\ WithEV(WithEvent(store, i, e), i, n, v)[j] = store[j]
              /\ WithEV(Created(store, i, e), i, n, v)[j] = store[j]
<1>1. store \in Slots
  BY DEF Table, TableTypeOK, Slots
<1>2. WithEvent(store, i, e) \in Slots /\ Created(store, i, e) \in Slots
  BY <1>1, EventWritten, EventCreated
<1>3. /\ EventAt(WithEvent(store, i, e), i) = e
      /\ \A j \in Index \ {i} : WithEvent(store, i, e)[j] = store[j]
  BY <1>1, EventWritten
<1>4. /\ EventAt(Created(store, i, e), i) = e
      /\ \A j \in Index \ {i} : Created(store, i, e)[j] = store[j]
  BY <1>1, EventCreated
<1>5. \A st \in Slots :
        /\ WithEV(st, i, n, v) \in Slots
        /\ \A j \in Index : EventAt(WithEV(st, i, n, v), j) = EventAt(st, j)
        /\ \A j \in Index \ {i} : WithEV(st, i, n, v)[j] = st[j]
  BY EVWritten
<1> QED
  BY <1>1, <1>2, <1>3, <1>4, <1>5

LEMMA SameElsewhere ==
  ASSUME NEW st, NEW i, \A j \in Index \ {i} : st[j] = store[j]
  PROVE  \A j \in Index \ {i} : EventAt(st, j) = EventAt(store, j)
BY DEF EventAt

LEMMA OneIsEV ==
  1 \in EvNum /\ Values \subseteq Byte /\ Switches \subseteq Byte
BY Sizes, ServiceAssumption DEF EvNum

LEMMA TableNext ==
  ASSUME Table, Effect
  PROVE  Table'
<1>1. store \in Slots
  BY DEF Table, TableTypeOK, Slots
<1>2. CASE Keeps
  BY <1>2 DEF Keeps, Table, TableTypeOK, HashFollowsSlots
<1>3. ASSUME NEW e \in EventId, Unlearns(e) PROVE Table'
  <2>1. Matches(e) \in SUBSET Index
    BY DEF Matches
  <2> QED
    BY <1>1, <1>3, <2>1, ClearedSlots, ChangeKeepsTable DEF Unlearns
<1>4. CASE ClearsAll
  <2>1. /\ store' \in Slots /\ \A i \in Index : EventAt(store', i) = unused_entry
    BY <1>1, <1>4, ClearedSlots DEF ClearsAll
  <2>2. hash' = [i \in Index |-> 0] /\ hash' \in [Index -> Byte]
    BY <1>4 DEF ClearsAll, Byte
  <2>3. hash' = HashTable(store')
    BY <2>1, <2>2 DEF HashTable, HashEntry
  <2> QED
    BY <2>1, <2>2, <2>3 DEF Table, TableTypeOK, HashFollowsSlots, Slots
<1>5. ASSUME NEW i \in Index, NEW e \in EventId, NEW n \in EvNum, NEW v \in Byte,
             NEW st \in {WithEV(store, i, n, v), WithEV(WithEvent(store, i, e), i, n, v),
                         WithEV(Created(store, i, e), i, n, v)},
             Change(st, {i})
      PROVE  Table'
  <2>1. st \in Slots /\ \A j \in Index \ {i} : st[j] = store[j]
    BY Written
  <2>2. \A j \in Index \ {i} : EventAt(st, j) = EventAt(store, j)
    BY <2>1 DEF EventAt
  <2> QED
    BY <1>5, <2>1, <2>2, ChangeKeepsTable
<1>6. ASSUME NEW i \in Index, NEW e \in EventId, NEW n \in EvNum, NEW v \in Values,
             LearnsAgain(i, e, n, v) \/ LearnsNew(i, e, n, v)
      PROVE  Table'
  <2>1. v \in Byte
    BY OneIsEV
  <2> QED
    BY <1>5, <1>6, <2>1, Zenon DEF LearnsAgain, LearnsNew
<1>7. ASSUME NEW i \in Index, NEW e \in EventId, NEW sw \in Switches, Creates(i, e, sw)
      PROVE  Table'
  <2>1. 1 \in EvNum /\ sw \in Byte
    BY OneIsEV
  <2> QED
    BY <1>5, <1>7, <2>1, Zenon DEF Creates
<1>8. ASSUME NEW st, NEW S, TeachesSlot(st, S) PROVE Table'
  BY <1>8, ChangeKeepsTable DEF TeachesSlot
<1>9. CASE StartsAgain \/ IsTorn
  <2>1. store' \in Slots /\ hash' = HashTable(store')
    BY <1>1, <1>9 DEF StartsAgain, IsTorn
  <2>2. hash' \in [Index -> Byte]
    BY <2>1, HashEntryIsByte DEF HashTable
  <2> QED
    BY <2>1, <2>2 DEF Table, TableTypeOK, HashFollowsSlots, Slots
<1> QED
  BY <1>2, <1>3, <1>4, <1>6, <1>7, <1>8, <1>9 DEF Effect

LEMMA TableInit ==
  ASSUME Init
  PROVE  Table
<1>1. store \in Slots /\ \A i \in Index : EventAt(store, i) = unused_entry
  BY Sizes DEF Init, Slots, Byte, EventAt, unused_entry
<1>2. hash = [i \in Index |-> 0] /\ hash \in [Index -> Byte]
  BY DEF Init, Byte
<1>3. hash = HashTable(store)
  BY <1>1, <1>2 DEF HashTable, HashEntry
<1> QED
  BY <1>1, <1>2, <1>3 DEF Table, TableTypeOK, HashFollowsSlots, Slots

LEMMA TableAlways == Spec => []Table
<1>1. Init => Table
  BY TableInit
<1>2. Table /\ [Next]_vars => Table'
  BY StepEffect, TableNext
<1> QED
  BY <1>1, <1>2, PTL DEF Spec

(* The hash table in RAM agrees with the slots in storage after every way  *)
(* of teaching, after every restart, and wherever power fails in a write   *)
(* (Configuration.cpp:303).                                                *)
THEOREM HashIsRight == Spec => []HashFollowsSlots
BY TableAlways, PTL DEF Table

-----------------------------------------------------------------------------
(* Teaching by event.                                                      *)

EV1(st, i) == st[i][EVCell(1)]

(* The three invariants about the events of a table that no torn write has *)
(* damaged, in terms of the slots st alone.                                *)
Distinct(st) ==
  \A i, j \in Index :
    EventAt(st, i) # unused_entry /\ EventAt(st, i) = EventAt(st, j) => i = j

Blank(st) ==
  \A i \in Index : EventAt(st, i) = unused_entry => \A c \in Cell : st[i][c] = 255

OnePerSwitch(st) ==
  \A sw \in Switches : \A i, j \in Index :
    /\ EventAt(st, i) # unused_entry /\ EventAt(st, j) # unused_entry
    /\ EV1(st, i) = sw /\ EV1(st, j) = sw
    => i = j

Tidy(st) == Distinct(st) /\ Blank(st) /\ OnePerSwitch(st)

TidyTable == ByEvent => Tidy(store)

(* A table of which some slots are freed stays tidy.                       *)
LEMMA ClearedIsTidy ==
  ASSUME NEW st \in Slots, Tidy(st), NEW S \in SUBSET Index
  PROVE  Tidy(Cleared(st, S))
<1> DEFINE new == Cleared(st, S)
<1>1. /\ \A i \in S : EventAt(new, i) = unused_entry
      /\ \A i \in S : \A c \in Cell : new[i][c] = 255
      /\ \A i \in Index \ S : new[i] = st[i] /\ EventAt(new, i) = EventAt(st, i)
  BY ClearedSlots
<1> HIDE DEF new
<1>2. Distinct(new)
  BY <1>1 DEF Tidy, Distinct
<1>3. Blank(new)
  BY <1>1 DEF Tidy, Blank
<1>4. OnePerSwitch(new)
  BY <1>1 DEF Tidy, OnePerSwitch, EV1
<1> QED
  BY <1>2, <1>3, <1>4 DEF Tidy, new

LEMMA AllClearedIsTidy ==
  ASSUME NEW st \in Slots
  PROVE  Tidy(Cleared(st, Index))
BY ClearedSlots DEF Tidy, Distinct, Blank, OnePerSwitch

(* One slot i of a tidy table is written, with an event that is in no      *)
(* other slot and a first variable that no other slot has.                 *)
LEMMA SlotWrittenIsTidy ==
  ASSUME NEW st \in Slots, Tidy(st), NEW new \in Slots, NEW i \in Index,
         \A j \in Index \ {i} : new[j] = st[j],
         EventAt(new, i) # unused_entry,
         \A j \in Index \ {i} : EventAt(st, j) # EventAt(new, i),
         \/ EV1(new, i) \notin Switches
         \/ \A j \in Index \ {i} : EventAt(st, j) # unused_entry => EV1(st, j) # EV1(new, i)
  PROVE  Tidy(new)
<1>1. \A j \in Index \ {i} : EventAt(new, j) = EventAt(st, j) /\ EV1(new, j) = EV1(st, j)
  BY DEF EventAt, EV1
<1>2. Distinct(new)
  BY <1>1 DEF Tidy, Distinct
<1>3. Blank(new)
  BY <1>1 DEF Tidy, Blank
<1>4. OnePerSwitch(new)
  BY <1>1 DEF Tidy, OnePerSwitch
<1> QED
  BY <1>2, <1>3, <1>4 DEF Tidy

(* The validator of the sketch refuses a switch that a slot has already.   *)
LEMMA NoSlotHas ==
  ASSUME Table, NEW v, ~IsEventIndexValid(findExistingEventByEv(1, v))
  PROVE  \A j \in Index : readEvent(j) # unused_entry => EV1(store, j) # v
<1> DEFINE S == {j \in InUse : getEventEVval(j, 1) = v}
<1>1. S \in SUBSET Index
  BY DEF InUse
<1>2. S = {}
  BY <1>1, FirstOfIs DEF findExistingEventByEv
<1> QED
  BY <1>2, InUseAre DEF Table, getEventEVval, EV1

LEMMA TidyNext ==
  ASSUME Table, TidyTable, Effect
  PROVE  TidyTable'
<1>1. store \in Slots
  BY DEF Table, TableTypeOK, Slots
<1>2. CASE Keeps \/ StartsAgain
  BY <1>2 DEF Keeps, Same, StartsAgain, TidyTable, ByEvent
<1>3. ASSUME NEW e \in EventId, Unlearns(e) PROVE TidyTable'
  <2>1. Matches(e) \in SUBSET Index
    BY DEF Matches
  <2>2. store' = Cleared(store, Matches(e)) /\ ByEvent' = ByEvent
    BY <1>3 DEF Unlearns, Change, Same, ByEvent
  <2> QED
    BY <1>1, <2>1, <2>2, ClearedIsTidy DEF TidyTable
<1>4. CASE ClearsAll
  BY <1>1, <1>4, AllClearedIsTidy DEF ClearsAll, TidyTable
<1>5. ASSUME NEW i \in Index, NEW e \in EventId, e # unused_entry, NEW n \in EvNum,
             NEW v \in Values, LearnsAgain(i, e, n, v), Tidy(store)
      PROVE  Tidy(store')
  <2> DEFINE new == WithEV(store, i, n, v)
  <2>1. v \in Byte /\ 1 \in EvNum
    BY OneIsEV
  <2>2. /\ new \in Slots /\ \A j \in Index \ {i} : new[j] = store[j]
        /\ \A j \in Index : EventAt(new, j) = EventAt(store, j)
        /\ new[i][EVCell(n)] = v
        /\ n # 1 => EV1(new, i) = EV1(store, i)
    BY <1>1, <2>1, EVWritten DEF EV1
  <2>3. i \in Matches(e) /\ store' = new /\ EventValidator(n, v)
    BY <1>5 DEF LearnsAgain, Change
  <2> HIDE DEF new
  <2>4. EventAt(store, i) = e
    BY <2>3 DEF Matches, readEvent
  <2>5. \A j \in Index \ {i} : EventAt(store, j) # EventAt(new, i)
    BY <1>5, <2>2, <2>4 DEF Tidy, Distinct
  <2>6. \/ EV1(new, i) \notin Switches
        \/ \A j \in Index \ {i} :
             EventAt(store, j) # unused_entry => EV1(store, j) # EV1(new, i)
    <3>1. CASE n = 1
      BY <2>2, <2>3, <3>1, NoSlotHas DEF EventValidator, EV1, readEvent
    <3>2. CASE n # 1
      BY <1>5, <2>2, <2>4, <3>2 DEF Tidy, OnePerSwitch
    <3> QED
      BY <3>1, <3>2
  <2> QED
    BY <1>1, <1>5, <2>2, <2>3, <2>4, <2>5, <2>6, SlotWrittenIsTidy
<1>6. ASSUME NEW i \in Index, NEW e \in EventId, e # unused_entry, NEW n \in EvNum,
             NEW v \in Values, LearnsNew(i, e, n, v), Tidy(store)
      PROVE  Tidy(store')
  <2> DEFINE mid == WithEvent(store, i, e)
             new == WithEV(mid, i, n, v)
  <2>1. v \in Byte /\ 1 \in EvNum
    BY OneIsEV
  <2>2. mid \in Slots /\ EV1(mid, i) = EV1(store, i)
    BY <1>1, <2>1, EventWritten DEF EV1
  <2>3. /\ new \in Slots /\ \A j \in Index \ {i} : new[j] = store[j]
        /\ EventAt(new, i) = e
    BY <2>1, Written
  <2>4. new[i][EVCell(n)] = v /\ (n # 1 => EV1(new, i) = EV1(store, i))
    BY <2>1, <2>2, EVWritten DEF EV1
  <2>5. /\ i \in Index \ InUse /\ Matches(e) = {}
        /\ store' = new /\ EventValidator(n, v)
    BY <1>6 DEF LearnsNew, Change
  <2> HIDE DEF mid, new
  <2>6. \A j \in Index : EventAt(store, j) # e
    BY <1>6, <2>5, MatchesAre DEF Table, readEvent
  <2>7. \/ EV1(new, i) \notin Switches
        \/ \A j \in Index \ {i} :
             EventAt(store, j) # unused_entry => EV1(store, j) # EV1(new, i)
    <3>1. CASE n = 1
      BY <2>4, <2>5, <3>1, NoSlotHas DEF EventValidator, EV1, readEvent
    <3>2. CASE n # 1
      <4>1. EventAt(store, i) = unused_entry
        BY <2>5, InUseAre DEF Table, readEvent
      <4>2. EV1(store, i) = 255
        BY <1>6, <2>1, <4>1, Sizes DEF Tidy, Blank, EV1
      <4> QED
        BY <2>4, <3>2, <4>2, ServiceAssumption
    <3> QED
      BY <3>1, <3>2
  <2> QED
    BY <1>1, <1>6, <2>3, <2>5, <2>6, <2>7, SlotWrittenIsTidy
<1>7. ASSUME NEW i \in Index, NEW e \in EventId, NEW sw \in Switches, Creates(i, e, sw),
             Tidy(store)
      PROVE  Tidy(store')
  <2> DEFINE mid == Created(store, i, e)
             new == WithEV(mid, i, 1, sw)
  <2>1. sw \in Byte /\ 1 \in EvNum
    BY OneIsEV
  <2>2. mid \in Slots
    BY <1>1, EventCreated
  <2>3. /\ new \in Slots /\ \A j \in Index \ {i} : new[j] = store[j]
        /\ EventAt(new, i) = e
    BY <2>1, Written
  <2>4. EV1(new, i) = sw
    BY <2>1, <2>2, EVWritten DEF EV1
  <2>5. /\ Matches(e) = {} /\ e # unused_entry
        /\ store' = new /\ ~SwitchEventKnown(sw)
    BY <1>7 DEF Creates, Change
  <2> HIDE DEF mid, new
  <2>6. \A j \in Index : EventAt(store, j) # e
    BY <2>5, MatchesAre DEF Table, readEvent
  <2>7. \A j \in Index : EventAt(store, j) # unused_entry => EV1(store, j) # sw
    BY <2>5, NoSlotHas DEF SwitchEventKnown, readEvent
  <2> QED
    BY <1>1, <1>7, <2>3, <2>4, <2>5, <2>6, <2>7, SlotWrittenIsTidy
<1>8. ASSUME NEW st, NEW S, TeachesSlot(st, S) PROVE TidyTable'
  BY <1>8 DEF TeachesSlot, Same, TidyTable, ByEvent
<1>9. CASE IsTorn
  BY <1>9 DEF IsTorn, TidyTable, ByEvent
<1>10. \A i \in Index : \A e \in EventId \ {unused_entry} :
         /\ \A n \in EvNum : \A v \in Values :
              LearnsAgain(i, e, n, v) \/ LearnsNew(i, e, n, v) => TidyTable'
         /\ \A sw \in Switches : Creates(i, e, sw) => TidyTable'
  <2> TAKE i \in Index
  <2> TAKE e \in EventId \ {unused_entry}
  <2>1. ASSUME Same, Tidy(store) => Tidy(store')
        PROVE  TidyTable'
    BY <2>1 DEF Same, TidyTable, ByEvent
  <2>2. \A n \in EvNum : \A v \in Values :
          LearnsAgain(i, e, n, v) \/ LearnsNew(i, e, n, v) => TidyTable'
    BY <1>5, <1>6, <2>1 DEF LearnsAgain, LearnsNew
  <2>3. \A sw \in Switches : Creates(i, e, sw) => TidyTable'
    BY <1>7, <2>1 DEF Creates
  <2> QED
    BY <2>2, <2>3
<1> QED
  BY <1>2, <1>3, <1>4, <1>8, <1>9, <1>10, Zenon DEF Effect

LEMMA TidyInit ==
  ASSUME Init
  PROVE  TidyTable
<1>1. \A i \in Index : EventAt(store, i) = unused_entry
  BY Sizes DEF Init, EventAt, unused_entry
<1> QED
  BY <1>1 DEF Init, TidyTable, Tidy, Distinct, Blank, OnePerSwitch

LEMMA TidyAlways == Spec => [](Table /\ TidyTable)
<1>1. Init => Table /\ TidyTable
  BY TableInit, TidyInit
<1>2. Table /\ TidyTable /\ [Next]_vars => (Table /\ TidyTable)'
  BY StepEffect, TableNext, TidyNext
<1> QED
  BY <1>1, <1>2, PTL DEF Spec

(* No event is ever stored twice by EVLRN or by the sketch, for any number *)
(* of slots (EventTeachingService.cpp, VLCB_SerialGC_4in4out.ino).         *)
THEOREM EventsAreDistinct == Spec => []NoDuplicates
<1>1. Table /\ TidyTable => NoDuplicates
  BY InUseAre DEF Table, TidyTable, Tidy, Distinct, NoDuplicates, readEvent
<1> QED
  BY <1>1, TidyAlways, PTL

(* A new event never inherits a variable from the event that had its slot  *)
(* before (Configuration.cpp, cleareventEEPROM).                           *)
THEOREM NothingInherited == Spec => []FreeSlotsAreBlank
<1>1. Table /\ TidyTable => FreeSlotsAreBlank
  BY InUseAre DEF Table, TidyTable, Tidy, Blank, FreeSlotsAreBlank, readEvent
<1> QED
  BY <1>1, TidyAlways, PTL

(* Two events are never taught for one switch of the sketch while no write *)
(* is torn (VLCB_SerialGC_4in4out.ino:219).                                *)
THEOREM SwitchHasOneEvent == Spec => []OneEventPerSwitchUndamaged
<1>1. Table /\ TidyTable => OneEventPerSwitchUndamaged
  BY InUseAre
     DEF Table, TidyTable, ByEvent, Tidy, OnePerSwitch, OneEventPerSwitchUndamaged,
         OneEventPerSwitch, readEvent, getEventEVval, EV1
<1> QED
  BY <1>1, TidyAlways, PTL

-----------------------------------------------------------------------------
(* Timed responses.                                                        *)

(* The tasks that may be in the queue while the slots are st: an answer to *)
(* NERD has every event that is due in a slot that it has yet to reach.    *)
Ahead(st, t) ==
  service = "byEvent" /\ t.kind = "events" =>
    \A e \in t.due : \E i \in Index : i >= t.seq /\ EventAt(st, i) = e

Sound(st) == {t \in Task : Ahead(st, t)}

Queue(st) == tasks \in Seq(Sound(st)) /\ Len(tasks) <= TaskCapacity

LEMMA AddKeepsQueue ==
  ASSUME Queue(store), NEW t \in Sound(store), Add(t)
  PROVE  tasks' \in Seq(Sound(store)) /\ Len(tasks') <= TaskCapacity
<1> DEFINE S == Sound(store)
           kept == IF Len(tasks) = TaskCapacity THEN Tail(tasks) ELSE tasks
<1>1. TaskCapacity \in Nat \ {0} /\ tasks \in Seq(S) /\ Len(tasks) \in Nat
  BY ServiceAssumption, LenProperties DEF Queue
<1>2. kept \in Seq(S) /\ Len(kept) < TaskCapacity /\ Len(kept) \in Nat
  <2>1. CASE Len(tasks) = TaskCapacity
    <3>1. tasks # <<>>
      BY <1>1, <2>1, EmptySeq
    <3>2. Tail(tasks) \in Seq(S) /\ Len(Tail(tasks)) = Len(tasks) - 1
      BY <1>1, <3>1, HeadTailProperties, Zenon
    <3> QED
      BY <1>1, <2>1, <3>2
  <2>2. CASE Len(tasks) # TaskCapacity
    BY <1>1, <2>2 DEF Queue
  <2> QED
    BY <2>1, <2>2
<1>3. tasks' = Append(kept, t)
  BY DEF Add
<1> HIDE DEF kept, S
<1>4. Append(kept, t) \in Seq(S) /\ Len(Append(kept, t)) = Len(kept) + 1
  BY <1>2, AppendProperties, Zenon DEF S
<1> QED
  BY <1>1, <1>2, <1>3, <1>4 DEF S

(* A piece of an answer is sent: what is not reported yet is further on.   *)
LEMMA ProgressIsSound ==
  ASSUME NEW t \in Sound(store), t.seq < Steps(t)
  PROVE  Progress(t) \in Sound(store)
<1>1. t \in Task
  BY DEF Sound
<1>2. CASE t.kind = "events"
  <2>1. t \in [kind : {"events"}, seq : 0 .. NumEvents, due : SUBSET EventId]
    BY <1>1, <1>2 DEF Task
  <2>2. t.seq + 1 \in 0 .. NumEvents
    BY <2>1, <1>2, Sizes DEF Steps
  <2>3. Progress(t) = [kind |-> "events", seq |-> t.seq + 1,
                       due |-> t.due \ {readEvent(t.seq)}]
    BY <1>2, <2>1 DEF Progress
  <2>4. Progress(t) \in Task
    BY <2>1, <2>2, <2>3 DEF Task
  <2>5. Ahead(store, Progress(t))
    <3> SUFFICES ASSUME service = "byEvent", NEW e \in t.due \ {readEvent(t.seq)}
                 PROVE  \E i \in Index : i >= t.seq + 1 /\ EventAt(store, i) = e
      BY <2>3 DEF Ahead
    <3>1. PICK i \in Index : i >= t.seq /\ EventAt(store, i) = e
      BY <1>2 DEF Sound, Ahead
    <3>2. i # t.seq
      BY <3>1 DEF readEvent
    <3>3. i \in Nat /\ t.seq \in Nat
      BY <2>1, Sizes
    <3> QED
      BY <3>1, <3>2, <3>3
  <2> QED
    BY <2>4, <2>5 DEF Sound
<1>3. CASE t.kind # "events"
  <2>1. Progress(t) = [t EXCEPT !.seq = t.seq + 1]
    BY <1>3 DEF Progress
  <2>2. CASE t \in [kind : {"eventVar"}, seq : 0 .. NumEVs, slot : Index]
    <3>1. t.seq + 1 \in 0 .. NumEVs
      BY <1>3, <2>2, Sizes DEF Steps
    <3>2. Progress(t) \in Task /\ Progress(t).kind = t.kind
      BY <2>1, <2>2, <3>1 DEF Task
    <3> QED
      BY <1>3, <3>2 DEF Sound, Ahead
  <2>3. CASE t \in [kind : {"ev"}, seq : 0 .. NumEVs, event : EventId, slot : Index]
    <3>1. t.seq + 1 \in 0 .. NumEVs
      BY <1>3, <2>3, Sizes DEF Steps
    <3>2. Progress(t) \in Task /\ Progress(t).kind = t.kind
      BY <2>1, <2>3, <3>1 DEF Task
    <3> QED
      BY <1>3, <3>2 DEF Sound, Ahead
  <2> QED
    BY <1>1, <1>3, <2>2, <2>3 DEF Task
<1> QED
  BY <1>2, <1>3

LEMMA TimedKeepsQueue ==
  ASSUME Queue(store), TimedStep
  PROVE  tasks' \in Seq(Sound(store)) /\ Len(tasks') <= TaskCapacity
<1> DEFINE S == Sound(store)
<1>1. /\ TaskCapacity \in Nat \ {0} /\ tasks \in Seq(S) /\ Len(tasks) \in Nat
      /\ tasks # <<>> /\ Len(tasks) <= TaskCapacity
  BY ServiceAssumption, LenProperties DEF Queue, TimedStep
<1>2. /\ Head(tasks) \in S /\ Tail(tasks) \in Seq(S) /\ Len(Tail(tasks)) = Len(tasks) - 1
  BY <1>1, HeadTailProperties, Zenon
<1>3. 1 \in 1 .. Len(tasks)
  BY <1>1, EmptySeq
<1>4. CASE Head(tasks).seq < Steps(Head(tasks))
            /\ tasks' = [tasks EXCEPT ![1] = Progress(Head(tasks))]
  <2>1. Progress(Head(tasks)) \in S
    BY <1>2, <1>4, ProgressIsSound
  <2> HIDE DEF S
  <2>2. \A e \in S : /\ [tasks EXCEPT ![1] = e] \in Seq(S)
                     /\ Len([tasks EXCEPT ![1] = e]) = Len(tasks)
    BY <1>1, <1>3, ExceptSeq
  <2>3. tasks' \in Seq(S) /\ Len(tasks') = Len(tasks)
    BY <1>4, <2>1, <2>2, Zenon
  <2> QED
    BY <1>1, <2>3 DEF S
<1>5. CASE tasks' = Tail(tasks)
  BY <1>1, <1>2, <1>5
<1> QED
  BY <1>4, <1>5 DEF TimedStep

(* The slots become st, and each event in st that was in a slot before is  *)
(* in a slot no nearer to the start.                                       *)
LEMMA StillDueIsSound ==
  ASSUME Queue(store), NEW st,
         service = "byEvent" =>
           \A i \in Index : EventAt(store, i) \in KnownIn(st) =>
             EventAt(st, i) = EventAt(store, i)
  PROVE  StillDue(st) \in Seq(Sound(st)) /\ Len(StillDue(st)) = Len(tasks)
<1> DEFINE n == Len(tasks)
           new(k) == IF tasks[k].kind # "events" THEN tasks[k]
                     ELSE [tasks[k] EXCEPT !.due = @ \cap KnownIn(st)]
<1>1. n \in Nat /\ DOMAIN tasks = 1 .. n
  BY LenProperties DEF Queue
<1>2. ASSUME NEW k \in 1 .. n PROVE new(k) \in Sound(st)
  <2>1. tasks[k] \in Task /\ Ahead(store, tasks[k])
    BY ElementOfSeq DEF Queue, Sound
  <2>2. CASE tasks[k].kind # "events"
    BY <2>1, <2>2 DEF Sound, Ahead
  <2>3. CASE tasks[k].kind = "events"
    <3> DEFINE t == tasks[k]
    <3>1. t \in [kind : {"events"}, seq : 0 .. NumEvents, due : SUBSET EventId]
      BY <2>1, <2>3 DEF Task
    <3>2. new(k) = [kind |-> "events", seq |-> t.seq, due |-> t.due \cap KnownIn(st)]
      BY <2>3, <3>1
    <3>3. new(k) \in Task
      BY <3>1, <3>2 DEF Task
    <3>4. Ahead(st, new(k))
      <4> SUFFICES ASSUME service = "byEvent", NEW e \in t.due, e \in KnownIn(st)
                   PROVE  \E i \in Index : i >= t.seq /\ EventAt(st, i) = e
        BY <3>2 DEF Ahead
      <4>1. PICK i \in Index : i >= t.seq /\ EventAt(store, i) = e
        BY <2>1, <2>3 DEF Ahead
      <4> QED
        BY <4>1
    <3> QED
      BY <3>3, <3>4 DEF Sound
  <2> QED
    BY <2>2, <2>3
<1>3. StillDue(st) = [k \in 1 .. n |-> new(k)]
  BY <1>1 DEF StillDue
<1> HIDE DEF new
<1>4. [k \in 1 .. n |-> new(k)] \in Seq(Sound(st))
  BY <1>1, <1>2, IsASeq
<1> QED
  BY <1>1, <1>3, <1>4, LenProperties

LEMMA QueueNext ==
  ASSUME Table, Queue(store), Effect
  PROVE  Queue(store)'
<1>1. store \in Slots
  BY DEF Table, TableTypeOK, Slots
<1>2. service' = service
  BY DEF Effect, Keeps, Same, Unlearns, ClearsAll, LearnsAgain, LearnsNew, Creates,
         TeachesSlot, StartsAgain, IsTorn
<1>3. Sound(store)' = Sound(store')
  BY <1>2 DEF Sound, Ahead
<1> SUFFICES tasks' \in Seq(Sound(store')) /\ Len(tasks') <= TaskCapacity
  BY <1>3 DEF Queue
<1>4. CASE Keeps
  <2>1. store' = store /\ QueueStep
    BY <1>4 DEF Keeps
  <2>2. ASSUME NEW t \in NewTask PROVE t \in Sound(store)
    <3>1. \A j \in Index : j \in Nat /\ j >= 0
      BY Sizes
    <3> QED
      BY <2>2, <3>1 DEF NewTask, Sound, Ahead, KnownIn
  <2> QED
    BY <2>1, <2>2, AddKeepsQueue, TimedKeepsQueue DEF QueueStep, Queue
<1>5. ASSUME NEW st, tasks' = StillDue(st), store' = st,
             service = "byEvent" =>
               \A i \in Index : EventAt(store, i) \in KnownIn(st) =>
                 EventAt(st, i) = EventAt(store, i)
      PROVE  tasks' \in Seq(Sound(store')) /\ Len(tasks') <= TaskCapacity
  BY <1>5, StillDueIsSound DEF Queue
<1>6. ASSUME NEW e \in EventId \ {unused_entry}, Unlearns(e)
      PROVE  tasks' \in Seq(Sound(store')) /\ Len(tasks') <= TaskCapacity
  <2> DEFINE S == Matches(e)
             new == Cleared(store, S)
  <2>1. S \in SUBSET Index /\ \A i \in Index : i \in S <=> EventAt(store, i) = e
    BY MatchesAre DEF Table, readEvent
  <2>2. /\ \A i \in S : EventAt(new, i) = unused_entry
        /\ \A i \in Index \ S : EventAt(new, i) = EventAt(store, i)
    BY <1>1, <2>1, ClearedSlots
  <2>3. tasks' = StillDue(new) /\ store' = new
    BY <1>6 DEF Unlearns, Change
  <2> HIDE DEF S, new
  <2>4. e \notin KnownIn(new)
    BY <1>6, <2>1, <2>2 DEF KnownIn
  <2> QED
    BY <1>5, <2>1, <2>2, <2>3, <2>4
<1>7. CASE ClearsAll
  <2>1. \A i \in Index : EventAt(Cleared(store, Index), i) = unused_entry
    BY <1>1, ClearedSlots
  <2>2. KnownIn(Cleared(store, Index)) = {}
    BY <2>1 DEF KnownIn
  <2> QED
    BY <1>5, <1>7, <2>2 DEF ClearsAll
<1>8. ASSUME NEW i \in Index, NEW e \in EventId, NEW n \in EvNum, NEW v \in Byte,
             NEW st, Change(st, {i}),
             \/ st = WithEV(store, i, n, v)
             \/ /\ i \notin InUse
                /\ st \in {WithEV(WithEvent(store, i, e), i, n, v),
                           WithEV(Created(store, i, e), i, n, v)}
      PROVE  tasks' \in Seq(Sound(store')) /\ Len(tasks') <= TaskCapacity
  <2>1. tasks' = StillDue(st) /\ store' = st
    BY <1>8 DEF Change
  <2>2. CASE st = WithEV(store, i, n, v)
    <3>1. \A j \in Index : EventAt(st, j) = EventAt(store, j)
      BY <2>2, Written
    <3> QED
      BY <1>5, <2>1, <3>1
  <2>3. CASE /\ i \notin InUse
             /\ st \in {WithEV(WithEvent(store, i, e), i, n, v),
                        WithEV(Created(store, i, e), i, n, v)}
    <3>1. EventAt(store, i) = unused_entry
      BY <2>3, InUseAre DEF Table, readEvent
    <3>2. \A j \in Index \ {i} : EventAt(st, j) = EventAt(store, j)
      <4>1. \A j \in Index \ {i} : st[j] = store[j]
        BY <2>3, Written
      <4> QED
        BY <4>1 DEF EventAt
    <3>3. unused_entry \notin KnownIn(st)
      BY DEF KnownIn
    <3> QED
      BY <1>5, <2>1, <3>1, <3>2, <3>3
  <2> QED
    BY <1>8, <2>2, <2>3
<1>9. ASSUME NEW i \in Index, NEW e \in EventId, NEW n \in EvNum, NEW v \in Values,
             LearnsAgain(i, e, n, v) \/ LearnsNew(i, e, n, v)
      PROVE  tasks' \in Seq(Sound(store')) /\ Len(tasks') <= TaskCapacity
  <2>1. v \in Byte
    BY OneIsEV
  <2> QED
    BY <1>8, <1>9, <2>1 DEF LearnsAgain, LearnsNew
<1>10. ASSUME NEW i \in Index, NEW e \in EventId, NEW sw \in Switches, Creates(i, e, sw)
       PROVE  tasks' \in Seq(Sound(store')) /\ Len(tasks') <= TaskCapacity
  <2>1. 1 \in EvNum /\ sw \in Byte
    BY OneIsEV
  <2> QED
    BY <1>8, <1>10, <2>1 DEF Creates
<1>11. ASSUME NEW st, NEW S, TeachesSlot(st, S)
       PROVE  tasks' \in Seq(Sound(store')) /\ Len(tasks') <= TaskCapacity
  <2>1. service # "byEvent"
    BY <1>11 DEF TeachesSlot
  <2>2. tasks' = StillDue(st) /\ store' = st
    BY <1>11 DEF TeachesSlot, Change
  <2> QED
    BY <1>5, <2>1, <2>2
<1>12. CASE StartsAgain \/ IsTorn
  <2>1. tasks' = <<>>
    BY <1>12 DEF StartsAgain, IsTorn
  <2>2. <<>> \in Seq(Sound(store')) /\ Len(<<>>) = 0
    BY EmptySeq, Zenon
  <2>3. 0 <= TaskCapacity
    BY ServiceAssumption
  <2> QED
    BY <2>1, <2>2, <2>3
<1> QED
  BY <1>4, <1>6, <1>7, <1>9, <1>10, <1>11, <1>12 DEF Effect

Inv ==
  /\ Table /\ Queue(store)
  /\ service \in Services /\ learn \in BOOLEAN /\ damaged \in BOOLEAN

LEMMA InvAlways == Spec => []Inv
<1>1. ASSUME Init PROVE Inv
  <2>1. Table
    BY <1>1, TableInit
  <2>2. Queue(store)
    BY <1>1, EmptySeq, ServiceAssumption DEF Init, Queue
  <2> QED
    BY <1>1, <2>1, <2>2 DEF Init, Inv
<1>2. ASSUME Inv, [Next]_vars PROVE Inv'
  <2>1. Effect /\ Table' /\ Queue(store)'
    BY <1>2, StepEffect, TableNext, QueueNext DEF Inv
  <2>2. service' = service /\ LearnFlag /\ damaged' \in {damaged, TRUE, FALSE}
    BY <2>1 DEF Effect, Keeps, Same, Unlearns, ClearsAll, LearnsAgain, LearnsNew, Creates,
                TeachesSlot, StartsAgain, IsTorn
  <2> QED
    BY <1>2, <2>1, <2>2 DEF Inv, LearnFlag
<1> QED
  BY <1>1, <1>2, PTL DEF Spec

(* Slots and hashes are bytes, the queue holds no more than its capacity,  *)
(* and no answer runs past the slots or the variables it reads             *)
(* (TimedResponse.h).                                                      *)
THEOREM TypeCorrect == Spec => []TypeOK
<1>1. Inv => TypeOK
  <2>1. ASSUME Inv PROVE tasks \in Seq(Task)
    <3>1. Sound(store) \subseteq Task
      BY DEF Sound
    <3> QED
      BY <2>1, <3>1, SeqMonotonic DEF Inv, Queue
  <2> QED
    BY <2>1 DEF Inv, Table, Queue, TypeOK
<1> QED
  BY <1>1, InvAlways, PTL

(* No event that stays in the table is missed by the answer to NERD,       *)
(* whatever is taught or unlearned between two of its messages             *)
(* (AbstractEventTeachingService.cpp:251, TimedResponse.h).                *)
THEOREM NothingMissed == Spec => []ReportIsComplete
<1>1. Inv => ReportIsComplete
  <2> SUFFICES ASSUME Inv, service = "byEvent", NEW k \in DOMAIN tasks,
                      tasks[k].kind = "events", tasks[k].seq >= Steps(tasks[k]),
                      NEW e \in tasks[k].due
               PROVE  FALSE
    BY DEF ReportIsComplete
  <2>1. k \in 1 .. Len(tasks)
    BY LenProperties DEF Inv, Queue
  <2>2. tasks[k] \in Sound(store)
    BY <2>1, ElementOfSeq DEF Inv, Queue
  <2>3. PICK i \in Index : i >= tasks[k].seq
    BY <2>2 DEF Sound, Ahead
  <2>4. tasks[k] \in [kind : {"events"}, seq : 0 .. NumEvents, due : SUBSET EventId]
    BY <2>2 DEF Sound, Task
  <2> QED
    BY <2>3, <2>4, Sizes DEF Steps, Index
<1> QED
  BY <1>1, InvAlways, PTL

-----------------------------------------------------------------------------
(* The map that a table stands for.                                        *)

Variables(st, i) == [n \in EvNum |-> st[i][EVCell(n)]]

(* In a table without duplicates a slot holds what the map has of its      *)
(* event.                                                                  *)
LEMMA SlotInMap ==
  ASSUME NEW st, Distinct(st), NEW i \in Index, EventAt(st, i) # unused_entry
  PROVE  /\ EventAt(st, i) \in KnownIn(st)
         /\ EventsOf(st)[EventAt(st, i)] = Variables(st, i)
<1> DEFINE e == EventAt(st, i)
           j == CHOOSE j \in Index : EventAt(st, j) = e
<1>1. e \in KnownIn(st)
  BY DEF KnownIn
<1>2. j \in Index /\ EventAt(st, j) = e
  OBVIOUS
<1>3. j = i
  BY <1>2 DEF Distinct
<1>4. EventsOf(st)[e] = [n \in EvNum |-> st[j][EVCell(n)]]
  BY <1>1 DEF EventsOf
<1> QED
  BY <1>1, <1>3, <1>4 DEF Variables

LEMMA MapDomain ==
  ASSUME NEW st
  PROVE  /\ DOMAIN EventsOf(st) = KnownIn(st)
         /\ EventsOf(st) = [e \in KnownIn(st) |-> EventsOf(st)[e]]
         /\ \A e \in KnownIn(st) : \E i \in Index :
              e = EventAt(st, i) /\ EventAt(st, i) # unused_entry
BY DEF EventsOf, KnownIn

(* Writing a slot that is free or has the same event changes the map at    *)
(* this event only.                                                        *)
LEMMA SlotWrittenInMap ==
  ASSUME NEW st, NEW new, Distinct(st), Distinct(new), NEW i \in Index, NEW e,
         EventAt(new, i) = e, e # unused_entry, EventAt(st, i) \in {e, unused_entry},
         \A j \in Index \ {i} : new[j] = st[j]
  PROVE  /\ KnownIn(new) = KnownIn(st) \cup {e}
         /\ EventsOf(new) = [k \in KnownIn(st) \cup {e} |->
                               IF k = e THEN Variables(new, i) ELSE EventsOf(st)[k]]
<1>1. \A j \in Index \ {i} : EventAt(new, j) = EventAt(st, j)
  BY DEF EventAt
<1>2. \A j \in Index \ {i} : Variables(new, j) = Variables(st, j)
  BY DEF Variables
<1>3. KnownIn(new) = KnownIn(st) \cup {e}
  <2>1. ASSUME NEW k \in KnownIn(new) PROVE k \in KnownIn(st) \cup {e}
    BY <1>1 DEF KnownIn
  <2>2. ASSUME NEW k \in KnownIn(st) \cup {e} PROVE k \in KnownIn(new)
    BY <1>1 DEF KnownIn
  <2> QED
    BY <2>1, <2>2
<1>4. ASSUME NEW k \in KnownIn(new)
      PROVE  EventsOf(new)[k] = IF k = e THEN Variables(new, i) ELSE EventsOf(st)[k]
  <2>1. CASE k = e
    BY <2>1, SlotInMap
  <2>2. CASE k # e
    <3>1. PICK j \in Index : k = EventAt(new, j) /\ k # unused_entry
      BY MapDomain
    <3>2. j \in Index \ {i} /\ k = EventAt(st, j)
      BY <1>1, <2>2, <3>1
    <3>3. EventsOf(new)[k] = Variables(new, j) /\ EventsOf(st)[k] = Variables(st, j)
      BY <3>1, <3>2, SlotInMap
    <3> QED
      BY <1>2, <2>2, <3>2, <3>3
  <2> QED
    BY <2>1, <2>2
<1>5. EventsOf(new) = [k \in KnownIn(new) |-> EventsOf(new)[k]]
  BY MapDomain
<1> QED
  BY <1>3, <1>4, <1>5

(* Freeing the slots of an event takes it out of the map.                  *)
LEMMA UnlearnedInMap ==
  ASSUME NEW st \in Slots, Distinct(st), NEW e, NEW S \in SUBSET Index,
         \A i \in Index : i \in S <=> EventAt(st, i) = e
  PROVE  EventsOf(Cleared(st, S)) = [k \in KnownIn(st) \ {e} |-> EventsOf(st)[k]]
<1> DEFINE new == Cleared(st, S)
<1>1. /\ \A i \in S : EventAt(new, i) = unused_entry
      /\ \A i \in Index \ S : new[i] = st[i] /\ EventAt(new, i) = EventAt(st, i)
  BY ClearedSlots
<1> HIDE DEF new
<1>2. \A i \in Index \ S : Variables(new, i) = Variables(st, i)
  BY <1>1 DEF Variables
<1>3. KnownIn(new) = KnownIn(st) \ {e}
  <2>1. ASSUME NEW k \in KnownIn(new) PROVE k \in KnownIn(st) \ {e}
    BY <1>1 DEF KnownIn
  <2>2. ASSUME NEW k \in KnownIn(st) \ {e} PROVE k \in KnownIn(new)
    BY <1>1 DEF KnownIn
  <2> QED
    BY <2>1, <2>2
<1>4. Distinct(new)
  BY <1>1 DEF Distinct
<1>5. ASSUME NEW k \in KnownIn(new) PROVE EventsOf(new)[k] = EventsOf(st)[k]
  <2>1. PICK i \in Index : k = EventAt(new, i) /\ k # unused_entry
    BY MapDomain
  <2>2. i \in Index \ S /\ k = EventAt(st, i)
    BY <1>1, <2>1
  <2>3. EventsOf(new)[k] = Variables(new, i) /\ EventsOf(st)[k] = Variables(st, i)
    BY <1>4, <2>1, <2>2, SlotInMap
  <2> QED
    BY <1>2, <2>2, <2>3
<1>6. EventsOf(new) = [k \in KnownIn(new) |-> EventsOf(new)[k]]
  BY MapDomain
<1> QED
  BY <1>3, <1>5, <1>6 DEF new

(* A table of free slots is the empty map.                                 *)
LEMMA EmptyMap ==
  ASSUME NEW st, \A i \in Index : EventAt(st, i) = unused_entry
  PROVE  EventsOf(st) = <<>>
<1>1. KnownIn(st) = {}
  BY DEF KnownIn
<1> QED
  BY <1>1 DEF EventsOf

(* The map is full when every slot is in use, and only then.               *)
LEMMA MapSize ==
  ASSUME Table
  PROVE  /\ Cardinality(KnownIn(store)) \in Nat
         /\ InUse # Index => Cardinality(KnownIn(store)) < NumEvents
         /\ InUse = Index /\ Distinct(store) => Cardinality(KnownIn(store)) = NumEvents
<1> DEFINE f == [i \in InUse |-> EventAt(store, i)]
<1>1. InUse \in SUBSET Index /\ \A i \in Index : i \in InUse <=> EventAt(store, i) # unused_entry
  BY InUseAre DEF Table, readEvent
<1>2. NumEvents \in Nat /\ IsFiniteSet(Index) /\ Cardinality(Index) = NumEvents
  BY FS_Interval, TableAssumption DEF Index
<1>3. /\ IsFiniteSet(InUse) /\ Cardinality(InUse) \in Nat
      /\ InUse # Index => Cardinality(InUse) < NumEvents
  <2>1. /\ IsFiniteSet(InUse) /\ Cardinality(InUse) <= NumEvents
        /\ Cardinality(Index) = Cardinality(InUse) => Index = InUse
    BY <1>1, <1>2, FS_Subset
  <2>2. Cardinality(InUse) \in Nat
    BY <2>1, FS_CardinalityType
  <2> QED
    BY <1>2, <2>1, <2>2
<1>4. f \in Surjection(InUse, KnownIn(store))
  <2>1. \A i \in InUse : f[i] \in KnownIn(store)
    BY <1>1 DEF KnownIn
  <2>2. \A e \in KnownIn(store) : \E i \in InUse : f[i] = e
    BY <1>1 DEF KnownIn
  <2> QED
    BY <2>1, <2>2 DEF Surjection
<1>5. /\ IsFiniteSet(KnownIn(store))
      /\ Cardinality(KnownIn(store)) <= Cardinality(InUse)
      /\ Cardinality(KnownIn(store)) = Cardinality(InUse) <=> f \in Injection(InUse, KnownIn(store))
  BY <1>3, <1>4, FS_Surjection
<1>6. Cardinality(KnownIn(store)) \in Nat
  BY <1>5, FS_CardinalityType
<1>7. ASSUME Distinct(store) PROVE f \in Injection(InUse, KnownIn(store))
  <2>1. f \in [InUse -> KnownIn(store)]
    BY <1>4 DEF Surjection
  <2>2. \A i, j \in InUse : f[i] = f[j] => i = j
    BY <1>1, <1>7 DEF Distinct
  <2> QED
    BY <2>1, <2>2 DEF Injection, IsInjective
<1> QED
  BY <1>2, <1>3, <1>5, <1>6, <1>7

-----------------------------------------------------------------------------
(* What a handler says.                                                    *)

(* The pieces up to the i-th, one after the other.                         *)
Joins(f, ss, n) ==
  f = [i \in 1 .. n |-> IF i = 1 THEN ss[i] ELSE f[i - 1] \o ss[i]]

LEMMA JoinExists ==
  ASSUME NEW ss
  PROVE  \A n \in Nat \ {0} : \E f : Joins(f, ss, n)
<1> DEFINE Bad == {n \in Nat \ {0} : ~ \E f : Joins(f, ss, n)}
<1> SUFFICES ASSUME Bad # {} PROVE FALSE
  OBVIOUS
<1>1. PICK n \in Bad : \A m \in Bad : n <= m
  BY LeastExists
<1>2. CASE n = 1
  <2>1. Joins([i \in 1 .. 1 |-> ss[i]], ss, 1)
    BY DEF Joins
  <2> QED
    BY <1>1, <1>2, <2>1
<1>3. CASE n # 1
  <2>1. n - 1 \in Nat \ {0} /\ ~(n <= n - 1)
    BY <1>1, <1>3
  <2>2. PICK f : Joins(f, ss, n - 1)
    BY <1>1, <2>1
  <2> DEFINE g == [i \in 1 .. n |-> IF i = n THEN f[n - 1] \o ss[n] ELSE f[i]]
  <2>3. ASSUME NEW i \in 1 .. n
        PROVE  g[i] = IF i = 1 THEN ss[i] ELSE g[i - 1] \o ss[i]
    <3>1. CASE i = n
      <4>1. n \in 1 .. n /\ n - 1 \in 1 .. n /\ n - 1 # n
        BY <2>1
      <4>2. g[n] = f[n - 1] \o ss[n] /\ g[n - 1] = f[n - 1]
        BY <4>1
      <4> HIDE DEF g
      <4> QED
        BY <1>3, <3>1, <4>2
    <3>2. CASE i # n
      <4>1. i \in 1 .. n - 1 /\ g[i] = f[i] /\ (i # 1 => i - 1 \in 1 .. n /\ i - 1 # n)
        BY <2>1, <3>2
      <4>2. f[i] = IF i = 1 THEN ss[i] ELSE f[i - 1] \o ss[i]
        BY <2>2, <4>1, Zenon DEF Joins
      <4> QED
        BY <4>1, <4>2
    <3> QED
      BY <3>1, <3>2
  <2>4. Joins(g, ss, n)
    BY <2>3 DEF Joins
  <2> QED
    BY <1>1, <2>4
<1> QED
  BY <1>2, <1>3

(* Pieces that are put together say nothing only if none of them does.     *)
LEMMA Flattened ==
  ASSUME NEW M, NEW n \in Nat, NEW ss \in [1 .. n -> Seq(M)]
  PROVE  /\ FlattenSeq(ss) \in Seq(M)
         /\ FlattenSeq(ss) = <<>> <=> \A k \in 1 .. n : ss[k] = <<>>
<1>1. Len(ss) = n
  BY LenProperties, SMT
<1>2. CASE n = 0
  <2>1. ss = <<>>
    BY <1>2
  <2>2. FlattenSeq(ss) = <<>>
    BY <1>1, <1>2, <2>1 DEF FlattenSeq
  <2> QED
    BY <1>2, <2>2
<1>3. CASE n # 0
  <2> DEFINE f == CHOOSE f : Joins(f, ss, n)
  <2>1. Joins(f, ss, n)
    BY <1>3, JoinExists
  <2>2. FlattenSeq(ss) = f[n]
    BY <1>1, <1>3 DEF FlattenSeq, Joins
  <2> HIDE DEF f
  <2> DEFINE Good(i) == f[i] \in Seq(M) /\ (f[i] = <<>> <=> \A k \in 1 .. i : ss[k] = <<>>)
             Bad == {i \in 1 .. n : ~Good(i)}
  <2>3. \A i \in 1 .. n : f[i] = IF i = 1 THEN ss[i] ELSE f[i - 1] \o ss[i]
    BY <2>1, Zenon DEF Joins
  <2>4. Bad = {}
    <3> SUFFICES ASSUME Bad # {} PROVE FALSE
      OBVIOUS
    <3>4. Bad \in SUBSET Nat
      OBVIOUS
    <3>5. \E i \in Bad : \A j \in Bad : i <= j
      <4> HIDE DEF Bad
      <4> QED
        BY <3>4, LeastExists
    <3>1. PICK i \in Bad : \A j \in Bad : i <= j
      BY <3>5
    <3>2. CASE i = 1
      <4>1. f[i] = ss[i] /\ ss[i] \in Seq(M)
        BY <2>3, <3>1, <3>2
      <4> QED
        BY <3>1, <3>2, <4>1
    <3>3. CASE i # 1
      <4>1. i - 1 \in 1 .. n /\ i \in 1 .. n /\ ~(i <= i - 1)
        BY <3>1, <3>3
      <4>2. Good(i - 1)
        BY <3>1, <4>1
      <4> DEFINE a == f[i - 1]
      <4>3. f[i] = a \o ss[i] /\ ss[i] \in Seq(M) /\ a \in Seq(M)
        BY <2>3, <3>3, <4>1, <4>2
      <4>4. f[i] \in Seq(M) /\ (f[i] = <<>> <=> a = <<>> /\ ss[i] = <<>>)
        BY <4>3, ConcatProperties, EmptySeq, ConcatEmptySeq
      <4>5. \A k : k \in 1 .. i <=> k \in 1 .. i - 1 \/ k = i
        BY <4>1
      <4> QED
        BY <3>1, <4>2, <4>4, <4>5
    <3> QED
      BY <3>2, <3>3
  <2>5. Good(n)
    BY <1>3, <2>4
  <2> QED
    BY <2>2, <2>5
<1> QED
  BY <1>2, <1>3

LEMMA HeadOfJoin ==
  ASSUME NEW M, NEW s \in Seq(M), NEW t \in Seq(M), s # <<>>
  PROVE  /\ s \o t \in Seq(M) /\ s \o t # <<>> /\ Head(s \o t) = s[1]
         /\ Len(s \o t) = Len(s) + Len(t) /\ Len(s) \in Nat \ {0} /\ Len(t) \in Nat
<1>1. Len(s) \in Nat \ {0} /\ Len(t) \in Nat
  BY EmptySeq, LenProperties
<1>2. /\ s \o t \in Seq(M) /\ Len(s \o t) = Len(s) + Len(t)
      /\ \A i \in 1 .. Len(s) + Len(t) :
           (s \o t)[i] = IF i <= Len(s) THEN s[i] ELSE t[i - Len(s)]
  BY ConcatProperties
<1> DEFINE q == s \o t
<1> HIDE DEF q
<1>3. Len(q) # 0 /\ q[1] = s[1] /\ q \in Seq(M)
  BY <1>1, <1>2 DEF q
<1>4. q # <<>>
  BY <1>3, EmptySeq
<1>5. Head(q) = q[1]
  BY <1>3, <1>4, HeadTailProperties
<1> QED
  BY <1>1, <1>2, <1>3, <1>4, <1>5 DEF q

LEMMA Replies ==
  /\ ReplyOf(<<>>) = <<"none">>
  /\ ReplyOf(Accepted) = <<"OK">>
  /\ ReplyOf(Accepted \o <<[op |-> "setResetFlag"]>>) = <<"OK">>
  /\ \A code : ReplyOf(Refused(code)) = <<code>>
<1>1. ReplyOf(Accepted) = <<"OK">>
  BY DEF ReplyOf, Accepted
<1>2. /\ Accepted \o <<[op |-> "setResetFlag"]>> # <<>>
      /\ Head(Accepted \o <<[op |-> "setResetFlag"]>>) = [op |-> "WRACK"]
  <2> DEFINE M == {[op |-> "WRACK"], GRSP("OK"), [op |-> "setResetFlag"]}
  <2>1. /\ [op |-> "WRACK"] \in M /\ GRSP("OK") \in M
        /\ [op |-> "setResetFlag"] \in M
    OBVIOUS
  <2> HIDE DEF M
  <2>2. /\ Accepted \in Seq(M) /\ Accepted # <<>> /\ Accepted[1] = [op |-> "WRACK"]
        /\ <<[op |-> "setResetFlag"]>> \in Seq(M)
    BY <2>1 DEF Accepted
  <2> QED
    BY <2>2, HeadOfJoin
<1>3. ReplyOf(Accepted \o <<[op |-> "setResetFlag"]>>) = <<"OK">>
  BY <1>2 DEF ReplyOf
<1>4. \A code : ReplyOf(Refused(code)) = <<code>>
  BY DEF ReplyOf, Refused
<1> QED
  BY <1>1, <1>2, <1>3, <1>4 DEF ReplyOf

(* A message of another kind shows as its kind.                            *)
LEMMA PlainReply ==
  ASSUME NEW m, m.op \notin {"WRACK", "CMDERR", "consume"}
  PROVE  ReplyOf(<<m>>) = <<m.op>>
BY DEF ReplyOf

LEMMA LastSwitch == Max(Switches \cup {0}) \in Nat
<1> DEFINE S == {255 - x : x \in Switches \cup {0}}
<1>1. S \in SUBSET Nat /\ S # {}
  BY ServiceAssumption DEF Byte
<1> HIDE DEF S
<1>2. PICK y \in S : \A z \in S : y <= z
  BY <1>1, LeastExists
<1>3. PICK x \in Switches \cup {0} : y = 255 - x
  BY DEF S
<1>4. \A z \in Switches \cup {0} : x >= z
  <2> TAKE z \in Switches \cup {0}
  <2>1. 255 - z \in S
    BY DEF S
  <2>2. 255 - x <= 255 - z
    BY <1>2, <1>3, <2>1
  <2> QED
    BY <2>2, ServiceAssumption DEF Byte
<1>5. Max(Switches \cup {0}) \in Switches \cup {0}
  BY <1>4 DEF Max
<1>6. Switches \cup {0} \subseteq Nat
  BY ServiceAssumption DEF Byte
<1> QED
  BY <1>5, <1>6

LEMMA StartOfDaySays ==
  ASSUME NEW M, \A i \in Index : Produced(store, i) \in Seq(M)
  PROVE  StartOfDay \in Seq(M)
<1> DEFINE slot(sw) == findExistingEventByEv(1, sw)
           n == Max(Switches \cup {0})
           pieces == [sw \in 1 .. n |->
                        IF sw \in Switches /\ IsEventIndexValid(slot(sw))
                        THEN Produced(store, slot(sw)) ELSE <<>>]
<1>1. \A sw : IsEventIndexValid(slot(sw)) => slot(sw) \in Index
  BY FirstOfIs DEF findExistingEventByEv, InUse
<1>2. <<>> \in Seq(M)
  BY EmptySeq
<1>3. pieces \in [1 .. n -> Seq(M)]
  BY <1>1, <1>2
<1>4. StartOfDay = FlattenSeq(pieces)
  BY DEF StartOfDay
<1> HIDE DEF pieces, n
<1>5. n \in Nat
  BY LastSwitch DEF n
<1> QED
  BY <1>3, <1>4, <1>5, Flattened

(* The application is called if and only if a slot has the event.          *)
LEMMA Consumes ==
  ASSUME NEW e, NEW on \in BOOLEAN, NEW eventAck \in BOOLEAN,
         processAccessoryEvent(e, on, eventAck)
  PROVE  ReplyOf(said') = <<IF Matches(e) # {} THEN "handled" ELSE "ignored", e>>
<1> DEFINE ack == IF eventAck THEN <<[op |-> "ENACK", event |-> e]>> ELSE <<>>
           c == [op |-> "consume", event |-> e]
           piece(k) == IF k \in Matches(e) THEN EventHandler(e, k, on) \o ack ELSE <<>>
           ss == [k \in 1 .. NumEvents |-> piece(k - 1)]
           M == {c} \cup {Produced(store, i)[1] : i \in Index}
                  \cup {[op |-> "handled", event |-> e, slot |-> i] : i \in Index}
                  \cup {[op |-> "ENACK", event |-> e]}
<1>1. said' = <<c>> \o FlattenSeq(ss)
  BY DEF processAccessoryEvent, Only
<1>2. \A i \in Index : Produced(store, i) \in Seq(M)
  <2> TAKE i \in Index
  <2>1. Produced(store, i)[1] \in M
    OBVIOUS
  <2>2. Produced(store, i) = <<Produced(store, i)[1]>>
    BY DEF Produced, EventMessage
  <2> HIDE DEF M
  <2>3. <<Produced(store, i)[1]>> \in Seq(M)
    BY <2>1
  <2> QED
    BY <2>2, <2>3, Zenon
<1>3. \A i \in Index : <<[op |-> "handled", event |-> e, slot |-> i]>> \in Seq(M)
  OBVIOUS
<1>4. ack \in Seq(M) /\ <<>> \in Seq(M) /\ <<c>> \in Seq(M)
  <2>1. [op |-> "ENACK", event |-> e] \in M /\ c \in M
    OBVIOUS
  <2> HIDE DEF M, c
  <2> QED
    BY <2>1
<1> HIDE DEF M, ack
<1>5. ASSUME NEW i \in Index
      PROVE  /\ EventHandler(e, i, on) \o ack \in Seq(M)
             /\ EventHandler(e, i, on) \o ack # <<>>
  <2> DEFINE h == <<[op |-> "handled", event |-> e, slot |-> i]>>
             r == IF service = "byEvent" /\ on /\ getEventEVval(i, 1) = 255
                  THEN StartOfDay ELSE <<>>
  <2>1. h \in Seq(M) /\ Len(h) = 1 /\ r \in Seq(M)
    BY <1>2, <1>3, <1>4, StartOfDaySays
  <2>2. EventHandler(e, i, on) = h \o r
    BY DEF EventHandler
  <2> HIDE DEF h, r
  <2>3. h # <<>> /\ h \o r \in Seq(M) /\ h \o r # <<>>
    BY <2>1, EmptySeq, HeadOfJoin
  <2>4. (h \o r) \o ack \in Seq(M) /\ (h \o r) \o ack # <<>>
    BY <1>4, <2>3, HeadOfJoin
  <2> QED
    BY <2>2, <2>4
<1>6. NumEvents \in Nat /\ \A k : k \in 1 .. NumEvents <=> k - 1 \in Index /\ k \in Int
  BY Sizes DEF Index
<1>7. Matches(e) \in SUBSET Index
  BY DEF Matches
<1>8. ss \in [1 .. NumEvents -> Seq(M)]
  BY <1>4, <1>5, <1>7
<1>9. (\A k \in 1 .. NumEvents : ss[k] = <<>>) <=> Matches(e) = {}
  <2>1. ASSUME NEW i \in Matches(e) PROVE ss[i + 1] # <<>> /\ i + 1 \in 1 .. NumEvents
    <3>1. i \in Index /\ i + 1 \in 1 .. NumEvents /\ (i + 1) - 1 = i
      BY <1>7, Sizes DEF Index
    <3> QED
      BY <1>5, <3>1
  <2> QED
    BY <2>1
<1> DEFINE rest == FlattenSeq(ss)
<1>10. rest \in Seq(M) /\ (rest = <<>> <=> Matches(e) = {})
  BY <1>6, <1>8, <1>9, Flattened
<1> HIDE DEF ss
<1>11. /\ <<c>> # <<>> /\ <<c>>[1] = c /\ Len(<<c>>) = 1
       /\ (rest = <<>> <=> Len(rest) = 0)
  BY <1>10, EmptySeq
<1> HIDE DEF rest
<1>12. /\ said' # <<>> /\ Head(said') = c
       /\ Len(said') = 1 + Len(rest) /\ Len(rest) \in Nat
  <2>1. /\ <<c>> \o rest # <<>> /\ Head(<<c>> \o rest) = <<c>>[1]
        /\ Len(<<c>> \o rest) = Len(<<c>>) + Len(rest) /\ Len(rest) \in Nat
    BY <1>4, <1>10, <1>11, HeadOfJoin
  <2> QED
    BY <1>1, <1>11, <2>1 DEF rest, ss
<1>13. Len(said') > 1 <=> Matches(e) # {}
  BY <1>10, <1>11, <1>12
<1> QED
  BY <1>12, <1>13 DEF ReplyOf

-----------------------------------------------------------------------------
(* Each handler is an action of the map.                                   *)

Harmless(s) == ReplyOf(s)[1] \notin {"OK", "TOO_MANY_EVENTS", "handled", "ignored"}

LEMMA HarmlessReplies ==
  /\ Harmless(<<>>)
  /\ \A code : code \notin {"OK", "TOO_MANY_EVENTS", "handled", "ignored"}
                 => Harmless(Refused(code))
  /\ \A m : m.op \notin {"WRACK", "CMDERR", "consume", "OK", "TOO_MANY_EVENTS", "handled",
                         "ignored"}
              => Harmless(<<m>>)
BY Replies, PlainReply DEF Harmless

LEMMA Observes ==
  ASSUME UNCHANGED <<store, service, damaged>>, Harmless(said')
  PROVE  Map!Observe
BY DEF Map!Observe, Harmless

LEMMA OnlyObserves ==
  ASSUME NEW messages, Harmless(messages), Only(messages)
  PROVE  Map!Observe
BY Observes DEF Only, flags

(* What is sent to answer or to report, one message at a time.             *)
LEMMA HarmlessMessages ==
  /\ \A code : Harmless(<<GRSP(code)>>)
  /\ \A n : Harmless(Count("NUMEV", n)) /\ Harmless(Count("EVNLF", n))
  /\ \A i, n, v : Harmless(NEVAL(i, n, v))
  /\ \A e, n, v : Harmless(EVANS(e, n, v))
  /\ \A i : Harmless(ENRSP(i)) /\ Harmless(EventResponse(i))
  /\ \A st, i : Harmless(Produced(st, i))
  /\ \A e : Harmless(EventMessage("produced", e))
<1>1. \A m : m.op \notin {"WRACK", "CMDERR", "consume", "OK", "TOO_MANY_EVENTS", "handled",
                          "ignored"}
               => Harmless(<<m>>)
  BY HarmlessReplies
<1>2. \A code : Harmless(<<GRSP(code)>>)
  BY <1>1 DEF GRSP
<1>3. \A n : Harmless(Count("NUMEV", n)) /\ Harmless(Count("EVNLF", n))
  BY <1>1 DEF Count
<1>4. \A i, n, v : Harmless(NEVAL(i, n, v))
  BY <1>1 DEF NEVAL
<1>5. \A e, n, v : Harmless(EVANS(e, n, v))
  BY <1>1 DEF EVANS
<1>6. \A i : Harmless(ENRSP(i))
  BY <1>1 DEF ENRSP
<1>7. \A e : Harmless(EventMessage("produced", e)) /\ Harmless(EventMessage("response", e))
  BY <1>1 DEF EventMessage
<1> QED
  BY <1>2, <1>3, <1>4, <1>5, <1>6, <1>7 DEF Produced, EventResponse

LEMMA AskObserves ==
  ASSUME service = "byEvent", Ask
  PROVE  Map!Observe
<1>1. CASE handleRequestEventCount \/ handleGetFreeEventSlots
  BY <1>1, OnlyObserves, HarmlessMessages DEF handleRequestEventCount, handleGetFreeEventSlots
<1>2. CASE handleReadEvents
  BY <1>2, Observes, HarmlessReplies DEF handleReadEvents, flags
<1>3. ASSUME NEW i \in 0 .. NumEvents, NEW n \in EvArg, handleReadEventVariable(i, n)
      PROVE  Map!Observe
  <2>1. \/ Only(Refused("INV_EN_IDX")) \/ Only(Refused("INV_EV_IDX"))
        \/ Only(NEVAL(i, n, getEventEVval(i, n)))
        \/ said' = NEVAL(i, 0, NumEVs) /\ UNCHANGED <<store, hash, flags, damaged>>
    BY <1>3 DEF handleReadEventVariable
  <2>2. Harmless(Refused("INV_EN_IDX")) /\ Harmless(Refused("INV_EV_IDX"))
    BY HarmlessReplies
  <2> QED
    BY <2>1, <2>2, Observes, OnlyObserves, HarmlessMessages DEF flags
<1>4. ASSUME NEW i \in 0 .. NumEvents, handleReadEventIndex(i)
      PROVE  Map!Observe
  BY <1>4 DEF handleReadEventIndex
<1>5. ASSUME NEW e \in Events, NEW n \in EvArg, handleRequestEventVariable(e, n)
      PROVE  Map!Observe
  <2>1. \/ Only(Refused("INVALID_EVENT")) \/ Only(Refused("INV_EV_IDX"))
        \/ \E i : Only(EVANS(e, n, getEventEVval(i, n)))
        \/ said' = EVANS(e, 0, NumEVs) /\ UNCHANGED <<store, hash, flags, damaged>>
    BY <1>5 DEF handleRequestEventVariable
  <2>2. Harmless(Refused("INVALID_EVENT")) /\ Harmless(Refused("INV_EV_IDX"))
    BY HarmlessReplies
  <2> QED
    BY <2>1, <2>2, Observes, OnlyObserves, HarmlessMessages DEF flags
<1> QED
  BY <1>1, <1>2, <1>3, <1>4, <1>5 DEF Ask

LEMMA TimedStepObserves ==
  ASSUME TypeOK, TimedStep
  PROVE  Map!Observe
<1>1. Head(tasks) \in Task
  BY HeadTailProperties, EmptySeq DEF TimedStep, TypeOK
<1>2. Head(tasks).kind \in {"events", "eventVar", "ev"}
  BY <1>1 DEF Task
<1>3. said' \in {Answer(Head(tasks)), <<>>} /\ UNCHANGED <<store, service, damaged>>
  BY DEF TimedStep, flags
<1>4. \/ Answer(Head(tasks)) = <<>>
      \/ \E i : Answer(Head(tasks)) = ENRSP(i)
      \/ \E i, n, v : Answer(Head(tasks)) = NEVAL(i, n, v)
      \/ \E e, n, v : Answer(Head(tasks)) = EVANS(e, n, v)
  <2>1. CASE Head(tasks).kind = "events"
    BY <2>1 DEF Answer
  <2>2. CASE Head(tasks).kind = "eventVar"
    BY <2>2 DEF Answer
  <2>3. CASE Head(tasks).kind = "ev"
    BY <2>3 DEF Answer
  <2> QED
    BY <1>2, <2>1, <2>2, <2>3
<1>5. Harmless(Answer(Head(tasks)))
  BY <1>4, HarmlessMessages, HarmlessReplies
<1> QED
  BY <1>3, <1>5, Observes, HarmlessReplies

LEMMA MapEvents ==
  /\ Events \subseteq MapEvent /\ Taught \subseteq Events
  /\ \A e \in Events : ShortEvent(e) \in MapEvent
  /\ \A e \in Events : ShortEvent(e) \in EventId \ {unused_entry}
  /\ {OwnEvent(en) : en \in Switches \cup 1 .. NumEvents + 1} \subseteq MapEvent
<1> DEFINE long == Taught \cup {OwnEvent(en) : en \in Switches \cup 1 .. NumEvents + 1}
<1>1. long \subseteq MapEvent /\ \A e \in long : ShortEvent(e) \in MapEvent
  BY DEF MapEvent
<1>2. Events \subseteq long /\ Taught \subseteq Events
  BY DEF Events
<1>3. \A e \in Events : ShortEvent(e) \in EventId \ {unused_entry}
  <2> TAKE e \in Events
  <2>1. e[3] \in Byte /\ e[4] \in Byte
    BY TaughtEvents DEF EventId, EE_HASH_BYTES
  <2> QED
    BY <2>1 DEF ShortEvent, EventId, EE_HASH_BYTES, Byte, unused_entry
<1>4. {OwnEvent(en) : en \in Switches \cup 1 .. NumEvents + 1} \subseteq long
  OBVIOUS
<1> HIDE DEF long
<1> QED
  BY <1>1, <1>2, <1>3, <1>4

LEMMA KnownHasSlot ==
  ASSUME Table, NEW e \in EventId \ {unused_entry}
  PROVE  Matches(e) # {} <=> e \in KnownIn(store)
<1>1. \A i \in Index : i \in Matches(e) <=> EventAt(store, i) = e
  BY MatchesAre DEF Table, readEvent
<1>2. Matches(e) \in SUBSET Index
  BY DEF Matches
<1> QED
  BY <1>1, <1>2 DEF KnownIn

(* Events in general are looked up and leave the map alone.                *)
LEMMA HandleRefines ==
  ASSUME Table, NEW e \in Events, NEW short \in BOOLEAN, NEW on \in BOOLEAN,
         handleConsumedMessage(e, short, on)
  PROVE  Map!Handle
<1> DEFINE x == IF short THEN ShortEvent(e) ELSE e
<1>1. PICK eventAck \in BOOLEAN : processAccessoryEvent(x, on, eventAck)
  BY DEF handleConsumedMessage
<1>2. x \in MapEvent /\ x \in EventId \ {unused_entry}
  BY MapEvents, TaughtEvents
<1> HIDE DEF x
<1>3. ReplyOf(said') = <<IF Matches(x) # {} THEN "handled" ELSE "ignored", x>>
  BY <1>1, Consumes
<1>4. Matches(x) # {} <=> x \in KnownIn(store)
  BY <1>2, KnownHasSlot
<1>5. ReplyOf(said') \in ({"handled"} \X KnownIn(store))
                           \cup ({"ignored"} \X (MapEvent \ KnownIn(store)))
  BY <1>2, <1>3, <1>4
<1>6. UNCHANGED <<store, service, damaged>>
  BY <1>1 DEF processAccessoryEvent, Only, flags
<1>7. DOMAIN EventsOf(store) = KnownIn(store)
  BY MapDomain
<1> QED
  BY <1>5, <1>6, <1>7 DEF Map!Handle, Map!Known

LEMMA UnlearnRefines ==
  ASSUME Table, Distinct(store), NEW e \in Events, handleUnlearnEvent(e)
  PROVE  Map!Observe \/ Map!Unlearn(e)
<1>1. CASE Only(Refused("INVALID_EVENT"))
  BY <1>1, OnlyObserves, HarmlessReplies
<1>2. CASE /\ Matches(e) # {} /\ said' = Accepted
           /\ Change(Cleared(store, Matches(e)), Matches(e))
           /\ UNCHANGED <<flags, damaged>>
  <2>1. e \in EventId \ {unused_entry} /\ store \in Slots
    BY TaughtEvents DEF Table, TableTypeOK, Slots
  <2>2. /\ Matches(e) \in SUBSET Index
        /\ \A i \in Index : i \in Matches(e) <=> EventAt(store, i) = e
    BY <2>1, MatchesAre DEF Table, readEvent
  <2>3. /\ store' = Cleared(store, Matches(e))
        /\ UNCHANGED <<service, damaged>>
    BY <1>2 DEF Change, flags
  <2>4. EventsOf(store') = [k \in KnownIn(store) \ {e} |-> EventsOf(store)[k]]
    BY <2>1, <2>2, <2>3, UnlearnedInMap
  <2>5. e \in KnownIn(store)
    BY <1>2, <2>1, KnownHasSlot
  <2>6. ReplyOf(said') = <<"OK">>
    BY <1>2, Replies
  <2>7. DOMAIN EventsOf(store) = KnownIn(store)
    BY MapDomain
  <2> QED
    BY <2>3, <2>4, <2>5, <2>6, <2>7 DEF Map!Unlearn, Map!Known
<1> QED
  BY <1>1, <1>2 DEF handleUnlearnEvent

LEMMA ClearRefines ==
  ASSUME Table, service = "byEvent", handleClearEvents
  PROVE  Map!Observe \/ Map!Clear
<1>1. CASE Only(Refused("NOT_LRN"))
  BY <1>1, OnlyObserves, HarmlessReplies
<1>2. CASE /\ store' = Cleared(store, Index)
           /\ said' = Accepted \o <<[op |-> "setResetFlag"]>>
           /\ damaged' = FALSE /\ UNCHANGED flags
  <2>1. store \in Slots
    BY DEF Table, TableTypeOK, Slots
  <2>2. \A i \in Index : EventAt(store', i) = unused_entry
    BY <1>2, <2>1, ClearedSlots
  <2>3. EventsOf(store') = <<>>
    BY <2>2, EmptyMap
  <2>4. ReplyOf(said') = <<"OK">>
    BY <1>2, Replies
  <2> QED
    BY <1>2, <2>3, <2>4 DEF Map!Clear, flags
<1> QED
  BY <1>1, <1>2 DEF handleClearEvents

LEMMA SameCardinality == \A S : Map!Cardinality(S) = Cardinality(S)
BY DEF Map!Cardinality, Cardinality

(* EVLRN of an event that has a slot, or gets one, writes one variable of  *)
(* it; a new event has no other.                                           *)
LEMMA LearnRefines ==
  ASSUME Table, Tidy(store), Distinct(store'), NEW e \in Taught, NEW n \in EvNum,
         NEW v \in Values, LearnValid(e, n, v),
         Change(Learned(LearnSlot(e), e, n, v), {LearnSlot(e)}),
         said' = Accepted, UNCHANGED <<flags, damaged>>
  PROVE  Map!Learn(e, n, v)
<1> DEFINE i == LearnSlot(e)
           old == IF e \in KnownIn(store) THEN EventsOf(store)[e] ELSE [k \in EvNum |-> 255]
<1>1. /\ e \in EventId \ {unused_entry} /\ store \in Slots /\ v \in Byte
      /\ IsEventIndexValid(i) /\ store' = Learned(i, e, n, v)
  BY TaughtEvents, OneIsEV DEF LearnValid, Change, Table, TableTypeOK, Slots
<1>2. \A j \in Index : j \in Matches(e) <=> EventAt(store, j) = e
  BY <1>1, MatchesAre DEF Table, readEvent
<1>3. /\ i \in Index /\ EventAt(store, i) \in {e, unused_entry}
      /\ EventAt(store', i) = e
      /\ \A j \in Index \ {i} : store'[j] = store[j]
      /\ Variables(store', i) = [old EXCEPT ![n] = v]
      /\ e \notin KnownIn(store) => InUse # Index
  <2>1. CASE i \in Matches(e) /\ i \in Index /\ IsEventIndexValid(findExistingEvent(e))
    <3>1. store' = WithEV(store, i, n, v)
      BY <1>1, <2>1 DEF Learned
    <3>2. EventAt(store, i) = e
      BY <1>2, <2>1
    <3>3. old = Variables(store, i) /\ e \in KnownIn(store)
      BY <1>1, <2>1, <3>2, SlotInMap DEF Tidy
    <3>4. /\ EventAt(store', i) = EventAt(store, i)
          /\ \A j \in Index \ {i} : store'[j] = store[j]
          /\ store'[i][EVCell(n)] = v
          /\ \A m \in EvNum \ {n} : store'[i][EVCell(m)] = store[i][EVCell(m)]
      BY <1>1, <2>1, <3>1, EVWritten
    <3>5. Variables(store', i) = [Variables(store, i) EXCEPT ![n] = v]
      BY <3>4 DEF Variables
    <3> QED
      BY <2>1, <3>2, <3>3, <3>4, <3>5
  <2>2. CASE /\ Matches(e) = {} /\ ~IsEventIndexValid(findExistingEvent(e))
             /\ i \in Index \ InUse
    <3> DEFINE mid == WithEvent(store, i, e)
    <3>1. store' = WithEV(mid, i, n, v)
      BY <1>1, <2>2 DEF Learned
    <3>2. EventAt(store, i) = unused_entry /\ e \notin KnownIn(store)
      BY <1>1, <2>2, InUseAre, KnownHasSlot DEF Table, readEvent
    <3>3. \A m \in EvNum : store[i][EVCell(m)] = 255
      <4>1. \A c \in Cell : store[i][c] = 255
        BY <2>2, <3>2 DEF Tidy, Blank
      <4>2. \A m \in EvNum : EVCell(m) \in Cell
        BY Sizes
      <4> QED
        BY <4>1, <4>2
    <3>4. /\ mid \in Slots /\ EventAt(mid, i) = e
          /\ \A j \in Index \ {i} : mid[j] = store[j]
          /\ \A m \in EvNum : mid[i][EVCell(m)] = 255
      BY <1>1, <2>2, <3>3, EventWritten
    <3> HIDE DEF mid
    <3>5. /\ EventAt(store', i) = EventAt(mid, i)
          /\ \A j \in Index \ {i} : store'[j] = mid[j]
          /\ store'[i][EVCell(n)] = v
          /\ \A m \in EvNum \ {n} : store'[i][EVCell(m)] = mid[i][EVCell(m)]
      BY <1>1, <2>2, <3>1, <3>4, EVWritten
    <3>6. Variables(store', i) = [[k \in EvNum |-> 255] EXCEPT ![n] = v]
      BY <3>4, <3>5 DEF Variables
    <3> QED
      BY <2>2, <3>2, <3>4, <3>5, <3>6
  <2> QED
    BY <1>1, <2>1, <2>2, LearnSlotIs
<1> HIDE DEF i, old
<1>4. EventsOf(store') = [k \in KnownIn(store) \cup {e} |->
                            IF k = e THEN [old EXCEPT ![n] = v] ELSE EventsOf(store)[k]]
  BY <1>1, <1>3, SlotWrittenInMap DEF Tidy
<1>5. e \notin KnownIn(store) => Cardinality(KnownIn(store)) < NumEvents
  BY <1>3, MapSize
<1>6. ReplyOf(said') = <<"OK">> /\ UNCHANGED <<service, damaged>>
  BY Replies DEF flags
<1>7. DOMAIN EventsOf(store) = KnownIn(store)
  BY MapDomain
<1> QED
  BY <1>4, <1>5, <1>6, <1>7, SameCardinality DEF Map!Learn, Map!With, Map!Known, old

(* The table is full only if the map is.                                   *)
LEMMA RefusalRefines ==
  ASSUME Table, Distinct(store), NEW e \in Taught, ~IsEventIndexValid(LearnSlot(e)),
         Only(Refused("TOO_MANY_EVENTS"))
  PROVE  Map!LearnRefused
<1>1. ~IsEventIndexValid(findEventSpace)
  BY DEF LearnSlot
<1>2. Index \ InUse = {}
  BY <1>1, FirstOfIs DEF findEventSpace
<1>3. InUse = Index
  BY <1>2 DEF InUse
<1>4. Cardinality(KnownIn(store)) = NumEvents
  BY <1>3, MapSize
<1>5. ReplyOf(said') = <<"TOO_MANY_EVENTS">> /\ UNCHANGED <<store, service, damaged>>
  BY Replies DEF Only, flags
<1>6. DOMAIN EventsOf(store) = KnownIn(store)
  BY MapDomain
<1> QED
  BY <1>4, <1>5, <1>6, SameCardinality DEF Map!LearnRefused, Map!Known

LEMMA EVLRNRefines ==
  ASSUME Table, Tidy(store), Distinct(store'), NEW e \in Taught, NEW n \in EvArg,
         NEW v \in Values, handleLearnEvent(e, n, v)
  PROVE  Map!Next
<1>1. CASE Only(Refused("INV_EV_IDX")) \/ Only(Refused("INV_EV_VALUE"))
  BY <1>1, OnlyObserves, HarmlessReplies DEF Map!Next
<1>2. CASE ~IsEventIndexValid(LearnSlot(e)) /\ Only(Refused("TOO_MANY_EVENTS"))
  BY <1>2, RefusalRefines DEF Map!Next, Tidy
<1>3. CASE /\ LearnValid(e, n, v)
           /\ Change(Learned(LearnSlot(e), e, n, v), {LearnSlot(e)})
           /\ said' = Accepted
           /\ UNCHANGED <<flags, damaged>>
  <2>1. n \in EvNum /\ e \in MapEvent
    BY <1>3, MapEvents DEF LearnValid
  <2>2. Map!Learn(e, n, v)
    BY <1>3, <2>1, LearnRefines
  <2> QED
    BY <2>1, <2>2 DEF Map!Next
<1> QED
  BY <1>1, <1>2, <1>3 DEF handleLearnEvent

(* The event that the sketch makes is new to the map, which has room.      *)
LEMMA CreateRefines ==
  ASSUME Table, Tidy(store), Distinct(store'), NEW sw \in Switches, CreateSwitchEvent(sw)
  PROVE  Map!Next
<1> DEFINE i == findEventSpace
           e == CreateEventId(sw)
           mid == Created(store, i, e)
           evs == Variables(store', i)
<1>1. /\ IsEventIndexValid(i) /\ store' = WithEV(mid, i, 1, sw)
      /\ said' \in {Produced(WithEV(mid, i, 1, sw), i), <<>>}
      /\ UNCHANGED <<service, damaged>>
  BY DEF CreateSwitchEvent, CanCreate, SwitchEventCreated, Change, flags
<1>2. i \in Index \ InUse
  BY <1>1, SpaceIsFree DEF Table
<1>3. /\ e \in EventId \ {unused_entry} /\ Matches(e) = {} /\ e \in MapEvent
      /\ sw \in Byte /\ 1 \in EvNum /\ store \in Slots
  BY <1>1, CreatedEventIsNew, MapEvents, OneIsEV DEF Table, TableTypeOK, Slots
<1>4. EventAt(store, i) = unused_entry /\ e \notin KnownIn(store)
  BY <1>2, <1>3, InUseAre, KnownHasSlot DEF Table, readEvent
<1> HIDE DEF i, e
<1>5. /\ mid \in Slots /\ EventAt(mid, i) = e
      /\ \A j \in Index \ {i} : mid[j] = store[j]
  BY <1>2, <1>3, EventCreated
<1>6. \A m \in EvNum : mid[i][EVCell(m)] = 0
  <2> TAKE m \in EvNum
  <2>1. EVCell(m) \in Cell /\ ~(EVCell(m) <= EE_HASH_BYTES)
    BY Sizes DEF EVCell, EE_HASH_BYTES, EvNum
  <2> QED
    BY <1>2, <1>3, <2>1 DEF Created, Slots
<1> HIDE DEF mid
<1>7. /\ EventAt(store', i) = e
      /\ \A j \in Index \ {i} : store'[j] = store[j]
      /\ store'[i][EVCell(1)] = sw
      /\ \A m \in EvNum \ {1} : store'[i][EVCell(m)] = 0
  BY <1>1, <1>2, <1>3, <1>5, <1>6, EVWritten
<1>8. evs \in [EvNum -> Values \cup Switches \cup {0}]
  BY <1>7 DEF Variables
<1>9. EventsOf(store') = [k \in KnownIn(store) \cup {e} |->
                            IF k = e THEN evs ELSE EventsOf(store)[k]]
  BY <1>2, <1>3, <1>4, <1>7, SlotWrittenInMap DEF Tidy
<1>10. Cardinality(KnownIn(store)) < NumEvents
  BY <1>2, MapSize
<1>11. ReplyOf(said') \in {<<"produced">>, <<"none">>}
  BY <1>1, Replies, PlainReply DEF Produced, EventMessage
<1>12. DOMAIN EventsOf(store) = KnownIn(store)
  BY MapDomain
<1> HIDE DEF evs
<1>13. Map!Create(e, evs)
  BY <1>1, <1>4, <1>9, <1>10, <1>11, <1>12, SameCardinality DEF Map!Create, Map!With, Map!Known
<1> QED
  BY <1>3, <1>8, <1>13 DEF Map!Next

LEMMA UseRefines ==
  ASSUME Table, TidyTable, TidyTable', service = "byEvent", ~damaged', UNCHANGED service, Use
  PROVE  Map!Next
<1>1. ASSUME NEW e \in Events, NEW short \in BOOLEAN, NEW on \in BOOLEAN,
             handleConsumedMessage(e, short, on)
      PROVE  Map!Next
  BY <1>1, HandleRefines DEF Map!Next
<1>2. ASSUME NEW e \in Events, NEW short \in BOOLEAN, handleProdSvcMessage(e, short)
      PROVE  Map!Next
  <2>1. Only(<<>>) \/ \E i : Only(EventResponse(i))
    BY <1>2 DEF handleProdSvcMessage
  <2> QED
    BY <2>1, OnlyObserves, HarmlessMessages, HarmlessReplies DEF Map!Next
<1>3. ASSUME NEW e \in Taught, SendEvent(e)
      PROVE  Map!Next
  BY <1>3, OnlyObserves, HarmlessMessages DEF SendEvent, Map!Next
<1>4. ASSUME NEW sw \in Switches, processSwitches(sw)
      PROVE  Map!Next
  <2>1. CASE UseSwitchEvent(sw)
    BY <2>1, OnlyObserves, HarmlessMessages, HarmlessReplies DEF UseSwitchEvent, Map!Next
  <2>2. CASE CreateSwitchEvent(sw)
    <3>1. ~damaged
      BY <2>2 DEF CreateSwitchEvent
    <3>2. Tidy(store) /\ Distinct(store')
      BY <3>1 DEF TidyTable, ByEvent, Tidy
    <3> QED
      BY <2>2, <3>2, CreateRefines
  <2> QED
    BY <1>4, <2>1, <2>2 DEF processSwitches
<1>5. ASSUME NEW on \in BOOLEAN, SetEventAck(on)
      PROVE  Map!Next
  <2>1. Harmless(<<[op |-> "setEventAck", on |-> on]>>)
    BY HarmlessReplies
  <2> QED
    BY <1>5, <2>1, OnlyObserves DEF SetEventAck, Map!Next
<1> QED
  BY <1>1, <1>2, <1>3, <1>4, <1>5 DEF Use

LEMMA TeachRefines ==
  ASSUME Table, TidyTable, TidyTable', service = "byEvent", ~damaged', UNCHANGED service, Teach
  PROVE  Map!Next
<1>1. ASSUME NEW on \in BOOLEAN, handleLearnMode(on)
      PROVE  Map!Next
  BY <1>1, Observes, HarmlessReplies DEF handleLearnMode, Map!Next
<1>2. CASE ShortMessage
  BY <1>2, OnlyObserves, HarmlessMessages DEF ShortMessage, Map!Next
<1>3. ASSUME ~damaged PROVE Tidy(store) /\ Distinct(store')
  BY <1>3 DEF TidyTable, ByEvent, Tidy
<1>4. ASSUME NEW e \in Events, handleUnlearnEvent(e)
      PROVE  Map!Next
  <2>1. UNCHANGED damaged /\ e \in MapEvent
    BY <1>4, MapEvents DEF handleUnlearnEvent, Only
  <2>2. Map!Observe \/ Map!Unlearn(e)
    BY <1>3, <1>4, <2>1, UnlearnRefines DEF Tidy
  <2> QED
    BY <2>1, <2>2 DEF Map!Next
<1>5. CASE handleClearEvents
  BY <1>5, ClearRefines DEF Map!Next
<1>6. ASSUME NEW e \in Taught, NEW n \in EvArg, NEW v \in Values, handleLearnEvent(e, n, v)
      PROVE  Map!Next
  <2>1. UNCHANGED damaged
    BY <1>6 DEF handleLearnEvent, Only
  <2> QED
    BY <1>3, <1>6, <2>1, EVLRNRefines
<1>7. \A e, i, n, v : ~handleLearnEventIndex(e, i, n, v)
  BY DEF handleLearnEventIndex, SlotLearnValid
<1> QED
  BY <1>1, <1>2, <1>4, <1>5, <1>6, <1>7 DEF Teach, handleLearn, handleUnlearn

(* A step that leaves a table of damaged or slot-taught events is one of   *)
(* which the map promises nothing.                                         *)
LEMMA StepRefines ==
  ASSUME TypeOK, Table, TidyTable, TidyTable', [Next]_vars
  PROVE  [Map!Next]_(Map!vars)
<1>1. CASE damaged' \/ service' = "bySlot"
  BY <1>1 DEF Map!Next, Map!Damage
<1>2. CASE UNCHANGED vars
  BY <1>2 DEF vars, flags, Map!vars
<1>3. CASE ~damaged' /\ service' # "bySlot" /\ Next
  <2>1. UNCHANGED service
    BY StepEffect DEF Effect, Keeps, Same, Unlearns, ClearsAll, LearnsAgain, LearnsNew,
                      Creates, TeachesSlot, StartsAgain, IsTorn
  <2>2. service = "byEvent"
    BY <1>3, <2>1, ServiceAssumption DEF TypeOK
  <2>3. CASE Teach \/ Use
    BY <1>3, <2>1, <2>2, <2>3, TeachRefines, UseRefines
  <2>4. CASE Ask \/ TimedStep
    BY <2>2, <2>4, AskObserves, TimedStepObserves DEF Map!Next
  <2>5. CASE Restart
    BY <2>5, Observes, HarmlessReplies DEF Restart, Start, Map!Next
  <2>6. ~PowerFailsInWrite
    BY <1>3 DEF PowerFailsInWrite
  <2> QED
    BY <1>3, <2>3, <2>4, <2>5, <2>6 DEF Next
<1> QED
  BY <1>1, <1>2, <1>3

LEMMA InitRefines ==
  ASSUME Init
  PROVE  Map!Init
<1>1. \A i \in Index : EventAt(store, i) = unused_entry
  BY Sizes DEF Init, EventAt, unused_entry
<1>2. EventsOf(store) = <<>>
  BY <1>1, EmptyMap
<1>3. ReplyOf(said) = <<"none">>
  BY Replies DEF Init
<1> QED
  BY <1>2, <1>3 DEF Init, Map!Init

(* Teaching by event implements the map from events to their variables:    *)
(* slots, hashes, the order of the searches, answers piece by piece and    *)
(* restarts do not show, and a tool that reads what it taught finds it     *)
(* (EventTeachingService.cpp, Configuration.cpp).                          *)
THEOREM TeachingRefines == Spec => RefinesMap
<1>1. Init => Map!Init
  BY InitRefines
<1>2. TypeOK /\ (Table /\ TidyTable) /\ (Table /\ TidyTable)' /\ [Next]_vars
        => [Map!Next]_(Map!vars)
  BY StepRefines
<1> QED
  BY <1>1, <1>2, TypeCorrect, TidyAlways, PTL DEF Spec, RefinesMap, Map!Spec
=============================================================================
