----------------------- MODULE BufferAndStorage_proofs ------------------------
(***************************************************************************)
(* Proofs about the two parts that hold the rest's data: CircularBuffer,   *)
(* for every capacity, item type and byte width that SizeAssumption allows;*)
(* and Storage, in the second half, for every geometry of pages, every set *)
(* of values and any number of writes, resets and losses of power.         *)
(***************************************************************************)
EXTENDS CircularBuffer, Storage, SequenceTheorems, TLAPS

(* Wrapping an index that is less than one turn too large takes off one    *)
(* turn: what `% capacity` does to every index the class computes.         *)
LEMMA Wrap ==
  ASSUME NEW k \in 0 .. 2 * Capacity - 1
  PROVE  k % Capacity = IF k < Capacity THEN k ELSE k - Capacity
<1>1. Capacity \in Nat \ {0}
  BY SizeAssumption
<1>2. k \in Nat /\ Capacity \in Nat /\ Capacity > 0
  BY <1>1, SMT
<1>3. k = Capacity * (k \div Capacity) + (k % Capacity)
  BY <1>1, <1>2, SMT
<1>. QED BY <1>1, <1>2, <1>3, SMT

(* bufUse() counts the slots from tail up to head, in spite of its int8_t. *)
LEMMA UseIsDistance ==
  ASSUME NEW h \in Slot, NEW t \in Slot, NEW f \in BOOLEAN
  PROVE  Use(h, t, f) = IF f THEN Capacity
                        ELSE IF h >= t THEN h - t ELSE h - t + Capacity
BY SizeAssumption, SMT DEF Use, Int8, UInt8, Slot

LEMMA UseRange ==
  ASSUME NEW h \in Slot, NEW t \in Slot, NEW f \in BOOLEAN
  PROVE  Use(h, t, f) \in 0 .. Capacity /\ Use(h, t, f) \in Byte
<1>. DEFINE u == Use(h, t, f)
<1>1. u = IF f THEN Capacity ELSE IF h >= t THEN h - t ELSE h - t + Capacity
  BY UseIsDistance
<1>. HIDE DEF u
<1>2. u \in 0 .. Capacity /\ u \in Byte
  BY <1>1, SizeAssumption, SMT DEF Slot, Byte
<1>. QED BY <1>2 DEF u

(* The slot that holds the item i places behind the oldest one.            *)
At(t, i) == IF t + i < Capacity THEN t + i ELSE t + i - Capacity

LEMMA AtIsModulo ==
  ASSUME NEW t \in Slot, NEW i \in 0 .. Capacity
  PROVE  (t + i) % Capacity = At(t, i) /\ At(t, i) \in Slot
<1>1. t + i \in 0 .. 2 * Capacity - 1
  BY SizeAssumption, SMT DEF Slot
<1>2. (t + i) % Capacity = At(t, i)
  BY <1>1, Wrap, SizeAssumption, SMT DEF At, Slot
<1>3. At(t, i) \in Slot
  BY SizeAssumption, SMT DEF At, Slot
<1>. QED BY <1>2, <1>3

LEMMA NextSlotIsAt ==
  ASSUME NEW t \in Slot
  PROVE  NextSlot(t) = At(t, 1) /\ NextSlot(t) \in Slot
<1>1. 1 \in 0 .. Capacity
  BY SizeAssumption, SMT
<1>. QED BY <1>1, AtIsModulo DEF NextSlot

LEMMA BumpIsByte ==
  ASSUME NEW n \in Byte
  PROVE  Bump(n) \in Byte
BY SizeAssumption, SMT DEF Bump, Byte

-----------------------------------------------------------------------------
LEMMA TypeStep == TypeOK /\ [Next]_vars => TypeOK'
<1>. SUFFICES ASSUME TypeOK, [Next]_vars PROVE TypeOK'
  OBVIOUS
<1>. USE DEF TypeOK
<1>1. ASSUME NEW e \in Item, Put(e) PROVE TypeOK'
  <2>1. head' \in Slot /\ tail' \in Slot /\ full' \in BOOLEAN
    BY <1>1, NextSlotIsAt DEF Put
  <2>2. Use(head', tail', full') \in Byte
    BY <2>1, UseRange
  <2>3. hwm' \in Byte
    BY <1>1, <2>2 DEF Put
  <2>4. numPuts' \in Byte /\ numOverflows' \in Byte
    BY <1>1, BumpIsByte DEF Put
  <2>5. buffer' \in [Slot -> Item \cup {NoItem}]
    BY <1>1 DEF Put
  <2>. QED BY <1>1, <2>1, <2>3, <2>4, <2>5 DEF Put
<1>2. CASE Pop
  BY <1>2, NextSlotIsAt, BumpIsByte DEF Pop
<1>3. CASE Peek
  BY <1>3 DEF Peek, indices, counters
<1>4. CASE Clear
  <2>1. 0 \in Slot
    BY SizeAssumption, SMT DEF Slot
  <2>2. BufUse \in 0 .. Capacity
    BY UseRange DEF BufUse
  <2>3. discarded' \in Byte
    BY <1>4, <2>2, SizeAssumption, SMT DEF Clear, Byte
  <2>. QED BY <1>4, <2>1, <2>3 DEF Clear, counters
<1>5. CASE UNCHANGED vars
  BY <1>5 DEF vars, indices, counters
<1>. QED BY <1>1, <1>2, <1>3, <1>4, <1>5 DEF Next

(* Every variable keeps its type: the indices never leave the array.       *)
THEOREM TypeCorrect == Spec => []TypeOK
<1>1. Init => TypeOK
  <2>1. 0 \in Slot /\ 0 \in Byte
    BY SizeAssumption, SMT DEF Slot, Byte
  <2>. QED BY <2>1 DEF Init, TypeOK
<1>. QED BY <1>1, TypeStep, PTL DEF Spec

-----------------------------------------------------------------------------
(* The occupancy before and after each operation, and where a put() lands: *)
(* behind the newest item, or on the oldest one when the buffer is full.   *)
LEMMA PutUse ==
  ASSUME TypeOK, FullMeansWrapped, NEW e, Put(e)
  PROVE  /\ BufUse \in 0 .. Capacity
         /\ full <=> BufUse = Capacity
         /\ BufUse' = IF full THEN Capacity ELSE BufUse + 1
         /\ head = IF full THEN tail ELSE At(tail, BufUse)
         /\ tail' = IF full THEN At(tail, 1) ELSE tail
         /\ full => At(At(tail, 1), Capacity - 1) = head
<1>1. head \in Slot /\ tail \in Slot /\ full \in BOOLEAN
  BY DEF TypeOK
<1>2. /\ head' = At(head, 1)
      /\ tail' = IF full THEN At(tail, 1) ELSE tail
      /\ full' = (head' = tail')
      /\ head' \in Slot /\ tail' \in Slot
  BY <1>1, NextSlotIsAt DEF Put
<1>3. BufUse = IF full THEN Capacity
               ELSE IF head >= tail THEN head - tail ELSE head - tail + Capacity
  BY <1>1, UseIsDistance DEF BufUse
<1>4. BufUse' = IF full' THEN Capacity
                ELSE IF head' >= tail' THEN head' - tail' ELSE head' - tail' + Capacity
  BY <1>2, UseIsDistance DEF BufUse
<1>5. full => head = tail
  BY DEF FullMeansWrapped
<1>6. CASE full
  <2>1. /\ BufUse = Capacity /\ head = tail
        /\ head' = At(tail, 1) /\ tail' = At(tail, 1) /\ full'
    BY <1>2, <1>3, <1>5, <1>6
  <2>2. At(At(tail, 1), Capacity - 1) = tail
    BY <1>1, SizeAssumption, SMT DEF Slot, At
  <2>3. Capacity \in 0 .. Capacity
    BY SizeAssumption, SMT
  <2>. QED BY <1>4, <1>6, <2>1, <2>2, <2>3
<1>7. CASE ~full
  <2>1. BufUse = IF head >= tail THEN head - tail ELSE head - tail + Capacity
    BY <1>3, <1>7
  <2>2. BufUse \in 0 .. Capacity - 1 /\ head = At(tail, BufUse)
    BY <1>1, <2>1, SizeAssumption, SMT DEF Slot, At
  <2>3. tail' = tail /\ head' = At(head, 1) /\ (full' <=> head' = tail')
    BY <1>2, <1>7
  <2>4. BufUse' = BufUse + 1
    <3>1. BufUse' = IF head' = tail' THEN Capacity
                    ELSE IF head' >= tail' THEN head' - tail' ELSE head' - tail' + Capacity
      BY <1>4, <2>3
    <3>. HIDE DEF BufUse
    <3>. QED BY <1>1, <2>1, <2>3, <3>1, SizeAssumption, SMT DEF Slot, At
  <2>5. BufUse \in 0 .. Capacity /\ BufUse # Capacity
    BY <2>2, SizeAssumption, SMT
  <2>. QED BY <1>7, <2>2, <2>3, <2>4, <2>5
<1>. QED BY <1>6, <1>7

LEMMA PopUse ==
  ASSUME TypeOK, FullMeansWrapped, Pop
  PROVE  /\ BufUse \in 1 .. Capacity
         /\ BufUse' = BufUse - 1
         /\ tail' = At(tail, 1)
         /\ tail' \in Slot
<1>1. head \in Slot /\ tail \in Slot /\ full \in BOOLEAN
  BY DEF TypeOK
<1>2. /\ head' = head /\ tail' = At(tail, 1) /\ tail' \in Slot
      /\ full' = FALSE /\ (full \/ head # tail)
  BY <1>1, NextSlotIsAt DEF Pop, Available
<1>3. BufUse = IF full THEN Capacity
               ELSE IF head >= tail THEN head - tail ELSE head - tail + Capacity
  BY <1>1, UseIsDistance DEF BufUse
<1>4. BufUse' = IF head' >= tail' THEN head' - tail' ELSE head' - tail' + Capacity
  BY <1>1, <1>2, UseIsDistance DEF BufUse
<1>5. full => head = tail
  BY DEF FullMeansWrapped
<1>. QED
  BY <1>1, <1>2, <1>3, <1>4, <1>5, SizeAssumption, SMT DEF Slot, At

LEMMA ClearUse ==
  ASSUME Clear
  PROVE  BufUse' = 0
<1>1. Use(0, 0, FALSE) = 0
  BY SizeAssumption, SMT DEF Use, Int8, UInt8
<1>2. BufUse' = Use(0, 0, FALSE)
  BY Zenon DEF BufUse, Clear
<1>. QED BY <1>1, <1>2

-----------------------------------------------------------------------------
(* The inductive invariant: the flag, the written slots and the high water *)
(* mark.  OccupiedSlotsAreWritten needs FullMeansWrapped to know which     *)
(* slot a put() overwrites, and both need the indices in range.            *)
Inv == TypeOK /\ FullMeansWrapped /\ OccupiedSlotsAreWritten /\ HighWaterMark

LEMMA InitInv == Init => Inv
<1>. SUFFICES ASSUME Init PROVE Inv
  OBVIOUS
<1>1. 0 \in Slot /\ 0 \in Byte
  BY SizeAssumption, SMT DEF Slot, Byte
<1>2. TypeOK /\ FullMeansWrapped
  BY <1>1 DEF Init, TypeOK, FullMeansWrapped
<1>3. BufUse = 0
  <2>1. Use(0, 0, FALSE) = 0
    BY SizeAssumption, SMT DEF Use, Int8, UInt8
  <2>. QED BY <2>1, Zenon DEF BufUse, Init
<1>4. OccupiedSlotsAreWritten
  BY <1>3, SMT DEF OccupiedSlotsAreWritten
<1>5. HighWaterMark
  BY <1>3, SizeAssumption, SMT DEF HighWaterMark, Init
<1>. QED BY <1>2, <1>4, <1>5 DEF Inv

(* The same slots are named with the modulus and without it.               *)
LEMMA OccupiedAt ==
  ASSUME NEW n \in 0 .. Capacity, NEW t \in Slot, NEW b
  PROVE  (\A i \in 0 .. n - 1 : b[(t + i) % Capacity] \in Item)
           <=> (\A i \in 0 .. n - 1 : b[At(t, i)] \in Item)
<1>1. \A i \in 0 .. n - 1 : i \in 0 .. Capacity
  BY SizeAssumption, SMT
<1>2. \A i \in 0 .. n - 1 : (t + i) % Capacity = At(t, i)
  BY <1>1, AtIsModulo
<1>. QED BY <1>2

(* Items at different distances from the oldest one sit in different       *)
(* slots, and the distance shrinks by one when the oldest one goes.        *)
LEMMA AtInjective ==
  ASSUME NEW t \in Slot, NEW i \in 0 .. Capacity - 1, NEW j \in 0 .. Capacity - 1,
         i # j
  PROVE  At(t, i) # At(t, j)
BY SizeAssumption, SMT DEF At, Slot

LEMMA AtShift ==
  ASSUME NEW t \in Slot, NEW i \in 0 .. Capacity - 1
  PROVE  At(At(t, 1), i) = At(t, i + 1)
BY SizeAssumption, SMT DEF At, Slot

(* What the slots hold after a put(), seen from the oldest item: the old   *)
(* items in their order, without the oldest when the buffer was full, and  *)
(* the new one behind them.                                                *)
LEMMA PutSlots ==
  ASSUME TypeOK, FullMeansWrapped, NEW e, Put(e), NEW i \in 0 .. BufUse' - 1
  PROVE  buffer'[At(tail', i)] = IF i = BufUse' - 1 THEN e
                                 ELSE IF full THEN buffer[At(tail, i + 1)]
                                 ELSE buffer[At(tail, i)]
<1>. DEFINE u == BufUse
            v == BufUse'
<1>1. /\ u \in 0 .. Capacity
      /\ full <=> u = Capacity
      /\ v = IF full THEN Capacity ELSE u + 1
      /\ head = IF full THEN tail ELSE At(tail, u)
      /\ tail' = IF full THEN At(tail, 1) ELSE tail
  BY PutUse
<1>2. /\ head \in Slot /\ tail \in Slot /\ full \in BOOLEAN
      /\ buffer' = [buffer EXCEPT ![head] = e]
      /\ buffer \in [Slot -> Item \cup {NoItem}]
  BY DEF Put, TypeOK
<1>3. \A s \in Slot : buffer'[s] = IF s = head THEN e ELSE buffer[s]
  BY <1>2
<1>4. i \in 0 .. v - 1
  OBVIOUS
<1>. HIDE DEF u, v
<1>5. CASE full
  <2>1. i \in 0 .. Capacity - 1 /\ v = Capacity /\ tail' = At(tail, 1) /\ head = tail
    BY <1>1, <1>4, <1>5
  <2>2. At(tail', i) = At(tail, i + 1)
    BY <1>2, <2>1, AtShift
  <2>3. At(tail, i + 1) \in Slot /\ (At(tail, i + 1) = tail <=> i = Capacity - 1)
    BY <1>2, <2>1, SizeAssumption, SMT DEF At, Slot
  <2>. QED BY <1>3, <1>5, <2>1, <2>2, <2>3 DEF v
<1>6. CASE ~full
  <2>1. /\ u \in 0 .. Capacity - 1 /\ i \in 0 .. u /\ i \in 0 .. Capacity - 1
        /\ v = u + 1 /\ v - 1 = u
    BY <1>1, <1>4, <1>6, SizeAssumption, SMT
  <2>2. tail' = tail /\ head = At(tail, u)
    BY <1>1, <1>6
  <2>3. At(tail, i) = head <=> i = u
    BY <1>2, <2>1, <2>2, AtInjective
  <2>4. At(tail, i) \in Slot
    BY <1>2, <2>1, SizeAssumption, SMT DEF At, Slot
  <2>. QED BY <1>3, <1>6, <2>1, <2>2, <2>3, <2>4 DEF v
<1>. QED BY <1>5, <1>6

LEMMA PutOccupied ==
  ASSUME Inv, TypeOK', NEW e \in Item, Put(e)
  PROVE  OccupiedSlotsAreWritten'
<1>1. TypeOK /\ FullMeansWrapped /\ OccupiedSlotsAreWritten
  BY DEF Inv
<1>. DEFINE u == BufUse
            v == BufUse'
<1>2. /\ u \in 0 .. Capacity
      /\ full <=> u = Capacity
      /\ v = IF full THEN Capacity ELSE u + 1
  BY <1>1, PutUse
<1>3. tail \in Slot /\ tail' \in Slot /\ full \in BOOLEAN
  BY <1>1 DEF TypeOK
<1>4. \A i \in 0 .. u - 1 : buffer[At(tail, i)] \in Item
  BY <1>1, <1>2, <1>3, OccupiedAt DEF OccupiedSlotsAreWritten
<1>5. \A i \in 0 .. v - 1 :
         buffer'[At(tail', i)] = IF i = v - 1 THEN e
                                 ELSE IF full THEN buffer[At(tail, i + 1)]
                                 ELSE buffer[At(tail, i)]
  BY <1>1, PutSlots
<1>. HIDE DEF u, v
<1>6. v \in 0 .. Capacity
  BY <1>2, SizeAssumption, SMT
<1>7. ASSUME NEW i \in 0 .. v - 1 PROVE buffer'[At(tail', i)] \in Item
  <2>1. i = v - 1 \/ (full /\ i + 1 \in 0 .. u - 1) \/ (~full /\ i \in 0 .. u - 1)
    BY <1>2, <1>3, SizeAssumption, SMT
  <2>. QED BY <1>4, <1>5, <2>1
<1>. QED BY <1>3, <1>6, <1>7, OccupiedAt DEF OccupiedSlotsAreWritten, v

LEMMA PopOccupied ==
  ASSUME Inv, TypeOK', Pop
  PROVE  OccupiedSlotsAreWritten'
<1>1. TypeOK /\ FullMeansWrapped /\ OccupiedSlotsAreWritten
  BY DEF Inv
<1>. DEFINE u == BufUse
            v == BufUse'
<1>2. u \in 1 .. Capacity /\ v = u - 1 /\ tail' = At(tail, 1) /\ tail' \in Slot
  BY <1>1, PopUse
<1>3. tail \in Slot /\ buffer' = buffer
  BY <1>1 DEF TypeOK, Pop
<1>4. u \in 0 .. Capacity /\ v \in 0 .. Capacity
  BY <1>2, SizeAssumption, SMT
<1>5. \A i \in 0 .. u - 1 : buffer[At(tail, i)] \in Item
  BY <1>1, <1>3, <1>4, OccupiedAt DEF OccupiedSlotsAreWritten
<1>. HIDE DEF u, v
<1>6. ASSUME NEW i \in 0 .. v - 1 PROVE buffer'[At(tail', i)] \in Item
  <2>1. i \in 0 .. Capacity - 1 /\ i + 1 \in 0 .. u - 1
    BY <1>2, SizeAssumption, SMT
  <2>2. At(tail', i) = At(tail, i + 1)
    BY <1>2, <1>3, <2>1, AtShift
  <2>. QED BY <1>3, <1>5, <2>1, <2>2
<1>. QED BY <1>2, <1>4, <1>6, OccupiedAt DEF OccupiedSlotsAreWritten, v

LEMMA NextInv == Inv /\ [Next]_vars => Inv'
<1>. SUFFICES ASSUME Inv, [Next]_vars PROVE Inv'
  OBVIOUS
<1>0. TypeOK /\ FullMeansWrapped /\ OccupiedSlotsAreWritten /\ HighWaterMark
  BY DEF Inv
<1>1. TypeOK'
  BY <1>0, TypeStep
<1>2. ASSUME NEW e \in Item, Put(e) PROVE Inv'
  <2>1. FullMeansWrapped'
    BY <1>2 DEF Put, FullMeansWrapped
  <2>2. OccupiedSlotsAreWritten'
    BY <1>1, <1>2, PutOccupied
  <2>3. HighWaterMark'
    <3>. DEFINE u == BufUse
                v == BufUse'
    <3>1. u \in 0 .. Capacity /\ v = IF full THEN Capacity ELSE u + 1
      BY <1>0, <1>2, PutUse
    <3>2. full <=> u = Capacity
      BY <1>0, <1>2, PutUse
    <3>3. hwm' = IF v > hwm THEN v ELSE hwm
      BY <1>2, Zenon DEF Put, BufUse
    <3>4. u <= hwm /\ hwm <= Capacity /\ hwm \in Nat
      BY <1>0, SMT DEF HighWaterMark, TypeOK, Byte
    <3>. HIDE DEF u, v
    <3>5. v <= hwm' /\ hwm' <= Capacity
      BY <3>1, <3>2, <3>3, <3>4, SizeAssumption, SMT
    <3>. QED BY <3>5 DEF HighWaterMark, v
  <2>. QED BY <1>1, <2>1, <2>2, <2>3 DEF Inv
<1>3. CASE Pop
  <2>1. FullMeansWrapped'
    BY <1>3 DEF Pop, FullMeansWrapped
  <2>2. OccupiedSlotsAreWritten'
    BY <1>1, <1>3, PopOccupied
  <2>3. HighWaterMark'
    <3>. DEFINE u == BufUse
                v == BufUse'
    <3>1. u \in 1 .. Capacity /\ v = u - 1
      BY <1>0, <1>3, PopUse
    <3>2. u <= hwm /\ hwm <= Capacity /\ hwm \in Nat /\ hwm' = hwm
      BY <1>0, <1>3 DEF HighWaterMark, TypeOK, Byte, Pop
    <3>. HIDE DEF u, v
    <3>3. v <= hwm' /\ hwm' <= Capacity
      BY <3>1, <3>2, SizeAssumption, SMT
    <3>. QED BY <3>3 DEF HighWaterMark, v
  <2>. QED BY <1>1, <2>1, <2>2, <2>3 DEF Inv
<1>4. CASE Clear
  <2>1. BufUse' = 0
    BY <1>4, ClearUse
  <2>2. FullMeansWrapped'
    BY <1>4 DEF Clear, FullMeansWrapped
  <2>3. OccupiedSlotsAreWritten'
    BY <2>1, SMT DEF OccupiedSlotsAreWritten
  <2>4. HighWaterMark'
    <3>1. hwm \in Nat /\ hwm <= Capacity /\ hwm' = hwm
      BY <1>0, <1>4 DEF HighWaterMark, TypeOK, Byte, Clear, counters
    <3>. QED BY <2>1, <3>1, SMT DEF HighWaterMark
  <2>. QED BY <1>1, <2>2, <2>3, <2>4 DEF Inv
<1>5. CASE Peek \/ UNCHANGED vars
  <2>1. UNCHANGED <<buffer, head, tail, full, hwm>>
    BY <1>5 DEF Peek, vars, indices, counters
  <2>2. BufUse' = BufUse
    BY <2>1, Zenon DEF BufUse
  <2>. QED
    BY <1>0, <1>1, <2>1, <2>2
    DEF Inv, FullMeansWrapped, OccupiedSlotsAreWritten, HighWaterMark
<1>. QED BY <1>2, <1>3, <1>4, <1>5 DEF Next

(* The flag is set only while the two indices coincide, so available() and *)
(* bufUse() can tell a full buffer from an empty one.                      *)
THEOREM FullIsUnambiguous == Spec => []FullMeansWrapped
<1>1. Inv => FullMeansWrapped
  BY DEF Inv
<1>. QED BY <1>1, InitInv, NextInv, PTL DEF Spec

(* pop() and peek() only ever hand out a slot that a put() filled.         *)
THEOREM SlotsWritten == Spec => []OccupiedSlotsAreWritten
<1>1. Inv => OccupiedSlotsAreWritten
  BY DEF Inv
<1>. QED BY <1>1, InitInv, NextInv, PTL DEF Spec

(* The high water mark bounds every occupancy, up to the capacity.         *)
THEOREM HighWaterMarkBounds == Spec => []HighWaterMark
<1>1. Inv => HighWaterMark
  BY DEF Inv
<1>. QED BY <1>1, InitInv, NextInv, PTL DEF Spec
-----------------------------------------------------------------------------
(* Conservation.  The sum on the right of CountersAddUp is less than four  *)
(* turns of a byte; a step moves it by what it moves numPuts, or by one    *)
(* turn less when one of the counters wraps.                               *)
LEMMA Turns ==
  ASSUME NEW s \in 0 .. 4 * ByteSize - 1
  PROVE  s % ByteSize = IF s < ByteSize THEN s
                        ELSE IF s < 2 * ByteSize THEN s - ByteSize
                        ELSE IF s < 3 * ByteSize THEN s - 2 * ByteSize
                        ELSE s - 3 * ByteSize
<1>. DEFINE q == s \div ByteSize
            r == s % ByteSize
<1>1. ByteSize \in Nat \ {0} /\ s \in Nat
  BY SizeAssumption, SMT
<1>2. s = ByteSize * q + r /\ q \in Int /\ r \in 0 .. ByteSize - 1
  BY <1>1, SMT
<1>. HIDE DEF q, r
<1>3. ByteSize * q > -ByteSize /\ ByteSize * q < 4 * ByteSize
  BY <1>1, <1>2, SMT
<1>4. q \in 0 .. 3
  <2>1. CASE q < 0
    <3>1. ByteSize * q <= -ByteSize
      BY <1>1, <1>2, <2>1, SMT
    <3>. QED BY <1>1, <1>2, <1>3, <3>1, SMT
  <2>2. CASE q > 3
    <3>1. ByteSize * q >= 4 * ByteSize
      BY <1>1, <1>2, <2>2, SMT
    <3>. QED BY <1>1, <1>2, <1>3, <3>1, SMT
  <2>. QED BY <1>2, <2>1, <2>2, SMT
<1>5. CASE q = 0
  BY <1>1, <1>2, <1>5, SMT DEF r
<1>6. CASE q = 1
  BY <1>1, <1>2, <1>6, SMT DEF r
<1>7. CASE q = 2
  BY <1>1, <1>2, <1>7, SMT DEF r
<1>8. CASE q = 3
  BY <1>1, <1>2, <1>8, SMT DEF r
<1>. QED BY <1>4, <1>5, <1>6, <1>7, <1>8, SMT

Accounted == (numGets + numOverflows + discarded) + BufUse

LEMMA FourBytes ==
  ASSUME NEW g \in Byte, NEW o \in Byte, NEW d \in Byte, NEW u \in Byte
  PROVE  (g + o + d) + u \in 0 .. 4 * ByteSize - 1
BY SizeAssumption, SMT DEF Byte

LEMMA ClearedSum ==
  ASSUME NEW g \in Byte, NEW o \in Byte, NEW d \in Byte, NEW u \in Byte,
         NEW e, e = d + u \/ e = (d + u) - ByteSize
  PROVE  \/ (g + o + e) + 0 = (g + o + d) + u
         \/ (g + o + e) + 0 = ((g + o + d) + u) - ByteSize
BY SizeAssumption, SMT DEF Byte

LEMMA CounterRanges ==
  ASSUME TypeOK
  PROVE  /\ numPuts \in Byte /\ numGets \in Byte /\ numOverflows \in Byte
         /\ discarded \in Byte /\ BufUse \in 0 .. Capacity /\ BufUse \in Byte
         /\ Accounted \in 0 .. 4 * ByteSize - 1
<1>1. BufUse \in 0 .. Capacity /\ BufUse \in Byte
  BY UseRange DEF BufUse, TypeOK
<1>. QED BY <1>1, SizeAssumption, SMT DEF TypeOK, Byte, Accounted

LEMMA BumpIs ==
  ASSUME NEW n \in Byte
  PROVE  Bump(n) = IF n + 1 = ByteSize THEN 0 ELSE n + 1
<1>1. n + 1 \in 0 .. 4 * ByteSize - 1 /\ n + 1 <= ByteSize
  BY SizeAssumption, SMT DEF Byte
<1>2. (n + 1) % ByteSize = IF n + 1 < ByteSize THEN n + 1 ELSE (n + 1) - ByteSize
  BY <1>1, Turns, SizeAssumption, SMT DEF Byte
<1>. QED BY <1>1, <1>2, SizeAssumption, SMT DEF Bump, Byte

LEMMA SameTurn ==
  ASSUME NEW s \in 0 .. 4 * ByteSize - 1, NEW t \in 0 .. 4 * ByteSize - 1,
         t = s \/ t = s - ByteSize
  PROVE  t % ByteSize = s % ByteSize
BY Turns, SizeAssumption, SMT

LEMMA NextTurn ==
  ASSUME NEW s \in 0 .. 4 * ByteSize - 1, NEW t \in 0 .. 4 * ByteSize - 1,
         t = s + 1 \/ t = (s + 1) - ByteSize
  PROVE  t % ByteSize = Bump(s % ByteSize) /\ s % ByteSize \in Byte
<1>1. s % ByteSize \in Byte
  BY Turns, SizeAssumption, SMT DEF Byte
<1>2. Bump(s % ByteSize) = IF (s % ByteSize) + 1 = ByteSize THEN 0 ELSE (s % ByteSize) + 1
  BY <1>1, BumpIs
<1>. DEFINE x == s % ByteSize
            y == t % ByteSize
<1>3. x = IF s < ByteSize THEN s
          ELSE IF s < 2 * ByteSize THEN s - ByteSize
          ELSE IF s < 3 * ByteSize THEN s - 2 * ByteSize
          ELSE s - 3 * ByteSize
  BY Turns
<1>4. y = IF t < ByteSize THEN t
          ELSE IF t < 2 * ByteSize THEN t - ByteSize
          ELSE IF t < 3 * ByteSize THEN t - 2 * ByteSize
          ELSE t - 3 * ByteSize
  BY Turns
<1>. HIDE DEF x, y
<1>5. y = IF x + 1 = ByteSize THEN 0 ELSE x + 1
  BY <1>3, <1>4, SizeAssumption, SMT
<1>. QED BY <1>1, <1>2, <1>5 DEF x, y

LEMMA StepAddsUp ==
  ASSUME Inv, TypeOK', CountersAddUp, [Next]_vars
  PROVE  CountersAddUp'
<1>. DEFINE a == Accounted
            b == Accounted'
<1>1. TypeOK /\ FullMeansWrapped
  BY DEF Inv
<1>2. /\ numPuts \in Byte /\ numGets \in Byte /\ numOverflows \in Byte /\ discarded \in Byte
      /\ BufUse \in 0 .. Capacity /\ BufUse \in Byte /\ a \in 0 .. 4 * ByteSize - 1
  BY <1>1, CounterRanges
<1>3. b \in 0 .. 4 * ByteSize - 1
  <2>1. head' \in Slot /\ tail' \in Slot /\ full' \in BOOLEAN
    BY DEF TypeOK
  <2>2. BufUse' \in Byte
    BY <2>1, UseRange DEF BufUse
  <2>3. b = (numGets' + numOverflows' + discarded') + BufUse'
    BY Zenon DEF Accounted
  <2>4. numGets' \in Byte /\ numOverflows' \in Byte /\ discarded' \in Byte
    BY DEF TypeOK
  <2>. HIDE DEF b
  <2>. QED BY <2>2, <2>3, <2>4, FourBytes
<1>4. numPuts = a % ByteSize
  BY DEF CountersAddUp, Accounted
<1>5. SUFFICES numPuts' = b % ByteSize
  BY DEF CountersAddUp, Accounted
<1>6. ASSUME NEW e \in Item, Put(e) PROVE numPuts' = b % ByteSize
  <2>1. (full <=> BufUse = Capacity) /\ BufUse' = IF full THEN Capacity ELSE BufUse + 1
    BY <1>1, <1>6, PutUse
  <2>2. /\ numOverflows' = IF full THEN Bump(numOverflows) ELSE numOverflows
        /\ numPuts' = Bump(numPuts) /\ numGets' = numGets /\ discarded' = discarded
    BY <1>6 DEF Put
  <2>3. numOverflows' \in {numOverflows, numOverflows + 1, (numOverflows + 1) - ByteSize}
    BY <1>2, <2>2, BumpIs, SMT DEF Byte
  <2>4. b = a + 1 \/ b = (a + 1) - ByteSize
    <3>1. full => numOverflows' \in {numOverflows + 1, (numOverflows + 1) - ByteSize}
      BY <1>2, <2>2, BumpIs, SizeAssumption, SMT DEF Byte
    <3>. QED BY <1>2, <2>1, <2>2, <3>1, SizeAssumption, SMT DEF Byte, Accounted
  <2>. HIDE DEF a, b
  <2>. QED BY <1>2, <1>3, <1>4, <2>2, <2>4, NextTurn
<1>7. CASE Pop
  <2>1. BufUse' = BufUse - 1
    BY <1>1, <1>7, PopUse
  <2>2. /\ numGets' = Bump(numGets) /\ numPuts' = numPuts
        /\ numOverflows' = numOverflows /\ discarded' = discarded
    BY <1>7 DEF Pop
  <2>3. numGets' \in {numGets + 1, (numGets + 1) - ByteSize}
    BY <1>2, <2>2, BumpIs, SizeAssumption, SMT DEF Byte
  <2>4. b = a \/ b = a - ByteSize
    BY <1>2, <2>1, <2>2, <2>3, SizeAssumption, SMT DEF Byte, Accounted
  <2>. HIDE DEF a, b
  <2>. QED BY <1>2, <1>3, <1>4, <2>2, <2>4, SameTurn
<1>8. CASE Clear
  <2>1. BufUse' = 0
    BY <1>8, ClearUse
  <2>2. /\ discarded' = (discarded + BufUse) % ByteSize
        /\ numPuts' = numPuts /\ numGets' = numGets /\ numOverflows' = numOverflows
    BY <1>8 DEF Clear, counters
  <2>3. discarded' \in {discarded + BufUse, (discarded + BufUse) - ByteSize}
    <3>1. discarded + BufUse \in 0 .. 4 * ByteSize - 1 /\ discarded + BufUse < 2 * ByteSize
      BY <1>2, SizeAssumption, SMT DEF Byte
    <3>. QED BY <2>2, <3>1, Turns
  <2>4. b = a \/ b = a - ByteSize
    <3>1. /\ b = (numGets' + numOverflows' + discarded') + BufUse'
          /\ a = (numGets + numOverflows + discarded) + BufUse
      BY Zenon DEF Accounted
    <3>2. BufUse' = 0 /\ numGets' = numGets /\ numOverflows' = numOverflows
      BY <2>1, <2>2
    <3>. HIDE DEF a, b
    <3>3. \/ (numGets + numOverflows + discarded') + 0 = (numGets + numOverflows + discarded) + BufUse
          \/ (numGets + numOverflows + discarded') + 0
               = ((numGets + numOverflows + discarded) + BufUse) - ByteSize
      <4>1. discarded' = discarded + BufUse \/ discarded' = (discarded + BufUse) - ByteSize
        BY <2>3
      <4>. QED BY <1>2, <4>1, ClearedSum
    <3>. QED BY <3>1, <3>2, <3>3
  <2>. HIDE DEF a, b
  <2>. QED BY <1>2, <1>3, <1>4, <2>2, <2>4, SameTurn
<1>9. CASE Peek \/ UNCHANGED vars
  <2>1. UNCHANGED <<head, tail, full, numPuts, numGets, numOverflows, discarded>>
    BY <1>9 DEF Peek, vars, indices, counters
  <2>2. BufUse' = BufUse
    BY <2>1, Zenon DEF BufUse
  <2>. QED BY <1>4, <2>1, <2>2 DEF Accounted
<1>. QED BY <1>6, <1>7, <1>8, <1>9 DEF Next

(* Nothing that was put is forgotten: modulo the width of the counters,    *)
(* what was put is held, was handed out, was overwritten or was cleared,   *)
(* through every wrap-around of the four counters.                         *)
THEOREM CountersAlwaysAddUp == Spec => []CountersAddUp
<1>1. Init => CountersAddUp
  <2>. SUFFICES ASSUME Init PROVE CountersAddUp
    OBVIOUS
  <2>1. BufUse = 0
    <3>1. Use(0, 0, FALSE) = 0
      BY SizeAssumption, SMT DEF Use, Int8, UInt8
    <3>. QED BY <3>1, Zenon DEF BufUse, Init
  <2>2. 0 \in 0 .. 4 * ByteSize - 1 /\ 0 < ByteSize
    BY SizeAssumption, SMT
  <2>3. 0 % ByteSize = 0
    BY <2>2, Turns
  <2>4. numGets + numOverflows + discarded + BufUse = 0 /\ numPuts = 0
    BY <2>1, SMT DEF Init
  <2>. QED BY <2>3, <2>4 DEF CountersAddUp
<1>2. (Inv /\ CountersAddUp) /\ [Next]_vars => (Inv /\ CountersAddUp)'
  <2>1. Inv /\ [Next]_vars => Inv' /\ TypeOK'
    BY NextInv DEF Inv
  <2>. QED BY <2>1, StepAddsUp
<1>. QED BY <1>1, <1>2, InitInv, PTL DEF Spec
-----------------------------------------------------------------------------
(* The refinement.  Read gives Contents explicit parameters, so that what  *)
(* is known of it serves the state before a step and the one after it.     *)
Entry == Item \cup {NoItem}

Read(b, t, n) == [i \in 1 .. n |-> b[(t + i - 1) % Capacity]]

LEMMA ReadIsASeq ==
  ASSUME NEW n \in 0 .. Capacity, NEW t \in Slot, NEW b \in [Slot -> Entry]
  PROVE  /\ Read(b, t, n) \in Seq(Entry)
         /\ Len(Read(b, t, n)) = n
         /\ \A j \in 1 .. n : Read(b, t, n)[j] = b[At(t, j - 1)]
<1>1. n \in Nat
  BY SizeAssumption, SMT
<1>2. ASSUME NEW j \in 1 .. n PROVE (t + j - 1) % Capacity = At(t, j - 1) /\ At(t, j - 1) \in Slot
  <2>1. j - 1 \in 0 .. Capacity /\ t + j - 1 = t + (j - 1)
    BY SizeAssumption, SMT DEF Slot
  <2>. QED BY <2>1, AtIsModulo
<1>3. \A j \in 1 .. n : Read(b, t, n)[j] = b[At(t, j - 1)]
  BY <1>2 DEF Read
<1>4. Read(b, t, n) \in [1 .. n -> Entry]
  BY <1>2 DEF Read
<1>5. Read(b, t, n) \in Seq(Entry)
  BY <1>1, <1>4, SeqDef
<1>6. Len(Read(b, t, n)) = n
  <2>1. DOMAIN Read(b, t, n) = 1 .. n
    BY <1>4
  <2>2. DOMAIN Read(b, t, n) = 1 .. Len(Read(b, t, n)) /\ Len(Read(b, t, n)) \in Nat
    BY <1>5, LenProperties
  <2>. HIDE DEF Read
  <2>. QED BY <1>1, <2>1, <2>2, SMT
<1>. QED BY <1>3, <1>5, <1>6

(* What the abstract queue is after a put().                               *)
LEMMA PushedIsASeq ==
  ASSUME NEW s \in Seq(Entry), Len(s) <= Capacity, NEW e \in Entry
  PROVE  LET q == Abstract!Pushed(s, e)
             drop == Len(s) = Capacity
         IN  /\ q \in Seq(Entry)
             /\ Len(q) = IF drop THEN Capacity ELSE Len(s) + 1
             /\ \A j \in 1 .. Len(q) :
                  q[j] = IF j = Len(q) THEN e
                         ELSE IF drop THEN s[j + 1] ELSE s[j]
<1>. DEFINE r == IF Len(s) = Capacity THEN Tail(s) ELSE s
<1>1. Len(s) \in Nat
  BY LenProperties
<1>2. /\ r \in Seq(Entry)
      /\ Len(r) = IF Len(s) = Capacity THEN Capacity - 1 ELSE Len(s)
      /\ \A j \in 1 .. Len(r) : r[j] = IF Len(s) = Capacity THEN s[j + 1] ELSE s[j]
  <2>1. CASE Len(s) = Capacity
    <3>1. s # <<>>
      BY <2>1, SizeAssumption, EmptySeq, SMT
    <3>. QED BY <2>1, <3>1, HeadTailProperties
  <2>2. CASE Len(s) # Capacity
    BY <2>2
  <2>. QED BY <2>1, <2>2
<1>. HIDE DEF r
<1>3. /\ Append(r, e) \in Seq(Entry)
      /\ Len(Append(r, e)) = Len(r) + 1
      /\ \A j \in 1 .. Len(r) + 1 :
           Append(r, e)[j] = IF j = Len(r) + 1 THEN e ELSE r[j]
  BY <1>2, AppendProperties, LenProperties, SMT
<1>4. Abstract!Pushed(s, e) = Append(r, e)
  BY DEF Abstract!Pushed, r
<1>. QED BY <1>1, <1>2, <1>3, <1>4, SizeAssumption, SMT

(* The facts about Contents that the steps below share: before the step,   *)
(* and after it.                                                           *)
LEMMA ContentsBefore ==
  ASSUME TypeOK
  PROVE  /\ BufUse \in 0 .. Capacity
         /\ Contents \in Seq(Entry)
         /\ Len(Contents) = BufUse
         /\ \A j \in 1 .. BufUse : Contents[j] = buffer[At(tail, j - 1)]
<1>1. head \in Slot /\ tail \in Slot /\ full \in BOOLEAN /\ buffer \in [Slot -> Entry]
  BY DEF TypeOK, Entry
<1>2. BufUse \in 0 .. Capacity
  BY <1>1, UseRange DEF BufUse
<1>3. Contents = Read(buffer, tail, BufUse)
  BY DEF Contents, Read
<1>. QED BY <1>1, <1>2, <1>3, ReadIsASeq

LEMMA ContentsAfter ==
  ASSUME TypeOK'
  PROVE  /\ BufUse' \in 0 .. Capacity
         /\ Contents' \in Seq(Entry)
         /\ Len(Contents') = BufUse'
         /\ \A j \in 1 .. BufUse' : Contents'[j] = buffer'[At(tail', j - 1)]
<1>1. head' \in Slot /\ tail' \in Slot /\ full' \in BOOLEAN /\ buffer' \in [Slot -> Entry]
  BY DEF TypeOK, Entry
<1>2. BufUse' \in 0 .. Capacity
  BY <1>1, UseRange DEF BufUse
<1>3. Contents' = Read(buffer', tail', BufUse')
  BY DEF Contents, Read
<1>. QED BY <1>1, <1>2, <1>3, ReadIsASeq

LEMMA PutRefines ==
  ASSUME TypeOK, TypeOK', FullMeansWrapped, NEW e \in Item, Put(e)
  PROVE  Abstract!Put(e)
<1>. DEFINE u == BufUse
            v == BufUse'
            c == Contents
            d == Contents'
            q == Abstract!Pushed(c, e)
<1>1. /\ u \in 0 .. Capacity
      /\ full <=> u = Capacity
      /\ v = IF full THEN Capacity ELSE u + 1
  BY PutUse
<1>2. /\ c \in Seq(Entry) /\ Len(c) = u
      /\ \A j \in 1 .. u : c[j] = buffer[At(tail, j - 1)]
  BY ContentsBefore
<1>3. /\ d \in Seq(Entry) /\ Len(d) = v
      /\ \A j \in 1 .. v : d[j] = buffer'[At(tail', j - 1)]
  BY ContentsAfter
<1>4. \A i \in 0 .. v - 1 :
         buffer'[At(tail', i)] = IF i = v - 1 THEN e
                                 ELSE IF full THEN buffer[At(tail, i + 1)]
                                 ELSE buffer[At(tail, i)]
  BY PutSlots
<1>5. e \in Entry /\ full \in BOOLEAN
  BY DEF Entry, TypeOK
<1>. HIDE DEF c, u
<1>6. /\ q \in Seq(Entry)
      /\ Len(q) = IF u = Capacity THEN Capacity ELSE u + 1
      /\ \A j \in 1 .. Len(q) :
           q[j] = IF j = Len(q) THEN e
                  ELSE IF u = Capacity THEN c[j + 1] ELSE c[j]
  <2>1. Len(c) <= Capacity
    BY <1>1, <1>2, SizeAssumption, SMT
  <2>. QED BY <1>2, <1>5, <2>1, PushedIsASeq
<1>. HIDE DEF d, q, v
<1>7. Len(d) = Len(q)
  BY <1>1, <1>3, <1>6
<1>8. ASSUME NEW j \in 1 .. Len(d) PROVE d[j] = q[j]
  <2>1. j - 1 \in 0 .. v - 1 /\ j \in 1 .. v /\ (j - 1 = v - 1 <=> j = v) /\ (j - 1) + 1 = j
    BY <1>1, <1>3, SizeAssumption, SMT
  <2>2. d[j] = IF j = v THEN e
               ELSE IF full THEN buffer[At(tail, j)] ELSE buffer[At(tail, j - 1)]
    BY <1>3, <1>4, <2>1
  <2>3. q[j] = IF j = v THEN e ELSE IF full THEN c[j + 1] ELSE c[j]
    BY <1>1, <1>3, <1>6, <1>7, <2>1
  <2>4. CASE j = v
    BY <2>2, <2>3, <2>4
  <2>5. CASE j # v /\ full
    <3>1. j + 1 \in 1 .. u /\ (j + 1) - 1 = j
      BY <1>1, <2>1, <2>5, SizeAssumption, SMT
    <3>2. c[j + 1] = buffer[At(tail, j)]
      BY <1>2, <3>1
    <3>. QED BY <2>2, <2>3, <2>5, <3>2
  <2>6. CASE j # v /\ ~full
    <3>1. j \in 1 .. u
      BY <1>1, <2>1, <2>6, SizeAssumption, SMT
    <3>. QED BY <1>2, <2>2, <2>3, <2>6, <3>1
  <2>. QED BY <1>5, <2>4, <2>5, <2>6
<1>9. d = q
  BY <1>3, <1>6, <1>7, <1>8, SeqEqual
<1>. QED BY <1>9 DEF Abstract!Put, Put, d, q, c

LEMMA ReadOldest ==
  ASSUME TypeOK, Available
  PROVE  /\ Contents # <<>>
         /\ Head(Contents) = buffer[tail]
<1>1. head \in Slot /\ tail \in Slot /\ full \in BOOLEAN
  BY DEF TypeOK
<1>2. BufUse = IF full THEN Capacity
               ELSE IF head >= tail THEN head - tail ELSE head - tail + Capacity
  BY <1>1, UseIsDistance DEF BufUse
<1>3. BufUse >= 1 /\ 1 \in 1 .. BufUse
  BY <1>1, <1>2, SizeAssumption, SMT DEF Slot, Available
<1>4. /\ Contents \in Seq(Entry) /\ Len(Contents) = BufUse
      /\ Contents[1] = buffer[At(tail, 0)]
  BY <1>3, ContentsBefore, SMT
<1>5. At(tail, 0) = tail
  BY <1>1, SizeAssumption, SMT DEF At, Slot
<1>. HIDE DEF Contents, BufUse
<1>6. Contents # <<>>
  BY <1>3, <1>4, EmptySeq, SMT
<1>. QED BY <1>4, <1>5, <1>6 

LEMMA PopRefines ==
  ASSUME TypeOK, TypeOK', FullMeansWrapped, Pop
  PROVE  Abstract!Pop
<1>. DEFINE u == BufUse
            v == BufUse'
            c == Contents
            d == Contents'
<1>1. u \in 1 .. Capacity /\ v = u - 1 /\ tail' = At(tail, 1)
  BY PopUse
<1>2. /\ c \in Seq(Entry) /\ Len(c) = u
      /\ \A j \in 1 .. u : c[j] = buffer[At(tail, j - 1)]
  BY ContentsBefore
<1>3. /\ d \in Seq(Entry) /\ Len(d) = v
      /\ \A j \in 1 .. v : d[j] = buffer'[At(tail', j - 1)]
  BY ContentsAfter
<1>4. c # <<>> /\ Head(c) = buffer[tail]
  BY ReadOldest DEF Pop
<1>5. buffer' = buffer /\ tail \in Slot
  BY DEF Pop, TypeOK
<1>. HIDE DEF u, v, c, d
<1>6. /\ Tail(c) \in Seq(Entry)
      /\ Len(Tail(c)) = u - 1
      /\ \A j \in 1 .. Len(Tail(c)) : Tail(c)[j] = c[j + 1]
  BY <1>2, <1>4, HeadTailProperties
<1>7. ASSUME NEW j \in 1 .. Len(d) PROVE d[j] = Tail(c)[j]
  <2>1. /\ j \in 1 .. v /\ j \in 1 .. Len(Tail(c)) /\ j + 1 \in 1 .. u
        /\ j - 1 \in 0 .. Capacity - 1 /\ (j + 1) - 1 = j /\ (j - 1) + 1 = j
    BY <1>1, <1>3, <1>6, SizeAssumption, SMT
  <2>2. At(tail', j - 1) = At(tail, j)
    BY <1>1, <1>5, <2>1, AtShift
  <2>. QED BY <1>2, <1>3, <1>5, <1>6, <2>1, <2>2
<1>8. d = Tail(c)
  BY <1>1, <1>3, <1>6, <1>7, SeqEqual
<1>. QED BY <1>4, <1>8 DEF Abstract!Pop, Pop, c, d

(* Every step of the ring buffer is a step of the FIFO that overwrites its *)
(* oldest item, or a stutter, so the class keeps the order of the actions  *)
(* and tasks it holds and loses only the oldest.                           *)
THEOREM Refinement == Spec => RefinesQueue
<1>1. Init => Abstract!Init
  <2>. SUFFICES ASSUME Init PROVE Abstract!Init
    OBVIOUS
  <2>1. TypeOK
    BY InitInv DEF Inv
  <2>2. BufUse = 0
    <3>1. Use(0, 0, FALSE) = 0
      BY SizeAssumption, SMT DEF Use, Int8, UInt8
    <3>. QED BY <3>1, Zenon DEF BufUse, Init
  <2>3. Contents \in Seq(Entry) /\ Len(Contents) = 0
    BY <2>1, <2>2, ContentsBefore
  <2>4. Contents = <<>>
    BY <2>3, EmptySeq, SMT
  <2>. QED BY <2>4 DEF Abstract!Init, Init
<1>2. Inv /\ [Next]_vars => [Abstract!Next]_(Abstract!vars)
  <2>. SUFFICES ASSUME Inv, [Next]_vars PROVE [Abstract!Next]_(Abstract!vars)
    OBVIOUS
  <2>1. TypeOK /\ TypeOK' /\ FullMeansWrapped
    BY TypeStep DEF Inv
  <2>2. ASSUME NEW e \in Item, Put(e) PROVE Abstract!Next
    BY <2>1, <2>2, PutRefines DEF Abstract!Next
  <2>3. CASE Pop
    BY <2>1, <2>3, PopRefines DEF Abstract!Next
  <2>4. ASSUME Peek \/ UNCHANGED vars PROVE Contents' = Contents
    <3>1. UNCHANGED <<buffer, head, tail, full>>
      BY <2>4 DEF Peek, vars, indices, counters
    <3>2. BufUse' = BufUse
      BY <3>1, Zenon DEF BufUse
    <3>. QED BY <3>1, <3>2 DEF Contents
  <2>5. CASE Peek
    BY <2>1, <2>4, <2>5, ReadOldest DEF Abstract!Next, Abstract!Peek, Peek
  <2>6. CASE Clear
    <3>1. BufUse' = 0
      BY <2>6, ClearUse
    <3>2. Contents' \in Seq(Entry) /\ Len(Contents') = 0
      BY <2>1, <3>1, ContentsAfter
    <3>3. Contents' = <<>>
      BY <3>2, EmptySeq, SMT
    <3>. QED BY <2>6, <3>3 DEF Abstract!Next, Abstract!Clear, Clear
  <2>7. CASE UNCHANGED vars
    BY <2>4, <2>7 DEF Abstract!vars, vars
  <2>. QED BY <2>2, <2>3, <2>5, <2>6, <2>7 DEF Next
<1>. QED BY <1>1, <1>2, InitInv, NextInv, PTL DEF Spec, RefinesQueue, Abstract!Spec

-----------------------------------------------------------------------------
(* Storage.                                                                *)

(* Pages of n cells.                                                       *)

LEMMA Split ==
  ASSUME NEW n \in Nat \ {0}, NEW a \in Nat
  PROVE  /\ a = (a \div n) * n + (a % n)
         /\ a % n \in 0 .. n - 1 /\ a \div n \in Nat
BY SMT

(* A cell is the r-th of page q in one way only.                           *)
LEMMA Place ==
  ASSUME NEW n \in Nat \ {0}, NEW q \in Nat, NEW r \in 0 .. n - 1
  PROVE  /\ q * n + r \in Nat
         /\ (q * n + r) \div n = q /\ (q * n + r) % n = r
<1>. DEFINE a == q * n + r
            p == a \div n
            s == a % n
<1>1. a \in Nat
  BY SMT
<1>2. p * n + s = q * n + r /\ s \in 0 .. n - 1 /\ p \in Nat
  BY <1>1, Split
<1>. HIDE DEF p, s
<1>3. ~(p > q)
  <2>1. SUFFICES ASSUME p > q PROVE FALSE
    OBVIOUS
  <2>2. PICK d \in Nat : p = q + 1 + d
    BY <1>2, <2>1, SMT
  <2>3. p * n = q * n + n + d * n /\ d * n >= 0
    BY <2>2, SMT
  <2>. QED BY <1>2, <2>3, SMT
<1>4. ~(p < q)
  <2>1. SUFFICES ASSUME p < q PROVE FALSE
    OBVIOUS
  <2>2. PICK d \in Nat : q = p + 1 + d
    BY <1>2, <2>1, SMT
  <2>3. q * n = p * n + n + d * n /\ d * n >= 0
    BY <1>2, <2>2, SMT
  <2>. QED BY <1>2, <2>3, SMT
<1>5. p = q
  BY <1>2, <1>3, <1>4, SMT
<1>6. s = r
  BY <1>2, <1>5, SMT
<1>. QED BY <1>1, <1>5, <1>6 DEF p, s

(* The cells between two cells of a page are cells of that page.           *)
LEMMA Between ==
  ASSUME NEW n \in Nat \ {0}, NEW a \in Nat, NEW b \in Nat, NEW c \in Nat,
         a <= c, c <= b, a \div n = b \div n
  PROVE  c \div n = a \div n /\ c % n = (a % n) + (c - a)
<1>. DEFINE q == a \div n
            base == q * n
            r == c - base
<1>1. /\ a = base + (a % n) /\ a % n \in 0 .. n - 1
      /\ b = base + (b % n) /\ b % n \in 0 .. n - 1
      /\ q \in Nat /\ base \in Nat
  <2>1. /\ a = (a \div n) * n + (a % n) /\ a % n \in 0 .. n - 1
        /\ b = (b \div n) * n + (b % n) /\ b % n \in 0 .. n - 1
        /\ q \in Nat
    BY Split
  <2>2. base \in Nat
    BY <2>1, SMT
  <2>. QED BY <2>1, <2>2
<1>. HIDE DEF base
<1>2. r \in 0 .. n - 1 /\ c = base + r /\ r = (a % n) + (c - a)
  BY <1>1, SMT
<1>. HIDE DEF r
<1>3. c = q * n + r
  BY <1>2 DEF base
<1>. HIDE DEF q
<1>4. (q * n + r) \div n = q /\ (q * n + r) % n = r
  BY <1>1, <1>2, Place
<1>5. c \div n = q /\ c % n = r
  BY <1>3, <1>4, Zenon
<1>. QED BY <1>2, <1>5 DEF q

LEMMA Sizes ==
  /\ PageSize \in Nat \ {0} /\ NumPages \in Nat \ {0} /\ ChipPage \in Nat \ {0}
  /\ RunLength \in Nat \ {0}
  /\ PageSize * NumPages \in Nat /\ Addr \subseteq Nat /\ FirstErased \in Addr
BY StorageAssumption, SMT DEF Addr

(* The pages of the storage are those numbered below NumPages.             *)
LEMMA PageOfAddr ==
  ASSUME NEW a \in Addr
  PROVE  /\ PageOf(a) \in 0 .. NumPages - 1
         /\ a = PageOf(a) * PageSize + (a % PageSize)
         /\ a % PageSize \in 0 .. PageSize - 1
<1>. DEFINE q == PageOf(a)
<1>1. a \in Nat /\ a < PageSize * NumPages
  BY Sizes, SMT DEF Addr
<1>2. q \in Nat /\ a = q * PageSize + (a % PageSize) /\ a % PageSize \in 0 .. PageSize - 1
  BY <1>1, Sizes, Split DEF PageOf
<1>. HIDE DEF q
<1>3. q < NumPages
  <2>1. SUFFICES ASSUME q >= NumPages PROVE FALSE
    BY <1>2, Sizes, SMT
  <2>2. PICK d \in Nat : q = NumPages + d
    BY <1>2, <2>1, Sizes, SMT
  <2>3. q * PageSize = PageSize * NumPages + d * PageSize /\ d * PageSize >= 0
    BY <2>2, Sizes, SMT
  <2>. QED BY <1>1, <1>2, <2>3, Sizes, SMT
<1>4. q \in 0 .. NumPages - 1
  BY <1>2, <1>3, Sizes, SMT
<1>. QED BY <1>2, <1>4 DEF q

LEMMA AddrOfPage ==
  ASSUME NEW p \in 0 .. NumPages - 1, NEW i \in 0 .. PageSize - 1
  PROVE  /\ p * PageSize + i \in Addr
         /\ PageOf(p * PageSize + i) = p /\ (p * PageSize + i) % PageSize = i
<1>1. /\ p * PageSize + i \in Nat
      /\ PageOf(p * PageSize + i) = p /\ (p * PageSize + i) % PageSize = i
  BY Sizes, Place DEF PageOf
<1>2. p * PageSize + i < PageSize * NumPages
  <2>1. PICK d \in Nat : NumPages = p + 1 + d
    BY Sizes, SMT
  <2>2. PageSize * NumPages = p * PageSize + PageSize + d * PageSize /\ d * PageSize >= 0
    BY <2>1, Sizes, SMT
  <2>3. p * PageSize \in Nat
    BY Sizes, SMT
  <2>. QED BY <2>2, <2>3, Sizes, SMT
<1>3. p * PageSize + i \in Addr
  BY <1>1, <1>2, Sizes, SMT DEF Addr
<1>. QED BY <1>1, <1>3

-----------------------------------------------------------------------------
(* Runs of bytes that do not cross the end of a page.                      *)

(* A run is a sequence of one byte or more.                                *)
LEMMA RunsAreSequences ==
  ASSUME NEW data \in Runs
  PROVE  /\ data \in Seq(Values) /\ Len(data) \in Nat \ {0}
         /\ DOMAIN data = 1 .. Len(data)
<1>1. PICK n \in {1, RunLength} : data \in [1 .. n -> Values]
  BY DEF Runs
<1>2. n \in Nat \ {0}
  BY <1>1, Sizes
<1>3. data \in Seq(Values) /\ Len(data) = n
  BY <1>1, <1>2, SeqDef, LenProperties, SMT
<1>. QED BY <1>1, <1>2, <1>3

(* What of a run was written when power failed.                            *)
LEMMA PartOfRun ==
  ASSUME NEW data \in Runs, NEW n \in 0 .. Len(data)
  PROVE  /\ DOMAIN SubSeq(data, 1, n) = 1 .. n
         /\ \A i \in 1 .. n : SubSeq(data, 1, n)[i] = data[i]
<1>1. data \in Seq(Values) /\ 1 \in 1 .. Len(data) + 1 /\ n \in 1 - 1 .. Len(data)
  BY RunsAreSequences, SMT
<1>2. /\ SubSeq(data, 1, n) \in Seq(Values) /\ Len(SubSeq(data, 1, n)) = n
      /\ \A i \in 1 .. n : SubSeq(data, 1, n)[i] = data[i]
  BY <1>1, SubSeqProperties, SMT
<1>. QED BY <1>2, LenProperties, SMT

(* Without a crossing, a run lies in the page it begins in.                *)
LEMMA RunInPage ==
  ASSUME NEW size \in Nat \ {0}, NEW a \in Nat, NEW data \in Runs,
         ~Crosses(a, data, size), NEW c \in Nat, c - a + 1 \in 1 .. Len(data)
  PROVE  c \div size = a \div size /\ c % size = (a % size) + (c - a)
<1>. DEFINE b == a + Len(data) - 1
<1>1. b \in Nat /\ a <= c /\ c <= b
  BY RunsAreSequences, SMT
<1>2. a \div size = b \div size
  BY DEF Crosses
<1>. HIDE DEF b
<1>. QED BY <1>1, <1>2, Between

(* Then the I2C chip has nothing to roll over, not even of a part of it.   *)
LEMMA TransferLands ==
  ASSUME NEW m, NEW a \in Addr, NEW data \in Runs, ~Crosses(a, data, ChipPage),
         NEW n \in 0 .. Len(data), NEW d, DOMAIN d = 1 .. n
  PROVE  Transferred(m, a, d) = Overwritten(m, a, d)
<1>1. a \in Nat /\ ChipPage \in Nat \ {0} /\ Len(data) \in Nat
  BY Sizes, RunsAreSequences
<1>2. ASSUME NEW i \in 1 .. n PROVE RolledOver(a, i) = a + i - 1
  <2>. DEFINE c == a + i - 1
  <2>1. c \in Nat /\ c - a + 1 \in 1 .. Len(data) /\ c - a + 1 = i
    BY <1>1, SMT
  <2>2. c = (c \div ChipPage) * ChipPage + (c % ChipPage)
    BY <1>1, <2>1, Split
  <2>3. c \div ChipPage = a \div ChipPage
    BY <1>1, <2>1, RunInPage
  <2>. QED BY <2>2, <2>3 DEF RolledOver
<1>3. ASSUME NEW c \in Addr
      PROVE  Transferred(m, a, d)[c] = Overwritten(m, a, d)[c]
  <2>. DEFINE j == c - a + 1
  <2>1. c \in Nat /\ j \in Int
    BY <1>1, Sizes, SMT
  <2>2. \A i \in DOMAIN d : RolledOver(a, i) = c <=> i = j
    BY <1>1, <1>2, <2>1, SMT
  <2>. HIDE DEF j
  <2>3. CASE j \in DOMAIN d
    <3>1. (CHOOSE i \in DOMAIN d : RolledOver(a, i) = c) = j
      BY <2>2, <2>3
    <3>. QED BY <2>2, <2>3, <3>1 DEF Transferred, Overwritten, j
  <2>4. CASE j \notin DOMAIN d
    BY <2>2, <2>4 DEF Transferred, Overwritten, j
  <2>. QED BY <2>3, <2>4
<1>. QED BY <1>3 DEF Transferred, Overwritten

-----------------------------------------------------------------------------
(* Pages of flash.                                                         *)

(* The cache is a copy of a page of the storage.                           *)
Mirrors(p, m) == p.num \in 0 .. NumPages - 1 /\ p = Cached(m, p.num)

LEMMA FirstPage ==
  ASSUME NEW m
  PROVE  Mirrors(Cached(m, 0), m)
BY Sizes, SMT DEF Mirrors, Cached

LEMMA Pages ==
  ASSUME NEW m, NEW n \in 0 .. NumPages - 1
  PROVE  Cached(m, n) = [num |-> n, data |-> PageData(m, n)]
BY Sizes, SMT DEF Cached

(* Without a crossing, the loop of flash_write_bytes() puts the run into   *)
(* the page it begins in, and nothing else anywhere.                       *)
LEMMA FlashWrite ==
  ASSUME driver = "flash", Mirrors(page, medium),
         NEW a \in Addr, NEW data \in Runs, ~Crosses(a, data, PageSize),
         NEW p \in Filled(a, data)
  PROVE  /\ p.num = PageOf(a)
         /\ WrittenBack(medium, p) = Overwritten(medium, a, data)
         /\ Mirrors(p, WrittenBack(medium, p))
<1>. DEFINE q == PageOf(a)
            new == Overwritten(medium, a, data)
<1>1. /\ q \in 0 .. NumPages - 1 /\ a \in Nat /\ PageSize \in Nat \ {0}
      /\ a = q * PageSize + (a % PageSize) /\ a % PageSize \in 0 .. PageSize - 1
      /\ q * PageSize \in Nat /\ DOMAIN data = 1 .. Len(data) /\ Len(data) \in Nat
  <2>1. /\ q \in 0 .. NumPages - 1 /\ a \in Nat /\ PageSize \in Nat \ {0}
        /\ a = q * PageSize + (a % PageSize) /\ a % PageSize \in 0 .. PageSize - 1
    BY PageOfAddr, Sizes
  <2>2. q * PageSize \in Nat
    BY <2>1, Sizes, SMT
  <2>3. DOMAIN data = 1 .. Len(data) /\ Len(data) \in Nat
    BY RunsAreSequences
  <2>. QED BY <2>1, <2>2, <2>3
<1>2. CachedFor(q) = [num |-> q, data |-> PageData(medium, q)]
  BY <1>1, Pages DEF CachedFor, Mirrors
<1>3. ASSUME NEW i \in 0 .. PageSize - 1
      PROVE  /\ q * PageSize + i \in Addr
             /\ new[q * PageSize + i] = IF i - (a % PageSize) + 1 \in DOMAIN data
                                        THEN data[i - (a % PageSize) + 1]
                                        ELSE PageData(medium, q)[i]
  <2>1. q * PageSize + i \in Addr
    BY <1>1, AddrOfPage
  <2>2. (q * PageSize + i) - a + 1 = i - (a % PageSize) + 1
    BY <1>1, SMT
  <2>. QED BY <2>1, <2>2 DEF Overwritten, PageData
<1>4. PageData(new, q) = [i \in 0 .. PageSize - 1 |->
                            IF i - (a % PageSize) + 1 \in DOMAIN data
                            THEN data[i - (a % PageSize) + 1] ELSE PageData(medium, q)[i]]
  BY <1>3 DEF PageData
<1>5. p = [num |-> q, data |-> PageData(new, q)]
  BY <1>2, <1>4 DEF Filled
<1>6. ASSUME NEW c \in Addr PROVE WrittenBack(medium, p)[c] = new[c]
  <2>1. /\ PageOf(c) \in Nat /\ c \in Nat
        /\ c = PageOf(c) * PageSize + (c % PageSize) /\ c % PageSize \in 0 .. PageSize - 1
    BY Sizes, PageOfAddr, SMT
  <2>2. CASE PageOf(c) = q
    <3>1. WrittenBack(medium, p)[c] = PageData(new, q)[c % PageSize]
      BY <1>5, <2>2 DEF WrittenBack, WithPage
    <3>2. PageData(new, q)[c % PageSize] = new[q * PageSize + (c % PageSize)]
      BY <2>1 DEF PageData
    <3>3. c = q * PageSize + (c % PageSize)
      BY <2>1, <2>2, Zenon
    <3>. QED BY <3>1, <3>2, <3>3, Zenon
  <2>3. CASE PageOf(c) # q
    <3>1. c - a + 1 \notin DOMAIN data
      BY <1>1, <2>1, <2>3, RunInPage DEF PageOf
    <3>2. WrittenBack(medium, p)[c] = medium[c]
      BY <1>5, <2>3 DEF WrittenBack, WithPage
    <3>. QED BY <3>1, <3>2 DEF Overwritten
  <2>. QED BY <2>2, <2>3
<1>7. WrittenBack(medium, p) = new
  BY <1>6 DEF WrittenBack, WithPage, Overwritten
<1>8. p = Cached(new, q)
  BY <1>1, <1>5, Pages
<1>. HIDE DEF q, new
<1>. QED BY <1>1, <1>5, <1>7, <1>8 DEF Mirrors, q, new

(* A page that is written when power fails is, cell by cell, as it should  *)
(* become or erased.                                                       *)
LEMMA FlashTorn ==
  ASSUME NEW m, NEW p, NEW n, NEW c \in Addr
  PROVE  \/ BackTo(m, p, n)[c] = WrittenBack(m, p)[c]
         \/ PageOf(c) = p.num /\ BackTo(m, p, n)[c] = Erased
BY PageOfAddr DEF BackTo, WrittenBack, WithPage

-----------------------------------------------------------------------------
(* The invariant.  Every cell holds a byte that the caller may expect; of  *)
(* a driver with a copy in RAM the copy does, and the medium holds what    *)
(* could be expected at the last commit; the page that flash has cached is *)
(* a copy of the medium, or a write of another page would put stale bytes  *)
(* over it.                                                                *)
Lands ==
  /\ driver # "buffered" => \A c \in Addr : medium[c] \in may[c]
  /\ driver = "buffered" => \A c \in Addr : ram[c] \in may[c] /\ medium[c] \in kept[c]
  /\ driver = "flash" => Mirrors(page, medium)

LandsInv == spilled \in BOOLEAN /\ (spilled \/ Lands)

LEMMA InitLands == StorageInit => LandsInv
BY FirstPage DEF StorageInit, LandsInv, Lands

LEMMA Overwriting ==
  ASSUME NEW a, NEW data, NEW m, NEW c \in Addr, m[c] \in may[c]
  PROVE  Overwritten(m, a, data)[c] \in Stored(a, data)[c]
BY DEF Overwritten, Stored

LEMMA OverwritingPart ==
  ASSUME NEW a \in Addr, NEW data \in Runs, NEW n \in 0 .. Len(data), NEW m,
         NEW c \in Addr, m[c] \in may[c]
  PROVE  Overwritten(m, a, SubSeq(data, 1, n))[c] \in PerhapsStored(a, data)[c]
<1>. DEFINE d == SubSeq(data, 1, n)
<1>1. DOMAIN data = 1 .. Len(data) /\ Len(data) \in Nat
  BY RunsAreSequences
<1>2. DOMAIN d = 1 .. n /\ \A i \in 1 .. n : d[i] = data[i]
  BY PartOfRun
<1>. HIDE DEF d
<1>3. CASE c - a + 1 \in 1 .. n
  BY <1>1, <1>2, <1>3, SMT DEF Overwritten, PerhapsStored, Stored
<1>4. CASE c - a + 1 \notin 1 .. n
  BY <1>2, <1>4 DEF Overwritten, PerhapsStored, Stored
<1>. QED BY <1>3, <1>4 DEF d

(* write(), writeBytes().                                                  *)
LEMMA WriteLands ==
  ASSUME Lands, NEW a \in Addr, NEW data \in Runs, Write(a, data),
         UNCHANGED driver, ~spilled'
  PROVE  Lands'
<1>. USE DEF Write, Finished
<1>1. CASE driver \in {"chip", "due"}
  <2>1. medium' = Overwritten(medium, a, data) /\ may' = Stored(a, data)
    BY <1>1
  <2>. QED BY <1>1, <2>1, Overwriting DEF Lands
<1>2. CASE driver = "i2c"
  <2>1. ~Crosses(a, data, ChipPage) /\ medium' = Transferred(medium, a, data)
    BY <1>2
  <2>2. Len(data) \in 0 .. Len(data) /\ DOMAIN data = 1 .. Len(data)
    BY RunsAreSequences, SMT
  <2>3. medium' = Overwritten(medium, a, data)
    BY <2>1, <2>2, TransferLands
  <2>. QED BY <1>2, <2>3, Overwriting DEF Lands
<1>3. CASE driver = "flash"
  <2>1. ~Crosses(a, data, PageSize) /\ page' \in Filled(a, data) /\ Mirrors(page, medium)
    BY <1>3 DEF Lands
  <2>2. medium' = Overwritten(medium, a, data) /\ Mirrors(page', medium')
    BY <1>3, <2>1, FlashWrite
  <2>. QED BY <1>3, <2>2, Overwriting DEF Lands
<1>4. CASE driver = "buffered"
  <2>1. /\ ram' = Overwritten(ram, a, data) /\ may' = Stored(a, data)
        /\ UNCHANGED <<medium, kept>>
    BY <1>4
  <2>. QED BY <1>4, <2>1, Overwriting DEF Lands
<1>. QED BY <1>1, <1>2, <1>3, <1>4

(* reset().                                                                *)
LEMMA ResetLands ==
  ASSUME Lands, Reset, UNCHANGED driver
  PROVE  Lands'
<1>. USE DEF Reset, ErasedFrom, MayBeErasedFrom
<1>1. CASE driver \in {"chip", "i2c"}
  BY <1>1 DEF Lands
<1>2. CASE driver = "due"
  BY <1>2 DEF Lands
<1>3. CASE driver = "flash"
  <2>1. /\ medium' = ErasedFrom(0) /\ may' = MayBeErasedFrom(0)
        /\ page' = [page EXCEPT !.data = NoData]
    BY <1>3
  <2>2. \A c \in Addr : medium'[c] = Erased /\ may'[c] = {Erased}
    BY <2>1, Sizes, SMT
  <2>3. page.num \in 0 .. NumPages - 1 /\ page = [num |-> page.num, data |-> PageData(medium, page.num)]
    BY <1>3, Pages DEF Lands, Mirrors
  <2>4. page' = [num |-> page.num, data |-> NoData]
    BY <2>1, <2>3
  <2>5. PageData(medium', page.num) = NoData
    BY <2>2, <2>3, AddrOfPage DEF PageData, NoData
  <2>6. page' = Cached(medium', page.num) /\ page'.num = page.num
    BY <2>3, <2>4, <2>5, Pages
  <2>. QED BY <1>3, <2>2, <2>3, <2>6 DEF Lands, Mirrors
<1>4. CASE driver = "buffered"
  BY <1>4 DEF Lands
<1>. QED BY <1>1, <1>2, <1>3, <1>4

(* The driver begins again with a medium that holds what may be expected.  *)
LEMMA BeginsAgain ==
  ASSUME Begin(medium'), UNCHANGED driver, \A c \in Addr : medium'[c] \in may'[c],
         driver = "buffered" => \A c \in Addr : medium'[c] \in kept'[c]
  PROVE  Lands'
BY FirstPage DEF Lands, Begin

LEMMA WriteFailsLands ==
  ASSUME Lands, NEW a \in Addr, NEW data \in Runs, FailsInWrite(a, data),
         Begin(medium'), UNCHANGED driver, ~spilled'
  PROVE  Lands'
<1>. USE DEF FailsInWrite
<1>1. PICK n \in 0 .. Len(data) :
        \/ /\ driver \in {"chip", "due"}
           /\ medium' = Overwritten(medium, a, SubSeq(data, 1, n))
        \/ /\ driver = "i2c" /\ ~Crosses(a, data, ChipPage)
           /\ medium' = Transferred(medium, a, SubSeq(data, 1, n))
  OBVIOUS
<1>2. may' = PerhapsStored(a, data) /\ driver \in {"chip", "due", "i2c"}
  OBVIOUS
<1>3. medium' = Overwritten(medium, a, SubSeq(data, 1, n))
  <2>1. DOMAIN SubSeq(data, 1, n) = 1 .. n
    BY PartOfRun
  <2>. QED BY <1>1, <2>1, TransferLands
<1>4. \A c \in Addr : medium'[c] \in may'[c]
  BY <1>2, <1>3, OverwritingPart DEF Lands
<1>. QED BY <1>2, <1>4, BeginsAgain

LEMMA FlashFailsLands ==
  ASSUME Lands, NEW a \in Addr, NEW data \in Runs, FailsInFlashWrite(a, data),
         Begin(medium'), UNCHANGED driver, ~spilled'
  PROVE  Lands'
<1>1. PICK p \in Filled(a, data), n \in 0 .. PageSize : medium' = BackTo(medium, p, n)
  BY DEF FailsInFlashWrite
<1>2. /\ driver = "flash" /\ may' = Exposed(PerhapsStored(a, data), {PageOf(a)})
      /\ ~Crosses(a, data, PageSize) /\ Mirrors(page, medium)
  BY DEF FailsInFlashWrite, Lands
<1>3. p.num = PageOf(a) /\ WrittenBack(medium, p) = Overwritten(medium, a, data)
  BY <1>2, FlashWrite
<1>4. ASSUME NEW c \in Addr PROVE medium'[c] \in may'[c]
  <2>1. \/ medium'[c] = Overwritten(medium, a, data)[c]
        \/ PageOf(c) = PageOf(a) /\ medium'[c] = Erased
    BY <1>1, <1>3, FlashTorn
  <2>2. Overwritten(medium, a, data)[c] \in Stored(a, data)[c]
    BY <1>2, Overwriting DEF Lands
  <2>. QED BY <1>2, <2>1, <2>2 DEF Exposed, PerhapsStored
<1>. QED BY <1>2, <1>4, BeginsAgain

LEMMA ResetFailsLands ==
  ASSUME Lands, FailsInReset, Begin(medium'), UNCHANGED driver
  PROVE  Lands'
<1>1. driver # "buffered" /\ \A c \in Addr : medium[c] \in may[c]
  BY DEF FailsInReset, Lands
<1>2. CASE driver \in {"chip", "i2c"}
  <2>1. PICK n \in FirstErased .. Max(Addr) :
          medium' = [c \in Addr |-> IF c \in FirstErased .. n THEN Erased ELSE medium[c]]
    BY <1>2 DEF FailsInReset
  <2>2. may' = [c \in Addr |-> IF c >= FirstErased THEN may[c] \cup {Erased} ELSE may[c]]
    BY <1>2 DEF FailsInReset
  <2>3. ASSUME NEW c \in Addr, c \in FirstErased .. n PROVE c >= FirstErased
    BY <2>3, Sizes, SMT
  <2>4. \A c \in Addr : medium'[c] \in may'[c]
    BY <1>1, <2>1, <2>2, <2>3
  <2>. QED BY <1>1, <2>4, BeginsAgain
<1>3. CASE driver = "flash"
  <2>1. may' = Exposed(may, 0 .. NumPages - 1)
        /\ \A c \in Addr : medium'[c] \in {Erased, medium[c]}
    BY <1>3 DEF FailsInReset
  <2>2. \A c \in Addr : medium'[c] \in may'[c]
    BY <1>1, <2>1, PageOfAddr DEF Exposed
  <2>. QED BY <1>1, <2>2, BeginsAgain
<1>. QED BY <1>2, <1>3 DEF FailsInReset

(* commitWriteEEPROM(), in one piece and broken off.                       *)
LEMMA CommitLands ==
  ASSUME Lands, Commit \/ FailsInCommit, UNCHANGED driver
  PROVE  Lands'
<1>1. driver = "buffered" /\ \A c \in Addr : ram[c] \in may[c]
  BY DEF Commit, FailsInCommit, Lands
<1>2. CASE Commit
  BY <1>1, <1>2 DEF Commit, Lands
<1>3. CASE FailsInCommit
  <2>1. /\ \A c \in Addr : medium'[c] \in {ram[c], Erased}
        /\ may' = Exposed(may, 0 .. NumPages - 1) /\ kept' = may' /\ Begin(medium')
    BY <1>3 DEF FailsInCommit
  <2>2. \A c \in Addr : medium'[c] \in may'[c]
    BY <1>1, <2>1, PageOfAddr DEF Exposed
  <2>. QED BY <2>1, <2>2, BeginsAgain
<1>. QED BY <1>2, <1>3

-----------------------------------------------------------------------------
LEMMA StepLands ==
  ASSUME LandsInv, [StorageNext]_storageVars
  PROVE  LandsInv'
<1>1. CASE UNCHANGED storageVars
  BY <1>1 DEF storageVars, counts, LandsInv, Lands, Mirrors
<1>2. CASE StorageNext
  <2>1. UNCHANGED driver
    BY <1>2 DEF StorageNext
  <2>2. spilled' \in BOOLEAN /\ (spilled => spilled')
    BY <1>2 DEF LandsInv, StorageNext, UseStorage, EndOfPass, LossOfPower, Write, Finished, Reset, Commit,
                PowerFails, FailsInWrite, FailsInFlashWrite, FailsInReset, FailsInCommit
  <2>3. SUFFICES ASSUME ~spilled' PROVE Lands'
    BY <2>2 DEF LandsInv
  <2>4. Lands
    BY <2>2, <2>3 DEF LandsInv
  <2>5. CASE UseStorage
    BY <2>1, <2>3, <2>4, <2>5, WriteLands, ResetLands DEF UseStorage
  <2>6. CASE EndOfPass
    BY <2>1, <2>4, <2>6, CommitLands DEF EndOfPass
  <2>7. CASE LossOfPower
    <3>1. CASE PowerFails
      <4>1. UNCHANGED <<medium, kept>> /\ may' = IF driver = "buffered" THEN kept ELSE may
        BY <3>1 DEF PowerFails
      <4>2. Begin(medium')
        BY <3>1, <4>1 DEF PowerFails, Begin
      <4>. QED BY <2>1, <2>4, <4>1, <4>2, BeginsAgain DEF Lands
    <3>2. CASE FailsInCommit
      BY <2>1, <2>4, <3>2, CommitLands
    <3>3. ASSUME NEW a \in Addr, NEW data \in Runs,
                 FailsInWrite(a, data) \/ FailsInFlashWrite(a, data), Begin(medium')
          PROVE  Lands'
      BY <2>1, <2>3, <2>4, <3>3, WriteFailsLands, FlashFailsLands
    <3>4. ASSUME FailsInReset, Begin(medium') PROVE Lands'
      BY <2>1, <2>4, <3>4, ResetFailsLands
    <3>. QED BY <2>7, <3>1, <3>2, <3>3, <3>4 DEF LossOfPower
  <2>. QED BY <1>2, <2>5, <2>6, <2>7 DEF StorageNext
<1>. QED BY <1>1, <1>2

(* What the drivers of Storage.h promise, whatever the geometry of their   *)
(* pages: as long as no run of bytes has crossed the end of a page, a cell *)
(* holds what was last written to it, or what a loss of power while it, or *)
(* the flash page around it, was being written may have left.              *)
THEOREM WritesLandSafely == StorageSpec => []WritesLandWithinPages
<1>1. LandsInv => WritesLandWithinPages
  BY DEF LandsInv, Lands, WritesLandWithinPages, WritesLand, read
<1>. QED BY <1>1, InitLands, StepLands, PTL DEF StorageSpec
=============================================================================
