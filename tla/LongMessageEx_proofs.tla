------------------------ MODULE LongMessageEx_proofs ------------------------
(***************************************************************************)
(* Proofs about LongMessageEx, for every set of senders and streams, every *)
(* length of messages, buffers and fragments, any number of contexts, and  *)
(* any bound on messages, frames on their way and faults.                  *)
(***************************************************************************)
EXTENDS LongMessageEx, FiniteSetTheorems, SequenceTheorems, WellFoundedInduction, TLAPS

-----------------------------------------------------------------------------
(* The smallest and the largest of some numbers.                           *)

LEMMA Constants ==
  /\ FragBytes \in Nat /\ FragBytes > 0 /\ SeqRange \in Nat /\ SeqRange > 1
  /\ BufferLen \in Nat /\ BufferLen > 0 /\ NumSend \in Nat /\ NumSend > 0
  /\ NumReceive \in Nat /\ NumReceive > 0 /\ Lens \subseteq Nat
  /\ MaxFaults \in Nat /\ MaxSends \in Nat
BY LongMessageExAssumption, SMT

LEMMA MaxOfTwo ==
  ASSUME NEW x \in Int, NEW y \in Int
  PROVE  Max({x, y}) = IF x >= y THEN x ELSE y
<1>. DEFINE m == CHOOSE z \in {x, y} : \A w \in {x, y} : z >= w
<1>1. \E z \in {x, y} : \A w \in {x, y} : z >= w
  BY SMT
<1>2. m \in {x, y} /\ \A w \in {x, y} : m >= w
  BY <1>1, Zenon
<1>. HIDE DEF m
<1>3. m = IF x >= y THEN x ELSE y
  BY <1>2, SMT
<1>. QED BY <1>3 DEF Max, m

LEMMA MinOfThree ==
  ASSUME NEW x \in Int, NEW y \in Int, NEW z \in Int
  PROVE  /\ Min({x, y, z}) \in {x, y, z}
         /\ Min({x, y, z}) <= x /\ Min({x, y, z}) <= y /\ Min({x, y, z}) <= z
<1>. DEFINE m == CHOOSE u \in {x, y, z} : \A w \in {x, y, z} : u <= w
<1>1. \E u \in {x, y, z} : \A w \in {x, y, z} : u <= w
  BY SMT
<1>2. m \in {x, y, z} /\ \A w \in {x, y, z} : m <= w
  BY <1>1, Zenon
<1>. HIDE DEF m
<1>3. m \in {x, y, z} /\ m <= x /\ m <= y /\ m <= z
  BY <1>2
<1>. QED BY <1>3 DEF Min, m

(* A set of contexts that is not empty has a first one.                    *)
LEMMA FirstOf ==
  ASSUME NEW S \in SUBSET Nat, S # {}
  PROVE  Min(S) \in S /\ \A x \in S : Min(S) <= x
<1>1. PICK x \in S : \A y \in S : ~ (<<y, x>> \in OpToRel(<, Nat))
  BY NatLessThanWellFounded, WFMin
<1>2. \A y \in S : ~ (y < x)
  BY <1>1 DEF OpToRel
<1>3. \A y \in S : x <= y
  BY <1>2, SMT
<1>. DEFINE m == CHOOSE z \in S : \A y \in S : z <= y
<1>4. m \in S /\ \A y \in S : m <= y
  BY <1>3, Zenon
<1>. QED BY <1>4 DEF Min

-----------------------------------------------------------------------------
(* Types.                                                                  *)

Byte    == Nat \X Nat
Message == [stream : Stream, len : Lens, copied : Nat]
Job     == [id : Nat, index : Nat, seq : Nat]
Frame   == [id : Nat, stream : Stream, seq : 0 .. SeqRange - 1, data : Seq(Byte),
            len : Nat, crc : Seq(Byte)]
Context == [used : BOOLEAN, id : Nat, stream : Stream \cup {"NONE"}, length : Nat,
            crc : Seq(Byte), expected : Nat, held : Seq(Byte)]
Report  == [id : Nat, stream : Stream \cup {"NONE"}, data : Seq(Byte), status : Status]

(* What a sender still has to do for a message: its next fragment carries  *)
(* the bytes from index on, if any are left.                               *)
Due(o, messages) ==
  /\ o.id \in DOMAIN messages /\ o.seq # 0
  /\ o.index = (o.seq - 1) * FragBytes
  /\ o.index < messages[o.id].len \/ o.seq = 1

TypeInv ==
  /\ sent \in Seq(Message) /\ Len(sent) <= MaxSends
  /\ tx \in [Sender -> [SendContext -> Job]]
  /\ \A s \in Sender : \A c \in SendContext : tx[s][c].id # 0 => Due(tx[s][c], sent)
  /\ turn \in [Sender -> SendContext]
  /\ overrun \in BOOLEAN
  /\ bus \in Seq(Frame)
  /\ \A i \in 1 .. Len(bus) :
       bus[i].id \in DOMAIN sent /\ (bus[i].seq # 0 => Len(bus[i].data) = FragBytes)
  /\ rx \in [ReceiveContext -> Context]
  /\ \A c \in ReceiveContext : rx[c].used =>
       rx[c].id \in DOMAIN sent /\ rx[c].stream \in Subscribed /\ Len(rx[c].held) < BufferLen
  /\ handed \in Seq(Report)
  /\ \A i \in 1 .. Len(handed) :
       handed[i].id \in DOMAIN sent /\ Len(handed[i].data) <= BufferLen
  /\ refused \subseteq DOMAIN sent
  /\ faults \in 0 .. MaxFaults

LEMMA TypeOKHolds == TypeInv => TypeOK
<1>. SUFFICES ASSUME TypeInv PROVE TypeOK
  OBVIOUS
<1>. USE DEF TypeInv
<1>1. ASSUME NEW s \in Sender, NEW c \in InUse(s)
      PROVE  tx[s][c].id \in DOMAIN sent /\ tx[s][c].index <= sent[tx[s][c].id].len
  <2>. DEFINE o == tx[s][c]
  <2>1. o \in Job /\ Due(o, sent)
    BY <1>1 DEF InUse
  <2>2. sent[o.id] \in Message
    BY <2>1, LenProperties, ElementOfSeq DEF Due
  <2>3. sent[o.id].len \in Nat
    BY <2>2, Constants DEF Message
  <2>. HIDE DEF o
  <2>4. o.index \in Nat /\ (o.seq = 1 => o.index = 0)
    BY <2>1, Constants, SMT DEF Job, Due
  <2>5. o.index <= sent[o.id].len
    BY <2>1, <2>3, <2>4, SMT DEF Due
  <2>. QED BY <2>1, <2>5 DEF Due, o
<1>2. ASSUME NEW i \in DOMAIN bus
      PROVE  bus[i].id \in DOMAIN sent /\ bus[i].seq \in 0 .. SeqRange - 1
  <2>1. i \in 1 .. Len(bus) /\ bus[i] \in Frame
    BY LenProperties, ElementOfSeq
  <2>. QED BY <2>1 DEF Frame
<1>3. ASSUME NEW i \in DOMAIN handed
      PROVE  handed[i].status \in Status /\ Len(handed[i].data) <= BufferLen
  <2>1. i \in 1 .. Len(handed) /\ handed[i] \in Report
    BY LenProperties, ElementOfSeq
  <2>. QED BY <2>1 DEF Report
<1>. QED BY <1>1, <1>2, <1>3 DEF TypeOK, Message, Receiving

LEMMA InitTypes == Init => TypeInv
<1>. SUFFICES ASSUME Init PROVE TypeInv
  OBVIOUS
<1>. USE DEF Init
<1>1. FreeSend \in Job /\ FreeSend.id = 0
  BY DEF FreeSend, Job
<1>2. FreeReceive \in Context /\ ~FreeReceive.used
  BY DEF FreeReceive, Context
<1>3. 1 \in SendContext
  BY Constants, SMT DEF SendContext
<1>4. Len(sent) <= MaxSends /\ faults \in 0 .. MaxFaults /\ Len(bus) = 0 /\ Len(handed) = 0
  BY Constants, SMT
<1>5. sent \in Seq(Message) /\ bus \in Seq(Frame) /\ handed \in Seq(Report)
  OBVIOUS
<1>6. \A i \in 1 .. 0 : FALSE
  BY SMT
<1>. QED BY <1>1, <1>2, <1>3, <1>4, <1>5, <1>6 DEF TypeInv

(* A message that was sent stays as it is when another one is.             *)
LEMMA SentGrows ==
  ASSUME sent \in Seq(Message), NEW m \in Message, sent' = Append(sent, m)
  PROVE  /\ sent' \in Seq(Message) /\ Len(sent) \in Nat /\ Len(sent') = Len(sent) + 1
         /\ DOMAIN sent = 1 .. Len(sent) /\ DOMAIN sent' = 1 .. Len(sent) + 1
         /\ DOMAIN sent \subseteq DOMAIN sent'
         /\ \A id \in DOMAIN sent : sent'[id] = sent[id]
         /\ sent'[Len(sent) + 1] = m
<1>1. /\ sent' \in Seq(Message) /\ Len(sent) \in Nat /\ Len(sent') = Len(sent) + 1
      /\ DOMAIN sent = 1 .. Len(sent) /\ DOMAIN sent' = 1 .. Len(sent')
      /\ \A id \in 1 .. Len(sent) : sent'[id] = sent[id]
      /\ sent'[Len(sent) + 1] = m
  BY AppendProperties, LenProperties
<1>2. 1 .. Len(sent) \subseteq 1 .. Len(sent) + 1
  BY <1>1, SMT
<1>. QED BY <1>1, <1>2

(* Frames on their way, and one more of them.                              *)
LEMMA Sent ==
  ASSUME bus \in Seq(Frame), faults \in 0 .. MaxFaults, NEW f \in Frame, Transmit(f)
  PROVE  /\ bus' \in Seq(Frame) /\ faults' \in 0 .. MaxFaults
         /\ \A i \in 1 .. Len(bus') : bus'[i] = f \/ (i \in 1 .. Len(bus) /\ bus'[i] = bus[i])
<1>1. CASE bus' = Append(bus, f) /\ UNCHANGED faults
  <2>1. /\ bus' \in Seq(Frame) /\ Len(bus') = Len(bus) + 1 /\ Len(bus) \in Nat
        /\ \A i \in 1 .. Len(bus) : bus'[i] = bus[i]
        /\ bus'[Len(bus) + 1] = f
    BY <1>1, AppendProperties, LenProperties
  <2>2. \A i \in 1 .. Len(bus') : i = Len(bus) + 1 \/ i \in 1 .. Len(bus)
    BY <2>1, SMT
  <2>. QED BY <1>1, <2>1, <2>2
<1>2. CASE faults < MaxFaults /\ faults' = faults + 1 /\ UNCHANGED bus
  <2>1. faults' \in 0 .. MaxFaults
    BY <1>2, Constants, SMT
  <2>. QED BY <1>2, <2>1
<1>. QED BY <1>1, <1>2 DEF Transmit

LEMMA Bytes ==
  ASSUME NEW id \in Nat, NEW n \in Nat
  PROVE  [i \in 1 .. n |-> <<id, i>>] \in Seq(Byte)
BY DEF Byte

LEMMA HeaderType ==
  ASSUME NEW id \in Nat, NEW stream \in Stream, NEW len \in Lens
  PROVE  Header(id, stream, len) \in Frame
<1>1. 0 \in 0 .. SeqRange - 1 /\ len \in Nat
  BY Constants, SMT
<1>2. [i \in 1 .. len |-> <<id, i>>] \in Seq(Byte) /\ <<>> \in Seq(Byte)
  BY <1>1, Bytes
<1>. QED BY <1>1, <1>2 DEF Header, Frame

(* The payload of a fragment that begins behind the k-th byte.             *)
Piece(id, k, copied) ==
  [i \in 1 .. FragBytes |-> IF k + i <= copied THEN <<id, k + i>> ELSE Foreign]

LEMMA FragmentType ==
  ASSUME TypeInv, NEW id \in DOMAIN sent, NEW seq \in Nat, NEW k \in Nat
  PROVE  /\ Fragment(id, seq, Piece(id, k, sent[id].copied)) \in Frame
         /\ Len(Piece(id, k, sent[id].copied)) = FragBytes
<1>1. id \in Nat /\ sent[id] \in Message
  BY LenProperties, ElementOfSeq DEF TypeInv
<1>2. seq % SeqRange \in 0 .. SeqRange - 1
  BY Constants, SMT
<1>. DEFINE copied == sent[id].copied
<1>6. copied \in Nat
  BY <1>1 DEF Message
<1>. HIDE DEF copied
<1>3. \A i \in 1 .. FragBytes : Piece(id, k, copied)[i] \in Byte
  BY <1>1, <1>6, Constants, SMT DEF Piece, Foreign, Byte
<1>4. Piece(id, k, copied) \in Seq(Byte) /\ Len(Piece(id, k, copied)) = FragBytes
  BY <1>3, Constants DEF Piece
<1>5. <<>> \in Seq(Byte) /\ 0 \in Nat
  OBVIOUS
<1>. QED BY <1>1, <1>2, <1>4, <1>5 DEF Fragment, Frame, Message, copied

(* A message as it is submitted, and how much of it is copied.             *)
Submitted(stream, len, zero) ==
  [stream |-> stream, len |-> len, copied |-> Min({zero, len})]

LEMMA SubmittedType ==
  ASSUME NEW stream \in Stream, NEW len \in Lens, NEW zero \in FirstZero
  PROVE  /\ Submitted(stream, len, zero) \in Message
         /\ Submitted(stream, len, zero).stream = stream
         /\ Submitted(stream, len, zero).len = len
<1>1. {zero, len} \in SUBSET Nat /\ {zero, len} # {}
  BY LongMessageExAssumption
<1>2. Min({zero, len}) \in {zero, len}
  BY <1>1, FirstOf, Zenon
<1>3. Min({zero, len}) \in Nat
  BY <1>1, <1>2
<1>. QED BY <1>3 DEF Submitted, Message

LEMMA SendTypes ==
  ASSUME TypeInv, NEW s \in Sender, NEW stream \in Stream, NEW len \in Lens,
         NEW zero \in FirstZero, SendLongMessage(s, stream, len, zero)
  PROVE  TypeInv'
<1>. USE DEF TypeInv
<1>1. UNCHANGED <<turn, rx, handed, refused>> /\ Len(sent) < MaxSends
  BY DEF SendLongMessage, receiving
<1>2. CASE overrun' = TRUE /\ UNCHANGED <<sent, tx, turn, bus, faults>>
  BY <1>1, <1>2 DEF Due
<1>3. CASE InUse(s) # SendContext /\ UNCHANGED overrun
  <2>. DEFINE c == Min(SendContext \ InUse(s))
              id == Len(sent) + 1
              m == Submitted(stream, len, zero)
              o == [id |-> id, index |-> 0, seq |-> 1]
              h == Header(id, stream, len)
  <2>1. /\ sent' = Append(sent, m) /\ tx' = [tx EXCEPT ![s][c] = o] /\ Transmit(h)
    BY <1>3 DEF SendLongMessage, Submitted
  <2>2. c \in SendContext
    <3>1. SendContext \ InUse(s) \in SUBSET Nat /\ SendContext \ InUse(s) # {}
      BY <1>3, Constants, SMT DEF SendContext, InUse
    <3>. QED BY <3>1, FirstOf, Zenon
  <2>3. m \in Message
    BY SubmittedType
  <2>4. /\ sent' \in Seq(Message) /\ Len(sent) \in Nat /\ Len(sent') = Len(sent) + 1
        /\ DOMAIN sent \subseteq DOMAIN sent' /\ DOMAIN sent' = 1 .. Len(sent) + 1
        /\ \A k \in DOMAIN sent : sent'[k] = sent[k]
    BY <2>1, <2>3, SentGrows
  <2>5. id \in Nat /\ id # 0 /\ id \in DOMAIN sent' /\ Len(sent') <= MaxSends
    BY <1>1, <2>4, Constants, SMT
  <2>6. h \in Frame /\ h.id = id
    BY <2>5, HeaderType DEF Header
  <2>12. h.seq = 0
    BY DEF Header
  <2>7. /\ bus' \in Seq(Frame) /\ faults' \in 0 .. MaxFaults
        /\ \A i \in 1 .. Len(bus') : bus'[i] = h \/ (i \in 1 .. Len(bus) /\ bus'[i] = bus[i])
    BY <2>1, <2>6, Sent
  <2>. HIDE DEF c, h
  <2>8. o \in Job /\ Due(o, sent')
    <3>1. 0 = (1 - 1) * FragBytes
      BY Constants, SMT
    <3>. QED BY <2>5, <3>1 DEF Job, Due
  <2>. HIDE DEF o, id
  <2>9. tx' \in [Sender -> [SendContext -> Job]]
    BY <2>1, <2>2, <2>8
  <2>10. ASSUME NEW t \in Sender, NEW d \in SendContext, tx'[t][d].id # 0
         PROVE  Due(tx'[t][d], sent')
    <3>1. CASE t = s /\ d = c
      BY <2>1, <2>2, <2>8, <3>1
    <3>2. CASE ~(t = s /\ d = c)
      <4>1. tx'[t][d] = tx[t][d]
        BY <2>1, <2>2, <3>2
      <4>. QED BY <2>4, <2>10, <4>1 DEF Due
    <3>. QED BY <3>1, <3>2
  <2>11. \A i \in 1 .. Len(bus') :
           bus'[i].id \in DOMAIN sent' /\ (bus'[i].seq # 0 => Len(bus'[i].data) = FragBytes)
    BY <2>4, <2>5, <2>6, <2>7, <2>12
  <2>. QED BY <1>1, <1>3, <2>4, <2>5, <2>7, <2>9, <2>10, <2>11
<1>. QED BY <1>2, <1>3 DEF SendLongMessage

(* The index that a context holds and its sequence number keep in step.    *)
LEMMA NextIndex ==
  ASSUME NEW index \in Nat, NEW seq \in Nat, seq # 0, index = (seq - 1) * FragBytes
  PROVE  /\ index + FragBytes = (seq + 1 - 1) * FragBytes
         /\ index + FragBytes \in Nat /\ seq + 1 \in Nat /\ seq + 1 # 0
<1>1. index + FragBytes \in Nat /\ seq + 1 \in Nat /\ seq + 1 # 0 /\ seq + 1 - 1 = seq
  BY Constants, SMT
<1>2. seq * FragBytes = (seq - 1) * FragBytes + FragBytes
  BY Constants, SMT
<1>. QED BY <1>1, <1>2, Zenon

LEMMA FragmentTypes ==
  ASSUME TypeInv, NEW s \in Sender, SendFragment(s)
  PROVE  TypeInv'
<1>. USE DEF TypeInv
<1>. DEFINE c == turn[s]
            o == tx[s][c]
            f == Fragment(o.id, o.seq, Piece(o.id, o.index, sent[o.id].copied))
<1>1. /\ c \in InUse(s) /\ Transmit(f) /\ tx' = [tx EXCEPT ![s][c] = Advanced(o)]
      /\ NextTurn(s) /\ UNCHANGED <<sent, overrun, rx, handed, refused>>
  BY DEF SendFragment, Buffered, Piece, receiving
<1>2. c \in SendContext /\ o \in Job /\ o.id # 0 /\ Due(o, sent)
  BY <1>1 DEF InUse
<1>3. f \in Frame /\ f.id \in DOMAIN sent /\ Len(f.data) = FragBytes
  BY <1>2, FragmentType DEF Job, Due, Fragment
<1>4. /\ bus' \in Seq(Frame) /\ faults' \in 0 .. MaxFaults
      /\ \A i \in 1 .. Len(bus') : bus'[i] = f \/ (i \in 1 .. Len(bus) /\ bus'[i] = bus[i])
  BY <1>1, <1>3, Sent
<1>5. turn' \in [Sender -> SendContext]
  BY <1>1, Constants, SMT DEF NextTurn, SendContext
<1>6. Advanced(o) \in Job /\ (Advanced(o).id # 0 => Due(Advanced(o), sent))
  <2>1. CASE o.index + FragBytes >= sent[o.id].len
    BY <2>1 DEF Advanced, FreeSend, Job
  <2>2. CASE ~(o.index + FragBytes >= sent[o.id].len)
    <3>1. /\ o.index \in Nat /\ o.seq \in Nat /\ o.seq # 0 /\ o.id \in DOMAIN sent
          /\ o.index = (o.seq - 1) * FragBytes
      BY <1>2 DEF Job, Due
    <3>2. sent[o.id].len \in Nat
      <4>1. sent[o.id] \in Message
        BY <3>1, LenProperties, ElementOfSeq
      <4>. QED BY <4>1, Constants DEF Message
    <3>3. Advanced(o) = [id |-> o.id, index |-> o.index + FragBytes, seq |-> o.seq + 1]
      BY <1>2, <2>2 DEF Advanced, Job
    <3>4. /\ o.index + FragBytes = (o.seq + 1 - 1) * FragBytes
          /\ o.index + FragBytes \in Nat /\ o.seq + 1 \in Nat /\ o.seq + 1 # 0
          /\ o.index + FragBytes < sent[o.id].len
      <4>1. o.index + FragBytes < sent[o.id].len
        <5>1. o.index \in Nat /\ sent[o.id].len \in Nat
          BY <3>1, <3>2
        <5>. QED BY <2>2, <5>1, Constants, SMT
      <4>. QED BY <3>1, <4>1, NextIndex
    <3>. QED BY <1>2, <3>1, <3>3, <3>4 DEF Job, Due
  <2>. QED BY <2>1, <2>2
<1>. HIDE DEF c, o, f
<1>7. tx' \in [Sender -> [SendContext -> Job]]
  BY <1>1, <1>2, <1>6
<1>8. ASSUME NEW t \in Sender, NEW d \in SendContext, tx'[t][d].id # 0
      PROVE  Due(tx'[t][d], sent')
  <2>1. CASE t = s /\ d = c
    BY <1>1, <1>2, <1>6, <1>8, <2>1 DEF Due
  <2>2. CASE ~(t = s /\ d = c)
    <3>1. tx'[t][d] = tx[t][d]
      BY <1>1, <1>2, <2>2
    <3>. QED BY <1>1, <1>8, <3>1 DEF Due
  <2>. QED BY <2>1, <2>2
<1>9. ASSUME NEW i \in 1 .. Len(bus')
      PROVE  bus'[i].id \in DOMAIN sent /\ (bus'[i].seq # 0 => Len(bus'[i].data) = FragBytes)
  <2>1. CASE bus'[i] = f
    BY <1>3, <2>1
  <2>2. CASE i \in 1 .. Len(bus) /\ bus'[i] = bus[i]
    BY <2>2
  <2>. QED BY <1>4, <2>1, <2>2
<1>. QED BY <1>1, <1>4, <1>5, <1>7, <1>8, <1>9

LEMMA SkipRestartTypes ==
  ASSUME TypeInv, NEW s \in Sender, Skip(s) \/ Restart(s)
  PROVE  TypeInv'
<1>. USE DEF TypeInv
<1>1. UNCHANGED <<sent, overrun, bus, rx, handed, refused>>
  BY DEF Skip, Restart, receiving
<1>2. turn' \in [Sender -> SendContext] /\ faults' \in 0 .. MaxFaults
  <2>1. faults' \in 0 .. MaxFaults
    BY Constants, SMT DEF Skip, Restart
  <2>2. 1 \in SendContext /\ \A k \in SendContext : k # NumSend => k + 1 \in SendContext
    BY Constants, SMT DEF SendContext
  <2>3. turn \in [Sender -> SendContext]
    OBVIOUS
  <2>4. turn' = [turn EXCEPT ![s] = IF turn[s] = NumSend THEN 1 ELSE turn[s] + 1]
        \/ turn' = [turn EXCEPT ![s] = 1]
    BY DEF Skip, Restart, NextTurn
  <2>. DEFINE t == IF turn[s] = NumSend THEN 1 ELSE turn[s] + 1
  <2>5. t \in SendContext
    BY <2>2, <2>3
  <2>. HIDE DEF t
  <2>6. turn' = [turn EXCEPT ![s] = t] \/ turn' = [turn EXCEPT ![s] = 1]
    BY <2>4, Zenon DEF t
  <2>7. CASE turn' = [turn EXCEPT ![s] = t]
    BY <2>1, <2>3, <2>5, <2>7
  <2>8. CASE turn' = [turn EXCEPT ![s] = 1]
    BY <2>1, <2>2, <2>3, <2>8
  <2>. QED BY <2>6, <2>7, <2>8
<1>3. CASE UNCHANGED tx
  BY <1>1, <1>2, <1>3 DEF Due
<1>4. CASE tx' = [tx EXCEPT ![s] = [c \in SendContext |-> FreeSend]]
  <2>1. FreeSend \in Job /\ FreeSend.id = 0
    BY DEF FreeSend, Job
  <2>2. tx' \in [Sender -> [SendContext -> Job]]
    BY <1>4, <2>1
  <2>3. ASSUME NEW t \in Sender, NEW d \in SendContext, tx'[t][d].id # 0
        PROVE  Due(tx'[t][d], sent')
    <3>1. t # s /\ tx'[t][d] = tx[t][d]
      BY <1>4, <2>1, <2>3
    <3>. QED BY <1>1, <2>3, <3>1 DEF Due
  <2>. QED BY <1>1, <1>2, <2>2, <2>3
<1>. QED BY <1>3, <1>4 DEF Skip, Restart

LEMMA OthersTypes ==
  ASSUME TypeInv, UNCHANGED <<sending, faults>>, bus' = bus \/ (bus # <<>> /\ bus' = Tail(bus)),
         rx' \in [ReceiveContext -> Context],
         \A c \in ReceiveContext : rx'[c].used =>
           rx'[c].id \in DOMAIN sent /\ rx'[c].stream \in Subscribed
             /\ Len(rx'[c].held) < BufferLen,
         handed' \in Seq(Report),
         \A i \in 1 .. Len(handed') :
           handed'[i].id \in DOMAIN sent /\ Len(handed'[i].data) <= BufferLen,
         refused' \subseteq DOMAIN sent
  PROVE  TypeInv'
<1>. USE DEF TypeInv
<1>1. /\ bus' \in Seq(Frame)
      /\ \A i \in 1 .. Len(bus') :
           bus'[i].id \in DOMAIN sent /\ (bus'[i].seq # 0 => Len(bus'[i].data) = FragBytes)
  <2>1. CASE bus # <<>> /\ bus' = Tail(bus)
    <3>1. /\ bus' \in Seq(Frame) /\ Len(bus') = Len(bus) - 1 /\ Len(bus) \in Nat
          /\ \A i \in 1 .. Len(bus') : bus'[i] = bus[i + 1]
      BY <2>1, HeadTailProperties, LenProperties
    <3>2. \A i \in 1 .. Len(bus') : i + 1 \in 1 .. Len(bus)
      BY <3>1, SMT
    <3>. QED BY <3>1, <3>2
  <2>. QED BY <2>1
<1>. QED BY <1>1 DEF Due, sending

(* The head of the bus.                                                    *)
LEMMA HeadFrame ==
  ASSUME TypeInv, bus # <<>>
  PROVE  /\ Len(bus) \in Nat /\ 1 \in 1 .. Len(bus) /\ Head(bus) = bus[1]
         /\ Head(bus) \in Frame /\ Head(bus).id \in DOMAIN sent
         /\ Head(bus).seq # 0 => Len(Head(bus).data) = FragBytes
<1>1. bus \in Seq(Frame) /\ Len(bus) \in Nat /\ Len(bus) # 0
  BY LenProperties, EmptySeq DEF TypeInv
<1>2. 1 \in 1 .. Len(bus)
  BY <1>1, SMT
<1>. QED BY <1>1, <1>2, ElementOfSeq DEF TypeInv

LEMMA HandOverTypes ==
  ASSUME TypeInv, UNCHANGED <<sending, faults>>, bus' = bus \/ (bus # <<>> /\ bus' = Tail(bus)),
         NEW c \in ReceiveContext, rx[c].used, NEW data \in Seq(Byte), Len(data) <= BufferLen,
         NEW status \in Status, HandOver(c, data, status)
  PROVE  TypeInv'
<1>. DEFINE call == Call(c, data, status)
<1>1. /\ handed' = Append(handed, call) /\ rx' = [rx EXCEPT ![c] = FreeReceive]
      /\ refused' = refused
  BY DEF HandOver
<1>2. rx \in [ReceiveContext -> Context] /\ handed \in Seq(Report) /\ rx[c].id \in DOMAIN sent
  BY DEF TypeInv
<1>3. call \in Report /\ call.id \in DOMAIN sent /\ Len(call.data) <= BufferLen
  BY <1>2 DEF Call, Report, Context
<1>4. FreeReceive \in Context /\ ~FreeReceive.used
  BY DEF FreeReceive, Context
<1>5. /\ rx' \in [ReceiveContext -> Context]
      /\ \A d \in ReceiveContext : rx'[d].used => rx'[d] = rx[d]
  BY <1>1, <1>2, <1>4
<1>. HIDE DEF call
<1>6. /\ handed' \in Seq(Report) /\ Len(handed') = Len(handed) + 1 /\ Len(handed) \in Nat
      /\ \A i \in 1 .. Len(handed) : handed'[i] = handed[i]
      /\ handed'[Len(handed) + 1] = call
  BY <1>1, <1>2, <1>3, AppendProperties, LenProperties
<1>7. \A i \in 1 .. Len(handed') : i = Len(handed) + 1 \/ i \in 1 .. Len(handed)
  BY <1>6, SMT
<1>8. \A i \in 1 .. Len(handed') :
        handed'[i].id \in DOMAIN sent /\ Len(handed'[i].data) <= BufferLen
  BY <1>3, <1>6, <1>7 DEF TypeInv
<1>. QED BY <1>1, <1>5, <1>6, <1>8, OthersTypes DEF TypeInv

LEMMA OpenTypes ==
  ASSUME TypeInv, UNCHANGED <<sending, faults>>, bus # <<>>, bus' = Tail(bus),
         NEW f \in Frame, f.id \in DOMAIN sent, f.stream \in Subscribed,
         NEW len \in Nat, NEW crc \in Seq(Byte), Open(f, len, crc)
  PROVE  TypeInv'
<1>. USE DEF TypeInv
<1>1. CASE FreeContexts # {} /\ UNCHANGED <<handed, refused>>
  <2>. DEFINE c == Min(FreeContexts)
              r == [used |-> TRUE, id |-> f.id, stream |-> f.stream, length |-> len,
                    crc |-> crc, expected |-> 1, held |-> <<>>]
  <2>1. c \in FreeContexts
    <3>1. FreeContexts \in SUBSET Nat
      BY Constants, SMT DEF FreeContexts, ReceiveContext
    <3>. QED BY <1>1, <3>1, FirstOf
  <2>2. c \in ReceiveContext
    BY <2>1 DEF FreeContexts
  <2>3. rx' = [rx EXCEPT ![c] = r]
    BY <1>1 DEF Open
  <2>4. r \in Context /\ Len(r.held) < BufferLen /\ r.id \in DOMAIN sent /\ r.stream \in Subscribed
    BY Constants DEF Context, Frame
  <2>. HIDE DEF c, r
  <2>5. /\ rx' \in [ReceiveContext -> Context]
        /\ \A d \in ReceiveContext : rx'[d].used => rx'[d] = rx[d] \/ rx'[d] = r
    BY <2>2, <2>3, <2>4
  <2>6. \A d \in ReceiveContext : rx'[d].used =>
          rx'[d].id \in DOMAIN sent /\ rx'[d].stream \in Subscribed
            /\ Len(rx'[d].held) < BufferLen
    BY <2>2, <2>3, <2>4, <2>5
  <2>. QED BY <1>1, <2>5, <2>6, OthersTypes
<1>2. CASE refused' = refused \cup {f.id} /\ UNCHANGED <<rx, handed>>
  <2>1. refused' \subseteq DOMAIN sent
    BY <1>2
  <2>. QED BY <1>2, <2>1, OthersTypes
<1>. QED BY <1>1, <1>2 DEF Open

LEMMA Joined ==
  ASSUME NEW S, NEW a \in Seq(S), NEW b \in Seq(S)
  PROVE  /\ a \o b \in Seq(S) /\ Len(a \o b) = Len(a) + Len(b)
         /\ \A i \in 1 .. Len(a) : (a \o b)[i] = a[i]
         /\ \A i \in 1 .. Len(b) : (a \o b)[Len(a) + i] = b[i]
<1>1. /\ a \o b \in Seq(S) /\ Len(a \o b) = Len(a) + Len(b)
      /\ \A i \in 1 .. Len(a) + Len(b) :
           (a \o b)[i] = IF i <= Len(a) THEN a[i] ELSE b[i - Len(a)]
  BY ConcatProperties
<1>. DEFINE ab == a \o b
<1>. HIDE DEF ab
<1>2. Len(a) \in Nat /\ Len(b) \in Nat
  BY LenProperties
<1>3. \A i \in 1 .. Len(a) : ab[i] = a[i]
  BY <1>1, <1>2, SMT DEF ab
<1>4. \A i \in 1 .. Len(b) : ab[Len(a) + i] = b[i]
  BY <1>1, <1>2, SMT DEF ab
<1>. QED BY <1>1, <1>3, <1>4 DEF ab

(* What is taken of a fragment: at least a byte, and no more than there is *)
(* room for.                                                               *)
HowMuch(c) ==
  Min({FragBytes, Max({1, rx[c].length - Len(rx[c].held)}), BufferLen - Len(rx[c].held)})

LEMMA TakenBytes ==
  ASSUME TypeInv, NEW c \in ReceiveContext, rx[c].used,
         NEW data \in Seq(Byte), Len(data) = FragBytes
  PROVE  /\ Len(rx[c].held) \in Nat /\ HowMuch(c) \in 1 .. FragBytes
         /\ Len(rx[c].held) + HowMuch(c) <= BufferLen
         /\ HowMuch(c) <= rx[c].length - Len(rx[c].held) \/ HowMuch(c) = 1
         /\ \/ HowMuch(c) = FragBytes \/ Len(rx[c].held) + HowMuch(c) = BufferLen
            \/ Len(rx[c].held) + HowMuch(c) >= rx[c].length
         /\ Taken(c, data) \in Seq(Byte)
         /\ Len(Taken(c, data)) = Len(rx[c].held) + HowMuch(c)
         /\ \A i \in 1 .. Len(rx[c].held) : Taken(c, data)[i] = rx[c].held[i]
         /\ \A i \in 1 .. HowMuch(c) : Taken(c, data)[Len(rx[c].held) + i] = data[i]
<1>. DEFINE h == Len(rx[c].held)
            l == rx[c].length
            m == Max({1, l - h})
            n == HowMuch(c)
<1>1. rx[c].held \in Seq(Byte) /\ l \in Nat /\ h \in Nat /\ h < BufferLen
  BY LenProperties DEF TypeInv, Context
<1>2. m = IF 1 >= l - h THEN 1 ELSE l - h
  BY <1>1, MaxOfTwo, SMT
<1>3. m \in Int
  BY <1>1, <1>2, SMT
<1>4. /\ n \in {FragBytes, m, BufferLen - h}
      /\ n <= FragBytes /\ n <= m /\ n <= BufferLen - h
  <2>1. FragBytes \in Int /\ BufferLen - h \in Int
    BY <1>1, Constants, SMT
  <2>. HIDE DEF m, h
  <2>. QED BY <1>3, <2>1, MinOfThree, Zenon DEF HowMuch, m, l, h
<1>5. /\ n \in 1 .. FragBytes /\ h + n <= BufferLen /\ (n <= l - h \/ n = 1)
      /\ (n = FragBytes \/ h + n = BufferLen \/ h + n >= l)
  <2>. HIDE DEF n, m, h, l
  <2>. QED BY <1>1, <1>2, <1>4, Constants, SMT
<1>6. Taken(c, data) = rx[c].held \o SubSeq(data, 1, n)
  BY DEF Taken, HowMuch
<1>. HIDE DEF n
<1>7. /\ SubSeq(data, 1, n) \in Seq(Byte) /\ Len(SubSeq(data, 1, n)) = n
      /\ \A i \in 1 .. n : SubSeq(data, 1, n)[i] = data[i]
  <2>1. n \in Int /\ \A i \in 1 .. n : data[i] \in Byte
    BY <1>5, Constants, SMT
  <2>2. /\ SubSeq(data, 1, n) \in Seq(Byte)
        /\ Len(SubSeq(data, 1, n)) = IF 1 <= n THEN n - 1 + 1 ELSE 0
        /\ \A i \in 1 .. n - 1 + 1 : SubSeq(data, 1, n)[i] = data[1 + i - 1]
    BY <2>1, SubSeqProperties
  <2>3. \A i \in 1 .. n : i \in 1 .. n - 1 + 1 /\ 1 + i - 1 = i
    BY <2>1, SMT
  <2>4. (IF 1 <= n THEN n - 1 + 1 ELSE 0) = n
    BY <1>5, SMT
  <2>. QED BY <2>2, <2>3, <2>4
<1>8. /\ Taken(c, data) \in Seq(Byte) /\ Len(Taken(c, data)) = h + n
      /\ \A i \in 1 .. h : Taken(c, data)[i] = rx[c].held[i]
      /\ \A i \in 1 .. n : Taken(c, data)[h + i] = data[i]
  BY <1>1, <1>6, <1>7, Joined
<1>. QED BY <1>1, <1>5, <1>8 DEF n

LEMMA KeptTypes ==
  ASSUME TypeInv, UNCHANGED <<sending, faults, handed, refused>>, bus # <<>>, bus' = Tail(bus),
         NEW c \in ReceiveContext, rx[c].used,
         NEW held \in Seq(Byte), Len(held) < BufferLen,
         rx' = [rx EXCEPT ![c].held = held, ![c].expected = @ + 1]
  PROVE  /\ TypeInv'
         /\ \A d \in ReceiveContext : d # c => rx'[d] = rx[d]
         /\ rx'[c] = [rx[c] EXCEPT !.held = held, !.expected = @ + 1]
<1>. DEFINE r == [rx[c] EXCEPT !.held = held, !.expected = @ + 1]
<1>1. rx \in [ReceiveContext -> Context]
  BY DEF TypeInv
<1>2. r \in Context /\ r.used /\ r.id = rx[c].id /\ r.stream = rx[c].stream /\ r.held = held
  <2>1. rx[c] \in Context
    BY <1>1
  <2>. DEFINE e == rx[c].expected + 1
  <2>2. e \in Nat
    BY <2>1 DEF Context
  <2>3. r = [rx[c] EXCEPT !.held = held, !.expected = e]
    OBVIOUS
  <2>. HIDE DEF r, e
  <2>. QED BY <2>1, <2>2, <2>3 DEF Context
<1>3. rx' = [rx EXCEPT ![c] = r]
  BY <1>1
<1>. HIDE DEF r
<1>4. /\ rx' \in [ReceiveContext -> Context] /\ rx'[c] = r
      /\ \A d \in ReceiveContext : d # c => rx'[d] = rx[d]
  BY <1>1, <1>2, <1>3
<1>5. ASSUME NEW d \in ReceiveContext, rx'[d].used
      PROVE  /\ rx'[d].id \in DOMAIN sent /\ rx'[d].stream \in Subscribed
             /\ Len(rx'[d].held) < BufferLen
  BY <1>2, <1>4, <1>5 DEF TypeInv
<1>6. TypeInv'
  BY <1>4, <1>5, OthersTypes DEF TypeInv
<1>. QED BY <1>4, <1>6 DEF r

(* What becomes of a frame that arrives.                                   *)
Ignored(f) ==
  /\ UNCHANGED receiving
  /\ f.seq = 0 => f.stream \notin Subscribed \/ f.data # <<>>
  /\ f.seq # 0 => ContextsOf(f) = {}
Opened(f) ==
  /\ f.seq = 0 /\ f.stream \in Subscribed
  /\ \E len \in Nat, crc \in Seq(Byte) :
       /\ f.data = <<>> => len = f.len /\ crc = f.crc
       /\ Open(f, len, crc)
Used(f) ==
  /\ f.seq # 0
  /\ \E c \in ReceiveContext : c \in ContextsOf(f) /\ (ReceiveUnexpected(f, c) \/ ReceiveExpected(f, c))

LEMMA ReceiveCases ==
  ASSUME TypeInv, Receive
  PROVE  /\ bus # <<>> /\ bus' = Tail(bus) /\ UNCHANGED <<sending, faults>>
         /\ Ignored(Head(bus)) \/ Opened(Head(bus)) \/ Used(Head(bus))
<1>. DEFINE f == Head(bus)
<1>1. /\ bus # <<>> /\ bus' = Tail(bus) /\ UNCHANGED <<sending, faults>>
      /\ \/ ReceiveHeader(f) \/ ReceiveStray(f)
         \/ f.seq # 0 /\ \E c \in ContextFor(f) : ReceiveUnexpected(f, c) \/ ReceiveExpected(f, c)
  BY DEF Receive
<1>2. f \in Frame
  BY <1>1, HeadFrame
<1>. SUFFICES Ignored(f) \/ Opened(f) \/ Used(f)
  BY <1>1
<1>. HIDE DEF f
<1>3. CASE ReceiveHeader(f)
  <2>1. CASE f.stream \in Subscribed /\ f.data = <<>> /\ Open(f, f.len, f.crc)
    <3>1. f.len \in Nat /\ f.crc \in Seq(Byte)
      BY <1>2 DEF Frame
    <3>. QED BY <1>3, <2>1, <3>1 DEF ReceiveHeader, Opened
  <2>2. CASE f.stream \in Subscribed /\ f.data # <<>> /\ \E len \in Lens, crc \in {<<>>, OtherCrc} :
               Open(f, len, crc)
    <3>1. PICK len \in Lens, crc \in {<<>>, OtherCrc} : Open(f, len, crc)
      BY <2>2
    <3>2. len \in Nat
      BY Constants
    <3>3. OtherCrc \in Seq(Byte) /\ <<>> \in Seq(Byte)
      <4>1. <<0, 1>> \in Byte
        BY DEF Byte
      <4>. QED BY <4>1 DEF OtherCrc
    <3>. QED BY <1>3, <2>2, <3>1, <3>2, <3>3 DEF ReceiveHeader, Opened
  <2>3. CASE (f.stream \notin Subscribed \/ f.data # <<>>) /\ UNCHANGED receiving
    BY <1>3, <2>3 DEF Ignored, ReceiveHeader
  <2>. QED BY <1>3, <2>1, <2>2, <2>3 DEF ReceiveHeader
<1>4. CASE ReceiveStray(f)
  BY <1>4 DEF ReceiveStray, Ignored
<1>5. CASE f.seq # 0 /\ \E c \in ContextFor(f) : ReceiveUnexpected(f, c) \/ ReceiveExpected(f, c)
  BY <1>5 DEF Used, ContextFor, ContextsOf, Receiving
<1>. QED BY <1>1, <1>3, <1>4, <1>5, Zenon DEF f

LEMMA ReceiveTypes ==
  ASSUME TypeInv, Receive
  PROVE  TypeInv'
<1>. DEFINE f == Head(bus)
<1>1. /\ bus # <<>> /\ bus' = Tail(bus) /\ UNCHANGED <<sending, faults>>
      /\ Ignored(f) \/ Opened(f) \/ Used(f)
  BY ReceiveCases
<1>2. f \in Frame /\ f.id \in DOMAIN sent /\ (f.seq # 0 => Len(f.data) = FragBytes)
  BY <1>1, HeadFrame
<1>. HIDE DEF f
<1>3. CASE Ignored(f)
  BY <1>1, <1>3, OthersTypes DEF Ignored, receiving, TypeInv
<1>4. CASE Opened(f)
  BY <1>1, <1>2, <1>4, OpenTypes DEF Opened
<1>5. CASE Used(f)
  <2>1. PICK c \in ReceiveContext : c \in ContextsOf(f) /\ (ReceiveUnexpected(f, c) \/ ReceiveExpected(f, c))
    BY <1>5 DEF Used
  <2>2. rx[c].used /\ f.data \in Seq(Byte) /\ Len(f.data) = FragBytes
    BY <1>2, <1>5, <2>1 DEF Used, ContextsOf, Receiving, Frame
  <2>3. rx[c].held \in Seq(Byte) /\ Len(rx[c].held) < BufferLen /\ Len(rx[c].held) \in Nat
    BY <2>2, LenProperties DEF TypeInv, Context
  <2>4. CASE ReceiveUnexpected(f, c)
    <3>1. HandOver(c, rx[c].held, SEQUENCE_ERROR) /\ SEQUENCE_ERROR \in Status
      BY <2>4 DEF ReceiveUnexpected, Status
    <3>2. Len(rx[c].held) <= BufferLen
      BY <2>3, Constants, SMT
    <3>. QED BY <1>1, <2>2, <2>3, <3>1, <3>2, HandOverTypes
  <2>5. CASE ReceiveExpected(f, c)
    <3>. DEFINE held == Taken(c, f.data)
    <3>1. held \in Seq(Byte) /\ Len(held) <= BufferLen /\ Len(held) \in Nat
      BY <2>2, TakenBytes, LenProperties
    <3>2. \/ \E status \in Status : HandOver(c, held, status)
          \/ /\ Len(held) < BufferLen
             /\ rx' = [rx EXCEPT ![c].held = held, ![c].expected = @ + 1]
             /\ UNCHANGED <<handed, refused>>
      BY <2>5 DEF ReceiveExpected, Status
    <3>. HIDE DEF held
    <3>3. CASE \E status \in Status : HandOver(c, held, status)
      BY <1>1, <2>2, <3>1, <3>3, HandOverTypes
    <3>4. CASE /\ Len(held) < BufferLen
               /\ rx' = [rx EXCEPT ![c].held = held, ![c].expected = @ + 1]
               /\ UNCHANGED <<handed, refused>>
      BY <1>1, <2>2, <3>1, <3>4, KeptTypes
    <3>. QED BY <3>2, <3>3, <3>4
  <2>. QED BY <2>1, <2>4, <2>5
<1>. QED BY <1>1, <1>3, <1>4, <1>5

LEMMA TimeOutTypes ==
  ASSUME TypeInv, NEW c \in ReceiveContext, TimeOut(c)
  PROVE  TypeInv'
<1>1. /\ rx[c].used /\ HandOver(c, rx[c].held, TIMEOUT_ERROR) /\ TIMEOUT_ERROR \in Status
      /\ UNCHANGED <<sending, bus, faults>>
  BY DEF TimeOut, TimedOut, Receiving, Status
<1>2. rx[c].held \in Seq(Byte) /\ Len(rx[c].held) < BufferLen /\ Len(rx[c].held) \in Nat
  BY <1>1, LenProperties DEF TypeInv, Context
<1>3. Len(rx[c].held) <= BufferLen
  BY <1>2, Constants, SMT
<1>. QED BY <1>1, <1>2, <1>3, HandOverTypes

LEMMA StepTypes == TypeInv /\ [Next]_vars => TypeInv'
<1>. SUFFICES ASSUME TypeInv, [Next]_vars PROVE TypeInv'
  OBVIOUS
<1>1. ASSUME NEW s \in Sender, NEW stream \in Stream, NEW len \in Lens,
             NEW zero \in FirstZero, SendLongMessage(s, stream, len, zero)
      PROVE  TypeInv'
  BY <1>1, SendTypes
<1>2. ASSUME NEW s \in Sender, SendFragment(s) PROVE TypeInv'
  BY <1>2, FragmentTypes
<1>3. ASSUME NEW s \in Sender, Skip(s) \/ Restart(s) PROVE TypeInv'
  BY <1>3, SkipRestartTypes
<1>4. CASE Receive
  BY <1>4, ReceiveTypes
<1>5. ASSUME NEW c \in ReceiveContext, TimeOut(c) PROVE TypeInv'
  BY <1>5, TimeOutTypes
<1>6. CASE UNCHANGED vars
  BY <1>6 DEF vars, TypeInv, Due
<1>. QED BY <1>1, <1>2, <1>3, <1>4, <1>5, <1>6 DEF Next

(* However frames are lost and senders restart, no receive buffer is       *)
(* filled beyond its end, the round robin of a sender never leaves its     *)
(* contexts, and a context that is in use belongs to a message that was    *)
(* sent: what process() and processReceivedMessageFragment() rely on.      *)
THEOREM BuffersHold == Spec => []TypeOK
<1>1. Init => TypeInv
  BY InitTypes
<1>2. TypeInv /\ [Next]_vars => TypeInv'
  BY StepTypes
<1>3. TypeInv => TypeOK
  BY TypeOKHolds
<1>. QED BY <1>1, <1>2, <1>3, PTL DEF Spec
-----------------------------------------------------------------------------
(* What is complete is whole.  As long as no number has wrapped, what is   *)
(* on its way and what is held is what was sent, and at any time there is  *)
(* one header, one context or one report of a message at most.             *)

CrcOf(id, len) == IF CrcBySender THEN [i \in 1 .. len |-> <<id, i>>] ELSE <<>>

ProperFrame(f, m) ==
  /\ f.stream = m.stream
  /\ f.seq = 0 => f.data = <<>> /\ f.len = m.len /\ f.crc = CrcOf(f.id, m.len)
  /\ f.seq # 0 => f.data = Piece(f.id, (f.seq - 1) * FragBytes, m.copied)

ProperContext(r, m) ==
  r.stream = m.stream /\ r.length = m.len /\ r.crc = CrcOf(r.id, m.len)

ProperCall(call, m) ==
  call.status = COMPLETE /\ m.len > 0 =>
    call.stream = m.stream /\ call.data = [i \in 1 .. m.len |-> <<call.id, i>>]

Faithful ==
  /\ \A i \in 1 .. Len(bus) : ProperFrame(bus[i], sent[bus[i].id])
  /\ \A c \in ReceiveContext : rx[c].used => ProperContext(rx[c], sent[rx[c].id])
  /\ CrcBySender /\ CrcByReceiver =>
       \A k \in 1 .. Len(handed) : ProperCall(handed[k], sent[handed[k].id])

OnceEach ==
  /\ \A i \in 1 .. Len(bus) : bus[i].seq = 0 =>
       /\ \A j \in 1 .. Len(bus) : bus[j].seq = 0 /\ bus[j].id = bus[i].id => j = i
       /\ \A c \in ReceiveContext : rx[c].used => rx[c].id # bus[i].id
       /\ \A k \in 1 .. Len(handed) : handed[k].id # bus[i].id
  /\ \A c \in ReceiveContext : rx[c].used =>
       /\ \A d \in ReceiveContext : rx[d].used /\ rx[d].id = rx[c].id => d = c
       /\ \A k \in 1 .. Len(handed) : handed[k].id # rx[c].id
  /\ \A j, k \in 1 .. Len(handed) : handed[j].id = handed[k].id => j = k

WholeInv == NumbersWrap \/ (Faithful /\ OnceEach)

-----------------------------------------------------------------------------
(* Order.  Without a fault, and when no two nodes share a stream, the      *)
(* frames of one stream come one after the other: the receiver is ready    *)
(* for the first of them, and what a sender does next follows the last.    *)

(* A frame that ends its message, and one that comes right after another.  *)
Ends(f, messages) == f.seq # 0 /\ f.seq * FragBytes >= messages[f.id].len
Follows(f, id, seq, messages) ==
  \/ id = f.id /\ seq = f.seq + 1
  \/ seq = 0 /\ Ends(f, messages)

(* The receiver is ready for the frame of message id with this number.     *)
Ready(stream, id, seq) ==
  \A c \in ReceiveContext : rx[c].used /\ rx[c].stream = stream =>
    seq # 0 /\ rx[c].id = id /\ rx[c].expected = seq

LastOn(stream, i) ==
  bus[i].stream = stream /\ \A k \in 1 .. Len(bus) : k > i => bus[k].stream # stream

(* A frame of message id with this number can be sent on this stream next. *)
SentNext(stream, id, seq) ==
  /\ \A i \in 1 .. Len(bus) : LastOn(stream, i) => Follows(bus[i], id, seq, sent)
  /\ (\A i \in 1 .. Len(bus) : bus[i].stream # stream) => Ready(stream, id, seq)

Active(s, c) == tx[s][c].id # 0
StreamOf(s, c) == sent[tx[s][c].id].stream

FirstIsExpected ==
  \A i \in 1 .. Len(bus) :
    (\A k \in 1 .. Len(bus) : k < i => bus[k].stream # bus[i].stream) =>
      Ready(bus[i].stream, bus[i].id, bus[i].seq)

OneAfterTheOther ==
  \A i, j \in 1 .. Len(bus) :
    /\ i < j /\ bus[i].stream = bus[j].stream
    /\ \A k \in 1 .. Len(bus) : i < k /\ k < j => bus[k].stream # bus[i].stream
    => Follows(bus[i], bus[j].id, bus[j].seq, sent)

SendersContinue ==
  \A s \in Sender, c \in SendContext : Active(s, c) =>
    SentNext(StreamOf(s, c), tx[s][c].id, tx[s][c].seq)

IdleStreamsEnded ==
  \A stream \in Stream :
    (\A s \in Sender, c \in SendContext : Active(s, c) => StreamOf(s, c) # stream) =>
      \A id \in Nat : SentNext(stream, id, 0)

InOrder == FirstIsExpected /\ OneAfterTheOther /\ SendersContinue /\ IdleStreamsEnded

(* One context of a stream on either side.                                 *)
SendersApart ==
  \A s, t \in Sender, c, d \in SendContext :
    Active(s, c) /\ Active(t, d) /\ StreamOf(s, c) = StreamOf(t, d) => s = t /\ c = d

ContextsApart ==
  \A c, d \in ReceiveContext :
    rx[c].used /\ rx[d].used /\ rx[c].stream = rx[d].stream => c = d

(* What a context holds is the beginning of its message, as far as that    *)
(* was copied.                                                             *)
Holds(r, m) ==
  /\ r.expected # 0 /\ Len(r.held) = (r.expected - 1) * FragBytes
  /\ Len(r.held) < m.len \/ r.held = <<>>
  /\ \A i \in 1 .. Len(r.held) : i <= m.copied => r.held[i] = <<r.id, i>>

(* A report that no fault on the way is needed for.                        *)
Excused(status, m) ==
  \/ status \in {COMPLETE, TRUNCATED}
  \/ status = CRC_ERROR /\ m.copied < m.len

NoErrors ==
  \A k \in 1 .. Len(handed) : Excused(handed[k].status, sent[handed[k].id])

Holding == \A c \in ReceiveContext : rx[c].used => Holds(rx[c], sent[rx[c].id])

Orderly == InOrder /\ SendersApart /\ ContextsApart /\ Holding /\ NoErrors

OrderInv ==
  NumbersWrap \/ faults > 0 \/ Orderly
(* A number that has wrapped once has wrapped for good.                    *)
LEMMA StaysWrapped ==
  ASSUME sent \in Seq(Message), NEW m \in Message, sent' = Append(sent, m), NumbersWrap
  PROVE  NumbersWrap'
<1>1. PICK id \in DOMAIN sent : Frames(id) > SeqRange
  BY DEF NumbersWrap
<1>2. id \in DOMAIN sent' /\ sent'[id] = sent[id]
  BY SentGrows
<1>. QED BY <1>1, <1>2 DEF NumbersWrap, Frames

(* The number of a fragment of a message that is not too long fits.        *)
LEMMA NumberBound ==
  ASSUME NEW len \in Nat, NEW seq \in Nat, seq # 0,
         (seq - 1) * FragBytes < len \/ seq = 1,
         1 + (len + FragBytes - 1) \div FragBytes <= SeqRange
  PROVE  seq < SeqRange
<1>. DEFINE k == len + FragBytes - 1
            d == k \div FragBytes
<1>1. FragBytes \in Nat /\ FragBytes > 0 /\ SeqRange \in Nat /\ SeqRange > 1 /\ k \in Nat
  BY Constants, SMT
<1>2. CASE seq = 1
  BY <1>1, <1>2
<1>3. CASE (seq - 1) * FragBytes < len
  <2>. HIDE DEF k
  <2>1. d \in Int /\ k < (d + 1) * FragBytes
    BY <1>1, SMT
  <2>. HIDE DEF d
  <2>2. (seq - 1) * FragBytes + FragBytes = seq * FragBytes
    BY <1>1, SMT
  <2>. DEFINE p == (seq - 1) * FragBytes
              q == seq * FragBytes
  <2>3. p \in Int /\ q \in Int
    BY <1>1, SMT
  <2>. HIDE DEF p, q
  <2>4. p < len /\ p + FragBytes = q
    BY <1>3, <2>2 DEF p, q
  <2>5. q <= k
    BY <1>1, <2>3, <2>4, SMT DEF k
  <2>6. ~ (d + 1 <= seq)
    <3>1. SUFFICES ASSUME d + 1 <= seq PROVE FALSE
      OBVIOUS
    <3>2. (d + 1) * FragBytes <= seq * FragBytes
      BY <1>1, <2>1, <3>1, SMT
    <3>. DEFINE e == (d + 1) * FragBytes
    <3>3. e \in Int
      BY <1>1, <2>1, SMT
    <3>. HIDE DEF e
    <3>4. k < e /\ e <= q
      BY <2>1, <3>2 DEF e, q
    <3>. QED BY <1>1, <2>3, <2>5, <3>3, <3>4, SMT
  <2>7. 1 + d <= SeqRange
    BY DEF d, k
  <2>. QED BY <1>1, <2>1, <2>6, <2>7, SMT
<1>. QED BY <1>2, <1>3

LEMMA NumberFits ==
  ASSUME TypeInv, ~NumbersWrap, NEW o \in Job, Due(o, sent)
  PROVE  o.seq % SeqRange = o.seq
<1>1. sent[o.id] \in Message /\ o.id \in DOMAIN sent
  BY LenProperties, ElementOfSeq DEF TypeInv, Due
<1>2. sent[o.id].len \in Nat /\ o.seq \in Nat /\ o.seq # 0
  BY <1>1, Constants DEF Message, Job, Due
<1>3. (o.seq - 1) * FragBytes < sent[o.id].len \/ o.seq = 1
  BY DEF Due
<1>4. Frames(o.id) \in Int /\ ~(Frames(o.id) > SeqRange)
  BY <1>1, <1>2, Constants, SMT DEF NumbersWrap, Frames
<1>5. Frames(o.id) <= SeqRange
  BY <1>4, Constants, SMT
<1>6. o.seq < SeqRange
  BY <1>2, <1>3, <1>5, NumberBound DEF Frames
<1>. QED BY <1>2, <1>6, Constants, SMT

(* A message that is sent takes a free context and the next id.            *)
LEMMA SendStep ==
  ASSUME TypeInv, NEW s \in Sender, NEW stream \in Stream, NEW len \in Lens,
         NEW zero \in FirstZero, SendLongMessage(s, stream, len, zero)
  PROVE  /\ UNCHANGED <<rx, handed, refused>>
         /\ \/ UNCHANGED <<sent, tx, bus, faults>>
            \/ /\ sent' = Append(sent, Submitted(stream, len, zero))
               /\ \E c \in SendContext :
                    /\ tx[s][c].id = 0
                    /\ tx' = [tx EXCEPT ![s][c] = [id |-> Len(sent) + 1, index |-> 0, seq |-> 1]]
               /\ Transmit(Header(Len(sent) + 1, stream, len))
<1>1. UNCHANGED <<rx, handed, refused>>
  BY DEF SendLongMessage, receiving
<1>2. CASE UNCHANGED <<sent, tx, bus, faults>>
  BY <1>1, <1>2
<1>3. CASE InUse(s) # SendContext /\ UNCHANGED overrun
  <2>. DEFINE c == Min(SendContext \ InUse(s))
  <2>1. c \in SendContext \ InUse(s)
    <3>1. SendContext \ InUse(s) \in SUBSET Nat /\ SendContext \ InUse(s) # {}
      BY <1>3, Constants, SMT DEF SendContext, InUse
    <3>. QED BY <3>1, FirstOf, Zenon
  <2>2. CASE UNCHANGED <<sent, tx, turn, bus, faults>>
    BY <1>1, <2>2
  <2>3. CASE /\ sent' = Append(sent, Submitted(stream, len, zero))
             /\ tx' = [tx EXCEPT ![s][c] = [id |-> Len(sent) + 1, index |-> 0, seq |-> 1]]
             /\ Transmit(Header(Len(sent) + 1, stream, len))
    <3>1. c \in SendContext /\ tx[s][c].id = 0
      BY <2>1 DEF InUse
    <3>. HIDE DEF c
    <3>. QED BY <1>1, <2>3, <3>1
  <2>. QED BY <2>2, <2>3 DEF SendLongMessage, Submitted
<1>. QED BY <1>2, <1>3 DEF SendLongMessage

(* A frame more on its way, or a fault.                                    *)
LEMMA Transmitted ==
  ASSUME bus \in Seq(Frame), NEW f \in Frame, Transmit(f), faults \in Nat
  PROVE  \/ bus' = bus /\ faults' = faults + 1 /\ faults' > 0
         \/ /\ UNCHANGED faults
            /\ bus' \in Seq(Frame) /\ Len(bus) \in Nat /\ Len(bus') = Len(bus) + 1
            /\ \A i \in 1 .. Len(bus) : i \in 1 .. Len(bus') /\ bus'[i] = bus[i]
            /\ Len(bus) + 1 \in 1 .. Len(bus') /\ bus'[Len(bus) + 1] = f
            /\ \A i \in 1 .. Len(bus') : i = Len(bus) + 1 \/ i \in 1 .. Len(bus)
<1>1. CASE bus' = Append(bus, f) /\ UNCHANGED faults
  <2>1. /\ bus' \in Seq(Frame) /\ Len(bus') = Len(bus) + 1 /\ Len(bus) \in Nat
        /\ \A i \in 1 .. Len(bus) : bus'[i] = bus[i]
        /\ bus'[Len(bus) + 1] = f
    BY <1>1, AppendProperties, LenProperties
  <2>2. /\ \A i \in 1 .. Len(bus') : i = Len(bus) + 1 \/ i \in 1 .. Len(bus)
        /\ \A i \in 1 .. Len(bus) : i \in 1 .. Len(bus')
        /\ Len(bus) + 1 \in 1 .. Len(bus')
    BY <2>1, SMT
  <2>. QED BY <1>1, <2>1, <2>2
<1>2. CASE faults < MaxFaults /\ faults' = faults + 1 /\ UNCHANGED bus
  BY <1>2, SMT
<1>. QED BY <1>1, <1>2 DEF Transmit

(* The buses of a sending step differ by a frame f at the end at most.     *)
LEMMA SentWhole ==
  ASSUME TypeInv, Faithful, OnceEach, UNCHANGED <<rx, handed>>,
         DOMAIN sent \subseteq DOMAIN sent', \A id \in DOMAIN sent : sent'[id] = sent[id],
         NEW f \in Frame, Transmit(f), ProperFrame(f, sent'[f.id]),
         f.seq = 0 => f.id \notin DOMAIN sent
  PROVE  Faithful' /\ OnceEach'
<1>. USE DEF TypeInv
<1>1. \A i \in 1 .. Len(bus') : \/ bus'[i] = f /\ i = Len(bus) + 1
                                \/ i \in 1 .. Len(bus) /\ bus'[i] = bus[i]
  <2>1. bus \in Seq(Frame) /\ faults \in Nat
    BY SMT
  <2>. QED BY <2>1, Transmitted
<1>2. Faithful'
  <2>1. ASSUME NEW i \in 1 .. Len(bus') PROVE ProperFrame(bus'[i], sent'[bus'[i].id])
    <3>1. CASE bus'[i] = f
      BY <3>1
    <3>2. CASE i \in 1 .. Len(bus) /\ bus'[i] = bus[i]
      BY <3>2 DEF Faithful
    <3>. QED BY <1>1, <3>1, <3>2
  <2>2. ASSUME NEW c \in ReceiveContext, rx[c].used
        PROVE  ProperContext(rx[c], sent'[rx[c].id])
    BY <2>2 DEF Faithful
  <2>3. ASSUME CrcBySender /\ CrcByReceiver, NEW k \in 1 .. Len(handed)
        PROVE  ProperCall(handed[k], sent'[handed[k].id])
    BY <2>3 DEF Faithful
  <2>. QED BY <2>1, <2>2, <2>3 DEF Faithful
<1>3. OnceEach'
  <2>1. ASSUME NEW i \in 1 .. Len(bus'), bus'[i].seq = 0
        PROVE  /\ \A j \in 1 .. Len(bus') : bus'[j].seq = 0 /\ bus'[j].id = bus'[i].id => j = i
               /\ \A c \in ReceiveContext : rx[c].used => rx[c].id # bus'[i].id
               /\ \A k \in 1 .. Len(handed) : handed[k].id # bus'[i].id
    <3>1. CASE bus'[i] = f /\ i = Len(bus) + 1
      <4>1. f.id \notin DOMAIN sent
        BY <2>1, <3>1
      <4>2. ASSUME NEW j \in 1 .. Len(bus'), bus'[j].id = f.id
            PROVE  j = i
        <5>1. CASE j \in 1 .. Len(bus) /\ bus'[j] = bus[j]
          BY <4>1, <4>2, <5>1
        <5>. QED BY <1>1, <3>1, <5>1
      <4>3. \A c \in ReceiveContext : rx[c].used => rx[c].id # f.id
        BY <4>1
      <4>4. \A k \in 1 .. Len(handed) : handed[k].id # f.id
        BY <4>1
      <4>. QED BY <3>1, <4>2, <4>3, <4>4
    <3>2. CASE i \in 1 .. Len(bus) /\ bus'[i] = bus[i]
      <4>1. ASSUME NEW j \in 1 .. Len(bus'), bus'[j].seq = 0, bus'[j].id = bus'[i].id
            PROVE  j = i
        <5>1. CASE bus'[j] = f
          BY <2>1, <3>2, <4>1, <5>1
        <5>2. CASE j \in 1 .. Len(bus) /\ bus'[j] = bus[j]
          BY <2>1, <3>2, <4>1, <5>2 DEF OnceEach
        <5>. QED BY <1>1, <5>1, <5>2
      <4>. QED BY <2>1, <3>2, <4>1 DEF OnceEach
    <3>. QED BY <1>1, <3>1, <3>2
  <2>. QED BY <2>1 DEF OnceEach
<1>. QED BY <1>2, <1>3

LEMMA SendWhole ==
  ASSUME TypeInv, Faithful, OnceEach, NEW s \in Sender, NEW stream \in Stream, NEW len \in Lens,
         NEW zero \in FirstZero, SendLongMessage(s, stream, len, zero)
  PROVE  Faithful' /\ OnceEach'
<1>1. UNCHANGED <<rx, handed>>
  BY SendStep
<1>2. CASE UNCHANGED <<sent, tx, bus, faults>>
  BY <1>1, <1>2 DEF Faithful, OnceEach
<1>3. CASE /\ sent' = Append(sent, Submitted(stream, len, zero))
           /\ Transmit(Header(Len(sent) + 1, stream, len))
  <2>. DEFINE id == Len(sent) + 1
              h == Header(id, stream, len)
              m == Submitted(stream, len, zero)
  <2>1. m \in Message
    BY SubmittedType
  <2>2. /\ Len(sent) \in Nat /\ DOMAIN sent = 1 .. Len(sent) /\ DOMAIN sent \subseteq DOMAIN sent'
        /\ \A k \in DOMAIN sent : sent'[k] = sent[k]
        /\ sent'[id] = m
    BY <1>3, <2>1, SentGrows DEF TypeInv
  <2>3. id \in Nat /\ id \notin DOMAIN sent
    BY <2>2, SMT
  <2>. HIDE DEF id
  <2>4. h \in Frame /\ h.id = id /\ ProperFrame(h, m)
    <3>1. m.stream = stream /\ m.len = len
      BY SubmittedType
    <3>. HIDE DEF m
    <3>. QED BY <2>3, <3>1, HeaderType DEF Header, ProperFrame, CrcOf
  <2>5. Transmit(h)
    BY <1>3 DEF id
  <2>. HIDE DEF h, m
  <2>. QED BY <1>1, <2>2, <2>3, <2>4, <2>5, SentWhole
<1>. QED BY <1>2, <1>3, SendStep, Zenon

LEMMA FragmentStep ==
  ASSUME TypeInv, ~NumbersWrap, NEW s \in Sender, SendFragment(s)
  PROVE  \E c \in SendContext, f \in Frame :
           /\ Active(s, c) /\ tx' = [tx EXCEPT ![s][c] = Advanced(tx[s][c])]
           /\ Transmit(f) /\ f.id = tx[s][c].id /\ f.seq = tx[s][c].seq
           /\ f.seq # 0 /\ f.id \in DOMAIN sent /\ ProperFrame(f, sent[f.id])
           /\ UNCHANGED <<sent, rx, handed, refused>>
<1>. DEFINE c == turn[s]
            o == tx[s][c]
            f == Fragment(o.id, o.seq, Piece(o.id, o.index, sent[o.id].copied))
<1>1. /\ c \in InUse(s) /\ Transmit(f) /\ tx' = [tx EXCEPT ![s][c] = Advanced(o)]
      /\ UNCHANGED <<sent, rx, handed, refused>>
  BY DEF SendFragment, Buffered, Piece, receiving
<1>2. c \in SendContext /\ o \in Job /\ o.id # 0 /\ Due(o, sent)
  BY <1>1 DEF InUse, TypeInv
<1>3. f \in Frame /\ f.id = o.id /\ o.id \in DOMAIN sent
  BY <1>2, FragmentType DEF Job, Due, Fragment
<1>4. f.seq = o.seq /\ o.seq # 0
  BY <1>2, NumberFits DEF Fragment, Due
<1>5. f.stream = sent[o.id].stream /\ f.data = Piece(o.id, (o.seq - 1) * FragBytes, sent[o.id].copied)
  BY <1>2 DEF Fragment, Due
<1>. HIDE DEF f
<1>6. ProperFrame(f, sent[f.id])
  BY <1>3, <1>4, <1>5, Zenon DEF ProperFrame
<1>. HIDE DEF c
<1>. QED BY <1>1, <1>2, <1>3, <1>4, <1>6 DEF Active

LEMMA FragmentWhole ==
  ASSUME TypeInv, ~NumbersWrap, Faithful, OnceEach, NEW s \in Sender, SendFragment(s)
  PROVE  Faithful' /\ OnceEach'
<1>1. PICK f \in Frame :
        /\ Transmit(f) /\ f.seq # 0 /\ f.id \in DOMAIN sent /\ ProperFrame(f, sent[f.id])
        /\ UNCHANGED <<sent, rx, handed, refused>>
  BY FragmentStep
<1>2. sent' = sent /\ ProperFrame(f, sent'[f.id])
  BY <1>1
<1>. QED BY <1>1, <1>2, SentWhole

(* What is on its way after a step that sends nothing.                     *)
LEMMA Shifted ==
  ASSUME TypeInv, bus' = bus \/ (bus # <<>> /\ bus' = Tail(bus))
  PROVE  \E d \in {0, 1} :
           /\ bus # <<>> /\ bus' = Tail(bus) => d = 1
           /\ \A i \in 1 .. Len(bus') : i + d \in 1 .. Len(bus) /\ bus'[i] = bus[i + d]
<1>1. bus \in Seq(Frame) /\ Len(bus) \in Nat
  BY LenProperties DEF TypeInv
<1>2. CASE bus # <<>> /\ bus' = Tail(bus)
  <2>1. /\ Len(bus') = Len(bus) - 1
        /\ \A i \in 1 .. Len(bus') : bus'[i] = bus[i + 1]
    BY <1>1, <1>2, HeadTailProperties
  <2>2. \A i \in 1 .. Len(bus') : i + 1 \in 1 .. Len(bus)
    BY <1>1, <2>1, SMT
  <2>. QED BY <2>1, <2>2
<1>3. CASE bus' = bus /\ ~(bus # <<>> /\ bus' = Tail(bus))
  <2>1. \A i \in 1 .. Len(bus') : i + 0 = i
    BY <1>1, <1>3, SMT
  <2>. QED BY <1>3, <2>1
<1>. QED BY <1>2, <1>3

LEMMA HeadersApart ==
  ASSUME OnceEach, NEW d \in {0, 1},
         \A i \in 1 .. Len(bus') : i + d \in 1 .. Len(bus) /\ bus'[i] = bus[i + d],
         NEW i \in 1 .. Len(bus'), NEW j \in 1 .. Len(bus'),
         bus'[i].seq = 0, bus'[j].seq = 0, bus'[j].id = bus'[i].id
  PROVE  j = i
<1>. DEFINE x == i + d
            y == j + d
<1>1. x \in 1 .. Len(bus) /\ y \in 1 .. Len(bus) /\ bus'[i] = bus[x] /\ bus'[j] = bus[y]
  OBVIOUS
<1>2. i \in Int /\ j \in Int /\ d \in Int
  BY SMT
<1>. HIDE DEF x, y
<1>3. bus[x].seq = 0 /\ bus[y].seq = 0 /\ bus[y].id = bus[x].id
  BY <1>1
<1>4. y = x
  BY <1>1, <1>3, Zenon DEF OnceEach
<1>. QED BY <1>2, <1>4, SMT DEF x, y

(* No context is opened and none is closed.                                *)
LEMMA SameContextsWhole ==
  ASSUME TypeInv, Faithful, OnceEach, UNCHANGED <<sent, handed>>,
         bus' = bus \/ (bus # <<>> /\ bus' = Tail(bus)),
         \A c \in ReceiveContext : rx'[c].used =>
           /\ rx[c].used /\ rx'[c].id = rx[c].id /\ rx'[c].stream = rx[c].stream
           /\ rx'[c].length = rx[c].length /\ rx'[c].crc = rx[c].crc
  PROVE  Faithful' /\ OnceEach'
<1>1. PICK d \in {0, 1} :
        \A i \in 1 .. Len(bus') : i + d \in 1 .. Len(bus) /\ bus'[i] = bus[i + d]
  BY Shifted
<1>2. \A i \in 1 .. Len(bus') : ProperFrame(bus'[i], sent[bus'[i].id])
  BY <1>1 DEF Faithful
<1>3. ASSUME NEW i \in 1 .. Len(bus'), bus'[i].seq = 0
      PROVE  /\ \A j \in 1 .. Len(bus') : bus'[j].seq = 0 /\ bus'[j].id = bus'[i].id => j = i
             /\ \A c \in ReceiveContext : rx'[c].used => rx'[c].id # bus'[i].id
             /\ \A k \in 1 .. Len(handed) : handed[k].id # bus'[i].id
  <2>1. ASSUME NEW j \in 1 .. Len(bus'), bus'[j].seq = 0, bus'[j].id = bus'[i].id
        PROVE  j = i
    BY <1>1, <1>3, <2>1, HeadersApart
  <2>. QED BY <1>1, <1>3, <2>1 DEF OnceEach
<1>4. ASSUME NEW c \in ReceiveContext, rx'[c].used
      PROVE  ProperContext(rx'[c], sent[rx'[c].id])
  BY <1>4 DEF Faithful, ProperContext
<1>5. ASSUME NEW c \in ReceiveContext, rx'[c].used
      PROVE  /\ \A k \in ReceiveContext : rx'[k].used /\ rx'[k].id = rx'[c].id => k = c
             /\ \A k \in 1 .. Len(handed) : handed[k].id # rx'[c].id
  BY <1>5 DEF OnceEach
<1>6. Faithful'
  BY <1>2, <1>4 DEF Faithful
<1>7. OnceEach'
  BY <1>3, <1>5 DEF OnceEach
<1>. QED BY <1>6, <1>7

LEMMA HandOverWhole ==
  ASSUME TypeInv, Faithful, OnceEach, UNCHANGED sent,
         bus' = bus \/ (bus # <<>> /\ bus' = Tail(bus)),
         NEW c \in ReceiveContext, rx[c].used, NEW data \in Seq(Byte), NEW status \in Status,
         HandOver(c, data, status),
         CrcByReceiver /\ status = COMPLETE => CrcMatches(c, data)
  PROVE  Faithful' /\ OnceEach'
<1>. DEFINE call == Call(c, data, status)
            n == Len(handed)
            m == sent[rx[c].id]
<1>1. /\ handed' = Append(handed, call) /\ rx' = [rx EXCEPT ![c] = FreeReceive]
      /\ call.id = rx[c].id /\ call.stream = rx[c].stream /\ call.data = data /\ call.status = status
  BY DEF HandOver, Call
<1>2. rx \in [ReceiveContext -> Context] /\ handed \in Seq(Report)
  BY DEF TypeInv
<1>3. /\ ~rx'[c].used
      /\ \A d \in ReceiveContext : rx'[d].used => d # c /\ rx[d].used /\ rx'[d] = rx[d]
  BY <1>1, <1>2 DEF FreeReceive
<1>10. call \in Report
  BY <1>2 DEF Call, Report, Context
<1>. HIDE DEF call
<1>4. /\ n \in Nat /\ Len(handed') = n + 1 /\ handed'[n + 1] = call
      /\ \A k \in 1 .. n : handed'[k] = handed[k]
  BY <1>1, <1>2, <1>10, AppendProperties, LenProperties
<1>5. \A k \in 1 .. Len(handed') : k = n + 1 \/ k \in 1 .. n
  BY <1>4, SMT
<1>6. ASSUME CrcBySender, CrcByReceiver PROVE ProperCall(call, m)
  <2>1. CASE status = COMPLETE /\ m.len > 0
    <3>1. rx[c].stream = m.stream /\ rx[c].crc = [i \in 1 .. m.len |-> <<rx[c].id, i>>]
      BY <1>6 DEF Faithful, ProperContext, CrcOf
    <3>2. rx[c].crc # <<>>
      <4>1. m \in Message
        BY LenProperties, ElementOfSeq DEF TypeInv
      <4>4. m.len \in Nat /\ m.len > 0
        BY <2>1, <4>1, Constants DEF Message
      <4>2. 1 \in 1 .. m.len
        BY <4>4, SMT
      <4>3. 1 \in DOMAIN rx[c].crc
        BY <3>1, <4>2, Zenon
      <4>. QED BY <4>3
    <3>3. rx[c].crc = data
      BY <1>6, <2>1, <3>2 DEF CrcMatches
    <3>. QED BY <1>1, <3>1, <3>3 DEF ProperCall
  <2>2. CASE ~(status = COMPLETE /\ m.len > 0)
    BY <1>1, <2>2 DEF ProperCall
  <2>. QED BY <2>1, <2>2
<1>7. PICK e \in {0, 1} :
        \A i \in 1 .. Len(bus') : i + e \in 1 .. Len(bus) /\ bus'[i] = bus[i + e]
  BY Shifted
<1>8. Faithful'
  <2>1. \A i \in 1 .. Len(bus') : ProperFrame(bus'[i], sent[bus'[i].id])
    BY <1>7 DEF Faithful
  <2>2. \A d \in ReceiveContext : rx'[d].used => ProperContext(rx'[d], sent[rx'[d].id])
    BY <1>3 DEF Faithful
  <2>3. ASSUME CrcBySender /\ CrcByReceiver, NEW k \in 1 .. Len(handed')
        PROVE  ProperCall(handed'[k], sent[handed'[k].id])
    BY <1>1, <1>4, <1>5, <1>6, <2>3 DEF Faithful
  <2>. QED BY <2>1, <2>2, <2>3 DEF Faithful
<1>9. OnceEach'
  <2>1. ASSUME NEW i \in 1 .. Len(bus'), bus'[i].seq = 0
        PROVE  /\ \A j \in 1 .. Len(bus') : bus'[j].seq = 0 /\ bus'[j].id = bus'[i].id => j = i
               /\ \A d \in ReceiveContext : rx'[d].used => rx'[d].id # bus'[i].id
               /\ \A k \in 1 .. Len(handed') : handed'[k].id # bus'[i].id
    <3>1. ASSUME NEW j \in 1 .. Len(bus'), bus'[j].seq = 0, bus'[j].id = bus'[i].id
          PROVE  j = i
      BY <1>7, <2>1, <3>1, HeadersApart
    <3>2. \A d \in ReceiveContext : rx'[d].used => rx'[d].id # bus'[i].id
      BY <1>3, <1>7, <2>1 DEF OnceEach
    <3>3. ASSUME NEW k \in 1 .. Len(handed') PROVE handed'[k].id # bus'[i].id
      <4>2. i + e \in 1 .. Len(bus) /\ bus'[i] = bus[i + e] /\ bus[i + e].seq = 0
        BY <1>7, <2>1
      <4>1. rx[c].id # bus'[i].id /\ \A j \in 1 .. n : handed[j].id # bus'[i].id
        BY <4>2 DEF OnceEach
      <4>. QED BY <1>1, <1>4, <1>5, <4>1
    <3>. QED BY <3>1, <3>2, <3>3
  <2>2. ASSUME NEW d \in ReceiveContext, rx'[d].used
        PROVE  /\ \A b \in ReceiveContext : rx'[b].used /\ rx'[b].id = rx'[d].id => b = d
               /\ \A k \in 1 .. Len(handed') : handed'[k].id # rx'[d].id
    <3>1. \A b \in ReceiveContext : rx'[b].used /\ rx'[b].id = rx'[d].id => b = d
      BY <1>3, <2>2 DEF OnceEach
    <3>2. ASSUME NEW k \in 1 .. Len(handed') PROVE handed'[k].id # rx'[d].id
      <4>1. rx[c].id # rx'[d].id /\ \A j \in 1 .. n : handed[j].id # rx'[d].id
        BY <1>3, <2>2 DEF OnceEach
      <4>. QED BY <1>1, <1>4, <1>5, <4>1
    <3>. QED BY <3>1, <3>2
  <2>3. ASSUME NEW j \in 1 .. Len(handed'), NEW k \in 1 .. Len(handed'), handed'[j].id = handed'[k].id
        PROVE  j = k
    <3>1. \A i \in 1 .. n : handed[i].id # rx[c].id
      BY DEF OnceEach
    <3>2. CASE j \in 1 .. n /\ k \in 1 .. n
      BY <1>4, <2>3, <3>2 DEF OnceEach
    <3>. QED BY <1>1, <1>4, <1>5, <2>3, <3>1, <3>2
  <2>. QED BY <2>1, <2>2, <2>3 DEF OnceEach
<1>. QED BY <1>8, <1>9

(* A header that is read opens one context at most, for its own message.   *)
LEMMA OpenWhole ==
  ASSUME TypeInv, Faithful, OnceEach, UNCHANGED sent, bus # <<>>, bus' = Tail(bus),
         Opened(Head(bus))
  PROVE  Faithful' /\ OnceEach'
<1>. DEFINE f == Head(bus)
<1>1. f = bus[1] /\ f.seq = 0 /\ 1 \in 1 .. Len(bus) /\ f \in Frame
  BY HeadFrame DEF Opened
<1>2. f.data = <<>> /\ ProperFrame(f, sent[f.id])
  BY <1>1 DEF Faithful, ProperFrame
<1>3. Open(f, f.len, f.crc)
  BY <1>2 DEF Opened
<1>. HIDE DEF f
<1>4. CASE FreeContexts = {} /\ UNCHANGED <<rx, handed>>
  BY <1>4, SameContextsWhole
<1>5. CASE FreeContexts # {} /\ UNCHANGED <<handed, refused>>
  <2>. DEFINE c == Min(FreeContexts)
              r == [used |-> TRUE, id |-> f.id, stream |-> f.stream, length |-> f.len,
                    crc |-> f.crc, expected |-> 1, held |-> <<>>]
  <2>1. c \in ReceiveContext
    <3>1. FreeContexts \in SUBSET Nat
      BY Constants, SMT DEF FreeContexts, ReceiveContext
    <3>. QED BY <1>5, <3>1, FirstOf DEF FreeContexts
  <2>2. rx' = [rx EXCEPT ![c] = r]
    BY <1>3, <1>5 DEF Open
  <2>3. r.used /\ r.id = f.id /\ ProperContext(r, sent[f.id])
    BY <1>1, <1>2 DEF ProperFrame, ProperContext
  <2>. HIDE DEF c, r
  <2>4. /\ rx'[c] = r
        /\ \A d \in ReceiveContext : d # c => rx'[d] = rx[d]
    BY <2>1, <2>2 DEF TypeInv
  <2>5. PICK e \in {0, 1} :
          /\ bus # <<>> /\ bus' = Tail(bus) => e = 1
          /\ \A i \in 1 .. Len(bus') : i + e \in 1 .. Len(bus) /\ bus'[i] = bus[i + e]
    BY Shifted
  <2>6. Faithful'
    <3>1. \A i \in 1 .. Len(bus') : ProperFrame(bus'[i], sent[bus'[i].id])
      BY <2>5 DEF Faithful
    <3>2. ASSUME NEW d \in ReceiveContext, rx'[d].used
          PROVE  ProperContext(rx'[d], sent[rx'[d].id])
      BY <2>3, <2>4, <3>2 DEF Faithful
    <3>. QED BY <1>5, <3>1, <3>2 DEF Faithful
  <2>7. /\ \A d \in ReceiveContext : rx[d].used => rx[d].id # f.id
        /\ \A k \in 1 .. Len(handed) : handed[k].id # f.id
    BY <1>1 DEF OnceEach
  <2>8. ASSUME NEW i \in 1 .. Len(bus'), bus'[i].seq = 0
        PROVE  /\ \A j \in 1 .. Len(bus') : bus'[j].seq = 0 /\ bus'[j].id = bus'[i].id => j = i
               /\ \A d \in ReceiveContext : rx'[d].used => rx'[d].id # bus'[i].id
               /\ \A k \in 1 .. Len(handed) : handed[k].id # bus'[i].id
    <3>1. ASSUME NEW j \in 1 .. Len(bus'), bus'[j].seq = 0, bus'[j].id = bus'[i].id
          PROVE  j = i
      BY <2>5, <2>8, <3>1, HeadersApart
    <3>2. f.id # bus'[i].id
      <4>. DEFINE x == i + e
      <4>1. x \in 1 .. Len(bus) /\ x # 1 /\ bus'[i] = bus[x]
        BY <2>5, SMT
      <4>. HIDE DEF x
      <4>2. bus[x].id = f.id => x = 1
        BY <1>1, <2>8, <4>1, Zenon DEF OnceEach
      <4>. QED BY <4>1, <4>2
    <3>3. /\ \A d \in ReceiveContext : rx[d].used => rx[d].id # bus'[i].id
          /\ \A k \in 1 .. Len(handed) : handed[k].id # bus'[i].id
      BY <2>5, <2>8 DEF OnceEach
    <3>4. ASSUME NEW d \in ReceiveContext, rx'[d].used PROVE rx'[d].id # bus'[i].id
      BY <2>3, <2>4, <3>2, <3>3, <3>4
    <3>. QED BY <3>1, <3>3, <3>4
  <2>9. ASSUME NEW d \in ReceiveContext, rx'[d].used
        PROVE  /\ \A b \in ReceiveContext : rx'[b].used /\ rx'[b].id = rx'[d].id => b = d
               /\ \A k \in 1 .. Len(handed) : handed[k].id # rx'[d].id
    <3>1. CASE d = c
      BY <2>3, <2>4, <2>7, <3>1
    <3>2. CASE d # c
      BY <2>3, <2>4, <2>7, <2>9, <3>2 DEF OnceEach
    <3>. QED BY <3>1, <3>2
  <2>10. OnceEach'
    BY <1>5, <2>8, <2>9 DEF OnceEach
  <2>. QED BY <2>6, <2>10
<1>. QED BY <1>3, <1>4, <1>5 DEF Open

LEMMA UsedWhole ==
  ASSUME TypeInv, Faithful, OnceEach, UNCHANGED <<sending, faults>>, bus # <<>>, bus' = Tail(bus),
         Used(Head(bus))
  PROVE  Faithful' /\ OnceEach'
<1>. DEFINE f == Head(bus)
<1>1. f \in Frame /\ (f.seq # 0 => Len(f.data) = FragBytes)
  BY HeadFrame
<1>. HIDE DEF f
<1>2. PICK c \in ReceiveContext :
        /\ f.seq # 0 /\ c \in ContextsOf(f)
        /\ ReceiveUnexpected(f, c) \/ ReceiveExpected(f, c)
  BY DEF Used, f
<1>3. rx[c].used /\ f.data \in Seq(Byte) /\ Len(f.data) = FragBytes
  BY <1>1, <1>2 DEF ContextsOf, Receiving, Frame
<1>4. CASE ReceiveUnexpected(f, c)
  <2>1. HandOver(c, rx[c].held, SEQUENCE_ERROR) /\ SEQUENCE_ERROR \in Status
    BY <1>4 DEF ReceiveUnexpected, Status
  <2>2. rx[c].held \in Seq(Byte) /\ SEQUENCE_ERROR # COMPLETE
    BY DEF TypeInv, Context, SEQUENCE_ERROR, COMPLETE
  <2>. QED BY <1>3, <2>1, <2>2, HandOverWhole DEF sending
<1>5. CASE ReceiveExpected(f, c)
  <2>. DEFINE held == Taken(c, f.data)
  <2>1. held \in Seq(Byte)
    BY <1>3, TakenBytes
  <2>2. \/ HandOver(c, held, IF CrcMatches(c, held) THEN COMPLETE ELSE CRC_ERROR)
        \/ HandOver(c, held, TRUNCATED)
        \/ /\ Len(held) < BufferLen
           /\ rx' = [rx EXCEPT ![c].held = held, ![c].expected = @ + 1]
           /\ UNCHANGED <<handed, refused>>
    BY <1>5 DEF ReceiveExpected
  <2>. HIDE DEF held
  <2>3. CASE HandOver(c, held, IF CrcMatches(c, held) THEN COMPLETE ELSE CRC_ERROR)
    <3>1. CASE CrcMatches(c, held)
      <4>1. HandOver(c, held, COMPLETE) /\ COMPLETE \in Status
        BY <2>3, <3>1 DEF Status
      <4>. QED BY <1>3, <2>1, <3>1, <4>1, HandOverWhole DEF sending
    <3>2. CASE ~CrcMatches(c, held)
      <4>1. HandOver(c, held, CRC_ERROR) /\ CRC_ERROR \in Status /\ CRC_ERROR # COMPLETE
        BY <2>3, <3>2 DEF Status, CRC_ERROR, COMPLETE
      <4>. QED BY <1>3, <2>1, <4>1, HandOverWhole DEF sending
    <3>. QED BY <3>1, <3>2
  <2>4. CASE HandOver(c, held, TRUNCATED)
    <3>1. TRUNCATED \in Status /\ TRUNCATED # COMPLETE
      BY DEF Status, TRUNCATED, COMPLETE
    <3>. QED BY <1>3, <2>1, <2>4, <3>1, HandOverWhole DEF sending
  <2>5. CASE /\ Len(held) < BufferLen
             /\ rx' = [rx EXCEPT ![c].held = held, ![c].expected = @ + 1]
             /\ UNCHANGED <<handed, refused>>
    <3>1. /\ \A d \in ReceiveContext : d # c => rx'[d] = rx[d]
          /\ rx'[c] = [rx[c] EXCEPT !.held = held, !.expected = @ + 1]
      BY <1>3, <2>1, <2>5, KeptTypes
    <3>2. rx[c] \in Context
      BY DEF TypeInv
    <3>3. /\ rx'[c].used = rx[c].used /\ rx'[c].id = rx[c].id /\ rx'[c].stream = rx[c].stream
          /\ rx'[c].length = rx[c].length /\ rx'[c].crc = rx[c].crc
      BY <3>1, <3>2 DEF Context
    <3>. QED BY <2>5, <3>1, <3>3, SameContextsWhole DEF sending
  <2>. QED BY <2>2, <2>3, <2>4, <2>5
<1>. QED BY <1>2, <1>4, <1>5

LEMMA NotYetWrapped ==
  ASSUME TypeInv, [Next]_vars, ~NumbersWrap'
  PROVE  ~NumbersWrap
<1>1. SUFFICES ASSUME NumbersWrap PROVE FALSE
  OBVIOUS
<1>2. ASSUME NEW s \in Sender, NEW stream \in Stream, NEW len \in Lens,
             NEW zero \in FirstZero, SendLongMessage(s, stream, len, zero)
      PROVE  FALSE
  <2>. DEFINE m == Submitted(stream, len, zero)
  <2>1. m \in Message /\ sent \in Seq(Message)
    BY SubmittedType DEF TypeInv
  <2>2. sent' = sent \/ sent' = Append(sent, m)
    BY <1>2, SendStep
  <2>3. CASE sent' = sent
    BY <1>1, <2>3 DEF NumbersWrap, Frames
  <2>. HIDE DEF m
  <2>4. CASE sent' = Append(sent, m)
    BY <1>1, <2>1, <2>4, StaysWrapped
  <2>. QED BY <2>2, <2>3, <2>4
<1>3. CASE sent' = sent
  BY <1>1, <1>3 DEF NumbersWrap, Frames
<1>. QED BY <1>2, <1>3 DEF Next, SendFragment, Skip, Restart, Receive, TimeOut, sending, vars

LEMMA StepWhole == TypeInv /\ TypeInv' /\ WholeInv /\ [Next]_vars => WholeInv'
<1>. SUFFICES ASSUME TypeInv, TypeInv', WholeInv, [Next]_vars, ~NumbersWrap'
              PROVE  Faithful' /\ OnceEach'
  BY DEF WholeInv
<1>1. ~NumbersWrap
  BY NotYetWrapped
<1>2. Faithful /\ OnceEach
  BY <1>1 DEF WholeInv
<1>3. ASSUME NEW s \in Sender, NEW stream \in Stream, NEW len \in Lens,
             NEW zero \in FirstZero, SendLongMessage(s, stream, len, zero)
      PROVE  Faithful' /\ OnceEach'
  BY <1>2, <1>3, SendWhole
<1>4. ASSUME NEW s \in Sender, SendFragment(s) PROVE Faithful' /\ OnceEach'
  BY <1>1, <1>2, <1>4, FragmentWhole
<1>5. CASE UNCHANGED <<sent, bus, rx, handed>>
  BY <1>2, <1>5 DEF Faithful, OnceEach
<1>6. CASE Receive
  <2>1. /\ bus # <<>> /\ bus' = Tail(bus) /\ UNCHANGED <<sending, faults>>
        /\ Ignored(Head(bus)) \/ Opened(Head(bus)) \/ Used(Head(bus))
    BY <1>6, ReceiveCases
  <2>2. CASE Ignored(Head(bus))
    BY <1>2, <2>1, <2>2, SameContextsWhole DEF Ignored, receiving, sending
  <2>3. CASE Opened(Head(bus))
    BY <1>2, <2>1, <2>3, OpenWhole DEF sending
  <2>4. CASE Used(Head(bus))
    BY <1>2, <2>1, <2>4, UsedWhole
  <2>. QED BY <2>1, <2>2, <2>3, <2>4
<1>7. ASSUME NEW c \in ReceiveContext, TimeOut(c) PROVE Faithful' /\ OnceEach'
  <2>1. /\ rx[c].used /\ HandOver(c, rx[c].held, TIMEOUT_ERROR) /\ TIMEOUT_ERROR \in Status
        /\ TIMEOUT_ERROR # COMPLETE /\ UNCHANGED <<sent, bus>>
    BY <1>7 DEF TimeOut, TimedOut, Receiving, Status, sending, COMPLETE, TIMEOUT_ERROR
  <2>2. rx[c].held \in Seq(Byte)
    BY DEF TypeInv, Context
  <2>. QED BY <1>2, <2>1, <2>2, HandOverWhole
<1>. QED BY <1>3, <1>4, <1>5, <1>6, <1>7 DEF Next, Skip, Restart, receiving, vars

LEMMA InitWhole == Init => WholeInv
<1>. SUFFICES ASSUME Init PROVE Faithful /\ OnceEach
  BY DEF WholeInv
<1>1. /\ Len(bus) = 0 /\ Len(handed) = 0 /\ \A i \in 1 .. 0 : FALSE
      /\ \A c \in ReceiveContext : ~rx[c].used
  BY SMT DEF Init, FreeReceive
<1>2. Faithful
  BY <1>1 DEF Faithful
<1>3. OnceEach
  BY <1>1 DEF OnceEach
<1>. QED BY <1>2, <1>3

(* A message can be told from any other by its bytes.                      *)
LEMMA BytesTell ==
  ASSUME NEW i \in Nat, NEW j \in Nat, NEW m \in Nat, NEW n \in Nat, m > 0,
         [x \in 1 .. m |-> <<i, x>>] = [x \in 1 .. n |-> <<j, x>>]
  PROVE  i = j
<1>1. 1 \in 1 .. m
  BY SMT
<1>. DEFINE a == [x \in 1 .. m |-> <<i, x>>]
            b == [x \in 1 .. n |-> <<j, x>>]
<1>2. a[1] = <<i, 1>> /\ 1 \in DOMAIN b
  BY <1>1
<1>3. b[1] = <<j, 1>>
  BY <1>2
<1>. QED BY <1>2, <1>3

LEMMA WholeSuffices ==
  TypeInv /\ WholeInv /\ CrcBySender /\ CrcByReceiver => CompleteIsWhole
<1>. SUFFICES ASSUME TypeInv, Faithful, OnceEach, CrcBySender, CrcByReceiver
              PROVE  /\ \A k \in Vouched : \E id \in DOMAIN sent :
                          handed[k].data = Whole(id) /\ handed[k].stream = sent[id].stream
                     /\ \A j, k \in Vouched : handed[j].data = handed[k].data => j = k
  BY DEF CompleteIsWhole, WholeInv
<1>1. ASSUME NEW k \in Vouched
      PROVE  /\ k \in 1 .. Len(handed) /\ handed[k].id \in DOMAIN sent /\ handed[k].id \in Nat
             /\ sent[handed[k].id].len \in Nat /\ sent[handed[k].id].len > 0
             /\ handed[k].data = Whole(handed[k].id)
             /\ handed[k].stream = sent[handed[k].id].stream
  <2>1. /\ k \in 1 .. Len(handed) /\ handed[k].status = COMPLETE /\ handed[k] \in Report
        /\ sent[handed[k].id].len > 0 /\ handed[k].id \in DOMAIN sent
    BY LenProperties, ElementOfSeq DEF Vouched, CompleteCalls, TypeInv
  <2>2. sent[handed[k].id] \in Message
    BY <2>1, LenProperties, ElementOfSeq DEF TypeInv
  <2>3. ProperCall(handed[k], sent[handed[k].id])
    BY <2>1 DEF Faithful
  <2>. QED BY <2>1, <2>2, <2>3, Constants DEF ProperCall, Whole, Report, Message
<1>2. ASSUME NEW j \in Vouched, NEW k \in Vouched, handed[j].data = handed[k].data
      PROVE  j = k
  <2>1. Whole(handed[j].id) = Whole(handed[k].id)
    BY <1>1, <1>2, Zenon
  <2>2. handed[j].id = handed[k].id
    <3>. DEFINE a == handed[j].id
                b == handed[k].id
                m == sent[a].len
                n == sent[b].len
    <3>1. a \in Nat /\ b \in Nat /\ m \in Nat /\ n \in Nat /\ m > 0
      BY <1>1
    <3>2. [x \in 1 .. m |-> <<a, x>>] = [x \in 1 .. n |-> <<b, x>>]
      BY <2>1, Zenon DEF Whole
    <3>. HIDE DEF a, b, m, n
    <3>3. a = b
      BY <3>1, <3>2, BytesTell
    <3>. QED BY <3>3 DEF a, b
  <2>. QED BY <1>1, <2>2 DEF OnceEach
<1>. QED BY <1>1, <1>2

(* Among nodes that use the CRC, what is reported complete is the whole of *)
(* one message, as it was sent and on its stream, and nothing is reported  *)
(* complete twice: whatever frames are lost, whenever senders restart, and *)
(* even when several nodes send on one stream at a time.                   *)
THEOREM CompleteIsWholeAlways ==
  ASSUME CrcBySender, CrcByReceiver
  PROVE  Spec => []CompleteIsWhole
<1>1. Init => TypeInv /\ WholeInv
  BY InitTypes, InitWhole
<1>2. TypeInv /\ WholeInv /\ [Next]_vars => (TypeInv /\ WholeInv)'
  BY StepTypes, StepWhole
<1>3. TypeInv /\ WholeInv => CompleteIsWhole
  BY WholeSuffices
<1>. QED BY <1>1, <1>2, <1>3, PTL DEF Spec
-----------------------------------------------------------------------------
(* A frame f is sent that comes next on its stream.                        *)
LEMMA AppendInOrder ==
  ASSUME TypeInv, FirstIsExpected, OneAfterTheOther, UNCHANGED rx,
         \A id \in DOMAIN sent : sent'[id] = sent[id],
         NEW f \in Frame, SentNext(f.stream, f.id, f.seq),
         Len(bus) \in Nat, Len(bus') = Len(bus) + 1,
         \A i \in 1 .. Len(bus) : i \in 1 .. Len(bus') /\ bus'[i] = bus[i],
         Len(bus) + 1 \in 1 .. Len(bus'), bus'[Len(bus) + 1] = f,
         \A i \in 1 .. Len(bus') : i = Len(bus) + 1 \/ i \in 1 .. Len(bus)
  PROVE  /\ FirstIsExpected' /\ OneAfterTheOther'
         /\ \A stream, id, seq : stream # f.stream /\ SentNext(stream, id, seq)
              => SentNext(stream, id, seq)'
         /\ \A id, seq : Follows(f, id, seq, sent') => SentNext(f.stream, id, seq)'
<1>. DEFINE n == Len(bus) + 1
<1>1. n \in 1 .. Len(bus') /\ \A i \in 1 .. Len(bus) : i < n /\ ~ (n < i) /\ i # n
  BY SMT
<1>. HIDE DEF n
<1>2. \A i \in 1 .. Len(bus') : i = n \/ i \in 1 .. Len(bus)
  BY DEF n
<1>3. bus'[n] = f
  BY DEF n
<1>4. \A i \in 1 .. Len(bus) : \A id, seq :
        Follows(bus[i], id, seq, sent) => Follows(bus[i], id, seq, sent')
  BY DEF Follows, Ends, TypeInv
<1>5. FirstIsExpected'
  <2>1. SUFFICES ASSUME NEW i \in 1 .. Len(bus'),
                        \A k \in 1 .. Len(bus') : k < i => bus'[k].stream # bus'[i].stream
                 PROVE  Ready(bus'[i].stream, bus'[i].id, bus'[i].seq)
    BY DEF FirstIsExpected, Ready
  <2>2. CASE i = n
    <3>1. \A k \in 1 .. Len(bus) : bus[k].stream # f.stream
      BY <1>1, <1>3, <2>1, <2>2
    <3>. QED BY <1>3, <2>2, <3>1 DEF SentNext
  <2>3. CASE i \in 1 .. Len(bus)
    <3>1. \A k \in 1 .. Len(bus) : k < i => bus[k].stream # bus[i].stream
      BY <2>1, <2>3
    <3>. QED BY <2>3, <3>1 DEF FirstIsExpected
  <2>. QED BY <1>2, <2>2, <2>3
<1>6. OneAfterTheOther'
  <2>1. SUFFICES ASSUME NEW i \in 1 .. Len(bus'), NEW j \in 1 .. Len(bus'), i < j,
                        bus'[i].stream = bus'[j].stream,
                        \A k \in 1 .. Len(bus') : i < k /\ k < j => bus'[k].stream # bus'[i].stream
                 PROVE  Follows(bus'[i], bus'[j].id, bus'[j].seq, sent')
    BY DEF OneAfterTheOther
  <2>2. i \in 1 .. Len(bus) /\ bus'[i] = bus[i]
    <3>1. i # n
      BY <1>1, <1>2, <2>1, SMT
    <3>. QED BY <1>2, <3>1
  <2>3. CASE j = n
    <3>1. LastOn(f.stream, i)
      BY <1>1, <1>3, <2>1, <2>2, <2>3 DEF LastOn
    <3>. QED BY <1>3, <1>4, <2>2, <2>3, <3>1 DEF SentNext
  <2>4. CASE j \in 1 .. Len(bus)
    <3>1. \A k \in 1 .. Len(bus) : i < k /\ k < j => bus[k].stream # bus[i].stream
      BY <2>1, <2>2
    <3>2. bus[i].stream = bus[j].stream /\ bus'[j] = bus[j]
      BY <2>1, <2>2, <2>4
    <3>3. Follows(bus[i], bus[j].id, bus[j].seq, sent)
      BY <2>1, <2>2, <2>4, <3>1, <3>2 DEF OneAfterTheOther
    <3>. QED BY <1>4, <2>2, <3>2, <3>3
  <2>. QED BY <1>2, <2>3, <2>4
<1>7. ASSUME NEW stream, NEW id, NEW seq, stream # f.stream, SentNext(stream, id, seq)
      PROVE  SentNext(stream, id, seq)'
  <2>1. ASSUME NEW i \in 1 .. Len(bus'), LastOn(stream, i)'
        PROVE  Follows(bus'[i], id, seq, sent')
    <3>1. bus'[i].stream = stream /\ \A k \in 1 .. Len(bus') : k > i => bus'[k].stream # stream
      BY <2>1 DEF LastOn
    <3>2. i \in 1 .. Len(bus) /\ bus'[i] = bus[i]
      BY <1>2, <1>3, <1>7, <3>1
    <3>3. LastOn(stream, i)
      BY <3>1, <3>2 DEF LastOn
    <3>4. Follows(bus[i], id, seq, sent)
      BY <1>7, <3>2, <3>3 DEF SentNext
    <3>. QED BY <1>4, <3>2, <3>4
  <2>2. ASSUME \A i \in 1 .. Len(bus') : bus'[i].stream # stream
        PROVE  Ready(stream, id, seq)'
    <3>1. \A i \in 1 .. Len(bus) : bus[i].stream # stream
      BY <2>2
    <3>2. Ready(stream, id, seq)
      BY <1>7, <3>1 DEF SentNext
    <3>. QED BY <3>2 DEF Ready
  <2>. QED BY <2>1, <2>2 DEF SentNext
<1>8. ASSUME NEW id, NEW seq, Follows(f, id, seq, sent')
      PROVE  SentNext(f.stream, id, seq)'
  <2>1. ASSUME NEW i \in 1 .. Len(bus'), LastOn(f.stream, i)'
        PROVE  Follows(bus'[i], id, seq, sent')
    <3>1. \A k \in 1 .. Len(bus') : k > i => bus'[k].stream # f.stream
      BY <2>1 DEF LastOn
    <3>2. i = n
      <4>1. ~ (n > i)
        BY <1>1, <1>3, <3>1
      <4>. QED BY <1>1, <1>2, <4>1
    <3>. QED BY <1>3, <1>8, <3>2
  <2>2. bus'[n].stream = f.stream
    BY <1>3
  <2>. QED BY <1>1, <2>1, <2>2 DEF SentNext
<1>. QED BY <1>5, <1>6, <1>7, <1>8
LEMMA SendInOrder ==
  ASSUME TypeInv, InOrder, SendersApart, ~SharedStreams, faults = 0, faults' = 0,
         NEW s \in Sender, NEW stream \in Stream, NEW len \in Lens,
         NEW zero \in FirstZero, SendLongMessage(s, stream, len, zero)
  PROVE  /\ InOrder' /\ \A id \in DOMAIN sent : sent'[id] = sent[id]
         /\ SendersApart'
<1>1. UNCHANGED rx
  BY SendStep
<1>2. CASE UNCHANGED <<sent, tx, bus, faults>>
  BY <1>1, <1>2 DEF SendersApart, InOrder, FirstIsExpected, OneAfterTheOther, SendersContinue,
                    IdleStreamsEnded, SentNext, LastOn, Ready, Active, StreamOf
<1>3. CASE /\ sent' = Append(sent, Submitted(stream, len, zero))
           /\ \E c \in SendContext :
                /\ tx[s][c].id = 0
                /\ tx' = [tx EXCEPT ![s][c] = [id |-> Len(sent) + 1, index |-> 0, seq |-> 1]]
           /\ Transmit(Header(Len(sent) + 1, stream, len))
  <2>. DEFINE id == Len(sent) + 1
              o == [id |-> id, index |-> 0, seq |-> 1]
              h == Header(id, stream, len)
              m == Submitted(stream, len, zero)
  <2>1. m \in Message
    BY SubmittedType
  <2>2. /\ Len(sent) \in Nat /\ DOMAIN sent = 1 .. Len(sent)
        /\ \A k \in DOMAIN sent : sent'[k] = sent[k]
        /\ sent'[id] = m
    BY <1>3, <2>1, SentGrows DEF TypeInv
  <2>3. id \in Nat /\ id # 0 /\ id \notin DOMAIN sent
    BY <2>2, SMT
  <2>4. PICK c \in SendContext : tx[s][c].id = 0 /\ tx' = [tx EXCEPT ![s][c] = o]
    BY <1>3
  <2>5. h \in Frame /\ h.id = id /\ h.stream = stream /\ h.seq = 0
    BY <2>3, HeaderType DEF Header
  <2>6. o.id = id /\ o.seq = 1
    OBVIOUS
  <2>7. Transmit(h)
    BY <1>3
  <2>. HIDE DEF id, o, h
  <2>8. /\ tx'[s][c] = o
        /\ \A t \in Sender, d \in SendContext : ~(t = s /\ d = c) => tx'[t][d] = tx[t][d]
    BY <2>4 DEF TypeInv
  <2>9. \A t \in Sender, d \in SendContext :
          /\ Active(t, d) => tx'[t][d] = tx[t][d] /\ tx[t][d].id \in DOMAIN sent
          /\ Active(t, d) => StreamOf(t, d) # stream /\ StreamOf(t, d)' = StreamOf(t, d)
    <3>1. ASSUME NEW t \in Sender, NEW d \in SendContext, Active(t, d)
          PROVE  /\ tx'[t][d] = tx[t][d] /\ tx[t][d].id \in DOMAIN sent
                 /\ StreamOf(t, d) # stream /\ StreamOf(t, d)' = StreamOf(t, d)
      <4>1. tx'[t][d] = tx[t][d]
        BY <2>4, <2>8, <3>1 DEF Active
      <4>2. tx[t][d].id \in DOMAIN sent
        BY <3>1 DEF TypeInv, Due, Active
      <4>3. ~Sending(t, stream)
        BY DEF SendLongMessage
      <4>4. StreamOf(t, d) # stream
        BY <3>1, <4>3 DEF Sending, InUse, Active, StreamOf
      <4>. QED BY <2>2, <4>1, <4>2, <4>4 DEF StreamOf
    <3>. QED BY <3>1
  <2>10. Active(s, c)' /\ StreamOf(s, c)' = stream
    BY <2>2, <2>3, <2>6, <2>8, SubmittedType DEF Active, StreamOf
  <2>11. \A t \in Sender, d \in SendContext : Active(t, d)' => (t = s /\ d = c) \/ Active(t, d)
    BY <2>8 DEF Active
  <2>12. SentNext(h.stream, h.id, h.seq)
    BY <2>3, <2>5, <2>9 DEF InOrder, IdleStreamsEnded
  <2>13. bus \in Seq(Frame) /\ faults \in Nat
    BY DEF TypeInv
  <2>14. /\ Len(bus) \in Nat /\ Len(bus') = Len(bus) + 1
         /\ \A i \in 1 .. Len(bus) : i \in 1 .. Len(bus') /\ bus'[i] = bus[i]
         /\ Len(bus) + 1 \in 1 .. Len(bus') /\ bus'[Len(bus) + 1] = h
         /\ \A i \in 1 .. Len(bus') : i = Len(bus) + 1 \/ i \in 1 .. Len(bus)
    BY <2>5, <2>7, <2>13, Transmitted
  <2>15. /\ FirstIsExpected' /\ OneAfterTheOther'
         /\ \A T, k, seq : T # stream /\ SentNext(T, k, seq) => SentNext(T, k, seq)'
         /\ \A k, seq : Follows(h, k, seq, sent') => SentNext(stream, k, seq)'
    <3>1. FirstIsExpected /\ OneAfterTheOther
      BY DEF InOrder
    <3>. QED BY <1>1, <2>2, <2>5, <2>12, <2>14, <3>1, AppendInOrder
  <2>16. SendersContinue'
    <3>1. SUFFICES ASSUME NEW t \in Sender, NEW d \in SendContext, Active(t, d)'
                   PROVE  SentNext(StreamOf(t, d), tx[t][d].id, tx[t][d].seq)'
      BY DEF SendersContinue
    <3>2. CASE t = s /\ d = c
      <4>1. Follows(h, id, 1, sent')
        BY <2>5 DEF Follows
      <4>. QED BY <2>6, <2>8, <2>10, <2>15, <3>2, <4>1
    <3>3. CASE Active(t, d)
      <4>1. SentNext(StreamOf(t, d), tx[t][d].id, tx[t][d].seq)
        BY <3>3 DEF InOrder, SendersContinue
      <4>. QED BY <2>9, <2>15, <3>3, <4>1
    <3>. QED BY <2>11, <3>1, <3>2, <3>3
  <2>17. IdleStreamsEnded'
    <3>1. SUFFICES ASSUME NEW T \in Stream, NEW k \in Nat,
                          \A t \in Sender, d \in SendContext : Active(t, d)' => StreamOf(t, d)' # T
                   PROVE  SentNext(T, k, 0)'
      BY DEF IdleStreamsEnded
    <3>2. T # stream
      BY <2>10, <3>1
    <3>3. \A t \in Sender, d \in SendContext : Active(t, d) => StreamOf(t, d) # T
      BY <2>9, <3>1 DEF Active
    <3>4. SentNext(T, k, 0)
      BY <3>3 DEF InOrder, IdleStreamsEnded
    <3>. QED BY <2>15, <3>2, <3>4
  <2>18. ASSUME NEW t \in Sender, NEW u \in Sender, NEW d \in SendContext, NEW e \in SendContext,
                (Active(t, d) /\ Active(u, e) /\ StreamOf(t, d) = StreamOf(u, e))'
         PROVE  t = u /\ d = e
    <3>1. CASE Active(t, d) /\ Active(u, e)
      BY <2>9, <2>18, <3>1 DEF SendersApart
    <3>. QED BY <2>9, <2>10, <2>11, <2>18, <3>1
  <2>. QED BY <2>2, <2>15, <2>16, <2>17, <2>18 DEF InOrder, SendersApart
<1>. QED BY <1>2, <1>3, SendStep, Zenon
LEMMA FragmentInOrder ==
  ASSUME TypeInv, ~NumbersWrap, InOrder, SendersApart, faults = 0, faults' = 0,
         NEW s \in Sender, SendFragment(s)
  PROVE  /\ InOrder'
         /\ SendersApart'
<1>1. PICK c \in SendContext, f \in Frame :
        /\ Active(s, c) /\ tx' = [tx EXCEPT ![s][c] = Advanced(tx[s][c])]
        /\ Transmit(f) /\ f.id = tx[s][c].id /\ f.seq = tx[s][c].seq
        /\ f.seq # 0 /\ f.id \in DOMAIN sent /\ ProperFrame(f, sent[f.id])
        /\ UNCHANGED <<sent, rx, handed, refused>>
  BY FragmentStep
<1>. DEFINE o == tx[s][c]
            stream == f.stream
<1>2. stream = StreamOf(s, c) /\ o \in Job /\ Due(o, sent)
  BY <1>1 DEF ProperFrame, StreamOf, TypeInv, Active
<1>3. /\ tx'[s][c] = Advanced(o)
      /\ \A t \in Sender, d \in SendContext : ~(t = s /\ d = c) => tx'[t][d] = tx[t][d]
  BY <1>1 DEF TypeInv
<1>4. sent' = sent
  BY <1>1
<1>5. \/ Advanced(o) = FreeSend /\ FreeSend.id = 0 /\ Ends(f, sent)
      \/ Advanced(o).id = f.id /\ Advanced(o).seq = f.seq + 1
  <2>1. CASE o.index + FragBytes >= sent[o.id].len
    <3>1. Advanced(o) = FreeSend
      BY <2>1 DEF Advanced
    <3>2. o.index + FragBytes = (o.seq + 1 - 1) * FragBytes /\ o.seq \in Nat
      BY <1>2, NextIndex DEF Job, Due
    <3>3. o.seq + 1 - 1 = o.seq
      BY <3>2, SMT
    <3>4. o.index + FragBytes = o.seq * FragBytes
      BY <3>2, <3>3, Zenon
    <3>5. f.seq * FragBytes >= sent[f.id].len
      BY <1>1, <2>1, <3>4, Zenon
    <3>. QED BY <1>1, <3>1, <3>5 DEF Ends, FreeSend
  <2>2. CASE ~(o.index + FragBytes >= sent[o.id].len)
    <3>1. Advanced(o).id = o.id /\ Advanced(o).seq = o.seq + 1
      BY <1>2, <2>2 DEF Advanced, Job
    <3>. QED BY <1>1, <3>1
  <2>. QED BY <2>1, <2>2
<1>6. stream \in Stream
  BY DEF Frame
<1>. HIDE DEF o
<1>7. \A t \in Sender, d \in SendContext : Active(t, d) /\ ~(t = s /\ d = c) =>
        Active(t, d)' /\ StreamOf(t, d)' = StreamOf(t, d) /\ StreamOf(t, d) # stream
  BY <1>1, <1>2, <1>3, <1>4 DEF Active, StreamOf, SendersApart
<1>8. \A t \in Sender, d \in SendContext : Active(t, d)' =>
        /\ Active(t, d)
        /\ t = s /\ d = c => /\ Advanced(o).id = f.id /\ Advanced(o).seq = f.seq + 1
                             /\ StreamOf(t, d)' = stream
  BY <1>1, <1>2, <1>3, <1>4, <1>5 DEF Active, StreamOf, o
<1>9. SentNext(f.stream, f.id, f.seq)
  BY <1>1, <1>2 DEF InOrder, SendersContinue
<1>10. bus \in Seq(Frame) /\ faults \in Nat
  BY DEF TypeInv
<1>11. /\ Len(bus) \in Nat /\ Len(bus') = Len(bus) + 1
       /\ \A i \in 1 .. Len(bus) : i \in 1 .. Len(bus') /\ bus'[i] = bus[i]
       /\ Len(bus) + 1 \in 1 .. Len(bus') /\ bus'[Len(bus) + 1] = f
       /\ \A i \in 1 .. Len(bus') : i = Len(bus) + 1 \/ i \in 1 .. Len(bus)
  BY <1>1, <1>10, Transmitted
<1>12. /\ FirstIsExpected' /\ OneAfterTheOther'
       /\ \A T, k, seq : T # stream /\ SentNext(T, k, seq) => SentNext(T, k, seq)'
       /\ \A k, seq : Follows(f, k, seq, sent) => SentNext(stream, k, seq)'
  <2>1. FirstIsExpected /\ OneAfterTheOther
    BY DEF InOrder
  <2>. QED BY <1>1, <1>2, <1>4, <1>9, <1>11, <2>1, AppendInOrder
<1>13. SendersContinue'
  <2>1. SUFFICES ASSUME NEW t \in Sender, NEW d \in SendContext, Active(t, d)'
                 PROVE  SentNext(StreamOf(t, d), tx[t][d].id, tx[t][d].seq)'
    BY DEF SendersContinue
  <2>2. CASE t = s /\ d = c
    <3>1. Follows(f, f.id, f.seq + 1, sent)
      BY DEF Follows
    <3>. QED BY <1>3, <1>8, <1>12, <2>1, <2>2, <3>1
  <2>3. CASE ~(t = s /\ d = c)
    <3>1. Active(t, d)
      BY <1>8, <2>1
    <3>2. SentNext(StreamOf(t, d), tx[t][d].id, tx[t][d].seq)
      BY <3>1 DEF InOrder, SendersContinue
    <3>. QED BY <1>3, <1>7, <1>12, <2>3, <3>1, <3>2
  <2>. QED BY <2>2, <2>3
<1>14. IdleStreamsEnded'
  <2>1. SUFFICES ASSUME NEW T \in Stream, NEW k \in Nat,
                        \A t \in Sender, d \in SendContext : Active(t, d)' => StreamOf(t, d)' # T
                 PROVE  SentNext(T, k, 0)'
    BY DEF IdleStreamsEnded
  <2>2. CASE T = stream
    <3>1. Ends(f, sent)
      <4>1. CASE Advanced(o).id = f.id
        <5>1. Active(s, c)' /\ StreamOf(s, c)' = stream
          BY <1>1, <1>2, <1>3, <1>4, <4>1 DEF Active, StreamOf, o
        <5>. QED BY <2>1, <2>2, <5>1
      <4>. QED BY <1>5, <4>1
    <3>2. Follows(f, k, 0, sent)
      BY <3>1 DEF Follows
    <3>. QED BY <1>12, <2>2, <3>2
  <2>3. CASE T # stream
    <3>1. \A t \in Sender, d \in SendContext : Active(t, d) => StreamOf(t, d) # T
      BY <1>2, <1>7, <2>1, <2>3
    <3>2. SentNext(T, k, 0)
      BY <3>1 DEF InOrder, IdleStreamsEnded
    <3>. QED BY <1>12, <2>3, <3>2
  <2>. QED BY <2>2, <2>3
<1>15. ASSUME NEW t \in Sender, NEW u \in Sender, NEW d \in SendContext, NEW e \in SendContext,
              (Active(t, d) /\ Active(u, e) /\ StreamOf(t, d) = StreamOf(u, e))'
       PROVE  t = u /\ d = e
  <2>1. Active(t, d) /\ Active(u, e)
    BY <1>8, <1>15
  <2>2. StreamOf(t, d)' = StreamOf(t, d) /\ StreamOf(u, e)' = StreamOf(u, e)
    BY <1>2, <1>7, <1>8, <1>15, <2>1
  <2>. QED BY <1>15, <2>1, <2>2 DEF SendersApart
<1>. QED BY <1>12, <1>13, <1>14, <1>15 DEF InOrder, SendersApart

(* What the receiver has made of a frame: the context of its stream waits  *)
(* for the next one, and there is none after the last.                     *)
After(f) ==
  /\ \A c \in ReceiveContext : rx'[c].used /\ rx'[c].stream = f.stream =>
       rx'[c].id = f.id /\ rx'[c].expected = f.seq + 1 /\ ~Ends(f, sent)
  /\ \A c \in ReceiveContext : rx'[c].used /\ rx'[c].stream # f.stream => rx'[c] = rx[c]

LEMMA TailInOrder ==
  ASSUME TypeInv, InOrder, UNCHANGED sending, bus # <<>>, bus' = Tail(bus),
         NEW f, f = Head(bus), After(f)
  PROVE  InOrder'
<1>1. /\ f = bus[1] /\ 1 \in 1 .. Len(bus) /\ f \in Frame /\ Len(bus) \in Nat
  BY HeadFrame
<1>2. /\ Len(bus') = Len(bus) - 1
      /\ \A i \in 1 .. Len(bus') : bus'[i] = bus[i + 1]
  BY HeadTailProperties DEF TypeInv
<1>3. /\ \A i \in 1 .. Len(bus') : i + 1 \in 1 .. Len(bus) /\ 1 < i + 1 /\ i \in Int
      /\ \A k \in 1 .. Len(bus) : k = 1 \/ (k - 1 \in 1 .. Len(bus') /\ k \in Int /\ (k - 1) + 1 = k)
  BY <1>1, <1>2, SMT
<1>4. \A k \in 1 .. Len(bus) : k = 1 \/ (k - 1 \in 1 .. Len(bus') /\ bus'[k - 1] = bus[k])
  BY <1>2, <1>3
<1>5. ASSUME NEW stream, NEW id, NEW seq, Ready(stream, id, seq), stream # f.stream
      PROVE  Ready(stream, id, seq)'
  BY <1>5 DEF Ready, After
<1>6. ASSUME NEW id, NEW seq, Follows(f, id, seq, sent)
      PROVE  Ready(f.stream, id, seq)'
  <2>1. SUFFICES ASSUME NEW c \in ReceiveContext, rx'[c].used, rx'[c].stream = f.stream
                 PROVE  seq # 0 /\ rx'[c].id = id /\ rx'[c].expected = seq
    BY DEF Ready
  <2>2. rx'[c].id = f.id /\ rx'[c].expected = f.seq + 1 /\ ~Ends(f, sent)
    BY <2>1 DEF After
  <2>3. id = f.id /\ seq = f.seq + 1
    BY <1>6, <2>2 DEF Follows
  <2>4. f.seq + 1 # 0
    BY <1>1, Constants, SMT DEF Frame
  <2>. QED BY <2>2, <2>3, <2>4
<1>7. ASSUME NEW stream, NEW id, NEW seq, SentNext(stream, id, seq)
      PROVE  SentNext(stream, id, seq)'
  <2>1. ASSUME NEW i \in 1 .. Len(bus'), LastOn(stream, i)'
        PROVE  Follows(bus'[i], id, seq, sent)
    <3>. DEFINE x == i + 1
    <3>1. x \in 1 .. Len(bus) /\ bus'[i] = bus[x]
      BY <1>2, <1>3
    <3>2. ASSUME NEW k \in 1 .. Len(bus), k > x PROVE bus[k].stream # stream
      <4>. DEFINE y == k - 1
      <4>1. y \in 1 .. Len(bus') /\ bus'[y] = bus[k] /\ y > i
        BY <1>3, <1>4, <3>2, SMT
      <4>. HIDE DEF y
      <4>. QED BY <2>1, <4>1 DEF LastOn
    <3>. HIDE DEF x
    <3>3. LastOn(stream, x)
      BY <2>1, <3>1, <3>2 DEF LastOn
    <3>. QED BY <1>7, <3>1, <3>3 DEF SentNext
  <2>2. ASSUME \A i \in 1 .. Len(bus') : bus'[i].stream # stream
        PROVE  Ready(stream, id, seq)'
    <3>1. \A k \in 1 .. Len(bus) : k # 1 => bus[k].stream # stream
      BY <1>4, <2>2
    <3>2. CASE stream = f.stream
      <4>1. \A k \in 1 .. Len(bus) : k > 1 => k # 1
        BY SMT
      <4>2. LastOn(stream, 1)
        BY <1>1, <3>1, <3>2, <4>1 DEF LastOn
      <4>3. Follows(f, id, seq, sent)
        BY <1>1, <1>7, <4>2 DEF SentNext
      <4>. QED BY <1>6, <3>2, <4>3
    <3>3. CASE stream # f.stream
      <4>1. Ready(stream, id, seq)
        BY <1>1, <1>7, <3>1, <3>3 DEF SentNext
      <4>. QED BY <1>5, <3>3, <4>1
    <3>. QED BY <3>2, <3>3
  <2>3. sent' = sent
    BY DEF sending
  <2>. QED BY <2>1, <2>2, <2>3 DEF SentNext
<1>8. FirstIsExpected'
  <2>1. SUFFICES ASSUME NEW i \in 1 .. Len(bus'), NEW g, g = bus'[i],
                        \A k \in 1 .. Len(bus') : k < i => bus'[k].stream # g.stream
                 PROVE  Ready(g.stream, g.id, g.seq)'
    BY DEF FirstIsExpected, Ready
  <2>. DEFINE x == i + 1
  <2>2. x \in 1 .. Len(bus) /\ g = bus[x] /\ 1 < x
    BY <1>2, <1>3, <2>1
  <2>3. ASSUME NEW k \in 1 .. Len(bus), k < x, k # 1 PROVE bus[k].stream # g.stream
    <3>. DEFINE y == k - 1
    <3>1. y \in 1 .. Len(bus') /\ bus'[y] = bus[k] /\ y < i
      BY <1>3, <1>4, <2>3, SMT
    <3>. HIDE DEF x, y
    <3>. QED BY <2>1, <2>2, <3>1
  <2>. HIDE DEF x
  <2>4. CASE g.stream = f.stream
    <3>1. \A k \in 1 .. Len(bus) : 1 < k => k # 1
      BY SMT
    <3>2. Follows(f, g.id, g.seq, sent)
      BY <1>1, <2>2, <2>3, <2>4, <3>1 DEF InOrder, OneAfterTheOther
    <3>. QED BY <1>6, <2>2, <2>4, <3>2
  <2>5. CASE g.stream # f.stream
    <3>1. \A k \in 1 .. Len(bus) : k < x => bus[k].stream # g.stream
      BY <1>1, <2>3, <2>5
    <3>2. Ready(g.stream, g.id, g.seq)
      BY <2>2, <3>1 DEF InOrder, FirstIsExpected
    <3>. QED BY <1>5, <2>2, <2>5, <3>2
  <2>. QED BY <2>4, <2>5
<1>9. OneAfterTheOther'
  <2>1. SUFFICES ASSUME NEW i \in 1 .. Len(bus'), NEW j \in 1 .. Len(bus'), i < j,
                        bus'[i].stream = bus'[j].stream,
                        \A k \in 1 .. Len(bus') : i < k /\ k < j => bus'[k].stream # bus'[i].stream
                 PROVE  Follows(bus'[i], bus'[j].id, bus'[j].seq, sent')
    BY DEF OneAfterTheOther
  <2>. DEFINE x == i + 1
              z == j + 1
  <2>2. /\ x \in 1 .. Len(bus) /\ bus'[i] = bus[x] /\ z \in 1 .. Len(bus) /\ bus'[j] = bus[z]
        /\ x < z /\ 1 < x
    BY <1>2, <1>3, <2>1, SMT
  <2>3. ASSUME NEW k \in 1 .. Len(bus), x < k, k < z PROVE bus[k].stream # bus[x].stream
    <3>. DEFINE y == k - 1
    <3>1. y \in 1 .. Len(bus') /\ bus'[y] = bus[k] /\ i < y /\ y < j
      BY <1>3, <1>4, <2>2, <2>3, SMT
    <3>. HIDE DEF x, y, z
    <3>. QED BY <2>1, <2>2, <3>1
  <2>. HIDE DEF x, z
  <2>4. Follows(bus[x], bus[z].id, bus[z].seq, sent)
    BY <2>1, <2>2, <2>3 DEF InOrder, OneAfterTheOther
  <2>. QED BY <2>2, <2>4 DEF sending
<1>10. SendersContinue' /\ IdleStreamsEnded'
  <2>1. tx' = tx /\ sent' = sent
    BY DEF sending
  <2>2. SendersContinue'
    BY <1>7, <2>1 DEF InOrder, SendersContinue, Active, StreamOf
  <2>3. IdleStreamsEnded'
    BY <1>7, <2>1 DEF InOrder, IdleStreamsEnded, Active, StreamOf
  <2>. QED BY <2>2, <2>3
<1>. QED BY <1>8, <1>9, <1>10 DEF InOrder
LEMMA EmptyBytes == ASSUME NEW id PROVE [i \in 1 .. 0 |-> <<id, i>>] = <<>>
<1>1. 1 .. 0 = {}
  BY SMT
<1>. QED BY <1>1

(* A header opens a context, or is dropped.                                *)
LEMMA OpenInOrder ==
  ASSUME TypeInv, Faithful, ContextsApart, Holding, NoErrors, UNCHANGED sending,
         NEW f \in Frame, f.id \in DOMAIN sent, ProperFrame(f, sent[f.id]),
         Ready(f.stream, f.id, f.seq), Opened(f)
  PROVE  After(f) /\ ContextsApart' /\ Holding' /\ NoErrors'
<1>1. f.seq = 0 /\ f.data = <<>> /\ f.len = sent[f.id].len /\ Open(f, f.len, f.crc)
  BY DEF Opened, ProperFrame
<1>2. \A c \in ReceiveContext : rx[c].used => rx[c].stream # f.stream
  BY <1>1 DEF Ready
<1>3. sent' = sent
  BY DEF sending
<1>4. CASE FreeContexts = {} /\ UNCHANGED <<rx, handed>>
  BY <1>2, <1>3, <1>4 DEF After, ContextsApart, Holding, NoErrors
<1>5. CASE FreeContexts # {} /\ UNCHANGED <<handed, refused>>
  <2>. DEFINE c == Min(FreeContexts)
              r == [used |-> TRUE, id |-> f.id, stream |-> f.stream, length |-> f.len,
                    crc |-> f.crc, expected |-> 1, held |-> <<>>]
  <2>1. c \in ReceiveContext
    <3>1. FreeContexts \in SUBSET Nat
      BY Constants, SMT DEF FreeContexts, ReceiveContext
    <3>. QED BY <1>5, <3>1, FirstOf DEF FreeContexts
  <2>2. rx' = [rx EXCEPT ![c] = r]
    BY <1>1, <1>5 DEF Open
  <2>3. r.used /\ r.id = f.id /\ r.stream = f.stream /\ r.expected = 1 /\ r.held = <<>>
    OBVIOUS
  <2>. HIDE DEF c, r
  <2>4. rx'[c] = r /\ \A d \in ReceiveContext : d # c => rx'[d] = rx[d]
    BY <2>1, <2>2 DEF TypeInv
  <2>5. Holds(r, sent[f.id])
    <3>1. 1 # 0 /\ 0 = (1 - 1) * FragBytes /\ Len(<<>>) = 0 /\ \A i \in 1 .. 0 : FALSE
      BY Constants, SMT
    <3>. QED BY <2>3, <3>1 DEF Holds
  <2>6. After(f)
    <3>1. 1 = f.seq + 1 /\ ~Ends(f, sent)
      BY <1>1 DEF Ends
    <3>. QED BY <1>2, <2>3, <2>4, <3>1 DEF After
  <2>7. ContextsApart'
    BY <1>2, <2>3, <2>4 DEF ContextsApart
  <2>8. Holding'
    <3>1. ASSUME NEW d \in ReceiveContext, rx'[d].used
          PROVE  Holds(rx'[d], sent[rx'[d].id])
      BY <2>3, <2>4, <2>5, <3>1 DEF Holding
    <3>. QED BY <1>3, <3>1 DEF Holding
  <2>. QED BY <1>3, <1>5, <2>6, <2>7, <2>8 DEF NoErrors
<1>. QED BY <1>1, <1>4, <1>5 DEF Open

(* What is held with a fragment that was expected is again a beginning of  *)
(* the message; and all of it, or all that there is room for, if no more   *)
(* is to be waited for: its CRC is that of the message if that was copied  *)
(* whole.                                                                  *)
LEMMA TakenIsBeginning ==
  ASSUME TypeInv, Faithful, Holding, CrcBySender => CrcByReceiver,
         NEW f \in Frame, f.id \in DOMAIN sent, ProperFrame(f, sent[f.id]),
         f.seq # 0, Len(f.data) = FragBytes,
         NEW c \in ReceiveContext, rx[c].used, rx[c].id = f.id, rx[c].expected = f.seq
  PROVE  /\ Len(Taken(c, f.data)) >= rx[c].length =>
              CrcMatches(c, Taken(c, f.data)) \/ CutShort(f.id)
         /\ Len(Taken(c, f.data)) < rx[c].length /\ Len(Taken(c, f.data)) < BufferLen =>
              /\ ~Ends(f, sent) /\ Len(Taken(c, f.data)) = f.seq * FragBytes
              /\ \A i \in 1 .. Len(Taken(c, f.data)) :
                   i <= sent[f.id].copied => Taken(c, f.data)[i] = <<f.id, i>>
<1>. DEFINE held == Taken(c, f.data)
            h == Len(rx[c].held)
            n == HowMuch(c)
            len == rx[c].length
            copied == sent[f.id].copied
<1>1. f.data \in Seq(Byte)
  BY DEF Frame
<1>2. /\ h \in Nat /\ n \in 1 .. FragBytes /\ h + n <= BufferLen
      /\ n <= len - h \/ n = 1
      /\ n = FragBytes \/ h + n = BufferLen \/ h + n >= len
      /\ held \in Seq(Byte) /\ Len(held) = h + n
      /\ \A i \in 1 .. h : held[i] = rx[c].held[i]
      /\ \A i \in 1 .. n : held[h + i] = f.data[i]
  BY <1>1, TakenBytes
<1>3. /\ len = sent[f.id].len /\ rx[c].crc = CrcOf(f.id, len)
  BY DEF Faithful, ProperContext
<1>4. len \in Nat /\ copied \in Nat
  <2>1. sent[f.id] \in Message
    BY LenProperties, ElementOfSeq DEF TypeInv
  <2>. QED BY <2>1 DEF TypeInv, Context, Message
<1>5. Holds(rx[c], sent[f.id])
  BY <1>3 DEF Holding
<1>6. h = (f.seq - 1) * FragBytes
  BY <1>5 DEF Holds
<1>7. f.data = Piece(f.id, h, copied)
  BY <1>3, <1>6, Zenon DEF ProperFrame
<1>8. h < len \/ h = 0
  <2>1. rx[c].held = <<>> => h = 0
    BY SMT
  <2>. QED BY <1>3, <1>5, <2>1 DEF Holds
<1>9. \A i \in 1 .. h : i <= copied => rx[c].held[i] = <<f.id, i>>
  BY <1>5 DEF Holds
<1>14. CutShort(f.id) <=> copied < len
  BY <1>3 DEF CutShort
<1>. HIDE DEF held, h, n, len, copied
<1>10. ASSUME NEW i \in 1 .. h + n, i <= copied PROVE held[i] = <<f.id, i>>
  <2>1. CASE i \in 1 .. h
    BY <1>2, <1>9, <1>10, <2>1
  <2>2. CASE i \notin 1 .. h
    <3>. DEFINE x == i - h
    <3>1. x \in 1 .. n /\ x \in 1 .. FragBytes /\ h + x = i
      BY <1>2, <2>2, Constants, SMT
    <3>. HIDE DEF x
    <3>2. f.data[x] = <<f.id, h + x>>
      BY <1>7, <1>10, <3>1 DEF Piece
    <3>. QED BY <1>2, <3>1, <3>2
  <2>. QED BY <2>1, <2>2
<1>11. ASSUME h + n >= len, ~CutShort(f.id) PROVE CrcMatches(c, held)
  <2>1. CASE rx[c].crc = <<>>
    BY <2>1 DEF CrcMatches
  <2>2. CASE rx[c].crc # <<>>
    <3>1. CrcBySender /\ CrcByReceiver /\ rx[c].crc = [i \in 1 .. len |-> <<f.id, i>>]
      BY <1>3, <2>2 DEF CrcOf
    <3>2. len # 0
      BY <2>2, <3>1, EmptyBytes
    <3>3. h + n = len
      BY <1>2, <1>4, <1>8, <1>11, <3>2, SMT
    <3>4. held = [i \in 1 .. len |-> <<f.id, i>>]
      <4>1. \A i \in 1 .. len : i <= copied
        BY <1>4, <1>11, <1>14, SMT
      <4>2. \A i \in 1 .. len : held[i] = <<f.id, i>>
        BY <1>10, <3>3, <4>1
      <4>3. held = [i \in 1 .. len |-> held[i]]
        BY <1>2, <3>3, LenProperties
      <4>. QED BY <4>2, <4>3
    <3>. QED BY <2>2, <3>1, <3>4 DEF CrcMatches
  <2>. QED BY <2>1, <2>2
<1>12. ASSUME h + n < len, h + n < BufferLen
       PROVE  ~Ends(f, sent) /\ h + n = f.seq * FragBytes
  <2>1. n = FragBytes
    BY <1>2, <1>4, <1>12, Constants, SMT
  <2>2. f.seq \in Nat
    BY Constants, SMT DEF Frame
  <2>3. h + FragBytes = (f.seq + 1 - 1) * FragBytes
    BY <1>2, <1>6, <2>2, NextIndex
  <2>4. f.seq + 1 - 1 = f.seq
    BY <2>2, SMT
  <2>5. h + n = f.seq * FragBytes
    BY <2>1, <2>3, <2>4, Zenon
  <2>6. ~ (h + n >= len)
    BY <1>2, <1>4, <1>12, SMT
  <2>. QED BY <1>3, <2>5, <2>6 DEF Ends
<1>. QED BY <1>2, <1>10, <1>11, <1>12 DEF held, len, copied
LEMMA UsedInOrder ==
  ASSUME TypeInv, Faithful, ContextsApart, Holding, NoErrors, UNCHANGED <<sending, faults>>,
         CrcBySender => CrcByReceiver, bus # <<>>, bus' = Tail(bus),
         NEW f \in Frame, f.id \in DOMAIN sent, ProperFrame(f, sent[f.id]),
         f.seq # 0 => Len(f.data) = FragBytes, Ready(f.stream, f.id, f.seq), Used(f)
  PROVE  After(f) /\ ContextsApart' /\ Holding' /\ NoErrors'
<1>1. PICK c \in ReceiveContext :
        /\ f.seq # 0 /\ c \in ContextsOf(f)
        /\ ReceiveUnexpected(f, c) \/ ReceiveExpected(f, c)
  BY DEF Used
<1>2. rx[c].used /\ rx[c].stream = f.stream /\ f.data \in Seq(Byte) /\ Len(f.data) = FragBytes
  BY <1>1 DEF ContextsOf, Receiving, Frame
<1>3. rx[c].id = f.id /\ rx[c].expected = f.seq
  BY <1>2 DEF Ready
<1>4. ReceiveExpected(f, c)
  BY <1>1, <1>3 DEF ReceiveUnexpected, OutOfSequence
<1>5. sent' = sent
  BY DEF sending
<1>6. \A d \in ReceiveContext : rx[d].used /\ rx[d].stream = f.stream => d = c
  BY <1>2 DEF ContextsApart
<1>. DEFINE held == Taken(c, f.data)
<1>7. held \in Seq(Byte) /\ Len(held) \in Nat
  BY <1>2, TakenBytes, LenProperties
<1>8. /\ Len(held) >= rx[c].length => CrcMatches(c, held) \/ CutShort(f.id)
      /\ Len(held) < rx[c].length /\ Len(held) < BufferLen =>
           /\ ~Ends(f, sent) /\ Len(held) = f.seq * FragBytes
           /\ \A i \in 1 .. Len(held) : i <= sent[f.id].copied => held[i] = <<f.id, i>>
  BY <1>1, <1>2, <1>3, TakenIsBeginning
<1>9. \/ HandOver(c, held, COMPLETE) \/ HandOver(c, held, TRUNCATED)
      \/ HandOver(c, held, CRC_ERROR) /\ CutShort(f.id)
      \/ /\ Len(held) < rx[c].length /\ Len(held) < BufferLen
         /\ rx' = [rx EXCEPT ![c].held = held, ![c].expected = @ + 1]
         /\ UNCHANGED <<handed, refused>>
  BY <1>4, <1>8 DEF ReceiveExpected
<1>. HIDE DEF held
<1>10. ASSUME NEW status \in Status, Excused(status, sent[f.id]), HandOver(c, held, status)
       PROVE  After(f) /\ ContextsApart' /\ Holding' /\ NoErrors'
  <2>1. /\ handed' = Append(handed, Call(c, held, status)) /\ rx' = [rx EXCEPT ![c] = FreeReceive]
    BY <1>10 DEF HandOver
  <2>2. /\ ~rx'[c].used
        /\ \A d \in ReceiveContext : rx'[d].used => d # c /\ rx[d].used /\ rx'[d] = rx[d]
    BY <2>1 DEF TypeInv, FreeReceive
  <2>3. /\ Call(c, held, status) \in Report /\ Call(c, held, status).status = status
        /\ Call(c, held, status).id = f.id
    BY <1>3, <1>7, <1>10 DEF TypeInv, Call, Report, Context
  <2>4. NoErrors'
    <3>. DEFINE call == Call(c, held, status)
    <3>. HIDE DEF call
    <3>1. /\ Len(handed) \in Nat /\ Len(handed') = Len(handed) + 1
          /\ handed'[Len(handed) + 1] = call
          /\ \A k \in 1 .. Len(handed) : handed'[k] = handed[k]
      BY <2>1, <2>3, AppendProperties, LenProperties DEF TypeInv, call
    <3>2. \A k \in 1 .. Len(handed') : k = Len(handed) + 1 \/ k \in 1 .. Len(handed)
      BY <3>1, SMT
    <3>3. ASSUME NEW k \in 1 .. Len(handed')
          PROVE  Excused(handed'[k].status, sent[handed'[k].id])
      BY <1>10, <2>3, <3>1, <3>2 DEF NoErrors, call
    <3>. QED BY <1>5, <3>3 DEF NoErrors
  <2>5. After(f)
    BY <1>6, <2>2 DEF After
  <2>6. ContextsApart'
    BY <2>2 DEF ContextsApart
  <2>7. Holding'
    BY <1>5, <2>2 DEF Holding
  <2>. QED BY <2>4, <2>5, <2>6, <2>7
<1>11. CASE /\ Len(held) < rx[c].length /\ Len(held) < BufferLen
            /\ rx' = [rx EXCEPT ![c].held = held, ![c].expected = @ + 1]
            /\ UNCHANGED <<handed, refused>>
  <2>1. /\ \A d \in ReceiveContext : d # c => rx'[d] = rx[d]
        /\ rx'[c] = [rx[c] EXCEPT !.held = held, !.expected = @ + 1]
    BY <1>2, <1>7, <1>11, KeptTypes
  <2>2. rx[c] \in Context
    BY DEF TypeInv
  <2>3. /\ rx'[c].used /\ rx'[c].id = f.id /\ rx'[c].stream = f.stream /\ rx'[c].held = held
        /\ rx'[c].expected = f.seq + 1 /\ rx'[c].length = rx[c].length
    BY <1>2, <1>3, <2>1, <2>2 DEF Context
  <2>4. After(f)
    BY <1>6, <1>8, <1>11, <2>1, <2>3 DEF After
  <2>5. ContextsApart'
    <3>1. ASSUME NEW d \in ReceiveContext, rx'[d].used
          PROVE  rx[d].used /\ rx'[d].stream = rx[d].stream
      <4>1. CASE d = c
        BY <1>2, <2>3, <4>1
      <4>2. CASE d # c
        BY <2>1, <3>1, <4>2
      <4>. QED BY <4>1, <4>2
    <3>2. SUFFICES ASSUME NEW d \in ReceiveContext, NEW e \in ReceiveContext,
                          rx'[d].used, rx'[e].used, rx'[d].stream = rx'[e].stream
                   PROVE  d = e
      BY DEF ContextsApart
    <3>3. rx[d].used /\ rx[e].used /\ rx[d].stream = rx[e].stream
      BY <3>1, <3>2
    <3>. QED BY <3>3 DEF ContextsApart
  <2>6. Holds(rx'[c], sent[rx'[c].id])
    <3>1. f.seq \in Nat
      BY Constants, SMT DEF Frame
    <3>2. f.seq + 1 # 0 /\ f.seq + 1 - 1 = f.seq
      BY <3>1, SMT
    <3>3. rx[c].length = sent[f.id].len
      BY <1>2, <1>3 DEF Faithful, ProperContext
    <3>4. Len(held) = (rx'[c].expected - 1) * FragBytes
      <4>1. rx'[c].expected - 1 = f.seq
        BY <2>3, <3>1, SMT
      <4>. QED BY <1>8, <1>11, <4>1, Zenon
    <3>. QED BY <1>8, <1>11, <2>3, <3>2, <3>3, <3>4 DEF Holds
  <2>7. Holding'
    <3>1. ASSUME NEW d \in ReceiveContext, rx'[d].used
          PROVE  Holds(rx'[d], sent[rx'[d].id])
      BY <2>1, <2>6, <3>1 DEF Holding
    <3>. QED BY <1>5, <3>1 DEF Holding
  <2>. QED BY <1>5, <1>11, <2>4, <2>5, <2>7 DEF NoErrors
<1>12. /\ COMPLETE \in Status /\ Excused(COMPLETE, sent[f.id])
       /\ TRUNCATED \in Status /\ Excused(TRUNCATED, sent[f.id])
       /\ CRC_ERROR \in Status /\ (CutShort(f.id) => Excused(CRC_ERROR, sent[f.id]))
  BY DEF Status, Excused, CutShort
<1>. QED BY <1>9, <1>10, <1>11, <1>12

LEMMA ReceiveInOrder ==
  ASSUME TypeInv, Faithful, Orderly, CrcBySender => CrcByReceiver, Receive
  PROVE  Orderly'
<1>. USE DEF Orderly
<1>1. PICK f \in Frame : f = Head(bus)
  BY HeadFrame DEF Receive
<1>2. /\ bus # <<>> /\ bus' = Tail(bus) /\ UNCHANGED <<sending, faults>>
      /\ Ignored(f) \/ Opened(f) \/ Used(f)
  BY <1>1, ReceiveCases
<1>3. /\ Len(bus) \in Nat /\ 1 \in 1 .. Len(bus) /\ f = bus[1] /\ f.id \in DOMAIN sent
      /\ f.seq # 0 => Len(f.data) = FragBytes
  BY <1>1, <1>2, HeadFrame
<1>4. ProperFrame(f, sent[f.id])
  BY <1>3 DEF Faithful
<1>5. Ready(f.stream, f.id, f.seq)
  <2>1. \A k \in 1 .. Len(bus) : ~ (k < 1)
    BY SMT
  <2>. QED BY <1>3, <2>1 DEF InOrder, FirstIsExpected
<1>6. After(f) /\ ContextsApart' /\ Holding' /\ NoErrors'
  <2>1. CASE Ignored(f)
    <3>1. \A c \in ReceiveContext : rx[c].used => rx[c].stream # f.stream
      BY <1>5, <2>1 DEF Ignored, Ready, ContextsOf, Receiving
    <3>. QED BY <1>2, <2>1, <3>1 DEF Ignored, receiving, sending, After, ContextsApart, Holding, NoErrors
  <2>2. CASE Opened(f)
    BY <1>2, <1>3, <1>4, <1>5, <2>2, OpenInOrder
  <2>3. CASE Used(f)
    BY <1>2, <1>3, <1>4, <1>5, <2>3, UsedInOrder
  <2>. QED BY <1>2, <2>1, <2>2, <2>3
<1>7. InOrder'
  BY <1>1, <1>2, <1>6, TailInOrder
<1>8. SendersApart'
  BY <1>2 DEF sending, SendersApart, Active, StreamOf
<1>. QED BY <1>6, <1>7, <1>8

(* What a context waits for is on its way, or its sender will send it.     *)
LEMMA NoTimeOut ==
  ASSUME TypeInv, Faithful, Orderly, NEW c \in ReceiveContext, rx[c].used
  PROVE  UnderWay(rx[c].id)
<1>. DEFINE stream == rx[c].stream
            On == {i \in 1 .. Len(bus) : bus[i].stream = stream}
<1>1. stream \in Stream
  BY LongMessageExAssumption DEF TypeInv
<1>2. CASE On # {}
  <2>1. On \in SUBSET Nat
    BY SMT
  <2>. DEFINE i == Min(On)
  <2>2. i \in On /\ \A k \in On : i <= k
    BY <1>2, <2>1, FirstOf
  <2>. HIDE DEF i
  <2>3. i \in 1 .. Len(bus) /\ bus[i].stream = stream
    BY <2>2
  <2>4. \A k \in 1 .. Len(bus) : k < i => bus[k].stream # bus[i].stream
    BY <2>2, <2>3, SMT
  <2>5. Ready(stream, bus[i].id, bus[i].seq)
    BY <2>3, <2>4 DEF Orderly, InOrder, FirstIsExpected
  <2>6. rx[c].id = bus[i].id
    BY <2>5 DEF Ready
  <2>7. i \in DOMAIN bus
    BY <2>3, LenProperties DEF TypeInv
  <2>. QED BY <2>6, <2>7 DEF UnderWay
<1>3. CASE On = {}
  <2>1. \A i \in 1 .. Len(bus) : bus[i].stream # stream
    BY <1>3
  <2>2. CASE \E s \in Sender, d \in SendContext : Active(s, d) /\ StreamOf(s, d) = stream
    <3>1. PICK s \in Sender, d \in SendContext : Active(s, d) /\ StreamOf(s, d) = stream
      BY <2>2
    <3>2. Ready(stream, tx[s][d].id, tx[s][d].seq)
      BY <2>1, <3>1 DEF Orderly, InOrder, SendersContinue, SentNext
    <3>3. rx[c].id = tx[s][d].id
      BY <3>2 DEF Ready
    <3>. QED BY <3>1, <3>3 DEF UnderWay, InUse, Active
  <2>3. CASE \A s \in Sender, d \in SendContext : Active(s, d) => StreamOf(s, d) # stream
    <3>1. Ready(stream, 0, 0)
      BY <1>1, <2>1, <2>3 DEF Orderly, InOrder, IdleStreamsEnded, SentNext
    <3>. QED BY <3>1 DEF Ready
  <2>. QED BY <2>2, <2>3
<1>. QED BY <1>2, <1>3
LEMMA StepInOrder ==
  ASSUME ~SharedStreams, CrcBySender => CrcByReceiver,
         TypeInv, TypeInv', WholeInv, OrderInv, [Next]_vars
  PROVE  OrderInv'
<1>. SUFFICES ASSUME ~NumbersWrap', faults' = 0 PROVE Orderly'
  BY Constants, SMT DEF OrderInv, TypeInv
<1>1. ~NumbersWrap /\ Faithful
  BY NotYetWrapped DEF WholeInv
<1>2. faults = 0 /\ Orderly
  <2>1. faults = 0
    <3>1. faults \in Nat /\ (faults' = faults \/ faults' = faults + 1)
      <4>1. faults \in Nat
        BY DEF TypeInv
      <4>2. ASSUME NEW s \in Sender, NEW stream \in Stream, NEW len \in Lens,
                   NEW zero \in FirstZero, SendLongMessage(s, stream, len, zero)
            PROVE  faults' = faults \/ faults' = faults + 1
        BY <4>2 DEF SendLongMessage, Transmit
      <4>. QED BY <4>1, <4>2 DEF Next, SendFragment, Transmit, Skip, Restart, Receive, TimeOut, vars
    <3>. QED BY <3>1, SMT
  <2>. QED BY <1>1, <2>1 DEF OrderInv
<1>. USE DEF Orderly
<1>3. ASSUME NEW s \in Sender, NEW stream \in Stream, NEW len \in Lens,
             NEW zero \in FirstZero, SendLongMessage(s, stream, len, zero)
      PROVE  Orderly'
  <2>1. InOrder' /\ SendersApart' /\ \A id \in DOMAIN sent : sent'[id] = sent[id]
    BY <1>2, <1>3, SendInOrder
  <2>2. UNCHANGED <<rx, handed>>
    BY <1>3, SendStep
  <2>3. Holding'
    BY <1>2, <2>1, <2>2 DEF Holding, TypeInv
  <2>4. NoErrors'
    BY <1>2, <2>1, <2>2 DEF NoErrors, TypeInv
  <2>. QED BY <1>2, <2>1, <2>2, <2>3, <2>4 DEF ContextsApart
<1>4. ASSUME NEW s \in Sender, SendFragment(s) PROVE Orderly'
  <2>1. InOrder' /\ SendersApart'
    BY <1>1, <1>2, <1>4, FragmentInOrder
  <2>2. UNCHANGED <<sent, rx, handed>>
    BY <1>4 DEF SendFragment, receiving
  <2>. QED BY <1>2, <2>1, <2>2 DEF ContextsApart, Holding, NoErrors
<1>5. CASE UNCHANGED <<sent, tx, bus, rx, handed>>
  BY <1>2, <1>5 DEF InOrder, FirstIsExpected, OneAfterTheOther, SendersContinue, IdleStreamsEnded,
                    SentNext, LastOn, Ready, Active, StreamOf, SendersApart, ContextsApart,
                    Holding, NoErrors
<1>6. CASE Receive
  BY <1>1, <1>2, <1>6, ReceiveInOrder
<1>7. ASSUME NEW c \in ReceiveContext, TimeOut(c) PROVE FALSE
  BY <1>1, <1>2, <1>7, NoTimeOut DEF TimeOut, TimedOut, Receiving
<1>8. ASSUME NEW s \in Sender, Restart(s) PROVE FALSE
  BY <1>2, <1>8 DEF Restart
<1>9. ASSUME NEW s \in Sender, Skip(s) PROVE UNCHANGED <<sent, tx, bus, rx, handed>>
  BY <1>9 DEF Skip, receiving
<1>. QED BY <1>3, <1>4, <1>5, <1>6, <1>7, <1>8, <1>9 DEF Next, vars

LEMMA InitInOrder == Init => OrderInv
<1>. SUFFICES ASSUME Init PROVE Orderly
  BY DEF OrderInv
<1>1. /\ Len(bus) = 0 /\ Len(handed) = 0 /\ \A i \in 1 .. 0 : FALSE
      /\ \A c \in ReceiveContext : ~rx[c].used
      /\ \A s \in Sender, c \in SendContext : tx[s][c].id = 0
  BY SMT DEF Init, FreeReceive, FreeSend
<1>2. \A i \in 1 .. Len(bus) : FALSE
  BY <1>1
<1>3. FirstIsExpected /\ OneAfterTheOther
  BY <1>2 DEF FirstIsExpected, OneAfterTheOther
<1>4. \A stream, id, seq : SentNext(stream, id, seq)
  BY <1>1, <1>2 DEF SentNext, Ready
<1>5. InOrder
  BY <1>3, <1>4 DEF InOrder, SendersContinue, IdleStreamsEnded
<1>6. SendersApart /\ ContextsApart /\ Holding /\ NoErrors
  BY <1>1 DEF SendersApart, Active, ContextsApart, Holding, NoErrors
<1>. QED BY <1>5, <1>6 DEF Orderly

(* Messages on different streams do not disturb each other.  When no two   *)
(* nodes send on one stream at a time, and the receiver checks the CRC     *)
(* that the senders use, then as long as nothing is lost, no sender        *)
(* restarts and no number wraps, every message that is handed over is      *)
(* complete, or cut at the end of the buffer, or has bytes behind the      *)
(* first zero, which strdup() in sendLongMessage() did not copy, and fails *)
(* its CRC: none ends in a timeout or in a sequence error, and none that   *)
(* was copied whole in a CRC error, however the fragments of the senders   *)
(* are interleaved and whichever messages around it are cut short.         *)
THEOREM ErrorsComeFromFaults ==
  ASSUME ~SharedStreams, CrcBySender => CrcByReceiver
  PROVE  Spec => []NoErrorWithoutFault
<1>. DEFINE Inv == TypeInv /\ WholeInv /\ OrderInv
<1>1. Init => Inv
  BY InitTypes, InitWhole, InitInOrder
<1>2. Inv /\ [Next]_vars => Inv'
  <2>1. TypeInv /\ [Next]_vars => TypeInv'
    BY StepTypes
  <2>2. TypeInv /\ TypeInv' /\ WholeInv /\ [Next]_vars => WholeInv'
    BY StepWhole
  <2>3. TypeInv /\ TypeInv' /\ WholeInv /\ OrderInv /\ [Next]_vars => OrderInv'
    BY StepInOrder
  <2>. QED BY <2>1, <2>2, <2>3
<1>3. Inv => NoErrorWithoutFault
  <2>1. TypeInv => DOMAIN handed = 1 .. Len(handed)
    BY LenProperties DEF TypeInv
  <2>. QED BY <2>1 DEF OrderInv, Orderly, NoErrors, Excused, CutShort, NoErrorWithoutFault
<1>. HIDE DEF Inv
<1>. QED BY <1>1, <1>2, <1>3, PTL DEF Spec
-----------------------------------------------------------------------------
(* Nothing is lost in silence.  Every message on a subscribed stream has a *)
(* header on its way, a context, a report or a refusal, or there was a     *)
(* fault; and a header comes before the fragments of its message.          *)

IsHeader(f) == f.data = <<>>
HeaderIds ==
  {id \in DOMAIN sent : \E i \in 1 .. Len(bus) :
     IsHeader(bus[i]) /\ bus[i].stream \in Subscribed /\ bus[i].id = id}

HeadersFirst ==
  \A i \in 1 .. Len(bus) : IsHeader(bus[i]) =>
    /\ bus[i].id \notin refused
    /\ \A j \in 1 .. Len(bus) : bus[j].id = bus[i].id => i <= j

Counted ==
  Cardinality(Expected) <= faults + Cardinality(refused) + Len(handed)
                             + Cardinality(Receiving) + Cardinality(HeaderIds)

LEMMA FiniteSets ==
  ASSUME TypeInv
  PROVE  /\ Len(sent) \in Nat /\ Len(handed) \in Nat /\ faults \in Nat
         /\ DOMAIN sent = 1 .. Len(sent)
         /\ IsFiniteSet(Expected) /\ Cardinality(Expected) \in Nat
         /\ IsFiniteSet(refused) /\ Cardinality(refused) \in Nat
         /\ IsFiniteSet(Receiving) /\ Cardinality(Receiving) \in Nat
         /\ IsFiniteSet(HeaderIds) /\ Cardinality(HeaderIds) \in Nat
<1>1. Len(sent) \in Nat /\ Len(handed) \in Nat /\ faults \in Nat /\ DOMAIN sent = 1 .. Len(sent)
  BY LenProperties DEF TypeInv
<1>2. IsFiniteSet(DOMAIN sent) /\ IsFiniteSet(ReceiveContext)
  BY <1>1, FS_Interval, Constants DEF ReceiveContext
<1>3. /\ Expected \in SUBSET DOMAIN sent /\ refused \in SUBSET DOMAIN sent
      /\ HeaderIds \in SUBSET DOMAIN sent /\ Receiving \in SUBSET ReceiveContext
  BY DEF Expected, HeaderIds, Receiving, TypeInv
<1>4. IsFiniteSet(Expected) /\ IsFiniteSet(refused) /\ IsFiniteSet(HeaderIds) /\ IsFiniteSet(Receiving)
  BY <1>2, <1>3, FS_Subset
<1>. QED BY <1>1, <1>4, FS_CardinalityType

LEMMA OneMore ==
  ASSUME NEW S, IsFiniteSet(S), NEW x
  PROVE  /\ Cardinality(S) \in Nat /\ Cardinality(S \cup {x}) \in Nat
         /\ Cardinality(S \cup {x}) <= Cardinality(S) + 1
         /\ Cardinality(S) <= Cardinality(S \cup {x})
         /\ x \notin S => Cardinality(S \cup {x}) = Cardinality(S) + 1
<1>1. /\ Cardinality(S \cup {x}) = IF x \in S THEN Cardinality(S) ELSE Cardinality(S) + 1
      /\ Cardinality(S) \in Nat
  BY FS_AddElement, FS_CardinalityType
<1>. QED BY <1>1, SMT

LEMMA FragmentSent ==
  ASSUME TypeInv, NEW s \in Sender, SendFragment(s)
  PROVE  /\ UNCHANGED <<sent, rx, handed, refused>>
         /\ \E f \in Frame : Transmit(f) /\ ~IsHeader(f)
<1>. DEFINE c == turn[s]
            o == tx[s][c]
            data == Piece(o.id, o.index, sent[o.id].copied)
            f == Fragment(o.id, o.seq, data)
<1>1. c \in InUse(s) /\ Transmit(f) /\ UNCHANGED <<sent, rx, handed, refused>>
  BY DEF SendFragment, Buffered, Piece, receiving
<1>2. o \in Job /\ o.id # 0 /\ Due(o, sent)
  BY <1>1 DEF InUse, TypeInv
<1>3. f \in Frame /\ f.data = data /\ Len(data) = FragBytes
  BY <1>2, FragmentType DEF Job, Due, Fragment
<1>. HIDE DEF f, data
<1>4. data # <<>>
  BY <1>3, Constants, SMT
<1>. QED BY <1>1, <1>3, <1>4 DEF IsHeader

LEMMA SendCounted ==
  ASSUME TypeInv, TypeInv', HeadersFirst, Counted,
         NEW s \in Sender, NEW stream \in Stream, NEW len \in Lens,
         NEW zero \in FirstZero, SendLongMessage(s, stream, len, zero)
  PROVE  HeadersFirst' /\ Counted'
<1>1. UNCHANGED <<rx, handed, refused>>
  BY SendStep
<1>2. CASE UNCHANGED <<sent, tx, bus, faults>>
  BY <1>1, <1>2 DEF HeadersFirst, Counted, Expected, Receiving, HeaderIds
<1>3. CASE /\ sent' = Append(sent, Submitted(stream, len, zero))
           /\ Transmit(Header(Len(sent) + 1, stream, len))
  <2>. DEFINE id == Len(sent) + 1
              h == Header(id, stream, len)
              m == Submitted(stream, len, zero)
  <2>1. m \in Message
    BY SubmittedType
  <2>2. /\ Len(sent) \in Nat /\ DOMAIN sent = 1 .. Len(sent) /\ DOMAIN sent' = 1 .. Len(sent) + 1
        /\ \A k \in DOMAIN sent : sent'[k] = sent[k]
        /\ sent'[id] = m
    BY <1>3, <2>1, SentGrows DEF TypeInv
  <2>3. /\ id \in Nat /\ id \notin DOMAIN sent /\ id \in DOMAIN sent'
        /\ \A k \in DOMAIN sent' : k = id \/ k \in DOMAIN sent
        /\ \A k \in DOMAIN sent : k \in DOMAIN sent'
    BY <2>2, SMT
  <2>. HIDE DEF id
  <2>4. h \in Frame /\ h.id = id /\ h.stream = stream /\ IsHeader(h)
    BY <2>3, HeaderType DEF Header, IsHeader
  <2>5. Transmit(h)
    BY <1>3 DEF id
  <2>. HIDE DEF h
  <2>6. bus \in Seq(Frame) /\ \A i \in 1 .. Len(bus) : bus[i].id \in DOMAIN sent
    BY DEF TypeInv
  <2>7. Expected' = IF stream \in Subscribed THEN Expected \cup {id} ELSE Expected
    BY <2>2, <2>3, SubmittedType DEF Expected
  <2>8. /\ Cardinality(Expected') <= Cardinality(Expected) + 1
        /\ stream \notin Subscribed => Cardinality(Expected') = Cardinality(Expected)
    <3>1. IsFiniteSet(Expected) /\ Cardinality(Expected) \in Nat
      BY FiniteSets
    <3>2. CASE stream \in Subscribed
      <4>1. Expected' = Expected \cup {id}
        BY <2>7, <3>2
      <4>2. Cardinality(Expected \cup {id}) <= Cardinality(Expected) + 1
        BY <3>1, OneMore
      <4>. QED BY <3>2, <4>1, <4>2
    <3>3. CASE stream \notin Subscribed
      BY <2>7, <3>1, <3>3
    <3>. QED BY <3>2, <3>3
  <2>9. CASE bus' = bus /\ faults' = faults + 1
    <3>1. HeaderIds' = HeaderIds
      BY <2>2, <2>3, <2>6, <2>9 DEF HeaderIds
    <3>2. HeadersFirst'
      BY <1>1, <2>9 DEF HeadersFirst
    <3>3. Receiving' = Receiving
      BY <1>1 DEF Receiving
    <3>4. /\ Cardinality(Expected)' \in Nat /\ Cardinality(Expected) \in Nat /\ faults \in Nat
          /\ Cardinality(refused) \in Nat /\ Cardinality(Receiving) \in Nat
          /\ Cardinality(HeaderIds) \in Nat /\ Len(handed) \in Nat
      <4>1. IsFiniteSet(Expected) /\ Cardinality(Expected) \in Nat
        BY FiniteSets
      <4>2. Cardinality(Expected \cup {id}) \in Nat
        BY <4>1, OneMore
      <4>. QED BY <2>7, <4>2, FiniteSets
    <3>. QED BY <1>1, <2>8, <2>9, <3>1, <3>2, <3>3, <3>4, SMT DEF Counted
  <2>10. CASE UNCHANGED faults /\ ~(bus' = bus /\ faults' = faults + 1)
    <3>1. /\ Len(bus) \in Nat /\ Len(bus') = Len(bus) + 1
          /\ \A i \in 1 .. Len(bus) : i \in 1 .. Len(bus') /\ bus'[i] = bus[i]
          /\ Len(bus) + 1 \in 1 .. Len(bus') /\ bus'[Len(bus) + 1] = h
          /\ \A i \in 1 .. Len(bus') : i = Len(bus) + 1 \/ i \in 1 .. Len(bus)
      BY <2>4, <2>5, <2>6, <2>10, FiniteSets, Transmitted
    <3>2. HeaderIds' = IF stream \in Subscribed THEN HeaderIds \cup {id} ELSE HeaderIds
      <4>1. \A k \in DOMAIN sent' : k \in HeaderIds' <=> k \in HeaderIds \/ (k = id /\ stream \in Subscribed)
        BY <2>3, <2>4, <2>6, <3>1 DEF HeaderIds
      <4>2. HeaderIds' \subseteq DOMAIN sent' /\ HeaderIds \subseteq DOMAIN sent'
        BY <2>3 DEF HeaderIds
      <4>. QED BY <2>3, <4>1, <4>2
    <3>3. id \notin HeaderIds
      BY <2>3 DEF HeaderIds
    <3>4. HeadersFirst'
      <4>1. SUFFICES ASSUME NEW i \in 1 .. Len(bus'), IsHeader(bus'[i])
                     PROVE  /\ bus'[i].id \notin refused
                            /\ \A j \in 1 .. Len(bus') : bus'[j].id = bus'[i].id => i <= j
        BY <1>1 DEF HeadersFirst
      <4>2. CASE i = Len(bus) + 1
        <5>1. bus'[i].id = id
          BY <2>4, <3>1, <4>2
        <5>2. \A j \in 1 .. Len(bus) : bus'[j].id # id
          BY <2>3, <2>6, <3>1
        <5>3. \A j \in 1 .. Len(bus') : bus'[j].id = bus'[i].id => i <= j
          BY <3>1, <4>2, <5>1, <5>2
        <5>. QED BY <2>3, <5>1, <5>3 DEF TypeInv
      <4>3. CASE i \in 1 .. Len(bus)
        <5>1. bus'[i] = bus[i] /\ bus[i].id \notin refused /\ bus[i].id # id
          BY <2>3, <2>6, <3>1, <4>1, <4>3 DEF HeadersFirst
        <5>2. ASSUME NEW j \in 1 .. Len(bus'), bus'[j].id = bus'[i].id PROVE i <= j
          <6>1. j \in 1 .. Len(bus)
            BY <2>4, <3>1, <5>1, <5>2
          <6>. QED BY <3>1, <4>1, <4>3, <5>1, <5>2, <6>1 DEF HeadersFirst
        <5>. QED BY <5>1, <5>2
      <4>. QED BY <3>1, <4>2, <4>3
    <3>5. Receiving' = Receiving
      BY <1>1 DEF Receiving
    <3>6. /\ Cardinality(Expected) \in Nat /\ faults \in Nat
          /\ Cardinality(refused) \in Nat /\ Cardinality(Receiving) \in Nat
          /\ Cardinality(HeaderIds) \in Nat /\ Len(handed) \in Nat
          /\ IsFiniteSet(HeaderIds) /\ IsFiniteSet(Expected)
      BY FiniteSets
    <3>7. CASE stream \in Subscribed
      <4>1. Cardinality(HeaderIds') = Cardinality(HeaderIds) + 1
        BY <3>2, <3>3, <3>6, <3>7, FS_AddElement
      <4>2. Cardinality(Expected') \in Nat
        <5>1. Cardinality(Expected \cup {id}) \in Nat
          BY <3>6, OneMore
        <5>. QED BY <2>7, <3>7, <5>1
      <4>. QED BY <1>1, <2>8, <2>10, <3>4, <3>5, <3>6, <4>1, <4>2, SMT DEF Counted
    <3>8. CASE stream \notin Subscribed
      BY <1>1, <2>7, <2>10, <3>2, <3>4, <3>5, <3>8 DEF Counted
    <3>. QED BY <3>7, <3>8
  <2>. QED BY <2>4, <2>5, <2>6, <2>9, <2>10, FiniteSets, Transmitted
<1>. QED BY <1>2, <1>3, SendStep, Zenon
LEMMA FragmentCounted ==
  ASSUME TypeInv, HeadersFirst, Counted, NEW s \in Sender, SendFragment(s)
  PROVE  HeadersFirst' /\ Counted'
<1>1. PICK f \in Frame : Transmit(f) /\ ~IsHeader(f)
  BY FragmentSent
<1>2. UNCHANGED <<sent, rx, handed, refused>>
  BY FragmentSent
<1>3. Expected' = Expected /\ Receiving' = Receiving
  BY <1>2 DEF Expected, Receiving
<1>4. bus \in Seq(Frame) /\ faults \in Nat
  BY FiniteSets DEF TypeInv
<1>5. CASE bus' = bus /\ faults' = faults + 1
  <2>1. HeadersFirst' /\ HeaderIds' = HeaderIds
    BY <1>2, <1>5 DEF HeadersFirst, HeaderIds
  <2>2. /\ Cardinality(Expected) \in Nat /\ Cardinality(refused) \in Nat /\ Len(handed) \in Nat
        /\ Cardinality(Receiving) \in Nat /\ Cardinality(HeaderIds) \in Nat
    BY FiniteSets
  <2>. QED BY <1>2, <1>3, <1>4, <1>5, <2>1, <2>2, SMT DEF Counted
<1>6. CASE UNCHANGED faults /\ ~(bus' = bus /\ faults' = faults + 1)
  <2>1. /\ Len(bus) \in Nat /\ Len(bus') = Len(bus) + 1
        /\ \A i \in 1 .. Len(bus) : i \in 1 .. Len(bus') /\ bus'[i] = bus[i]
        /\ Len(bus) + 1 \in 1 .. Len(bus') /\ bus'[Len(bus) + 1] = f
        /\ \A i \in 1 .. Len(bus') : i = Len(bus) + 1 \/ i \in 1 .. Len(bus)
    BY <1>1, <1>4, <1>6, Transmitted
  <2>2. HeaderIds' = HeaderIds
    BY <1>1, <1>2, <2>1 DEF HeaderIds
  <2>3. ASSUME NEW i \in 1 .. Len(bus'), IsHeader(bus'[i])
        PROVE  /\ bus'[i].id \notin refused
               /\ \A j \in 1 .. Len(bus') : bus'[j].id = bus'[i].id => i <= j
    <3>1. i \in 1 .. Len(bus) /\ bus'[i] = bus[i]
      BY <1>1, <2>1, <2>3
    <3>2. ASSUME NEW j \in 1 .. Len(bus'), bus'[j].id = bus'[i].id PROVE i <= j
      <4>1. CASE j = Len(bus) + 1
        BY <2>1, <3>1, <4>1
      <4>2. CASE j \in 1 .. Len(bus)
        BY <2>1, <2>3, <3>1, <3>2, <4>2 DEF HeadersFirst
      <4>. QED BY <2>1, <4>1, <4>2
    <3>. QED BY <2>3, <3>1, <3>2 DEF HeadersFirst
  <2>. QED BY <1>2, <1>3, <1>6, <2>2, <2>3 DEF HeadersFirst, Counted
<1>. QED BY <1>1, <1>4, <1>5, <1>6, Transmitted

LEMMA TailHeaders ==
  ASSUME TypeInv, HeadersFirst, UNCHANGED sent, bus # <<>>, bus' = Tail(bus), NEW f, f = Head(bus)
  PROVE  /\ HeaderIds' = IF IsHeader(f) /\ f.stream \in Subscribed
                         THEN HeaderIds \ {f.id} ELSE HeaderIds
         /\ IsHeader(f) => f.id \notin refused
         /\ \A i \in 1 .. Len(bus') : IsHeader(bus'[i]) =>
              /\ bus'[i].id \notin refused /\ bus'[i].id # f.id
              /\ \A j \in 1 .. Len(bus') : bus'[j].id = bus'[i].id => i <= j
<1>1. f = bus[1] /\ 1 \in 1 .. Len(bus) /\ Len(bus) \in Nat
  BY HeadFrame
<1>2. /\ Len(bus') = Len(bus) - 1
      /\ \A i \in 1 .. Len(bus') : bus'[i] = bus[i + 1]
  BY HeadTailProperties DEF TypeInv
<1>3. /\ \A i \in 1 .. Len(bus') : i + 1 \in 1 .. Len(bus)
      /\ \A k \in 1 .. Len(bus) : k = 1 \/ (k - 1 \in 1 .. Len(bus') /\ bus'[k - 1] = bus[k])
  <2>1. \A k \in 1 .. Len(bus) : k = 1 \/ (k - 1 \in 1 .. Len(bus') /\ (k - 1) + 1 = k)
    BY <1>1, <1>2, SMT
  <2>2. \A i \in 1 .. Len(bus') : i + 1 \in 1 .. Len(bus)
    BY <1>1, <1>2, SMT
  <2>. QED BY <1>2, <2>1, <2>2
<1>4. ASSUME NEW i \in 1 .. Len(bus'), IsHeader(bus'[i])
      PROVE  /\ bus'[i].id \notin refused /\ bus'[i].id # f.id
             /\ \A j \in 1 .. Len(bus') : bus'[j].id = bus'[i].id => i <= j
  <2>. DEFINE x == i + 1
  <2>1. x \in 1 .. Len(bus) /\ bus'[i] = bus[x] /\ ~ (x <= 1) /\ i \in Int
    BY <1>2, <1>3, SMT
  <2>2. bus[x].id \notin refused /\ \A j \in 1 .. Len(bus) : bus[j].id = bus[x].id => x <= j
    <3>. HIDE DEF x
    <3>. QED BY <1>4, <2>1 DEF HeadersFirst
  <2>3. bus'[i].id # f.id
    <3>. HIDE DEF x
    <3>. QED BY <1>1, <2>1, <2>2
  <2>4. ASSUME NEW j \in 1 .. Len(bus'), bus'[j].id = bus'[i].id PROVE i <= j
    <3>. DEFINE y == j + 1
    <3>1. y \in 1 .. Len(bus) /\ bus'[j] = bus[y] /\ j \in Int
      BY <1>2, <1>3, SMT
    <3>2. x <= y
      <4>. HIDE DEF x, y
      <4>. QED BY <2>1, <2>2, <2>4, <3>1
    <3>. QED BY <2>1, <3>1, <3>2, SMT
  <2>. QED BY <2>1, <2>2, <2>3, <2>4
<1>5. HeaderIds' = IF IsHeader(f) /\ f.stream \in Subscribed THEN HeaderIds \ {f.id} ELSE HeaderIds
  <2>1. ASSUME NEW id \in HeaderIds' PROVE id \in HeaderIds /\ id # f.id
    <3>1. PICK i \in 1 .. Len(bus') :
            IsHeader(bus'[i]) /\ bus'[i].stream \in Subscribed /\ bus'[i].id = id
      BY DEF HeaderIds
    <3>2. id # f.id
      BY <1>4, <3>1
    <3>3. i + 1 \in 1 .. Len(bus) /\ bus'[i] = bus[i + 1] /\ id \in DOMAIN sent
      BY <1>2, <1>3 DEF HeaderIds
    <3>. QED BY <3>1, <3>2, <3>3 DEF HeaderIds
  <2>2. ASSUME NEW id \in HeaderIds, ~(IsHeader(f) /\ f.stream \in Subscribed) \/ id # f.id
        PROVE  id \in HeaderIds'
    <3>1. PICK k \in 1 .. Len(bus) :
            IsHeader(bus[k]) /\ bus[k].stream \in Subscribed /\ bus[k].id = id
      BY DEF HeaderIds
    <3>2. k # 1
      BY <1>1, <2>2, <3>1
    <3>3. k - 1 \in 1 .. Len(bus') /\ bus'[k - 1] = bus[k]
      BY <1>3, <3>2
    <3>. QED BY <3>1, <3>3 DEF HeaderIds
  <2>3. CASE IsHeader(f) /\ f.stream \in Subscribed
    BY <2>1, <2>2, <2>3
  <2>4. CASE ~(IsHeader(f) /\ f.stream \in Subscribed)
    BY <2>1, <2>2, <2>4
  <2>. QED BY <2>3, <2>4
<1>6. IsHeader(f) => f.id \notin refused
  BY <1>1 DEF HeadersFirst
<1>. QED BY <1>4, <1>5, <1>6

LEMMA HandOverCounted ==
  ASSUME TypeInv, Counted, UNCHANGED <<sent, faults>>, HeaderIds' = HeaderIds,
         NEW c \in ReceiveContext, rx[c].used, NEW data \in Seq(Byte), NEW status \in Status,
         HandOver(c, data, status)
  PROVE  Counted'
<1>1. /\ handed' = Append(handed, Call(c, data, status)) /\ rx' = [rx EXCEPT ![c] = FreeReceive]
      /\ refused' = refused
  BY DEF HandOver
<1>2. Call(c, data, status) \in Report
  BY DEF TypeInv, Call, Report, Context
<1>3. Len(handed') = Len(handed) + 1
  BY <1>1, <1>2, AppendProperties DEF TypeInv
<1>4. Receiving' = Receiving \ {c} /\ c \in Receiving
  BY <1>1 DEF Receiving, TypeInv, FreeReceive
<1>5. /\ Cardinality(Expected) \in Nat /\ faults \in Nat
      /\ Cardinality(refused) \in Nat /\ Cardinality(Receiving) \in Nat
      /\ Cardinality(HeaderIds) \in Nat /\ Len(handed) \in Nat /\ IsFiniteSet(Receiving)
  BY FiniteSets
<1>6. Cardinality(Receiving \ {c}) = Cardinality(Receiving) - 1
  BY <1>4, <1>5, FS_RemoveElement
<1>7. Cardinality(Receiving') = Cardinality(Receiving) - 1
  BY <1>4, <1>6
<1>8. Expected' = Expected
  BY DEF Expected
<1>. QED BY <1>1, <1>3, <1>5, <1>7, <1>8, SMT DEF Counted

LEMMA ReceiveCounted ==
  ASSUME TypeInv, TypeInv', HeadersFirst, Counted, Receive
  PROVE  HeadersFirst' /\ Counted'
<1>1. PICK f \in Frame : f = Head(bus)
  BY HeadFrame DEF Receive
<1>2. /\ bus # <<>> /\ bus' = Tail(bus) /\ UNCHANGED <<sent, faults>>
      /\ Ignored(f) \/ Opened(f) \/ Used(f)
  BY <1>1, ReceiveCases DEF sending
<1>3. f.id \in DOMAIN sent /\ (f.seq # 0 => Len(f.data) = FragBytes)
  BY <1>1, <1>2, HeadFrame
<1>4. f.seq # 0 => ~IsHeader(f)
  BY <1>3, Constants, SMT DEF IsHeader
<1>5. /\ HeaderIds' = IF IsHeader(f) /\ f.stream \in Subscribed
                      THEN HeaderIds \ {f.id} ELSE HeaderIds
      /\ IsHeader(f) => f.id \notin refused
      /\ \A i \in 1 .. Len(bus') : IsHeader(bus'[i]) =>
           /\ bus'[i].id \notin refused /\ bus'[i].id # f.id
           /\ \A j \in 1 .. Len(bus') : bus'[j].id = bus'[i].id => i <= j
  BY <1>1, <1>2, TailHeaders
<1>6. refused' \subseteq refused \cup {f.id}
  BY <1>2 DEF Ignored, receiving, Opened, Open, Used, ReceiveUnexpected, ReceiveExpected, HandOver
<1>7. HeadersFirst'
  BY <1>5, <1>6 DEF HeadersFirst
<1>8. /\ Cardinality(Expected) \in Nat /\ faults \in Nat
      /\ Cardinality(refused) \in Nat /\ Cardinality(Receiving) \in Nat
      /\ Cardinality(HeaderIds) \in Nat /\ Len(handed) \in Nat
      /\ IsFiniteSet(Receiving) /\ IsFiniteSet(HeaderIds) /\ IsFiniteSet(refused)
      /\ Expected' = Expected
  BY <1>2, FiniteSets DEF Expected
<1>9. UNCHANGED <<sending, faults>>
  BY ReceiveCases
<1>10. CASE Ignored(f)
  <2>1. HeaderIds' = HeaderIds
    BY <1>4, <1>5, <1>10 DEF Ignored, IsHeader
  <2>. QED BY <1>2, <1>7, <1>8, <1>10, <2>1 DEF Ignored, receiving, Counted, Receiving
<1>11. CASE Opened(f)
  <2>1. Cardinality(HeaderIds') \in Nat /\ Cardinality(HeaderIds') >= Cardinality(HeaderIds) - 1
    <3>1. /\ Cardinality(HeaderIds \ {f.id}) \in Nat
          /\ Cardinality(HeaderIds \ {f.id}) >= Cardinality(HeaderIds) - 1
      <4>1. /\ IsFiniteSet(HeaderIds \ {f.id})
            /\ Cardinality(HeaderIds \ {f.id}) =
                 IF f.id \in HeaderIds THEN Cardinality(HeaderIds) - 1 ELSE Cardinality(HeaderIds)
        BY <1>8, FS_RemoveElement
      <4>2. Cardinality(HeaderIds \ {f.id}) \in Nat
        BY <4>1, FS_CardinalityType
      <4>. QED BY <1>8, <4>1, <4>2, SMT
    <3>2. CASE HeaderIds' = HeaderIds \ {f.id}
      BY <3>1, <3>2
    <3>3. CASE HeaderIds' = HeaderIds
      BY <1>8, <3>3, SMT
    <3>. QED BY <1>5, <3>2, <3>3
  <2>2. CASE FreeContexts # {} /\ UNCHANGED <<handed, refused>>
    <3>. DEFINE c == Min(FreeContexts)
    <3>1. c \in FreeContexts
      <4>1. FreeContexts \in SUBSET Nat
        BY Constants, SMT DEF FreeContexts, ReceiveContext
      <4>. QED BY <2>2, <4>1, FirstOf
    <3>2. \E r : r.used /\ rx' = [rx EXCEPT ![c] = r]
      BY <1>11, <2>2 DEF Opened, Open
    <3>. HIDE DEF c
    <3>3. c \in ReceiveContext /\ c \notin Receiving
      BY <3>1 DEF FreeContexts
    <3>4. Receiving' = Receiving \cup {c}
      BY <3>2, <3>3 DEF Receiving, TypeInv
    <3>5. Cardinality(Receiving \cup {c}) = Cardinality(Receiving) + 1
      BY <1>8, <3>3, OneMore
    <3>6. Cardinality(Receiving') = Cardinality(Receiving) + 1
      BY <3>4, <3>5
    <3>. QED BY <1>2, <1>7, <1>8, <2>1, <2>2, <3>6, SMT DEF Counted
  <2>3. CASE refused' = refused \cup {f.id} /\ UNCHANGED <<rx, handed>>
    <3>1. Receiving' = Receiving
      BY <2>3 DEF Receiving
    <3>2. CASE IsHeader(f)
      <4>1. Cardinality(refused \cup {f.id}) = Cardinality(refused) + 1
        BY <1>5, <1>8, <3>2, OneMore
      <4>2. Cardinality(refused') = Cardinality(refused) + 1
        BY <2>3, <4>1
      <4>. QED BY <1>2, <1>7, <1>8, <2>1, <2>3, <3>1, <4>2, SMT DEF Counted
    <3>3. CASE ~IsHeader(f)
      <4>1. HeaderIds' = HeaderIds
        BY <1>5, <3>3
      <4>2. /\ Cardinality(refused) <= Cardinality(refused \cup {f.id})
            /\ Cardinality(refused \cup {f.id}) \in Nat
        BY <1>8, OneMore
      <4>3. Cardinality(refused) <= Cardinality(refused') /\ Cardinality(refused') \in Nat
        BY <2>3, <4>2
      <4>4. Len(handed') = Len(handed)
        BY <2>3
      <4>5. Cardinality(Expected) <= faults + Cardinality(refused') + Len(handed)
                                       + Cardinality(Receiving) + Cardinality(HeaderIds)
        BY <1>8, <4>3, SMT DEF Counted
      <4>. QED BY <1>2, <1>7, <1>8, <3>1, <4>1, <4>4, <4>5 DEF Counted
    <3>. QED BY <3>2, <3>3
  <2>. QED BY <1>11, <2>2, <2>3 DEF Opened, Open
<1>12. CASE Used(f)
  <2>1. PICK c \in ReceiveContext :
          /\ f.seq # 0 /\ c \in ContextsOf(f)
          /\ ReceiveUnexpected(f, c) \/ ReceiveExpected(f, c)
    BY <1>12 DEF Used
  <2>2. rx[c].used /\ f.data \in Seq(Byte) /\ Len(f.data) = FragBytes
    BY <1>3, <2>1 DEF ContextsOf, Receiving, Frame
  <2>3. HeaderIds' = HeaderIds
    BY <1>4, <1>5, <2>1
  <2>4. CASE ReceiveUnexpected(f, c)
    <3>1. HandOver(c, rx[c].held, SEQUENCE_ERROR) /\ SEQUENCE_ERROR \in Status
      BY <2>4 DEF ReceiveUnexpected, Status
    <3>2. rx[c].held \in Seq(Byte)
      BY DEF TypeInv, Context
    <3>. QED BY <1>2, <1>7, <2>2, <2>3, <3>1, <3>2, HandOverCounted
  <2>5. CASE ReceiveExpected(f, c)
    <3>. DEFINE held == Taken(c, f.data)
    <3>1. held \in Seq(Byte)
      BY <2>2, TakenBytes
    <3>2. \/ \E status \in Status : HandOver(c, held, status)
          \/ /\ Len(held) < BufferLen
             /\ rx' = [rx EXCEPT ![c].held = held, ![c].expected = @ + 1]
             /\ UNCHANGED <<handed, refused>>
      BY <2>5 DEF ReceiveExpected, Status
    <3>. HIDE DEF held
    <3>3. CASE \E status \in Status : HandOver(c, held, status)
      BY <1>2, <1>7, <2>2, <2>3, <3>1, <3>3, HandOverCounted
    <3>4. CASE /\ Len(held) < BufferLen
               /\ rx' = [rx EXCEPT ![c].held = held, ![c].expected = @ + 1]
               /\ UNCHANGED <<handed, refused>>
      <4>1. /\ \A d \in ReceiveContext : d # c => rx'[d] = rx[d]
            /\ rx'[c] = [rx[c] EXCEPT !.held = held, !.expected = @ + 1]
        <5>1. rx \in [ReceiveContext -> Context]
          BY DEF TypeInv
        <5>. QED BY <3>4, <5>1
      <4>2. rx[c] \in Context
        BY DEF TypeInv
      <4>3. rx'[c].used
        BY <2>2, <4>1, <4>2 DEF Context
      <4>4. Receiving' = Receiving
        BY <2>2, <4>1, <4>3 DEF Receiving
      <4>. QED BY <1>2, <1>7, <1>8, <2>3, <3>4, <4>4 DEF Counted
    <3>. QED BY <3>2, <3>3, <3>4
  <2>. QED BY <2>1, <2>4, <2>5
<1>. QED BY <1>2, <1>10, <1>11, <1>12

LEMMA StepCounted ==
  TypeInv /\ TypeInv' /\ HeadersFirst /\ Counted /\ [Next]_vars => HeadersFirst' /\ Counted'
<1>. SUFFICES ASSUME TypeInv, TypeInv', HeadersFirst, Counted, [Next]_vars
              PROVE  HeadersFirst' /\ Counted'
  OBVIOUS
<1>1. ASSUME NEW s \in Sender, NEW stream \in Stream, NEW len \in Lens,
             NEW zero \in FirstZero, SendLongMessage(s, stream, len, zero)
      PROVE  HeadersFirst' /\ Counted'
  BY <1>1, SendCounted
<1>2. ASSUME NEW s \in Sender, SendFragment(s) PROVE HeadersFirst' /\ Counted'
  BY <1>2, FragmentCounted
<1>3. CASE UNCHANGED <<sent, bus, rx, handed, refused, faults>>
  BY <1>3 DEF HeadersFirst, Counted, Expected, Receiving, HeaderIds
<1>4. ASSUME NEW s \in Sender, Skip(s) PROVE HeadersFirst' /\ Counted'
  BY <1>3, <1>4 DEF Skip, receiving
<1>5. ASSUME NEW s \in Sender, Restart(s) PROVE HeadersFirst' /\ Counted'
  <2>1. UNCHANGED <<sent, bus, rx, handed, refused>> /\ faults' = faults + 1
    BY <1>5 DEF Restart, receiving
  <2>2. /\ HeadersFirst' /\ Expected' = Expected /\ Receiving' = Receiving
        /\ HeaderIds' = HeaderIds
    BY <2>1 DEF HeadersFirst, Expected, Receiving, HeaderIds
  <2>. DEFINE e == Cardinality(Expected)
              r == Cardinality(refused)
              h == Len(handed)
              a == Cardinality(Receiving)
              b == Cardinality(HeaderIds)
  <2>3. e \in Nat /\ faults \in Nat /\ r \in Nat /\ h \in Nat /\ a \in Nat /\ b \in Nat
    BY FiniteSets, Zenon
  <2>4. faults' = faults + 1 /\ e' = e /\ r' = r /\ h' = h /\ a' = a /\ b' = b
    BY <2>1, <2>2
  <2>5. e <= faults + r + h + a + b
    BY DEF Counted
  <2>6. Counted' <=> e' <= faults' + r' + h' + a' + b'
    BY DEF Counted
  <2>. HIDE DEF e, r, h, a, b
  <2>7. e' <= faults' + r' + h' + a' + b'
    BY <2>3, <2>4, <2>5, SMT
  <2>. QED BY <2>2, <2>6, <2>7
<1>6. CASE Receive
  BY <1>6, ReceiveCounted
<1>7. ASSUME NEW c \in ReceiveContext, TimeOut(c) PROVE HeadersFirst' /\ Counted'
  <2>1. /\ rx[c].used /\ HandOver(c, rx[c].held, TIMEOUT_ERROR)
        /\ UNCHANGED <<sent, bus, faults>>
    BY <1>7 DEF TimeOut, TimedOut, Receiving, sending
  <2>2. rx[c].held \in Seq(Byte) /\ TIMEOUT_ERROR \in Status
    BY DEF TypeInv, Context, Status
  <2>3. HeaderIds' = HeaderIds /\ refused' = refused
    BY <2>1 DEF HeaderIds, HandOver
  <2>4. HeadersFirst'
    BY <2>1, <2>3 DEF HeadersFirst
  <2>. QED BY <2>1, <2>2, <2>3, <2>4, HandOverCounted
<1>8. CASE UNCHANGED vars
  BY <1>3, <1>8 DEF vars
<1>. QED BY <1>1, <1>2, <1>4, <1>5, <1>6, <1>7, <1>8 DEF Next

LEMMA InitCounted == Init => HeadersFirst /\ Counted
<1>. SUFFICES ASSUME Init PROVE HeadersFirst /\ Counted
  OBVIOUS
<1>1. TypeInv
  BY InitTypes
<1>2. Len(bus) = 0 /\ DOMAIN sent = {}
  BY SMT DEF Init
<1>3. Expected = {}
  BY <1>2 DEF Expected
<1>4. Cardinality(Expected) = 0
  BY <1>3, FS_EmptySet
<1>5. HeadersFirst
  BY <1>2, SMT DEF HeadersFirst
<1>. QED BY <1>1, <1>4, <1>5, FiniteSets, SMT DEF Counted

(* At rest nothing is on its way and no context is in use: what is counted *)
(* is faults, refusals and reports, complete ones and others.              *)
LEMMA AtRest == TypeInv /\ Counted => NothingLostInSilence
<1>. SUFFICES ASSUME TypeInv, Counted, Quiet
              PROVE  Cardinality(Expected) - Cardinality(CompleteCalls)
                       <= faults + Cardinality(refused)
                            + Cardinality(DOMAIN handed \ CompleteCalls)
  BY DEF NothingLostInSilence
<1>. DEFINE Others == DOMAIN handed \ CompleteCalls
<1>1. Receiving = {} /\ HeaderIds = {}
  <2>1. Len(bus) = 0
    BY DEF Quiet
  <2>. QED BY <2>1, SMT DEF Quiet, HeaderIds
<1>2. Cardinality(Receiving) = 0 /\ Cardinality(HeaderIds) = 0
  BY <1>1, FS_EmptySet
<1>3. DOMAIN handed = 1 .. Len(handed) /\ Len(handed) \in Nat
  BY LenProperties DEF TypeInv
<1>4. IsFiniteSet(DOMAIN handed) /\ Cardinality(DOMAIN handed) = Len(handed)
  <2>1. IsFiniteSet(1 .. Len(handed)) /\ Cardinality(1 .. Len(handed)) = Len(handed)
    <3>1. /\ IsFiniteSet(1 .. Len(handed))
          /\ Cardinality(1 .. Len(handed)) =
               IF 1 > Len(handed) THEN 0 ELSE (Len(handed) - 1) + 1
      BY <1>3, FS_Interval
    <3>. QED BY <1>3, <3>1, SMT
  <2>. QED BY <1>3, <2>1
<1>5. CompleteCalls \in SUBSET DOMAIN handed
  BY DEF CompleteCalls
<1>6. IsFiniteSet(CompleteCalls)
  BY <1>4, <1>5, FS_Subset
<1>7. /\ IsFiniteSet(Others)
      /\ Cardinality(Others) = Cardinality(DOMAIN handed) - Cardinality(DOMAIN handed \cap CompleteCalls)
  BY <1>4, FS_Difference
<1>8. DOMAIN handed \cap CompleteCalls = CompleteCalls
  BY <1>5
<1>9. Cardinality(CompleteCalls) \in Nat /\ Cardinality(Others) \in Nat
  BY <1>6, <1>7, FS_CardinalityType
<1>10. Cardinality(Others) = Len(handed) - Cardinality(CompleteCalls)
  BY <1>4, <1>7, <1>8
<1>. HIDE DEF Others
<1>11. Cardinality(Expected) - Cardinality(CompleteCalls)
         <= (faults + Cardinality(refused)) + Cardinality(Others)
  BY <1>2, <1>3, <1>9, <1>10, FiniteSets, SMT DEF Counted
<1>. QED BY <1>11 DEF Others

(* Nothing is lost in silence: when everything is at rest, the messages on *)
(* subscribed streams that were not reported complete are at most as many  *)
(* as there were lost frames, restarts, headers that found every context   *)
(* in use, and reports of errors.  This holds whatever the CRC settings,   *)
(* and also when streams are shared and when numbers wrap.                 *)
THEOREM NothingIsLostInSilence == Spec => []NothingLostInSilence
<1>. DEFINE Inv == TypeInv /\ HeadersFirst /\ Counted
<1>1. Init => Inv
  BY InitTypes, InitCounted
<1>2. Inv /\ [Next]_vars => Inv'
  <2>1. TypeInv /\ [Next]_vars => TypeInv'
    BY StepTypes
  <2>. QED BY <2>1, StepCounted
<1>3. Inv => NothingLostInSilence
  BY AtRest
<1>. HIDE DEF Inv
<1>. QED BY <1>1, <1>2, <1>3, PTL DEF Spec
=============================================================================
