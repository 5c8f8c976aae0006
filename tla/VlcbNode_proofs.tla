-------------------------- MODULE VlcbNode_proofs --------------------------
(***************************************************************************)
(* Proofs about VlcbNode, for every queue size, byte width, set of frames  *)
(* and bound that NodeAssumption allows.                                   *)
(***************************************************************************)
EXTENDS VlcbNode, SequenceTheorems, TLAPS

-----------------------------------------------------------------------------
(* Bytes of a node number.                                                 *)

LEMMA SplitBytes ==
  ASSUME NEW n \in NodeNumber
  PROVE  /\ n \div Radix \in 0 .. Radix - 1
         /\ n % Radix \in 0 .. Radix - 1
         /\ (n \div Radix) * Radix + (n % Radix) = n
<1>. DEFINE q == n \div Radix
            r == n % Radix
<1>1. Radix \in Nat /\ Radix > 1
  BY NodeAssumption, SMT
<1>2. n \in Nat
  BY <1>1, SMT DEF NodeNumber
<1>3. q * Radix + r = n /\ r \in 0 .. Radix - 1 /\ q \in Nat
  BY <1>1, <1>2, SMT
<1>4. n < Radix * Radix
  BY <1>1, SMT DEF NodeNumber
<1>. HIDE DEF q, r
<1>5. q < Radix
  <2>1. SUFFICES ASSUME q >= Radix PROVE FALSE
    BY <1>1, <1>3, SMT
  <2>2. q * Radix >= Radix * Radix
    BY <1>1, <1>3, <2>1, SMT
  <2>. QED BY <1>1, <1>3, <1>4, <2>2, SMT
<1>6. q \in 0 .. Radix - 1
  BY <1>1, <1>3, <1>5, SMT
<1>. QED BY <1>3, <1>6 DEF q, r

LEMMA JoinBytes ==
  ASSUME NEW h \in 0 .. Radix - 1, NEW l \in 0 .. Radix - 1
  PROVE  h * Radix + l \in NodeNumber
<1>. DEFINE a == h * Radix
            b == Radix * Radix
            c == (Radix - 1) * Radix
<1>1. Radix \in Nat /\ Radix > 1
  BY NodeAssumption, SMT
<1>2. a <= c /\ c = b - Radix /\ a \in Nat /\ b \in Nat
  BY <1>1, SMT
<1>. HIDE DEF a, b, c
<1>3. a + l \in 0 .. b - 1
  BY <1>1, <1>2, SMT
<1>. QED BY <1>3 DEF a, b, NodeNumber

LEMMA ZeroIsNumber == 0 \in NodeNumber /\ 0 \in 0 .. Radix - 1
<1>1. Radix \in Nat /\ Radix > 1
  BY NodeAssumption, SMT
<1>2. 0 \in 0 .. Radix - 1
  BY <1>1, SMT
<1>3. 0 * Radix + 0 = 0
  BY <1>1, SMT
<1>. QED BY <1>2, <1>3, JoinBytes
-----------------------------------------------------------------------------
(* The action queue.                                                       *)

(* Whatever is put on the queue, it keeps its type and its bound.          *)
LEMMA PutAllType ==
  ASSUME NEW q \in Seq(Action), NEW s \in Seq(Action)
  PROVE  PutAll(q, s) \in Seq(Action) /\ Len(PutAll(q, s)) <= QueueSize
<1>. DEFINE all == q \o s
            cut == SubSeq(all, Len(all) - QueueSize + 1, Len(all))
<1>1. all \in Seq(Action)
  BY ConcatProperties
<1>. HIDE DEF all
<1>2. QueueSize \in Nat /\ QueueSize > 0 /\ Len(all) \in Nat
  BY <1>1, NodeAssumption, LenProperties, SMT
<1>3. CASE Len(all) <= QueueSize
  BY <1>1, <1>3 DEF PutAll, all
<1>4. CASE ~(Len(all) <= QueueSize)
  <2>. DEFINE m == Len(all) - QueueSize + 1
              n == Len(all)
  <2>1. m \in Int /\ n \in Int /\ m <= n /\ n - m + 1 = QueueSize
    BY <1>2, <1>4, SMT
  <2>2. \A i \in m .. n : all[i] \in Action
    BY <1>1, <1>2, <1>4, ElementOfSeq, SMT
  <2>. HIDE DEF m, n
  <2>3. SubSeq(all, m, n) \in Seq(Action) /\ Len(SubSeq(all, m, n)) = QueueSize
    BY <2>1, <2>2, SubSeqProperties
  <2>4. PutAll(q, s) = SubSeq(all, m, n)
    BY <1>4 DEF PutAll, all, m, n
  <2>. QED BY <1>2, <2>3, <2>4, SMT
<1>. QED BY <1>3, <1>4

LEMMA PutsType ==
  ASSUME NEW q \in Seq(Action), NEW s \in Seq(Action), overflowed \in BOOLEAN,
         Puts(q, s)
  PROVE  QueueType'
BY PutAllType DEF Puts, QueueType

LEMMA AnswerType ==
  ASSUME QueueType, queue # <<>>, NEW s \in Seq(Action), Answer(s)
  PROVE  QueueType'
<1>1. Tail(queue) \in Seq(Action)
  BY HeadTailProperties DEF QueueType
<1>. QED BY <1>1, PutsType DEF Answer, QueueType

LEMMA Actions ==
  /\ \A t \in PlainAct : Plain(t) \in Action
  /\ Activity \in Action /\ Work \in Action
  /\ \A m \in Mode : Indicate(m) \in Action
  /\ \A opc \in OutOpc, nn \in NodeNumber : Out(opc, nn) \in Action
  /\ \A f \in Frames : In(f) \in Action
<1>1. \A t \in PlainAct : Plain(t) \in Action
  BY DEF Plain, Action
<1>2. Activity \in Action /\ Work \in Action
  BY <1>1 DEF Activity, Work, PlainAct
<1>3. \A m \in Mode : Indicate(m) \in Action
  BY DEF Indicate, Action
<1>4. \A opc \in OutOpc, nn \in NodeNumber : Out(opc, nn) \in Action
  BY DEF Out, Action
<1>5. \A f \in Frames : In(f) \in Action
  BY DEF In, Action
<1>. QED BY <1>1, <1>2, <1>3, <1>4, <1>5

(* What a dispatched action carries.                                       *)
LEMMA Dispatched ==
  ASSUME QueueType, NEW t, Dispatching(t)
  PROVE  /\ queue # <<>>
         /\ t = "INDICATE_MODE" => Head(queue).mode \in Mode
         /\ t = "MESSAGE_OUT" => Head(queue).opc \in OutOpc /\ Head(queue).nn \in NodeNumber
         /\ t = "MESSAGE_IN" => msg \in Frames /\ msg \in Frame
<1>1. queue # <<>> /\ Head(queue).type = t
  BY DEF Dispatching
<1>2. Head(queue) \in Action
  BY <1>1, HeadTailProperties DEF QueueType
<1>. QED BY <1>1, <1>2, NodeAssumption DEF Action, msg, PlainAct
-----------------------------------------------------------------------------
(* The storage and the writes that handlers leave for it.                  *)

LEMMA Scripts ==
  /\ SetUninitialisedScript \in Seq(Write)
  /\ ResetScript \in Seq(Write)
  /\ \A n \in NodeNumber : SetNormalScript(n) \in Seq(Write)
  /\ \A b \in BOOLEAN : << [heartbeat |-> b] >> \in Seq(Write)
  /\ << [data |-> "own"] >> \in Seq(Write)
<1>1. \A n \in NodeNumber : WriteNodeNum(n) \in Seq(Write)
  <2>. SUFFICES ASSUME NEW n \in NodeNumber PROVE WriteNodeNum(n) \in Seq(Write)
    OBVIOUS
  <2>. DEFINE h == n \div Radix
              l == n % Radix
  <2>1. h \in 0 .. Radix - 1 /\ l \in 0 .. Radix - 1
    BY SplitBytes
  <2>. HIDE DEF h, l
  <2>2. [nnHigh |-> h] \in Write /\ [nnLow |-> l] \in Write
    BY <2>1 DEF Write
  <2>. QED BY <2>2 DEF WriteNodeNum, h, l
<1>2. WriteNodeNum(0) \in Seq(Write)
  BY <1>1, ZeroIsNumber
<1>3. /\ \A m \in {UNINITIALISED, NORMAL} : [mode |-> m] \in Write
      /\ \A b \in BOOLEAN : [heartbeat |-> b] \in Write
      /\ \A d \in {"erased", "own"} : [data |-> d] \in Write
  BY DEF Write
<1>4. SetUninitialisedScript \in Seq(Write)
  BY <1>2, <1>3, ConcatProperties DEF SetUninitialisedScript
<1>5. ResetScript \in Seq(Write)
  <2>1. /\ << [data |-> "erased"], [mode |-> UNINITIALISED] >> \in Seq(Write)
        /\ << [heartbeat |-> FALSE], [data |-> "erased"] >> \in Seq(Write)
    <3>1. /\ [data |-> "erased"] \in Write /\ [heartbeat |-> FALSE] \in Write
          /\ [mode |-> UNINITIALISED] \in Write
      BY <1>3
    <3>. QED BY <3>1
  <2>. QED BY <1>2, <2>1, ConcatProperties DEF ResetScript
<1>6. ASSUME NEW n \in NodeNumber PROVE SetNormalScript(n) \in Seq(Write)
  BY <1>1, <1>3, ConcatProperties DEF SetNormalScript
<1>. QED BY <1>3, <1>4, <1>5, <1>6

LEMMA WrittenType ==
  ASSUME NEW s \in Stores, NEW w \in Write
  PROVE  Written(s, w) \in Stores
BY DEF Written, Stores, Write, UNINITIALISED, NORMAL

LEMMA StoredNumberType == store \in Stores => StoredNumber \in NodeNumber
BY JoinBytes DEF Stores, StoredNumber
-----------------------------------------------------------------------------
(* What a step may do to the identity of the node, in RAM and in storage.  *)

Quiet       == /\ power' \in {power, "starting"}
               /\ UNCHANGED <<mns, config, disk>>
EntersSetup == /\ instantMode' = SETUP /\ pfNormal' = FALSE
               /\ UNCHANGED <<power, noHeartbeat, currentMode, nodeNum, heartbeat, disk>>
LeavesSetup == /\ instantMode' = currentMode /\ pfNormal' = (currentMode = NORMAL)
               /\ UNCHANGED <<power, noHeartbeat, currentMode, nodeNum, heartbeat, disk>>
Forgets     == /\ instantMode' = UNINITIALISED /\ currentMode' = UNINITIALISED
               /\ nodeNum' = 0 /\ pfNormal' = FALSE
               /\ Running /\ pending = <<>> /\ pending' = SetUninitialisedScript
               /\ UNCHANGED <<power, noHeartbeat, heartbeat, store>>
Numbered(n) == /\ Received("SNN") /\ n = msg.nn
               /\ instantMode' = NORMAL /\ currentMode' = NORMAL
               /\ nodeNum' = n /\ pfNormal' = TRUE
               /\ pending = <<>> /\ pending' = SetNormalScript(n)
               /\ UNCHANGED <<power, noHeartbeat, heartbeat, store>>
Beats       == /\ heartbeat' \in BOOLEAN /\ noHeartbeat' = ~heartbeat'
               /\ Running /\ pending = <<>> /\ pending' = << [heartbeat |-> heartbeat'] >>
               /\ UNCHANGED <<power, instantMode, currentMode, nodeNum, pfNormal, store>>
Learns      == /\ Running /\ pending = <<>> /\ pending' = << [data |-> "own"] >>
               /\ UNCHANGED <<power, mns, config, store>>
Resets      == /\ power' \in {"reset", "starting"}
               /\ pending = <<>> /\ pending' = ResetScript
               /\ UNCHANGED <<mns, config, store>>

Effect ==
  \/ Quiet \/ EntersSetup \/ LeavesSetup \/ Forgets
  \/ \E n \in NodeNumber : Numbered(n)
  \/ Beats \/ Learns \/ Resets \/ Boot \/ WriteByte \/ PowerLoss

(* Every step of the node has one of these effects.                        *)
LEMMA Effects == TypeOK /\ Next => Effect
<1>. SUFFICES ASSUME TypeOK, Next PROVE Effect
  OBVIOUS
<1>. USE DEF mns, config, disk
<1>1. CASE Boot \/ WriteByte \/ PowerLoss
  BY <1>1 DEF Effect
<1>2. CASE ResetAtBoot
  BY <1>2 DEF ResetAtBoot, Resets, Effect
<1>3. ASSUME NEW b, NEW a, InitSetup(b, a), UNCHANGED power PROVE Effect
  BY <1>3 DEF InitSetup, EntersSetup, Effect
<1>4. ASSUME NEW a, LeaveSetup(a), UNCHANGED power PROVE Effect
  BY <1>4 DEF LeaveSetup, LeavesSetup, Effect
<1>5. ASSUME NEW b, NEW a, SetUninitialised(b, a), Running, UNCHANGED power
      PROVE  Effect
  BY <1>5 DEF SetUninitialised, Forgets, Effect, Running
<1>6. ASSUME NEW s, JustAnswer(s), power' \in {power, "starting"} PROVE Effect
  BY <1>6 DEF JustAnswer, Quiet, Effect
<1>7. CASE Idle \/ MessageOut \/ IndicateMode \/ IndicateOther
  BY <1>7, <1>6 DEF Idle, MessageOut, IndicateMode, IndicateOther, IndicatePulse,
              StartEnumeration, JustAnswer, Quiet, Effect
<1>8. CASE ChangeMode
  BY <1>8, <1>3, <1>5 DEF ChangeMode, Dispatching
<1>9. CASE Renegotiate
  BY <1>9, <1>3, <1>4, <1>6 DEF Renegotiate
<1>10. CASE HandleSNN
  <2>1. msg.nn \in NodeNumber /\ pending = <<>>
    BY <1>10, Dispatched DEF HandleSNN, Received, TypeOK, Frame, Dispatching, Running
  <2>2. CASE instantMode = SETUP /\ ~msg.short
    <3>1. Numbered(msg.nn)
      BY <1>10, <2>1, <2>2 DEF HandleSNN, Numbered
    <3>. QED BY <2>1, <3>1 DEF Effect
  <2>3. CASE ~(instantMode = SETUP /\ ~msg.short)
    BY <1>10, <2>3, <1>6 DEF HandleSNN
  <2>. QED BY <2>2, <2>3
<1>11. CASE HandleRQNN
  BY <1>11, <1>4, <1>6 DEF HandleRQNN
<1>12. CASE HandleMODE
  <2>1. Running /\ pending = <<>>
    BY <1>12 DEF HandleMODE, Received, Dispatching, Running
  <2>2. CASE Beats
    BY <2>2 DEF Effect
  <2>3. CASE ~Beats
    BY <1>12, <2>1, <2>3, <1>3, <1>5, <1>6 DEF HandleMODE, Beats
  <2>. QED BY <2>2, <2>3
<1>13. CASE HandleNNRSM
  BY <1>13, <1>6 DEF HandleNNRSM, Received, Dispatching, Running, Resets, Effect
<1>14. CASE HandleNNRST
  BY <1>14, <1>6 DEF HandleNNRST
<1>15. CASE HandleQuery
  BY <1>15, <1>6 DEF HandleQuery
<1>16. CASE HandleNVSET
  BY <1>16, <1>6 DEF HandleNVSET, Received, Dispatching, Running, Learns, Effect
<1>17. CASE MnsProcess \/ UiProcess \/ CanProcess
  BY <1>17 DEF MnsProcess, UiProcess, StillHeld, CanProcess, Quiet, Effect
<1>. QED BY <1>1, <1>2, <1>7, <1>8, <1>9, <1>10, <1>11, <1>12, <1>13, <1>14, <1>15,
            <1>16, <1>17 DEF Next, Loop, Dispatch, HandleMessage
-----------------------------------------------------------------------------
(* Types.                                                                  *)

LEMMA RamAndDiskType == TypeOK /\ Next => RamType' /\ DiskType'
<1>. SUFFICES ASSUME TypeOK, Next PROVE RamType' /\ DiskType'
  OBVIOUS
<1>. USE DEF TypeOK, RamType, DiskType, Mode, mns, config, disk
<1>1. CASE Quiet
  BY <1>1 DEF Quiet
<1>2. CASE EntersSetup
  BY <1>2 DEF EntersSetup
<1>3. CASE LeavesSetup
  BY <1>3 DEF LeavesSetup
<1>4. CASE Forgets
  BY <1>4, Scripts, ZeroIsNumber DEF Forgets
<1>5. ASSUME NEW n \in NodeNumber, Numbered(n) PROVE RamType' /\ DiskType'
  BY <1>5, Scripts DEF Numbered
<1>6. CASE Beats
  BY <1>6, Scripts DEF Beats
<1>7. CASE Learns
  BY <1>7, Scripts DEF Learns
<1>8. CASE Resets
  BY <1>8, Scripts DEF Resets
<1>9. CASE Boot
  <2>1. StoredNumber \in NodeNumber
    BY StoredNumberType
  <2>2. store.mode \in {UNINITIALISED, NORMAL} /\ store.heartbeat \in BOOLEAN
    BY DEF Stores
  <2>. QED BY <1>9, <2>1, <2>2 DEF Boot
<1>10. CASE WriteByte
  <2>1. Head(pending) \in Write /\ Tail(pending) \in Seq(Write)
    BY <1>10, HeadTailProperties DEF WriteByte
  <2>2. Written(store, Head(pending)) \in Stores
    BY <2>1, WrittenType
  <2>. QED BY <1>10, <2>1, <2>2 DEF WriteByte
<1>11. CASE PowerLoss
  BY <1>11 DEF PowerLoss
<1>. QED BY <1>1, <1>2, <1>3, <1>4, <1>5, <1>6, <1>7, <1>8, <1>9, <1>10, <1>11,
            Effects DEF Effect

LEMMA EnvStep == TypeOK /\ Next => EnvType'
<1>. SUFFICES ASSUME TypeOK, Next PROVE EnvType'
  OBVIOUS
<1>. USE NodeAssumption DEF TypeOK, EnvType, env
<1>1. CASE Boot \/ WriteByte
  BY <1>1 DEF Boot, WriteByte
<1>2. CASE ResetAtBoot
  BY <1>2, SMT DEF ResetAtBoot
<1>3. CASE PowerLoss
  BY <1>3, SMT DEF PowerLoss
<1>4. CASE Dispatch
  BY <1>4 DEF Dispatch, HandleMessage, Idle, ChangeMode, Renegotiate, IndicateMode,
              IndicateOther, IndicatePulse, StartEnumeration, MessageOut, HandleSNN, HandleRQNN, HandleMODE, HandleNNRSM,
              HandleNNRST, HandleQuery, HandleNVSET
<1>5. ASSUME Input, UNCHANGED powerLosses PROVE EnvType'
  BY <1>5, SMT DEF Input
<1>6. CASE MnsProcess
  BY <1>6, <1>5 DEF MnsProcess, NoInput
<1>7. CASE UiProcess
  BY <1>7, <1>5 DEF UiProcess, NoInput
<1>8. CASE CanProcess
  <2>1. sinceInput < InputGap => sinceInput + 1 \in 0 .. InputGap
    BY SMT
  <2>. QED BY <1>8, <2>1, <1>5 DEF CanProcess
<1>. QED BY <1>1, <1>2, <1>3, <1>4, <1>6, <1>7, <1>8 DEF Next, Loop

(* What a step may do to the queue and to the numbers announced.           *)
Contains(s, a) == \E i \in DOMAIN s : s[i] = a

GivesUp(s, n) == Contains(s, Out("NNREL", n)) \/ Contains(s, Out("RQNN", n))

(* A handler that enters Setup, or drops the number outside Setup, answers *)
(* with the message that gives it up.                                      *)
Speaks(s) ==
  /\ nodeNum # 0 /\ instantMode # SETUP
  /\ instantMode' = SETUP \/ nodeNum' # nodeNum
  => GivesUp(s, nodeNum)

(* A number ceases to be announced when it is the node's once more.        *)
Hears ==
  \/ UNCHANGED announced
  \/ instantMode' # SETUP /\ announced' = announced \ {nodeNum'}

Sends ==
  Head(queue).type = "MESSAGE_OUT" =>
    announced' = IF Head(queue).opc \in {"NNREL", "RQNN"}
                 THEN announced \cup {Head(queue).nn} ELSE announced

QueueEffect ==
  \/ UNCHANGED <<queue, overflowed, announced, nodeNum, instantMode>>
  \/ /\ power # "on" \/ power' # "on"
     /\ UNCHANGED announced
     /\ QueueType' /\ (power' = "on" => instantMode' # SETUP)
  \/ /\ \E s \in Seq(Action) : Puts(queue, s)
     /\ UNCHANGED <<announced, nodeNum, instantMode>>
  \/ /\ queue # <<>>
     /\ \E s \in Seq(Action) : Answer(s) /\ Speaks(s)
     /\ Hears \/ Head(queue).type = "MESSAGE_OUT"
     /\ Sends

LEMMA ContainsConcat ==
  ASSUME NEW s \in Seq(Action), NEW t \in Seq(Action), NEW a
  PROVE  Contains(s \o t, a) <=> Contains(s, a) \/ Contains(t, a)
<1>. DEFINE r == s \o t
<1>1. /\ DOMAIN s = 1 .. Len(s) /\ DOMAIN t = 1 .. Len(t) /\ DOMAIN r = 1 .. Len(s) + Len(t)
      /\ Len(s) \in Nat /\ Len(t) \in Nat
      /\ \A i \in 1 .. Len(s) + Len(t) : r[i] = IF i <= Len(s) THEN s[i] ELSE t[i - Len(s)]
  BY ConcatProperties, LenProperties, SMT
<1>. HIDE DEF r
<1>2. ASSUME NEW i \in DOMAIN s, s[i] = a PROVE Contains(r, a)
  <2>1. i \in DOMAIN r /\ r[i] = a
    BY <1>1, <1>2, SMT
  <2>. QED BY <2>1 DEF Contains
<1>3. ASSUME NEW i \in DOMAIN t, t[i] = a PROVE Contains(r, a)
  <2>. DEFINE k == Len(s) + i
  <2>1. k \in DOMAIN r /\ r[k] = a
    BY <1>1, <1>3, SMT
  <2>. HIDE DEF k
  <2>. QED BY <2>1 DEF Contains
<1>4. ASSUME NEW i \in DOMAIN r, r[i] = a PROVE Contains(s, a) \/ Contains(t, a)
  <2>1. CASE i <= Len(s)
    <3>1. i \in DOMAIN s /\ s[i] = a
      BY <1>1, <1>4, <2>1, SMT
    <3>. QED BY <3>1 DEF Contains
  <2>2. CASE ~(i <= Len(s))
    <3>. DEFINE k == i - Len(s)
    <3>1. k \in DOMAIN t /\ t[k] = a
      BY <1>1, <1>4, <2>2, SMT
    <3>. HIDE DEF k
    <3>. QED BY <3>1 DEF Contains
  <2>. QED BY <2>1, <2>2
<1>. QED BY <1>2, <1>3, <1>4 DEF Contains, r

(* Every handler answers with well-formed actions, among which are those   *)
(* that give a number up.                                                  *)
LEMMA QueueEffects == TypeOK /\ Next => QueueEffect
<1>. SUFFICES ASSUME TypeOK, Next PROVE QueueEffect
  OBVIOUS
<1>1. /\ queue \in Seq(Action) /\ QueueType /\ RamType /\ overflowed \in BOOLEAN
      /\ nodeNum \in NodeNumber /\ currentMode \in Mode
  BY DEF TypeOK, QueueType, RamType, Mode
<1>2. QueueSize \in Nat /\ QueueSize > 0
  BY NodeAssumption, SMT
<1>3. /\ \A t \in PlainAct : << Plain(t) >> \in Seq(Action)
      /\ \A m \in Mode : << Indicate(m) >> \in Seq(Action)
      /\ \A opc \in OutOpc, nn \in NodeNumber : << Out(opc, nn) >> \in Seq(Action)
      /\ << Work >> \in Seq(Action) /\ << Activity >> \in Seq(Action)
      /\ <<>> \in Seq(Action)
  BY Actions
<1>4. \A s, t \in Seq(Action) : s \o t \in Seq(Action)
  BY ConcatProperties
<1>5. Release \in Seq(Action)
  BY <1>1, <1>3 DEF Release, OutOpc
<1>6. UNCHANGED <<queue, overflowed, announced, nodeNum, instantMode>> => QueueEffect
  BY DEF QueueEffect
<1>7. ASSUME NEW t, Dispatching(t), t # "MESSAGE_OUT", NEW s \in Seq(Action), Answer(s),
             Speaks(s), Hears
      PROVE  QueueEffect
  <2>1. queue # <<>> /\ Head(queue).type # "MESSAGE_OUT"
    BY <1>7 DEF Dispatching
  <2>. QED BY <1>7, <2>1 DEF QueueEffect, Sends
<1>8. CASE Boot
  <2>1. currentMode' \in Mode
    BY <1>8, RamAndDiskType DEF RamType, Mode
  <2>. HIDE DEF Mode
  <2>2. queue' \in Seq(Action) /\ Len(queue') = 1 /\ overflowed' = FALSE
    <3>. DEFINE a == Indicate(currentMode')
    <3>1. a \in Action
      BY <2>1, Actions
    <3>. HIDE DEF a
    <3>2. << a >> \in Seq(Action) /\ Len(<< a >>) = 1
      BY <3>1
    <3>. QED BY <1>8, <3>2 DEF Boot, a
  <2>3. Len(queue') <= QueueSize
    BY <1>2, <2>2, SMT
  <2>4. power # "on" /\ announced' = announced /\ instantMode' # SETUP
    BY <1>8 DEF Boot, TypeOK, DiskType, Stores, UNINITIALISED, SETUP, NORMAL
  <2>. QED BY <2>2, <2>3, <2>4 DEF QueueEffect, QueueType
<1>9. CASE ResetAtBoot \/ WriteByte
  BY <1>9, <1>6 DEF ResetAtBoot, WriteByte, mns, config
<1>10. CASE PowerLoss
  <2>1. queue' = <<>> /\ overflowed' = FALSE
    BY <1>10 DEF PowerLoss
  <2>2. queue' \in Seq(Action) /\ Len(queue') <= QueueSize
    BY <1>2, <2>1, SMT
  <2>. QED BY <1>10, <2>1, <2>2 DEF PowerLoss, QueueEffect, QueueType
<1>11. ASSUME NEW t, Dispatching(t), t # "MESSAGE_OUT",
              NEW b \in Seq(Action), NEW a \in Seq(Action), InitSetup(b, a)
       PROVE  QueueEffect
  <2>. DEFINE r == Out("RQNN", nodeNum)
              both == <<Indicate(SETUP), r>>
  <2>1. both \in Seq(Action)
    <3>1. Indicate(SETUP) \in Action /\ r \in Action
      BY <1>1, Actions DEF Mode, OutOpc
    <3>. QED BY <3>1
  <2>2. Contains(both, r)
    BY SMT DEF Contains
  <2>3. Answer(b \o both \o a) /\ UNCHANGED <<nodeNum, announced>>
    BY <1>11 DEF InitSetup
  <2>. HIDE DEF both
  <2>4. b \o both \in Seq(Action) /\ b \o both \o a \in Seq(Action)
    BY <2>1, <1>4
  <2>5. Contains(b \o both \o a, r)
    BY <1>11, <2>1, <2>2, <2>4, ContainsConcat
  <2>. QED BY <1>7, <1>11, <2>3, <2>4, <2>5 DEF Speaks, GivesUp, Hears
<1>12. ASSUME NEW t, Dispatching(t), t # "MESSAGE_OUT", instantMode # UNINITIALISED,
              NEW b \in Seq(Action), NEW a \in Seq(Action), SetUninitialised(b, a)
       PROVE  QueueEffect
  <2>. DEFINE r == Out("NNREL", nodeNum)
              first == b \o Release
              rest == << Indicate(UNINITIALISED) >>
  <2>1. rest \in Seq(Action)
    BY <1>3 DEF Mode
  <2>2. nodeNum # 0 /\ instantMode # SETUP => Contains(Release, r)
    <3>1. Contains(<< r >>, r)
      BY SMT DEF Contains
    <3>2. ASSUME nodeNum # 0, instantMode # SETUP PROVE Release = << r >>
      BY <1>12, <3>2 DEF Release, TypeOK, RamType, Mode
    <3>. QED BY <3>1, <3>2
  <2>3. Answer(first \o rest \o a) /\ UNCHANGED announced /\ instantMode' # SETUP
    BY <1>12 DEF SetUninitialised, UNINITIALISED, SETUP
  <2>4. first \in Seq(Action)
    BY <1>4, <1>5, <1>12
  <2>5. Contains(Release, r) => Contains(first, r)
    BY <1>5, <1>12, ContainsConcat
  <2>. HIDE DEF first, rest, r
  <2>6. first \o rest \in Seq(Action) /\ first \o rest \o a \in Seq(Action)
    BY <1>4, <1>12, <2>1, <2>4
  <2>7. Contains(first, r) => Contains(first \o rest \o a, r)
    BY <1>12, <2>1, <2>4, <2>6, ContainsConcat
  <2>. QED BY <1>7, <1>12, <2>2, <2>3, <2>5, <2>6, <2>7 DEF Speaks, GivesUp, Hears, r
<1>13. ASSUME NEW t, Dispatching(t), t # "MESSAGE_OUT", NEW a \in Seq(Action), LeaveSetup(a)
       PROVE  QueueEffect
  <2>1. << Indicate(currentMode) >> \o a \in Seq(Action)
    BY <1>1, <1>3, <1>4, <1>13
  <2>2. instantMode' # SETUP /\ announced' = announced \ {nodeNum} /\ nodeNum' = nodeNum
    BY <1>13 DEF LeaveSetup, TypeOK, RamType, UNINITIALISED, SETUP, NORMAL
  <2>. QED BY <1>7, <1>13, <2>1, <2>2 DEF LeaveSetup, Speaks, Hears
<1>14. ASSUME NEW t, Dispatching(t), t # "MESSAGE_OUT", NEW s \in Seq(Action), JustAnswer(s)
       PROVE  QueueEffect
  BY <1>7, <1>14 DEF JustAnswer, Speaks, Hears, mns, config
<1>15. CASE Idle
  BY <1>6, <1>15 DEF Idle, mns, config
<1>16. CASE ChangeMode
  <2>1. << Plain("START_CAN_ENUMERATION") >> \in Seq(Action)
    BY <1>3 DEF PlainAct
  <2>. QED BY <1>3, <1>11, <1>12, <1>16, <2>1 DEF ChangeMode
<1>17. CASE Renegotiate
  <2>1. << Out("NNACK", nodeNum) >> \in Seq(Action)
    BY <1>1, <1>3 DEF OutOpc
  <2>. QED BY <1>3, <1>11, <1>13, <1>14, <1>17, <2>1 DEF Renegotiate
<1>18. CASE IndicateMode \/ IndicateOther
  BY <1>3, <1>14, <1>18 DEF IndicateMode, IndicateOther, IndicatePulse, StartEnumeration
<1>19. CASE MessageOut
  <2>1. << Activity >> \in Seq(Action) /\ queue # <<>> /\ Speaks(<< Activity >>)
    BY <1>3, <1>19 DEF MessageOut, Dispatching, Speaks, mns, config
  <2>. QED BY <1>19, <2>1 DEF MessageOut, Dispatching, Sends, QueueEffect
<1>20. CASE HandleMessage
  <2>. DEFINE Q(s) == s \in Seq(Action)
  <2>1. /\ \A opc \in OutOpc : Q(<< Out(opc, nodeNum) >>)
        /\ Q(<< Work >>) /\ Q(<<>>)
        /\ \A opc \in OutOpc : Q(<< Out(opc, nodeNum), Work >>)
        /\ Q(<< Work, Out("GRSP", nodeNum) >>) /\ Q(<< Work, Out("WRACK", nodeNum) >>)
        /\ Q(<< Work, Out("GRSP", nodeNum), Out("CMDERR", nodeNum) >>)
        /\ Q(<< Out("PARAMS", 0), Work >>) /\ Q(<< Out("NAME", 0), Work >>)
    BY <1>1, Actions, ZeroIsNumber DEF OutOpc
  <2>2. CASE HandleSNN
    <3>1. msg \in Frame /\ msg.nn \in NodeNumber
      BY <2>2, <1>1, Dispatched DEF HandleSNN, Received, Frame
    <3>2. << Indicate(NORMAL), Out("NNACK", msg.nn), Work >> \in Seq(Action)
      <4>1. Indicate(NORMAL) \in Action /\ Out("NNACK", msg.nn) \in Action /\ Work \in Action
        BY <3>1, Actions DEF Mode, OutOpc
      <4>. QED BY <4>1
    <3>. DEFINE s == << Indicate(NORMAL), Out("NNACK", msg.nn), Work >>
    <3>3. ASSUME instantMode = SETUP, Answer(s), announced' = announced \ {nodeNum'},
                 instantMode' = NORMAL
          PROVE  QueueEffect
      BY <2>2, <3>2, <3>3, <1>7 DEF HandleSNN, Received, Speaks, Hears, SETUP, NORMAL
    <3>. HIDE DEF s
    <3>4. CASE instantMode = SETUP /\ ~msg.short
      BY <2>2, <3>3, <3>4 DEF HandleSNN, s
    <3>5. CASE ~(instantMode = SETUP /\ ~msg.short)
      BY <2>1, <2>2, <3>5, <1>14 DEF HandleSNN, Received, OutOpc
    <3>. QED BY <3>4, <3>5
  <2>3. CASE HandleRQNN
    BY <2>1, <2>3, <1>13, <1>14 DEF HandleRQNN, Received
  <2>4. CASE HandleMODE
    <3>. DEFINE grsp == << Out("GRSP", nodeNum) >>
    <3>1. Q(grsp) /\ Q(grsp \o << Work >>) /\ Q(<< Work >>) /\ Q(<<>>)
      BY <2>1, <1>4 DEF OutOpc
    <3>. HIDE DEF grsp
    <3>2. Q(IF instantMode # NORMAL THEN grsp ELSE <<>>)
      BY <3>1
    <3>3. ASSUME Answer(<< Work >>), UNCHANGED <<instantMode, nodeNum, announced>>
          PROVE  QueueEffect
      BY <2>4, <3>1, <3>3, <1>7 DEF HandleMODE, Received, Speaks, Hears
    <3>. QED BY <2>4, <3>1, <3>2, <3>3, <1>11, <1>12, <1>14
             DEF HandleMODE, Received, grsp, UNINITIALISED, SETUP, NORMAL
  <2>5. CASE HandleNNRSM
    <3>1. ASSUME NEW s \in Seq(Action), Answer(s), UNCHANGED <<mns, config, announced>>
          PROVE  QueueEffect
      BY <2>5, <3>1, <1>7 DEF HandleNNRSM, Received, Speaks, Hears, mns, config
    <3>. QED BY <2>1, <2>5, <3>1, <1>14 DEF HandleNNRSM, Received, OutOpc
  <2>6. CASE HandleNNRST
    BY <2>1, <2>6, <1>14 DEF HandleNNRST, Received
  <2>7. CASE HandleQuery
    <3>2. Q(<< Out("CMDERR", nodeNum), Out("GRSP", nodeNum), Work >>)
      <4>1. Out("CMDERR", nodeNum) \in Action /\ Out("GRSP", nodeNum) \in Action
        BY <1>1, Actions DEF OutOpc
      <4>2. Work \in Action
        BY Actions
      <4>. QED BY <4>1, <4>2
    <3>3. /\ Q(IF nodeNum > 0 THEN << Out("PNN", nodeNum), Work >> ELSE <<>>)
          /\ Q(IF instantMode = SETUP THEN << Out("PARAMS", 0), Work >> ELSE <<>>)
          /\ Q(IF instantMode = SETUP THEN << Out("NAME", 0), Work >> ELSE <<>>)
      BY <2>1 DEF OutOpc
    <3>4. Q(<< Out("GRSP", nodeNum), Work >>) /\ Q(<< Out("PARAN", nodeNum), Work >>)
      BY <2>1 DEF OutOpc
    <3>. QED BY <2>1, <2>7, <3>2, <3>3, <3>4, <1>14 DEF HandleQuery, Received
  <2>8. CASE HandleNVSET
    <3>1. ASSUME NEW s \in Seq(Action), Answer(s), UNCHANGED <<mns, config, announced>>
          PROVE  QueueEffect
      BY <2>8, <3>1, <1>7 DEF HandleNVSET, Received, Speaks, Hears, mns, config
    <3>. QED BY <2>1, <2>8, <3>1, <1>14 DEF HandleNVSET, Received
  <2>. QED BY <1>20, <2>2, <2>3, <2>4, <2>5, <2>6, <2>7, <2>8 DEF HandleMessage
<1>21. ASSUME NEW s \in Seq(Action), Puts(queue, s), UNCHANGED <<mns, config, announced>>
       PROVE  QueueEffect
  BY <1>21 DEF QueueEffect, mns, config
<1>22. CASE MnsProcess
  <2>1. << Out("HEARTB", nodeNum) >> \in Seq(Action) /\ << Out("PARAN", nodeNum) >> \in Seq(Action)
    BY <1>1, <1>3 DEF OutOpc
  <2>. QED BY <2>1, <1>6, <1>21, <1>22 DEF MnsProcess, mns, config
<1>23. CASE UiProcess
  <2>1. \A act \in {"START_CAN_ENUMERATION", "RENEGOTIATE", "CHANGE_MODE"} :
          << Plain(act) >> \in Seq(Action)
    BY <1>3 DEF PlainAct
  <2>. QED BY <2>1, <1>6, <1>21, <1>23 DEF UiProcess, StillHeld, mns, config
<1>24. CASE CanProcess
  <2>1. \A f \in Frames : << Activity, In(f) >> \in Seq(Action)
    BY Actions
  <2>2. UNCHANGED <<mns, config, announced>> /\ UNCHANGED <<nodeNum, instantMode>>
    BY <1>24 DEF CanProcess, mns, config
  <2>3. CASE UNCHANGED <<queue, overflowed>>
    BY <1>6, <2>2, <2>3 DEF CanProcess
  <2>4. CASE \E f \in Frames : Puts(queue, <<Activity, In(f)>>)
    BY <1>21, <2>1, <2>2, <2>4
  <2>. QED BY <1>24, <2>3, <2>4 DEF CanProcess
<1>. QED BY <1>8, <1>9, <1>10, <1>15, <1>16, <1>17, <1>18, <1>19, <1>20, <1>22, <1>23,
            <1>24 DEF Next, Loop, Dispatch

LEMMA QueueStep == TypeOK /\ Next => QueueType'
<1>. SUFFICES ASSUME TypeOK, Next PROVE QueueType'
  OBVIOUS
<1>1. QueueType /\ queue \in Seq(Action) /\ overflowed \in BOOLEAN
  BY DEF TypeOK, QueueType
<1>. QED BY <1>1, QueueEffects, PutsType, AnswerType DEF QueueEffect, QueueType

LEMMA BoardStep == TypeOK /\ Next => BoardType'
<1>. SUFFICES ASSUME TypeOK, Next PROVE BoardType'
  OBVIOUS
<1>. USE DEF TypeOK, BoardType, ui
<1>1. CASE Boot \/ ResetAtBoot \/ WriteByte \/ PowerLoss \/ Idle
  BY <1>1 DEF Boot, ResetAtBoot, WriteByte, PowerLoss, Idle
<1>2. CASE ChangeMode \/ Renegotiate
  BY <1>2 DEF ChangeMode, Renegotiate, Dispatching, InitSetup, SetUninitialised,
              LeaveSetup, JustAnswer
<1>3. CASE IndicateMode
  BY <1>3, Dispatched DEF IndicateMode, JustAnswer, Dispatching
<1>4. CASE IndicateOther
  BY <1>4 DEF IndicateOther, IndicatePulse, StartEnumeration, AfterPulse, JustAnswer, Dispatching
<1>5. CASE MessageOut
  BY <1>5, Dispatched DEF MessageOut, Dispatching
<1>6. CASE HandleMessage
  BY <1>6 DEF HandleMessage, Received, Dispatching, HandleSNN, HandleRQNN, HandleMODE,
              HandleNNRSM, HandleNNRST, HandleQuery, HandleNVSET, InitSetup,
              SetUninitialised, LeaveSetup, JustAnswer
<1>7. CASE MnsProcess \/ UiProcess \/ CanProcess
  BY <1>7 DEF MnsProcess, UiProcess, StillHeld, CanProcess, Turn, Mode
<1>. QED BY <1>1, <1>2, <1>3, <1>4, <1>5, <1>6, <1>7 DEF Next, Loop, Dispatch

LEMMA TypeStep == TypeOK /\ [Next]_vars => TypeOK'
<1>1. TypeOK /\ UNCHANGED vars => TypeOK'
  BY DEF TypeOK, QueueType, RamType, DiskType, BoardType, EnvType, vars, mns, config,
         disk, ui, env
<1>. QED BY <1>1, RamAndDiskType, EnvStep, QueueStep, BoardStep DEF TypeOK

LEMMA TypeInit == Init => TypeOK
<1>. SUFFICES ASSUME Init PROVE TypeOK
  OBVIOUS
<1>1. QueueType
  <2>1. queue = <<>> /\ overflowed = FALSE
    BY DEF Init
  <2>2. queue \in Seq(Action) /\ Len(queue) <= QueueSize
    BY <2>1, NodeAssumption, SMT
  <2>. QED BY <2>1, <2>2 DEF QueueType
<1>2. RamType
  BY ZeroIsNumber DEF Init, RamType, Mode
<1>3. DiskType
  <2>1. Radix - 1 \in 0 .. Radix - 1
    BY NodeAssumption, SMT
  <2>2. VirginStore \in Stores
    BY <2>1 DEF VirginStore, Stores
  <2>. QED BY <2>2 DEF Init, DiskType
<1>4. BoardType
  BY DEF Init, BoardType, Mode
<1>5. EnvType
  BY NodeAssumption, SMT DEF Init, EnvType
<1>. QED BY <1>1, <1>2, <1>3, <1>4, <1>5 DEF TypeOK

(* Types, and the bound on the action queue: whatever the handlers put on  *)
(* it, it never holds more than QueueSize actions.                         *)
THEOREM TypeCorrect == Spec => []TypeOK
BY TypeInit, TypeStep, PTL DEF Spec
-----------------------------------------------------------------------------
(* The flag that PNN and PARAN report is the mode the node acts in: each   *)
(* effect on one of them has the same effect on the other, and a restart   *)
(* sets both from storage.                                                 *)
LEMMA FlagStep == TypeOK /\ FlagTracksMode /\ [Next]_vars => FlagTracksMode'
<1>. SUFFICES ASSUME TypeOK, FlagTracksMode, [Next]_vars PROVE FlagTracksMode'
  OBVIOUS
<1>. USE DEF FlagTracksMode, mns, config, UNINITIALISED, SETUP, NORMAL
<1>1. CASE UNCHANGED vars
  BY <1>1 DEF vars
<1>2. CASE Quiet \/ EntersSetup \/ LeavesSetup \/ Forgets
  BY <1>2 DEF Quiet, EntersSetup, LeavesSetup, Forgets
<1>3. ASSUME NEW n \in NodeNumber, Numbered(n) PROVE FlagTracksMode'
  BY <1>3 DEF Numbered
<1>4. CASE Beats \/ Learns \/ Resets
  BY <1>4 DEF Beats, Learns, Resets
<1>5. CASE Boot \/ WriteByte \/ PowerLoss
  BY <1>5 DEF Boot, WriteByte, PowerLoss
<1>. QED BY <1>1, <1>2, <1>3, <1>4, <1>5, Effects DEF Effect

(* The parameter flags report the mode the node acts in, whatever frames,  *)
(* presses and power losses come in whatever order.                        *)
THEOREM FlagCorrect == Spec => []FlagTracksMode
<1>1. Init => FlagTracksMode
  BY DEF Init, FlagTracksMode
<1>. QED BY <1>1, FlagStep, TypeCorrect, PTL DEF Spec
-----------------------------------------------------------------------------
(* What RAM says of the identity is what storage will say once the writes  *)
(* p of the current handler are done: the last write to the cell c, or the *)
(* cell itself when p does not write it.                                   *)
Untouched(p, c) == \A i \in DOMAIN p : c \notin DOMAIN p[i]
LastWrite(p, c, v) ==
  \E i \in DOMAIN p : /\ c \in DOMAIN p[i] /\ p[i][c] = v
                      /\ \A j \in DOMAIN p : j > i => c \notin DOMAIN p[j]
WillHold(s, p, c, v) == LastWrite(p, c, v) \/ (Untouched(p, c) /\ s[c] = v)

IdentityCell == {"mode", "nnHigh", "nnLow", "heartbeat"}

(* Doing the first of the writes leaves the outcome as it was.             *)
LEMMA WriteKeepsOutcome ==
  ASSUME NEW s \in Stores, NEW p \in Seq(Write), p # <<>>, NEW c \in IdentityCell, NEW v,
         WillHold(s, p, c, v)
  PROVE  WillHold(Written(s, Head(p)), Tail(p), c, v)
<1>. DEFINE h == Head(p)
            q == Tail(p)
            t == Written(s, h)
<1>1. /\ h = p[1] /\ 1 \in DOMAIN p /\ h \in Write
      /\ q \in Seq(Write) /\ DOMAIN q = 1 .. Len(p) - 1 /\ DOMAIN p = 1 .. Len(p)
      /\ Len(p) \in Nat
      /\ \A i \in DOMAIN q : q[i] = p[i + 1] /\ i + 1 \in DOMAIN p
  BY HeadTailProperties, LenProperties, SMT
<1>2. t[c] = IF c \in DOMAIN h THEN h[c] ELSE s[c]
  BY <1>1 DEF Written, Stores, Write, IdentityCell
<1>. SUFFICES WillHold(t, q, c, v)
  OBVIOUS
<1>. HIDE DEF h, q, t
<1>3. CASE Untouched(p, c) /\ s[c] = v
  BY <1>1, <1>2, <1>3 DEF Untouched, WillHold
<1>4. CASE LastWrite(p, c, v)
  <2>1. PICK i \in DOMAIN p : /\ c \in DOMAIN p[i] /\ p[i][c] = v
                            /\ \A j \in DOMAIN p : j > i => c \notin DOMAIN p[j]
    BY <1>4 DEF LastWrite
  <2>2. CASE i = 1
    <3>1. t[c] = v
      BY <1>1, <1>2, <2>1, <2>2
    <3>2. Untouched(q, c)
      BY <1>1, <2>1, <2>2, SMT DEF Untouched
    <3>. QED BY <3>1, <3>2 DEF WillHold
  <2>3. CASE i # 1
    <3>1. i - 1 \in DOMAIN q /\ q[i - 1] = p[i]
      BY <1>1, <2>3, SMT
    <3>2. \A j \in DOMAIN q : j > i - 1 => c \notin DOMAIN q[j]
      BY <1>1, <2>1, SMT
    <3>. QED BY <2>1, <3>1, <3>2 DEF WillHold, LastWrite
  <2>. QED BY <2>2, <2>3
<1>. QED BY <1>3, <1>4 DEF WillHold

(* The two bytes will be those of the node number n.                       *)
WillHoldNumber(s, p, n) ==
  \E h, l \in 0 .. Radix - 1 : /\ n = h * Radix + l
                               /\ WillHold(s, p, "nnHigh", h) /\ WillHold(s, p, "nnLow", l)

LEMMA LaterWritesWin ==
  ASSUME NEW p \in Seq(Write), NEW q \in Seq(Write), NEW s, NEW c, NEW v
  PROVE  /\ LastWrite(q, c, v) => WillHold(s, p \o q, c, v)
         /\ Untouched(q, c) /\ WillHold(s, p, c, v) => WillHold(s, p \o q, c, v)
<1>. DEFINE r == p \o q
<1>1. /\ DOMAIN p = 1 .. Len(p) /\ DOMAIN q = 1 .. Len(q) /\ DOMAIN r = 1 .. Len(p) + Len(q)
      /\ Len(p) \in Nat /\ Len(q) \in Nat
      /\ \A i \in 1 .. Len(p) : r[i] = p[i]
      /\ \A i \in 1 .. Len(q) : r[Len(p) + i] = q[i]
  BY ConcatProperties, LenProperties, SMT
<1>. HIDE DEF r
<1>2. ASSUME LastWrite(q, c, v) PROVE LastWrite(r, c, v)
  <2>1. PICK i \in DOMAIN q : /\ c \in DOMAIN q[i] /\ q[i][c] = v
                            /\ \A j \in DOMAIN q : j > i => c \notin DOMAIN q[j]
    BY <1>2 DEF LastWrite
  <2>. DEFINE k == Len(p) + i
  <2>2. k \in DOMAIN r /\ r[k] = q[i]
    BY <1>1, <2>1, SMT
  <2>3. ASSUME NEW j \in DOMAIN r, j > k PROVE c \notin DOMAIN r[j]
    <3>. DEFINE d == j - Len(p)
    <3>1. d \in DOMAIN q /\ d > i /\ j = Len(p) + d
      BY <1>1, <2>1, <2>3, SMT
    <3>. HIDE DEF d
    <3>. QED BY <1>1, <2>1, <3>1
  <2>. QED BY <2>1, <2>2, <2>3 DEF LastWrite
<1>3. ASSUME Untouched(q, c), LastWrite(p, c, v) PROVE LastWrite(r, c, v)
  <2>1. PICK i \in DOMAIN p : /\ c \in DOMAIN p[i] /\ p[i][c] = v
                            /\ \A j \in DOMAIN p : j > i => c \notin DOMAIN p[j]
    BY <1>3 DEF LastWrite
  <2>2. i \in DOMAIN r /\ r[i] = p[i]
    BY <1>1, <2>1, SMT
  <2>3. ASSUME NEW j \in DOMAIN r, j > i PROVE c \notin DOMAIN r[j]
    <3>1. CASE j <= Len(p)
      BY <1>1, <2>1, <2>3, <3>1, SMT
    <3>2. CASE j > Len(p)
      <4>. DEFINE d == j - Len(p)
      <4>1. d \in DOMAIN q /\ j = Len(p) + d
        BY <1>1, <3>2, SMT
      <4>. HIDE DEF d
      <4>. QED BY <1>1, <1>3, <4>1 DEF Untouched
    <3>. QED BY <1>1, <3>1, <3>2, SMT
  <2>. QED BY <2>1, <2>2, <2>3 DEF LastWrite
<1>4. ASSUME Untouched(q, c), Untouched(p, c) PROVE Untouched(r, c)
  <2>. SUFFICES ASSUME NEW j \in DOMAIN r PROVE c \notin DOMAIN r[j]
    BY DEF Untouched
  <2>1. CASE j <= Len(p)
    BY <1>1, <1>4, <2>1, SMT DEF Untouched
  <2>2. CASE j > Len(p)
    <3>. DEFINE d == j - Len(p)
    <3>1. d \in DOMAIN q /\ j = Len(p) + d
      BY <1>1, <2>2, SMT
    <3>. HIDE DEF d
    <3>. QED BY <1>1, <1>4, <3>1 DEF Untouched
  <2>. QED BY <1>1, <2>1, <2>2, SMT
<1>. QED BY <1>2, <1>3, <1>4 DEF WillHold, r

LEMMA OneWrite ==
  ASSUME NEW w
  PROVE  /\ \A c : c \in DOMAIN w => LastWrite(<< w >>, c, w[c])
         /\ \A c : c \notin DOMAIN w => Untouched(<< w >>, c)
<1>. DEFINE p == << w >>
<1>1. DOMAIN p = {1} /\ p[1] = w
  BY SMT
<1>. HIDE DEF p
<1>2. \A c : c \in DOMAIN w => LastWrite(p, c, w[c])
  BY <1>1, SMT DEF LastWrite
<1>3. \A c : c \notin DOMAIN w => Untouched(p, c)
  BY <1>1 DEF Untouched
<1>. QED BY <1>2, <1>3 DEF p

(* Writing a node number writes both its bytes and nothing else.           *)
LEMMA NumberOutcome ==
  ASSUME NEW n \in NodeNumber, NEW p \in Seq(Write), NEW s
  PROVE  /\ WillHoldNumber(s, p \o WriteNodeNum(n), n)
         /\ \A c \in {"mode", "heartbeat"} : \A v :
              WillHold(s, p, c, v) => WillHold(s, p \o WriteNodeNum(n), c, v)
<1>. DEFINE h == [nnHigh |-> n \div Radix]
            l == [nnLow |-> n % Radix]
            both == << h, l >>
<1>1. /\ DOMAIN h = {"nnHigh"} /\ h["nnHigh"] = n \div Radix
      /\ DOMAIN l = {"nnLow"} /\ l["nnLow"] = n % Radix
  BY Zenon
<1>2. WriteNodeNum(n) = both
  BY DEF WriteNodeNum
<1>3. both \in Seq(Write)
  BY <1>2, Scripts, SplitBytes DEF Write
<1>. HIDE DEF h, l
<1>4. DOMAIN both = {1, 2} /\ both[1] = h /\ both[2] = l
  BY SMT
<1>. HIDE DEF both
<1>5. /\ LastWrite(both, "nnHigh", n \div Radix)
      /\ LastWrite(both, "nnLow", n % Radix)
      /\ Untouched(both, "mode") /\ Untouched(both, "heartbeat")
  BY <1>1, <1>4, SMT DEF LastWrite, Untouched
<1>6. /\ WillHold(s, p \o both, "nnHigh", n \div Radix)
      /\ WillHold(s, p \o both, "nnLow", n % Radix)
  BY <1>3, <1>5, LaterWritesWin
<1>7. WillHoldNumber(s, p \o both, n)
  BY <1>6, SplitBytes DEF WillHoldNumber
<1>. QED BY <1>2, <1>3, <1>5, <1>7, LaterWritesWin

(* The inductive form of RamIsStored: it also speaks of the moments in     *)
(* which a handler has changed RAM and is still writing.                   *)
RamWillBeStored ==
  power = "on" => /\ WillHold(store, pending, "mode", currentMode)
                  /\ WillHoldNumber(store, pending, nodeNum)
                  /\ WillHold(store, pending, "heartbeat", heartbeat)
                  /\ noHeartbeat = ~heartbeat

LEMMA NothingPending ==
  ASSUME NEW s, NEW c, NEW v
  PROVE  WillHold(s, <<>>, c, v) <=> s[c] = v
<1>1. DOMAIN <<>> = {}
  BY SMT
<1>. QED BY <1>1 DEF WillHold, LastWrite, Untouched

LEMMA RamStep == TypeOK /\ RamWillBeStored /\ [Next]_vars => RamWillBeStored'
<1>. SUFFICES ASSUME TypeOK, RamWillBeStored, [Next]_vars, power' = "on"
              PROVE  RamWillBeStored'
  BY DEF RamWillBeStored
<1>. USE DEF mns, config, disk
<1>. DEFINE Heart == WillHold(store, pending, "heartbeat", heartbeat)
            NodeMode == WillHold(store, pending, "mode", currentMode)
            Number == WillHoldNumber(store, pending, nodeNum)
<1>1. CASE UNCHANGED vars
  BY <1>1 DEF vars, RamWillBeStored
<1>2. CASE power = "on" /\ (Quiet \/ EntersSetup \/ LeavesSetup)
  BY <1>2 DEF Quiet, EntersSetup, LeavesSetup, RamWillBeStored
<1>3. ASSUME Quiet \/ EntersSetup \/ LeavesSetup, power # "on" PROVE FALSE
  BY <1>3 DEF Quiet, EntersSetup, LeavesSetup
<1>4. CASE Forgets
  <2>1. << [mode |-> UNINITIALISED] >> \in Seq(Write)
    <3>1. [mode |-> UNINITIALISED] \in Write
      BY DEF Write
    <3>. QED BY <3>1
  <2>. DEFINE first == << [mode |-> UNINITIALISED] >>
  <2>2. WillHold(store, first, "mode", UNINITIALISED)
    BY OneWrite DEF WillHold
  <2>3. WillHold(store, first, "heartbeat", heartbeat)
    <3>1. store.heartbeat = heartbeat
      BY <1>4, NothingPending DEF Forgets, RamWillBeStored
    <3>. QED BY <3>1, OneWrite DEF WillHold
  <2>4. pending' = first \o WriteNodeNum(0)
    BY <1>4 DEF Forgets, SetUninitialisedScript
  <2>. HIDE DEF first
  <2>. QED BY <1>4, <2>1, <2>2, <2>3, <2>4, NumberOutcome, ZeroIsNumber
           DEF Forgets, RamWillBeStored, first
<1>5. ASSUME NEW n \in NodeNumber, Numbered(n) PROVE RamWillBeStored'
  <2>. DEFINE clear == IF store.mode = UNINITIALISED THEN << [data |-> "erased"] >> ELSE <<>>
              normal == << [mode |-> NORMAL] >>
              first == clear \o normal
  <2>1. clear \in Seq(Write) /\ normal \in Seq(Write)
    <3>1. [data |-> "erased"] \in Write /\ [mode |-> NORMAL] \in Write
      BY DEF Write
    <3>. QED BY <3>1
  <2>2. store.heartbeat = heartbeat
    BY <1>5, NothingPending DEF Numbered, RamWillBeStored
  <2>3. LastWrite(normal, "mode", NORMAL) /\ Untouched(normal, "heartbeat")
    BY OneWrite
  <2>4. WillHold(store, clear, "heartbeat", heartbeat)
    BY <2>2, OneWrite, NothingPending DEF WillHold
  <2>5. pending' = first \o WriteNodeNum(n)
    BY <1>5 DEF Numbered, SetNormalScript
  <2>. HIDE DEF clear, normal
  <2>6. first \in Seq(Write)
    BY <2>1, ConcatProperties
  <2>7. /\ WillHold(store, first, "mode", NORMAL)
        /\ WillHold(store, first, "heartbeat", heartbeat)
    BY <2>1, <2>3, <2>4, LaterWritesWin
  <2>. HIDE DEF first
  <2>. QED BY <1>5, <2>5, <2>6, <2>7, NumberOutcome DEF Numbered, RamWillBeStored
<1>6. CASE Beats
  <2>. DEFINE w == [heartbeat |-> heartbeat']
  <2>1. DOMAIN w = {"heartbeat"} /\ w["heartbeat"] = heartbeat'
    OBVIOUS
  <2>2. pending' = << w >> /\ store' = store /\ pending = <<>>
    BY <1>6 DEF Beats
  <2>. HIDE DEF w
  <2>3. WillHold(store, << w >>, "heartbeat", heartbeat')
    BY <2>1, OneWrite DEF WillHold
  <2>4. \A c, v : c # "heartbeat" /\ WillHold(store, pending, c, v)
                 => WillHold(store, << w >>, c, v)
    BY <2>1, <2>2, OneWrite, NothingPending DEF WillHold
  <2>. QED BY <1>6, <2>2, <2>3, <2>4 DEF Beats, RamWillBeStored, WillHoldNumber
<1>7. CASE Learns
  <2>. DEFINE w == [data |-> "own"]
  <2>1. DOMAIN w = {"data"}
    OBVIOUS
  <2>2. pending' = << w >> /\ store' = store /\ pending = <<>>
    BY <1>7 DEF Learns
  <2>. HIDE DEF w
  <2>3. \A c, v : c # "data" /\ WillHold(store, pending, c, v)
                 => WillHold(store, << w >>, c, v)
    BY <2>1, <2>2, OneWrite, NothingPending DEF WillHold
  <2>. QED BY <1>7, <2>2, <2>3 DEF Learns, RamWillBeStored, WillHoldNumber
<1>8. CASE Boot
  <2>1. /\ currentMode' = store.mode /\ heartbeat' = store.heartbeat
        /\ nodeNum' = store.nnHigh * Radix + store.nnLow
        /\ noHeartbeat' = ~heartbeat' /\ pending' = <<>> /\ store' = store
    BY <1>8 DEF Boot, StoredNumber
  <2>2. store.nnHigh \in 0 .. Radix - 1 /\ store.nnLow \in 0 .. Radix - 1
    BY DEF TypeOK, DiskType, Stores
  <2>. QED BY <2>1, <2>2, NothingPending DEF RamWillBeStored, WillHoldNumber
<1>9. CASE WriteByte
  <2>1. \A c \in IdentityCell : \A v :
          WillHold(store, pending, c, v) => WillHold(store', pending', c, v)
    BY <1>9, WriteKeepsOutcome DEF WriteByte, TypeOK, DiskType
  <2>. QED BY <1>9, <2>1 DEF WriteByte, RamWillBeStored, WillHoldNumber, IdentityCell
<1>10. ASSUME Resets \/ PowerLoss PROVE FALSE
  BY <1>10 DEF Resets, PowerLoss
<1>. QED BY <1>1, <1>2, <1>3, <1>4, <1>5, <1>6, <1>7, <1>8, <1>9, <1>10, Effects DEF Effect

(* Between two handlers the identity in RAM is the one a restart would     *)
(* load, wherever power has failed before.                                 *)
THEOREM RamIsStoredAlways == Spec => []RamIsStored
<1>1. Init => RamWillBeStored
  BY DEF Init, RamWillBeStored
<1>2. RamWillBeStored => RamIsStored
  BY NothingPending DEF RamWillBeStored, RamIsStored, Running, WillHoldNumber, StoredNumber
<1>. QED BY <1>1, <1>2, RamStep, TypeCorrect, PTL DEF Spec
-----------------------------------------------------------------------------
(* The inductive form of NoDataFromBefore.  Storage that is not in Normal  *)
(* mode holds no data of the current life; and before a pending write of   *)
(* the mode byte to Normal, the old data is gone or another pending write  *)
(* erases it first, with nothing pending that would bring old data back.   *)
NormalPending(i) == i \in DOMAIN pending /\ pending[i] = [mode |-> NORMAL]
ErasedBefore(i)  == \E j \in DOMAIN pending : j < i /\ pending[j] = [data |-> "erased"]
NothingOld == \A j \in DOMAIN pending : /\ pending[j] # [mode |-> UNINITIALISED]
                                        /\ pending[j] # [data |-> "own"]

DataInv ==
  /\ store.mode = NORMAL => store.data # "before"
  /\ store.mode = UNINITIALISED => store.data # "own"
  /\ \A i : NormalPending(i) => NothingOld /\ (store.data # "before" \/ ErasedBefore(i))

(* What one write does to the mode and the data.                           *)
LEMMA OneWriteData ==
  ASSUME NEW s \in Stores, NEW w \in Write,
         s.mode = UNINITIALISED => s.data # "own", s.mode = NORMAL => s.data # "before"
  PROVE  LET t == Written(s, w)
         IN  /\ t.mode = UNINITIALISED => t.data # "own"
             /\ w = [mode |-> NORMAL] \/ (t.mode = NORMAL => t.data # "before")
             /\ w = [mode |-> NORMAL] => t.data = s.data
             /\ w = [data |-> "erased"] => t.data = "erased"
             /\ w # [mode |-> UNINITIALISED] /\ w # [data |-> "own"]
                  => t.data = s.data \/ t.data = "erased"
<1>1. CASE w \in [mode : {UNINITIALISED, NORMAL}]
  BY <1>1 DEF Written, Stores, UNINITIALISED, NORMAL
<1>2. CASE w \in [data : {"erased", "own"}]
  BY <1>2 DEF Written, Stores, UNINITIALISED, NORMAL
<1>3. CASE w \in [heartbeat : BOOLEAN] \cup [nnHigh : 0 .. Radix - 1] \cup [nnLow : 0 .. Radix - 1]
  BY <1>3 DEF Written, Stores, UNINITIALISED, NORMAL
<1>. QED BY <1>1, <1>2, <1>3 DEF Write

Lacks(p, w) == \A i \in DOMAIN p : p[i] # w

LEMMA LacksBoth ==
  ASSUME NEW p \in Seq(Write), NEW q \in Seq(Write), NEW w, Lacks(p, w), Lacks(q, w)
  PROVE  Lacks(p \o q, w)
<1>. DEFINE r == p \o q
<1>1. /\ DOMAIN p = 1 .. Len(p) /\ DOMAIN q = 1 .. Len(q) /\ DOMAIN r = 1 .. Len(p) + Len(q)
      /\ Len(p) \in Nat /\ Len(q) \in Nat
      /\ \A i \in 1 .. Len(p) + Len(q) : r[i] = IF i <= Len(p) THEN p[i] ELSE q[i - Len(p)]
  BY ConcatProperties, LenProperties, SMT
<1>. HIDE DEF r
<1>2. ASSUME NEW i \in DOMAIN r PROVE r[i] # w
  <2>1. CASE i <= Len(p)
    BY <1>1, <2>1, SMT DEF Lacks
  <2>2. CASE ~(i <= Len(p))
    <3>. DEFINE d == i - Len(p)
    <3>1. d \in DOMAIN q /\ r[i] = q[d]
      BY <1>1, <2>2, SMT
    <3>. HIDE DEF d
    <3>. QED BY <3>1 DEF Lacks
  <2>. QED BY <2>1, <2>2
<1>. QED BY <1>2 DEF Lacks, r

LEMMA LacksOne ==
  ASSUME NEW v, NEW w, v # w
  PROVE  Lacks(<< v >>, w)
<1>1. DOMAIN << v >> = {1} /\ << v >>[1] = v
  BY SMT
<1>. QED BY <1>1 DEF Lacks

(* Only the mode byte and the data matter here; node numbers, heartbeats   *)
(* and erasures are none of the writes that the invariant speaks of.       *)
Decisive == { [mode |-> NORMAL], [mode |-> UNINITIALISED], [data |-> "own"] }

LEMMA PlainWrites ==
  /\ \A n \in NodeNumber : WriteNodeNum(n) \in Seq(Write)
  /\ \A n \in NodeNumber, w \in Decisive : Lacks(WriteNodeNum(n), w)
  /\ \A w \in Decisive : /\ [data |-> "erased"] # w
                         /\ \A b : [heartbeat |-> b] # w
  /\ [mode |-> NORMAL] # [mode |-> UNINITIALISED]
  /\ [data |-> "own"] # [mode |-> NORMAL]
  /\ [mode |-> NORMAL] # [data |-> "own"]
<1>1. ASSUME NEW n \in NodeNumber
      PROVE  /\ WriteNodeNum(n) \in Seq(Write)
             /\ \A w \in Decisive : Lacks(WriteNodeNum(n), w)
  <2>. DEFINE h == [nnHigh |-> n \div Radix]
              l == [nnLow |-> n % Radix]
  <2>1. h \in Write /\ l \in Write
    BY SplitBytes DEF Write
  <2>2. \A w \in Decisive : h # w /\ l # w
    BY DEF Decisive, UNINITIALISED, NORMAL
  <2>3. WriteNodeNum(n) = << h, l >>
    BY DEF WriteNodeNum
  <2>. HIDE DEF h, l
  <2>4. DOMAIN << h, l >> = {1, 2} /\ << h, l >>[1] = h /\ << h, l >>[2] = l
    BY SMT
  <2>. QED BY <2>1, <2>2, <2>3, <2>4 DEF Lacks
<1>2. \A w \in Decisive : [data |-> "erased"] # w /\ \A b : [heartbeat |-> b] # w
  BY DEF Decisive, UNINITIALISED, NORMAL
<1>3. /\ [mode |-> NORMAL] # [mode |-> UNINITIALISED]
      /\ [data |-> "own"] # [mode |-> NORMAL]
      /\ [mode |-> NORMAL] # [data |-> "own"]
  BY DEF UNINITIALISED, NORMAL
<1>. QED BY <1>1, <1>2, <1>3

(* What SetNormalScript does in which order.                               *)
LEMMA NormalScript ==
  ASSUME NEW n \in NodeNumber
  PROVE  LET p == SetNormalScript(n)
         IN  /\ Lacks(p, [mode |-> UNINITIALISED]) /\ Lacks(p, [data |-> "own"])
             /\ store.mode = UNINITIALISED =>
                   \A i \in DOMAIN p : p[i] = [mode |-> NORMAL] =>
                     \E j \in DOMAIN p : j < i /\ p[j] = [data |-> "erased"]
<1>. DEFINE e == [data |-> "erased"]
            m == [mode |-> NORMAL]
            clear == IF store.mode = UNINITIALISED THEN << e >> ELSE <<>>
            first == clear \o << m >>
            bytes == WriteNodeNum(n)
            p == first \o bytes
<1>1. e \in Write /\ m \in Write
  BY DEF Write
<1>2. clear \in Seq(Write) /\ << m >> \in Seq(Write) /\ bytes \in Seq(Write)
  BY <1>1, PlainWrites
<1>3. first \in Seq(Write)
  BY <1>2, ConcatProperties
<1>4. ASSUME NEW w \in {[mode |-> UNINITIALISED], [data |-> "own"]} PROVE Lacks(p, w)
  <2>1. w \in Decisive /\ e # w /\ m # w
    BY PlainWrites DEF Decisive
  <2>2. Lacks(<<>>, w) /\ Lacks(<< e >>, w) /\ Lacks(<< m >>, w) /\ Lacks(bytes, w)
    <3>1. Lacks(<<>>, w)
      BY SMT DEF Lacks
    <3>. QED BY <2>1, <3>1, LacksOne, PlainWrites
  <2>3. Lacks(clear, w)
    BY <2>2
  <2>. HIDE DEF clear, e, m, bytes
  <2>. QED BY <1>2, <1>3, <2>2, <2>3, LacksBoth
<1>5. ASSUME store.mode = UNINITIALISED
      PROVE  \A i \in DOMAIN p : p[i] = m => \E j \in DOMAIN p : j < i /\ p[j] = e
  <2>1. clear = << e >> /\ e # m
    BY <1>5, PlainWrites DEF Decisive
  <2>. HIDE DEF e, m, clear
  <2>2. Len(<< e >>) = 1 /\ << e >>[1] = e /\ << e >> \in Seq(Write)
    BY <1>1, SMT
  <2>3. first[1] = e /\ Len(first) \in Nat /\ Len(first) >= 1
    BY <1>2, <2>1, <2>2, ConcatProperties, LenProperties, SMT
  <2>. HIDE DEF first, bytes
  <2>4. p[1] = e /\ DOMAIN p = 1 .. Len(p) /\ Len(p) \in Nat /\ Len(p) >= 1
    BY <1>2, <1>3, <2>3, ConcatProperties, LenProperties, SMT
  <2>. HIDE DEF p
  <2>5. ASSUME NEW i \in DOMAIN p, p[i] = m PROVE 1 \in DOMAIN p /\ 1 < i /\ p[1] = e
    <3>1. i # 1
      BY <2>1, <2>4, <2>5
    <3>. QED BY <2>4, <3>1, SMT
  <2>. QED BY <2>5
<1>. QED BY <1>4, <1>5 DEF SetNormalScript

LEMMA DataStep == TypeOK /\ DataInv /\ [Next]_vars => DataInv'
<1>. SUFFICES ASSUME TypeOK, DataInv, [Next]_vars PROVE DataInv'
  OBVIOUS
<1>. DEFINE normal == [mode |-> NORMAL]
<1>1. ASSUME UNCHANGED <<store, pending>> PROVE DataInv'
  BY <1>1 DEF DataInv, NormalPending, ErasedBefore, NothingOld
<1>2. ASSUME UNCHANGED store, Lacks(pending', normal) PROVE DataInv'
  BY <1>2 DEF DataInv, NormalPending, Lacks
<1>3. CASE UNCHANGED vars \/ Quiet \/ EntersSetup \/ LeavesSetup \/ Boot
  BY <1>1, <1>3 DEF vars, disk, Quiet, EntersSetup, LeavesSetup, Boot
<1>4. CASE Forgets
  <2>. DEFINE first == << [mode |-> UNINITIALISED] >>
  <2>1. first \in Seq(Write) /\ Lacks(first, normal)
    <3>1. [mode |-> UNINITIALISED] \in Write /\ [mode |-> UNINITIALISED] # normal
      BY PlainWrites DEF Write
    <3>. QED BY <3>1, LacksOne
  <2>2. WriteNodeNum(0) \in Seq(Write) /\ Lacks(WriteNodeNum(0), normal)
    BY PlainWrites, ZeroIsNumber DEF Decisive
  <2>3. SetUninitialisedScript = first \o WriteNodeNum(0)
    BY DEF SetUninitialisedScript
  <2>4. Lacks(SetUninitialisedScript, normal)
    BY <2>1, <2>2, <2>3, LacksBoth
  <2>. QED BY <1>2, <1>4, <2>4 DEF Forgets
<1>5. CASE Resets
  <2>. DEFINE first == << [data |-> "erased"], [mode |-> UNINITIALISED] >>
              last == << [heartbeat |-> FALSE], [data |-> "erased"] >>
  <2>1. /\ [data |-> "erased"] \in Write /\ [heartbeat |-> FALSE] \in Write
        /\ [mode |-> UNINITIALISED] \in Write
    BY DEF Write
  <2>2. /\ [data |-> "erased"] # normal /\ [heartbeat |-> FALSE] # normal
        /\ [mode |-> UNINITIALISED] # normal
    BY PlainWrites DEF Decisive
  <2>3. first \in Seq(Write) /\ last \in Seq(Write)
    BY <2>1
  <2>4. Lacks(first, normal) /\ Lacks(last, normal)
    <3>. DEFINE u == [data |-> "erased"]
                v == [mode |-> UNINITIALISED]
                w == [heartbeat |-> FALSE]
    <3>. HIDE DEF u, v, w
    <3>1. /\ DOMAIN << u, v >> = {1, 2} /\ << u, v >>[1] = u /\ << u, v >>[2] = v
          /\ DOMAIN << w, u >> = {1, 2} /\ << w, u >>[1] = w /\ << w, u >>[2] = u
      BY SMT
    <3>. QED BY <2>2, <3>1 DEF Lacks, u, v, w
  <2>5. WriteNodeNum(0) \in Seq(Write) /\ Lacks(WriteNodeNum(0), normal)
    BY PlainWrites, ZeroIsNumber DEF Decisive
  <2>6. ResetScript = (first \o WriteNodeNum(0)) \o last
    BY DEF ResetScript
  <2>. HIDE DEF first, last
  <2>7. Lacks(ResetScript, normal)
    BY <2>3, <2>4, <2>5, <2>6, LacksBoth, ConcatProperties
  <2>. QED BY <1>2, <1>5, <2>7 DEF Resets
<1>6. CASE Beats
  <2>1. Lacks(<< [heartbeat |-> heartbeat'] >>, normal)
    BY LacksOne, PlainWrites DEF Decisive
  <2>. QED BY <1>2, <1>6, <2>1 DEF Beats
<1>7. CASE Learns
  <2>1. Lacks(<< [data |-> "own"] >>, normal)
    BY LacksOne, PlainWrites
  <2>. QED BY <1>2, <1>7, <2>1 DEF Learns
<1>8. CASE PowerLoss
  <2>1. Lacks(<<>>, normal)
    BY SMT DEF Lacks
  <2>. QED BY <1>2, <1>8, <2>1 DEF PowerLoss
<1>9. ASSUME NEW n \in NodeNumber, Numbered(n) PROVE DataInv'
  <2>1. pending' = SetNormalScript(n) /\ store' = store
    BY <1>9 DEF Numbered
  <2>2. NothingOld'
    BY <2>1, NormalScript DEF Lacks, NothingOld
  <2>3. store.mode = UNINITIALISED => \A i : NormalPending(i)' => ErasedBefore(i)'
    BY <2>1, NormalScript DEF NormalPending, ErasedBefore
  <2>4. store.mode = UNINITIALISED \/ store.data # "before"
    BY DEF DataInv, TypeOK, DiskType, Stores
  <2>. QED BY <2>1, <2>2, <2>3, <2>4 DEF DataInv
<1>10. CASE WriteByte
  <2>. DEFINE h == pending[1]
              q == Tail(pending)
  <2>1. /\ h = Head(pending) /\ h \in Write /\ 1 \in DOMAIN pending
        /\ DOMAIN pending = 1 .. Len(pending) /\ Len(pending) \in Nat
        /\ DOMAIN q = 1 .. Len(pending) - 1
        /\ \A i \in DOMAIN q : q[i] = pending[i + 1] /\ i + 1 \in DOMAIN pending
    BY <1>10, HeadTailProperties, LenProperties, SMT DEF WriteByte, TypeOK, DiskType
  <2>2. store' = Written(store, h) /\ pending' = q
    BY <1>10, <2>1 DEF WriteByte
  <2>3. store \in Stores
    BY DEF TypeOK, DiskType
  <2>. HIDE DEF h, q
  <2>4. /\ store'.mode = UNINITIALISED => store'.data # "own"
        /\ h = normal \/ (store'.mode = NORMAL => store'.data # "before")
        /\ h = normal => store'.data = store.data
        /\ h = [data |-> "erased"] => store'.data = "erased"
        /\ h # [mode |-> UNINITIALISED] /\ h # [data |-> "own"]
             => store'.data = store.data \/ store'.data = "erased"
    BY <2>1, <2>2, <2>3, OneWriteData DEF DataInv
  <2>5. h = normal => NormalPending(1)
    BY <2>1 DEF NormalPending, h
  <2>6. ~ErasedBefore(1)
    BY <2>1, SMT DEF ErasedBefore
  <2>7. store'.mode = NORMAL => store'.data # "before"
    BY <2>4, <2>5, <2>6 DEF DataInv
  <2>8. ASSUME NEW i, NormalPending(i)'
        PROVE  NothingOld' /\ (store'.data # "before" \/ ErasedBefore(i)')
    <3>1. i \in DOMAIN q /\ i + 1 \in DOMAIN pending /\ NormalPending(i + 1) /\ i \in Nat
      BY <2>1, <2>2, <2>8, SMT DEF NormalPending
    <3>2. NothingOld /\ (store.data # "before" \/ ErasedBefore(i + 1))
      BY <3>1 DEF DataInv
    <3>3. NothingOld'
      BY <2>1, <2>2, <3>2 DEF NothingOld
    <3>4. h # [mode |-> UNINITIALISED] /\ h # [data |-> "own"]
      BY <2>1, <3>2 DEF NothingOld, h
    <3>5. CASE store.data # "before"
      BY <2>4, <3>3, <3>4, <3>5
    <3>6. CASE ErasedBefore(i + 1)
      <4>1. PICK j \in DOMAIN pending : j < i + 1 /\ pending[j] = [data |-> "erased"]
        BY <3>6 DEF ErasedBefore
      <4>2. CASE j = 1
        BY <2>4, <3>3, <4>1, <4>2 DEF h
      <4>3. CASE j # 1
        <5>. DEFINE k == j - 1
        <5>1. k \in DOMAIN q /\ k < i /\ q[k] = pending[j]
          BY <2>1, <3>1, <4>1, <4>3, SMT
        <5>. HIDE DEF k
        <5>2. ErasedBefore(i)'
          BY <2>2, <4>1, <5>1 DEF ErasedBefore
        <5>. QED BY <3>3, <5>2
      <4>. QED BY <4>2, <4>3
    <3>. QED BY <3>2, <3>5, <3>6
  <2>. QED BY <2>4, <2>7, <2>8 DEF DataInv
<1>. QED BY <1>3, <1>4, <1>5, <1>6, <1>7, <1>8, <1>9, <1>10, Effects DEF Effect

(* A node in Normal mode never holds node variables or events from before  *)
(* that life, between whichever two bytes power has failed.                *)
THEOREM NoOldData == Spec => []NoDataFromBefore
<1>1. Init => DataInv
  <2>1. Init => store.mode = UNINITIALISED /\ store.data = "erased" /\ DOMAIN pending = {}
    BY SMT DEF Init, VirginStore
  <2>. QED BY <2>1 DEF DataInv, NormalPending, UNINITIALISED, NORMAL
<1>2. DataInv => NoDataFromBefore
  BY DEF DataInv, NoDataFromBefore
<1>. QED BY <1>1, <1>2, DataStep, TypeCorrect, PTL DEF Spec
-----------------------------------------------------------------------------
(* The numbers that are given up.                                          *)

(* What is put on a queue that does not overflow goes behind what is there.*)
LEMMA PutsWithRoom ==
  ASSUME NEW q \in Seq(Action), NEW s \in Seq(Action), Puts(q, s), ~overflowed'
  PROVE  ~overflowed /\ queue' = q \o s
<1>. DEFINE r == q \o s
<1>1. Len(r) = Len(q) + Len(s) /\ Len(q) \in Nat /\ Len(s) \in Nat
  BY ConcatProperties, LenProperties
<1>2. ~overflowed /\ ~(Len(q) + Len(s) > QueueSize)
  BY DEF Puts
<1>3. Len(r) <= QueueSize
  BY <1>1, <1>2, NodeAssumption, SMT
<1>. QED BY <1>2, <1>3 DEF Puts, PutAll

LEMMA PopKeeps ==
  ASSUME NEW q \in Seq(Action), q # <<>>, NEW a, Contains(q, a)
  PROVE  a = Head(q) \/ Contains(Tail(q), a)
<1>1. PICK i \in DOMAIN q : q[i] = a
  BY DEF Contains
<1>2. /\ Head(q) = q[1] /\ DOMAIN q = 1 .. Len(q) /\ Len(q) \in Nat
      /\ DOMAIN Tail(q) = 1 .. Len(q) - 1
      /\ \A j \in 1 .. Len(q) - 1 : Tail(q)[j] = q[j + 1]
  BY HeadTailProperties, LenProperties, SMT
<1>3. CASE i # 1
  <2>. DEFINE j == i - 1
  <2>1. j \in DOMAIN Tail(q) /\ Tail(q)[j] = a
    BY <1>1, <1>2, <1>3, SMT
  <2>. HIDE DEF j
  <2>. QED BY <2>1 DEF Contains
<1>. QED BY <1>1, <1>2, <1>3

(* A number given up remains so until it is the node's own once more.      *)
LEMMA GivenUpKept ==
  ASSUME TypeOK, QueueEffect, power = "on", power' = "on", ~overflowed',
         NEW n, n # nodeNum' \/ instantMode' = SETUP,
         n \in announced \/ GivesUp(queue, n)
  PROVE  n \in announced' \/ GivesUp(queue', n)
<1>1. queue \in Seq(Action)
  BY DEF TypeOK, QueueType
<1>2. CASE UNCHANGED <<queue, announced>>
  BY <1>2
<1>3. ASSUME NEW s \in Seq(Action), Puts(queue, s), UNCHANGED announced
      PROVE  n \in announced' \/ GivesUp(queue', n)
  <2>1. queue' = queue \o s
    BY <1>1, <1>3, PutsWithRoom
  <2>2. \A a : Contains(queue, a) => Contains(queue', a)
    BY <1>1, <2>1, ContainsConcat
  <2>. QED BY <1>3, <2>2 DEF GivesUp
<1>4. ASSUME queue # <<>>, NEW s \in Seq(Action), Answer(s),
             Hears \/ Head(queue).type = "MESSAGE_OUT", Sends
      PROVE  n \in announced' \/ GivesUp(queue', n)
  <2>1. Tail(queue) \in Seq(Action)
    BY <1>1, <1>4, HeadTailProperties
  <2>2. queue' = Tail(queue) \o s
    BY <1>4, <2>1, PutsWithRoom DEF Answer
  <2>3. \A a : Contains(queue, a) => a = Head(queue) \/ Contains(queue', a)
    BY <1>1, <1>4, <2>1, <2>2, PopKeeps, ContainsConcat
  <2>4. CASE Head(queue) = Out("NNREL", n) \/ Head(queue) = Out("RQNN", n)
    BY <1>4, <2>4 DEF Sends, Out
  <2>5. CASE ~(Head(queue) = Out("NNREL", n) \/ Head(queue) = Out("RQNN", n))
    <3>1. GivesUp(queue, n) => GivesUp(queue', n)
      BY <2>3, <2>5 DEF GivesUp
    <3>2. n \in announced => n \in announced'
      BY <1>4 DEF Hears, Sends
    <3>. QED BY <3>1, <3>2
  <2>. QED BY <2>4, <2>5
<1>. QED BY <1>2, <1>3, <1>4 DEF QueueEffect

(* The inductive form of NumberChangeAnnounced: a node that is in Setup    *)
(* has given up its number, which it may get back.                         *)
SetupAnnounced ==
  power = "on" /\ ~overflowed /\ instantMode = SETUP /\ nodeNum # 0
    => nodeNum \in announced \/ GivesUp(queue, nodeNum)

(* The number that a handler drops outside Setup, or with which it enters  *)
(* Setup, is among its answers.                                            *)
LEMMA SpokenIsQueued ==
  ASSUME TypeOK, queue # <<>>, NEW s \in Seq(Action), Answer(s), ~overflowed',
         NEW n, GivesUp(s, n)
  PROVE  GivesUp(queue', n)
<1>1. Tail(queue) \in Seq(Action)
  BY HeadTailProperties DEF TypeOK, QueueType
<1>2. queue' = Tail(queue) \o s
  BY <1>1, PutsWithRoom DEF Answer
<1>3. \A a : Contains(s, a) => Contains(queue', a)
  BY <1>1, <1>2, ContainsConcat
<1>. QED BY <1>3 DEF GivesUp

LEMMA NoOverflowBefore == TypeOK /\ QueueEffect /\ power = "on" /\ power' = "on" /\ ~overflowed'
                            => ~overflowed
BY DEF QueueEffect, Answer, Puts

LEMMA SetupStep == TypeOK /\ SetupAnnounced /\ [Next]_vars => SetupAnnounced'
<1>. SUFFICES ASSUME TypeOK, SetupAnnounced, [Next]_vars,
                     power' = "on", ~overflowed', instantMode' = SETUP, nodeNum' # 0
              PROVE  nodeNum' \in announced' \/ GivesUp(queue', nodeNum')
  BY DEF SetupAnnounced, GivesUp, Contains
<1>1. CASE UNCHANGED vars
  BY <1>1 DEF vars, SetupAnnounced, mns, config
<1>2. CASE Next
  <2>1. Effect /\ QueueEffect
    BY <1>2, Effects, QueueEffects
  <2>2. power = "on" /\ nodeNum' = nodeNum
    BY <2>1 DEF Effect, QueueEffect, Quiet, EntersSetup, LeavesSetup, Forgets, Numbered,
       Beats, Learns, Resets, Boot, WriteByte, PowerLoss, mns, config, TypeOK, RamType,
       DiskType, Stores, UNINITIALISED, SETUP, NORMAL
  <2>3. ~overflowed
    BY <2>1, <2>2, NoOverflowBefore
  <2>4. CASE instantMode = SETUP
    BY <2>1, <2>2, <2>3, <2>4, GivenUpKept DEF SetupAnnounced
  <2>5. CASE instantMode # SETUP
    <3>1. PICK s \in Seq(Action) : queue # <<>> /\ Answer(s) /\ Speaks(s)
      BY <2>1, <2>2, <2>5 DEF QueueEffect
    <3>. QED BY <2>2, <2>5, <3>1, SpokenIsQueued DEF Speaks
  <2>. QED BY <2>4, <2>5
<1>. QED BY <1>1, <1>2

LEMMA NumberStep ==
  ASSUME TypeOK, SetupAnnounced, Next,
         nodeNum' # nodeNum, nodeNum # 0, power = "on", ~overflowed'
  PROVE  GivenUp(nodeNum)
<1>1. Effect /\ QueueEffect
  BY Effects, QueueEffects
<1>2. power' = "on"
  BY <1>1 DEF Effect, Quiet, EntersSetup, LeavesSetup, Forgets, Numbered, Beats, Learns,
     Resets, Boot, WriteByte, PowerLoss, mns, config
<1>3. ~overflowed
  BY <1>1, <1>2, NoOverflowBefore
<1>4. CASE instantMode = SETUP
  BY <1>1, <1>2, <1>3, <1>4, GivenUpKept DEF SetupAnnounced, GivenUp, GivesUp, Contains
<1>5. CASE instantMode # SETUP
  <2>1. PICK s \in Seq(Action) : queue # <<>> /\ Answer(s) /\ Speaks(s)
    BY <1>1, <1>2 DEF QueueEffect
  <2>. QED BY <1>5, <2>1, SpokenIsQueued DEF Speaks, GivenUp, GivesUp, Contains
<1>. QED BY <1>4, <1>5

(* A number that the node drops while it runs was given up on the wire or  *)
(* is about to be, in whatever order frames, presses and losses of power   *)
(* come, unless the queue has overflowed.                                  *)
THEOREM DropsAreAnnounced == Spec => NumberChangeAnnounced
<1>1. Init => SetupAnnounced
  BY DEF Init, SetupAnnounced
<1>2. TypeOK /\ SetupAnnounced /\ [Next]_vars
        => [nodeNum' # nodeNum /\ nodeNum # 0 /\ power = "on" /\ ~overflowed'
              => GivenUp(nodeNum)]_vars
  BY NumberStep
<1>. QED BY <1>1, <1>2, SetupStep, TypeCorrect, PTL DEF Spec, NumberChangeAnnounced
-----------------------------------------------------------------------------
(* The numbers that a node may have when power never fails within a write: *)
(* the induction also covers what storage will hold once the writes of the *)
(* current handler, or of a reset, are done.                               *)
Given(n) == n = 0 \/ \E f \in Frames : f.opc = "SNN" /\ f.nn = n

WellNumbered(m, n) == Given(n) /\ (m = UNINITIALISED => n = 0)

StoreWellNumbered ==
  \E m, n : /\ WillHold(store, pending, "mode", m) /\ WillHoldNumber(store, pending, n)
            /\ WellNumbered(m, n) \/ (m = UNINITIALISED /\ n = Radix * Radix - 1)

NumberInv ==
  /\ StoreWellNumbered
  /\ power = "on" => WellNumbered(currentMode, nodeNum)

(* A reset leaves a node without a number.                                 *)
LEMMA ResetOutcome ==
  ASSUME NEW s
  PROVE  WillHold(s, ResetScript, "mode", UNINITIALISED) /\ WillHoldNumber(s, ResetScript, 0)
<1>. DEFINE e == [data |-> "erased"]
            m == [mode |-> UNINITIALISED]
            h == [heartbeat |-> FALSE]
            first == << e, m >>
            bytes == WriteNodeNum(0)
            last == << h, e >>
            script == (first \o bytes) \o last
<1>1. /\ e \in Write /\ m \in Write /\ h \in Write
      /\ DOMAIN e = {"data"} /\ DOMAIN m = {"mode"} /\ m["mode"] = UNINITIALISED
      /\ DOMAIN h = {"heartbeat"}
  BY DEF Write
<1>2. ResetScript = script
  BY DEF ResetScript
<1>3. first \in Seq(Write) /\ bytes \in Seq(Write) /\ last \in Seq(Write)
  BY <1>1, PlainWrites, ZeroIsNumber
<1>. HIDE DEF e, m, h, bytes
<1>4. /\ DOMAIN first = {1, 2} /\ first[1] = e /\ first[2] = m
      /\ DOMAIN last = {1, 2} /\ last[1] = h /\ last[2] = e
  BY SMT
<1>. HIDE DEF first, last
<1>5. WillHold(s, first, "mode", UNINITIALISED)
  BY <1>1, <1>4, SMT DEF WillHold, LastWrite
<1>6. \A c \in {"mode", "nnHigh", "nnLow"} : Untouched(last, c)
  BY <1>1, <1>4 DEF Untouched
<1>7. /\ WillHold(s, first \o bytes, "mode", UNINITIALISED)
      /\ WillHoldNumber(s, first \o bytes, 0)
  BY <1>3, <1>5, NumberOutcome, ZeroIsNumber DEF bytes
<1>8. first \o bytes \in Seq(Write)
  BY <1>3, ConcatProperties
<1>9. \A c \in {"mode", "nnHigh", "nnLow"} : \A v :
        WillHold(s, first \o bytes, c, v) => WillHold(s, script, c, v)
  BY <1>3, <1>6, <1>8, LaterWritesWin
<1>. HIDE DEF script
<1>10. WillHold(s, script, "mode", UNINITIALISED)
  BY <1>7, <1>9
<1>11. WillHoldNumber(s, script, 0)
  BY <1>7, <1>9 DEF WillHoldNumber
<1>. QED BY <1>2, <1>10, <1>11

LEMMA VirginIsWell == Init => NumberInv
<1>. SUFFICES ASSUME Init PROVE NumberInv
  OBVIOUS
<1>1. /\ store.mode = UNINITIALISED /\ store.nnHigh = Radix - 1 /\ store.nnLow = Radix - 1
      /\ pending = <<>> /\ power = "starting"
  BY DEF Init, VirginStore
<1>2. Radix - 1 \in 0 .. Radix - 1 /\ (Radix - 1) * Radix + (Radix - 1) = Radix * Radix - 1
  BY NodeAssumption, SMT
<1>3. WillHold(store, pending, "mode", UNINITIALISED)
  BY <1>1, NothingPending
<1>4. WillHoldNumber(store, pending, Radix * Radix - 1)
  BY <1>1, <1>2, NothingPending DEF WillHoldNumber
<1>. QED BY <1>1, <1>3, <1>4 DEF NumberInv, StoreWellNumbered

LEMMA NumberInvStep ==
  ASSUME ~TornWrites, TypeOK, RamWillBeStored, RamWillBeStored', NumberInv, [Next]_vars
  PROVE  NumberInv'
<1>. USE DEF mns, config, disk
<1>1. ASSUME UNCHANGED <<store, pending>> PROVE StoreWellNumbered'
  BY <1>1 DEF NumberInv, StoreWellNumbered
<1>2. CASE UNCHANGED vars
  BY <1>1, <1>2 DEF vars, NumberInv
<1>3. CASE Next
  <2>1. Effect
    BY <1>3, Effects
  <2>2. ASSUME power' = "on" PROVE WellNumbered(currentMode', nodeNum')
    <3>1. CASE power = "on"
      <4>1. CASE \E n \in NodeNumber : Numbered(n)
        <5>1. msg \in Frames /\ msg.opc = "SNN" /\ nodeNum' = msg.nn /\ currentMode' = NORMAL
          BY <4>1, Dispatched DEF Numbered, Received, TypeOK, msg
        <5>. QED BY <5>1 DEF WellNumbered, Given, UNINITIALISED, NORMAL
      <4>2. CASE Forgets
        BY <4>2 DEF Forgets, WellNumbered, Given
      <4>3. CASE UNCHANGED <<currentMode, nodeNum>>
        BY <3>1, <4>3 DEF NumberInv
      <4>. QED BY <2>1, <2>2, <3>1, <4>1, <4>2, <4>3
               DEF Effect, Quiet, EntersSetup, LeavesSetup, Beats, Learns, Resets, Boot,
                   WriteByte, PowerLoss
    <3>2. CASE power # "on"
      <4>1. Boot
        BY <2>1, <2>2, <3>2 DEF Effect, Quiet, EntersSetup, LeavesSetup, Forgets, Numbered,
           Beats, Learns, Resets, WriteByte, PowerLoss, Received, Dispatching, Running
      <4>2. /\ pending = <<>> /\ currentMode' = store.mode
            /\ nodeNum' = store.nnHigh * Radix + store.nnLow
            /\ ~(store.mode = UNINITIALISED /\ nodeNum' = Radix * Radix - 1)
        BY <4>1 DEF Boot, StoredNumber, IsVirgin
      <4>3. PICK m, n : /\ WillHold(store, pending, "mode", m)
                        /\ WillHoldNumber(store, pending, n)
                        /\ \/ WellNumbered(m, n)
                           \/ m = UNINITIALISED /\ n = Radix * Radix - 1
        BY DEF NumberInv, StoreWellNumbered
      <4>4. store.mode = m /\ n = nodeNum'
        BY <4>2, <4>3, NothingPending DEF WillHoldNumber
      <4>. QED BY <4>2, <4>3, <4>4
    <3>. QED BY <3>1, <3>2
  <2>3. StoreWellNumbered'
    <3>1. CASE power' = "on"
      BY <2>2, <3>1 DEF RamWillBeStored, StoreWellNumbered
    <3>2. CASE power' # "on"
      <4>1. CASE UNCHANGED <<store, pending>>
        BY <1>1, <4>1
      <4>2. CASE Resets
        <5>1. pending' = ResetScript
          BY <4>2 DEF Resets
        <5>2. Given(0)
          BY DEF Given
        <5>. QED BY <5>1, <5>2, ResetOutcome DEF StoreWellNumbered, WellNumbered
      <4>3. CASE WriteByte
        <5>1. \A c \in IdentityCell : \A v :
                WillHold(store, pending, c, v) => WillHold(store', pending', c, v)
          BY <4>3, WriteKeepsOutcome DEF WriteByte, TypeOK, DiskType
        <5>. QED BY <5>1 DEF NumberInv, StoreWellNumbered, WillHoldNumber, IdentityCell
      <4>4. CASE PowerLoss
        BY <1>1, <4>4 DEF PowerLoss
      <4>5. CASE ~(Resets \/ WriteByte \/ PowerLoss)
        BY <2>1, <3>2, <4>1, <4>5
           DEF Effect, Quiet, EntersSetup, LeavesSetup, Forgets, Numbered, Beats, Learns, Boot,
               Received, Dispatching, Running
      <4>. QED BY <4>2, <4>3, <4>4, <4>5
    <3>. QED BY <3>1, <3>2
  <2>. QED BY <2>2, <2>3 DEF NumberInv
<1>. QED BY <1>2, <1>3

(* When power never fails between two bytes of one handler, a node that    *)
(* runs has a number that some SNN gave it, or none, and an Uninitialised  *)
(* one has none.                                                           *)
THEOREM NumbersAreGiven ==
  ASSUME ~TornWrites
  PROVE  Spec => []NumberWasGiven
<1>1. Init => RamWillBeStored
  BY DEF Init, RamWillBeStored
<1>2. NumberInv => NumberWasGiven
  BY DEF NumberInv, NumberWasGiven, WellNumbered, Given, Running
<1>3. TypeOK /\ RamWillBeStored /\ RamWillBeStored' /\ NumberInv /\ [Next]_vars
        => NumberInv'
  BY NumberInvStep
<1>. QED BY <1>1, <1>2, <1>3, VirginIsWell, RamStep, TypeCorrect, PTL DEF Spec
-----------------------------------------------------------------------------
(* The room that the queue needs.                                          *)

(* The passes of the loop that an action takes with all it leads to, and   *)
(* the most places that it and what it leads to will take at a time.       *)
Passes ==
  [a \in Action |-> CASE a.type = "MESSAGE_IN"  -> 7
                      [] a.type = "CHANGE_MODE" -> 5
                      [] a.type = "RENEGOTIATE" -> 4
                      [] a.type = "MESSAGE_OUT" -> 2
                      [] OTHER -> 1]
Places ==
  [a \in Action |-> CASE a.type = "MESSAGE_IN"  -> 4
                      [] a.type = "CHANGE_MODE" -> 3
                      [] a.type = "RENEGOTIATE" -> 2
                      [] OTHER -> 1]

Cost == [Action -> Nat \ {0}]

(* The actions of q cost at most n: p adds their costs up.  A sum that at  *)
(* any place has grown by one at least shows also how long q is.           *)
Adds(p, q, f, n) ==
  /\ p \in [0 .. Len(q) -> Int]
  /\ p[0] = 0 /\ p[Len(q)] <= n
  /\ \A i \in 1 .. Len(q) : p[i] >= p[i - 1] + f[q[i]]
  /\ \A i, j \in 0 .. Len(q) : i <= j => p[j] - p[i] >= j - i

Costs(q, f, n) == \E p : Adds(p, q, f, n)

(* Arithmetic on sums, for terms that the provers would take apart.        *)
LEMMA Shifted ==
  ASSUME NEW a \in Int, NEW b \in Int, NEW c \in Int, NEW d \in Int, b >= c + d
  PROVE  /\ a + b >= (a + c) + d /\ b - a >= (c - a) + d
         /\ c = 0 => b >= d
BY SMT

LEMMA Under ==
  ASSUME NEW a \in Int, NEW b \in Int, NEW c \in Int, NEW d \in Int, NEW e \in Int,
         a <= b - c
  PROVE  /\ b <= e => a <= e - c
         /\ e >= b + d => e - c >= a + d
         /\ e - b >= d => (e - c) - a >= d
BY SMT

LEMMA CostIsInt ==
  ASSUME NEW f \in Cost, NEW a \in Action
  PROVE  f[a] \in Int /\ f[a] >= 1
<1>1. f[a] \in Nat \ {0}
  BY DEF Cost
<1>2. \A n \in Nat \ {0} : n \in Int /\ n >= 1
  BY SMT
<1>. QED BY <1>1, <1>2

LEMMA CostOfNone ==
  ASSUME NEW f \in Cost
  PROVE  Costs(<<>>, f, 0)
<1>. DEFINE p == [i \in 0 .. 0 |-> 0]
<1>1. Len(<<>>) = 0 /\ 1 .. 0 = {} /\ \A i \in 0 .. 0 : i = 0
  BY SMT
<1>2. Adds(p, <<>>, f, 0)
  BY <1>1, SMT DEF Adds
<1>. QED BY <1>2 DEF Costs

LEMMA CostOfOne ==
  ASSUME NEW f \in Cost, NEW a \in Action, NEW n \in Int, f[a] <= n
  PROVE  Costs(<< a >>, f, n)
<1>. DEFINE q == << a >>
            p == [i \in 0 .. 1 |-> IF i = 0 THEN 0 ELSE f[a]]
<1>1. f[a] \in Nat /\ f[a] >= 1
  BY SMT DEF Cost
<1>2. Len(q) = 1 /\ q[1] = a
  OBVIOUS
<1>3. p \in [0 .. 1 -> Int] /\ p[0] = 0 /\ p[1] = f[a]
  BY <1>1, SMT
<1>4. \A i, j \in 0 .. 1 : i <= j => (i = j \/ (i = 0 /\ j = 1))
  BY SMT
<1>5. \A i \in 1 .. 1 : i = 1 /\ i - 1 = 0
  BY SMT
<1>. HIDE DEF p, q
<1>6. \A i, j \in 0 .. 1 : i <= j => p[j] - p[i] >= j - i
  BY <1>1, <1>3, <1>4, SMT
<1>7. \A i \in 1 .. 1 : p[i] >= p[i - 1] + f[q[i]]
  BY <1>1, <1>2, <1>3, <1>5, SMT
<1>8. Adds(p, q, f, n)
  BY <1>2, <1>3, <1>6, <1>7 DEF Adds
<1>. QED BY <1>8 DEF Costs, q

LEMMA CostOfBoth ==
  ASSUME NEW f \in Cost, NEW q \in Seq(Action), NEW s \in Seq(Action),
         NEW n \in Int, NEW m \in Int, Costs(q, f, n), Costs(s, f, m)
  PROVE  Costs(q \o s, f, n + m)
<1>. DEFINE r == q \o s
            k == Len(q)
            l == Len(s)
<1>1. PICK p : Adds(p, q, f, n)
  BY DEF Costs
<1>2. PICK t : Adds(t, s, f, m)
  BY DEF Costs
<1>. DEFINE u == [i \in 0 .. k + l |-> IF i <= k THEN p[i] ELSE p[k] + t[i - k]]
<1>3. k \in Nat /\ l \in Nat /\ Len(r) = k + l
      /\ \A i \in 1 .. k + l : r[i] = IF i <= k THEN q[i] ELSE s[i - k]
  BY ConcatProperties, LenProperties
<1>4. /\ \A i \in 1 .. k : f[q[i]] \in Int
      /\ \A i \in 1 .. l : f[s[i]] \in Int
  BY <1>3, ElementOfSeq, CostIsInt
<1>. HIDE DEF k, l, r
<1>5. /\ p \in [0 .. k -> Int] /\ p[0] = 0 /\ p[k] <= n
      /\ \A i \in 1 .. k : p[i] >= p[i - 1] + f[q[i]]
      /\ \A i, j \in 0 .. k : i <= j => p[j] - p[i] >= j - i
  BY <1>1 DEF Adds, k
<1>6. /\ t \in [0 .. l -> Int] /\ t[0] = 0 /\ t[l] <= m
      /\ \A i \in 1 .. l : t[i] >= t[i - 1] + f[s[i]]
      /\ \A i, j \in 0 .. l : i <= j => t[j] - t[i] >= j - i
  BY <1>2 DEF Adds, l
<1>7. k \in 0 .. k /\ 0 \in 0 .. k /\ l \in 0 .. l /\ 0 \in 0 .. l /\ p[k] \in Int
  BY <1>3, <1>5, SMT
<1>8. \A i \in 0 .. k + l : IF i <= k THEN i \in 0 .. k ELSE i - k \in 1 .. l
  BY <1>3, SMT
<1>9. /\ u \in [0 .. k + l -> Int]
      /\ \A i \in 0 .. k : u[i] = p[i]
      /\ \A i \in 0 .. l : k + i \in 0 .. k + l /\ u[k + i] = p[k] + t[i]
  <2>1. ASSUME NEW i \in 0 .. l PROVE k + i \in 0 .. k + l /\ u[k + i] = p[k] + t[i]
    <3>1. k + i \in 0 .. k + l /\ (k + i) - k = i /\ (k + i <= k <=> i = 0)
      BY <1>3, SMT
    <3>2. CASE i = 0
      <4>1. k + i = k /\ k \in 0 .. k + l /\ k <= k
        BY <1>3, <3>2, SMT
      <4>2. u[k + i] = p[k]
        BY <4>1
      <4>3. p[k] + t[i] = p[k]
        BY <1>6, <1>7, <3>2, SMT
      <4>. QED BY <3>1, <4>2, <4>3
    <3>3. CASE i # 0
      BY <3>1, <3>3
    <3>. QED BY <3>2, <3>3
  <2>2. ASSUME NEW i \in 0 .. k PROVE u[i] = p[i]
    <3>1. i \in 0 .. k + l /\ i <= k
      BY <1>3, SMT
    <3>. QED BY <3>1
  <2>3. ASSUME NEW i \in 0 .. k + l
        PROVE  (IF i <= k THEN p[i] ELSE p[k] + t[i - k]) \in Int
    <3>1. CASE i <= k
      BY <1>5, <1>8, <3>1
    <3>2. CASE ~(i <= k)
      <4>1. i - k \in 0 .. l
        BY <1>3, <1>8, <3>2, SMT
      <4>2. t[i - k] \in Int
        BY <1>6, <4>1
      <4>. QED BY <1>7, <3>2, <4>2, SMT
    <3>. QED BY <3>1, <3>2
  <2>. QED BY <2>1, <2>2, <2>3
<1>. HIDE DEF u
<1>10. u[0] = 0 /\ u[k + l] <= n + m
  <2>1. u[0] = 0
    BY <1>5, <1>7, <1>9
  <2>2. u[k + l] = p[k] + t[l] /\ t[l] \in Int
    BY <1>6, <1>7, <1>9
  <2>. QED BY <1>5, <1>6, <1>7, <2>1, <2>2, SMT
<1>11. ASSUME NEW i \in 1 .. k + l PROVE u[i] >= u[i - 1] + f[r[i]]
  <2>1. CASE i <= k
    <3>1. i \in 1 .. k /\ i \in 0 .. k /\ i - 1 \in 0 .. k
      BY <1>3, <2>1, SMT
    <3>2. u[i] = p[i] /\ u[i - 1] = p[i - 1] /\ r[i] = q[i]
      BY <1>3, <1>9, <2>1, <3>1
    <3>. QED BY <1>5, <3>1, <3>2
  <2>2. CASE ~(i <= k)
    <3>. DEFINE j == i - k
    <3>1. j \in 1 .. l /\ j \in 0 .. l /\ j - 1 \in 0 .. l /\ i = k + j /\ i - 1 = k + (j - 1)
      BY <1>3, <2>2, SMT
    <3>2. r[i] = s[j]
      BY <1>3, <2>2
    <3>. HIDE DEF j
    <3>3. u[i] = p[k] + t[j] /\ u[i - 1] = p[k] + t[j - 1]
      BY <1>9, <3>1
    <3>4. t[j] >= t[j - 1] + f[s[j]] /\ t[j] \in Int /\ t[j - 1] \in Int /\ f[s[j]] \in Int
      BY <1>4, <1>6, <3>1
    <3>5. p[k] + t[j] >= (p[k] + t[j - 1]) + f[s[j]]
      BY <1>7, <3>4, Shifted
    <3>. QED BY <3>2, <3>3, <3>5
  <2>. QED BY <2>1, <2>2
<1>12. ASSUME NEW i \in 0 .. k + l, NEW j \in 0 .. k + l, i <= j
       PROVE  u[j] - u[i] >= j - i
  <2>1. CASE j <= k
    <3>1. i \in 0 .. k /\ j \in 0 .. k
      BY <1>3, <1>12, <2>1, SMT
    <3>. QED BY <1>5, <1>9, <1>12, <3>1
  <2>2. CASE ~(i <= k)
    <3>. DEFINE x == i - k
                y == j - k
    <3>1. x \in 0 .. l /\ y \in 0 .. l /\ i = k + x /\ j = k + y /\ x <= y
      BY <1>3, <1>12, <2>2, SMT
    <3>. HIDE DEF x, y
    <3>2. u[i] = p[k] + t[x] /\ u[j] = p[k] + t[y] /\ t[x] \in Int /\ t[y] \in Int
      BY <1>6, <1>9, <3>1
    <3>3. t[y] - t[x] >= y - x
      BY <1>6, <3>1
    <3>. QED BY <1>3, <1>7, <3>1, <3>2, <3>3, SMT
  <2>3. CASE i <= k /\ ~(j <= k)
    <3>. DEFINE y == j - k
    <3>1. i \in 0 .. k /\ y \in 0 .. l /\ j = k + y /\ 0 <= y
      BY <1>3, <2>3, SMT
    <3>. HIDE DEF y
    <3>2. u[i] = p[i] /\ u[j] = p[k] + t[y] /\ t[y] \in Int /\ p[i] \in Int
      BY <1>5, <1>6, <1>9, <3>1
    <3>3. p[k] - p[i] >= k - i
      BY <1>5, <1>7, <2>3, <3>1
    <3>4. t[y] - t[0] >= y - 0
      BY <1>6, <1>7, <3>1
    <3>5. y \in Int /\ i \in Int /\ k \in Int
      BY <1>3, <3>1, SMT
    <3>6. t[0] = 0
      BY <1>6
    <3>7. t[y] >= y
      BY <3>2, <3>4, <3>5, <3>6, SMT
    <3>8. (p[k] + t[y]) - p[i] >= (k + y) - i
      BY <1>7, <3>2, <3>3, <3>5, <3>7, SMT
    <3>. QED BY <3>1, <3>2, <3>8
  <2>. QED BY <2>1, <2>2, <2>3
<1>13. Adds(u, r, f, n + m)
  BY <1>3, <1>9, <1>10, <1>11, <1>12 DEF Adds
<1>. QED BY <1>13 DEF Costs, r

LEMMA CostOfTail ==
  ASSUME NEW f \in Cost, NEW q \in Seq(Action), q # <<>>, NEW n \in Int, Costs(q, f, n)
  PROVE  Costs(Tail(q), f, n - f[Head(q)])
<1>. DEFINE r == Tail(q)
            k == Len(q) - 1
            c == f[Head(q)]
<1>1. PICK p : Adds(p, q, f, n)
  BY DEF Costs
<1>. DEFINE u == [i \in 0 .. k |-> IF i = 0 THEN 0 ELSE p[i + 1] - c]
<1>2. /\ k \in Nat /\ Len(q) = k + 1 /\ Len(r) = k /\ c \in Int /\ c = f[q[1]]
      /\ \A i \in 1 .. k : r[i] = q[i + 1]
  <2>1. /\ r \in Seq(Action) /\ Len(r) = Len(q) - 1
        /\ Head(q) = q[1] /\ Head(q) \in Action
        /\ \A i \in 1 .. Len(r) : r[i] = q[i + 1]
    BY HeadTailProperties, SMT
  <2>2. Len(q) \in Nat /\ Len(r) \in Nat
    BY <2>1, LenProperties
  <2>3. k \in Nat /\ Len(q) = k + 1 /\ Len(r) = k
    BY <2>1, <2>2, SMT
  <2>4. c \in Int
    BY <2>1, CostIsInt
  <2>. QED BY <2>1, <2>3, <2>4
<1>3. \A i \in 1 .. k : f[q[i + 1]] \in Int
  <2>1. \A i \in 1 .. k : i + 1 \in 1 .. Len(q)
    BY <1>2, SMT
  <2>. QED BY <2>1, ElementOfSeq, CostIsInt
<1>. HIDE DEF k, r, c
<1>4. /\ p \in [0 .. k + 1 -> Int] /\ p[0] = 0 /\ p[k + 1] <= n
      /\ \A i \in 1 .. k + 1 : p[i] >= p[i - 1] + f[q[i]]
      /\ \A i, j \in 0 .. k + 1 : i <= j => p[j] - p[i] >= j - i
  BY <1>1, <1>2 DEF Adds
<1>5. 1 \in 1 .. k + 1 /\ 1 \in 0 .. k + 1 /\ p[1] \in Int /\ p[1] >= c
  <2>1. 1 \in 1 .. k + 1 /\ 1 \in 0 .. k + 1 /\ 1 - 1 = 0
    BY <1>2, SMT
  <2>2. p[1] >= p[0] + f[q[1]] /\ p[1] \in Int
    BY <1>4, <2>1
  <2>3. p[0] \in Int /\ p[0] = 0 /\ c \in Int
    <3>1. 0 \in Int
      BY SMT
    <3>. QED BY <1>2, <1>4, <3>1
  <2>. QED BY <1>2, <2>1, <2>2, <2>3, Shifted
<1>6. \A i \in 0 .. k : i + 1 \in 0 .. k + 1 /\ p[i + 1] \in Int
  <2>1. \A i \in 0 .. k : i + 1 \in 0 .. k + 1
    BY <1>2, SMT
  <2>. QED BY <1>4, <2>1
<1>7. \A i \in 0 .. k : u[i] = IF i = 0 THEN 0 ELSE p[i + 1] - c
  OBVIOUS
<1>8. u \in [0 .. k -> Int]
  BY <1>2, <1>6, SMT
<1>. HIDE DEF u
<1>9. u[0] = 0 /\ 0 \in 0 .. k /\ k \in 0 .. k
  <2>1. 0 \in 0 .. k /\ k \in 0 .. k
    BY <1>2, SMT
  <2>. QED BY <1>7, <2>1
(* The first sum is no larger than what is left of the second.             *)
<1>10. \A i \in 0 .. k : u[i] <= p[i + 1] - c
  <2>1. TAKE i \in 0 .. k
  <2>2. CASE i = 0
    <3>1. p[i + 1] = p[1]
      BY <2>2, SMT
    <3>. QED BY <1>2, <1>5, <1>9, <2>2, <3>1, SMT
  <2>3. CASE i # 0
    <3>1. u[i] = p[i + 1] - c /\ u[i] \in Int
      BY <1>7, <1>8, <2>3
    <3>. QED BY <3>1, SMT
  <2>. QED BY <2>2, <2>3
<1>11. u[k] <= n - c
  <2>1. u[k] <= p[k + 1] - c /\ u[k] \in Int /\ p[k + 1] \in Int
    BY <1>6, <1>8, <1>9, <1>10
  <2>2. p[k + 1] <= n /\ c \in Int
    BY <1>2, <1>4
  <2>. QED BY <2>1, <2>2, Under
<1>12. ASSUME NEW i \in 1 .. k PROVE u[i] >= u[i - 1] + f[r[i]]
  <2>1. i \in 0 .. k /\ i - 1 \in 0 .. k /\ i # 0 /\ (i - 1) + 1 = i
        /\ i + 1 \in 1 .. k + 1 /\ (i + 1) - 1 = i
    BY <1>2, SMT
  <2>2. u[i] = p[i + 1] - c
    BY <1>7, <2>1
  <2>3. u[i - 1] <= p[i] - c /\ u[i - 1] \in Int /\ p[i] \in Int
    <3>1. u[i - 1] <= p[(i - 1) + 1] - c
      BY <1>10, <2>1
    <3>2. i \in 0 .. k + 1
      BY <1>2, <2>1, SMT
    <3>. QED BY <1>4, <1>8, <2>1, <3>1, <3>2
  <2>4. p[i + 1] >= p[(i + 1) - 1] + f[q[i + 1]]
    BY <1>4, <2>1
  <2>5. p[i + 1] >= p[i] + f[q[i + 1]] /\ p[i + 1] \in Int /\ f[q[i + 1]] \in Int
    BY <1>3, <1>6, <2>1, <2>4
  <2>6. p[i + 1] - c >= u[i - 1] + f[q[i + 1]]
    <3>1. c \in Int /\ f[q[i + 1]] \in Int
      BY <1>2, <2>5
    <3>. QED BY <2>3, <2>5, <3>1, Under
  <2>. QED BY <1>2, <2>2, <2>6
<1>13. ASSUME NEW i \in 0 .. k, NEW j \in 0 .. k, i <= j PROVE u[j] - u[i] >= j - i
  <2>1. CASE i = j
    <3>1. u[j] - u[i] = 0 /\ j - i = 0
      BY <1>8, <2>1, SMT
    <3>. QED BY <3>1, SMT
  <2>2. CASE i # j
    <3>1. j # 0 /\ i + 1 \in 0 .. k + 1 /\ j + 1 \in 0 .. k + 1 /\ i + 1 <= j + 1
      BY <1>2, <1>13, <2>2, SMT
    <3>2. u[j] = p[j + 1] - c /\ u[i] <= p[i + 1] - c /\ u[i] \in Int
      BY <1>7, <1>8, <1>10, <3>1
    <3>3. p[j + 1] - p[i + 1] >= (j + 1) - (i + 1)
      BY <1>4, <3>1
    <3>4. p[j + 1] \in Int /\ p[i + 1] \in Int /\ i \in Int /\ j \in Int
      BY <1>6, SMT
    <3>5. (j + 1) - (i + 1) = j - i /\ j - i \in Int /\ c \in Int
      BY <1>2, <3>4, SMT
    <3>6. (p[j + 1] - c) - u[i] >= j - i
      <4>1. p[j + 1] - p[i + 1] >= j - i
        BY <3>3, <3>5
      <4>. QED BY <3>2, <3>4, <3>5, <4>1, Under
    <3>. QED BY <3>2, <3>6
  <2>. QED BY <2>1, <2>2
<1>14. Adds(u, r, f, n - c)
  BY <1>2, <1>8, <1>9, <1>11, <1>12, <1>13 DEF Adds
<1>. QED BY <1>14 DEF Costs, r, c

LEMMA CostMore ==
  ASSUME NEW f \in Cost, NEW q \in Seq(Action), NEW n \in Int, NEW m \in Int,
         Costs(q, f, n), n <= m
  PROVE  Costs(q, f, m)
<1>1. PICK p : Adds(p, q, f, n)
  BY DEF Costs
<1>2. p[Len(q)] \in Int /\ p[Len(q)] <= n
  <2>1. Len(q) \in 0 .. Len(q)
    BY LenProperties, SMT
  <2>. QED BY <1>1, <2>1 DEF Adds
<1>3. p[Len(q)] <= m
  BY <1>2, SMT
<1>4. Adds(p, q, f, m)
  BY <1>1, <1>3 DEF Adds
<1>. QED BY <1>4 DEF Costs

LEMMA CostAndLength ==
  ASSUME NEW f \in Cost, NEW q \in Seq(Action), NEW n \in Int, Costs(q, f, n)
  PROVE  Len(q) <= n /\ Len(q) \in Nat
<1>1. PICK p : Adds(p, q, f, n)
  BY DEF Costs
<1>2. Len(q) \in Nat /\ Len(q) \in 0 .. Len(q) /\ 0 \in 0 .. Len(q) /\ 0 <= Len(q)
  BY LenProperties, SMT
<1>3. /\ p[Len(q)] - p[0] >= Len(q) - 0 /\ p[0] = 0
      /\ p[Len(q)] \in Int /\ p[Len(q)] <= n
  BY <1>1, <1>2 DEF Adds
<1>. QED BY <1>2, <1>3, SMT

(* What is never dearer costs no more.                                     *)
LEMMA CheaperCost ==
  ASSUME NEW f \in Cost, NEW g \in Cost, \A a \in Action : g[a] <= f[a],
         NEW q \in Seq(Action), NEW n \in Int, Costs(q, f, n)
  PROVE  Costs(q, g, n)
<1>1. PICK p : Adds(p, q, f, n)
  BY DEF Costs
<1>2. ASSUME NEW i \in 1 .. Len(q) PROVE p[i] >= p[i - 1] + g[q[i]]
  <2>1. i \in 0 .. Len(q) /\ i - 1 \in 0 .. Len(q)
    BY LenProperties, SMT
  <2>2. p[i] \in Int /\ p[i - 1] \in Int /\ p[i] >= p[i - 1] + f[q[i]]
    BY <1>1, <2>1 DEF Adds
  <2>3. q[i] \in Action
    BY ElementOfSeq
  <2>4. g[q[i]] <= f[q[i]] /\ g[q[i]] \in Int /\ f[q[i]] \in Int
    BY <2>3, SMT DEF Cost
  <2>. QED BY <2>2, <2>4, SMT
<1>3. Adds(p, q, g, n)
  BY <1>1, <1>2 DEF Adds
<1>. QED BY <1>3 DEF Costs

(* What can be put on the queue at a price of w passes and n places.       *)
Affords(s, w, n) ==
  s \in Seq(Action) /\ Costs(s, Passes, w) /\ Costs(s, Places, n)

LEMMA Prices ==
  /\ Passes \in Cost /\ Places \in Cost
  /\ \A a \in Action : Places[a] <= Passes[a]
<1>1. ASSUME NEW a \in Action
      PROVE  Passes[a] \in Nat \ {0} /\ Places[a] \in Nat \ {0} /\ Places[a] <= Passes[a]
  BY SMT DEF Passes, Places
<1>2. Passes \in Cost /\ Places \in Cost
  BY <1>1 DEF Passes, Places, Cost
<1>. QED BY <1>1, <1>2

LEMMA PricesOf ==
  /\ \A opc \in OutOpc, nn \in NodeNumber :
       Passes[Out(opc, nn)] = 2 /\ Places[Out(opc, nn)] = 1
  /\ \A m \in Mode : Passes[Indicate(m)] = 1 /\ Places[Indicate(m)] = 1
  /\ Passes[Work] = 1 /\ Places[Work] = 1 /\ Passes[Activity] = 1 /\ Places[Activity] = 1
  /\ LET a == Plain("START_CAN_ENUMERATION") IN Passes[a] = 1 /\ Places[a] = 1
  /\ LET a == Plain("RENEGOTIATE") IN Passes[a] = 4 /\ Places[a] = 2
  /\ LET a == Plain("CHANGE_MODE") IN Passes[a] = 5 /\ Places[a] = 3
  /\ \A f \in Frames : Passes[In(f)] = 7 /\ Places[In(f)] = 4
<1>1. /\ \A t \in PlainAct : Plain(t) \in Action /\ Plain(t).type = t
      /\ Work \in Action /\ Work.type = "INDICATE_WORK"
      /\ Activity \in Action /\ Activity.type = "INDICATE_ACTIVITY"
      /\ \A m \in Mode : Indicate(m) \in Action /\ Indicate(m).type = "INDICATE_MODE"
      /\ \A opc \in OutOpc, nn \in NodeNumber :
           Out(opc, nn) \in Action /\ Out(opc, nn).type = "MESSAGE_OUT"
      /\ \A f \in Frames : In(f) \in Action /\ In(f).type = "MESSAGE_IN"
  BY Actions DEF Plain, Work, Activity, Indicate, Out, In
<1>2. ASSUME NEW a \in Action
      PROVE  /\ a.type = "MESSAGE_IN"  => Passes[a] = 7 /\ Places[a] = 4
             /\ a.type = "CHANGE_MODE" => Passes[a] = 5 /\ Places[a] = 3
             /\ a.type = "RENEGOTIATE" => Passes[a] = 4 /\ Places[a] = 2
             /\ a.type = "MESSAGE_OUT" => Passes[a] = 2 /\ Places[a] = 1
             /\ a.type \in {"INDICATE_MODE", "INDICATE_WORK", "INDICATE_ACTIVITY",
                            "START_CAN_ENUMERATION"} => Passes[a] = 1 /\ Places[a] = 1
  BY DEF Passes, Places
<1>. QED BY <1>1, <1>2 DEF PlainAct

LEMMA PriceOfHead ==
  ASSUME QueueType, NEW t, Dispatching(t)
  PROVE  /\ Head(queue) \in Action
         /\ t = "MESSAGE_IN"  => Passes[Head(queue)] = 7 /\ Places[Head(queue)] = 4
         /\ t = "CHANGE_MODE" => Passes[Head(queue)] = 5 /\ Places[Head(queue)] = 3
         /\ t = "RENEGOTIATE" => Passes[Head(queue)] = 4 /\ Places[Head(queue)] = 2
         /\ t = "MESSAGE_OUT" => Passes[Head(queue)] = 2 /\ Places[Head(queue)] = 1
<1>1. Head(queue) \in Action /\ Head(queue).type = t
  BY HeadTailProperties DEF QueueType, Dispatching
<1>. QED BY <1>1 DEF Passes, Places

LEMMA AffordsNone == Affords(<<>>, 0, 0)
BY CostOfNone, Prices DEF Affords

LEMMA AffordsOne ==
  ASSUME NEW a \in Action, NEW w \in Int, NEW n \in Int, Passes[a] <= w, Places[a] <= n
  PROVE  Affords(<< a >>, w, n)
BY CostOfOne, Prices DEF Affords

LEMMA AffordsBoth ==
  ASSUME NEW s, NEW t, NEW w \in Int, NEW n \in Int, NEW v \in Int, NEW m \in Int,
         Affords(s, w, n), Affords(t, v, m)
  PROVE  Affords(s \o t, w + v, n + m)
<1>1. s \o t \in Seq(Action)
  BY ConcatProperties DEF Affords
<1>. QED BY <1>1, CostOfBoth, Prices DEF Affords

LEMMA AffordsMore ==
  ASSUME NEW s, NEW w \in Int, NEW n \in Int, NEW v \in Int, NEW m \in Int,
         Affords(s, w, n), w <= v, n <= m
  PROVE  Affords(s, v, m)
BY CostMore, Prices DEF Affords

(* A short sequence is put together of its elements.                       *)
LEMMA Couple ==
  ASSUME NEW a \in Action, NEW b \in Action
  PROVE  << a, b >> = << a >> \o << b >>
<1>. DEFINE r == << a >> \o << b >>
            t == << a, b >>
<1>1. << a >> \in Seq(Action) /\ << b >> \in Seq(Action) /\ t \in Seq(Action)
  OBVIOUS
<1>2. /\ r \in Seq(Action) /\ Len(r) = 2
      /\ \A i \in 1 .. 2 : r[i] = IF i = 1 THEN a ELSE b
  <2>1. Len(<< a >>) = 1 /\ Len(<< b >>) = 1 /\ << a >>[1] = a /\ << b >>[1] = b
    OBVIOUS
  <2>2. /\ r \in Seq(Action) /\ Len(r) = 1 + 1
        /\ \A i \in 1 .. 1 + 1 : r[i] = IF i <= 1 THEN << a >>[i] ELSE << b >>[i - 1]
    BY <1>1, <2>1, ConcatProperties
  <2>3. 1 + 1 = 2 /\ \A i \in 1 .. 2 : (i <= 1 <=> i = 1) /\ (i # 1 => i - 1 = 1)
    BY SMT
  <2>. HIDE DEF r
  <2>4. \A i \in 1 .. 2 : r[i] = IF i = 1 THEN a ELSE b
    BY <2>1, <2>2, <2>3
  <2>. QED BY <2>2, <2>3, <2>4
<1>. HIDE DEF r
<1>3. Len(t) = 2 /\ t[1] = a /\ t[2] = b /\ \A i \in 1 .. 2 : i = 1 \/ i = 2
  BY SMT
<1>. HIDE DEF t
<1>4. \A i \in 1 .. 2 : t[i] = r[i]
  BY <1>2, <1>3, SMT
<1>5. t = r
  BY <1>1, <1>2, <1>3, <1>4, SeqEqual
<1>. QED BY <1>5 DEF r, t

LEMMA Triple ==
  ASSUME NEW a \in Action, NEW b \in Action, NEW c \in Action
  PROVE  << a, b, c >> = (<< a >> \o << b >>) \o << c >>
<1>. DEFINE u == << a, b >>
            r == u \o << c >>
            t == << a, b, c >>
<1>1. u \in Seq(Action) /\ << c >> \in Seq(Action) /\ t \in Seq(Action)
  OBVIOUS
<1>2. /\ r \in Seq(Action) /\ Len(r) = 3
      /\ \A i \in 1 .. 3 : r[i] = IF i = 1 THEN a ELSE IF i = 2 THEN b ELSE c
  <2>1. Len(u) = 2 /\ u[1] = a /\ u[2] = b /\ Len(<< c >>) = 1 /\ << c >>[1] = c
    OBVIOUS
  <2>. HIDE DEF u
  <2>2. /\ r \in Seq(Action) /\ Len(r) = 2 + 1
        /\ \A i \in 1 .. 2 + 1 : r[i] = IF i <= 2 THEN u[i] ELSE << c >>[i - 2]
    BY <1>1, <2>1, ConcatProperties
  <2>3. 2 + 1 = 3 /\ \A i \in 1 .. 3 : (i <= 2 <=> i \in {1, 2}) /\ (~(i <= 2) => i - 2 = 1)
    BY SMT
  <2>. HIDE DEF r
  <2>4. ASSUME NEW i \in 1 .. 3 PROVE r[i] = IF i = 1 THEN a ELSE IF i = 2 THEN b ELSE c
    BY <2>1, <2>2, <2>3
  <2>. QED BY <2>2, <2>3, <2>4
<1>. HIDE DEF r
<1>3. /\ Len(t) = 3 /\ t[1] = a /\ t[2] = b /\ t[3] = c
      /\ \A i \in 1 .. 3 : i = 1 \/ i = 2 \/ i = 3
  BY SMT
<1>. HIDE DEF t
<1>4. \A i \in 1 .. 3 : t[i] = r[i]
  BY <1>2, <1>3, SMT
<1>5. t = r
  BY <1>1, <1>2, <1>3, <1>4, SeqEqual
<1>6. u = << a >> \o << b >>
  BY Couple
<1>. QED BY <1>5, <1>6 DEF r, t

(* Short answers of actions that only indicate or are sent.                *)
LEMMA ShortAnswers ==
  ASSUME NEW a \in Action, NEW b \in Action, NEW c \in Action,
         Passes[a] <= 2, Places[a] = 1, Passes[b] <= 2, Places[b] = 1,
         Passes[c] <= 2, Places[c] = 1
  PROVE  Affords(<< a >>, 6, 4) /\ Affords(<< a, b >>, 6, 4) /\ Affords(<< a, b, c >>, 6, 4)
<1>1. \A x \in {a, b, c} : Affords(<< x >>, 2, 1)
  BY AffordsOne
<1>2. Affords(<< a >> \o << b >>, 2 + 2, 1 + 1)
  BY <1>1, AffordsBoth
<1>3. Affords((<< a >> \o << b >>) \o << c >>, (2 + 2) + 2, (1 + 1) + 1)
  BY <1>1, <1>2, AffordsBoth
<1>4. << a, b >> = << a >> \o << b >> /\ << a, b, c >> = (<< a >> \o << b >>) \o << c >>
  BY Couple, Triple
<1>5. 2 + 2 = 4 /\ 4 + 2 = 6 /\ 1 + 1 = 2 /\ 2 + 1 = 3
  BY SMT
<1>6. Affords(<< a, b >>, 4, 2) /\ Affords(<< a, b, c >>, 6, 3)
  BY <1>2, <1>3, <1>4, <1>5
<1>. QED BY <1>1, <1>6, AffordsMore

LEMMA InitSetupAnswer ==
  ASSUME TypeOK, NEW b, NEW a, InitSetup(b, a),
         NEW w \in Int, NEW n \in Int, NEW v \in Int, NEW m \in Int,
         Affords(b, w, n), Affords(a, v, m)
  PROVE  \E s : Answer(s) /\ Affords(s, (w + 3) + v, (n + 2) + m)
<1>. DEFINE x == Indicate(SETUP)
            y == Out("RQNN", nodeNum)
            s == (b \o << x, y >>) \o a
<1>1. /\ x \in Action /\ Passes[x] = 1 /\ Places[x] = 1
      /\ y \in Action /\ Passes[y] = 2 /\ Places[y] = 1
  BY Actions, PricesOf DEF Mode, OutOpc, TypeOK, RamType
<1>. HIDE DEF x, y
<1>2. Affords(<< x >>, 1, 1) /\ Affords(<< y >>, 2, 1)
  BY <1>1, AffordsOne
<1>3. << x, y >> = << x >> \o << y >>
  BY <1>1, Couple
<1>4. Affords(<< x >> \o << y >>, 1 + 2, 1 + 1)
  BY <1>2, AffordsBoth
<1>5. 1 + 2 = 3 /\ 1 + 1 = 2 /\ w + 3 \in Int /\ n + 2 \in Int
  BY SMT
<1>6. Affords(<< x, y >>, 3, 2)
  BY <1>3, <1>4, <1>5
<1>7. Affords(b \o << x, y >>, w + 3, n + 2)
  BY <1>6, AffordsBoth
<1>8. Affords(s, (w + 3) + v, (n + 2) + m)
  BY <1>5, <1>7, AffordsBoth
<1>9. Answer(s)
  BY DEF InitSetup, x, y
<1>. QED BY <1>8, <1>9

LEMMA SetUninitialisedAnswer ==
  ASSUME TypeOK, NEW b, NEW a, SetUninitialised(b, a),
         NEW w \in Int, NEW n \in Int, NEW v \in Int, NEW m \in Int,
         Affords(b, w, n), Affords(a, v, m)
  PROVE  \E s : Answer(s) /\ Affords(s, (w + 3) + v, (n + 2) + m)
<1>. DEFINE x == Indicate(UNINITIALISED)
            y == Out("NNREL", nodeNum)
            s == ((b \o Release) \o << x >>) \o a
<1>1. /\ x \in Action /\ Passes[x] = 1 /\ Places[x] = 1
      /\ y \in Action /\ Passes[y] = 2 /\ Places[y] = 1
  BY Actions, PricesOf DEF Mode, OutOpc, TypeOK, RamType
<1>. HIDE DEF x
<1>2. Affords(<< x >>, 1, 1)
  BY <1>1, AffordsOne
<1>3. Affords(Release, 2, 1)
  <2>1. Affords(<< y >>, 2, 1) /\ Affords(<<>>, 2, 1)
    BY <1>1, AffordsOne, AffordsNone, AffordsMore
  <2>. QED BY <2>1 DEF Release
<1>4. Affords(b \o Release, w + 2, n + 1)
  BY <1>3, AffordsBoth
<1>5. /\ w + 2 \in Int /\ n + 1 \in Int /\ w + 3 \in Int /\ n + 2 \in Int
      /\ (w + 2) + 1 = w + 3 /\ (n + 1) + 1 = n + 2
  BY SMT
<1>6. Affords((b \o Release) \o << x >>, (w + 2) + 1, (n + 1) + 1)
  BY <1>2, <1>4, <1>5, AffordsBoth
<1>7. Affords((b \o Release) \o << x >>, w + 3, n + 2)
  BY <1>5, <1>6
<1>8. Affords(s, (w + 3) + v, (n + 2) + m)
  BY <1>5, <1>7, AffordsBoth
<1>9. Answer(s)
  BY DEF SetUninitialised, x
<1>. QED BY <1>8, <1>9

LEMMA LeaveSetupAnswer ==
  ASSUME TypeOK, NEW a, LeaveSetup(a), NEW v \in Int, NEW m \in Int, Affords(a, v, m)
  PROVE  \E s : Answer(s) /\ Affords(s, 1 + v, 1 + m)
<1>. DEFINE x == Indicate(currentMode)
<1>1. x \in Action /\ Passes[x] = 1 /\ Places[x] = 1
  BY Actions, PricesOf DEF Mode, TypeOK, RamType
<1>. HIDE DEF x
<1>2. Affords(<< x >>, 1, 1)
  BY <1>1, AffordsOne
<1>3. Affords(<< x >> \o a, 1 + v, 1 + m)
  BY <1>2, AffordsBoth
<1>. QED BY <1>3 DEF LeaveSetup, x

(* What the services answer to an action takes no more than the action     *)
(* itself was to take: a pass less, and no more places.                    *)
Answered(w, n) == \E s : Answer(s) /\ Affords(s, w, n)

LEMMA MessageCosts ==
  ASSUME TypeOK, HandleMessage
  PROVE  Answered(6, 4)
<1>1. nodeNum \in NodeNumber /\ QueueType
  BY DEF TypeOK, RamType
<1>2. /\ \A opc \in OutOpc : Out(opc, nodeNum) \in Action
           /\ Passes[Out(opc, nodeNum)] <= 2 /\ Places[Out(opc, nodeNum)] = 1
      /\ \A opc \in OutOpc : Out(opc, 0) \in Action
           /\ Passes[Out(opc, 0)] <= 2 /\ Places[Out(opc, 0)] = 1
      /\ Work \in Action /\ Passes[Work] <= 2 /\ Places[Work] = 1
      /\ \A m \in Mode : Indicate(m) \in Action
           /\ Passes[Indicate(m)] <= 2 /\ Places[Indicate(m)] = 1
  BY <1>1, ZeroIsNumber, Actions, PricesOf, SMT
<1>3. /\ Affords(<<>>, 6, 4) /\ Affords(<< Work >>, 6, 4) /\ Affords(<< Work >>, 1, 1)
      /\ \A opc \in OutOpc : Affords(<< Out(opc, nodeNum) >>, 6, 4)
           /\ Affords(<< Out(opc, nodeNum), Work >>, 6, 4)
           /\ Affords(<< Work, Out(opc, nodeNum) >>, 6, 4)
           /\ Affords(<< Out(opc, 0), Work >>, 6, 4)
  <2>1. Affords(<<>>, 6, 4)
    BY AffordsNone, AffordsMore
  <2>2. Affords(<< Work >>, 6, 4) /\ Affords(<< Work >>, 1, 1)
    BY <1>2, PricesOf, ShortAnswers, AffordsOne
  <2>. QED BY <1>2, <2>1, <2>2, ShortAnswers
<1>4. ASSUME NEW s, JustAnswer(s), Affords(s, 6, 4) PROVE Answered(6, 4)
  BY <1>4 DEF JustAnswer, Answered
<1>5. ASSUME NEW s, Answer(s), Affords(s, 6, 4) PROVE Answered(6, 4)
  BY <1>5 DEF Answered
<1>. DEFINE grsp == << Out("GRSP", nodeNum) >>
<1>6. Affords(grsp, 2, 1) /\ Affords(grsp, 6, 4)
  BY <1>1, <1>2, <1>3, AffordsOne, PricesOf DEF OutOpc
<1>7. Affords(grsp \o << Work >>, 6, 4)
  <2>1. Affords(grsp \o << Work >>, 2 + 1, 1 + 1)
    BY <1>3, <1>6, AffordsBoth
  <2>2. 2 + 1 <= 6 /\ 1 + 1 <= 4 /\ 2 + 1 \in Int /\ 1 + 1 \in Int
    BY SMT
  <2>. QED BY <2>1, <2>2, AffordsMore
<1>. HIDE DEF grsp
<1>8. CASE HandleSNN
  <2>1. Affords(<< Indicate(NORMAL), Out("NNACK", msg.nn), Work >>, 6, 4)
    <3>1. msg \in Frame /\ msg.nn \in NodeNumber
      BY <1>1, <1>8, Dispatched DEF HandleSNN, Received, Frame
    <3>. DEFINE a == Out("NNACK", msg.nn)
    <3>2. a \in Action /\ Passes[a] <= 2 /\ Places[a] = 1
      BY <3>1, Actions, PricesOf, SMT DEF OutOpc
    <3>3. Indicate(NORMAL) \in Action /\ Passes[Indicate(NORMAL)] <= 2 /\ Places[Indicate(NORMAL)] = 1
      BY <1>2 DEF Mode
    <3>. HIDE DEF a
    <3>4. Affords(<< Indicate(NORMAL), a, Work >>, 6, 4)
      BY <1>2, <3>2, <3>3, ShortAnswers
    <3>. QED BY <3>4 DEF a
  <2>. QED BY <1>3, <1>4, <1>5, <1>8, <2>1 DEF HandleSNN, OutOpc
<1>9. CASE HandleRQNN
  <2>1. CASE LeaveSetup(<< Work >>)
    <3>1. \E s : Answer(s) /\ Affords(s, 1 + 1, 1 + 1)
      BY <1>3, <2>1, LeaveSetupAnswer
    <3>2. 1 + 1 <= 6 /\ 1 + 1 <= 4 /\ 1 + 1 \in Int
      BY SMT
    <3>. QED BY <3>1, <3>2, AffordsMore DEF Answered
  <2>. QED BY <1>3, <1>4, <1>9, <2>1 DEF HandleRQNN
<1>10. CASE HandleMODE
  <2>1. (2 + 3) + 1 = 6 /\ (1 + 2) + 1 = 4
    BY SMT
  <2>2. ASSUME SetUninitialised(grsp, << Work >>) PROVE Answered(6, 4)
    <3>1. \E s : Answer(s) /\ Affords(s, (2 + 3) + 1, (1 + 2) + 1)
      BY <1>3, <1>6, <2>2, SetUninitialisedAnswer
    <3>. QED BY <2>1, <3>1 DEF Answered
  <2>3. ASSUME InitSetup(grsp, << Work >>) PROVE Answered(6, 4)
    <3>1. \E s : Answer(s) /\ Affords(s, (2 + 3) + 1, (1 + 2) + 1)
      BY <1>3, <1>6, <2>3, InitSetupAnswer
    <3>. QED BY <2>1, <3>1 DEF Answered
  <2>4. Affords(IF instantMode # NORMAL THEN grsp ELSE <<>>, 6, 4)
    BY <1>3, <1>6
  <2>. QED BY <1>3, <1>4, <1>5, <1>6, <1>7, <1>10, <2>2, <2>3, <2>4 DEF HandleMODE, grsp
<1>11. CASE HandleNNRSM \/ HandleNNRST
  BY <1>3, <1>4, <1>5, <1>11 DEF HandleNNRSM, HandleNNRST, OutOpc
<1>12. CASE HandleQuery
  <2>1. Affords(<< Out("CMDERR", nodeNum), Out("GRSP", nodeNum), Work >>, 6, 4)
    BY <1>2, ShortAnswers DEF OutOpc
  <2>2. /\ Affords(IF nodeNum > 0 THEN << Out("PNN", nodeNum), Work >> ELSE <<>>, 6, 4)
        /\ Affords(IF instantMode = SETUP THEN << Out("PARAMS", 0), Work >> ELSE <<>>, 6, 4)
        /\ Affords(IF instantMode = SETUP THEN << Out("NAME", 0), Work >> ELSE <<>>, 6, 4)
    BY <1>3 DEF OutOpc
  <2>3. /\ Affords(<< Out("GRSP", nodeNum), Work >>, 6, 4)
        /\ Affords(<< Out("PARAN", nodeNum), Work >>, 6, 4)
    BY <1>3 DEF OutOpc
  <2>. QED BY <1>3, <1>4, <1>12, <2>1, <2>2, <2>3 DEF HandleQuery
<1>13. CASE HandleNVSET
  <2>1. Affords(<< Work, Out("GRSP", nodeNum), Out("CMDERR", nodeNum) >>, 6, 4)
    BY <1>2, ShortAnswers DEF OutOpc
  <2>2. Affords(<< Work, Out("GRSP", nodeNum) >>, 6, 4) /\ Affords(<< Work, Out("WRACK", nodeNum) >>, 6, 4)
    BY <1>3 DEF OutOpc
  <2>. QED BY <1>3, <1>4, <1>5, <1>13, <2>1, <2>2 DEF HandleNVSET
<1>. QED BY <1>8, <1>9, <1>10, <1>11, <1>12, <1>13 DEF HandleMessage

LEMMA DispatchCosts ==
  ASSUME TypeOK, Dispatch
  PROVE  \/ queue = <<>> /\ UNCHANGED <<queue, overflowed>>
         \/ /\ queue # <<>> /\ Head(queue) \in Action
            /\ Answered(Passes[Head(queue)] - 1, Places[Head(queue)])
<1>. DEFINE h == Head(queue)
<1>1. nodeNum \in NodeNumber /\ QueueType
  BY DEF TypeOK, RamType
<1>2. ASSUME NEW t, Dispatching(t) PROVE queue # <<>> /\ h \in Action
  BY <1>1, <1>2, PriceOfHead DEF Dispatching
<1>3. CASE Idle
  BY <1>3 DEF Idle
<1>4. CASE ChangeMode
  <2>1. Dispatching("CHANGE_MODE") /\ Passes[h] = 5 /\ Places[h] = 3
    BY <1>1, <1>4, PriceOfHead DEF ChangeMode
  <2>2. Affords(<< Plain("START_CAN_ENUMERATION") >>, 1, 1)
    BY Actions, PricesOf, AffordsOne DEF PlainAct
  <2>3. (1 + 3) + 0 = 4 /\ (1 + 2) + 0 = 3 /\ (0 + 3) + 0 = 3 /\ (0 + 2) + 0 = 2 /\ 5 - 1 = 4
    BY SMT
  <2>4. ASSUME InitSetup(<< Plain("START_CAN_ENUMERATION") >>, <<>>) PROVE Answered(4, 3)
    <3>1. \E s : Answer(s) /\ Affords(s, (1 + 3) + 0, (1 + 2) + 0)
      BY <2>2, <2>4, AffordsNone, InitSetupAnswer
    <3>. QED BY <2>3, <3>1 DEF Answered
  <2>5. ASSUME SetUninitialised(<<>>, <<>>) PROVE Answered(4, 3)
    <3>1. \E s : Answer(s) /\ Affords(s, (0 + 3) + 0, (0 + 2) + 0)
      BY <2>5, AffordsNone, SetUninitialisedAnswer
    <3>2. 3 <= 4 /\ 2 <= 3
      BY SMT
    <3>. QED BY <2>3, <3>1, <3>2, AffordsMore DEF Answered
  <2>. QED BY <1>2, <1>4, <2>1, <2>3, <2>4, <2>5 DEF ChangeMode
<1>5. CASE Renegotiate
  <2>1. Dispatching("RENEGOTIATE") /\ Passes[h] = 4 /\ Places[h] = 2
    BY <1>1, <1>5, PriceOfHead DEF Renegotiate
  <2>2. (0 + 3) + 0 = 3 /\ (0 + 2) + 0 = 2 /\ 1 + 2 = 3 /\ 1 + 1 = 2 /\ 4 - 1 = 3
    BY SMT
  <2>3. ASSUME JustAnswer(<<>>) PROVE Answered(3, 2)
    <3>1. Affords(<<>>, 3, 2)
      BY AffordsNone, AffordsMore
    <3>. QED BY <2>3, <3>1 DEF JustAnswer, Answered
  <2>4. ASSUME InitSetup(<<>>, <<>>) PROVE Answered(3, 2)
    <3>1. \E s : Answer(s) /\ Affords(s, (0 + 3) + 0, (0 + 2) + 0)
      BY <2>4, AffordsNone, InitSetupAnswer
    <3>. QED BY <2>2, <3>1 DEF Answered
  <2>. DEFINE ack == IF nodeNum # 0 THEN << Out("NNACK", nodeNum) >> ELSE <<>>
  <2>5. ASSUME LeaveSetup(ack) PROVE Answered(3, 2)
    <3>1. Affords(<< Out("NNACK", nodeNum) >>, 2, 1) /\ Affords(<<>>, 2, 1)
      BY <1>1, Actions, PricesOf, AffordsOne, AffordsNone, AffordsMore DEF OutOpc
    <3>2. Affords(ack, 2, 1)
      BY <3>1
    <3>. HIDE DEF ack
    <3>3. \E s : Answer(s) /\ Affords(s, 1 + 2, 1 + 1)
      BY <2>5, <3>2, LeaveSetupAnswer
    <3>. QED BY <2>2, <3>3 DEF Answered
  <2>. QED BY <1>2, <1>5, <2>1, <2>2, <2>3, <2>4, <2>5 DEF Renegotiate
<1>6. CASE IndicateMode \/ IndicateOther
  <2>1. PICK t : Dispatching(t) /\ Answer(<<>>)
    BY <1>6 DEF IndicateMode, IndicateOther, IndicatePulse, StartEnumeration, JustAnswer
  <2>2. h \in Action /\ Passes[h] \in Int /\ Passes[h] >= 1 /\ Places[h] \in Int /\ Places[h] >= 1
    BY <1>2, <2>1, Prices, CostIsInt
  <2>. HIDE DEF h
  <2>3. Passes[h] - 1 \in Int /\ 0 <= Passes[h] - 1 /\ 0 <= Places[h]
    BY <2>2, SMT
  <2>4. Affords(<<>>, Passes[h] - 1, Places[h])
    BY <2>2, <2>3, AffordsNone, AffordsMore
  <2>. QED BY <1>2, <2>1, <2>4 DEF Answered, h
<1>7. CASE MessageOut
  <2>1. Dispatching("MESSAGE_OUT") /\ Passes[h] = 2 /\ Places[h] = 1 /\ Answer(<< Activity >>)
    BY <1>1, <1>7, PriceOfHead DEF MessageOut
  <2>2. Affords(<< Activity >>, 1, 1) /\ 2 - 1 = 1
    BY Actions, PricesOf, AffordsOne, SMT
  <2>. QED BY <1>2, <2>1, <2>2 DEF Answered
<1>8. CASE HandleMessage
  <2>1. Dispatching("MESSAGE_IN")
    BY <1>8 DEF HandleMessage, HandleSNN, HandleRQNN, HandleMODE, HandleNNRSM, HandleNNRST,
       HandleQuery, HandleNVSET, Received
  <2>2. Passes[h] = 7 /\ Places[h] = 4 /\ 7 - 1 = 6
    BY <1>1, <2>1, PriceOfHead, SMT
  <2>. QED BY <1>2, <1>8, <2>1, <2>2, MessageCosts
<1>. QED BY <1>3, <1>4, <1>5, <1>6, <1>7, <1>8 DEF Dispatch

(* The inductive form of NoOverflow.  What a pass takes off the queue is    *)
(* more than what it leads to, so that after an input the passes needed    *)
(* decrease as time goes on.  Before the next input they are few, and none *)
(* while the button is held, whose release waits as long as an input does. *)
Load(q, w, n) == Costs(q, Passes, w) /\ Costs(q, Places, n)

Needed ==
  (IF held THEN 8 ELSE 13) - sinceInput - (IF pc = "dispatch" THEN 0 ELSE 1)

LoadInv ==
  /\ ~overflowed
  /\ power = "on" =>
       \/ queue = <<>>
       \/ pc = "dispatch" /\ Load(queue, 1, 1)
       \/ Load(queue, Needed, 8)
       \/ /\ sinceInput = InputGap /\ ~held
          /\ Load(queue, IF pc \in {"mns", "ui"} THEN 4 ELSE 5, 3)

LEMMA LoadMore ==
  ASSUME NEW q \in Seq(Action), NEW w \in Int, NEW n \in Int, NEW v \in Int, NEW m \in Int,
         Load(q, w, n), w <= v, n <= m
  PROVE  Load(q, v, m)
BY CostMore, Prices DEF Load

LEMMA LoadOfNone == queue = <<>> => Load(queue, 0, 0)
BY CostOfNone, Prices DEF Load

(* With few passes to go there is little on the queue.                     *)
LEMMA LoadIsShort ==
  ASSUME NEW q \in Seq(Action), NEW w \in Int, NEW n, Load(q, w, n)
  PROVE  Load(q, w, w) /\ (w <= 0 => q = <<>>)
<1>1. Costs(q, Places, w)
  BY CheaperCost, Prices DEF Load
<1>2. Len(q) <= w /\ Len(q) \in Nat
  BY CostAndLength, Prices DEF Load
<1>3. w <= 0 => Len(q) = 0
  BY <1>2, SMT
<1>4. Len(q) = 0 => q = <<>>
  BY EmptySeq
<1>. QED BY <1>1, <1>3, <1>4 DEF Load

LEMMA PutsLoad ==
  ASSUME QueueSize >= 8, ~overflowed,
         NEW q \in Seq(Action), NEW s, Puts(q, s),
         NEW w \in Int, NEW n \in Int, NEW v \in Int, NEW m \in Int,
         Costs(q, Passes, w), Costs(q, Places, n), Affords(s, v, m), n + m <= 8
  PROVE  ~overflowed' /\ Load(queue', w + v, n + m)
<1>. DEFINE r == q \o s
<1>1. s \in Seq(Action)
  BY DEF Affords
<1>2. Len(q) <= n /\ Len(q) \in Nat /\ Len(s) <= m /\ Len(s) \in Nat
  BY <1>1, CostAndLength, Prices DEF Affords
<1>3. r \in Seq(Action) /\ Len(r) = Len(q) + Len(s)
  BY <1>1, ConcatProperties
<1>4. Len(q) + Len(s) <= QueueSize /\ ~(Len(q) + Len(s) > QueueSize)
  BY <1>2, NodeAssumption, SMT
<1>5. queue' = r /\ ~overflowed'
  BY <1>3, <1>4 DEF Puts, PutAll
<1>6. Costs(r, Passes, w + v) /\ Costs(r, Places, n + m)
  BY <1>1, CostOfBoth, Prices DEF Affords
<1>. HIDE DEF r
<1>. QED BY <1>5, <1>6 DEF Load

LEMMA DispatchLoad ==
  ASSUME QueueSize >= 8, ~overflowed, queue \in Seq(Action), queue # <<>>,
         Head(queue) \in Action,
         Answered(Passes[Head(queue)] - 1, Places[Head(queue)]),
         NEW w \in Int, NEW n \in Int, n <= 8, Load(queue, w, n)
  PROVE  ~overflowed' /\ Load(queue', w - 1, n)
<1>. DEFINE a == Passes[Head(queue)]
            b == Places[Head(queue)]
            q == Tail(queue)
<1>1. a \in Int /\ b \in Int
  BY Prices, CostIsInt
<1>2. q \in Seq(Action)
  BY HeadTailProperties
<1>3. Costs(q, Passes, w - a) /\ Costs(q, Places, n - b)
  BY CostOfTail, Prices DEF Load
<1>4. PICK s : Puts(q, s) /\ Affords(s, a - 1, b)
  BY DEF Answered, Answer
<1>. HIDE DEF a, b, q
<1>5. /\ w - a \in Int /\ n - b \in Int /\ a - 1 \in Int
      /\ (w - a) + (a - 1) = w - 1 /\ (n - b) + b = n
  BY <1>1, SMT
<1>6. (n - b) + b <= 8
  BY <1>5
<1>7. ~overflowed' /\ Load(queue', (w - a) + (a - 1), (n - b) + b)
  BY <1>1, <1>2, <1>3, <1>4, <1>5, <1>6, PutsLoad
<1>. QED BY <1>5, <1>7

(* Before an input.                                                        *)
LEMMA LoadAtInput ==
  ASSUME InputGap >= 9, TypeOK, LoadInv, power = "on", pc # "dispatch",
         sinceInput = InputGap
  PROVE  /\ Load(queue, 5, 3)
         /\ pc \in {"mns", "ui"} => Load(queue, 4, 3)
         /\ held => Load(queue, 0, 0)
<1>1. queue \in Seq(Action) /\ InputGap \in Int
  BY NodeAssumption, SMT DEF TypeOK, QueueType
<1>2. 0 <= 3 /\ 0 <= 4 /\ 0 <= 5 /\ 3 <= 3 /\ 3 <= 4 /\ 3 <= 5 /\ 4 <= 5
  BY SMT
<1>3. CASE queue = <<>>
  <2>1. Load(queue, 0, 0)
    BY <1>3, LoadOfNone
  <2>2. /\ 0 \in Int /\ 3 \in Int /\ 4 \in Int /\ 5 \in Int
        /\ 0 <= 3 /\ 0 <= 4 /\ 0 <= 5
    BY SMT
  <2>3. Load(queue, 5, 3)
    BY <1>1, <2>1, <2>2, LoadMore
  <2>4. Load(queue, 4, 3)
    BY <1>1, <2>1, <2>2, LoadMore
  <2>. QED BY <2>1, <2>3, <2>4
<1>4. CASE Load(queue, Needed, 8)
  <2>1. CASE held
    <3>1. Needed \in Int /\ Needed <= 0
      BY <1>1, <2>1, SMT DEF Needed
    <3>. HIDE DEF Needed
    <3>2. queue = <<>>
      BY <1>1, <1>4, <3>1, LoadIsShort
    <3>. QED BY <1>3, <3>2
  <2>2. CASE ~held
    <3>1. Needed \in Int /\ Needed <= 3
      BY <1>1, <2>2, SMT DEF Needed
    <3>. HIDE DEF Needed
    <3>2. Load(queue, Needed, Needed)
      BY <1>1, <1>4, <3>1, LoadIsShort
    <3>3. Load(queue, 3, 3)
      BY <1>1, <3>1, <3>2, LoadMore
    <3>4. Load(queue, 4, 3) /\ Load(queue, 5, 3)
      BY <1>1, <1>2, <3>3, LoadMore
    <3>. QED BY <2>2, <3>4
  <2>. QED BY <2>1, <2>2
<1>5. CASE ~held /\ Load(queue, IF pc \in {"mns", "ui"} THEN 4 ELSE 5, 3)
  <2>1. pc \in {"mns", "ui"} => Load(queue, 4, 3)
    BY <1>5
  <2>2. Load(queue, 5, 3)
    BY <1>1, <1>2, <1>5, <2>1, LoadMore
  <2>. QED BY <1>5, <2>1, <2>2
<1>. QED BY <1>3, <1>4, <1>5 DEF LoadInv

LEMMA DispatchKeeps ==
  ASSUME Dispatch
  PROVE  power = "on" /\ pc = "dispatch" /\ pc' = "mns" /\ held' = held /\ sinceInput' = sinceInput
<1>. USE DEF ui, env, Running, Dispatching
<1>1. CASE Idle
  BY <1>1 DEF Idle
<1>2. CASE ChangeMode \/ Renegotiate \/ IndicateMode \/ IndicateOther \/ MessageOut
  BY <1>2 DEF ChangeMode, Renegotiate, IndicateMode, IndicateOther, IndicatePulse,
              StartEnumeration, MessageOut
<1>3. CASE HandleMessage
  BY <1>3 DEF HandleMessage, Received, HandleSNN, HandleRQNN, HandleMODE, HandleNNRSM,
              HandleNNRST, HandleQuery, HandleNVSET
<1>. QED BY <1>1, <1>2, <1>3 DEF Dispatch

LEMMA DispatchLoads ==
  ASSUME QueueSize >= 8, TypeOK, queue' \in Seq(Action), LoadInv, Dispatch
  PROVE  LoadInv'
<1>1. /\ queue \in Seq(Action) /\ ~overflowed /\ sinceInput \in Int
      /\ power = "on" /\ pc = "dispatch" /\ pc' = "mns" /\ held' = held
      /\ sinceInput' = sinceInput
  BY DispatchKeeps, NodeAssumption, SMT DEF TypeOK, QueueType, EnvType, LoadInv
<1>2. CASE queue = <<>> /\ UNCHANGED <<queue, overflowed>>
  BY <1>1, <1>2 DEF LoadInv
<1>3. CASE /\ queue # <<>> /\ Head(queue) \in Action
           /\ Answered(Passes[Head(queue)] - 1, Places[Head(queue)])
  <2>1. ASSUME NEW w \in Int, NEW n \in Int, n <= 8, Load(queue, w, n)
        PROVE  ~overflowed' /\ Load(queue', w - 1, n)
    BY <1>1, <1>3, <2>1, DispatchLoad
  <2>2. 1 <= 8 /\ 8 <= 8 /\ 3 <= 8 /\ 1 - 1 = 0 /\ 0 <= 0 /\ 5 - 1 = 4
    BY SMT
  <2>3. CASE Load(queue, 1, 1)
    <3>1. ~overflowed' /\ Load(queue', 0, 1)
      BY <2>1, <2>2, <2>3
    <3>2. queue' = <<>>
      BY <2>2, <3>1, LoadIsShort
    <3>. QED BY <3>1, <3>2 DEF LoadInv
  <2>4. CASE Load(queue, Needed, 8)
    <3>1. Needed \in Int /\ Needed' = Needed - 1
      BY <1>1, SMT DEF Needed
    <3>2. ~overflowed' /\ Load(queue', Needed - 1, 8)
      BY <2>1, <2>2, <2>4, <3>1
    <3>. QED BY <3>1, <3>2 DEF LoadInv
  <2>5. CASE sinceInput = InputGap /\ ~held /\ Load(queue, 5, 3)
    <3>1. ~overflowed' /\ Load(queue', 4, 3)
      BY <2>1, <2>2, <2>5
    <3>. QED BY <1>1, <2>5, <3>1 DEF LoadInv
  <2>. QED BY <1>1, <1>3, <2>3, <2>4, <2>5 DEF LoadInv
<1>. QED BY <1>2, <1>3, DispatchCosts

(* An input that takes v passes and m places.                              *)
LEMMA InputLoads ==
  ASSUME QueueSize >= 8, ~overflowed, queue \in Seq(Action),
         NEW s, Puts(queue, s), NEW w \in Int, NEW n \in Int, Load(queue, w, n),
         NEW v \in Int, NEW m \in Int, Affords(s, v, m), n + m <= 8
  PROVE  ~overflowed' /\ Load(queue', w + v, n + m)
BY PutsLoad DEF Load

LEMMA MnsLoads ==
  ASSUME QueueSize >= 8, InputGap >= 9, TypeOK, queue' \in Seq(Action), LoadInv, MnsProcess
  PROVE  LoadInv'
<1>1. /\ queue \in Seq(Action) /\ ~overflowed /\ sinceInput \in Int
      /\ power = "on" /\ pc = "mns" /\ pc' = "ui" /\ held' = held
  BY NodeAssumption, SMT DEF TypeOK, QueueType, EnvType, LoadInv, MnsProcess, Turn, Running, ui
<1>2. CASE UNCHANGED <<queue, overflowed, sinceInput>>
  <2>1. Needed' = Needed
    BY <1>1, <1>2 DEF Needed
  <2>. QED BY <1>1, <1>2, <2>1 DEF LoadInv
<1>3. ASSUME NEW opc \in {"HEARTB", "PARAN"},
             sinceInput = InputGap, sinceInput' = 0, Puts(queue, << Out(opc, nodeNum) >>)
      PROVE  LoadInv'
  <2>1. Affords(<< Out(opc, nodeNum) >>, 2, 1)
    BY Actions, PricesOf, AffordsOne DEF OutOpc, TypeOK, RamType
  <2>2. Load(queue, 4, 3) /\ (held => Load(queue, 0, 0))
    BY <1>1, <1>3, LoadAtInput
  <2>3. /\ 3 + 1 <= 8 /\ 0 + 1 <= 8 /\ 3 + 1 = 4 /\ 0 + 1 = 1 /\ 4 + 2 = 6 /\ 0 + 2 = 2
        /\ 4 <= 8 /\ 1 <= 8
    BY SMT
  <2>4. CASE held
    <3>1. ~overflowed' /\ Load(queue', 2, 1)
      BY <1>1, <1>3, <2>1, <2>2, <2>3, <2>4, InputLoads
    <3>2. Needed' \in Int /\ 2 <= Needed'
      BY <1>1, <1>3, <2>4, SMT DEF Needed
    <3>. HIDE DEF Needed
    <3>3. Load(queue', Needed', 8)
      BY <2>3, <3>1, <3>2, LoadMore
    <3>. QED BY <3>1, <3>3 DEF LoadInv
  <2>5. CASE ~held
    <3>1. ~overflowed' /\ Load(queue', 6, 4)
      BY <1>1, <1>3, <2>1, <2>2, <2>3, InputLoads
    <3>2. Needed' \in Int /\ 6 <= Needed'
      BY <1>1, <1>3, <2>5, SMT DEF Needed
    <3>. HIDE DEF Needed
    <3>3. Load(queue', Needed', 8)
      BY <2>3, <3>1, <3>2, LoadMore
    <3>. QED BY <3>1, <3>3 DEF LoadInv
  <2>. QED BY <2>4, <2>5
<1>. QED BY <1>2, <1>3 DEF MnsProcess, NoInput, Input

LEMMA UiLoads ==
  ASSUME QueueSize >= 8, InputGap >= 9, TypeOK, queue' \in Seq(Action), LoadInv, UiProcess
  PROVE  LoadInv'
<1>1. /\ queue \in Seq(Action) /\ ~overflowed /\ sinceInput \in Int
      /\ power = "on" /\ pc = "ui" /\ pc' = "can" /\ InputGap \in Int
  BY NodeAssumption, SMT DEF TypeOK, QueueType, EnvType, LoadInv, UiProcess, Turn, Running
<1>2. /\ 3 + 2 = 5 /\ 4 + 4 = 8 /\ 5 <= 8 /\ 4 <= 5 /\ 3 <= 3 /\ 3 <= 8
      /\ 0 + 5 = 5 /\ 0 + 3 = 3
  BY SMT
<1>3. CASE UNCHANGED <<queue, overflowed, sinceInput, held>>
  <2>1. Needed' = Needed
    BY <1>1, <1>3 DEF Needed
  <2>2. ASSUME Load(queue, 4, 3) PROVE Load(queue', 5, 3)
    BY <1>1, <1>2, <1>3, <2>2, LoadMore
  <2>. QED BY <1>1, <1>3, <2>1, <2>2 DEF LoadInv
<1>4. ASSUME ~held, held' = held, sinceInput = InputGap, sinceInput' = 0,
             NEW act \in {"START_CAN_ENUMERATION", "RENEGOTIATE"}, Puts(queue, << Plain(act) >>)
      PROVE  LoadInv'
  <2>1. Affords(<< Plain(act) >>, 4, 2)
    <3>1. Plain(act) \in Action /\ Passes[Plain(act)] <= 4 /\ Places[Plain(act)] <= 2
      BY Actions, PricesOf, SMT DEF PlainAct
    <3>. QED BY <3>1, AffordsOne
  <2>2. Load(queue, 4, 3)
    BY <1>1, <1>4, LoadAtInput
  <2>3. ~overflowed' /\ Load(queue', 8, 5)
    BY <1>1, <1>2, <1>4, <2>1, <2>2, InputLoads
  <2>4. Needed' \in Int /\ 8 <= Needed'
    BY <1>1, <1>4, SMT DEF Needed
  <2>. HIDE DEF Needed
  <2>5. Load(queue', Needed', 8)
    BY <1>2, <2>3, <2>4, LoadMore
  <2>. QED BY <2>3, <2>5 DEF LoadInv
<1>5. ASSUME ~held, held' = TRUE, sinceInput = InputGap, sinceInput' = 0,
             UNCHANGED <<queue, overflowed>>
      PROVE  LoadInv'
  <2>1. Load(queue', 4, 3)
    BY <1>1, <1>5, LoadAtInput
  <2>2. Needed' \in Int /\ 4 <= Needed'
    BY <1>1, <1>5, SMT DEF Needed
  <2>. HIDE DEF Needed
  <2>3. Load(queue', Needed', 8)
    BY <1>2, <2>1, <2>2, LoadMore
  <2>. QED BY <1>1, <1>5, <2>3 DEF LoadInv
<1>6. ASSUME held, held' = FALSE, sinceInput = InputGap, sinceInput' = sinceInput,
             Puts(queue, << Plain("CHANGE_MODE") >>)
      PROVE  LoadInv'
  <2>1. Affords(<< Plain("CHANGE_MODE") >>, 5, 3)
    BY Actions, PricesOf, AffordsOne DEF PlainAct
  <2>2. Load(queue, 0, 0)
    BY <1>1, <1>6, LoadAtInput
  <2>3. ~overflowed' /\ Load(queue', 5, 3)
    BY <1>1, <1>2, <1>6, <2>1, <2>2, InputLoads
  <2>. QED BY <1>1, <1>6, <2>3 DEF LoadInv
<1>. QED BY <1>3, <1>4, <1>5, <1>6 DEF UiProcess, StillHeld, NoInput, Input, ui

LEMMA CanLoads ==
  ASSUME QueueSize >= 8, InputGap >= 9, TypeOK, queue' \in Seq(Action), LoadInv, CanProcess
  PROVE  LoadInv'
<1>1. /\ queue \in Seq(Action) /\ ~overflowed /\ sinceInput \in Int /\ sinceInput <= InputGap
      /\ power = "on" /\ pc = "can" /\ pc' = "dispatch" /\ held' = held /\ InputGap \in Int
  BY NodeAssumption, SMT DEF TypeOK, QueueType, EnvType, LoadInv, CanProcess, Turn, Running, ui
<1>2. /\ 5 + 8 = 13 /\ 3 + 5 = 8 /\ 8 <= 8 /\ 0 + 8 = 8 /\ 0 + 5 = 5 /\ 5 <= 8
      /\ 1 + 7 = 8 /\ 1 + 4 = 5
  BY SMT
<1>3. CASE /\ UNCHANGED <<queue, overflowed>>
           /\ sinceInput' = IF sinceInput < InputGap THEN sinceInput + 1 ELSE sinceInput
  <2>1. Needed \in Int /\ Needed' \in Int /\ Needed <= Needed'
    BY <1>1, <1>3, SMT DEF Needed
  <2>. HIDE DEF Needed
  <2>2. ASSUME Load(queue, Needed, 8) PROVE Load(queue', Needed', 8)
    BY <1>1, <1>2, <1>3, <2>1, <2>2, LoadMore
  <2>3. sinceInput = InputGap => sinceInput' = InputGap
    BY <1>1, <1>3, SMT
  <2>. QED BY <1>1, <1>3, <2>2, <2>3 DEF LoadInv
<1>4. ASSUME sinceInput = InputGap, sinceInput' = 0,
             NEW f \in Frames, Puts(queue, << Activity, In(f) >>)
      PROVE  LoadInv'
  <2>1. Affords(<< Activity, In(f) >>, 8, 5)
    <3>1. /\ Activity \in Action /\ Passes[Activity] <= 1 /\ Places[Activity] <= 1
          /\ 1 \in Int /\ 4 \in Int /\ 7 \in Int
      BY Actions, PricesOf, SMT
    <3>2. In(f) \in Action /\ Passes[In(f)] <= 7 /\ Places[In(f)] <= 4
      BY Actions, PricesOf, SMT
    <3>3. Affords(<< Activity >>, 1, 1)
      BY <3>1, AffordsOne
    <3>4. Affords(<< In(f) >>, 7, 4)
      BY <3>1, <3>2, AffordsOne
    <3>5. Affords(<< Activity >> \o << In(f) >>, 1 + 7, 1 + 4)
      BY <3>1, <3>3, <3>4, AffordsBoth
    <3>6. << Activity, In(f) >> = << Activity >> \o << In(f) >>
      BY <3>1, <3>2, Couple
    <3>. QED BY <1>2, <3>5, <3>6
  <2>2. Load(queue, 5, 3) /\ (held => Load(queue, 0, 0))
    BY <1>1, <1>4, LoadAtInput
  <2>3. CASE held
    <3>1. ~overflowed' /\ Load(queue', 8, 5)
      BY <1>1, <1>2, <1>4, <2>1, <2>2, <2>3, InputLoads
    <3>2. Needed' = 8
      BY <1>1, <1>4, <2>3, SMT DEF Needed
    <3>. HIDE DEF Needed
    <3>3. Load(queue', 8, 8)
      BY <1>2, <3>1, LoadMore
    <3>. QED BY <3>1, <3>2, <3>3 DEF LoadInv
  <2>4. CASE ~held
    <3>1. ~overflowed' /\ Load(queue', 13, 8)
      BY <1>1, <1>2, <1>4, <2>1, <2>2, InputLoads
    <3>2. Needed' = 13
      BY <1>1, <1>4, <2>4, SMT DEF Needed
    <3>. QED BY <3>1, <3>2 DEF LoadInv
  <2>. QED BY <2>3, <2>4
<1>. QED BY <1>3, <1>4 DEF CanProcess, Input

LEMMA LoadStep ==
  QueueSize >= 8 /\ InputGap >= 9 /\ TypeOK /\ TypeOK' /\ LoadInv /\ [Next]_vars => LoadInv'
<1>. SUFFICES ASSUME QueueSize >= 8, InputGap >= 9, TypeOK, TypeOK', LoadInv, [Next]_vars
              PROVE  LoadInv'
  OBVIOUS
<1>1. queue' \in Seq(Action) /\ ~overflowed
  BY DEF TypeOK, QueueType, LoadInv
<1>2. CASE UNCHANGED vars \/ WriteByte
  <2>1. UNCHANGED <<queue, overflowed, pc, power, held, sinceInput>>
    BY <1>2 DEF vars, WriteByte, ui, env
  <2>2. Needed' = Needed
    BY <2>1 DEF Needed
  <2>. QED BY <2>1, <2>2 DEF LoadInv
<1>3. CASE Boot
  <2>. DEFINE a == Indicate(currentMode')
  <2>1. a \in Action /\ Passes[a] = 1 /\ Places[a] = 1
    BY Actions, PricesOf DEF TypeOK, RamType, Mode
  <2>2. queue' = << a >> /\ ~overflowed' /\ pc' = "dispatch"
    BY <1>3 DEF Boot
  <2>. HIDE DEF a
  <2>3. Affords(<< a >>, 1, 1)
    BY <2>1, AffordsOne
  <2>. QED BY <2>2, <2>3 DEF LoadInv, Load, Affords
<1>4. CASE ResetAtBoot \/ PowerLoss
  BY <1>1, <1>4 DEF ResetAtBoot, PowerLoss, LoadInv
<1>5. CASE Dispatch
  BY <1>1, <1>5, DispatchLoads
<1>6. CASE MnsProcess \/ UiProcess \/ CanProcess
  BY <1>1, <1>6, MnsLoads, UiLoads, CanLoads
<1>. QED BY <1>2, <1>3, <1>4, <1>5, <1>6 DEF Next, Loop

(* The action queue of eight is large enough: when a frame, an expired     *)
(* timer or a press comes in every ninth pass of the loop at most, no      *)
(* action is overwritten before the services have seen it, for any frames, *)
(* any number of them, and wherever power fails.                           *)
THEOREM QueueSuffices ==
  ASSUME QueueSize >= 8, InputGap >= 9
  PROVE  Spec => []NoOverflow
<1>1. Init => LoadInv
  BY DEF Init, LoadInv
<1>2. LoadInv => NoOverflow
  BY DEF LoadInv, NoOverflow
<1>3. TypeOK /\ TypeOK' /\ LoadInv /\ [Next]_vars => LoadInv'
  BY LoadStep
<1>. QED BY <1>1, <1>2, <1>3, TypeCorrect, PTL DEF Spec

=============================================================================
