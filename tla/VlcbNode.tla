------------------------------ MODULE VlcbNode ------------------------------
(***************************************************************************)
(* One VLCB node: the Controller's action bus and main loop                *)
(* (Controller.cpp), the Minimum Node Service with its three operating     *)
(* modes (MinimumNodeService.cpp), the node identity that Configuration    *)
(* keeps in RAM and in persistent storage (Configuration.cpp), the LED and *)
(* button interface (LEDUserInterface.cpp), and the part of CanService     *)
(* that carries messages between the bus and the action queue.  The        *)
(* services are configured in the order of the examples: MNS, LEDs, CAN,   *)
(* node variables.                                                         *)
(*                                                                         *)
(* The loop is single threaded.  Only a loss of power can come between two *)
(* of its steps, and also between two of the bytes that a handler writes   *)
(* to storage: a handler changes RAM at once and leaves its writes in      *)
(* pending, and the loop does not go on before the last one is done.       *)
(*                                                                         *)
(* CAN ids and ACT_START_CAN_ENUMERATION are left to CanService proper,    *)
(* event teaching and long responses to their own services.                *)
(***************************************************************************)
EXTENDS Integers, Sequences

CONSTANTS
  QueueSize,     \* ACTION_QUEUE_SIZE
  Radix,         \* values of a byte: a node number is stored as two of them
  Frames,        \* the messages that other nodes may send
  InputGap,      \* passes of the loop from one input to the next
  TornWrites,    \* whether power may fail between two bytes of a handler
  MaxPowerLoss,  \* bound on power losses
  MaxInputs      \* bound on frames, button presses, heartbeats and steps of
                 \* TimedResponse tasks

UNINITIALISED == "UNINITIALISED"    \* MODE_UNINITIALISED is 0xFF: erased
SETUP         == "SETUP"
NORMAL        == "NORMAL"

DARK == "DARK"                      \* both LEDs are off

NodeNumber == 0 .. Radix * Radix - 1

(* The op-codes handled here, and the byte that OPC_MODE carries; for the  *)
(* other op-codes "OTHER" is an index out of range, "ALL" is index 0, and  *)
(* "NONE" is an index in range or no byte at all.                          *)
Opcode == {"RQNN", "SNN", "QNN", "RQNP", "RQMN", "RQNPN", "MODE", "NNRSM",
           "NNRST", "NVSET"}
ModeArg == {UNINITIALISED, SETUP, NORMAL, "HEARTBEAT_ON", "HEARTBEAT_OFF",
            "FCUCOMPAT", "OTHER", "ALL", "NONE"}
Frame == [opc : Opcode, nn : NodeNumber, arg : ModeArg, short : BOOLEAN]

ASSUME NodeAssumption ==
  /\ QueueSize \in Nat \ {0}
  /\ Radix \in Nat \ {0, 1}
  /\ Frames \subseteq Frame
  /\ InputGap \in Nat /\ MaxPowerLoss \in Nat /\ MaxInputs \in Nat
  /\ TornWrites \in BOOLEAN

VARIABLES
  queue,         \* actionQueue
  overflowed,    \* actionQueue.getOverflows() > 0
  pc,            \* what the loop does next
  power,         \* "on"; "reset" inside resetModule(); "starting"
  instantMode, noHeartbeat,           \* MinimumNodeService
  currentMode, nodeNum, heartbeat,    \* Configuration, in RAM
  pfNormal,      \* PF_NORMAL in PAR_FLAGS
  store,         \* persistent storage
  pending,       \* the bytes that the current handler has yet to write
  display,       \* what the LEDs show when no pulse is on: a mode, or DARK
  held,          \* the button is being held beyond SW_TR_HOLD
  announced,     \* history: the numbers that NNREL or RQNN gave up on the wire
  sinceInput, inputs, powerLosses     \* environment and bounds

mns    == <<instantMode, noHeartbeat>>
config == <<currentMode, nodeNum, heartbeat, pfNormal>>
disk   == <<store, pending>>
ui     == <<display, held>>
env    == <<sinceInput, inputs, powerLosses>>
vars   == <<queue, overflowed, pc, power, mns, config, disk, ui, announced, env>>

-----------------------------------------------------------------------------
(* Actions of the bus.                                                     *)
Plain(t)     == [type |-> t]
In(f)        == [type |-> "MESSAGE_IN", msg |-> f]
Out(opc, nn) == [type |-> "MESSAGE_OUT", opc |-> opc, nn |-> nn]
Indicate(m)  == [type |-> "INDICATE_MODE", mode |-> m]

Activity == Plain("INDICATE_ACTIVITY")
Work     == Plain("INDICATE_WORK")

PutAllUnbounded(q, s) == q \o s                           \* mutant: no limit

(* The queue q after all of s has been put on it, one by one: a full ring  *)
(* buffer overwrites its oldest entry.                                     *)
PutAll(q, s) ==
  LET all == q \o s
  IN  IF Len(all) <= QueueSize THEN all
      ELSE SubSeq(all, Len(all) - QueueSize + 1, Len(all))

(* The next queue and overflow flag when s is put on q.                    *)
Puts(q, s) ==
  /\ queue' = PutAll(q, s)
  /\ overflowed' = (overflowed \/ Len(q) + Len(s) > QueueSize)

(* Storage writes, in program order; each is a record of the one cell it   *)
(* sets.  The node variables and events are one cell, tagged by what they  *)
(* hold: "erased", "own" data of the current life in Normal mode, or data  *)
(* from "before" that life.                                                *)
WriteNodeNumLow(n) == << [nnLow |-> n % Radix] >>  \* mutant: high byte forgotten

WriteNodeNum(n) == << [nnHigh |-> n \div Radix], [nnLow |-> n % Radix] >>

SetUninitialisedModeOnly == << [mode |-> UNINITIALISED] >>  \* mutant: number kept

SetUninitialisedScript == << [mode |-> UNINITIALISED] >> \o WriteNodeNum(0)

(* mutant: the mode byte goes first, the erasure last                      *)
SetNormalModeFirst(n) ==
  << [mode |-> NORMAL] >> \o WriteNodeNum(n)
    \o (IF store.mode = UNINITIALISED THEN << [data |-> "erased"] >> ELSE <<>>)

SetNormalScript(n) ==
  (IF store.mode = UNINITIALISED THEN << [data |-> "erased"] >> ELSE <<>>)
    \o << [mode |-> NORMAL] >> \o WriteNodeNum(n)

ResetScript ==
  << [data |-> "erased"], [mode |-> UNINITIALISED] >> \o WriteNodeNum(0)
    \o << [heartbeat |-> FALSE], [data |-> "erased"] >>

(* Storage s after write w: leaving Normal mode turns the data it held old.*)
Written(s, w) ==
  LET t == [c \in DOMAIN s |-> IF c \in DOMAIN w THEN w[c] ELSE s[c]]
  IN  IF t.mode = UNINITIALISED /\ t.data = "own"
      THEN [t EXCEPT !.data = "before"] ELSE t

StoredNumber == store.nnHigh * Radix + store.nnLow

Stores ==
  [mode : {UNINITIALISED, NORMAL}, nnHigh : 0 .. Radix - 1, nnLow : 0 .. Radix - 1,
   heartbeat : BOOLEAN, data : {"erased", "own", "before"}]

(* A new board: every byte of its storage is 0xFF.                         *)
VirginStore ==
  [mode |-> UNINITIALISED, nnHigh |-> Radix - 1, nnLow |-> Radix - 1,
   heartbeat |-> TRUE, data |-> "erased"]

IsVirgin == store.mode = UNINITIALISED /\ StoredNumber = Radix * Radix - 1

(* A new board that has just been powered.                                 *)
Init ==
  /\ queue = <<>> /\ overflowed = FALSE
  /\ pc = "dispatch" /\ power = "starting"
  /\ instantMode = UNINITIALISED /\ noHeartbeat = TRUE
  /\ currentMode = UNINITIALISED /\ nodeNum = 0 /\ heartbeat = FALSE
  /\ pfNormal = FALSE
  /\ store = VirginStore /\ pending = <<>>
  /\ display = DARK /\ held = FALSE
  /\ announced = {}
  /\ sinceInput = 0 /\ inputs = 0 /\ powerLosses = 0

-----------------------------------------------------------------------------
(* Starting and storing.                                                   *)

(* Controller::begin() on storage that was used before: Configuration      *)
(* loads the identity and the Minimum Node Service indicates the mode.     *)
Boot ==
  /\ power # "on" /\ pending = <<>> /\ ~IsVirgin
  /\ power' = "on" /\ pc' = "dispatch"
  /\ currentMode' = store.mode /\ nodeNum' = StoredNumber
  /\ heartbeat' = store.heartbeat
  /\ instantMode' = currentMode' /\ noHeartbeat' = ~heartbeat'
  /\ pfNormal' = (currentMode' = NORMAL)
  /\ queue' = <<Indicate(currentMode')>> /\ overflowed' = FALSE
  /\ display' = DARK /\ held' = FALSE
  /\ UNCHANGED <<disk, announced, env>>

(* begin() on a virgin board resets it, and so does checkStartupAction()   *)
(* when the button is down at power up; both restart the processor.        *)
ResetAtBoot ==
  /\ power # "on" /\ pending = <<>>
  /\ \/ IsVirgin /\ UNCHANGED inputs
     \/ inputs < MaxInputs /\ inputs' = inputs + 1
  /\ power' = "starting"
  /\ pending' = ResetScript
  /\ UNCHANGED <<queue, overflowed, pc, mns, config, store, ui, announced,
                 sinceInput, powerLosses>>

WriteByte ==
  /\ pending # <<>>
  /\ store' = Written(store, Head(pending))
  /\ pending' = Tail(pending)
  /\ UNCHANGED <<queue, overflowed, pc, power, mns, config, ui, announced, env>>

(* Power fails: RAM is lost and the unfinished writes are never done.      *)
PowerLoss ==
  /\ powerLosses < MaxPowerLoss
  /\ TornWrites \/ pending = <<>>
  /\ powerLosses' = powerLosses + 1
  /\ power' = "starting" /\ pending' = <<>>
  /\ queue' = <<>> /\ overflowed' = FALSE
  /\ UNCHANGED <<pc, mns, config, store, ui, announced, sinceInput, inputs>>

-----------------------------------------------------------------------------
(* The dispatch half of Controller::process(): pop one action and let      *)
(* every service process it.                                               *)
Running == power = "on" /\ pending = <<>>

Dispatching(t) ==
  /\ Running /\ pc = "dispatch"
  /\ queue # <<>> /\ Head(queue).type = t
  /\ pc' = "mns"

(* The next queue when the services answer the popped action with s.       *)
Answer(s) == Puts(Tail(queue), s)

Idle ==
  /\ Running /\ pc = "dispatch" /\ queue = <<>>
  /\ pc' = "mns"
  /\ UNCHANGED <<queue, overflowed, power, mns, config, disk, ui, announced, env>>

(* mutant: the LEDs are not told                                           *)
InitSetupDark(before, after) ==
  /\ instantMode' = SETUP /\ pfNormal' = FALSE
  /\ Answer(before \o <<Out("RQNN", nodeNum)>> \o after)
  /\ UNCHANGED <<noHeartbeat, currentMode, nodeNum, heartbeat, disk, announced>>

(* initSetupCommon(): what it puts on the bus and where it leaves the mode.*)
InitSetup(before, after) ==
  /\ instantMode' = SETUP /\ pfNormal' = FALSE
  /\ Answer(before \o <<Indicate(SETUP), Out("RQNN", nodeNum)>> \o after)
  /\ UNCHANGED <<noHeartbeat, currentMode, nodeNum, heartbeat, disk, announced>>

ReleaseFromSetup ==                                 \* mutant: the wrong mode
  IF nodeNum # 0 /\ instantMode = SETUP THEN <<Out("NNREL", nodeNum)>> ELSE <<>>

(* A Normal node releases its number; one in Setup did so with its RQNN.   *)
Release ==
  IF nodeNum # 0 /\ instantMode = NORMAL THEN <<Out("NNREL", nodeNum)>> ELSE <<>>

(* setUninitialised()                                                      *)
SetUninitialised(before, after) ==
  /\ Answer(before \o Release \o <<Indicate(UNINITIALISED)>> \o after)
  /\ instantMode' = UNINITIALISED /\ currentMode' = UNINITIALISED
  /\ nodeNum' = 0 /\ pfNormal' = FALSE
  /\ pending' = SetUninitialisedScript
  /\ UNCHANGED <<noHeartbeat, heartbeat, store, announced>>

(* mutant: the parameter flags are forgotten                               *)
LeaveSetupFlagged(after) ==
  /\ instantMode' = currentMode
  /\ Answer(<<Indicate(currentMode)>> \o after)
  /\ announced' = announced \ {nodeNum}
  /\ UNCHANGED <<noHeartbeat, currentMode, nodeNum, heartbeat, pfNormal, disk>>

(* Setup is given up: the mode and the number are what they were.          *)
LeaveSetup(after) ==
  /\ instantMode' = currentMode /\ pfNormal' = (currentMode = NORMAL)
  /\ Answer(<<Indicate(currentMode)>> \o after)
  /\ announced' = announced \ {nodeNum}
  /\ UNCHANGED <<noHeartbeat, currentMode, nodeNum, heartbeat, disk>>

(* Only s is put on the bus.                                               *)
JustAnswer(s) == Answer(s) /\ UNCHANGED <<mns, config, disk, announced>>

ChangeMode ==
  /\ Dispatching("CHANGE_MODE")
  /\ \/ /\ instantMode = UNINITIALISED
        /\ InitSetup(<<Plain("START_CAN_ENUMERATION")>>, <<>>)
     \/ /\ instantMode # UNINITIALISED
        /\ SetUninitialised(<<>>, <<>>)
  /\ UNCHANGED <<power, ui, env>>

Renegotiate ==
  /\ Dispatching("RENEGOTIATE")
  /\ \/ /\ instantMode = UNINITIALISED
        /\ JustAnswer(<<>>)
     \/ /\ instantMode = SETUP
        /\ LeaveSetup(IF nodeNum # 0 THEN <<Out("NNACK", nodeNum)>> ELSE <<>>)
     \/ /\ instantMode = NORMAL
        /\ InitSetup(<<>>, <<>>)
  /\ UNCHANGED <<power, ui, env>>

(* The LEDs follow the indications that reach them.                        *)
IndicateMode ==
  /\ Dispatching("INDICATE_MODE")
  /\ display' = Head(queue).mode
  /\ JustAnswer(<<>>)
  /\ UNCHANGED <<power, held, env>>

(* What is left when a pulse has passed.  It goes to the yellow LED of an  *)
(* Uninitialised node and to the green one of any other, replaces what     *)
(* that LED did, and ends with the LED off: that is the mode's own LED if  *)
(* the LEDs show another mode than currentMode, which is never Setup.      *)
AfterPulse ==
  LET inUse == IF currentMode = UNINITIALISED THEN {SETUP, NORMAL} ELSE {UNINITIALISED}
  IN  IF display \in inUse THEN DARK ELSE display

IndicatePulse ==
  /\ Dispatching("INDICATE_ACTIVITY") \/ Dispatching("INDICATE_WORK")
  /\ display' = AfterPulse
  /\ JustAnswer(<<>>)
  /\ UNCHANGED <<power, held, env>>

(* CAN enumeration is the CAN service's own affair.                        *)
StartEnumeration ==
  /\ Dispatching("START_CAN_ENUMERATION")
  /\ JustAnswer(<<>>)
  /\ UNCHANGED <<power, ui, env>>

IndicateOther == IndicatePulse \/ StartEnumeration

(* CanService transmits the message.                                       *)
MessageOut ==
  /\ Dispatching("MESSAGE_OUT")
  /\ Answer(<<Activity>>)
  /\ announced' = IF Head(queue).opc \in {"NNREL", "RQNN"}
                  THEN announced \cup {Head(queue).nn} ELSE announced
  /\ UNCHANGED <<power, mns, config, disk, ui, env>>

-----------------------------------------------------------------------------
(* The handlers of received messages.                                      *)
Received(opc) == Dispatching("MESSAGE_IN") /\ Head(queue).msg.opc = opc

msg == Head(queue).msg

HandleSNN ==
  /\ Received("SNN")
  /\ \/ /\ instantMode # SETUP
        /\ JustAnswer(<<>>)
     \/ /\ instantMode = SETUP /\ msg.short
        /\ JustAnswer(<<Out("GRSP", nodeNum)>>)
     \/ /\ instantMode = SETUP /\ ~msg.short
        /\ instantMode' = NORMAL /\ currentMode' = NORMAL /\ pfNormal' = TRUE
        /\ nodeNum' = msg.nn
        /\ pending' = SetNormalScript(msg.nn)
        /\ Answer(<<Indicate(NORMAL), Out("NNACK", msg.nn), Work>>)
        /\ announced' = announced \ {msg.nn}
        /\ UNCHANGED <<noHeartbeat, heartbeat, store>>
  /\ UNCHANGED <<power, ui, env>>

(* Another module has entered setup: abort ours.                           *)
HandleRQNN ==
  /\ Received("RQNN")
  /\ IF instantMode = SETUP THEN LeaveSetup(<<Work>>) ELSE JustAnswer(<<>>)
  /\ UNCHANGED <<power, ui, env>>

HandleMODE ==
  /\ Received("MODE")
  /\ LET grsp == <<Out("GRSP", nodeNum)>>
     IN  \/ /\ msg.nn # nodeNum
            /\ JustAnswer(<<>>)
         \/ /\ msg.nn = nodeNum /\ msg.short
            /\ JustAnswer(grsp)
         \/ /\ msg.nn = nodeNum /\ ~msg.short
            /\ \/ /\ msg.arg = UNINITIALISED /\ instantMode \in {SETUP, NORMAL}
                  /\ SetUninitialised(grsp, <<Work>>)
               \/ /\ msg.arg = SETUP /\ instantMode = NORMAL
                  /\ InitSetup(grsp, <<Work>>)
               \/ /\ \/ msg.arg = SETUP /\ instantMode = SETUP
                     \/ msg.arg = NORMAL /\ instantMode \in {SETUP, NORMAL}
                  /\ JustAnswer(grsp \o <<Work>>)
               \/ /\ \/ /\ msg.arg \in {UNINITIALISED, SETUP, NORMAL}
                        /\ instantMode = UNINITIALISED
                     \/ msg.arg = "FCUCOMPAT"
                  /\ JustAnswer(<<Work>>)
               \/ /\ msg.arg \in {"HEARTBEAT_ON", "HEARTBEAT_OFF"}
                  /\ heartbeat' = (msg.arg = "HEARTBEAT_ON")
                  /\ noHeartbeat' = ~heartbeat'
                  /\ pending' = << [heartbeat |-> heartbeat'] >>
                  /\ Answer(<<Work>>)
                  /\ UNCHANGED <<instantMode, currentMode, nodeNum, pfNormal,
                                 store, announced>>
               \/ /\ msg.arg \in {"OTHER", "ALL", "NONE"}
                  /\ JustAnswer(IF instantMode # NORMAL THEN grsp ELSE <<>>)
  /\ UNCHANGED <<power, ui, env>>

(* NNRSM puts NNREL on the bus, resets the storage and restarts.           *)
HandleNNRSM ==
  /\ Received("NNRSM")
  /\ \/ /\ msg.nn # nodeNum
        /\ JustAnswer(<<>>) /\ UNCHANGED power
     \/ /\ msg.nn = nodeNum
        /\ Answer(<<Out("NNREL", nodeNum)>>)
        /\ pending' = ResetScript /\ power' = "reset"
        /\ UNCHANGED <<mns, config, store, announced>>
  /\ UNCHANGED <<ui, env>>

HandleNNRST ==
  /\ Received("NNRST")
  /\ JustAnswer(<<>>)
  /\ power' = IF msg.nn = nodeNum THEN "starting" ELSE power
  /\ UNCHANGED <<ui, env>>

(* The queries change nothing; they differ in when they are answered.  The *)
(* answer to RQNPN with index 0 is a TimedResponse task's (MnsProcess)     *)
(* unless the node is FCU compatible, a flag that nothing else here        *)
(* depends on.                                                             *)
HandleQuery ==
  /\ \/ /\ Received("QNN")
        /\ JustAnswer(IF nodeNum > 0 THEN <<Out("PNN", nodeNum), Work>> ELSE <<>>)
     \/ /\ Received("RQNP")
        /\ JustAnswer(IF instantMode = SETUP THEN <<Out("PARAMS", 0), Work>> ELSE <<>>)
     \/ /\ Received("RQMN")
        /\ JustAnswer(IF instantMode = SETUP THEN <<Out("NAME", 0), Work>> ELSE <<>>)
     \/ /\ Received("RQNPN")
        /\ msg.nn # nodeNum
        /\ JustAnswer(<<>>)
     \/ /\ Received("RQNPN")
        /\ msg.nn = nodeNum
        /\ \/ msg.short /\ JustAnswer(<<Out("GRSP", nodeNum), Work>>)
           \/ /\ ~msg.short /\ msg.arg = "OTHER"
              /\ JustAnswer(<<Out("CMDERR", nodeNum), Out("GRSP", nodeNum), Work>>)
           \/ ~msg.short /\ msg.arg = "ALL" /\ JustAnswer(<<Work>>)
           \/ /\ ~msg.short /\ msg.arg # "OTHER"
              /\ JustAnswer(<<Out("PARAN", nodeNum), Work>>)
  /\ UNCHANGED <<power, ui, env>>

(* NodeVariableService writes a node variable of this node.                *)
HandleNVSET ==
  /\ Received("NVSET")
  /\ \/ /\ msg.nn # nodeNum
        /\ JustAnswer(<<>>)
     \/ /\ msg.nn = nodeNum /\ msg.short
        /\ JustAnswer(<<Work, Out("GRSP", nodeNum)>>)
     \/ /\ msg.nn = nodeNum /\ ~msg.short /\ msg.arg = "OTHER"
        /\ JustAnswer(<<Work, Out("GRSP", nodeNum), Out("CMDERR", nodeNum)>>)
     \/ /\ msg.nn = nodeNum /\ ~msg.short /\ msg.arg # "OTHER"
        /\ Answer(<<Work, Out("WRACK", nodeNum)>>)
        /\ pending' = << [data |-> "own"] >>
        /\ UNCHANGED <<mns, config, store, announced>>
  /\ UNCHANGED <<power, ui, env>>

HandleMessage ==
  \/ HandleSNN \/ HandleRQNN \/ HandleMODE \/ HandleNNRSM \/ HandleNNRST
  \/ HandleQuery \/ HandleNVSET

Dispatch ==
  \/ Idle \/ ChangeMode \/ Renegotiate \/ IndicateMode \/ IndicateOther
  \/ MessageOut \/ HandleMessage

-----------------------------------------------------------------------------
(* The other half of Controller::process(): every service's process().     *)
Turn(from, to) == Running /\ pc = from /\ pc' = to

(* An input arrives: a frame, a press of the button, an expired timer of   *)
(* the heartbeat or of a TimedResponse task.                               *)
Input ==
  /\ inputs < MaxInputs /\ inputs' = inputs + 1
  /\ sinceInput = InputGap /\ sinceInput' = 0

NoInput == UNCHANGED <<inputs, sinceInput>>

(* heartbeat(): the timer has expired, or it has not; or a TimedResponse   *)
(* task, which may be under way at any time, sends its next message: one   *)
(* of the parameters for RQNPN with index 0, say.                          *)
MnsProcess ==
  /\ Turn("mns", "ui")
  /\ \/ /\ Input
        /\ currentMode = NORMAL /\ ~noHeartbeat /\ instantMode # SETUP
        /\ Puts(queue, <<Out("HEARTB", nodeNum)>>)
     \/ /\ Input
        /\ Puts(queue, <<Out("PARAN", nodeNum)>>)
     \/ /\ NoInput
        /\ UNCHANGED <<queue, overflowed>>
  /\ UNCHANGED <<power, mns, config, disk, ui, announced, powerLosses>>

(* mutant: the mode is asked for while the button is down, in every pass   *)
AsksWhileHeld ==
  /\ display' = SETUP /\ UNCHANGED held
  /\ Puts(queue, <<Plain("CHANGE_MODE")>>)

(* resetRequested(): while the button is down only the LEDs change.        *)
StillHeld == display' = SETUP /\ UNCHANGED <<queue, overflowed, held>>

(* The button is released after a very short, a medium or a long press;    *)
(* while it is held beyond SW_TR_HOLD the LEDs show Setup.                 *)
UiProcess ==
  /\ Turn("ui", "can")
  /\ \/ /\ ~held /\ NoInput
        /\ UNCHANGED <<queue, overflowed, ui>>
     \/ /\ ~held /\ Input
        /\ \E act \in {"START_CAN_ENUMERATION", "RENEGOTIATE"} :
             Puts(queue, <<Plain(act)>>)
        /\ UNCHANGED ui
     \/ /\ ~held /\ Input
        /\ held' = TRUE /\ display' = SETUP
        /\ UNCHANGED <<queue, overflowed>>
     \/ held /\ NoInput /\ StillHeld
     \/ /\ held /\ NoInput
        /\ sinceInput = InputGap
        /\ held' = FALSE
        /\ Puts(queue, <<Plain("CHANGE_MODE")>>)
        /\ UNCHANGED display
  /\ UNCHANGED <<power, mns, config, disk, announced, powerLosses>>

(* CanService takes at most one frame off the transport.                   *)
CanProcess ==
  /\ Turn("can", "dispatch")
  /\ \/ /\ sinceInput' = IF sinceInput < InputGap THEN sinceInput + 1 ELSE sinceInput
        /\ UNCHANGED <<queue, overflowed, inputs>>
     \/ /\ Input
        /\ \E f \in Frames : Puts(queue, <<Activity, In(f)>>)
  /\ UNCHANGED <<power, mns, config, disk, ui, announced, powerLosses>>

Loop == Dispatch \/ MnsProcess \/ UiProcess \/ CanProcess

Next == Boot \/ ResetAtBoot \/ WriteByte \/ PowerLoss \/ Loop

Spec == Init /\ [][Next]_vars

(* The processor starts, writes what it has to write, and runs the loop;   *)
(* nobody holds the button forever.                                        *)
FairSpec ==
  /\ Spec
  /\ WF_vars(Boot) /\ WF_vars(ResetAtBoot /\ IsVirgin) /\ WF_vars(WriteByte)
  /\ WF_vars(Loop)
  /\ SF_vars(UiProcess /\ held /\ ~held')
-----------------------------------------------------------------------------
Mode     == {UNINITIALISED, SETUP, NORMAL}
PlainAct == {"CHANGE_MODE", "RENEGOTIATE", "START_CAN_ENUMERATION",
             "INDICATE_ACTIVITY", "INDICATE_WORK"}
OutOpc   == {"RQNN", "NNREL", "NNACK", "GRSP", "PNN", "PARAMS", "NAME",
             "PARAN", "WRACK", "HEARTB", "CMDERR"}
Action   == [type : PlainAct]
              \cup [type : {"MESSAGE_IN"}, msg : Frames]
              \cup [type : {"MESSAGE_OUT"}, opc : OutOpc, nn : NodeNumber]
              \cup [type : {"INDICATE_MODE"}, mode : Mode]
Write    == [mode : {UNINITIALISED, NORMAL}] \cup [heartbeat : BOOLEAN]
              \cup [nnHigh : 0 .. Radix - 1] \cup [nnLow : 0 .. Radix - 1]
              \cup [data : {"erased", "own"}]

QueueType  == /\ queue \in Seq(Action) /\ Len(queue) <= QueueSize
              /\ overflowed \in BOOLEAN
RamType    == /\ power \in {"on", "reset", "starting"}
              /\ instantMode \in Mode /\ noHeartbeat \in BOOLEAN
              /\ currentMode \in {UNINITIALISED, NORMAL}
              /\ nodeNum \in NodeNumber
              /\ heartbeat \in BOOLEAN /\ pfNormal \in BOOLEAN
DiskType   == store \in Stores /\ pending \in Seq(Write)
BoardType  == /\ pc \in {"dispatch", "mns", "ui", "can"}
              /\ display \in Mode \cup {DARK} /\ held \in BOOLEAN
              /\ announced \subseteq NodeNumber
EnvType    == /\ sinceInput \in 0 .. InputGap /\ inputs \in 0 .. MaxInputs
              /\ powerLosses \in 0 .. MaxPowerLoss

(* Types, and the ring buffer's bound on the action queue.                 *)
TypeOK == QueueType /\ RamType /\ DiskType /\ BoardType /\ EnvType

(* Between two handlers the identity in RAM is the one a restart would     *)
(* load: every handler that changes one changes the other                  *)
(* (Configuration.cpp:78-152).                                             *)
RamIsStored ==
  Running => /\ currentMode = store.mode
             /\ nodeNum = StoredNumber
             /\ heartbeat = store.heartbeat
             /\ noHeartbeat = ~heartbeat

(* The mode that PNN and PARAN report in the parameter flags is the mode   *)
(* the node acts in, along every way in and out of Setup                   *)
(* (Controller.cpp:120-128).                                               *)
FlagTracksMode == power = "on" => pfNormal = (instantMode = NORMAL)

(* Whatever storage holds when the node is in Normal mode was written in   *)
(* that life or erased before it, even if power failed between any two     *)
(* bytes: the data goes first and the mode byte follows                    *)
(* (Configuration.cpp:85-103, 570-602).                                    *)
NoDataFromBefore == store.mode = NORMAL => store.data # "before"

(* A node that runs has a number that some SNN gave it, or none; if it is  *)
(* Uninitialised it has none.  Needs storage that is not torn.             *)
NumberWasGiven ==
  Running => /\ nodeNum = 0 \/ \E f \in Frames : f.opc = "SNN" /\ f.nn = nodeNum
             /\ currentMode = UNINITIALISED => nodeNum = 0

(* When inputs, and the messages of TimedResponse tasks, do not come       *)
(* faster than one every InputGap passes, no action is ever overwritten    *)
(* before the services have seen it.  Bursts may overwrite some.           *)
NoOverflow == ~overflowed

(* A number that the node drops while it runs was given up on the wire, or *)
(* the message that does so is queued ("release node number first",        *)
(* MinimumNodeService.cpp:85; RQNN carries it in :64).                     *)
GivenUp(nn) ==
  nn \in announced' \/ \E i \in DOMAIN queue' : queue'[i] \in {Out("NNREL", nn), Out("RQNN", nn)}

NumberChangeAnnounced ==
  [][nodeNum' # nodeNum /\ nodeNum # 0 /\ power = "on" /\ ~overflowed' => GivenUp(nodeNum)]_vars

(* When the inputs cease the bus falls silent and the LEDs show the mode   *)
(* for good, after whatever order of indications, pulses, held buttons and *)
(* restarts; in a Setup entered from Uninitialised, where the pulses go to *)
(* the LED that blinks, they show Setup or nothing (LEDUserInterface.cpp:  *)
(* 50-75).  Never do they go on showing another mode.                      *)
LedsAgree ==
  \/ display = instantMode
  \/ display = DARK /\ instantMode = SETUP /\ currentMode = UNINITIALISED

LedsSettle == <>[](LedsAgree /\ queue = <<>>)

(* docs/VLCB4in4out_README.md:169: "the green LED goes off and the Yellow  *)
(* LED flashes", in every Setup and for as long as it lasts.               *)
SetupFlashes ==
  power = "on" /\ instantMode = SETUP /\ queue = <<>> => display = SETUP

(* docs/MinimumNodeService.md:45: "The module sends a Node Number release  *)
(* request (OPC_NNREL) and then resets".                                   *)
ResetReleasesNumber ==
  power = "reset" /\ pending = <<>> => nodeNum = 0 \/ nodeNum \in announced

(* docs/MinimumNodeService.md:20: "If the FCU doesn't respond within 30    *)
(* seconds, the module will revert to Uninitialised Mode."                 *)
SetupEnds == instantMode = SETUP ~> instantMode # SETUP

(* docs/MinimumNodeService.md:10: "A newly programmed module will be in    *)
(* Uninitialised Mode and will have default node number of 0x0000."        *)
NewModuleHasNumberZero ==
  Running /\ currentMode = UNINITIALISED => nodeNum = 0
=============================================================================
