---------------------------- MODULE EventServices ----------------------------
(***************************************************************************)
(* The services that use the event table, and one application on top:      *)
(*   - teaching, by event (EventTeachingService.cpp) or by slot            *)
(*     (EventSlotTeachingService.cpp), on AbstractEventTeachingService.cpp;*)
(*   - consuming events, the node's own included (EventConsumerService.cpp,*)
(*     ConsumeOwnEventsService.h) and producing them                       *)
(*     (EventProducerService.cpp);                                         *)
(*   - the answers that are sent piece by piece, each piece read from the  *)
(*     table when it is sent (TimedResponse.h);                            *)
(*   - the sketch VLCB_SerialGC_4in4out.ino, which makes events for its    *)
(*     switches and vetoes event variables.                                *)
(*                                                                         *)
(* A handler runs to its end before the next, so each is one action; only  *)
(* power can fail within one.  Messages for other nodes, which the         *)
(* handlers drop, and OPC_MODE of the Minimum Node Service are left out.   *)
(***************************************************************************)
EXTENDS EventTable, SequencesExt

CONSTANTS
  Services,      \* the teaching services a module may be built with
  Taught,        \* the events that the configuration tool teaches
  Switches,      \* the switches of the sketch
  Values,        \* the values that the tool gives to event variables
  TaskCapacity,  \* tasks that the timed responses hold: 4 in the code
  Cuts,          \* bound: the bytes of the table after which a write is torn
  nodeNum        \* low byte of the node number; the high one is 0

OwnEvent(en) == <<0, nodeNum, 0, en>>
ShortEvent(e) == <<0, 0, e[3], e[4]>>
NoEvent == <<0, 0, 0, 0>>

(* OPC_EVLRN of FFFF:FFFF is not taught: the table would take it for a     *)
(* free slot.                                                              *)
ASSUME ServiceAssumption ==
  /\ Services \subseteq {"byEvent", "bySlot"}
  /\ Taught \subseteq EventId \ {unused_entry, NoEvent}
  /\ Switches \subseteq Byte \ {0, 255}
  /\ Values \subseteq Byte
  /\ TaskCapacity \in Nat \ {0} /\ Cuts \subseteq Nat
  /\ nodeNum \in Byte \ {0}

VARIABLES
  service,       \* which teaching service the module has
  learn,         \* bLearn and the PF_LRN parameter flag
  tasks,         \* the queue of TimedResponse, the running task first
  said,          \* what this step sent, handed to the application, or set in
                 \* the flags of Configuration
  damaged        \* history: power failed within a write of the table

flags == <<service, learn>>
vars  == <<store, hash, flags, tasks, said, damaged>>

-----------------------------------------------------------------------------
(* Messages.                                                               *)
GRSP(code)    == [op |-> "GRSP", code |-> code]
Refused(code) == <<[op |-> "CMDERR", code |-> code], GRSP(code)>>
Accepted      == <<[op |-> "WRACK"], GRSP("OK")>>

Count(op, n)      == <<[op |-> op, count |-> n]>>
NEVAL(i, n, v)    == <<[op |-> "NEVAL", slot |-> i, ev |-> n, val |-> v]>>
EVANS(e, n, v)    == <<[op |-> "EVANS", event |-> e, ev |-> n, val |-> v]>>
ENRSP(i)          == <<[op |-> "ENRSP", event |-> readEvent(i), slot |-> i]>>

(* An event as it is sent from slot i of the slots st, with any number of  *)
(* data bytes: one with node number 0 is a short event and carries this    *)
(* node's number.                                                          *)
WithNodeNum(e) == IF e[1] = 0 /\ e[2] = 0 THEN <<0, nodeNum, e[3], e[4]>> ELSE e

EventMessage(op, e) ==
  <<[op |-> op, short |-> e[1] = 0 /\ e[2] = 0, event |-> WithNodeNum(e)]>>

Produced(st, i) == EventMessage("produced", EventAt(st, i))
EventResponse(i) == EventMessage("response", readEvent(i))

-----------------------------------------------------------------------------
(* Timed responses.  A full queue loses its oldest task, the running one.  *)
EventsTask(due)   == [kind |-> "events", seq |-> 0, due |-> due]
EventVarTask(i)   == [kind |-> "eventVar", seq |-> 0, slot |-> i]
EVTask(e, i)      == [kind |-> "ev", seq |-> 0, event |-> e, slot |-> i]

AddUnbounded(task) == tasks' = Append(tasks, task)    \* mutant

Add(task) ==
  tasks' = Append(IF Len(tasks) = TaskCapacity THEN Tail(tasks) ELSE tasks, task)

KnownIn(st) == {EventAt(st, i) : i \in Index} \ {unused_entry}

(* due is history: the events in the table since the request was made that *)
(* have not been reported yet.                                             *)
StillDue(st) ==
  [t \in DOMAIN tasks |->
     IF tasks[t].kind # "events" THEN tasks[t]
     ELSE [tasks[t] EXCEPT !.due = @ \cap KnownIn(st)]]

StepsByCount(task) ==                      \* mutant: numEvents(), not the slots
  IF task.kind = "events" THEN Cardinality(InUse) ELSE NumEVs

Steps(task) == IF task.kind = "events" THEN NumEvents ELSE NumEVs

Answer(task) ==
  CASE task.kind = "events" -> IF hash[task.seq] # 0 THEN ENRSP(task.seq) ELSE <<>>
    [] task.kind = "eventVar" ->
         NEVAL(task.slot, task.seq + 1, getEventEVval(task.slot, task.seq + 1))
    [] task.kind = "ev" ->
         EVANS(task.event, task.seq + 1, getEventEVval(task.slot, task.seq + 1))

Progress(task) ==
  IF task.kind # "events" THEN [task EXCEPT !.seq = @ + 1]
  ELSE [task EXCEPT !.seq = @ + 1, !.due = @ \ {readEvent(task.seq)}]

TimedStep ==
  /\ tasks # <<>>
  /\ LET task == Head(tasks)
     IN  \/ /\ task.seq < Steps(task)
            /\ said' = Answer(task)
            /\ tasks' = [tasks EXCEPT ![1] = Progress(task)]
         \/ /\ task.seq >= Steps(task)
            /\ said' = <<>>
            /\ tasks' = Tail(tasks)
  /\ UNCHANGED <<store, hash, flags, damaged>>

-----------------------------------------------------------------------------
(* AbstractEventTeachingService.                                           *)

(* The slots become st; the entries of S are hashed again.                 *)
Change(st, S) ==
  /\ store' = st
  /\ hash' = Rehashed(st, S)
  /\ tasks' = StillDue(st)

Only(messages) ==
  /\ said' = messages
  /\ UNCHANGED <<store, hash, flags, tasks, damaged>>

handleLearnMode(on) ==
  /\ learn' = on
  /\ said' = <<>>
  /\ UNCHANGED <<store, hash, service, tasks, damaged>>

(* OPC_NNLRN: another node that is to learn ends learning here.            *)
handleLearn(own) == handleLearnMode(own)

handleUnlearn == handleLearnMode(FALSE)

(* Too few bytes; only REVAL is answered outside of learn mode.            *)
ShortMessage == Only(<<GRSP("INV_CMD")>>)

(* The code clears the first match and looks again until there is none.    *)
handleUnlearnEvent(e) ==
  /\ learn
  /\ \/ /\ Matches(e) = {}
        /\ Only(Refused("INVALID_EVENT"))
     \/ /\ Matches(e) # {}
        /\ Change(Cleared(store, Matches(e)), Matches(e))
        /\ said' = Accepted
        /\ UNCHANGED <<flags, damaged>>

handleRequestEventCount == Only(Count("NUMEV", Cardinality(InUse)))
handleGetFreeEventSlots == Only(Count("EVNLF", Cardinality(Index \ InUse)))

handleReadEvents ==
  /\ Add(EventsTask(IF service = "byEvent" THEN KnownIn(store) ELSE {}))
  /\ said' = <<>>
  /\ UNCHANGED <<store, hash, flags, damaged>>

(* n = 0 asks for all of them.  fcuCompatible, which the Minimum Node      *)
(* Service sets, may be either.                                            *)
handleReadEventVariable(i, n) ==
  \/ /\ ~IsEventIndexValid(i) \/ i \notin InUse
     /\ Only(Refused("INV_EN_IDX"))
  \/ /\ i \in InUse /\ n > NumEVs
     /\ Only(Refused("INV_EV_IDX"))
  \/ /\ i \in InUse /\ n = 0
     /\ said' = NEVAL(i, 0, NumEVs)
     /\ Add(EventVarTask(i)) \/ UNCHANGED tasks
     /\ UNCHANGED <<store, hash, flags, damaged>>
  \/ /\ i \in InUse /\ n \in EvNum
     /\ Only(NEVAL(i, n, getEventEVval(i, n)))

(* OPC_NNCLR.  The module has the producer service, hence PF_PRODUCER.     *)
handleClearEvents ==
  \/ /\ ~learn
     /\ Only(Refused("NOT_LRN"))
  \/ /\ learn
     /\ store' = Cleared(store, Index)
     /\ hash' = [i \in Index |-> 0]
     /\ tasks' = StillDue(Cleared(store, Index))
     /\ said' = Accepted \o <<[op |-> "setResetFlag"]>>
     /\ damaged' = FALSE
     /\ UNCHANGED flags

-----------------------------------------------------------------------------
(* EventTeachingService.                                                   *)
handleRequestEventVariable(e, n) ==
  /\ service = "byEvent" /\ learn
  /\ LET i == findExistingEvent(e)
     IN  \/ /\ ~IsEventIndexValid(i)
            /\ Only(Refused("INVALID_EVENT"))
         \/ /\ IsEventIndexValid(i) /\ n > NumEVs
            /\ Only(Refused("INV_EV_IDX"))
         \/ /\ IsEventIndexValid(i) /\ n = 0
            /\ said' = EVANS(e, 0, NumEVs)
            /\ Add(EVTask(e, i)) \/ UNCHANGED tasks
            /\ UNCHANGED <<store, hash, flags, damaged>>
         \/ /\ IsEventIndexValid(i) /\ n \in EvNum
            /\ Only(EVANS(e, n, getEventEVval(i, n)))

(* eventValidator of the sketch: one event for each value of EV 1.         *)
EventValidatorOwnSlot(n, v) ==            \* mutant: the first slot is not looked at
  n = 1 => findExistingEventByEv(1, v) \in {0, NumEvents}

EventValidator(n, v) == n = 1 => ~IsEventIndexValid(findExistingEventByEv(1, v))

(* Where EVLRN of e goes: the slot that has it, or a free one.             *)
LearnSlot(e) ==
  IF IsEventIndexValid(findExistingEvent(e)) THEN findExistingEvent(e)
  ELSE findEventSpace

(* The slots after EVLRN has written them.                                 *)
Learned(i, e, n, v) ==
  WithEV(IF IsEventIndexValid(findExistingEvent(e)) THEN store
         ELSE WithEvent(store, i, e), i, n, v)

LearnValid(e, n, v) ==
  /\ service = "byEvent" /\ learn
  /\ n \in EvNum /\ EventValidator(n, v)
  /\ IsEventIndexValid(LearnSlot(e))

handleLearnEvent(e, n, v) ==
  \/ /\ service = "byEvent" /\ learn /\ n \notin EvNum
     /\ Only(Refused("INV_EV_IDX"))
  \/ /\ service = "byEvent" /\ learn /\ n \in EvNum /\ ~EventValidator(n, v)
     /\ Only(Refused("INV_EV_VALUE"))
  \/ /\ service = "byEvent" /\ learn /\ n \in EvNum /\ EventValidator(n, v)
     /\ ~IsEventIndexValid(LearnSlot(e))
     /\ Only(Refused("TOO_MANY_EVENTS"))
  \/ /\ LearnValid(e, n, v)
     /\ Change(Learned(LearnSlot(e), e, n, v), {LearnSlot(e)})
     /\ said' = Accepted
     /\ UNCHANGED <<flags, damaged>>

-----------------------------------------------------------------------------
(* EventSlotTeachingService.  The event NoEvent is none: with n = v = 0 it *)
(* frees the slot, otherwise only the variable is written.                 *)
SlotLearned(e, i, n, v) ==
  LET taught == IF e \in {NoEvent, readEvent(i)} THEN store ELSE WithEvent(store, i, e)
  IN  IF e = NoEvent /\ n = 0 /\ v = 0 THEN Cleared(store, {i})
      ELSE IF n = 0 THEN taught ELSE WithEV(taught, i, n, v)

(* The slots whose hash EVLRNI brings up to date.                          *)
SlotRehashedNever(e, i, n, v) == {}              \* mutant: the hash is forgotten

SlotRehashed(e, i, n, v) ==
  IF (e = NoEvent /\ n = 0 /\ v = 0) \/ e \notin {NoEvent, readEvent(i)}
  THEN {i} ELSE {}

SlotLearnValid(i, n) ==
  service = "bySlot" /\ learn /\ IsEventIndexValid(i) /\ n <= NumEVs

handleLearnEventIndex(e, i, n, v) ==
  \/ /\ service = "bySlot" /\ learn /\ ~IsEventIndexValid(i)
     /\ Only(<<GRSP("INV_EN_IDX")>>)
  \/ /\ service = "bySlot" /\ learn /\ IsEventIndexValid(i) /\ n > NumEVs
     /\ Only(Refused("INV_EV_IDX"))
  \/ /\ SlotLearnValid(i, n)
     /\ Change(SlotLearned(e, i, n, v), SlotRehashed(e, i, n, v))
     /\ said' = Accepted
     /\ UNCHANGED <<flags, damaged>>

handleReadEventIndex(i) ==
  /\ service = "bySlot"
  /\ Only(IF i \in InUse THEN ENRSP(i) ELSE Refused("INV_EN_IDX"))

-----------------------------------------------------------------------------
(* The sketch: its start-of-day report, and what it does with an event     *)
(* that it is handed.  An "on" event whose EV 1 was never written asks for *)
(* the report; LEDs are left out.                                          *)
StartOfDay ==
  LET slot(sw) == findExistingEventByEv(1, sw)
  IN  FlattenSeq([sw \in 1 .. Max(Switches \cup {0}) |->
                    IF sw \in Switches /\ IsEventIndexValid(slot(sw))
                    THEN Produced(store, slot(sw)) ELSE <<>>])

EventHandler(e, i, on) ==
  <<[op |-> "handled", event |-> e, slot |-> i]>>
    \o (IF service = "byEvent" /\ on /\ getEventEVval(i, 1) = 255
        THEN StartOfDay ELSE <<>>)

(* EventConsumerService: an event that arrives, or one of this node's own  *)
(* that comes back because the module has ConsumeOwnEventsService.  The    *)
(* handler is called for every slot that has the event, in order, and the  *)
(* event acknowledged each time if eventAck is set.                        *)
processAccessoryEvent(e, on, eventAck) ==
  LET ack  == IF eventAck THEN <<[op |-> "ENACK", event |-> e]>> ELSE <<>>
      hits == Matches(e)
  IN  Only(<<[op |-> "consume", event |-> e]>>
             \o FlattenSeq([k \in 1 .. NumEvents |->
                              IF k - 1 \in hits
                              THEN EventHandler(e, k - 1, on) \o ack ELSE <<>>]))

(* Short events are looked up with node number 0.                          *)
handleConsumedMessage(e, short, on) ==
  \E eventAck \in BOOLEAN :
    processAccessoryEvent(IF short THEN ShortEvent(e) ELSE e, on, eventAck)

SetEventAck(on) == Only(<<[op |-> "setEventAck", on |-> on]>>)

(* EventProducerService: AREQ, or ASRQ with the node number left out.  The *)
(* sketch answers with sendEventResponse.                                  *)
handleProdSvcMessage(e, short) ==
  LET i == findExistingEvent(IF short THEN ShortEvent(e) ELSE e)
  IN  Only(IF IsEventIndexValid(i) /\ getEventEVval(i, 1) # 0
           THEN EventResponse(i) ELSE <<>>)

(* An application may also send an event that is in no table.              *)
SendEvent(e) == Only(EventMessage("produced", e))

(* createEvent of the sketch: the switch's own number is preferred, else   *)
(* the lowest one that is free.                                            *)
CreateEventId(sw) ==
  IF Matches(OwnEvent(sw)) = {} THEN OwnEvent(sw)
  ELSE OwnEvent(Min({en \in 1 .. NumEvents + 1 : Matches(OwnEvent(en)) = {}}))

(* A switch changes.  Without an event for it one is created; whether an   *)
(* event is then sent is up to a node variable.                            *)
SwitchEventKnown(sw) == IsEventIndexValid(findExistingEventByEv(1, sw))

UseSwitchEvent(sw) ==
  /\ SwitchEventKnown(sw)
  /\ Only(Produced(store, findExistingEventByEv(1, sw))) \/ Only(<<>>)

CanCreate(sw) ==
  service = "byEvent" /\ ~SwitchEventKnown(sw) /\ IsEventIndexValid(findEventSpace)

SwitchEventCreated(sw) ==
  WithEV(Created(store, findEventSpace, CreateEventId(sw)), findEventSpace, 1, sw)

CreateSwitchEvent(sw) ==
  /\ CanCreate(sw)
  /\ Change(SwitchEventCreated(sw), {findEventSpace})
  /\ said' \in {Produced(SwitchEventCreated(sw), findEventSpace), <<>>}
  /\ UNCHANGED <<flags, damaged>>

processSwitches(sw) ==
  service = "byEvent" /\ (UseSwitchEvent(sw) \/ CreateSwitchEvent(sw))

-----------------------------------------------------------------------------
(* begin() after a restart: RAM is lost, the hash table is made again.     *)
Start ==
  /\ hash' = [i \in Index |-> HashEntry(store', i)]
  /\ learn' = FALSE
  /\ tasks' = <<>>
  /\ said' = <<>>
  /\ UNCHANGED service

Restart == UNCHANGED <<store, damaged>> /\ Start

(* What power may interrupt: EVLRN, EVULN, NNCLR, EVLRNI, or the sketch,   *)
(* which creates an event with zeros for its EVs and then writes EV 1.     *)
Writes ==
  LET evlrn  == {x \in Taught \X EvNum \X Values : LearnValid(x[1], x[2], x[3])}
      evlrni == {x \in (Taught \cup {NoEvent}) \X Index \X (0 .. NumEVs) \X Values :
                   SlotLearnValid(x[2], x[3])}
      nnclr  == IF learn THEN {Index} ELSE {}
      evuln  == IF learn THEN {Matches(e) : e \in Taught} ELSE {}
      freed  == {{i} : i \in {j \in Index : SlotLearnValid(j, 0)}}
      created == {sw \in Switches : CanCreate(sw)}
  IN  {Learned(LearnSlot(x[1]), x[1], x[2], x[3]) : x \in evlrn}
        \cup {SlotLearned(x[1], x[2], x[3], x[4]) : x \in evlrni}
        \cup {Cleared(store, S) : S \in nnclr \cup evuln \cup freed}
        \cup {Created(store, findEventSpace, CreateEventId(sw)) : sw \in created}
        \cup {SwitchEventCreated(sw) : sw \in created}

(* One torn write at a time: a bound.                                      *)
PowerFailsInWrite ==
  /\ ~damaged
  /\ \E new \in Writes, cut \in Cuts : store' = Torn(new, cut)
  /\ damaged' = TRUE
  /\ Start

Init ==
  /\ store = [i \in Index |-> [c \in Cell |-> 255]]
  /\ hash = [i \in Index |-> 0]
  /\ service \in Services
  /\ learn = FALSE
  /\ tasks = <<>> /\ said = <<>> /\ damaged = FALSE

EvArg == 0 .. NumEVs + 1
Events == Taught \cup {OwnEvent(sw) : sw \in Switches}

Teach ==
  \/ \E on \in BOOLEAN : handleLearnMode(on) \/ handleLearn(on)
  \/ handleUnlearn \/ ShortMessage
  \/ \E e \in Events : handleUnlearnEvent(e)
  \/ handleClearEvents
  \/ \E e \in Taught, n \in EvArg, v \in Values : handleLearnEvent(e, n, v)
  \/ \E e \in Taught \cup {NoEvent}, i \in 0 .. NumEvents, n \in EvArg, v \in Values :
        handleLearnEventIndex(e, i, n, v)
  \/ \E i \in 0 .. NumEvents : handleLearnEventIndex(NoEvent, i, 0, 0)

Ask ==
  \/ handleRequestEventCount \/ handleGetFreeEventSlots \/ handleReadEvents
  \/ \E i \in 0 .. NumEvents, n \in EvArg : handleReadEventVariable(i, n)
  \/ \E i \in 0 .. NumEvents : handleReadEventIndex(i)
  \/ \E e \in Events, n \in EvArg : handleRequestEventVariable(e, n)

Use ==
  \/ \E e \in Events, short, on \in BOOLEAN : handleConsumedMessage(e, short, on)
  \/ \E e \in Events, short \in BOOLEAN : handleProdSvcMessage(e, short)
  \/ \E e \in Taught : SendEvent(e)
  \/ \E sw \in Switches : processSwitches(sw)
  \/ \E on \in BOOLEAN : SetEventAck(on)

Next == Teach \/ Ask \/ Use \/ TimedStep \/ Restart \/ PowerFailsInWrite

Spec == Init /\ [][Next]_vars

-----------------------------------------------------------------------------
Task ==
  [kind : {"events"}, seq : 0 .. NumEvents, due : SUBSET EventId]
    \cup [kind : {"eventVar"}, seq : 0 .. NumEVs, slot : Index]
    \cup [kind : {"ev"}, seq : 0 .. NumEVs, event : EventId, slot : Index]

(* Every variable has its type.                                            *)
TypeOK ==
  /\ TableTypeOK
  /\ service \in Services
  /\ learn \in BOOLEAN
  /\ damaged \in BOOLEAN
  /\ tasks \in Seq(Task) /\ Len(tasks) <= TaskCapacity

(* The hash table in RAM agrees with the slots in storage between any two  *)
(* handlers, after every way of teaching and after a restart, a write that *)
(* power interrupted included (Configuration.cpp:303).                     *)
HashFollowsSlots == hash = HashTable(store)

ByEvent == service = "byEvent" /\ ~damaged

(* Teaching by event never stores an event twice, whoever stores it: the   *)
(* tool with EVLRN or the sketch for its switches.                         *)
NoDuplicates ==
  ByEvent => \A i, j \in InUse : readEvent(i) = readEvent(j) => i = j

(* Nothing is left in a free slot for the next event to inherit: EVLRN     *)
(* writes no more of a new event's variables than the one it was sent.     *)
FreeSlotsAreBlank ==
  ByEvent => \A i \in Index \ InUse : \A c \in Cell : store[i][c] = 255

(* "There can only be one event with EV#1 set to a specific switch"        *)
(* (VLCB_SerialGC_4in4out.ino:219).                                        *)
OneEventPerSwitch ==
  service = "byEvent" =>
    \A sw \in Switches, i, j \in InUse :
      getEventEVval(i, 1) = sw /\ getEventEVval(j, 1) = sw => i = j

(* The same as long as no write of the table is torn by a loss of power.   *)
OneEventPerSwitchUndamaged == damaged \/ OneEventPerSwitch

(* When the answer to NERD ends, every event that was in the table all the *)
(* time has been reported, though events were taught and unlearned between *)
(* two of its messages.                                                    *)
ReportIsComplete ==
  service = "byEvent" =>
    \A t \in DOMAIN tasks :
      tasks[t].kind = "events" /\ tasks[t].seq >= Steps(tasks[t]) => tasks[t].due = {}

(* What the refinement shows of the messages s of an answer.               *)
ReplyOf(s) ==
  IF s = <<>> THEN <<"none">>
  ELSE LET first == Head(s)
       IN  CASE first.op = "WRACK"  -> <<"OK">>
             [] first.op = "CMDERR" -> <<first.code>>
             [] first.op = "consume" ->
                  <<IF Len(s) > 1 THEN "handled" ELSE "ignored", first.event>>
             [] OTHER -> <<first.op>>

(* The map that the slots st stand for.                                    *)
EventsOf(st) ==
  [e \in KnownIn(st) |->
     LET i == CHOOSE i \in Index : EventAt(st, i) = e
     IN  [n \in EvNum |-> st[i][EVCell(n)]]]

MapEvent ==
  LET long == Taught \cup {OwnEvent(en) : en \in Switches \cup 1 .. NumEvents + 1}
  IN  long \cup {ShortEvent(e) : e \in long}

Map == INSTANCE EventMap WITH
  Capacity <- NumEvents,
  EvNum    <- EvNum,
  Value    <- Values \cup Switches \cup {0},
  Unset    <- 255,
  Event    <- MapEvent,
  events   <- EventsOf(store),
  reply    <- ReplyOf(said),
  damaged  <- damaged \/ service = "bySlot"

(* Teaching by event implements the map: slots, hashes, the order of the   *)
(* searches and restarts between handlers do not show.                     *)
RefinesMap == Map!Spec
=============================================================================
