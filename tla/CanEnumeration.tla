--------------------------- MODULE CanEnumeration ---------------------------
(***************************************************************************)
(* How the nodes of a CAN bus choose their CAN ids: CanService.cpp run by  *)
(* every node at once.  A node that wants an id sends an RTR frame, the    *)
(* others answer with an empty frame that carries their id in its header,  *)
(* and after 100 ms the node takes the lowest id that nobody answered      *)
(* with.  A node that sees its own id on somebody's message does the same. *)
(*                                                                         *)
(* The bus delivers a frame to all other nodes in one order, each of which *)
(* takes frames off its receive buffer one by one.  Of the action queue    *)
(* only the actions that concern this service are kept.                    *)
(***************************************************************************)
EXTENDS Integers, Sequences, FiniteSets

CONSTANTS
  Node,         \* the nodes on the bus
  MaxId,        \* the largest id that findFreeCanId() returns, 127 in the code
  MaxSettable,  \* the largest id that OPC_CANID sets, 99 in the code
  InitialIds,   \* the ids that may be in storage when the nodes are started
  Requests,     \* what may be asked of a node: sequences of actions
  MaxRequests,  \* bound on requests
  MaxRestarts   \* bound on restarts

Id == 0 .. MaxId

(* The actions that concern CanService.  SEND is any message of the node,  *)
(* CANID and ENUM are messages from a configuration tool to the node.      *)
(* NNACK, the answer to ENUM, only the service itself puts there.          *)
Asks   == [what : {"START", "ENUM", "SEND"}] \cup [what : {"CANID"}, id : Id]
Action == Asks \cup [what : {"NNACK"}]

ASSUME EnumerationAssumption ==
  /\ IsFiniteSet(Node)
  /\ MaxId \in Nat \ {0} /\ MaxSettable \in 1 .. MaxId
  /\ InitialIds \subseteq Id
  /\ Requests \subseteq Seq(Asks)
  /\ MaxRequests \in Nat /\ MaxRestarts \in Nat

VARIABLES
  canid,         \* Configuration::CANID, in RAM and in storage
  inbox,         \* frames in the receive buffer of each node
  todo,          \* the action queue of each node
  bCANenum,      \* whether it is enumerating
  responses,     \* enum_responses
  startedFromEnumMessage,
  owed,          \* history: ENUM messages acted on but not acknowledged
  disturbed,     \* history: enumerations that did not have the bus to themselves
  requests, restarts   \* bounds

enumeration == <<bCANenum, responses, startedFromEnumMessage>>
history     == <<owed, disturbed, requests, restarts>>
vars        == <<canid, inbox, todo, enumeration, history>>

(* The frames on the bus; src, which no frame carries, is history.         *)
Frames == [kind : {"RTR", "EMPTY", "DATA"}, id : Id, src : Node]

Frame(kind, n) == [kind |-> kind, id |-> canid[n], src |-> n]

(* box after n has sent the frames s: everybody else has them.             *)
Sent(box, n, s) == [m \in Node |-> IF m = n THEN box[m] ELSE box[m] \o s]

Init ==
  /\ canid \in [Node -> InitialIds]
  /\ inbox = [n \in Node |-> <<>>] /\ todo = [n \in Node |-> <<>>]
  /\ bCANenum = [n \in Node |-> FALSE]
  /\ responses = [n \in Node |-> {}]
  /\ startedFromEnumMessage = [n \in Node |-> FALSE]
  /\ owed = [n \in Node |-> 0]
  /\ disturbed = {}
  /\ requests = 0 /\ restarts = 0

-----------------------------------------------------------------------------
OthersEnumerating(n) == {m \in Node \ {n} : bCANenum[m]}

(* startCANenumeration(fromENUM) on node n whose bus is box; an ENUM       *)
(* message that starts one is owed an acknowledgement.                     *)
Begin(n, fromENUM, box) ==
  /\ bCANenum' = [bCANenum EXCEPT ![n] = TRUE]
  /\ responses' = [responses EXCEPT ![n] = {}]
  /\ startedFromEnumMessage' = [startedFromEnumMessage EXCEPT ![n] = fromENUM]
  /\ owed' = IF fromENUM THEN [owed EXCEPT ![n] = @ + 1] ELSE owed
  /\ disturbed' = IF OthersEnumerating(n) = {} THEN disturbed \ {n}
                  ELSE disturbed \cup OthersEnumerating(n) \cup {n}
  /\ inbox' = Sent(box, n, <<Frame("RTR", n)>>)

StartMarking(n, fromENUM, box) ==     \* mutant: the flag is set in any case
  \/ ~bCANenum[n] /\ Begin(n, fromENUM, box)
  \/ /\ bCANenum[n]
     /\ startedFromEnumMessage' = [startedFromEnumMessage EXCEPT ![n] = fromENUM]
     /\ inbox' = box
     /\ UNCHANGED <<bCANenum, responses, owed, disturbed>>

Start(n, fromENUM, box) ==
  \/ ~bCANenum[n] /\ Begin(n, fromENUM, box)
  \/ bCANenum[n] /\ inbox' = box /\ UNCHANGED <<enumeration, owed, disturbed>>

(* A message of n: its header carries the id that n has when it is sent.   *)
Sends(n) ==
  /\ inbox' = Sent(inbox, n, <<Frame("DATA", n)>>)
  /\ UNCHANGED <<enumeration, disturbed>>

(* processAction(): the next action of the queue.                          *)
Dispatching(n, what) ==
  /\ todo[n] # <<>> /\ Head(todo[n]).what = what
  /\ UNCHANGED <<requests, restarts>>

Done(n) == todo' = [todo EXCEPT ![n] = Tail(@)]

ActStart(n) ==
  /\ Dispatching(n, "START") /\ Done(n)
  /\ Start(n, FALSE, inbox)
  /\ UNCHANGED canid

(* handleEnumeration()                                                     *)
ActEnum(n) ==
  /\ Dispatching(n, "ENUM") /\ Done(n)
  /\ Start(n, TRUE, inbox)
  /\ UNCHANGED canid

(* handleSetCANID(): a good id is set and confirmed by two messages, which *)
(* are sent with it; a bad one is refused by two messages.                 *)
ActCanid(n) ==
  /\ Dispatching(n, "CANID")
  /\ todo' = [todo EXCEPT ![n] = Tail(@) \o << [what |-> "SEND"], [what |-> "SEND"] >>]
  /\ LET id == Head(todo[n]).id
     IN  IF id \in 1 .. MaxSettable
         THEN /\ canid' = [canid EXCEPT ![n] = id]
              /\ disturbed' = disturbed \cup OthersEnumerating(n)
         ELSE UNCHANGED <<canid, disturbed>>
  /\ UNCHANGED <<inbox, enumeration, owed>>

ActSend(n) ==
  /\ Dispatching(n, "SEND") /\ Done(n)
  /\ Sends(n)
  /\ UNCHANGED <<canid, owed>>

ActNnack(n) ==
  /\ Dispatching(n, "NNACK") /\ Done(n)
  /\ Sends(n)
  /\ owed' = [owed EXCEPT ![n] = @ - 1]
  /\ UNCHANGED canid

ProcessAction(n) ==
  ActStart(n) \/ ActEnum(n) \/ ActCanid(n) \/ ActSend(n) \/ ActNnack(n)

-----------------------------------------------------------------------------
(* process(): a frame off the receive buffer, then the enumeration that a  *)
(* conflict requires, then the timer (Finish).                             *)

Receiving(n, kind) ==
  /\ inbox[n] # <<>> /\ Head(inbox[n]).kind = kind
  /\ UNCHANGED <<canid, todo, requests, restarts>>

Rest(n) == [inbox EXCEPT ![n] = Tail(@)]

(* An RTR is answered by an empty frame.                                   *)
ReceiveRtr(n) ==
  /\ Receiving(n, "RTR")
  /\ inbox' = Sent(Rest(n), n, <<Frame("EMPTY", n)>>)
  /\ UNCHANGED <<enumeration, owed, disturbed>>

TakeLastAnswer(n, id) ==              \* mutant: an answer replaces the ones before
  /\ responses' = IF bCANenum[n] /\ id > 0 THEN [responses EXCEPT ![n] = {id}]
                  ELSE responses
  /\ inbox' = Rest(n)
  /\ UNCHANGED <<bCANenum, startedFromEnumMessage, owed, disturbed>>

AnsweringWithZero(n, id) == bCANenum[n]                            \* mutant
Answering(n, id) == bCANenum[n] /\ id > 0

(* An empty frame is an answer.  An id of zero is not one.                 *)
TakeAnswer(n, id) ==
  /\ responses' = IF Answering(n, id) THEN [responses EXCEPT ![n] = @ \cup {id}]
                  ELSE responses
  /\ inbox' = Rest(n)
  /\ UNCHANGED <<bCANenum, startedFromEnumMessage, owed, disturbed>>

ReceiveEmpty(n) ==
  /\ Receiving(n, "EMPTY")
  /\ TakeAnswer(n, Head(inbox[n]).id)

(* A message from a node with our id requires an enumeration.  While one   *)
(* is under way the requirement is dropped.                                *)
ReceiveData(n) ==
  /\ Receiving(n, "DATA")
  /\ IF Head(inbox[n]).id = canid[n] THEN Start(n, FALSE, Rest(n))
     ELSE inbox' = Rest(n) /\ UNCHANGED <<enumeration, owed, disturbed>>

CheckIncomingCanFrame(n) == ReceiveRtr(n) \/ ReceiveEmpty(n) \/ ReceiveData(n)

(* findFreeCanId(): the lowest id without a response, 1 if there is none.  *)
FreeIds(n) == (1 .. MaxId) \ responses[n]

FindFreeCanId(n) ==
  IF FreeIds(n) = {} THEN 1
  ELSE CHOOSE id \in FreeIds(n) : \A i \in FreeIds(n) : id <= i

(* What the enumeration leaves behind is never read again: the next one    *)
(* sets it anew.                                                           *)
Forgotten(n) ==
  /\ responses' = [responses EXCEPT ![n] = {}]
  /\ startedFromEnumMessage' = [startedFromEnumMessage EXCEPT ![n] = FALSE]

FinishRunning(n) ==                   \* mutant: bCANenum is not reset
  /\ bCANenum[n]
  /\ canid' = [canid EXCEPT ![n] = FindFreeCanId(n)]
  /\ todo' = IF startedFromEnumMessage[n]
             THEN [todo EXCEPT ![n] = Append(@, [what |-> "NNACK"])] ELSE todo
  /\ Forgotten(n)
  /\ disturbed' = (disturbed \ {n}) \cup OthersEnumerating(n)
  /\ UNCHANGED <<bCANenum, inbox, owed, requests, restarts>>

(* checkCANenumTimout(): 100 ms after its start the cycle is over, whatever*)
(* is still on its way: answers that the others have yet to give, and those*)
(* that wait in the receive buffer of a node whose loop is slow.           *)
Finish(n) ==
  /\ bCANenum[n]
  /\ canid' = [canid EXCEPT ![n] = FindFreeCanId(n)]
  /\ bCANenum' = [bCANenum EXCEPT ![n] = FALSE]
  /\ todo' = IF startedFromEnumMessage[n]
             THEN [todo EXCEPT ![n] = Append(@, [what |-> "NNACK"])] ELSE todo
  /\ Forgotten(n)
  /\ disturbed' = (disturbed \ {n}) \cup OthersEnumerating(n)
  /\ UNCHANGED <<inbox, owed, requests, restarts>>

(* The node's user, its other services or a configuration tool want        *)
(* something of it.                                                        *)
Request(n) ==
  /\ requests < MaxRequests /\ requests' = requests + 1
  /\ \E s \in Requests : todo' = [todo EXCEPT ![n] = @ \o s]
  /\ UNCHANGED <<canid, inbox, enumeration, owed, disturbed, restarts>>

(* A node loses power and starts again with the id it had.                 *)
Restart(n) ==
  /\ restarts < MaxRestarts /\ restarts' = restarts + 1
  /\ inbox' = [inbox EXCEPT ![n] = <<>>] /\ todo' = [todo EXCEPT ![n] = <<>>]
  /\ bCANenum' = [bCANenum EXCEPT ![n] = FALSE]
  /\ owed' = [owed EXCEPT ![n] = 0]
  /\ disturbed' = (disturbed \ {n}) \cup OthersEnumerating(n)
  /\ Forgotten(n)
  /\ UNCHANGED <<canid, requests>>

Process(n) == ProcessAction(n) \/ CheckIncomingCanFrame(n) \/ Finish(n)

Next == \E n \in Node : Process(n) \/ Request(n) \/ Restart(n)

Spec == Init /\ [][Next]_vars

(* Every node keeps running its loop and every part of it has its turn.    *)
FairSpec ==
  /\ Spec
  /\ \A n \in Node : /\ WF_vars(ProcessAction(n))
                     /\ WF_vars(CheckIncomingCanFrame(n))
                     /\ WF_vars(Finish(n))

-----------------------------------------------------------------------------
TypeOK ==
  /\ canid \in [Node -> Id]
  /\ inbox \in [Node -> Seq(Frames)]
  /\ todo \in [Node -> Seq(Action)]
  /\ bCANenum \in [Node -> BOOLEAN]
  /\ responses \in [Node -> SUBSET (1 .. MaxId)]
  /\ startedFromEnumMessage \in [Node -> BOOLEAN]
  /\ owed \in [Node -> Nat]
  /\ disturbed \subseteq {n \in Node : bCANenum[n]}
  /\ requests \in 0 .. MaxRequests /\ restarts \in 0 .. MaxRestarts

(* m has not answered the enumeration of n yet, or an answer with its id   *)
(* has not been read.                                                      *)
AnswerIsLate(n, m) ==
  \/ \E i \in DOMAIN inbox[m] : inbox[m][i].kind = "RTR" /\ inbox[m][i].src = n
  \/ \E i \in DOMAIN inbox[n] : inbox[n][i].kind = "EMPTY" /\ inbox[n][i].id = canid[m]

(* An enumeration that has the bus to itself, in that no other node        *)
(* enumerates, changes its id or restarts meanwhile, ends with an id that  *)
(* no other node has, unless all ids are taken (CanService.cpp:241-311).   *)
(* Whenever its 100 ms are over, only a node whose own answer is late can  *)
(* turn out to have the same id: the answers that came in time still count.*)
LoneEnumerationIsUnique ==
  [][\A n \in Node :
       /\ bCANenum[n] /\ ~bCANenum'[n] /\ restarts' = restarts
       /\ n \notin disturbed /\ FreeIds(n) # {}
       => \A m \in Node \ {n} : canid'[m] = canid'[n] => AnswerIsLate(n, m)]_vars

(* An ENUM message that starts an enumeration is acknowledged exactly once *)
(* after it, whatever else asks for an enumeration in the meantime, and    *)
(* none that something else started is (CanService.cpp:272).               *)
Nnacks(s) == {i \in DOMAIN s : s[i].what = "NNACK"}
Acks(n)   == Cardinality(Nnacks(todo[n]))
Owes(n)   == IF bCANenum[n] /\ startedFromEnumMessage[n] THEN 1 ELSE 0
AcknowledgedOnce ==
  \A n \in Node : owed[n] = Acks(n) + Owes(n)

(* "so as not to trigger an enumeration loop" (CanService.cpp:185): when   *)
(* nobody asks for anything any more, the bus falls silent.                *)
EnumerationsCease ==
  <>[](\A n \in Node : ~bCANenum[n] /\ inbox[n] = <<>> /\ todo[n] = <<>>)

(* docs/MinimumNodeService.md:15: a module that has gone through Setup has *)
(* "a unique CAN ID".  Once all requests have been dealt with, every node  *)
(* that has an id has one of its own.                                      *)
Quiet == \A n \in Node : ~bCANenum[n] /\ inbox[n] = <<>> /\ todo[n] = <<>>
SetupGivesUniqueId ==
  Quiet => \A m, n \in Node : m # n /\ canid[m] # 0 => canid[m] # canid[n]
=============================================================================
