-------------------------- MODULE MCCanEnumeration --------------------------
(* Small worlds for CanEnumeration: what may be asked of a node, and a     *)
(* bound on what may go wrong.                                             *)
EXTENDS CanEnumeration

CONSTANT MaxMishaps    \* bound on restarts and enumerations that end too early

Do(what) == [what |-> what]

Set(id) == [what |-> "CANID", id |-> id]

(* A configuration tool's ENUM with the user's button just after it, an    *)
(* enumeration and a message of the node's own, and a tool's CANID with a  *)
(* good and a bad id.                                                      *)
AllRequests ==
  { <<Do("ENUM"), Do("START")>>, <<Do("START"), Do("SEND")>>, <<Set(0)>>, <<Set(1)>> }

(* initSetupFromUninitialised(): an enumeration, and RQNN at once.         *)
SetupRequests == { <<Do("START"), Do("SEND")>> }

VARIABLE tooEarly      \* how many enumerations ended while an answer was late

AnswersLate(n) == \E m \in Node \ {n} : AnswerIsLate(n, m)

FinishInTime(n) ==
  Finish(n) /\ ~AnswersLate(n) /\ UNCHANGED tooEarly

FinishTooEarly(n) ==
  /\ Finish(n) /\ AnswersLate(n)
  /\ restarts + tooEarly < MaxMishaps /\ tooEarly' = tooEarly + 1

RestartAtTimes(n) ==
  Restart(n) /\ restarts + tooEarly < MaxMishaps /\ UNCHANGED tooEarly

MCInit == Init /\ tooEarly = 0

MCNext == \E n \in Node :
  \/ /\ ProcessAction(n) \/ CheckIncomingCanFrame(n) \/ Request(n)
     /\ UNCHANGED tooEarly
  \/ FinishInTime(n) \/ FinishTooEarly(n) \/ RestartAtTimes(n)

(* Every node keeps running its loop and every part of it has its turn; no *)
(* enumeration has to end too early.                                       *)
MCSpec ==
  /\ MCInit /\ [][MCNext]_<<vars, tooEarly>>
  /\ \A n \in Node : /\ WF_<<vars, tooEarly>>(ProcessAction(n) /\ UNCHANGED tooEarly)
                     /\ WF_<<vars, tooEarly>>(CheckIncomingCanFrame(n) /\ UNCHANGED tooEarly)
                     /\ WF_<<vars, tooEarly>>(FinishInTime(n))
=============================================================================
