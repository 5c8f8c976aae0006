------------------------------ MODULE Responses ------------------------------
(***************************************************************************)
(* Requests that are answered by many messages, and TimedResponse.cpp,     *)
(* which sends them one at a time: the parameters and the services         *)
(* (MinimumNodeService.cpp), the diagnostics                               *)
(* (MinimumNodeServiceWithDiagnostics.cpp) and the node variables          *)
(* (NodeVariableService.cpp).                                              *)
(*                                                                         *)
(* Time is millis(), an unsigned long that wraps; a pass of the loop takes *)
(* a few milliseconds.  Messages for other nodes, which are dropped, and   *)
(* the count of messages acted on are left out, and so is the byte that    *)
(* NVSET and NVSETRD store, which is in VlcbNode.  A message is its opcode *)
(* and indices; of a message that is the whole answer only the sort is     *)
(* kept.                                                                   *)
(***************************************************************************)
EXTENDS Integers, FiniteSets, SequencesExt

CONSTANTS
  NumServices,   \* services of the controller, numbered from 1
  Real,          \* those with a service id; the others only hook into the loop
  Diags,         \* getDiagnosticCount() of each
  NumNVs,        \* getNumNodeVariables()
  NumParams,     \* PAR_NUM
  TaskCapacity,  \* tasks that can wait, the running one included: 4
  TaskInterval,  \* TASK_INTERVAL: 5
  ClockRange,    \* values of millis(): 2^32
  MaxPass,       \* bound: milliseconds that a pass of the loop takes
  MaxRequests    \* bound: requests that are answered by a task

Service == 1 .. NumServices

ASSUME ResponsesAssumption ==
  /\ NumServices \in Nat \ {0} /\ Real \subseteq Service
  /\ Diags \in [Service -> 0 .. 255]
  /\ NumNVs \in 0 .. 255 /\ NumParams \in 0 .. 255
  /\ TaskCapacity \in Nat \ {0} /\ TaskInterval \in Nat \ {0}
  /\ MaxPass \in Nat \ {0} /\ MaxRequests \in Nat
  /\ ClockRange \in Nat /\ ClockRange > TaskInterval + MaxPass

VARIABLES
  tasks,         \* the queue of tasks, the running one first
  clock,         \* millis()
  lastTaskTime,  \* when a task last ran a step
  reply,         \* what the last handler answered: nothing, an answer or an error
  sent,          \* history: the requests and what was sent for each by the
                 \* handler and by the task
  waited,        \* history: milliseconds that a task has waited for its step
  wrapped        \* history: the clock has wrapped since the last step

timing == <<clock, lastTaskTime, waited, wrapped>>
vars   == <<tasks, reply, sent, timing>>

Init ==
  /\ tasks = <<>> /\ reply = "none" /\ sent = <<>>
  /\ clock = 0 /\ lastTaskTime = 0
  /\ waited = 0 /\ wrapped = FALSE

-----------------------------------------------------------------------------
(* Messages.                                                               *)
PARAN(p)     == <<"PARAN", p>>
SD(i)        == <<"SD", i>>
DGN(i, code) == <<"DGN", i, code>>
NVANS(n)     == <<"NVANS", n>>

-----------------------------------------------------------------------------
(* Tasks.  id is history: the request.  svc counts services from 0; sub is *)
(* svcResponder's sequence, NoResponder when there is none.                *)
NoResponder == 1000

NewTask(kind, svc) ==
  [kind |-> kind, id |-> Len(sent) + 1, seq |-> 0, svc |-> svc, sub |-> NoResponder]

(* A full queue overwrites its oldest entry: the task that is running.     *)
AddFirst(task) ==                                    \* mutant: the newest runs first
  tasks' = <<task>> \o (IF Len(tasks) = TaskCapacity THEN Front(tasks) ELSE tasks)

Add(task) ==
  tasks' = Append(IF Len(tasks) = TaskCapacity THEN Tail(tasks) ELSE tasks, task)

Finished(msgs, task) == [msgs |-> msgs, result |-> "FINISHED", task |-> task]
Progress(msgs, task) == [msgs |-> msgs, result |-> "PROGRESS", task |-> task]

RespondParam(t) ==
  IF t.seq > NumParams THEN Finished(<<>>, t) ELSE Progress(<<PARAN(t.seq)>>, t)

RespondService(t) ==
  IF t.seq >= NumServices THEN Finished(<<>>, t)
  ELSE Progress(IF t.seq + 1 \in Real THEN <<SD(t.seq + 1)>> ELSE <<>>, t)

RespondNodeVarShort(t) ==                       \* mutant: the last one is missed
  IF t.seq + 1 >= NumNVs THEN Finished(<<>>, t) ELSE Progress(<<NVANS(t.seq + 1)>>, t)

RespondNodeVar(t) ==
  IF t.seq >= NumNVs THEN Finished(<<>>, t) ELSE Progress(<<NVANS(t.seq + 1)>>, t)

ServiceDiagnosticsResponse(t) ==
  IF t.seq >= Diags[t.svc] THEN Finished(<<>>, t)
  ELSE Progress(<<DGN(t.svc, t.seq + 1)>>, t)

NextService(msgs, t) ==
  LET next == [t EXCEPT !.svc = @ + 1, !.sub = NoResponder]
  IN  IF t.svc + 1 >= NumServices THEN Finished(msgs, next) ELSE Progress(msgs, next)

(* Each service is announced and reported by a responder of its own, whose *)
(* last step sends nothing.                                                *)
AllServiceDiagnosticsResponse(t) ==
  LET i == t.svc + 1
      announced == <<DGN(i, 0)>>
  IN  CASE t.sub = NoResponder /\ i \notin Real -> NextService(<<>>, t)
        [] t.sub = NoResponder /\ i \in Real /\ Diags[i] = 0 -> NextService(announced, t)
        [] t.sub = NoResponder /\ i \in Real /\ Diags[i] > 0 ->
             Progress(announced, [t EXCEPT !.sub = 0])
        [] t.sub < Diags[i] ->
             Progress(<<DGN(i, t.sub + 1)>>, [t EXCEPT !.sub = @ + 1])
        [] t.sub # NoResponder /\ t.sub >= Diags[i] -> NextService(<<>>, t)

RunStep(t) ==
  CASE t.kind = "param" -> RespondParam(t)
    [] t.kind = "sd"    -> RespondService(t)
    [] t.kind = "nv"    -> RespondNodeVar(t)
    [] t.kind = "dgn"   -> ServiceDiagnosticsResponse(t)
    [] t.kind = "all"   -> AllServiceDiagnosticsResponse(t)

-----------------------------------------------------------------------------
(* TimedResponse::process(), d milliseconds after it was called last.      *)
(* mutants: a step too late, and a sum that does not wrap                  *)
TooSoonAtTheEnd(now) == (lastTaskTime + TaskInterval) % ClockRange >= now
TooSoonUnwrapped(now) == lastTaskTime + TaskInterval > now

TooSoon(now) == (lastTaskTime + TaskInterval) % ClockRange > now

Smaller(a, b) == IF a < b THEN a ELSE b

TimePasses(d, stepped) ==
  /\ clock' = (clock + d) % ClockRange
  /\ waited' = IF stepped \/ tasks = <<>> THEN 0
               ELSE Smaller(waited + d, TaskInterval + MaxPass)
  /\ wrapped' = (~stepped /\ (wrapped \/ clock + d >= ClockRange))

Wait(d) ==
  /\ TooSoon((clock + d) % ClockRange) \/ tasks = <<>>
  /\ TimePasses(d, FALSE)
  /\ reply' = "none"
  /\ UNCHANGED <<tasks, sent, lastTaskTime>>

Step(d) ==
  /\ ~TooSoon((clock + d) % ClockRange) /\ tasks # <<>>
  /\ TimePasses(d, TRUE)
  /\ lastTaskTime' = (clock + d) % ClockRange
  /\ LET run == RunStep(Head(tasks))
     IN  /\ sent' = [sent EXCEPT ![Head(tasks).id].msgs = @ \o run.msgs]
         /\ tasks' = IF run.result = "FINISHED" THEN Tail(tasks)
                     ELSE <<[run.task EXCEPT !.seq = @ + 1]>> \o Tail(tasks)
  /\ reply' = "none"

Pass == \E d \in 0 .. MaxPass : Wait(d) \/ Step(d)

-----------------------------------------------------------------------------
(* Handlers.                                                               *)
Only(sort) == reply' = sort /\ UNCHANGED <<tasks, sent, timing>>

(* The first message of an answer, if it has one, and a task for the rest. *)
Start(msgs, kind, svc) ==
  /\ Len(sent) < MaxRequests
  /\ sent' = Append(sent, [kind |-> kind, svc |-> svc, msgs |-> msgs])
  /\ Add(NewTask(kind, svc))
  /\ reply' = "answer"
  /\ UNCHANGED timing

(* A message with too few bytes: GRSP.                                     *)
ShortMessage == Only("error")

(* PARAN.  An application may ask for answers of one message, for FCU.     *)
handleRequestNodeParameter(p) ==
  \/ p = 0 /\ Start(<<>>, "param", 0)
  \/ p <= NumParams /\ Only("answer")
  \/ p > NumParams /\ Only("error")

countServices == Cardinality(Real)

(* SD with the number of services, or ESD for one of them.                 *)
handleRequestServiceDefinitions(i) ==
  \/ i = 0 /\ Start(<<<<"SD", 0, countServices>>>>, "sd", 0)
  \/ i \in Real /\ Only("answer")
  \/ i > 0 /\ i \notin Real /\ Only("error")

(* reportDiagnostics() of a service: DGN, or GRSP for an unknown code.     *)
ReportDiagnostics(i, code) == Only(IF code \in 1 .. Diags[i] THEN "answer" ELSE "error")

handleRequestDiagnostics(i, code) ==
  \/ i = 0 /\ Start(<<>>, "all", 0)
  \/ i \in Real /\ code = 0 /\ Diags[i] > 0 /\ Start(<<DGN(i, 0)>>, "dgn", i)
  \/ i \in Real /\ code = 0 /\ Diags[i] = 0 /\ Only("answer")
  \/ i \in Real /\ code > 0 /\ ReportDiagnostics(i, code)
  \/ i > 0 /\ i \notin Real /\ Only("error")

(* NVANS; fcuCompatible makes the number of variables the whole answer.    *)
handleReadNV(n) ==
  \/ n > NumNVs /\ Only("error")
  \/ n = 0 /\ Start(<<<<"NVANS", 0, NumNVs>>>>, "nv", 0)
  \/ n = 0 /\ Only("answer")
  \/ n \in 1 .. NumNVs /\ Only("answer")

(* WRACK for NVSET, NVANS for NVSETRD.  Index 0 is not refused.            *)
handleSetNV(n) == Only(IF n > NumNVs THEN "error" ELSE "answer")
handleSetAndReadNV(n) == Only(IF n > NumNVs THEN "error" ELSE "answer")

Request ==
  \/ ShortMessage
  \/ \E p \in {0, 1, NumParams, NumParams + 1} : handleRequestNodeParameter(p)
  \/ \E i \in 0 .. NumServices + 1 : handleRequestServiceDefinitions(i)
  \/ \E i \in 0 .. NumServices + 1, code \in 0 .. 2 : handleRequestDiagnostics(i, code)
  \/ \E n \in 0 .. NumNVs + 1 : handleReadNV(n)
  \/ \E n \in 0 .. NumNVs + 1 : handleSetNV(n) \/ handleSetAndReadNV(n)

Next == Request \/ Pass

Spec == Init /\ [][Next]_vars

(* The loop runs and time goes on; and since its passes vary in length,    *)
(* one falls into a stretch of the clock that is met again and again.      *)
FairSpec ==
  /\ Spec
  /\ WF_vars(\E d \in 1 .. MaxPass : Wait(d))
  /\ SF_vars(\E d \in 0 .. MaxPass : Step(d))

-----------------------------------------------------------------------------
(* Properties.                                                             *)
Kind == {"param", "sd", "nv", "dgn", "all"}

(* Every variable has its type, and no more tasks wait than fit.           *)
TypeOK ==
  /\ Len(tasks) <= TaskCapacity
  /\ \A k \in DOMAIN tasks :
       /\ tasks[k].kind \in Kind /\ tasks[k].id \in DOMAIN sent
       /\ tasks[k].kind = "all" => tasks[k].svc < NumServices
  /\ {clock, lastTaskTime} \subseteq 0 .. ClockRange - 1
  /\ wrapped \in BOOLEAN
  /\ reply \in {"none", "answer", "error"}

(* What a whole answer holds: one message for each item that its first     *)
(* message announces.                                                      *)
Diagnosed(i) == {DGN(i, code) : code \in 0 .. Diags[i]}

WholeAnswer(request) ==
  CASE request.kind = "param" -> {PARAN(p) : p \in 0 .. NumParams}
    [] request.kind = "sd"    -> {<<"SD", 0, Cardinality(Real)>>} \cup {SD(i) : i \in Real}
    [] request.kind = "nv"    -> {<<"NVANS", 0, NumNVs>>} \cup {NVANS(n) : n \in 1 .. NumNVs}
    [] request.kind = "dgn"   -> Diagnosed(request.svc)
    [] request.kind = "all"   -> UNION {Diagnosed(i) : i \in Real}

(* The order of an answer: by item, and the diagnostics of a service by    *)
(* their code.                                                             *)
Before(m, n) == m[2] < n[2] \/ (m[1] = "DGN" /\ m[2] = n[2] /\ m[3] < n[3])

(* The first messages of a whole answer, in order and without a gap.       *)
BeginningOf(whole, msgs) ==
  /\ \A k \in DOMAIN msgs : msgs[k] \in whole
  /\ \A j, k \in DOMAIN msgs : j < k => Before(msgs[j], msgs[k])
  /\ \A k \in DOMAIN msgs, m \in whole : Before(m, msgs[k]) => \E j \in DOMAIN msgs : msgs[j] = m

Answer(id) == sent[id].msgs

Pending == {tasks[k].id : k \in DOMAIN tasks}

(* An answer is never wrong, only cut short, and it is whole unless its    *)
(* request was displaced by TaskCapacity later ones, however the requests  *)
(* and the steps of other answers are mixed.                               *)
AnswersAreWhole ==
  \A id \in DOMAIN sent :
    /\ BeginningOf(WholeAnswer(sent[id]), Answer(id))
    /\ \/ \A m \in WholeAnswer(sent[id]) : \E k \in DOMAIN Answer(id) : Answer(id)[k] = m
       \/ id \in Pending
       \/ id + TaskCapacity <= Len(sent)

(* Requests are answered in turn: but for the message that its handler may *)
(* send, nothing is sent for one while an earlier one still waits, so the  *)
(* tasks' messages are never mixed on the bus.                             *)
Announced(kind) == IF kind \in {"sd", "nv", "dgn"} THEN 1 ELSE 0

AnswersInTurn ==
  \A id \in DOMAIN sent, p \in Pending :
    p < id => Len(Answer(id)) <= Announced(sent[id].kind)

(* "calls this task object every 5ms" (docs/Design.md:83): a pass of the   *)
(* loop does not find a task that has waited longer and leave it waiting.  *)
StepsInTime == waited < TaskInterval

(* The same as long as the clock has not wrapped since the last step.      *)
StepsInTimeUnwrapped == wrapped \/ StepsInTime

(* Every answer comes to its end, though it may take the clock a whole     *)
(* turn to get there.                                                      *)
AnswersEnd == tasks # <<>> ~> tasks = <<>>
=============================================================================
