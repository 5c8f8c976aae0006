-------------------------- MODULE Responses_proofs --------------------------
(***************************************************************************)
(* Proofs about Responses, for any services, node variables, parameters,   *)
(* capacity of the queue, interval and width of the clock.                 *)
(***************************************************************************)
EXTENDS Responses, SequenceTheorems, TLAPS

LEMMA Constants ==
  /\ NumServices \in Nat \ {0} /\ Real \subseteq 1 .. NumServices
  /\ \A i \in 1 .. NumServices : Diags[i] \in 0 .. 255
  /\ NumNVs \in Nat /\ NumParams \in Nat
  /\ TaskCapacity \in Nat \ {0} /\ TaskInterval \in Nat \ {0}
  /\ MaxPass \in Nat \ {0} /\ MaxRequests \in Nat
  /\ ClockRange \in Nat /\ ClockRange > TaskInterval + MaxPass
BY ResponsesAssumption, SMT DEF Service

-----------------------------------------------------------------------------
(* Pace.  As long as the clock has not wrapped since the last step, no     *)
(* task has waited for longer than the clock has run since then.           *)
Timing ==
  /\ clock \in 0 .. ClockRange - 1 /\ lastTaskTime \in 0 .. ClockRange - 1
  /\ waited \in Nat /\ wrapped \in BOOLEAN
  /\ ~wrapped => waited <= clock - lastTaskTime /\ waited < TaskInterval

LEMMA InitTiming == Init => Timing
<1>1. 0 \in 0 .. ClockRange - 1 /\ 0 \in Nat /\ 0 <= 0 - 0 /\ 0 < TaskInterval
  BY Constants, SMT
<1>. QED BY <1>1, Zenon DEF Init, Timing

LEMMA Clock ==
  ASSUME NEW a \in Nat, a < 2 * ClockRange
  PROVE  a % ClockRange = (IF a < ClockRange THEN a ELSE a - ClockRange)
         /\ a % ClockRange \in 0 .. ClockRange - 1
<1>1. ClockRange \in Nat /\ ClockRange > 0
  BY Constants, SMT
<1>2. a = ClockRange * (a \div ClockRange) + (a % ClockRange)
  BY <1>1, SMT
<1>. QED BY <1>1, <1>2, SMT

LEMMA Waits ==
  ASSUME Timing, NEW d \in 0 .. MaxPass, Wait(d)
  PROVE  Timing'
<1>. DEFINE now == (clock + d) % ClockRange
            due == (lastTaskTime + TaskInterval) % ClockRange
<1>1. /\ clock \in Nat /\ lastTaskTime \in Nat /\ d \in Nat /\ waited \in Nat
      /\ clock < ClockRange /\ lastTaskTime < ClockRange /\ d <= MaxPass
      /\ MaxPass \in Nat /\ TaskInterval \in Nat /\ TaskInterval > 0
      /\ ClockRange \in Nat /\ ClockRange > TaskInterval + MaxPass
  BY Constants, SMT DEF Timing
<1>2. /\ now = (IF clock + d < ClockRange THEN clock + d ELSE (clock + d) - ClockRange)
      /\ now \in 0 .. ClockRange - 1
  <2>1. clock + d \in Nat /\ clock + d < 2 * ClockRange
    BY <1>1, SMT
  <2>. QED BY <2>1, Clock
<1>3. due = (IF lastTaskTime + TaskInterval < ClockRange THEN lastTaskTime + TaskInterval
             ELSE (lastTaskTime + TaskInterval) - ClockRange)
  <2>1. lastTaskTime + TaskInterval \in Nat /\ lastTaskTime + TaskInterval < 2 * ClockRange
    BY <1>1, SMT
  <2>. QED BY <2>1, Clock
<1>4. /\ clock' = now /\ lastTaskTime' = lastTaskTime
      /\ due > now \/ tasks = <<>>
      /\ waited' = (IF tasks = <<>> THEN 0 ELSE Smaller(waited + d, TaskInterval + MaxPass))
      /\ wrapped' = (wrapped \/ clock + d >= ClockRange)
  BY DEF Wait, TimePasses, TooSoon
<1>. HIDE DEF now, due
<1>5. wrapped' \in BOOLEAN
  BY <1>4
<1>6. waited' \in Nat /\ waited' <= waited + d
  BY <1>1, <1>4, SMT DEF Smaller
<1>7. ASSUME ~wrapped' PROVE waited' <= clock' - lastTaskTime' /\ waited' < TaskInterval
  <2>1. ~wrapped /\ clock + d < ClockRange
    <3>1. ~wrapped /\ ~(clock + d >= ClockRange)
      BY <1>4, <1>7, Zenon
    <3>. QED BY <1>1, <3>1, SMT
  <2>2. waited <= clock - lastTaskTime
    BY <2>1 DEF Timing
  <2>3. now = clock + d
    BY <1>2, <2>1
  <2>4. CASE tasks = <<>>
    BY <1>1, <1>4, <2>2, <2>3, <2>4, SMT
  <2>5. CASE tasks # <<>>
    <3>1. due > now
      BY <1>4, <2>5
    <3>. QED BY <1>1, <1>3, <1>4, <1>6, <2>2, <2>3, <3>1, SMT
  <2>. QED BY <2>4, <2>5
<1>. QED BY <1>2, <1>4, <1>5, <1>6, <1>7 DEF Timing

LEMMA Steps ==
  ASSUME Timing, NEW d \in 0 .. MaxPass, Step(d)
  PROVE  Timing'
<1>1. (clock + d) % ClockRange \in 0 .. ClockRange - 1
  <2>1. clock + d \in Nat /\ clock + d < 2 * ClockRange
    BY Constants, SMT DEF Timing
  <2>. QED BY <2>1, Clock
<1>2. /\ clock' = (clock + d) % ClockRange /\ lastTaskTime' = (clock + d) % ClockRange
      /\ waited' = 0 /\ wrapped' = FALSE
  BY DEF Step, TimePasses
<1>. DEFINE now == (clock + d) % ClockRange
<1>3. now - now = 0
  BY <1>1, SMT
<1>4. 0 \in Nat /\ 0 <= 0 /\ 0 < TaskInterval
  BY Constants, SMT
<1>. HIDE DEF now
<1>5. now \in 0 .. ClockRange - 1 /\ clock' = now /\ lastTaskTime' = now
  BY <1>1, <1>2 DEF now
<1>6. waited' <= clock' - lastTaskTime' /\ waited' < TaskInterval /\ waited' \in Nat
  BY <1>2, <1>3, <1>4, <1>5
<1>. QED BY <1>2, <1>5, <1>6 DEF Timing

LEMMA RequestIs ==
  ASSUME Request
  PROVE  /\ UNCHANGED timing
         /\ reply' \in {"answer", "error"}
         /\ \/ UNCHANGED <<tasks, sent>>
            \/ Start(<<>>, "param", 0)
            \/ Start(<<<<"SD", 0, Cardinality(Real)>>>>, "sd", 0)
            \/ Start(<<>>, "all", 0)
            \/ \E i \in Real : Diags[i] > 0 /\ Start(<<DGN(i, 0)>>, "dgn", i)
            \/ Start(<<<<"NVANS", 0, NumNVs>>>>, "nv", 0)
<1>1. CASE ShortMessage
  BY <1>1 DEF ShortMessage, Only
<1>2. ASSUME NEW p, handleRequestNodeParameter(p)
      PROVE  UNCHANGED timing /\ reply' \in {"answer", "error"}
             /\ (UNCHANGED <<tasks, sent>> \/ Start(<<>>, "param", 0))
  BY <1>2 DEF handleRequestNodeParameter, Only, Start
<1>3. ASSUME NEW i, handleRequestServiceDefinitions(i)
      PROVE  UNCHANGED timing /\ reply' \in {"answer", "error"}
             /\ (UNCHANGED <<tasks, sent>> \/ Start(<<<<"SD", 0, Cardinality(Real)>>>>, "sd", 0))
  BY <1>3 DEF handleRequestServiceDefinitions, Only, Start, countServices
<1>4. ASSUME NEW i, NEW code, handleRequestDiagnostics(i, code)
      PROVE  UNCHANGED timing /\ reply' \in {"answer", "error"}
             /\ \/ UNCHANGED <<tasks, sent>> \/ Start(<<>>, "all", 0)
                \/ \E j \in Real : Diags[j] > 0 /\ Start(<<DGN(j, 0)>>, "dgn", j)
  <2>1. CASE i = 0 /\ Start(<<>>, "all", 0)
    BY <2>1 DEF Start
  <2>2. CASE i \in Real /\ code = 0 /\ Diags[i] > 0 /\ Start(<<DGN(i, 0)>>, "dgn", i)
    BY <2>2 DEF Start
  <2>3. CASE ReportDiagnostics(i, code) \/ Only("answer") \/ Only("error")
    BY <2>3 DEF ReportDiagnostics, Only
  <2>. QED BY <1>4, <2>1, <2>2, <2>3 DEF handleRequestDiagnostics
<1>5. ASSUME NEW n, handleReadNV(n) \/ handleSetNV(n) \/ handleSetAndReadNV(n)
      PROVE  UNCHANGED timing /\ reply' \in {"answer", "error"}
             /\ (UNCHANGED <<tasks, sent>> \/ Start(<<<<"NVANS", 0, NumNVs>>>>, "nv", 0))
  BY <1>5 DEF handleReadNV, handleSetNV, handleSetAndReadNV, Only, Start
<1>. QED BY <1>1, <1>2, <1>3, <1>4, <1>5 DEF Request

LEMMA StepTiming == Timing /\ [Next]_vars => Timing'
<1>. SUFFICES ASSUME Timing, [Next]_vars PROVE Timing'
  OBVIOUS
<1>1. CASE UNCHANGED timing
  BY <1>1 DEF Timing, timing
<1>2. CASE Request
  BY <1>1, <1>2, RequestIs
<1>3. ASSUME NEW d \in 0 .. MaxPass, Wait(d) PROVE Timing'
  BY <1>3, Waits
<1>4. ASSUME NEW d \in 0 .. MaxPass, Step(d) PROVE Timing'
  BY <1>4, Steps
<1>5. CASE UNCHANGED vars
  BY <1>1, <1>5 DEF vars
<1>. QED BY <1>2, <1>3, <1>4, <1>5 DEF Next, Pass

(* Tasks are called every TASK_INTERVAL: no pass of the loop leaves a task *)
(* waiting that has waited for as long as that already, except after the   *)
(* clock has wrapped, when the comparison with the last time misleads.     *)
THEOREM StepsComeInTime == Spec => []StepsInTimeUnwrapped
<1>1. Timing => StepsInTimeUnwrapped
  BY DEF Timing, StepsInTimeUnwrapped, StepsInTime
<1>. QED BY <1>1, InitTiming, StepTiming, PTL DEF Spec

-----------------------------------------------------------------------------
(* The queue.  The tasks that wait are those of the last requests, in the  *)
(* order of the requests; and for a request whose turn has not come only   *)
(* its handler has sent a message.                                         *)
Message ==
  {PARAN(p) : p \in Nat} \cup {SD(i) : i \in Nat} \cup {<<"SD", 0, Cardinality(Real)>>}
    \cup {DGN(i, code) : i \in Nat, code \in Nat}
    \cup {NVANS(n) : n \in Nat} \cup {<<"NVANS", 0, NumNVs>>}

Asked == [kind : Kind, svc : Nat, msgs : Seq(Message)]
Task  == [kind : Kind, id : Nat, seq : Nat, svc : Nat, sub : Nat]

Queue ==
  /\ sent \in Seq(Asked) /\ tasks \in Seq(Task)
  /\ Len(tasks) <= TaskCapacity /\ Len(tasks) <= Len(sent)
  /\ \A k \in 1 .. Len(tasks) : tasks[k].id = (Len(sent) - Len(tasks)) + k
  /\ \A k \in 2 .. Len(tasks) :
       Len(sent[tasks[k].id].msgs) <= Announced(sent[tasks[k].id].kind)

(* A request begins an answer as its handler does.                         *)
Beginning(kind, svc, msgs) ==
  /\ kind \in Kind /\ svc \in Nat /\ msgs \in Seq(Message)
  /\ Len(msgs) = Announced(kind)
  /\ kind = "dgn" => svc \in Real /\ Diags[svc] > 0
  /\ kind = "all" => svc = 0
  /\ msgs = CASE kind = "sd"  -> <<<<"SD", 0, Cardinality(Real)>>>>
              [] kind = "nv"  -> <<<<"NVANS", 0, NumNVs>>>>
              [] kind = "dgn" -> <<DGN(svc, 0)>>
              [] OTHER -> <<>>

LEMMA Starts ==
  ASSUME Request
  PROVE  \/ UNCHANGED <<tasks, sent>>
         \/ \E kind \in Kind, svc \in Nat, msgs \in Seq(Message) :
              Beginning(kind, svc, msgs) /\ Start(msgs, kind, svc)
<1>. DEFINE Begun == \E kind \in Kind, svc \in Nat, msgs \in Seq(Message) :
                       Beginning(kind, svc, msgs) /\ Start(msgs, kind, svc)
<1>1. /\ Beginning("param", 0, <<>>) /\ Beginning("all", 0, <<>>)
      /\ "param" \in Kind /\ "all" \in Kind /\ 0 \in Nat /\ <<>> \in Seq(Message)
  BY SMT DEF Beginning, Kind, Announced
<1>2. ASSUME NEW kind \in Kind, NEW svc \in Nat, NEW m \in Message,
             Announced(kind) = 1,
             kind = "dgn" => svc \in Real /\ Diags[svc] > 0, kind # "all",
             <<m>> = CASE kind = "sd"  -> <<<<"SD", 0, Cardinality(Real)>>>>
                       [] kind = "nv"  -> <<<<"NVANS", 0, NumNVs>>>>
                       [] kind = "dgn" -> <<DGN(svc, 0)>>
                       [] OTHER -> <<>>
      PROVE  Beginning(kind, svc, <<m>>) /\ <<m>> \in Seq(Message)
  <2>1. <<m>> \in Seq(Message) /\ Len(<<m>>) = 1
    OBVIOUS
  <2>. QED BY <1>2, <2>1 DEF Beginning
<1>3. CASE Start(<<<<"SD", 0, Cardinality(Real)>>>>, "sd", 0)
  <2>1. <<"SD", 0, Cardinality(Real)>> \in Message /\ "sd" \in Kind /\ Announced("sd") = 1
    BY DEF Message, Kind, Announced
  <2>. DEFINE m == <<"SD", 0, Cardinality(Real)>>
  <2>2. <<m>> = CASE "sd" = "sd"  -> <<<<"SD", 0, Cardinality(Real)>>>>
                  [] "sd" = "nv"  -> <<<<"NVANS", 0, NumNVs>>>>
                  [] "sd" = "dgn" -> <<DGN(0, 0)>>
                  [] OTHER -> <<>>
    OBVIOUS
  <2>3. Beginning("sd", 0, <<m>>) /\ <<m>> \in Seq(Message)
    <3>. HIDE DEF m
    <3>1. m \in Message
      BY <2>1 DEF m
    <3>. QED BY <1>2, <2>1, <2>2, <3>1
  <2>4. Begun
    BY <1>3, <2>1, <2>3
  <2>. QED BY <2>4
<1>4. CASE Start(<<<<"NVANS", 0, NumNVs>>>>, "nv", 0)
  <2>1. <<"NVANS", 0, NumNVs>> \in Message /\ "nv" \in Kind /\ Announced("nv") = 1
    BY DEF Message, Kind, Announced
  <2>. DEFINE m == <<"NVANS", 0, NumNVs>>
  <2>2. <<m>> = CASE "nv" = "sd"  -> <<<<"SD", 0, Cardinality(Real)>>>>
                  [] "nv" = "nv"  -> <<<<"NVANS", 0, NumNVs>>>>
                  [] "nv" = "dgn" -> <<DGN(0, 0)>>
                  [] OTHER -> <<>>
    OBVIOUS
  <2>3. Beginning("nv", 0, <<m>>) /\ <<m>> \in Seq(Message)
    <3>. HIDE DEF m
    <3>1. m \in Message
      BY <2>1 DEF m
    <3>. QED BY <1>2, <2>1, <2>2, <3>1
  <2>4. Begun
    BY <1>4, <2>1, <2>3
  <2>. QED BY <2>4
<1>5. ASSUME NEW i \in Real, Diags[i] > 0, Start(<<DGN(i, 0)>>, "dgn", i) PROVE Begun
  <2>1. i \in Nat /\ 0 \in Nat
    BY Constants
  <2>2. DGN(i, 0) \in Message /\ "dgn" \in Kind /\ Announced("dgn") = 1
    BY <2>1 DEF Message, Kind, Announced
  <2>3. <<DGN(i, 0)>> = CASE "dgn" = "sd"  -> <<<<"SD", 0, Cardinality(Real)>>>>
                          [] "dgn" = "nv"  -> <<<<"NVANS", 0, NumNVs>>>>
                          [] "dgn" = "dgn" -> <<DGN(i, 0)>>
                          [] OTHER -> <<>>
    OBVIOUS
  <2>4. Beginning("dgn", i, <<DGN(i, 0)>>) /\ <<DGN(i, 0)>> \in Seq(Message)
    BY <1>2, <1>5, <2>1, <2>2, <2>3
  <2>. QED BY <1>5, <2>1, <2>2, <2>4
<1>6. CASE Start(<<>>, "param", 0)
  BY <1>1, <1>6
<1>7. CASE Start(<<>>, "all", 0)
  BY <1>1, <1>7
<1>. QED BY <1>3, <1>4, <1>5, <1>6, <1>7, RequestIs

(* The queue after a request: the new task is the last one, and the others *)
(* keep their order; the first is lost if there was no room.               *)
LEMMA Added ==
  ASSUME Queue, NEW task \in Task, Add(task)
  PROVE  /\ tasks' \in Seq(Task)
         /\ Len(tasks') = IF Len(tasks) = TaskCapacity THEN TaskCapacity ELSE Len(tasks) + 1
         /\ Len(tasks') \in Nat /\ Len(tasks') > 0 /\ tasks'[Len(tasks')] = task
         /\ \A k \in 1 .. Len(tasks') - 1 :
              tasks'[k] = tasks[k + IF Len(tasks) = TaskCapacity THEN 1 ELSE 0]
<1>. DEFINE left == IF Len(tasks) = TaskCapacity THEN Tail(tasks) ELSE tasks
            d == IF Len(tasks) = TaskCapacity THEN 1 ELSE 0
<1>1. tasks \in Seq(Task) /\ Len(tasks) \in Nat /\ Len(tasks) <= TaskCapacity
      /\ TaskCapacity \in Nat /\ TaskCapacity > 0
  BY Constants, LenProperties, SMT DEF Queue
<1>2. /\ left \in Seq(Task) /\ Len(left) = Len(tasks) - d
      /\ \A k \in 1 .. Len(left) : left[k] = tasks[k + d]
  <2>1. CASE Len(tasks) = TaskCapacity
    <3>1. tasks # <<>>
      BY <1>1, <2>1, SMT
    <3>. QED BY <1>1, <2>1, <3>1, HeadTailProperties
  <2>2. CASE Len(tasks) # TaskCapacity
    <3>1. \A k \in 1 .. Len(left) : k + 0 = k
      BY SMT
    <3>. QED BY <1>1, <2>2, <3>1
  <2>. QED BY <2>1, <2>2
<1>3. tasks' = Append(left, task)
  BY DEF Add
<1>. HIDE DEF left
<1>4. /\ tasks' \in Seq(Task) /\ Len(tasks') = Len(left) + 1
      /\ tasks'[Len(left) + 1] = task
      /\ \A k \in 1 .. Len(left) : tasks'[k] = left[k]
  BY <1>2, <1>3, AppendProperties
<1>5. Len(left) \in Nat /\ Len(left) = Len(tasks) - d /\ (d = 1 <=> Len(tasks) = TaskCapacity)
      /\ (d = 0 \/ d = 1) /\ Len(tasks') - 1 = Len(left)
  BY <1>1, <1>2, <1>4, SMT
<1>. HIDE DEF d
<1>6. Len(tasks') = IF Len(tasks) = TaskCapacity THEN TaskCapacity ELSE Len(tasks) + 1
  BY <1>1, <1>4, <1>5, SMT
<1>7. \A k \in 1 .. Len(tasks') - 1 : tasks'[k] = tasks[k + d]
  BY <1>2, <1>4, <1>5
<1>8. Len(tasks') \in Nat /\ Len(tasks') > 0
  BY <1>4, <1>5, SMT
<1>. QED BY <1>4, <1>6, <1>7, <1>8 DEF d

(* What a task's step does.  Done names the messages of a whole answer     *)
(* that a task has behind it: the step either sends nothing, or it sends   *)
(* the next message and has it behind it; and it ends at the end.          *)
Fits(t, r) ==
  /\ r.kind = t.kind
  /\ t.kind = "dgn" => r.svc = t.svc /\ t.svc \in Real
  /\ t.kind = "all" =>
       /\ t.svc < NumServices
       /\ t.sub # NoResponder => t.svc + 1 \in Real /\ t.sub <= Diags[t.svc + 1]

Done(t, m) ==
  \/ t.kind = "param" /\ m[2] < t.seq
  \/ t.kind \in {"sd", "nv"} /\ m[2] <= t.seq
  \/ t.kind = "dgn" /\ m[3] <= t.seq
  \/ t.kind = "all" /\ m[2] <= t.svc
  \/ t.kind = "all" /\ m[2] = t.svc + 1 /\ t.sub # NoResponder /\ m[3] <= t.sub

After(run, t, r, new) ==
  /\ run.task \in Task /\ run.task.id = t.id
  /\ run.result = "FINISHED" => \A m \in WholeAnswer(r) : Done(t, m) \/ m \in new
  /\ run.result # "FINISHED" =>
       LET next == [run.task EXCEPT !.seq = @ + 1]
       IN  /\ next \in Task /\ next.id = t.id /\ Fits(next, r)
           /\ \A m \in WholeAnswer(r) : Done(next, m) <=> Done(t, m) \/ m \in new

Stepped(run, t, r) ==
  \/ run.msgs = <<>> /\ After(run, t, r, {})
  \/ \E m \in WholeAnswer(r) :
       /\ run.msgs = <<m>> /\ After(run, t, r, {m})
       /\ \A x \in WholeAnswer(r) : Done(t, x) <=> Before(x, m)

LEMMA SendsOne ==
  ASSUME NEW run, NEW t, NEW r, NEW m \in WholeAnswer(r), run.msgs = <<m>>,
         After(run, t, r, {m}), \A x \in WholeAnswer(r) : Done(t, x) <=> Before(x, m)
  PROVE  Stepped(run, t, r)
BY Zenon DEF Stepped

LEMMA ParamStep ==
  ASSUME NEW t \in Task, NEW r \in Asked, Fits(t, r), t.kind = "param"
  PROVE  Stepped(RespondParam(t), t, r)
<1>. DEFINE next == [t EXCEPT !.seq = @ + 1]
<1>1. t.seq \in Nat /\ NumParams \in Nat
  BY Constants DEF Task
<1>2. WholeAnswer(r) = {PARAN(p) : p \in 0 .. NumParams}
  BY DEF Fits, WholeAnswer
<1>3. \A m \in WholeAnswer(r) : Done(t, m) <=> m[2] < t.seq
  BY DEF Done
<1>4. /\ next \in Task /\ next.id = t.id /\ next.kind = "param" /\ next.seq = t.seq + 1
      /\ Fits(next, r)
  BY <1>1 DEF Task, Fits
<1>5. \A m : Done(next, m) <=> m[2] < t.seq + 1
  BY <1>4 DEF Done
<1>6. CASE t.seq > NumParams
  <2>1. RespondParam(t) = [msgs |-> <<>>, result |-> "FINISHED", task |-> t]
    BY <1>6 DEF RespondParam, Finished
  <2>2. \A m \in WholeAnswer(r) : Done(t, m)
    BY <1>1, <1>2, <1>3, <1>6, SMT DEF PARAN
  <2>3. After(RespondParam(t), t, r, {})
    BY <2>1, <2>2 DEF After
  <2>. QED BY <2>1, <2>3 DEF Stepped
<1>7. CASE ~(t.seq > NumParams)
  <2>. DEFINE m == PARAN(t.seq)
  <2>1. RespondParam(t) = [msgs |-> <<m>>, result |-> "PROGRESS", task |-> t]
    BY <1>7 DEF RespondParam, Progress
  <2>2. m \in WholeAnswer(r)
    BY <1>1, <1>2, <1>7, SMT
  <2>3. \A x \in WholeAnswer(r) : x[2] \in Nat /\ (x = m <=> x[2] = t.seq) /\ (Before(x, m) <=> x[2] < t.seq)
    BY <1>1, <1>2, SMT DEF PARAN, Before
  <2>4. \A x \in WholeAnswer(r) : Done(next, x) <=> Done(t, x) \/ x \in {m}
    BY <1>1, <1>3, <1>5, <2>3, SMT
  <2>. HIDE DEF m
  <2>5. After(RespondParam(t), t, r, {m})
    BY <1>4, <2>1, <2>4 DEF After
  <2>6. RespondParam(t).msgs = <<m>> /\ \A x \in WholeAnswer(r) : Done(t, x) <=> Before(x, m)
    BY <1>3, <2>1, <2>3
  <2>. QED BY <2>2, <2>5, <2>6, SendsOne
<1>. QED BY <1>6, <1>7

LEMMA ServiceStep ==
  ASSUME NEW t \in Task, NEW r \in Asked, Fits(t, r), t.kind = "sd"
  PROVE  Stepped(RespondService(t), t, r)
<1>. DEFINE next == [t EXCEPT !.seq = @ + 1]
<1>1. t.seq \in Nat /\ NumServices \in Nat /\ \A i \in Real : i \in Nat /\ i > 0 /\ i <= NumServices
  BY Constants, SMT DEF Task
<1>2. WholeAnswer(r) = {<<"SD", 0, Cardinality(Real)>>} \cup {SD(i) : i \in Real}
  BY DEF Fits, WholeAnswer
<1>3. \A m \in WholeAnswer(r) : Done(t, m) <=> m[2] <= t.seq
  BY DEF Done
<1>4. /\ next \in Task /\ next.id = t.id /\ next.kind = "sd" /\ next.seq = t.seq + 1
      /\ Fits(next, r)
  BY <1>1 DEF Task, Fits
<1>5. \A m : Done(next, m) <=> m[2] <= t.seq + 1
  BY <1>4 DEF Done
<1>6. \A x \in WholeAnswer(r) :
         x[2] \in Nat /\ x[1] = "SD" /\ (x[2] = 0 \/ (x[2] \in Real /\ x = SD(x[2])))
  BY <1>1, <1>2, SMT DEF SD
<1>7. CASE t.seq >= NumServices
  <2>1. RespondService(t) = [msgs |-> <<>>, result |-> "FINISHED", task |-> t]
    BY <1>7 DEF RespondService, Finished
  <2>2. \A m \in WholeAnswer(r) : Done(t, m)
    BY <1>1, <1>3, <1>6, <1>7, SMT
  <2>3. After(RespondService(t), t, r, {})
    BY <2>1, <2>2 DEF After
  <2>. QED BY <2>1, <2>3 DEF Stepped
<1>8. CASE ~(t.seq >= NumServices) /\ t.seq + 1 \in Real
  <2>. DEFINE m == SD(t.seq + 1)
  <2>1. RespondService(t) = [msgs |-> <<m>>, result |-> "PROGRESS", task |-> t]
    BY <1>8 DEF RespondService, Progress
  <2>2. m \in WholeAnswer(r) /\ m[2] = t.seq + 1
    BY <1>2, <1>8 DEF SD
  <2>3. \A x \in WholeAnswer(r) :
           (x = m <=> x[2] = t.seq + 1) /\ (Before(x, m) <=> x[2] < t.seq + 1)
    BY <1>1, <1>6, <2>2, SMT DEF Before
  <2>. HIDE DEF m
  <2>4. \A x \in WholeAnswer(r) : Done(next, x) <=> Done(t, x) \/ x \in {m}
    BY <1>1, <1>3, <1>5, <1>6, <2>3, SMT
  <2>5. After(RespondService(t), t, r, {m})
    BY <1>4, <2>1, <2>4 DEF After
  <2>6. \A x \in WholeAnswer(r) : Done(t, x) <=> Before(x, m)
    BY <1>1, <1>3, <1>6, <2>3, SMT
  <2>. QED BY <2>1, <2>2, <2>5, <2>6, SendsOne
<1>9. CASE ~(t.seq >= NumServices) /\ t.seq + 1 \notin Real
  <2>1. RespondService(t) = [msgs |-> <<>>, result |-> "PROGRESS", task |-> t]
    BY <1>9 DEF RespondService, Progress
  <2>2. \A x \in WholeAnswer(r) : x[2] # t.seq + 1
    BY <1>1, <1>6, <1>9, SMT
  <2>3. \A x \in WholeAnswer(r) : Done(next, x) <=> Done(t, x) \/ x \in {}
    BY <1>1, <1>3, <1>5, <1>6, <2>2, SMT
  <2>4. After(RespondService(t), t, r, {})
    BY <1>4, <2>1, <2>3 DEF After
  <2>. QED BY <2>1, <2>4 DEF Stepped
<1>. QED BY <1>7, <1>8, <1>9

LEMMA VariableStep ==
  ASSUME NEW t \in Task, NEW r \in Asked, Fits(t, r), t.kind = "nv"
  PROVE  Stepped(RespondNodeVar(t), t, r)
<1>. DEFINE next == [t EXCEPT !.seq = @ + 1]
<1>1. t.seq \in Nat /\ NumNVs \in Nat
  BY Constants DEF Task
<1>2. WholeAnswer(r) = {<<"NVANS", 0, NumNVs>>} \cup {NVANS(n) : n \in 1 .. NumNVs}
  BY DEF Fits, WholeAnswer
<1>3. \A m \in WholeAnswer(r) : Done(t, m) <=> m[2] <= t.seq
  BY DEF Done
<1>4. /\ next \in Task /\ next.id = t.id /\ next.kind = "nv" /\ next.seq = t.seq + 1
      /\ Fits(next, r)
  BY <1>1 DEF Task, Fits
<1>5. \A m : Done(next, m) <=> m[2] <= t.seq + 1
  BY <1>4 DEF Done
<1>6. \A x \in WholeAnswer(r) :
         /\ x[2] \in Nat /\ x[2] <= NumNVs /\ x[1] = "NVANS"
         /\ x[2] = 0 \/ x = NVANS(x[2])
  BY <1>1, <1>2, SMT DEF NVANS
<1>7. CASE t.seq >= NumNVs
  <2>1. RespondNodeVar(t) = [msgs |-> <<>>, result |-> "FINISHED", task |-> t]
    BY <1>7 DEF RespondNodeVar, Finished
  <2>2. \A m \in WholeAnswer(r) : Done(t, m)
    BY <1>1, <1>3, <1>6, <1>7, SMT
  <2>3. After(RespondNodeVar(t), t, r, {})
    BY <2>1, <2>2 DEF After
  <2>. QED BY <2>1, <2>3 DEF Stepped
<1>8. CASE ~(t.seq >= NumNVs)
  <2>. DEFINE m == NVANS(t.seq + 1)
  <2>1. RespondNodeVar(t) = [msgs |-> <<m>>, result |-> "PROGRESS", task |-> t]
    BY <1>8 DEF RespondNodeVar, Progress
  <2>2. m \in WholeAnswer(r) /\ m[2] = t.seq + 1
    <3>1. t.seq + 1 \in 1 .. NumNVs
      BY <1>1, <1>8, SMT
    <3>. QED BY <1>2, <3>1 DEF NVANS
  <2>3. \A x \in WholeAnswer(r) :
           (x = m <=> x[2] = t.seq + 1) /\ (Before(x, m) <=> x[2] < t.seq + 1)
    BY <1>1, <1>6, <2>2, SMT DEF Before
  <2>. HIDE DEF m
  <2>4. \A x \in WholeAnswer(r) : Done(next, x) <=> Done(t, x) \/ x \in {m}
    BY <1>1, <1>3, <1>5, <1>6, <2>3, SMT
  <2>5. After(RespondNodeVar(t), t, r, {m})
    BY <1>4, <2>1, <2>4 DEF After
  <2>6. \A x \in WholeAnswer(r) : Done(t, x) <=> Before(x, m)
    BY <1>1, <1>3, <1>6, <2>3, SMT
  <2>. QED BY <2>1, <2>2, <2>5, <2>6, SendsOne
<1>. QED BY <1>7, <1>8

LEMMA DiagnosticStep ==
  ASSUME NEW t \in Task, NEW r \in Asked, Fits(t, r), t.kind = "dgn"
  PROVE  Stepped(ServiceDiagnosticsResponse(t), t, r)
<1>. DEFINE next == [t EXCEPT !.seq = @ + 1]
            n == Diags[t.svc]
<1>1. t.seq \in Nat /\ t.svc \in Real /\ n \in Nat /\ t.svc \in Nat
  BY Constants, SMT DEF Task, Fits
<1>2. WholeAnswer(r) = {DGN(t.svc, code) : code \in 0 .. n}
  BY DEF Fits, WholeAnswer, Diagnosed
<1>3. \A m \in WholeAnswer(r) : Done(t, m) <=> m[3] <= t.seq
  BY DEF Done
<1>4. /\ next \in Task /\ next.id = t.id /\ next.kind = "dgn" /\ next.seq = t.seq + 1
      /\ Fits(next, r)
  BY <1>1 DEF Task, Fits
<1>5. \A m : Done(next, m) <=> m[3] <= t.seq + 1
  BY <1>4 DEF Done
<1>. HIDE DEF n
<1>6. \A x \in WholeAnswer(r) :
         /\ x[2] = t.svc /\ x[3] \in Nat /\ x[3] <= n /\ x[1] = "DGN"
         /\ x = DGN(t.svc, x[3])
  BY <1>1, <1>2, SMT DEF DGN
<1>7. CASE t.seq >= n
  <2>1. ServiceDiagnosticsResponse(t) = [msgs |-> <<>>, result |-> "FINISHED", task |-> t]
    BY <1>7 DEF ServiceDiagnosticsResponse, Finished, n
  <2>2. \A m \in WholeAnswer(r) : Done(t, m)
    BY <1>1, <1>3, <1>6, <1>7, SMT
  <2>3. After(ServiceDiagnosticsResponse(t), t, r, {})
    BY <2>1, <2>2 DEF After
  <2>. QED BY <2>1, <2>3 DEF Stepped
<1>8. CASE ~(t.seq >= n)
  <2>. DEFINE m == DGN(t.svc, t.seq + 1)
  <2>1. ServiceDiagnosticsResponse(t) = [msgs |-> <<m>>, result |-> "PROGRESS", task |-> t]
    BY <1>8 DEF ServiceDiagnosticsResponse, Progress, n
  <2>2. m \in WholeAnswer(r) /\ m[2] = t.svc /\ m[3] = t.seq + 1
    <3>1. t.seq + 1 \in 0 .. n
      BY <1>1, <1>8, SMT
    <3>. QED BY <1>2, <3>1 DEF DGN
  <2>3. \A x \in WholeAnswer(r) :
           (x = m <=> x[3] = t.seq + 1) /\ (Before(x, m) <=> x[3] < t.seq + 1)
    BY <1>1, <1>6, <2>2, SMT DEF Before
  <2>. HIDE DEF m
  <2>4. \A x \in WholeAnswer(r) : Done(next, x) <=> Done(t, x) \/ x \in {m}
    BY <1>1, <1>3, <1>5, <1>6, <2>3, SMT
  <2>5. After(ServiceDiagnosticsResponse(t), t, r, {m})
    BY <1>4, <2>1, <2>4 DEF After
  <2>6. \A x \in WholeAnswer(r) : Done(t, x) <=> Before(x, m)
    BY <1>1, <1>3, <1>6, <2>3, SMT
  <2>. QED BY <2>1, <2>2, <2>5, <2>6, SendsOne
<1>. QED BY <1>7, <1>8

LEMMA ToNextService ==
  ASSUME NEW t \in Task, NEW r \in Asked, Fits(t, r), t.kind = "all", NEW msgs, NEW new,
         \A m \in WholeAnswer(r) : m[2] \in Nat /\ m[2] > 0 /\ m[2] <= NumServices,
         \A m \in WholeAnswer(r) : (Done(t, m) \/ m \in new) <=> m[2] <= t.svc + 1
  PROVE  NextService(msgs, t).msgs = msgs /\ After(NextService(msgs, t), t, r, new)
<1>. DEFINE moved == [t EXCEPT !.svc = @ + 1, !.sub = NoResponder]
            next == [moved EXCEPT !.seq = @ + 1]
<1>1. t.svc \in Nat /\ t.svc < NumServices /\ t.seq \in Nat /\ NumServices \in Nat
  BY Constants DEF Task, Fits
<1>2. /\ moved \in Task /\ moved.id = t.id /\ moved.svc = t.svc + 1
      /\ moved.kind = "all" /\ moved.sub = NoResponder
  <2>1. NoResponder \in Nat
    BY DEF NoResponder
  <2>. DEFINE v == t.svc + 1
  <2>2. v \in Nat /\ moved = [t EXCEPT !.svc = v, !.sub = NoResponder]
    BY <1>1
  <2>. HIDE DEF v, moved
  <2>3. moved \in Task /\ moved.id = t.id /\ moved.svc = v /\ moved.kind = "all"
        /\ moved.sub = NoResponder
    BY <2>1, <2>2 DEF Task
  <2>. QED BY <2>3 DEF v
<1>3. /\ next \in Task /\ next.id = t.id /\ next.svc = t.svc + 1
      /\ next.kind = "all" /\ next.sub = NoResponder
  <2>. HIDE DEF moved
  <2>1. moved.seq \in Nat
    BY <1>2 DEF Task
  <2>. QED BY <1>2, <2>1 DEF Task
<1>. HIDE DEF next
<1>4. \A m : Done(next, m) <=> m[2] <= t.svc + 1
  BY <1>3 DEF Done
<1>5. CASE t.svc + 1 >= NumServices
  <2>1. NextService(msgs, t) = [msgs |-> msgs, result |-> "FINISHED", task |-> moved]
    BY <1>5 DEF NextService, Finished
  <2>2. \A m \in WholeAnswer(r) : Done(t, m) \/ m \in new
    <3>1. ASSUME NEW m \in WholeAnswer(r) PROVE m[2] <= t.svc + 1
      BY <1>1, <1>5, SMT
    <3>. QED BY <3>1
  <2>. HIDE DEF moved
  <2>. QED BY <1>2, <2>1, <2>2 DEF After
<1>6. CASE ~(t.svc + 1 >= NumServices)
  <2>1. NextService(msgs, t) = [msgs |-> msgs, result |-> "PROGRESS", task |-> moved]
    BY <1>6 DEF NextService, Progress
  <2>2. Fits(next, r)
    BY <1>1, <1>3, <1>6, SMT DEF Fits
  <2>3. \A m \in WholeAnswer(r) : Done(next, m) <=> Done(t, m) \/ m \in new
    BY <1>4
  <2>4. next = [moved EXCEPT !.seq = @ + 1]
    BY DEF next
  <2>. HIDE DEF moved
  <2>. QED BY <1>2, <1>3, <2>1, <2>2, <2>3, <2>4 DEF After
<1>. QED BY <1>5, <1>6

LEMMA AllStep ==
  ASSUME NEW t \in Task, NEW r \in Asked, Fits(t, r), t.kind = "all"
  PROVE  Stepped(AllServiceDiagnosticsResponse(t), t, r)
<1>. DEFINE i == t.svc + 1
            n == Diags[i]
<1>1. /\ t.svc \in Nat /\ t.seq \in Nat /\ t.sub \in Nat /\ t.svc < NumServices
      /\ NumServices \in Nat /\ i \in 1 .. NumServices /\ i \in Nat
  BY Constants, SMT DEF Task, Fits
<1>2. n \in 0 .. 255
  BY <1>1, Constants
<1>3. WholeAnswer(r) = UNION {Diagnosed(k) : k \in Real}
  BY DEF Fits, WholeAnswer
<1>4. \A x \in WholeAnswer(r) :
         /\ x[2] \in Real /\ x[2] \in Nat /\ x[2] > 0 /\ x[2] <= NumServices
         /\ x[3] \in 0 .. Diags[x[2]] /\ x[3] \in Nat /\ x[1] = "DGN"
         /\ x = DGN(x[2], x[3])
  <2>1. ASSUME NEW k \in Real, NEW code \in 0 .. Diags[k]
        PROVE  /\ DGN(k, code)[1] = "DGN" /\ DGN(k, code)[2] = k /\ DGN(k, code)[3] = code
               /\ k \in Nat /\ k > 0 /\ k <= NumServices /\ code \in Nat
    <3>1. k \in 1 .. NumServices
      BY Constants
    <3>. QED BY <3>1, Constants, SMT DEF DGN
  <2>2. ASSUME NEW x \in WholeAnswer(r)
        PROVE  \E k \in Real : \E code \in 0 .. Diags[k] : x = DGN(k, code)
    BY <1>3 DEF Diagnosed
  <2>. QED BY <2>1, <2>2
<1>5. \A x \in WholeAnswer(r) :
         Done(t, x) <=> x[2] <= t.svc \/ (x[2] = i /\ t.sub # NoResponder /\ x[3] <= t.sub)
  BY DEF Done
<1>6. i \in Real => \A code \in 0 .. n : DGN(i, code) \in WholeAnswer(r)
  BY <1>3 DEF Diagnosed
<1>7. \A x \in WholeAnswer(r) : x[2] = i => x[3] <= n
  BY <1>1, <1>2, <1>4, SMT
<1>. HIDE DEF i, n
<1>8. i = t.svc + 1
  BY DEF i
<1>9. CASE t.sub = NoResponder /\ i \notin Real
  <2>1. AllServiceDiagnosticsResponse(t) = NextService(<<>>, t)
    <3>1. ~(t.sub < n)
      BY <1>2, <1>9, SMT DEF NoResponder
    <3>. QED BY <1>9, <3>1 DEF AllServiceDiagnosticsResponse, i, n
  <2>2. \A m \in WholeAnswer(r) : (Done(t, m) \/ m \in {}) <=> m[2] <= t.svc + 1
    BY <1>1, <1>4, <1>5, <1>8, <1>9, SMT
  <2>3. NextService(<<>>, t).msgs = <<>> /\ After(NextService(<<>>, t), t, r, {})
    BY <1>4, <2>2, ToNextService
  <2>. QED BY <2>1, <2>3 DEF Stepped
<1>10. CASE t.sub = NoResponder /\ i \in Real /\ n = 0
  <2>. DEFINE m == DGN(i, 0)
  <2>1. AllServiceDiagnosticsResponse(t) = NextService(<<m>>, t)
    <3>1. ~(t.sub < n)
      BY <1>2, <1>10, SMT DEF NoResponder
    <3>. QED BY <1>10, <3>1 DEF AllServiceDiagnosticsResponse, i, n
  <2>2. m \in WholeAnswer(r) /\ m[2] = i
    <3>1. 0 \in 0 .. n
      BY <1>2, SMT
    <3>. QED BY <1>6, <1>10, <3>1 DEF DGN
  <2>3. \A x \in WholeAnswer(r) : (x = m <=> x[2] = i) /\ (Before(x, m) <=> x[2] < i)
    <3>1. m = DGN(i, 0) /\ m[3] = 0
      BY DEF DGN
    <3>. HIDE DEF m
    <3>2. ASSUME NEW x \in WholeAnswer(r)
          PROVE  (x = m <=> x[2] = i) /\ (Before(x, m) <=> x[2] < i)
      <4>1. x[2] = i => x[3] = 0
        BY <1>4, <1>7, <1>10, SMT
      <4>2. x = DGN(x[2], x[3])
        BY <1>4
      <4>3. x = m <=> x[2] = i
        BY <2>2, <3>1, <4>1, <4>2
      <4>4. Before(x, m) <=> x[2] < i
        BY <1>1, <1>4, <2>2, <3>1, <4>1, SMT DEF Before
      <4>. QED BY <4>3, <4>4
    <3>. QED BY <3>2
  <2>. HIDE DEF m
  <2>4. \A x \in WholeAnswer(r) : (Done(t, x) \/ x \in {m}) <=> x[2] <= t.svc + 1
    BY <1>1, <1>4, <1>5, <1>8, <1>10, <2>3, SMT
  <2>5. NextService(<<m>>, t).msgs = <<m>> /\ After(NextService(<<m>>, t), t, r, {m})
    BY <1>4, <2>4, ToNextService
  <2>6. \A x \in WholeAnswer(r) : Done(t, x) <=> Before(x, m)
    BY <1>1, <1>4, <1>5, <1>8, <1>10, <2>3, SMT
  <2>. QED BY <2>1, <2>2, <2>5, <2>6, SendsOne
<1>11. CASE t.sub = NoResponder /\ i \in Real /\ n > 0
  <2>. DEFINE m == DGN(i, 0)
  <2>1. AllServiceDiagnosticsResponse(t) = Progress(<<m>>, [t EXCEPT !.sub = 0])
    <3>1. ~(t.sub < n) /\ n # 0
      BY <1>2, <1>11, SMT DEF NoResponder
    <3>. QED BY <1>11, <3>1 DEF AllServiceDiagnosticsResponse, i, n
  <2>2. m \in WholeAnswer(r) /\ m[2] = i /\ m[3] = 0
    <3>1. 0 \in 0 .. n
      BY <1>2, SMT
    <3>. QED BY <1>6, <1>11, <3>1 DEF DGN
  <2>3. \A x \in WholeAnswer(r) :
           (x = m <=> x[2] = i /\ x[3] <= 0) /\ (Before(x, m) <=> x[2] < i)
    <3>1. m = DGN(i, 0)
      OBVIOUS
    <3>. HIDE DEF m
    <3>2. ASSUME NEW x \in WholeAnswer(r)
          PROVE  (x = m <=> x[2] = i /\ x[3] <= 0) /\ (Before(x, m) <=> x[2] < i)
      <4>1. x = DGN(x[2], x[3]) /\ x[3] \in Nat
        BY <1>4
      <4>2. x[3] <= 0 <=> x[3] = 0
        BY <4>1, SMT
      <4>3. x = m <=> x[2] = i /\ x[3] <= 0
        BY <2>2, <3>1, <4>1, <4>2
      <4>4. Before(x, m) <=> x[2] < i
        BY <1>1, <1>4, <2>2, <4>1, SMT DEF Before
      <4>. QED BY <4>3, <4>4
    <3>. QED BY <3>2
  <2>. HIDE DEF m
  <2>. DEFINE moved == [t EXCEPT !.sub = 0]
              next == [moved EXCEPT !.seq = @ + 1]
  <2>4. moved \in Task /\ moved.id = t.id /\ moved.svc = t.svc /\ moved.kind = "all" /\ moved.sub = 0
    BY <1>1 DEF Task
  <2>5. next \in Task /\ next.id = t.id /\ next.svc = t.svc /\ next.kind = "all" /\ next.sub = 0
    <3>. HIDE DEF moved
    <3>1. moved.seq \in Nat
      BY <2>4 DEF Task
    <3>. QED BY <2>4, <3>1 DEF Task
  <2>6. AllServiceDiagnosticsResponse(t) = [msgs |-> <<m>>, result |-> "PROGRESS", task |-> moved]
    BY <2>1 DEF Progress
  <2>7. AllServiceDiagnosticsResponse(t).msgs = <<m>> /\ After(AllServiceDiagnosticsResponse(t), t, r, {m})
    <3>. HIDE DEF moved, next
    <3>1. 0 <= n /\ n = Diags[t.svc + 1]
      BY <1>2, SMT DEF n, i
    <3>2. Fits(next, r)
      BY <1>8, <1>11, <2>5, <3>1 DEF Fits
    <3>3. \A x : Done(next, x) <=> x[2] <= t.svc \/ (x[2] = i /\ x[3] <= 0)
      <4>1. NoResponder # 0
        BY DEF NoResponder
      <4>. QED BY <1>8, <2>5, <4>1 DEF Done
    <3>4. \A x \in WholeAnswer(r) : Done(next, x) <=> Done(t, x) \/ x \in {m}
      BY <1>5, <1>11, <2>3, <3>3
    <3>. QED BY <2>4, <2>5, <2>6, <3>2, <3>4 DEF After, next
  <2>8. \A x \in WholeAnswer(r) : Done(t, x) <=> Before(x, m)
    BY <1>1, <1>4, <1>5, <1>8, <1>11, <2>3, SMT
  <2>. QED BY <2>2, <2>7, <2>8, SendsOne
<1>12. CASE t.sub # NoResponder /\ t.sub < n
  <2>. DEFINE m == DGN(i, t.sub + 1)
              u == t.sub + 1
  <2>1. AllServiceDiagnosticsResponse(t) = Progress(<<m>>, [t EXCEPT !.sub = u])
    <3>1. ~(t.sub >= n)
      BY <1>1, <1>2, <1>12, SMT
    <3>. QED BY <1>12, <3>1 DEF AllServiceDiagnosticsResponse, i, n
  <2>2. i \in Real /\ u \in Nat /\ u \in 0 .. n
    BY <1>1, <1>2, <1>8, <1>12, SMT DEF Fits
  <2>3. m \in WholeAnswer(r) /\ m[2] = i /\ m[3] = u
    BY <1>6, <2>2 DEF DGN
  <2>4. m = DGN(i, u) /\ u = t.sub + 1 /\ u # NoResponder
    BY <1>2, <2>2, SMT DEF NoResponder
  <2>. HIDE DEF m
  <2>5. ASSUME NEW x \in WholeAnswer(r)
        PROVE  /\ x = m <=> x[2] = i /\ x[3] = u
               /\ Before(x, m) <=> x[2] < i \/ (x[2] = i /\ x[3] < u)
    <3>1. x = DGN(x[2], x[3])
      BY <1>4
    <3>2. x = m <=> x[2] = i /\ x[3] = u
      BY <2>3, <2>4, <3>1
    <3>3. Before(x, m) <=> x[2] < i \/ (x[2] = i /\ x[3] < u)
      BY <1>4, <2>3 DEF Before
    <3>. QED BY <3>2, <3>3
  <2>. HIDE DEF u
  <2>. DEFINE moved == [t EXCEPT !.sub = u]
              next == [moved EXCEPT !.seq = @ + 1]
  <2>6. moved \in Task /\ moved.id = t.id /\ moved.svc = t.svc /\ moved.kind = "all" /\ moved.sub = u
    BY <1>1, <2>2 DEF Task
  <2>7. next \in Task /\ next.id = t.id /\ next.svc = t.svc /\ next.kind = "all" /\ next.sub = u
    <3>. HIDE DEF moved
    <3>1. moved.seq \in Nat
      BY <2>6 DEF Task
    <3>. QED BY <2>6, <3>1 DEF Task
  <2>8. AllServiceDiagnosticsResponse(t) = [msgs |-> <<m>>, result |-> "PROGRESS", task |-> moved]
    BY <2>1 DEF Progress
  <2>9. AllServiceDiagnosticsResponse(t).msgs = <<m>> /\ After(AllServiceDiagnosticsResponse(t), t, r, {m})
    <3>. HIDE DEF moved, next
    <3>1. u <= n /\ n = Diags[t.svc + 1]
      BY <1>2, <2>2, SMT DEF n, i
    <3>2. Fits(next, r)
      BY <1>8, <2>2, <2>7, <3>1 DEF Fits
    <3>3. \A x : Done(next, x) <=> x[2] <= t.svc \/ (x[2] = i /\ x[3] <= u)
      BY <1>8, <2>4, <2>7 DEF Done
    <3>4. ASSUME NEW x \in WholeAnswer(r) PROVE Done(next, x) <=> Done(t, x) \/ x \in {m}
      <4>1. x[3] <= u <=> x[3] <= t.sub \/ x[3] = u
        BY <1>1, <1>4, <2>4, SMT
      <4>. QED BY <1>5, <1>12, <2>5, <3>3, <4>1
    <3>. QED BY <2>6, <2>7, <2>8, <3>2, <3>4 DEF After, next
  <2>10. ASSUME NEW x \in WholeAnswer(r) PROVE Done(t, x) <=> Before(x, m)
    <3>1. (x[2] <= t.svc <=> x[2] < i) /\ (x[3] <= t.sub <=> x[3] < u)
      BY <1>1, <1>4, <1>8, <2>4, SMT
    <3>. QED BY <1>5, <1>12, <2>5, <3>1
  <2>. QED BY <2>3, <2>9, <2>10, SendsOne
<1>13. CASE t.sub # NoResponder /\ ~(t.sub < n)
  <2>1. AllServiceDiagnosticsResponse(t) = NextService(<<>>, t)
    <3>1. t.sub >= n
      BY <1>1, <1>2, <1>13, SMT
    <3>. QED BY <1>13, <3>1 DEF AllServiceDiagnosticsResponse, i, n
  <2>2. ASSUME NEW x \in WholeAnswer(r) PROVE (Done(t, x) \/ x \in {}) <=> x[2] <= t.svc + 1
    <3>1. x[2] = i => x[3] <= t.sub
      BY <1>1, <1>2, <1>4, <1>7, <1>13, SMT
    <3>2. x[2] <= t.svc + 1 <=> x[2] <= t.svc \/ x[2] = i
      BY <1>1, <1>4, <1>8, SMT
    <3>. QED BY <1>5, <1>13, <3>1, <3>2
  <2>3. NextService(<<>>, t).msgs = <<>> /\ After(NextService(<<>>, t), t, r, {})
    BY <1>4, <2>2, ToNextService
  <2>. QED BY <2>1, <2>3 DEF Stepped
<1>. QED BY <1>2, <1>9, <1>10, <1>11, <1>12, <1>13, SMT

LEMMA EveryStep ==
  ASSUME NEW t \in Task, NEW r \in Asked, Fits(t, r)
  PROVE  Stepped(RunStep(t), t, r)
<1>1. t.kind \in {"param", "sd", "nv", "dgn", "all"}
  BY DEF Task, Kind
<1>2. CASE t.kind = "param"
  BY <1>2, ParamStep DEF RunStep
<1>3. CASE t.kind = "sd"
  BY <1>3, ServiceStep DEF RunStep
<1>4. CASE t.kind = "nv"
  BY <1>4, VariableStep DEF RunStep
<1>5. CASE t.kind = "dgn"
  BY <1>5, DiagnosticStep DEF RunStep
<1>6. CASE t.kind = "all"
  BY <1>6, AllStep DEF RunStep
<1>. QED BY <1>1, <1>2, <1>3, <1>4, <1>5, <1>6

-----------------------------------------------------------------------------
(* The answers.  What was sent for a request is the beginning of its whole *)
(* answer; a task that waits has behind it just what was sent; and a       *)
(* request without a task was answered, or displaced.                      *)
Has(msgs, m) == \E j \in DOMAIN msgs : msgs[j] = m

Heard == \A id \in 1 .. Len(sent) : BeginningOf(WholeAnswer(sent[id]), sent[id].msgs)

Behind ==
  \A k \in 1 .. Len(tasks) :
    /\ Fits(tasks[k], sent[tasks[k].id])
    /\ \A m \in WholeAnswer(sent[tasks[k].id]) :
         Done(tasks[k], m) <=> Has(sent[tasks[k].id].msgs, m)

Ended ==
  \A id \in 1 .. Len(sent) :
    \/ \A m \in WholeAnswer(sent[id]) : Has(sent[id].msgs, m)
    \/ id > Len(sent) - Len(tasks)
    \/ id + TaskCapacity <= Len(sent)

Answering == Queue /\ Heard /\ Behind /\ Ended

LEMMA Shorter ==
  ASSUME Queue
  PROVE  /\ Len(sent) \in Nat /\ Len(tasks) \in Nat /\ TaskCapacity \in Nat
         /\ DOMAIN sent = 1 .. Len(sent) /\ DOMAIN tasks = 1 .. Len(tasks)
         /\ \A k \in 1 .. Len(tasks) : tasks[k].id \in 1 .. Len(sent)
<1>1. Len(sent) \in Nat /\ Len(tasks) \in Nat /\ TaskCapacity \in Nat
      /\ DOMAIN sent = 1 .. Len(sent) /\ DOMAIN tasks = 1 .. Len(tasks)
  BY Constants, LenProperties DEF Queue
<1>2. Len(tasks) <= Len(sent)
  BY DEF Queue
<1>3. ASSUME NEW k \in 1 .. Len(tasks) PROVE tasks[k].id \in 1 .. Len(sent)
  <2>1. tasks[k].id = (Len(sent) - Len(tasks)) + k
    BY DEF Queue
  <2>2. (Len(sent) - Len(tasks)) + k \in 1 .. Len(sent)
    BY <1>1, <1>2, SMT
  <2>. QED BY <2>1, <2>2
<1>. QED BY <1>1, <1>3

(* A task that has just begun has behind it what its handler sent.         *)
LEMMA JustBegun ==
  ASSUME NEW kind \in Kind, NEW svc \in Nat, NEW msgs \in Seq(Message),
         Beginning(kind, svc, msgs),
         NEW t \in Task, t.kind = kind, t.seq = 0, t.svc = svc, t.sub = NoResponder,
         NEW r, r = [kind |-> kind, svc |-> svc, msgs |-> msgs]
  PROVE  /\ BeginningOf(WholeAnswer(r), msgs) /\ Fits(t, r)
         /\ \A m \in WholeAnswer(r) : Done(t, m) <=> Has(msgs, m)
<1>1. r.kind = kind /\ r.svc = svc
  OBVIOUS
<1>2. Fits(t, r)
  <2>1. 0 < NumServices
    BY Constants, SMT
  <2>. QED BY <1>1, <2>1 DEF Fits, Beginning
<1>3. CASE kind = "param"
  <2>1. msgs = <<>> /\ DOMAIN msgs = {}
    BY <1>3, SMT DEF Beginning
  <2>2. WholeAnswer(r) = {PARAN(p) : p \in 0 .. NumParams}
    BY <1>1, <1>3 DEF WholeAnswer
  <2>3. \A m \in WholeAnswer(r) : ~(m[2] < 0)
    BY <2>2, Constants, SMT DEF PARAN
  <2>4. \A m \in WholeAnswer(r) : ~Done(t, m)
    BY <1>3, <2>3 DEF Done
  <2>. QED BY <1>2, <2>1, <2>4 DEF BeginningOf, Has
<1>4. CASE kind = "all"
  <2>1. msgs = <<>> /\ DOMAIN msgs = {} /\ svc = 0
    BY <1>4, SMT DEF Beginning
  <2>2. WholeAnswer(r) = UNION {Diagnosed(i) : i \in Real}
    BY <1>1, <1>4 DEF WholeAnswer
  <2>3. \A i \in Real : i \in Nat /\ ~(i <= 0)
    BY Constants, SMT
  <2>4. \A m \in WholeAnswer(r) : ~(m[2] <= 0)
    BY <2>2, <2>3 DEF Diagnosed, DGN
  <2>5. \A m \in WholeAnswer(r) : ~Done(t, m)
    BY <1>4, <2>1, <2>4 DEF Done
  <2>. QED BY <1>2, <2>1, <2>5 DEF BeginningOf, Has
<1>5. ASSUME NEW first, msgs = <<first>>, first \in WholeAnswer(r),
             \A m \in WholeAnswer(r) : ~Before(m, first) /\ (Done(t, m) <=> m = first)
      PROVE  BeginningOf(WholeAnswer(r), msgs) /\ \A m \in WholeAnswer(r) : Done(t, m) <=> Has(msgs, m)
  <2>1. DOMAIN msgs = {1} /\ msgs[1] = first
    BY <1>5, SMT
  <2>2. ~(1 < 1)
    BY SMT
  <2>3. \A m : Has(msgs, m) <=> m = first
    BY <2>1 DEF Has
  <2>4. BeginningOf(WholeAnswer(r), msgs)
    BY <1>5, <2>1, <2>2 DEF BeginningOf
  <2>. QED BY <1>5, <2>3, <2>4
<1>6. CASE kind = "sd"
  <2>. DEFINE first == <<"SD", 0, Cardinality(Real)>>
  <2>1. WholeAnswer(r) = {first} \cup {SD(i) : i \in Real}
    BY <1>1, <1>6 DEF WholeAnswer
  <2>2. \A i \in Real : i \in Nat /\ ~(i <= 0) /\ i # 0
    BY Constants, SMT
  <2>3. \A m \in WholeAnswer(r) : m[1] = "SD" /\ (m = first <=> m[2] <= 0) /\ ~(m[2] < 0)
    BY <2>1, <2>2, SMT DEF SD
  <2>4. msgs = <<first>> /\ first[2] = 0
    BY <1>6 DEF Beginning
  <2>. HIDE DEF first
  <2>5. \A m \in WholeAnswer(r) : Done(t, m) <=> m[2] <= 0
    BY <1>6 DEF Done
  <2>6. \A m \in WholeAnswer(r) : ~Before(m, first)
    BY <2>3, <2>4 DEF Before
  <2>. QED BY <1>2, <1>5, <2>1, <2>3, <2>4, <2>5, <2>6
<1>7. CASE kind = "nv"
  <2>. DEFINE first == <<"NVANS", 0, NumNVs>>
  <2>1. WholeAnswer(r) = {first} \cup {NVANS(n) : n \in 1 .. NumNVs}
    BY <1>1, <1>7 DEF WholeAnswer
  <2>2. \A i \in 1 .. NumNVs : i \in Nat /\ ~(i <= 0) /\ i # 0
    BY Constants, SMT
  <2>3. \A m \in WholeAnswer(r) : m[1] = "NVANS" /\ (m = first <=> m[2] <= 0) /\ ~(m[2] < 0)
    BY <2>1, <2>2, SMT DEF NVANS
  <2>4. msgs = <<first>> /\ first[2] = 0
    BY <1>7 DEF Beginning
  <2>. HIDE DEF first
  <2>5. \A m \in WholeAnswer(r) : Done(t, m) <=> m[2] <= 0
    BY <1>7 DEF Done
  <2>6. \A m \in WholeAnswer(r) : ~Before(m, first)
    BY <2>3, <2>4 DEF Before
  <2>. QED BY <1>2, <1>5, <2>1, <2>3, <2>4, <2>5, <2>6
<1>8. CASE kind = "dgn"
  <2>. DEFINE first == DGN(svc, 0)
              n == Diags[svc]
  <2>1. WholeAnswer(r) = {DGN(svc, code) : code \in 0 .. n}
    BY <1>1, <1>8 DEF WholeAnswer, Diagnosed
  <2>2. svc \in Real /\ n \in Nat
    BY <1>8, Constants, SMT DEF Beginning
  <2>. HIDE DEF n
  <2>3. 0 \in 0 .. n /\ \A c \in 0 .. n : (c <= 0 <=> c = 0) /\ ~(c < 0)
    BY <2>2, SMT
  <2>4. ~(svc < svc)
    BY SMT
  <2>5. \A m \in WholeAnswer(r) : (m = first <=> m[3] <= 0) /\ ~Before(m, first)
    BY <2>1, <2>3, <2>4 DEF Before, DGN
  <2>6. msgs = <<first>> /\ first \in WholeAnswer(r)
    BY <1>8, <2>1, <2>3 DEF Beginning
  <2>. HIDE DEF first
  <2>7. \A m \in WholeAnswer(r) : Done(t, m) <=> m[3] <= 0
    BY <1>8 DEF Done
  <2>. QED BY <1>2, <1>5, <2>5, <2>6, <2>7
<1>. QED BY <1>3, <1>4, <1>6, <1>7, <1>8 DEF Kind

LEMMA StartAnswers ==
  ASSUME Answering, NEW kind \in Kind, NEW svc \in Nat, NEW msgs \in Seq(Message),
         Beginning(kind, svc, msgs), Start(msgs, kind, svc)
  PROVE  Answering'
<1>. DEFINE r == [kind |-> kind, svc |-> svc, msgs |-> msgs]
            t == NewTask(kind, svc)
            n == Len(sent)
            w == Len(tasks)
            v == Len(tasks')
            d == IF w = TaskCapacity THEN 1 ELSE 0
<1>1. /\ n \in Nat /\ w \in Nat /\ w <= n /\ w <= TaskCapacity
      /\ TaskCapacity \in Nat /\ TaskCapacity > 0
  BY Constants, Shorter, SMT DEF Answering, Queue
<1>2. r \in Asked
  BY DEF Asked
<1>3. /\ t \in Task /\ t.id = n + 1 /\ t.kind = kind /\ t.seq = 0 /\ t.svc = svc
      /\ t.sub = NoResponder
  BY <1>1 DEF NewTask, Task, NoResponder
<1>4. /\ sent' = Append(sent, r) /\ Add(t)
  BY DEF Start
<1>5. /\ sent' \in Seq(Asked) /\ Len(sent') = n + 1 /\ sent'[n + 1] = r
      /\ \A id \in 1 .. n : sent'[id] = sent[id]
  BY <1>2, <1>4, AppendProperties DEF Answering, Queue
<1>6. /\ tasks' \in Seq(Task) /\ v \in Nat /\ v > 0 /\ tasks'[v] = t
      /\ v = IF w = TaskCapacity THEN TaskCapacity ELSE w + 1
      /\ \A k \in 1 .. v - 1 : tasks'[k] = tasks[k + d]
  BY <1>3, <1>4, Added DEF Answering
<1>7. BeginningOf(WholeAnswer(r), msgs) /\ Fits(t, r)
      /\ \A m \in WholeAnswer(r) : Done(t, m) <=> Has(msgs, m)
  BY <1>3, JustBegun
<1>8. r.kind = kind /\ r.msgs = msgs
  OBVIOUS
<1>9. v = (w + 1) - d /\ (d = 0 \/ (d = 1 /\ w = TaskCapacity)) /\ v <= TaskCapacity
  BY <1>1, <1>6, SMT
<1>. HIDE DEF r, t, n, w, v, d
<1>10. ASSUME NEW k \in 1 .. v - 1
       PROVE  /\ k + d \in 1 .. w /\ tasks'[k] = tasks[k + d]
              /\ tasks[k + d].id \in 1 .. n /\ tasks[k + d].id = (n - w) + (k + d)
              /\ sent'[tasks[k + d].id] = sent[tasks[k + d].id]
  <2>1. k + d \in 1 .. w
    BY <1>1, <1>6, <1>9, SMT
  <2>2. tasks[k + d].id \in 1 .. n /\ tasks[k + d].id = (n - w) + (k + d)
    BY <2>1, Shorter DEF Answering, Queue, n, w
  <2>. QED BY <1>5, <1>6, <2>1, <2>2
<1>11. \A k \in 1 .. v : k = v \/ k \in 1 .. v - 1
  BY <1>6, SMT
<1>12. \A id \in 1 .. Len(sent') : id = n + 1 \/ id \in 1 .. n
  BY <1>1, <1>5, SMT
<1>13. Queue'
  <2>1. v <= TaskCapacity /\ v <= n + 1
    BY <1>1, <1>9, SMT
  <2>2. ASSUME NEW k \in 1 .. v PROVE tasks'[k].id = (Len(sent') - v) + k
    <3>1. CASE k = v
      BY <1>1, <1>3, <1>5, <1>6, <3>1, SMT
    <3>2. CASE k \in 1 .. v - 1
      <4>1. tasks'[k].id = (n - w) + (k + d)
        BY <1>10, <3>2
      <4>. QED BY <1>1, <1>5, <1>9, <3>2, <4>1, SMT
    <3>. QED BY <1>11, <3>1, <3>2
  <2>3. ASSUME NEW k \in 2 .. v
        PROVE  Len(sent'[tasks'[k].id].msgs) <= Announced(sent'[tasks'[k].id].kind)
    <3>1. CASE k = v
      <4>1. sent'[tasks'[k].id] = r
        BY <1>3, <1>5, <1>6, <3>1
      <4>2. Len(msgs) <= Announced(kind)
        BY SMT DEF Beginning, Announced
      <4>. QED BY <1>8, <4>1, <4>2
    <3>2. CASE k # v
      <4>1. k \in 1 .. v - 1 /\ k + d \in 2 .. w
        <5>1. k \in 1 .. v - 1
          BY <1>6, <3>2, SMT
        <5>. QED BY <1>1, <1>9, <5>1, SMT
      <4>. QED BY <1>10, <4>1 DEF Answering, Queue, w
    <3>. QED BY <3>1, <3>2
  <2>. QED BY <1>5, <1>6, <2>1, <2>2, <2>3 DEF Queue, v
<1>14. Heard'
  <2>1. ASSUME NEW id \in 1 .. Len(sent')
        PROVE  BeginningOf(WholeAnswer(sent'[id]), sent'[id].msgs)
    <3>1. CASE id = n + 1
      BY <1>5, <1>7, <1>8, <3>1
    <3>2. CASE id \in 1 .. n
      BY <1>5, <3>2 DEF Answering, Heard, n
    <3>. QED BY <1>12, <3>1, <3>2
  <2>. QED BY <2>1 DEF Heard
<1>15. Behind'
  <2>1. ASSUME NEW k \in 1 .. v
        PROVE  /\ Fits(tasks'[k], sent'[tasks'[k].id])
               /\ \A m \in WholeAnswer(sent'[tasks'[k].id]) :
                    Done(tasks'[k], m) <=> Has(sent'[tasks'[k].id].msgs, m)
    <3>1. CASE k = v
      <4>1. sent'[tasks'[k].id] = r /\ tasks'[k] = t
        BY <1>3, <1>5, <1>6, <3>1
      <4>. QED BY <1>7, <1>8, <4>1
    <3>2. CASE k \in 1 .. v - 1
      BY <1>10, <3>2 DEF Answering, Behind, w
    <3>. QED BY <1>11, <3>1, <3>2
  <2>. QED BY <2>1 DEF Behind, v
<1>16. Ended'
  <2>1. ASSUME NEW id \in 1 .. Len(sent')
        PROVE  \/ \A m \in WholeAnswer(sent'[id]) : Has(sent'[id].msgs, m)
               \/ id > Len(sent') - v
               \/ id + TaskCapacity <= Len(sent')
    <3>1. CASE id = n + 1
      BY <1>1, <1>5, <1>6, <3>1, SMT
    <3>2. CASE id \in 1 .. n
      <4>1. \/ \A m \in WholeAnswer(sent[id]) : Has(sent[id].msgs, m)
            \/ id > n - w \/ id + TaskCapacity <= n
        BY <3>2 DEF Answering, Ended, n, w
      <4>2. id > n - w => id > (n + 1) - v \/ id + TaskCapacity <= n + 1
        BY <1>1, <1>9, <3>2, SMT
      <4>3. id + TaskCapacity <= n => id + TaskCapacity <= n + 1
        BY <1>1, <3>2, SMT
      <4>. QED BY <1>5, <3>2, <4>1, <4>2, <4>3
    <3>. QED BY <1>12, <3>1, <3>2
  <2>. QED BY <2>1 DEF Ended, v
<1>. QED BY <1>13, <1>14, <1>15, <1>16 DEF Answering

(* A message that comes after all that was sent prolongs the answer.       *)
LEMMA Prolonged ==
  ASSUME NEW S, NEW msgs \in Seq(S), NEW m \in S, NEW whole, m \in whole,
         BeginningOf(whole, msgs), \A x \in whole : Has(msgs, x) <=> Before(x, m)
  PROVE  /\ BeginningOf(whole, msgs \o <<m>>) /\ msgs \o <<m>> \in Seq(S)
         /\ \A x \in whole : Has(msgs \o <<m>>, x) <=> Has(msgs, x) \/ x = m
<1>. DEFINE q == msgs \o <<m>>
            n == Len(msgs)
<1>1. n \in Nat /\ DOMAIN msgs = 1 .. n
  BY LenProperties
<1>2. <<m>> \in Seq(S) /\ Len(<<m>>) = 1 /\ <<m>>[1] = m
  OBVIOUS
<1>3. /\ q \in Seq(S) /\ Len(q) = n + 1
      /\ \A j \in 1 .. Len(q) : q[j] = IF j <= n THEN msgs[j] ELSE <<m>>[j - n]
  BY <1>2, ConcatProperties
<1>. HIDE DEF q, n
<1>4. DOMAIN q = 1 .. n + 1
  BY <1>3, LenProperties
<1>5. q[n + 1] = m /\ n + 1 \in DOMAIN q
  <2>1. n + 1 \in 1 .. Len(q) /\ ~(n + 1 <= n) /\ (n + 1) - n = 1
    BY <1>1, <1>3, SMT
  <2>. QED BY <1>2, <1>3, <1>4, <2>1
<1>6. \A j \in DOMAIN msgs : j \in DOMAIN q /\ q[j] = msgs[j] /\ j < n + 1
  <2>1. \A j \in 1 .. n : j \in 1 .. n + 1 /\ j <= n /\ j < n + 1
    BY <1>1, SMT
  <2>. QED BY <1>1, <1>3, <1>4, <2>1
<1>7. \A j \in DOMAIN q : j = n + 1 \/ j \in DOMAIN msgs
  BY <1>1, <1>4, SMT
<1>8. \A x : Has(q, x) <=> Has(msgs, x) \/ x = m
  BY <1>5, <1>6, <1>7 DEF Has
<1>9. ~(n + 1 < n + 1) /\ \A j \in DOMAIN msgs : ~(n + 1 < j)
  BY <1>1, SMT
<1>10. \A k \in DOMAIN q : q[k] \in whole
  BY <1>5, <1>6, <1>7 DEF BeginningOf
<1>11. ASSUME NEW j \in DOMAIN q, NEW k \in DOMAIN q, j < k PROVE Before(q[j], q[k])
  <2>1. j \in DOMAIN msgs
    BY <1>7, <1>9, <1>11
  <2>2. CASE k \in DOMAIN msgs
    BY <1>6, <1>11, <2>1, <2>2 DEF BeginningOf
  <2>3. CASE k = n + 1
    <3>1. msgs[j] \in whole /\ Has(msgs, msgs[j])
      BY <2>1 DEF BeginningOf, Has
    <3>. QED BY <1>5, <1>6, <2>1, <2>3, <3>1
  <2>. QED BY <1>7, <2>2, <2>3
<1>12. ASSUME NEW k \in DOMAIN q, NEW x \in whole, Before(x, q[k])
       PROVE  \E j \in DOMAIN q : q[j] = x
  <2>1. Has(msgs, x)
    <3>1. CASE k = n + 1
      BY <1>5, <1>12, <3>1
    <3>2. CASE k \in DOMAIN msgs
      BY <1>6, <1>12, <3>2 DEF BeginningOf, Has
    <3>. QED BY <1>7, <3>1, <3>2
  <2>. QED BY <1>6, <2>1 DEF Has
<1>13. BeginningOf(whole, q)
  BY <1>10, <1>11, <1>12 DEF BeginningOf
<1>. QED BY <1>3, <1>8, <1>13 DEF q

LEMMA WholeIsMessages ==
  ASSUME NEW t, NEW r \in Asked, Fits(t, r)
  PROVE  WholeAnswer(r) \subseteq Message
<1>1. r.kind \in {"param", "sd", "nv", "dgn", "all"}
  BY DEF Asked, Kind
<1>2. CASE r.kind = "param"
  <2>1. WholeAnswer(r) = {PARAN(p) : p \in 0 .. NumParams} /\ 0 .. NumParams \subseteq Nat
    BY <1>2, Constants, SMT DEF WholeAnswer
  <2>. QED BY <2>1 DEF Message
<1>3. CASE r.kind = "sd"
  <2>1. WholeAnswer(r) = {<<"SD", 0, Cardinality(Real)>>} \cup {SD(i) : i \in Real}
    BY <1>3 DEF WholeAnswer
  <2>2. Real \subseteq Nat
    BY Constants, SMT
  <2>. QED BY <2>1, <2>2 DEF Message
<1>4. CASE r.kind = "nv"
  <2>1. WholeAnswer(r) = {<<"NVANS", 0, NumNVs>>} \cup {NVANS(n) : n \in 1 .. NumNVs}
    BY <1>4 DEF WholeAnswer
  <2>2. 1 .. NumNVs \subseteq Nat
    BY Constants, SMT
  <2>. QED BY <2>1, <2>2 DEF Message
<1>5. ASSUME NEW i \in Real PROVE Diagnosed(i) \subseteq Message
  <2>1. i \in Nat /\ 0 .. Diags[i] \subseteq Nat
    BY Constants, SMT
  <2>. QED BY <2>1 DEF Diagnosed, Message
<1>6. CASE r.kind = "dgn"
  <2>1. r.svc \in Real
    BY <1>6 DEF Fits
  <2>2. WholeAnswer(r) = Diagnosed(r.svc)
    BY <1>6 DEF WholeAnswer
  <2>. QED BY <1>5, <2>1, <2>2
<1>7. CASE r.kind = "all"
  <2>1. WholeAnswer(r) = UNION {Diagnosed(i) : i \in Real}
    BY <1>7 DEF WholeAnswer
  <2>. QED BY <1>5, <2>1
<1>. QED BY <1>1, <1>2, <1>3, <1>4, <1>6, <1>7

(* What the running task's request has been sent after the step.           *)
LEMMA Sends ==
  ASSUME NEW t \in Task, NEW r \in Asked, Fits(t, r), NEW run, run = RunStep(t),
         BeginningOf(WholeAnswer(r), r.msgs),
         \A m \in WholeAnswer(r) : Done(t, m) <=> Has(r.msgs, m)
  PROVE  /\ BeginningOf(WholeAnswer(r), r.msgs \o run.msgs)
         /\ r.msgs \o run.msgs \in Seq(Message)
         /\ \E new : /\ After(run, t, r, new)
                     /\ \A x \in WholeAnswer(r) :
                          Has(r.msgs \o run.msgs, x) <=> Done(t, x) \/ x \in new
<1>1. r.msgs \in Seq(Message) /\ WholeAnswer(r) \subseteq Message
  BY WholeIsMessages DEF Asked
<1>2. CASE run.msgs = <<>> /\ After(run, t, r, {})
  <2>1. r.msgs \o run.msgs = r.msgs
    BY <1>1, <1>2, ConcatEmptySeq
  <2>. QED BY <1>1, <1>2, <2>1
<1>3. ASSUME NEW m \in WholeAnswer(r), run.msgs = <<m>>, After(run, t, r, {m}),
             \A x \in WholeAnswer(r) : Done(t, x) <=> Before(x, m)
      PROVE  /\ BeginningOf(WholeAnswer(r), r.msgs \o run.msgs)
             /\ r.msgs \o run.msgs \in Seq(Message)
             /\ \A x \in WholeAnswer(r) :
                  Has(r.msgs \o run.msgs, x) <=> Done(t, x) \/ x \in {m}
  <2>. DEFINE whole == WholeAnswer(r)
              msgs == r.msgs
  <2>1. m \in Message /\ msgs \in Seq(Message) /\ m \in whole
        /\ BeginningOf(whole, msgs) /\ \A x \in whole : Has(msgs, x) <=> Before(x, m)
    BY <1>1, <1>3
  <2>2. \A x \in whole : Done(t, x) <=> Has(msgs, x)
    OBVIOUS
  <2>. HIDE DEF whole, msgs
  <2>3. BeginningOf(whole, msgs \o <<m>>) /\ msgs \o <<m>> \in Seq(Message)
        /\ \A x \in whole : Has(msgs \o <<m>>, x) <=> Has(msgs, x) \/ x = m
    BY <2>1, Prolonged
  <2>4. \A x \in whole : Has(msgs \o <<m>>, x) <=> Done(t, x) \/ x \in {m}
    BY <2>2, <2>3
  <2>. QED BY <1>3, <2>3, <2>4 DEF whole, msgs
<1>4. Stepped(run, t, r)
  BY EveryStep
<1>. QED BY <1>2, <1>3, <1>4 DEF Stepped

(* The queue after a step of a task that goes on.                          *)
LEMMA GoesOn ==
  ASSUME NEW T, NEW s \in Seq(T), s # <<>>, NEW next \in T
  PROVE  /\ <<next>> \o Tail(s) \in Seq(T) /\ Len(<<next>> \o Tail(s)) = Len(s)
         /\ \A k \in 1 .. Len(s) : \/ k = 1 /\ (<<next>> \o Tail(s))[k] = next
                                   \/ k \in 2 .. Len(s) /\ (<<next>> \o Tail(s))[k] = s[k]
<1>. DEFINE w == Len(s)
            left == Tail(s)
            q == <<next>> \o left
<1>1. w \in Nat /\ w > 0
  BY LenProperties, EmptySeq, SMT
<1>2. left \in Seq(T) /\ Len(left) = w - 1 /\ \A i \in 1 .. Len(left) : left[i] = s[i + 1]
  BY HeadTailProperties
<1>. HIDE DEF w, left
<1>3. <<next>> \in Seq(T) /\ Len(<<next>>) = 1 /\ <<next>>[1] = next
  OBVIOUS
<1>4. /\ q \in Seq(T) /\ Len(q) = 1 + Len(left)
      /\ \A k \in 1 .. 1 + Len(left) : q[k] = IF k <= 1 THEN <<next>>[k] ELSE left[k - 1]
  BY <1>2, <1>3, ConcatProperties
<1>. HIDE DEF q
<1>5. Len(q) = w
  BY <1>1, <1>2, <1>4, SMT
<1>6. ASSUME NEW k \in 1 .. w
      PROVE  (k = 1 /\ q[k] = next) \/ (k \in 2 .. w /\ q[k] = s[k])
  <2>1. CASE k = 1
    <3>1. 1 \in 1 .. 1 + Len(left) /\ 1 <= 1
      BY <1>1, <1>2, SMT
    <3>. QED BY <1>3, <1>4, <2>1, <3>1
  <2>2. CASE k # 1
    <3>1. /\ k \in 1 .. 1 + Len(left) /\ ~(k <= 1) /\ k - 1 \in 1 .. Len(left)
          /\ (k - 1) + 1 = k /\ k \in 2 .. w
      BY <1>1, <1>2, <2>2, SMT
    <3>. QED BY <1>2, <1>4, <3>1
  <2>. QED BY <2>1, <2>2
<1>. QED BY <1>4, <1>5, <1>6 DEF w, left, q

LEMMA StepAnswers ==
  ASSUME Answering, NEW d, Step(d)
  PROVE  Answering'
<1>. DEFINE n == Len(sent)
            w == Len(tasks)
            v == Len(tasks')
<1>1. /\ n \in Nat /\ w \in Nat /\ w <= n /\ w <= TaskCapacity /\ TaskCapacity \in Nat
      /\ tasks \in Seq(Task) /\ tasks # <<>> /\ w > 0
      /\ sent \in Seq(Asked) /\ DOMAIN sent = 1 .. n
  <2>1. w # 0
    BY EmptySeq DEF Step, Answering, Queue
  <2>. QED BY <2>1, Shorter, SMT DEF Answering, Queue, Step
<1>2. PICK t \in Task, h \in 1 .. n, r \in Asked, run \in {RunStep(Head(tasks))} :
        /\ t = tasks[1] /\ t = Head(tasks) /\ t.id = h /\ h = (n - w) + 1
        /\ r = sent[h] /\ run = RunStep(t)
        /\ Fits(t, r) /\ BeginningOf(WholeAnswer(r), r.msgs)
        /\ \A m \in WholeAnswer(r) : Done(t, m) <=> Has(r.msgs, m)
  <2>1. 1 \in 1 .. w
    BY <1>1, SMT
  <2>2. tasks[1] \in Task /\ Head(tasks) = tasks[1]
    BY <1>1, <2>1, ElementOfSeq
  <2>3. tasks[1].id \in 1 .. n /\ tasks[1].id = (n - w) + 1
    BY <2>1, Shorter DEF Answering, Queue
  <2>4. sent[tasks[1].id] \in Asked
    BY <1>1, <2>3, ElementOfSeq
  <2>. QED BY <2>1, <2>2, <2>3, <2>4 DEF Answering, Heard, Behind
<1>3. PICK q, new :
        /\ q = r.msgs \o run.msgs /\ q \in Seq(Message)
        /\ BeginningOf(WholeAnswer(r), q) /\ After(run, t, r, new)
        /\ \A x \in WholeAnswer(r) : Has(q, x) <=> Done(t, x) \/ x \in new
  <2>1. /\ BeginningOf(WholeAnswer(r), r.msgs \o run.msgs)
        /\ r.msgs \o run.msgs \in Seq(Message)
        /\ \E new : /\ After(run, t, r, new)
                    /\ \A x \in WholeAnswer(r) :
                         Has(r.msgs \o run.msgs, x) <=> Done(t, x) \/ x \in new
    BY <1>2, Sends
  <2>. QED BY <2>1
<1>4. PICK s \in Asked : /\ s = [r EXCEPT !.msgs = q]
                         /\ s.msgs = q /\ s.kind = r.kind /\ s.svc = r.svc
  <2>. DEFINE longer == [r EXCEPT !.msgs = q]
  <2>1. longer \in Asked /\ longer.msgs = q /\ longer.kind = r.kind /\ longer.svc = r.svc
    BY <1>3 DEF Asked
  <2>. QED BY <2>1
<1>5. WholeAnswer(s) = WholeAnswer(r)
  BY <1>4 DEF WholeAnswer
<1>6. sent' = [sent EXCEPT ![h] = s]
  <2>1. sent' = [sent EXCEPT ![Head(tasks).id].msgs = @ \o run.msgs]
    BY <1>2 DEF Step
  <2>. QED BY <1>1, <1>2, <1>3, <1>4, <2>1
<1>7. /\ sent' \in Seq(Asked) /\ Len(sent') = n /\ sent'[h] = s
      /\ \A id \in 1 .. n : id # h => sent'[id] = sent[id]
  BY <1>1, <1>2, <1>6, ExceptSeq
<1>8. PICK next \in Task, e \in Nat :
        /\ \/ e = 1 /\ tasks' = Tail(tasks) /\ run.result = "FINISHED"
           \/ e = 0 /\ tasks' = <<next>> \o Tail(tasks) /\ run.result # "FINISHED"
        /\ e = 0 => /\ next.id = h /\ Fits(next, r)
                    /\ \A m \in WholeAnswer(r) : Done(next, m) <=> Done(t, m) \/ m \in new
        /\ e = 1 => \A m \in WholeAnswer(r) : Done(t, m) \/ m \in new
  <2>1. tasks' = IF run.result = "FINISHED" THEN Tail(tasks)
                 ELSE <<[run.task EXCEPT !.seq = @ + 1]>> \o Tail(tasks)
    BY <1>2 DEF Step
  <2>2. 1 # 0 /\ 0 \in Nat /\ 1 \in Nat
    BY SMT
  <2>3. CASE run.result = "FINISHED"
    BY <1>2, <1>3, <2>1, <2>2, <2>3 DEF After
  <2>4. CASE run.result # "FINISHED"
    <3>. DEFINE following == [run.task EXCEPT !.seq = @ + 1]
    <3>1. /\ following \in Task /\ following.id = h /\ Fits(following, r)
          /\ \A m \in WholeAnswer(r) : Done(following, m) <=> Done(t, m) \/ m \in new
      BY <1>2, <1>3, <2>4 DEF After
    <3>2. tasks' = <<following>> \o Tail(tasks)
      BY <2>1, <2>4
    <3>. HIDE DEF following
    <3>. QED BY <2>2, <2>4, <3>1, <3>2
  <2>. QED BY <2>3, <2>4
<1>9. /\ tasks' \in Seq(Task) /\ v = w - e
      /\ \A k \in 1 .. v : \/ e = 0 /\ k = 1 /\ tasks'[k] = next
                           \/ k + e \in 2 .. w /\ tasks'[k] = tasks[k + e]
  <2>1. CASE e = 1
    <3>1. /\ tasks' \in Seq(Task) /\ v = w - 1
          /\ \A k \in 1 .. v : tasks'[k] = tasks[k + 1]
      <4>. DEFINE left == Tail(tasks)
      <4>1. tasks' = left
        BY <1>8, <2>1, SMT
      <4>2. /\ left \in Seq(Task) /\ Len(left) = w - 1
            /\ \A k \in 1 .. Len(left) : left[k] = tasks[k + 1]
        BY <1>1, HeadTailProperties
      <4>. HIDE DEF left
      <4>. QED BY <4>1, <4>2
    <3>2. \A k \in 1 .. w - 1 : k + 1 \in 2 .. w
      BY <1>1, SMT
    <3>. HIDE DEF v, w
    <3>. QED BY <2>1, <3>1, <3>2
  <2>2. CASE e = 0
    <3>. DEFINE later == <<next>> \o Tail(tasks)
    <3>1. /\ later \in Seq(Task) /\ Len(later) = w
          /\ \A k \in 1 .. w : \/ k = 1 /\ later[k] = next
                               \/ k \in 2 .. w /\ later[k] = tasks[k]
      BY <1>1, GoesOn
    <3>2. tasks' = later
      BY <1>8, <2>2
    <3>3. w - 0 = w /\ \A k \in 1 .. w : k + 0 = k
      BY <1>1, SMT
    <3>. HIDE DEF later, w
    <3>. QED BY <2>2, <3>1, <3>2, <3>3
  <2>. QED BY <1>8, <2>1, <2>2
<1>10. v \in Nat /\ (e = 0 \/ e = 1) /\ v <= w
  BY <1>1, <1>8, <1>9, LenProperties, SMT
<1>. HIDE DEF n, w, v
<1>11. ASSUME NEW k \in 1 .. v, k + e \in 2 .. w, tasks'[k] = tasks[k + e]
       PROVE  /\ tasks[k + e].id = (n - w) + (k + e) /\ tasks[k + e].id \in 1 .. n
              /\ tasks[k + e].id # h /\ sent'[tasks[k + e].id] = sent[tasks[k + e].id]
              /\ k + e \in 1 .. w
  <2>1. k + e \in 1 .. w
    BY <1>1, <1>11, SMT
  <2>2. tasks[k + e].id = (n - w) + (k + e) /\ tasks[k + e].id \in 1 .. n
    BY <2>1, Shorter DEF Answering, Queue, n, w
  <2>3. (n - w) + (k + e) # h
    BY <1>1, <1>2, <1>10, <1>11, SMT
  <2>. QED BY <1>7, <2>1, <2>2, <2>3
<1>12. Queue'
  <2>1. v <= TaskCapacity /\ v <= n
    BY <1>1, <1>10, SMT
  <2>2. ASSUME NEW k \in 1 .. v PROVE tasks'[k].id = (n - v) + k
    <3>1. CASE e = 0 /\ k = 1 /\ tasks'[k] = next
      <4>1. h = (n - v) + 1
        BY <1>1, <1>2, <1>9, <3>1, SMT
      <4>. QED BY <1>8, <3>1, <4>1
    <3>2. CASE k + e \in 2 .. w /\ tasks'[k] = tasks[k + e]
      <4>1. v = w - e /\ v \in Nat /\ n \in Nat /\ w \in Nat /\ k \in Nat
        BY <1>1, <1>9, <1>10, SMT
      <4>2. (n - w) + (k + e) = (n - v) + k
        BY <4>1, SMT
      <4>. QED BY <1>11, <3>2, <4>2
    <3>. QED BY <1>9, <3>1, <3>2
  <2>3. ASSUME NEW k \in 2 .. v
        PROVE  Len(sent'[tasks'[k].id].msgs) <= Announced(sent'[tasks'[k].id].kind)
    <3>1. k \in 1 .. v /\ k # 1
      BY <1>10, SMT
    <3>2. k + e \in 2 .. w /\ tasks'[k] = tasks[k + e]
      BY <1>9, <3>1
    <3>. QED BY <1>11, <3>1, <3>2 DEF Answering, Queue, w
  <2>. QED BY <1>7, <1>9, <2>1, <2>2, <2>3 DEF Queue, v
<1>13. Heard'
  <2>1. ASSUME NEW id \in 1 .. n
        PROVE  BeginningOf(WholeAnswer(sent'[id]), sent'[id].msgs)
    <3>1. CASE id = h
      BY <1>3, <1>4, <1>5, <1>7, <3>1
    <3>2. CASE id # h
      BY <1>7, <3>2 DEF Answering, Heard, n
    <3>. QED BY <3>1, <3>2
  <2>. QED BY <1>7, <2>1 DEF Heard
<1>14. Behind'
  <2>1. ASSUME NEW k \in 1 .. v
        PROVE  /\ Fits(tasks'[k], sent'[tasks'[k].id])
               /\ \A m \in WholeAnswer(sent'[tasks'[k].id]) :
                    Done(tasks'[k], m) <=> Has(sent'[tasks'[k].id].msgs, m)
    <3>1. CASE e = 0 /\ k = 1 /\ tasks'[k] = next
      <4>1. sent'[tasks'[k].id] = s
        BY <1>7, <1>8, <3>1
      <4>2. Fits(next, s)
        BY <1>4, <1>8, <3>1 DEF Fits
      <4>3. \A m \in WholeAnswer(s) : Done(next, m) <=> Has(s.msgs, m)
        BY <1>3, <1>4, <1>5, <1>8, <3>1
      <4>. QED BY <3>1, <4>1, <4>2, <4>3
    <3>2. CASE k + e \in 2 .. w /\ tasks'[k] = tasks[k + e]
      BY <1>11, <3>2 DEF Answering, Behind, w
    <3>. QED BY <1>9, <3>1, <3>2
  <2>. QED BY <2>1 DEF Behind, v
<1>15. Ended'
  <2>1. ASSUME NEW id \in 1 .. n
        PROVE  \/ \A m \in WholeAnswer(sent'[id]) : Has(sent'[id].msgs, m)
               \/ id > n - v
               \/ id + TaskCapacity <= n
    <3>1. CASE id = h /\ e = 0
      BY <1>1, <1>2, <1>9, <3>1, SMT
    <3>2. CASE id = h /\ e = 1
      <4>1. \A m \in WholeAnswer(s) : Has(s.msgs, m)
        BY <1>3, <1>4, <1>5, <1>8, <3>2
      <4>. QED BY <1>7, <3>2, <4>1
    <3>3. CASE id # h
      <4>1. \/ \A m \in WholeAnswer(sent[id]) : Has(sent[id].msgs, m)
            \/ id > n - w \/ id + TaskCapacity <= n
        BY DEF Answering, Ended, n, w
      <4>2. id > n - w => id > n - v
        BY <1>1, <1>2, <1>9, <1>10, <3>3, SMT
      <4>. QED BY <1>7, <3>3, <4>1, <4>2
    <3>. QED BY <1>10, <3>1, <3>2, <3>3
  <2>. QED BY <1>7, <2>1 DEF Ended, v
<1>. QED BY <1>12, <1>13, <1>14, <1>15 DEF Answering

LEMMA InitAnswers == Init => Answering
<1>. SUFFICES ASSUME Init PROVE Answering
  OBVIOUS
<1>1. sent = <<>> /\ tasks = <<>> /\ Len(<<>>) = 0
  BY DEF Init
<1>2. 1 .. 0 = {} /\ 2 .. 0 = {} /\ 0 <= 0 /\ 0 <= TaskCapacity
  BY Constants, SMT
<1>3. <<>> \in Seq(Asked) /\ <<>> \in Seq(Task)
  OBVIOUS
<1>. QED BY <1>1, <1>2, <1>3 DEF Answering, Queue, Heard, Behind, Ended

LEMMA NextAnswers == Answering /\ [Next]_vars => Answering'
<1>. SUFFICES ASSUME Answering, [Next]_vars PROVE Answering'
  OBVIOUS
<1>1. CASE UNCHANGED <<tasks, sent>>
  BY <1>1 DEF Answering, Queue, Heard, Behind, Ended
<1>2. CASE Request
  BY <1>1, <1>2, Starts, StartAnswers
<1>3. CASE Pass
  BY <1>1, <1>3, StepAnswers DEF Pass, Wait
<1>4. CASE UNCHANGED vars
  BY <1>1, <1>4 DEF vars
<1>. QED BY <1>2, <1>3, <1>4 DEF Next

(* Where the request of a waiting task is, and where one without a task.   *)
LEMMA PendingAre ==
  ASSUME Queue, NEW id \in 1 .. Len(sent)
  PROVE  /\ id > Len(sent) - Len(tasks) => id \in Pending
         /\ id \in Pending => \E k \in 1 .. Len(tasks) :
              tasks[k].id = id /\ id = (Len(sent) - Len(tasks)) + k
<1>1. Len(sent) \in Nat /\ Len(tasks) \in Nat /\ DOMAIN tasks = 1 .. Len(tasks)
  BY Shorter
<1>2. ASSUME id > Len(sent) - Len(tasks) PROVE id \in Pending
  <2>. DEFINE k == id - (Len(sent) - Len(tasks))
  <2>1. k \in 1 .. Len(tasks) /\ (Len(sent) - Len(tasks)) + k = id
    BY <1>1, <1>2, SMT
  <2>. HIDE DEF k
  <2>2. tasks[k].id = id
    BY <2>1 DEF Queue
  <2>. QED BY <1>1, <2>1, <2>2 DEF Pending
<1>3. ASSUME id \in Pending
      PROVE  \E k \in 1 .. Len(tasks) :
               tasks[k].id = id /\ id = (Len(sent) - Len(tasks)) + k
  BY <1>1, <1>3 DEF Pending, Queue
<1>. QED BY <1>2, <1>3

(* Every answer is the beginning of the whole answer, in order and without *)
(* a gap, and it is whole unless its task still waits or was overwritten   *)
(* because TaskCapacity requests came after it, for any number of          *)
(* services, diagnostics, variables and parameters.                        *)
THEOREM AnswersStayWhole == Spec => []AnswersAreWhole
<1>1. ASSUME Answering PROVE AnswersAreWhole
  <2>1. Queue /\ DOMAIN sent = 1 .. Len(sent)
    BY <1>1, Shorter DEF Answering
  <2>2. ASSUME NEW id \in 1 .. Len(sent)
        PROVE  \/ \A m \in WholeAnswer(sent[id]) : Has(sent[id].msgs, m)
               \/ id \in Pending
               \/ id + TaskCapacity <= Len(sent)
    BY <1>1, <2>1, PendingAre DEF Answering, Ended
  <2>. QED BY <1>1, <2>1, <2>2 DEF AnswersAreWhole, Answer, Answering, Heard, Has
<1>. QED BY <1>1, InitAnswers, NextAnswers, PTL DEF Spec

(* While an earlier request waits, nothing but its handler's message has   *)
(* been sent for a later one.                                              *)
THEOREM AnswersComeInTurn == Spec => []AnswersInTurn
<1>1. ASSUME Answering PROVE AnswersInTurn
  <2>1. Queue /\ DOMAIN sent = 1 .. Len(sent) /\ Len(sent) \in Nat /\ Len(tasks) \in Nat
    BY <1>1, Shorter DEF Answering
  <2>2. ASSUME NEW id \in 1 .. Len(sent), NEW p \in Pending, p < id
        PROVE  Len(sent[id].msgs) <= Announced(sent[id].kind)
    <3>1. PICK j \in 1 .. Len(tasks) : p = tasks[j].id
      BY <2>1, Shorter DEF Pending
    <3>2. p = (Len(sent) - Len(tasks)) + j
      BY <2>1, <3>1 DEF Queue
    <3>3. id > Len(sent) - Len(tasks)
      BY <2>1, <2>2, <3>2, SMT
    <3>4. PICK k \in 1 .. Len(tasks) :
            tasks[k].id = id /\ id = (Len(sent) - Len(tasks)) + k
      BY <2>1, <3>3, PendingAre
    <3>5. k \in 2 .. Len(tasks)
      BY <2>1, <2>2, <3>2, <3>4, SMT
    <3>. QED BY <2>1, <3>4, <3>5 DEF Queue
  <2>. QED BY <2>1, <2>2 DEF AnswersInTurn, Answer
<1>. QED BY <1>1, InitAnswers, NextAnswers, PTL DEF Spec

Replied == reply \in {"none", "answer", "error"}

LEMMA ReplyStep == Replied /\ [Next]_vars => Replied'
BY RequestIs DEF Replied, Next, Pass, Wait, Step, vars

(* Every variable has its type, the queue holds no more tasks than it has  *)
(* room for, and each of them belongs to a request and to a service that   *)
(* there is.                                                               *)
THEOREM Typed == Spec => []TypeOK
<1>1. Init => Replied
  BY DEF Init, Replied
<1>2. ASSUME Timing, Answering, Replied PROVE TypeOK
  <2>1. /\ DOMAIN tasks = 1 .. Len(tasks) /\ DOMAIN sent = 1 .. Len(sent)
        /\ Len(tasks) <= TaskCapacity /\ \A k \in 1 .. Len(tasks) : tasks[k].id \in 1 .. Len(sent)
    BY <1>2, Shorter DEF Answering, Queue
  <2>2. ASSUME NEW k \in 1 .. Len(tasks)
        PROVE  tasks[k].kind \in Kind /\ (tasks[k].kind = "all" => tasks[k].svc < NumServices)
    <3>1. tasks[k] \in Task
      BY <1>2, ElementOfSeq DEF Answering, Queue
    <3>2. Fits(tasks[k], sent[tasks[k].id])
      BY <1>2 DEF Answering, Behind
    <3>. QED BY <3>1, <3>2 DEF Task, Fits
  <2>. QED BY <1>2, <2>1, <2>2 DEF TypeOK, Timing, Replied
<1>. QED BY <1>1, <1>2, InitTiming, StepTiming, InitAnswers, NextAnswers, ReplyStep, PTL DEF Spec
=============================================================================
