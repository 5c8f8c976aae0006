------------------------ MODULE CanEnumeration_proofs ------------------------
(***************************************************************************)
(* Theorems about CanEnumeration, for every set of nodes, every largest id *)
(* and whatever is asked of the nodes.                                     *)
(***************************************************************************)
EXTENDS CanEnumeration, SequenceTheorems, FiniteSetTheorems, FunctionTheorems,
        WellFoundedInduction, TLAPS

-----------------------------------------------------------------------------
(* The id that findFreeCanId() returns.                                    *)

(* A set of naturals that is not empty has a least element.                *)
LEMMA LeastExists ==
  ASSUME NEW S \in SUBSET Nat, S # {}
  PROVE  \E x \in S : \A y \in S : x <= y
<1>1. PICK x \in S : \A y \in S : ~ (<<y, x>> \in OpToRel(<, Nat))
  BY NatLessThanWellFounded, WFMin
<1>2. \A y \in S : ~ (y < x)
  BY <1>1 DEF OpToRel
<1> QED
  BY <1>2

(* findFreeCanId() returns an id that nobody answered with, if there is    *)
(* one, and an id in any case.                                             *)
LEMMA FindFreeCanIdIsFree ==
  ASSUME NEW n \in Node
  PROVE  /\ FindFreeCanId(n) \in 1 .. MaxId
         /\ FreeIds(n) # {} => FindFreeCanId(n) \in FreeIds(n)
<1>1. FreeIds(n) \in SUBSET Nat /\ FreeIds(n) \subseteq 1 .. MaxId
  BY EnumerationAssumption DEF FreeIds
<1>2. CASE FreeIds(n) = {}
  BY <1>2, EnumerationAssumption DEF FindFreeCanId
<1>3. CASE FreeIds(n) # {}
  <2>1. \E x \in FreeIds(n) : \A y \in FreeIds(n) : x <= y
    BY <1>1, <1>3, LeastExists
  <2>2. FindFreeCanId(n) = CHOOSE id \in FreeIds(n) : \A i \in FreeIds(n) : id <= i
    BY <1>3 DEF FindFreeCanId
  <2>3. FindFreeCanId(n) \in FreeIds(n)
    BY <2>1, <2>2
  <2> QED
    BY <2>3, <1>1
<1> QED
  BY <1>2, <1>3

-----------------------------------------------------------------------------
(* Types.                                                                  *)

LEMMA FrameType ==
  ASSUME NEW n \in Node, NEW kind \in {"RTR", "EMPTY", "DATA"}, canid \in [Node -> Id]
  PROVE  /\ Frame(kind, n) \in Frames
         /\ Frame(kind, n).kind = kind /\ Frame(kind, n).id = canid[n]
         /\ Frame(kind, n).src = n
BY DEF Frame, Frames

(* Sending appends the frames at everybody else's.                         *)
LEMMA SentType ==
  ASSUME NEW box \in [Node -> Seq(Frames)], NEW n \in Node, NEW f \in Frames
  PROVE  /\ Sent(box, n, <<f>>) \in [Node -> Seq(Frames)]
         /\ Sent(box, n, <<f>>)[n] = box[n]
         /\ \A m \in Node \ {n} : Sent(box, n, <<f>>)[m] = box[m] \o <<f>>
<1>1. <<f>> \in Seq(Frames)
  OBVIOUS
<1>2. \A m \in Node : box[m] \o <<f>> \in Seq(Frames)
  BY <1>1, ConcatProperties
<1> QED
  BY <1>2 DEF Sent

LEMMA RestType ==
  ASSUME inbox \in [Node -> Seq(Frames)], NEW n \in Node, inbox[n] # <<>>
  PROVE  Rest(n) \in [Node -> Seq(Frames)] /\ Head(inbox[n]) \in Frames
<1>1. Tail(inbox[n]) \in Seq(Frames) /\ Head(inbox[n]) \in Frames
  BY HeadTailProperties
<1> QED
  BY <1>1 DEF Rest

(* What startCANenumeration() leaves alone, and the types of what it       *)
(* changes.                                                                *)
LEMMA StartType ==
  ASSUME TypeOK, NEW n \in Node, NEW box \in [Node -> Seq(Frames)],
         NEW fromENUM \in BOOLEAN, Start(n, fromENUM, box)
  PROVE  /\ inbox' \in [Node -> Seq(Frames)]
         /\ bCANenum' \in [Node -> BOOLEAN]
         /\ responses' \in [Node -> SUBSET (1 .. MaxId)]
         /\ startedFromEnumMessage' \in [Node -> BOOLEAN]
         /\ owed' \in [Node -> Nat]
         /\ disturbed' \subseteq {m \in Node : bCANenum'[m]}
<1>1. CASE ~bCANenum[n] /\ Begin(n, fromENUM, box)
  <2>1. inbox' \in [Node -> Seq(Frames)]
    BY <1>1, FrameType, SentType DEF Begin, TypeOK
  <2>2. disturbed' \subseteq {m \in Node : bCANenum'[m]}
    BY <1>1, Zenon DEF Begin, TypeOK, OthersEnumerating
  <2>3. /\ bCANenum' \in [Node -> BOOLEAN]
        /\ startedFromEnumMessage' \in [Node -> BOOLEAN]
    BY <1>1, Zenon DEF Begin, TypeOK
  <2>4. /\ responses' \in [Node -> SUBSET (1 .. MaxId)]
        /\ owed' \in [Node -> Nat]
    BY <1>1 DEF Begin, TypeOK
  <2> QED
    BY <2>1, <2>2, <2>3, <2>4
<1>2. CASE bCANenum[n] /\ inbox' = box /\ UNCHANGED <<enumeration, owed, disturbed>>
  BY <1>2 DEF TypeOK, enumeration
<1> QED
  BY <1>1, <1>2 DEF Start

-----------------------------------------------------------------------------
(* Counting the acknowledgements in a queue of actions.                    *)

LEMMA NnacksFinite ==
  ASSUME NEW s \in Seq(Action)
  PROVE  /\ IsFiniteSet(Nnacks(s)) /\ Cardinality(Nnacks(s)) \in Nat
         /\ Nnacks(s) \subseteq 1 .. Len(s)
<1>1. DOMAIN s = 1 .. Len(s) /\ Len(s) \in Nat
  BY LenProperties
<1>2. Nnacks(s) \in SUBSET (1 .. Len(s))
  BY <1>1 DEF Nnacks
<1>3. IsFiniteSet(1 .. Len(s))
  BY <1>1, FS_Interval
<1>4. IsFiniteSet(Nnacks(s))
  BY <1>2, <1>3, FS_Subset
<1> QED
  BY <1>2, <1>4, FS_CardinalityType

LEMMA NnacksEmpty == Nnacks(<<>>) = {} /\ Cardinality(Nnacks(<<>>)) = 0
<1>1. Nnacks(<<>>) = {}
  BY DEF Nnacks
<1> QED
  BY <1>1, FS_EmptySet

(* What others ask for does not change the count.                          *)
LEMMA NnacksAsked ==
  ASSUME NEW s \in Seq(Action), NEW t \in Seq(Asks)
  PROVE  s \o t \in Seq(Action) /\ Nnacks(s \o t) = Nnacks(s)
<1>1. t \in Seq(Action)
  BY SeqMonotonic DEF Action
<1>2. /\ s \o t \in Seq(Action) /\ Len(s \o t) = Len(s) + Len(t)
      /\ \A i \in 1 .. Len(s) + Len(t) :
           (s \o t)[i] = IF i <= Len(s) THEN s[i] ELSE t[i - Len(s)]
  BY <1>1, ConcatProperties
<1>3. /\ Len(s) \in Nat /\ Len(t) \in Nat
      /\ DOMAIN s = 1 .. Len(s) /\ DOMAIN (s \o t) = 1 .. Len(s) + Len(t)
  BY <1>1, <1>2, LenProperties
<1>4. \A i \in 1 .. Len(t) : t[i].what # "NNACK"
  <2>1. \A i \in 1 .. Len(t) : t[i] \in Asks
    BY ElementOfSeq
  <2>2. \A a \in Asks : a.what # "NNACK"
    BY DEF Asks
  <2> QED
    BY <2>1, <2>2
<1>5. \A i \in 1 .. Len(s) + Len(t) :
        (s \o t)[i].what = "NNACK" <=> i \in 1 .. Len(s) /\ s[i].what = "NNACK"
  <2> TAKE i \in 1 .. Len(s) + Len(t)
  <2>1. CASE i <= Len(s)
    BY <2>1, <1>2, <1>3
  <2>2. CASE ~(i <= Len(s))
    <3>1. i - Len(s) \in 1 .. Len(t) /\ (s \o t)[i] = t[i - Len(s)]
      BY <2>2, <1>2, <1>3
    <3> QED
      BY <3>1, <2>2, <1>3, <1>4
  <2> QED
    BY <2>1, <2>2
<1> QED
  BY <1>2, <1>3, <1>5 DEF Nnacks

LEMMA NnacksAppended ==
  ASSUME NEW s \in Seq(Action)
  PROVE  LET t == Append(s, [what |-> "NNACK"])
         IN  /\ t \in Seq(Action)
             /\ Cardinality(Nnacks(t)) = Cardinality(Nnacks(s)) + 1
<1> DEFINE a == [what |-> "NNACK"]
           t == Append(s, a)
<1>1. a \in Action /\ a.what = "NNACK"
  BY DEF Action
<1>2. /\ t \in Seq(Action) /\ Len(t) = Len(s) + 1 /\ Len(s) \in Nat
      /\ t[Len(s) + 1] = a /\ \A i \in 1 .. Len(s) : t[i] = s[i]
  <2> HIDE DEF a
  <2> QED
    BY <1>1, AppendProperties, LenProperties
<1>3. DOMAIN s = 1 .. Len(s) /\ DOMAIN t = 1 .. Len(s) + 1
  <2> HIDE DEF t, a
  <2> QED
    BY <1>2, LenProperties
<1>4. Nnacks(t) = Nnacks(s) \cup {Len(s) + 1}
  <2> HIDE DEF t, a
  <2> QED
    BY <1>1, <1>2, <1>3 DEF Nnacks
<1>5. Len(s) + 1 \notin Nnacks(s)
  BY <1>2, <1>3 DEF Nnacks
<1>6. Cardinality(Nnacks(t)) = Cardinality(Nnacks(s)) + 1
  <2> HIDE DEF t, a
  <2> QED
    BY <1>4, <1>5, NnacksFinite, FS_AddElement
<1> QED
  BY <1>2, <1>6

(* Taking the first action off the queue.                                  *)
LEMMA NnacksTail ==
  ASSUME NEW s \in Seq(Action), s # <<>>
  PROVE  /\ Tail(s) \in Seq(Action)
         /\ Head(s).what # "NNACK" =>
              Cardinality(Nnacks(Tail(s))) = Cardinality(Nnacks(s))
         /\ Head(s).what = "NNACK" =>
              /\ Cardinality(Nnacks(s)) \in Nat \ {0}
              /\ Cardinality(Nnacks(Tail(s))) = Cardinality(Nnacks(s)) - 1
<1>1. /\ Tail(s) \in Seq(Action) /\ Len(Tail(s)) = Len(s) - 1
      /\ \A i \in 1 .. Len(Tail(s)) : Tail(s)[i] = s[i + 1]
      /\ Len(s) \in Nat \ {0} /\ Head(s) = s[1]
      /\ DOMAIN s = 1 .. Len(s) /\ DOMAIN Tail(s) = 1 .. Len(Tail(s))
  BY HeadTailProperties, EmptySeq, LenProperties
<1> DEFINE T == Nnacks(s) \ {1}
           f == [i \in Nnacks(Tail(s)) |-> i + 1]
<1>2. \A i \in Int : i \in Nnacks(Tail(s)) <=> i + 1 \in T
  BY <1>1 DEF Nnacks
<1>3. Nnacks(Tail(s)) \subseteq Int /\ T \subseteq Int
  BY <1>1 DEF Nnacks
<1>4. f \in Bijection(Nnacks(Tail(s)), T)
  <2>1. f \in [Nnacks(Tail(s)) -> T]
    BY <1>2, <1>3
  <2>2. \A i, j \in Nnacks(Tail(s)) : f[i] = f[j] => i = j
    BY <1>3
  <2>3. \A j \in T : \E i \in Nnacks(Tail(s)) : f[i] = j
    <3> TAKE j \in T
    <3>1. j - 1 \in Int /\ (j - 1) + 1 = j
      BY <1>3
    <3>2. j - 1 \in Nnacks(Tail(s))
      BY <1>2, <3>1
    <3> QED
      BY <3>1, <3>2
  <2> HIDE DEF f, T
  <2> QED
    BY <2>1, <2>2, <2>3, Fun_IsBij
<1>5. IsFiniteSet(Nnacks(Tail(s))) /\ IsFiniteSet(Nnacks(s)) /\ Cardinality(Nnacks(s)) \in Nat
  BY <1>1, NnacksFinite
<1>6. Cardinality(T) = Cardinality(Nnacks(Tail(s)))
  <2> HIDE DEF f, T
  <2> QED
    BY <1>4, <1>5, FS_Bijection, Fun_ExistsBij
<1>7. Cardinality(T) = IF 1 \in Nnacks(s) THEN Cardinality(Nnacks(s)) - 1 ELSE Cardinality(Nnacks(s))
  BY <1>5, FS_RemoveElement
<1>8. 1 \in Nnacks(s) <=> Head(s).what = "NNACK"
  BY <1>1 DEF Nnacks
<1>9. 1 \in Nnacks(s) => Cardinality(Nnacks(s)) # 0
  BY <1>5, FS_EmptySet
<1> HIDE DEF T
<1> QED
  BY <1>1, <1>5, <1>6, <1>7, <1>8, <1>9

-----------------------------------------------------------------------------
(* Types and acknowledgements, which need each other: what is owed stays a *)
(* natural number because an acknowledgement in the queue is owed.         *)

Counted == TypeOK /\ AcknowledgedOnce

(* What TypeOK says of all but the queue, what is owed and the bounds.     *)
BusTypes ==
  /\ canid \in [Node -> Id]
  /\ inbox \in [Node -> Seq(Frames)]
  /\ bCANenum \in [Node -> BOOLEAN]
  /\ responses \in [Node -> SUBSET (1 .. MaxId)]
  /\ startedFromEnumMessage \in [Node -> BOOLEAN]
  /\ disturbed \subseteq {n \in Node : bCANenum[n]}

(* A step that leaves the difference between what is owed and what will be *)
(* acknowledged when the enumeration ends as it is, and no queue with more *)
(* or fewer acknowledgements.                                              *)
LEMMA CountedStep ==
  ASSUME Counted, BusTypes',
         todo' \in [Node -> Seq(Action)], owed' \in [Node -> Int],
         requests' \in 0 .. MaxRequests, restarts' \in 0 .. MaxRestarts,
         \A m \in Node : owed'[m] - Owes(m)' - Cardinality(Nnacks(todo'[m]))
                       = owed[m] - Owes(m) - Cardinality(Nnacks(todo[m]))
  PROVE  Counted'
<1>1. \A m \in Node : /\ Owes(m)' \in {0, 1} /\ Owes(m) \in {0, 1}
                       /\ Cardinality(Nnacks(todo'[m])) \in Nat
                       /\ Cardinality(Nnacks(todo[m])) \in Nat
  BY NnacksFinite DEF Owes, Counted, TypeOK
<1>2. \A m \in Node : owed[m] = Cardinality(Nnacks(todo[m])) + Owes(m)
  BY DEF Counted, AcknowledgedOnce, Acks
<1>3. \A m \in Node : owed'[m] = Cardinality(Nnacks(todo'[m])) + Owes(m)'
  <2> TAKE m \in Node
  <2> DEFINE a == Cardinality(Nnacks(todo[m]))
             b == Cardinality(Nnacks(todo'[m]))
             o == Owes(m)
             p == Owes(m)'
  <2>1. a \in Nat /\ b \in Nat /\ o \in Int /\ p \in Int
    BY <1>1
  <2>2. owed[m] = a + o /\ owed'[m] - p - b = owed[m] - o - a /\ owed'[m] \in Int
    BY <1>2
  <2> HIDE DEF a, b, o, p
  <2>3. \A x, y \in Int : y = a + o /\ x - p - b = y - o - a => x = b + p
    BY <2>1
  <2>4. owed[m] \in Int
    BY DEF Counted, TypeOK
  <2>5. owed'[m] = b + p
    BY <2>2, <2>3, <2>4
  <2> QED
    BY <2>5 DEF b, p
<1>4. AcknowledgedOnce'
  BY <1>3 DEF AcknowledgedOnce, Acks
<1>5. \A m \in Node : owed'[m] \in Nat
  BY <1>1, <1>3
<1>6. TypeOK'
  BY <1>5 DEF TypeOK, BusTypes
<1> QED
  BY <1>4, <1>6 DEF Counted

(* startCANenumeration() owes what it will acknowledge.                    *)
LEMMA StartBalance ==
  ASSUME TypeOK, NEW n \in Node, NEW box, NEW fromENUM \in BOOLEAN,
         Start(n, fromENUM, box)
  PROVE  \A m \in Node : owed'[m] - Owes(m)' = owed[m] - Owes(m)
<1>1. CASE ~bCANenum[n] /\ Begin(n, fromENUM, box)
  <2> TAKE m \in Node
  <2>1. CASE m # n
    <3>1. owed'[m] = owed[m]
      BY <1>1, <2>1 DEF Begin, TypeOK
    <3>2. bCANenum'[m] = bCANenum[m] /\ startedFromEnumMessage'[m] = startedFromEnumMessage[m]
      BY <1>1, <2>1, Zenon DEF Begin, TypeOK
    <3> QED
      BY <3>1, <3>2 DEF Owes
  <2>2. CASE m = n
    <3>1. Owes(m) = 0
      BY <1>1, <2>2 DEF Owes
    <3>2. bCANenum'[m] = TRUE /\ startedFromEnumMessage'[m] = fromENUM
      BY <1>1, <2>2, Zenon DEF Begin, TypeOK
    <3>3. Owes(m)' = IF fromENUM THEN 1 ELSE 0
      BY <3>2 DEF Owes
    <3>4. owed'[m] = IF fromENUM THEN owed[m] + 1 ELSE owed[m]
      BY <1>1, <2>2 DEF Begin, TypeOK
    <3>5. owed[m] \in Int
      BY DEF TypeOK
    <3> QED
      BY <3>1, <3>3, <3>4, <3>5
  <2> QED
    BY <2>1, <2>2
<1>2. CASE bCANenum[n] /\ inbox' = box /\ UNCHANGED <<enumeration, owed, disturbed>>
  BY <1>2 DEF enumeration, Owes
<1> QED
  BY <1>1, <1>2 DEF Start

(* An action off the queue.                                                *)
LEMMA DoneKeeps ==
  ASSUME TypeOK, NEW n \in Node, NEW what, Dispatching(n, what), Done(n)
  PROVE  /\ todo' \in [Node -> Seq(Action)]
         /\ \A m \in Node \ {n} :
              Cardinality(Nnacks(todo'[m])) = Cardinality(Nnacks(todo[m]))
         /\ what # "NNACK" =>
              Cardinality(Nnacks(todo'[n])) = Cardinality(Nnacks(todo[n]))
         /\ what = "NNACK" =>
              Cardinality(Nnacks(todo'[n])) = Cardinality(Nnacks(todo[n])) - 1
<1>1. todo[n] \in Seq(Action) /\ todo[n] # <<>> /\ Head(todo[n]).what = what
  BY DEF TypeOK, Dispatching
<1> DEFINE rest == Tail(todo[n])
<1>2. /\ rest \in Seq(Action)
      /\ what # "NNACK" => Cardinality(Nnacks(rest)) = Cardinality(Nnacks(todo[n]))
      /\ what = "NNACK" => Cardinality(Nnacks(rest)) = Cardinality(Nnacks(todo[n])) - 1
  BY <1>1, NnacksTail
<1>3. todo' = [todo EXCEPT ![n] = rest]
  BY DEF Done
<1> HIDE DEF rest
<1>4. todo' \in [Node -> Seq(Action)]
  BY <1>2, <1>3 DEF TypeOK
<1>5. todo'[n] = rest /\ \A m \in Node \ {n} : todo'[m] = todo[m]
  BY <1>3 DEF TypeOK
<1> QED
  BY <1>2, <1>4, <1>5

-----------------------------------------------------------------------------
(* Every step keeps the types and the count.                               *)

(* A step that starts an enumeration, or would.                            *)
LEMMA StartCounted ==
  ASSUME Counted, NEW n \in Node, NEW box \in [Node -> Seq(Frames)],
         NEW fromENUM \in BOOLEAN, Start(n, fromENUM, box),
         todo' \in [Node -> Seq(Action)],
         \A m \in Node : Cardinality(Nnacks(todo'[m])) = Cardinality(Nnacks(todo[m])),
         UNCHANGED <<canid, requests, restarts>>
  PROVE  Counted'
<1>1. TypeOK
  BY DEF Counted
<1>2. /\ BusTypes' /\ owed' \in [Node -> Int]
      /\ requests' \in 0 .. MaxRequests /\ restarts' \in 0 .. MaxRestarts
  <2>1. BusTypes'
    <3>1. canid' \in [Node -> Id]
      BY <1>1 DEF TypeOK
    <3> QED
      BY <1>1, <3>1, StartType DEF BusTypes
  <2>2. owed' \in [Node -> Nat]
    BY <1>1, StartType
  <2>3. requests' \in 0 .. MaxRequests /\ restarts' \in 0 .. MaxRestarts
    BY <1>1 DEF TypeOK
  <2> QED
    BY <2>1, <2>2, <2>3
<1>3. \A m \in Node : owed'[m] - Owes(m)' = owed[m] - Owes(m)
  BY <1>1, StartBalance
<1>4. \A m \in Node : owed'[m] - Owes(m)' - Cardinality(Nnacks(todo'[m]))
                     = owed[m] - Owes(m) - Cardinality(Nnacks(todo[m]))
  BY <1>3
<1> QED
  BY <1>2, <1>4, CountedStep

(* A step that leaves the enumerations, what is owed and the queues alone. *)
LEMMA FrameCounted ==
  ASSUME Counted, inbox' \in [Node -> Seq(Frames)], canid' \in [Node -> Id],
         todo' \in [Node -> Seq(Action)],
         \A m \in Node : Cardinality(Nnacks(todo'[m])) = Cardinality(Nnacks(todo[m])),
         responses' \in [Node -> SUBSET (1 .. MaxId)],
         disturbed' \subseteq {m \in Node : bCANenum[m]},
         UNCHANGED <<bCANenum, startedFromEnumMessage, owed, restarts>>,
         requests' \in 0 .. MaxRequests
  PROVE  Counted'
<1> TypeOK
  BY DEF Counted
<1>a. disturbed' \subseteq {m \in Node : bCANenum'[m]}
  OBVIOUS
<1>b. bCANenum' \in [Node -> BOOLEAN] /\ startedFromEnumMessage' \in [Node -> BOOLEAN]
  BY Zenon DEF TypeOK
<1>c. owed' \in [Node -> Int] /\ restarts' \in 0 .. MaxRestarts
  BY DEF TypeOK
<1>1. BusTypes' /\ owed' \in [Node -> Int] /\ restarts' \in 0 .. MaxRestarts
  BY <1>a, <1>b, <1>c DEF BusTypes
<1>2. \A m \in Node : Owes(m)' = Owes(m) /\ owed'[m] = owed[m]
  BY DEF Owes
<1> QED
  BY <1>1, <1>2, CountedStep

LEMMA ActionsCounted ==
  ASSUME Counted, NEW n \in Node, ProcessAction(n)
  PROVE  Counted'
<1> TypeOK
  BY DEF Counted
<1>1. CASE ActStart(n)
  BY <1>1, DoneKeeps, StartCounted DEF ActStart, Dispatching, TypeOK
<1>2. CASE ActEnum(n)
  BY <1>2, DoneKeeps, StartCounted DEF ActEnum, Dispatching, TypeOK
<1>3. CASE ActCanid(n)
  <2> DEFINE id == Head(todo[n]).id
             confirm == << [what |-> "SEND"], [what |-> "SEND"] >>
  <2>1. todo[n] \in Seq(Action) /\ todo[n] # <<>> /\ Head(todo[n]).what = "CANID"
    BY <1>3 DEF ActCanid, Dispatching, TypeOK
  <2>2. /\ Tail(todo[n]) \in Seq(Action)
        /\ Cardinality(Nnacks(Tail(todo[n]))) = Cardinality(Nnacks(todo[n]))
    BY <2>1, NnacksTail
  <2>3. confirm \in Seq(Asks)
    BY DEF Asks
  <2>4. /\ Tail(todo[n]) \o confirm \in Seq(Action)
        /\ Cardinality(Nnacks(Tail(todo[n]) \o confirm)) = Cardinality(Nnacks(todo[n]))
    <3> HIDE DEF confirm
    <3> QED
      BY <2>2, <2>3, NnacksAsked
  <2>5. todo' = [todo EXCEPT ![n] = Tail(todo[n]) \o confirm]
    BY <1>3 DEF ActCanid
  <2>6. /\ todo' \in [Node -> Seq(Action)]
        /\ \A m \in Node : Cardinality(Nnacks(todo'[m])) = Cardinality(Nnacks(todo[m]))
    <3> HIDE DEF confirm
    <3> QED
      BY <2>4, <2>5 DEF TypeOK
  <2>7. canid' \in [Node -> Id]
    <3>1. CASE id \in 1 .. MaxSettable
      <4>1. canid' = [canid EXCEPT ![n] = id]
        BY <1>3, <3>1 DEF ActCanid
      <4>2. id \in Id
        BY <3>1, EnumerationAssumption DEF Id
      <4> HIDE DEF id
      <4> QED
        BY <4>1, <4>2 DEF TypeOK
    <3>2. CASE id \notin 1 .. MaxSettable
      BY <1>3, <3>2 DEF ActCanid, TypeOK
    <3> QED
      BY <3>1, <3>2
  <2>8. disturbed' \subseteq {m \in Node : bCANenum[m]}
    BY <1>3 DEF ActCanid, TypeOK, OthersEnumerating
  <2> QED
    BY <1>3, <2>6, <2>7, <2>8, FrameCounted
       DEF ActCanid, Dispatching, TypeOK, enumeration
<1>4. CASE ActSend(n)
  <2>1. inbox' \in [Node -> Seq(Frames)]
    BY <1>4, FrameType, SentType DEF ActSend, Sends, TypeOK
  <2>2. /\ todo' \in [Node -> Seq(Action)]
        /\ \A m \in Node : Cardinality(Nnacks(todo'[m])) = Cardinality(Nnacks(todo[m]))
    BY <1>4, DoneKeeps DEF ActSend
  <2> QED
    BY <1>4, <2>1, <2>2, FrameCounted
       DEF ActSend, Sends, Dispatching, TypeOK, enumeration
<1>5. CASE ActNnack(n)
  <2>1. inbox' \in [Node -> Seq(Frames)]
    BY <1>5, FrameType, SentType DEF ActNnack, Sends, TypeOK
  <2>2. /\ todo' \in [Node -> Seq(Action)]
        /\ \A m \in Node \ {n} :
             Cardinality(Nnacks(todo'[m])) = Cardinality(Nnacks(todo[m]))
        /\ Cardinality(Nnacks(todo'[n])) = Cardinality(Nnacks(todo[n])) - 1
    BY <1>5, DoneKeeps DEF ActNnack
  <2>3. \A m \in Node : Cardinality(Nnacks(todo[m])) \in Nat
    BY NnacksFinite DEF TypeOK
  <2>4. /\ owed' \in [Node -> Int]
        /\ owed'[n] = owed[n] - 1 /\ \A m \in Node \ {n} : owed'[m] = owed[m]
        /\ \A m \in Node : owed[m] \in Int
    <3>1. owed \in [Node -> Nat] /\ owed' = [owed EXCEPT ![n] = owed[n] - 1]
      BY <1>5 DEF ActNnack, TypeOK
    <3> QED
      BY <3>1
  <2>5. UNCHANGED <<canid, enumeration, disturbed, requests, restarts>>
    BY <1>5 DEF ActNnack, Sends, Dispatching
  <2>6. \A m \in Node : Owes(m)' = Owes(m) /\ Owes(m) \in Int
    BY <2>5 DEF enumeration, Owes
  <2>7. BusTypes'
    <3>1. BusTypes
      BY DEF BusTypes, TypeOK
    <3> QED
      BY <2>1, <2>5, <3>1, Zenon DEF BusTypes, enumeration
  <2>8. requests' \in 0 .. MaxRequests /\ restarts' \in 0 .. MaxRestarts
    BY <2>5 DEF TypeOK
  <2>9. \A m \in Node : owed'[m] - Owes(m)' - Cardinality(Nnacks(todo'[m]))
                       = owed[m] - Owes(m) - Cardinality(Nnacks(todo[m]))
    <3>1. \A w, o, c \in Int : (w - 1) - o - (c - 1) = w - o - c
      OBVIOUS
    <3>2. TAKE m \in Node
    <3>3. CASE m = n
      BY <2>2, <2>3, <2>4, <2>6, <3>1, <3>3
    <3>4. CASE m # n
      BY <2>2, <2>4, <2>6, <3>4
    <3> QED
      BY <3>3, <3>4
  <2> QED
    BY <2>2, <2>4, <2>7, <2>8, <2>9, CountedStep
<1> QED
  BY <1>1, <1>2, <1>3, <1>4, <1>5 DEF ProcessAction

LEMMA FramesCounted ==
  ASSUME Counted, NEW n \in Node, CheckIncomingCanFrame(n)
  PROVE  Counted'
<1> TypeOK
  BY DEF Counted
<1>1. inbox[n] # <<>> /\ UNCHANGED <<canid, todo, requests, restarts>>
  BY DEF CheckIncomingCanFrame, ReceiveRtr, ReceiveEmpty, ReceiveData, Receiving
<1>2. Rest(n) \in [Node -> Seq(Frames)] /\ Head(inbox[n]) \in Frames
  BY <1>1, RestType DEF TypeOK
<1>3. CASE ReceiveRtr(n)
  <2>1. inbox' \in [Node -> Seq(Frames)]
    BY <1>2, <1>3, FrameType, SentType DEF ReceiveRtr, TypeOK
  <2> QED
    BY <1>1, <1>3, <2>1, FrameCounted DEF ReceiveRtr, TypeOK, enumeration
<1>4. CASE ReceiveEmpty(n)
  <2>1. TakeAnswer(n, Head(inbox[n]).id) /\ Head(inbox[n]).id \in Id
    BY <1>2, <1>4 DEF ReceiveEmpty, Frames
  <2>2. responses' \in [Node -> SUBSET (1 .. MaxId)]
    BY <2>1, EnumerationAssumption DEF TakeAnswer, Answering, TypeOK, Id
  <2> QED
    BY <1>1, <1>2, <2>1, <2>2, FrameCounted DEF TakeAnswer, TypeOK
<1>5. CASE ReceiveData(n)
  <2>1. CASE Start(n, FALSE, Rest(n))
    BY <1>1, <1>2, <2>1, StartCounted DEF TypeOK
  <2>2. CASE inbox' = Rest(n) /\ UNCHANGED <<enumeration, owed, disturbed>>
    BY <1>1, <1>2, <2>2, FrameCounted DEF TypeOK, enumeration
  <2> QED
    BY <1>5, <2>1, <2>2 DEF ReceiveData
<1> QED
  BY <1>3, <1>4, <1>5 DEF CheckIncomingCanFrame

LEMMA FinishCounted ==
  ASSUME Counted, NEW n \in Node, Finish(n)
  PROVE  Counted'
<1> TypeOK
  BY DEF Counted
<1> DEFINE ack == [what |-> "NNACK"]
<1>1. /\ todo[n] \in Seq(Action)
      /\ Append(todo[n], ack) \in Seq(Action)
      /\ Cardinality(Nnacks(Append(todo[n], ack))) = Cardinality(Nnacks(todo[n])) + 1
  BY NnacksAppended DEF TypeOK
<1>2. /\ bCANenum[n] /\ UNCHANGED <<inbox, owed, requests, restarts>>
      /\ canid' = [canid EXCEPT ![n] = FindFreeCanId(n)]
      /\ bCANenum' = [bCANenum EXCEPT ![n] = FALSE]
      /\ responses' = [responses EXCEPT ![n] = {}]
      /\ startedFromEnumMessage' = [startedFromEnumMessage EXCEPT ![n] = FALSE]
      /\ disturbed' = (disturbed \ {n}) \cup OthersEnumerating(n)
  BY DEF Finish, Forgotten
<1>3. BusTypes'
  <2>1. canid' \in [Node -> Id]
    <3>1. FindFreeCanId(n) \in Id
      BY FindFreeCanIdIsFree, EnumerationAssumption DEF Id
    <3> QED
      BY <1>2, <3>1 DEF TypeOK
  <2>2. /\ bCANenum' \in [Node -> BOOLEAN] /\ startedFromEnumMessage' \in [Node -> BOOLEAN]
        /\ disturbed' \subseteq {m \in Node : bCANenum'[m]}
    BY <1>2, Zenon DEF TypeOK, OthersEnumerating
  <2>3. inbox' \in [Node -> Seq(Frames)] /\ responses' \in [Node -> SUBSET (1 .. MaxId)]
    BY <1>2 DEF TypeOK
  <2> QED
    BY <2>1, <2>2, <2>3 DEF BusTypes
<1>4. /\ owed' \in [Node -> Int]
      /\ requests' \in 0 .. MaxRequests /\ restarts' \in 0 .. MaxRestarts
  BY <1>2 DEF TypeOK
<1>5. CASE startedFromEnumMessage[n]
  <2>1. todo' = [todo EXCEPT ![n] = Append(todo[n], ack)]
    BY <1>5 DEF Finish
  <2> HIDE DEF ack
  <2>2. todo' \in [Node -> Seq(Action)]
    BY <1>1, <2>1 DEF TypeOK
  <2>3. /\ todo'[n] = Append(todo[n], ack)
        /\ \A m \in Node \ {n} : todo'[m] = todo[m]
    BY <2>1 DEF TypeOK
  <2>4. /\ Owes(n) = 1 /\ Owes(n)' = 0
        /\ \A m \in Node \ {n} : Owes(m)' = Owes(m)
    <3>1. /\ ~bCANenum'[n]
          /\ \A m \in Node \ {n} : /\ bCANenum'[m] = bCANenum[m]
                                    /\ startedFromEnumMessage'[m] = startedFromEnumMessage[m]
      BY <1>2, Zenon DEF TypeOK
    <3> QED
      BY <1>2, <1>5, <3>1 DEF Owes
  <2>5. Cardinality(Nnacks(todo[n])) \in Nat /\ owed[n] \in Nat
    BY NnacksFinite DEF TypeOK
  <2>6. \A w, c \in Int : w - 0 - (c + 1) = w - 1 - c
    OBVIOUS
  <2>7. \A m \in Node : owed'[m] - Owes(m)' - Cardinality(Nnacks(todo'[m]))
                       = owed[m] - Owes(m) - Cardinality(Nnacks(todo[m]))
    <3> TAKE m \in Node
    <3>1. CASE m = n
      <4>1. Cardinality(Nnacks(todo'[n])) = Cardinality(Nnacks(todo[n])) + 1
        BY <1>1, <2>3
      <4>2. owed'[n] = owed[n]
        BY <1>2
      <4> QED
        BY <2>4, <2>5, <2>6, <3>1, <4>1, <4>2
    <3>2. CASE m # n
      BY <1>2, <2>3, <2>4, <3>2
    <3> QED
      BY <3>1, <3>2
  <2> QED
    BY <1>3, <1>4, <2>2, <2>7, CountedStep
<1>6. CASE ~startedFromEnumMessage[n]
  <2>1. todo' = todo /\ todo' \in [Node -> Seq(Action)]
    BY <1>6 DEF Finish, TypeOK
  <2>2. \A m \in Node : Owes(m)' = Owes(m)
    <3>1. /\ ~bCANenum'[n]
          /\ \A m \in Node \ {n} : /\ bCANenum'[m] = bCANenum[m]
                                    /\ startedFromEnumMessage'[m] = startedFromEnumMessage[m]
      BY <1>2, Zenon DEF TypeOK
    <3> QED
      BY <1>6, <3>1 DEF Owes
  <2> QED
    BY <1>2, <1>3, <1>4, <2>1, <2>2, CountedStep
<1> QED
  BY <1>5, <1>6

LEMMA EnvironmentCounted ==
  ASSUME Counted, NEW n \in Node, Request(n) \/ Restart(n)
  PROVE  Counted'
<1> TypeOK
  BY DEF Counted
<1>1. CASE Request(n)
  <2>1. PICK s \in Requests : todo' = [todo EXCEPT ![n] = todo[n] \o s]
    BY <1>1 DEF Request
  <2>2. /\ todo[n] \o s \in Seq(Action)
        /\ Nnacks(todo[n] \o s) = Nnacks(todo[n])
    BY EnumerationAssumption, NnacksAsked DEF TypeOK
  <2> DEFINE q == todo[n] \o s
  <2>3. /\ todo' \in [Node -> Seq(Action)]
        /\ \A m \in Node : Cardinality(Nnacks(todo'[m])) = Cardinality(Nnacks(todo[m]))
    <3>1. q \in Seq(Action) /\ Nnacks(q) = Nnacks(todo[n]) /\ todo' = [todo EXCEPT ![n] = q]
      BY <2>1, <2>2
    <3> HIDE DEF q
    <3> QED
      BY <3>1 DEF TypeOK
  <2>4. requests' \in 0 .. MaxRequests
    BY <1>1, EnumerationAssumption DEF Request, TypeOK
  <2>5. UNCHANGED <<canid, inbox, enumeration, owed, disturbed, restarts>>
    BY <1>1 DEF Request
  <2> QED
    BY <2>3, <2>4, <2>5, FrameCounted DEF TypeOK, enumeration
<1>2. CASE Restart(n)
  <2>1. /\ UNCHANGED <<canid, requests>>
        /\ inbox' = [inbox EXCEPT ![n] = <<>>] /\ todo' = [todo EXCEPT ![n] = <<>>]
        /\ owed' = [owed EXCEPT ![n] = 0]
        /\ bCANenum' = [bCANenum EXCEPT ![n] = FALSE]
        /\ responses' = [responses EXCEPT ![n] = {}]
        /\ startedFromEnumMessage' = [startedFromEnumMessage EXCEPT ![n] = FALSE]
        /\ disturbed' = (disturbed \ {n}) \cup OthersEnumerating(n)
    BY <1>2 DEF Restart, Forgotten
  <2>2. BusTypes'
    <3>1. /\ bCANenum' \in [Node -> BOOLEAN] /\ startedFromEnumMessage' \in [Node -> BOOLEAN]
          /\ disturbed' \subseteq {m \in Node : bCANenum'[m]}
      BY <2>1, Zenon DEF TypeOK, OthersEnumerating
    <3>2. /\ canid' \in [Node -> Id] /\ inbox' \in [Node -> Seq(Frames)]
          /\ responses' \in [Node -> SUBSET (1 .. MaxId)]
      BY <2>1 DEF TypeOK
    <3> QED
      BY <3>1, <3>2 DEF BusTypes
  <2>3. todo' \in [Node -> Seq(Action)] /\ owed' \in [Node -> Nat]
    BY <2>1 DEF TypeOK
  <2>4. requests' \in 0 .. MaxRequests /\ restarts' \in 0 .. MaxRestarts
    BY <1>2, EnumerationAssumption DEF Restart, TypeOK
  <2>5. TypeOK'
    BY <2>2, <2>3, <2>4 DEF TypeOK, BusTypes
  <2>6. \A m \in Node : owed'[m] = Cardinality(Nnacks(todo'[m])) + Owes(m)'
    <3> TAKE m \in Node
    <3>1. CASE m = n
      <4>1. owed'[m] = 0 /\ todo'[m] = <<>>
        BY <2>1, <3>1 DEF TypeOK
      <4>2. ~bCANenum'[m]
        BY <2>1, <3>1, Zenon DEF TypeOK
      <4>3. Owes(m)' = 0
        BY <4>2 DEF Owes
      <4> QED
        BY <4>1, <4>3, NnacksEmpty
    <3>2. CASE m # n
      <4>1. owed'[m] = owed[m] /\ todo'[m] = todo[m]
        BY <2>1, <3>2 DEF TypeOK
      <4>2. bCANenum'[m] = bCANenum[m] /\ startedFromEnumMessage'[m] = startedFromEnumMessage[m]
        BY <2>1, <3>2, Zenon DEF TypeOK
      <4>3. Owes(m)' = Owes(m)
        BY <4>2 DEF Owes
      <4> QED
        BY <4>1, <4>3 DEF Counted, AcknowledgedOnce, Acks
    <3> QED
      BY <3>1, <3>2
  <2> QED
    BY <2>5, <2>6 DEF Counted, AcknowledgedOnce, Acks
<1> QED
  BY <1>1, <1>2

LEMMA CountedInit == Init => Counted
<1> SUFFICES ASSUME Init PROVE Counted
  OBVIOUS
<1>1. TypeOK
  BY EnumerationAssumption DEF Init, TypeOK
<1>2. \A n \in Node : owed[n] = 0 /\ todo[n] = <<>> /\ Owes(n) = 0
  BY DEF Init, Owes
<1> QED
  BY <1>1, <1>2, NnacksEmpty DEF Counted, AcknowledgedOnce, Acks

LEMMA CountedNext == Counted /\ [Next]_vars => Counted'
<1> SUFFICES ASSUME Counted, [Next]_vars PROVE Counted'
  OBVIOUS
<1>1. ASSUME NEW n \in Node, Process(n) \/ Request(n) \/ Restart(n)
      PROVE  Counted'
  BY <1>1, ActionsCounted, FramesCounted, FinishCounted, EnvironmentCounted DEF Process
<1>2. CASE UNCHANGED vars
  BY <1>2 DEF vars, enumeration, history, Counted, TypeOK, AcknowledgedOnce, Acks, Owes
<1> QED
  BY <1>1, <1>2 DEF Next

(* The types hold for every set of nodes and whatever is asked of them.    *)
THEOREM TypeCorrect == Spec => []TypeOK
<1>1. Counted => TypeOK
  BY DEF Counted
<1> QED
  BY <1>1, CountedInit, CountedNext, PTL DEF Spec

(* An ENUM message that starts an enumeration is acknowledged exactly once *)
(* (CanService.cpp:272), for every set of nodes and whatever is asked.     *)
THEOREM EnumAcknowledged == Spec => []AcknowledgedOnce
<1>1. Counted => AcknowledgedOnce
  BY DEF Counted
<1> QED
  BY <1>1, CountedInit, CountedNext, PTL DEF Spec

-----------------------------------------------------------------------------
(* Why an undisturbed enumeration finds a free id: as long as it lasts,    *)
(* every other node has still to be asked, or its answer is on its way, or *)
(* its id is among the responses, unless it has none.                      *)

Asked(s, n) == \E i \in 1 .. Len(s) : s[i].kind = "RTR" /\ s[i].src = n
Told(s, id) == \E i \in 1 .. Len(s) : s[i].kind = "EMPTY" /\ s[i].id = id

Settled(n, m) ==
  \/ Asked(inbox[m], n)
  \/ Told(inbox[n], canid[m])
  \/ canid[m] = 0
  \/ canid[m] \in responses[n]

LoneInv ==
  \A n \in Node : bCANenum[n] /\ n \notin disturbed =>
    \A m \in Node \ {n} : Settled(n, m)

(* Frames stay in a buffer when others come behind them,                   *)
LEMMA AppendedKeeps ==
  ASSUME NEW s \in Seq(Frames), NEW f \in Frames, NEW n, NEW id
  PROVE  /\ Asked(s, n) => Asked(s \o <<f>>, n)
         /\ Told(s, id) => Told(s \o <<f>>, id)
         /\ f.kind = "RTR" /\ f.src = n => Asked(s \o <<f>>, n)
         /\ f.kind = "EMPTY" /\ f.id = id => Told(s \o <<f>>, id)
<1> DEFINE t == s \o <<f>>
<1>1. /\ Len(s) \in Nat /\ Len(t) = Len(s) + 1
      /\ \A i \in 1 .. Len(s) : t[i] = s[i]
      /\ t[Len(s) + 1] = f
  <2>1. <<f>> \in Seq(Frames) /\ Len(<<f>>) = 1 /\ <<f>>[1] = f
    OBVIOUS
  <2>2. /\ Len(s) \in Nat /\ Len(t) = Len(s) + Len(<<f>>)
        /\ \A i \in 1 .. Len(s) + Len(<<f>>) :
             t[i] = IF i <= Len(s) THEN s[i] ELSE <<f>>[i - Len(s)]
    BY <2>1, ConcatProperties, LenProperties
  <2> HIDE DEF t
  <2> QED
    BY <2>1, <2>2
<1> HIDE DEF t
<1> QED
  BY <1>1 DEF Asked, Told, t

(* and when another is taken from its head.                                *)
LEMMA TailKeeps ==
  ASSUME NEW s \in Seq(Frames), s # <<>>, NEW n, NEW id
  PROVE  /\ Asked(s, n) => \/ Asked(Tail(s), n)
                           \/ Head(s).kind = "RTR" /\ Head(s).src = n
         /\ Told(s, id) => \/ Told(Tail(s), id)
                           \/ Head(s).kind = "EMPTY" /\ Head(s).id = id
<1> DEFINE t == Tail(s)
           h == Head(s)
<1>1. /\ Len(s) \in Nat \ {0} /\ Len(t) = Len(s) - 1 /\ h = s[1]
      /\ \A i \in 1 .. Len(t) : t[i] = s[i + 1]
  BY HeadTailProperties, EmptySeq
<1> HIDE DEF t, h
<1>2. \A i \in 1 .. Len(s) : i = 1 \/ (i - 1 \in 1 .. Len(t) /\ t[i - 1] = s[i])
  BY <1>1
<1> QED
  BY <1>1, <1>2 DEF Asked, Told, t, h

(* Sending a frame takes nothing away.                                     *)
LEMMA SentKeeps ==
  ASSUME NEW box \in [Node -> Seq(Frames)], NEW k \in Node, NEW f \in Frames,
         NEW m \in Node, NEW n, NEW id
  PROVE  /\ Asked(box[m], n) => Asked(Sent(box, k, <<f>>)[m], n)
         /\ Told(box[m], id) => Told(Sent(box, k, <<f>>)[m], id)
<1>1. CASE m = k
  BY <1>1, SentType
<1>2. CASE m # k
  <2>1. m \in Node \ {k}
    BY <1>2
  <2>2. Sent(box, k, <<f>>)[m] = box[m] \o <<f>>
    BY <2>1, Zenon DEF Sent
  <2>3. box[m] \in Seq(Frames)
    OBVIOUS
  <2>4. /\ Asked(box[m], n) => Asked(box[m] \o <<f>>, n)
        /\ Told(box[m], id) => Told(box[m] \o <<f>>, id)
    BY <2>3, AppendedKeeps, Zenon
  <2> QED
    BY <2>2, <2>4, Zenon
<1> QED
  BY <1>1, <1>2

(* A message that a node sends settles nothing and unsettles nothing.      *)
LEMMA SendsLone ==
  ASSUME TypeOK, LoneInv, NEW k \in Node, Sends(k), UNCHANGED canid
  PROVE  LoneInv'
<1> DEFINE f == Frame("DATA", k)
<1>1. f \in Frames
  BY FrameType DEF TypeOK
<1>2. inbox' = Sent(inbox, k, <<f>>) /\ UNCHANGED <<enumeration, disturbed>>
  BY DEF Sends
<1> HIDE DEF f
<1>3. ASSUME NEW n \in Node, NEW m \in Node, Settled(n, m)
      PROVE  Settled(n, m)'
  <2>1. /\ Asked(inbox[m], n) => Asked(inbox'[m], n)
        /\ Told(inbox[n], canid[m]) => Told(inbox'[n], canid[m])
    BY <1>1, <1>2, SentKeeps DEF TypeOK
  <2> QED
    BY <1>2, <1>3, <2>1 DEF Settled, enumeration
<1> QED
  BY <1>2, <1>3 DEF LoneInv, enumeration

(* startCANenumeration(): the node that starts asks all others, and one    *)
(* that was enumerating is not alone any more.                             *)
LEMMA StartLone ==
  ASSUME TypeOK, LoneInv, NEW k \in Node, NEW box \in [Node -> Seq(Frames)],
         NEW fromENUM \in BOOLEAN, Start(k, fromENUM, box), UNCHANGED canid,
         \A n \in Node : \A m \in Node \ {n} :
           /\ Asked(inbox[m], n) => Asked(box[m], n)
           /\ Told(inbox[n], canid[m]) => Told(box[n], canid[m])
  PROVE  LoneInv'
<1>1. CASE ~bCANenum[k] /\ Begin(k, fromENUM, box)
  <2> SUFFICES ASSUME NEW n \in Node, bCANenum'[n], n \notin disturbed',
                      NEW m \in Node \ {n}
               PROVE  Settled(n, m)'
    BY DEF LoneInv
  <2> DEFINE f == Frame("RTR", k)
  <2>1. inbox' = Sent(box, k, <<f>>) /\ f \in Frames /\ f.kind = "RTR" /\ f.src = k
    BY <1>1, FrameType DEF Begin, TypeOK
  <2> HIDE DEF f
  <2>2. n = k
    <3>1. SUFFICES ASSUME n # k PROVE FALSE
      OBVIOUS
    <3>2. bCANenum[n]
      BY <1>1, <3>1, Zenon DEF Begin, TypeOK
    <3>3. n \in OthersEnumerating(k)
      BY <3>1, <3>2 DEF OthersEnumerating
    <3> QED
      BY <1>1, <3>3 DEF Begin
  <2>3. inbox'[m] = box[m] \o <<f>>
    <3>1. m \in Node \ {k}
      BY <2>2
    <3>2. Sent(box, k, <<f>>)[m] = box[m] \o <<f>>
      BY <3>1, Zenon DEF Sent
    <3> QED
      BY <2>1, <3>2, Zenon
  <2>4. Asked(inbox'[m], n)
    <3>1. box[m] \in Seq(Frames) /\ f \in Frames /\ f.kind = "RTR" /\ f.src = n
      BY <2>1, <2>2
    <3>2. Asked(box[m] \o <<f>>, n)
      BY <3>1, AppendedKeeps, Zenon
    <3> QED
      BY <2>3, <3>2, Zenon
  <2> QED
    BY <2>4 DEF Settled
<1>2. CASE bCANenum[k] /\ inbox' = box /\ UNCHANGED <<enumeration, owed, disturbed>>
  BY <1>2 DEF LoneInv, Settled, enumeration
<1> QED
  BY <1>1, <1>2 DEF Start

LEMMA ActionsLone ==
  ASSUME TypeOK, LoneInv, NEW k \in Node, ProcessAction(k)
  PROVE  LoneInv'
<1>1. CASE ActStart(k)
  BY <1>1, StartLone DEF ActStart, TypeOK
<1>2. CASE ActEnum(k)
  BY <1>2, StartLone DEF ActEnum, TypeOK
<1>3. CASE ActCanid(k)
  <2>1. UNCHANGED <<inbox, enumeration>>
    BY <1>3 DEF ActCanid
  <2>2. CASE UNCHANGED <<canid, disturbed>>
    BY <2>1, <2>2 DEF LoneInv, Settled, enumeration
  <2>3. CASE /\ canid' = [canid EXCEPT ![k] = Head(todo[k]).id]
             /\ disturbed' = disturbed \cup OthersEnumerating(k)
    <3> SUFFICES ASSUME NEW n \in Node, bCANenum'[n], n \notin disturbed',
                        NEW m \in Node \ {n}
                 PROVE  Settled(n, m)'
      BY DEF LoneInv
    <3>1. bCANenum[n] /\ n \notin disturbed /\ n = k
      BY <2>1, <2>3 DEF enumeration, OthersEnumerating
    <3>2. canid'[m] = canid[m]
      BY <2>3, <3>1 DEF TypeOK
    <3>3. Settled(n, m)
      BY <3>1 DEF LoneInv
    <3> QED
      BY <2>1, <3>2, <3>3 DEF Settled, enumeration
  <2> QED
    BY <1>3, <2>2, <2>3 DEF ActCanid
<1>4. CASE ActSend(k)
  BY <1>4, SendsLone DEF ActSend
<1>5. CASE ActNnack(k)
  BY <1>5, SendsLone DEF ActNnack
<1> QED
  BY <1>1, <1>2, <1>3, <1>4, <1>5 DEF ProcessAction

(* Taking a frame off a buffer loses the question only by reading it, and  *)
(* an answer only by taking it.                                            *)
LEMMA RestKeeps ==
  ASSUME TypeOK, NEW k \in Node, inbox[k] # <<>>, NEW n, NEW m \in Node, NEW id
  PROVE  /\ Asked(inbox[m], n) =>
              \/ Asked(Rest(k)[m], n)
              \/ m = k /\ Head(inbox[k]).kind = "RTR" /\ Head(inbox[k]).src = n
         /\ Told(inbox[m], id) =>
              \/ Told(Rest(k)[m], id)
              \/ m = k /\ Head(inbox[k]).kind = "EMPTY" /\ Head(inbox[k]).id = id
<1>1. CASE m = k
  <2>1. Rest(k)[m] = Tail(inbox[m]) /\ inbox[m] \in Seq(Frames) /\ inbox[m] # <<>>
    BY <1>1 DEF Rest, TypeOK
  <2> DEFINE s == inbox[m]
  <2>2. /\ Asked(s, n) => \/ Asked(Tail(s), n)
                          \/ Head(s).kind = "RTR" /\ Head(s).src = n
        /\ Told(s, id) => \/ Told(Tail(s), id)
                          \/ Head(s).kind = "EMPTY" /\ Head(s).id = id
    <3>1. s \in Seq(Frames) /\ s # <<>>
      BY <2>1
    <3> HIDE DEF s
    <3> QED
      BY <3>1, TailKeeps
  <2> QED
    BY <1>1, <2>1, <2>2, Zenon
<1>2. CASE m # k
  BY <1>2, Zenon DEF Rest, TypeOK
<1> QED
  BY <1>1, <1>2

LEMMA FramesLone ==
  ASSUME TypeOK, LoneInv, NEW k \in Node, CheckIncomingCanFrame(k)
  PROVE  LoneInv'
<1> DEFINE h == Head(inbox[k])
<1>1. inbox[k] # <<>> /\ UNCHANGED canid /\ inbox \in [Node -> Seq(Frames)]
  BY DEF CheckIncomingCanFrame, ReceiveRtr, ReceiveEmpty, ReceiveData, Receiving, TypeOK
<1>2. Rest(k) \in [Node -> Seq(Frames)]
  BY <1>1, RestType
<1>6. \A i, j \in Node :
        /\ Asked(inbox[i], j) =>
             Asked(Rest(k)[i], j) \/ (i = k /\ h.kind = "RTR" /\ h.src = j)
        /\ Told(inbox[i], canid[j]) =>
             Told(Rest(k)[i], canid[j]) \/ (i = k /\ h.kind = "EMPTY" /\ h.id = canid[j])
  <2> TAKE i, j \in Node
  <2> DEFINE id == canid[j]
  <2> HIDE DEF id
  <2>1. /\ Asked(inbox[i], j) =>
             Asked(Rest(k)[i], j) \/ (i = k /\ h.kind = "RTR" /\ h.src = j)
        /\ Told(inbox[i], id) =>
             Told(Rest(k)[i], id) \/ (i = k /\ h.kind = "EMPTY" /\ h.id = id)
    BY <1>1, RestKeeps
  <2> QED
    BY <2>1, Zenon DEF id
<1>3. CASE ReceiveRtr(k)
  <2> DEFINE f == Frame("EMPTY", k)
  <2>1. /\ f \in Frames /\ f.kind = "EMPTY" /\ f.id = canid[k]
        /\ h.kind = "RTR" /\ UNCHANGED <<enumeration, disturbed>>
    BY <1>3, FrameType DEF ReceiveRtr, Receiving, TypeOK
  <2>2. inbox' = Sent(Rest(k), k, <<f>>)
    BY <1>3 DEF ReceiveRtr
  <2> HIDE DEF f, h
  <2> SUFFICES ASSUME NEW n \in Node, bCANenum[n], n \notin disturbed,
                      NEW m \in Node \ {n}
               PROVE  Settled(n, m)'
    BY <2>1 DEF LoneInv, enumeration
  <2>3. Settled(n, m)
    BY DEF LoneInv
  <2>4. /\ Asked(Rest(k)[m], n) => Asked(inbox'[m], n)
        /\ Told(Rest(k)[n], canid[m]) => Told(inbox'[n], canid[m])
    BY <1>2, <2>1, <2>2, SentKeeps
  <2>5. Told(inbox[n], canid[m]) => Told(inbox'[n], canid[m])
    BY <1>6, <2>1, <2>4
  <2>6. CASE Asked(inbox[m], n)
    <3>1. CASE Asked(Rest(k)[m], n)
      BY <2>4, <3>1 DEF Settled
    <3>2. CASE m = k /\ h.src = n
      <4>1. n \in Node \ {k}
        BY <3>2
      <4>2. Sent(Rest(k), k, <<f>>)[n] = Rest(k)[n] \o <<f>>
        BY <4>1, Zenon DEF Sent
      <4>3. Rest(k)[n] \in Seq(Frames) /\ f.id = canid[m]
        BY <1>2, <2>1, <3>2
      <4>4. Told(Rest(k)[n] \o <<f>>, canid[m])
        BY <2>1, <4>3, AppendedKeeps, Zenon
      <4>5. Told(inbox'[n], canid[m])
        BY <2>2, <4>2, <4>4, Zenon
      <4> QED
        BY <1>1, <4>5 DEF Settled
    <3> QED
      BY <1>6, <2>6, <3>1, <3>2
  <2>7. CASE ~Asked(inbox[m], n)
    BY <1>1, <2>1, <2>3, <2>5, <2>7 DEF Settled, enumeration
  <2> QED
    BY <2>6, <2>7
<1>4. CASE ReceiveEmpty(k)
  <2>1. /\ h.kind = "EMPTY" /\ inbox' = Rest(k) /\ UNCHANGED <<bCANenum, disturbed>>
        /\ responses' = IF Answering(k, h.id)
                        THEN [responses EXCEPT ![k] = responses[k] \cup {h.id}]
                        ELSE responses
    BY <1>4 DEF ReceiveEmpty, TakeAnswer, Receiving
  <2>2. h \in Frames
    BY <1>1, RestType
  <2> HIDE DEF h
  <2> SUFFICES ASSUME NEW n \in Node, bCANenum[n], n \notin disturbed,
                      NEW m \in Node \ {n}
               PROVE  Settled(n, m)'
    BY <2>1 DEF LoneInv
  <2>3. Settled(n, m)
    BY DEF LoneInv
  <2>4. \A i \in Node : responses[i] \subseteq responses'[i]
    BY <2>1 DEF TypeOK
  <2>5. CASE Asked(inbox[m], n)
    BY <1>6, <2>1, <2>5 DEF Settled
  <2>6. CASE Told(inbox[n], canid[m])
    <3>1. CASE Told(Rest(k)[n], canid[m])
      BY <1>1, <2>1, <3>1 DEF Settled
    <3>2. CASE n = k /\ h.id = canid[m]
      <4>1. CASE canid[m] = 0
        BY <1>1, <4>1 DEF Settled
      <4>2. CASE canid[m] # 0
        <5>1. canid[m] > 0
          BY <4>2, EnumerationAssumption DEF TypeOK, Id
        <5>2. Answering(k, h.id)
          BY <3>2, <5>1 DEF Answering
        <5>3. canid[m] \in responses'[n]
          BY <2>1, <3>2, <5>2 DEF TypeOK
        <5> QED
          BY <1>1, <5>3 DEF Settled
      <4> QED
        BY <4>1, <4>2
    <3> QED
      BY <1>6, <2>6, <3>1, <3>2
  <2>7. CASE canid[m] = 0 \/ canid[m] \in responses[n]
    BY <1>1, <2>4, <2>7 DEF Settled
  <2> QED
    BY <2>3, <2>5, <2>6, <2>7 DEF Settled
<1>5. CASE ReceiveData(k)
  <2>1. h.kind = "DATA"
    BY <1>5 DEF ReceiveData, Receiving
  <2> HIDE DEF h
  <2>2. \A n \in Node : \A m \in Node \ {n} :
          /\ Asked(inbox[m], n) => Asked(Rest(k)[m], n)
          /\ Told(inbox[n], canid[m]) => Told(Rest(k)[n], canid[m])
    BY <1>6, <2>1
  <2>3. CASE Start(k, FALSE, Rest(k))
    BY <1>1, <1>2, <2>2, <2>3, StartLone
  <2>4. CASE inbox' = Rest(k) /\ UNCHANGED <<enumeration, owed, disturbed>>
    BY <1>1, <2>2, <2>4 DEF LoneInv, Settled, enumeration
  <2> QED
    BY <1>5, <2>3, <2>4 DEF ReceiveData, h
<1> QED
  BY <1>3, <1>4, <1>5 DEF CheckIncomingCanFrame

(* A node that takes an id or restarts disturbs the enumerations of all    *)
(* others and ends its own.                                                *)
LEMMA EndLone ==
  ASSUME TypeOK, LoneInv, NEW k \in Node, Finish(k) \/ Restart(k)
  PROVE  LoneInv'
<1>1. /\ bCANenum' = [bCANenum EXCEPT ![k] = FALSE]
      /\ disturbed' = (disturbed \ {k}) \cup OthersEnumerating(k)
  BY DEF Finish, Restart
<1>2. \A n \in Node : bCANenum'[n] => n # k /\ bCANenum[n]
  BY <1>1, Zenon DEF TypeOK
<1>3. \A n \in Node : bCANenum'[n] => n \in disturbed'
  BY <1>1, <1>2 DEF OthersEnumerating
<1> QED
  BY <1>3 DEF LoneInv

LEMMA LoneInit == Init => LoneInv
BY DEF Init, LoneInv

LEMMA LoneNext == TypeOK /\ LoneInv /\ [Next]_vars => LoneInv'
<1> SUFFICES ASSUME TypeOK, LoneInv, [Next]_vars PROVE LoneInv'
  OBVIOUS
<1>1. ASSUME NEW n \in Node, Process(n) \/ Restart(n)
      PROVE  LoneInv'
  BY <1>1, ActionsLone, FramesLone, EndLone DEF Process
<1>2. ASSUME NEW n \in Node, Request(n)
      PROVE  LoneInv'
  BY <1>2 DEF Request, LoneInv, Settled, enumeration
<1>3. CASE UNCHANGED vars
  BY <1>3 DEF vars, enumeration, history, LoneInv, Settled
<1> QED
  BY <1>1, <1>2, <1>3 DEF Next

(* A node that has answered has no id or is among the responses, and the   *)
(* id that is taken is free.                                               *)
LEMMA FinishIsUnique ==
  ASSUME TypeOK, LoneInv, NEW n \in Node, Finish(n),
         n \notin disturbed, FreeIds(n) # {}, NEW m \in Node \ {n}
  PROVE  canid'[m] = canid'[n] => AnswerIsLate(n, m)
<1> SUFFICES ASSUME ~AnswerIsLate(n, m) PROVE canid'[m] # canid'[n]
  OBVIOUS
<1>1. /\ bCANenum[n]
      /\ canid' = [canid EXCEPT ![n] = FindFreeCanId(n)]
  BY DEF Finish
<1>2. canid'[m] = canid[m] /\ canid'[n] = FindFreeCanId(n)
  BY <1>1 DEF TypeOK
<1>3. Settled(n, m)
  BY <1>1 DEF LoneInv
<1>4. ~Asked(inbox[m], n) /\ ~Told(inbox[n], canid[m])
  <2>1. DOMAIN inbox[m] = 1 .. Len(inbox[m]) /\ DOMAIN inbox[n] = 1 .. Len(inbox[n])
    BY LenProperties DEF TypeOK
  <2> QED
    BY <1>1, <2>1 DEF AnswerIsLate, Asked, Told
<1>5. canid[m] = 0 \/ canid[m] \in responses[n]
  BY <1>3, <1>4 DEF Settled
<1>6. FindFreeCanId(n) \in 1 .. MaxId /\ FindFreeCanId(n) \notin responses[n]
  BY FindFreeCanIdIsFree DEF FreeIds
<1> QED
  BY <1>2, <1>5, <1>6, EnumerationAssumption

(* Only checkCANenumTimout() and a restart end an enumeration.             *)
LEMMA EndsByFinish ==
  ASSUME TypeOK, [Next]_vars, NEW n \in Node,
         bCANenum[n], ~bCANenum'[n], restarts' = restarts
  PROVE  Finish(n)
<1>1. Next
  BY DEF vars, enumeration
<1>2. PICK k \in Node : Process(k) \/ Request(k) \/ Restart(k)
  BY <1>1 DEF Next
<1>3. CASE ProcessAction(k) \/ CheckIncomingCanFrame(k)
  <2>1. \A fromENUM, box : Start(k, fromENUM, box) => bCANenum'[n]
    <3> SUFFICES ASSUME NEW fromENUM, NEW box, Start(k, fromENUM, box)
                 PROVE  bCANenum'[n]
      OBVIOUS
    <3>1. CASE Begin(k, fromENUM, box)
      BY <3>1, Zenon DEF Begin, TypeOK
    <3>2. CASE UNCHANGED bCANenum
      BY <3>2
    <3> QED
      BY <3>1, <3>2 DEF Start, enumeration
  <2>2. UNCHANGED bCANenum \/ \E fromENUM, box : Start(k, fromENUM, box)
    BY <1>3, Zenon
       DEF ProcessAction, ActStart, ActEnum, ActCanid, ActSend, ActNnack, Sends,
           CheckIncomingCanFrame, ReceiveRtr, ReceiveEmpty, TakeAnswer, ReceiveData,
           enumeration
  <2> QED
    BY <2>1, <2>2
<1>4. CASE Finish(k)
  <2>1. k = n
    BY <1>4, Zenon DEF Finish, TypeOK
  <2> QED
    BY <1>4, <2>1
<1>5. CASE Request(k)
  BY <1>5 DEF Request, enumeration
<1>6. CASE Restart(k)
  BY <1>6 DEF Restart, TypeOK
<1> QED
  BY <1>2, <1>3, <1>4, <1>5, <1>6 DEF Process

(* An enumeration that has the bus to itself ends with an id that no other *)
(* node has whose answer came within the 100 ms (CanService.cpp:241-311),  *)
(* for every number of nodes and ids, and whenever the 100 ms are over.    *)
THEOREM LoneIsUnique == Spec => LoneEnumerationIsUnique
<1> DEFINE Unique ==
      \A n \in Node :
        /\ bCANenum[n] /\ ~bCANenum'[n] /\ restarts' = restarts
        /\ n \notin disturbed /\ FreeIds(n) # {}
        => \A m \in Node \ {n} : canid'[m] = canid'[n] => AnswerIsLate(n, m)
<1>1. TypeOK /\ LoneInv /\ [Next]_vars => [Unique]_vars
  BY EndsByFinish, FinishIsUnique
<1>2. Spec => [](TypeOK /\ LoneInv)
  BY TypeCorrect, LoneInit, LoneNext, PTL DEF Spec
<1>3. [][Unique]_vars <=> LoneEnumerationIsUnique
  BY DEF LoneEnumerationIsUnique
<1> HIDE DEF Unique
<1> QED
  BY <1>1, <1>2, <1>3, PTL DEF Spec
=============================================================================
