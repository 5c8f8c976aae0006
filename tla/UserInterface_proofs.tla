------------------------ MODULE UserInterface_proofs ------------------------
(***************************************************************************)
(* Proofs about UserInterface, for every range of the clock, every length  *)
(* of presses, pulses and passes that UserInterfaceAssumption allows, and  *)
(* any backlog of actions.                                                 *)
(***************************************************************************)
EXTENDS UserInterface, SequenceTheorems, TLAPS

-----------------------------------------------------------------------------
(* Arithmetic of a clock that wraps.                                       *)

LEMMA MaxOfTwo ==
  ASSUME NEW x \in Int, NEW y \in Int
  PROVE  Max({x, y}) = IF x >= y THEN x ELSE y
<1>. DEFINE m == CHOOSE z \in {x, y} : \A w \in {x, y} : z >= w
<1>1. \E z \in {x, y} : \A w \in {x, y} : z >= w
  BY SMT
<1>2. m \in {x, y} /\ \A w \in {x, y} : m >= w
  BY <1>1, Zenon
<1>. HIDE DEF m
<1>3. m = IF x >= y THEN x ELSE y
  BY <1>2, SMT
<1>. QED BY <1>3 DEF Max, m

LEMMA Clock ==
  /\ ClockRange \in Nat /\ ClockRange > 0 /\ Time = 0 .. ClockRange - 1
  /\ 0 \in Time
BY UserInterfaceAssumption, SMT DEF Time

LEMMA Modulo ==
  ASSUME NEW x \in Int, - ClockRange <= x, x <= ClockRange
  PROVE  x % ClockRange = IF x < 0 THEN x + ClockRange
                          ELSE IF x < ClockRange THEN x ELSE 0
<1>. DEFINE n == ClockRange
            q == x \div n
            r == x % n
<1>1. n \in Nat /\ n > 0
  BY Clock
<1>2. x = q * n + r /\ q \in Int /\ r \in 0 .. n - 1
  BY <1>1, SMT
<1>. HIDE DEF n, q, r
<1>3. q <= 1
  <2>1. SUFFICES ASSUME q >= 2 PROVE FALSE
    BY <1>2, SMT
  <2>2. PICK d \in Nat : q = 2 + d
    BY <1>2, <2>1, SMT
  <2>3. q * n = 2 * n + d * n /\ d * n >= 0
    BY <1>1, <2>2, SMT
  <2>. QED BY <1>1, <1>2, <2>3, SMT DEF n
<1>4. q >= -1
  <2>1. SUFFICES ASSUME q <= -2 PROVE FALSE
    BY <1>2, SMT
  <2>2. PICK d \in Nat : q = -2 - d
    BY <1>2, <2>1, SMT
  <2>3. q * n = -2 * n - d * n /\ d * n >= 0
    BY <1>1, <2>2, SMT
  <2>. QED BY <1>1, <1>2, <2>3, SMT DEF n
<1>5. r = IF x < 0 THEN x + n ELSE IF x < n THEN x ELSE 0
  <2>1. CASE q = -1
    BY <1>1, <1>2, <2>1, SMT DEF n
  <2>2. CASE q = 0
    BY <1>1, <1>2, <2>2, SMT DEF n
  <2>3. CASE q = 1
    BY <1>1, <1>2, <2>3, SMT DEF n
  <2>. QED BY <1>2, <1>3, <1>4, <2>1, <2>2, <2>3, SMT
<1>. QED BY <1>5 DEF n, r

(* What has elapsed since a time, and how it grows.                        *)
LEMMA ElapsedIs ==
  ASSUME clock \in Time, NEW t \in Time
  PROVE  /\ Elapsed(t) = IF clock >= t THEN clock - t ELSE clock - t + ClockRange
         /\ Elapsed(t) \in Time
BY Clock, Modulo, SMT DEF Elapsed

LEMMA NothingElapsed ==
  ASSUME clock \in Time
  PROVE  Elapsed(clock) = 0
BY ElapsedIs, Clock, SMT

LEMMA ElapsedGrows ==
  ASSUME clock \in Time, NEW t \in Time, clock' = (clock + 1) % ClockRange
  PROVE  /\ clock' \in Time
         /\ Elapsed(t)' = IF Elapsed(t) + 1 = ClockRange THEN 0 ELSE Elapsed(t) + 1
<1>1. clock' = IF clock + 1 = ClockRange THEN 0 ELSE clock + 1
  BY Clock, Modulo, SMT
<1>2. clock' \in Time
  BY <1>1, Clock, SMT
<1>3. Elapsed(t)' = IF clock' >= t THEN clock' - t ELSE clock' - t + ClockRange
  BY <1>2, Clock, Modulo, SMT DEF Elapsed
<1>4. Elapsed(t) = IF clock >= t THEN clock - t ELSE clock - t + ClockRange
  BY ElapsedIs
<1>. QED BY <1>1, <1>2, <1>3, <1>4, Clock, SMT

-----------------------------------------------------------------------------
(* The queue: what is on it, and what a handler adds to it.                *)

LEMMA Kinds ==
  /\ Quiet \subseteq Action
  /\ \A m \in Modes : Indicate(m) \in Action /\ Indicate(m).type = "INDICATE_MODE"
                      /\ Indicate(m).mode = m
  /\ \A a \in Quiet : a.type # "INDICATE_MODE"
  /\ \A a \in Action : a.type = "INDICATE_MODE" => \E m \in Modes : a = Indicate(m)
  /\ \A a \in Action : a.type = "CHANGE_MODE" <=> a = ChangeMode
<1>1. Quiet \subseteq Action
  BY DEF Action
<1>2. \A m \in Modes : Indicate(m) \in Action /\ Indicate(m).type = "INDICATE_MODE"
                       /\ Indicate(m).mode = m
  BY DEF Action, Indicate
<1>3. ASSUME NEW a \in Quiet
      PROVE  a.type # "INDICATE_MODE" /\ (a.type = "CHANGE_MODE" <=> a = ChangeMode)
  BY DEF Quiet, Act, ChangeMode, Renegotiate, Enumerate, Activity, Work, MessageIn, MessageOut
<1>4. ASSUME NEW a \in Action
      PROVE  a \in Quiet \/ \E m \in Modes : a = Indicate(m)
  BY DEF Action
<1>5. ChangeMode.type = "CHANGE_MODE"
  BY DEF ChangeMode, Act
<1>. QED BY <1>1, <1>2, <1>3, <1>4, <1>5

LEMMA QuietActions ==
  /\ {ChangeMode, Renegotiate, Enumerate, Activity, Work, MessageIn, MessageOut} = Quiet
  /\ Seq(Quiet) \subseteq Seq(Action)
<1>1. Seq(Quiet) \subseteq Seq(Action)
  BY Kinds, SeqMonotonic
<1>. QED BY <1>1 DEF Quiet

(* No action of a type is on the queue.                                    *)
Lacks(q, type) == \A k \in 1 .. Len(q) : q[k].type # type

(* If the LEDs are told of a mode, the last they are told of is m.         *)
LastSaid(q, m) ==
  \A k \in 1 .. Len(q) :
    q[k].type = "INDICATE_MODE"
      /\ (\A j \in k + 1 .. Len(q) : q[j].type # "INDICATE_MODE")
    => q[k].mode = m

(* What a handler says when the mode changes: once, which it is now.       *)
Announces(s, m) ==
  /\ s \in Seq(Action)
  /\ \E k \in 1 .. Len(s) :
       s[k] = Indicate(m) /\ \A j \in 1 .. Len(s) : j # k => s[j] \in Quiet

LEMMA LacksNot ==
  ASSUME queue \in Seq(Action), NEW y
  PROVE  ~Queued(y) <=> Lacks(queue, y)
BY LenProperties DEF Queued, Lacks

LEMMA TailLacks ==
  ASSUME NEW q \in Seq(Action), q # <<>>, NEW y
  PROVE  Lacks(q, y) <=> Head(q).type # y /\ Lacks(Tail(q), y)
<1>1. /\ Len(q) \in Nat \ {0} /\ Len(Tail(q)) = Len(q) - 1 /\ Head(q) = q[1]
      /\ \A i \in 1 .. Len(Tail(q)) : Tail(q)[i] = q[i + 1]
  BY HeadTailProperties, EmptySeq
<1>2. ASSUME NEW k \in 1 .. Len(q), Head(q).type # y, Lacks(Tail(q), y)
      PROVE  q[k].type # y
  <2>1. CASE k = 1
    BY <1>1, <1>2, <2>1
  <2>2. CASE k # 1
    <3>. DEFINE j == k - 1
    <3>1. j \in 1 .. Len(Tail(q)) /\ j + 1 = k
      BY <1>1, <2>2, SMT
    <3>. HIDE DEF j
    <3>. QED BY <1>1, <1>2, <3>1 DEF Lacks
  <2>. QED BY <2>1, <2>2
<1>3. ASSUME NEW k \in 1 .. Len(Tail(q)), Lacks(q, y)
      PROVE  Tail(q)[k].type # y
  <2>1. k + 1 \in 1 .. Len(q)
    BY <1>1, SMT
  <2>. QED BY <1>1, <1>3, <2>1 DEF Lacks
<1>4. Lacks(q, y) => Head(q).type # y
  <2>1. 1 \in 1 .. Len(q)
    BY <1>1, SMT
  <2>. QED BY <1>1, <2>1 DEF Lacks
<1>. QED BY <1>2, <1>3, <1>4 DEF Lacks

(* The elements of two sequences that are put together.                    *)
LEMMA Joined ==
  ASSUME NEW s \in Seq(Action), NEW t \in Seq(Action)
  PROVE  /\ s \o t \in Seq(Action) /\ Len(s \o t) = Len(s) + Len(t)
         /\ Len(s) \in Nat /\ Len(t) \in Nat
         /\ \A i \in 1 .. Len(s) : i \in 1 .. Len(s \o t) /\ (s \o t)[i] = s[i]
         /\ \A i \in 1 .. Len(t) :
              Len(s) + i \in 1 .. Len(s \o t) /\ (s \o t)[Len(s) + i] = t[i]
         /\ \A k \in 1 .. Len(s \o t) :
              k \in 1 .. Len(s) \/ \E i \in 1 .. Len(t) : k = Len(s) + i
<1>. DEFINE r == s \o t
<1>1. /\ r \in Seq(Action) /\ Len(r) = Len(s) + Len(t)
      /\ \A i \in 1 .. Len(s) + Len(t) : r[i] = IF i <= Len(s) THEN s[i] ELSE t[i - Len(s)]
  BY ConcatProperties
<1>2. Len(s) \in Nat /\ Len(t) \in Nat
  BY LenProperties
<1>. HIDE DEF r
<1>3. \A i \in 1 .. Len(s) : i \in 1 .. Len(r) /\ r[i] = s[i]
  BY <1>1, <1>2, SMT
<1>4. ASSUME NEW i \in 1 .. Len(t)
      PROVE  Len(s) + i \in 1 .. Len(r) /\ r[Len(s) + i] = t[i]
  <2>. DEFINE k == Len(s) + i
  <2>1. k \in 1 .. Len(s) + Len(t) /\ k \in 1 .. Len(r) /\ ~(k <= Len(s)) /\ k - Len(s) = i
    BY <1>1, <1>2, SMT
  <2>. HIDE DEF k
  <2>2. r[k] = t[k - Len(s)]
    BY <1>1, <2>1
  <2>. QED BY <2>1, <2>2 DEF k
<1>5. ASSUME NEW k \in 1 .. Len(r), k \notin 1 .. Len(s)
      PROVE  \E i \in 1 .. Len(t) : k = Len(s) + i
  <2>1. k - Len(s) \in 1 .. Len(t) /\ k = Len(s) + (k - Len(s))
    BY <1>1, <1>2, <1>5, SMT
  <2>. QED BY <2>1
<1>. QED BY <1>1, <1>2, <1>3, <1>4, <1>5 DEF r

LEMMA JoinedLacks ==
  ASSUME NEW s \in Seq(Action), NEW t \in Seq(Action), NEW y
  PROVE  Lacks(s \o t, y) <=> Lacks(s, y) /\ Lacks(t, y)
<1>. DEFINE r == s \o t
<1>1. /\ \A i \in 1 .. Len(s) : i \in 1 .. Len(r) /\ r[i] = s[i]
      /\ \A i \in 1 .. Len(t) : Len(s) + i \in 1 .. Len(r) /\ r[Len(s) + i] = t[i]
      /\ \A k \in 1 .. Len(r) : k \in 1 .. Len(s) \/ \E i \in 1 .. Len(t) : k = Len(s) + i
  BY Joined
<1>. HIDE DEF r
<1>2. ASSUME Lacks(r, y) PROVE Lacks(s, y) /\ Lacks(t, y)
  <2>1. ASSUME NEW i \in 1 .. Len(s) PROVE s[i].type # y
    BY <1>1, <1>2 DEF Lacks
  <2>2. ASSUME NEW i \in 1 .. Len(t) PROVE t[i].type # y
    BY <1>1, <1>2 DEF Lacks
  <2>. QED BY <2>1, <2>2 DEF Lacks
<1>3. ASSUME Lacks(s, y), Lacks(t, y), NEW k \in 1 .. Len(r) PROVE r[k].type # y
  <2>1. CASE k \in 1 .. Len(s)
    BY <1>1, <1>3, <2>1, Zenon DEF Lacks
  <2>2. ASSUME NEW i \in 1 .. Len(t), k = Len(s) + i PROVE r[k].type # y
    <3>1. r[k] = t[i]
      BY <1>1, <2>2, Zenon
    <3>. QED BY <1>3, <3>1, Zenon DEF Lacks
  <2>. QED BY <1>1, <2>1, <2>2, Zenon
<1>4. Lacks(s, y) /\ Lacks(t, y) => Lacks(r, y)
  BY <1>3 DEF Lacks
<1>. QED BY <1>2, <1>4 DEF r

LEMMA QuietLacks ==
  ASSUME NEW s \in Seq(Quiet)
  PROVE  Lacks(s, "INDICATE_MODE")
BY ElementOfSeq, Kinds DEF Lacks

LEMMA TailSaid ==
  ASSUME NEW q \in Seq(Action), q # <<>>, NEW m, LastSaid(q, m)
  PROVE  LastSaid(Tail(q), m)
<1>. DEFINE t == Tail(q)
<1>1. /\ Len(q) \in Nat \ {0} /\ Len(t) = Len(q) - 1
      /\ \A i \in 1 .. Len(t) : t[i] = q[i + 1]
  BY HeadTailProperties, EmptySeq
<1>. HIDE DEF t
<1>2. ASSUME NEW k \in 1 .. Len(t), t[k].type = "INDICATE_MODE",
             \A j \in k + 1 .. Len(t) : t[j].type # "INDICATE_MODE"
      PROVE  t[k].mode = m
  <2>. DEFINE n == k + 1
  <2>1. n \in 1 .. Len(q) /\ t[k] = q[n]
    BY <1>1, SMT
  <2>2. ASSUME NEW j \in n + 1 .. Len(q) PROVE q[j].type # "INDICATE_MODE"
    <3>. DEFINE i == j - 1
    <3>1. i \in k + 1 .. Len(t) /\ i \in 1 .. Len(t) /\ i + 1 = j
      BY <1>1, SMT
    <3>. HIDE DEF i
    <3>. QED BY <1>1, <1>2, <3>1
  <2>. HIDE DEF n
  <2>. QED BY <1>2, <2>1, <2>2, Zenon DEF LastSaid
<1>3. LastSaid(t, m)
  BY <1>2, Zenon DEF LastSaid
<1>. QED BY <1>3 DEF t

LEMMA QuietSaid ==
  ASSUME NEW q \in Seq(Action), NEW s \in Seq(Quiet), NEW m, LastSaid(q, m)
  PROVE  LastSaid(q \o s, m)
<1>. DEFINE r == q \o s
<1>1. /\ Len(r) = Len(q) + Len(s) /\ Len(q) \in Nat /\ Len(s) \in Nat
      /\ \A i \in 1 .. Len(q) : i \in 1 .. Len(r) /\ r[i] = q[i]
      /\ \A i \in 1 .. Len(s) : Len(q) + i \in 1 .. Len(r) /\ r[Len(q) + i] = s[i]
      /\ \A k \in 1 .. Len(r) : k \in 1 .. Len(q) \/ \E i \in 1 .. Len(s) : k = Len(q) + i
  BY Joined, QuietActions
<1>. HIDE DEF r
<1>2. \A i \in 1 .. Len(s) : s[i].type # "INDICATE_MODE"
  BY QuietLacks DEF Lacks
<1>3. ASSUME NEW k \in 1 .. Len(r), r[k].type = "INDICATE_MODE",
             \A j \in k + 1 .. Len(r) : r[j].type # "INDICATE_MODE"
      PROVE  r[k].mode = m
  <2>1. k \in 1 .. Len(q) /\ r[k] = q[k]
    <3>1. ASSUME NEW i \in 1 .. Len(s), k = Len(q) + i PROVE FALSE
      <4>1. r[k] = s[i]
        BY <1>1, <3>1, Zenon
      <4>. QED BY <1>2, <1>3, <4>1, Zenon
    <3>2. k \in 1 .. Len(q)
      BY <1>1, <3>1, Zenon
    <3>. QED BY <1>1, <3>2, Zenon
  <2>2. ASSUME NEW j \in k + 1 .. Len(q) PROVE q[j].type # "INDICATE_MODE"
    <3>1. j \in 1 .. Len(q) /\ j \in k + 1 .. Len(r)
      BY <1>1, <2>1, SMT
    <3>. QED BY <1>1, <1>3, <3>1, Zenon
  <2>. QED BY <1>3, <2>1, <2>2, Zenon DEF LastSaid
<1>4. LastSaid(r, m)
  BY <1>3, Zenon DEF LastSaid
<1>. QED BY <1>4 DEF r

LEMMA AnnouncementSaid ==
  ASSUME NEW q \in Seq(Action), NEW s, NEW m \in Modes, Announces(s, m)
  PROVE  /\ q \o s \in Seq(Action)
         /\ LastSaid(q \o s, m) /\ ~Lacks(q \o s, "INDICATE_MODE")
<1>. DEFINE r == q \o s
<1>1. /\ r \in Seq(Action) /\ Len(r) = Len(q) + Len(s) /\ Len(q) \in Nat /\ Len(s) \in Nat
      /\ \A i \in 1 .. Len(q) : i \in 1 .. Len(r) /\ r[i] = q[i]
      /\ \A i \in 1 .. Len(s) : Len(q) + i \in 1 .. Len(r) /\ r[Len(q) + i] = s[i]
      /\ \A k \in 1 .. Len(r) : k \in 1 .. Len(q) \/ \E i \in 1 .. Len(s) : k = Len(q) + i
  BY Joined DEF Announces
<1>. HIDE DEF r
<1>2. PICK n \in 1 .. Len(s) : s[n] = Indicate(m) /\ \A j \in 1 .. Len(s) : j # n => s[j] \in Quiet
  BY DEF Announces
<1>3. /\ Len(q) + n \in 1 .. Len(r) /\ r[Len(q) + n] = Indicate(m)
      /\ Indicate(m).type = "INDICATE_MODE" /\ Indicate(m).mode = m
  BY <1>1, <1>2, Kinds
<1>4. ~Lacks(r, "INDICATE_MODE")
  BY <1>3, Zenon DEF Lacks
<1>5. ASSUME NEW k \in 1 .. Len(r), r[k].type = "INDICATE_MODE",
             \A j \in k + 1 .. Len(r) : r[j].type # "INDICATE_MODE"
      PROVE  r[k].mode = m
  <2>1. k \notin 1 .. Len(q)
    <3>1. Len(r) = Len(q) + Len(s) /\ Len(q) \in Nat /\ Len(s) \in Nat
      BY <1>1
    <3>2. ASSUME k \in 1 .. Len(q) PROVE Len(q) + n \in k + 1 .. Len(r)
      BY <3>1, <3>2, SMT
    <3>. QED BY <1>3, <1>5, <3>2, Zenon
  <2>2. PICK i \in 1 .. Len(s) : k = Len(q) + i
    BY <1>1, <2>1, Zenon
  <2>3. r[k] = s[i]
    BY <1>1, <2>2, Zenon
  <2>4. i = n
    BY <1>2, <1>5, <2>3, Kinds, Zenon
  <2>. QED BY <1>2, <1>3, <2>3, <2>4, Zenon
<1>6. LastSaid(r, m)
  BY <1>5, Zenon DEF LastSaid
<1>. QED BY <1>1, <1>4, <1>6 DEF r

LEMMA Announcements ==
  ASSUME NEW s, NEW m \in Modes, Announces(s, m), NEW t \in Seq(Quiet)
  PROVE  Announces(s \o t, m) /\ Announces(t \o s, m)
<1>1. s \in Seq(Action) /\ t \in Seq(Action) /\ \A i \in 1 .. Len(t) : t[i] \in Quiet
  BY QuietActions, ElementOfSeq DEF Announces
<1>2. PICK n \in 1 .. Len(s) : s[n] = Indicate(m) /\ \A j \in 1 .. Len(s) : j # n => s[j] \in Quiet
  BY DEF Announces
<1>3. Announces(s \o t, m)
  <2>. DEFINE r == s \o t
  <2>1. /\ r \in Seq(Action)
        /\ \A i \in 1 .. Len(s) : i \in 1 .. Len(r) /\ r[i] = s[i]
        /\ \A i \in 1 .. Len(t) : Len(s) + i \in 1 .. Len(r) /\ r[Len(s) + i] = t[i]
        /\ \A k \in 1 .. Len(r) : k \in 1 .. Len(s) \/ \E i \in 1 .. Len(t) : k = Len(s) + i
    BY <1>1, Joined
  <2>. HIDE DEF r
  <2>2. \A j \in 1 .. Len(r) : j # n => r[j] \in Quiet
    BY <1>1, <1>2, <2>1, Zenon
  <2>3. Announces(r, m)
    BY <1>2, <2>1, <2>2, Zenon DEF Announces
  <2>. QED BY <2>3 DEF r
<1>4. Announces(t \o s, m)
  <2>. DEFINE r == t \o s
              k == Len(t) + n
  <2>1. /\ r \in Seq(Action)
        /\ \A i \in 1 .. Len(t) : i \in 1 .. Len(r) /\ r[i] = t[i]
        /\ \A i \in 1 .. Len(s) : Len(t) + i \in 1 .. Len(r) /\ r[Len(t) + i] = s[i]
        /\ \A j \in 1 .. Len(r) : j \in 1 .. Len(t) \/ \E i \in 1 .. Len(s) : j = Len(t) + i
    BY <1>1, Joined
  <2>. HIDE DEF r
  <2>2. k \in 1 .. Len(r) /\ r[k] = Indicate(m)
    BY <1>2, <2>1, Zenon
  <2>3. ASSUME NEW j \in 1 .. Len(r), j # k PROVE r[j] \in Quiet
    BY <1>1, <1>2, <2>1, <2>3, Zenon
  <2>. HIDE DEF k
  <2>4. Announces(r, m)
    BY <2>1, <2>2, <2>3, Zenon DEF Announces
  <2>. QED BY <2>4 DEF r
<1>. QED BY <1>3, <1>4

-----------------------------------------------------------------------------
(* What the first half of a pass does with the queue and the modes.        *)

(* The Minimum Node Service and the CAN service leave the modes alone, or  *)
(* change them and say which mode it is now.                               *)
Answers ==
  \/ queue # <<>> /\ SameModes /\ Head(queue) \in Quiet \ {ChangeMode}
     /\ \E s \in Seq(Quiet) : Answer(s)
  \/ /\ queue # <<>>
     /\ instantMode' \in Modes /\ currentMode' \in {UNINITIALISED, NORMAL}
     /\ instantMode' \in {currentMode', SETUP}
     /\ \E s : Announces(s, instantMode') /\ Answer(s)

LEMMA Tuple ==
  ASSUME NEW a, NEW b, NEW c
  PROVE  <<a>> \o <<b, c>> = <<a, b, c>>
<1>. DEFINE s == <<a>>
            t == <<b, c>>
            S == {a, b, c}
            r == s \o t
            u == <<a, b, c>>
<1>1. s \in Seq(S) /\ t \in Seq(S) /\ u \in Seq(S)
  OBVIOUS
<1>2. Len(s) = 1 /\ Len(t) = 2 /\ s[1] = a /\ t[1] = b /\ t[2] = c
  OBVIOUS
<1>3. Len(u) = 3 /\ u[1] = a /\ u[2] = b /\ u[3] = c
  OBVIOUS
<1>. HIDE DEF s, t, u, S
<1>4. /\ r \in Seq(S) /\ Len(r) = Len(s) + Len(t)
      /\ \A i \in 1 .. Len(s) + Len(t) : r[i] = IF i <= Len(s) THEN s[i] ELSE t[i - Len(s)]
  BY <1>1, ConcatProperties
<1>. HIDE DEF r
<1>5. Len(r) = 3 /\ r[1] = a /\ r[2] = b /\ r[3] = c
  BY <1>2, <1>4, SMT
<1>6. \A i \in 1 .. 3 : r[i] = u[i]
  BY <1>3, <1>5, SMT
<1>7. r = u
  BY <1>1, <1>3, <1>4, <1>5, <1>6, SeqEqual
<1>. QED BY <1>7 DEF r, s, t, u

LEMMA OneAnnouncement ==
  ASSUME NEW m \in Modes
  PROVE  Announces(<<Indicate(m)>>, m)
<1>1. <<Indicate(m)>> \in Seq(Action)
  BY Kinds
<1>2. Len(<<Indicate(m)>>) = 1 /\ <<Indicate(m)>>[1] = Indicate(m)
  OBVIOUS
<1>. QED BY <1>1, <1>2, SMT DEF Announces

LEMMA DispatchAnswers ==
  ASSUME TypeOK, instantMode \in {currentMode, SETUP},
         MnsChangeMode \/ MnsRenegotiate \/ MnsMessage \/ CanSend
  PROVE  Answers
<1>1. /\ {ChangeMode, Renegotiate, Enumerate, Activity, Work, MessageIn, MessageOut} = Quiet
      /\ \A a \in Quiet : <<a>> \in Seq(Quiet)
      /\ <<>> \in Seq(Quiet) /\ <<MessageOut, Work>> \in Seq(Quiet)
  <2>1. MessageOut \in Quiet /\ Work \in Quiet
    BY QuietActions
  <2>. QED BY <2>1, QuietActions
<1>2. /\ {UNINITIALISED, SETUP, NORMAL} = Modes
      /\ instantMode \in Modes /\ currentMode \in {UNINITIALISED, NORMAL}
  BY DEF TypeOK, Modes
<1>3. Renegotiate # ChangeMode /\ MessageIn # ChangeMode /\ MessageOut # ChangeMode
      /\ Enumerate # ChangeMode
  BY DEF Renegotiate, MessageIn, MessageOut, Enumerate, ChangeMode, Act
<1>4. ASSUME NEW b \in Seq(Quiet), NEW e \in Seq(Quiet), queue # <<>>, InitSetup(b, e)
      PROVE  Answers
  <2>. DEFINE one == <<Indicate(SETUP)>>
              both == <<Indicate(SETUP), MessageOut>>
  <2>1. Announces(one \o <<MessageOut>>, SETUP)
    BY <1>1, <1>2, OneAnnouncement, Announcements
  <2>2. both = one \o <<MessageOut>>
    OBVIOUS
  <2>3. Announces(both, SETUP)
    BY <2>1, <2>2, Zenon
  <2>. HIDE DEF both
  <2>4. Announces(b \o both, SETUP)
    BY <1>2, <2>3, Announcements
  <2>5. Announces(b \o both \o e, SETUP)
    BY <1>2, <2>4, Announcements
  <2>6. instantMode' = SETUP /\ currentMode' = currentMode /\ Answer(b \o both \o e)
    BY <1>4 DEF InitSetup, ToMode, both
  <2>. QED BY <1>2, <1>4, <2>5, <2>6 DEF Answers
<1>5. ASSUME NEW b \in Seq(Quiet), NEW e \in Seq(Quiet), queue # <<>>, SetUninitialised(b, e)
      PROVE  Answers
  <2>. DEFINE one == <<Indicate(UNINITIALISED)>>
  <2>1. PICK release \in Seq(Quiet) : Answer(b \o release \o one \o e)
    BY <1>1, <1>5 DEF SetUninitialised
  <2>2. Announces(one, UNINITIALISED)
    BY <1>2, OneAnnouncement
  <2>. HIDE DEF one
  <2>3. b \o release \in Seq(Quiet)
    BY <1>5, <2>1, ConcatProperties
  <2>4. Announces(b \o release \o one, UNINITIALISED)
    BY <1>2, <2>2, <2>3, Announcements
  <2>5. Announces(b \o release \o one \o e, UNINITIALISED)
    BY <1>2, <2>4, Announcements
  <2>6. instantMode' = UNINITIALISED /\ currentMode' = UNINITIALISED
    BY <1>5 DEF SetUninitialised, ToMode
  <2>. QED BY <1>2, <1>5, <2>1, <2>5, <2>6 DEF Answers
<1>6. ASSUME NEW e \in Seq(Quiet), queue # <<>>, LeaveSetup(e)
      PROVE  Answers
  <2>1. Announces(<<Indicate(currentMode)>> \o e, currentMode)
    BY <1>2, OneAnnouncement, Announcements
  <2>2. instantMode' = currentMode /\ currentMode' = currentMode
    BY <1>6 DEF LeaveSetup, ToMode
  <2>. QED BY <1>2, <1>6, <2>1, <2>2 DEF Answers, LeaveSetup
<1>7. CASE MnsChangeMode
  <2>1. queue # <<>> /\ <<Enumerate>> \in Seq(Quiet)
    BY <1>1, <1>7 DEF MnsChangeMode, Dispatching
  <2>. QED BY <1>1, <1>4, <1>5, <1>7, <2>1 DEF MnsChangeMode
<1>8. CASE MnsRenegotiate
  <2>1. /\ queue # <<>> /\ Head(queue) \in Quiet \ {ChangeMode}
        /\ <<MessageOut>> \in Seq(Quiet)
    BY <1>1, <1>3, <1>8 DEF MnsRenegotiate, Dispatching
  <2>2. CASE SameModes /\ Answer(<<>>)
    BY <1>1, <2>1, <2>2 DEF Answers
  <2>3. ASSUME NEW nnack \in {<<>>, <<MessageOut>>}, LeaveSetup(nnack) PROVE Answers
    BY <1>1, <1>6, <2>1, <2>3
  <2>. QED BY <1>1, <1>4, <1>8, <2>1, <2>2, <2>3 DEF MnsRenegotiate
<1>9. CASE MnsMessage
  <2>1. /\ queue # <<>> /\ Head(queue) \in Quiet \ {ChangeMode}
        /\ <<MessageOut>> \in Seq(Quiet) /\ <<Work>> \in Seq(Quiet)
    BY <1>1, <1>3, <1>9 DEF MnsMessage, Dispatching
  <2>2. ASSUME ToMode(NORMAL, NORMAL), Answer(<<Indicate(NORMAL), MessageOut, Work>>)
        PROVE  Answers
    <3>1. Announces(<<Indicate(NORMAL)>> \o <<MessageOut, Work>>, NORMAL)
      BY <1>1, <1>2, OneAnnouncement, Announcements
    <3>2. <<Indicate(NORMAL)>> \o <<MessageOut, Work>> = <<Indicate(NORMAL), MessageOut, Work>>
      BY Tuple
    <3>3. Announces(<<Indicate(NORMAL), MessageOut, Work>>, NORMAL)
      BY <3>1, <3>2, Zenon
    <3>4. instantMode' = NORMAL /\ currentMode' = NORMAL
      BY <2>2 DEF ToMode
    <3>. QED BY <1>2, <2>1, <2>2, <3>3, <3>4 DEF Answers
  <2>3. ASSUME NEW s \in PlainAnswers, SameModes, Answer(s)
        PROVE  Answers
    <3>. DEFINE Messages == {<<>>, <<MessageOut>>, <<MessageOut, MessageOut>>}
    <3>2. /\ \A m \in Messages : m \in Seq(Quiet)
          /\ <<Work>> \in Seq(Quiet)
      BY <1>1, <2>1
    <3>3. \A m \in Messages : m \o <<Work>> \in Seq(Quiet) /\ <<Work>> \o m \in Seq(Quiet)
      BY <3>2, ConcatProperties
    <3>1. s \in Seq(Quiet)
      BY <3>2, <3>3, Zenon DEF PlainAnswers
    <3>. QED BY <2>1, <2>3, <3>1 DEF Answers
  <2>4. ASSUME LeaveSetup(<<Work>>) PROVE Answers
    BY <1>6, <2>1, <2>4
  <2>5. ASSUME SetUninitialised(<<MessageOut>>, <<Work>>) PROVE Answers
    BY <1>5, <2>1, <2>5
  <2>6. ASSUME InitSetup(<<MessageOut>>, <<Work>>) PROVE Answers
    BY <1>4, <2>1, <2>6
  <2>. QED BY <1>9, <2>2, <2>3, <2>4, <2>5, <2>6 DEF MnsMessage
<1>10. CASE CanSend
  <2>1. /\ queue # <<>> /\ Head(queue) \in Quiet \ {ChangeMode} /\ SameModes
        /\ <<Activity>> \in Seq(Quiet) /\ \E s \in {<<>>, <<Activity>>} : Answer(s)
    BY <1>1, <1>3, <1>10 DEF CanSend, Dispatching
  <2>. QED BY <1>1, <2>1 DEF Answers
<1>. QED BY <1>7, <1>8, <1>9, <1>10

-----------------------------------------------------------------------------
(* Types.                                                                  *)

LEMMA LedTypes ==
  ASSUME TypeOK
  PROVE  /\ On \in Led /\ Off \in Led /\ Blinking \in Led
         /\ \A m \in Modes : ModeLeds(m) \in [Colour -> Led]
         /\ \A led \in Led : RunLed(led) \in Led
         /\ \A led \in Led, d \in {PulseActivity, PulseWork} : Pulse(led, d) \in Led
<1>1. On \in Led /\ Off \in Led
  BY Clock DEF On, Off, Steady, Led
<1>2. \A m \in {"Blinking_On", "Blinking_Off", "Pulsing"},
         i \in {BlinkRate, PulseActivity, PulseWork} : Timed(m, i) \in Led
  BY DEF Timed, Led, TypeOK
<1>3. Blinking \in Led
  BY <1>2 DEF Blinking
<1>4. ASSUME NEW m \in Modes PROVE ModeLeds(m) \in [Colour -> Led]
  <2>1. \A y \in Led, g \in Led : [yellow |-> y, green |-> g] \in [Colour -> Led]
    BY DEF Colour
  <2>. QED BY <1>1, <1>3, <2>1, UserInterfaceAssumption DEF ModeLeds, Modes
<1>5. ASSUME NEW led \in Led PROVE RunLed(led) \in Led
  BY <1>1, <1>2, <1>5 DEF RunLed
<1>6. ASSUME NEW led \in Led, NEW d \in {PulseActivity, PulseWork} PROVE Pulse(led, d) \in Led
  BY <1>2 DEF Pulse
<1>. QED BY <1>1, <1>3, <1>4, <1>5, <1>6

LEMMA RequestTypes ==
  ASSUME NEW t
  PROVE  Request(t) \in {"none", "CHANGE_MODE", "RENEGOTIATE", "START_CAN_ENUMERATION"}
BY DEF Request

LEMMA MaxType ==
  ASSUME NEW x \in Int, NEW y \in Int, x >= 0 \/ y >= 0
  PROVE  Max({x, y}) \in Nat
BY MaxOfTwo, SMT

LEMMA InitTypes == Init => TypeOK
<1>. SUFFICES ASSUME Init PROVE TypeOK
  OBVIOUS
<1>. USE DEF Init
<1>1. queue \in Seq(Action)
  BY Kinds DEF Modes
<1>2. leds \in [Colour -> Led]
  BY Clock DEF Off, Steady, Led
<1>3. sincePass \in 0 .. MaxPass /\ pressed \in 0 .. MaxPress /\ due \in [Colour -> Nat]
  BY UserInterfaceAssumption, SMT DEF NoPromise
<1>. QED BY <1>1, <1>2, <1>3, Clock DEF TypeOK, Modes

LEMMA DispatchTypes ==
  ASSUME TypeOK, instantMode \in {currentMode, SETUP}, Dispatch
  PROVE  TypeOK'
<1>. USE DEF TypeOK
<1>1. pc' \in {"dispatch", "process"} /\ UNCHANGED <<button, env>>
  BY DEF Dispatch
<1>2. \A s \in Seq(Action) : queue # <<>> => Tail(queue) \o s \in Seq(Action)
  BY HeadTailProperties, ConcatProperties
<1>3. CASE UNCHANGED display /\ (MnsChangeMode \/ MnsRenegotiate \/ MnsMessage \/ CanSend)
  <2>1. Answers
    BY <1>3, DispatchAnswers
  <2>2. queue' \in Seq(Action)
    BY <1>2, <2>1, QuietActions DEF Answers, Announces, Answer
  <2>3. instantMode' \in Modes /\ currentMode' \in {UNINITIALISED, NORMAL}
    BY <2>1 DEF Answers, SameModes, modes
  <2>. QED BY <1>1, <1>3, <2>2, <2>3 DEF display, button, env
<1>4. CASE UNCHANGED display /\ Idle
  BY <1>1, <1>4 DEF display, button, env, Idle, SameModes, modes
<1>5. CASE UiIndicateMode
  <2>1. queue # <<>> /\ Head(queue) \in Action /\ Head(queue).type = "INDICATE_MODE"
    BY <1>5, HeadTailProperties DEF UiIndicateMode
  <2>2. Head(queue).mode \in Modes
    BY <2>1, Kinds
  <2>3. leds' \in [Colour -> Led] /\ due' \in [Colour -> Nat] /\ wrapped' \subseteq Colour
    BY <1>5, <2>2, LedTypes DEF UiIndicateMode, Show, NoPromise
  <2>4. queue' \in Seq(Action) /\ UNCHANGED modes
    BY <1>2, <1>5, <2>1 DEF UiIndicateMode, Answer, SameModes
  <2>. QED BY <1>1, <2>3, <2>4 DEF modes, button, env
<1>6. CASE UiPulse
  <2>1. PICK d \in {PulseActivity, PulseWork} : PulseFor(d)
    BY <1>6 DEF UiPulse
  <2>2. Pulsed \in Colour
    BY DEF Pulsed, Colour
  <2>3. leds' \in [Colour -> Led]
    BY <2>1, <2>2, LedTypes DEF PulseFor
  <2>4. due' \in [Colour -> Nat]
    <3>1. d \in Nat /\ due[Pulsed] \in Nat
      BY <2>1, <2>2, UserInterfaceAssumption
    <3>2. Max({due[Pulsed], d}) \in Nat
      BY <3>1, MaxType, SMT
    <3>. QED BY <2>1, <3>2 DEF PulseFor
  <2>5. wrapped' \subseteq Colour
    BY <2>1, <2>2 DEF PulseFor
  <2>6. queue # <<>> /\ queue' = Tail(queue) \o <<>> /\ UNCHANGED modes
    BY <1>6, Zenon DEF UiPulse, Answer, SameModes, Dispatching
  <2>7. <<>> \in Seq(Action)
    OBVIOUS
  <2>8. queue' \in Seq(Action)
    BY <1>2, <2>6, <2>7, Zenon
  <2>. QED BY <1>1, <2>3, <2>4, <2>5, <2>6, <2>8 DEF modes, button, env
<1>. QED BY <1>3, <1>4, <1>5, <1>6 DEF Dispatch

LEMMA ProcessTypes ==
  ASSUME TypeOK, Process
  PROVE  TypeOK'
<1>. USE DEF TypeOK
<1>1. pc' \in {"dispatch", "process"} /\ UNCHANGED <<modes, clock>>
  BY DEF Process
<1>2. down' \in BOOLEAN /\ wasPressed' \in BOOLEAN /\ pressTime' \in Time
  BY Clock DEF Process, Sample
<1>3. leds' \in [Colour -> Led] /\ due' \in [Colour -> Nat] /\ wrapped' \subseteq Colour
  <2>1. CASE Show(SETUP)
    BY <2>1, LedTypes DEF Show, NoPromise, Modes
  <2>2. CASE leds' = [c \in Colour |-> RunLed(leds[c])] /\ UNCHANGED <<due, wrapped>>
    BY <2>2, LedTypes
  <2>. QED BY <2>1, <2>2 DEF Process, RunLeds
<1>4. queue' \in Seq(Action)
  <2>. DEFINE request == IF Released THEN Request(PressTime) ELSE "none"
              put == IF request = "none" THEN <<>> ELSE <<Act(request)>>
  <2>1. put \in Seq(Action)
    <3>1. request \in {"none", "CHANGE_MODE", "RENEGOTIATE", "START_CAN_ENUMERATION"}
      BY RequestTypes
    <3>. HIDE DEF request
    <3>2. request = "none" \/ Act(request) \in Quiet
      BY <3>1 DEF Quiet, ChangeMode, Renegotiate, Enumerate
    <3>. QED BY <3>2, Kinds
  <2>2. \A found \in {<<Activity, MessageIn>>, <<Activity>>, <<MessageOut>>} : found \in Seq(Action)
    <3>1. Activity \in Action /\ MessageIn \in Action /\ MessageOut \in Action
      BY Kinds, QuietActions
    <3>2. <<Activity, MessageIn>> \in Seq(Action)
      BY <3>1
    <3>3. <<Activity>> \in Seq(Action) /\ <<MessageOut>> \in Seq(Action)
      BY <3>1
    <3>. QED BY <3>2, <3>3, Zenon
  <2>3. queue' = queue \o put
        \/ \E found \in {<<Activity, MessageIn>>, <<Activity>>, <<MessageOut>>} :
             queue' = queue \o put \o found
    BY DEF Process
  <2>. HIDE DEF put
  <2>4. queue \o put \in Seq(Action)
    BY <2>1, ConcatProperties
  <2>5. \A found \in {<<Activity, MessageIn>>, <<Activity>>, <<MessageOut>>} :
         queue \o put \o found \in Seq(Action)
    BY <2>2, <2>4, ConcatProperties
  <2>. QED BY <2>3, <2>4, <2>5
<1>5. sincePass' \in 0 .. MaxPass /\ pressed' \in 0 .. MaxPress
  <2>1. sincePass' = 0 /\ pressed' \in {0, pressed}
    BY DEF Process
  <2>. QED BY <2>1, UserInterfaceAssumption, SMT
<1>. QED BY <1>1, <1>2, <1>3, <1>4, <1>5 DEF modes

LEMMA WorldTypes ==
  ASSUME TypeOK, Tick \/ Hand
  PROVE  TypeOK'
<1>. USE DEF TypeOK
<1>1. CASE Tick
  <2>1. clock' \in Time
    BY <1>1, ElapsedGrows DEF Tick
  <2>2. sincePass' \in 0 .. MaxPass /\ pressed' \in 0 .. MaxPress
    BY <1>1, UserInterfaceAssumption, SMT DEF Tick
  <2>3. due' \in [Colour -> Nat]
    <3>1. ASSUME NEW c \in Colour PROVE Max({0, due[c] - 1}) \in Nat
      <4>1. due[c] - 1 \in Int
        BY SMT
      <4>. QED BY <4>1, MaxType, SMT
    <3>. QED BY <1>1, <3>1 DEF Tick
  <2>4. wrapped' \subseteq Colour
    BY <1>1 DEF Tick
  <2>. QED BY <1>1, <2>1, <2>2, <2>3, <2>4 DEF Tick, modes, button
<1>2. CASE Hand
  <2>1. pressed' \in 0 .. MaxPress
    BY <1>2, UserInterfaceAssumption, SMT DEF Hand
  <2>2. down' \in BOOLEAN
    BY <1>2 DEF Hand
  <2>. QED BY <1>2, <2>1, <2>2 DEF Hand, modes, display
<1>. QED BY <1>1, <1>2

-----------------------------------------------------------------------------
(* How long the button is down, as the code measures it, and as it is.     *)

(* The code first sees a press up to a pass after it began, and a release  *)
(* up to a pass after it was made; in between it measures on a clock that  *)
(* does not come round again before the press is over.                     *)
PressInv ==
  /\ ~wasPressed /\ down => pressed <= sincePass
  /\ wasPressed =>
       /\ pressed - MaxPass <= Elapsed(pressTime)
       /\ Elapsed(pressTime) <= pressed + (IF down THEN 0 ELSE sincePass)
  /\ PressIsUnderstood

LEMMA Bounds ==
  /\ ClockRange \in Nat /\ MaxPass \in Nat /\ MaxPress \in Nat
  /\ MaxPress + MaxPass < ClockRange
  /\ BlinkRate \in Nat /\ PulseActivity \in Nat \ {0} /\ PulseWork \in Nat \ {0}
  /\ PulseActivity < ClockRange /\ PulseWork < ClockRange
  /\ SwTrHold \in Nat
BY UserInterfaceAssumption, SMT

LEMMA InitPress == Init => PressInv
BY DEF Init, PressInv, PressIsUnderstood

(* Of a press that is noticed, no more elapses than the clock can tell.    *)
LEMMA PressGrows ==
  ASSUME TypeOK, PressInv, Tick, wasPressed
  PROVE  Elapsed(pressTime)' = Elapsed(pressTime) + 1
<1>1. /\ Elapsed(pressTime) <= pressed + (IF down THEN 0 ELSE sincePass)
      /\ clock' = (clock + 1) % ClockRange /\ pressTime' = pressTime
      /\ down => pressed < MaxPress
      /\ sincePass < MaxPass
  BY DEF PressInv, Tick, button
<1>2. /\ Elapsed(pressTime)' = IF Elapsed(pressTime) + 1 = ClockRange THEN 0
                               ELSE Elapsed(pressTime) + 1
      /\ Elapsed(pressTime) \in Time
  <2>1. clock \in Time /\ pressTime \in Time
    BY DEF TypeOK
  <2>2. \A t \in Time : Elapsed(t)' = IF Elapsed(t) + 1 = ClockRange THEN 0 ELSE Elapsed(t) + 1
    BY <1>1, <2>1, ElapsedGrows
  <2>3. Elapsed(pressTime)' = (clock' - pressTime) % ClockRange
    BY <1>1 DEF Elapsed
  <2>4. \A t \in Time : (clock' - t) % ClockRange = IF Elapsed(t) + 1 = ClockRange THEN 0 ELSE Elapsed(t) + 1
    BY <2>2 DEF Elapsed
  <2>. QED BY <2>1, <2>3, <2>4, ElapsedIs
<1>3. sincePass \in 0 .. MaxPass /\ pressed \in 0 .. MaxPress /\ down \in BOOLEAN
  BY DEF TypeOK
<1>4. Elapsed(pressTime) + 1 < ClockRange
  BY <1>1, <1>2, <1>3, Bounds, Clock, SMT
<1>. QED BY <1>2, <1>4, Clock, SMT

LEMMA TickPress ==
  ASSUME TypeOK, PressInv, Tick
  PROVE  PressInv'
<1>. USE DEF Tick, button, PressInv
<1>1. /\ sincePass' = sincePass + 1 /\ pressed' = IF down THEN pressed + 1 ELSE pressed
      /\ UNCHANGED <<down, wasPressed, pressTime, asked>>
  OBVIOUS
<1>2. /\ sincePass \in 0 .. MaxPass /\ pressed \in 0 .. MaxPress /\ down \in BOOLEAN
      /\ pressTime \in Time /\ clock \in Time
  BY DEF TypeOK
<1>3. PressIsUnderstood'
  BY <1>1 DEF PressIsUnderstood, Request
<1>4. ASSUME wasPressed
      PROVE  /\ pressed' - MaxPass <= Elapsed(pressTime)'
             /\ Elapsed(pressTime)' <= pressed' + (IF down THEN 0 ELSE sincePass')
  <2>1. Elapsed(pressTime)' = Elapsed(pressTime) + 1 /\ Elapsed(pressTime) \in Time
    BY <1>2, <1>4, PressGrows, ElapsedIs
  <2>2. /\ pressed - MaxPass <= Elapsed(pressTime)
        /\ Elapsed(pressTime) <= pressed + (IF down THEN 0 ELSE sincePass)
    BY <1>4
  <2>. QED BY <1>1, <1>2, <2>1, <2>2, Bounds, Clock, SMT
<1>5. ~wasPressed /\ down => pressed' <= sincePass'
  BY <1>1, <1>2, Bounds, SMT
<1>. QED BY <1>1, <1>3, <1>4, <1>5

LEMMA HandPress ==
  ASSUME TypeOK, PressInv, Hand
  PROVE  PressInv'
<1>. USE DEF Hand, PressInv
<1>1. /\ down = wasPressed /\ down' = ~down /\ pressed' = IF down THEN pressed ELSE 0
      /\ UNCHANGED <<wasPressed, pressTime, clock, sincePass, asked>>
  OBVIOUS
<1>2. /\ sincePass \in 0 .. MaxPass /\ pressed \in 0 .. MaxPress
      /\ pressTime \in Time /\ clock \in Time /\ down \in BOOLEAN
  BY DEF TypeOK
<1>3. PressIsUnderstood'
  BY <1>1 DEF PressIsUnderstood, Request
<1>4. Elapsed(pressTime)' = Elapsed(pressTime) /\ Elapsed(pressTime) \in Time
  BY <1>1, <1>2, ElapsedIs DEF Elapsed
<1>. QED BY <1>1, <1>2, <1>3, <1>4, Bounds, Clock, SMT

LEMMA ProcessPress ==
  ASSUME TypeOK, PressInv, Process
  PROVE  PressInv'
<1>. USE DEF PressInv
<1>1. /\ wasPressed' = down /\ sincePass' = 0 /\ UNCHANGED <<down, clock>>
      /\ pressTime' = IF ~down THEN 0 ELSE IF wasPressed THEN pressTime ELSE clock
      /\ pressed' = IF Released THEN 0 ELSE pressed
      /\ asked' = [request |-> IF Released THEN Request(PressTime) ELSE "none",
                   pressed |-> IF Released THEN pressed ELSE 0]
  BY DEF Process, Sample
<1>2. /\ sincePass \in 0 .. MaxPass /\ pressed \in 0 .. MaxPress /\ down \in BOOLEAN
      /\ pressTime \in Time /\ clock \in Time /\ Elapsed(pressTime) \in Time
  BY ElapsedIs DEF TypeOK
<1>3. PressIsUnderstood'
  <2>1. CASE Released
    <3>. DEFINE t == Elapsed(pressTime)
    <3>1. t \in pressed - MaxPass .. pressed + MaxPass /\ t >= 0
      BY <1>2, <2>1, Bounds, Clock, SMT DEF Released
    <3>2. asked'.request = Request(t) /\ asked'.pressed = pressed
      BY <1>1, <2>1 DEF PressTime
    <3>3. \A u : Request(u)' = Request(u)
      BY DEF Request
    <3>. HIDE DEF t
    <3>. QED BY <3>1, <3>2, <3>3 DEF PressIsUnderstood
  <2>2. CASE ~Released
    BY <1>1, <2>2 DEF PressIsUnderstood
  <2>. QED BY <2>1, <2>2
<1>4. ASSUME down
      PROVE  /\ pressed' - MaxPass <= Elapsed(pressTime)'
             /\ Elapsed(pressTime)' <= pressed'
  <2>1. pressed' = pressed
    BY <1>1, <1>4 DEF Released
  <2>2. CASE wasPressed
    <3>1. Elapsed(pressTime)' = Elapsed(pressTime)
      BY <1>1, <1>4, <2>2 DEF Elapsed
    <3>. QED BY <1>2, <1>4, <2>1, <2>2, <3>1, Clock, SMT
  <2>3. CASE ~wasPressed
    <3>1. Elapsed(pressTime)' = Elapsed(clock)
      BY <1>1, <1>4, <2>3 DEF Elapsed
    <3>2. Elapsed(clock) = 0
      BY <1>2, NothingElapsed
    <3>. QED BY <1>2, <1>4, <2>1, <2>3, <3>1, <3>2, Bounds, SMT
  <2>. QED BY <2>2, <2>3
<1>. QED BY <1>1, <1>3, <1>4

LEMMA DispatchPress ==
  ASSUME PressInv, Dispatch
  PROVE  PressInv'
<1>1. UNCHANGED <<down, wasPressed, pressTime, clock, sincePass, pressed>>
      /\ asked'.request = "none"
  BY DEF Dispatch, button, env
<1>2. Elapsed(pressTime)' = Elapsed(pressTime)
  BY <1>1 DEF Elapsed
<1>. QED BY <1>1, <1>2 DEF PressInv, PressIsUnderstood

-----------------------------------------------------------------------------
(* Pulses.                                                                 *)

(* A LED that must still be on is pulsing, and its pulse lasts for long    *)
(* enough.                                                                 *)
Lasts(led, d) == led.mode = "Pulsing" /\ Elapsed(led.start) + d <= led.interval

PulseInv == \A c \in Colour \ wrapped : due[c] > 0 => Lasts(leds[c], due[c])

LEMMA LedParts ==
  ASSUME NEW led \in Led
  PROVE  led.start \in Time /\ led.interval \in Nat
BY Bounds DEF Led

LEMMA InitPulses == Init => PulseInv
BY DEF Init, PulseInv, NoPromise

LEMMA TickPulses ==
  ASSUME TypeOK, PulseInv, Tick
  PROVE  PulseInv'
<1>. SUFFICES ASSUME NEW c \in Colour, c \notin wrapped', due'[c] > 0
              PROVE  Lasts(leds[c], due[c])'
  BY DEF PulseInv
<1>1. /\ clock' = (clock + 1) % ClockRange /\ leds' = leds
      /\ due'[c] = Max({0, due[c] - 1}) /\ wrapped' = {x \in wrapped : due[x] > 1}
  BY DEF Tick
<1>2. due[c] \in Nat /\ leds[c] \in Led /\ clock \in Time
  BY DEF TypeOK
<1>3. due[c] > 1 /\ due'[c] = due[c] - 1
  <2>1. due[c] - 1 \in Int /\ 0 \in Int
    BY <1>2, SMT
  <2>2. Max({0, due[c] - 1}) = IF 0 >= due[c] - 1 THEN 0 ELSE due[c] - 1
    BY <2>1, MaxOfTwo
  <2>. QED BY <1>1, <1>2, <2>2, SMT
<1>4. c \notin wrapped /\ due[c] > 0
  BY <1>1, <1>2, <1>3, SMT
<1>5. Lasts(leds[c], due[c])
  BY <1>4 DEF PulseInv
<1>. DEFINE t == leds[c].start
            e == (clock' - t) % ClockRange
<1>6. t \in Time /\ leds[c].interval \in Nat /\ Elapsed(t) \in Time
  BY <1>2, LedParts, ElapsedIs
<1>7. e = IF Elapsed(t) + 1 = ClockRange THEN 0 ELSE Elapsed(t) + 1
  <2>1. \A u \in Time : Elapsed(u)' = IF Elapsed(u) + 1 = ClockRange THEN 0 ELSE Elapsed(u) + 1
    BY <1>1, <1>2, ElapsedGrows
  <2>2. \A u \in Time : (clock' - u) % ClockRange
                        = IF Elapsed(u) + 1 = ClockRange THEN 0 ELSE Elapsed(u) + 1
    BY <2>1 DEF Elapsed
  <2>. QED BY <1>6, <2>2
<1>8. leds[c].mode = "Pulsing" /\ Elapsed(t) + due[c] <= leds[c].interval
  BY <1>5 DEF Lasts
<1>. HIDE DEF t, e
<1>9. e + due'[c] <= leds[c].interval
  BY <1>2, <1>3, <1>6, <1>7, <1>8, Clock, SMT
<1>. QED BY <1>1, <1>8, <1>9 DEF Lasts, Elapsed, e, t

(* Pulse() keeps the longer of two pulses.                                 *)
LEMMA PulseLasts ==
  ASSUME clock \in Time, NEW led \in Led, NEW d \in {PulseActivity, PulseWork}, NEW old \in Nat,
         ~SumsWrap(led, d), old > 0 => Lasts(led, old)
  PROVE  Lasts(Pulse(led, d), Max({old, d}))
<1>. DEFINE t == led.start
            i == led.interval
            kept == led.mode = "Pulsing" /\ (t + i) % ClockRange > (clock + d) % ClockRange
            m == Max({old, d})
<1>1. t \in Time /\ i \in Nat /\ d \in Nat
  BY LedParts, Bounds
<1>2. m = IF old >= d THEN old ELSE d
  <2>1. old \in Int /\ d \in Int
    BY <1>1, SMT
  <2>. QED BY <2>1, MaxOfTwo
<1>3. clock + d < ClockRange /\ (clock + d) % ClockRange = clock + d
  <2>1. clock + d < ClockRange /\ clock + d \in Int /\ 0 <= clock + d
    BY <1>1, Clock, SMT DEF SumsWrap
  <2>. QED BY <2>1, Clock, Modulo, SMT
<1>4. led.mode = "Pulsing" =>
        t <= clock /\ t + i < ClockRange /\ (t + i) % ClockRange = t + i
  <2>1. ASSUME led.mode = "Pulsing"
        PROVE  t <= clock /\ t + i < ClockRange /\ t + i \in Int /\ 0 <= t + i
    BY <1>1, <2>1, Clock, SMT DEF SumsWrap
  <2>. QED BY <2>1, Clock, Modulo, SMT
<1>5. Elapsed(t) = IF clock >= t THEN clock - t ELSE clock - t + ClockRange
  BY <1>1, ElapsedIs
<1>6. old > 0 => led.mode = "Pulsing" /\ Elapsed(t) + old <= i
  BY DEF Lasts
<1>7. Pulse(led, d) = IF kept THEN led ELSE Timed("Pulsing", d)
  BY DEF Pulse
<1>8. Elapsed(clock) = 0
  BY NothingElapsed
<1>. HIDE DEF t, i, m
<1>9. CASE kept
  <2>1. Elapsed(t) + m <= i
    BY <1>1, <1>2, <1>3, <1>4, <1>5, <1>6, <1>9, Clock, SMT
  <2>. QED BY <1>7, <1>9, <2>1 DEF Lasts, t, i, m
<1>10. CASE ~kept
  <2>1. m = d
    BY <1>1, <1>2, <1>3, <1>4, <1>5, <1>6, <1>10, Clock, SMT
  <2>2. Pulse(led, d) = [mode |-> "Pulsing", interval |-> d, start |-> clock]
    BY <1>7, <1>10 DEF Timed
  <2>3. Elapsed(clock) + m <= d
    BY <1>1, <1>8, <2>1, SMT
  <2>. QED BY <2>2, <2>3 DEF Lasts, m
<1>. QED BY <1>9, <1>10

LEMMA DispatchPulses ==
  ASSUME TypeOK, PulseInv, Dispatch
  PROVE  PulseInv'
<1>1. UNCHANGED clock
  BY DEF Dispatch, env
<1>2. \A led : \A d : Lasts(led, d)' = Lasts(led, d)
  BY <1>1 DEF Lasts, Elapsed
<1>3. CASE UNCHANGED display
  BY <1>1, <1>3 DEF PulseInv, display, Lasts, Elapsed
<1>4. CASE UiIndicateMode
  BY <1>4 DEF UiIndicateMode, Show, NoPromise, PulseInv
<1>5. CASE UiPulse
  <2>1. PICK d \in {PulseActivity, PulseWork} : PulseFor(d)
    BY <1>5 DEF UiPulse
  <2>. DEFINE p == Pulsed
  <2>2. p \in Colour
    BY DEF Pulsed, Colour
  <2>. HIDE DEF p
  <2>3. /\ leds' = [leds EXCEPT ![p] = Pulse(@, d)]
        /\ due' = [due EXCEPT ![p] = Max({@, d})]
        /\ wrapped' = IF SumsWrap(leds[p], d) THEN wrapped \cup {p} ELSE wrapped
    BY <2>1 DEF PulseFor, p
  <2>4. leds[p] \in Led /\ due[p] \in Nat /\ clock \in Time
        /\ DOMAIN leds = Colour /\ DOMAIN due = Colour
    BY <2>2 DEF TypeOK
  <2>5. ASSUME NEW c \in Colour, c \notin wrapped', due'[c] > 0
        PROVE  Lasts(leds'[c], due'[c])
    <3>1. CASE c = p
      <4>1. ~SumsWrap(leds[p], d) /\ p \notin wrapped
        BY <2>2, <2>3, <2>5, <3>1
      <4>2. due[p] > 0 => Lasts(leds[p], due[p])
        BY <2>2, <4>1 DEF PulseInv
      <4>3. Lasts(Pulse(leds[p], d), Max({due[p], d}))
        BY <2>4, <4>1, <4>2, PulseLasts
      <4>. QED BY <2>3, <2>4, <3>1, <4>3
    <3>2. CASE c # p
      BY <2>3, <2>4, <2>5, <3>2 DEF PulseInv
    <3>. QED BY <3>1, <3>2
  <2>. QED BY <1>1, <2>5 DEF PulseInv, Lasts, Elapsed
<1>. QED BY <1>3, <1>4, <1>5 DEF Dispatch

LEMMA ProcessPulses ==
  ASSUME TypeOK, PulseInv, Process
  PROVE  PulseInv'
<1>1. UNCHANGED clock
  BY DEF Process
<1>2. CASE Show(SETUP)
  BY <1>2 DEF Show, NoPromise, PulseInv
<1>3. CASE leds' = [c \in Colour |-> RunLed(leds[c])] /\ UNCHANGED <<due, wrapped>>
  <2>1. ASSUME NEW c \in Colour, c \notin wrapped, due[c] > 0
        PROVE  Lasts(leds'[c], due[c])
    <3>1. Lasts(leds[c], due[c])
      BY <2>1 DEF PulseInv
    <3>2. leds[c] \in Led /\ due[c] \in Nat /\ Elapsed(leds[c].start) \in Time
          /\ leds[c].interval \in Nat
      BY LedParts, ElapsedIs DEF TypeOK
    <3>3. ~(Elapsed(leds[c].start) >= leds[c].interval)
      BY <2>1, <3>1, <3>2, Clock, SMT DEF Lasts
    <3>4. RunLed(leds[c]) = leds[c]
      BY <3>1, <3>3 DEF RunLed, Lasts
    <3>. QED BY <1>3, <3>1, <3>4
  <2>. QED BY <1>1, <1>3, <2>1 DEF PulseInv, Lasts, Elapsed
<1>. QED BY <1>2, <1>3 DEF Process, RunLeds

-----------------------------------------------------------------------------
(* The mode that is shown.                                                 *)

Held == wasPressed /\ Elapsed(pressTime) > SwTrHold

AtRest ==
  /\ Lacks(queue, "INDICATE_MODE") /\ Lacks(queue, "CHANGE_MODE") /\ ~Held
  /\ instantMode = SETUP => currentMode = NORMAL

(* Whatever is shown meanwhile, the last indication on the queue is of the *)
(* mode it is now, and once it is off the queue that mode is shown; a long *)
(* press, which shows Setup before there is any, is followed by a change   *)
(* of the mode and so by an indication.                                    *)
ModeInv ==
  /\ instantMode \in {currentMode, SETUP}
  /\ LastSaid(queue, instantMode)
  /\ AtRest => Shown

LEMMA InitMode == Init => ModeInv
<1>. SUFFICES ASSUME Init PROVE ModeInv
  OBVIOUS
<1>. DEFINE q == <<Indicate(currentMode)>>
<1>1. queue = q /\ instantMode = currentMode /\ currentMode \in Modes
  BY DEF Init, Modes
<1>2. Len(q) = 1 /\ q[1] = Indicate(currentMode)
  OBVIOUS
<1>3. q[1].type = "INDICATE_MODE" /\ q[1].mode = currentMode
  BY <1>1, <1>2, Kinds
<1>. HIDE DEF q
<1>4. LastSaid(q, currentMode) /\ ~Lacks(q, "INDICATE_MODE")
  BY <1>2, <1>3, SMT DEF LastSaid, Lacks
<1>. QED BY <1>1, <1>4 DEF ModeInv, AtRest

LEMMA ShownAtOnce ==
  ASSUME instantMode' \in Modes, leds' = ModeLeds(instantMode')
  PROVE  Shown'
BY UserInterfaceAssumption
   DEF Shown, ModeLeds, Modes, IdleOrPulsing, On, Off, Blinking, Steady, Timed

(* An indication comes off the queue.                                      *)
LEMMA IndicateMode ==
  ASSUME TypeOK, ModeInv, UiIndicateMode
  PROVE  ModeInv'
<1>1. queue \in Seq(Action) /\ queue # <<>> /\ Head(queue).type = "INDICATE_MODE"
      /\ UNCHANGED modes /\ leds' = ModeLeds(Head(queue).mode)
      /\ queue' = Tail(queue) \o <<>> /\ instantMode \in Modes
  BY DEF UiIndicateMode, TypeOK, SameModes, Show, Answer
<1>. DEFINE t == Tail(queue)
<1>2. /\ t \in Seq(Action) /\ Len(t) = Len(queue) - 1 /\ Len(queue) \in Nat \ {0}
      /\ Head(queue) = queue[1] /\ \A i \in 1 .. Len(t) : t[i] = queue[i + 1]
  BY <1>1, HeadTailProperties, EmptySeq
<1>3. queue' = t
  BY <1>1, <1>2, ConcatEmptySeq
<1>4. LastSaid(t, instantMode)
  BY <1>1, TailSaid DEF ModeInv
<1>5. ASSUME Lacks(t, "INDICATE_MODE") PROVE Head(queue).mode = instantMode
  <2>1. ASSUME NEW j \in 1 + 1 .. Len(queue) PROVE queue[j].type # "INDICATE_MODE"
    <3>. DEFINE i == j - 1
    <3>1. i \in 1 .. Len(t) /\ i + 1 = j
      BY <1>2, SMT
    <3>. HIDE DEF i, t
    <3>. QED BY <1>2, <1>5, <3>1, Zenon DEF Lacks
  <2>2. 1 \in 1 .. Len(queue)
    BY <1>2, SMT
  <2>3. LastSaid(queue, instantMode)
    BY DEF ModeInv
  <2>. HIDE DEF t
  <2>. QED BY <1>1, <1>2, <2>1, <2>2, <2>3, Zenon DEF LastSaid
<1>. HIDE DEF t
<1>6. AtRest' => leds' = ModeLeds(instantMode) /\ instantMode' = instantMode
  BY <1>1, <1>3, <1>5 DEF AtRest, modes
<1>7. AtRest' => Shown'
  <2>1. ASSUME AtRest' PROVE leds' = ModeLeds(instantMode') /\ instantMode' \in Modes
    BY <1>1, <1>6, <2>1
  <2>. QED BY <2>1, ShownAtOnce
<1>. QED BY <1>1, <1>3, <1>4, <1>7 DEF ModeInv, modes

(* LEDs that show the mode go on to show it while they run.                *)
LEMMA ShownWhileRunning ==
  ASSUME leds \in [Colour -> Led], Shown, UNCHANGED instantMode, instantMode \in Modes,
         leds' = [c \in Colour |-> RunLed(leds[c])]
  PROVE  Shown'
<1>1. /\ "yellow" \in Colour /\ "green" \in Colour
      /\ leds'["yellow"] = RunLed(leds["yellow"]) /\ leds'["green"] = RunLed(leds["green"])
  BY DEF Colour
<1>2. \A led \in Led :
        /\ led.mode = "On" => RunLed(led).mode = "On"
        /\ led.mode \in {"Off", "Pulsing"} => RunLed(led).mode \in {"Off", "Pulsing"}
        /\ led.mode \in {"Blinking_On", "Blinking_Off"} =>
             RunLed(led).mode \in {"Blinking_On", "Blinking_Off"}
  BY DEF RunLed, Timed, Off, Steady
<1>3. leds["yellow"] \in Led /\ leds["green"] \in Led
  BY <1>1
<1>. USE DEF Shown, IdleOrPulsing
<1>4. CASE instantMode = NORMAL
  BY <1>1, <1>2, <1>3, <1>4, UserInterfaceAssumption
<1>5. CASE instantMode = UNINITIALISED
  BY <1>1, <1>2, <1>3, <1>5, UserInterfaceAssumption
<1>6. CASE instantMode = SETUP
  BY <1>1, <1>2, <1>3, <1>6, UserInterfaceAssumption
<1>. QED BY <1>4, <1>5, <1>6 DEF Modes

(* A pulse is given to the LED that does not show the mode.                *)
LEMMA ShownWhilePulsing ==
  ASSUME TypeOK, Shown, UNCHANGED modes, instantMode \in {currentMode, SETUP},
         instantMode = SETUP => currentMode = NORMAL,
         NEW d, PulseFor(d)
  PROVE  Shown'
<1>1. \A led : led.mode \in {"Off", "Pulsing"} => Pulse(led, d).mode = "Pulsing"
  BY DEF Pulse, Timed
<1>2. /\ leds' = [leds EXCEPT ![Pulsed] = Pulse(@, d)]
      /\ leds \in [Colour -> Led] /\ "yellow" \in Colour /\ "green" \in Colour
  BY DEF PulseFor, TypeOK, Colour
<1>3. CASE instantMode = UNINITIALISED
  <2>1. Pulsed = "yellow"
    BY <1>3, UserInterfaceAssumption DEF Pulsed, modes
  <2>2. leds'["green"] = leds["green"] /\ leds'["yellow"] = Pulse(leds["yellow"], d)
    BY <1>2, <2>1
  <2>. QED BY <1>1, <1>3, <2>2, UserInterfaceAssumption DEF Shown, IdleOrPulsing, modes
<1>4. CASE instantMode \in {NORMAL, SETUP}
  <2>1. Pulsed = "green"
    BY <1>4, UserInterfaceAssumption DEF Pulsed, modes
  <2>2. leds'["yellow"] = leds["yellow"] /\ leds'["green"] = Pulse(leds["green"], d)
    BY <1>2, <2>1
  <2>3. CASE instantMode = NORMAL
    <3>1. leds["yellow"].mode = "On" /\ leds["green"].mode \in {"Off", "Pulsing"}
      BY <2>3, UserInterfaceAssumption DEF Shown, IdleOrPulsing
    <3>2. leds'["yellow"].mode = "On" /\ leds'["green"].mode \in {"Off", "Pulsing"}
          /\ instantMode' = NORMAL
      BY <1>1, <2>2, <2>3, <3>1 DEF modes
    <3>. QED BY <3>2, UserInterfaceAssumption DEF Shown, IdleOrPulsing
  <2>4. CASE instantMode = SETUP
    <3>1. leds["yellow"].mode \in {"Blinking_On", "Blinking_Off"}
          /\ leds["green"].mode \in {"Off", "Pulsing"}
      BY <2>4, UserInterfaceAssumption DEF Shown, IdleOrPulsing
    <3>2. leds'["yellow"].mode \in {"Blinking_On", "Blinking_Off"}
          /\ leds'["green"].mode \in {"Off", "Pulsing"} /\ instantMode' = SETUP
      BY <1>1, <2>2, <2>4, <3>1 DEF modes
    <3>. QED BY <3>2, UserInterfaceAssumption DEF Shown, IdleOrPulsing
  <2>. QED BY <1>4, <2>3, <2>4
<1>. QED BY <1>3, <1>4 DEF TypeOK, Modes

LEMMA DispatchMode ==
  ASSUME TypeOK, ModeInv, Dispatch
  PROVE  ModeInv'
<1>1. /\ UNCHANGED <<wasPressed, pressTime, clock>> /\ queue \in Seq(Action)
      /\ instantMode \in Modes
  BY DEF Dispatch, button, env, TypeOK
<1>2. Held' = Held
  BY <1>1 DEF Held, Elapsed
<1>3. CASE UNCHANGED display /\ (MnsChangeMode \/ MnsRenegotiate \/ MnsMessage \/ CanSend)
  <2>1. Answers
    BY <1>3, DispatchAnswers DEF ModeInv
  <2>2. CASE queue # <<>> /\ SameModes /\ Head(queue) \in Quiet \ {ChangeMode}
             /\ \E s \in Seq(Quiet) : Answer(s)
    <3>1. PICK s \in Seq(Quiet) : queue' = Tail(queue) \o s
      BY <2>2 DEF Answer
    <3>2. Tail(queue) \in Seq(Action) /\ s \in Seq(Action) /\ LastSaid(Tail(queue), instantMode)
      BY <1>1, <2>2, HeadTailProperties, TailSaid, QuietActions DEF ModeInv
    <3>3. LastSaid(queue', instantMode)
      BY <3>1, <3>2, QuietSaid
    <3>4. Head(queue).type # "INDICATE_MODE" /\ Head(queue).type # "CHANGE_MODE"
      BY <2>2, Kinds
    <3>5. \A y \in {"INDICATE_MODE", "CHANGE_MODE"} : Lacks(queue', y) => Lacks(queue, y)
      BY <1>1, <2>2, <3>1, <3>2, <3>4, JoinedLacks, TailLacks
    <3>6. UNCHANGED <<instantMode, currentMode, leds>>
      BY <1>3, <2>2 DEF SameModes, modes, display
    <3>7. AtRest' => AtRest
      BY <1>2, <3>5, <3>6 DEF AtRest
    <3>. QED BY <3>3, <3>6, <3>7 DEF ModeInv, Shown, IdleOrPulsing
  <2>3. CASE /\ queue # <<>>
             /\ instantMode' \in Modes /\ currentMode' \in {UNINITIALISED, NORMAL}
             /\ instantMode' \in {currentMode', SETUP}
             /\ \E s : Announces(s, instantMode') /\ Answer(s)
    <3>1. PICK s : Announces(s, instantMode') /\ queue' = Tail(queue) \o s
      BY <2>3 DEF Answer
    <3>2. Tail(queue) \in Seq(Action)
      BY <1>1, <2>3, HeadTailProperties
    <3>3. LastSaid(queue', instantMode') /\ ~Lacks(queue', "INDICATE_MODE")
      BY <2>3, <3>1, <3>2, AnnouncementSaid
    <3>. QED BY <2>3, <3>3 DEF ModeInv, AtRest
  <2>. QED BY <2>1, <2>2, <2>3 DEF Answers
<1>4. CASE UNCHANGED display /\ Idle
  <2>1. UNCHANGED <<queue, instantMode, currentMode, leds>>
    BY <1>4 DEF Idle, SameModes, modes, display
  <2>. QED BY <1>2, <2>1 DEF ModeInv, AtRest, Shown, IdleOrPulsing
<1>5. CASE UiIndicateMode
  BY <1>5, IndicateMode
<1>6. CASE UiPulse
  <2>1. PICK d : PulseFor(d)
    BY <1>6 DEF UiPulse
  <2>2. queue # <<>> /\ queue' = Tail(queue) \o <<>> /\ UNCHANGED modes
        /\ Head(queue) \in {Activity, Work}
    BY <1>6, Zenon DEF UiPulse, Answer, SameModes, Dispatching
  <2>3. Tail(queue) \in Seq(Action) /\ LastSaid(Tail(queue), instantMode)
    BY <1>1, <2>2, HeadTailProperties, TailSaid DEF ModeInv
  <2>4. queue' = Tail(queue)
    BY <2>2, <2>3, ConcatEmptySeq
  <2>5. Head(queue).type # "INDICATE_MODE" /\ Head(queue).type # "CHANGE_MODE"
    BY <2>2 DEF Activity, Work, Act
  <2>6. \A y \in {"INDICATE_MODE", "CHANGE_MODE"} : Lacks(queue', y) => Lacks(queue, y)
    BY <1>1, <2>2, <2>4, <2>5, TailLacks
  <2>7. UNCHANGED <<instantMode, currentMode>>
    BY <2>2 DEF modes
  <2>8. ASSUME AtRest' PROVE Shown'
    <3>1. AtRest /\ Shown
      BY <1>2, <2>6, <2>7, <2>8 DEF AtRest, ModeInv
    <3>. QED BY <2>1, <2>2, <3>1, ShownWhilePulsing DEF AtRest, ModeInv
  <2>. QED BY <2>3, <2>4, <2>7, <2>8 DEF ModeInv
<1>. QED BY <1>3, <1>4, <1>5, <1>6 DEF Dispatch

LEMMA ProcessMode ==
  ASSUME TypeOK, PressInv, ModeInv, Process
  PROVE  ModeInv'
<1>. DEFINE request == IF Released THEN Request(PressTime) ELSE "none"
            put == IF request = "none" THEN <<>> ELSE <<Act(request)>>
<1>1. /\ wasPressed' = down /\ UNCHANGED <<down, clock, instantMode, currentMode>>
      /\ pressTime' = IF ~down THEN 0 ELSE IF wasPressed THEN pressTime ELSE clock
  BY DEF Process, Sample, modes
<1>2. queue \in Seq(Action) /\ clock \in Time /\ pressTime \in Time /\ down \in BOOLEAN
  BY DEF TypeOK
<1>3. \E s \in Seq(Quiet) : queue' = queue \o put \o s
  <2>1. put \in Seq(Action)
    <3>1. request \in {"none", "CHANGE_MODE", "RENEGOTIATE", "START_CAN_ENUMERATION"}
      BY RequestTypes
    <3>. HIDE DEF request
    <3>2. request = "none" \/ Act(request) \in Quiet
      BY <3>1 DEF Quiet, ChangeMode, Renegotiate, Enumerate
    <3>. QED BY <3>2, Kinds
  <2>2. /\ <<Activity, MessageIn>> \in Seq(Quiet) /\ <<Activity>> \in Seq(Quiet)
        /\ <<MessageOut>> \in Seq(Quiet) /\ <<>> \in Seq(Quiet)
    <3>1. Activity \in Quiet /\ MessageIn \in Quiet /\ MessageOut \in Quiet
      BY QuietActions
    <3>. QED BY <3>1
  <2>3. \/ queue' = queue \o put
        \/ queue' = queue \o put \o <<Activity, MessageIn>>
        \/ queue' = queue \o put \o <<Activity>>
        \/ queue' = queue \o put \o <<MessageOut>>
    BY DEF Process
  <2>. HIDE DEF put
  <2>4. queue \o put \in Seq(Action)
    BY <1>2, <2>1, ConcatProperties
  <2>5. queue \o put = queue \o put \o <<>>
    BY <2>4, ConcatEmptySeq
  <2>. QED BY <2>2, <2>3, <2>5, Zenon
<1>4. put \in Seq(Quiet) /\ (request = "CHANGE_MODE" => ~Lacks(put, "CHANGE_MODE"))
  <2>1. request \in {"none", "CHANGE_MODE", "RENEGOTIATE", "START_CAN_ENUMERATION"}
    BY RequestTypes
  <2>. HIDE DEF request
  <2>2. request = "none" \/ Act(request) \in Quiet
    BY <2>1 DEF Quiet, ChangeMode, Renegotiate, Enumerate
  <2>3. put \in Seq(Quiet)
    BY <2>2
  <2>4. ASSUME request = "CHANGE_MODE" PROVE ~Lacks(put, "CHANGE_MODE")
    <3>1. put = <<Act("CHANGE_MODE")>>
      BY <2>4
    <3>2. Len(put) = 1 /\ put[1] = Act("CHANGE_MODE")
      BY <3>1
    <3>. HIDE DEF put
    <3>3. 1 \in 1 .. Len(put) /\ put[1].type = "CHANGE_MODE"
      BY <3>2, SMT DEF Act
    <3>. QED BY <3>3, Zenon DEF Lacks
  <2>. QED BY <2>3, <2>4
<1>5. PICK s \in Seq(Quiet) : queue' = queue \o put \o s
  BY <1>3
<1>6. request = "CHANGE_MODE" \/ (Held => Held')
  <2>1. SUFFICES ASSUME Held, ~Held' PROVE request = "CHANGE_MODE"
    OBVIOUS
  <2>2. ~down
    <3>1. ASSUME down PROVE Elapsed(pressTime)' = Elapsed(pressTime)
      BY <1>1, <2>1, <3>1 DEF Elapsed, Held
    <3>. QED BY <1>1, <2>1, <3>1 DEF Held
  <2>3. Released /\ PressTime > SwTrHold
    BY <2>1, <2>2 DEF Released, PressTime, Held
  <2>4. PressTime \in Nat
    BY <1>2, ElapsedIs, Clock, SMT DEF PressTime
  <2>5. Request(PressTime) = "CHANGE_MODE"
    <3>1. ~(PressTime < MediumTo) /\ ~(PressTime < ShortBelow)
      BY <2>3, <2>4, UserInterfaceAssumption, SMT
    <3>. QED BY <2>3, <3>1 DEF Request
  <2>. QED BY <2>3, <2>5
<1>. HIDE DEF request, put
<1>7. /\ queue \o put \in Seq(Action) /\ put \in Seq(Action) /\ s \in Seq(Action)
      /\ LastSaid(queue \o put, instantMode)
  BY <1>2, <1>4, QuietActions, QuietSaid, ConcatProperties DEF ModeInv
<1>8. LastSaid(queue', instantMode)
  BY <1>5, <1>7, QuietSaid
<1>9. ASSUME AtRest' PROVE AtRest /\ ~resetRequested
  <2>1. \A y \in {"INDICATE_MODE", "CHANGE_MODE"} :
          Lacks(queue', y) => Lacks(queue, y) /\ Lacks(put, y)
    BY <1>2, <1>5, <1>7, JoinedLacks
  <2>2. request # "CHANGE_MODE" /\ ~Held
    BY <1>4, <1>6, <1>9, <2>1 DEF AtRest
  <2>3. AtRest
    BY <1>1, <1>9, <2>1, <2>2 DEF AtRest
  <2>. QED BY <2>2, <2>3 DEF resetRequested, Held
<1>10. AtRest' => Shown'
  <2>1. SUFFICES ASSUME AtRest' PROVE Shown'
    OBVIOUS
  <2>2. Shown /\ ~resetRequested
    BY <1>9, <2>1 DEF ModeInv
  <2>3. leds' = [c \in Colour |-> RunLed(leds[c])] /\ leds \in [Colour -> Led]
    BY <2>2 DEF Process, RunLeds, TypeOK
  <2>. QED BY <1>1, <2>2, <2>3, ShownWhileRunning DEF TypeOK
<1>. QED BY <1>1, <1>8, <1>10 DEF ModeInv

LEMMA WorldMode ==
  ASSUME TypeOK, PressInv, ModeInv, Tick \/ Hand
  PROVE  ModeInv'
<1>1. UNCHANGED <<queue, instantMode, currentMode, leds, wasPressed, pressTime>>
  BY DEF Tick, Hand, modes, button, display
<1>2. Held => Held'
  <2>1. CASE Tick
    <3>1. SUFFICES ASSUME Held PROVE Held'
      OBVIOUS
    <3>2. Elapsed(pressTime)' = Elapsed(pressTime) + 1 /\ Elapsed(pressTime) \in Time
      BY <2>1, <3>1, PressGrows, ElapsedIs DEF Held, TypeOK
    <3>. QED BY <1>1, <3>1, <3>2, Bounds, Clock, SMT DEF Held
  <2>2. CASE Hand
    BY <1>1, <2>2 DEF Hand, Held, Elapsed
  <2>. QED BY <2>1, <2>2
<1>. QED BY <1>1, <1>2 DEF ModeInv, AtRest, Shown, IdleOrPulsing

-----------------------------------------------------------------------------
Inv == TypeOK /\ PressInv /\ PulseInv /\ ModeInv

LEMMA InitInv == Init => Inv
BY InitTypes, InitPress, InitPulses, InitMode DEF Inv

LEMMA StepInv ==
  ASSUME Inv, [Next]_vars
  PROVE  Inv'
<1>. USE DEF Inv
<1>1. CASE Dispatch
  BY <1>1, DispatchTypes, DispatchPress, DispatchPulses, DispatchMode DEF ModeInv
<1>2. CASE Process
  BY <1>2, ProcessTypes, ProcessPress, ProcessPulses, ProcessMode
<1>3. CASE Tick
  BY <1>3, WorldTypes, TickPress, TickPulses, WorldMode
<1>4. CASE Hand
  <2>1. PulseInv'
    BY <1>4 DEF Hand, display, PulseInv, Lasts, Elapsed
  <2>. QED BY <1>4, <2>1, WorldTypes, HandPress, WorldMode
<1>5. CASE UNCHANGED vars
  <2>1. UNCHANGED <<pc, queue, instantMode, currentMode, down, wasPressed, pressTime, leds, due,
                    wrapped, clock, sincePass, pressed, asked>>
    BY <1>5 DEF vars, modes, button, display, env
  <2>2. TypeOK'
    BY <2>1 DEF TypeOK
  <2>3. PressInv'
    BY <2>1 DEF PressInv, Elapsed, PressIsUnderstood, Request
  <2>4. PulseInv'
    BY <2>1 DEF PulseInv, Lasts, Elapsed
  <2>5. ModeInv'
    BY <2>1 DEF ModeInv, AtRest, Held, Elapsed, Shown, IdleOrPulsing
  <2>. QED BY <2>2, <2>3, <2>4, <2>5
<1>. QED BY <1>1, <1>2, <1>3, <1>4, <1>5 DEF Next

LEMMA Always == Spec => []Inv
BY InitInv, StepInv, PTL DEF Spec

(* Every variable of LEDUserInterface, its switch and its LEDs, and the    *)
(* queue that feeds it, keep their types.                                  *)
THEOREM Typed == Spec => []TypeOK
<1>1. Inv => TypeOK
  BY DEF Inv
<1>. QED BY <1>1, Always, PTL

(* LEDUserInterface::indicateMode and its pulses, in whatever order they   *)
(* come off the queue: once no change of mode is on its way the LED of the *)
(* mode shows it, and no pulse has taken it away.                          *)
THEOREM ModeIsAlwaysShown == Spec => []ModeIsShown
<1>1. Inv => ModeIsShown
  <2>1. TypeOK => (Settled /\ (instantMode = SETUP => currentMode = NORMAL) => AtRest)
    BY LacksNot DEF TypeOK, Settled, AtRest, Held
  <2>. QED BY <2>1 DEF Inv, ModeInv, ModeIsShown
<1>. QED BY <1>1, Always, PTL

(* LED::pulse keeps the longer of two pulses: a LED is lit for as long as  *)
(* each of them asked, if none was asked for around a wrap of the clock.   *)
THEOREM PulsesAlwaysLast == Spec => []PulsesLastUnwrapped
<1>1. Inv => PulsesLastUnwrapped
  BY DEF Inv, PulseInv, Lasts, PulsesLastUnwrapped, isLit
<1>. QED BY <1>1, Always, PTL

(* checkRequestedAction(), on a time that Switch.cpp takes from a clock    *)
(* that wraps, asks for what a press of that length is to ask for, give or *)
(* take a pass of the loop.                                                *)
THEOREM PressesAreUnderstood == Spec => []PressIsUnderstood
<1>1. Inv => PressIsUnderstood
  BY DEF Inv, PressInv
<1>. QED BY <1>1, Always, PTL
=============================================================================
