------------------------- MODULE LongMessage_proofs -------------------------
(***************************************************************************)
(* Proofs about LongMessage, for every set of senders and streams, every   *)
(* length of messages, fragments and buffers, and any bound on messages    *)
(* and faults, when the nodes send one message at a time.                  *)
(***************************************************************************)
EXTENDS LongMessage, FiniteSetTheorems, SequenceTheorems, WellFoundedInduction, TLAPS

-----------------------------------------------------------------------------
(* Numbers.                                                                *)

LEMMA Constants ==
  /\ FragBytes \in Nat /\ FragBytes > 0 /\ SeqRange \in Nat /\ SeqRange > 0
  /\ BufferLen \in Nat /\ BufferLen > 0 /\ MaxSends \in Nat /\ MaxFaults \in Nat
  /\ \A l \in Lens : l \in Nat /\ l > 0
BY LongMessageAssumption, SMT

(* A set of numbers that is not empty has a least one: what is proved by   *)
(* induction below is proved from it.                                      *)
LEMMA LeastExists ==
  ASSUME NEW S \in SUBSET Nat, S # {}
  PROVE  \E x \in S : \A y \in S : x <= y
<1>1. PICK x \in S : \A y \in S : ~ (<<y, x>> \in OpToRel(<, Nat))
  BY NatLessThanWellFounded, WFMin
<1>2. \A y \in S : ~ (y < x)
  BY <1>1 DEF OpToRel
<1>. QED BY <1>2, SMT

LEMMA LargestIs ==
  ASSUME NEW n \in Nat, NEW s \in SUBSET (1 .. n), n \in s
  PROVE  Max(s) = n
<1>. DEFINE m == CHOOSE x \in s : \A y \in s : x >= y
<1>1. \E x \in s : \A y \in s : x >= y
  BY SMT
<1>2. m \in s /\ \A y \in s : m >= y
  BY <1>1, Zenon
<1>. HIDE DEF m
<1>3. m = n
  BY <1>2, SMT
<1>. QED BY <1>3 DEF Max, m

-----------------------------------------------------------------------------
(* The loop over a fragment's payload, a turn at a time.                   *)

(* The fold over the elements in s.                                        *)
Iterates(h, base, data, n) ==
  h = [s \in SUBSET (1 .. n) |->
         IF s = {} THEN base ELSE TakeByte(h[s \ {Max(s)}], data[Max(s)])]

LEMMA IterateFurther ==
  ASSUME NEW base, NEW data, NEW n \in Nat \ {0}, NEW h, Iterates(h, base, data, n - 1)
  PROVE  \E k : Iterates(k, base, data, n)
<1>. DEFINE k == [s \in SUBSET (1 .. n) |->
                    IF n \in s THEN TakeByte(h[s \ {n}], data[n]) ELSE h[s]]
<1>1. ASSUME NEW s \in SUBSET (1 .. n)
      PROVE  k[s] = IF s = {} THEN base ELSE TakeByte(k[s \ {Max(s)}], data[Max(s)])
  <2>1. CASE n \in s
    <3>1. Max(s) = n
      BY <2>1, LargestIs
    <3>2. s \ {n} \in SUBSET (1 .. n) /\ n \notin s \ {n}
      OBVIOUS
    <3>3. k[s \ {n}] = h[s \ {n}]
      BY <3>2
    <3>. QED BY <2>1, <3>1, <3>3
  <2>2. CASE n \notin s
    <3>1. s \in SUBSET (1 .. n - 1)
      BY <2>2
    <3>2. h[s] = IF s = {} THEN base ELSE TakeByte(h[s \ {Max(s)}], data[Max(s)])
      <4>. HIDE DEF k
      <4>. QED BY <3>1, Zenon DEF Iterates
    <3>3. k[s] = h[s]
      BY <2>2
    <3>4. s \ {Max(s)} \in SUBSET (1 .. n) /\ n \notin s \ {Max(s)}
      BY <2>2
    <3>5. k[s \ {Max(s)}] = h[s \ {Max(s)}]
      BY <3>4
    <3>. QED BY <3>2, <3>3, <3>5
  <2>. QED BY <2>1, <2>2
<1>2. Iterates(k, base, data, n)
  BY <1>1 DEF Iterates
<1>. QED BY <1>2

LEMMA IterateExists ==
  ASSUME NEW base, NEW data
  PROVE  \A n \in Nat : \E h : Iterates(h, base, data, n)
<1>. DEFINE Bad == {n \in Nat : ~ \E h : Iterates(h, base, data, n)}
<1>. SUFFICES ASSUME Bad # {} PROVE FALSE
  OBVIOUS
<1>1. PICK n \in Bad : \A m \in Bad : n <= m
  BY LeastExists
<1>2. CASE n = 0
  <2>. DEFINE h == [s \in SUBSET (1 .. 0) |-> base]
  <2>1. SUBSET (1 .. 0) = {{}}
    BY SMT
  <2>2. Iterates(h, base, data, 0)
    BY <2>1 DEF Iterates
  <2>. QED BY <1>1, <1>2, <2>2
<1>3. CASE n # 0
  <2>1. n \in Nat \ {0} /\ n - 1 \in Nat /\ ~(n <= n - 1)
    BY <1>1, <1>3
  <2>2. PICK h : Iterates(h, base, data, n - 1)
    BY <1>1, <2>1
  <2>3. \E k : Iterates(k, base, data, n)
    BY <2>1, <2>2, IterateFurther
  <2>. QED BY <1>1, <2>3
<1>. QED BY <1>2, <1>3

(* The fold of the model is the last of a chain of turns.                  *)
Turns(g, base, data) ==
  g[0] = base /\ \A i \in 1 .. Len(data) : g[i] = TakeByte(g[i - 1], data[i])

LEMMA FoldTurns ==
  ASSUME NEW base, NEW S, NEW data \in Seq(S)
  PROVE  \E g : Turns(g, base, data) /\ FoldLeft(TakeByte, base, data) = g[Len(data)]
<1>. DEFINE n == Len(data)
            h == CHOOSE k : Iterates(k, base, data, n)
<1>1. n \in Nat /\ DOMAIN data = 1 .. n
  BY LenProperties
<1>2. Iterates(h, base, data, n)
  BY <1>1, IterateExists
<1>3. FoldLeft(TakeByte, base, data) = h[1 .. n]
  BY <1>1 DEF FoldLeft, MapThenFoldSet, Iterates
<1>. HIDE DEF h
<1>. HIDE DEF n
<1>. DEFINE g == [i \in 0 .. n |-> h[1 .. i]]
<1>4. \A s \in SUBSET (1 .. n) :
        h[s] = IF s = {} THEN base ELSE TakeByte(h[s \ {Max(s)}], data[Max(s)])
  BY <1>2, Zenon DEF Iterates
<1>5. g[0] = base
  <2>1. (1 .. 0) = {} /\ (1 .. 0) \in SUBSET (1 .. n) /\ 0 \in 0 .. n
    BY <1>1, SMT
  <2>2. h[1 .. 0] = base
    BY <1>4, <2>1
  <2>. QED BY <2>1, <2>2
<1>6. ASSUME NEW i \in 1 .. n PROVE g[i] = TakeByte(g[i - 1], data[i])
  <2>1. i \in Nat /\ i \in 1 .. i /\ i \in 0 .. n /\ i - 1 \in 0 .. n
    BY <1>1, SMT
  <2>2. \A j \in 1 .. i : j \in 1 .. n
    BY <1>1, SMT
  <2>3. \A j : j \in (1 .. i) \ {i} <=> j \in 1 .. i - 1
    BY <2>1, SMT
  <2>4. (1 .. i) \in SUBSET (1 .. n) /\ (1 .. i) # {} /\ (1 .. i) \ {i} = 1 .. i - 1
    BY <2>1, <2>2, <2>3, Zenon
  <2>5. Max(1 .. i) = i
    BY <2>1, LargestIs
  <2>6. h[1 .. i] = TakeByte(h[1 .. i - 1], data[i])
    BY <1>4, <2>4, <2>5, Zenon
  <2>. QED BY <2>1, <2>6
<1>7. g[n] = h[1 .. n]
  BY <1>1
<1>. HIDE DEF g
<1>8. Turns(g, base, data)
  BY <1>5, <1>6 DEF Turns, n
<1>. QED BY <1>3, <1>7, <1>8 DEF n

-----------------------------------------------------------------------------
(* Sequences put together.                                                 *)

(* The pieces up to the i-th, one after the other.                         *)
Joins(f, ss, n) ==
  f = [i \in 1 .. n |-> IF i = 1 THEN ss[i] ELSE f[i - 1] \o ss[i]]

LEMMA JoinFurther ==
  ASSUME NEW ss, NEW n \in Nat \ {0, 1}, NEW f, Joins(f, ss, n - 1)
  PROVE  \E g : Joins(g, ss, n)
<1>. DEFINE g == [i \in 1 .. n |-> IF i = n THEN f[n - 1] \o ss[n] ELSE f[i]]
<1>1. ASSUME NEW i \in 1 .. n
      PROVE  g[i] = IF i = 1 THEN ss[i] ELSE g[i - 1] \o ss[i]
  <2>1. CASE i = n
    <3>1. n \in 1 .. n /\ n - 1 \in 1 .. n /\ n - 1 # n /\ n # 1
      BY SMT
    <3>2. g[n] = f[n - 1] \o ss[n] /\ g[n - 1] = f[n - 1]
      BY <3>1
    <3>. HIDE DEF g
    <3>. QED BY <2>1, <3>1, <3>2
  <2>2. CASE i # n
    <3>1. i \in 1 .. n - 1 /\ (i # 1 => i - 1 \in 1 .. n /\ i - 1 # n)
      BY <2>2, SMT
    <3>2. g[i] = f[i] /\ (i # 1 => g[i - 1] = f[i - 1])
      BY <2>2, <3>1
    <3>3. f[i] = IF i = 1 THEN ss[i] ELSE f[i - 1] \o ss[i]
      BY <3>1, Zenon DEF Joins
    <3>. HIDE DEF g
    <3>. QED BY <3>2, <3>3
  <2>. QED BY <2>1, <2>2
<1>2. Joins(g, ss, n)
  BY <1>1 DEF Joins
<1>. QED BY <1>2

LEMMA JoinExists ==
  ASSUME NEW ss
  PROVE  \A n \in Nat \ {0} : \E f : Joins(f, ss, n)
<1>. DEFINE Bad == {n \in Nat \ {0} : ~ \E f : Joins(f, ss, n)}
<1>. SUFFICES ASSUME Bad # {} PROVE FALSE
  OBVIOUS
<1>1. PICK n \in Bad : \A m \in Bad : n <= m
  BY LeastExists
<1>2. CASE n = 1
  <2>. DEFINE f == [i \in 1 .. 1 |-> ss[i]]
  <2>1. Joins(f, ss, 1)
    BY DEF Joins
  <2>. QED BY <1>1, <1>2, <2>1
<1>3. CASE n # 1
  <2>1. n \in Nat \ {0, 1} /\ n - 1 \in Nat \ {0} /\ ~(n <= n - 1)
    BY <1>1, <1>3
  <2>2. PICK f : Joins(f, ss, n - 1)
    BY <1>1, <2>1
  <2>3. \E g : Joins(g, ss, n)
    BY <2>1, <2>2, JoinFurther
  <2>. QED BY <1>1, <2>3
<1>. QED BY <1>2, <1>3

LEMMA Flattened ==
  ASSUME NEW ss, NEW n \in Nat \ {0}, Len(ss) = n
  PROVE  \E f : Joins(f, ss, n) /\ FlattenSeq(ss) = f[n]
<1>. DEFINE f == CHOOSE f : Joins(f, ss, n)
<1>1. Joins(f, ss, n)
  BY JoinExists
<1>2. FlattenSeq(ss) = f[n]
  BY DEF FlattenSeq, Joins
<1>. QED BY <1>1, <1>2

LEMMA FlattenOne ==
  ASSUME NEW ss, Len(ss) = 1
  PROVE  FlattenSeq(ss) = ss[1]
<1>1. PICK f : Joins(f, ss, 1) /\ FlattenSeq(ss) = f[1]
  <2>1. 1 \in Nat \ {0}
    OBVIOUS
  <2>. QED BY <2>1, Flattened
<1>2. 1 \in 1 .. 1
  OBVIOUS
<1>3. f[1] = IF 1 = 1 THEN ss[1] ELSE f[1 - 1] \o ss[1]
  BY <1>1, <1>2, Zenon DEF Joins
<1>. QED BY <1>1, <1>3

(* Joining the same pieces gives the same; one more is put after them.     *)
LEMMA FlattenGrows ==
  ASSUME NEW n \in Nat \ {0}, NEW ss, NEW tt, Len(ss) = n, Len(tt) = n + 1,
         \A i \in 1 .. n : tt[i] = ss[i]
  PROVE  FlattenSeq(tt) = FlattenSeq(ss) \o tt[n + 1]
<1>1. PICK f : Joins(f, ss, n) /\ FlattenSeq(ss) = f[n]
  BY Flattened
<1>2. n + 1 \in Nat \ {0}
  OBVIOUS
<1>3. PICK g : Joins(g, tt, n + 1) /\ FlattenSeq(tt) = g[n + 1]
  BY <1>2, Flattened
<1>4. \A i \in 1 .. n : f[i] = IF i = 1 THEN ss[i] ELSE f[i - 1] \o ss[i]
  BY <1>1, Zenon DEF Joins
<1>5. \A i \in 1 .. n + 1 : g[i] = IF i = 1 THEN tt[i] ELSE g[i - 1] \o tt[i]
  BY <1>3, Zenon DEF Joins
<1>. DEFINE Bad == {i \in 1 .. n : f[i] # g[i]}
<1>6. Bad = {}
  <2>. SUFFICES ASSUME Bad # {} PROVE FALSE
    OBVIOUS
  <2>1. Bad \in SUBSET Nat
    OBVIOUS
  <2>2. PICK i \in Bad : \A j \in Bad : i <= j
    <3>. HIDE DEF Bad
    <3>. QED BY <2>1, LeastExists
  <2>3. i \in 1 .. n /\ i \in 1 .. n + 1 /\ tt[i] = ss[i]
    BY <2>2
  <2>4. CASE i = 1
    BY <1>4, <1>5, <2>2, <2>3, <2>4
  <2>5. CASE i # 1
    <3>1. i - 1 \in 1 .. n /\ ~(i <= i - 1)
      BY <2>3, <2>5
    <3>2. f[i - 1] = g[i - 1]
      BY <2>2, <3>1
    <3>3. f[i] = f[i - 1] \o ss[i] /\ g[i] = g[i - 1] \o tt[i]
      BY <1>4, <1>5, <2>3, <2>5
    <3>. QED BY <2>2, <2>3, <3>2, <3>3
  <2>. QED BY <2>4, <2>5
<1>7. n \in 1 .. n /\ n + 1 \in 1 .. n + 1 /\ n + 1 # 1 /\ (n + 1) - 1 = n
  BY SMT
<1>8. f[n] = g[n]
  BY <1>6, <1>7
<1>9. g[n + 1] = g[(n + 1) - 1] \o tt[n + 1]
  BY <1>5, <1>7, Zenon
<1>. QED BY <1>1, <1>3, <1>7, <1>8, <1>9

-----------------------------------------------------------------------------
(* What the callback got for one message.                                  *)

Byte    == Nat \X Nat
Report  == [data : Seq(Byte), stream : Stream \cup {"NONE"}, status : Status]

(* CallsUpTo and BytesUpTo of any calls h.                                 *)
FirstCall(h, k) ==
  LET ends == {j \in 1 .. k - 1 : h[j].status # INCOMPLETE}
  IN  1 + CHOOSE j \in ends \cup {0} : \A i \in ends : i <= j
CallsIn(h, k) == SubSeq(h, FirstCall(h, k), k)
BytesIn(h, k) == FlattenSeq([j \in DOMAIN CallsIn(h, k) |-> CallsIn(h, k)[j].data])

LEMMA HandedBytes == \A k : BytesUpTo(k) = BytesIn(handed, k)
BY DEF BytesUpTo, CallsUpTo, BytesIn, CallsIn, FirstCall

LEMMA LastEnd ==
  ASSUME NEW n \in Nat, NEW S \in SUBSET (1 .. n)
  PROVE  LET m == CHOOSE j \in S \cup {0} : \A i \in S : i <= j
         IN  m \in S \cup {0} /\ \A i \in S : i <= m
<1>. DEFINE Above == {x \in Nat : \A i \in S : i <= x}
<1>1. n \in Above
  BY SMT
<1>2. PICK x \in Above : \A y \in Above : x <= y
  BY <1>1, LeastExists
<1>3. x \in S \cup {0}
  <2>. SUFFICES ASSUME x \notin S, x # 0 PROVE FALSE
    OBVIOUS
  <2>1. x - 1 \in Nat /\ \A i \in S : i <= x - 1
    BY <1>2, SMT
  <2>. QED BY <1>2, <2>1, SMT
<1>4. \E j \in S \cup {0} : \A i \in S : i <= j
  BY <1>2, <1>3
<1>. QED BY <1>4, Zenon

(* The calls of a message go on from the call before, unless that ended a  *)
(* message.                                                                *)
LEMMA FirstCallIs ==
  ASSUME NEW h, NEW k \in Nat \ {0}
  PROVE  /\ FirstCall(h, k) \in 1 .. k
         /\ (k = 1 \/ h[k - 1].status # INCOMPLETE) => FirstCall(h, k) = k
         /\ (k # 1 /\ h[k - 1].status = INCOMPLETE) => FirstCall(h, k) = FirstCall(h, k - 1)
<1>. DEFINE ends(i) == {j \in 1 .. i - 1 : h[j].status # INCOMPLETE}
            m == CHOOSE j \in ends(k) \cup {0} : \A i \in ends(k) : i <= j
<1>1. FirstCall(h, k) = 1 + m
  BY DEF FirstCall
<1>2. k - 1 \in Nat /\ ends(k) \in SUBSET (1 .. k - 1)
  BY SMT
<1>3. m \in ends(k) \cup {0} /\ \A i \in ends(k) : i <= m
  <2>. HIDE DEF ends
  <2>. QED BY <1>2, LastEnd
<1>. HIDE DEF m
<1>4. m \in 0 .. k - 1
  BY <1>2, <1>3, SMT
<1>5. ASSUME k = 1 \/ h[k - 1].status # INCOMPLETE PROVE m = k - 1
  <2>1. CASE k = 1
    BY <1>4, <2>1, SMT
  <2>2. CASE k # 1
    <3>1. k - 1 \in ends(k)
      BY <1>5, <2>2
    <3>. QED BY <1>3, <1>4, <3>1, SMT
  <2>. QED BY <2>1, <2>2
<1>6. ASSUME k # 1, h[k - 1].status = INCOMPLETE PROVE FirstCall(h, k) = FirstCall(h, k - 1)
  <2>1. ends(k) = ends(k - 1)
    <3>1. ASSUME NEW j \in ends(k) PROVE j \in ends(k - 1)
      <4>1. j \in 1 .. k - 1 /\ h[j].status # INCOMPLETE
        OBVIOUS
      <4>2. j # k - 1
        BY <1>6, <4>1
      <4>3. j \in 1 .. (k - 1) - 1
        BY <4>1, <4>2, SMT
      <4>. QED BY <4>1, <4>3
    <3>2. ASSUME NEW j \in ends(k - 1) PROVE j \in ends(k)
      <4>1. j \in 1 .. (k - 1) - 1 /\ h[j].status # INCOMPLETE
        OBVIOUS
      <4>2. j \in 1 .. k - 1
        BY <4>1, SMT
      <4>. QED BY <4>1, <4>2
    <3>. QED BY <3>1, <3>2
  <2>2. FirstCall(h, k - 1)
          = 1 + CHOOSE j \in ends(k - 1) \cup {0} : \A i \in ends(k - 1) : i <= j
    BY DEF FirstCall
  <2>. QED BY <1>1, <2>1, <2>2 DEF m
<1>7. 1 + m \in 1 .. k /\ (m = k - 1 => 1 + m = k)
  BY <1>4, SMT
<1>. QED BY <1>1, <1>5, <1>6, <1>7

(* The data of the calls from the a-th to the k-th.                        *)
Pieces(h, a, k) == [j \in 1 .. k - a + 1 |-> h[a + j - 1].data]

LEMMA PiecesOfCalls ==
  ASSUME NEW h \in Seq(Report), NEW k \in 1 .. Len(h)
  PROVE  BytesIn(h, k) = FlattenSeq(Pieces(h, FirstCall(h, k), k))
<1>. DEFINE a == FirstCall(h, k)
<1>1. a \in 1 .. k /\ k \in Nat /\ k <= Len(h) /\ Len(h) \in Nat
  BY FirstCallIs, LenProperties
<1>. HIDE DEF a
<1>2. SubSeq(h, a, k) \in Seq(Report)
      /\ Len(SubSeq(h, a, k)) = k - a + 1
      /\ \A j \in 1 .. k - a + 1 : SubSeq(h, a, k)[j] = h[a + j - 1]
  BY <1>1, SubSeqProperties, SMT
<1>3. DOMAIN SubSeq(h, a, k) = 1 .. k - a + 1
  BY <1>2, LenProperties
<1>4. [j \in DOMAIN SubSeq(h, a, k) |-> SubSeq(h, a, k)[j].data] = Pieces(h, a, k)
  BY <1>2, <1>3 DEF Pieces
<1>. QED BY <1>4 DEF BytesIn, CallsIn, a

LEMMA PiecesLen ==
  ASSUME NEW h, NEW k \in Nat, NEW a \in 1 .. k
  PROVE  Len(Pieces(h, a, k)) = k - a + 1
<1>1. k - a + 1 \in Nat
  BY SMT
<1>. QED BY <1>1, SMT DEF Pieces

(* The bytes up to a call are those up to the one before and its own.      *)
LEMMA BytesGoOn ==
  ASSUME NEW h \in Seq(Report), NEW k \in 1 .. Len(h)
  PROVE  BytesIn(h, k) = IF k = 1 \/ h[k - 1].status # INCOMPLETE THEN h[k].data
                         ELSE BytesIn(h, k - 1) \o h[k].data
<1>1. k \in Nat \ {0} /\ Len(h) \in Nat /\ k <= Len(h)
  BY LenProperties, SMT
<1>2. CASE k = 1 \/ h[k - 1].status # INCOMPLETE
  <2>1. BytesIn(h, k) = FlattenSeq(Pieces(h, k, k))
    BY <1>1, <1>2, FirstCallIs, PiecesOfCalls
  <2>2. Len(Pieces(h, k, k)) = 1 /\ k \in 1 .. k /\ k - k + 1 = 1 /\ k + 1 - 1 = k
    <3>1. k \in 1 .. k /\ k - k + 1 = 1 /\ k + 1 - 1 = k
      BY <1>1, SMT
    <3>2. Len(Pieces(h, k, k)) = k - k + 1
      BY <1>1, <3>1, PiecesLen
    <3>. QED BY <3>1, <3>2
  <2>3. FlattenSeq(Pieces(h, k, k)) = Pieces(h, k, k)[1]
    BY <2>2, FlattenOne
  <2>4. Pieces(h, k, k)[1] = h[k].data
    BY <2>2 DEF Pieces
  <2>. QED BY <1>2, <2>1, <2>3, <2>4
<1>3. CASE k # 1 /\ h[k - 1].status = INCOMPLETE
  <2>. DEFINE a == FirstCall(h, k)
              n == k - a
  <2>1. a = FirstCall(h, k - 1) /\ k - 1 \in Nat \ {0} /\ k - 1 \in 1 .. Len(h)
    BY <1>1, <1>3, FirstCallIs
  <2>2. a \in 1 .. k - 1 /\ a \in 1 .. k
    BY <1>1, <2>1, FirstCallIs
  <2>3. BytesIn(h, k) = FlattenSeq(Pieces(h, a, k))
        /\ BytesIn(h, k - 1) = FlattenSeq(Pieces(h, a, k - 1))
    BY <2>1, PiecesOfCalls
  <2>. HIDE DEF a
  <2>4. n \in Nat \ {0} /\ (k - 1) - a + 1 = n /\ k - a + 1 = n + 1 /\ n + 1 \in 1 .. n + 1
        /\ a + (n + 1) - 1 = k
    BY <1>1, <2>2, SMT
  <2>5. Len(Pieces(h, a, k)) = n + 1 /\ Len(Pieces(h, a, k - 1)) = n
    BY <1>1, <2>1, <2>2, <2>4, PiecesLen
  <2>6. \A i \in 1 .. n : i \in 1 .. n + 1
    BY <2>4, SMT
  <2>. HIDE DEF n
  <2>7. \A i \in 1 .. n : Pieces(h, a, k)[i] = Pieces(h, a, k - 1)[i]
    BY <2>4, <2>6 DEF Pieces
  <2>8. Pieces(h, a, k)[n + 1] = h[k].data
    BY <2>4 DEF Pieces
  <2>9. FlattenSeq(Pieces(h, a, k)) = FlattenSeq(Pieces(h, a, k - 1)) \o Pieces(h, a, k)[n + 1]
    BY <2>4, <2>5, <2>7, FlattenGrows
  <2>. QED BY <1>3, <2>3, <2>8, <2>9
<1>. QED BY <1>2, <1>3

(* A call does not change what those before it gave.                       *)
LEMMA BytesStay ==
  ASSUME NEW h \in Seq(Report), NEW c \in Report, NEW k \in 1 .. Len(h)
  PROVE  BytesIn(Append(h, c), k) = BytesIn(h, k)
<1>1. Append(h, c) \in Seq(Report) /\ Len(h) \in Nat /\ Len(Append(h, c)) = Len(h) + 1
      /\ \A i \in 1 .. Len(h) : Append(h, c)[i] = h[i]
  BY AppendProperties, LenProperties
<1>2. k \in Nat \ {0} /\ k \in 1 .. Len(Append(h, c))
  BY <1>1, SMT
<1>. DEFINE ends(g) == {j \in 1 .. k - 1 : g[j].status # INCOMPLETE}
<1>3. \A j \in 1 .. k : j \in 1 .. Len(h)
  BY <1>1, SMT
<1>4. \A j \in 1 .. k - 1 : Append(h, c)[j] = h[j]
  BY <1>1, <1>2, <1>3, SMT
<1>5. ends(Append(h, c)) = ends(h)
  BY <1>4
<1>6. FirstCall(Append(h, c), k) = FirstCall(h, k)
  BY <1>5 DEF FirstCall
<1>. DEFINE a == FirstCall(h, k)
<1>7. a \in 1 .. k
  BY <1>2, FirstCallIs
<1>. HIDE DEF a
<1>8. \A j \in 1 .. k - a + 1 : a + j - 1 \in 1 .. Len(h)
  BY <1>1, <1>2, <1>7, SMT
<1>9. Pieces(Append(h, c), a, k) = Pieces(h, a, k)
  BY <1>1, <1>8 DEF Pieces
<1>. QED BY <1>1, <1>2, <1>6, <1>9, PiecesOfCalls DEF a

(* What was handed over of a message whose end has not been reached.       *)
Pending(h) ==
  IF h # <<>> /\ h[Len(h)].status = INCOMPLETE THEN BytesIn(h, Len(h)) ELSE <<>>

LEMMA PendingGrows ==
  ASSUME NEW h \in Seq(Report), NEW c \in Report
  PROVE  LET g == Append(h, c)
         IN  /\ g \in Seq(Report) /\ Len(g) = Len(h) + 1 /\ g[Len(g)] = c
             /\ \A k \in 1 .. Len(h) : g[k] = h[k]
             /\ BytesIn(g, Len(g)) = Pending(h) \o c.data
             /\ Pending(g) = IF c.status = INCOMPLETE THEN Pending(h) \o c.data ELSE <<>>
<1>. DEFINE g == Append(h, c)
            n == Len(h)
<1>1. g \in Seq(Report) /\ n \in Nat /\ Len(g) = n + 1
      /\ (\A i \in 1 .. n : g[i] = h[i]) /\ g[n + 1] = c
  BY AppendProperties, LenProperties
<1>. HIDE DEF g, n
<1>2. n + 1 \in 1 .. Len(g) /\ (n + 1) - 1 = n
  BY <1>1, SMT
<1>3. BytesIn(g, n + 1) = IF n + 1 = 1 \/ g[(n + 1) - 1].status # INCOMPLETE
                          THEN g[n + 1].data ELSE BytesIn(g, (n + 1) - 1) \o g[n + 1].data
  BY <1>1, <1>2, BytesGoOn
<1>4. c.data \in Seq(Byte)
  BY DEF Report
<1>5. BytesIn(g, n + 1) = Pending(h) \o c.data
  <2>1. CASE n = 0
    <3>1. h = <<>>
      BY <2>1, EmptySeq DEF n
    <3>2. Pending(h) = <<>>
      BY <3>1 DEF Pending
    <3>3. <<>> \o c.data = c.data
      BY <1>4, ConcatEmptySeq
    <3>. QED BY <1>1, <1>3, <2>1, <3>2, <3>3
  <2>2. CASE n # 0
    <3>1. n \in 1 .. n /\ h # <<>> /\ n + 1 # 1
      BY <1>1, <2>2, EmptySeq, SMT DEF n
    <3>2. g[n] = h[n] /\ BytesIn(g, n) = BytesIn(h, n)
      BY <1>1, <3>1, BytesStay DEF g, n
    <3>3. CASE h[n].status = INCOMPLETE
      <4>1. Pending(h) = BytesIn(h, n)
        BY <3>1, <3>3 DEF Pending, n
      <4>. QED BY <1>1, <1>2, <1>3, <3>1, <3>2, <3>3, <4>1
    <3>4. CASE h[n].status # INCOMPLETE
      <4>1. Pending(h) = <<>>
        BY <3>1, <3>4 DEF Pending, n
      <4>2. <<>> \o c.data = c.data
        BY <1>4, ConcatEmptySeq
      <4>. QED BY <1>1, <1>2, <1>3, <3>1, <3>2, <3>4, <4>1, <4>2
    <3>. QED BY <3>3, <3>4
  <2>. QED BY <2>1, <2>2
<1>6. g # <<>>
  BY <1>1, EmptySeq, SMT
<1>7. Pending(g) = IF c.status = INCOMPLETE THEN Pending(h) \o c.data ELSE <<>>
  BY <1>1, <1>5, <1>6 DEF Pending
<1>. QED BY <1>1, <1>5, <1>7 DEF g, n

LEMMA BytesTyped ==
  ASSUME NEW h \in Seq(Report)
  PROVE  /\ \A k \in 1 .. Len(h) : BytesIn(h, k) \in Seq(Byte)
         /\ Pending(h) \in Seq(Byte)
<1>. DEFINE Bad == {k \in 1 .. Len(h) : BytesIn(h, k) \notin Seq(Byte)}
<1>0. Len(h) \in Nat /\ \A k \in 1 .. Len(h) : h[k].data \in Seq(Byte)
  <2>1. \A k \in 1 .. Len(h) : h[k] \in Report
    BY ElementOfSeq
  <2>. QED BY <2>1, LenProperties DEF Report
<1>1. Bad = {}
  <2>. SUFFICES ASSUME Bad # {} PROVE FALSE
    OBVIOUS
  <2>1. Bad \in SUBSET Nat
    BY <1>0, SMT
  <2>2. PICK k \in Bad : \A j \in Bad : k <= j
    <3>. HIDE DEF Bad
    <3>. QED BY <2>1, LeastExists
  <2>3. BytesIn(h, k) = IF k = 1 \/ h[k - 1].status # INCOMPLETE THEN h[k].data
                        ELSE BytesIn(h, k - 1) \o h[k].data
    BY <2>2, BytesGoOn
  <2>4. k # 1 => k - 1 \in 1 .. Len(h) /\ ~(k <= k - 1)
    BY <1>0, <2>2, SMT
  <2>5. k # 1 => BytesIn(h, k - 1) \in Seq(Byte)
    BY <2>2, <2>4
  <2>6. k # 1 => BytesIn(h, k - 1) \o h[k].data \in Seq(Byte)
    BY <1>0, <2>2, <2>5, ConcatProperties
  <2>. QED BY <1>0, <2>2, <2>3, <2>6
<1>2. <<>> \in Seq(Byte)
  BY EmptySeq
<1>3. h # <<>> => Len(h) \in 1 .. Len(h)
  BY <1>0, EmptySeq, SMT
<1>. QED BY <1>1, <1>2, <1>3 DEF Pending

-----------------------------------------------------------------------------
(* Calls that are in order.                                                *)

Message == [stream : Stream, len : Lens]

(* The first n bytes of a message.                                         *)
FirstBytes(id, n) == [i \in 1 .. n |-> <<id, i>>]

LEMMA FirstBytesTyped ==
  ASSUME NEW id \in Nat, NEW n \in Nat
  PROVE  /\ FirstBytes(id, n) \in Seq(Byte) /\ Len(FirstBytes(id, n)) = n
         /\ n # 0 => FirstBytes(id, n)[1][1] = id
         /\ FirstBytes(id, 0) = <<>>
<1>1. FirstBytes(id, n) \in [1 .. n -> Byte]
  <2>1. \A i \in 1 .. n : <<id, i>> \in Byte
    BY DEF Byte
  <2>. QED BY <2>1 DEF FirstBytes
<1>2. FirstBytes(id, n) \in Seq(Byte)
  BY <1>1, SeqDef
<1>3. Len(FirstBytes(id, n)) = n
  BY <1>1, <1>2, LenProperties, SMT
<1>4. n # 0 => FirstBytes(id, n)[1][1] = id
  <2>1. SUFFICES ASSUME n # 0 PROVE FirstBytes(id, n)[1] = <<id, 1>>
    OBVIOUS
  <2>2. 1 \in 1 .. n
    BY <2>1, SMT
  <2>. QED BY <2>2 DEF FirstBytes
<1>5. FirstBytes(id, 0) = <<>>
  BY SMT DEF FirstBytes
<1>. QED BY <1>2, <1>3, <1>4, <1>5

LEMMA OneByteMore ==
  ASSUME NEW id \in Nat, NEW n \in Nat
  PROVE  Append(FirstBytes(id, n), <<id, n + 1>>) = FirstBytes(id, n + 1)
<1>. DEFINE s == FirstBytes(id, n)
            t == FirstBytes(id, n + 1)
            b == <<id, n + 1>>
<1>1. s \in Seq(Byte) /\ Len(s) = n /\ t \in Seq(Byte) /\ Len(t) = n + 1 /\ b \in Byte
  <2>1. n + 1 \in Nat /\ b \in Byte
    BY DEF Byte
  <2>2. s \in Seq(Byte) /\ Len(s) = n
    BY FirstBytesTyped
  <2>3. t \in Seq(Byte) /\ Len(t) = n + 1
    BY <2>1, FirstBytesTyped
  <2>. QED BY <2>1, <2>2, <2>3
<1>2. Append(s, b) \in Seq(Byte) /\ Len(Append(s, b)) = n + 1
      /\ (\A i \in 1 .. n : Append(s, b)[i] = s[i]) /\ Append(s, b)[n + 1] = b
  BY <1>1, AppendProperties
<1>3. \A i \in 1 .. n : s[i] = <<id, i>>
  BY DEF FirstBytes
<1>4. \A i \in 1 .. n + 1 : t[i] = <<id, i>>
  BY DEF FirstBytes
<1>. HIDE DEF s, t, b
<1>5. \A i \in 1 .. n + 1 : i \in 1 .. n \/ i = n + 1
  BY SMT
<1>6. \A i \in 1 .. n + 1 : Append(s, b)[i] = t[i]
  BY <1>2, <1>3, <1>4, <1>5 DEF b
<1>7. Append(s, b) = t
  BY <1>1, <1>2, <1>6, SeqEqual
<1>. QED BY <1>7 DEF s, t, b

(* What a call has given of a message so far is a prefix of it; a message  *)
(* that is complete came before the lim-th.                                *)
InOrder(h, k, msgs, lim) ==
  \E id \in 1 .. Len(msgs) : \E n \in 0 .. msgs[id].len :
    /\ BytesIn(h, k) = FirstBytes(id, n)
    /\ h[k].status = COMPLETE =>
         id < lim /\ n = msgs[id].len /\ h[k].stream = msgs[id].stream

Rising(h) ==
  \A j, k \in 1 .. Len(h) :
    j < k /\ h[j].status = COMPLETE /\ h[k].status = COMPLETE
      => BytesIn(h, j)[1][1] < BytesIn(h, k)[1][1]

Good(h, msgs, lim) == (\A k \in 1 .. Len(h) : InOrder(h, k, msgs, lim)) /\ Rising(h)

LEMMA FirstOfComplete ==
  ASSUME NEW h, NEW k, NEW lim \in Nat, NEW msgs \in Seq(Message),
         InOrder(h, k, msgs, lim), h[k].status = COMPLETE
  PROVE  BytesIn(h, k)[1][1] \in Nat /\ BytesIn(h, k)[1][1] < lim
<1>1. PICK id \in 1 .. Len(msgs) :
        BytesIn(h, k) = FirstBytes(id, msgs[id].len) /\ id < lim
  BY DEF InOrder
<1>. DEFINE n == msgs[id].len
<1>2. msgs[id] \in Message /\ id \in Nat
  BY ElementOfSeq, LenProperties, SMT
<1>3. n \in Nat /\ n # 0
  BY <1>1, <1>2, Constants DEF Message
<1>. HIDE DEF n
<1>4. FirstBytes(id, n)[1][1] = id
  BY <1>2, <1>3, FirstBytesTyped
<1>. QED BY <1>1, <1>2, <1>4 DEF n

LEMMA GoodGrows ==
  ASSUME NEW h \in Seq(Report), NEW c \in Report, NEW msgs \in Seq(Message),
         NEW lim \in Nat, NEW up \in Nat, Good(h, msgs, lim), lim <= up,
         NEW m \in 1 .. Len(msgs), NEW n \in 0 .. msgs[m].len,
         Pending(h) \o c.data = FirstBytes(m, n),
         c.status = COMPLETE =>
           lim <= m /\ m < up /\ n = msgs[m].len /\ c.stream = msgs[m].stream
  PROVE  Good(Append(h, c), msgs, up)
<1>. DEFINE g == Append(h, c)
            e == Len(h) + 1
<1>1. g \in Seq(Report) /\ Len(h) \in Nat /\ Len(g) = e /\ g[e] = c
      /\ (\A k \in 1 .. Len(h) : g[k] = h[k]) /\ BytesIn(g, e) = FirstBytes(m, n)
  <2>1. LET x == Append(h, c)
        IN  /\ x \in Seq(Report) /\ Len(x) = Len(h) + 1 /\ x[Len(x)] = c
            /\ \A k \in 1 .. Len(h) : x[k] = h[k]
            /\ BytesIn(x, Len(x)) = Pending(h) \o c.data
    BY PendingGrows, Zenon
  <2>. QED BY <2>1, LenProperties
<1>2. \A k \in 1 .. Len(h) : BytesIn(g, k) = BytesIn(h, k)
  BY BytesStay
<1>. HIDE DEF g
<1>3. \A k \in 1 .. Len(g) : k \in 1 .. Len(h) \/ k = e
  BY <1>1, SMT
<1>4. ASSUME NEW k \in 1 .. Len(g) PROVE InOrder(g, k, msgs, up)
  <2>1. CASE k \in 1 .. Len(h)
    <3>0. PICK id \in 1 .. Len(msgs) : \E r \in 0 .. msgs[id].len :
            /\ BytesIn(h, k) = FirstBytes(id, r)
            /\ h[k].status = COMPLETE =>
                 id < lim /\ r = msgs[id].len /\ h[k].stream = msgs[id].stream
      BY <2>1 DEF Good, InOrder
    <3>1. PICK r \in 0 .. msgs[id].len :
            /\ BytesIn(h, k) = FirstBytes(id, r)
            /\ h[k].status = COMPLETE =>
                 id < lim /\ r = msgs[id].len /\ h[k].stream = msgs[id].stream
      BY <3>0
    <3>2. id < lim => id < up
      BY LenProperties, SMT
    <3>3. BytesIn(g, k) = FirstBytes(id, r) /\ g[k] = h[k]
      BY <1>1, <1>2, <2>1, <3>1
    <3>4. g[k].status = COMPLETE =>
             id < up /\ r = msgs[id].len /\ g[k].stream = msgs[id].stream
      BY <3>1, <3>2, <3>3
    <3>. QED BY <3>3, <3>4 DEF InOrder
  <2>2. CASE k = e
    BY <1>1, <2>2 DEF InOrder
  <2>. QED BY <1>3, <2>1, <2>2
<1>5. ASSUME NEW j \in 1 .. Len(g), NEW k \in 1 .. Len(g),
             j < k, g[j].status = COMPLETE, g[k].status = COMPLETE
      PROVE  BytesIn(g, j)[1][1] < BytesIn(g, k)[1][1]
  <2>1. j \in 1 .. Len(h)
    BY <1>1, <1>3, <1>5, SMT
  <2>2. g[j] = h[j] /\ BytesIn(g, j) = BytesIn(h, j)
    BY <1>1, <1>2, <2>1
  <2>3. CASE k \in 1 .. Len(h)
    <3>1. g[k] = h[k] /\ BytesIn(g, k) = BytesIn(h, k)
      BY <1>1, <1>2, <2>3
    <3>. QED BY <1>5, <2>1, <2>2, <2>3, <3>1 DEF Good, Rising
  <2>4. CASE k = e
    <3>1. c.status = COMPLETE
      BY <1>1, <1>5, <2>4
    <3>2. BytesIn(h, j)[1][1] \in Nat /\ BytesIn(h, j)[1][1] < lim
      <4>1. InOrder(h, j, msgs, lim) /\ h[j].status = COMPLETE
        BY <1>5, <2>1, <2>2 DEF Good
      <4>. QED BY <4>1, FirstOfComplete
    <3>3. InOrder(g, k, msgs, up)
      BY <1>4
    <3>4. m \in Nat /\ n \in Nat /\ n # 0
      <4>1. msgs[m] \in Message
        BY ElementOfSeq
      <4>. QED BY <3>1, <4>1, Constants, LenProperties, SMT DEF Message
    <3>5. BytesIn(g, k)[1][1] = m
      <4>1. FirstBytes(m, n)[1][1] = m
        BY <3>4, FirstBytesTyped
      <4>. QED BY <1>1, <2>4, <4>1
    <3>6. lim <= m
      BY <3>1
    <3>7. \A x \in Nat : x < lim => x < m
      BY <3>4, <3>6, SMT
    <3>. QED BY <2>2, <3>2, <3>5, <3>7
  <2>. QED BY <1>3, <2>3, <2>4
<1>6. Good(g, msgs, up)
  BY <1>4, <1>5 DEF Good, Rising
<1>. QED BY <1>6 DEF g

-----------------------------------------------------------------------------
(* What the loop over a fragment's payload does.                           *)

Frame     == [stream : Stream, seq : Nat, len : Nat, data : Seq(Byte)]
Reception == [receiving : BOOLEAN, stream : Stream \cup {"NONE"}, length : Nat,
              received : Nat, expected : Nat, held : Seq(Byte)]

Said == [data : Seq(Byte), status : {COMPLETE, INCOMPLETE}]
Loop == [received : Nat, length : Nat, held : Seq(Byte), calls : Seq(Said), done : BOOLEAN]

(* One turn: the loop is over, or it ends the message, or it hands a full  *)
(* buffer over, or it holds the byte.                                      *)
LEMMA OneTurn ==
  ASSUME NEW acc \in Loop, NEW b \in Byte
  PROVE  LET t == TakeByte(acc, b)
         IN  /\ t \in Loop /\ t.length = acc.length
             /\ acc.done => t = acc
             /\ ~acc.done => t.received = acc.received + 1
             /\ ~acc.done /\ acc.received + 1 >= acc.length =>
                  /\ t.done /\ t.held = <<>>
                  /\ t.calls = Append(acc.calls, [data |-> Append(acc.held, b),
                                                  status |-> COMPLETE])
             /\ ~acc.done /\ acc.received + 1 < acc.length =>
                  /\ ~t.done
                  /\ \/ /\ t.held = <<>>
                        /\ t.calls = Append(acc.calls, [data |-> Append(acc.held, b),
                                                        status |-> INCOMPLETE])
                     \/ t.held = Append(acc.held, b) /\ t.calls = acc.calls
<1>. DEFINE t == TakeByte(acc, b)
            got == acc.received + 1
            held == Append(acc.held, b)
            handing(status) == Append(acc.calls, [data |-> held, status |-> status])
<1>1. held \in Seq(Byte) /\ got \in Nat /\ acc.length \in Nat /\ acc.done \in BOOLEAN
  BY AppendProperties DEF Loop
<1>2. handing(COMPLETE) \in Seq(Said) /\ handing(INCOMPLETE) \in Seq(Said)
  BY <1>1, AppendProperties DEF Loop, Said
<1>. HIDE DEF got, held, handing
<1>3. CASE acc.done
  <2>1. t = acc
    BY <1>3, Zenon DEF TakeByte
  <2>. QED BY <1>3, <2>1
<1>4. CASE ~acc.done /\ got >= acc.length
  <2>2. ~(got < acc.length)
    BY <1>1, <1>4, SMT
  <2>1. t = [acc EXCEPT !.received = got, !.held = <<>>, !.done = TRUE,
                        !.calls = handing(COMPLETE)]
    BY <1>4, <2>2, Zenon DEF TakeByte, got, held, handing
  <2>3. t \in Loop
    BY <1>1, <1>2, <2>1, EmptySeq DEF Loop
  <2>4. t.length = acc.length /\ t.received = got /\ t.done /\ t.held = <<>>
        /\ t.calls = handing(COMPLETE)
    BY <2>1 DEF Loop
  <2>. HIDE DEF t
  <2>. QED BY <1>4, <2>2, <2>3, <2>4 DEF got, held, handing, t
<1>5. CASE ~acc.done /\ ~(got >= acc.length) /\ BufferFull(held)
  <2>1. got < acc.length
    BY <1>1, <1>5, SMT
  <2>2. t = [acc EXCEPT !.received = got, !.held = <<>>, !.calls = handing(INCOMPLETE)]
    BY <1>5, <2>1 DEF TakeByte, got, held, handing
  <2>3. t \in Loop
    BY <1>1, <1>2, <2>2, EmptySeq DEF Loop
  <2>4. t.length = acc.length /\ t.received = got /\ t.done = acc.done /\ t.held = <<>>
        /\ t.calls = handing(INCOMPLETE)
    BY <2>2 DEF Loop
  <2>. HIDE DEF t
  <2>. QED BY <1>5, <2>1, <2>3, <2>4 DEF got, held, handing, t
<1>6. CASE ~acc.done /\ ~(got >= acc.length) /\ ~BufferFull(held)
  <2>1. got < acc.length
    BY <1>1, <1>6, SMT
  <2>2. t = [acc EXCEPT !.received = got, !.held = held]
    BY <1>6, <2>1 DEF TakeByte, got, held, handing
  <2>3. t \in Loop
    BY <1>1, <2>2 DEF Loop
  <2>4. t.length = acc.length /\ t.received = got /\ t.done = acc.done /\ t.held = held
        /\ t.calls = acc.calls
    BY <2>2 DEF Loop
  <2>. HIDE DEF t
  <2>. QED BY <1>6, <2>1, <2>3, <2>4 DEF got, held, handing, t
<1>. QED BY <1>3, <1>4, <1>5, <1>6

(* The loop as it begins.                                                  *)
Entered == [received |-> rx.received, length |-> rx.length, held |-> rx.held,
            calls |-> <<>>, done |-> FALSE]

Ends(calls) == \E k \in 1 .. Len(calls) : calls[k].status = COMPLETE

(* After n turns.                                                          *)
Counted(acc, n) ==
  /\ acc \in Loop /\ acc.length = rx.length
  /\ acc.done <=> rx.received + n >= rx.length
  /\ ~acc.done => acc.received = rx.received + n
  /\ acc.done => Ends(acc.calls)

LEMMA CountedAtFirst ==
  ASSUME rx \in Reception, rx.received < rx.length
  PROVE  Counted(Entered, 0)
<1>1. Entered \in Loop
  BY EmptySeq DEF Entered, Loop, Reception
<1>2. /\ Entered.length = rx.length /\ Entered.received = rx.received
      /\ Entered.calls = <<>> /\ Entered.done = FALSE
  BY DEF Entered
<1>3. rx.received \in Nat /\ rx.length \in Nat
  BY DEF Reception
<1>4. rx.received + 0 = rx.received /\ ~(rx.received + 0 >= rx.length)
  BY <1>3, SMT
<1>. QED BY <1>1, <1>2, <1>4 DEF Counted

LEMMA CountedAgain ==
  ASSUME rx \in Reception, NEW acc, NEW b \in Byte, NEW n \in Nat, Counted(acc, n)
  PROVE  Counted(TakeByte(acc, b), n + 1)
<1>. DEFINE t == TakeByte(acc, b)
<1>1. acc \in Loop /\ rx.received \in Nat /\ rx.length \in Nat
  BY DEF Counted, Reception
<1>2. /\ t \in Loop /\ t.length = acc.length
      /\ acc.done => t = acc
      /\ ~acc.done => t.received = acc.received + 1
      /\ ~acc.done /\ acc.received + 1 >= acc.length =>
           /\ t.done
           /\ t.calls = Append(acc.calls, [data |-> Append(acc.held, b),
                                           status |-> COMPLETE])
      /\ ~acc.done /\ acc.received + 1 < acc.length => ~t.done
  BY <1>1, OneTurn, Zenon
<1>. SUFFICES Counted(t, n + 1)
  OBVIOUS
<1>. HIDE DEF t
<1>3. CASE acc.done
  <2>1. rx.received + n >= rx.length
    BY <1>3 DEF Counted
  <2>2. rx.received + (n + 1) >= rx.length
    BY <1>1, <2>1, SMT
  <2>. QED BY <1>2, <1>3, <2>2 DEF Counted
<1>4. CASE ~acc.done
  <2>1. acc.received = rx.received + n /\ acc.length = rx.length
    BY <1>4 DEF Counted
  <2>2. acc.received + 1 = rx.received + (n + 1)
    BY <1>1, <2>1, SMT
  <2>3. CASE rx.received + (n + 1) >= rx.length
    <3>1. t.done /\ t.calls = Append(acc.calls, [data |-> Append(acc.held, b),
                                                 status |-> COMPLETE])
      BY <1>2, <1>4, <2>1, <2>2, <2>3
    <3>. DEFINE c == [data |-> Append(acc.held, b), status |-> COMPLETE]
    <3>2. c \in Said /\ acc.calls \in Seq(Said)
      BY <1>1, AppendProperties DEF Said, Loop
    <3>3. c.status = COMPLETE
      OBVIOUS
    <3>. HIDE DEF c
    <3>4. /\ Len(Append(acc.calls, c)) = Len(acc.calls) + 1 /\ Len(acc.calls) \in Nat
          /\ Append(acc.calls, c)[Len(acc.calls) + 1] = c
      BY <3>2, AppendProperties, LenProperties
    <3>5. Len(acc.calls) + 1 \in 1 .. Len(Append(acc.calls, c))
      BY <3>4, SMT
    <3>6. Ends(Append(acc.calls, c))
      BY <3>3, <3>4, <3>5 DEF Ends
    <3>. QED BY <1>2, <2>1, <2>3, <3>1, <3>6 DEF Counted, c
  <2>4. CASE ~(rx.received + (n + 1) >= rx.length)
    <3>1. acc.received + 1 < acc.length
      BY <1>1, <2>1, <2>2, <2>4, SMT
    <3>. QED BY <1>2, <1>4, <2>1, <2>2, <2>4, <3>1 DEF Counted
  <2>. QED BY <2>3, <2>4
<1>. QED BY <1>3, <1>4

(* The loop goes on as long as the message: it is over with the last byte. *)
LEMMA FragmentCounted ==
  ASSUME rx \in Reception, rx.received < rx.length,
         NEW data \in Seq(Byte)
  PROVE  Counted(TakeFragment(data), Len(data))
<1>1. PICK g : Turns(g, Entered, data) /\ FoldLeft(TakeByte, Entered, data) = g[Len(data)]
  BY FoldTurns
<1>2. TakeFragment(data) = g[Len(data)]
  BY <1>1 DEF TakeFragment, Entered
<1>3. Len(data) \in Nat /\ \A i \in 1 .. Len(data) : data[i] \in Byte
  BY LenProperties, ElementOfSeq
<1>. DEFINE Bad == {i \in 0 .. Len(data) : ~Counted(g[i], i)}
<1>4. Bad = {}
  <2>. SUFFICES ASSUME Bad # {} PROVE FALSE
    OBVIOUS
  <2>1. Bad \in SUBSET Nat
    BY SMT
  <2>2. PICK i \in Bad : \A j \in Bad : i <= j
    <3>. HIDE DEF Bad
    <3>. QED BY <2>1, LeastExists
  <2>3. CASE i = 0
    BY <1>1, <2>2, <2>3, CountedAtFirst DEF Turns
  <2>4. CASE i # 0
    <3>1. i \in 1 .. Len(data) /\ i - 1 \in 0 .. Len(data) /\ i - 1 \in Nat
          /\ ~(i <= i - 1) /\ (i - 1) + 1 = i
      BY <1>3, <2>2, <2>4, SMT
    <3>2. Counted(g[i - 1], i - 1)
      BY <2>2, <3>1
    <3>3. g[i] = TakeByte(g[i - 1], data[i])
      BY <1>1, <3>1 DEF Turns
    <3>4. Counted(TakeByte(g[i - 1], data[i]), (i - 1) + 1)
      BY <1>3, <3>1, <3>2, CountedAgain
    <3>. QED BY <2>2, <3>1, <3>3, <3>4
  <2>. QED BY <2>3, <2>4
<1>5. Len(data) \in 0 .. Len(data)
  BY <1>3, SMT
<1>. QED BY <1>2, <1>4, <1>5

LEMMA ConcatAppend ==
  ASSUME NEW S, NEW s \in Seq(S), NEW t \in Seq(S), NEW e \in S
  PROVE  /\ s \o t \in Seq(S) /\ Append(t, e) \in Seq(S)
         /\ s \o Append(t, e) = Append(s \o t, e)
<1>1. s \o t \in Seq(S) /\ <<e>> \in Seq(S) /\ Append(t, e) \in Seq(S)
  BY ConcatProperties, AppendProperties
<1>2. Append(t, e) = t \o <<e>> /\ Append(s \o t, e) = (s \o t) \o <<e>>
  BY <1>1, AppendIsConcat
<1>. QED BY <1>1, <1>2, ConcatAssociative

(* What the user has been told when the loop has made some calls.          *)
Reported(calls) ==
  [i \in DOMAIN calls |-> Call(calls[i].data, rx.stream, calls[i].status)]
Told(calls) == handed \o Reported(calls)

LEMMA ReportedTyped ==
  ASSUME rx \in Reception, NEW s \in Seq(Said)
  PROVE  /\ Reported(s) \in Seq(Report) /\ Len(Reported(s)) = Len(s)
         /\ \A i \in 1 .. Len(s) :
              Reported(s)[i] = Call(s[i].data, rx.stream, s[i].status)
<1>1. DOMAIN s = 1 .. Len(s) /\ Len(s) \in Nat /\ \A i \in 1 .. Len(s) : s[i] \in Said
  BY LenProperties, ElementOfSeq
<1>2. \A x \in Said : Call(x.data, rx.stream, x.status) \in Report
  BY DEF Said, Call, Report, Reception, Status
<1>3. Reported(s) \in [1 .. Len(s) -> Report]
  BY <1>1, <1>2 DEF Reported
<1>4. Reported(s) \in Seq(Report)
  BY <1>1, <1>3, SeqDef
<1>5. Len(Reported(s)) = Len(s)
  BY <1>1, <1>3, <1>4, LenProperties, SMT
<1>6. \A i \in 1 .. Len(s) : Reported(s)[i] = Call(s[i].data, rx.stream, s[i].status)
  BY <1>1 DEF Reported
<1>. QED BY <1>4, <1>5, <1>6

LEMMA ToldNothing ==
  ASSUME handed \in Seq(Report)
  PROVE  Told(<<>>) = handed
<1>1. Reported(<<>>) = <<>>
  BY EmptySeq DEF Reported
<1>. QED BY <1>1, ConcatEmptySeq DEF Told

LEMMA ToldMore ==
  ASSUME handed \in Seq(Report), rx \in Reception, NEW calls \in Seq(Said), NEW c \in Said
  PROVE  /\ Told(calls) \in Seq(Report)
         /\ Call(c.data, rx.stream, c.status) \in Report
         /\ Told(Append(calls, c)) = Append(Told(calls), Call(c.data, rx.stream, c.status))
<1>. DEFINE r == Call(c.data, rx.stream, c.status)
            more == Append(calls, c)
            n == Len(calls)
<1>1. r \in Report
  BY DEF Said, Call, Report, Reception, Status
<1>. HIDE DEF r
<1>2. more \in Seq(Said) /\ n \in Nat /\ Len(more) = n + 1 /\ more[n + 1] = c
      /\ \A i \in 1 .. n : more[i] = calls[i]
  BY AppendProperties, LenProperties
<1>. HIDE DEF more, n
<1>3. Reported(calls) \in Seq(Report) /\ Len(Reported(calls)) = n
      /\ \A i \in 1 .. n :
           Reported(calls)[i] = Call(calls[i].data, rx.stream, calls[i].status)
  BY ReportedTyped DEF n
<1>4. Reported(more) \in Seq(Report) /\ Len(Reported(more)) = n + 1
      /\ \A i \in 1 .. n + 1 :
           Reported(more)[i] = Call(more[i].data, rx.stream, more[i].status)
  BY <1>2, ReportedTyped
<1>5. Append(Reported(calls), r) \in Seq(Report)
      /\ Len(Append(Reported(calls), r)) = n + 1
      /\ (\A i \in 1 .. n : Append(Reported(calls), r)[i] = Reported(calls)[i])
      /\ Append(Reported(calls), r)[n + 1] = r
  BY <1>1, <1>3, AppendProperties
<1>6. ASSUME NEW i \in 1 .. n + 1 PROVE Reported(more)[i] = Append(Reported(calls), r)[i]
  <2>1. CASE i = n + 1
    BY <1>2, <1>4, <1>5, <2>1 DEF r
  <2>2. CASE i # n + 1
    <3>1. i \in 1 .. n
      BY <1>2, <2>2, SMT
    <3>. QED BY <1>2, <1>3, <1>4, <1>5, <3>1
  <2>. QED BY <2>1, <2>2
<1>7. Reported(more) = Append(Reported(calls), r)
  BY <1>4, <1>5, <1>6, SeqEqual
<1>8. /\ handed \o Reported(calls) \in Seq(Report)
      /\ handed \o Append(Reported(calls), r) = Append(handed \o Reported(calls), r)
  BY <1>1, <1>3, ConcatAppend
<1>. QED BY <1>1, <1>7, <1>8 DEF Told, more, r

(* Nothing has been handed over of a message that has not ended.           *)
Settled(h) == Pending(h) = <<>>

(* The m-th message is being received, and so far what was handed over and *)
(* what is held of it are its first bytes.                                 *)
Receiving(m) ==
  /\ m \in 1 .. Len(sent) /\ rx.stream = sent[m].stream /\ rx.length = sent[m].len
  /\ rx.received < rx.length
  /\ Good(handed, sent, m) /\ Pending(handed) \o rx.held = FirstBytes(m, rx.received)

(* After n turns over its next bytes.                                      *)
Delivers(acc, n, m) ==
  /\ ~acc.done => /\ Good(Told(acc.calls), sent, m)
                  /\ Pending(Told(acc.calls)) \o acc.held = FirstBytes(m, rx.received + n)
  /\ acc.done => Good(Told(acc.calls), sent, m + 1) /\ Settled(Told(acc.calls))

LEMMA HandsOver ==
  ASSUME rx \in Reception, handed \in Seq(Report), sent \in Seq(Message), NEW m, Receiving(m),
         NEW calls \in Seq(Said), NEW s \in Said, NEW n \in 0 .. sent[m].len,
         Good(Told(calls), sent, m), Pending(Told(calls)) \o s.data = FirstBytes(m, n),
         s.status = COMPLETE => n = sent[m].len
  PROVE  /\ Append(calls, s) \in Seq(Said)
         /\ s.status = INCOMPLETE =>
              /\ Good(Told(Append(calls, s)), sent, m)
              /\ Pending(Told(Append(calls, s))) = FirstBytes(m, n)
         /\ s.status = COMPLETE =>
              /\ Good(Told(Append(calls, s)), sent, m + 1)
              /\ Settled(Told(Append(calls, s)))
<1>. DEFINE more == Append(calls, s)
            h == Told(calls)
            c == Call(s.data, rx.stream, s.status)
<1>2. h \in Seq(Report) /\ c \in Report /\ Told(more) = Append(h, c) /\ more \in Seq(Said)
  BY ToldMore, AppendProperties
<1>3. c.data = s.data /\ c.status = s.status /\ c.stream = sent[m].stream
  BY DEF Call, Receiving
<1>. SUFFICES /\ s.status = INCOMPLETE =>
                   Good(Told(more), sent, m) /\ Pending(Told(more)) = FirstBytes(m, n)
              /\ s.status = COMPLETE =>
                   Good(Told(more), sent, m + 1) /\ Settled(Told(more))
  BY <1>2
<1>. HIDE DEF h, c, more
<1>4. m \in 1 .. Len(sent) /\ m \in Nat /\ m + 1 \in Nat /\ m <= m /\ m <= m + 1 /\ m < m + 1
  BY LenProperties, SMT DEF Receiving
<1>5. Pending(Append(h, c)) = IF s.status = INCOMPLETE THEN FirstBytes(m, n) ELSE <<>>
  <2>1. Pending(Append(h, c)) = IF c.status = INCOMPLETE THEN Pending(h) \o c.data ELSE <<>>
    BY <1>2, PendingGrows, Zenon
  <2>. QED BY <1>3, <2>1 DEF h
<1>6. Good(h, sent, m) /\ Pending(h) \o c.data = FirstBytes(m, n)
  BY <1>3 DEF h
<1>7. COMPLETE # INCOMPLETE
  BY DEF COMPLETE, INCOMPLETE
<1>8. ASSUME s.status = INCOMPLETE PROVE Good(Append(h, c), sent, m)
  <2>1. c.status # COMPLETE
    BY <1>3, <1>7, <1>8
  <2>. QED BY <1>2, <1>4, <1>6, <2>1, GoodGrows
<1>9. ASSUME s.status = COMPLETE PROVE Good(Append(h, c), sent, m + 1)
  <2>1. n = sent[m].len
    BY <1>9
  <2>. QED BY <1>2, <1>3, <1>4, <1>6, <2>1, GoodGrows
<1>. QED BY <1>2, <1>5, <1>7, <1>8, <1>9 DEF Settled

LEMMA DeliversAgain ==
  ASSUME rx \in Reception, handed \in Seq(Report), sent \in Seq(Message), NEW m, Receiving(m),
         NEW acc, NEW n \in Nat, Counted(acc, n), Delivers(acc, n, m), NEW b \in Byte,
         rx.received + n < rx.length => b = <<m, (rx.received + n) + 1>>
  PROVE  Delivers(TakeByte(acc, b), n + 1, m)
<1>. DEFINE t == TakeByte(acc, b)
            got == rx.received + n
            held == Append(acc.held, b)
<1>1. acc \in Loop /\ rx.received \in Nat /\ rx.length \in Nat /\ acc.length = rx.length
      /\ m \in Nat /\ m \in 1 .. Len(sent)
  BY LenProperties, SMT DEF Counted, Reception, Receiving
<1>2. /\ t \in Loop /\ t.length = acc.length
      /\ acc.done => t = acc
      /\ ~acc.done => t.received = acc.received + 1
      /\ ~acc.done /\ acc.received + 1 >= acc.length =>
           /\ t.done /\ t.held = <<>>
           /\ t.calls = Append(acc.calls, [data |-> held, status |-> COMPLETE])
      /\ ~acc.done /\ acc.received + 1 < acc.length =>
           /\ ~t.done
           /\ \/ /\ t.held = <<>>
                 /\ t.calls = Append(acc.calls, [data |-> held, status |-> INCOMPLETE])
              \/ t.held = held /\ t.calls = acc.calls
  BY <1>1, OneTurn, Zenon
<1>. SUFFICES Delivers(t, n + 1, m)
  OBVIOUS
<1>. HIDE DEF t
<1>3. CASE acc.done
  BY <1>2, <1>3 DEF Delivers
<1>4. CASE ~acc.done
  <2>1. acc.received = got /\ got < rx.length
    BY <1>1, <1>4, SMT DEF Counted
  <2>2. got \in Nat /\ got + 1 <= rx.length /\ rx.received + (n + 1) = got + 1
    BY <1>1, <2>1, SMT
  <2>3. b = <<m, got + 1>> /\ acc.held \in Seq(Byte) /\ acc.calls \in Seq(Said)
    BY <1>1, <2>1 DEF Loop
  <2>4. Told(acc.calls) \in Seq(Report) /\ Good(Told(acc.calls), sent, m)
        /\ Pending(Told(acc.calls)) \o acc.held = FirstBytes(m, got)
    <3>1. Told(acc.calls) \in Seq(Report)
      BY <2>3, ReportedTyped, ConcatProperties DEF Told
    <3>. QED BY <1>4, <3>1 DEF Delivers
  <2>. HIDE DEF got
  <2>5. held \in Seq(Byte) /\ Pending(Told(acc.calls)) \o held = FirstBytes(m, got + 1)
    <3>1. Pending(Told(acc.calls)) \in Seq(Byte)
      BY <2>4, BytesTyped
    <3>. DEFINE x == Pending(Told(acc.calls))
                y == acc.held
    <3>a. x \in Seq(Byte) /\ y \in Seq(Byte)
      BY <2>3, <3>1
    <3>. HIDE DEF x, y
    <3>b. Append(y, b) \in Seq(Byte) /\ x \o Append(y, b) = Append(x \o y, b)
      BY <3>a, ConcatAppend
    <3>2. held \in Seq(Byte) /\ Pending(Told(acc.calls)) \o held
                                = Append(Pending(Told(acc.calls)) \o acc.held, b)
      BY <3>b DEF x, y
    <3>3. Append(FirstBytes(m, got), <<m, got + 1>>) = FirstBytes(m, got + 1)
      BY <1>1, <2>2, OneByteMore
    <3>. QED BY <2>3, <2>4, <3>2, <3>3
  <2>6. got + 1 \in 0 .. sent[m].len /\ sent[m].len = rx.length
    BY <1>1, <2>2, SMT DEF Receiving
  <2>. HIDE DEF held
  <2>. DEFINE k == got + 1
              cs == acc.calls
  <2>a. cs \in Seq(Said) /\ k \in 0 .. sent[m].len /\ Good(Told(cs), sent, m)
        /\ Pending(Told(cs)) \o held = FirstBytes(m, k)
    BY <2>3, <2>4, <2>5, <2>6
  <2>b. ASSUME NEW c \in Said, c.data = held, c.status = COMPLETE => k = sent[m].len
        PROVE  /\ c.status = INCOMPLETE =>
                    /\ Good(Told(Append(cs, c)), sent, m)
                    /\ Pending(Told(Append(cs, c))) = FirstBytes(m, k)
               /\ c.status = COMPLETE =>
                    /\ Good(Told(Append(cs, c)), sent, m + 1)
                    /\ Settled(Told(Append(cs, c)))
    <3>. HIDE DEF k, cs
    <3>1. Pending(Told(cs)) \o c.data = FirstBytes(m, k)
      BY <2>a, <2>b
    <3>2. cs \in Seq(Said) /\ k \in 0 .. sent[m].len /\ Good(Told(cs), sent, m) /\ c \in Said
          /\ (c.status = COMPLETE => k = sent[m].len)
      BY <2>a, <2>b
    <3>3. c.status = INCOMPLETE => Good(Told(Append(cs, c)), sent, m)
      BY <3>1, <3>2, HandsOver
    <3>4. c.status = INCOMPLETE => Pending(Told(Append(cs, c))) = FirstBytes(m, k)
      BY <3>1, <3>2, HandsOver
    <3>5. c.status = COMPLETE => Good(Told(Append(cs, c)), sent, m + 1)
      BY <3>1, <3>2, HandsOver
    <3>6. c.status = COMPLETE => Settled(Told(Append(cs, c)))
      BY <3>1, <3>2, HandsOver
    <3>. QED BY <3>3, <3>4, <3>5, <3>6
  <2>7. CASE got + 1 >= rx.length
    <3>1. t.done /\ t.calls = Append(acc.calls, [data |-> held, status |-> COMPLETE])
      BY <1>1, <1>2, <1>4, <2>1, <2>7
    <3>2. got + 1 = sent[m].len
      BY <1>1, <2>2, <2>6, <2>7, SMT
    <3>. DEFINE c == [data |-> held, status |-> COMPLETE]
    <3>3. c \in Said /\ c.data = held /\ c.status = COMPLETE
      BY <2>5 DEF Said
    <3>. HIDE DEF c
    <3>4. Good(Told(Append(acc.calls, c)), sent, m + 1)
          /\ Settled(Told(Append(acc.calls, c)))
      BY <2>b, <3>2, <3>3, Zenon
    <3>. QED BY <3>1, <3>4, Zenon DEF Delivers, c
  <2>8. CASE ~(got + 1 >= rx.length)
    <3>1. acc.received + 1 < acc.length
      BY <1>1, <2>1, <2>2, <2>8, SMT
    <3>2. ~t.done
      BY <1>2, <1>4, <3>1
    <3>3. CASE /\ t.held = <<>>
               /\ t.calls = Append(acc.calls, [data |-> held, status |-> INCOMPLETE])
      <4>1. COMPLETE # INCOMPLETE
        BY DEF COMPLETE, INCOMPLETE
      <4>2. Good(Told(t.calls), sent, m) /\ Pending(Told(t.calls)) = FirstBytes(m, got + 1)
        <5>. DEFINE c == [data |-> held, status |-> INCOMPLETE]
        <5>2. c \in Said /\ c.data = held /\ c.status = INCOMPLETE /\ c.status # COMPLETE
          BY <2>5, <4>1 DEF Said
        <5>. HIDE DEF c
        <5>1. Good(Told(Append(acc.calls, c)), sent, m)
              /\ Pending(Told(Append(acc.calls, c))) = FirstBytes(m, got + 1)
          BY <2>b, <5>2, Zenon
        <5>. QED BY <3>3, <5>1, Zenon DEF c
      <4>3. FirstBytes(m, got + 1) \in Seq(Byte)
        BY <1>1, <2>2, FirstBytesTyped
      <4>4. Pending(Told(t.calls)) \o t.held = FirstBytes(m, got + 1)
        BY <3>3, <4>2, <4>3, ConcatEmptySeq
      <4>. QED BY <2>2, <3>2, <4>2, <4>4 DEF Delivers
    <3>4. CASE t.held = held /\ t.calls = acc.calls
      BY <2>2, <2>4, <2>5, <3>2, <3>4 DEF Delivers
    <3>. QED BY <1>2, <1>4, <3>1, <3>3, <3>4
  <2>. QED BY <2>7, <2>8
<1>. QED BY <1>3, <1>4

LEMMA DeliversAtFirst ==
  ASSUME rx \in Reception, handed \in Seq(Report), NEW m, Receiving(m)
  PROVE  Delivers(Entered, 0, m)
<1>1. Entered.calls = <<>> /\ Entered.held = rx.held /\ Entered.done = FALSE
  BY DEF Entered
<1>2. Told(Entered.calls) = handed
  BY <1>1, ToldNothing
<1>3. rx.received + 0 = rx.received
  BY SMT DEF Reception
<1>. QED BY <1>1, <1>2, <1>3, Zenon DEF Delivers, Receiving

(* The next fragment of the message being received hands over its next     *)
(* bytes, and the message is complete with its last.                       *)
LEMMA FragmentDelivers ==
  ASSUME rx \in Reception, handed \in Seq(Report), sent \in Seq(Message), NEW m, Receiving(m),
         NEW data \in Seq(Byte),
         \A i \in 1 .. Len(data) : rx.received + i <= rx.length =>
                                     data[i] = <<m, rx.received + i>>
  PROVE  /\ Counted(TakeFragment(data), Len(data))
         /\ Delivers(TakeFragment(data), Len(data), m)
<1>1. PICK g : Turns(g, Entered, data) /\ FoldLeft(TakeByte, Entered, data) = g[Len(data)]
  BY FoldTurns
<1>2. TakeFragment(data) = g[Len(data)]
  BY <1>1 DEF TakeFragment, Entered
<1>3. Len(data) \in Nat /\ (\A i \in 1 .. Len(data) : data[i] \in Byte)
      /\ rx.received \in Nat /\ rx.length \in Nat
  BY LenProperties, ElementOfSeq DEF Reception
<1>. DEFINE Bad == {i \in 0 .. Len(data) : ~(Counted(g[i], i) /\ Delivers(g[i], i, m))}
<1>4. Bad = {}
  <2>. SUFFICES ASSUME Bad # {} PROVE FALSE
    OBVIOUS
  <2>1. Bad \in SUBSET Nat
    BY SMT
  <2>2. PICK i \in Bad : \A j \in Bad : i <= j
    <3>. HIDE DEF Bad
    <3>. QED BY <2>1, LeastExists
  <2>3. CASE i = 0
    <3>1. rx.received < rx.length /\ g[0] = Entered
      BY <1>1 DEF Receiving, Turns
    <3>2. Counted(Entered, 0) /\ Delivers(Entered, 0, m)
      BY <3>1, CountedAtFirst, DeliversAtFirst
    <3>. QED BY <2>2, <2>3, <3>1, <3>2
  <2>4. CASE i # 0
    <3>1. i \in 1 .. Len(data) /\ i - 1 \in 0 .. Len(data) /\ i - 1 \in Nat
          /\ ~(i <= i - 1) /\ (i - 1) + 1 = i
      BY <1>3, <2>2, <2>4, SMT
    <3>2. Counted(g[i - 1], i - 1) /\ Delivers(g[i - 1], i - 1, m)
      BY <2>2, <3>1
    <3>3. g[i] = TakeByte(g[i - 1], data[i])
      BY <1>1, <3>1 DEF Turns
    <3>. DEFINE n == i - 1
                acc == g[n]
                b == data[i]
    <3>4. n \in Nat /\ b \in Byte /\ Counted(acc, n) /\ Delivers(acc, n, m)
      BY <1>3, <3>1, <3>2
    <3>5. rx.received + n < rx.length => b = <<m, (rx.received + n) + 1>>
      <4>1. SUFFICES ASSUME rx.received + n < rx.length PROVE b = <<m, (rx.received + n) + 1>>
        OBVIOUS
      <4>2. rx.received + i <= rx.length /\ (rx.received + n) + 1 = rx.received + i
        BY <1>3, <3>1, <4>1, SMT
      <4>3. b = <<m, rx.received + i>>
        BY <3>1, <4>2
      <4>. QED BY <4>2, <4>3
    <3>. HIDE DEF n, acc, b
    <3>6. Counted(TakeByte(acc, b), n + 1) /\ Delivers(TakeByte(acc, b), n + 1, m)
      BY <3>4, <3>5, CountedAgain, DeliversAgain
    <3>. QED BY <2>2, <3>1, <3>3, <3>6 DEF n, acc, b
  <2>. QED BY <2>3, <2>4
<1>5. Len(data) \in 0 .. Len(data)
  BY <1>3, SMT
<1>. QED BY <1>2, <1>4, <1>5

-----------------------------------------------------------------------------
(* Where the frames are from.                                              *)

(* The bytes in n fragments.                                               *)
Offset(n) == n * FragBytes

LEMMA Offsets ==
  /\ Offset(0) = 0
  /\ \A n \in Nat : Offset(n) \in Nat /\ Offset(n + 1) = Offset(n) + FragBytes
  /\ \A n \in Nat : n # 0 => Offset(n) = Offset(n - 1) + FragBytes
BY Constants, SMT DEF Offset

(* A position <<id, n>> is that of the n-th fragment of the id-th message, *)
(* its header being the 0-th.  <<0, 0>> is before them all.                *)
Position == Nat \X Nat

Payload(ms, a) ==
  [i \in 1 .. FragBytes |->
     IF Offset(a[2] - 1) + i <= ms[a[1]].len THEN <<a[1], Offset(a[2] - 1) + i>> ELSE Pad]

FrameAt(ms, a) ==
  IF a[2] = 0 THEN Header(ms[a[1]].stream, ms[a[1]].len)
              ELSE DataFrame(ms[a[1]].stream, a[2], Payload(ms, a))

(* A message has the fragment.                                             *)
Exists(ms, a) ==
  a[1] \in 1 .. Len(ms) /\ (a[2] = 0 \/ Offset(a[2] - 1) < ms[a[1]].len)

(* What comes after it.                                                    *)
After(ms, a) ==
  IF Offset(a[2]) < ms[a[1]].len THEN <<a[1], a[2] + 1>> ELSE <<a[1] + 1, 0>>

(* The frame made next, when one message is sent at a time.                *)
Working(s) ==
  /\ is_sending(s) /\ out[s].id = Len(sent)
  /\ out[s].seq # 0 /\ out[s].index = Offset(out[s].seq - 1)
  /\ \A t \in Sender : t # s => ~is_sending(t)

Making(a) ==
  \/ \E s \in Sender : Working(s) /\ a = <<Len(sent), out[s].seq>>
  \/ (\A s \in Sender : ~is_sending(s)) /\ a = <<Len(sent) + 1, 0>>

(* The positions of the frame received last, of those on the bus, and of   *)
(* the one made next.                                                      *)
Path(P) ==
  /\ P \in Seq(Position) /\ Len(P) = Len(bus) + 2
  /\ Making(P[Len(P)])
  /\ P[1] = <<0, 0>> \/ Exists(sent, P[1])
  /\ \A i \in 1 .. Len(bus) : Exists(sent, P[i + 1]) /\ bus[i] = FrameAt(sent, P[i + 1])

LEMMA PayloadTyped ==
  ASSUME NEW ms \in Seq(Message), NEW a \in Position, Exists(ms, a), a[2] # 0
  PROVE  /\ Payload(ms, a) \in Seq(Byte) /\ Len(Payload(ms, a)) = FragBytes
         /\ \A i \in 1 .. FragBytes : Offset(a[2] - 1) + i <= ms[a[1]].len =>
              Payload(ms, a)[i] = <<a[1], Offset(a[2] - 1) + i>>
<1>1. a[1] \in Nat /\ a[2] \in Nat /\ a[2] - 1 \in Nat /\ Offset(a[2] - 1) \in Nat
  <2>1. a[1] \in Nat /\ a[2] \in Nat
    BY DEF Position
  <2>2. a[2] - 1 \in Nat
    BY <2>1, SMT
  <2>. QED BY <2>1, <2>2, Offsets
<1>. DEFINE o == Offset(a[2] - 1)
<1>2. FragBytes \in Nat
  BY Constants
<1>3. \A i \in 1 .. FragBytes : <<a[1], o + i>> \in Byte
  <2>. HIDE DEF o
  <2>1. o \in Nat
    BY <1>1 DEF o
  <2>. QED BY <1>1, <1>2, <2>1, SMT DEF Byte
<1>4. Pad \in Byte
  BY DEF Pad, Byte
<1>5. Payload(ms, a) \in [1 .. FragBytes -> Byte]
  BY <1>3, <1>4 DEF Payload
<1>6. Payload(ms, a) \in Seq(Byte)
  BY <1>2, <1>5, SeqDef
<1>7. Len(Payload(ms, a)) = FragBytes
  BY <1>2, <1>5, <1>6, LenProperties, SMT
<1>. QED BY <1>6, <1>7 DEF Payload

LEMMA FrameTyped ==
  ASSUME NEW ms \in Seq(Message), NEW a \in Position, Exists(ms, a)
  PROVE  /\ ms[a[1]] \in Message
         /\ FrameAt(ms, a) \in Frame /\ FrameAt(ms, a).stream = ms[a[1]].stream
         /\ a[2] = 0 => FrameAt(ms, a) = Header(ms[a[1]].stream, ms[a[1]].len)
         /\ a[2] = 0 => FrameAt(ms, a).seq = 0
         /\ a[2] # 0 => FrameAt(ms, a).data = Payload(ms, a)
<1>1. ms[a[1]] \in Message
  BY ElementOfSeq DEF Exists
<1>2. CASE a[2] = 0
  <2>1. FrameAt(ms, a) = Header(ms[a[1]].stream, ms[a[1]].len)
    BY <1>2 DEF FrameAt
  <2>2. ms[a[1]].stream \in Stream /\ ms[a[1]].len \in Nat
    BY <1>1, Constants DEF Message
  <2>3. Header(ms[a[1]].stream, ms[a[1]].len) \in Frame
    BY <2>2, EmptySeq DEF Header, Frame
  <2>. QED BY <1>1, <1>2, <2>1, <2>3 DEF Header
<1>3. CASE a[2] # 0
  <2>1. FrameAt(ms, a) = DataFrame(ms[a[1]].stream, a[2], Payload(ms, a))
    BY <1>3 DEF FrameAt
  <2>2. ms[a[1]].stream \in Stream
    BY <1>1 DEF Message
  <2>3. a[2] % SeqRange \in Nat
    BY Constants, SMT DEF Position
  <2>4. Payload(ms, a) \in Seq(Byte)
    BY <1>3, PayloadTyped
  <2>5. DataFrame(ms[a[1]].stream, a[2], Payload(ms, a)) \in Frame
    BY <2>2, <2>3, <2>4 DEF DataFrame, Frame
  <2>. QED BY <1>1, <1>3, <2>1, <2>5 DEF DataFrame
<1>. QED BY <1>2, <1>3

(* A message more does not change what is known of those before it.        *)
Keeps(ms, ns) ==
  /\ Len(ms) \in Nat /\ Len(ns) \in Nat /\ Len(ms) <= Len(ns)
  /\ \A i \in 1 .. Len(ms) : ns[i] = ms[i]

LEMMA KeepsPlaces ==
  ASSUME NEW ms, NEW ns, Keeps(ms, ns), NEW a, Exists(ms, a)
  PROVE  Exists(ns, a) /\ FrameAt(ns, a) = FrameAt(ms, a) /\ ns[a[1]] = ms[a[1]]
<1>1. a[1] \in 1 .. Len(ms) /\ a[1] \in 1 .. Len(ns)
  BY SMT DEF Keeps, Exists
<1>2. ns[a[1]] = ms[a[1]]
  BY <1>1 DEF Keeps
<1>3. Payload(ns, a) = Payload(ms, a)
  BY <1>2 DEF Payload
<1>. QED BY <1>1, <1>2, <1>3, Zenon DEF Exists, FrameAt

(* A frame is put on the bus, or nothing is and the one that was to be     *)
(* made never comes.                                                       *)
LEMMA PathLonger ==
  ASSUME NEW P, Path(P), Keeps(sent, sent'), bus \in Seq(Frame), NEW q \in Position,
         NEW f \in Frame, bus' = Append(bus, f), Exists(sent', P[Len(P)]),
         f = FrameAt(sent', P[Len(P)]), Making(q)'
  PROVE  Path(Append(P, q))'
<1>. DEFINE Q == Append(P, q)
            n == Len(bus)
<1>1. P \in Seq(Position) /\ Len(P) = n + 2 /\ n \in Nat
  BY LenProperties DEF Path
<1>2. Q \in Seq(Position) /\ Len(Q) = (n + 2) + 1 /\ Q[(n + 2) + 1] = q
      /\ \A i \in 1 .. n + 2 : Q[i] = P[i]
  BY <1>1, AppendProperties
<1>3. bus' \in Seq(Frame) /\ Len(bus') = n + 1 /\ bus'[n + 1] = f
      /\ \A i \in 1 .. n : bus'[i] = bus[i]
  BY <1>1, AppendProperties
<1>. HIDE DEF Q, n
<1>4. (n + 2) + 1 = (n + 1) + 2 /\ 1 \in 1 .. n + 2 /\ (n + 1) + 1 \in 1 .. n + 2
      /\ (n + 1) + 1 = n + 2
      /\ \A i \in 1 .. n + 1 : i + 1 \in 1 .. n + 2 /\ (i \in 1 .. n \/ i = n + 1)
  BY <1>1, SMT
<1>5. Q[1] = <<0, 0>> \/ Exists(sent', Q[1])
  BY <1>2, <1>4, KeepsPlaces DEF Path
<1>6. ASSUME NEW i \in 1 .. n + 1
      PROVE  Exists(sent', Q[i + 1]) /\ bus'[i] = FrameAt(sent', Q[i + 1])
  <2>1. Q[i + 1] = P[i + 1]
    BY <1>2, <1>4
  <2>2. CASE i \in 1 .. n
    <3>1. Exists(sent, P[i + 1]) /\ bus[i] = FrameAt(sent, P[i + 1])
      BY <2>2 DEF Path, n
    <3>2. Exists(sent', P[i + 1]) /\ FrameAt(sent', P[i + 1]) = FrameAt(sent, P[i + 1])
      BY <3>1, KeepsPlaces
    <3>3. bus'[i] = bus[i]
      BY <1>3, <2>2
    <3>. QED BY <2>1, <3>1, <3>2, <3>3
  <2>3. CASE i = n + 1
    <3>1. P[i + 1] = P[Len(P)]
      BY <1>1, <1>4, <2>3
    <3>. QED BY <1>3, <2>1, <2>3, <3>1
  <2>. QED BY <1>4, <2>2, <2>3
<1>7. Q \in Seq(Position) /\ Len(Q) = Len(bus') + 2 /\ Making(Q[Len(Q)])'
  BY <1>2, <1>3, <1>4
<1>8. Path(Q)'
  BY <1>3, <1>5, <1>6, <1>7 DEF Path
<1>. QED BY <1>8 DEF Q

Instead(P, q) == [P EXCEPT ![Len(P)] = q]

LEMMA PathInstead ==
  ASSUME NEW P, Path(P), Keeps(sent, sent'), bus \in Seq(Frame), NEW q \in Position,
         bus' = bus, Making(q)'
  PROVE  Path(Instead(P, q))'
<1>. DEFINE Q == Instead(P, q)
            n == Len(bus)
<1>1. P \in Seq(Position) /\ Len(P) = n + 2 /\ n \in Nat
  BY LenProperties DEF Path
<1>2. Len(P) \in 1 .. Len(P)
  BY <1>1, SMT
<1>3. Q \in Seq(Position) /\ Len(Q) = n + 2 /\ Q[n + 2] = q
      /\ \A i \in 1 .. n + 2 : i # n + 2 => Q[i] = P[i]
  <2>. P \in [1 .. n + 2 -> Position]
    BY <1>1, LenProperties
  <2>1. Q \in [1 .. n + 2 -> Position]
    BY <1>1, <1>2 DEF Instead
  <2>2. Q \in Seq(Position) /\ n + 2 \in Nat
    BY <1>1, <2>1, SeqDef
  <2>3. Len(Q) = n + 2
    <3>. HIDE DEF Q
    <3>. QED BY <2>1, <2>2, LenProperties, SMT
  <2>4. Q[n + 2] = q /\ \A i \in 1 .. n + 2 : i # n + 2 => Q[i] = P[i]
    BY <1>1, <1>2 DEF Instead
  <2>. QED BY <2>2, <2>3, <2>4
<1>. HIDE DEF Q, n
<1>4. 1 \in 1 .. n + 2 /\ 1 # n + 2
      /\ \A i \in 1 .. n : i + 1 \in 1 .. n + 2 /\ i + 1 # n + 2
  BY <1>1, SMT
<1>5. Q[1] = <<0, 0>> \/ Exists(sent', Q[1])
  BY <1>3, <1>4, KeepsPlaces DEF Path
<1>6. ASSUME NEW i \in 1 .. n
      PROVE  Exists(sent', Q[i + 1]) /\ bus'[i] = FrameAt(sent', Q[i + 1])
  <2>1. Q[i + 1] = P[i + 1]
    BY <1>3, <1>4
  <2>2. Exists(sent, P[i + 1]) /\ bus[i] = FrameAt(sent, P[i + 1])
    BY DEF Path, n
  <2>3. Exists(sent', P[i + 1]) /\ FrameAt(sent', P[i + 1]) = FrameAt(sent, P[i + 1])
    BY <2>2, KeepsPlaces
  <2>. QED BY <2>1, <2>2, <2>3
<1>7. Q \in Seq(Position) /\ Len(Q) = Len(bus') + 2 /\ Making(Q[Len(Q)])'
  BY <1>3 DEF n
<1>8. Path(Q)'
  BY <1>5, <1>6, <1>7 DEF Path, n
<1>. QED BY <1>8 DEF Q

(* A frame is taken from the bus.                                          *)
LEMMA PathShorter ==
  ASSUME NEW P, Path(P), bus \in Seq(Frame), bus # <<>>, bus' = Tail(bus),
         UNCHANGED <<sent, out>>
  PROVE  /\ Path(Tail(P))'
         /\ Len(P) >= 3 /\ Len(Tail(P)) = Len(P) - 1
         /\ \A i \in 1 .. Len(P) - 1 : Tail(P)[i] = P[i + 1]
         /\ Exists(sent, P[2]) /\ Head(bus) = FrameAt(sent, P[2]) /\ P[2] \in Position
<1>. DEFINE Q == Tail(P)
            n == Len(bus)
<1>1. P \in Seq(Position) /\ Len(P) = n + 2 /\ n \in Nat /\ n # 0 /\ P # <<>>
  <2>1. P \in Seq(Position) /\ Len(P) = n + 2 /\ n \in Nat
    BY LenProperties DEF Path
  <2>2. n # 0
    BY EmptySeq
  <2>3. Len(P) # 0
    BY <2>1, SMT
  <2>. QED BY <2>1, <2>2, <2>3, EmptySeq
<1>2. Q \in Seq(Position) /\ Len(Q) = Len(P) - 1 /\ \A i \in 1 .. Len(P) - 1 : Q[i] = P[i + 1]
  BY <1>1, HeadTailProperties
<1>3. bus' \in Seq(Frame) /\ Len(bus') = n - 1 /\ (\A i \in 1 .. n - 1 : bus'[i] = bus[i + 1])
      /\ Head(bus) = bus[1]
  BY HeadTailProperties
<1>. HIDE DEF Q, n
<1>4. /\ Len(Q) = n + 1 /\ n + 1 \in 1 .. Len(P) - 1 /\ (n + 1) + 1 = Len(P)
      /\ n + 1 = (n - 1) + 2 /\ 1 \in 1 .. Len(P) - 1 /\ 1 \in 1 .. n /\ 1 + 1 = 2
      /\ Len(P) >= 3 /\ 2 \in 1 .. Len(P)
      /\ \A i \in 1 .. n - 1 : i + 1 \in 1 .. n /\ i + 1 \in 1 .. Len(P) - 1
  BY <1>1, <1>2, SMT
<1>5. \A i \in 1 .. n : Exists(sent, P[i + 1]) /\ bus[i] = FrameAt(sent, P[i + 1])
  BY DEF Path, n
<1>6. Exists(sent, P[2]) /\ Head(bus) = FrameAt(sent, P[2]) /\ Q[1] = P[2] /\ P[2] \in Position
  <2>1. P[2] \in Position
    BY <1>1, <1>4, ElementOfSeq
  <2>. QED BY <1>2, <1>3, <1>4, <1>5, <2>1
<1>7. ASSUME NEW i \in 1 .. n - 1
      PROVE  Exists(sent, Q[i + 1]) /\ bus'[i] = FrameAt(sent, Q[i + 1])
  <2>1. Q[i + 1] = P[(i + 1) + 1]
    BY <1>2, <1>4
  <2>2. bus'[i] = bus[i + 1]
    BY <1>3
  <2>. QED BY <1>4, <1>5, <2>1, <2>2
<1>8. Q[Len(Q)] = P[Len(P)]
  BY <1>2, <1>4
<1>9. Making(Q[Len(Q)])'
  BY <1>8 DEF Path, Making, Working, is_sending
<1>10. Q \in Seq(Position) /\ Len(Q) = Len(bus') + 2
  BY <1>2, <1>3, <1>4
<1>11. Path(Q)'
  BY <1>3, <1>6, <1>7, <1>9, <1>10 DEF Path
<1>. QED BY <1>2, <1>4, <1>6, <1>11 DEF Q

-----------------------------------------------------------------------------
(* The values the variables have.                                          *)

Types ==
  /\ sent \in Seq(Message) /\ bus \in Seq(Frame) /\ handed \in Seq(Report) /\ faults \in Nat
  /\ out \in [Sender -> [id : Nat, index : Nat, seq : Nat]]
  /\ \A s \in Sender : out[s].id <= Len(sent)
  /\ rx \in Reception
  /\ rx.receiving =>
       rx.received < rx.length /\ rx.expected # 0 /\ rx.stream \in Subscribed

(* What is made by sending: the next frame is made, or would be, and the   *)
(* one after it is due.                                                    *)
Made(p, q) ==
  /\ Keeps(sent, sent') /\ Exists(sent', p) /\ p \in Position /\ q \in Position
  /\ Making(q)' /\ q = After(sent', p)
  /\ \/ bus' = Append(bus, FrameAt(sent', p)) /\ faults' = faults
     \/ bus' = bus /\ faults' = faults + 1
  /\ UNCHANGED <<rx, handed>>

LEMMA HeaderMade ==
  ASSUME Types, ~Concurrent, NEW a, Making(a), NEW s \in Sender, NEW stream \in Stream,
         NEW len \in Lens, SendLongMessage(s, stream, len), NEW q, q = <<Len(sent) + 1, 1>>
  PROVE  /\ Types' /\ Made(a, q) /\ a = <<Len(sent) + 1, 0>>
         /\ sent' = Append(sent, [stream |-> stream, len |-> len])
<1>. DEFINE L == Len(sent)
            msg == [stream |-> stream, len |-> len]
<1>1. msg \in Message /\ L \in Nat /\ len \in Nat /\ len > 0
  BY LenProperties, Constants DEF Message, Types
<1>2. sent' = Append(sent, msg) /\ sent' \in Seq(Message) /\ Len(sent') = L + 1
      /\ sent'[L + 1] = msg /\ \A i \in 1 .. L : sent'[i] = sent[i]
  BY <1>1, AppendProperties DEF SendLongMessage, Types
<1>3. \A t \in Sender : ~is_sending(t)
  BY DEF SendLongMessage
<1>4. a = <<L + 1, 0>>
  BY <1>3 DEF Making, Working
<1>q. q = <<L + 1, 1>>
  OBVIOUS
<1>. HIDE DEF L
<1>5. L + 1 \in 1 .. L + 1 /\ L + 1 \in Nat /\ L <= L + 1 /\ L + 1 # 0
  BY <1>1, SMT
<1>6. Keeps(sent, sent')
  BY <1>1, <1>2, <1>5 DEF Keeps, L
<1>7. Exists(sent', a) /\ a \in Position /\ q \in Position /\ a[1] = L + 1 /\ a[2] = 0
  BY <1>2, <1>4, <1>5, <1>q DEF Exists, Position
<1>8. out' = [out EXCEPT ![s] = [id |-> L + 1, index |-> 0, seq |-> 1]]
  BY DEF SendLongMessage, L
<1>9. out' \in [Sender -> [id : Nat, index : Nat, seq : Nat]]
  BY <1>5, <1>8 DEF Types
<1>10. out'[s] = [id |-> L + 1, index |-> 0, seq |-> 1]
       /\ \A t \in Sender : t # s => out'[t] = out[t]
  BY <1>8 DEF Types
<1>11. \A t \in Sender : out'[t].id <= Len(sent')
  <2>1. ASSUME NEW t \in Sender, t # s PROVE out'[t].id <= L + 1
    <3>1. out[t].id <= L /\ out[t].id \in Nat
      BY DEF Types, L
    <3>. QED BY <1>1, <1>10, <2>1, <3>1, SMT
  <2>2. out'[s].id <= L + 1
    BY <1>5, <1>10, SMT
  <2>. QED BY <1>2, <2>1, <2>2
<1>12. ASSUME NEW t \in Sender, t # s PROVE ~is_sending(t)'
  <2>1. out[t].id <= L /\ out[t].id \in Nat /\ out'[t] = out[t]
    BY <1>10, <1>12 DEF Types, L
  <2>2. out[t].id # 0 => out[t].id \in 1 .. L
    BY <1>1, <2>1, SMT
  <2>. QED BY <1>2, <1>3, <2>1, <2>2 DEF is_sending
<1>13. Working(s)'
  <2>1. is_sending(s)'
    BY <1>1, <1>2, <1>5, <1>10 DEF is_sending
  <2>2. 1 - 1 = 0 /\ 1 # 0
    BY SMT
  <2>. QED BY <1>2, <1>10, <1>12, <2>1, <2>2, Offsets DEF Working
<1>14. Making(q)'
  <2>1. q = <<Len(sent'), out'[s].seq>>
    BY <1>2, <1>10, <1>q
  <2>. QED BY <1>13, <2>1 DEF Making
<1>15. q = After(sent', a)
  <2>1. Offset(a[2]) < sent'[a[1]].len /\ a[2] + 1 = 1
    BY <1>1, <1>2, <1>7, Offsets
  <2>. QED BY <1>7, <1>q, <2>1 DEF After
<1>16. FrameAt(sent', a) = Header(stream, len) /\ FrameAt(sent', a) \in Frame
  <2>1. FrameAt(sent', a) \in Frame
        /\ FrameAt(sent', a) = Header(sent'[a[1]].stream, sent'[a[1]].len)
    <3>. HIDE DEF msg
    <3>. QED BY <1>2, <1>7, FrameTyped
  <2>. QED BY <1>2, <1>7, <2>1
<1>17. \/ bus' = Append(bus, FrameAt(sent', a)) /\ faults' = faults
       \/ bus' = bus /\ faults' = faults + 1
  BY <1>16 DEF SendLongMessage, Transmit
<1>18. bus' \in Seq(Frame) /\ faults' \in Nat /\ UNCHANGED <<rx, handed>>
  <2>1. bus \in Seq(Frame) /\ faults \in Nat
    BY DEF Types
  <2>2. Append(bus, FrameAt(sent', a)) \in Seq(Frame) /\ faults + 1 \in Nat
    BY <1>16, <2>1, AppendProperties
  <2>3. UNCHANGED <<rx, handed>>
    BY DEF SendLongMessage
  <2>. QED BY <1>17, <2>1, <2>2, <2>3
<1>19. Made(a, q)
  BY <1>6, <1>7, <1>14, <1>15, <1>17, <1>18 DEF Made
<1>20. Types'
  BY <1>2, <1>9, <1>11, <1>18 DEF Types
<1>. QED BY <1>2, <1>4, <1>19, <1>20 DEF L

LEMMA WorkingIs ==
  ASSUME Types, NEW a, Making(a), NEW s \in Sender, is_sending(s)
  PROVE  /\ Working(s) /\ a = <<Len(sent), out[s].seq>>
         /\ Len(sent) \in 1 .. Len(sent) /\ Exists(sent, a) /\ a \in Position /\ a[2] # 0
<1>1. PICK t \in Sender : Working(t) /\ a = <<Len(sent), out[t].seq>>
  BY DEF Making
<1>2. t = s
  BY <1>1 DEF Working
<1>3. Len(sent) \in Nat /\ out[s].id # 0 /\ out[s].id \in Nat /\ out[s].seq \in Nat
  BY LenProperties DEF Types, is_sending
<1>4. out[s].id = Len(sent) /\ out[s].seq # 0 /\ out[s].index = Offset(out[s].seq - 1)
  BY <1>1, <1>2 DEF Working
<1>5. Len(sent) \in 1 .. Len(sent)
  BY <1>3, <1>4, SMT
<1>6. a = <<Len(sent), out[s].seq>> /\ a[1] = Len(sent) /\ a[2] = out[s].seq
  BY <1>1, <1>2
<1>7. Offset(a[2] - 1) < sent[a[1]].len
  BY <1>4, <1>6 DEF is_sending
<1>. QED BY <1>1, <1>2, <1>3, <1>4, <1>5, <1>6, <1>7 DEF Exists, Position

LEMMA FragmentMade ==
  ASSUME Types, NEW a, Making(a), NEW s \in Sender, SendFragment(s), NEW q, q = After(sent, a)
  PROVE  Types' /\ Made(a, q) /\ sent' = sent /\ a[1] = Len(sent) /\ a[2] # 0
<1>1. /\ Working(s) /\ a = <<Len(sent), out[s].seq>> /\ is_sending(s)
      /\ Len(sent) \in 1 .. Len(sent) /\ Exists(sent, a) /\ a \in Position /\ a[2] # 0
  BY WorkingIs DEF SendFragment
<1>2. a[1] = Len(sent) /\ a[2] = out[s].seq /\ sent' = sent /\ UNCHANGED <<rx, handed>>
  BY <1>1 DEF SendFragment
<1>3. /\ out[s].id = Len(sent) /\ out[s].seq # 0 /\ out[s].index = Offset(out[s].seq - 1)
      /\ \A t \in Sender : t # s => ~is_sending(t)
  BY <1>1 DEF Working
<1>4. /\ Len(sent) \in Nat /\ out[s].seq \in Nat /\ out[s].index \in Nat /\ sent \in Seq(Message)
      /\ bus \in Seq(Frame) /\ faults \in Nat
  BY LenProperties DEF Types
<1>5. FrameAt(sent, a) \in Frame
      /\ \/ bus' = Append(bus, FrameAt(sent, a)) /\ faults' = faults
         \/ bus' = bus /\ faults' = faults + 1
  <2>1. FrameAt(sent, a) = DataFrame(sent[a[1]].stream, a[2], Payload(sent, a))
    BY <1>1 DEF FrameAt
  <2>. DEFINE o == out[s]
              data == [i \in 1 .. FragBytes |->
                         IF o.index + i <= sent[o.id].len THEN <<o.id, o.index + i>> ELSE Pad]
  <2>2. data = Payload(sent, a)
    BY <1>2, <1>3, Zenon DEF Payload
  <2>3. Transmit(DataFrame(sent[o.id].stream, o.seq, data))
    BY DEF SendFragment
  <2>. HIDE DEF data
  <2>4. Transmit(FrameAt(sent, a))
    BY <1>2, <1>3, <2>1, <2>2, <2>3
  <2>. QED BY <1>1, <1>4, <2>4, FrameTyped DEF Transmit
<1>6. bus' \in Seq(Frame) /\ faults' \in Nat
  <2>1. Append(bus, FrameAt(sent, a)) \in Seq(Frame) /\ faults + 1 \in Nat
    BY <1>4, <1>5, AppendProperties
  <2>. QED BY <1>4, <1>5, <2>1
<1>7. out' = [out EXCEPT ![s].index = @ + FragBytes, ![s].seq = @ + 1]
  BY DEF SendFragment
<1>8. /\ out'[s].id = Len(sent) /\ out'[s].index = out[s].index + FragBytes
      /\ out'[s].seq = out[s].seq + 1
      /\ \A t \in Sender : t # s => out'[t] = out[t]
  BY <1>3, <1>7 DEF Types
<1>9. /\ out' \in [Sender -> [id : Nat, index : Nat, seq : Nat]]
      /\ \A t \in Sender : out'[t].id <= Len(sent)
  <2>1. out' \in [Sender -> [id : Nat, index : Nat, seq : Nat]]
    <3>. DEFINE S == [id : Nat, index : Nat, seq : Nat]
    <3>. PICK x : x = out[s]
      OBVIOUS
    <3>1. out \in [Sender -> S] /\ x \in S
      BY DEF Types
    <3>. DEFINE r == [x EXCEPT !.index = @ + FragBytes, !.seq = @ + 1]
    <3>2. r \in S
      <4>1. FragBytes \in Nat
        BY Constants
      <4>2. x.index + FragBytes \in Nat /\ x.seq + 1 \in Nat
        BY <3>1, <4>1, SMT
      <4>. QED BY <3>1, <4>2, Zenon
    <3>3. out' = [out EXCEPT ![s] = r]
      BY <1>7
    <3>. HIDE DEF S, r
    <3>4. out' \in [Sender -> S]
      BY <3>1, <3>2, <3>3
    <3>. QED BY <3>4 DEF S
  <2>2. Len(sent) <= Len(sent)
    BY <1>4, SMT
  <2>. QED BY <1>8, <2>1, <2>2 DEF Types
<1>10. Types'
  BY <1>2, <1>6, <1>9 DEF Types
<1>11. \A t \in Sender : t # s => ~is_sending(t)'
  BY <1>2, <1>3, <1>8 DEF is_sending
<1>12. /\ out'[s].index = Offset(a[2]) /\ out'[s].seq = a[2] + 1 /\ (a[2] + 1) - 1 = a[2]
       /\ a[2] + 1 # 0 /\ a[2] + 1 \in Nat /\ Len(sent) + 1 \in Nat /\ Len(sent) # 0
  <2>1. Offset(a[2]) = Offset(a[2] - 1) + FragBytes
    BY <1>1, <1>2, <1>4, Offsets
  <2>. QED BY <1>1, <1>2, <1>3, <1>4, <1>8, <2>1, SMT
<1>13. Making(q)' /\ q \in Position
  <2>1. CASE Offset(a[2]) < sent[a[1]].len
    <3>1. q = <<Len(sent), a[2] + 1>>
      BY <1>2, <2>1 DEF After
    <3>2. is_sending(s)'
      BY <1>2, <1>8, <1>12, <2>1 DEF is_sending
    <3>3. Working(s)'
      BY <1>2, <1>8, <1>11, <1>12, <3>2 DEF Working
    <3>4. q = <<Len(sent'), out'[s].seq>>
      BY <1>2, <1>12, <3>1
    <3>. QED BY <1>4, <1>12, <3>1, <3>3, <3>4 DEF Making, Position
  <2>2. CASE ~(Offset(a[2]) < sent[a[1]].len)
    <3>1. q = <<Len(sent) + 1, 0>>
      BY <1>2, <2>2 DEF After
    <3>2. ~is_sending(s)'
      BY <1>2, <1>8, <1>12, <2>2 DEF is_sending
    <3>3. q = <<Len(sent') + 1, 0>>
      BY <1>2, <3>1
    <3>. QED BY <1>11, <1>12, <3>1, <3>2, <3>3 DEF Making, Position
  <2>. QED BY <2>1, <2>2
<1>14. Keeps(sent, sent')
  BY <1>2, <1>4, SMT DEF Keeps
<1>15. Made(a, q)
  BY <1>1, <1>2, <1>5, <1>13, <1>14 DEF Made
<1>. QED BY <1>1, <1>2, <1>10, <1>15

LEMMA PowerLost ==
  ASSUME Types, NEW a, Making(a), NEW s \in Sender, PowerLoss(s),
         NEW q, q = <<Len(sent) + 1, 0>>
  PROVE  /\ Types' /\ Making(q)' /\ q \in Position /\ Keeps(sent, sent')
         /\ UNCHANGED <<sent, bus, rx, handed>> /\ faults' = faults + 1
         /\ a[1] = Len(sent) /\ a[2] # 0
<1>1. Working(s) /\ a = <<Len(sent), out[s].seq>> /\ a[2] # 0
  BY WorkingIs DEF PowerLoss
<1>2. UNCHANGED <<sent, bus, rx, handed>> /\ faults' = faults + 1
      /\ out' = [out EXCEPT ![s] = NotSending]
  BY DEF PowerLoss
<1>3. out'[s].id = 0 /\ (\A t \in Sender : t # s => out'[t] = out[t])
      /\ out' \in [Sender -> [id : Nat, index : Nat, seq : Nat]]
  BY <1>2 DEF Types, NotSending
<1>4. Len(sent) \in Nat /\ 0 <= Len(sent) /\ Len(sent) <= Len(sent) /\ Len(sent) + 1 \in Nat
      /\ faults + 1 \in Nat
  BY LenProperties, SMT DEF Types
<1>5. \A t \in Sender : ~is_sending(t)'
  BY <1>1, <1>2, <1>3 DEF Working, is_sending
<1>6. Making(q)' /\ q \in Position
  <2>1. q = <<Len(sent') + 1, 0>>
    BY <1>2
  <2>. QED BY <1>4, <1>5, <2>1 DEF Making, Position
<1>7. Types'
  BY <1>2, <1>3, <1>4 DEF Types
<1>8. Keeps(sent, sent')
  BY <1>2, <1>4 DEF Keeps
<1>. QED BY <1>1, <1>2, <1>6, <1>7, <1>8

-----------------------------------------------------------------------------
(* What the handlers of the receiver do.                                   *)

RxTypes ==
  /\ handed \in Seq(Report) /\ rx \in Reception
  /\ rx.receiving =>
       rx.received < rx.length /\ rx.expected # 0 /\ rx.stream \in Subscribed

LEMMA AtRest == NotReceiving \in Reception /\ NotReceiving.receiving = FALSE
BY EmptySeq DEF NotReceiving, Reception

LEMMA StartedTyped ==
  ASSUME NEW stream \in Stream, NEW len \in Nat
  PROVE  /\ Started(stream, len) \in Reception /\ Started(stream, len).receiving
         /\ Started(stream, len).stream = stream /\ Started(stream, len).length = len
         /\ Started(stream, len).received = 0 /\ Started(stream, len).expected = 1
         /\ Started(stream, len).held = <<>>
BY EmptySeq DEF Started, NotReceiving, Reception

(* A header starts a reception of its message.  A data frame may look like *)
(* a header of any length.                                                 *)
LEMMA HeaderReceived ==
  ASSUME Types, NEW b \in Position, Exists(sent, b), NEW f, f = FrameAt(sent, b),
         ReceiveHeader(f)
  PROVE  /\ RxTypes' /\ handed' = handed /\ ~rx.receiving
         /\ b[2] = 0 /\ sent[b[1]].stream \in Subscribed =>
              rx' = Started(sent[b[1]].stream, sent[b[1]].len)
         /\ b[2] = 0 /\ sent[b[1]].stream \notin Subscribed => rx' = rx
         /\ rx' # rx => f.stream \in Subscribed /\ f.seq = 0
<1>. DEFINE msg == sent[b[1]]
<1>1. sent \in Seq(Message) /\ handed \in Seq(Report) /\ rx \in Reception
  BY DEF Types
<1>2. msg \in Message /\ f \in Frame /\ f.stream = msg.stream
      /\ (b[2] = 0 => f = Header(msg.stream, msg.len) /\ f.seq = 0)
      /\ (b[2] # 0 => f.data = Payload(sent, b))
  BY <1>1, FrameTyped
<1>3. msg.stream \in Stream /\ msg.len \in Lens
  BY <1>2 DEF Message
<1>. HIDE DEF msg
<1>4. b[2] # 0 => f.data # <<>>
  <2>1. SUFFICES ASSUME b[2] # 0 PROVE f.data # <<>>
    OBVIOUS
  <2>2. f.data \in Seq(Byte) /\ Len(f.data) = FragBytes /\ FragBytes # 0
    BY <1>1, <1>2, <2>1, PayloadTyped, Constants
  <2>. QED BY <2>2, EmptySeq
<1>5. b[2] = 0 => f.data = <<>> /\ f.len = msg.len
  BY <1>2 DEF Header
<1>6. ASSUME NEW len \in Lens, f.stream \in Subscribed, rx' = Started(f.stream, len)
      PROVE  rx' \in Reception
             /\ rx'.received < rx'.length /\ rx'.expected # 0 /\ rx'.stream \in Subscribed
  <2>1. len \in Nat /\ len > 0 /\ f.stream \in Stream
    BY <1>2, <1>3, Constants
  <2>2. rx' \in Reception /\ rx'.stream = f.stream /\ rx'.length = len
        /\ rx'.received = 0 /\ rx'.expected = 1
    <3>. DEFINE r == Started(f.stream, len)
    <3>1. r \in Reception /\ r.stream = f.stream /\ r.length = len
          /\ r.received = 0 /\ r.expected = 1
      BY <2>1, StartedTyped, Zenon
    <3>. HIDE DEF r
    <3>. QED BY <1>6, <3>1 DEF r
  <2>3. 0 < len /\ 1 # 0
    BY <2>1, SMT
  <2>. QED BY <1>6, <2>2, <2>3
<1>7. handed' = handed /\ ~rx.receiving
  BY DEF ReceiveHeader
<1>8. \/ /\ f.seq = 0 /\ f.stream \in Subscribed
         /\ \E len \in (IF f.data = <<>> THEN {f.len} ELSE Lens) : rx' = Started(f.stream, len)
      \/ ~(f.seq = 0 /\ f.stream \in Subscribed /\ f.data = <<>>) /\ rx' = rx
  BY DEF ReceiveHeader
<1>9. CASE /\ f.seq = 0 /\ f.stream \in Subscribed
           /\ \E len \in (IF f.data = <<>> THEN {f.len} ELSE Lens) : rx' = Started(f.stream, len)
  <2>1. PICK len \in (IF f.data = <<>> THEN {f.len} ELSE Lens) : rx' = Started(f.stream, len)
    BY <1>9
  <2>2. len \in Lens /\ (b[2] = 0 => len = msg.len)
    BY <1>3, <1>4, <1>5
  <2>3. RxTypes'
    BY <1>1, <1>6, <1>7, <1>9, <2>1, <2>2 DEF RxTypes
  <2>4. b[2] = 0 => rx' = Started(msg.stream, msg.len) /\ msg.stream \in Subscribed
    BY <1>2, <1>9, <2>1, <2>2
  <2>. QED BY <1>7, <1>9, <2>3, <2>4 DEF msg
<1>10. CASE ~(f.seq = 0 /\ f.stream \in Subscribed /\ f.data = <<>>) /\ rx' = rx
  <2>1. RxTypes'
    BY <1>1, <1>7, <1>10 DEF RxTypes
  <2>2. b[2] = 0 => msg.stream \notin Subscribed
    BY <1>2, <1>5, <1>10
  <2>. QED BY <1>7, <1>10, <2>1, <2>2 DEF msg
<1>. QED BY <1>8, <1>9, <1>10

LEMMA ToldTyped ==
  ASSUME handed \in Seq(Report), rx \in Reception, NEW calls \in Seq(Said)
  PROVE  Told(calls) \in Seq(Report)
BY ReportedTyped, ConcatProperties DEF Told

(* The expected fragment is taken: the message is over, or goes on.        *)
LEMMA ExpectedReceived ==
  ASSUME Types, NEW f \in Frame, ReceiveExpected(f), NEW t, t = TakeFragment(f.data)
  PROVE  /\ RxTypes' /\ Counted(t, Len(f.data)) /\ t \in Loop /\ handed' = Told(t.calls)
         /\ t.done => rx' = NotReceiving
         /\ ~t.done =>
              /\ rx'.receiving = TRUE /\ rx'.stream = rx.stream /\ rx'.length = rx.length
              /\ rx'.received = rx.received + Len(f.data)
              /\ rx'.received < rx.length
              /\ rx'.expected = rx.expected + 1 /\ rx'.held = t.held
<1>1. /\ rx.receiving /\ rx \in Reception /\ handed \in Seq(Report)
      /\ rx.received < rx.length /\ rx.expected # 0 /\ rx.stream \in Subscribed
      /\ f.data \in Seq(Byte) /\ Len(f.data) \in Nat
  BY LenProperties DEF ReceiveExpected, Types, Frame
<1>2. Counted(t, Len(f.data))
  BY <1>1, FragmentCounted
<1>3. t \in Loop /\ t.done \in BOOLEAN /\ t.calls \in Seq(Said) /\ t.held \in Seq(Byte)
      /\ t.received \in Nat
  BY <1>2 DEF Counted, Loop
<1>4. handed' = Told(t.calls)
  BY DEF ReceiveExpected, Told, Reported
<1>5. rx' = IF t.done THEN NotReceiving
            ELSE [rx EXCEPT !.received = t.received, !.held = t.held, !.expected = @ + 1]
  BY DEF ReceiveExpected
<1>6. handed' \in Seq(Report)
  BY <1>1, <1>3, <1>4, ToldTyped
<1>7. CASE t.done
  BY <1>2, <1>3, <1>4, <1>5, <1>6, <1>7, AtRest DEF RxTypes
<1>8. CASE ~t.done
  <2>1. rx' = [rx EXCEPT !.received = t.received, !.held = t.held, !.expected = @ + 1]
    BY <1>5, <1>8
  <2>2. rx.expected \in Nat /\ rx.received \in Nat /\ rx.length \in Nat
    BY <1>1 DEF Reception
  <2>3. t.received = rx.received + Len(f.data) /\ ~(rx.received + Len(f.data) >= rx.length)
    BY <1>2, <1>8 DEF Counted
  <2>4. t.received < rx.length /\ rx.expected + 1 \in Nat /\ rx.expected + 1 # 0
    BY <1>1, <1>3, <2>2, <2>3, SMT
  <2>5. rx' \in Reception
    BY <1>1, <1>3, <2>1, <2>4 DEF Reception
  <2>6. /\ rx'.receiving = TRUE /\ rx'.stream = rx.stream /\ rx'.length = rx.length
        /\ rx'.received = t.received /\ rx'.expected = rx.expected + 1 /\ rx'.held = t.held
    BY <1>1, <2>1 DEF Reception
  <2>7. RxTypes'
    BY <1>1, <1>6, <2>4, <2>5, <2>6 DEF RxTypes
  <2>. QED BY <1>2, <1>3, <1>4, <1>8, <2>3, <2>4, <2>6, <2>7
<1>. QED BY <1>3, <1>7, <1>8

(* The message is given up, and the user gets what there is of it.         *)
LEMMA GivenUp ==
  ASSUME Types, rx.receiving, NEW status \in Status, GiveUp(status)
  PROVE  /\ RxTypes' /\ rx' = NotReceiving
         /\ Call(rx.held, rx.stream, status) \in Report
         /\ handed' = Append(handed, Call(rx.held, rx.stream, status))
<1>1. Call(rx.held, rx.stream, status) \in Report
  BY DEF Types, Call, Report, Reception
<1>2. handed' = Append(handed, Call(rx.held, rx.stream, status)) /\ rx' = NotReceiving
  BY DEF GiveUp
<1>3. handed' \in Seq(Report)
  BY <1>1, <1>2, AppendProperties DEF Types
<1>. QED BY <1>1, <1>2, <1>3, AtRest DEF RxTypes

(* A frame of another stream is only counted.                              *)
LEMMA OtherReceived ==
  ASSUME Types, NEW f, ReceiveOther(f)
  PROVE  /\ RxTypes' /\ handed' = handed
         /\ rx'.receiving = TRUE /\ rx'.stream = rx.stream /\ rx'.length = rx.length
         /\ rx'.received = rx.received /\ rx'.held = rx.held
         /\ rx'.expected = rx.expected + 1
<1>1. /\ rx.receiving /\ rx \in Reception /\ handed' = handed /\ handed \in Seq(Report)
      /\ rx' = [rx EXCEPT !.expected = @ + 1]
      /\ rx.received < rx.length /\ rx.stream \in Subscribed
  BY DEF ReceiveOther, Types
<1>2. rx.expected \in Nat
  BY <1>1 DEF Reception
<1>3. rx.expected + 1 \in Nat /\ rx.expected + 1 # 0
  BY <1>2, SMT
<1>4. rx' \in Reception
  BY <1>1, <1>3 DEF Reception
<1>5. /\ rx'.receiving = TRUE /\ rx'.stream = rx.stream /\ rx'.length = rx.length
      /\ rx'.received = rx.received /\ rx'.held = rx.held /\ rx'.expected = rx.expected + 1
  BY <1>1 DEF Reception
<1>. QED BY <1>1, <1>3, <1>4, <1>5 DEF RxTypes

LEMMA ReceivingTyped ==
  ASSUME Types, bus # <<>>, bus' = Tail(bus), UNCHANGED <<sent, out, faults>>, RxTypes'
  PROVE  Types'
<1>1. bus' \in Seq(Frame)
  BY HeadTailProperties DEF Types
<1>. QED BY <1>1 DEF Types, RxTypes

-----------------------------------------------------------------------------
(* Every message sent is complete, reported in error, lost to a fault, or  *)
(* still to be received whole.                                             *)

EndedIn(h) == {k \in 1 .. Len(h) : h[k].status # INCOMPLETE}

LEMMA EndedFinite ==
  ASSUME NEW h \in Seq(Report)
  PROVE  IsFiniteSet(EndedIn(h)) /\ Cardinality(EndedIn(h)) \in Nat
<1>1. IsFiniteSet(1 .. Len(h))
  BY LenProperties, FS_Interval
<1>2. IsFiniteSet(EndedIn(h))
  BY <1>1, FS_Subset DEF EndedIn
<1>. QED BY <1>2, FS_CardinalityType

LEMMA EndedGrows ==
  ASSUME NEW h \in Seq(Report), NEW g \in Seq(Report), Len(h) <= Len(g),
         \A k \in 1 .. Len(h) : g[k] = h[k]
  PROVE  /\ Cardinality(EndedIn(h)) <= Cardinality(EndedIn(g))
         /\ (\E k \in Len(h) + 1 .. Len(g) : g[k].status # INCOMPLETE) =>
              Cardinality(EndedIn(h)) + 1 <= Cardinality(EndedIn(g))
<1>1. Len(h) \in Nat /\ Len(g) \in Nat
  BY LenProperties
<1>2. \A k \in 1 .. Len(h) : k \in 1 .. Len(g)
  BY <1>1, SMT
<1>3. EndedIn(h) \subseteq EndedIn(g)
  BY <1>2 DEF EndedIn
<1>4. IsFiniteSet(EndedIn(h)) /\ IsFiniteSet(EndedIn(g))
      /\ Cardinality(EndedIn(h)) \in Nat /\ Cardinality(EndedIn(g)) \in Nat
  BY EndedFinite
<1>5. Cardinality(EndedIn(h)) <= Cardinality(EndedIn(g))
  BY <1>3, <1>4, FS_Subset
<1>6. ASSUME NEW k \in Len(h) + 1 .. Len(g), g[k].status # INCOMPLETE
      PROVE  Cardinality(EndedIn(h)) + 1 <= Cardinality(EndedIn(g))
  <2>1. k \in 1 .. Len(g) /\ k \notin 1 .. Len(h)
    BY <1>1, SMT
  <2>2. k \in EndedIn(g) /\ k \notin EndedIn(h)
    BY <1>6, <2>1 DEF EndedIn
  <2>3. EndedIn(h) # EndedIn(g)
    BY <2>2
  <2>4. Cardinality(EndedIn(h)) < Cardinality(EndedIn(g))
    BY <1>3, <1>4, <2>3, FS_Subset
  <2>. QED BY <1>4, <2>4, SMT
<1>. QED BY <1>5, <1>6

(* The frame received last is of the message being received, and all the   *)
(* frames of that message up to it were taken.                             *)
InSync(a) ==
  /\ rx.receiving /\ Exists(sent, a)
  /\ rx.stream = sent[a[1]].stream /\ rx.length = sent[a[1]].len
  /\ rx.received = Offset(a[2]) /\ rx.expected = a[2] + 1

(* No frame of the message is missing from those on their way.             *)
Unbroken(P, id) ==
  \A j \in 1 .. Len(P) - 1 :
    P[j][1] = id /\ Offset(P[j][2]) < sent[id].len => P[j + 1] = <<id, P[j][2] + 1>>

(* The message is going to be received whole.                              *)
Hopeful(P, id) ==
  /\ Unbroken(P, id)
  /\ \/ \E i \in 2 .. Len(P) - 1 : P[i] = <<id, 0>>
     \/ InSync(P[1]) /\ P[1][1] = id

(* The messages in D ended or were lost; the others are still to come.     *)
Accounted(P, D) ==
  /\ D \in SUBSET Expected /\ Cardinality(D) <= faults + Cardinality(EndedIn(handed))
  /\ \A id \in Expected \ D : Hopeful(P, id)

LEMMA ExpectedFinite ==
  ASSUME sent \in Seq(Message), NEW D \in SUBSET Expected
  PROVE  IsFiniteSet(Expected) /\ IsFiniteSet(D) /\ Cardinality(D) \in Nat
         /\ Expected = {id \in 1 .. Len(sent) : sent[id].stream \in Subscribed}
<1>1. DOMAIN sent = 1 .. Len(sent) /\ Len(sent) \in Nat
  BY LenProperties
<1>2. Expected = {id \in 1 .. Len(sent) : sent[id].stream \in Subscribed}
  BY <1>1 DEF Expected
<1>3. IsFiniteSet(1 .. Len(sent))
  BY <1>1, FS_Interval
<1>4. IsFiniteSet(Expected) /\ IsFiniteSet(D)
  BY <1>2, <1>3, FS_Subset
<1>. QED BY <1>2, <1>4, FS_CardinalityType

LEMMA NothingSpent ==
  ASSUME Types, Types', NEW P, NEW D, Accounted(P, D), NEW Q, Expected \subseteq Expected',
         faults <= faults', Cardinality(EndedIn(handed)) <= Cardinality(EndedIn(handed')),
         \A id \in Expected' \ D : Hopeful(Q, id)'
  PROVE  Accounted(Q, D)'
<1>1. /\ Cardinality(D) \in Nat /\ faults \in Nat /\ faults' \in Nat
      /\ Cardinality(EndedIn(handed)) \in Nat /\ Cardinality(EndedIn(handed')) \in Nat
  BY ExpectedFinite, EndedFinite DEF Types, Accounted
<1>2. Cardinality(D) <= faults' + Cardinality(EndedIn(handed'))
  BY <1>1, SMT DEF Accounted
<1>3. D \in SUBSET Expected'
  BY DEF Accounted
<1>. QED BY <1>2, <1>3 DEF Accounted

LEMMA OneSpent ==
  ASSUME Types, Types', NEW P, NEW D, Accounted(P, D), NEW Q, Expected \subseteq Expected', NEW x,
         faults + Cardinality(EndedIn(handed)) + 1 <= faults' + Cardinality(EndedIn(handed')),
         \A id \in Expected' \ D : id # x => Hopeful(Q, id)'
  PROVE  \E C : Accounted(Q, C)'
<1>. PICK C : C = D \cup ({x} \cap Expected')
  OBVIOUS
<1>1. IsFiniteSet(D) /\ Cardinality(D) \in Nat /\ faults \in Nat /\ faults' \in Nat
      /\ Cardinality(EndedIn(handed)) \in Nat /\ Cardinality(EndedIn(handed')) \in Nat
  BY ExpectedFinite, EndedFinite DEF Types, Accounted
<1>2. Cardinality(C) \in Nat /\ Cardinality(C) <= Cardinality(D) + 1
  <2>1. CASE x \in Expected' /\ x \notin D
    <3>1. C = D \cup {x}
      BY <2>1
    <3>2. Cardinality(D \cup {x}) = Cardinality(D) + 1
      BY <1>1, <2>1, FS_AddElement, Zenon
    <3>3. Cardinality(C) = Cardinality(D) + 1
      BY <3>1, <3>2
    <3>. QED BY <1>1, <3>3, SMT
  <2>2. CASE x \notin Expected' \/ x \in D
    <3>1. C = D
      BY <2>2
    <3>. QED BY <1>1, <3>1
  <2>. QED BY <2>1, <2>2
<1>3. Cardinality(C) <= faults' + Cardinality(EndedIn(handed'))
  <2>1. Cardinality(D) <= faults + Cardinality(EndedIn(handed))
    BY DEF Accounted
  <2>. QED BY <1>1, <1>2, <2>1, SMT
<1>4. C \in SUBSET Expected'
  BY DEF Accounted
<1>5. \A id \in Expected' \ C : Hopeful(Q, id)'
  OBVIOUS
<1>6. Accounted(Q, C)'
  BY <1>3, <1>4, <1>5 DEF Accounted
<1>. QED BY <1>6

LEMMA PathFacts ==
  ASSUME Types, NEW P, Path(P)
  PROVE  /\ P \in Seq(Position) /\ Len(P) \in Nat /\ Len(P) >= 2 /\ Len(sent) \in Nat
         /\ \A j \in 1 .. Len(P) : P[j] \in Position /\ P[j][1] \in Nat /\ P[j][2] \in Nat
         /\ \A j \in 1 .. Len(P) - 1 : P[j] = <<0, 0>> \/ Exists(sent, P[j])
         /\ \A j \in 1 .. Len(P) - 1 : P[j][1] <= Len(sent)
         /\ Making(P[Len(P)])
<1>1. P \in Seq(Position) /\ Len(P) \in Nat /\ Len(bus) \in Nat /\ Len(P) = Len(bus) + 2
      /\ Len(sent) \in Nat
  BY LenProperties DEF Path, Types
<1>2. \A j \in 1 .. Len(P) : P[j] \in Position /\ P[j][1] \in Nat /\ P[j][2] \in Nat
  <2>1. \A j \in 1 .. Len(P) : P[j] \in Position
    BY <1>1, ElementOfSeq
  <2>. QED BY <2>1 DEF Position
<1>3. ASSUME NEW j \in 1 .. Len(P) - 1 PROVE P[j] = <<0, 0>> \/ Exists(sent, P[j])
  <2>1. CASE j = 1
    BY <2>1 DEF Path
  <2>2. CASE j # 1
    <3>1. j - 1 \in 1 .. Len(bus) /\ (j - 1) + 1 = j
      BY <1>1, <2>2, SMT
    <3>. QED BY <3>1 DEF Path
  <2>. QED BY <2>1, <2>2
<1>4. \A j \in 1 .. Len(P) - 1 : P[j][1] <= Len(sent)
  <2>1. <<0, 0>>[1] <= Len(sent)
    BY <1>1, SMT
  <2>2. \A a : Exists(sent, a) => a[1] <= Len(sent)
    BY <1>1, SMT DEF Exists
  <2>. QED BY <1>3, <2>1, <2>2
<1>. QED BY <1>1, <1>2, <1>3, <1>4, SMT DEF Path

LEMMA InSyncKept ==
  ASSUME NEW a, InSync(a), Keeps(sent, sent'), rx' = rx
  PROVE  InSync(a)'
<1>1. Exists(sent', a) /\ sent'[a[1]] = sent[a[1]]
  BY KeepsPlaces DEF InSync
<1>. QED BY <1>1 DEF InSync

(* The next frame is put on the bus.                                       *)
LEMMA HopefulLonger ==
  ASSUME Types, NEW P, Path(P), NEW q, Made(P[Len(P)], q), NEW id \in 1 .. Len(sent),
         Hopeful(P, id)
  PROVE  Hopeful(Append(P, q), id)'
<1>. DEFINE Q == Append(P, q)
            n == Len(P)
<1>1. /\ P \in Seq(Position) /\ n \in Nat /\ n >= 2 /\ q \in Position
      /\ Keeps(sent, sent') /\ rx' = rx /\ q = After(sent', P[n])
  BY PathFacts DEF Made
<1>2. Len(Q) = n + 1 /\ Q[n + 1] = q /\ \A i \in 1 .. n : Q[i] = P[i]
  BY <1>1, AppendProperties
<1>3. sent'[id] = sent[id]
  BY <1>1 DEF Keeps
<1>4. Unbroken(P, id)
  BY DEF Hopeful
<1>. HIDE DEF Q
<1>5. ASSUME NEW j \in 1 .. Len(Q) - 1, Q[j][1] = id, Offset(Q[j][2]) < sent'[id].len
      PROVE  Q[j + 1] = <<id, Q[j][2] + 1>>
  <2>1. j \in 1 .. n /\ (j # n => j \in 1 .. n - 1 /\ j + 1 \in 1 .. n)
    BY <1>1, <1>2, SMT
  <2>2. Q[j] = P[j]
    BY <1>2, <2>1
  <2>3. CASE j = n
    <3>1. After(sent', P[n]) = <<id, P[n][2] + 1>>
      BY <1>5, <2>2, <2>3 DEF After
    <3>. QED BY <1>1, <1>2, <2>2, <2>3, <3>1
  <2>4. CASE j # n
    <3>1. P[j + 1] = <<id, P[j][2] + 1>>
      BY <1>3, <1>4, <1>5, <2>1, <2>2, <2>4 DEF Unbroken, n
    <3>. QED BY <1>2, <2>1, <2>2, <2>4, <3>1
  <2>. QED BY <2>3, <2>4
<1>6. Unbroken(Q, id)'
  BY <1>5 DEF Unbroken
<1>7. CASE \E i \in 2 .. n - 1 : P[i] = <<id, 0>>
  <2>1. PICK i \in 2 .. n - 1 : P[i] = <<id, 0>>
    BY <1>7
  <2>2. i \in 2 .. Len(Q) - 1 /\ i \in 1 .. n
    BY <1>1, <1>2, SMT
  <2>3. Q[i] = <<id, 0>>
    BY <1>2, <2>1, <2>2
  <2>. QED BY <1>6, <2>2, <2>3 DEF Hopeful, Q
<1>8. CASE InSync(P[1]) /\ P[1][1] = id
  <2>1. 1 \in 1 .. n
    BY <1>1, SMT
  <2>2. Q[1] = P[1]
    BY <1>2, <2>1
  <2>3. InSync(Q[1])' /\ Q[1][1] = id
    <3>. DEFINE a == P[1]
    <3>1. InSync(a)'
      BY <1>1, <1>8, InSyncKept
    <3>. QED BY <1>8, <2>2, <3>1
  <2>. QED BY <1>6, <2>3 DEF Hopeful, Q
<1>. QED BY <1>7, <1>8 DEF Hopeful, n, Q

(* The next frame never comes.                                             *)
LEMMA InsteadIs ==
  ASSUME Types, NEW P, Path(P), NEW q
  PROVE  /\ Len(Instead(P, q)) = Len(P)
         /\ \A i \in 1 .. Len(P) - 1 : Instead(P, q)[i] = P[i]
<1>1. P \in Seq(Position) /\ Len(P) \in Nat /\ Len(P) >= 2
  BY PathFacts
<1>2. DOMAIN P = 1 .. Len(P) /\ P \in [1 .. Len(P) -> Position]
  BY <1>1, LenProperties
<1>3. DOMAIN Instead(P, q) = 1 .. Len(P)
      /\ \A i \in 1 .. Len(P) : i # Len(P) => Instead(P, q)[i] = P[i]
  <2>1. DOMAIN Instead(P, q) = DOMAIN P
    BY DEF Instead
  <2>2. \A i \in DOMAIN P : i # Len(P) => Instead(P, q)[i] = P[i]
    BY DEF Instead
  <2>. QED BY <1>2, <2>1, <2>2, Zenon
<1>4. Len(Instead(P, q)) = Len(P)
  BY <1>1, <1>3, SMT
<1>5. \A i \in 1 .. Len(P) - 1 : i \in 1 .. Len(P) /\ i # Len(P)
  BY <1>1, SMT
<1>. QED BY <1>3, <1>4, <1>5, Zenon

LEMMA HopefulInstead ==
  ASSUME Types, NEW P, Path(P), NEW q, NEW id \in 1 .. Len(sent), Hopeful(P, id),
         P[Len(P)][1] # id, Keeps(sent, sent'), rx' = rx
  PROVE  Hopeful(Instead(P, q), id)'
<1>. DEFINE Q == Instead(P, q)
            n == Len(P)
<1>1. P \in Seq(Position) /\ n \in Nat /\ n >= 2
  BY PathFacts
<1>2. Len(Q) = n /\ \A i \in 1 .. n - 1 : Q[i] = P[i]
  BY InsteadIs
<1>3. sent'[id] = sent[id]
  BY DEF Keeps
<1>4. Unbroken(P, id)
  BY DEF Hopeful
<1>. HIDE DEF Q
<1>5. ASSUME NEW j \in 1 .. Len(Q) - 1, Q[j][1] = id, Offset(Q[j][2]) < sent'[id].len
      PROVE  Q[j + 1] = <<id, Q[j][2] + 1>>
  <2>1. j \in 1 .. n - 1 /\ (j + 1 # n => j + 1 \in 1 .. n - 1)
    BY <1>1, <1>2, SMT
  <2>2. Q[j] = P[j]
    BY <1>2, <2>1
  <2>3. P[j + 1] = <<id, P[j][2] + 1>>
    BY <1>3, <1>4, <1>5, <2>1, <2>2 DEF Unbroken, n
  <2>4. j + 1 # n
    BY <2>3 DEF n
  <2>. QED BY <1>2, <2>1, <2>2, <2>3, <2>4
<1>6. Unbroken(Q, id)'
  BY <1>5 DEF Unbroken
<1>7. CASE \E i \in 2 .. n - 1 : P[i] = <<id, 0>>
  <2>1. PICK i \in 2 .. n - 1 : P[i] = <<id, 0>>
    BY <1>7
  <2>2. i \in 2 .. Len(Q) - 1 /\ i \in 1 .. n - 1
    BY <1>1, <1>2, SMT
  <2>3. Q[i] = <<id, 0>>
    BY <1>2, <2>1, <2>2
  <2>. QED BY <1>6, <2>2, <2>3 DEF Hopeful, Q
<1>8. CASE InSync(P[1]) /\ P[1][1] = id
  <2>1. 1 \in 1 .. n - 1
    BY <1>1, SMT
  <2>2. Q[1] = P[1]
    BY <1>2, <2>1
  <2>3. InSync(Q[1])' /\ Q[1][1] = id
    <3>. DEFINE a == P[1]
    <3>1. InSync(a)'
      BY <1>8, InSyncKept
    <3>. QED BY <1>8, <2>2, <3>1
  <2>. QED BY <1>6, <2>3 DEF Hopeful, Q
<1>. QED BY <1>7, <1>8 DEF Hopeful, n, Q

(* A message whose header has just been put on the bus.                    *)
LEMMA HopefulAtFirst ==
  ASSUME Types, NEW P, Path(P), NEW q, Made(P[Len(P)], q), P[Len(P)] = <<Len(sent) + 1, 0>>
  PROVE  Hopeful(Append(P, q), P[Len(P)][1])'
<1>. DEFINE Q == Append(P, q)
            n == Len(P)
            id == P[n][1]
<1>1. /\ P \in Seq(Position) /\ n \in Nat /\ n >= 2 /\ q \in Position
      /\ q = After(sent', P[n]) /\ id = Len(sent) + 1 /\ Len(sent) \in Nat /\ P[n] = <<id, 0>>
  BY PathFacts DEF Made
<1>2. Len(Q) = n + 1 /\ Q[n + 1] = q /\ \A i \in 1 .. n : Q[i] = P[i]
  BY <1>1, AppendProperties
<1>3. \A j \in 1 .. n - 1 : P[j][1] # id
  <2>1. \A j \in 1 .. n - 1 : P[j][1] <= Len(sent) /\ P[j][1] \in Nat
    <3>1. \A j \in 1 .. n - 1 : j \in 1 .. n
      BY <1>1, SMT
    <3>. QED BY <3>1, PathFacts
  <2>2. \A x \in Nat : x <= Len(sent) => x # id
    BY <1>1, SMT
  <2>. QED BY <2>1, <2>2
<1>4. n \in 1 .. n /\ n \in 2 .. Len(Q) - 1 /\ Len(Q) - 1 = n
      /\ \A j \in 1 .. n : j # n => j \in 1 .. n - 1
  BY <1>1, <1>2, SMT
<1>. HIDE DEF Q
<1>5. ASSUME NEW j \in 1 .. Len(Q) - 1, Q[j][1] = id, Offset(Q[j][2]) < sent'[id].len
      PROVE  Q[j + 1] = <<id, Q[j][2] + 1>>
  <2>0. j \in 1 .. n
    BY <1>4, Zenon
  <2>a. Q[j] = P[j]
    BY <1>2, <2>0, Zenon
  <2>1. Q[j] = P[j] /\ j = n
    BY <1>3, <1>4, <1>5, <2>0, <2>a, Zenon
  <2>2. After(sent', P[n]) = <<id, P[n][2] + 1>>
    BY <1>5, <2>1 DEF After
  <2>. QED BY <1>1, <1>2, <2>1, <2>2
<1>6. Unbroken(Q, id)'
  BY <1>5 DEF Unbroken
<1>7. Q[n] = <<id, 0>>
  <2>1. Q[n] = P[n]
    BY <1>2, <1>4, Zenon
  <2>. QED BY <1>1, <2>1, Zenon
<1>. QED BY <1>4, <1>6, <1>7 DEF Hopeful, Q

(* A frame is received.                                                    *)
LEMMA HopefulShorter ==
  ASSUME Types, NEW P, Path(P), bus # <<>>, bus' = Tail(bus), UNCHANGED <<sent, out>>,
         NEW id, Unbroken(P, id),
         \/ (\E i \in 2 .. Len(P) - 1 : P[i] = <<id, 0>>) /\ P[2] # <<id, 0>>
         \/ InSync(P[2])' /\ P[2][1] = id
  PROVE  Hopeful(Tail(P), id)'
<1>. DEFINE Q == Tail(P)
            n == Len(P)
<1>1. n \in Nat /\ n >= 3 /\ Len(Q) = n - 1 /\ \A i \in 1 .. n - 1 : Q[i] = P[i + 1]
  BY PathShorter, PathFacts DEF Types
<1>. HIDE DEF Q
<1>2. 1 \in 1 .. n - 1 /\ 1 + 1 = 2
  BY <1>1, SMT
<1>3. ASSUME NEW j \in 1 .. Len(Q) - 1, Q[j][1] = id, Offset(Q[j][2]) < sent'[id].len
      PROVE  Q[j + 1] = <<id, Q[j][2] + 1>>
  <2>1. j \in 1 .. n - 1 /\ j + 1 \in 1 .. n - 1
    BY <1>1, SMT
  <2>2. Q[j] = P[j + 1] /\ Q[j + 1] = P[(j + 1) + 1] /\ sent' = sent
    BY <1>1, <2>1
  <2>3. P[(j + 1) + 1] = <<id, P[j + 1][2] + 1>>
    BY <1>3, <2>1, <2>2 DEF Unbroken, n
  <2>. QED BY <2>2, <2>3
<1>4. Unbroken(Q, id)'
  BY <1>3 DEF Unbroken
<1>5. CASE (\E i \in 2 .. n - 1 : P[i] = <<id, 0>>) /\ P[2] # <<id, 0>>
  <2>1. PICK i \in 2 .. n - 1 : P[i] = <<id, 0>>
    BY <1>5
  <2>2. i # 2
    BY <1>5, <2>1
  <2>3. i - 1 \in 2 .. Len(Q) - 1 /\ i - 1 \in 1 .. n - 1 /\ (i - 1) + 1 = i
    BY <1>1, <2>2, SMT
  <2>4. Q[i - 1] = <<id, 0>>
    BY <1>1, <2>1, <2>3
  <2>. QED BY <1>4, <2>3, <2>4 DEF Hopeful, Q
<1>6. CASE InSync(P[2])' /\ P[2][1] = id
  <2>1. Q[1] = P[2]
    BY <1>1, <1>2
  <2>2. InSync(Q[1])' /\ Q[1][1] = id
    <3>. DEFINE a == P[2]
                b == Q[1]
    <3>1. b = a /\ InSync(a)' /\ a[1] = id
      BY <1>6, <2>1
    <3>. HIDE DEF a, b
    <3>2. InSync(b)' /\ b[1] = id
      BY <3>1 DEF InSync
    <3>. QED BY <3>2 DEF b
  <2>. QED BY <1>4, <2>2 DEF Hopeful, Q
<1>. QED BY <1>5, <1>6 DEF n, Q

(* The next frame of a message that is being received whole.               *)
LEMMA NextInSync ==
  ASSUME Types, NEW P, Path(P), NEW id, Unbroken(P, id), InSync(P[1]), P[1][1] = id
  PROVE  /\ P[2] = <<id, P[1][2] + 1>> /\ P[1][2] \in Nat /\ P[1][2] + 1 # 0
         /\ Offset(P[1][2] + 1) = Offset(P[1][2]) + FragBytes
<1>1. Len(P) \in Nat /\ Len(P) >= 2 /\ \A j \in 1 .. Len(P) : P[j][2] \in Nat
  BY PathFacts
<1>2. 1 \in 1 .. Len(P) - 1 /\ 1 \in 1 .. Len(P) /\ 1 + 1 = 2
  BY <1>1, SMT
<1>3. Offset(P[1][2]) < sent[id].len
  BY DEF InSync, Types
<1>4. P[2] = <<id, P[1][2] + 1>>
  BY <1>2, <1>3 DEF Unbroken
<1>5. P[1][2] \in Nat
  BY <1>1, <1>2
<1>6. P[1][2] + 1 # 0
  BY <1>5, SMT
<1>. QED BY <1>4, <1>5, <1>6, Offsets

LEMMA ToldEnds ==
  ASSUME handed \in Seq(Report), rx \in Reception, NEW calls \in Seq(Said)
  PROVE  /\ Len(handed) <= Len(Told(calls))
         /\ \A k \in 1 .. Len(handed) : Told(calls)[k] = handed[k]
         /\ \A k \in Len(handed) + 1 .. Len(Told(calls)) :
              Told(calls)[k].status \in {COMPLETE, INCOMPLETE}
         /\ Ends(calls) =>
              \E k \in Len(handed) + 1 .. Len(Told(calls)) : Told(calls)[k].status # INCOMPLETE
<1>. DEFINE n == Len(handed)
            m == Len(calls)
            h == Told(calls)
<1>1. Reported(calls) \in Seq(Report) /\ Len(Reported(calls)) = m
      /\ \A i \in 1 .. m : Reported(calls)[i] = Call(calls[i].data, rx.stream, calls[i].status)
  BY ReportedTyped
<1>2. n \in Nat /\ m \in Nat /\ \A i \in 1 .. m : calls[i].status \in {COMPLETE, INCOMPLETE}
  <2>1. \A i \in 1 .. m : calls[i] \in Said
    BY ElementOfSeq
  <2>. QED BY <2>1, LenProperties DEF Said
<1>3. /\ Len(h) = n + m /\ \A k \in 1 .. n : h[k] = handed[k]
      /\ \A k \in n + 1 .. n + m : h[k] = Reported(calls)[k - n]
  <2>. DEFINE r == Reported(calls)
  <2>0. r \in Seq(Report) /\ Len(r) = m
    BY <1>1
  <2>. HIDE DEF r
  <2>1. Len(h) = n + m
    <3>1. Len(handed \o r) = Len(handed) + Len(r)
      BY <2>0, ConcatProperties
    <3>. QED BY <2>0, <3>1 DEF Told, r
  <2>2. \A k \in 1 .. n + m : h[k] = IF k <= n THEN handed[k] ELSE Reported(calls)[k - n]
    BY <1>1, ConcatProperties DEF Told
  <2>3. \A k \in 1 .. n : k \in 1 .. n + m /\ k <= n
    BY <1>2, SMT
  <2>4. \A k \in n + 1 .. n + m : k \in 1 .. n + m /\ ~(k <= n)
    BY <1>2, SMT
  <2>. QED BY <2>1, <2>2, <2>3, <2>4
<1>. HIDE DEF n, m, h
<1>4. \A k \in n + 1 .. n + m : k - n \in 1 .. m
  BY <1>2, SMT
<1>5. \A k \in n + 1 .. n + m : h[k].status = calls[k - n].status
  BY <1>1, <1>3, <1>4 DEF Call
<1>6. ASSUME Ends(calls) PROVE \E k \in n + 1 .. n + m : h[k].status # INCOMPLETE
  <2>1. PICK i \in 1 .. m : calls[i].status = COMPLETE
    BY <1>6 DEF Ends, m
  <2>2. n + i \in n + 1 .. n + m /\ (n + i) - n = i
    BY <1>2, SMT
  <2>3. h[n + i].status = COMPLETE
    BY <1>5, <2>1, <2>2
  <2>. QED BY <2>2, <2>3 DEF COMPLETE, INCOMPLETE
<1>7. n <= n + m
  BY <1>2, SMT
<1>. QED BY <1>2, <1>3, <1>4, <1>5, <1>6, <1>7 DEF n, h

LEMMA HeaderAccounted ==
  ASSUME Types, Types', NEW P, Path(P), NEW D, Accounted(P, D),
         bus # <<>>, bus' = Tail(bus), UNCHANGED <<sent, out, faults>>,
         ReceiveHeader(FrameAt(sent, P[2]))
  PROVE  Accounted(Tail(P), D)'
<1>. DEFINE b == P[2]
<1>1. Exists(sent, b) /\ b \in Position
  BY PathShorter DEF Types
<1>2. /\ handed' = handed /\ ~rx.receiving
      /\ b[2] = 0 /\ sent[b[1]].stream \in Subscribed =>
           rx' = Started(sent[b[1]].stream, sent[b[1]].len)
  <2>. HIDE DEF b
  <2>. QED BY <1>1, HeaderReceived DEF b
<1>3. Expected' = Expected
  BY DEF Expected
<1>4. ASSUME NEW id \in Expected' \ D PROVE Hopeful(Tail(P), id)'
  <2>1. Hopeful(P, id) /\ id \in 1 .. Len(sent) /\ sent[id].stream \in Subscribed
    <3>1. id \in Expected \ D
      BY <1>3
    <3>2. Expected = {i \in 1 .. Len(sent) : sent[i].stream \in Subscribed}
      BY ExpectedFinite DEF Types, Accounted
    <3>. QED BY <3>1, <3>2 DEF Accounted
  <2>2. Unbroken(P, id) /\ \E i \in 2 .. Len(P) - 1 : P[i] = <<id, 0>>
    BY <1>2, <2>1 DEF Hopeful, InSync
  <2>3. CASE b # <<id, 0>>
    BY <2>2, <2>3, HopefulShorter
  <2>4. CASE b = <<id, 0>>
    <3>1. b[1] = id /\ b[2] = 0
      BY <2>4
    <3>. HIDE DEF b
    <3>2. rx' = Started(sent[id].stream, sent[id].len)
      BY <1>2, <2>1, <3>1
    <3>3. sent[id].stream \in Stream /\ sent[id].len \in Nat
      <4>1. sent[id] \in Message
        BY <2>1, ElementOfSeq DEF Types
      <4>. QED BY <4>1, Constants DEF Message
    <3>4. /\ rx'.receiving /\ rx'.stream = sent[id].stream /\ rx'.length = sent[id].len
          /\ rx'.received = 0 /\ rx'.expected = 1
      <4>. DEFINE r == Started(sent[id].stream, sent[id].len)
      <4>1. /\ r.receiving /\ r.stream = sent[id].stream /\ r.length = sent[id].len
            /\ r.received = 0 /\ r.expected = 1
        BY <3>3, StartedTyped, Zenon
      <4>. HIDE DEF r
      <4>. QED BY <3>2, <4>1 DEF r
    <3>5. 0 = Offset(b[2]) /\ 1 = b[2] + 1
      BY <3>1, Offsets
    <3>6. InSync(b)'
      BY <1>1, <3>1, <3>4, <3>5 DEF InSync
    <3>. QED BY <2>2, <3>1, <3>6, HopefulShorter DEF b
  <2>. QED BY <2>3, <2>4
<1>5. Expected \subseteq Expected' /\ faults <= faults'
      /\ Cardinality(EndedIn(handed)) <= Cardinality(EndedIn(handed'))
  <2>1. Cardinality(EndedIn(handed)) \in Nat /\ faults \in Nat
    BY EndedFinite DEF Types
  <2>. QED BY <1>2, <1>3, <2>1, SMT
<1>. QED BY <1>4, <1>5, NothingSpent

LEMMA ExpectedAccounted ==
  ASSUME Types, Types', NEW P, Path(P), NEW D, Accounted(P, D),
         bus # <<>>, bus' = Tail(bus), UNCHANGED <<sent, out, faults>>,
         ReceiveExpected(FrameAt(sent, P[2]))
  PROVE  \E C : Accounted(Tail(P), C)'
<1>. DEFINE b == P[2]
            f == FrameAt(sent, b)
            t == TakeFragment(f.data)
<1>1. Exists(sent, b) /\ b \in Position
  BY PathShorter DEF Types
<1>2. /\ rx.receiving /\ f.stream = rx.stream /\ f.seq = rx.expected /\ rx.expected # 0
      /\ rx.received < rx.length
  <2>1. rx.receiving /\ f.stream = rx.stream /\ f.seq = rx.expected
    <3>. HIDE DEF f
    <3>1. ReceiveExpected(f)
      BY DEF f
    <3>. QED BY <3>1, Zenon DEF ReceiveExpected
  <2>2. rx.receiving => rx.expected # 0 /\ rx.received < rx.length
    BY Zenon DEF Types
  <2>. QED BY <2>1, <2>2
<1>3. f \in Frame /\ f.stream = sent[b[1]].stream /\ b[2] # 0
      /\ f.data = Payload(sent, b) /\ Len(f.data) = FragBytes
  <2>. HIDE DEF b
  <2>1. f \in Frame /\ f.stream = sent[b[1]].stream /\ (b[2] = 0 => f.seq = 0)
        /\ (b[2] # 0 => f.data = Payload(sent, b))
    BY <1>1, FrameTyped DEF Types
  <2>2. b[2] # 0
    BY <1>2, <2>1
  <2>. QED BY <1>1, <2>1, <2>2, PayloadTyped DEF Types
<1>4. /\ Counted(t, Len(f.data)) /\ t \in Loop /\ handed' = Told(t.calls)
      /\ ~t.done =>
           /\ rx'.receiving = TRUE /\ rx'.stream = rx.stream /\ rx'.length = rx.length
           /\ rx'.received = rx.received + Len(f.data)
           /\ rx'.expected = rx.expected + 1
  <2>. HIDE DEF b
  <2>1. ReceiveExpected(f)
    BY DEF b
  <2>. HIDE DEF f
  <2>. QED BY <1>3, <2>1, ExpectedReceived
<1>. HIDE DEF t
<1>5. Expected' = Expected /\ faults' = faults
  BY DEF Expected
<1>6. ASSUME NEW id \in Expected \ D
      PROVE  /\ Unbroken(P, id) /\ b # <<id, 0>>
             /\ \/ \E i \in 2 .. Len(P) - 1 : P[i] = <<id, 0>>
                \/ InSync(P[1]) /\ P[1][1] = id
  <2>1. Hopeful(P, id)
    BY DEF Accounted
  <2>2. b # <<id, 0>>
    BY <1>3
  <2>. QED BY <2>1, <2>2 DEF Hopeful
<1>7. handed \in Seq(Report) /\ rx \in Reception /\ t.calls \in Seq(Said) /\ handed' \in Seq(Report)
      /\ faults \in Nat /\ Cardinality(EndedIn(handed)) \in Nat
  BY <1>4, EndedFinite DEF Types, Loop
<1>8. CASE t.done
  <2>1. Ends(t.calls)
    BY <1>4, <1>8 DEF Counted
  <2>2. /\ Len(handed) <= Len(handed') /\ \A k \in 1 .. Len(handed) : handed'[k] = handed[k]
        /\ \E k \in Len(handed) + 1 .. Len(handed') : handed'[k].status # INCOMPLETE
    BY <1>4, <1>7, <2>1, ToldEnds
  <2>3. Cardinality(EndedIn(handed)) + 1 <= Cardinality(EndedIn(handed'))
    <3>. DEFINE g == handed'
    <3>1. g \in Seq(Report) /\ Len(handed) <= Len(g) /\ (\A k \in 1 .. Len(handed) : g[k] = handed[k])
          /\ \E k \in Len(handed) + 1 .. Len(g) : g[k].status # INCOMPLETE
      BY <1>7, <2>2
    <3>. HIDE DEF g
    <3>2. Cardinality(EndedIn(handed)) + 1 <= Cardinality(EndedIn(g))
      BY <1>7, <3>1, EndedGrows
    <3>. QED BY <3>2 DEF g
  <2>4. faults + Cardinality(EndedIn(handed)) + 1 <= faults' + Cardinality(EndedIn(handed'))
    <3>1. Cardinality(EndedIn(handed')) \in Nat
      BY <1>7, EndedFinite
    <3>. QED BY <1>5, <1>7, <2>3, <3>1, SMT
  <2>5. ASSUME NEW id \in Expected' \ D, id # P[1][1] PROVE Hopeful(Tail(P), id)'
    <3>1. Unbroken(P, id) /\ b # <<id, 0>> /\ \E i \in 2 .. Len(P) - 1 : P[i] = <<id, 0>>
      BY <1>5, <1>6, <2>5
    <3>. QED BY <3>1, HopefulShorter
  <2>6. Expected \subseteq Expected'
    BY <1>5
  <2>. QED BY <2>4, <2>5, <2>6, OneSpent
<1>9. CASE ~t.done
  <2>1. Len(handed) <= Len(handed') /\ \A k \in 1 .. Len(handed) : handed'[k] = handed[k]
    BY <1>4, <1>7, ToldEnds
  <2>2. Cardinality(EndedIn(handed)) <= Cardinality(EndedIn(handed'))
    <3>. DEFINE g == handed'
    <3>1. g \in Seq(Report) /\ Len(handed) <= Len(g) /\ \A k \in 1 .. Len(handed) : g[k] = handed[k]
      BY <1>7, <2>1
    <3>. HIDE DEF g
    <3>2. Cardinality(EndedIn(handed)) <= Cardinality(EndedIn(g))
      BY <1>7, <3>1, EndedGrows
    <3>. QED BY <3>2 DEF g
  <2>3. ASSUME NEW id \in Expected' \ D PROVE Hopeful(Tail(P), id)'
    <3>1. Unbroken(P, id) /\ b # <<id, 0>>
          /\ \/ \E i \in 2 .. Len(P) - 1 : P[i] = <<id, 0>>
             \/ InSync(P[1]) /\ P[1][1] = id
      BY <1>5, <1>6
    <3>2. CASE \E i \in 2 .. Len(P) - 1 : P[i] = <<id, 0>>
      BY <3>1, <3>2, HopefulShorter
    <3>3. CASE InSync(P[1]) /\ P[1][1] = id
      <4>1. /\ b = <<id, P[1][2] + 1>>
            /\ Offset(P[1][2] + 1) = Offset(P[1][2]) + FragBytes
        BY <3>1, <3>3, NextInSync
      <4>2. /\ rx.stream = sent[id].stream /\ rx.length = sent[id].len
            /\ rx.received = Offset(P[1][2]) /\ rx.expected = P[1][2] + 1
        BY <3>3 DEF InSync
      <4>3. b[1] = id /\ b[2] = P[1][2] + 1
        BY <4>1
      <4>4. rx'.received = Offset(b[2]) /\ rx'.expected = b[2] + 1
        BY <1>3, <1>4, <1>9, <4>1, <4>2, <4>3
      <4>5. InSync(b)'
        <5>. HIDE DEF b
        <5>. QED BY <1>1, <1>4, <1>9, <4>2, <4>3, <4>4 DEF InSync
      <4>. QED BY <3>1, <4>3, <4>5, HopefulShorter
    <3>. QED BY <3>1, <3>2, <3>3
  <2>4. Expected \subseteq Expected' /\ faults <= faults'
    BY <1>5, <1>7, SMT
  <2>. QED BY <2>2, <2>3, <2>4, NothingSpent
<1>. QED BY <1>8, <1>9

LEMMA GivenUpCounts ==
  ASSUME Types, Types', rx.receiving, NEW status \in {SEQUENCE_ERROR, TIMEOUT_ERROR},
         GiveUp(status), faults' = faults
  PROVE  faults + Cardinality(EndedIn(handed)) + 1 <= faults' + Cardinality(EndedIn(handed'))
<1>. DEFINE c == Call(rx.held, rx.stream, status)
            g == handed'
            n == Len(handed)
<1>1. c \in Report /\ g = Append(handed, c) /\ handed \in Seq(Report) /\ g \in Seq(Report)
  <2>1. status \in Status
    BY DEF Status
  <2>2. c \in Report /\ g = Append(handed, c)
    BY <2>1, GivenUp
  <2>. QED BY <2>2 DEF Types
<1>2. c.status # INCOMPLETE
  BY DEF Call, INCOMPLETE, SEQUENCE_ERROR, TIMEOUT_ERROR
<1>. HIDE DEF c, g
<1>3. n \in Nat /\ Len(g) = n + 1 /\ g[n + 1] = c /\ \A k \in 1 .. n : g[k] = handed[k]
  BY <1>1, AppendProperties, LenProperties
<1>4. n <= Len(g) /\ n + 1 \in n + 1 .. Len(g)
  BY <1>3, SMT
<1>5. \E k \in n + 1 .. Len(g) : g[k].status # INCOMPLETE
  BY <1>2, <1>3, <1>4
<1>6. Cardinality(EndedIn(handed)) + 1 <= Cardinality(EndedIn(g))
  BY <1>1, <1>3, <1>4, <1>5, EndedGrows
<1>7. Cardinality(EndedIn(handed)) \in Nat /\ Cardinality(EndedIn(g)) \in Nat /\ faults \in Nat
  BY <1>1, EndedFinite DEF Types
<1>. QED BY <1>6, <1>7, SMT DEF g

LEMMA UnexpectedAccounted ==
  ASSUME Types, Types', NEW P, Path(P), NEW D, Accounted(P, D),
         bus # <<>>, bus' = Tail(bus), UNCHANGED <<sent, out, faults>>,
         ReceiveUnexpected(FrameAt(sent, P[2]))
  PROVE  \E C : Accounted(Tail(P), C)'
<1>. DEFINE b == P[2]
            x == IF b[2] = 0 THEN b[1] ELSE P[1][1]
<1>1. Expected' = Expected /\ Expected \subseteq Expected'
  BY DEF Expected
<1>2. faults + Cardinality(EndedIn(handed)) + 1 <= faults' + Cardinality(EndedIn(handed'))
  <2>1. rx.receiving /\ GiveUp(SEQUENCE_ERROR)
    BY DEF ReceiveUnexpected, OutOfSequence
  <2>. QED BY <2>1, GivenUpCounts
<1>3. ASSUME NEW id \in Expected' \ D, id # x PROVE Hopeful(Tail(P), id)'
  <2>1. Hopeful(P, id)
    BY <1>1 DEF Accounted
  <2>2. Unbroken(P, id)
    BY <2>1 DEF Hopeful
  <2>3. ~(InSync(P[1]) /\ P[1][1] = id)
    <3>1. SUFFICES ASSUME InSync(P[1]), P[1][1] = id PROVE FALSE
      OBVIOUS
    <3>2. b = <<id, P[1][2] + 1>> /\ P[1][2] + 1 # 0
      BY <2>2, <3>1, NextInSync
    <3>3. x = P[1][1]
      BY <3>2
    <3>. QED BY <1>3, <3>1, <3>3
  <2>4. b # <<id, 0>>
    <3>1. SUFFICES ASSUME b = <<id, 0>> PROVE FALSE
      OBVIOUS
    <3>2. x = id
      BY <3>1
    <3>. QED BY <1>3, <3>2
  <2>5. \E i \in 2 .. Len(P) - 1 : P[i] = <<id, 0>>
    BY <2>1, <2>3 DEF Hopeful
  <2>. QED BY <2>2, <2>4, <2>5, HopefulShorter
<1>. HIDE DEF x
<1>. QED BY <1>1, <1>2, <1>3, OneSpent

(* With one subscribed stream a frame of another is no loss.               *)
LEMMA OtherAccounted ==
  ASSUME Types, Types', NEW P, Path(P), NEW D, Accounted(P, D),
         bus # <<>>, bus' = Tail(bus), UNCHANGED <<sent, out, faults>>,
         \A x, y \in Subscribed : x = y,
         ReceiveOther(FrameAt(sent, P[2]))
  PROVE  Accounted(Tail(P), D)'
<1>. DEFINE b == P[2]
            f == FrameAt(sent, b)
<1>1. Exists(sent, b) /\ b \in Position
  BY PathShorter DEF Types
<1>2. f.stream = sent[b[1]].stream
  <2>. HIDE DEF b
  <2>. QED BY <1>1, FrameTyped DEF Types
<1>3. handed' = handed /\ f.stream # rx.stream /\ rx.stream \in Subscribed
  BY DEF ReceiveOther, Types
<1>4. Expected' = Expected
  BY DEF Expected
<1>. HIDE DEF f
<1>5. ASSUME NEW id \in Expected' \ D PROVE Hopeful(Tail(P), id)'
  <2>1. Hopeful(P, id) /\ sent[id].stream \in Subscribed
    <3>1. id \in Expected \ D
      BY <1>4
    <3>2. Expected = {i \in 1 .. Len(sent) : sent[i].stream \in Subscribed}
      BY ExpectedFinite DEF Types, Accounted
    <3>. QED BY <3>1, <3>2 DEF Accounted
  <2>2. Unbroken(P, id) /\ sent[id].stream = rx.stream
    BY <1>3, <2>1 DEF Hopeful
  <2>3. b[1] # id
    BY <1>2, <1>3, <2>2
  <2>4. ~(InSync(P[1]) /\ P[1][1] = id)
    <3>1. SUFFICES ASSUME InSync(P[1]), P[1][1] = id PROVE FALSE
      OBVIOUS
    <3>2. b = <<id, P[1][2] + 1>>
      BY <2>2, <3>1, NextInSync
    <3>. QED BY <2>3, <3>2
  <2>5. b # <<id, 0>>
    BY <2>3
  <2>6. \E i \in 2 .. Len(P) - 1 : P[i] = <<id, 0>>
    BY <2>1, <2>4 DEF Hopeful
  <2>. QED BY <2>2, <2>5, <2>6, HopefulShorter
<1>6. Expected \subseteq Expected' /\ faults <= faults'
      /\ Cardinality(EndedIn(handed)) <= Cardinality(EndedIn(handed'))
  <2>1. Cardinality(EndedIn(handed)) \in Nat /\ faults \in Nat
    BY EndedFinite DEF Types
  <2>. QED BY <1>3, <1>4, <2>1, SMT
<1>. QED BY <1>5, <1>6, NothingSpent

(* A message or a frame is made.                                           *)
LEMMA MadeAccounted ==
  ASSUME Types, Types', NEW P, Path(P), NEW D, Accounted(P, D), NEW q, Made(P[Len(P)], q),
         \/ sent' = sent /\ P[Len(P)][1] = Len(sent)
         \/ Len(sent') = Len(sent) + 1 /\ P[Len(P)] = <<Len(sent) + 1, 0>>
  PROVE  \E Q : Path(Q)' /\ \E C : Accounted(Q, C)'
<1>. DEFINE p == P[Len(P)]
            f == FrameAt(sent', p)
<1>1. /\ Keeps(sent, sent') /\ Exists(sent', p) /\ p \in Position /\ q \in Position
      /\ rx' = rx /\ handed' = handed /\ Making(q)'
  BY DEF Made
<1>2. f \in Frame
  <2>1. sent' \in Seq(Message)
    BY DEF Types
  <2>. HIDE DEF p
  <2>. QED BY <1>1, <2>1, FrameTyped
<1>3. /\ Expected \subseteq Expected'
      /\ \A id \in Expected' \ D :
           \/ id \in Expected \ D /\ id \in 1 .. Len(sent)
           \/ id = p[1] /\ id \notin 1 .. Len(sent)
  <2>0. sent \in Seq(Message) /\ sent' \in Seq(Message) /\ D \in SUBSET Expected
    BY DEF Types, Accounted
  <2>1. Expected = {i \in 1 .. Len(sent) : sent[i].stream \in Subscribed}
    BY <2>0, ExpectedFinite
  <2>2. Expected' = {i \in 1 .. Len(sent') : sent'[i].stream \in Subscribed}
    <3>1. DOMAIN sent' = 1 .. Len(sent')
      BY <2>0, LenProperties
    <3>2. Expected' = {i \in DOMAIN sent' : sent'[i].stream \in Subscribed}
      BY Zenon DEF Expected
    <3>. QED BY <3>1, <3>2, Zenon
  <2>3. \A i \in 1 .. Len(sent) : i \in 1 .. Len(sent') /\ sent'[i] = sent[i]
    BY <1>1, SMT DEF Keeps
  <2>4. \A i \in 1 .. Len(sent') : i \in 1 .. Len(sent) \/ i = p[1]
    <3>1. CASE sent' = sent
      BY <3>1, Zenon
    <3>2. CASE Len(sent') = Len(sent) + 1 /\ p[1] = Len(sent) + 1
      <4>1. Len(sent) \in Nat
        BY <1>1 DEF Keeps
      <4>. HIDE DEF p
      <4>. QED BY <3>2, <4>1, SMT
    <3>. QED BY <3>1, <3>2
  <2>. HIDE DEF p
  <2>. QED BY <2>1, <2>2, <2>3, <2>4, Zenon
<1>4. bus \in Seq(Frame) /\ faults \in Nat /\ Cardinality(EndedIn(handed)) \in Nat
  BY EndedFinite DEF Types
<1>5. CASE bus' = Append(bus, f) /\ faults' = faults
  <2>1. Path(Append(P, q))'
    BY <1>1, <1>2, <1>4, <1>5, PathLonger
  <2>2. ASSUME NEW id \in Expected' \ D PROVE Hopeful(Append(P, q), id)'
    <3>1. CASE id \in Expected \ D /\ id \in 1 .. Len(sent)
      <4>1. Hopeful(P, id)
        BY <3>1 DEF Accounted
      <4>. QED BY <3>1, <4>1, HopefulLonger
    <3>2. CASE id = p[1] /\ id \notin 1 .. Len(sent)
      <4>1. p = <<Len(sent) + 1, 0>>
        <5>1. Len(sent) \in Nat /\ p[1] \in Nat
          BY <1>1 DEF Keeps, Position
        <5>2. SUFFICES ASSUME sent' = sent, p[1] = Len(sent) PROVE FALSE
          OBVIOUS
        <5>3. p[1] \in 1 .. Len(sent)
          BY <1>1, <5>2 DEF Exists
        <5>. QED BY <3>2, <5>3
      <4>2. Hopeful(Append(P, q), p[1])'
        BY <4>1, HopefulAtFirst
      <4>. QED BY <3>2, <4>2
    <3>. QED BY <1>3, <3>1, <3>2
  <2>3. Accounted(Append(P, q), D)'
    <3>1. faults <= faults' /\ Cardinality(EndedIn(handed)) <= Cardinality(EndedIn(handed'))
      BY <1>1, <1>4, <1>5, SMT
    <3>. QED BY <1>3, <2>2, <3>1, NothingSpent
  <2>. QED BY <2>1, <2>3
<1>6. CASE bus' = bus /\ faults' = faults + 1
  <2>1. Path(Instead(P, q))'
    BY <1>1, <1>4, <1>6, PathInstead
  <2>2. ASSUME NEW id \in Expected' \ D, id # p[1] PROVE Hopeful(Instead(P, q), id)'
    <3>1. id \in 1 .. Len(sent) /\ Hopeful(P, id)
      BY <1>3, <2>2 DEF Accounted
    <3>. QED BY <1>1, <2>2, <3>1, HopefulInstead
  <2>3. faults + Cardinality(EndedIn(handed)) + 1 <= faults' + Cardinality(EndedIn(handed'))
    BY <1>1, <1>4, <1>6, SMT
  <2>4. \E C : Accounted(Instead(P, q), C)'
    <3>. DEFINE x == p[1]
    <3>1. \A id \in Expected' \ D : id # x => Hopeful(Instead(P, q), id)'
      BY <2>2
    <3>. HIDE DEF x
    <3>. QED BY <1>3, <2>3, <3>1, OneSpent
  <2>. QED BY <2>1, <2>4
<1>. QED BY <1>5, <1>6 DEF Made

LEMMA HopelessInSilence ==
  ASSUME Types, NEW P, Path(P), Silence, NEW id, Hopeful(P, id)
  PROVE  FALSE
<1>1. Len(P) = 2
  <2>1. Len(bus) = 0
    BY EmptySeq DEF Silence
  <2>. QED BY <2>1 DEF Path
<1>2. P[2] = <<Len(sent) + 1, 0>>
  BY <1>1 DEF Path, Making, Silence, Working
<1>3. Unbroken(P, id) /\ InSync(P[1]) /\ P[1][1] = id
  <2>1. 2 .. 2 - 1 = {}
    BY SMT
  <2>. QED BY <1>1, <2>1 DEF Hopeful
<1>4. P[2] = <<id, P[1][2] + 1>> /\ P[1][2] + 1 # 0
  BY <1>3, NextInSync
<1>. QED BY <1>2, <1>4

Account == Types /\ \E P : Path(P) /\ \E D : Accounted(P, D)

LEMMA PathAtFirst ==
  ASSUME Init
  PROVE  Types /\ Path(<< <<0, 0>>, <<1, 0>> >>)
<1>1. sent = <<>> /\ bus = <<>> /\ handed = <<>> /\ Len(sent) = 0 /\ Len(bus) = 0
  BY EmptySeq DEF Init
<1>2. \A s \in Sender : out[s] = NotSending /\ ~is_sending(s)
  BY DEF Init, NotSending, is_sending
<1>3. Types
  <2>1. out \in [Sender -> [id : Nat, index : Nat, seq : Nat]]
    BY DEF Init, NotSending
  <2>2. \A s \in Sender : out[s].id <= Len(sent)
    BY <1>1, <1>2 DEF NotSending
  <2>3. sent \in Seq(Message) /\ bus \in Seq(Frame) /\ handed \in Seq(Report) /\ faults \in Nat
    BY <1>1, EmptySeq DEF Init
  <2>4. rx \in Reception /\ ~rx.receiving
    BY AtRest DEF Init
  <2>. QED BY <2>1, <2>2, <2>3, <2>4 DEF Types
<1>. DEFINE a == <<0, 0>>
            b == <<1, 0>>
<1>4. a \in Position /\ b \in Position /\ b = <<Len(sent) + 1, 0>>
  BY <1>1 DEF Position
<1>5. Making(b)
  BY <1>2, <1>4 DEF Making
<1>. HIDE DEF a, b
<1>6. <<a, b>> \in Seq(Position) /\ Len(<<a, b>>) = 2 /\ <<a, b>>[1] = a /\ <<a, b>>[2] = b
  BY <1>4
<1>7. Len(<<a, b>>) = Len(bus) + 2 /\ 1 .. Len(bus) = {}
  BY <1>1, <1>6, SMT
<1>8. Path(<<a, b>>)
  <2>1. Making(<<a, b>>[Len(<<a, b>>)])
    BY <1>5, <1>6
  <2>2. <<a, b>>[1] = <<0, 0>>
    BY <1>6 DEF a
  <2>. QED BY <1>6, <1>7, <2>1, <2>2 DEF Path
<1>. QED BY <1>3, <1>8 DEF a, b

LEMMA AccountAtFirst == Init => Account
<1>. SUFFICES ASSUME Init PROVE Account
  OBVIOUS
<1>. PICK P : P = << <<0, 0>>, <<1, 0>> >>
  OBVIOUS
<1>1. Types /\ Path(P)
  BY PathAtFirst
<1>2. Expected = {} /\ handed = <<>> /\ faults = 0
  BY EmptySeq DEF Init, Expected
<1>3. Cardinality({}) = 0
  BY FS_EmptySet
<1>4. Cardinality(EndedIn(handed)) \in Nat
  BY <1>1, EndedFinite DEF Types
<1>5. Accounted(P, {})
  <2>1. Cardinality({}) <= faults + Cardinality(EndedIn(handed))
    BY <1>2, <1>3, <1>4, SMT
  <2>. QED BY <1>2, <2>1 DEF Accounted
<1>. QED BY <1>1, <1>5 DEF Account

LEMMA TimedOutTypes ==
  ASSUME Types, TimeOut, NEW P, Path(P)
  PROVE  Types' /\ Path(P)' /\ rx.receiving /\ Silence
<1>1. UNCHANGED <<sent, out, bus, faults>> /\ rx.receiving /\ Silence /\ GiveUp(TIMEOUT_ERROR)
  BY DEF TimeOut, TimedOut
<1>2. TIMEOUT_ERROR \in Status
  BY DEF Status
<1>3. RxTypes'
  BY <1>1, <1>2, GivenUp
<1>4. Types'
  BY <1>1, <1>3 DEF Types, RxTypes
<1>5. Path(P)'
  BY <1>1 DEF Path, Making, Working, is_sending
<1>. QED BY <1>1, <1>4, <1>5

LEMMA ReceiveTypes ==
  ASSUME Types, NEW P, Path(P), Receive
  PROVE  Types'
<1>. DEFINE b == P[2]
            f == FrameAt(sent, b)
<1>1. bus # <<>> /\ bus' = Tail(bus) /\ UNCHANGED <<sent, out, faults>>
  BY DEF Receive
<1>2. Exists(sent, b) /\ b \in Position /\ Head(bus) = f
  BY <1>1, PathShorter DEF Types
<1>3. ReceiveHeader(f) \/ ReceiveExpected(f) \/ ReceiveUnexpected(f) \/ ReceiveOther(f)
  BY <1>2 DEF Receive
<1>4. f \in Frame
  <2>. HIDE DEF b
  <2>. QED BY <1>2, FrameTyped DEF Types
<1>5. RxTypes'
  <2>1. CASE ReceiveHeader(f)
    <3>. HIDE DEF b
    <3>. QED BY <1>2, <2>1, HeaderReceived
  <2>2. CASE ReceiveExpected(f)
    <3>. HIDE DEF f
    <3>. QED BY <1>4, <2>2, ExpectedReceived
  <2>3. CASE ReceiveUnexpected(f)
    <3>1. rx.receiving /\ GiveUp(SEQUENCE_ERROR) /\ SEQUENCE_ERROR \in Status
      BY <2>3 DEF ReceiveUnexpected, OutOfSequence, Status
    <3>. QED BY <3>1, GivenUp
  <2>4. CASE ReceiveOther(f)
    <3>. HIDE DEF f
    <3>. QED BY <2>4, OtherReceived
  <2>. HIDE DEF f
  <2>. QED BY <1>3, <2>1, <2>2, <2>3, <2>4
<1>. QED BY <1>1, <1>5, ReceivingTyped

OneStream == \A x, y \in Subscribed : x = y

LEMMA AccountAgain ==
  ASSUME ~Concurrent, OneStream, Account, [Next]_vars
  PROVE  Account'
<1>1. Types
  BY DEF Account
<1>2. PICK P : Path(P) /\ \E D : Accounted(P, D)
  BY DEF Account
<1>3. PICK D : Accounted(P, D)
  BY <1>2
<1>. DEFINE p == P[Len(P)]
<1>4. Making(p) /\ Len(sent) \in Nat
  BY <1>1, <1>2, PathFacts
<1>5. ASSUME NEW s \in Sender, NEW stream \in Stream, NEW len \in Lens,
             SendLongMessage(s, stream, len)
      PROVE  Account'
  <2>. PICK q : q = <<Len(sent) + 1, 1>>
    OBVIOUS
  <2>1. /\ Types' /\ Made(p, q) /\ p = <<Len(sent) + 1, 0>>
        /\ sent' = Append(sent, [stream |-> stream, len |-> len])
    <3>. HIDE DEF p
    <3>. QED BY <1>1, <1>4, <1>5, HeaderMade
  <2>2. Len(sent') = Len(sent) + 1
    <3>1. [stream |-> stream, len |-> len] \in Message
      BY DEF Message
    <3>. QED BY <1>1, <2>1, <3>1, AppendProperties DEF Types
  <2>3. \E Q : Path(Q)' /\ \E C : Accounted(Q, C)'
    BY <1>1, <1>2, <1>3, <2>1, <2>2, MadeAccounted
  <2>. QED BY <2>1, <2>3 DEF Account
<1>6. ASSUME NEW s \in Sender, SendFragment(s) PROVE Account'
  <2>. PICK q : q = After(sent, p)
    OBVIOUS
  <2>1. Types' /\ Made(p, q) /\ sent' = sent /\ p[1] = Len(sent)
    <3>. HIDE DEF p
    <3>. QED BY <1>1, <1>4, <1>6, FragmentMade
  <2>2. \E Q : Path(Q)' /\ \E C : Accounted(Q, C)'
    BY <1>1, <1>2, <1>3, <2>1, MadeAccounted
  <2>. QED BY <2>1, <2>2 DEF Account
<1>7. ASSUME NEW s \in Sender, PowerLoss(s) PROVE Account'
  <2>. PICK q : q = <<Len(sent) + 1, 0>>
    OBVIOUS
  <2>1. /\ Types' /\ Making(q)' /\ q \in Position /\ Keeps(sent, sent')
        /\ UNCHANGED <<sent, bus, rx, handed>> /\ faults' = faults + 1 /\ p[1] = Len(sent)
    <3>. HIDE DEF p
    <3>. QED BY <1>1, <1>4, <1>7, PowerLost
  <2>2. Path(Instead(P, q))'
    BY <1>1, <1>2, <2>1, PathInstead DEF Types
  <2>3. ASSUME NEW id \in Expected' \ D, id # Len(sent) PROVE Hopeful(Instead(P, q), id)'
    <3>1. id \in Expected \ D
      BY <2>1 DEF Expected
    <3>2. id \in 1 .. Len(sent)
      BY <1>1, <1>3, <3>1, ExpectedFinite DEF Types, Accounted
    <3>3. Hopeful(P, id)
      BY <1>3, <3>1 DEF Accounted
    <3>. QED BY <1>1, <1>2, <2>1, <2>3, <3>2, <3>3, HopefulInstead
  <2>4. faults + Cardinality(EndedIn(handed)) + 1 <= faults' + Cardinality(EndedIn(handed'))
    <3>1. faults \in Nat /\ Cardinality(EndedIn(handed)) \in Nat
      BY <1>1, EndedFinite DEF Types
    <3>. QED BY <2>1, <3>1, SMT
  <2>5. Expected \subseteq Expected'
    BY <2>1 DEF Expected
  <2>6. \E C : Accounted(Instead(P, q), C)'
    <3>. PICK x : x = Len(sent)
      OBVIOUS
    <3>1. \A id \in Expected' \ D : id # x => Hopeful(Instead(P, q), id)'
      BY <2>3
    <3>. QED BY <1>1, <1>3, <2>1, <2>4, <2>5, <3>1, OneSpent
  <2>. QED BY <2>1, <2>2, <2>6 DEF Account
<1>8. ASSUME Receive PROVE Account'
  <2>. DEFINE f == FrameAt(sent, P[2])
  <2>1. bus # <<>> /\ bus' = Tail(bus) /\ UNCHANGED <<sent, out, faults>>
    BY <1>8 DEF Receive
  <2>2. Path(Tail(P))' /\ Head(bus) = f
    BY <1>1, <1>2, <2>1, PathShorter DEF Types
  <2>3. Types'
    BY <1>1, <1>2, <1>8, ReceiveTypes
  <2>4. ReceiveHeader(f) \/ ReceiveExpected(f) \/ ReceiveUnexpected(f) \/ ReceiveOther(f)
    BY <1>8, <2>2 DEF Receive
  <2>5. \E C : Accounted(Tail(P), C)'
    <3>1. CASE ReceiveHeader(f)
      BY <1>1, <1>2, <1>3, <2>1, <2>3, <3>1, HeaderAccounted
    <3>2. CASE ReceiveExpected(f)
      BY <1>1, <1>2, <1>3, <2>1, <2>3, <3>2, ExpectedAccounted
    <3>3. CASE ReceiveUnexpected(f)
      BY <1>1, <1>2, <1>3, <2>1, <2>3, <3>3, UnexpectedAccounted
    <3>4. CASE ReceiveOther(f)
      BY <1>1, <1>2, <1>3, <2>1, <2>3, <3>4, OtherAccounted DEF OneStream
    <3>. HIDE DEF f
    <3>. QED BY <2>4, <3>1, <3>2, <3>3, <3>4
  <2>. QED BY <2>2, <2>3, <2>5 DEF Account
<1>9. ASSUME TimeOut PROVE Account'
  <2>1. Types' /\ Path(P)' /\ rx.receiving /\ Silence
    BY <1>1, <1>2, <1>9, TimedOutTypes
  <2>2. UNCHANGED <<sent, out, bus, faults>> /\ GiveUp(TIMEOUT_ERROR)
    BY <1>9 DEF TimeOut
  <2>3. \A id \in Expected' \ D : Hopeful(P, id)'
    <3>1. Expected' = Expected
      BY <2>2 DEF Expected
    <3>2. \A id \in Expected \ D : Hopeful(P, id)
      BY <1>3 DEF Accounted
    <3>3. \A id : ~Hopeful(P, id)
      BY <1>1, <1>2, <2>1, HopelessInSilence
    <3>. QED BY <3>1, <3>2, <3>3
  <2>4. faults <= faults' /\ Cardinality(EndedIn(handed)) <= Cardinality(EndedIn(handed'))
    <3>1. faults + Cardinality(EndedIn(handed)) + 1 <= faults' + Cardinality(EndedIn(handed'))
      BY <1>1, <2>1, <2>2, GivenUpCounts
    <3>2. faults \in Nat /\ Cardinality(EndedIn(handed)) \in Nat
      BY <1>1, EndedFinite DEF Types
    <3>3. faults' = faults /\ Cardinality(EndedIn(handed')) \in Nat
      BY <2>1, <2>2, EndedFinite DEF Types
    <3>. QED BY <3>1, <3>2, <3>3, SMT
  <2>5. Expected \subseteq Expected'
    BY <2>2 DEF Expected
  <2>6. Accounted(P, D)'
    BY <1>1, <1>3, <2>1, <2>3, <2>4, <2>5, NothingSpent
  <2>. QED BY <2>1, <2>6 DEF Account
<1>10. CASE UNCHANGED vars
  <2>1. Types'
    BY <1>1, <1>10 DEF Types, vars
  <2>2. UNCHANGED <<sent, out, bus, rx, handed, faults>>
    BY <1>10 DEF vars
  <2>3. Path(P)'
    <3>1. Path(P)
      BY <1>2
    <3>. QED BY <2>2, <3>1, Zenon DEF Path, Making, Working, is_sending
  <2>4. Expected' = Expected
    BY <2>2 DEF Expected
  <2>5. \A id : Hopeful(P, id) => Hopeful(P, id)'
    BY <2>2, Zenon DEF Hopeful, Unbroken, InSync
  <2>6. Accounted(P, D)'
    BY <1>3, <2>2, <2>4, <2>5 DEF Accounted
  <2>. QED BY <2>1, <2>3, <2>6 DEF Account
<1>. QED BY <1>5, <1>6, <1>7, <1>8, <1>9, <1>10 DEF Next

LEMMA AccountIsKept == ~Concurrent /\ OneStream => (Spec => []Account)
<1>. SUFFICES ASSUME ~Concurrent, OneStream PROVE Spec => []Account
  OBVIOUS
<1>1. Account /\ [Next]_vars => Account'
  BY AccountAgain
<1>. QED BY <1>1, AccountAtFirst, PTL DEF Spec

LEMMA AccountShows ==
  ASSUME Account
  PROVE  NothingLostInSilence
<1>. SUFFICES ASSUME Quiet
              PROVE  Cardinality(Expected) - Cardinality(CompleteCalls)
                       <= faults + Cardinality({k \in DOMAIN handed :
                                handed[k].status \in {SEQUENCE_ERROR, TIMEOUT_ERROR}})
  BY DEF NothingLostInSilence
<1>. DEFINE errors == {k \in DOMAIN handed :
                         handed[k].status \in {SEQUENCE_ERROR, TIMEOUT_ERROR}}
<1>1. Types
  BY DEF Account
<1>2. PICK P : Path(P) /\ \E D : Accounted(P, D)
  BY DEF Account
<1>3. PICK D : Accounted(P, D)
  BY <1>2
<1>4. D = Expected
  <2>1. \A id : ~Hopeful(P, id)
    BY <1>1, <1>2, HopelessInSilence DEF Quiet
  <2>. QED BY <1>3, <2>1 DEF Accounted
<1>5. Cardinality(Expected) \in Nat
      /\ Cardinality(Expected) <= faults + Cardinality(EndedIn(handed))
  BY <1>1, <1>3, <1>4, ExpectedFinite DEF Accounted, Types
<1>6. EndedIn(handed) = CompleteCalls \cup errors /\ CompleteCalls \cap errors = {}
  <2>1. DOMAIN handed = 1 .. Len(handed)
    BY <1>1, LenProperties DEF Types
  <2>2. \A k \in 1 .. Len(handed) : handed[k].status \in Status
    <3>1. \A k \in 1 .. Len(handed) : handed[k] \in Report
      BY <1>1, ElementOfSeq DEF Types
    <3>. QED BY <3>1 DEF Report
  <2>3. INCOMPLETE \notin {SEQUENCE_ERROR, TIMEOUT_ERROR, COMPLETE}
        /\ COMPLETE \notin {SEQUENCE_ERROR, TIMEOUT_ERROR}
    BY DEF COMPLETE, INCOMPLETE, SEQUENCE_ERROR, TIMEOUT_ERROR
  <2>. QED BY <2>1, <2>2, <2>3 DEF EndedIn, CompleteCalls, Status
<1>. HIDE DEF errors
<1>7. IsFiniteSet(CompleteCalls) /\ IsFiniteSet(errors)
  <2>1. IsFiniteSet(EndedIn(handed))
    BY <1>1, EndedFinite DEF Types
  <2>. QED BY <1>6, <2>1, FS_Subset
<1>8. Cardinality(EndedIn(handed)) = Cardinality(CompleteCalls) + Cardinality(errors)
      /\ Cardinality(CompleteCalls) \in Nat /\ Cardinality(errors) \in Nat
  <2>1. Cardinality(CompleteCalls \cup errors)
          = Cardinality(CompleteCalls) + Cardinality(errors)
              - Cardinality(CompleteCalls \cap errors)
    BY <1>7, FS_Union
  <2>2. Cardinality(CompleteCalls \cap errors) = 0
    BY <1>6, FS_EmptySet
  <2>3. Cardinality(CompleteCalls) \in Nat /\ Cardinality(errors) \in Nat
    BY <1>7, FS_CardinalityType
  <2>. QED BY <1>6, <2>1, <2>2, <2>3
<1>9. faults \in Nat
  BY <1>1 DEF Types
<1>10. Cardinality(Expected) - Cardinality(CompleteCalls) <= faults + Cardinality(errors)
  BY <1>5, <1>8, <1>9, SMT
<1>. QED BY <1>10 DEF errors

(* Nothing is lost in silence, whatever the faults, when the nodes send    *)
(* one message at a time and the receiver subscribes to one stream: each   *)
(* fault and each call that ends a message accounts for one message.       *)
THEOREM NoMessageLostInSilence ==
  ASSUME ~Concurrent, OneStream
  PROVE  Spec => []NothingLostInSilence
<1>1. Account => NothingLostInSilence
  BY AccountShows
<1>. QED BY <1>1, AccountIsKept, PTL

-----------------------------------------------------------------------------
(* What is handed over while at most one frame or sender has been lost.    *)

(* No message has more fragments than there are numbers for them.          *)
Numbered == \A l \in Lens : l <= Offset(SeqRange - 1)

LEMMA NumberIs ==
  ASSUME Numbered, NEW ms \in Seq(Message), NEW a \in Position, Exists(ms, a)
  PROVE  FrameAt(ms, a).seq = a[2]
<1>1. a[1] \in Nat /\ a[2] \in Nat
  BY DEF Position
<1>2. ms[a[1]] \in Message
  BY ElementOfSeq DEF Exists
<1>3. CASE a[2] = 0
  BY <1>3, FrameTyped
<1>4. CASE a[2] # 0
  <2>1. FrameAt(ms, a).seq = a[2] % SeqRange
    BY <1>4 DEF FrameAt, DataFrame
  <2>2. Offset(a[2] - 1) < Offset(SeqRange - 1)
    <3>. DEFINE l == ms[a[1]].len
    <3>1. l \in Lens /\ l \in Nat /\ Offset(a[2] - 1) < l
      BY <1>2, <1>4, Constants DEF Message, Exists
    <3>2. a[2] - 1 \in Nat /\ SeqRange - 1 \in Nat
      BY <1>1, <1>4, Constants, SMT
    <3>3. l <= Offset(SeqRange - 1) /\ Offset(a[2] - 1) \in Nat /\ Offset(SeqRange - 1) \in Nat
      BY <3>1, <3>2, Offsets DEF Numbered
    <3>. HIDE DEF l
    <3>. QED BY <3>1, <3>3, SMT
  <2>3. a[2] < SeqRange
    <3>1. SUFFICES ASSUME a[2] >= SeqRange PROVE FALSE
      BY <1>1, Constants, SMT
    <3>. DEFINE d == a[2] - SeqRange
                n == SeqRange - 1
    <3>2. d \in Nat /\ n \in Nat /\ a[2] - 1 = d + n
      BY <1>1, <3>1, Constants, SMT
    <3>. HIDE DEF d, n
    <3>3. (d + n) * FragBytes = d * FragBytes + n * FragBytes /\ d * FragBytes >= 0
          /\ n * FragBytes \in Nat
      BY <3>2, Constants, SMT
    <3>4. Offset(d + n) < Offset(n)
      BY <2>2, <3>2 DEF n
    <3>. QED BY <3>2, <3>3, <3>4, Constants, SMT DEF Offset
  <2>4. a[2] % SeqRange = a[2]
    BY <1>1, <2>3, Constants, SMT
  <2>. QED BY <2>1, <2>4
<1>. QED BY <1>3, <1>4

LEMMA GoodLater ==
  ASSUME NEW h \in Seq(Report), NEW ms \in Seq(Message), NEW ns \in Seq(Message), Keeps(ms, ns),
         NEW lim \in Nat, NEW up \in Nat, lim <= up, Good(h, ms, lim)
  PROVE  Good(h, ns, up)
<1>1. ASSUME NEW k \in 1 .. Len(h) PROVE InOrder(h, k, ns, up)
  <2>1. PICK id \in 1 .. Len(ms) : \E n \in 0 .. ms[id].len :
          /\ BytesIn(h, k) = FirstBytes(id, n)
          /\ h[k].status = COMPLETE =>
               id < lim /\ n = ms[id].len /\ h[k].stream = ms[id].stream
    BY DEF Good, InOrder
  <2>2. id \in 1 .. Len(ns) /\ ns[id] = ms[id] /\ (id < lim => id < up)
    BY SMT DEF Keeps
  <2>. QED BY <2>1, <2>2 DEF InOrder
<1>. QED BY <1>1 DEF Good

(* The message is at its end with this fragment.                           *)
Over(a) == a[1] = 0 \/ ~(Offset(a[2]) < sent[a[1]].len)

Follows(a, b) == IF Over(a) THEN b = <<a[1] + 1, 0>> ELSE b = <<a[1], a[2] + 1>>

(* One frame between them, or the rest of the message, is missing.         *)
Skips(a, b) ==
  IF Over(a) THEN b = <<a[1] + 1, 1>>
             ELSE b = <<a[1], a[2] + 2>> \/ b = <<a[1] + 1, 0>>

(* Nothing is missing, except after the g-th.                              *)
Chain(P, g) ==
  /\ g \in 0 .. Len(P) - 1
  /\ \A i \in 1 .. Len(P) - 1 :
       IF i = g THEN Skips(P[i], P[i + 1]) ELSE Follows(P[i], P[i + 1])

(* The step from one frame to the next, which may be the one after what is *)
(* missing.                                                                *)
Passes(a, b, g, d) ==
  \/ Follows(a, b) /\ (g = 0 => d = 0)
  \/ Skips(a, b) /\ g # 0 /\ d = 0

(* The reception of a message that will get no further.                    *)
Stale(m, a) ==
  /\ rx.receiving /\ Receiving(m) /\ m < a[1]
  /\ \A i \in m + 1 .. a[1] : sent[i].stream # rx.stream

(* What the receiver is doing when the frame at a was the last received.   *)
Idle(a)      == ~rx.receiving /\ Settled(handed) /\ Good(handed, sent, a[1] + 1)
Following(a) == InSync(a) /\ Receiving(a[1])

ErrorFree == \A k \in 1 .. Len(handed) : handed[k].status \in {COMPLETE, INCOMPLETE}

Consistent(a, g) ==
  /\ \/ Idle(a)
     \/ Following(a)
     \/ g = 0 /\ faults # 0 /\ \E m \in 1 .. Len(sent) : Stale(m, a)
  /\ faults = 0 => g = 0 /\ ErrorFree

Order ==
  /\ Types
  /\ \E P : Path(P) /\ (faults <= 1 => \E g : Chain(P, g) /\ Consistent(P[1], g))

(* The chain as it is made longer.                                         *)
LEMMA OverKept ==
  ASSUME Keeps(sent, sent'), NEW a, a = <<0, 0>> \/ Exists(sent, a)
  PROVE  /\ Over(a)' <=> Over(a)
         /\ \A b : (Follows(a, b)' <=> Follows(a, b)) /\ (Skips(a, b)' <=> Skips(a, b))
<1>1. Over(a)' <=> Over(a)
  <2>1. CASE a = <<0, 0>>
    BY <2>1 DEF Over
  <2>2. CASE Exists(sent, a)
    <3>1. sent'[a[1]] = sent[a[1]]
      BY <2>2, KeepsPlaces
    <3>. QED BY <3>1 DEF Over
  <2>. QED BY <2>1, <2>2
<1>. QED BY <1>1 DEF Follows, Skips, Over

LEMMA NextFollows ==
  ASSUME NEW a, Exists(sent, a), NEW q, q = After(sent, a)
  PROVE  Follows(a, q)
<1>1. a[1] # 0
  BY SMT DEF Exists
<1>. QED BY <1>1 DEF Follows, Over, After

LEMMA ChainLonger ==
  ASSUME Types, NEW P, Path(P), NEW g, Chain(P, g), Keeps(sent, sent'), NEW q \in Position,
         Exists(sent', P[Len(P)]), q = After(sent', P[Len(P)])
  PROVE  Chain(Append(P, q), g)' /\ Append(P, q)[1] = P[1]
<1>. DEFINE Q == Append(P, q)
            n == Len(P)
<1>1. /\ P \in Seq(Position) /\ n \in Nat /\ n >= 2
      /\ \A i \in 1 .. n - 1 : P[i] = <<0, 0>> \/ Exists(sent, P[i])
  BY PathFacts
<1>2. Len(Q) = n + 1 /\ Q[n + 1] = q /\ \A i \in 1 .. n : Q[i] = P[i]
  BY <1>1, AppendProperties
<1>. HIDE DEF Q
<1>3. g \in 0 .. n - 1 /\ \A i \in 1 .. n - 1 :
        IF i = g THEN Skips(P[i], P[i + 1]) ELSE Follows(P[i], P[i + 1])
  BY DEF Chain
<1>4. Exists(sent', P[n]) /\ q = After(sent', P[n])
  OBVIOUS
<1>. HIDE DEF n
<1>5. /\ g \in 0 .. Len(Q) - 1 /\ (n + 1) - 1 = n /\ g # n /\ 1 \in 1 .. n /\ n \in 1 .. n
      /\ \A i \in 1 .. n : i \in 1 .. n - 1 \/ i = n
      /\ \A i \in 1 .. n - 1 : i \in 1 .. n /\ i + 1 \in 1 .. n
  BY <1>1, <1>2, <1>3, SMT
<1>6. ASSUME NEW i \in 1 .. n
      PROVE  IF i = g THEN Skips(Q[i], Q[i + 1])' ELSE Follows(Q[i], Q[i + 1])'
  <2>1. CASE i \in 1 .. n - 1
    <3>. PICK a : a = P[i]
      OBVIOUS
    <3>. PICK b : b = P[i + 1]
      OBVIOUS
    <3>1. Q[i] = a /\ Q[i + 1] = b
      BY <1>2, <1>5, <2>1
    <3>2. IF i = g THEN Skips(a, b) ELSE Follows(a, b)
      BY <1>3, <2>1
    <3>3. a = <<0, 0>> \/ Exists(sent, a)
      BY <1>1, <2>1
    <3>4. (Follows(a, b)' <=> Follows(a, b)) /\ (Skips(a, b)' <=> Skips(a, b))
      BY <3>3, OverKept
    <3>. QED BY <3>1, <3>2, <3>4
  <2>2. CASE i = n
    <3>. PICK a : a = P[n]
      OBVIOUS
    <3>1. Follows(a, q)'
      <4>1. a[1] # 0
        BY <1>4, SMT DEF Exists
      <4>. QED BY <1>4, <4>1 DEF Follows, Over, After
    <3>2. Q[i] = a /\ Q[i + 1] = q
      BY <1>2, <1>5, <2>2
    <3>. QED BY <1>5, <2>2, <3>1, <3>2
  <2>. QED BY <1>5, <2>1, <2>2
<1>7. Chain(Q, g)'
  BY <1>2, <1>5, <1>6 DEF Chain
<1>8. Q[1] = P[1]
  BY <1>2, <1>5
<1>. QED BY <1>7, <1>8 DEF Q

(* What was to come after a frame is not what does.                        *)
LEMMA ChainBroken ==
  ASSUME Types, NEW P, Path(P), Chain(P, 0), Keeps(sent, sent'), NEW q \in Position,
         NEW a, NEW p, a = P[Len(P) - 1], p = P[Len(P)],
         Follows(a, p)' => Skips(a, q)'
  PROVE  \E g : g # 0 /\ Chain(Instead(P, q), g)' /\ Instead(P, q)[1] = P[1]
<1>. DEFINE Q == Instead(P, q)
            n == Len(P)
<1>1. /\ P \in Seq(Position) /\ n \in Nat /\ n >= 2
      /\ \A i \in 1 .. n - 1 : P[i] = <<0, 0>> \/ Exists(sent, P[i])
  BY PathFacts
<1>2. Len(Q) = n /\ Q[n] = q /\ \A i \in 1 .. n - 1 : Q[i] = P[i]
  <2>1. Q[n] = q
    <3>1. DOMAIN P = 1 .. n /\ n \in 1 .. n
      BY <1>1, LenProperties, SMT
    <3>. QED BY <3>1 DEF Instead
  <2>2. Len(Q) = n /\ \A i \in 1 .. n - 1 : Q[i] = P[i]
    BY InsteadIs
  <2>. QED BY <2>1, <2>2
<1>. HIDE DEF Q
<1>3. \A i \in 1 .. n - 1 : Follows(P[i], P[i + 1])
  <2>1. \A i \in 1 .. n - 1 : i # 0
    BY SMT
  <2>. QED BY <2>1 DEF Chain
<1>4. a = P[n - 1] /\ p = P[n]
  OBVIOUS
<1>. HIDE DEF n
<1>5. /\ n - 1 \in 0 .. n - 1 /\ n - 1 # 0 /\ 1 \in 1 .. n - 1 /\ (n - 1) + 1 = n
      /\ n - 1 \in 1 .. n - 1
      /\ \A i \in 1 .. n - 1 : i # n - 1 => i + 1 \in 1 .. n - 1
  BY <1>1, SMT
<1>6. ASSUME NEW i \in 1 .. n - 1
      PROVE  IF i = n - 1 THEN Skips(Q[i], Q[i + 1])' ELSE Follows(Q[i], Q[i + 1])'
  <2>. PICK c : c = P[i]
    OBVIOUS
  <2>. PICK b : b = P[i + 1]
    OBVIOUS
  <2>1. Follows(c, b) /\ (c = <<0, 0>> \/ Exists(sent, c))
    BY <1>1, <1>3
  <2>2. Follows(c, b)'
    BY <2>1, OverKept
  <2>3. Q[i] = c
    BY <1>2
  <2>4. CASE i = n - 1
    <3>0. c = a /\ b = p
      BY <1>4, <1>5, <2>4
    <3>1. Skips(c, q)'
      BY <2>2, <3>0
    <3>. QED BY <1>2, <1>5, <2>3, <2>4, <3>1
  <2>5. CASE i # n - 1
    <3>1. Q[i + 1] = b
      BY <1>2, <1>5, <2>5
    <3>. QED BY <2>2, <2>3, <2>5, <3>1
  <2>. QED BY <2>4, <2>5
<1>. PICK g : g = n - 1
  OBVIOUS
<1>7. Chain(Q, g)'
  BY <1>2, <1>5, <1>6 DEF Chain
<1>8. Q[1] = P[1]
  BY <1>2, <1>5
<1>. QED BY <1>5, <1>7, <1>8 DEF Q

LEMMA LostSkips ==
  ASSUME sent' \in Seq(Message), NEW a \in Position, NEW p, Exists(sent', p), Follows(a, p)',
         NEW q, q = After(sent', p)
  PROVE  Skips(a, q)'
<1>1. a[1] \in Nat /\ a[2] \in Nat
  BY DEF Position
<1>2. CASE Over(a)'
  <2>1. p[1] = a[1] + 1 /\ p[2] = 0
    BY <1>2 DEF Follows
  <2>2. Offset(0) < sent'[p[1]].len
    <3>1. sent'[p[1]] \in Message
      BY ElementOfSeq DEF Exists
    <3>. PICK l : l = sent'[p[1]].len
      OBVIOUS
    <3>2. l \in Nat /\ l # 0
      BY <3>1, Constants DEF Message
    <3>3. 0 < l
      BY <3>2, SMT
    <3>. QED BY <3>3, Offsets
  <2>3. q = <<a[1] + 1, 0 + 1>>
    BY <2>1, <2>2 DEF After
  <2>4. 0 + 1 = 1
    BY SMT
  <2>. QED BY <1>2, <2>3, <2>4 DEF Skips
<1>3. CASE ~Over(a)'
  <2>1. p[1] = a[1] /\ p[2] = a[2] + 1
    BY <1>3 DEF Follows
  <2>2. (a[2] + 1) + 1 = a[2] + 2
    BY <1>1, SMT
  <2>. QED BY <1>3, <2>1, <2>2 DEF Skips, After
<1>. QED BY <1>2, <1>3

LEMMA CutSkips ==
  ASSUME NEW a \in Position, NEW p, Follows(a, p)', p[2] # 0, NEW q, q = <<p[1] + 1, 0>>
  PROVE  Skips(a, q)'
<1>1. ~Over(a)' /\ p[1] = a[1]
  BY DEF Follows
<1>. QED BY <1>1 DEF Skips

LEMMA ChainShorter ==
  ASSUME Types, NEW P, Path(P), NEW g, Chain(P, g), bus # <<>>, bus' = Tail(bus),
         UNCHANGED <<sent, out, faults>>
  PROVE  Tail(P)[1] = P[2] /\ \E d : Chain(Tail(P), d)' /\ Passes(P[1], P[2], g, d)
<1>. DEFINE Q == Tail(P)
            n == Len(P)
<1>1. n \in Nat /\ n >= 3 /\ Len(Q) = n - 1 /\ \A i \in 1 .. n - 1 : Q[i] = P[i + 1]
  BY PathShorter, PathFacts DEF Types
<1>2. g \in 0 .. n - 1 /\ \A i \in 1 .. n - 1 :
        IF i = g THEN Skips(P[i], P[i + 1]) ELSE Follows(P[i], P[i + 1])
  BY DEF Chain
<1>. PICK d : d = IF g = 0 THEN 0 ELSE g - 1
  OBVIOUS
<1>. HIDE DEF Q, n
<1>3. /\ d \in 0 .. Len(Q) - 1 /\ 1 \in 1 .. n - 1 /\ 1 + 1 = 2
      /\ \A i \in 1 .. Len(Q) - 1 : i \in 1 .. n - 1 /\ i + 1 \in 1 .. n - 1
                                    /\ (i = d => i + 1 = g) /\ (i # d => i + 1 # g)
  BY <1>1, <1>2, SMT
<1>4. \A a, b : (Follows(a, b)' <=> Follows(a, b)) /\ (Skips(a, b)' <=> Skips(a, b))
  BY DEF Follows, Skips, Over
<1>5. ASSUME NEW i \in 1 .. Len(Q) - 1
      PROVE  IF i = d THEN Skips(Q[i], Q[i + 1])' ELSE Follows(Q[i], Q[i + 1])'
  <2>1. Q[i] = P[i + 1] /\ Q[i + 1] = P[(i + 1) + 1]
    BY <1>1, <1>3
  <2>2. IF i + 1 = g THEN Skips(P[i + 1], P[(i + 1) + 1]) ELSE Follows(P[i + 1], P[(i + 1) + 1])
    BY <1>2, <1>3
  <2>. QED BY <1>3, <1>4, <2>1, <2>2
<1>6. Chain(Q, d)'
  BY <1>3, <1>5 DEF Chain
<1>7. Q[1] = P[2] /\ (IF 1 = g THEN Skips(P[1], P[2]) ELSE Follows(P[1], P[2]))
  BY <1>1, <1>2, <1>3
<1>8. (g = 0 => d = 0 /\ ~(1 = g)) /\ (1 = g => g # 0 /\ d = 0)
  OBVIOUS
<1>9. Passes(P[1], P[2], g, d)
  BY <1>7, <1>8, Zenon DEF Passes
<1>. QED BY <1>6, <1>7, <1>9, Zenon DEF Q

LEMMA OrderAtFirst == Init => Order
<1>. SUFFICES ASSUME Init PROVE Order
  OBVIOUS
<1>. PICK a : a = <<0, 0>>
  OBVIOUS
<1>. PICK b : b = <<1, 0>>
  OBVIOUS
<1>. PICK P : P = <<a, b>>
  OBVIOUS
<1>1. Types /\ Path(P)
  BY PathAtFirst
<1>2. Len(P) = 2 /\ P[1] = a /\ P[2] = b
  OBVIOUS
<1>3. Follows(a, b)
  BY DEF Follows, Over
<1>4. Chain(P, 0)
  <2>1. 0 \in 0 .. 2 - 1 /\ \A i \in 1 .. 2 - 1 : i = 1 /\ ~(i = 0) /\ i + 1 = 2
    BY SMT
  <2>. QED BY <1>2, <1>3, <2>1 DEF Chain
<1>5. handed = <<>> /\ Len(handed) = 0 /\ rx = NotReceiving /\ 1 .. 0 = {}
  BY SMT DEF Init
<1>6. Settled(handed)
  BY <1>5 DEF Settled, Pending
<1>7. Good(handed, sent, a[1] + 1) /\ ErrorFree
  BY <1>5 DEF Good, Rising, ErrorFree
<1>8. Consistent(P[1], 0)
  BY <1>2, <1>5, <1>6, <1>7, AtRest DEF Consistent, Idle
<1>. QED BY <1>1, <1>4, <1>8 DEF Order

(* Messages and frames that are made, and faults, change nothing of what   *)
(* the receiver is doing.                                                  *)
LEMMA ReceivingLater ==
  ASSUME Types, Types', Keeps(sent, sent'), UNCHANGED <<rx, handed>>, NEW m, Receiving(m)
  PROVE  Receiving(m)'
<1>1. m \in 1 .. Len(sent') /\ sent'[m] = sent[m] /\ m \in Nat /\ m <= m
  BY SMT DEF Receiving, Keeps
<1>2. handed \in Seq(Report) /\ sent \in Seq(Message) /\ sent' \in Seq(Message)
  BY DEF Types
<1>3. Good(handed, sent', m)
  <2>1. Good(handed, sent, m)
    BY DEF Receiving
  <2>. QED BY <1>1, <1>2, <2>1, GoodLater
<1>4. /\ rx.stream = sent[m].stream /\ rx.length = sent[m].len /\ rx.received < rx.length
      /\ Pending(handed) \o rx.held = FirstBytes(m, rx.received)
  BY DEF Receiving
<1>. QED BY <1>1, <1>3, <1>4, Zenon DEF Receiving

LEMMA ConsistentLater ==
  ASSUME Types, Types', Keeps(sent, sent'), UNCHANGED <<rx, handed>>,
         NEW a \in Position, a[1] <= Len(sent), NEW g, NEW d, Consistent(a, g),
         (faults' = faults /\ d = g) \/ (faults = 0 /\ faults' # 0)
  PROVE  Consistent(a, d)'
<1>0. a[1] \in Nat /\ a[1] + 1 \in Nat /\ a[1] + 1 <= a[1] + 1
  BY SMT DEF Position
<1>1. Idle(a) => Idle(a)'
  <2>1. SUFFICES ASSUME Idle(a) PROVE Idle(a)'
    OBVIOUS
  <2>2. ~rx.receiving /\ Settled(handed) /\ Good(handed, sent, a[1] + 1)
    BY <2>1 DEF Idle
  <2>3. handed \in Seq(Report) /\ sent \in Seq(Message) /\ sent' \in Seq(Message)
    BY DEF Types
  <2>4. Good(handed, sent', a[1] + 1)
    BY <1>0, <2>2, <2>3, GoodLater
  <2>5. Settled(handed)'
    BY <2>2
  <2>. QED BY <2>2, <2>4, <2>5, Zenon DEF Idle
<1>2. Following(a) => Following(a)'
  <2>1. SUFFICES ASSUME Following(a) PROVE Following(a)'
    OBVIOUS
  <2>2. InSync(a)'
    BY <2>1, InSyncKept DEF Following
  <2>. PICK m : m = a[1]
    OBVIOUS
  <2>3. Receiving(m)'
    BY <2>1, ReceivingLater DEF Following
  <2>. QED BY <2>2, <2>3 DEF Following
<1>3. ASSUME NEW m \in 1 .. Len(sent), Stale(m, a)
      PROVE  m \in 1 .. Len(sent') /\ Stale(m, a)'
  <2>1. m \in 1 .. Len(sent') /\ \A i \in m + 1 .. a[1] : i \in 1 .. Len(sent)
    BY <1>0, SMT DEF Keeps
  <2>2. Receiving(m)'
    BY <1>3, ReceivingLater DEF Stale
  <2>3. rx.receiving /\ m < a[1] /\ \A i \in m + 1 .. a[1] : sent[i].stream # rx.stream
    BY <1>3 DEF Stale
  <2>4. \A i \in m + 1 .. a[1] : sent'[i].stream # rx.stream
    BY <2>1, <2>3 DEF Keeps
  <2>5. Stale(m, a)'
    BY <2>2, <2>3, <2>4, Zenon DEF Stale
  <2>. QED BY <2>1, <2>5
<1>4. ErrorFree => ErrorFree'
  BY DEF ErrorFree
<1>5. CASE faults' = faults /\ d = g
  <2>1. \/ Idle(a)' \/ Following(a)'
        \/ d = 0 /\ faults' # 0 /\ \E m \in 1 .. Len(sent') : Stale(m, a)'
    BY <1>1, <1>2, <1>3, <1>5 DEF Consistent
  <2>2. faults' = 0 => d = 0 /\ ErrorFree'
    BY <1>4, <1>5 DEF Consistent
  <2>. QED BY <2>1, <2>2 DEF Consistent
<1>6. CASE faults = 0 /\ faults' # 0
  <2>1. Idle(a)' \/ Following(a)'
    BY <1>1, <1>2, <1>6 DEF Consistent
  <2>. QED BY <1>6, <2>1 DEF Consistent
<1>. QED BY <1>5, <1>6

(* A message given up was given up for good, and what there was of it is   *)
(* in order too.                                                           *)
LEMMA GivenUpIdle ==
  ASSUME Types, rx.receiving, NEW m, Receiving(m), UNCHANGED sent,
         NEW status \in {SEQUENCE_ERROR, TIMEOUT_ERROR}, GiveUp(status),
         NEW b \in Position, m <= b[1]
  PROVE  Idle(b)'
<1>. PICK c : c = Call(rx.held, rx.stream, status)
  OBVIOUS
<1>. PICK n : n = rx.received
  OBVIOUS
<1>. PICK up : up = b[1] + 1
  OBVIOUS
<1>1. status \in Status /\ status # COMPLETE /\ status # INCOMPLETE
  BY DEF Status, SEQUENCE_ERROR, TIMEOUT_ERROR, COMPLETE, INCOMPLETE
<1>2. /\ rx' = NotReceiving /\ c \in Report /\ handed' = Append(handed, c)
      /\ c.data = rx.held /\ c.status = status
  <2>1. c.data = rx.held /\ c.status = status
    BY DEF Call
  <2>. QED BY <1>1, <2>1, GivenUp
<1>3. handed \in Seq(Report) /\ sent \in Seq(Message) /\ rx \in Reception
  BY DEF Types
<1>4. /\ m \in 1 .. Len(sent) /\ Good(handed, sent, m)
      /\ Pending(handed) \o c.data = FirstBytes(m, n)
      /\ n < sent[m].len /\ sent[m].len = rx.length
  BY <1>2 DEF Receiving
<1>5. m \in Nat /\ up \in Nat /\ m <= up /\ n \in 0 .. sent[m].len
  <2>1. b[1] \in Nat /\ n \in Nat /\ rx.length \in Nat
    BY <1>3 DEF Reception, Position
  <2>. QED BY <1>4, <2>1, SMT
<1>6. Good(Append(handed, c), sent, up)
  BY <1>1, <1>2, <1>3, <1>4, <1>5, GoodGrows
<1>7. Settled(Append(handed, c))
  <2>1. Pending(Append(handed, c))
          = IF c.status = INCOMPLETE THEN Pending(handed) \o c.data ELSE <<>>
    BY <1>2, <1>3, PendingGrows, Zenon
  <2>. QED BY <1>1, <1>2, <2>1 DEF Settled
<1>8. Good(handed', sent', up) /\ Settled(handed') /\ rx'.receiving = FALSE
  BY <1>2, <1>6, <1>7, AtRest
<1>. QED BY <1>8 DEF Idle

(* At rest the receiver stays at rest, or starts on the message whose      *)
(* header came.                                                            *)
LEMMA HeaderConsistent ==
  ASSUME Types, Types', UNCHANGED sent, NEW a \in Position, NEW b \in Position,
         Exists(sent, b), Numbered, a[1] <= b[1], b[2] = 0 => a[1] < b[1],
         Idle(a), ReceiveHeader(FrameAt(sent, b))
  PROVE  (Idle(b) \/ Following(b))'
<1>. PICK f : f = FrameAt(sent, b)
  OBVIOUS
<1>. PICK m : m = b[1]
  OBVIOUS
<1>. PICK l : l = a[1] + 1
  OBVIOUS
<1>1. handed \in Seq(Report) /\ sent \in Seq(Message)
  BY DEF Types
<1>2. /\ handed' = handed /\ ~rx.receiving
      /\ b[2] = 0 /\ sent[m].stream \in Subscribed => rx' = Started(sent[m].stream, sent[m].len)
      /\ b[2] = 0 /\ sent[m].stream \notin Subscribed => rx' = rx
      /\ rx' # rx => f.stream \in Subscribed /\ f.seq = 0
  BY HeaderReceived
<1>3. f.seq = b[2] /\ sent[m] \in Message /\ f.stream = sent[m].stream
  BY <1>1, NumberIs, FrameTyped
<1>4. m \in 1 .. Len(sent) /\ m \in Nat /\ l \in Nat /\ m + 1 \in Nat /\ l <= m + 1
      /\ (b[2] = 0 => l <= m) /\ Len(sent) \in Nat /\ Len(sent) <= Len(sent)
  <2>1. a[1] \in Nat
    BY DEF Position
  <2>2. Len(sent) \in Nat /\ m \in 1 .. Len(sent)
    BY <1>1, LenProperties DEF Exists
  <2>. QED BY <2>1, <2>2, SMT
<1>5. Keeps(sent, sent)
  BY <1>4 DEF Keeps
<1>6. Settled(handed) /\ Good(handed, sent, l)
  BY DEF Idle
<1>7. CASE rx' = rx
  <2>1. Good(handed, sent, m + 1)
    BY <1>1, <1>4, <1>5, <1>6, GoodLater
  <2>2. Good(handed', sent', m + 1) /\ Settled(handed') /\ ~rx'.receiving
    BY <1>2, <1>6, <1>7, <2>1
  <2>. QED BY <2>2 DEF Idle
<1>8. CASE rx' # rx
  <2>1. b[2] = 0 /\ sent[m].stream \in Subscribed
    BY <1>2, <1>3, <1>8
  <2>. PICK r : r = Started(sent[m].stream, sent[m].len)
    OBVIOUS
  <2>2. sent[m].stream \in Stream /\ sent[m].len \in Nat /\ sent[m].len # 0
    BY <1>3, Constants DEF Message
  <2>3. /\ r.receiving /\ r.stream = sent[m].stream /\ r.length = sent[m].len
        /\ r.received = 0 /\ r.expected = 1 /\ r.held = <<>>
    <3>. PICK s : s = sent[m].stream
      OBVIOUS
    <3>. PICK n : n = sent[m].len
      OBVIOUS
    <3>0. s \in Stream /\ n \in Nat
      BY <2>2
    <3>. DEFINE x == Started(s, n)
    <3>1. /\ x.receiving /\ x.stream = s /\ x.length = n /\ x.received = 0 /\ x.expected = 1
      BY <3>0, StartedTyped, Zenon
    <3>2. x.held = <<>>
      BY DEF Started, NotReceiving
    <3>3. r = x
      OBVIOUS
    <3>. HIDE DEF x
    <3>. QED BY <3>1, <3>2, <3>3, Zenon
  <2>4. rx' = r
    BY <1>2, <2>1
  <2>5. 0 = Offset(b[2]) /\ 1 = b[2] + 1 /\ 0 < sent[m].len
    BY <2>1, <2>2, Offsets, SMT
  <2>6. InSync(b)'
    BY <2>3, <2>4, <2>5 DEF InSync, Exists
  <2>7. Good(handed, sent, m)
    BY <1>1, <1>4, <1>5, <1>6, <2>1, GoodLater
  <2>8. Pending(handed) \o r.held = FirstBytes(m, 0)
    <3>1. Pending(handed) = <<>> /\ <<>> \in Seq(Byte)
      BY <1>6, EmptySeq DEF Settled
    <3>2. <<>> \o <<>> = <<>>
      BY <3>1, ConcatEmptySeq
    <3>3. FirstBytes(m, 0) = <<>>
      BY <1>4, FirstBytesTyped, SMT
    <3>. QED BY <2>3, <3>1, <3>2, <3>3
  <2>9. Receiving(m)'
    <3>1. Good(handed', sent', m) /\ Pending(handed') = Pending(handed)
      BY <1>2, <2>7
    <3>2. Pending(handed') \o r.held = FirstBytes(m, r.received)
      BY <2>3, <2>8, <3>1
    <3>3. m \in 1 .. Len(sent') /\ sent' = sent
      BY <1>4
    <3>. QED BY <2>3, <2>4, <2>5, <3>1, <3>2, <3>3, Zenon DEF Receiving
  <2>. QED BY <2>6, <2>9 DEF Following
<1>. QED BY <1>7, <1>8

(* The next fragment of the message ends it or takes it further.           *)
LEMMA ExpectedConsistent ==
  ASSUME Types, UNCHANGED sent, NEW a \in Position, NEW b \in Position, Exists(sent, b),
         Following(a), b = <<a[1], a[2] + 1>>, ReceiveExpected(FrameAt(sent, b))
  PROVE  (Idle(b) \/ Following(b))'
<1>. PICK f : f = FrameAt(sent, b)
  OBVIOUS
<1>. PICK m : m = a[1]
  OBVIOUS
<1>. PICK data : data = f.data
  OBVIOUS
<1>. PICK t : t = TakeFragment(data)
  OBVIOUS
<1>1. sent \in Seq(Message) /\ handed \in Seq(Report) /\ rx \in Reception
  BY DEF Types
<1>2. a[1] \in Nat /\ a[2] \in Nat /\ m \in Nat /\ b[1] = m /\ b[2] = a[2] + 1
  BY DEF Position
<1>3. a[2] + 1 # 0 /\ (a[2] + 1) - 1 = a[2]
  BY <1>2, SMT
<1>4. f \in Frame /\ data = Payload(sent, b)
  BY <1>1, <1>2, <1>3, FrameTyped
<1>5. data \in Seq(Byte) /\ Len(data) = FragBytes
      /\ \A i \in 1 .. FragBytes : Offset(a[2]) + i <= sent[m].len =>
           data[i] = <<m, Offset(a[2]) + i>>
  <2>1. /\ Payload(sent, b) \in Seq(Byte) /\ Len(Payload(sent, b)) = FragBytes
        /\ \A i \in 1 .. FragBytes : Offset(b[2] - 1) + i <= sent[b[1]].len =>
             Payload(sent, b)[i] = <<b[1], Offset(b[2] - 1) + i>>
    BY <1>1, <1>2, <1>3, PayloadTyped
  <2>. QED BY <1>2, <1>3, <1>4, <2>1
<1>6. /\ Receiving(m) /\ rx.receiving /\ rx.stream = sent[m].stream /\ rx.length = sent[m].len
      /\ rx.received = Offset(a[2]) /\ rx.expected = a[2] + 1
  BY DEF Following, InSync
<1>7. Counted(t, Len(data)) /\ Delivers(t, Len(data), m)
  <2>1. \A i \in 1 .. Len(data) : rx.received + i <= rx.length =>
                                    data[i] = <<m, rx.received + i>>
    BY <1>5, <1>6
  <2>2. data \in Seq(Byte) /\ Receiving(m)
    BY <1>5, <1>6
  <2>3. Counted(TakeFragment(data), Len(data))
    BY <1>1, <2>1, <2>2, FragmentDelivers
  <2>4. Delivers(TakeFragment(data), Len(data), m)
    BY <1>1, <2>1, <2>2, FragmentDelivers
  <2>. QED BY <2>3, <2>4
<1>8. /\ handed' = Told(t.calls)
      /\ t.done => rx' = NotReceiving
      /\ ~t.done =>
              /\ rx'.receiving = TRUE /\ rx'.stream = rx.stream /\ rx'.length = rx.length
              /\ rx'.received = rx.received + Len(data)
              /\ rx'.received < rx.length
              /\ rx'.expected = rx.expected + 1 /\ rx'.held = t.held
  <2>1. ReceiveExpected(f) /\ t = TakeFragment(f.data)
    OBVIOUS
  <2>2. handed' = Told(t.calls)
    BY <1>4, <2>1, ExpectedReceived
  <2>3. t.done => rx' = NotReceiving
    BY <1>4, <2>1, ExpectedReceived
  <2>4. ~t.done =>
              /\ rx'.receiving = TRUE /\ rx'.stream = rx.stream /\ rx'.length = rx.length
              /\ rx'.received = rx.received + Len(f.data)
              /\ rx'.received < rx.length
              /\ rx'.expected = rx.expected + 1 /\ rx'.held = t.held
    BY <1>4, <2>1, ExpectedReceived
  <2>. QED BY <2>2, <2>3, <2>4
<1>9. CASE t.done
  <2>1. Good(Told(t.calls), sent, m + 1) /\ Settled(Told(t.calls))
    BY <1>7, <1>9 DEF Delivers
  <2>2. Good(handed', sent', b[1] + 1) /\ Settled(handed') /\ ~rx'.receiving
    BY <1>2, <1>8, <1>9, <2>1, AtRest
  <2>. QED BY <2>2 DEF Idle
<1>10. CASE ~t.done
  <2>1. Good(Told(t.calls), sent, m)
        /\ Pending(Told(t.calls)) \o t.held = FirstBytes(m, rx.received + Len(data))
    BY <1>7, <1>10 DEF Delivers
  <2>2. Offset(b[2]) = Offset(a[2]) + FragBytes
    BY <1>2, Offsets
  <2>3. InSync(b)'
    BY <1>2, <1>5, <1>6, <1>8, <1>10, <2>2 DEF InSync, Exists
  <2>4. Good(handed', sent', m) /\ Pending(handed') \o rx'.held = FirstBytes(m, rx'.received)
    BY <1>8, <1>10, <2>1
  <2>5. m \in 1 .. Len(sent') /\ rx'.stream = sent'[m].stream /\ rx'.length = sent'[m].len
        /\ rx'.received < rx'.length
    BY <1>6, <1>8, <1>10 DEF Receiving
  <2>6. Receiving(m)'
    BY <2>4, <2>5, Zenon DEF Receiving
  <2>. QED BY <1>2, <2>3, <2>6 DEF Following
<1>. QED BY <1>9, <1>10

(* A fragment taken is no error.                                           *)
LEMMA ExpectedErrorFree ==
  ASSUME Types, NEW f \in Frame, ReceiveExpected(f), ErrorFree
  PROVE  ErrorFree'
<1>. PICK t : t = TakeFragment(f.data)
  OBVIOUS
<1>1. handed' = Told(t.calls) /\ t \in Loop
  BY ExpectedReceived
<1>. PICK cs : cs = t.calls
  OBVIOUS
<1>2. cs \in Seq(Said) /\ handed \in Seq(Report) /\ rx \in Reception
  BY <1>1 DEF Types, Loop
<1>. PICK h : h = Told(cs)
  OBVIOUS
<1>3. /\ \A k \in 1 .. Len(handed) : h[k] = handed[k]
      /\ \A k \in Len(handed) + 1 .. Len(h) : h[k].status \in {COMPLETE, INCOMPLETE}
  BY <1>2, ToldEnds
<1>4. Len(handed) \in Nat
  BY <1>2, LenProperties
<1>5. ASSUME NEW k \in 1 .. Len(h) PROVE h[k].status \in {COMPLETE, INCOMPLETE}
  <2>1. CASE k \in 1 .. Len(handed)
    BY <1>3, <2>1 DEF ErrorFree
  <2>2. CASE k \notin 1 .. Len(handed)
    <3>1. h \in Seq(Report)
      BY <1>2, ToldTyped
    <3>2. Len(h) \in Nat
      BY <3>1, LenProperties
    <3>3. k \in Len(handed) + 1 .. Len(h)
      BY <1>4, <2>2, <3>2, SMT
    <3>. QED BY <1>3, <3>3
  <2>. QED BY <2>1, <2>2
<1>. QED BY <1>1, <1>5 DEF ErrorFree

LEMMA PassesOn ==
  ASSUME NEW a \in Position, NEW b \in Position, NEW g, NEW d, Passes(a, b, g, d)
  PROVE  a[1] <= b[1] /\ (b[2] = 0 => b[1] = a[1] + 1 /\ a[1] < b[1])
         /\ (b[2] # 0 => b[1] = a[1] \/ (b[1] = a[1] + 1 /\ Over(a)))
         /\ (b[1] = a[1] => b[2] = a[2] + 1 \/ b[2] = a[2] + 2)
<1>1. a[1] \in Nat /\ a[2] \in Nat
  BY DEF Position
<1>2. \/ b = <<a[1], a[2] + 1>> \/ b = <<a[1] + 1, 0>> \/ b = <<a[1], a[2] + 2>>
      \/ b = <<a[1] + 1, 1>> /\ Over(a)
  BY DEF Passes, Follows, Skips
<1>3. a[2] + 1 # 0 /\ a[2] + 2 # 0 /\ a[1] <= a[1] + 1 /\ a[1] < a[1] + 1 /\ a[1] <= a[1]
      /\ 1 # 0 /\ a[1] # a[1] + 1
  BY <1>1, SMT
<1>. QED BY <1>2, <1>3

LEMMA NotOver ==
  ASSUME NEW a, Following(a)
  PROVE  ~Over(a)
<1>1. a[1] # 0
  BY SMT DEF Following, InSync, Exists
<1>2. Offset(a[2]) < sent[a[1]].len
  BY DEF Following, InSync, Receiving
<1>. QED BY <1>1, <1>2 DEF Over

(* While nothing has been lost, or what was lost is still to come, the     *)
(* frame that comes is the one expected.                                   *)
LEMMA FollowingOn ==
  ASSUME Types, Numbered, NEW a \in Position, NEW b \in Position, Exists(sent, b),
         NEW g, NEW d, Passes(a, b, g, d), Following(a), NEW f, f = FrameAt(sent, b)
  PROVE  /\ b = <<a[1], a[2] + 1>> => f.stream = rx.stream /\ f.seq = rx.expected
         /\ b # <<a[1], a[2] + 1>> => g # 0 /\ d = 0 /\ f.seq # rx.expected
         /\ b[1] = a[1] => f.stream = rx.stream
<1>1. f.seq = b[2] /\ f.stream = sent[b[1]].stream
  BY NumberIs, FrameTyped DEF Types
<1>2. rx.stream = sent[a[1]].stream /\ rx.expected = a[2] + 1
  BY DEF Following, InSync
<1>3. a[1] \in Nat /\ a[2] \in Nat
  BY DEF Position
<1>4. a[2] + 1 # 0 /\ a[2] + 2 # a[2] + 1
  BY <1>3, SMT
<1>5. \/ b = <<a[1], a[2] + 1>>
      \/ g # 0 /\ d = 0 /\ (b = <<a[1], a[2] + 2>> \/ b = <<a[1] + 1, 0>>)
  BY NotOver DEF Passes, Follows, Skips
<1>. QED BY <1>1, <1>2, <1>4, <1>5

LEMMA StaleOn ==
  ASSUME Types, Numbered, NEW a \in Position, NEW b \in Position, Exists(sent, b),
         NEW d, Passes(a, b, 0, d), NEW m, Stale(m, a), NEW f, f = FrameAt(sent, b)
  PROVE  d = 0 /\ ~(f.stream = rx.stream /\ f.seq = rx.expected)
<1>1. f.seq = b[2] /\ f.stream = sent[b[1]].stream
  BY NumberIs, FrameTyped DEF Types
<1>2. Follows(a, b) /\ d = 0
  BY DEF Passes
<1>3. rx.receiving /\ m < a[1] /\ (\A i \in m + 1 .. a[1] : sent[i].stream # rx.stream)
      /\ m \in 1 .. Len(sent) /\ rx.expected # 0
  BY DEF Stale, Receiving, Types
<1>4. a[1] \in m + 1 .. a[1]
  <2>1. a[1] \in Nat
    BY DEF Position
  <2>. QED BY <1>3, <2>1, SMT
<1>5. CASE b[1] = a[1]
  BY <1>1, <1>2, <1>3, <1>4, <1>5
<1>6. CASE b[1] # a[1]
  <2>1. b[2] = 0
    BY <1>2, <1>6 DEF Follows
  <2>. QED BY <1>1, <1>2, <1>3, <2>1
<1>. QED BY <1>5, <1>6

(* A frame of another stream is ignored.  The message being received is    *)
(* then one whose end was lost.                                            *)
LEMMA OtherConsistent ==
  ASSUME Types, Types', Numbered, UNCHANGED <<sent, faults>>,
         NEW a \in Position, NEW b \in Position, Exists(sent, b),
         NEW m, Receiving(m), m <= a[1], m < b[1], b[1] = a[1] \/ b[1] = a[1] + 1,
         m < a[1] => Stale(m, a), ReceiveOther(FrameAt(sent, b))
  PROVE  m \in 1 .. Len(sent') /\ Stale(m, b)'
<1>. PICK f : f = FrameAt(sent, b)
  OBVIOUS
<1>1. f.stream = sent[b[1]].stream
  BY FrameTyped DEF Types
<1>2. f.stream # rx.stream
  BY DEF ReceiveOther
<1>3. /\ handed' = handed
      /\ rx'.receiving = TRUE /\ rx'.stream = rx.stream /\ rx'.length = rx.length
      /\ rx'.received = rx.received /\ rx'.held = rx.held
  BY OtherReceived
<1>4. Receiving(m)'
  <2>1. /\ m \in 1 .. Len(sent) /\ rx.stream = sent[m].stream /\ rx.length = sent[m].len
        /\ rx.received < rx.length
        /\ Good(handed, sent, m) /\ Pending(handed) \o rx.held = FirstBytes(m, rx.received)
    BY DEF Receiving
  <2>2. Good(handed', sent', m) /\ Pending(handed') \o rx'.held = FirstBytes(m, rx'.received)
    BY <1>3, <2>1
  <2>3. m \in 1 .. Len(sent') /\ rx'.stream = sent'[m].stream /\ rx'.length = sent'[m].len
        /\ rx'.received < rx'.length
    BY <1>3, <2>1
  <2>. QED BY <2>2, <2>3, Zenon DEF Receiving
<1>5. ASSUME NEW i \in m + 1 .. b[1] PROVE sent[i].stream # rx.stream
  <2>1. a[1] \in Nat /\ b[1] \in Nat /\ m \in 1 .. Len(sent)
    BY DEF Position, Receiving
  <2>2. i = b[1] \/ i \in m + 1 .. a[1]
    BY <2>1, SMT
  <2>3. CASE i = b[1]
    BY <1>1, <1>2, <2>3
  <2>4. CASE i \in m + 1 .. a[1]
    <3>1. m < a[1]
      BY <2>1, <2>4, SMT
    <3>. QED BY <2>4, <3>1 DEF Stale
  <2>. QED BY <2>2, <2>3, <2>4
<1>6. Stale(m, b)'
  <2>1. \A i \in m + 1 .. b[1] : sent'[i].stream # rx'.stream
    BY <1>3, <1>5
  <2>. QED BY <1>3, <1>4, <2>1 DEF Stale
<1>. QED BY <1>6 DEF Stale, Receiving

(* A frame is received.                                                    *)
LEMMA IdleReceives ==
  ASSUME Types, Types', Numbered, UNCHANGED <<sent, faults>>,
         NEW a \in Position, NEW b \in Position, Exists(sent, b),
         NEW g, NEW d, Passes(a, b, g, d), Idle(a), Consistent(a, g),
         NEW f, f = FrameAt(sent, b),
         ReceiveHeader(f) \/ ReceiveExpected(f) \/ ReceiveUnexpected(f) \/ ReceiveOther(f)
  PROVE  Consistent(b, d)'
<1>1. ReceiveHeader(f)
  BY DEF Idle, ReceiveExpected, ReceiveUnexpected, OutOfSequence, ReceiveOther
<1>2. (Idle(b) \/ Following(b))'
  <2>1. a[1] <= b[1] /\ (b[2] = 0 => a[1] < b[1])
    BY PassesOn
  <2>2. ReceiveHeader(FrameAt(sent, b)) /\ sent' = sent
    BY <1>1
  <2>. QED BY <2>1, <2>2, HeaderConsistent
<1>3. handed' = handed
  BY <1>1, HeaderReceived
<1>4. faults' = 0 => d = 0 /\ ErrorFree'
  BY <1>3 DEF Consistent, Passes, ErrorFree
<1>. QED BY <1>2, <1>4 DEF Consistent

LEMMA FollowingReceives ==
  ASSUME Types, Types', Numbered, UNCHANGED <<sent, faults>>,
         NEW a \in Position, NEW b \in Position, Exists(sent, b),
         NEW g, NEW d, Passes(a, b, g, d), Following(a), Consistent(a, g),
         NEW f, f = FrameAt(sent, b),
         ReceiveHeader(f) \/ ReceiveExpected(f) \/ ReceiveUnexpected(f) \/ ReceiveOther(f)
  PROVE  Consistent(b, d)'
<1>. PICK m : m = a[1]
  OBVIOUS
<1>1. rx.receiving /\ Receiving(m) /\ (faults = 0 => g = 0 /\ ErrorFree)
  BY DEF Following, InSync, Consistent
<1>2. CASE b = <<a[1], a[2] + 1>>
  <2>1. ReceiveExpected(f)
    <3>1. f.stream = rx.stream /\ f.seq = rx.expected
      BY <1>2, FollowingOn
    <3>. QED BY <1>1, <3>1 DEF ReceiveHeader, ReceiveUnexpected, OutOfSequence, ReceiveOther
  <2>2. (Idle(b) \/ Following(b))'
    BY <1>2, <2>1, ExpectedConsistent
  <2>3. ErrorFree => ErrorFree'
    <3>1. f \in Frame
      BY FrameTyped DEF Types
    <3>. QED BY <2>1, <3>1, ExpectedErrorFree
  <2>4. faults' = 0 => d = 0 /\ ErrorFree'
    BY <1>1, <2>3 DEF Passes
  <2>. QED BY <2>2, <2>4 DEF Consistent
<1>3. CASE b # <<a[1], a[2] + 1>>
  <2>1. g # 0 /\ d = 0 /\ f.seq # rx.expected /\ (b[1] = a[1] => f.stream = rx.stream)
    BY <1>3, FollowingOn
  <2>2. faults' # 0
    BY <1>1, <2>1
  <2>3. a[1] <= b[1] /\ m \in Nat /\ b[1] \in Nat
    BY PassesOn DEF Position
  <2>4. CASE ReceiveUnexpected(f)
    <3>1. GiveUp(SEQUENCE_ERROR) /\ m <= b[1]
      BY <2>3, <2>4 DEF ReceiveUnexpected
    <3>2. Idle(b)'
      BY <1>1, <3>1, GivenUpIdle
    <3>. QED BY <2>2, <3>2 DEF Consistent
  <2>5. CASE ReceiveOther(f)
    <3>1. b[1] # a[1]
      BY <2>1, <2>5 DEF ReceiveOther
    <3>2. b[1] = a[1] + 1
      BY <3>1, PassesOn
    <3>3. m <= a[1] /\ m < b[1] /\ ~(m < a[1])
      BY <2>3, <3>2, SMT
    <3>4. m \in 1 .. Len(sent') /\ Stale(m, b)'
      BY <1>1, <2>5, <3>2, <3>3, OtherConsistent
    <3>. QED BY <2>1, <2>2, <3>4 DEF Consistent
  <2>. QED BY <1>1, <2>1, <2>4, <2>5 DEF ReceiveHeader, ReceiveExpected
<1>. QED BY <1>2, <1>3

LEMMA StaleReceives ==
  ASSUME Types, Types', Numbered, UNCHANGED <<sent, faults>>,
         NEW a \in Position, NEW b \in Position, Exists(sent, b),
         NEW d, Passes(a, b, 0, d), NEW m, Stale(m, a), faults # 0,
         NEW f, f = FrameAt(sent, b),
         ReceiveHeader(f) \/ ReceiveExpected(f) \/ ReceiveUnexpected(f) \/ ReceiveOther(f)
  PROVE  Consistent(b, d)'
<1>1. d = 0 /\ ~(f.stream = rx.stream /\ f.seq = rx.expected)
  BY StaleOn
<1>2. rx.receiving /\ Receiving(m) /\ m < a[1] /\ a[1] \in Nat /\ b[1] \in Nat /\ m \in Nat
  <2>1. m \in 1 .. Len(sent)
    BY DEF Stale, Receiving
  <2>2. m \in Nat
    BY <2>1, SMT
  <2>. QED BY <2>2 DEF Stale, Position
<1>3. a[1] <= b[1] /\ (b[1] = a[1] \/ b[1] = a[1] + 1)
  BY PassesOn
<1>4. m <= a[1] /\ m <= b[1] /\ m < b[1]
  BY <1>2, <1>3, SMT
<1>5. CASE ReceiveUnexpected(f)
  <2>1. GiveUp(SEQUENCE_ERROR)
    BY <1>5 DEF ReceiveUnexpected
  <2>2. Idle(b)'
    BY <1>2, <1>4, <2>1, GivenUpIdle
  <2>. QED BY <2>2 DEF Consistent
<1>6. CASE ReceiveOther(f)
  <2>1. m \in 1 .. Len(sent') /\ Stale(m, b)'
    BY <1>2, <1>3, <1>4, <1>6, OtherConsistent
  <2>. QED BY <1>1, <2>1 DEF Consistent
<1>. QED BY <1>1, <1>2, <1>5, <1>6 DEF ReceiveHeader, ReceiveExpected

LEMMA TimeOutConsistent ==
  ASSUME Types, Types', NEW P, Path(P), NEW g, Chain(P, g), Consistent(P[1], g), TimeOut
  PROVE  Consistent(P[1], g)'
<1>. PICK a : a = P[1]
  OBVIOUS
<1>1. UNCHANGED <<sent, faults>> /\ rx.receiving /\ Silence /\ GiveUp(TIMEOUT_ERROR)
  BY DEF TimeOut, TimedOut
<1>2. P \in Seq(Position) /\ Len(P) = 2 /\ P[2] = <<Len(sent) + 1, 0>>
  <2>1. Len(bus) = 0
    BY <1>1, EmptySeq DEF Silence
  <2>2. P \in Seq(Position) /\ Len(P) = 2 /\ Making(P[2])
    BY <2>1 DEF Path
  <2>. QED BY <1>1, <2>2 DEF Making, Silence, Working
<1>3. a \in Position /\ a[1] \in Nat /\ a[2] \in Nat /\ a[1] <= a[1]
  <2>1. 1 \in 1 .. Len(P)
    BY <1>2, SMT
  <2>2. a \in Position
    BY <1>2, <2>1, ElementOfSeq
  <2>. QED BY <2>2, SMT DEF Position
<1>4. g = 0 => Follows(a, P[2])
  <2>1. 1 \in 1 .. Len(P) - 1 /\ 1 + 1 = 2 /\ 1 # 0
    BY <1>2, SMT
  <2>. QED BY <2>1 DEF Chain
<1>5. CASE Following(a)
  <2>1. g # 0
    <3>1. SUFFICES ASSUME g = 0 PROVE FALSE
      OBVIOUS
    <3>2. P[2] = <<a[1], a[2] + 1>>
      BY <1>4, <1>5, <3>1, NotOver DEF Follows
    <3>3. a[2] + 1 # 0
      BY <1>3, SMT
    <3>. QED BY <1>2, <3>2, <3>3
  <2>2. faults' # 0
    BY <1>1, <2>1 DEF Consistent
  <2>. PICK m : m = a[1]
    OBVIOUS
  <2>3. Receiving(m) /\ m <= a[1]
    BY <1>3, <1>5 DEF Following
  <2>4. Idle(a)'
    BY <1>1, <1>3, <2>3, GivenUpIdle
  <2>. QED BY <2>2, <2>4 DEF Consistent
<1>6. CASE faults # 0 /\ \E m \in 1 .. Len(sent) : Stale(m, a)
  <2>1. PICK m \in 1 .. Len(sent) : Stale(m, a)
    BY <1>6
  <2>2. Receiving(m) /\ m < a[1]
    BY <2>1 DEF Stale
  <2>3. m <= a[1]
    BY <1>3, <2>2, SMT
  <2>4. Idle(a)'
    BY <1>1, <1>3, <2>2, <2>3, GivenUpIdle
  <2>. QED BY <1>1, <1>6, <2>4 DEF Consistent
<1>. QED BY <1>1, <1>5, <1>6 DEF Consistent, Idle

LEMMA FirstOfPath ==
  ASSUME Types, NEW P, Path(P)
  PROVE  /\ P[1] \in Position /\ P[1][1] <= Len(sent)
         /\ P[Len(P) - 1] \in Position
         /\ P[Len(P) - 1] = <<0, 0>> \/ Exists(sent, P[Len(P) - 1])
<1>1. Len(P) \in Nat /\ Len(P) >= 2
  BY PathFacts
<1>2. 1 \in 1 .. Len(P) - 1 /\ 1 \in 1 .. Len(P) /\ Len(P) - 1 \in 1 .. Len(P) - 1
      /\ Len(P) - 1 \in 1 .. Len(P)
  BY <1>1, SMT
<1>. QED BY <1>2, PathFacts

(* A fault, of which there had been none, breaks the chain.                *)
LEMMA FaultConsistent ==
  ASSUME Types, Types', NEW P, Path(P), NEW g, Chain(P, g), Consistent(P[1], g),
         Keeps(sent, sent'), UNCHANGED <<rx, handed>>, faults' = faults + 1, faults' <= 1,
         NEW q \in Position, NEW a, NEW p, a = P[Len(P) - 1], p = P[Len(P)],
         Follows(a, p)' => Skips(a, q)'
  PROVE  \E d : Chain(Instead(P, q), d)' /\ Consistent(Instead(P, q)[1], d)'
<1>1. faults = 0 /\ faults' # 0
  <2>1. faults \in Nat
    BY DEF Types
  <2>. QED BY <2>1, SMT
<1>2. g = 0
  BY <1>1 DEF Consistent
<1>3. PICK d : d # 0 /\ Chain(Instead(P, q), d)' /\ Instead(P, q)[1] = P[1]
  BY <1>2, ChainBroken
<1>. PICK b : b = P[1]
  OBVIOUS
<1>4. b \in Position /\ b[1] <= Len(sent)
  BY FirstOfPath
<1>5. Consistent(b, d)'
  BY <1>1, <1>4, ConsistentLater
<1>. QED BY <1>3, <1>5

LEMMA MadeOrder ==
  ASSUME Types, Types', NEW P, Path(P), NEW q, Made(P[Len(P)], q),
         faults <= 1 => \E g : Chain(P, g) /\ Consistent(P[1], g)
  PROVE  \E Q : Path(Q)' /\ (faults' <= 1 => \E g : Chain(Q, g)' /\ Consistent(Q[1], g)')
<1>. PICK p : p = P[Len(P)]
  OBVIOUS
<1>. PICK a : a = P[1]
  OBVIOUS
<1>. PICK c : c = P[Len(P) - 1]
  OBVIOUS
<1>1. /\ Keeps(sent, sent') /\ Exists(sent', p) /\ p \in Position /\ q \in Position
      /\ UNCHANGED <<rx, handed>> /\ Making(q)' /\ q = After(sent', p)
  BY DEF Made
<1>2. bus \in Seq(Frame) /\ faults \in Nat /\ sent' \in Seq(Message)
  BY DEF Types
<1>3. a \in Position /\ a[1] <= Len(sent) /\ c \in Position
  BY FirstOfPath
<1>. PICK f : f = FrameAt(sent', p)
  OBVIOUS
<1>4. CASE bus' = Append(bus, f) /\ faults' = faults
  <2>1. f \in Frame
    BY <1>1, <1>2, FrameTyped
  <2>2. Path(Append(P, q))'
    BY <1>1, <1>2, <1>4, <2>1, PathLonger
  <2>3. ASSUME NEW g, Chain(P, g), Consistent(a, g)
        PROVE  Chain(Append(P, q), g)' /\ Consistent(Append(P, q)[1], g)'
    <3>1. Chain(Append(P, q), g)' /\ Append(P, q)[1] = a
      BY <1>1, <2>3, ChainLonger
    <3>2. Consistent(a, g)'
      BY <1>1, <1>3, <1>4, <2>3, ConsistentLater
    <3>. QED BY <3>1, <3>2
  <2>. QED BY <1>4, <2>2, <2>3
<1>5. CASE bus' = bus /\ faults' = faults + 1
  <2>1. Path(Instead(P, q))'
    BY <1>1, <1>2, <1>5, PathInstead
  <2>2. ASSUME faults' <= 1
        PROVE  \E d : Chain(Instead(P, q), d)' /\ Consistent(Instead(P, q)[1], d)'
    <3>1. faults <= 1
      BY <1>2, <1>5, <2>2, SMT
    <3>2. PICK g : Chain(P, g) /\ Consistent(P[1], g)
      BY <3>1
    <3>3. Follows(c, p)' => Skips(c, q)'
      BY <1>1, <1>2, <1>3, LostSkips
    <3>. QED BY <1>1, <1>5, <2>2, <3>2, <3>3, FaultConsistent
  <2>. QED BY <2>1, <2>2
<1>. QED BY <1>4, <1>5 DEF Made

LEMMA OrderAgain ==
  ASSUME ~Concurrent, Numbered, Order, [Next]_vars
  PROVE  Order'
<1>1. Types
  BY DEF Order
<1>2. PICK P : Path(P) /\ (faults <= 1 => \E g : Chain(P, g) /\ Consistent(P[1], g))
  BY DEF Order
<1>. PICK p : p = P[Len(P)]
  OBVIOUS
<1>. PICK a : a = P[1]
  OBVIOUS
<1>. PICK c : c = P[Len(P) - 1]
  OBVIOUS
<1>3. Making(p) /\ a \in Position /\ a[1] <= Len(sent) /\ c \in Position
  BY <1>1, <1>2, PathFacts, FirstOfPath
<1>4. ASSUME NEW s \in Sender, NEW stream \in Stream, NEW len \in Lens,
             SendLongMessage(s, stream, len)
      PROVE  Order'
  <2>. PICK q : q = <<Len(sent) + 1, 1>>
    OBVIOUS
  <2>1. Types' /\ Made(p, q)
    BY <1>1, <1>3, <1>4, HeaderMade
  <2>2. \E Q : Path(Q)' /\ (faults' <= 1 => \E g : Chain(Q, g)' /\ Consistent(Q[1], g)')
    BY <1>1, <1>2, <2>1, MadeOrder
  <2>. QED BY <2>1, <2>2 DEF Order
<1>5. ASSUME NEW s \in Sender, SendFragment(s) PROVE Order'
  <2>. PICK q : q = After(sent, p)
    OBVIOUS
  <2>1. Types' /\ Made(p, q)
    BY <1>1, <1>3, <1>5, FragmentMade
  <2>2. \E Q : Path(Q)' /\ (faults' <= 1 => \E g : Chain(Q, g)' /\ Consistent(Q[1], g)')
    BY <1>1, <1>2, <2>1, MadeOrder
  <2>. QED BY <2>1, <2>2 DEF Order
<1>6. ASSUME NEW s \in Sender, PowerLoss(s) PROVE Order'
  <2>. PICK q : q = <<Len(sent) + 1, 0>>
    OBVIOUS
  <2>1. /\ Types' /\ Making(q)' /\ q \in Position /\ Keeps(sent, sent')
        /\ UNCHANGED <<sent, bus, rx, handed>> /\ faults' = faults + 1
        /\ p[1] = Len(sent) /\ p[2] # 0
    BY <1>1, <1>3, <1>6, PowerLost
  <2>2. Path(Instead(P, q))'
    BY <1>1, <1>2, <2>1, PathInstead DEF Types
  <2>3. ASSUME faults' <= 1
        PROVE  \E d : Chain(Instead(P, q), d)' /\ Consistent(Instead(P, q)[1], d)'
    <3>0. faults \in Nat
      BY <1>1 DEF Types
    <3>1. faults <= 1
      BY <2>1, <2>3, <3>0, SMT
    <3>2. PICK g : Chain(P, g) /\ Consistent(P[1], g)
      BY <1>2, <3>1
    <3>3. Follows(c, p)' => Skips(c, q)'
      BY <1>3, <2>1, CutSkips
    <3>. QED BY <1>1, <1>2, <2>1, <2>3, <3>2, <3>3, FaultConsistent
  <2>. QED BY <2>1, <2>2, <2>3 DEF Order
<1>7. ASSUME Receive PROVE Order'
  <2>. PICK b : b = P[2]
    OBVIOUS
  <2>. PICK f : f = FrameAt(sent, b)
    OBVIOUS
  <2>1. bus # <<>> /\ bus' = Tail(bus) /\ UNCHANGED <<sent, out, faults>>
    BY <1>7 DEF Receive
  <2>2. Path(Tail(P))' /\ Head(bus) = f /\ Exists(sent, b) /\ b \in Position
    BY <1>1, <1>2, <2>1, PathShorter DEF Types
  <2>3. Types'
    BY <1>1, <1>2, <1>7, ReceiveTypes
  <2>4. ReceiveHeader(f) \/ ReceiveExpected(f) \/ ReceiveUnexpected(f) \/ ReceiveOther(f)
    BY <1>7, <2>2 DEF Receive
  <2>5. ASSUME faults' <= 1
        PROVE  \E d : Chain(Tail(P), d)' /\ Consistent(Tail(P)[1], d)'
    <3>1. PICK g : Chain(P, g) /\ Consistent(a, g)
      BY <1>2, <2>1, <2>5
    <3>2. PICK d : Chain(Tail(P), d)' /\ Passes(a, b, g, d) /\ Tail(P)[1] = b
      BY <1>1, <1>2, <2>1, <3>1, ChainShorter
    <3>3. CASE Idle(a)
      <4>1. Consistent(b, d)'
        BY <1>1, <1>3, <2>1, <2>2, <2>3, <2>4, <3>1, <3>2, <3>3, IdleReceives
      <4>. QED BY <3>2, <4>1
    <3>4. CASE Following(a)
      <4>1. Consistent(b, d)'
        BY <1>1, <1>3, <2>1, <2>2, <2>3, <2>4, <3>1, <3>2, <3>4, FollowingReceives
      <4>. QED BY <3>2, <4>1
    <3>5. ASSUME g = 0, faults # 0, NEW m, Stale(m, a)
          PROVE  \E e : Chain(Tail(P), e)' /\ Consistent(Tail(P)[1], e)'
      <4>1. Passes(a, b, 0, d)
        BY <3>2, <3>5
      <4>2. Consistent(b, d)'
        BY <1>1, <1>3, <2>1, <2>2, <2>3, <2>4, <3>5, <4>1, StaleReceives
      <4>. QED BY <3>2, <4>2
    <3>. QED BY <3>1, <3>3, <3>4, <3>5 DEF Consistent
  <2>. QED BY <2>2, <2>3, <2>5 DEF Order
<1>8. ASSUME TimeOut PROVE Order'
  <2>1. Types' /\ Path(P)'
    BY <1>1, <1>2, <1>8, TimedOutTypes
  <2>2. UNCHANGED <<sent, out, bus, faults>>
    BY <1>8 DEF TimeOut
  <2>3. ASSUME faults' <= 1
        PROVE  \E g : Chain(P, g)' /\ Consistent(P[1], g)'
    <3>1. PICK g : Chain(P, g) /\ Consistent(P[1], g)
      BY <1>2, <2>2, <2>3
    <3>2. Consistent(P[1], g)'
      BY <1>1, <1>2, <1>8, <2>1, <3>1, TimeOutConsistent
    <3>3. Chain(P, g)'
      BY <2>2, <3>1, Zenon DEF Chain, Follows, Skips, Over
    <3>. QED BY <3>2, <3>3
  <2>. QED BY <2>1, <2>3 DEF Order
<1>9. CASE UNCHANGED vars
  <2>1. UNCHANGED <<sent, out, bus, rx, handed, faults>>
    BY <1>9 DEF vars
  <2>2. Types'
    BY <1>1, <1>9 DEF Types, vars
  <2>3. Path(P)'
    <3>1. Path(P)
      BY <1>2
    <3>. QED BY <2>1, <3>1, Zenon DEF Path, Making, Working, is_sending
  <2>4. ASSUME faults' <= 1
        PROVE  \E g : Chain(P, g)' /\ Consistent(P[1], g)'
    <3>1. PICK g : Chain(P, g) /\ Consistent(a, g)
      BY <1>2, <2>1, <2>4
    <3>2. Chain(P, g)'
      BY <2>1, <3>1, Zenon DEF Chain, Follows, Skips, Over
    <3>3. Keeps(sent, sent')
      <4>1. Len(sent) \in Nat
        BY <1>1, LenProperties DEF Types
      <4>. QED BY <2>1, <4>1 DEF Keeps
    <3>4. Consistent(a, g)'
      BY <1>1, <1>3, <2>1, <2>2, <3>1, <3>3, ConsistentLater
    <3>. QED BY <3>2, <3>4
  <2>. QED BY <2>2, <2>3, <2>4 DEF Order
<1>. QED BY <1>4, <1>5, <1>6, <1>7, <1>8, <1>9 DEF Next

LEMMA OrderIsKept == ~Concurrent /\ Numbered => (Spec => []Order)
<1>. SUFFICES ASSUME ~Concurrent, Numbered PROVE Spec => []Order
  OBVIOUS
<1>1. Order /\ [Next]_vars => Order'
  BY OrderAgain
<1>. QED BY <1>1, OrderAtFirst, PTL DEF Spec

LEMMA OrderIsGood ==
  ASSUME Order, faults <= 1
  PROVE  \E lim : Good(handed, sent, lim)
<1>1. PICK P : \E g : Chain(P, g) /\ Consistent(P[1], g)
  BY DEF Order
<1>2. PICK g : Consistent(P[1], g)
  BY <1>1
<1>. PICK a : a = P[1]
  OBVIOUS
<1>. QED BY <1>2 DEF Consistent, Idle, Following, Stale, Receiving

LEMMA GoodShows ==
  ASSUME Order, faults <= 1
  PROVE  /\ DOMAIN handed = 1 .. Len(handed)
         /\ \A k \in 1 .. Len(handed) : \E id \in DOMAIN sent : \E n \in 0 .. sent[id].len :
              /\ BytesUpTo(k) = FirstBytes(id, n)
              /\ handed[k].status = COMPLETE =>
                   n = sent[id].len /\ handed[k].stream = sent[id].stream
         /\ \A j, k \in 1 .. Len(handed) :
              j < k /\ handed[j].status = COMPLETE /\ handed[k].status = COMPLETE
                => BytesUpTo(j)[1][1] < BytesUpTo(k)[1][1]
<1>1. PICK lim : Good(handed, sent, lim)
  BY OrderIsGood
<1>2. DOMAIN handed = 1 .. Len(handed) /\ DOMAIN sent = 1 .. Len(sent)
  BY LenProperties DEF Order, Types
<1>3. ASSUME NEW k \in 1 .. Len(handed)
      PROVE  \E id \in DOMAIN sent : \E n \in 0 .. sent[id].len :
              /\ BytesUpTo(k) = FirstBytes(id, n)
              /\ handed[k].status = COMPLETE =>
                   n = sent[id].len /\ handed[k].stream = sent[id].stream
  <2>1. BytesUpTo(k) = BytesIn(handed, k)
    BY HandedBytes
  <2>2. InOrder(handed, k, sent, lim)
    BY <1>1 DEF Good
  <2>. QED BY <1>2, <2>1, <2>2 DEF InOrder
<1>4. ASSUME NEW j \in 1 .. Len(handed), NEW k \in 1 .. Len(handed),
             j < k, handed[j].status = COMPLETE, handed[k].status = COMPLETE
      PROVE  BytesUpTo(j)[1][1] < BytesUpTo(k)[1][1]
  <2>1. BytesUpTo(j) = BytesIn(handed, j) /\ BytesUpTo(k) = BytesIn(handed, k)
    BY HandedBytes
  <2>. QED BY <1>1, <1>4, <2>1 DEF Good, Rising
<1>. QED BY <1>2, <1>3, <1>4

LEMMA PrefixShown ==
  ASSUME Order
  PROVE  HandedIsPrefix
<1>. SUFFICES ASSUME faults <= 1, NEW k \in DOMAIN handed
              PROVE  \E id \in DOMAIN sent : IsPrefix(BytesUpTo(k), Whole(id))
  BY DEF HandedIsPrefix
<1>1. k \in 1 .. Len(handed) /\ sent \in Seq(Message)
  BY GoodShows DEF Order, Types
<1>2. PICK id \in DOMAIN sent : \E n \in 0 .. sent[id].len : BytesUpTo(k) = FirstBytes(id, n)
  BY <1>1, GoodShows
<1>3. PICK n \in 0 .. sent[id].len : BytesUpTo(k) = FirstBytes(id, n)
  BY <1>2
<1>. PICK l : l = sent[id].len
  OBVIOUS
<1>. PICK s : s = FirstBytes(id, n)
  OBVIOUS
<1>. PICK t : t = FirstBytes(id, l)
  OBVIOUS
<1>4. id \in Nat /\ l \in Nat
  <2>1. id \in 1 .. Len(sent)
    BY <1>1, LenProperties
  <2>2. sent[id] \in Message
    BY <1>1, <2>1, ElementOfSeq
  <2>3. id \in Nat
    BY <2>1, SMT
  <2>. QED BY <2>2, <2>3, Constants DEF Message
<1>5. n \in Nat /\ n <= l
  BY <1>4, SMT
<1>6. s \in Seq(Byte) /\ t \in Seq(Byte) /\ Len(s) = n /\ Len(t) = l
  BY <1>4, <1>5, FirstBytesTyped
<1>7. Whole(id) = t
  BY DEF Whole, FirstBytes
<1>8. \A i \in 1 .. n : i \in 1 .. l /\ s[i] = t[i]
  BY <1>4, <1>5, SMT DEF FirstBytes
<1>9. IsPrefix(s, t)
  <2>1. Len(s) <= Len(t)
    BY <1>5, <1>6
  <2>2. s = SubSeq(t, 1, Len(s))
    <3>1. 1 .. n \subseteq 1 .. l
      BY <1>8
    <3>2. s = [i \in 1 .. n |-> t[i]]
      BY <1>8 DEF FirstBytes
    <3>3. SubSeq(t, 1, n) = [i \in 1 .. n |-> t[i]]
      <4>1. SubSeq(t, 1, n) = [i \in 1 .. n - 1 + 1 |-> t[1 + i - 1]]
        BY <1>4, <1>5, <1>6, SubSeqProperties
      <4>2. n - 1 + 1 = n /\ \A i \in 1 .. n : 1 + i - 1 = i
        BY <1>5, SMT
      <4>. QED BY <4>1, <4>2
    <3>. QED BY <1>6, <3>2, <3>3
  <2>. QED BY <2>1, <2>2 DEF IsPrefix
<1>. QED BY <1>3, <1>7, <1>9

LEMMA WholeShown ==
  ASSUME Order
  PROVE  CompleteIsWhole
<1>. SUFFICES ASSUME faults <= 1
     PROVE  /\ \A k \in CompleteCalls : \E id \in DOMAIN sent :
                 BytesUpTo(k) = Whole(id) /\ handed[k].stream = sent[id].stream
            /\ \A j, k \in CompleteCalls : j < k => BytesUpTo(j)[1][1] < BytesUpTo(k)[1][1]
  BY DEF CompleteIsWhole
<1>1. \A k \in CompleteCalls : k \in 1 .. Len(handed) /\ handed[k].status = COMPLETE
  BY GoodShows DEF CompleteCalls
<1>2. ASSUME NEW k \in CompleteCalls
      PROVE  \E id \in DOMAIN sent :
               BytesUpTo(k) = Whole(id) /\ handed[k].stream = sent[id].stream
  <2>1. k \in 1 .. Len(handed) /\ handed[k].status = COMPLETE
    BY <1>1, <1>2
  <2>2. PICK id \in DOMAIN sent :
          BytesUpTo(k) = FirstBytes(id, sent[id].len) /\ handed[k].stream = sent[id].stream
    BY <2>1, GoodShows
  <2>3. Whole(id) = FirstBytes(id, sent[id].len)
    BY DEF Whole, FirstBytes
  <2>. QED BY <2>2, <2>3
<1>3. ASSUME NEW j \in CompleteCalls, NEW k \in CompleteCalls, j < k
      PROVE  BytesUpTo(j)[1][1] < BytesUpTo(k)[1][1]
  <2>1. j \in 1 .. Len(handed) /\ k \in 1 .. Len(handed)
        /\ handed[j].status = COMPLETE /\ handed[k].status = COMPLETE
    BY <1>1, <1>3
  <2>. QED BY <1>3, <2>1, GoodShows
<1>. QED BY <1>2, <1>3

LEMMA ErrorFreeShown ==
  ASSUME Order
  PROVE  NoErrorWithoutFault
<1>. SUFFICES ASSUME faults = 0
              PROVE  \A k \in DOMAIN handed : handed[k].status \in {COMPLETE, INCOMPLETE}
  BY DEF NoErrorWithoutFault
<1>1. faults <= 1
  BY SMT
<1>2. DOMAIN handed = 1 .. Len(handed)
  BY <1>1, GoodShows
<1>3. ErrorFree
  BY <1>1 DEF Order, Consistent
<1>. QED BY <1>2, <1>3 DEF ErrorFree

(* When the nodes send one message at a time, and none so long that its    *)
(* numbers wrap, a single loss makes the callback get no more than a       *)
(* prefix of a message.                                                    *)
THEOREM PrefixesOnly ==
  ASSUME ~Concurrent, Numbered
  PROVE  Spec => []HandedIsPrefix
<1>1. Order => HandedIsPrefix
  BY PrefixShown
<1>. QED BY <1>1, OrderIsKept, PTL

(* Under the same conditions what is reported complete is the whole of a   *)
(* message, on its stream, and in the order the messages were sent in.     *)
THEOREM CompleteMeansWhole ==
  ASSUME ~Concurrent, Numbered
  PROVE  Spec => []CompleteIsWhole
<1>1. Order => CompleteIsWhole
  BY WholeShown
<1>. QED BY <1>1, OrderIsKept, PTL

(* Under the same conditions no message is given up while nothing is lost. *)
THEOREM NoErrorUnlessFault ==
  ASSUME ~Concurrent, Numbered
  PROVE  Spec => []NoErrorWithoutFault
<1>1. Order => NoErrorWithoutFault
  BY ErrorFreeShown
<1>. QED BY <1>1, OrderIsKept, PTL

=============================================================================
