--------------------------- MODULE UdtListProofs ----------------------------
(***************************************************************************)
(* Theorems about UdtReceiverList: the lists the code keeps implement the  *)
(* sets of UdtReceiver, for every window, history, number of packets and   *)
(* initial sequence number whose connection stays below MaxSeq (NoWrap).   *)
(* Theorems about UdtNak, which reports the numbers of those lists: what   *)
(* is compressed is expanded to the same numbers, for every list of        *)
(* numbers that differ.  And about UdtDatagram, on top of the lists: what  *)
(* was cut into packets is put together again.                             *)
(***************************************************************************)
EXTENDS UdtDatagram, UdtNak, SequenceTheorems, FiniteSetTheorems, WellFoundedInduction,
        TLAPS

-----------------------------------------------------------------------------
(***************************************************************************)
(* Smallest and largest elements, and induction.                           *)
(***************************************************************************)

LessRel == { p \in Nat \X Nat : p[1] < p[2] }

LEMMA Least ==
  ASSUME NEW S, S \subseteq Nat, S # {}
  PROVE  \E m \in S : \A n \in S : m <= n
<1>1. OpToRel(<, Nat) = LessRel
  BY DEF OpToRel, LessRel
<1>2. IsWellFoundedOn(LessRel, Nat)
  BY <1>1, NatLessThanWellFounded
<1>3. PICK m \in S : \A n \in S : ~ (<<n, m>> \in LessRel)
  BY <1>2, WFMin
<1>4. ASSUME NEW n \in S PROVE m <= n
  <2>1. m \in Nat /\ n \in Nat
    OBVIOUS
  <2>2. SUFFICES ASSUME n < m PROVE FALSE
    BY <2>1
  <2>3. <<n, m>> \in LessRel
    BY <2>1, <2>2 DEF LessRel
  <2>4. QED
    BY <1>3, <2>3
<1>5. QED
  BY <1>4

LEMMA MinFacts ==
  ASSUME NEW S, S \subseteq Nat, S # {}
  PROVE  Min(S) \in S /\ \A n \in S : Min(S) <= n
  BY Least DEF Min

LEMMA MaxFacts ==
  ASSUME NEW S, S \subseteq Nat, S # {}, NEW b \in Nat, \A n \in S : n <= b
  PROVE  Max(S) \in S /\ \A n \in S : n <= Max(S)
<1> DEFINE D == { b - n : n \in S }
<1>0. \A n \in S : n \in Nat /\ b - n \in Nat
  OBVIOUS
<1>1. D \subseteq Nat /\ D # {}
  BY <1>0
<1>2. PICK d \in D : \A e \in D : d <= e
  BY <1>1, Least
<1>3. PICK m \in S : d = b - m
  OBVIOUS
<1>4. \A n \in S : b - m <= b - n
  BY <1>2, <1>3
<1>5. \A n \in S : m >= n
  BY <1>0, <1>4
<1>6. QED
  BY <1>5 DEF Max

\* What holds of 0 and of the number after each that it holds of, holds of all up to n.
LEMMA Induction ==
  ASSUME NEW n \in Nat, NEW S, 0 \in S, \A m \in 0 .. n - 1 : m \in S => m + 1 \in S
  PROVE  0 .. n \subseteq S
<1> SUFFICES ASSUME ~ (0 .. n \subseteq S) PROVE FALSE
  OBVIOUS
<1> DEFINE B == (0 .. n) \ S
<1>1. B \subseteq Nat /\ B # {}
  OBVIOUS
<1>2. PICK m \in B : \A k \in B : m <= k
  BY <1>1, Least
<1>3. m # 0 /\ m \in 0 .. n
  BY <1>2
<1>4. m - 1 \in 0 .. n - 1 /\ m - 1 \notin B
  BY <1>2, <1>3
<1>5. m - 1 \in S
  BY <1>4
<1>6. (m - 1) + 1 \in S
  BY <1>4, <1>5
<1>7. QED
  BY <1>3, <1>6
-----------------------------------------------------------------------------
(***************************************************************************)
(* The list operations.                                                    *)
(***************************************************************************)

Sorted(list) == \A i, j \in DOMAIN list : i < j => list[i] < list[j]

SortedLists == { list \in Seq(Nat) : Sorted(list) }

LEMMA InsertAtFacts ==
  ASSUME NEW S, NEW s \in Seq(S), NEW e \in S, NEW at \in 1 .. Len(s) + 1
  PROVE  /\ InsertAt(s, at, e) \in Seq(S)
         /\ Len(InsertAt(s, at, e)) = Len(s) + 1
         /\ \A i \in 1 .. at - 1 : InsertAt(s, at, e)[i] = s[i]
         /\ InsertAt(s, at, e)[at] = e
         /\ \A i \in at + 1 .. Len(s) + 1 : InsertAt(s, at, e)[i] = s[i - 1]
<1> DEFINE a == SubSeq(s, 1, at - 1)
           b == SubSeq(s, at, Len(s))
           u == <<e>>
           c == a \o u
<1>0. Len(s) \in Nat /\ at \in Nat
  OBVIOUS
<1>1. a \in Seq(S) /\ Len(a) = at - 1 /\ \A i \in 1 .. at - 1 : a[i] = s[i]
  BY <1>0, SubSeqProperties
<1>2. b \in Seq(S) /\ Len(b) = Len(s) - at + 1 /\ \A i \in 1 .. Len(s) - at + 1 : b[i] = s[at + i - 1]
  BY <1>0, SubSeqProperties
<1>9. u \in Seq(S) /\ Len(u) = 1 /\ u[1] = e
  OBVIOUS
<1> HIDE DEF a, b, u
<1>3. /\ c \in Seq(S) /\ Len(c) = Len(a) + Len(u)
      /\ \A i \in 1 .. Len(a) + Len(u) : c[i] = IF i <= Len(a) THEN a[i] ELSE u[i - Len(a)]
  BY <1>1, <1>9, ConcatProperties
<1> HIDE DEF c
<1>10. /\ Len(c) = at
       /\ \A i \in 1 .. at : c[i] = IF i < at THEN s[i] ELSE e
  BY <1>0, <1>1, <1>9, <1>3
<1>11. c \in Seq(S) /\ b \in Seq(S)
  BY <1>2, <1>3
<1> DEFINE d == c \o b
<1>4. /\ d \in Seq(S) /\ Len(d) = Len(c) + Len(b)
      /\ \A i \in 1 .. Len(c) + Len(b) : d[i] = IF i <= Len(c) THEN c[i] ELSE b[i - Len(c)]
  BY <1>11, ConcatProperties
<1> HIDE DEF d
<1>5. ASSUME NEW i \in 1 .. Len(s) + 1
      PROVE  d[i] = IF i < at THEN s[i] ELSE IF i = at THEN e ELSE s[i - 1]
  <2>1. CASE i <= at
    BY <2>1, <1>0, <1>2, <1>10, <1>4
  <2>2. CASE i > at
    <3>1. d[i] = b[i - at]
      BY <2>2, <1>0, <1>2, <1>10, <1>4
    <3>2. b[i - at] = s[at + (i - at) - 1]
      BY <2>2, <1>0, <1>2
    <3>3. at + (i - at) - 1 = i - 1
      BY <1>0
    <3>4. QED
      BY <2>2, <1>0, <3>1, <3>2, <3>3
  <2>3. QED
    BY <1>0, <2>1, <2>2
<1>6. InsertAt(s, at, e) = d
  BY DEF InsertAt, a, b, c, d, u
<1>7. Len(d) = Len(s) + 1
  BY <1>0, <1>2, <1>10, <1>4
<1>8. /\ \A i \in 1 .. at - 1 : d[i] = s[i]
      /\ d[at] = e
      /\ \A i \in at + 1 .. Len(s) + 1 : d[i] = s[i - 1]
  <2>1. at \in 1 .. Len(s) + 1 /\ ~ (at < at)
    BY <1>0
  <2>2. d[at] = e
    BY <2>1, <1>5
  <2>3. \A i \in 1 .. at - 1 : i \in 1 .. Len(s) + 1 /\ i < at
    BY <1>0
  <2>4. \A i \in at + 1 .. Len(s) + 1 : i \in 1 .. Len(s) + 1 /\ ~ (i < at) /\ i # at
    BY <1>0
  <2>5. QED
    BY <2>2, <2>3, <2>4, <1>5
<1>12. QED
  BY <1>4, <1>6, <1>7, <1>8

LEMMA RemoveAtFacts ==
  ASSUME NEW S, NEW s \in Seq(S), NEW at \in 1 .. Len(s)
  PROVE  /\ RemoveAt(s, at) \in Seq(S)
         /\ Len(RemoveAt(s, at)) = Len(s) - 1
         /\ \A i \in 1 .. Len(s) - 1 :
              RemoveAt(s, at)[i] = IF i < at THEN s[i] ELSE s[i + 1]
<1> DEFINE a == SubSeq(s, 1, at - 1)
           b == SubSeq(s, at + 1, Len(s))
           d == a \o b
<1>0. Len(s) \in Nat /\ at \in Nat
  OBVIOUS
<1>1. a \in Seq(S) /\ Len(a) = at - 1 /\ \A i \in 1 .. at - 1 : a[i] = s[i]
  BY <1>0, SubSeqProperties
<1>2. b \in Seq(S) /\ Len(b) = Len(s) - at /\ \A i \in 1 .. Len(s) - at : b[i] = s[(at + 1) + i - 1]
  BY <1>0, SubSeqProperties
<1> HIDE DEF a, b
<1>3. /\ d \in Seq(S) /\ Len(d) = Len(a) + Len(b)
      /\ \A i \in 1 .. Len(a) + Len(b) : d[i] = IF i <= Len(a) THEN a[i] ELSE b[i - Len(a)]
  BY <1>1, <1>2, ConcatProperties
<1> HIDE DEF d
<1>4. ASSUME NEW i \in 1 .. Len(s) - 1
      PROVE  d[i] = IF i < at THEN s[i] ELSE s[i + 1]
  <2>0. i \in 1 .. Len(a) + Len(b) /\ Len(a) = at - 1
    BY <1>0, <1>1, <1>2
  <2>1. CASE i < at
    <3>1. i <= Len(a) /\ i \in 1 .. at - 1
      BY <2>0, <2>1, <1>0
    <3>2. d[i] = a[i] /\ a[i] = s[i]
      BY <2>0, <3>1, <1>1, <1>3
    <3>3. QED
      BY <2>1, <3>2
  <2>2. CASE i >= at
    <3>1. d[i] = b[i - (at - 1)]
      <4>1. ~ (i <= Len(a))
        BY <2>0, <2>2, <1>0
      <4>2. QED
        BY <2>0, <4>1, <1>3
    <3>2. b[i - (at - 1)] = s[(at + 1) + (i - (at - 1)) - 1]
      BY <2>2, <1>0, <1>2
    <3>3. (at + 1) + (i - (at - 1)) - 1 = i + 1
      BY <1>0
    <3>4. QED
      BY <2>2, <1>0, <3>1, <3>2, <3>3
  <2>3. QED
    BY <1>0, <2>1, <2>2
<1>5. RemoveAt(s, at) = d
  BY DEF RemoveAt, a, b, d
<1>6. Len(d) = Len(s) - 1
  BY <1>0, <1>1, <1>2, <1>3
<1>7. QED
  BY <1>3, <1>4, <1>5, <1>6
-----------------------------------------------------------------------------
(***************************************************************************)
(* Folds.  FoldLeft is a recursive function on the sets of indices: there  *)
(* is such a function, and on 1 .. i it is the step for i applied to its   *)
(* value on 1 .. i - 1.                                                    *)
(***************************************************************************)

LEMMA MaxOfIndices ==
  ASSUME NEW n \in Nat, NEW s \in SUBSET (1 .. n), s # {}
  PROVE  /\ Max(s) \in s /\ Max(s) \in 1 .. n
         /\ \A i \in s : i <= Max(s)
         /\ s \ {Max(s)} \in SUBSET (1 .. n)
<1>1. s \subseteq Nat /\ \A i \in s : i <= n
  OBVIOUS
<1>2. QED
  BY <1>1, MaxFacts

LEMMA MaxOfPrefix ==
  ASSUME NEW i \in Nat \ {0}
  PROVE  Max(1 .. i) = i /\ (1 .. i) \ {i} = 1 .. i - 1
<1>1. 1 .. i \in SUBSET (1 .. i) /\ i \in 1 .. i
  OBVIOUS
<1>2. Max(1 .. i) \in 1 .. i /\ i <= Max(1 .. i)
  BY <1>1, MaxOfIndices
<1>3. QED
  BY <1>2

FoldEquation(g, X, base, n, Op) ==
  /\ g \in [SUBSET (1 .. n) -> X]
  /\ \A s \in SUBSET (1 .. n) :
       g[s] = IF s = {} THEN base ELSE Op[<<g[s \ {Max(s)}], Max(s)>>]

LEMMA FoldExists ==
  ASSUME NEW X, NEW base \in X, NEW n \in Nat, NEW Op \in [X \X (1 .. n) -> X]
  PROVE  \E g : FoldEquation(g, X, base, n, Op)
<1> DEFINE S == { m \in 0 .. n : \E g : FoldEquation(g, X, base, m, Op) }
<1>1. 0 \in S
  <2>1. SUBSET (1 .. 0) = {{}}
    OBVIOUS
  <2> DEFINE g == [s \in SUBSET (1 .. 0) |-> base]
  <2>2. FoldEquation(g, X, base, 0, Op)
    BY <2>1 DEF FoldEquation
  <2>3. QED
    BY <2>2
<1>2. ASSUME NEW m \in 0 .. n - 1, m \in S PROVE m + 1 \in S
  <2>1. PICK g : FoldEquation(g, X, base, m, Op)
    BY <1>2
  <2> DEFINE h == [s \in SUBSET (1 .. m + 1) |->
                     IF m + 1 \in s THEN Op[<<g[s \ {m + 1}], m + 1>>] ELSE g[s]]
  <2>2. ASSUME NEW s \in SUBSET (1 .. m + 1), m + 1 \in s
        PROVE  s \ {m + 1} \in SUBSET (1 .. m) /\ Max(s) = m + 1
    <3>1. Max(s) \in 1 .. m + 1 /\ m + 1 <= Max(s)
      BY <2>2, MaxOfIndices
    <3>2. Max(s) = m + 1
      BY <3>1
    <3>3. \A i \in 1 .. m + 1 : i # m + 1 => i \in 1 .. m
      OBVIOUS
    <3>4. QED
      BY <3>2, <3>3
  <2>3. ASSUME NEW s \in SUBSET (1 .. m + 1), m + 1 \notin s
        PROVE  s \in SUBSET (1 .. m)
    <3>1. \A i \in 1 .. m + 1 : i # m + 1 => i \in 1 .. m
      OBVIOUS
    <3>2. QED
      BY <2>3, <3>1
  <2>4. \A s \in SUBSET (1 .. m) : g[s] \in X /\ m + 1 \notin s /\ s \in SUBSET (1 .. m + 1)
    BY <2>1 DEF FoldEquation
  <2>5. m + 1 \in 1 .. n
    OBVIOUS
  <2>6. ASSUME NEW s \in SUBSET (1 .. m + 1) PROVE h[s] \in X
    <3>1. CASE m + 1 \in s
      <4>1. g[s \ {m + 1}] \in X
        BY <3>1, <2>2, <2>4
      <4>2. <<g[s \ {m + 1}], m + 1>> \in X \X (1 .. n)
        BY <4>1, <2>5
      <4>3. QED
        BY <3>1, <4>2
    <3>2. CASE m + 1 \notin s
      BY <3>2, <2>3, <2>4
    <3>3. QED
      BY <3>1, <3>2
  <2>7. ASSUME NEW s \in SUBSET (1 .. m + 1)
        PROVE  h[s] = IF s = {} THEN base ELSE Op[<<h[s \ {Max(s)}], Max(s)>>]
    <3>1. CASE m + 1 \in s
      <4>1. s \ {m + 1} \in SUBSET (1 .. m) /\ Max(s) = m + 1
        BY <3>1, <2>2
      <4>2. h[s \ {m + 1}] = g[s \ {m + 1}]
        BY <4>1, <2>4
      <4>3. QED
        BY <3>1, <4>1, <4>2
    <3>2. CASE m + 1 \notin s /\ s # {}
      <4>1. s \in SUBSET (1 .. m)
        BY <3>2, <2>3
      <4>2. s \ {Max(s)} \in SUBSET (1 .. m)
        BY <3>2, <4>1, MaxOfIndices
      <4>3. h[s] = g[s] /\ h[s \ {Max(s)}] = g[s \ {Max(s)}]
        BY <3>2, <4>2, <2>4
      <4>4. QED
        BY <3>2, <4>1, <4>3, <2>1 DEF FoldEquation
    <3>3. CASE s = {}
      <4>1. {} \in SUBSET (1 .. m)
        OBVIOUS
      <4>2. h[s] = g[{}]
        BY <3>3
      <4>3. g[{}] = base
        BY <4>1, <2>1 DEF FoldEquation
      <4>4. QED
        BY <3>3, <4>2, <4>3
    <3>4. QED
      BY <3>1, <3>2, <3>3
  <2>8. FoldEquation(h, X, base, m + 1, Op)
    <3>1. h \in [SUBSET (1 .. m + 1) -> X]
      BY <2>6
    <3> HIDE DEF h
    <3>2. QED
      BY <3>1, <2>7 DEF FoldEquation
  <2>9. m + 1 \in 0 .. n
    OBVIOUS
  <2> HIDE DEF h
  <2>10. QED
    BY <2>8, <2>9
<1> HIDE DEF S
<1>3. n \in S
  BY <1>1, <1>2, Induction
<1>4. QED
  BY <1>3 DEF S

LEMMA FoldPrefix ==
  ASSUME NEW X, NEW base \in X, NEW n \in Nat, NEW Op \in [X \X (1 .. n) -> X],
         NEW g, FoldEquation(g, X, base, n, Op)
  PROVE  /\ g[1 .. 0] = base
         /\ \A i \in 0 .. n : g[1 .. i] \in X
         /\ \A i \in 1 .. n : g[1 .. i] = Op[<<g[1 .. i - 1], i>>]
<1>1. 1 .. 0 = {} /\ {} \in SUBSET (1 .. n)
  OBVIOUS
<1>2. g[1 .. 0] = base
  BY <1>1 DEF FoldEquation
<1>3. \A i \in 0 .. n : 1 .. i \in SUBSET (1 .. n)
  OBVIOUS
<1>4. \A i \in 0 .. n : g[1 .. i] \in X
  BY <1>3 DEF FoldEquation
<1>5. ASSUME NEW i \in 1 .. n PROVE g[1 .. i] = Op[<<g[1 .. i - 1], i>>]
  <2>1. 1 .. i # {} /\ i \in Nat \ {0} /\ i \in 0 .. n
    OBVIOUS
  <2>2. Max(1 .. i) = i /\ (1 .. i) \ {i} = 1 .. i - 1
    BY <2>1, MaxOfPrefix
  <2>3. 1 .. i \in SUBSET (1 .. n)
    BY <2>1, <1>3
  <2>4. QED
    BY <2>1, <2>2, <2>3 DEF FoldEquation
<1>6. QED
  BY <1>2, <1>4, <1>5

-----------------------------------------------------------------------------
(***************************************************************************)
(* Sorted lists under the operations of the code.                          *)
(***************************************************************************)

\* The scan finds the place of a number, or the number itself, in a sorted list.
LEMMA SortedInsertFacts ==
  ASSUME NEW list \in SortedLists, NEW seq \in Nat,
         NEW l \in Nat, NEW r \in Nat, l < r
  PROVE  /\ SortedInsert(list, seq, l, r) \in SortedLists
         /\ Range(SortedInsert(list, seq, l, r)) = Range(list) \cup {seq}
<1> DEFINE stops == { i \in DOMAIN list : list[i] = seq \/ StopsBefore(seq, list[i], l, r) }
           at == Min(stops \cup {Len(list) + 1})
           new == InsertAt(list, at, seq)
<1> list \in Seq(Nat) /\ Sorted(list)
  BY DEF SortedLists
<1>1. Len(list) \in Nat /\ DOMAIN list = 1 .. Len(list)
  OBVIOUS
<1>2. \A i \in 1 .. Len(list) : list[i] \in Nat
  OBVIOUS
<1>3. stops = { i \in 1 .. Len(list) : seq <= list[i] }
  BY <1>1, <1>2 DEF StopsBefore
<1>4. SortedInsert(list, seq, l, r)
        = IF at \in DOMAIN list /\ list[at] = seq THEN list ELSE InsertAt(list, at, seq)
  BY DEF SortedInsert
<1> HIDE DEF stops
<1>5. stops \cup {Len(list) + 1} \subseteq Nat /\ stops \cup {Len(list) + 1} # {}
  BY <1>1, <1>3
<1>6. at \in stops \cup {Len(list) + 1} /\ \A i \in stops \cup {Len(list) + 1} : at <= i
  BY <1>5, MinFacts
<1> HIDE DEF at
<1>7. at \in 1 .. Len(list) + 1
  BY <1>1, <1>3, <1>6
<1>8. \A i \in 1 .. Len(list) : i < at => list[i] < seq
  BY <1>1, <1>2, <1>3, <1>6, <1>7
<1>9. at \in 1 .. Len(list) => seq <= list[at]
  BY <1>1, <1>3, <1>6
<1>10. CASE at \in DOMAIN list /\ list[at] = seq
  <2>1. Range(list) = Range(list) \cup {seq}
    BY <1>10 DEF Range
  <2>2. QED
    BY <1>4, <1>10, <2>1
<1>11. CASE ~ (at \in DOMAIN list /\ list[at] = seq)
  <2>1. SortedInsert(list, seq, l, r) = new
    BY <1>4, <1>11
  <2>2. /\ new \in Seq(Nat) /\ Len(new) = Len(list) + 1
        /\ \A i \in 1 .. at - 1 : new[i] = list[i]
        /\ new[at] = seq
        /\ \A i \in at + 1 .. Len(list) + 1 : new[i] = list[i - 1]
    <3>1. PICK S : S = Nat
      OBVIOUS
    <3>2. list \in Seq(S) /\ seq \in S
      BY <3>1
    <3> HIDE DEF new
    <3>3. /\ new \in Seq(S) /\ Len(new) = Len(list) + 1
          /\ \A i \in 1 .. at - 1 : new[i] = list[i]
          /\ new[at] = seq
          /\ \A i \in at + 1 .. Len(list) + 1 : new[i] = list[i - 1]
      BY <3>2, <1>7, InsertAtFacts DEF new
    <3>4. QED
      BY <3>1, <3>3
  <2> HIDE DEF new
  <2>3. DOMAIN new = 1 .. Len(list) + 1
    BY <2>2
  <2>4. \A i \in 1 .. Len(list) : i >= at => seq < list[i]
    <3>1. at \in 1 .. Len(list) => seq < list[at]
      BY <1>1, <1>2, <1>9, <1>11
    <3>2. \A i \in 1 .. Len(list) : i > at => at \in 1 .. Len(list) /\ list[at] < list[i]
      BY <1>1, <1>7 DEF Sorted
    <3>3. QED
      BY <1>1, <1>2, <1>7, <3>1, <3>2
  <2>5. Sorted(new)
    <3> SUFFICES ASSUME NEW i \in 1 .. Len(list) + 1, NEW j \in 1 .. Len(list) + 1, i < j
                 PROVE  new[i] < new[j]
      BY <2>3 DEF Sorted
    <3>1. CASE j < at
      <4>1. i \in DOMAIN list /\ j \in DOMAIN list /\ i < at
        BY <3>1, <1>1, <1>7
      <4>2. QED
        <5>1. new[i] = list[i] /\ new[j] = list[j]
          BY <3>1, <4>1, <1>7, <2>2
        <5>2. QED
          BY <4>1, <5>1 DEF Sorted
    <3>2. CASE j = at
      <4>1. i \in 1 .. Len(list) /\ i < at
        BY <3>2, <1>1, <1>7
      <4>2. QED
        <5>1. new[i] = list[i] /\ new[j] = seq
          BY <3>2, <4>1, <1>7, <2>2
        <5>2. QED
          BY <4>1, <5>1, <1>8
    <3>3. CASE j > at
      <4>1. j - 1 \in 1 .. Len(list) /\ j - 1 >= at /\ new[j] = list[j - 1]
        BY <3>3, <1>1, <1>7, <2>2
      <4>2. CASE i < at
        <5>1. i \in 1 .. Len(list) /\ new[i] = list[i] /\ i < j - 1
          BY <4>2, <4>1, <1>1, <1>7, <2>2
        <5>2. QED
          BY <5>1, <4>1, <1>1 DEF Sorted
      <4>3. CASE i = at
        BY <4>3, <4>1, <2>2, <2>4
      <4>4. CASE i > at
        <5>1. i - 1 \in 1 .. Len(list) /\ new[i] = list[i - 1] /\ i - 1 < j - 1
          BY <4>4, <4>1, <1>1, <1>7, <2>2
        <5>2. QED
          BY <5>1, <4>1, <1>1 DEF Sorted
      <4>5. QED
        BY <1>7, <4>2, <4>3, <4>4
    <3>4. QED
      BY <1>7, <3>1, <3>2, <3>3
  <2>6. Range(new) = Range(list) \cup {seq}
    <3>1. \A i \in DOMAIN new : new[i] \in Range(list) \cup {seq}
      <4> SUFFICES ASSUME NEW i \in 1 .. Len(list) + 1 PROVE new[i] \in Range(list) \cup {seq}
        BY <2>3
      <4>1. CASE i < at
        <5>1. i \in DOMAIN list /\ new[i] = list[i]
          BY <4>1, <1>1, <1>7, <2>2
        <5>2. QED
          BY <5>1 DEF Range
      <4>2. CASE i = at
        BY <4>2, <2>2
      <4>3. CASE i > at
        <5>1. i - 1 \in DOMAIN list /\ new[i] = list[i - 1]
          BY <4>3, <1>1, <1>7, <2>2
        <5>2. QED
          BY <5>1 DEF Range
      <4>4. QED
        BY <1>7, <4>1, <4>2, <4>3
    <3>2. ASSUME NEW i \in DOMAIN list PROVE \E j \in DOMAIN new : new[j] = list[i]
      <4>1. CASE i < at
        <5>1. i \in DOMAIN new /\ new[i] = list[i]
          BY <4>1, <1>1, <1>7, <2>2, <2>3
        <5>2. QED
          BY <5>1
      <4>2. CASE i >= at
        <5>1. i + 1 \in 1 .. Len(list) + 1 /\ i + 1 > at /\ (i + 1) - 1 = i
          BY <4>2, <1>1, <1>7
        <5>2. new[i + 1] = list[(i + 1) - 1]
          BY <5>1, <1>7, <2>2
        <5>3. QED
          BY <5>1, <5>2, <2>3
      <4>3. QED
        BY <1>1, <1>7, <4>1, <4>2
    <3>3. at \in DOMAIN new /\ new[at] = seq
      BY <1>7, <2>2, <2>3
    <3>4. QED
      BY <3>1, <3>2, <3>3 DEF Range
  <2>7. QED
    BY <2>1, <2>2, <2>5, <2>6 DEF SortedLists
<1>12. QED
  BY <1>10, <1>11

\* RemoveFirst takes a number off a sorted list, and nothing else.
LEMMA RemoveFirstFacts ==
  ASSUME NEW list \in SortedLists, NEW seq \in Nat
  PROVE  /\ RemoveFirst(list, seq) \in SortedLists
         /\ Range(RemoveFirst(list, seq)) = Range(list) \ {seq}
<1> DEFINE I == { i \in 1 .. Len(list) : list[i] = seq }
           at == Min(I)
           new == RemoveAt(list, at)
<1> list \in Seq(Nat) /\ Sorted(list)
  BY DEF SortedLists
<1>1. Len(list) \in Nat /\ DOMAIN list = 1 .. Len(list)
  OBVIOUS
<1>2. \A i \in 1 .. Len(list) : list[i] \in Nat
  OBVIOUS
<1>3. CASE I = {}
  <2>1. RemoveFirst(list, seq) = list
    BY <1>3 DEF RemoveFirst
  <2>2. seq \notin Range(list)
    BY <1>1, <1>3 DEF Range
  <2>3. QED
    BY <2>1, <2>2
<1>4. CASE I # {}
  <2>1. RemoveFirst(list, seq) = new
    BY <1>4 DEF RemoveFirst, SelectInSeq
  <2>2. at \in I
    <3>1. I \subseteq Nat
      BY <1>1
    <3> HIDE DEF I
    <3>2. QED
      BY <3>1, <1>4, MinFacts
  <2>3. at \in 1 .. Len(list) /\ list[at] = seq
    BY <2>2
  <2> HIDE DEF at
  <2>4. /\ new \in Seq(Nat) /\ Len(new) = Len(list) - 1
        /\ \A i \in 1 .. Len(list) - 1 : new[i] = IF i < at THEN list[i] ELSE list[i + 1]
    BY <2>3, RemoveAtFacts
  <2> HIDE DEF new
  <2>5. DOMAIN new = 1 .. Len(list) - 1
    BY <1>1, <2>4
  <2>6. Sorted(new)
    <3> SUFFICES ASSUME NEW i \in 1 .. Len(list) - 1, NEW j \in 1 .. Len(list) - 1, i < j
                 PROVE  new[i] < new[j]
      BY <2>5 DEF Sorted
    <3> DEFINE p(k) == IF k < at THEN k ELSE k + 1
    <3>1. p(i) \in DOMAIN list /\ p(j) \in DOMAIN list /\ p(i) < p(j)
      BY <1>1, <2>3
    <3>2. new[i] = list[p(i)] /\ new[j] = list[p(j)]
      BY <1>1, <2>3, <2>4
    <3> HIDE DEF p
    <3>3. QED
      BY <3>1, <3>2 DEF Sorted
  <2>7. Range(new) = Range(list) \ {seq}
    <3>1. ASSUME NEW i \in 1 .. Len(list) - 1 PROVE new[i] \in Range(list) \ {seq}
      <4> DEFINE k == IF i < at THEN i ELSE i + 1
      <4>1. k \in 1 .. Len(list) /\ k # at
        BY <1>1, <2>3
      <4>2. new[i] = list[k]
        BY <2>3, <2>4
      <4> HIDE DEF k
      <4>3. list[k] # list[at]
        <5>1. k \in DOMAIN list /\ at \in DOMAIN list /\ (k < at \/ at < k)
          BY <4>1, <2>3, <1>1
        <5>2. list[k] < list[at] \/ list[at] < list[k]
          BY <5>1 DEF Sorted
        <5>3. QED
          BY <4>1, <2>3, <1>2, <5>2
      <4>4. QED
        BY <1>1, <2>3, <4>1, <4>2, <4>3 DEF Range
    <3>2. ASSUME NEW i \in 1 .. Len(list), list[i] # seq
          PROVE  \E j \in DOMAIN new : new[j] = list[i]
      <4>1. CASE i < at
        <5>1. i \in DOMAIN new /\ new[i] = list[i]
          BY <4>1, <1>1, <2>3, <2>4, <2>5
        <5>2. QED
          BY <5>1
      <4>2. CASE i > at
        <5>1. i - 1 \in 1 .. Len(list) - 1 /\ ~ (i - 1 < at) /\ (i - 1) + 1 = i
          BY <4>2, <1>1, <2>3
        <5>2. new[i - 1] = list[(i - 1) + 1]
          BY <5>1, <2>4
        <5>3. QED
          BY <5>1, <5>2, <2>5
      <4>3. i # at
        BY <3>2, <2>3
      <4>4. QED
        BY <2>3, <4>1, <4>2, <4>3
    <3>3. QED
      BY <1>1, <2>5, <3>1, <3>2 DEF Range
  <2>8. QED
    BY <2>1, <2>4, <2>6, <2>7 DEF SortedLists
<1>5. QED
  BY <1>3, <1>4

\* A loop over SortedInsert adds the numbers of its range to a sorted list.
LEMMA InsertRangeFacts ==
  ASSUME NEW list \in SortedLists, NEW from \in Nat, NEW to \in Nat,
         from <= to, to <= MaxSeq, NEW l \in Nat, NEW r \in Nat, l < r
  PROVE  /\ InsertRange(list, from, to, l, r) \in SortedLists
         /\ Range(InsertRange(list, from, to, l, r)) = Range(list) \cup from .. to - 1
<1> DEFINE n == to - from
           loop == LoopOver(from, to)
           Op == [p \in SortedLists \X (1 .. n) |-> SortedInsert(p[1], loop[p[2]], l, r)]
           Eq(g) == g = [s \in SUBSET (1 .. n) |->
                           IF s = {} THEN list
                           ELSE SortedInsert(g[s \ {Max(s)}], loop[Max(s)], l, r)]
           it == CHOOSE g : Eq(g)
<1>1. n \in Nat
  OBVIOUS
<1>2. Cardinality(SeqRange(from, to)) = n
  <2>1. SeqRange(from, to) = from .. to - 1
    BY DEF SeqRange
  <2>2. from \in Int /\ to - 1 \in Int
    OBVIOUS
  <2>3. Cardinality(from .. to - 1) = IF from > to - 1 THEN 0 ELSE (to - 1) - from + 1
    BY <2>2, FS_Interval
  <2>4. QED
    BY <2>1, <2>3
<1>3. DOMAIN loop = 1 .. n /\ \A i \in 1 .. n : loop[i] = from + i - 1 /\ loop[i] \in Nat
  <2>1. ASSUME NEW i \in 1 .. n PROVE IncreaseSeqNumberBy(from, i - 1) = from + i - 1
    BY SeqAssumption DEF IncreaseSeqNumberBy
  <2>2. QED
    BY <1>2, <2>1 DEF LoopOver
<1> HIDE DEF loop
<1>4. InsertRange(list, from, to, l, r) = it[1 .. n]
  <2>1. InsertRange(list, from, to, l, r)
          = FoldLeft(LAMBDA x, s : SortedInsert(x, s, l, r), list, loop)
    BY DEF InsertRange, loop
  <2>2. FoldLeft(LAMBDA x, s : SortedInsert(x, s, l, r), list, loop) = it[1 .. n]
    BY <1>3 DEF FoldLeft, MapThenFoldSet
  <2>3. QED
    BY <2>1, <2>2
<1> HIDE DEF n
<1>5. \A x \in SortedLists, i \in 1 .. n :
        /\ SortedInsert(x, loop[i], l, r) \in SortedLists
        /\ Range(SortedInsert(x, loop[i], l, r)) = Range(x) \cup {loop[i]}
  <2> HIDE DEF Op, it, Eq
  <2>1. \A i \in 1 .. n : loop[i] \in Nat
    BY <1>3
  <2>2. QED
    BY <2>1, SortedInsertFacts
<1>6. list \in SortedLists
  OBVIOUS
<1>7. Op \in [SortedLists \X (1 .. n) -> SortedLists]
  BY <1>5
<1>8. \A x \in SortedLists, i \in 1 .. n : Op[<<x, i>>] = SortedInsert(x, loop[i], l, r)
  OBVIOUS
<1> HIDE DEF Op
<1>9. PICK g : FoldEquation(g, SortedLists, list, n, Op)
  BY <1>1, <1>6, <1>7, FoldExists
<1>10. Eq(g)
  <2>1. ASSUME NEW s \in SUBSET (1 .. n)
        PROVE  g[s] = IF s = {} THEN list
                      ELSE SortedInsert(g[s \ {Max(s)}], loop[Max(s)], l, r)
    <3>1. CASE s = {}
      BY <3>1, <1>9 DEF FoldEquation
    <3>2. CASE s # {}
      <4>1. Max(s) \in 1 .. n /\ s \ {Max(s)} \in SUBSET (1 .. n)
        BY <3>2, <1>1, MaxOfIndices
      <4>2. g[s \ {Max(s)}] \in SortedLists
        BY <4>1, <1>9 DEF FoldEquation
      <4>3. g[s] = Op[<<g[s \ {Max(s)}], Max(s)>>]
        BY <3>2, <1>9 DEF FoldEquation
      <4>4. QED
        BY <3>2, <4>1, <4>2, <4>3, <1>8
    <3>3. QED
      BY <3>1, <3>2
  <2>2. g = [s \in SUBSET (1 .. n) |-> g[s]]
    BY <1>9 DEF FoldEquation
  <2>3. QED
    BY <2>1, <2>2
<1>11. Eq(it)
  BY <1>10
<1> HIDE DEF it
<1>12. it[1 .. 0] = list
  <2>1. 1 .. 0 = {} /\ 1 .. 0 \in SUBSET (1 .. n)
    OBVIOUS
  <2>2. QED
    BY <2>1, <1>11
<1>13. ASSUME NEW i \in 1 .. n
       PROVE  it[1 .. i] = SortedInsert(it[1 .. i - 1], loop[i], l, r)
  <2>1. i \in Nat \ {0} /\ 1 .. i # {}
    <3>1. i \in Nat \ {0} /\ i \in 1 .. i
      BY <1>1
    <3>2. QED
      BY <3>1
  <2>4. 1 .. i \in SUBSET (1 .. n)
    BY <1>1
  <2>2. Max(1 .. i) = i /\ (1 .. i) \ {i} = 1 .. i - 1
    BY <2>1, MaxOfPrefix
  <2>3. QED
    BY <2>1, <2>2, <2>4, <1>11
<1> DEFINE S == { i \in 0 .. n : it[1 .. i] \in SortedLists /\
                                 Range(it[1 .. i]) = Range(list) \cup from .. from + i - 1 }
<1>14. 0 \in S
  BY <1>1, <1>6, <1>12
<1>15. ASSUME NEW m \in 0 .. n - 1, m \in S PROVE m + 1 \in S
  <2>1. m + 1 \in 1 .. n /\ m + 1 \in 0 .. n /\ (m + 1) - 1 = m
    BY <1>1
  <2>2. it[1 .. m + 1] = SortedInsert(it[1 .. m], loop[m + 1], l, r)
    BY <2>1, <1>13
  <2>3. it[1 .. m + 1] \in SortedLists /\ Range(it[1 .. m + 1]) = Range(it[1 .. m]) \cup {loop[m + 1]}
    BY <1>15, <2>1, <2>2, <1>5
  <2>4. loop[m + 1] = from + m
    BY <2>1, <1>3
  <2>5. (from .. from + m - 1) \cup {from + m} = from .. from + (m + 1) - 1
    OBVIOUS
  <2>6. QED
    BY <1>15, <2>1, <2>3, <2>4, <2>5
<1> HIDE DEF S
<1>16. n \in S
  <2>1. \A m \in 0 .. n - 1 : m \in S => m + 1 \in S
    BY <1>15
  <2>2. 0 .. n \subseteq S
    BY <1>1, <1>14, <2>1, Induction
  <2>3. QED
    BY <1>1, <2>2
<1>17. from + n - 1 = to - 1
  BY DEF n
<1>18. QED
  BY <1>4, <1>16, <1>17 DEF S
-----------------------------------------------------------------------------
(***************************************************************************)
(* The invariant.  The window's list holds numbers beyond the one that     *)
(* continues the left edge, in order, so that the scan from its front      *)
(* drains exactly the run behind a packet.                                 *)
(***************************************************************************)

LastSeq == InitSeq + Packets

EdgesInv ==
  /\ left \in InitSeq .. LastSeq
  /\ lrsn \in InitSeq .. LastSeq

ListsInv ==
  /\ packetList \in SortedLists
  /\ \A p \in Range(packetList) : p \in left + 2 .. LastSeq
  /\ lossList \in SortedLists
  /\ \A p \in Range(lossList) : p <= LastSeq

ListInv == EdgesInv /\ ListsInv /\ CallbacksOnceInOrder

\* Below MaxSeq the numbers of the connection do not wrap.
LEMMA PlainNumbers ==
  ASSUME Sets!NoWrap
  PROVE  /\ InitSeq \in Nat /\ LastSeq \in Nat /\ InitSeq <= LastSeq
         /\ MaxSeq \in Nat /\ LastSeq < MaxSeq
         /\ Sets!PeerSeqs = InitSeq + 1 .. LastSeq
         /\ \A n \in InitSeq .. LastSeq :
              /\ IncreaseSeqNumber(n) = n + 1 /\ Sets!IncreaseSeqNumber(n) = n + 1
              /\ RightOf(n) = n + WindowSize /\ n < RightOf(n) /\ RightOf(n) \in Nat
<1>1. /\ InitSeq \in Nat /\ Packets \in Nat \ {0} /\ WindowSize \in Nat \ {0} /\ MaxSeq \in Nat
      /\ InitSeq + Packets + WindowSize <= MaxSeq
  BY SeqAssumption, ListAssumption DEF SeqNumbers, Sets!NoWrap
<1>2. LastSeq = InitSeq + Packets
  BY DEF LastSeq
<1>3. ASSUME NEW n \in InitSeq .. LastSeq
      PROVE  /\ IncreaseSeqNumber(n) = n + 1 /\ Sets!IncreaseSeqNumber(n) = n + 1
             /\ RightOf(n) = n + WindowSize /\ n < RightOf(n) /\ RightOf(n) \in Nat
  <2>1. n \in Nat /\ n + WindowSize <= MaxSeq
    BY <1>1, <1>2
  <2>2. RightOf(n) = n + WindowSize
    BY <1>1, <2>1 DEF RightOf, Sets!RightOf, Sets!IncreaseSeqNumberBy
  <2>3. QED
    BY <1>1, <2>1, <2>2 DEF IncreaseSeqNumber, Sets!IncreaseSeqNumber
<1>4. Sets!PeerSeqs = InitSeq + 1 .. LastSeq
  <2>1. \A k \in 1 .. Packets : Sets!IncreaseSeqNumberBy(InitSeq, k) = InitSeq + k
    BY <1>1 DEF Sets!IncreaseSeqNumberBy
  <2>2. Sets!PeerSeqs = { InitSeq + k : k \in 1 .. Packets }
    BY <2>1 DEF Sets!PeerSeqs
  <2>3. \A s \in InitSeq + 1 .. LastSeq : s - InitSeq \in 1 .. Packets /\ s = InitSeq + (s - InitSeq)
    BY <1>1, <1>2
  <2>4. \A k \in 1 .. Packets : InitSeq + k \in InitSeq + 1 .. LastSeq
    BY <1>1, <1>2
  <2>5. QED
    BY <2>2, <2>3, <2>4
<1>5. QED
  BY <1>1, <1>2, <1>3, <1>4

\* The scan of the window's list stops exactly at the first gap behind seq.
LEMMA DrainedFacts ==
  ASSUME Sets!NoWrap, ListInv, NEW seq \in Sets!PeerSeqs, seq = left + 1
  PROVE  /\ Drained(seq) \in 0 .. Len(packetList)
         /\ \A i \in 1 .. Drained(seq) : packetList[i] = seq + i
         /\ \A i \in Drained(seq) + 1 .. Len(packetList) : packetList[i] > seq + Drained(seq) + 1
<1> DEFINE len == Len(packetList)
           run == <<seq>> \o packetList
           D == { n \in 0 .. len : \A i \in 1 .. n : ContinuousSeqNumber(run[i], run[i + 1]) }
           n == Max(D)
<1>1. packetList \in Seq(Nat) /\ Sorted(packetList) /\ len \in Nat /\ DOMAIN packetList = 1 .. len
  BY DEF ListInv, ListsInv, SortedLists
<1>2. left \in Nat /\ seq \in Nat /\ LastSeq \in Nat
  BY PlainNumbers DEF ListInv, EdgesInv
<1>3. \A i \in 1 .. len : packetList[i] \in Nat /\ packetList[i] >= seq + 1
  <2>1. \A i \in 1 .. len : packetList[i] \in Range(packetList)
    BY <1>1 DEF Range
  <2>2. \A p \in Range(packetList) : p \in left + 2 .. LastSeq
    BY DEF ListInv, ListsInv
  <2>3. QED
    BY <2>1, <2>2, <1>2
<1>4. run[1] = seq /\ \A i \in 1 .. len : run[i + 1] = packetList[i]
  <2>1. <<seq>> \in Seq(Nat) /\ Len(<<seq>>) = 1 /\ <<seq>>[1] = seq
    BY <1>2
  <2>2. \A i \in 1 .. 1 + len : run[i] = IF i <= 1 THEN <<seq>>[i] ELSE packetList[i - 1]
    BY <1>1, <2>1, ConcatProperties
  <2>3. run[1] = seq
    BY <1>1, <2>1, <2>2
  <2>4. \A i \in 1 .. len : i + 1 \in 1 .. 1 + len /\ ~ (i + 1 <= 1) /\ (i + 1) - 1 = i
    BY <1>1
  <2>5. QED
    BY <2>2, <2>3, <2>4
<1>5. Drained(seq) = n
  BY DEF Drained
<1> HIDE DEF run
<1>6. D \subseteq Nat /\ 0 \in D /\ \A m \in D : m <= len
  BY <1>1
<1>7. n \in D /\ \A m \in D : m <= n
  <2> HIDE DEF D
  <2>1. QED
    BY <1>1, <1>6, MaxFacts
<1> HIDE DEF n
<1>8. n \in 0 .. len /\ \A i \in 1 .. n : ContinuousSeqNumber(run[i], run[i + 1])
  BY <1>7
<1>9. \A i \in 1 .. n : run[i] \in Nat /\ run[i + 1] = run[i] + 1
  <2> SUFFICES ASSUME NEW i \in 1 .. n PROVE run[i] \in Nat /\ run[i + 1] = run[i] + 1
    OBVIOUS
  <2>1. i \in 1 .. len
    BY <1>1, <1>8
  <2>2. run[i + 1] # 0
    BY <2>1, <1>2, <1>3, <1>4
  <2>3. run[i + 1] = run[i] + 1
    BY <2>2, <1>8 DEF ContinuousSeqNumber
  <2>4. run[i] \in Nat
    <3>1. CASE i = 1
      BY <3>1, <1>2, <1>4
    <3>2. CASE i # 1
      <4>1. i - 1 \in 1 .. len /\ (i - 1) + 1 = i
        BY <2>1, <3>2, <1>1
      <4>2. run[(i - 1) + 1] = packetList[i - 1]
        BY <4>1, <1>4
      <4>3. QED
        BY <4>1, <4>2, <1>3
    <3>3. QED
      BY <3>1, <3>2
  <2>5. QED
    BY <2>3, <2>4
<1> DEFINE S == { i \in 0 .. n : run[i + 1] = seq + i }
<1>10. 0 .. n \subseteq S
  <2>1. 0 \in S
    BY <1>2, <1>4, <1>8
  <2>2. ASSUME NEW m \in 0 .. n - 1, m \in S PROVE m + 1 \in S
    <3>1. m + 1 \in 1 .. n /\ m + 1 \in 0 .. n /\ m \in Nat
      BY <1>8
    <3>2. run[(m + 1) + 1] = run[m + 1] + 1 /\ run[m + 1] = seq + m
      BY <2>2, <3>1, <1>9
    <3>3. run[(m + 1) + 1] = seq + (m + 1)
      BY <1>2, <3>1, <3>2
    <3>4. QED
      BY <3>1, <3>3
  <2>3. n \in Nat
    BY <1>8
  <2> HIDE DEF S
  <2>4. \A m \in 0 .. n - 1 : m \in S => m + 1 \in S
    BY <2>2
  <2>5. QED
    BY <2>1, <2>3, <2>4, Induction
<1>11. \A i \in 0 .. n : run[i + 1] = seq + i
  BY <1>10
<1>12. \A i \in 1 .. n : packetList[i] = seq + i
  <2>1. \A i \in 1 .. n : i \in 1 .. len /\ i \in 0 .. n
    BY <1>1, <1>8
  <2>2. QED
    BY <2>1, <1>4, <1>11
<1>13. ASSUME n < len PROVE packetList[n + 1] > seq + n + 1
  <2>1. n + 1 \in 1 .. len /\ n + 1 \in 0 .. len /\ n \in 0 .. n /\ n \in Nat
    BY <1>1, <1>8, <1>13
  <2>2. run[n + 1] = seq + n /\ run[(n + 1) + 1] = packetList[n + 1]
    BY <2>1, <1>4, <1>11
  <2>3. packetList[n + 1] # seq + n + 1
    <3> SUFFICES ASSUME packetList[n + 1] = seq + n + 1 PROVE FALSE
      OBVIOUS
    <3>1. ContinuousSeqNumber(run[n + 1], run[(n + 1) + 1])
      BY <2>1, <2>2, <1>2 DEF ContinuousSeqNumber
    <3>2. \A i \in 1 .. n + 1 : i \in 1 .. n \/ i = n + 1
      BY <2>1
    <3>3. n + 1 \in D
      BY <2>1, <3>1, <3>2, <1>8
    <3>4. QED
      BY <3>3, <2>1, <1>7
  <2>4. packetList[n + 1] >= seq + n + 1
    <3>1. CASE n = 0
      BY <3>1, <2>1, <1>2, <1>3
    <3>2. CASE n # 0
      <4>1. n \in 1 .. n /\ n \in DOMAIN packetList /\ n + 1 \in DOMAIN packetList /\ n < n + 1
        BY <3>2, <2>1, <1>1
      <4>2. packetList[n] = seq + n
        BY <4>1, <1>12
      <4>3. packetList[n] < packetList[n + 1]
        BY <4>1, <1>1 DEF Sorted
      <4>4. QED
        BY <2>1, <4>2, <4>3, <1>2, <1>3
    <3>3. QED
      BY <3>1, <3>2
  <2>5. QED
    <3>1. packetList[n + 1] \in Nat /\ seq \in Nat /\ n \in Nat
      BY <2>1, <1>2, <1>3
    <3>2. QED
      BY <2>3, <2>4, <3>1
<1>14. ASSUME NEW i \in n + 1 .. len PROVE packetList[i] > seq + n + 1
  <2>1. n \in Nat /\ i \in 1 .. len /\ n + 1 \in 1 .. len /\ n < len
    BY <1>1, <1>8
  <2>2. CASE i = n + 1
    BY <2>1, <2>2, <1>13
  <2>3. CASE i > n + 1
    <3>1. packetList[n + 1] < packetList[i]
      BY <2>1, <2>3, <1>1 DEF Sorted
    <3>2. QED
      BY <2>1, <3>1, <1>2, <1>3, <1>13
  <2>4. QED
    BY <2>1, <2>2, <2>3
<1>15. QED
  BY <1>5, <1>8, <1>12, <1>14

\* Bringing the loss list up to date is the set operation of UdtReceiver.
LEMMA LossListFacts ==
  ASSUME Sets!NoWrap, ListInv, NEW seq \in Sets!PeerSeqs, NEW l \in InitSeq .. LastSeq,
         UpdateLoss(seq, l)
  PROVE  /\ lossList' \in SortedLists
         /\ \A p \in Range(lossList') : p <= LastSeq
         /\ lrsn' \in InitSeq .. LastSeq
         /\ Sets!UpdateLoss(seq, l)
<1> DEFINE expected == lrsn + 1
<1>1. /\ InitSeq \in Nat /\ LastSeq \in Nat /\ MaxSeq \in Nat /\ LastSeq < MaxSeq
      /\ seq \in InitSeq + 1 .. LastSeq /\ lrsn \in InitSeq .. LastSeq
      /\ l \in Nat /\ RightOf(l) \in Nat /\ l < RightOf(l)
      /\ IncreaseSeqNumber(lrsn) = expected /\ Sets!IncreaseSeqNumber(lrsn) = expected
  BY PlainNumbers DEF ListInv, EdgesInv
<1>2. lossList \in SortedLists /\ \A p \in Range(lossList) : p <= LastSeq
  BY DEF ListInv, ListsInv
<1>3. Sets!Ahead(seq, expected, l) <=> seq > expected
  <2>1. l < Sets!RightOf(l)
    BY <1>1 DEF RightOf
  <2>2. QED
    BY <2>1 DEF Sets!Ahead
<1>4. expected \in Nat /\ seq \in Nat /\ seq <= MaxSeq
  BY <1>1
<1>5. Sets!NewlyLost(seq, l) = IF seq > expected THEN expected .. seq - 1 ELSE {}
  <2>1. seq > expected => Sets!SeqRange(expected, seq) = expected .. seq - 1
    BY <1>4 DEF Sets!SeqRange
  <2>2. Sets!NewlyLost(seq, l)
          = IF seq # expected /\ seq > expected THEN Sets!SeqRange(expected, seq) ELSE {}
    BY <1>1, <1>3 DEF Sets!NewlyLost
  <2>3. QED
    BY <2>1, <2>2, <1>4
<1>6. UpdateLoss(seq, l) <=>
        IF seq = expected \/ seq > expected
        THEN /\ lossList' = IF seq = expected THEN lossList
                            ELSE InsertRange(lossList, expected, seq, l, RightOf(l))
             /\ lrsn' = seq
        ELSE /\ lossList' = IF seq = lrsn THEN lossList ELSE RemoveFirst(lossList, seq)
             /\ lrsn' = lrsn
  BY <1>1, <1>3 DEF UpdateLoss
<1>7. Sets!UpdateLoss(seq, l) <=>
        IF seq = expected \/ seq > expected
        THEN /\ Range(lossList') = Range(lossList) \cup Sets!NewlyLost(seq, l)
             /\ lrsn' = seq
        ELSE /\ Range(lossList') = IF seq = lrsn THEN Range(lossList) ELSE Range(lossList) \ {seq}
             /\ lrsn' = lrsn
  BY <1>1, <1>3 DEF Sets!UpdateLoss
<1> HIDE DEF expected
<1>8. CASE seq > expected
  <2> DEFINE new == InsertRange(lossList, expected, seq, l, RightOf(l))
  <2>1. /\ new \in SortedLists
        /\ Range(new) = Range(lossList) \cup expected .. seq - 1
    BY <1>1, <1>2, <1>4, <1>8, InsertRangeFacts
  <2>2. lossList' = new /\ lrsn' = seq
    BY <1>4, <1>6, <1>8
  <2> HIDE DEF new
  <2>3. \A p \in expected .. seq - 1 : p <= LastSeq
    BY <1>1, <1>4
  <2>4. \A p \in Range(lossList') : p <= LastSeq
    BY <2>1, <2>2, <2>3, <1>2
  <2>5. Range(lossList') = Range(lossList) \cup Sets!NewlyLost(seq, l)
    BY <2>1, <2>2, <1>5, <1>8
  <2>6. QED
    BY <1>1, <1>7, <1>8, <2>1, <2>2, <2>4, <2>5
<1>9. CASE seq = expected
  <2>1. lossList' = lossList /\ lrsn' = seq
    BY <1>6, <1>9
  <2>2. Sets!NewlyLost(seq, l) = {}
    BY <1>4, <1>5, <1>9
  <2>3. QED
    BY <1>1, <1>2, <1>7, <1>9, <2>1, <2>2
<1>10. CASE seq < expected /\ seq = lrsn
  <2>1. ~ (seq = expected \/ seq > expected)
    BY <1>4, <1>10
  <2>2. lossList' = lossList /\ lrsn' = lrsn
    BY <1>6, <1>10, <2>1
  <2>3. QED
    BY <1>1, <1>2, <1>7, <1>10, <2>1, <2>2
<1>11. CASE seq < expected /\ seq # lrsn
  <2>1. ~ (seq = expected \/ seq > expected)
    BY <1>4, <1>11
  <2> DEFINE new == RemoveFirst(lossList, seq)
  <2>2. new \in SortedLists /\ Range(new) = Range(lossList) \ {seq}
    BY <1>2, <1>4, RemoveFirstFacts
  <2>3. lossList' = new /\ lrsn' = lrsn
    BY <1>6, <1>11, <2>1
  <2> HIDE DEF new
  <2>4. Range(lossList') = Range(lossList) \ {seq}
    BY <2>2, <2>3
  <2>5. QED
    BY <1>1, <1>2, <1>7, <1>11, <2>1, <2>2, <2>3, <2>4
<1>12. QED
  BY <1>4, <1>8, <1>9, <1>10, <1>11
-----------------------------------------------------------------------------
(***************************************************************************)
(* The steps.                                                              *)
(***************************************************************************)

LEMMA InOrderStep ==
  ASSUME Sets!NoWrap, ListInv, NEW seq \in Sets!PeerSeqs, ReceiveInOrder(seq)
  PROVE  ListInv' /\ Sets!ReceiveInOrder(seq)
<1> DEFINE n == Drained(seq)
           len == Len(packetList)
           front == SubSeq(packetList, 1, n)
           rest == SubSeq(packetList, n + 1, len)
           run == <<seq>> \o front
           last == seq + n
<1>1. /\ InitSeq \in Nat /\ LastSeq \in Nat /\ MaxSeq \in Nat /\ LastSeq < MaxSeq
      /\ seq \in InitSeq + 1 .. LastSeq /\ left \in InitSeq .. LastSeq
  BY PlainNumbers DEF ListInv, EdgesInv
<1>2. seq = left + 1 /\ seq \in Nat
  BY <1>1 DEF ReceiveInOrder, ContinuousSeqNumber
<1>3. packetList \in Seq(Nat) /\ Sorted(packetList) /\ len \in Nat /\ DOMAIN packetList = 1 .. len
  BY DEF ListInv, ListsInv, SortedLists
<1>4. \A i \in 1 .. len : packetList[i] \in left + 2 .. LastSeq
  <2>1. \A i \in 1 .. len : packetList[i] \in Range(packetList)
    BY <1>3 DEF Range
  <2>2. QED
    BY <2>1 DEF ListInv, ListsInv
<1>5. /\ n \in 0 .. len /\ n \in Nat
      /\ \A i \in 1 .. n : packetList[i] = seq + i
      /\ \A i \in n + 1 .. len : packetList[i] > seq + n + 1
  BY <1>2, <1>3, DrainedFacts
<1>6. /\ left' = Last(run) /\ packetList' = rest /\ callbacks' = callbacks \o run
      /\ UpdateLoss(seq, Last(run)) /\ largestACK2' = largestACK2 /\ acks' = acks
  BY DEF ReceiveInOrder
<1> HIDE DEF n
<1>7. front \in Seq(Nat) /\ Len(front) = n /\ \A i \in 1 .. n : front[i] = packetList[i]
  <2>1. \A i \in 1 .. n : packetList[i] \in Nat
    BY <1>3, <1>4, <1>5
  <2>2. \A i \in 1 .. n : packetList[1 + i - 1] = packetList[i]
    BY <1>5
  <2>3. /\ front \in Seq(Nat) /\ Len(front) = IF 1 <= n THEN n - 1 + 1 ELSE 0
        /\ \A i \in 1 .. n - 1 + 1 : front[i] = packetList[1 + i - 1]
    BY <2>1, <1>5, SubSeqProperties
  <2> HIDE DEF front
  <2>4. QED
    BY <2>2, <2>3, <1>5
<1>8. rest \in Seq(Nat) /\ Len(rest) = len - n /\ \A i \in 1 .. len - n : rest[i] = packetList[n + i]
  <2>1. \A i \in n + 1 .. len : packetList[i] \in Nat
    BY <1>3, <1>4, <1>5
  <2>2. /\ rest \in Seq(Nat) /\ Len(rest) = IF n + 1 <= len THEN len - (n + 1) + 1 ELSE 0
        /\ \A i \in 1 .. len - (n + 1) + 1 : rest[i] = packetList[(n + 1) + i - 1]
    BY <2>1, <1>3, <1>5, SubSeqProperties
  <2> HIDE DEF rest
  <2>3. \A i \in 1 .. len - n : (n + 1) + i - 1 = n + i /\ i \in 1 .. len - (n + 1) + 1
    BY <1>3, <1>5
  <2>4. Len(rest) = len - n
    <3>1. len \in Nat /\ n \in Nat /\ n <= len
      BY <1>3, <1>5
    <3>2. Len(rest) = IF n + 1 <= len THEN len - (n + 1) + 1 ELSE 0
      BY <2>2
    <3> HIDE DEF len
    <3>3. QED
      BY <3>1, <3>2
  <2>5. \A i \in 1 .. len - n : rest[i] = packetList[n + i]
    <3> SUFFICES ASSUME NEW i \in 1 .. len - n PROVE rest[i] = packetList[n + i]
      OBVIOUS
    <3>1. rest[i] = packetList[(n + 1) + i - 1]
      BY <2>2, <2>3
    <3>2. QED
      BY <3>1, <2>3
  <2>6. QED
    BY <2>2, <2>4, <2>5
<1> HIDE DEF front, rest
<1>9. run \in Seq(Nat) /\ Len(run) = n + 1 /\ \A i \in 1 .. n + 1 : run[i] = seq + i - 1
  <2>1. <<seq>> \in Seq(Nat) /\ Len(<<seq>>) = 1 /\ <<seq>>[1] = seq
    BY <1>2
  <2>2. /\ run \in Seq(Nat) /\ Len(run) = 1 + n
        /\ \A i \in 1 .. 1 + n : run[i] = IF i <= 1 THEN <<seq>>[i] ELSE front[i - 1]
    BY <2>1, <1>7, ConcatProperties
  <2> HIDE DEF run
  <2>3. ASSUME NEW i \in 1 .. n + 1 PROVE run[i] = seq + i - 1
    <3>1. CASE i = 1
      BY <3>1, <2>1, <2>2, <1>2, <1>5
    <3>2. CASE i # 1
      <4>1. i - 1 \in 1 .. n /\ ~ (i <= 1) /\ i \in 1 .. 1 + n
        BY <3>2, <1>5
      <4>2. run[i] = packetList[i - 1]
        BY <4>1, <2>2, <1>7
      <4>3. QED
        BY <4>1, <4>2, <1>2, <1>5
    <3>3. QED
      BY <3>1, <3>2
  <2>4. QED
    BY <2>2, <2>3, <1>5
<1> HIDE DEF run
<1>10. Last(run) = last /\ left' = last
  <2>1. n + 1 \in 1 .. n + 1
    BY <1>5
  <2>2. run[n + 1] = seq + n
    BY <2>1, <1>2, <1>5, <1>9
  <2>3. QED
    BY <2>2, <1>6, <1>9 DEF Last
<1>11. last \in seq .. LastSeq /\ last \in InitSeq .. LastSeq
  <2>1. CASE n = 0
    BY <2>1, <1>1, <1>2
  <2>2. CASE n # 0
    <3>1. n \in 1 .. n /\ n \in 1 .. len
      BY <2>2, <1>3, <1>5
    <3>2. packetList[n] = last /\ packetList[n] <= LastSeq
      BY <3>1, <1>1, <1>4, <1>5
    <3>3. QED
      BY <3>2, <1>1, <1>2, <1>5
  <2>3. QED
    BY <2>1, <2>2
<1>12. rest \in SortedLists
  <2>4. DOMAIN rest = 1 .. len - n
    BY <1>3, <1>5, <1>8
  <2>5. Sorted(rest) => rest \in SortedLists
    BY <1>8 DEF SortedLists
  <2> SUFFICES ASSUME NEW i \in 1 .. len - n, NEW j \in 1 .. len - n, i < j
               PROVE  rest[i] < rest[j]
    BY <2>4, <2>5 DEF Sorted
  <2>1. n + i \in 1 .. len /\ n + j \in 1 .. len /\ n + i < n + j
    BY <1>3, <1>5
  <2>2. packetList[n + i] < packetList[n + j]
    BY <2>1, <1>3 DEF Sorted
  <2>3. QED
    BY <2>2, <1>8
<1>13. \A p \in Range(packetList) : p <= last <=> p \in seq + 1 .. last
  BY <1>1, <1>2, <1>3, <1>4, <1>5 DEF Range
<1>14. seq + 1 .. last \subseteq Range(packetList)
  <2> SUFFICES ASSUME NEW p \in seq + 1 .. last PROVE p \in Range(packetList)
    OBVIOUS
  <2>1. p - seq \in 1 .. n /\ p - seq \in 1 .. len /\ seq + (p - seq) = p
    BY <1>2, <1>3, <1>5
  <2>2. packetList[p - seq] = p
    BY <2>1, <1>5
  <2>3. QED
    BY <2>1, <2>2, <1>3 DEF Range
<1>15. Range(rest) = { p \in Range(packetList) : p > last + 1 }
  <2>1. DOMAIN rest = 1 .. len - n
    BY <1>3, <1>5, <1>8
  <2>2. ASSUME NEW i \in 1 .. len - n PROVE rest[i] \in Range(packetList) /\ rest[i] > last + 1
    <3>1. n + i \in n + 1 .. len /\ n + i \in 1 .. len
      BY <1>3, <1>5
    <3>2. rest[i] = packetList[n + i]
      BY <1>8
    <3>3. QED
      BY <3>1, <3>2, <1>3, <1>5 DEF Range
  <2>3. ASSUME NEW i \in 1 .. len, packetList[i] > last + 1
        PROVE  \E j \in DOMAIN rest : rest[j] = packetList[i]
    <3>1. ~ (i \in 1 .. n)
      <4>1. i \in 1 .. n => packetList[i] = seq + i /\ i <= n
        BY <1>5
      <4>2. QED
        BY <2>3, <4>1, <1>2, <1>5
    <3>2. i - n \in 1 .. len - n /\ n + (i - n) = i
      BY <3>1, <1>3, <1>5
    <3>3. rest[i - n] = packetList[n + (i - n)]
      BY <3>2, <1>8
    <3>4. QED
      BY <3>2, <3>3, <2>1
  <2>4. QED
    BY <2>1, <2>2, <2>3, <1>3 DEF Range
<1>16. \A p \in Range(packetList) : p > last => p > last + 1
  <2>1. \A i \in 1 .. len : packetList[i] > last => ~ (i \in 1 .. n)
    BY <1>2, <1>3, <1>5
  <2>2. \A i \in 1 .. len : packetList[i] > last => i \in n + 1 .. len
    BY <2>1, <1>3, <1>5
  <2>3. QED
    BY <2>2, <1>3, <1>5 DEF Range
<1>17. \A p \in Range(packetList) : p \in left + 2 .. LastSeq /\ p \in Nat
  BY <1>1, <1>3, <1>4 DEF Range
<1>18. Range(rest) = Range(packetList) \ (seq .. last)
  <2>1. ASSUME NEW p \in Range(packetList) PROVE p > last + 1 <=> p \notin seq .. last
    <3>1. p \in Nat /\ seq <= p
      BY <1>2, <1>17, <1>1
    <3>2. last \in Nat
      BY <1>2, <1>5
    <3>3. p > last => p > last + 1
      BY <1>16
    <3> HIDE DEF last
    <3>4. QED
      BY <3>1, <3>2, <3>3, <1>2
  <2>2. QED
    BY <2>1, <1>15
<1> HIDE DEF last
<1>19. \A p \in Range(packetList') : p \in left' + 2 .. LastSeq
  <2>1. \A p \in Range(rest) : p \in Nat /\ p > last + 1 /\ p <= LastSeq
    BY <1>1, <1>15, <1>17
  <2>2. last \in Nat
    BY <1>1, <1>11
  <2>3. QED
    BY <2>1, <2>2, <1>1, <1>6, <1>10
<1>20. /\ lossList' \in SortedLists
       /\ \A p \in Range(lossList') : p <= LastSeq
       /\ lrsn' \in InitSeq .. LastSeq
       /\ Sets!UpdateLoss(seq, last)
  BY <1>6, <1>10, <1>11, LossListFacts
<1>21. callbacks' = [i \in 1 .. left' - InitSeq |-> InitSeq + i]
  <2> DEFINE k == left - InitSeq
             new == [i \in 1 .. last - InitSeq |-> InitSeq + i]
  <2>1. callbacks = [i \in 1 .. k |-> InitSeq + i] /\ k \in Nat
    BY <1>1 DEF ListInv, CallbacksOnceInOrder
  <2>2. callbacks \in Seq(Nat) /\ Len(callbacks) = k /\ \A i \in 1 .. k : callbacks[i] = InitSeq + i
    BY <2>1, <1>1
  <2>3. /\ callbacks' \in Seq(Nat) /\ Len(callbacks') = k + (n + 1)
        /\ \A i \in 1 .. k + (n + 1) : callbacks'[i] = IF i <= k THEN callbacks[i] ELSE run[i - k]
    <3>1. run \in Seq(Nat) /\ callbacks \in Seq(Nat)
      BY <2>2, <1>9
    <3>2. /\ callbacks \o run \in Seq(Nat) /\ Len(callbacks \o run) = Len(callbacks) + Len(run)
          /\ \A i \in 1 .. Len(callbacks) + Len(run) :
               (callbacks \o run)[i] = IF i <= Len(callbacks) THEN callbacks[i]
                                       ELSE run[i - Len(callbacks)]
      BY <3>1, ConcatProperties
    <3>3. Len(callbacks) = k /\ Len(run) = n + 1 /\ callbacks' = callbacks \o run
      BY <2>2, <1>6, <1>9
    <3> HIDE DEF k
    <3>4. QED
      BY <3>2, <3>3
  <2>4. last - InitSeq = k + (n + 1) /\ last - InitSeq \in Nat
    BY <1>1, <1>2, <1>5 DEF last
  <2>5. ASSUME NEW i \in 1 .. k + (n + 1) PROVE callbacks'[i] = InitSeq + i
    <3>1. CASE i <= k
      BY <3>1, <2>1, <2>2, <2>3
    <3>2. CASE i > k
      <4>1. i - k \in 1 .. n + 1 /\ ~ (i <= k)
        BY <3>2, <2>1, <1>5
      <4>2. callbacks'[i] = run[i - k]
        BY <4>1, <2>3
      <4>3. run[i - k] = seq + (i - k) - 1
        BY <4>1, <1>9
      <4>4. seq + (i - k) - 1 = InitSeq + i
        BY <4>1, <1>1, <1>2, <2>1
      <4>5. QED
        BY <4>2, <4>3, <4>4
    <3>3. QED
      BY <3>1, <3>2, <2>1
  <2>6. new \in Seq(Nat) /\ Len(new) = last - InitSeq /\ \A i \in 1 .. last - InitSeq : new[i] = InitSeq + i
    <3>1. PICK l \in Nat : l = last - InitSeq
      BY <2>4
    <3>2. new = [i \in 1 .. l |-> InitSeq + i]
      BY <3>1
    <3> HIDE DEF new
    <3>3. QED
      BY <3>1, <3>2, <1>1
  <2> HIDE DEF new, k
  <2>7. callbacks' = new
    <3>1. Len(callbacks') = Len(new)
      BY <2>3, <2>4, <2>6
    <3>2. \A i \in 1 .. Len(callbacks') : callbacks'[i] = new[i]
      BY <2>3, <2>4, <2>5, <2>6
    <3>3. QED
      BY <2>3, <2>6, <3>1, <3>2, SeqEqual
  <2>8. QED
    BY <2>7, <1>10 DEF new
<1>22. Range(callbacks') = Range(callbacks) \cup {seq} \cup (Range(packetList) \cap (seq .. last))
  <2>1. callbacks = [i \in 1 .. left - InitSeq |-> InitSeq + i]
    BY DEF ListInv, CallbacksOnceInOrder
  <2>2. Range(callbacks) = InitSeq + 1 .. left
    <3>1. \A s \in InitSeq + 1 .. left : s - InitSeq \in 1 .. left - InitSeq /\ InitSeq + (s - InitSeq) = s
      BY <1>1
    <3>2. \A i \in 1 .. left - InitSeq : InitSeq + i \in InitSeq + 1 .. left
      BY <1>1
    <3>3. QED
      BY <2>1, <3>1, <3>2 DEF Range
  <2>3. Range(callbacks') = InitSeq + 1 .. last
    <3>1. \A s \in InitSeq + 1 .. last : s - InitSeq \in 1 .. last - InitSeq /\ InitSeq + (s - InitSeq) = s
      BY <1>1, <1>11
    <3>2. \A i \in 1 .. last - InitSeq : InitSeq + i \in InitSeq + 1 .. last
      BY <1>1, <1>11
    <3>3. callbacks' = [i \in 1 .. last - InitSeq |-> InitSeq + i]
      BY <1>10, <1>21
    <3>4. QED
      BY <3>1, <3>2, <3>3 DEF Range
  <2>4. Range(packetList) \cap (seq .. last) = seq + 1 .. last
    BY <1>1, <1>2, <1>11, <1>13, <1>14, <1>17
  <2>5. InitSeq + 1 .. last = (InitSeq + 1 .. left) \cup {seq} \cup (seq + 1 .. last)
    BY <1>1, <1>2, <1>11
  <2>6. QED
    BY <2>2, <2>3, <2>4, <2>5
<1>23. Sets!ReceiveInOrder(seq)
  <2>1. Sets!ContinuousSeqNumber(left, seq)
    BY <1>2 DEF Sets!ContinuousSeqNumber
  <2>2. \A p \in Range(packetList) : ~ Sets!ContinuousSeqNumber(last, p)
    <3> SUFFICES ASSUME NEW p \in Range(packetList), Sets!ContinuousSeqNumber(last, p)
                 PROVE  FALSE
      OBVIOUS
    <3>1. p # 0 /\ p \in Nat /\ last \in Nat
      BY <1>1, <1>11, <1>17
    <3>2. p = last + 1
      BY <3>1 DEF Sets!ContinuousSeqNumber
    <3>3. QED
      BY <3>1, <3>2, <1>16
  <2>3. Sets!GlidesTo(seq, last)
    BY <2>2, <1>14 DEF Sets!GlidesTo
  <2>4. last \in seq .. MaxSeq
    BY <1>1, <1>2, <1>11
  <2>5. Range(packetList') = Range(packetList) \ (seq .. last)
    BY <1>6, <1>18
  <2>6. QED
    BY <2>1, <2>3, <2>4, <2>5, <1>6, <1>10, <1>20, <1>22 DEF Sets!ReceiveInOrder
<1>24. ListInv'
  <2>1. EdgesInv'
    BY <1>10, <1>11, <1>20 DEF EdgesInv, LastSeq
  <2>2. ListsInv'
    BY <1>6, <1>12, <1>19, <1>20 DEF ListsInv, LastSeq
  <2>3. CallbacksOnceInOrder'
    BY <1>21 DEF CallbacksOnceInOrder
  <2>4. QED
    BY <2>1, <2>2, <2>3 DEF ListInv
<1>25. QED
  BY <1>23, <1>24

LEMMA OutOfOrderStep ==
  ASSUME Sets!NoWrap, ListInv, NEW seq \in Sets!PeerSeqs, ReceiveOutOfOrder(seq)
  PROVE  ListInv' /\ Sets!ReceiveOutOfOrder(seq)
<1> DEFINE new == SortedInsert(packetList, seq, left, RightOf(left))
<1>1. /\ InitSeq \in Nat /\ LastSeq \in Nat /\ seq \in InitSeq + 1 .. LastSeq
      /\ left \in InitSeq .. LastSeq /\ left \in Nat /\ seq \in Nat
      /\ RightOf(left) \in Nat /\ left < RightOf(left)
  BY PlainNumbers DEF ListInv, EdgesInv
<1>2. /\ ~ ContinuousSeqNumber(left, seq) /\ left < seq /\ seq <= RightOf(left)
      /\ packetList' = new /\ UpdateLoss(seq, left)
      /\ left' = left /\ largestACK2' = largestACK2 /\ acks' = acks /\ callbacks' = callbacks
  BY DEF ReceiveOutOfOrder
<1>3. seq \in left + 2 .. LastSeq
  BY <1>1, <1>2 DEF ContinuousSeqNumber
<1>4. packetList \in SortedLists /\ \A p \in Range(packetList) : p \in left + 2 .. LastSeq
  BY DEF ListInv, ListsInv
<1>5. new \in SortedLists /\ Range(new) = Range(packetList) \cup {seq}
  BY <1>1, <1>4, SortedInsertFacts
<1> HIDE DEF new
<1>6. /\ lossList' \in SortedLists
      /\ \A p \in Range(lossList') : p <= LastSeq
      /\ lrsn' \in InitSeq .. LastSeq
      /\ Sets!UpdateLoss(seq, left)
  BY <1>1, <1>2, LossListFacts
<1>7. Sets!ReceiveOutOfOrder(seq)
  <2>1. Sets!InWindow(seq)
    BY <1>2 DEF Sets!InWindow, RightOf
  <2>2. ~ Sets!ContinuousSeqNumber(left, seq)
    BY <1>2 DEF Sets!ContinuousSeqNumber, ContinuousSeqNumber
  <2>3. Range(packetList') = Range(packetList) \cup {seq} /\ Range(callbacks') = Range(callbacks)
    BY <1>2, <1>5
  <2>4. QED
    BY <2>1, <2>2, <2>3, <1>2, <1>6 DEF Sets!ReceiveOutOfOrder
<1>8. ListInv'
  <2>1. EdgesInv'
    BY <1>1, <1>2, <1>6 DEF EdgesInv, LastSeq
  <2>2. ListsInv'
    BY <1>2, <1>3, <1>4, <1>5, <1>6 DEF ListsInv, LastSeq
  <2>3. CallbacksOnceInOrder'
    BY <1>2 DEF ListInv, CallbacksOnceInOrder
  <2>4. QED
    BY <2>1, <2>2, <2>3 DEF ListInv
<1>9. QED
  BY <1>7, <1>8

\* The number an ACK carries is the smallest of the loss list: its first.
LEMMA AckStep ==
  ASSUME Sets!NoWrap, ListInv, AckTask
  PROVE  ListInv' /\ Sets!AckTask
<1>1. /\ Len(acks) < MaxAcks /\ AckNumber # largestACK2 /\ acks' = Append(acks, AckNumber)
      /\ left' = left /\ packetList' = packetList /\ lossList' = lossList /\ lrsn' = lrsn
      /\ largestACK2' = largestACK2 /\ callbacks' = callbacks
  BY DEF AckTask
<1>2. /\ InitSeq \in Nat /\ LastSeq \in Nat /\ MaxSeq \in Nat /\ LastSeq < MaxSeq
      /\ lrsn \in InitSeq .. LastSeq
      /\ IncreaseSeqNumber(lrsn) = lrsn + 1 /\ Sets!IncreaseSeqNumber(lrsn) = lrsn + 1
  BY PlainNumbers DEF ListInv, EdgesInv
<1>3. /\ lossList \in Seq(Nat) /\ Sorted(lossList) /\ DOMAIN lossList = 1 .. Len(lossList)
      /\ Len(lossList) \in Nat
      /\ \A p \in Range(lossList) : p <= LastSeq
  BY DEF ListInv, ListsInv, SortedLists
<1>4. AckNumber \in Sets!SeqNumbers /\ Sets!IsAckNumber(AckNumber)
  <2>1. CASE lossList = <<>>
    <3>1. AckNumber = lrsn + 1
      BY <2>1, <1>2 DEF AckNumber
    <3>2. Range(lossList) = {}
      BY <2>1, <1>3 DEF Range
    <3>3. QED
      BY <3>1, <3>2, <1>2 DEF Sets!IsAckNumber, Sets!SeqNumbers
  <2>2. CASE lossList # <<>>
    <3>1. 1 \in DOMAIN lossList /\ AckNumber = lossList[1]
      BY <2>2, <1>3 DEF AckNumber
    <3>2. \A i \in DOMAIN lossList : lossList[i] \in Nat /\ lossList[1] <= lossList[i]
      <4> SUFFICES ASSUME NEW i \in 1 .. Len(lossList)
                   PROVE  lossList[i] \in Nat /\ lossList[1] <= lossList[i]
        BY <1>3
      <4>1. lossList[i] \in Nat /\ lossList[1] \in Nat
        BY <3>1, <1>3
      <4>2. i # 1 => lossList[1] < lossList[i]
        BY <3>1, <1>3 DEF Sorted
      <4>3. QED
        BY <4>1, <4>2
    <3>3. AckNumber \in Range(lossList) /\ \A t \in Range(lossList) : AckNumber <= t
      BY <3>1, <3>2 DEF Range
    <3>4. AckNumber \in Nat /\ AckNumber <= LastSeq
      BY <3>1, <3>2, <3>3, <1>3
    <3>5. QED
      BY <3>3, <3>4, <1>2 DEF Sets!IsAckNumber, Sets!SeqNumbers
  <2>3. QED
    BY <2>1, <2>2
<1>5. Sets!AckTask
  BY <1>1, <1>4 DEF Sets!AckTask
<1>6. ListInv'
  BY <1>1 DEF ListInv, EdgesInv, ListsInv, CallbacksOnceInOrder, LastSeq
<1>7. QED
  BY <1>5, <1>6

LEMMA Ack2Step ==
  ASSUME ListInv, NEW k \in 1 .. MaxAcks, HandleAck2Packet(k)
  PROVE  ListInv' /\ Sets!HandleAck2Packet(k)
<1>1. Sets!HandleAck2Packet(k)
  BY DEF HandleAck2Packet
<1>2. left' = left /\ packetList' = packetList /\ lossList' = lossList /\ lrsn' = lrsn
      /\ callbacks' = callbacks
  BY DEF HandleAck2Packet, Sets!HandleAck2Packet
<1>3. QED
  BY <1>1, <1>2 DEF ListInv, EdgesInv, ListsInv, CallbacksOnceInOrder, LastSeq

LEMMA InitEstablishesListInv ==
  ASSUME Sets!NoWrap, ListInit
  PROVE  ListInv /\ Sets!RcvInit
<1>1. InitSeq \in Nat /\ LastSeq \in Nat /\ InitSeq <= LastSeq
  BY PlainNumbers
<1>2. <<>> \in SortedLists /\ Range(<<>>) = {}
  BY DEF SortedLists, Sorted, Range
<1>3. callbacks = [i \in 1 .. left - InitSeq |-> InitSeq + i]
  BY <1>1 DEF ListInit
<1>4. QED
  BY <1>1, <1>2, <1>3 DEF ListInit, ListInv, EdgesInv, ListsInv, CallbacksOnceInOrder, Sets!RcvInit

\* Every step of the lists is the step of the sets with the same name.
LEMMA StepImplementsReceiver ==
  ASSUME Sets!NoWrap, ListInv, [ListNext]_listVars
  PROVE  ListInv' /\ [Sets!RcvNext]_(Sets!rcvVars)
<1>1. CASE \E seq \in Sets!PeerSeqs : HandleDataPacket(seq)
  <2>1. PICK seq \in Sets!PeerSeqs : HandleDataPacket(seq)
    BY <1>1
  <2>2. CASE ReceiveInOrder(seq)
    BY <2>2, InOrderStep DEF Sets!RcvNext, Sets!HandleDataPacket
  <2>3. CASE ReceiveOutOfOrder(seq)
    BY <2>3, OutOfOrderStep DEF Sets!RcvNext, Sets!HandleDataPacket
  <2>4. QED
    BY <2>1, <2>2, <2>3 DEF HandleDataPacket
<1>2. CASE AckTask
  BY <1>2, AckStep DEF Sets!RcvNext
<1>3. CASE \E k \in 1 .. MaxAcks : HandleAck2Packet(k)
  BY <1>3, Ack2Step DEF Sets!RcvNext
<1>4. CASE UNCHANGED listVars
  BY <1>4 DEF listVars, Sets!rcvVars, ListInv, EdgesInv, ListsInv, CallbacksOnceInOrder, LastSeq
<1>5. QED
  BY <1>1, <1>2, <1>3, <1>4 DEF ListNext

-----------------------------------------------------------------------------
\* The receiver's part of a datagram socket is the receiver.
LEMMA DatagramIsReceiver == DgramSpec => ListSpec
<1>1. DgramInit => ListInit
  BY DEF DgramInit
<1>2. [DgramNext]_dgramVars => [ListNext]_listVars
  BY DEF DgramNext, dgramVars
<1>3. QED
  BY <1>1, <1>2, PTL DEF DgramSpec, ListSpec

\* However packets arrive, the window's list is sorted and holds only
\* numbers beyond the next one, and the loss list is sorted.
THEOREM ListInvariant == ASSUME Sets!NoWrap PROVE ListSpec => []ListInv
<1>1. ListInit => ListInv
  BY InitEstablishesListInv
<1>2. ListInv /\ [ListNext]_listVars => ListInv'
  BY StepImplementsReceiver
<1>3. QED
  BY <1>1, <1>2, PTL DEF ListSpec

\* ReceiveGlideWindow.cpp:21, UDTSocket.cpp:437: whatever order packets arrive
\* in, and however often, the callback sees each once, in the order they were
\* numbered, although the code delivers from the front of a list it scans.
THEOREM PacketsArriveOnceInOrder == ASSUME Sets!NoWrap PROVE DgramSpec => []CallbacksOnceInOrder
<1>1. ListInv => CallbacksOnceInOrder
  BY DEF ListInv
<1>2. QED
  BY <1>1, DatagramIsReceiver, ListInvariant, PTL

\* The lists of ReceiveGlideWindow.cpp and ReceiveLossList.cpp, scanned element
\* by element, are the sets of UdtReceiver: each step of the code is the step
\* of the abstract receiver.
THEOREM ListsImplementReceiver == ASSUME Sets!NoWrap PROVE DgramSpec => ImplementsReceiver
<1>1. ListInit => Sets!RcvInit
  BY InitEstablishesListInv
<1>2. ListInv /\ [ListNext]_listVars => [Sets!RcvNext]_(Sets!rcvVars)
  BY StepImplementsReceiver
<1>3. QED
  BY <1>1, <1>2, DatagramIsReceiver, ListInvariant, PTL
  DEF ListSpec, ImplementsReceiver, Sets!RcvSpec
-----------------------------------------------------------------------------
(***************************************************************************)
(* The NAK codec, for every list of numbers that are all different.        *)
(***************************************************************************)

Entries == [seq : SeqNumbers, mark : BOOLEAN]

ExpandStates == [begin : -1 .. MaxSeq, numbers : SUBSET SeqNumbers]

NothingExpanded == [begin |-> -1, numbers |-> {}]

ExpandedBy(s) == FoldLeft(ExpandNext, NothingExpanded, s)

LEMMA ExpandNextType ==
  ASSUME NEW e \in ExpandStates, NEW x \in Entries
  PROVE  ExpandNext(e, x) \in ExpandStates
<1>1. /\ MaxSeq \in Nat /\ e.begin \in -1 .. MaxSeq /\ e.numbers \subseteq SeqNumbers
      /\ x.seq \in SeqNumbers /\ x.mark \in BOOLEAN
  BY SeqAssumption DEF ExpandStates, Entries
<1>2. CASE e.begin >= 0
  <2>1. IncreaseSeqNumber(e.begin) \in SeqNumbers
    BY <1>1, <1>2 DEF IncreaseSeqNumber, SeqNumbers
  <2>2. SeqRange(IncreaseSeqNumber(e.begin), x.seq) \subseteq SeqNumbers
    BY <1>1, <2>1 DEF SeqRange, SeqNumbers
  <2>3. QED
    BY <1>1, <1>2, <2>2 DEF ExpandNext, ExpandStates
<1>3. CASE ~ (e.begin >= 0)
  BY <1>1, <1>3 DEF ExpandNext, ExpandStates, SeqNumbers
<1>4. QED
  BY <1>2, <1>3

\* The states that the loop of handleNakPacket goes through.
LEMMA ExpandLoop ==
  ASSUME NEW s \in Seq(Entries)
  PROVE  \E g \in [0 .. Len(s) -> ExpandStates] :
           /\ g[0] = NothingExpanded
           /\ \A i \in 1 .. Len(s) : g[i] = ExpandNext(g[i - 1], s[i])
           /\ ExpandedBy(s) = g[Len(s)]
<1> DEFINE n == Len(s)
           X == ExpandStates
           base == NothingExpanded
           Op == [p \in X \X (1 .. n) |-> ExpandNext(p[1], s[p[2]])]
           Eq(g) == g = [t \in SUBSET (1 .. n) |->
                           IF t = {} THEN base ELSE ExpandNext(g[t \ {Max(t)}], s[Max(t)])]
           it == CHOOSE g : Eq(g)
<1>1. n \in Nat /\ DOMAIN s = 1 .. n
  OBVIOUS
<1>2. base \in X
  BY SeqAssumption DEF NothingExpanded, ExpandStates
<1>3. ExpandedBy(s) = it[1 .. n]
  BY <1>1 DEF ExpandedBy, FoldLeft, MapThenFoldSet
<1> HIDE DEF n, X, base
<1>4. \A x \in X, i \in 1 .. n : ExpandNext(x, s[i]) \in X
  <2>1. \A i \in 1 .. n : s[i] \in Entries
    BY DEF n
  <2>2. QED
    BY <2>1, ExpandNextType DEF X
<1>5. Op \in [X \X (1 .. n) -> X]
  BY <1>4
<1>6. \A x \in X, i \in 1 .. n : Op[<<x, i>>] = ExpandNext(x, s[i])
  OBVIOUS
<1> HIDE DEF Op
<1>7. PICK g : FoldEquation(g, X, base, n, Op)
  BY <1>1, <1>2, <1>5, FoldExists
<1>8. Eq(g)
  <2>1. ASSUME NEW t \in SUBSET (1 .. n)
        PROVE  g[t] = IF t = {} THEN base ELSE ExpandNext(g[t \ {Max(t)}], s[Max(t)])
    <3>1. CASE t = {}
      BY <3>1, <1>7 DEF FoldEquation
    <3>2. CASE t # {}
      <4>1. Max(t) \in 1 .. n /\ t \ {Max(t)} \in SUBSET (1 .. n)
        BY <3>2, <1>1, MaxOfIndices
      <4>2. g[t \ {Max(t)}] \in X
        BY <4>1, <1>7 DEF FoldEquation
      <4>3. g[t] = Op[<<g[t \ {Max(t)}], Max(t)>>]
        BY <3>2, <1>7 DEF FoldEquation
      <4>4. QED
        BY <3>2, <4>1, <4>2, <4>3, <1>6
    <3>3. QED
      BY <3>1, <3>2
  <2>2. g = [t \in SUBSET (1 .. n) |-> g[t]]
    BY <1>7 DEF FoldEquation
  <2>3. QED
    BY <2>1, <2>2
<1>9. Eq(it)
  BY <1>8
<1> HIDE DEF it
<1> DEFINE h == [i \in 0 .. n |-> it[1 .. i]]
<1>10. h[0] = base
  <2>1. 1 .. 0 = {} /\ 1 .. 0 \in SUBSET (1 .. n) /\ 0 \in 0 .. n
    BY <1>1
  <2>2. QED
    BY <2>1, <1>9
<1>11. ASSUME NEW i \in 1 .. n PROVE h[i] = ExpandNext(h[i - 1], s[i])
  <2>1. i \in Nat \ {0} /\ i \in 1 .. i /\ i \in 0 .. n /\ i - 1 \in 0 .. n
    BY <1>1
  <2>2. 1 .. i \in SUBSET (1 .. n)
    BY <1>1
  <2>3. Max(1 .. i) = i /\ (1 .. i) \ {i} = 1 .. i - 1
    BY <2>1, MaxOfPrefix
  <2>4. it[1 .. i] = ExpandNext(it[1 .. i - 1], s[i])
    BY <2>1, <2>2, <2>3, <1>9
  <2>5. QED
    BY <2>1, <2>4
<1> HIDE DEF h
<1>12. \A i \in 0 .. n : h[i] \in X
  <2> DEFINE S == { i \in 0 .. n : h[i] \in X }
  <2>1. 0 \in S
    BY <1>1, <1>2, <1>10
  <2>2. \A m \in 0 .. n - 1 : m \in S => m + 1 \in S
    <3> SUFFICES ASSUME NEW m \in 0 .. n - 1, m \in S PROVE m + 1 \in S
      OBVIOUS
    <3>1. m + 1 \in 1 .. n /\ m + 1 \in 0 .. n /\ (m + 1) - 1 = m /\ h[m] \in X
      BY <1>1
    <3>2. QED
      BY <3>1, <1>4, <1>11
  <2> HIDE DEF S
  <2>3. 0 .. n \subseteq S
    BY <1>1, <2>1, <2>2, Induction
  <2>4. QED
    BY <2>3 DEF S
<1>13. h \in [0 .. n -> X] /\ ExpandedBy(s) = h[n]
  <2>1. n \in 0 .. n
    BY <1>1
  <2>2. QED
    BY <2>1, <1>3, <1>12 DEF h
<1>14. QED
  BY <1>10, <1>11, <1>13 DEF n, X, base

\* The last of the numbers that are still to be reported may be in a run.
CompressStates ==
  { c \in [entries : Seq(Entries), inRun : BOOLEAN, previous : -1 .. MaxSeq] :
      c.previous >= 0 => c.entries # <<>> }

NothingCompressed == [entries |-> <<>>, inRun |-> FALSE, previous |-> -1]

LEMMA MarkLastFacts ==
  ASSUME NEW t \in Seq(Entries), NEW x \in Entries
  PROVE  /\ Append(t, x) \in Seq(Entries) /\ [x EXCEPT !.mark = TRUE] \in Entries
         /\ MarkLast(Append(t, x)) = Append(t, [x EXCEPT !.mark = TRUE])
<1> DEFINE y == [x EXCEPT !.mark = TRUE]
           s == Append(t, x)
           u == Append(t, y)
           n == Len(t) + 1
<1>1. y \in Entries
  BY DEF Entries
<1>2. /\ s \in Seq(Entries) /\ Len(s) = n /\ s[n] = x
      /\ \A i \in 1 .. Len(t) : s[i] = t[i]
  BY AppendProperties
<1> HIDE DEF y
<1>3. /\ u \in Seq(Entries) /\ Len(u) = n /\ u[n] = y
      /\ \A i \in 1 .. Len(t) : u[i] = t[i]
  BY <1>1, AppendProperties
<1> HIDE DEF s, u
<1>4. Len(t) \in Nat
  OBVIOUS
<1> DEFINE m == [s EXCEPT ![n] = y]
<1>5. MarkLast(s) = m
  BY <1>2 DEF MarkLast, y
<1>6. n \in 1 .. Len(s)
  BY <1>2, <1>4
<1>7. /\ m \in Seq(Entries) /\ Len(m) = Len(s)
      /\ \A i \in 1 .. Len(s) : m[i] = IF i = n THEN y ELSE s[i]
  BY <1>1, <1>2, <1>6, ExceptSeq
<1> HIDE DEF m
<1>8. ASSUME NEW i \in 1 .. n PROVE m[i] = u[i]
  <2>1. CASE i = n
    BY <2>1, <1>2, <1>3, <1>6, <1>7
  <2>2. CASE i # n
    <3>1. i \in 1 .. Len(t) /\ i \in 1 .. Len(s)
      BY <2>2, <1>2, <1>4
    <3>2. QED
      BY <2>2, <3>1, <1>2, <1>3, <1>7
  <2>3. QED
    BY <2>1, <2>2
<1>9. m = u
  BY <1>2, <1>3, <1>7, <1>8, SeqEqual
<1>10. QED
  BY <1>1, <1>2, <1>5, <1>9 DEF s, u, y

LEMMA CompressNextType ==
  ASSUME NEW c \in CompressStates, NEW seq \in SeqNumbers
  PROVE  CompressNext(c, seq) \in CompressStates
<1>1. /\ c.entries \in Seq(Entries) /\ c.inRun \in BOOLEAN /\ c.previous \in -1 .. MaxSeq
      /\ c.previous >= 0 => c.entries # <<>>
      /\ MaxSeq \in Nat /\ seq \in -1 .. MaxSeq /\ seq >= 0
  BY SeqAssumption DEF CompressStates, SeqNumbers
<1>2. \A p \in SeqNumbers : Entry(p) \in Entries
  BY DEF Entry, Entries
<1>3. CASE c.previous >= 0 /\ ContinuousSeqNumber(c.previous, seq)
  <2> DEFINE new == IF c.inRun THEN c.entries ELSE MarkLast(c.entries)
  <2>1. new \in Seq(Entries) /\ new # <<>>
    <3>1. PICK t \in Seq(Entries), x \in Entries : c.entries = Append(t, x)
      BY <1>1, <1>3, SequenceEmptyOrAppend
    <3>2. MarkLast(c.entries) = Append(t, [x EXCEPT !.mark = TRUE])
          /\ [x EXCEPT !.mark = TRUE] \in Entries
      BY <3>1, MarkLastFacts
    <3>3. MarkLast(c.entries) \in Seq(Entries) /\ MarkLast(c.entries) # <<>>
      BY <3>2, AppendProperties
    <3>4. QED
      BY <3>3, <1>1, <1>3
  <2>2. CompressNext(c, seq) = [entries |-> new, inRun |-> TRUE, previous |-> seq]
    BY <1>3 DEF CompressNext
  <2> HIDE DEF new
  <2>3. QED
    BY <2>1, <2>2, <1>1 DEF CompressStates
<1>4. CASE ~ (c.previous >= 0 /\ ContinuousSeqNumber(c.previous, seq))
  <2> DEFINE before == IF c.previous >= 0 THEN <<Entry(c.previous)>> ELSE <<>>
             last == <<Entry(seq)>>
             mid == c.entries \o before
             new == mid \o last
  <2>1. before \in Seq(Entries)
    <3>1. c.previous >= 0 => c.previous \in SeqNumbers
      BY <1>1 DEF SeqNumbers
    <3>2. QED
      BY <3>1, <1>2
  <2>2. last \in Seq(Entries) /\ last # <<>>
    BY <1>2
  <2>3. CompressNext(c, seq) = [entries |-> new, inRun |-> FALSE, previous |-> seq]
    BY <1>4 DEF CompressNext
  <2> HIDE DEF before, last
  <2>4. mid \in Seq(Entries)
    BY <2>1, <1>1, ConcatProperties
  <2> HIDE DEF mid
  <2>5. new \in Seq(Entries)
    BY <2>2, <2>4, ConcatProperties
  <2>6. new # <<>>
    BY <2>2, <2>4, ConcatEqualIffEmpty
  <2> HIDE DEF new
  <2>7. QED
    BY <2>3, <2>5, <2>6, <1>1 DEF CompressStates
<1>5. QED
  BY <1>3, <1>4

CompressedBy(s) == FoldLeft(CompressNext, NothingCompressed, s)

\* The states that the loop of sendNakPacket goes through.
LEMMA CompressLoop ==
  ASSUME NEW s \in Seq(SeqNumbers)
  PROVE  \E g \in [0 .. Len(s) -> CompressStates] :
           /\ g[0] = NothingCompressed
           /\ \A i \in 1 .. Len(s) : g[i] = CompressNext(g[i - 1], s[i])
           /\ CompressedBy(s) = g[Len(s)]
<1> DEFINE n == Len(s)
           X == CompressStates
           base == NothingCompressed
           Op == [p \in X \X (1 .. n) |-> CompressNext(p[1], s[p[2]])]
           Eq(g) == g = [t \in SUBSET (1 .. n) |->
                           IF t = {} THEN base ELSE CompressNext(g[t \ {Max(t)}], s[Max(t)])]
           it == CHOOSE g : Eq(g)
<1>1. n \in Nat /\ DOMAIN s = 1 .. n
  OBVIOUS
<1>2. base \in X
  BY SeqAssumption DEF NothingCompressed, CompressStates
<1>3. CompressedBy(s) = it[1 .. n]
  BY <1>1 DEF CompressedBy, FoldLeft, MapThenFoldSet
<1> HIDE DEF n, X, base
<1>4. \A x \in X, i \in 1 .. n : CompressNext(x, s[i]) \in X
  <2>1. \A i \in 1 .. n : s[i] \in SeqNumbers
    BY DEF n
  <2>2. QED
    BY <2>1, CompressNextType DEF X
<1>5. Op \in [X \X (1 .. n) -> X]
  BY <1>4
<1>6. \A x \in X, i \in 1 .. n : Op[<<x, i>>] = CompressNext(x, s[i])
  OBVIOUS
<1> HIDE DEF Op
<1>7. PICK g : FoldEquation(g, X, base, n, Op)
  BY <1>1, <1>2, <1>5, FoldExists
<1>8. Eq(g)
  <2>1. ASSUME NEW t \in SUBSET (1 .. n)
        PROVE  g[t] = IF t = {} THEN base ELSE CompressNext(g[t \ {Max(t)}], s[Max(t)])
    <3>1. CASE t = {}
      BY <3>1, <1>7 DEF FoldEquation
    <3>2. CASE t # {}
      <4>1. Max(t) \in 1 .. n /\ t \ {Max(t)} \in SUBSET (1 .. n)
        BY <3>2, <1>1, MaxOfIndices
      <4>2. g[t \ {Max(t)}] \in X
        BY <4>1, <1>7 DEF FoldEquation
      <4>3. g[t] = Op[<<g[t \ {Max(t)}], Max(t)>>]
        BY <3>2, <1>7 DEF FoldEquation
      <4>4. QED
        BY <3>2, <4>1, <4>2, <4>3, <1>6
    <3>3. QED
      BY <3>1, <3>2
  <2>2. g = [t \in SUBSET (1 .. n) |-> g[t]]
    BY <1>7 DEF FoldEquation
  <2>3. QED
    BY <2>1, <2>2
<1>9. Eq(it)
  BY <1>8
<1> HIDE DEF it
<1> DEFINE h == [i \in 0 .. n |-> it[1 .. i]]
<1>10. h[0] = base
  <2>1. 1 .. 0 = {} /\ 1 .. 0 \in SUBSET (1 .. n) /\ 0 \in 0 .. n
    BY <1>1
  <2>2. QED
    BY <2>1, <1>9
<1>11. ASSUME NEW i \in 1 .. n PROVE h[i] = CompressNext(h[i - 1], s[i])
  <2>1. i \in Nat \ {0} /\ i \in 1 .. i /\ i \in 0 .. n /\ i - 1 \in 0 .. n
    BY <1>1
  <2>2. 1 .. i \in SUBSET (1 .. n)
    BY <1>1
  <2>3. Max(1 .. i) = i /\ (1 .. i) \ {i} = 1 .. i - 1
    BY <2>1, MaxOfPrefix
  <2>4. it[1 .. i] = CompressNext(it[1 .. i - 1], s[i])
    BY <2>1, <2>2, <2>3, <1>9
  <2>5. QED
    BY <2>1, <2>4
<1> HIDE DEF h
<1>12. \A i \in 0 .. n : h[i] \in X
  <2> DEFINE S == { i \in 0 .. n : h[i] \in X }
  <2>1. 0 \in S
    BY <1>1, <1>2, <1>10
  <2>2. \A m \in 0 .. n - 1 : m \in S => m + 1 \in S
    <3> SUFFICES ASSUME NEW m \in 0 .. n - 1, m \in S PROVE m + 1 \in S
      OBVIOUS
    <3>1. m + 1 \in 1 .. n /\ m + 1 \in 0 .. n /\ (m + 1) - 1 = m /\ h[m] \in X
      BY <1>1
    <3>2. QED
      BY <3>1, <1>4, <1>11
  <2> HIDE DEF S
  <2>3. 0 .. n \subseteq S
    BY <1>1, <2>1, <2>2, Induction
  <2>4. QED
    BY <2>3 DEF S
<1>13. h \in [0 .. n -> X] /\ CompressedBy(s) = h[n]
  <2>1. n \in 0 .. n
    BY <1>1
  <2>2. QED
    BY <2>1, <1>3, <1>12 DEF h
<1>14. QED
  BY <1>10, <1>11, <1>13 DEF n, X, base

\* One more entry is one more round of the loop.
LEMMA ExpandAppend ==
  ASSUME NEW s \in Seq(Entries), NEW x \in Entries
  PROVE  /\ ExpandedBy(s) \in ExpandStates
         /\ ExpandedBy(Append(s, x)) = ExpandNext(ExpandedBy(s), x)
<1> DEFINE n == Len(s)
           u == Append(s, x)
<1>1. n \in Nat
  OBVIOUS
<1>2. u \in Seq(Entries) /\ Len(u) = n + 1 /\ u[n + 1] = x /\ \A i \in 1 .. n : u[i] = s[i]
  BY AppendProperties
<1>3. PICK g \in [0 .. n -> ExpandStates] :
        /\ g[0] = NothingExpanded
        /\ \A i \in 1 .. n : g[i] = ExpandNext(g[i - 1], s[i])
        /\ ExpandedBy(s) = g[n]
  BY ExpandLoop
<1> HIDE DEF u
<1>4. PICK h \in [0 .. Len(u) -> ExpandStates] :
        /\ h[0] = NothingExpanded
        /\ \A i \in 1 .. Len(u) : h[i] = ExpandNext(h[i - 1], u[i])
        /\ ExpandedBy(u) = h[Len(u)]
  BY <1>2, ExpandLoop
<1> HIDE DEF n
<1> DEFINE S == { i \in 0 .. n : g[i] = h[i] }
<1>5. 0 \in S
  BY <1>1, <1>3, <1>4
<1>6. \A m \in 0 .. n - 1 : m \in S => m + 1 \in S
  <2> SUFFICES ASSUME NEW m \in 0 .. n - 1, m \in S PROVE m + 1 \in S
    OBVIOUS
  <2>1. m + 1 \in 1 .. n /\ m + 1 \in 0 .. n /\ m + 1 \in 1 .. n + 1 /\ (m + 1) - 1 = m
    BY <1>1
  <2>2. g[m + 1] = ExpandNext(g[m], s[m + 1]) /\ h[m + 1] = ExpandNext(h[m], u[m + 1])
    BY <2>1, <1>2, <1>3, <1>4
  <2>3. QED
    BY <2>1, <2>2, <1>2
<1> HIDE DEF S
<1>7. 0 .. n \subseteq S
  BY <1>1, <1>5, <1>6, Induction
<1>8. g[n] = h[n] /\ n \in 0 .. n
  BY <1>1, <1>7 DEF S
<1>9. h[n + 1] = ExpandNext(h[n], x)
  <2>1. n + 1 \in 1 .. Len(u) /\ (n + 1) - 1 = n
    BY <1>1, <1>2
  <2>2. h[n + 1] = ExpandNext(h[(n + 1) - 1], u[n + 1])
    BY <2>1, <1>4
  <2>3. QED
    BY <2>1, <2>2, <1>2
<1>10. ExpandedBy(u) = h[n + 1]
  BY <1>2, <1>4
<1>11. QED
  BY <1>3, <1>8, <1>9, <1>10 DEF u

LEMMA ExpandEmpty == ExpandedBy(<<>>) = NothingExpanded
<1>1. <<>> \in Seq(Entries) /\ Len(<<>>) = 0
  OBVIOUS
<1>2. PICK g \in [0 .. Len(<<>>) -> ExpandStates] :
        /\ g[0] = NothingExpanded
        /\ ExpandedBy(<<>>) = g[Len(<<>>)]
  BY <1>1, ExpandLoop
<1>3. QED
  BY <1>1, <1>2

-----------------------------------------------------------------------------
\* The numbers A that arrive for the numbers B.
Same(A, B) == A = B \/ (A = B \cup {MaxSeq} /\ {MaxSeq - 1, 0} \subseteq B)

LEMMA SameGrows ==
  ASSUME NEW A, NEW B, NEW C, Same(A, B)
  PROVE  Same(A \cup C, B \cup C)
BY DEF Same

\* What an open or closed run of the packet stands for: B was looked at so far.
Reported(c, B) ==
  /\ c.entries \in Seq(Entries) /\ c.previous \in B
  /\ \/ /\ ~ c.inRun
        /\ \E t \in Seq(Entries) :
             /\ c.entries = Append(t, Entry(c.previous))
             /\ ExpandedBy(t).begin = -1
             /\ Same(ExpandedBy(t).numbers \cup {c.previous}, B)
     \/ /\ c.inRun
        /\ \E a \in B :
             /\ a # c.previous /\ a < MaxSeq
             /\ ExpandedBy(c.entries).begin = a
             /\ Same(ExpandedBy(c.entries).numbers
                       \cup SeqRange(IncreaseSeqNumber(a), c.previous) \cup {c.previous}, B)

\* A run that begins at a and is one number longer, across 0 too.
LEMMA LongerRun ==
  ASSUME NEW a \in SeqNumbers, NEW b \in SeqNumbers, NEW seq \in SeqNumbers,
         ContinuousSeqNumber(b, seq), a < MaxSeq, a # b,
         NEW A, NEW B, a \in B, b \in B,
         Same(A \cup SeqRange(IncreaseSeqNumber(a), b) \cup {b}, B)
  PROVE  Same(A \cup SeqRange(IncreaseSeqNumber(a), seq) \cup {seq}, B \cup {seq})
<1> DEFINE new == A \cup SeqRange(IncreaseSeqNumber(a), seq) \cup {seq}
           old == A \cup SeqRange(IncreaseSeqNumber(a), b) \cup {b}
<1>1. MaxSeq \in Nat /\ a \in Nat /\ b \in Nat /\ seq \in Nat /\ a + 1 <= MaxSeq /\ b <= MaxSeq
      /\ seq <= MaxSeq /\ IncreaseSeqNumber(a) = a + 1
  BY SeqAssumption DEF SeqNumbers, IncreaseSeqNumber
<1>2. b \in B
  OBVIOUS
<1>3. CASE seq = b + 1
  <2>1. SeqRange(a + 1, seq) = SeqRange(a + 1, b) \cup {b}
    <3>1. CASE a + 1 <= b
      BY <3>1, <1>1, <1>3 DEF SeqRange
    <3>2. CASE a + 1 > b
      <4>1. b < a /\ a + 1 > seq
        BY <3>2, <1>1, <1>3
      <4>2. 0 .. seq - 1 = (0 .. b - 1) \cup {b}
        BY <1>1, <1>3
      <4>3. /\ SeqRange(a + 1, seq) = (a + 1 .. MaxSeq) \cup 0 .. seq - 1
            /\ SeqRange(a + 1, b) = (a + 1 .. MaxSeq) \cup 0 .. b - 1
        BY <4>1, <1>1 DEF SeqRange
      <4>4. QED
        BY <4>2, <4>3
    <3>3. QED
      BY <3>1, <3>2, <1>1
  <2>2. new = old \cup {seq}
    BY <2>1, <1>1
  <2>3. QED
    BY <2>2, SameGrows
<1>4. CASE b + 1 = MaxSeq /\ seq = 0
  <2>1. SeqRange(a + 1, 0) = a + 1 .. MaxSeq
    BY <1>1 DEF SeqRange
  <2>2. a + 1 <= b
    BY <1>1, <1>4
  <2>3. SeqRange(a + 1, b) \cup {b} \cup {MaxSeq} = a + 1 .. MaxSeq
    BY <2>2, <1>1, <1>4 DEF SeqRange
  <2>4. new = old \cup {MaxSeq} \cup {seq}
    BY <2>1, <2>3, <1>1, <1>4
  <2>5. {MaxSeq - 1, 0} \subseteq B \cup {seq}
    BY <1>1, <1>2, <1>4
  <2>6. new = B \cup {seq} \cup {MaxSeq}
    BY <2>4 DEF Same
  <2> HIDE DEF new
  <2>7. QED
    BY <2>5, <2>6 DEF Same, new
<1>5. QED
  BY <1>1, <1>3, <1>4 DEF ContinuousSeqNumber

LEMMA ShortRun ==
  ASSUME NEW a \in SeqNumbers, NEW seq \in SeqNumbers, ContinuousSeqNumber(a, seq),
         NEW A, NEW B, a \in B, Same(A \cup {a}, B)
  PROVE  /\ a < MaxSeq
         /\ Same((A \cup {a}) \cup SeqRange(IncreaseSeqNumber(a), seq) \cup {seq}, B \cup {seq})
<1>1. MaxSeq \in Nat /\ a \in Nat /\ seq \in Nat /\ a <= MaxSeq /\ seq <= MaxSeq /\ a \in B
  BY SeqAssumption DEF SeqNumbers
<1>2. a < MaxSeq
  BY <1>1 DEF ContinuousSeqNumber
<1>3. IncreaseSeqNumber(a) = a + 1
  BY <1>1, <1>2 DEF IncreaseSeqNumber
<1>4. CASE seq = a + 1
  <2>1. SeqRange(a + 1, seq) = {}
    BY <1>1, <1>4 DEF SeqRange
  <2>2. QED
    BY <2>1, <1>2, <1>3 DEF Same
<1>5. CASE a + 1 = MaxSeq /\ seq = 0
  <2>1. SeqRange(a + 1, seq) = {MaxSeq}
    BY <1>1, <1>5 DEF SeqRange
  <2>2. {MaxSeq - 1, 0} \subseteq B \cup {seq}
    BY <1>1, <1>5
  <2>3. QED
    BY <2>1, <2>2, <1>2, <1>3 DEF Same
<1>6. QED
  BY <1>4, <1>5 DEF ContinuousSeqNumber

\* One round of the loop of sendNakPacket.
LEMMA CompressStep ==
  ASSUME NEW c \in CompressStates, NEW B, B \subseteq SeqNumbers, Reported(c, B),
         NEW seq \in SeqNumbers, seq \notin B
  PROVE  Reported(CompressNext(c, seq), B \cup {seq})
<1> DEFINE p == c.previous
           x == Entry(p)
           y == Entry(seq)
           m == [x EXCEPT !.mark = TRUE]
<1> SUFFICES ASSUME NEW new, new = CompressNext(c, seq)
             PROVE  Reported(new, B \cup {seq})
  OBVIOUS
<1>1. /\ c.entries \in Seq(Entries) /\ p \in B /\ p \in SeqNumbers /\ p >= 0 /\ p # seq
      /\ MaxSeq \in Nat /\ c.inRun \in BOOLEAN
  BY SeqAssumption DEF Reported, SeqNumbers, CompressStates
<1>2. /\ x \in Entries /\ x.seq = p /\ x.mark = FALSE
      /\ y \in Entries /\ y.seq = seq /\ y.mark = FALSE
      /\ m \in Entries /\ m.seq = p /\ m.mark = TRUE
  BY <1>1 DEF Entry, Entries
<1> HIDE DEF x, y, m
<1>3. CASE ~ c.inRun
  <2>1. PICK t \in Seq(Entries) :
           /\ c.entries = Append(t, x)
           /\ ExpandedBy(t).begin = -1
           /\ Same(ExpandedBy(t).numbers \cup {p}, B)
    BY <1>3 DEF Reported, x
  <2>2. ExpandedBy(t) \in ExpandStates
    BY ExpandAppend, <1>2
  <2>3. CASE ContinuousSeqNumber(p, seq)
    <3>1. new = [entries |-> Append(t, m), inRun |-> TRUE, previous |-> seq]
      BY <1>1, <1>2, <1>3, <2>1, <2>3, MarkLastFacts DEF CompressNext, m
    <3> DEFINE E == ExpandedBy(Append(t, m))
    <3>2. E = ExpandNext(ExpandedBy(t), m)
      BY <1>2, ExpandAppend
    <3>3. E.begin = p /\ E.numbers = ExpandedBy(t).numbers \cup {p}
      BY <3>2, <1>2, <2>1 DEF ExpandNext
    <3>4. Append(t, m) \in Seq(Entries)
      BY <1>2, AppendProperties
    <3>5. p < MaxSeq /\ Same(E.numbers \cup SeqRange(IncreaseSeqNumber(p), seq) \cup {seq}, B \cup {seq})
      BY <3>3, <1>1, <2>1, <2>3, ShortRun
    <3> HIDE DEF E
    <3>6. \E a \in B \cup {seq} :
            /\ a # seq /\ a < MaxSeq /\ E.begin = a
            /\ Same(E.numbers \cup SeqRange(IncreaseSeqNumber(a), seq) \cup {seq}, B \cup {seq})
      BY <3>3, <3>5, <1>1
    <3>7. new.entries = Append(t, m) /\ new.inRun = TRUE /\ new.previous = seq
      BY <3>1
    <3> HIDE DEF p
    <3>8. QED
      BY <3>4, <3>6, <3>7 DEF Reported, E
  <2>4. CASE ~ ContinuousSeqNumber(p, seq)
    <3> DEFINE u == Append(c.entries, x)
    <3>1. new.entries = (c.entries \o <<x>>) \o <<y>> /\ new.inRun = FALSE /\ new.previous = seq
      BY <1>1, <2>4 DEF CompressNext, x, y
    <3>2. c.entries \o <<x>> = u /\ u \in Seq(Entries)
      BY <1>1, <1>2, AppendIsConcat, AppendProperties
    <3> HIDE DEF u
    <3>3. u \o <<y>> = Append(u, y) /\ Append(u, y) \in Seq(Entries)
      BY <1>2, <3>2, AppendIsConcat, AppendProperties
    <3>4. ExpandedBy(c.entries) = ExpandNext(ExpandedBy(t), x)
      BY <1>2, <2>1, ExpandAppend
    <3>5. ExpandedBy(c.entries).begin = -1
          /\ ExpandedBy(c.entries).numbers = ExpandedBy(t).numbers \cup {p}
      BY <3>4, <1>2, <2>1 DEF ExpandNext
    <3>6. ExpandedBy(u) = ExpandNext(ExpandedBy(c.entries), x)
      BY <1>1, <1>2, ExpandAppend DEF u
    <3>7. ExpandedBy(u).begin = -1 /\ ExpandedBy(u).numbers = ExpandedBy(t).numbers \cup {p}
      BY <3>5, <3>6, <1>2 DEF ExpandNext
    <3>8. Same(ExpandedBy(u).numbers \cup {seq}, B \cup {seq})
      BY <3>7, <2>1, SameGrows
    <3> HIDE DEF p
    <3>9. QED
      BY <3>1, <3>2, <3>3, <3>7, <3>8 DEF Reported, y
  <2>5. QED
    BY <2>3, <2>4
<1>4. CASE c.inRun
  <2>1. PICK a \in B :
           /\ a # p /\ a < MaxSeq
           /\ ExpandedBy(c.entries).begin = a
           /\ Same(ExpandedBy(c.entries).numbers
                     \cup SeqRange(IncreaseSeqNumber(a), p) \cup {p}, B)
    BY <1>4 DEF Reported
  <2>2. a \in SeqNumbers /\ a >= 0
    BY <1>1 DEF SeqNumbers
  <2>3. CASE ContinuousSeqNumber(p, seq)
    <3>1. new.entries = c.entries /\ new.inRun = TRUE /\ new.previous = seq
      BY <1>1, <1>4, <2>3 DEF CompressNext
    <3>2. Same(ExpandedBy(c.entries).numbers
                 \cup SeqRange(IncreaseSeqNumber(a), seq) \cup {seq}, B \cup {seq})
      BY <1>1, <2>1, <2>2, <2>3, LongerRun
    <3> HIDE DEF p
    <3>3. a # seq /\ a \in B \cup {seq}
      OBVIOUS
    <3>4. QED
      BY <3>1, <3>2, <3>3, <1>1, <2>1 DEF Reported
  <2>4. CASE ~ ContinuousSeqNumber(p, seq)
    <3> DEFINE u == Append(c.entries, x)
    <3>1. new.entries = (c.entries \o <<x>>) \o <<y>> /\ new.inRun = FALSE /\ new.previous = seq
      BY <1>1, <2>4 DEF CompressNext, x, y
    <3>2. c.entries \o <<x>> = u /\ u \in Seq(Entries)
      BY <1>1, <1>2, AppendIsConcat, AppendProperties
    <3> HIDE DEF u
    <3>3. u \o <<y>> = Append(u, y) /\ Append(u, y) \in Seq(Entries)
      BY <1>2, <3>2, AppendIsConcat, AppendProperties
    <3>4. ExpandedBy(u) = ExpandNext(ExpandedBy(c.entries), x)
      BY <1>1, <1>2, ExpandAppend DEF u
    <3>5. ExpandedBy(u).begin = -1
          /\ ExpandedBy(u).numbers = ExpandedBy(c.entries).numbers
                \cup SeqRange(IncreaseSeqNumber(a), p) \cup {p}
      BY <3>4, <1>2, <2>1, <2>2 DEF ExpandNext
    <3>6. Same(ExpandedBy(u).numbers \cup {seq}, B \cup {seq})
      BY <3>5, <2>1, SameGrows
    <3> HIDE DEF p
    <3>7. QED
      BY <3>1, <3>2, <3>3, <3>5, <3>6 DEF Reported, y
  <2>5. QED
    BY <2>3, <2>4
<1>5. QED
  BY <1>3, <1>4

\* The first number of the list opens the packet.
LEMMA CompressFirst ==
  ASSUME NEW seq \in SeqNumbers
  PROVE  Reported(CompressNext(NothingCompressed, seq), {seq})
<1> DEFINE y == Entry(seq)
<1> SUFFICES ASSUME NEW new, new = CompressNext(NothingCompressed, seq)
             PROVE  Reported(new, {seq})
  OBVIOUS
<1>1. y \in Entries
  BY DEF Entry, Entries
<1>2. new = [entries |-> (<<>> \o <<>>) \o <<y>>, inRun |-> FALSE, previous |-> seq]
  BY DEF CompressNext, NothingCompressed
<1>3. (<<>> \o <<>>) \o <<y>> = Append(<<>>, y) /\ Append(<<>>, y) \in Seq(Entries)
  BY <1>1
<1>4. ExpandedBy(<<>>).begin = -1 /\ ExpandedBy(<<>>).numbers = {}
  BY ExpandEmpty DEF NothingExpanded
<1>5. Same(ExpandedBy(<<>>).numbers \cup {seq}, {seq})
  BY <1>4 DEF Same
<1>6. <<>> \in Seq(Entries)
  OBVIOUS
<1>7. new.entries = Append(<<>>, y) /\ new.inRun = FALSE /\ new.previous = seq
  BY <1>2, <1>3
<1>8. QED
  BY <1>3, <1>4, <1>5, <1>6, <1>7 DEF Reported, y

\* UDTSocket.cpp:944 and 1031: what the sender makes of the NAK is what the
\* receiver put into it, for every list of different numbers, except that a
\* run from MaxSeq - 1 on across 0 brings MaxSeq with it.
THEOREM RoundTrip ==
  ASSUME NEW list \in Seq(SeqNumbers),
         \A i, j \in DOMAIN list : i # j => list[i] # list[j]
  PROVE  Same(Expand(Compress(list)), Range(list))
<1> DEFINE n == Len(list)
           Pre(i) == { list[k] : k \in 1 .. i }
<1>1. n \in Nat /\ DOMAIN list = 1 .. n /\ \A i \in 1 .. n : list[i] \in SeqNumbers
  OBVIOUS
<1>2. PICK g \in [0 .. n -> CompressStates] :
        /\ g[0] = NothingCompressed
        /\ \A i \in 1 .. n : g[i] = CompressNext(g[i - 1], list[i])
        /\ CompressedBy(list) = g[n]
  BY CompressLoop
<1> DEFINE c == g[n]
<1>3. Compress(list) = IF c.inRun THEN Append(c.entries, Entry(c.previous)) ELSE c.entries
  BY <1>2 DEF Compress, CompressedBy, NothingCompressed
<1>4. \A s : Expand(s) = ExpandedBy(s).numbers
  BY DEF Expand, ExpandedBy, NothingExpanded
<1>5. Pre(n) = Range(list)
  BY <1>1 DEF Range
<1> HIDE DEF n
<1>6. CASE n = 0
  <2>1. Range(list) = {}
    BY <1>1, <1>6 DEF Range
  <2>2. Compress(list) = <<>>
    BY <1>2, <1>3, <1>6 DEF NothingCompressed
  <2>3. Expand(<<>>) = {}
    BY <1>4, ExpandEmpty DEF NothingExpanded
  <2>4. QED
    BY <2>1, <2>2, <2>3 DEF Same
<1>7. CASE n # 0
  <2> DEFINE S == { i \in 0 .. n : i # 0 => Reported(g[i], Pre(i)) }
  <2>1. 0 \in S
    BY <1>1
  <2>2. \A m \in 0 .. n - 1 : m \in S => m + 1 \in S
    <3> SUFFICES ASSUME NEW m \in 0 .. n - 1, m \in S PROVE m + 1 \in S
      OBVIOUS
    <3>1. m + 1 \in 1 .. n /\ m + 1 \in 0 .. n /\ (m + 1) - 1 = m /\ m \in 0 .. n
      BY <1>1
    <3>2. g[m + 1] = CompressNext(g[m], list[m + 1])
      BY <3>1, <1>2
    <3>3. Pre(m + 1) = Pre(m) \cup {list[m + 1]}
      <4>1. 1 .. m + 1 = (1 .. m) \cup {m + 1}
        BY <3>1
      <4>2. QED
        BY <4>1
    <3>4. CASE m = 0
      <4>1. Pre(m) = {}
        BY <3>4
      <4>2. Reported(g[m + 1], {list[m + 1]})
        BY <3>1, <3>2, <3>4, <1>1, <1>2, CompressFirst
      <4>3. Pre(m + 1) = {list[m + 1]}
        BY <3>3, <4>1
      <4> HIDE DEF Pre
      <4>4. QED
        BY <3>1, <4>2, <4>3
    <3>5. CASE m # 0
      <4>1. Reported(g[m], Pre(m))
        BY <3>5
      <4>2. \A k \in 1 .. m : k \in DOMAIN list /\ k # m + 1 /\ m + 1 \in DOMAIN list
        BY <3>1, <1>1
      <4>3. Pre(m) \subseteq SeqNumbers /\ list[m + 1] \notin Pre(m) /\ list[m + 1] \in SeqNumbers
        BY <3>1, <4>2, <1>1
      <4>4. g[m] \in CompressStates
        BY <3>1, <1>2
      <4> HIDE DEF Pre
      <4>5. Reported(g[m + 1], Pre(m) \cup {list[m + 1]})
        BY <3>2, <4>1, <4>3, <4>4, CompressStep
      <4>6. QED
        BY <3>1, <3>3, <4>5
    <3>6. QED
      BY <3>4, <3>5
  <2> HIDE DEF S
  <2>3. 0 .. n \subseteq S
    BY <1>1, <2>1, <2>2, Induction
  <2>4. n \in 0 .. n
    BY <1>1
  <2>5. Reported(c, Range(list)) /\ c \in CompressStates
    BY <1>2, <1>5, <1>7, <2>3, <2>4 DEF S
  <2> DEFINE p == c.previous
             x == Entry(p)
  <2>6. Range(list) \subseteq SeqNumbers
    BY <1>1 DEF Range
  <2>7. p \in SeqNumbers /\ c.entries \in Seq(Entries)
    BY <2>5, <2>6 DEF Reported
  <2>8. x \in Entries /\ x.seq = p /\ x.mark = FALSE
    BY <2>7 DEF Entry, Entries
  <2> HIDE DEF c
  <2>9. CASE c.inRun
    <3>1. PICK a \in Range(list) :
           /\ ExpandedBy(c.entries).begin = a
           /\ Same(ExpandedBy(c.entries).numbers
                     \cup SeqRange(IncreaseSeqNumber(a), p) \cup {p}, Range(list))
      BY <2>5, <2>9 DEF Reported
    <3>2. a >= 0
      BY <2>6 DEF SeqNumbers
    <3>3. Compress(list) = Append(c.entries, x)
      BY <1>3, <2>9
    <3> HIDE DEF x
    <3>4. ExpandedBy(Append(c.entries, x)) = ExpandNext(ExpandedBy(c.entries), x)
      BY <2>7, <2>8, ExpandAppend
    <3>5. ExpandNext(ExpandedBy(c.entries), x).numbers
            = ExpandedBy(c.entries).numbers \cup {p} \cup SeqRange(IncreaseSeqNumber(a), p)
      BY <2>8, <3>1, <3>2 DEF ExpandNext
    <3>6. Expand(Compress(list))
            = ExpandedBy(c.entries).numbers \cup SeqRange(IncreaseSeqNumber(a), p) \cup {p}
      BY <1>4, <3>3, <3>4, <3>5
    <3>7. QED
      BY <3>1, <3>6
  <2>10. CASE ~ c.inRun
    <3>1. PICK t \in Seq(Entries) :
           /\ c.entries = Append(t, x)
           /\ ExpandedBy(t).begin = -1
           /\ Same(ExpandedBy(t).numbers \cup {p}, Range(list))
      BY <2>5, <2>10 DEF Reported
    <3> HIDE DEF x
    <3>2. ExpandedBy(c.entries) = ExpandNext(ExpandedBy(t), x)
      BY <3>1, <2>8, ExpandAppend
    <3>3. ExpandNext(ExpandedBy(t), x).numbers = ExpandedBy(t).numbers \cup {p}
      BY <3>1, <2>8 DEF ExpandNext
    <3>4. Expand(Compress(list)) = ExpandedBy(t).numbers \cup {p}
      BY <1>3, <1>4, <2>10, <3>2, <3>3
    <3>5. QED
      BY <3>1, <3>4
  <2>11. QED
    BY <2>9, <2>10
<1>8. QED
  BY <1>6, <1>7

-----------------------------------------------------------------------------
Kept(S, list, seq) == IF seq \in S THEN Append(list, seq) ELSE list

KeptOf(S, s) == FoldLeft(LAMBDA list, seq : Kept(S, list, seq), <<>>, s)

\* The list of the lost numbers as it grows.
LEMMA LossLoop ==
  ASSUME NEW S, NEW s \in Seq(SeqNumbers)
  PROVE  \E g \in [0 .. Len(s) -> Seq(SeqNumbers)] :
           /\ g[0] = <<>>
           /\ \A i \in 1 .. Len(s) : g[i] = Kept(S, g[i - 1], s[i])
           /\ KeptOf(S, s) = g[Len(s)]
<1> DEFINE n == Len(s)
           X == Seq(SeqNumbers)
           base == <<>>
           Op == [p \in X \X (1 .. n) |-> Kept(S, p[1], s[p[2]])]
           Eq(g) == g = [t \in SUBSET (1 .. n) |->
                           IF t = {} THEN base ELSE Kept(S, g[t \ {Max(t)}], s[Max(t)])]
           it == CHOOSE g : Eq(g)
<1>1. n \in Nat /\ DOMAIN s = 1 .. n
  OBVIOUS
<1>2. base \in X
  OBVIOUS
<1>3. KeptOf(S, s) = it[1 .. n]
  BY <1>1 DEF KeptOf, FoldLeft, MapThenFoldSet
<1> HIDE DEF n, X, base
<1>4. \A x \in X, i \in 1 .. n : Kept(S, x, s[i]) \in X
  <2>1. \A i \in 1 .. n : s[i] \in SeqNumbers
    BY DEF n
  <2>2. QED
    BY <2>1, AppendProperties DEF X, Kept
<1>5. Op \in [X \X (1 .. n) -> X]
  BY <1>4
<1>6. \A x \in X, i \in 1 .. n : Op[<<x, i>>] = Kept(S, x, s[i])
  OBVIOUS
<1> HIDE DEF Op
<1>7. PICK g : FoldEquation(g, X, base, n, Op)
  BY <1>1, <1>2, <1>5, FoldExists
<1>8. Eq(g)
  <2>1. ASSUME NEW t \in SUBSET (1 .. n)
        PROVE  g[t] = IF t = {} THEN base ELSE Kept(S, g[t \ {Max(t)}], s[Max(t)])
    <3>1. CASE t = {}
      BY <3>1, <1>7 DEF FoldEquation
    <3>2. CASE t # {}
      <4>1. Max(t) \in 1 .. n /\ t \ {Max(t)} \in SUBSET (1 .. n)
        BY <3>2, <1>1, MaxOfIndices
      <4>2. g[t \ {Max(t)}] \in X
        BY <4>1, <1>7 DEF FoldEquation
      <4>3. g[t] = Op[<<g[t \ {Max(t)}], Max(t)>>]
        BY <3>2, <1>7 DEF FoldEquation
      <4>4. QED
        BY <3>2, <4>1, <4>2, <4>3, <1>6
    <3>3. QED
      BY <3>1, <3>2
  <2>2. g = [t \in SUBSET (1 .. n) |-> g[t]]
    BY <1>7 DEF FoldEquation
  <2>3. QED
    BY <2>1, <2>2
<1>9. Eq(it)
  BY <1>8
<1> HIDE DEF it
<1> DEFINE h == [i \in 0 .. n |-> it[1 .. i]]
<1>10. h[0] = base
  <2>1. 1 .. 0 = {} /\ 1 .. 0 \in SUBSET (1 .. n) /\ 0 \in 0 .. n
    BY <1>1
  <2>2. QED
    BY <2>1, <1>9
<1>11. ASSUME NEW i \in 1 .. n PROVE h[i] = Kept(S, h[i - 1], s[i])
  <2>1. i \in Nat \ {0} /\ i \in 1 .. i /\ i \in 0 .. n /\ i - 1 \in 0 .. n
    BY <1>1
  <2>2. 1 .. i \in SUBSET (1 .. n)
    BY <1>1
  <2>3. Max(1 .. i) = i /\ (1 .. i) \ {i} = 1 .. i - 1
    BY <2>1, MaxOfPrefix
  <2>4. it[1 .. i] = Kept(S, it[1 .. i - 1], s[i])
    BY <2>1, <2>2, <2>3, <1>9
  <2>5. QED
    BY <2>1, <2>4
<1> HIDE DEF h
<1>12. \A i \in 0 .. n : h[i] \in X
  <2> DEFINE T == { i \in 0 .. n : h[i] \in X }
  <2>1. 0 \in T
    BY <1>1, <1>2, <1>10
  <2>2. \A m \in 0 .. n - 1 : m \in T => m + 1 \in T
    <3> SUFFICES ASSUME NEW m \in 0 .. n - 1, m \in T PROVE m + 1 \in T
      OBVIOUS
    <3>1. m + 1 \in 1 .. n /\ m + 1 \in 0 .. n /\ (m + 1) - 1 = m /\ h[m] \in X
      BY <1>1
    <3>2. QED
      BY <3>1, <1>4, <1>11
  <2> HIDE DEF T
  <2>3. 0 .. n \subseteq T
    BY <1>1, <2>1, <2>2, Induction
  <2>4. QED
    BY <2>3 DEF T
<1>13. h \in [0 .. n -> X] /\ KeptOf(S, s) = h[n]
  <2>1. n \in 0 .. n
    BY <1>1
  <2>2. QED
    BY <2>1, <1>3, <1>12 DEF h
<1>14. QED
  BY <1>10, <1>11, <1>13 DEF n, X, base


\* Numbers of fewer packets than there are numbers are all different.
LEMMA LossListsAreDistinct ==
  ASSUME Packets <= MaxSeq + 1, NEW list \in LossLists
  PROVE  list \in Seq(SeqNumbers) /\ \A i, j \in DOMAIN list : i # j => list[i] # list[j]
<1> DEFINE all == [k \in 1 .. Packets |-> IncreaseSeqNumberBy(InitSeq, k)]
<1>1. MaxSeq \in Nat /\ InitSeq \in Nat /\ InitSeq <= MaxSeq /\ Packets \in Nat
  BY SeqAssumption DEF SeqNumbers
<1>2. \A k \in 1 .. Packets : all[k] \in SeqNumbers
  BY <1>1 DEF IncreaseSeqNumberBy, SeqNumbers
<1>3. all \in Seq(SeqNumbers) /\ Len(all) = Packets /\ DOMAIN all = 1 .. Packets
  BY <1>1, <1>2
<1>4. \A j, k \in 1 .. Packets : j # k => all[j] # all[k]
  <2> SUFFICES ASSUME NEW j \in 1 .. Packets, NEW k \in 1 .. Packets, j < k
               PROVE  all[j] # all[k]
    BY <1>1
  <2>1. all[j] = IncreaseSeqNumberBy(InitSeq, j) /\ all[k] = IncreaseSeqNumberBy(InitSeq, k)
    OBVIOUS
  <2>2. k - j < MaxSeq + 1
    BY <1>1
  <2>3. QED
    BY <1>1, <2>1, <2>2 DEF IncreaseSeqNumberBy
<1> HIDE DEF all
<1>5. PICK S : list = KeptOf(S, all)
  <2>1. PICK S \in SUBSET PeerSeqs :
           list = FoldLeft(LAMBDA l, seq : IF seq \in S THEN Append(l, seq) ELSE l, <<>>, all)
    BY Zenon DEF LossLists, all
  <2>2. list = KeptOf(S, all)
    BY <2>1 DEF KeptOf, Kept
  <2>3. QED
    BY <2>2
<1>6. PICK g \in [0 .. Packets -> Seq(SeqNumbers)] :
        /\ g[0] = <<>>
        /\ \A i \in 1 .. Packets : g[i] = Kept(S, g[i - 1], all[i])
        /\ list = g[Packets]
  BY <1>3, <1>5, LossLoop
<1> DEFINE Good(i) == /\ \A j \in DOMAIN g[i] : \E k \in 1 .. i : g[i][j] = all[k]
                      /\ \A j, k \in DOMAIN g[i] : j # k => g[i][j] # g[i][k]
           T == { i \in 0 .. Packets : Good(i) }
<1>7. 0 \in T
  BY <1>1, <1>6
<1>8. \A m \in 0 .. Packets - 1 : m \in T => m + 1 \in T
  <2> SUFFICES ASSUME NEW m \in 0 .. Packets - 1, m \in T PROVE m + 1 \in T
    OBVIOUS
  <2>1. m + 1 \in 1 .. Packets /\ m + 1 \in 0 .. Packets /\ m \in 0 .. Packets /\ (m + 1) - 1 = m
        /\ m \in Nat
    BY <1>1
  <2>2. g[m + 1] = Kept(S, g[m], all[m + 1])
    BY <2>1, <1>6
  <2>3. Good(m)
    OBVIOUS
  <2>4. CASE all[m + 1] \notin S
    <3>1. g[m + 1] = g[m]
      BY <2>2, <2>4 DEF Kept
    <3>2. \A k \in 1 .. m : k \in 1 .. m + 1
      BY <2>1
    <3>3. Good(m + 1)
      BY <2>3, <3>1, <3>2
    <3>4. QED
      BY <2>1, <3>3
  <2>5. CASE all[m + 1] \in S
    <3> DEFINE s == g[m]
               u == g[m + 1]
               x == all[m + 1]
    <3>1. u = Append(s, x)
      BY <2>2, <2>5 DEF Kept
    <3>2. s \in Seq(SeqNumbers) /\ x \in SeqNumbers
      BY <1>2, <1>6, <2>1
    <3> HIDE DEF s, u, x
    <3>3. /\ DOMAIN s = 1 .. Len(s) /\ Len(s) \in Nat
          /\ DOMAIN u = 1 .. Len(s) + 1
          /\ \A j \in 1 .. Len(s) : u[j] = s[j]
          /\ u[Len(s) + 1] = x
      BY <3>1, <3>2, AppendProperties
    <3>4. \A j \in DOMAIN u : (j \in DOMAIN s /\ u[j] = s[j]) \/ (j = Len(s) + 1 /\ u[j] = x)
      BY <3>3
    <3>5. \A j \in DOMAIN s : s[j] # x
      <4>1. \A k \in 1 .. m : k \in 1 .. Packets /\ k # m + 1
        BY <1>1
      <4>2. \A k \in 1 .. m : all[k] # x
        BY <4>1, <2>1, <1>4 DEF x
      <4>3. QED
        BY <4>2, <2>3 DEF s
    <3>6. \A j \in DOMAIN u : \E k \in 1 .. m + 1 : u[j] = all[k]
      <4>1. \A j \in DOMAIN s : \E k \in 1 .. m + 1 : s[j] = all[k]
        <5>1. \A k \in 1 .. m : k \in 1 .. m + 1
          BY <2>1
        <5>2. QED
          BY <5>1, <2>3 DEF s
      <4>2. m + 1 \in 1 .. m + 1
        BY <2>1
      <4>3. QED
        BY <3>4, <4>1, <4>2 DEF x
    <3>7. \A j, k \in DOMAIN u : j # k => u[j] # u[k]
      <4>1. \A j, k \in DOMAIN s : j # k => s[j] # s[k]
        BY <2>3 DEF s
      <4>2. QED
        BY <3>4, <3>5, <4>1
    <3>8. Good(m + 1)
      BY <3>6, <3>7 DEF u
    <3>9. QED
      BY <2>1, <3>8
  <2>6. QED
    BY <2>4, <2>5
<1> HIDE DEF T
<1>9. 0 .. Packets \subseteq T
  BY <1>1, <1>7, <1>8, Induction
<1>10. Packets \in 0 .. Packets
  BY <1>1
<1>11. Good(Packets)
  BY <1>9, <1>10 DEF T
<1>12. QED
  BY <1>6, <1>10, <1>11

\* UDTSocket.cpp:944 and 1031: the sender's loss list gets exactly what the
\* receiver's had, for every window and every part of it that was lost.
THEOREM NakLosesNothing ==
  ASSUME Packets <= MaxSeq + 1
  PROVE  NakSpec => []LossesArriveExactly
<1> DEFINE Inv == /\ lost \in LossLists
                  /\ phase \in {"lost", "sent", "handled"}
                  /\ phase # "lost" => entries = Compress(lost)
                  /\ phase = "handled" => expanded = Expand(entries)
<1>1. NakInit => Inv
  BY DEF NakInit
<1>2. Inv /\ [SendNakPacket \/ HandleNak]_nakVars => Inv'
  BY DEF SendNakPacket, HandleNak, nakVars
<1>3. Inv => LossesArriveExactly
  <2> SUFFICES ASSUME Inv, phase = "handled"
               PROVE  Same(expanded, Range(lost))
    BY DEF LossesArriveExactly, Same
  <2>1. lost \in Seq(SeqNumbers) /\ \A i, j \in DOMAIN lost : i # j => lost[i] # lost[j]
    BY LossListsAreDistinct
  <2>2. expanded = Expand(Compress(lost))
    OBVIOUS
  <2>3. QED
    BY <2>1, <2>2, RoundTrip
<1> HIDE DEF Inv
<1>4. QED
  BY <1>1, <1>2, <1>3, PTL DEF NakSpec
-----------------------------------------------------------------------------
(***************************************************************************)
(* Datagrams: how they are cut into the queue, and put together again      *)
(* packet by packet.                                                       *)
(***************************************************************************)

\* A datagram takes as few packets as hold its units.
LEMMA PacketsOfFacts ==
  ASSUME NEW len \in Nat \ {0}
  PROVE  /\ PacketsOf(len) \in Nat \ {0}
         /\ (PacketsOf(len) - 1) * DataLen < len /\ len <= PacketsOf(len) * DataLen
         /\ len <= DataLen <=> PacketsOf(len) = 1
<1>1. DataLen \in Nat \ {0}
  BY DatagramAssumption
<1> DEFINE a == len + DataLen - 1
           q == a \div DataLen
<1>2. a \in Nat /\ a >= DataLen
  BY <1>1
<1>3. q \in Nat /\ q * DataLen <= a /\ a < (q + 1) * DataLen
  BY <1>1, <1>2
<1>4. PacketsOf(len) = q
  BY DEF PacketsOf
<1>5. (q + 1) * DataLen = q * DataLen + DataLen /\ (q - 1) * DataLen = q * DataLen - DataLen
  BY <1>1, <1>3
<1>6. q # 0
  BY <1>1, <1>2, <1>3
<1>7. len <= DataLen <=> q = 1
  <2>1. CASE q = 1
    BY <2>1, <1>1, <1>3
  <2>2. CASE q >= 2
    <3>1. q * DataLen >= 2 * DataLen
      BY <2>2, <1>1, <1>3
    <3>2. QED
      BY <3>1, <2>2, <1>1, <1>3
  <2>3. QED
    BY <2>1, <2>2, <1>3, <1>6
<1>8. QED
  BY <1>1, <1>3, <1>4, <1>5, <1>6, <1>7

\* Pieces of a datagram that follow each other are a piece of it.
LEMMA JoinedUnits ==
  ASSUME NEW d, NEW a \in Nat, NEW b \in Nat, NEW c \in Nat, a <= b, b <= c
  PROVE  /\ Len(Units(d, a, b)) = b - a
         /\ Units(d, a, b) \o Units(d, b, c) = Units(d, a, c)
<1>1. PICK k \in Nat, l \in Nat : k = b - a /\ l = c - b
  OBVIOUS
<1>2. PICK s, t, u : s = Units(d, a, b) /\ t = Units(d, b, c) /\ u = Units(d, a, c)
  OBVIOUS
<1> DEFINE S == {d} \X Nat
<1>3. s = [i \in 1 .. k |-> <<d, a + i>>]
  BY <1>1, <1>2 DEF Units
<1>4. t = [i \in 1 .. l |-> <<d, b + i>>]
  BY <1>1, <1>2 DEF Units
<1>5. u = [i \in 1 .. k + l |-> <<d, a + i>>]
  <2>1. c - a = k + l
    BY <1>1
  <2>2. QED
    BY <1>2, <2>1 DEF Units
<1>6. s \in Seq(S) /\ Len(s) = k
  BY <1>3
<1>7. t \in Seq(S) /\ Len(t) = l
  BY <1>4
<1>8. u \in Seq(S) /\ Len(u) = k + l
  BY <1>5
<1>9. /\ s \o t \in Seq(S) /\ Len(s \o t) = k + l
      /\ \A i \in 1 .. k + l : (s \o t)[i] = IF i <= k THEN s[i] ELSE t[i - k]
  BY <1>6, <1>7, ConcatProperties
<1>10. ASSUME NEW i \in 1 .. k + l PROVE (s \o t)[i] = u[i]
  <2>1. u[i] = <<d, a + i>>
    BY <1>5
  <2>2. CASE i <= k
    BY <2>1, <2>2, <1>3, <1>9
  <2>3. CASE ~ (i <= k)
    <3>1. i - k \in 1 .. l /\ b + (i - k) = a + i
      BY <2>3, <1>1
    <3>2. t[i - k] = <<d, a + i>>
      BY <3>1, <1>4
    <3>3. QED
      BY <2>1, <2>3, <3>2, <1>9
  <2>4. QED
    BY <2>2, <2>3
<1> HIDE DEF S
<1>11. s \o t = u
  BY <1>8, <1>9, <1>10, SeqEqual
<1>12. QED
  BY <1>1, <1>2, <1>6, <1>11
-----------------------------------------------------------------------------
Pieces == [type : {"ONLY", "START", "MIDDLE", "STOP"}, units : Seq(Nat \X Nat)]

LEMMA UnitsType ==
  ASSUME NEW d \in Nat, NEW m \in Nat, NEW n \in Nat, m <= n
  PROVE  Units(d, m, n) \in Seq(Nat \X Nat)
<1>1. PICK k \in Nat : k = n - m
  OBVIOUS
<1>2. Units(d, m, n) = [i \in 1 .. k |-> <<d, m + i>>]
  BY <1>1 DEF Units
<1>3. QED
  BY <1>2

\* The k-th of the packets of a datagram holds its units from (k - 1) * DataLen on.
LEMMA PacketOfFacts ==
  ASSUME NEW d \in Nat, NEW len \in Nat \ {0}, NEW k \in 1 .. PacketsOf(len)
  PROVE  LET p    == PacketOf(d, len, k)
             from == (k - 1) * DataLen
             upto == IF k = PacketsOf(len) THEN len ELSE k * DataLen
         IN  /\ p \in Pieces
             /\ from \in Nat /\ upto \in Nat /\ from < upto /\ upto <= len
             /\ p.units = Units(d, from, upto)
             /\ p.type = IF PacketsOf(len) = 1 THEN "ONLY" ELSE IF k = 1 THEN "START"
                         ELSE IF k = PacketsOf(len) THEN "STOP" ELSE "MIDDLE"
<1> DEFINE q == PacketsOf(len)
           p == PacketOf(d, len, k)
           from == (k - 1) * DataLen
           upto == IF k = q THEN len ELSE k * DataLen
           size == IF from + DataLen >= len THEN len - from ELSE DataLen
<1>1. DataLen \in Nat \ {0} /\ len \in Nat
  BY DatagramAssumption
<1>2. /\ q \in Nat \ {0} /\ (q - 1) * DataLen < len /\ len <= q * DataLen
      /\ len <= DataLen <=> q = 1
  BY PacketsOfFacts
<1>3. p = [type  |-> IF len <= DataLen THEN "ONLY" ELSE IF k = 1 THEN "START"
                     ELSE IF k = q THEN "STOP" ELSE "MIDDLE",
           units |-> Units(d, from, from + size)]
  BY DEF PacketOf
<1> HIDE DEF q, p
<1>4. k \in Nat /\ 1 <= k /\ k <= q
  BY <1>2 DEF q
<1>5. from \in Nat /\ k * DataLen \in Nat /\ from + DataLen = k * DataLen
  BY <1>1, <1>4
<1>6. from + size = upto /\ from < upto /\ upto <= len /\ upto \in Nat
  <2>1. CASE k = q
    BY <2>1, <1>1, <1>2, <1>5
  <2>2. CASE k # q
    <3>1. k <= q - 1
      BY <2>2, <1>2, <1>4
    <3>2. k * DataLen <= (q - 1) * DataLen
      BY <3>1, <1>1, <1>2, <1>4
    <3>3. k * DataLen < len
      <4>1. (q - 1) * DataLen \in Nat
        BY <1>1, <1>2
      <4> HIDE DEF from
      <4>2. QED
        BY <3>2, <4>1, <1>1, <1>2, <1>5
    <3> HIDE DEF from
    <3>4. QED
      BY <2>2, <3>3, <1>1, <1>5
  <2>3. QED
    BY <2>1, <2>2
<1> HIDE DEF from, upto, size
<1>7. Units(d, from, upto) \in Seq(Nat \X Nat)
  BY <1>5, <1>6, UnitsType
<1>8. p.units = Units(d, from, upto)
  BY <1>3, <1>6
<1>9. p.type = IF q = 1 THEN "ONLY" ELSE IF k = 1 THEN "START" ELSE IF k = q THEN "STOP" ELSE "MIDDLE"
  BY <1>2, <1>3
<1>10. p \in Pieces
  BY <1>3, <1>6, <1>7 DEF Pieces
<1>11. QED
  BY <1>5, <1>6, <1>8, <1>9, <1>10 DEF q, p, from, upto

\* The packets that postData queues for datagram d.
CutOf(d) == [k \in 1 .. PacketsOf(posted[d]) |-> PacketOf(d, posted[d], k)]

LEMMA CutFacts ==
  ASSUME posted \in Seq(Lens), NEW d \in 1 .. Len(posted)
  PROVE  /\ d \in Nat /\ posted[d] \in Nat \ {0} /\ PacketsOf(posted[d]) \in Nat \ {0}
         /\ CutOf(d) \in Seq(Pieces) /\ Len(CutOf(d)) = PacketsOf(posted[d])
         /\ \A k \in 1 .. PacketsOf(posted[d]) : CutOf(d)[k] = PacketOf(d, posted[d], k)
<1>1. d \in Nat /\ posted[d] \in Nat \ {0}
  <2>1. d \in Nat
    OBVIOUS
  <2>2. posted[d] \in Lens
    OBVIOUS
  <2>3. posted[d] \in Nat \ {0}
    BY <2>2, DatagramAssumption
  <2>4. QED
    BY <2>1, <2>3
<1>2. PICK q \in Nat \ {0} : q = PacketsOf(posted[d])
  BY <1>1, PacketsOfFacts
<1>3. \A k \in 1 .. q : PacketOf(d, posted[d], k) \in Pieces
  BY <1>1, <1>2, PacketOfFacts
<1>4. CutOf(d) = [k \in 1 .. q |-> PacketOf(d, posted[d], k)]
  BY <1>2 DEF CutOf
<1>5. CutOf(d) \in Seq(Pieces) /\ Len(CutOf(d)) = q
  BY <1>3, <1>4
<1>6. QED
  BY <1>1, <1>2, <1>4, <1>5

LEMMA PostDataType ==
  ASSUME posted \in Seq(Lens), NEW x \in Seq(Pieces), NEW d \in 1 .. Len(posted)
  PROVE  PostData(x, d) \in Seq(Pieces) /\ PostData(x, d) = x \o CutOf(d)
<1>1. PostData(x, d) = x \o CutOf(d)
  BY DEF PostData, CutOf
<1>2. QED
  BY <1>1, CutFacts, ConcatProperties

\* The states of the queue while the first n datagrams are posted.
LEMMA PostLoop ==
  ASSUME posted \in Seq(Lens), NEW n \in 0 .. Len(posted)
  PROVE  \E g \in [0 .. n -> Seq(Pieces)] :
           /\ g[0] = <<>>
           /\ \A i \in 1 .. n : g[i] = g[i - 1] \o CutOf(i)
           /\ QueuedAfter(n) = g[n]
<1> DEFINE s == [d \in 1 .. n |-> d]
           X == Seq(Pieces)
           base == <<>>
           Op == [p \in X \X (1 .. n) |-> PostData(p[1], s[p[2]])]
           Eq(g) == g = [t \in SUBSET (1 .. n) |->
                           IF t = {} THEN base ELSE PostData(g[t \ {Max(t)}], s[Max(t)])]
           it == CHOOSE g : Eq(g)
<1>1. n \in Nat /\ DOMAIN s = 1 .. n /\ \A i \in 1 .. n : s[i] = i /\ i \in 1 .. Len(posted)
  OBVIOUS
<1>2. base \in X
  OBVIOUS
<1>3. QueuedAfter(n) = it[1 .. n]
  BY <1>1 DEF QueuedAfter, FoldLeft, MapThenFoldSet
<1> HIDE DEF s, X, base
<1>4. \A x \in X, i \in 1 .. n : PostData(x, s[i]) \in X
  BY <1>1, PostDataType DEF X
<1>5. Op \in [X \X (1 .. n) -> X]
  BY <1>4
<1>6. \A x \in X, i \in 1 .. n : Op[<<x, i>>] = PostData(x, s[i])
  OBVIOUS
<1> HIDE DEF Op
<1>7. PICK g : FoldEquation(g, X, base, n, Op)
  BY <1>1, <1>2, <1>5, FoldExists
<1>8. Eq(g)
  <2>1. ASSUME NEW t \in SUBSET (1 .. n)
        PROVE  g[t] = IF t = {} THEN base ELSE PostData(g[t \ {Max(t)}], s[Max(t)])
    <3>1. CASE t = {}
      BY <3>1, <1>7 DEF FoldEquation
    <3>2. CASE t # {}
      <4>1. Max(t) \in 1 .. n /\ t \ {Max(t)} \in SUBSET (1 .. n)
        BY <3>2, <1>1, MaxOfIndices
      <4>2. g[t \ {Max(t)}] \in X
        BY <4>1, <1>7 DEF FoldEquation
      <4>3. g[t] = Op[<<g[t \ {Max(t)}], Max(t)>>]
        BY <3>2, <1>7 DEF FoldEquation
      <4>4. QED
        BY <3>2, <4>1, <4>2, <4>3, <1>6
    <3>3. QED
      BY <3>1, <3>2
  <2>2. g = [t \in SUBSET (1 .. n) |-> g[t]]
    BY <1>7 DEF FoldEquation
  <2>3. QED
    BY <2>1, <2>2
<1>9. Eq(it)
  BY <1>8
<1> HIDE DEF it
<1> DEFINE h == [i \in 0 .. n |-> it[1 .. i]]
<1>10. h[0] = base
  <2>1. 1 .. 0 = {} /\ 1 .. 0 \in SUBSET (1 .. n) /\ 0 \in 0 .. n
    BY <1>1
  <2>2. QED
    BY <2>1, <1>9
<1>11. ASSUME NEW i \in 1 .. n PROVE h[i] = PostData(h[i - 1], s[i])
  <2>1. i \in Nat \ {0} /\ i \in 1 .. i /\ i \in 0 .. n /\ i - 1 \in 0 .. n
    BY <1>1
  <2>2. 1 .. i \in SUBSET (1 .. n)
    BY <1>1
  <2>3. Max(1 .. i) = i /\ (1 .. i) \ {i} = 1 .. i - 1
    BY <2>1, MaxOfPrefix
  <2>4. it[1 .. i] = PostData(it[1 .. i - 1], s[i])
    BY <2>1, <2>2, <2>3, <1>9
  <2>5. QED
    BY <2>1, <2>4
<1> HIDE DEF h
<1>12. \A i \in 0 .. n : h[i] \in X
  <2> DEFINE S == { i \in 0 .. n : h[i] \in X }
  <2>1. 0 \in S
    BY <1>1, <1>2, <1>10
  <2>2. \A m \in 0 .. n - 1 : m \in S => m + 1 \in S
    <3> SUFFICES ASSUME NEW m \in 0 .. n - 1, m \in S PROVE m + 1 \in S
      OBVIOUS
    <3>1. m + 1 \in 1 .. n /\ m + 1 \in 0 .. n /\ (m + 1) - 1 = m /\ h[m] \in X
      BY <1>1
    <3>2. QED
      BY <3>1, <1>4, <1>11
  <2> HIDE DEF S
  <2>3. 0 .. n \subseteq S
    BY <1>1, <2>1, <2>2, Induction
  <2>4. QED
    BY <2>3 DEF S
<1>13. h \in [0 .. n -> X] /\ QueuedAfter(n) = h[n]
  <2>1. n \in 0 .. n
    BY <1>1
  <2>2. QED
    BY <2>1, <1>3, <1>12 DEF h
<1>14. ASSUME NEW i \in 1 .. n PROVE h[i] = h[i - 1] \o CutOf(i)
  <2>1. h[i - 1] \in Seq(Pieces) /\ s[i] = i /\ i \in 1 .. Len(posted)
    BY <1>1, <1>12 DEF X
  <2>2. QED
    BY <2>1, <1>11, PostDataType
<1>15. QED
  BY <1>10, <1>13, <1>14 DEF X, base

\* Posting one more datagram appends its packets.
LEMMA QueuedStep ==
  ASSUME posted \in Seq(Lens)
  PROVE  /\ QueuedAfter(0) = <<>>
         /\ \A n \in 0 .. Len(posted) : QueuedAfter(n) \in Seq(Pieces)
         /\ \A n \in 1 .. Len(posted) : QueuedAfter(n) = QueuedAfter(n - 1) \o CutOf(n)
<1> DEFINE D == Len(posted)
<1>1. D \in Nat
  OBVIOUS
<1> HIDE DEF D
<1>2. QueuedAfter(0) = <<>>
  <2>1. 0 \in 0 .. D
    BY <1>1
  <2>2. QED
    BY <2>1, PostLoop DEF D
<1>3. \A n \in 0 .. D : QueuedAfter(n) \in Seq(Pieces)
  <2>1. SUFFICES ASSUME NEW n \in 0 .. D PROVE QueuedAfter(n) \in Seq(Pieces)
    OBVIOUS
  <2>2. PICK g \in [0 .. n -> Seq(Pieces)] : QueuedAfter(n) = g[n]
    BY PostLoop DEF D
  <2>3. n \in 0 .. n
    BY <1>1
  <2>4. QED
    BY <2>2, <2>3
<1>4. ASSUME NEW n \in 1 .. D PROVE QueuedAfter(n) = QueuedAfter(n - 1) \o CutOf(n)
  <2>1. n \in 0 .. D /\ n - 1 \in 0 .. D /\ n \in 1 .. n /\ n - 1 \in Nat
    BY <1>1
  <2>2. PICK g \in [0 .. n -> Seq(Pieces)] :
               /\ g[0] = <<>>
               /\ \A i \in 1 .. n : g[i] = g[i - 1] \o CutOf(i)
               /\ QueuedAfter(n) = g[n]
    BY <2>1, PostLoop DEF D
  <2>3. PICK h \in [0 .. n - 1 -> Seq(Pieces)] :
               /\ h[0] = <<>>
               /\ \A i \in 1 .. n - 1 : h[i] = h[i - 1] \o CutOf(i)
               /\ QueuedAfter(n - 1) = h[n - 1]
    BY <2>1, PostLoop DEF D
  <2> DEFINE S == { i \in 0 .. n - 1 : g[i] = h[i] }
  <2>4. 0 \in S
    BY <2>1, <2>2, <2>3
  <2>5. ASSUME NEW m \in 0 .. (n - 1) - 1, m \in S PROVE m + 1 \in S
    <3>1. m + 1 \in 1 .. n /\ m + 1 \in 1 .. n - 1 /\ m + 1 \in 0 .. n - 1 /\ (m + 1) - 1 = m
      BY <2>1
    <3>2. g[m + 1] = g[m] \o CutOf(m + 1)
      BY <2>2, <3>1
    <3>3. h[m + 1] = h[m] \o CutOf(m + 1)
      BY <2>3, <3>1
    <3>4. QED
      BY <2>5, <3>1, <3>2, <3>3
  <2> HIDE DEF S
  <2>6. 0 .. n - 1 \subseteq S
    BY <2>1, <2>4, <2>5, Induction
  <2>7. n - 1 \in S
    BY <2>1, <2>6
  <2>8. g[n - 1] = h[n - 1]
    BY <2>7 DEF S
  <2>9. QED
    BY <2>1, <2>2, <2>3, <2>8
<1>5. QED
  BY <1>2, <1>3, <1>4 DEF D

LEMMA QueueLengths ==
  ASSUME posted \in Seq(Lens)
  PROVE  /\ Len(QueuedAfter(0)) = 0
         /\ \A d \in 0 .. Len(posted) : Len(QueuedAfter(d)) \in Nat
         /\ \A d \in 1 .. Len(posted) :
              Len(QueuedAfter(d)) = Len(QueuedAfter(d - 1)) + PacketsOf(posted[d])
<1>1. Len(QueuedAfter(0)) = 0
  BY QueuedStep
<1>2. ASSUME NEW d \in 0 .. Len(posted) PROVE Len(QueuedAfter(d)) \in Nat
  <2>1. QueuedAfter(d) \in Seq(Pieces)
    BY QueuedStep
  <2>2. QED
    BY <2>1
<1>3. ASSUME NEW d \in 1 .. Len(posted)
      PROVE  Len(QueuedAfter(d)) = Len(QueuedAfter(d - 1)) + PacketsOf(posted[d])
  <2>1. d - 1 \in 0 .. Len(posted)
    OBVIOUS
  <2>2. QueuedAfter(d - 1) \in Seq(Pieces) /\ QueuedAfter(d) = QueuedAfter(d - 1) \o CutOf(d)
    BY <2>1, QueuedStep
  <2>3. CutOf(d) \in Seq(Pieces) /\ Len(CutOf(d)) = PacketsOf(posted[d])
    BY CutFacts
  <2>4. PICK a, b : a = QueuedAfter(d - 1) /\ b = CutOf(d)
    OBVIOUS
  <2>5. QueuedAfter(d) = a \o b /\ a \in Seq(Pieces) /\ b \in Seq(Pieces)
    BY <2>2, <2>3, <2>4
  <2>6. Len(a \o b) = Len(a) + Len(b)
    BY <2>5, ConcatProperties
  <2>7. QED
    BY <2>3, <2>4, <2>5, <2>6
<1>4. QED
  BY <1>1, <1>2, <1>3

\* Every datagram takes at least one packet.
LEMMA QueueGrows ==
  ASSUME posted \in Seq(Lens), NEW d \in 0 .. Len(posted), NEW e \in d .. Len(posted)
  PROVE  Len(QueuedAfter(d)) + (e - d) <= Len(QueuedAfter(e))
<1> DEFINE D == Len(posted)
           L(n) == Len(QueuedAfter(n))
           S == { i \in 0 .. e - d : L(d) + i <= L(d + i) }
<1>1. D \in Nat /\ d \in Nat /\ e \in Nat /\ e - d \in Nat /\ d <= D /\ e <= D
  OBVIOUS
<1> HIDE DEF D
<1>2. \A n \in 0 .. D : L(n) \in Nat
  BY QueueLengths DEF D
<1>3. \A n \in 1 .. D : L(n - 1) + 1 <= L(n)
  <2>1. SUFFICES ASSUME NEW n \in 1 .. D PROVE L(n - 1) + 1 <= L(n)
    OBVIOUS
  <2>2. n \in 1 .. Len(posted)
    BY DEF D
  <2>3. L(n) = L(n - 1) + PacketsOf(posted[n]) /\ PacketsOf(posted[n]) \in Nat \ {0}
    BY <2>2, QueueLengths, CutFacts
  <2>4. n - 1 \in 0 .. D
    BY <1>1
  <2>5. L(n - 1) \in Nat
    BY <1>2, <2>4
  <2> HIDE DEF L
  <2>6. QED
    BY <2>3, <2>5
<1> HIDE DEF L
<1>4. 0 \in S
  <2>1. L(d) \in Nat /\ d + 0 = d /\ 0 \in 0 .. e - d
    BY <1>1, <1>2
  <2>2. QED
    BY <2>1
<1>5. ASSUME NEW m \in 0 .. (e - d) - 1, m \in S PROVE m + 1 \in S
  <2>1. /\ m + 1 \in 0 .. e - d /\ d + (m + 1) \in 1 .. D /\ (d + (m + 1)) - 1 = d + m
        /\ d + m \in 0 .. D /\ d \in 0 .. D /\ m \in Nat
    BY <1>1
  <2>2. L(d + m) + 1 <= L(d + (m + 1))
    BY <1>3, <2>1
  <2>3. L(d) \in Nat /\ L(d + m) \in Nat /\ L(d + (m + 1)) \in Nat
    BY <1>1, <1>2, <2>1
  <2>4. L(d) + m <= L(d + m)
    BY <1>5
  <2>5. L(d) + (m + 1) <= L(d + (m + 1))
    BY <2>1, <2>2, <2>3, <2>4
  <2>6. QED
    BY <2>1, <2>5
<1> HIDE DEF S
<1>6. 0 .. e - d \subseteq S
  BY <1>1, <1>4, <1>5, Induction
<1>7. e - d \in S
  BY <1>1, <1>6
<1>8. d + (e - d) = e
  BY <1>1
<1>9. QED
  BY <1>7, <1>8 DEF S, L

\* The packets of datagram d follow those of the datagrams before it.
LEMMA QueueContents ==
  ASSUME posted \in Seq(Lens), NEW d \in 1 .. Len(posted), NEW k \in 1 .. PacketsOf(posted[d])
  PROVE  /\ Len(QueuedAfter(d - 1)) + k \in 1 .. Len(SndBuf)
         /\ SndBuf[Len(QueuedAfter(d - 1)) + k] = PacketOf(d, posted[d], k)
<1> DEFINE D == Len(posted)
           q == Len(QueuedAfter(d - 1)) + k
           packet == PacketOf(d, posted[d], k)
           S == { i \in 0 .. D - d : q \in 1 .. Len(QueuedAfter(d + i)) /\ QueuedAfter(d + i)[q] = packet }
<1>1. D \in Nat /\ d \in 1 .. D /\ d \in Nat /\ D - d \in Nat /\ d - 1 \in 0 .. D
  OBVIOUS
<1>2. /\ k \in Nat \ {0} /\ CutOf(d) \in Seq(Pieces) /\ k \in 1 .. Len(CutOf(d))
      /\ CutOf(d)[k] = packet
  BY CutFacts
<1>3. \A n \in 1 .. D : CutOf(n) \in Seq(Pieces)
  BY CutFacts
<1>4. /\ \A n \in 0 .. D : QueuedAfter(n) \in Seq(Pieces)
      /\ \A n \in 1 .. D : QueuedAfter(n) = QueuedAfter(n - 1) \o CutOf(n)
  BY QueuedStep
<1>5. Len(QueuedAfter(d - 1)) \in Nat
  BY <1>1, <1>4
<1> HIDE DEF D, packet
<1>6. \A n \in 1 .. D :
        /\ Len(QueuedAfter(n)) = Len(QueuedAfter(n - 1)) + Len(CutOf(n))
        /\ Len(QueuedAfter(n - 1)) \in Nat /\ Len(CutOf(n)) \in Nat
        /\ \A i \in 1 .. Len(QueuedAfter(n - 1)) + Len(CutOf(n)) :
             QueuedAfter(n)[i] = IF i <= Len(QueuedAfter(n - 1)) THEN QueuedAfter(n - 1)[i]
                                 ELSE CutOf(n)[i - Len(QueuedAfter(n - 1))]
  <2>1. SUFFICES ASSUME NEW n \in 1 .. D
        PROVE  LET a == QueuedAfter(n - 1)
                   b == CutOf(n)
               IN  /\ Len(QueuedAfter(n)) = Len(a) + Len(b)
                   /\ Len(a) \in Nat /\ Len(b) \in Nat
                   /\ \A i \in 1 .. Len(a) + Len(b) :
                        QueuedAfter(n)[i] = IF i <= Len(a) THEN a[i] ELSE b[i - Len(a)]
    OBVIOUS
  <2>2. n - 1 \in 0 .. D
    BY <1>1
  <2>3. PICK a, b : a = QueuedAfter(n - 1) /\ b = CutOf(n)
    OBVIOUS
  <2>4. a \in Seq(Pieces) /\ b \in Seq(Pieces) /\ QueuedAfter(n) = a \o b
    BY <1>3, <1>4, <2>2, <2>3
  <2>5. QED
    BY <2>3, <2>4, ConcatProperties
<1>7. 0 \in S
  <2>1. d + 0 = d /\ 0 \in 0 .. D - d
    BY <1>1
  <2>2. q \in 1 .. Len(QueuedAfter(d))
    BY <1>1, <1>2, <1>5, <1>6
  <2>3. q - Len(QueuedAfter(d - 1)) = k /\ ~ (q <= Len(QueuedAfter(d - 1)))
    BY <1>2, <1>5
  <2>4. QueuedAfter(d)[q] = packet
    BY <1>1, <1>2, <1>6, <2>2, <2>3
  <2>5. QED
    BY <2>1, <2>2, <2>4
<1> HIDE DEF q
<1>8. ASSUME NEW m \in 0 .. (D - d) - 1, m \in S PROVE m + 1 \in S
  <2>1. m + 1 \in 0 .. D - d /\ d + (m + 1) \in 1 .. D /\ (d + (m + 1)) - 1 = d + m
    BY <1>1
  <2>2. q \in 1 .. Len(QueuedAfter(d + m)) /\ QueuedAfter(d + m)[q] = packet
    BY <1>8
  <2>3. PICK n \in 1 .. D : n = d + (m + 1)
    BY <2>1
  <2>4. QueuedAfter(n - 1) = QueuedAfter(d + m)
    BY <2>1, <2>3
  <2>5. q \in 1 .. Len(QueuedAfter(n - 1)) + Len(CutOf(n)) /\ q <= Len(QueuedAfter(n - 1))
    BY <1>6, <2>2, <2>4
  <2>6. q \in 1 .. Len(QueuedAfter(n)) /\ QueuedAfter(n)[q] = packet
    BY <1>6, <2>2, <2>4, <2>5
  <2>7. QED
    BY <2>1, <2>3, <2>6
<1> HIDE DEF S
<1>9. 0 .. D - d \subseteq S
  BY <1>1, <1>7, <1>8, Induction
<1>10. D - d \in S /\ d + (D - d) = D
  BY <1>1, <1>9
<1>11. QED
  BY <1>10 DEF S, q, packet, SndBuf, D
-----------------------------------------------------------------------------
AssemblyStates == [buf : Seq(Nat \X Nat), handed : Seq(Seq(Nat \X Nat))]

\* A piece of datagram d up to its n-th unit, from the first one if d fits the buffer.
EndsAt(units, d, n) ==
  \E m \in 0 .. n - 1 : units = Units(d, m, n) /\ (Fits(d) => m = 0)

\* What reliablePacketCallback has after the first n packets: the datagrams that
\* are complete are handed over, and the buffer ends with what came of the next.
Assembled(n, s) ==
  LET h     == Len(s.handed)
      begun == n - Len(QueuedAfter(h))
  IN  /\ s \in AssemblyStates
      /\ h \in 0 .. Len(posted) /\ begun >= 0
      /\ h < Len(posted) => n < Len(QueuedAfter(h + 1))
      /\ \A d \in 1 .. h : EndsAt(s.handed[d], d, posted[d])
      /\ begun > 0 => EndsAt(s.buf, h + 1, begun * DataLen)

LEMMA ReassembleType ==
  ASSUME NEW s \in AssemblyStates, NEW p \in Pieces
  PROVE  Reassemble(s, p) \in AssemblyStates
<1> DEFINE kept == IF p.type = "START" \/ Overflows(s.buf, p) THEN <<>> ELSE s.buf
           U == Nat \X Nat
<1>1. s.buf \in Seq(U) /\ s.handed \in Seq(Seq(U)) /\ p.units \in Seq(U)
  BY DEF AssemblyStates, Pieces
<1> HIDE DEF U
<1>2. kept \in Seq(U)
  BY <1>1
<1> HIDE DEF kept
<1>3. kept \o p.units \in Seq(U)
  BY <1>1, <1>2, ConcatProperties
<1>4. /\ Append(s.handed, p.units) \in Seq(Seq(U)) /\ Append(s.handed, kept \o p.units) \in Seq(Seq(U))
      /\ <<>> \in Seq(U)
  BY <1>1, <1>3
<1>5. Reassemble(s, p) =
        IF p.type = "ONLY" THEN [buf |-> <<>>, handed |-> Append(s.handed, p.units)]
        ELSE IF p.type = "STOP" THEN [buf |-> <<>>, handed |-> Append(s.handed, kept \o p.units)]
        ELSE [buf |-> kept \o p.units, handed |-> s.handed]
  BY DEF Reassemble, kept
<1>6. QED
  BY <1>1, <1>3, <1>4, <1>5 DEF AssemblyStates, U

\* What the buffer holds once the k-th packet of a datagram is copied behind it.
LEMMA BufferGrows ==
  ASSUME posted \in Seq(Lens), NEW d \in 1 .. Len(posted), NEW k \in 1 .. PacketsOf(posted[d]),
         PacketsOf(posted[d]) # 1, NEW buf, k > 1 => EndsAt(buf, d, (k - 1) * DataLen)
  PROVE  LET p    == PacketOf(d, posted[d], k)
             kept == IF p.type = "START" \/ Overflows(buf, p) THEN <<>> ELSE buf
             upto == IF k = PacketsOf(posted[d]) THEN posted[d] ELSE k * DataLen
         IN  EndsAt(kept \o p.units, d, upto)
<1> DEFINE len == posted[d]
           q == PacketsOf(len)
           p == PacketOf(d, len, k)
           from == (k - 1) * DataLen
           upto == IF k = q THEN len ELSE k * DataLen
           kept == IF p.type = "START" \/ Overflows(buf, p) THEN <<>> ELSE buf
<1> SUFFICES EndsAt(kept \o p.units, d, upto)
  OBVIOUS
<1>1. d \in Nat /\ len \in Nat \ {0} /\ q \in Nat \ {0} /\ q # 1 /\ k \in Nat /\ 1 <= k /\ k <= q
  BY CutFacts
<1>2. DataLen \in Nat \ {0} /\ DgramBufMaxLen \in Nat
  BY DatagramAssumption
<1>3. /\ from \in Nat /\ upto \in Nat /\ from < upto /\ upto <= len
      /\ p.units = Units(d, from, upto) /\ p \in Pieces
      /\ p.type = "START" <=> k = 1
  BY <1>1, PacketOfFacts
<1>4. k = 1 => from = 0
  BY <1>2
<1>5. k > 1 => EndsAt(buf, d, from)
  OBVIOUS
<1>6. Fits(d) <=> len <= DgramBufMaxLen
  BY DEF Fits
<1> HIDE DEF len, q, p, from, upto
<1>7. CASE kept = <<>> /\ (k = 1 \/ ~Fits(d))
  <2>1. p.units \in Seq(Nat \X Nat)
    BY <1>3 DEF Pieces
  <2>2. <<>> \o p.units = p.units
    BY <2>1
  <2>3. kept \o p.units = Units(d, from, upto)
    BY <1>3, <1>7, <2>2
  <2>4. from \in 0 .. upto - 1
    BY <1>3
  <2> HIDE DEF kept
  <2>5. QED
    BY <1>4, <1>7, <2>3, <2>4 DEF EndsAt
<1>8. CASE kept = buf /\ k > 1
  <2>1. PICK m \in 0 .. from - 1 : buf = Units(d, m, from) /\ (Fits(d) => m = 0)
    BY <1>5, <1>8 DEF EndsAt
  <2>2. m \in Nat /\ m <= from /\ m \in 0 .. upto - 1
    BY <1>3
  <2>3. Units(d, m, from) \o Units(d, from, upto) = Units(d, m, upto)
    <3>1. from \in Nat /\ upto \in Nat /\ from <= upto
      BY <1>3
    <3>2. QED
      BY <2>2, <3>1, JoinedUnits
  <2>4. kept \o p.units = Units(d, m, upto)
    BY <1>3, <1>8, <2>1, <2>3
  <2> HIDE DEF kept
  <2>5. QED
    BY <2>1, <2>2, <2>4 DEF EndsAt
<1>9. CASE k > 1 /\ Fits(d)
  <2>1. 0 < from
    BY <1>1, <1>2, <1>9 DEF from
  <2>2. buf = Units(d, 0, from)
    BY <1>5, <1>9 DEF EndsAt
  <2>3. Len(buf) = from /\ Len(p.units) = upto - from
    <3>1. /\ 0 \in Nat /\ 0 <= from /\ from - 0 = from
          /\ from \in Nat /\ upto \in Nat /\ from <= upto /\ upto <= upto
      BY <1>3, <2>1
    <3>2. Len(Units(d, 0, from)) = from /\ Len(Units(d, from, upto)) = upto - from
      BY <3>1, JoinedUnits
    <3>3. QED
      BY <1>3, <2>2, <3>2
  <2>4. ~Overflows(buf, p)
    BY <1>1, <1>2, <1>3, <1>6, <1>9, <2>3 DEF Overflows
  <2>5. kept = buf
    BY <1>3, <1>9, <2>4
  <2>6. QED
    BY <1>8, <1>9, <2>5
<1>10. QED
  <2>1. k = 1 => kept = <<>>
    BY <1>3
  <2>2. kept = <<>> \/ kept = buf
    OBVIOUS
  <2> HIDE DEF kept
  <2>3. CASE k = 1
    BY <1>7, <2>1, <2>3 DEF kept
  <2>4. CASE k # 1
    <3>1. k > 1
      BY <1>1, <2>4
    <3>2. QED
      BY <1>7, <1>8, <1>9, <2>2, <3>1 DEF kept
  <2>5. QED
    BY <2>3, <2>4

\* The next packet of the queue keeps the datagrams whole.
LEMMA AssemblyStep ==
  ASSUME posted \in Seq(Lens), NEW n \in Nat, n < Len(SndBuf), NEW s, Assembled(n, s)
  PROVE  Assembled(n + 1, Reassemble(s, SndBuf[n + 1]))
<1> DEFINE D == Len(posted)
           h == Len(s.handed)
           d == h + 1
           start == Len(QueuedAfter(h))
           k == n + 1 - start
           len == posted[d]
           q == PacketsOf(len)
           p == PacketOf(d, len, k)
           next == Reassemble(s, p)
           from == (k - 1) * DataLen
           upto == IF k = q THEN len ELSE k * DataLen
<1>1. /\ s \in AssemblyStates /\ h \in 0 .. D /\ n - start >= 0
      /\ h < D => n < Len(QueuedAfter(h + 1))
      /\ \A e \in 1 .. h : EndsAt(s.handed[e], e, posted[e])
      /\ n - start > 0 => EndsAt(s.buf, h + 1, (n - start) * DataLen)
  BY DEF Assembled
<1>2. D \in Nat /\ h \in Nat /\ s.handed \in Seq(Seq(Nat \X Nat)) /\ s.buf \in Seq(Nat \X Nat)
  BY <1>1 DEF AssemblyStates
<1>3. start \in Nat
  BY <1>1, QueueLengths
<1>4. h < D
  <2>1. SUFFICES ASSUME ~(h < D) PROVE FALSE
    OBVIOUS
  <2>2. h = D
    BY <1>1, <1>2, <2>1
  <2>3. start = Len(SndBuf)
    BY <2>2 DEF SndBuf
  <2> HIDE DEF start, h, D
  <2>4. QED
    BY <1>1, <1>3, <2>3
<1>5. d \in 1 .. D /\ d - 1 = h
  BY <1>2, <1>4
<1>6. /\ Len(QueuedAfter(d)) = start + q /\ n < Len(QueuedAfter(d))
      /\ len \in Nat \ {0} /\ q \in Nat \ {0}
  <2>1. Len(QueuedAfter(d)) = Len(QueuedAfter(d - 1)) + PacketsOf(posted[d])
    BY <1>5, QueueLengths
  <2>2. posted[d] \in Nat \ {0} /\ PacketsOf(posted[d]) \in Nat \ {0}
    BY <1>5, CutFacts
  <2>3. QED
    BY <1>1, <1>4, <1>5, <2>1, <2>2
<1> HIDE DEF h, start
<1>7. k \in 1 .. q /\ start + k = n + 1
  <2> HIDE DEF q
  <2>1. QED
    BY <1>1, <1>3, <1>6
<1>8. SndBuf[n + 1] = p
  <2>1. SndBuf[Len(QueuedAfter(d - 1)) + k] = p
    BY <1>5, <1>7, QueueContents
  <2>2. QED
    BY <1>5, <1>7, <2>1 DEF start
<1> SUFFICES Assembled(n + 1, next)
  BY <1>8
<1>9. /\ p \in Pieces
      /\ from \in Nat /\ upto \in Nat /\ from < upto /\ upto <= len
      /\ p.units = Units(d, from, upto)
      /\ p.type = IF q = 1 THEN "ONLY" ELSE IF k = 1 THEN "START"
                  ELSE IF k = q THEN "STOP" ELSE "MIDDLE"
  <2>1. d \in Nat
    BY <1>2
  <2> HIDE DEF k, d, len
  <2>2. QED
    BY <1>6, <1>7, <2>1, PacketOfFacts
<1>10. next \in AssemblyStates
  BY <1>1, <1>9, ReassembleType
<1> DEFINE kept == IF p.type = "START" \/ Overflows(s.buf, p) THEN <<>> ELSE s.buf
<1>11. q # 1 => EndsAt(kept \o p.units, d, upto)
  <2>1. SUFFICES ASSUME q # 1 PROVE EndsAt(kept \o p.units, d, upto)
    OBVIOUS
  <2>2. n - start = k - 1
    BY <1>3
  <2>3. k > 1 => EndsAt(s.buf, d, (k - 1) * DataLen)
    <3>1. SUFFICES ASSUME k > 1 PROVE EndsAt(s.buf, d, (k - 1) * DataLen)
      OBVIOUS
    <3>2. n - start > 0
      BY <1>3, <3>1
    <3>3. EndsAt(s.buf, d, (n - start) * DataLen)
      BY <1>1, <3>2
    <3>4. QED
      BY <2>2, <3>3
  <2>4. QED
    BY <1>5, <1>7, <2>1, <2>3, BufferGrows
<1>12. next = IF p.type = "ONLY" THEN [buf |-> <<>>, handed |-> Append(s.handed, p.units)]
              ELSE IF p.type = "STOP" THEN [buf |-> <<>>, handed |-> Append(s.handed, kept \o p.units)]
              ELSE [buf |-> kept \o p.units, handed |-> s.handed]
  BY DEF Reassemble
<1>13. q = 1 => EndsAt(p.units, d, len)
  <2>1. SUFFICES ASSUME q = 1 PROVE EndsAt(p.units, d, len)
    OBVIOUS
  <2>2. k = 1
    BY <1>7, <2>1
  <2>3. from = 0 /\ upto = len
    <3>1. DataLen \in Nat
      BY DatagramAssumption
    <3>2. QED
      BY <2>1, <2>2, <3>1
  <2>4. 0 \in 0 .. len - 1 /\ p.units = Units(d, 0, len)
    BY <1>6, <1>9, <2>3
  <2> HIDE DEF p
  <2>5. QED
    BY <2>4 DEF EndsAt
<1> HIDE DEF next, kept, p, k, q, from
<1>14. CASE k = q
  <2>1. PICK u : next.handed = Append(s.handed, u) /\ EndsAt(u, d, len)
    <3>1. CASE q = 1
      BY <1>9, <1>12, <1>13, <3>1
    <3>2. CASE q # 1
      <4>1. p.type = "STOP"
        BY <1>9, <1>14, <3>2
      <4>2. EndsAt(kept \o p.units, d, len)
        BY <1>11, <1>14, <3>2
      <4>3. QED
        BY <1>12, <4>1, <4>2
    <3>3. QED
      BY <3>1, <3>2
  <2>2. /\ Len(next.handed) = d
        /\ \A e \in 1 .. d : next.handed[e] = IF e = d THEN u ELSE s.handed[e]
    <3>1. Len(s.handed) = h
      BY DEF h
    <3>2. QED
      BY <1>2, <2>1, <3>1
  <2>3. n + 1 = Len(QueuedAfter(d))
    BY <1>6, <1>7, <1>14
  <2>4. d < Len(posted) => n + 1 < Len(QueuedAfter(d + 1))
    <3>1. SUFFICES ASSUME d < Len(posted) PROVE n + 1 < Len(QueuedAfter(d + 1))
      OBVIOUS
    <3>2. d \in 0 .. Len(posted) /\ d + 1 \in d .. Len(posted) /\ (d + 1) - d = 1
          /\ d + 1 \in 0 .. Len(posted)
      BY <1>2, <3>1
    <3>3. Len(QueuedAfter(d)) + 1 <= Len(QueuedAfter(d + 1))
      BY <3>2, QueueGrows
    <3>4. Len(QueuedAfter(d)) \in Nat /\ Len(QueuedAfter(d + 1)) \in Nat
      BY <3>2, QueueLengths
    <3>5. QED
      BY <2>3, <3>3, <3>4
  <2>5. \A e \in 1 .. d : EndsAt(next.handed[e], e, posted[e])
    <3>1. SUFFICES ASSUME NEW e \in 1 .. d PROVE EndsAt(next.handed[e], e, posted[e])
      OBVIOUS
    <3>2. CASE e = d
      BY <2>1, <2>2, <3>2
    <3>3. CASE e # d
      <4>1. e \in 1 .. h
        BY <1>2, <3>3
      <4>2. QED
        BY <1>1, <2>2, <3>3, <4>1
    <3>4. QED
      BY <3>2, <3>3
  <2>6. d \in 0 .. Len(posted)
    BY <1>5
  <2>7. (n + 1) - Len(QueuedAfter(d)) = 0
    BY <2>3
  <2> HIDE DEF d
  <2>8. QED
    BY <1>10, <2>2, <2>4, <2>5, <2>6, <2>7 DEF Assembled
<1>15. CASE k # q
  <2>1. q # 1 /\ k < q
    BY <1>6, <1>7, <1>15
  <2>2. next.handed = s.handed /\ next.buf = kept \o p.units
    BY <1>9, <1>12, <1>15, <2>1
  <2>3. EndsAt(next.buf, d, k * DataLen)
    BY <1>11, <1>15, <2>1, <2>2
  <2>4. Len(next.handed) = h
    BY <2>2 DEF h
  <2>5. (n + 1) - Len(QueuedAfter(h)) = k /\ k >= 0
    BY <1>3, <1>7 DEF start
  <2>6. n + 1 < Len(QueuedAfter(h + 1))
    BY <1>3, <1>6, <1>7, <2>1
  <2>7. \A e \in 1 .. h : EndsAt(next.handed[e], e, posted[e])
    BY <1>1, <2>2
  <2>8. QED
    BY <1>1, <1>10, <2>3, <2>4, <2>5, <2>6, <2>7 DEF Assembled
<1>16. QED
  BY <1>14, <1>15

\* The states that a run of callbacks goes through.
LEMMA AssemblyLoop ==
  ASSUME NEW first \in AssemblyStates, NEW s \in Seq(Pieces)
  PROVE  \E g \in [0 .. Len(s) -> AssemblyStates] :
           /\ g[0] = first
           /\ \A i \in 1 .. Len(s) : g[i] = Reassemble(g[i - 1], s[i])
           /\ FoldLeft(Reassemble, first, s) = g[Len(s)]
<1> DEFINE n == Len(s)
           X == AssemblyStates
           base == first
           Op == [p \in X \X (1 .. n) |-> Reassemble(p[1], s[p[2]])]
           Eq(g) == g = [t \in SUBSET (1 .. n) |->
                           IF t = {} THEN base ELSE Reassemble(g[t \ {Max(t)}], s[Max(t)])]
           it == CHOOSE g : Eq(g)
<1>1. n \in Nat /\ DOMAIN s = 1 .. n
  OBVIOUS
<1>2. base \in X
  OBVIOUS
<1>3. FoldLeft(Reassemble, first, s) = it[1 .. n]
  BY <1>1 DEF FoldLeft, MapThenFoldSet
<1> HIDE DEF n, X, base
<1>4. \A x \in X, i \in 1 .. n : Reassemble(x, s[i]) \in X
  <2>1. \A i \in 1 .. n : s[i] \in Pieces
    BY DEF n
  <2>2. QED
    BY <2>1, ReassembleType DEF X
<1>5. Op \in [X \X (1 .. n) -> X]
  BY <1>4
<1>6. \A x \in X, i \in 1 .. n : Op[<<x, i>>] = Reassemble(x, s[i])
  OBVIOUS
<1> HIDE DEF Op
<1>7. PICK g : FoldEquation(g, X, base, n, Op)
  BY <1>1, <1>2, <1>5, FoldExists
<1>8. Eq(g)
  <2>1. ASSUME NEW t \in SUBSET (1 .. n)
        PROVE  g[t] = IF t = {} THEN base ELSE Reassemble(g[t \ {Max(t)}], s[Max(t)])
    <3>1. CASE t = {}
      BY <3>1, <1>7 DEF FoldEquation
    <3>2. CASE t # {}
      <4>1. Max(t) \in 1 .. n /\ t \ {Max(t)} \in SUBSET (1 .. n)
        BY <3>2, <1>1, MaxOfIndices
      <4>2. g[t \ {Max(t)}] \in X
        BY <4>1, <1>7 DEF FoldEquation
      <4>3. g[t] = Op[<<g[t \ {Max(t)}], Max(t)>>]
        BY <3>2, <1>7 DEF FoldEquation
      <4>4. QED
        BY <3>2, <4>1, <4>2, <4>3, <1>6
    <3>3. QED
      BY <3>1, <3>2
  <2>2. g = [t \in SUBSET (1 .. n) |-> g[t]]
    BY <1>7 DEF FoldEquation
  <2>3. QED
    BY <2>1, <2>2
<1>9. Eq(it)
  BY <1>8
<1> HIDE DEF it
<1> DEFINE h == [i \in 0 .. n |-> it[1 .. i]]
<1>10. h[0] = base
  <2>1. 1 .. 0 = {} /\ 1 .. 0 \in SUBSET (1 .. n) /\ 0 \in 0 .. n
    BY <1>1
  <2>2. QED
    BY <2>1, <1>9
<1>11. ASSUME NEW i \in 1 .. n PROVE h[i] = Reassemble(h[i - 1], s[i])
  <2>1. i \in Nat \ {0} /\ i \in 1 .. i /\ i \in 0 .. n /\ i - 1 \in 0 .. n
    BY <1>1
  <2>2. 1 .. i \in SUBSET (1 .. n)
    BY <1>1
  <2>3. Max(1 .. i) = i /\ (1 .. i) \ {i} = 1 .. i - 1
    BY <2>1, MaxOfPrefix
  <2>4. it[1 .. i] = Reassemble(it[1 .. i - 1], s[i])
    BY <2>1, <2>2, <2>3, <1>9
  <2>5. QED
    BY <2>1, <2>4
<1> HIDE DEF h
<1>12. \A i \in 0 .. n : h[i] \in X
  <2> DEFINE S == { i \in 0 .. n : h[i] \in X }
  <2>1. 0 \in S
    BY <1>1, <1>2, <1>10
  <2>2. \A m \in 0 .. n - 1 : m \in S => m + 1 \in S
    <3> SUFFICES ASSUME NEW m \in 0 .. n - 1, m \in S PROVE m + 1 \in S
      OBVIOUS
    <3>1. m + 1 \in 1 .. n /\ m + 1 \in 0 .. n /\ (m + 1) - 1 = m /\ h[m] \in X
      BY <1>1
    <3>2. QED
      BY <3>1, <1>4, <1>11
  <2> HIDE DEF S
  <2>3. 0 .. n \subseteq S
    BY <1>1, <2>1, <2>2, Induction
  <2>4. QED
    BY <2>3 DEF S
<1>13. h \in [0 .. n -> X] /\ FoldLeft(Reassemble, first, s) = h[n]
  <2>1. n \in 0 .. n
    BY <1>1
  <2>2. QED
    BY <2>1, <1>3, <1>12 DEF h
<1>14. QED
  BY <1>10, <1>11, <1>13 DEF n, X, base

\* One callback after the other, the packets n + 1 to n + k keep the datagrams whole.
LEMMA AssemblySteps ==
  ASSUME posted \in Seq(Lens), NEW n \in Nat, NEW k \in Nat, n + k <= Len(SndBuf),
         NEW first, Assembled(n, first)
  PROVE  Assembled(n + k, FoldLeft(Reassemble, first, [i \in 1 .. k |-> SndBuf[n + i]]))
<1> DEFINE s == [i \in 1 .. k |-> SndBuf[n + i]]
<1>1. SndBuf \in Seq(Pieces)
  <2>1. Len(posted) \in 0 .. Len(posted)
    OBVIOUS
  <2>2. QED
    BY <2>1, QueuedStep DEF SndBuf
<1>2. s \in Seq(Pieces) /\ Len(s) = k /\ \A i \in 1 .. k : s[i] = SndBuf[n + i]
  <2>1. PICK l \in Nat : l = Len(SndBuf) /\ \A i \in 1 .. l : SndBuf[i] \in Pieces
    BY <1>1
  <2>2. \A i \in 1 .. k : n + i \in 1 .. l
    BY <2>1
  <2>3. \A i \in 1 .. k : SndBuf[n + i] \in Pieces
    BY <2>1, <2>2
  <2>4. QED
    BY <2>3
<1>3. first \in AssemblyStates
  BY DEF Assembled
<1> HIDE DEF s
<1>4. PICK g \in [0 .. k -> AssemblyStates] :
             /\ g[0] = first
             /\ \A i \in 1 .. k : g[i] = Reassemble(g[i - 1], s[i])
             /\ FoldLeft(Reassemble, first, s) = g[k]
  BY <1>2, <1>3, AssemblyLoop
<1> DEFINE S == { i \in 0 .. k : Assembled(n + i, g[i]) }
<1>5. 0 \in S
  <2>1. n + 0 = n /\ 0 \in 0 .. k
    OBVIOUS
  <2>2. QED
    BY <1>4, <2>1
<1>6. ASSUME NEW m \in 0 .. k - 1, m \in S PROVE m + 1 \in S
  <2>1. m + 1 \in 0 .. k /\ m + 1 \in 1 .. k /\ (m + 1) - 1 = m /\ n + (m + 1) = (n + m) + 1
    OBVIOUS
  <2>2. n + m \in Nat /\ n + m < Len(SndBuf)
    <3>1. Len(SndBuf) \in Nat
      BY <1>1
    <3>2. QED
      BY <3>1
  <2>3. Assembled(n + m, g[m])
    BY <1>6
  <2>4. Assembled((n + m) + 1, Reassemble(g[m], SndBuf[(n + m) + 1]))
    BY <2>2, <2>3, AssemblyStep
  <2>5. g[m + 1] = Reassemble(g[m], SndBuf[(n + m) + 1])
    BY <1>2, <1>4, <2>1
  <2>6. QED
    BY <2>1, <2>4, <2>5
<1> HIDE DEF S
<1>7. 0 .. k \subseteq S
  BY <1>5, <1>6, Induction
<1>8. k \in S
  BY <1>7
<1>9. QED
  BY <1>4, <1>8 DEF S, s
-----------------------------------------------------------------------------
AssemblyInv ==
  /\ posted \in Seq(Lens)
  /\ Len(SndBuf) = Packets
  /\ Assembled(Len(callbacks), [buf |-> dgramBuf, handed |-> handed])

LEMMA QueueStays ==
  ASSUME posted' = posted
  PROVE  \A n : QueuedAfter(n)' = QueuedAfter(n)
  BY DEF QueuedAfter, PostData, PacketOf, PacketsOf, Units, FoldLeft, MapThenFoldSet

LEMMA CallbacksAppended ==
  ASSUME Sets!NoWrap, ListInv, ListNext
  PROVE  Len(callbacks) <= Len(callbacks')
<1>1. callbacks \in Seq(Nat)
  <2>1. PICK k \in Nat : k = left - InitSeq
    BY PlainNumbers DEF ListInv, EdgesInv
  <2>2. callbacks = [i \in 1 .. k |-> InitSeq + i] /\ InitSeq \in Nat
    BY <2>1, PlainNumbers DEF ListInv, CallbacksOnceInOrder
  <2>3. QED
    BY <2>2
<1>2. CASE UNCHANGED callbacks
  BY <1>1, <1>2
<1>3. ASSUME NEW seq \in Sets!PeerSeqs, ReceiveInOrder(seq) PROVE Len(callbacks) <= Len(callbacks')
  <2> DEFINE run == <<seq>> \o SubSeq(packetList, 1, Drained(seq))
  <2>1. seq = left + 1 /\ seq \in Nat
    <3>1. /\ InitSeq \in Nat /\ LastSeq \in Nat /\ LastSeq < MaxSeq /\ MaxSeq \in Nat
          /\ seq \in InitSeq + 1 .. LastSeq /\ left \in InitSeq .. LastSeq
      BY PlainNumbers DEF ListInv, EdgesInv
    <3>2. ContinuousSeqNumber(left, seq)
      BY <1>3 DEF ReceiveInOrder
    <3>3. QED
      BY <3>1, <3>2 DEF ContinuousSeqNumber
  <2>2. Drained(seq) \in 0 .. Len(packetList)
    BY <2>1, DrainedFacts
  <2>3. packetList \in Seq(Nat)
    BY DEF ListInv, ListsInv, SortedLists
  <2>4. SubSeq(packetList, 1, Drained(seq)) \in Seq(Nat)
    BY <2>2, <2>3
  <2>5. run \in Seq(Nat)
    BY <2>1, <2>4
  <2>6. callbacks' = callbacks \o run
    BY <1>3 DEF ReceiveInOrder
  <2> HIDE DEF run
  <2>7. Len(callbacks') = Len(callbacks) + Len(run) /\ Len(run) \in Nat /\ Len(callbacks) \in Nat
    BY <1>1, <2>5, <2>6
  <2>8. QED
    BY <2>7
<1>4. QED
  BY <1>2, <1>3 DEF ListNext, HandleDataPacket, ReceiveOutOfOrder, AckTask, HandleAck2Packet

\* The callbacks of a step are the next packets of the queue.
LEMMA AssemblyKept ==
  ASSUME Sets!NoWrap, ListInv, ListInv', AssemblyInv, DgramNext
  PROVE  AssemblyInv'
<1> DEFINE n == Len(callbacks)
           k == Len(callbacks') - n
           new == SubSeq(callbacks', Len(callbacks) + 1, Len(callbacks'))
           first == [buf |-> dgramBuf, handed |-> handed]
           packets == [i \in 1 .. Len(new) |-> SndBuf[new[i] - InitSeq]]
           last == FoldLeft(Reassemble, first, packets)
<1>1. InitSeq \in Nat /\ LastSeq = InitSeq + Packets /\ Packets \in Nat
  BY PlainNumbers, SeqAssumption DEF LastSeq
<1>2. /\ callbacks' \in Seq(Nat) /\ Len(callbacks') \in 0 .. Packets
      /\ \A i \in 1 .. Len(callbacks') : callbacks'[i] = InitSeq + i
  <2>1. PICK l \in 0 .. Packets : l = left' - InitSeq
    <3>1. left' \in InitSeq .. LastSeq
      <4>1. EdgesInv'
        BY DEF ListInv
      <4>2. QED
        BY <4>1 DEF EdgesInv, LastSeq
    <3>2. PICK edge \in InitSeq .. LastSeq : edge = left'
      BY <3>1
    <3>3. edge - InitSeq \in 0 .. Packets
      BY <1>1
    <3>4. QED
      BY <3>2, <3>3
  <2>2. callbacks' = [i \in 1 .. l |-> InitSeq + i]
    BY <2>1 DEF ListInv, CallbacksOnceInOrder
  <2>3. QED
    BY <1>1, <2>1, <2>2
<1>3. n \in Nat /\ n <= Len(callbacks')
  <2>1. PICK l \in Nat : l = left - InitSeq
    BY <1>1 DEF ListInv, EdgesInv
  <2>2. callbacks = [i \in 1 .. l |-> InitSeq + i]
    BY <2>1 DEF ListInv, CallbacksOnceInOrder
  <2>3. n \in Nat
    BY <2>1, <2>2
  <2>4. QED
    BY <2>3, CallbacksAppended DEF DgramNext
<1>4. k \in Nat /\ n + k = Len(callbacks')
  BY <1>2, <1>3
<1>5. Len(new) = k /\ \A i \in 1 .. k : new[i] = InitSeq + (n + i)
  <2>1. \A i \in n + 1 .. Len(callbacks') : callbacks'[i] \in Nat
    BY <1>2, <1>3
  <2>2. /\ Len(new) = IF n + 1 <= Len(callbacks') THEN Len(callbacks') - (n + 1) + 1 ELSE 0
        /\ \A i \in 1 .. Len(callbacks') - (n + 1) + 1 : new[i] = callbacks'[(n + 1) + i - 1]
    BY <1>2, <1>3, <2>1, SubSeqProperties
  <2> HIDE DEF new
  <2>3. Len(new) = k
    BY <1>2, <1>3, <2>2
  <2>4. ASSUME NEW i \in 1 .. k PROVE new[i] = InitSeq + (n + i)
    <3>1. /\ i \in 1 .. Len(callbacks') - (n + 1) + 1 /\ (n + 1) + i - 1 = n + i
          /\ n + i \in 1 .. Len(callbacks')
      BY <1>2, <1>3
    <3>2. QED
      BY <1>2, <2>2, <3>1
  <2>5. QED
    BY <2>3, <2>4
<1> HIDE DEF n, k
<1>6. packets = [i \in 1 .. k |-> SndBuf[n + i]]
  <2>1. \A i \in 1 .. k : (InitSeq + (n + i)) - InitSeq = n + i
    BY <1>1, <1>3, <1>4
  <2> HIDE DEF new
  <2>2. QED
    BY <1>5, <2>1
<1>7. posted \in Seq(Lens) /\ Len(SndBuf) = Packets /\ Assembled(n, first)
  BY DEF AssemblyInv, n
<1>8. n + k <= Len(SndBuf)
  BY <1>2, <1>4, <1>7
<1>9. Assembled(n + k, FoldLeft(Reassemble, first, [i \in 1 .. k |-> SndBuf[n + i]]))
  <2> HIDE DEF first
  <2>1. QED
    BY <1>3, <1>4, <1>7, <1>8, AssemblySteps
<1>10. Assembled(n + k, last)
  <2> HIDE DEF first, packets
  <2>1. QED
    BY <1>6, <1>9
<1>11. dgramBuf' = last.buf /\ handed' = last.handed /\ posted' = posted
  BY DEF DgramNext, Reassembled
<1> HIDE DEF last
<1>12. last = [buf |-> dgramBuf', handed |-> handed']
  <2>1. last \in AssemblyStates
    BY <1>10 DEF Assembled
  <2>2. last = [buf |-> last.buf, handed |-> last.handed]
    BY <2>1 DEF AssemblyStates
  <2>3. QED
    BY <1>11, <2>2
<1>13. Assembled(Len(callbacks'), [buf |-> dgramBuf', handed |-> handed'])
  BY <1>4, <1>10, <1>12
<1>14. Len(SndBuf)' = Packets
  BY <1>7, <1>11, QueueStays DEF SndBuf
<1>15. QED
  <2>1. \A i : QueuedAfter(i)' = QueuedAfter(i)
    BY <1>11, QueueStays
  <2>2. \A units, d, i : EndsAt(units, d, i)' <=> EndsAt(units, d, i)
    BY <1>11 DEF EndsAt, Fits
  <2>3. Assembled(Len(callbacks), [buf |-> dgramBuf, handed |-> handed])'
    BY <1>11, <1>13, <2>1, <2>2 DEF Assembled
  <2>4. QED
    BY <1>7, <1>11, <1>14, <2>3 DEF AssemblyInv

LEMMA InitEstablishesAssembly ==
  ASSUME DgramInit
  PROVE  AssemblyInv
<1> DEFINE first == [buf |-> dgramBuf, handed |-> handed]
<1>1. dgramBuf = <<>> /\ handed = <<>> /\ callbacks = <<>> /\ Len(SndBuf) = Packets
  BY DEF DgramInit, ListInit
<1>2. posted \in Seq(Lens)
  BY DEF DgramInit, BoundedSeq, SeqOf
<1>3. first \in AssemblyStates /\ Len(first.handed) = 0 /\ Len(callbacks) = 0 /\ Len(posted) \in Nat
  BY <1>1, <1>2 DEF AssemblyStates
<1>4. Len(QueuedAfter(0)) = 0
  BY <1>2, QueueLengths
<1>5. 0 < Len(posted) => 0 < Len(QueuedAfter(0 + 1))
  <2>1. SUFFICES ASSUME 0 < Len(posted) PROVE 0 < Len(QueuedAfter(0 + 1))
    OBVIOUS
  <2>2. 0 \in 0 .. Len(posted) /\ 1 \in 0 .. Len(posted) /\ 1 \in 0 .. Len(posted) /\ 0 + 1 = 1
    BY <1>3, <2>1
  <2>3. Len(QueuedAfter(0)) + (1 - 0) <= Len(QueuedAfter(1))
    BY <1>2, <2>2, QueueGrows
  <2>4. Len(QueuedAfter(1)) \in Nat
    BY <1>2, <2>2, QueueLengths
  <2>5. QED
    BY <1>4, <2>2, <2>3, <2>4
<1> HIDE DEF first
<1>6. Assembled(0, first)
  BY <1>3, <1>4, <1>5 DEF Assembled
<1>7. QED
  BY <1>1, <1>2, <1>3, <1>6 DEF AssemblyInv, first

\* What is complete among the packets handed over is what was handed on.
LEMMA AssembledAreComplete ==
  ASSUME AssemblyInv, Len(callbacks) \in Nat
  PROVE  DatagramsArriveWhole
<1> DEFINE n == Len(callbacks)
           D == Len(posted)
           h == Len(handed)
           complete == { d \in 0 .. D : Len(QueuedAfter(d)) <= n }
<1>1. /\ posted \in Seq(Lens) /\ h \in 0 .. D /\ n - Len(QueuedAfter(h)) >= 0
      /\ h < D => n < Len(QueuedAfter(h + 1))
      /\ \A d \in 1 .. h : EndsAt(handed[d], d, posted[d])
  BY DEF AssemblyInv, Assembled
<1>2. D \in Nat /\ n \in Nat
  BY <1>1
<1>3. \A d \in 0 .. D : Len(QueuedAfter(d)) \in Nat
  BY <1>1, QueueLengths
<1> HIDE DEF n, D, h
<1>4. h \in Nat
  BY <1>1, <1>2
<1>5. h \in complete
  <2>1. Len(QueuedAfter(h)) \in Nat
    BY <1>1, <1>3
  <2>2. QED
    BY <1>1, <1>2, <2>1
<1>6. ASSUME NEW d \in complete PROVE d <= h
  <2>1. SUFFICES ASSUME ~(d <= h) PROVE FALSE
    OBVIOUS
  <2>2. d \in h + 1 .. D /\ h < D /\ h + 1 \in 0 .. D /\ d - (h + 1) \in Nat /\ d \in 0 .. D
    BY <1>2, <1>4, <2>1
  <2>3. Len(QueuedAfter(h + 1)) + (d - (h + 1)) <= Len(QueuedAfter(d))
    BY <1>1, <2>2, QueueGrows DEF D
  <2>4. Len(QueuedAfter(h + 1)) \in Nat /\ Len(QueuedAfter(d)) \in Nat
    BY <1>3, <2>2
  <2>5. Len(QueuedAfter(d)) <= n /\ n < Len(QueuedAfter(h + 1))
    BY <1>1, <2>2
  <2>6. QED
    BY <1>2, <2>2, <2>3, <2>4, <2>5
<1>7. h = CompleteIn(n)
  <2>1. complete \subseteq Nat /\ complete # {} /\ \A d \in complete : d <= D
    BY <1>2, <1>5
  <2>2. CompleteIn(n) = Max(complete)
    BY DEF CompleteIn, D
  <2> HIDE DEF complete
  <2>3. Max(complete) \in complete /\ \A d \in complete : d <= Max(complete)
    BY <1>2, <2>1, MaxFacts
  <2>4. Max(complete) <= h /\ h <= Max(complete) /\ Max(complete) \in Nat
    BY <1>5, <1>6, <2>1, <2>3
  <2>5. QED
    BY <1>4, <2>2, <2>4
<1>8. QED
  BY <1>1, <1>7 DEF DatagramsArriveWhole, EndsAt, h, n

\* UDTSocket.cpp:93, :462: whatever order packets arrive in, and however often,
\* every datagram that fits the buffer is handed over whole and once, in the
\* order of posting, as soon as its last packet was delivered; of one that
\* does not fit, some rest of it is handed over and none of another.
THEOREM DatagramsAreNotMixed == ASSUME Sets!NoWrap PROVE DgramSpec => []DatagramsArriveWhole
<1>1. DgramInit => AssemblyInv
  BY InitEstablishesAssembly
<1>2. ListInv /\ ListInv' /\ AssemblyInv /\ [DgramNext]_dgramVars => AssemblyInv'
  <2>1. SUFFICES ASSUME ListInv, ListInv', AssemblyInv, [DgramNext]_dgramVars PROVE AssemblyInv'
    OBVIOUS
  <2>2. CASE DgramNext
    BY <2>1, <2>2, AssemblyKept
  <2>3. CASE UNCHANGED dgramVars
    <3>1. /\ callbacks' = callbacks /\ posted' = posted /\ dgramBuf' = dgramBuf /\ handed' = handed
      BY <2>3 DEF dgramVars, listVars
    <3>2. \A i : QueuedAfter(i)' = QueuedAfter(i)
      BY <3>1, QueueStays
    <3>3. \A units, d, i : EndsAt(units, d, i)' <=> EndsAt(units, d, i)
      BY <3>1 DEF EndsAt, Fits
    <3>4. Assembled(Len(callbacks), [buf |-> dgramBuf, handed |-> handed])'
      BY <2>1, <3>1, <3>2, <3>3 DEF AssemblyInv, Assembled
    <3>5. Len(SndBuf)' = Packets
      BY <2>1, <3>1, <3>2 DEF AssemblyInv, SndBuf
    <3>6. QED
      BY <2>1, <3>1, <3>4, <3>5 DEF AssemblyInv
  <2>4. QED
    BY <2>1, <2>2, <2>3
<1>3. ListInv /\ AssemblyInv => DatagramsArriveWhole
  <2>1. SUFFICES ASSUME ListInv, AssemblyInv PROVE DatagramsArriveWhole
    OBVIOUS
  <2>2. PICK k \in Nat : k = left - InitSeq
    BY <2>1, PlainNumbers DEF ListInv, EdgesInv
  <2>3. callbacks = [i \in 1 .. k |-> InitSeq + i]
    BY <2>1, <2>2 DEF ListInv, CallbacksOnceInOrder
  <2>4. Len(callbacks) \in Nat
    BY <2>3
  <2>5. QED
    BY <2>1, <2>4, AssembledAreComplete
<1>4. DgramSpec => []ListInv
  BY DatagramIsReceiver, ListInvariant, PTL
<1>5. QED
  BY <1>1, <1>2, <1>3, <1>4, PTL DEF DgramSpec
=============================================================================
