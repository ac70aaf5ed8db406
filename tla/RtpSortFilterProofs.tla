-------------------------- MODULE RtpSortFilterProofs --------------------------
(***************************************************************************)
(* Theorems about RtpSortFilter, for every length of the list and of the   *)
(* stream, every first number and every network that does not duplicate    *)
(* and whose losses and lags the filter's comparison of numbers can bridge *)
(* (NumbersSuffice).                                                       *)
(***************************************************************************)
EXTENDS RtpSortFilter, SequenceTheorems, FiniteSetTheorems, WellFoundedInduction, TLAPS

Half == MAX_SEQ_NUMBER \div 2

\* No packet arrives twice, and no packet is further from what the filter expects
\* than half of the numbers: not when it is late, and not when it is the last
\* that a full list waits for after as many losses as the network allows.
NumbersSuffice ==
  /\ Copies = 1
  /\ Lag < Half
  /\ (MaxSize + 1) * (MaxGap + 1) <= Half

\* What was handed over last.
LastSent == sorted[Len(sorted)]

Increasing(s) == \A i, j \in 1 .. Len(s) : i < j => s[i] < s[j]

\* No more than MaxGap positions in a row before the newest packet are empty.
Dense ==
  \A q \in Arrived, x \in Nat :
    (MaxGap < x /\ x <= q) => \E a \in Arrived : x - 1 - MaxGap <= a /\ a < x

\* What has arrived has been handed over, waits, or is behind what was handed over.
ListedOrPassed ==
  IF sorted = <<>>
  THEN seqNumber = -1 /\ sortList = <<>> /\ Arrived = {}
  ELSE /\ seqNumber = Number(LastSent)
       /\ \A i \in 1 .. Len(sortList) : LastSent < sortList[i]
       /\ \A a \in Arrived : a <= LastSent \/ \E i \in 1 .. Len(sortList) : sortList[i] = a

OrderInv ==
  /\ TypeOK
  /\ Increasing(sorted) /\ Increasing(sortList)
  /\ \A i \in 1 .. Len(sorted) : sorted[i] \in Arrived
  /\ \A i \in 1 .. Len(sortList) : sortList[i] \in Arrived
  /\ Len(sortList) <= MaxSize
  /\ Dense
  /\ ListedOrPassed

\* A position passed over has been overtaken by more packets than the list holds.
PassedIsOvertaken ==
  \A x \in Positions :
    (sorted # <<>> /\ sorted[1] < x /\ x < LastSent) =>
      \/ \E i \in 1 .. Len(sorted) : sorted[i] = x
      \/ Cardinality({ q \in Arrived : q > x }) > MaxSize

-----------------------------------------------------------------------------
(***************************************************************************)
(* Numbers and the packets that carry them.                                *)
(***************************************************************************)

LEMMA ModType ==
  ASSUME NEW m \in Nat \ {0}, NEW x \in Nat
  PROVE  x % m \in 0 .. m - 1
OBVIOUS

LEMMA DivMod ==
  ASSUME NEW m \in Nat \ {0}, NEW x \in Nat
  PROVE  /\ x \div m \in Nat
         /\ x = m * (x \div m) + (x % m)
OBVIOUS

\* Division leaves one remainder.
LEMMA OneRemainder ==
  ASSUME NEW m \in Nat \ {0}, NEW a \in Int, NEW b \in Int,
         NEW r \in 0 .. m - 1, NEW t \in 0 .. m - 1, m * a + r = m * b + t
  PROVE  a = b /\ r = t
<1>1. m * (a - b) = t - r
  OBVIOUS
<1>2. a - b = 0
  OBVIOUS
<1> QED
  BY <1>1, <1>2

\* Adding less than the modulus wraps around at most once.
LEMMA ModAdd ==
  ASSUME NEW m \in Nat \ {0}, NEW x \in Nat, NEW d \in 0 .. m - 1
  PROVE  (x + d) % m = IF (x % m) + d < m THEN (x % m) + d ELSE (x % m) + d - m
<1> DEFINE a == x \div m
           r == x % m
           b == (x + d) \div m
           t == (x + d) % m
<1>1. x + d \in Nat
  OBVIOUS
<1>2. a \in Nat /\ b \in Nat /\ r \in 0 .. m - 1 /\ t \in 0 .. m - 1
  BY <1>1, ModType, DivMod
<1>3. x = m * a + r /\ x + d = m * b + t
  BY <1>1, DivMod
<1> HIDE DEF a, r, b, t
<1>4. CASE r + d < m
  <2>1. m * a + (r + d) = m * b + t
    BY <1>2, <1>3
  <2>2. r + d \in 0 .. m - 1
    BY <1>2, <1>4
  <2>3. r + d = t
    BY <2>1, <2>2, <1>2, OneRemainder
  <2> QED
    BY <2>3, <1>4 DEF r, t
<1>5. CASE ~ (r + d < m)
  <2>1. m * (a + 1) = m * a + m
    BY <1>2
  <2>2. m * (a + 1) + (r + d - m) = m * b + t
    BY <1>2, <1>3, <2>1
  <2>3. r + d - m \in 0 .. m - 1 /\ a + 1 \in Int
    BY <1>2, <1>5
  <2>4. r + d - m = t
    <3>1. PICK q : q = r + d - m
      OBVIOUS
    <3>2. PICK c : c = a + 1
      OBVIOUS
    <3>3. q \in 0 .. m - 1 /\ c \in Int /\ m * c + q = m * b + t
      BY <2>2, <2>3, <3>1, <3>2
    <3>4. q = t
      BY <3>3, <1>2, OneRemainder
    <3> QED
      BY <3>1, <3>4
  <2>5. ~ ((x % m) + d < m) /\ (x % m) + d - m = (x + d) % m
    BY <2>4, <1>5 DEF r, t
  <2> QED
    BY <2>5
<1> QED
  BY <1>4, <1>5

LEMMA HalfFacts == Half \in Nat /\ 2 * Half <= MAX_SEQ_NUMBER
<1>1. MAX_SEQ_NUMBER \in Nat
  BY FilterAssumption
<1> QED
  BY <1>1 DEF Half

LEMMA NumberShift ==
  ASSUME NEW p \in Nat, NEW d \in 0 .. MAX_SEQ_NUMBER
  PROVE  /\ Number(p) \in 0 .. MAX_SEQ_NUMBER
         /\ Number(p + d) = IF Number(p) + d <= MAX_SEQ_NUMBER THEN Number(p) + d
                            ELSE Number(p) + d - MAX_SEQ_NUMBER - 1
<1>1. PICK m : m = MAX_SEQ_NUMBER + 1
  OBVIOUS
<1>2. MAX_SEQ_NUMBER \in Nat /\ Start \in Nat /\ m \in Nat \ {0} /\ d \in 0 .. m - 1
  BY <1>1, FilterAssumption
<1>3. PICK x : x = Start + p
  OBVIOUS
<1>4. x \in Nat /\ Start + (p + d) = x + d
  BY <1>2, <1>3
<1>5. /\ x % m \in 0 .. m - 1
      /\ (x + d) % m = IF (x % m) + d < m THEN (x % m) + d ELSE (x % m) + d - m
  BY <1>2, <1>4, ModType, ModAdd
<1>6. Number(p) = x % m /\ Number(p + d) = (x + d) % m
  BY <1>1, <1>3, <1>4 DEF Number
<1>7. QED
  BY <1>1, <1>2, <1>5, <1>6

LEMMA FollowingNumber ==
  ASSUME NEW p \in Nat
  PROVE  Following(Number(p)) = Number(p + 1)
<1>1. MAX_SEQ_NUMBER \in Nat \ {0}
  BY FilterAssumption
<1>2. PICK d : d = 1
  OBVIOUS
<1>3. d \in 0 .. MAX_SEQ_NUMBER
  BY <1>1, <1>2
<1>4. /\ Number(p) \in 0 .. MAX_SEQ_NUMBER
      /\ Number(p + d) = IF Number(p) + d <= MAX_SEQ_NUMBER THEN Number(p) + d
                         ELSE Number(p) + d - MAX_SEQ_NUMBER - 1
  BY <1>3, NumberShift
<1>5. QED
  BY <1>1, <1>2, <1>4 DEF Following

\* Packets whose distance is smaller than the numbers have different numbers.
LEMMA SameNumber ==
  ASSUME NEW a \in Nat, NEW b \in Nat, a <= b, b - a <= MAX_SEQ_NUMBER, Number(a) = Number(b)
  PROVE  a = b
<1>1. PICK d : d = b - a
  OBVIOUS
<1>2. MAX_SEQ_NUMBER \in Nat /\ d \in 0 .. MAX_SEQ_NUMBER /\ b = a + d
  BY <1>1, FilterAssumption
<1>3. /\ Number(a) \in 0 .. MAX_SEQ_NUMBER
      /\ Number(b) = IF Number(a) + d <= MAX_SEQ_NUMBER THEN Number(a) + d
                     ELSE Number(a) + d - MAX_SEQ_NUMBER - 1
  BY <1>2, NumberShift
<1>4. QED
  BY <1>2, <1>3

\* The comparison of numbers is that of the packets while they are near.
LEMMA BeforeIsLess ==
  ASSUME NEW a \in Nat, NEW b \in Nat, a - b <= Half, b - a <= Half
  PROVE  Before(Number(a), Number(b)) <=> a < b
<1>1. PICK m, h, x, y : m = MAX_SEQ_NUMBER /\ h = Half /\ x = Number(a) /\ y = Number(b)
  OBVIOUS
<1>2. m \in Nat /\ h \in Nat /\ 2 * h <= m
  BY <1>1, HalfFacts, FilterAssumption
<1>3. Before(x, y) <=> IF (IF x > y THEN x - y ELSE y - x) > h THEN y < x ELSE x < y
  BY <1>1 DEF Before, Half
<1>4. CASE a <= b
  <2>1. PICK d : d = b - a
    OBVIOUS
  <2>2. d \in 0 .. m /\ b = a + d /\ d <= h
    BY <1>1, <1>2, <1>4, <2>1
  <2>3. x \in 0 .. m /\ y = IF x + d <= m THEN x + d ELSE x + d - m - 1
    BY <1>1, <2>2, NumberShift
  <2>4. Before(x, y) <=> a < b
    <3>1. CASE x + d <= m
      <4>1. y = x + d
        BY <2>3, <3>1
      <4>2. QED
        BY <1>2, <1>3, <2>2, <2>3, <4>1
    <3>2. CASE ~ (x + d <= m)
      <4>1. y = x + d - m - 1 /\ 0 < d
        BY <2>2, <2>3, <3>2
      <4>2. x - y = m + 1 - d /\ y < x /\ m + 1 - d > h
        BY <1>2, <2>2, <2>3, <4>1
      <4>3. QED
        BY <1>2, <1>3, <2>2, <2>3, <4>1, <4>2
    <3>3. QED
      BY <3>1, <3>2
  <2>5. QED
    BY <1>1, <2>4
<1>5. CASE b < a
  <2>1. PICK d : d = a - b
    OBVIOUS
  <2>2. d \in 0 .. m /\ a = b + d /\ d <= h /\ 0 < d
    BY <1>1, <1>2, <1>5, <2>1
  <2>3. y \in 0 .. m /\ x = IF y + d <= m THEN y + d ELSE y + d - m - 1
    BY <1>1, <2>2, NumberShift
  <2>4. ~ Before(x, y)
    <3>1. CASE y + d <= m
      <4>1. x = y + d
        BY <2>3, <3>1
      <4>2. QED
        BY <1>2, <1>3, <2>2, <2>3, <4>1
    <3>2. CASE ~ (y + d <= m)
      <4>1. x = y + d - m - 1
        BY <2>2, <2>3, <3>2
      <4>2. y - x = m + 1 - d /\ x < y /\ m + 1 - d > h
        BY <1>2, <2>2, <2>3, <4>1
      <4>3. QED
        BY <1>2, <1>3, <2>2, <2>3, <4>1, <4>2
    <3>3. QED
      BY <3>1, <3>2
  <2>5. QED
    BY <1>1, <1>5, <2>2, <2>4
<1>6. QED
  BY <1>4, <1>5

\* A packet that is near and carries the following number is the following one.
LEMMA NextNumber ==
  ASSUME NEW a \in Nat, NEW b \in Nat, b - a <= Half, a - b < Half,
         FollowsIn(Number(a), Number(b))
  PROVE  b = a + 1
<1>1. MAX_SEQ_NUMBER \in Nat \ {0} /\ Half \in Nat /\ 2 * Half <= MAX_SEQ_NUMBER
  BY HalfFacts, FilterAssumption
<1>2. PICK c : c = a + 1
  OBVIOUS
<1>3. c \in Nat /\ b - c <= MAX_SEQ_NUMBER /\ c - b <= MAX_SEQ_NUMBER
  BY <1>1, <1>2
<1>4. Number(b) = Number(c)
  <2>1. 0 \in 0 .. MAX_SEQ_NUMBER
    BY <1>1
  <2>2. Number(a) \in 0 .. MAX_SEQ_NUMBER
    BY <2>1, NumberShift
  <2>3. Number(b) = Following(Number(a))
    BY <1>1, <2>2 DEF FollowsIn
  <2>4. QED
    BY <1>2, <2>3, FollowingNumber
<1>5. b = c
  BY <1>1, <1>3, <1>4, SameNumber
<1>6. QED
  BY <1>2, <1>5
-----------------------------------------------------------------------------
(***************************************************************************)
(* Smallest elements, and induction.                                       *)
(***************************************************************************)

LessRel == { p \in Nat \X Nat : p[1] < p[2] }

LEMMA Least ==
  ASSUME NEW S, S \subseteq Nat, S # {}
  PROVE  \E m \in S : \A n \in S : m <= n
<1>1. OpToRel(<, Nat) = LessRel
  BY DEF OpToRel, LessRel
<1>2. IsWellFoundedOn(LessRel, Nat)
  BY <1>1, NatLessThanWellFounded
<1>3. PICK m \in S : \A n \in S : ~ (<<n, m>> \in LessRel)
  BY <1>2, WFMin
<1>4. ASSUME NEW n \in S PROVE m <= n
  <2>1. m \in Nat /\ n \in Nat
    OBVIOUS
  <2>2. SUFFICES ASSUME n < m PROVE FALSE
    BY <2>1
  <2>3. <<n, m>> \in LessRel
    BY <2>1, <2>2 DEF LessRel
  <2>4. QED
    BY <1>3, <2>3
<1>5. QED
  BY <1>4

\* What holds of 0 and of the number after each that it holds of, holds of all up to n.
LEMMA Induction ==
  ASSUME NEW n \in Nat, NEW S, 0 \in S, \A m \in 0 .. n - 1 : m \in S => m + 1 \in S
  PROVE  0 .. n \subseteq S
<1> SUFFICES ASSUME ~ (0 .. n \subseteq S) PROVE FALSE
  OBVIOUS
<1> DEFINE B == (0 .. n) \ S
<1>1. B \subseteq Nat /\ B # {}
  OBVIOUS
<1>2. PICK m \in B : \A k \in B : m <= k
  BY <1>1, Least
<1>3. m # 0 /\ m \in 0 .. n
  BY <1>2
<1>4. m - 1 \in 0 .. n - 1 /\ m - 1 \notin B
  BY <1>2, <1>3
<1>5. m - 1 \in S
  BY <1>4
<1>6. (m - 1) + 1 \in S
  BY <1>4, <1>5
<1>7. QED
  BY <1>3, <1>6
-----------------------------------------------------------------------------
(***************************************************************************)
(* The list of the packets that wait.                                      *)
(***************************************************************************)

\* The list s with e put before the element at the place at.
Splice(s, at, e) == SubSeq(s, 1, at - 1) \o <<e>> \o SubSeq(s, at, Len(s))

LEMMA SpliceFacts ==
  ASSUME NEW S, NEW s \in Seq(S), NEW e \in S, NEW at \in 1 .. Len(s) + 1
  PROVE  /\ Splice(s, at, e) \in Seq(S)
         /\ Len(Splice(s, at, e)) = Len(s) + 1
         /\ \A i \in 1 .. at - 1 : Splice(s, at, e)[i] = s[i]
         /\ Splice(s, at, e)[at] = e
         /\ \A i \in at + 1 .. Len(s) + 1 : Splice(s, at, e)[i] = s[i - 1]
<1> DEFINE a == SubSeq(s, 1, at - 1)
           b == SubSeq(s, at, Len(s))
           u == <<e>>
           c == a \o u
<1>0. Len(s) \in Nat /\ at \in Nat
  OBVIOUS
<1>1. a \in Seq(S) /\ Len(a) = at - 1 /\ \A i \in 1 .. at - 1 : a[i] = s[i]
  BY <1>0, SubSeqProperties
<1>2. b \in Seq(S) /\ Len(b) = Len(s) - at + 1 /\ \A i \in 1 .. Len(s) - at + 1 : b[i] = s[at + i - 1]
  BY <1>0, SubSeqProperties
<1>9. u \in Seq(S) /\ Len(u) = 1 /\ u[1] = e
  OBVIOUS
<1> HIDE DEF a, b, u
<1>3. /\ c \in Seq(S) /\ Len(c) = Len(a) + Len(u)
      /\ \A i \in 1 .. Len(a) + Len(u) : c[i] = IF i <= Len(a) THEN a[i] ELSE u[i - Len(a)]
  BY <1>1, <1>9, ConcatProperties
<1> HIDE DEF c
<1>10. /\ Len(c) = at
       /\ \A i \in 1 .. at : c[i] = IF i < at THEN s[i] ELSE e
  BY SMTT(30), <1>0, <1>1, <1>9, <1>3
<1>11. c \in Seq(S) /\ b \in Seq(S)
  BY <1>2, <1>3
<1> DEFINE d == c \o b
<1>4. /\ d \in Seq(S) /\ Len(d) = Len(c) + Len(b)
      /\ \A i \in 1 .. Len(c) + Len(b) : d[i] = IF i <= Len(c) THEN c[i] ELSE b[i - Len(c)]
  BY <1>11, ConcatProperties
<1> HIDE DEF d
<1>5. ASSUME NEW i \in 1 .. Len(s) + 1
      PROVE  d[i] = IF i < at THEN s[i] ELSE IF i = at THEN e ELSE s[i - 1]
  <2>1. CASE i <= at
    BY <2>1, <1>0, <1>2, <1>10, <1>4
  <2>2. CASE i > at
    <3>1. d[i] = b[i - at]
      BY <2>2, <1>0, <1>2, <1>10, <1>4
    <3>2. b[i - at] = s[at + (i - at) - 1]
      BY <2>2, <1>0, <1>2
    <3>3. at + (i - at) - 1 = i - 1
      BY <1>0
    <3>4. QED
      BY <2>2, <1>0, <3>1, <3>2, <3>3
  <2>3. QED
    BY <1>0, <2>1, <2>2
<1>6. Splice(s, at, e) = d
  BY DEF Splice, a, b, c, d, u
<1>7. Len(d) = Len(s) + 1
  BY <1>0, <1>2, <1>10, <1>4
<1>8. /\ \A i \in 1 .. at - 1 : d[i] = s[i]
      /\ d[at] = e
      /\ \A i \in at + 1 .. Len(s) + 1 : d[i] = s[i - 1]
  <2>1. at \in 1 .. Len(s) + 1 /\ ~ (at < at)
    BY <1>0
  <2>2. d[at] = e
    BY <2>1, <1>5
  <2>3. \A i \in 1 .. at - 1 : i \in 1 .. Len(s) + 1 /\ i < at
    BY <1>0
  <2>4. \A i \in at + 1 .. Len(s) + 1 : i \in 1 .. Len(s) + 1 /\ ~ (i < at) /\ i # at
    BY <1>0
  <2>5. QED
    BY <2>2, <2>3, <2>4, <1>5
<1>12. QED
  BY <1>4, <1>6, <1>7, <1>8

\* What follows in a list in order is larger than what comes before it.
LEMMA FirstIsLeast ==
  ASSUME NEW s \in Seq(Nat), Increasing(s), s # <<>>
  PROVE  \A i \in 1 .. Len(s) : s[1] <= s[i] /\ s[i] <= s[Len(s)]
<1>1. Len(s) \in Nat \ {0} /\ \A i \in 1 .. Len(s) : s[i] \in Nat
  OBVIOUS
<1>2. QED
  BY <1>1 DEF Increasing

\* The sort puts a packet that is not there at its place.
LEMMA WithFacts ==
  ASSUME sortList \in Seq(Positions), Increasing(sortList), NEW p \in Positions,
         \A i \in 1 .. Len(sortList) :
           /\ sortList[i] # p
           /\ Before(Number(p), Number(sortList[i])) <=> p < sortList[i]
  PROVE  /\ With(p) \in Seq(Positions)
         /\ Len(With(p)) = Len(sortList) + 1
         /\ Increasing(With(p))
         /\ \A j \in 1 .. Len(With(p)) :
              With(p)[j] = p \/ \E i \in 1 .. Len(sortList) : With(p)[j] = sortList[i]
         /\ \E j \in 1 .. Len(With(p)) : With(p)[j] = p
         /\ \A i \in 1 .. Len(sortList) : \E j \in 1 .. Len(With(p)) : With(p)[j] = sortList[i]
<1> DEFINE n == Len(sortList)
<1>1. n \in Nat /\ Positions \subseteq Nat /\ p \in Nat /\ \A i \in 1 .. n : sortList[i] \in Nat
  <2>1. Positions \subseteq Nat
    BY DEF Positions
  <2>2. n \in Nat
    OBVIOUS
  <2>3. \A i \in 1 .. n : sortList[i] \in Positions
    OBVIOUS
  <2> HIDE DEF n
  <2>4. QED
    BY <2>1, <2>2, <2>3
<1> HIDE DEF n
<1>2. \E k \in 1 .. n + 1 : IsPlace(k, p)
  <2> DEFINE Later == { i \in 1 .. n : p < sortList[i] }
  <2>1. CASE Later = {}
    <3>1. \A j \in 1 .. n : ~ Before(Number(p), Number(sortList[j]))
      BY <2>1 DEF n
    <3>2. IsPlace(n + 1, p)
      BY <1>1, <3>1 DEF IsPlace, n
    <3>3. QED
      BY <1>1, <3>2
  <2>2. CASE Later # {}
    <3>1. PICK k \in Later : \A m \in Later : k <= m
      <4>1. Later \subseteq Nat
        BY <1>1
      <4> HIDE DEF Later
      <4>2. QED
        BY <2>2, <4>1, Least
    <3>2. \A j \in 1 .. k - 1 : ~ Before(Number(p), Number(sortList[j]))
      BY <1>1, <3>1 DEF n
    <3>3. IsPlace(k, p)
      BY <1>1, <3>1, <3>2 DEF IsPlace, n
    <3>4. QED
      BY <1>1, <3>1, <3>3
  <2>3. QED
    BY <2>1, <2>2
<1>3. PICK k \in 1 .. n + 1 : /\ IsPlace(k, p)
                             /\ With(p) = Splice(sortList, k, p)
  BY <1>2 DEF With, Splice, n
<1> DEFINE w == With(p)
<1>4. /\ w \in Seq(Positions) /\ Len(w) = n + 1
      /\ \A j \in 1 .. k - 1 : w[j] = sortList[j]
      /\ w[k] = p
      /\ \A j \in k + 1 .. n + 1 : w[j] = sortList[j - 1]
  <2> DEFINE spliced == Splice(sortList, k, p)
  <2>1. /\ spliced \in Seq(Positions) /\ Len(spliced) = n + 1
        /\ \A j \in 1 .. k - 1 : spliced[j] = sortList[j]
        /\ spliced[k] = p
        /\ \A j \in k + 1 .. n + 1 : spliced[j] = sortList[j - 1]
    BY SpliceFacts DEF n
  <2>2. w = spliced
    BY <1>3
  <2> HIDE DEF spliced, w
  <2>3. QED
    BY <2>1, <2>2
<1> HIDE DEF w
<1>5. /\ \A j \in 1 .. k - 1 : sortList[j] < p
      /\ k <= n => p < sortList[k]
  <2>1. ASSUME NEW j \in 1 .. k - 1 PROVE sortList[j] < p
    <3>1. j \in 1 .. n
      BY <1>1, <1>3
    <3>2. ~ Before(Number(p), Number(sortList[j])) /\ sortList[j] # p
      BY <1>3, <3>1 DEF IsPlace, n
    <3>3. QED
      BY <1>1, <3>1, <3>2 DEF n
  <2>2. ASSUME k <= n PROVE p < sortList[k]
    <3>1. k \in 1 .. n
      BY <1>1, <1>3, <2>2
    <3>2. Before(Number(p), Number(sortList[k]))
      BY <1>3, <2>2 DEF IsPlace, n
    <3>3. QED
      BY <3>1, <3>2 DEF n
  <2>3. QED
    BY <2>1, <2>2
<1>6. \A j \in k .. n : p < sortList[j]
  <2>1. SUFFICES ASSUME NEW j \in k .. n PROVE p < sortList[j]
    OBVIOUS
  <2>2. k \in 1 .. n /\ j \in 1 .. n /\ k <= j
    BY <1>1, <1>3
  <2>3. k < j => sortList[k] < sortList[j]
    BY <2>2 DEF Increasing, n
  <2>4. p < sortList[k]
    BY <1>1, <1>5, <2>2
  <2>5. QED
    BY <1>1, <2>2, <2>3, <2>4
<1>7. Increasing(w)
  <2>1. SUFFICES ASSUME NEW i \in 1 .. n + 1, NEW j \in 1 .. n + 1, i < j PROVE w[i] < w[j]
    BY <1>4 DEF Increasing
  <2>2. CASE j < k
    <3>1. i \in 1 .. k - 1 /\ j \in 1 .. k - 1 /\ i \in 1 .. n /\ j \in 1 .. n
      BY <1>1, <1>3, <2>1, <2>2
    <3>2. sortList[i] < sortList[j]
      BY <2>1, <3>1 DEF Increasing, n
    <3>3. QED
      BY <1>4, <3>1, <3>2
  <2>3. CASE j = k
    <3>1. i \in 1 .. k - 1
      BY <1>1, <1>3, <2>1, <2>3
    <3>2. QED
      BY <1>4, <1>5, <2>3, <3>1
  <2>4. CASE k < j
    <3>1. j \in k + 1 .. n + 1 /\ j - 1 \in 1 .. n /\ j - 1 \in k .. n
      BY <1>1, <1>3, <2>1, <2>4
    <3>2. w[j] = sortList[j - 1] /\ p < sortList[j - 1]
      BY <1>4, <1>6, <3>1
    <3>3. CASE i < k
      <4>1. i \in 1 .. k - 1 /\ i \in 1 .. n
        BY <1>1, <1>3, <3>3
      <4>2. w[i] = sortList[i] /\ sortList[i] < p
        BY <1>4, <1>5, <4>1
      <4>3. QED
        BY <1>1, <3>1, <3>2, <4>1, <4>2
    <3>4. CASE i = k
      BY <1>4, <3>2, <3>4
    <3>5. CASE k < i
      <4>1. i \in k + 1 .. n + 1 /\ i - 1 \in 1 .. n /\ i - 1 < j - 1
        BY <1>1, <1>3, <2>1, <3>5
      <4>2. sortList[i - 1] < sortList[j - 1]
        BY <3>1, <4>1 DEF Increasing, n
      <4>3. QED
        BY <1>4, <3>2, <4>1, <4>2
    <3>6. QED
      BY <1>1, <1>3, <3>3, <3>4, <3>5
  <2>5. QED
    BY <1>1, <1>3, <2>2, <2>3, <2>4
<1>8. ASSUME NEW j \in 1 .. n + 1 PROVE w[j] = p \/ \E i \in 1 .. n : w[j] = sortList[i]
  <2>1. CASE j < k
    <3>1. j \in 1 .. k - 1 /\ j \in 1 .. n
      BY <1>1, <1>3, <2>1
    <3>2. QED
      BY <1>4, <3>1
  <2>2. CASE j = k
    BY <1>4, <2>2
  <2>3. CASE k < j
    <3>1. j \in k + 1 .. n + 1 /\ j - 1 \in 1 .. n
      BY <1>1, <1>3, <2>3
    <3>2. QED
      BY <1>4, <3>1
  <2>4. QED
    BY <1>1, <1>3, <2>1, <2>2, <2>3
<1>9. ASSUME NEW i \in 1 .. n PROVE \E j \in 1 .. n + 1 : w[j] = sortList[i]
  <2>1. CASE i < k
    <3>1. i \in 1 .. k - 1 /\ i \in 1 .. n + 1
      BY <1>1, <1>3, <2>1
    <3>2. QED
      BY <1>4, <3>1
  <2>2. CASE k <= i
    <3>1. i + 1 \in k + 1 .. n + 1 /\ (i + 1) - 1 = i /\ i + 1 \in 1 .. n + 1
      BY <1>1, <1>3, <2>2
    <3>2. w[i + 1] = sortList[i]
      BY <1>4, <3>1
    <3>3. QED
      BY <3>1, <3>2
  <2>3. QED
    BY <1>1, <1>3, <2>1, <2>2
<1>10. QED
  BY <1>1, <1>3, <1>4, <1>7, <1>8, <1>9 DEF n, w

\* What RunLength returns: packets that follow each other.
LEMMA RunFacts ==
  ASSUME NEW list \in Seq(Nat), list # <<>>, Increasing(list),
         list[Len(list)] - list[1] <= Half
  PROVE  /\ RunLength(list) \in 1 .. Len(list)
         /\ \A j \in 2 .. RunLength(list) : list[j] = list[j - 1] + 1
<1> DEFINE n == Len(list)
           Runs(k) == \A j \in 2 .. k : FollowsIn(Number(list[j - 1]), Number(list[j]))
<1>1. n \in Nat \ {0} /\ \A j \in 1 .. n : list[j] \in Nat
  OBVIOUS
<1>2. RunLength(list) = CHOOSE k \in 1 .. n : Runs(k) /\ (k < n => ~ Runs(k + 1))
  BY DEF RunLength
<1>3. \E k \in 1 .. n : Runs(k) /\ (k < n => ~ Runs(k + 1))
  <2> DEFINE Breaks == { j \in 1 .. n : ~ Runs(j) }
  <2>1. CASE Breaks = {}
    <3> HIDE DEF Runs
    <3>1. n \in 1 .. n /\ Runs(n)
      BY <1>1, <2>1
    <3>2. QED
      BY <1>1, <3>1
  <2>2. CASE Breaks # {}
    <3>1. PICK j \in Breaks : \A m \in Breaks : j <= m
      <4>1. Breaks \subseteq Nat
        BY <1>1
      <4> HIDE DEF Breaks
      <4>2. QED
        BY <2>2, <4>1, Least
    <3>2. j \in 1 .. n /\ ~ Runs(j)
      OBVIOUS
    <3>3. Runs(1)
      BY <1>1
    <3>4. j # 1
      BY <3>2, <3>3
    <3>5. PICK k : k = j - 1
      OBVIOUS
    <3>6. k \in 1 .. n /\ k < n /\ j = k + 1 /\ ~ (j <= k)
      BY <1>1, <3>2, <3>4, <3>5
    <3>7. Runs(k)
      BY <3>1, <3>6
    <3>8. QED
      BY <3>2, <3>6, <3>7
  <2>3. QED
    BY <2>1, <2>2
<1>4. RunLength(list) \in 1 .. n /\ Runs(RunLength(list))
  <2>1. PICK k : k = RunLength(list)
    OBVIOUS
  <2> HIDE DEF Runs
  <2>2. k \in 1 .. n /\ Runs(k)
    BY <1>2, <1>3, <2>1
  <2>3. QED
    BY <2>1, <2>2
<1>5. ASSUME NEW j \in 2 .. RunLength(list) PROVE list[j] = list[j - 1] + 1
  <2>1. j \in 1 .. n /\ j - 1 \in 1 .. n
    BY <1>1, <1>4
  <2>2. FollowsIn(Number(list[j - 1]), Number(list[j]))
    BY <1>4
  <2>3. PICK a, b : a = list[j - 1] /\ b = list[j]
    OBVIOUS
  <2>4. a \in Nat /\ b \in Nat /\ a < b
    BY <1>1, <2>1, <2>3 DEF Increasing
  <2>5. b - a <= Half
    <3>1. list[1] <= a /\ b <= list[n]
      BY <1>1, <2>1, <2>3, FirstIsLeast
    <3>2. list[1] \in Nat /\ list[n] \in Nat /\ Half \in Nat
      BY <1>1, HalfFacts
    <3>3. QED
      BY <2>4, <3>1, <3>2
  <2>6. a - b < Half
    BY <2>4, HalfFacts
  <2>7. QED
    BY <2>2, <2>3, <2>4, <2>5, <2>6, NextNumber
<1>6. QED
  BY <1>4, <1>5

-----------------------------------------------------------------------------
(***************************************************************************)
(* How far packets are from what was handed over last.                     *)
(***************************************************************************)

LEMMA PositionsAreNat == Positions \subseteq Nat
  BY FilterAssumption DEF Positions

LEMMA ThreeParts ==
  ASSUME NEW x \in Seq(Positions), NEW y \in Seq(Positions), NEW z \in Seq(Positions)
  PROVE  (x \o y) \o z = x \o (y \o z)
  BY ConcatAssociative

LEMMA AppendOne ==
  ASSUME NEW x \in Seq(Positions), NEW p \in Positions
  PROVE  Append(x, p) = x \o <<p>>
  OBVIOUS

LEMMA WiderSeq ==
  ASSUME NEW S, NEW T, S \subseteq T, NEW s \in Seq(S)
  PROVE  s \in Seq(T)
  OBVIOUS

LEMMA Places ==
  ASSUME TypeOK
  PROVE  /\ Len(sorted) \in Nat /\ Len(sortList) \in Nat
         /\ \A i \in 1 .. Len(sorted) : sorted[i] \in Positions /\ sorted[i] \in Nat
         /\ \A i \in 1 .. Len(sortList) : sortList[i] \in Positions /\ sortList[i] \in Nat
         /\ sorted # <<>> => Len(sorted) \in 1 .. Len(sorted) /\ LastSent \in Positions /\ LastSent \in Nat
<1>1. sorted \in Seq(Positions) /\ sortList \in Seq(Positions)
  BY DEF TypeOK
<1>2. Len(sorted) \in Nat /\ Len(sortList) \in Nat
  BY <1>1
<1>3. /\ \A i \in 1 .. Len(sorted) : sorted[i] \in Positions
      /\ \A i \in 1 .. Len(sortList) : sortList[i] \in Positions
  BY <1>1
<1>4. sorted # <<>> => Len(sorted) \in 1 .. Len(sorted)
  BY <1>1
<1>5. QED
  BY <1>2, <1>3, <1>4, PositionsAreNat DEF LastSent

\* With Copies = 1, what arrives has not arrived before.
LEMMA ArrivalFacts ==
  ASSUME NumbersSuffice, OrderInv, NEW p \in Positions, MayArrive(p),
         arrivals' = [arrivals EXCEPT ![p] = @ + 1]
  PROVE  /\ Arrived' = Arrived \cup {p} /\ p \notin Arrived
         /\ arrivals' \in [Positions -> 0 .. Copies]
         /\ Dense'
<1>1. arrivals \in [Positions -> 0 .. Copies] /\ Copies = 1
  BY DEF OrderInv, TypeOK, NumbersSuffice
<1>2. arrivals[p] = 0
  BY <1>1 DEF MayArrive
<1>3. arrivals' \in [Positions -> 0 .. Copies]
  BY <1>1, <1>2
<1>4. /\ arrivals'[p] = 1
      /\ \A q \in Positions : q # p => arrivals'[q] = arrivals[q]
  BY <1>1, <1>2
<1>5. Arrived' = Arrived \cup {p} /\ p \notin Arrived
  BY <1>1, <1>2, <1>4 DEF Arrived
<1>6. Dense'
  <2>1. SUFFICES ASSUME NEW q \in Arrived \cup {p}, NEW x \in Nat, MaxGap < x, x <= q
                 PROVE  \E a \in Arrived \cup {p} : x - 1 - MaxGap <= a /\ a < x
    BY <1>5 DEF Dense
  <2>2. CASE \E r \in Arrived : x <= r
    BY <2>1, <2>2 DEF OrderInv, Dense
  <2>3. CASE \A r \in Arrived : ~ (x <= r)
    <3>1. q = p /\ MaxGap \in Nat /\ p \in Nat
      BY <2>1, <2>3, FilterAssumption, PositionsAreNat
    <3>2. PICK r \in Arrived : p <= r + 1 + MaxGap
      BY <2>1, <3>1 DEF MayArrive
    <3>3. r \in Nat
      BY PositionsAreNat DEF Arrived
    <3>4. r < x /\ x - 1 - MaxGap <= r
      BY <2>1, <2>3, <3>1, <3>2, <3>3
    <3>5. QED
      BY <3>4
  <2>4. QED
    BY <2>2, <2>3
<1>7. QED
  BY <1>3, <1>5, <1>6

LEMMA Product ==
  ASSUME NEW g \in Nat, NEW m \in Nat, NEW n \in Nat, m <= n
  PROVE  /\ m * g \in Nat /\ n * g \in Nat /\ m * g <= n * g
         /\ (m + 1) * g = m * g + g
<1>1. (n - m) * g = n * g - m * g /\ n - m \in Nat
  OBVIOUS
<1>2. (n - m) * g \in Nat
  BY <1>1
<1>3. QED
  BY <1>1, <1>2

\* The packets that wait follow each other, and what was handed over last, with
\* no more losses between two of them than the network allows.
LEMMA Spread ==
  ASSUME OrderInv, sorted # <<>>, NEW k \in 1 .. Len(sortList)
  PROVE  sortList[k] <= LastSent + k * (MaxGap + 1)
<1> DEFINE n == Len(sortList)
           g == MaxGap + 1
           S == { m \in 0 .. n : m = 0 \/ sortList[m] <= LastSent + m * g }
<1>1. /\ n \in Nat /\ g \in Nat /\ MaxGap \in Nat /\ LastSent \in Nat
      /\ \A i \in 1 .. n : sortList[i] \in Nat
  BY Places, FilterAssumption DEF OrderInv
<1>2. 0 \in S
  BY <1>1
<1>3. ASSUME NEW m \in 0 .. n - 1, m \in S PROVE m + 1 \in S
  <2>1. PICK x : x = sortList[m + 1]
    OBVIOUS
  <2>2. m + 1 \in 1 .. n /\ x \in Nat /\ m \in Nat
    BY <1>1, <2>1
  <2>3. m * g \in Nat /\ (m + 1) * g = m * g + g
    BY <1>1, <2>2, Product
  <2>4. x <= LastSent + (m * g + g)
    <3>1. CASE x <= MaxGap
      BY <1>1, <2>2, <2>3, <3>1
    <3>2. CASE MaxGap < x
      <4>1. PICK a \in Arrived : x - 1 - MaxGap <= a /\ a < x
        BY <2>1, <2>2, <3>2 DEF OrderInv, Dense
      <4>2. a \in Nat
        BY PositionsAreNat DEF Arrived
      <4>3. CASE a <= LastSent
        BY <1>1, <2>2, <2>3, <4>1, <4>2, <4>3
      <4>4. CASE \E i \in 1 .. n : sortList[i] = a
        <5>1. PICK i \in 1 .. n : sortList[i] = a
          BY <4>4
        <5>2. i <= m
          <6>1. SUFFICES ASSUME m + 1 <= i PROVE FALSE
            BY <2>2
          <6>2. x <= a
            BY <2>1, <2>2, <4>1, <4>2, <5>1, <6>1 DEF OrderInv, Increasing
          <6>3. QED
            BY <2>2, <4>1, <4>2, <6>2
        <5>3. m \in 1 .. n /\ m # 0
          BY <1>1, <5>2
        <5>4. a <= sortList[m]
          <6>1. i < m => sortList[i] < sortList[m]
            BY <5>3 DEF OrderInv, Increasing
          <6>2. i = m \/ i < m
            BY <1>1, <2>2, <5>2
          <6>3. sortList[m] \in Nat
            BY <1>1, <5>3
          <6>4. QED
            BY <4>2, <5>1, <6>1, <6>2, <6>3
        <5>5. sortList[m] <= LastSent + m * g /\ sortList[m] \in Nat
          BY <1>1, <1>3, <5>3
        <5>6. a <= LastSent + m * g
          BY <1>1, <2>3, <4>2, <5>4, <5>5
        <5>7. x <= a + g
          BY <1>1, <2>2, <4>1, <4>2
        <5> HIDE DEF g
        <5>8. QED
          BY <1>1, <2>2, <2>3, <4>2, <5>6, <5>7
      <4>5. QED
        BY <4>1, <4>3, <4>4 DEF OrderInv, ListedOrPassed
    <3>3. QED
      BY <1>1, <2>2, <3>1, <3>2
  <2>5. QED
    BY <2>1, <2>2, <2>3, <2>4
<1>4. 0 .. n \subseteq S
  <2> HIDE DEF S
  <2>1. QED
    BY <1>1, <1>2, <1>3, Induction
<1>5. k \in S /\ k # 0
  BY SMTT(30), <1>1, <1>4
<1>6. QED
  BY <1>5

\* A full list and the packet that comes to it are near enough to be compared.
LEMMA Near ==
  ASSUME NumbersSuffice, OrderInv, sorted # <<>>, NEW p \in Positions, MayArrive(p)
  PROVE  /\ p - LastSent <= Half /\ LastSent - p < Half
         /\ \A i \in 1 .. Len(sortList) : sortList[i] - LastSent <= Half
<1> DEFINE g == MaxGap + 1
           far == MaxSize * g
<1>1. /\ Len(sortList) \in Nat /\ g \in Nat /\ MaxGap \in Nat /\ MaxSize \in Nat /\ Lag \in Nat
      /\ LastSent \in Nat /\ p \in Nat /\ Half \in Nat
      /\ \A i \in 1 .. Len(sortList) : sortList[i] \in Nat
  BY Places, FilterAssumption, PositionsAreNat, HalfFacts DEF OrderInv
<1>2. far \in Nat /\ (MaxSize + 1) * g = far + g
  BY <1>1, Product
<1>3. far + g <= Half
  BY <1>2 DEF NumbersSuffice
<1> HIDE DEF g, far
<1>4. ASSUME NEW i \in 1 .. Len(sortList) PROVE sortList[i] <= LastSent + far
  <2>1. sortList[i] <= LastSent + i * g
    BY Spread DEF g
  <2>2. i \in Nat /\ i <= MaxSize
    BY <1>1 DEF OrderInv
  <2>3. i * g \in Nat /\ i * g <= far
    BY <1>1, <2>2, Product DEF far
  <2>4. QED
    BY <1>1, <1>2, <2>1, <2>3
<1>5. \A a \in Arrived : a \in Nat /\ a <= LastSent + far
  <2>1. SUFFICES ASSUME NEW a \in Arrived PROVE a \in Nat /\ a <= LastSent + far
    OBVIOUS
  <2>2. a \in Nat
    BY PositionsAreNat DEF Arrived
  <2>3. a <= LastSent \/ \E i \in 1 .. Len(sortList) : sortList[i] = a
    BY DEF OrderInv, ListedOrPassed
  <2>4. QED
    BY <1>1, <1>2, <1>4, <2>2, <2>3
<1>6. p <= LastSent + far + g
  <2>1. CASE p <= MaxGap
    BY <1>1, <1>2, <2>1 DEF g
  <2>2. CASE \E q \in Arrived : p <= q + 1 + MaxGap
    <3>1. PICK q \in Arrived : p <= q + 1 + MaxGap
      BY <2>2
    <3>2. QED
      BY <1>1, <1>2, <1>5, <3>1 DEF g
  <2>3. QED
    BY <2>1, <2>2 DEF MayArrive
<1>7. LastSent <= p + Lag
  <2>1. LastSent \in Arrived
    BY Places DEF OrderInv, LastSent
  <2>2. QED
    BY <2>1 DEF MayArrive
<1>8. Lag < Half
  BY DEF NumbersSuffice
<1>9. \A i \in 1 .. Len(sortList) : sortList[i] - LastSent <= Half
  BY <1>1, <1>2, <1>3, <1>4
<1>10. QED
  BY <1>1, <1>2, <1>3, <1>6, <1>7, <1>8, <1>9

LEMMA SerialIsNext ==
  ASSUME OrderInv, sorted # <<>>, NEW x \in Nat, x - LastSent <= Half, LastSent - x < Half
  PROVE  /\ seqNumber \in 0 .. MAX_SEQ_NUMBER
         /\ Following(seqNumber) = Number(LastSent + 1)
         /\ IsSerial(Number(x)) <=> x = LastSent + 1
<1>1. PICK s, c : s = LastSent /\ c = LastSent + 1
  OBVIOUS
<1>2. s \in Nat /\ c \in Nat /\ c = s + 1 /\ MAX_SEQ_NUMBER \in Nat
  BY <1>1, Places, FilterAssumption DEF OrderInv
<1>3. seqNumber = Number(s) /\ seqNumber \in 0 .. MAX_SEQ_NUMBER
  <2>1. 0 \in 0 .. MAX_SEQ_NUMBER
    BY <1>2
  <2>2. Number(s) \in 0 .. MAX_SEQ_NUMBER
    BY <1>2, <2>1, NumberShift
  <2>3. QED
    BY <1>1, <2>2 DEF OrderInv, ListedOrPassed
<1>4. Following(seqNumber) = Number(c)
  BY <1>2, <1>3, FollowingNumber
<1>5. ASSUME x = c PROVE IsSerial(Number(x))
  BY <1>4, <1>5 DEF IsSerial, FollowsIn
<1>6. ASSUME IsSerial(Number(x)) PROVE x = c
  <2>1. FollowsIn(Number(s), Number(x))
    BY <1>3, <1>6 DEF IsSerial
  <2>2. x - s <= Half /\ s - x < Half
    BY <1>1
  <2>3. QED
    BY <1>2, <2>1, <2>2, NextNumber
<1>7. QED
  BY <1>1, <1>3, <1>4, <1>5, <1>6

\* What the filter makes of the number is what is true of the packet.
LEMMA Predicted ==
  ASSUME NumbersSuffice, OrderInv, sorted # <<>>, NEW p \in Positions, MayArrive(p)
  PROVE  /\ LessThanPredicted(Number(p)) <=> p <= LastSent
         /\ IsSerial(Number(p)) <=> p = LastSent + 1
<1>1. PICK c : c = LastSent + 1
  OBVIOUS
<1>2. LastSent \in Nat /\ p \in Nat /\ Half \in Nat /\ MAX_SEQ_NUMBER \in Nat /\ c \in Nat
  BY <1>1, Places, PositionsAreNat, HalfFacts, FilterAssumption DEF OrderInv
<1>3. p - LastSent <= Half /\ LastSent - p < Half
  BY Near
<1>4. /\ seqNumber \in 0 .. MAX_SEQ_NUMBER /\ Following(seqNumber) = Number(c)
      /\ IsSerial(Number(p)) <=> p = LastSent + 1
  BY <1>1, <1>2, <1>3, SerialIsNext
<1>5. p - c <= Half /\ c - p <= Half
  BY <1>1, <1>2, <1>3
<1>6. Before(Number(p), Number(c)) <=> p < c
  BY <1>2, <1>5, BeforeIsLess
<1>7. seqNumber >= 0
  BY <1>2, <1>4
<1>8. LessThanPredicted(Number(p)) <=> p <= LastSent
  BY <1>1, <1>2, <1>4, <1>6, <1>7 DEF LessThanPredicted
<1>9. QED
  BY <1>4, <1>8
-----------------------------------------------------------------------------
(***************************************************************************)
(* The steps.                                                              *)
(***************************************************************************)

Reported == [start : 0 .. MAX_SEQ_NUMBER, number : Int]

\* The sequence t of packets that follow each other is handed over.
HandsOver(t) ==
  /\ t \in Seq(Positions) /\ t # <<>>
  /\ \A j \in 2 .. Len(t) : t[j] = t[j - 1] + 1
  /\ sorted' = sorted \o t

\* What a step does to what is handed over and what is reported: nothing, ...
HandsOverNothing == sorted' = sorted /\ missed' = missed

\* ... it goes on where it was, ...
GoesOn ==
  /\ missed' = missed
  /\ \E t : HandsOver(t) /\ (sorted # <<>> => t[1] = LastSent + 1)

\* ... or it leaves a gap that more packets have overtaken than the list holds.
LeavesAGap ==
  \E t :
    /\ HandsOver(t) /\ sorted # <<>> /\ LastSent + 1 < t[1]
    /\ \E m \in Reported :
         missed' = Append(missed, m) /\ m.start = Number(LastSent + 1) /\ Counts(m, LastSent, t[1])
    /\ \E w \in Seq(Positions) :
         /\ Increasing(w) /\ MaxSize < Len(w) /\ w[1] = t[1]
         /\ \A i \in 1 .. Len(w) : w[i] \in Arrived'

LEMMA SendKeepsOrder ==
  ASSUME OrderInv, Dense', Arrived \subseteq Arrived', NEW t, HandsOver(t), Increasing(t),
         sorted # <<>> => LastSent < t[1],
         \A i \in 1 .. Len(t) : t[i] \in Arrived',
         seqNumber' = Number(t[Len(t)]),
         sortList' \in Seq(Positions), Increasing(sortList'), Len(sortList') <= MaxSize,
         \A i \in 1 .. Len(sortList') : t[Len(t)] < sortList'[i] /\ sortList'[i] \in Arrived',
         \A a \in Arrived' : a <= t[Len(t)] \/ \E i \in 1 .. Len(sortList') : sortList'[i] = a,
         missed' \in Seq(Reported), late' \subseteq Positions,
         arrivals' \in [Positions -> 0 .. Copies]
  PROVE  OrderInv'
<1> DEFINE n == Len(sorted)
           k == Len(t)
<1>1. /\ sorted \in Seq(Positions) /\ t \in Seq(Positions) /\ t # <<>>
      /\ n \in Nat
  BY Places DEF OrderInv, TypeOK, HandsOver
<1>2. k \in Nat \ {0} /\ \A i \in 1 .. k : t[i] \in Positions
  BY <1>1
<1>3. \A i \in 1 .. k : t[i] \in Nat
  BY <1>2, PositionsAreNat
<1>4. /\ sorted' \in Seq(Positions) /\ Len(sorted') = n + k
      /\ \A i \in 1 .. n + k : sorted'[i] = IF i <= n THEN sorted[i] ELSE t[i - n]
  BY <1>1, ConcatProperties DEF HandsOver
<1>5. \A i \in 1 .. n : sorted[i] \in Nat /\ (i < n => sorted[i] < LastSent) /\ sorted[n] = LastSent
  BY <1>1, Places DEF OrderInv, Increasing, LastSent
<1>6. Increasing(sorted')
  <2>1. SUFFICES ASSUME NEW i \in 1 .. n + k, NEW j \in 1 .. n + k, i < j
                 PROVE  sorted'[i] < sorted'[j]
    BY <1>4 DEF Increasing
  <2>2. CASE j <= n
    <3>1. i \in 1 .. n /\ j \in 1 .. n /\ i <= n
      BY <1>1, <1>2, <2>1, <2>2
    <3>2. sorted[i] < sorted[j]
      BY <2>1, <3>1 DEF OrderInv, Increasing
    <3>3. QED
      BY <1>4, <2>2, <3>1, <3>2
  <2>3. CASE i <= n /\ n < j
    <3>1. i \in 1 .. n /\ j - n \in 1 .. k /\ n # 0 /\ ~ (j <= n) /\ 1 \in 1 .. k
      BY <1>1, <1>2, <2>1, <2>3
    <3>2. sorted # <<>>
      BY <3>1
    <3>3. LastSent < t[1] /\ t[1] <= t[j - n]
      <4>1. PICK d : d = j - n
        OBVIOUS
      <4>2. d \in 1 .. k /\ 1 < d => t[1] < t[d]
        BY <3>1 DEF Increasing
      <4>3. d \in 1 .. k /\ (d = 1 \/ 1 < d)
        <5>1. d \in 1 .. k
          BY <3>1, <4>1
        <5> HIDE DEF k
        <5>2. d = 1 \/ 1 < d
          BY <1>2, <5>1
        <5>3. QED
          BY <5>1, <5>2
      <4>4. t[1] \in Nat /\ t[d] \in Nat
        BY <1>3, <3>1, <4>3
      <4>5. QED
        BY <3>2, <4>1, <4>2, <4>3, <4>4
    <3>4. sorted[i] <= LastSent /\ LastSent \in Nat /\ sorted[i] \in Nat
      <4>1. LastSent \in Nat
        BY <3>2, Places DEF OrderInv
      <4>2. i = n \/ i < n
        BY <1>1, <3>1
      <4>3. QED
        BY <1>5, <3>1, <4>1, <4>2
    <3>5. sorted[i] < t[j - n]
      <4>1. t[1] \in Nat /\ t[j - n] \in Nat
        BY <1>3, <3>1
      <4>2. QED
        BY <3>2, <3>3, <3>4, <4>1
    <3>6. QED
      BY <1>4, <2>3, <3>1, <3>5
  <2>4. CASE n < i
    <3>1. i - n \in 1 .. k /\ j - n \in 1 .. k /\ i - n < j - n /\ ~ (i <= n) /\ ~ (j <= n)
      <4>1. n \in Nat /\ k \in Nat
        BY <1>1, <1>2
      <4> HIDE DEF n, k
      <4>2. QED
        BY <4>1, <2>1, <2>4
    <3>2. t[i - n] < t[j - n]
      BY <3>1 DEF Increasing
    <3>3. QED
      BY <1>4, <3>1, <3>2
  <2>5. QED
    BY <1>1, <1>2, <2>1, <2>2, <2>3, <2>4
<1>7. \A i \in 1 .. Len(sorted') : sorted'[i] \in Arrived'
  <2>1. SUFFICES ASSUME NEW i \in 1 .. n + k PROVE sorted'[i] \in Arrived'
    BY <1>4
  <2>2. CASE i <= n
    <3>1. i \in 1 .. n
      BY <1>1, <2>2
    <3>2. QED
      BY <1>4, <2>2, <3>1 DEF OrderInv
  <2>3. CASE ~ (i <= n)
    <3>1. i - n \in 1 .. k
      BY <1>1, <1>2, <2>3
    <3>2. QED
      BY <1>4, <2>3, <3>1
  <2>4. QED
    BY <2>2, <2>3
<1>8. sorted' # <<>> /\ LastSent' = t[k]
  <2>1. n + k \in 1 .. n + k /\ ~ (n + k <= n) /\ (n + k) - n = k /\ n + k # 0
    BY <1>1, <1>2
  <2>2. sorted'[n + k] = t[k]
    BY <1>4, <2>1
  <2>3. QED
    BY <1>4, <2>1, <2>2 DEF LastSent
<1>9. ListedOrPassed'
  BY <1>8 DEF ListedOrPassed
<1>10. TypeOK'
  <2>1. seqNumber' \in -1 .. MAX_SEQ_NUMBER
    <3>1. MAX_SEQ_NUMBER \in Nat /\ 0 \in 0 .. MAX_SEQ_NUMBER /\ t[k] \in Nat
      BY <1>2, <1>3, FilterAssumption
    <3>2. Number(t[k]) \in 0 .. MAX_SEQ_NUMBER
      BY <3>1, NumberShift
    <3>3. QED
      BY <3>1, <3>2
  <2>2. QED
    BY <1>4, <2>1 DEF TypeOK, Reported
<1>11. QED
  BY <1>6, <1>7, <1>9, <1>10 DEF OrderInv

\* sendSerialFromFirstPacketInList hands over packets that follow each other.
LEMMA RunKeepsOrder ==
  ASSUME OrderInv, Dense', Arrived \subseteq Arrived', sorted # <<>>,
         NEW list \in Seq(Positions), list # <<>>, Increasing(list), LastSent < list[1],
         list[Len(list)] - list[1] <= Half, Len(list) <= MaxSize + 1,
         \A i \in 1 .. Len(list) : list[i] \in Arrived',
         NEW before \in Seq(Positions), Len(before) <= 1,
         before # <<>> => /\ LastSent < before[1] /\ before[1] \in Arrived'
                          /\ list[1] = before[1] + 1,
         \A a \in Arrived' : \/ a <= LastSent \/ (before # <<>> /\ a = before[1])
                             \/ \E i \in 1 .. Len(list) : list[i] = a,
         SendRunOf(list, before),
         missed' \in Seq(Reported), late' \subseteq Positions,
         arrivals' \in [Positions -> 0 .. Copies]
  PROVE  /\ OrderInv'
         /\ \E t : HandsOver(t) /\ t[1] = IF before = <<>> THEN list[1] ELSE before[1]
<1> DEFINE b == Len(before)
           k == RunLength(list)
           run == SubSeq(list, 1, k)
           rest == SubSeq(list, k + 1, Len(list))
           t == before \o run
<1>1. /\ Len(list) \in Nat \ {0} /\ b \in {0, 1} /\ (b = 0 <=> before = <<>>)
      /\ \A i \in 1 .. Len(list) : list[i] \in Positions
      /\ \A i \in 1 .. b : before[i] \in Positions
  <2>1. Len(list) \in Nat \ {0} /\ \A i \in 1 .. Len(list) : list[i] \in Positions
    OBVIOUS
  <2>2. b \in Nat /\ b <= 1 /\ \A i \in 1 .. b : before[i] \in Positions
    OBVIOUS
  <2>3. b = 0 <=> before = <<>>
    OBVIOUS
  <2> HIDE DEF b
  <2>4. b \in {0, 1}
    BY <2>2
  <2>5. QED
    BY <2>1, <2>2, <2>3, <2>4
<1>2. /\ \A i \in 1 .. Len(list) : list[i] \in Nat
      /\ \A i \in 1 .. b : before[i] \in Nat
      /\ LastSent \in Nat /\ MaxSize \in Nat
  BY <1>1, PositionsAreNat, Places, FilterAssumption DEF OrderInv
<1>3. k \in 1 .. Len(list) /\ \A j \in 2 .. k : list[j] = list[j - 1] + 1
  <2>1. list \in Seq(Nat)
    BY PositionsAreNat, WiderSeq
  <2>2. QED
    BY <2>1, RunFacts
<1>4. k \in Nat \ {0}
  BY <1>1, <1>3
<1>5. run \in Seq(Positions) /\ Len(run) = k /\ \A i \in 1 .. k : run[i] = list[i]
  <2>1. \A i \in 1 .. k : list[i] \in Positions /\ 1 + i - 1 = i
    BY <1>1, <1>3
  <2>2. 1 \in Int /\ k \in Int /\ 1 <= k /\ k - 1 + 1 = k
    BY <1>4
  <2> HIDE DEF k
  <2>3. QED
    BY <2>1, <2>2, SubSeqProperties
<1>6. /\ rest \in Seq(Positions) /\ Len(rest) = Len(list) - k
      /\ \A i \in 1 .. Len(list) - k : rest[i] = list[k + i]
  <2> DEFINE l == Len(list)
             first == k + 1
  <2>1. first \in Int /\ l \in Int /\ l - first + 1 = l - k /\ (first <= l => l - first + 1 = l - k)
        /\ (~ (first <= l) => l - k = 0)
    BY SMTT(30), <1>1, <1>3, <1>4
  <2>2. \A i \in first .. l : list[i] \in Positions
    BY <1>1, <1>4
  <2>3. \A i \in 1 .. l - k : first + i - 1 = k + i
    BY <1>4
  <2> HIDE DEF k, l, first
  <2>4. /\ SubSeq(list, first, l) \in Seq(Positions)
        /\ Len(SubSeq(list, first, l)) = IF first <= l THEN l - first + 1 ELSE 0
        /\ \A i \in 1 .. l - first + 1 : SubSeq(list, first, l)[i] = list[first + i - 1]
    BY <2>1, <2>2, SubSeqProperties
  <2>5. QED
    BY <2>1, <2>3, <2>4 DEF first, l
<1> HIDE DEF k, run, rest, b
<1>7. /\ t \in Seq(Positions) /\ Len(t) = b + k
      /\ \A i \in 1 .. b + k : t[i] = IF i <= b THEN before[i] ELSE run[i - b]
  BY <1>5, ConcatProperties DEF b
<1> HIDE DEF t
<1>8. /\ sorted' = sorted \o t /\ sortList' = rest /\ seqNumber' = Number(list[k])
  <2>1. /\ sorted' = sorted \o before \o run /\ sortList' = rest /\ seqNumber' = Number(list[k])
    BY DEF SendRunOf, run, rest, k
  <2>2. sorted \in Seq(Positions)
    BY DEF OrderInv, TypeOK
  <2>3. (sorted \o before) \o run = sorted \o (before \o run)
    <3>1. run \in Seq(Positions) /\ before \in Seq(Positions)
      BY <1>5
    <3>2. QED
      BY <2>2, <3>1, ThreeParts
  <2>4. QED
    BY <2>1, <2>3 DEF t
<1>9. \A i \in 1 .. k : i + b \in 1 .. b + k /\ t[i + b] = list[i]
  <2>1. SUFFICES ASSUME NEW i \in 1 .. k PROVE i + b \in 1 .. b + k /\ t[i + b] = list[i]
    OBVIOUS
  <2>2. i + b \in 1 .. b + k /\ ~ (i + b <= b) /\ (i + b) - b = i
    BY <1>1, <1>4
  <2>3. QED
    BY <1>5, <1>7, <2>2
<1>10. b = 1 => t[1] = before[1]
  <2>1. b = 1 => 1 \in 1 .. b + k /\ 1 <= b
    BY <1>4
  <2>2. QED
    BY <1>7, <2>1
<1>11. \A j \in 1 .. b + k : (b = 1 /\ j = 1) \/ (j - b \in 1 .. k /\ t[j] = list[j - b])
  <2>1. SUFFICES ASSUME NEW j \in 1 .. b + k, ~ (b = 1 /\ j = 1)
                 PROVE  j - b \in 1 .. k /\ t[j] = list[j - b]
    OBVIOUS
  <2>2. j - b \in 1 .. k /\ (j - b) + b = j
    BY <1>1, <1>4, <2>1
  <2>3. QED
    BY <1>9, <2>2
<1>12. HandsOver(t) /\ t[1] = IF before = <<>> THEN list[1] ELSE before[1]
  <2>1. t[1] = IF before = <<>> THEN list[1] ELSE before[1]
    BY <1>1, <1>4, <1>9, <1>10
  <2>2. ASSUME NEW j \in 2 .. b + k PROVE t[j] = t[j - 1] + 1
    <3>1. j \in 1 .. b + k /\ j - 1 \in 1 .. b + k /\ j # 1
      BY <1>1, <1>4
    <3>2. j - b \in 1 .. k /\ t[j] = list[j - b]
      BY <1>11, <3>1
    <3>3. CASE b = 1 /\ j = 2
      BY <1>1, <1>10, <3>2, <3>3
    <3>4. CASE ~ (b = 1 /\ j = 2)
      <4>1. ~ (b = 1 /\ j - 1 = 1)
        BY <1>1, <3>4
      <4>2. (j - 1) - b \in 1 .. k /\ t[j - 1] = list[(j - 1) - b]
        BY <1>11, <3>1, <4>1
      <4>3. j - b \in 2 .. k /\ (j - 1) - b = (j - b) - 1
        <5>1. k \in Nat /\ b \in Nat /\ j \in Nat
          BY <1>1, <1>4
        <5>2. (j - 1) - b = (j - b) - 1
          BY <5>1
        <5>3. QED
          BY <5>1, <5>2, <3>2, <4>2
      <4>4. QED
        <5>1. list[j - b] = list[(j - b) - 1] + 1
          BY <1>3, <4>3
        <5>2. QED
          BY <3>2, <4>2, <4>3, <5>1
    <3>5. QED
      BY <3>3, <3>4
  <2>3. t # <<>>
    BY <1>1, <1>4, <1>7
  <2>4. QED
    BY <1>7, <1>8, <2>1, <2>2, <2>3 DEF HandsOver
<1>13. Increasing(t)
  <2>1. SUFFICES ASSUME NEW i \in 1 .. b + k, NEW j \in 1 .. b + k, i < j PROVE t[i] < t[j]
    BY <1>7 DEF Increasing
  <2>2. j - b \in 1 .. k /\ t[j] = list[j - b] /\ j - b \in 1 .. Len(list)
    BY <1>1, <1>3, <1>4, <1>11, <2>1
  <2>3. CASE b = 1 /\ i = 1
    <3>1. list[1] = before[1] + 1 /\ before[1] \in Nat
      BY <1>1, <1>2, <2>3
    <3>2. list[1] <= list[j - b]
      <4>1. list \in Seq(Nat)
        BY PositionsAreNat, WiderSeq
      <4>2. QED
        BY <2>2, <4>1, FirstIsLeast
    <3>3. list[j - b] \in Nat /\ t[i] = before[1]
      BY <1>2, <1>10, <2>2, <2>3
    <3>4. QED
      BY SMTT(30), <2>2, <3>1, <3>2, <3>3
  <2>4. CASE ~ (b = 1 /\ i = 1)
    <3>1. i - b \in 1 .. Len(list) /\ t[i] = list[i - b] /\ i - b < j - b
      <4>1. i - b \in 1 .. k /\ t[i] = list[i - b]
        BY <1>11, <2>1, <2>4
      <4>2. QED
        BY <1>1, <1>3, <1>4, <2>1, <4>1
    <3>2. QED
      BY <2>2, <3>1 DEF Increasing
  <2>5. QED
    BY <2>3, <2>4
<1>14. t[Len(t)] = list[k]
  <2>1. k \in 1 .. k /\ k + b = Len(t)
    BY <1>1, <1>4, <1>7
  <2>2. QED
    BY <1>9, <2>1
<1>15. \A i \in 1 .. Len(t) : t[i] \in Arrived'
  <2>1. SUFFICES ASSUME NEW i \in 1 .. b + k PROVE t[i] \in Arrived'
    BY <1>7
  <2>2. CASE b = 1 /\ i = 1
    BY <1>1, <1>10, <2>2
  <2>3. CASE i - b \in 1 .. k /\ t[i] = list[i - b]
    <3>1. i - b \in 1 .. Len(list)
      BY <1>1, <1>3, <1>4, <2>3
    <3>2. QED
      BY <2>3, <3>1
  <2>4. QED
    BY <1>11, <2>2, <2>3
<1>16. LastSent < t[1]
  BY <1>12
<1>17. /\ sortList' \in Seq(Positions) /\ Len(sortList') <= MaxSize
       /\ Increasing(sortList')
       /\ \A i \in 1 .. Len(sortList') : t[Len(t)] < sortList'[i] /\ sortList'[i] \in Arrived'
  <2>1. Len(rest) <= MaxSize
    BY <1>1, <1>2, <1>4, <1>6
  <2>2. \A i \in 1 .. Len(rest) : /\ k + i \in 1 .. Len(list) /\ k < k + i /\ rest[i] = list[k + i]
                                  /\ k \in 1 .. Len(list)
    BY <1>1, <1>3, <1>4, <1>6
  <2>3. Increasing(rest)
    <3>1. SUFFICES ASSUME NEW i \in 1 .. Len(rest), NEW j \in 1 .. Len(rest), i < j
                   PROVE  rest[i] < rest[j]
      BY DEF Increasing
    <3>2. k + i < k + j
      BY <1>4, <3>1
    <3>3. list[k + i] < list[k + j]
      BY <2>2, <3>2 DEF Increasing
    <3>4. QED
      BY <2>2, <3>3
  <2>4. \A i \in 1 .. Len(rest) : list[k] < rest[i] /\ rest[i] \in Arrived'
    <3>1. SUFFICES ASSUME NEW i \in 1 .. Len(rest)
                   PROVE  list[k] < rest[i] /\ rest[i] \in Arrived'
      OBVIOUS
    <3>2. /\ k \in 1 .. Len(list) /\ k + i \in 1 .. Len(list) /\ k < k + i
          /\ rest[i] = list[k + i]
      BY <2>2
    <3>3. list[k] < list[k + i] /\ list[k + i] \in Arrived'
      BY <3>2 DEF Increasing
    <3>4. QED
      BY <3>2, <3>3
  <2>5. t[Len(t)] = list[k] /\ sortList' = rest /\ rest \in Seq(Positions)
    BY <1>6, <1>8, <1>14
  <2>6. QED
    BY <2>1, <2>3, <2>4, <2>5
<1>18. ASSUME NEW a \in Arrived', ~ (a <= t[Len(t)])
       PROVE  \E i \in 1 .. Len(sortList') : sortList'[i] = a
  <2>1. list[k] \in Nat /\ a \in Nat /\ list[1] <= list[k] /\ list[1] \in Nat
    <3>0. 1 \in 1 .. Len(list)
      BY <1>1
    <3>1. a \in Nat
      BY PositionsAreNat DEF Arrived
    <3>2. list \in Seq(Nat)
      BY PositionsAreNat, WiderSeq
    <3>3. QED
      BY <1>2, <1>3, <3>0, <3>1, <3>2, FirstIsLeast
  <2>2. ~ (a <= LastSent)
    BY <1>2, <1>3, <1>14, <1>18, <2>1
  <2>3. ~ (before # <<>> /\ a = before[1])
    <3>1. SUFFICES ASSUME before # <<>>, a = before[1] PROVE FALSE
      OBVIOUS
    <3>2. list[1] = a + 1
      BY <3>1
    <3>3. ~ (a <= list[k])
      BY <1>14, <1>18
    <3>4. QED
      BY <2>1, <3>2, <3>3
  <2>4. PICK i \in 1 .. Len(list) : list[i] = a
    BY <2>2, <2>3
  <2>5. k < i
    <3>1. SUFFICES ASSUME i <= k PROVE FALSE
      BY <1>1, <1>4
    <3>2. i < k => list[i] < list[k]
      BY <1>3 DEF Increasing
    <3>3. i = k \/ i < k
      BY <1>1, <1>4, <3>1
    <3>4. QED
      BY <1>14, <1>18, <2>1, <2>4, <3>2, <3>3
  <2>6. i - k \in 1 .. Len(list) - k /\ k + (i - k) = i
    BY <1>1, <1>4, <2>5
  <2>7. rest[i - k] = a
    BY <1>6, <2>4, <2>6
  <2>8. QED
    BY <1>6, <1>8, <2>6, <2>7
<1>19. OrderInv'
  <2>1. seqNumber' = Number(t[Len(t)])
    BY <1>8, <1>14
  <2>2. QED
    BY <1>12, <1>13, <1>15, <1>16, <1>17, <1>18, <2>1, SendKeepsOrder
<1>20. QED
  BY <1>12, <1>19
\* A packet on its own is handed over.
LEMMA OneIsHandedOver ==
  ASSUME OrderInv, Dense', NEW p \in Positions, Arrived' = Arrived \cup {p},
         sorted # <<>> => LastSent < p,
         \A i \in 1 .. Len(sortList) : p < sortList[i],
         sorted' = Append(sorted, p), seqNumber' = Number(p), sortList' = sortList,
         missed' \in Seq(Reported), late' \subseteq Positions,
         arrivals' \in [Positions -> 0 .. Copies]
  PROVE  OrderInv' /\ HandsOver(<<p>>)
<1> DEFINE t == <<p>>
<1>1. /\ t \in Seq(Positions) /\ t # <<>> /\ Len(t) = 1 /\ t[1] = p
      /\ \A i \in 1 .. Len(t) : t[i] = p
  OBVIOUS
<1>2. sorted' = sorted \o t
  <2>1. sorted \in Seq(Positions)
    BY DEF OrderInv, TypeOK
  <2>2. QED
    BY <2>1, AppendOne
<1> HIDE DEF t
<1>3. HandsOver(t)
  BY <1>1, <1>2 DEF HandsOver
<1>4. Increasing(t)
  BY <1>1 DEF Increasing
<1>5. /\ sortList' \in Seq(Positions) /\ Increasing(sortList') /\ Len(sortList') <= MaxSize
      /\ \A i \in 1 .. Len(sortList') : t[Len(t)] < sortList'[i] /\ sortList'[i] \in Arrived'
  BY <1>1 DEF OrderInv, TypeOK
<1>6. ASSUME NEW a \in Arrived', ~ (a <= t[Len(t)])
      PROVE  \E i \in 1 .. Len(sortList') : sortList'[i] = a
  <2>1. a \in Arrived /\ a \in Nat /\ p \in Nat /\ p < a
    <3>1. a \in Nat /\ p \in Nat
      BY PositionsAreNat DEF Arrived
    <3>2. QED
      BY <1>1, <1>6, <3>1
  <2>2. sorted # <<>>
    BY <2>1 DEF OrderInv, ListedOrPassed
  <2>3. LastSent \in Nat
    BY <2>2, Places DEF OrderInv
  <2>4. ~ (a <= LastSent)
    BY <2>1, <2>2, <2>3
  <2>5. QED
    BY <2>1, <2>2, <2>4 DEF OrderInv, ListedOrPassed
<1>7. OrderInv'
  <2>1. Arrived \subseteq Arrived' /\ \A i \in 1 .. Len(t) : t[i] \in Arrived'
    BY <1>1
  <2>2. (sorted # <<>> => LastSent < t[1]) /\ seqNumber' = Number(t[Len(t)])
    BY <1>1
  <2>3. QED
    BY <1>3, <1>4, <1>5, <1>6, <2>1, <2>2, SendKeepsOrder
<1>8. QED
  BY <1>3, <1>7 DEF t

LEMMA DropKeepsOrder ==
  ASSUME NumbersSuffice, OrderInv, NEW p \in Positions, MayArrive(p),
         arrivals' = [arrivals EXCEPT ![p] = @ + 1], Drop(p)
  PROVE  OrderInv' /\ HandsOverNothing /\ sorted # <<>> /\ p <= LastSent
<1>1. /\ Arrived' = Arrived \cup {p} /\ arrivals' \in [Positions -> 0 .. Copies] /\ Dense'
  BY ArrivalFacts
<1>2. sorted # <<>>
  BY DEF Drop, LessThanPredicted, OrderInv, ListedOrPassed
<1>3. p <= LastSent
  BY <1>2, Predicted DEF Drop
<1>4. /\ sorted' = sorted /\ sortList' = sortList /\ seqNumber' = seqNumber /\ missed' = missed
      /\ late' = late \cup {p}
  BY DEF Drop
<1>5. TypeOK'
  BY <1>1, <1>4 DEF OrderInv, TypeOK
<1>6. ListedOrPassed'
  BY <1>1, <1>2, <1>3, <1>4 DEF OrderInv, ListedOrPassed, LastSent
<1>7. OrderInv'
  BY <1>1, <1>4, <1>5, <1>6 DEF OrderInv, Increasing
<1>8. QED
  BY <1>2, <1>3, <1>4, <1>7 DEF HandsOverNothing

LEMMA ForwardKeepsOrder ==
  ASSUME NumbersSuffice, OrderInv, NEW p \in Positions, MayArrive(p),
         arrivals' = [arrivals EXCEPT ![p] = @ + 1], Forward(p)
  PROVE  OrderInv' /\ GoesOn
<1>1. /\ Arrived' = Arrived \cup {p} /\ p \notin Arrived
      /\ arrivals' \in [Positions -> 0 .. Copies] /\ Dense'
  BY ArrivalFacts
<1>2. missed' = missed /\ late' = late /\ missed' \in Seq(Reported) /\ late' \subseteq Positions
  BY DEF Forward, OrderInv, TypeOK, Reported
<1>3. p \in Nat /\ sortList \in Seq(Positions) /\ Len(sortList) \in Nat /\ Half \in Nat
  BY PositionsAreNat, Places, HalfFacts DEF OrderInv, TypeOK
<1>4. sorted # <<>> => p = LastSent + 1 /\ LastSent \in Nat
  BY Predicted, Places DEF Forward, OrderInv
<1>5. sorted # <<>> => LastSent < p
  BY <1>4
<1>6. \A i \in 1 .. Len(sortList) : p < sortList[i]
  <2>1. SUFFICES ASSUME NEW i \in 1 .. Len(sortList) PROVE p < sortList[i]
    OBVIOUS
  <2>2. sorted # <<>>
    <3>1. sorted = <<>> => Len(sortList) = 0
      BY DEF OrderInv, ListedOrPassed
    <3>2. QED
      BY <3>1
  <2>3. LastSent < sortList[i] /\ sortList[i] \in Arrived /\ sortList[i] \in Nat
    BY <2>2, Places DEF OrderInv, ListedOrPassed
  <2>4. sortList[i] # p
    BY <1>1, <2>3
  <2>5. QED
    BY <1>3, <1>4, <2>2, <2>3, <2>4
<1>7. CASE sortList # <<>> /\ FollowsIn(Number(p), Number(Head(sortList)))
  <2>1. SendRunOf(sortList, <<p>>)
    BY <1>7 DEF Forward
  <2>2. sorted # <<>>
    BY <1>7 DEF OrderInv, ListedOrPassed
  <2>3. Len(sortList) \in 1 .. Len(sortList) /\ 1 \in 1 .. Len(sortList)
    BY <1>3, <1>7
  <2>4. PICK first, last : first = sortList[1] /\ last = sortList[Len(sortList)]
    OBVIOUS
  <2>5. /\ first \in Nat /\ last \in Nat /\ first - LastSent <= Half /\ last - LastSent <= Half
        /\ p < first
    BY <1>6, <2>2, <2>3, <2>4, Near, Places DEF OrderInv
  <2>6. FollowsIn(Number(p), Number(first))
    BY <1>3, <1>7, <2>4
  <2>7. first = p + 1
    <3>1. first - p <= Half /\ p - first < Half
      BY <1>3, <1>4, <2>2, <2>5
    <3>2. QED
      BY <1>3, <2>5, <2>6, <3>1, NextNumber
  <2>8. last - first <= Half /\ LastSent < first
    BY <1>3, <1>4, <2>2, <2>5, <2>7
  <2>9. PICK before : before = <<p>>
    OBVIOUS
  <2>10. before \in Seq(Positions) /\ Len(before) <= 1 /\ before # <<>> /\ before[1] = p
    BY <2>9
  <2>11. Len(sortList) <= MaxSize + 1
    BY <1>3, FilterAssumption DEF OrderInv
  <2>12. \A a \in Arrived' : \/ a <= LastSent \/ (before # <<>> /\ a = before[1])
                             \/ \E i \in 1 .. Len(sortList) : sortList[i] = a
    BY <1>1, <2>2, <2>10 DEF OrderInv, ListedOrPassed
  <2>13. /\ Arrived \subseteq Arrived' /\ before[1] \in Arrived' /\ LastSent < before[1]
         /\ \A i \in 1 .. Len(sortList) : sortList[i] \in Arrived'
    BY <1>1, <1>5, <2>2, <2>10 DEF OrderInv
  <2>14. /\ OrderInv'
         /\ \E t : HandsOver(t) /\ t[1] = IF before = <<>> THEN sortList[1] ELSE before[1]
    <3>1. SendRunOf(sortList, before) /\ Increasing(sortList)
      BY <2>1, <2>9 DEF OrderInv
    <3>2. sortList[Len(sortList)] - sortList[1] <= Half /\ LastSent < sortList[1]
      BY <2>4, <2>8
    <3>3. sortList[1] = before[1] + 1
      BY <2>4, <2>7, <2>10
    <3>4. QED
      BY <1>1, <1>2, <1>3, <1>7, <2>2, <2>10, <2>11, <2>12, <2>13, <3>1, <3>2, <3>3, RunKeepsOrder
  <2>15. QED
    BY <1>2, <1>4, <2>2, <2>10, <2>14 DEF GoesOn
<1>8. CASE ~ (sortList # <<>> /\ FollowsIn(Number(p), Number(Head(sortList))))
  <2>1. sorted' = Append(sorted, p) /\ seqNumber' = Number(p) /\ sortList' = sortList
    BY <1>8 DEF Forward
  <2>2. OrderInv' /\ HandsOver(<<p>>)
    BY <1>1, <1>2, <1>5, <1>6, <2>1, OneIsHandedOver
  <2>3. PICK t : t = <<p>>
    OBVIOUS
  <2>4. HandsOver(t) /\ t[1] = p
    BY <2>2, <2>3
  <2>5. QED
    BY <1>2, <1>4, <2>2, <2>4 DEF GoesOn
<1>9. QED
  BY <1>7, <1>8

\* What is reported when packets go missing.
LEMMA MissedFacts ==
  ASSUME OrderInv, sorted # <<>>, NEW n \in 0 .. MAX_SEQ_NUMBER
  PROVE  /\ MissedBefore(n) \in Reported
         /\ MissedBefore(n).start = Number(LastSent + 1)
<1>1. PICK s : s = LastSent
  OBVIOUS
<1>2. s \in Nat /\ Half \in Nat /\ MAX_SEQ_NUMBER \in Nat \ {0} /\ s - s = 0 /\ s + 1 \in Nat
  BY <1>1, Places, HalfFacts, FilterAssumption DEF OrderInv
<1>3. 0 <= Half /\ (Half = 0 \/ 0 < Half)
  BY <1>2
<1>4. seqNumber = Number(s)
  BY <1>1 DEF OrderInv, ListedOrPassed
<1>5. Following(seqNumber) = Number(s + 1)
  BY <1>2, <1>4, FollowingNumber
<1>6. Number(s + 1) \in 0 .. MAX_SEQ_NUMBER
  <2>1. 0 \in 0 .. MAX_SEQ_NUMBER
    BY <1>2
  <2>2. QED
    BY <1>2, <2>1, NumberShift
<1>7. PICK start : start = Following(seqNumber)
  OBVIOUS
<1>8. MissedBefore(n) = [start |-> start,
                        number |-> IF n < start THEN n - start + MAX_SEQ_NUMBER ELSE n - start]
  BY <1>7 DEF MissedBefore
<1>9. start \in 0 .. MAX_SEQ_NUMBER
  BY <1>5, <1>6, <1>7
<1>10. (IF n < start THEN n - start + MAX_SEQ_NUMBER ELSE n - start) \in Int
  BY <1>2, <1>9
<1>11. QED
  BY <1>1, <1>5, <1>7, <1>8, <1>9, <1>10 DEF Reported

\* The count of a report that leaves off no further than the numbers reach.
LEMMA MissedCount ==
  ASSUME NEW s \in Nat, NEW f \in Nat, s < f, f - s <= Half, seqNumber = Number(s)
  PROVE  Counts(MissedBefore(Number(f)), s, f)
<1>1. PICK start, d, n, max : /\ start = Number(s + 1) /\ d = f - (s + 1)
                             /\ n = Number(f) /\ max = MAX_SEQ_NUMBER
  OBVIOUS
<1>2. max \in Nat \ {0} /\ Half \in Nat /\ 2 * Half <= max
  BY <1>1, HalfFacts, FilterAssumption
<1>3. d \in 0 .. max /\ s + 1 \in Nat /\ f = (s + 1) + d
  BY <1>1, <1>2
<1>4. start \in 0 .. max /\ n = IF start + d <= max THEN start + d ELSE start + d - max - 1
  BY <1>1, <1>3, NumberShift
<1>5. Following(seqNumber) = start
  BY <1>1, FollowingNumber
<1>6. MissedBefore(n).number = IF n < start THEN n - start + max ELSE n - start
  BY <1>1, <1>5 DEF MissedBefore
<1>7. CASE start + d <= max
  <2>1. n = start + d /\ ~ (n < start) /\ n - start = d
    BY <1>2, <1>3, <1>4, <1>7
  <2>2. MissedBefore(n).number = d /\ d = f - s - 1
    BY <1>1, <1>6, <2>1
  <2>3. QED
    BY <1>1, <2>2 DEF Counts
<1>8. CASE ~ (start + d <= max)
  <2>1. n < start /\ n - start + max = d - 1
    BY <1>2, <1>3, <1>4, <1>8
  <2>2. MissedBefore(n).number = d - 1 /\ d - 1 = f - s - 2
    BY <1>1, <1>6, <2>1
  <2>3. Restarts(s, f)
    BY <1>1, <2>1 DEF Restarts
  <2>4. QED
    BY <1>1, <2>2, <2>3 DEF Counts
<1>9. QED
  BY <1>7, <1>8

LEMMA KeepKeepsOrder ==
  ASSUME NumbersSuffice, OrderInv, NEW p \in Positions, MayArrive(p),
         arrivals' = [arrivals EXCEPT ![p] = @ + 1], Keep(p)
  PROVE  OrderInv' /\ (HandsOverNothing \/ GoesOn \/ LeavesAGap)
<1> DEFINE n == Len(sortList)
           w == With(p)
<1>1. /\ Arrived' = Arrived \cup {p} /\ p \notin Arrived
      /\ arrivals' \in [Positions -> 0 .. Copies] /\ Dense'
  BY ArrivalFacts
<1>2. sorted # <<>>
  BY DEF Keep, IsSerial, FollowsIn, OrderInv, ListedOrPassed
<1>3. PICK s : s = LastSent
  OBVIOUS
<1>4. /\ p \in Nat /\ s \in Nat /\ n \in Nat /\ Half \in Nat /\ MaxSize \in Nat
      /\ sortList \in Seq(Positions) /\ Increasing(sortList) /\ n <= MaxSize
  BY <1>2, <1>3, PositionsAreNat, Places, HalfFacts, FilterAssumption DEF OrderInv, TypeOK
<1>5. s < p /\ p # s + 1 /\ p - s <= Half
  BY <1>2, <1>3, <1>4, Predicted, Near DEF Keep
<1>6. \A i \in 1 .. n : /\ sortList[i] \in Nat /\ sortList[i] \in Arrived
                        /\ s < sortList[i] /\ sortList[i] - s <= Half
  BY <1>2, <1>3, Places, Near DEF OrderInv, ListedOrPassed
<1>7. \A i \in 1 .. n : /\ sortList[i] # p
                        /\ Before(Number(p), Number(sortList[i])) <=> p < sortList[i]
  <2>1. SUFFICES ASSUME NEW i \in 1 .. n
                 PROVE  /\ sortList[i] # p
                        /\ Before(Number(p), Number(sortList[i])) <=> p < sortList[i]
    OBVIOUS
  <2>2. PICK q : q = sortList[i]
    OBVIOUS
  <2>3. q \in Nat /\ q # p /\ s < q /\ q - s <= Half
    BY <1>1, <1>6, <2>2
  <2>4. p - q <= Half /\ q - p <= Half
    BY <1>4, <1>5, <2>3
  <2>5. QED
    BY <1>4, <2>2, <2>3, <2>4, BeforeIsLess
<1>8. /\ w \in Seq(Positions) /\ Len(w) = n + 1 /\ Increasing(w)
      /\ \A j \in 1 .. Len(w) : w[j] = p \/ \E i \in 1 .. n : w[j] = sortList[i]
      /\ \E j \in 1 .. Len(w) : w[j] = p
      /\ \A i \in 1 .. n : \E j \in 1 .. Len(w) : w[j] = sortList[i]
  BY <1>4, <1>7, WithFacts
<1> HIDE DEF n, w
<1>9. \A j \in 1 .. Len(w) : w[j] \in Nat /\ s < w[j] /\ w[j] - s <= Half /\ w[j] \in Arrived'
  BY <1>1, <1>4, <1>5, <1>6, <1>8
<1>10. /\ Len(w) \in 1 .. Len(w) /\ 1 \in 1 .. Len(w) /\ w # <<>> /\ Len(w) <= MaxSize + 1
  BY <1>4, <1>8
<1>11. \A a \in Arrived' : a <= s \/ \E j \in 1 .. Len(w) : w[j] = a
  <2>1. SUFFICES ASSUME NEW a \in Arrived' PROVE a <= s \/ \E j \in 1 .. Len(w) : w[j] = a
    OBVIOUS
  <2>2. CASE a = p
    BY <1>8, <2>2
  <2>3. CASE a # p
    <3>1. a \in Arrived
      BY <1>1, <2>3
    <3>2. a <= s \/ \E i \in 1 .. n : sortList[i] = a
      BY <1>2, <1>3, <3>1 DEF OrderInv, ListedOrPassed, n
    <3>3. QED
      BY <1>8, <3>2
  <2>4. QED
    BY <2>2, <2>3
<1>12. late' = late /\ late' \subseteq Positions
  BY DEF Keep, OrderInv, TypeOK
<1>13. CASE Full
  <2>1. /\ SendRunOf(w, <<>>) /\ Reports(Number(Head(w)))
        /\ Head(w) = w[1]
    BY <1>8, <1>10, <1>13 DEF Keep, w
  <2>2. PICK f : f = w[1]
    OBVIOUS
  <2>3. f \in Nat /\ s < f /\ f - s <= Half /\ s - f < Half
    BY <1>4, <1>9, <1>10, <2>2
  <2>4. /\ seqNumber \in 0 .. MAX_SEQ_NUMBER
        /\ IsSerial(Number(f)) <=> f = s + 1
    BY <1>2, <1>3, <2>3, SerialIsNext
  <2>5. Number(f) \in 0 .. MAX_SEQ_NUMBER
    <3>1. 0 \in 0 .. MAX_SEQ_NUMBER
      BY FilterAssumption
    <3>2. QED
      BY <2>3, <3>1, NumberShift
  <2>6. /\ MissedBefore(Number(f)) \in Reported
        /\ MissedBefore(Number(f)).start = Number(s + 1)
        /\ Counts(MissedBefore(Number(f)), s, f)
    <3>1. seqNumber = Number(s)
      BY <1>2, <1>3 DEF OrderInv, ListedOrPassed
    <3>2. QED
      BY <1>2, <1>3, <1>4, <2>3, <2>5, <3>1, MissedFacts, MissedCount
  <2>7. \/ missed' = missed /\ f = s + 1
        \/ missed' = Append(missed, MissedBefore(Number(f))) /\ f # s + 1
    BY <2>1, <2>2, <2>4 DEF Reports
  <2>8. missed' \in Seq(Reported)
    <3>1. missed \in Seq(Reported)
      BY DEF OrderInv, TypeOK, Reported
    <3>2. QED
      BY <2>6, <2>7, <3>1
  <2>9. PICK before : before = <<>>
    OBVIOUS
  <2>10. before \in Seq(Positions) /\ Len(before) <= 1 /\ before = <<>> /\ SendRunOf(w, before)
    BY <2>1, <2>9
  <2>11. LastSent < w[1] /\ w[Len(w)] - w[1] <= Half
    BY <1>3, <1>4, <1>9, <1>10
  <2>12. Arrived \subseteq Arrived' /\ \A i \in 1 .. Len(w) : w[i] \in Arrived'
    BY <1>1, <1>9
  <2>13. \A a \in Arrived' : \/ a <= LastSent \/ (before # <<>> /\ a = before[1])
                             \/ \E i \in 1 .. Len(w) : w[i] = a
    BY <1>3, <1>11
  <2>14. /\ OrderInv'
         /\ \E t : HandsOver(t) /\ t[1] = IF before = <<>> THEN w[1] ELSE before[1]
    BY <1>1, <1>2, <1>8, <1>10, <1>12, <2>8, <2>10, <2>11, <2>12, <2>13, RunKeepsOrder
  <2>15. PICK t : HandsOver(t) /\ t[1] = f
    BY <2>2, <2>10, <2>14
  <2>16. CASE f = s + 1
    <3>1. missed' = missed
      BY <2>7, <2>16
    <3>2. GoesOn
      BY <1>3, <2>15, <2>16, <3>1 DEF GoesOn
    <3>3. QED
      BY <2>14, <3>2
  <2>17. CASE f # s + 1
    <3>1. missed' = Append(missed, MissedBefore(Number(f)))
      BY <2>7, <2>17
    <3>2. s + 1 < f
      BY <1>4, <2>3, <2>17
    <3>3. MaxSize < Len(w)
      BY <1>4, <1>8, <1>13 DEF Full, n
    <3>4. LeavesAGap
      BY <1>2, <1>3, <1>8, <2>2, <2>6, <2>12, <2>15, <3>1, <3>2, <3>3 DEF LeavesAGap
    <3>5. QED
      BY <2>14, <3>4
  <2>18. QED
    BY <2>16, <2>17
<1>14. CASE ~ Full
  <2>1. /\ sortList' = w /\ seqNumber' = seqNumber /\ sorted' = sorted /\ missed' = missed
    BY <1>14 DEF Keep, w
  <2>2. Len(w) <= MaxSize
    BY <1>4, <1>8, <1>14 DEF Full, n
  <2>3. TypeOK'
    BY <1>1, <1>8, <1>12, <2>1 DEF OrderInv, TypeOK
  <2>4. LastSent' = s
    BY <1>3, <2>1 DEF LastSent
  <2>5. ListedOrPassed'
    BY <1>2, <1>3, <1>9, <1>11, <2>1, <2>4 DEF OrderInv, ListedOrPassed
  <2>6. Increasing(sorted') /\ \A i \in 1 .. Len(sorted') : sorted'[i] \in Arrived'
    BY <1>1, <2>1 DEF OrderInv
  <2>7. OrderInv'
    BY <1>1, <1>8, <1>9, <2>1, <2>2, <2>3, <2>5, <2>6 DEF OrderInv
  <2>8. QED
    BY <2>1, <2>7 DEF HandsOverNothing
<1>15. QED
  BY <1>13, <1>14
-----------------------------------------------------------------------------
(***************************************************************************)
(* The order of what is handed over.                                       *)
(***************************************************************************)

LEMMA InitEstablishesOrder == Init => OrderInv
<1>1. SUFFICES ASSUME Init PROVE OrderInv
  OBVIOUS
<1>2. Copies \in Nat /\ MAX_SEQ_NUMBER \in Nat /\ MaxSize \in Nat
  BY FilterAssumption
<1>3. TypeOK
  BY <1>1, <1>2 DEF Init, TypeOK
<1>4. Arrived = {}
  BY <1>1 DEF Init, Arrived
<1>5. Dense /\ ListedOrPassed
  BY <1>1, <1>4 DEF Init, Dense, ListedOrPassed
<1>6. Len(sorted) = 0 /\ Len(sortList) = 0
  BY <1>1 DEF Init
<1>7. QED
  BY <1>2, <1>3, <1>5, <1>6 DEF OrderInv, Increasing

\* What a step does, with the invariant that it needs and keeps.
LEMMA StepFacts ==
  ASSUME NumbersSuffice, OrderInv, [Next]_filterVars
  PROVE  /\ OrderInv' /\ Arrived \subseteq Arrived'
         /\ HandsOverNothing \/ GoesOn \/ LeavesAGap
         /\ \A p \in late' \ late : p \in Positions \ Arrived /\ sorted # <<>> /\ p <= LastSent
<1>1. CASE \E p \in Positions : Receive(p)
  <2>1. PICK p \in Positions : /\ MayArrive(p) /\ arrivals' = [arrivals EXCEPT ![p] = @ + 1]
                               /\ Drop(p) \/ Forward(p) \/ Keep(p)
    BY <1>1 DEF Receive
  <2>2. Arrived' = Arrived \cup {p} /\ p \notin Arrived
    BY <2>1, ArrivalFacts
  <2>3. CASE Drop(p)
    <3>1. OrderInv' /\ HandsOverNothing /\ sorted # <<>> /\ p <= LastSent
      BY <2>1, <2>3, DropKeepsOrder
    <3>2. late' = late \cup {p}
      BY <2>3 DEF Drop
    <3>3. QED
      BY <2>2, <3>1, <3>2
  <2>4. CASE Forward(p)
    <3>1. OrderInv' /\ GoesOn
      BY <2>1, <2>4, ForwardKeepsOrder
    <3>2. late' = late
      BY <2>4 DEF Forward
    <3>3. QED
      BY <2>2, <3>1, <3>2
  <2>5. CASE Keep(p)
    <3>1. OrderInv' /\ (HandsOverNothing \/ GoesOn \/ LeavesAGap)
      BY <2>1, <2>5, KeepKeepsOrder
    <3>2. late' = late
      BY <2>5 DEF Keep
    <3>3. QED
      BY <2>2, <3>1, <3>2
  <2>6. QED
    BY <2>1, <2>3, <2>4, <2>5
<1>2. CASE UNCHANGED filterVars
  <2>1. /\ seqNumber' = seqNumber /\ sortList' = sortList /\ sorted' = sorted /\ missed' = missed
        /\ arrivals' = arrivals /\ late' = late
    BY <1>2 DEF filterVars
  <2>2. Arrived' = Arrived
    BY <2>1 DEF Arrived
  <2>3. TypeOK'
    BY <2>1 DEF OrderInv, TypeOK
  <2>4. Dense' /\ ListedOrPassed'
    BY <2>1, <2>2 DEF OrderInv, Dense, ListedOrPassed, LastSent
  <2>5. OrderInv'
    BY <2>1, <2>2, <2>3, <2>4 DEF OrderInv
  <2>6. QED
    BY <2>1, <2>2, <2>5 DEF HandsOverNothing
<1>3. QED
  BY <1>1, <1>2 DEF Next

LEMMA OrderAlways == ASSUME NumbersSuffice PROVE Spec => []OrderInv
<1>1. OrderInv /\ [Next]_filterVars => OrderInv'
  BY StepFacts
<1>2. QED
  BY <1>1, InitEstablishesOrder, PTL DEF Spec

\* RTPSortFilter.receive hands the packets over in the order of the stream and
\* none of them twice, over the end of the 16-bit numbers too, whatever the
\* network loses and reorders within NumbersSuffice.
THEOREM PacketsAreHandedOverInOrder ==
  ASSUME NumbersSuffice
  PROVE  Spec => []HandedOverInOrder
<1>1. OrderInv => HandedOverInOrder
  BY DEF OrderInv, Increasing, HandedOverInOrder
<1>2. QED
  BY <1>1, OrderAlways, PTL
-----------------------------------------------------------------------------
(***************************************************************************)
(* What is dropped.                                                        *)
(***************************************************************************)

\* A run of packets that follow each other has every packet between its ends.
LEMMA RunCovers ==
  ASSUME NEW t \in Seq(Nat), t # <<>>, \A j \in 2 .. Len(t) : t[j] = t[j - 1] + 1,
         NEW x \in Nat, t[1] <= x, x <= t[Len(t)]
  PROVE  \E i \in 1 .. Len(t) : t[i] = x
<1> DEFINE k == Len(t)
           B == { i \in 1 .. k : x <= t[i] }
<1>1. k \in Nat \ {0} /\ \A i \in 1 .. k : t[i] \in Nat
  OBVIOUS
<1> HIDE DEF k
<1>2. PICK i \in B : \A j \in B : i <= j
  <2>1. B \subseteq Nat
    BY <1>1
  <2>2. k \in B
    BY <1>1 DEF k
  <2> HIDE DEF B
  <2>3. QED
    BY <2>1, <2>2, Least
<1>3. i \in 1 .. k /\ x <= t[i]
  BY <1>2
<1>4. CASE i = 1
  BY <1>1, <1>3, <1>4 DEF k
<1>5. CASE i # 1
  <2>1. i \in 2 .. k /\ i - 1 \in 1 .. k /\ ~ (i <= i - 1)
    BY <1>1, <1>3, <1>5
  <2>2. ~ (x <= t[i - 1])
    BY <1>2, <2>1
  <2>3. t[i] = t[i - 1] + 1
    BY <2>1 DEF k
  <2>4. t[i] = x
    BY <1>1, <1>3, <2>1, <2>2, <2>3
  <2>5. QED
    BY <1>3, <2>4 DEF k
<1>6. QED
  BY <1>4, <1>5

\* A list in order has as many elements as places.
LEMMA ElementsOfList ==
  ASSUME NEW w \in Seq(Positions), Increasing(w)
  PROVE  /\ IsFiniteSet({ w[i] : i \in 1 .. Len(w) })
         /\ Cardinality({ w[i] : i \in 1 .. Len(w) }) = Len(w)
<1> DEFINE n == Len(w)
           T == { w[i] : i \in 1 .. n }
<1>1. n \in Nat /\ \A i \in 1 .. n : w[i] \in Nat
  <2>1. n \in Nat /\ \A i \in 1 .. n : w[i] \in Positions
    OBVIOUS
  <2>2. QED
    BY <2>1, PositionsAreNat
<1>2. IsFiniteSet(1 .. n) /\ Cardinality(1 .. n) = n
  BY <1>1, FS_Interval
<1> DEFINE f == [i \in 1 .. n |-> w[i]]
<1> HIDE DEF n
<1>3. f \in Bijection(1 .. n, T)
  <2>1. f \in [1 .. n -> T]
    OBVIOUS
  <2>2. \A i, j \in 1 .. n : f[i] = f[j] => i = j
    <3>1. SUFFICES ASSUME NEW i \in 1 .. n, NEW j \in 1 .. n, w[i] = w[j], i # j PROVE FALSE
      OBVIOUS
    <3>2. i < j \/ j < i
      BY <1>1, <3>1
    <3>3. w[i] < w[j] \/ w[j] < w[i]
      BY <3>2 DEF Increasing, n
    <3>4. QED
      BY <1>1, <3>1, <3>3
  <2>3. \A e \in T : \E i \in 1 .. n : f[i] = e
    OBVIOUS
  <2> HIDE DEF f, T
  <2>4. QED
    BY <2>1, <2>2, <2>3 DEF Bijection, Injection, Surjection, IsInjective
<1> HIDE DEF f, T
<1>4. IsFiniteSet(T) /\ Cardinality(T) = Cardinality(1 .. n)
  <2>1. ExistsBijection(1 .. n, T)
    BY <1>3 DEF ExistsBijection
  <2>2. QED
    BY <1>2, <2>1, FS_Bijection
<1>5. QED
  BY <1>2, <1>4 DEF n, T

LEMMA OvertakenStep ==
  ASSUME OrderInv, OrderInv', Arrived \subseteq Arrived',
         HandsOverNothing \/ GoesOn \/ LeavesAGap, PassedIsOvertaken
  PROVE  PassedIsOvertaken'
<1> DEFINE n == Len(sorted)
           Over(x) == { q \in Arrived : q > x }
           OverNow(x) == { q \in Arrived' : q > x }
<1>1. /\ Arrived' \subseteq Positions /\ Positions \subseteq Nat /\ IsFiniteSet(Positions)
      /\ MaxSize \in Nat
  <2>1. Last \in Nat /\ MaxSize \in Nat
    BY FilterAssumption
  <2>2. IsFiniteSet(0 .. Last)
    BY <2>1, FS_Interval
  <2>3. QED
    BY <2>1, <2>2, PositionsAreNat DEF Arrived, Positions
<1>2. ASSUME NEW x \in Positions, NEW S, S \subseteq OverNow(x), MaxSize < Cardinality(S)
      PROVE  MaxSize < Cardinality(OverNow(x))
  <2>1. IsFiniteSet(OverNow(x))
    <3>1. OverNow(x) \subseteq Positions
      BY <1>1
    <3>2. QED
      BY <1>1, <3>1, FS_Subset
  <2> HIDE DEF OverNow
  <2>2. IsFiniteSet(S) /\ Cardinality(S) <= Cardinality(OverNow(x))
    BY <1>2, <2>1, FS_Subset
  <2>3. Cardinality(S) \in Nat /\ Cardinality(OverNow(x)) \in Nat
    BY <2>1, <2>2, FS_CardinalityType
  <2>4. QED
    BY <1>1, <1>2, <2>2, <2>3
<1>3. SUFFICES ASSUME NEW x \in Positions, sorted' # <<>>, sorted'[1] < x, x < LastSent'
               PROVE  \/ \E i \in 1 .. Len(sorted') : sorted'[i] = x
                      \/ Cardinality(OverNow(x)) > MaxSize
  BY DEF PassedIsOvertaken
<1>4. Over(x) \subseteq OverNow(x) /\ x \in Nat
  BY <1>1
<1>5. CASE HandsOverNothing
  <2>1. sorted' = sorted /\ LastSent' = LastSent
    BY <1>5 DEF HandsOverNothing, LastSent
  <2>2. \/ \E i \in 1 .. Len(sorted) : sorted[i] = x
        \/ Cardinality(Over(x)) > MaxSize
    BY <1>3, <2>1 DEF PassedIsOvertaken
  <2>3. CASE Cardinality(Over(x)) > MaxSize
    BY <1>2, <1>4, <2>3
  <2>4. QED
    BY <2>1, <2>2, <2>3
<1>6. ASSUME NEW t, HandsOver(t),
             \/ sorted = <<>> \/ t[1] = LastSent + 1
             \/ \E w \in Seq(Positions) :
                  /\ Increasing(w) /\ MaxSize < Len(w) /\ w[1] = t[1]
                  /\ \A i \in 1 .. Len(w) : w[i] \in Arrived'
      PROVE  \/ \E i \in 1 .. Len(sorted') : sorted'[i] = x
             \/ Cardinality(OverNow(x)) > MaxSize
  <2> DEFINE k == Len(t)
  <2>1. /\ n \in Nat /\ sorted \in Seq(Positions) /\ t \in Seq(Positions) /\ t # <<>>
        /\ sorted # <<>> => /\ n \in 1 .. n /\ LastSent \in Nat /\ sorted[n] = LastSent
                            /\ 1 \in 1 .. n
    <3>1. sorted \in Seq(Positions) /\ t \in Seq(Positions) /\ t # <<>>
      BY <1>6 DEF OrderInv, TypeOK, HandsOver
    <3>2. n \in Nat /\ (sorted # <<>> => n \in 1 .. n)
      BY <3>1
    <3>3. sorted # <<>> => LastSent \in Nat /\ sorted[n] = LastSent
      BY Places DEF OrderInv, LastSent
    <3> HIDE DEF n
    <3>4. sorted # <<>> => 1 \in 1 .. n
      BY <3>2
    <3>5. QED
      BY <3>1, <3>2, <3>3, <3>4
  <2>2. k \in Nat \ {0} /\ \A i \in 1 .. k : t[i] \in Positions /\ t[i] \in Nat
    <3>1. k \in Nat \ {0} /\ \A i \in 1 .. k : t[i] \in Positions
      BY <2>1
    <3>2. QED
      BY <3>1, PositionsAreNat
  <2>3. /\ Len(sorted') = n + k
        /\ \A i \in 1 .. n + k : sorted'[i] = IF i <= n THEN sorted[i] ELSE t[i - n]
    BY <1>6, <2>1, ConcatProperties DEF HandsOver
  <2> HIDE DEF k, n
  <2>4. \A i \in 1 .. k : i + n \in 1 .. n + k /\ sorted'[i + n] = t[i]
    <3>1. SUFFICES ASSUME NEW i \in 1 .. k
                   PROVE  i + n \in 1 .. n + k /\ sorted'[i + n] = t[i]
      OBVIOUS
    <3>2. i + n \in 1 .. n + k /\ ~ (i + n <= n) /\ (i + n) - n = i
      BY <2>1, <2>2
    <3>3. QED
      BY <2>3, <3>2
  <2>5. \A i \in 1 .. n : i \in 1 .. n + k /\ sorted'[i] = sorted[i]
    BY <2>1, <2>2, <2>3
  <2>6. LastSent' = t[k]
    <3>1. k \in 1 .. k /\ k + n = n + k
      BY <2>1, <2>2
    <3>2. QED
      BY <2>3, <2>4, <3>1 DEF LastSent
  <2>7. CASE t[1] <= x
    <3>1. t \in Seq(Nat)
      BY <2>1, PositionsAreNat, WiderSeq
    <3>2. x <= t[k] /\ t[k] \in Nat
      <4>1. k \in 1 .. k
        BY <2>2
      <4>2. QED
        BY <1>3, <1>4, <2>2, <2>6, <4>1
    <3>3. PICK i \in 1 .. k : t[i] = x
      BY <1>4, <1>6, <2>1, <2>7, <3>1, <3>2, RunCovers DEF HandsOver, k
    <3>4. QED
      BY <2>3, <2>4, <3>3
  <2>8. CASE ~ (t[1] <= x)
    <3>1. x < t[1] /\ t[1] \in Nat
      <4>1. 1 \in 1 .. k
        BY <2>2
      <4>2. QED
        BY <1>4, <2>2, <2>8, <4>1
    <3>2. sorted # <<>>
      <4>1. SUFFICES ASSUME sorted = <<>> PROVE FALSE
        OBVIOUS
      <4>2. n = 0 /\ 1 \in 1 .. k /\ 1 + n = 1
        BY <2>2, <4>1 DEF n
      <4>3. sorted'[1] = t[1]
        BY <2>4, <4>2
      <4>4. QED
        BY <1>3, <1>4, <3>1, <4>3
    <3>3. sorted'[1] = sorted[1]
      BY <2>1, <2>5, <3>2
    <3>4. CASE x = LastSent
      BY <2>1, <2>3, <2>5, <3>2, <3>4
    <3>5. CASE x < LastSent
      <4>1. \/ \E i \in 1 .. n : sorted[i] = x
            \/ Cardinality(Over(x)) > MaxSize
        BY <1>3, <3>2, <3>3, <3>5 DEF PassedIsOvertaken, n
      <4>2. CASE \E i \in 1 .. n : sorted[i] = x
        BY <2>3, <2>5, <4>2
      <4>3. CASE Cardinality(Over(x)) > MaxSize
        BY <1>2, <1>4, <4>3
      <4>4. QED
        BY <4>1, <4>2, <4>3
    <3>6. CASE LastSent < x
      <4>1. t[1] # LastSent + 1
        BY <1>4, <2>1, <3>1, <3>2, <3>6
      <4>2. PICK w \in Seq(Positions) : /\ Increasing(w) /\ MaxSize < Len(w) /\ w[1] = t[1]
                                        /\ \A i \in 1 .. Len(w) : w[i] \in Arrived'
        BY <1>6, <3>2, <4>1
      <4> DEFINE T == { w[i] : i \in 1 .. Len(w) }
      <4>3. Cardinality(T) = Len(w)
        BY <4>2, ElementsOfList
      <4>4. \A i \in 1 .. Len(w) : w[1] <= w[i] /\ w[i] \in Nat
        <5>1. w \in Seq(Nat) /\ w # <<>>
          <6>1. w # <<>>
            BY <1>1, <4>2
          <6>2. QED
            BY <6>1, PositionsAreNat, WiderSeq
        <5>2. \A i \in 1 .. Len(w) : w[i] \in Nat
          BY <5>1
        <5>3. QED
          BY <4>2, <5>1, <5>2, FirstIsLeast
      <4>5. T \subseteq OverNow(x)
        <5>1. SUFFICES ASSUME NEW i \in 1 .. Len(w) PROVE w[i] \in Arrived' /\ w[i] > x
          OBVIOUS
        <5>2. QED
          BY <1>4, <3>1, <4>2, <4>4
      <4>6. MaxSize < Cardinality(T)
        BY <4>2, <4>3
      <4> HIDE DEF T, OverNow
      <4>7. QED
        BY <1>2, <4>5, <4>6
    <3>7. QED
      BY <1>4, <2>1, <3>2, <3>4, <3>5, <3>6
  <2>9. QED
    BY <2>7, <2>8
<1>7. CASE GoesOn
  BY <1>6, <1>7 DEF GoesOn
<1>8. CASE LeavesAGap
  BY <1>6, <1>8 DEF LeavesAGap
<1>9. QED
  BY <1>5, <1>7, <1>8

\* Nothing is passed over at first.
LEMMA InitPassesNothing == Init => PassedIsOvertaken
  BY DEF Init, PassedIsOvertaken

\* RTPSortFilter.receive drops a packet as smaller than expected only if it comes
\* before the first one or more packets than the list holds have overtaken it.
THEOREM OvertakenOnlyAreDropped ==
  ASSUME NumbersSuffice
  PROVE  Spec => OnlyOvertakenAreLate
<1>1. OrderInv /\ PassedIsOvertaken /\ [Next]_filterVars => OrderInv' /\ PassedIsOvertaken'
  BY StepFacts, OvertakenStep
<1>2. ASSUME OrderInv, PassedIsOvertaken, [Next]_filterVars, NEW p \in late' \ late
      PROVE  \/ p < sorted[1] \/ Cardinality({ q \in Arrived : q > p }) > MaxSize
             \/ \E i \in 1 .. Len(sorted) : sorted[i] = p
  <2>1. p \in Positions \ Arrived /\ sorted # <<>> /\ p <= LastSent
    BY <1>2, StepFacts
  <2>2. /\ Len(sorted) \in 1 .. Len(sorted) /\ 1 \in 1 .. Len(sorted)
        /\ sorted[1] \in Arrived /\ LastSent \in Arrived
        /\ sorted[1] \in Nat /\ LastSent \in Nat /\ p \in Nat
    <3>1. Len(sorted) \in 1 .. Len(sorted) /\ 1 \in 1 .. Len(sorted)
      BY <1>2, <2>1, Places DEF OrderInv
    <3>2. sorted[1] \in Arrived /\ LastSent \in Arrived
      BY <1>2, <3>1 DEF OrderInv, LastSent
    <3>3. QED
      BY <2>1, <3>1, <3>2, PositionsAreNat DEF Arrived
  <2>3. p # sorted[1] /\ p # LastSent
    BY <2>1, <2>2
  <2>4. CASE p < sorted[1]
    BY <2>4
  <2>5. CASE sorted[1] < p /\ p < LastSent
    BY <1>2, <2>1, <2>5 DEF PassedIsOvertaken
  <2>6. QED
    BY <2>1, <2>2, <2>3, <2>4, <2>5
<1>3. OrderInv /\ PassedIsOvertaken /\ [Next]_filterVars
        => [ \A p \in late' \ late :
               \/ p < sorted[1] \/ Cardinality({ q \in Arrived : q > p }) > MaxSize
               \/ \E i \in 1 .. Len(sorted) : sorted[i] = p ]_filterVars
  BY <1>2
<1>4. QED
  BY <1>1, <1>3, InitEstablishesOrder, InitPassesNothing, PTL DEF Spec, OnlyOvertakenAreLate
-----------------------------------------------------------------------------
(***************************************************************************)
(* What is reported.                                                       *)
(***************************************************************************)

\* How many of the places in G are not after the place i.
Rank(G, i) == Cardinality({ j \in G : j <= i })

LEMMA RankFacts ==
  ASSUME NEW n \in Nat, NEW G, G \subseteq 1 .. n - 1
  PROVE  /\ IsFiniteSet(G) /\ Cardinality(G) \in Nat
         /\ \A i \in G : Rank(G, i) \in 1 .. Cardinality(G)
         /\ \A i \in G : Rank(G \cup {n}, i) = Rank(G, i)
         /\ Rank(G \cup {n}, n) = Cardinality(G) + 1
         /\ Cardinality(G \cup {n}) = Cardinality(G) + 1
<1>1. IsFiniteSet(1 .. n - 1)
  BY FS_Interval
<1>2. IsFiniteSet(G)
  BY <1>1, FS_Subset
<1>3. Cardinality(G) \in Nat
  BY <1>2, FS_CardinalityType
<1>4. n \notin G
  OBVIOUS
<1>5. Cardinality(G \cup {n}) = Cardinality(G) + 1
  BY <1>2, <1>4, FS_AddElement
<1>6. ASSUME NEW i \in G
      PROVE  Rank(G, i) \in 1 .. Cardinality(G) /\ Rank(G \cup {n}, i) = Rank(G, i)
  <2> DEFINE H == { j \in G : j <= i }
  <2>1. H \subseteq G /\ i \in H
    OBVIOUS
  <2>2. { j \in G \cup {n} : j <= i } = H
    OBVIOUS
  <2>3. Rank(G, i) = Cardinality(H) /\ Rank(G \cup {n}, i) = Cardinality(H)
    BY <2>2 DEF Rank
  <2> HIDE DEF H
  <2>4. IsFiniteSet(H) /\ Cardinality(H) <= Cardinality(G)
    BY <1>2, <2>1, FS_Subset
  <2>5. Cardinality(H) \in Nat /\ Cardinality(H) # 0
    BY <2>1, <2>4, FS_CardinalityType, FS_EmptySet
  <2>6. QED
    BY <1>3, <2>3, <2>4, <2>5
<1>7. Rank(G \cup {n}, n) = Cardinality(G) + 1
  <2>1. { j \in G \cup {n} : j <= n } = G \cup {n}
    <3>1. \A j \in 1 .. n - 1 : j <= n
      OBVIOUS
    <3>2. \A j \in G \cup {n} : j <= n
      BY <3>1
    <3>3. QED
      BY <3>2
  <2>2. QED
    BY <1>5, <2>1 DEF Rank
<1>8. QED
  BY <1>2, <1>3, <1>5, <1>6, <1>7

ReportsInv == GapsAreReported /\ LossIsCounted

\* ReportsInv, said with Rank.
LEMMA ReportsByRank ==
  ReportsInv <=> /\ Len(missed) = Cardinality(Gaps)
                 /\ \A i \in Gaps :
                      /\ missed[Rank(Gaps, i)].start = Number(sorted[i] + 1)
                      /\ Counts(missed[Rank(Gaps, i)], sorted[i], sorted[i + 1])
  BY DEF ReportsInv, GapsAreReported, LossIsCounted, ReportOf, Rank

LEMMA GapStep ==
  ASSUME OrderInv, OrderInv', HandsOverNothing \/ GoesOn \/ LeavesAGap, ReportsInv
  PROVE  ReportsInv'
<1> DEFINE n == Len(sorted)
<1>1. CASE HandsOverNothing
  <2>1. sorted' = sorted /\ missed' = missed
    BY <1>1 DEF HandsOverNothing
  <2>2. Gaps' = Gaps
    BY <2>1 DEF Gaps
  <2>3. QED
    BY <2>1, <2>2 DEF ReportsInv, GapsAreReported, LossIsCounted, ReportOf
<1>2. /\ n \in Nat /\ sorted \in Seq(Positions)
      /\ n = 0 <=> sorted = <<>>
      /\ \A i \in 1 .. n : sorted[i] \in Nat
      /\ sorted # <<>> => sorted[n] = LastSent
  <2>1. n \in Nat /\ sorted \in Seq(Positions)
    BY DEF OrderInv, TypeOK
  <2>2. n = 0 <=> sorted = <<>>
    BY <2>1
  <2>3. \A i \in 1 .. n : sorted[i] \in Nat
    BY Places DEF OrderInv
  <2>4. QED
    BY <2>1, <2>2, <2>3 DEF LastSent
<1>3. Gaps \subseteq 1 .. n - 1
  BY DEF Gaps
<1> HIDE DEF n
\* What is handed over has no gap, and the places before it keep theirs.
<1>4. ASSUME NEW t, HandsOver(t)
      PROVE  /\ Gaps' = IF sorted # <<>> /\ t[1] # LastSent + 1 THEN Gaps \cup {n} ELSE Gaps
             /\ \A i \in 1 .. n : sorted'[i] = sorted[i]
             /\ sorted'[n + 1] = t[1]
  <2> DEFINE k == Len(t)
  <2>1. t \in Seq(Positions) /\ t # <<>>
    BY <1>4 DEF HandsOver
  <2>2. k \in Nat \ {0}
    BY <2>1
  <2>3. /\ Len(sorted') = n + k
        /\ \A i \in 1 .. n + k : sorted'[i] = IF i <= n THEN sorted[i] ELSE t[i - n]
    BY <1>2, <1>4, <2>1, ConcatProperties DEF HandsOver, n
  <2>4. \A j \in 2 .. k : t[j] = t[j - 1] + 1
    BY <1>4 DEF HandsOver
  <2> HIDE DEF k
  <2>5. \A i \in 1 .. n : i \in 1 .. n + k /\ sorted'[i] = sorted[i]
    BY <1>2, <2>2, <2>3
  <2>6. \A i \in 1 .. k : i + n \in 1 .. n + k /\ sorted'[i + n] = t[i]
    <3>1. SUFFICES ASSUME NEW i \in 1 .. k
                   PROVE  i + n \in 1 .. n + k /\ sorted'[i + n] = t[i]
      OBVIOUS
    <3>2. i + n \in 1 .. n + k /\ ~ (i + n <= n) /\ (i + n) - n = i
      BY <1>2, <2>2
    <3>3. QED
      BY <2>3, <3>2
  <2>7. Gaps' = { i \in 1 .. n + k - 1 : sorted'[i + 1] # sorted'[i] + 1 }
    <3>1. Gaps' = { i \in 1 .. Len(sorted') - 1 : sorted'[i + 1] # sorted'[i] + 1 }
      BY DEF Gaps
    <3>2. Len(sorted') = n + k
      BY <2>3
    <3>3. Len(sorted') - 1 = n + k - 1
      BY <1>2, <2>2, <3>2
    <3>4. QED
      BY <3>1, <3>3, Zenon
  <2>8. ASSUME NEW i \in 1 .. n + k - 1
        PROVE  /\ i < n => (i \in Gaps' <=> i \in Gaps)
               /\ i = n => (i \in Gaps' <=> t[1] # LastSent + 1)
               /\ n < i => i \notin Gaps'
    <3>1. i \in Gaps' <=> sorted'[i + 1] # sorted'[i] + 1
      BY <2>7
    <3>2. ASSUME i < n PROVE i \in Gaps' <=> i \in Gaps
      <4>1. i \in 1 .. n /\ i + 1 \in 1 .. n /\ i \in 1 .. n - 1
        BY <1>2, <2>2, <3>2
      <4>2. sorted'[i] = sorted[i] /\ sorted'[i + 1] = sorted[i + 1]
        BY <2>5, <4>1
      <4>3. i \in Gaps <=> sorted[i + 1] # sorted[i] + 1
        BY <4>1 DEF Gaps, n
      <4>4. QED
        BY <3>1, <4>2, <4>3
    <3>3. ASSUME i = n PROVE i \in Gaps' <=> t[1] # LastSent + 1
      <4>1. i \in 1 .. n /\ 1 \in 1 .. k /\ i + 1 = 1 + n /\ sorted # <<>>
        BY <1>2, <2>2, <3>3
      <4>2. sorted'[i] = LastSent /\ sorted'[i + 1] = t[1]
        BY <1>2, <2>5, <2>6, <3>3, <4>1
      <4>3. QED
        BY <3>1, <4>2
    <3>4. ASSUME n < i PROVE i \notin Gaps'
      <4>1. i - n \in 1 .. k /\ (i - n) + 1 \in 2 .. k /\ (i - n) + 1 \in 1 .. k
        BY <1>2, <2>2, <3>4
      <4>2. (i - n) + n = i /\ ((i - n) + 1) + n = i + 1 /\ ((i - n) + 1) - 1 = i - n
        BY <1>2
      <4>3. sorted'[i] = t[i - n] /\ sorted'[i + 1] = t[(i - n) + 1]
        BY <2>6, <4>1, <4>2
      <4>4. t[(i - n) + 1] = t[i - n] + 1
        BY <2>4, <4>1, <4>2
      <4>5. QED
        BY <3>1, <4>3, <4>4
    <3>5. QED
      BY <3>2, <3>3, <3>4
  <2>9. /\ Gaps' \subseteq 1 .. n + k - 1
        /\ \A i \in 1 .. n - 1 : i \in 1 .. n + k - 1 /\ i < n
        /\ n # 0 => n \in 1 .. n + k - 1
        /\ \A i \in 1 .. n + k - 1 : i < n \/ i = n \/ n < i
    BY <1>2, <2>2, <2>7
  <2>10. ASSUME NEW i
         PROVE  i \in Gaps' <=> i \in Gaps \/ (i = n /\ sorted # <<>> /\ t[1] # LastSent + 1)
    <3>1. CASE i \in 1 .. n + k - 1
      <4>1. CASE i < n
        BY <1>2, <2>8, <3>1, <4>1
      <4>2. CASE i = n
        <5>1. i \notin Gaps
          <6>1. n \in Nat
            BY <1>2
          <6>2. \A j \in 1 .. n - 1 : j # n
            BY <6>1
          <6>3. QED
            BY <1>3, <4>2, <6>2
        <5>2. sorted # <<>>
          BY <1>2, <3>1, <4>2
        <5>3. QED
          BY <2>8, <3>1, <4>2, <5>1, <5>2
      <4>3. CASE n < i
        <5>1. i \notin Gaps
          <6>1. n \in Nat /\ \A j \in 1 .. n - 1 : ~ (n < j)
            BY <1>2
          <6>2. QED
            BY <1>3, <4>3, <6>1
        <5>2. i # n
          BY <1>2, <4>3
        <5>3. QED
          BY <2>8, <3>1, <4>3, <5>1, <5>2
      <4>4. QED
        BY <2>9, <3>1, <4>1, <4>2, <4>3
    <3>2. CASE i \notin 1 .. n + k - 1
      BY <1>2, <1>3, <2>9, <3>2
    <3>3. QED
      BY <3>1, <3>2
  <2>11. sorted'[n + 1] = t[1]
    <3>1. 1 \in 1 .. k /\ 1 + n = n + 1
      BY <1>2, <2>2
    <3>2. QED
      BY <2>6, <3>1
  <2>12. QED
    BY <2>5, <2>10, <2>11
<1>5. /\ Len(missed) = Cardinality(Gaps)
      /\ \A i \in Gaps : /\ missed[Rank(Gaps, i)].start = Number(sorted[i] + 1)
                         /\ Counts(missed[Rank(Gaps, i)], sorted[i], sorted[i + 1])
  BY ReportsByRank
<1>6. \A i \in Gaps : i \in 1 .. n /\ i + 1 \in 1 .. n
  BY <1>2, <1>3
<1>7. CASE GoesOn
  <2>1. PICK t : HandsOver(t) /\ (sorted # <<>> => t[1] = LastSent + 1)
    BY <1>7 DEF GoesOn
  <2>2. missed' = missed
    BY <1>7 DEF GoesOn
  <2>3. Gaps' = Gaps /\ \A i \in 1 .. n : sorted'[i] = sorted[i]
    BY <1>4, <2>1
  <2>4. QED
    BY <1>6, <2>2, <2>3
       DEF ReportsInv, GapsAreReported, LossIsCounted, ReportOf, Counts, Restarts
<1>8. CASE LeavesAGap
  <2>1. PICK t : /\ HandsOver(t) /\ sorted # <<>> /\ LastSent + 1 < t[1]
                 /\ \E m \in Reported : /\ missed' = Append(missed, m)
                                         /\ m.start = Number(LastSent + 1)
                                         /\ Counts(m, LastSent, t[1])
    BY <1>8 DEF LeavesAGap
  <2>2. PICK m \in Reported : /\ missed' = Append(missed, m) /\ m.start = Number(LastSent + 1)
                               /\ Counts(m, LastSent, t[1])
    BY <2>1
  <2>3. t[1] # LastSent + 1
    <3>1. LastSent \in Nat
      BY <2>1, Places DEF OrderInv
    <3>2. QED
      BY <2>1, <3>1
  <2>4. /\ Gaps' = Gaps \cup {n} /\ \A i \in 1 .. n : sorted'[i] = sorted[i]
        /\ sorted'[n + 1] = t[1]
    BY <1>4, <2>1, <2>3
  <2>5. /\ Cardinality(Gaps) \in Nat
        /\ \A i \in Gaps : Rank(Gaps, i) \in 1 .. Cardinality(Gaps)
        /\ \A i \in Gaps : Rank(Gaps \cup {n}, i) = Rank(Gaps, i)
        /\ Rank(Gaps \cup {n}, n) = Cardinality(Gaps) + 1
        /\ Cardinality(Gaps \cup {n}) = Cardinality(Gaps) + 1
    BY <1>2, <1>3, RankFacts
  <2>6. missed \in Seq(Reported)
    BY DEF OrderInv, TypeOK, Reported
  <2>7. /\ Len(missed') = Len(missed) + 1
        /\ \A r \in 1 .. Len(missed) : missed'[r] = missed[r]
        /\ missed'[Len(missed) + 1] = m
    BY <2>2, <2>6
  <2>8. Len(missed') = Cardinality(Gaps')
    BY <1>5, <2>4, <2>5, <2>7
  <2>9. ASSUME NEW i \in Gaps'
        PROVE  /\ missed'[Rank(Gaps', i)].start = Number(sorted'[i] + 1)
               /\ Counts(missed'[Rank(Gaps', i)], sorted'[i], sorted'[i + 1])
    <3>1. CASE i \in Gaps
      <4>1. Rank(Gaps', i) = Rank(Gaps, i) /\ Rank(Gaps, i) \in 1 .. Len(missed)
        BY <1>5, <2>4, <2>5, <3>1
      <4>2. missed'[Rank(Gaps, i)] = missed[Rank(Gaps, i)]
        BY <2>7, <4>1
      <4>3. sorted'[i] = sorted[i] /\ sorted'[i + 1] = sorted[i + 1]
        BY <1>6, <2>4, <3>1
      <4>4. QED
        BY <1>5, <3>1, <4>1, <4>2, <4>3
    <3>2. CASE i = n
      <4>1. n \in 1 .. n
        BY <1>2, <2>1
      <4>2. sorted'[n] = LastSent
        BY <1>2, <2>1, <2>4, <4>1
      <4>3. Rank(Gaps', n) = Len(missed) + 1
        BY <1>5, <2>4, <2>5
      <4>4. missed'[Rank(Gaps', n)] = m
        BY <2>7, <4>3
      <4>5. QED
        BY <2>2, <2>4, <3>2, <4>2, <4>4
    <3>3. QED
      BY <2>4, <3>1, <3>2
  <2>10. QED
    BY <2>8, <2>9 DEF ReportsInv, GapsAreReported, LossIsCounted, ReportOf, Rank, Counts, Restarts
<1>9. QED
  BY <1>1, <1>7, <1>8

LEMMA InitReportsNothing == Init => ReportsInv
<1>1. SUFFICES ASSUME Init PROVE ReportsInv
  OBVIOUS
<1>2. sorted = <<>> /\ missed = <<>>
  BY <1>1 DEF Init
<1>3. Len(sorted) = 0 /\ Len(missed) = 0
  BY <1>2
<1>4. Gaps = {}
  BY <1>3 DEF Gaps
<1>5. QED
  BY <1>3, <1>4, FS_EmptySet DEF ReportsInv, GapsAreReported, LossIsCounted

LEMMA ReportsAlways == ASSUME NumbersSuffice PROVE Spec => []ReportsInv
<1>1. OrderInv /\ ReportsInv /\ [Next]_filterVars => OrderInv' /\ ReportsInv'
  BY StepFacts, GapStep
<1>2. QED
  BY <1>1, InitEstablishesOrder, InitReportsNothing, PTL DEF Spec

\* RTPSortFilter.sendSortedPacket reports every gap in what is handed over, once
\* and with the number that the gap starts with, and reports nothing else.
THEOREM EveryGapIsReported ==
  ASSUME NumbersSuffice
  PROVE  Spec => []GapsAreReported
<1>1. ReportsInv => GapsAreReported
  BY DEF ReportsInv
<1>2. QED
  BY <1>1, ReportsAlways, PTL

\* The number of packets that RTPSortFilter.sendSortedPacket reports as lost is
\* that of the gap, or one less where the numbers start again.
THEOREM EveryLossIsCounted ==
  ASSUME NumbersSuffice
  PROVE  Spec => []LossIsCounted
<1>1. ReportsInv => LossIsCounted
  BY DEF ReportsInv
<1>2. QED
  BY <1>1, ReportsAlways, PTL
================================================================================
