--------------------------- MODULE RtpSortFilter ---------------------------
(***************************************************************************)
(* RTPSortFilter.java, through which Decoder puts the packets of a program *)
(* stream back into order.  A packet is known by its position in the       *)
(* stream; its number wraps around, and the filter sees only the number.   *)
(* The network loses packets and lets them overtake each other; positions  *)
(* are what the properties compare.                                        *)
(***************************************************************************)
EXTENDS Integers, Sequences, FiniteSets

CONSTANTS
  MaxSize,        \* mMaxSize: packets that wait
  MAX_SEQ_NUMBER, \* 65535
  Start,          \* number of the first packet
  Last,           \* bound: the last position of the stream
  MaxGap,         \* bound: packets lost in a row
  Lag,            \* bound: how far a packet stays behind the newest one
  Copies          \* how often a packet may arrive

ASSUME FilterAssumption ==
  /\ {MaxSize, Last, MaxGap, Lag} \subseteq Nat /\ {MAX_SEQ_NUMBER, Copies} \subseteq Nat \ {0}
  /\ Start \in 0..MAX_SEQ_NUMBER

VARIABLES
  seqNumber, \* mSeqNumber: the number sent on last, -1 at first
  sortList,  \* mSortList
  sorted,    \* what onSorted was called with
  missed,    \* what onMissed was called with
  arrivals,  \* position -> how often it has arrived
  late       \* packets that were dropped as smaller than expected

filterVars == <<seqNumber, sortList, sorted, missed, arrivals, late>>

Positions == 0..Last
Arrived == { p \in Positions : arrivals[p] > 0 }

Number(p) == (Start + p) % (MAX_SEQ_NUMBER + 1)

TypeOK ==
  /\ seqNumber \in -1..MAX_SEQ_NUMBER
  /\ sortList \in Seq(Positions) /\ sorted \in Seq(Positions) /\ late \subseteq Positions
  /\ missed \in Seq([start : 0..MAX_SEQ_NUMBER, number : Int])
  /\ arrivals \in [Positions -> 0..Copies]
-----------------------------------------------------------------------------
\* Mutant: numbers are compared as if they never wrapped.
PlainBefore(a, b) == a < b

\* seqNumberCompareTo(a, b) < 0: of numbers far apart the larger is the earlier.
Before(a, b) ==
  LET difference == IF a > b THEN a - b ELSE b - a
  IN  IF difference > MAX_SEQ_NUMBER \div 2 THEN b < a ELSE a < b

Following(n) == IF n = MAX_SEQ_NUMBER THEN 0 ELSE n + 1

LessThanPredicted(n) == seqNumber >= 0 /\ Before(n, Following(seqNumber))

FollowsIn(last, n) == last < 0 \/ n = Following(last)

IsSerial(n) == FollowsIn(seqNumber, n)

\* The place of packet p in the list: the sort is stable.
IsPlace(i, p) ==
  /\ \A j \in 1 .. i - 1 : ~Before(Number(p), Number(sortList[j]))
  /\ i <= Len(sortList) => Before(Number(p), Number(sortList[i]))

With(p) ==
  LET i == CHOOSE k \in 1 .. Len(sortList) + 1 : IsPlace(k, p)
  IN  SubSeq(sortList, 1, i - 1) \o <<p>> \o SubSeq(sortList, i, Len(sortList))

\* How many packets at the front of list follow each other.
RunLength(list) ==
  LET runs(k) == \A j \in 2..k : FollowsIn(Number(list[j - 1]), Number(list[j]))
  IN  CHOOSE k \in 1..Len(list) : runs(k) /\ (k < Len(list) => ~runs(k + 1))

\* sendSerialFromFirstPacketInList, after packets before have been sent.
SendRunOf(list, before) ==
  LET k == RunLength(list)
  IN  /\ sorted' = sorted \o before \o SubSeq(list, 1, k)
      /\ sortList' = SubSeq(list, k + 1, Len(list))
      /\ seqNumber' = Number(list[k])

\* Mutant: the count starts with the last packet that was sent on.
MissedSince(n) ==
  LET start == Following(seqNumber)
  IN  [start |-> start,
       number |-> IF n < seqNumber THEN n - seqNumber + MAX_SEQ_NUMBER ELSE n - seqNumber]

\* What sendSortedPacket reports when the number n does not follow the last one:
\* past the end of the numbers it adds 65535, not 65536.
MissedBefore(n) ==
  LET start == Following(seqNumber)
  IN  [start |-> start, number |-> IF n < start THEN n - start + MAX_SEQ_NUMBER ELSE n - start]

\* Mutant: the number of the packet is taken over before it is compared.
ReportsNothing(n) == UNCHANGED missed

Reports(n) == IF IsSerial(n) THEN UNCHANGED missed ELSE missed' = Append(missed, MissedBefore(n))
-----------------------------------------------------------------------------
\* receive of a packet smaller than expected.
Drop(p) ==
  /\ LessThanPredicted(Number(p))
  /\ late' = late \cup {p}
  /\ UNCHANGED <<seqNumber, sortList, sorted, missed>>

\* ... of the expected one: it goes on, with what follows it in the list.
Forward(p) ==
  /\ ~LessThanPredicted(Number(p)) /\ IsSerial(Number(p))
  /\ IF sortList # <<>> /\ FollowsIn(Number(p), Number(Head(sortList)))
     THEN SendRunOf(sortList, <<p>>)
     ELSE sorted' = Append(sorted, p) /\ seqNumber' = Number(p) /\ UNCHANGED sortList
  /\ UNCHANGED <<missed, late>>

\* Mutant: the list is full one packet early.
OneTooEarly == Len(sortList) + 1 >= MaxSize

Full == Len(sortList) >= MaxSize

\* ... of a later one: it waits; a full list has to give up its first packet.
Keep(p) ==
  /\ ~LessThanPredicted(Number(p)) /\ ~IsSerial(Number(p))
  /\ IF Full
     THEN SendRunOf(With(p), <<>>) /\ Reports(Number(Head(With(p))))
     ELSE sortList' = With(p) /\ UNCHANGED <<seqNumber, sorted, missed>>
  /\ UNCHANGED late

\* The network: a packet arrives not too late, and not too many are lost.
MayArrive(p) ==
  /\ arrivals[p] < Copies
  /\ \A q \in Arrived : q <= p + Lag
  /\ p <= MaxGap \/ \E q \in Arrived : p <= q + 1 + MaxGap

Receive(p) ==
  /\ MayArrive(p)
  /\ arrivals' = [arrivals EXCEPT ![p] = @ + 1]
  /\ Drop(p) \/ Forward(p) \/ Keep(p)

Init ==
  /\ seqNumber = -1 /\ sortList = <<>> /\ sorted = <<>> /\ missed = <<>> /\ late = {}
  /\ arrivals = [p \in Positions |-> 0]

Next == \E p \in Positions : Receive(p)

Spec == Init /\ [][Next]_filterVars
-----------------------------------------------------------------------------
\* Decoder.java:495, which cuts the stream into frames: packets are handed over
\* in the order of the stream, each once, over the end of the numbers too.
HandedOverInOrder == \A i, j \in 1..Len(sorted) : i < j => sorted[i] < sorted[j]

\* RTPSortFilter.java:86: the filter gives up a packet only when more packets
\* than the list holds have overtaken it (or it comes before the first of all).
OnlyOvertakenAreLate ==
  [][ \A p \in late' \ late :
        \/ p < sorted[1] \/ Cardinality({ q \in Arrived : q > p }) > MaxSize
        \/ \E i \in 1..Len(sorted) : sorted[i] = p ]_filterVars

\* The places in what is handed over that a gap follows.
Gaps == { i \in 1 .. Len(sorted) - 1 : sorted[i + 1] # sorted[i] + 1 }

\* What was reported of the gap at place i.
ReportOf(i) == missed[Cardinality({ j \in Gaps : j <= i })]

\* RTPSortFilter.java:138: Decoder, which has to wait for a key frame then, hears
\* of every gap in what it is handed, from where on, in the order of the gaps.
GapsAreReported ==
  /\ Len(missed) = Cardinality(Gaps)
  /\ \A i \in Gaps : ReportOf(i).start = Number(sorted[i] + 1)

\* Between the positions a and b the numbers start again.
Restarts(a, b) == Number(b) < Number(a + 1)

\* Report m has the number of packets lost between a and b, or one less when the
\* numbers start again there.
Counts(m, a, b) == m.number = b - a - 1 \/ (Restarts(a, b) /\ m.number = b - a - 2)

\* RTPSortFilter.java:138: the number of packets lost that Decoder hears of is that
\* of the gap in what it is handed, whatever waited in the list or came late
\* meanwhile.  Only over the end of the numbers it is one too small, never more.
LossIsCounted == \A i \in Gaps : Counts(ReportOf(i), sorted[i], sorted[i + 1])

\* RTPSortFilter.java:138 says that the number of packets lost is computed, and
\* Decoder takes the loss of one packet for a loss of audio only.
MissedIsCounted ==
  \A i \in 1..Len(missed) :
    \E j \in 1 .. Len(sorted) - 1 :
      /\ missed[i].start = Number(sorted[j] + 1)
      /\ missed[i].number = sorted[j + 1] - sorted[j] - 1
=============================================================================
