------------------------- MODULE UdtTransferProofs --------------------------
(***************************************************************************)
(* Theorems about UdtReceiver, UdtSender and the connection of the two,    *)
(* UdtTransfer: for every window, history, send buffer, split, set of      *)
(* window sizes, number of packets and initial sequence number whose       *)
(* connection stays below MaxSeq (NoWrap, SndNoWrap).  The sender's        *)
(* threads, UdtSendLoop, come last.                                        *)
(***************************************************************************)
EXTENDS UdtTransfer, UdtSendLoop, TLAPS

(***************************************************************************)
(* The receiver alone, against any order, repetition and loss of its       *)
(* peer's packets.                                                         *)
(***************************************************************************)

\* The inductive invariant.  The three sections of the number line up to lrsn
\* (delivered, buffered, lost) are kept by different objects; BufferShape is
\* what makes them agree: nothing buffered continues the window, and lrsn is
\* either the left edge or itself buffered.
EdgesInv == InitSeq <= rcvLeft /\ rcvLeft <= lrsn /\ lrsn <= InitSeq + Packets

BufferShape ==
  /\ \A p \in rcvPackets : rcvLeft + 1 < p /\ p <= lrsn
  /\ lrsn = rcvLeft \/ lrsn \in rcvPackets

AcksInv == \A k \in DOMAIN acks : acks[k] <= rcvLeft + 1

RcvInv ==
  /\ RcvTypeOK
  /\ EdgesInv
  /\ BufferShape
  /\ LossListIsTheGaps
  /\ DeliveredWithoutGap
  /\ AcksInv
  /\ Ack2NeverAhead
-----------------------------------------------------------------------------
\* Below MaxSeq the numbers are ordinary integers and the window is an interval.
LEMMA PlainNumbers ==
  ASSUME NoWrap, NEW n \in InitSeq .. (InitSeq + Packets)
  PROVE  /\ n \in SeqNumbers
         /\ IncreaseSeqNumber(n) = n + 1
         /\ IncreaseSeqNumber(n) \in SeqNumbers
         /\ RightOf(n) = n + WindowSize
         /\ n < RightOf(n)
  BY SeqAssumption, ReceiverAssumption
  DEF NoWrap, SeqNumbers, IncreaseSeqNumber, RightOf, IncreaseSeqNumberBy

LEMMA PeerSeqsAreAnInterval ==
  ASSUME NoWrap
  PROVE  PeerSeqs = (InitSeq + 1) .. (InitSeq + Packets)
<1>1. \A k \in 1 .. Packets : IncreaseSeqNumberBy(InitSeq, k) = InitSeq + k
  BY SeqAssumption, ReceiverAssumption DEF NoWrap, SeqNumbers, IncreaseSeqNumberBy
<1>2. \A s \in (InitSeq + 1) .. (InitSeq + Packets) :
        s - InitSeq \in 1 .. Packets /\ s = InitSeq + (s - InitSeq)
  BY SeqAssumption DEF SeqNumbers
<1>3. \A s \in (InitSeq + 1) .. (InitSeq + Packets) : s \in PeerSeqs
  BY <1>1, <1>2 DEF PeerSeqs
<1>4. \A s \in PeerSeqs : s \in (InitSeq + 1) .. (InitSeq + Packets)
  BY <1>1, SeqAssumption DEF PeerSeqs, SeqNumbers
<1>5. QED
  BY <1>3, <1>4

\* The number an ACK carries is the one after the left edge, whichever of its
\* two sources it is taken from.
LEMMA AckNumber ==
  ASSUME NoWrap, RcvInv, NEW seq \in SeqNumbers, IsAckNumber(seq)
  PROVE  seq = rcvLeft + 1
<1>1. lrsn \in InitSeq .. (InitSeq + Packets) /\ rcvLeft \in Int /\ lrsn \in Int
  BY SeqAssumption DEF RcvInv, RcvTypeOK, EdgesInv, SeqNumbers
<1>2. CASE rcvLoss = {}
  <2>1. rcvLeft = lrsn
    <3>1. SUFFICES ASSUME rcvLeft < lrsn PROVE FALSE
      BY <1>1 DEF RcvInv, EdgesInv
    <3>2. rcvLeft + 1 \in ((rcvLeft + 1) .. lrsn) \ rcvPackets
      BY <1>1, <3>1 DEF RcvInv, BufferShape
    <3>3. QED
      BY <1>2, <3>2 DEF RcvInv, LossListIsTheGaps
  <2>2. QED
    BY <1>1, <1>2, <2>1, PlainNumbers DEF IsAckNumber
<1>3. CASE rcvLoss # {}
  <2>1. rcvLeft < lrsn
    BY <1>1, <1>3 DEF RcvInv, LossListIsTheGaps
  <2>2. rcvLeft + 1 \in rcvLoss
    BY <1>1, <2>1 DEF RcvInv, LossListIsTheGaps, BufferShape
  <2>3. seq \in rcvLoss /\ seq <= rcvLeft + 1
    BY <1>3, <2>2 DEF IsAckNumber
  <2>4. QED
    BY <1>1, <2>3 DEF RcvInv, LossListIsTheGaps
<1>4. QED
  BY <1>2, <1>3
-----------------------------------------------------------------------------
LEMMA InitEstablishesInv == NoWrap /\ RcvInit => RcvInv
  BY SeqAssumption, ReceiverAssumption
  DEF RcvInit, RcvInv, RcvTypeOK, EdgesInv, BufferShape, LossListIsTheGaps,
      DeliveredWithoutGap, AcksInv, Ack2NeverAhead, SeqNumbers

LEMMA InOrderPreservesInv ==
  ASSUME NoWrap, RcvInv, NEW seq \in PeerSeqs, ReceiveInOrder(seq)
  PROVE  RcvInv'
<1>1. /\ seq \in (InitSeq + 1) .. (InitSeq + Packets)
      /\ InitSeq \in Nat /\ Packets \in Nat /\ MaxSeq \in Nat
  BY PeerSeqsAreAnInterval, SeqAssumption, ReceiverAssumption DEF SeqNumbers
<1>2. rcvLeft \in Nat /\ lrsn \in Nat /\ rcvPackets \subseteq Nat /\ rcvLoss \subseteq Nat
  BY <1>1 DEF RcvInv, RcvTypeOK, SeqNumbers
<1>3. seq = rcvLeft + 1
  BY <1>1, <1>2 DEF ReceiveInOrder, ContinuousSeqNumber
<1>4. PICK last \in seq .. MaxSeq :
        /\ GlidesTo(seq, last)
        /\ rcvLeft' = last
        /\ rcvPackets' = rcvPackets \ (seq .. last)
        /\ delivered' = delivered \cup {seq} \cup (rcvPackets \cap (seq .. last))
        /\ UpdateLoss(seq, last)
  BY DEF ReceiveInOrder
<1>5. last \in Nat /\ seq <= last
  BY <1>1, <1>4
<1>6. \A p \in (seq + 1) .. last : p \in rcvPackets
  BY <1>4 DEF GlidesTo
<1>7. last + 1 \notin rcvPackets
  BY <1>4 DEF GlidesTo, ContinuousSeqNumber
<1>8. last = seq \/ last <= lrsn
  BY <1>2, <1>5, <1>6, <1>1 DEF RcvInv, BufferShape
<1>9. seq <= lrsn \/ lrsn = rcvLeft
  BY <1>2, <1>3 DEF RcvInv, BufferShape
<1>10. last \in InitSeq .. (InitSeq + Packets) /\ lrsn \in InitSeq .. (InitSeq + Packets)
  BY <1>1, <1>2, <1>5, <1>8 DEF RcvInv, EdgesInv
<1>11. ~Ahead(seq, lrsn + 1, last) /\ IncreaseSeqNumber(lrsn) = lrsn + 1
  BY <1>1, <1>2, <1>3, <1>10, PlainNumbers DEF Ahead, RcvInv, EdgesInv
<1>12. /\ lrsn' = IF seq = lrsn + 1 THEN seq ELSE lrsn
       /\ rcvLoss' = IF seq = lrsn + 1 \/ seq = lrsn THEN rcvLoss ELSE rcvLoss \ {seq}
  BY <1>1, <1>2, <1>3, <1>4, <1>11 DEF UpdateLoss, NewlyLost
<1>13. largestACK2' = largestACK2 /\ acks' = acks
  BY DEF ReceiveInOrder
<1>14. AcksInv' /\ Ack2NeverAhead'
  <2>1. rcvLeft' = last /\ rcvLeft <= last
    BY <1>2, <1>3, <1>4, <1>5
  <2>2. largestACK2 \in Int /\ \A k \in DOMAIN acks : acks[k] \in Int
    BY <1>1 DEF RcvInv, RcvTypeOK, SeqNumbers
  <2>3. QED
    BY <2>1, <2>2, <1>2, <1>5, <1>13 DEF RcvInv, AcksInv, Ack2NeverAhead
<1>15. CASE lrsn = rcvLeft
  <2>1. rcvPackets = {} /\ rcvLoss = {} /\ last = seq
    BY <1>15, <1>2, <1>3, <1>5, <1>6 DEF RcvInv, BufferShape, LossListIsTheGaps
  <2>2. rcvLeft' = seq /\ lrsn' = seq /\ rcvPackets' = {} /\ rcvLoss' = {}
    BY <2>1, <1>3, <1>4, <1>12, <1>15
  <2>3. delivered' = delivered \cup {seq}
    BY <2>1, <1>4
  <2>4. DeliveredWithoutGap'
    BY <2>2, <2>3, <1>1, <1>2, <1>3 DEF RcvInv, DeliveredWithoutGap, EdgesInv
  <2>5. RcvTypeOK'
    BY <2>2, <2>3, <1>1, <1>10, <1>13, PlainNumbers DEF RcvInv, RcvTypeOK, SeqNumbers, NoWrap
  <2>6. EdgesInv' /\ BufferShape' /\ LossListIsTheGaps'
    BY <2>2, <1>1 DEF EdgesInv, BufferShape, LossListIsTheGaps
  <2>7. QED
    BY <2>4, <2>5, <2>6, <1>14 DEF RcvInv
<1>16. CASE lrsn # rcvLeft
  <2>1. seq < lrsn /\ lrsn \in rcvPackets
    BY <1>16, <1>2, <1>3 DEF RcvInv, BufferShape
  <2>2. /\ rcvLeft' = last /\ lrsn' = lrsn /\ rcvLoss' = rcvLoss \ {seq}
        /\ rcvPackets' = rcvPackets \ (seq .. last)
    BY <2>1, <1>1, <1>2, <1>4, <1>12
  <2>3. last <= lrsn
    BY <2>1, <1>8, <1>2
  <2>4. RcvTypeOK'
    BY <2>2, <1>4, <1>1, <1>10, <1>13, PlainNumbers DEF RcvInv, RcvTypeOK, SeqNumbers
  <2>5. EdgesInv'
    BY <2>2, <2>3, <1>5, <1>1, <1>2 DEF RcvInv, EdgesInv
  <2>6. BufferShape'
    <3>1. \A p \in rcvPackets' : last + 1 < p /\ p <= lrsn
      BY <2>2, <1>2, <1>3, <1>5, <1>7 DEF RcvInv, BufferShape
    <3>2. lrsn = last \/ lrsn \in rcvPackets \ (seq .. last)
      BY <2>1, <2>3, <1>2, <1>5
    <3>3. QED
      BY <3>1, <3>2, <2>2 DEF BufferShape
  <2>7. LossListIsTheGaps'
    <3>1. rcvLoss = ((rcvLeft + 1) .. lrsn) \ rcvPackets
      BY DEF RcvInv, LossListIsTheGaps
    <3>2. rcvLoss \ {seq} = ((last + 1) .. lrsn) \ (rcvPackets \ (seq .. last))
      BY <3>1, <2>3, <1>2, <1>3, <1>5, <1>6
    <3>3. QED
      BY <3>2, <2>2 DEF LossListIsTheGaps
  <2>8. DeliveredWithoutGap'
    <3>1. delivered = (InitSeq + 1) .. rcvLeft
      BY DEF RcvInv, DeliveredWithoutGap
    <3>2. \A s \in seq .. last : s = seq \/ s \in rcvPackets
      BY <1>1, <1>5, <1>6
    <3>3. {seq} \cup (rcvPackets \cap (seq .. last)) = seq .. last
      BY <3>2, <1>1, <1>5
    <3>4. delivered' = ((InitSeq + 1) .. rcvLeft) \cup (seq .. last)
      BY <3>1, <3>3, <1>4
    <3>5. ((InitSeq + 1) .. rcvLeft) \cup (seq .. last) = (InitSeq + 1) .. last
      BY <1>1, <1>2, <1>3, <1>5 DEF RcvInv, EdgesInv
    <3>6. QED
      BY <3>4, <3>5, <2>2 DEF DeliveredWithoutGap
  <2>9. QED
    BY <2>4, <2>5, <2>6, <2>7, <2>8, <1>14 DEF RcvInv
<1>17. QED
  BY <1>15, <1>16

LEMMA OutOfOrderPreservesInv ==
  ASSUME NoWrap, RcvInv, NEW seq \in PeerSeqs, ReceiveOutOfOrder(seq)
  PROVE  RcvInv'
<1>1. /\ seq \in (InitSeq + 1) .. (InitSeq + Packets)
      /\ InitSeq \in Nat /\ Packets \in Nat /\ MaxSeq \in Nat
  BY PeerSeqsAreAnInterval, SeqAssumption, ReceiverAssumption DEF SeqNumbers
<1>2. rcvLeft \in Nat /\ lrsn \in Nat /\ rcvPackets \subseteq Nat /\ rcvLoss \subseteq Nat
  BY <1>1 DEF RcvInv, RcvTypeOK, SeqNumbers
<1>3. /\ rcvLeft \in InitSeq .. (InitSeq + Packets)
      /\ lrsn \in InitSeq .. (InitSeq + Packets)
  BY <1>1, <1>2 DEF RcvInv, EdgesInv
<1>4. rcvLeft + 1 < seq
  BY <1>1, <1>2 DEF ReceiveOutOfOrder, InWindow, ContinuousSeqNumber
<1>5. IncreaseSeqNumber(lrsn) = lrsn + 1 /\ (Ahead(seq, lrsn + 1, rcvLeft) <=> seq > lrsn + 1)
  BY <1>3, PlainNumbers DEF Ahead
<1>6. /\ rcvPackets' = rcvPackets \cup {seq}
      /\ UpdateLoss(seq, rcvLeft)
      /\ rcvLeft' = rcvLeft /\ largestACK2' = largestACK2
      /\ acks' = acks /\ delivered' = delivered
  BY DEF ReceiveOutOfOrder
<1>7. AcksInv' /\ Ack2NeverAhead' /\ DeliveredWithoutGap'
  BY <1>6 DEF RcvInv, AcksInv, Ack2NeverAhead, DeliveredWithoutGap
<1>8. CASE seq > lrsn
  <2>1. lrsn' = seq /\ rcvLoss' = rcvLoss \cup ((lrsn + 1) .. (seq - 1))
    BY <1>1, <1>2, <1>5, <1>6, <1>8 DEF UpdateLoss, NewlyLost, SeqRange
  <2>2. RcvTypeOK'
    BY <2>1, <1>1, <1>3, <1>6, PlainNumbers DEF RcvInv, RcvTypeOK, SeqNumbers, NoWrap
  <2>3. EdgesInv' /\ BufferShape'
    BY <2>1, <1>1, <1>2, <1>4, <1>6, <1>8 DEF RcvInv, EdgesInv, BufferShape
  <2>4. LossListIsTheGaps'
    BY <2>1, <1>1, <1>2, <1>4, <1>6, <1>8
    DEF RcvInv, EdgesInv, BufferShape, LossListIsTheGaps
  <2>5. QED
    BY <2>2, <2>3, <2>4, <1>7 DEF RcvInv
<1>9. CASE seq <= lrsn
  <2>1. lrsn' = lrsn /\ rcvLoss' = IF seq = lrsn THEN rcvLoss ELSE rcvLoss \ {seq}
    BY <1>1, <1>2, <1>5, <1>6, <1>9 DEF UpdateLoss
  <2>2. seq = lrsn => seq \in rcvPackets
    BY <1>2, <1>4 DEF RcvInv, BufferShape
  <2>3. RcvTypeOK'
    BY <2>1, <1>1, <1>6, PlainNumbers DEF RcvInv, RcvTypeOK, SeqNumbers, NoWrap
  <2>4. EdgesInv' /\ BufferShape'
    BY <2>1, <1>1, <1>2, <1>4, <1>6, <1>9 DEF RcvInv, EdgesInv, BufferShape
  <2>5. LossListIsTheGaps'
    BY <2>1, <2>2, <1>1, <1>2, <1>6 DEF RcvInv, LossListIsTheGaps
  <2>6. QED
    BY <2>3, <2>4, <2>5, <1>7 DEF RcvInv
<1>10. QED
  BY <1>1, <1>2, <1>8, <1>9

LEMMA AckTaskPreservesInv ==
  ASSUME NoWrap, RcvInv, AckTask
  PROVE  RcvInv'
<1>1. PICK seq \in SeqNumbers : IsAckNumber(seq) /\ acks' = Append(acks, seq)
  BY DEF AckTask
<1>2. seq = rcvLeft + 1
  BY <1>1, AckNumber
<1>3. /\ rcvLeft' = rcvLeft /\ rcvPackets' = rcvPackets /\ rcvLoss' = rcvLoss
      /\ lrsn' = lrsn /\ largestACK2' = largestACK2 /\ delivered' = delivered
  BY DEF AckTask
<1>4. acks \in Seq(SeqNumbers) /\ acks' \in Seq(SeqNumbers)
  BY <1>1 DEF RcvInv, RcvTypeOK
<1>5. AcksInv'
  <2>1. SUFFICES ASSUME NEW k \in DOMAIN acks'
                 PROVE  acks'[k] <= rcvLeft + 1
    BY <1>3 DEF AcksInv
  <2>2. rcvLeft \in Int /\ seq \in Int
    BY SeqAssumption DEF RcvInv, RcvTypeOK, SeqNumbers
  <2>3. k \in DOMAIN acks \/ acks'[k] = seq
    BY <1>1, <1>4, <2>1
  <2>4. k \in DOMAIN acks => acks'[k] = acks[k]
    BY <1>1, <1>4
  <2>5. QED
    BY <1>2, <2>2, <2>3, <2>4 DEF RcvInv, AcksInv
<1>6. RcvTypeOK'
  BY <1>3, <1>4 DEF RcvInv, RcvTypeOK
<1>7. EdgesInv' /\ BufferShape' /\ LossListIsTheGaps' /\ DeliveredWithoutGap' /\ Ack2NeverAhead'
  BY <1>3 DEF RcvInv, EdgesInv, BufferShape, LossListIsTheGaps, DeliveredWithoutGap,
              Ack2NeverAhead
<1>8. QED
  BY <1>5, <1>6, <1>7 DEF RcvInv

LEMMA Ack2PreservesInv ==
  ASSUME RcvInv, NEW k, HandleAck2Packet(k)
  PROVE  RcvInv'
<1>1. k \in DOMAIN acks /\ acks[k] <= rcvLeft + 1 /\ acks[k] \in SeqNumbers
  BY DEF HandleAck2Packet, InAckHistory, RcvInv, RcvTypeOK, AcksInv
<1>2. largestACK2' = acks[k] \/ largestACK2' = largestACK2
  BY DEF HandleAck2Packet
<1>3. /\ rcvLeft' = rcvLeft /\ rcvPackets' = rcvPackets /\ rcvLoss' = rcvLoss
      /\ lrsn' = lrsn /\ acks' = acks /\ delivered' = delivered
  BY DEF HandleAck2Packet
<1>4. RcvTypeOK' /\ Ack2NeverAhead'
  BY <1>1, <1>2, <1>3 DEF RcvInv, RcvTypeOK, Ack2NeverAhead
<1>5. EdgesInv' /\ BufferShape' /\ LossListIsTheGaps' /\ DeliveredWithoutGap' /\ AcksInv'
  BY <1>3 DEF RcvInv, EdgesInv, BufferShape, LossListIsTheGaps, DeliveredWithoutGap, AcksInv
<1>6. QED
  BY <1>4, <1>5 DEF RcvInv

LEMMA RcvInvIsInductive ==
  ASSUME NoWrap, RcvInv, [RcvNext]_rcvVars
  PROVE  RcvInv'
<1>1. ASSUME NEW seq \in PeerSeqs, HandleDataPacket(seq)
      PROVE  RcvInv'
  BY <1>1, InOrderPreservesInv, OutOfOrderPreservesInv DEF HandleDataPacket
<1>2. CASE AckTask
  BY <1>2, AckTaskPreservesInv
<1>3. ASSUME NEW k \in 1 .. MaxAcks, HandleAck2Packet(k)
      PROVE  RcvInv'
  BY <1>3, Ack2PreservesInv
<1>4. CASE UNCHANGED rcvVars
  BY <1>4 DEF rcvVars, RcvInv, RcvTypeOK, EdgesInv, BufferShape, LossListIsTheGaps,
              DeliveredWithoutGap, AcksInv, Ack2NeverAhead
<1>5. QED
  BY <1>1, <1>2, <1>3, <1>4 DEF RcvNext
-----------------------------------------------------------------------------
\* The invariant holds in every state of the receiver.
THEOREM ReceiverInvariant == ASSUME NoWrap PROVE RcvSpec => []RcvInv
<1>1. RcvInit => RcvInv
  BY InitEstablishesInv
<1>2. RcvInv /\ [RcvNext]_rcvVars => RcvInv'
  BY RcvInvIsInductive
<1>3. QED
  BY <1>1, <1>2, PTL DEF RcvSpec

\* The types of the receiver's state: every number kept is a sequence number,
\* in particular lrsn and the ACKs never leave 0 .. MaxSeq.
THEOREM ReceiverTypes == ASSUME NoWrap PROVE RcvSpec => []RcvTypeOK
<1>1. RcvInv => RcvTypeOK
  BY DEF RcvInv
<1>2. QED
  BY <1>1, ReceiverInvariant, PTL

\* tryReceivePacket: the application is handed a gapless run of packets.
THEOREM DeliveryHasNoGap == ASSUME NoWrap PROVE RcvSpec => []DeliveredWithoutGap
<1>1. RcvInv => DeliveredWithoutGap
  BY DEF RcvInv
<1>2. QED
  BY <1>1, ReceiverInvariant, PTL

\* handleDataPacket: the loss list and the window agree on what is missing.
THEOREM LossListExact == ASSUME NoWrap PROVE RcvSpec => []LossListIsTheGaps
<1>1. RcvInv => LossListIsTheGaps
  BY DEF RcvInv
<1>2. QED
  BY <1>1, ReceiverInvariant, PTL

\* ackTask: the number the next ACK would carry is the one after the left edge.
THEOREM AckNumberExact == ASSUME NoWrap PROVE RcvSpec => []AckNumberIsNextExpected
<1>1. RcvInv => AckNumberIsNextExpected
  BY AckNumber DEF AckNumberIsNextExpected
<1>2. QED
  BY <1>1, ReceiverInvariant, PTL

\* sendAckPacket: no ACK, however old, covers a packet that was not delivered.
THEOREM AcksAreSafe == ASSUME NoWrap PROVE RcvSpec => []AckCoversOnlyDelivered
<1>1. RcvInv => AckCoversOnlyDelivered
  <2>1. SUFFICES ASSUME RcvInv, NEW k \in DOMAIN acks
                 PROVE  (InitSeq + 1) .. (acks[k] - 1) \subseteq delivered
    BY DEF AckCoversOnlyDelivered
  <2>2. acks[k] \in Int /\ rcvLeft \in Int /\ InitSeq \in Int
    BY <2>1, SeqAssumption DEF RcvInv, RcvTypeOK, SeqNumbers
  <2>3. acks[k] - 1 <= rcvLeft
    BY <2>1, <2>2 DEF RcvInv, AcksInv
  <2>4. QED
    BY <2>1, <2>2, <2>3 DEF RcvInv, DeliveredWithoutGap
<1>2. QED
  BY <1>1, ReceiverInvariant, PTL

\* handleAck2Packet: a number is silenced for good only while it is the one the
\* receiver waits for or an earlier one: what arrives next is acknowledged again.
THEOREM Ack2StaysBehind == ASSUME NoWrap PROVE RcvSpec => []Ack2NeverAhead
<1>1. RcvInv => Ack2NeverAhead
  BY DEF RcvInv
<1>2. QED
  BY <1>1, ReceiverInvariant, PTL
-----------------------------------------------------------------------------
(***************************************************************************)
(* The sender alone, against any acknowledgements and loss reports.        *)
(***************************************************************************)

\* Before the first packet the window has no edges.
SndEdges ==
  \/ sndLeft = -1 /\ sndRight = -1 /\ sndPackets = {}
  \/ InitSeq <= sndLeft /\ sndLeft <= sndRight /\ InitSeq < sndRight

\* The last number given out is the front packet's or the last one sent.
NumberGiven == seqNumber = IF sndFront >= 0 THEN sndFront ELSE LastSent

\* The inductive invariant.  NumbersFollowPosts needs NumberGiven, and bounds
\* LastSent by the packets posted, so that no number wraps.
SndInv ==
  /\ SndTypeOK
  /\ SndEdges
  /\ NumberGiven
  /\ NumbersFollowPosts
  /\ posted <= Packets
  /\ UnackedAreKept
  /\ FlightIsBounded
  /\ \A seq \in sndLoss : InitSeq < seq /\ seq <= LastSent

\* What the invariant says of the integers involved.
LEMMA SndRanges ==
  ASSUME SndNoWrap, SndInv
  PROVE  /\ InitSeq \in Nat /\ Packets \in Nat /\ MaxSeq \in Nat
         /\ InitSeq + Packets < MaxSeq
         /\ LastSent \in InitSeq .. (InitSeq + Packets)
         /\ sndBuf > 0 => LastSent < InitSeq + Packets
         /\ sndLeft \in Int /\ sndRight \in Int /\ sndFront \in Int /\ sndBuf \in Nat
         /\ sndPackets \subseteq Nat /\ sndLoss \subseteq Nat
  BY SeqAssumption
  DEF SndNoWrap, SndInv, SndTypeOK, SndEdges, NumbersFollowPosts, LastSent, SeqNumbers

\* The front packet gets the number after the last one sent, however often the
\* loop has looked at it.
LEMMA FrontFollowsLast ==
  ASSUME SndNoWrap, SndInv, sndBuf > 0
  PROVE  FrontNumber = LastSent + 1 /\ FrontNumber \in SeqNumbers
  BY SndRanges
  DEF SndInv, NumberGiven, NumbersFollowPosts, FrontNumber, IncreaseSeqNumber, SeqNumbers

LEMMA SndInitEstablishesInv == SndNoWrap /\ SndInit => SndInv
<1>1. SUFFICES ASSUME SndNoWrap, SndInit PROVE SndInv
  OBVIOUS
<1>2. LastSent = InitSeq /\ InitSeq \in SeqNumbers /\ InitSeq \in Nat /\ Packets \in Nat
  BY <1>1, SeqAssumption DEF SndInit, LastSent, SeqNumbers
<1>3. FlightIsBounded
  BY <1>1, SenderAssumption DEF SndInit, FlightIsBounded
<1>4. QED
  BY <1>1, <1>2, <1>3
  DEF SndInit, SndInv, SndTypeOK, SndEdges, NumberGiven, NumbersFollowPosts, UnackedAreKept
-----------------------------------------------------------------------------
LEMMA PostPreservesInv ==
  ASSUME SndNoWrap, SndInv, PostData
  PROVE  SndInv'
<1>1. PICK n \in 1 .. MaxSplit :
        posted + n <= Packets /\ sndBuf' = sndBuf + n /\ posted' = posted + n
  BY DEF PostData
<1>2. n \in Nat /\ sndBuf \in Nat /\ posted \in Nat /\ LastSent \in Nat /\ InitSeq \in Nat
  BY SndRanges, SenderAssumption DEF SndInv, SndTypeOK
<1>3. /\ sndFront' = sndFront /\ seqNumber' = seqNumber /\ sndLeft' = sndLeft
      /\ sndRight' = sndRight /\ sndPackets' = sndPackets /\ sndWindow' = sndWindow
      /\ sndLoss' = sndLoss /\ LastSent' = LastSent
  BY DEF PostData, LastSent
<1>4. SndTypeOK' /\ NumbersFollowPosts' /\ (posted <= Packets)'
  BY <1>1, <1>2, <1>3 DEF SndInv, SndTypeOK, NumbersFollowPosts
<1>5. QED
  BY <1>3, <1>4 DEF SndInv, SndEdges, NumberGiven, UnackedAreKept, FlightIsBounded

LEMMA SendNewPreservesInv ==
  ASSUME SndNoWrap, SndInv, SendNew
  PROVE  SndInv' /\ LastSent' = LastSent + 1 /\ Acknowledged' = Acknowledged
<1>1. /\ FrontNumber = LastSent + 1 /\ FrontNumber \in SeqNumbers
      /\ LastSent \in Nat /\ InitSeq \in Nat /\ MaxSeq \in Nat
      /\ InitSeq <= LastSent /\ FrontNumber \in Nat
      /\ DecreaseSeqNumber(FrontNumber) = LastSent
      /\ sndLeft \in Int /\ sndRight \in Int /\ sndFront \in Int /\ sndBuf \in Nat
  BY FrontFollowsLast, SndRanges DEF SendNew, SeqNumbers, DecreaseSeqNumber
<1>2. sndRight' = LastSent + 1 /\ LastSent' = LastSent + 1
  BY <1>1 DEF SendNew, LastSent
<1>3. sndLeft' = Acknowledged /\ Acknowledged \in InitSeq .. LastSent
  BY <1>1 DEF SendNew, SndInv, SndEdges, Acknowledged, LastSent
<1>4. Acknowledged' = Acknowledged
  BY <1>1, <1>3 DEF Acknowledged
<1>5. sndPackets = (Acknowledged + 1) .. LastSent
  <2>1. CASE sndLeft = -1 /\ sndRight = -1 /\ sndPackets = {}
    BY <2>1, <1>1 DEF Acknowledged, LastSent
  <2>2. CASE InitSeq <= sndLeft /\ sndLeft <= sndRight /\ InitSeq < sndRight
    BY <2>2, <1>1 DEF SndInv, UnackedAreKept, Acknowledged, LastSent
  <2>3. QED
    BY <2>1, <2>2 DEF SndInv, SndEdges
<1>6. UnackedAreKept'
  BY <1>1, <1>2, <1>3, <1>5 DEF SendNew, UnackedAreKept
<1>7. FlightIsBounded'
  <2>1. sndWindow \in SendWindows /\ sndWindow \in Nat /\ sndWindow >= 1
    BY SenderAssumption DEF SndInv, SndTypeOK
  <2>2. sndRight' - sndLeft' <= sndWindow
    BY <1>1, <1>2, <1>3, <2>1, SndRanges
    DEF SendNew, WindowAdmits, SndInv, SndEdges, Acknowledged, LastSent
  <2>3. QED
    BY <2>1, <2>2 DEF FlightIsBounded
<1>8. /\ sndBuf' = sndBuf - 1 /\ posted' = posted /\ sndFront' = -1
      /\ seqNumber' = LastSent + 1 /\ sndLoss' = sndLoss /\ sndWindow' = sndWindow
      /\ sndBuf \in Nat /\ sndBuf > 0
  BY <1>1 DEF SendNew, SndInv, NumberGiven, NumbersFollowPosts
<1>9. SndTypeOK'
  BY <1>1, <1>2, <1>3, <1>8, SndRanges DEF SendNew, SndInv, SndTypeOK, SeqNumbers
<1>10. SndEdges' /\ NumberGiven' /\ NumbersFollowPosts' /\ (posted <= Packets)'
  BY <1>1, <1>2, <1>3, <1>8 DEF SndInv, SndEdges, NumberGiven, NumbersFollowPosts
<1>11. (\A seq \in sndLoss : InitSeq < seq /\ seq <= LastSent)'
  BY <1>1, <1>2, <1>8, SndRanges DEF SndInv
<1>12. QED
  BY <1>2, <1>4, <1>6, <1>7, <1>9, <1>10, <1>11 DEF SndInv

LEMMA RefusedPreservesInv ==
  ASSUME SndNoWrap, SndInv, SendRefused
  PROVE  SndInv'
<1>1. /\ FrontNumber = LastSent + 1 /\ FrontNumber \in SeqNumbers
      /\ LastSent \in Nat /\ sndFront \in Int
  BY FrontFollowsLast, SndRanges DEF SendRefused
<1>2. sndFront' = LastSent + 1 /\ seqNumber' = LastSent + 1
  BY <1>1 DEF SendRefused, SndInv, NumberGiven, NumbersFollowPosts
<1>3. /\ sndBuf' = sndBuf /\ sndLeft' = sndLeft /\ posted' = posted
      /\ sndRight' = sndRight /\ sndPackets' = sndPackets /\ sndWindow' = sndWindow
      /\ sndLoss' = sndLoss /\ LastSent' = LastSent
  BY DEF SendRefused, LastSent
<1>4. SndTypeOK' /\ NumberGiven' /\ NumbersFollowPosts'
  BY <1>1, <1>2, <1>3 DEF SndInv, SndTypeOK, NumberGiven, NumbersFollowPosts
<1>5. QED
  BY <1>3, <1>4 DEF SndInv, SndEdges, UnackedAreKept, FlightIsBounded

\* The steps that change only the loss list.
LEMMA LossChangePreservesInv ==
  ASSUME SndNoWrap, SndInv,
         \A seq \in sndLoss' : InitSeq < seq /\ seq <= LastSent,
         sndLoss' \subseteq SeqNumbers,
         UNCHANGED <<sndBuf, sndFront, seqNumber, sndLeft, sndRight, sndPackets,
                     sndWindow, posted>>
  PROVE  SndInv'
<1>1. LastSent' = LastSent
  BY DEF LastSent
<1>2. QED
  BY <1>1 DEF SndInv, SndTypeOK, SndEdges, NumberGiven, NumbersFollowPosts,
              UnackedAreKept, FlightIsBounded

LEMMA TakeLossPreservesInv ==
  ASSUME SndNoWrap, SndInv, NEW seq, TakeLoss(seq)
  PROVE  SndInv'
  BY LossChangePreservesInv DEF TakeLoss, SndInv, SndTypeOK

LEMMA NakPreservesInv ==
  ASSUME SndNoWrap, SndInv, NEW lost, HandleNakPacket(lost),
         lost \subseteq (InitSeq + 1) .. LastSent
  PROVE  SndInv'
<1>1. \A seq \in lost : InitSeq < seq /\ seq <= LastSent /\ seq \in SeqNumbers
  BY SndRanges DEF SeqNumbers
<1>2. QED
  BY <1>1, LossChangePreservesInv DEF HandleNakPacket, SndInv, SndTypeOK

LEMMA ExpPreservesInv ==
  ASSUME SndNoWrap, SndInv, ExpTask
  PROVE  SndInv'
<1>1. \A seq \in sndPackets : InitSeq < seq /\ seq <= LastSent /\ seq \in SeqNumbers
  BY SndRanges DEF SndInv, SndTypeOK, SndEdges, UnackedAreKept, LastSent
<1>2. QED
  BY <1>1, LossChangePreservesInv DEF ExpTask, SndInv, SndTypeOK

LEMMA FlightShrinks ==
  ASSUME NEW left \in Int, NEW newLeft \in Int, NEW right \in Int, NEW w \in Int,
         left <= newLeft, right - left <= w
  PROVE  right - newLeft <= w
  OBVIOUS

\* An ACK moves the left edge to the number before its own, or not at all.
LEMMA AckPreservesInv ==
  ASSUME SndNoWrap, SndInv, NEW ackNumber \in SeqNumbers, HandleAckPacket(ackNumber)
  PROVE  /\ SndInv' /\ LastSent' = LastSent
         /\ sndRight' = sndRight /\ sndLeft' >= sndLeft
         /\ \/ sndLeft' = sndLeft /\ sndPackets' = sndPackets
            \/ sndLeft' = ackNumber - 1 /\ 0 <= sndLeft /\ sndLeft < ackNumber - 1
         /\ sndRight >= 0 => ackNumber - 1 <= sndLeft' \/ sndRight < ackNumber - 1
                             \/ ackNumber = 0
<1> DEFINE seq == DecreaseSeqNumber(ackNumber)
<1>1. /\ seq \in SeqNumbers /\ seq \in Nat /\ ackNumber \in Nat
      /\ IF ackNumber = 0 THEN seq = MaxSeq ELSE seq = ackNumber - 1
  BY SndRanges DEF DecreaseSeqNumber, SeqNumbers
<1>2. /\ sndLeft \in Int /\ sndRight \in Int /\ sndRight < MaxSeq /\ MaxSeq \in Nat
      /\ InitSeq \in Nat
  BY SndRanges DEF LastSent
<1>3. /\ IF 0 <= sndLeft /\ sndLeft < seq /\ seq <= sndRight
         THEN sndLeft' = seq /\ sndPackets' = { s \in sndPackets : s > seq }
         ELSE sndLeft' = sndLeft /\ sndPackets' = sndPackets
  BY <1>1, <1>2 DEF HandleAckPacket, AckMovesWindow, SndInv, SndEdges
<1>4. /\ sndWindow' \in SendWindows
      /\ sndBuf' = sndBuf /\ sndFront' = sndFront /\ seqNumber' = seqNumber
      /\ sndRight' = sndRight /\ posted' = posted
  BY DEF HandleAckPacket
<1>5. LastSent' = LastSent
  BY <1>4 DEF LastSent
<1>6. sndLoss' \subseteq sndLoss
  BY DEF HandleAckPacket, LossAfter
<1> HIDE DEF seq
<1>7. /\ sndLeft' \in Int /\ sndLeft <= sndLeft'
      /\ sndLeft' = sndLeft \/ (0 <= sndLeft /\ sndLeft' = seq /\ seq <= sndRight)
  BY <1>1, <1>2, <1>3, <1>4
<1>8. UnackedAreKept'
  <2>1. CASE 0 <= sndLeft /\ sndLeft < seq /\ seq <= sndRight
    <3>1. sndPackets = (sndLeft + 1) .. sndRight
      BY <2>1, <1>1, <1>2 DEF SndInv, UnackedAreKept
    <3>2. sndLeft' = seq /\ sndPackets' = { s \in (sndLeft + 1) .. sndRight : s > seq }
      BY <2>1, <3>1, <1>3
    <3>3. sndPackets' = (seq + 1) .. sndRight
      BY <2>1, <3>2, <1>1, <1>2
    <3>4. QED
      BY <3>2, <3>3, <1>4 DEF UnackedAreKept
  <2>2. CASE ~(0 <= sndLeft /\ sndLeft < seq /\ seq <= sndRight)
    <3>1. sndLeft' = sndLeft /\ sndPackets' = sndPackets
      BY <2>2, <1>3
    <3>2. QED
      BY <3>1, <1>4 DEF SndInv, UnackedAreKept
  <2>3. QED
    BY <2>1, <2>2
<1>9. FlightIsBounded'
  <2>1. PICK w \in SendWindows : sndRight - sndLeft <= w
    BY DEF SndInv, FlightIsBounded
  <2>2. w \in Int
    BY SenderAssumption
  <2>3. sndRight - sndLeft' <= w
    BY <2>1, <2>2, <1>2, <1>7, FlightShrinks
  <2>4. QED
    BY <1>4, <2>3 DEF FlightIsBounded
<1>10. SndTypeOK' /\ SndEdges'
  <2>1. sndPackets' \subseteq sndPackets
    BY <1>3
  <2>2. SndTypeOK'
    BY <2>1, <1>1, <1>4, <1>6, <1>7 DEF SndInv, SndTypeOK
  <2>3. CASE sndLeft = -1 /\ sndRight = -1 /\ sndPackets = {}
    <3>1. sndLeft' = -1
      BY <2>3, <1>7
    <3>2. QED
      BY <2>1, <2>2, <2>3, <3>1, <1>4 DEF SndEdges
  <2>4. CASE InitSeq <= sndLeft /\ sndLeft <= sndRight /\ InitSeq < sndRight
    <3>1. InitSeq <= sndLeft' /\ sndLeft' <= sndRight' /\ InitSeq < sndRight'
      BY <2>4, <1>1, <1>2, <1>4, <1>7
    <3>2. QED
      BY <2>2, <3>1 DEF SndEdges
  <2>5. QED
    BY <2>3, <2>4 DEF SndInv, SndEdges
<1>11. SndInv'
  BY <1>4, <1>5, <1>6, <1>8, <1>9, <1>10 DEF SndInv, NumberGiven, NumbersFollowPosts
<1>12. /\ \/ sndLeft' = sndLeft /\ sndPackets' = sndPackets
          \/ sndLeft' = ackNumber - 1 /\ 0 <= sndLeft /\ sndLeft < ackNumber - 1
       /\ sndRight >= 0 => ackNumber - 1 <= sndLeft' \/ sndRight < ackNumber - 1
                           \/ ackNumber = 0
  BY <1>1, <1>2, <1>3, <1>4 DEF SndInv, SndEdges
<1>13. QED
  BY <1>2, <1>4, <1>5, <1>7, <1>11, <1>12
-----------------------------------------------------------------------------
LEMMA SentNumbersAreAnInterval ==
  ASSUME SndNoWrap, SndInv
  PROVE  \A seq \in SentNumbers : InitSeq < seq /\ seq <= LastSent /\ seq \in SeqNumbers
<1>1. sndRight \in Int /\ sndRight < MaxSeq /\ InitSeq \in Nat /\ MaxSeq \in Nat /\ InitSeq < MaxSeq
  BY SndRanges DEF LastSent
<1>2. CASE sndRight = -1
  BY <1>1, <1>2 DEF SentNumbers
<1>3. CASE InitSeq < sndRight
  <2>1. SentNumbers = SeqRange(InitSeq + 1, sndRight) \cup {sndRight} /\ LastSent = sndRight
    BY <1>1, <1>3 DEF SentNumbers, IncreaseSeqNumber, LastSent
  <2>2. SeqRange(InitSeq + 1, sndRight) = (InitSeq + 1) .. (sndRight - 1)
    BY <1>1, <1>3 DEF SeqRange
  <2>3. QED
    BY <2>1, <2>2, <1>1, <1>3 DEF SeqNumbers
<1>4. QED
  BY <1>2, <1>3 DEF SndInv, SndEdges

LEMMA SndInvIsInductive ==
  ASSUME SndNoWrap, SndInv, [SndNext]_sndVars
  PROVE  SndInv' /\ sndLeft' >= sndLeft
<1>1. sndLeft \in Int
  BY SndRanges
<1>2. CASE PostData
  BY <1>1, <1>2, PostPreservesInv DEF PostData
<1>3. CASE SendNew
  <2>1. SndInv'
    BY <1>3, SendNewPreservesInv
  <2>2. Acknowledged' = Acknowledged /\ InitSeq \in Nat
    BY <1>3, SendNewPreservesInv, SndRanges
  <2>3. sndLeft' = sndLeft \/ sndLeft < 0
    BY <1>3 DEF SendNew
  <2>4. sndLeft' \in Int /\ (sndLeft < 0 => sndLeft = -1) /\ sndLeft' >= -1
    BY <1>1, <2>1, <2>2 DEF SndInv, SndTypeOK, SeqNumbers
  <2>5. QED
    BY <1>1, <2>1, <2>3, <2>4
<1>4. CASE SendRefused
  BY <1>1, <1>4, RefusedPreservesInv DEF SendRefused
<1>5. ASSUME NEW seq \in sndLoss, TakeLoss(seq)
      PROVE  SndInv' /\ sndLeft' >= sndLeft
  BY <1>1, <1>5, TakeLossPreservesInv DEF TakeLoss
<1>6. ASSUME NEW seq \in SentNumbers, HandleAckPacket(IncreaseSeqNumber(seq))
      PROVE  SndInv' /\ sndLeft' >= sndLeft
  <2>1. IncreaseSeqNumber(seq) \in SeqNumbers
    BY SentNumbersAreAnInterval, SndRanges DEF IncreaseSeqNumber, SeqNumbers
  <2>2. QED
    BY <1>6, <2>1, AckPreservesInv
<1>7. ASSUME NEW seq \in SentNumbers, HandleNakPacket({seq})
      PROVE  SndInv' /\ sndLeft' >= sndLeft
  <2>1. {seq} \subseteq (InitSeq + 1) .. LastSent
    BY SentNumbersAreAnInterval, SndRanges DEF SeqNumbers
  <2>2. SndInv'
    BY <1>7, <2>1, NakPreservesInv
  <2>3. QED
    BY <1>1, <1>7, <2>2 DEF HandleNakPacket
<1>8. CASE ExpTask
  BY <1>1, <1>8, ExpPreservesInv DEF ExpTask
<1>9. CASE UNCHANGED sndVars
  <2>1. SndInv'
    BY <1>9, LossChangePreservesInv DEF sndVars, SndInv, SndTypeOK
  <2>2. QED
    BY <1>1, <1>9, <2>1 DEF sndVars
<1>10. QED
  BY <1>2, <1>3, <1>4, <1>5, <1>6, <1>7, <1>8, <1>9 DEF SndNext

\* The invariant holds in every state of the sender.
THEOREM SenderInvariant == ASSUME SndNoWrap PROVE SndSpec => []SndInv
<1>1. SndInit => SndInv
  BY SndInitEstablishesInv
<1>2. SndInv /\ [SndNext]_sndVars => SndInv'
  BY SndInvIsInductive
<1>3. QED
  BY <1>1, <1>2, PTL DEF SndSpec

\* ackPacket: every packet that may have to be sent again is still held.
THEOREM UnackedPacketsAreKept == ASSUME SndNoWrap PROVE SndSpec => []UnackedAreKept
<1>1. SndInv => UnackedAreKept
  BY DEF SndInv
<1>2. QED
  BY <1>1, SenderInvariant, PTL

\* sendLoop: the numbers of the packets posted have no gap and no repetition.
THEOREM NumberingHasNoGap == ASSUME SndNoWrap PROVE SndSpec => []NumbersFollowPosts
<1>1. SndInv => NumbersFollowPosts
  BY DEF SndInv
<1>2. QED
  BY <1>1, SenderInvariant, PTL

\* trySendPacket: no more packets are unacknowledged than the largest window.
THEOREM FlightStaysBounded == ASSUME SndNoWrap PROVE SndSpec => []FlightIsBounded
<1>1. SndInv => FlightIsBounded
  BY DEF SndInv
<1>2. QED
  BY <1>1, SenderInvariant, PTL

\* ackPacket: no ACK, however late, takes the window back.
THEOREM WindowNeverMovesBack == ASSUME SndNoWrap PROVE SndSpec => AckNeverMovesBack
<1>1. SndInv /\ [SndNext]_sndVars => [sndLeft' >= sndLeft]_sndVars
  BY SndInvIsInductive
<1>2. QED
  BY <1>1, SenderInvariant, PTL DEF SndSpec, AckNeverMovesBack
-----------------------------------------------------------------------------
(***************************************************************************)
(* The connection, over a network that loses, repeats and reorders at      *)
(* will.                                                                   *)
(***************************************************************************)

\* What ties the two ends together: the numbers on the network were sent, the
\* receiver knows of no later one, and what the sender takes for acknowledged,
\* and the ACK2s it has answered with, never exceed what was delivered.
NetworkInv ==
  /\ dataNet \cup nakNet \subseteq (InitSeq + 1) .. LastSent
  /\ lrsn <= LastSent

AckInv ==
  /\ Acknowledged <= rcvLeft
  /\ ack2Net \subseteq DOMAIN acks
  /\ \A k \in ack2Net : acks[k] <= Acknowledged + 1
  /\ largestACK2 <= Acknowledged + 1

Inv == SndInv /\ RcvInv /\ NetworkInv /\ AckInv

LEMMA SenderDoesNotWrap == NoWrap => SndNoWrap
  BY SeqAssumption, ReceiverAssumption DEF NoWrap, SndNoWrap, SeqNumbers

\* What the invariant says of the integers involved.
LEMMA Ranges ==
  ASSUME NoWrap, Inv
  PROVE  /\ SndNoWrap
         /\ InitSeq \in Nat /\ Packets \in Nat /\ MaxSeq \in Nat
         /\ LastSent \in InitSeq .. (InitSeq + Packets)
         /\ Acknowledged \in Int /\ InitSeq <= Acknowledged
         /\ rcvLeft \in Int /\ lrsn \in Int /\ largestACK2 \in Int
         /\ sndLeft \in Int /\ sndRight \in Int
         /\ InitSeq <= rcvLeft /\ rcvLeft <= lrsn /\ lrsn <= LastSent
         /\ \A k \in DOMAIN acks : acks[k] \in SeqNumbers /\ acks[k] \in Int
<1>1. SndNoWrap /\ SndInv /\ RcvInv /\ lrsn <= LastSent
  BY SenderDoesNotWrap DEF Inv, NetworkInv
<1>2. /\ InitSeq \in Nat /\ Packets \in Nat /\ MaxSeq \in Nat
      /\ LastSent \in InitSeq .. (InitSeq + Packets)
      /\ sndLeft \in Int /\ sndRight \in Int
  BY <1>1, SndRanges
<1>3. Acknowledged \in Int /\ InitSeq <= Acknowledged
  BY <1>1, <1>2 DEF SndInv, SndEdges, Acknowledged
<1>4. /\ rcvLeft \in Int /\ lrsn \in Int /\ largestACK2 \in Int
      /\ InitSeq <= rcvLeft /\ rcvLeft <= lrsn
      /\ \A k \in DOMAIN acks : acks[k] \in SeqNumbers /\ acks[k] \in Int
  BY <1>1, <1>2 DEF RcvInv, RcvTypeOK, EdgesInv, SeqNumbers
<1>5. QED
  BY <1>1, <1>2, <1>3, <1>4

LEMMA InitEstablishesNetInv == NoWrap /\ Init => Inv
<1>1. SUFFICES ASSUME NoWrap, Init PROVE Inv
  OBVIOUS
<1>2. SndInv /\ RcvInv
  BY <1>1, SenderDoesNotWrap, SndInitEstablishesInv, InitEstablishesInv DEF Init
<1>3. LastSent = InitSeq /\ Acknowledged = InitSeq /\ InitSeq \in Int
  BY <1>1, SeqAssumption DEF Init, SndInit, LastSent, Acknowledged, SeqNumbers
<1>4. NetworkInv /\ AckInv
  BY <1>1, <1>3 DEF Init, RcvInit, NetworkInv, AckInv
<1>5. QED
  BY <1>2, <1>4 DEF Inv
-----------------------------------------------------------------------------
\* A step of the sender that leaves the receiver, the edges of the send window
\* and the ACK2s alone, and transmits nothing that was not sent before.
LEMMA QuietSenderStep ==
  ASSUME NoWrap, Inv, SndInv',
         sndRight' = sndRight, sndLeft' = sndLeft,
         UNCHANGED <<rcvVars, nakNet, ack2Net>>,
         dataNet' \subseteq (InitSeq + 1) .. LastSent
  PROVE  Inv'
<1>1. LastSent' = LastSent /\ Acknowledged' = Acknowledged
  BY DEF LastSent, Acknowledged
<1>2. /\ rcvLeft' = rcvLeft /\ rcvPackets' = rcvPackets /\ rcvLoss' = rcvLoss
      /\ lrsn' = lrsn /\ largestACK2' = largestACK2 /\ acks' = acks
      /\ delivered' = delivered
  BY DEF rcvVars
<1>3. RcvInv'
  BY <1>2 DEF Inv, RcvInv, RcvTypeOK, EdgesInv, BufferShape, LossListIsTheGaps,
              DeliveredWithoutGap, AcksInv, Ack2NeverAhead
<1>4. NetworkInv'
  BY <1>1, <1>2 DEF Inv, NetworkInv
<1>5. AckInv'
  BY <1>1, <1>2 DEF Inv, AckInv
<1>6. QED
  BY <1>3, <1>4, <1>5 DEF Inv

LEMMA TransmitPreservesInv ==
  ASSUME NoWrap, Inv, Transmit
  PROVE  Inv'
<1>1. SndNoWrap /\ SndInv /\ SendNew /\ sndBuf > 0
  BY Ranges DEF Inv, Transmit, SendNew
<1>2. SndInv' /\ LastSent' = LastSent + 1 /\ Acknowledged' = Acknowledged
  BY <1>1, SendNewPreservesInv
<1>3. FrontNumber = LastSent + 1
  BY <1>1, FrontFollowsLast
<1>4. /\ rcvLeft' = rcvLeft /\ rcvPackets' = rcvPackets /\ rcvLoss' = rcvLoss
      /\ lrsn' = lrsn /\ largestACK2' = largestACK2 /\ acks' = acks
      /\ delivered' = delivered /\ nakNet' = nakNet /\ ack2Net' = ack2Net
      /\ dataNet' = dataNet \cup {FrontNumber}
  BY DEF Transmit, rcvVars
<1>5. RcvInv'
  BY <1>4 DEF Inv, RcvInv, RcvTypeOK, EdgesInv, BufferShape, LossListIsTheGaps,
              DeliveredWithoutGap, AcksInv, Ack2NeverAhead
<1>6. NetworkInv'
  <2>1. LastSent \in Int /\ InitSeq \in Int /\ InitSeq <= LastSent /\ lrsn \in Int
    BY Ranges
  <2>2. ((InitSeq + 1) .. LastSent) \cup {LastSent + 1} = (InitSeq + 1) .. (LastSent + 1)
    BY <2>1
  <2>3. QED
    BY <1>2, <1>3, <1>4, <2>1, <2>2 DEF Inv, NetworkInv
<1>7. AckInv'
  BY <1>2, <1>4 DEF Inv, AckInv
<1>8. QED
  BY <1>2, <1>5, <1>6, <1>7 DEF Inv

LEMMA RetransmitPreservesInv ==
  ASSUME NoWrap, Inv, NEW seq, Retransmit(seq)
  PROVE  Inv'
<1>1. SndNoWrap /\ SndInv /\ TakeLoss(seq)
  BY Ranges DEF Inv, Retransmit
<1>2. SndInv' /\ sndRight' = sndRight /\ sndLeft' = sndLeft
  BY <1>1, TakeLossPreservesInv DEF TakeLoss
<1>3. sndPackets \subseteq (InitSeq + 1) .. LastSent
  BY Ranges DEF Inv, SndInv, SndEdges, UnackedAreKept, LastSent
<1>4. dataNet' \subseteq (InitSeq + 1) .. LastSent
  BY <1>3 DEF Retransmit, Inv, NetworkInv
<1>5. QED
  BY <1>2, <1>4, QuietSenderStep DEF Retransmit

\* A packet that arrives was sent; what it makes the receiver report lost was
\* sent before it.
LEMMA ReceiveDataPreservesInv ==
  ASSUME NoWrap, Inv, NEW seq \in dataNet, ReceiveData(seq)
  PROVE  Inv' /\ rcvLeft <= rcvLeft'
<1>1. seq \in PeerSeqs /\ seq \in Int /\ seq > 0 /\ seq <= LastSent /\ seq \in SeqNumbers
  <2>1. seq \in (InitSeq + 1) .. LastSent
    BY DEF Inv, NetworkInv
  <2>2. /\ InitSeq \in Nat /\ Packets \in Nat /\ MaxSeq \in Nat
        /\ LastSent \in Int /\ LastSent <= InitSeq + Packets /\ InitSeq + Packets < MaxSeq
    BY Ranges DEF SndNoWrap
  <2>3. QED
    BY <2>1, <2>2, PeerSeqsAreAnInterval DEF SeqNumbers
<1>2. RcvInv' /\ rcvLeft' \in Int /\ lrsn' \in Int
  <2>1. RcvInv'
    BY <1>1, InOrderPreservesInv, OutOfOrderPreservesInv
    DEF Inv, ReceiveData, HandleDataPacket
  <2>2. rcvLeft' \in SeqNumbers /\ lrsn' \in SeqNumbers
    BY <2>1 DEF RcvInv, RcvTypeOK
  <2>3. SeqNumbers \subseteq Int
    BY Ranges DEF SeqNumbers
  <2>4. QED
    BY <2>1, <2>2, <2>3
<1>3. /\ SndInv' /\ LastSent' = LastSent /\ Acknowledged' = Acknowledged
      /\ dataNet' = dataNet /\ ack2Net' = ack2Net
  <2>1. /\ sndBuf' = sndBuf /\ sndFront' = sndFront /\ seqNumber' = seqNumber
        /\ sndLeft' = sndLeft /\ sndRight' = sndRight /\ sndPackets' = sndPackets
        /\ sndWindow' = sndWindow /\ sndLoss' = sndLoss /\ posted' = posted
        /\ dataNet' = dataNet /\ ack2Net' = ack2Net
    BY DEF ReceiveData, sndVars
  <2>2. SndInv'
    BY <2>1, Ranges, LossChangePreservesInv DEF Inv, SndInv, SndTypeOK
  <2>3. QED
    BY <2>1, <2>2 DEF LastSent, Acknowledged
<1>4. PICK left \in SeqNumbers : left = rcvLeft' /\ UpdateLoss(seq, left)
  BY <1>2 DEF RcvInv, RcvTypeOK, ReceiveData, HandleDataPacket, ReceiveInOrder,
              ReceiveOutOfOrder
<1>5. lrsn' = seq \/ lrsn' = lrsn
  BY <1>4 DEF UpdateLoss
<1>6. NewlyLost(seq, left) \subseteq rcvLoss'
  BY <1>4 DEF UpdateLoss, NewlyLost
<1>7. rcvLoss' \subseteq (InitSeq + 1) .. lrsn'
  BY <1>2, Ranges DEF RcvInv, EdgesInv, LossListIsTheGaps
<1>8. NetworkInv'
  <2>1. lrsn' <= LastSent /\ LastSent \in Int /\ InitSeq \in Int
    BY <1>1, <1>5, Ranges
  <2>2. NewlyLost(seq, left) \subseteq (InitSeq + 1) .. LastSent
    <3>1. lrsn' \in Int
      BY <1>2
    <3>2. (InitSeq + 1) .. lrsn' \subseteq (InitSeq + 1) .. LastSent
      BY <2>1, <3>1
    <3>3. QED
      BY <3>2, <1>6, <1>7
  <2>3. nakNet' = nakNet \cup NewlyLost(seq, left)
    BY <1>4 DEF ReceiveData
  <2>4. QED
    BY <1>3, <2>1, <2>2, <2>3 DEF Inv, NetworkInv
<1>9. rcvLeft <= rcvLeft' /\ acks' = acks /\ largestACK2' = largestACK2
  <2>1. CASE ReceiveInOrder(seq)
    <3>1. PICK last \in seq .. MaxSeq : rcvLeft' = last
      BY <2>1 DEF ReceiveInOrder
    <3>2. seq = rcvLeft + 1
      BY <1>1, <2>1 DEF ReceiveInOrder, ContinuousSeqNumber
    <3>3. MaxSeq \in Int /\ rcvLeft \in Int
      BY Ranges
    <3>4. rcvLeft <= last
      BY <3>1, <3>2, <3>3
    <3>5. QED
      BY <2>1, <3>1, <3>4 DEF ReceiveInOrder
  <2>2. CASE ReceiveOutOfOrder(seq)
    BY <2>2, Ranges DEF ReceiveOutOfOrder
  <2>3. QED
    BY <2>1, <2>2 DEF ReceiveData, HandleDataPacket
<1>10. AckInv'
  <2>1. Acknowledged \in Int /\ rcvLeft \in Int
    BY Ranges
  <2>2. Acknowledged <= rcvLeft'
    BY <2>1, <1>2, <1>9 DEF Inv, AckInv
  <2>3. QED
    BY <2>2, <1>3, <1>9 DEF Inv, AckInv
<1>11. QED
  BY <1>2, <1>3, <1>8, <1>9, <1>10 DEF Inv

\* An ACK that has not been sent by any ACK2 yet leaves the answered ones alone.
LEMMA SendAckPreservesInv ==
  ASSUME NoWrap, Inv, SendAck
  PROVE  Inv'
<1>1. RcvInv'
  BY AckTaskPreservesInv DEF Inv, SendAck
<1>2. SndInv' /\ LastSent' = LastSent /\ Acknowledged' = Acknowledged
  <2>1. /\ sndBuf' = sndBuf /\ sndFront' = sndFront /\ seqNumber' = seqNumber
        /\ sndLeft' = sndLeft /\ sndRight' = sndRight /\ sndPackets' = sndPackets
        /\ sndWindow' = sndWindow /\ sndLoss' = sndLoss /\ posted' = posted
    BY DEF SendAck, sndVars
  <2>2. SndInv'
    BY <2>1, Ranges, LossChangePreservesInv DEF Inv, SndInv, SndTypeOK
  <2>3. QED
    BY <2>1, <2>2 DEF LastSent, Acknowledged
<1>3. /\ dataNet' = dataNet /\ nakNet' = nakNet /\ ack2Net' = ack2Net
      /\ rcvLeft' = rcvLeft /\ lrsn' = lrsn /\ largestACK2' = largestACK2
  BY DEF SendAck, AckTask, netVars
<1>4. \A k \in DOMAIN acks : k \in DOMAIN acks' /\ acks'[k] = acks[k]
  <2>1. PICK seq \in SeqNumbers : acks' = Append(acks, seq)
    BY DEF SendAck, AckTask
  <2>2. acks \in Seq(SeqNumbers)
    BY DEF Inv, RcvInv, RcvTypeOK
  <2>3. QED
    BY <2>1, <2>2
<1>5. NetworkInv' /\ AckInv'
  BY <1>2, <1>3, <1>4 DEF Inv, NetworkInv, AckInv
<1>6. QED
  BY <1>1, <1>2, <1>5 DEF Inv

LEMMA ReceiveAck2PreservesInv ==
  ASSUME NoWrap, Inv, NEW k \in ack2Net, ReceiveAck2(k)
  PROVE  Inv'
<1>1. RcvInv'
  BY Ack2PreservesInv DEF Inv, ReceiveAck2
<1>2. SndInv' /\ LastSent' = LastSent /\ Acknowledged' = Acknowledged
  <2>1. /\ sndBuf' = sndBuf /\ sndFront' = sndFront /\ seqNumber' = seqNumber
        /\ sndLeft' = sndLeft /\ sndRight' = sndRight /\ sndPackets' = sndPackets
        /\ sndWindow' = sndWindow /\ sndLoss' = sndLoss /\ posted' = posted
    BY DEF ReceiveAck2, sndVars
  <2>2. SndInv'
    BY <2>1, Ranges, LossChangePreservesInv DEF Inv, SndInv, SndTypeOK
  <2>3. QED
    BY <2>1, <2>2 DEF LastSent, Acknowledged
<1>3. /\ dataNet' = dataNet /\ nakNet' = nakNet /\ ack2Net' = ack2Net
      /\ rcvLeft' = rcvLeft /\ lrsn' = lrsn /\ acks' = acks
      /\ largestACK2' = acks[k] \/ largestACK2' = largestACK2
  BY DEF ReceiveAck2, HandleAck2Packet, netVars
<1>4. NetworkInv' /\ AckInv'
  BY <1>2, <1>3 DEF Inv, NetworkInv, AckInv
<1>5. QED
  BY <1>1, <1>2, <1>4 DEF Inv

LEMMA OneBelow ==
  ASSUME NEW a \in Int, NEW b \in Int, a - 1 <= b
  PROVE  a <= b + 1
  OBVIOUS

LEMMA StillBelow ==
  ASSUME NEW a \in Int, NEW b \in Int, NEW c \in Int, a <= b + 1, b <= c
  PROVE  a <= c + 1
  OBVIOUS

\* The sender learns of an arrival only from an ACK, and answers the ACK only
\* when its window has moved as far as the ACK allows.
LEMMA ReceiveAckPreservesInv ==
  ASSUME NoWrap, Inv, NEW k \in DOMAIN acks, ReceiveAck(k)
  PROVE  /\ Inv'
         /\ \A s \in sndPackets \ sndPackets' : s \in delivered
<1> DEFINE n == acks[k]
<1>1. /\ n \in SeqNumbers /\ n \in Int /\ n <= rcvLeft + 1
      /\ HandleAckPacket(n) /\ SndNoWrap /\ SndInv
  BY Ranges DEF Inv, RcvInv, AcksInv, ReceiveAck
<1>2. /\ SndInv' /\ LastSent' = LastSent
      /\ sndRight' = sndRight
      /\ \/ sndLeft' = sndLeft /\ sndPackets' = sndPackets
         \/ sndLeft' = n - 1 /\ 0 <= sndLeft /\ sndLeft < n - 1
      /\ sndRight >= 0 => n - 1 <= sndLeft' \/ sndRight < n - 1 \/ n = 0
  BY <1>1, AckPreservesInv
<1> HIDE DEF n
<1>3. /\ rcvLeft' = rcvLeft /\ lrsn' = lrsn /\ largestACK2' = largestACK2
      /\ acks' = acks /\ delivered' = delivered /\ rcvPackets' = rcvPackets
      /\ rcvLoss' = rcvLoss
      /\ dataNet' = dataNet /\ nakNet' = nakNet /\ ack2Net' = ack2Net \cup {k}
  BY DEF ReceiveAck, rcvVars
<1>4. RcvInv'
  BY <1>3 DEF Inv, RcvInv, RcvTypeOK, EdgesInv, BufferShape, LossListIsTheGaps,
              DeliveredWithoutGap, AcksInv, Ack2NeverAhead
<1>5. /\ Acknowledged \in Int /\ rcvLeft \in Int /\ InitSeq \in Nat /\ sndLeft \in Int
      /\ sndRight \in Int /\ InitSeq <= rcvLeft /\ rcvLeft <= LastSent
      /\ LastSent \in Int /\ largestACK2 \in Int /\ Acknowledged <= rcvLeft
      /\ InitSeq <= Acknowledged
  <2>1. lrsn \in Int /\ rcvLeft <= lrsn /\ lrsn <= LastSent
    BY Ranges
  <2>2. QED
    BY <2>1, Ranges DEF Inv, AckInv
<1>6. /\ Acknowledged' \in Int /\ Acknowledged <= Acknowledged'
      /\ Acknowledged' <= rcvLeft /\ n <= Acknowledged' + 1
  <2>1. CASE sndRight < 0
    <3>1. LastSent = InitSeq /\ sndLeft < 0
      BY <2>1, <1>5 DEF LastSent, Inv, SndInv, SndEdges
    <3>2. sndLeft' = sndLeft
      BY <1>2, <3>1, <1>5
    <3>3. QED
      BY <3>1, <3>2, <1>1, <1>5 DEF Acknowledged
  <2>2. CASE sndRight >= 0
    <3>1. LastSent = sndRight /\ sndLeft >= 0 /\ Acknowledged = sndLeft
      BY <2>2, <1>5 DEF LastSent, Acknowledged, Inv, SndInv, SndEdges
    <3>2. /\ sndLeft' \in Int /\ sndLeft <= sndLeft' /\ sndLeft' <= rcvLeft
      BY <3>1, <1>1, <1>2, <1>5
    <3>3. Acknowledged' = sndLeft'
      BY <3>1, <3>2, <1>5 DEF Acknowledged
    <3>4. n - 1 <= sndLeft' \/ n = 0
      BY <2>2, <3>1, <1>1, <1>2, <1>5
    <3>5. n <= sndLeft' + 1
      <4>1. n - 1 <= sndLeft' => n <= sndLeft' + 1
        BY <3>2, <1>1, OneBelow
      <4>2. n = 0 => n <= sndLeft' + 1
        <5>1. 0 <= sndLeft' /\ 0 \in Int
          BY <3>1, <3>2, <1>5
        <5>2. 0 <= 0 + 1
          OBVIOUS
        <5>3. 0 <= sndLeft' + 1
          BY <5>1, <5>2, <3>2, StillBelow
        <5>4. QED
          BY <5>3
      <4>3. QED
        BY <3>4, <4>1, <4>2
    <3>6. QED
      BY <3>1, <3>2, <3>3, <3>5
  <2>3. QED
    BY <2>1, <2>2, <1>5
<1>7. NetworkInv'
  BY <1>2, <1>3 DEF Inv, NetworkInv
<1>8. AckInv'
  <2>1. \A j \in ack2Net : acks[j] <= Acknowledged' + 1
    <3>1. SUFFICES ASSUME NEW j \in ack2Net PROVE acks[j] <= Acknowledged' + 1
      OBVIOUS
    <3>2. acks[j] \in Int /\ acks[j] <= Acknowledged + 1
      BY Ranges DEF Inv, AckInv
    <3>3. QED
      BY <3>2, <1>5, <1>6
  <2>2. largestACK2 <= Acknowledged' + 1
    <3>1. largestACK2 <= Acknowledged + 1
      BY DEF Inv, AckInv
    <3>2. QED
      BY <3>1, <1>5, <1>6, StillBelow
  <2>3. QED
    BY <2>1, <2>2, <1>3, <1>6 DEF Inv, AckInv, n
<1>9. ASSUME NEW s \in sndPackets \ sndPackets'
      PROVE  s \in delivered
  <2>1. sndLeft' = n - 1 /\ 0 <= sndLeft /\ sndLeft < n - 1
    BY <1>2, <1>9
  <2>2. /\ sndRight >= 0 /\ InitSeq <= sndLeft
        /\ sndPackets = (sndLeft + 1) .. sndRight
    BY <2>1, <1>5 DEF Inv, SndInv, SndEdges, UnackedAreKept
  <2>3. sndPackets' = n .. sndRight
    BY <2>1, <2>2, <1>1, <1>2, <1>5 DEF SndInv, UnackedAreKept
  <2>4. s \in (sndLeft + 1) .. (n - 1)
    BY <2>1, <2>2, <2>3, <1>1, <1>5, <1>9
  <2>5. s \in (InitSeq + 1) .. rcvLeft
    BY <2>2, <2>4, <1>1, <1>5
  <2>6. QED
    BY <2>5 DEF Inv, RcvInv, DeliveredWithoutGap
<1>10. QED
  BY <1>2, <1>4, <1>7, <1>8, <1>9 DEF Inv

LEMMA InvIsInductive ==
  ASSUME NoWrap, Inv, [Next]_vars
  PROVE  Inv'
<1>1. CASE Post
  <2>1. SndInv' /\ sndRight' = sndRight /\ sndLeft' = sndLeft
    BY <1>1, Ranges, PostPreservesInv DEF Inv, Post, PostData
  <2>2. QED
    BY <1>1, <2>1, QuietSenderStep DEF Post, netVars, Inv, NetworkInv
<1>2. CASE Transmit
  BY <1>2, TransmitPreservesInv
<1>3. CASE Refuse
  <2>1. SndInv' /\ sndRight' = sndRight /\ sndLeft' = sndLeft
    BY <1>3, Ranges, RefusedPreservesInv DEF Inv, Refuse, SendRefused
  <2>2. QED
    BY <1>3, <2>1, QuietSenderStep DEF Refuse, netVars, Inv, NetworkInv
<1>4. ASSUME NEW seq \in sndLoss, Retransmit(seq)
      PROVE  Inv'
  BY <1>4, RetransmitPreservesInv
<1>5. ASSUME NEW seq \in dataNet, ReceiveData(seq)
      PROVE  Inv'
  BY <1>5, ReceiveDataPreservesInv
<1>6. CASE SendAck
  BY <1>6, SendAckPreservesInv
<1>7. CASE SendNak
  <2>1. PICK lost \in SUBSET rcvLoss : nakNet' = nakNet \cup lost
    BY <1>7 DEF SendNak
  <2>2. rcvLoss \subseteq (InitSeq + 1) .. LastSent
    BY Ranges DEF Inv, RcvInv, LossListIsTheGaps
  <2>3. /\ sndBuf' = sndBuf /\ sndFront' = sndFront /\ seqNumber' = seqNumber
        /\ sndLeft' = sndLeft /\ sndRight' = sndRight /\ sndPackets' = sndPackets
        /\ sndWindow' = sndWindow /\ sndLoss' = sndLoss /\ posted' = posted
    BY <1>7 DEF SendNak, sndVars
  <2>4. SndInv'
    BY <2>3, Ranges, LossChangePreservesInv DEF Inv, SndInv, SndTypeOK
  <2>5. LastSent' = LastSent /\ Acknowledged' = Acknowledged
    BY <2>3 DEF LastSent, Acknowledged
  <2>6. /\ rcvLeft' = rcvLeft /\ rcvPackets' = rcvPackets /\ rcvLoss' = rcvLoss
        /\ lrsn' = lrsn /\ largestACK2' = largestACK2 /\ acks' = acks
        /\ delivered' = delivered /\ dataNet' = dataNet /\ ack2Net' = ack2Net
    BY <1>7 DEF SendNak, rcvVars
  <2>7. RcvInv'
    BY <2>6 DEF Inv, RcvInv, RcvTypeOK, EdgesInv, BufferShape, LossListIsTheGaps,
                DeliveredWithoutGap, AcksInv, Ack2NeverAhead
  <2>8. NetworkInv' /\ AckInv'
    BY <2>1, <2>2, <2>5, <2>6 DEF Inv, NetworkInv, AckInv
  <2>9. QED
    BY <2>4, <2>7, <2>8 DEF Inv
<1>8. ASSUME NEW k \in ack2Net, ReceiveAck2(k)
      PROVE  Inv'
  BY <1>8, ReceiveAck2PreservesInv
<1>9. ASSUME NEW k \in DOMAIN acks, ReceiveAck(k)
      PROVE  Inv'
  BY <1>9, ReceiveAckPreservesInv
<1>10. CASE ReceiveNak
  <2>1. PICK lost \in SUBSET nakNet : HandleNakPacket(lost)
    BY <1>10 DEF ReceiveNak
  <2>2. lost \subseteq (InitSeq + 1) .. LastSent
    BY DEF Inv, NetworkInv
  <2>3. SndInv' /\ sndRight' = sndRight /\ sndLeft' = sndLeft
    BY <2>1, <2>2, Ranges, NakPreservesInv DEF Inv, HandleNakPacket
  <2>4. QED
    BY <1>10, <2>3, QuietSenderStep DEF ReceiveNak, netVars, Inv, NetworkInv
<1>11. CASE Expire
  <2>1. SndInv' /\ sndRight' = sndRight /\ sndLeft' = sndLeft
    BY <1>11, Ranges, ExpPreservesInv DEF Inv, Expire, ExpTask
  <2>2. QED
    BY <1>11, <2>1, QuietSenderStep DEF Expire, netVars, Inv, NetworkInv
<1>12. CASE UNCHANGED vars
  <2>1. UNCHANGED sndVars /\ UNCHANGED rcvVars /\ UNCHANGED netVars
    BY <1>12 DEF vars
  <2>2. SndInv' /\ sndRight' = sndRight /\ sndLeft' = sndLeft
    BY <2>1, Ranges, SndInvIsInductive DEF Inv, sndVars
  <2>3. QED
    BY <2>1, <2>2, QuietSenderStep DEF netVars, Inv, NetworkInv
<1>13. QED
  BY <1>1, <1>2, <1>3, <1>4, <1>5, <1>6, <1>7, <1>8, <1>9, <1>10, <1>11, <1>12 DEF Next

THEOREM TransferInvariant == ASSUME NoWrap PROVE Spec => []Inv
<1>1. Init => Inv
  BY InitEstablishesNetInv
<1>2. Inv /\ [Next]_vars => Inv'
  BY InvIsInductive
<1>3. QED
  BY <1>1, <1>2, PTL DEF Spec
-----------------------------------------------------------------------------
\* The state of both ends and the network keeps its types.
THEOREM TransferTypes == ASSUME NoWrap PROVE Spec => []TypeOK
<1>1. Inv => TypeOK
  <2>1. SUFFICES ASSUME Inv PROVE dataNet \subseteq SeqNumbers /\ nakNet \subseteq SeqNumbers
    BY DEF TypeOK, Inv, SndInv, RcvInv, AckInv
  <2>2. /\ InitSeq \in Nat /\ MaxSeq \in Nat /\ LastSent \in Int
        /\ LastSent < MaxSeq
    BY <2>1, Ranges DEF SndNoWrap
  <2>3. (InitSeq + 1) .. LastSent \subseteq SeqNumbers
    BY <2>2 DEF SeqNumbers
  <2>4. QED
    BY <2>1, <2>3 DEF Inv, NetworkInv
<1>2. QED
  BY <1>1, TransferInvariant, PTL

\* handleAckPacket: what the sender takes for arrived was handed to the
\* application, over any network.
THEOREM AckedIsDelivered == ASSUME NoWrap PROVE Spec => []AckedWasDelivered
<1>1. Inv => AckedWasDelivered
  BY DEF Inv, AckInv, AckedWasDelivered
<1>2. QED
  BY <1>1, TransferInvariant, PTL

\* ackPacket, getPacket: the send window holds every packet the receiver lacks.
THEOREM MissingStaysInWindow == ASSUME NoWrap PROVE Spec => []MissingCanBeResent
<1>1. Inv => MissingCanBeResent
  <2>1. SUFFICES ASSUME Inv, sndRight >= 0
                 PROVE  (rcvLeft + 1) .. sndRight \subseteq sndPackets
    BY DEF MissingCanBeResent
  <2>2. sndLeft \in Int /\ sndRight \in Int /\ rcvLeft \in Int /\ InitSeq \in Nat
    BY <2>1, Ranges
  <2>3. sndLeft <= rcvLeft
    BY <2>1, <2>2 DEF Inv, AckInv, Acknowledged, SndInv, SndEdges
  <2>4. sndPackets = (sndLeft + 1) .. sndRight
    BY <2>1 DEF Inv, SndInv, UnackedAreKept
  <2>5. QED
    BY <2>2, <2>3, <2>4
<1>2. QED
  BY <1>1, TransferInvariant, PTL

\* handleAck2Packet: an ACK2 silences the receiver about a number only when the
\* sender knows that everything before it arrived.
THEOREM SilenceIsSafe == ASSUME NoWrap PROVE Spec => []SilentOnlyIfSenderKnows
<1>1. Inv => SilentOnlyIfSenderKnows
  BY DEF Inv, AckInv, SilentOnlyIfSenderKnows
<1>2. QED
  BY <1>1, TransferInvariant, PTL

\* addLossPacket: only packets that were sent are ever counted or reported lost.
THEOREM LostWasSent == ASSUME NoWrap PROVE Spec => []OnlySentIsLost
<1>1. Inv => OnlySentIsLost
  <2>1. SUFFICES ASSUME Inv, NEW seq \in rcvLoss \cup nakNet
                 PROVE  seq \in (InitSeq + 1) .. sndRight
    BY DEF OnlySentIsLost
  <2>2. /\ InitSeq \in Nat /\ rcvLeft \in Int /\ lrsn \in Int /\ LastSent \in Int
        /\ InitSeq <= rcvLeft /\ lrsn <= LastSent /\ sndRight \in Int
    BY <2>1, Ranges
  <2>3. seq \in (InitSeq + 1) .. LastSent
    <3>1. CASE seq \in nakNet
      BY <2>1, <3>1 DEF Inv, NetworkInv
    <3>2. CASE seq \in rcvLoss
      BY <2>1, <2>2, <3>2 DEF Inv, RcvInv, LossListIsTheGaps
    <3>3. QED
      BY <3>1, <3>2
  <2>4. LastSent # InitSeq
    BY <2>2, <2>3
  <2>5. LastSent = sndRight
    BY <2>2, <2>4 DEF LastSent
  <2>6. QED
    BY <2>3, <2>5
<1>2. QED
  BY <1>1, TransferInvariant, PTL

\* What each end promises against an arbitrary peer still holds when the two ends
\* and the network are composed: the send window and the loss list are exact, and
\* every ACK carries the number the receiver waits for.
THEOREM EndsStayExact ==
  ASSUME NoWrap
  PROVE  Spec => [](/\ UnackedAreKept /\ FlightIsBounded /\ NumbersFollowPosts
                    /\ LossListIsTheGaps /\ AckNumberIsNextExpected)
<1>1. Inv => /\ UnackedAreKept /\ FlightIsBounded /\ NumbersFollowPosts
             /\ LossListIsTheGaps /\ AckNumberIsNextExpected
  <2>1. Inv => UnackedAreKept /\ FlightIsBounded /\ NumbersFollowPosts /\ LossListIsTheGaps
    BY DEF Inv, SndInv, RcvInv
  <2>2. Inv => AckNumberIsNextExpected
    BY AckNumber DEF Inv, AckNumberIsNextExpected
  <2>3. QED
    BY <2>1, <2>2
<1>2. QED
  BY <1>1, TransferInvariant, PTL
-----------------------------------------------------------------------------
\* The numbers handed over, counted from the start of the stream.
Handed == { seq - InitSeq : seq \in delivered }

LEMMA Shifted ==
  ASSUME NEW a \in Int, NEW b \in Int
  PROVE  { s - a : s \in (a + 1) .. b } = 1 .. (b - a)
<1>1. \A n \in 1 .. (b - a) : n + a \in (a + 1) .. b /\ n = (n + a) - a
  OBVIOUS
<1>2. \A s \in (a + 1) .. b : s - a \in 1 .. (b - a)
  OBVIOUS
<1>3. QED
  BY <1>1, <1>2

\* A left edge at most the last number sent leaves no more than was posted.
LEMMA PostedCovers ==
  ASSUME NEW a \in Int, NEW left \in Int, NEW largest \in Int, NEW last \in Int,
         NEW queued \in Nat, left <= largest, largest <= last
  PROVE  left - a <= last - a + queued
  OBVIOUS

LEMMA LongerPrefix ==
  ASSUME NEW a \in Int, NEW m \in Int, NEW n \in Int, NEW p \in Int,
         a <= m, m <= n, m # n, n - a <= p
  PROVE  n - a \in 1 .. p /\ 1 .. (m - a) \subseteq 1 .. (n - a)
  OBVIOUS

LEMMA HandedIsAPrefix ==
  ASSUME NoWrap, Inv
  PROVE  Handed = 1 .. (rcvLeft - InitSeq)
<1>1. InitSeq \in Int /\ rcvLeft \in Int /\ delivered = (InitSeq + 1) .. rcvLeft
  BY Ranges DEF Inv, RcvInv, DeliveredWithoutGap
<1>2. QED
  BY <1>1, Shifted DEF Handed

\* A step of the connection is a step of the stream or leaves it unchanged.
LEMMA StepImplementsStream ==
  ASSUME NoWrap, Inv, Inv', [Next]_vars
  PROVE  [Stream!Next]_<<posted, Handed>>
<1>1. CASE Post
  <2>1. posted \in Nat /\ posted' \in Nat
    BY DEF Inv, SndInv, SndTypeOK
  <2>2. posted' >= posted
    BY <1>1, <2>1, SenderAssumption DEF Post, PostData
  <2>3. Handed' = Handed
    BY <1>1 DEF Post, rcvVars, Handed
  <2>4. QED
    BY <2>1, <2>2, <2>3 DEF Stream!Next, Stream!Accept, Handed
<1>2. ASSUME NEW seq \in dataNet, ReceiveData(seq)
      PROVE  [Stream!Next]_<<posted, Handed>>
  <2>1. rcvLeft <= rcvLeft' /\ posted' = posted /\ sndRight' = sndRight /\ sndBuf' = sndBuf
    BY <1>2, ReceiveDataPreservesInv DEF ReceiveData, sndVars
  <2>2. Handed = 1 .. (rcvLeft - InitSeq) /\ Handed' = 1 .. (rcvLeft' - InitSeq)
    <3>1. Handed = 1 .. (rcvLeft - InitSeq)
      BY HandedIsAPrefix
    <3>2. /\ InitSeq \in Int /\ rcvLeft' \in Int
          /\ delivered' = (InitSeq + 1) .. rcvLeft'
      BY Ranges DEF Inv, RcvInv, DeliveredWithoutGap, RcvTypeOK, SeqNumbers
    <3>3. Handed' = { s - InitSeq : s \in (InitSeq + 1) .. rcvLeft' }
      BY <3>2 DEF Handed
    <3>4. Handed' = 1 .. (rcvLeft' - InitSeq)
      BY <3>2, <3>3, Shifted
    <3>5. QED
      BY <3>1, <3>4
  <2>3. /\ InitSeq \in Int /\ rcvLeft \in Int /\ rcvLeft' \in Int /\ InitSeq <= rcvLeft
        /\ rcvLeft' - InitSeq <= posted
    <3>1. LastSent' = LastSent
      BY <2>1 DEF LastSent
    <3>2. /\ rcvLeft' \in Int /\ lrsn' \in Int /\ rcvLeft' <= lrsn' /\ lrsn' <= LastSent
      BY <3>1, Ranges DEF Inv, RcvInv, RcvTypeOK, EdgesInv, NetworkInv, SeqNumbers
    <3>3. posted = LastSent - InitSeq + sndBuf /\ sndBuf \in Nat
      BY DEF Inv, SndInv, NumbersFollowPosts, SndTypeOK
    <3>4. InitSeq \in Int /\ LastSent \in Int /\ rcvLeft \in Int /\ InitSeq <= rcvLeft
      BY Ranges
    <3>5. QED
      BY <3>2, <3>3, <3>4, PostedCovers
  <2>4. CASE rcvLeft' = rcvLeft
    BY <2>1, <2>2, <2>4
  <2>5. CASE rcvLeft' # rcvLeft
    <3>1. posted \in Int
      BY DEF Inv, SndInv, SndTypeOK
    <3>2. rcvLeft' - InitSeq \in 1 .. posted
      BY <2>1, <2>3, <2>5, <3>1, LongerPrefix
    <3>3. Handed \subseteq Handed'
      BY <2>1, <2>2, <2>3, <2>5, <3>1, LongerPrefix
    <3>4. QED
      BY <2>1, <2>2, <3>2, <3>3 DEF Stream!Next, Stream!Hand, Handed
  <2>6. QED
    BY <2>4, <2>5
<1>3. CASE Transmit \/ Refuse \/ (\E seq \in sndLoss : Retransmit(seq)) \/ ReceiveNak \/ Expire
           \/ (\E k \in DOMAIN acks : ReceiveAck(k))
  <2>1. posted' = posted /\ delivered' = delivered
    BY <1>3 DEF Transmit, SendNew, Refuse, SendRefused, Retransmit, TakeLoss, ReceiveNak,
                HandleNakPacket, Expire, ExpTask, ReceiveAck, HandleAckPacket, rcvVars
  <2>2. QED
    BY <2>1 DEF Handed
<1>4. CASE SendAck \/ SendNak \/ (\E k \in ack2Net : ReceiveAck2(k))
  <2>1. posted' = posted /\ delivered' = delivered
    BY <1>4 DEF SendAck, AckTask, SendNak, ReceiveAck2, HandleAck2Packet, sndVars, rcvVars
  <2>2. QED
    BY <2>1 DEF Handed
<1>5. CASE UNCHANGED vars
  BY <1>5 DEF vars, sndVars, rcvVars, Handed
<1>6. QED
  BY <1>1, <1>2, <1>3, <1>4, <1>5 DEF Next

\* The connection implements the reliable stream of ReliableStream: over any
\* network the application is handed a prefix of what was posted, and only more.
THEOREM ConnectionIsAStream == ASSUME NoWrap PROVE Spec => ImplementsStream
<1>1. Init => Stream!Init
  BY DEF Init, SndInit, RcvInit, Stream!Init
<1>2. Inv /\ Inv' /\ [Next]_vars => [Stream!Next]_<<posted, Handed>>
  BY StepImplementsStream
<1>3. QED
  BY <1>1, <1>2, TransferInvariant, PTL DEF Spec, ImplementsStream, Stream!Spec, Handed
-----------------------------------------------------------------------------
(***************************************************************************)
(* The two waits of the send thread (UdtSendLoop), for every number of     *)
(* packets, every window and any losses.  The wait for data is safe        *)
(* because postData changes what it tests under its mutex.  The wait for   *)
(* an ACK is safe although the loss list changes under another one: who    *)
(* changes it has to take the mutex of the wait before it notifies.        *)
(***************************************************************************)

\* The send thread has tested the condition of the wait for data.
DataWait == pc \in {"dozing", "asleep"} => sndBuf = 0

\* It has tested the one of the wait for an ACK.
AckWaits ==
  pc \in {"ackDozing", "ackAsleep"} =>
    waitAck /\ (sndLoss # {} => rpc \in {"nakWake", "expWake"})

LEMMA DataWaitHolds == DataWait /\ [LoopNext]_allVars => DataWait'
<1> SUFFICES ASSUME DataWait, [LoopNext]_allVars PROVE DataWait'
  OBVIOUS
<1>1. CASE PostAndNotify
  BY <1>1 DEF PostAndNotify, DataWait, HoldsSndBufMutex, Notified
<1>2. CASE \E seq \in sndLoss : ResendLost(seq)
  BY <1>2 DEF ResendLost, DataWait
<1>3. CASE Doze
  BY <1>3 DEF Doze, DataWait, NothingToDo, sndVars
<1>4. CASE Sleep
  BY <1>4 DEF Sleep, DataWait, sndVars
<1>5. CASE SendData
  BY <1>5 DEF SendData, DataWait
<1>6. CASE WindowFull
  BY <1>6 DEF WindowFull, DataWait
<1>7. CASE NothingLost \/ NoData \/ AckWait \/ Pace \/ SendThreadStops
  BY <1>7 DEF NothingLost, NoData, AckWait, Pace, SendThreadStops, DataWait
<1>8. CASE TakeAck \/ TakeNak \/ ExpGoesOff
  BY <1>8 DEF TakeAck, TakeNak, ExpGoesOff, HandleNakPacket, ExpTask, DataWait
<1>9. CASE WakeSender \/ ExpWake \/ Shutdown
  BY <1>9 DEF WakeSender, ExpWake, Shutdown, Wake, Notified, DataWait, sndVars
<1>10. CASE SetWindowSize \/ RemoveAcked \/ ReceiveThreadStops
  BY <1>10 DEF SetWindowSize, RemoveAcked, ReceiveThreadStops, DataWait, sndVars
<1>11. CASE UNCHANGED allVars
  BY <1>11 DEF allVars, sndVars, loopVars, DataWait
<1>12. QED
  BY <1>1, <1>2, <1>3, <1>4, <1>5, <1>6, <1>7, <1>8, <1>9, <1>10, <1>11
     DEF LoopNext, SendThread, Handler

LEMMA AckWaitsHold == AckWaits /\ [LoopNext]_allVars => AckWaits'
<1> SUFFICES ASSUME AckWaits, [LoopNext]_allVars PROVE AckWaits'
  OBVIOUS
<1>1. CASE PostAndNotify
  BY <1>1 DEF PostAndNotify, PostData, AckWaits, Notified
<1>2. CASE \E seq \in sndLoss : ResendLost(seq)
  BY <1>2 DEF ResendLost, AckWaits
<1>3. CASE Sleep
  BY <1>3 DEF Sleep, AckWaits, sndVars
<1>4. CASE AckWait
  BY <1>4 DEF AckWait, AckWaits, sndVars
<1>5. CASE SendData
  BY <1>5 DEF SendData, AckWaits
<1>6. CASE WindowFull
  BY <1>6 DEF WindowFull, AckWaits
<1>7. CASE NothingLost \/ Doze \/ NoData \/ Pace \/ SendThreadStops
  BY <1>7 DEF NothingLost, Doze, NoData, Pace, SendThreadStops, AckWaits
<1>8. CASE TakeAck
  BY <1>8 DEF TakeAck, AckWaits
<1>9. CASE TakeNak \/ ExpGoesOff
  BY <1>9 DEF TakeNak, ExpGoesOff, AckWaits
<1>10. CASE WakeSender
  BY <1>10 DEF WakeSender, HoldsSendWindowMutex, Wake, Notified, AckWaits
<1>11. CASE ExpWake
  BY <1>11 DEF ExpWake, HoldsSendWindowMutex, Wake, Notified, AckWaits
<1>12. CASE SetWindowSize
  BY <1>12 DEF SetWindowSize, AckWaits
<1>13. CASE RemoveAcked
  \* With a loss in the list another handler would be on its way.
  <2>1. sndLoss' \subseteq sndLoss
    BY <1>13 DEF RemoveAcked, LossAfter
  <2>2. QED
    BY <1>13, <2>1 DEF RemoveAcked, AckWaits
<1>14. CASE ReceiveThreadStops
  BY <1>14 DEF ReceiveThreadStops, AckWaits, sndVars
<1>15. CASE Shutdown
  BY <1>15 DEF Shutdown, Notified, AckWaits, sndVars
<1>16. CASE UNCHANGED allVars
  BY <1>16 DEF allVars, sndVars, loopVars, AckWaits
<1>17. QED
  BY <1>1, <1>2, <1>3, <1>4, <1>5, <1>6, <1>7, <1>8, <1>9, <1>10, <1>11, <1>12, <1>13,
     <1>14, <1>15, <1>16
     DEF LoopNext, SendThread, Handler
-----------------------------------------------------------------------------
\* postData and the wait for data: with data to send the thread sleeps only for an
\* ACK.
THEOREM DataIsSeen == LoopSpec => []DataIsNotSleptOver
<1>1. LoopInit => DataWait
  BY DEF LoopInit, DataWait
<1>2. DataWait => DataIsNotSleptOver
  BY DEF DataWait, DataIsNotSleptOver
<1>3. QED
  BY <1>1, <1>2, DataWaitHolds, PTL DEF LoopSpec

\* handleNakPacket, expTask and the wait for an ACK: a loss reported meanwhile has
\* somebody on the way to wake the send thread.
THEOREM LossesInterrupt == LoopSpec => []AckWaitIsInterrupted
<1>1. LoopInit => AckWaits
  BY DEF LoopInit, AckWaits
<1>2. AckWaits => AckWaitIsInterrupted
  BY DEF AckWaits, AckWaitIsInterrupted
<1>3. QED
  BY <1>1, <1>2, AckWaitsHold, PTL DEF LoopSpec
=============================================================================
