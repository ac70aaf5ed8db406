----------------------------- MODULE UdtReceiver ----------------------------
(***************************************************************************)
(* The receiving half of a connected UDTSocket: the receive window         *)
(* (ReceiveGlideWindow.cpp), the list of lost packets                      *)
(* (ReceiveLossList.cpp), the acknowledgements it sends and the history in *)
(* which an ACK2 finds them again (AckHistoryWindow.cpp).  All of it runs  *)
(* on the socket's receive thread, so each handler is one action.          *)
(*                                                                         *)
(* A packet is its sequence number.  The buffered packets and the lost     *)
(* numbers are sets here: the code keeps them in lists that are sorted as  *)
(* long as the window does not cross MaxSeq (NoWrap).  UdtReceiverList     *)
(* keeps the lists themselves and implements this module.                  *)
(***************************************************************************)
EXTENDS UdtSeq, Sequences

CONSTANTS
  WindowSize,   \* receive window: how far beyond rcvLeft a packet is kept
  AckHistory,   \* AckHistoryWindow::_maxSize, 16 in the program
  MaxAcks       \* bound: acknowledgements sent in a behaviour

ASSUME ReceiverAssumption ==
  /\ WindowSize \in Nat \ {0}
  /\ WindowSize < MaxSeq
  /\ AckHistory \in Nat \ {0}
  /\ MaxAcks \in Nat

\* The numbers of the connection, and the window beyond them, stay below MaxSeq.
NoWrap == InitSeq + Packets + WindowSize <= MaxSeq

VARIABLES
  rcvLeft,      \* ReceiveGlideWindow::_left, last number handed to the application
  rcvPackets,   \* ReceiveGlideWindow::_packetList, accepted out of order
  rcvLoss,      \* ReceiveLossList::_lossList
  lrsn,         \* UDTSocket::_lrsn, largest number received
  largestACK2,  \* UDTSocket::_largestACK2SeqNumber
  acks,         \* acks[k]: the number carried by the k-th ACK sent
  delivered     \* numbers handed to the application's callback

rcvVars == <<rcvLeft, rcvPackets, rcvLoss, lrsn, largestACK2, acks, delivered>>

RightOf(left) == IncreaseSeqNumberBy(left, WindowSize)
-----------------------------------------------------------------------------
(***************************************************************************)
(* Receiving a data packet.                                                *)
(***************************************************************************)

\* Mutant: the drain does not stop at a gap.
GlidesOverGaps(seq, last) == last \in {seq} \cup rcvPackets

\* After seq is delivered, buffered packets follow as long as they continue it.
GlidesTo(seq, last) ==
  /\ (seq + 1) .. last \subseteq rcvPackets
  /\ \A p \in rcvPackets : ~ContinuousSeqNumber(last, p)

\* In the code both the normal and the wrapped case test this same condition.
InWindow(seq) == rcvLeft < seq /\ seq <= RightOf(rcvLeft)

\* Is seq after the expected number?  Numbers beyond `left' lie before 0 once
\* the window has wrapped.
Ahead(seq, expected, left) ==
  LET Unwrapped(s) == IF s > left THEN s - MaxSeq - 1 ELSE s
  IN  IF left < RightOf(left)
      THEN seq > expected
      ELSE Unwrapped(seq) > Unwrapped(expected)

\* The numbers reported lost, in one NAK, when seq arrives.
NewlyLost(seq, left) ==
  LET expected == IncreaseSeqNumber(lrsn)
  IN  IF seq # expected /\ Ahead(seq, expected, left)
      THEN SeqRange(expected, seq) ELSE {}

\* Mutant: a packet that fills a gap is not taken off the loss list.
UpdateLossKeepsFilledGap(seq, left) ==
  LET expected == IncreaseSeqNumber(lrsn)
  IN  /\ rcvLoss' = rcvLoss \cup NewlyLost(seq, left)
      /\ lrsn' = IF seq = expected \/ Ahead(seq, expected, left) THEN seq ELSE lrsn

\* The window already stands at `left' when the loss list is brought up to date.
UpdateLoss(seq, left) ==
  LET expected == IncreaseSeqNumber(lrsn)
  IN  IF seq = expected \/ Ahead(seq, expected, left)
      THEN /\ rcvLoss' = rcvLoss \cup NewlyLost(seq, left)
           /\ lrsn' = seq
      ELSE /\ rcvLoss' = IF seq = lrsn THEN rcvLoss ELSE rcvLoss \ {seq}
           /\ lrsn' = lrsn

\* The packet that continues the window: it and the run behind it are delivered.
ReceiveInOrder(seq) ==
  /\ ContinuousSeqNumber(rcvLeft, seq)
  /\ \E last \in seq .. MaxSeq :
       /\ GlidesTo(seq, last)
       /\ rcvLeft' = last
       /\ rcvPackets' = rcvPackets \ (seq .. last)
       /\ delivered' = delivered \cup {seq} \cup (rcvPackets \cap (seq .. last))
       /\ UpdateLoss(seq, last)
  /\ UNCHANGED <<largestACK2, acks>>

\* A packet inside the window is kept; one that is there already changes nothing.
ReceiveOutOfOrder(seq) ==
  /\ ~ContinuousSeqNumber(rcvLeft, seq)
  /\ InWindow(seq)
  /\ rcvPackets' = rcvPackets \cup {seq}
  /\ UpdateLoss(seq, rcvLeft)
  /\ UNCHANGED <<rcvLeft, largestACK2, acks, delivered>>

\* Any other packet is dropped and leaves the socket as it was.
HandleDataPacket(seq) == ReceiveInOrder(seq) \/ ReceiveOutOfOrder(seq)
-----------------------------------------------------------------------------
(***************************************************************************)
(* Acknowledging.                                                          *)
(***************************************************************************)

\* Mutant: the ACK carries lrsn + 1 although packets before it are missing.
IsAckNumberWithoutLossList(seq) == seq = IncreaseSeqNumber(lrsn)

\* The number an ACK carries: the first lost packet, or the one after lrsn.
IsAckNumber(seq) ==
  \/ rcvLoss = {} /\ seq = IncreaseSeqNumber(lrsn)
  \/ seq \in rcvLoss /\ \A t \in rcvLoss : seq <= t

\* The same number is sent again only 2 RTT after the last time: that time may
\* have passed or not, so the repetition is allowed and never due.
AckTask ==
  /\ Len(acks) < MaxAcks
  /\ \E seq \in SeqNumbers :
       /\ IsAckNumber(seq)
       /\ seq # largestACK2
       /\ acks' = Append(acks, seq)
  /\ UNCHANGED <<rcvLeft, rcvPackets, rcvLoss, lrsn, largestACK2, delivered>>

InAckHistory(k) == k \in DOMAIN acks /\ k > Len(acks) - AckHistory

\* A later number, allowing for the numbering having started again.
Later(seq, old) ==
  \/ seq - old > 0 /\ seq - old < MaxSeq \div 2
  \/ seq - old < 0 /\ seq - old < -((MaxSeq + 1) \div 2)

\* An ACK2 for the k-th ACK; a number no longer in the history is ignored.
HandleAck2Packet(k) ==
  /\ InAckHistory(k)
  /\ largestACK2' = IF Later(acks[k], largestACK2) THEN acks[k] ELSE largestACK2
  /\ UNCHANGED <<rcvLeft, rcvPackets, rcvLoss, lrsn, acks, delivered>>
-----------------------------------------------------------------------------
\* initSocket: the handshake has just set the peer's initial number.
RcvInit ==
  /\ rcvLeft = InitSeq
  /\ rcvPackets = {}
  /\ rcvLoss = {}
  /\ lrsn = InitSeq
  /\ largestACK2 = InitSeq
  /\ acks = <<>>
  /\ delivered = {}

\* Alone, the receiver faces any order, repetition and loss of its peer's packets.
RcvNext ==
  \/ \E seq \in PeerSeqs : HandleDataPacket(seq)
  \/ AckTask
  \/ \E k \in 1 .. MaxAcks : HandleAck2Packet(k)

RcvSpec == RcvInit /\ [][RcvNext]_rcvVars
-----------------------------------------------------------------------------
(***************************************************************************)
(* Properties.                                                             *)
(***************************************************************************)

RcvTypeOK ==
  /\ rcvLeft \in SeqNumbers
  /\ rcvPackets \subseteq SeqNumbers
  /\ rcvLoss \subseteq SeqNumbers
  /\ lrsn \in SeqNumbers
  /\ largestACK2 \in SeqNumbers
  /\ acks \in Seq(SeqNumbers)
  /\ delivered \subseteq SeqNumbers

\* Whatever order packets arrive in, the application has been handed exactly
\* the numbers up to the left edge of the window: nothing is skipped.
DeliveredWithoutGap == delivered = (InitSeq + 1) .. rcvLeft

\* The loss list is exactly the gaps: every number up to the largest received
\* that was neither delivered nor buffered, and no other (ReceiveLossList and
\* ReceiveGlideWindow are updated separately and must keep agreeing).
LossListIsTheGaps == rcvLoss = ((rcvLeft + 1) .. lrsn) \ rcvPackets

\* The number of the next ACK is the first one the application still lacks,
\* although it is computed from lrsn and the loss list, not from the window.
AckNumberIsNextExpected == \A seq \in SeqNumbers : IsAckNumber(seq) => seq = rcvLeft + 1

\* No ACK ever sent covers a packet the application has not been handed: the
\* sender forgets everything below the number an ACK carries.
AckCoversOnlyDelivered ==
  \A k \in DOMAIN acks : (InitSeq + 1) .. (acks[k] - 1) \subseteq delivered

\* An ACK2 stops the acknowledging of a number for good only if that number is
\* still the one the receiver waits for or an older one.
Ack2NeverAhead == largestACK2 <= rcvLeft + 1

=============================================================================
