--------------------------- MODULE UdtReceiverList --------------------------
(***************************************************************************)
(* The receiving half of a UDTSocket with the lists the code keeps: the    *)
(* buffered packets and the lost numbers are sequences, scanned from the   *)
(* front, and packets reach the application one callback at a time.  It    *)
(* implements UdtReceiver while the numbers stay below MaxSeq; near MaxSeq *)
(* it shows what the code does when its window starts again at 0.          *)
(***************************************************************************)
EXTENDS UdtLists

CONSTANTS WindowSize, AckHistory, MaxAcks

\* What UdtReceiver assumes of them.
ASSUME ListAssumption ==
  /\ WindowSize \in Nat \ {0}
  /\ WindowSize < MaxSeq
  /\ AckHistory \in Nat \ {0}
  /\ MaxAcks \in Nat

VARIABLES
  left,         \* ReceiveGlideWindow::_left
  packetList,   \* ReceiveGlideWindow::_packetList
  lossList,     \* ReceiveLossList::_lossList
  lrsn,         \* UDTSocket::_lrsn
  largestACK2,  \* UDTSocket::_largestACK2SeqNumber
  acks,         \* the numbers carried by the ACKs sent, in order
  callbacks     \* the packets handed to reliablePacketCallback, in order

listVars == <<left, packetList, lossList, lrsn, largestACK2, acks, callbacks>>

\* The refinement mapping: a list stands for the set of its elements.
Sets == INSTANCE UdtReceiver WITH
          rcvLeft    <- left,
          rcvPackets <- Range(packetList),
          rcvLoss    <- Range(lossList),
          delivered  <- Range(callbacks)

RightOf(l) == Sets!RightOf(l)
-----------------------------------------------------------------------------
\* Mutant: every buffered packet follows the one that arrived.
DrainedAll(seq) == Len(packetList)

\* How many packets at the front of the list continue seq without a gap.
Drained(seq) ==
  LET run == <<seq>> \o packetList
  IN  Max({ n \in 0 .. Len(packetList) :
              \A i \in 1 .. n : ContinuousSeqNumber(run[i], run[i + 1]) })

\* What handleDataPacket does to the loss list once the window stands at l.
UpdateLoss(seq, l) ==
  LET expected == IncreaseSeqNumber(lrsn)
  IN  IF seq = expected \/ Sets!Ahead(seq, expected, l)
      THEN /\ lossList' = IF seq = expected THEN lossList
                          ELSE InsertRange(lossList, expected, seq, l, RightOf(l))
           /\ lrsn' = seq
      ELSE /\ lossList' = IF seq = lrsn THEN lossList ELSE RemoveFirst(lossList, seq)
           /\ lrsn' = lrsn

ReceiveInOrder(seq) ==
  /\ ContinuousSeqNumber(left, seq)
  /\ LET n   == Drained(seq)
         run == <<seq>> \o SubSeq(packetList, 1, n)
     IN  /\ left' = Last(run)
         /\ packetList' = SubSeq(packetList, n + 1, Len(packetList))
         /\ callbacks' = callbacks \o run
         /\ UpdateLoss(seq, Last(run))
  /\ UNCHANGED <<largestACK2, acks>>

ReceiveOutOfOrder(seq) ==
  /\ ~ContinuousSeqNumber(left, seq)
  /\ left < seq /\ seq <= RightOf(left)
  /\ packetList' = SortedInsert(packetList, seq, left, RightOf(left))
  /\ UpdateLoss(seq, left)
  /\ UNCHANGED <<left, largestACK2, acks, callbacks>>

HandleDataPacket(seq) == ReceiveInOrder(seq) \/ ReceiveOutOfOrder(seq)

AckNumber == IF lossList = <<>> THEN IncreaseSeqNumber(lrsn) ELSE Head(lossList)

AckTask ==
  /\ Len(acks) < MaxAcks
  /\ AckNumber # largestACK2
  /\ acks' = Append(acks, AckNumber)
  /\ UNCHANGED <<left, packetList, lossList, lrsn, largestACK2, callbacks>>

HandleAck2Packet(k) ==
  /\ UNCHANGED <<packetList, lossList, callbacks>>
  /\ Sets!HandleAck2Packet(k)
-----------------------------------------------------------------------------
ListInit ==
  /\ left = InitSeq /\ lrsn = InitSeq /\ largestACK2 = InitSeq
  /\ packetList = <<>> /\ lossList = <<>> /\ acks = <<>> /\ callbacks = <<>>

ListNext ==
  \/ \E seq \in Sets!PeerSeqs : HandleDataPacket(seq)
  \/ AckTask
  \/ \E k \in 1 .. MaxAcks : HandleAck2Packet(k)

ListSpec == ListInit /\ [][ListNext]_listVars

\* A peer that this same code runs on sends nothing after MaxSeq, and never has
\* more than the window's worth of packets beyond what was delivered.
WindowedPeer(seq) == seq > InitSeq /\ seq <= left + WindowSize

WrapNext ==
  \/ \E seq \in { s \in SeqNumbers : WindowedPeer(s) } : HandleDataPacket(seq)
  \/ AckTask

WrapSpec == ListInit /\ [][WrapNext]_listVars
-----------------------------------------------------------------------------
\* The lists implement the receiver of UdtReceiver: in particular the front of
\* the loss list is the smallest lost number and no entry is there twice.
ImplementsReceiver == Sets!RcvSpec

\* The callback sees the packets once each, in the order they were numbered,
\* whatever the order and repetition in which they arrived.
CallbacksOnceInOrder == callbacks = [i \in 1 .. (left - InitSeq) |-> InitSeq + i]

\* UDTSocket.cpp:280: the smallest number of the loss list is the one the
\* receiver expects, so the ACK carries the number after the left edge.
FirstLossIsExpected == lossList # <<>> => Head(lossList) = IncreaseSeqNumber(left)

=============================================================================
