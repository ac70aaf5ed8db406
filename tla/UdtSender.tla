------------------------------ MODULE UdtSender -----------------------------
(***************************************************************************)
(* The sending half of a connected UDTSocket: the send buffer filled by    *)
(* postData, the send window (SendGlideWindow.cpp), the send loss list     *)
(* (SendLossList.cpp), the send thread's transmissions (sendLoop) and what *)
(* the receive thread does on an ACK, a NAK and an expired EXP timer.      *)
(*                                                                         *)
(* A packet is its sequence number.  Lists are sets, as in UdtReceiver.    *)
(* Rates and round trip times are abstracted: an ACK leaves the window at  *)
(* some size in SendWindows.  How the send thread waits and is woken is in *)
(* UdtSendLoop.                                                            *)
(***************************************************************************)
EXTENDS UdtSeq, FiniteSets

CONSTANTS
  SndBufSize,   \* postData refuses when this many packets are queued
  MaxSplit,     \* bound: packets one postData is cut into
  SendWindows   \* the sizes rate control may give the window

ASSUME SenderAssumption ==
  /\ SndBufSize \in Nat \ {0}
  /\ MaxSplit \in Nat \ {0}
  /\ SendWindows \subseteq Nat \ {0}
  /\ SendWindows # {}

\* The numbers given out stay below MaxSeq.
SndNoWrap == InitSeq + Packets < MaxSeq

VARIABLES
  sndBuf,       \* UDTSocket::_sndBuf, the number of packets queued
  sndFront,     \* number already given to the front of _sndBuf, -1 if none
  seqNumber,    \* UDTSocket::_seqNumber, the last number given out
  sndLeft,      \* SendGlideWindow::_left, last number acknowledged, -1 at first
  sndRight,     \* SendGlideWindow::_right, last number sent, -1 at first
  sndPackets,   \* SendGlideWindow::_packetList
  sndWindow,    \* SendGlideWindow::_windowSize
  sndLoss,      \* SendLossList::_lossList
  posted        \* packets postData has accepted so far

sndVars == <<sndBuf, sndFront, seqNumber, sndLeft, sndRight, sndPackets,
             sndWindow, sndLoss, posted>>
-----------------------------------------------------------------------------
\* The limit is tested before the data is cut into packets; a full buffer
\* refuses the whole post and changes nothing.
PostData ==
  /\ sndBuf < SndBufSize
  /\ \E n \in 1 .. MaxSplit :
       /\ posted + n <= Packets
       /\ sndBuf' = sndBuf + n
       /\ posted' = posted + n
  /\ UNCHANGED <<sndFront, seqNumber, sndLeft, sndRight, sndPackets, sndWindow, sndLoss>>
-----------------------------------------------------------------------------
(***************************************************************************)
(* The send thread.                                                        *)
(***************************************************************************)

\* The front packet is numbered the first time the loop looks at it.
FrontNumber == IF sndFront < 0 THEN IncreaseSeqNumber(seqNumber) ELSE sndFront

\* trySendPacket: the difference is compared as an unsigned number, so a right
\* edge that has started again at 0 admits nothing.
WindowAdmits(seq) ==
  \/ sndRight < 0
  \/ /\ ContinuousSeqNumber(sndRight, seq)
     /\ 0 <= sndRight - sndLeft /\ sndRight - sndLeft < sndWindow

\* A new packet enters the window and is transmitted.
SendNew ==
  /\ sndBuf > 0
  /\ WindowAdmits(FrontNumber)
  /\ sndRight' = FrontNumber
  /\ sndLeft' = IF sndLeft < 0 THEN DecreaseSeqNumber(FrontNumber) ELSE sndLeft
  /\ sndPackets' = sndPackets \cup {FrontNumber}
  /\ seqNumber' = IF sndFront < 0 THEN FrontNumber ELSE seqNumber
  /\ sndFront' = -1
  /\ sndBuf' = sndBuf - 1
  /\ UNCHANGED <<sndWindow, sndLoss, posted>>

\* The window is full: the front packet has its number and stays queued.
SendRefused ==
  /\ sndBuf > 0
  /\ ~WindowAdmits(FrontNumber)
  /\ sndFront' = FrontNumber
  /\ seqNumber' = IF sndFront < 0 THEN FrontNumber ELSE seqNumber
  /\ UNCHANGED <<sndBuf, sndLeft, sndRight, sndPackets, sndWindow, sndLoss, posted>>

\* The first entry leaves the loss list; it is transmitted again only if the
\* window still holds its packet.
IsFirstLoss(seq) == seq \in sndLoss /\ \A t \in sndLoss : seq <= t

TakeLoss(seq) ==
  /\ IsFirstLoss(seq)
  /\ sndLoss' = sndLoss \ {seq}
  /\ UNCHANGED <<sndBuf, sndFront, seqNumber, sndLeft, sndRight, sndPackets, sndWindow, posted>>
-----------------------------------------------------------------------------
(***************************************************************************)
(* The receive thread.                                                     *)
(***************************************************************************)

\* Mutant: the range test of ackPacket is dropped, a late ACK moves the window back.
AckMovesWindowAlways(seq) == sndRight >= 0

\* ackPacket: is seq inside (left, right]?
AckMovesWindow(seq) ==
  \/ sndLeft >= 0 /\ sndRight >= 0 /\ sndLeft < sndRight /\ sndLeft < seq /\ seq <= sndRight
  \/ sndRight < sndLeft /\ (seq > sndLeft \/ seq <= sndRight)

\* removePacketBeforeSeqNumber: a single entry is only compared for equality.
LossAfter(seq) ==
  IF Cardinality(sndLoss) >= 2 THEN { s \in sndLoss : s > seq } ELSE sndLoss \ {seq}

\* Mutant: an ACK is taken for the number of the last packet received.
HandleAckPacketItself(ackNumber) ==
  /\ IF AckMovesWindow(ackNumber)
     THEN sndLeft' = ackNumber /\ sndPackets' = { s \in sndPackets : s > ackNumber }
     ELSE UNCHANGED <<sndLeft, sndPackets>>
  /\ sndWindow' \in SendWindows
  /\ sndLoss' = LossAfter(sndLeft')
  /\ UNCHANGED <<sndBuf, sndFront, seqNumber, sndRight, posted>>

\* An ACK carries the number its sender expects next.
HandleAckPacket(ackNumber) ==
  LET seq == DecreaseSeqNumber(ackNumber)
  IN  /\ IF AckMovesWindow(seq)
         THEN /\ sndLeft' = seq
              /\ sndPackets' = { s \in sndPackets : s > seq }
         ELSE UNCHANGED <<sndLeft, sndPackets>>
      /\ sndWindow' \in SendWindows
      /\ sndLoss' = LossAfter(sndLeft')
      /\ UNCHANGED <<sndBuf, sndFront, seqNumber, sndRight, posted>>

\* Every number a NAK reports joins the loss list, acknowledged or not.
HandleNakPacket(lost) ==
  /\ sndLoss' = sndLoss \cup lost
  /\ UNCHANGED <<sndBuf, sndFront, seqNumber, sndLeft, sndRight, sndPackets, sndWindow, posted>>

\* The EXP timer expired: everything unacknowledged counts as lost.
ExpTask ==
  /\ sndLoss' = sndLoss \cup sndPackets
  /\ UNCHANGED <<sndBuf, sndFront, seqNumber, sndLeft, sndRight, sndPackets, sndWindow, posted>>
-----------------------------------------------------------------------------
\* Connected, nothing sent: the window gets its edges with the first packet.
SndInit ==
  /\ sndBuf = 0 /\ sndFront = -1 /\ posted = 0
  /\ seqNumber = InitSeq
  /\ sndLeft = -1 /\ sndRight = -1 /\ sndPackets = {} /\ sndLoss = {}
  /\ sndWindow \in SendWindows

\* Alone, the sender faces a peer that acknowledges and reports lost any
\* numbers sent so far, in any order and repeatedly.
SentNumbers ==
  IF sndRight < 0 THEN {}
  ELSE SeqRange(IncreaseSeqNumber(InitSeq), sndRight) \cup {sndRight}

SndNext ==
  \/ PostData
  \/ SendNew
  \/ SendRefused
  \/ \E seq \in sndLoss : TakeLoss(seq)
  \/ \E seq \in SentNumbers : HandleAckPacket(IncreaseSeqNumber(seq))
  \/ \E seq \in SentNumbers : HandleNakPacket({seq})
  \/ ExpTask

SndSpec == SndInit /\ [][SndNext]_sndVars
-----------------------------------------------------------------------------
\* The last number transmitted, and the last one known to have arrived.
LastSent == IF sndRight < 0 THEN InitSeq ELSE sndRight

Acknowledged == IF sndLeft < 0 THEN InitSeq ELSE sndLeft

SndTypeOK ==
  /\ sndBuf \in Nat /\ posted \in Nat
  /\ sndFront \in SeqNumbers \cup {-1} /\ seqNumber \in SeqNumbers
  /\ sndLeft \in SeqNumbers \cup {-1} /\ sndRight \in SeqNumbers \cup {-1}
  /\ sndPackets \subseteq SeqNumbers /\ sndLoss \subseteq SeqNumbers
  /\ sndWindow \in SendWindows

\* Whatever ACKs arrive in whatever order, the window still holds every packet
\* sent and not acknowledged: it can be sent again.
UnackedAreKept == sndRight >= 0 => sndPackets = (sndLeft + 1) .. sndRight

\* At most the largest window is unacknowledged.
FlightIsBounded == \E w \in SendWindows : sndRight - sndLeft <= w

\* The packets posted are numbered one after the other without a gap, although
\* a packet may be looked at many times before the window takes it.
NumbersFollowPosts ==
  /\ posted = LastSent - InitSeq + sndBuf
  /\ sndFront >= 0 => sndFront = LastSent + 1

\* A late or repeated ACK never takes the window back.
AckNeverMovesBack == [][sndLeft' >= sndLeft]_sndVars

\* SendGlideWindow.cpp:26: the window takes the packet that follows the last
\* one sent while fewer than the window's packets are unacknowledged.
NextNumberIsAdmitted ==
  (sndRight >= 0 /\ sndRight - sndLeft < sndWindow)
    => WindowAdmits(IncreaseSeqNumber(sndRight))

=============================================================================
