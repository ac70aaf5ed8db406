----------------------------- MODULE UdtDatagram -----------------------------
(***************************************************************************)
(* Datagrams on top of the list-level receiver.  postData cuts a datagram  *)
(* into packets of DataLen units (the last one may be shorter) and marks   *)
(* them; reliablePacketCallback puts them together in a buffer of limited  *)
(* size.  A unit is the pair of its datagram and its place in it.  A       *)
(* stream socket hands every packet on, like a packet marked ONLY.         *)
(***************************************************************************)
EXTENDS UdtReceiverList

CONSTANTS
  DataLen,        \* units of a packet: _maxPacketSize without the header
  DgramBufMaxLen, \* _dgramBufMaxLen
  Lens            \* lengths of the datagrams that the peer posts

ASSUME DatagramAssumption ==
  DataLen \in Nat \ {0} /\ DgramBufMaxLen \in Nat /\ Lens \subseteq Nat \ {0}

VARIABLES
  posted,    \* the lengths of the datagrams that the peer posts, in order
  dgramBuf,  \* the first _dgramBufLen units of _dgramBuf
  handed     \* what _dataCallBack was called with, in order

dgramVars == <<listVars, posted, dgramBuf, handed>>
-----------------------------------------------------------------------------
PacketsOf(len) == (len + DataLen - 1) \div DataLen

\* The units of datagram d behind the first m, up to the n-th.
Units(d, m, n) == [i \in 1 .. n - m |-> <<d, m + i>>]

\* The k-th packet of datagram d, which has len units.
PacketOf(d, len, k) ==
  LET first == (k - 1) * DataLen
      size  == IF first + DataLen >= len THEN len - first ELSE DataLen
  IN  [type  |-> IF len <= DataLen THEN "ONLY"
                 ELSE IF k = 1 THEN "START"
                 ELSE IF k = PacketsOf(len) THEN "STOP" ELSE "MIDDLE",
       units |-> Units(d, first, first + size)]

\* postData: the packets of datagram d are queued under one lock, one behind
\* the other.
PostData(sndBuf, d) == sndBuf \o [k \in 1 .. PacketsOf(posted[d]) |-> PacketOf(d, posted[d], k)]

\* The queue once the first n datagrams are posted.
QueuedAfter(n) == FoldLeft(PostData, <<>>, [d \in 1..n |-> d])

SndBuf == QueuedAfter(Len(posted))

\* Mutant: a datagram that fills the buffer is taken for one that does not fit.
OverflowsWhenFull(buf, packet) == Len(buf) + Len(packet.units) >= DgramBufMaxLen

Overflows(buf, packet) == Len(buf) + Len(packet.units) > DgramBufMaxLen

\* reliablePacketCallback.  After an overflow the packet is still copied, to the
\* front of the buffer.
Reassemble(s, packet) ==
  LET kept == IF packet.type = "START" \/ Overflows(s.buf, packet) THEN <<>> ELSE s.buf
      buf  == kept \o packet.units
  IN  IF packet.type = "ONLY" THEN [buf |-> <<>>, handed |-> Append(s.handed, packet.units)]
      ELSE IF packet.type = "STOP" THEN [buf |-> <<>>, handed |-> Append(s.handed, buf)]
      ELSE [buf |-> buf, handed |-> s.handed]

\* The callbacks of this step, one after the other.
Reassembled ==
  LET new == SubSeq(callbacks', Len(callbacks) + 1, Len(callbacks'))
      s   == FoldLeft(Reassemble, [buf |-> dgramBuf, handed |-> handed],
                      [i \in 1..Len(new) |-> SndBuf[new[i] - InitSeq]])
  IN  dgramBuf' = s.buf /\ handed' = s.handed
-----------------------------------------------------------------------------
DgramInit ==
  /\ ListInit
  /\ posted \in BoundedSeq(Lens, Packets)
  /\ Len(SndBuf) = Packets
  /\ dgramBuf = <<>> /\ handed = <<>>

DgramNext == ListNext /\ Reassembled /\ UNCHANGED posted

DgramSpec == DgramInit /\ [][DgramNext]_dgramVars
-----------------------------------------------------------------------------
\* How many datagrams have their last packet among the first n.
CompleteIn(n) == Max({ d \in 0..Len(posted) : Len(QueuedAfter(d)) <= n })

Fits(d) == posted[d] <= DgramBufMaxLen

\* UDTSocket.cpp:467: as soon as the last packet of a datagram was delivered, and
\* only once, the datagram is handed over: whole if it fits the buffer, and
\* otherwise some rest of it and of no other, whatever packets came late or twice.
DatagramsArriveWhole ==
  /\ Len(handed) = CompleteIn(Len(callbacks))
  /\ \A d \in 1..Len(handed) :
       \E m \in 0 .. posted[d] - 1 :
         handed[d] = Units(d, m, posted[d]) /\ (Fits(d) => m = 0)
=============================================================================
