---------------------------- MODULE UdtTransfer -----------------------------
(***************************************************************************)
(* One direction of a UDT connection: the sender of UdtSender and the      *)
(* receiver of UdtReceiver over UDP.  UDP loses, repeats and reorders      *)
(* packets: whatever was sent may arrive at any later time, any number of  *)
(* times, or never.  So the network is what has been sent:                 *)
(*   - data packets: sent numbers, in `dataNet';                           *)
(*   - ACKs: all of `acks' (the k-th ACK carries acks[k]);                 *)
(*   - ACK2s: the indices of the ACKs answered, in `ack2Net';              *)
(*   - NAKs: the numbers reported, in `nakNet'.  A NAK that arrives lists  *)
(*     any of them, which covers every NAK that was sent.                  *)
(***************************************************************************)
EXTENDS UdtSender, UdtReceiver

VARIABLES dataNet, nakNet, ack2Net

netVars == <<dataNet, nakNet, ack2Net>>
vars == <<sndVars, rcvVars, netVars>>
-----------------------------------------------------------------------------
\* The sending application and the send thread.
Post == PostData /\ UNCHANGED <<rcvVars, netVars>>

Transmit ==
  /\ SendNew
  /\ dataNet' = dataNet \cup {FrontNumber}
  /\ UNCHANGED <<rcvVars, nakNet, ack2Net>>

Refuse == SendRefused /\ UNCHANGED <<rcvVars, netVars>>

\* getPacket finds only what is still in the window.
Retransmit(seq) ==
  /\ TakeLoss(seq)
  /\ dataNet' = dataNet \cup ({seq} \cap sndPackets)
  /\ UNCHANGED <<rcvVars, nakNet, ack2Net>>
-----------------------------------------------------------------------------
\* The receiver's receive thread; a gap is reported in the same step.
ReceiveData(seq) ==
  /\ seq \in dataNet
  /\ HandleDataPacket(seq)
  /\ nakNet' = nakNet \cup NewlyLost(seq, rcvLeft')
  /\ UNCHANGED <<sndVars, dataNet, ack2Net>>

SendAck == AckTask /\ UNCHANGED <<sndVars, netVars>>

\* nakTask reports again the numbers whose time has come, possibly none.
SendNak ==
  /\ \E lost \in SUBSET rcvLoss : nakNet' = nakNet \cup lost
  /\ UNCHANGED <<sndVars, rcvVars, dataNet, ack2Net>>

ReceiveAck2(k) ==
  /\ k \in ack2Net
  /\ HandleAck2Packet(k)
  /\ UNCHANGED <<sndVars, netVars>>
-----------------------------------------------------------------------------
\* Mutant: the ACK is answered and not processed.
ReceiveAckOnlyAnswers(k) ==
  k \in DOMAIN acks /\ ack2Net' = ack2Net \cup {k} /\ UNCHANGED <<sndVars, rcvVars, dataNet, nakNet>>

\* The sender's receive thread; every ACK is answered, also one that is late.
ReceiveAck(k) ==
  /\ k \in DOMAIN acks
  /\ HandleAckPacket(acks[k])
  /\ ack2Net' = ack2Net \cup {k}
  /\ UNCHANGED <<rcvVars, dataNet, nakNet>>

ReceiveNak ==
  /\ \E lost \in SUBSET nakNet : HandleNakPacket(lost)
  /\ UNCHANGED <<rcvVars, netVars>>

Expire == ExpTask /\ UNCHANGED <<rcvVars, netVars>>
-----------------------------------------------------------------------------
Init ==
  /\ SndInit /\ RcvInit
  /\ dataNet = {} /\ nakNet = {} /\ ack2Net = {}

Next ==
  \/ Post \/ Transmit \/ Refuse
  \/ \E seq \in sndLoss : Retransmit(seq)
  \/ \E seq \in dataNet : ReceiveData(seq)
  \/ SendAck \/ SendNak
  \/ \E k \in ack2Net : ReceiveAck2(k)
  \/ \E k \in DOMAIN acks : ReceiveAck(k)
  \/ ReceiveNak \/ Expire

Spec == Init /\ [][Next]_vars
-----------------------------------------------------------------------------
TypeOK ==
  /\ SndTypeOK /\ RcvTypeOK
  /\ dataNet \subseteq SeqNumbers /\ nakNet \subseteq SeqNumbers
  /\ ack2Net \subseteq DOMAIN acks

\* The sender takes for arrived only what the application has been handed.
AckedWasDelivered == Acknowledged <= rcvLeft

\* Whatever was lost on the way, the sender can still send again every packet
\* the receiving application lacks.
MissingCanBeResent == sndRight >= 0 => ((rcvLeft + 1) .. sndRight) \subseteq sndPackets

\* The receiver goes silent about a number only when its sender knows everything
\* below it has arrived: an ACK2 stands for an ACK that was processed.
SilentOnlyIfSenderKnows == largestACK2 # InitSeq => largestACK2 <= Acknowledged + 1

\* The receiver never counts as lost a packet that was not sent.
OnlySentIsLost == \A seq \in rcvLoss \cup nakNet : seq \in (InitSeq + 1) .. sndRight

\* The connection implements the reliable stream.
Stream == INSTANCE ReliableStream WITH
            accepted <- posted, handed <- { seq - InitSeq : seq \in delivered }

ImplementsStream == Stream!Spec

=============================================================================
