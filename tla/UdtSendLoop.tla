---------------------------- MODULE UdtSendLoop -----------------------------
(***************************************************************************)
(* How the threads of a sending UDTSocket wait for and wake each other.    *)
(* The send thread (sendLoop) sleeps on one condition variable,            *)
(* _sndCondition, in two places and under two mutexes: under _sndBufMutex  *)
(* while there is nothing to send, under _sendWindowMutex while the window *)
(* is full.  The receive thread changes the window and the loss list under *)
(* neither and notifies afterwards; the application posts and notifies     *)
(* under _sndBufMutex.  A notification reaches only a thread that already  *)
(* sleeps; "dozing" is a thread that has tested its condition, still holds *)
(* its mutex and is about to sleep.  shutdown tells both threads to end    *)
(* and notifies under none of the mutexes.                                 *)
(*                                                                         *)
(* What is sent, and when, is as in UdtSender; the peer acknowledges and   *)
(* reports lost what UdtReceiver does.                                     *)
(***************************************************************************)
EXTENDS UdtSender

CONSTANT MaxLosses   \* bound: data packets the network drops

ASSUME LossesAssumption == MaxLosses \in Nat

VARIABLES
  running,   \* UDTSocket::_running
  pc,        \* where the send thread is
  again,     \* the number resent last in sendLoop is a multiple of 16
  waitAck,   \* UDTSocket::_waitAck
  rpc,       \* where the receive thread is in its handler
  arrived,   \* numbers that reached the peer
  dropped    \* how many transmissions did not

loopVars == <<running, pc, again, waitAck, rpc, arrived, dropped>>
allVars == <<sndVars, loopVars>>

\* Mutant: the mutex does not keep the application out.
HoldsNoMutex == FALSE

HoldsSndBufMutex == pc = "dozing"

HoldsSendWindowMutex == pc \in {"ack", "ackDozing"}

\* notify_all of _sndCondition.
Notified == CASE pc = "asleep" -> "data"
              [] pc = "ackAsleep" -> "ack"
              [] OTHER -> pc

Travel(seq) ==
  \/ arrived' = arrived \cup {seq} /\ UNCHANGED dropped
  \/ dropped < MaxLosses /\ dropped' = dropped + 1 /\ UNCHANGED arrived
-----------------------------------------------------------------------------
(***************************************************************************)
(* The application and the send thread.                                    *)
(***************************************************************************)

PostAndNotify ==
  /\ ~HoldsSndBufMutex
  /\ PostData
  /\ pc' = Notified
  /\ UNCHANGED <<running, again, waitAck, rpc, arrived, dropped>>

\* The top of the loop: what was lost goes first.  After a number that is a
\* multiple of 16 the loop looks at new data too.
ResendLost(seq) ==
  /\ pc = "top" /\ running
  /\ TakeLoss(seq)
  /\ IF seq \in sndPackets THEN Travel(seq) ELSE UNCHANGED <<arrived, dropped>>
  /\ again' = (seq % 16 = 0)
  /\ pc' = IF again' THEN "data" ELSE "pace"
  /\ UNCHANGED <<running, waitAck, rpc>>

NothingLost ==
  /\ pc = "top" /\ running /\ sndLoss = {}
  /\ pc' = "data" /\ again' = FALSE
  /\ UNCHANGED <<running, sndVars, waitAck, rpc, arrived, dropped>>

\* Mutant: only new data is waited for, not lost packets (the deadlock the
\* comment at UDTSocket.cpp:1250 warns of).
NothingToDoButData == sndBuf = 0

NothingToDo == sndLoss = {} /\ sndBuf = 0

Doze ==
  /\ pc = "data" /\ running /\ NothingToDo
  /\ pc' = "dozing"
  /\ UNCHANGED <<running, sndVars, again, waitAck, rpc, arrived, dropped>>

Sleep ==
  /\ pc \in {"dozing", "ackDozing"}
  /\ pc' = IF pc = "dozing" THEN "asleep" ELSE "ackAsleep"
  /\ UNCHANGED <<running, sndVars, again, waitAck, rpc, arrived, dropped>>

\* A packet was lost meanwhile and there is no new data.
NoData ==
  /\ pc = "data" /\ running /\ ~NothingToDo /\ sndBuf = 0
  /\ pc' = "pace"
  /\ UNCHANGED <<running, sndVars, again, waitAck, rpc, arrived, dropped>>

\* After a resent multiple of 16 the inner loop goes on, else it is left.
SendData ==
  /\ pc = "data" /\ running /\ ~NothingToDo
  /\ SendNew
  /\ Travel(FrontNumber)
  /\ pc' = IF again THEN "data" ELSE "pace"
  /\ UNCHANGED <<running, again, waitAck, rpc>>

\* The window is full: wait for an ACK unless a lost packet is to be resent.
WindowFull ==
  /\ pc = "data" /\ running /\ ~NothingToDo
  /\ SendRefused
  /\ IF sndLoss = {} THEN waitAck' = TRUE /\ pc' = "ack" ELSE UNCHANGED waitAck /\ pc' = "pace"
  /\ UNCHANGED <<running, again, rpc, arrived, dropped>>

AckWait ==
  /\ pc = "ack"
  /\ pc' = IF running /\ waitAck /\ sndLoss = {} THEN "ackDozing" ELSE "pace"
  /\ UNCHANGED <<running, sndVars, again, waitAck, rpc, arrived, dropped>>

\* The sending interval; this wait has a timeout.
Pace ==
  /\ pc = "pace"
  /\ pc' = "top"
  /\ UNCHANGED <<running, sndVars, again, waitAck, rpc, arrived, dropped>>

SendThreadStops ==
  /\ pc \in {"top", "data"} /\ ~running
  /\ pc' = "ended"
  /\ UNCHANGED <<running, sndVars, again, waitAck, rpc, arrived, dropped>>
-----------------------------------------------------------------------------
(***************************************************************************)
(* The receive thread: each handler in the steps between its locks.        *)
(***************************************************************************)

\* The peer acknowledges the first number it lacks.
PeerAck == CHOOSE seq \in SeqNumbers :
               /\ seq > InitSeq /\ seq \notin arrived
               /\ (InitSeq + 1) .. (seq - 1) \subseteq arrived

TakeAck ==
  /\ rpc = "idle"
  /\ AckMovesWindow(PeerAck - 1)
  /\ sndLeft' = PeerAck - 1
  /\ sndPackets' = { s \in sndPackets : s >= PeerAck }
  /\ rpc' = "ackWake"
  /\ UNCHANGED <<sndBuf, sndFront, seqNumber, sndRight, sndWindow, sndLoss, posted>>
  /\ UNCHANGED <<running, pc, again, waitAck, arrived, dropped>>

\* Mutant: the thread is told to go on and not woken.
WakeSilently == waitAck' = FALSE /\ UNCHANGED pc

Wake == waitAck' = FALSE /\ pc' = Notified

\* handleAckPacket and handleNakPacket wake the send thread alike.
WakeSender ==
  /\ rpc \in {"ackWake", "nakWake"}
  /\ ~HoldsSendWindowMutex
  /\ Wake
  /\ rpc' = IF rpc = "ackWake" THEN "ackRate" ELSE "idle"
  /\ UNCHANGED <<running, sndVars, again, arrived, dropped>>

\* Rate control sets the window after the send thread was woken.
SetWindowSize ==
  /\ rpc = "ackRate"
  /\ sndWindow' \in SendWindows
  /\ rpc' = "ackLoss"
  /\ UNCHANGED <<sndBuf, sndFront, seqNumber, sndLeft, sndRight, sndPackets, sndLoss, posted>>
  /\ UNCHANGED <<running, pc, again, waitAck, arrived, dropped>>

RemoveAcked ==
  /\ rpc = "ackLoss"
  /\ sndLoss' = LossAfter(sndLeft)
  /\ rpc' = "idle"
  /\ UNCHANGED <<sndBuf, sndFront, seqNumber, sndLeft, sndRight, sndPackets, sndWindow, posted>>
  /\ UNCHANGED <<running, pc, again, waitAck, arrived, dropped>>

\* The peer reports what it lacks below the largest number it has, and repeats it.
Missing == { seq \in SeqNumbers \ arrived : seq > InitSeq /\ \E t \in arrived : seq < t }

TakeNak ==
  /\ rpc = "idle"
  /\ Missing # {}
  /\ HandleNakPacket(Missing)
  /\ rpc' = "nakWake"
  /\ UNCHANGED <<running, pc, again, waitAck, arrived, dropped>>

ExpGoesOff ==
  /\ rpc = "idle"
  /\ ExpTask
  /\ rpc' = "expWake"
  /\ UNCHANGED <<running, pc, again, waitAck, arrived, dropped>>

\* Only a send thread that waits for an ACK is woken.
ExpWake ==
  /\ rpc = "expWake"
  /\ ~HoldsSendWindowMutex
  /\ IF waitAck THEN Wake ELSE UNCHANGED <<waitAck, pc>>
  /\ rpc' = "idle"
  /\ UNCHANGED <<running, sndVars, again, arrived, dropped>>

\* receiveLoop looks at _running once in every round.
ReceiveThreadStops ==
  /\ rpc = "idle" /\ ~running
  /\ rpc' = "ended"
  /\ UNCHANGED <<running, sndVars, pc, again, waitAck, arrived, dropped>>
-----------------------------------------------------------------------------
\* shutdown, up to the join of the send thread: whoever sleeps is notified, and
\* whoever is about to sleep is not.
Shutdown ==
  /\ running /\ running' = FALSE
  /\ pc' = Notified
  /\ UNCHANGED <<sndVars, again, waitAck, rpc, arrived, dropped>>
-----------------------------------------------------------------------------
LoopInit ==
  /\ running = TRUE
  /\ SndInit
  /\ pc = "top" /\ again = FALSE /\ waitAck = FALSE /\ rpc = "idle"
  /\ arrived = {} /\ dropped = 0

SendThread ==
  \/ \E seq \in sndLoss : ResendLost(seq)
  \/ NothingLost \/ Doze \/ Sleep \/ NoData \/ SendData \/ WindowFull \/ AckWait \/ Pace
  \/ SendThreadStops

Handler == WakeSender \/ SetWindowSize \/ RemoveAcked \/ ExpWake

LoopNext ==
  \/ PostAndNotify \/ SendThread \/ TakeAck \/ TakeNak \/ ExpGoesOff \/ Handler
  \/ ReceiveThreadStops \/ Shutdown

LoopSpec == LoopInit /\ [][LoopNext]_allVars

\* Both threads run.  The peer repeats its ACKs and NAKs and the EXP timer goes
\* off again and again, so that none of them is kept out for ever by the others.
LoopFairness ==
  /\ WF_allVars(SendThread) /\ WF_allVars(Handler)
  /\ SF_allVars(TakeAck) /\ SF_allVars(TakeNak) /\ SF_allVars(ExpGoesOff)
  /\ SF_allVars(ReceiveThreadStops)

LoopFairSpec == LoopSpec /\ LoopFairness
-----------------------------------------------------------------------------
LoopTypeOK ==
  /\ SndTypeOK /\ running \in BOOLEAN
  /\ pc \in {"top", "data", "dozing", "asleep", "ack", "ackDozing", "ackAsleep", "pace", "ended"}
  /\ again \in BOOLEAN /\ waitAck \in BOOLEAN
  /\ rpc \in {"idle", "ackWake", "ackRate", "ackLoss", "nakWake", "expWake", "ended"}
  /\ arrived \subseteq SeqNumbers /\ dropped \in 0 .. MaxLosses

\* A send thread asleep for an ACK has a lost packet to resend only while the
\* thread that reported the loss is on its way to wake it; expTask relies on
\* _waitAck telling whether it sleeps there.
AckWaitIsInterrupted ==
  pc = "ackAsleep" => waitAck /\ (sndLoss # {} => rpc \in {"nakWake", "expWake"})

\* With data to send the send thread sleeps only for an ACK: postData and the
\* test for data are under one mutex, so its notification is never lost.
DataIsNotSleptOver == pc = "asleep" => sndBuf = 0

\* Every packet posted is transmitted in the end, whatever was lost before it:
\* sender and peer never both wait for the other (UDTSocket.cpp:1250), unless the
\* socket is shut down.
PostedIsSent == \A n \in 1 .. Packets : posted >= n ~> (~running \/ sndRight >= InitSeq + n)

\* A packet that was lost between others arrives in the end: the repeated NAK
\* makes up for a notification the send thread dozed through, until a shutdown.
GapIsRepaired == \A seq \in SeqNumbers : seq \in Missing ~> (~running \/ seq \in arrived)

\* UDTSocket.cpp:317: when the EXP timer has filled the loss list, the send
\* thread is woken to resend it.
ExpWakesSendThread ==
  [][rpc = "expWake" /\ rpc' = "idle" /\ sndLoss # {} => pc' # "asleep"]_allVars

\* UDTSocket.cpp:205: the send thread that shutdown waits for comes to its end.
SendThreadEnds == ~running ~> pc = "ended"

=============================================================================
