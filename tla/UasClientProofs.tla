--------------------------- MODULE UasClientProofs ---------------------------
(***************************************************************************)
(* Theorems about the asynchronous TCP client and the requests sent over   *)
(* it, for any set of threads, any number of requests, heartbeats, lost    *)
(* connections and restarts.                                               *)
(***************************************************************************)
EXTENDS UasClient, SequenceTheorems, TLAPS

Numbers == 0 .. MaxRequests

TcpTypeOK ==
  /\ status \in {"NO_CONNECT", "CONNECTING", "CONNECTED", "CLOSED"}
  /\ upper \in {"NO_CONNECT", "CONNECTING", "CONNECTED"}
  /\ timer \in {"none", "armed", "closing"}
  /\ io \in {"idle", "opening", "closing", "packet", "ended"}
  /\ ready \in Seq(Handlers) /\ sendQueue \in Seq(Numbers)
  /\ connects \in Nat /\ reads \in Nat /\ writes \in Nat
  /\ header \in Numbers /\ stream \in Numbers /\ wire \subseteq Numbers
  /\ written \in Seq(Numbers)

UasTypeOK ==
  /\ pc \in [Threads -> {"idle", "sending", "waiting"}]
  /\ number \in [Threads -> Numbers] /\ result \in [Threads -> Packets]
  /\ seqNumber \in Numbers /\ receiveSeqNumber \in Numbers
  /\ slots \in [DOMAIN slots -> Packets]

\* While the io thread is in a handler, the handler is still at the front of what
\* it has to run.
HandlerIsFirst ==
  io \in {"opening", "closing", "packet"} =>
    /\ ready # <<>>
    /\ io = "opening" => Head(ready).op = "connected"
    /\ io = "closing" => Head(ready).op \in {"connectFailed", "writeFailed", "readFailed"}
    /\ io = "packet" => Head(ready).op \in {"header", "body"}

TypeInv == TcpTypeOK /\ UasTypeOK /\ HandlerIsFirst

ReadyHas(op) == \E i \in DOMAIN ready : ready[i].op = op

\* What was written and is still at the front of the queue is not written again:
\* the handler that takes it off is on its way, and only that one.
WriteInv ==
  /\ writes \in {0, 1}
  /\ writes = 1 \/ ReadyHas("written") => sendQueue # <<>>
  /\ ReadyHas("written") => writes = 0
  /\ \A i, j \in DOMAIN ready : ready[i].op = "written" /\ ready[j].op = "written" => i = j

Increasing(s) == \A i, j \in DOMAIN s : i < j /\ s[i] # 0 /\ s[j] # 0 => s[i] < s[j]

IsSend(h) == h.op = "send" /\ h.msg # 0

\* Requests are in the order of their numbers from the thread that sends one to
\* what was written.  Only the first of the queue may have been written already.
OrderInv ==
  /\ WrittenInOrder
  /\ Increasing(sendQueue)
  /\ \A i, j \in DOMAIN ready :
       i < j /\ IsSend(ready[i]) /\ IsSend(ready[j]) => ready[i].msg < ready[j].msg
  /\ \A i \in DOMAIN written, j \in DOMAIN sendQueue :
       sendQueue[j] # 0 /\ (j > 1 \/ writes = 1) => written[i] < sendQueue[j]
  /\ \A j \in DOMAIN ready :
       IsSend(ready[j]) =>
         /\ \A i \in DOMAIN written : written[i] < ready[j].msg
         /\ \A i \in DOMAIN sendQueue : sendQueue[i] < ready[j].msg

\* The numbers of the requests on their way and of those that arrived.
OnTheWay ==
  ({ written[i] : i \in DOMAIN written } \cup { sendQueue[i] : i \in DOMAIN sendQueue }
    \cup { ready[i].msg : i \in { j \in DOMAIN ready : IsSend(ready[j]) } }) \ {0}

\* The thread that sends has the largest number given out, and has not sent it yet.
SenderIsLast ==
  /\ \A n \in OnTheWay : n <= seqNumber
  /\ \A t \in Threads :
       pc[t] = "sending" => number[t] = seqNumber /\ \A n \in OnTheWay : n < seqNumber

OneSender == \A t, u \in Threads : pc[t] = "sending" /\ pc[u] = "sending" => t = u

\* A slot holds its own answer or none, and calls in progress have slots of their own.
SlotInv ==
  /\ SlotsHaveWaiters /\ AnswerIsForRequest
  /\ \A n \in DOMAIN slots : slots[n].seq \in {0, n}
  /\ \A t \in Threads : number[t] <= seqNumber
  /\ \A t, u \in Threads :
       pc[t] # "idle" /\ pc[u] # "idle" /\ number[t] = number[u] => t = u

\* A handler that the io thread has not begun.
Pending(op) == \E i \in DOMAIN ready : ready[i].op = op /\ (i = 1 => io = "idle")

\* A client that is connecting has a connection attempt under way or its outcome
\* before it, which is why the timer has nothing to do then.
Attempting ==
  timer = "closing" \/ connects > 0 \/ Pending("connected") \/ Pending("connectFailed")

WatchInv ==
  /\ ConnectionIsWatched
  /\ status = "CONNECTING" => Attempting
  /\ status = "CLOSED" => io = "ended"
  /\ io = "ended" => status \in {"CLOSED", "NO_CONNECT"} /\ timer = "none"

\* When shutDown has returned, the io thread has ended.
DownInv == closer = "down" => io = "ended"
-----------------------------------------------------------------------------
(***************************************************************************)
(* Sequences.                                                              *)
(***************************************************************************)

LEMMA AppendFacts ==
  ASSUME NEW S, NEW s \in Seq(S), NEW e \in S
  PROVE  /\ Append(s, e) \in Seq(S)
         /\ Len(s) \in Nat /\ DOMAIN s = 1 .. Len(s)
         /\ Len(Append(s, e)) = Len(s) + 1
         /\ DOMAIN Append(s, e) = 1 .. Len(s) + 1
         /\ Append(s, e)[Len(s) + 1] = e
         /\ \A i \in 1 .. Len(s) : Append(s, e)[i] = s[i]
  OBVIOUS

LEMMA TailFacts ==
  ASSUME NEW S, NEW s \in Seq(S), s # <<>>
  PROVE  /\ Tail(s) \in Seq(S)
         /\ Len(s) \in Nat \ {0} /\ DOMAIN s = 1 .. Len(s)
         /\ Len(Tail(s)) = Len(s) - 1
         /\ DOMAIN Tail(s) = 1 .. Len(s) - 1
         /\ Head(s) = s[1] /\ Head(s) \in S
         /\ \A i \in 1 .. Len(s) - 1 : Tail(s)[i] = s[i + 1]
  OBVIOUS

LEMMA RestFacts ==
  ASSUME NEW S, NEW s \in Seq(S), s # <<>>, NEW e \in S
  PROVE  /\ Tail(s) \o <<e>> \in Seq(S)
         /\ Len(s) \in Nat \ {0} /\ DOMAIN s = 1 .. Len(s)
         /\ DOMAIN (Tail(s) \o <<e>>) = 1 .. Len(s)
         /\ Len(Tail(s) \o <<e>>) = Len(s)
         /\ (Tail(s) \o <<e>>)[Len(s)] = e
         /\ \A i \in 1 .. Len(s) - 1 : (Tail(s) \o <<e>>)[i] = s[i + 1]
  OBVIOUS

LEMMA HandlerFacts ==
  /\ \A h \in Handlers : h.op \in {"send", "header", "body"} => h.msg \in Numbers
  /\ \A op \in {"connected", "connectFailed", "written", "writeFailed", "read",
                "readFailed", "close"} : [op |-> op] \in Handlers
  /\ \A op \in {"send", "header", "body"}, msg \in Numbers : [op |-> op, msg |-> msg] \in Handlers
  BY DEF Handlers, Numbers
-----------------------------------------------------------------------------
(***************************************************************************)
(* Types.                                                                  *)
(***************************************************************************)

LEMMA InitEstablishesTypes == Init => TypeInv
<1> SUFFICES ASSUME Init PROVE TypeInv
  OBVIOUS
<1>1. MaxRequests \in Nat /\ 0 \in Numbers /\ Nothing \in Packets
  BY TcpAssumption DEF Numbers, Nothing, Packets
<1>2. TcpTypeOK
  BY <1>1 DEF Init, TcpInit, TcpTypeOK
<1>3. UasTypeOK
  BY <1>1 DEF Init, UasTypeOK
<1>4. HandlerIsFirst
  BY DEF Init, TcpInit, HandlerIsFirst
<1>5. QED
  BY <1>2, <1>3, <1>4 DEF TypeInv

LEMMA FrontStays ==
  ASSUME TypeInv, NEW h \in Handlers, ready' = Append(ready, h), io' = io
  PROVE  HandlerIsFirst'
  BY AppendFacts DEF TypeInv, TcpTypeOK, HandlerIsFirst

\* A write under way is that of a message in the queue.
Writing == writes > 0 => sendQueue # <<>>

LEMMA NetworkKeepsTypes ==
  ASSUME TypeInv, Writing, Network, UNCHANGED uasVars
  PROVE  TypeInv'
<1>1. UasTypeOK'
  BY DEF TypeInv, UasTypeOK, uasVars
<1>2. CASE ConnectDone
  <2>1. PICK h \in Handlers : ready' = Append(ready, h)
    BY <1>2, HandlerFacts DEF ConnectDone
  <2>2. TcpTypeOK'
    BY <1>2, <2>1, AppendFacts DEF ConnectDone, TypeInv, TcpTypeOK, stateVars, frameVars
  <2>3. HandlerIsFirst'
    BY <1>2, <2>1, FrontStays DEF ConnectDone
  <2>4. QED
    BY <1>1, <2>2, <2>3 DEF TypeInv
<1>3. CASE Drop
  BY <1>3, <1>1, TcpAssumption
     DEF Drop, TypeInv, TcpTypeOK, HandlerIsFirst, stateVars, frameVars, Numbers
<1>4. CASE WriteDone
  <2>1. Head(sendQueue) \in Numbers
    BY <1>4, TailFacts DEF WriteDone, Writing, TypeInv, TcpTypeOK
  <2>2. PICK h \in Handlers : ready' = Append(ready, h)
    BY <1>4, HandlerFacts DEF WriteDone
  <2>3. written' \in Seq(Numbers) /\ wire' \subseteq Numbers
    <3>1. written' = written \/ written' = Append(written, Head(sendQueue))
      BY <1>4 DEF WriteDone
    <3>2. wire' = wire \/ wire' = wire \cup {Head(sendQueue)}
      BY <1>4 DEF WriteDone
    <3>3. wire \subseteq Numbers /\ written \in Seq(Numbers)
      BY DEF TypeInv, TcpTypeOK
    <3>4. written' \in Seq(Numbers)
      BY <2>1, <3>1, <3>3, AppendFacts
    <3>5. QED
      BY <2>1, <3>2, <3>3, <3>4
  <2>4. ready' \in Seq(Handlers)
    BY <2>2, AppendFacts DEF TypeInv, TcpTypeOK
  <2>5. TcpTypeOK'
    BY <1>4, <2>3, <2>4 DEF WriteDone, TypeInv, TcpTypeOK, stateVars, frameVars
  <2>6. HandlerIsFirst'
    BY <1>4, <2>2, FrontStays DEF WriteDone
  <2>7. QED
    BY <1>1, <2>5, <2>6 DEF TypeInv
<1>5. CASE ReadDone
  <2>1. \A msg \in wire : msg \in Numbers
    BY DEF TypeInv, TcpTypeOK
  <2>2. PICK h \in Handlers : ready' = Append(ready, h)
    BY <1>5, <2>1, HandlerFacts DEF ReadDone, TypeInv, TcpTypeOK
  <2>3. ready' \in Seq(Handlers)
    BY <2>2, AppendFacts DEF TypeInv, TcpTypeOK
  <2>4. stream' \in Numbers /\ wire' \subseteq Numbers
    <3>1. stream' \in wire \/ stream' = 0 \/ stream' = stream
      BY <1>5 DEF ReadDone
    <3>2. wire' \subseteq wire
      BY <1>5 DEF ReadDone
    <3>3. wire \subseteq Numbers /\ stream \in Numbers /\ 0 \in Numbers
      BY TcpAssumption DEF TypeInv, TcpTypeOK, Numbers
    <3>4. QED
      BY <2>1, <3>1, <3>2, <3>3
  <2>5. TcpTypeOK'
    BY <1>5, <2>3, <2>4 DEF ReadDone, TypeInv, TcpTypeOK, stateVars, frameVars
  <2>6. HandlerIsFirst'
    BY <1>5, <2>2, FrontStays DEF ReadDone
  <2>7. QED
    BY <1>1, <2>5, <2>6 DEF TypeInv
<1>6. QED
  BY <1>2, <1>3, <1>4, <1>5 DEF Network

\* What a handler that ends leaves behind: the rest, and perhaps a new one.
LEMMA HandlerEnds ==
  ASSUME TypeInv, ready # <<>>,
         Done(<<>>) \/ Done(<<[op |-> "read"]>>)
  PROVE  ready' \in Seq(Handlers)
<1>1. Tail(ready) \in Seq(Handlers)
  BY TailFacts DEF TypeInv, TcpTypeOK
<1>2. CASE Done(<<>>)
  BY <1>1, <1>2 DEF Done
<1>3. CASE Done(<<[op |-> "read"]>>)
  BY <1>3, RestFacts, HandlerFacts DEF Done, TypeInv, TcpTypeOK
<1>4. QED
  BY <1>2, <1>3

\* The steps of the io thread and the timer that only this layer takes part in.
LowerSteps ==
  \/ RunSend \/ RunWritten \/ TimerFires \/ RunConnected \/ RunFailed
  \/ RunRead \/ RunPart \/ RunPacket \/ RunClose

LEMMA LowerKeepsTypes ==
  ASSUME TypeInv, ReadyHas("written") => sendQueue # <<>>, LowerSteps, UNCHANGED uasVars
  PROVE  TypeInv'
<1> USE DEF stateVars, frameVars, sockVars
<1>1. UasTypeOK'
  BY DEF TypeInv, UasTypeOK, uasVars
<1>2. CASE RunSend
  <2>1. Head(ready).msg \in Numbers
    BY <1>2, TailFacts, HandlerFacts DEF RunSend, Is, TypeInv, TcpTypeOK
  <2>2. sendQueue' \in Seq(Numbers) /\ writes' \in Nat
    BY <1>2, <2>1, AppendFacts DEF RunSend, Enqueue, TypeInv, TcpTypeOK
  <2>3. ready' \in Seq(Handlers)
    BY <1>2, HandlerEnds DEF RunSend, Is
  <2>4. QED
    BY <1>1, <1>2, <2>2, <2>3 DEF RunSend, Is, TypeInv, TcpTypeOK, HandlerIsFirst
<1>3. CASE RunWritten
  <2>1. sendQueue # <<>>
    BY <1>3, TailFacts DEF RunWritten, Is, ReadyHas, TypeInv, TcpTypeOK
  <2>2. sendQueue' \in Seq(Numbers) /\ writes' \in Nat
    BY <1>3, <2>1, TailFacts DEF RunWritten, NextWrite, TypeInv, TcpTypeOK
  <2>3. ready' \in Seq(Handlers)
    BY <1>3, HandlerEnds DEF RunWritten, Is
  <2>4. QED
    BY <1>1, <1>3, <2>2, <2>3 DEF RunWritten, Is, TypeInv, TcpTypeOK, HandlerIsFirst
<1>4. CASE TimerFires
  BY <1>1, <1>4 DEF TimerFires, TypeInv, TcpTypeOK, HandlerIsFirst
<1>5. CASE RunConnected
  BY <1>1, <1>5 DEF RunConnected, Is, TypeInv, TcpTypeOK, HandlerIsFirst
<1>6. CASE RunFailed
  BY <1>1, <1>6 DEF RunFailed, Is, TypeInv, TcpTypeOK, HandlerIsFirst
<1>7. CASE RunRead
  <2>1. ready' \in Seq(Handlers)
    BY <1>7, HandlerEnds DEF RunRead, Is
  <2>2. QED
    BY <1>1, <1>7, <2>1 DEF RunRead, Is, TypeInv, TcpTypeOK, HandlerIsFirst
<1>8. CASE RunPart
  <2>1. ready' \in Seq(Handlers)
    BY <1>8, HandlerEnds DEF RunPart, ReadAgain, Is
  <2>2. header' \in Numbers
    BY <1>8, TailFacts, HandlerFacts DEF RunPart, Is, TypeInv, TcpTypeOK
  <2>3. QED
    BY <1>1, <1>8, <2>1, <2>2 DEF RunPart, Is, TypeInv, TcpTypeOK, HandlerIsFirst
<1>9. CASE RunPacket
  BY <1>1, <1>9 DEF RunPacket, Is, TypeInv, TcpTypeOK, HandlerIsFirst
<1>10. CASE RunClose
  BY <1>1, <1>10, TcpAssumption DEF RunClose, TypeInv, TcpTypeOK, HandlerIsFirst, Numbers
<1>11. QED
  BY <1>2, <1>3, <1>4, <1>5, <1>6, <1>7, <1>8, <1>9, <1>10 DEF LowerSteps

\* The slot of a call in progress.
LEMMA OwnSlot ==
  ASSUME SlotsHaveWaiters, NEW t \in Threads, pc[t] # "idle"
  PROVE  number[t] \in DOMAIN slots
  BY DEF SlotsHaveWaiters

LEMMA WithoutFacts ==
  ASSUME NEW S, NEW f, f \in [DOMAIN f -> S], NEW k
  PROVE  /\ Without(f, k) \in [DOMAIN f \ {k} -> S]
         /\ \A n \in DOMAIN f \ {k} : Without(f, k)[n] = f[n]
  BY DEF Without, Restrict

LEMMA ReturnKeepsTypes ==
  ASSUME UasTypeOK, SlotsHaveWaiters, NEW t \in Threads, pc[t] # "idle", Return(t),
         UNCHANGED <<number, seqNumber, receiveSeqNumber>>
  PROVE  UasTypeOK'
<1>1. slots[number[t]] \in Packets
  BY OwnSlot DEF UasTypeOK
<1>2. slots' \in [DOMAIN slots \ {number[t]} -> Packets]
  BY WithoutFacts DEF Return, UasTypeOK
<1>3. QED
  BY <1>1, <1>2 DEF Return, UasTypeOK

ThreadStep(t) == Request(t) \/ Send(t) \/ Answered(t) \/ TimedOut(t)

LEMMA ThreadsKeepTypes ==
  ASSUME TypeInv, SlotsHaveWaiters, NEW t \in Threads, ThreadStep(t)
  PROVE  TypeInv'
<1> USE DEF stateVars, frameVars, sockVars, tcpVars
<1>1. CASE Request(t)
  <2>1. NextNumber \in Numbers /\ Nothing \in Packets
    BY <1>1, TcpAssumption DEF Request, NextNumber, Numbers, Nothing, Packets, TypeInv, UasTypeOK
  <2>2. slots' \in [DOMAIN slots \cup {NextNumber} -> Packets]
    BY <1>1, <2>1 DEF Request, TypeInv, UasTypeOK
  <2>3. number' \in [Threads -> Numbers] /\ pc' \in [Threads -> {"idle", "sending", "waiting"}]
    BY <1>1, <2>1 DEF Request, TypeInv, UasTypeOK
  <2>4. UasTypeOK'
    BY <1>1, <2>1, <2>2, <2>3 DEF Request, NextNumber, TypeInv, UasTypeOK
  <2>5. QED
    BY <1>1, <2>4 DEF Request, TypeInv, TcpTypeOK, HandlerIsFirst
<1>2. CASE Send(t)
  <2>1. UasTypeOK'
    <3>1. CASE Return(t)
      BY <1>2, <3>1, ReturnKeepsTypes DEF Send, TypeInv
    <3>2. CASE pc' = [pc EXCEPT ![t] = "waiting"] /\ UNCHANGED <<result, slots>>
      BY <1>2, <3>2 DEF Send, TypeInv, UasTypeOK
    <3>3. QED
      BY <1>2, <3>1, <3>2 DEF Send
  <2>2. [op |-> "send", msg |-> number[t]] \in Handlers
    BY HandlerFacts DEF TypeInv, UasTypeOK
  <2>3. CASE ready' = Append(ready, [op |-> "send", msg |-> number[t]])
    <3>1. ready' \in Seq(Handlers)
      BY <2>2, <2>3, AppendFacts DEF TypeInv, TcpTypeOK
    <3>2. HandlerIsFirst'
      BY <1>2, <2>2, <2>3, FrontStays DEF Send
    <3>3. QED
      BY <1>2, <2>1, <3>1, <3>2 DEF Send, TypeInv, TcpTypeOK
  <2>4. CASE ready' = ready
    BY <1>2, <2>1, <2>4 DEF Send, TypeInv, TcpTypeOK, HandlerIsFirst
  <2>5. QED
    BY <1>2, <2>3, <2>4 DEF Send
<1>3. CASE Answered(t) \/ TimedOut(t)
  <2>1. UasTypeOK'
    BY <1>3, ReturnKeepsTypes DEF Answered, TimedOut, TypeInv
  <2>2. QED
    BY <1>3, <2>1 DEF Answered, TimedOut, TypeInv, TcpTypeOK, HandlerIsFirst
<1>4. QED
  BY <1>1, <1>2, <1>3 DEF ThreadStep

\* The io thread's steps into the layer above, the heartbeat's and shutDown's.
UpperSteps ==
  \/ HandleResp \/ OnConnect \/ OnClose \/ BeatDue \/ Beat
  \/ StopRequests \/ PostClose \/ Joined \/ StartUp

LEMMA UpperKeepsTypes == ASSUME TypeInv, UpperSteps PROVE TypeInv'
<1> USE DEF stateVars, frameVars, sockVars, tcpVars
<1>1. CASE HandleResp
  <2>1. ready # <<>> /\ Head(ready).msg \in Numbers
    BY <1>1, TailFacts, HandlerFacts DEF HandleResp, TypeInv, TcpTypeOK, HandlerIsFirst
  <2>2. [seq |-> header, body |-> Head(ready).msg] \in Packets
    BY <2>1 DEF Packets, Numbers, TypeInv, TcpTypeOK
  <2>3. slots' \in [DOMAIN slots' -> Packets] /\ receiveSeqNumber' \in Numbers
    BY <1>1, <2>2 DEF HandleResp, Store, TypeInv, TcpTypeOK, UasTypeOK
  <2>4. UasTypeOK'
    BY <1>1, <2>3 DEF HandleResp, TypeInv, UasTypeOK
  <2>5. ready' \in Seq(Handlers)
    BY <1>1, <2>1, HandlerEnds DEF HandleResp, PacketReceived, ReadAgain
  <2>6. QED
    BY <1>1, <2>4, <2>5, TcpAssumption
       DEF HandleResp, PacketReceived, TypeInv, TcpTypeOK, HandlerIsFirst, Numbers
<1>2. CASE OnConnect
  <2>1. ready' \in Seq(Handlers)
    BY <1>2, HandlerEnds DEF OnConnect, Opened, TypeInv, HandlerIsFirst
  <2>2. UasTypeOK'
    BY <1>2 DEF OnConnect, TypeInv, UasTypeOK
  <2>3. QED
    BY <1>2, <2>1, <2>2 DEF OnConnect, Opened, TypeInv, TcpTypeOK, HandlerIsFirst
<1>3. CASE OnClose
  <2>1. UasTypeOK'
    BY <1>3 DEF OnClose, TypeInv, UasTypeOK
  <2>2. CASE ReconnectLater
    <3>1. ready' \in Seq(Handlers)
      BY <2>2, HandlerEnds DEF ReconnectLater, TypeInv, HandlerIsFirst
    <3>2. QED
      BY <2>1, <2>2, <3>1 DEF ReconnectLater, TypeInv, TcpTypeOK, HandlerIsFirst
  <2>3. CASE TimerConnects
    BY <2>1, <2>3, TcpAssumption
       DEF TimerConnects, OpenSocket, TypeInv, TcpTypeOK, HandlerIsFirst, Numbers
  <2>4. QED
    BY <1>3, <2>2, <2>3 DEF OnClose
<1>4. CASE Beat
  <2>1. [op |-> "send", msg |-> 0] \in Handlers
    BY HandlerFacts, TcpAssumption DEF Numbers
  <2>2. CASE ready' = Append(ready, [op |-> "send", msg |-> 0])
    <3>1. ready' \in Seq(Handlers)
      BY <2>1, <2>2, AppendFacts DEF TypeInv, TcpTypeOK
    <3>2. HandlerIsFirst'
      BY <1>4, <2>1, <2>2, FrontStays DEF Beat
    <3>3. QED
      BY <1>4, <3>1, <3>2 DEF Beat, TypeInv, TcpTypeOK, UasTypeOK
  <2>3. CASE ready' = ready
    BY <1>4, <2>3 DEF Beat, TypeInv, TcpTypeOK, UasTypeOK, HandlerIsFirst
  <2>4. QED
    BY <1>4, <2>2, <2>3 DEF Beat
<1>5. CASE PostClose
  <2>1. [op |-> "close"] \in Handlers
    BY HandlerFacts
  <2>2. ready' \in Seq(Handlers)
    BY <1>5, <2>1, AppendFacts DEF PostClose, TypeInv, TcpTypeOK
  <2>3. HandlerIsFirst'
    <3>1. CASE ready' = ready
      BY <1>5, <3>1 DEF PostClose, TypeInv, HandlerIsFirst
    <3>2. CASE ready' = Append(ready, [op |-> "close"])
      BY <1>5, <2>1, <3>2, FrontStays DEF PostClose
    <3>3. QED
      BY <1>5, <3>1, <3>2 DEF PostClose
  <2>4. QED
    BY <1>5, <2>2, <2>3 DEF PostClose, TypeInv, TcpTypeOK, UasTypeOK
<1>6. CASE BeatDue \/ StopRequests
  BY <1>6 DEF BeatDue, StopRequests, TypeInv, TcpTypeOK, UasTypeOK, HandlerIsFirst
<1>7. CASE Joined
  BY <1>7 DEF Joined, TypeInv, TcpTypeOK, UasTypeOK, HandlerIsFirst
<1>8. CASE StartUp
  BY <1>8 DEF StartUp, Started, NotStarted, TypeInv, TcpTypeOK, UasTypeOK, HandlerIsFirst
<1>9. QED
  BY <1>1, <1>2, <1>3, <1>4, <1>5, <1>6, <1>7, <1>8 DEF UpperSteps

LEMMA NextIsAStep ==
  ASSUME [Next]_vars
  PROVE  \/ Network /\ UNCHANGED uasVars
         \/ LowerSteps /\ UNCHANGED uasVars
         \/ \E t \in Threads : ThreadStep(t)
         \/ UpperSteps
         \/ UNCHANGED vars
  BY DEF Next, Lower, LowerSteps, ThreadStep, UpperSteps
-----------------------------------------------------------------------------
(***************************************************************************)
(* What a step does to the handlers that the order of writes depends on.   *)
(***************************************************************************)

Carried(h) == h.op = "written" \/ IsSend(h)

\* No such handler is added, and those that stay keep their order.
NothingNew ==
  \E k \in {0, 1} : \A i \in DOMAIN ready' :
    Carried(ready'[i]) => i + k \in DOMAIN ready /\ ready'[i] = ready[i + k]

LEMMA OthersAdded ==
  ASSUME TypeInv, NEW h \in Handlers, ~Carried(h), ready' = Append(ready, h)
  PROVE  NothingNew
<1>1. \A i \in DOMAIN ready' : Carried(ready'[i]) => i + 0 \in DOMAIN ready /\ ready'[i] = ready[i + 0]
  BY AppendFacts DEF TypeInv, TcpTypeOK
<1>2. QED
  BY <1>1 DEF NothingNew

LEMMA FirstTakenOff ==
  ASSUME TypeInv, ready # <<>>, Done(<<>>) \/ Done(<<[op |-> "read"]>>)
  PROVE  /\ NothingNew
         /\ \A i \in DOMAIN ready' : Carried(ready'[i]) =>
              i + 1 \in DOMAIN ready /\ ready'[i] = ready[i + 1]
<1>1. \A i \in DOMAIN ready' : Carried(ready'[i]) => i + 1 \in DOMAIN ready /\ ready'[i] = ready[i + 1]
  <2>1. CASE Done(<<>>)
    <3>1. Tail(ready) \in Seq(Handlers) /\ ready' = Tail(ready)
      BY <2>1, TailFacts DEF Done, TypeInv, TcpTypeOK
    <3>2. QED
      BY <3>1, TailFacts DEF TypeInv, TcpTypeOK
  <2>2. CASE Done(<<[op |-> "read"]>>)
    <3>1. [op |-> "read"] \in Handlers /\ ~Carried([op |-> "read"])
      BY HandlerFacts DEF Carried, IsSend
    <3>2. ready' = Tail(ready) \o <<[op |-> "read"]>>
      BY <2>2 DEF Done
    <3>3. QED
      BY <3>1, <3>2, RestFacts DEF TypeInv, TcpTypeOK
  <2>3. QED
    BY <2>1, <2>2
<1>2. QED
  BY <1>1 DEF NothingNew

LEMMA ReadyUnchanged == ASSUME TypeInv, ready' = ready PROVE NothingNew
<1>1. DOMAIN ready = 1 .. Len(ready) /\ Len(ready) \in Nat
  BY DEF TypeInv, TcpTypeOK
<1>2. \A i \in DOMAIN ready' : i + 0 \in DOMAIN ready /\ ready'[i] = ready[i + 0]
  BY <1>1
<1>3. QED
  BY <1>2 DEF NothingNew

LEMMA NothingNewByNetwork ==
  ASSUME TypeInv, ConnectDone \/ Drop \/ ReadDone
  PROVE  NothingNew
<1>1. CASE ConnectDone
  <2>1. PICK h \in Handlers : ready' = Append(ready, h) /\ h.op \in {"connected", "connectFailed"}
    BY <1>1, HandlerFacts DEF ConnectDone
  <2>2. ~Carried(h)
    BY <2>1 DEF Carried, IsSend
  <2>3. QED
    BY <2>1, <2>2, OthersAdded
<1>2. CASE Drop
  BY <1>2, ReadyUnchanged DEF Drop
<1>3. CASE ReadDone
  <2>1. \A msg \in wire : msg \in Numbers
    BY DEF TypeInv, TcpTypeOK
  <2>2. PICK h \in Handlers : ready' = Append(ready, h) /\ h.op \in {"header", "body", "readFailed"}
    <3>1. stream \in Numbers
      BY DEF TypeInv, TcpTypeOK
    <3>2. \/ \E msg \in Numbers : ready' = Append(ready, [op |-> "header", msg |-> msg])
          \/ ready' = Append(ready, [op |-> "body", msg |-> stream])
          \/ ready' = Append(ready, [op |-> "readFailed"])
      BY <1>3, <2>1 DEF ReadDone
    <3>3. QED
      BY <3>1, <3>2, HandlerFacts
  <2>3. ~Carried(h)
    BY <2>2 DEF Carried, IsSend
  <2>4. QED
    BY <2>2, <2>3, OthersAdded
<1>4. QED
  BY <1>1, <1>2, <1>3

LEMMA NothingNewByLower == ASSUME TypeInv, LowerSteps PROVE NothingNew
<1>1. CASE RunSend \/ RunWritten \/ RunRead \/ RunPart
  BY <1>1, FirstTakenOff DEF RunSend, RunWritten, RunRead, RunPart, ReadAgain, Is
<1>2. CASE TimerFires \/ RunConnected \/ RunFailed \/ RunPacket
  BY <1>2, ReadyUnchanged DEF TimerFires, RunConnected, RunFailed, RunPacket
<1>3. CASE RunClose
  BY <1>3 DEF RunClose, NothingNew
<1>4. QED
  BY <1>1, <1>2, <1>3 DEF LowerSteps

LEMMA NothingNewByUpper == ASSUME TypeInv, UpperSteps PROVE NothingNew
<1>1. CASE HandleResp \/ OnConnect \/ ReconnectLater
  BY <1>1, FirstTakenOff
     DEF HandleResp, PacketReceived, OnConnect, Opened, ReconnectLater, ReadAgain,
         TypeInv, HandlerIsFirst
<1>2. CASE TimerConnects \/ BeatDue \/ StopRequests \/ Joined \/ StartUp
  BY <1>2, ReadyUnchanged
     DEF TimerConnects, BeatDue, StopRequests, Joined, StartUp, Started, NotStarted, tcpVars
<1>3. CASE Beat
  <2>1. [op |-> "send", msg |-> 0] \in Handlers /\ ~Carried([op |-> "send", msg |-> 0])
    BY HandlerFacts, TcpAssumption DEF Numbers, Carried, IsSend
  <2>2. QED
    BY <1>3, <2>1, OthersAdded, ReadyUnchanged DEF Beat
<1>4. CASE PostClose
  <2>1. [op |-> "close"] \in Handlers /\ ~Carried([op |-> "close"])
    BY HandlerFacts DEF Carried, IsSend
  <2>2. QED
    BY <1>4, <2>1, OthersAdded, ReadyUnchanged DEF PostClose
<1>5. QED
  BY <1>1, <1>2, <1>3, <1>4 DEF UpperSteps, OnClose
-----------------------------------------------------------------------------
(***************************************************************************)
(* Writes.                                                                 *)
(***************************************************************************)

QueueUntouched == sendQueue' = sendQueue /\ writes' \in {0, writes} /\ written' = written

LEMMA ReadyPlaces == TypeInv => DOMAIN ready = 1 .. Len(ready) /\ Len(ready) \in Nat
  BY DEF TypeInv, TcpTypeOK

LEMMA WrittenStaySingle ==
  ASSUME TypeInv, TypeInv', WriteInv, NothingNew
  PROVE  /\ ReadyHas("written")' => ReadyHas("written")
         /\ \A i, j \in DOMAIN ready' :
              ready'[i].op = "written" /\ ready'[j].op = "written" => i = j
<1>1. PICK k \in {0, 1} : \A i \in DOMAIN ready' :
        Carried(ready'[i]) => i + k \in DOMAIN ready /\ ready'[i] = ready[i + k]
  BY DEF NothingNew
<1>2. \A i \in DOMAIN ready' :
        ready'[i].op = "written" => i + k \in DOMAIN ready /\ ready[i + k].op = "written"
  BY <1>1 DEF Carried
<1>3. ReadyHas("written")' => ReadyHas("written")
  BY <1>2 DEF ReadyHas
<1>4. ASSUME NEW i \in DOMAIN ready', NEW j \in DOMAIN ready',
             ready'[i].op = "written", ready'[j].op = "written"
      PROVE  i = j
  <2>1. DOMAIN ready' = 1 .. Len(ready') /\ Len(ready') \in Nat
    BY DEF TypeInv, TcpTypeOK
  <2>2. i + k = j + k
    BY <1>2, <1>4 DEF WriteInv
  <2>3. QED
    BY <1>1, <2>1, <2>2
<1>5. QED
  BY <1>3, <1>4

LEMMA WriteInvKept ==
  ASSUME TypeInv, TypeInv', WriteInv, NothingNew, QueueUntouched
  PROVE  WriteInv'
  BY WrittenStaySingle DEF WriteInv, QueueUntouched

LEMMA WriteDoneKeeps == ASSUME TypeInv, WriteInv, WriteDone PROVE WriteInv'
<1>1. writes = 1 /\ writes' = 0 /\ sendQueue' = sendQueue /\ sendQueue # <<>>
  BY DEF WriteDone, WriteInv
<1>2. \A i \in DOMAIN ready : ready[i].op # "written"
  BY <1>1 DEF WriteInv, ReadyHas
<1>3. PICK h \in Handlers : ready' = Append(ready, h)
  BY HandlerFacts DEF WriteDone
<1>4. \A i \in DOMAIN ready' : ready'[i].op = "written" => i = Len(ready) + 1
  BY <1>2, <1>3, AppendFacts DEF TypeInv, TcpTypeOK
<1>5. QED
  BY <1>1, <1>4 DEF WriteInv

LEMMA RunSendKeepsWrites == ASSUME TypeInv, TypeInv', WriteInv, RunSend PROVE WriteInv'
<1>1. NothingNew
  BY NothingNewByLower DEF LowerSteps
<1>2. Head(ready).msg \in Numbers /\ sendQueue' = Append(sendQueue, Head(ready).msg)
  BY TailFacts, HandlerFacts DEF RunSend, Enqueue, Is, TypeInv, TcpTypeOK
<1>3. sendQueue' # <<>>
  BY <1>2 DEF TypeInv, TcpTypeOK
<1>4. CASE sendQueue = <<>>
  <2>1. writes = 0 /\ writes' = 1 /\ ~ReadyHas("written")
    BY <1>4 DEF WriteInv, RunSend, Enqueue
  <2>2. \A i \in DOMAIN ready' : ready'[i].op # "written"
    BY <1>1, <2>1 DEF NothingNew, Carried, ReadyHas
  <2>3. QED
    BY <1>3, <2>1, <2>2 DEF WriteInv, ReadyHas
<1>5. CASE sendQueue # <<>>
  <2>1. writes' = writes
    BY <1>5 DEF RunSend, Enqueue
  <2>2. QED
    BY <1>1, <1>3, <1>5, <2>1, WrittenStaySingle DEF WriteInv
<1>6. QED
  BY <1>4, <1>5

\* The handler that takes a message off is the only one, and it is gone.
LEMMA RunWrittenKeeps == ASSUME TypeInv, TypeInv', WriteInv, RunWritten PROVE WriteInv'
<1>1. ready # <<>> /\ ready[1].op = "written" /\ 1 \in DOMAIN ready
  BY TailFacts DEF RunWritten, Is, TypeInv, TcpTypeOK
<1>2. writes = 0 /\ sendQueue # <<>>
  BY <1>1 DEF WriteInv, ReadyHas
<1>3. \A i \in DOMAIN ready' : ready'[i].op # "written"
  <2>1. ASSUME NEW i \in DOMAIN ready', ready'[i].op = "written" PROVE FALSE
    <3>1. i + 1 \in DOMAIN ready /\ ready[i + 1].op = "written"
      BY <1>1, <2>1, FirstTakenOff DEF RunWritten, Carried
    <3>2. i + 1 = 1
      BY <1>1, <3>1 DEF WriteInv
    <3>3. i \in Int /\ i > 0
      <4>1. DOMAIN ready' = 1 .. Len(ready') /\ Len(ready') \in Nat
        BY DEF TypeInv, TcpTypeOK
      <4>2. QED
        BY <4>1
    <3>4. QED
      BY <3>2, <3>3
  <2>2. QED
    BY <2>1
<1>4. writes' \in {0, 1} /\ (writes' = 1 => sendQueue' # <<>>)
  BY <1>2 DEF RunWritten, NextWrite
<1>5. QED
  BY <1>3, <1>4 DEF WriteInv, ReadyHas
-----------------------------------------------------------------------------
(***************************************************************************)
(* The order of requests.                                                  *)
(***************************************************************************)

SendsKept ==
  \E k \in {0, 1} : \A i \in DOMAIN ready' :
    IsSend(ready'[i]) => i + k \in DOMAIN ready /\ ready'[i] = ready[i + k]

LEMMA NothingNewKeepsSends == NothingNew => SendsKept
  BY DEF NothingNew, SendsKept, Carried

LEMMA Places ==
  ASSUME TypeInv
  PROVE  /\ DOMAIN ready = 1 .. Len(ready) /\ Len(ready) \in Nat
         /\ DOMAIN sendQueue = 1 .. Len(sendQueue) /\ Len(sendQueue) \in Nat
         /\ DOMAIN written = 1 .. Len(written) /\ Len(written) \in Nat
         /\ \A i \in DOMAIN sendQueue : sendQueue[i] \in Nat
         /\ \A i \in DOMAIN written : written[i] \in Nat
         /\ \A i \in DOMAIN ready : IsSend(ready[i]) => ready[i].msg \in Nat
<1>1. \A n \in Numbers : n \in Nat
  BY TcpAssumption DEF Numbers
<1>2. \A i \in DOMAIN ready : ready[i] \in Handlers
  BY DEF TypeInv, TcpTypeOK
<1>3. QED
  BY <1>1, <1>2, HandlerFacts DEF TypeInv, TcpTypeOK, IsSend

\* The order of what is still to be sent.
SendsAscend ==
  \A i, j \in DOMAIN ready :
    i < j /\ IsSend(ready[i]) /\ IsSend(ready[j]) => ready[i].msg < ready[j].msg

LEMMA SendsAscendKept ==
  ASSUME TypeInv, TypeInv', SendsAscend, SendsKept
  PROVE  SendsAscend'
<1>1. PICK k \in {0, 1} : \A i \in DOMAIN ready' :
        IsSend(ready'[i]) => i + k \in DOMAIN ready /\ ready'[i] = ready[i + k]
  BY DEF SendsKept
<1>2. SUFFICES ASSUME NEW i \in DOMAIN ready', NEW j \in DOMAIN ready',
                      i < j, IsSend(ready'[i]), IsSend(ready'[j])
               PROVE  ready'[i].msg < ready'[j].msg
  BY DEF SendsAscend
<1>3. i \in Int /\ j \in Int
  BY Places DEF TypeInv, TcpTypeOK
<1>4. i + k < j + k
  BY <1>1, <1>2, <1>3
<1>5. QED
  BY <1>1, <1>2, <1>4 DEF SendsAscend

LEMMA OrderKept ==
  ASSUME TypeInv, TypeInv', OrderInv, SendsKept, QueueUntouched
  PROVE  OrderInv'
<1>1. SendsAscend'
  BY SendsAscendKept DEF OrderInv, SendsAscend
<1>2. \A i \in DOMAIN ready' :
        IsSend(ready'[i]) =>
          /\ \A l \in DOMAIN written : written[l] < ready'[i].msg
          /\ \A l \in DOMAIN sendQueue : sendQueue[l] < ready'[i].msg
  BY DEF OrderInv, SendsKept
<1>3. WrittenInOrder' /\ Increasing(sendQueue)'
  BY DEF OrderInv, QueueUntouched, WrittenInOrder, Increasing
<1>4. \A i \in DOMAIN written', j \in DOMAIN sendQueue' :
        sendQueue'[j] # 0 /\ (j > 1 \/ writes' = 1) => written'[i] < sendQueue'[j]
  BY DEF OrderInv, QueueUntouched
<1>5. QED
  BY <1>1, <1>2, <1>3, <1>4 DEF OrderInv, QueueUntouched, SendsAscend

LEMMA WriteDoneSends == ASSUME TypeInv, WriteDone PROVE SendsKept
<1>1. PICK h \in Handlers : ready' = Append(ready, h) /\ h.op # "send"
  BY HandlerFacts DEF WriteDone
<1>2. \A i \in DOMAIN ready' : IsSend(ready'[i]) => i + 0 \in DOMAIN ready /\ ready'[i] = ready[i + 0]
  BY <1>1, AppendFacts DEF TypeInv, TcpTypeOK, IsSend
<1>3. QED
  BY <1>2 DEF SendsKept

\* Written is the first of the queue: it is larger than what was written before and
\* smaller than the others.
LEMMA WriteDoneKeepsOrder ==
  ASSUME TypeInv, TypeInv', WriteInv, OrderInv, WriteDone
  PROVE  OrderInv'
<1>1. writes = 1 /\ writes' = 0 /\ sendQueue' = sendQueue /\ sendQueue # <<>>
  BY DEF WriteDone, WriteInv
<1>2. SendsKept
  BY WriteDoneSends
<1>3. CASE written' = written
  BY <1>1, <1>2, <1>3, OrderKept DEF QueueUntouched
<1>4. CASE written' = Append(written, sendQueue[1]) /\ sendQueue[1] # 0
  <2>1. 1 \in DOMAIN sendQueue /\ sendQueue[1] \in Numbers
    BY <1>1, TailFacts DEF TypeInv, TcpTypeOK
  <2>2. \A i \in DOMAIN written' :
          \/ i \in DOMAIN written /\ written'[i] = written[i]
          \/ i = Len(written) + 1 /\ written'[i] = sendQueue[1]
    BY <1>4, <2>1, AppendFacts DEF TypeInv, TcpTypeOK
  <2>3. \A i \in DOMAIN written : written[i] < sendQueue[1]
    BY <1>1, <1>4, <2>1 DEF OrderInv
  <2>4. WrittenInOrder'
    <3>1. DOMAIN written = 1 .. Len(written) /\ Len(written) \in Nat
      BY Places
    <3>2. DOMAIN written' = 1 .. Len(written) + 1
      BY <1>4, <2>1, AppendFacts DEF TypeInv, TcpTypeOK
    <3>3. QED
      BY <2>2, <2>3, <3>1, <3>2 DEF WrittenInOrder, OrderInv
  <2>5. \A j \in DOMAIN sendQueue : j > 1 /\ sendQueue[j] # 0 => sendQueue[1] < sendQueue[j]
    BY <1>4, <2>1 DEF OrderInv, Increasing
  <2>6. SendsAscend'
    BY <1>2, SendsAscendKept DEF OrderInv, SendsAscend
  <2>7. \A j \in DOMAIN ready' :
          IsSend(ready'[j]) =>
            /\ \A i \in DOMAIN written : written[i] < ready'[j].msg
            /\ \A i \in DOMAIN sendQueue : sendQueue[i] < ready'[j].msg
    BY <1>2 DEF SendsKept, OrderInv
  <2>8. \A j \in DOMAIN ready' :
          IsSend(ready'[j]) => \A i \in DOMAIN written' : written'[i] < ready'[j].msg
    BY <2>1, <2>2, <2>7
  <2>9. \A i \in DOMAIN written', j \in DOMAIN sendQueue :
          sendQueue[j] # 0 /\ j > 1 => written'[i] < sendQueue[j]
    BY <2>2, <2>5 DEF OrderInv
  <2>10. QED
    BY <1>1, <2>4, <2>6, <2>7, <2>8, <2>9 DEF OrderInv, SendsAscend, Increasing
<1>5. sendQueue[1] = Head(sendQueue)
  BY <1>1, TailFacts DEF TypeInv, TcpTypeOK
<1>6. QED
  BY <1>3, <1>4, <1>5 DEF WriteDone

LEMMA RunSendKeepsOrder ==
  ASSUME TypeInv, TypeInv', WriteInv, OrderInv, RunSend
  PROVE  OrderInv'
<1> DEFINE m == ready[1].msg
<1>1. ready # <<>> /\ 1 \in DOMAIN ready /\ Head(ready) = ready[1] /\ ready[1].op = "send"
      /\ m \in Numbers /\ m \in Nat
  BY TailFacts, HandlerFacts, TcpAssumption DEF RunSend, Is, TypeInv, TcpTypeOK, Numbers
<1>2. sendQueue' = Append(sendQueue, m) /\ written' = written
  BY <1>1 DEF RunSend, Enqueue
<1>3. \A i \in DOMAIN ready' : IsSend(ready'[i]) => i + 1 \in DOMAIN ready /\ ready'[i] = ready[i + 1]
  BY <1>1, FirstTakenOff DEF RunSend, Carried
<1>4. SendsKept
  BY <1>3 DEF SendsKept
<1>5. SendsAscend'
  BY <1>4, SendsAscendKept DEF OrderInv, SendsAscend
<1> HIDE DEF m
<1>6. /\ DOMAIN sendQueue = 1 .. Len(sendQueue) /\ Len(sendQueue) \in Nat
      /\ DOMAIN sendQueue' = 1 .. Len(sendQueue) + 1
      /\ sendQueue'[Len(sendQueue) + 1] = m
      /\ \A i \in DOMAIN sendQueue : sendQueue'[i] = sendQueue[i]
  <2>1. PICK S : sendQueue \in Seq(S) /\ m \in S
    BY <1>1 DEF TypeInv, TcpTypeOK
  <2>2. QED
    BY <1>2, <2>1, AppendFacts
<1>7. m # 0 => IsSend(ready[1])
  BY <1>1 DEF IsSend, m
<1>8. m # 0 => /\ \A i \in DOMAIN sendQueue : sendQueue[i] < m
               /\ \A i \in DOMAIN written : written[i] < m
  BY <1>1, <1>7 DEF OrderInv, m
<1>9. Increasing(sendQueue)'
  BY <1>6, <1>8 DEF OrderInv, Increasing
<1>10. \A i \in DOMAIN written, j \in DOMAIN sendQueue' :
         sendQueue'[j] # 0 /\ (j > 1 \/ writes' = 1) => written[i] < sendQueue'[j]
  <2>1. sendQueue # <<>> => writes' = writes
    BY DEF RunSend, Enqueue
  <2>2. \A j \in DOMAIN sendQueue : sendQueue # <<>>
    BY <1>6
  <2>3. QED
    BY <1>6, <1>8, <2>1, <2>2 DEF OrderInv
<1>11. ASSUME NEW j \in DOMAIN ready', IsSend(ready'[j])
       PROVE  /\ \A i \in DOMAIN written : written[i] < ready'[j].msg
              /\ \A i \in DOMAIN sendQueue' : sendQueue'[i] < ready'[j].msg
  <2>1. j + 1 \in DOMAIN ready /\ ready'[j] = ready[j + 1] /\ j \in Nat /\ j > 0
    BY <1>3, <1>11, Places DEF TypeInv, TcpTypeOK
  <2>2. m < ready'[j].msg
    <3>1. CASE m = 0
      <4>1. ready'[j].msg \in Nat /\ ready'[j].msg # 0
        BY <1>11, <2>1, Places DEF IsSend
      <4>2. QED
        BY <3>1, <4>1
    <3>2. CASE m # 0
      BY <1>1, <1>7, <1>11, <2>1, <3>2 DEF OrderInv, m
    <3>3. QED
      BY <3>1, <3>2
  <2>3. QED
    BY <1>6, <1>11, <2>1, <2>2 DEF OrderInv
<1>12. WrittenInOrder'
  BY <1>2 DEF OrderInv, WrittenInOrder
<1>13. QED
  BY <1>2, <1>5, <1>9, <1>10, <1>11, <1>12 DEF OrderInv, SendsAscend

LEMMA RunWrittenKeepsOrder ==
  ASSUME TypeInv, TypeInv', WriteInv, OrderInv, RunWritten
  PROVE  OrderInv'
<1>1. ready # <<>> /\ 1 \in DOMAIN ready /\ ready[1].op = "written"
  BY TailFacts DEF RunWritten, Is, TypeInv, TcpTypeOK
<1>2. sendQueue # <<>>
  BY <1>1 DEF WriteInv, ReadyHas
<1>3. /\ DOMAIN sendQueue = 1 .. Len(sendQueue) /\ Len(sendQueue) \in Nat
      /\ DOMAIN sendQueue' = 1 .. Len(sendQueue) - 1
      /\ \A i \in DOMAIN sendQueue' : i + 1 \in DOMAIN sendQueue /\ sendQueue'[i] = sendQueue[i + 1]
  BY <1>2, TailFacts DEF RunWritten, NextWrite, TypeInv, TcpTypeOK
<1>4. SendsKept
  BY <1>1, FirstTakenOff, NothingNewKeepsSends DEF RunWritten
<1>5. SendsAscend'
  BY <1>4, SendsAscendKept DEF OrderInv, SendsAscend
<1>6. WrittenInOrder' /\ written' = written
  BY DEF RunWritten, OrderInv, WrittenInOrder
<1>7. Increasing(sendQueue)'
  BY <1>3 DEF OrderInv, Increasing
<1>8. \A i \in DOMAIN written, j \in DOMAIN sendQueue' :
        sendQueue'[j] # 0 => written[i] < sendQueue'[j]
  BY <1>3 DEF OrderInv
<1>9. \A j \in DOMAIN ready' :
        IsSend(ready'[j]) =>
          /\ \A i \in DOMAIN written : written[i] < ready'[j].msg
          /\ \A i \in DOMAIN sendQueue : sendQueue[i] < ready'[j].msg
  BY <1>4 DEF SendsKept, OrderInv
<1>10. QED
  BY <1>3, <1>5, <1>6, <1>7, <1>8, <1>9 DEF OrderInv, SendsAscend

\* A request joins the others as the largest.
LEMMA SendKeepsOrder ==
  ASSUME TypeInv, TypeInv', OrderInv, SenderIsLast, NEW t \in Threads, Send(t)
  PROVE  OrderInv'
<1> DEFINE h == [op |-> "send", msg |-> number[t]]
<1>1. sendQueue' = sendQueue /\ writes' = writes /\ written' = written
  BY DEF Send, sockVars
<1>2. CASE ready' = ready
  BY <1>1, <1>2, OrderKept, ReadyUnchanged, NothingNewKeepsSends, 0 \in {0, writes}, writes \in {0, writes}
     DEF QueueUntouched
<1>3. CASE ready' = Append(ready, h)
  <2>1. h \in Handlers /\ h.msg = number[t] /\ number[t] = seqNumber /\ seqNumber \in Nat
    <3>1. number[t] \in Numbers /\ seqNumber \in Numbers
      BY DEF TypeInv, UasTypeOK
    <3>2. QED
      BY <3>1, HandlerFacts, TcpAssumption DEF Send, SenderIsLast, Numbers
  <2> HIDE DEF h
  <2>2. /\ DOMAIN ready = 1 .. Len(ready) /\ Len(ready) \in Nat
        /\ DOMAIN ready' = 1 .. Len(ready) + 1
        /\ ready'[Len(ready) + 1] = h
        /\ \A i \in DOMAIN ready : ready'[i] = ready[i]
    BY <1>3, <2>1, AppendFacts DEF TypeInv, TcpTypeOK
  <2>3. pc[t] = "sending"
    BY DEF Send
  <2>4. IsSend(h) => /\ \A i \in DOMAIN written : written[i] < h.msg
                     /\ \A i \in DOMAIN sendQueue : sendQueue[i] < h.msg
                     /\ \A i \in DOMAIN ready : IsSend(ready[i]) => ready[i].msg < h.msg
    <3>1. \A n \in OnTheWay : n < h.msg
      BY <2>1, <2>3 DEF SenderIsLast
    <3>2. IsSend(h) => 0 < h.msg
      BY <2>1 DEF IsSend
    <3>3. QED
      BY <3>1, <3>2 DEF OnTheWay
  <2>5. SendsAscend'
    BY <2>2, <2>4 DEF SendsAscend, OrderInv
  <2>6. \A j \in DOMAIN ready' :
          IsSend(ready'[j]) =>
            /\ \A i \in DOMAIN written : written[i] < ready'[j].msg
            /\ \A i \in DOMAIN sendQueue : sendQueue[i] < ready'[j].msg
    BY <2>2, <2>4 DEF OrderInv
  <2>7. QED
    BY <1>1, <2>5, <2>6 DEF OrderInv, SendsAscend, WrittenInOrder, Increasing
<1>4. QED
  BY <1>2, <1>3 DEF Send

\* As long as no number is given out or sent, what is on its way becomes no larger.
LEMMA SenderKept ==
  ASSUME SenderIsLast, OnTheWay' \subseteq OnTheWay, seqNumber' = seqNumber, number' = number,
         \A t \in Threads : pc'[t] = "sending" => pc[t] = "sending"
  PROVE  SenderIsLast'
  BY DEF SenderIsLast

LEMMA OnTheWayKept ==
  ASSUME TypeInv, SendsKept, UNCHANGED <<sendQueue, written>>
  PROVE  OnTheWay' \subseteq OnTheWay
<1>1. \A i \in DOMAIN ready' :
        IsSend(ready'[i]) => \E j \in DOMAIN ready : IsSend(ready[j]) /\ ready[j].msg = ready'[i].msg
  BY DEF SendsKept
<1>2. QED
  BY <1>1 DEF OnTheWay

LEMMA OnTheWayMoves ==
  ASSUME TypeInv, TypeInv', WriteInv, WriteDone \/ RunSend \/ RunWritten
  PROVE  OnTheWay' \subseteq OnTheWay
<1>1. CASE WriteDone
  <2>1. SendsKept /\ sendQueue' = sendQueue /\ sendQueue # <<>>
    BY <1>1, WriteDoneSends DEF WriteDone, WriteInv
  <2>2. \A i \in DOMAIN ready' :
          IsSend(ready'[i]) => \E j \in DOMAIN ready : IsSend(ready[j]) /\ ready[j].msg = ready'[i].msg
    BY <2>1 DEF SendsKept
  <2>3. 1 \in DOMAIN sendQueue /\ Head(sendQueue) = sendQueue[1] /\ sendQueue[1] \in Numbers
    BY <2>1, TailFacts DEF TypeInv, TcpTypeOK
  <2>4. written' = written \/ written' = Append(written, sendQueue[1])
    BY <1>1, <2>3 DEF WriteDone
  <2>5. \A i \in DOMAIN written' :
          (i \in DOMAIN written /\ written'[i] = written[i]) \/ written'[i] = sendQueue[1]
    <3>1. CASE written' = written
      BY <3>1
    <3>2. CASE written' = Append(written, sendQueue[1])
      <4>1. written \in Seq(Numbers)
        BY DEF TypeInv, TcpTypeOK
      <4>2. /\ DOMAIN written = 1 .. Len(written) /\ Len(written) \in Nat
            /\ DOMAIN written' = 1 .. Len(written) + 1
            /\ written'[Len(written) + 1] = sendQueue[1]
            /\ \A i \in DOMAIN written : written'[i] = written[i]
        BY <2>3, <3>2, <4>1, AppendFacts
      <4>3. QED
        BY <4>2
    <3>3. QED
      BY <2>4, <3>1, <3>2
  <2>6. QED
    BY <2>1, <2>2, <2>3, <2>5 DEF OnTheWay
<1>2. CASE RunSend
  <2>1. ready # <<>> /\ 1 \in DOMAIN ready /\ Head(ready) = ready[1] /\ ready[1].op = "send"
        /\ ready[1].msg \in Numbers
    BY <1>2, TailFacts, HandlerFacts DEF RunSend, Is, TypeInv, TcpTypeOK
  <2>2. SendsKept /\ written' = written
    BY <1>2, <2>1, FirstTakenOff, NothingNewKeepsSends DEF RunSend
  <2>3. \A i \in DOMAIN ready' :
          IsSend(ready'[i]) => \E j \in DOMAIN ready : IsSend(ready[j]) /\ ready[j].msg = ready'[i].msg
    BY <2>2 DEF SendsKept
  <2>4. \A i \in DOMAIN sendQueue' :
          (i \in DOMAIN sendQueue /\ sendQueue'[i] = sendQueue[i]) \/ sendQueue'[i] = ready[1].msg
    BY <1>2, <2>1, AppendFacts DEF RunSend, Enqueue, TypeInv, TcpTypeOK
  <2>5. ready[1].msg # 0 => IsSend(ready[1])
    BY <2>1 DEF IsSend
  <2>6. QED
    BY <2>1, <2>2, <2>3, <2>4, <2>5 DEF OnTheWay
<1>3. CASE RunWritten
  <2>1. ready # <<>> /\ 1 \in DOMAIN ready /\ ready[1].op = "written"
    BY <1>3, TailFacts DEF RunWritten, Is, TypeInv, TcpTypeOK
  <2>2. sendQueue # <<>>
    BY <2>1 DEF WriteInv, ReadyHas
  <2>3. SendsKept /\ written' = written
    BY <1>3, <2>1, FirstTakenOff, NothingNewKeepsSends DEF RunWritten
  <2>4. \A i \in DOMAIN ready' :
          IsSend(ready'[i]) => \E j \in DOMAIN ready : IsSend(ready[j]) /\ ready[j].msg = ready'[i].msg
    BY <2>3 DEF SendsKept
  <2>5. \A i \in DOMAIN sendQueue' : \E j \in DOMAIN sendQueue : sendQueue'[i] = sendQueue[j]
    BY <1>3, <2>2, TailFacts DEF RunWritten, NextWrite, TypeInv, TcpTypeOK
  <2>6. QED
    BY <2>3, <2>4, <2>5 DEF OnTheWay
<1>4. QED
  BY <1>1, <1>2, <1>3

\* A request that is sent is the largest on its way, and its thread waits from then on.
LEMMA SendKeepsLast ==
  ASSUME TypeInv, TypeInv', SenderIsLast, OneSender, NEW t \in Threads, Send(t)
  PROVE  SenderIsLast'
<1>1. \A u \in Threads : pc'[u] # "sending"
  BY DEF Send, Return, OneSender, TypeInv, UasTypeOK
<1>2. seqNumber' = seqNumber /\ sendQueue' = sendQueue /\ written' = written
  BY DEF Send, sockVars
<1>3. number[t] = seqNumber /\ seqNumber \in Numbers
  BY DEF Send, SenderIsLast, TypeInv, UasTypeOK
<1>4. \A i \in DOMAIN ready' :
        IsSend(ready'[i]) =>
          \/ \E j \in DOMAIN ready : IsSend(ready[j]) /\ ready[j].msg = ready'[i].msg
          \/ ready'[i].msg = seqNumber
  <2>1. [op |-> "send", msg |-> number[t]] \in Handlers
    BY <1>3, HandlerFacts
  <2>2. CASE ready' = Append(ready, [op |-> "send", msg |-> number[t]])
    BY <1>3, <2>1, <2>2, AppendFacts DEF TypeInv, TcpTypeOK
  <2>3. CASE ready' = ready
    BY <2>3
  <2>4. QED
    BY <2>2, <2>3 DEF Send
<1>5. \A n \in OnTheWay' : n \in OnTheWay \/ n = seqNumber
  BY <1>2, <1>4 DEF OnTheWay
<1>6. seqNumber <= seqNumber
  BY <1>3, TcpAssumption DEF Numbers
<1>7. QED
  BY <1>1, <1>2, <1>5, <1>6 DEF SenderIsLast

LEMMA RequestKeepsLast ==
  ASSUME TypeInv, SenderIsLast, NEW t \in Threads, Request(t)
  PROVE  SenderIsLast' /\ OneSender'
<1>1. seqNumber \in Nat /\ seqNumber' = seqNumber + 1
  BY TcpAssumption DEF Request, TypeInv, UasTypeOK, Numbers
<1>2. OnTheWay \subseteq Nat
  BY Places DEF OnTheWay
<1>3. OnTheWay' = OnTheWay
  BY DEF Request, tcpVars, OnTheWay, IsSend
<1>4. \A u \in Threads : pc'[u] = "sending" => u = t
  BY DEF Request, UasMutexFree, TypeInv, UasTypeOK
<1>5. number'[t] = seqNumber'
  BY <1>1 DEF Request, NextNumber, TypeInv, UasTypeOK
<1>6. \A n \in OnTheWay' : n < seqNumber'
  BY <1>1, <1>2, <1>3 DEF SenderIsLast
<1>7. SenderIsLast'
  <2>1. OnTheWay' \subseteq Nat /\ seqNumber' \in Nat
    BY <1>1, <1>2, <1>3
  <2>2. QED
    BY <1>4, <1>5, <1>6, <2>1 DEF SenderIsLast
<1>8. QED
  BY <1>4, <1>7 DEF OneSender

\* All of them together, for the steps that send nothing.
RequestsInv == OrderInv /\ SenderIsLast /\ OneSender

LEMMA OthersKeepRequests ==
  ASSUME TypeInv, TypeInv', RequestsInv, SendsKept, QueueUntouched,
         seqNumber' = seqNumber, number' = number,
         \A t \in Threads : pc'[t] = "sending" => pc[t] = "sending"
  PROVE  RequestsInv'
<1>1. OrderInv'
  BY OrderKept DEF RequestsInv
<1>2. SenderIsLast'
  BY OnTheWayKept, SenderKept DEF RequestsInv, QueueUntouched
<1>3. OneSender'
  BY DEF RequestsInv, OneSender
<1>4. QED
  BY <1>1, <1>2, <1>3 DEF RequestsInv

LEMMA NextKeepsRequests ==
  ASSUME TypeInv, TypeInv', WriteInv, RequestsInv, [Next]_vars
  PROVE  RequestsInv' /\ WriteInv'
<1> USE DEF stateVars, frameVars, sockVars, tcpVars, uasVars
<1>0. writes \in {0, writes}
  OBVIOUS
<1>1. CASE Network /\ UNCHANGED uasVars
  <2>1. CASE WriteDone
    <3>1. SenderIsLast' /\ OneSender'
      BY <1>1, <2>1, OnTheWayMoves, SenderKept DEF RequestsInv, OneSender
    <3>2. QED
      BY <2>1, <3>1, WriteDoneKeeps, WriteDoneKeepsOrder DEF RequestsInv
  <2>2. CASE ConnectDone \/ Drop \/ ReadDone
    <3>1. NothingNew
      BY <2>2, NothingNewByNetwork
    <3>2. QueueUntouched
      BY <1>0, <2>2 DEF ConnectDone, Drop, ReadDone, QueueUntouched
    <3>3. QED
      BY <1>1, <3>1, <3>2, NothingNewKeepsSends, WriteInvKept, OthersKeepRequests
  <2>3. QED
    BY <1>1, <2>1, <2>2 DEF Network
<1>2. CASE LowerSteps /\ UNCHANGED uasVars
  <2>1. CASE RunSend
    <3>1. SenderIsLast' /\ OneSender'
      BY <1>2, <2>1, OnTheWayMoves, SenderKept DEF RequestsInv, OneSender
    <3>2. QED
      BY <2>1, <3>1, RunSendKeepsWrites, RunSendKeepsOrder DEF RequestsInv
  <2>2. CASE RunWritten
    <3>1. SenderIsLast' /\ OneSender'
      BY <1>2, <2>2, OnTheWayMoves, SenderKept DEF RequestsInv, OneSender
    <3>2. QED
      BY <2>2, <3>1, RunWrittenKeeps, RunWrittenKeepsOrder DEF RequestsInv
  <2>3. CASE ~RunSend /\ ~RunWritten
    <3>1. NothingNew
      BY <1>2, NothingNewByLower
    <3>2. QueueUntouched
      BY <1>0, <1>2, <2>3
         DEF LowerSteps, TimerFires, RunConnected, RunFailed, RunRead, RunPart, RunPacket,
             RunClose, QueueUntouched
    <3>3. QED
      BY <1>2, <3>1, <3>2, NothingNewKeepsSends, WriteInvKept, OthersKeepRequests
  <2>4. QED
    BY <2>1, <2>2, <2>3
<1>3. ASSUME NEW t \in Threads, ThreadStep(t)
      PROVE  RequestsInv' /\ WriteInv'
  <2>1. CASE Request(t)
    <3>1. NothingNew /\ QueueUntouched
      BY <1>0, <2>1, ReadyUnchanged DEF Request, QueueUntouched
    <3>2. SenderIsLast' /\ OneSender'
      BY <2>1, RequestKeepsLast DEF RequestsInv
    <3>3. QED
      BY <3>1, <3>2, NothingNewKeepsSends, WriteInvKept, OrderKept DEF RequestsInv
  <2>2. CASE Send(t)
    <3>1. OrderInv' /\ SenderIsLast'
      BY <2>2, SendKeepsOrder, SendKeepsLast DEF RequestsInv
    <3>2. OneSender'
      BY <2>2 DEF Send, Return, RequestsInv, OneSender, TypeInv, UasTypeOK
    <3>3. WriteInv'
      <4>1. [op |-> "send", msg |-> number[t]] \in Handlers
        BY HandlerFacts DEF TypeInv, UasTypeOK
      <4>2. \A i \in DOMAIN ready' :
              ready'[i].op = "written" => i \in DOMAIN ready /\ ready'[i] = ready[i]
        <5>1. CASE ready' = Append(ready, [op |-> "send", msg |-> number[t]])
          BY <4>1, <5>1, AppendFacts DEF TypeInv, TcpTypeOK
        <5>2. CASE ready' = ready
          BY <5>2
        <5>3. QED
          BY <2>2, <5>1, <5>2 DEF Send
      <4>3. QED
        BY <2>2, <4>2 DEF Send, WriteInv, ReadyHas
    <3>4. QED
      BY <3>1, <3>2, <3>3 DEF RequestsInv
  <2>3. CASE Answered(t) \/ TimedOut(t)
    <3>1. NothingNew /\ QueueUntouched
      BY <1>0, <2>3, ReadyUnchanged DEF Answered, TimedOut, QueueUntouched
    <3>2. \A u \in Threads : pc'[u] = "sending" => pc[u] = "sending"
      BY <2>3 DEF Answered, TimedOut, Return, TypeInv, UasTypeOK
    <3>3. number' = number /\ seqNumber' = seqNumber
      BY <2>3 DEF Answered, TimedOut
    <3>4. QED
      BY <3>1, <3>2, <3>3, NothingNewKeepsSends, WriteInvKept, OthersKeepRequests
  <2>4. QED
    BY <1>3, <2>1, <2>2, <2>3 DEF ThreadStep
<1>4. CASE UpperSteps
  <2>1. NothingNew
    BY <1>4, NothingNewByUpper
  <2>2. QueueUntouched
    BY <1>0, <1>4
       DEF UpperSteps, HandleResp, PacketReceived, OnConnect, Opened, OnClose, ReconnectLater,
           TimerConnects, OpenSocket, BeatDue, Beat, StopRequests, PostClose, Joined, StartUp,
           Started, NotStarted, stateVars, frameVars, sockVars, QueueUntouched
  <2>3. number' = number /\ seqNumber' = seqNumber /\ pc' = pc
    BY <1>4 DEF UpperSteps, HandleResp, OnConnect, OnClose, BeatDue, Beat, StopRequests,
                PostClose, Joined, StartUp
  <2>4. QED
    BY <2>1, <2>2, <2>3, NothingNewKeepsSends, WriteInvKept, OthersKeepRequests
<1>5. CASE UNCHANGED vars
  <2>1. NothingNew /\ QueueUntouched
    BY <1>0, <1>5, ReadyUnchanged DEF QueueUntouched, vars
  <2>2. number' = number /\ seqNumber' = seqNumber /\ pc' = pc
    BY <1>5 DEF vars
  <2>3. QED
    BY <2>1, <2>2, NothingNewKeepsSends, WriteInvKept, OthersKeepRequests
<1>6. QED
  BY <1>1, <1>2, <1>3, <1>4, <1>5, NextIsAStep
-----------------------------------------------------------------------------
(***************************************************************************)
(* The slots for answers.                                                  *)
(***************************************************************************)

LEMMA RequestKeepsSlots ==
  ASSUME TypeInv, SlotInv, NEW t \in Threads, Request(t)
  PROVE  SlotInv'
<1>1. seqNumber \in Nat /\ seqNumber' = seqNumber + 1 /\ NextNumber = seqNumber + 1
      /\ \A u \in Threads : number[u] \in Nat
  BY TcpAssumption DEF Request, NextNumber, TypeInv, UasTypeOK, Numbers
<1>2. /\ number'[t] = NextNumber /\ \A u \in Threads \ {t} : number'[u] = number[u]
      /\ pc'[t] = "sending" /\ \A u \in Threads \ {t} : pc'[u] = pc[u]
      /\ pc[t] = "idle" /\ result' = result
  BY DEF Request, TypeInv, UasTypeOK
<1>3. /\ DOMAIN slots' = DOMAIN slots \cup {NextNumber}
      /\ \A n \in DOMAIN slots' : slots'[n] = slots[n] \/ slots'[n] = Nothing
      /\ \A n \in DOMAIN slots : slots'[n] = slots[n]
  BY DEF Request
<1>4. SlotsHaveWaiters'
  BY <1>2, <1>3 DEF SlotInv, SlotsHaveWaiters
<1>5. AnswerIsForRequest'
  BY <1>2 DEF SlotInv, AnswerIsForRequest
<1>6. \A n \in DOMAIN slots' : slots'[n].seq \in {0, n}
  <2>1. \A n \in DOMAIN slots' \ DOMAIN slots : slots'[n] = Nothing
    BY <1>3 DEF Request
  <2>2. QED
    BY <1>3, <2>1 DEF SlotInv, Nothing
<1>7. \A u \in Threads : number'[u] <= seqNumber'
  BY <1>1, <1>2 DEF SlotInv
<1>8. \A u, v \in Threads :
        pc'[u] # "idle" /\ pc'[v] # "idle" /\ number'[u] = number'[v] => u = v
  <2>1. \A u \in Threads \ {t} : number'[u] # NextNumber
    BY <1>1, <1>2 DEF SlotInv
  <2>2. QED
    BY <1>2, <2>1 DEF SlotInv
<1>9. QED
  BY <1>4, <1>5, <1>6, <1>7, <1>8 DEF SlotInv

LEMMA ReturnKeepsSlots ==
  ASSUME TypeInv, SlotInv, NEW t \in Threads, pc[t] # "idle", Return(t),
         UNCHANGED <<number, seqNumber>>
  PROVE  SlotInv'
<1>1. number[t] \in DOMAIN slots
  BY OwnSlot DEF SlotInv
<1>2. /\ pc'[t] = "idle" /\ \A u \in Threads \ {t} : pc'[u] = pc[u]
      /\ result'[t] = slots[number[t]] /\ \A u \in Threads \ {t} : result'[u] = result[u]
  BY DEF Return, TypeInv, UasTypeOK
<1>3. /\ DOMAIN slots' = DOMAIN slots \ {number[t]}
      /\ \A n \in DOMAIN slots' : slots'[n] = slots[n]
  <2>1. slots \in [DOMAIN slots -> Packets]
    BY DEF TypeInv, UasTypeOK
  <2>2. /\ Without(slots, number[t]) \in [DOMAIN slots \ {number[t]} -> Packets]
        /\ \A n \in DOMAIN slots \ {number[t]} : Without(slots, number[t])[n] = slots[n]
    BY <2>1 DEF Without, Restrict
  <2>3. QED
    BY <2>2 DEF Return
<1>4. SlotsHaveWaiters'
  BY <1>2, <1>3 DEF SlotInv, SlotsHaveWaiters
<1>5. AnswerIsForRequest'
  BY <1>1, <1>2 DEF SlotInv, AnswerIsForRequest
<1>6. QED
  BY <1>2, <1>3, <1>4, <1>5 DEF SlotInv

\* An answer is stored in the slot of its own number.
LEMMA StoreKeepsSlots ==
  ASSUME TypeInv, SlotInv, NEW p \in Packets, Store(p),
         UNCHANGED <<pc, number, result, seqNumber>>
  PROVE  SlotInv'
<1>1. /\ DOMAIN slots' = DOMAIN slots
      /\ \A n \in DOMAIN slots : slots'[n] = slots[n] \/ (n = p.seq /\ slots'[n] = p)
  BY DEF Store, TypeInv, UasTypeOK
<1>2. \A n \in DOMAIN slots' : slots'[n].seq \in {0, n}
  BY <1>1 DEF SlotInv
<1>3. QED
  BY <1>1, <1>2 DEF SlotInv, SlotsHaveWaiters, AnswerIsForRequest

LEMMA NextKeepsSlots == ASSUME TypeInv, SlotInv, [Next]_vars PROVE SlotInv'
<1>1. CASE UNCHANGED <<pc, number, result, seqNumber, slots>>
  BY <1>1 DEF SlotInv, SlotsHaveWaiters, AnswerIsForRequest
<1>2. CASE ((Network \/ LowerSteps) /\ UNCHANGED uasVars) \/ UNCHANGED vars
  BY <1>1, <1>2 DEF vars, uasVars
<1>3. ASSUME NEW t \in Threads, ThreadStep(t) PROVE SlotInv'
  <2>1. CASE Request(t)
    BY <2>1, RequestKeepsSlots
  <2>2. CASE Send(t)
    <3>1. CASE Return(t)
      BY <2>2, <3>1, ReturnKeepsSlots DEF Send
    <3>2. CASE pc' = [pc EXCEPT ![t] = "waiting"] /\ UNCHANGED <<result, slots>>
      <4>1. number' = number /\ seqNumber' = seqNumber /\ pc[t] = "sending"
        BY <2>2 DEF Send
      <4>2. \A u \in Threads : pc'[u] # "idle" <=> pc[u] # "idle"
        BY <3>2, <4>1 DEF TypeInv, UasTypeOK
      <4>3. QED
        BY <3>2, <4>1, <4>2 DEF SlotInv, SlotsHaveWaiters, AnswerIsForRequest
    <3>3. QED
      BY <2>2, <3>1, <3>2 DEF Send
  <2>3. CASE Answered(t) \/ TimedOut(t)
    BY <2>3, ReturnKeepsSlots DEF Answered, TimedOut
  <2>4. QED
    BY <1>3, <2>1, <2>2, <2>3 DEF ThreadStep
<1>4. CASE UpperSteps
  <2>1. CASE HandleResp
    <3>1. [seq |-> header, body |-> Head(ready).msg] \in Packets
      BY <2>1, TailFacts, HandlerFacts
         DEF HandleResp, Packets, Numbers, TypeInv, TcpTypeOK, HandlerIsFirst
    <3>2. QED
      BY <1>1, <2>1, <3>1, StoreKeepsSlots DEF HandleResp
  <2>2. CASE ~HandleResp
    BY <1>1, <1>4, <2>2
       DEF UpperSteps, OnConnect, OnClose, BeatDue, Beat, StopRequests, PostClose, Joined, StartUp
  <2>3. QED
    BY <2>1, <2>2
<1>5. QED
  BY <1>2, <1>3, <1>4, NextIsAStep
-----------------------------------------------------------------------------
(***************************************************************************)
(* The watch over the connection.                                          *)
(***************************************************************************)

\* Of the handlers, at most the first k are gone.
Stay(k) == \A i \in DOMAIN ready : i > k => i - k \in DOMAIN ready' /\ ready'[i - k] = ready[i]

LEMMA StayIfAppended ==
  ASSUME TypeInv, (ready' = ready) \/ (\E h \in Handlers : ready' = Append(ready, h))
  PROVE  Stay(0)
<1>1. ready \in Seq(Handlers) /\ DOMAIN ready = 1 .. Len(ready) /\ Len(ready) \in Nat
  BY Places DEF TypeInv, TcpTypeOK
<1>2. CASE ready' = ready
  BY <1>1, <1>2 DEF Stay
<1>3. CASE \E h \in Handlers : ready' = Append(ready, h)
  <2>1. PICK h \in Handlers : ready' = Append(ready, h)
    BY <1>3
  <2> DEFINE s == Append(ready, h)
  <2>2. DOMAIN s = 1 .. Len(ready) + 1 /\ \A i \in 1 .. Len(ready) : s[i] = ready[i]
    BY <1>1, AppendFacts
  <2>3. ready' = s
    BY <2>1
  <2> HIDE DEF s
  <2>4. \A i \in DOMAIN ready : i - 0 \in DOMAIN ready' /\ ready'[i - 0] = ready[i]
    BY <1>1, <2>2, <2>3
  <2>5. QED
    BY <2>4 DEF Stay
<1>4. QED
  BY <1>2, <1>3

LEMMA ReadAgainFacts ==
  ASSUME TypeInv, ready # <<>>, Done(<<[op |-> "read"]>>)
  PROVE  /\ DOMAIN ready' = 1 .. Len(ready)
         /\ ready'[Len(ready)] = [op |-> "read"] /\ Len(ready) \in Nat \ {0}
         /\ \A i \in 1 .. Len(ready) - 1 : ready'[i] = ready[i + 1]
<1>1. ready \in Seq(Handlers) /\ [op |-> "read"] \in Handlers
  BY HandlerFacts DEF TypeInv, TcpTypeOK
<1> DEFINE s == Tail(ready) \o <<[op |-> "read"]>>
<1>2. /\ DOMAIN s = 1 .. Len(ready)
      /\ s[Len(ready)] = [op |-> "read"] /\ Len(ready) \in Nat \ {0}
      /\ \A i \in 1 .. Len(ready) - 1 : s[i] = ready[i + 1]
  BY <1>1, RestFacts
<1>3. QED
  BY <1>2 DEF Done

LEMMA StayIfDone ==
  ASSUME TypeInv, ready # <<>>, Done(<<>>) \/ Done(<<[op |-> "read"]>>)
  PROVE  Stay(1)
<1>1. ready \in Seq(Handlers) /\ DOMAIN ready = 1 .. Len(ready) /\ Len(ready) \in Nat
  BY Places DEF TypeInv, TcpTypeOK
<1>2. CASE Done(<<>>)
  <2>1. ready' = Tail(ready)
    BY <1>1, <1>2, TailFacts DEF Done
  <2>2. QED
    BY <1>1, <2>1, TailFacts DEF Stay
<1>3. CASE Done(<<[op |-> "read"]>>)
  BY <1>1, <1>3, ReadAgainFacts DEF Stay
<1>4. QED
  BY <1>2, <1>3

LEMMA ReadIsPosted ==
  ASSUME TypeInv, ready # <<>>, Done(<<[op |-> "read"]>>)
  PROVE  ReadyHas("read")'
<1>1. Len(ready) \in DOMAIN ready' /\ ready'[Len(ready)] = [op |-> "read"]
  BY ReadAgainFacts
<1>2. QED
  BY <1>1 DEF ReadyHas

\* What a handler is about stays pending unless that handler is the one that runs.
LEMMA PendingStays ==
  ASSUME TypeInv, NEW op, Pending(op),
         \/ Stay(0) /\ io' = io
         \/ Stay(1) /\ io' = "idle" /\ (io = "idle" => Head(ready).op # op)
  PROVE  Pending(op)'
<1>1. PICK i \in DOMAIN ready : ready[i].op = op /\ (i = 1 => io = "idle")
  BY DEF Pending
<1>2. i \in Nat /\ i > 0 /\ ready # <<>> /\ Head(ready) = ready[1]
  BY <1>1, Places, TailFacts DEF TypeInv, TcpTypeOK
<1>3. CASE Stay(0) /\ io' = io
  <2>1. i - 0 \in DOMAIN ready' /\ ready'[i - 0] = ready[i]
    BY <1>1, <1>2, <1>3 DEF Stay
  <2>2. QED
    BY <1>1, <1>2, <1>3, <2>1 DEF Pending
<1>4. CASE Stay(1) /\ io' = "idle" /\ (io = "idle" => Head(ready).op # op)
  <2>1. i > 1
    BY <1>1, <1>2, <1>4
  <2>2. QED
    BY <1>1, <1>4, <2>1 DEF Pending, Stay
<1>5. QED
  BY <1>3, <1>4

LEMMA PostedStays ==
  ASSUME TypeInv, NEW ops, Posted(ops),
         Stay(0) \/ (Stay(1) /\ Head(ready).op \notin ops)
  PROVE  Posted(ops)'
<1>1. PICK i \in DOMAIN ready : ready[i].op \in ops
  BY DEF Posted
<1>2. i \in Nat /\ i > 0 /\ ready # <<>> /\ Head(ready) = ready[1]
  BY <1>1, Places, TailFacts DEF TypeInv, TcpTypeOK
<1>3. CASE Stay(0)
  <2>1. i - 0 \in DOMAIN ready' /\ ready'[i - 0] = ready[i]
    BY <1>2, <1>3 DEF Stay
  <2>2. QED
    BY <1>1, <2>1 DEF Posted
<1>4. CASE Stay(1) /\ Head(ready).op \notin ops
  <2>1. i > 1
    BY <1>1, <1>2, <1>4
  <2>2. QED
    BY <1>1, <1>4, <2>1 DEF Posted, Stay
<1>5. QED
  BY <1>3, <1>4

WatchOps == {"connected", "connectFailed", "read", "header", "body", "readFailed", "writeFailed"}

\* What the watch depends on apart from the handlers.
watchVars == <<status, timer, connects, reads, garbled, io>>

LEMMA QuietKeepsWatch ==
  ASSUME TypeInv, WatchInv, UNCHANGED watchVars, Stay(0)
  PROVE  WatchInv'
<1>1. Pending("connected") => Pending("connected")'
  BY PendingStays DEF watchVars
<1>2. Pending("connectFailed") => Pending("connectFailed")'
  BY PendingStays DEF watchVars
<1>3. Posted(WatchOps) => Posted(WatchOps)'
  BY PostedStays
<1>4. QED
  BY <1>1, <1>2, <1>3 DEF watchVars, WatchInv, Attempting, ConnectionIsWatched, WatchOps

LEMMA NetworkKeepsWatch ==
  ASSUME TypeInv, WatchInv, Network, UNCHANGED uasVars
  PROVE  WatchInv'
<1> USE DEF stateVars, frameVars
<1>1. CASE ConnectDone
  <2>1. PICK h \in Handlers : ready' = Append(ready, h) /\ h.op \in {"connected", "connectFailed"}
    BY <1>1, HandlerFacts DEF ConnectDone
  <2>2. Len(ready) + 1 \in DOMAIN ready' /\ ready'[Len(ready) + 1] = h
    BY <2>1, AppendFacts DEF TypeInv, TcpTypeOK
  <2>3. io' = io /\ status' = status /\ timer' = timer
    BY <1>1 DEF ConnectDone
  <2>4. Len(ready) + 1 = 1 => io \in {"idle", "ended"}
    BY Places DEF TypeInv, TcpTypeOK, HandlerIsFirst
  <2>5. status = "CONNECTING" => Attempting'
    BY <2>1, <2>2, <2>3, <2>4 DEF WatchInv, Pending, Attempting
  <2>6. ConnectionIsWatched'
    BY <2>1, <2>2 DEF ConnectionIsWatched, Posted
  <2>7. QED
    BY <2>3, <2>5, <2>6 DEF WatchInv
<1>2. CASE Drop
  BY <1>2, StayIfAppended, QuietKeepsWatch DEF Drop, watchVars
<1>3. CASE WriteDone
  <2>1. \E h \in Handlers : ready' = Append(ready, h)
    BY <1>3, HandlerFacts DEF WriteDone
  <2>2. QED
    BY <1>3, <2>1, StayIfAppended, QuietKeepsWatch DEF WriteDone, watchVars
<1>4. CASE ReadDone
  <2>1. \A msg \in wire : msg \in Numbers
    BY DEF TypeInv, TcpTypeOK
  <2>2. PICK h \in Handlers : ready' = Append(ready, h) /\ h.op \in {"header", "body", "readFailed"}
    <3>1. stream \in Numbers
      BY DEF TypeInv, TcpTypeOK
    <3>2. \/ \E msg \in Numbers : ready' = Append(ready, [op |-> "header", msg |-> msg])
          \/ ready' = Append(ready, [op |-> "body", msg |-> stream])
          \/ ready' = Append(ready, [op |-> "readFailed"])
      BY <1>4, <2>1 DEF ReadDone
    <3>3. QED
      BY <3>1, <3>2, HandlerFacts
  <2>3. Len(ready) + 1 \in DOMAIN ready' /\ ready'[Len(ready) + 1] = h
    BY <2>2, AppendFacts DEF TypeInv, TcpTypeOK
  <2>4. ConnectionIsWatched'
    BY <2>2, <2>3 DEF ConnectionIsWatched, Posted
  <2>5. Stay(0) /\ UNCHANGED <<io, status, timer, connects>>
    BY <1>4, <2>2, StayIfAppended DEF ReadDone
  <2>6. Attempting => Attempting'
    BY <2>5, PendingStays DEF Attempting
  <2>7. QED
    BY <2>4, <2>5, <2>6 DEF WatchInv
<1>5. QED
  BY <1>1, <1>2, <1>3, <1>4 DEF Network

\* The steps of the io thread that leave status, timer and connections alone.
LEMMA HandlerKeepsAttempt ==
  ASSUME TypeInv, Attempting, UNCHANGED <<timer, connects>>, io' = "idle", Stay(1),
         io = "idle" => Head(ready).op \notin {"connected", "connectFailed"}
  PROVE  Attempting'
  BY PendingStays DEF Attempting

LEMMA LowerKeepsWatch ==
  ASSUME TypeInv, WatchInv, LowerSteps, UNCHANGED uasVars
  PROVE  WatchInv'
<1> USE DEF stateVars, frameVars, sockVars
<1>1. CASE RunSend \/ RunWritten
  <2>1. /\ io = "idle" /\ io' = io /\ Stay(1) /\ Head(ready).op \in {"send", "written"}
        /\ UNCHANGED <<status, timer, connects, reads, garbled>>
    BY <1>1, StayIfDone DEF RunSend, RunWritten, Is
  <2>2. Attempting => Attempting'
    BY <2>1, HandlerKeepsAttempt
  <2>3. Posted(WatchOps) => Posted(WatchOps)'
    BY <2>1, PostedStays DEF WatchOps
  <2>4. QED
    BY <2>1, <2>2, <2>3 DEF WatchInv, ConnectionIsWatched, WatchOps
<1>2. CASE TimerFires
  <2>1. /\ UNCHANGED <<ready, io, connects, reads, garbled>> /\ timer = "armed"
        /\ \/ status' = "CONNECTING" /\ timer' = "closing" /\ status \notin {"CONNECTING", "CLOSED"}
           \/ status' = status /\ status \in {"CONNECTING", "CLOSED"}
    BY <1>2 DEF TimerFires
  <2>2. CASE status' = "CONNECTING" /\ timer' = "closing" /\ status \notin {"CONNECTING", "CLOSED"}
    BY <2>1, <2>2 DEF WatchInv, Attempting, ConnectionIsWatched
  <2>3. CASE status' = status /\ status = "CLOSED"
    BY <2>1, <2>3 DEF WatchInv, ConnectionIsWatched
  <2>4. CASE status' = status /\ status = "CONNECTING"
    <3>1. connects > 0 \/ Pending("connected") \/ Pending("connectFailed")
      BY <2>1, <2>4 DEF WatchInv, Attempting
    <3>2. connects' > 0 \/ Pending("connected")' \/ Pending("connectFailed")'
      BY <2>1, <3>1 DEF Pending
    <3>3. ConnectionIsWatched'
      BY <3>2 DEF Pending, ConnectionIsWatched, Posted
    <3>4. QED
      BY <2>1, <2>4, <3>2, <3>3 DEF WatchInv, Attempting
  <2>5. QED
    BY <2>1, <2>2, <2>3, <2>4
<1>3. CASE RunConnected
  BY <1>3 DEF RunConnected, WatchInv, ConnectionIsWatched
<1>4. CASE RunFailed
  BY <1>4 DEF RunFailed, WatchInv, ConnectionIsWatched
<1>5. CASE RunRead
  <2>1. /\ io = "idle" /\ io' = io /\ Stay(1) /\ Head(ready).op = "read"
        /\ UNCHANGED <<status, timer, connects, garbled>>
        /\ reads' = IF garbled THEN reads ELSE reads + 1
    BY <1>5, StayIfDone DEF RunRead, Is
  <2>2. Attempting => Attempting'
    BY <2>1, HandlerKeepsAttempt
  <2>3. ConnectionIsWatched'
    BY <2>1 DEF ConnectionIsWatched, TypeInv, TcpTypeOK
  <2>4. QED
    BY <2>1, <2>2, <2>3 DEF WatchInv
<1>6. CASE RunPart
  <2>1. /\ io = "idle" /\ io' = io /\ Stay(1) /\ Head(ready).op \in {"header", "body"}
        /\ UNCHANGED <<status, timer, connects>> /\ ReadyHas("read")'
    BY <1>6, StayIfDone, ReadIsPosted DEF RunPart, ReadAgain, Is
  <2>2. Attempting => Attempting'
    BY <2>1, HandlerKeepsAttempt
  <2>3. ConnectionIsWatched'
    BY <2>1 DEF ConnectionIsWatched, Posted, ReadyHas
  <2>4. QED
    BY <2>1, <2>2, <2>3 DEF WatchInv
<1>7. CASE RunPacket
  <2>1. /\ io = "idle" /\ io' = "packet" /\ ready' = ready /\ UNCHANGED <<status, timer, connects>>
        /\ ready[1].op \in {"header", "body"}
    BY <1>7, TailFacts DEF RunPacket, Is, TypeInv, TcpTypeOK
  <2>2. Attempting => Attempting'
    BY <2>1 DEF Attempting, Pending
  <2>3. QED
    BY <2>1, <2>2 DEF WatchInv, ConnectionIsWatched
<1>8. CASE RunClose
  BY <1>8 DEF RunClose, WatchInv, ConnectionIsWatched
<1>9. QED
  BY <1>1, <1>2, <1>3, <1>4, <1>5, <1>6, <1>7, <1>8 DEF LowerSteps

LEMMA ThreadsKeepWatch ==
  ASSUME TypeInv, WatchInv, NEW t \in Threads, ThreadStep(t)
  PROVE  WatchInv'
<1> USE DEF stateVars, frameVars, sockVars, tcpVars
<1>1. [op |-> "send", msg |-> number[t]] \in Handlers
  BY HandlerFacts DEF TypeInv, UasTypeOK
<1>2. (ready' = ready) \/ (\E h \in Handlers : ready' = Append(ready, h))
  BY <1>1 DEF ThreadStep, Request, Send, Answered, TimedOut
<1>3. UNCHANGED watchVars
  BY DEF ThreadStep, Request, Send, Answered, TimedOut, watchVars
<1>4. QED
  BY <1>2, <1>3, StayIfAppended, QuietKeepsWatch

LEMMA UpperKeepsWatch == ASSUME TypeInv, WatchInv, DownInv, UpperSteps PROVE WatchInv'
<1> USE DEF stateVars, frameVars, sockVars, tcpVars
<1>1. CASE HandleResp \/ OnConnect
  <2>1. /\ io \in {"packet", "opening"} /\ io' = "idle" /\ Stay(1) /\ ReadyHas("read")'
        /\ UNCHANGED <<status, timer, connects>>
    BY <1>1, StayIfDone, ReadIsPosted
       DEF HandleResp, PacketReceived, OnConnect, Opened, ReadAgain, TypeInv, HandlerIsFirst
  <2>2. Attempting => Attempting'
    BY <2>1, HandlerKeepsAttempt
  <2>3. ConnectionIsWatched'
    BY <2>1 DEF ConnectionIsWatched, Posted, ReadyHas
  <2>4. QED
    BY <2>1, <2>2, <2>3 DEF WatchInv
<1>2. CASE ReconnectLater
  <2>1. /\ io = "closing" /\ io' = "idle" /\ Stay(1) /\ timer' = "armed" /\ timer # "closing"
        /\ UNCHANGED <<status, connects>>
    BY <1>2, StayIfDone DEF ReconnectLater, TypeInv, HandlerIsFirst
  <2>2. Attempting => Attempting'
    BY <2>1, PendingStays DEF Attempting
  <2>3. QED
    BY <2>1, <2>2 DEF WatchInv, ConnectionIsWatched
<1>3. CASE TimerConnects
  BY <1>3 DEF TimerConnects, OpenSocket, WatchInv, Attempting, ConnectionIsWatched
<1>4. CASE StartUp
  <2>1. io = "ended"
    BY <1>4 DEF StartUp, DownInv
  <2>2. QED
    BY <1>4, <2>1 DEF StartUp, Started, NotStarted, WatchInv, Attempting, ConnectionIsWatched
<1>5. CASE BeatDue \/ Beat \/ StopRequests \/ PostClose \/ Joined
  <2>1. [op |-> "send", msg |-> 0] \in Handlers /\ [op |-> "close"] \in Handlers
    BY HandlerFacts, TcpAssumption DEF Numbers
  <2>2. (ready' = ready) \/ (\E h \in Handlers : ready' = Append(ready, h))
    BY <1>5, <2>1 DEF BeatDue, Beat, StopRequests, PostClose, Joined
  <2>3. UNCHANGED watchVars
    BY <1>5 DEF BeatDue, Beat, StopRequests, PostClose, Joined, watchVars
  <2>4. QED
    BY <2>2, <2>3, StayIfAppended, QuietKeepsWatch
<1>6. QED
  BY <1>1, <1>2, <1>3, <1>4, <1>5 DEF UpperSteps, OnClose

LEMMA NextKeepsWatch == ASSUME TypeInv, WatchInv, DownInv, [Next]_vars PROVE WatchInv'
<1>1. CASE UNCHANGED vars
  BY <1>1, StayIfAppended, QuietKeepsWatch DEF vars, tcpVars, watchVars
<1>2. QED
  BY <1>1, NextIsAStep, NetworkKeepsWatch, LowerKeepsWatch, ThreadsKeepWatch, UpperKeepsWatch

\* Only startUp brings the io thread back.
LEMMA NextKeepsDown == ASSUME TypeInv, DownInv, [Next]_vars PROVE DownInv'
<1> USE DEF stateVars, frameVars, sockVars, tcpVars, uasVars
<1>1. CASE (Network \/ LowerSteps) /\ UNCHANGED uasVars
  BY <1>1 DEF Network, ConnectDone, Drop, WriteDone, ReadDone, LowerSteps, RunSend, RunWritten,
              TimerFires, RunConnected, RunFailed, RunRead, RunPart, RunPacket, RunClose, Is,
              DownInv
<1>2. ASSUME NEW t \in Threads, ThreadStep(t) PROVE DownInv'
  BY <1>2 DEF ThreadStep, Request, Send, Answered, TimedOut, DownInv
<1>3. CASE UpperSteps
  BY <1>3 DEF UpperSteps, HandleResp, PacketReceived, OnConnect, Opened, OnClose, ReconnectLater,
              TimerConnects, BeatDue, Beat, StopRequests, PostClose, Joined, StartUp, DownInv
<1>4. CASE UNCHANGED vars
  BY <1>4 DEF vars, DownInv
<1>5. QED
  BY <1>1, <1>2, <1>3, <1>4, NextIsAStep
-----------------------------------------------------------------------------
(***************************************************************************)
(* The theorems.                                                           *)
(***************************************************************************)

UasInv == TypeInv /\ WriteInv /\ RequestsInv /\ SlotInv /\ WatchInv /\ DownInv

LEMMA InitEstablishes == Init => UasInv
<1> SUFFICES ASSUME Init PROVE UasInv
  OBVIOUS
<1> USE DEF Init, TcpInit
<1>1. WriteInv /\ OneSender
  BY DEF WriteInv, ReadyHas, OneSender
<1>2. OrderInv
  BY DEF OrderInv, WrittenInOrder, Increasing
<1>3. SenderIsLast
  <2>1. OnTheWay = {}
    BY DEF OnTheWay
  <2>2. QED
    BY <2>1 DEF SenderIsLast
<1>4. SlotInv
  BY DEF SlotInv, SlotsHaveWaiters, AnswerIsForRequest, Nothing
<1>5. WatchInv
  BY DEF WatchInv, Attempting, ConnectionIsWatched
<1>6. DownInv
  BY DEF DownInv
<1>7. QED
  BY <1>1, <1>2, <1>3, <1>4, <1>5, <1>6, InitEstablishesTypes DEF UasInv, RequestsInv

LEMMA NextPreserves == UasInv /\ [Next]_vars => UasInv'
<1> SUFFICES ASSUME UasInv, [Next]_vars PROVE UasInv'
  OBVIOUS
<1>1. TypeInv'
  <2>1. Writing /\ (ReadyHas("written") => sendQueue # <<>>) /\ SlotsHaveWaiters
    BY DEF UasInv, Writing, WriteInv, SlotInv
  <2>2. CASE UNCHANGED vars
    BY <2>2 DEF UasInv, TypeInv, TcpTypeOK, UasTypeOK, HandlerIsFirst, vars, tcpVars, uasVars
  <2>3. QED
    BY <2>1, <2>2, NextIsAStep, NetworkKeepsTypes, LowerKeepsTypes, ThreadsKeepTypes,
       UpperKeepsTypes DEF UasInv
<1>2. RequestsInv' /\ WriteInv'
  BY <1>1, NextKeepsRequests DEF UasInv
<1>3. SlotInv' /\ WatchInv' /\ DownInv'
  BY NextKeepsSlots, NextKeepsWatch, NextKeepsDown DEF UasInv
<1>4. QED
  BY <1>1, <1>2, <1>3 DEF UasInv

\* The inductive invariant of the client and the requests sent over it.
THEOREM UasInvariant == Spec => []UasInv
<1>1. QED
  BY InitEstablishes, NextPreserves, PTL DEF Spec

\* At most one message is being written, it is the first of the queue, and no
\* reconnection, failure or restart leads to a second write (AsioTcpClient).
THEOREM WritesAreSingle == Spec => []OneWriteAtATime
<1>1. UasInv => OneWriteAtATime
  BY DEF UasInv, WriteInv, OneWriteAtATime
<1>2. QED
  BY <1>1, UasInvariant, PTL

\* Requests are written in the order of their numbers and none twice.
THEOREM RequestsStayInOrder == Spec => []WrittenInOrder
<1>1. UasInv => WrittenInOrder
  BY DEF UasInv, RequestsInv, OrderInv
<1>2. QED
  BY <1>1, UasInvariant, PTL

\* sendAndWaitRespPacket returns the answer to its own request or none.
THEOREM AnswersMatch == Spec => []AnswerIsForRequest
<1>1. UasInv => AnswerIsForRequest
  BY DEF UasInv, SlotInv
<1>2. QED
  BY <1>1, UasInvariant, PTL

\* _receivePackets has the slots of the calls in progress and no others.
THEOREM SlotsAreWaitedFor == Spec => []SlotsHaveWaiters
<1>1. UasInv => SlotsHaveWaiters
  BY DEF UasInv, SlotInv
<1>2. QED
  BY <1>1, UasInvariant, PTL

\* Something always makes a client that was not shut down read or connect again.
THEOREM ClientStaysWatched == Spec => []ConnectionIsWatched
<1>1. UasInv => ConnectionIsWatched
  BY DEF UasInv, WatchInv
<1>2. QED
  BY <1>1, UasInvariant, PTL

\* The io thread's step that posts nothing and takes nothing off the queue.
LEMMA QueueKeptIfPosted ==
  ASSUME TypeInv, QueueIsServed, sendQueue' = sendQueue, writes' = writes,
         Stay(0) \/ (Stay(1) /\ Head(ready).op # "written")
  PROVE  QueueIsServed'
<1>1. Posted({"written"}) => Posted({"written"})'
  BY PostedStays
<1>2. QED
  BY <1>1 DEF QueueIsServed

LEMMA NetworkServesQueue ==
  ASSUME TypeInv, WriteInv, Network, QueueIsServed
  PROVE  QueueIsServed' \/ link' = "down"
<1>1. CASE Drop
  BY <1>1 DEF Drop
<1>2. CASE WriteDone
  <2>1. CASE ready' = Append(ready, [op |-> "written"])
    <3>1. Len(ready) + 1 \in DOMAIN ready' /\ ready'[Len(ready) + 1].op = "written"
      BY <2>1, HandlerFacts, AppendFacts DEF TypeInv, TcpTypeOK
    <3>2. QED
      BY <3>1 DEF QueueIsServed, Posted
  <2>2. CASE link = "down" /\ ready' = Append(ready, [op |-> "writeFailed"])
    BY <1>2, <2>2 DEF WriteDone
  <2>3. QED
    BY <1>2, <2>1, <2>2 DEF WriteDone
<1>3. CASE ConnectDone \/ ReadDone
  <2>1. \E h \in Handlers : ready' = Append(ready, h)
    BY <1>3, HandlerFacts DEF ConnectDone, ReadDone, TypeInv, TcpTypeOK
  <2>2. QED
    BY <1>3, <2>1, StayIfAppended, QueueKeptIfPosted DEF ConnectDone, ReadDone
<1>4. QED
  BY <1>1, <1>2, <1>3 DEF Network

LEMMA LowerServesQueue ==
  ASSUME TypeInv, WriteInv, LowerSteps, QueueIsServed
  PROVE  QueueIsServed' \/ link' = "down"
<1> USE DEF stateVars, frameVars, sockVars
<1>1. CASE RunSend
  <2>1. CASE sendQueue = <<>>
    BY <1>1, <2>1 DEF RunSend, Enqueue, WriteInv, QueueIsServed
  <2>2. CASE sendQueue # <<>>
    <3>1. Stay(1) /\ Head(ready).op # "written" /\ writes' = writes
      BY <1>1, <2>2, StayIfDone DEF RunSend, Enqueue, Is
    <3>2. Posted({"written"}) => Posted({"written"})'
      BY <3>1, PostedStays
    <3>3. QED
      BY <2>2, <3>1, <3>2 DEF QueueIsServed
  <2>3. QED
    BY <2>1, <2>2
<1>2. CASE RunWritten
  <2>1. writes = 0
    BY <1>2, TailFacts DEF RunWritten, Is, WriteInv, ReadyHas, TypeInv, TcpTypeOK
  <2>2. QED
    BY <1>2, <2>1 DEF RunWritten, NextWrite, QueueIsServed
<1>3. CASE RunRead \/ RunPart
  <2>1. Stay(1) /\ Head(ready).op # "written" /\ UNCHANGED <<sendQueue, writes>>
    BY <1>3, StayIfDone DEF RunRead, RunPart, ReadAgain, Is
  <2>2. QED
    BY <2>1, QueueKeptIfPosted
<1>4. CASE TimerFires \/ RunConnected \/ RunFailed \/ RunPacket
  <2>1. UNCHANGED <<ready, sendQueue, writes>>
    BY <1>4 DEF TimerFires, RunConnected, RunFailed, RunPacket
  <2>2. QED
    BY <2>1, StayIfAppended, QueueKeptIfPosted
<1>5. CASE RunClose
  BY <1>5 DEF RunClose
<1>6. QED
  BY <1>1, <1>2, <1>3, <1>4, <1>5 DEF LowerSteps

LEMMA ThreadsServeQueue ==
  ASSUME TypeInv, NEW t \in Threads, ThreadStep(t), QueueIsServed
  PROVE  QueueIsServed'
<1> USE DEF stateVars, frameVars, sockVars, tcpVars
<1>1. [op |-> "send", msg |-> number[t]] \in Handlers
  BY HandlerFacts DEF TypeInv, UasTypeOK
<1>2. (ready' = ready) \/ (\E h \in Handlers : ready' = Append(ready, h))
  BY <1>1 DEF ThreadStep, Request, Send, Answered, TimedOut
<1>3. UNCHANGED <<sendQueue, writes>>
  BY DEF ThreadStep, Request, Send, Answered, TimedOut
<1>4. QED
  BY <1>2, <1>3, StayIfAppended, QueueKeptIfPosted

LEMMA UpperServesQueue ==
  ASSUME TypeInv, UpperSteps, QueueIsServed
  PROVE  QueueIsServed' \/ link' = "down"
<1> USE DEF stateVars, frameVars, sockVars, tcpVars
<1>1. CASE HandleResp \/ OnConnect \/ ReconnectLater
  <2>1. Stay(1) /\ Head(ready).op # "written"
    BY <1>1, StayIfDone
       DEF HandleResp, PacketReceived, OnConnect, Opened, ReconnectLater, ReadAgain,
           TypeInv, HandlerIsFirst
  <2>2. UNCHANGED <<sendQueue, writes>>
    BY <1>1 DEF HandleResp, PacketReceived, OnConnect, Opened, ReconnectLater
  <2>3. QED
    BY <2>1, <2>2, QueueKeptIfPosted
<1>2. CASE TimerConnects
  BY <1>2 DEF TimerConnects, OpenSocket
<1>3. CASE BeatDue \/ Beat \/ StopRequests \/ PostClose \/ Joined \/ StartUp
  <2>1. [op |-> "send", msg |-> 0] \in Handlers /\ [op |-> "close"] \in Handlers
    BY HandlerFacts, TcpAssumption DEF Numbers
  <2>2. (ready' = ready) \/ (\E h \in Handlers : ready' = Append(ready, h))
    BY <1>3, <2>1 DEF BeatDue, Beat, StopRequests, PostClose, Joined, StartUp, Started, NotStarted
  <2>3. UNCHANGED <<sendQueue, writes>>
    BY <1>3 DEF BeatDue, Beat, StopRequests, PostClose, Joined, StartUp, Started, NotStarted
  <2>4. QED
    BY <2>2, <2>3, StayIfAppended, QueueKeptIfPosted
<1>4. QED
  BY <1>1, <1>2, <1>3 DEF UpperSteps, OnClose

\* The queue of the connection is left with messages and without a write only by
\* the loss, the replacement or the end of the connection (AsioTcpClient).
THEOREM QueueKeepsMoving == Spec => QueueStallsWithLink
<1>1. UasInv /\ [Next]_vars => [QueueIsServed /\ ~QueueIsServed' => link' = "down"]_vars
  <2> SUFFICES ASSUME UasInv, Next, QueueIsServed
               PROVE  QueueIsServed' \/ link' = "down"
    BY DEF vars
  <2>1. TypeInv /\ WriteInv
    BY DEF UasInv
  <2>2. CASE UNCHANGED vars
    BY <2>2 DEF vars, tcpVars, QueueIsServed, Posted
  <2>3. QED
    BY <2>1, <2>2, NextIsAStep, NetworkServesQueue, LowerServesQueue, ThreadsServeQueue,
       UpperServesQueue
<1>2. QED
  BY <1>1, UasInvariant, PTL DEF Spec, QueueStallsWithLink
=============================================================================
