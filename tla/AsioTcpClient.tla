--------------------------- MODULE AsioTcpClient ----------------------------
(***************************************************************************)
(* The asynchronous TCP client: one io thread that runs handlers in the    *)
(* order they became ready, a reconnect timer with a thread of its own, a  *)
(* queue of messages of which the first is being written, and the layer    *)
(* above (TcpClient) that turns changes of state into onConnect and        *)
(* onClose and puts packets together from a header and a body.             *)
(*                                                                         *)
(* A message is a number: 0 is a heartbeat, which is not answered; any     *)
(* other number is a request and the sequence number of its answer.  A     *)
(* read yields a header or a body, which carry the number of their answer. *)
(* Requests, answers and the heartbeat's thread are modelled in UasClient. *)
(***************************************************************************)
EXTENDS Naturals, Sequences

CONSTANTS
  MaxRequests,  \* bound: requests sent
  MaxDrops      \* bound: times an established connection is lost

ASSUME TcpAssumption == MaxRequests \in Nat /\ MaxDrops \in Nat

VARIABLES
  status,     \* AsioTcpClient::_currentStatus; INITING and CLOSEING last for one call
  ready,      \* the handlers the io_service has to run, in order
  sendQueue,  \* _sendQueue
  connects, reads, writes,  \* operations started on the socket and not completed
  timer,      \* the reconnect timer: its thread waits, or is inside doConnect
  io,         \* what the io thread is doing
  upper,      \* TcpClient::_currentStatus
  listening,  \* the callbacks set by TcpClient's constructor are still set
  header,     \* the answer whose header was read, 0: the next read is a header
  link,       \* whether the server has accepted the connection
  wire,       \* requests that reached the server over this connection, not answered
  stream,     \* the answer whose header the server has sent and whose body it has not
  garbled,    \* a header was taken for a body
  written,    \* the requests written, in order
  drops

sockVars == <<connects, reads, writes, link, wire, stream, written, drops>>
stateVars == <<status, timer, upper>>
frameVars == <<header, garbled>>
tcpVars == <<status, ready, sendQueue, connects, reads, writes, timer, io, upper,
             listening, header, link, wire, stream, garbled, written, drops>>

Requests == 1 .. MaxRequests

Handlers ==
  [op : {"connected", "connectFailed", "written", "writeFailed", "read", "readFailed", "close"}]
    \cup [op : {"send", "header", "body"}, msg : 0 .. MaxRequests]

Is(op) == io = "idle" /\ ready # <<>> /\ Head(ready).op = op

Done(more) == ready' = Tail(ready) \o more
-----------------------------------------------------------------------------
(***************************************************************************)
(* The network completes what was started.                                 *)
(***************************************************************************)

ConnectDone ==
  /\ connects > 0 /\ connects' = connects - 1
  /\ \/ link' = "up" /\ ready' = Append(ready, [op |-> "connected"])
     \/ UNCHANGED link /\ ready' = Append(ready, [op |-> "connectFailed"])
  /\ UNCHANGED <<stateVars, frameVars, sendQueue, reads, writes, io, listening,
                 wire, stream, written, drops>>

Drop ==
  /\ link = "up" /\ drops < MaxDrops
  /\ link' = "down" /\ drops' = drops + 1 /\ wire' = {} /\ stream' = 0
  /\ UNCHANGED <<stateVars, frameVars, ready, sendQueue, connects, reads, writes, io,
                 listening, written>>

\* The socket takes what is written also when the peer is gone already.
WriteDone ==
  /\ writes > 0 /\ writes' = writes - 1
  /\ \/ /\ ready' = Append(ready, [op |-> "written"])
        /\ LET msg == Head(sendQueue)
           IN  IF msg = 0 THEN UNCHANGED <<wire, written>>
               ELSE /\ written' = Append(written, msg)
                    /\ wire' = IF link = "up" THEN wire \cup {msg} ELSE wire
     \/ /\ link = "down"
        /\ ready' = Append(ready, [op |-> "writeFailed"])
        /\ UNCHANGED <<wire, written>>
  /\ UNCHANGED <<stateVars, frameVars, sendQueue, connects, reads, io, listening,
                 link, stream, drops>>

ReadDone ==
  /\ reads > 0 /\ reads' = reads - 1
  /\ \/ /\ stream = 0
        /\ \E msg \in wire :
             /\ wire' = wire \ {msg} /\ stream' = msg
             /\ ready' = Append(ready, [op |-> "header", msg |-> msg])
     \/ /\ stream # 0
        /\ ready' = Append(ready, [op |-> "body", msg |-> stream])
        /\ stream' = 0 /\ UNCHANGED wire
     \/ /\ link = "down"
        /\ ready' = Append(ready, [op |-> "readFailed"])
        /\ UNCHANGED <<wire, stream>>
  /\ UNCHANGED <<stateVars, frameVars, sendQueue, connects, writes, io, listening,
                 link, written, drops>>

Network == ConnectDone \/ Drop \/ WriteDone \/ ReadDone
-----------------------------------------------------------------------------
(***************************************************************************)
(* Sending.                                                                *)
(***************************************************************************)

\* send: it is the caller that holds _mutex.
Accepts == status = "CONNECTED"

\* Mutant: a message starts a write whether or not one is going on.
EnqueueAndWrite(msg) ==
  /\ sendQueue' = Append(sendQueue, msg)
  /\ writes' = writes + 1

\* The handler posted by send.
Enqueue(msg) ==
  /\ sendQueue' = Append(sendQueue, msg)
  /\ writes' = IF sendQueue = <<>> THEN writes + 1 ELSE writes

RunSend ==
  /\ Is("send")
  /\ Enqueue(Head(ready).msg)
  /\ Done(<<>>)
  /\ UNCHANGED <<stateVars, frameVars, connects, reads, io, listening, link, wire,
                 stream, written, drops>>

\* Mutant: the written message is not taken off the queue before the next write.
NextWriteKeeps ==
  /\ writes' = IF Len(sendQueue) > 1 THEN writes + 1 ELSE writes
  /\ sendQueue' = IF Len(sendQueue) > 1 THEN sendQueue ELSE <<>>

\* Mutant: the next write is left to the next send.
NextWriteLater ==
  /\ sendQueue' = Tail(sendQueue)
  /\ UNCHANGED writes

NextWrite ==
  /\ sendQueue' = Tail(sendQueue)
  /\ writes' = IF sendQueue' # <<>> THEN writes + 1 ELSE writes

RunWritten ==
  /\ Is("written")
  /\ NextWrite
  /\ Done(<<>>)
  /\ UNCHANGED <<stateVars, frameVars, connects, reads, io, listening, link, wire,
                 stream, written, drops>>
-----------------------------------------------------------------------------
(***************************************************************************)
(* Connecting.  The status listener runs in the thread that changes the    *)
(* status; TcpClient::onStatus acts on the two edges of CONNECTED.  onClose *)
(* waits for the heartbeat's thread, so that it is a step of its own: a    *)
(* thread in "closing" has stored the status and not yet told TcpClient.   *)
(***************************************************************************)

\* onStatus then calls onClose.
LosesConnection == listening /\ upper = "CONNECTED"

\* async_connect closes the socket first: what was started on it is aborted, and
\* the handlers ignore that.
OpenSocket ==
  /\ connects' = 1 /\ reads' = 0 /\ writes' = 0
  /\ link' = "down" /\ wire' = {} /\ stream' = 0

\* doConnect in the timer's thread.
TimerFires ==
  /\ timer = "armed"
  /\ IF status \in {"CONNECTING", "CLOSED"}
     THEN timer' = "none" /\ UNCHANGED status
     ELSE timer' = "closing" /\ status' = "CONNECTING"
  /\ UNCHANGED <<ready, sendQueue, io, upper, listening, frameVars, sockVars>>

\* What follows onStatus(CONNECTING).
TimerConnects ==
  /\ timer = "closing"
  /\ timer' = "none"
  /\ upper' = IF listening THEN "CONNECTING" ELSE upper
  /\ OpenSocket
  /\ UNCHANGED <<status, ready, sendQueue, io, listening, frameVars, written, drops>>

RunConnected ==
  /\ Is("connected")
  /\ status' = "CONNECTED"
  /\ io' = "opening"
  /\ UNCHANGED <<ready, sendQueue, timer, upper, listening, frameVars, sockVars>>

\* What follows onStatus(CONNECTED).
Opened ==
  /\ io = "opening"
  /\ io' = "idle"
  /\ upper' = IF listening THEN "CONNECTED" ELSE upper
  /\ Done(<<[op |-> "read"]>>)
  /\ UNCHANGED <<status, timer, sendQueue, listening, frameVars, sockVars>>

\* doReconnect, reached from each failed operation.  After close, where it does
\* nothing, no handler runs any more.
RunFailed ==
  /\ Is("connectFailed") \/ Is("writeFailed") \/ Is("readFailed")
  /\ status' = "NO_CONNECT" /\ io' = "closing"
  /\ UNCHANGED ready
  /\ UNCHANGED <<sendQueue, timer, upper, listening, frameVars, sockVars>>

\* Mutant: a timer that is armed is cancelled and not started anew.
ReconnectOnce ==
  /\ io = "closing" /\ timer # "closing"
  /\ upper' = IF listening THEN "NO_CONNECT" ELSE upper
  /\ timer' = IF timer = "armed" THEN "none" ELSE "armed"
  /\ io' = "idle"
  /\ Done(<<>>)
  /\ UNCHANGED <<status, sendQueue, listening, frameVars, sockVars>>

\* What follows onStatus(NO_CONNECT): the timer is cancelled, which waits for
\* its thread, and started anew.
ReconnectLater ==
  /\ io = "closing" /\ timer # "closing"
  /\ upper' = IF listening THEN "NO_CONNECT" ELSE upper
  /\ timer' = "armed"
  /\ io' = "idle"
  /\ Done(<<>>)
  /\ UNCHANGED <<status, sendQueue, listening, frameVars, sockVars>>
-----------------------------------------------------------------------------
(***************************************************************************)
(* Receiving: doReadByLength and TcpClient::receiveData.  Without the      *)
(* callbacks the data is read and dropped (doRead).                        *)
(***************************************************************************)

\* Nothing is modelled after a header was taken for a body: the lengths read
\* from then on are arbitrary.
RunRead ==
  /\ Is("read")
  /\ reads' = IF garbled THEN reads ELSE reads + 1
  /\ Done(<<>>)
  /\ UNCHANGED <<stateVars, frameVars, sendQueue, connects, writes, io, listening,
                 link, wire, stream, written, drops>>

ReadAgain == Done(<<[op |-> "read"]>>)

\* A header where a header is expected, or data that goes nowhere.
RunPart ==
  /\ Is("header") \/ Is("body")
  /\ \/ listening /\ header = 0 /\ Is("header") /\ header' = Head(ready).msg
     \/ ~listening /\ UNCHANGED header
  /\ ReadAgain
  /\ UNCHANGED <<stateVars, sendQueue, io, listening, garbled, sockVars>>

\* What was read completes a packet: it has the number of its header.
RunPacket ==
  /\ Is("header") \/ Is("body")
  /\ listening /\ header # 0
  /\ io' = "packet"
  /\ garbled' = Is("header")
  /\ UNCHANGED <<stateVars, ready, sendQueue, listening, header, sockVars>>

\* After the layer above has had the packet.
PacketReceived ==
  /\ io = "packet"
  /\ io' = "idle" /\ header' = 0
  /\ ReadAgain
  /\ UNCHANGED <<stateVars, sendQueue, listening, garbled, sockVars>>
-----------------------------------------------------------------------------
\* The posted close: no listener is told.  It waits for the timer's thread; the
\* io_service is stopped and what it had to run is dropped with it.
RunClose ==
  /\ Is("close") /\ timer # "closing"
  /\ timer' = "none" /\ status' = "CLOSED" /\ io' = "ended"
  /\ ready' = <<>>
  /\ connects' = 0 /\ reads' = 0 /\ writes' = 0
  /\ link' = "down" /\ wire' = {} /\ stream' = 0
  /\ UNCHANGED <<sendQueue, upper, listening, frameVars, written, drops>>

\* startUp: the io thread starts with a connection attempt under way.
Started ==
  /\ status' = "CONNECTING" /\ io' = "idle"
  /\ upper' = IF listening THEN "CONNECTING" ELSE upper
  /\ connects' = 1
  /\ UNCHANGED <<ready, sendQueue, reads, writes, timer, listening, frameVars, link,
                 wire, stream, written, drops>>

\* startUp that cannot resolve the address: it is back at NO_CONNECT, and no
\* thread was started.
NotStarted ==
  /\ status' = "NO_CONNECT"
  /\ UNCHANGED <<ready, sendQueue, timer, io, upper, listening, frameVars, sockVars>>

TcpInit ==
  /\ status = "CONNECTING" /\ upper = "CONNECTING" /\ connects = 1 /\ io = "idle"
  /\ ready = <<>> /\ sendQueue = <<>> /\ reads = 0 /\ writes = 0
  /\ timer = "none" /\ listening = TRUE /\ header = 0 /\ garbled = FALSE
  /\ link = "down" /\ wire = {} /\ stream = 0 /\ written = <<>> /\ drops = 0
=============================================================================
