------------------------------ MODULE UasClient ------------------------------
(***************************************************************************)
(* Requests to the platform server and their answers.  A thread that sends *)
(* a request holds UasClient::_mutex from the choice of its number until   *)
(* it sleeps, takes AsioTcpClient::_mutex inside it to send, and sleeps    *)
(* until its answer was the last to arrive, or its time is over.  The io   *)
(* thread stores an answer under the first mutex.  The heartbeat's thread  *)
(* takes the second.  shutDown holds the second until the io thread ended. *)
(* Requests that want no answer (logout, closing a stream, commands) go    *)
(* the way of the heartbeat.                                               *)
(***************************************************************************)
EXTENDS AsioTcpClient, FiniteSets, Functions

CONSTANTS
  Threads,    \* the application's threads
  MaxBeats,   \* bound: heartbeats
  MaxStarts   \* bound: calls of startUp

ASSUME UasAssumption == MaxBeats \in Nat /\ MaxStarts \in Nat

VARIABLES
  pc,          \* where each thread is in sendAndWaitRespPacket
  number,      \* the number of its request
  result,      \* what the last call returned
  seqNumber, receiveSeqNumber,
  slots,       \* _receivePackets
  running,
  heartbeat,   \* the heartbeat's timer thread
  beats,
  closer,      \* where shutDown is
  starts

uasVars == <<pc, number, result, seqNumber, receiveSeqNumber, slots, running,
             heartbeat, beats, closer, starts>>
vars == <<tcpVars, uasVars>>

Nothing == [seq |-> 0, body |-> 0]

Packets == [seq : 0 .. MaxRequests, body : 0 .. MaxRequests]

\* A thread that waits for AsioTcpClient::_mutex holds UasClient::_mutex.
UasMutexFree == \A t \in Threads : pc[t] # "sending"

\* AsioTcpClient::_mutex: send holds it for one step, shutDown while it joins.
TcpMutexFree == closer # "joining"

Without(f, k) == Restrict(f, DOMAIN f \ {k})
-----------------------------------------------------------------------------
(***************************************************************************)
(* sendAndWaitRespPacket.                                                  *)
(***************************************************************************)

NextNumber == seqNumber + 1

Request(t) ==
  /\ pc[t] = "idle" /\ UasMutexFree
  /\ seqNumber < MaxRequests
  /\ seqNumber' = seqNumber + 1
  /\ number' = [number EXCEPT ![t] = NextNumber]
  /\ slots' = [n \in DOMAIN slots \cup {NextNumber} |->
                 IF n \in DOMAIN slots THEN slots[n] ELSE Nothing]
  /\ pc' = [pc EXCEPT ![t] = "sending"]
  /\ UNCHANGED <<tcpVars, result, receiveSeqNumber, running, heartbeat, beats, closer, starts>>

\* Mutant: a thread takes the answer that arrived last.
ReturnLast(t) ==
  /\ result' = [result EXCEPT ![t] = IF receiveSeqNumber \in DOMAIN slots
                                     THEN slots[receiveSeqNumber] ELSE Nothing]
  /\ slots' = Without(slots, number[t])
  /\ pc' = [pc EXCEPT ![t] = "idle"]

\* Mutant: a slot outlives the call that made it.
ReturnKeepsSlot(t) ==
  /\ result' = [result EXCEPT ![t] = slots[number[t]]]
  /\ UNCHANGED slots
  /\ pc' = [pc EXCEPT ![t] = "idle"]

\* The end of the call: the slot is emptied and given up.
Return(t) ==
  /\ result' = [result EXCEPT ![t] = slots[number[t]]]
  /\ slots' = Without(slots, number[t])
  /\ pc' = [pc EXCEPT ![t] = "idle"]

Send(t) ==
  /\ pc[t] = "sending" /\ TcpMutexFree
  /\ IF Accepts
     THEN ready' = Append(ready, [op |-> "send", msg |-> number[t]])
     ELSE UNCHANGED ready
  /\ IF Accepts /\ running
     THEN pc' = [pc EXCEPT ![t] = "waiting"] /\ UNCHANGED <<result, slots>>
     ELSE Return(t)
  /\ UNCHANGED <<stateVars, sockVars, frameVars, sendQueue, io, listening>>
  /\ UNCHANGED <<number, seqNumber, receiveSeqNumber, running, heartbeat, beats, closer, starts>>

WakesUp(t) == ~running \/ receiveSeqNumber = number[t]

Answered(t) ==
  /\ pc[t] = "waiting" /\ UasMutexFree
  /\ WakesUp(t)
  /\ Return(t)
  /\ UNCHANGED <<tcpVars, number, seqNumber, receiveSeqNumber, running, heartbeat, beats,
                 closer, starts>>

TimedOut(t) ==
  /\ pc[t] = "waiting" /\ UasMutexFree
  /\ ~WakesUp(t)
  /\ Return(t)
  /\ UNCHANGED <<tcpVars, number, seqNumber, receiveSeqNumber, running, heartbeat, beats,
                 closer, starts>>
-----------------------------------------------------------------------------
(***************************************************************************)
(* The io thread: an answer, and the two edges of the connection.          *)
(***************************************************************************)

Store(p) ==
  IF p.seq \in DOMAIN slots
  THEN slots' = [slots EXCEPT ![p.seq] = p] /\ receiveSeqNumber' = p.seq
  ELSE UNCHANGED <<slots, receiveSeqNumber>>

\* A packet whose parts belong to two answers may still be decoded.
HandleResp ==
  /\ io = "packet" /\ UasMutexFree
  /\ \/ Store([seq |-> header, body |-> Head(ready).msg])
     \/ garbled /\ UNCHANGED <<slots, receiveSeqNumber>>
  /\ PacketReceived
  /\ UNCHANGED <<pc, number, result, seqNumber, running, heartbeat, beats, closer, starts>>

\* onClose and onConnect cancel the heartbeat's timer and wait for its thread.
HeartbeatStops == heartbeat # "sending" /\ heartbeat' = "none"

OnConnect ==
  /\ Opened
  /\ IF listening /\ upper # "CONNECTED"
     THEN heartbeat # "sending" /\ heartbeat' = "waiting"
     ELSE UNCHANGED heartbeat
  /\ UNCHANGED <<pc, number, result, seqNumber, receiveSeqNumber, slots, running, beats,
                 closer, starts>>

OnClose ==
  /\ ReconnectLater \/ TimerConnects
  /\ IF LosesConnection THEN HeartbeatStops ELSE UNCHANGED heartbeat
  /\ UNCHANGED <<pc, number, result, seqNumber, receiveSeqNumber, slots, running, beats,
                 closer, starts>>

BeatDue ==
  /\ heartbeat = "waiting" /\ beats < MaxBeats
  /\ heartbeat' = "sending" /\ beats' = beats + 1
  /\ UNCHANGED <<tcpVars, pc, number, result, seqNumber, receiveSeqNumber, slots, running,
                 closer, starts>>

Beat ==
  /\ heartbeat = "sending" /\ TcpMutexFree
  /\ heartbeat' = "waiting"
  /\ ready' = IF Accepts THEN Append(ready, [op |-> "send", msg |-> 0]) ELSE ready
  /\ UNCHANGED <<stateVars, sockVars, frameVars, sendQueue, io, listening>>
  /\ UNCHANGED <<pc, number, result, seqNumber, receiveSeqNumber, slots, running, beats,
                 closer, starts>>
-----------------------------------------------------------------------------
(***************************************************************************)
(* shutDown and a later startUp (pauseUasClient, resumeUasClient).         *)
(***************************************************************************)

StopRequests ==
  /\ closer = "idle" /\ running /\ UasMutexFree
  /\ running' = FALSE
  /\ closer' = "stopping"
  /\ UNCHANGED <<tcpVars, pc, number, result, seqNumber, receiveSeqNumber, slots, heartbeat,
                 beats, starts>>

\* Without an io thread there is no io_service to post to.
PostClose ==
  /\ closer = "stopping"
  /\ closer' = "joining"
  /\ ready' = IF io = "ended" THEN ready ELSE Append(ready, [op |-> "close"])
  /\ UNCHANGED <<stateVars, sockVars, frameVars, sendQueue, io, listening>>
  /\ UNCHANGED <<pc, number, result, seqNumber, receiveSeqNumber, slots, running, heartbeat,
                 beats, starts>>

\* The join ends; TcpClient::shutDown removes its callbacks.
Joined ==
  /\ closer = "joining" /\ io = "ended"
  /\ closer' = "down" /\ listening' = FALSE
  /\ UNCHANGED <<stateVars, sockVars, frameVars, ready, sendQueue, io>>
  /\ UNCHANGED <<pc, number, result, seqNumber, receiveSeqNumber, slots, running, heartbeat,
                 beats, starts>>

StartUp ==
  /\ closer = "down" /\ starts < MaxStarts
  /\ Started \/ NotStarted
  /\ closer' = "idle" /\ running' = TRUE /\ starts' = starts + 1
  /\ UNCHANGED <<pc, number, result, seqNumber, receiveSeqNumber, slots, heartbeat, beats>>
-----------------------------------------------------------------------------
Init ==
  /\ TcpInit
  /\ pc = [t \in Threads |-> "idle"] /\ number = [t \in Threads |-> 0]
  /\ result = [t \in Threads |-> Nothing]
  /\ seqNumber = 0 /\ receiveSeqNumber = 0 /\ slots = [n \in {} |-> Nothing]
  /\ running = TRUE /\ heartbeat = "none" /\ beats = 0 /\ closer = "idle" /\ starts = 1

\* Steps of the client that the layer above takes no part in.
Lower ==
  /\ \/ Network \/ RunSend \/ RunWritten \/ TimerFires \/ RunConnected \/ RunFailed
     \/ RunRead \/ RunPart \/ RunPacket \/ RunClose
  /\ UNCHANGED uasVars

Next ==
  \/ \E t \in Threads : Request(t) \/ Send(t) \/ Answered(t) \/ TimedOut(t)
  \/ HandleResp \/ OnConnect \/ OnClose \/ BeatDue \/ Beat
  \/ StopRequests \/ PostClose \/ Joined \/ StartUp
  \/ Lower

Spec == Init /\ [][Next]_vars
-----------------------------------------------------------------------------
\* At most one write is under way, and it is that of the first message of the
\* queue, although writes are started by two handlers, fail and are aborted by
\* reconnects of another thread.
OneWriteAtATime == writes <= 1 /\ (writes = 1 => sendQueue # <<>>)

\* Requests go out in the order of their numbers and none goes out twice, across
\* failures, reconnects and a restart of the client.
WrittenInOrder ==
  \A i, j \in DOMAIN written : i < j => written[i] < written[j]

\* A call returns the answer to its own request or none, whatever answers come
\* late, overtake each other or meet a thread that has given up.
AnswerIsForRequest ==
  \A t \in Threads : pc[t] = "idle" => result[t].seq \in {0, number[t]}

\* The slots for answers are those of the calls in progress: no late answer and
\* no failed, timed out or stopped call leaves one behind.
SlotsHaveWaiters ==
  DOMAIN slots = { number[t] : t \in { u \in Threads : pc[u] # "idle" } }

Posted(ops) == \E i \in DOMAIN ready : ready[i].op \in ops

\* Until it is shut down the client is never left without something whose end
\* makes it read or connect again, although two failures of one connection each
\* start a reconnection of their own.
ConnectionIsWatched ==
  \/ io # "idle" \/ timer # "none" \/ connects > 0 \/ reads > 0 \/ garbled
  \/ Posted({"connected", "connectFailed", "read", "header", "body", "readFailed", "writeFailed"})

\* Something makes the first message of the queue go on: its write, or the handler
\* that takes it off and starts the next one.
QueueIsServed == sendQueue = <<>> \/ writes = 1 \/ Posted({"written"})

\* A queue is left with messages and without a write only where the connection is
\* lost, replaced or closed: neither a message that is posted while another is
\* written nor the end of a write forgets the ones that wait.
QueueStallsWithLink == [][QueueIsServed /\ ~QueueIsServed' => link' = "down"]_vars

\* TcpClient.h:91: the client sets up a lost connection again by itself, and the
\* layers above need not care.  What waits in the queue then must go out, too.
QueueGoesOn ==
  status = "CONNECTED" /\ io = "idle" =>
    QueueIsServed \/ Posted({"writeFailed", "readFailed"})

\* AsioTcpClient.cpp:71: shutDown waits until the io thread has finished what it
\* does.  That thread, with an answer to store, then must not wait for a request
\* that waits in send for shutDown.
JoinCanEnd == closer = "joining" /\ io = "packet" => UasMutexFree

\* The same of the io thread that ends the heartbeat after a lost connection,
\* while the heartbeat waits in send for shutDown.
HeartbeatJoinCanEnd ==
  closer = "joining" /\ io = "closing" /\ LosesConnection => heartbeat # "sending"

\* TcpClient.h:203: first a header is read, then its body, then a header again.
HeaderThenBody == \A t \in Threads : result[t].body = result[t].seq
=============================================================================
