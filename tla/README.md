# TLA+ verification of VmSdkDemo_android

The repository is an Android SDK for video surveillance: native C++ code
(`app/src/main/cpp`) that talks to a platform server, opens media streams over
TCP or over a reliable UDP transport, and a Java layer that sorts, decodes,
records and plays what arrives. This directory holds TLA+ modules of its core
logic, the TLC configurations that model-check them and theorems about them
whose proofs TLAPS checks. `PROJECT.json` maps every definition to the source
lines it models, lists the runs, and lists the hazards that the properties are
for. Paths below are relative to `src/app/src/main/cpp` unless they say
otherwise.

Checking a run: `tlc -config UdtTransfer.cfg UdtTransfer`. Checking proofs:
`tlapm UdtTransferProofs.tla`.

## 1. Inventory

| Part | State it keeps | Operations | What is hard, and what makes it correct |
|---|---|---|---|
| **UDT transport** `udt/` | | | The only part with a protocol of its own; chosen as the core. |
| - numbering (`GlideWindow.h`) | 31-bit sequence numbers that start again at 0 | increase, decrease, continuity test | comparisons across the restart |
| - receiver (`ReceiveGlideWindow`, `ReceiveLossList`, `AckHistoryWindow`, handlers in `UDTSocket`) | left edge, buffered packets, lost numbers, `_lrsn`, ACK history, `_largestACK2SeqNumber` | data packet, ACK task, NAK task, ACK2 | packets in any order and repeatedly; three lists kept by three objects must agree; the callback sees every packet once and in order; an ACK may only cover what was delivered |
| - sender (`SendGlideWindow`, `SendLossList`, `sendLoop`, handlers) | send buffer, window edges, unacknowledged packets, loss list, window size | `postData`, send, resend, ACK, NAK, EXP | late and repeated ACKs; a window that shrinks; two waits on one condition variable under two mutexes; nothing unacknowledged is forgotten, nothing posted is stuck |
| - NAK packets | a compressed list of numbers | compress, expand | runs and single numbers, array size |
| - handshake (`synTask`, `handleSynPacket`, `UDTMultiplexer::receiveDataTask`) | status, cookie, peer id and initial number on both sides | SYN timer, first request, cookie request, answers | repeated and late SYN packets, the answer racing the send thread; one server socket per client, both sides agree on the first number |
| - connection end (`shutdown`, `expTask`) | `_running`, `_continuousTimeouts` | shut down, give up the peer | joins between threads, lost wake-ups |
| - multiplexer (`UDTMultiplexer`) | socket map, free ids, handler thread | add, remove, remove all, dispatch | recycled ids, timeouts of `addSocket`, joins under a mutex |
| - datagrams | packets of a datagram, reassembly buffer | cut, reassemble | packets in order only in reliable mode, buffer limit |
| - rate control | receive rate, link capacity, round trip time | on ACK, NAK, EXP | arithmetic; abstracted |
| **Threads and queues** `util/` | message queue, looper, task lists, thread pool, timers, `RWLock`, `MemoryPool` | post, next, quit, add and clear tasks, cancel | unlock before poll, idle timeout against stop, timer cancelled by its own task, writer preference |
| **Asio TCP client, UDP server** `util/` | connection state, send queue | connect, reconnect, send, receive, framing | a failed write leaves its message at the front; reconnect and timers |
| **UAS client** `uas/` | connection, waiting requests | request and response, heartbeat, login | answers matched to waiters |
| **Stream sessions** `plateform/StreamSessionManager`, `stream/` | session map, stream ids | start, stop, callbacks | ids recycled; shutdown under the mutex the callback needs |
| **RTSP client** `rtsp/` | state of the dialogue, receive buffer | OPTIONS, DESCRIBE, SETUP, PLAY, interleaved frames | answers out of step, partial frames |
| **P2P keep-alive, SDK servers** `p2p/`, `opensdk/` | table of clients | heartbeat, expiry | entries that are made and not kept |
| **Facade, JNI** `plateform/`, `*-lib.cpp` | handles of the managers | start, stop | thin wrappers |
| **Java core** `java/.../vmsdk/core` | RTP sort list, bounded buffers, decoder and record threads | receive, offer, take, start, stop | 16-bit numbers that start again, eviction, interrupted waits |
| **Codecs, ciphers, rendering, discovery, UI** | - | - | library calls, bit-level code, pure I/O; not modelled |

How the parts interact: the Java layer calls the JNI glue, which calls the
facade. The facade's managers own network clients that run on their own threads
and report through callbacks. A UDT socket runs a receive thread (packets from
a queue, and four periodic tasks: SYN, ACK, NAK, EXP) and a send thread; the
application's thread only fills the send buffer. A multiplexer's UDP thread
puts datagrams into the queue of the socket they are for and makes a socket for
a connection request; a handler thread adds and removes sockets.

## 2. Modules

| Module | What it is | Correspondence |
|---|---|---|
| `UdtSeq` | numbering | operators with the names of `GlideWindow.h` |
| `UdtReceiver` | receiver, lists as sets | one action per handler of the receive thread: `HandleDataPacket`, `AckTask`, `HandleAck2Packet` |
| `UdtLists`, `UdtReceiverList` | the scans of the C++ lists; the receiver with these lists and one callback per packet | implements `UdtReceiver` (refinement mapping: a list stands for its elements) |
| `UdtDatagram` | datagrams cut by `postData` and put together by `reliablePacketCallback`, on top of `UdtReceiverList` | one action per handler of the receiver, with every callback it makes |
| `UdtSender` | sender, lists as sets | `PostData` (application), `SendNew`, `SendRefused`, `TakeLoss` (send thread), `HandleAckPacket`, `HandleNakPacket`, `ExpTask` (receive thread) |
| `UdtTransfer` | both ends and the network between them | composes the actions of the two ends; implements `ReliableStream` |
| `ReliableStream` | abstract specification: what is handed over is a growing prefix of what was accepted | - |
| `UdtNak` | NAK compression and expansion as folds over the list | `sendNakPacket`, `handleNakPacket` |
| `UdtHandshake`, `MCUdtHandshake` | clients against a listener | `synTask`, `handleSynPacket`, `receiveDataTask`; the handling of a request is split where the send thread can come between |
| `UdtSendLoop` | the sender's threads, split at their locks, waits and notifications | `sendLoop`, `postData`, the handlers that wake it |
| `UdtMultiplexer` | sockets made and removed by the handler thread; ids used again; shutdown, give-up and the joins under `_mutex` | `addSocket` and `runWithScissors`, the tasks of the handler thread, `UDTSocket::shutdown`, the end of `expTask` |
| `RWLock` | the read-write lock | one action per lock operation up to its wait, and per wake-up |
| `MessageQueue` | queue, looper, handlers, quit, with a clock | `sendMessageDelayed` in two steps (due time, then enqueue), `next` split where it holds no mutex |
| `AsioTcpClient` | handlers of the io thread, send queue, reconnect timer, header and body | one action per handler and per call of the application |
| `UasClient` | requests and answers over `AsioTcpClient` | `sendAndWaitRespPacket` split at its locks and its wait, `handleResp`, heartbeat, `shutDown`, `startUp` |
| `RtspClient`, `MCRtspClient` | the dialogue from OPTIONS to PLAY and the parser of answers and frames | one action per read of any size, per connection change and per call of the application |
| `RtpSortFilter` | `RTPSortFilter.java` | `Receive` is one packet that arrives, with all it hands over and reports |
| `UdtTransferProofs` (about `UdtReceiver`, `UdtSender`, `UdtTransfer`, `UdtSendLoop`), `UdtListProofs` (about `UdtReceiverList`, `UdtDatagram`, `UdtNak`), `UdtMultiplexerProofs`, `UtilProofs` (about `RWLock`, `MessageQueue`), `UdtHandshakeProofs`, `UasClientProofs`, `RtspClientProofs`, `RtpSortFilterProofs` | theorems | section 5 |

Conventions. A packet is its sequence number; its content, size and header bits
do not matter to any property. The network is the set of what was sent: a
packet may arrive at any later time, repeatedly or never, which covers loss,
duplication, delay and reordering. `net` and `dataNet` only grow, so a packet
that is late by a whole connection is included. Mutated forms of a definition,
which show that a property can fail, stand next to it and are marked
"Mutant"; no specification uses them.

Decisions that are not obvious from the code:

- *Receiver.* The receive thread runs packet handlers and periodic tasks
  one after the other, so each is one action. The window moves first and the
  loss list is brought up to date from the moved window, as in
  `handleDataPacket`. In `ReceiveGlideWindow` both branches, wrapped or not,
  test the same condition, and `InWindow` keeps that.
- *Acknowledging.* `ackTask` sends the same number again only two round trips
  after the last time. No clock is modelled: the repetition may happen and need
  not. The ACK's own number is compared with the largest one an ACK2 came for.
- *Sender.* `trySendPacket` subtracts the edges as unsigned numbers, so a right
  edge below the left one admits nothing; `removePacketBeforeSeqNumber` compares
  a single entry for equality only, so `LossAfter` has two cases. A packet keeps
  the number it was given when the window refused it.
- *Rates.* The window size after an ACK is any member of `SendWindows`; the
  pacing interval is one step that always ends. Congestion control and the median
  filter are left out for that reason: the safety properties hold for every
  result they can have.
- *Handshake.* Numbers are counted from a side's own initial number, so 0 is
  that number. A server socket is created with the id it has in the listener's
  list. `Answer` is a step of its own because the state change that starts the
  server's send thread comes before it (`UDTSocket.cpp:566`).
- *Send loop.* "dozing" is a thread that has tested its condition and not yet
  gone to sleep; it holds the mutex of that wait. A notification reaches threads
  that sleep. The receive thread changes the loss list without that mutex and
  takes `_sendWindowMutex` to notify, which is what makes one of the two waits
  safe and the other not. `Shutdown` may come at any moment; `receiveLoop` looks at
  `_running` once per round, so that a handler may still run after it.
- *Datagrams.* A unit of data is the pair of its datagram and its place there, so
  that a property can tell whose data the application got. `_maxPacketSize` is a
  constant.
- *Multiplexer.* Joining a socket means waiting for its receive thread; its send
  thread is taken to end, and `UdtSendLoopShutdown.cfg` shows when it does not.
  `_mutex` is a variable only where it is kept over several steps
  (`addSocket`, `removeAllSocket`); elsewhere it is the guard `MutexFree`. A call of
  `addSocket` that gave up leaves its task in the queue, which then makes a socket
  that nobody holds and wakes up no other call (`OfLastCall`). A
  socket's number is its order of creation, its id what `getSocketId` gives it.
- *Read-write lock.* A thread that waits is asleep or awake; a notification, or
  nothing at all, makes it awake, and it looks at the counters when it has the
  mutex again.
- *Message queue.* The due time is computed before the queue's mutex is taken, so
  a post is two steps and others may come between. The looper's decision to sleep
  and its wait are two steps as well; `nativeWake` in between is lost, and the
  timeout of the wait is what repairs it.
- *TCP client.* An operation that ended is put at the end of `ready`, the order in
  which the io thread runs handlers. A closed socket lets its operations end with
  an error, the way asio does, and the code handles "operation cancelled" (125)
  by itself. `UasClient` extends the module, since the io thread's handlers call
  into it.
- *UAS client.* A message is a number: 0 is a heartbeat, others are requests and
  the sequence number of their answer. A header and a body are two reads.
- *RTSP.* Bytes are numbers; a whole answer line is one number that holds its
  CSeq and code, followed by the empty line the parser looks for. A frame keeps
  its four bytes of header and its data, since where a read cuts them is the
  point. The loop over the bytes of a read is a recursive function with one
  application of `ScanByte` per byte; the bytes of a frame that is complete in the read
  are passed over. A frame holds an RTP or RTCP packet and is not empty. The server
  asks for authentication or not.
- *RTP.* A packet is its position in the stream, the filter sees its number
  only; the properties compare positions.

## 3. Runs

All bounds are named in the configurations. Small numbers are enough because
windows, buffers and lists are as small: a case needs a packet in order, one
beyond a gap, one beyond two gaps, a repeated one and one outside the window; a
socket, its successor under the same id and one more; two requests that
overtake each other.

| Run | Bounds | States | What it shows |
|---|---|---|---|
| `transfer` | 5 packets, send windows {1, 4}, receive window 3, history of 2, 3 ACKs | 728,498 | No order, loss or repetition makes the receiver skip or repeat a packet (`ImplementsStream`). The loss list is exactly the gaps and the ACK number the one the receiver waits for, although they are computed from different objects than the window. The sender keeps what is unacknowledged (`UnackedAreKept`), takes for arrived only what was delivered (`AckedWasDelivered`), and every missing packet can be sent again (`MissingCanBeResent`). A receiver that has gone silent about a number has a sender that knows (`SilentOnlyIfSenderKnows`). Window sizes are chosen so that the sender may run past the receiver's window and the window may shrink below what is in flight; three ACKs against a history of two overwrite an entry. |
| `receiver_lists` | 7 packets, window 3, history of 2, 3 ACKs; datagrams of 1, 3, 5 and 7 units, 2 units in a packet, a buffer of 5 | 153,496 | The lists, scanned as the code scans them, implement the set-level receiver; callbacks come once and in order; every complete datagram is handed over once, and whole if it fits, also behind one of 7 units that does not (`DatagramsArriveWhole`). |
| `nak` | numbering that starts again inside the window, all 256 loss lists | 768 | What the receiver lists is what the sender resends. The one exception is stated in the property: the continuity test takes 0 to follow `MAX - 1`, so the sender may resend `MAX` too. |
| `handshake` | two clients of one host, one data packet each way | 1,570 | One server socket per client; it connects only with its cookie and starts from the client's first number, whatever requests come late. Liveness under fairness, below. |
| `send_loop` | 3 packets, windows {1, 2}, 2 lost transmissions, numbers around 16 (every 16th number resent changes the loop's path) | 22,396 | The wait for an ACK is never slept through, `postData` is never missed, every packet is sent, every gap repaired, unless the socket is shut down. |
| `multiplexer` | 3 sockets | 122,995 | No id is lost or used twice at once (`IdsArePartitioned`). An open socket gets what is addressed to it unless a removal for its predecessor was asked twice (`OpenSocketIsRouted`): that exception is the code's, which removes by id. A socket whose peer is given up leaves the map although its receive thread has to wait for the mutex `addSocket` keeps (`GivenUpIsForgotten`). |
| `rw_lock` | 4 threads, each of which may read and write: two readers that hand over to each other keep two writers waiting, or the other way round | 1,430 | Exclusion, no wake-up that is lost between notification and mutex, and readers that keep coming do not keep all writers out. |
| `message_queue` | 2 threads, delays {0, 2}, 2 messages each, time up to 3 | 278,623 | Messages of one thread and delay keep their order, though due times are taken outside the lock; `quitSafely` leaves nothing behind; every message leaves the queue, though a wake-up can fall between the decision to sleep and the wait. |
| `uas_client` | 2 threads, 2 requests, 1 lost connection, 1 heartbeat, 2 starts | 1,722,520 | One write at a time, requests written once and in order, every call returns its own answer or none, no slot outlives its call, and the client never stops watching its connection, though two failures of one connection each start a reconnection. The queue of messages is left without a write only by a step that loses, replaces or ends the connection (`QueueStallsWithLink`); that it then stays so on the next connection is what `UasClientQueue.cfg` shows. A later start may fail to resolve the address. |
| `rtp` | list of 2, numbers up to 31 starting at 28, 10 positions, 3 lost in a row, packets up to 6 behind | 4,941 | Packets leave in the order of the stream across the restart of the numbers, gaps are reported in order and with the number of packets they lack, or one less across the restart (`LossIsCounted`), and only a packet that more packets have overtaken than the list holds is given up. Each packet arrives once: a repeated one can be handed over twice. |
| `rtsp` | frames whose data looks like another frame or like the end of an answer, on channels 1 and 2, 2 frames, 1 lost connection, 2 calls of pause or play | 165,272 | Frames reach the application whole and in order wherever the reads cut the bytes, and a connection that stays up gets through to PLAY, with authentication or without. |

`uas_shutdown` (expects a violation, a finding in `PROJECT.json`): with the
bounds of `uas_client`, TLC reaches a state in which `shutDown` joins the io
thread with `AsioTcpClient::_mutex` held; a second request waits for that mutex in
`send` with `UasClient::_mutex` held; and the io thread, which has read the
answer to a first request, waits for the latter in `handleResp`. The heartbeat
can close the same circle after a lost connection, where `onClose` waits for its
thread: `UasClientHeartbeat.cfg` below.

Deadlock is checked for `rw_lock`; in the other models a system whose bounded work is done
stops, as the program does when nobody asks anything of it.

Further configurations state what a comment of the code says, or what one would
like to hold, and TLC refutes them. They are kept beside the runs because they
show where the limits of the properties above come from:

| Configuration | Module | Refuted | What TLC finds |
|---|---|---|---|
| `UdtReceiverListWrap.cfg` | `UdtReceiverList` | `FirstLossIsExpected` | a packet that closes a gap while the window crosses the largest number is taken for a later one; delivered numbers join the loss list, which is sorted backwards there |
| `UdtSenderWrap.cfg` | `UdtSender` | `NextNumberIsAdmitted` | after the largest number the window admits nothing any more |
| `UdtNakArray.cfg` | `UdtNak` | `EntriesFitTheArray` | a NAK with isolated numbers has more entries than its array |
| `MCUdtHandshakeAnswer.cfg` | `MCUdtHandshake` | `SecondAnswerMeansConnected` | two answers connect a client whose server socket is not connected |
| `MCUdtHandshakeNumber.cfg` | `MCUdtHandshake` | `ClientExpectsFirstPacket` | a server that sends at once gives its client too late a first number |
| `MCUdtHandshakeHosts.cfg` | `MCUdtHandshake` | `RequestMakesSocket` | of two hosts whose socket ids are equal only one gets a connection |
| `UdtSendLoopExp.cfg` | `UdtSendLoop` | `ExpWakesSendThread` | the EXP timer does not wake a send thread that waits for data |
| `UdtSendLoopShutdown.cfg` | `UdtSendLoop` | `SendThreadEnds` | a shutdown that falls between the send thread's test and its sleep is not noticed, and whoever joins the thread waits for good |
| `UasClientHeader.cfg` | `UasClient` | `HeaderThenBody` | after a reconnection the first header is taken for the rest of an old packet |
| `UasClientHeartbeat.cfg` | `UasClient` | `HeartbeatJoinCanEnd` | `shutDown` joins the io thread, which waits in `onClose` for the heartbeat's thread, which waits in `send` for the mutex that `shutDown` holds |
| `UasClientQueue.cfg` | `UasClient` | `QueueGoesOn` | a message whose write failed or was aborted stays at the front of the queue of a client that is connected again, and nothing is written any more |
| `RtpSortFilterMissed.cfg` | `RtpSortFilter` | `MissedIsCounted` | a gap across the largest number is reported one too small |
| `MCRtspClientRefused.cfg` | `MCRtspClient` | `RefusedIsWrongPassword` | a good password counts as wrong after a reconnection, because the server's nonce is new and the old attempt is remembered |

## 4. Fairness

`UdtTransfer` and the receiver's modules state none: their properties are
safety, and over a network that may lose everything nothing must happen.

- `UdtSendLoop`: weak fairness of the send thread and of a started handler,
  because threads run; strong fairness of receiving an ACK, receiving a NAK and
  the EXP timer, because the peer repeats its ACKs and NAKs and the timer is
  periodic, while each of them is handled only when the receive thread is free;
  the same of the receive thread's look at `_running`.
  The number of lost transmissions is bounded, so that a packet sent often enough
  arrives.
- `UdtHandshake`: weak fairness of the SYN timer, of the listener, of answers and
  of a client's handler; strong fairness of the two requests that make progress,
  because a socket's queue is first in, first out and a thread that is busy
  answering comes back to it. `HandshakeCompletes` thereby assumes that no SYN
  packet is lost for good: a lost final answer is not recovered by the code,
  since a connected server socket ignores further requests (hazard at
  `UDTSocket.cpp:519`).
- `UdtMultiplexer`: weak fairness of the handler thread and of each receive
  thread, because they run; and of `AddGivesUp`, because `runWithScissors` waits
  with a timeout.
- `RWLock`: weak fairness of each thread that is awake or holds the lock: it goes
  on and releases what it holds, as every user in the program does. Nothing is
  assumed of a sleeping thread, nor that a thread ever asks for the lock.
- `MessageQueue`: weak fairness of the clock, of the looper, and of the end of
  its wait once the timeout is over. Nobody has to post or to quit.
- `RtspClient`: weak fairness of connecting, of reading and of the server's
  answers; `OnceUpItPlays` concludes only for behaviours without a lost
  connection and without shutdown.

No fairness is assumed of the application.

## 5. Proofs

TLAPS proves the following for all values of the constants. The assumptions on
the constants are named in the modules (`SeqAssumption`, `ReceiverAssumption`,
`SenderAssumption`, `MuxAssumption`, `ThreadsAssumption`, `QueueAssumption`,
`HandshakeAssumption`, `LossesAssumption`, `FramesAssumption`, `TcpAssumption`, `UasAssumption`,
`ListAssumption`, `FilterAssumption`) and say that bounds are natural numbers,
windows not empty, the set of threads finite and a client an address with a socket
id other than 0. The UDT theorems further assume `NoWrap` (for the sender alone
`SndNoWrap`): the numbers of the connection stay below the largest one. They do
not hold without it; `UdtReceiverListWrap.cfg` and `UdtSenderWrap.cfg` show what
happens there. `NakLosesNothing` needs less, namely that a report holds no more
packets than there are numbers (`Packets <= MaxSeq + 1`): numbers that restart are
part of what it is about. The theorems about `RtpSortFilter` assume
`NumbersSuffice`, explained below.

- `UdtTransferProofs`, the receiver: `ReceiverInvariant` is inductive. The properties alone are
  not: the window, the loss list and `_lrsn` are updated separately, and that they
  agree needs `BufferShape`, namely that nothing buffered continues the left edge
  and that `_lrsn` is the left edge or itself buffered. From it follow that delivery
  has no gap, the loss list is exact, the ACK number is the one expected (lemma
  `AckNumber`), no ACK covers an undelivered packet, and no ACK2 is ahead of the
  receiver.
- `UdtTransferProofs`, the sender: `SenderInvariant`, against any order and repetition of ACKs
  and NAKs for numbers sent. `NumberGiven` says where the last number given out
  is, and with the count of posted packets it bounds every number, so that none
  wraps. From it: the window is exactly what is unacknowledged, numbering has no
  gap, the flight is bounded, the window never moves back.
- `UdtTransferProofs`, the connection: `TransferInvariant` joins both with what is on the network
  (`NetworkInv`: only sent numbers travel; `AckInv`: what the sender takes for
  acknowledged, and every ACK2 on its way, is covered by deliveries). It gives the
  safety properties of the `transfer` run and `ConnectionIsAStream`: the initial
  state maps to an initial state of `ReliableStream`, and every step to a step of
  it or to none.
- `UdtMultiplexerProofs`: `IdInv` adds to `IdsArePartitioned` the types and that a
  handler thread that clears the map belongs to a multiplexer that no longer runs.
  `RouteInv` is what `OpenSocketIsRouted` needs to be inductive: the map names
  sockets by their own ids, an open socket has asked for its removal at most
  once, every removal in the queue was asked by the socket it stands for and there
  are no more of them than were asked (`RemovalsAreCounted`), and a socket that has
  lost its place shares its id with one that asked twice. The count is what links
  the queue to the exception in the property.
- `UdtListProofs`, the receiver: `ListInv` says of each of the code's lists that it is
  sorted and holds the set `UdtReceiver` keeps in its place, and that the packets
  handed over are those up to the left edge, in order. It rests on lemmas
  about what inserting into and removing from a sorted list gives, and carries the
  inductive invariant of `UdtTransferProofs` over to the lists.
  From it: `PacketsArriveOnceInOrder`, and `ListsImplementReceiver`, where
  each step of the lists maps to the step of the sets with the same name.
- `UdtListProofs`, the NAK: `RoundTrip` says that `Expand(Compress(list))` has the
  elements of `list`, for every list of distinct numbers. Compression and
  expansion are folds, and the induction theorems of the library cannot be used, so
  the argument takes the least step at which an invariant of the loop
  fails (lemma `Induction`). The invariant of compression is that what was written
  and the run being collected stand for what was read; of expansion, that
  what was read of the array and what was expanded stand for the same numbers.
- `UdtListProofs`, datagrams: `AssemblyInv` says where in the queue each datagram's
  packets are (`QueueContents`) and what the buffer holds between two packets: the
  units of the datagram under way from some place on, and from its first if it
  fits (`Assembled`). One packet keeps that (`AssemblyStep`), hence every run of
  callbacks does (`AssemblySteps`), and with `CallbacksOnceInOrder` the
  callbacks are the queue. It gives `DatagramsAreNotMixed`, for all lengths of
  datagrams, packets and buffer.
- `UtilProofs`, the lock: exclusion and wake-ups follow only together with
  `CountersCount`, by which `_reader`, `_writer` and `_reading` are the numbers of
  threads that wait and read; it is proved for any finite set of threads with the
  cardinality lemmas of the library.
- `UtilProofs`, the queue: `OrderInv` adds to the order of the list that it is sorted
  by due time, that no due time lies beyond the clock by more than its delay, and
  that a post on its way is later than what its thread has posted and what was
  handled. `EndInv` says that after `quit` only due messages remain.
- `UdtHandshakeProofs`: a server socket that connects sees a request and nothing
  else, so `HandshakeInv` traces what it sees back to the socket: an answer on its
  way is its socket's (`AnswersAreTrue`), a client has learnt only what is true
  (`ClientsKnow`), and a request carries its client's cookie or none
  (`RequestsAreTrue`). With these, and with one socket for each socket id of a
  client, the three properties hold for any set of clients and with SYN packets
  late and repeated.
- `UdtTransferProofs`, the send loop: `DataWait` and `AckWaits` say of the send thread that is
  about to sleep what the two properties say of the one that sleeps, since what it
  tested may change in between. `DataWait` is inductive because `postData` needs
  the mutex; `AckWaits` because whoever changes the loss list still has to notify,
  and needs the mutex that the thread gives up only by sleeping.
- `UasClientProofs`: six parts, inductive together. `TypeInv` includes that the
  handler the io thread is in is still at the front of `ready`, without which
  nothing is known of what a handler takes off. `WriteInv`: a message that was
  written is still at the front of the queue until the one handler that takes it
  off has run, so that no write starts in between. `OrderInv` follows requests
  from the thread that sends to the posted handlers, the queue and what was
  written; `SenderIsLast` says that a thread between the choice of its number and
  its call of `send` has the largest number, which holds because it keeps `_mutex`.
  `SlotInv` adds to the two properties of the slots that a slot holds its own
  answer or none and that calls in progress have numbers of their own. `WatchInv`
  says why the timer may do nothing when it fires on a client that is connecting:
  an attempt is under way, or its outcome among the handlers not begun. `DownInv`
  says that `shutDown` has returned only when the io thread has ended. The action
  property `QueueStallsWithLink` follows from `WriteInv`, step by step.
- `RtspClientProofs`: `receiveData` is a loop over the bytes of a read that skips,
  keeps and hands over parts of it, and what it does with a byte depends on where the
  read began. The proof gets rid of the reads. A point is what the parser knows after
  a byte, with what it has handed over; `Taken` is the point after one more byte. The
  loop is at the point of the byte before the one it looks at next (`ScanByteFits`,
  `LoopFits`), hence a read ends at the point of its last byte (`ReadEnds`), and two
  reads do what one does (`ReadsMayBeCutAnywhere`). Points are `Sound`: a `$` in the
  window's first place has opened a frame, and what may still become a header counts
  as kept, so that a connection that ends there ends inside a packet. A point is
  `Quiet` between packets, with no `$` in the window; from one such point a text
  without `$` leads to another and hands over nothing, however many empty lines it has
  (`TextIsQuiet`), and a frame leads to another and hands over its data, whatever the
  data contains (`FrameIsHanded`). `StreamInv` then says: unless a connection ended
  inside a packet, the bytes on their way lead the parser from where it is to a point
  that has handed over a prefix of what was sent, and all of it, at a quiet point, while the
  connection is up. A lost connection cuts these bytes, and its end leaves a quiet
  point or counts as torn. `FramesAreWhole` follows, for all payloads of 1 to 65535
  bytes and all channels of one byte.
- `RtpSortFilterProofs`: under `NumbersSuffice`, no packet arrives twice, a late packet
  is less than half of the numbers late, and the packets a list holds spread over no more than half of
  the numbers. The first is not a convenience: the filter hands over a repeated
  packet again when it is not in its list. The others leave a wide margin in the
  program, whose list holds 5 packets (`Decoder.java:496`) of 65535 numbers: with a
  full list, some 5,400 packets in a row may be lost. The invariant `OrderInv` works
  with positions in the stream and not with their numbers: what
  has arrived is in the list or was passed (`ListedOrPassed`), what arrives is
  never further ahead than the losses in a row allow (`Dense`), hence all the filter compares
  lies within half of the numbers (`Spread`, `Near`), where comparing numbers
  that restart is comparing positions (`BeforeIsLess`). From it:
  the order, the action property `OnlyOvertakenAreLate`, and
  `EveryGapIsReported` and `EveryLossIsCounted`, whose further invariant counts the
  gaps handed over so far.

Every safety invariant and every action property that a run checks is so stated by
a theorem. Only model-checked is what needs fairness, since liveness and ENABLED are
out of the prover's reach: `HandshakeCompletes`, `PostedIsSent`, `GapIsRepaired`,
`GivenUpIsForgotten`, `SomeWriterWrites`, `EveryMessageLeaves` and `OnceUpItPlays`.

## 6. Not modelled

- Rate control and the median filter: any result is allowed instead.
- Rendezvous mode of the handshake: as the code stands such a socket processes
  no answer (`UDTSocket.cpp:583`) and never connects, so there is nothing to
  check beyond that. Negotiation of packet and window size.
- `ThreadPool` and `TaskThread`: `addTask` has no live caller. `MemoryPool`: a free
  list under one mutex.
- `StreamSessionManager` and `MainModule`: maps of clients under one mutex; what is
  hard about them, a shutdown that joins a thread which needs the same mutex, is
  the subject of `uas_shutdown`.
- `AsioUdpServer`: sends one datagram after the other; the network of
  `UdtTransfer` loses and reorders more than it does.
- `BlockingBuffer`: its race is a hazard of `PROJECT.json`.
- Packet layouts, codecs, ciphers, rendering, discovery, JNI glue and the user
  interface: library calls, bit-level code or pure I/O.
- Generated and vendored code: the headers of ffmpeg and protobuf and the
  generated `*.pb.*` make up most of the C and C++ lines in the repository and
  contain none of the program's own logic.
- `messageDropRequest` and the receive window's `setWindowSize` have no caller and
  are no actions.

`PROJECT.json` gives a reason for each component.

## 7. What is left

1. `UdtHandshake`: the end of a half-open socket, the composition with
   `UdtMultiplexer` (a late datagram of a former connection reaches the socket that
   has its id now).
2. `TaskThread` and `BlockingBuffer`, should they get users.
