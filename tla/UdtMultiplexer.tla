--------------------------- MODULE UdtMultiplexer ---------------------------
(***************************************************************************)
(* The sockets of a UDTMultiplexer: how they are made, found by their id,  *)
(* and removed.  One handler thread makes and removes them, fed by a queue *)
(* of messages; application threads and the sockets' receive threads put   *)
(* messages there under _mutex.  addSocket keeps _mutex while it waits for *)
(* the handler, and removeAllSocket keeps it while it joins threads.       *)
(*                                                                         *)
(* A socket is a number in the order of creation; its id is what the peer  *)
(* addresses it by, and is used again after its removal.  Of its threads   *)
(* the receive thread is modelled.  A shutdown joins the send thread too,  *)
(* which is taken to end at once here: UdtSendLoop shows when it does not. *)
(***************************************************************************)
EXTENDS Naturals, Sequences, Functions, FiniteSets

CONSTANT MaxSockets   \* bound: sockets ever made

ASSUME MuxAssumption == MaxSockets \in Nat

VARIABLES
  running,    \* UDTMultiplexer::_running
  holder,     \* who keeps _mutex over more than one step: addSocket or the handler
  queue,      \* the messages for the handler thread, oldest first
  handler,    \* what the handler thread does, and with which socket
  socketMap,  \* _udtSocketMap: id -> socket
  recovered,  \* _recoveredSocketIds
  lastId,     \* _udtSocketId
  made,       \* sockets made
  socketId,   \* socket -> UDTSocket::_socketId
  open,       \* sockets whose _running is set
  receiver,   \* socket -> its receive thread
  owner,      \* socket -> where the application is with it
  adder,      \* the application thread in addSocket
  asked       \* socket -> how often it asked to be removed

muxVars == <<running, holder, queue, handler, socketMap, recovered, lastId, made,
             socketId, open, receiver, owner, adder, asked>>
idVars == <<socketMap, recovered, lastId, made, socketId>>

Sockets == 1 .. MaxSockets

Ids == 1 .. MaxSockets

Idle == [does |-> "nothing", socket |-> 0]

MutexFree == holder = "nobody"

IsLeast(x, S) == x \in S /\ \A y \in S : x <= y

Task(what, i) == [what |-> what, id |-> socketId[i], of |-> i]

\* sendMessage, which a queue that is quitting refuses.
Post(task) == queue' = IF running THEN Append(queue, task) ELSE queue
-----------------------------------------------------------------------------
(***************************************************************************)
(* Socket ids.                                                             *)
(***************************************************************************)

\* Mutant: a recovered id stays where it was found.
RecoveredIdIsKept(id) ==
  /\ IF recovered # {} THEN IsLeast(id, recovered) ELSE id = lastId + 1
  /\ lastId' = IF recovered # {} THEN lastId ELSE id
  /\ UNCHANGED recovered

GetSocketId(id) ==
  /\ IF recovered # {} THEN IsLeast(id, recovered) ELSE id = lastId + 1
  /\ recovered' = recovered \ {id}
  /\ lastId' = IF recovered # {} THEN lastId ELSE id

\* Erase the socket and recover its id, if there is one.
Forget(id) ==
  IF id \in DOMAIN socketMap
  THEN /\ socketMap' = Restrict(socketMap, DOMAIN socketMap \ {id})
       /\ recovered' = recovered \cup {id}
  ELSE UNCHANGED <<socketMap, recovered>>
-----------------------------------------------------------------------------
(***************************************************************************)
(* The application.                                                        *)
(***************************************************************************)

AddSocket ==
  /\ adder = "idle" /\ MutexFree /\ running
  /\ made + Cardinality({ k \in DOMAIN queue : queue[k].what = "add" }) < MaxSockets
  /\ holder' = "adder" /\ adder' = "waiting"
  /\ Post([what |-> "add", id |-> 0, of |-> 0])
  /\ UNCHANGED <<idVars, running, handler, open, receiver, owner, asked>>

\* The time for addSocket is over; its task stays in the queue.
AddGivesUp ==
  /\ adder = "waiting"
  /\ adder' = "idle" /\ holder' = "nobody"
  /\ UNCHANGED <<idVars, running, queue, handler, open, receiver, owner, asked>>

\* UDTSocket::shutdown: stop the threads, then have the socket removed.
ShutdownSocket(i) ==
  /\ owner[i] = "holds"
  /\ owner' = [owner EXCEPT ![i] = "joining"]
  /\ open' = open \ {i}
  /\ UNCHANGED <<idVars, running, holder, queue, handler, receiver, adder, asked>>

ShutdownRemoves(i) ==
  /\ owner[i] = "joining" /\ receiver[i] = "ended" /\ MutexFree
  /\ owner' = [owner EXCEPT ![i] = "done"]
  /\ asked' = [asked EXCEPT ![i] = @ + 1]
  /\ Post(Task("removeOnly", i))
  /\ UNCHANGED <<idVars, running, holder, handler, open, receiver, adder>>

Shutdown ==
  /\ MutexFree /\ running
  /\ Post([what |-> "shutdown", id |-> 0, of |-> 0])
  /\ running' = FALSE
  /\ UNCHANGED <<idVars, holder, handler, open, receiver, owner, adder, asked>>
-----------------------------------------------------------------------------
(***************************************************************************)
(* A receive thread.                                                       *)
(***************************************************************************)

\* expTask gives the peer up and is about to take the multiplexer's _mutex.
GiveUp(i) ==
  /\ receiver[i] = "runs" /\ i \in open
  /\ receiver' = [receiver EXCEPT ![i] = "removing"]
  /\ UNCHANGED <<idVars, running, holder, queue, handler, open, owner, adder, asked>>

\* Mutant: the receive thread ends without a message to the multiplexer when the
\* mutex is taken.
GiveUpUnlessLocked(i) ==
  /\ receiver[i] = "removing"
  /\ receiver' = [receiver EXCEPT ![i] = "ended"]
  /\ asked' = [asked EXCEPT ![i] = @ + 1]
  /\ IF MutexFree THEN Post(Task("remove", i)) ELSE UNCHANGED queue
  /\ UNCHANGED <<idVars, running, holder, handler, open, owner, adder>>

GiveUpRemoves(i) ==
  /\ receiver[i] = "removing" /\ MutexFree
  /\ receiver' = [receiver EXCEPT ![i] = "ended"]
  /\ asked' = [asked EXCEPT ![i] = @ + 1]
  /\ Post(Task("remove", i))
  /\ UNCHANGED <<idVars, running, holder, handler, open, owner, adder>>

LeavesLoop(i) ==
  /\ receiver[i] = "runs" /\ i \notin open
  /\ receiver' = [receiver EXCEPT ![i] = "ended"]
  /\ UNCHANGED <<idVars, running, holder, queue, handler, open, owner, adder, asked>>
-----------------------------------------------------------------------------
(***************************************************************************)
(* The handler thread.                                                     *)
(***************************************************************************)

Handles(what) == handler.does = "nothing" /\ queue # <<>> /\ Head(queue).what = what

Handled == queue' = Tail(queue)

\* addSocketTask: the map takes the socket only if its id is not there.
MakeSocket ==
  /\ made < MaxSockets
  /\ made' = made + 1
  /\ \E id \in Ids :
       /\ GetSocketId(id)
       /\ socketId' = [socketId EXCEPT ![made'] = id]
       /\ socketMap' = [k \in DOMAIN socketMap \cup {id} |->
                          IF k \in DOMAIN socketMap THEN socketMap[k] ELSE made']
  /\ open' = open \cup {made'}
  /\ receiver' = [receiver EXCEPT ![made'] = "runs"]

\* The task is that of the last call of addSocket.  A call before that one gave up,
\* and a task (BlockingRunnable) wakes up only the call that it belongs to.
OfLastCall == \A k \in 2 .. Len(queue) : queue[k].what # "add"

\* A caller that gave up never learns of its socket.
Add ==
  /\ Handles("add")
  /\ MakeSocket
  /\ IF adder = "waiting" /\ OfLastCall
     THEN owner' = [owner EXCEPT ![made'] = "holds"] /\ adder' = "idle" /\ holder' = "nobody"
     ELSE UNCHANGED <<owner, adder, holder>>
  /\ Handled
  /\ UNCHANGED <<running, handler, asked>>

\* receiveDataTask: the request of a new peer.  The application gets the socket
\* with the callback of its status.
Accept ==
  /\ running /\ handler = Idle
  /\ made + Cardinality({ k \in DOMAIN queue : queue[k].what = "add" }) < MaxSockets
  /\ MakeSocket
  /\ owner' = [owner EXCEPT ![made'] = "holds"]
  /\ UNCHANGED <<running, holder, queue, handler, adder, asked>>

RemoveOnly ==
  /\ Handles("removeOnly")
  /\ Forget(Head(queue).id)
  /\ Handled
  /\ UNCHANGED <<lastId, made, socketId, running, holder, handler, open, receiver, owner,
                 adder, asked>>

\* removeSocketTask stops the socket's threads before it forgets it.
Remove ==
  /\ Handles("remove")
  /\ LET id == Head(queue).id
     IN  IF id \in DOMAIN socketMap
         THEN /\ handler' = [does |-> "joins", socket |-> socketMap[id]]
              /\ open' = open \ {socketMap[id]}
              /\ UNCHANGED queue
         ELSE Handled /\ UNCHANGED <<handler, open>>
  /\ UNCHANGED <<idVars, running, holder, receiver, owner, adder, asked>>

Removed ==
  /\ handler.does = "joins" /\ receiver[handler.socket] = "ended"
  /\ handler' = Idle
  /\ Forget(Head(queue).id)
  /\ Handled
  /\ UNCHANGED <<lastId, made, socketId, running, holder, open, receiver, owner, adder, asked>>

\* shutdownTask: removeAllSocket goes through the map under _mutex; the ids are
\* not recovered.
RemoveAll ==
  /\ Handles("shutdown") /\ MutexFree
  /\ holder' = "handler"
  /\ handler' = [does |-> "clears", socket |-> 0]
  /\ UNCHANGED <<idVars, running, queue, open, receiver, owner, adder, asked>>

Unstopped == { id \in DOMAIN socketMap : socketMap[id] \in open }

ClearNext ==
  /\ handler.does = "clears"
  /\ handler.socket # 0 => receiver[handler.socket] = "ended"
  /\ IF Unstopped # {}
     THEN /\ \E id \in Unstopped :
               /\ IsLeast(id, Unstopped)
               /\ handler' = [does |-> "clears", socket |-> socketMap[id]]
               /\ open' = open \ {socketMap[id]}
          /\ UNCHANGED <<socketMap, holder, queue>>
     ELSE /\ handler' = [does |-> "ended", socket |-> 0]
          /\ socketMap' = [id \in {} |-> 0] /\ holder' = "nobody" /\ queue' = <<>>
          /\ UNCHANGED open
  /\ UNCHANGED <<recovered, lastId, made, socketId, running, receiver, owner, adder, asked>>
-----------------------------------------------------------------------------
Init ==
  /\ running = TRUE /\ holder = "nobody" /\ queue = <<>> /\ handler = Idle
  /\ socketMap = [id \in {} |-> 0] /\ recovered = {} /\ lastId = 0 /\ made = 0
  /\ socketId = [i \in Sockets |-> 0] /\ open = {}
  /\ receiver = [i \in Sockets |-> "none"] /\ owner = [i \in Sockets |-> "none"]
  /\ adder = "idle" /\ asked = [i \in Sockets |-> 0]

Handler == Add \/ RemoveOnly \/ Remove \/ Removed \/ RemoveAll \/ ClearNext

ReceiveThread(i) == GiveUpRemoves(i) \/ LeavesLoop(i)

Next ==
  \/ Handler \/ Accept \/ AddSocket \/ AddGivesUp \/ Shutdown
  \/ \E i \in Sockets : ShutdownSocket(i) \/ ShutdownRemoves(i) \/ GiveUp(i) \/ ReceiveThread(i)

Spec == Init /\ [][Next]_muxVars

\* Threads run, and the wait of addSocket has a timeout.
Fairness ==
  /\ WF_muxVars(Handler) /\ WF_muxVars(AddGivesUp)
  /\ \A i \in Sockets : WF_muxVars(ReceiveThread(i))

FairSpec == Spec /\ Fairness
-----------------------------------------------------------------------------
\* Until the multiplexer is cleared every id given out so far either names a
\* socket or waits to be given out again: none is lost and none is both,
\* whatever removals are repeated or late.
IdsArePartitioned ==
  handler.does # "ended" =>
    /\ recovered \cap DOMAIN socketMap = {}
    /\ recovered \cup DOMAIN socketMap = 1 .. lastId

\* A socket that nobody has stopped is found by its id, unless a former socket
\* of that id asked twice to be removed.
OpenSocketIsRouted ==
  \A i \in open :
    \/ socketId[i] \in DOMAIN socketMap /\ socketMap[socketId[i]] = i
    \/ \E j \in Sockets \ {i} : socketId[j] = socketId[i] /\ asked[j] > 1

\* A peer that is given up leaves the map, though its receive thread has to get
\* the mutex from addSocket and its message may find the id with another socket.
GivenUpIsForgotten ==
  \A i \in Sockets : receiver[i] = "removing" ~> (~running \/ i \notin Range(socketMap))
=============================================================================
