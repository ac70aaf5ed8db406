------------------------ MODULE UdtMultiplexerProofs ------------------------
(***************************************************************************)
(* Theorems about UdtMultiplexer, for every number of sockets.             *)
(***************************************************************************)
EXTENDS UdtMultiplexer, TLAPS

Messages == [what : {"add", "remove", "removeOnly", "shutdown"}, id : Nat, of : Nat]

MuxTypeOK ==
  /\ running \in BOOLEAN
  /\ queue \in Seq(Messages)
  /\ handler \in [does : {"nothing", "joins", "clears", "ended"}, socket : Nat]
  /\ DOMAIN socketMap \subseteq Nat /\ socketMap \in [DOMAIN socketMap -> Sockets]
  /\ recovered \subseteq Nat /\ lastId \in Nat /\ made \in 0 .. MaxSockets
  /\ socketId \in [Sockets -> Nat] /\ open \subseteq Sockets
  /\ receiver \in [Sockets -> {"none", "runs", "removing", "ended"}]
  /\ owner \in [Sockets -> {"none", "holds", "joining", "done"}]
  /\ asked \in [Sockets -> Nat]

\* The handler thread has removed everything, or is about to.
HandlerStops ==
  /\ handler.does \in {"clears", "ended"} => ~running
  /\ \A k \in DOMAIN queue : queue[k].what = "shutdown" => ~running
  /\ handler.does = "ended" => queue = <<>>

IdInv == MuxTypeOK /\ HandlerStops /\ IdsArePartitioned
-----------------------------------------------------------------------------
\* What a post, and what handling a message, does to the queue.
LEMMA PostAppends ==
  ASSUME queue \in Seq(Messages), NEW m \in Messages, Post(m)
  PROVE  /\ queue' \in Seq(Messages)
         /\ queue # <<>> => queue' # <<>> /\ queue'[1] = queue[1]
         /\ ~running => queue' = queue
         /\ \A k \in DOMAIN queue' :
              \/ k \in DOMAIN queue /\ queue'[k] = queue[k]
              \/ k \notin DOMAIN queue /\ k = Len(queue) + 1 /\ queue'[k] = m /\ running
<1>1. CASE running
  <2>1. queue' = Append(queue, m)
    BY <1>1 DEF Post
  <2>2. QED
    BY <1>1, <2>1
<1>2. CASE ~running
  BY <1>2 DEF Post
<1>3. QED
  BY <1>1, <1>2

LEMMA HandledShifts ==
  ASSUME queue \in Seq(Messages), queue # <<>>, Handled
  PROVE  /\ queue' \in Seq(Messages)
         /\ \A k \in DOMAIN queue' : k + 1 \in DOMAIN queue /\ queue'[k] = queue[k + 1] /\ k # 0
  BY DEF Handled

LEMMA InitEstablishesIdInv == Init => IdInv
<1>1. SUFFICES ASSUME Init PROVE IdInv
  OBVIOUS
<1>2. MuxTypeOK
  BY <1>1, MuxAssumption DEF Init, MuxTypeOK, Idle, Messages
<1>3. HandlerStops /\ IdsArePartitioned
  BY <1>1 DEF Init, HandlerStops, IdsArePartitioned, Idle
<1>4. QED
  BY <1>2, <1>3 DEF IdInv

\* A new socket gets an id that names no other socket.
LEMMA MakeSocketPartitions ==
  ASSUME IdInv, handler.does # "ended", MakeSocket
  PROVE  /\ made' = made + 1 /\ made' \in Sockets
         /\ open' = open \cup {made'}
         /\ receiver' = [receiver EXCEPT ![made'] = "runs"]
         /\ \E id \in Nat \ DOMAIN socketMap :
              /\ socketId' = [socketId EXCEPT ![made'] = id]
              /\ DOMAIN socketMap' = DOMAIN socketMap \cup {id}
              /\ socketMap'[id] = made'
              /\ \A k \in DOMAIN socketMap : socketMap'[k] = socketMap[k]
              /\ socketMap' \in [DOMAIN socketMap' -> Sockets]
         /\ recovered' \cap DOMAIN socketMap' = {}
         /\ recovered' \cup DOMAIN socketMap' = 1 .. lastId'
         /\ lastId' \in Nat /\ recovered' \subseteq Nat
<1>1. PICK id \in Ids :
        /\ GetSocketId(id)
        /\ socketId' = [socketId EXCEPT ![made'] = id]
        /\ socketMap' = [k \in DOMAIN socketMap \cup {id} |->
                           IF k \in DOMAIN socketMap THEN socketMap[k] ELSE made']
  BY DEF MakeSocket
<1>2. /\ recovered \cap DOMAIN socketMap = {} /\ recovered \cup DOMAIN socketMap = 1 .. lastId
      /\ lastId \in Nat /\ DOMAIN socketMap \subseteq Nat /\ recovered \subseteq Nat
      /\ socketMap \in [DOMAIN socketMap -> Sockets]
      /\ made \in 0 .. MaxSockets /\ MaxSockets \in Nat /\ id \in Nat
  BY MuxAssumption DEF IdInv, MuxTypeOK, IdsArePartitioned, Ids
<1>3. made' = made + 1 /\ made' \in Sockets
  BY <1>2 DEF MakeSocket, Sockets
<1>4. CASE recovered # {}
  <2>1. id \in recovered /\ recovered' = recovered \ {id} /\ lastId' = lastId
    BY <1>1, <1>4 DEF GetSocketId, IsLeast
  <2>2. QED
    BY <1>1, <1>2, <1>3, <2>1 DEF MakeSocket
<1>5. CASE recovered = {}
  <2>1. id = lastId + 1 /\ recovered' = {} /\ lastId' = id
    BY <1>1, <1>5 DEF GetSocketId
  <2>2. id \notin DOMAIN socketMap /\ DOMAIN socketMap = 1 .. lastId
    BY <1>2, <1>5, <2>1
  <2>3. DOMAIN socketMap' = 1 .. lastId'
    BY <1>1, <1>2, <2>1, <2>2
  <2>4. QED
    BY <1>1, <1>2, <1>3, <2>1, <2>2, <2>3 DEF MakeSocket
<1>6. QED
  BY <1>4, <1>5

\* Removing a socket moves its id from the map to the recovered ones.
LEMMA ForgetPartitions ==
  ASSUME IdInv, handler.does # "ended", NEW id, Forget(id)
  PROVE  /\ DOMAIN socketMap' = DOMAIN socketMap \ {id}
         /\ \A k \in DOMAIN socketMap' : socketMap'[k] = socketMap[k]
         /\ socketMap' \in [DOMAIN socketMap' -> Sockets]
         /\ recovered' \cap DOMAIN socketMap' = {}
         /\ recovered' \cup DOMAIN socketMap' = 1 .. lastId
         /\ recovered' \subseteq Nat
<1>1. /\ recovered \cap DOMAIN socketMap = {} /\ recovered \cup DOMAIN socketMap = 1 .. lastId
      /\ DOMAIN socketMap \subseteq Nat /\ recovered \subseteq Nat
      /\ socketMap \in [DOMAIN socketMap -> Sockets]
  BY DEF IdInv, MuxTypeOK, IdsArePartitioned
<1>2. CASE id \in DOMAIN socketMap
  <2>1. socketMap' = Restrict(socketMap, DOMAIN socketMap \ {id}) /\ recovered' = recovered \cup {id}
    BY <1>2 DEF Forget
  <2>2. socketMap' = [k \in DOMAIN socketMap \ {id} |-> socketMap[k]]
    BY <2>1 DEF Restrict
  <2>3. QED
    BY <1>1, <1>2, <2>1, <2>2
<1>3. CASE id \notin DOMAIN socketMap
  BY <1>1, <1>3 DEF Forget
<1>4. QED
  BY <1>2, <1>3

\* Where ids stay as they are, so does what is known of them.
LEMMA SameIdsPartitions ==
  ASSUME IdInv, UNCHANGED idVars, handler.does = "ended" => handler'.does = "ended"
  PROVE  /\ IdsArePartitioned'
         /\ DOMAIN socketMap' \subseteq Nat /\ socketMap' \in [DOMAIN socketMap' -> Sockets]
         /\ recovered' \subseteq Nat /\ lastId' \in Nat /\ made' \in 0 .. MaxSockets
         /\ socketId' \in [Sockets -> Nat]
<1>1. /\ socketMap' = socketMap /\ recovered' = recovered /\ lastId' = lastId
      /\ made' = made /\ socketId' = socketId
  BY DEF idVars
<1>2. IdsArePartitioned'
  BY <1>1 DEF IdInv, IdsArePartitioned
<1>3. DOMAIN socketMap \subseteq Nat /\ socketMap \in [DOMAIN socketMap -> Sockets]
  BY DEF IdInv, MuxTypeOK
<1>4. /\ recovered \subseteq Nat /\ lastId \in Nat /\ made \in 0 .. MaxSockets
      /\ socketId \in [Sockets -> Nat]
  BY DEF IdInv, MuxTypeOK
<1>5. DOMAIN socketMap' \subseteq Nat /\ socketMap' \in [DOMAIN socketMap' -> Sockets]
  BY <1>1, <1>3, Zenon
<1>6. QED
  BY <1>1, <1>2, <1>4, <1>5

LEMMA SendersPreserveIdInv ==
  ASSUME IdInv,
         \/ AddSocket \/ AddGivesUp \/ Shutdown
         \/ \E i \in Sockets : ShutdownSocket(i) \/ ShutdownRemoves(i) \/ GiveUp(i)
                               \/ ReceiveThread(i)
  PROVE  IdInv'
<1>1. MuxTypeOK /\ HandlerStops
  BY DEF IdInv
<1>2. UNCHANGED idVars /\ handler' = handler
  BY DEF AddSocket, AddGivesUp, Shutdown, ShutdownSocket, ShutdownRemoves, GiveUp,
         ReceiveThread, GiveUpRemoves, LeavesLoop
<1>3. SUFFICES ASSUME TRUE PROVE MuxTypeOK' /\ HandlerStops'
  BY <1>2, SameIdsPartitions DEF IdInv
<1>4. \A i \in Sockets : \A what \in {"remove", "removeOnly"} : Task(what, i) \in Messages
  BY <1>1 DEF Task, Messages, MuxTypeOK, Sockets
<1>5. /\ [what |-> "add", id |-> 0, of |-> 0] \in Messages
      /\ [what |-> "shutdown", id |-> 0, of |-> 0] \in Messages
  BY DEF Messages
<1>6. CASE AddSocket
  <2>1. Post([what |-> "add", id |-> 0, of |-> 0]) /\ running /\ running' = running
    BY <1>6 DEF AddSocket
  <2>2. HandlerStops' /\ queue' \in Seq(Messages)
    <3>1. queue \in Seq(Messages)
      BY <1>1 DEF MuxTypeOK
    <3>2. /\ queue' \in Seq(Messages)
          /\ \A k \in DOMAIN queue' :
               (k \in DOMAIN queue /\ queue'[k] = queue[k]) \/ queue'[k].what = "add"
      BY <1>5, <2>1, <3>1, PostAppends
    <3>3. QED
      BY <1>1, <1>2, <2>1, <3>2 DEF HandlerStops
  <2>3. QED
    BY <1>1, <1>2, <1>6, <2>2, SameIdsPartitions DEF AddSocket, MuxTypeOK
<1>7. CASE AddGivesUp
  BY <1>1, <1>2, <1>7, SameIdsPartitions DEF AddGivesUp, MuxTypeOK, HandlerStops
<1>8. CASE Shutdown
  <2>1. Post([what |-> "shutdown", id |-> 0, of |-> 0]) /\ running /\ running' = FALSE
    BY <1>8 DEF Shutdown
  <2>2. HandlerStops' /\ queue' \in Seq(Messages)
    BY <1>1, <1>2, <1>5, <2>1, PostAppends DEF HandlerStops, MuxTypeOK
  <2>3. QED
    BY <1>1, <1>2, <1>8, <2>1, <2>2, SameIdsPartitions DEF Shutdown, MuxTypeOK
<1>9. ASSUME NEW i \in Sockets, ShutdownSocket(i)
      PROVE  MuxTypeOK' /\ HandlerStops'
  BY <1>1, <1>2, <1>9, SameIdsPartitions DEF ShutdownSocket, MuxTypeOK, HandlerStops
<1>10. ASSUME NEW i \in Sockets, ShutdownRemoves(i)
       PROVE  MuxTypeOK' /\ HandlerStops'
  <2>1. Post(Task("removeOnly", i)) /\ running' = running /\ Task("removeOnly", i) \in Messages
    BY <1>4, <1>10 DEF ShutdownRemoves
  <2>2. queue' \in Seq(Messages) /\ HandlerStops'
    <3>1. queue \in Seq(Messages) /\ Task("removeOnly", i).what = "removeOnly"
      BY <1>1 DEF MuxTypeOK, Task
    <3>2. /\ queue' \in Seq(Messages)
          /\ ~running => queue' = queue
          /\ \A k \in DOMAIN queue' :
               (k \in DOMAIN queue /\ queue'[k] = queue[k]) \/ queue'[k].what = "removeOnly"
      BY <2>1, <3>1, PostAppends
    <3>3. QED
      BY <1>1, <1>2, <2>1, <3>2 DEF HandlerStops
  <2>3. asked' \in [Sockets -> Nat] /\ owner' \in [Sockets -> {"none", "holds", "joining", "done"}]
    BY <1>1, <1>10 DEF ShutdownRemoves, MuxTypeOK
  <2>4. QED
    BY <1>1, <1>2, <1>10, <2>2, <2>3, SameIdsPartitions DEF ShutdownRemoves, MuxTypeOK
<1>11. ASSUME NEW i \in Sockets, GiveUpRemoves(i)
       PROVE  MuxTypeOK' /\ HandlerStops'
  <2>1. Post(Task("remove", i)) /\ running' = running /\ Task("remove", i) \in Messages
    BY <1>4, <1>11 DEF GiveUpRemoves
  <2>2. queue' \in Seq(Messages) /\ HandlerStops'
    <3>1. queue \in Seq(Messages) /\ Task("remove", i).what = "remove"
      BY <1>1 DEF MuxTypeOK, Task
    <3>2. /\ queue' \in Seq(Messages)
          /\ ~running => queue' = queue
          /\ \A k \in DOMAIN queue' :
               (k \in DOMAIN queue /\ queue'[k] = queue[k]) \/ queue'[k].what = "remove"
      BY <2>1, <3>1, PostAppends
    <3>3. QED
      BY <1>1, <1>2, <2>1, <3>2 DEF HandlerStops
  <2>3. /\ asked' \in [Sockets -> Nat]
        /\ receiver' \in [Sockets -> {"none", "runs", "removing", "ended"}]
    BY <1>1, <1>11 DEF GiveUpRemoves, MuxTypeOK
  <2>4. QED
    BY <1>1, <1>2, <1>11, <2>2, <2>3, SameIdsPartitions DEF GiveUpRemoves, MuxTypeOK
<1>12. ASSUME NEW i \in Sockets, GiveUp(i) \/ LeavesLoop(i)
       PROVE  MuxTypeOK' /\ HandlerStops'
  <2>1. receiver' \in [Sockets -> {"none", "runs", "removing", "ended"}]
    BY <1>1, <1>12 DEF GiveUp, LeavesLoop, MuxTypeOK
  <2>2. UNCHANGED <<running, queue, open, owner, asked>>
    BY <1>12 DEF GiveUp, LeavesLoop
  <2>3. HandlerStops'
    BY <1>1, <1>2, <2>2 DEF HandlerStops
  <2>4. QED
    BY <1>1, <1>2, <2>1, <2>2, <2>3, SameIdsPartitions DEF MuxTypeOK
<1>13. QED
  BY <1>6, <1>7, <1>8, <1>9, <1>10, <1>11, <1>12 DEF ReceiveThread

LEMMA MakersPreserveIdInv ==
  ASSUME IdInv, Add \/ Accept
  PROVE  IdInv'
<1>1. MuxTypeOK /\ HandlerStops /\ handler.does = "nothing" /\ handler' = handler
      /\ MakeSocket /\ running' = running
  BY DEF IdInv, Add, Accept, Handles, Idle
<1>2. /\ socketId' \in [Sockets -> Nat] /\ open' \subseteq Sockets /\ made' \in 0 .. MaxSockets
      /\ receiver' \in [Sockets -> {"none", "runs", "removing", "ended"}]
      /\ DOMAIN socketMap' \subseteq Nat /\ socketMap' \in [DOMAIN socketMap' -> Sockets]
      /\ recovered' \subseteq Nat /\ lastId' \in Nat /\ IdsArePartitioned'
  <2>1. PICK id \in Nat \ DOMAIN socketMap :
          /\ socketId' = [socketId EXCEPT ![made'] = id]
          /\ DOMAIN socketMap' = DOMAIN socketMap \cup {id}
          /\ socketMap' \in [DOMAIN socketMap' -> Sockets]
    BY <1>1, MakeSocketPartitions
  <2>2. made' = made + 1 /\ made' \in Sockets /\ MaxSockets \in Nat
    BY <1>1, MakeSocketPartitions, MuxAssumption
  <2>3. QED
    <3>1. /\ socketId' \in [Sockets -> Nat] /\ DOMAIN socketMap' \subseteq Nat
          /\ made' \in 0 .. MaxSockets
      <4>1. socketId' \in [Sockets -> Nat]
        BY <1>1, <2>1, <2>2, SMTT(30) DEF MuxTypeOK
      <4>2. DOMAIN socketMap' \subseteq Nat
        BY <1>1, <2>1, SMTT(30) DEF MuxTypeOK
      <4>3. made' \in 0 .. MaxSockets
        BY <2>2 DEF Sockets
      <4>4. QED
        BY <4>1, <4>2, <4>3
    <3>2. /\ open' = open \cup {made'} /\ receiver' = [receiver EXCEPT ![made'] = "runs"]
          /\ recovered' \subseteq Nat /\ lastId' \in Nat /\ IdsArePartitioned'
      BY <1>1, MakeSocketPartitions DEF IdsArePartitioned
    <3>3. QED
      BY <1>1, <2>1, <2>2, <3>1, <3>2 DEF MuxTypeOK
<1>3. owner' \in [Sockets -> {"none", "holds", "joining", "done"}] /\ asked' = asked
  BY <1>1 DEF Add, Accept, MuxTypeOK
<1>4. queue' \in Seq(Messages) /\ HandlerStops'
  <2>1. CASE Add
    <3>1. Handled /\ queue # <<>>
      BY <2>1 DEF Add, Handles
    <3>2. QED
      BY <1>1, <3>1, HandledShifts DEF HandlerStops, MuxTypeOK
  <2>2. CASE Accept
    BY <1>1, <2>2 DEF Accept, HandlerStops, MuxTypeOK
  <2>3. QED
    BY <2>1, <2>2
<1>5. QED
  BY <1>1, <1>2, <1>3, <1>4 DEF IdInv, MuxTypeOK

LEMMA ForgettersPreserveIdInv ==
  ASSUME IdInv, RemoveOnly \/ Removed
  PROVE  IdInv'
<1>1. /\ MuxTypeOK /\ HandlerStops /\ handler.does # "ended" /\ Forget(Head(queue).id)
      /\ Handled /\ handler' \in {handler, Idle}
      /\ UNCHANGED <<lastId, made, socketId, running, open, receiver, owner, asked>>
  BY DEF IdInv, RemoveOnly, Removed, Handles
<1>2. /\ DOMAIN socketMap' \subseteq Nat /\ socketMap' \in [DOMAIN socketMap' -> Sockets]
      /\ recovered' \subseteq Nat /\ IdsArePartitioned'
  <2>1. /\ DOMAIN socketMap' = DOMAIN socketMap \ {Head(queue).id}
        /\ socketMap' \in [DOMAIN socketMap' -> Sockets]
        /\ recovered' \cap DOMAIN socketMap' = {} /\ recovered' \subseteq Nat
        /\ recovered' \cup DOMAIN socketMap' = 1 .. lastId
    BY <1>1, ForgetPartitions, ZenonT(30)
  <2>2. DOMAIN socketMap \subseteq Nat /\ lastId' = lastId
    BY <1>1 DEF MuxTypeOK
  <2>3. QED
    BY <2>1, <2>2, SMTT(30) DEF IdsArePartitioned
<1>3. queue' \in Seq(Messages) /\ HandlerStops'
  <2>1. CASE queue = <<>>
    BY <1>1, <2>1 DEF Handled, HandlerStops, MuxTypeOK, Idle, RemoveOnly, Removed
  <2>2. CASE queue # <<>>
    BY <1>1, <2>2, HandledShifts DEF HandlerStops, MuxTypeOK, Idle
  <2>3. QED
    BY <2>1, <2>2
<1>4. handler' \in [does : {"nothing", "joins", "clears", "ended"}, socket : Nat]
  BY <1>1 DEF MuxTypeOK, Idle
<1>5. QED
  BY <1>1, <1>2, <1>3, <1>4 DEF IdInv, MuxTypeOK

LEMMA HandlerPreservesIdInv ==
  ASSUME IdInv, Remove \/ RemoveAll \/ ClearNext
  PROVE  IdInv'
<1>1. MuxTypeOK /\ HandlerStops
  BY DEF IdInv
<1>2. CASE Remove
  <2>1. /\ UNCHANGED <<running, receiver, owner, asked>> /\ UNCHANGED idVars
        /\ queue # <<>> /\ handler.does = "nothing"
    BY <1>2 DEF Remove, Handles
  <2>2. CASE Head(queue).id \in DOMAIN socketMap
    <3>1. /\ handler' = [does |-> "joins", socket |-> socketMap[Head(queue).id]]
          /\ open' \subseteq open /\ queue' = queue
      BY <1>2, <2>2 DEF Remove
    <3>2. socketMap[Head(queue).id] \in Nat
      BY <1>1, <2>2 DEF MuxTypeOK, Sockets
    <3>3. handler' \in [does : {"nothing", "joins", "clears", "ended"}, socket : Nat]
      BY <3>1, <3>2
    <3>4. HandlerStops'
      BY <1>1, <2>1, <3>1 DEF HandlerStops
    <3>5. QED
      BY <1>1, <2>1, <3>1, <3>3, <3>4, SameIdsPartitions DEF IdInv, MuxTypeOK
  <2>3. CASE Head(queue).id \notin DOMAIN socketMap
    <3>1. handler' = handler /\ open' = open /\ Handled
      BY <1>2, <2>3 DEF Remove
    <3>2. /\ queue' \in Seq(Messages)
          /\ \A k \in DOMAIN queue' : k + 1 \in DOMAIN queue /\ queue'[k] = queue[k + 1]
      BY <1>1, <2>1, <3>1, HandledShifts DEF MuxTypeOK
    <3>3. HandlerStops'
      BY <1>1, <2>1, <3>1, <3>2 DEF HandlerStops
    <3>4. QED
      BY <1>1, <2>1, <3>1, <3>2, <3>3, SameIdsPartitions DEF IdInv, MuxTypeOK
  <2>4. QED
    BY <2>2, <2>3
<1>3. CASE RemoveAll
  <2>1. /\ UNCHANGED <<running, queue, open, receiver, owner, asked>> /\ UNCHANGED idVars
        /\ queue # <<>> /\ Head(queue).what = "shutdown"
        /\ handler.does = "nothing" /\ handler' = [does |-> "clears", socket |-> 0]
    BY <1>3 DEF RemoveAll, Handles
  <2>2. ~running
    BY <1>1, <2>1 DEF HandlerStops, MuxTypeOK
  <2>3. HandlerStops'
    BY <1>1, <2>1, <2>2 DEF HandlerStops
  <2>4. QED
    BY <1>1, <2>1, <2>3, SameIdsPartitions DEF IdInv, MuxTypeOK
<1>4. CASE ClearNext
  <2>1. /\ UNCHANGED <<recovered, lastId, made, socketId, running, receiver, owner, asked>>
        /\ handler.does = "clears" /\ ~running
    BY <1>1, <1>4 DEF ClearNext, HandlerStops
  <2>2. CASE Unstopped # {}
    <3>1. PICK id \in Unstopped :
            /\ handler' = [does |-> "clears", socket |-> socketMap[id]]
            /\ open' = open \ {socketMap[id]}
      BY <1>4, <2>2 DEF ClearNext
    <3>2. socketMap' = socketMap /\ queue' = queue
      BY <1>4, <2>2 DEF ClearNext
    <3>3. UNCHANGED idVars
      BY <2>1, <3>2 DEF idVars
    <3>4. socketMap[id] \in Nat
      BY <1>1, <3>1 DEF MuxTypeOK, Sockets, Unstopped
    <3>5. handler' \in [does : {"nothing", "joins", "clears", "ended"}, socket : Nat]
      BY <3>1, <3>4
    <3>6. HandlerStops'
      BY <1>1, <2>1, <3>1, <3>2 DEF HandlerStops
    <3>7. QED
      BY <1>1, <2>1, <3>1, <3>2, <3>3, <3>5, <3>6, SameIdsPartitions DEF IdInv, MuxTypeOK
  <2>3. CASE Unstopped = {}
    <3>1. /\ handler' = [does |-> "ended", socket |-> 0] /\ queue' = <<>> /\ open' = open
          /\ socketMap' = [id \in {} |-> 0]
      BY <1>4, <2>3 DEF ClearNext
    <3>2. /\ handler' \in [does : {"nothing", "joins", "clears", "ended"}, socket : Nat]
          /\ HandlerStops' /\ IdsArePartitioned' /\ queue' \in Seq(Messages)
      BY <2>1, <3>1 DEF HandlerStops, IdsArePartitioned
    <3>3. DOMAIN socketMap' \subseteq Nat /\ socketMap' \in [DOMAIN socketMap' -> Sockets]
      BY <3>1
    <3>4. QED
      BY <1>1, <2>1, <3>1, <3>2, <3>3 DEF IdInv, MuxTypeOK
  <2>4. QED
    BY <2>2, <2>3
<1>5. QED
  BY <1>2, <1>3, <1>4

LEMMA NextPreservesIdInv == IdInv /\ [Next]_muxVars => IdInv'
<1>1. SUFFICES ASSUME IdInv, [Next]_muxVars PROVE IdInv'
  OBVIOUS
<1>2. CASE UNCHANGED muxVars
  <2>1. /\ UNCHANGED idVars
        /\ UNCHANGED <<running, queue, handler, open, receiver, owner, asked>>
    BY <1>2 DEF muxVars, idVars
  <2>2. HandlerStops'
    BY <1>1, <2>1 DEF IdInv, HandlerStops
  <2>3. QED
    BY <1>1, <2>1, <2>2, SameIdsPartitions DEF IdInv, MuxTypeOK
<1>3. CASE Next
  BY <1>1, <1>3, SendersPreserveIdInv, MakersPreserveIdInv, ForgettersPreserveIdInv,
     HandlerPreservesIdInv
  DEF Next, Handler
<1>4. QED
  BY <1>1, <1>2, <1>3

LEMMA IdInvAlways == Spec => []IdInv
  BY InitEstablishesIdInv, NextPreservesIdInv, PTL DEF Spec

\* getSocketId and recoverySocketId: an id that was given out names a socket or
\* can be given out again, never both.
THEOREM IdsStayPartitioned == Spec => []IdsArePartitioned
  BY IdInvAlways, PTL DEF IdInv
-----------------------------------------------------------------------------
\* Sockets that are found by their id, or share it with a socket that asked twice
\* to be removed.
Kept ==
  { i \in Sockets :
      \/ socketId[i] \in DOMAIN socketMap /\ socketMap[socketId[i]] = i
      \/ \E j \in Sockets : socketId[j] = socketId[i] /\ asked[j] > 1 }

Removals == { k \in DOMAIN queue : queue[k].what \in {"remove", "removeOnly"} }

MapKnowsIds ==
  \A id \in DOMAIN socketMap : socketMap[id] <= made /\ socketId[socketMap[id]] = id

UnmadeAreUnused ==
  \A i \in Sockets : i > made =>
    asked[i] = 0 /\ i \notin open /\ receiver[i] = "none" /\ owner[i] = "none"

\* An open socket has asked once at most, and then its receive thread did.
OpenAsksOnce ==
  \A i \in open :
    /\ owner[i] \in {"none", "holds"}
    /\ asked[i] <= 1
    /\ receiver[i] \in {"runs", "removing"} => asked[i] = 0

\* What a removal in the queue says of the socket that asked for it.
RemovalsAreAsked ==
  \A k \in Removals :
    LET i == queue[k].of IN
    /\ i \in Sockets /\ queue[k].id = socketId[i]
    /\ asked[i] >= 1
    /\ i \in Kept
    /\ queue[k].what = "removeOnly" => i \notin open

\* Two removals of one socket were asked for twice.
RemovalsAreCounted ==
  \A k, l \in Removals : (k # l /\ queue[k].of = queue[l].of) => asked[queue[k].of] >= 2

\* A socket that has not asked for it is removed by a repeated removal only.
OnlyDisturbedAreLost ==
  handler.does # "ended" =>
    \A i \in 1 .. made : asked[i] = 0 => i \in Kept

OpenAreFound == open \subseteq Kept

JoinsItsSocket ==
  handler.does = "joins" =>
    /\ queue # <<>> /\ queue[1].what = "remove" /\ queue[1].id \in DOMAIN socketMap
    /\ handler.socket = socketMap[queue[1].id] /\ handler.socket \notin open

\* The inductive invariant of OpenSocketIsRouted.
RouteInv ==
  /\ IdInv /\ MapKnowsIds /\ UnmadeAreUnused /\ OpenAsksOnce /\ RemovalsAreAsked
  /\ RemovalsAreCounted /\ OnlyDisturbedAreLost /\ OpenAreFound /\ JoinsItsSocket
-----------------------------------------------------------------------------
LEMMA InitEstablishesRouteInv == Init => RouteInv
<1>1. SUFFICES ASSUME Init PROVE RouteInv
  OBVIOUS
<1>2. Removals = {} /\ made = 0 /\ open = {} /\ DOMAIN socketMap = {}
  BY <1>1 DEF Init, Removals
<1>3. MapKnowsIds /\ UnmadeAreUnused /\ OpenAsksOnce /\ OnlyDisturbedAreLost /\ OpenAreFound
  BY <1>1, <1>2
  DEF Init, MapKnowsIds, UnmadeAreUnused, OpenAsksOnce, OnlyDisturbedAreLost, OpenAreFound,
      Sockets
<1>4. RemovalsAreAsked /\ RemovalsAreCounted /\ JoinsItsSocket
  BY <1>1, <1>2 DEF Init, RemovalsAreAsked, RemovalsAreCounted, JoinsItsSocket, Idle
<1>5. QED
  BY <1>1, <1>3, <1>4, InitEstablishesIdInv DEF RouteInv

\* A step that asks for nothing, and makes and forgets no socket, leaves the
\* removals as they are, shifted if the handler takes a message.
LEMMA QuietStep ==
  ASSUME RouteInv, UNCHANGED <<idVars, asked>>, open' \subseteq open,
         NEW d \in Nat,
         \A k \in Removals' : k + d \in Removals /\ k \in Nat /\ queue'[k] = queue[k + d],
         handler.does = "ended" => handler'.does = "ended"
  PROVE  /\ MapKnowsIds' /\ RemovalsAreAsked' /\ RemovalsAreCounted'
         /\ OnlyDisturbedAreLost' /\ OpenAreFound'
<1>1. /\ socketMap' = socketMap /\ made' = made /\ socketId' = socketId /\ asked' = asked
  BY DEF idVars
<1>2. Kept' = Kept
  BY <1>1 DEF Kept
<1>3. MapKnowsIds'
  BY <1>1 DEF RouteInv, MapKnowsIds
<1>4. RemovalsAreAsked'
  <2>1. SUFFICES ASSUME NEW k \in Removals'
                 PROVE  /\ queue'[k].of \in Sockets /\ queue'[k].id = socketId'[queue'[k].of]
                        /\ asked'[queue'[k].of] >= 1
                        /\ queue'[k].of \in Kept'
                        /\ queue'[k].what = "removeOnly" => queue'[k].of \notin open'
    BY DEF RemovalsAreAsked
  <2>2. k + d \in Removals /\ queue'[k] = queue[k + d]
    BY <2>1
  <2>3. /\ queue[k + d].of \in Sockets /\ queue[k + d].id = socketId[queue[k + d].of]
        /\ asked[queue[k + d].of] >= 1
        /\ queue[k + d].of \in Kept
        /\ queue[k + d].what = "removeOnly" => queue[k + d].of \notin open
    BY <2>2 DEF RouteInv, RemovalsAreAsked
  <2>4. QED
    BY <1>1, <1>2, <2>2, <2>3
<1>5. RemovalsAreCounted'
  <2>1. SUFFICES ASSUME NEW k \in Removals', NEW l \in Removals', k # l,
                        queue'[k].of = queue'[l].of
                 PROVE  asked'[queue'[k].of] >= 2
    BY DEF RemovalsAreCounted
  <2>2. /\ k + d \in Removals /\ queue'[k] = queue[k + d] /\ k \in Nat
        /\ l + d \in Removals /\ queue'[l] = queue[l + d] /\ l \in Nat
    BY <2>1
  <2>3. k + d # l + d
    BY <2>1, <2>2
  <2>4. QED
    BY <1>1, <2>1, <2>2, <2>3 DEF RouteInv, RemovalsAreCounted
<1>6. OnlyDisturbedAreLost'
  BY <1>1, <1>2 DEF RouteInv, OnlyDisturbedAreLost
<1>7. OpenAreFound'
  BY <1>1, <1>2 DEF RouteInv, OpenAreFound
<1>8. QED
  BY <1>3, <1>4, <1>5, <1>6, <1>7

\* A socket asks to be removed: a second time, or it is still found, or somebody
\* else's second removal has lost it.
LEMMA AskStep ==
  ASSUME RouteInv, UNCHANGED <<idVars, running, handler, open>>,
         NEW i \in Sockets, NEW what \in {"remove", "removeOnly"},
         i <= made, what = "removeOnly" => i \notin open,
         asked' = [asked EXCEPT ![i] = @ + 1], Post(Task(what, i))
  PROVE  /\ MapKnowsIds' /\ RemovalsAreAsked' /\ RemovalsAreCounted'
         /\ OnlyDisturbedAreLost' /\ OpenAreFound' /\ JoinsItsSocket'
<1>1. /\ socketMap' = socketMap /\ made' = made /\ socketId' = socketId /\ open' = open
      /\ handler' = handler
  BY DEF idVars
<1>2. MuxTypeOK
  BY DEF RouteInv, IdInv
<1>3. /\ \A j \in Sockets : asked[j] \in Nat /\ asked'[j] \in Nat /\ asked'[j] >= asked[j]
      /\ asked'[i] = asked[i] + 1
  BY <1>2 DEF MuxTypeOK
<1>4. Kept \subseteq Kept' /\ (asked[i] >= 1 => i \in Kept')
  BY <1>1, <1>3 DEF Kept
<1>5. /\ Task(what, i) \in Messages /\ Task(what, i).of = i /\ Task(what, i).what = what
      /\ Task(what, i).id = socketId[i]
  BY <1>2 DEF Task, Messages, MuxTypeOK, Sockets
<1>6. /\ queue # <<>> => queue' # <<>> /\ queue'[1] = queue[1]
      /\ \A k \in DOMAIN queue' :
           \/ k \in DOMAIN queue /\ queue'[k] = queue[k]
           \/ k = Len(queue) + 1 /\ k \notin DOMAIN queue /\ queue'[k] = Task(what, i) /\ running
  BY <1>2, <1>5, PostAppends DEF MuxTypeOK
<1>7. ASSUME NEW k \in Removals'
      PROVE  \/ k \in Removals /\ queue'[k] = queue[k]
             \/ k = Len(queue) + 1 /\ k \notin Removals /\ queue'[k] = Task(what, i) /\ running
  BY <1>6 DEF Removals
<1>8. MapKnowsIds'
  BY <1>1 DEF RouteInv, MapKnowsIds
<1>9. RemovalsAreAsked'
  <2>1. SUFFICES ASSUME NEW k \in Removals'
                 PROVE  /\ queue'[k].of \in Sockets /\ queue'[k].id = socketId'[queue'[k].of]
                        /\ asked'[queue'[k].of] >= 1
                        /\ queue'[k].of \in Kept'
                        /\ queue'[k].what = "removeOnly" => queue'[k].of \notin open'
    BY DEF RemovalsAreAsked
  <2>2. CASE k \in Removals /\ queue'[k] = queue[k]
    <3>1. /\ queue[k].of \in Sockets /\ queue[k].id = socketId[queue[k].of]
          /\ asked[queue[k].of] >= 1
          /\ queue[k].of \in Kept
          /\ queue[k].what = "removeOnly" => queue[k].of \notin open
      BY <2>2 DEF RouteInv, RemovalsAreAsked
    <3>2. asked'[queue[k].of] >= 1
      BY <1>3, <3>1
    <3>3. QED
      BY <1>1, <1>4, <2>2, <3>1, <3>2
  <2>3. CASE queue'[k] = Task(what, i) /\ running
    <3>1. handler.does # "ended" /\ i \in 1 .. made
      BY <1>2, <2>3 DEF RouteInv, IdInv, HandlerStops, MuxTypeOK, Sockets
    <3>2. i \in Kept'
      BY <1>3, <1>4, <3>1 DEF RouteInv, OnlyDisturbedAreLost
    <3>3. asked'[i] >= 1
      BY <1>3
    <3>4. QED
      BY <1>1, <1>4, <1>5, <2>3, <3>2, <3>3
  <2>4. QED
    BY <1>7, <2>2, <2>3
<1>10. RemovalsAreCounted'
  <2>1. SUFFICES ASSUME NEW k \in Removals', NEW l \in Removals', k # l,
                        queue'[k].of = queue'[l].of
                 PROVE  asked'[queue'[k].of] >= 2
    BY DEF RemovalsAreCounted
  <2>2. CASE k \in Removals /\ queue'[k] = queue[k] /\ l \in Removals /\ queue'[l] = queue[l]
    <3>1. asked[queue[k].of] >= 2 /\ queue[k].of \in Sockets
      BY <2>1, <2>2 DEF RouteInv, RemovalsAreCounted, RemovalsAreAsked
    <3>2. QED
      BY <1>3, <2>2, <3>1
  <2>3. CASE k \in Removals /\ queue'[k] = queue[k] /\ queue'[l] = Task(what, i)
    <3>1. asked[queue[k].of] >= 1 /\ queue[k].of = i
      BY <1>5, <2>1, <2>3 DEF RouteInv, RemovalsAreAsked
    <3>2. QED
      BY <1>3, <2>3, <3>1
  <2>4. CASE l \in Removals /\ queue'[l] = queue[l] /\ queue'[k] = Task(what, i)
    <3>1. asked[queue[l].of] >= 1 /\ queue[l].of = i
      BY <1>5, <2>1, <2>4 DEF RouteInv, RemovalsAreAsked
    <3>2. QED
      BY <1>3, <1>5, <2>4, <3>1
  <2>5. QED
    BY <1>7, <2>1, <2>2, <2>3, <2>4
<1>11. OnlyDisturbedAreLost'
  <2>1. SUFFICES ASSUME handler.does # "ended", NEW j \in 1 .. made, asked'[j] = 0
                 PROVE  j \in Kept'
    BY <1>1 DEF OnlyDisturbedAreLost
  <2>2. j \in Sockets /\ asked[j] = 0
    BY <1>2, <1>3, <2>1, MuxAssumption DEF MuxTypeOK, Sockets
  <2>3. j \in Kept
    BY <2>1, <2>2 DEF RouteInv, OnlyDisturbedAreLost
  <2>4. QED
    BY <1>4, <2>2, <2>3
<1>12. OpenAreFound'
  BY <1>1, <1>2, <1>4 DEF RouteInv, OpenAreFound, MuxTypeOK
<1>13. JoinsItsSocket'
  BY <1>1, <1>6 DEF RouteInv, JoinsItsSocket
<1>14. QED
  BY <1>8, <1>9, <1>10, <1>11, <1>12, <1>13
-----------------------------------------------------------------------------
LEMMA SendersPreserveRouteInv ==
  ASSUME RouteInv, AddSocket \/ AddGivesUp \/ Shutdown
  PROVE  RouteInv'
<1>1. /\ UNCHANGED <<idVars, asked>> /\ open' = open /\ handler' = handler
      /\ receiver' = receiver /\ owner' = owner
  BY DEF AddSocket, AddGivesUp, Shutdown
<1>2. IdInv' /\ MuxTypeOK
  BY SendersPreserveIdInv DEF RouteInv, IdInv
<1>3. /\ queue # <<>> => queue' # <<>> /\ queue'[1] = queue[1]
      /\ \A k \in Removals' : k \in Removals /\ k \in Nat /\ queue'[k] = queue[k]
  <2>1. CASE AddGivesUp
    BY <1>2, <2>1 DEF AddGivesUp, Removals, MuxTypeOK
  <2>2. CASE AddSocket \/ Shutdown
    <3>1. PICK m \in Messages : Post(m) /\ m.what \notin {"remove", "removeOnly"}
      <4>1. /\ [what |-> "add", id |-> 0, of |-> 0] \in Messages
            /\ [what |-> "shutdown", id |-> 0, of |-> 0] \in Messages
        BY DEF Messages
      <4>2. QED
        BY <2>2, <4>1 DEF AddSocket, Shutdown
    <3>2. /\ queue # <<>> => queue' # <<>> /\ queue'[1] = queue[1]
          /\ \A k \in DOMAIN queue' :
               \/ k \in DOMAIN queue /\ queue'[k] = queue[k]
               \/ queue'[k] = m
      BY <1>2, <3>1, PostAppends DEF MuxTypeOK
    <3>3. DOMAIN queue \subseteq Nat
      BY <1>2 DEF MuxTypeOK
    <3>4. QED
      BY <3>1, <3>2, <3>3 DEF Removals
  <2>3. QED
    BY <2>1, <2>2
<1>4. \A k \in Removals' : k + 0 \in Removals /\ k \in Nat /\ queue'[k] = queue[k + 0]
  BY <1>3
<1>5. /\ MapKnowsIds' /\ RemovalsAreAsked' /\ RemovalsAreCounted'
      /\ OnlyDisturbedAreLost' /\ OpenAreFound'
  BY <1>1, <1>4, QuietStep
<1>6. made' = made /\ asked' = asked /\ socketMap' = socketMap
  BY <1>1 DEF idVars
<1>7. UnmadeAreUnused' /\ OpenAsksOnce' /\ JoinsItsSocket'
  BY <1>1, <1>3, <1>6 DEF RouteInv, UnmadeAreUnused, OpenAsksOnce, JoinsItsSocket
<1>8. QED
  BY <1>2, <1>5, <1>7 DEF RouteInv

LEMMA ThreadsPreserveRouteInv ==
  ASSUME RouteInv, NEW i \in Sockets, ShutdownSocket(i) \/ GiveUp(i) \/ LeavesLoop(i)
  PROVE  RouteInv'
<1>1. /\ UNCHANGED <<idVars, asked>> /\ open' \subseteq open /\ handler' = handler
      /\ queue' = queue
  BY DEF ShutdownSocket, GiveUp, LeavesLoop
<1>2. IdInv' /\ MuxTypeOK
  BY SendersPreserveIdInv DEF RouteInv, IdInv, ReceiveThread
<1>3. Removals' = Removals /\ Removals \subseteq Nat
  BY <1>1, <1>2 DEF Removals, MuxTypeOK
<1>4. \A k \in Removals' : k + 0 \in Removals /\ k \in Nat /\ queue'[k] = queue[k + 0]
  BY <1>1, <1>3
<1>5. /\ MapKnowsIds' /\ RemovalsAreAsked' /\ RemovalsAreCounted'
      /\ OnlyDisturbedAreLost' /\ OpenAreFound'
  BY <1>1, <1>4, QuietStep
<1>6. made' = made /\ asked' = asked /\ socketMap' = socketMap
  BY <1>1 DEF idVars
<1>7. JoinsItsSocket'
  BY <1>1, <1>6 DEF RouteInv, JoinsItsSocket
<1>8. UnmadeAreUnused' /\ OpenAsksOnce'
  <2>1. CASE ShutdownSocket(i)
    BY <1>2, <1>6, <2>1
    DEF ShutdownSocket, RouteInv, UnmadeAreUnused, OpenAsksOnce, MuxTypeOK
  <2>2. CASE GiveUp(i) \/ LeavesLoop(i)
    BY <1>2, <1>6, <2>2
    DEF GiveUp, LeavesLoop, RouteInv, UnmadeAreUnused, OpenAsksOnce, MuxTypeOK
  <2>3. QED
    BY <2>1, <2>2
<1>9. QED
  BY <1>2, <1>5, <1>7, <1>8 DEF RouteInv

LEMMA AskersPreserveRouteInv ==
  ASSUME RouteInv, NEW i \in Sockets, ShutdownRemoves(i) \/ GiveUpRemoves(i)
  PROVE  RouteInv'
<1>1. /\ UNCHANGED <<idVars, running, handler, open>>
      /\ asked' = [asked EXCEPT ![i] = @ + 1]
  BY DEF ShutdownRemoves, GiveUpRemoves
<1>2. IdInv' /\ MuxTypeOK
  BY SendersPreserveIdInv DEF RouteInv, IdInv, ReceiveThread
<1>3. made \in Nat /\ i \in Nat
  BY <1>2 DEF MuxTypeOK, Sockets
<1>4. /\ i <= made
      /\ ShutdownRemoves(i) => i \notin open
  BY <1>3 DEF ShutdownRemoves, GiveUpRemoves, RouteInv, UnmadeAreUnused, OpenAsksOnce
<1>5. PICK what \in {"remove", "removeOnly"} :
        Post(Task(what, i)) /\ (what = "removeOnly" => i \notin open)
  BY <1>4 DEF ShutdownRemoves, GiveUpRemoves
<1>6. /\ MapKnowsIds' /\ RemovalsAreAsked' /\ RemovalsAreCounted'
      /\ OnlyDisturbedAreLost' /\ OpenAreFound' /\ JoinsItsSocket'
  BY <1>1, <1>4, <1>5, AskStep
<1>7. made' = made /\ open' = open /\ asked[i] \in Nat
  BY <1>1, <1>2 DEF idVars, MuxTypeOK
<1>8. UnmadeAreUnused' /\ OpenAsksOnce'
  <2>1. CASE ShutdownRemoves(i)
    BY <1>1, <1>2, <1>3, <1>4, <1>7, <2>1
    DEF ShutdownRemoves, RouteInv, UnmadeAreUnused, OpenAsksOnce, MuxTypeOK
  <2>2. CASE GiveUpRemoves(i)
    BY <1>1, <1>2, <1>3, <1>4, <1>7, <2>2
    DEF GiveUpRemoves, RouteInv, UnmadeAreUnused, OpenAsksOnce, MuxTypeOK
  <2>3. QED
    BY <2>1, <2>2
<1>9. QED
  BY <1>2, <1>6, <1>8 DEF RouteInv
-----------------------------------------------------------------------------
\* The new socket is found, and no other one is lost.
LEMMA MakersPreserveRouteInv ==
  ASSUME RouteInv, Add \/ Accept
  PROVE  RouteInv'
<1>1. /\ handler.does = "nothing" /\ handler' = handler /\ MakeSocket /\ asked' = asked
      /\ Add => queue # <<>> /\ Handled
      /\ Accept => queue' = queue
      /\ owner' = owner \/ owner' = [owner EXCEPT ![made'] = "holds"]
  BY DEF Add, Accept, Handles, Idle
<1>2. IdInv /\ IdInv' /\ MuxTypeOK /\ MuxTypeOK'
  BY MakersPreserveIdInv DEF RouteInv, IdInv
<1>3. /\ made' = made + 1 /\ made' \in Sockets /\ open' = open \cup {made'}
      /\ receiver' = [receiver EXCEPT ![made'] = "runs"] /\ made \in Nat /\ Sockets \subseteq Nat
  BY <1>1, <1>2, MakeSocketPartitions DEF MuxTypeOK, Sockets
<1>4. PICK id \in Nat \ DOMAIN socketMap :
        /\ socketId' = [socketId EXCEPT ![made'] = id]
        /\ DOMAIN socketMap' = DOMAIN socketMap \cup {id}
        /\ socketMap'[id] = made'
        /\ \A k \in DOMAIN socketMap : socketMap'[k] = socketMap[k]
  BY <1>1, <1>2, MakeSocketPartitions
<1>5. /\ socketId'[made'] = id
      /\ \A j \in Sockets : j # made' => socketId'[j] = socketId[j]
  BY <1>2, <1>3, <1>4 DEF MuxTypeOK
<1>6. made' \notin open /\ asked[made'] = 0 /\ owner[made'] = "none"
  BY <1>3 DEF RouteInv, UnmadeAreUnused
<1>7. made' \in Kept' /\ Kept \subseteq Kept'
  <2>1. made' \in Kept'
    BY <1>3, <1>4, <1>5 DEF Kept
  <2>2. ASSUME NEW j \in Kept, j # made'
        PROVE  j \in Kept'
    <3>1. j \in Sockets /\ socketId'[j] = socketId[j]
      BY <1>5, <2>2 DEF Kept
    <3>2. CASE socketId[j] \in DOMAIN socketMap /\ socketMap[socketId[j]] = j
      BY <1>4, <3>1, <3>2 DEF Kept
    <3>3. CASE \E l \in Sockets : socketId[l] = socketId[j] /\ asked[l] > 1
      <4>1. PICK l \in Sockets : socketId[l] = socketId[j] /\ asked[l] > 1
        BY <3>3
      <4>2. l # made'
        BY <1>6, <4>1
      <4>3. QED
        BY <1>1, <1>5, <3>1, <4>1, <4>2 DEF Kept
    <3>4. QED
      BY <2>2, <3>2, <3>3 DEF Kept
  <2>3. QED
    BY <2>1, <2>2
<1>8. PICK d \in {0, 1} :
        \A k \in Removals' : k + d \in Removals /\ k \in Nat /\ queue'[k] = queue[k + d]
  <2>1. CASE Add
    <3>1. \A k \in DOMAIN queue' : k + 1 \in DOMAIN queue /\ queue'[k] = queue[k + 1]
      BY <1>1, <1>2, <2>1, HandledShifts DEF MuxTypeOK
    <3>2. DOMAIN queue' \subseteq Nat
      BY <1>2 DEF MuxTypeOK
    <3>3. QED
      BY <3>1, <3>2 DEF Removals
  <2>2. CASE Accept
    <3>1. Removals' = Removals /\ Removals \subseteq Nat
      BY <1>1, <1>2, <2>2 DEF Removals, MuxTypeOK
    <3>2. QED
      BY <1>1, <2>2, <3>1
  <2>3. QED
    BY <2>1, <2>2
<1>9. RemovalsAreAsked'
  <2>1. SUFFICES ASSUME NEW k \in Removals'
                 PROVE  /\ queue'[k].of \in Sockets /\ queue'[k].id = socketId'[queue'[k].of]
                        /\ asked'[queue'[k].of] >= 1
                        /\ queue'[k].of \in Kept'
                        /\ queue'[k].what = "removeOnly" => queue'[k].of \notin open'
    BY DEF RemovalsAreAsked
  <2>2. k + d \in Removals /\ queue'[k] = queue[k + d]
    BY <1>8
  <2>3. /\ queue[k + d].of \in Sockets /\ queue[k + d].id = socketId[queue[k + d].of]
        /\ asked[queue[k + d].of] >= 1
        /\ queue[k + d].of \in Kept
        /\ queue[k + d].what = "removeOnly" => queue[k + d].of \notin open
    BY <2>2 DEF RouteInv, RemovalsAreAsked
  <2>4. queue[k + d].of # made'
    BY <1>6, <2>3
  <2>5. QED
    BY <1>1, <1>3, <1>5, <1>7, <2>2, <2>3, <2>4
<1>10. RemovalsAreCounted'
  <2>1. SUFFICES ASSUME NEW k \in Removals', NEW l \in Removals', k # l,
                        queue'[k].of = queue'[l].of
                 PROVE  asked'[queue'[k].of] >= 2
    BY DEF RemovalsAreCounted
  <2>2. /\ k + d \in Removals /\ queue'[k] = queue[k + d]
        /\ l + d \in Removals /\ queue'[l] = queue[l + d] /\ k + d # l + d
    BY <1>8, <2>1
  <2>3. QED
    BY <1>1, <2>1, <2>2 DEF RouteInv, RemovalsAreCounted
<1>11. MapKnowsIds'
  <2>1. SUFFICES ASSUME NEW k \in DOMAIN socketMap'
                 PROVE  socketMap'[k] <= made' /\ socketId'[socketMap'[k]] = k
    BY DEF MapKnowsIds
  <2>2. CASE k = id
    BY <1>3, <1>4, <1>5, <2>2
  <2>3. CASE k # id
    <3>1. k \in DOMAIN socketMap /\ socketMap'[k] = socketMap[k] /\ socketMap[k] \in Sockets
      BY <1>2, <1>4, <2>1, <2>3 DEF MuxTypeOK
    <3>2. socketMap[k] <= made /\ socketId[socketMap[k]] = k
      BY <3>1 DEF RouteInv, MapKnowsIds
    <3>3. socketMap[k] \in Nat /\ socketMap[k] # made' /\ socketMap[k] <= made'
      <4>1. socketMap[k] \in Nat /\ socketMap[k] <= made
        BY <1>3, <3>1, <3>2
      <4>2. made \in Nat /\ made' = made + 1
        BY <1>3
      <4>3. QED
        BY <4>1, <4>2
    <3>4. socketId'[socketMap[k]] = socketId[socketMap[k]]
      BY <1>5, <3>1, <3>3
    <3>5. QED
      BY <3>1, <3>2, <3>3, <3>4
  <2>4. QED
    BY <2>2, <2>3
<1>12. UnmadeAreUnused'
  <2>1. SUFFICES ASSUME NEW j \in Sockets, j > made'
                 PROVE  asked'[j] = 0 /\ j \notin open' /\ receiver'[j] = "none" /\ owner'[j] = "none"
    BY DEF UnmadeAreUnused
  <2>2. asked[j] = 0 /\ j \notin open /\ receiver[j] = "none" /\ owner[j] = "none" /\ j # made'
    BY <1>3, <2>1 DEF RouteInv, UnmadeAreUnused
  <2>3. j \notin open'
    BY <1>3, <2>2
  <2>4. asked'[j] = 0 /\ receiver'[j] = "none" /\ owner'[j] = "none"
    BY <1>1, <1>2, <1>3, <2>2, SMTT(30) DEF MuxTypeOK
  <2>5. QED
    BY <2>3, <2>4
<1>13. OpenAsksOnce'
  <2>1. SUFFICES ASSUME NEW j \in open'
                 PROVE  /\ owner'[j] \in {"none", "holds"} /\ asked'[j] <= 1
                        /\ receiver'[j] \in {"runs", "removing"} => asked'[j] = 0
    BY DEF OpenAsksOnce
  <2>2. CASE j = made'
    BY <1>1, <1>2, <1>3, <1>6, <2>2 DEF MuxTypeOK
  <2>3. CASE j # made'
    <3>1. j \in open
      BY <1>3, <2>1, <2>3
    <3>2. owner'[j] = owner[j] /\ receiver'[j] = receiver[j]
      BY <1>1, <1>2, <1>3, <2>3, <3>1 DEF MuxTypeOK
    <3>3. QED
      BY <1>1, <3>1, <3>2 DEF RouteInv, OpenAsksOnce
  <2>4. QED
    BY <2>2, <2>3
<1>14. OnlyDisturbedAreLost' /\ OpenAreFound' /\ JoinsItsSocket'
  BY <1>1, <1>3, <1>7 DEF RouteInv, OnlyDisturbedAreLost, OpenAreFound, JoinsItsSocket
<1>15. QED
  BY <1>2, <1>9, <1>10, <1>11, <1>12, <1>13, <1>14 DEF RouteInv

\* A removal takes the socket that asked, or one that shares its id with a socket
\* that asked twice.
LEMMA ForgettersPreserveRouteInv ==
  ASSUME RouteInv, RemoveOnly \/ Removed
  PROVE  RouteInv'
<1> DEFINE id == queue[1].id
           s  == socketMap[id]
           i0 == queue[1].of
<1>1. IdInv' /\ MuxTypeOK
  BY ForgettersPreserveIdInv DEF RouteInv, IdInv
<1>2. /\ queue # <<>> /\ Forget(id) /\ Handled /\ handler'.does = "nothing"
      /\ handler.does # "ended" /\ 1 \in Removals
      /\ UNCHANGED <<made, socketId, open, receiver, owner, asked>>
  <2>1. CASE RemoveOnly
    BY <1>1, <2>1 DEF RemoveOnly, Handles, Removals, MuxTypeOK
  <2>2. CASE Removed
    BY <1>1, <2>2 DEF Removed, RouteInv, JoinsItsSocket, Removals, MuxTypeOK, Idle
  <2>3. QED
    BY <2>1, <2>2
<1>3. /\ \A k \in Removals' : k + 1 \in Removals /\ k \in Nat /\ queue'[k] = queue[k + 1]
                              /\ k + 1 # 1
  <2>1. \A k \in DOMAIN queue' : k + 1 \in DOMAIN queue /\ queue'[k] = queue[k + 1] /\ k # 0
    BY <1>1, <1>2, HandledShifts DEF MuxTypeOK
  <2>2. queue' \in Seq(Messages)
    BY <1>1 DEF IdInv, MuxTypeOK
  <2>3. DOMAIN queue' \subseteq Nat
    BY <2>2
  <2>4. QED
    BY <2>1, <2>3 DEF Removals
<1>4. /\ i0 \in Sockets /\ id = socketId[i0] /\ asked[i0] >= 1 /\ i0 \in Kept
      /\ queue[1].what = "removeOnly" => i0 \notin open
  BY <1>2 DEF RouteInv, RemovalsAreAsked
<1>5. JoinsItsSocket' /\ UnmadeAreUnused' /\ OpenAsksOnce'
  BY <1>2 DEF RouteInv, UnmadeAreUnused, OpenAsksOnce, JoinsItsSocket
<1>6. /\ DOMAIN socketMap' = DOMAIN socketMap \ {id}
      /\ \A k \in DOMAIN socketMap' : socketMap'[k] = socketMap[k]
  BY <1>2, ForgetPartitions DEF RouteInv
<1>7. MapKnowsIds'
  BY <1>2, <1>6 DEF RouteInv, MapKnowsIds
<1>8. /\ Kept \ {s} \subseteq Kept'
      /\ \/ Kept \subseteq Kept'
         \/ id \in DOMAIN socketMap /\ s = i0
      /\ asked[s] > 1 /\ s \in Sockets /\ id \in DOMAIN socketMap => s \in Kept'
  <2>1. CASE id \notin DOMAIN socketMap
    <3>1. Kept \subseteq Kept'
      BY <1>2, <1>6, <2>1 DEF Kept
    <3>2. QED
      BY <2>1, <3>1
  <2>2. CASE id \in DOMAIN socketMap
    <3>1. s \in Sockets /\ socketId[s] = id
      BY <1>1, <2>2 DEF MuxTypeOK, RouteInv, MapKnowsIds
    <3>2. \A j \in Sockets : \A l \in Sockets :
            socketId[l] = socketId[j] /\ asked[l] > 1 => j \in Kept'
      BY <1>2 DEF Kept
    <3>3. ASSUME NEW j \in Kept, j # s
          PROVE  j \in Kept'
      <4>1. j \in Sockets
        BY <3>3 DEF Kept
      <4>2. CASE socketId[j] \in DOMAIN socketMap /\ socketMap[socketId[j]] = j
        <5>1. socketId[j] # id
          BY <3>3, <4>2
        <5>2. QED
          BY <1>2, <1>6, <4>1, <4>2, <5>1 DEF Kept
      <4>3. CASE \E l \in Sockets : socketId[l] = socketId[j] /\ asked[l] > 1
        BY <3>2, <4>1, <4>3
      <4>4. QED
        BY <3>3, <4>2, <4>3 DEF Kept
    <3>4. s # i0 => s \in Kept'
      <4>1. SUFFICES ASSUME s # i0 PROVE s \in Kept'
        OBVIOUS
      <4>2. \E l \in Sockets : socketId[l] = id /\ asked[l] > 1
        BY <1>4, <4>1 DEF Kept
      <4>3. QED
        BY <3>1, <3>2, <4>2
    <3>5. asked[s] > 1 => s \in Kept'
      BY <3>1, <3>2
    <3>6. QED
      BY <2>2, <3>3, <3>4, <3>5
  <2>3. QED
    BY <2>1, <2>2
<1>9. s = i0 /\ id \in DOMAIN socketMap => s \notin open
  <2>1. CASE RemoveOnly
    BY <1>4, <2>1 DEF RemoveOnly, Handles
  <2>2. CASE Removed
    BY <2>2 DEF Removed, RouteInv, JoinsItsSocket
  <2>3. QED
    BY <2>1, <2>2
<1>10. RemovalsAreAsked'
  <2>1. SUFFICES ASSUME NEW k \in Removals'
                 PROVE  /\ queue'[k].of \in Sockets /\ queue'[k].id = socketId'[queue'[k].of]
                        /\ asked'[queue'[k].of] >= 1
                        /\ queue'[k].of \in Kept'
                        /\ queue'[k].what = "removeOnly" => queue'[k].of \notin open'
    BY DEF RemovalsAreAsked
  <2>2. k + 1 \in Removals /\ queue'[k] = queue[k + 1] /\ k + 1 # 1
    BY <1>3
  <2>3. /\ queue[k + 1].of \in Sockets /\ queue[k + 1].id = socketId[queue[k + 1].of]
        /\ asked[queue[k + 1].of] >= 1 /\ asked[queue[k + 1].of] \in Nat
        /\ queue[k + 1].of \in Kept
        /\ queue[k + 1].what = "removeOnly" => queue[k + 1].of \notin open
    BY <1>1, <2>2 DEF RouteInv, RemovalsAreAsked, MuxTypeOK
  <2>4. queue[k + 1].of = i0 => asked[i0] >= 2 /\ asked[i0] \in Nat
    BY <1>2, <2>2, <2>3 DEF RouteInv, RemovalsAreCounted
  <2>5. queue[k + 1].of \in Kept'
    BY <1>4, <1>8, <2>3, <2>4
  <2>6. QED
    BY <1>2, <2>2, <2>3, <2>5
<1>11. RemovalsAreCounted'
  <2>1. SUFFICES ASSUME NEW k \in Removals', NEW l \in Removals', k # l,
                        queue'[k].of = queue'[l].of
                 PROVE  asked'[queue'[k].of] >= 2
    BY DEF RemovalsAreCounted
  <2>2. /\ k + 1 \in Removals /\ queue'[k] = queue[k + 1]
        /\ l + 1 \in Removals /\ queue'[l] = queue[l + 1] /\ k + 1 # l + 1
    BY <1>3, <2>1
  <2>3. QED
    BY <1>2, <2>1, <2>2 DEF RouteInv, RemovalsAreCounted
<1>12. OnlyDisturbedAreLost'
  BY <1>2, <1>4, <1>8 DEF RouteInv, OnlyDisturbedAreLost
<1>13. OpenAreFound'
  BY <1>2, <1>8, <1>9 DEF RouteInv, OpenAreFound
<1>14. QED
  BY <1>1, <1>5, <1>7, <1>10, <1>11, <1>12, <1>13 DEF RouteInv

LEMMA HandlerPreservesRouteInv ==
  ASSUME RouteInv, Remove \/ RemoveAll \/ ClearNext
  PROVE  RouteInv'
<1>1. IdInv' /\ IdInv /\ MuxTypeOK
  BY HandlerPreservesIdInv DEF RouteInv, IdInv
<1>2. /\ UNCHANGED <<recovered, lastId, made, socketId, receiver, owner, asked>>
      /\ open' \subseteq open
  BY DEF Remove, RemoveAll, ClearNext, idVars
<1>3. UnmadeAreUnused' /\ OpenAsksOnce'
  BY <1>2 DEF RouteInv, UnmadeAreUnused, OpenAsksOnce
<1>4. Removals \subseteq Nat
  BY <1>1 DEF Removals, MuxTypeOK
<1>5. CASE queue' = queue /\ socketMap' = socketMap
  <2>1. UNCHANGED <<idVars, asked>> /\ Removals' = Removals
    BY <1>2, <1>5 DEF idVars, Removals
  <2>2. \A k \in Removals' : k + 0 \in Removals /\ k \in Nat /\ queue'[k] = queue[k + 0]
    BY <1>4, <1>5, <2>1
  <2>3. handler.does # "ended"
    BY DEF Remove, RemoveAll, ClearNext, Handles
  <2>4. /\ MapKnowsIds' /\ RemovalsAreAsked' /\ RemovalsAreCounted'
        /\ OnlyDisturbedAreLost' /\ OpenAreFound'
    BY <1>2, <2>1, <2>2, <2>3, QuietStep
  <2>5. JoinsItsSocket'
    <3>1. CASE Remove
      <4>1. queue # <<>> /\ queue[1].what = "remove"
        BY <1>1, <3>1 DEF Remove, Handles, MuxTypeOK
      <4>2. CASE queue[1].id \in DOMAIN socketMap
        <5>1. /\ handler' = [does |-> "joins", socket |-> socketMap[queue[1].id]]
              /\ open' = open \ {socketMap[queue[1].id]}
          BY <3>1, <4>1, <4>2 DEF Remove
        <5>2. QED
          BY <1>5, <4>1, <4>2, <5>1 DEF JoinsItsSocket
      <4>3. CASE queue[1].id \notin DOMAIN socketMap
        BY <3>1, <4>3 DEF Remove, Handles, JoinsItsSocket
      <4>4. QED
        BY <4>2, <4>3
    <3>2. CASE RemoveAll
      BY <3>2 DEF RemoveAll, JoinsItsSocket
    <3>3. CASE ClearNext
      <4>1. handler'.does # "joins"
        BY <3>3 DEF ClearNext
      <4>2. QED
        BY <4>1 DEF JoinsItsSocket
    <3>4. QED
      BY <3>1, <3>2, <3>3
  <2>6. QED
    BY <1>1, <1>3, <2>4, <2>5 DEF RouteInv
<1>6. CASE Remove /\ ~(queue' = queue /\ socketMap' = socketMap)
  <2>1. /\ queue # <<>> /\ Handled /\ handler' = handler /\ UNCHANGED idVars
        /\ handler.does = "nothing"
    BY <1>6 DEF Remove, Handles, idVars
  <2>2. /\ queue' \in Seq(Messages)
        /\ \A k \in DOMAIN queue' : k + 1 \in DOMAIN queue /\ queue'[k] = queue[k + 1]
    BY <1>1, <2>1, HandledShifts DEF MuxTypeOK
  <2>3. DOMAIN queue' \subseteq Nat
    BY <2>2
  <2>4. \A k \in Removals' : k + 1 \in Removals /\ k \in Nat /\ queue'[k] = queue[k + 1]
    BY <2>2, <2>3 DEF Removals
  <2>5. /\ MapKnowsIds' /\ RemovalsAreAsked' /\ RemovalsAreCounted'
        /\ OnlyDisturbedAreLost' /\ OpenAreFound'
    BY <1>2, <2>1, <2>4, QuietStep
  <2>6. JoinsItsSocket'
    BY <2>1 DEF JoinsItsSocket
  <2>7. QED
    BY <1>1, <1>3, <2>5, <2>6 DEF RouteInv
<1>7. CASE ClearNext /\ ~(queue' = queue /\ socketMap' = socketMap)
  <2>1. /\ handler' = [does |-> "ended", socket |-> 0] /\ queue' = <<>> /\ open' = open
        /\ socketMap' = [id \in {} |-> 0] /\ Unstopped = {}
    BY <1>7 DEF ClearNext
  <2>2. Removals' = {} /\ DOMAIN socketMap' = {}
    BY <2>1 DEF Removals
  <2>3. /\ MapKnowsIds' /\ RemovalsAreAsked' /\ RemovalsAreCounted'
        /\ OnlyDisturbedAreLost' /\ JoinsItsSocket'
    BY <2>1, <2>2
    DEF MapKnowsIds, RemovalsAreAsked, RemovalsAreCounted, OnlyDisturbedAreLost, JoinsItsSocket
  <2>4. OpenAreFound'
    BY <1>2, <2>1 DEF RouteInv, OpenAreFound, Kept, Unstopped
  <2>5. QED
    BY <1>1, <1>3, <2>3, <2>4 DEF RouteInv
<1>8. QED
  <2>1. RemoveAll => queue' = queue /\ socketMap' = socketMap
    BY DEF RemoveAll, idVars
  <2>2. QED
    BY <1>5, <1>6, <1>7, <2>1
-----------------------------------------------------------------------------
LEMMA NextPreservesRouteInv == RouteInv /\ [Next]_muxVars => RouteInv'
<1>1. SUFFICES ASSUME RouteInv, [Next]_muxVars PROVE RouteInv'
  OBVIOUS
<1>2. CASE UNCHANGED muxVars
  <2>1. /\ UNCHANGED <<idVars, asked>> /\ queue' = queue /\ open' = open /\ handler' = handler
        /\ receiver' = receiver /\ owner' = owner /\ socketMap' = socketMap /\ made' = made
    BY <1>2 DEF muxVars, idVars
  <2>2. IdInv' /\ MuxTypeOK
    BY <1>1, NextPreservesIdInv DEF RouteInv, IdInv
  <2>3. Removals' = Removals /\ Removals \subseteq Nat
    BY <2>1, <2>2 DEF Removals, MuxTypeOK
  <2>4. \A k \in Removals' : k + 0 \in Removals /\ k \in Nat /\ queue'[k] = queue[k + 0]
    BY <2>1, <2>3
  <2>5. /\ MapKnowsIds' /\ RemovalsAreAsked' /\ RemovalsAreCounted'
        /\ OnlyDisturbedAreLost' /\ OpenAreFound'
    BY <1>1, <2>1, <2>4, QuietStep
  <2>6. UnmadeAreUnused' /\ OpenAsksOnce' /\ JoinsItsSocket'
    BY <1>1, <2>1 DEF RouteInv, UnmadeAreUnused, OpenAsksOnce, JoinsItsSocket
  <2>7. QED
    BY <2>2, <2>5, <2>6 DEF RouteInv
<1>3. CASE Next
  BY <1>1, <1>3, SendersPreserveRouteInv, ThreadsPreserveRouteInv, AskersPreserveRouteInv,
     MakersPreserveRouteInv, ForgettersPreserveRouteInv, HandlerPreservesRouteInv
  DEF Next, Handler, ReceiveThread
<1>4. QED
  BY <1>1, <1>2, <1>3

LEMMA RouteInvImplies == RouteInv => OpenSocketIsRouted
<1>1. SUFFICES ASSUME RouteInv, NEW i \in open,
                      ~(socketId[i] \in DOMAIN socketMap /\ socketMap[socketId[i]] = i)
               PROVE  \E j \in Sockets \ {i} : socketId[j] = socketId[i] /\ asked[j] > 1
  BY DEF OpenSocketIsRouted
<1>2. PICK j \in Sockets : socketId[j] = socketId[i] /\ asked[j] > 1
  BY <1>1 DEF RouteInv, OpenAreFound, Kept
<1>3. asked[i] <= 1 /\ i \in Sockets
  BY <1>1 DEF RouteInv, OpenAsksOnce, IdInv, MuxTypeOK
<1>4. j # i
  BY <1>1, <1>2, <1>3 DEF RouteInv, IdInv, MuxTypeOK
<1>5. QED
  BY <1>2, <1>4

\* addSocketTask, removeSocketTask and removeSocketWithoutShutdownTask: whatever
\* the order of removals, of recycled ids and of new sockets, an open socket is
\* lost to its peer only after a socket of the same id was removed twice.
THEOREM OpenSocketsAreRouted == Spec => []OpenSocketIsRouted
<1>1. RouteInv /\ [Next]_muxVars => RouteInv'
  BY NextPreservesRouteInv
<1>2. QED
  BY <1>1, InitEstablishesRouteInv, RouteInvImplies, PTL DEF Spec
=============================================================================
