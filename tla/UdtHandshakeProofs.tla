------------------------- MODULE UdtHandshakeProofs -------------------------
(***************************************************************************)
(* The handshake's safety for every set of clients: a client gets one      *)
(* server socket, only the holder of a socket's cookie is connected to it, *)
(* and the server starts from the client's first number.  SYN packets may  *)
(* be repeated, late and in any order.                                     *)
(***************************************************************************)
EXTENDS UdtHandshake, TLAPS

ServerSockets ==
  [peer : Clients, status : {"unconnected", "connected"}, cookie : Nat, lrsn : Nat,
   sent : Nat, answering : BOOLEAN]

SynPackets ==
  [type : {"request", "response"}, client : Clients, socket : Nat, cookie : Nat, init : Nat]

HsTypeOK ==
  /\ status \in [Clients -> {"unconnected", "connecting", "connected"}]
  /\ cookie \in [Clients -> Nat] /\ dst \in [Clients -> Nat]
  /\ lrsn \in [Clients -> Nat] /\ sent \in [Clients -> Nat]
  /\ servers \in Seq(ServerSockets)
  /\ net \subseteq SynPackets

PeersDiffer ==
  \A s, t \in DOMAIN servers : servers[s].peer.id = servers[t].peer.id => s = t

\* A socket that has answered, or is about to, has its id for a cookie.
CookiesAreIds ==
  \A s \in DOMAIN servers :
    /\ servers[s].cookie \in {0, s}
    /\ servers[s].answering => servers[s].cookie = s

\* A client numbers no packet before it is connected.
NothingSentEarly == \A c \in Clients : status[c] # "connected" => sent[c] = 0

\* What a client has learnt is true.
ClientsKnow ==
  \A c \in Clients :
    /\ dst[c] = cookie[c]
    /\ cookie[c] # 0 => cookie[c] \in DOMAIN servers /\ servers[cookie[c]].peer = c

\* A request on its way carries the client's cookie or none, and its first number;
\* an answer on its way is its socket's.
RequestsAreTrue ==
  \A m \in net : m.type = "request" => m.init = 0 /\ m.cookie \in {0, cookie[m.client]}

AnswersAreTrue ==
  \A m \in net :
    m.type = "response" =>
      /\ m.socket \in DOMAIN servers /\ servers[m.socket].peer = m.client
      /\ m.cookie = m.socket

\* The inductive invariant: a server socket that connects looks at a request only,
\* so what requests, answers and clients carry has to be traced to the socket.
HandshakeInv ==
  /\ HsTypeOK /\ PeersDiffer /\ CookiesAreIds /\ NothingSentEarly /\ ClientsKnow
  /\ RequestsAreTrue /\ AnswersAreTrue
  /\ ConnectsToCookieHolder /\ ServerExpectsFirstPacket
-----------------------------------------------------------------------------
LEMMA InitEstablishesHandshake == Init => HandshakeInv
<1> SUFFICES ASSUME Init PROVE HandshakeInv
  OBVIOUS
<1>1. servers = <<>> /\ DOMAIN servers = {} /\ net = {}
  BY DEF Init
<1>2. HsTypeOK
  BY <1>1 DEF Init, HsTypeOK
<1>3. QED
  BY <1>1, <1>2 DEF Init, HandshakeInv, PeersDiffer, CookiesAreIds, NothingSentEarly,
     ClientsKnow, RequestsAreTrue, AnswersAreTrue, ConnectsToCookieHolder,
     ServerExpectsFirstPacket

\* synTask.
LEMMA TryConnectionKeeps ==
  ASSUME HandshakeInv, NEW c \in Clients, TryConnection(c)
  PROVE  HandshakeInv'
<1> DEFINE req == Request(c, cookie[c], dst[c])
<1>1. /\ req \in SynPackets /\ req.type = "request" /\ req.init = 0
      /\ req.client = c /\ req.cookie = cookie[c]
  BY DEF HandshakeInv, HsTypeOK, NothingSentEarly, TryConnection, Request, SynPackets
<1>2. net' = net \cup {req} /\ UNCHANGED <<cookie, dst, lrsn, sent, servers>>
  BY DEF TryConnection
<1> HIDE DEF req
<1>3. HsTypeOK'
  BY <1>1, <1>2 DEF HandshakeInv, HsTypeOK, TryConnection
<1>4. NothingSentEarly'
  BY <1>2 DEF HandshakeInv, HsTypeOK, NothingSentEarly, TryConnection
<1>5. RequestsAreTrue' /\ AnswersAreTrue'
  BY <1>1, <1>2 DEF HandshakeInv, RequestsAreTrue, AnswersAreTrue
<1>6. /\ PeersDiffer' /\ CookiesAreIds' /\ ClientsKnow'
      /\ ConnectsToCookieHolder' /\ ServerExpectsFirstPacket'
  BY <1>2 DEF HandshakeInv, PeersDiffer, CookiesAreIds, ClientsKnow,
     ConnectsToCookieHolder, ServerExpectsFirstPacket
<1>7. QED
  BY <1>3, <1>4, <1>5, <1>6 DEF HandshakeInv

LEMMA ClientSendKeeps ==
  ASSUME HandshakeInv, NEW c \in Clients, ClientSend(c)
  PROVE  HandshakeInv'
<1>1. UNCHANGED <<status, cookie, dst, lrsn, servers, net>> /\ status[c] = "connected"
  BY DEF ClientSend
<1>2. HsTypeOK' /\ NothingSentEarly'
  BY <1>1 DEF HandshakeInv, HsTypeOK, NothingSentEarly, ClientSend
<1>3. /\ PeersDiffer' /\ CookiesAreIds' /\ ClientsKnow' /\ RequestsAreTrue' /\ AnswersAreTrue'
      /\ ConnectsToCookieHolder' /\ ServerExpectsFirstPacket'
  BY <1>1 DEF HandshakeInv, PeersDiffer, CookiesAreIds, ClientsKnow, RequestsAreTrue,
     AnswersAreTrue, ConnectsToCookieHolder, ServerExpectsFirstPacket
<1>4. QED
  BY <1>2, <1>3 DEF HandshakeInv

\* handleSynPacket of a client.
LEMMA HandleResponseKeeps ==
  ASSUME HandshakeInv, NEW c \in Clients, NEW m \in net, HandleResponse(c, m)
  PROVE  HandshakeInv'
<1>1. /\ m \in SynPackets /\ m.type = "response" /\ m.client = c /\ status[c] # "connected"
      /\ UNCHANGED <<sent, servers>>
      /\ dst' = [dst EXCEPT ![c] = IF @ = 0 THEN m.socket ELSE @]
  BY DEF HandshakeInv, HsTypeOK, HandleResponse
<1>2. /\ m.socket \in DOMAIN servers /\ servers[m.socket].peer = c /\ m.cookie = m.socket
      /\ m.socket \in Nat /\ dst[c] = cookie[c] /\ sent[c] = 0
  BY <1>1 DEF HandshakeInv, AnswersAreTrue, ClientsKnow, NothingSentEarly, SynPackets
<1>3. PeersDiffer' /\ CookiesAreIds' /\ ServerExpectsFirstPacket'
  BY <1>1 DEF HandshakeInv, PeersDiffer, CookiesAreIds, ServerExpectsFirstPacket
<1>4. CASE cookie[c] = 0
  <2> DEFINE req == Request(c, m.cookie, dst'[c])
  <2>1. /\ cookie' = [cookie EXCEPT ![c] = m.cookie] /\ UNCHANGED <<status, lrsn>>
        /\ net' = net \cup {req}
    BY <1>4 DEF HandleResponse, EchoCookie
  <2>2. dst'[c] = m.socket /\ cookie'[c] = m.socket
    BY <1>1, <1>2, <1>4, <2>1 DEF HandshakeInv, HsTypeOK
  <2>3. /\ req \in SynPackets /\ req.type = "request" /\ req.init = 0
        /\ req.client = c /\ req.cookie = cookie'[c]
    BY <1>2, <2>2 DEF HandshakeInv, HsTypeOK, Request, SynPackets
  <2> HIDE DEF req
  <2>4. HsTypeOK'
    BY <1>1, <1>2, <2>1, <2>3 DEF HandshakeInv, HsTypeOK
  <2>5. NothingSentEarly'
    BY <1>1, <2>1 DEF HandshakeInv, NothingSentEarly
  <2>6. \A d \in Clients : d # c => cookie'[d] = cookie[d] /\ dst'[d] = dst[d]
    BY <1>1, <2>1 DEF HandshakeInv, HsTypeOK
  <2>7. ClientsKnow'
    BY <1>1, <1>2, <2>2, <2>6 DEF HandshakeInv, ClientsKnow
  <2>8. RequestsAreTrue'
    <3>1. \A k \in net : k.client \in Clients
      BY DEF HandshakeInv, HsTypeOK, SynPackets
    <3>2. \A k \in net : k.type = "request" => k.init = 0 /\ k.cookie \in {0, cookie'[k.client]}
      BY <1>4, <2>6, <3>1 DEF HandshakeInv, RequestsAreTrue
    <3>3. QED
      BY <2>1, <2>3, <3>2 DEF RequestsAreTrue
  <2>9. AnswersAreTrue'
    BY <1>1, <2>1, <2>3 DEF HandshakeInv, AnswersAreTrue
  <2>10. ConnectsToCookieHolder'
    <3>1. \A s \in DOMAIN servers : s # 0
      BY DEF HandshakeInv, HsTypeOK
    <3>2. ASSUME NEW s \in DOMAIN servers, servers[s].status = "connected"
          PROVE  servers[s].peer # c /\ servers[s].peer \in Clients
      <4>1. servers[s] \in ServerSockets
        BY DEF HandshakeInv, HsTypeOK
      <4>2. cookie[servers[s].peer] = s
        BY <3>2 DEF HandshakeInv, ConnectsToCookieHolder
      <4>3. QED
        BY <1>4, <3>1, <4>1, <4>2 DEF ServerSockets
    <3>3. QED
      BY <1>1, <2>6, <3>2 DEF HandshakeInv, ConnectsToCookieHolder
  <2>11. QED
    BY <1>3, <2>4, <2>5, <2>7, <2>8, <2>9, <2>10 DEF HandshakeInv
<1>5. CASE cookie[c] # 0
  <2>1. /\ UNCHANGED <<cookie, net>> /\ lrsn' = [lrsn EXCEPT ![c] = m.init]
        /\ status' = [status EXCEPT ![c] = "connected"]
    BY <1>5 DEF HandleResponse
  <2>2. dst' = dst
    BY <1>1, <1>2, <1>5 DEF HandshakeInv, HsTypeOK
  <2>3. HsTypeOK'
    BY <1>1, <2>1, <2>2 DEF HandshakeInv, HsTypeOK, SynPackets
  <2>4. NothingSentEarly'
    BY <1>1, <2>1 DEF HandshakeInv, HsTypeOK, NothingSentEarly
  <2>5. ClientsKnow' /\ RequestsAreTrue' /\ AnswersAreTrue' /\ ConnectsToCookieHolder'
    BY <1>1, <2>1, <2>2 DEF HandshakeInv, ClientsKnow, RequestsAreTrue, AnswersAreTrue,
       ConnectsToCookieHolder
  <2>6. QED
    BY <1>3, <2>3, <2>4, <2>5 DEF HandshakeInv
<1>6. QED
  BY <1>4, <1>5
-----------------------------------------------------------------------------
\* A step that changes one server socket and sends at most its answer.
LEMMA OneSocketChanges ==
  ASSUME HandshakeInv, UNCHANGED clientVars,
         NEW s \in DOMAIN servers, NEW r \in ServerSockets,
         servers' = [servers EXCEPT ![s] = r],
         r.peer = servers[s].peer, r.cookie \in {0, s}, r.answering => r.cookie = s,
         r.status = "connected" => r.lrsn = 0 /\ cookie[r.peer] = s,
         \A m \in net' : \/ m \in net
                         \/ /\ m \in SynPackets /\ m.type = "response" /\ m.socket = s
                            /\ m.client = r.peer /\ m.cookie = s
  PROVE  HandshakeInv'
<1>1. UNCHANGED <<status, cookie, dst, lrsn, sent>>
  BY DEF clientVars
<1>2. servers \in Seq(ServerSockets) /\ DOMAIN servers = 1..Len(servers)
  BY DEF HandshakeInv, HsTypeOK
<1>3. /\ DOMAIN servers' = DOMAIN servers /\ servers' \in Seq(ServerSockets)
      /\ servers'[s] = r /\ \A t \in DOMAIN servers : t # s => servers'[t] = servers[t]
  BY <1>2
<1>4. \A t \in DOMAIN servers : servers'[t].peer = servers[t].peer
  BY <1>3
<1>5. HsTypeOK'
  BY <1>1, <1>3 DEF HandshakeInv, HsTypeOK
<1>6. PeersDiffer' /\ NothingSentEarly' /\ ClientsKnow' /\ RequestsAreTrue'
  BY <1>1, <1>3, <1>4 DEF HandshakeInv, PeersDiffer, NothingSentEarly, ClientsKnow, RequestsAreTrue
<1>7. AnswersAreTrue'
  BY <1>3, <1>4 DEF HandshakeInv, AnswersAreTrue
<1>8. CookiesAreIds' /\ ServerExpectsFirstPacket'
  BY <1>3 DEF HandshakeInv, CookiesAreIds, ServerExpectsFirstPacket
<1>9. ConnectsToCookieHolder'
  <2>1. r.peer \in Clients
    BY DEF ServerSockets
  <2>2. r.status = "connected" => dst[r.peer] = s
    BY <2>1 DEF HandshakeInv, ClientsKnow
  <2>3. QED
    BY <1>1, <1>3, <2>2 DEF HandshakeInv, ConnectsToCookieHolder
<1>10. QED
  BY <1>5, <1>6, <1>7, <1>8, <1>9 DEF HandshakeInv

\* receiveDataTask makes a socket only for a socket id that no socket has.
LEMMA CreateSocketKeeps ==
  ASSUME HandshakeInv, NEW m \in net, CreateSocket(m)
  PROVE  HandshakeInv'
<1> DEFINE new == [peer |-> m.client, status |-> "unconnected", cookie |-> 0,
                   lrsn |-> 0, sent |-> 0, answering |-> FALSE]
           n == Len(servers) + 1
<1>1. /\ servers \in Seq(ServerSockets) /\ DOMAIN servers = 1..Len(servers)
      /\ Len(servers) \in Nat /\ m \in SynPackets /\ m.client \in Clients
  BY DEF HandshakeInv, HsTypeOK, SynPackets
<1>2. new \in ServerSockets
  BY <1>1 DEF ServerSockets
<1>3. servers' = Append(servers, new) /\ UNCHANGED <<status, cookie, dst, lrsn, sent, net>>
  BY DEF CreateSocket, clientVars
<1>4. /\ new.peer = m.client /\ new.status = "unconnected" /\ new.cookie = 0
      /\ new.answering = FALSE
  OBVIOUS
<1> HIDE DEF new
<1>5. /\ servers' \in Seq(ServerSockets) /\ DOMAIN servers' = DOMAIN servers \cup {n}
      /\ n \notin DOMAIN servers /\ servers'[n] = new
      /\ \A t \in DOMAIN servers : servers'[t] = servers[t]
  BY <1>1, <1>2, <1>3
<1>6. HsTypeOK'
  BY <1>3, <1>5 DEF HandshakeInv, HsTypeOK
<1>7. PeersDiffer'
  <2>1. \A t \in DOMAIN servers : servers[t].peer.id # m.client.id
    BY DEF CreateSocket, KnowsPeer, SocketsOf
  <2>2. QED
    BY <1>4, <1>5, <2>1 DEF HandshakeInv, PeersDiffer
<1>8. NothingSentEarly' /\ ClientsKnow' /\ RequestsAreTrue' /\ AnswersAreTrue'
  BY <1>3, <1>5 DEF HandshakeInv, NothingSentEarly, ClientsKnow, RequestsAreTrue, AnswersAreTrue
<1>9. CookiesAreIds' /\ ConnectsToCookieHolder' /\ ServerExpectsFirstPacket'
  BY <1>3, <1>4, <1>5 DEF HandshakeInv, CookiesAreIds, ConnectsToCookieHolder, ServerExpectsFirstPacket
<1>10. QED
  BY <1>6, <1>7, <1>8, <1>9 DEF HandshakeInv

\* handleSynPacket of a server socket: the cookie leads from the request to the
\* client, and from the client to the socket.
LEMMA HandleRequestKeeps ==
  ASSUME HandshakeInv, NEW s \in DOMAIN servers, NEW m \in net, HandleRequest(s, m)
  PROVE  HandshakeInv'
<1>1. /\ servers[s] \in ServerSockets /\ m \in SynPackets /\ m.type = "request"
      /\ servers \in Seq(ServerSockets) /\ s \in Nat \ {0}
  BY DEF HandshakeInv, HsTypeOK, HandleRequest, FirstRequest, CookieRequest, RepeatedRequest, Reaches
<1>2. UNCHANGED clientVars /\ net' = net
  BY DEF HandleRequest
<1>3. servers[s].cookie \in {0, s}
  BY DEF HandshakeInv, CookiesAreIds
<1>4. /\ m.client \in Clients /\ m.init = 0 /\ m.cookie \in {0, cookie[m.client]}
  BY <1>1 DEF HandshakeInv, RequestsAreTrue, SynPackets
<1>5. servers[s].status = "connected" => servers[s].lrsn = 0 /\ cookie[servers[s].peer] = s
  BY DEF HandshakeInv, ConnectsToCookieHolder, ServerExpectsFirstPacket
<1>6. CASE FirstRequest(s, m)
  <2> DEFINE r == [servers[s] EXCEPT !.cookie = s, !.answering = TRUE]
  <2>1. servers' = [servers EXCEPT ![s] = r]
    BY <1>1, <1>6 DEF FirstRequest
  <2>2. /\ r \in ServerSockets /\ r.peer = servers[s].peer /\ r.cookie = s
        /\ r.status = servers[s].status /\ r.lrsn = servers[s].lrsn
    BY <1>1 DEF ServerSockets
  <2> HIDE DEF r
  <2>3. QED
    BY <1>2, <1>5, <2>1, <2>2, OneSocketChanges
<1>7. CASE CookieRequest(s, m)
  <2> DEFINE r == [servers[s] EXCEPT !.status = "connected", !.lrsn = m.init, !.answering = TRUE]
  <2>1. servers' = [servers EXCEPT ![s] = r]
    BY <1>1, <1>7 DEF CookieRequest
  <2>2. /\ r \in ServerSockets /\ r.peer = servers[s].peer /\ r.cookie = servers[s].cookie
        /\ r.lrsn = 0
    <3>1. /\ r.peer = servers[s].peer /\ r.cookie = servers[s].cookie /\ r.lrsn = m.init
      BY <1>1 DEF ServerSockets
    <3>2. m.init \in Nat
      BY <1>4
    <3>3. r \in ServerSockets
      BY <1>1, <3>2 DEF ServerSockets
    <3>4. QED
      BY <1>4, <3>1, <3>3
  <2>3. servers[s].cookie = s /\ m.cookie = s /\ cookie[m.client] = s
    BY <1>1, <1>3, <1>4, <1>7 DEF CookieRequest, CookieMatches
  <2>4. servers[s].peer = m.client
    BY <1>1, <1>4, <2>3 DEF HandshakeInv, ClientsKnow
  <2> HIDE DEF r
  <2>5. QED
    BY <1>2, <2>1, <2>2, <2>3, <2>4, OneSocketChanges
<1>8. CASE RepeatedRequest(s, m)
  <2> DEFINE r == [servers[s] EXCEPT !.answering = TRUE]
  <2>1. servers' = [servers EXCEPT ![s] = r] /\ servers[s].cookie = s
    BY <1>1, <1>3, <1>8 DEF RepeatedRequest
  <2>2. /\ r \in ServerSockets /\ r.peer = servers[s].peer /\ r.cookie = servers[s].cookie
        /\ r.status = servers[s].status /\ r.lrsn = servers[s].lrsn
    BY <1>1 DEF ServerSockets
  <2> HIDE DEF r
  <2>3. QED
    BY <1>2, <1>5, <2>1, <2>2, OneSocketChanges
<1>9. QED
  BY <1>6, <1>7, <1>8 DEF HandleRequest

\* sendSynPacket(FIRST_RESPONSE).
LEMMA AnswerKeeps ==
  ASSUME HandshakeInv, NEW s \in DOMAIN servers, Answer(s)
  PROVE  HandshakeInv'
<1> DEFINE r == [servers[s] EXCEPT !.answering = FALSE]
           m == Response(s)
<1>1. /\ servers[s] \in ServerSockets /\ servers \in Seq(ServerSockets) /\ s \in Nat
      /\ servers[s].cookie = s
  BY DEF HandshakeInv, HsTypeOK, CookiesAreIds, Answer
<1>2. servers' = [servers EXCEPT ![s] = r] /\ net' = net \cup {m} /\ UNCHANGED clientVars
  BY <1>1 DEF Answer
<1>3. /\ r \in ServerSockets /\ r.peer = servers[s].peer /\ r.cookie = s
      /\ r.status = servers[s].status /\ r.lrsn = servers[s].lrsn
  BY <1>1 DEF ServerSockets
<1>4. /\ m \in SynPackets /\ m.type = "response" /\ m.socket = s
      /\ m.client = servers[s].peer /\ m.cookie = s
  BY <1>1 DEF Response, SynPackets, ServerSockets
<1>5. servers[s].status = "connected" => servers[s].lrsn = 0 /\ cookie[servers[s].peer] = s
  BY DEF HandshakeInv, ConnectsToCookieHolder, ServerExpectsFirstPacket
<1> HIDE DEF r, m
<1>6. \A k \in net' : \/ k \in net
                      \/ /\ k \in SynPackets /\ k.type = "response" /\ k.socket = s
                         /\ k.client = r.peer /\ k.cookie = s
  BY <1>2, <1>3, <1>4
<1>7. r.status = "connected" => r.lrsn = 0 /\ cookie[r.peer] = s
  BY <1>3, <1>5
<1>8. r.answering => r.cookie = s
  BY <1>3
<1>9. r.cookie \in {0, s}
  BY <1>3
<1>10. /\ servers' = [servers EXCEPT ![s] = r] /\ UNCHANGED clientVars
       /\ r \in ServerSockets /\ r.peer = servers[s].peer
  BY <1>2, <1>3
<1>11. QED
  BY <1>6, <1>7, <1>8, <1>9, <1>10, OneSocketChanges

LEMMA ServerSendKeeps ==
  ASSUME HandshakeInv, NEW s \in DOMAIN servers, ServerSend(s)
  PROVE  HandshakeInv'
<1> DEFINE r == [servers[s] EXCEPT !.sent = @ + 1]
<1>1. servers[s] \in ServerSockets /\ servers \in Seq(ServerSockets)
  BY DEF HandshakeInv, HsTypeOK
<1>2. servers' = [servers EXCEPT ![s] = r] /\ net' = net /\ UNCHANGED clientVars
  BY <1>1 DEF ServerSend
<1>3. /\ r \in ServerSockets /\ r.peer = servers[s].peer /\ r.cookie = servers[s].cookie
      /\ r.status = servers[s].status /\ r.lrsn = servers[s].lrsn
  <2>1. servers[s].sent + 1 \in Nat
    BY <1>1 DEF ServerSockets
  <2>2. r \in ServerSockets
    BY <1>1, <2>1 DEF ServerSockets
  <2>3. QED
    BY <1>1, <2>2 DEF ServerSockets
<1>4. /\ servers[s].cookie \in {0, s}
      /\ servers[s].status = "connected" => servers[s].lrsn = 0 /\ cookie[servers[s].peer] = s
  BY DEF HandshakeInv, CookiesAreIds, ConnectsToCookieHolder, ServerExpectsFirstPacket
<1>5. r.answering => r.cookie = s
  <2>1. servers[s].answering => servers[s].cookie = s
    BY DEF HandshakeInv, CookiesAreIds
  <2>2. r.answering = servers[s].answering /\ r.cookie = servers[s].cookie
    BY <1>1 DEF ServerSockets
  <2>3. QED
    BY ONLY <2>1, <2>2
<1> HIDE DEF r
<1>6. QED
  BY <1>2, <1>3, <1>4, <1>5, OneSocketChanges
-----------------------------------------------------------------------------
LEMMA NextKeepsHandshake == HandshakeInv /\ [Next]_vars => HandshakeInv'
<1> SUFFICES ASSUME HandshakeInv, [Next]_vars PROVE HandshakeInv'
  OBVIOUS
<1>1. CASE \E c \in Clients : Client(c)
  BY <1>1, TryConnectionKeeps, ClientSendKeeps, HandleResponseKeeps DEF Client
<1>2. CASE \E m \in net : CreateSocket(m)
  BY <1>2, CreateSocketKeeps
<1>3. CASE \E s \in DOMAIN servers : Server(s)
  BY <1>3, HandleRequestKeeps, AnswerKeeps, ServerSendKeeps DEF Server
<1>4. CASE UNCHANGED vars
  BY <1>4 DEF vars, clientVars, HandshakeInv, HsTypeOK, PeersDiffer, CookiesAreIds,
     NothingSentEarly, ClientsKnow, RequestsAreTrue, AnswersAreTrue,
     ConnectsToCookieHolder, ServerExpectsFirstPacket
<1>5. QED
  BY <1>1, <1>2, <1>3, <1>4 DEF Next

\* The handshake's invariant: what travels and what the two sides have learnt of
\* each other agree with the server sockets, whatever packets are late.
THEOREM HandshakeInvariant == Spec => []HandshakeInv
  BY InitEstablishesHandshake, NextKeepsHandshake, PTL DEF Spec

\* receiveDataTask: repeated and late requests give a client one server socket.
THEOREM ClientsGetOneSocket == Spec => []OneSocketPerClient
<1>1. HandshakeInv => OneSocketPerClient
  BY DEF HandshakeInv, PeersDiffer, OneSocketPerClient, SocketsOfHost
<1>2. QED
  BY <1>1, HandshakeInvariant, PTL

\* handleSynPacket: a server socket connects to the client that holds its cookie.
THEOREM CookieHoldersConnect == Spec => []ConnectsToCookieHolder
  BY HandshakeInvariant, PTL DEF HandshakeInv

\* handleSynPacket: the number a server socket starts from is the client's first.
THEOREM FirstNumberIsRight == Spec => []ServerExpectsFirstPacket
  BY HandshakeInvariant, PTL DEF HandshakeInv
=============================================================================
