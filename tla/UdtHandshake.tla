---------------------------- MODULE UdtHandshake ----------------------------
(***************************************************************************)
(* The connection handshake: client sockets (synTask, tryConnectionSetup,  *)
(* handleSynPacket of UDTSocket.cpp) against the listener of one           *)
(* multiplexer, which makes a server socket of a client's first request    *)
(* (receiveDataTask of UDTMultiplexer.cpp).  A server socket answers the   *)
(* first request with a cookie and connects when a request brings the      *)
(* cookie back; a client connects on the second answer.                    *)
(*                                                                         *)
(* UDP may lose, repeat and reorder: whatever was sent stays in `net' and  *)
(* may arrive at any later time.  A side's numbering is shown from its     *)
(* initial number, which is 0: its n-th data packet has number n.          *)
(***************************************************************************)
EXTENDS Naturals, Sequences

CONSTANTS
  Clients,   \* client sockets: the address of the host and the socket id there
  MaxData    \* bound: data packets one side of a connection sends

ASSUME HandshakeAssumption ==
  /\ \A c \in Clients : DOMAIN c = {"host", "id"} /\ c.id \in Nat \ {0}
  /\ MaxData \in Nat

VARIABLES
  status,   \* _socketStatus of each client socket
  cookie,   \* _cookie, 0 before the first answer
  dst,      \* _dstSocketId, 0 before the first answer
  lrsn,     \* _lrsn, the server's initial number as the client learnt it
  sent,     \* _seqNumber, the number of the client's last data packet
  servers,  \* the listener's sockets; a socket's id is its place
  net       \* the SYN packets sent so far

clientVars == <<status, cookie, dst, lrsn, sent>>
vars == <<clientVars, servers, net>>

Request(c, ck, to) == [type |-> "request", client |-> c, socket |-> to, cookie |-> ck, init |-> sent[c]]

Response(s) == [type |-> "response", client |-> servers[s].peer, socket |-> s,
                cookie |-> servers[s].cookie, init |-> servers[s].sent]

\* The socket getSocketByDstSocketId finds for a peer's socket id.
SocketsOf(id) == { s \in DOMAIN servers : servers[s].peer.id = id }

SocketsOfHost(c) == { s \in DOMAIN servers : servers[s].peer = c }
-----------------------------------------------------------------------------
(***************************************************************************)
(* The client.                                                             *)
(***************************************************************************)

\* Mutant: the request is also repeated once the connection is set up.
TryConnectionAlways(c) ==
  /\ net' = net \cup {Request(c, cookie[c], dst[c])}
  /\ status' = [status EXCEPT ![c] = IF @ = "unconnected" THEN "connecting" ELSE @]
  /\ UNCHANGED <<cookie, dst, lrsn, sent, servers>>

\* synTask, each time the SYN period has passed.
TryConnection(c) ==
  /\ status[c] # "connected"
  /\ net' = net \cup {Request(c, cookie[c], dst[c])}
  /\ status' = [status EXCEPT ![c] = "connecting"]
  /\ UNCHANGED <<cookie, dst, lrsn, sent, servers>>

\* Mutant: the client keeps the cookie and waits for the SYN timer.
EchoLater(c, m) == net' = net

\* The request goes out again at once, with the cookie.
EchoCookie(c, m) == net' = net \cup {Request(c, m.cookie, dst'[c])}

\* handleSynPacket of a client; an answer carries a cookie, so it is not 0.
HandleResponse(c, m) ==
  /\ m \in net /\ m.type = "response" /\ m.client = c
  /\ status[c] # "connected"
  /\ dst' = [dst EXCEPT ![c] = IF @ = 0 THEN m.socket ELSE @]
  /\ \/ /\ cookie[c] = 0
        /\ cookie' = [cookie EXCEPT ![c] = m.cookie]
        /\ EchoCookie(c, m)
        /\ UNCHANGED <<status, lrsn>>
     \/ /\ cookie[c] # 0
        /\ lrsn' = [lrsn EXCEPT ![c] = m.init]
        /\ status' = [status EXCEPT ![c] = "connected"]
        /\ UNCHANGED <<cookie, net>>
  /\ UNCHANGED <<sent, servers>>

\* The send thread numbers and sends what the application posted.
ClientSend(c) ==
  /\ status[c] = "connected"
  /\ sent[c] < MaxData
  /\ sent' = [sent EXCEPT ![c] = @ + 1]
  /\ UNCHANGED <<status, cookie, dst, lrsn, servers, net>>
-----------------------------------------------------------------------------
(***************************************************************************)
(* The listener and its sockets.                                           *)
(***************************************************************************)

\* Mutant: every request without a socket id makes a socket.
KnowsPeerNever(m) == FALSE

\* Only the socket id identifies the peer, not its address.
KnowsPeer(m) == SocketsOf(m.client.id) # {}

\* receiveDataTask: the first request of a peer makes a socket for it.
CreateSocket(m) ==
  /\ m \in net /\ m.type = "request" /\ m.socket = 0
  /\ ~KnowsPeer(m)
  /\ servers' = Append(servers, [peer |-> m.client, status |-> "unconnected", cookie |-> 0,
                                 lrsn |-> 0, sent |-> 0, answering |-> FALSE])
  /\ UNCHANGED <<clientVars, net>>

\* Mutant: any request after the first connects.
CookieMatchesAny(s, m) == TRUE

CookieMatches(s, m) == m.cookie = servers[s].cookie

\* receiveDataTask finds the socket, receiveData drops a packet that comes from
\* another address than the socket's peer, and a connected socket drops it too.
Reaches(m, s) ==
  /\ m \in net /\ m.type = "request"
  /\ m.socket = s \/ (m.socket = 0 /\ s \in SocketsOf(m.client.id))
  /\ m.client.host = servers[s].peer.host
  /\ servers[s].status # "connected" /\ ~servers[s].answering

\* handleSynPacket of a server socket up to the answer: the first request makes
\* the cookie, ...
FirstRequest(s, m) ==
  /\ Reaches(m, s)
  /\ servers[s].cookie = 0
  /\ servers' = [servers EXCEPT ![s].cookie = s, ![s].answering = TRUE]

\* ... one with the cookie connects, and the application is told so before the
\* answer is sent, ...
CookieRequest(s, m) ==
  /\ Reaches(m, s)
  /\ servers[s].cookie # 0 /\ CookieMatches(s, m)
  /\ servers' = [servers EXCEPT ![s].status = "connected", ![s].lrsn = m.init,
                                ![s].answering = TRUE]

\* ... any other is only answered.
RepeatedRequest(s, m) ==
  /\ Reaches(m, s)
  /\ servers[s].cookie # 0 /\ ~CookieMatches(s, m)
  /\ servers' = [servers EXCEPT ![s].answering = TRUE]

HandleRequest(s, m) ==
  /\ FirstRequest(s, m) \/ CookieRequest(s, m) \/ RepeatedRequest(s, m)
  /\ UNCHANGED <<clientVars, net>>

\* sendSynPacket(FIRST_RESPONSE) carries _seqNumber as it is by now.
Answer(s) ==
  /\ servers[s].answering
  /\ net' = net \cup {Response(s)}
  /\ servers' = [servers EXCEPT ![s].answering = FALSE]
  /\ UNCHANGED clientVars

ServerSend(s) ==
  /\ servers[s].status = "connected"
  /\ servers[s].sent < MaxData
  /\ servers' = [servers EXCEPT ![s].sent = @ + 1]
  /\ UNCHANGED <<clientVars, net>>
-----------------------------------------------------------------------------
Init ==
  /\ status = [c \in Clients |-> "unconnected"]
  /\ cookie = [c \in Clients |-> 0]
  /\ dst = [c \in Clients |-> 0]
  /\ lrsn = [c \in Clients |-> 0]
  /\ sent = [c \in Clients |-> 0]
  /\ servers = <<>>
  /\ net = {}

Client(c) ==
  \/ TryConnection(c)
  \/ ClientSend(c)
  \/ \E m \in net : HandleResponse(c, m)

Server(s) ==
  \/ \E m \in net : HandleRequest(s, m)
  \/ Answer(s)
  \/ ServerSend(s)

Next ==
  \/ \E c \in Clients : Client(c)
  \/ \E m \in net : CreateSocket(m)
  \/ \E s \in DOMAIN servers : Server(s)

Spec == Init /\ [][Next]_vars

\* The packets there can be: a listener makes a socket for each client at most.
SocketIds == 1 .. 2

Packets ==
  [type : {"request", "response"}, client : Clients, socket : SocketIds \cup {0},
   cookie : SocketIds \cup {0}, init : 0 .. MaxData]

\* The timers and threads run, and no packet is lost for good: it waits in the
\* queue of its socket's receive thread, which is first in first out, so that a
\* thread that is busy answering comes back to it (SF).
Fairness ==
  /\ \A c \in Clients :
       /\ WF_vars(TryConnection(c))
       /\ WF_vars(\E m \in net : m.client = c /\ CreateSocket(m))
       /\ WF_vars(\E m \in net : HandleResponse(c, m))
  /\ \A s \in SocketIds :
       /\ WF_vars(s \in DOMAIN servers /\ Answer(s))
       /\ SF_vars(s \in DOMAIN servers /\ \E m \in net : FirstRequest(s, m) /\ HandleRequest(s, m))
       /\ SF_vars(s \in DOMAIN servers /\ \E m \in net : CookieRequest(s, m) /\ HandleRequest(s, m))

FairSpec == Spec /\ Fairness
-----------------------------------------------------------------------------
ServerOf(c) == { s \in SocketsOfHost(c) : servers[s].status = "connected" }

TypeOK ==
  /\ \A c \in Clients :
       /\ status[c] \in {"unconnected", "connecting", "connected"}
       /\ cookie[c] \in SocketIds \cup {0} /\ dst[c] \in SocketIds \cup {0}
       /\ lrsn[c] \in 0 .. MaxData /\ sent[c] \in 0 .. MaxData
  /\ DOMAIN servers \subseteq SocketIds
  /\ net \subseteq Packets

\* However often requests are repeated and however late they arrive, a client
\* gets one server socket.
OneSocketPerClient == \A c \in Clients : \A s, t \in SocketsOfHost(c) : s = t

\* A server socket connects only to a client that was given its cookie.
ConnectsToCookieHolder ==
  \A s \in DOMAIN servers :
    servers[s].status = "connected" =>
      LET c == servers[s].peer IN cookie[c] = s /\ dst[c] = s

\* The number a server socket starts from is the client's initial one, so that
\* it expects the client's first data packet, whichever request it connected on.
ServerExpectsFirstPacket ==
  \A s \in DOMAIN servers : servers[s].status = "connected" => servers[s].lrsn = 0

\* UDTSocket.cpp:1270: a number given to a packet is a problem only while there
\* is no connection; the client expects the first packet its server sent.
ClientExpectsFirstPacket ==
  \A c \in Clients : status[c] = "connected" => lrsn[c] = 0

\* UDTSocket.cpp:579: when a client receives the second answer the connection is
\* set up; so its server socket is connected.
SecondAnswerMeansConnected ==
  \A c \in Clients : status[c] = "connected" => ServerOf(c) # {}

\* Where no packet is lost for good, every client and its server socket connect.
HandshakeCompletes ==
  \A c \in Clients : <>(status[c] = "connected" /\ ServerOf(c) # {})

\* UDTMultiplexer.cpp:303: a connection request makes a connection for its sender.
RequestMakesSocket ==
  \A c \in Clients : status[c] = "connecting" ~> SocketsOfHost(c) # {}

=============================================================================
