----------------------------- MODULE RtspClient -----------------------------
(***************************************************************************)
(* The RTSP client: the requests that set a stream up, each sent when the  *)
(* one before was answered, the digest authentication, pause and play, and *)
(* the parser that takes answers and data frames apart from one stream of  *)
(* bytes, which arrives cut into reads anywhere.                           *)
(*                                                                         *)
(* Bytes are numbers.  An answer is one number, which holds its CSeq and   *)
(* its code, and an empty line; the description in the answer to DESCRIBE  *)
(* follows as bytes of its own, which the client does not expect.  A frame *)
(* is `$', channel, two bytes of length and the data, and RECEIVE_SIZE     *)
(* exceeds every frame and answer.  A frame is an RTP or RTCP packet and   *)
(* so never empty.  Below is AsioTcpClient: what is sent while it takes    *)
(* itself for connected is queued, and what a lost connection leaves at    *)
(* the front of its queue may block the queue for good.                    *)
(***************************************************************************)
EXTENDS Naturals, SequencesExt

CONSTANTS
  Payloads,   \* what the server's frames contain
  Channels,   \* and the channels they use
  MaxFrames,  \* bound: frames of one connection
  MaxDrops,   \* bound: connections lost, at most 7 (the codes of answers are digits)
  MaxCalls    \* bound: calls of pause and play

ASSUME FramesAssumption ==
  /\ Channels \subseteq 0 .. 255
  /\ \A data \in Payloads : data \in Seq(0 .. 255) /\ 0 < Len(data) /\ Len(data) < 65536

VARIABLES
  parser,     \* what only the io thread uses: _receiveData, _dataPacketLen, _channel, _tmpData
  session,    \* what RtspTcpClient::_mutex guards: the status, _cseq, the authentication
  link,       \* "connecting", "up", "broken": lost and not noticed, "ended"
  requests,   \* written and not served
  blocked,    \* the queue of messages to write does not move
  wire,       \* bytes on their way to the client
  server,     \* the server's state of this connection: "new", "ready", "playing", "paused"
  demands,    \* the server asks for authentication
  frames,     \* how many frames the server sent over this connection
  sent,       \* what those of the two media contained
  handed,     \* what the application got of it
  torn,       \* a connection ended inside a packet
  drops, calls

vars == <<parser, session, link, requests, blocked, wire, server, demands, frames, sent,
          handed, torn, drops, calls>>

CR == 13
LF == 10
Dollar == 36
EmptyLine == <<CR, LF, CR, LF>>
Blank == <<255, 255, 255, 255>>

\* The body of the answer to DESCRIBE.
Description == <<1, CR, LF>>

OK == 0
NotValid == 1
Unauthorized(nonce) == 1 + nonce

IsAnswer(byte) == byte >= 1000
Answer(cseq, code) == <<1000 + 10 * cseq + code>> \o EmptyLine
CSeqOf(byte) == (byte - 1000) \div 10
CodeOf(byte) == byte % 10

Frame(f) == <<Dollar, f.channel, Len(f.data) \div 256, Len(f.data) % 256>> \o f.data

\* The channels of the two media; RTCP uses the others.
Media == {0, 2}

\* The nonce of the connection: a server makes one for each.
Nonce == drops + 1
-----------------------------------------------------------------------------
(***************************************************************************)
(* The requests.  `asks' is what a call of the client gives to send.       *)
(***************************************************************************)

\* createCommonBuffer and send; the URL has a user name.
Ask(s, method) ==
  [s EXCEPT !.cseq = @ + 1, !.tried = @ \/ s.need,
            !.asks = Append(@, [method |-> method, cseq |-> s.cseq + 1,
                                nonce |-> IF s.need THEN s.nonce ELSE 0])]

\* The request each status sends, and the status it leads to.
NextRequest == [TEARDOWN |-> "OPTIONS", OPTIONS |-> "DESCRIBE", DESCRIBE |-> "SETUP_VIDEO",
                SETUP_VIDEO |-> "SETUP_AUDIO", SETUP_AUDIO |-> "PLAY"]

Succeeds ==
  [method \in DOMAIN NextRequest \cup {"WAIT_PLAY", "WAIT_PAUSE"} |->
     CASE method = "WAIT_PLAY" -> "PLAY"
       [] method = "WAIT_PAUSE" -> "PAUSE"
       [] OTHER -> NextRequest[method]]

UpdateStatus(s) ==
  IF s.method \in DOMAIN NextRequest THEN Ask(s, NextRequest[s.method]) ELSE s

AnswerIsOK(s) ==
  IF s.method \notin DOMAIN Succeeds THEN s
  ELSE LET next == [s EXCEPT !.method = Succeeds[s.method]]
       IN  IF s.method \in DOMAIN NextRequest THEN UpdateStatus(next) ELSE next

\* A second refusal is taken for a wrong password.
AnswerIsRefusal(s, nonce) ==
  IF s.method # "OPTIONS" THEN s
  ELSE IF s.tried THEN [s EXCEPT !.method = "TEARDOWN"]
  ELSE UpdateStatus([s EXCEPT !.nonce = nonce, !.need = TRUE])

\* handleRtspPacket: the first CSeq of the text has to be that of the last request.
HandleRtspPacket(s, text) ==
  LET answers == { k \in DOMAIN text : IsAnswer(text[k]) }
      answer == text[Min(answers)]
      code == CodeOf(answer)
  IN  IF answers = {} \/ CSeqOf(answer) # s.cseq THEN s
      ELSE IF code = OK THEN AnswerIsOK(s)
      ELSE IF code = NotValid THEN s
      ELSE AnswerIsRefusal(s, code - 1)

\* The requests reach the server while the connection holds and the queue moves.
Sends(s) ==
  /\ session' = [s EXCEPT !.asks = <<>>]
  /\ requests' = IF link' = "up" /\ ~blocked THEN requests \o s.asks ELSE requests
-----------------------------------------------------------------------------
(***************************************************************************)
(* receiveData.  `l' is its state in the loop over the bytes of a read: the *)
(* parser, the session, what was handed over, where the bytes not used yet *)
(* begin, and the byte it looks at next.                                   *)
(***************************************************************************)

AddChar(window, char) == <<window[2], window[3], window[4], char>>

\* handleDataPacket hands over what belongs to the two media.
HandleDataPacket(media, channel, data) ==
  IF channel \in Media THEN Append(media, data) ELSE media

\* Mutant: what was kept stays when its text is complete.
TextEndsKept(l, bytes) ==
  [l EXCEPT !.parser = [@ EXCEPT !.window = Blank],
            !.session = HandleRtspPacket(@, l.parser.kept \o bytes)]

\* A text is what was kept and what was read since the last packet.
TextEnds(l, bytes) ==
  [l EXCEPT !.parser = [@ EXCEPT !.window = Blank, !.kept = <<>>],
            !.session = HandleRtspPacket(@, l.parser.kept \o bytes)]

FrameEnds(l, bytes) ==
  [l EXCEPT !.parser = [@ EXCEPT !.window = Blank, !.kept = <<>>, !.frameLen = 0],
            !.media = HandleDataPacket(@, l.parser.channel, l.parser.kept \o bytes)]

\* Mutant: what has been kept is not counted.
WholeFrame(p) == p.frameLen

\* How much of the frame that was begun is still to come.
Lacking(p) == p.frameLen - Len(p.kept)

ContinueAt(l, i) == [l EXCEPT !.begin = i, !.next = i]

\* One pass of the loop, at byte i; the bytes of a complete frame are passed over.
ScanByte(read, l, i) ==
  LET window == AddChar(l.parser.window, read[i])
      frameLen == 256 * window[3] + window[4]
      opened == [l EXCEPT !.parser = [@ EXCEPT !.window = window, !.kept = <<>>,
                                               !.channel = window[2], !.frameLen = frameLen]]
      rest == Len(read) - i
      next == i + frameLen + 1
  IN  IF i < l.next
      THEN l
      ELSE IF window = EmptyLine
      THEN ContinueAt(TextEnds(l, SubSeq(read, l.begin, i)), i + 1)
      ELSE IF window[1] # Dollar
      THEN [l EXCEPT !.parser.window = window, !.next = i + 1]
      ELSE IF rest = 0 \/ rest < frameLen
      THEN ContinueAt([opened EXCEPT !.parser.kept = SubSeq(read, i + 1, Len(read))],
                      Len(read) + 1)
      ELSE ContinueAt(FrameEnds(opened, SubSeq(read, i + 1, next - 1)), next)

\* The loop, and what is left over.
Scan(start, read) ==
  LET loop[i \in 0 .. Len(read)] ==
        IF i = 0 THEN start ELSE ScanByte(read, loop[i - 1], i)
      end == loop[Len(read)]
  IN  [end EXCEPT !.parser.kept = @ \o SubSeq(read, end.begin, Len(read))]

Receive(p, s, read) ==
  LET start == [parser |-> p, session |-> s, media |-> <<>>, begin |-> 1, next |-> 1]
      lacking == Lacking(p)
  IN  IF p.frameLen = 0
      THEN Scan(start, read)
      ELSE IF Len(read) < lacking
      THEN [start EXCEPT !.parser.kept = @ \o read]
      ELSE Scan(ContinueAt(FrameEnds(start, SubSeq(read, 1, lacking)), lacking + 1), read)
-----------------------------------------------------------------------------
(***************************************************************************)
(* The client's threads.                                                   *)
(***************************************************************************)

\* The io thread finds itself connected: onStatus.
Connect ==
  /\ link = "connecting"
  /\ link' = "up"
  /\ server' = "new" /\ frames' = 0 /\ sent' = <<>> /\ handed' = <<>>
  /\ Sends(UpdateStatus([session EXCEPT !.tried = FALSE]))
  /\ UNCHANGED <<parser, blocked, wire, demands, torn, drops, calls>>

\* A read of any length, and the packets it completes.
Read ==
  /\ link \in {"up", "broken"} /\ wire # <<>>
  /\ \E k \in 1 .. Len(wire) :
       LET end == Receive(parser, session, SubSeq(wire, 1, k))
       IN  /\ wire' = SubSeq(wire, k + 1, Len(wire))
           /\ parser' = end.parser
           /\ handed' = handed \o end.media
           /\ UNCHANGED link
           /\ Sends(end.session)
  /\ UNCHANGED <<blocked, server, demands, frames, sent, torn, drops, calls>>

\* The read fails: the client will connect again, with the parser as it is.
Notice ==
  /\ link = "broken"
  /\ link' = "connecting"
  /\ wire' = <<>>
  /\ torn' = (torn \/ parser.kept # <<>> \/ parser.frameLen > 0)
  /\ UNCHANGED <<parser, session, requests, blocked, server, demands, frames, sent, handed,
                 drops, calls>>

Call(from, method, waiting) ==
  /\ link # "ended" /\ calls < MaxCalls
  /\ session.method \in from
  /\ calls' = calls + 1
  /\ UNCHANGED link
  /\ Sends(Ask([session EXCEPT !.method = waiting], method))
  /\ UNCHANGED <<parser, blocked, wire, server, demands, frames, sent, handed, torn, drops>>

Pause == Call({"PLAY"}, "PAUSE", "WAIT_PAUSE")

Play == Call({"PAUSE", "PLAY"}, "PLAY", "WAIT_PLAY")

\* shutdown: TEARDOWN is written past the queue, the io thread is waited for.
Shutdown ==
  /\ link # "ended"
  /\ link' = "ended"
  /\ Sends(Ask(session, "TEARDOWN"))
  /\ UNCHANGED <<parser, blocked, wire, server, demands, frames, sent, handed, torn, drops,
                 calls>>
-----------------------------------------------------------------------------
(***************************************************************************)
(* The server and the network.                                             *)
(***************************************************************************)

\* A server that demands authentication does so from DESCRIBE on; it plays what
\* was set up over this connection.
Serve ==
  /\ link = "up" /\ requests # <<>>
  /\ requests' = Tail(requests)
  /\ LET r == Head(requests)
         refused == demands /\ r.method # "OPTIONS" /\ r.nonce # Nonce
         lost == r.method \in {"PLAY", "PAUSE"} /\ server = "new"
         code == IF refused THEN Unauthorized(Nonce) ELSE IF lost THEN NotValid ELSE OK
         body == IF r.method = "DESCRIBE" /\ code = OK THEN Description ELSE <<>>
     IN  /\ wire' = wire \o Answer(r.cseq, code) \o body
         /\ server' = IF code # OK THEN server
                      ELSE IF r.method \in {"SETUP_VIDEO", "SETUP_AUDIO"} THEN "ready"
                      ELSE IF r.method = "PLAY" THEN "playing"
                      ELSE IF r.method = "PAUSE" THEN "paused" ELSE server
  /\ UNCHANGED <<parser, session, link, blocked, demands, frames, sent, handed, torn, drops,
                 calls>>

SendFrame ==
  /\ link = "up" /\ server = "playing" /\ frames < MaxFrames
  /\ \E f \in [channel : Channels, data : Payloads] :
       /\ wire' = wire \o Frame(f)
       /\ sent' = IF f.channel \in Media THEN Append(sent, f.data) ELSE sent
  /\ frames' = frames + 1
  /\ UNCHANGED <<parser, session, link, requests, blocked, server, demands, handed, torn,
                 drops, calls>>

\* Some of the bytes on their way still arrive; a request that was being written
\* may stay at the front of the queue.
Drop ==
  /\ link = "up" /\ drops < MaxDrops
  /\ link' = "broken" /\ drops' = drops + 1
  /\ \E k \in 0 .. Len(wire) : wire' = SubSeq(wire, 1, k)
  /\ requests' = <<>>
  /\ blocked' \in {blocked, blocked \/ requests # <<>>}
  /\ UNCHANGED <<parser, session, server, demands, frames, sent, handed, torn, calls>>
-----------------------------------------------------------------------------
Init ==
  /\ parser = [window |-> <<0, 0, 0, 0>>, kept |-> <<>>, frameLen |-> 0, channel |-> 255]
  /\ session = [method |-> "TEARDOWN", cseq |-> 0, need |-> FALSE, tried |-> FALSE,
                nonce |-> 0, asks |-> <<>>]
  /\ link = "connecting" /\ requests = <<>> /\ blocked = FALSE /\ wire = <<>>
  /\ server = "new" /\ demands \in BOOLEAN /\ frames = 0 /\ sent = <<>> /\ handed = <<>>
  /\ torn = FALSE /\ drops = 0 /\ calls = 0

Next ==
  \/ Connect \/ Read \/ Notice \/ Pause \/ Play \/ Shutdown
  \/ Serve \/ SendFrame \/ Drop

Spec == Init /\ [][Next]_vars /\ WF_vars(Connect) /\ WF_vars(Read) /\ WF_vars(Serve)
-----------------------------------------------------------------------------
\* The application gets the frames of the two media whole and in order, and all of
\* them once every byte is read: wherever the reads cut headers and frames, with
\* answers between them, whatever delimiters the data contains, and after the
\* description nobody asked the length of.  A connection that ended inside a packet
\* is excepted.
FramesAreWhole ==
  torn \/ /\ IsPrefix(handed, sent)
          /\ wire = <<>> /\ link = "up" => handed = sent

\* Over a connection that holds the client gets through all requests to PLAY, with
\* or without authentication.
OnceUpItPlays == [](drops = 0 /\ link # "ended") => <>(session.method = "PLAY")

\* RtspTcpClient.cpp:310: a second refusal means that name or password are wrong.
RefusedIsWrongPassword == session.method = "TEARDOWN" => ~session.tried
=============================================================================
