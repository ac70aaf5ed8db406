-------------------------- MODULE RtspClientProofs --------------------------
(***************************************************************************)
(* The parser of RtspClient, for all payloads and channels, reads cut      *)
(* anywhere, and connections lost at any byte.                             *)
(*                                                                         *)
(* receiveData is a loop that looks at the bytes of a read and skips, keeps*)
(* or hands over parts of it.  The proof takes the stream byte by byte     *)
(* instead: a point is what the parser knows after a byte, Taken is the    *)
(* point after one more, and ReadEnds shows that a read, wherever it ends, *)
(* leaves the parser at the point of its last byte.  So reads drop out:    *)
(* Leads(r, bytes, q) says that bytes bring the parser from r to q.        *)
(* TextIsQuiet and FrameIsHanded follow what the server sends from a point *)
(* between packets to the next, and StreamInv, the inductive invariant,    *)
(* says that the bytes on their way lead to where all that was sent is     *)
(* handed over.                                                            *)
(***************************************************************************)
EXTENDS RtspClient, SequenceTheorems, WellFoundedInduction, TLAPS

-----------------------------------------------------------------------------
(***************************************************************************)
(* Smallest elements, induction, and the loop over the bytes of a read.    *)
(***************************************************************************)

LessRel == { p \in Nat \X Nat : p[1] < p[2] }

LEMMA Least ==
  ASSUME NEW S, S \subseteq Nat, S # {}
  PROVE  \E m \in S : \A n \in S : m <= n
<1>1. OpToRel(<, Nat) = LessRel
  BY DEF OpToRel, LessRel
<1>2. IsWellFoundedOn(LessRel, Nat)
  BY <1>1, NatLessThanWellFounded
<1>3. PICK m \in S : \A n \in S : ~ (<<n, m>> \in LessRel)
  BY <1>2, WFMin
<1>4. ASSUME NEW n \in S PROVE m <= n
  <2>1. m \in Nat /\ n \in Nat
    OBVIOUS
  <2>2. SUFFICES ASSUME n < m PROVE FALSE
    BY <2>1
  <2>3. <<n, m>> \in LessRel
    BY <2>1, <2>2 DEF LessRel
  <2>4. QED
    BY <1>3, <2>3
<1>5. QED
  BY <1>4

\* What holds of 0 and of the number after each that it holds of, holds of all up to n.
LEMMA Induction ==
  ASSUME NEW n \in Nat, NEW S, 0 \in S, \A m \in 0 .. n - 1 : m \in S => m + 1 \in S
  PROVE  0 .. n \subseteq S
<1> SUFFICES ASSUME ~ (0 .. n \subseteq S) PROVE FALSE
  OBVIOUS
<1> DEFINE B == (0 .. n) \ S
<1>1. B \subseteq Nat /\ B # {}
  OBVIOUS
<1>2. PICK m \in B : \A k \in B : m <= k
  BY <1>1, Least
<1>3. m # 0 /\ m \in 0 .. n
  BY <1>2
<1>4. m - 1 \in 0 .. n - 1 /\ m - 1 \notin B
  BY <1>2, <1>3
<1>5. m - 1 \in S
  BY <1>4
<1>6. (m - 1) + 1 \in S
  BY <1>4, <1>5
<1>7. QED
  BY <1>3, <1>6

IsStep(step, X, n) == step \in [X \X (1 .. n) -> X]

IsLoop(g, X, base, n, step) ==
  g \in [0 .. n -> X] /\ g[0] = base /\ \A i \in 1 .. n : g[i] = step[<<g[i - 1], i>>]

\* A step that is defined for every value can be repeated n times.
LEMMA LoopExists ==
  ASSUME NEW X, NEW base \in X, NEW n \in Nat, NEW step, IsStep(step, X, n)
  PROVE  \E g : IsLoop(g, X, base, n, step)
<1> DEFINE Reaches(g, m) == /\ g \in [0 .. m -> X] /\ g[0] = base
                            /\ \A i \in 1 .. m : g[i] = step[<<g[i - 1], i>>]
           S == { m \in 0 .. n : \E g : Reaches(g, m) }
<1>1. 0 \in S
  <2> DEFINE g == [i \in 0 .. 0 |-> base]
  <2>1. g \in [0 .. 0 -> X] /\ g[0] = base /\ 1 .. 0 = {}
    OBVIOUS
  <2> HIDE DEF g
  <2>2. Reaches(g, 0)
    BY <2>1
  <2>3. QED
    BY <2>2
<1>2. ASSUME NEW m \in 0 .. n - 1, m \in S PROVE m + 1 \in S
  <2>1. PICK g : Reaches(g, m)
    BY <1>2
  <2> DEFINE h == [i \in 0 .. m + 1 |-> IF i = m + 1 THEN step[<<g[m], m + 1>>] ELSE g[i]]
  <2>2. m \in 0 .. m /\ m + 1 \in 1 .. n /\ m + 1 \in 0 .. n /\ m + 1 \in 0 .. m + 1
    OBVIOUS
  <2>3. g[m] \in X
    BY <2>1, <2>2
  <2>4. step[<<g[m], m + 1>>] \in X
    BY <2>2, <2>3 DEF IsStep
  <2>5. \A i \in 0 .. m + 1 : i # m + 1 => i \in 0 .. m
    OBVIOUS
  <2>6. h \in [0 .. m + 1 -> X]
    BY <2>1, <2>4, <2>5
  <2>7. h[0] = base
    BY <2>1
  <2>8. ASSUME NEW i \in 1 .. m + 1 PROVE h[i] = step[<<h[i - 1], i>>]
    <3>1. h[i - 1] = g[i - 1]
      OBVIOUS
    <3>2. CASE i = m + 1
      <4>1. h[i] = step[<<g[m], m + 1>>] /\ i - 1 = m
        BY <3>2
      <4>2. QED
        BY <3>1, <3>2, <4>1
    <3>3. CASE i # m + 1
      <4>1. i \in 1 .. m
        BY <3>3
      <4>2. h[i] = g[i]
        BY <3>3
      <4>3. QED
        BY <4>1, <4>2, <3>1, <2>1
    <3>4. QED
      BY <3>2, <3>3
  <2> HIDE DEF h
  <2>9. Reaches(h, m + 1)
    BY <2>6, <2>7, <2>8
  <2>10. QED
    BY <2>2, <2>9
<1> HIDE DEF S
<1>3. n \in S
  BY <1>1, <1>2, Induction
<1>4. QED
  BY <1>3 DEF S, IsLoop
-----------------------------------------------------------------------------
(***************************************************************************)
(* Types.                                                                  *)
(***************************************************************************)

Windows == Nat \X Nat \X Nat \X Nat

Parsers == [window : Windows, kept : Seq(Nat), frameLen : Nat, channel : Nat]

\* The states of the dialogue, and the requests.
Methods == {"TEARDOWN", "OPTIONS", "DESCRIBE", "SETUP_VIDEO", "SETUP_AUDIO", "PLAY",
            "PAUSE", "WAIT_PLAY", "WAIT_PAUSE"}

Requests == [method : Methods, cseq : Nat, nonce : Nat]

Sessions == [method : Methods, cseq : Nat, need : BOOLEAN, tried : BOOLEAN, nonce : Nat,
             asks : Seq(Requests)]

Loops(n) == [parser : Parsers, session : Sessions, media : Seq(Seq(Nat)),
             begin : 1 .. n + 1, next : 1 .. n + 1]

LEMMA NextRequestTypes ==
  /\ \A method \in DOMAIN NextRequest : NextRequest[method] \in Methods
  /\ \A method \in DOMAIN Succeeds : Succeeds[method] \in Methods
<1>1. DOMAIN NextRequest = {"TEARDOWN", "OPTIONS", "DESCRIBE", "SETUP_VIDEO", "SETUP_AUDIO"}
  BY DEF NextRequest
<1>2. /\ NextRequest["TEARDOWN"] = "OPTIONS" /\ NextRequest["OPTIONS"] = "DESCRIBE"
      /\ NextRequest["DESCRIBE"] = "SETUP_VIDEO" /\ NextRequest["SETUP_VIDEO"] = "SETUP_AUDIO"
      /\ NextRequest["SETUP_AUDIO"] = "PLAY"
  BY DEF NextRequest
<1>3. \A method \in DOMAIN NextRequest : NextRequest[method] \in Methods
  BY <1>1, <1>2 DEF Methods
<1>4. \A method \in DOMAIN Succeeds : Succeeds[method] \in Methods
  BY <1>3 DEF Succeeds, Methods
<1>5. QED
  BY <1>3, <1>4

LEMMA AskTypes ==
  ASSUME NEW s \in Sessions, NEW method \in Methods
  PROVE  Ask(s, method) \in Sessions
<1> DEFINE r == [method |-> method, cseq |-> s.cseq + 1,
                 nonce |-> IF s.need THEN s.nonce ELSE 0]
<1>1. r \in Requests
  BY DEF Sessions, Requests
<1>2. s.asks \in Seq(Requests)
  BY DEF Sessions
<1> HIDE DEF r
<1>3. Append(s.asks, r) \in Seq(Requests)
  BY <1>1, <1>2, AppendProperties
<1> DEFINE tried == s.tried \/ s.need
           asks == Append(s.asks, r)
           cseq == s.cseq + 1
<1>5. tried \in BOOLEAN /\ cseq \in Nat
  BY DEF Sessions
<1>6. Ask(s, method) = [s EXCEPT !.cseq = cseq, !.tried = tried, !.asks = asks]
  BY DEF Ask, Sessions, r
<1> HIDE DEF tried, asks, cseq
<1>7. asks \in Seq(Requests)
  BY <1>3 DEF asks
<1>8. QED
  BY <1>5, <1>6, <1>7 DEF Sessions

LEMMA UpdateStatusTypes ==
  ASSUME NEW s \in Sessions
  PROVE  UpdateStatus(s) \in Sessions
<1>1. CASE s.method \in DOMAIN NextRequest
  <2>1. NextRequest[s.method] \in Methods
    BY <1>1, NextRequestTypes
  <2>2. QED
    BY <1>1, <2>1, AskTypes DEF UpdateStatus
<1>2. CASE s.method \notin DOMAIN NextRequest
  BY <1>2 DEF UpdateStatus
<1>3. QED
  BY <1>1, <1>2

LEMMA HandleRtspPacketTypes ==
  ASSUME NEW s \in Sessions, NEW text \in Seq(Nat)
  PROVE  HandleRtspPacket(s, text) \in Sessions
<1> DEFINE answers == { k \in DOMAIN text : IsAnswer(text[k]) }
           answer == text[Min(answers)]
           code == CodeOf(answer)
<1>1. CASE answers = {} \/ CSeqOf(answer) # s.cseq
  BY <1>1 DEF HandleRtspPacket
<1>2. CASE answers # {} /\ CSeqOf(answer) = s.cseq
  <2>1. answers \subseteq Nat
    OBVIOUS
  <2>2. Min(answers) \in answers
    BY <2>1, <1>2, Least DEF Min
  <2> HIDE DEF answers
  <2>3. answer \in Nat
    BY <2>2 DEF answers
  <2> HIDE DEF answer
  <2>4. code \in Nat
    BY <2>3 DEF CodeOf
  <2> HIDE DEF code
  <2>5. AnswerIsOK(s) \in Sessions
    <3>1. CASE s.method \notin DOMAIN Succeeds
      BY <3>1 DEF AnswerIsOK
    <3>2. CASE s.method \in DOMAIN Succeeds
      <4> DEFINE next == [s EXCEPT !.method = Succeeds[s.method]]
      <4>1. Succeeds[s.method] \in Methods
        BY <3>2, NextRequestTypes
      <4>2. next \in Sessions
        BY <4>1 DEF Sessions
      <4> HIDE DEF next
      <4>3. AnswerIsOK(s) \in {next, UpdateStatus(next)}
        BY <3>2 DEF AnswerIsOK, next
      <4>4. QED
        BY <4>2, <4>3, UpdateStatusTypes
    <3>3. QED
      BY <3>1, <3>2
  <2>6. CASE code # OK /\ code # NotValid
    <3> DEFINE refused == [s EXCEPT !.nonce = code - 1, !.need = TRUE]
    <3>1. code - 1 \in Nat
      BY <2>4, <2>6 DEF OK
    <3>2. refused \in Sessions
      BY <3>1 DEF Sessions
    <3>3. [s EXCEPT !.method = "TEARDOWN"] \in Sessions
      BY DEF Sessions, Methods
    <3>4. UpdateStatus(refused) \in Sessions
      BY <3>2, UpdateStatusTypes
    <3>5. AnswerIsRefusal(s, code - 1) \in Sessions
      BY <3>3, <3>4 DEF AnswerIsRefusal, refused
    <3>6. HandleRtspPacket(s, text) = AnswerIsRefusal(s, code - 1)
      BY <2>6, <1>2 DEF HandleRtspPacket, answers, answer, code
    <3>7. QED
      BY <3>5, <3>6
  <2>7. CASE code = OK \/ code = NotValid
    <3>1. HandleRtspPacket(s, text) \in {s, AnswerIsOK(s)}
      BY <2>7, <1>2 DEF HandleRtspPacket, answers, answer, code
    <3>2. QED
      BY <3>1, <2>5
  <2>8. QED
    BY <2>6, <2>7
<1>3. QED
  BY <1>1, <1>2

-----------------------------------------------------------------------------
(***************************************************************************)
(* The parser taken byte by byte.  A point is what the parser knows after  *)
(* a byte, with what it has handed over.                                   *)
(***************************************************************************)

Points == [window : Windows, kept : Seq(Nat), frameLen : Nat, channel : Nat,
           media : Seq(Seq(Nat))]

Point(parser_, media) ==
  [window |-> parser_.window, kept |-> parser_.kept, frameLen |-> parser_.frameLen,
   channel |-> parser_.channel, media |-> media]

\* The point after one more byte.
Taken(r, byte) ==
  LET kept == Append(r.kept, byte)
      window == AddChar(r.window, byte)
  IN  IF r.frameLen > 0
      THEN IF Len(kept) = r.frameLen
           THEN [window |-> Blank, kept |-> <<>>, frameLen |-> 0, channel |-> r.channel,
                 media |-> HandleDataPacket(r.media, r.channel, kept)]
           ELSE [window |-> r.window, kept |-> kept, frameLen |-> r.frameLen,
                 channel |-> r.channel, media |-> r.media]
      ELSE IF window = EmptyLine
      THEN [window |-> Blank, kept |-> <<>>, frameLen |-> 0, channel |-> r.channel,
            media |-> r.media]
      ELSE IF window[1] # Dollar
      THEN [window |-> window, kept |-> kept, frameLen |-> 0, channel |-> r.channel,
            media |-> r.media]
      ELSE [window |-> window, kept |-> <<>>, frameLen |-> 256 * window[3] + window[4],
            channel |-> window[2], media |-> r.media]

\* What is kept of a frame is less than the frame; a `$' in the first place opened a
\* frame; and what may become a header is kept.
Sound(r) ==
  /\ r.frameLen > 0 => Len(r.kept) < r.frameLen
  /\ r.window[1] = Dollar => r.frameLen > 0
  /\ r.frameLen = 0 /\ Dollar \in {r.window[2], r.window[3], r.window[4]} => r.kept # <<>>

\* The points at the bytes of a stream.
Run(run, bytes) ==
  /\ run \in [0 .. Len(bytes) -> Points]
  /\ \A i \in 0 .. Len(bytes) : Sound(run[i])
  /\ \A i \in 1 .. Len(bytes) : run[i] = Taken(run[i - 1], bytes[i])

LEMMA TextEndsFacts ==
  ASSUME NEW n \in Nat, NEW l \in Loops(n), NEW bytes \in Seq(Nat)
  PROVE  /\ TextEnds(l, bytes) \in Loops(n)
         /\ TextEnds(l, bytes).parser.window = Blank
         /\ TextEnds(l, bytes).parser.kept = <<>>
         /\ TextEnds(l, bytes).parser.frameLen = l.parser.frameLen
         /\ TextEnds(l, bytes).parser.channel = l.parser.channel
         /\ TextEnds(l, bytes).media = l.media
<1> DEFINE s == HandleRtspPacket(l.session, l.parser.kept \o bytes)
<1>1. l.parser.kept \o bytes \in Seq(Nat)
  BY ConcatProperties DEF Loops, Parsers
<1>2. s \in Sessions
  BY <1>1, HandleRtspPacketTypes DEF Loops
<1>3. Blank \in Windows /\ <<>> \in Seq(Nat)
  BY DEF Blank, Windows
<1> DEFINE p == [l.parser EXCEPT !.window = Blank, !.kept = <<>>]
<1>4. /\ p \in Parsers /\ p.window = Blank /\ p.kept = <<>>
      /\ p.frameLen = l.parser.frameLen /\ p.channel = l.parser.channel
  BY <1>3 DEF Loops, Parsers
<1>5. TextEnds(l, bytes) = [l EXCEPT !.parser = p, !.session = s]
  BY DEF TextEnds, Loops
<1> HIDE DEF s, p
<1>6. QED
  BY <1>2, <1>4, <1>5 DEF Loops

LEMMA FrameEndsFacts ==
  ASSUME NEW n \in Nat, NEW l \in Loops(n), NEW bytes \in Seq(Nat)
  PROVE  /\ FrameEnds(l, bytes) \in Loops(n)
         /\ FrameEnds(l, bytes).parser.window = Blank
         /\ FrameEnds(l, bytes).parser.kept = <<>>
         /\ FrameEnds(l, bytes).parser.frameLen = 0
         /\ FrameEnds(l, bytes).parser.channel = l.parser.channel
         /\ FrameEnds(l, bytes).media
              = HandleDataPacket(l.media, l.parser.channel, l.parser.kept \o bytes)
<1> DEFINE media == HandleDataPacket(l.media, l.parser.channel, l.parser.kept \o bytes)
<1>1. l.parser.kept \o bytes \in Seq(Nat)
  BY ConcatProperties DEF Loops, Parsers
<1>2. media \in Seq(Seq(Nat))
  BY <1>1, AppendProperties DEF Loops, HandleDataPacket
<1>3. Blank \in Windows /\ <<>> \in Seq(Nat)
  BY DEF Blank, Windows
<1> DEFINE p == [l.parser EXCEPT !.window = Blank, !.kept = <<>>, !.frameLen = 0]
<1>4. /\ p \in Parsers /\ p.window = Blank /\ p.kept = <<>>
      /\ p.frameLen = 0 /\ p.channel = l.parser.channel
  BY <1>3 DEF Loops, Parsers
<1>5. FrameEnds(l, bytes) = [l EXCEPT !.parser = p, !.media = media]
  BY DEF FrameEnds, Loops
<1> HIDE DEF media, p
<1>6. /\ FrameEnds(l, bytes) \in Loops(n)
      /\ FrameEnds(l, bytes).parser = p /\ FrameEnds(l, bytes).media = media
  BY <1>2, <1>4, <1>5 DEF Loops
<1>7. QED
  BY <1>4, <1>6 DEF media

LEMMA ContinueAtFacts ==
  ASSUME NEW n \in Nat, NEW l \in Loops(n), NEW i \in 1 .. n + 1
  PROVE  /\ ContinueAt(l, i) \in Loops(n)
         /\ ContinueAt(l, i).parser = l.parser
         /\ ContinueAt(l, i).media = l.media
         /\ ContinueAt(l, i).begin = i
         /\ ContinueAt(l, i).next = i
BY DEF ContinueAt, Loops

LEMMA BytesOf ==
  ASSUME NEW read \in Seq(Nat), NEW a \in 1 .. Len(read) + 1, NEW b \in 0 .. Len(read)
  PROVE  /\ SubSeq(read, a, b) \in Seq(Nat)
         /\ Len(SubSeq(read, a, b)) = IF a <= b THEN b - a + 1 ELSE 0
         /\ a > b => SubSeq(read, a, b) = <<>>
<1>1. \A i \in a .. b : read[i] \in Nat
  BY ElementOfSeq
<1>2. a \in Int /\ b \in Int
  OBVIOUS
<1>3. QED
  BY <1>1, <1>2, SubSeqProperties, SubSeqEmpty

LEMMA AppendConcat ==
  ASSUME NEW S, NEW s \in Seq(S), NEW t \in Seq(S), NEW e \in S
  PROVE  Append(s \o t, e) = s \o (t \o <<e>>)
<1>1. s \o t \in Seq(S)
  BY ConcatProperties
<1>2. Append(s \o t, e) = (s \o t) \o <<e>>
  BY <1>1, AppendIsConcat
<1>3. <<e>> \in Seq(S)
  OBVIOUS
<1>4. \A u \in Seq(S) : (s \o t) \o u = s \o (t \o u)
  BY ConcatAssociative
<1>5. QED
  BY <1>2, <1>3, <1>4

\* One more byte.
LEMMA NextByte ==
  ASSUME NEW kept \in Seq(Nat), NEW read \in Seq(Nat),
         NEW b \in 1 .. Len(read), NEW a \in 1 .. b
  PROVE  Append(kept \o SubSeq(read, a, b - 1), read[b]) = kept \o SubSeq(read, a, b)
<1> DEFINE x == SubSeq(read, a, b - 1)
<1>1. read[b] \in Nat /\ b - 1 \in 0 .. Len(read) /\ a \in 1 .. Len(read) + 1
  BY ElementOfSeq
<1>2. x \in Seq(Nat)
  BY <1>1, BytesOf
<1>3. SubSeq(read, a, b) = x \o <<read[b]>>
  <2>1. a \in 1 .. Len(read) /\ b \in a .. Len(read)
    OBVIOUS
  <2>2. QED
    BY <2>1, SubSeqRecursiveSecond
<1>4. Append(kept \o x, read[b]) = kept \o (x \o <<read[b]>>)
  BY <1>1, <1>2, AppendConcat
<1>5. QED
  BY <1>3, <1>4

\* Where bytes are.
LEMMA Places ==
  ASSUME NEW a \in Nat, NEW n \in Nat, NEW length \in Nat, n >= 1, a + n <= length
  PROVE  /\ a + n \in 1 .. length /\ a + n \in 0 .. length
         /\ (a + n) - 1 = a + (n - 1) /\ n - 1 \in 0 .. length - a
         /\ a + (n - 1) \in 0 .. length
         /\ a + 1 \in 1 .. a + n /\ a + 1 \in 1 .. length + 1
         /\ a + 1 <= a + n /\ (a + n) - (a + 1) + 1 = n
  OBVIOUS

LEMMA KeptAsItIs ==
  ASSUME NEW kept \in Seq(Nat), NEW read \in Seq(Nat),
         NEW a \in 1 .. Len(read) + 1, NEW b \in 0 .. Len(read), a > b
  PROVE  kept \o SubSeq(read, a, b) = kept
<1>1. SubSeq(read, a, b) = <<>>
  BY BytesOf
<1>2. QED
  BY <1>1, ConcatEmptySeq

\* The data of a frame is kept as far as it is read.
LEMMA DataIsKept ==
  ASSUME NEW read \in Seq(Nat), NEW run, Run(run, read), NEW a \in 0 .. Len(read),
         run[a].frameLen > 0, NEW n \in 0 .. Len(read) - a,
         Len(run[a].kept) + n < run[a].frameLen
  PROVE  /\ run[a + n].window = run[a].window
         /\ run[a + n].kept = run[a].kept \o SubSeq(read, a + 1, a + n)
         /\ run[a + n].frameLen = run[a].frameLen
         /\ run[a + n].channel = run[a].channel
         /\ run[a + n].media = run[a].media
<1> DEFINE IsKept(j) == /\ run[a + j].window = run[a].window
                        /\ run[a + j].kept = run[a].kept \o SubSeq(read, a + 1, a + j)
                        /\ run[a + j].frameLen = run[a].frameLen
                        /\ run[a + j].channel = run[a].channel
                        /\ run[a + j].media = run[a].media
           S == { j \in 0 .. n : IsKept(j) }
<1>1. /\ Len(read) \in Nat /\ run[a] \in Points
      /\ run[a].kept \in Seq(Nat) /\ run[a].frameLen \in Nat
  BY DEF Run, Points
<1>0. a \in Nat /\ n \in Nat /\ Len(read) \in Nat /\ a + n <= Len(read)
  BY <1>1
<1>2. 0 \in S
  <2>1. a + 1 \in 1 .. Len(read) + 1 /\ a + 1 > a + 0 /\ a + 0 \in 0 .. Len(read)
    BY <1>1
  <2>2. run[a].kept \o SubSeq(read, a + 1, a + 0) = run[a].kept
    BY <1>1, <2>1, KeptAsItIs
  <2>3. a + 0 = a
    BY <1>1
  <2>4. QED
    BY <2>2, <2>3
<1>3. ASSUME NEW m \in 0 .. n - 1, m \in S PROVE m + 1 \in S
  <2> DEFINE j == m + 1
             i == a + j
  <2>0. m \in Nat /\ j \in Nat /\ j >= 1 /\ a + j <= Len(read) /\ j - 1 = m /\ j \in 0 .. n
    BY <1>0
  <2>13. /\ a + (m + 1) = i /\ m + 1 \in 0 .. n /\ i - (a + 1) + 1 = m + 1
    BY <1>0, <2>0
  <2> HIDE DEF j
  <2>1. /\ i \in 1 .. Len(read) /\ i \in 0 .. Len(read) /\ i - 1 = a + m
        /\ a + 1 \in 1 .. i /\ a + m \in 0 .. Len(read)
        /\ a + 1 \in 1 .. Len(read) + 1 /\ a + 1 <= i
    BY <1>0, <2>0, Places
  <2> DEFINE kept == run[a].kept \o SubSeq(read, a + 1, i)
  <2> HIDE DEF i
  <2>2. IsKept(m)
    BY <1>3
  <2>3. run[i] = Taken(run[i - 1], read[i])
    BY <2>1 DEF Run
  <2>4. run[i - 1].kept = run[a].kept \o SubSeq(read, a + 1, i - 1)
    BY <2>1, <2>2
  <2>5. Append(run[i - 1].kept, read[i]) = kept
    BY <1>1, <2>1, <2>4, NextByte
  <2>6. Len(kept) = Len(run[a].kept) + m + 1
    <3>1. /\ SubSeq(read, a + 1, i) \in Seq(Nat)
          /\ Len(SubSeq(read, a + 1, i)) = m + 1
      BY <1>1, <2>1, <2>13, BytesOf
    <3>2. QED
      BY <1>1, <2>1, <3>1, ConcatProperties
  <2>7. Len(run[a].kept) \in Nat /\ Len(run[a].kept) + m + 1 # run[a].frameLen
    BY <1>1
  <2>8. /\ run[i - 1].frameLen = run[a].frameLen /\ run[i - 1].window = run[a].window
        /\ run[i - 1].channel = run[a].channel /\ run[i - 1].media = run[a].media
    BY <2>1, <2>2
  <2> HIDE DEF kept
  <2>9. run[i] = [window |-> run[a].window, kept |-> kept,
                  frameLen |-> run[a].frameLen, channel |-> run[a].channel,
                  media |-> run[a].media]
    BY <2>3, <2>5, <2>6, <2>7, <2>8 DEF Taken
  <2>10. /\ run[i].window = run[a].window
         /\ run[i].kept = kept
         /\ run[i].frameLen = run[a].frameLen
         /\ run[i].channel = run[a].channel
         /\ run[i].media = run[a].media
    BY <2>9
  <2>12. IsKept(m + 1)
    BY <2>13, <2>10, Zenon DEF kept
  <2>11. QED
    BY <2>13, <2>12
<1> HIDE DEF S
<1>4. n \in S
  <2>1. n \in 0 .. n
    BY <1>0
  <2>2. 0 .. n \subseteq S
    BY <1>0, <1>2, <1>3, Induction
  <2>3. QED
    BY <2>1, <2>2
<1>5. QED
  BY <1>4 DEF S

\* A frame is handed over at the last byte of its data.
LEMMA FrameIsTaken ==
  ASSUME NEW read \in Seq(Nat), NEW run, Run(run, read), NEW a \in 0 .. Len(read),
         run[a].frameLen > 0, NEW n \in 1 .. Len(read) - a,
         run[a].frameLen = Len(run[a].kept) + n
  PROVE  /\ run[a + n].window = Blank
         /\ run[a + n].kept = <<>>
         /\ run[a + n].frameLen = 0
         /\ run[a + n].channel = run[a].channel
         /\ run[a + n].media = HandleDataPacket(run[a].media, run[a].channel,
                                     run[a].kept \o SubSeq(read, a + 1, a + n))
<1> DEFINE i == a + n
<1>1. /\ Len(read) \in Nat /\ run[a] \in Points
      /\ run[a].kept \in Seq(Nat) /\ run[a].frameLen \in Nat /\ Len(run[a].kept) \in Nat
  BY DEF Run, Points
<1>0. a \in Nat /\ n \in Nat /\ n >= 1 /\ Len(read) \in Nat /\ a + n <= Len(read)
  BY <1>1
<1>2. /\ i \in 1 .. Len(read) /\ i - 1 = a + (n - 1) /\ n - 1 \in 0 .. Len(read) - a
      /\ a + 1 \in 1 .. i /\ a + 1 \in 1 .. Len(read) + 1 /\ i \in 0 .. Len(read)
      /\ i - (a + 1) + 1 = n /\ a + 1 <= i
  BY <1>0, Places
<1>9. Len(run[a].kept) + (n - 1) < run[a].frameLen
  BY <1>0, <1>1
<1>3. /\ run[i - 1].kept = run[a].kept \o SubSeq(read, a + 1, i - 1)
      /\ run[i - 1].frameLen = run[a].frameLen
      /\ run[i - 1].channel = run[a].channel /\ run[i - 1].media = run[a].media
  <2> DEFINE j == n - 1
  <2>1. j \in 0 .. Len(read) - a /\ Len(run[a].kept) + j < run[a].frameLen
    BY <1>2, <1>9
  <2>2. a + j = i - 1
    BY <1>2
  <2> HIDE DEF i, j
  <2>3. /\ run[a + j].kept = run[a].kept \o SubSeq(read, a + 1, a + j)
        /\ run[a + j].frameLen = run[a].frameLen
        /\ run[a + j].channel = run[a].channel /\ run[a + j].media = run[a].media
    BY <2>1, DataIsKept
  <2>4. QED
    BY <2>2, <2>3
<1>4. Append(run[i - 1].kept, read[i]) = run[a].kept \o SubSeq(read, a + 1, i)
  BY <1>1, <1>2, <1>3, NextByte
<1>5. Len(run[a].kept \o SubSeq(read, a + 1, i)) = run[a].frameLen
  <2>1. SubSeq(read, a + 1, i) \in Seq(Nat) /\ Len(SubSeq(read, a + 1, i)) = n
    <3> HIDE DEF i
    <3>1. /\ SubSeq(read, a + 1, i) \in Seq(Nat)
          /\ Len(SubSeq(read, a + 1, i)) = i - (a + 1) + 1
      BY <1>2, BytesOf
    <3>2. QED
      BY <1>2, <3>1
  <2> DEFINE d == SubSeq(read, a + 1, i)
  <2> HIDE DEF d
  <2>2. Len(run[a].kept \o d) = Len(run[a].kept) + n
    BY <1>1, <2>1, ConcatProperties DEF d
  <2>3. QED
    BY <2>2 DEF d
<1>6. run[i] = Taken(run[i - 1], read[i])
  BY <1>2 DEF Run
<1> HIDE DEF i
<1>7. run[i] = [window |-> Blank, kept |-> <<>>, frameLen |-> 0, channel |-> run[a].channel,
                media |-> HandleDataPacket(run[a].media, run[a].channel,
                                           run[a].kept \o SubSeq(read, a + 1, i))]
  BY <1>3, <1>4, <1>5, <1>6 DEF Taken
<1>8. QED
  BY <1>7 DEF i
-----------------------------------------------------------------------------
(***************************************************************************)
(* The loop is at the point of the byte before the one it looks at next:   *)
(* wherever a read ends, the parser knows what the bytes so far tell.      *)
(***************************************************************************)

LEMMA AddCharTypes ==
  ASSUME NEW window \in Windows, NEW byte \in Nat
  PROVE  AddChar(window, byte) \in Windows
BY DEF AddChar, Windows

LEMMA HandedAfter ==
  ASSUME NEW before \in Seq(Seq(Nat)), NEW media \in Seq(Seq(Nat)), NEW channel,
         NEW data \in Seq(Nat)
  PROVE  HandleDataPacket(before \o media, channel, data)
           = before \o HandleDataPacket(media, channel, data)
<1>1. Append(before \o media, data) = before \o (media \o <<data>>)
  BY AppendConcat
<1>2. Append(media, data) = media \o <<data>>
  BY AppendIsConcat
<1>3. QED
  BY <1>1, <1>2 DEF HandleDataPacket

\* The loop state l and the point r, with the bytes that are not used yet.
Agree(l, bytes, r, before) ==
  /\ r.window = l.parser.window
  /\ r.kept = l.parser.kept \o bytes
  /\ r.frameLen = l.parser.frameLen
  /\ r.channel = l.parser.channel
  /\ r.media = before \o l.media

Fits(l, read, run, before) ==
  /\ l.begin <= l.next
  /\ Agree(l, SubSeq(read, l.begin, l.next - 1), run[l.next - 1], before)
  /\ run[l.next - 1].frameLen = 0 \/ l.next = Len(read) + 1

\* The loop has used all the bytes up to the point.
Meets(l, r, before) ==
  /\ r.window = l.parser.window /\ r.kept = l.parser.kept
  /\ r.frameLen = l.parser.frameLen /\ r.channel = l.parser.channel
  /\ r.media = before \o l.media

\* A state that continues after everything used.
LEMMA ContinueFits ==
  ASSUME NEW read \in Seq(Nat), NEW run, NEW before, NEW l \in Loops(Len(read)),
         NEW i \in 0 .. Len(read),
         Meets(l, run[i], before),
         run[i].frameLen = 0 \/ i = Len(read)
  PROVE  /\ ContinueAt(l, i + 1) \in Loops(Len(read))
         /\ ContinueAt(l, i + 1).next = i + 1
         /\ Fits(ContinueAt(l, i + 1), read, run, before)
<1> DEFINE k == i + 1
           e == ContinueAt(l, k)
<1>1. Len(read) \in Nat /\ k \in 1 .. Len(read) + 1 /\ k - 1 = i /\ k > i
  BY LenProperties
<1>2. l.parser.kept \in Seq(Nat)
  BY DEF Loops, Parsers
<1> HIDE DEF k
<1>3. /\ e \in Loops(Len(read)) /\ e.parser = l.parser /\ e.media = l.media
      /\ e.begin = k /\ e.next = k
  BY <1>1, ContinueAtFacts
<1>4. l.parser.kept \o SubSeq(read, k, i) = l.parser.kept
  BY <1>1, <1>2, KeptAsItIs
<1> HIDE DEF e
<1>5. Agree(e, SubSeq(read, k, i), run[i], before)
  BY <1>3, <1>4 DEF Agree, Meets
<1>6. run[i].frameLen = 0 \/ k = Len(read) + 1
  BY DEF k
<1>7. Fits(e, read, run, before)
  BY <1>1, <1>3, <1>5, <1>6 DEF Fits
<1>8. QED
  BY <1>3, <1>7 DEF e, k

LEMMA ScanByteFits ==
  ASSUME NEW read \in Seq(Nat), NEW run, Run(run, read), NEW before \in Seq(Seq(Nat)),
         NEW l \in Loops(Len(read)), NEW i \in 1 .. Len(read),
         l.next >= i, Fits(l, read, run, before)
  PROVE  /\ ScanByte(read, l, i) \in Loops(Len(read))
         /\ ScanByte(read, l, i).next >= i + 1
         /\ Fits(ScanByte(read, l, i), read, run, before)
<1> DEFINE n == Len(read)
           window == AddChar(l.parser.window, read[i])
           frameLen == 256 * window[3] + window[4]
           opened == [l EXCEPT !.parser = [@ EXCEPT !.window = window, !.kept = <<>>,
                                                    !.channel = window[2],
                                                    !.frameLen = frameLen]]
           next == i + frameLen + 1
           e == ScanByte(read, l, i)
<1>1. /\ n \in Nat /\ i \in 0 .. n /\ i - 1 \in 0 .. n /\ read[i] \in Nat
      /\ l.next \in 1 .. n + 1 /\ l.begin \in 1 .. n + 1
  BY LenProperties, ElementOfSeq DEF Loops
<1>2. CASE i < l.next
  <2>1. e = l
    BY <1>2 DEF ScanByte
  <2>2. l.next >= i + 1
    BY <1>1, <1>2
  <2> HIDE DEF e
  <2>3. QED
    BY <2>1, <2>2 DEF e
<1>3. CASE i >= l.next
  <2>1. /\ l.next = i /\ l.begin <= i /\ run[i - 1].frameLen = 0
        /\ Agree(l, SubSeq(read, l.begin, i - 1), run[i - 1], before)
    <3>1. l.next = i
      BY <1>1, <1>3
    <3>2. i # n + 1
      BY <1>1
    <3>3. QED
      BY <3>1, <3>2 DEF Fits
  <2>2. /\ l.parser \in Parsers /\ l.media \in Seq(Seq(Nat))
        /\ l.parser.window \in Windows /\ l.parser.kept \in Seq(Nat)
        /\ l.parser.frameLen = 0
    BY <2>1 DEF Loops, Parsers, Agree
  <2>3. window \in Windows
    BY <1>1, <2>2, AddCharTypes
  <2>4. AddChar(run[i - 1].window, read[i]) = window
    BY <2>1 DEF Agree
  <2>5. run[i] = Taken(run[i - 1], read[i]) /\ Sound(run[i]) /\ run[i] \in Points
    BY <1>1 DEF Run
  <2>6. Append(run[i - 1].kept, read[i]) = l.parser.kept \o SubSeq(read, l.begin, i)
    <3>1. l.begin \in 1 .. i
      BY <1>1, <2>1
    <3>2. run[i - 1].kept = l.parser.kept \o SubSeq(read, l.begin, i - 1)
      BY <2>1 DEF Agree
    <3>3. Append(l.parser.kept \o SubSeq(read, l.begin, i - 1), read[i])
            = l.parser.kept \o SubSeq(read, l.begin, i)
      BY <2>2, <3>1, NextByte
    <3>4. QED
      BY <3>2, <3>3
  <2>13. run[i - 1].channel = l.parser.channel /\ run[i - 1].media = before \o l.media
    BY <2>1 DEF Agree
  <2>14. l \in Loops(n)
    OBVIOUS
  <2>7. SubSeq(read, l.begin, i) \in Seq(Nat)
    BY <1>1, BytesOf
  <2>8. ~ (i < l.next)
    BY <1>1, <1>3
  <2>9. CASE window = EmptyLine
    <3> DEFINE t == TextEnds(l, SubSeq(read, l.begin, i))
    <3>1. e = ContinueAt(t, i + 1)
      BY <2>8, <2>9 DEF ScanByte
    <3>2. /\ t \in Loops(n) /\ t.parser.window = Blank /\ t.parser.kept = <<>>
          /\ t.parser.frameLen = 0 /\ t.parser.channel = l.parser.channel
          /\ t.media = l.media
      BY <1>1, <2>2, <2>7, TextEndsFacts
    <3>3. run[i] = [window |-> Blank, kept |-> <<>>, frameLen |-> 0,
                    channel |-> l.parser.channel, media |-> before \o l.media]
      BY <2>1, <2>4, <2>5, <2>9, <2>13 DEF Taken
    <3> HIDE DEF t, e, n
    <3>4. /\ run[i].window = t.parser.window /\ run[i].kept = t.parser.kept
          /\ run[i].frameLen = t.parser.frameLen /\ run[i].channel = t.parser.channel
          /\ run[i].media = before \o t.media /\ run[i].frameLen = 0
      <4>1. /\ run[i].window = Blank /\ run[i].kept = <<>> /\ run[i].frameLen = 0
            /\ run[i].channel = l.parser.channel /\ run[i].media = before \o l.media
        <5> DEFINE media == before \o l.media
                   channel == l.parser.channel
        <5>1. run[i] = [window |-> Blank, kept |-> <<>>, frameLen |-> 0,
                        channel |-> channel, media |-> media]
          BY <3>3
        <5> HIDE DEF media, channel
        <5>2. /\ run[i].window = Blank /\ run[i].kept = <<>> /\ run[i].frameLen = 0
              /\ run[i].channel = channel /\ run[i].media = media
          BY <5>1
        <5>3. QED
          BY <5>2 DEF media, channel
      <4>2. QED
        BY <3>2, <4>1
    <3>5. /\ ContinueAt(t, i + 1) \in Loops(Len(read))
          /\ ContinueAt(t, i + 1).next = i + 1
          /\ Fits(ContinueAt(t, i + 1), read, run, before)
      <4>1. Meets(t, run[i], before) /\ run[i].frameLen = 0
        BY <3>4 DEF Meets
      <4>2. i \in 0 .. Len(read) /\ t \in Loops(Len(read))
        BY <1>1, <3>2 DEF n
      <4>3. QED
        BY <4>1, <4>2, ContinueFits
    <3>6. QED
      BY <1>1, <3>1, <3>5 DEF e
  <2>10. CASE window # EmptyLine /\ window[1] # Dollar
    <3> DEFINE p == [l.parser EXCEPT !.window = window]
               k == i + 1
    <3>1. e = [l EXCEPT !.parser = p, !.next = k]
      BY <2>8, <2>10 DEF ScanByte, Loops
    <3>2. /\ p \in Parsers /\ p.window = window /\ p.kept = l.parser.kept
          /\ p.frameLen = 0 /\ p.channel = l.parser.channel
      <4> HIDE DEF window
      <4>1. QED
        BY <2>2, <2>3 DEF Parsers
    <3>3. k \in 1 .. n + 1 /\ k - 1 = i
      BY <1>1
    <3>4. run[i] = [window |-> window, kept |-> l.parser.kept \o SubSeq(read, l.begin, i),
                    frameLen |-> 0,
                    channel |-> l.parser.channel, media |-> before \o l.media]
      BY <2>1, <2>4, <2>5, <2>6, <2>10, <2>13 DEF Taken
    <3> DEFINE kept == l.parser.kept \o SubSeq(read, l.begin, i)
    <3> HIDE DEF e, n, p, k, window, kept
    <3>5. /\ e \in Loops(n) /\ e.parser = p /\ e.media = l.media
          /\ e.begin = l.begin /\ e.next = k
      BY <2>14, <3>1, <3>2, <3>3 DEF Loops
    <3>6. run[i] = [window |-> window, kept |-> kept, frameLen |-> 0,
                    channel |-> l.parser.channel, media |-> before \o l.media]
      BY <3>4 DEF kept
    <3>7. /\ run[i].window = e.parser.window /\ run[i].kept = kept
          /\ run[i].frameLen = e.parser.frameLen /\ run[i].channel = e.parser.channel
          /\ run[i].media = before \o e.media /\ run[i].frameLen = 0
      BY <3>2, <3>5, <3>6
    <3>8. Agree(e, SubSeq(read, l.begin, i), run[i], before)
      BY <3>2, <3>5, <3>7 DEF Agree, kept
    <3>9. e.begin <= e.next
      BY <1>1, <2>1, <3>3, <3>5
    <3>10. Fits(e, read, run, before)
      BY <3>3, <3>5, <3>7, <3>8, <3>9 DEF Fits
    <3>11. e.next >= i + 1
      BY <1>1, <3>5 DEF k
    <3>12. QED
      BY <3>5, <3>10, <3>11 DEF e, n
  <2>11. CASE window # EmptyLine /\ window[1] = Dollar
    <3>1. /\ window[2] \in Nat /\ window[3] \in Nat /\ window[4] \in Nat
      BY <2>3 DEF Windows
    <3>2. frameLen \in Nat
      <4> DEFINE high == window[3]
                 low == window[4]
      <4>1. high \in Nat /\ low \in Nat
        BY <3>1
      <4> HIDE DEF high, low
      <4>2. 256 * high + low \in Nat
        BY <4>1
      <4>3. QED
        BY <4>2 DEF high, low
    <3> DEFINE channel == window[2]
               o == opened
               p == [l.parser EXCEPT !.window = window, !.kept = <<>>,
                                     !.channel = channel, !.frameLen = frameLen]
    <3>3. opened = [l EXCEPT !.parser = p]
      BY DEF Loops
    <3>4. run[i] = [window |-> window, kept |-> <<>>, frameLen |-> frameLen,
                    channel |-> channel, media |-> before \o l.media]
      BY <2>1, <2>4, <2>5, <2>11, <2>13 DEF Taken
    <3>5. e = IF n - i = 0 \/ n - i < frameLen
              THEN ContinueAt([o EXCEPT !.parser.kept = SubSeq(read, i + 1, Len(read))],
                              Len(read) + 1)
              ELSE ContinueAt(FrameEnds(o, SubSeq(read, i + 1, next - 1)), next)
      BY <2>8, <2>11 DEF ScanByte
    <3>6. channel \in Nat
      BY <3>1
    <3> HIDE DEF e, o, window, frameLen, channel
    <3>7. /\ p \in Parsers /\ p.window = window /\ p.kept = <<>>
          /\ p.frameLen = frameLen /\ p.channel = channel
      <4>1. <<>> \in Seq(Nat)
        OBVIOUS
      <4>2. p \in Parsers
        BY <2>2, <2>3, <3>2, <3>6, <4>1 DEF Parsers
      <4>3. p.window = window /\ p.kept = <<>>
        BY <2>2 DEF Parsers
      <4>4. p.frameLen = frameLen /\ p.channel = channel
        BY <2>2 DEF Parsers
      <4>5. QED
        BY <4>2, <4>3, <4>4
    <3> HIDE DEF p
    <3>8. o \in Loops(n) /\ o.parser = p /\ o.media = l.media
      BY <2>14, <3>3, <3>7 DEF Loops, o
    <3>9. /\ run[i].window = window /\ run[i].kept = <<>> /\ run[i].frameLen = frameLen
          /\ run[i].channel = channel /\ run[i].media = before \o l.media
      <4> DEFINE media == before \o l.media
      <4>1. run[i] = [window |-> window, kept |-> <<>>, frameLen |-> frameLen,
                      channel |-> channel, media |-> media]
        BY <3>4
      <4> HIDE DEF media
      <4>2. /\ run[i].window = window /\ run[i].kept = <<>>
            /\ run[i].frameLen = frameLen /\ run[i].channel = channel
            /\ run[i].media = media
        BY <4>1
      <4>3. QED
        BY <4>2 DEF media
    <3>10. frameLen > 0
      BY <2>5, <2>11, <3>2, <3>9 DEF Sound
    <3>11. Len(run[i].kept) = 0
      BY <3>9
    <3>12. CASE n - i < frameLen
      <4> DEFINE j == n - i
                 kept == SubSeq(read, i + 1, n)
                 u == [o EXCEPT !.parser.kept = kept]
      <4>1. j \in 0 .. n - i /\ i + j = n /\ j < frameLen /\ i \in 0 .. n
        BY <1>1, <3>12
      <4>2. kept \in Seq(Nat)
        <5>1. i + 1 \in 1 .. n + 1 /\ n \in 0 .. n
          BY <1>1
        <5>2. QED
          BY <5>1, BytesOf
      <4>3. e = ContinueAt(u, n + 1)
        BY <3>5, <3>12
      <4> HIDE DEF j
      <4>4. /\ run[i + j].window = run[i].window
            /\ run[i + j].kept = run[i].kept \o SubSeq(read, i + 1, i + j)
            /\ run[i + j].frameLen = run[i].frameLen
            /\ run[i + j].channel = run[i].channel
            /\ run[i + j].media = run[i].media
        <5>1. Len(run[i].kept) + j < run[i].frameLen /\ run[i].frameLen > 0
          BY <4>1, <3>9, <3>10, <3>11
        <5>2. QED
          BY <4>1, <5>1, DataIsKept
      <4>5. run[n].kept = kept
        BY <4>1, <4>2, <4>4, <3>9, ConcatEmptySeq
      <4> HIDE DEF kept
      <4>6. /\ u \in Loops(n) /\ u.media = l.media /\ u.parser.kept = kept
            /\ u.parser.window = window /\ u.parser.frameLen = frameLen
            /\ u.parser.channel = channel
        BY <4>2, <3>7, <3>8 DEF Loops, Parsers
      <4> HIDE DEF u, n
      <4>7. /\ run[n].window = u.parser.window /\ run[n].kept = u.parser.kept
            /\ run[n].frameLen = u.parser.frameLen /\ run[n].channel = u.parser.channel
            /\ run[n].media = before \o u.media
        BY <4>1, <4>4, <4>5, <4>6, <3>9
      <4>8. /\ ContinueAt(u, n + 1) \in Loops(Len(read))
            /\ ContinueAt(u, n + 1).next = n + 1
            /\ Fits(ContinueAt(u, n + 1), read, run, before)
        <5>1. n \in 0 .. n
          BY <1>1
        <5>2. QED
          <6>1. Meets(u, run[n], before)
            BY <4>7 DEF Meets
          <6>2. /\ n \in 0 .. Len(read) /\ u \in Loops(Len(read))
                /\ run[n].frameLen = 0 \/ n = Len(read)
            BY <4>6, <5>1 DEF n
          <6> HIDE DEF n, u
          <6>3. QED
            BY <6>1, <6>2, ContinueFits
      <4>9. QED
        BY <1>1, <4>3, <4>8 DEF e, n
    <3>13. CASE ~ (n - i < frameLen)
      <4> DEFINE j == frameLen
                 m == i + j
                 data == SubSeq(read, i + 1, m)
                 t == FrameEnds(o, data)
      <4>1. /\ n - i # 0 /\ j \in 1 .. n - i /\ m \in 0 .. n /\ next = m + 1 /\ next - 1 = m
            /\ i \in 0 .. n /\ m >= i
        BY <1>1, <3>2, <3>10, <3>13
      <4>2. data \in Seq(Nat)
        <5>1. i + 1 \in 1 .. n + 1 /\ m \in 0 .. n
          BY <1>1, <4>1
        <5> HIDE DEF m
        <5>2. QED
          BY <5>1, BytesOf
      <4>3. e = ContinueAt(t, m + 1)
        BY <3>5, <3>13, <4>1
      <4>4. /\ run[i + j].window = Blank /\ run[i + j].kept = <<>>
            /\ run[i + j].frameLen = 0 /\ run[i + j].channel = run[i].channel
            /\ run[i + j].media = HandleDataPacket(run[i].media, run[i].channel,
                                    run[i].kept \o SubSeq(read, i + 1, i + j))
        <5>1. run[i].frameLen = Len(run[i].kept) + j /\ run[i].frameLen > 0
          BY <3>2, <3>9, <3>10, <3>11
        <5> HIDE DEF j
        <5>2. QED
          BY <4>1, <5>1, FrameIsTaken
      <4> HIDE DEF m, j, data, n
      <4>5. run[m].kept = <<>> /\ run[m].window = Blank /\ run[m].frameLen = 0
        BY <4>4 DEF m
      <4>6. run[i].kept \o data = data
        BY <4>2, <3>9, ConcatEmptySeq
      <4>7. run[m].media = HandleDataPacket(before \o l.media, channel, data)
        BY <4>4, <4>6, <3>9 DEF m, data
      <4>8. HandleDataPacket(before \o l.media, channel, data)
              = before \o HandleDataPacket(l.media, channel, data)
        <5> DEFINE media == l.media
        <5>1. media \in Seq(Seq(Nat))
          BY <2>2
        <5> HIDE DEF media
        <5>2. HandleDataPacket(before \o media, channel, data)
                = before \o HandleDataPacket(media, channel, data)
          BY <4>2, <5>1, HandedAfter
        <5>3. QED
          BY <5>2 DEF media
      <4>9. /\ t \in Loops(n) /\ t.parser.window = Blank /\ t.parser.kept = <<>>
            /\ t.parser.frameLen = 0 /\ t.parser.channel = o.parser.channel
            /\ t.media = HandleDataPacket(o.media, o.parser.channel, o.parser.kept \o data)
        BY <1>1, <3>8, <4>2, FrameEndsFacts
      <4>10. o.parser.kept \o data = data
        BY <4>2, <3>7, <3>8, ConcatEmptySeq
      <4> HIDE DEF t
      <4>11. /\ run[m].window = t.parser.window /\ run[m].kept = t.parser.kept
             /\ run[m].frameLen = t.parser.frameLen /\ run[m].channel = t.parser.channel
             /\ run[m].media = before \o t.media
        <5>1. run[m].channel = channel
          BY <4>4, <3>9 DEF m
        <5>2. t.media = HandleDataPacket(l.media, channel, data)
          BY <4>9, <4>10, <3>7, <3>8
        <5>3. QED
          BY <5>1, <5>2, <4>5, <4>7, <4>8, <4>9, <3>7, <3>8
      <4>12. /\ ContinueAt(t, m + 1) \in Loops(Len(read))
             /\ ContinueAt(t, m + 1).next = m + 1
             /\ Fits(ContinueAt(t, m + 1), read, run, before)
        <5>1. m \in 0 .. Len(read) /\ t \in Loops(Len(read))
          BY <4>1, <4>9 DEF n
        <5>2. QED
          <6>1. Meets(t, run[m], before)
            BY <4>11 DEF Meets
          <6>2. QED
            BY <4>5, <5>1, <6>1, ContinueFits
      <4>13. m + 1 >= i + 1
        BY <1>1, <4>1
      <4>14. QED
        BY <4>3, <4>12, <4>13 DEF e
    <3>14. QED
      BY <3>12, <3>13
  <2>12. QED
    BY <2>9, <2>10, <2>11
<1>4. QED
  BY <1>1, <1>2, <1>3
-----------------------------------------------------------------------------
(***************************************************************************)
(* A whole read.                                                           *)
(***************************************************************************)

\* A loop from start that passes over the bytes as far as its states are typed.
Passes(f, start, read) ==
  /\ f[0] = start
  /\ \A i \in 1 .. Len(read) :
       ScanByte(read, f[i - 1], i) \in Loops(Len(read)) => f[i] = ScanByte(read, f[i - 1], i)

PassesFit(f, read, run, before) ==
  \A i \in 0 .. Len(read) :
    /\ f[i] \in Loops(Len(read)) /\ f[i].next >= i + 1
    /\ Fits(f[i], read, run, before)
    /\ i > 0 => f[i] = ScanByte(read, f[i - 1], i)

\* Every pass of the loop is at a point.
LEMMA LoopFits ==
  ASSUME NEW read \in Seq(Nat), NEW run, Run(run, read), NEW before \in Seq(Seq(Nat)),
         NEW start \in Loops(Len(read)), Fits(start, read, run, before),
         NEW f, Passes(f, start, read)
  PROVE  PassesFit(f, read, run, before)
<1> DEFINE n == Len(read)
           S == { i \in 0 .. n : /\ f[i] \in Loops(n) /\ f[i].next >= i + 1
                                 /\ Fits(f[i], read, run, before)
                                 /\ i > 0 => f[i] = ScanByte(read, f[i - 1], i) }
<1>1. n \in Nat
  BY LenProperties
<1>2. 0 \in S
  <2>1. start.next \in 1 .. n + 1 /\ 0 \in 0 .. n
    BY <1>1 DEF Loops
  <2>2. start.next >= 0 + 1 /\ ~ (0 > 0)
    BY <2>1
  <2>3. QED
    BY <2>1, <2>2 DEF Passes
<1>3. ASSUME NEW m \in 0 .. n - 1, m \in S PROVE m + 1 \in S
  <2> DEFINE i == m + 1
             e == ScanByte(read, f[m], i)
  <2>1. i \in 1 .. n /\ i \in 0 .. n /\ i - 1 = m
    BY <1>1
  <2>2. f[m] \in Loops(n) /\ f[m].next >= i /\ Fits(f[m], read, run, before)
    BY <1>3
  <2> HIDE DEF i, S
  <2>3. /\ e \in Loops(n) /\ e.next >= i + 1 /\ Fits(e, read, run, before)
    BY <2>1, <2>2, ScanByteFits
  <2>4. f[i] = e
    BY <2>1, <2>3 DEF Passes
  <2> HIDE DEF e
  <2>5. i > 0 => f[i] = ScanByte(read, f[i - 1], i)
    BY <2>1, <2>4 DEF e
  <2>6. i \in S
    BY <2>1, <2>3, <2>4, <2>5 DEF S
  <2>7. QED
    BY <2>6 DEF i
<1> HIDE DEF S
<1>4. 0 .. n \subseteq S
  BY <1>1, <1>2, <1>3, Induction
<1>5. QED
  BY <1>4 DEF S, PassesFit

\* The parser after a read is at the point of its last byte.
AtPoint(e, r, before) ==
  /\ e.parser \in Parsers /\ e.session \in Sessions /\ e.media \in Seq(Seq(Nat))
  /\ r = Point(e.parser, before \o e.media)

LEMMA PointsAgree ==
  ASSUME NEW r \in Points, NEW e, e.parser \in Parsers, e.session \in Sessions,
         e.media \in Seq(Seq(Nat)), NEW before,
         r.window = e.parser.window, r.kept = e.parser.kept, r.frameLen = e.parser.frameLen,
         r.channel = e.parser.channel, r.media = before \o e.media
  PROVE  AtPoint(e, r, before)
<1>1. r = [window |-> r.window, kept |-> r.kept, frameLen |-> r.frameLen,
           channel |-> r.channel, media |-> r.media]
  BY DEF Points
<1>2. QED
  BY <1>1 DEF AtPoint, Point

LEMMA ScanEnds ==
  ASSUME NEW read \in Seq(Nat), NEW run, Run(run, read), NEW before \in Seq(Seq(Nat)),
         NEW start \in Loops(Len(read)), Fits(start, read, run, before)
  PROVE  AtPoint(Scan(start, read), run[Len(read)], before)
<1> DEFINE n == Len(read)
           X == Loops(n)
           Next1(l, i) == IF ScanByte(read, l, i) \in X THEN ScanByte(read, l, i) ELSE l
           Op == [p \in X \X (1 .. n) |-> Next1(p[1], p[2])]
           Eq(g) == g = [i \in 0 .. n |-> IF i = 0 THEN start ELSE ScanByte(read, g[i - 1], i)]
           it == CHOOSE g : Eq(g)
           end == it[n]
<1>1. n \in Nat
  BY LenProperties
<1>2. Scan(start, read) = [end EXCEPT !.parser.kept = @ \o SubSeq(read, end.begin, n)]
  BY DEF Scan
<1>3. start \in X
  OBVIOUS
<1> HIDE DEF X
<1>4. \A l \in X, i \in 1 .. n : Next1(l, i) \in X
  OBVIOUS
<1> HIDE DEF Next1
<1>5. IsStep(Op, X, n)
  BY <1>4 DEF IsStep
<1>6. \A l \in X, i \in 1 .. n : Op[<<l, i>>] = Next1(l, i)
  OBVIOUS
<1> HIDE DEF Op
<1> HIDE DEF n
<1>24. PICK g : IsLoop(g, X, start, n, Op)
  <2>1. \E g : IsLoop(g, X, start, n, Op)
    BY <1>1, <1>3, <1>5, LoopExists
  <2>2. QED
    BY <2>1
<1>7. g \in [0 .. n -> X] /\ g[0] = start /\ \A i \in 1 .. n : g[i] = Op[<<g[i - 1], i>>]
  BY <1>24 DEF IsLoop
<1>8. \A i \in 1 .. n : ScanByte(read, g[i - 1], i) \in X => g[i] = ScanByte(read, g[i - 1], i)
  <2> SUFFICES ASSUME NEW i \in 1 .. n, ScanByte(read, g[i - 1], i) \in X
               PROVE  g[i] = ScanByte(read, g[i - 1], i)
    OBVIOUS
  <2>1. i - 1 \in 0 .. n
    BY <1>1
  <2>2. g[i] = Next1(g[i - 1], i)
    BY <2>1, <1>6, <1>7
  <2>3. QED
    BY <2>2 DEF Next1
<1>9. \A i \in 1 .. n : g[i] = ScanByte(read, g[i - 1], i)
  <2>4. Passes(g, start, read)
    BY <1>7, <1>8 DEF Passes, X, n
  <2>5. PassesFit(g, read, run, before)
    BY <2>4, LoopFits
  <2>1. \A i \in 0 .. n : i > 0 => g[i] = ScanByte(read, g[i - 1], i)
    BY <2>5 DEF PassesFit, n
  <2>2. \A i \in 1 .. n : i \in 0 .. n /\ i > 0
    BY <1>1
  <2>3. QED
    BY <2>1, <2>2
<1>10. Eq(g)
  <2>1. \A i \in 0 .. n : g[i] = IF i = 0 THEN start ELSE ScanByte(read, g[i - 1], i)
    <3>1. \A i \in 0 .. n : i # 0 => i \in 1 .. n
      BY <1>1
    <3>2. QED
      BY <1>7, <1>9, <3>1
  <2>2. g = [i \in 0 .. n |-> g[i]]
    BY <1>7
  <2>3. QED
    BY <2>1, <2>2
<1>11. Eq(it)
  BY <1>10
<1> HIDE DEF it
<1>12. it[0] = start /\ \A i \in 1 .. n : it[i] = ScanByte(read, it[i - 1], i)
  <2>1. 0 \in 0 .. n /\ \A i \in 1 .. n : i \in 0 .. n /\ i # 0
    BY <1>1
  <2>2. QED
    BY <1>11, <2>1
<1>13. /\ end \in Loops(n) /\ end.next >= n + 1 /\ Fits(end, read, run, before)
  <2>1. n \in 0 .. n
    BY <1>1
  <2>2. Passes(it, start, read)
    BY <1>12 DEF Passes, n
  <2>3. PassesFit(it, read, run, before)
    BY <2>2, LoopFits
  <2>4. QED
    BY <2>1, <2>3 DEF PassesFit, n
<1> HIDE DEF end
<1>14. /\ end.next = n + 1 /\ end.begin \in 1 .. n + 1 /\ end.parser \in Parsers
       /\ end.parser.kept \in Seq(Nat) /\ end.session \in Sessions
       /\ end.media \in Seq(Seq(Nat))
  <2>1. /\ end.next \in 1 .. n + 1 /\ end.begin \in 1 .. n + 1 /\ end.parser \in Parsers
        /\ end.session \in Sessions /\ end.media \in Seq(Seq(Nat))
    BY <1>13 DEF Loops
  <2>2. end.next = n + 1
    BY <1>1, <1>13, <2>1
  <2>3. end.parser.kept \in Seq(Nat)
    BY <2>1 DEF Parsers
  <2>4. QED
    BY <2>1, <2>2, <2>3
<1> DEFINE rest == SubSeq(read, end.begin, n)
           kept == end.parser.kept \o rest
           e == [end EXCEPT !.parser.kept = kept]
<1>15. end.next - 1 = n /\ n \in 0 .. n
  BY <1>1, <1>14
<1>16. Agree(end, rest, run[n], before)
  BY <1>13, <1>15 DEF Fits
<1>17. rest \in Seq(Nat)
  BY <1>14, <1>15, BytesOf DEF n
<1>18. kept \in Seq(Nat)
  BY <1>14, <1>17, ConcatProperties
<1>19. Scan(start, read) = e
  BY <1>2
<1>20. /\ run[n].kept = kept /\ run[n].window = end.parser.window
       /\ run[n].frameLen = end.parser.frameLen /\ run[n].channel = end.parser.channel
       /\ run[n].media = before \o end.media
  BY <1>16 DEF Agree
<1> HIDE DEF kept
<1>21. /\ e.parser \in Parsers /\ e.session \in Sessions /\ e.media = end.media
       /\ e.parser.window = end.parser.window /\ e.parser.kept = kept
       /\ e.parser.frameLen = end.parser.frameLen
       /\ e.parser.channel = end.parser.channel
  BY <1>13, <1>18 DEF Loops, Parsers
<1>22. run[n] \in Points
  BY <1>15 DEF Run, n
<1> HIDE DEF e, n
<1>23. AtPoint(e, run[n], before)
  BY <1>14, <1>20, <1>21, <1>22, PointsAgree
<1>25. QED
  BY <1>19, <1>23 DEF n

\* Wherever a read ends, the parser knows what the bytes so far tell, and has handed
\* over what they completed.
LEMMA ReadEnds ==
  ASSUME NEW read \in Seq(Nat), NEW run, Run(run, read), NEW before \in Seq(Seq(Nat)),
         NEW p \in Parsers, NEW s \in Sessions, run[0] = Point(p, before)
  PROVE  AtPoint(Receive(p, s, read), run[Len(read)], before)
<1> DEFINE n == Len(read)
           start == [parser |-> p, session |-> s, media |-> <<>>, begin |-> 1, next |-> 1]
           lacking == p.frameLen - Len(p.kept)
           e == Receive(p, s, read)
<1>1. /\ n \in Nat /\ 0 \in 0 .. n /\ n \in 0 .. n /\ p.kept \in Seq(Nat)
      /\ p.frameLen \in Nat /\ Len(p.kept) \in Nat
  BY LenProperties DEF Parsers
<1>2. start \in Loops(n)
  <2>1. <<>> \in Seq(Seq(Nat)) /\ 1 \in 1 .. n + 1
    BY <1>1
  <2>2. QED
    BY <2>1 DEF Loops
<1>3. /\ start.parser = p /\ start.session = s /\ start.media = <<>>
      /\ start.begin = 1 /\ start.next = 1
  OBVIOUS
<1>4. /\ run[0].window = p.window /\ run[0].kept = p.kept /\ run[0].frameLen = p.frameLen
      /\ run[0].channel = p.channel /\ run[0].media = before
      /\ Sound(run[0]) /\ run[n] \in Points
  <2>1. /\ run[0].window = p.window /\ run[0].kept = p.kept
        /\ run[0].frameLen = p.frameLen /\ run[0].channel = p.channel
        /\ run[0].media = before
    BY DEF Point
  <2>2. run \in [0 .. n -> Points] /\ \A i \in 0 .. n : Sound(run[i])
    BY DEF Run
  <2> HIDE DEF n
  <2>3. Sound(run[0]) /\ run[n] \in Points
    BY <1>1, <2>2
  <2>4. QED
    BY <2>1, <2>3
<1>5. before \o <<>> = before
  BY ConcatEmptySeq
<1>6. e = IF p.frameLen = 0 THEN Scan(start, read)
          ELSE IF n < lacking THEN [start EXCEPT !.parser.kept = @ \o read]
          ELSE Scan(ContinueAt(FrameEnds(start, SubSeq(read, 1, lacking)), lacking + 1), read)
  BY DEF Receive, Lacking
<1> HIDE DEF start, e
<1>7. CASE p.frameLen = 0
  <2>1. p.kept \o SubSeq(read, 1, 0) = p.kept
    <3>1. 1 \in 1 .. n + 1
      BY <1>1
    <3>2. QED
      BY <1>1, <3>1, KeptAsItIs
  <2>2. Agree(start, SubSeq(read, 1, 0), run[0], before)
    BY <1>3, <1>4, <1>5, <2>1 DEF Agree
  <2>3. Fits(start, read, run, before)
    BY <1>3, <1>4, <1>7, <2>2 DEF Fits
  <2>4. QED
    BY <1>2, <1>6, <1>7, <2>3, ScanEnds DEF e
<1>8. CASE p.frameLen > 0 /\ n < lacking
  <2> DEFINE kept == p.kept \o read
             new == [start EXCEPT !.parser.kept = kept]
  <2>1. /\ run[0 + n].window = run[0].window
        /\ run[0 + n].kept = run[0].kept \o SubSeq(read, 0 + 1, 0 + n)
        /\ run[0 + n].frameLen = run[0].frameLen
        /\ run[0 + n].channel = run[0].channel
        /\ run[0 + n].media = run[0].media
    <3>1. /\ n \in 0 .. Len(read) - 0 /\ run[0].frameLen > 0
          /\ Len(run[0].kept) + n < run[0].frameLen
      BY <1>1, <1>4, <1>8
    <3>2. QED
      BY <1>1, <3>1, DataIsKept
  <2>2. 0 + n = n /\ SubSeq(read, 0 + 1, 0 + n) = read
    BY <1>1, SubSeqFull
  <2>3. kept \in Seq(Nat)
    BY <1>1, ConcatProperties
  <2>4. e = new
    BY <1>3, <1>6, <1>8
  <2>5. run[n].kept = kept
    BY <1>4, <2>1, <2>2
  <2> HIDE DEF kept
  <2>6. /\ new.parser \in Parsers /\ new.session \in Sessions /\ new.media = <<>>
        /\ new.parser.window = p.window /\ new.parser.kept = kept
        /\ new.parser.frameLen = p.frameLen /\ new.parser.channel = p.channel
    BY <1>2, <1>3, <2>3 DEF Loops, Parsers
  <2> HIDE DEF new
  <2>7. new.media \in Seq(Seq(Nat)) /\ run[n].media = before \o new.media
    BY <1>4, <1>5, <2>1, <2>2, <2>6
  <2>8. AtPoint(new, run[n], before)
    BY <1>4, <2>1, <2>2, <2>5, <2>6, <2>7, PointsAgree
  <2>9. QED
    BY <2>4, <2>8 DEF e
<1>9. CASE p.frameLen > 0 /\ ~ (n < lacking)
  <2> DEFINE data == SubSeq(read, 1, lacking)
             t == FrameEnds(start, data)
  <2>11. Len(p.kept) < p.frameLen
    BY <1>4, <1>9 DEF Sound
  <2>1. lacking \in 1 .. n /\ lacking \in 0 .. n /\ p.frameLen = Len(p.kept) + lacking
    <3> DEFINE h == Len(p.kept)
               f == p.frameLen
    <3>1. h \in Nat /\ f \in Nat /\ h < f /\ n \in Nat /\ ~ (n < f - h)
      BY <1>1, <1>9, <2>11
    <3> HIDE DEF h, f, n
    <3>2. f - h \in 1 .. n /\ f - h \in 0 .. n /\ f = h + (f - h)
      BY <3>1
    <3>3. QED
      BY <3>2 DEF h, f
  <2> HIDE DEF lacking
  <2>2. /\ run[0 + lacking].window = Blank
        /\ run[0 + lacking].kept = <<>>
        /\ run[0 + lacking].frameLen = 0
        /\ run[0 + lacking].channel = run[0].channel
        /\ run[0 + lacking].media = HandleDataPacket(run[0].media, run[0].channel,
                                      run[0].kept \o SubSeq(read, 0 + 1, 0 + lacking))
    <3>1. /\ lacking \in 1 .. Len(read) - 0 /\ run[0].frameLen > 0
          /\ run[0].frameLen = Len(run[0].kept) + lacking
      BY <1>1, <1>4, <1>9, <2>1
    <3>2. QED
      BY <1>1, <3>1, FrameIsTaken
  <2>3. 0 + lacking = lacking /\ 0 + 1 = 1
    BY <2>1
  <2>4. data \in Seq(Nat)
    <3>1. 1 \in 1 .. n + 1
      BY <1>1
    <3>2. QED
      BY <2>1, <3>1, BytesOf
  <2> HIDE DEF data
  <2>5. /\ t \in Loops(n) /\ t.parser.window = Blank /\ t.parser.kept = <<>>
        /\ t.parser.frameLen = 0 /\ t.parser.channel = p.channel
        /\ t.media = HandleDataPacket(<<>>, p.channel, p.kept \o data)
    <3> HIDE DEF n
    <3>1. /\ t \in Loops(n) /\ t.parser.window = Blank /\ t.parser.kept = <<>>
          /\ t.parser.frameLen = 0 /\ t.parser.channel = start.parser.channel
          /\ t.media = HandleDataPacket(start.media, start.parser.channel,
                                        start.parser.kept \o data)
      BY <1>1, <1>2, <2>4, FrameEndsFacts
    <3> HIDE DEF t
    <3>2. QED
      BY <1>3, <3>1
  <2>6. HandleDataPacket(before, p.channel, p.kept \o data)
          = before \o HandleDataPacket(<<>>, p.channel, p.kept \o data)
    <3>1. p.kept \o data \in Seq(Nat) /\ <<>> \in Seq(Seq(Nat))
      BY <1>1, <2>4, ConcatProperties
    <3> DEFINE d == p.kept \o data
    <3>4. d \in Seq(Nat)
      BY <3>1
    <3> HIDE DEF d, t
    <3>5. \A media \in Seq(Seq(Nat)) :
            HandleDataPacket(before \o media, p.channel, d)
              = before \o HandleDataPacket(media, p.channel, d)
      BY <3>4, HandedAfter
    <3>2. HandleDataPacket(before \o <<>>, p.channel, d)
            = before \o HandleDataPacket(<<>>, p.channel, d)
      BY <3>1, <3>5
    <3>3. QED
      BY <1>5, <3>2 DEF d
  <2>7. /\ run[lacking].window = t.parser.window /\ run[lacking].kept = t.parser.kept
        /\ run[lacking].frameLen = t.parser.frameLen
        /\ run[lacking].channel = t.parser.channel
        /\ run[lacking].media = before \o t.media /\ run[lacking].frameLen = 0
    <3> HIDE DEF t
    <3>1. run[lacking].media = HandleDataPacket(before, p.channel, p.kept \o data)
      BY <1>4, <2>2, <2>3 DEF data
    <3>2. QED
      BY <1>4, <2>2, <2>3, <2>5, <2>6, <3>1
  <2> HIDE DEF t
  <2>8. /\ ContinueAt(t, lacking + 1) \in Loops(Len(read))
        /\ Fits(ContinueAt(t, lacking + 1), read, run, before)
    <3>1. t \in Loops(Len(read)) /\ lacking \in 0 .. Len(read)
      BY <2>1, <2>5
    <3> DEFINE k == lacking
    <3>3. /\ k \in 0 .. Len(read)
          /\ Meets(t, run[k], before) /\ run[k].frameLen = 0
      BY <2>7, <3>1 DEF Meets
    <3> HIDE DEF n, k
    <3>2. /\ ContinueAt(t, k + 1) \in Loops(Len(read))
          /\ Fits(ContinueAt(t, k + 1), read, run, before)
      BY <3>1, <3>3, ContinueFits
    <3>4. QED
      BY <3>2 DEF k
  <2>9. e = Scan(ContinueAt(t, lacking + 1), read)
    BY <1>6, <1>9 DEF t, data
  <2>10. QED
    BY <2>8, <2>9, ScanEnds DEF e
<1>10. QED
  BY <1>1, <1>7, <1>8, <1>9
-----------------------------------------------------------------------------
(***************************************************************************)
(* From one point to another over bytes.                                   *)
(***************************************************************************)

Leads(r, bytes, q) == \E run : Run(run, bytes) /\ run[0] = r /\ run[Len(bytes)] = q

LEMMA LeadsTypes ==
  ASSUME NEW r, NEW q, NEW bytes \in Seq(Nat), Leads(r, bytes, q)
  PROVE  r \in Points /\ Sound(r) /\ q \in Points /\ Sound(q)
<1>1. PICK run : Run(run, bytes) /\ run[0] = r /\ run[Len(bytes)] = q
  BY DEF Leads
<1> DEFINE n == Len(bytes)
<1>2. n \in Nat
  BY LenProperties
<1>3. run \in [0 .. n -> Points] /\ \A i \in 0 .. n : Sound(run[i])
  BY <1>1 DEF Run
<1>5. run[0] = r /\ run[n] = q
  BY <1>1
<1> HIDE DEF n
<1>4. 0 \in 0 .. n /\ n \in 0 .. n
  BY <1>2
<1>6. QED
  BY <1>3, <1>4, <1>5

LEMMA LeadsNowhere ==
  ASSUME NEW r \in Points, Sound(r)
  PROVE  Leads(r, <<>>, r)
<1> DEFINE run == [i \in 0 .. 0 |-> r]
<1>1. /\ Len(<<>>) = 0 /\ 0 .. 0 = {0} /\ 1 .. 0 = {}
      /\ run \in [0 .. 0 -> Points] /\ run[0] = r
  OBVIOUS
<1> HIDE DEF run
<1>2. Run(run, <<>>)
  BY <1>1 DEF Run
<1>3. QED
  BY <1>1, <1>2 DEF Leads

LEMMA LeadsByte ==
  ASSUME NEW r \in Points, Sound(r), NEW byte \in Nat,
         Taken(r, byte) \in Points, Sound(Taken(r, byte))
  PROVE  Leads(r, <<byte>>, Taken(r, byte))
<1> DEFINE q == Taken(r, byte)
           run == [i \in 0 .. 1 |-> IF i = 0 THEN r ELSE q]
<1> HIDE DEF q
<1>1. q \in Points /\ Sound(q)
  BY DEF q
<1>2. /\ Len(<<byte>>) = 1 /\ <<byte>>[1] = byte
      /\ 0 .. 1 = {0, 1} /\ 1 .. 1 = {1} /\ 1 - 1 = 0
      /\ run[0] = r /\ run[1] = q
  OBVIOUS
<1>3. run \in [0 .. 1 -> Points]
  BY <1>1, <1>2
<1> HIDE DEF run
<1>4. \A i \in 0 .. 1 : Sound(run[i])
  BY <1>1, <1>2
<1>5. \A i \in 1 .. 1 : run[i] = Taken(run[i - 1], <<byte>>[i])
  BY <1>2 DEF q
<1>6. Run(run, <<byte>>)
  BY <1>2, <1>3, <1>4, <1>5 DEF Run
<1>7. QED
  BY <1>2, <1>6 DEF Leads, q

LEMMA LeadsJoin ==
  ASSUME NEW r, NEW q, NEW z, NEW a \in Seq(Nat), NEW b \in Seq(Nat),
         Leads(r, a, q), Leads(q, b, z)
  PROVE  Leads(r, a \o b, z)
<1>1. PICK f : Run(f, a) /\ f[0] = r /\ f[Len(a)] = q
  BY DEF Leads
<1>2. PICK g : Run(g, b) /\ g[0] = q /\ g[Len(b)] = z
  BY DEF Leads
<1> DEFINE m == Len(a)
           n == Len(b)
           ab == a \o b
           run == [i \in 0 .. m + n |-> IF i <= m THEN f[i] ELSE g[i - m]]
<1>3. /\ m \in Nat /\ n \in Nat /\ ab \in Seq(Nat) /\ Len(ab) = m + n
      /\ \A i \in 1 .. m + n : ab[i] = IF i <= m THEN a[i] ELSE b[i - m]
  BY ConcatProperties, LenProperties
<1>4. /\ f \in [0 .. m -> Points] /\ g \in [0 .. n -> Points]
      /\ \A i \in 0 .. m : Sound(f[i])
      /\ \A i \in 0 .. n : Sound(g[i])
  BY <1>1, <1>2 DEF Run
<1>5. /\ \A i \in 1 .. m : f[i] = Taken(f[i - 1], a[i])
      /\ \A i \in 1 .. n : g[i] = Taken(g[i - 1], b[i])
      /\ f[m] = q /\ f[0] = r /\ g[0] = q /\ g[n] = z
  BY <1>1, <1>2 DEF Run
<1> HIDE DEF m, n, ab
<1>6. \A i \in 0 .. m + n : (i <= m => i \in 0 .. m) /\ (~ (i <= m) => i - m \in 1 .. n)
  BY <1>3
<1>7. \A i \in 0 .. m + n : run[i] = IF i <= m THEN f[i] ELSE g[i - m]
  OBVIOUS
<1>8. 1 .. n \subseteq 0 .. n
  BY <1>3
<1>9. run \in [0 .. m + n -> Points]
  BY <1>4, <1>6, <1>8
<1> HIDE DEF run
<1>10. \A i \in 0 .. m + n : Sound(run[i])
  BY <1>4, <1>6, <1>7, <1>8
<1>11. ASSUME NEW i \in 1 .. m + n PROVE run[i] = Taken(run[i - 1], ab[i])
  <2>1. i \in 0 .. m + n /\ i - 1 \in 0 .. m + n
    BY <1>3
  <2>2. CASE i <= m
    <3>1. i - 1 <= m /\ i \in 1 .. m
      BY <1>3, <2>2
    <3>2. run[i] = f[i] /\ run[i - 1] = f[i - 1] /\ ab[i] = a[i]
      BY <1>3, <1>7, <2>1, <2>2, <3>1
    <3>3. QED
      BY <1>5, <3>1, <3>2
  <2>3. CASE i = m + 1
    <3>1. ~ (i <= m) /\ i - 1 <= m /\ i - 1 = m /\ i - m = 1 /\ 1 \in 1 .. n /\ 1 - 1 = 0
      <4>1. m \in Nat /\ n \in Nat /\ i \in 1 .. m + n
        BY <1>3
      <4>2. n >= 1
        BY <2>3, <4>1
      <4>3. QED
        BY <2>3, <4>1, <4>2
    <3>2. run[i] = g[1] /\ run[i - 1] = q /\ ab[i] = b[1]
      <4>1. run[i] = g[1]
        BY <1>7, <2>1, <3>1
      <4>2. run[i - 1] = q
        <5>1. run[i - 1] = f[i - 1]
          BY <1>7, <2>1, <3>1
        <5>2. QED
          BY <1>5, <3>1, <5>1
      <4>3. ab[i] = b[1]
        BY <1>3, <3>1
      <4>4. QED
        BY <4>1, <4>2, <4>3
    <3>3. g[1] = Taken(g[1 - 1], b[1])
      BY <1>5, <3>1
    <3>4. QED
      BY <1>5, <3>1, <3>2, <3>3
  <2>4. CASE i > m + 1
    <3> DEFINE j == i - m
    <3>1. ~ (i <= m) /\ ~ (i - 1 <= m) /\ j \in 1 .. n /\ (i - 1) - m = j - 1
      BY <1>3, <2>4
    <3>2. run[i] = g[j] /\ run[i - 1] = g[j - 1] /\ ab[i] = b[j]
      BY <1>3, <1>7, <2>1, <3>1
    <3> HIDE DEF j
    <3>3. QED
      BY <1>5, <3>1, <3>2
  <2>5. QED
    BY <1>3, <2>2, <2>3, <2>4
<1>12. Run(run, ab)
  BY <1>3, <1>9, <1>10, <1>11 DEF Run
<1>13. run[0] = r /\ run[m + n] = z
  <2>1. 0 \in 0 .. m + n /\ 0 <= m /\ m + n \in 0 .. m + n
    BY <1>3
  <2>2. run[0] = r
    BY <1>5, <1>7, <2>1
  <2>3. CASE n = 0
    <3>1. m + n <= m /\ m + n = m
      BY <1>3, <2>3
    <3>2. run[m + n] = q /\ q = z
      BY <1>5, <1>7, <2>1, <2>3, <3>1
    <3>3. QED
      BY <2>2, <3>2
  <2>4. CASE n # 0
    <3>1. ~ (m + n <= m) /\ (m + n) - m = n
      BY <1>3, <2>4
    <3>2. QED
      BY <1>5, <1>7, <2>1, <2>2, <3>1
  <2>5. QED
    BY <2>3, <2>4
<1>14. Leads(r, ab, z)
  BY <1>3, <1>12, <1>13 DEF Leads
<1>15. QED
  BY <1>14 DEF ab

\* The way to a point can be halted at any byte.
LEMMA LeadsSplit ==
  ASSUME NEW r, NEW z, NEW bytes \in Seq(Nat), Leads(r, bytes, z), NEW k \in 0 .. Len(bytes)
  PROVE  \E q : Leads(r, SubSeq(bytes, 1, k), q) /\ Leads(q, SubSeq(bytes, k + 1, Len(bytes)), z)
<1>1. PICK run : Run(run, bytes) /\ run[0] = r /\ run[Len(bytes)] = z
  BY DEF Leads
<1> DEFINE n == Len(bytes)
           a == SubSeq(bytes, 1, k)
           b == SubSeq(bytes, k + 1, n)
           f == [i \in 0 .. k |-> run[i]]
           g == [i \in 0 .. n - k |-> run[k + i]]
<1>2. n \in Nat /\ k \in Nat /\ k <= n
  BY LenProperties
<1>3. /\ run \in [0 .. n -> Points] /\ \A i \in 0 .. n : Sound(run[i])
      /\ \A i \in 1 .. n : run[i] = Taken(run[i - 1], bytes[i])
      /\ run[0] = r /\ run[n] = z
  BY <1>1 DEF Run
<1>4. \A i \in 1 .. n : bytes[i] \in Nat
  BY ElementOfSeq
<1> HIDE DEF n
<1>5. a \in Seq(Nat) /\ Len(a) = k /\ \A i \in 1 .. k : a[i] = bytes[i]
  <2>1. \A i \in 1 .. k : bytes[i] \in Nat
    BY <1>2, <1>4
  <2>2. /\ SubSeq(bytes, 1, k) \in Seq(Nat)
        /\ Len(SubSeq(bytes, 1, k)) = IF 1 <= k THEN k - 1 + 1 ELSE 0
        /\ \A i \in 1 .. k - 1 + 1 : SubSeq(bytes, 1, k)[i] = bytes[1 + i - 1]
    BY <1>2, <2>1, SubSeqProperties
  <2> HIDE DEF a
  <2>3. k - 1 + 1 = k /\ \A i \in 1 .. k : 1 + i - 1 = i
    BY <1>2
  <2>4. (IF 1 <= k THEN k - 1 + 1 ELSE 0) = k
    BY <1>2
  <2>5. QED
    BY <2>2, <2>3, <2>4 DEF a
<1>6. b \in Seq(Nat) /\ Len(b) = n - k /\ \A i \in 1 .. n - k : b[i] = bytes[k + i]
  <2>1. \A i \in k + 1 .. n : bytes[i] \in Nat
    BY <1>2, <1>4
  <2>2. /\ SubSeq(bytes, k + 1, n) \in Seq(Nat)
        /\ Len(SubSeq(bytes, k + 1, n)) = IF k + 1 <= n THEN n - (k + 1) + 1 ELSE 0
        /\ \A i \in 1 .. n - (k + 1) + 1 : SubSeq(bytes, k + 1, n)[i] = bytes[(k + 1) + i - 1]
    BY <1>2, <2>1, SubSeqProperties
  <2> HIDE DEF b
  <2>3. n - (k + 1) + 1 = n - k /\ \A i \in 1 .. n - k : (k + 1) + i - 1 = k + i
    BY <1>2
  <2>4. (IF k + 1 <= n THEN n - (k + 1) + 1 ELSE 0) = n - k
    BY <1>2
  <2>5. QED
    BY <2>2, <2>3, <2>4 DEF b
<1>7. /\ 0 .. k \subseteq 0 .. n /\ 1 .. k \subseteq 1 .. n
      /\ \A i \in 0 .. n - k : k + i \in 0 .. n
      /\ \A i \in 1 .. n - k : k + i \in 1 .. n /\ (k + i) - 1 = k + (i - 1) /\ i - 1 \in 0 .. n - k
                               /\ i \in 0 .. n - k
      /\ \A i \in 1 .. k : i - 1 \in 0 .. k /\ i \in 0 .. k
      /\ 0 \in 0 .. k /\ k \in 0 .. k /\ 0 \in 0 .. n - k /\ n - k \in 0 .. n - k
      /\ k + 0 = k /\ k + (n - k) = n
  BY <1>2
<1>8. /\ f \in [0 .. k -> Points] /\ \A i \in 0 .. k : f[i] = run[i]
  BY <1>3, <1>7
<1>9. /\ g \in [0 .. n - k -> Points] /\ \A i \in 0 .. n - k : g[i] = run[k + i]
  BY <1>3, <1>7
<1> HIDE DEF f, g, a, b
<1>10. Run(f, a)
  <2>1. \A i \in 0 .. k : Sound(f[i])
    BY <1>3, <1>7, <1>8
  <2>2. \A i \in 1 .. k : f[i] = Taken(f[i - 1], a[i])
    BY <1>3, <1>5, <1>7, <1>8
  <2>3. QED
    BY <1>5, <1>8, <2>1, <2>2 DEF Run
<1>11. Run(g, b)
  <2>1. \A i \in 0 .. n - k : Sound(g[i])
    BY <1>3, <1>7, <1>9
  <2>2. ASSUME NEW i \in 1 .. n - k PROVE g[i] = Taken(g[i - 1], b[i])
    <3>1. k + i \in 1 .. n /\ (k + i) - 1 = k + (i - 1) /\ i - 1 \in 0 .. n - k /\ i \in 0 .. n - k
      BY <1>7
    <3>2. g[i] = run[k + i] /\ g[i - 1] = run[k + (i - 1)] /\ b[i] = bytes[k + i]
      BY <1>6, <1>9, <3>1
    <3>3. run[k + i] = Taken(run[(k + i) - 1], bytes[k + i])
      BY <1>3, <3>1
    <3>4. QED
      BY <3>1, <3>2, <3>3
  <2>3. QED
    BY <1>6, <1>9, <2>1, <2>2 DEF Run
<1>12. f[0] = r /\ f[k] = run[k] /\ g[0] = run[k] /\ g[n - k] = z
  BY <1>3, <1>7, <1>8, <1>9
<1>13. Leads(r, a, run[k])
  BY <1>5, <1>10, <1>12 DEF Leads
<1>14. Leads(run[k], b, z)
  BY <1>6, <1>11, <1>12 DEF Leads
<1>15. QED
  BY <1>13, <1>14 DEF a, b, n
-----------------------------------------------------------------------------
(***************************************************************************)
(* What the server sends.  A point is quiet when the parser is between     *)
(* packets and nothing it has seen can open a frame.                       *)
(***************************************************************************)

Clean(window) == \A i \in 1 .. 4 : window[i] # Dollar

Quiet(r) == r.frameLen = 0 /\ Clean(r.window)

LEMMA CleanFacts ==
  ASSUME NEW window \in Windows
  PROVE  Clean(window) <=> /\ window[1] # Dollar /\ window[2] # Dollar
                           /\ window[3] # Dollar /\ window[4] # Dollar
<1>1. 1 .. 4 = {1, 2, 3, 4}
  OBVIOUS
<1>2. QED
  BY <1>1 DEF Clean

LEMMA QuietFacts ==
  /\ \A r \in Points : Quiet(r) => Sound(r)
  /\ \A r \in Points : Sound(r) /\ r.frameLen = 0 /\ r.kept = <<>> => Quiet(r)
  /\ Blank \in Windows /\ Clean(Blank)
<1>1. ASSUME NEW r \in Points PROVE /\ Quiet(r) => Sound(r)
                                    /\ Sound(r) /\ r.frameLen = 0 /\ r.kept = <<>> => Quiet(r)
  <2>1. r.window \in Windows
    BY DEF Points
  <2>2. Clean(r.window) <=> /\ r.window[1] # Dollar /\ r.window[2] # Dollar
                            /\ r.window[3] # Dollar /\ r.window[4] # Dollar
    BY <2>1, CleanFacts
  <2>3. Quiet(r) => Sound(r)
    BY <2>2 DEF Quiet, Sound
  <2>4. Sound(r) /\ r.frameLen = 0 /\ r.kept = <<>> => Quiet(r)
    <3>1. ~ (r.frameLen > 0) <=> r.frameLen = 0
      BY DEF Points
    <3>2. QED
      BY <2>2, <3>1 DEF Quiet, Sound
  <2>5. QED
    BY <2>3, <2>4
<1>2. Blank \in Windows
  BY DEF Blank, Windows
<1>3. Clean(Blank)
  BY <1>2, CleanFacts DEF Blank, Dollar
<1>4. QED
  BY <1>1, <1>2, <1>3

\* A byte between packets that neither ends a text nor opens a frame.
LEMMA OrdinaryByte ==
  ASSUME NEW r \in Points, Sound(r), r.frameLen = 0, NEW byte \in Nat,
         AddChar(r.window, byte) # EmptyLine, AddChar(r.window, byte)[1] # Dollar
  PROVE  \E q \in Points :
           /\ Leads(r, <<byte>>, q) /\ Sound(q)
           /\ q.window = AddChar(r.window, byte) /\ q.frameLen = 0 /\ q.media = r.media
<1> DEFINE window == AddChar(r.window, byte)
           kept == Append(r.kept, byte)
           q == [window |-> window, kept |-> kept, frameLen |-> 0, channel |-> r.channel,
                 media |-> r.media]
<1>1. /\ r.window \in Windows /\ r.kept \in Seq(Nat) /\ r.channel \in Nat
      /\ r.media \in Seq(Seq(Nat))
  BY DEF Points
<1>2. window \in Windows
  BY <1>1, AddCharTypes
<1>3. kept \in Seq(Nat) /\ kept # <<>>
  <2>1. \A s \in Seq(Nat) : Append(s, byte) \in Seq(Nat) /\ Append(s, byte) # <<>>
    BY AppendProperties
  <2>2. QED
    BY <1>1, <2>1
<1>4. Taken(r, byte) = q
  BY DEF Taken
<1>7. window[1] # Dollar
  OBVIOUS
<1> HIDE DEF window, kept
<1>5. /\ q \in Points /\ q.window = window /\ q.kept = kept /\ q.frameLen = 0
      /\ q.media = r.media
  BY <1>1, <1>2, <1>3 DEF Points
<1> HIDE DEF q
<1>6. Sound(q)
  BY <1>3, <1>5, <1>7 DEF Sound
<1>8. Leads(r, <<byte>>, q)
  BY <1>4, <1>5, <1>6, LeadsByte
<1>9. QED
  BY <1>5, <1>6, <1>8 DEF window

\* No byte that is not `$' opens a frame between packets.
LEMMA QuietByte ==
  ASSUME NEW r \in Points, Quiet(r), NEW byte \in Nat, byte # Dollar
  PROVE  \E q \in Points : Leads(r, <<byte>>, q) /\ Quiet(q) /\ q.media = r.media
<1> DEFINE window == AddChar(r.window, byte)
<1>1. Sound(r) /\ r.frameLen = 0 /\ r.window \in Windows /\ Clean(r.window)
  BY QuietFacts DEF Quiet, Points
<1>2. window \in Windows
  BY <1>1, AddCharTypes
<1>3. /\ window[1] = r.window[2] /\ window[2] = r.window[3] /\ window[3] = r.window[4]
      /\ window[4] = byte
  BY DEF AddChar
<1>4. Clean(window)
  <2> HIDE DEF window
  <2>1. r.window[2] # Dollar /\ r.window[3] # Dollar /\ r.window[4] # Dollar
    BY <1>1, CleanFacts
  <2>2. QED
    BY <1>2, <1>3, <2>1, CleanFacts
<1>5. window[1] # Dollar
  <2> HIDE DEF window
  <2>1. QED
    BY <1>2, <1>4, CleanFacts
<1>6. CASE window # EmptyLine
  <2>1. \E q \in Points : /\ Leads(r, <<byte>>, q) /\ Sound(q)
                          /\ q.window = window /\ q.frameLen = 0 /\ q.media = r.media
    BY <1>1, <1>5, <1>6, OrdinaryByte
  <2> HIDE DEF window
  <2>2. QED
    BY <1>4, <2>1 DEF Quiet
<1>7. CASE window = EmptyLine
  <2> DEFINE q == [window |-> Blank, kept |-> <<>>, frameLen |-> 0, channel |-> r.channel,
                   media |-> r.media]
  <2>1. Taken(r, byte) = q
    BY <1>1, <1>7 DEF Taken
  <2>2. q \in Points /\ q.window = Blank /\ q.frameLen = 0 /\ q.media = r.media
    BY QuietFacts DEF Points
  <2> HIDE DEF q
  <2>3. Quiet(q) /\ Sound(q)
    BY <2>2, QuietFacts DEF Quiet
  <2>4. Leads(r, <<byte>>, q)
    BY <1>1, <2>1, <2>2, <2>3, LeadsByte
  <2>5. QED
    BY <2>2, <2>3, <2>4
<1>8. QED
  BY <1>6, <1>7

\* The bytes up to k + 1 are those up to k and one more.
LEMMA OneMoreByte ==
  ASSUME NEW bytes \in Seq(Nat), NEW k \in 0 .. Len(bytes) - 1
  PROVE  /\ k + 1 \in 1 .. Len(bytes) /\ bytes[k + 1] \in Nat
         /\ SubSeq(bytes, 1, k) \in Seq(Nat) /\ Len(SubSeq(bytes, 1, k)) = k
         /\ SubSeq(bytes, 1, k + 1) = SubSeq(bytes, 1, k) \o <<bytes[k + 1]>>
         /\ SubSeq(bytes, 1, k + 1) = Append(SubSeq(bytes, 1, k), bytes[k + 1])
<1> DEFINE n == Len(bytes)
           i == k + 1
<1>1. n \in Nat
  BY LenProperties
<1>2. i \in 1 .. n /\ i - 1 = k /\ 1 \in 1 .. n /\ k \in 0 .. n /\ 1 \in 1 .. n + 1
      /\ (IF 1 <= k THEN k - 1 + 1 ELSE 0) = k
  BY <1>1
<1>3. bytes[i] \in Nat
  BY <1>2, ElementOfSeq
<1>4. SubSeq(bytes, 1, k) \in Seq(Nat) /\ Len(SubSeq(bytes, 1, k)) = k
  BY <1>2, BytesOf
<1> HIDE DEF i
<1>5. SubSeq(bytes, 1, i) = SubSeq(bytes, 1, i - 1) \o <<bytes[i]>>
  BY <1>2, SubSeqRecursiveSecond
<1>6. Append(SubSeq(bytes, 1, k), bytes[i]) = SubSeq(bytes, 1, k) \o <<bytes[i]>>
  BY <1>3, <1>4, AppendIsConcat
<1>7. QED
  BY <1>2, <1>3, <1>4, <1>5, <1>6 DEF i, n

\* A text without `$', however many empty lines it has, hands over nothing.
LEMMA TextIsQuiet ==
  ASSUME NEW r \in Points, Quiet(r), NEW bytes \in Seq(Nat),
         \A i \in 1 .. Len(bytes) : bytes[i] # Dollar
  PROVE  \E q \in Points : Leads(r, bytes, q) /\ Quiet(q) /\ q.media = r.media
<1> DEFINE n == Len(bytes)
           Reached(k) == \E q \in Points : /\ Leads(r, SubSeq(bytes, 1, k), q)
                                           /\ Quiet(q) /\ q.media = r.media
           S == { k \in 0 .. n : Reached(k) }
<1>1. n \in Nat
  BY LenProperties
<1>2. 0 \in S
  <2>1. SubSeq(bytes, 1, 0) = <<>>
    BY SubSeqEmpty
  <2>2. Leads(r, <<>>, r)
    BY QuietFacts, LeadsNowhere
  <2>3. 0 \in 0 .. n
    BY <1>1
  <2>4. QED
    BY <2>1, <2>2, <2>3
<1>3. ASSUME NEW k \in 0 .. n - 1, k \in S PROVE k + 1 \in S
  <2>1. PICK q \in Points : /\ Leads(r, SubSeq(bytes, 1, k), q)
                            /\ Quiet(q) /\ q.media = r.media
    BY <1>3
  <2>2. /\ k + 1 \in 1 .. n /\ bytes[k + 1] \in Nat /\ SubSeq(bytes, 1, k) \in Seq(Nat)
        /\ SubSeq(bytes, 1, k + 1) = SubSeq(bytes, 1, k) \o <<bytes[k + 1]>>
    BY OneMoreByte
  <2> DEFINE byte == bytes[k + 1]
             a == SubSeq(bytes, 1, k)
  <2>3. byte \in Nat /\ byte # Dollar
    BY <2>2
  <2> HIDE DEF byte, a
  <2>4. PICK z \in Points : Leads(q, <<byte>>, z) /\ Quiet(z) /\ z.media = q.media
    BY <2>1, <2>3, QuietByte
  <2>5. a \in Seq(Nat) /\ <<byte>> \in Seq(Nat) /\ Leads(r, a, q)
    BY <2>1, <2>2, <2>3 DEF a
  <2>6. Leads(r, a \o <<byte>>, z)
    BY <2>4, <2>5, LeadsJoin
  <2>7. k + 1 \in 0 .. n
    BY <1>1
  <2>8. Leads(r, SubSeq(bytes, 1, k + 1), z)
    BY <2>2, <2>6 DEF a, byte
  <2>9. QED
    BY <2>1, <2>4, <2>7, <2>8
<1> HIDE DEF S
<1>4. 0 .. n \subseteq S
  BY <1>1, <1>2, <1>3, Induction
<1>5. n \in 0 .. n
  BY <1>1
<1>6. Reached(n)
  BY <1>4, <1>5 DEF S
<1>7. SubSeq(bytes, 1, n) = bytes
  BY SubSeqFull
<1>8. QED
  BY <1>6, <1>7

\* The data of a frame that was opened.
LEMMA DataIsHanded ==
  ASSUME NEW r \in Points, Sound(r), r.frameLen > 0, r.kept = <<>>,
         NEW data \in Seq(Nat), Len(data) = r.frameLen
  PROVE  \E q \in Points : /\ Leads(r, data, q) /\ Quiet(q)
                           /\ q.media = HandleDataPacket(r.media, r.channel, data)
<1> DEFINE n == Len(data)
           At(k) == [window |-> r.window, kept |-> SubSeq(data, 1, k),
                     frameLen |-> r.frameLen, channel |-> r.channel, media |-> r.media]
           S == { k \in 0 .. n - 1 : Leads(r, SubSeq(data, 1, k), At(k)) }
<1>1. n \in Nat /\ n >= 1 /\ n - 1 \in Nat /\ n - 1 \in 0 .. n - 1 /\ r.frameLen = n
  BY LenProperties
<1>2. /\ r.window \in Windows /\ r.frameLen \in Nat /\ r.channel \in Nat
      /\ r.media \in Seq(Seq(Nat))
  BY DEF Points
<1>3. ASSUME NEW k \in 0 .. n - 1
      PROVE  /\ At(k) \in Points /\ Sound(At(k))
             /\ At(k).window = r.window /\ At(k).kept = SubSeq(data, 1, k)
             /\ At(k).frameLen = r.frameLen /\ At(k).channel = r.channel
             /\ At(k).media = r.media
  <2>1. SubSeq(data, 1, k) \in Seq(Nat) /\ Len(SubSeq(data, 1, k)) = k
    BY OneMoreByte
  <2> DEFINE kept == SubSeq(data, 1, k)
             q == [window |-> r.window, kept |-> kept,
                   frameLen |-> r.frameLen, channel |-> r.channel, media |-> r.media]
  <2>2. kept \in Seq(Nat) /\ Len(kept) < r.frameLen
    BY <1>1, <2>1
  <2>3. At(k) = q
    OBVIOUS
  <2> HIDE DEF kept
  <2>4. /\ q \in Points /\ q.window = r.window /\ q.kept = kept /\ q.frameLen = r.frameLen
        /\ q.channel = r.channel /\ q.media = r.media
    BY <1>2, <2>2 DEF Points
  <2> HIDE DEF q
  <2>5. Sound(q)
    BY <1>1, <2>2, <2>4 DEF Sound
  <2>6. QED
    BY <2>3, <2>4, <2>5 DEF kept
<1>4. 0 \in S
  <2>1. SubSeq(data, 1, 0) = <<>>
    BY SubSeqEmpty
  <2>2. r = [window |-> r.window, kept |-> r.kept, frameLen |-> r.frameLen,
             channel |-> r.channel, media |-> r.media]
    BY DEF Points
  <2>3. At(0) = r
    BY <2>1, <2>2
  <2>4. Leads(r, <<>>, r)
    BY LeadsNowhere
  <2>5. 0 \in 0 .. n - 1
    BY <1>1
  <2>6. QED
    BY <2>1, <2>3, <2>4, <2>5
<1> HIDE DEF At, S
<1>5. ASSUME NEW k \in 0 .. (n - 1) - 1, k \in S PROVE k + 1 \in S
  <2>1. k \in 0 .. n - 1 /\ k + 1 \in 0 .. n - 1 /\ k + 1 # n
    BY <1>1
  <2>2. /\ k + 1 \in 1 .. n /\ data[k + 1] \in Nat /\ SubSeq(data, 1, k) \in Seq(Nat)
        /\ Len(SubSeq(data, 1, k)) = k
        /\ SubSeq(data, 1, k + 1) = SubSeq(data, 1, k) \o <<data[k + 1]>>
        /\ SubSeq(data, 1, k + 1) = Append(SubSeq(data, 1, k), data[k + 1])
    BY <2>1, OneMoreByte
  <2> DEFINE byte == data[k + 1]
             a == SubSeq(data, 1, k)
             next == k + 1
             kept == Append(a, byte)
  <2>3. /\ byte \in Nat /\ a \in Seq(Nat) /\ Leads(r, a, At(k)) /\ <<byte>> \in Seq(Nat)
    <3>1. Leads(r, SubSeq(data, 1, k), At(k))
      BY <1>5 DEF S
    <3>2. byte \in Nat /\ a \in Seq(Nat)
      BY <2>2
    <3>3. <<byte>> \in Seq(Nat)
      BY <3>2
    <3>4. QED
      BY <3>1, <3>2, <3>3
  <2>4. kept = SubSeq(data, 1, next) /\ SubSeq(data, 1, next) = a \o <<byte>>
    BY <2>2
  <2>5. Len(kept) = k + 1
    <3>1. Len(a) = k
      BY <2>2
    <3> HIDE DEF a, byte
    <3>2. QED
      BY <2>3, <3>1, AppendProperties
  <2>6. next \in 0 .. n - 1 /\ Len(kept) # r.frameLen
    BY <1>1, <2>1, <2>5
  <2>11. r.frameLen > 0
    OBVIOUS
  <2> HIDE DEF next, byte, a
  <2>7. Taken(At(k), byte) = At(next)
    <3>1. /\ At(k).window = r.window /\ At(k).kept = a
          /\ At(k).frameLen = r.frameLen /\ At(k).channel = r.channel
          /\ At(k).media = r.media
      BY <1>3, <2>1 DEF a
    <3>2. Append(At(k).kept, byte) = kept
      BY <3>1
    <3> HIDE DEF kept
    <3>3. Taken(At(k), byte) = [window |-> r.window, kept |-> kept,
                                frameLen |-> r.frameLen, channel |-> r.channel,
                                media |-> r.media]
      BY <2>6, <2>11, <3>1, <3>2 DEF Taken
    <3>4. kept = SubSeq(data, 1, next)
      BY <2>4
    <3>5. QED
      BY <3>3, <3>4 DEF At
  <2>8. Leads(At(k), <<byte>>, At(next))
    <3>1. At(k) \in Points /\ Sound(At(k)) /\ At(next) \in Points /\ Sound(At(next))
      BY <1>3, <2>1, <2>6
    <3>2. QED
      BY <2>3, <2>7, <3>1, LeadsByte
  <2>9. Leads(r, a \o <<byte>>, At(next))
    BY <2>3, <2>8, LeadsJoin
  <2>10. QED
    BY <2>4, <2>6, <2>9 DEF next, S
<1>6. 0 .. n - 1 \subseteq S
  BY <1>1, <1>4, <1>5, Induction
<1> DEFINE k == n - 1
<1>7. k \in 0 .. n - 1 /\ k + 1 = n
  BY <1>1
<1>8. Leads(r, SubSeq(data, 1, k), At(k))
  BY <1>6, <1>7 DEF S
<1>9. /\ At(k) \in Points /\ Sound(At(k)) /\ At(k).kept = SubSeq(data, 1, k)
      /\ At(k).frameLen = r.frameLen /\ At(k).channel = r.channel /\ At(k).media = r.media
  BY <1>3, <1>7
<1>10. /\ data[n] \in Nat /\ SubSeq(data, 1, k) \in Seq(Nat)
       /\ SubSeq(data, 1, k) \o <<data[n]>> = data
       /\ Append(SubSeq(data, 1, k), data[n]) = data
  <2>1. /\ data[k + 1] \in Nat /\ SubSeq(data, 1, k) \in Seq(Nat)
        /\ SubSeq(data, 1, k + 1) = SubSeq(data, 1, k) \o <<data[k + 1]>>
        /\ SubSeq(data, 1, k + 1) = Append(SubSeq(data, 1, k), data[k + 1])
    BY <1>7, OneMoreByte
  <2>2. SubSeq(data, 1, n) = data
    BY SubSeqFull
  <2>3. QED
    BY <1>7, <2>1, <2>2
<1> DEFINE byte == data[n]
           a == SubSeq(data, 1, k)
           media == HandleDataPacket(r.media, r.channel, data)
           q == [window |-> Blank, kept |-> <<>>, frameLen |-> 0, channel |-> r.channel,
                 media |-> media]
<1>11. /\ byte \in Nat /\ a \in Seq(Nat) /\ <<byte>> \in Seq(Nat)
       /\ a \o <<byte>> = data /\ Append(a, byte) = data
       /\ Leads(r, a, At(k)) /\ At(k).kept = a
  <2>1. byte \in Nat /\ a \in Seq(Nat) /\ a \o <<byte>> = data /\ Append(a, byte) = data
    BY <1>10
  <2>2. Leads(r, a, At(k)) /\ At(k).kept = a
    BY <1>8, <1>9
  <2> HIDE DEF byte
  <2>3. <<byte>> \in Seq(Nat)
    BY <2>1
  <2>4. QED
    BY <2>1, <2>2, <2>3
<1>12. media \in Seq(Seq(Nat))
  BY <1>2, AppendProperties DEF HandleDataPacket
<1>15. r.frameLen > 0 /\ Len(data) = r.frameLen
  OBVIOUS
<1> HIDE DEF byte, a, media, k, n
<1>13. Taken(At(k), byte) = q
  <2>1. Append(At(k).kept, byte) = data
    BY <1>11
  <2>2. Taken(At(k), byte) = [window |-> Blank, kept |-> <<>>, frameLen |-> 0,
                              channel |-> r.channel,
                              media |-> HandleDataPacket(r.media, r.channel, data)]
    BY <1>9, <1>15, <2>1 DEF Taken
  <2>3. QED
    BY <2>2 DEF media
<1>14. q \in Points /\ q.window = Blank /\ q.frameLen = 0 /\ q.media = media
  BY <1>2, <1>12, QuietFacts DEF Points
<1> HIDE DEF q
<1>16. Quiet(q) /\ Sound(q)
  BY <1>14, QuietFacts DEF Quiet
<1>17. Leads(At(k), <<byte>>, q)
  BY <1>9, <1>11, <1>13, <1>14, <1>16, LeadsByte
<1>18. Leads(r, a \o <<byte>>, q)
  BY <1>11, <1>17, LeadsJoin
<1>19. Leads(r, data, q)
  BY <1>11, <1>18
<1>20. QED
  BY <1>14, <1>16, <1>19 DEF media

LEMMA OneLonger ==
  ASSUME NEW s \in Seq(Nat), NEW e \in Nat, NEW u \in Seq(Nat), Len(u) = Len(s) + 1,
         \A i \in 1 .. Len(s) : u[i] = s[i], u[Len(s) + 1] = e
  PROVE  s \o <<e>> = u
<1>1. /\ Append(s, e) \in Seq(Nat) /\ Len(Append(s, e)) = Len(s) + 1
      /\ \A i \in 1 .. Len(s) : Append(s, e)[i] = s[i]
      /\ Append(s, e)[Len(s) + 1] = e
  BY AppendProperties
<1>2. Append(s, e) = s \o <<e>>
  BY AppendIsConcat
<1> DEFINE t == Append(s, e)
<1> HIDE DEF t
<1>3. /\ t \in Seq(Nat) /\ Len(t) = Len(s) + 1 /\ Len(s) \in Nat
      /\ \A i \in 1 .. Len(s) : t[i] = s[i]
      /\ t[Len(s) + 1] = e
  BY <1>1, LenProperties DEF t
<1>4. ASSUME NEW i \in 1 .. Len(t) PROVE t[i] = u[i]
  <2>1. i \in 1 .. Len(s) \/ i = Len(s) + 1
    BY <1>3
  <2>2. QED
    BY <1>3, <2>1
<1>5. t = u
  BY <1>3, <1>4, SeqEqual
<1>6. QED
  BY <1>2, <1>5 DEF t

\* A tuple is its elements one after the other.
LEMMA FourBytes ==
  ASSUME NEW a \in Nat, NEW b \in Nat, NEW c \in Nat, NEW d \in Nat
  PROVE  ((<<a>> \o <<b>>) \o <<c>>) \o <<d>> = <<a, b, c, d>>
<1>1. <<a>> \o <<b>> = <<a, b>>
  <2> DEFINE s == <<a>>
             u == <<a, b>>
  <2>1. /\ s \in Seq(Nat) /\ Len(s) = 1 /\ s[1] = a
        /\ u \in Seq(Nat) /\ Len(u) = 2 /\ u[1] = a /\ u[2] = b
    OBVIOUS
  <2> HIDE DEF s, u
  <2>4. 1 .. 1 = {1}
    OBVIOUS
  <2>5. \A i \in 1 .. Len(s) : u[i] = s[i]
    BY <2>1, <2>4
  <2>6. Len(u) = Len(s) + 1 /\ u[Len(s) + 1] = b
    BY <2>1
  <2>2. s \o <<b>> = u
    BY <2>1, <2>5, <2>6, OneLonger
  <2>3. QED
    BY <2>2 DEF s, u
<1>2. <<a, b>> \o <<c>> = <<a, b, c>>
  <2> DEFINE s == <<a, b>>
             u == <<a, b, c>>
  <2>1. /\ s \in Seq(Nat) /\ Len(s) = 2 /\ s[1] = a /\ s[2] = b
        /\ u \in Seq(Nat) /\ Len(u) = 3 /\ u[1] = a /\ u[2] = b /\ u[3] = c
    OBVIOUS
  <2> HIDE DEF s, u
  <2>4. 1 .. 2 = {1, 2}
    OBVIOUS
  <2>5. \A i \in 1 .. Len(s) : u[i] = s[i]
    BY <2>1, <2>4
  <2>6. Len(u) = Len(s) + 1 /\ u[Len(s) + 1] = c
    BY <2>1
  <2>2. s \o <<c>> = u
    BY <2>1, <2>5, <2>6, OneLonger
  <2>3. QED
    BY <2>2 DEF s, u
<1>3. <<a, b, c>> \o <<d>> = <<a, b, c, d>>
  <2> DEFINE s == <<a, b, c>>
             u == <<a, b, c, d>>
  <2>1. /\ s \in Seq(Nat) /\ Len(s) = 3 /\ s[1] = a /\ s[2] = b /\ s[3] = c
        /\ u \in Seq(Nat) /\ Len(u) = 4 /\ u[1] = a /\ u[2] = b /\ u[3] = c /\ u[4] = d
    OBVIOUS
  <2> HIDE DEF s, u
  <2>4. 1 .. 3 = {1, 2, 3}
    OBVIOUS
  <2>5. \A i \in 1 .. Len(s) : u[i] = s[i]
    BY <2>1, <2>4
  <2>6. Len(u) = Len(s) + 1 /\ u[Len(s) + 1] = d
    BY <2>1
  <2>2. s \o <<d>> = u
    BY <2>1, <2>5, <2>6, OneLonger
  <2>3. QED
    BY <2>2 DEF s, u
<1>4. QED
  BY <1>1, <1>2, <1>3

\* The four bytes of a header open a frame, whatever was seen before.
LEMMA HeaderOpens ==
  ASSUME NEW r \in Points, Quiet(r), NEW channel \in Nat, NEW high \in Nat, NEW low \in Nat,
         256 * high + low > 0
  PROVE  \E q \in Points :
           /\ Leads(r, <<Dollar, channel, high, low>>, q)
           /\ q.kept = <<>> /\ q.frameLen = 256 * high + low
           /\ q.channel = channel /\ q.media = r.media
<1>1. r.window \in Windows /\ Clean(r.window) /\ r.frameLen = 0 /\ Sound(r)
  BY QuietFacts DEF Points, Quiet
<1>2. /\ r.window[1] # Dollar /\ r.window[2] # Dollar
      /\ r.window[3] # Dollar /\ r.window[4] # Dollar
  BY <1>1, CleanFacts
<1>3. Dollar = 36 /\ EmptyLine = <<13, 10, 13, 10>> /\ Dollar \in Nat
  BY DEF Dollar, EmptyLine, CR, LF
<1>4. PICK a \in Points :
        /\ Leads(r, <<Dollar>>, a) /\ Sound(a)
        /\ a.window = AddChar(r.window, Dollar) /\ a.frameLen = 0 /\ a.media = r.media
  <2>1. AddChar(r.window, Dollar) # EmptyLine /\ AddChar(r.window, Dollar)[1] # Dollar
    BY <1>2, <1>3 DEF AddChar
  <2>2. QED
    BY <1>1, <1>3, <2>1, OrdinaryByte
<1>5. /\ a.window[1] = r.window[2] /\ a.window[2] = r.window[3] /\ a.window[3] = r.window[4]
      /\ a.window[4] = Dollar
  BY <1>4 DEF AddChar
<1>6. PICK b \in Points :
        /\ Leads(a, <<channel>>, b) /\ Sound(b)
        /\ b.window = AddChar(a.window, channel) /\ b.frameLen = 0 /\ b.media = a.media
  <2>1. /\ AddChar(a.window, channel) # EmptyLine /\ AddChar(a.window, channel)[1] # Dollar
    BY <1>2, <1>3, <1>5 DEF AddChar
  <2>2. QED
    BY <1>4, <2>1, OrdinaryByte
<1>7. /\ b.window[1] = r.window[3] /\ b.window[2] = r.window[4] /\ b.window[3] = Dollar
      /\ b.window[4] = channel
  BY <1>5, <1>6 DEF AddChar
<1>8. PICK c \in Points :
        /\ Leads(b, <<high>>, c) /\ Sound(c)
        /\ c.window = AddChar(b.window, high) /\ c.frameLen = 0 /\ c.media = b.media
  <2>1. /\ AddChar(b.window, high) # EmptyLine /\ AddChar(b.window, high)[1] # Dollar
    BY <1>2, <1>3, <1>7 DEF AddChar
  <2>2. QED
    BY <1>6, <2>1, OrdinaryByte
<1>9. /\ c.window[1] = r.window[4] /\ c.window[2] = Dollar /\ c.window[3] = channel
      /\ c.window[4] = high
  BY <1>7, <1>8 DEF AddChar
<1> DEFINE window == <<Dollar, channel, high, low>>
           q == [window |-> window, kept |-> <<>>, frameLen |-> 256 * high + low,
                 channel |-> channel, media |-> r.media]
<1>10. AddChar(c.window, low) = window /\ window # EmptyLine /\ window[1] = Dollar
       /\ window[2] = channel /\ window[3] = high /\ window[4] = low
  BY <1>3, <1>9 DEF AddChar
<1>11. c.media = r.media
  BY <1>4, <1>6, <1>8
<1>12. window \in Windows /\ r.media \in Seq(Seq(Nat)) /\ 256 * high + low \in Nat
  <2>1. window \in Windows
    BY <1>3 DEF Windows
  <2>2. r.media \in Seq(Seq(Nat))
    BY DEF Points
  <2>3. 256 * high + low \in Nat
    OBVIOUS
  <2>4. QED
    BY <2>1, <2>2, <2>3
<1>13. Taken(c, low) = q
  <2> HIDE DEF window
  <2>1. QED
    BY <1>8, <1>10, <1>11 DEF Taken
<1>14. /\ q \in Points /\ q.window = window /\ q.kept = <<>>
       /\ q.frameLen = 256 * high + low /\ q.channel = channel /\ q.media = r.media
  <2> HIDE DEF window
  <2>1. QED
    BY <1>12 DEF Points
<1> HIDE DEF q
<1>15. Sound(q)
  <2>1. Len(q.kept) = 0
    BY <1>14
  <2>2. QED
    BY <1>14, <2>1 DEF Sound
<1>16. Leads(c, <<low>>, q)
  BY <1>8, <1>13, <1>14, <1>15, LeadsByte
<1>17. Leads(r, <<Dollar>> \o <<channel>>, b)
  <2>1. <<Dollar>> \in Seq(Nat) /\ <<channel>> \in Seq(Nat)
    BY <1>3
  <2>2. QED
    BY <1>4, <1>6, <2>1, LeadsJoin
<1>18. Leads(r, (<<Dollar>> \o <<channel>>) \o <<high>>, c)
  <2>1. <<Dollar>> \o <<channel>> \in Seq(Nat) /\ <<high>> \in Seq(Nat)
    BY <1>3
  <2> DEFINE s == <<Dollar>> \o <<channel>>
  <2> HIDE DEF s
  <2>2. Leads(r, s, b) /\ s \in Seq(Nat)
    BY <1>17, <2>1 DEF s
  <2>3. Leads(r, s \o <<high>>, c)
    BY <1>8, <2>1, <2>2, LeadsJoin
  <2>4. QED
    BY <2>3 DEF s
<1>19. Leads(r, ((<<Dollar>> \o <<channel>>) \o <<high>>) \o <<low>>, q)
  <2>1. (<<Dollar>> \o <<channel>>) \o <<high>> \in Seq(Nat) /\ <<low>> \in Seq(Nat)
    BY <1>3
  <2> DEFINE s == (<<Dollar>> \o <<channel>>) \o <<high>>
  <2> HIDE DEF s
  <2>2. Leads(r, s, c) /\ s \in Seq(Nat)
    BY <1>18, <2>1 DEF s
  <2>3. Leads(r, s \o <<low>>, q)
    BY <1>16, <2>1, <2>2, LeadsJoin
  <2>4. QED
    BY <2>3 DEF s
<1>20. ((<<Dollar>> \o <<channel>>) \o <<high>>) \o <<low>> = window
  BY <1>3, FourBytes
<1>21. QED
  BY <1>14, <1>19, <1>20

\* A frame is handed over whole, whatever its data contains.
LEMMA FrameIsHanded ==
  ASSUME NEW r \in Points, Quiet(r), NEW channel \in Nat,
         NEW data \in Seq(Nat), Len(data) > 0
  PROVE  \E q \in Points :
           /\ Leads(r, Frame([channel |-> channel, data |-> data]), q)
           /\ Quiet(q) /\ q.media = HandleDataPacket(r.media, channel, data)
<1> DEFINE n == Len(data)
           high == n \div 256
           low == n % 256
           header == <<Dollar, channel, high, low>>
<1>1. n \in Nat
  BY LenProperties
<1>2. high \in Nat /\ low \in Nat /\ 256 * high + low = n
  <2> HIDE DEF n
  <2>1. QED
    BY <1>1
<1>3. n > 0
  OBVIOUS
<1>4. Frame([channel |-> channel, data |-> data]) = header \o data
  BY DEF Frame
<1>5. header \in Seq(Nat)
  BY <1>2 DEF Dollar
<1> HIDE DEF high, low
<1>6. PICK o \in Points :
        /\ Leads(r, header, o) /\ o.kept = <<>> /\ o.frameLen = n
        /\ o.channel = channel /\ o.media = r.media
  <2>1. 256 * high + low > 0
    BY <1>2, <1>3
  <2>2. \E q \in Points :
           /\ Leads(r, <<Dollar, channel, high, low>>, q)
           /\ q.kept = <<>> /\ q.frameLen = 256 * high + low
           /\ q.channel = channel /\ q.media = r.media
    BY <1>2, <2>1, HeaderOpens
  <2>3. QED
    BY <1>2, <2>2
<1> HIDE DEF header
<1>7. Sound(o)
  BY <1>5, <1>6, LeadsTypes
<1>8. PICK q \in Points : /\ Leads(o, data, q) /\ Quiet(q)
                          /\ q.media = HandleDataPacket(o.media, o.channel, data)
  BY <1>3, <1>6, <1>7, DataIsHanded
<1>9. Leads(r, header \o data, q)
  BY <1>5, <1>6, <1>8, LeadsJoin
<1>10. QED
  BY <1>4, <1>6, <1>8, <1>9
-----------------------------------------------------------------------------
(***************************************************************************)
(* What is handed over only grows along the stream.                        *)
(***************************************************************************)

Begins(s, t) == Len(s) <= Len(t) /\ \A i \in 1 .. Len(s) : s[i] = t[i]

LEMMA BeginsIsPrefix ==
  ASSUME NEW S, NEW s \in Seq(S), NEW t \in Seq(S), Begins(s, t)
  PROVE  IsPrefix(s, t)
<1> DEFINE n == Len(s)
           a == SubSeq(s, 1, n)
           b == SubSeq(t, 1, n)
<1>1. n \in Nat /\ Len(t) \in Nat /\ n <= Len(t) /\ \A i \in 1 .. n : s[i] = t[i]
  BY LenProperties DEF Begins
<1>2. /\ \A i \in 1 .. n : s[i] \in S
      /\ \A i \in 1 .. Len(t) : t[i] \in S
  BY ElementOfSeq
<1>3. 1 .. n \subseteq 1 .. Len(t)
  BY <1>1
<1>4. \A i \in 1 .. n : s[i] \in S /\ t[i] \in S
  BY <1>2, <1>3
<1> HIDE DEF n
<1>5. /\ a \in Seq(S) /\ Len(a) = IF 1 <= n THEN n - 1 + 1 ELSE 0
      /\ \A i \in 1 .. n - 1 + 1 : a[i] = s[1 + i - 1]
  BY <1>1, <1>4, SubSeqProperties
<1>6. /\ b \in Seq(S) /\ Len(b) = IF 1 <= n THEN n - 1 + 1 ELSE 0
      /\ \A i \in 1 .. n - 1 + 1 : b[i] = t[1 + i - 1]
  BY <1>1, <1>4, SubSeqProperties
<1>7. /\ (IF 1 <= n THEN n - 1 + 1 ELSE 0) = n /\ n - 1 + 1 = n
      /\ \A i \in 1 .. n : 1 + i - 1 = i
  BY <1>1
<1> HIDE DEF a, b
<1>8. Len(a) = n /\ Len(b) = n /\ \A i \in 1 .. n : a[i] = b[i]
  BY <1>1, <1>5, <1>6, <1>7
<1>9. a = b
  BY <1>5, <1>6, <1>8, SeqEqual
<1>10. QED
  BY <1>1, <1>9 DEF IsPrefix, a, b, n

LEMMA BeginsTransitive ==
  ASSUME NEW S, NEW s \in Seq(S), NEW t \in Seq(S), NEW u \in Seq(S),
         Begins(s, t), Begins(t, u)
  PROVE  Begins(s, u)
<1>1. Len(s) \in Nat /\ Len(t) \in Nat /\ Len(u) \in Nat
  BY LenProperties
<1>2. Len(s) <= Len(t) /\ Len(t) <= Len(u)
  BY DEF Begins
<1>3. ASSUME NEW i \in 1 .. Len(s) PROVE s[i] = u[i]
  <2>1. i \in 1 .. Len(t)
    BY <1>1, <1>2
  <2>2. s[i] = t[i] /\ t[i] = u[i]
    BY <2>1 DEF Begins
  <2>3. QED
    BY <2>2
<1>4. Len(s) <= Len(u)
  BY <1>1, <1>2
<1>5. QED
  BY <1>3, <1>4 DEF Begins

LEMMA BeginsItself ==
  ASSUME NEW S, NEW s \in Seq(S)
  PROVE  Begins(s, s)
<1>1. Len(s) \in Nat
  BY LenProperties
<1>2. QED
  BY <1>1 DEF Begins

LEMMA HandingGrows ==
  ASSUME NEW media \in Seq(Seq(Nat)), NEW channel, NEW data \in Seq(Nat)
  PROVE  /\ HandleDataPacket(media, channel, data) \in Seq(Seq(Nat))
         /\ Begins(media, HandleDataPacket(media, channel, data))
<1>1. /\ Append(media, data) \in Seq(Seq(Nat)) /\ Len(Append(media, data)) = Len(media) + 1
      /\ \A i \in 1 .. Len(media) : Append(media, data)[i] = media[i]
  BY AppendProperties
<1>2. Len(media) \in Nat
  BY LenProperties
<1> DEFINE t == Append(media, data)
<1> HIDE DEF t
<1>3. Begins(media, t)
  BY <1>1, <1>2 DEF Begins, t
<1>4. Begins(media, media)
  BY BeginsItself
<1>5. HandleDataPacket(media, channel, data) \in {t, media}
  BY DEF HandleDataPacket, t
<1>6. t \in Seq(Seq(Nat))
  BY <1>1 DEF t
<1>7. QED
  BY <1>3, <1>4, <1>5, <1>6

LEMMA TakenGrows ==
  ASSUME NEW r \in Points, NEW byte \in Nat
  PROVE  Begins(r.media, Taken(r, byte).media)
<1> DEFINE kept == Append(r.kept, byte)
           media == HandleDataPacket(r.media, r.channel, kept)
<1>1. r.media \in Seq(Seq(Nat)) /\ r.kept \in Seq(Nat)
  BY DEF Points
<1>2. kept \in Seq(Nat)
  BY <1>1, AppendProperties
<1>3. Taken(r, byte).media \in {r.media, media}
  BY DEF Taken
<1> HIDE DEF kept
<1>4. Begins(r.media, media)
  BY <1>1, <1>2, HandingGrows
<1>5. Begins(r.media, r.media)
  BY <1>1, BeginsItself
<1> HIDE DEF media
<1>6. QED
  BY <1>3, <1>4, <1>5

LEMMA LeadsGrows ==
  ASSUME NEW r, NEW q, NEW bytes \in Seq(Nat), Leads(r, bytes, q)
  PROVE  Begins(r.media, q.media)
<1>1. PICK run : Run(run, bytes) /\ run[0] = r /\ run[Len(bytes)] = q
  BY DEF Leads
<1> DEFINE n == Len(bytes)
           S == { i \in 0 .. n : Begins(r.media, run[i].media) }
<1>2. n \in Nat /\ \A i \in 1 .. n : bytes[i] \in Nat
  BY LenProperties, ElementOfSeq
<1>3. /\ run \in [0 .. n -> Points] /\ run[0] = r /\ run[n] = q
      /\ \A i \in 1 .. n : run[i] = Taken(run[i - 1], bytes[i])
  BY <1>1 DEF Run
<1> HIDE DEF n
<1>4. \A i \in 0 .. n : run[i] \in Points /\ run[i].media \in Seq(Seq(Nat))
  BY <1>3 DEF Points
<1>5. 0 \in S
  <2>1. 0 \in 0 .. n
    BY <1>2
  <2>2. QED
    BY <1>3, <1>4, <2>1, BeginsItself
<1>6. ASSUME NEW m \in 0 .. n - 1, m \in S PROVE m + 1 \in S
  <2> DEFINE i == m + 1
  <2>1. i \in 1 .. n /\ i \in 0 .. n /\ i - 1 = m /\ 0 \in 0 .. n /\ m \in 0 .. n
    BY <1>2
  <2> HIDE DEF i
  <2>2. run[i] = Taken(run[m], bytes[i])
    BY <1>3, <2>1
  <2>3. Begins(run[m].media, run[i].media)
    BY <1>2, <1>4, <2>1, <2>2, TakenGrows
  <2>4. Begins(r.media, run[m].media)
    BY <1>6
  <2>5. r.media \in Seq(Seq(Nat)) /\ run[m].media \in Seq(Seq(Nat)) /\ run[i].media \in Seq(Seq(Nat))
    BY <1>3, <1>4, <2>1
  <2>6. Begins(r.media, run[i].media)
    BY <2>3, <2>4, <2>5, BeginsTransitive
  <2>7. QED
    BY <2>1, <2>6 DEF i
<1> HIDE DEF S
<1>7. 0 .. n \subseteq S
  BY <1>2, <1>5, <1>6, Induction
<1>8. n \in 0 .. n
  BY <1>2
<1>9. QED
  BY <1>3, <1>7, <1>8 DEF S

LEMMA LeadsNothing ==
  ASSUME NEW r, NEW q, Leads(r, <<>>, q)
  PROVE  r = q
<1>1. Len(<<>>) = 0
  OBVIOUS
<1>2. QED
  BY <1>1 DEF Leads
-----------------------------------------------------------------------------
(***************************************************************************)
(* Reads.                                                                  *)
(***************************************************************************)

LEMMA ReadLeads ==
  ASSUME NEW read \in Seq(Nat), NEW q, NEW before \in Seq(Seq(Nat)), NEW p \in Parsers,
         NEW s \in Sessions, Leads(Point(p, before), read, q)
  PROVE  AtPoint(Receive(p, s, read), q, before)
<1>1. PICK run : Run(run, read) /\ run[0] = Point(p, before) /\ run[Len(read)] = q
  BY DEF Leads
<1>2. AtPoint(Receive(p, s, read), run[Len(read)], before)
  BY <1>1, ReadEnds
<1>3. QED
  BY <1>1, <1>2

LEMMA PointTypes ==
  ASSUME NEW p \in Parsers, NEW media \in Seq(Seq(Nat))
  PROVE  /\ Point(p, media) \in Points
         /\ Point(p, media).window = p.window /\ Point(p, media).kept = p.kept
         /\ Point(p, media).frameLen = p.frameLen /\ Point(p, media).channel = p.channel
         /\ Point(p, media).media = media
BY DEF Point, Points, Parsers

LEMMA PointsDiffer ==
  ASSUME NEW p, NEW media, NEW o, NEW others, p \in Parsers, o \in Parsers,
         Point(p, media) = Point(o, others)
  PROVE  p = o /\ media = others
<1>1. p.window = o.window /\ p.kept = o.kept /\ p.frameLen = o.frameLen
      /\ p.channel = o.channel /\ media = others
  <2>1. /\ Point(p, media).window = p.window /\ Point(o, others).window = o.window
        /\ Point(p, media).kept = p.kept /\ Point(o, others).kept = o.kept
        /\ Point(p, media).frameLen = p.frameLen /\ Point(o, others).frameLen = o.frameLen
        /\ Point(p, media).channel = p.channel /\ Point(o, others).channel = o.channel
        /\ Point(p, media).media = media /\ Point(o, others).media = others
    BY DEF Point
  <2>2. QED
    BY <2>1
<1>2. /\ p = [window |-> p.window, kept |-> p.kept, frameLen |-> p.frameLen,
              channel |-> p.channel]
      /\ o = [window |-> o.window, kept |-> o.kept, frameLen |-> o.frameLen,
              channel |-> o.channel]
  BY DEF Parsers
<1>3. QED
  BY <1>1, <1>2

\* The stream may be cut into reads anywhere: what two calls of receiveData leave in
\* the parser and hand over is what one call with the same bytes does.  The bytes only
\* have to lead somewhere, as StreamArrives shows of all that is on its way.
THEOREM ReadsMayBeCutAnywhere ==
  ASSUME NEW p \in Parsers, NEW s \in Sessions, NEW bytes \in Seq(Nat),
         NEW q, Leads(Point(p, <<>>), bytes, q), NEW k \in 0 .. Len(bytes)
  PROVE  LET whole == Receive(p, s, bytes)
             one == Receive(p, s, SubSeq(bytes, 1, k))
             two == Receive(one.parser, one.session, SubSeq(bytes, k + 1, Len(bytes)))
         IN  whole.parser = two.parser /\ whole.media = one.media \o two.media
<1> DEFINE a == SubSeq(bytes, 1, k)
           b == SubSeq(bytes, k + 1, Len(bytes))
           whole == Receive(p, s, bytes)
           one == Receive(p, s, a)
           two == Receive(one.parser, one.session, b)
<1>1. a \in Seq(Nat) /\ b \in Seq(Nat)
  <2>1. Len(bytes) \in Nat
    BY LenProperties
  <2>2. 1 \in 1 .. Len(bytes) + 1 /\ k + 1 \in 1 .. Len(bytes) + 1 /\ Len(bytes) \in 0 .. Len(bytes)
    BY <2>1
  <2>3. QED
    BY <2>2, BytesOf
<1>2. PICK m : Leads(Point(p, <<>>), a, m) /\ Leads(m, b, q)
  BY LeadsSplit
<1>3. <<>> \in Seq(Seq(Nat))
  OBVIOUS
<1> HIDE DEF a, b
<1>4. AtPoint(whole, q, <<>>)
  BY <1>3, ReadLeads
<1>5. AtPoint(one, m, <<>>)
  BY <1>1, <1>2, <1>3, ReadLeads
<1> HIDE DEF one, whole
<1>6. /\ whole.parser \in Parsers /\ whole.media \in Seq(Seq(Nat))
      /\ q = Point(whole.parser, whole.media)
  <2>1. <<>> \o whole.media = whole.media
    BY <1>4, ConcatEmptySeq DEF AtPoint
  <2>2. QED
    BY <1>4, <2>1 DEF AtPoint
<1>7. /\ one.parser \in Parsers /\ one.session \in Sessions /\ one.media \in Seq(Seq(Nat))
      /\ m = Point(one.parser, one.media)
  <2>1. <<>> \o one.media = one.media
    BY <1>5, ConcatEmptySeq DEF AtPoint
  <2>2. QED
    BY <1>5, <2>1 DEF AtPoint
<1>8. AtPoint(two, q, one.media)
  BY <1>1, <1>2, <1>7, ReadLeads
<1> HIDE DEF two
<1>9. two.parser \in Parsers /\ q = Point(two.parser, one.media \o two.media)
  BY <1>8 DEF AtPoint
<1>10. whole.parser = two.parser /\ whole.media = one.media \o two.media
  <2> DEFINE media == one.media \o two.media
  <2> HIDE DEF media
  <2>1. Point(whole.parser, whole.media) = Point(two.parser, media)
    BY <1>6, <1>9 DEF media
  <2>2. whole.parser = two.parser /\ whole.media = media
    BY <1>6, <1>9, <2>1, PointsDiffer
  <2>3. QED
    BY <2>2 DEF media
<1>11. QED
  BY <1>10 DEF whole, one, two, a, b
-----------------------------------------------------------------------------
(***************************************************************************)
(* The invariant: as long as no connection ended inside a packet, the      *)
(* bytes on their way lead the parser from where it is to a point at which *)
(* all that was sent over this connection is handed over.                  *)
(***************************************************************************)

Typed ==
  /\ parser \in Parsers /\ session \in Sessions /\ requests \in Seq(Requests)
  /\ link \in {"connecting", "up", "broken", "ended"}
  /\ wire \in Seq(Nat) /\ drops \in Nat
  /\ sent \in Seq(Seq(Nat)) /\ handed \in Seq(Seq(Nat))

Arrives(q) ==
  /\ Leads(Point(parser, handed), wire, q)
  /\ Begins(q.media, sent)
  /\ link = "up" => Quiet(q) /\ q.media = sent
  /\ link = "connecting" => Quiet(q) /\ wire = <<>>

Whole == Typed /\ \E q : Arrives(q)

StreamInv == torn \/ Whole

LEMMA SendsTypes ==
  ASSUME NEW s \in Sessions, requests \in Seq(Requests), Sends(s)
  PROVE  session' \in Sessions /\ requests' \in Seq(Requests)
<1>1. s.asks \in Seq(Requests) /\ <<>> \in Seq(Requests)
  BY DEF Sessions
<1>2. session' \in Sessions
  BY <1>1 DEF Sends, Sessions
<1>3. requests \o s.asks \in Seq(Requests)
  BY <1>1, ConcatProperties
<1>4. requests' \in {requests \o s.asks, requests}
  BY DEF Sends
<1>5. QED
  BY <1>2, <1>3, <1>4

LEMMA InitWhole ==
  ASSUME Init
  PROVE  StreamInv
<1> DEFINE zero == <<0, 0, 0, 0>>
           r == Point(parser, handed)
<1>1. zero \in Windows /\ Clean(zero)
  <2>1. zero \in Windows
    BY DEF Windows
  <2>2. QED
    BY <2>1, CleanFacts DEF Dollar
<1>2. parser \in Parsers /\ parser.window = zero /\ parser.frameLen = 0
  BY <1>1 DEF Init, Parsers
<1>3. session \in Sessions
  <2>1. session = [method |-> "TEARDOWN", cseq |-> 0, need |-> FALSE, tried |-> FALSE,
                   nonce |-> 0, asks |-> <<>>]
    BY DEF Init
  <2>2. <<>> \in Seq(Requests) /\ "TEARDOWN" \in Methods
    BY DEF Methods
  <2>3. QED
    BY <2>1, <2>2 DEF Sessions
<1>4. /\ requests = <<>> /\ link = "connecting" /\ wire = <<>> /\ drops = 0
      /\ sent = <<>> /\ handed = <<>>
  BY DEF Init
<1>5. /\ requests \in Seq(Requests) /\ wire \in Seq(Nat) /\ drops \in Nat
      /\ sent \in Seq(Seq(Nat)) /\ handed \in Seq(Seq(Nat))
  BY <1>4
<1>6. Typed
  BY <1>2, <1>3, <1>4, <1>5 DEF Typed
<1>7. r \in Points /\ r.window = zero /\ r.frameLen = 0 /\ r.media = handed
  BY <1>2, <1>5, PointTypes
<1> HIDE DEF r, zero
<1>8. Quiet(r) /\ Sound(r)
  BY <1>1, <1>7, QuietFacts DEF Quiet
<1>9. Leads(r, <<>>, r)
  BY <1>7, <1>8, LeadsNowhere
<1>10. Begins(r.media, sent)
  BY <1>4, <1>5, <1>7, BeginsItself
<1>11. Arrives(r)
  BY <1>4, <1>8, <1>9, <1>10 DEF Arrives, r
<1>12. QED
  BY <1>6, <1>11 DEF StreamInv, Whole

LEMMA ConnectKeeps ==
  ASSUME Whole, Connect
  PROVE  Whole'
<1>1. PICK q : Arrives(q)
  BY DEF Whole
<1>2. /\ link = "connecting" /\ link' = "up" /\ sent' = <<>> /\ handed' = <<>>
      /\ parser' = parser /\ wire' = wire /\ drops' = drops
      /\ Sends(UpdateStatus([session EXCEPT !.tried = FALSE]))
  BY DEF Connect
<1>3. Typed /\ wire = <<>> /\ Quiet(q) /\ Leads(Point(parser, handed), <<>>, q)
  BY <1>1, <1>2 DEF Whole, Arrives
<1>4. Typed'
  <2>1. [session EXCEPT !.tried = FALSE] \in Sessions
    BY <1>3 DEF Typed, Sessions
  <2>2. UpdateStatus([session EXCEPT !.tried = FALSE]) \in Sessions
    BY <2>1, UpdateStatusTypes
  <2>3. session' \in Sessions /\ requests' \in Seq(Requests)
    BY <1>2, <1>3, <2>2, SendsTypes DEF Typed
  <2>4. sent' \in Seq(Seq(Nat)) /\ handed' \in Seq(Seq(Nat))
    BY <1>2
  <2>5. QED
    BY <1>2, <1>3, <2>3, <2>4 DEF Typed
<1> DEFINE r == Point(parser, <<>>)
<1>5. q = Point(parser, handed)
  <2> DEFINE o == Point(parser, handed)
  <2>1. Leads(o, <<>>, q)
    BY <1>3
  <2> HIDE DEF o
  <2>2. o = q
    BY <2>1, LeadsNothing
  <2>3. QED
    BY <2>2 DEF o
<1>6. /\ r \in Points /\ r.window = parser.window /\ r.frameLen = parser.frameLen
      /\ r.media = <<>>
  <2>1. <<>> \in Seq(Seq(Nat)) /\ parser \in Parsers
    BY <1>3 DEF Typed
  <2>2. QED
    BY <2>1, PointTypes
<1>7. q.window = parser.window /\ q.frameLen = parser.frameLen
  BY <1>3, <1>5, PointTypes DEF Typed
<1> HIDE DEF r
<1>8. Quiet(r) /\ Sound(r)
  BY <1>3, <1>6, <1>7, QuietFacts DEF Quiet
<1>9. Leads(r, <<>>, r)
  BY <1>6, <1>8, LeadsNowhere
<1>10. Begins(r.media, sent')
  <2>1. <<>> \in Seq(Seq(Nat))
    OBVIOUS
  <2>2. QED
    BY <1>2, <1>6, <2>1, BeginsItself
<1>11. Arrives(r)'
  BY <1>2, <1>3, <1>6, <1>8, <1>9, <1>10 DEF Arrives, r
<1>12. QED
  BY <1>4, <1>11 DEF Whole

LEMMA ReadKeeps ==
  ASSUME Whole, Read
  PROVE  Whole'
<1>1. PICK q : Arrives(q)
  BY DEF Whole
<1>2. PICK k \in 1 .. Len(wire) :
        LET end == Receive(parser, session, SubSeq(wire, 1, k))
        IN  /\ wire' = SubSeq(wire, k + 1, Len(wire))
            /\ parser' = end.parser
            /\ handed' = handed \o end.media
            /\ UNCHANGED link
            /\ Sends(end.session)
  BY DEF Read
<1> DEFINE a == SubSeq(wire, 1, k)
           b == SubSeq(wire, k + 1, Len(wire))
           end == Receive(parser, session, a)
<1>3. /\ wire' = b /\ parser' = end.parser /\ handed' = handed \o end.media
      /\ link' = link /\ Sends(end.session)
  BY <1>2
<1>4. link \in {"up", "broken"} /\ sent' = sent /\ drops' = drops
  BY DEF Read
<1>5. Typed /\ Leads(Point(parser, handed), wire, q)
  BY <1>1 DEF Whole, Arrives
<1>6. wire \in Seq(Nat) /\ parser \in Parsers /\ session \in Sessions /\ handed \in Seq(Seq(Nat))
  BY <1>5 DEF Typed
<1>7. a \in Seq(Nat) /\ b \in Seq(Nat) /\ k \in 0 .. Len(wire)
  <2>1. Len(wire) \in Nat
    BY <1>6, LenProperties
  <2>2. /\ 1 \in 1 .. Len(wire) + 1 /\ k + 1 \in 1 .. Len(wire) + 1
        /\ Len(wire) \in 0 .. Len(wire) /\ k \in 0 .. Len(wire)
    BY <2>1
  <2>3. QED
    BY <1>6, <2>2, BytesOf
<1>8. PICK m : Leads(Point(parser, handed), a, m) /\ Leads(m, b, q)
  BY <1>5, <1>6, <1>7, LeadsSplit
<1> HIDE DEF a, b
<1>9. AtPoint(end, m, handed)
  BY <1>6, <1>7, <1>8, ReadLeads
<1> HIDE DEF end
<1>10. /\ end.parser \in Parsers /\ end.session \in Sessions /\ end.media \in Seq(Seq(Nat))
       /\ m = Point(end.parser, handed \o end.media)
  BY <1>9 DEF AtPoint
<1>11. handed \o end.media \in Seq(Seq(Nat))
  BY <1>6, <1>10, ConcatProperties
<1>12. session' \in Sessions /\ requests' \in Seq(Requests)
  BY <1>3, <1>5, <1>10, SendsTypes DEF Typed
<1>13. Typed'
  BY <1>3, <1>4, <1>5, <1>7, <1>10, <1>11, <1>12 DEF Typed
<1>14. Leads(Point(parser', handed'), wire', q)
  BY <1>3, <1>8, <1>10
<1>15. Arrives(q)'
  BY <1>1, <1>3, <1>4, <1>14 DEF Arrives
<1>16. QED
  BY <1>13, <1>15 DEF Whole

LEMMA NoticeKeeps ==
  ASSUME Whole, Notice, ~ torn'
  PROVE  Whole'
<1>1. PICK q : Arrives(q)
  BY DEF Whole
<1>2. /\ link' = "connecting" /\ wire' = <<>> /\ parser' = parser /\ session' = session
      /\ requests' = requests /\ sent' = sent /\ handed' = handed /\ drops' = drops
      /\ parser.kept = <<>> /\ ~ (parser.frameLen > 0)
  BY DEF Notice
<1> DEFINE r == Point(parser, handed)
<1>3. Typed /\ Leads(r, wire, q) /\ Begins(q.media, sent)
  BY <1>1 DEF Whole, Arrives
<1>4. /\ r \in Points /\ r.kept = <<>> /\ r.frameLen = parser.frameLen /\ r.media = handed
      /\ parser.frameLen \in Nat
  BY <1>2, <1>3, PointTypes DEF Typed, Parsers
<1>5. wire \in Seq(Nat) /\ sent \in Seq(Seq(Nat)) /\ handed \in Seq(Seq(Nat))
  BY <1>3 DEF Typed
<1>6. <<>> \in Seq(Nat)
  OBVIOUS
<1>7. Typed'
  BY <1>2, <1>3, <1>6 DEF Typed
<1>8. r' = r
  BY <1>2
<1>13. r.frameLen = 0
  BY <1>2, <1>4
<1>9. Sound(r) /\ q \in Points
  <2> HIDE DEF r
  <2>1. QED
    BY <1>3, <1>5, LeadsTypes
<1>10. Quiet(r)
  <2> HIDE DEF r
  <2>1. QED
    BY <1>4, <1>9, <1>13, QuietFacts
<1>11. Leads(r, <<>>, r)
  BY <1>4, <1>9, LeadsNowhere
<1>12. Begins(r.media, sent)
  <2> HIDE DEF r
  <2>1. Begins(r.media, q.media)
    BY <1>3, <1>5, LeadsGrows
  <2>2. q.media \in Seq(Seq(Nat)) /\ r.media \in Seq(Seq(Nat))
    BY <1>4, <1>9 DEF Points
  <2>3. QED
    BY <1>3, <1>5, <2>1, <2>2, BeginsTransitive
<1>14. /\ Leads(Point(parser', handed'), wire', r) /\ Begins(r.media, sent')
       /\ Quiet(r) /\ link' = "connecting" /\ wire' = <<>>
  BY <1>2, <1>10, <1>11, <1>12
<1> HIDE DEF r
<1>15. \E o : Leads(Point(parser', handed'), wire', o) /\ Begins(o.media, sent')
              /\ Quiet(o)
  BY <1>14
<1>16. (\E o : Arrives(o))'
  BY <1>14, <1>15 DEF Arrives
<1>17. QED
  BY <1>7, <1>16 DEF Whole

\* What the callers do leaves the stream alone.
LEMMA AsideKeeps ==
  ASSUME Whole, session' \in Sessions, requests' \in Seq(Requests),
         UNCHANGED <<parser, wire, sent, handed, drops>>, link' \in {link, "ended"}
  PROVE  Whole'
<1>1. PICK q : Arrives(q)
  BY DEF Whole
<1>2. /\ parser' = parser /\ wire' = wire /\ sent' = sent /\ handed' = handed
      /\ drops' = drops
  OBVIOUS
<1>3. Typed'
  BY <1>2 DEF Whole, Typed
<1>4. Arrives(q)'
  BY <1>1, <1>2 DEF Arrives
<1>5. QED
  BY <1>3, <1>4 DEF Whole

LEMMA CallKeeps ==
  ASSUME Whole, NEW from, NEW method \in Methods, NEW waiting \in Methods,
         Call(from, method, waiting)
  PROVE  Whole'
<1> DEFINE s == [session EXCEPT !.method = waiting]
<1>1. session \in Sessions /\ requests \in Seq(Requests)
  BY DEF Whole, Typed
<1>2. s \in Sessions
  BY <1>1 DEF Sessions
<1>3. /\ Sends(Ask(s, method)) /\ link' = link
      /\ UNCHANGED <<parser, wire, sent, handed, drops>>
  BY DEF Call
<1> HIDE DEF s
<1>4. Ask(s, method) \in Sessions
  BY <1>2, AskTypes
<1>5. session' \in Sessions /\ requests' \in Seq(Requests)
  BY <1>1, <1>3, <1>4, SendsTypes
<1>6. QED
  BY <1>3, <1>5, AsideKeeps

LEMMA ShutdownKeeps ==
  ASSUME Whole, Shutdown
  PROVE  Whole'
<1>1. session \in Sessions /\ requests \in Seq(Requests) /\ "TEARDOWN" \in Methods
  BY DEF Whole, Typed, Methods
<1>2. /\ Sends(Ask(session, "TEARDOWN")) /\ link' = "ended"
      /\ UNCHANGED <<parser, wire, sent, handed, drops>>
  BY DEF Shutdown
<1>3. Ask(session, "TEARDOWN") \in Sessions
  BY <1>1, AskTypes
<1>4. session' \in Sessions /\ requests' \in Seq(Requests)
  BY <1>1, <1>2, <1>3, SendsTypes
<1>5. QED
  BY <1>2, <1>4, AsideKeeps

LEMMA ServeKeeps ==
  ASSUME Whole, Serve
  PROVE  Whole'
<1>1. PICK q : Arrives(q)
  BY DEF Whole
<1>2. /\ link = "up" /\ requests # <<>> /\ requests' = Tail(requests)
      /\ parser' = parser /\ session' = session /\ link' = link /\ sent' = sent
      /\ handed' = handed /\ drops' = drops
  BY DEF Serve
<1>3. /\ Typed /\ Leads(Point(parser, handed), wire, q) /\ Quiet(q) /\ q.media = sent
  BY <1>1, <1>2 DEF Whole, Arrives
<1>4. /\ wire \in Seq(Nat) /\ requests \in Seq(Requests) /\ drops \in Nat
      /\ sent \in Seq(Seq(Nat))
  BY <1>3 DEF Typed
<1> DEFINE answered == Head(requests)
<1>5. answered \in Requests /\ Tail(requests) \in Seq(Requests)
  BY <1>2, <1>4, HeadTailProperties
<1>6. answered.cseq \in Nat
  BY <1>5 DEF Requests
<1> DEFINE refused == demands /\ answered.method # "OPTIONS" /\ answered.nonce # Nonce
           lost == answered.method \in {"PLAY", "PAUSE"} /\ server = "new"
           code == IF refused THEN Unauthorized(Nonce) ELSE IF lost THEN NotValid ELSE OK
           body == IF answered.method = "DESCRIBE" /\ code = OK THEN Description ELSE <<>>
           text == Answer(answered.cseq, code)
<1>7. wire' = (wire \o text) \o body
  BY DEF Serve
<1>8. code \in Nat
  BY <1>4 DEF Unauthorized, Nonce, NotValid, OK
<1> HIDE DEF answered, code
<1>9. body \in Seq(Nat) /\ \A i \in 1 .. Len(body) : body[i] # Dollar
  <2>1. /\ Description \in Seq(Nat) /\ \A i \in 1 .. Len(Description) : Description[i] # Dollar
    <3>1. /\ Description \in Seq(Nat) /\ Len(Description) = 3 /\ Description[1] = 1
          /\ Description[2] = 13 /\ Description[3] = 10
      BY DEF Description, CR, LF
    <3>2. \A i \in 1 .. 3 : i \in {1, 2, 3}
      OBVIOUS
    <3>3. QED
      BY <3>1, <3>2 DEF Dollar
  <2>2. <<>> \in Seq(Nat) /\ \A i \in 1 .. Len(<<>>) : <<>>[i] # Dollar
    OBVIOUS
  <2>3. body = Description \/ body = <<>>
    OBVIOUS
  <2> HIDE DEF body
  <2>4. QED
    BY <2>1, <2>2, <2>3
<1>10. text \in Seq(Nat) /\ \A i \in 1 .. Len(text) : text[i] # Dollar
  <2> DEFINE byte == 1000 + 10 * answered.cseq + code
             s == <<byte>>
             t == EmptyLine
  <2>1. byte \in Nat /\ byte # 36
    <3> DEFINE c == answered.cseq
    <3>1. c \in Nat
      BY <1>6
    <3> HIDE DEF c
    <3>2. 1000 + 10 * c + code \in Nat /\ 1000 + 10 * c + code # 36
      BY <1>8, <3>1
    <3>3. QED
      BY <3>2 DEF c
  <2> HIDE DEF byte
  <2>2. /\ s \in Seq(Nat) /\ Len(s) = 1 /\ s[1] = byte
        /\ t \in Seq(Nat) /\ Len(t) = 4
        /\ t[1] = 13 /\ t[2] = 10 /\ t[3] = 13 /\ t[4] = 10
    BY <2>1 DEF EmptyLine, CR, LF
  <2>3. text = s \o t
    BY DEF Answer, byte
  <2> HIDE DEF s, t, text
  <2>4. /\ s \o t \in Seq(Nat) /\ Len(s \o t) = Len(s) + Len(t)
        /\ \A i \in 1 .. Len(s) + Len(t) :
             (s \o t)[i] = IF i <= Len(s) THEN s[i] ELSE t[i - Len(s)]
    BY <2>2, ConcatProperties
  <2>5. text \in Seq(Nat) /\ Len(text) = 5
    BY <2>2, <2>3, <2>4
  <2>6. ASSUME NEW i \in 1 .. 5 PROVE text[i] # 36
    <3>6. i \in 1 .. Len(s) + Len(t)
      BY <2>2
    <3>7. (s \o t)[i] = IF i <= Len(s) THEN s[i] ELSE t[i - Len(s)]
      BY <2>4, <3>6
    <3>1. text[i] = IF i <= 1 THEN s[i] ELSE t[i - 1]
      BY <2>2, <2>3, <3>7
    <3>2. i = 1 \/ i - 1 \in {1, 2, 3, 4}
      OBVIOUS
    <3>3. CASE i = 1
      BY <2>1, <2>2, <3>1, <3>3
    <3>4. CASE i # 1
      <4>1. ~ (i <= 1)
        BY <3>4
      <4>2. QED
        BY <2>2, <3>1, <3>2, <3>4, <4>1
    <3>5. QED
      BY <3>3, <3>4
  <2>7. QED
    BY <2>5, <2>6 DEF Dollar
<1> HIDE DEF text, body
<1>11. q \in Points
  <2> DEFINE r == Point(parser, handed)
  <2> HIDE DEF r
  <2>1. Leads(r, wire, q)
    BY <1>3 DEF r
  <2>2. QED
    BY <1>4, <2>1, LeadsTypes
<1>12. PICK m \in Points : Leads(q, text, m) /\ Quiet(m) /\ m.media = q.media
  BY <1>3, <1>10, <1>11, TextIsQuiet
<1>13. PICK o \in Points : Leads(m, body, o) /\ Quiet(o) /\ o.media = m.media
  BY <1>9, <1>12, TextIsQuiet
<1>14. Leads(Point(parser, handed), wire \o text, m)
  BY <1>3, <1>4, <1>10, <1>12, LeadsJoin
<1>15. wire \o text \in Seq(Nat)
  BY <1>4, <1>10, ConcatProperties
<1>16. Leads(Point(parser, handed), (wire \o text) \o body, o)
  BY <1>9, <1>13, <1>14, <1>15, LeadsJoin
<1>17. (wire \o text) \o body \in Seq(Nat)
  BY <1>9, <1>15, ConcatProperties
<1>18. Typed'
  BY <1>2, <1>3, <1>5, <1>7, <1>17 DEF Typed
<1>19. o.media = sent /\ Begins(o.media, sent)
  BY <1>3, <1>4, <1>12, <1>13, BeginsItself
<1>20. Arrives(o)'
  BY <1>2, <1>7, <1>13, <1>16, <1>19 DEF Arrives
<1>21. QED
  BY <1>18, <1>20 DEF Whole

LEMMA SendFrameKeeps ==
  ASSUME Whole, SendFrame
  PROVE  Whole'
<1>1. PICK q : Arrives(q)
  BY DEF Whole
<1>2. PICK f \in [channel : Channels, data : Payloads] :
        /\ wire' = wire \o Frame(f)
        /\ sent' = HandleDataPacket(sent, f.channel, f.data)
  BY DEF SendFrame, HandleDataPacket
<1>3. /\ link = "up" /\ parser' = parser /\ session' = session /\ link' = link
      /\ requests' = requests /\ handed' = handed /\ drops' = drops
  BY DEF SendFrame
<1>4. Typed /\ Leads(Point(parser, handed), wire, q) /\ Quiet(q) /\ q.media = sent
  BY <1>1, <1>3 DEF Whole, Arrives
<1>5. wire \in Seq(Nat) /\ sent \in Seq(Seq(Nat))
  BY <1>4 DEF Typed
<1>6. f.channel \in Nat /\ f.data \in Seq(Nat) /\ Len(f.data) > 0
  <2>1. f.channel \in Channels /\ f.data \in Payloads
    OBVIOUS
  <2> DEFINE c == f.channel
             d == f.data
  <2>2. c \in Channels /\ d \in Payloads
    BY <2>1
  <2> HIDE DEF c, d
  <2>3. Channels \subseteq 0 .. 255
    BY FramesAssumption
  <2>4. d \in Seq(0 .. 255) /\ 0 < Len(d)
    BY <2>2, FramesAssumption
  <2>5. 0 .. 255 \subseteq Nat
    OBVIOUS
  <2>6. d \in Seq(Nat)
    BY <2>4, <2>5, SeqMonotonic
  <2>7. c \in Nat /\ Len(d) > 0
    <3>1. c \in Nat
      BY <2>2, <2>3, <2>5
    <3>2. Len(d) \in Nat
      BY <2>4, LenProperties
    <3>3. QED
      BY <2>4, <3>1, <3>2
  <2>8. QED
    BY <2>6, <2>7 DEF c, d
<1> DEFINE channel == f.channel
           data == f.data
           bytes == Frame(f)
           r == Point(parser, handed)
<1>7. bytes = Frame([channel |-> channel, data |-> data])
  BY DEF Frame
<1>8. channel \in Nat /\ data \in Seq(Nat) /\ Len(data) > 0
  BY <1>6
<1>9. bytes \in Seq(Nat)
  <2> DEFINE n == Len(data)
             header == <<Dollar, channel, n \div 256, n % 256>>
  <2>1. n \in Nat
    BY <1>8, LenProperties
  <2>2. bytes = header \o data
    BY DEF Frame
  <2> HIDE DEF n, channel, data
  <2>3. n \div 256 \in Nat /\ n % 256 \in Nat
    BY <2>1
  <2>4. header \in Seq(Nat)
    BY <1>8, <2>3 DEF Dollar
  <2> HIDE DEF header
  <2>5. QED
    BY <1>8, <2>2, <2>4, ConcatProperties
<1>10. sent' = HandleDataPacket(sent, channel, data) /\ wire' = wire \o bytes
  BY <1>2
<1> HIDE DEF channel, data, bytes
<1>11. sent' \in Seq(Seq(Nat))
  BY <1>5, <1>8, <1>10, HandingGrows
<1>12. wire \o bytes \in Seq(Nat)
  BY <1>5, <1>9, ConcatProperties
<1>13. Typed'
  BY <1>3, <1>4, <1>10, <1>11, <1>12 DEF Typed
<1>14. Leads(r, wire, q)
  BY <1>4
<1> HIDE DEF r
<1>15. q \in Points
  BY <1>5, <1>14, LeadsTypes
<1>16. PICK o \in Points :
         /\ Leads(q, bytes, o) /\ Quiet(o)
         /\ o.media = HandleDataPacket(q.media, channel, data)
  BY <1>4, <1>7, <1>8, <1>15, FrameIsHanded
<1>17. Leads(r, wire \o bytes, o)
  BY <1>5, <1>9, <1>14, <1>16, LeadsJoin
<1>18. o.media = sent'
  BY <1>4, <1>10, <1>16
<1>19. Begins(o.media, sent')
  BY <1>11, <1>18, BeginsItself
<1>20. Arrives(o)'
  BY <1>3, <1>10, <1>16, <1>17, <1>18, <1>19 DEF Arrives, r
<1>21. QED
  BY <1>13, <1>20 DEF Whole

LEMMA DropKeeps ==
  ASSUME Whole, Drop
  PROVE  Whole'
<1>1. PICK q : Arrives(q)
  BY DEF Whole
<1>2. PICK k \in 0 .. Len(wire) : wire' = SubSeq(wire, 1, k)
  BY DEF Drop
<1>3. /\ link' = "broken" /\ drops' = drops + 1 /\ requests' = <<>>
      /\ parser' = parser /\ session' = session /\ sent' = sent /\ handed' = handed
  BY DEF Drop
<1> DEFINE r == Point(parser, handed)
           a == SubSeq(wire, 1, k)
           b == SubSeq(wire, k + 1, Len(wire))
<1>4. Typed /\ Leads(r, wire, q) /\ Begins(q.media, sent)
  BY <1>1 DEF Whole, Arrives
<1>5. wire \in Seq(Nat) /\ drops \in Nat /\ sent \in Seq(Seq(Nat))
  BY <1>4 DEF Typed
<1>6. a \in Seq(Nat) /\ b \in Seq(Nat)
  <2>1. Len(wire) \in Nat
    BY <1>5, LenProperties
  <2>2. /\ 1 \in 1 .. Len(wire) + 1 /\ k + 1 \in 1 .. Len(wire) + 1
        /\ Len(wire) \in 0 .. Len(wire)
    BY <2>1
  <2>3. QED
    BY <1>5, <2>2, BytesOf
<1>7. wire' = a
  BY <1>2
<1> HIDE DEF r
<1>8. PICK m : Leads(r, a, m) /\ Leads(m, b, q)
  BY <1>4, <1>5, LeadsSplit
<1> HIDE DEF a, b
<1>9. Begins(m.media, q.media) /\ m \in Points /\ q \in Points
  BY <1>6, <1>8, LeadsGrows, LeadsTypes
<1>10. Begins(m.media, sent)
  <2>1. m.media \in Seq(Seq(Nat)) /\ q.media \in Seq(Seq(Nat))
    BY <1>9 DEF Points
  <2>2. QED
    BY <1>4, <1>5, <1>9, <2>1, BeginsTransitive
<1>11. Typed'
  <2>1. <<>> \in Seq(Requests)
    OBVIOUS
  <2>2. QED
    BY <1>3, <1>4, <1>5, <1>6, <1>7, <2>1 DEF Typed
<1>12. Arrives(m)'
  BY <1>3, <1>7, <1>8, <1>10 DEF Arrives, r
<1>13. QED
  BY <1>11, <1>12 DEF Whole

LEMMA StreamInvStep ==
  ASSUME StreamInv, [Next]_vars
  PROVE  StreamInv'
<1>1. CASE torn
  <2>1. torn'
    BY <1>1 DEF Next, vars, Connect, Read, Notice, Pause, Play, Call, Shutdown, Serve,
                SendFrame, Drop
  <2>2. QED
    BY <2>1 DEF StreamInv
<1>2. CASE ~ torn
  <2>1. Whole
    BY <1>2 DEF StreamInv
  <2>2. "PLAY" \in Methods /\ "PAUSE" \in Methods /\ "WAIT_PLAY" \in Methods
        /\ "WAIT_PAUSE" \in Methods
    BY DEF Methods
  <2>3. CASE Connect
    BY <2>1, <2>3, ConnectKeeps DEF StreamInv
  <2>4. CASE Read
    BY <2>1, <2>4, ReadKeeps DEF StreamInv
  <2>5. CASE Notice
    BY <2>1, <2>5, NoticeKeeps DEF StreamInv
  <2>6. CASE Pause
    BY <2>1, <2>2, <2>6, CallKeeps DEF Pause, StreamInv
  <2>7. CASE Play
    BY <2>1, <2>2, <2>7, CallKeeps DEF Play, StreamInv
  <2>8. CASE Shutdown
    BY <2>1, <2>8, ShutdownKeeps DEF StreamInv
  <2>9. CASE Serve
    BY <2>1, <2>9, ServeKeeps DEF StreamInv
  <2>10. CASE SendFrame
    BY <2>1, <2>10, SendFrameKeeps DEF StreamInv
  <2>11. CASE Drop
    BY <2>1, <2>11, DropKeeps DEF StreamInv
  <2>12. CASE UNCHANGED vars
    BY <2>1, <2>12 DEF StreamInv, Whole, Typed, Arrives, vars
  <2>13. QED
    BY <2>3, <2>4, <2>5, <2>6, <2>7, <2>8, <2>9, <2>10, <2>11, <2>12 DEF Next
<1>3. QED
  BY <1>1, <1>2

LEMMA WholeFrames ==
  ASSUME StreamInv
  PROVE  FramesAreWhole
<1>1. CASE torn
  BY <1>1 DEF FramesAreWhole
<1>2. CASE ~ torn
  <2>1. Typed /\ \E q : Arrives(q)
    BY <1>2 DEF StreamInv, Whole
  <2>2. PICK q : Arrives(q)
    BY <2>1
  <2> DEFINE r == Point(parser, handed)
  <2>3. /\ wire \in Seq(Nat) /\ sent \in Seq(Seq(Nat)) /\ handed \in Seq(Seq(Nat))
        /\ Leads(r, wire, q) /\ Begins(q.media, sent) /\ r.media = handed
    BY <2>1, <2>2, PointTypes DEF Typed, Arrives
  <2> HIDE DEF r
  <2>4. Begins(r.media, q.media) /\ q \in Points
    BY <2>3, LeadsGrows, LeadsTypes
  <2>5. Begins(handed, sent)
    <3>1. q.media \in Seq(Seq(Nat))
      BY <2>4 DEF Points
    <3>2. QED
      BY <2>3, <2>4, <3>1, BeginsTransitive
  <2>6. IsPrefix(handed, sent)
    BY <2>3, <2>5, BeginsIsPrefix
  <2>7. ASSUME wire = <<>>, link = "up" PROVE handed = sent
    <3>1. r = q
      BY <2>3, <2>7, LeadsNothing
    <3>2. q.media = sent
      BY <2>2, <2>7 DEF Arrives
    <3>3. QED
      BY <2>3, <3>1, <3>2
  <2>8. QED
    BY <2>6, <2>7 DEF FramesAreWhole
<1>3. QED
  BY <1>1, <1>2

\* As long as no connection ended inside a packet, the bytes on their way lead the
\* parser to where everything sent is handed over.
THEOREM StreamArrives == Spec => []StreamInv
<1>1. Init => StreamInv
  BY InitWhole
<1>2. StreamInv /\ [Next]_vars => StreamInv'
  BY StreamInvStep
<1>3. QED
  BY <1>1, <1>2, PTL DEF Spec

\* Whatever the payloads, the channels, the cuts and the losses, the application gets
\* the frames of the two media whole and in order, and all of them once every byte is
\* read.
THEOREM EveryFrameIsWhole == Spec => []FramesAreWhole
<1>1. StreamInv => FramesAreWhole
  BY WholeFrames
<1>2. QED
  BY <1>1, StreamArrives, PTL
=============================================================================
