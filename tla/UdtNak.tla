------------------------------- MODULE UdtNak -------------------------------
(***************************************************************************)
(* The lost numbers on their way from the receiver to the sender: the      *)
(* receiver compresses runs of consecutive numbers (sendNakPacket), the    *)
(* sender expands them again (handleNakPacket).  An entry of the packet is *)
(* a number and a mark (the top bit of the 32-bit word): a marked entry    *)
(* opens a run that the next entry closes.                                 *)
(***************************************************************************)
EXTENDS UdtSeq, SequencesExt

VARIABLES
  lost,       \* the numbers to report, in the order of the receiver's loss list
  entries,    \* tmpArray of sendNakPacket, the entries of the packet
  expanded,   \* the numbers handleNakPacket puts on the sender's loss list
  phase

nakVars == <<lost, entries, expanded, phase>>

Entry(seq) == [seq |-> seq, mark |-> FALSE]

MarkLast(list) == [list EXCEPT ![Len(list)].mark = TRUE]
-----------------------------------------------------------------------------
(***************************************************************************)
(* sendNakPacket.  `previous' is the number looked at before (-1: none),   *)
(* `inRun' whether a run is open.                                          *)
(***************************************************************************)
CompressNext(c, seq) ==
  IF c.previous >= 0 /\ ContinuousSeqNumber(c.previous, seq)
  THEN [entries |-> IF c.inRun THEN c.entries ELSE MarkLast(c.entries),
        inRun |-> TRUE, previous |-> seq]
  ELSE [entries |-> c.entries \o (IF c.previous >= 0 THEN <<Entry(c.previous)>> ELSE <<>>)
                              \o <<Entry(seq)>>,
        inRun |-> FALSE, previous |-> seq]

\* Mutant: a run that lasts to the end of the list is not closed.
CompressOpenEnded(list) ==
  FoldLeft(CompressNext, [entries |-> <<>>, inRun |-> FALSE, previous |-> -1], list).entries

Compress(list) ==
  LET c == FoldLeft(CompressNext, [entries |-> <<>>, inRun |-> FALSE, previous |-> -1], list)
  IN  IF c.inRun THEN Append(c.entries, Entry(c.previous)) ELSE c.entries

(***************************************************************************)
(* handleNakPacket.  `begin' is the number that opened a run (-1: none).   *)
(***************************************************************************)

ExpandNext(e, entry) ==
  IF e.begin >= 0
  THEN [begin |-> -1,
        numbers |-> e.numbers \cup {entry.seq}
                      \cup SeqRange(IncreaseSeqNumber(e.begin), entry.seq)]
  ELSE [begin |-> IF entry.mark THEN entry.seq ELSE -1,
        numbers |-> e.numbers \cup {entry.seq}]

Expand(list) == FoldLeft(ExpandNext, [begin |-> -1, numbers |-> {}], list).numbers
-----------------------------------------------------------------------------
\* Any of the window's numbers may be missing, listed from the oldest on.
LossLists ==
  LET all == [k \in 1 .. Packets |-> IncreaseSeqNumberBy(InitSeq, k)]
  IN  { FoldLeft(LAMBDA list, seq : IF seq \in S THEN Append(list, seq) ELSE list, <<>>, all)
          : S \in SUBSET PeerSeqs }

NakInit == lost \in LossLists /\ entries = <<>> /\ expanded = {} /\ phase = "lost"

SendNakPacket ==
  /\ phase = "lost"
  /\ entries' = Compress(lost)
  /\ phase' = "sent"
  /\ UNCHANGED <<lost, expanded>>

HandleNak ==
  /\ phase = "sent"
  /\ expanded' = Expand(entries)
  /\ phase' = "handled"
  /\ UNCHANGED <<lost, entries>>

NakSpec == NakInit /\ [][SendNakPacket \/ HandleNak]_nakVars
-----------------------------------------------------------------------------
\* The sender's loss list gets exactly the numbers the receiver reported, whatever
\* runs and single numbers they are; except where the numbering starts again: 0 is
\* taken to continue MaxSeq - 1, so that MaxSeq comes with a run across it.
LossesArriveExactly ==
  phase = "handled" =>
    \/ expanded = Range(lost)
    \/ /\ expanded = Range(lost) \cup {MaxSeq}
       /\ {MaxSeq - 1, 0} \subseteq Range(lost)

\* UDTSocket.cpp:304: the numbers are compressed into one packet; tmpArray has
\* an element for each number of the list.
EntriesFitTheArray == Len(entries) <= Len(lost)

=============================================================================
