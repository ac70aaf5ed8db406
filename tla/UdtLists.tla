------------------------------ MODULE UdtLists ------------------------------
(***************************************************************************)
(* The list operations of the UDT transport, element by element: a list of *)
(* sequence numbers is kept in the order of the window it belongs to, and  *)
(* the code scans it from the front.  ReceiveGlideWindow::tryReceivePacket,*)
(* ReceiveLossList::addLossPacket and SendLossList::addLossList contain    *)
(* the same scan.                                                          *)
(***************************************************************************)
EXTENDS UdtSeq, SequencesExt, FiniteSetsExt

\* Once the window has wrapped, numbers beyond its left edge count as negative.
\* They are negated (~s + 1), not shifted by MaxSeq + 1.
Negated(seq, left) == IF seq > left THEN -seq ELSE seq

\* Does the scan stop in front of ele when it looks for the place of seq?
StopsBefore(seq, ele, left, right) ==
  IF left < right THEN seq < ele ELSE Negated(seq, left) < Negated(ele, left)

\* Mutant: the list grows at its end.
InsertLast(list, seq, left, right) ==
  IF seq \in Range(list) THEN list ELSE Append(list, seq)

\* Insert seq where the scan stops, unless it stops at seq itself.
SortedInsert(list, seq, left, right) ==
  LET stops == { i \in DOMAIN list :
                   list[i] = seq \/ StopsBefore(seq, list[i], left, right) }
      at    == Min(stops \cup {Len(list) + 1})
  IN  IF at \in DOMAIN list /\ list[at] = seq THEN list ELSE InsertAt(list, at, seq)

\* The numbers from, from + 1, ... before to, in the order a loop visits them.
LoopOver(from, to) ==
  [i \in 1 .. Cardinality(SeqRange(from, to)) |-> IncreaseSeqNumberBy(from, i - 1)]

\* A loop that inserts every number from `from' up to, not including, `to'.
InsertRange(list, from, to, left, right) ==
  FoldLeft(LAMBDA l, s : SortedInsert(l, s, left, right), list, LoopOver(from, to))

=============================================================================
