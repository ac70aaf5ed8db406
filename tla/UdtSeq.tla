------------------------------- MODULE UdtSeq -------------------------------
(***************************************************************************)
(* The sequence numbers of the UDT transport (udt/GlideWindow.h): packets  *)
(* are numbered 0 .. MaxSeq and the numbering starts again at 0.  In the   *)
(* program MaxSeq is INT32_MAX, so that MaxSeq + 1 overflows an int32_t:   *)
(* no sequence number is equal to it.                                      *)
(***************************************************************************)
EXTENDS Integers

CONSTANTS
  MaxSeq,    \* UDTBasePacket::SEQUENCE_NUMBER_MAX
  InitSeq,   \* the number one side announced in its SYN packet, chosen at random
  Packets    \* bound: packets that side sends, numbered InitSeq+1, InitSeq+2, ...

SeqNumbers == 0 .. MaxSeq

ASSUME SeqAssumption ==
  /\ MaxSeq \in Nat \ {0}
  /\ InitSeq \in SeqNumbers
  /\ Packets \in Nat \ {0}

(***************************************************************************)
(* The test increments its first argument before both comparisons, so the  *)
(* second one asks whether `old' is MaxSeq - 1.                            *)
(***************************************************************************)
ContinuousSeqNumber(old, seq) ==
  \/ seq = old + 1
  \/ old + 1 = MaxSeq /\ seq = 0

IncreaseSeqNumber(seq) == IF seq = MaxSeq THEN 0 ELSE seq + 1

\* The 32-bit sum of the code is negative exactly when it exceeds MaxSeq.
IncreaseSeqNumberBy(seq, offset) ==
  IF seq + offset > MaxSeq THEN seq + offset - MaxSeq - 1 ELSE seq + offset

DecreaseSeqNumber(seq) == IF seq = 0 THEN MaxSeq ELSE seq - 1

\* The numbers of the connection's packets.
PeerSeqs == { IncreaseSeqNumberBy(InitSeq, k) : k \in 1 .. Packets }

\* The numbers a loop visits that starts at `from', increases, and stops at `to'.
SeqRange(from, to) ==
  IF from <= to THEN from .. (to - 1) ELSE (from .. MaxSeq) \cup (0 .. (to - 1))

=============================================================================
