--------------------------- MODULE ReliableStream ---------------------------
(***************************************************************************)
(* What one direction of a UDT connection promises its two applications:   *)
(* the packets accepted from the one are handed to the other without a     *)
(* gap, none before it was accepted.  A packet is its position in the      *)
(* stream.                                                                 *)
(***************************************************************************)
EXTENDS Integers

VARIABLES
  accepted,   \* how many packets were taken from the sending application
  handed      \* the positions handed to the receiving application

Init == accepted = 0 /\ handed = {}

Accept == accepted' \in Nat /\ accepted' >= accepted /\ handed' = handed

\* A step may hand over several packets; what was handed over stays so.
Hand == /\ \E n \in 1 .. accepted : handed' = 1 .. n /\ handed \subseteq handed'
        /\ accepted' = accepted

Next == Accept \/ Hand

Spec == Init /\ [][Next]_<<accepted, handed>>

=============================================================================
