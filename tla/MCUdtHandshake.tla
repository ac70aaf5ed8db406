--------------------------- MODULE MCUdtHandshake ---------------------------
(* Model of UdtHandshake for TLC: the clients are two sockets of one host, *)
(* or the first socket of each of two hosts.  Every multiplexer counts its *)
(* socket ids from 1, so the latter have the same id.                      *)
EXTENDS UdtHandshake

OneHost == { [host |-> "a", id |-> 1], [host |-> "a", id |-> 2] }
TwoHosts == { [host |-> "a", id |-> 1], [host |-> "b", id |-> 1] }
OneClient == { [host |-> "a", id |-> 1] }
=============================================================================
