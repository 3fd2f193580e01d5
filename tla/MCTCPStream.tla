---------------------------- MODULE MCTCPStream ----------------------------
(* Model checking instance of TCPStream: two messages of a connection, both with the *)
(* header Connect, and one of another.                                               *)
EXTENDS TCPStream

CONSTANTS first, second

MCLength == <<2, 2, 1>>
MCTarget == <<first, first, second>>
=============================================================================
