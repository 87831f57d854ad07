---------------------------- MODULE MCHandshake ----------------------------
(* Handshake between two clients.                                          *)
EXTENDS Handshake
CONSTANTS p1, p2
=============================================================================
