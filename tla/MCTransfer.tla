----------------------------- MODULE MCTransfer -----------------------------
(* Peers a and b each send a file of one name to a third peer.              *)
EXTENDS Transfer
CONSTANTS a, b, n
OneEach == {a, b} \X {1}
=============================================================================
