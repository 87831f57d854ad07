------------------------------ MODULE MCProbes ------------------------------
(* Two bandwidth probes and a ping at a time.                                       *)
EXTENDS Probes
CONSTANTS c1, c2, t1
=============================================================================
