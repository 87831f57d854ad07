------------------------------ MODULE MCAccount ------------------------------
(* Three identities of one device, whose users enter two portals.                   *)
EXTENDS Account, TLC
CONSTANTS p1, p2
Symmetry == Permutations(Portal)
=============================================================================
