----------------------------- MODULE MCExposes ------------------------------
(* A port shared for tcp and udp.                                            *)
EXTENDS Exposes, TLC
CONSTANTS s1, c1, c2, c3, tcp, udp
Alike == Permutations(Call) \union Permutations(Proto)
=============================================================================
