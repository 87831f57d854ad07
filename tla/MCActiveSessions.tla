-------------------------- MODULE MCActiveSessions --------------------------
(* ActiveSessions with one foreign portal and up to two created ones.      *)
EXTENDS ActiveSessions, TLC
CONSTANTS f1, o1, o2
Symmetric == Permutations({o1, o2})
=============================================================================
