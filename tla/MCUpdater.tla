----------------------------- MODULE MCUpdater ------------------------------
(* Release 1.0, its candidates rc9 and rc10, and release 2.0.                *)
EXTENDS Updater

V(core, pre) == [core |-> core, pre |-> pre]
MCVersion == {V(1, 1), V(1, 2), V(1, 0), V(2, 0)}

\* As strings, rc10 comes before rc9.
MCSpelling == <<2, 1>>
=============================================================================
