--------------------------- MODULE MCMeshSession ---------------------------
(* MeshSession with one remote peer and two reconnects.                    *)
EXTENDS MeshSession
CONSTANTS r1
=============================================================================
