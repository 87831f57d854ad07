----------------------------- MODULE MCProxyTcp -----------------------------
(* The proxy channel between two peers a and b.                            *)
EXTENDS ProxyTcp
CONSTANTS a, b
=============================================================================
