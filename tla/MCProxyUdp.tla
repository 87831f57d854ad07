----------------------------- MODULE MCProxyUdp -----------------------------
(* Two sources of peer d, and a gated port.                                  *)
EXTENDS ProxyUdp
CONSTANTS d, x, y
=============================================================================
