------------------------- MODULE MCTransportManager -------------------------
(* Model-checking instance of TransportManager: up to three servers over   *)
(* three tags, so that tags repeat, and the fallback.                      *)
EXTENDS TransportManager
=============================================================================
