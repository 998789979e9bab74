----------------------------- MODULE MCNetwork -----------------------------
(* Model-checking instance of Network: two probes, a reset of the DNS       *)
(* transports and any number of changes of the network.                     *)
EXTENDS Network
=============================================================================
