---------------------------- MODULE MCConnections ----------------------------
(* Model-checking instance of Connections: one of the two outbounds is a    *)
(* group; one connection, of any kind, and two selections that overlap.     *)
EXTENDS Connections
=============================================================================
