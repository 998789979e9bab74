-------------------------- MODULE MCConnPoolSingle --------------------------
(* Model-checking instance of ConnPoolSingle: two callers, two states, so  *)
(* one Reset, and two dials.                                               *)
EXTENDS ConnPoolSingle
=============================================================================
