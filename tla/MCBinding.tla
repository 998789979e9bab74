----------------------------- MODULE MCBinding -----------------------------
(* Model-checking instance of Binding: two threads on two objects, and two *)
(* services.                                                               *)
EXTENDS Binding
=============================================================================
