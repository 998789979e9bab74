--------------------------- MODULE MCFakeIPStore ---------------------------
(* Three domains for two addresses, two calls, two lives: see the cfg. *)
EXTENDS FakeIPStore
============================================================================
