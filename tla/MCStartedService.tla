-------------------------- MODULE MCStartedService --------------------------
(* Model-checking instance of StartedService: three calls that overlap in  *)
(* every way, a stream in followInstance and one in waitForStarted, with   *)
(* buffers small enough to be full.                                        *)
EXTENDS StartedService
=============================================================================
