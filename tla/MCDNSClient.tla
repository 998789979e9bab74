---------------------------- MODULE MCDNSClient ----------------------------
(* Model-checking instance of DNSClient: three calls that overlap, two      *)
(* environments beside the unknown one, and one change of environment.      *)
EXTENDS DNSClient

Plain == [kind |-> "exchange", cached |-> TRUE, optimistic |-> FALSE, checked |-> FALSE, loops |-> FALSE]
MCRequests ==
  {[Plain EXCEPT !.kind = "async", !.checked = TRUE],
   [Plain EXCEPT !.kind = "lookup", !.optimistic = TRUE],
   [Plain EXCEPT !.cached = FALSE, !.loops = TRUE]}
=============================================================================
