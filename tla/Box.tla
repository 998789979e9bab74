-------------------------------- MODULE Box --------------------------------
(***************************************************************************)
(* An instance (box.go) with its outbound manager                          *)
(* (adapter/outbound/manager.go): BoxLifecycle, in which two steps of the  *)
(* plan, the outbound manager at StartStateInitialize and StartStateStart, *)
(* are the steps of StartOrder.                                            *)
(***************************************************************************)
EXTENDS BoxLifecycle, SequencesExt

CONSTANTS OutboundLists, EndpointLists, Absent, Direct

VARIABLES outbounds, endpoints, deps, final, default, result, order, at, progress, tree

O == INSTANCE StartOrder

outboundVars == <<outbounds, endpoints, deps, final, default, result, order, at, progress, tree>>
vars == <<boxVars, outboundVars>>

TypeOK ==
  /\ BoxTypeOK
  /\ O!TypeOK

Init == BoxInit /\ O!Init

\* The next component of the plan is the outbound manager, at stage n.
OutboundAt(n) ==
  phase = "starting" /\ step < Len(Plan) /\ Plan[step + 1] = [stage |-> n, component |-> "outbound"]

\* startOutbounds runs.
Busy == stage["outbound"] = Start /\ phase = "starting" /\ result \in {"running", "lint"}

OutboundInitialize ==
  /\ OutboundAt(Initialize) /\ O!Initialize
  /\ IF result' = "running" THEN StartComponent ELSE StartFails

OutboundStart ==
  /\ OutboundAt(Start) /\ Take(Plan[step + 1])
  /\ UNCHANGED <<phase, live, outboundVars>>

\* Which managers have items at work: of an outbound and an endpoint with the same tag, the
\* outbound was started.  When all are started the outbound manager counts, even if all it
\* has is endpoints.
Working(tags) ==
  {m \in {"outbound", "endpoint"} :
     tags \cap (IF m = "outbound" THEN Range(outbounds) ELSE Range(endpoints) \ Range(outbounds)) # {}}

\* A panic passes through Box.Start, which closes nothing: what was started stays at work in a
\* process that recovers, as the Python binding does.
OutboundStep ==
  /\ Busy /\ O!StartOutbounds
  /\ live' = live \cup Working(Range(order')) \cup (IF result' = "ok" THEN {"outbound"} ELSE {})
  /\ phase' = IF result' = "panic" THEN "panicked"
              ELSE IF result' \in O!Outcomes \ {"ok"} THEN "failed" ELSE "starting"
  /\ UNCHANGED <<step, closed, done, cancelled, stage, started>>

\* Once startOutbounds has returned, or will not be called, nothing in the model looks
\* at its state.
Forget ==
  /\ outbounds' = <<>> /\ endpoints' = <<>> /\ deps' = [t \in O!Tags |-> {}]
  /\ final' = O!None /\ default' = O!None
  /\ result' = "created" /\ order' = <<>> /\ at' = 1 /\ progress' = FALSE /\ tree' = <<>>

Rest ==
  /\ ~Busy
  /\ \/ ~OutboundAt(Initialize) /\ ~OutboundAt(Start) /\ StartStep
     \/ StartCancelled \/ CloseStep
  /\ IF phase' = "starting" /\ stage["outbound"] # Start THEN UNCHANGED outboundVars ELSE Forget

Called == (CallStart \/ Cancel \/ Close) /\ UNCHANGED outboundVars

\* A box whose Close was called once is not closed again, Close returns os.ErrClosed; and
\* nobody closes one whose start panicked.
Over == phase \in {"closed", "panicked"} \/ (phase = "started" /\ done)

Stays == Over /\ UNCHANGED vars

Next == OutboundInitialize \/ OutboundStart \/ OutboundStep \/ Rest \/ Called \/ Stays

Spec == Init /\ [][Next]_vars

\* The goroutine that starts or closes the box runs.
FairSpec == Spec /\ WF_vars(OutboundInitialize \/ OutboundStart \/ OutboundStep \/ Rest)

----------------------------------------------------------------------------
(* Properties. *)

\* While an inbound or a service accepts traffic, everything it is routed through is at
\* work, and so is the cache file while anything loads from it or saves to it: the order of
\* the stages fits the order of Close, at every point where a start can fail.  The order has
\* two gaps, which are excepted.  An endpoint is started with the outbounds and may accept
\* traffic before the router is started, but never after anything it uses was closed.  The
\* Clash API and the NTP service start when what they use is at work, but are closed after it.
Backed ==
  \A c \in live : \A n \in Needs(c) \ live :
    (c = "endpoint" /\ n \notin Gone) \/ (c \in {"clash-api", "ntp"} /\ n \in Gone)

\* A box that is closed, also because its start failed or was cancelled at any point, leaves
\* nothing at work: not the endpoints either, which the outbound manager starts and another
\* closes, nor the outbounds before one that failed.  A start or a Close that panics is not
\* covered: it does not end in "closed", and what was at work stays so.
ClosedReleases == phase = "closed" => live = {}

\* startOutbounds starts nothing before everything it dials through, succeeds with
\* everything started, and blames the dependencies only when no order would do.
StartsInOrder == O!DependenciesFirst /\ O!VerdictRight

\* A start ends, whatever the dependencies: Start returns nil, or it has closed the box and
\* returns an error, or it panics, in startOutbounds over a tag that is there twice or as it
\* closes the box.
StartEnds == (phase = "starting") ~> (phase \in {"started", "closed", "panicked"})
=============================================================================
