---------------------------- MODULE BoxLifecycle ----------------------------
(***************************************************************************)
(* Box (box.go): the stages in which the components of an instance are     *)
(* started, the failures that can cut the start short at any of them, and  *)
(* the order in which Close takes what was started down again.  The        *)
(* managers (adapter/*/manager.go, dns/transport_manager.go) start the     *)
(* items they hold and close them only if they were started themselves.    *)
(* Module Box runs these steps.                                            *)
(***************************************************************************)
EXTENDS Naturals, Sequences

VARIABLES
  phase,     \* "created", "starting", "failed", "unwinding" (Start closes the box itself),
             \* "started" (Start returned nil), "closing", "closed", "panicked"
  step,      \* steps of the plan taken
  closed,    \* steps of CloseOrder taken
  done,      \* s.done is closed
  cancelled, \* s.ctx is cancelled
  stage,     \* the last stage a component was started at; 0 before that
  started,   \* components whose manager has started = true
  live       \* components whose items are at work

boxVars == <<phase, step, closed, done, cancelled, stage, started, live>>

\* Start stages.
Initialize == 1
Start == 2
PostStart == 3

Started == 4

\* adapter.Start with one stage and a list of components.
At(n, components) == [i \in DOMAIN components |-> [stage |-> n, component |-> components[i]]]

\* s.internalService.  "base" stands for the certificate store, the network namespaces, the
\* traffic manager and the Clash modes.
Internal == <<"base", "cache-file", "clash-api", "v2ray-api", "ntp">>

\* preStart.
PrePlan ==
  At(Start, <<"log", "debug">>)
  \o At(Initialize, Internal)
  \o At(Initialize, <<"network", "dns-transport", "dns-router", "connection", "router",
                      "outbound", "inbound", "endpoint", "service", "certificate">>)
  \o At(Start, <<"outbound", "dns-transport", "network", "connection", "httpclient", "router", "dns-router">>)

\* start: preStart and what follows it.
Plan ==
  PrePlan
  \o At(Start, Internal)
  \o At(Start, <<"endpoint", "certificate", "inbound", "service">>)
  \o At(PostStart, <<"outbound", "network", "dns-transport", "dns-router", "connection",
                     "router", "endpoint", "certificate", "inbound", "service">> \o Internal)
  \o At(Started, <<"network", "dns-transport", "dns-router", "connection", "router", "outbound",
                   "endpoint", "certificate", "inbound", "service">> \o Internal)

\* Mutant: the internal services are closed first, as they were started first.
CloseOrderInternalFirst ==
  <<"debug">> \o Internal
  \o <<"service", "inbound", "certificate", "endpoint", "outbound", "router", "connection",
       "dns-router", "dns-transport", "network", "httpclient", "log">>

\* Close.
CloseOrder ==
  <<"debug", "service", "inbound", "certificate", "endpoint", "outbound", "router", "connection",
    "dns-router", "dns-transport", "network", "httpclient">>
  \o Internal \o <<"log">>

Components ==
  {"log", "debug", "base", "cache-file", "clash-api", "v2ray-api", "ntp", "network", "dns-transport",
   "dns-router", "connection", "router", "outbound", "inbound", "endpoint", "service", "certificate",
   "httpclient"}

BoxTypeOK ==
  /\ phase \in {"created", "starting", "failed", "unwinding", "started", "closing", "closed", "panicked"}
  /\ step \in 0..Len(Plan) /\ closed \in 0..Len(CloseOrder)
  /\ done \in BOOLEAN /\ cancelled \in BOOLEAN
  /\ stage \in [Components -> 0..4]
  /\ started \in SUBSET Components /\ live \in SUBSET Components

BoxInit ==
  /\ phase = "created"
  /\ step = 0 /\ closed = 0
  /\ done = FALSE /\ cancelled = FALSE
  /\ stage = [c \in Components |-> 0]
  /\ started = {} /\ live = {}

\* Box.Start or Box.PreStart is called.
CallStart ==
  /\ phase = "created"
  /\ phase' = "starting"
  /\ UNCHANGED <<step, closed, done, cancelled, stage, started, live>>

\* Components of the plan that check the context before they start.
Checked(c) == c \notin {"log", "debug"}

\* The stage at which a component gets to work: the cache file is opened and the monitors of
\* the network run when they are initialized; the V2Ray API listens after most have started,
\* the Clash API after all have.
WorksFrom(c) ==
  CASE c \in {"base", "cache-file", "network"} -> Initialize
    [] c = "v2ray-api" -> PostStart
    [] c = "clash-api" -> Started
    [] OTHER -> Start

\* What a stage puts to work: the endpoints are started by the outbound manager, which
\* knows their dependencies, and not by their own.
Starts(s) ==
  IF s.stage # WorksFrom(s.component) \/ s.component = "endpoint" THEN {}
  ELSE IF s.component = "outbound" THEN {"outbound", "endpoint"} ELSE {s.component}

\* The manager of the next component records the stage before it starts an item.
Take(s) ==
  /\ phase = "starting" /\ step < Len(Plan)
  /\ ~(cancelled /\ Checked(s.component))
  /\ stage' = [stage EXCEPT ![s.component] = s.stage]
  /\ started' = started \cup {s.component}
  /\ step' = step + 1
  /\ UNCHANGED <<closed, done, cancelled>>

StartComponent ==
  /\ step < Len(Plan) /\ Take(Plan[step + 1])
  /\ live' = live \cup Starts(Plan[step + 1])
  /\ UNCHANGED phase

\* An item fails, after some of the others were started.
StartFails ==
  /\ step < Len(Plan) /\ Take(Plan[step + 1])
  /\ \E some \in SUBSET Starts(Plan[step + 1]) : live' = live \cup some
  /\ phase' = "failed"

\* adapter.Start finds the context cancelled.
StartCancelled ==
  /\ phase = "starting" /\ step < Len(Plan)
  /\ cancelled /\ Checked(Plan[step + 1].component)
  /\ phase' = "failed"
  /\ UNCHANGED <<step, closed, done, cancelled, stage, started, live>>

\* PreStart returns after its part of the plan, Start at the end.
StartReturns ==
  /\ phase = "starting" /\ step \in {Len(PrePlan), Len(Plan)}
  /\ phase' = "started"
  /\ UNCHANGED <<step, closed, done, cancelled, stage, started, live>>

\* The owner cancels the context, at any time.
Cancel ==
  /\ ~cancelled /\ cancelled' = TRUE
  /\ UNCHANGED <<phase, step, closed, done, stage, started, live>>

\* Mutant: the caller that got the error is to close the box.
FailClosesNot ==
  /\ phase = "failed"
  /\ phase' = "closed"
  /\ UNCHANGED <<step, closed, done, cancelled, stage, started, live>>

\* Start closes the box itself before it returns the error.
FailCloses ==
  /\ phase = "failed"
  /\ phase' = "unwinding" /\ done' = TRUE
  /\ UNCHANGED <<step, closed, cancelled, stage, started, live>>

\* Close of a box that was started, or only created (CheckConfig).
Close ==
  /\ phase \in {"created", "started"} /\ ~done
  /\ phase' = "closing" /\ done' = TRUE
  /\ UNCHANGED <<step, closed, cancelled, stage, started, live>>

\* Close of the next component.  A manager that was not started closes nothing.
Closing == phase \in {"closing", "unwinding"} /\ closed < Len(CloseOrder)

CloseComponent ==
  /\ Closing
  /\ LET c == CloseOrder[closed + 1] IN
       /\ started' = started \ {c}
       /\ live' = live \ ({c} \cap started)
  /\ closed' = closed + 1
  /\ UNCHANGED <<phase, step, done, cancelled, stage>>

\* A component panics as it is closed, and the ones after it are not closed.  A Start that
\* was closing the box recovers, and returns nil as if it had succeeded, though every Close
\* from now on returns os.ErrClosed; PreStart, which ends before Start does, and Close itself
\* leave the panic to their callers.
ClosePanics ==
  /\ Closing
  /\ LET c == CloseOrder[closed + 1] IN
       /\ c \in started /\ started' = started \ {c}
       /\ live' \in {live, live \ {c}}
  /\ \/ phase = "unwinding" /\ phase' = "started"
     \/ (phase = "closing" \/ step <= Len(PrePlan)) /\ phase' = "panicked"
  /\ closed' = closed + 1
  /\ UNCHANGED <<step, done, cancelled, stage>>

CloseReturns ==
  /\ phase \in {"closing", "unwinding"} /\ closed = Len(CloseOrder)
  /\ phase' = "closed"
  /\ UNCHANGED <<step, closed, done, cancelled, stage, started, live>>

\* The steps of a start, and of Close.
StartStep == StartComponent \/ StartFails \/ StartCancelled \/ StartReturns
CloseStep == FailCloses \/ CloseComponent \/ ClosePanics \/ CloseReturns

----------------------------------------------------------------------------
\* What a connection, once accepted, may be routed through.
Path == {"router", "dns-router", "dns-transport", "outbound", "connection", "network",
         "httpclient", "cache-file", "base", "log"}

\* What must be at work while a component is.  The outbounds are not among what the router
\* and the DNS servers need, which outlive them: what is left to route or to ask is over.
Needs(c) ==
  CASE c \in {"inbound", "service"} -> Path \cup {"certificate"}
    [] c \in {"endpoint", "clash-api"} -> Path
    [] c \in {"certificate", "ntp"} ->
         {"outbound", "dns-router", "dns-transport", "network", "httpclient", "cache-file", "base", "log"}
    [] c = "router" -> {"dns-transport", "connection", "network", "httpclient", "cache-file", "base", "log"}
    [] c = "dns-router" -> {"dns-transport", "network", "httpclient", "cache-file", "base", "log"}
    [] c \in {"base", "cache-file", "v2ray-api", "debug"} -> {"log"}
    [] c = "log" -> {}
    [] c \in {"outbound", "dns-transport"} -> {"network", "cache-file", "base", "log"}
    [] OTHER -> {"cache-file", "base", "log"}

\* Components that Close has come to.
Gone == {CloseOrder[i] : i \in 1..closed}
=============================================================================
