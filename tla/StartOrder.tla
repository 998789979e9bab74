----------------------------- MODULE StartOrder -----------------------------
(***************************************************************************)
(* The start of the outbounds (adapter/outbound/manager.go): the choice of *)
(* the default outbound when the manager is initialized, and               *)
(* startOutbounds, which starts outbounds and endpoints so that the ones   *)
(* they dial through (their Dependencies) come first, and otherwise looks  *)
(* for what to blame.  startTransports (dns/transport_manager.go) is the   *)
(* same loop, without endpoints.  Module Box runs these steps.             *)
(***************************************************************************)
EXTENDS Naturals, Sequences, SequencesExt, FiniteSets

CONSTANTS
  OutboundLists,  \* the lists of tags the configuration may give to outbounds
  EndpointLists,  \* the lists of tags the configuration may give to endpoints
  Absent,         \* a tag that no outbound or endpoint has
  Direct          \* "direct", the tag of the fallback outbound

None == "none"

Tags == UNION {Range(list) : list \in OutboundLists \cup EndpointLists} \cup {Direct}

VARIABLES
  outbounds,  \* m.outbounds, tags in order
  endpoints,  \* the tags of m.endpoint.Endpoints(), in order
  deps,       \* Dependencies() of each tag
  final,      \* m.defaultTag
  default,    \* m.defaultOutbound
  result,     \* "created", "running", "lint", and the outcomes
  order,      \* tags in the order they were started
  at,         \* position of the loop over the list
  progress,   \* canContinue
  tree        \* oTree of lintOutbound

vars == <<outbounds, endpoints, deps, final, default, result, order, at, progress, tree>>

Outcomes == {"ok", "failed", "circular", "notfound", "nodefault", "panic"}
Distinct(s) == \A i, j \in DOMAIN s : s[i] = s[j] => i = j

\* The list startOutbounds is given.
List == outbounds \o endpoints
Running(t) == t \in Range(order)

TypeOK ==
  /\ outbounds \in Seq(Tags) /\ endpoints \in Seq(Tags)
  /\ deps \in [Tags -> SUBSET (Tags \cup {Absent})]
  /\ final \in Tags \cup {Absent, None} /\ default \in Tags \cup {None}
  /\ result \in {"created", "running", "lint"} \cup Outcomes
  /\ order \in Seq(Tags) /\ Len(order) <= Len(List)
  /\ at \in 1..(Len(List) + 1) /\ progress \in BOOLEAN
  /\ tree \in Seq(Tags \cup {Absent})

\* What an outbound may depend on: up to two tags, there or not.
Dependencies(o, e) ==
  {d \in SUBSET (Range(o \o e) \cup {Absent} \cup (IF o = <<>> THEN {Direct} ELSE {})) : Cardinality(d) <= 2}

\* checkOutbounds: the tags of outbounds and endpoints are distinct.
CheckOutbounds(o, e) == Distinct(o \o e)

\* What the configuration is does not show before Initialize.
Init ==
  /\ outbounds = <<>> /\ endpoints = <<>> /\ deps = [t \in Tags |-> {}]
  /\ final = None /\ default = None
  /\ result = "created" /\ order = <<>> /\ at = 1 /\ progress = FALSE /\ tree = <<>>

\* Create: the default outbound is the one of the configured tag, or the first.
Created(o, f) == IF f \in Range(o) THEN f ELSE IF f = None /\ o # <<>> THEN o[1] ELSE None

\* Start(StartStateInitialize) of what New has created: the default outbound is the
\* configured endpoint, an outbound found earlier, or a direct one made for the purpose,
\* which may fail, as may the outbounds when they are initialized.
Initialize ==
  /\ result = "created"
  /\ \E o \in OutboundLists, e \in EndpointLists :
       /\ CheckOutbounds(o, e)
       /\ \E f \in {None, Absent} \cup Range(o \o e) :
            LET fallback == f = None /\ o = <<>>
                found == Created(o, f) # None \/ fallback \/ f \in Range(e)
            IN  /\ final' = f /\ endpoints' = e
                /\ \/ ~found /\ result' = "nodefault" /\ default' = None /\ outbounds' = o
                   \/ fallback /\ result' = "failed" /\ default' = None /\ outbounds' = o
                   \/ /\ found /\ result' \in {"running", "failed"}
                      /\ default' = IF fallback THEN Direct
                                    ELSE IF Created(o, f) = None THEN f ELSE Created(o, f)
                      /\ outbounds' = IF fallback THEN Append(o, Direct) ELSE o
       /\ \E d \in [Range(o \o e) -> Dependencies(o, e)] :
            deps' = [t \in Tags |-> IF t \in Range(o \o e) THEN d[t] ELSE {}]
  /\ UNCHANGED <<order, at, progress, tree>>

\* Mutant: one dependency is enough.
ReadyOne(t) == deps[t] = {} \/ \E d \in deps[t] : Running(d)

Ready(t) == \A d \in deps[t] : Running(d)

\* Started by its tag already, or not ready yet.
Skip ==
  /\ result = "running" /\ at <= Len(List)
  /\ Running(List[at]) \/ ~Ready(List[at])
  /\ at' = at + 1
  /\ UNCHANGED <<outbounds, endpoints, deps, final, default, result, order, progress, tree>>

StartOne ==
  /\ result = "running" /\ at <= Len(List)
  /\ ~Running(List[at]) /\ Ready(List[at])
  /\ order' = Append(order, List[at])
  /\ progress' = TRUE /\ at' = at + 1
  /\ result' \in {"running", "failed"}
  /\ UNCHANGED <<outbounds, endpoints, deps, final, default, tree>>

\* Mutant: the loop is not left after a pass without progress.
PassEndsAlways ==
  /\ result = "running" /\ at > Len(List)
  /\ at' = 1 /\ progress' = FALSE
  /\ result' = IF Len(order) = Len(List) THEN "ok" ELSE result
  /\ UNCHANGED <<outbounds, endpoints, deps, final, default, order, tree>>

\* The end of a pass.  Nothing left to start although the count differs: the
\* method is called on the nil interface that Find returns.
PassEnds ==
  /\ result = "running" /\ at > Len(List)
  /\ at' = 1 /\ progress' = FALSE
  /\ LET left == SelectSeq(List, LAMBDA t : ~Running(t)) IN
       \/ Len(order) = Len(List) /\ result' = "ok" /\ UNCHANGED tree
       \/ Len(order) # Len(List) /\ progress /\ UNCHANGED <<result, tree>>
       \/ Len(order) # Len(List) /\ ~progress /\ left = <<>> /\ result' = "panic" /\ UNCHANGED tree
       \/ Len(order) # Len(List) /\ ~progress /\ left # <<>> /\ result' = "lint" /\ tree' = <<left[1]>>
  /\ UNCHANGED <<outbounds, endpoints, deps, final, default, order>>

\* lintOutbound: follow a dependency that is not started until the path closes
\* or leaves m.outboundByTag.  Which of several is followed depends on their
\* order in Dependencies().  The tag that ended the search is kept at the end of tree.
Lint ==
  /\ result = "lint"
  /\ \E problem \in deps[Last(tree)] \ Range(order) :
       /\ tree' = Append(tree, problem)
       /\ result' = IF problem \in Range(tree) THEN "circular"
                    ELSE IF problem \notin Range(outbounds) THEN "notfound" ELSE "lint"
  /\ UNCHANGED <<outbounds, endpoints, deps, final, default, order, at, progress>>

StartOutbounds == Skip \/ StartOne \/ PassEnds \/ Lint

----------------------------------------------------------------------------
(* Properties. *)

\* Nothing is started before everything it dials through.
DependenciesFirst ==
  \A i \in DOMAIN order : deps[order[i]] \subseteq {order[j] : j \in 1..(i - 1)}

\* There is an order in which all can be started: a rank that grows along
\* the dependencies, all of which exist.
Startable ==
  \E rank \in [Range(List) -> 1..Len(List)] :
    \A t \in Range(List) : \A d \in deps[t] : d \in Range(List) /\ rank[d] < rank[t]

\* startOutbounds tells right: it succeeds with everything started, and it blames
\* the dependencies only when no order would do.  Nothing but a tag that is there
\* twice makes it panic.
VerdictRight ==
  /\ result = "ok" => Startable /\ Range(order) = Range(List)
  /\ result \in {"circular", "notfound"} => ~Startable
  /\ result = "nodefault" => final \notin Range(List)
  /\ result = "panic" => ~Distinct(List)
=============================================================================
