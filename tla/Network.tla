------------------------------ MODULE Network ------------------------------
(***************************************************************************)
(* The network manager (route/network.go) over a DNS multiplexer that      *)
(* probes whether connections can be reused (dns/transport/multiplexer.go):*)
(* the resets that a change of network owes reach the multiplexer while    *)
(* its probes, started on one network or another, are under way.           *)
(***************************************************************************)
EXTENDS ReuseProbe

VARIABLES
  iface, notifying, startedCtx, pending, paused, waiting, runner, rpc, live,
  posting, timer, fired, updater, seen, environment, closer,
  present,  \* history: probes that were started on the present network
  learned   \* history: reuse works, and the probe that found so was started there too

N == INSTANCE NetworkManager

managerVars ==
  <<iface, notifying, startedCtx, pending, paused, waiting, runner, rpc, live,
    posting, timer, fired, updater, seen, environment, closer>>
networkVars == <<managerVars, vars, present, learned>>

NetworkTypeOK == TypeOK /\ N!NetTypeOK /\ present \subseteq Probes /\ learned \in BOOLEAN

NetworkInit == Init /\ N!NetInit /\ present = {} /\ learned = FALSE

\* A change makes every probe one of an earlier network.
ChangeStep ==
  /\ N!InterfaceChanges
  /\ present' = {} /\ learned' = FALSE
  /\ UNCHANGED vars

ManagerStep == N!NetStep /\ UNCHANGED <<vars, present, learned>>

\* Box has closed the DNS transports before it closes the network manager: what
\* they knew is gone, and a reset that is under way finds nothing to reset.
CloseStep ==
  /\ N!CloseCancels
  /\ reuseState' = "unknown" /\ demoteFailures' = 0 /\ lastProbeTime' = "zero"
  /\ probeEpoch' = 0 /\ decided' = 0 /\ resetting' = 0
  /\ asking' = FALSE /\ started' = 0 /\ dpc' = [d \in Deaths |-> "none"]
  /\ probe' = [p \in Probes |-> [running |-> FALSE, epoch |-> 0]]
  /\ present' = {} /\ learned' = FALSE

\* router.ResetNetwork resets the transports, also when the API, the memory
\* killer or a suspend calls it, without resetRunAccess.
ResetStep ==
  /\ \/ N!ResetsNetwork /\ IF closer = "none" THEN Reset ELSE UNCHANGED vars
     \/ N!ResetEnds /\ IF closer = "none" THEN ResetClears ELSE UNCHANGED vars
     \/ closer = "none" /\ Reset /\ UNCHANGED managerVars
     \/ ResetClears /\ (rpc = "clear" => resetting > 1) /\ UNCHANGED managerVars
  /\ learned' = (learned /\ reuseState' = "supported") /\ UNCHANGED present

ProbeStep ==
  /\ closer = "none"
  /\ \/ Dispatch \/ IntervalPasses \/ \E d \in Deaths : DeathStep(d)
     \/ MaybeStartProbe
     \/ \E p \in Probes : RunReuseProbe(p)
  /\ present' = {p \in Probes : probe'[p].running /\ (probe[p].running => p \in present)}
  /\ learned' = /\ reuseState' = "supported"
                /\ IF reuseState # "supported" THEN \E p \in present : p \notin present' ELSE learned
  /\ UNCHANGED managerVars

NetworkNext == ChangeStep \/ ManagerStep \/ CloseStep \/ ResetStep \/ ProbeStep

NetworkSpec == NetworkInit /\ [][NetworkNext]_networkVars

----------------------------------------------------------------------------
(* Properties. *)

\* A change that was notified is not lost: until the network has been reset, an
\* update that nobody cancelled is on the way to it, however many overtake one
\* another; or there is no interface, and the next one will be notified.
ResetOwed ==
  pending /\ startedCtx = "active" =>
    \/ notifying \/ waiting
    \/ N!Before({"wifi", "wifi_store", "post", "check", "environment", "store", "decide"})
    \/ paused /\ ~iface

\* The environment that DNS answers are cached under is that of the present interface
\* and routes and of the WIFI state the manager has stored, or somebody is about to look
\* at them again, although an update that may be overtaken at any point, the timer and
\* two monitors look and store in turn.  That the WIFI state stored is the present one is
\* not said: an update may store what it read before the monitor stored a later one.
EnvironmentPresent ==
  startedCtx = "active" /\ iface =>
    \/ environment \/ seen
    \/ notifying \/ waiting \/ posting \/ timer \/ fired
    \/ N!Before({"wifi", "wifi_store", "check", "environment"}) \/ rpc = "post"

\* Once a change of network has been dealt with, what is believed of connection reuse
\* was learned on the present network: neither an update that was overtaken nor a
\* probe that began before the change makes it otherwise.
LearnedHere ==
  reuseState = "supported" => learned \/ notifying \/ pending \/ rpc = "reset"
=============================================================================
