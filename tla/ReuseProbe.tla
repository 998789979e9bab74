----------------------------- MODULE ReuseProbe -----------------------------
(***************************************************************************)
(* Whether a DNS server lets a connection be reused, as queryMultiplexer   *)
(* finds out (dns/transport/multiplexer.go): a probe started by a query    *)
(* decides it, broken connections take it back, and Reset, on a change of  *)
(* network, forgets it while a probe of the old network may still run.     *)
(***************************************************************************)
EXTENDS Naturals, FiniteSets

CONSTANTS
  MaxEpoch,      \* bound on the calls of Reset
  MaxProbes,     \* bound on the probes started
  Deaths,        \* goroutines in recordConnDeath
  FailureLimit   \* reuseDemoteFailureLimit: 3 in the code

ASSUME ProbeBounds == MaxEpoch \in Nat /\ MaxProbes \in Nat /\ FailureLimit \in Nat \ {0}

Probes == 1..MaxProbes

VARIABLES
  reuseState,      \* m.reuseState
  demoteFailures,  \* m.demoteFailures
  probeEpoch,      \* m.probeEpoch
  lastProbeTime,   \* m.lastProbeTime: zero, or within reuseProbeRetryInterval or not
  asking,          \* a query is about to enter maybeStartProbe
  started,         \* probes started so far
  probe,           \* of a runReuseProbe goroutine: its epoch, and whether it runs
  resetting,       \* calls of Reset that released probeAccess and have yet to clear demoteFailures
  dpc,             \* of a recordConnDeath
  decided          \* history: the epoch of the probe that last found reuse to work

vars == <<reuseState, demoteFailures, probeEpoch, lastProbeTime, asking, started,
          probe, resetting, dpc, decided>>

TypeOK ==
  /\ reuseState \in {"unknown", "probing", "supported", "unsupported"}
  /\ demoteFailures \in 0..(FailureLimit - 1 + Cardinality(Deaths))
  /\ probeEpoch \in 0..MaxEpoch
  /\ lastProbeTime \in {"zero", "recent", "old"}
  /\ asking \in BOOLEAN /\ started \in 0..MaxProbes
  /\ probe \in [Probes -> [running : BOOLEAN, epoch : 0..MaxEpoch]]
  /\ resetting \in 0..MaxEpoch
  /\ dpc \in [Deaths -> {"none", "add", "demote", "clear"}]
  /\ decided \in 0..MaxEpoch

Init ==
  /\ reuseState = "unknown" /\ demoteFailures = 0
  /\ probeEpoch = 0 /\ lastProbeTime = "zero"
  /\ asking = FALSE /\ started = 0
  /\ probe = [p \in Probes |-> [running |-> FALSE, epoch |-> 0]]
  /\ resetting = 0
  /\ dpc = [d \in Deaths |-> "none"]
  /\ decided = 0

\* dispatch sees that reuse is not known to work.
Dispatch ==
  /\ ~asking /\ reuseState # "supported"
  /\ asking' = TRUE
  /\ UNCHANGED <<reuseState, demoteFailures, probeEpoch, lastProbeTime, started, probe, resetting, dpc, decided>>

StartProbe ==
  /\ started < MaxProbes
  /\ reuseState' = "probing" /\ lastProbeTime' = "recent"
  /\ started' = started + 1
  /\ probe' = [probe EXCEPT ![started + 1] = [running |-> TRUE, epoch |-> probeEpoch]]

\* maybeStartProbe: the state it reads under probeAccess need not be the one
\* that dispatch saw.
MaybeStartProbe ==
  /\ asking /\ asking' = FALSE
  /\ IF reuseState = "probing" \/ lastProbeTime = "recent"
     THEN UNCHANGED <<reuseState, lastProbeTime, started, probe>>
     ELSE StartProbe
  /\ UNCHANGED <<demoteFailures, probeEpoch, resetting, dpc, decided>>

\* reuseProbeRetryInterval passes.
IntervalPasses ==
  /\ lastProbeTime = "recent" /\ lastProbeTime' = "old"
  /\ UNCHANGED <<reuseState, demoteFailures, probeEpoch, asking, started, probe, resetting, dpc, decided>>

ProbeEnds(p) ==
  /\ probe[p].running
  /\ probe' = [probe EXCEPT ![p] = [running |-> FALSE, epoch |-> 0]]

\* Mutant: an unknown epoch is not told apart.
RunReuseProbeAnyEpoch(p) ==
  /\ ProbeEnds(p)
  /\ \/ reuseState' = "supported" /\ demoteFailures' = 0 /\ decided' = probe[p].epoch
     \/ reuseState' \in {"unknown", "unsupported"} /\ UNCHANGED <<demoteFailures, decided>>
  /\ UNCHANGED <<probeEpoch, lastProbeTime, asking, started, resetting, dpc>>

\* runReuseProbe, once executeReuseProbe returned: the probe was answered, its
\* dial failed, or it was not answered.  Nothing if there was a Reset meanwhile.
RunReuseProbe(p) ==
  /\ ProbeEnds(p)
  /\ \/ /\ probe[p].epoch # probeEpoch
        /\ UNCHANGED <<reuseState, demoteFailures, decided>>
     \/ /\ probe[p].epoch = probeEpoch
        /\ reuseState' = "supported" /\ demoteFailures' = 0 /\ decided' = probeEpoch
     \/ /\ probe[p].epoch = probeEpoch
        /\ reuseState' \in {"unknown", "unsupported"}
        /\ UNCHANGED <<demoteFailures, decided>>
  /\ UNCHANGED <<probeEpoch, lastProbeTime, asking, started, resetting, dpc>>

\* Reset, in two steps: under probeAccess, and after it.
Reset ==
  /\ probeEpoch < MaxEpoch
  /\ probeEpoch' = probeEpoch + 1
  /\ reuseState' = "unknown" /\ lastProbeTime' = "zero"
  /\ resetting' = resetting + 1
  /\ UNCHANGED <<demoteFailures, asking, started, probe, dpc, decided>>

ResetClears ==
  /\ resetting > 0 /\ resetting' = resetting - 1
  /\ demoteFailures' = 0
  /\ UNCHANGED <<reuseState, probeEpoch, lastProbeTime, asking, started, probe, dpc, decided>>

----------------------------------------------------------------------------
(* recordConnDeath: a connection that answered before broke. *)

\* It counts as a failure if queries were pending on it, and clears the count
\* if none was.
RecordConnDeath(d) ==
  /\ dpc[d] = "none" /\ reuseState = "supported"
  /\ dpc' \in {[dpc EXCEPT ![d] = next] : next \in {"add", "clear"}}
  /\ UNCHANGED <<reuseState, demoteFailures, probeEpoch, lastProbeTime, asking, started, probe, resetting, decided>>

AddFailure(d) ==
  /\ dpc[d] = "add"
  /\ demoteFailures' = demoteFailures + 1
  /\ dpc' = [dpc EXCEPT ![d] = IF demoteFailures + 1 < FailureLimit THEN "none" ELSE "demote"]
  /\ UNCHANGED <<reuseState, probeEpoch, lastProbeTime, asking, started, probe, resetting, decided>>

\* Mutant: the state is not read again under probeAccess.
DemoteBlindly(d) ==
  /\ dpc[d] = "demote"
  /\ reuseState' = "unsupported" /\ lastProbeTime' = "recent"
  /\ dpc' = [dpc EXCEPT ![d] = "clear"]
  /\ UNCHANGED <<demoteFailures, probeEpoch, asking, started, probe, resetting, decided>>

Demote(d) ==
  /\ dpc[d] = "demote"
  /\ IF reuseState = "supported"
     THEN reuseState' = "unsupported" /\ lastProbeTime' = "recent"
     ELSE UNCHANGED <<reuseState, lastProbeTime>>
  /\ dpc' = [dpc EXCEPT ![d] = "clear"]
  /\ UNCHANGED <<demoteFailures, probeEpoch, asking, started, probe, resetting, decided>>

ClearFailures(d) ==
  /\ dpc[d] = "clear" /\ dpc' = [dpc EXCEPT ![d] = "none"]
  /\ demoteFailures' = 0
  /\ UNCHANGED <<reuseState, probeEpoch, lastProbeTime, asking, started, probe, resetting, decided>>

DeathStep(d) == RecordConnDeath(d) \/ AddFailure(d) \/ Demote(d) \/ ClearFailures(d)

Next ==
  \/ Dispatch \/ MaybeStartProbe \/ IntervalPasses \/ Reset \/ ResetClears
  \/ \E p \in Probes : RunReuseProbe(p)
  \/ \E d \in Deaths : DeathStep(d)

Spec == Init /\ [][Next]_vars

----------------------------------------------------------------------------
(* Properties. *)

Current(p) == probe[p].running /\ probe[p].epoch = probeEpoch

\* Reuse is believed to work only on the word of a probe of the present
\* network: one that Reset overtook decides nothing when it ends.
SupportedByPresentProbe == reuseState = "supported" => decided = probeEpoch

\* The state is "probing" exactly while a probe of the present network runs, and there
\* is one such probe at most, whatever broken connections do meanwhile: were it left in
\* "probing", no other probe could ever start.
ProbingIsProbed ==
  /\ (reuseState = "probing") <=> \E p \in Probes : Current(p)
  /\ \A p, q \in Probes : Current(p) /\ Current(q) => p = q
=============================================================================
