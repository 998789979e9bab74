--------------------------- MODULE NetworkProofs ---------------------------
(***************************************************************************)
(* For every number of resets, probes and broken connections, and every    *)
(* failure limit: what queryMultiplexer (dns/transport/multiplexer.go)     *)
(* believes of connection reuse comes from a probe of the present network, *)
(* and the network manager (route/network.go) over it loses no change of   *)
(* the network, however its updates, timer and monitors overlap.           *)
(***************************************************************************)
EXTENDS Network, TLAPS

----------------------------------------------------------------------------
(* The multiplexer's probes.                                               *)

\* A probe that has not been started does not run, and none is of a later epoch
\* than the present one: Reset leaves no current probe behind.
PInv ==
  /\ probeEpoch \in Nat /\ started \in Nat
  /\ probe \in [Probes -> [running : BOOLEAN, epoch : Nat]]
  /\ \A p \in Probes : probe[p].epoch <= probeEpoch
  /\ \A p \in Probes : probe[p].running => p <= started
  /\ ProbingIsProbed
  /\ SupportedByPresentProbe

USE DEF Probes

LEMMA InitPInv == Init => PInv
  BY ProbeBounds DEF Init, PInv, ProbingIsProbed, SupportedByPresentProbe, Current

\* What a step keeps that neither starts nor ends a probe.
LEMMA NoProbeStep ==
  ASSUME PInv, UNCHANGED <<probeEpoch, started, probe, decided>>,
         reuseState' = "probing" <=> reuseState = "probing",
         reuseState' = "supported" => reuseState = "supported"
  PROVE  PInv'
  BY DEF PInv, ProbingIsProbed, SupportedByPresentProbe, Current

LEMMA MaybeStartProbePInv == ASSUME PInv, MaybeStartProbe PROVE PInv'
  <1>1. CASE reuseState = "probing" \/ lastProbeTime = "recent"
    BY <1>1, NoProbeStep DEF MaybeStartProbe
  <1>2. CASE ~(reuseState = "probing" \/ lastProbeTime = "recent")
    <2> DEFINE n == [running |-> TRUE, epoch |-> probeEpoch]
    <2>1. /\ reuseState # "probing" /\ reuseState' = "probing" /\ started < MaxProbes
          /\ started' = started + 1 /\ probe' = [probe EXCEPT ![started + 1] = n]
          /\ UNCHANGED <<probeEpoch, decided>>
      BY <1>2 DEF MaybeStartProbe, StartProbe
    <2>2. started + 1 \in Probes /\ started' \in Nat
      BY <2>1, ProbeBounds DEF PInv
    <2>3. n \in [running : BOOLEAN, epoch : Nat] /\ n.running /\ n.epoch = probeEpoch
      BY DEF PInv
    <2>4. probe' \in [Probes -> [running : BOOLEAN, epoch : Nat]]
      BY <2>1, <2>2, <2>3 DEF PInv
    <2>5. probe'[started + 1] = n /\ \A p \in Probes : p # started + 1 => probe'[p] = probe[p]
      BY <2>1, <2>2 DEF PInv
    <2>6. \A p \in Probes : probe'[p].epoch <= probeEpoch'
      BY <2>1, <2>3, <2>5 DEF PInv
    <2>7. \A p \in Probes : probe'[p].running => p <= started'
      BY <2>1, <2>5 DEF PInv
    <2>8. \A p \in Probes : Current(p)' <=> p = started + 1
      BY <2>1, <2>2, <2>3, <2>5 DEF PInv, ProbingIsProbed, Current
    <2>9. ProbingIsProbed' /\ SupportedByPresentProbe'
      BY <2>1, <2>2, <2>8 DEF ProbingIsProbed, SupportedByPresentProbe
    <2> QED
      BY <2>1, <2>2, <2>4, <2>6, <2>7, <2>9 DEF PInv
  <1> QED
    BY <1>1, <1>2

LEMMA RunReuseProbePInv == ASSUME PInv, NEW p \in Probes, RunReuseProbe(p) PROVE PInv'
  <1>1. /\ probe[p].running /\ probe' = [probe EXCEPT ![p] = [running |-> FALSE, epoch |-> 0]]
        /\ UNCHANGED <<probeEpoch, started>>
    BY DEF RunReuseProbe, ProbeEnds
  <1>2. /\ probe' \in [Probes -> [running : BOOLEAN, epoch : Nat]]
        /\ \A o \in Probes : o # p => probe'[o] = probe[o]
        /\ ~probe'[p].running /\ probe'[p].epoch = 0
    BY <1>1 DEF PInv
  <1>3. /\ \A o \in Probes : probe'[o].epoch <= probeEpoch'
        /\ \A o \in Probes : probe'[o].running => o <= started'
    BY <1>1, <1>2 DEF PInv
  <1>4. \A o \in Probes : Current(o)' <=> (Current(o) /\ o # p)
    BY <1>1, <1>2 DEF Current
  <1>5. ProbingIsProbed' /\ SupportedByPresentProbe'
    <2>1. CASE probe[p].epoch # probeEpoch
      <3>1. UNCHANGED <<reuseState, decided>>
        BY <2>1 DEF RunReuseProbe
      <3>2. \A o \in Probes : Current(o)' <=> Current(o)
        BY <1>4, <2>1 DEF Current
      <3> QED
        BY <1>1, <3>1, <3>2 DEF PInv, ProbingIsProbed, SupportedByPresentProbe
    <2>2. CASE probe[p].epoch = probeEpoch
      <3>1. \A o \in Probes : ~Current(o)'
        BY <1>1, <1>4, <2>2 DEF PInv, ProbingIsProbed, Current
      <3>2. reuseState' # "probing" /\ (reuseState' = "supported" => decided' = probeEpoch)
        BY <2>2 DEF RunReuseProbe
      <3> QED
        BY <1>1, <3>1, <3>2 DEF ProbingIsProbed, SupportedByPresentProbe
    <2> QED
      BY <2>1, <2>2
  <1> QED
    BY <1>1, <1>2, <1>3, <1>5 DEF PInv

LEMMA ResetPInv == ASSUME PInv, Reset PROVE PInv'
  BY DEF PInv, Reset, ProbingIsProbed, SupportedByPresentProbe, Current

LEMMA NextPInv == PInv /\ [Next]_vars => PInv'
  <1> SUFFICES ASSUME PInv, [Next]_vars PROVE PInv'
    OBVIOUS
  <1>1. CASE UNCHANGED vars \/ Dispatch \/ IntervalPasses \/ ResetClears
    BY <1>1, NoProbeStep DEF vars, Dispatch, IntervalPasses, ResetClears
  <1>2. ASSUME NEW d \in Deaths, DeathStep(d) PROVE PInv'
    BY <1>2, NoProbeStep DEF DeathStep, RecordConnDeath, AddFailure, Demote, ClearFailures
  <1> QED
    BY <1>1, <1>2, MaybeStartProbePInv, RunReuseProbePInv, ResetPInv DEF Next

\* dispatch shares a connection only on the word of a probe of the present network:
\* runReuseProbe decides nothing once Reset has moved the epoch on.
THEOREM PresentProbeDecides == Spec => []SupportedByPresentProbe
  <1>1. PInv => SupportedByPresentProbe
    BY DEF PInv
  <1> QED
    BY <1>1, InitPInv, NextPInv, PTL DEF Spec

\* maybeStartProbe, runReuseProbe, recordConnDeath and Reset leave the state in
\* "probing" exactly while one probe of the present network runs.
THEOREM ProbingHasAProbe == Spec => []ProbingIsProbed
  <1>1. PInv => ProbingIsProbed
    BY DEF PInv
  <1> QED
    BY <1>1, InitPInv, NextPInv, PTL DEF Spec

----------------------------------------------------------------------------
(* The inductive invariant of the network manager over the multiplexer.    *)

\* Without an update or a resume under resetRunAccess there is no place in one;
\* what an update of the environment read goes out of date together with what is
\* stored; and Close ends the updates before anything else.
Settled ==
  /\ runner \in {"none", "close"} => rpc = "none"
  /\ updater # "none" => seen \/ ~environment
  /\ closer # "none" => startedCtx # "active"

\* A reset of the network is still to come.
Owed == notifying \/ pending \/ rpc = "reset"

\* A probe that may yet decide was started on the present network, or a reset is
\* to come; after Close no probe is left.
Belief ==
  /\ \A p \in Probes : Current(p) => p \in present \/ Owed
  /\ closer # "none" => reuseState # "supported" /\ \A p \in Probes : ~probe[p].running

NInv ==
  /\ PInv
  /\ Settled /\ Belief
  /\ ResetOwed /\ EnvironmentPresent /\ LearnedHere

\* What concerns the manager's own variables.
MInv == Settled /\ ResetOwed /\ EnvironmentPresent

LEMMA MInvKept == ASSUME MInv, UNCHANGED managerVars PROVE MInv'
  BY Zenon DEF MInv, Settled, ResetOwed, EnvironmentPresent, N!Before, managerVars

LEMMA InterfaceMInv ==
  ASSUME MInv, N!InterfaceChanges \/ N!NotifyInterfaceUpdate \/ N!PostStart PROVE MInv'
<1> USE DEF MInv, Settled, ResetOwed, EnvironmentPresent, N!Before, N!runVars, N!envVars
<1>1. CASE N!InterfaceChanges
  <2>1. Settled'
    BY Zenon, <1>1 DEF N!InterfaceChanges
  <2>2. ResetOwed'
    BY Zenon, <1>1 DEF N!InterfaceChanges
  <2>3. EnvironmentPresent'
    BY Zenon, <1>1 DEF N!InterfaceChanges
  <2> QED
    BY <2>1, <2>2, <2>3
<1>2. CASE N!NotifyInterfaceUpdate
  <2>1. Settled'
    BY Zenon, <1>2 DEF N!NotifyInterfaceUpdate, N!DispatchInterfaceUpdate
  <2>2. ResetOwed'
    BY Zenon, <1>2 DEF N!NotifyInterfaceUpdate, N!DispatchInterfaceUpdate
  <2>3. EnvironmentPresent'
    BY Zenon, <1>2 DEF N!NotifyInterfaceUpdate, N!DispatchInterfaceUpdate
  <2> QED
    BY <2>1, <2>2, <2>3
<1>3. CASE N!PostStart
  <2>1. Settled'
    BY Zenon, <1>3 DEF N!PostStart, N!DispatchInterfaceUpdate
  <2>2. ResetOwed'
    BY Zenon, <1>3 DEF N!PostStart, N!DispatchInterfaceUpdate
  <2>3. EnvironmentPresent'
    BY Zenon, <1>3 DEF N!PostStart, N!DispatchInterfaceUpdate
  <2> QED
    BY <2>1, <2>2, <2>3
<1> QED
  BY Zenon, <1>1, <1>2, <1>3

LEMMA EnvironmentMInv ==
  ASSUME MInv, \/ N!EnvironmentChanges \/ N!MonitorPosts \/ N!TimerFires \/ N!TimerReads \/ N!TimerStores
  PROVE  MInv'
<1> USE DEF MInv, Settled, ResetOwed, EnvironmentPresent, N!Before, N!runVars, N!ifaceVars
<1>1. CASE N!EnvironmentChanges
  <2>1. Settled'
    BY Zenon, <1>1 DEF N!EnvironmentChanges
  <2>2. ResetOwed'
    BY Zenon, <1>1 DEF N!EnvironmentChanges
  <2>3. EnvironmentPresent'
    BY Zenon, <1>1 DEF N!EnvironmentChanges
  <2> QED
    BY <2>1, <2>2, <2>3
<1>2. CASE N!MonitorPosts
  <2>1. Settled'
    BY Zenon, <1>2 DEF N!MonitorPosts, N!PostUpdateNetworkEnvironment
  <2>2. ResetOwed'
    BY Zenon, <1>2 DEF N!MonitorPosts, N!PostUpdateNetworkEnvironment
  <2>3. EnvironmentPresent'
    BY Zenon, <1>2 DEF N!MonitorPosts, N!PostUpdateNetworkEnvironment
  <2> QED
    BY <2>1, <2>2, <2>3
<1>3. CASE N!TimerFires
  <2>1. Settled'
    BY Zenon, <1>3 DEF N!TimerFires
  <2>2. ResetOwed'
    BY Zenon, <1>3 DEF N!TimerFires
  <2>3. EnvironmentPresent'
    BY Zenon, <1>3 DEF N!TimerFires
  <2> QED
    BY <2>1, <2>2, <2>3
<1>4. CASE N!TimerReads
  <2>1. Settled'
    BY Zenon, <1>4 DEF N!TimerReads, N!UpdateReads
  <2>2. ResetOwed'
    BY Zenon, <1>4 DEF N!TimerReads, N!UpdateReads
  <2>3. EnvironmentPresent'
    BY Zenon, <1>4 DEF N!TimerReads, N!UpdateReads
  <2> QED
    BY <2>1, <2>2, <2>3
<1>5. CASE N!TimerStores
  <2>1. Settled'
    BY Zenon, <1>5 DEF N!TimerStores, N!UpdateStores
  <2>2. ResetOwed'
    BY Zenon, <1>5 DEF N!TimerStores, N!UpdateStores
  <2>3. EnvironmentPresent'
    BY Zenon, <1>5 DEF N!TimerStores, N!UpdateStores
  <2> QED
    BY <2>1, <2>2, <2>3
<1> QED
  BY Zenon, <1>1, <1>2, <1>3, <1>4, <1>5

LEMMA UpdateMInv ==
  ASSUME MInv,
         \/ N!UpdateBegins \/ N!UpdateReadsWIFI \/ N!UpdateStoresWIFI \/ N!UpdatePosts
         \/ N!UpdateChecks \/ N!UpdateLooks \/ N!UpdateKeeps \/ N!UpdateDecides
  PROVE  MInv'
<1> USE DEF MInv, Settled, ResetOwed, EnvironmentPresent, N!Before, N!ifaceVars, N!envVars,
            N!Running, N!Alive, N!Unlocks
<1>1. CASE N!UpdateBegins
  <2>1. Settled'
    BY Zenon, <1>1 DEF N!UpdateBegins
  <2>2. ResetOwed'
    BY Zenon, <1>1 DEF N!UpdateBegins
  <2>3. EnvironmentPresent'
    BY Zenon, <1>1 DEF N!UpdateBegins
  <2> QED
    BY <2>1, <2>2, <2>3
<1>w. CASE N!UpdateReadsWIFI
  <2>1. Settled'
    BY Zenon, <1>w DEF N!UpdateReadsWIFI
  <2>2. ResetOwed'
    BY Zenon, <1>w DEF N!UpdateReadsWIFI
  <2>3. EnvironmentPresent'
    BY Zenon, <1>w DEF N!UpdateReadsWIFI
  <2> QED
    BY <2>1, <2>2, <2>3
<1>2. CASE N!UpdateStoresWIFI
  <2>0. runner' = "update" /\ UNCHANGED <<updater, closer, startedCtx>>
        /\ (UNCHANGED <<environment, seen>> \/ environment' = FALSE)
    BY Zenon, <1>2 DEF N!UpdateStoresWIFI
  <2>1. Settled'
    BY <2>0
  <2>2. ResetOwed'
    BY Zenon, <1>2 DEF N!UpdateStoresWIFI
  <2>3. EnvironmentPresent'
    BY Zenon, <1>2 DEF N!UpdateStoresWIFI
  <2> QED
    BY <2>1, <2>2, <2>3
<1>3. CASE N!UpdatePosts
  <2>1. Settled'
    BY Zenon, <1>3 DEF N!UpdatePosts, N!PostUpdateNetworkEnvironment
  <2>2. ResetOwed'
    BY Zenon, <1>3 DEF N!UpdatePosts, N!PostUpdateNetworkEnvironment
  <2>3. EnvironmentPresent'
    BY Zenon, <1>3 DEF N!UpdatePosts, N!PostUpdateNetworkEnvironment
  <2> QED
    BY <2>1, <2>2, <2>3
<1>4. CASE N!UpdateChecks
  <2>1. Settled'
    BY Zenon, <1>4 DEF N!UpdateChecks
  <2>2. ResetOwed'
    BY Zenon, <1>4 DEF N!UpdateChecks
  <2>3. EnvironmentPresent'
    BY Zenon, <1>4 DEF N!UpdateChecks
  <2> QED
    BY <2>1, <2>2, <2>3
<1>5. CASE N!UpdateLooks
  <2>1. Settled'
    BY Zenon, <1>5 DEF N!UpdateLooks, N!UpdateReads
  <2>2. ResetOwed'
    BY Zenon, <1>5 DEF N!UpdateLooks, N!UpdateReads
  <2>3. EnvironmentPresent'
    BY Zenon, <1>5 DEF N!UpdateLooks, N!UpdateReads
  <2> QED
    BY <2>1, <2>2, <2>3
<1>6. CASE N!UpdateKeeps
  <2>1. Settled'
    BY Zenon, <1>6 DEF N!UpdateKeeps, N!UpdateStores
  <2>2. ResetOwed'
    BY Zenon, <1>6 DEF N!UpdateKeeps, N!UpdateStores
  <2>3. EnvironmentPresent'
    BY Zenon, <1>6 DEF N!UpdateKeeps, N!UpdateStores
  <2> QED
    BY Zenon, <2>1, <2>2, <2>3
<1>7. CASE N!UpdateDecides
  <2>1. Settled'
    BY Zenon, <1>7 DEF N!UpdateDecides
  <2>2. ResetOwed'
    BY Zenon, <1>7 DEF N!UpdateDecides
  <2>3. EnvironmentPresent'
    BY Zenon, <1>7 DEF N!UpdateDecides
  <2> QED
    BY Zenon, <2>1, <2>2, <2>3
<1> QED
  BY Zenon, <1>1, <1>w, <1>2, <1>3, <1>4, <1>5, <1>6, <1>7

LEMMA ResetMInv ==
  ASSUME MInv, N!ResumeBegins \/ N!ResetsNetwork \/ N!ResetEnds PROVE MInv'
<1> USE DEF MInv, Settled, ResetOwed, EnvironmentPresent, N!Before, N!ifaceVars, N!envVars, N!Unlocks
<1>1. CASE N!ResumeBegins
  <2>1. Settled'
    BY Zenon, <1>1 DEF N!ResumeBegins
  <2>2. ResetOwed'
    BY Zenon, <1>1 DEF N!ResumeBegins
  <2>3. EnvironmentPresent'
    BY Zenon, <1>1 DEF N!ResumeBegins
  <2> QED
    BY <2>1, <2>2, <2>3
<1>2. CASE N!ResetsNetwork
  <2>1. Settled'
    BY Zenon, <1>2 DEF N!ResetsNetwork
  <2>2. ResetOwed'
    BY Zenon, <1>2 DEF N!ResetsNetwork
  <2>3. EnvironmentPresent'
    BY Zenon, <1>2 DEF N!ResetsNetwork
  <2> QED
    BY <2>1, <2>2, <2>3
<1>3. CASE N!ResetEnds
  <2>1. Settled'
    BY Zenon, <1>3 DEF N!ResetEnds
  <2>2. ResetOwed'
    BY Zenon, <1>3 DEF N!ResetEnds
  <2>3. EnvironmentPresent'
    BY Zenon, <1>3 DEF N!ResetEnds
  <2> QED
    BY <2>1, <2>2, <2>3
<1> QED
  BY Zenon, <1>1, <1>2, <1>3

LEMMA CloseMInv ==
  ASSUME MInv, N!CloseCancels \/ N!CloseLocks \/ N!CloseStops \/ N!CloseReturns PROVE MInv'
<1> USE DEF MInv, Settled, ResetOwed, EnvironmentPresent, N!Before, N!ifaceVars, N!envVars, N!runVars
<1>1. CASE N!CloseCancels
  <2>1. Settled'
    BY Zenon, <1>1 DEF N!CloseCancels
  <2>2. ResetOwed'
    BY Zenon, <1>1 DEF N!CloseCancels
  <2>3. EnvironmentPresent'
    BY Zenon, <1>1 DEF N!CloseCancels
  <2> QED
    BY <2>1, <2>2, <2>3
<1>2. CASE N!CloseLocks
  <2>1. Settled'
    BY Zenon, <1>2 DEF N!CloseLocks
  <2>2. ResetOwed'
    BY Zenon, <1>2 DEF N!CloseLocks
  <2>3. EnvironmentPresent'
    BY Zenon, <1>2 DEF N!CloseLocks
  <2> QED
    BY <2>1, <2>2, <2>3
<1>3. CASE N!CloseStops
  <2>1. Settled'
    BY Zenon, <1>3 DEF N!CloseStops
  <2>2. ResetOwed'
    BY Zenon, <1>3 DEF N!CloseStops
  <2>3. EnvironmentPresent'
    BY Zenon, <1>3 DEF N!CloseStops
  <2> QED
    BY <2>1, <2>2, <2>3
<1>4. CASE N!CloseReturns
  <2>1. Settled'
    BY Zenon, <1>4 DEF N!CloseReturns
  <2>2. ResetOwed'
    BY Zenon, <1>4 DEF N!CloseReturns
  <2>3. EnvironmentPresent'
    BY Zenon, <1>4 DEF N!CloseReturns
  <2> QED
    BY <2>1, <2>2, <2>3
<1> QED
  BY Zenon, <1>1, <1>2, <1>3, <1>4

LEMMA ManagerMInv == ASSUME MInv, N!NetStep PROVE MInv'
  BY Zenon, InterfaceMInv, EnvironmentMInv, UpdateMInv, ResetMInv, CloseMInv DEF N!NetStep

----------------------------------------------------------------------------
(* What is believed of connection reuse.                                   *)

\* No step of the manager drops a reset that is owed, except the reset itself.
LEMMA OwedKept ==
  ASSUME Settled, Owed, N!InterfaceChanges \/ N!NetStep \/ N!CloseCancels \/ N!ResetEnds
  PROVE  Owed'
<1> USE DEF Owed, N!ifaceVars, N!runVars, N!envVars
<1>1. CASE N!InterfaceChanges \/ N!NotifyInterfaceUpdate \/ N!PostStart
  BY Zenon, <1>1 DEF N!InterfaceChanges, N!NotifyInterfaceUpdate, N!PostStart
<1>2. CASE N!EnvironmentChanges \/ N!MonitorPosts \/ N!TimerFires \/ N!TimerReads \/ N!TimerStores
  BY Zenon, <1>2 DEF N!EnvironmentChanges, N!MonitorPosts, N!TimerFires, N!TimerReads, N!TimerStores
<1>3. CASE N!UpdateBegins
  BY Zenon, <1>3 DEF Settled, N!UpdateBegins
<1>4. CASE \/ N!UpdateReadsWIFI \/ N!UpdateStoresWIFI \/ N!UpdatePosts
          \/ N!UpdateChecks \/ N!UpdateLooks \/ N!UpdateKeeps
  BY Zenon, <1>4 DEF N!UpdateReadsWIFI, N!UpdateStoresWIFI, N!UpdatePosts, N!UpdateChecks, N!UpdateLooks,
     N!UpdateKeeps, N!Running
<1>5. CASE N!UpdateDecides
  BY <1>5 DEF N!UpdateDecides, N!Running
<1>6. CASE N!ResumeBegins \/ N!ResetEnds
  BY <1>6 DEF N!ResumeBegins, N!ResetEnds
<1>7. CASE N!CloseCancels \/ N!CloseLocks \/ N!CloseStops \/ N!CloseReturns
  BY Zenon, <1>7 DEF N!CloseCancels, N!CloseLocks, N!CloseStops, N!CloseReturns
<1> QED
  BY Zenon, <1>1, <1>2, <1>3, <1>4, <1>5, <1>6, <1>7 DEF N!NetStep

\* Close is entered through CloseCancels alone.
LEMMA StillOpen == ASSUME N!NetStep, closer = "none" PROVE closer' = "none"
<1>1. CASE N!CloseLocks \/ N!CloseStops \/ N!CloseReturns
  BY Zenon, <1>1 DEF N!CloseLocks, N!CloseStops, N!CloseReturns
<1>2. CASE ~(N!CloseLocks \/ N!CloseStops \/ N!CloseReturns)
  BY Zenon, <1>2 DEF N!NetStep, N!NotifyInterfaceUpdate, N!PostStart, N!EnvironmentChanges,
     N!MonitorPosts, N!TimerFires, N!TimerReads, N!TimerStores, N!UpdateBegins, N!UpdateReadsWIFI,
     N!UpdateStoresWIFI, N!UpdatePosts, N!UpdateChecks, N!UpdateLooks, N!UpdateKeeps, N!UpdateDecides, N!ResumeBegins
<1> QED
  BY <1>1, <1>2

LEMMA ManagerNInv == ASSUME NInv, ManagerStep PROVE NInv'
<1>1. MInv'
  BY Zenon, ManagerMInv DEF NInv, MInv, ManagerStep
<1>2. PInv'
  BY NextPInv DEF NInv, ManagerStep
<1>3. Owed => Owed'
  BY OwedKept DEF NInv, ManagerStep
<1>4. UNCHANGED <<vars, present, learned>> /\ (closer' # "none" => closer # "none")
  BY StillOpen DEF ManagerStep
<1>5. Belief'
  BY <1>3, <1>4 DEF NInv, Belief, Current, vars
<1>6. LearnedHere'
  BY Zenon, <1>3, <1>4 DEF NInv, LearnedHere, Owed, vars
<1> QED
  BY Zenon, <1>1, <1>2, <1>5, <1>6 DEF NInv, MInv

LEMMA ChangeNInv == ASSUME NInv, ChangeStep PROVE NInv'
<1>1. MInv'
  BY Zenon, InterfaceMInv DEF NInv, MInv, ChangeStep
<1>2. PInv'
  BY NextPInv DEF NInv, ChangeStep
<1>3. notifying' /\ UNCHANGED <<vars, closer>>
  BY Zenon DEF ChangeStep, N!InterfaceChanges
<1>4. Belief'
  BY <1>3 DEF NInv, Belief, Owed, vars
<1>5. LearnedHere'
  BY Zenon, <1>3 DEF LearnedHere
<1> QED
  BY Zenon, <1>1, <1>2, <1>4, <1>5 DEF NInv, MInv

\* Close leaves the multiplexer as if it had just been made.
LEMMA CloseNInv == ASSUME NInv, CloseStep PROVE NInv'
<1>1. MInv'
  BY Zenon, CloseMInv DEF NInv, MInv, CloseStep
<1>2. reuseState' = "unknown" /\ \A p \in Probes : ~probe'[p].running
  BY DEF CloseStep
<1>3. PInv'
  BY <1>2, ProbeBounds DEF CloseStep, PInv, ProbingIsProbed, SupportedByPresentProbe, Current
<1>4. Belief' /\ LearnedHere'
  BY <1>2 DEF Belief, LearnedHere, Current
<1> QED
  BY Zenon, <1>1, <1>3, <1>4 DEF NInv, MInv

LEMMA ResetNInv == ASSUME NInv, ResetStep PROVE NInv'
<1>1. MInv'
  <2>1. MInv
    BY DEF NInv, MInv
  <2> QED
    BY Zenon, <2>1, MInvKept, ResetMInv DEF ResetStep
<1>2. PInv'
  BY NextPInv DEF NInv, ResetStep, Next
<1>r. Reset => /\ reuseState' = "unknown"
               /\ \A p \in Probes : ~(Current(p))'
  BY DEF Reset, NInv, PInv, Current
<1>c. closer' = closer
  BY Zenon DEF ResetStep, N!ResetsNetwork, N!ResetEnds, managerVars
<1>3. CASE Reset /\ closer = "none"
  <2>1. Belief' /\ LearnedHere'
    BY <1>3, <1>r, <1>c DEF Belief, LearnedHere
  <2> QED
    BY Zenon, <1>1, <1>2, <2>1 DEF NInv, MInv
<1>4. CASE ~(Reset /\ closer = "none")
  <2>1. /\ UNCHANGED <<reuseState, probeEpoch, probe, present>>
        /\ learned /\ reuseState' = "supported" => learned'
        /\ \/ N!ResetsNetwork /\ closer # "none"
           \/ N!ResetEnds \/ UNCHANGED managerVars
    BY Zenon, <1>4 DEF ResetStep, ResetClears, vars
  <2>2. closer = "none" /\ Owed => Owed'
    BY Zenon, <2>1, OwedKept DEF NInv, Owed, managerVars
  <2>3. Belief'
    BY <2>1, <2>2, <1>c DEF NInv, Belief, Current
  <2>4. LearnedHere'
    BY Zenon, <2>1, <2>2, <1>c DEF NInv, LearnedHere, Belief, Owed
  <2> QED
    BY Zenon, <1>1, <1>2, <2>3, <2>4 DEF NInv, MInv
<1> QED
  BY <1>3, <1>4

\* The epoch of a probe does not change while it runs, and the belief that reuse
\* works comes from a probe that ends.
LEMMA ProbeFacts ==
  ASSUME PInv, ProbeStep
  PROVE  /\ probeEpoch' = probeEpoch
         /\ \A q \in Probes : probe'[q].running /\ probe[q].running => probe'[q].epoch = probe[q].epoch
         /\ reuseState' = "supported" /\ reuseState # "supported" =>
              \E p \in Probes : Current(p) /\ ~probe'[p].running
<1>1. CASE Dispatch \/ IntervalPasses \/ \E d \in Deaths : DeathStep(d)
  BY Zenon, <1>1 DEF Dispatch, IntervalPasses, DeathStep, RecordConnDeath, AddFailure, Demote, ClearFailures
<1>2. CASE MaybeStartProbe
  <2>1. CASE UNCHANGED <<reuseState, probe>>
    BY <1>2, <2>1 DEF MaybeStartProbe
  <2>2. CASE StartProbe
    <3>1. ~probe[started + 1].running \/ started + 1 \notin Probes
      BY DEF PInv
    <3>2. \A q \in Probes : q # started + 1 => probe'[q] = probe[q]
      BY <2>2 DEF StartProbe, PInv
    <3> QED
      BY Zenon, <1>2, <2>2, <3>1, <3>2 DEF MaybeStartProbe, StartProbe
  <2> QED
    BY <1>2, <2>1, <2>2 DEF MaybeStartProbe
<1>3. ASSUME NEW p \in Probes, RunReuseProbe(p)
      PROVE  /\ probeEpoch' = probeEpoch
             /\ \A q \in Probes : probe'[q].running => probe'[q].epoch = probe[q].epoch
             /\ reuseState' = "supported" /\ reuseState # "supported" =>
                  Current(p) /\ ~probe'[p].running
  <2>1. /\ probe[p].running /\ probe' = [probe EXCEPT ![p] = [running |-> FALSE, epoch |-> 0]]
        /\ probeEpoch' = probeEpoch
    BY <1>3 DEF RunReuseProbe, ProbeEnds
  <2>2. /\ \A q \in Probes : probe'[q].running => probe'[q].epoch = probe[q].epoch
        /\ ~probe'[p].running
    BY <2>1 DEF PInv
  <2>3. reuseState' = "supported" /\ reuseState # "supported" => probe[p].epoch = probeEpoch
    BY <1>3 DEF RunReuseProbe
  <2> QED
    BY <2>1, <2>2, <2>3 DEF Current
<1> QED
  BY Zenon, <1>1, <1>2, <1>3 DEF ProbeStep

LEMMA ProbeNInv == ASSUME NInv, ProbeStep PROVE NInv'
<1>u. closer = "none" /\ UNCHANGED managerVars
  BY Zenon DEF ProbeStep
<1>1. MInv'
  BY <1>u, MInvKept DEF NInv, MInv
<1>2. PInv'
  BY NextPInv DEF NInv, ProbeStep, Next
<1>o. Owed' <=> Owed
  BY Zenon, <1>u DEF Owed, managerVars
<1>p. present' = {p \in Probes : probe'[p].running /\ (probe[p].running => p \in present)}
  BY DEF ProbeStep
<1>3. Belief'
  <2>1. ASSUME NEW q \in Probes, (Current(q))' PROVE q \in present' \/ Owed'
    <3>1. CASE ~probe[q].running
      BY <2>1, <3>1, <1>p DEF Current
    <3>2. CASE probe[q].running
      <4>1. Current(q)
        BY <2>1, <3>2, ProbeFacts DEF NInv, Current
      <4>2. q \in present \/ Owed
        BY <4>1 DEF NInv, Belief
      <4> QED
        BY <4>2, <2>1, <1>p, <1>o DEF Current
    <3> QED
      BY <3>1, <3>2
  <2> QED
    BY Zenon, <2>1, <1>u DEF Belief, managerVars
<1>4. LearnedHere'
  <2>1. CASE reuseState' = "supported" /\ reuseState # "supported"
    <3>1. PICK p \in Probes : Current(p) /\ ~probe'[p].running
      BY <2>1, ProbeFacts DEF NInv
    <3>2. p \in present \/ Owed
      BY <3>1 DEF NInv, Belief
    <3>3. p \notin present'
      BY <3>1, <1>p
    <3>4. (\E q \in present : q \notin present') => learned'
      BY Zenon, <2>1 DEF ProbeStep
    <3> QED
      BY Zenon, <3>2, <3>3, <3>4, <1>o DEF LearnedHere, Owed
  <2>2. CASE ~(reuseState' = "supported" /\ reuseState # "supported")
    <3>1. reuseState' = "supported" /\ learned => learned'
      BY Zenon, <2>2 DEF ProbeStep
    <3> QED
      BY Zenon, <2>2, <3>1, <1>o DEF NInv, LearnedHere, Owed
  <2> QED
    BY <2>1, <2>2
<1> QED
  BY Zenon, <1>1, <1>2, <1>3, <1>4 DEF NInv, MInv

LEMMA InitNInv == NetworkInit => NInv
<1> SUFFICES ASSUME NetworkInit PROVE NInv
  OBVIOUS
<1>1. PInv
  BY InitPInv DEF NetworkInit
<1>2. Settled /\ ResetOwed /\ EnvironmentPresent
  BY Zenon DEF NetworkInit, N!NetInit, Settled, ResetOwed, EnvironmentPresent
<1>3. Belief /\ LearnedHere
  BY DEF NetworkInit, Init, N!NetInit, Belief, LearnedHere, Current
<1> QED
  BY <1>1, <1>2, <1>3 DEF NInv

LEMMA NextNInv == NInv /\ [NetworkNext]_networkVars => NInv'
<1> SUFFICES ASSUME NInv, [NetworkNext]_networkVars PROVE NInv'
  OBVIOUS
<1>1. CASE UNCHANGED networkVars
  <2>1. UNCHANGED <<managerVars, vars, present, learned>>
    BY <1>1 DEF networkVars
  <2>2. MInv'
    BY <2>1, MInvKept DEF NInv, MInv
  <2>3. PInv'
    BY <2>1, NextPInv DEF NInv
  <2>4. Belief' /\ LearnedHere'
    BY Zenon, <2>1 DEF NInv, Belief, LearnedHere, Owed, Current, vars, managerVars
  <2> QED
    BY Zenon, <2>2, <2>3, <2>4 DEF NInv, MInv
<1> QED
  BY <1>1, ManagerNInv, ChangeNInv, CloseNInv, ResetNInv, ProbeNInv DEF NetworkNext

----------------------------------------------------------------------------
(* The theorems.                                                           *)

\* For any number of changes, probes, resets and broken connections: the invariant
\* of notifyInterfaceUpdate, updateInterface, the environment's timer and Close over
\* the multiplexer's probes.
THEOREM NetworkInvariance == NetworkSpec => []NInv
  BY InitNInv, NextNInv, PTL DEF NetworkSpec

\* A change that notifyInterfaceUpdate was told of is dealt with: an update that
\* nobody cancelled has yet to reset the network, or there is no interface.
THEOREM NoResetLost == NetworkSpec => []ResetOwed
<1>1. NInv => ResetOwed
  BY DEF NInv
<1> QED
  BY <1>1, NetworkInvariance, PTL

\* r.networkEnvironment is that of the present interface and routes and of the stored
\* r.wifiState, or updateNetworkEnvironment is about to look again. That what is stored
\* in r.wifiState is the present WIFI state is not claimed: UpdateWIFIState may store
\* what it read over the monitor's later state.
THEOREM EnvironmentFollows == NetworkSpec => []EnvironmentPresent
<1>1. NInv => EnvironmentPresent
  BY DEF NInv
<1> QED
  BY <1>1, NetworkInvariance, PTL

\* Once ResetNetwork has dealt with a change, connections are shared only because a
\* probe of the present network found that the server lets them.
THEOREM ReuseLearnedHere == NetworkSpec => []LearnedHere
<1>1. NInv => LearnedHere
  BY DEF NInv
<1> QED
  BY <1>1, NetworkInvariance, PTL

\* What the probes decide holds with the manager's resets too, and after Close.
THEOREM ProbesUnderManager == NetworkSpec => [](SupportedByPresentProbe /\ ProbingIsProbed)
<1>1. NInv => SupportedByPresentProbe /\ ProbingIsProbed
  BY DEF NInv, PInv
<1> QED
  BY <1>1, NetworkInvariance, PTL
=============================================================================
