--------------------------- MODULE NetworkManager ---------------------------
(***************************************************************************)
(* NetworkManager (route/network.go, route/network_environment.go): turns  *)
(* changes of the default interface into resets of everything that holds   *)
(* connections, and keeps the identity of the network that the DNS cache   *)
(* goes by.  A change cancels the update that handles the one before it,   *)
(* which must leave what it has not done yet to the newer one.             *)
(*                                                                         *)
(* There is a WIFI monitor and no platform interface (graphical clients    *)
(* have one).  Of the default interface it matters whether there is one;   *)
(* of what was read from the system, whether it is still so; of a WIFI     *)
(* state, whether it is another than the one stored in r.wifiState, which  *)
(* is the only one that the rest of the program goes by.                   *)
(***************************************************************************)

VARIABLES
  iface,        \* interfaceMonitor.DefaultInterface() is not nil
  notifying,    \* it has changed and notifyInterfaceUpdate has yet to run
  startedCtx,   \* r.startedCtx: "nil", "active" or "done"
  pending,      \* r.networkResetPending
  paused,       \* the pause manager was told that there is no network
  waiting,      \* the update dispatched last waits for resetRunAccess; of an earlier one
                \* that waits the context is done, and it will do nothing
  runner,       \* who holds resetRunAccess
  rpc,          \* where that one is
  live,         \* interfaceUpdateCancel was not called for it
  posting,      \* a monitor has yet to call postUpdateNetworkEnvironment
  timer,        \* environmentUpdateTimer will fire
  fired,        \* it has fired, and its function waits for environmentUpdateAccess
  updater,      \* who holds environmentUpdateAccess
  seen,         \* what that one read is still so
  environment,  \* r.networkEnvironment is of the present interface and routes and of r.wifiState
  closer        \* where Close is

ifaceVars == <<iface, notifying, paused>>
runVars == <<startedCtx, pending, waiting, runner, rpc, live>>
envVars == <<posting, timer, fired, updater, seen, environment>>

NetTypeOK ==
  /\ iface \in BOOLEAN /\ notifying \in BOOLEAN /\ paused \in BOOLEAN
  /\ startedCtx \in {"nil", "active", "done"} /\ pending \in BOOLEAN
  /\ waiting \in BOOLEAN /\ live \in BOOLEAN
  /\ runner \in {"none", "update", "resume", "close"}
  /\ rpc \in {"none", "wifi", "wifi_store", "post", "check", "environment", "store", "decide", "reset", "clear"}
  /\ posting \in BOOLEAN /\ timer \in BOOLEAN /\ fired \in BOOLEAN
  /\ updater \in {"none", "timer", "update"}
  /\ seen \in BOOLEAN /\ environment \in BOOLEAN
  /\ closer \in {"none", "cancelled", "locked", "stopped", "returned"}

\* After Start(StartStateInitialize), which registers the callbacks.
NetInit ==
  /\ iface \in BOOLEAN /\ notifying = FALSE /\ paused = FALSE
  /\ startedCtx = "nil" /\ pending = FALSE
  /\ waiting = FALSE /\ runner = "none" /\ rpc = "none" /\ live = FALSE
  /\ posting = FALSE /\ timer = FALSE /\ fired = FALSE
  /\ updater = "none" /\ seen = FALSE /\ environment = FALSE
  /\ closer = "none"

----------------------------------------------------------------------------
(* The default interface. *)

\* It appears, disappears or becomes another.
InterfaceChanges ==
  /\ ~notifying /\ closer = "none"
  /\ iface' \in BOOLEAN /\ (iface \/ iface')
  /\ notifying' = TRUE
  /\ environment' = FALSE /\ seen' = FALSE
  /\ UNCHANGED <<paused, runVars, posting, timer, fired, updater, closer>>

\* dispatchInterfaceUpdateLocked cancels the update before it, if there is an
\* interface to go to.
DispatchInterfaceUpdate ==
  IF iface
  THEN paused' = FALSE /\ waiting' = TRUE /\ live' = FALSE
  ELSE paused' = TRUE /\ UNCHANGED <<waiting, live>>

NotifyInterfaceUpdate ==
  /\ notifying /\ notifying' = FALSE
  /\ pending' = TRUE
  /\ IF startedCtx = "nil" THEN UNCHANGED <<paused, waiting, live>> ELSE DispatchInterfaceUpdate
  /\ UNCHANGED <<iface, startedCtx, runner, rpc, envVars, closer>>

\* Start(StartStatePostStart).
PostStart ==
  /\ startedCtx = "nil" /\ closer = "none" /\ startedCtx' = "active"
  /\ DispatchInterfaceUpdate
  /\ UNCHANGED <<iface, notifying, pending, runner, rpc, envVars, closer>>

----------------------------------------------------------------------------
(* The network environment. *)

\* Mutant: what changes while an update looks is left to that update.
PostUpdateNetworkEnvironmentLeaves == timer' = (timer \/ updater = "none")

\* postUpdateNetworkEnvironment.
PostUpdateNetworkEnvironment == updater = "none" /\ timer' = TRUE

\* updateNetworkEnvironment: take the lock, stop the timer and look; store.
UpdateReads(who) == updater = "none" /\ updater' = who /\ timer' = FALSE /\ seen' = TRUE
UpdateStores(who) == updater = who /\ updater' = "none" /\ environment' = seen /\ seen' = FALSE

\* The routes change, or the WIFI monitor calls onWIFIStateChanged with a state that is
\* not the one stored.
EnvironmentChanges ==
  /\ closer # "returned"
  /\ posting' = TRUE /\ environment' = FALSE /\ seen' = FALSE
  /\ UNCHANGED <<ifaceVars, runVars, timer, fired, updater, closer>>

\* The other monitor may have a call to make as well.
MonitorPosts ==
  /\ posting /\ posting' \in BOOLEAN
  /\ PostUpdateNetworkEnvironment
  /\ UNCHANGED <<ifaceVars, runVars, fired, updater, seen, environment, closer>>

TimerFires ==
  /\ timer /\ ~fired /\ timer' = FALSE /\ fired' = TRUE
  /\ UNCHANGED <<ifaceVars, runVars, posting, updater, seen, environment, closer>>

TimerReads ==
  /\ fired /\ fired' = FALSE
  /\ UpdateReads("timer")
  /\ UNCHANGED <<ifaceVars, runVars, posting, environment, closer>>

TimerStores ==
  /\ UpdateStores("timer")
  /\ UNCHANGED <<ifaceVars, runVars, posting, timer, fired, closer>>

----------------------------------------------------------------------------
(* updateInterface, under resetRunAccess. *)

\* The goroutine returns at once if its context is done.
UpdateBegins ==
  /\ waiting /\ runner = "none" /\ waiting' = FALSE
  /\ IF startedCtx = "done"
     THEN UNCHANGED <<runner, rpc, live>>
     ELSE runner' = "update" /\ rpc' = "wifi" /\ live' = TRUE
  /\ UNCHANGED <<ifaceVars, startedCtx, pending, envVars, closer>>

Running(point) == runner = "update" /\ rpc = point
Unlocks == runner' = "none" /\ rpc' = "none" /\ live' = FALSE

\* UpdateWIFIState reads the WIFI state outside of every lock: the monitor may store a
\* later one before the next step.
UpdateReadsWIFI ==
  /\ Running("wifi") /\ rpc' = "wifi_store"
  /\ UNCHANGED <<ifaceVars, startedCtx, pending, waiting, runner, live, envVars, closer>>

\* onWIFIStateChanged with what was read, perhaps before a change, and with no state at
\* all if the reading failed: it is the state stored already, or it replaces that.
UpdateStoresWIFI ==
  /\ Running("wifi_store")
  /\ \/ rpc' = "check" /\ UNCHANGED <<environment, seen>>
     \/ rpc' = "post" /\ environment' = FALSE /\ seen' = FALSE
  /\ UNCHANGED <<ifaceVars, startedCtx, pending, waiting, runner, live, posting, timer, fired, updater, closer>>

UpdatePosts ==
  /\ Running("post") /\ rpc' = "check"
  /\ PostUpdateNetworkEnvironment
  /\ UNCHANGED <<ifaceVars, startedCtx, pending, waiting, runner, live, posting, fired, updater, seen, environment, closer>>

Alive == live /\ startedCtx # "done"

UpdateChecks ==
  /\ Running("check")
  /\ IF Alive THEN rpc' = "environment" /\ UNCHANGED <<runner, live>> ELSE Unlocks
  /\ UNCHANGED <<ifaceVars, startedCtx, pending, waiting, envVars, closer>>

UpdateLooks ==
  /\ Running("environment") /\ rpc' = "store"
  /\ UpdateReads("update")
  /\ UNCHANGED <<ifaceVars, startedCtx, pending, waiting, runner, live, posting, fired, environment, closer>>

UpdateKeeps ==
  /\ Running("store") /\ rpc' = "decide"
  /\ UpdateStores("update")
  /\ UNCHANGED <<ifaceVars, startedCtx, pending, waiting, runner, live, posting, timer, fired, closer>>

\* Mutant: a cancelled update clears the flag all the same.
UpdateDecidesAnyway ==
  /\ Running("decide")
  /\ pending' = FALSE
  /\ IF Alive /\ pending THEN rpc' = "reset" /\ UNCHANGED <<runner, live>> ELSE Unlocks
  /\ UNCHANGED <<ifaceVars, startedCtx, waiting, envVars, closer>>

\* Mutant: nothing is reset if the environment turns out to be the same.
UpdateDecidesIfOther ==
  /\ Running("decide")
  /\ \/ Alive /\ pending /\ pending' = FALSE /\ rpc' = "reset" /\ UNCHANGED <<runner, live>>
     \/ Unlocks /\ UNCHANGED pending
  /\ UNCHANGED <<ifaceVars, startedCtx, waiting, envVars, closer>>

UpdateDecides ==
  /\ Running("decide")
  /\ IF Alive /\ pending
     THEN pending' = FALSE /\ rpc' = "reset" /\ UNCHANGED <<runner, live>>
     ELSE Unlocks /\ UNCHANGED pending
  /\ UNCHANGED <<ifaceVars, startedCtx, waiting, envVars, closer>>

\* A reset after the system resumed, unless it was suspended again meanwhile: it
\* takes resetRunAccess too.
ResumeBegins ==
  /\ startedCtx = "active" /\ runner = "none"
  /\ runner' = "resume" /\ rpc' = "reset"
  /\ UNCHANGED <<ifaceVars, startedCtx, pending, waiting, live, envVars, closer>>

\* ResetNetwork closes connections and tells endpoints, inbounds and outbounds,
\* and then resets the DNS transports: Reset of a multiplexer, in two steps.
ResetsNetwork ==
  /\ rpc = "reset" /\ rpc' = "clear"
  /\ UNCHANGED <<ifaceVars, startedCtx, pending, waiting, runner, live, envVars, closer>>

ResetEnds ==
  /\ rpc = "clear" /\ Unlocks
  /\ UNCHANGED <<ifaceVars, startedCtx, pending, waiting, envVars, closer>>

----------------------------------------------------------------------------
(* Close. *)

\* The listeners go first, then the context of all updates.
CloseCancels ==
  /\ closer = "none"
  /\ IF startedCtx = "nil"
     THEN closer' = "locked" /\ UNCHANGED startedCtx
     ELSE closer' = "cancelled" /\ startedCtx' = "done"
  /\ UNCHANGED <<ifaceVars, pending, waiting, runner, rpc, live, envVars>>

\* It waits for the reset that runs, and keeps others out until it returns.
CloseLocks ==
  /\ closer = "cancelled" /\ closer' = "locked"
  /\ runner = "none" /\ runner' = "close"
  /\ UNCHANGED <<ifaceVars, startedCtx, pending, waiting, rpc, live, envVars>>

CloseStops ==
  /\ closer = "locked" /\ closer' = "stopped"
  /\ updater = "none" /\ timer' = FALSE
  /\ UNCHANGED <<ifaceVars, runVars, posting, fired, updater, seen, environment>>

\* The WIFI monitor is closed last.
CloseReturns ==
  /\ closer = "stopped" /\ closer' = "returned"
  /\ runner' = IF runner = "close" THEN "none" ELSE runner
  /\ UNCHANGED <<ifaceVars, startedCtx, pending, waiting, rpc, live, envVars>>

NetStep ==
  \/ NotifyInterfaceUpdate \/ PostStart
  \/ EnvironmentChanges \/ MonitorPosts \/ TimerFires \/ TimerReads \/ TimerStores
  \/ UpdateBegins \/ UpdateReadsWIFI \/ UpdateStoresWIFI \/ UpdatePosts \/ UpdateChecks
  \/ UpdateLooks \/ UpdateKeeps \/ UpdateDecides \/ ResumeBegins
  \/ CloseLocks \/ CloseStops \/ CloseReturns

\* The update that runs has not been overtaken and has yet to do something.
Before(points) == runner = "update" /\ live /\ rpc \in points
=============================================================================
