--------------------------- MODULE StartedService ---------------------------
(***************************************************************************)
(* daemon.StartedService (daemon/started_service.go, daemon/instance.go):  *)
(* the service that graphical clients drive.  A call to start, reload or   *)
(* stop it first interrupts a start in progress and then waits for         *)
(* lifecycleAccess; the state is read and written under serviceAccess,     *)
(* which is not held while an instance is created, started or closed.      *)
(*                                                                         *)
(* A section under serviceAccess is one step, and so is each call that is  *)
(* made outside it.                                                        *)
(***************************************************************************)
EXTENDS Naturals, Sequences

CONSTANTS
  MaxCalls,   \* bound on the calls of StartOrReloadService and CloseService
  Followers,  \* streams in followInstance
  Waiters,    \* streams and calls in waitForStarted
  EmitBuffer, \* capacity of serviceStatusSubscriber
  Inbox,      \* and of a subscription to it
  MaxBoxes    \* bound on the instances created

ASSUME BoundsAssumption == MaxCalls \in Nat /\ MaxBoxes \in Nat /\ EmitBuffer \in Nat \ {0} /\ Inbox \in Nat \ {0}

Calls == 1..MaxCalls  \* in the order they are made
Boxes == 1..MaxBoxes

VARIABLES
  lifecycle,         \* the calls that hold lifecycleAccess
  status,            \* s.serviceStatus
  instance,          \* s.instance; 0 is nil
  closed,            \* s.closed
  startInterrupted,  \* s.startInterrupted
  made,              \* instances created so far
  box,               \* of an instance: "none", "new", "running", "closed"
  cancelled,         \* instances whose ctx is cancelled
  pc,                \* of a call
  mine,              \* the instance it closes or starts; 0 is none
  fpc,               \* of a follower: "none", "read", "run", "ended"
  view,              \* the instance its run function was given; 0 is nil
  notified,          \* followers with an update in their status subscription
  emitted,           \* updates that serviceStatusObserver has yet to distribute
  wpc,               \* of a waiter: "none", "read", "wait", "ended"
  inbox,             \* the updates in its subscription
  missed             \* history: the waiters that an update did not reach

callVars == <<pc, mine>>
boxVars == <<made, box, cancelled>>
followVars == <<fpc, view>>
eventVars == <<notified, emitted, wpc, inbox, missed>>
vars == <<lifecycle, status, instance, closed, startInterrupted, boxVars, callVars,
          followVars, eventVars>>

Statuses == {"IDLE", "STARTING", "STARTED", "STOPPING", "FATAL"}
Points == {"none", "start_lock", "stop_lock", "begin", "close_old", "starting", "new",
           "install", "start", "started", "failed", "discard", "stop", "close", "idle", "ended"}

TypeOK ==
  /\ lifecycle \in SUBSET Calls
  /\ status \in Statuses
  /\ instance \in 0..MaxBoxes /\ closed \in BOOLEAN /\ startInterrupted \in BOOLEAN
  /\ made \in 0..MaxBoxes
  /\ box \in [Boxes -> {"none", "new", "running", "closed"}]
  /\ cancelled \in SUBSET Boxes
  /\ pc \in [Calls -> Points] /\ mine \in [Calls -> 0..MaxBoxes]
  /\ fpc \in [Followers -> {"none", "read", "run", "ended"}]
  /\ view \in [Followers -> 0..MaxBoxes]
  /\ notified \in SUBSET Followers /\ missed \in SUBSET Waiters
  /\ emitted \in Seq(Statuses) /\ Len(emitted) <= EmitBuffer
  /\ wpc \in [Waiters -> {"none", "read", "wait", "ended"}]
  /\ inbox \in [Waiters -> Seq(Statuses)] /\ \A w \in Waiters : Len(inbox[w]) <= Inbox

Init ==
  /\ lifecycle = {} /\ status = "IDLE" /\ instance = 0
  /\ closed = FALSE /\ startInterrupted = FALSE
  /\ made = 0 /\ box = [b \in Boxes |-> "none"] /\ cancelled = {}
  /\ pc = [c \in Calls |-> "none"] /\ mine = [c \in Calls |-> 0]
  /\ fpc = [f \in Followers |-> "none"] /\ view = [f \in Followers |-> 0]
  /\ notified = {} /\ emitted = <<>> /\ missed = {}
  /\ wpc = [w \in Waiters |-> "none"] /\ inbox = [w \in Waiters |-> <<>>]

Goto(c, point) == pc' = [pc EXCEPT ![c] = point]

\* The call returns and lifecycleAccess is released.
Return(c) ==
  /\ Goto(c, "ended")
  /\ mine' = [mine EXCEPT ![c] = 0]
  /\ lifecycle' = lifecycle \ {c}

\* updateStatus and updateStatusError: Emit drops the update if the buffer is full.
UpdateStatus(new) ==
  /\ status' = new
  /\ IF closed THEN UNCHANGED <<emitted, missed>>
     ELSE IF Len(emitted) < EmitBuffer THEN emitted' = Append(emitted, new) /\ UNCHANGED missed
     ELSE UNCHANGED emitted /\ missed' = missed \cup {w \in Waiters : wpc[w] \in {"read", "wait"}}
  /\ UNCHANGED <<notified, wpc, inbox>>

\* Instance.Close: cancel the context, close the box.
CloseBox(b) ==
  /\ box' = [box EXCEPT ![b] = "closed"]
  /\ cancelled' = cancelled \cup {b}

----------------------------------------------------------------------------
(* StartOrReloadService and CloseService up to the lock. *)

\* interruptStart.
Interrupt ==
  IF status = "STARTING" /\ instance # 0
  THEN startInterrupted' = TRUE /\ cancelled' = cancelled \cup {instance}
  ELSE UNCHANGED <<startInterrupted, cancelled>>

Enter(c) ==
  /\ pc[c] = "none" /\ \A d \in 1..(c - 1) : pc[d] # "none"
  /\ \E point \in {"start_lock", "stop_lock"} : Goto(c, point)
  /\ Interrupt
  /\ UNCHANGED <<lifecycle, status, instance, closed, made, box, mine, followVars, eventVars>>

Lock(c) ==
  /\ pc[c] \in {"start_lock", "stop_lock"}
  /\ lifecycle = {} /\ lifecycle' = {c}
  /\ Goto(c, IF pc[c] = "start_lock" THEN "begin" ELSE "stop")
  /\ UNCHANGED <<status, instance, closed, startInterrupted, boxVars, mine, followVars, eventVars>>

----------------------------------------------------------------------------
(* StartOrReloadService. *)

BeginClosed(c) ==
  /\ pc[c] = "begin" /\ closed
  /\ Return(c)
  /\ UNCHANGED <<status, instance, closed, startInterrupted, boxVars, followVars, eventVars>>

BeginReload(c) ==
  /\ pc[c] = "begin" /\ ~closed /\ instance # 0
  /\ mine' = [mine EXCEPT ![c] = instance] /\ instance' = 0
  /\ UpdateStatus("STOPPING")
  /\ Goto(c, "close_old")
  /\ UNCHANGED <<lifecycle, closed, startInterrupted, boxVars, followVars>>

CloseOld(c) ==
  /\ pc[c] = "close_old"
  /\ CloseBox(mine[c]) /\ mine' = [mine EXCEPT ![c] = 0]
  /\ Goto(c, "starting")
  /\ UNCHANGED <<lifecycle, status, instance, closed, startInterrupted, made, followVars, eventVars>>

\* STARTING: after the old instance is closed, or at once if there is none.
Starting(c) ==
  /\ \/ pc[c] = "starting"
     \/ pc[c] = "begin" /\ ~closed /\ instance = 0
  /\ startInterrupted' = FALSE
  /\ UpdateStatus("STARTING")
  /\ Goto(c, "new")
  /\ UNCHANGED <<lifecycle, instance, closed, boxVars, mine, followVars>>

NewFails(c) ==
  /\ pc[c] = "new"
  /\ UpdateStatus("FATAL")
  /\ Return(c)
  /\ UNCHANGED <<instance, closed, startInterrupted, boxVars, followVars>>

NewInstance(c) ==
  /\ pc[c] = "new" /\ made < MaxBoxes
  /\ made' = made + 1
  /\ box' = [box EXCEPT ![made + 1] = "new"]
  /\ mine' = [mine EXCEPT ![c] = made + 1]
  /\ Goto(c, "install")
  /\ UNCHANGED <<lifecycle, status, instance, closed, startInterrupted, cancelled, followVars, eventVars>>

Install(c) ==
  /\ pc[c] = "install"
  /\ instance' = mine[c]
  /\ Goto(c, "start")
  /\ UNCHANGED <<lifecycle, status, closed, startInterrupted, boxVars, mine, followVars, eventVars>>

\* Box.Start.  A cancelled context makes it fail at the next component, so it
\* may be too late; a box that fails to start closes itself.
BoxStarts(c) ==
  /\ pc[c] = "start"
  /\ box' = [box EXCEPT ![mine[c]] = "running"]
  /\ Goto(c, "started")
  /\ UNCHANGED <<lifecycle, status, instance, closed, startInterrupted, made, cancelled, mine, followVars, eventVars>>

BoxFails(c) ==
  /\ pc[c] = "start"
  /\ box' = [box EXCEPT ![mine[c]] = "closed"]
  /\ Goto(c, "failed")
  /\ UNCHANGED <<lifecycle, status, instance, closed, startInterrupted, made, cancelled, mine, followVars, eventVars>>

\* Interrupted: s.instance is cleared, the status is left to the interrupter.
EndInterrupted(c) ==
  /\ pc[c] \in {"started", "failed"} /\ startInterrupted
  /\ startInterrupted' = FALSE /\ instance' = 0
  /\ Goto(c, "discard")
  /\ UNCHANGED <<lifecycle, status, closed, boxVars, mine, followVars, eventVars>>

EndFailed(c) ==
  /\ pc[c] = "failed" /\ ~startInterrupted
  /\ instance' = 0
  /\ UpdateStatus("FATAL")
  /\ Goto(c, "discard")
  /\ UNCHANGED <<lifecycle, closed, startInterrupted, boxVars, mine, followVars>>

EndStarted(c) ==
  /\ pc[c] = "started" /\ ~startInterrupted
  /\ UpdateStatus("STARTED")
  /\ Return(c)
  /\ UNCHANGED <<instance, closed, startInterrupted, boxVars, followVars>>

\* Mutant: an interrupted instance is not closed.
DiscardNothing(c) ==
  /\ pc[c] = "discard"
  /\ Return(c)
  /\ UNCHANGED <<status, instance, closed, startInterrupted, boxVars, followVars, eventVars>>

\* Mutant: lifecycleAccess is not released.
DiscardKeepsLock(c) ==
  /\ pc[c] = "discard"
  /\ CloseBox(mine[c])
  /\ Goto(c, "ended") /\ mine' = [mine EXCEPT ![c] = 0]
  /\ UNCHANGED <<lifecycle, status, instance, closed, startInterrupted, made, followVars, eventVars>>

Discard(c) ==
  /\ pc[c] = "discard"
  /\ CloseBox(mine[c])
  /\ Return(c)
  /\ UNCHANGED <<status, instance, closed, startInterrupted, made, followVars, eventVars>>

----------------------------------------------------------------------------
(* CloseService. *)

\* Mutant: nothing to do unless there is an instance.
StopNothingWithoutInstance(c) ==
  /\ pc[c] = "stop" /\ instance = 0
  /\ Return(c)
  /\ UNCHANGED <<status, instance, closed, startInterrupted, boxVars, followVars, eventVars>>

StopNothing(c) ==
  /\ pc[c] = "stop" /\ instance = 0 /\ status \notin {"STARTING", "STARTED"}
  /\ Return(c)
  /\ UNCHANGED <<status, instance, closed, startInterrupted, boxVars, followVars, eventVars>>

Stop(c) ==
  /\ pc[c] = "stop" /\ (instance # 0 \/ status \in {"STARTING", "STARTED"})
  /\ mine' = [mine EXCEPT ![c] = instance] /\ instance' = 0
  /\ UpdateStatus("STOPPING")
  /\ Goto(c, IF instance # 0 THEN "close" ELSE "idle")
  /\ UNCHANGED <<lifecycle, closed, startInterrupted, boxVars, followVars>>

CloseInstance(c) ==
  /\ pc[c] = "close"
  /\ CloseBox(mine[c]) /\ mine' = [mine EXCEPT ![c] = 0]
  /\ Goto(c, "idle")
  /\ UNCHANGED <<lifecycle, status, instance, closed, startInterrupted, made, followVars, eventVars>>

Idle(c) ==
  /\ pc[c] = "idle"
  /\ UpdateStatus("IDLE")
  /\ Return(c)
  /\ UNCHANGED <<instance, closed, startInterrupted, boxVars, followVars>>

----------------------------------------------------------------------------
(* SetError, Close, the status observer and followInstance. *)

SetError ==
  /\ status # "FATAL"
  /\ UpdateStatus("FATAL")
  /\ UNCHANGED <<lifecycle, instance, closed, startInterrupted, boxVars, callVars, followVars>>

Subscribed == {f \in Followers : fpc[f] \in {"read", "run"}}
Full(w) == Len(inbox[w]) >= Inbox

\* The observer passes an update on to the subscriptions, but not to a full one: what a
\* follower has not received yet serves as well.
Distribute ==
  /\ emitted # <<>> /\ emitted' = Tail(emitted)
  /\ notified' = notified \cup Subscribed
  /\ inbox' = [w \in Waiters |-> IF wpc[w] = "wait" /\ ~Full(w) THEN Append(inbox[w], Head(emitted))
                                 ELSE inbox[w]]
  /\ missed' = missed \cup {w \in Waiters : wpc[w] = "read" \/ (wpc[w] = "wait" /\ Full(w))}
  /\ UNCHANGED <<lifecycle, status, instance, closed, startInterrupted, boxVars, callVars, followVars, wpc>>

\* Close also ends the subscriptions, and the streams with them.
Close ==
  /\ ~closed /\ closed' = TRUE
  /\ fpc' = [f \in Followers |-> IF f \in Subscribed THEN "ended" ELSE fpc[f]]
  /\ wpc' = [w \in Waiters |-> IF wpc[w] = "wait" THEN "ended" ELSE wpc[w]]
  /\ view' = [f \in Followers |-> 0]
  /\ emitted' = <<>> /\ notified' = {} /\ inbox' = [w \in Waiters |-> <<>>] /\ missed' = {}
  /\ UNCHANGED <<lifecycle, status, instance, startInterrupted, boxVars, callVars>>

Subscribe(f) ==
  /\ fpc[f] = "none" /\ ~closed
  /\ fpc' = [fpc EXCEPT ![f] = "read"]
  /\ UNCHANGED <<lifecycle, status, instance, closed, startInterrupted, boxVars, callVars, view, eventVars>>

\* What a follower is given: the instance, if the service is STARTED.
Serving == IF status = "STARTED" THEN instance ELSE 0

Read(f) ==
  /\ fpc[f] = "read"
  /\ fpc' = [fpc EXCEPT ![f] = "run"]
  /\ view' = [view EXCEPT ![f] = Serving]
  /\ UNCHANGED <<lifecycle, status, instance, closed, startInterrupted, boxVars, callVars, eventVars>>

\* Mutant: run goes on.
NotifiedKeeps(f) ==
  /\ fpc[f] = "run" /\ f \in notified
  /\ notified' = notified \ {f}
  /\ UNCHANGED <<lifecycle, status, instance, closed, startInterrupted, boxVars, callVars, followVars,
                 emitted, wpc, inbox, missed>>

\* An update cancels run, and the state is read again.
Notified(f) ==
  /\ fpc[f] = "run" /\ f \in notified
  /\ notified' = notified \ {f}
  /\ fpc' = [fpc EXCEPT ![f] = "read"] /\ view' = [view EXCEPT ![f] = 0]
  /\ UNCHANGED <<lifecycle, status, instance, closed, startInterrupted, boxVars, callVars, emitted, wpc, inbox, missed>>

----------------------------------------------------------------------------
(* waitForStarted. *)

WaitVars(w, point, updates) ==
  /\ wpc' = [wpc EXCEPT ![w] = point] /\ inbox' = [inbox EXCEPT ![w] = updates]
  /\ missed' = IF point = "ended" THEN missed \ {w} ELSE missed
  /\ UNCHANGED <<lifecycle, status, instance, closed, startInterrupted, boxVars, callVars, followVars,
                 notified, emitted>>

\* It reads the status and returns unless that is STARTING, ...
WaitReads(w) == wpc[w] = "none" /\ WaitVars(w, IF status = "STARTING" THEN "read" ELSE "ended", <<>>)

\* ... subscribes, ...
WaitSubscribes(w) == wpc[w] = "read" /\ WaitVars(w, IF closed THEN "ended" ELSE "wait", <<>>)

\* ... and returns at the first update to another status.
WaitReceives(w) ==
  /\ wpc[w] = "wait" /\ inbox[w] # <<>>
  /\ IF Head(inbox[w]) = "STARTING" THEN WaitVars(w, "wait", Tail(inbox[w]))
     ELSE WaitVars(w, "ended", <<>>)

\* The context of the caller ends.
WaitCancelled(w) == wpc[w] = "wait" /\ WaitVars(w, "ended", <<>>)

----------------------------------------------------------------------------

StartStep(c) ==
  \/ BeginClosed(c) \/ BeginReload(c) \/ CloseOld(c) \/ Starting(c)
  \/ NewFails(c) \/ NewInstance(c) \/ Install(c) \/ BoxStarts(c) \/ BoxFails(c)
  \/ EndInterrupted(c) \/ EndFailed(c) \/ EndStarted(c) \/ Discard(c)

StopStep(c) == StopNothing(c) \/ Stop(c) \/ CloseInstance(c) \/ Idle(c)

FollowStep(f) == Read(f) \/ Notified(f)

Next ==
  \/ \E c \in Calls : Enter(c) \/ Lock(c) \/ StartStep(c) \/ StopStep(c)
  \/ \E f \in Followers : Subscribe(f) \/ FollowStep(f)
  \/ \E w \in Waiters : WaitReads(w) \/ WaitSubscribes(w) \/ WaitReceives(w) \/ WaitCancelled(w)
  \/ Distribute \/ SetError \/ Close

Spec == Init /\ [][Next]_vars

\* Box.Start of a box whose context nobody has cancelled.
Starts(c) == pc[c] = "start" /\ mine[c] \notin cancelled

\* The goroutines of the calls run, creating and closing a box returns, and a mutex that is
\* free is granted.  Box.Start need not return before its context is cancelled.
FairSpec == Spec /\ \A c \in Calls : WF_vars(~Starts(c) /\ (Lock(c) \/ StartStep(c) \/ StopStep(c)))

----------------------------------------------------------------------------
(* Properties. *)

Open == {b \in Boxes : box[b] \in {"new", "running"}}

\* Two boxes never exist together, although calls overlap and a start can be
\* interrupted: both would bind the same ports.  The one that is open is s.instance,
\* or in the hands of a call that holds lifecycleAccess: none is forgotten.
OneBox ==
  /\ \A a, b \in Open : a = b
  /\ \A b \in Open : b = instance \/ \E c \in lifecycle : mine[c] = b

\* The status tells the truth.  While it is STARTED there is an instance and its
\* box runs: a dozen RPC handlers test the status and then dereference s.instance.
\* An interrupted start leaves the status STARTING to the call that interrupted it,
\* which never fails to settle it: between calls the service is IDLE without an
\* instance, STARTED or FATAL, unless it was closed.
StatusTrue ==
  /\ status = "STARTED" => instance # 0 /\ box[instance] = "running"
  /\ (~closed /\ \A c \in Calls : pc[c] \in {"none", "ended"}) =>
       /\ status \in {"IDLE", "STARTED", "FATAL"}
       /\ status = "IDLE" => instance = 0
       /\ startInterrupted = FALSE

\* Who watches the status and is behind has an update waiting or on the way: a stream
\* that runs on an instance the service no longer serves, as followInstance
\* subscribes before it reads; and waitForStarted when it goes on waiting although
\* the service is no longer STARTING, unless an update came between its reading of
\* the status and its subscription, or found a buffer full.
WatchersTold ==
  /\ \A f \in Followers : (fpc[f] = "run" /\ view[f] # Serving) => f \in notified \/ emitted # <<>>
  /\ \A w \in Waiters \ missed : (wpc[w] = "wait" /\ status # "STARTING" /\ ~closed) =>
       \E n \in 1..(Len(inbox[w]) + Len(emitted)) : (inbox[w] \o emitted)[n] = status

\* Every call to start, reload or stop the service returns, whatever it overlaps with,
\* unless one hangs in a Box.Start that interruptStart has not cancelled, its own or that of
\* the call it waits for.  (A call that comes before the instance is stored, or after SetError
\* has changed the status, interrupts nothing and waits for the start to end by itself.)
CallsReturn ==
  []<>(\A d \in Calls : ~Starts(d)) => \A c \in Calls : (pc[c] # "none") ~> (pc[c] = "ended")
=============================================================================
