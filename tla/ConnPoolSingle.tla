--------------------------- MODULE ConnPoolSingle ---------------------------
(***************************************************************************)
(* ConnPool in ConnPoolSingle mode (dns/transport/conn_pool.go): one       *)
(* connection shared by every caller, dialled by one goroutine at a time,  *)
(* and replaced together with the whole connPoolState by Reset and Close.  *)
(*                                                                         *)
(* A section under p.access is one step; so is each call of options.Close, *)
(* which the code makes after unlocking.  A connection is named after the  *)
(* connectSingle goroutine that dialled it.                                *)
(***************************************************************************)
EXTENDS Naturals

CONSTANTS
  Calls,      \* calls of AcquireShared, with the use of what they return
  MaxStates,  \* bound on the connPoolState values made by NewConnPool and Reset
  MaxDials    \* bound on the connectSingle goroutines started

ASSUME BoundsAssumption == MaxStates \in Nat \ {0} /\ MaxDials \in Nat

States == 1..MaxStates
Dials == 1..MaxDials

VARIABLES
  detects,        \* options.IsAlive tells a broken or closed connection: it does for
                  \* QUIC connections, and does not for multiplexed ones
  closed,         \* p.closed
  state,          \* p.state; 0 is nil
  made,           \* states made so far
  cancelled,      \* state.ctx is cancelled
  all,            \* state.all
  shared,         \* state.shared; 0 when ~hasShared
  sharedClaimed,  \* state.sharedClaimed
  connecting,     \* state.connecting; 0 is nil
  dials,          \* goroutines started so far
  dpc,            \* of a goroutine: "none", "dial", "install", "finish", "done"
  dgen,           \* its state, "current" in the code
  leader,         \* the call whose ctx it dials with
  derr,           \* connPoolConnect.err # nil, or the dial's error before that
  dead,           \* connections that broke, where IsAlive can tell
  shut,           \* connections passed to options.Close, and dials that gave none
  pc,             \* of a call
  cur,            \* its "current"
  await,          \* the goroutine it waits for
  startDial,      \* it started that goroutine
  ctxDone,        \* its ctx is done
  got,            \* the connection in its hands; 0 is none
  handed,         \* history: the connections returned by acquireShared
  claims          \* history: how often one was returned with created = true

poolVars == <<detects, closed, state, made, cancelled>>
stateVars == <<all, shared, sharedClaimed, connecting>>
dialVars == <<dials, dpc, dgen, leader, derr>>
connVars == <<dead, shut>>
callVars == <<pc, cur, await, startDial, ctxDone, got, handed, claims>>
vars == <<poolVars, stateVars, dialVars, connVars, callVars>>

\* "close_retry" and "close" are calls of options.Close that are due.
Points == {"start", "loop", "wait", "using", "close_retry", "close", "ended"}

TypeOK ==
  /\ detects \in BOOLEAN
  /\ closed \in BOOLEAN /\ state \in 0..MaxStates /\ made \in States
  /\ cancelled \in [States -> BOOLEAN]
  /\ all \in [States -> SUBSET Dials]
  /\ shared \in [States -> 0..MaxDials]
  /\ sharedClaimed \in [States -> BOOLEAN]
  /\ connecting \in [States -> 0..MaxDials]
  /\ dials \in 0..MaxDials
  /\ dpc \in [Dials -> {"none", "dial", "install", "finish", "done"}]
  /\ dgen \in [Dials -> 0..MaxStates]
  /\ leader \in [Dials -> Calls \cup {0}]
  /\ derr \in [Dials -> BOOLEAN]
  /\ dead \in SUBSET Dials /\ shut \in SUBSET Dials
  /\ pc \in [Calls -> Points]
  /\ cur \in [Calls -> 0..MaxStates] /\ await \in [Calls -> 0..MaxDials]
  /\ startDial \in [Calls -> BOOLEAN] /\ ctxDone \in [Calls -> BOOLEAN]
  /\ got \in [Calls -> 0..MaxDials]
  /\ handed \in SUBSET Dials /\ claims \in [Dials -> Nat]

Init ==
  /\ detects \in BOOLEAN
  /\ closed = FALSE /\ state = 1 /\ made = 1
  /\ cancelled = [g \in States |-> FALSE]
  /\ all = [g \in States |-> {}]
  /\ shared = [g \in States |-> 0]
  /\ sharedClaimed = [g \in States |-> FALSE]
  /\ connecting = [g \in States |-> 0]
  /\ dials = 0
  /\ dpc = [d \in Dials |-> "none"] /\ dgen = [d \in Dials |-> 0]
  /\ leader = [d \in Dials |-> 0] /\ derr = [d \in Dials |-> FALSE]
  /\ dead = {} /\ shut = {}
  /\ pc = [c \in Calls |-> "start"]
  /\ cur = [c \in Calls |-> 0] /\ await = [c \in Calls |-> 0]
  /\ startDial = [c \in Calls |-> FALSE] /\ ctxDone = [c \in Calls |-> FALSE]
  /\ got = [c \in Calls |-> 0]
  /\ handed = {} /\ claims = [d \in Dials |-> 0]

IsAlive(x) == detects => x \notin dead \cup shut

Goto(c, p) == pc' = [pc EXCEPT ![c] = p]

\* MUTANT of RemoveConn: the next connection starts out as claimed.
RemoveConnKeepsClaim(g, x) ==
  /\ all' = [all EXCEPT ![g] = @ \ {x}]
  /\ shared' = [shared EXCEPT ![g] = IF @ = x THEN 0 ELSE @]
  /\ UNCHANGED sharedClaimed

\* removeConn; the cancellation of sharedCtx is seen by the connection's users.
RemoveConn(g, x) ==
  /\ all' = [all EXCEPT ![g] = @ \ {x}]
  /\ shared' = [shared EXCEPT ![g] = IF @ = x THEN 0 ELSE @]
  /\ sharedClaimed' = [sharedClaimed EXCEPT ![g] = @ /\ shared[g] # x]

----------------------------------------------------------------------------
(* acquireShared.                                                          *)

\* The locals of acquireShared and its ctx end with it.
Forget(c) ==
  /\ cur' = [cur EXCEPT ![c] = 0]
  /\ await' = [await EXCEPT ![c] = 0]
  /\ startDial' = [startDial EXCEPT ![c] = FALSE]

Fail(c) ==
  /\ Goto(c, "ended")
  /\ Forget(c)
  /\ UNCHANGED <<ctxDone, got, handed, claims>>

Retry(c) ==
  /\ Goto(c, "loop")
  /\ Forget(c)
  /\ UNCHANGED <<ctxDone, got, handed, claims>>

\* "return conn, connCtx, created".
HandOut(c, x, created) ==
  /\ got' = [got EXCEPT ![c] = x]
  /\ handed' = handed \cup {x}
  /\ claims' = [claims EXCEPT ![x] = IF created THEN @ + 1 ELSE @]
  /\ Goto(c, "using")
  /\ Forget(c)

\* The shared connection is handed out; the first one to get it is its creator.
Claim(c, g) ==
  /\ HandOut(c, shared[g], ~sharedClaimed[g])
  /\ sharedClaimed' = [sharedClaimed EXCEPT ![g] = TRUE]

\* The shared connection is found dead and removed; closing it comes next.
Evict(c, g) ==
  /\ RemoveConn(g, shared[g])
  /\ got' = [got EXCEPT ![c] = shared[g]]
  /\ Goto(c, "close_retry")
  /\ Forget(c)
  /\ UNCHANGED <<handed, claims>>

AcquireClosed(c) ==
  /\ pc[c] \in {"start", "loop"} /\ closed
  /\ Fail(c)
  /\ UNCHANGED <<poolVars, stateVars, dialVars, connVars>>

AcquireHit(c) ==
  /\ pc[c] \in {"start", "loop"} /\ ~closed
  /\ shared[state] # 0 /\ IsAlive(shared[state])
  /\ Claim(c, state)
  /\ UNCHANGED <<poolVars, all, shared, connecting, dialVars, connVars, ctxDone>>

AcquireDead(c) ==
  /\ pc[c] \in {"start", "loop"} /\ ~closed
  /\ shared[state] # 0 /\ ~IsAlive(shared[state])
  /\ Evict(c, state)
  /\ UNCHANGED <<poolVars, connecting, dialVars, connVars, ctxDone>>

Wait(c, d, first) ==
  /\ cur' = [cur EXCEPT ![c] = state]
  /\ await' = [await EXCEPT ![c] = d]
  /\ startDial' = [startDial EXCEPT ![c] = first]
  /\ Goto(c, "wait")
  /\ UNCHANGED <<ctxDone, got, handed, claims>>

AcquireJoin(c) ==
  /\ pc[c] \in {"start", "loop"} /\ ~closed /\ shared[state] = 0
  /\ connecting[state] # 0
  /\ Wait(c, connecting[state], FALSE)
  /\ UNCHANGED <<poolVars, stateVars, dialVars, connVars>>

\* The goroutine of connectSingle runs from here on by itself.
StartDial(c) ==
  LET d == dials + 1 IN
    /\ dials' = d
    /\ dpc' = [dpc EXCEPT ![d] = "dial"]
    /\ dgen' = [dgen EXCEPT ![d] = state]
    /\ leader' = [leader EXCEPT ![d] = c]
    /\ connecting' = [connecting EXCEPT ![state] = d]
    /\ Wait(c, d, TRUE)
    /\ UNCHANGED derr

AcquireDial(c) ==
  /\ pc[c] \in {"start", "loop"} /\ ~closed /\ shared[state] = 0
  /\ connecting[state] = 0 /\ dials < MaxDials
  /\ StartDial(c)
  /\ UNCHANGED <<poolVars, all, shared, sharedClaimed, connVars>>

\* MUTANT of CollectError: the error of another caller's dial is returned.
CollectErrorToAll(c) ==
  /\ pc[c] = "wait" /\ dpc[await[c]] = "done" /\ derr[await[c]]
  /\ Fail(c)
  /\ UNCHANGED <<poolVars, stateVars, dialVars, connVars>>

\* collectShared with state.err # nil: only the call that started the dial
\* reports it.
CollectError(c) ==
  /\ pc[c] = "wait" /\ dpc[await[c]] = "done" /\ derr[await[c]]
  /\ IF startDial[c] THEN Fail(c) ELSE Retry(c)
  /\ UNCHANGED <<poolVars, stateVars, dialVars, connVars>>

CollectStale(c) ==
  /\ pc[c] = "wait" /\ dpc[await[c]] = "done" /\ ~derr[await[c]]
  /\ closed \/ state # cur[c]
  /\ Fail(c)
  /\ UNCHANGED <<poolVars, stateVars, dialVars, connVars>>

\* The connection has been removed before the call came to collect it.
CollectGone(c) ==
  /\ pc[c] = "wait" /\ dpc[await[c]] = "done" /\ ~derr[await[c]]
  /\ ~closed /\ state = cur[c] /\ shared[state] = 0
  /\ Retry(c)
  /\ UNCHANGED <<poolVars, stateVars, dialVars, connVars>>

CollectDead(c) ==
  /\ pc[c] = "wait" /\ dpc[await[c]] = "done" /\ ~derr[await[c]]
  /\ ~closed /\ state = cur[c] /\ shared[state] # 0 /\ ~IsAlive(shared[state])
  /\ Evict(c, state)
  /\ UNCHANGED <<poolVars, connecting, dialVars, connVars, ctxDone>>

\* MUTANT of CollectShared: the state may have been replaced during the wait.
CollectSharedStale(c) ==
  /\ pc[c] = "wait" /\ dpc[await[c]] = "done" /\ ~derr[await[c]]
  /\ shared[cur[c]] # 0 /\ IsAlive(shared[cur[c]])
  /\ Claim(c, cur[c])
  /\ UNCHANGED <<poolVars, all, shared, connecting, dialVars, connVars, ctxDone>>

CollectShared(c) ==
  /\ pc[c] = "wait" /\ dpc[await[c]] = "done" /\ ~derr[await[c]]
  /\ ~closed /\ state = cur[c] /\ shared[state] # 0 /\ IsAlive(shared[state])
  /\ Claim(c, state)
  /\ UNCHANGED <<poolVars, all, shared, connecting, dialVars, connVars, ctxDone>>

\* <-ctx.Done() in the select.
WaitCtxDone(c) ==
  /\ pc[c] = "wait" /\ ctxDone[c]
  /\ Fail(c)
  /\ UNCHANGED <<poolVars, stateVars, dialVars, connVars>>

\* <-current.ctx.Done() in the select: after Reset the call starts over.
WaitStateDone(c) ==
  /\ pc[c] = "wait" /\ cancelled[cur[c]]
  /\ IF closed THEN Fail(c) ELSE Retry(c)
  /\ UNCHANGED <<poolVars, stateVars, dialVars, connVars>>

\* options.Close after the unlock.
CloseConn(c) ==
  /\ pc[c] \in {"close_retry", "close"}
  /\ shut' = shut \cup {got[c]}
  /\ got' = [got EXCEPT ![c] = 0]
  /\ Goto(c, IF pc[c] = "close" THEN "ended" ELSE "loop")
  /\ UNCHANGED <<poolVars, stateVars, dialVars, dead, cur, await, startDial, ctxDone, handed, claims>>

----------------------------------------------------------------------------
(* What the caller does with the connection.                               *)

Tracked(x) == ~closed /\ x \in all[state]

\* Release(conn, reuse): reuse of a tracked, live connection changes nothing in
\* this mode.
ReleaseKeeps(c) ==
  /\ pc[c] = "using"
  /\ Tracked(got[c]) /\ IsAlive(got[c])
  /\ Goto(c, "ended")
  /\ got' = [got EXCEPT ![c] = 0]
  /\ UNCHANGED <<poolVars, stateVars, dialVars, connVars, cur, await, startDial, ctxDone, handed, claims>>

\* Release of a connection of a closed pool or of another state.
ReleaseForeign(c) ==
  /\ pc[c] = "using"
  /\ ~Tracked(got[c])
  /\ Goto(c, "close")
  /\ UNCHANGED <<poolVars, stateVars, dialVars, connVars, cur, await, startDial, ctxDone, got, handed, claims>>

\* MUTANT of ReleaseRemoves: the connection is removed and never closed.
ReleaseForgets(c) ==
  /\ pc[c] = "using"
  /\ Tracked(got[c])
  /\ RemoveConn(state, got[c])
  /\ Goto(c, "ended")
  /\ UNCHANGED <<poolVars, connecting, dialVars, connVars, cur, await, startDial, ctxDone, got, handed, claims>>

\* Release without reuse, or Invalidate, of a tracked connection.
ReleaseRemoves(c) ==
  /\ pc[c] = "using"
  /\ Tracked(got[c])
  /\ RemoveConn(state, got[c])
  /\ Goto(c, "close")
  /\ UNCHANGED <<poolVars, connecting, dialVars, connVars, cur, await, startDial, ctxDone, got, handed, claims>>

\* Invalidate returns without closing what is not tracked.
InvalidateForeign(c) ==
  /\ pc[c] = "using"
  /\ ~closed /\ ~Tracked(got[c])
  /\ Goto(c, "ended")
  /\ got' = [got EXCEPT ![c] = 0]
  /\ UNCHANGED <<poolVars, stateVars, dialVars, connVars, cur, await, startDial, ctxDone, handed, claims>>

----------------------------------------------------------------------------
(* connectSingle.                                                          *)

\* context.Cause of dialCtx, or of current.ctx when its AfterFunc has not run.
DialCancelled(d) == ctxDone[leader[d]] \/ cancelled[dgen[d]]

\* The dial gives a connection; it is closed when the dial has been cancelled.
DialReturns(d) ==
  /\ dpc[d] = "dial"
  /\ derr' = [derr EXCEPT ![d] = DialCancelled(d)]
  /\ shut' = IF DialCancelled(d) THEN shut \cup {d} ELSE shut
  /\ dpc' = [dpc EXCEPT ![d] = "install"]
  /\ UNCHANGED <<poolVars, stateVars, dials, dgen, leader, dead, callVars>>

\* No connection: there is nothing left to close.
DialFails(d) ==
  /\ dpc[d] = "dial"
  /\ derr' = [derr EXCEPT ![d] = TRUE]
  /\ dpc' = [dpc EXCEPT ![d] = "install"]
  /\ shut' = shut \cup {d}
  /\ UNCHANGED <<poolVars, stateVars, dials, dgen, leader, dead, callVars>>

\* MUTANT of Install: a failed dial stays the dial under way.
InstallKeepsConnecting(d) ==
  /\ dpc[d] = "install"
  /\ connecting' = [connecting EXCEPT ![dgen[d]] = IF derr[d] THEN @ ELSE 0]
  /\ IF derr[d] \/ closed \/ state # dgen[d]
     THEN UNCHANGED <<all, shared>>
     ELSE /\ shared' = [shared EXCEPT ![dgen[d]] = d]
          /\ all' = [all EXCEPT ![dgen[d]] = @ \cup {d}]
  /\ derr' = [derr EXCEPT ![d] = @ \/ closed \/ state # dgen[d]]
  /\ dpc' = [dpc EXCEPT ![d] = "finish"]
  /\ UNCHANGED <<poolVars, sharedClaimed, dials, dgen, leader, connVars, callVars>>

\* The section under p.access.
Install(d) ==
  /\ dpc[d] = "install"
  /\ connecting' = [connecting EXCEPT ![dgen[d]] = 0]
  /\ IF derr[d] \/ closed \/ state # dgen[d]
     THEN UNCHANGED <<all, shared>>
     ELSE /\ shared' = [shared EXCEPT ![dgen[d]] = d]
          /\ all' = [all EXCEPT ![dgen[d]] = @ \cup {d}]
  /\ derr' = [derr EXCEPT ![d] = @ \/ closed \/ state # dgen[d]]
  /\ dpc' = [dpc EXCEPT ![d] = "finish"]
  /\ UNCHANGED <<poolVars, sharedClaimed, dials, dgen, leader, connVars, callVars>>

\* A connection that was not installed is closed; then done is closed.
Finish(d) ==
  /\ dpc[d] = "finish"
  /\ shut' = IF derr[d] THEN shut \cup {d} ELSE shut
  /\ dpc' = [dpc EXCEPT ![d] = "done"]
  /\ UNCHANGED <<poolVars, stateVars, dials, dgen, leader, derr, dead, callVars>>

----------------------------------------------------------------------------
(* Reset, Close, and the world.                                            *)

Reset ==
  /\ ~closed /\ made < MaxStates
  /\ made' = made + 1 /\ state' = made + 1
  /\ UNCHANGED <<detects, closed, cancelled, stateVars, dialVars, connVars, callVars>>

Close ==
  /\ ~closed
  /\ closed' = TRUE /\ state' = 0
  /\ UNCHANGED <<detects, made, cancelled, stateVars, dialVars, connVars, callVars>>

Retired(g) == g <= made /\ g # state

\* closeState: state.cancel, then options.Close for every connection of
\* state.all, which it reads without p.access.
CancelState(g) ==
  /\ Retired(g) /\ ~cancelled[g]
  /\ cancelled' = [cancelled EXCEPT ![g] = TRUE]
  /\ UNCHANGED <<detects, closed, state, made, stateVars, dialVars, connVars, callVars>>

CloseStateConn(g) ==
  /\ cancelled[g]
  /\ \E x \in all[g] \ shut : shut' = shut \cup {x}
  /\ UNCHANGED <<poolVars, stateVars, dialVars, dead, callVars>>

\* A ctx is looked at by the select and by the dial it was given to.
CtxDone(c) ==
  /\ pc[c] = "wait" /\ ~ctxDone[c]
  /\ ctxDone' = [ctxDone EXCEPT ![c] = TRUE]
  /\ UNCHANGED <<poolVars, stateVars, dialVars, connVars, pc, cur, await, startDial, got, handed, claims>>

Break(x) ==
  /\ \E g \in States : x \in all[g]
  /\ detects /\ x \notin dead \cup shut
  /\ dead' = dead \cup {x}
  /\ UNCHANGED <<poolVars, stateVars, dialVars, shut, callVars>>

CallStep(c) ==
  \/ AcquireClosed(c) \/ AcquireHit(c) \/ AcquireDead(c) \/ AcquireJoin(c) \/ AcquireDial(c)
  \/ CollectError(c) \/ CollectStale(c) \/ CollectGone(c) \/ CollectDead(c) \/ CollectShared(c)
  \/ WaitCtxDone(c) \/ WaitStateDone(c) \/ CloseConn(c)

UseStep(c) ==
  ReleaseKeeps(c) \/ ReleaseForeign(c) \/ ReleaseRemoves(c) \/ InvalidateForeign(c)

DialStep(d) == DialReturns(d) \/ DialFails(d) \/ Install(d) \/ Finish(d)

Next ==
  \/ \E c \in Calls : CallStep(c) \/ UseStep(c) \/ CtxDone(c)
  \/ \E d \in Dials : DialStep(d) \/ Break(d)
  \/ Reset \/ Close
  \/ \E g \in States : CancelState(g) \/ CloseStateConn(g)

\* Goroutines keep running and closeState runs to its end.  A dial whose context is
\* cancelled returns; one that nobody cancels may hang for ever.
Fairness ==
  /\ \A c \in Calls : WF_vars(pc[c] # "start" /\ CallStep(c))
  /\ \A d \in Dials : WF_vars((dpc[d] = "dial" => DialCancelled(d)) /\ DialStep(d))
  /\ \A g \in States : WF_vars(CancelState(g)) /\ WF_vars(CloseStateConn(g))

Spec == Init /\ [][Next]_vars /\ Fairness

----------------------------------------------------------------------------
(* Properties.                                                             *)

\* A connection somebody will close or keep: it is tracked by the current state,
\* or by a retired one that closeState has yet to sweep, or its goroutine has yet
\* to install or to close it, or a caller that removed it has yet to close it.
Kept(x) ==
  \/ \E g \in States : x \in all[g]
  \/ dpc[x] \in {"none", "dial", "install", "finish"}
  \/ \E c \in Calls : got[c] = x /\ pc[c] \in {"close_retry", "close"}

\* No dialled connection is leaked, whatever Reset, Close, a cancelled caller or
\* a late dial do: one that has not been closed is still kept by somebody.
NoLeak == \A x \in Dials : x \notin shut => Kept(x)

\* However the callers overlap, one dial is under way in a connPoolState and
\* "connecting" names it, and of the callers that its connection is handed to exactly
\* one is told created = true: the transports start the only reader on it.
OneCreator ==
  /\ \A d \in Dials : dpc[d] \in {"dial", "install"} => connecting[dgen[d]] = d
  /\ \A x \in handed : claims[x] = 1

\* What AcquireShared returns is tracked by the pool as it is when the call
\* unlocks, even if Reset or Close came while the call was waiting: a later Reset,
\* Close or Invalidate will find the connection.  Nor is it one the pool has
\* closed, even when IsAlive cannot tell: removal comes before that.
HandedOutTracked ==
  [][\A c \in Calls : pc[c] # "using" /\ pc'[c] = "using" => Tracked(got'[c]) /\ got'[c] \notin shut]_vars

\* A caller whose own ctx is live does not get the error of a dial that failed
\* because another caller's ctx was cancelled: while the pool is open and its
\* state is not replaced, a call that did not start the dial never fails.
FollowersUnharmed ==
  [][\A c \in Calls :
       (pc[c] = "wait" /\ pc'[c] = "ended" /\ ~startDial[c] /\ ~ctxDone[c])
         => (closed \/ state # cur[c])]_vars

\* A call waits for a dial that does not return and that nobody has cancelled.
Hanging(c) ==
  pc[c] = "wait" /\ dpc[await[c]] = "dial" /\ ~DialCancelled(await[c])

\* The next step of a call is a dial beyond the bound of the model.
Starved(c) ==
  /\ pc[c] = "loop" /\ ~closed /\ shared[state] = 0 /\ connecting[state] = 0
  /\ dials = MaxDials

\* acquireShared returns unless the dial it waits for hangs for good: a follower of a
\* failed dial does not go round for ever but comes to lead a dial itself, nobody
\* waits for a dial that has ended or that nobody runs, and a dial that hangs holds a
\* call no longer than until its ctx is done or Reset or Close retires the state.
AcquireReturns ==
  \A c \in Calls : pc[c] \in {"loop", "wait", "close_retry"} ~>
                   pc[c] \in {"using", "ended"} \/ Starved(c) \/ []Hanging(c)
=============================================================================
