------------------------------ MODULE Binding ------------------------------
(***************************************************************************)
(* The Python binding: the C++ class SingBox (src/src/singbox.cpp) over     *)
(* the registry of running services kept by the Go shared library           *)
(* (src/singbox-go/binding/main.go).                                        *)
(*                                                                         *)
(* Python threads call methods of SingBox objects.  Every method runs in    *)
(* three phases: a section under the object's mutex_, a native call with    *)
(* the interpreter lock released, and a second section under mutex_.  The   *)
(* sections are single steps here.  The native call is cut at every lock    *)
(* the Go code takes or releases, so that calls of different threads        *)
(* interleave at those points.                                              *)
(*                                                                         *)
(* A Go *instance is a number in 1..MaxStarts; 0 stands for nil.  A handle  *)
(* is a number in 1..MaxHandle (2^64 - 1 in the code); 0 is "stopped".      *)
(* A box is "started" when box.Start has returned nil, "closed" when Start  *)
(* or Close has closed its parts, and "panicked" when a panic has cut one   *)
(* of the two short: some of its parts may then be at work for good.        *)
(***************************************************************************)
EXTENDS Naturals

CONSTANTS Threads,    \* Python threads
          Objects,    \* SingBox objects
          MaxStarts,  \* bound: instances ever built
          MaxHandle,  \* largest value of the uint64 handle counter
          Free        \* "not locked"

ASSUME BoundsAssumption == MaxStarts \in Nat /\ MaxHandle \in Nat \ {0}
ASSUME FreeAssumption == Free \notin Threads

VARIABLES
  alive,                  \* object -> has been constructed and not destroyed
  handle_,                \* object -> handle of the service it owns, or 0
  operation_in_progress_, \* object -> a native call is under way
  next,                   \* instances.next
  byID,                   \* instances.byID
  built,                  \* number of instances built so far
  core,                   \* instance -> state of its box.Box
  closed,                 \* instance -> its closed flag
  cancelled,              \* instance -> its context has been cancelled
  access,                 \* instance -> holder of its access mutex, or Free
  pc, op, obj,            \* thread -> control point, method, receiver
  hnd, ld,                \* thread -> the locals handle and loaded
  res                     \* thread -> how the method returns

objVars  == <<alive, handle_, operation_in_progress_>>
regVars  == <<next, byID>>
instVars == <<built, core, closed, cancelled, access>>
callVars == <<pc, op, obj, hnd, ld, res>>
vars     == <<objVars, regVars, instVars, callVars>>

Handles   == 1..MaxHandle
Instances == 1..MaxStarts
Points    == {"idle", "build", "activate", "register", "start_end",
              "unregister", "close", "core_close", "stop_end",
              "load", "query", "snapshot", "query_end"}
Methods   == {"none", "start", "stop", "exit", "destroy", "query"}

TypeOK ==
  /\ alive \in [Objects -> BOOLEAN]
  /\ handle_ \in [Objects -> 0..MaxHandle]
  /\ operation_in_progress_ \in [Objects -> BOOLEAN]
  /\ next \in 0..MaxHandle
  /\ byID \in [Handles -> 0..MaxStarts]
  /\ built \in 0..MaxStarts
  /\ core \in [Instances -> {"absent", "built", "started", "closed", "panicked"}]
  /\ closed \in [Instances -> BOOLEAN]
  /\ cancelled \in [Instances -> BOOLEAN]
  /\ access \in [Instances -> Threads \cup {Free}]
  /\ pc \in [Threads -> Points]
  /\ op \in [Threads -> Methods]
  /\ obj \in [Threads -> Objects]
  /\ hnd \in [Threads -> 0..MaxHandle]
  /\ ld \in [Threads -> 0..MaxStarts]
  /\ res \in [Threads -> {"ok", "raised"}]

Init ==
  /\ alive = [o \in Objects |-> FALSE]
  /\ handle_ = [o \in Objects |-> 0]
  /\ operation_in_progress_ = [o \in Objects |-> FALSE]
  /\ next = 0
  /\ byID = [h \in Handles |-> 0]
  /\ built = 0
  /\ core = [i \in Instances |-> "absent"]
  /\ closed = [i \in Instances |-> FALSE]
  /\ cancelled = [i \in Instances |-> FALSE]
  /\ access = [i \in Instances |-> Free]
  /\ pc = [t \in Threads |-> "idle"]
  /\ op = [t \in Threads |-> "none"]
  /\ obj \in [Threads -> Objects]
  /\ hnd = [t \in Threads |-> 0]
  /\ ld = [t \in Threads |-> 0]
  /\ res = [t \in Threads |-> "ok"]

----------------------------------------------------------------------------
(* Objects and the sections under mutex_.                                   *)

Goto(t, p) == pc' = [pc EXCEPT ![t] = p]

Return(t, p, r) == Goto(t, p) /\ res' = [res EXCEPT ![t] = r]

\* No call on the object is under way, its destructor included.
Unreferenced(o) == \A t \in Threads : obj[t] = o => pc[t] = "idle"

Construct(o) ==
  /\ ~alive[o] /\ Unreferenced(o)
  /\ alive' = [alive EXCEPT ![o] = TRUE]
  /\ handle_' = [handle_ EXCEPT ![o] = 0]
  /\ operation_in_progress_' = [operation_in_progress_ EXCEPT ![o] = FALSE]
  /\ UNCHANGED <<regVars, instVars, callVars>>

\* A method called on a live object by a thread that is in no other call.
Call(t, o, m) ==
  /\ pc[t] = "idle" /\ alive[o]
  /\ op' = [op EXCEPT ![t] = m]
  /\ obj' = [obj EXCEPT ![t] = o]

Enter(t, o, m, h, p) ==
  /\ Call(t, o, m)
  /\ Return(t, p, "ok")
  /\ hnd' = [hnd EXCEPT ![t] = h]
  /\ ld' = [ld EXCEPT ![t] = 0]

\* The locals of a call end with it.
Leave(t) ==
  /\ Goto(t, "idle")
  /\ hnd' = [hnd EXCEPT ![t] = 0]
  /\ ld' = [ld EXCEPT ![t] = 0]
  /\ UNCHANGED <<op, obj, res>>

\* ensure_idle and the check of handle_ throw std::logic_error.
Refused(o, m) ==
  \/ operation_in_progress_[o]
  \/ m = "start" /\ handle_[o] # 0
  \/ m = "query" /\ handle_[o] = 0

Refuse(t, o, m) ==
  /\ Call(t, o, m)
  /\ Refused(o, m)
  /\ res' = [res EXCEPT ![t] = "raised"]
  /\ UNCHANGED <<objVars, regVars, instVars, pc, hnd, ld>>

StartFromJSON(t, o) ==
  /\ ~Refused(o, "start")
  /\ Enter(t, o, "start", 0, "build")
  /\ operation_in_progress_' = [operation_in_progress_ EXCEPT ![o] = TRUE]
  /\ UNCHANGED <<alive, handle_, regVars, instVars>>

\* MUTANT of EndStart: the handle is dropped.
EndStartDropsHandle(t) ==
  /\ pc[t] = "start_end"
  /\ operation_in_progress_' = [operation_in_progress_ EXCEPT ![obj[t]] = FALSE]
  /\ Leave(t)
  /\ UNCHANGED <<alive, handle_, regVars, instVars>>

EndStart(t) ==
  /\ pc[t] = "start_end"
  /\ operation_in_progress_' = [operation_in_progress_ EXCEPT ![obj[t]] = FALSE]
  /\ handle_' = [handle_ EXCEPT ![obj[t]] = IF res[t] = "ok" THEN hnd[t] ELSE @]
  /\ Leave(t)
  /\ UNCHANGED <<alive, regVars, instVars>>

\* stop() of an object that owns nothing returns at once.
StopNothing(t, o, m) ==
  /\ Call(t, o, m)
  /\ ~operation_in_progress_[o] /\ handle_[o] = 0
  /\ res' = [res EXCEPT ![t] = "ok"]
  /\ UNCHANGED <<objVars, regVars, instVars, pc, hnd, ld>>

\* MUTANT of Stop: ensure_idle is not called.
StopWhileBusy(t, o, m) ==
  /\ handle_[o] # 0
  /\ Enter(t, o, m, handle_[o], "unregister")
  /\ operation_in_progress_' = [operation_in_progress_ EXCEPT ![o] = TRUE]
  /\ handle_' = [handle_ EXCEPT ![o] = 0]
  /\ UNCHANGED <<alive, regVars, instVars>>

\* stop(), and __exit__, which calls it.
Stop(t, o, m) ==
  /\ ~operation_in_progress_[o] /\ handle_[o] # 0
  /\ Enter(t, o, m, handle_[o], "unregister")
  /\ operation_in_progress_' = [operation_in_progress_ EXCEPT ![o] = TRUE]
  /\ handle_' = [handle_ EXCEPT ![o] = 0]
  /\ UNCHANGED <<alive, regVars, instVars>>

\* ~SingBox: Python destroys an object when no call on it is under way.
DestroyIdle(t, o) ==
  /\ Call(t, o, "destroy") /\ Unreferenced(o)
  /\ handle_[o] = 0 \/ operation_in_progress_[o]
  /\ alive' = [alive EXCEPT ![o] = FALSE]
  /\ UNCHANGED <<handle_, operation_in_progress_, regVars, instVars, pc, hnd, ld, res>>

Destroy(t, o) ==
  /\ Unreferenced(o)
  /\ handle_[o] # 0 /\ ~operation_in_progress_[o]
  /\ Enter(t, o, "destroy", handle_[o], "unregister")
  /\ alive' = [alive EXCEPT ![o] = FALSE]
  /\ handle_' = [handle_ EXCEPT ![o] = 0]
  /\ UNCHANGED <<operation_in_progress_, regVars, instVars>>

\* The destructor leaves the object's flag alone.
EndStop(t) ==
  /\ pc[t] = "stop_end"
  /\ operation_in_progress_' =
       [operation_in_progress_ EXCEPT ![obj[t]] = IF op[t] = "destroy" THEN @ ELSE FALSE]
  /\ Leave(t)
  /\ UNCHANGED <<alive, handle_, regVars, instVars>>

QueryStats(t, o) ==
  /\ ~Refused(o, "query")
  /\ Enter(t, o, "query", handle_[o], "load")
  /\ operation_in_progress_' = [operation_in_progress_ EXCEPT ![o] = TRUE]
  /\ UNCHANGED <<alive, handle_, regVars, instVars>>

EndQuery(t) ==
  /\ pc[t] = "query_end"
  /\ operation_in_progress_' = [operation_in_progress_ EXCEPT ![obj[t]] = FALSE]
  /\ Leave(t)
  /\ UNCHANGED <<alive, handle_, regVars, instVars>>

----------------------------------------------------------------------------
(* singbox_instance_start_from_json.                                       *)

BuildInstance(t) ==
  /\ pc[t] = "build" /\ built < MaxStarts
  /\ built' = built + 1
  /\ core' = [core EXCEPT ![built + 1] = "built"]
  /\ ld' = [ld EXCEPT ![t] = built + 1]
  /\ Goto(t, "activate")
  /\ UNCHANGED <<objVars, regVars, closed, cancelled, access, op, obj, hnd, res>>

\* bytesFromC, decoding or box.New fails: nothing to close is left.
BuildFails(t) ==
  /\ pc[t] = "build"
  /\ Return(t, "start_end", "raised")
  /\ UNCHANGED <<objVars, regVars, instVars, op, obj, hnd, ld>>

\* MUTANT of ActivateInstance: the context is cancelled on every return.
ActivateAlwaysCancels(t) ==
  /\ pc[t] = "activate"
  /\ core' = [core EXCEPT ![ld[t]] = "started"]
  /\ cancelled' = [cancelled EXCEPT ![ld[t]] = TRUE]
  /\ Goto(t, "register")
  /\ UNCHANGED <<objVars, regVars, built, closed, access, op, obj, hnd, ld, res>>

ActivateInstance(t) ==
  /\ pc[t] = "activate"
  /\ core' = [core EXCEPT ![ld[t]] = "started"]
  /\ Goto(t, "register")
  /\ UNCHANGED <<objVars, regVars, built, closed, cancelled, access, op, obj, hnd, ld, res>>

\* box.Start closes the box when it fails; activateInstance cancels the context.
ActivateFails(t) ==
  /\ pc[t] = "activate"
  /\ core' = [core EXCEPT ![ld[t]] = "closed"]
  /\ cancelled' = [cancelled EXCEPT ![ld[t]] = TRUE]
  /\ Return(t, "start_end", "raised")
  /\ UNCHANGED <<objVars, regVars, built, closed, access, op, obj, hnd, ld>>

\* A panic in box.Start is recovered by the exported function, which reports it.
\* The partly started box is left behind with a live context: nothing refers to it.
ActivatePanics(t) ==
  /\ pc[t] = "activate"
  /\ core' = [core EXCEPT ![ld[t]] = "panicked"]
  /\ Return(t, "start_end", "raised")
  /\ UNCHANGED <<objVars, regVars, built, closed, cancelled, access, op, obj, hnd, ld>>

\* instances.next++ on a uint64, twice when the first one gives 0.
NextHandle(n) == IF (n + 1) % (MaxHandle + 1) = 0 THEN 1 ELSE n + 1

Register(t) ==
  /\ pc[t] = "register"
  /\ next' = NextHandle(next)
  /\ byID' = [byID EXCEPT ![NextHandle(next)] = ld[t]]
  /\ hnd' = [hnd EXCEPT ![t] = NextHandle(next)]
  /\ Goto(t, "start_end")
  /\ UNCHANGED <<objVars, instVars, op, obj, ld, res>>

----------------------------------------------------------------------------
(* singbox_stop.                                                           *)

\* byID of a handle that is not a key is nil.
Lookup(h) == IF h = 0 THEN 0 ELSE byID[h]

\* MUTANT of Unregister: the entry is deleted and never closed.
UnregisterOnly(t) ==
  /\ pc[t] = "unregister"
  /\ ld' = [ld EXCEPT ![t] = Lookup(hnd[t])]
  /\ byID' = [h \in Handles |-> IF h = hnd[t] THEN 0 ELSE byID[h]]
  /\ Goto(t, "stop_end")
  /\ UNCHANGED <<objVars, next, instVars, op, obj, hnd, res>>

Unregister(t) ==
  /\ pc[t] = "unregister"
  /\ ld' = [ld EXCEPT ![t] = Lookup(hnd[t])]
  /\ byID' = [h \in Handles |-> IF h = hnd[t] THEN 0 ELSE byID[h]]
  /\ Goto(t, IF Lookup(hnd[t]) = 0 THEN "stop_end" ELSE "close")
  /\ UNCHANGED <<objVars, next, instVars, op, obj, hnd, res>>

\* closeInstance takes the access mutex, and keeps it over core.Close.
CloseInstance(t) ==
  /\ pc[t] = "close" /\ access[ld[t]] = Free
  /\ Goto(t, IF closed[ld[t]] THEN "stop_end" ELSE "core_close")
  /\ access' = IF closed[ld[t]] THEN access ELSE [access EXCEPT ![ld[t]] = t]
  /\ cancelled' = [cancelled EXCEPT ![ld[t]] = @ \/ ~closed[ld[t]]]
  /\ closed' = [closed EXCEPT ![ld[t]] = TRUE]
  /\ UNCHANGED <<objVars, regVars, built, core, op, obj, hnd, ld, res>>

\* core.Close returns nil or net.ErrClosed ("ok"), or another error; either way
\* the box has closed its parts.  A panic in it is recovered by singbox_stop, and
\* leaves the parts it had not come to.
CoreClose(t) ==
  /\ pc[t] = "core_close"
  /\ \E c \in {"closed", "panicked"}, r \in {"ok", "raised"} :
       /\ c = "panicked" => r = "raised"
       /\ core' = [core EXCEPT ![ld[t]] = c]
       /\ Return(t, "stop_end", r)
  /\ access' = [access EXCEPT ![ld[t]] = Free]
  /\ UNCHANGED <<objVars, regVars, built, closed, cancelled, op, obj, hnd, ld>>

----------------------------------------------------------------------------
(* singbox_query_stats.                                                    *)

\* The patterns cannot be decoded, which depends on them alone, or the handle is
\* "unknown or stopped"; or the "service is stopped", under the instance's mutex.
QueryRefused(t) ==
  /\ pc[t] \in {"load", "query"}
  /\ pc[t] = "query" => access[ld[t]] = Free /\ closed[ld[t]]
  /\ Return(t, "query_end", "raised")
  /\ UNCHANGED <<objVars, regVars, instVars, op, obj, hnd, ld>>

LoadInstance(t) ==
  /\ pc[t] = "load" /\ Lookup(hnd[t]) # 0
  /\ ld' = [ld EXCEPT ![t] = Lookup(hnd[t])]
  /\ Goto(t, "query")
  /\ UNCHANGED <<objVars, regVars, instVars, op, obj, hnd, res>>

QueryStatistics(t) ==
  /\ pc[t] = "query" /\ access[ld[t]] = Free /\ ~closed[ld[t]]
  /\ access' = [access EXCEPT ![ld[t]] = t]
  /\ Goto(t, "snapshot")
  /\ UNCHANGED <<objVars, regVars, built, core, closed, cancelled, op, obj, hnd, ld, res>>

\* MUTANT of Snapshot: a query that fails is made again.
SnapshotRetries(t) ==
  /\ pc[t] = "snapshot"
  /\ Return(t, "query_end", "ok") \/ Return(t, "query", "raised")
  /\ access' = [access EXCEPT ![ld[t]] = Free]
  /\ UNCHANGED <<objVars, regVars, built, core, closed, cancelled, op, obj, hnd, ld>>

\* The counters are read, or the V2Ray query fails.
Snapshot(t) ==
  /\ pc[t] = "snapshot"
  /\ \E r \in {"ok", "raised"} : Return(t, "query_end", r)
  /\ access' = [access EXCEPT ![ld[t]] = Free]
  /\ UNCHANGED <<objVars, regVars, built, core, closed, cancelled, op, obj, hnd, ld>>

----------------------------------------------------------------------------
\* A step of a call that has begun.
ThreadStep(t) ==
  \/ BuildInstance(t) \/ BuildFails(t)
  \/ ActivateInstance(t) \/ ActivateFails(t) \/ ActivatePanics(t)
  \/ Register(t) \/ EndStart(t)
  \/ Unregister(t) \/ CloseInstance(t) \/ CoreClose(t) \/ EndStop(t)
  \/ QueryRefused(t) \/ LoadInstance(t) \/ QueryStatistics(t) \/ Snapshot(t) \/ EndQuery(t)

NewCall(t, o) ==
  \/ StartFromJSON(t, o)
  \/ QueryStats(t, o)
  \/ \E m \in {"stop", "exit"} : Stop(t, o, m) \/ StopNothing(t, o, m)
  \/ \E m \in {"start", "query", "stop", "exit"} : Refuse(t, o, m)
  \/ DestroyIdle(t, o)
  \/ Destroy(t, o)

Next ==
  \/ \E o \in Objects : Construct(o)
  \/ \E t \in Threads, o \in Objects : NewCall(t, o)
  \/ \E t \in Threads : ThreadStep(t)

\* A native call runs on a goroutine the Go scheduler keeps running, and
\* box.Start and box.Close return; threads need not make calls.
Fairness == \A t \in Threads : WF_vars(ThreadStep(t))

Spec == Init /\ [][Next]_vars /\ Fairness

----------------------------------------------------------------------------
(* Properties.                                                             *)

Busy(t) == pc[t] # "idle"

\* The property "running" of an object is its handle_ being non-zero.  While it
\* is true, the registry maps the handle to an instance whose box.Start returned
\* nil, which is not closed, and whose context is live: no other thread's stop, start or
\* destructor takes the service away from under the object.
RunningIsServing ==
  \A o \in Objects : handle_[o] # 0 =>
    LET i == byID[handle_[o]] IN
      i # 0 /\ core[i] = "started" /\ ~closed[i] /\ ~cancelled[i]

\* A call that carries a handle between the two sections under mutex_: a start
\* that has registered its instance, or a stop that has not removed it yet.
Carries(t, h) ==
  /\ hnd[t] = h
  /\ pc[t] = "unregister" \/ (pc[t] = "start_end" /\ res[t] = "ok")

\* A handle in the registry belongs to exactly one object or call: two objects
\* never share a service, and no registered service is out of reach.
RegisteredOwned ==
  \A h \in Handles : byID[h] # 0 =>
    /\ (\E o \in Objects : handle_[o] = h) \/ (\E t \in Threads : Carries(t, h))
    /\ \A o1, o2 \in Objects : handle_[o1] = h /\ handle_[o2] = h => o1 = o2
    /\ \A t1, t2 \in Threads : Carries(t1, h) /\ Carries(t2, h) => t1 = t2
    /\ \A o \in Objects, t \in Threads : ~(handle_[o] = h /\ Carries(t, h))

\* start and stop lose no box unless it panics.  From the moment it is built, a box is
\* in the registry, or in the hands of a call that is about to start, to register or
\* to close it, or it has been closed and its context cancelled: so also when its
\* start failed.  A box whose Start or Close panicked is the exception: what is at
\* work in it goes on, and no call can reach it any more.
NoOrphan ==
  \A i \in Instances :
    \/ core[i] \in {"absent", "panicked"}
    \/ core[i] = "closed" /\ cancelled[i]
    \/ \E h \in Handles : byID[h] = i
    \/ \E t \in Threads : ld[t] = i /\ pc[t] \in {"activate", "register", "close", "core_close"}

\* ensure_idle makes the calls on one object exclusive, so an instance's access
\* mutex is never contended: neither closeInstance nor queryStatistics waits,
\* a query is never answered "service is stopped", and box.Close is called on a
\* started box only, once, while no snapshot of it is being taken.
AccessUncontended ==
  \A t \in Threads : pc[t] \in {"close", "query"} =>
    /\ access[ld[t]] = Free
    /\ ~closed[ld[t]]
    /\ core[ld[t]] = "started"

\* Every method call returns: no order of locks, refusals and failures leaves a
\* thread waiting for ever.
CallsReturn == \A t \in Threads : Busy(t) ~> ~Busy(t)
=============================================================================
