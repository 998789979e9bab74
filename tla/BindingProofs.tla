--------------------------- MODULE BindingProofs ---------------------------
(***************************************************************************)
(* Proofs about Binding, for any sets of threads and objects, any number   *)
(* of starts and any width of the handle counter that is not used up: the  *)
(* types, the inductive invariant, that every step of every call keeps it, *)
(* that the counter does not wrap, and the safety properties.              *)
(***************************************************************************)
EXTENDS Binding, TLAPS

\* What the handle counter gives is a handle: never 0, which means "stopped",
\* and never above the largest uint64.
LEMMA NextHandleType ==
  ASSUME NEW n \in 0..MaxHandle
  PROVE  NextHandle(n) \in Handles
  BY BoundsAssumption DEF NextHandle, Handles

\* The empty registry and the unconstructed objects are well typed.
LEMMA InitType == Init => TypeOK
  BY BoundsAssumption, FreeAssumption DEF Init, TypeOK, Handles, Instances, Points, Methods

\* Every step keeps the types: what is stored in handle_ and in the registry stays in range.
LEMMA NextType == TypeOK /\ [Next]_vars => TypeOK'
<1> SUFFICES ASSUME TypeOK, [Next]_vars PROVE TypeOK'
  OBVIOUS
<1> USE BoundsAssumption, FreeAssumption
<1> USE DEF TypeOK, Points, Methods, objVars, regVars, instVars, callVars, Goto, Return, Leave, Call, Enter
<1>1. ASSUME NEW o \in Objects, Construct(o) PROVE TypeOK'
  BY <1>1 DEF Construct
<1>2. ASSUME NEW t \in Threads, NEW o \in Objects, NewCall(t, o) PROVE TypeOK'
  <2>1. CASE StartFromJSON(t, o)
    BY <2>1 DEF StartFromJSON
  <2>2. CASE QueryStats(t, o)
    BY <2>2 DEF QueryStats
  <2>3. ASSUME NEW m \in {"stop", "exit"}, Stop(t, o, m) PROVE TypeOK'
    BY <2>3 DEF Stop
  <2>4. ASSUME NEW m \in {"stop", "exit"}, StopNothing(t, o, m) PROVE TypeOK'
    BY <2>4 DEF StopNothing
  <2>5. ASSUME NEW m \in {"start", "query", "stop", "exit"}, Refuse(t, o, m) PROVE TypeOK'
    BY <2>5 DEF Refuse
  <2>6. CASE DestroyIdle(t, o)
    BY <2>6 DEF DestroyIdle
  <2>7. CASE Destroy(t, o)
    BY <2>7 DEF Destroy
  <2> HIDE DEF TypeOK
  <2>8. QED
    BY <1>2, <2>1, <2>2, <2>3, <2>4, <2>5, <2>6, <2>7 DEF NewCall
<1>3. ASSUME NEW t \in Threads, ThreadStep(t) PROVE TypeOK'
  <2>1. CASE BuildInstance(t)
    <3>1. built' \in 0..MaxStarts /\ ld' \in [Threads -> 0..MaxStarts]
      BY <2>1 DEF BuildInstance
    <3>2. QED
      BY Zenon, <2>1, <3>1 DEF BuildInstance
  <2>2. CASE BuildFails(t) \/ QueryRefused(t)
    BY <2>2 DEF BuildFails, QueryRefused
  <2>3. CASE ActivateInstance(t) \/ ActivateFails(t) \/ ActivatePanics(t)
    <3>1. CASE ActivateInstance(t)
      BY Zenon, <3>1 DEF ActivateInstance
    <3>2. CASE ActivateFails(t)
      BY Zenon, <3>2 DEF ActivateFails
    <3>3. CASE ActivatePanics(t)
      BY Zenon, <3>3 DEF ActivatePanics
    <3>4. QED
      BY Zenon, <2>3, <3>1, <3>2, <3>3
  <2>4. CASE Register(t)
    <3>1. next \in 0..MaxHandle
      OBVIOUS
    <3>2. NextHandle(next) \in 0..MaxHandle
      <4> HIDE DEF TypeOK
      <4> QED
        BY <3>1, NextHandleType DEF Handles
    <3>3. QED
      BY Zenon, <2>4, <3>2 DEF Register
  <2>5. CASE EndStart(t) \/ EndStop(t) \/ EndQuery(t)
    <3>1. CASE EndStart(t)
      BY <3>1 DEF EndStart
    <3>2. CASE EndStop(t)
      <4>1. operation_in_progress_' \in [Objects -> BOOLEAN]
        BY <3>2, Zenon DEF EndStop
      <4>2. pc' \in [Threads -> Points] /\ hnd' \in [Threads -> 0..MaxHandle] /\ ld' \in [Threads -> 0..MaxStarts]
        BY <3>2 DEF EndStop
      <4>3. UNCHANGED <<alive, handle_, regVars, instVars, op, obj, res>>
        BY <3>2 DEF EndStop
      <4>4. QED
        BY <4>1, <4>2, <4>3
    <3>3. CASE EndQuery(t)
      BY <3>3 DEF EndQuery
    <3>4. QED
      BY Zenon, <2>5, <3>1, <3>2, <3>3
  <2>6. CASE Unregister(t)
    <3>1. Lookup(hnd[t]) \in 0..MaxStarts
      BY DEF Lookup, Handles
    <3>2. pc' \in [Threads -> Points]
      BY <2>6 DEF Unregister
    <3>3. /\ ld' = [ld EXCEPT ![t] = Lookup(hnd[t])]
          /\ byID' = [h \in Handles |-> IF h = hnd[t] THEN 0 ELSE byID[h]]
      BY <2>6 DEF Unregister
    <3>4. UNCHANGED <<objVars, next, instVars, op, obj, hnd, res>>
      BY <2>6 DEF Unregister
    <3>5. ld' \in [Threads -> 0..MaxStarts]
      BY <3>1, <3>3
    <3>6. byID' \in [Handles -> 0..MaxStarts]
      BY <3>3
    <3>7. QED
      BY Zenon, <3>2, <3>4, <3>5, <3>6
  <2>7. CASE LoadInstance(t)
    <3>1. Lookup(hnd[t]) \in 0..MaxStarts
      BY DEF Lookup, Handles
    <3>2. QED
      BY <2>7, <3>1 DEF LoadInstance
  <2>8. CASE CloseInstance(t)
    BY Zenon, <2>8 DEF CloseInstance
  <2>9. CASE CoreClose(t)
    <3>1. core' \in [Instances -> {"absent", "built", "started", "closed", "panicked"}]
      BY Zenon, <2>9 DEF CoreClose
    <3>2. access' \in [Instances -> Threads \cup {Free}]
      BY Zenon, <2>9 DEF CoreClose
    <3>3. pc' \in [Threads -> Points]
      BY <2>9 DEF CoreClose
    <3>4. res' \in [Threads -> {"ok", "raised"}]
      BY <2>9 DEF CoreClose
    <3>5. UNCHANGED <<objVars, regVars, built, closed, cancelled, op, obj, hnd, ld>>
      BY <2>9 DEF CoreClose
    <3>6. QED
      BY Zenon, <3>1, <3>2, <3>3, <3>4, <3>5
  <2>10. CASE QueryStatistics(t) \/ Snapshot(t)
    BY <2>10 DEF QueryStatistics, Snapshot
  <2> HIDE DEF TypeOK
  <2>11. QED
    BY <1>3, <2>1, <2>2, <2>3, <2>4, <2>5, <2>6, <2>7, <2>8, <2>9, <2>10 DEF ThreadStep
<1>4. CASE UNCHANGED vars
  BY <1>4 DEF vars
<1> HIDE DEF TypeOK
<1>5. QED
  BY <1>1, <1>2, <1>3, <1>4 DEF Next

\* Every variable keeps its type, whatever the width of the counter.
THEOREM TypeCorrect == Spec => []TypeOK
  BY InitType, NextType, PTL DEF Spec

----------------------------------------------------------------------------
(* The inductive invariant.                                                *)

Starting(t) == pc[t] \in {"build", "activate", "register", "start_end"}
Stopping(t) == pc[t] \in {"unregister", "close", "core_close", "stop_end"}
Querying(t) == pc[t] \in {"load", "query", "snapshot", "query_end"}

\* The instance a call has in its own hands, outside the registry.
Private(t) == pc[t] \in {"activate", "register", "close", "core_close"}

\* Calls on one object are exclusive, and their object is flagged, or being
\* destroyed.
Exclusive ==
  /\ \A t1, t2 \in Threads : Busy(t1) /\ Busy(t2) /\ obj[t1] = obj[t2] => t1 = t2
  /\ \A t \in Threads : Busy(t) => operation_in_progress_[obj[t]] \/ ~alive[obj[t]]
  /\ \A t \in Threads : Starting(t) \/ Querying(t) => alive[obj[t]]
  /\ \A o \in Objects : ~alive[o] => handle_[o] = 0

\* The flag is set by a call that is still under way.
Marks(t, o) == Busy(t) /\ obj[t] = o /\ op[t] # "destroy"
Flagged ==
  \A o \in Objects : operation_in_progress_[o] =>
    \E t \in Threads : Marks(t, o)

\* What the object's handle_ is while a call on it is under way.
HandleDuringCall ==
  \A t \in Threads :
    /\ Starting(t) \/ Stopping(t) => handle_[obj[t]] = 0
    /\ Querying(t) => hnd[t] = handle_[obj[t]] /\ hnd[t] # 0
    /\ pc[t] \in {"build", "activate", "register", "unregister"} => res[t] = "ok"
    /\ pc[t] = "unregister" \/ (pc[t] = "start_end" /\ res[t] = "ok") => hnd[t] # 0

\* Handles come from the counter, one each.
HandlesIssued ==
  /\ \A h \in Handles : byID[h] # 0 => h <= next
  /\ \A o \in Objects : handle_[o] <= next
  /\ \A t \in Threads : hnd[t] <= next

\* Whoever holds a handle holds it alone.
SoleHolder ==
  \A h \in Handles :
    /\ \A o1, o2 \in Objects : handle_[o1] = h /\ handle_[o2] = h => o1 = o2
    /\ \A t1, t2 \in Threads : Carries(t1, h) /\ Carries(t2, h) => t1 = t2
    /\ \A o \in Objects, t \in Threads : ~(handle_[o] = h /\ Carries(t, h))

Live(i) == i # 0 /\ core[i] = "started" /\ ~closed[i] /\ ~cancelled[i]

\* Held handles are registered, and what is registered is live; every instance
\* is registered at most once.
Registry ==
  /\ \A o \in Objects : handle_[o] # 0 => byID[handle_[o]] # 0
  /\ \A h \in Handles, t \in Threads : Carries(t, h) => byID[h] # 0
  /\ \A h \in Handles : byID[h] # 0 => Live(byID[h]) /\ byID[h] <= built
  /\ \A h1, h2 \in Handles : byID[h1] # 0 /\ byID[h1] = byID[h2] => h1 = h2

\* Registered handles are held.
Held ==
  \A h \in Handles : byID[h] # 0 =>
    (\E o \in Objects : handle_[o] = h) \/ (\E t \in Threads : Carries(t, h))

\* Instances in the hands of calls, and the ones not built yet.
PrivateInstances ==
  /\ \A t \in Threads : Private(t) =>
       ld[t] # 0 /\ ld[t] <= built /\ \A h \in Handles : byID[h] # ld[t]
  /\ \A t1, t2 \in Threads : Private(t1) /\ Private(t2) /\ ld[t1] = ld[t2] => t1 = t2
  /\ \A t \in Threads : pc[t] = "activate" => core[ld[t]] = "built" /\ ~closed[ld[t]] /\ ~cancelled[ld[t]]
  /\ \A t \in Threads : pc[t] \in {"register", "close"} => Live(ld[t])
  /\ \A t \in Threads : pc[t] = "core_close" => core[ld[t]] = "started"
  /\ \A i \in Instances : i > built => core[i] = "absent" /\ ~closed[i] /\ ~cancelled[i]

\* The access mutex is held by a close or a snapshot of that instance.
AccessHolders ==
  /\ \A i \in Instances, t \in Threads :
       access[i] = t => ld[t] = i /\ pc[t] \in {"core_close", "snapshot"}
  /\ \A t \in Threads : pc[t] \in {"query", "snapshot"} => ld[t] = byID[hnd[t]]

\* A started box is registered, or in the hands of a call.
StartedHeld ==
  \A i \in Instances : core[i] = "started" =>
    \/ \E h \in Handles : byID[h] = i
    \/ \E t \in Threads : ld[t] = i /\ pc[t] \in {"register", "close", "core_close"}

Safe ==
  /\ Exclusive /\ Flagged /\ HandleDuringCall
  /\ HandlesIssued /\ SoleHolder
  /\ Registry /\ Held /\ PrivateInstances /\ AccessHolders /\ StartedHeld

IInv == TypeOK /\ Safe

----------------------------------------------------------------------------
(* Steps that take no witness away.                                        *)

\* The flags stay accounted for while no call that raised one ends.
LEMMA FlaggedKept ==
  ASSUME Flagged,
         \A o \in Objects : operation_in_progress_'[o] => operation_in_progress_[o],
         \A t \in Threads, o \in Objects :
           Marks(t, o) => Marks(t, o)' \/ ~operation_in_progress_'[o]
  PROVE  Flagged'
  BY DEF Flagged

\* What the calls under way know of their objects' handles stays true while each of
\* them ends or is left alone.
LEMMA HandleKept ==
  ASSUME HandleDuringCall,
         \A t \in Threads :
           \/ pc'[t] = "idle"
           \/ /\ pc'[t] = pc[t] /\ hnd'[t] = hnd[t] /\ res'[t] = res[t]
              /\ handle_'[obj'[t]] = handle_[obj[t]]
  PROVE  HandleDuringCall'
<1>1. \A t \in Threads : Starting(t)' \/ Stopping(t)' \/ Querying(t)' =>
        /\ pc'[t] = pc[t] /\ hnd'[t] = hnd[t] /\ res'[t] = res[t]
        /\ handle_'[obj'[t]] = handle_[obj[t]]
  BY DEF Starting, Stopping, Querying
<1>2. \A t \in Threads :
        /\ Starting(t)' \/ Stopping(t)' => handle_'[obj'[t]] = 0
        /\ Querying(t)' => hnd'[t] = handle_'[obj'[t]] /\ hnd'[t] # 0
  <2>1. \A t \in Threads :
          /\ Starting(t)' \/ Stopping(t)' => Starting(t) \/ Stopping(t)
          /\ Querying(t)' => Querying(t)
    BY <1>1 DEF Starting, Stopping, Querying
  <2> QED
    BY <1>1, <2>1 DEF HandleDuringCall
<1>3. \A t \in Threads :
        /\ pc'[t] \in {"build", "activate", "register", "unregister"} => res'[t] = "ok"
        /\ pc'[t] = "unregister" \/ (pc'[t] = "start_end" /\ res'[t] = "ok") => hnd'[t] # 0
  BY DEF HandleDuringCall
<1> QED
  BY ONLY Zenon, <1>2, <1>3 DEF HandleDuringCall

\* The calls under way keep their objects to themselves while no other begins.
LEMMA ExclusiveKept ==
  ASSUME Exclusive,
         \A t \in Threads : Busy(t)' =>
           /\ pc'[t] = pc[t] /\ obj'[t] = obj[t]
           /\ operation_in_progress_'[obj[t]] <=> operation_in_progress_[obj[t]]
           /\ alive'[obj[t]] <=> alive[obj[t]],
         \A o \in Objects : ~alive'[o] => handle_'[o] = 0
  PROVE  Exclusive'
<1>1. \A t \in Threads : Busy(t)' => Busy(t)
  BY Zenon DEF Busy
<1>2. \A t \in Threads : Starting(t)' \/ Querying(t)' => Busy(t)'
  BY DEF Starting, Querying, Busy
<1>3. \A t \in Threads : Busy(t)' /\ (Starting(t)' \/ Querying(t)') => Starting(t) \/ Querying(t)
  BY Zenon DEF Starting, Querying
<1>4. \A t1, t2 \in Threads : Busy(t1)' /\ Busy(t2)' /\ obj'[t1] = obj'[t2] => t1 = t2
  BY Zenon, <1>1 DEF Exclusive
<1>5. \A t \in Threads : Busy(t)' => operation_in_progress_'[obj'[t]] \/ ~alive'[obj'[t]]
  BY Zenon, <1>1 DEF Exclusive
<1>6. \A t \in Threads : Starting(t)' \/ Querying(t)' => alive'[obj'[t]]
  BY Zenon, <1>2, <1>3 DEF Exclusive
<1> QED
  BY Zenon, <1>4, <1>5, <1>6 DEF Exclusive

\* Holders stay alone while none of them passes its handle on.
LEMMA SoleHolderKept ==
  ASSUME SoleHolder,
         \A h \in Handles, o \in Objects : handle_'[o] = h => handle_[o] = h,
         \A h \in Handles, t \in Threads : Carries(t, h)' => Carries(t, h)
  PROVE  SoleHolder'
  BY Zenon DEF SoleHolder

\* A call that takes an object's handle over is its holder then.
LEMMA SoleHolderTaken ==
  ASSUME SoleHolder, NEW t \in Threads, NEW o \in Objects,
         \A h \in Handles, x \in Objects : handle_'[x] = h => handle_[x] = h /\ x # o,
         \A h \in Handles, u \in Threads :
           Carries(u, h)' => Carries(u, h) \/ (u = t /\ h = handle_[o])
  PROVE  SoleHolder'
<1>1. \A h \in Handles, o1, o2 \in Objects : handle_'[o1] = h /\ handle_'[o2] = h => o1 = o2
  BY Zenon DEF SoleHolder
<1>2. \A h \in Handles, t1, t2 \in Threads : Carries(t1, h)' /\ Carries(t2, h)' => t1 = t2
  BY DEF SoleHolder
<1>3. \A h \in Handles, x \in Objects, u \in Threads : ~(handle_'[x] = h /\ Carries(u, h)')
  BY Zenon DEF SoleHolder
<1>4. QED
  BY Zenon, <1>1, <1>2, <1>3 DEF SoleHolder

\* Registered handles stay held while no holder lets go.
LEMMA HeldKept ==
  ASSUME Held,
         \A h \in Handles : byID'[h] # 0 => byID[h] # 0,
         \A h \in Handles, o \in Objects : handle_[o] = h => handle_'[o] = h \/ byID'[h] = 0,
         \A h \in Handles, t \in Threads : Carries(t, h) => Carries(t, h)' \/ byID'[h] = 0
  PROVE  Held'
  BY DEF Held

\* The registry stays sound while it and its instances are left alone and every
\* handle taken over leads to an entry.
LEMMA RegistryKept ==
  ASSUME Registry,
         UNCHANGED <<byID, built, core, closed, cancelled>>,
         \A o \in Objects :
           handle_'[o] = 0 \/ handle_'[o] = handle_[o] \/ byID[handle_'[o]] # 0,
         \A h \in Handles, t \in Threads : Carries(t, h)' => Carries(t, h) \/ byID[h] # 0
  PROVE  Registry'
<1>1. \A i \in 0..MaxStarts : Live(i)' <=> Live(i)
  BY Zenon DEF Live
<1>2. QED
  BY Zenon, <1>1 DEF Registry, Live

\* Calls keep what they have in their hands while the instances are left alone
\* and no call takes one.
LEMMA PrivateKept ==
  ASSUME PrivateInstances,
         UNCHANGED <<byID, built, core, closed, cancelled>>,
         \A t \in Threads : Private(t)' => pc'[t] = pc[t] /\ ld'[t] = ld[t]
  PROVE  PrivateInstances'
  BY DEF PrivateInstances, Private, Live

\* The access mutexes stay with their holders while none is taken and no holder moves.
LEMMA AccessKept ==
  ASSUME AccessHolders,
         UNCHANGED <<byID, access>>,
         \A t \in Threads : pc[t] \in {"core_close", "snapshot"} => pc'[t] = pc[t] /\ ld'[t] = ld[t],
         \A t \in Threads : pc'[t] \in {"query", "snapshot"} =>
           pc'[t] = pc[t] /\ ld'[t] = ld[t] /\ hnd'[t] = hnd[t]
  PROVE  AccessHolders'
  BY DEF AccessHolders

\* The call has a started instance in its hands.
Holding(t, i) == ld[t] = i /\ pc[t] \in {"register", "close", "core_close"}

\* No started box is lost while no holder of an instance lets go.
LEMMA StartedHeldKept ==
  ASSUME StartedHeld,
         \A i \in Instances : core'[i] = "started" => core[i] = "started",
         \A h \in Handles : byID'[h] = byID[h],
         \A i \in Instances, t \in Threads :
           Holding(t, i) => Holding(t, i)' \/ core'[i] # "started"
  PROVE  StartedHeld'
  BY DEF StartedHeld, Holding

----------------------------------------------------------------------------
(* What the types say of handles and instances.                            *)

\* Handles and instances are numbers, 0 standing for none.
LEMMA Numbers ==
  ASSUME TypeOK
  PROVE  /\ next \in Nat /\ 0 <= next /\ built \in Nat
         /\ \A o \in Objects : handle_[o] \in Nat /\ (handle_[o] # 0 => handle_[o] \in Handles)
         /\ \A t \in Threads : hnd[t] \in Nat /\ (hnd[t] # 0 => hnd[t] \in Handles)
         /\ \A t \in Threads : ld[t] \in Nat /\ (ld[t] # 0 => ld[t] \in Instances)
         /\ \A h \in Handles : byID[h] \in Nat /\ (byID[h] # 0 => byID[h] \in Instances)
<1>1. next \in Nat /\ 0 <= next /\ built \in Nat
  BY BoundsAssumption DEF TypeOK
<1>2. \A o \in Objects : handle_[o] \in Nat /\ (handle_[o] # 0 => handle_[o] \in Handles)
  BY BoundsAssumption DEF TypeOK, Handles
<1>3. \A t \in Threads : hnd[t] \in Nat /\ (hnd[t] # 0 => hnd[t] \in Handles)
  BY BoundsAssumption DEF TypeOK, Handles
<1>4. \A t \in Threads : ld[t] \in Nat /\ (ld[t] # 0 => ld[t] \in Instances)
  BY BoundsAssumption DEF TypeOK, Instances
<1>5. \A h \in Handles : byID[h] \in Nat /\ (byID[h] # 0 => byID[h] \in Instances)
  BY BoundsAssumption DEF TypeOK, Instances
<1> QED
  BY ONLY Zenon, <1>1, <1>2, <1>3, <1>4, <1>5

\* What a call has in its hands is an instance, its own, and not registered.
LEMMA InHands ==
  ASSUME TypeOK, PrivateInstances, NEW t \in Threads, Private(t)
  PROVE  /\ ld[t] \in Instances /\ ld[t] # 0 /\ ld[t] <= built
         /\ \A h \in Handles : byID[h] # ld[t]
         /\ \A u \in Threads : Private(u) /\ ld[u] = ld[t] => u = t
         /\ pc[t] \in {"register", "close"} => Live(ld[t])
         /\ pc[t] = "activate" => ~closed[ld[t]] /\ ~cancelled[ld[t]]
  BY Zenon, Numbers DEF PrivateInstances

\* A call takes an instance that no call and no handle has: a new one, or the one
\* it has just taken out of the registry.
LEMMA PrivateTaken ==
  ASSUME PrivateInstances, NEW t \in Threads, NEW j, ~Private(t),
         ld'[t] = j, j # 0, j <= built', pc'[t] \in {"activate", "close"},
         \A u \in Threads : u # t => pc'[u] = pc[u] /\ ld'[u] = ld[u],
         \A h \in Handles : byID'[h] # j /\ (byID'[h] = byID[h] \/ byID'[h] = 0),
         \A u \in Threads : Private(u) =>
           ld[u] # j /\ ld[u] <= built' /\ core'[ld[u]] = core[ld[u]],
         UNCHANGED <<closed, cancelled>>,
         ~closed[j], ~cancelled[j], core'[j] = IF pc'[t] = "activate" THEN "built" ELSE "started",
         \A i \in Instances : i > built' => core'[i] = "absent" /\ ~closed[i] /\ ~cancelled[i]
  PROVE  PrivateInstances'
<1>1. Private(t)' /\ \A u \in Threads : u # t => (Private(u)' <=> Private(u))
  BY DEF Private
<1>2. \A u \in Threads : u # t /\ Private(u)' => ld'[u] = ld[u] /\ Private(u)
  BY ONLY Zenon, <1>1, \A u \in Threads : u # t => pc'[u] = pc[u] /\ ld'[u] = ld[u]
<1>3. \A u \in Threads : u # t /\ Private(u)' =>
        ld'[u] # 0 /\ ld'[u] <= built' /\ \A h \in Handles : byID'[h] # ld'[u]
  <2>1. \A u \in Threads : u # t /\ Private(u) =>
          ld[u] # 0 /\ ld[u] <= built' /\ \A h \in Handles : byID'[h] # ld[u]
    BY DEF PrivateInstances
  <2> QED
    BY ONLY Zenon, <1>2, <2>1
<1>4. \A u \in Threads : Private(u)' =>
        ld'[u] # 0 /\ ld'[u] <= built' /\ \A h \in Handles : byID'[h] # ld'[u]
  <2>1. ld'[t] # 0 /\ ld'[t] <= built' /\ \A h \in Handles : byID'[h] # ld'[t]
    OBVIOUS
  <2> QED
    BY ONLY Zenon, <1>3, <2>1
<1>5. \A t1, t2 \in Threads : Private(t1)' /\ Private(t2)' /\ ld'[t1] = ld'[t2] => t1 = t2
  <2>1. \A u \in Threads : u # t /\ Private(u)' => ld'[u] # ld'[t]
    BY ONLY <1>2, ld'[t] = j, \A u \in Threads : Private(u) =>
       ld[u] # j /\ ld[u] <= built' /\ core'[ld[u]] = core[ld[u]]
  <2>2. \A t1, t2 \in Threads : t1 # t /\ t2 # t /\ Private(t1)' /\ Private(t2)' /\ ld'[t1] = ld'[t2] => t1 = t2
    BY ONLY <1>2, PrivateInstances DEF PrivateInstances
  <2> QED
    BY ONLY Zenon, <2>1, <2>2
<1>6. \A u \in Threads : u # t /\ Private(u)' => pc'[u] = pc[u] /\ core'[ld'[u]] = core[ld[u]]
  BY Zenon, <1>2
<1>7. \A u \in Threads : pc'[u] = "activate" =>
        core'[ld'[u]] = "built" /\ ~closed'[ld'[u]] /\ ~cancelled'[ld'[u]]
  <2>1. \A u \in Threads : u # t /\ pc'[u] = "activate" =>
          core'[ld'[u]] = "built" /\ ~closed'[ld'[u]] /\ ~cancelled'[ld'[u]]
    BY <1>2, <1>6 DEF PrivateInstances, Private
  <2> QED
    BY Zenon, <2>1
<1>8. \A u \in Threads : pc'[u] \in {"register", "close"} =>
        ld'[u] # 0 /\ core'[ld'[u]] = "started" /\ ~closed'[ld'[u]] /\ ~cancelled'[ld'[u]]
  <2>1. \A u \in Threads : u # t /\ pc'[u] \in {"register", "close"} =>
          ld'[u] # 0 /\ core'[ld'[u]] = "started" /\ ~closed'[ld'[u]] /\ ~cancelled'[ld'[u]]
    BY <1>2, <1>6 DEF PrivateInstances, Private, Live
  <2>2. pc'[t] = "close" => core'[j] = "started"
    OBVIOUS
  <2> QED
    BY <2>1, <2>2
<1>9. \A u \in Threads : pc'[u] = "core_close" => core'[ld'[u]] = "started"
  <2>1. \A u \in Threads : pc'[u] = "core_close" => u # t
    OBVIOUS
  <2> QED
    BY <1>2, <1>6, <2>1 DEF PrivateInstances, Private
<1> QED
  BY Zenon, <1>4, <1>5, <1>7, <1>8, <1>9 DEF PrivateInstances, Live

----------------------------------------------------------------------------
(* Steps on the instance a call has in its hands.                          *)

\* A call that goes on keeps its object, and what it has said about it.
LEMMA Proceeds ==
  ASSUME TypeOK, Safe, NEW t \in Threads, Busy(t), Busy(t)', UNCHANGED <<objVars, op, obj>>,
         Starting(t)' <=> Starting(t), Stopping(t)' <=> Stopping(t), Querying(t)' <=> Querying(t),
         Querying(t) => hnd'[t] = hnd[t],
         pc'[t] \in {"build", "activate", "register", "unregister"} => res'[t] = "ok",
         pc'[t] = "unregister" \/ (pc'[t] = "start_end" /\ res'[t] = "ok") => hnd'[t] # 0,
         \A u \in Threads : u # t => pc'[u] = pc[u] /\ hnd'[u] = hnd[u] /\ res'[u] = res[u]
  PROVE  Exclusive' /\ HandleDuringCall' /\ Flagged'
<1>1. UNCHANGED <<alive, handle_, operation_in_progress_>>
  BY Zenon DEF objVars
<1>2. \A u \in Threads :
        /\ Busy(u)' <=> Busy(u)
        /\ Starting(u)' <=> Starting(u)
        /\ Stopping(u)' <=> Stopping(u)
        /\ Querying(u)' <=> Querying(u)
  <2>1. \A u \in Threads : u # t =>
          /\ Busy(u)' <=> Busy(u)
          /\ Starting(u)' <=> Starting(u)
          /\ Stopping(u)' <=> Stopping(u)
          /\ Querying(u)' <=> Querying(u)
    BY Zenon DEF Busy, Starting, Stopping, Querying
  <2> QED
    BY ONLY Zenon, <2>1, Busy(t), Busy(t)', Starting(t)' <=> Starting(t),
       Stopping(t)' <=> Stopping(t), Querying(t)' <=> Querying(t)
<1>3. Exclusive'
  <2>1. Exclusive
    BY Zenon DEF Safe
  <2> QED
    BY ONLY Zenon, <1>1, <1>2, <2>1, obj' = obj DEF Exclusive
<1>4. HandleDuringCall'
  <2>1. \A u \in Threads : Starting(u)' \/ Stopping(u)' => handle_'[obj'[u]] = 0
    BY Zenon, <1>1, <1>2 DEF Safe, HandleDuringCall
  <2>2. \A u \in Threads : Querying(u)' => hnd'[u] = handle_'[obj'[u]] /\ hnd'[u] # 0
    BY <1>1, <1>2 DEF Safe, HandleDuringCall
  <2>3. \A u \in Threads :
          pc'[u] \in {"build", "activate", "register", "unregister"} => res'[u] = "ok"
    BY Zenon DEF Safe, HandleDuringCall
  <2>4. \A u \in Threads :
          pc'[u] = "unregister" \/ (pc'[u] = "start_end" /\ res'[u] = "ok") => hnd'[u] # 0
    BY Zenon DEF Safe, HandleDuringCall
  <2> QED
    BY ONLY Zenon, <2>1, <2>2, <2>3, <2>4 DEF HandleDuringCall
<1>5. Flagged'
  BY Zenon, <1>1, <1>2, FlaggedKept DEF Safe, Marks
<1> QED
  BY Zenon, <1>3, <1>4, <1>5

\* A step of a call on the instance it has in its hands, or its giving it up.
LEMMA PrivateMove ==
  ASSUME TypeOK, Safe, NEW t \in Threads, Private(t),
         UNCHANGED <<handle_, regVars, built, hnd, ld>>,
         pc'[t] \in {"register", "start_end", "core_close", "stop_end"},
         pc'[t] = "start_end" => res'[t] # "ok",
         pc'[t] = "register" => Live(ld[t])',
         core'[ld[t]] = "started" <=> pc'[t] \in {"register", "core_close"},
         \A u \in Threads : u # t => pc'[u] = pc[u] /\ res'[u] = res[u],
         \A i \in Instances : i # ld[t] =>
           core'[i] = core[i] /\ (closed'[i] <=> closed[i]) /\ (cancelled'[i] <=> cancelled[i]),
         \A i \in Instances, u \in Threads : access'[i] = u =>
           \/ access[i] = u /\ u # t
           \/ u = t /\ i = ld[t] /\ pc'[t] = "core_close"
  PROVE  /\ HandlesIssued' /\ SoleHolder' /\ Registry' /\ Held'
         /\ PrivateInstances' /\ AccessHolders' /\ StartedHeld'
<1>0. /\ HandlesIssued /\ SoleHolder /\ Registry /\ Held
      /\ PrivateInstances /\ AccessHolders /\ StartedHeld
  BY Zenon DEF Safe
<1>1. UNCHANGED <<next, byID>>
  BY Zenon DEF regVars
<1>2. HandlesIssued'
  BY ONLY Zenon, <1>0, <1>1, UNCHANGED <<handle_, hnd>> DEF HandlesIssued
<1>3. \A h \in Handles, u \in Threads : Carries(u, h)' <=> Carries(u, h)
  <2>1. \A h \in Handles : ~Carries(t, h) /\ ~Carries(t, h)'
    BY DEF Carries, Private
  <2> QED
    BY Zenon, <2>1 DEF Carries
<1>4. SoleHolder' /\ Held'
  BY ONLY Zenon, <1>0, <1>1, <1>3, handle_' = handle_, SoleHolderKept, HeldKept
<1>5. /\ ld[t] \in Instances /\ ld[t] # 0
      /\ \A h \in Handles : byID[h] # ld[t]
      /\ \A u \in Threads : Private(u) /\ ld[u] = ld[t] => u = t
  BY Zenon, <1>0, InHands
<1>6. \A i \in Instances : i # ld[t] => (Live(i)' <=> Live(i))
  BY Zenon DEF Live
<1>7. Registry'
  <2>1. \A h \in Handles : byID[h] # 0 => byID[h] \in Instances
    BY Zenon, Numbers
  <2>2. \A h \in Handles : byID'[h] # 0 => Live(byID[h])' /\ byID'[h] <= built'
    <3> SUFFICES ASSUME NEW h \in Handles, byID[h] # 0 PROVE Live(byID[h])' /\ byID[h] <= built
      BY Zenon, <1>1
    <3>1. Live(byID[h]) /\ byID[h] <= built
      BY Zenon, <1>0 DEF Registry
    <3> QED
      BY Zenon, <1>1, <1>5, <2>1, <3>1 DEF Live
  <2> QED
    BY ONLY Zenon, <1>0, <1>1, <1>3, <2>2, handle_' = handle_ DEF Registry
<1>8. PrivateInstances'
  <2>1. \A u \in Threads : Private(u)' => Private(u)
    BY Zenon DEF Private
  <2>2. \A u \in Threads : u # t /\ Private(u) => ld[u] # ld[t] /\ ld[u] \in Instances
    BY Zenon, <1>0, <1>5, InHands
  <2>3. \A u \in Threads : u # t /\ Private(u) =>
          /\ pc'[u] = pc[u] /\ core'[ld[u]] = core[ld[u]]
          /\ (closed'[ld[u]] <=> closed[ld[u]]) /\ (cancelled'[ld[u]] <=> cancelled[ld[u]])
    BY Zenon, <2>2
  <2>4. \A u \in Threads : pc'[u] = "activate" =>
          core'[ld[u]] = "built" /\ ~closed'[ld[u]] /\ ~cancelled'[ld[u]]
    BY <1>0, <2>3 DEF PrivateInstances, Private
  <2>5. \A u \in Threads : u # t /\ pc'[u] \in {"register", "close"} => 
          ld[u] # 0 /\ core'[ld[u]] = "started" /\ ~closed'[ld[u]] /\ ~cancelled'[ld[u]]
    BY <1>0, <2>3 DEF PrivateInstances, Private, Live
  <2>6. \A u \in Threads : pc'[u] \in {"register", "close"} =>
          ld[u] # 0 /\ core'[ld[u]] = "started" /\ ~closed'[ld[u]] /\ ~cancelled'[ld[u]]
    BY <2>5 DEF Live
  <2>7. \A u \in Threads : pc'[u] = "core_close" => core'[ld[u]] = "started"
    BY <1>0, <2>3 DEF PrivateInstances, Private
  <2>8. \A i \in Instances : i > built => core'[i] = "absent" /\ ~closed'[i] /\ ~cancelled'[i]
    <3>1. ld[t] <= built
      BY Zenon, <1>0 DEF PrivateInstances
    <3>2. \A i \in Instances : i > built => i # ld[t]
      BY <3>1, BoundsAssumption DEF TypeOK, Instances
    <3> QED
      BY Zenon, <1>0, <3>2 DEF PrivateInstances
  <2>9. /\ \A u \in Threads : Private(u)' =>
             ld[u] # 0 /\ ld[u] <= built /\ \A h \in Handles : byID[h] # ld[u]
        /\ \A t1, t2 \in Threads : Private(t1)' /\ Private(t2)' /\ ld[t1] = ld[t2] => t1 = t2
    BY Zenon, <1>0, <2>1 DEF PrivateInstances
  <2> QED
    BY ONLY Zenon, <1>1, <2>4, <2>6, <2>7, <2>8, <2>9, UNCHANGED <<built, ld>>
       DEF PrivateInstances, Live
<1>9. AccessHolders'
  <2>1. \A i \in Instances, u \in Threads :
          access'[i] = u => ld[u] = i /\ pc'[u] \in {"core_close", "snapshot"}
    <3>1. \A i \in Instances, u \in Threads :
            access[i] = u /\ u # t => ld[u] = i /\ pc'[u] \in {"core_close", "snapshot"}
      <4>1. \A u \in Threads : u # t => pc'[u] = pc[u]
        OBVIOUS
      <4> QED
        BY ONLY <1>0, <4>1 DEF AccessHolders
    <3> QED
      BY <3>1
  <2>2. \A u \in Threads : pc'[u] \in {"query", "snapshot"} => ld[u] = byID[hnd[u]]
    BY <1>0 DEF AccessHolders
  <2> QED
    BY ONLY Zenon, <1>1, <2>1, <2>2, UNCHANGED <<hnd, ld>> DEF AccessHolders
<1>10. StartedHeld'
  <2>1. \A i \in Instances, u \in Threads : Holding(u, i) => Holding(u, i)' \/ core'[i] # "started"
    BY Zenon DEF Holding
  <2>2. \A i \in Instances : i # ld[t] /\ core'[i] = "started" => core[i] = "started"
    BY Zenon
  <2>3. \A i \in Instances : i = ld[t] /\ core'[i] = "started" => Holding(t, i)'
    BY Zenon DEF Holding
  <2>4. ASSUME NEW i \in Instances, core'[i] = "started"
        PROVE  (\E h \in Handles : byID'[h] = i) \/ (\E u \in Threads : Holding(u, i)')
    <3>1. CASE i = ld[t]
      BY ONLY Zenon, <2>3, <2>4, <3>1, t \in Threads, i \in Instances
    <3>2. CASE i # ld[t]
      <4>1. (\E h \in Handles : byID[h] = i) \/ (\E u \in Threads : Holding(u, i))
        BY ONLY Zenon, <1>0, <2>2, <2>4, <3>2, i \in Instances DEF StartedHeld, Holding
      <4> QED
        BY ONLY Zenon, <1>1, <2>1, <2>4, <4>1, i \in Instances
    <3> QED
      BY ONLY <3>1, <3>2
  <2> QED
    BY ONLY Zenon, <2>4 DEF StartedHeld, Holding
<1> QED
  BY Zenon, <1>2, <1>4, <1>7, <1>8, <1>9, <1>10

\* box.New gives the call a fresh instance that nobody else has.
LEMMA BuildInstanceStep ==
  ASSUME IInv, NEW t \in Threads, BuildInstance(t)
  PROVE  Safe'
<1> DEFINE n == built + 1
<1>0. /\ HandlesIssued /\ SoleHolder /\ Registry /\ Held
      /\ PrivateInstances /\ AccessHolders /\ StartedHeld
  BY Zenon DEF IInv, Safe
<1>1. /\ pc[t] = "build" /\ pc'[t] = "activate" /\ built' = n /\ ld'[t] = n
      /\ UNCHANGED <<objVars, regVars, closed, cancelled, access, op, obj, hnd, res>>
      /\ \A u \in Threads : u # t => pc'[u] = pc[u] /\ ld'[u] = ld[u]
  BY Zenon DEF BuildInstance, Goto, IInv, TypeOK
<1>2. UNCHANGED <<handle_, next, byID, closed, cancelled, access, hnd, res>>
  BY Zenon, <1>1 DEF objVars, regVars
<1>3. n \in Instances /\ n # 0 /\ built \in Nat
  BY BoundsAssumption DEF BuildInstance, IInv, TypeOK, Instances
<1>4. /\ core'[n] = "built" /\ \A i \in Instances : i # n => core'[i] = core[i]
      /\ core[n] = "absent" /\ ~closed[n] /\ ~cancelled[n]
  <2>1. core[n] = "absent" /\ ~closed[n] /\ ~cancelled[n]
    BY <1>0, <1>3 DEF PrivateInstances
  <2> QED
    BY Zenon, <1>3, <2>1 DEF BuildInstance, IInv, TypeOK
<1>5. \A h \in Handles : byID[h] # 0 => byID[h] # n /\ byID[h] \in Instances /\ byID[h] <= n
  <2>1. \A h \in Handles : byID[h] # 0 => byID[h] \in Instances /\ byID[h] \in Nat /\ byID[h] <= built
    BY Zenon, <1>0, Numbers DEF Registry, IInv
  <2> QED
    BY ONLY <1>3, <2>1
<1> HIDE DEF n
<1>6. Exclusive' /\ HandleDuringCall' /\ Flagged'
  <2>1. res[t] = "ok"
    BY Zenon, <1>1 DEF IInv, Safe, HandleDuringCall
  <2> QED
    BY <1>1, <1>2, <2>1, Proceeds DEF IInv, Busy, Starting, Stopping, Querying
<1>7. \A h \in Handles, u \in Threads : Carries(u, h)' <=> Carries(u, h)
  <2>1. \A h \in Handles : ~Carries(t, h) /\ ~Carries(t, h)'
    BY ONLY <1>1 DEF Carries
  <2> QED
    BY ONLY Zenon, <1>1, <1>2, <2>1 DEF Carries
<1>8. HandlesIssued' /\ SoleHolder' /\ Held'
  BY ONLY Zenon, <1>0, <1>2, <1>7, SoleHolderKept, HeldKept DEF HandlesIssued
<1>9. Registry'
  <2>1. \A h \in Handles : byID[h] # 0 => core'[byID[h]] = core[byID[h]] /\ byID[h] <= built'
    BY ONLY Zenon, <1>1, <1>4, <1>5
  <2> QED
    BY ONLY Zenon, <1>0, <1>2, <1>7, <2>1 DEF Registry, Live
<1>10. PrivateInstances'
  <2>1. ~Private(t)
    BY Zenon, <1>1 DEF Private
  <2>2. \A u \in Threads : Private(u) => ld[u] <= built' /\ ld[u] \in Instances /\ ld[u] # n
    <3>1. \A u \in Threads : Private(u) => ld[u] <= built /\ ld[u] \in Instances /\ ld[u] \in Nat
      BY Zenon, <1>0, InHands, Numbers DEF IInv
    <3> QED
      BY ONLY <1>1, <1>3, <3>1 DEF n
  <2>3. \A u \in Threads : Private(u) => core'[ld[u]] = core[ld[u]]
    BY ONLY Zenon, <1>4, <2>2
  <2>4. n <= built'
    BY ONLY <1>1, <1>3 DEF n
  <2>5. \A h \in Handles : byID[h] # n
    BY ONLY Zenon, <1>3, <1>5
  <2>6. \A i \in Instances : i > built' => core'[i] = "absent" /\ ~closed[i] /\ ~cancelled[i]
    <3>1. \A i \in Instances : i > built' => i # n /\ i > built
      BY ONLY <1>1, <1>3 DEF n, Instances
    <3> QED
      BY ONLY Zenon, <1>0, <1>4, <3>1 DEF PrivateInstances
  <2>7. core'[n] = IF pc'[t] = "activate" THEN "built" ELSE "started"
    BY ONLY <1>1, <1>4
  <2> QED
    BY ONLY Zenon, <1>0, <1>1, <1>2, <1>3, <1>4, <2>1, <2>2, <2>3, <2>4, <2>5, <2>6, <2>7,
       PrivateTaken, t \in Threads
<1>11. AccessHolders'
  <2>1. \A i \in Instances : access[i] # t
    BY Zenon, <1>0, <1>1 DEF AccessHolders
  <2>2. \A i \in Instances, u \in Threads :
          access'[i] = u => ld'[u] = i /\ pc'[u] \in {"core_close", "snapshot"}
    BY ONLY <1>0, <1>1, <1>2, <2>1 DEF AccessHolders
  <2>3. \A u \in Threads : pc'[u] \in {"query", "snapshot"} => ld'[u] = byID'[hnd'[u]]
    BY ONLY <1>0, <1>1, <1>2 DEF AccessHolders
  <2> QED
    BY ONLY Zenon, <2>2, <2>3 DEF AccessHolders
<1>12. StartedHeld'
  <2>1. \A i \in Instances : core'[i] = "started" => core[i] = "started"
    BY ONLY <1>4
  <2>2. \A i \in Instances, u \in Threads : Holding(u, i) => Holding(u, i)'
    BY ONLY Zenon, <1>1 DEF Holding
  <2> QED
    BY ONLY Zenon, <1>0, <1>2, <2>1, <2>2, StartedHeldKept
<1> QED
  BY ONLY Zenon, <1>6, <1>8, <1>9, <1>10, <1>11, <1>12 DEF Safe

\* singbox_stop takes the instance out of the registry into the call's hands.
LEMMA UnregisterStep ==
  ASSUME IInv, NEW t \in Threads, Unregister(t)
  PROVE  Safe'
<1>0. /\ HandlesIssued /\ SoleHolder /\ Registry /\ Held
      /\ PrivateInstances /\ AccessHolders /\ StartedHeld /\ HandleDuringCall
  BY Zenon DEF IInv, Safe
<1>1. /\ pc[t] = "unregister" /\ UNCHANGED <<objVars, next, instVars, op, obj, hnd, res>>
      /\ byID' = [h \in Handles |-> IF h = hnd[t] THEN 0 ELSE byID[h]]
  BY Zenon DEF Unregister
<1>2. UNCHANGED <<handle_, next, built, core, closed, cancelled, access, obj, hnd, res>>
  BY Zenon, <1>1 DEF objVars, instVars
<1>3. /\ \A h \in Handles : h # 0
      /\ \A u \in Threads : hnd[u] # 0 => hnd[u] \in Handles
      /\ \A o \in Objects : handle_[o] # 0 => handle_[o] \in Handles
  <2>1. \A h \in Handles : h # 0
    BY BoundsAssumption DEF Handles
  <2> QED
    BY Zenon, <2>1, Numbers DEF IInv
<1>4. hnd[t] \in Handles /\ Carries(t, hnd[t]) /\ byID[hnd[t]] # 0
  <2>1. hnd[t] \in Handles /\ Carries(t, hnd[t])
    BY Zenon, <1>0, <1>1, <1>3 DEF HandleDuringCall, Carries
  <2> QED
    BY Zenon, <1>0, <2>1 DEF Registry
<1>5. /\ pc'[t] = "close" /\ ld'[t] = byID[hnd[t]]
      /\ \A u \in Threads : u # t => pc'[u] = pc[u] /\ ld'[u] = ld[u]
  BY Zenon, <1>3, <1>4 DEF Unregister, Lookup, Goto, IInv, TypeOK
<1>6. byID'[hnd[t]] = 0 /\ \A h \in Handles : h # hnd[t] => byID'[h] = byID[h]
  BY ONLY Zenon, <1>1, <1>4
<1>7. Exclusive' /\ HandleDuringCall' /\ Flagged'
  BY <1>1, <1>2, <1>5, Proceeds DEF IInv, Busy, Starting, Stopping, Querying
<1>8. /\ \A o \in Objects : handle_[o] # hnd[t]
      /\ \A u \in Threads, h \in Handles : Carries(u, h)' => Carries(u, h) /\ h # hnd[t]
      /\ \A u \in Threads, h \in Handles : Carries(u, h) /\ u # t => Carries(u, h)'
  <2>1. \A o \in Objects : handle_[o] # hnd[t]
    BY ONLY Zenon, <1>0, <1>4, t \in Threads DEF SoleHolder
  <2>2. \A u \in Threads, h \in Handles :
          (Carries(u, h)' => Carries(u, h) /\ u # t) /\ (Carries(u, h) /\ u # t => Carries(u, h)')
    BY ONLY Zenon, <1>2, <1>5 DEF Carries
  <2>3. \A u \in Threads, h \in Handles : Carries(u, h)' => Carries(u, h) /\ h # hnd[t]
    BY ONLY <1>0, <1>4, <2>2, t \in Threads DEF SoleHolder
  <2> QED
    BY ONLY Zenon, <2>1, <2>2, <2>3
<1>9. HandlesIssued'
  BY ONLY Zenon, <1>0, <1>2, <1>6 DEF HandlesIssued
<1>10. SoleHolder'
  BY ONLY Zenon, <1>0, <1>2, <1>8, SoleHolderKept
<1>11. Live(byID[hnd[t]]) /\ byID[hnd[t]] <= built
  BY ONLY Zenon, <1>0, <1>4 DEF Registry
<1>12. \A h \in Handles : byID'[h] # 0 => byID'[h] = byID[h] /\ h # hnd[t]
  BY ONLY Zenon, <1>6
<1>13. Registry'
  <2>1. \A o \in Objects : handle_'[o] # 0 => byID'[handle_'[o]] # 0
    BY ONLY Zenon, <1>0, <1>2, <1>3, <1>6, <1>8 DEF Registry
  <2>2. \A h \in Handles, u \in Threads : Carries(u, h)' => byID'[h] # 0
    BY ONLY Zenon, <1>0, <1>6, <1>8 DEF Registry
  <2>3. \A h \in Handles : byID'[h] # 0 => Live(byID'[h]) /\ byID'[h] <= built
    BY ONLY Zenon, <1>0, <1>12 DEF Registry
  <2>4. \A h1, h2 \in Handles : byID'[h1] # 0 /\ byID'[h1] = byID'[h2] => h1 = h2
    BY ONLY Zenon, <1>0, <1>12 DEF Registry
  <2> QED
    BY ONLY Zenon, <1>2, <2>1, <2>2, <2>3, <2>4 DEF Registry, Live
<1>14. Held'
  <2>1. \A h \in Handles : byID'[h] # 0 => byID[h] # 0 /\ h # hnd[t]
    BY ONLY Zenon, <1>12
  <2>2. \A h \in Handles, u \in Threads : Carries(u, h) => Carries(u, h)' \/ byID'[h] = 0
    <3>1. \A h \in Handles : Carries(t, h) => h = hnd[t]
      BY ONLY Zenon DEF Carries
    <3> QED
      BY ONLY Zenon, <1>6, <1>8, <3>1
  <2> QED
    BY ONLY Zenon, <1>0, <1>2, <2>1, <2>2, HeldKept
<1>15. PrivateInstances'
  <2>1. ~Private(t)
    BY Zenon, <1>1 DEF Private
  <2>2. \A h \in Handles : byID'[h] # byID[hnd[t]] /\ (byID'[h] = byID[h] \/ byID'[h] = 0)
    <3>1. \A h \in Handles : h # hnd[t] => byID[h] # byID[hnd[t]]
      BY ONLY Zenon, <1>0, <1>4 DEF Registry
    <3> QED
      BY ONLY Zenon, <1>4, <1>6, <3>1
  <2>3. \A u \in Threads : Private(u) =>
          ld[u] # byID[hnd[t]] /\ ld[u] <= built' /\ core'[ld[u]] = core[ld[u]]
    <3>1. \A u \in Threads : Private(u) => ld[u] # byID[hnd[t]]
      BY ONLY <1>0, <1>4 DEF PrivateInstances
    <3>2. \A u \in Threads : Private(u) => ld[u] <= built
      BY ONLY Zenon, <1>0 DEF PrivateInstances
    <3> QED
      BY ONLY Zenon, <1>2, <3>1, <3>2
  <2>4. \A i \in Instances : i > built' => core'[i] = "absent" /\ ~closed[i] /\ ~cancelled[i]
    BY ONLY Zenon, <1>0, <1>2 DEF PrivateInstances
  <2>5. /\ ~closed[byID[hnd[t]]] /\ ~cancelled[byID[hnd[t]]] /\ byID[hnd[t]] <= built'
        /\ core'[byID[hnd[t]]] = IF pc'[t] = "activate" THEN "built" ELSE "started"
    BY ONLY <1>2, <1>5, <1>11 DEF Live
  <2> QED
    BY ONLY Zenon, <1>0, <1>2, <1>4, <1>5, <2>1, <2>2, <2>3, <2>4, <2>5, PrivateTaken, t \in Threads
<1>16. AccessHolders'
  <2>1. \A u \in Threads : pc'[u] \in {"query", "snapshot"} =>
          pc[u] = pc'[u] /\ ld'[u] = ld[u] /\ hnd[u] # hnd[t] /\ hnd[u] \in Handles
    <3>1. \A u \in Threads : pc'[u] \in {"query", "snapshot"} =>
            hnd[u] = handle_[obj[u]] /\ hnd[u] # 0 /\ pc[u] = pc'[u] /\ ld'[u] = ld[u]
      BY ONLY <1>0, <1>5 DEF HandleDuringCall, Querying
    <3>2. \A u \in Threads : obj[u] \in Objects
      BY Zenon DEF IInv, TypeOK
    <3>3. \A u \in Threads : pc'[u] \in {"query", "snapshot"} => hnd[u] # hnd[t]
      <4>1. \A u \in Threads : handle_[obj[u]] # hnd[t]
        BY ONLY Zenon, <1>8, <3>2
      <4> QED
        BY ONLY <3>1, <4>1
    <3>4. \A u \in Threads : pc'[u] \in {"query", "snapshot"} => hnd[u] \in Handles
      BY ONLY Zenon, <1>3, <3>1
    <3> QED
      BY ONLY Zenon, <3>1, <3>3, <3>4
  <2>2. \A i \in Instances, u \in Threads :
          access'[i] = u => ld'[u] = i /\ pc'[u] \in {"core_close", "snapshot"}
    <3>1. \A i \in Instances : access[i] # t
      BY ONLY <1>0, <1>1, t \in Threads DEF AccessHolders
    <3> QED
      BY ONLY <1>0, <1>2, <1>5, <3>1 DEF AccessHolders
  <2>3. \A u \in Threads : pc'[u] \in {"query", "snapshot"} => ld'[u] = byID'[hnd'[u]]
    BY ONLY <1>0, <1>2, <1>6, <2>1 DEF AccessHolders
  <2> QED
    BY ONLY Zenon, <2>2, <2>3 DEF AccessHolders
<1>17. StartedHeld'
  <2>1. \A i \in Instances, h \in Handles : byID[h] = i => byID'[h] = i \/ Holding(t, i)'
    BY ONLY Zenon, <1>5, <1>6 DEF Holding
  <2>2. \A i \in Instances, u \in Threads : Holding(u, i) => Holding(u, i)'
    BY ONLY Zenon, <1>1, <1>5 DEF Holding
  <2>3. \A i \in Instances : core'[i] = "started" =>
          (\E h \in Handles : byID[h] = i) \/ (\E u \in Threads : Holding(u, i))
    BY ONLY Zenon, <1>0, <1>2 DEF StartedHeld, Holding
  <2>4. \A i \in Instances : core'[i] = "started" =>
          (\E h \in Handles : byID'[h] = i) \/ (\E u \in Threads : Holding(u, i)')
    BY ONLY Zenon, <2>1, <2>2, <2>3, t \in Threads
  <2> QED
    BY ONLY Zenon, <2>4 DEF StartedHeld, Holding
<1> QED
  BY ONLY Zenon, <1>7, <1>9, <1>10, <1>13, <1>14, <1>15, <1>16, <1>17 DEF Safe

\* While the counter has not reached the last handle it does not wrap: the handle
\* issued is next + 1, which nobody has.
LEMMA RegisterStep ==
  ASSUME IInv, next < MaxHandle, NEW t \in Threads, Register(t)
  PROVE  Safe'
<1> DEFINE n == next + 1
<1>0. /\ HandlesIssued /\ SoleHolder /\ Registry /\ Held
      /\ PrivateInstances /\ AccessHolders /\ StartedHeld /\ HandleDuringCall
  BY Zenon DEF IInv, Safe
<1>1. n \in Nat /\ n > 0 /\ n <= MaxHandle /\ next \in Nat
  BY BoundsAssumption DEF IInv, TypeOK
<1>2. NextHandle(next) = n /\ n \in Handles
  <2>1. n % (MaxHandle + 1) = n
    BY <1>1, BoundsAssumption
  <2> QED
    BY <1>1, <2>1 DEF NextHandle, Handles
<1>3. /\ byID[n] = 0
      /\ \A o \in Objects : handle_[o] # n
      /\ \A u \in Threads : hnd[u] # n
  BY <1>0, <1>1, <1>2 DEF HandlesIssued
<1> HIDE DEF n
<1>4. /\ next' = n /\ pc[t] = "register" /\ pc'[t] = "start_end" /\ hnd'[t] = n
      /\ byID' = [byID EXCEPT ![n] = ld[t]]
      /\ UNCHANGED <<objVars, instVars, op, obj, ld, res>>
      /\ \A u \in Threads : u # t => pc'[u] = pc[u] /\ hnd'[u] = hnd[u]
  BY Zenon, <1>2 DEF Register, Goto, IInv, TypeOK
<1>5. UNCHANGED <<handle_, built, core, closed, cancelled, access, obj, ld, res>>
  BY Zenon, <1>4 DEF objVars, instVars
<1>6. byID'[n] = ld[t] /\ \A h \in Handles : h # n => byID'[h] = byID[h]
  BY Zenon, <1>2, <1>4 DEF IInv, TypeOK
<1>7. /\ res[t] = "ok" /\ n # 0
      /\ Live(ld[t]) /\ ld[t] <= built /\ ld[t] # 0
      /\ \A h \in Handles : byID[h] # ld[t]
  <2>1. res[t] = "ok"
    BY Zenon, <1>0, <1>4 DEF HandleDuringCall
  <2>2. Private(t)
    BY Zenon, <1>4 DEF Private
  <2>3. n # 0
    BY ONLY <1>1
  <2> QED
    BY Zenon, <1>0, <1>4, <2>1, <2>2, <2>3, InHands DEF IInv
<1>8. Exclusive' /\ HandleDuringCall' /\ Flagged'
  BY <1>4, <1>5, <1>7, Proceeds DEF IInv, Busy, Starting, Stopping, Querying
<1>9. HandlesIssued'
  <2>1. \A h \in Handles : byID'[h] # 0 => h <= next'
    BY ONLY <1>0, <1>1, <1>4, <1>6 DEF HandlesIssued, n, Handles
  <2>2. \A o \in Objects : handle_'[o] <= next'
    <3>1. \A o \in Objects : handle_[o] <= next /\ handle_[o] \in Nat
      BY Zenon, <1>0, Numbers DEF HandlesIssued, IInv
    <3> QED
      BY ONLY <1>1, <1>4, <1>5, <3>1 DEF n
  <2>3. \A u \in Threads : hnd'[u] <= next'
    <3>1. \A u \in Threads : hnd[u] <= next /\ hnd[u] \in Nat
      BY Zenon, <1>0, Numbers DEF HandlesIssued, IInv
    <3> QED
      BY ONLY <1>1, <1>4, <3>1 DEF n
  <2> QED
    BY ONLY Zenon, <2>1, <2>2, <2>3 DEF HandlesIssued
<1>10. /\ \A h \in Handles, u \in Threads : Carries(u, h)' => Carries(u, h) \/ (u = t /\ h = n)
       /\ \A h \in Handles, u \in Threads : Carries(u, h) => Carries(u, h)' /\ h # n
       /\ \A h \in Handles : h = n => Carries(t, h)'
  <2>1. \A h \in Handles : ~Carries(t, h) /\ (Carries(t, h)' <=> h = n)
    BY ONLY <1>4, <1>5, <1>7 DEF Carries
  <2>2. \A h \in Handles, u \in Threads : u # t => (Carries(u, h)' <=> Carries(u, h))
    BY ONLY Zenon, <1>4, <1>5 DEF Carries
  <2>3. \A h \in Handles, u \in Threads : Carries(u, h) => h # n
    BY ONLY Zenon, <1>3 DEF Carries
  <2> QED
    BY ONLY Zenon, <2>1, <2>2, <2>3
<1>11. SoleHolder'
  <2>1. \A h \in Handles, t1, t2 \in Threads : Carries(t1, h)' /\ Carries(t2, h)' => t1 = t2
    BY ONLY <1>0, <1>10 DEF SoleHolder
  <2>2. \A h \in Handles, o \in Objects, u \in Threads : ~(handle_'[o] = h /\ Carries(u, h)')
    BY ONLY Zenon, <1>0, <1>3, <1>5, <1>10 DEF SoleHolder
  <2> QED
    BY ONLY Zenon, <1>0, <1>5, <2>1, <2>2 DEF SoleHolder
<1>12. Registry'
  <2>1. \A o \in Objects : handle_[o] # 0 => handle_[o] \in Handles
    BY DEF IInv, TypeOK, Handles
  <2>2. \A o \in Objects : handle_'[o] # 0 => byID'[handle_'[o]] # 0
    BY ONLY Zenon, <1>0, <1>3, <1>5, <1>6, <2>1 DEF Registry
  <2>3. \A h \in Handles, u \in Threads : Carries(u, h)' => byID'[h] # 0
    BY ONLY Zenon, <1>0, <1>6, <1>7, <1>10 DEF Registry
  <2>4. \A h \in Handles : byID'[h] # 0 => Live(byID'[h]) /\ byID'[h] <= built
    BY ONLY Zenon, <1>0, <1>6, <1>7 DEF Registry
  <2>5. \A h1, h2 \in Handles : byID'[h1] # 0 /\ byID'[h1] = byID'[h2] => h1 = h2
    BY ONLY <1>0, <1>6, <1>7 DEF Registry
  <2> QED
    BY ONLY Zenon, <1>5, <2>2, <2>3, <2>4, <2>5 DEF Registry, Live
<1>13. Held'
  <2>1. \A h \in Handles : byID'[h] # 0 => byID[h] # 0 \/ h = n
    BY ONLY Zenon, <1>6
  <2> QED
    BY ONLY Zenon, <1>0, <1>5, <1>10, <2>1, t \in Threads DEF Held
<1>14. PrivateInstances'
  <2>1. \A u \in Threads : Private(u)' => Private(u) /\ u # t /\ pc'[u] = pc[u]
    BY ONLY <1>4 DEF Private
  <2>2. \A u \in Threads : Private(u)' => ld[u] # ld[t]
    BY ONLY <1>0, <1>4, <2>1, t \in Threads DEF PrivateInstances, Private
  <2>3. \A u \in Threads : Private(u)' =>
          ld[u] # 0 /\ ld[u] <= built /\ \A h \in Handles : byID'[h] # ld[u]
    <3>1. \A u \in Threads : Private(u)' =>
            ld[u] # 0 /\ ld[u] <= built /\ \A h \in Handles : byID[h] # ld[u]
      BY ONLY Zenon, <1>0, <2>1 DEF PrivateInstances
    <3>2. \A h \in Handles : byID'[h] = ld[t] \/ byID'[h] = byID[h]
      BY ONLY Zenon, <1>6
    <3>3. \A u \in Threads : Private(u)' => \A h \in Handles : byID'[h] # ld[u]
      BY ONLY Zenon, <2>2, <3>1, <3>2
    <3> QED
      BY ONLY Zenon, <3>1, <3>3
  <2>4. /\ \A t1, t2 \in Threads : Private(t1)' /\ Private(t2)' /\ ld[t1] = ld[t2] => t1 = t2
        /\ \A i \in Instances : i > built => core[i] = "absent" /\ ~closed[i] /\ ~cancelled[i]
    BY ONLY Zenon, <1>0, <2>1 DEF PrivateInstances
  <2>5. \A u \in Threads : pc'[u] \in {"activate", "register", "close", "core_close"} => pc'[u] = pc[u]
    BY ONLY Zenon, <2>1 DEF Private
  <2>6. /\ \A u \in Threads : pc'[u] = "activate" =>
             core[ld[u]] = "built" /\ ~closed[ld[u]] /\ ~cancelled[ld[u]]
        /\ \A u \in Threads : pc'[u] \in {"register", "close"} => Live(ld[u])
        /\ \A u \in Threads : pc'[u] = "core_close" => core[ld[u]] = "started"
    BY ONLY <1>0, <2>5 DEF PrivateInstances
  <2> QED
    BY ONLY Zenon, <1>5, <2>3, <2>4, <2>6 DEF PrivateInstances, Live
<1>15. AccessHolders'
  <2>1. \A i \in Instances, u \in Threads :
          access'[i] = u => ld'[u] = i /\ pc'[u] \in {"core_close", "snapshot"}
    <3>1. \A i \in Instances : access[i] # t
      BY ONLY <1>0, <1>4, t \in Threads DEF AccessHolders
    <3> QED
      BY ONLY <1>0, <1>4, <1>5, <3>1 DEF AccessHolders
  <2>2. \A u \in Threads : pc'[u] \in {"query", "snapshot"} =>
          u # t /\ hnd[u] # n /\ hnd[u] \in Handles /\ pc[u] = pc'[u]
    <3>1. \A u \in Threads : hnd[u] # 0 => hnd[u] \in Handles
      BY Zenon, Numbers DEF IInv
    <3>2. \A u \in Threads : pc'[u] \in {"query", "snapshot"} => u # t /\ pc[u] = pc'[u]
      BY ONLY <1>4
    <3>3. \A u \in Threads : pc[u] \in {"query", "snapshot"} => hnd[u] # 0
      BY ONLY Zenon, <1>0 DEF HandleDuringCall, Querying
    <3> QED
      BY ONLY Zenon, <1>3, <3>1, <3>2, <3>3
  <2>3. \A u \in Threads : pc'[u] \in {"query", "snapshot"} => ld'[u] = byID'[hnd'[u]]
    <3>1. \A u \in Threads : pc'[u] \in {"query", "snapshot"} => ld[u] = byID[hnd[u]]
      BY ONLY <1>0, <2>2 DEF AccessHolders
    <3>2. \A u \in Threads : pc'[u] \in {"query", "snapshot"} =>
            hnd'[u] = hnd[u] /\ byID'[hnd[u]] = byID[hnd[u]]
      BY ONLY Zenon, <1>4, <1>6, <2>2
    <3> QED
      BY ONLY <1>5, <3>1, <3>2
  <2> QED
    BY ONLY Zenon, <2>1, <2>3 DEF AccessHolders
<1>16. StartedHeld'
  <2>1. \A i \in Instances, u \in Threads : Holding(u, i) => Holding(u, i)' \/ byID'[n] = i
    BY ONLY Zenon, <1>4, <1>5, <1>6 DEF Holding
  <2>2. \A i \in Instances, h \in Handles : byID[h] = i => byID'[h] = i
    BY ONLY <1>3, <1>6, BoundsAssumption DEF Instances
  <2>3. \A i \in Instances : core'[i] = "started" =>
          (\E h \in Handles : byID[h] = i) \/ (\E u \in Threads : Holding(u, i))
    BY ONLY Zenon, <1>0, <1>5 DEF StartedHeld, Holding
  <2>4. \A i \in Instances : core'[i] = "started" =>
          (\E h \in Handles : byID'[h] = i) \/ (\E u \in Threads : Holding(u, i)')
    BY ONLY Zenon, <1>2, <2>1, <2>2, <2>3
  <2> QED
    BY ONLY Zenon, <2>4 DEF StartedHeld, Holding
<1> QED
  BY ONLY Zenon, <1>8, <1>9, <1>11, <1>12, <1>13, <1>14, <1>15, <1>16 DEF Safe

----------------------------------------------------------------------------
(* Steps that stay inside one call.                                        *)

\* A call that has neither a handle nor an instance in its hands.
Bare(t) ==
  \/ pc[t] \in {"idle", "build", "load", "query_end", "stop_end"}
  \/ pc[t] = "start_end" /\ res[t] # "ok"

\* A step of such a call that leaves it so touches nothing that is held.
LEMMA BareMove ==
  ASSUME Safe, NEW t \in Threads, Bare(t), Bare(t)', hnd'[t] <= next,
         UNCHANGED <<handle_, regVars, instVars>>,
         \A u \in Threads : u # t =>
           pc'[u] = pc[u] /\ hnd'[u] = hnd[u] /\ ld'[u] = ld[u] /\ res'[u] = res[u]
  PROVE  /\ HandlesIssued' /\ SoleHolder' /\ Registry' /\ Held'
         /\ PrivateInstances' /\ AccessHolders' /\ StartedHeld'
<1>0. /\ HandlesIssued /\ SoleHolder /\ Registry /\ Held
      /\ PrivateInstances /\ AccessHolders /\ StartedHeld
  BY Zenon DEF Safe
<1>1. UNCHANGED <<next, byID, built, core, closed, cancelled, access>>
  BY Zenon DEF regVars, instVars
<1>2. \A h \in Handles, u \in Threads : Carries(u, h)' <=> Carries(u, h)
  <2>1. \A h \in Handles : ~Carries(t, h) /\ ~Carries(t, h)'
    BY DEF Carries, Bare
  <2> QED
    BY ONLY Zenon, <2>1, \A u \in Threads : u # t => pc'[u] = pc[u] /\ hnd'[u] = hnd[u] /\ res'[u] = res[u]
       DEF Carries
<1>3. HandlesIssued'
  BY ONLY Zenon, <1>1, handle_' = handle_, hnd'[t] <= next, <1>0,
     \A u \in Threads : u # t => hnd'[u] = hnd[u] DEF HandlesIssued
<1>4. SoleHolder' /\ Registry' /\ Held'
  BY ONLY Zenon, <1>1, <1>2, handle_' = handle_, <1>0,
     SoleHolderKept, RegistryKept, HeldKept
<1>5. PrivateInstances'
  <2>1. \A u \in Threads : Private(u)' => pc'[u] = pc[u] /\ ld'[u] = ld[u]
    BY Zenon DEF Private, Bare
  <2> QED
    BY ONLY Zenon, <1>0, <1>1, <2>1, PrivateKept
<1>6. AccessHolders'
  <2>1. /\ \A u \in Threads : pc[u] \in {"core_close", "snapshot"} => pc'[u] = pc[u] /\ ld'[u] = ld[u]
        /\ \A u \in Threads : pc'[u] \in {"query", "snapshot"} =>
             pc'[u] = pc[u] /\ ld'[u] = ld[u] /\ hnd'[u] = hnd[u]
    BY Zenon DEF Bare
  <2> QED
    BY ONLY Zenon, <1>0, <1>1, <2>1, AccessKept
<1>7. StartedHeld'
  <2>1. \A i \in Instances, u \in Threads : Holding(u, i) => Holding(u, i)'
    BY Zenon DEF Holding, Bare
  <2> QED
    BY ONLY Zenon, <1>0, <1>1, <2>1, StartedHeldKept
<1> QED
  BY Zenon, <1>3, <1>4, <1>5, <1>6, <1>7

\* A call that begins has its object for itself.
LEMMA Begins ==
  ASSUME TypeOK, Safe, NEW t \in Threads, NEW o \in Objects, NEW m, NEW h, NEW p,
         Enter(t, o, m, h, p), ~operation_in_progress_[o], p # "idle",
         p = "build" => handle_'[o] = 0,
         p = "load" => handle_'[o] = h /\ h # 0,
         p = "unregister" => handle_'[o] = 0 /\ h # 0,
         p \in {"build", "load", "unregister"},
         \/ operation_in_progress_'[o] /\ alive'[o] /\ m # "destroy"
         \/ ~operation_in_progress_'[o] /\ handle_'[o] = 0 /\ p = "unregister" /\ ~alive'[o],
         \A x \in Objects : x # o =>
           /\ handle_'[x] = handle_[x]
           /\ alive'[x] <=> alive[x]
           /\ operation_in_progress_'[x] <=> operation_in_progress_[x]
  PROVE  Exclusive' /\ HandleDuringCall' /\ Flagged'
<1>1. /\ pc[t] = "idle" /\ pc'[t] = p /\ obj'[t] = o /\ op'[t] = m /\ hnd'[t] = h /\ res'[t] = "ok"
      /\ alive[o]
  BY Zenon DEF Enter, Call, Return, Goto, TypeOK
<1>2. \A u \in Threads : u # t =>
        pc'[u] = pc[u] /\ obj'[u] = obj[u] /\ op'[u] = op[u] /\ hnd'[u] = hnd[u] /\ res'[u] = res[u]
  BY Zenon DEF Enter, Call, Return, Goto, TypeOK
<1>3. \A u \in Threads : Busy(u) => obj[u] # o /\ obj[u] \in Objects /\ u # t
  <2>1. \A u \in Threads : Busy(u) => u # t
    BY Zenon, <1>1 DEF Busy
  <2>2. \A u \in Threads : Busy(u) => obj[u] # o
    BY Zenon, <1>1 DEF Safe, Exclusive
  <2> QED
    BY Zenon, <2>1, <2>2 DEF TypeOK
<1>4. \A u \in Threads : u # t => (Busy(u)' <=> Busy(u))
  BY Zenon, <1>2 DEF Busy
<1>5. Exclusive'
  <2>1. \A t1, t2 \in Threads : Busy(t1)' /\ Busy(t2)' /\ obj'[t1] = obj'[t2] => t1 = t2
    <3>1. \A u \in Threads : Busy(u)' /\ u # t => Busy(u) /\ obj'[u] # o
      BY Zenon, <1>2, <1>3, <1>4
    <3>2. \A t1, t2 \in Threads : Busy(t1) /\ Busy(t2) /\ obj[t1] = obj[t2] => t1 = t2
      BY Zenon DEF Safe, Exclusive
    <3> QED
      BY ONLY <1>1, <1>2, <3>1, <3>2
  <2>2. \A u \in Threads : Busy(u)' => operation_in_progress_'[obj'[u]] \/ ~alive'[obj'[u]]
    BY <1>1, <1>2, <1>3, <1>4 DEF Safe, Exclusive
  <2>3. \A u \in Threads : Starting(u)' \/ Querying(u)' => alive'[obj'[u]]
    BY <1>1, <1>2, <1>3 DEF Safe, Exclusive, Starting, Querying, Busy
  <2>4. \A x \in Objects : ~alive'[x] => handle_'[x] = 0
    BY Zenon, <1>1 DEF Safe, Exclusive
  <2> QED
    BY Zenon, <2>1, <2>2, <2>3, <2>4 DEF Exclusive
<1>6. HandleDuringCall'
  <2>1. \A u \in Threads : u # t /\ Busy(u) => handle_'[obj'[u]] = handle_[obj[u]]
    <3>1. \A u \in Threads : u # t /\ Busy(u) => obj'[u] = obj[u] /\ obj[u] # o /\ obj[u] \in Objects
      BY ONLY Zenon, <1>2, <1>3
    <3> QED
      BY Zenon, <3>1
  <2> QED
    <3>1. \A u \in Threads : Starting(u) \/ Stopping(u) \/ Querying(u) => Busy(u)
      BY DEF Starting, Stopping, Querying, Busy
    <3>2. \A u \in Threads : u # t =>
            /\ Starting(u)' <=> Starting(u)
            /\ Stopping(u)' <=> Stopping(u)
            /\ Querying(u)' <=> Querying(u)
      BY Zenon, <1>2 DEF Starting, Stopping, Querying
    <3>3. \A u \in Threads : u # t =>
            /\ Starting(u)' \/ Stopping(u)' => handle_'[obj'[u]] = 0
            /\ Querying(u)' => hnd'[u] = handle_'[obj'[u]] /\ hnd'[u] # 0
      BY Zenon, <1>2, <2>1, <3>1, <3>2 DEF Safe, HandleDuringCall
    <3>4. \A u \in Threads : u # t =>
            /\ pc'[u] \in {"build", "activate", "register", "unregister"} => res'[u] = "ok"
            /\ pc'[u] = "unregister" \/ (pc'[u] = "start_end" /\ res'[u] = "ok") => hnd'[u] # 0
      BY Zenon, <1>2 DEF Safe, HandleDuringCall
    <3>5. /\ Starting(t)' \/ Stopping(t)' => handle_'[obj'[t]] = 0
          /\ Querying(t)' => hnd'[t] = handle_'[obj'[t]] /\ hnd'[t] # 0
          /\ pc'[t] = "unregister" \/ (pc'[t] = "start_end" /\ res'[t] = "ok") => hnd'[t] # 0
      BY <1>1 DEF Starting, Stopping, Querying
    <3> QED
      BY ONLY Zenon, <1>1, <3>3, <3>4, <3>5 DEF HandleDuringCall
<1>7. Flagged'
  <2>1. \A u \in Threads, x \in Objects : Marks(u, x) => Marks(u, x)'
    BY Zenon, <1>2, <1>3, <1>4 DEF Marks
  <2>2. operation_in_progress_'[o] => Marks(t, o)'
    BY Zenon, <1>1 DEF Marks, Busy
  <2> QED
    BY Zenon, <2>1, <2>2 DEF Safe, Flagged
<1> QED
  BY Zenon, <1>5, <1>6, <1>7

\* A call that ends leaves its object to the others.
LEMMA Ends ==
  ASSUME TypeOK, Safe, NEW t \in Threads, Busy(t), Leave(t), alive' = alive,
         \A x \in Objects : x # obj[t] =>
           handle_'[x] = handle_[x] /\ (operation_in_progress_'[x] <=> operation_in_progress_[x]),
         \A x \in Objects : operation_in_progress_'[x] => operation_in_progress_[x] /\ ~Marks(t, x),
         handle_'[obj[t]] = handle_[obj[t]] \/ alive[obj[t]]
  PROVE  Exclusive' /\ HandleDuringCall' /\ Flagged'
<1>1. /\ pc'[t] = "idle" /\ hnd'[t] = 0
      /\ UNCHANGED <<op, obj, res>>
  BY DEF Leave, Goto, TypeOK
<1>2. \A u \in Threads : u # t => pc'[u] = pc[u] /\ hnd'[u] = hnd[u]
  BY Zenon DEF Leave, Goto, TypeOK
<1>3. \A u \in Threads : Busy(u)' => Busy(u) /\ u # t /\ obj[u] # obj[t] /\ obj[u] \in Objects
  <2>1. \A u \in Threads : Busy(u)' => Busy(u) /\ u # t
    BY Zenon, <1>1, <1>2 DEF Busy
  <2>2. \A u \in Threads : Busy(u) /\ u # t => obj[u] # obj[t]
    BY Zenon DEF Safe, Exclusive
  <2> QED
    BY Zenon, <2>1, <2>2 DEF TypeOK
<1>4. Exclusive'
  <2>1. \A x \in Objects : ~alive'[x] => handle_'[x] = 0
    BY Zenon DEF Safe, Exclusive
  <2> QED
    BY Zenon, <1>1, <1>2, <1>3, <2>1, ExclusiveKept DEF Safe
<1>5. HandleDuringCall'
  <2>1. \A u \in Threads : Busy(u)' => u # t /\ handle_'[obj'[u]] = handle_[obj[u]]
    BY Zenon, <1>1, <1>3
  <2> QED
    BY <1>1, <1>2, <2>1, HandleKept DEF Safe, Busy
<1>6. Flagged'
  <2>1. \A u \in Threads, x \in Objects : Marks(u, x) => Marks(u, x)' \/ u = t
    BY Zenon, <1>1, <1>2 DEF Marks, Busy
  <2> QED
    BY Zenon, <2>1 DEF Safe, Flagged
<1> QED
  BY Zenon, <1>4, <1>5, <1>6

\* A call that is over at once: it is refused, or there is nothing to stop.
LEMMA IdleMove ==
  ASSUME IInv, NEW t \in Threads, pc[t] = "idle",
         UNCHANGED <<objVars, regVars, instVars, pc, hnd, ld>>,
         \A u \in Threads : u # t => op'[u] = op[u] /\ obj'[u] = obj[u] /\ res'[u] = res[u]
  PROVE  Safe'
<1>1. UNCHANGED <<alive, handle_, operation_in_progress_, pc, hnd, ld>>
  BY Zenon DEF objVars
<1>2. \A u \in Threads : Busy(u)' => Busy(u) /\ u # t
  BY Zenon, <1>1 DEF Busy
<1>3. Exclusive' /\ HandleDuringCall' /\ Flagged'
  <2>1. Exclusive'
    BY Zenon, <1>1, <1>2, ExclusiveKept DEF IInv, Safe, Exclusive
  <2>2. HandleDuringCall'
    BY Zenon, <1>1, HandleKept DEF IInv, Safe
  <2>3. Flagged'
    BY Zenon, <1>1, FlaggedKept DEF IInv, Safe, Marks, Busy
  <2> QED
    BY Zenon, <2>1, <2>2, <2>3
<1>4. hnd'[t] <= next
  BY Zenon, <1>1 DEF IInv, Safe, HandlesIssued
<1>5. Bare(t) /\ Bare(t)'
  BY Zenon, <1>1 DEF Bare
<1> QED
  BY Zenon, <1>1, <1>3, <1>4, <1>5, BareMove DEF IInv, Safe

\* A call that raises std::logic_error changes nothing of the object.
LEMMA RefuseStep ==
  ASSUME IInv, NEW t \in Threads, NEW o \in Objects,
         NEW m \in {"start", "query", "stop", "exit"}, Refuse(t, o, m)
  PROVE  Safe'
  BY Zenon, IdleMove DEF Refuse, Call, IInv, TypeOK

\* Stopping a stopped object changes nothing.
LEMMA StopNothingStep ==
  ASSUME IInv, NEW t \in Threads, NEW o \in Objects, NEW m \in {"stop", "exit"},
         StopNothing(t, o, m)
  PROVE  Safe'
  BY Zenon, IdleMove DEF StopNothing, Call, IInv, TypeOK

\* The destructor of a stopped object only ends its life.
LEMMA DestroyIdleStep ==
  ASSUME IInv, NEW t \in Threads, NEW o \in Objects, DestroyIdle(t, o)
  PROVE  Safe'
<1>1. /\ pc[t] = "idle" /\ UNCHANGED <<handle_, operation_in_progress_, regVars, instVars, pc, hnd, ld, res>>
      /\ \A u \in Threads : u # t => op'[u] = op[u] /\ obj'[u] = obj[u]
      /\ \A x \in Objects : x # o => (alive'[x] <=> alive[x])
  BY Zenon DEF DestroyIdle, Call, IInv, TypeOK
<1>2. \A u \in Threads : Busy(u) => u # t /\ obj[u] # o /\ obj[u] \in Objects
  BY Zenon, <1>1 DEF DestroyIdle, Unreferenced, Busy, IInv, TypeOK
<1>3. \A u \in Threads : Busy(u)' <=> Busy(u)
  BY Zenon, <1>1 DEF Busy
<1>4. handle_[o] = 0
  BY Zenon, <1>2 DEF DestroyIdle, IInv, Safe, Flagged, Marks
<1>5. Exclusive' /\ HandleDuringCall' /\ Flagged'
  <2>1. Exclusive'
    <3>1. \A x \in Objects : ~alive'[x] => handle_'[x] = 0
      BY Zenon, <1>1, <1>4 DEF IInv, Safe, Exclusive
    <3> QED
      BY Zenon, <1>1, <1>2, <1>3, <3>1, ExclusiveKept DEF IInv, Safe
  <2>2. HandleDuringCall'
    BY Zenon, <1>1, HandleKept DEF IInv, Safe
  <2>3. Flagged'
    BY Zenon, <1>1, FlaggedKept DEF IInv, Safe, Marks, Busy
  <2> QED
    BY Zenon, <2>1, <2>2, <2>3
<1>6. hnd'[t] <= next
  BY Zenon, <1>1 DEF IInv, Safe, HandlesIssued
<1>7. Bare(t) /\ Bare(t)'
  BY Zenon, <1>1 DEF Bare
<1> QED
  BY Zenon, <1>1, <1>5, <1>6, <1>7, BareMove DEF IInv, Safe

\* startFromJson raises the object's flag and enters the library with no handle.
LEMMA StartFromJSONStep ==
  ASSUME IInv, NEW t \in Threads, NEW o \in Objects, StartFromJSON(t, o)
  PROVE  Safe'
<1>1. /\ Enter(t, o, "start", 0, "build") /\ UNCHANGED <<alive, handle_, regVars, instVars>>
      /\ ~operation_in_progress_[o] /\ handle_[o] = 0 /\ alive[o] /\ pc[t] = "idle"
      /\ operation_in_progress_' = [operation_in_progress_ EXCEPT ![o] = TRUE]
  BY Zenon DEF StartFromJSON, Refused, Enter, Call
<1>2. /\ operation_in_progress_'[o]
      /\ \A x \in Objects : x # o => (operation_in_progress_'[x] <=> operation_in_progress_[x])
  BY Zenon, <1>1 DEF IInv, TypeOK
<1>3. Exclusive' /\ HandleDuringCall' /\ Flagged'
  BY Zenon, <1>1, <1>2, Begins DEF IInv
<1>4. /\ pc'[t] = "build" /\ hnd'[t] = 0
      /\ \A u \in Threads : u # t =>
           pc'[u] = pc[u] /\ hnd'[u] = hnd[u] /\ ld'[u] = ld[u] /\ res'[u] = res[u]
  BY Zenon, <1>1 DEF Enter, Return, Goto, IInv, TypeOK
<1>5. Bare(t) /\ Bare(t)' /\ hnd'[t] <= next
  <2>1. 0 <= next
    BY Zenon, Numbers DEF IInv
  <2> QED
    BY Zenon, <1>1, <1>4, <2>1 DEF Bare
<1> QED
  BY Zenon, <1>1, <1>3, <1>4, <1>5, BareMove DEF IInv, Safe

\* queryStats raises the flag and takes a copy of the handle.
LEMMA QueryStatsStep ==
  ASSUME IInv, NEW t \in Threads, NEW o \in Objects, QueryStats(t, o)
  PROVE  Safe'
<1>1. /\ Enter(t, o, "query", handle_[o], "load") /\ UNCHANGED <<alive, handle_, regVars, instVars>>
      /\ ~operation_in_progress_[o] /\ handle_[o] # 0 /\ alive[o] /\ pc[t] = "idle"
      /\ operation_in_progress_' = [operation_in_progress_ EXCEPT ![o] = TRUE]
  BY Zenon DEF QueryStats, Refused, Enter, Call
<1>2. /\ operation_in_progress_'[o]
      /\ \A x \in Objects : x # o => (operation_in_progress_'[x] <=> operation_in_progress_[x])
  BY Zenon, <1>1 DEF IInv, TypeOK
<1>3. Exclusive' /\ HandleDuringCall' /\ Flagged'
  BY Zenon, <1>1, <1>2, Begins DEF IInv
<1>4. /\ pc'[t] = "load" /\ hnd'[t] = handle_[o]
      /\ \A u \in Threads : u # t =>
           pc'[u] = pc[u] /\ hnd'[u] = hnd[u] /\ ld'[u] = ld[u] /\ res'[u] = res[u]
  BY Zenon, <1>1 DEF Enter, Return, Goto, IInv, TypeOK
<1>5. Bare(t) /\ Bare(t)' /\ hnd'[t] <= next
  BY Zenon, <1>1, <1>4 DEF Bare, IInv, Safe, HandlesIssued
<1> QED
  BY Zenon, <1>1, <1>3, <1>4, <1>5, BareMove DEF IInv, Safe

\* A stop or a destructor moves the object's handle into the call.
LEMMA HandleTaken ==
  ASSUME IInv, NEW t \in Threads, NEW o \in Objects, NEW m, handle_[o] # 0,
         Enter(t, o, m, handle_[o], "unregister"),
         handle_' = [handle_ EXCEPT ![o] = 0],
         UNCHANGED <<regVars, instVars>>
  PROVE  /\ HandlesIssued' /\ SoleHolder' /\ Registry' /\ Held'
         /\ PrivateInstances' /\ AccessHolders' /\ StartedHeld'
<1>0. /\ HandlesIssued /\ SoleHolder /\ Registry /\ Held
      /\ PrivateInstances /\ AccessHolders /\ StartedHeld
  BY Zenon DEF IInv, Safe
<1>1. UNCHANGED <<next, byID, built, core, closed, cancelled, access>>
  BY Zenon DEF regVars, instVars
<1>2. /\ pc[t] = "idle" /\ pc'[t] = "unregister" /\ hnd'[t] = handle_[o]
      /\ \A u \in Threads : u # t =>
           pc'[u] = pc[u] /\ hnd'[u] = hnd[u] /\ ld'[u] = ld[u] /\ res'[u] = res[u]
  BY Zenon DEF Enter, Call, Return, Goto, IInv, TypeOK
<1>3. /\ handle_'[o] = 0 /\ handle_[o] \in Handles
      /\ \A x \in Objects : x # o => handle_'[x] = handle_[x]
  BY DEF IInv, TypeOK, Handles
<1>4. \A h \in Handles, u \in Threads : Carries(u, h)' <=> Carries(u, h) \/ (u = t /\ h = handle_[o])
  BY Zenon, <1>2 DEF Carries
<1>5. HandlesIssued'
  <2>1. 0 <= next
    BY Zenon, Numbers DEF IInv
  <2> QED
    BY ONLY Zenon, <1>0, <1>1, <1>2, <1>3, <2>1, o \in Objects DEF HandlesIssued
<1>6. SoleHolder'
  <2>1. \A h \in Handles, x \in Objects : handle_'[x] = h => handle_[x] = h /\ x # o
    BY ONLY <1>3 DEF Handles
  <2> QED
    BY ONLY Zenon, <1>0, <1>4, <2>1, SoleHolderTaken, t \in Threads, o \in Objects
<1>7. Registry'
  BY ONLY Zenon, <1>0, <1>1, <1>3, <1>4, RegistryKept, handle_[o] # 0, o \in Objects DEF Registry
<1>8. Held'
  BY ONLY Zenon, <1>0, <1>1, <1>3, <1>4, t \in Threads DEF Held
<1>9. PrivateInstances'
  <2>1. \A u \in Threads : Private(u)' => pc'[u] = pc[u] /\ ld'[u] = ld[u]
    BY Zenon, <1>2 DEF Private
  <2> QED
    BY ONLY Zenon, <1>0, <1>1, <2>1, PrivateKept
<1>10. AccessHolders'
  <2>1. /\ \A u \in Threads : pc[u] \in {"core_close", "snapshot"} => pc'[u] = pc[u] /\ ld'[u] = ld[u]
        /\ \A u \in Threads : pc'[u] \in {"query", "snapshot"} =>
             pc'[u] = pc[u] /\ ld'[u] = ld[u] /\ hnd'[u] = hnd[u]
    BY Zenon, <1>2
  <2> QED
    BY ONLY Zenon, <1>0, <1>1, <2>1, AccessKept
<1>11. StartedHeld'
  <2>1. \A i \in Instances, u \in Threads : Holding(u, i) => Holding(u, i)'
    BY Zenon, <1>2 DEF Holding
  <2> QED
    BY ONLY Zenon, <1>0, <1>1, <2>1, StartedHeldKept
<1> QED
  BY Zenon, <1>5, <1>6, <1>7, <1>8, <1>9, <1>10, <1>11

\* stop and __exit__ flag the object.
LEMMA StopStep ==
  ASSUME IInv, NEW t \in Threads, NEW o \in Objects, NEW m \in {"stop", "exit"}, Stop(t, o, m)
  PROVE  Safe'
<1>1. /\ Enter(t, o, m, handle_[o], "unregister") /\ UNCHANGED <<alive, regVars, instVars>>
      /\ ~operation_in_progress_[o] /\ handle_[o] # 0 /\ alive[o] /\ m # "destroy"
      /\ operation_in_progress_' = [operation_in_progress_ EXCEPT ![o] = TRUE]
      /\ handle_' = [handle_ EXCEPT ![o] = 0]
  BY Zenon DEF Stop, Enter, Call
<1>2. /\ operation_in_progress_'[o] /\ handle_'[o] = 0
      /\ \A x \in Objects : x # o =>
           handle_'[x] = handle_[x] /\ (operation_in_progress_'[x] <=> operation_in_progress_[x])
  BY Zenon, <1>1 DEF IInv, TypeOK
<1>3. Exclusive' /\ HandleDuringCall' /\ Flagged'
  BY Zenon, <1>1, <1>2, Begins DEF IInv
<1> QED
  BY Zenon, <1>1, <1>3, HandleTaken DEF Safe

\* The destructor of a running object ends its life.
LEMMA DestroyStep ==
  ASSUME IInv, NEW t \in Threads, NEW o \in Objects, Destroy(t, o)
  PROVE  Safe'
<1>1. /\ Enter(t, o, "destroy", handle_[o], "unregister") /\ UNCHANGED <<regVars, instVars>>
      /\ ~operation_in_progress_[o] /\ handle_[o] # 0 /\ alive[o]
      /\ operation_in_progress_' = operation_in_progress_
      /\ alive' = [alive EXCEPT ![o] = FALSE]
      /\ handle_' = [handle_ EXCEPT ![o] = 0]
  BY Zenon DEF Destroy, Enter, Call
<1>2. /\ ~operation_in_progress_'[o] /\ handle_'[o] = 0 /\ ~alive'[o]
      /\ \A x \in Objects : x # o =>
           /\ handle_'[x] = handle_[x] /\ (alive'[x] <=> alive[x])
           /\ operation_in_progress_'[x] <=> operation_in_progress_[x]
  BY Zenon, <1>1 DEF IInv, TypeOK
<1>3. Exclusive' /\ HandleDuringCall' /\ Flagged'
  BY <1>1, <1>2, Begins DEF IInv
<1> QED
  BY Zenon, <1>1, <1>3, HandleTaken DEF Safe

----------------------------------------------------------------------------
(* The steps of the calls under way.                                       *)

\* A configuration that cannot be built leaves nothing behind.
LEMMA BuildFailsStep ==
  ASSUME IInv, NEW t \in Threads, BuildFails(t)
  PROVE  Safe'
<1>1. /\ pc[t] = "build" /\ pc'[t] = "start_end" /\ res'[t] = "raised"
      /\ UNCHANGED <<objVars, regVars, instVars, op, obj, hnd, ld>>
      /\ \A u \in Threads : u # t => pc'[u] = pc[u] /\ res'[u] = res[u]
  BY Zenon DEF BuildFails, Return, Goto, IInv, TypeOK
<1>2. UNCHANGED <<handle_, hnd, ld>>
  BY Zenon, <1>1 DEF objVars
<1>3. Exclusive' /\ HandleDuringCall' /\ Flagged'
  BY <1>1, <1>2, Proceeds DEF IInv, Busy, Starting, Stopping, Querying
<1>4. Bare(t) /\ Bare(t)' /\ hnd'[t] <= next
  BY <1>1, <1>2 DEF Bare, Private, IInv, Safe, HandlesIssued
<1> QED
  BY Zenon, <1>1, <1>2, <1>3, <1>4, BareMove DEF IInv, Safe

\* A box that does not start is closed, or left behind by a panic, in its call.
LEMMA ActivateFailsStep ==
  ASSUME IInv, NEW t \in Threads, ActivateFails(t) \/ ActivatePanics(t)
  PROVE  Safe'
<1>1. /\ pc[t] = "activate" /\ pc'[t] = "start_end" /\ res'[t] = "raised"
      /\ UNCHANGED <<objVars, regVars, built, closed, access, op, obj, hnd, ld>>
      /\ \A u \in Threads : u # t => pc'[u] = pc[u] /\ res'[u] = res[u]
  BY DEF ActivateFails, ActivatePanics, Return, Goto, IInv, TypeOK
<1>2. UNCHANGED <<handle_, hnd, ld, built, access>>
  BY Zenon, <1>1 DEF objVars
<1>3. ld[t] \in Instances
  BY Zenon, <1>1, InHands DEF IInv, Safe, Private
<1>4. /\ core'[ld[t]] # "started"
      /\ \A i \in Instances : i # ld[t] => core'[i] = core[i] /\ (cancelled'[i] <=> cancelled[i])
  BY <1>3 DEF ActivateFails, ActivatePanics, IInv, TypeOK
<1>5. \A i \in Instances : access[i] # t
  BY Zenon, <1>1 DEF IInv, Safe, AccessHolders
<1>6. Exclusive' /\ HandleDuringCall' /\ Flagged'
  BY <1>1, <1>2, Proceeds DEF IInv, Busy, Starting, Stopping, Querying
<1>7. Private(t)
  BY Zenon, <1>1 DEF Private
<1> QED
  BY Zenon, <1>1, <1>2, <1>4, <1>5, <1>6, <1>7, PrivateMove DEF IInv, Safe

\* box.Start: the started instance is in the hands of its call.
LEMMA ActivateInstanceStep ==
  ASSUME IInv, NEW t \in Threads, ActivateInstance(t)
  PROVE  Safe'
<1>1. /\ pc[t] = "activate" /\ pc'[t] = "register"
      /\ UNCHANGED <<objVars, regVars, built, closed, cancelled, access, op, obj, hnd, ld, res>>
      /\ \A u \in Threads : u # t => pc'[u] = pc[u]
  BY Zenon DEF ActivateInstance, Goto, IInv, TypeOK
<1>2. UNCHANGED <<handle_, hnd, ld, built, access, closed, cancelled, res>>
  BY Zenon, <1>1 DEF objVars
<1>3. ld[t] \in Instances /\ ld[t] # 0 /\ ~closed[ld[t]] /\ ~cancelled[ld[t]]
  BY Zenon, <1>1, InHands DEF IInv, Safe, Private
<1>4. core'[ld[t]] = "started" /\ \A i \in Instances : i # ld[t] => core'[i] = core[i]
  BY Zenon, <1>3 DEF ActivateInstance, IInv, TypeOK
<1>5. \A i \in Instances : access[i] # t
  BY Zenon, <1>1 DEF IInv, Safe, AccessHolders
<1>6. res[t] = "ok"
  BY Zenon, <1>1 DEF IInv, Safe, HandleDuringCall
<1>7. Exclusive' /\ HandleDuringCall' /\ Flagged'
  BY <1>1, <1>2, <1>6, Proceeds DEF IInv, Busy, Starting, Stopping, Querying
<1>8. Private(t) /\ Live(ld[t])'
  BY Zenon, <1>1, <1>2, <1>3, <1>4 DEF Private, Live
<1> QED
  BY Zenon, <1>1, <1>2, <1>4, <1>5, <1>7, <1>8, PrivateMove DEF IInv, Safe

\* closeInstance marks the instance and keeps its mutex over core.Close.
LEMMA CloseInstanceStep ==
  ASSUME IInv, NEW t \in Threads, CloseInstance(t)
  PROVE  Safe'
<1>1. /\ pc[t] = "close"
      /\ UNCHANGED <<objVars, regVars, built, core, op, obj, hnd, ld, res>>
      /\ \A u \in Threads : u # t => pc'[u] = pc[u]
  BY Zenon DEF CloseInstance, Goto, IInv, TypeOK
<1>2. UNCHANGED <<handle_, hnd, ld, built, core, res>>
  BY Zenon, <1>1 DEF objVars
<1>3. ld[t] \in Instances /\ core[ld[t]] = "started" /\ ~closed[ld[t]]
  BY Zenon, <1>1, InHands DEF IInv, Safe, Private, Live
<1>4. /\ pc'[t] = "core_close" /\ access' = [access EXCEPT ![ld[t]] = t]
      /\ \A i \in Instances : i # ld[t] =>
           (closed'[i] <=> closed[i]) /\ (cancelled'[i] <=> cancelled[i])
  BY Zenon, <1>3 DEF CloseInstance, Goto, IInv, TypeOK
<1>5. \A i \in Instances : access[i] # t
  BY Zenon, <1>1 DEF IInv, Safe, AccessHolders
<1>6. \A i \in Instances, u \in Threads : access'[i] = u =>
        (access[i] = u /\ u # t) \/ (u = t /\ i = ld[t])
  BY Zenon, <1>3, <1>4, <1>5 DEF IInv, TypeOK
<1>7. Exclusive' /\ HandleDuringCall' /\ Flagged'
  BY <1>1, <1>2, <1>4, Proceeds DEF IInv, Busy, Starting, Stopping, Querying
<1>8. Private(t)
  BY Zenon, <1>1 DEF Private
<1> QED
  BY Zenon, <1>1, <1>2, <1>3, <1>4, <1>6, <1>7, <1>8, PrivateMove DEF IInv, Safe

\* core.Close: the instance is gone and its mutex free.
LEMMA CoreCloseStep ==
  ASSUME IInv, NEW t \in Threads, CoreClose(t)
  PROVE  Safe'
<1>1. /\ pc[t] = "core_close" /\ pc'[t] = "stop_end"
      /\ UNCHANGED <<objVars, regVars, built, closed, cancelled, op, obj, hnd, ld>>
      /\ access' = [access EXCEPT ![ld[t]] = Free]
      /\ \A u \in Threads : u # t => pc'[u] = pc[u] /\ res'[u] = res[u]
  BY DEF CoreClose, Return, Goto, IInv, TypeOK
<1>2. UNCHANGED <<handle_, hnd, ld, built, closed, cancelled>>
  BY Zenon, <1>1 DEF objVars
<1>3. ld[t] \in Instances
  BY Zenon, <1>1, InHands DEF IInv, Safe, Private
<1>4. /\ core'[ld[t]] # "started"
      /\ \A i \in Instances : i # ld[t] => core'[i] = core[i]
  BY <1>3 DEF CoreClose, IInv, TypeOK
<1>5. \A i \in Instances : i # ld[t] => access[i] # t
  BY Zenon, <1>1 DEF IInv, Safe, AccessHolders
<1>6. \A i \in Instances, u \in Threads : access'[i] = u => access[i] = u /\ u # t
  BY Zenon, <1>1, <1>3, <1>5, FreeAssumption DEF IInv, TypeOK
<1>7. Exclusive' /\ HandleDuringCall' /\ Flagged'
  BY <1>1, <1>2, Proceeds DEF IInv, Busy, Starting, Stopping, Querying
<1>8. Private(t)
  BY Zenon, <1>1 DEF Private
<1> QED
  BY <1>1, <1>2, <1>4, <1>6, <1>7, <1>8, PrivateMove DEF IInv, Safe

\* A query moves on: it may only take and release the mutex of its instance.
LEMMA QueryMove ==
  ASSUME IInv, NEW t \in Threads, Querying(t),
         pc'[t] \in {"query", "snapshot", "query_end"},
         UNCHANGED <<objVars, regVars, built, core, closed, cancelled, op, obj, hnd>>,
         \A u \in Threads : u # t => pc'[u] = pc[u] /\ ld'[u] = ld[u] /\ res'[u] = res[u],
         AccessHolders'
  PROVE  Safe'
<1>0. /\ HandlesIssued /\ SoleHolder /\ Registry /\ Held /\ PrivateInstances /\ StartedHeld
  BY Zenon DEF IInv, Safe
<1>1. UNCHANGED <<handle_, next, byID, built, core, closed, cancelled, hnd>>
  BY Zenon DEF objVars, regVars
<1>2. Exclusive' /\ HandleDuringCall' /\ Flagged'
  BY <1>1, Proceeds DEF IInv, Busy, Starting, Stopping, Querying
<1>3. \A h \in Handles, u \in Threads : Carries(u, h)' <=> Carries(u, h)
  <2>1. \A h \in Handles : ~Carries(t, h) /\ ~Carries(t, h)'
    BY DEF Carries, Querying
  <2> QED
    BY Zenon, <1>1, <2>1 DEF Carries
<1>4. HandlesIssued'
  BY ONLY Zenon, <1>0, <1>1 DEF HandlesIssued
<1>5. SoleHolder' /\ Registry' /\ Held'
  BY ONLY Zenon, <1>0, <1>1, <1>3, SoleHolderKept, RegistryKept, HeldKept
<1>6. PrivateInstances'
  <2>1. \A u \in Threads : Private(u)' => pc'[u] = pc[u] /\ ld'[u] = ld[u]
    BY Zenon DEF Private
  <2> QED
    BY ONLY Zenon, <1>0, <1>1, <2>1, PrivateKept
<1>7. StartedHeld'
  <2>1. \A i \in Instances, u \in Threads : Holding(u, i) => Holding(u, i)'
    BY Zenon DEF Holding, Querying
  <2> QED
    BY ONLY Zenon, <1>0, <1>1, <2>1, StartedHeldKept
<1> QED
  BY ONLY Zenon, <1>2, <1>4, <1>5, <1>6, <1>7, AccessHolders' DEF Safe

\* The steps of a query inside the library.
LEMMA QueryStep ==
  ASSUME IInv, NEW t \in Threads,
         \/ QueryRefused(t) \/ LoadInstance(t) \/ QueryStatistics(t) \/ Snapshot(t)
  PROVE  Safe'
<1>1. /\ Querying(t)
      /\ UNCHANGED <<objVars, regVars, built, core, closed, cancelled, op, obj, hnd>>
  BY Zenon DEF Querying, QueryRefused, LoadInstance, QueryStatistics, Snapshot, instVars
<1>2. /\ pc'[t] \in {"query", "snapshot", "query_end"}
      /\ \A u \in Threads : u # t => pc'[u] = pc[u] /\ ld'[u] = ld[u] /\ res'[u] = res[u]
  BY DEF QueryRefused, LoadInstance, QueryStatistics, Snapshot, Return, Goto, IInv, TypeOK
<1>3. UNCHANGED <<byID, hnd>>
  BY Zenon, <1>1 DEF regVars
<1>4. AccessHolders
  BY Zenon DEF IInv, Safe
<1>5. AccessHolders'
  <2>1. \A i \in Instances, u \in Threads : access'[i] = u =>
          (access[i] = u /\ u # t) \/ (u = t /\ i = ld'[t] /\ pc'[t] = "snapshot")
    <3>1. CASE QueryRefused(t) \/ LoadInstance(t)
      <4>1. access' = access /\ pc[t] \in {"load", "query"}
        BY Zenon, <3>1 DEF QueryRefused, LoadInstance, instVars
      <4>2. \A i \in Instances : access[i] # t
        BY <1>4, <4>1 DEF AccessHolders
      <4> QED
        BY ONLY Zenon, <4>1, <4>2
    <3>2. CASE QueryStatistics(t)
      <4>1. /\ access' = [access EXCEPT ![ld[t]] = t] /\ access \in [Instances -> Threads \cup {Free}]
            /\ pc[t] = "query" /\ pc'[t] = "snapshot" /\ ld' = ld
        BY Zenon, <3>2 DEF QueryStatistics, Goto, IInv, TypeOK
      <4>2. \A i \in Instances : access[i] # t
        BY <1>4, <4>1 DEF AccessHolders
      <4> QED
        BY ONLY Zenon, <4>1, <4>2
    <3>3. CASE Snapshot(t)
      <4>1. /\ access' = [access EXCEPT ![ld[t]] = Free] /\ access \in [Instances -> Threads \cup {Free}]
        BY Zenon, <3>3 DEF Snapshot, IInv, TypeOK
      <4>2. \A i \in Instances : i # ld[t] => access[i] # t
        BY Zenon, <1>4 DEF AccessHolders
      <4> QED
        BY ONLY Zenon, <4>1, <4>2, FreeAssumption
    <3> QED
      BY ONLY Zenon, <3>1, <3>2, <3>3, QueryRefused(t) \/ LoadInstance(t) \/ QueryStatistics(t) \/ Snapshot(t)
  <2>2. pc'[t] \in {"query", "snapshot"} => ld'[t] = byID[hnd[t]]
    <3>1. CASE LoadInstance(t)
      BY Zenon, <3>1 DEF LoadInstance, Lookup, IInv, TypeOK
    <3>2. CASE QueryStatistics(t)
      BY Zenon, <1>4, <3>2 DEF QueryStatistics, AccessHolders
    <3>3. CASE QueryRefused(t) \/ Snapshot(t)
      <4>1. pc'[t] = "query_end"
        BY Zenon, <3>3 DEF QueryRefused, Snapshot, Return, Goto, IInv, TypeOK
      <4> QED
        BY <4>1
    <3> QED
      BY ONLY Zenon, <3>1, <3>2, <3>3, QueryRefused(t) \/ LoadInstance(t) \/ QueryStatistics(t) \/ Snapshot(t)
  <2>3. \A i \in Instances, u \in Threads :
          access'[i] = u => ld'[u] = i /\ pc'[u] \in {"core_close", "snapshot"}
    BY ONLY <1>2, <1>4, <2>1 DEF AccessHolders
  <2>4. \A u \in Threads : pc'[u] \in {"query", "snapshot"} => ld'[u] = byID[hnd[u]]
    BY ONLY <1>2, <1>4, <2>2 DEF AccessHolders
  <2> QED
    BY ONLY Zenon, <1>3, <2>3, <2>4 DEF AccessHolders
<1> QED
  BY Zenon, <1>1, <1>2, <1>5, QueryMove

\* A stop ends: it held nothing any more.  A destructor leaves the flag alone.
LEMMA EndStopStep ==
  ASSUME IInv, NEW t \in Threads, EndStop(t)
  PROVE  Safe'
<1>1. /\ pc[t] = "stop_end" /\ Leave(t) /\ UNCHANGED <<alive, handle_, regVars, instVars>>
      /\ operation_in_progress_' =
           [operation_in_progress_ EXCEPT ![obj[t]] = IF op[t] = "destroy" THEN @ ELSE FALSE]
  BY Zenon DEF EndStop
<1>2. /\ \A x \in Objects : x # obj[t] => (operation_in_progress_'[x] <=> operation_in_progress_[x])
      /\ op[t] # "destroy" => ~operation_in_progress_'[obj[t]]
      /\ op[t] = "destroy" => (operation_in_progress_'[obj[t]] <=> operation_in_progress_[obj[t]])
  BY Zenon, <1>1 DEF IInv, TypeOK
<1>3. \A x \in Objects : operation_in_progress_'[x] => operation_in_progress_[x] /\ ~Marks(t, x)
  BY Zenon, <1>2 DEF Marks
<1>4. Exclusive' /\ HandleDuringCall' /\ Flagged'
  BY Zenon, <1>1, <1>2, <1>3, Ends DEF IInv, Busy
<1>5. /\ pc'[t] = "idle" /\ hnd'[t] = 0
      /\ \A u \in Threads : u # t =>
           pc'[u] = pc[u] /\ hnd'[u] = hnd[u] /\ ld'[u] = ld[u] /\ res'[u] = res[u]
  BY Zenon, <1>1 DEF Leave, Goto, IInv, TypeOK
<1>6. Bare(t) /\ Bare(t)' /\ hnd'[t] <= next
  <2>1. 0 <= next
    BY Zenon, Numbers DEF IInv
  <2> QED
    BY Zenon, <1>1, <1>5, <2>1 DEF Bare
<1> QED
  BY Zenon, <1>1, <1>4, <1>5, <1>6, BareMove DEF IInv, Safe

\* A query ends: the object keeps its handle and loses the flag.
LEMMA EndQueryStep ==
  ASSUME IInv, NEW t \in Threads, EndQuery(t)
  PROVE  Safe'
<1>1. /\ pc[t] = "query_end" /\ Leave(t) /\ UNCHANGED <<alive, handle_, regVars, instVars>>
      /\ operation_in_progress_' = [operation_in_progress_ EXCEPT ![obj[t]] = FALSE]
  BY Zenon DEF EndQuery
<1>2. /\ \A x \in Objects : x # obj[t] => (operation_in_progress_'[x] <=> operation_in_progress_[x])
      /\ ~operation_in_progress_'[obj[t]]
  BY Zenon, <1>1 DEF IInv, TypeOK
<1>3. \A x \in Objects : operation_in_progress_'[x] => operation_in_progress_[x] /\ ~Marks(t, x)
  BY Zenon, <1>2 DEF Marks
<1>4. Exclusive' /\ HandleDuringCall' /\ Flagged'
  BY Zenon, <1>1, <1>2, <1>3, Ends DEF IInv, Busy
<1>5. /\ pc'[t] = "idle" /\ hnd'[t] = 0
      /\ \A u \in Threads : u # t =>
           pc'[u] = pc[u] /\ hnd'[u] = hnd[u] /\ ld'[u] = ld[u] /\ res'[u] = res[u]
  BY Zenon, <1>1 DEF Leave, Goto, IInv, TypeOK
<1>6. Bare(t) /\ Bare(t)' /\ hnd'[t] <= next
  <2>1. 0 <= next
    BY Zenon, Numbers DEF IInv
  <2> QED
    BY Zenon, <1>1, <1>5, <2>1 DEF Bare
<1> QED
  BY Zenon, <1>1, <1>4, <1>5, <1>6, BareMove DEF IInv, Safe

\* A new object owns nothing, and nobody calls it yet.
LEMMA ConstructStep ==
  ASSUME IInv, NEW o \in Objects, Construct(o)
  PROVE  Safe'
<1>0. /\ HandlesIssued /\ SoleHolder /\ Registry /\ Held
      /\ PrivateInstances /\ AccessHolders /\ StartedHeld
  BY Zenon DEF IInv, Safe
<1>1. UNCHANGED <<next, byID, built, core, closed, cancelled, access, pc, op, obj, hnd, ld, res>>
  BY Zenon DEF Construct, regVars, instVars, callVars
<1>2. /\ alive'[o] /\ handle_'[o] = 0 /\ ~operation_in_progress_'[o]
      /\ \A x \in Objects : x # o =>
           /\ handle_'[x] = handle_[x]
           /\ alive'[x] <=> alive[x]
           /\ operation_in_progress_'[x] <=> operation_in_progress_[x]
  BY Zenon DEF Construct, IInv, TypeOK
<1>3. handle_[o] = 0 /\ \A u \in Threads : Busy(u) => obj[u] # o /\ obj[u] \in Objects
  BY Zenon DEF Construct, Unreferenced, Busy, IInv, TypeOK, Safe, Exclusive
<1>4. \A x \in Objects : handle_'[x] = handle_[x]
  BY ONLY Zenon, <1>2, <1>3
<1>5. Exclusive'
  <2>1. \A x \in Objects : ~alive'[x] => handle_'[x] = 0
    BY Zenon, <1>2 DEF IInv, Safe, Exclusive
  <2>2. \A u \in Threads : Busy(u)' => Busy(u)
    BY ONLY Zenon, <1>1 DEF Busy
  <2> QED
    BY Zenon, <1>1, <1>2, <1>3, <2>1, <2>2, ExclusiveKept DEF IInv, Safe
<1>6. HandleDuringCall'
  BY Zenon, <1>1, <1>4, HandleKept DEF IInv, Safe, TypeOK
<1>7. Flagged'
  <2>1. \A x \in Objects : operation_in_progress_'[x] => operation_in_progress_[x]
    BY ONLY Zenon, <1>2
  <2>2. \A u \in Threads, x \in Objects : Marks(u, x)' <=> Marks(u, x)
    BY ONLY Zenon, <1>1 DEF Marks, Busy
  <2> QED
    BY Zenon, <2>1, <2>2, FlaggedKept DEF IInv, Safe
<1>8. \A h \in Handles, u \in Threads : Carries(u, h)' <=> Carries(u, h)
  BY ONLY Zenon, <1>1 DEF Carries
<1>9. HandlesIssued'
  BY ONLY Zenon, <1>0, <1>1, <1>4 DEF HandlesIssued
<1>10. SoleHolder' /\ Registry' /\ Held'
  BY ONLY Zenon, <1>0, <1>1, <1>4, <1>8, SoleHolderKept, RegistryKept, HeldKept
<1>11. PrivateInstances' /\ AccessHolders'
  BY ONLY Zenon, <1>0, <1>1, PrivateKept, AccessKept
<1>12. StartedHeld'
  BY ONLY Zenon, <1>0, <1>1 DEF StartedHeld
<1> QED
  BY ONLY Zenon, <1>5, <1>6, <1>7, <1>9, <1>10, <1>11, <1>12 DEF Safe

\* The end of startFromJson moves the handle, if there is one, into the object.
LEMMA EndStartStep ==
  ASSUME IInv, NEW t \in Threads, EndStart(t)
  PROVE  Safe'
<1>0. /\ HandlesIssued /\ SoleHolder /\ Registry /\ Held
      /\ PrivateInstances /\ AccessHolders /\ StartedHeld
  BY Zenon DEF IInv, Safe
<1>1. /\ pc[t] = "start_end" /\ Leave(t) /\ UNCHANGED <<alive, regVars, instVars>>
      /\ operation_in_progress_' = [operation_in_progress_ EXCEPT ![obj[t]] = FALSE]
      /\ handle_' = [handle_ EXCEPT ![obj[t]] = IF res[t] = "ok" THEN hnd[t] ELSE @]
  BY Zenon DEF EndStart
<1>2. /\ obj[t] \in Objects /\ ~operation_in_progress_'[obj[t]]
      /\ handle_'[obj[t]] = IF res[t] = "ok" THEN hnd[t] ELSE handle_[obj[t]]
      /\ \A x \in Objects : x # obj[t] =>
           handle_'[x] = handle_[x] /\ (operation_in_progress_'[x] <=> operation_in_progress_[x])
  BY Zenon, <1>1 DEF IInv, TypeOK
<1>3. \A x \in Objects : operation_in_progress_'[x] => operation_in_progress_[x] /\ ~Marks(t, x)
  BY ONLY Zenon, <1>2 DEF Marks
<1>4. alive[obj[t]] /\ handle_[obj[t]] = 0
  BY Zenon, <1>1 DEF IInv, Safe, Exclusive, HandleDuringCall, Starting
<1>5. Exclusive' /\ HandleDuringCall' /\ Flagged'
  BY Zenon, <1>1, <1>2, <1>3, <1>4, Ends DEF IInv, Busy
<1>6. /\ pc'[t] = "idle" /\ hnd'[t] = 0
      /\ \A u \in Threads : u # t =>
           pc'[u] = pc[u] /\ hnd'[u] = hnd[u] /\ ld'[u] = ld[u] /\ res'[u] = res[u]
  BY Zenon, <1>1 DEF Leave, Goto, IInv, TypeOK
<1>7. UNCHANGED <<next, byID, built, core, closed, cancelled, access>>
  BY Zenon, <1>1 DEF regVars, instVars
<1>8. HandlesIssued'
  <2>1. 0 <= next
    BY Zenon, Numbers DEF IInv
  <2> QED
    BY ONLY Zenon, <1>0, <1>2, <1>6, <1>7, <2>1 DEF HandlesIssued
<1>9. /\ \A h \in Handles, u \in Threads : Carries(u, h)' <=> Carries(u, h) /\ u # t
      /\ \A h \in Handles : Carries(t, h) <=> res[t] = "ok" /\ hnd[t] = h
  BY ONLY <1>1, <1>6 DEF Carries
<1>10. /\ \A h \in Handles : Carries(t, h) => handle_'[obj[t]] = h
       /\ \A h \in Handles, x \in Objects :
            handle_'[x] = h => handle_[x] = h \/ (x = obj[t] /\ Carries(t, h))
       /\ \A h \in Handles, x \in Objects : handle_[x] = h => handle_'[x] = h
  <2>1. \A h \in Handles : h # 0
    BY BoundsAssumption DEF Handles
  <2> QED
    BY ONLY Zenon, <1>2, <1>4, <1>9, <2>1
<1>11. SoleHolder'
  <2>1. \A h \in Handles, o1, o2 \in Objects : handle_'[o1] = h /\ handle_'[o2] = h => o1 = o2
    BY ONLY <1>0, <1>10, t \in Threads DEF SoleHolder
  <2>2. \A h \in Handles, t1, t2 \in Threads : Carries(t1, h)' /\ Carries(t2, h)' => t1 = t2
    BY ONLY Zenon, <1>0, <1>9 DEF SoleHolder
  <2>3. \A h \in Handles, o \in Objects, u \in Threads : ~(handle_'[o] = h /\ Carries(u, h)')
    <3>1. \A h \in Handles, o \in Objects, u \in Threads :
            Carries(u, h)' => ~(handle_[o] = h) /\ ~Carries(t, h)
      BY ONLY <1>0, <1>9, t \in Threads DEF SoleHolder
    <3> QED
      BY ONLY Zenon, <1>10, <3>1
  <2> QED
    BY ONLY Zenon, <2>1, <2>2, <2>3 DEF SoleHolder
<1>12. Registry'
  <2>1. handle_'[obj[t]] = 0 \/ byID[handle_'[obj[t]]] # 0
    <3>1. CASE res[t] = "ok"
      <4>1. hnd[t] \in Handles /\ Carries(t, hnd[t])
        <5>1. hnd[t] # 0
          BY Zenon, <1>1, <3>1 DEF IInv, Safe, HandleDuringCall
        <5> QED
          BY Zenon, <1>9, <3>1, <5>1, Numbers DEF IInv
      <4> QED
        BY Zenon, <1>0, <1>2, <3>1, <4>1 DEF Registry
    <3>2. CASE res[t] # "ok"
      BY Zenon, <1>2, <1>4, <3>2
    <3> QED
      BY ONLY Zenon, <3>1, <3>2
  <2>2. \A x \in Objects : handle_'[x] = 0 \/ handle_'[x] = handle_[x] \/ byID[handle_'[x]] # 0
    BY ONLY Zenon, <1>2, <2>1
  <2>3. \A h \in Handles, u \in Threads : Carries(u, h)' => Carries(u, h)
    BY ONLY Zenon, <1>9
  <2> QED
    BY ONLY Zenon, <1>0, <1>7, <2>2, <2>3, RegistryKept
<1>13. Held'
  <2>1. \A h \in Handles, u \in Threads :
          Carries(u, h) => Carries(u, h)' \/ handle_'[obj[t]] = h
    BY ONLY <1>9, <1>10
  <2>2. \A h \in Handles, x \in Objects : handle_[x] = h => handle_'[x] = h
    BY ONLY Zenon, <1>10
  <2> QED
    BY ONLY <1>0, <1>2, <1>7, <2>1, <2>2 DEF Held
<1>14. PrivateInstances'
  <2>1. \A u \in Threads : Private(u)' => pc'[u] = pc[u] /\ ld'[u] = ld[u]
    BY ONLY Zenon, <1>6 DEF Private
  <2> QED
    BY ONLY Zenon, <1>0, <1>7, <2>1, PrivateKept
<1>15. AccessHolders'
  <2>1. /\ \A u \in Threads : pc[u] \in {"core_close", "snapshot"} => pc'[u] = pc[u] /\ ld'[u] = ld[u]
        /\ \A u \in Threads : pc'[u] \in {"query", "snapshot"} =>
             pc'[u] = pc[u] /\ ld'[u] = ld[u] /\ hnd'[u] = hnd[u]
    BY ONLY Zenon, <1>1, <1>6
  <2> QED
    BY ONLY Zenon, <1>0, <1>7, <2>1, AccessKept
<1>16. StartedHeld'
  <2>1. \A i \in Instances, u \in Threads : Holding(u, i) => Holding(u, i)'
    BY ONLY Zenon, <1>1, <1>6 DEF Holding
  <2> QED
    BY ONLY Zenon, <1>0, <1>7, <2>1, StartedHeldKept
<1> QED
  BY ONLY Zenon, <1>5, <1>8, <1>11, <1>12, <1>13, <1>14, <1>15, <1>16 DEF Safe

----------------------------------------------------------------------------
(* The handle counter.                                                     *)

\* Every handle issued or about to be issued is paid for by an instance built: the
\* starts that have yet to draw one can be numbered, from the counter on, within the
\* instances built.  The counter cannot pass MaxStarts then.
Drawing(t) == pc[t] \in {"activate", "register"}
Ranked(rank) ==
  /\ \A t \in Threads : Drawing(t) => next < rank[t] /\ rank[t] <= built
  /\ \A t, u \in Threads : Drawing(t) /\ Drawing(u) /\ t # u => rank[t] # rank[u]
Counted == next <= built /\ \E rank \in [Threads -> Nat] : Ranked(rank)

\* The numbers stay as they are while no start draws a handle or joins the others.
LEMMA CountedKept ==
  ASSUME Counted, next' = next, built' = built,
         \A t \in Threads : Drawing(t)' => Drawing(t)
  PROVE  Counted'
<1>1. PICK rank \in [Threads -> Nat] : Ranked(rank)
  BY DEF Counted
<1>2. Ranked(rank)'
  BY <1>1 DEF Ranked
<1> QED
  BY <1>2 DEF Counted

\* A registration finds a handle that was never issued: with no more starts than
\* handles the counter cannot have wrapped.
LEMMA RoomLeft ==
  ASSUME TypeOK, Counted, MaxStarts <= MaxHandle, NEW t \in Threads, pc[t] = "register"
  PROVE  next < MaxHandle
<1>1. PICK rank \in [Threads -> Nat] : Ranked(rank)
  BY DEF Counted
<1>2. next < rank[t] /\ rank[t] <= built
  BY <1>1 DEF Ranked, Drawing
<1>3. next \in Nat /\ built \in Nat /\ built <= MaxStarts /\ rank[t] \in Nat
  BY BoundsAssumption DEF TypeOK
<1> QED
  BY <1>2, <1>3, BoundsAssumption

\* The start of a new instance gets the number of that instance.
LEMMA CountedBuilt ==
  ASSUME TypeOK, Counted, NEW t \in Threads, next' = next, built' = built + 1,
         \A u \in Threads : u # t => (Drawing(u)' <=> Drawing(u))
  PROVE  Counted'
<1>0. next \in Nat /\ built \in Nat
  BY BoundsAssumption DEF TypeOK
<1>1. PICK rank \in [Threads -> Nat] : Ranked(rank)
  BY DEF Counted
<1>2. PICK r \in [Threads -> Nat] : r[t] = built + 1 /\ \A u \in Threads : u # t => r[u] = rank[u]
  <2>1. [rank EXCEPT ![t] = built + 1] \in [Threads -> Nat]
    BY <1>0
  <2> QED
    BY <2>1, Zenon
<1>3. \A u \in Threads : u # t /\ Drawing(u)' => next < r[u] /\ r[u] <= built /\ r[u] \in Nat
  BY <1>1, <1>2 DEF Ranked
<1>4. \A u, v \in Threads : u # t /\ v # t /\ Drawing(u)' /\ Drawing(v)' /\ u # v => r[u] # r[v]
  BY <1>1, <1>2 DEF Ranked
<1>5. \A u \in Threads : u # t /\ Drawing(u)' => r[u] # r[t]
  BY <1>0, <1>2, <1>3
<1>6. \A u \in Threads : Drawing(u)' => next < r[u] /\ r[u] <= built + 1
  BY <1>0, <1>2, <1>3 DEF Counted
<1>7. \A u, v \in Threads : Drawing(u)' /\ Drawing(v)' /\ u # v => r[u] # r[v]
  BY <1>4, <1>5
<1>8. Ranked(r)'
  BY <1>6, <1>7 DEF Ranked
<1> QED
  BY <1>0, <1>8 DEF Counted

\* The start that draws the next handle gives its number to the one that had the next.
LEMMA CountedDrawn ==
  ASSUME TypeOK, Counted, NEW t \in Threads, Drawing(t), next' = next + 1, built' = built,
         ~Drawing(t)', \A u \in Threads : u # t => (Drawing(u)' <=> Drawing(u))
  PROVE  Counted'
<1>0. next \in Nat /\ built \in Nat
  BY BoundsAssumption DEF TypeOK
<1>1. PICK rank \in [Threads -> Nat] : Ranked(rank)
  BY DEF Counted
<1>2. next < rank[t] /\ rank[t] <= built /\ rank[t] \in Nat
  BY <1>1 DEF Ranked
<1>3. PICK r \in [Threads -> Nat] :
        \A u \in Threads : r[u] = IF rank[u] = next + 1 THEN rank[t] ELSE rank[u]
  <2>1. [u \in Threads |-> IF rank[u] = next + 1 THEN rank[t] ELSE rank[u]] \in [Threads -> Nat]
    BY <1>2
  <2> QED
    BY <2>1, Zenon
<1>4. \A u \in Threads : Drawing(u)' =>
        Drawing(u) /\ rank[u] # rank[t] /\ next < rank[u] /\ rank[u] <= built /\ rank[u] \in Nat
  BY <1>1 DEF Ranked
<1>5. \A u \in Threads : Drawing(u)' => next + 1 < r[u] /\ r[u] <= built
  BY <1>0, <1>2, <1>3, <1>4
<1>6. \A u, v \in Threads : Drawing(u)' /\ Drawing(v)' /\ u # v => rank[u] # rank[v]
  BY <1>1, <1>4 DEF Ranked
<1>7. \A u, v \in Threads : Drawing(u)' /\ Drawing(v)' /\ u # v => r[u] # r[v]
  BY <1>3, <1>4, <1>6
<1>8. Ranked(r)'
  BY <1>5, <1>7 DEF Ranked
<1>9. next + 1 <= built
  BY <1>0, <1>2
<1> QED
  BY <1>8, <1>9 DEF Counted

\* The counter and the starts under way together keep behind the instances built.
LEMMA CountedNext ==
  ASSUME TypeOK, Counted, [Next]_vars, MaxStarts <= MaxHandle
  PROVE  Counted'
<1>0. DOMAIN pc = Threads /\ next \in Nat /\ built \in Nat
  BY BoundsAssumption DEF TypeOK
<1> USE DEF Goto, Return, Leave, Call, Enter, regVars, instVars
<1>1. CASE UNCHANGED vars
  BY <1>1, CountedKept DEF Drawing, vars, callVars
<1>2. ASSUME NEW o \in Objects, Construct(o) PROVE Counted'
  BY <1>2, CountedKept DEF Drawing, Construct, callVars
<1>3. ASSUME NEW t \in Threads, NEW o \in Objects, NewCall(t, o) PROVE Counted'
  <2>1. /\ UNCHANGED <<next, built>> /\ pc[t] = "idle"
        /\ pc' = pc \/ \E p \in {"build", "load", "unregister"} : pc' = [pc EXCEPT ![t] = p]
    BY Zenon, <1>3 DEF NewCall, StartFromJSON, QueryStats, Stop, StopNothing, Refuse, DestroyIdle, Destroy
  <2> QED
    BY <1>0, <2>1, CountedKept DEF Drawing
<1>4. ASSUME NEW t \in Threads, BuildInstance(t) PROVE Counted'
  <2>1. next' = next /\ built' = built + 1 /\ \A u \in Threads : u # t => pc'[u] = pc[u]
    BY <1>0, <1>4 DEF BuildInstance
  <2> QED
    BY <2>1, CountedBuilt DEF Drawing
<1>5. ASSUME NEW t \in Threads, ActivateFails(t) \/ ActivatePanics(t) PROVE Counted'
  <2>1. UNCHANGED <<next, built>> /\ pc' = [pc EXCEPT ![t] = "start_end"]
    BY <1>5 DEF ActivateFails, ActivatePanics
  <2> QED
    BY <1>0, <2>1, CountedKept DEF Drawing
<1>6. ASSUME NEW t \in Threads, Register(t) PROVE Counted'
  <2>1. pc[t] = "register" /\ pc'[t] = "start_end" /\ \A u \in Threads : u # t => pc'[u] = pc[u]
    BY <1>0, <1>6 DEF Register
  <2>2. next < MaxHandle
    BY <2>1, RoomLeft
  <2>3. (next + 1) % (MaxHandle + 1) = next + 1
    BY <1>0, <2>2, BoundsAssumption
  <2>4. next' = next + 1 /\ built' = built
    BY <1>0, <1>6, <2>3 DEF Register, NextHandle
  <2> QED
    BY <2>1, <2>4, CountedDrawn DEF Drawing
<1>7. ASSUME NEW t \in Threads,
             \/ BuildFails(t) \/ ActivateInstance(t) \/ EndStart(t) \/ EndStop(t) \/ EndQuery(t)
             \/ Unregister(t) \/ CloseInstance(t) \/ CoreClose(t)
             \/ QueryRefused(t) \/ LoadInstance(t) \/ QueryStatistics(t) \/ Snapshot(t)
      PROVE  Counted'
  <2>1. CASE BuildFails(t) \/ ActivateInstance(t)
    BY <1>0, <2>1, CountedKept DEF Drawing, BuildFails, ActivateInstance
  <2>2. CASE EndStart(t) \/ EndStop(t) \/ EndQuery(t)
    BY Zenon, <1>0, <2>2, CountedKept DEF Drawing, EndStart, EndStop, EndQuery
  <2>3. CASE Unregister(t)
    BY <1>0, <2>3, CountedKept DEF Drawing, Unregister
  <2>4. CASE CloseInstance(t) \/ CoreClose(t)
    BY <1>0, <2>4, CountedKept DEF Drawing, CloseInstance, CoreClose
  <2>5. CASE QueryRefused(t) \/ LoadInstance(t) \/ QueryStatistics(t) \/ Snapshot(t)
    BY Zenon, <1>0, <2>5, CountedKept DEF Drawing, QueryRefused, LoadInstance, QueryStatistics, Snapshot
  <2> QED
    BY <1>7, <2>1, <2>2, <2>3, <2>4, <2>5
<1> QED
  BY <1>1, <1>2, <1>3, <1>4, <1>5, <1>6, <1>7 DEF Next, ThreadStep

----------------------------------------------------------------------------
(* Boxes that are not started yet, and boxes that are closed.              *)

\* A box that is built is about to be started, and one that is closed, or about to
\* be, has its context cancelled.
Settled ==
  /\ \A i \in Instances : core[i] = "built" => \E t \in Threads : pc[t] = "activate" /\ ld[t] = i
  /\ \A i \in Instances : core[i] = "closed" => cancelled[i]
  /\ \A t \in Threads : pc[t] = "core_close" => cancelled[ld[t]]

\* A thread that is not about to start a box, and builds, starts and closes none.
LEMMA SettledKept ==
  ASSUME Settled, NEW t \in Threads, pc[t] # "activate", pc'[t] # "core_close",
         core' = core, \A i \in Instances : cancelled[i] => cancelled'[i],
         ld \in [Threads -> 0..MaxStarts], \A u \in Threads : pc[u] = "core_close" => ld[u] # 0,
         \A u \in Threads : u # t => pc'[u] = pc[u] /\ ld'[u] = ld[u]
  PROVE  Settled'
<1>1. \A i \in Instances : core'[i] = "built" => \E u \in Threads : pc'[u] = "activate" /\ ld'[u] = i
  BY DEF Settled
<1>2. \A i \in Instances : core'[i] = "closed" => cancelled'[i]
  BY DEF Settled
<1>3. \A u \in Threads : pc'[u] = "core_close" => cancelled'[ld'[u]]
  BY BoundsAssumption DEF Settled, Instances
<1> QED
  BY <1>1, <1>2, <1>3 DEF Settled

\* Only the call that built a box starts it, and whoever closes one has cancelled its
\* context before.
LEMMA SettledNext ==
  ASSUME IInv, Settled, [Next]_vars
  PROVE  Settled'
<1>0. /\ DOMAIN pc = Threads /\ DOMAIN ld = Threads /\ DOMAIN core = Instances
      /\ DOMAIN cancelled = Instances /\ ld \in [Threads -> 0..MaxStarts]
      /\ built \in Nat /\ built <= MaxStarts
  BY BoundsAssumption DEF IInv, TypeOK
<1>h. \A u \in Threads : pc[u] \in {"activate", "close", "core_close"} => ld[u] # 0 /\ ld[u] \in Instances
  <2>1. \A u \in Threads : pc[u] \in {"activate", "close", "core_close"} => ld[u] # 0
    BY Zenon DEF IInv, Safe, PrivateInstances, Private
  <2> QED
    BY <1>0, <2>1, BoundsAssumption DEF Instances
<1> USE DEF Goto, Return, Leave, Call, Enter, regVars, instVars
<1>1. CASE UNCHANGED vars
  BY <1>1 DEF Settled, vars, callVars
<1>2. ASSUME NEW o \in Objects, Construct(o) PROVE Settled'
  BY <1>2 DEF Settled, Construct, callVars
<1>3. ASSUME NEW t \in Threads, NEW o \in Objects, NewCall(t, o) PROVE Settled'
  <2>1. /\ UNCHANGED <<core, cancelled>> /\ pc[t] = "idle"
        /\ pc' = pc \/ \E p \in {"build", "load", "unregister"} : pc' = [pc EXCEPT ![t] = p]
        /\ ld' = ld \/ ld' = [ld EXCEPT ![t] = 0]
    BY Zenon, <1>3 DEF NewCall, StartFromJSON, QueryStats, Stop, StopNothing, Refuse, DestroyIdle, Destroy
  <2> QED
    BY <1>0, <1>h, <2>1, SettledKept
<1>4. ASSUME NEW t \in Threads, BuildInstance(t) PROVE Settled'
  <2>0. built + 1 \in Instances
    BY <1>0, <1>4, BoundsAssumption DEF BuildInstance, Instances
  <2>1. /\ pc[t] = "build" /\ cancelled' = cancelled
        /\ pc'[t] = "activate" /\ ld'[t] = built + 1 /\ core'[built + 1] = "built"
        /\ \A i \in Instances : i # built + 1 => core'[i] = core[i]
        /\ \A u \in Threads : u # t => pc'[u] = pc[u] /\ ld'[u] = ld[u]
    BY <1>0, <1>4, <2>0 DEF BuildInstance
  <2> QED
    BY <2>0, <2>1 DEF Settled
<1>5. ASSUME NEW t \in Threads, ActivateInstance(t) \/ ActivateFails(t) \/ ActivatePanics(t)
      PROVE  Settled'
  <2>1. /\ pc[t] = "activate" /\ pc'[t] \in {"register", "start_end"} /\ ld' = ld
        /\ \A u \in Threads : u # t => pc'[u] = pc[u]
        /\ \A i \in Instances : i # ld[t] => core'[i] = core[i]
    BY <1>0, <1>5 DEF ActivateInstance, ActivateFails, ActivatePanics
  <2>2. /\ \A i \in Instances : cancelled[i] => cancelled'[i]
        /\ core'[ld[t]] \in {"started", "panicked"} \/ (core'[ld[t]] = "closed" /\ cancelled'[ld[t]])
    BY <1>0, <1>h, <1>5 DEF ActivateInstance, ActivateFails, ActivatePanics
  <2>3. \A i \in Instances : core'[i] = "built" => \E u \in Threads : pc'[u] = "activate" /\ ld'[u] = i
    <3> SUFFICES ASSUME NEW i \in Instances, core'[i] = "built"
                 PROVE  \E u \in Threads : pc'[u] = "activate" /\ ld'[u] = i
      OBVIOUS
    <3>1. i # ld[t] /\ core[i] = "built"
      BY <2>1, <2>2
    <3>2. PICK u \in Threads : pc[u] = "activate" /\ ld[u] = i
      BY Zenon, <3>1 DEF Settled
    <3>3. pc'[u] = "activate" /\ ld'[u] = i
      BY <2>1, <3>1, <3>2
    <3> QED
      BY <3>3
  <2>4. \A i \in Instances : core'[i] = "closed" => cancelled'[i]
    BY <2>1, <2>2 DEF Settled
  <2>5. \A u \in Threads : pc'[u] = "core_close" => cancelled'[ld'[u]]
    BY <1>h, <2>1, <2>2 DEF Settled
  <2> QED
    BY <2>3, <2>4, <2>5 DEF Settled
<1>6. ASSUME NEW t \in Threads, CloseInstance(t) PROVE Settled'
  <2>1. /\ pc[t] = "close" /\ ld' = ld /\ core' = core
        /\ \A u \in Threads : u # t => pc'[u] = pc[u]
        /\ pc'[t] \in {"stop_end", "core_close"}
    BY <1>0, <1>6 DEF CloseInstance
  <2>2. /\ \A i \in Instances : cancelled[i] => cancelled'[i]
        /\ pc'[t] = "core_close" => cancelled'[ld[t]]
    BY <1>0, <1>h, <1>6 DEF CloseInstance
  <2>3. \A i \in Instances : core'[i] = "built" => \E u \in Threads : pc'[u] = "activate" /\ ld'[u] = i
    BY <2>1 DEF Settled
  <2>4. \A i \in Instances : core'[i] = "closed" => cancelled'[i]
    BY <2>1, <2>2 DEF Settled
  <2>5. \A u \in Threads : pc'[u] = "core_close" => cancelled'[ld'[u]]
    BY <1>h, <2>1, <2>2 DEF Settled
  <2> QED
    BY <2>3, <2>4, <2>5 DEF Settled
<1>7. ASSUME NEW t \in Threads, CoreClose(t) PROVE Settled'
  <2>1. /\ pc[t] = "core_close" /\ pc'[t] = "stop_end" /\ ld' = ld /\ cancelled' = cancelled
        /\ \A u \in Threads : u # t => pc'[u] = pc[u]
        /\ core'[ld[t]] \in {"closed", "panicked"}
        /\ \A i \in Instances : i # ld[t] => core'[i] = core[i]
    BY <1>0, <1>h, <1>7 DEF CoreClose
  <2>3. \A i \in Instances : core'[i] = "built" => \E u \in Threads : pc'[u] = "activate" /\ ld'[u] = i
    <3> SUFFICES ASSUME NEW i \in Instances, core'[i] = "built"
                 PROVE  \E u \in Threads : pc'[u] = "activate" /\ ld'[u] = i
      OBVIOUS
    <3>1. i # ld[t] /\ core[i] = "built"
      BY <2>1
    <3>2. PICK u \in Threads : pc[u] = "activate" /\ ld[u] = i
      BY Zenon, <3>1 DEF Settled
    <3>3. pc'[u] = "activate" /\ ld'[u] = i
      BY <2>1, <3>1, <3>2
    <3> QED
      BY <3>3
  <2>4. \A i \in Instances : core'[i] = "closed" => cancelled'[i]
    BY <2>1 DEF Settled
  <2>5. \A u \in Threads : pc'[u] = "core_close" => cancelled'[ld'[u]]
    BY <2>1 DEF Settled
  <2> QED
    BY <2>3, <2>4, <2>5 DEF Settled
<1>8. ASSUME NEW t \in Threads,
             \/ BuildFails(t) \/ Register(t) \/ EndStart(t) \/ EndStop(t) \/ EndQuery(t) \/ Unregister(t)
             \/ QueryRefused(t) \/ LoadInstance(t) \/ QueryStatistics(t) \/ Snapshot(t)
      PROVE  Settled'
  <2>1. CASE BuildFails(t) \/ Register(t)
    BY <1>0, <1>h, <2>1, SettledKept DEF BuildFails, Register
  <2>2. CASE EndStart(t) \/ EndStop(t) \/ EndQuery(t)
    BY Zenon, <1>0, <1>h, <2>2, SettledKept DEF EndStart, EndStop, EndQuery
  <2>3. CASE Unregister(t)
    BY <1>0, <1>h, <2>3, SettledKept DEF Unregister
  <2>4. CASE QueryRefused(t) \/ LoadInstance(t)
    BY <1>0, <1>h, <2>4, SettledKept DEF QueryRefused, LoadInstance
  <2>5. CASE QueryStatistics(t) \/ Snapshot(t)
    BY <1>0, <1>h, <2>5, SettledKept DEF QueryStatistics, Snapshot
  <2> QED
    BY <1>8, <2>1, <2>2, <2>3, <2>4, <2>5
<1> QED
  BY <1>1, <1>2, <1>3, <1>4, <1>5, <1>6, <1>7, <1>8 DEF Next, ThreadStep

----------------------------------------------------------------------------
(* The invariant, and what it gives.                                       *)

\* Nothing is running when the library is loaded.
LEMMA InitIInv == Init => IInv
<1> SUFFICES ASSUME Init PROVE IInv
  OBVIOUS
<1> USE BoundsAssumption, FreeAssumption DEF Init
<1>1. TypeOK
  BY InitType
<1>2. Exclusive /\ HandleDuringCall /\ Flagged
  BY DEF Exclusive, HandleDuringCall, Flagged, Starting, Stopping, Querying, Busy
<1>3. HandlesIssued /\ SoleHolder /\ Registry /\ Held
  BY DEF HandlesIssued, SoleHolder, Registry, Held, Carries, Handles
<1>4. PrivateInstances /\ AccessHolders /\ StartedHeld
  BY DEF PrivateInstances, AccessHolders, StartedHeld, Private, Instances
<1> QED
  BY <1>1, <1>2, <1>3, <1>4 DEF IInv, Safe

\* A step outside the binding changes nothing.
LEMMA StutterIInv ==
  ASSUME IInv, UNCHANGED vars
  PROVE  IInv'
<1>0. /\ TypeOK /\ Exclusive /\ Flagged /\ HandleDuringCall /\ HandlesIssued /\ SoleHolder
      /\ Registry /\ Held /\ PrivateInstances /\ AccessHolders /\ StartedHeld
  BY Zenon DEF IInv, Safe
<1> USE <1>0 DEF vars, objVars, regVars, instVars, callVars
<1>1. TypeOK'
  BY DEF TypeOK
<1>2. Exclusive'
  BY DEF Exclusive, Starting, Querying, Stopping, Busy
<1>3. HandleDuringCall' /\ Flagged'
  BY DEF HandleDuringCall, Flagged, Marks, Starting, Stopping, Querying, Busy
<1>4. HandlesIssued' /\ SoleHolder'
  BY DEF HandlesIssued, SoleHolder, Carries
<1>5. Registry'
  BY DEF Registry, Carries, Live
<1>6. Held'
  BY DEF Held, Carries
<1>7. PrivateInstances'
  BY DEF PrivateInstances, Private, Live
<1>8. AccessHolders'
  BY DEF AccessHolders
<1>9. StartedHeld'
  BY DEF StartedHeld, Private, Live
<1> QED
  BY ONLY <1>1, <1>2, <1>3, <1>4, <1>5, <1>6, <1>7, <1>8, <1>9 DEF IInv, Safe

\* Every step of every thread keeps the invariant, as long as a registration finds
\* the counter below the last handle.
LEMMA NextIInv ==
  ASSUME IInv, [Next]_vars, \A t \in Threads : pc[t] = "register" => next < MaxHandle
  PROVE  IInv'
<1>1. TypeOK'
  BY NextType DEF IInv
<1>2. CASE UNCHANGED vars
  BY <1>2, StutterIInv
<1>3. ASSUME NEW o \in Objects, Construct(o) PROVE Safe'
  BY <1>3, ConstructStep
<1>4. ASSUME NEW t \in Threads, NEW o \in Objects, NewCall(t, o) PROVE Safe'
  BY <1>4, StartFromJSONStep, QueryStatsStep, StopStep, StopNothingStep, RefuseStep,
     DestroyStep, DestroyIdleStep DEF NewCall
<1>5. ASSUME NEW t \in Threads, ThreadStep(t) PROVE Safe'
  <2>1. CASE \/ BuildInstance(t) \/ BuildFails(t) \/ ActivateInstance(t)
             \/ ActivateFails(t) \/ ActivatePanics(t) \/ Register(t) \/ EndStart(t)
    BY <2>1, BuildInstanceStep, BuildFailsStep, ActivateInstanceStep, ActivateFailsStep,
       RegisterStep, EndStartStep DEF Register
  <2>2. CASE Unregister(t) \/ CloseInstance(t) \/ CoreClose(t) \/ EndStop(t)
    BY <2>2, UnregisterStep, CloseInstanceStep, CoreCloseStep, EndStopStep
  <2>3. CASE \/ QueryRefused(t) \/ LoadInstance(t) \/ QueryStatistics(t)
             \/ Snapshot(t) \/ EndQuery(t)
    BY <2>3, QueryStep, EndQueryStep
  <2>4. QED
    BY <1>5, <2>1, <2>2, <2>3 DEF ThreadStep
<1>6. QED
  BY <1>1, <1>2, <1>3, <1>4, <1>5 DEF Next, IInv

\* The invariant holds in every reachable state, whatever the number of threads
\* and objects, as long as the uint64 handle counter does not wrap.
THEOREM Invariance ==
  ASSUME MaxStarts <= MaxHandle
  PROVE  Spec => [](IInv /\ Counted)
<1>1. Init => IInv /\ Counted
  <2>1. ASSUME Init PROVE Counted
    <3>1. [t \in Threads |-> 0] \in [Threads -> Nat] /\ next = 0 /\ built = 0
      BY <2>1 DEF Init
    <3>2. Ranked([t \in Threads |-> 0])
      BY <2>1 DEF Init, Ranked, Drawing
    <3> QED
      BY <3>1, <3>2 DEF Counted
  <2> QED
    BY <2>1, InitIInv
<1>2. IInv /\ Counted /\ [Next]_vars => (IInv /\ Counted)'
  <2> SUFFICES ASSUME IInv, Counted, [Next]_vars PROVE (IInv /\ Counted)'
    OBVIOUS
  <2>1. TypeOK
    BY DEF IInv
  <2>2. \A t \in Threads : pc[t] = "register" => next < MaxHandle
    BY <2>1, RoomLeft
  <2> QED
    BY <2>1, <2>2, NextIInv, CountedNext
<1>3. QED
  BY <1>1, <1>2, PTL DEF Spec

\* At no time is a box built and not about to be started, or closed and not cancelled.
LEMMA Settling ==
  ASSUME MaxStarts <= MaxHandle
  PROVE  Spec => []Settled
<1>1. Init => Settled
  BY DEF Init, Settled
<1>2. IInv /\ Settled /\ [Next]_vars => Settled'
  BY SettledNext
<1>3. QED
  BY <1>1, <1>2, Invariance, PTL DEF Spec

\* A running object's handle leads to a started, open, uncancelled box: no
\* interleaving of starts, stops, queries and destructors on other threads takes
\* the service away while "running" is true.
THEOREM RunningServes ==
  ASSUME MaxStarts <= MaxHandle
  PROVE  Spec => []RunningIsServing
<1>1. IInv => RunningIsServing
  BY DEF IInv, Safe, TypeOK, Registry, RunningIsServing, Live, Handles
<1>2. QED
  BY <1>1, Invariance, PTL

\* Every registered handle has exactly one holder.
THEOREM OneHolder ==
  ASSUME MaxStarts <= MaxHandle
  PROVE  Spec => []RegisteredOwned
<1>1. IInv => RegisteredOwned
  BY DEF IInv, Safe, Held, SoleHolder, RegisteredOwned
<1>2. QED
  BY <1>1, Invariance, PTL

\* From the moment it is built until it is closed with its context cancelled, no box is
\* lost between building, starting, registering and closing it, whether its start
\* succeeds or fails.  Boxes whose Start or Close panicked are not covered.
THEOREM NothingLost ==
  ASSUME MaxStarts <= MaxHandle
  PROVE  Spec => []NoOrphan
<1>1. IInv /\ Settled => NoOrphan
  <2> SUFFICES ASSUME IInv, Settled, NEW i \in Instances,
                      core[i] \notin {"absent", "panicked"}, ~(core[i] = "closed" /\ cancelled[i])
               PROVE  \/ \E h \in Handles : byID[h] = i
                      \/ \E t \in Threads :
                           ld[t] = i /\ pc[t] \in {"activate", "register", "close", "core_close"}
    BY DEF NoOrphan
  <2>1. core[i] \in {"built", "started"}
    BY DEF IInv, TypeOK, Settled
  <2>2. CASE core[i] = "built"
    BY <2>2 DEF Settled
  <2>3. CASE core[i] = "started"
    BY <2>3 DEF IInv, Safe, StartedHeld
  <2> QED
    BY <2>1, <2>2, <2>3
<1>2. Spec => []Settled
  BY Settling
<1>3. QED
  BY <1>1, <1>2, Invariance, PTL

\* Neither closeInstance nor queryStatistics ever waits for an instance's mutex
\* or finds the instance closed.
THEOREM NoContention ==
  ASSUME MaxStarts <= MaxHandle
  PROVE  Spec => []AccessUncontended
<1>1. IInv => AccessUncontended
  <2> SUFFICES ASSUME IInv, NEW t \in Threads, pc[t] \in {"close", "query"}
               PROVE  access[ld[t]] = Free /\ ~closed[ld[t]] /\ core[ld[t]] = "started"
    BY DEF AccessUncontended
  <2>0. /\ Exclusive /\ HandleDuringCall /\ SoleHolder /\ Registry
        /\ PrivateInstances /\ AccessHolders
    BY Zenon DEF IInv, Safe
  <2>1. /\ obj \in [Threads -> Objects] /\ handle_ \in [Objects -> 0..MaxHandle]
        /\ byID \in [Handles -> 0..MaxStarts] /\ ld \in [Threads -> 0..MaxStarts]
        /\ access \in [Instances -> Threads \cup {Free}]
    BY Zenon DEF IInv, TypeOK
  <2>2. \A u \in Threads : Querying(u) =>
          obj[u] \in Objects /\ hnd[u] \in Handles /\ hnd[u] = handle_[obj[u]]
    <3> SUFFICES ASSUME NEW u \in Threads, Querying(u)
                 PROVE  obj[u] \in Objects /\ hnd[u] \in Handles /\ hnd[u] = handle_[obj[u]]
      OBVIOUS
    <3>1. obj[u] \in Objects /\ handle_[obj[u]] \in 0..MaxHandle
      BY <2>1
    <3>2. hnd[u] = handle_[obj[u]] /\ hnd[u] # 0
      BY <2>0 DEF HandleDuringCall
    <3> QED
      BY <3>1, <3>2 DEF Handles
  <2>3. ASSUME NEW u \in Threads, pc[u] \in {"query", "snapshot"}
        PROVE  Querying(u) /\ ld[u] = byID[hnd[u]] /\ byID[hnd[u]] # 0 /\ Live(ld[u])
    <3>1. Querying(u) /\ ld[u] = byID[hnd[u]]
      BY <2>0, <2>3 DEF AccessHolders, Querying
    <3>2. obj[u] \in Objects /\ hnd[u] \in Handles /\ hnd[u] = handle_[obj[u]] /\ hnd[u] # 0
      BY <2>2, <3>1 DEF Handles
    <3>3. byID[hnd[u]] # 0
      BY Zenon, <2>0, <3>2 DEF Registry
    <3>4. Live(byID[hnd[u]])
      BY Zenon, <2>0, <3>2, <3>3 DEF Registry
    <3> QED
      BY <3>1, <3>3, <3>4
  <2>4. Live(ld[t]) /\ ld[t] \in Instances
    <3>1. Live(ld[t])
      BY <2>0, <2>3 DEF PrivateInstances
    <3> QED
      BY <2>1, <3>1, BoundsAssumption DEF Live, Instances
  <2>5. ASSUME NEW u \in Threads, access[ld[t]] = u PROVE FALSE
    <3>1. ld[u] = ld[t] /\ pc[u] \in {"core_close", "snapshot"}
      BY <2>0, <2>4, <2>5 DEF AccessHolders
    <3>2. CASE pc[t] = "close" /\ pc[u] = "core_close"
      BY <2>0, <3>1, <3>2 DEF PrivateInstances, Private
    <3>3. CASE pc[t] = "close" /\ pc[u] = "snapshot"
      <4>1. Private(t) /\ hnd[u] \in Handles /\ byID[hnd[u]] = ld[t]
        BY <2>2, <2>3, <3>1, <3>3 DEF Private
      <4> QED
        BY <2>0, <4>1 DEF PrivateInstances
    <3>4. CASE pc[t] = "query" /\ pc[u] = "core_close"
      <4>1. Private(u) /\ hnd[t] \in Handles /\ byID[hnd[t]] = ld[u]
        BY <2>2, <2>3, <3>1, <3>4 DEF Private
      <4> QED
        BY <2>0, <4>1 DEF PrivateInstances
    <3>5. CASE pc[t] = "query" /\ pc[u] = "snapshot"
      <4>0. hnd[t] \in Handles /\ hnd[u] \in Handles /\ byID[hnd[t]] = byID[hnd[u]] /\ byID[hnd[t]] # 0
        BY <2>1, <2>2, <2>3, <3>1, <3>5
      <4>1. hnd[t] = hnd[u] /\ hnd[t] \in Handles
        BY Zenon, <2>0, <4>0 DEF Registry
      <4>2. obj[t] = obj[u]
        BY <2>0, <2>2, <2>3, <3>5, <4>1 DEF SoleHolder
      <4> QED
        BY Zenon, <2>0, <3>5, <4>2 DEF Exclusive, Busy
    <3> QED
      BY <3>1, <3>2, <3>3, <3>4, <3>5
  <2> QED
    BY <2>1, <2>4, <2>5, FreeAssumption DEF Live
<1>2. QED
  BY <1>1, Invariance, PTL
=============================================================================
