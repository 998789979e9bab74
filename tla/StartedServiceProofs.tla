------------------------ MODULE StartedServiceProofs ------------------------
(***************************************************************************)
(* Proofs about StartedService, for any number of calls, followers,        *)
(* waiters and instances, and buffers of any size: there is one box at     *)
(* most and it has an owner, the status tells the truth, and who watches   *)
(* it and is behind has an update on the way.                              *)
(***************************************************************************)
EXTENDS StartedService, TLAPS

----------------------------------------------------------------------------
(* The inductive invariant.                                                *)

\* The calls that do not hold lifecycleAccess, and among the others those that hold
\* an instance in a local variable, those that have s.instance cleared, and those
\* that are starting s.instance.
Resting == {"none", "start_lock", "stop_lock", "ended"}
Locking == {"start_lock", "stop_lock"}
Having == {"close_old", "install", "start", "started", "failed", "discard", "close"}
Empty == {"close_old", "starting", "new", "install", "discard", "close", "idle"}
Launching == {"start", "started", "failed"}

\* The points at which the status is STARTING and STOPPING, unless SetError made it
\* FATAL, and those from which a call settles a status that is STARTING.
UnderStarting == {"new", "install", "start", "started", "failed", "discard"}
UnderStopping == {"close_old", "starting", "close", "idle"}
Settling == Locking \cup {"begin", "stop", "new", "install", "start", "started", "failed"}

\* lifecycleAccess is held by the one call that is past its lock.
Alone ==
  /\ \A c \in Calls : c \in lifecycle <=> pc[c] \notin Resting
  /\ \A c, d \in Calls : pc[c] \notin Resting /\ pc[d] \notin Resting => c = d

\* What a call at a point knows of s.instance, its own instance and the status.
Place(c) ==
  /\ mine[c] # 0 <=> pc[c] \in Having
  /\ pc[c] \in Empty => instance = 0
  /\ pc[c] \in Launching => instance = mine[c]
  /\ pc[c] = "started" => box[mine[c]] = "running"
  /\ pc[c] \in UnderStarting => status \in {"STARTING", "FATAL"}
  /\ pc[c] \in UnderStopping => status \in {"STOPPING", "FATAL"}

\* Whatever is not settled is in the hands of a call that will settle it.
Settled ==
  /\ instance # 0 => box[instance] = "running" \/ \E c \in Calls : pc[c] \in Launching
  /\ \A b \in Boxes : box[b] \in {"new", "running"} => b = instance \/ \E c \in Calls : mine[c] = b
Status ==
  /\ status = "STARTED" => instance # 0
  /\ status = "IDLE" => instance = 0
  /\ status = "STARTING" /\ instance # 0 => \E c \in Calls : pc[c] \in Launching
  /\ status = "STARTING" /\ ~closed => \E c \in Calls : pc[c] \in Settling
  /\ status = "STOPPING" => \E c \in Calls : pc[c] \in UnderStopping
  /\ startInterrupted => /\ \E c \in Calls : pc[c] \in Launching
                         /\ \E c \in Calls : pc[c] \in Locking

CallInv == Alone /\ (\A c \in Calls : Place(c)) /\ Settled /\ Status

\* A follower that is behind has been notified or will be, and Close leaves none.
Following ==
  /\ closed => \A f \in Followers : fpc[f] \notin {"read", "run"}
  /\ \A f \in Followers : fpc[f] = "run" /\ view[f] # Serving => f \in notified \/ emitted # <<>>

\* The present status is among the updates that a waiter has received or will
\* receive; before it subscribes, among those yet to be distributed.
InSeq(x, s) == \E n \in 1..Len(s) : s[n] = x
Waiting ==
  status # "STARTING" /\ ~closed => \A w \in Waiters \ missed :
    /\ wpc[w] = "read" => InSeq(status, emitted)
    /\ wpc[w] = "wait" => InSeq(status, inbox[w]) \/ InSeq(status, emitted)

IInv == TypeOK /\ CallInv /\ Following /\ Waiting

----------------------------------------------------------------------------
(* Types.                                                                  *)

\* What concerns the calls and the instances, the flags, and the watchers.
CallType ==
  /\ lifecycle \in SUBSET Calls /\ status \in Statuses
  /\ instance \in 0..MaxBoxes /\ made \in 0..MaxBoxes
  /\ box \in [Boxes -> {"none", "new", "running", "closed"}]
  /\ cancelled \in SUBSET Boxes
  /\ pc \in [Calls -> Points] /\ mine \in [Calls -> 0..MaxBoxes]
FlagType == closed \in BOOLEAN /\ startInterrupted \in BOOLEAN
FollowType ==
  /\ fpc \in [Followers -> {"none", "read", "run", "ended"}]
  /\ view \in [Followers -> 0..MaxBoxes]
EventType ==
  /\ notified \in SUBSET Followers /\ missed \in SUBSET Waiters
  /\ emitted \in Seq(Statuses) /\ Len(emitted) <= EmitBuffer
  /\ wpc \in [Waiters -> {"none", "read", "wait", "ended"}]
  /\ inbox \in [Waiters -> Seq(Statuses)] /\ \A w \in Waiters : Len(inbox[w]) <= Inbox

\* TypeOK is these four together.
LEMMA Types == TypeOK <=> CallType /\ FlagType /\ FollowType /\ EventType
  BY Zenon DEF TypeOK, CallType, FlagType, FollowType, EventType

\* updateStatus stores a status and keeps within the buffer.
LEMMA UpdateType ==
  ASSUME EventType, NEW new \in Statuses, UpdateStatus(new)
  PROVE  EventType' /\ status' \in Statuses
<1>1. status' = new /\ UNCHANGED <<notified, wpc, inbox>>
  BY DEF UpdateStatus
<1>2. emitted' \in Seq(Statuses) /\ Len(emitted') <= EmitBuffer
  <2>1. emitted' = emitted \/ (Len(emitted) < EmitBuffer /\ emitted' = Append(emitted, new))
    BY DEF UpdateStatus
  <2>2. emitted \in Seq(Statuses) /\ Len(emitted) <= EmitBuffer
    BY DEF EventType
  <2> QED
    BY ONLY <2>1, <2>2, new \in Statuses, BoundsAssumption
<1>3. missed' \in SUBSET Waiters
  BY DEF EventType, UpdateStatus
<1> QED
  BY <1>1, <1>2, <1>3 DEF EventType

\* s.closed and s.startInterrupted stay flags.
LEMMA FlagsKept ==
  ASSUME FlagType, [Next]_vars
  PROVE  FlagType'
<1>1. closed' \in BOOLEAN
  BY Zenon DEF FlagType, Next, vars, Enter, Lock, StartStep, StopStep, Subscribe, FollowStep,
     BeginClosed, BeginReload, CloseOld, Starting, NewFails, NewInstance, Install, BoxStarts, BoxFails,
     EndInterrupted, EndFailed, EndStarted, Discard, StopNothing, Stop, CloseInstance, Idle, Read, Notified,
     WaitReads, WaitSubscribes, WaitReceives, WaitCancelled, WaitVars, Distribute, SetError, Close
<1>2. startInterrupted' \in BOOLEAN
  BY Zenon DEF FlagType, Next, vars, Enter, Interrupt, Lock, StartStep, StopStep, Subscribe, FollowStep,
     BeginClosed, BeginReload, CloseOld, Starting, NewFails, NewInstance, Install, BoxStarts, BoxFails,
     EndInterrupted, EndFailed, EndStarted, Discard, StopNothing, Stop, CloseInstance, Idle, Read, Notified,
     WaitReads, WaitSubscribes, WaitReceives, WaitCancelled, WaitVars, Distribute, SetError, Close
<1> QED
  BY <1>1, <1>2 DEF FlagType

\* No instance and every instance that is one are in range.
LEMMA Numbers == 0 \in 0..MaxBoxes /\ 0 \notin Boxes /\ \A b \in 0..MaxBoxes : b # 0 => b \in Boxes
  BY BoundsAssumption DEF Boxes

\* The steps of a call keep the types of what it works on.
LEMMA EnterType ==
  ASSUME CallType, NEW c \in Calls, Enter(c) \/ Lock(c)
  PROVE  CallType'
<1>1. CASE Enter(c)
  <2>1. pc' \in [Calls -> Points]
    BY <1>1 DEF CallType, Enter, Goto, Points
  <2>2. cancelled' \in SUBSET Boxes
    BY <1>1, Numbers DEF CallType, Enter, Interrupt
  <2> QED
    BY <1>1, <2>1, <2>2 DEF CallType, Enter
<1>2. CASE Lock(c)
  BY <1>2 DEF CallType, Lock, Goto, boxVars, Points
<1> QED
  BY <1>1, <1>2

\* The steps of StartOrReloadService keep the types of what calls work on.
LEMMA StartType ==
  ASSUME CallType, EventType, NEW c \in Calls, Place(c), StartStep(c)
  PROVE  CallType'
<1> USE Numbers DEF CallType, Goto, Return, boxVars, Points
<1>0. \A new \in Statuses : UpdateStatus(new) => status' \in Statuses
  BY UpdateType
<1>1. CASE BeginClosed(c)
  BY <1>1 DEF BeginClosed
<1>2. CASE BeginReload(c)
  BY <1>0, <1>2 DEF BeginReload, Statuses
<1>3. CASE CloseOld(c)
  BY <1>3 DEF Place, Having, CloseOld, CloseBox
<1>4. CASE Starting(c)
  BY <1>0, <1>4 DEF Starting, Statuses
<1>5. CASE NewFails(c)
  BY <1>0, <1>5 DEF NewFails, Statuses
<1>6. CASE NewInstance(c)
  BY <1>6, BoundsAssumption DEF NewInstance, Boxes
<1>7. CASE Install(c)
  BY <1>7 DEF Install
<1>8. CASE BoxStarts(c) \/ BoxFails(c)
  BY <1>8 DEF BoxStarts, BoxFails
<1>9. CASE EndInterrupted(c)
  BY <1>9 DEF EndInterrupted
<1>10. CASE EndFailed(c)
  BY <1>0, <1>10 DEF EndFailed, Statuses
<1>11. CASE EndStarted(c)
  BY <1>0, <1>11 DEF EndStarted, Statuses
<1>12. CASE Discard(c)
  BY <1>12 DEF Place, Having, Discard, CloseBox
<1> QED
  BY <1>1, <1>2, <1>3, <1>4, <1>5, <1>6, <1>7, <1>8, <1>9, <1>10, <1>11, <1>12 DEF StartStep

\* The steps of CloseService keep the types of what calls work on.
LEMMA StopType ==
  ASSUME CallType, EventType, NEW c \in Calls, Place(c), StopStep(c)
  PROVE  CallType'
<1> USE Numbers DEF CallType, Goto, Return, boxVars, Points
<1>0. \A new \in Statuses : UpdateStatus(new) => status' \in Statuses
  BY UpdateType
<1>1. CASE StopNothing(c)
  BY <1>1 DEF StopNothing
<1>2. CASE Stop(c)
  BY <1>0, <1>2 DEF Stop, Statuses
<1>3. CASE CloseInstance(c)
  BY <1>3 DEF Place, Having, CloseInstance, CloseBox
<1>4. CASE Idle(c)
  BY <1>0, <1>4 DEF Idle, Statuses
<1> QED
  BY <1>1, <1>2, <1>3, <1>4 DEF StopStep

----------------------------------------------------------------------------
(* The steps of the calls.                                                 *)

\* While a call is past its lock the others wait or are through, with empty hands.
LEMMA Others ==
  ASSUME CallInv, NEW c \in Calls, pc[c] \notin Resting
  PROVE  \A d \in Calls : d # c => pc[d] \in Resting /\ mine[d] = 0
<1>1. \A d \in Calls : d # c => pc[d] \in Resting
  BY Zenon DEF CallInv, Alone
<1> QED
  BY <1>1 DEF CallInv, Place, Resting, Having

\* A call that goes on to p, with m in its hands, concerns itself only.
Moves(c, p, m) ==
  /\ pc' = [pc EXCEPT ![c] = p] /\ mine' = [mine EXCEPT ![c] = m]
  /\ lifecycle' = IF p = "ended" THEN lifecycle \ {c} ELSE lifecycle

\* What the step of one call that moves between points leaves of the others.
LEMMA MovesFacts ==
  ASSUME CallType, CallInv, NEW c \in Calls, pc[c] \notin Resting, NEW p, NEW m, Moves(c, p, m)
  PROVE  /\ pc'[c] = p /\ mine'[c] = m
         /\ \A d \in Calls : d # c => /\ pc[d] \in Resting /\ mine[d] = 0
                                      /\ pc'[d] = pc[d] /\ mine'[d] = 0
<1>1. \A d \in Calls : d # c => pc[d] \in Resting /\ mine[d] = 0
  BY Others
<1> QED
  BY <1>1 DEF Moves, CallType

\* Such a step keeps what the other calls rely on, if it keeps its own part.
LEMMA MovesInv ==
  ASSUME CallType, CallInv, NEW c \in Calls, pc[c] \notin Resting,
         NEW p \in Points, p = "ended" \/ p \notin Resting, NEW m, Moves(c, p, m), Place(c)'
  PROVE  Alone' /\ \A d \in Calls : Place(d)'
<1>1. /\ pc'[c] = p /\ mine'[c] = m
      /\ \A d \in Calls : d # c => /\ pc[d] \in Resting /\ mine[d] = 0
                                   /\ pc'[d] = pc[d] /\ mine'[d] = 0
  BY MovesFacts
<1>2. \A d \in Calls : d \in lifecycle <=> pc[d] \notin Resting
  BY DEF CallInv, Alone
<1>3. \A d \in Calls : d \in lifecycle' <=> pc'[d] \notin Resting
  BY <1>1, <1>2 DEF Moves, Resting
<1>4. \A d, e \in Calls : pc'[d] \notin Resting /\ pc'[e] \notin Resting => d = e
  BY <1>1
<1>5. ASSUME NEW d \in Calls, d # c PROVE Place(d)'
  BY <1>1, <1>5 DEF Place, Resting, Having, Empty, Launching, UnderStarting, UnderStopping
<1> QED
  BY <1>3, <1>4, <1>5 DEF Alone

\* The call that leaves nothing open and no instance, at a point p.
LEMMA AllClosed ==
  ASSUME CallType, CallInv, NEW c \in Calls, pc[c] \in Empty \cap Having,
         NEW p, Moves(c, p, 0), CloseBox(mine[c]), instance' = instance
  PROVE  Settled'
<1> USE DEF Empty, Having
<1>0. pc[c] \notin Resting /\ instance = 0 /\ mine[c] \in Boxes
  BY Numbers DEF Resting, CallInv, Place, CallType
<1>1. \A d \in Calls : d # c => mine[d] = 0
  BY <1>0, Others
<1>2. \A b \in Boxes : box[b] \in {"new", "running"} => b = mine[c]
  BY <1>0, <1>1, Numbers DEF CallInv, Settled
<1>3. \A b \in Boxes : box'[b] \notin {"new", "running"}
  BY <1>0, <1>2 DEF CloseBox, CallType
<1> QED
  BY <1>0, <1>3 DEF Settled

\* A step that leaves the boxes, s.instance and all hands alone, while nothing starts.
LEMMA SettledKept ==
  ASSUME Settled, UNCHANGED <<box, instance>>,
         \A d \in Calls : mine'[d] = mine[d] /\ pc[d] \notin Launching
  PROVE  Settled'
  BY DEF Settled

\* StartOrReloadService on a service that was closed returns at once.
LEMMA BeginClosedInv ==
  ASSUME CallType, CallInv, NEW c \in Calls, BeginClosed(c)
  PROVE  CallInv'
<1> USE DEF Resting, Locking, Having, Empty, Launching, UnderStarting, UnderStopping, Settling
<1>0. pc[c] = "begin" /\ pc[c] \notin Resting /\ "ended" \in Points
  BY DEF BeginClosed, Points
<1>1. Moves(c, "ended", 0)
  BY <1>0 DEF BeginClosed, Goto, Return, CallType, Moves
<1>2. /\ pc'[c] = "ended" /\ mine'[c] = 0
      /\ \A d \in Calls : d # c => /\ pc[d] \in Resting /\ mine[d] = 0
                                   /\ pc'[d] = pc[d] /\ mine'[d] = 0
  BY ONLY CallType, CallInv, c \in Calls, <1>0, <1>1, MovesFacts
<1>3. Place(c)'
  BY <1>0, <1>2, Numbers DEF CallInv, Place, BeginClosed
<1>4. Alone' /\ \A d \in Calls : Place(d)'
  BY ONLY CallType, CallInv, c \in Calls, <1>0, <1>1, <1>3, MovesInv
<1>5. Settled'
  <2>1. \A d \in Calls : mine'[d] = mine[d] /\ pc[d] \notin Launching
    BY <1>0, <1>2 DEF CallInv, Place
  <2> QED
    BY <2>1, SettledKept DEF CallInv, boxVars, BeginClosed
<1>6. Status'
  BY <1>0, <1>2, Numbers DEF CallInv, Place, Alone, Status, CallType, BeginClosed
<1> QED
  BY <1>4, <1>5, <1>6 DEF CallInv

\* A reload takes s.instance and makes the status STOPPING.
LEMMA BeginReloadInv ==
  ASSUME CallType, CallInv, NEW c \in Calls, BeginReload(c)
  PROVE  CallInv'
<1> USE DEF Resting, Locking, Having, Empty, Launching, UnderStarting, UnderStopping, Settling
<1>0. pc[c] = "begin" /\ pc[c] \notin Resting /\ "close_old" \in Points
  BY DEF BeginReload, Points
<1>1. Moves(c, "close_old", instance)
  BY <1>0 DEF BeginReload, Goto, Return, CallType, Moves
<1>2. /\ pc'[c] = "close_old" /\ mine'[c] = instance
      /\ \A d \in Calls : d # c => /\ pc[d] \in Resting /\ mine[d] = 0
                                   /\ pc'[d] = pc[d] /\ mine'[d] = 0
  BY ONLY CallType, CallInv, c \in Calls, <1>0, <1>1, MovesFacts
<1>3. Place(c)'
  BY <1>0, <1>2, Numbers DEF CallInv, Place, BeginReload, UpdateStatus
<1>4. Alone' /\ \A d \in Calls : Place(d)'
  BY ONLY CallType, CallInv, c \in Calls, <1>0, <1>1, <1>3, MovesInv
<1>5. Settled'
  BY <1>0, <1>2, Numbers DEF CallInv, Place, Settled, CallType, boxVars, BeginReload
<1>6. Status'
  BY <1>0, <1>2, Numbers DEF CallInv, Place, Alone, Status, CallType, BeginReload, UpdateStatus
<1> QED
  BY <1>4, <1>5, <1>6 DEF CallInv

\* The old instance is closed.
LEMMA CloseOldInv ==
  ASSUME CallType, CallInv, NEW c \in Calls, CloseOld(c)
  PROVE  CallInv'
<1> USE DEF Resting, Locking, Having, Empty, Launching, UnderStarting, UnderStopping, Settling
<1>0. pc[c] = "close_old" /\ pc[c] \notin Resting /\ "starting" \in Points
  BY DEF CloseOld, Points
<1>1. Moves(c, "starting", 0)
  BY <1>0 DEF CloseOld, Goto, Return, CallType, Moves
<1>2. /\ pc'[c] = "starting" /\ mine'[c] = 0
      /\ \A d \in Calls : d # c => /\ pc[d] \in Resting /\ mine[d] = 0
                                   /\ pc'[d] = pc[d] /\ mine'[d] = 0
  BY ONLY CallType, CallInv, c \in Calls, <1>0, <1>1, MovesFacts
<1>3. Place(c)'
  BY <1>0, <1>2, Numbers DEF CallInv, Place, CloseOld
<1>4. Alone' /\ \A d \in Calls : Place(d)'
  BY ONLY CallType, CallInv, c \in Calls, <1>0, <1>1, <1>3, MovesInv
<1>5. Settled'
  BY <1>0, <1>1, AllClosed DEF CloseOld
<1>6. Status'
  BY <1>0, <1>2, Numbers DEF CallInv, Place, Alone, Status, CallType, CloseOld
<1> QED
  BY <1>4, <1>5, <1>6 DEF CallInv

\* The status becomes STARTING when there is no instance.
LEMMA StartingInv ==
  ASSUME CallType, CallInv, NEW c \in Calls, Starting(c)
  PROVE  CallInv'
<1> USE DEF Resting, Locking, Having, Empty, Launching, UnderStarting, UnderStopping, Settling
<1>0. pc[c] \in {"begin", "starting"} /\ pc[c] \notin Resting /\ "new" \in Points
  BY DEF Starting, Points
<1>1. Moves(c, "new", mine[c])
  BY <1>0 DEF Starting, Goto, Return, CallType, Moves
<1>2. /\ pc'[c] = "new" /\ mine'[c] = mine[c]
      /\ \A d \in Calls : d # c => /\ pc[d] \in Resting /\ mine[d] = 0
                                   /\ pc'[d] = pc[d] /\ mine'[d] = 0
  BY ONLY CallType, CallInv, c \in Calls, <1>0, <1>1, MovesFacts
<1>3. Place(c)'
  BY <1>0, <1>2, Numbers DEF CallInv, Place, Starting, UpdateStatus
<1>4. Alone' /\ \A d \in Calls : Place(d)'
  BY ONLY CallType, CallInv, c \in Calls, <1>0, <1>1, <1>3, MovesInv
<1>5. Settled'
  BY <1>0, <1>2, Numbers DEF CallInv, Place, Settled, CallType, boxVars, Starting
<1>6. Status'
  BY <1>0, <1>2, Numbers DEF CallInv, Place, Alone, Status, CallType, Starting, UpdateStatus
<1> QED
  BY <1>4, <1>5, <1>6 DEF CallInv

\* Without a new instance the status is FATAL.
LEMMA NewFailsInv ==
  ASSUME CallType, CallInv, NEW c \in Calls, NewFails(c)
  PROVE  CallInv'
<1> USE DEF Resting, Locking, Having, Empty, Launching, UnderStarting, UnderStopping, Settling
<1>0. pc[c] = "new" /\ pc[c] \notin Resting /\ "ended" \in Points
  BY DEF NewFails, Points
<1>1. Moves(c, "ended", 0)
  BY <1>0 DEF NewFails, Goto, Return, CallType, Moves
<1>2. /\ pc'[c] = "ended" /\ mine'[c] = 0
      /\ \A d \in Calls : d # c => /\ pc[d] \in Resting /\ mine[d] = 0
                                   /\ pc'[d] = pc[d] /\ mine'[d] = 0
  BY ONLY CallType, CallInv, c \in Calls, <1>0, <1>1, MovesFacts
<1>3. Place(c)'
  BY <1>0, <1>2, Numbers DEF CallInv, Place, NewFails, UpdateStatus
<1>4. Alone' /\ \A d \in Calls : Place(d)'
  BY ONLY CallType, CallInv, c \in Calls, <1>0, <1>1, <1>3, MovesInv
<1>5. Settled'
  <2>1. \A d \in Calls : mine'[d] = mine[d] /\ pc[d] \notin Launching
    BY <1>0, <1>2 DEF CallInv, Place
  <2> QED
    BY <2>1, SettledKept DEF CallInv, boxVars, NewFails
<1>6. Status'
  BY <1>0, <1>2, Numbers DEF CallInv, Place, Alone, Status, CallType, NewFails, UpdateStatus
<1> QED
  BY <1>4, <1>5, <1>6 DEF CallInv

\* A new instance is in the hands of its call.
LEMMA NewInstanceInv ==
  ASSUME CallType, CallInv, NEW c \in Calls, NewInstance(c)
  PROVE  CallInv'
<1> USE DEF Resting, Locking, Having, Empty, Launching, UnderStarting, UnderStopping, Settling
<1>0. pc[c] = "new" /\ pc[c] \notin Resting /\ "install" \in Points
  BY DEF NewInstance, Points
<1>1. Moves(c, "install", made + 1)
  BY <1>0 DEF NewInstance, Goto, Return, CallType, Moves
<1>2. /\ pc'[c] = "install" /\ mine'[c] = made + 1
      /\ \A d \in Calls : d # c => /\ pc[d] \in Resting /\ mine[d] = 0
                                   /\ pc'[d] = pc[d] /\ mine'[d] = 0
  BY ONLY CallType, CallInv, c \in Calls, <1>0, <1>1, MovesFacts
<1>3. Place(c)'
  BY <1>0, <1>2, Numbers DEF CallInv, Place, NewInstance, CallType, Boxes
<1>4. Alone' /\ \A d \in Calls : Place(d)'
  BY ONLY CallType, CallInv, c \in Calls, <1>0, <1>1, <1>3, MovesInv
<1>5. Settled'
  BY <1>0, <1>2, Numbers DEF CallInv, Place, Settled, CallType, boxVars, NewInstance
<1>6. Status'
  BY <1>0, <1>2, Numbers DEF CallInv, Place, Alone, Status, CallType, NewInstance
<1> QED
  BY <1>4, <1>5, <1>6 DEF CallInv

\* s.instance is the new instance.
LEMMA InstallInv ==
  ASSUME CallType, CallInv, NEW c \in Calls, Install(c)
  PROVE  CallInv'
<1> USE DEF Resting, Locking, Having, Empty, Launching, UnderStarting, UnderStopping, Settling
<1>0. pc[c] = "install" /\ pc[c] \notin Resting /\ "start" \in Points
  BY DEF Install, Points
<1>1. Moves(c, "start", mine[c])
  BY <1>0 DEF Install, Goto, Return, CallType, Moves
<1>2. /\ pc'[c] = "start" /\ mine'[c] = mine[c]
      /\ \A d \in Calls : d # c => /\ pc[d] \in Resting /\ mine[d] = 0
                                   /\ pc'[d] = pc[d] /\ mine'[d] = 0
  BY ONLY CallType, CallInv, c \in Calls, <1>0, <1>1, MovesFacts
<1>3. Place(c)'
  BY <1>0, <1>2, Numbers DEF CallInv, Place, Install
<1>4. Alone' /\ \A d \in Calls : Place(d)'
  BY ONLY CallType, CallInv, c \in Calls, <1>0, <1>1, <1>3, MovesInv
<1>5. Settled'
  BY <1>0, <1>2, Numbers DEF CallInv, Place, Settled, CallType, boxVars, Install
<1>6. Status'
  BY <1>0, <1>2, Numbers DEF CallInv, Place, Alone, Status, CallType, Install
<1> QED
  BY <1>4, <1>5, <1>6 DEF CallInv

\* The box runs.
LEMMA BoxStartsInv ==
  ASSUME CallType, CallInv, NEW c \in Calls, BoxStarts(c)
  PROVE  CallInv'
<1> USE DEF Resting, Locking, Having, Empty, Launching, UnderStarting, UnderStopping, Settling
<1>0. pc[c] = "start" /\ pc[c] \notin Resting /\ "started" \in Points
  BY DEF BoxStarts, Points
<1>1. Moves(c, "started", mine[c])
  BY <1>0 DEF BoxStarts, Goto, Return, CallType, Moves
<1>2. /\ pc'[c] = "started" /\ mine'[c] = mine[c]
      /\ \A d \in Calls : d # c => /\ pc[d] \in Resting /\ mine[d] = 0
                                   /\ pc'[d] = pc[d] /\ mine'[d] = 0
  BY ONLY CallType, CallInv, c \in Calls, <1>0, <1>1, MovesFacts
<1>3. Place(c)'
  BY <1>0, <1>2, Numbers DEF CallInv, Place, BoxStarts, CallType
<1>4. Alone' /\ \A d \in Calls : Place(d)'
  BY ONLY CallType, CallInv, c \in Calls, <1>0, <1>1, <1>3, MovesInv
<1>5. Settled'
  BY <1>0, <1>2, Numbers DEF CallInv, Place, Settled, CallType, boxVars, BoxStarts
<1>6. Status'
  BY <1>0, <1>2, Numbers DEF CallInv, Place, Alone, Status, CallType, BoxStarts
<1> QED
  BY <1>4, <1>5, <1>6 DEF CallInv

\* The box has closed itself.
LEMMA BoxFailsInv ==
  ASSUME CallType, CallInv, NEW c \in Calls, BoxFails(c)
  PROVE  CallInv'
<1> USE DEF Resting, Locking, Having, Empty, Launching, UnderStarting, UnderStopping, Settling
<1>0. pc[c] = "start" /\ pc[c] \notin Resting /\ "failed" \in Points
  BY DEF BoxFails, Points
<1>1. Moves(c, "failed", mine[c])
  BY <1>0 DEF BoxFails, Goto, Return, CallType, Moves
<1>2. /\ pc'[c] = "failed" /\ mine'[c] = mine[c]
      /\ \A d \in Calls : d # c => /\ pc[d] \in Resting /\ mine[d] = 0
                                   /\ pc'[d] = pc[d] /\ mine'[d] = 0
  BY ONLY CallType, CallInv, c \in Calls, <1>0, <1>1, MovesFacts
<1>3. Place(c)'
  BY <1>0, <1>2, Numbers DEF CallInv, Place, BoxFails
<1>4. Alone' /\ \A d \in Calls : Place(d)'
  BY ONLY CallType, CallInv, c \in Calls, <1>0, <1>1, <1>3, MovesInv
<1>5. Settled'
  BY <1>0, <1>2, Numbers DEF CallInv, Place, Settled, CallType, boxVars, BoxFails
<1>6. Status'
  BY <1>0, <1>2, Numbers DEF CallInv, Place, Alone, Status, CallType, BoxFails
<1> QED
  BY <1>4, <1>5, <1>6 DEF CallInv

\* A start that was interrupted clears s.instance and leaves the status to the call that waits.
LEMMA EndInterruptedInv ==
  ASSUME CallType, CallInv, NEW c \in Calls, EndInterrupted(c)
  PROVE  CallInv'
<1> USE DEF Resting, Locking, Having, Empty, Launching, UnderStarting, UnderStopping, Settling
<1>0. pc[c] \in {"started", "failed"} /\ pc[c] \notin Resting /\ "discard" \in Points
  BY DEF EndInterrupted, Points
<1>1. Moves(c, "discard", mine[c])
  BY <1>0 DEF EndInterrupted, Goto, Return, CallType, Moves
<1>2. /\ pc'[c] = "discard" /\ mine'[c] = mine[c]
      /\ \A d \in Calls : d # c => /\ pc[d] \in Resting /\ mine[d] = 0
                                   /\ pc'[d] = pc[d] /\ mine'[d] = 0
  BY ONLY CallType, CallInv, c \in Calls, <1>0, <1>1, MovesFacts
<1>3. Place(c)'
  BY <1>0, <1>2, Numbers DEF CallInv, Place, EndInterrupted
<1>4. Alone' /\ \A d \in Calls : Place(d)'
  BY ONLY CallType, CallInv, c \in Calls, <1>0, <1>1, <1>3, MovesInv
<1>5. Settled'
  BY <1>0, <1>2, Numbers DEF CallInv, Place, Settled, CallType, boxVars, EndInterrupted
<1>6. Status'
  BY <1>0, <1>2, Numbers DEF CallInv, Place, Alone, Status, CallType, EndInterrupted
<1> QED
  BY <1>4, <1>5, <1>6 DEF CallInv

\* A start that failed clears s.instance and makes the status FATAL.
LEMMA EndFailedInv ==
  ASSUME CallType, CallInv, NEW c \in Calls, EndFailed(c)
  PROVE  CallInv'
<1> USE DEF Resting, Locking, Having, Empty, Launching, UnderStarting, UnderStopping, Settling
<1>0. pc[c] = "failed" /\ pc[c] \notin Resting /\ "discard" \in Points
  BY DEF EndFailed, Points
<1>1. Moves(c, "discard", mine[c])
  BY <1>0 DEF EndFailed, Goto, Return, CallType, Moves
<1>2. /\ pc'[c] = "discard" /\ mine'[c] = mine[c]
      /\ \A d \in Calls : d # c => /\ pc[d] \in Resting /\ mine[d] = 0
                                   /\ pc'[d] = pc[d] /\ mine'[d] = 0
  BY ONLY CallType, CallInv, c \in Calls, <1>0, <1>1, MovesFacts
<1>3. Place(c)'
  BY <1>0, <1>2, Numbers DEF CallInv, Place, EndFailed, UpdateStatus
<1>4. Alone' /\ \A d \in Calls : Place(d)'
  BY ONLY CallType, CallInv, c \in Calls, <1>0, <1>1, <1>3, MovesInv
<1>5. Settled'
  BY <1>0, <1>2, Numbers DEF CallInv, Place, Settled, CallType, boxVars, EndFailed
<1>6. Status'
  BY <1>0, <1>2, Numbers DEF CallInv, Place, Alone, Status, CallType, EndFailed, UpdateStatus
<1> QED
  BY <1>4, <1>5, <1>6 DEF CallInv

\* A start that succeeded makes the status STARTED.
LEMMA EndStartedInv ==
  ASSUME CallType, CallInv, NEW c \in Calls, EndStarted(c)
  PROVE  CallInv'
<1> USE DEF Resting, Locking, Having, Empty, Launching, UnderStarting, UnderStopping, Settling
<1>0. pc[c] = "started" /\ pc[c] \notin Resting /\ "ended" \in Points
  BY DEF EndStarted, Points
<1>1. Moves(c, "ended", 0)
  BY <1>0 DEF EndStarted, Goto, Return, CallType, Moves
<1>2. /\ pc'[c] = "ended" /\ mine'[c] = 0
      /\ \A d \in Calls : d # c => /\ pc[d] \in Resting /\ mine[d] = 0
                                   /\ pc'[d] = pc[d] /\ mine'[d] = 0
  BY ONLY CallType, CallInv, c \in Calls, <1>0, <1>1, MovesFacts
<1>3. Place(c)'
  BY <1>0, <1>2, Numbers DEF CallInv, Place, EndStarted, UpdateStatus
<1>4. Alone' /\ \A d \in Calls : Place(d)'
  BY ONLY CallType, CallInv, c \in Calls, <1>0, <1>1, <1>3, MovesInv
<1>5. Settled'
  BY <1>0, <1>2, Numbers DEF CallInv, Place, Settled, CallType, boxVars, EndStarted
<1>6. Status'
  BY <1>0, <1>2, Numbers DEF CallInv, Place, Alone, Status, CallType, EndStarted, UpdateStatus
<1> QED
  BY <1>4, <1>5, <1>6 DEF CallInv

\* The instance that did not start, or was interrupted, is closed.
LEMMA DiscardInv ==
  ASSUME CallType, CallInv, NEW c \in Calls, Discard(c)
  PROVE  CallInv'
<1> USE DEF Resting, Locking, Having, Empty, Launching, UnderStarting, UnderStopping, Settling
<1>0. pc[c] = "discard" /\ pc[c] \notin Resting /\ "ended" \in Points
  BY DEF Discard, Points
<1>1. Moves(c, "ended", 0)
  BY <1>0 DEF Discard, Goto, Return, CallType, Moves
<1>2. /\ pc'[c] = "ended" /\ mine'[c] = 0
      /\ \A d \in Calls : d # c => /\ pc[d] \in Resting /\ mine[d] = 0
                                   /\ pc'[d] = pc[d] /\ mine'[d] = 0
  BY ONLY CallType, CallInv, c \in Calls, <1>0, <1>1, MovesFacts
<1>3. Place(c)'
  BY <1>0, <1>2, Numbers DEF CallInv, Place, Discard
<1>4. Alone' /\ \A d \in Calls : Place(d)'
  BY ONLY CallType, CallInv, c \in Calls, <1>0, <1>1, <1>3, MovesInv
<1>5. Settled'
  BY <1>0, <1>1, AllClosed DEF Discard
<1>6. Status'
  BY <1>0, <1>2, Numbers DEF CallInv, Place, Alone, Status, CallType, Discard
<1> QED
  BY <1>4, <1>5, <1>6 DEF CallInv

\* CloseService has nothing to close and nothing to settle.
LEMMA StopNothingInv ==
  ASSUME CallType, CallInv, NEW c \in Calls, StopNothing(c)
  PROVE  CallInv'
<1> USE DEF Resting, Locking, Having, Empty, Launching, UnderStarting, UnderStopping, Settling
<1>0. pc[c] = "stop" /\ pc[c] \notin Resting /\ "ended" \in Points
  BY DEF StopNothing, Points
<1>1. Moves(c, "ended", 0)
  BY <1>0 DEF StopNothing, Goto, Return, CallType, Moves
<1>2. /\ pc'[c] = "ended" /\ mine'[c] = 0
      /\ \A d \in Calls : d # c => /\ pc[d] \in Resting /\ mine[d] = 0
                                   /\ pc'[d] = pc[d] /\ mine'[d] = 0
  BY ONLY CallType, CallInv, c \in Calls, <1>0, <1>1, MovesFacts
<1>3. Place(c)'
  BY <1>0, <1>2, Numbers DEF CallInv, Place, StopNothing
<1>4. Alone' /\ \A d \in Calls : Place(d)'
  BY ONLY CallType, CallInv, c \in Calls, <1>0, <1>1, <1>3, MovesInv
<1>5. Settled'
  <2>1. \A d \in Calls : mine'[d] = mine[d] /\ pc[d] \notin Launching
    BY <1>0, <1>2 DEF CallInv, Place
  <2> QED
    BY <2>1, SettledKept DEF CallInv, boxVars, StopNothing
<1>6. Status'
  BY <1>0, <1>2, Numbers DEF CallInv, Place, Alone, Status, CallType, StopNothing
<1> QED
  BY <1>4, <1>5, <1>6 DEF CallInv

\* CloseService takes s.instance, if there is one, and makes the status STOPPING.
LEMMA StopInv ==
  ASSUME CallType, CallInv, NEW c \in Calls, Stop(c)
  PROVE  CallInv'
<1> USE DEF Resting, Locking, Having, Empty, Launching, UnderStarting, UnderStopping, Settling
<1>0. pc[c] = "stop" /\ pc[c] \notin Resting /\ (IF instance # 0 THEN "close" ELSE "idle") \in Points
  BY DEF Stop, Points
<1>1. Moves(c, (IF instance # 0 THEN "close" ELSE "idle"), instance)
  BY <1>0 DEF Stop, Goto, Return, CallType, Moves
<1>2. /\ pc'[c] = (IF instance # 0 THEN "close" ELSE "idle") /\ mine'[c] = instance
      /\ \A d \in Calls : d # c => /\ pc[d] \in Resting /\ mine[d] = 0
                                   /\ pc'[d] = pc[d] /\ mine'[d] = 0
  BY ONLY CallType, CallInv, c \in Calls, <1>0, <1>1, MovesFacts
<1>3. Place(c)'
  BY <1>0, <1>2, Numbers DEF CallInv, Place, Stop, UpdateStatus
<1>4. Alone' /\ \A d \in Calls : Place(d)'
  BY ONLY CallType, CallInv, c \in Calls, <1>0, <1>1, <1>3, MovesInv
<1>5. Settled'
  BY <1>0, <1>2, Numbers DEF CallInv, Place, Settled, CallType, boxVars, Stop
<1>6. Status'
  BY <1>0, <1>2, Numbers DEF CallInv, Place, Alone, Status, CallType, Stop, UpdateStatus
<1> QED
  BY <1>4, <1>5, <1>6 DEF CallInv

\* The instance is closed.
LEMMA CloseInstanceInv ==
  ASSUME CallType, CallInv, NEW c \in Calls, CloseInstance(c)
  PROVE  CallInv'
<1> USE DEF Resting, Locking, Having, Empty, Launching, UnderStarting, UnderStopping, Settling
<1>0. pc[c] = "close" /\ pc[c] \notin Resting /\ "idle" \in Points
  BY DEF CloseInstance, Points
<1>1. Moves(c, "idle", 0)
  BY <1>0 DEF CloseInstance, Goto, Return, CallType, Moves
<1>2. /\ pc'[c] = "idle" /\ mine'[c] = 0
      /\ \A d \in Calls : d # c => /\ pc[d] \in Resting /\ mine[d] = 0
                                   /\ pc'[d] = pc[d] /\ mine'[d] = 0
  BY ONLY CallType, CallInv, c \in Calls, <1>0, <1>1, MovesFacts
<1>3. Place(c)'
  BY <1>0, <1>2, Numbers DEF CallInv, Place, CloseInstance
<1>4. Alone' /\ \A d \in Calls : Place(d)'
  BY ONLY CallType, CallInv, c \in Calls, <1>0, <1>1, <1>3, MovesInv
<1>5. Settled'
  BY <1>0, <1>1, AllClosed DEF CloseInstance
<1>6. Status'
  BY <1>0, <1>2, Numbers DEF CallInv, Place, Alone, Status, CallType, CloseInstance
<1> QED
  BY <1>4, <1>5, <1>6 DEF CallInv

\* The status is IDLE once the instance is closed.
LEMMA IdleInv ==
  ASSUME CallType, CallInv, NEW c \in Calls, Idle(c)
  PROVE  CallInv'
<1> USE DEF Resting, Locking, Having, Empty, Launching, UnderStarting, UnderStopping, Settling
<1>0. pc[c] = "idle" /\ pc[c] \notin Resting /\ "ended" \in Points
  BY DEF Idle, Points
<1>1. Moves(c, "ended", 0)
  BY <1>0 DEF Idle, Goto, Return, CallType, Moves
<1>2. /\ pc'[c] = "ended" /\ mine'[c] = 0
      /\ \A d \in Calls : d # c => /\ pc[d] \in Resting /\ mine[d] = 0
                                   /\ pc'[d] = pc[d] /\ mine'[d] = 0
  BY ONLY CallType, CallInv, c \in Calls, <1>0, <1>1, MovesFacts
<1>3. Place(c)'
  BY <1>0, <1>2, Numbers DEF CallInv, Place, Idle, UpdateStatus
<1>4. Alone' /\ \A d \in Calls : Place(d)'
  BY ONLY CallType, CallInv, c \in Calls, <1>0, <1>1, <1>3, MovesInv
<1>5. Settled'
  <2>1. \A d \in Calls : mine'[d] = mine[d] /\ pc[d] \notin Launching
    BY <1>0, <1>2 DEF CallInv, Place
  <2> QED
    BY <2>1, SettledKept DEF CallInv, boxVars, Idle
<1>6. Status'
  BY <1>0, <1>2, Numbers DEF CallInv, Place, Alone, Status, CallType, Idle, UpdateStatus
<1> QED
  BY <1>4, <1>5, <1>6 DEF CallInv

\* Entering a call interrupts a start in progress, and the call waits.
LEMMA EnterInv ==
  ASSUME CallType, CallInv, NEW c \in Calls, Enter(c)
  PROVE  CallInv'
<1> USE DEF Resting, Locking, Having, Empty, Launching, UnderStarting, UnderStopping, Settling
<1>1. /\ pc[c] = "none" /\ pc'[c] \in Locking /\ \A d \in Calls : d # c => pc'[d] = pc[d]
      /\ UNCHANGED <<lifecycle, status, instance, closed, made, box, mine>>
  BY DEF Enter, Goto, CallType
<1>2. Alone'
  BY <1>1 DEF CallInv, Alone
<1>3. \A d \in Calls : Place(d)'
  BY <1>1 DEF CallInv, Place
<1>4. Settled'
  BY <1>1 DEF CallInv, Settled
<1>5. \A Q \in {Locking, Launching, Settling, UnderStopping} :
        (\E d \in Calls : pc[d] \in Q) => \E d \in Calls : pc'[d] \in Q
  BY <1>1
<1>6. startInterrupted' => startInterrupted \/ (status = "STARTING" /\ instance # 0)
  BY DEF Enter, Interrupt
<1>7. Status'
  BY <1>1, <1>5, <1>6 DEF CallInv, Status
<1> QED
  BY <1>2, <1>3, <1>4, <1>7 DEF CallInv

\* lifecycleAccess is granted to one of those that wait for it.
LEMMA LockInv ==
  ASSUME CallType, CallInv, NEW c \in Calls, Lock(c)
  PROVE  CallInv'
<1> USE DEF Resting, Locking, Having, Empty, Launching, UnderStarting, UnderStopping, Settling
<1>1. /\ pc[c] \in Locking /\ pc'[c] \in {"begin", "stop"} /\ \A d \in Calls : d # c => pc'[d] = pc[d]
      /\ UNCHANGED <<status, instance, closed, startInterrupted, box, mine>>
      /\ lifecycle' = {c}
  BY DEF Lock, Goto, CallType, boxVars
<1>2. \A d \in Calls : pc[d] \in Resting
  BY DEF Lock, CallInv, Alone
<1>3. Alone'
  BY <1>1, <1>2 DEF Alone
<1>4. \A d \in Calls : Place(d)'
  BY <1>1 DEF CallInv, Place
<1>5. Settled'
  BY <1>1, <1>2 DEF CallInv, Settled
<1>6. Status'
  BY <1>1, <1>2 DEF CallInv, Status
<1> QED
  BY <1>3, <1>4, <1>5, <1>6 DEF CallInv

\* Every step of a call keeps the invariant of the calls.
LEMMA CallStepInv ==
  ASSUME CallType, CallInv, NEW c \in Calls, Enter(c) \/ Lock(c) \/ StartStep(c) \/ StopStep(c)
  PROVE  CallInv'
<1>1. CASE Enter(c) \/ Lock(c)
  BY <1>1, EnterInv, LockInv
<1>2. CASE StartStep(c)
  BY ONLY <1>2, CallType, CallInv, c \in Calls, BeginClosedInv, BeginReloadInv, CloseOldInv, StartingInv,
     NewFailsInv, NewInstanceInv, InstallInv, BoxStartsInv, BoxFailsInv, EndInterruptedInv, EndFailedInv,
     EndStartedInv, DiscardInv DEF StartStep
<1>3. CASE StopStep(c)
  BY ONLY <1>3, CallType, CallInv, c \in Calls, StopNothingInv, StopInv, CloseInstanceInv, IdleInv DEF StopStep
<1> QED
  BY <1>1, <1>2, <1>3

\* SetError makes the status FATAL at any time, and Close sets s.closed.
LEMMA SetErrorInv ==
  ASSUME CallInv, status' = "FATAL", UNCHANGED <<lifecycle, instance, closed, startInterrupted, box, callVars>>
  PROVE  CallInv'
  BY DEF CallInv, Alone, Place, Settled, Status, callVars

\* What the calls rely on is kept by steps of others, Close included.
LEMMA CallInvKept ==
  ASSUME CallInv, UNCHANGED <<lifecycle, status, instance, startInterrupted, box, callVars>>, closed => closed'
  PROVE  CallInv'
<1>1. Alone' /\ Settled' /\ \A c \in Calls : Place(c)'
  BY DEF CallInv, Alone, Place, Settled, callVars
<1>2. Status'
  BY DEF CallInv, Status, callVars
<1> QED
  BY <1>1, <1>2 DEF CallInv

----------------------------------------------------------------------------
(* Those who watch.                                                        *)

\* An update is on its way to all, or the buffer is full and those that wait miss it.
LEMMA UpdateEmits ==
  ASSUME EventType, NEW new \in Statuses, UpdateStatus(new), ~closed
  PROVE  /\ emitted' # <<>>
         /\ \A w \in Waiters \ missed' : wpc[w] \in {"read", "wait"} => InSeq(new, emitted')
<1>0. emitted \in Seq(Statuses)
  BY DEF EventType
<1>1. CASE Len(emitted) < EmitBuffer
  <2>1. emitted' = Append(emitted, new)
    BY <1>1 DEF UpdateStatus
  <2>2. Len(emitted') = Len(emitted) + 1 /\ emitted'[Len(emitted) + 1] = new /\ Len(emitted) \in Nat
    BY ONLY <1>0, <2>1, new \in Statuses
  <2>3. emitted' # <<>>
    BY ONLY <1>0, <2>1, new \in Statuses
  <2> QED
    BY <2>2, <2>3 DEF InSeq
<1>2. CASE ~(Len(emitted) < EmitBuffer)
  <2>1. emitted' = emitted /\ missed' = missed \cup {w \in Waiters : wpc[w] \in {"read", "wait"}}
    BY <1>2 DEF UpdateStatus
  <2>2. emitted # <<>>
    BY ONLY <1>0, <1>2, BoundsAssumption
  <2> QED
    BY <2>1, <2>2
<1> QED
  BY <1>1, <1>2

\* updateStatus leaves nobody behind who watches the status.
LEMMA UpdateWatch ==
  ASSUME EventType, Following, Waiting, NEW new \in Statuses, UpdateStatus(new), UNCHANGED <<closed, followVars>>
  PROVE  Following' /\ Waiting'
<1>1. CASE closed
  BY <1>1 DEF Following, Waiting, followVars
<1>2. CASE ~closed
  <2>1. /\ emitted' # <<>>
        /\ \A w \in Waiters \ missed' : wpc[w] \in {"read", "wait"} => InSeq(new, emitted')
    BY <1>2, UpdateEmits
  <2>2. status' = new /\ wpc' = wpc /\ ~closed'
    BY <1>2 DEF UpdateStatus
  <2> QED
    BY <2>1, <2>2 DEF Following, Waiting
<1> QED
  BY <1>1, <1>2

\* A step that leaves the status and what is served leaves the watchers as they are.
LEMMA QuietWatch ==
  ASSUME Following, Waiting, UNCHANGED <<status, closed, followVars, eventVars>>, Serving' = Serving
  PROVE  Following' /\ Waiting'
<1>1. Following'
  BY DEF Following, followVars, eventVars
<1>2. Waiting'
  BY DEF Waiting, InSeq, eventVars
<1> QED
  BY <1>1, <1>2

\* The calls change what is served together with the status, or while it is not STARTED.
LEMMA CallWatch ==
  ASSUME EventType, CallInv, Following, Waiting, NEW c \in Calls,
         Enter(c) \/ Lock(c) \/ StartStep(c) \/ StopStep(c)
  PROVE  Following' /\ Waiting' /\ EventType' /\ UNCHANGED followVars
<1>0. UNCHANGED followVars /\ UNCHANGED closed
  BY Zenon DEF Enter, Lock, StartStep, StopStep, BeginClosed, BeginReload, CloseOld, Starting, NewFails,
     NewInstance, Install, BoxStarts, BoxFails, EndInterrupted, EndFailed, EndStarted, Discard,
     StopNothing, Stop, CloseInstance, Idle
<1>1. CASE \/ BeginReload(c) \/ Starting(c) \/ NewFails(c) \/ EndFailed(c) \/ EndStarted(c)
           \/ Stop(c) \/ Idle(c)
  <2>1. \E new \in Statuses : UpdateStatus(new)
    BY <1>1 DEF BeginReload, Starting, NewFails, EndFailed, EndStarted, Stop, Idle, Statuses
  <2>2. PICK new \in Statuses : UpdateStatus(new)
    BY <2>1
  <2> QED
    BY ONLY <1>0, <2>2, EventType, Following, Waiting, UpdateWatch, UpdateType
<1>2. CASE \/ Enter(c) \/ Lock(c) \/ BeginClosed(c) \/ CloseOld(c) \/ NewInstance(c) \/ Install(c)
           \/ BoxStarts(c) \/ BoxFails(c) \/ EndInterrupted(c) \/ Discard(c)
           \/ StopNothing(c) \/ CloseInstance(c)
  <2>1. UNCHANGED <<status, eventVars>>
    BY Zenon, <1>2 DEF Enter, Lock, BeginClosed, CloseOld, NewInstance, Install, BoxStarts, BoxFails,
       EndInterrupted, Discard, StopNothing, CloseInstance
  <2>2. instance' = instance \/ Install(c) \/ EndInterrupted(c)
    BY Zenon, <1>2 DEF Enter, Lock, BeginClosed, CloseOld, NewInstance, BoxStarts, BoxFails,
       Discard, StopNothing, CloseInstance
  <2>3. Install(c) \/ EndInterrupted(c) => status # "STARTED"
    BY DEF Install, EndInterrupted, CallInv, Place, UnderStarting
  <2>4. Serving' = Serving
    BY ONLY <2>1, <2>2, <2>3 DEF Serving
  <2>5. EventType'
    BY ONLY <2>1, EventType DEF EventType, eventVars
  <2> QED
    BY ONLY <1>0, <2>1, <2>4, <2>5, Following, Waiting, QuietWatch
<1> QED
  BY ONLY <1>1, <1>2, Enter(c) \/ Lock(c) \/ StartStep(c) \/ StopStep(c) DEF StartStep, StopStep

\* What is in a sequence is in it when it grows, and in its tail unless it is its head.
LEMMA InAppend ==
  ASSUME NEW S, NEW s \in Seq(S), NEW e \in S, NEW x
  PROVE  InSeq(x, s) \/ x = e => InSeq(x, Append(s, e))
<1>1. /\ Len(Append(s, e)) = Len(s) + 1 /\ Append(s, e)[Len(s) + 1] = e /\ Len(s) \in Nat
      /\ \A n \in 1..Len(s) : Append(s, e)[n] = s[n]
  OBVIOUS
<1>2. CASE x = e
  BY <1>1, <1>2 DEF InSeq
<1>3. CASE InSeq(x, s)
  BY <1>1, <1>3 DEF InSeq
<1> QED
  BY <1>2, <1>3

\* What is in a sequence is its head or in its tail.
LEMMA InTail ==
  ASSUME NEW S, NEW s \in Seq(S), s # <<>>, NEW x, InSeq(x, s)
  PROVE  x = Head(s) \/ InSeq(x, Tail(s))
<1>1. /\ Len(Tail(s)) = Len(s) - 1 /\ Len(s) \in Nat /\ Head(s) = s[1]
      /\ \A n \in 1..(Len(s) - 1) : Tail(s)[n] = s[n + 1]
  OBVIOUS
<1>2. PICK n \in 1..Len(s) : s[n] = x
  BY DEF InSeq
<1>3. CASE n = 1
  BY <1>1, <1>2, <1>3
<1>4. CASE n # 1
  <2>1. n - 1 \in 1..(Len(s) - 1) /\ (n - 1) + 1 = n
    BY <1>1, <1>4
  <2> QED
    BY <1>1, <1>2, <2>1 DEF InSeq
<1> QED
  BY <1>3, <1>4

\* The observer hands an update on: it is in the subscriptions instead of the buffer.
LEMMA DistributeWatch ==
  ASSUME EventType, Following, Waiting, Distribute
  PROVE  Following' /\ Waiting' /\ EventType'
<1>0. /\ emitted \in Seq(Statuses) /\ Len(emitted) <= EmitBuffer /\ emitted # <<>> /\ emitted' = Tail(emitted)
      /\ inbox \in [Waiters -> Seq(Statuses)] /\ \A w \in Waiters : Len(inbox[w]) <= Inbox
      /\ UNCHANGED <<status, instance, closed, fpc, view, wpc>>
  BY DEF EventType, Distribute, followVars
<1>1. Head(emitted) \in Statuses /\ Tail(emitted) \in Seq(Statuses) /\ Len(Tail(emitted)) <= EmitBuffer
  BY ONLY <1>0, BoundsAssumption
<1>2. inbox' = [w \in Waiters |-> IF wpc[w] = "wait" /\ ~Full(w) THEN Append(inbox[w], Head(emitted))
                                  ELSE inbox[w]]
  BY DEF Distribute
<1>3. ASSUME NEW w \in Waiters PROVE inbox'[w] \in Seq(Statuses) /\ Len(inbox'[w]) <= Inbox
  <2>1. inbox[w] \in Seq(Statuses) /\ Len(inbox[w]) <= Inbox /\ Len(inbox[w]) \in Nat
    BY <1>0
  <2>2. CASE wpc[w] = "wait" /\ ~Full(w)
    <3>1. inbox'[w] = Append(inbox[w], Head(emitted)) /\ Len(inbox[w]) < Inbox
      BY <1>2, <2>1, <2>2, BoundsAssumption DEF Full
    <3> QED
      BY ONLY <1>1, <2>1, <3>1, BoundsAssumption
  <2>3. CASE ~(wpc[w] = "wait" /\ ~Full(w))
    BY <1>2, <2>1, <2>3
  <2> QED
    BY <2>2, <2>3
<1>4. inbox' \in [Waiters -> Seq(Statuses)]
  BY ONLY <1>2, <1>3
<1>5. notified' \in SUBSET Followers /\ missed' \in SUBSET Waiters
  BY DEF Distribute, EventType, Subscribed
<1>6. EventType'
  BY <1>0, <1>1, <1>3, <1>4, <1>5 DEF EventType
<1>7. Following'
  BY <1>0 DEF Distribute, Following, Subscribed, Serving
<1>8. ASSUME status # "STARTING", ~closed, NEW w \in Waiters \ missed'
      PROVE  wpc[w] # "read" /\ (wpc[w] = "wait" => InSeq(status, inbox'[w]) \/ InSeq(status, emitted'))
  <2>1. w \notin missed /\ wpc[w] # "read" /\ ~(wpc[w] = "wait" /\ Full(w))
    BY <1>8 DEF Distribute
  <2>2. ASSUME wpc[w] = "wait" PROVE InSeq(status, inbox'[w]) \/ InSeq(status, emitted')
    <3>1. inbox'[w] = Append(inbox[w], Head(emitted)) /\ inbox[w] \in Seq(Statuses)
      BY <1>0, <1>2, <1>8, <2>1, <2>2
    <3>2. InSeq(status, inbox[w]) \/ InSeq(status, emitted)
      BY <1>8, <2>1, <2>2 DEF Waiting
    <3>3. InSeq(status, emitted) => status = Head(emitted) \/ InSeq(status, Tail(emitted))
      BY ONLY <1>0, InTail
    <3>4. InSeq(status, inbox[w]) \/ status = Head(emitted) => InSeq(status, inbox'[w])
      BY ONLY <1>1, <3>1, InAppend
    <3> QED
      BY <1>0, <3>2, <3>3, <3>4
  <2> QED
    BY <2>1, <2>2
<1>9. Waiting'
  BY <1>0, <1>8 DEF Waiting
<1> QED
  BY <1>6, <1>7, <1>9

\* Close ends the streams and the subscriptions.
LEMMA CloseWatch ==
  ASSUME FollowType, EventType, Following, Waiting, Close
  PROVE  Following' /\ Waiting' /\ FollowType' /\ EventType'
<1>1. FollowType'
  BY Numbers DEF FollowType, Close
<1>2. EventType'
  <2>1. <<>> \in Seq(Statuses) /\ Len(<<>>) = 0
    OBVIOUS
  <2> QED
    BY <2>1, BoundsAssumption DEF EventType, Close
<1>3. \A f \in Followers : fpc'[f] \notin {"read", "run"}
  BY DEF Close, Subscribed
<1>4. closed'
  BY DEF Close
<1> QED
  BY <1>1, <1>2, <1>3, <1>4 DEF Following, Waiting

\* A follower subscribes before it reads, and reads again after an update.
LEMMA FollowWatch ==
  ASSUME CallType, FollowType, EventType, Following, Waiting, NEW f \in Followers, Subscribe(f) \/ FollowStep(f)
  PROVE  Following' /\ Waiting' /\ FollowType' /\ EventType'
<1>1. /\ UNCHANGED <<status, instance, closed, emitted, wpc, inbox, missed>> /\ Serving' = Serving
  BY DEF Subscribe, FollowStep, Read, Notified, eventVars, Serving
<1>2. Waiting'
  BY ONLY <1>1, Waiting DEF Waiting, InSeq
<1>3. Serving \in 0..MaxBoxes
  BY Numbers DEF Serving, CallType
<1>4. CASE Subscribe(f)
  BY <1>1, <1>2, <1>4 DEF Subscribe, Following, FollowType, EventType, eventVars
<1>5. CASE Read(f)
  BY <1>1, <1>2, <1>3, <1>5 DEF Read, Following, FollowType, EventType, eventVars
<1>6. CASE Notified(f)
  BY <1>1, <1>2, <1>6, Numbers DEF Notified, Following, FollowType, EventType
<1> QED
  BY <1>4, <1>5, <1>6 DEF FollowStep

\* What a waiter does concerns itself only.
LEMMA WaiterMoves ==
  ASSUME EventType, Waiting, NEW w \in Waiters,
         NEW p \in {"read", "wait", "ended"}, NEW u \in Seq(Statuses), Len(u) <= Inbox, WaitVars(w, p, u),
         status # "STARTING" /\ ~closed /\ w \notin missed =>
           /\ p = "read" => InSeq(status, emitted)
           /\ p = "wait" => InSeq(status, u) \/ InSeq(status, emitted)
  PROVE  Waiting' /\ EventType'
<1>1. /\ wpc'[w] = p /\ inbox'[w] = u
      /\ \A v \in Waiters : v # w => wpc'[v] = wpc[v] /\ inbox'[v] = inbox[v]
      /\ UNCHANGED <<status, closed, emitted, notified>>
  BY DEF WaitVars, EventType
<1>2. missed' = missed \/ (p = "ended" /\ missed' = missed \ {w})
  BY DEF WaitVars
<1>3. EventType'
  <2>1. wpc' \in [Waiters -> {"none", "read", "wait", "ended"}] /\ inbox' \in [Waiters -> Seq(Statuses)]
    BY DEF WaitVars, EventType
  <2> QED
    BY <1>1, <1>2, <2>1 DEF EventType
<1>4. ASSUME status # "STARTING", ~closed, NEW v \in Waiters \ missed'
      PROVE  /\ wpc'[v] = "read" => InSeq(status, emitted)
             /\ wpc'[v] = "wait" => InSeq(status, inbox'[v]) \/ InSeq(status, emitted)
  <2>1. CASE v = w
    BY <1>1, <1>2, <1>4, <2>1
  <2>2. CASE v # w
    BY <1>1, <1>2, <1>4, <2>2 DEF Waiting
  <2> QED
    BY <2>1, <2>2
<1>5. Waiting'
  BY <1>1, <1>4 DEF Waiting
<1> QED
  BY <1>3, <1>5

\* waitForStarted: what it has not received yet, and has not missed, is on the way.
LEMMA WaitWatch ==
  ASSUME EventType, Following, Waiting, NEW w \in Waiters,
         WaitReads(w) \/ WaitSubscribes(w) \/ WaitReceives(w) \/ WaitCancelled(w)
  PROVE  Following' /\ Waiting' /\ EventType' /\ UNCHANGED followVars
<1>0. UNCHANGED <<status, instance, closed, followVars, notified, emitted>>
  BY Zenon DEF WaitReads, WaitSubscribes, WaitReceives, WaitCancelled, WaitVars
<1>1. Following'
  BY <1>0 DEF Following, Serving, followVars
<1>2. <<>> \in Seq(Statuses) /\ Len(<<>>) <= Inbox
  BY BoundsAssumption
<1>3. ASSUME WaitVars(w, "ended", <<>>) PROVE Waiting' /\ EventType'
  BY ONLY <1>2, <1>3, EventType, Waiting, w \in Waiters, WaiterMoves
<1>4. ASSUME WaitVars(w, "read", <<>>), status = "STARTING" PROVE Waiting' /\ EventType'
  BY ONLY <1>2, <1>4, EventType, Waiting, w \in Waiters, WaiterMoves
<1>5. CASE WaitReads(w)
  <2>1. WaitVars(w, "ended", <<>>) \/ (WaitVars(w, "read", <<>>) /\ status = "STARTING")
    BY <1>5 DEF WaitReads
  <2> QED
    BY <1>0, <1>1, <1>3, <1>4, <2>1
<1>6. CASE WaitSubscribes(w)
  <2>1. WaitVars(w, "ended", <<>>) \/ WaitVars(w, "wait", <<>>)
    BY <1>6 DEF WaitSubscribes
  <2>2. status # "STARTING" /\ ~closed /\ w \notin missed => InSeq(status, emitted)
    BY <1>6 DEF WaitSubscribes, Waiting
  <2>3. ASSUME WaitVars(w, "wait", <<>>) PROVE Waiting' /\ EventType'
    BY ONLY <1>2, <2>2, <2>3, EventType, Waiting, w \in Waiters, WaiterMoves
  <2> QED
    BY <1>0, <1>1, <1>3, <2>1, <2>3
<1>7. CASE WaitReceives(w) /\ Head(inbox[w]) = "STARTING"
  <2>1. wpc[w] = "wait" /\ inbox[w] # <<>> /\ WaitVars(w, "wait", Tail(inbox[w]))
    BY <1>7 DEF WaitReceives
  <2>2. inbox[w] \in Seq(Statuses) /\ Len(inbox[w]) <= Inbox
    BY DEF EventType
  <2>3. Tail(inbox[w]) \in Seq(Statuses) /\ Len(Tail(inbox[w])) <= Inbox
    BY ONLY <2>1, <2>2, BoundsAssumption
  <2>4. InSeq(status, inbox[w]) => status = Head(inbox[w]) \/ InSeq(status, Tail(inbox[w]))
    BY ONLY <2>1, <2>2, InTail
  <2>5. status # "STARTING" /\ ~closed /\ w \notin missed =>
          InSeq(status, Tail(inbox[w])) \/ InSeq(status, emitted)
    BY <1>7, <2>1, <2>4 DEF Waiting
  <2> QED
    BY ONLY <1>0, <1>1, <2>1, <2>3, <2>5, EventType, Waiting, w \in Waiters, WaiterMoves
<1>8. CASE (WaitReceives(w) /\ Head(inbox[w]) # "STARTING") \/ WaitCancelled(w)
  BY <1>0, <1>1, <1>3, <1>8 DEF WaitReceives, WaitCancelled
<1> QED
  BY ONLY <1>5, <1>6, <1>7, <1>8,
          WaitReads(w) \/ WaitSubscribes(w) \/ WaitReceives(w) \/ WaitCancelled(w)

----------------------------------------------------------------------------
(* The invariant, and what it gives.                                       *)

\* A new service satisfies the invariant.
LEMMA InitIInv == Init => IInv
<1> SUFFICES ASSUME Init PROVE IInv
  OBVIOUS
<1>1. CallType /\ FollowType
  BY Numbers DEF Init, CallType, FollowType, Statuses, Points
<1>2. FlagType
  BY Zenon DEF Init, FlagType
<1>3. EventType
  <2>1. <<>> \in Seq(Statuses) /\ Len(<<>>) = 0
    OBVIOUS
  <2> QED
    BY <2>1, BoundsAssumption DEF Init, EventType
<1>4. CallInv
  BY DEF Init, CallInv, Alone, Place, Settled, Status, Resting, Having, Empty, Launching, UnderStarting, UnderStopping
<1>5. Following /\ Waiting
  BY DEF Init, Following, Waiting
<1> QED
  BY <1>1, <1>2, <1>3, <1>4, <1>5, Types DEF IInv

\* The same of the state after a step.
LEMMA TypesNext == TypeOK' <=> CallType' /\ FlagType' /\ FollowType' /\ EventType'
  BY Zenon DEF TypeOK, CallType, FlagType, FollowType, EventType

\* Every step of a call, of a watcher, of the observer, SetError and Close keep it.
LEMMA NextIInv == IInv /\ [Next]_vars => IInv'
<1> SUFFICES ASSUME IInv, [Next]_vars PROVE IInv'
  OBVIOUS
<1>0. CallType /\ FlagType /\ FollowType /\ EventType /\ CallInv /\ Following /\ Waiting
  BY Types DEF IInv
<1>1. FlagType'
  BY ONLY <1>0, [Next]_vars, FlagsKept
<1> DEFINE Kept == CallType' /\ FollowType' /\ EventType' /\ CallInv' /\ Following' /\ Waiting'
<1>2. ASSUME NEW c \in Calls, Enter(c) \/ Lock(c) \/ StartStep(c) \/ StopStep(c) PROVE Kept
  <2>1. Place(c)
    BY <1>0 DEF CallInv
  <2>2. CallType'
    BY ONLY <1>0, <1>2, <2>1, EnterType, StartType, StopType
  <2>3. CallInv'
    BY ONLY <1>0, <1>2, CallStepInv
  <2>4. Following' /\ Waiting' /\ EventType' /\ UNCHANGED followVars
    BY ONLY <1>0, <1>2, CallWatch
  <2>5. FollowType'
    BY ONLY <1>0, <2>4 DEF FollowType, followVars
  <2> QED
    BY ONLY <2>2, <2>3, <2>4, <2>5
<1>3. ASSUME UNCHANGED <<lifecycle, status, instance, startInterrupted, boxVars, callVars>>, closed => closed'
      PROVE  CallType' /\ CallInv'
  <2>1. CallInv'
    BY <1>0, <1>3, CallInvKept DEF boxVars
  <2>2. CallType'
    BY <1>0, <1>3 DEF CallType, boxVars, callVars
  <2> QED
    BY <2>1, <2>2
<1>4. ASSUME NEW f \in Followers, Subscribe(f) \/ FollowStep(f) PROVE Kept
  <2>1. UNCHANGED <<lifecycle, status, instance, closed, startInterrupted, boxVars, callVars>>
    BY <1>4 DEF Subscribe, FollowStep, Read, Notified
  <2>2. Following' /\ Waiting' /\ FollowType' /\ EventType'
    BY ONLY <1>0, <1>4, FollowWatch
  <2> QED
    BY ONLY <1>3, <2>1, <2>2
<1>5. ASSUME NEW w \in Waiters, WaitReads(w) \/ WaitSubscribes(w) \/ WaitReceives(w) \/ WaitCancelled(w)
      PROVE  Kept
  <2>1. UNCHANGED <<lifecycle, status, instance, closed, startInterrupted, boxVars, callVars>>
    BY <1>5 DEF WaitReads, WaitSubscribes, WaitReceives, WaitCancelled, WaitVars
  <2>2. Following' /\ Waiting' /\ EventType' /\ UNCHANGED followVars
    BY ONLY <1>0, <1>5, WaitWatch
  <2>3. FollowType'
    BY ONLY <1>0, <2>2 DEF FollowType, followVars
  <2> QED
    BY ONLY <1>3, <2>1, <2>2, <2>3
<1>6. CASE Distribute
  <2>1. UNCHANGED <<lifecycle, status, instance, startInterrupted, boxVars, callVars>> /\ (closed => closed')
    BY Zenon, <1>6 DEF Distribute
  <2>2. Following' /\ Waiting' /\ EventType'
    BY ONLY <1>0, <1>6, DistributeWatch
  <2>3. FollowType'
    BY <1>0, <1>6 DEF FollowType, Distribute, followVars
  <2>4. Kept
    BY ONLY <1>3, <2>1, <2>2, <2>3
  <2> QED
    BY ONLY <1>1, <2>4, TypesNext DEF IInv
<1>7. CASE Close
  <2>1. UNCHANGED <<lifecycle, status, instance, startInterrupted, boxVars, callVars>> /\ (closed => closed')
    BY Zenon, <1>7 DEF Close
  <2>2. Following' /\ Waiting' /\ FollowType' /\ EventType'
    BY ONLY <1>0, <1>7, CloseWatch
  <2>3. Kept
    BY ONLY <1>3, <2>1, <2>2
  <2> QED
    BY ONLY <1>1, <2>3, TypesNext DEF IInv
<1>8. CASE SetError
  <2>1. "FATAL" \in Statuses /\ UpdateStatus("FATAL") /\ UNCHANGED <<closed, followVars>>
    BY <1>8 DEF SetError, Statuses
  <2>2. status' = "FATAL" /\ UNCHANGED <<lifecycle, instance, closed, startInterrupted, boxVars, callVars>>
    BY <1>8 DEF SetError, UpdateStatus
  <2>3. Following' /\ Waiting' /\ EventType' /\ status' \in Statuses
    BY ONLY <1>0, <2>1, UpdateWatch, UpdateType
  <2>4. CallInv'
    BY <1>0, <2>2, SetErrorInv DEF boxVars
  <2>5. CallType' /\ FollowType'
    BY <1>0, <2>1, <2>2, <2>3 DEF CallType, FollowType, boxVars, callVars, followVars
  <2> QED
    BY ONLY <1>1, <2>3, <2>4, <2>5, TypesNext DEF IInv
<1>9. CASE UNCHANGED vars
  <2>1. UNCHANGED <<lifecycle, status, instance, startInterrupted, boxVars, callVars>> /\ (closed => closed')
    BY <1>9 DEF vars
  <2>2. Following' /\ Waiting'
    BY <1>0, <1>9, QuietWatch DEF vars, Serving
  <2>3. FollowType' /\ EventType'
    BY <1>0, <1>9 DEF vars, FollowType, EventType, followVars, eventVars
  <2>4. Kept
    BY ONLY <1>3, <2>1, <2>2, <2>3
  <2> QED
    BY ONLY <1>1, <2>4, TypesNext DEF IInv
<1>10. Kept => IInv'
  BY ONLY <1>1, TypesNext DEF IInv
<1> HIDE DEF Kept
<1> QED
  BY ONLY <1>2, <1>4, <1>5, <1>6, <1>7, <1>8, <1>9, <1>10, [Next]_vars DEF Next

\* The invariant holds in every reachable state: the status, s.instance, the boxes,
\* the calls that overlap and those who watch fit together, whatever their number.
THEOREM ServiceInvariance == Spec => []IInv
  BY InitIInv, NextIInv, PTL DEF Spec

\* However calls of StartOrReloadService and CloseService overlap and interrupt each
\* other, two boxes are never open together, and the open one is s.instance or in the
\* hands of the call that holds lifecycleAccess.
THEOREM SingleBox == Spec => []OneBox
<1>1. ASSUME IInv PROVE OneBox
  <2>0. CallType /\ CallInv
    BY <1>1, Types DEF IInv
  <2>1. \A b \in Open : b = instance \/ \E c \in Calls : mine[c] = b
    BY <2>0 DEF Open, CallInv, Settled
  <2>2. \A b \in Open : b # 0
    BY Numbers DEF Open
  <2>3. \A c \in Calls : mine[c] # 0 => /\ pc[c] \notin Resting /\ c \in lifecycle
                                        /\ instance = 0 \/ instance = mine[c]
    BY <2>0 DEF CallInv, Alone, Place, Resting, Having, Empty, Launching
  <2>4. \A c, d \in Calls : mine[c] # 0 /\ mine[d] # 0 => c = d
    BY <2>0, <2>3 DEF CallInv, Alone
  <2>5. \A b \in Open : b = instance \/ \E c \in lifecycle : mine[c] = b
    BY <2>1, <2>2, <2>3
  <2>6. \A a, b \in Open : a = b
    BY <2>1, <2>2, <2>3, <2>4
  <2> QED
    BY <2>5, <2>6 DEF OneBox
<1> QED
  BY <1>1, ServiceInvariance, PTL

\* While serviceStatus is STARTED there is an instance whose box runs, and an
\* interrupted start never leaves the service between two states for good.
THEOREM StatusHolds == Spec => []StatusTrue
<1>1. ASSUME IInv PROVE StatusTrue
  <2>0. CallType /\ CallInv
    BY <1>1, Types DEF IInv
  <2>1. status = "STARTED" => instance # 0 /\ box[instance] = "running"
    BY <2>0 DEF CallInv, Place, Settled, Status, Launching, UnderStarting
  <2>2. ASSUME ~closed, \A c \in Calls : pc[c] \in {"none", "ended"}
        PROVE  /\ status \in {"IDLE", "STARTED", "FATAL"}
               /\ status = "IDLE" => instance = 0
               /\ ~startInterrupted
    BY <2>0, <2>2 DEF CallType, CallInv, Status, Statuses, Launching, Locking, Settling, UnderStopping
  <2>3. ~startInterrupted => startInterrupted = FALSE
    BY <1>1 DEF IInv, TypeOK
  <2> QED
    BY <2>1, <2>2, <2>3 DEF StatusTrue
<1> QED
  BY <1>1, ServiceInvariance, PTL

\* Who watches the status in followInstance or waitForStarted and is behind has an
\* update waiting or on the way, for buffers of any size.
THEOREM NobodyLeftBehind == Spec => []WatchersTold
<1>1. ASSUME IInv PROVE WatchersTold
  <2>1. EventType /\ Following /\ Waiting
    BY <1>1, Types DEF IInv
  <2>2. \A f \in Followers : fpc[f] = "run" /\ view[f] # Serving => f \in notified \/ emitted # <<>>
    BY <2>1 DEF Following
  <2>3. ASSUME NEW w \in Waiters \ missed, wpc[w] = "wait", status # "STARTING", ~closed
        PROVE  \E n \in 1..(Len(inbox[w]) + Len(emitted)) : (inbox[w] \o emitted)[n] = status
    <3>1. inbox[w] \in Seq(Statuses) /\ emitted \in Seq(Statuses)
      BY <2>1, <2>3 DEF EventType
    <3>2. /\ Len(inbox[w]) \in Nat /\ Len(emitted) \in Nat
          /\ \A n \in 1..Len(inbox[w]) : (inbox[w] \o emitted)[n] = inbox[w][n]
          /\ \A n \in 1..Len(emitted) : (inbox[w] \o emitted)[Len(inbox[w]) + n] = emitted[n]
      <4>1. Len(inbox[w]) \in Nat /\ Len(emitted) \in Nat
        BY ONLY <3>1
      <4>2. ASSUME NEW n \in 1..Len(inbox[w])
            PROVE  (inbox[w] \o emitted)[n] = inbox[w][n]
        BY ONLY <3>1, n \in 1..Len(inbox[w])
      <4>3. ASSUME NEW n \in 1..Len(emitted)
            PROVE  (inbox[w] \o emitted)[Len(inbox[w]) + n] = emitted[n]
        BY ONLY <3>1, n \in 1..Len(emitted)
      <4> QED
        BY ONLY <4>1, <4>2, <4>3
    <3>3. CASE InSeq(status, inbox[w])
      BY ONLY <3>2, <3>3 DEF InSeq
    <3>4. CASE InSeq(status, emitted)
      <4>1. PICK n \in 1..Len(emitted) : emitted[n] = status
        BY <3>4 DEF InSeq
      <4>2. Len(inbox[w]) + n \in 1..(Len(inbox[w]) + Len(emitted))
        BY <3>2
      <4> QED
        BY <3>2, <4>1, <4>2
    <3> QED
      BY <2>1, <2>3, <3>3, <3>4 DEF Waiting
  <2> QED
    BY <2>2, <2>3 DEF WatchersTold
<1> QED
  BY <1>1, ServiceInvariance, PTL
=============================================================================
