--------------------------- MODULE ConnPoolProofs ---------------------------
(***************************************************************************)
(* For every number of callers, of resets and of dials: ConnPool in        *)
(* ConnPoolSingle mode (dns/transport/conn_pool.go) leaks no connection,   *)
(* gives each one a single creator, hands out what it tracks, and fails no *)
(* caller because of another one's ctx.                                    *)
(***************************************************************************)
EXTENDS ConnPoolSingle, TLAPS

----------------------------------------------------------------------------
(* The inductive invariant.                                                *)

\* The pool is at the last state made, until Close; closeState cancels only states
\* that were replaced.
Current ==
  /\ closed => state = 0
  /\ ~closed => state = made
  /\ \A g \in States : cancelled[g] => Retired(g)

Dialling(d) == dpc[d] \in {"dial", "install"}
Dialled(d) == dpc[d] \in {"finish", "done"}

\* A goroutine belongs to a state already made; while it dials, its state names it
\* and has no connection.
OneDial ==
  /\ \A d \in Dials : d > dials => dpc[d] = "none"
  /\ \A d \in Dials : dpc[d] # "none" => dgen[d] \in States /\ dgen[d] <= made
  /\ \A d \in Dials : Dialling(d) => connecting[dgen[d]] = d /\ shared[dgen[d]] = 0

\* What a state tracks was dialled for it, and the shared connection is tracked.
Tracking ==
  /\ \A g \in States : \A x \in all[g] : dgen[x] = g /\ Dialled(x) /\ ~derr[x]
  /\ \A g \in States : shared[g] # 0 => shared[g] \in all[g]

\* The claim is on the connection that is shared, and the one who made it was told.
Claimed ==
  /\ \A g \in States : IF shared[g] = 0 THEN ~sharedClaimed[g]
                       ELSE sharedClaimed[g] <=> shared[g] \in handed
  /\ \A x \in Dials : IF x \in handed THEN claims[x] = 1 /\ Dialled(x) ELSE claims[x] = 0

\* Whoever is about to close a connection has taken it out of the current state,
\* and the connection that state shares is open.
Closing(c) == pc[c] \in {"close_retry", "close"}
Hands ==
  /\ \A c \in Calls : got[c] # 0 => Dialled(got[c])
  /\ \A c \in Calls : Closing(c) \/ pc[c] = "using" => got[c] # 0
  /\ \A c \in Calls : Closing(c) /\ ~closed => got[c] \notin all[state]
  /\ ~closed => shared[state] \notin shut

\* NoLeak, after the goroutine has installed its connection.
Somewhere(x) ==
  \/ \E g \in States : x \in all[g]
  \/ \E c \in Calls : got[c] = x /\ Closing(c)
Owned ==
  \A x \in Dials : Dialled(x) /\ x \notin shut =>
    IF derr[x] THEN dpc[x] = "finish" ELSE Somewhere(x)

\* Nothing is closed before it is dialled: only a dial that failed is.
Fresh == \A x \in shut : Dialled(x) \/ (dpc[x] = "install" /\ derr[x])

Safe == Current /\ OneDial /\ Tracking /\ Claimed /\ Hands /\ Owned /\ Fresh
IInv == TypeOK /\ Safe

----------------------------------------------------------------------------
(* What the steps rest on.                                                 *)

\* The state an open pool works on is one that was made.
LEMMA StateMade == ASSUME IInv, ~closed PROVE state \in States /\ state = made
  BY DEF IInv, Safe, Current, TypeOK

\* A connection that a call has in its hands is one that was dialled.
LEMMA GotDialled ==
  ASSUME IInv, NEW c \in Calls, Closing(c) \/ pc[c] = "using"
  PROVE  got[c] \in Dials /\ Dialled(got[c])
<1>1. got[c] \in 0..MaxDials /\ got[c] # 0 /\ Dialled(got[c])
  BY DEF IInv, Safe, TypeOK, Hands
<1> QED
  BY <1>1, BoundsAssumption DEF Dials

LEMMA GotAny == ASSUME IInv, NEW c \in Calls, got[c] # 0 PROVE got[c] \in Dials
  BY BoundsAssumption DEF IInv, TypeOK, Dials

\* The connection a state shares is tracked by it.
LEMMA SharedTracked ==
  ASSUME IInv, NEW g \in States, shared[g] # 0
  PROVE  shared[g] \in Dials /\ shared[g] \in all[g] /\ Dialled(shared[g]) /\ ~derr[shared[g]]
<1>1. shared[g] \in all[g]
  BY DEF IInv, Safe, Tracking
<1>2. shared[g] \in Dials
  BY <1>1 DEF IInv, TypeOK
<1> QED
  BY <1>1, <1>2 DEF IInv, Safe, Tracking

\* 0 names no connection.
LEMMA NoneShut == ASSUME IInv PROVE 0 \notin shut /\ 0 \notin Dials
<1>1. 0 \notin Dials
  BY BoundsAssumption DEF Dials
<1> QED
  BY <1>1 DEF IInv, TypeOK

LEMMA CurrentKept ==
  ASSUME Current, UNCHANGED <<closed, state, made, cancelled>> PROVE Current'
  BY DEF Current, Retired

LEMMA OneDialKept ==
  ASSUME OneDial, UNCHANGED <<made, dials, dpc, dgen, connecting>>,
         \A g \in States : shared'[g] \in {0, shared[g]}
  PROVE  OneDial'
  BY DEF OneDial, Dialling

LEMMA TrackingKept ==
  ASSUME Tracking, UNCHANGED <<all, shared, dpc, dgen, derr>> PROVE Tracking'
  BY DEF Tracking, Dialled

LEMMA ClaimedKept ==
  ASSUME Claimed, UNCHANGED <<shared, sharedClaimed, dpc, handed, claims>> PROVE Claimed'
  BY DEF Claimed, Dialled

\* A call keeps what it holds, or lets go of it.
LEMMA HandsKept ==
  ASSUME Hands, UNCHANGED <<closed, state, all, shared, dpc, shut>>,
         \A b \in Calls : \/ /\ got'[b] = got[b]
                             /\ pc'[b] \in {"close_retry", "close", "using"} => pc'[b] = pc[b]
                          \/ got'[b] = 0 /\ pc'[b] \notin {"close_retry", "close", "using"}
  PROVE  Hands'
  BY DEF Hands, Closing, Dialled

\* Whoever is about to close a connection still is, or has closed it.
LEMMA OwnedKept ==
  ASSUME Owned, UNCHANGED <<all, dpc, derr>>, shut \subseteq shut',
         \A b \in Calls : Closing(b) => \/ got'[b] = got[b] /\ pc'[b] = pc[b]
                                       \/ got[b] \in shut'
  PROVE  Owned'
  BY DEF Owned, Somewhere, Closing, Dialled

LEMMA FreshKept ==
  ASSUME Fresh, UNCHANGED <<dpc, derr>>, \A x \in shut' \ shut : Dialled(x) PROVE Fresh'
  BY DEF Fresh, Dialled

----------------------------------------------------------------------------
(* acquireShared.                                                          *)

\* A call that holds nothing goes on, waits or gives up.
LEMMA LocalStep ==
  ASSUME IInv, TypeOK', NEW c \in Calls, pc[c] \in {"start", "loop", "wait"},
         pc'[c] \in {"ended", "loop", "wait"}, \A b \in Calls \ {c} : pc'[b] = pc[b],
         UNCHANGED <<poolVars, stateVars, dialVars, connVars, got, handed, claims>>
  PROVE  IInv'
<1>1. Current'
  BY CurrentKept DEF IInv, Safe, poolVars
<1>2. OneDial'
  BY OneDialKept DEF IInv, Safe, poolVars, stateVars, dialVars
<1>3. Tracking'
  BY TrackingKept DEF IInv, Safe, stateVars, dialVars
<1>4. Claimed'
  BY ClaimedKept DEF IInv, Safe, stateVars, dialVars
<1>5. Hands'
  BY HandsKept DEF IInv, Safe, poolVars, stateVars, dialVars, connVars
<1>6. Owned'
  BY OwnedKept DEF IInv, Safe, stateVars, dialVars, connVars, Closing
<1>7. Fresh'
  BY FreshKept DEF IInv, Safe, dialVars, connVars
<1> QED
  BY <1>1, <1>2, <1>3, <1>4, <1>5, <1>6, <1>7 DEF IInv, Safe

LEMMA LocalType ==
  ASSUME IInv, NEW c \in Calls, Fail(c) \/ Retry(c),
         UNCHANGED <<poolVars, stateVars, dialVars, connVars>>
  PROVE  TypeOK'
<1>1. 0 \in 0..MaxStates /\ 0 \in 0..MaxDials
  BY BoundsAssumption
<1>2. pc' \in [Calls -> Points]
  BY DEF IInv, TypeOK, Fail, Retry, Goto, Points
<1>3. Forget(c) /\ UNCHANGED <<ctxDone, got, handed, claims>>
  BY DEF Fail, Retry
<1> QED
  BY Zenon, <1>1, <1>2, <1>3 DEF IInv, TypeOK, Forget, poolVars, stateVars, dialVars, connVars

\* The steps in which the call goes round or fails.
LEMMA RoundStep ==
  ASSUME IInv, NEW c \in Calls, pc[c] \in {"start", "loop", "wait"}, Fail(c) \/ Retry(c),
         UNCHANGED <<poolVars, stateVars, dialVars, connVars>>
  PROVE  IInv'
<1>1. TypeOK'
  BY LocalType
<1>2. pc'[c] \in {"ended", "loop", "wait"} /\ (\A b \in Calls \ {c} : pc'[b] = pc[b])
  BY DEF IInv, TypeOK, Fail, Retry, Goto
<1>3. UNCHANGED <<got, handed, claims>>
  BY DEF Fail, Retry
<1> QED
  BY <1>1, <1>2, <1>3, LocalStep

LEMMA JoinStep == ASSUME IInv, NEW c \in Calls, AcquireJoin(c) PROVE IInv'
<1>1. TypeOK'
  BY Zenon, StateMade DEF IInv, TypeOK, AcquireJoin, Wait, Goto, Points, poolVars, stateVars, dialVars, connVars
<1>2. pc'[c] = "wait" /\ (\A b \in Calls \ {c} : pc'[b] = pc[b])
  BY DEF IInv, TypeOK, AcquireJoin, Wait, Goto
<1> QED
  BY <1>1, <1>2, LocalStep DEF AcquireJoin, Wait

LEMMA CtxDoneStep == ASSUME IInv, NEW c \in Calls, CtxDone(c) PROVE IInv'
<1>1. TypeOK'
  BY Zenon DEF IInv, TypeOK, CtxDone, poolVars, stateVars, dialVars, connVars
<1> QED
  BY <1>1, LocalStep DEF CtxDone

\* The steps of a call that change nothing but its own locals.
QuietCalls(c) ==
  \/ AcquireClosed(c) \/ CollectError(c) \/ CollectStale(c) \/ CollectGone(c)
  \/ WaitCtxDone(c) \/ WaitStateDone(c)

LEMMA QuietCall == ASSUME IInv, NEW c \in Calls, QuietCalls(c) PROVE IInv'
<1>1. pc[c] \in {"start", "loop", "wait"} /\ (Fail(c) \/ Retry(c))
      /\ UNCHANGED <<poolVars, stateVars, dialVars, connVars>>
  BY Zenon DEF QuietCalls, AcquireClosed, CollectError, CollectStale, CollectGone, WaitCtxDone,
               WaitStateDone
<1> QED
  BY <1>1, RoundStep

\* Two states track different connections.
LEMMA SharedApart ==
  ASSUME IInv, NEW g \in States, NEW h \in States, g # h, shared[g] # 0
  PROVE  shared[h] # shared[g]
<1>1. shared[g] \in all[g] /\ dgen[shared[g]] = g
  BY DEF IInv, Safe, Tracking
<1>2. shared[h] # 0 => dgen[shared[h]] = h
  BY DEF IInv, Safe, Tracking
<1> QED
  BY <1>1, <1>2

\* The shared connection is handed out.
LEMMA ClaimStep ==
  ASSUME IInv, NEW c \in Calls, ~closed, shared[state] # 0,
         pc[c] \in {"start", "loop", "wait"}, Claim(c, state),
         UNCHANGED <<poolVars, all, shared, connecting, dialVars, connVars, ctxDone>>
  PROVE  IInv'
<1> DEFINE x == shared[state]
<1>g. state \in States
  BY StateMade
<1>x. x \in Dials /\ Dialled(x)
  BY <1>g, SharedTracked
<1> HIDE DEF x
<1>c. /\ got' = [got EXCEPT ![c] = x] /\ pc' = [pc EXCEPT ![c] = "using"]
      /\ handed' = handed \cup {x}
      /\ claims' = [claims EXCEPT ![x] = IF ~sharedClaimed[state] THEN @ + 1 ELSE @]
      /\ sharedClaimed' = [sharedClaimed EXCEPT ![state] = TRUE]
      /\ Forget(c)
  BY DEF Claim, HandOut, Goto, x
<1>0. TypeOK'
  <2>1. 0 \in 0..MaxStates /\ 0 \in 0..MaxDials /\ x \in 0..MaxDials
    BY BoundsAssumption, <1>x DEF Dials
  <2>2. claims' \in [Dials -> Nat]
    BY <1>c, <1>x DEF IInv, TypeOK
  <2> QED
    BY Zenon, <1>c, <1>g, <1>x, <2>1, <2>2 DEF IInv, TypeOK, Forget, Points, poolVars, dialVars, connVars
<1>1. Current'
  BY CurrentKept DEF IInv, Safe, poolVars
<1>2. OneDial'
  BY OneDialKept DEF IInv, Safe, poolVars, dialVars
<1>3. Tracking'
  BY TrackingKept DEF IInv, Safe, dialVars
<1>4. Claimed'
  <2>1. ASSUME NEW g \in States
        PROVE  IF shared[g] = 0 THEN ~sharedClaimed'[g]
               ELSE sharedClaimed'[g] <=> shared[g] \in handed'
    <3>1. CASE g = state
      BY Zenon, <3>1, <1>c, <1>g DEF IInv, TypeOK, x
    <3>2. CASE g # state
      <4>1. shared[g] # x
        BY <3>2, <1>g, SharedApart DEF x
      <4>2. sharedClaimed'[g] = sharedClaimed[g]
        BY Zenon, <3>2, <1>c DEF IInv, TypeOK
      <4> QED
        BY Zenon, <4>1, <4>2, <1>c DEF IInv, Safe, Claimed
    <3> QED
      BY <3>1, <3>2
  <2>2. claims'[x] = 1
    <3>1. sharedClaimed[state] <=> x \in handed
      BY <1>g DEF IInv, Safe, Claimed, x
    <3>2. IF x \in handed THEN claims[x] = 1 ELSE claims[x] = 0
      BY <1>x DEF IInv, Safe, Claimed
    <3> QED
      BY <3>1, <3>2, <1>c, <1>x DEF IInv, TypeOK
  <2>3. \A y \in Dials \ {x} : claims'[y] = claims[y]
    BY Zenon, <1>c, <1>x DEF IInv, TypeOK
  <2> QED
    BY <2>1, <2>2, <2>3, <1>c, <1>x DEF IInv, Safe, Claimed, Dialled, dialVars
<1>5. Hands'
  <2>1. got'[c] = x /\ pc'[c] = "using" /\ x # 0
    BY Zenon, <1>c DEF IInv, TypeOK, x
  <2>2. \A b \in Calls \ {c} : got'[b] = got[b] /\ pc'[b] = pc[b]
    BY Zenon, <1>c DEF IInv, TypeOK
  <2> QED
    BY Zenon, <2>1, <2>2, <1>x DEF IInv, Safe, Hands, Closing, Dialled, poolVars, dialVars, connVars
<1>6. Owned'
  <2>1. \A b \in Calls \ {c} : got'[b] = got[b] /\ pc'[b] = pc[b]
    BY Zenon, <1>c DEF IInv, TypeOK
  <2> QED
    BY <2>1, OwnedKept DEF IInv, Safe, Closing, dialVars, connVars
<1>7. Fresh'
  BY FreshKept DEF IInv, Safe, dialVars, connVars
<1> QED
  BY <1>0, <1>1, <1>2, <1>3, <1>4, <1>5, <1>6, <1>7 DEF IInv, Safe


\* removeConn takes a connection out of its state, with the claim on it.
LEMMA TrackingRemove ==
  ASSUME TypeOK, Tracking, NEW g \in States, NEW x, RemoveConn(g, x), UNCHANGED <<dpc, dgen, derr>>
  PROVE  Tracking'
<1>1. ASSUME NEW h \in States PROVE all'[h] \subseteq all[h]
  BY DEF RemoveConn, TypeOK
<1>2. ASSUME NEW h \in States, shared'[h] # 0 PROVE shared'[h] \in all'[h]
  <2>1. CASE h = g
    BY <2>1, <1>2 DEF RemoveConn, TypeOK, Tracking
  <2>2. CASE h # g
    BY <2>2, <1>2 DEF RemoveConn, TypeOK, Tracking
  <2> QED
    BY <2>1, <2>2
<1> QED
  BY <1>1, <1>2 DEF Tracking, Dialled

LEMMA ClaimedRemove ==
  ASSUME TypeOK, Claimed, NEW g \in States, NEW x, RemoveConn(g, x), UNCHANGED <<dpc, handed, claims>>
  PROVE  Claimed'
<1>1. ASSUME NEW h \in States
      PROVE  IF shared'[h] = 0 THEN ~sharedClaimed'[h]
             ELSE sharedClaimed'[h] <=> shared'[h] \in handed
  <2>1. CASE h = g
    <3>1. shared'[g] = (IF shared[g] = x THEN 0 ELSE shared[g])
          /\ sharedClaimed'[g] = (sharedClaimed[g] /\ shared[g] # x)
      BY DEF RemoveConn, TypeOK
    <3> QED
      BY Zenon, <2>1, <3>1 DEF Claimed
  <2>2. CASE h # g
    <3>1. shared'[h] = shared[h] /\ sharedClaimed'[h] = sharedClaimed[h]
      BY <2>2 DEF RemoveConn, TypeOK
    <3> QED
      BY <3>1 DEF Claimed
  <2> QED
    BY <2>1, <2>2
<1> QED
  BY <1>1 DEF Claimed, Dialled

\* A call takes the connection out of the current state, to close it.
LEMMA RemoveStep ==
  ASSUME IInv, NEW c \in Calls, ~closed, NEW x \in all[state], ~Closing(c),
         RemoveConn(state, x), got' = [got EXCEPT ![c] = x],
         pc'[c] \in {"close_retry", "close"}, \A b \in Calls \ {c} : pc'[b] = pc[b], TypeOK',
         UNCHANGED <<poolVars, connecting, dialVars, connVars, ctxDone, handed, claims>>
  PROVE  IInv'
<1>g. state \in States
  BY StateMade
<1>y. x \in Dials /\ Dialled(x) /\ ~derr[x] /\ dgen[x] = state
  BY Zenon, <1>g DEF IInv, Safe, Tracking, TypeOK
<1>x. x \in Dials /\ x # 0 /\ Dialled(x) /\ ~derr[x] /\ dgen[x] = state
  BY <1>y, NoneShut
<1>a. all'[state] = all[state] \ {x} /\ (\A h \in States \ {state} : all'[h] = all[h])
  BY Zenon, <1>g DEF RemoveConn, IInv, TypeOK
<1>s. \A h \in States : shared'[h] \in {0, shared[h]}
  BY Zenon DEF RemoveConn, IInv, TypeOK
<1>b. got'[c] = x /\ (\A b \in Calls \ {c} : got'[b] = got[b])
  BY Zenon DEF IInv, TypeOK
<1>1. Current'
  BY CurrentKept DEF IInv, Safe, poolVars
<1>2. OneDial'
  BY <1>s, OneDialKept DEF IInv, Safe, poolVars, dialVars
<1>3. Tracking'
  BY <1>g, TrackingRemove DEF IInv, Safe, dialVars
<1>4. Claimed'
  BY <1>g, ClaimedRemove DEF IInv, Safe, dialVars
<1>5. Hands'
  <2>1. shared'[state] \notin shut
    BY Zenon, <1>s, <1>g, NoneShut DEF IInv, Safe, Hands
  <2>2. \A b \in Calls : (Closing(b))' => got'[b] \notin all'[state]
    BY Zenon, <1>a, <1>b DEF IInv, Safe, Hands, Closing
  <2>3. \A b \in Calls : /\ got'[b] # 0 => Dialled(got'[b])
                         /\ (Closing(b))' \/ pc'[b] = "using" => got'[b] # 0
    BY Zenon, <1>b, <1>x DEF IInv, Safe, Hands, Closing
  <2> QED
    BY Zenon, <2>1, <2>2, <2>3 DEF Hands, Dialled, poolVars, dialVars, connVars
<1>6. Owned'
  <2>1. ASSUME NEW y \in Dials, Somewhere(y) PROVE Somewhere(y)'
    <3>1. CASE y = x
      BY <3>1, <1>b DEF Somewhere, Closing
    <3>2. CASE y # x
      BY <3>2, <2>1, <1>a, <1>b, <1>g DEF Somewhere, Closing
    <3> QED
      BY <3>1, <3>2
  <2> QED
    BY <2>1 DEF IInv, Safe, Owned, Dialled, dialVars, connVars
<1>7. Fresh'
  BY FreshKept DEF IInv, Safe, dialVars, connVars
<1> QED
  BY <1>1, <1>2, <1>3, <1>4, <1>5, <1>6, <1>7 DEF IInv, Safe

\* The shared connection is found dead.
LEMMA EvictStep ==
  ASSUME IInv, NEW c \in Calls, ~closed, shared[state] # 0,
         pc[c] \in {"start", "loop", "wait"}, Evict(c, state),
         UNCHANGED <<poolVars, connecting, dialVars, connVars, ctxDone>>
  PROVE  IInv'
<1>1. state \in States
  BY StateMade
<1>2. shared[state] \in all[state] /\ shared[state] \in Dials
  BY <1>1, SharedTracked
<1>3. 0 \in 0..MaxStates /\ 0 \in 0..MaxDials /\ shared[state] \in 0..MaxDials
  BY <1>2, BoundsAssumption DEF Dials
<1>4. all' \in [States -> SUBSET Dials] /\ shared' \in [States -> 0..MaxDials]
      /\ sharedClaimed' \in [States -> BOOLEAN]
  BY Zenon, <1>3 DEF Evict, RemoveConn, IInv, TypeOK
<1>5. TypeOK'
  BY Zenon, <1>3, <1>4 DEF IInv, TypeOK, Evict, Goto, Forget, Points, poolVars, dialVars, connVars
<1>6. pc'[c] = "close_retry" /\ (\A b \in Calls \ {c} : pc'[b] = pc[b])
  BY DEF Evict, Goto, IInv, TypeOK
<1> QED
  BY Zenon, <1>2, <1>5, <1>6, RemoveStep DEF Evict, Closing


----------------------------------------------------------------------------
(* connectSingle.                                                          *)

\* Nobody has to do with a goroutine that has not installed its connection, and
\* the calls keep what they hold.
LEMMA BeforeInstall ==
  ASSUME IInv, NEW d \in Dials, ~Dialled(d), ~(Dialled(d))',
         \A e \in Dials \ {d} : dpc'[e] = dpc[e] /\ dgen'[e] = dgen[e] /\ derr'[e] = derr[e],
         shut' \in {shut, shut \cup {d}},
         \A b \in Calls : pc'[b] # pc[b] => {pc[b], pc'[b]} \subseteq {"start", "loop", "wait"},
         UNCHANGED <<closed, state, all, shared, sharedClaimed, got, handed, claims>>
  PROVE  Tracking' /\ Claimed' /\ Hands' /\ Owned'
<1>0. \A e \in Dials : Dialled(e) => e # d
  OBVIOUS
<1>d. \A e \in Dials : (Dialled(e))' <=> Dialled(e)
  BY DEF Dialled
<1>1. Tracking'
  <2>1. \A g \in States : \A x \in all[g] : x \in Dials \ {d}
    BY Zenon, <1>0 DEF IInv, Safe, Tracking, TypeOK
  <2> QED
    BY <2>1, <1>d DEF IInv, Safe, Tracking
<1>2. Claimed'
  BY <1>d DEF IInv, Safe, Claimed
<1>3. Hands'
  <2>1. \A b \in Calls : got[b] # 0 => (Dialled(got[b]))'
    <3> SUFFICES ASSUME NEW b \in Calls, got[b] # 0 PROVE (Dialled(got[b]))'
      OBVIOUS
    <3>1. got[b] \in Dials
      BY GotAny
    <3>2. Dialled(got[b])
      BY DEF IInv, Safe, Hands
    <3> QED
      BY <3>1, <3>2, <1>d
  <2>2. ASSUME ~closed PROVE shared[state] \notin shut'
    <3>1. shared[state] # d
      BY <2>2, StateMade, SharedTracked, NoneShut
    <3> QED
      BY <2>2, <3>1 DEF IInv, Safe, Hands
  <2> QED
    BY Zenon, <2>1, <2>2 DEF IInv, Safe, Hands, Closing
<1>4. Owned'
  <2>1. \A y \in Dials : Somewhere(y) => Somewhere(y)'
    BY DEF Somewhere, Closing
  <2> QED
    BY <2>1, <1>d DEF IInv, Safe, Owned
<1> QED
  BY <1>1, <1>2, <1>3, <1>4

LEMMA DialStarts == ASSUME IInv, NEW c \in Calls, AcquireDial(c) PROVE IInv'
<1>k. PICK d \in Dials : d = dials + 1
  BY BoundsAssumption DEF AcquireDial, IInv, TypeOK, Dials
<1>g. state \in States /\ state = made
  BY StateMade DEF AcquireDial
<1>n. d \in Nat /\ d > dials /\ (\A e \in Dials : e > d => e > dials)
  BY <1>k, BoundsAssumption DEF IInv, TypeOK, Dials
<1>d. dpc[d] = "none" /\ d \in 0..MaxDials
  BY <1>n, BoundsAssumption DEF IInv, Safe, OneDial, Dials
<1>e. /\ dials' = d /\ dpc' = [dpc EXCEPT ![d] = "dial"] /\ dgen' = [dgen EXCEPT ![d] = state]
      /\ leader' = [leader EXCEPT ![d] = c] /\ connecting' = [connecting EXCEPT ![state] = d]
      /\ Wait(c, d, TRUE) /\ derr' = derr
  BY Zenon, <1>k DEF AcquireDial, StartDial
<1>u. UNCHANGED <<poolVars, all, shared, sharedClaimed, connVars>>
  BY DEF AcquireDial
<1>0. TypeOK'
  BY Zenon, <1>e, <1>u, <1>d, <1>g DEF IInv, TypeOK, Wait, Goto, Points, poolVars, connVars
<1>1. Current'
  BY <1>u, CurrentKept DEF IInv, Safe, poolVars
<1>p. /\ dpc'[d] = "dial" /\ dgen'[d] = state /\ connecting'[state] = d
      /\ \A e \in Dials \ {d} : dpc'[e] = dpc[e] /\ dgen'[e] = dgen[e]
      /\ \A g \in States \ {state} : connecting'[g] = connecting[g]
  BY Zenon, <1>e, <1>d, <1>g DEF IInv, TypeOK
<1>2. OneDial'
  <2>1. ASSUME NEW e \in Dials, (Dialling(e))'
        PROVE  connecting'[dgen'[e]] = e /\ shared'[dgen'[e]] = 0
    <3>1. CASE e = d
      BY <3>1, <1>p, <1>u DEF AcquireDial
    <3>2. CASE e # d
      <4>1. dgen'[e] = dgen[e] /\ Dialling(e)
        BY <3>2, <2>1, <1>p DEF Dialling
      <4>2. connecting[dgen[e]] = e /\ shared[dgen[e]] = 0 /\ dgen[e] \in States
        BY <4>1 DEF IInv, Safe, OneDial, Dialling
      <4>3. dgen[e] # state
        BY <4>2, NoneShut DEF AcquireDial
      <4> QED
        BY <4>1, <4>2, <4>3, <1>p, <1>u
    <3> QED
      BY <3>1, <3>2
  <2>2. ASSUME NEW e \in Dials, e > dials' PROVE dpc'[e] = "none"
    <3>1. e # d /\ e > dials
      BY <2>2, <1>n, <1>e DEF Dials
    <3> QED
      BY <3>1, <1>p DEF IInv, Safe, OneDial
  <2>3. ASSUME NEW e \in Dials, dpc'[e] # "none" PROVE dgen'[e] \in States /\ dgen'[e] <= made'
    <3>1. made' = made /\ made <= made
      BY <1>u DEF poolVars, IInv, TypeOK, States
    <3> QED
      BY <2>3, <3>1, <1>p, <1>g DEF IInv, Safe, OneDial
  <2> QED
    BY <2>1, <2>2, <2>3 DEF OneDial, Dialling
<1>3. Tracking' /\ Claimed' /\ Hands' /\ Owned'
  <2>1. ~Dialled(d) /\ ~(Dialled(d))'
    BY <1>d, <1>p DEF Dialled
  <2>2. \A b \in Calls : pc'[b] # pc[b] => {pc[b], pc'[b]} \subseteq {"start", "loop", "wait"}
    BY Zenon, <1>e DEF Wait, Goto, AcquireDial, IInv, TypeOK
  <2>3. UNCHANGED <<closed, state, all, shared, sharedClaimed, got, handed, claims, shut>>
    BY <1>e, <1>u DEF Wait, poolVars, connVars
  <2> QED
    BY Zenon, <2>1, <2>2, <2>3, <1>p, <1>e, <1>d, BeforeInstall
<1>4. Fresh'
  <2>1. d \notin shut
    BY <1>d DEF IInv, Safe, Fresh, Dialled
  <2> QED
    BY <2>1, <1>p, <1>e, <1>u DEF IInv, Safe, TypeOK, Fresh, Dialled, connVars
<1> QED
  BY <1>0, <1>1, <1>2, <1>3, <1>4 DEF IInv, Safe


\* The dial comes back, with a connection or without.
LEMMA DialEnds ==
  ASSUME IInv, NEW d \in Dials, DialReturns(d) \/ DialFails(d) PROVE IInv'
<1>1. /\ dpc[d] = "dial" /\ dpc' = [dpc EXCEPT ![d] = "install"]
      /\ \E f \in BOOLEAN : /\ derr' = [derr EXCEPT ![d] = f]
                            /\ shut' = IF f THEN shut \cup {d} ELSE shut
      /\ UNCHANGED <<poolVars, stateVars, dials, dgen, leader, dead, callVars>>
  <2>1. DialCancelled(d) \in BOOLEAN
    BY DEF DialCancelled
  <2> QED
    BY Zenon, <2>1 DEF DialReturns, DialFails
<1>2. PICK f \in BOOLEAN : derr' = [derr EXCEPT ![d] = f] /\ shut' = IF f THEN shut \cup {d} ELSE shut
  BY Zenon, <1>1
<1>0. TypeOK'
  BY Zenon, <1>1, <1>2 DEF IInv, TypeOK, poolVars, stateVars, callVars
<1>3. /\ dpc'[d] = "install" /\ derr'[d] = f
      /\ \A e \in Dials \ {d} : dpc'[e] = dpc[e] /\ derr'[e] = derr[e]
  BY Zenon, <1>1, <1>2 DEF IInv, TypeOK
<1>4. Current'
  BY <1>1, CurrentKept DEF IInv, Safe, poolVars
<1>5. OneDial'
  <2>1. \A e \in Dials : ((Dialling(e))' <=> Dialling(e)) /\ (dpc'[e] = "none" <=> dpc[e] = "none")
    BY <1>1, <1>3 DEF Dialling
  <2> QED
    BY Zenon, <2>1, <1>1 DEF IInv, Safe, OneDial, poolVars, stateVars
<1>6. Tracking' /\ Claimed' /\ Hands' /\ Owned'
  <2>1. ~Dialled(d) /\ ~(Dialled(d))'
    BY <1>1, <1>3 DEF Dialled
  <2>2. UNCHANGED <<closed, state, all, shared, sharedClaimed, pc, got, handed, claims, dgen>>
    BY <1>1 DEF poolVars, stateVars, callVars
  <2> QED
    BY Zenon, <2>1, <2>2, <1>2, <1>3, BeforeInstall
<1>7. Fresh'
  <2>1. d \notin shut
    BY <1>1 DEF IInv, Safe, Fresh, Dialled
  <2>2. \A x \in shut : x \in Dials \ {d}
    BY <2>1 DEF IInv, TypeOK
  <2> QED
    BY <2>1, <2>2, <1>2, <1>3 DEF IInv, Safe, Fresh, Dialled
<1> QED
  BY <1>0, <1>4, <1>5, <1>6, <1>7 DEF IInv, Safe

\* The state of a goroutine that installs its connection names it and has no other.
LEMMA Installing ==
  ASSUME IInv, NEW d \in Dials, dpc[d] = "install"
  PROVE  /\ dgen[d] \in States /\ connecting[dgen[d]] = d /\ shared[dgen[d]] = 0
         /\ ~Dialled(d) /\ d \notin handed /\ d # 0 /\ (derr[d] \/ d \notin shut)
         /\ ~sharedClaimed[dgen[d]]
         /\ \A g \in States : d \notin all[g]
         /\ \A c \in Calls : got[c] # d
<1>1. dgen[d] \in States /\ connecting[dgen[d]] = d /\ shared[dgen[d]] = 0
  BY DEF IInv, Safe, OneDial, Dialling
<1>2. ~Dialled(d) /\ d # 0
  BY NoneShut DEF Dialled
<1>3. d \notin handed /\ ~sharedClaimed[dgen[d]]
  BY <1>1, <1>2 DEF IInv, Safe, Claimed
<1>4. \A g \in States : d \notin all[g]
  BY <1>2 DEF IInv, Safe, Tracking
<1>5. \A c \in Calls : got[c] # d
  BY Zenon, <1>2 DEF IInv, Safe, Hands
<1>6. derr[d] \/ d \notin shut
  BY <1>2 DEF IInv, Safe, Fresh
<1> QED
  BY <1>1, <1>2, <1>3, <1>4, <1>5, <1>6


\* The section under p.access: the connection is installed, or left to be closed.
LEMMA InstallStep == ASSUME IInv, NEW d \in Dials, Install(d) PROVE IInv'
<1> DEFINE bad == derr[d] \/ closed \/ state # dgen[d]
<1>d. /\ dgen[d] \in States /\ connecting[dgen[d]] = d /\ shared[dgen[d]] = 0
      /\ ~Dialled(d) /\ d \notin handed /\ d # 0 /\ (derr[d] \/ d \notin shut)
      /\ ~sharedClaimed[dgen[d]]
      /\ (\A g \in States : d \notin all[g]) /\ (\A c \in Calls : got[c] # d)
  BY Zenon, Installing DEF Install
<1>u. UNCHANGED <<poolVars, sharedClaimed, dials, dgen, leader, connVars, callVars>>
  BY DEF Install
<1>p. /\ dpc[d] = "install" /\ dpc' = [dpc EXCEPT ![d] = "finish"] /\ derr' = [derr EXCEPT ![d] = bad]
      /\ connecting' = [connecting EXCEPT ![dgen[d]] = 0]
  BY Zenon DEF Install, IInv, TypeOK
<1>s. IF bad THEN UNCHANGED <<all, shared>>
      ELSE /\ shared' = [shared EXCEPT ![dgen[d]] = d]
           /\ all' = [all EXCEPT ![dgen[d]] = @ \cup {d}]
  BY DEF Install
<1>b. bad \in BOOLEAN /\ (~bad => ~derr[d] /\ ~closed /\ state = dgen[d])
  BY DEF IInv, TypeOK
<1> HIDE DEF bad
<1>0. TypeOK'
  <2>2. 0 \in 0..MaxDials /\ d \in 0..MaxDials
    BY BoundsAssumption DEF Dials
  <2>3. all' \in [States -> SUBSET Dials]
    BY <1>s DEF IInv, TypeOK
  <2>1. shared' \in [States -> 0..MaxDials]
    BY <1>s, <2>2 DEF IInv, TypeOK
  <2> QED
    BY Zenon, <2>1, <2>2, <2>3, <1>p, <1>u, <1>b DEF IInv, TypeOK, poolVars, connVars, callVars
<1>e. /\ dpc'[d] = "finish" /\ derr'[d] = bad
      /\ \A e \in Dials \ {d} : dpc'[e] = dpc[e] /\ derr'[e] = derr[e]
      /\ \A g \in States \ {dgen[d]} : connecting'[g] = connecting[g]
  BY Zenon, <1>p DEF IInv, TypeOK
<1>g. /\ \A g \in States \ {dgen[d]} : shared'[g] = shared[g] /\ all'[g] = all[g]
      /\ IF bad THEN shared'[dgen[d]] = 0 /\ all'[dgen[d]] = all[dgen[d]]
                ELSE shared'[dgen[d]] = d /\ all'[dgen[d]] = all[dgen[d]] \cup {d}
  BY <1>s, <1>d DEF IInv, TypeOK
<1>1. Current'
  BY <1>u, CurrentKept DEF IInv, Safe, poolVars
<1>2. OneDial'
  <2>1. ASSUME NEW e \in Dials, (Dialling(e))'
        PROVE  connecting'[dgen[e]] = e /\ shared'[dgen[e]] = 0
    <3>1. e # d /\ Dialling(e)
      BY <2>1, <1>e DEF Dialling
    <3>2. connecting[dgen[e]] = e /\ shared[dgen[e]] = 0 /\ dgen[e] \in States
      BY <3>1 DEF IInv, Safe, OneDial, Dialling
    <3>3. dgen[e] # dgen[d]
      BY <3>1, <3>2, <1>d
    <3> QED
      BY Zenon, <3>2, <3>3, <1>e, <1>g
  <2>2. \A e \in Dials : dpc'[e] = "none" <=> dpc[e] = "none"
    BY <1>e, <1>p
  <2> QED
    BY Zenon, <2>1, <2>2, <1>u DEF IInv, Safe, OneDial, Dialling, poolVars
<1>w. \A e \in Dials \ {d} : (Dialled(e))' <=> Dialled(e)
  BY <1>e DEF Dialled
<1>v. (Dialled(d))'
  BY <1>e DEF Dialled
<1>3. Tracking'
  <2>1. ASSUME NEW g \in States, NEW x \in all'[g]
        PROVE  dgen[x] = g /\ (Dialled(x))' /\ ~derr'[x]
    <3>1. CASE x = d
      BY Zenon, <3>1, <1>g, <1>d, <1>e, <1>v
    <3>2. CASE x # d
      <4>3. x \in all[g]
        BY <3>2, <1>g
      <4>1. x \in all[g] /\ x \in Dials \ {d}
        BY Zenon, <3>2, <4>3 DEF IInv, TypeOK
      <4>2. dgen[x] = g /\ Dialled(x) /\ ~derr[x]
        BY <4>1 DEF IInv, Safe, Tracking
      <4> QED
        BY <4>1, <4>2, <1>e, <1>w
    <3> QED
      BY <3>1, <3>2
  <2>2. ASSUME NEW g \in States, shared'[g] # 0 PROVE shared'[g] \in all'[g]
    BY <2>2, <1>g DEF IInv, Safe, Tracking
  <2> QED
    BY <2>1, <2>2, <1>u DEF Tracking
<1>4. Claimed'
  <2>1. UNCHANGED <<sharedClaimed, handed, claims>>
    BY <1>u DEF callVars
  <2>2. ASSUME NEW g \in States
        PROVE  IF shared'[g] = 0 THEN ~sharedClaimed[g] ELSE sharedClaimed[g] <=> shared'[g] \in handed
    <3>1. CASE g = dgen[d]
      <4>1. shared'[g] \in {0, d} /\ ~sharedClaimed[g] /\ d # 0 /\ d \notin handed
        BY Zenon, <3>1, <1>d, <1>g
      <4> QED
        BY <4>1
    <3>2. CASE g # dgen[d]
      <4>1. shared'[g] = shared[g]
        BY <3>2, <1>g
      <4> QED
        BY <4>1 DEF IInv, Safe, Claimed
    <3> QED
      BY <3>1, <3>2
  <2> QED
    BY <2>1, <2>2, <1>w, <1>v DEF IInv, Safe, Claimed
<1>5. Hands'
  <2>1. UNCHANGED <<closed, state, shut, pc, got>>
    BY <1>u DEF poolVars, connVars, callVars
  <2>2. \A c \in Calls : got[c] # 0 => (Dialled(got[c]))'
    BY Zenon, <2>1, <1>w, <1>v, GotAny DEF IInv, Safe, Hands
  <2>3. ASSUME ~closed
        PROVE  shared'[state] \notin shut /\ (\A c \in Calls : Closing(c) => got[c] \notin all'[state])
    <3>1. state \in States /\ shared[state] \notin shut /\ 0 \notin shut
          /\ (\A c \in Calls : Closing(c) => got[c] \notin all[state])
      BY Zenon, <2>3, StateMade, NoneShut DEF IInv, Safe, Hands
    <3>2. CASE state # dgen[d]
      BY <3>1, <3>2, <1>g
    <3>3. CASE state = dgen[d] /\ bad
      BY <3>1, <3>3, <1>g
    <3>4. CASE state = dgen[d] /\ ~bad
      BY Zenon, <3>1, <3>4, <1>g, <1>d, <1>b
    <3> QED
      BY <3>2, <3>3, <3>4
  <2> QED
    BY <2>1, <2>2, <2>3 DEF IInv, Safe, Hands, Closing
<1>6. Owned'
  <2>1. UNCHANGED <<pc, got, shut>>
    BY <1>u DEF connVars, callVars
  <2>2. \A x \in Dials : Somewhere(x) => Somewhere(x)'
    BY <2>1, <1>g DEF Somewhere, Closing
  <2>3. ~bad => Somewhere(d)'
    BY <1>g, <1>d DEF Somewhere
  <2> QED
    BY <2>1, <2>2, <2>3, <1>e, <1>w DEF IInv, Safe, Owned
<1>7. Fresh'
  BY Zenon, <1>u, <1>e, <1>w, <1>v DEF IInv, Safe, TypeOK, Fresh, connVars
<1> QED
  BY <1>0, <1>1, <1>2, <1>3, <1>4, <1>5, <1>6, <1>7 DEF IInv, Safe


\* A connection that was not installed is closed.
LEMMA FinishStep == ASSUME IInv, NEW d \in Dials, Finish(d) PROVE IInv'
<1>u. UNCHANGED <<poolVars, stateVars, dials, dgen, leader, derr, dead, callVars>>
  BY DEF Finish
<1>p. dpc[d] = "finish" /\ dpc' = [dpc EXCEPT ![d] = "done"] /\ shut' = IF derr[d] THEN shut \cup {d} ELSE shut
  BY DEF Finish
<1>0. TypeOK'
  BY Zenon, <1>u, <1>p DEF IInv, TypeOK, poolVars, stateVars, callVars
<1>e. dpc'[d] = "done" /\ \A e \in Dials \ {d} : dpc'[e] = dpc[e]
  BY <1>p DEF IInv, TypeOK
<1>w. \A e \in Dials : /\ (Dialled(e))' <=> Dialled(e)
                       /\ (Dialling(e))' <=> Dialling(e)
                       /\ dpc'[e] = "none" <=> dpc[e] = "none"
  BY <1>e, <1>p DEF Dialled, Dialling
<1>c. UNCHANGED <<closed, state, made, cancelled, all, shared, sharedClaimed, connecting, pc, got, handed, claims>>
  BY <1>u DEF poolVars, stateVars, callVars
<1>1. Current'
  BY <1>c, CurrentKept DEF IInv, Safe
<1>2. OneDial'
  BY Zenon, <1>w, <1>c, <1>u DEF IInv, Safe, OneDial
<1>3. Tracking'
  BY Zenon, <1>w, <1>c, <1>u DEF IInv, Safe, Tracking, TypeOK
<1>4. Claimed'
  BY <1>w, <1>c DEF IInv, Safe, Claimed
<1>5. Hands'
  <2>1. ASSUME ~closed PROVE shared[state] \notin shut'
    BY Zenon, <2>1, <1>p, StateMade, SharedTracked, NoneShut DEF IInv, Safe, Hands
  <2>2. \A c \in Calls : got[c] # 0 => (Dialled(got[c]))'
    BY Zenon, <1>w, <1>c, GotAny DEF IInv, Safe, Hands
  <2> QED
    BY Zenon, <2>1, <2>2, <1>c DEF IInv, Safe, Hands, Closing
<1>6. Owned'
  <2>1. \A x \in Dials : Somewhere(x) => Somewhere(x)'
    BY <1>c DEF Somewhere, Closing
  <2> QED
    BY <2>1, <1>w, <1>e, <1>p, <1>u DEF IInv, Safe, Owned
<1>7. Fresh'
  BY Zenon, <1>w, <1>e, <1>p, <1>u DEF IInv, Safe, TypeOK, Fresh, Dialled
<1> QED
  BY <1>0, <1>1, <1>2, <1>3, <1>4, <1>5, <1>6, <1>7 DEF IInv, Safe

----------------------------------------------------------------------------
(* options.Close, Release and Invalidate.                                  *)

\* Connections that nobody shares any more are closed, by those who removed them.
LEMMA ShutStep ==
  ASSUME IInv, TypeOK', NEW x \in Dials, Dialled(x), shut' = shut \cup {x},
         ~closed => shared[state] # x,
         \A b \in Calls : \/ got'[b] = got[b] /\ pc'[b] = pc[b]
                          \/ /\ got[b] = x /\ got'[b] = 0
                             /\ pc'[b] \notin {"close_retry", "close", "using"},
         UNCHANGED <<poolVars, stateVars, dialVars, handed, claims>>
  PROVE  IInv'
<1>u. UNCHANGED <<closed, state, made, cancelled, all, shared, sharedClaimed, connecting,
                  dials, dpc, dgen, derr>>
  BY DEF poolVars, stateVars, dialVars
<1>1. Current'
  BY <1>u, CurrentKept DEF IInv, Safe
<1>2. OneDial'
  BY <1>u, OneDialKept DEF IInv, Safe
<1>3. Tracking'
  BY <1>u, TrackingKept DEF IInv, Safe
<1>4. Claimed'
  BY <1>u, ClaimedKept DEF IInv, Safe
<1>5. Hands'
  BY Zenon, <1>u DEF IInv, Safe, Hands, Closing, Dialled
<1>6. Owned'
  BY Zenon, <1>u, OwnedKept DEF IInv, Safe
<1>7. Fresh'
  BY <1>u, FreshKept DEF IInv, Safe
<1> QED
  BY <1>1, <1>2, <1>3, <1>4, <1>5, <1>6, <1>7 DEF IInv, Safe

LEMMA CloseConnStep == ASSUME IInv, NEW c \in Calls, CloseConn(c) PROVE IInv'
<1> DEFINE x == got[c]
<1>1. Closing(c)
  BY DEF CloseConn, Closing
<1>2. x \in Dials /\ Dialled(x)
  BY <1>1, GotDialled
<1>3. ~closed => shared[state] # x
  BY Zenon, <1>1, <1>2, StateMade, SharedTracked, NoneShut DEF IInv, Safe, Hands
<1>u. UNCHANGED <<poolVars, stateVars, dialVars, dead, cur, await, startDial, ctxDone, handed, claims>>
  BY DEF CloseConn
<1>4. TypeOK'
  <2>1. 0 \in 0..MaxDials
    BY BoundsAssumption
  <2>2. pc' \in [Calls -> Points]
    BY Zenon DEF CloseConn, Goto, Points, IInv, TypeOK
  <2> QED
    BY Zenon, <1>2, <1>u, <2>1, <2>2 DEF CloseConn, IInv, TypeOK, poolVars, stateVars, dialVars
<1>5. \A b \in Calls : \/ got'[b] = got[b] /\ pc'[b] = pc[b]
                       \/ /\ got[b] = x /\ got'[b] = 0
                          /\ pc'[b] \notin {"close_retry", "close", "using"}
  BY Zenon DEF CloseConn, Goto, IInv, TypeOK
<1>6. shut' = shut \cup {x}
  BY DEF CloseConn
<1> QED
  BY <1>2, <1>3, <1>u, <1>4, <1>5, <1>6, ShutStep

\* closeState closes what a retired state tracks.
LEMMA SweepStep == ASSUME IInv, NEW g \in States, CloseStateConn(g) PROVE IInv'
<1>1. PICK x \in all[g] : shut' = shut \cup {x}
  BY DEF CloseStateConn
<1>2. x \in Dials /\ Dialled(x) /\ dgen[x] = g
  BY Zenon DEF IInv, Safe, Tracking, TypeOK
<1>3. g # state
  BY DEF CloseStateConn, IInv, Safe, Current, Retired
<1>4. ASSUME ~closed PROVE shared[state] # x
  <2>1. state \in States /\ x # 0
    BY <1>4, <1>2, StateMade, NoneShut
  <2>2. shared[state] = x => dgen[x] = state
    BY <2>1 DEF IInv, Safe, Tracking
  <2> QED
    BY <2>2, <1>2, <1>3
<1>5. TypeOK'
  BY Zenon, <1>1, <1>2 DEF CloseStateConn, IInv, TypeOK, poolVars, stateVars, dialVars, callVars
<1> QED
  BY <1>1, <1>2, <1>4, <1>5, ShutStep DEF CloseStateConn, callVars


\* The caller lets go of the connection, or finds that it has to close it itself.
LEMMA LetGoStep ==
  ASSUME IInv, NEW c \in Calls, ReleaseKeeps(c) \/ ReleaseForeign(c) \/ InvalidateForeign(c)
  PROVE  IInv'
<1>u. UNCHANGED <<poolVars, stateVars, dialVars, connVars, cur, await, startDial, ctxDone, handed, claims>>
  BY DEF ReleaseKeeps, ReleaseForeign, InvalidateForeign
<1>c. UNCHANGED <<closed, state, made, cancelled, all, shared, sharedClaimed, connecting,
                  dials, dpc, dgen, derr, shut>>
  BY <1>u DEF poolVars, stateVars, dialVars, connVars
<1>p. /\ pc[c] = "using"
      /\ \/ pc' = [pc EXCEPT ![c] = "ended"] /\ got' = [got EXCEPT ![c] = 0]
         \/ pc' = [pc EXCEPT ![c] = "close"] /\ got' = got /\ ~Tracked(got[c])
  BY DEF ReleaseKeeps, ReleaseForeign, InvalidateForeign, Goto
<1>q. /\ \A b \in Calls \ {c} : pc'[b] = pc[b] /\ got'[b] = got[b]
      /\ \/ pc'[c] = "ended" /\ got'[c] = 0
         \/ pc'[c] = "close" /\ got'[c] = got[c] /\ ~Tracked(got[c])
  BY Zenon, <1>p DEF IInv, TypeOK
<1>0. TypeOK'
  <2>1. 0 \in 0..MaxDials
    BY BoundsAssumption
  <2>2. pc' \in [Calls -> Points] /\ got' \in [Calls -> 0..MaxDials]
    BY <1>p, <2>1 DEF IInv, TypeOK, Points
  <2> QED
    BY Zenon, <1>u, <2>2 DEF IInv, TypeOK, poolVars, stateVars, dialVars, connVars
<1>1. Current'
  BY <1>c, CurrentKept DEF IInv, Safe
<1>2. OneDial'
  BY <1>c, OneDialKept DEF IInv, Safe
<1>3. Tracking'
  BY <1>c, TrackingKept DEF IInv, Safe
<1>4. Claimed'
  BY <1>c, <1>u, ClaimedKept DEF IInv, Safe
<1>5. Hands'
  BY <1>c, <1>p, <1>q DEF IInv, Safe, Hands, Closing, Dialled, Tracked
<1>6. Owned'
  BY Zenon, <1>c, <1>p, <1>q, OwnedKept DEF IInv, Safe, Closing
<1>7. Fresh'
  BY <1>c, FreshKept DEF IInv, Safe
<1> QED
  BY <1>0, <1>1, <1>2, <1>3, <1>4, <1>5, <1>6, <1>7 DEF IInv, Safe

LEMMA ReleaseStep == ASSUME IInv, NEW c \in Calls, ReleaseRemoves(c) PROVE IInv'
<1>1. ~closed /\ got[c] \in all[state] /\ ~Closing(c)
  BY DEF ReleaseRemoves, Tracked, Closing
<1>2. state \in States
  BY <1>1, StateMade
<1>3. all' \in [States -> SUBSET Dials] /\ sharedClaimed' \in [States -> BOOLEAN]
  BY Zenon DEF ReleaseRemoves, RemoveConn, IInv, TypeOK
<1>4. shared' \in [States -> 0..MaxDials]
  <2>1. 0 \in 0..MaxDials
    BY BoundsAssumption
  <2> QED
    BY Zenon, <2>1 DEF ReleaseRemoves, RemoveConn, IInv, TypeOK
<1>5. TypeOK'
  BY Zenon, <1>3, <1>4 DEF ReleaseRemoves, Goto, Points, IInv, TypeOK, poolVars, dialVars, connVars
<1>6. pc'[c] = "close" /\ (\A b \in Calls \ {c} : pc'[b] = pc[b])
  BY DEF ReleaseRemoves, Goto, IInv, TypeOK
<1>7. got' = [got EXCEPT ![c] = got[c]]
  BY DEF ReleaseRemoves, IInv, TypeOK
<1> QED
  BY Zenon, <1>1, <1>5, <1>6, <1>7, RemoveStep DEF ReleaseRemoves

----------------------------------------------------------------------------
(* Reset, Close, and the world.                                            *)

\* The state that Reset installs has had no goroutine and no connection yet.
LEMMA ResetStep == ASSUME IInv, Reset PROVE IInv'
<1>u. /\ ~closed /\ closed' = closed /\ made' = made + 1 /\ state' = made + 1
      /\ UNCHANGED <<cancelled, stateVars, dialVars, connVars, callVars>>
  BY DEF Reset
<1>a. state = made /\ made \in States /\ made < MaxStates
  BY StateMade DEF Reset
<1>g. made + 1 \in States /\ state = made /\ made \in Nat
  BY <1>a, BoundsAssumption DEF States
<1>0. TypeOK'
  <2>1. made' \in States /\ state' \in 0..MaxStates /\ detects' = detects
    BY <1>g, <1>u DEF Reset, States
  <2> QED
    BY Zenon, <2>1, <1>u DEF IInv, TypeOK, stateVars, dialVars, connVars, callVars
<1>1. Current'
  BY <1>u, <1>g DEF IInv, Safe, Current, Retired, States
<1>2. OneDial'
  <2>1. \A d \in Dials : dpc[d] # "none" => dgen[d] \in States /\ dgen[d] <= made + 1
    BY <1>g DEF IInv, Safe, OneDial, States
  <2> QED
    BY Zenon, <1>u, <2>1 DEF IInv, Safe, OneDial, Dialling, stateVars, dialVars
<1>3. Tracking'
  BY <1>u, TrackingKept DEF IInv, Safe, stateVars, dialVars
<1>4. Claimed'
  BY <1>u, ClaimedKept DEF IInv, Safe, stateVars, dialVars, callVars
<1>5. Hands'
  <2>1. \A x \in all[made + 1] : FALSE
    <3> SUFFICES ASSUME NEW x \in all[made + 1] PROVE FALSE
      OBVIOUS
    <3>1. x \in Dials /\ dgen[x] = made + 1 /\ dpc[x] # "none"
      BY <1>g DEF IInv, Safe, Tracking, TypeOK, Dialled
    <3>2. dgen[x] <= made
      BY <3>1 DEF IInv, Safe, OneDial
    <3> QED
      BY <3>1, <3>2, <1>g
  <2>2. shared[made + 1] = 0
    BY <2>1, <1>g DEF IInv, Safe, Tracking
  <2> QED
    BY Zenon, <1>u, <2>1, <2>2, NoneShut DEF IInv, Safe, Hands, Closing, Dialled, stateVars, dialVars, connVars, callVars
<1>6. Owned'
  BY <1>u, OwnedKept DEF IInv, Safe, stateVars, dialVars, connVars, callVars
<1>7. Fresh'
  BY <1>u, FreshKept DEF IInv, Safe, dialVars, connVars
<1> QED
  BY <1>0, <1>1, <1>2, <1>3, <1>4, <1>5, <1>6, <1>7 DEF IInv, Safe

LEMMA CloseStep == ASSUME IInv, Close PROVE IInv'
<1>u. /\ ~closed /\ closed' = TRUE /\ state' = 0
      /\ UNCHANGED <<made, cancelled, stateVars, dialVars, connVars, callVars>>
  BY DEF Close
<1>0. TypeOK'
  <2>1. 0 \in 0..MaxStates /\ detects' = detects
    BY BoundsAssumption DEF Close
  <2> QED
    BY Zenon, <2>1, <1>u DEF IInv, TypeOK, stateVars, dialVars, connVars, callVars
<1>1. Current'
  BY <1>u DEF IInv, Safe, Current, Retired, States
<1>2. OneDial'
  BY <1>u, OneDialKept DEF IInv, Safe, stateVars, dialVars
<1>3. Tracking'
  BY <1>u, TrackingKept DEF IInv, Safe, stateVars, dialVars
<1>4. Claimed'
  BY <1>u, ClaimedKept DEF IInv, Safe, stateVars, dialVars, callVars
<1>5. Hands'
  BY Zenon, <1>u DEF IInv, Safe, Hands, Closing, Dialled, dialVars, callVars
<1>6. Owned'
  BY <1>u, OwnedKept DEF IInv, Safe, stateVars, dialVars, connVars, callVars
<1>7. Fresh'
  BY <1>u, FreshKept DEF IInv, Safe, dialVars, connVars
<1> QED
  BY <1>0, <1>1, <1>2, <1>3, <1>4, <1>5, <1>6, <1>7 DEF IInv, Safe

\* A state's ctx is cancelled, or a connection breaks.
LEMMA WorldStep ==
  ASSUME IInv, (\E g \in States : CancelState(g)) \/ (\E x \in Dials : Break(x)) PROVE IInv'
<1>u. UNCHANGED <<closed, state, made, stateVars, dialVars, shut, callVars>>
  BY DEF CancelState, Break, poolVars, connVars
<1>c. \A g \in States : cancelled'[g] => cancelled[g] \/ Retired(g)
  BY Zenon DEF CancelState, Break, poolVars, IInv, TypeOK
<1>0. TypeOK'
  <2>1. cancelled' \in [States -> BOOLEAN] /\ dead' \in SUBSET Dials /\ detects' \in BOOLEAN
    BY Zenon DEF CancelState, Break, poolVars, connVars, IInv, TypeOK
  <2> QED
    BY Zenon, <1>u, <2>1 DEF IInv, TypeOK, stateVars, dialVars, callVars
<1>1. Current'
  BY <1>u, <1>c DEF IInv, Safe, Current, Retired
<1>2. OneDial'
  BY <1>u, OneDialKept DEF IInv, Safe, stateVars, dialVars
<1>3. Tracking'
  BY <1>u, TrackingKept DEF IInv, Safe, stateVars, dialVars
<1>4. Claimed'
  BY <1>u, ClaimedKept DEF IInv, Safe, stateVars, dialVars, callVars
<1>5. Hands'
  BY <1>u, HandsKept DEF IInv, Safe, stateVars, dialVars, callVars
<1>6. Owned'
  BY <1>u, OwnedKept DEF IInv, Safe, stateVars, dialVars, callVars
<1>7. Fresh'
  BY <1>u, FreshKept DEF IInv, Safe, dialVars
<1> QED
  BY <1>0, <1>1, <1>2, <1>3, <1>4, <1>5, <1>6, <1>7 DEF IInv, Safe


----------------------------------------------------------------------------
(* The theorems.                                                           *)

LEMMA InitIInv == Init => IInv
<1> SUFFICES ASSUME Init PROVE IInv
  OBVIOUS
<1>0. /\ 0 \in 0..MaxStates /\ 0 \in 0..MaxDials /\ 1 \in 0..MaxStates /\ 1 \in States
      /\ 0 \notin States
  BY BoundsAssumption DEF States
<1>1. TypeOK
  BY Zenon, <1>0 DEF Init, TypeOK, Points
<1>2. Current /\ OneDial /\ Tracking
  BY <1>0 DEF Init, Current, OneDial, Tracking, Dialling
<1>3. Claimed /\ Hands /\ Owned /\ Fresh
  BY DEF Init, Claimed, Hands, Owned, Fresh, Closing, Dialled
<1> QED
  BY <1>1, <1>2, <1>3 DEF IInv, Safe

LEMMA StutterIInv == ASSUME IInv, UNCHANGED vars PROVE IInv'
<1>u. UNCHANGED <<poolVars, stateVars, dialVars, connVars, callVars>>
  BY DEF vars
<1>0. TypeOK'
  BY Zenon, <1>u DEF IInv, TypeOK, poolVars, stateVars, dialVars, connVars, callVars
<1>1. Current' /\ OneDial'
  BY <1>u, CurrentKept, OneDialKept DEF IInv, Safe, poolVars, stateVars, dialVars
<1>2. Tracking' /\ Claimed'
  BY <1>u, TrackingKept, ClaimedKept DEF IInv, Safe, stateVars, dialVars, callVars
<1>3. Hands' /\ Owned'
  BY Zenon, <1>u, HandsKept, OwnedKept DEF IInv, Safe, poolVars, stateVars, dialVars, connVars, callVars
<1>4. Fresh'
  BY <1>u, FreshKept DEF IInv, Safe, dialVars, connVars
<1> QED
  BY <1>0, <1>1, <1>2, <1>3, <1>4 DEF IInv, Safe

LEMMA CallIInv == ASSUME IInv, NEW c \in Calls, CallStep(c) PROVE IInv'
<1>1. CASE AcquireHit(c) \/ CollectShared(c)
  BY <1>1, ClaimStep DEF AcquireHit, CollectShared
<1>2. CASE AcquireDead(c) \/ CollectDead(c)
  BY <1>2, EvictStep DEF AcquireDead, CollectDead
<1>3. CASE QuietCalls(c)
  BY <1>3, QuietCall
<1>4. CASE AcquireJoin(c) \/ AcquireDial(c) \/ CloseConn(c)
  BY <1>4, JoinStep, DialStarts, CloseConnStep
<1> QED
  BY <1>1, <1>2, <1>3, <1>4 DEF CallStep, QuietCalls

LEMMA NextIInv == ASSUME IInv, [Next]_vars PROVE IInv'
<1>1. ASSUME NEW c \in Calls, UseStep(c) \/ CtxDone(c) PROVE IInv'
  BY <1>1, LetGoStep, ReleaseStep, CtxDoneStep DEF UseStep
<1>2. ASSUME NEW d \in Dials, DialStep(d) PROVE IInv'
  BY <1>2, DialEnds, InstallStep, FinishStep DEF DialStep
<1> QED
  BY <1>1, <1>2, CallIInv, SweepStep, ResetStep, CloseStep, WorldStep, StutterIInv DEF Next

\* The invariant, for every number of calls, states and dials: what conn_pool.go
\* keeps true between two sections under p.access.
THEOREM PoolInvariance == Spec => []IInv
<1>1. IInv /\ [Next]_vars => IInv'
  BY NextIInv
<1> QED
  BY InitIInv, <1>1, PTL DEF Spec

\* No dialled connection is leaked: one that options.Close has not been called for
\* is tracked by a connPoolState, or its connectSingle goroutine or the call that
\* removed it has yet to close it.
THEOREM NothingLeaks == Spec => []NoLeak
<1>1. IInv => NoLeak
  <2> SUFFICES ASSUME IInv, NEW x \in Dials, x \notin shut PROVE Kept(x)
    BY DEF NoLeak
  <2>1. CASE Dialled(x)
    BY <2>1 DEF IInv, Safe, Owned, Kept, Somewhere, Closing
  <2>2. CASE ~Dialled(x)
    BY <2>2 DEF IInv, TypeOK, Kept, Dialled
  <2> QED
    BY <2>1, <2>2
<1> QED
  BY <1>1, PoolInvariance, PTL

\* connectSingle runs once at a time in a connPoolState, and exactly one of the
\* callers that AcquireShared gives a connection to is told that it created it.
THEOREM SingleCreator == Spec => []OneCreator
<1>1. IInv => OneCreator
  <2> SUFFICES ASSUME IInv PROVE OneCreator
    OBVIOUS
  <2>1. \A d \in Dials : dpc[d] \in {"dial", "install"} => connecting[dgen[d]] = d
    BY DEF IInv, Safe, OneDial, Dialling
  <2>2. \A x \in handed : claims[x] = 1
    BY DEF IInv, Safe, TypeOK, Claimed
  <2> QED
    BY <2>1, <2>2 DEF OneCreator
<1> QED
  BY <1>1, PoolInvariance, PTL


\* Only the steps that claim the shared connection lead a call to "using".
LEMMA OtherCalls ==
  ASSUME NEW b \in Calls, CallStep(b) \/ UseStep(b) \/ CtxDone(b),
         ~AcquireHit(b), ~CollectShared(b)
  PROVE  pc' = pc \/ \E p \in Points \ {"using"} : pc' = [pc EXCEPT ![b] = p]
<1>1. ASSUME NEW p \in Points \ {"using"}, Goto(b, p)
      PROVE  \E q \in Points \ {"using"} : pc' = [pc EXCEPT ![b] = q]
  BY Zenon, <1>1 DEF Goto
<1>2. {"ended", "loop", "wait", "close_retry", "close"} \subseteq Points \ {"using"}
  BY DEF Points
<1>3. CASE QuietCalls(b)
  BY Zenon, <1>1, <1>2, <1>3 DEF AcquireClosed, CollectError, CollectStale, CollectGone, WaitCtxDone,
       WaitStateDone, Fail, Retry, QuietCalls
<1>4. CASE AcquireJoin(b) \/ AcquireDial(b)
  BY Zenon, <1>1, <1>2, <1>4 DEF AcquireJoin, AcquireDial, StartDial, Wait
<1>5. CASE AcquireDead(b) \/ CollectDead(b) \/ CloseConn(b)
  BY Zenon, <1>1, <1>2, <1>5 DEF AcquireDead, CollectDead, Evict, CloseConn
<1>6. CASE UseStep(b) \/ CtxDone(b)
  BY Zenon, <1>1, <1>2, <1>6 DEF UseStep, ReleaseKeeps, ReleaseForeign, ReleaseRemoves, InvalidateForeign, CtxDone
<1> QED
  BY <1>3, <1>4, <1>5, <1>6 DEF CallStep, QuietCalls

LEMMA OtherSteps ==
  ASSUME [Next]_vars, ~(\E b \in Calls : CallStep(b) \/ UseStep(b) \/ CtxDone(b)) PROVE UNCHANGED callVars
<1>1. ASSUME NEW d \in Dials, DialStep(d) \/ Break(d) PROVE UNCHANGED callVars
  BY Zenon, <1>1 DEF DialStep, DialReturns, DialFails, Install, Finish, Break
<1>2. ASSUME NEW g \in States, CancelState(g) \/ CloseStateConn(g) PROVE UNCHANGED callVars
  BY <1>2 DEF CancelState, CloseStateConn
<1>3. Reset \/ Close => UNCHANGED callVars
  BY DEF Reset, Close
<1> QED
  BY <1>1, <1>2, <1>3 DEF Next, vars

LEMMA UsingClaims ==
  ASSUME IInv, [Next]_vars, NEW c \in Calls, pc[c] # "using", pc'[c] = "using"
  PROVE  /\ ~closed /\ shared[state] # 0 /\ got'[c] = shared[state]
         /\ UNCHANGED <<closed, state, all, shut>>
<1>1. PICK b \in Calls : CallStep(b) \/ UseStep(b) \/ CtxDone(b)
  BY OtherSteps DEF callVars
<1>2. AcquireHit(b) \/ CollectShared(b)
  <2> SUFFICES ASSUME ~AcquireHit(b), ~CollectShared(b) PROVE FALSE
    OBVIOUS
  <2>1. pc' = pc \/ \E p \in Points \ {"using"} : pc' = [pc EXCEPT ![b] = p]
    BY <1>1, OtherCalls
  <2> QED
    BY <2>1 DEF IInv, TypeOK
<1>3. ~closed /\ shared[state] # 0 /\ Claim(b, state) /\ UNCHANGED <<closed, state, all, shut>>
  BY <1>2 DEF AcquireHit, CollectShared, poolVars, connVars
<1>4. b = c
  BY Zenon, <1>3 DEF Claim, HandOut, Goto, IInv, TypeOK
<1> QED
  BY Zenon, <1>3, <1>4 DEF Claim, HandOut, IInv, TypeOK

\* What AcquireShared returns is tracked by the current connPoolState and open, also
\* when Reset or Close ran while the call waited for the dial.
THEOREM ReturnsTracked == Spec => HandedOutTracked
<1>1. IInv /\ [Next]_vars =>
        [\A c \in Calls : pc[c] # "using" /\ pc'[c] = "using" => Tracked(got'[c]) /\ got'[c] \notin shut]_vars
  <2> SUFFICES ASSUME IInv, [Next]_vars, NEW c \in Calls, pc[c] # "using", pc'[c] = "using"
               PROVE  Tracked(got'[c]) /\ got'[c] \notin shut
    OBVIOUS
  <2>1. ~closed /\ shared[state] # 0 /\ got'[c] = shared[state]
    BY UsingClaims
  <2>2. shared[state] \in all[state]
    BY <2>1, StateMade, SharedTracked
  <2> QED
    BY <2>1, <2>2 DEF IInv, Safe, Hands, Tracked
<1> QED
  BY <1>1, PoolInvariance, PTL DEF Spec, HandedOutTracked

\* A call that did not start the dial and whose own ctx is live fails only when the
\* pool was closed or reset while it waited.
THEOREM FollowersGoOn == Spec => FollowersUnharmed
<1>1. IInv /\ [Next]_vars =>
        [\A c \in Calls :
           (pc[c] = "wait" /\ pc'[c] = "ended" /\ ~startDial[c] /\ ~ctxDone[c])
             => (closed \/ state # cur[c])]_vars
  <2> SUFFICES ASSUME IInv, [Next]_vars, NEW c \in Calls,
                      pc[c] = "wait", pc'[c] = "ended", ~startDial[c], ~ctxDone[c]
               PROVE  closed \/ state # cur[c]
    OBVIOUS
  <2>1. PICK b \in Calls : CallStep(b) \/ UseStep(b) \/ CtxDone(b)
    BY OtherSteps DEF callVars
  <2>2. \E p \in Points : pc' = pc \/ pc' = [pc EXCEPT ![b] = p]
    <3>1. AcquireHit(b) \/ CollectShared(b) => pc' = [pc EXCEPT ![b] = "using"] /\ "using" \in Points
      BY Zenon DEF AcquireHit, CollectShared, Claim, HandOut, Goto, Points
    <3> QED
      BY <2>1, <3>1, OtherCalls
  <2>3. b = c
    BY <2>2 DEF IInv, TypeOK
  <2>4. ~AcquireHit(c) /\ ~CollectShared(c) /\ ~AcquireDead(c) /\ ~CollectDead(c) /\ ~AcquireJoin(c)
        /\ ~AcquireDial(c) /\ ~CloseConn(c) /\ ~UseStep(c) /\ ~CtxDone(c) /\ ~AcquireClosed(c)
    <3>1. ~(\E p \in {"using", "wait", "close_retry"} : pc' = [pc EXCEPT ![c] = p]) /\ pc' # pc
      BY DEF IInv, TypeOK
    <3> QED
      BY Zenon, <3>1 DEF AcquireHit, CollectShared, AcquireDead, CollectDead, AcquireJoin, AcquireDial, CloseConn,
         UseStep, CtxDone, AcquireClosed, ReleaseKeeps, ReleaseForeign, ReleaseRemoves, InvalidateForeign,
         Claim, HandOut, Evict, Goto
  <2>5. ~Retry(c)
    BY DEF Retry, Goto, IInv, TypeOK
  <2> QED
    BY Zenon, <2>1, <2>3, <2>4, <2>5 DEF CallStep, CollectError, CollectStale, CollectGone, WaitCtxDone, WaitStateDone
<1> QED
  BY <1>1, PoolInvariance, PTL DEF Spec, FollowersUnharmed
=============================================================================
