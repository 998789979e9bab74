-------------------------- MODULE DNSClientProofs --------------------------
(***************************************************************************)
(* Proofs about DNSClient, for any number of calls, any requests, any      *)
(* environments and any number of changes between them: the cond a call    *)
(* waits for is held by a call that will close it, calls that overlap      *)
(* share one exchange, and no answer of a former network is passed on.     *)
(***************************************************************************)
EXTENDS DNSClient, TLAPS

\* The points between LoadOrStore and the return of a call that stored cond.
Owning == {"load", "check", "exchange", "store"}

\* Who has stored a cond in cacheLock is under way and waits for no other; who
\* waits, waits for one that is in cacheLock.
Owners ==
  /\ \A e \in Envs, c \in Calls : cacheLock[e] = c => pc[c] \in Owning /\ cond[c] = None
  /\ \A c, o \in Calls : cond[c] = o => \E e \in Envs : cacheLock[e] = o
  /\ \A c \in Calls : pc[c] \notin {"load", "wait"} => cond[c] = None

\* What is in the cache for an environment, or about to be, was asked for there, or
\* while the environment was unknown.
Fitting ==
  /\ \A e \in Envs : cache[e].began \in {e, 0}
  /\ \A c \in Calls : pc[c] \in {"question", "lock", "load"} => key[c] \in since[c]
  /\ \A c \in Calls : pc[c] = "store" => key[c] \in {storeKey[c], 0}
  /\ \A e \in Envs : refresh[e] = "store" => e \in {refreshKey[e], 0}

Asking == {"exchange", "store"}

\* While nothing has failed, expired or changed: until the answer is stored the only
\* call past the cache is the one in cacheLock, and afterwards there is none.
CalmCalls ==
  \A c \in Calls : pc[c] \notin {"none", "done"} =>
    request[c].cached /\ ~request[c].checked /\ ~request[c].loops /\ key[c] = env
CalmCache ==
  /\ \A e \in Envs : refresh[e] = "none"
  /\ cache[env].age # "stale"
  /\ \A c \in Calls : pc[c] = "store" => storeKey[c] = env
CalmUnanswered ==
  cache[env].age = "none" =>
    /\ \A c \in Calls : cond[c] # Closed
    /\ \A c \in Calls : pc[c] \in Owning /\ cond[c] = None => cacheLock[env] = c
    /\ asked = 1 => \E c \in Calls : pc[c] \in Asking
CalmAnswered ==
  cache[env].age = "fresh" => \A c \in Calls : pc[c] \notin Asking \cup {"check"}
CalmInv == calm => CalmCalls /\ CalmCache /\ CalmUnanswered /\ CalmAnswered /\ asked <= 1

IInv == TypeOK /\ Owners /\ Fitting /\ CalmInv

----------------------------------------------------------------------------
(* Types. *)

\* None and Closed are no calls.
LEMMA Numbers == None \notin Calls /\ Closed \notin Calls /\ None # Closed /\ 0 \in Envs
BY ClientBounds DEF Calls, None, Closed, Envs

\* What returns leaves the locals of the calls, cacheLock and the conds well typed.
LEMMA TypeReturn ==
  ASSUME TypeOK, NEW c \in Calls, Return(c)
  PROVE  /\ request' \in [Calls -> AllRequests] /\ pc' \in [Calls -> Points]
         /\ key' \in [Calls -> Envs] /\ cond' \in [Calls -> Calls \cup {None, Closed}]
         /\ storeKey' \in [Calls -> Envs] /\ since' \in [Calls -> SUBSET Envs]
         /\ cacheLock' \in [Envs -> Calls \cup {None}]
<1>1. NoRequest \in AllRequests
  BY DEF NoRequest, AllRequests
<1>2. "done" \in Points /\ 0 \in Envs
  BY Numbers DEF Points
<1>3. request' \in [Calls -> AllRequests] /\ pc' \in [Calls -> Points]
  BY <1>1, <1>2 DEF TypeOK, Return, Goto
<1>4. key' \in [Calls -> Envs] /\ storeKey' \in [Calls -> Envs] /\ since' \in [Calls -> SUBSET Envs]
  BY <1>2 DEF TypeOK, Return
<1>5. cacheLock' \in [Envs -> Calls \cup {None}]
  BY DEF TypeOK, Return, Release
<1>6. [cond EXCEPT ![c] = None] \in [Calls -> Calls \cup {None, Closed}]
  BY DEF TypeOK
<1>7. cond' \in [Calls -> Calls \cup {None, Closed}]
  BY <1>6 DEF Return, Release
<1> QED BY <1>3, <1>4, <1>5, <1>7

LEMMA TypeNewKey ==
  ASSUME TypeOK, NEW c \in Calls, NewCacheKey(c)
  PROVE  key' \in [Calls -> Envs] /\ since' \in [Calls -> SUBSET Envs]
BY DEF TypeOK, NewCacheKey

LEMMA TypeGoto ==
  ASSUME TypeOK, NEW c \in Calls, NEW p \in Points, Goto(c, p)
  PROVE  pc' \in [Calls -> Points]
BY DEF TypeOK, Goto

LEMMA TypeRequest ==
  ASSUME TypeOK, NEW c \in Calls
  PROVE  /\ [request EXCEPT ![c].kind = "exchange"] \in [Calls -> AllRequests]
         /\ [request EXCEPT ![c].kind = "exchange", ![c].optimistic = FALSE] \in [Calls -> AllRequests]
<1>1. request \in [Calls -> AllRequests]
  BY DEF TypeOK
<1>2. \A r \in AllRequests : [r EXCEPT !.kind = "exchange"] \in AllRequests
  BY DEF AllRequests
<1>3. \A r \in AllRequests : [r EXCEPT !.optimistic = FALSE] \in AllRequests
  BY Zenon DEF AllRequests
<1>4. [request EXCEPT ![c].kind = "exchange"] \in [Calls -> AllRequests]
  BY ONLY <1>1, <1>2, c \in Calls
<1>5. [request EXCEPT ![c].kind = "exchange", ![c].optimistic = FALSE] \in [Calls -> AllRequests]
  BY ONLY <1>1, <1>2, <1>3, c \in Calls, Zenon
<1> QED BY <1>4, <1>5

LEMMA TypeDisturb ==
  ASSUME Disturb
  PROVE  calm' \in BOOLEAN /\ asked' \in 0..2
<1>1. calm' \in BOOLEAN
  BY Zenon DEF Disturb
<1>2. asked' \in 0..2
  BY DEF Disturb
<1> QED BY <1>1, <1>2

LEMMA TypeStoreCache ==
  ASSUME TypeOK, NEW a \in Envs, NEW b \in Envs, StoreCache(a, b)
  PROVE  /\ cache' \in [Envs -> [age : {"none", "fresh", "stale"}, began : Envs]]
         /\ calm' \in BOOLEAN /\ asked' \in 0..2
<1>1. CASE cache' = [cache EXCEPT ![a] = [age |-> "fresh", began |-> b]] /\ UNCHANGED history
  <2>1. [age |-> "fresh", began |-> b] \in [age : {"none", "fresh", "stale"}, began : Envs]
    OBVIOUS
  <2>2. cache' \in [Envs -> [age : {"none", "fresh", "stale"}, began : Envs]]
    BY <1>1, <2>1 DEF TypeOK
  <2>3. calm' \in BOOLEAN /\ asked' \in 0..2
    BY <1>1, Zenon DEF TypeOK, history
  <2> QED BY <2>2, <2>3
<1>2. CASE UNCHANGED cache /\ Disturb
  <2>1. calm' \in BOOLEAN /\ asked' \in 0..2
    BY <1>2, TypeDisturb
  <2> QED BY <1>2, <2>1 DEF TypeOK
<1> QED BY <1>1, <1>2 DEF StoreCache

LEMMA TypeBegins ==
  ASSUME TypeOK, NEW c \in Calls, Start(c) \/ QuestionMisses(c) \/ Begin(c)
  PROVE  TypeOK'
<1>1. CASE Start(c)
  <2>1. PICK r \in Requests :
          /\ request' = [request EXCEPT ![c] = r]
          /\ Goto(c, IF r.kind = "lookup" /\ r.cached THEN "question" ELSE "begin")
          /\ IF r.cached /\ ~r.checked /\ ~r.loops THEN UNCHANGED history ELSE Disturb
    BY <1>1, Zenon DEF Start
  <2>2. pc' \in [Calls -> Points]
    BY <2>1 DEF TypeOK, Goto, Points
  <2>3. request' \in [Calls -> AllRequests]
    BY <2>1, RequestsAssumption DEF TypeOK
  <2>4. calm' \in BOOLEAN /\ asked' \in 0..2
    <3>1. UNCHANGED history \/ Disturb
      BY <2>1
    <3> QED BY <3>1, TypeDisturb DEF TypeOK, history
  <2>5. NewCacheKey(c) /\ UNCHANGED <<envVars, cacheVars, cacheLock, refreshVars, cond, storeKey>>
    BY <1>1 DEF Start
  <2> QED BY <2>2, <2>3, <2>4, <2>5, TypeNewKey DEF TypeOK, envVars, cacheVars, refreshVars
<1>2. CASE QuestionMisses(c)
  <2>1. pc' \in [Calls -> Points]
    BY <1>2 DEF QuestionMisses, TypeOK, Goto, Points
  <2>2. request' \in [Calls -> AllRequests]
    BY <1>2, TypeRequest, Zenon DEF QuestionMisses
  <2>3. UNCHANGED <<envVars, cacheVars, cacheLock, refreshVars, key, cond, storeKey, since, history>>
    BY <1>2 DEF QuestionMisses
  <2> QED BY <2>1, <2>2, <2>3 DEF TypeOK, envVars, cacheVars, refreshVars, history
<1>3. CASE Begin(c)
  <2>1. pc' \in [Calls -> Points]
    BY <1>3 DEF Begin, TypeOK, Goto, Points
  <2>2. NewCacheKey(c)
        /\ UNCHANGED <<envVars, cacheVars, cacheLock, refreshVars, request, cond, storeKey, history>>
    BY <1>3 DEF Begin
  <2> QED BY <2>1, <2>2, TypeNewKey DEF TypeOK, envVars, cacheVars, refreshVars, history
<1> QED BY <1>1, <1>2, <1>3

LEMMA TypeWaits ==
  ASSUME TypeOK, NEW c \in Calls, LoadOrStore(c) \/ LoadMisses(c) \/ Woken(c)
  PROVE  TypeOK'
<1>1. CASE LoadOrStore(c)
  <2>1. pc' \in [Calls -> Points]
    BY <1>1 DEF LoadOrStore, TypeOK, Goto, Points
  <2>2. cacheLock' \in [Envs -> Calls \cup {None}]
    BY <1>1 DEF LoadOrStore, TypeOK
  <2>3. cond' \in [Calls -> Calls \cup {None, Closed}]
    BY <1>1 DEF LoadOrStore, TypeOK
  <2>4. UNCHANGED <<envVars, cacheVars, refreshVars, request, key, storeKey, since, history>>
    BY <1>1 DEF LoadOrStore
  <2> QED BY <2>1, <2>2, <2>3, <2>4 DEF TypeOK, envVars, cacheVars, refreshVars, history
<1>2. CASE LoadMisses(c)
  <2>1. pc' \in [Calls -> Points]
    BY <1>2 DEF LoadMisses, TypeOK, Goto, Points
  <2>2. request' \in [Calls -> AllRequests]
    <3>1. UNCHANGED request \/ request' = [request EXCEPT ![c].kind = "exchange"]
      BY <1>2, Zenon DEF LoadMisses
    <3>2. [request EXCEPT ![c].kind = "exchange"] \in [Calls -> AllRequests]
      BY TypeRequest, Zenon
    <3>3. request \in [Calls -> AllRequests]
      BY DEF TypeOK
    <3> QED BY ONLY <3>1, <3>2, <3>3, Zenon
  <2>3. cond' \in [Calls -> Calls \cup {None, Closed}]
    BY <1>2 DEF LoadMisses, TypeOK
  <2>4. UNCHANGED <<envVars, cacheVars, cacheLock, refreshVars, key, storeKey, since, history>>
    BY <1>2 DEF LoadMisses
  <2> QED BY <2>1, <2>2, <2>3, <2>4 DEF TypeOK, envVars, cacheVars, refreshVars, history
<1>3. CASE Woken(c)
  <2>1. pc' \in [Calls -> Points]
    BY <1>3 DEF Woken, TypeOK, Goto, Points
  <2>2. cond' \in [Calls -> Calls \cup {None, Closed}]
    BY <1>3 DEF Woken, TypeOK
  <2>3. NewCacheKey(c)
        /\ UNCHANGED <<envVars, cacheVars, cacheLock, refreshVars, request, storeKey, history>>
    BY <1>3 DEF Woken
  <2> QED BY <2>1, <2>2, <2>3, TypeNewKey DEF TypeOK, envVars, cacheVars, refreshVars, history
<1> QED BY <1>1, <1>2, <1>3

LEMMA TypeReturns ==
  ASSUME TypeOK, NEW c \in Calls, ReturnCached(c) \/ ReturnEarly(c) \/ Refused(c) \/ ExchangeUnstored(c) \/ Store(c)
  PROVE  TypeOK'
<1>1. Return(c) /\ UNCHANGED envVars
  BY Zenon DEF ReturnCached, ReturnEarly, Refused, ExchangeUnstored, Store
<1>2. CASE ReturnCached(c)
  <2>1. refresh' \in [Envs -> {"none", "exchange", "store"}]
    BY <1>2 DEF ReturnCached, BackgroundRefresh, TypeOK
  <2>2. UNCHANGED <<envVars, cacheVars, refreshKey, history>>
    BY <1>2 DEF ReturnCached
  <2> QED BY <1>1, <2>1, <2>2, TypeReturn DEF TypeOK, envVars, cacheVars, history
<1>3. CASE ReturnEarly(c) \/ Refused(c)
  <2>1. UNCHANGED <<envVars, cacheVars, refreshVars, history>>
    BY <1>3 DEF ReturnEarly, Refused
  <2> QED BY <1>1, <2>1, TypeReturn DEF TypeOK, envVars, cacheVars, refreshVars, history
<1>4. CASE ExchangeUnstored(c)
  <2>1. rdrc' \in BOOLEAN
    BY <1>4, Zenon DEF ExchangeUnstored, TypeOK
  <2>2. Disturb /\ UNCHANGED <<envVars, cache, refreshVars>>
    BY <1>4 DEF ExchangeUnstored
  <2> QED BY <1>1, <2>1, <2>2, TypeReturn, TypeDisturb DEF TypeOK, envVars, refreshVars
<1>5. CASE Store(c)
  <2>1. storeKey[c] \in Envs /\ key[c] \in Envs
    BY DEF TypeOK
  <2>2. StoreCache(storeKey[c], key[c]) /\ UNCHANGED <<envVars, rdrc, refreshVars>>
    BY <1>5 DEF Store
  <2>3. /\ cache' \in [Envs -> [age : {"none", "fresh", "stale"}, began : Envs]]
        /\ calm' \in BOOLEAN /\ asked' \in 0..2
    BY <2>1, <2>2, TypeStoreCache
  <2> QED BY <1>1, <2>2, <2>3, TypeReturn DEF TypeOK, envVars, refreshVars
<1> QED BY <1>2, <1>3, <1>4, <1>5

LEMMA TypeExchanges ==
  ASSUME TypeOK, NEW c \in Calls, Ready(c) \/ ExchangeStorable(c)
  PROVE  TypeOK'
<1>1. CASE Ready(c)
  <2>1. pc' \in [Calls -> Points]
    BY <1>1 DEF Ready, TypeOK, Goto, Points
  <2>2. request' \in [Calls -> AllRequests]
    BY <1>1, TypeRequest, Zenon DEF Ready
  <2>3. since' \in [Calls -> SUBSET Envs] /\ asked' \in 0..2
    BY <1>1 DEF Ready, TypeOK
  <2>4. UNCHANGED <<envVars, cacheVars, cacheLock, refreshVars, key, cond, storeKey, calm>>
    BY <1>1 DEF Ready
  <2> QED BY <2>1, <2>2, <2>3, <2>4 DEF TypeOK, envVars, cacheVars, refreshVars
<1>2. CASE ExchangeStorable(c)
  <2>1. pc' \in [Calls -> Points]
    BY <1>2 DEF ExchangeStorable, TypeOK, Goto, Points
  <2>2. storeKey' \in [Calls -> Envs]
    BY <1>2 DEF ExchangeStorable, TypeOK
  <2>3. UNCHANGED <<envVars, cacheVars, cacheLock, refreshVars, request, key, cond, since, history>>
    BY <1>2 DEF ExchangeStorable
  <2> QED BY <2>1, <2>2, <2>3 DEF TypeOK, envVars, cacheVars, refreshVars, history
<1> QED BY <1>1, <1>2

LEMMA TypeRefresh ==
  ASSUME TypeOK, NEW e \in Envs, RefreshStep(e)
  PROVE  TypeOK'
<1>1. refresh' \in [Envs -> {"none", "exchange", "store"}] /\ refreshKey' \in [Envs -> Envs]
  <2>1. CASE RefreshUnstored(e) \/ RefreshStore(e)
    <3>1. RefreshEnds(e)
      BY <2>1, Zenon DEF RefreshUnstored, RefreshStore
    <3> QED BY <3>1, Numbers DEF RefreshEnds, TypeOK
  <2>2. CASE RefreshStorable(e)
    BY <2>2 DEF RefreshStorable, TypeOK
  <2> QED BY <2>1, <2>2 DEF RefreshStep
<1>2. CASE RefreshUnstored(e) \/ RefreshStorable(e)
  <2>1. rdrc' \in BOOLEAN
    BY <1>2, Zenon DEF RefreshUnstored, RefreshStorable, cacheVars, TypeOK
  <2>2. UNCHANGED <<envVars, cache, cacheLock, callVars, history>>
    BY <1>2, Zenon DEF RefreshUnstored, RefreshStorable, cacheVars
  <2> QED BY <1>1, <2>1, <2>2 DEF TypeOK, envVars, callVars, history
<1>3. CASE RefreshStore(e)
  <2>1. refreshKey[e] \in Envs
    BY DEF TypeOK
  <2>2. StoreCache(refreshKey[e], e) /\ UNCHANGED <<envVars, rdrc, cacheLock, callVars>>
    BY <1>3 DEF RefreshStore
  <2>3. /\ cache' \in [Envs -> [age : {"none", "fresh", "stale"}, began : Envs]]
        /\ calm' \in BOOLEAN /\ asked' \in 0..2
    BY <2>1, <2>2, TypeStoreCache
  <2> QED BY <1>1, <2>2, <2>3 DEF TypeOK, envVars, callVars
<1> QED BY <1>2, <1>3 DEF RefreshStep

LEMMA TypeWorld ==
  ASSUME TypeOK, (\E e \in Envs : Ages(e)) \/ ClearCache \/ NetworkChanges
  PROVE  TypeOK'
<1>1. Absent \in [age : {"none", "fresh", "stale"}, began : Envs]
  BY Numbers DEF Absent
<1>2. calm' \in BOOLEAN /\ asked' \in 0..2
  BY TypeDisturb DEF Ages, ClearCache, NetworkChanges
<1>3. CASE (\E e \in Envs : Ages(e)) \/ ClearCache
  <2>1. cache' \in [Envs -> [age : {"none", "fresh", "stale"}, began : Envs]]
    BY <1>1, <1>3 DEF Ages, ClearCache, TypeOK
  <2>2. UNCHANGED <<envVars, rdrc, cacheLock, refreshVars, callVars>>
    BY <1>3 DEF Ages, ClearCache
  <2> QED BY <1>2, <2>1, <2>2 DEF TypeOK, envVars, refreshVars, callVars
<1>4. CASE NetworkChanges
  <2>1. env' \in Envs /\ moves' \in 0..MaxMoves
    BY <1>4, ClientBounds DEF NetworkChanges, TypeOK
  <2>2. since' \in [Calls -> SUBSET Envs]
    BY <1>4, <2>1 DEF NetworkChanges, TypeOK
  <2>3. UNCHANGED <<cacheVars, cacheLock, refreshVars, request, pc, key, cond, storeKey>>
    BY <1>4 DEF NetworkChanges
  <2> QED BY <1>2, <2>1, <2>2, <2>3 DEF TypeOK, cacheVars, refreshVars
<1> QED BY <1>3, <1>4

----------------------------------------------------------------------------
(* Owners. *)

\* A call moves on, and keeps cond if it has stored it.
LEMMA OwnersMove ==
  ASSUME TypeOK, Owners, NEW c \in Calls, NEW p, Goto(c, p), UNCHANGED <<cacheLock, cond>>,
         pc[c] \in Owning /\ cond[c] = None => p \in Owning,
         p \notin {"load", "wait"} => cond[c] = None
  PROVE  Owners'
<1>1. \A d \in Calls : pc'[d] = IF d = c THEN p ELSE pc[d]
  BY DEF TypeOK, Goto
<1>2. cacheLock' = cacheLock /\ cond' = cond
  OBVIOUS
<1>3. \A e \in Envs, d \in Calls : cacheLock'[e] = d => pc'[d] \in Owning /\ cond'[d] = None
  BY <1>1, <1>2 DEF Owners
<1>4. \A d, o \in Calls : cond'[d] = o => \E e \in Envs : cacheLock'[e] = o
  BY <1>2 DEF Owners
<1>5. \A d \in Calls : pc'[d] \notin {"load", "wait"} => cond'[d] = None
  BY <1>1, <1>2 DEF Owners
<1> QED BY <1>3, <1>4, <1>5, Zenon DEF Owners

\* A call that returns takes cond out of cacheLock and closes it for all who wait.
LEMMA OwnersReturn ==
  ASSUME TypeOK, Owners, NEW c \in Calls, Return(c)
  PROVE  Owners'
<1>1. \A d \in Calls : pc'[d] = IF d = c THEN "done" ELSE pc[d]
  BY DEF TypeOK, Return, Goto
<1>2. \A e \in Envs : cacheLock'[e] = IF cacheLock[e] = c THEN None ELSE cacheLock[e]
  BY DEF Return, Release
<1>3. \A d \in Calls : cond'[d] = IF d = c THEN None ELSE IF cond[d] = c THEN Closed ELSE cond[d]
  BY Numbers DEF TypeOK, Return, Release
<1>4. \A e \in Envs, d \in Calls : cacheLock'[e] = d => d # c /\ cacheLock[e] = d
  BY <1>2, Numbers
<1>5. \A e \in Envs, d \in Calls : cacheLock'[e] = d => pc'[d] \in Owning /\ cond'[d] = None
  BY <1>1, <1>3, <1>4, Numbers DEF Owners
<1>6. ASSUME NEW d \in Calls, NEW o \in Calls, cond'[d] = o
      PROVE  \E e \in Envs : cacheLock'[e] = o
  <2>1. cond[d] = o /\ o # c
    BY <1>3, <1>6, Numbers
  <2>2. PICK e \in Envs : cacheLock[e] = o
    BY <2>1 DEF Owners
  <2> QED BY <1>2, <2>1, <2>2
<1>7. ASSUME NEW d \in Calls, pc'[d] \notin {"load", "wait"}
      PROVE  cond'[d] = None
  BY <1>1, <1>3, <1>7, Numbers DEF Owners
<1> QED BY <1>5, <1>6, <1>7, Zenon DEF Owners

LEMMA OwnersLoadOrStore ==
  ASSUME TypeOK, Owners, NEW c \in Calls, LoadOrStore(c)
  PROVE  Owners'
<1>1. \A d \in Calls : pc'[d] = IF d = c THEN "load" ELSE pc[d]
  BY DEF TypeOK, LoadOrStore, Goto
<1>2. key[c] \in Envs /\ pc[c] = "lock"
  BY DEF TypeOK, LoadOrStore
<1>3. \A d \in Calls : cond'[d] = IF d = c THEN cacheLock[key[c]] ELSE cond[d]
  BY DEF TypeOK, LoadOrStore
<1>4. \A e \in Envs : cacheLock'[e] = IF e = key[c] /\ cacheLock[e] = None THEN c ELSE cacheLock[e]
  BY DEF TypeOK, LoadOrStore
<1>5. \A e \in Envs : cacheLock[e] # c
  BY <1>2 DEF Owners, Owning
<1>6. ASSUME NEW e \in Envs, NEW d \in Calls, cacheLock'[e] = d
      PROVE  pc'[d] \in Owning /\ cond'[d] = None
  <2>1. CASE d = c
    BY <1>1, <1>2, <1>3, <1>4, <1>5, <1>6, <2>1 DEF Owning
  <2>2. CASE d # c
    <3>1. cacheLock[e] = d
      BY <1>4, <1>6, <2>2
    <3> QED BY <1>1, <1>3, <2>2, <3>1 DEF Owners
  <2> QED BY <2>1, <2>2
<1>7. \A e \in Envs, o \in Calls : cacheLock[e] = o => cacheLock'[e] = o
  BY <1>4, Numbers
<1>8. \A d, o \in Calls : cond'[d] = o => \E e \in Envs : cacheLock[e] = o
  BY <1>2, <1>3 DEF Owners
<1>9. \A d \in Calls : pc'[d] \notin {"load", "wait"} => cond'[d] = None
  BY <1>1, <1>3 DEF Owners
<1>10. \A d, o \in Calls : cond'[d] = o => \E e \in Envs : cacheLock'[e] = o
  BY <1>7, <1>8, Zenon
<1> QED BY <1>6, <1>9, <1>10, Zenon DEF Owners

\* A call that does not wait, or no longer, has no cond.
LEMMA OwnersUnwait ==
  ASSUME TypeOK, Owners, NEW c \in Calls, NEW p, Goto(c, p), UNCHANGED cacheLock,
         cond' = [cond EXCEPT ![c] = None], cond[c] # None
  PROVE  Owners'
<1>1. \A d \in Calls : pc'[d] = IF d = c THEN p ELSE pc[d]
  BY DEF TypeOK, Goto
<1>2. \A d \in Calls : cond'[d] = IF d = c THEN None ELSE cond[d]
  BY DEF TypeOK
<1>3. \A e \in Envs : cacheLock[e] # c
  BY Zenon DEF Owners
<1>4. \A e \in Envs, d \in Calls : cacheLock'[e] = d => pc'[d] \in Owning /\ cond'[d] = None
  BY <1>1, <1>2, <1>3 DEF Owners
<1>5. \A d, o \in Calls : cond'[d] = o => \E e \in Envs : cacheLock'[e] = o
  BY <1>2, Numbers DEF Owners
<1>6. \A d \in Calls : pc'[d] \notin {"load", "wait"} => cond'[d] = None
  BY <1>1, <1>2 DEF Owners
<1> QED BY <1>4, <1>5, <1>6, Zenon DEF Owners

LEMMA OwnersCall ==
  ASSUME TypeOK, Owners, NEW c \in Calls, Start(c) \/ ReturnEarly(c) \/ CallStep(c)
  PROVE  Owners'
<1>1. CASE Start(c)
  <2>1. PICK p \in {"question", "begin"} : Goto(c, p)
    BY <1>1, Zenon DEF Start
  <2>2. pc[c] = "none" /\ UNCHANGED <<cacheLock, cond>>
    BY <1>1, Zenon DEF Start
  <2>3. cond[c] = None /\ pc[c] \notin Owning
    BY <2>2 DEF Owners, Owning
  <2> QED BY <2>1, <2>2, <2>3, OwnersMove, Zenon
<1>2. CASE ReturnEarly(c) \/ ReturnCached(c) \/ Refused(c) \/ ExchangeUnstored(c) \/ Store(c)
  <2>1. Return(c)
    BY <1>2, Zenon DEF ReturnEarly, ReturnCached, Refused, ExchangeUnstored, Store
  <2> QED BY <2>1, OwnersReturn
<1>3. CASE QuestionMisses(c) \/ Begin(c)
  <2>1. PICK p \in {"begin", "lock", "check"} : Goto(c, p)
    BY <1>3, Zenon DEF QuestionMisses, Begin
  <2>2. pc[c] \in {"question", "begin"} /\ UNCHANGED <<cacheLock, cond>>
    BY <1>3, Zenon DEF QuestionMisses, Begin
  <2>3. cond[c] = None /\ pc[c] \notin Owning
    BY <2>2 DEF Owners, Owning
  <2> QED BY <2>1, <2>2, <2>3, OwnersMove, Zenon
<1>4. CASE LoadOrStore(c)
  BY <1>4, OwnersLoadOrStore
<1>5. CASE LoadMisses(c)
  <2>1. UNCHANGED cacheLock
    BY <1>5, Zenon DEF LoadMisses
  <2>2. CASE cond[c] = None /\ Goto(c, "check") /\ UNCHANGED <<request, cond>>
    <3>1. "check" \in Owning
      BY DEF Owning
    <3> QED BY <2>1, <2>2, <3>1, OwnersMove, Zenon
  <2>3. CASE cond[c] # None /\ request[c].kind # "async" /\ Goto(c, "wait") /\ UNCHANGED <<request, cond>>
    BY <2>1, <2>3, OwnersMove, Zenon
  <2>4. CASE cond[c] # None /\ Goto(c, "begin") /\ cond' = [cond EXCEPT ![c] = None]
    BY <2>1, <2>4, OwnersUnwait, Zenon
  <2> QED BY <1>5, <2>2, <2>3, <2>4, Zenon DEF LoadMisses
<1>6. CASE Woken(c)
  <2>1. Goto(c, "load") /\ cond[c] = Closed /\ cond' = [cond EXCEPT ![c] = None] /\ UNCHANGED cacheLock
    BY <1>6, Zenon DEF Woken
  <2> QED BY <2>1, Numbers, OwnersUnwait, Zenon
<1>7. CASE Ready(c) \/ ExchangeStorable(c)
  <2>1. PICK p \in {"exchange", "store"} : Goto(c, p)
    BY <1>7, Zenon DEF Ready, ExchangeStorable
  <2>2. pc[c] \in {"check", "exchange"} /\ UNCHANGED <<cacheLock, cond>>
    BY <1>7, Zenon DEF Ready, ExchangeStorable
  <2>3. cond[c] = None /\ p \in Owning
    BY <2>1, <2>2 DEF Owners, Owning
  <2> QED BY <2>1, <2>2, <2>3, OwnersMove, Zenon
<1> QED BY <1>1, <1>2, <1>3, <1>4, <1>5, <1>6, <1>7, Zenon DEF CallStep

----------------------------------------------------------------------------
(* Fitting. *)

\* A step of a call leaves the keys of the others alone.
LEMMA FittingCall ==
  ASSUME Fitting, NEW c \in Calls,
         \A d \in Calls \ {c} : /\ pc'[d] = pc[d] /\ key'[d] = key[d]
                                /\ since'[d] = since[d] /\ storeKey'[d] = storeKey[d],
         pc'[c] \in {"question", "lock", "load"} => key'[c] \in since'[c],
         pc'[c] = "store" => key'[c] \in {storeKey'[c], 0},
         \A e \in Envs : cache'[e].began \in {e, 0},
         \A e \in Envs : refresh'[e] = "store" => refresh[e] = "store",
         UNCHANGED refreshKey
  PROVE  Fitting'
<1>1. \A d \in Calls : pc'[d] \in {"question", "lock", "load"} => key'[d] \in since'[d]
  BY DEF Fitting
<1>2. \A d \in Calls : pc'[d] = "store" => key'[d] \in {storeKey'[d], 0}
  BY DEF Fitting
<1>3. \A e \in Envs : refresh'[e] = "store" => e \in {refreshKey'[e], 0}
  BY DEF Fitting
<1> QED BY <1>1, <1>2, <1>3, Zenon DEF Fitting

\* What is stored for an environment fits it.
LEMMA FittingStore ==
  ASSUME TypeOK, Fitting, NEW a \in Envs, NEW b \in {a, 0}, StoreCache(a, b)
  PROVE  \A e \in Envs : cache'[e].began \in {e, 0}
<1>1. CASE cache' = [cache EXCEPT ![a] = [age |-> "fresh", began |-> b]]
  <2>1. \A e \in Envs : cache'[e] = IF e = a THEN [age |-> "fresh", began |-> b] ELSE cache[e]
    BY <1>1 DEF TypeOK
  <2> QED BY <2>1 DEF Fitting
<1>2. CASE UNCHANGED cache
  BY <1>2 DEF Fitting
<1> QED BY <1>1, <1>2 DEF StoreCache

LEMMA FittingReturn ==
  ASSUME TypeOK, Fitting, NEW c \in Calls,
         ReturnEarly(c) \/ ReturnCached(c) \/ Refused(c) \/ ExchangeUnstored(c) \/ Store(c)
  PROVE  Fitting'
<1>1. Return(c) /\ UNCHANGED refreshKey
  BY Zenon DEF ReturnEarly, ReturnCached, Refused, ExchangeUnstored, Store, refreshVars
<1>2. \A d \in Calls \ {c} : /\ pc'[d] = pc[d] /\ key'[d] = key[d]
                             /\ since'[d] = since[d] /\ storeKey'[d] = storeKey[d]
  BY <1>1 DEF Return, Goto, TypeOK
<1>3. pc'[c] = "done"
  BY <1>1 DEF Return, Goto, TypeOK
<1>4. \A e \in Envs : cache'[e].began \in {e, 0}
  <2>1. CASE Store(c)
    <3>1. storeKey[c] \in Envs /\ key[c] \in {storeKey[c], 0} /\ StoreCache(storeKey[c], key[c])
      BY <2>1 DEF Store, Fitting, TypeOK
    <3> QED BY <3>1, FittingStore
  <2>2. CASE ~Store(c)
    <3>1. UNCHANGED cache
      BY <2>2, Zenon DEF ReturnEarly, ReturnCached, Refused, ExchangeUnstored, cacheVars
    <3> QED BY <3>1 DEF Fitting
  <2> QED BY <2>1, <2>2
<1>5. \A e \in Envs : refresh'[e] = "store" => refresh[e] = "store"
  <2>1. CASE ReturnCached(c)
    <3>1. UNCHANGED refresh \/ BackgroundRefresh(key[c])
      BY <2>1, Zenon DEF ReturnCached
    <3>2. refresh \in [Envs -> {"none", "exchange", "store"}]
      BY DEF TypeOK
    <3> QED BY <3>1, <3>2 DEF BackgroundRefresh
  <2>2. CASE ~ReturnCached(c)
    BY <2>2, Zenon DEF ReturnEarly, Store, Refused, ExchangeUnstored, refreshVars
  <2> QED BY <2>1, <2>2
<1> QED BY <1>1, <1>2, <1>3, <1>4, <1>5, FittingCall

LEMMA FittingGoesOn ==
  ASSUME TypeOK, Fitting, NEW c \in Calls,
         \/ Start(c) \/ QuestionMisses(c) \/ Begin(c) \/ LoadOrStore(c) \/ LoadMisses(c)
         \/ Woken(c) \/ Ready(c) \/ ExchangeStorable(c)
  PROVE  Fitting'
<1>1. UNCHANGED <<cache, refresh, refreshKey>>
  BY Zenon DEF Start, QuestionMisses, Begin, LoadOrStore, LoadMisses, Woken, Ready,
               ExchangeStorable, cacheVars, refreshVars
<1>2. /\ \A e \in Envs : cache'[e].began \in {e, 0}
      /\ \A e \in Envs : refresh'[e] = "store" => refresh[e] = "store"
  BY <1>1 DEF Fitting
<1>3. CASE Start(c) \/ Begin(c) \/ Woken(c)
  <2>1. NewCacheKey(c) /\ UNCHANGED storeKey
    BY <1>3, Zenon DEF Start, Begin, Woken
  <2>2. PICK p \in {"question", "begin", "lock", "check", "load"} : Goto(c, p)
    BY <1>3, Zenon DEF Start, Begin, Woken
  <2>3. key'[c] \in since'[c] /\ pc'[c] # "store"
    BY <2>1, <2>2 DEF NewCacheKey, Goto, TypeOK
  <2>4. \A d \in Calls \ {c} : /\ pc'[d] = pc[d] /\ key'[d] = key[d]
                               /\ since'[d] = since[d] /\ storeKey'[d] = storeKey[d]
    BY <2>1, <2>2 DEF NewCacheKey, Goto, TypeOK
  <2> QED BY <1>1, <1>2, <2>3, <2>4, FittingCall
<1>4. CASE QuestionMisses(c) \/ LoadOrStore(c) \/ LoadMisses(c)
  <2>1. UNCHANGED <<key, since, storeKey>>
    BY <1>4, Zenon DEF QuestionMisses, LoadOrStore, LoadMisses
  <2>2. PICK p \in {"begin", "load", "check", "wait"} : Goto(c, p)
    BY <1>4, Zenon DEF QuestionMisses, LoadOrStore, LoadMisses
  <2>3. pc[c] \in {"question", "lock", "load"}
    BY <1>4, Zenon DEF QuestionMisses, LoadOrStore, LoadMisses
  <2>4. key'[c] \in since'[c] /\ pc'[c] # "store"
    BY <2>1, <2>2, <2>3 DEF Goto, TypeOK, Fitting
  <2>5. \A d \in Calls \ {c} : /\ pc'[d] = pc[d] /\ key'[d] = key[d]
                               /\ since'[d] = since[d] /\ storeKey'[d] = storeKey[d]
    BY <2>1, <2>2 DEF Goto, TypeOK
  <2> QED BY <1>1, <1>2, <2>4, <2>5, FittingCall
<1>5. CASE Ready(c)
  <2>1. \A d \in Calls \ {c} : /\ pc'[d] = pc[d] /\ key'[d] = key[d]
                               /\ since'[d] = since[d] /\ storeKey'[d] = storeKey[d]
    BY <1>5 DEF Ready, Goto, TypeOK
  <2>2. pc'[c] = "exchange"
    BY <1>5 DEF Ready, Goto, TypeOK
  <2> QED BY <1>1, <1>2, <2>1, <2>2, FittingCall
<1>6. CASE ExchangeStorable(c)
  <2>1. \A d \in Calls \ {c} : /\ pc'[d] = pc[d] /\ key'[d] = key[d]
                               /\ since'[d] = since[d] /\ storeKey'[d] = storeKey[d]
    BY <1>6 DEF ExchangeStorable, Goto, TypeOK
  <2>2. pc'[c] = "store" /\ key'[c] \in {storeKey'[c], 0}
    BY <1>6 DEF ExchangeStorable, Storable, Goto, TypeOK
  <2> QED BY <1>1, <1>2, <2>1, <2>2, FittingCall
<1> QED BY <1>3, <1>4, <1>5, <1>6

\* The goroutine of a refresh stores what it asked for, under the key of the
\* environment it was in when the answer came.
LEMMA FittingRefresh ==
  ASSUME TypeOK, Fitting, NEW a \in Envs, RefreshStep(a)
  PROVE  Fitting'
<1>1. UNCHANGED <<pc, key, since, storeKey>>
  BY Zenon DEF RefreshStep, RefreshUnstored, RefreshStorable, RefreshStore, callVars
<1>2. \A e \in Envs : cache'[e].began \in {e, 0}
  <2>1. CASE RefreshStore(a)
    <3>1. refreshKey[a] \in Envs /\ a \in {refreshKey[a], 0} /\ StoreCache(refreshKey[a], a)
      BY <2>1 DEF RefreshStore, Fitting, TypeOK
    <3> QED BY <3>1, FittingStore
  <2>2. CASE ~RefreshStore(a)
    <3>1. UNCHANGED cache
      BY <2>2, Zenon DEF RefreshStep, RefreshUnstored, RefreshStorable, cacheVars
    <3> QED BY <3>1 DEF Fitting
  <2> QED BY <2>1, <2>2
<1>3. \A e \in Envs : refresh'[e] = "store" => e \in {refreshKey'[e], 0}
  <2>1. CASE RefreshStorable(a)
    BY <2>1 DEF RefreshStorable, Storable, Fitting, TypeOK
  <2>2. CASE RefreshEnds(a)
    BY <2>2 DEF RefreshEnds, Fitting, TypeOK
  <2> QED BY <2>1, <2>2, Zenon DEF RefreshStep, RefreshUnstored, RefreshStore
<1> QED BY <1>1, <1>2, <1>3, Zenon DEF Fitting

LEMMA FittingWorld ==
  ASSUME TypeOK, Fitting, (\E e \in Envs : Ages(e)) \/ ClearCache \/ NetworkChanges
  PROVE  Fitting'
<1>1. CASE (\E e \in Envs : Ages(e)) \/ ClearCache
  <2>1. UNCHANGED <<pc, key, since, storeKey, refresh, refreshKey>>
    BY <1>1, Zenon DEF Ages, ClearCache, callVars, refreshVars
  <2>2. \A e \in Envs : cache'[e].began \in {cache[e].began, 0}
    BY <1>1 DEF Ages, ClearCache, Absent, TypeOK
  <2>3. \A e \in Envs : cache'[e].began \in {e, 0}
    BY <2>2 DEF Fitting
  <2> QED BY <2>1, <2>3, Zenon DEF Fitting
<1>2. CASE NetworkChanges
  <2>1. UNCHANGED <<cache, pc, key, storeKey, refresh, refreshKey>>
    BY <1>2, Zenon DEF NetworkChanges, cacheVars, refreshVars
  <2>2. \A c \in Calls : since[c] \subseteq since'[c]
    BY <1>2 DEF NetworkChanges
  <2> QED BY <2>1, <2>2 DEF Fitting
<1> QED BY <1>1, <1>2

----------------------------------------------------------------------------
(* CalmInv. *)

\* A request that leaves the client calm.
Calming(r) == r.cached /\ ~r.checked /\ ~r.loops

CalmBody == CalmCalls /\ CalmCache /\ CalmUnanswered /\ CalmAnswered /\ asked <= 1

LEMMA CalmCallsKept ==
  ASSUME CalmCalls, NEW c \in Calls, UNCHANGED env,
         \A d \in Calls \ {c} : pc'[d] = pc[d] /\ request'[d] = request[d] /\ key'[d] = key[d],
         pc'[c] \notin {"none", "done"} => Calming(request'[c]) /\ key'[c] = env
  PROVE  CalmCalls'
BY DEF CalmCalls, Calming

LEMMA CalmCacheKept ==
  ASSUME CalmCache, NEW c \in Calls, UNCHANGED <<env, refresh>>,
         cache'[env].age # "stale",
         \A d \in Calls \ {c} : pc'[d] = pc[d] /\ storeKey'[d] = storeKey[d],
         pc'[c] = "store" => storeKey'[c] = env
  PROVE  CalmCache'
BY DEF CalmCache

\* What loadResponse finds for a call while the client is calm.
LEMMA CalmFinds ==
  ASSUME TypeOK, CalmBody, NEW c \in Calls, pc[c] \notin {"none", "done"}
  PROVE  /\ key[c] = env /\ Calming(request[c])
         /\ cache[env].age \in {"none", "fresh"}
         /\ Usable(c) <=> cache[env].age = "fresh"
<1>1. key[c] = env /\ Calming(request[c])
  BY DEF CalmBody, CalmCalls, Calming
<1>2. cache[env].age \in {"none", "fresh"}
  BY DEF CalmBody, CalmCache, TypeOK
<1> QED BY <1>1, <1>2 DEF Usable

\* A step of a call that is not yet at the cache, and does not come to it.
LEMMA CalmOutside ==
  ASSUME TypeOK, CalmBody, NEW c \in Calls, NEW p \in {"question", "begin", "lock"}, Goto(c, p),
         pc[c] \in {"none", "question", "begin"},
         \A d \in Calls \ {c} : request'[d] = request[d] /\ key'[d] = key[d],
         Calming(request'[c]), key'[c] = env,
         UNCHANGED <<env, cache, refresh, cacheLock, cond, storeKey, asked>>
  PROVE  CalmBody'
<1>1. \A d \in Calls : pc'[d] = IF d = c THEN p ELSE pc[d]
  BY DEF TypeOK, Goto
<1>2. CalmCalls'
  BY <1>1, CalmCallsKept DEF CalmBody
<1>3. CalmCache'
  BY <1>1, CalmCacheKept DEF CalmBody, CalmCache
<1>4. \A d \in Calls : pc'[d] \in Owning <=> pc[d] \in Owning
  BY <1>1 DEF Owning
<1>5. \A d \in Calls : pc'[d] \in Asking <=> pc[d] \in Asking
  BY <1>1 DEF Asking
<1>6. \A d \in Calls : pc'[d] = "check" => pc[d] = "check"
  BY <1>1
<1>7. CalmUnanswered'
  BY <1>4, <1>5 DEF CalmBody, CalmUnanswered
<1>8. CalmAnswered'
  BY <1>5, <1>6 DEF CalmBody, CalmAnswered
<1>9. asked' <= 1
  BY DEF CalmBody
<1> QED BY <1>2, <1>3, <1>7, <1>8, <1>9, Zenon DEF CalmBody

LEMMA CalmBegins ==
  ASSUME TypeOK, CalmBody, NEW c \in Calls, Start(c) \/ QuestionMisses(c) \/ Begin(c), calm'
  PROVE  CalmBody'
<1>1. CASE Start(c)
  <2>1. PICK r \in Requests :
          /\ request' = [request EXCEPT ![c] = r]
          /\ Goto(c, IF r.kind = "lookup" /\ r.cached THEN "question" ELSE "begin")
          /\ IF r.cached /\ ~r.checked /\ ~r.loops THEN UNCHANGED history ELSE Disturb
    BY <1>1, Zenon DEF Start
  <2>2. Calming(r) /\ UNCHANGED asked
    BY <2>1, Zenon DEF Disturb, Calming, history
  <2>3. PICK p \in {"question", "begin", "lock"} : Goto(c, p)
    BY <2>1, Zenon
  <2>4. /\ \A d \in Calls \ {c} : request'[d] = request[d] /\ key'[d] = key[d]
        /\ request'[c] = r /\ key'[c] = env
    BY <1>1, <2>1 DEF Start, NewCacheKey, TypeOK
  <2>5. pc[c] = "none" /\ UNCHANGED <<env, cache, refresh, cacheLock, cond, storeKey>>
    BY <1>1, Zenon DEF Start, envVars, cacheVars, refreshVars
  <2> QED BY <2>2, <2>3, <2>4, <2>5, CalmOutside
<1>2. CASE QuestionMisses(c)
  <2>1. pc[c] = "question" /\ Goto(c, "begin")
        /\ UNCHANGED <<env, cache, refresh, cacheLock, cond, storeKey, asked, key>>
    BY <1>2, Zenon DEF QuestionMisses, envVars, cacheVars, refreshVars, history
  <2>2. key[c] = env /\ Calming(request[c])
    BY <2>1, CalmFinds
  <2>3. (\A d \in Calls \ {c} : request'[d] = request[d]) /\ Calming(request'[c])
    BY <1>2, <2>2 DEF QuestionMisses, Calming, TypeOK, AllRequests
  <2> QED BY <2>1, <2>2, <2>3, CalmOutside
<1>3. CASE Begin(c)
  <2>1. pc[c] = "begin" /\ NewCacheKey(c)
        /\ UNCHANGED <<env, cache, refresh, cacheLock, cond, storeKey, asked, request>>
    BY <1>3, Zenon DEF Begin, envVars, cacheVars, refreshVars, history
  <2>2. Calming(request[c])
    BY <2>1, CalmFinds
  <2>3. Goto(c, "lock")
    BY <1>3, <2>2, Zenon DEF Begin, Calming
  <2>4. (\A d \in Calls \ {c} : key'[d] = key[d]) /\ key'[c] = env
    BY <2>1 DEF NewCacheKey, TypeOK
  <2> QED BY <2>1, <2>2, <2>3, <2>4, CalmOutside
<1> QED BY <1>1, <1>2, <1>3

LEMMA CalmLoadOrStore ==
  ASSUME TypeOK, CalmBody, NEW c \in Calls, LoadOrStore(c)
  PROVE  CalmBody'
<1>1. pc[c] = "lock" /\ Goto(c, "load")
      /\ UNCHANGED <<env, cache, refresh, request, key, storeKey, asked>>
  BY Zenon DEF LoadOrStore, envVars, cacheVars, refreshVars, history
<1>2. \A d \in Calls : pc'[d] = IF d = c THEN "load" ELSE pc[d]
  BY <1>1 DEF TypeOK, Goto
<1>3. key[c] = env /\ Calming(request[c]) /\ env \in Envs
  BY <1>1, CalmFinds DEF TypeOK
<1>4. \A d \in Calls : cond'[d] = IF d = c THEN cacheLock[env] ELSE cond[d]
  BY <1>3 DEF TypeOK, LoadOrStore
<1>5. cacheLock'[env] = IF cacheLock[env] = None THEN c ELSE cacheLock[env]
  BY <1>3 DEF TypeOK, LoadOrStore
<1>6. CalmCalls'
  BY <1>1, <1>2, <1>3, CalmCallsKept DEF CalmBody
<1>7. CalmCache'
  BY <1>1, <1>2, CalmCacheKept DEF CalmBody, CalmCache
<1>8. CalmUnanswered'
  <2> SUFFICES ASSUME cache[env].age = "none"
               PROVE  /\ \A d \in Calls : cond'[d] # Closed
                      /\ \A d \in Calls : pc'[d] \in Owning /\ cond'[d] = None => cacheLock'[env] = d
                      /\ asked = 1 => \E d \in Calls : pc'[d] \in Asking
    BY <1>1 DEF CalmUnanswered
  <2>1. cacheLock[env] \in Calls \cup {None}
    BY <1>3 DEF TypeOK
  <2>2. \A d \in Calls : cond'[d] # Closed
    BY <1>4, <2>1, Numbers DEF CalmBody, CalmUnanswered
  <2>3. \A d \in Calls : pc'[d] \in Owning /\ cond'[d] = None => cacheLock'[env] = d
    BY <1>2, <1>4, <1>5, Numbers DEF CalmBody, CalmUnanswered
  <2>4. asked = 1 => \E d \in Calls : pc'[d] \in Asking
    BY <1>1, <1>2 DEF CalmBody, CalmUnanswered, Asking
  <2> QED BY <2>2, <2>3, <2>4
<1>9. CalmAnswered'
  BY <1>1, <1>2 DEF CalmBody, CalmAnswered, Asking
<1> QED BY <1>1, <1>6, <1>7, <1>8, <1>9, Zenon DEF CalmBody

\* The call that finds nothing in the cache, and goes on without waiting, is in cacheLock.
LEMMA CalmLoadMisses ==
  ASSUME TypeOK, CalmBody, NEW c \in Calls, LoadMisses(c)
  PROVE  CalmBody'
<1>1. pc[c] = "load" /\ ~Usable(c)
      /\ UNCHANGED <<env, cache, cacheLock, refresh, key, storeKey, asked>>
  BY Zenon DEF LoadMisses, envVars, cacheVars, refreshVars, history
<1>2. key[c] = env /\ Calming(request[c]) /\ cache[env].age = "none"
  BY <1>1, CalmFinds
<1>3. (\A d \in Calls \ {c} : request'[d] = request[d]) /\ Calming(request'[c])
  <2>1. UNCHANGED request \/ request' = [request EXCEPT ![c].kind = "exchange"]
    BY Zenon DEF LoadMisses
  <2>2. request \in [Calls -> AllRequests]
    BY DEF TypeOK
  <2>3. CASE UNCHANGED request
    BY <1>2, <2>3
  <2>4. CASE request' = [request EXCEPT ![c].kind = "exchange"]
    BY ONLY <1>2, <2>2, <2>4, c \in Calls DEF Calming, AllRequests
  <2> QED BY <2>1, <2>3, <2>4, Zenon
<1>4. PICK p \in {"check", "wait", "begin"} :
        /\ Goto(c, p) /\ (p = "check" => cond[c] = None)
        /\ UNCHANGED cond \/ cond' = [cond EXCEPT ![c] = None]
  BY Zenon DEF LoadMisses
<1>5. \A d \in Calls : pc'[d] = IF d = c THEN p ELSE pc[d]
  BY <1>4 DEF TypeOK, Goto
<1>6. (\A d \in Calls \ {c} : cond'[d] = cond[d]) /\ cond'[c] \in {cond[c], None}
  BY <1>4 DEF TypeOK
<1>7. CalmCalls'
  BY <1>1, <1>2, <1>3, <1>5, CalmCallsKept DEF CalmBody
<1>8. CalmCache'
  BY <1>1, <1>5, CalmCacheKept DEF CalmBody, CalmCache
<1>9. \A d \in Calls : cond'[d] # Closed
  BY <1>2, <1>6, Numbers DEF CalmBody, CalmUnanswered
<1>10. \A d \in Calls : pc'[d] \in Owning /\ cond'[d] = None => cacheLock[env] = d
  BY <1>1, <1>2, <1>4, <1>5, <1>6 DEF CalmBody, CalmUnanswered, Owning
<1>11. asked = 1 => \E d \in Calls : pc'[d] \in Asking
  BY <1>1, <1>2, <1>5 DEF CalmBody, CalmUnanswered, Asking
<1>12. CalmUnanswered'
  BY <1>1, <1>9, <1>10, <1>11 DEF CalmUnanswered
<1>13. CalmAnswered'
  BY <1>1, <1>2 DEF CalmAnswered
<1> QED BY <1>1, <1>7, <1>8, <1>12, <1>13, Zenon DEF CalmBody

\* A cond is only closed once the answer is in the cache.
LEMMA CalmWoken ==
  ASSUME TypeOK, CalmBody, NEW c \in Calls, Woken(c)
  PROVE  CalmBody'
<1>1. pc[c] = "wait" /\ cond[c] = Closed /\ Goto(c, "load") /\ NewCacheKey(c)
      /\ UNCHANGED <<env, cache, cacheLock, refresh, request, storeKey, asked>>
  BY Zenon DEF Woken, envVars, cacheVars, refreshVars, history
<1>2. Calming(request[c]) /\ cache[env].age = "fresh"
  BY <1>1, CalmFinds DEF CalmBody, CalmUnanswered
<1>3. \A d \in Calls : pc'[d] = IF d = c THEN "load" ELSE pc[d]
  BY <1>1 DEF TypeOK, Goto
<1>4. (\A d \in Calls \ {c} : key'[d] = key[d]) /\ key'[c] = env
  BY <1>1 DEF NewCacheKey, TypeOK
<1>5. CalmCalls'
  BY <1>1, <1>2, <1>3, <1>4, CalmCallsKept DEF CalmBody
<1>6. CalmCache'
  BY <1>1, <1>3, CalmCacheKept DEF CalmBody, CalmCache
<1>7. CalmUnanswered'
  BY <1>1, <1>2 DEF CalmUnanswered
<1>8. CalmAnswered'
  BY <1>1, <1>3 DEF CalmBody, CalmAnswered, Asking
<1> QED BY <1>1, <1>5, <1>6, <1>7, <1>8, Zenon DEF CalmBody

\* The exchange that starts is the first: an earlier one would still be in cacheLock.
LEMMA CalmReady ==
  ASSUME TypeOK, Owners, CalmBody, NEW c \in Calls, Ready(c), calm
  PROVE  CalmBody'
<1>1. pc[c] = "check" /\ Goto(c, "exchange")
      /\ UNCHANGED <<env, cache, cacheLock, refresh, key, cond, storeKey>>
  BY Zenon DEF Ready, envVars, cacheVars, refreshVars
<1>2. key[c] = env /\ Calming(request[c]) /\ cache[env].age = "none"
  BY <1>1, CalmFinds DEF CalmBody, CalmAnswered
<1>3. (\A d \in Calls \ {c} : request'[d] = request[d]) /\ Calming(request'[c])
  BY <1>2 DEF Ready, Calming, TypeOK, AllRequests
<1>4. \A d \in Calls : pc'[d] = IF d = c THEN "exchange" ELSE pc[d]
  BY <1>1 DEF TypeOK, Goto
<1>5. \A d \in Calls : pc[d] \in {"check", "exchange", "store"} => cacheLock[env] = d
  BY <1>2 DEF CalmBody, CalmUnanswered, Owners, Owning
<1>6. asked = 0
  <2>1. \A d \in Calls : pc[d] \notin Asking
    BY <1>1, <1>5 DEF Asking
  <2>2. asked # 1
    BY <1>2, <2>1, Zenon DEF CalmBody, CalmUnanswered
  <2> QED BY <2>2 DEF CalmBody, TypeOK
<1>7. asked' = 1
  BY <1>6 DEF Ready
<1>8. CalmCalls'
  BY <1>1, <1>2, <1>3, <1>4, CalmCallsKept DEF CalmBody
<1>9. CalmCache'
  BY <1>1, <1>4, CalmCacheKept DEF CalmBody, CalmCache
<1>10. CalmUnanswered'
  BY <1>1, <1>2, <1>4 DEF CalmBody, CalmUnanswered, Owning, Asking
<1>11. CalmAnswered'
  BY <1>1, <1>2 DEF CalmAnswered
<1>12. asked' <= 1
  BY <1>7
<1> QED BY <1>8, <1>9, <1>10, <1>11, <1>12, Zenon DEF CalmBody

LEMMA CalmExchangeStorable ==
  ASSUME TypeOK, CalmBody, NEW c \in Calls, ExchangeStorable(c)
  PROVE  CalmBody'
<1>1. pc[c] = "exchange" /\ Goto(c, "store")
      /\ UNCHANGED <<env, cache, cacheLock, refresh, request, key, cond, asked>>
  BY Zenon DEF ExchangeStorable, envVars, cacheVars, refreshVars, history
<1>2. key[c] = env /\ Calming(request[c]) /\ cache[env].age = "none"
  BY <1>1, CalmFinds DEF CalmBody, CalmAnswered, Asking
<1>3. \A d \in Calls : pc'[d] = IF d = c THEN "store" ELSE pc[d]
  BY <1>1 DEF TypeOK, Goto
<1>4. (\A d \in Calls \ {c} : storeKey'[d] = storeKey[d]) /\ storeKey'[c] = env
  BY DEF ExchangeStorable, TypeOK
<1>5. CalmCalls'
  BY <1>1, <1>2, <1>3, CalmCallsKept DEF CalmBody
<1>6. CalmCache'
  BY <1>1, <1>3, <1>4, CalmCacheKept DEF CalmBody, CalmCache
<1>7. CalmUnanswered'
  BY <1>1, <1>2, <1>3 DEF CalmBody, CalmUnanswered, Owning, Asking
<1>8. CalmAnswered'
  BY <1>1, <1>2 DEF CalmAnswered
<1> QED BY <1>1, <1>5, <1>6, <1>7, <1>8, Zenon DEF CalmBody

\* What a return changes: the locals of the call, and cond for those that waited for it.
LEMMA ReturnedLocals ==
  ASSUME TypeOK, NEW c \in Calls, Return(c)
  PROVE  /\ \A d \in Calls \ {c} : /\ pc'[d] = pc[d] /\ request'[d] = request[d]
                                   /\ key'[d] = key[d] /\ storeKey'[d] = storeKey[d]
         /\ pc'[c] = "done"
BY DEF TypeOK, Return, Goto

LEMMA ReturnedConds ==
  ASSUME TypeOK, NEW c \in Calls, Return(c)
  PROVE  /\ \A d \in Calls \ {c} : cond'[d] = IF cond[d] = c THEN Closed ELSE cond[d]
         /\ cond'[c] = None
         /\ \A e \in Envs : cacheLock'[e] = IF cacheLock[e] = c THEN None ELSE cacheLock[e]
<1>1. /\ \A d \in Calls \ {c} : cond'[d] = IF cond[d] = c THEN Closed ELSE cond[d]
      /\ cond'[c] = None
  BY Numbers DEF TypeOK, Return, Release
<1>2. \A e \in Envs : cacheLock'[e] = IF cacheLock[e] = c THEN None ELSE cacheLock[e]
  BY DEF Return, Release
<1> QED BY <1>1, <1>2

\* With the answer in the cache, a call may return.
LEMMA CalmReturnAnswered ==
  ASSUME TypeOK, CalmBody, NEW c \in Calls, Return(c), UNCHANGED <<env, refresh, asked>>,
         cache'[env].age = "fresh",
         \A d \in Calls \ {c} : pc[d] \notin Asking \cup {"check"}
  PROVE  CalmBody'
<1>0. CalmCalls /\ CalmCache
  BY Zenon DEF CalmBody
<1>1. /\ \A d \in Calls \ {c} : /\ pc'[d] = pc[d] /\ request'[d] = request[d]
                                /\ key'[d] = key[d] /\ storeKey'[d] = storeKey[d]
      /\ pc'[c] = "done"
  BY ReturnedLocals
<1>2. UNCHANGED <<env, refresh, asked>> /\ cache'[env].age = "fresh" /\ c \in Calls
  OBVIOUS
<1>3. CalmCalls'
  BY ONLY <1>0, <1>1, <1>2, CalmCallsKept
<1>4. CalmCache'
  BY ONLY <1>0, <1>1, <1>2, CalmCacheKept
<1>5. CalmUnanswered'
  BY ONLY <1>2 DEF CalmUnanswered
<1>6. CalmAnswered'
  BY <1>1 DEF CalmAnswered, Asking
<1>7. asked' <= 1
  BY <1>2 DEF CalmBody
<1> QED BY <1>3, <1>4, <1>5, <1>6, <1>7, Zenon DEF CalmBody

LEMMA CalmStore ==
  ASSUME TypeOK, Owners, CalmBody, NEW c \in Calls, Store(c), calm'
  PROVE  CalmBody'
<1>1. pc[c] = "store" /\ Return(c) /\ StoreCache(storeKey[c], key[c]) /\ UNCHANGED <<env, refresh>>
  BY Zenon DEF Store, envVars, refreshVars
<1>2. storeKey[c] = env /\ env \in Envs
  BY <1>1 DEF CalmBody, CalmCache, TypeOK
<1>3. cache' = [cache EXCEPT ![env] = [age |-> "fresh", began |-> key[c]]] /\ UNCHANGED asked
  BY <1>1, <1>2, Zenon DEF StoreCache, Disturb, history
<1>4. cache'[env].age = "fresh"
  BY <1>2, <1>3 DEF TypeOK
<1>5. cache[env].age = "none"
  BY <1>1, CalmFinds DEF CalmBody, CalmAnswered, Asking
<1>6. \A d \in Calls : pc[d] \in {"check", "exchange", "store"} => cacheLock[env] = d
  BY <1>5 DEF CalmBody, CalmUnanswered, Owners, Owning
<1>7. \A d \in Calls \ {c} : pc[d] \notin Asking \cup {"check"}
  BY <1>1, <1>6 DEF Asking
<1> QED BY <1>1, <1>3, <1>4, <1>7, CalmReturnAnswered

LEMMA CalmReturnCached ==
  ASSUME TypeOK, CalmBody, NEW c \in Calls, ReturnCached(c)
  PROVE  CalmBody'
<1>1. pc[c] \in {"question", "load"} /\ Usable(c) /\ Return(c) /\ UNCHANGED <<env, cache, asked>>
  BY Zenon DEF ReturnCached, envVars, cacheVars, history
<1>2. key[c] = env /\ cache[env].age = "fresh"
  BY <1>1, CalmFinds
<1>3. UNCHANGED refresh
  BY <1>2 DEF ReturnCached
<1>4. \A d \in Calls \ {c} : pc[d] \notin Asking \cup {"check"}
  BY <1>2 DEF CalmBody, CalmAnswered
<1> QED BY <1>1, <1>2, <1>3, <1>4, CalmReturnAnswered

\* A call that gives up has no cond, and nobody waits for it.
LEMMA CalmReturnEarly ==
  ASSUME TypeOK, Owners, CalmBody, NEW c \in Calls, ReturnEarly(c)
  PROVE  CalmBody'
<1>0. CalmCalls /\ CalmCache /\ cache[env].age # "stale"
  BY Zenon DEF CalmBody, CalmCache
<1>1. pc[c] \in {"begin", "wait"} /\ Return(c) /\ UNCHANGED <<env, cache, refresh, asked>>
  BY Zenon DEF ReturnEarly, envVars, cacheVars, refreshVars, history
<1>2. \A e \in Envs : cacheLock[e] # c
  BY <1>1 DEF Owners, Owning
<1>3. \A d \in Calls : cond[d] # c
  BY <1>2 DEF Owners
<1>4. \A d \in Calls \ {c} : pc'[d] = pc[d] /\ cond'[d] = cond[d]
  BY <1>1, <1>3, ReturnedLocals, ReturnedConds
<1>5. pc'[c] = "done" /\ cond'[c] = None /\ cacheLock'[env] = cacheLock[env]
  <2>1. env \in Envs
    BY DEF TypeOK
  <2>2. pc'[c] = "done" /\ cond'[c] = None
    BY <1>1, ReturnedLocals, ReturnedConds, Zenon
  <2>3. \A e \in Envs : cacheLock'[e] = IF cacheLock[e] = c THEN None ELSE cacheLock[e]
    BY <1>1, ReturnedConds, Zenon
  <2> QED BY ONLY <1>2, <2>1, <2>2, <2>3
<1>6. CalmCalls' /\ CalmCache'
  <2>1. /\ \A d \in Calls \ {c} : /\ pc'[d] = pc[d] /\ request'[d] = request[d]
                                  /\ key'[d] = key[d] /\ storeKey'[d] = storeKey[d]
        /\ pc'[c] = "done"
    BY <1>1, ReturnedLocals
  <2>2. UNCHANGED <<env, cache, refresh>> /\ c \in Calls
    BY <1>1
  <2>3. CalmCalls'
    BY ONLY <1>0, <2>1, <2>2, CalmCallsKept
  <2>4. CalmCache'
    BY ONLY <1>0, <2>1, <2>2, CalmCacheKept
  <2> QED BY <2>3, <2>4
<1>7. CalmUnanswered'
  <2> SUFFICES ASSUME cache[env].age = "none"
               PROVE  /\ \A d \in Calls : cond'[d] # Closed
                      /\ \A d \in Calls : pc'[d] \in Owning /\ cond'[d] = None => cacheLock'[env] = d
                      /\ asked = 1 => \E d \in Calls : pc'[d] \in Asking
    BY <1>1 DEF CalmUnanswered
  <2>1. \A d \in Calls : cond'[d] # Closed
    BY <1>4, <1>5, Numbers DEF CalmBody, CalmUnanswered
  <2>2. \A d \in Calls : pc'[d] \in Owning /\ cond'[d] = None => cacheLock'[env] = d
    BY <1>4, <1>5 DEF CalmBody, CalmUnanswered, Owning
  <2>3. asked = 1 => \E d \in Calls : pc'[d] \in Asking
    BY <1>1, <1>4 DEF CalmBody, CalmUnanswered, Asking
  <2> QED BY <2>1, <2>2, <2>3
<1>8. CalmAnswered'
  BY <1>1, <1>4, <1>5 DEF CalmBody, CalmAnswered, Asking
<1> QED BY <1>1, <1>6, <1>7, <1>8, Zenon DEF CalmBody

LEMMA CalmCall ==
  ASSUME IInv, NEW c \in Calls, Start(c) \/ ReturnEarly(c) \/ CallStep(c)
  PROVE  CalmInv'
<1> SUFFICES ASSUME calm' PROVE CalmBody'
  BY DEF CalmInv, CalmBody
<1>1. calm
  <2>1. UNCHANGED calm \/ Disturb
    BY Zenon DEF CallStep, Start, ReturnEarly, ReturnCached, QuestionMisses, Begin, LoadOrStore,
       LoadMisses, Woken, Refused, Ready, ExchangeUnstored, ExchangeStorable, Store, StoreCache, history
  <2> QED BY <2>1, Zenon DEF Disturb
<1>2. TypeOK /\ Owners /\ CalmBody
  BY <1>1, Zenon DEF IInv, CalmInv, CalmBody
<1>3. CASE Start(c) \/ QuestionMisses(c) \/ Begin(c)
  BY <1>2, <1>3, CalmBegins
<1>4. CASE ReturnEarly(c) \/ ReturnCached(c) \/ Store(c)
  BY <1>2, <1>4, CalmReturnEarly, CalmReturnCached, CalmStore
<1>5. CASE LoadOrStore(c) \/ LoadMisses(c) \/ Woken(c)
  BY <1>2, <1>5, CalmLoadOrStore, CalmLoadMisses, CalmWoken
<1>6. CASE Ready(c) \/ ExchangeStorable(c)
  BY <1>1, <1>2, <1>6, CalmReady, CalmExchangeStorable
<1>7. CASE ExchangeUnstored(c)
  BY <1>7, Zenon DEF ExchangeUnstored, Disturb
<1>8. CASE Refused(c)
  <2>1. pc[c] = "check" /\ (request[c].loops \/ request[c].checked)
    BY <1>8, Zenon DEF Refused
  <2>2. Calming(request[c])
    BY <1>2, <2>1, CalmFinds
  <2> QED BY <2>1, <2>2, Zenon DEF Calming
<1> QED BY <1>3, <1>4, <1>5, <1>6, <1>7, <1>8, Zenon DEF CallStep

\* There is no refresh of a client that is calm, and what happens outside disturbs it.
LEMMA CalmOther ==
  ASSUME IInv, \/ \E e \in Envs : RefreshStep(e) \/ Ages(e)
               \/ ClearCache \/ NetworkChanges
  PROVE  CalmInv'
<1> SUFFICES ASSUME calm' PROVE FALSE
  BY DEF CalmInv
<1>1. ~Disturb
  BY Zenon DEF Disturb
<1>2. PICK e \in Envs : RefreshStep(e)
  BY <1>1, Zenon DEF Ages, ClearCache, NetworkChanges
<1>3. calm
  BY <1>1, <1>2, Zenon DEF RefreshStep, RefreshUnstored, RefreshStorable, RefreshStore, StoreCache, history
<1>4. refresh[e] = "none"
  BY <1>2, <1>3, Zenon DEF IInv, CalmInv, CalmCache
<1> QED BY <1>2, <1>4 DEF RefreshStep, RefreshUnstored, RefreshStorable, RefreshStore

----------------------------------------------------------------------------
(* Theorems. *)

LEMMA InitIInv == Init => IInv
<1> SUFFICES ASSUME Init PROVE IInv
  OBVIOUS
<1>1. Absent \in [age : {"none", "fresh", "stale"}, began : Envs] /\ NoRequest \in AllRequests
  BY Numbers DEF Absent, NoRequest, AllRequests
<1>2. calm \in BOOLEAN /\ rdrc \in BOOLEAN
  BY Zenon DEF Init
<1>3. TypeOK
  <2>1. env \in Envs /\ moves \in 0..MaxMoves /\ asked \in 0..2
    BY ClientBounds DEF Init
  <2>2. /\ cache \in [Envs -> [age : {"none", "fresh", "stale"}, began : Envs]]
        /\ cacheLock \in [Envs -> Calls \cup {None}]
        /\ refresh \in [Envs -> {"none", "exchange", "store"}] /\ refreshKey \in [Envs -> Envs]
    BY <1>1, Numbers DEF Init
  <2>3. /\ request \in [Calls -> AllRequests] /\ pc \in [Calls -> Points]
        /\ key \in [Calls -> Envs] /\ cond \in [Calls -> Calls \cup {None, Closed}]
        /\ storeKey \in [Calls -> Envs] /\ since \in [Calls -> SUBSET Envs]
    BY <1>1, Numbers DEF Init, Points
  <2> QED BY <1>2, <2>1, <2>2, <2>3, Zenon DEF TypeOK
<1>4. Owners
  BY Numbers DEF Init, Owners
<1>5. Fitting
  BY DEF Init, Fitting, Absent
<1>6. env \in Envs /\ cache[env].age = "none"
  BY DEF Init, Absent
<1>7. CalmCalls /\ CalmCache /\ CalmAnswered
  BY <1>6 DEF Init, CalmCalls, CalmCache, CalmAnswered
<1>8. CalmUnanswered /\ asked <= 1
  BY <1>6, Numbers DEF Init, CalmUnanswered, Owning
<1> QED BY <1>3, <1>4, <1>5, <1>7, <1>8, Zenon DEF IInv, CalmInv

LEMMA NextIInv == IInv /\ [Next]_vars => IInv'
<1> SUFFICES ASSUME IInv, [Next]_vars PROVE IInv'
  OBVIOUS
<1>0. TypeOK /\ Owners /\ Fitting
  BY Zenon DEF IInv
<1>1. ASSUME NEW c \in Calls, Start(c) \/ ReturnEarly(c) \/ CallStep(c)
      PROVE  IInv'
  <2>1. TypeOK'
    BY <1>0, <1>1, TypeBegins, TypeWaits, TypeReturns, TypeExchanges, Zenon DEF CallStep
  <2>2. Fitting'
    BY <1>0, <1>1, FittingGoesOn, FittingReturn, Zenon DEF CallStep
  <2>3. Owners' /\ CalmInv'
    BY <1>0, <1>1, OwnersCall, CalmCall
  <2> QED BY <2>1, <2>2, <2>3, Zenon DEF IInv
<1>2. ASSUME \/ \E e \in Envs : RefreshStep(e) \/ Ages(e)
             \/ ClearCache \/ NetworkChanges
      PROVE  IInv'
  <2>1. TypeOK' /\ Fitting'
    BY <1>0, <1>2, TypeRefresh, TypeWorld, FittingRefresh, FittingWorld, Zenon
  <2>2. CalmInv'
    BY <1>2, CalmOther
  <2>3. UNCHANGED <<cacheLock, pc, cond>>
    BY <1>2, Zenon DEF RefreshStep, RefreshUnstored, RefreshStorable, RefreshStore, Ages, ClearCache,
       NetworkChanges, callVars
  <2>4. Owners'
    BY <1>0, <2>3, Zenon DEF Owners
  <2> QED BY <2>1, <2>2, <2>4, Zenon DEF IInv
<1>3. CASE UNCHANGED vars
  <2>1. UNCHANGED <<env, moves, cache, rdrc, cacheLock, refresh, refreshKey, request, pc, key, cond,
                    storeKey, since, calm, asked>>
    BY <1>3, Zenon DEF vars, envVars, cacheVars, refreshVars, callVars, history
  <2> QED BY <2>1 DEF IInv, TypeOK, Owners, Fitting, CalmInv, CalmCalls, CalmCache, CalmUnanswered,
                      CalmAnswered, Usable, Envs, Calls, Closed
<1> QED BY <1>1, <1>2, <1>3, Zenon DEF Next

\* The cache, cacheLock and the calls keep the inductive invariant whatever the calls,
\* the refreshes and the network do.
THEOREM ClientInvariance == Spec => []IInv
<1>1. Init => IInv
  BY InitIInv
<1>2. IInv /\ [Next]_vars => IInv'
  BY NextIInv
<1> QED BY <1>1, <1>2, PTL DEF Spec

\* However calls overlap, fail, give up and are woken, a call of beginExchange that
\* waits does so for a cond in cacheLock, of a call that does not wait itself: every
\* way out of Exchange, ExchangeAsync and Lookup that has to release it does.
THEOREM CondIsHeld == Spec => []CondHeld
<1>1. IInv => CondHeld
  <2> SUFFICES ASSUME IInv, NEW c \in Calls, cond[c] \in Calls
               PROVE  /\ \E e \in Envs : cacheLock[e] = cond[c]
                      /\ pc[cond[c]] \in Owning /\ cond[cond[c]] = None
    BY Zenon DEF CondHeld, Owning
  <2>1. PICK e \in Envs : cacheLock[e] = cond[c]
    BY Zenon DEF IInv, Owners
  <2> QED BY <2>1, Zenon DEF IInv, Owners
<1> QED BY <1>1, ClientInvariance, PTL

\* As long as no exchange fails and neither the cache nor the network changes, any
\* number of calls for one question are answered by one exchange.
THEOREM OneExchange == Spec => []Coalesced
<1>1. IInv => Coalesced
  BY Zenon DEF IInv, CalmInv, Coalesced
<1> QED BY <1>1, ClientInvariance, PTL

\* No call returns from the cache what was asked for in a network that has not been
\* present since the call made its key, however late the exchange or the refresh that
\* asked for it comes to storeCache.
THEOREM CachedAnswerFits == Spec => FitsEnvironment
<1>1. IInv => \A c \in Calls : pc[c] \in {"question", "load"} => cache[key[c]].began \in since[c] \cup {0}
  <2> SUFFICES ASSUME IInv, NEW c \in Calls, pc[c] \in {"question", "load"}
               PROVE  cache[key[c]].began \in since[c] \cup {0}
    OBVIOUS
  <2>1. key[c] \in Envs
    BY DEF IInv, TypeOK
  <2>2. cache[key[c]].began \in {key[c], 0} /\ key[c] \in since[c]
    BY <2>1 DEF IInv, Fitting
  <2> QED BY <2>2
<1>2. IInv /\ [Next]_vars => [\A c \in Calls : (pc[c] \in {"question", "load"} /\ pc'[c] = "done") =>
                                cache[key[c]].began \in since[c] \cup {0}]_vars
  BY <1>1, Zenon
<1> QED BY <1>2, ClientInvariance, PTL DEF Spec, FitsEnvironment
=============================================================================
