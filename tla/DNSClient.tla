----------------------------- MODULE DNSClient -----------------------------
(***************************************************************************)
(* Client (dns/client.go): the cache in front of the DNS servers.  Calls   *)
(* that ask the same question of the same server at the same time share    *)
(* one exchange, an expired answer may be served while it is refreshed in  *)
(* the background, and an answer is kept for the network environment it    *)
(* was asked in: the environment is part of the key, and can change while  *)
(* a call is under way.                                                    *)
(*                                                                         *)
(* The model is of one question, server, client subnet and timeout, so     *)
(* that the environment is what is left of a key.  A read of the           *)
(* environment, of the cache or of cacheLock is one step.                  *)
(***************************************************************************)
EXTENDS Naturals

CONSTANTS
  MaxCalls,  \* bound on the calls of Exchange, ExchangeAsync and Lookup
  Requests,  \* what they may ask for, a set of records as in AllRequests
  MaxEnv,    \* bound on the environments; 0 is the hash of an unknown one
  MaxMoves   \* bound on the changes of environment

Calls == 1..MaxCalls  \* in the order they start
None == 0             \* no call
Closed == MaxCalls + 1  \* a channel that is closed
Envs == 0..MaxEnv

AllRequests ==
  [kind : {"exchange", "async", "lookup"},
   cached : BOOLEAN,      \* ~disableCache
   optimistic : BOOLEAN,  \* ~options.DisableOptimisticCache
   checked : BOOLEAN,     \* there is a responseChecker
   loops : BOOLEAN]       \* ctx comes from a query of this server

ASSUME RequestsAssumption == Requests \subseteq AllRequests
ASSUME ClientBounds == MaxCalls \in Nat /\ MaxEnv \in Nat /\ MaxMoves \in Nat

VARIABLES
  env,        \* environmentHash
  moves,      \* changes of env so far
  cache,      \* c.cache by environment: its age, and the environment it was asked in
  cacheLock,  \* c.cacheLock by environment: the call that is to close cond, or None
  rdrc,       \* the rejection is cached in c.rdrc
  refresh,    \* of the goroutine of backgroundRefreshDNS for a key
  refreshKey, \* its storeKey
  request,    \* of a call
  pc,
  key,        \* operation.cacheKey
  cond,       \* None unless "loaded"; the call that is to close it, or Closed
  storeKey,   \* the key of finishCacheKey
  since,      \* history: environments since the call last made its key
  calm,       \* history: nothing failed, expired or changed so far
  asked       \* history: exchanges started while calm, 2 for more than one

envVars == <<env, moves>>
cacheVars == <<cache, rdrc>>
refreshVars == <<refresh, refreshKey>>
callVars == <<request, pc, key, cond, storeKey, since>>
history == <<calm, asked>>
vars == <<envVars, cacheVars, cacheLock, refreshVars, callVars, history>>

Absent == [age |-> "none", began |-> 0]
Points == {"none", "question", "begin", "lock", "load", "wait", "check", "exchange", "store", "done"}

TypeOK ==
  /\ env \in Envs /\ moves \in 0..MaxMoves
  /\ cache \in [Envs -> [age : {"none", "fresh", "stale"}, began : Envs]]
  /\ cacheLock \in [Envs -> Calls \cup {None}]
  /\ rdrc \in BOOLEAN
  /\ refresh \in [Envs -> {"none", "exchange", "store"}] /\ refreshKey \in [Envs -> Envs]
  /\ request \in [Calls -> AllRequests] /\ pc \in [Calls -> Points]
  /\ key \in [Calls -> Envs] /\ cond \in [Calls -> Calls \cup {None, Closed}]
  /\ storeKey \in [Calls -> Envs]
  /\ since \in [Calls -> SUBSET Envs] /\ calm \in BOOLEAN /\ asked \in 0..2

NoRequest ==
  [kind |-> "exchange", cached |-> TRUE, optimistic |-> FALSE, checked |-> FALSE, loops |-> FALSE]

\* Known environments are all alike: the first is 1.
Init ==
  /\ env \in Envs \cap {0, 1} /\ moves = 0
  /\ cache = [e \in Envs |-> Absent] /\ rdrc = FALSE
  /\ cacheLock = [e \in Envs |-> None]
  /\ refresh = [e \in Envs |-> "none"] /\ refreshKey = [e \in Envs |-> 0]
  /\ request = [c \in Calls |-> NoRequest] /\ pc = [c \in Calls |-> "none"]
  /\ key = [c \in Calls |-> 0] /\ cond = [c \in Calls |-> None]
  /\ storeKey = [c \in Calls |-> 0]
  /\ since = [c \in Calls |-> {}] /\ asked = 0 /\ calm = TRUE

Goto(c, point) == pc' = [pc EXCEPT ![c] = point]

\* newCacheKey.
NewCacheKey(c) ==
  /\ key' = [key EXCEPT ![c] = env]
  /\ since' = [since EXCEPT ![c] = {env}]

\* operation.release: nothing unless the call stored cond.  "conds" are the conds of
\* the calls before it.  It deletes the entry and then closes cond; in one step, since
\* a waiter that takes its time to wake up is one whose cond is closed later, and who
\* finds no entry stores a cond of its own either way.
Release(c, conds) ==
  /\ cacheLock' = [e \in Envs |-> IF cacheLock[e] = c THEN None ELSE cacheLock[e]]
  /\ cond' = [w \in Calls |-> IF conds[w] = c THEN Closed ELSE conds[w]]

\* The call returns, or its callback is called.  Its locals are not read again.
Return(c) ==
  /\ Goto(c, "done")
  /\ request' = [request EXCEPT ![c] = NoRequest]
  /\ key' = [key EXCEPT ![c] = 0] /\ storeKey' = [storeKey EXCEPT ![c] = 0]
  /\ since' = [since EXCEPT ![c] = {}]
  /\ Release(c, [cond EXCEPT ![c] = None])

Disturb == calm' = FALSE /\ asked' = 0

----------------------------------------------------------------------------
(* beginExchange. *)

Start(c) ==
  /\ pc[c] = "none" /\ \A d \in 1..(c - 1) : pc[d] # "none"
  /\ \E r \in Requests :
       /\ request' = [request EXCEPT ![c] = r]
       /\ Goto(c, IF r.kind = "lookup" /\ r.cached THEN "question" ELSE "begin")
       /\ IF r.cached /\ ~r.checked /\ ~r.loops THEN UNCHANGED history ELSE Disturb
  /\ NewCacheKey(c)
  /\ UNCHANGED <<envVars, cacheVars, cacheLock, refreshVars, cond, storeKey>>

\* backgroundRefreshDNS starts a goroutine unless there is one for the key.
BackgroundRefresh(e) ==
  refresh' = [refresh EXCEPT ![e] = IF @ = "none" THEN "exchange" ELSE @]

\* What loadResponse finds is used: it is fresh, or stale and the call accepts that.
Usable(c) ==
  \/ cache[key[c]].age = "fresh"
  \/ cache[key[c]].age = "stale" /\ request[c].optimistic

\* The answer in the cache is returned, by questionCache of a Lookup or, once
\* cacheLock is held or found held, by beginExchange.
ReturnCached(c) ==
  /\ pc[c] \in {"question", "load"} /\ Usable(c)
  /\ IF cache[key[c]].age = "stale" THEN BackgroundRefresh(key[c]) ELSE UNCHANGED refresh
  /\ Return(c)
  /\ UNCHANGED <<envVars, cacheVars, refreshKey, history>>

\* questionCache finds nothing, and the Lookup calls Exchange.
QuestionMisses(c) ==
  /\ pc[c] = "question" /\ ~Usable(c)
  /\ Goto(c, "begin")
  /\ request' = [request EXCEPT ![c].kind = "exchange"]
  /\ UNCHANGED <<envVars, cacheVars, cacheLock, refreshVars, key, cond, storeKey, since, history>>

\* ctx is done before the call begins or while it waits, or the question is bad or
\* excluded by the strategy.
ReturnEarly(c) ==
  /\ pc[c] \in {"begin", "wait"}
  /\ Return(c)
  /\ UNCHANGED <<envVars, cacheVars, refreshVars, history>>

Begin(c) ==
  /\ pc[c] = "begin"
  /\ Goto(c, IF request[c].cached THEN "lock" ELSE "check")
  /\ NewCacheKey(c)
  /\ UNCHANGED <<envVars, cacheVars, cacheLock, refreshVars, request, cond, storeKey, history>>

\* cacheLock.LoadOrStore.
LoadOrStore(c) ==
  /\ pc[c] = "lock"
  /\ cond' = [cond EXCEPT ![c] = cacheLock[key[c]]]
  /\ cacheLock' = [cacheLock EXCEPT ![key[c]] = IF @ = None THEN c ELSE @]
  /\ Goto(c, "load")
  /\ UNCHANGED <<envVars, cacheVars, refreshVars, request, key, storeKey, since, history>>

\* Nothing in the cache: the call goes on if it stored cond or has waited already,
\* and otherwise waits.  ExchangeAsync does not wait: a goroutine calls Exchange.
LoadMisses(c) ==
  /\ pc[c] = "load" /\ ~Usable(c)
  /\ \/ cond[c] = None /\ Goto(c, "check") /\ UNCHANGED <<request, cond>>
     \/ cond[c] # None /\ request[c].kind # "async" /\ Goto(c, "wait") /\ UNCHANGED <<request, cond>>
     \/ /\ cond[c] # None /\ request[c].kind = "async" /\ Goto(c, "begin")
        /\ request' = [request EXCEPT ![c].kind = "exchange"]
        /\ cond' = [cond EXCEPT ![c] = None]
  /\ UNCHANGED <<envVars, cacheVars, cacheLock, refreshVars, key, storeKey, since, history>>

\* Mutant: the key is not made again.
WokenOldKey(c) ==
  /\ pc[c] = "wait" /\ cond[c] = Closed
  /\ since' = [since EXCEPT ![c] = {env}]
  /\ cond' = [cond EXCEPT ![c] = None]
  /\ Goto(c, "load")
  /\ UNCHANGED <<envVars, cacheVars, cacheLock, refreshVars, request, key, storeKey, history>>

\* Mutant: the call goes back to waiting.
WokenWaits(c) ==
  /\ pc[c] = "wait" /\ cond[c] = Closed
  /\ UNCHANGED vars

Woken(c) ==
  /\ pc[c] = "wait" /\ cond[c] = Closed
  /\ NewCacheKey(c)
  /\ cond' = [cond EXCEPT ![c] = None]
  /\ Goto(c, "load")
  /\ UNCHANGED <<envVars, cacheVars, cacheLock, refreshVars, request, storeKey, history>>

\* Mutant: cond is not released when the call is refused.
RefusedKeeps(c) ==
  /\ pc[c] = "check"
  /\ request[c].loops \/ (request[c].cached /\ request[c].checked /\ rdrc)
  /\ Goto(c, "done")
  /\ UNCHANGED <<envVars, cacheVars, cacheLock, refreshVars, request, key, cond, storeKey, since, history>>

\* The query is in a loop, or was rejected before.
Refused(c) ==
  /\ pc[c] = "check"
  /\ request[c].loops \/ (request[c].cached /\ request[c].checked /\ rdrc)
  /\ Return(c)
  /\ UNCHANGED <<envVars, cacheVars, refreshVars, history>>

Ready(c) ==
  /\ pc[c] = "check"
  /\ ~request[c].loops /\ ~(request[c].cached /\ request[c].checked /\ rdrc)
  /\ Goto(c, "exchange") /\ since' = [since EXCEPT ![c] = {}]
  /\ request' = [request EXCEPT ![c].kind = "exchange", ![c].optimistic = FALSE]
  /\ asked' = IF ~calm THEN 0 ELSE IF asked = 0 THEN 1 ELSE 2
  /\ UNCHANGED <<envVars, cacheVars, cacheLock, refreshVars, key, cond, storeKey, calm>>

----------------------------------------------------------------------------
(* The exchange, finishExchange and storeCache. *)

\* finishCacheKey of a key with environment e, which becomes env.
Storable(e) == e = env \/ e = 0

\* The transport fails, or its answer is not for the cache: its rcode is an error,
\* responseChecker rejects it (and rdrc remembers it), or the environment has changed.
ExchangeUnstored(c) ==
  /\ pc[c] = "exchange"
  /\ rdrc' \in {rdrc, rdrc \/ (request[c].cached /\ request[c].checked)}
  /\ Return(c) /\ Disturb
  /\ UNCHANGED <<envVars, cache, refreshVars>>

\* Mutant: cond is released before the answer is stored.
ExchangeReleases(c) ==
  /\ pc[c] = "exchange" /\ request[c].cached /\ Storable(key[c])
  /\ storeKey' = [storeKey EXCEPT ![c] = env]
  /\ Goto(c, "store") /\ Release(c, cond)
  /\ UNCHANGED <<envVars, cacheVars, refreshVars, request, key, since, history>>

ExchangeStorable(c) ==
  /\ pc[c] = "exchange" /\ request[c].cached /\ Storable(key[c])
  /\ storeKey' = [storeKey EXCEPT ![c] = env]
  /\ Goto(c, "store")
  /\ UNCHANGED <<envVars, cacheVars, cacheLock, refreshVars, request, key, cond, since, history>>

\* storeCache; nothing is stored if the time to live is 0.
StoreCache(at, began) ==
  \/ cache' = [cache EXCEPT ![at] = [age |-> "fresh", began |-> began]] /\ UNCHANGED history
  \/ UNCHANGED cache /\ Disturb

Store(c) ==
  /\ pc[c] = "store"
  /\ StoreCache(storeKey[c], key[c])
  /\ Return(c)
  /\ UNCHANGED <<envVars, rdrc, refreshVars>>

----------------------------------------------------------------------------
(* The goroutine of backgroundRefreshDNS. *)

RefreshEnds(e) ==
  /\ refresh' = [refresh EXCEPT ![e] = "none"]
  /\ refreshKey' = [refreshKey EXCEPT ![e] = 0]

\* As ExchangeUnstored; whether there is a responseChecker is up to the call that
\* started the refresh.
RefreshUnstored(e) ==
  /\ refresh[e] = "exchange"
  /\ RefreshEnds(e) /\ rdrc' \in {rdrc, TRUE}
  /\ UNCHANGED <<envVars, cache, cacheLock, callVars, history>>

RefreshStorable(e) ==
  /\ refresh[e] = "exchange" /\ Storable(e)
  /\ refresh' = [refresh EXCEPT ![e] = "store"]
  /\ refreshKey' = [refreshKey EXCEPT ![e] = env]
  /\ UNCHANGED <<envVars, cacheVars, cacheLock, callVars, history>>

RefreshStore(e) ==
  /\ refresh[e] = "store"
  /\ StoreCache(refreshKey[e], e) /\ RefreshEnds(e)
  /\ UNCHANGED <<envVars, rdrc, cacheLock, callVars>>

----------------------------------------------------------------------------
(* Time and the network. *)

\* The time to live passes, then optimisticTimeout; or the entry is evicted.
Ages(e) ==
  /\ cache[e].age # "none" /\ Disturb
  /\ \/ cache[e].age = "fresh" /\ cache' = [cache EXCEPT ![e].age = "stale"]
     \/ cache' = [cache EXCEPT ![e] = Absent]
  /\ UNCHANGED <<envVars, rdrc, cacheLock, refreshVars, callVars>>

ClearCache ==
  /\ cache' = [e \in Envs |-> Absent] /\ Disturb
  /\ UNCHANGED <<envVars, rdrc, cacheLock, refreshVars, callVars>>

NetworkChanges ==
  /\ moves < MaxMoves /\ moves' = moves + 1
  /\ env' \in Envs \ {env} /\ Disturb
  /\ since' = [c \in Calls |-> IF since[c] = {} THEN {} ELSE since[c] \cup {env'}]
  /\ UNCHANGED <<cacheVars, cacheLock, refreshVars, request, pc, key, cond, storeKey>>

----------------------------------------------------------------------------

CallStep(c) ==
  \/ ReturnCached(c) \/ QuestionMisses(c) \/ Begin(c) \/ LoadOrStore(c) \/ LoadMisses(c)
  \/ Woken(c) \/ Refused(c) \/ Ready(c)
  \/ ExchangeUnstored(c) \/ ExchangeStorable(c) \/ Store(c)

RefreshStep(e) == RefreshUnstored(e) \/ RefreshStorable(e) \/ RefreshStore(e)

Next ==
  \/ \E c \in Calls : Start(c) \/ ReturnEarly(c) \/ CallStep(c)
  \/ \E e \in Envs : RefreshStep(e) \/ Ages(e)
  \/ ClearCache \/ NetworkChanges

Spec == Init /\ [][Next]_vars

\* The goroutines of calls run, and an exchange returns: its context has a deadline.
\* No deadline is assumed for a call that waits, and nothing of a refresh.
FairSpec == Spec /\ \A c \in Calls : WF_vars(CallStep(c))

----------------------------------------------------------------------------
(* Properties. *)

\* The cond a call waits for is closed, or in cacheLock with a call that is under
\* way and does not wait itself: every early return of the owner releases it.
CondHeld ==
  \A c \in Calls : cond[c] \in Calls =>
    /\ \E e \in Envs : cacheLock[e] = cond[c]
    /\ pc[cond[c]] \in {"load", "check", "exchange", "store"} /\ cond[cond[c]] = None

\* As long as nothing fails, expires or changes, one exchange answers all calls,
\* however they overlap: a call that comes too late to wait finds the answer.
Coalesced == calm => asked <= 1

\* A call that returns an answer from the cache returns one that was asked for in
\* an environment that was present since the call last waited, or while none was
\* known: neither a late exchange nor a refresh of a former network passes its
\* answer on.
FitsEnvironment ==
  [][\A c \in Calls : (pc[c] \in {"question", "load"} /\ pc'[c] = "done") =>
       cache[key[c]].began \in since[c] \cup {0}]_vars

\* Every call returns, although it may wait for another.
CallsReturn == \A c \in Calls : (pc[c] # "none") ~> (pc[c] = "done")
=============================================================================
