---------------------------- MODULE Multiplexer ----------------------------
(***************************************************************************)
(* queryMultiplexer (dns/transport/multiplexer.go): many DNS queries share *)
(* one connection, told apart by a 16-bit id.  A query that is registered  *)
(* can be completed by five parties: the read loop with its response, its  *)
(* own context, the context of its connection, the goroutine that failed   *)
(* to write it, and the retry that a broken connection starts.  take()     *)
(* decides which of them does.                                             *)
(*                                                                         *)
(* The connection pool is represented by what ConnPoolSingle promises its  *)
(* callers: one current connection, one creator for each connection, and a *)
(* context that is cancelled once, when the connection is removed.         *)
(***************************************************************************)
EXTENDS Naturals, Sequences

CONSTANTS
  Queries,         \* calls of ExchangeAsync
  IdSpace,         \* number of query ids: 65536 in the code
  MaxConns,        \* bound on the connections dialled
  MaxReads,        \* bound on the messages read from a connection
  RetryReadError,  \* options.retryReadError: true for TCP and TLS, false for UDP
  ProbeReuse       \* options.probeReuse: likewise

ASSUME IdSpaceAssumption == IdSpace \in Nat \ {0}
ASSUME MultiplexerBounds == MaxConns \in Nat /\ MaxReads \in Nat
ASSUME OptionsAssumption ==
  RetryReadError \in BOOLEAN /\ ProbeReuse \in BOOLEAN

Ids == 0..(IdSpace - 1)
Conns == 1..MaxConns

\* A query is dispatched by its caller and, after a read error, once more by
\* completeConnDone: <<q, 1>> and <<q, 2>> are the two goroutines.
Runs == Queries \X {1, 2}

VARIABLES
  queryId,    \* m.queryId
  queries,    \* m.queries, a function on the ids in use
  current,    \* the shared connection of the pool; 0 when there is none
  closed,     \* the pool is closed
  dialled,    \* connections dialled so far
  cause,      \* context.Cause(connCtx): a read error or another; "none" while it is not
              \* cancelled
  reading,    \* connections whose recvLoop runs
  readEpoch,  \* conn.readEpoch
  ctx,        \* whether the context of a query's caller is done; what ctx.Err() is, is
              \* looked at once, by completeContextDone
  late,       \* functions of context.AfterFunc that run and have not taken yet
  sent,       \* requests the server may answer, at any time and repeatedly
  pc,         \* of a run
  conn,       \* its connection; 0 before AcquireShared returns
  created,    \* it created that connection
  first,      \* firstAttempt
  id,         \* its queryId
  results     \* history: what the callback of a query was called with

idVars == <<queryId, queries>>
poolVars == <<current, closed, dialled, cause>>
readVars == <<reading, readEpoch>>
runVars == <<pc, conn, created, first, id>>
vars == <<idVars, poolVars, readVars, ctx, late, sent, runVars, results>>

Pending == [query : Queries, conn : Conns, readEpoch : 0..MaxReads, retry : BOOLEAN]
Late == [by : {"ctx"}, id : Ids, query : Queries] \cup [by : {"conn"}, id : Ids, conn : Conns]

Points == {"none", "single", "acquire", "register", "write", "ended"}

TypeOK ==
  /\ queryId \in Ids
  /\ DOMAIN queries \subseteq Ids
  /\ \A i \in DOMAIN queries : queries[i] \in Pending
  /\ current \in 0..MaxConns /\ closed \in BOOLEAN /\ dialled \in 0..MaxConns
  /\ cause \in [Conns -> {"none", "read", "other"}]
  /\ reading \in SUBSET Conns /\ readEpoch \in [Conns -> 0..MaxReads]
  /\ ctx \in [Queries -> {"none", "done"}]
  /\ late \in SUBSET Late
  /\ sent \in SUBSET [conn : Conns, id : Ids, query : Queries]
  /\ pc \in [Runs -> Points] /\ conn \in [Runs -> 0..MaxConns]
  /\ created \in [Runs -> BOOLEAN] /\ first \in [Runs -> BOOLEAN]
  /\ id \in [Runs -> Ids]
  /\ results \in [Queries -> Seq({"response", "context", "error", "foreign"})]

Init ==
  /\ queryId = 0 /\ queries = << >>
  /\ current = 0 /\ closed = FALSE /\ dialled = 0
  /\ cause = [c \in Conns |-> "none"]
  /\ reading = {} /\ readEpoch = [c \in Conns |-> 0]
  /\ ctx = [q \in Queries |-> "none"]
  /\ late = {} /\ sent = {}
  /\ pc = [r \in Runs |-> "none"] /\ conn = [r \in Runs |-> 0]
  /\ created = [r \in Runs |-> FALSE] /\ first = [r \in Runs |-> TRUE]
  /\ id = [r \in Runs |-> 0]
  /\ results = [q \in Queries |-> << >>]

Goto(r, point) == pc' = [pc EXCEPT ![r] = point]

\* The locals of a run that has ended are no longer read.
End(r) ==
  /\ Goto(r, "ended")
  /\ conn' = [conn EXCEPT ![r] = 0]
  /\ created' = [created EXCEPT ![r] = FALSE]
  /\ first' = [first EXCEPT ![r] = TRUE]
  /\ id' = [id EXCEPT ![r] = 0]

Started(q) == pc[<<q, 1>>] # "none"

Callback(q, result) == results' = [results EXCEPT ![q] = Append(@, result)]

----------------------------------------------------------------------------
(* The pool, as its callers see it. *)

\* The functions register left on the context of c, for the queries of m.
ConnFunctions(c, m) ==
  {[by |-> "conn", id |-> i, conn |-> c] : i \in {j \in DOMAIN m : m[j].conn = c}}

\* ConnPool.Invalidate: removeConn cancels sharedCtx if c is the shared
\* connection.  "m" is m.queries and "started" the late functions before it.
Invalidate(c, why, m, started) ==
  IF c = current /\ ~closed
  THEN /\ current' = 0 /\ cause' = [cause EXCEPT ![c] = why]
       /\ late' = started \cup ConnFunctions(c, m)
  ELSE UNCHANGED <<current, cause>> /\ late' = started

\* Reset and Close of the pool cancel the state and with it sharedCtx.
Retire ==
  IF current = 0
  THEN UNCHANGED <<current, cause, late>>
  ELSE /\ current' = 0 /\ cause' = [cause EXCEPT ![current] = "other"]
       /\ late' = late \cup ConnFunctions(current, queries)

\* Called on network changes and, for UDP, when a query asks for larger messages.
Reset ==
  /\ ~closed /\ current # 0
  /\ Retire
  /\ UNCHANGED <<idVars, closed, dialled, readVars, ctx, sent, runVars, results>>

Close ==
  /\ ~closed /\ closed' = TRUE
  /\ Retire
  /\ UNCHANGED <<idVars, dialled, readVars, ctx, sent, runVars, results>>

----------------------------------------------------------------------------
(* Dispatch of a query. *)

\* With probeReuse, a query goes out alone unless reuse is known to work
\* (module ReuseProbe).
Dispatch(r) ==
  \/ ProbeReuse /\ Goto(r, "single")
  \/ Goto(r, "acquire")

ExchangeAsync(q) ==
  /\ pc[<<q, 1>>] = "none"
  /\ Dispatch(<<q, 1>>)
  /\ UNCHANGED <<idVars, poolVars, readVars, ctx, late, sent, conn, created, first, id, results>>

\* exchangeSingle: a connection of its own, closed when ctx is done.
ExchangeSingle(r) ==
  /\ pc[r] = "single"
  /\ \E result \in {"response", "error"} \cup (IF ctx[r[1]] # "none" THEN {"context"} ELSE {}) :
       Callback(r[1], result)
  /\ End(r)
  /\ UNCHANGED <<idVars, poolVars, readVars, ctx, late, sent>>

\* AcquireShared fails when the pool is closed, or there was no connection and
\* the dial failed or the caller's ctx was done first.
AcquireFails(r) ==
  /\ pc[r] = "acquire"
  /\ closed \/ current = 0
  /\ Callback(r[1], "error")
  /\ End(r)
  /\ UNCHANGED <<idVars, poolVars, readVars, ctx, late, sent>>

AcquireShared(r) ==
  /\ pc[r] = "acquire" /\ ~closed /\ current # 0
  /\ conn' = [conn EXCEPT ![r] = current]
  /\ created' = [created EXCEPT ![r] = FALSE]
  /\ Goto(r, "register")
  /\ UNCHANGED <<idVars, poolVars, readVars, ctx, late, sent, first, id, results>>

\* The call dials, or is the first to get a connection dialled for another:
\* it starts recvLoop.
AcquireCreated(r) ==
  /\ pc[r] = "acquire" /\ ~closed /\ current = 0 /\ dialled < MaxConns
  /\ dialled' = dialled + 1 /\ current' = dialled + 1
  /\ reading' = reading \cup {dialled + 1}
  /\ conn' = [conn EXCEPT ![r] = dialled + 1]
  /\ created' = [created EXCEPT ![r] = TRUE]
  /\ Goto(r, "register")
  /\ UNCHANGED <<idVars, closed, cause, readEpoch, ctx, late, sent, first, id, results>>

----------------------------------------------------------------------------
(* register and write. *)

\* Mutant: the smallest free id, so that one is used again at once.
NextIdsLowest == {i \in Ids \ DOMAIN queries : \A j \in 0..(i - 1) : j \in DOMAIN queries}

\* The id that register's loop stops at, if any: the first one after queryId,
\* modulo the id space, that is not in use.
NextIds ==
  {i \in Ids \ DOMAIN queries :
     \E k \in 1..IdSpace :
       /\ i = (queryId + k) % IdSpace
       /\ \A j \in 1..(k - 1) : (queryId + j) % IdSpace \in DOMAIN queries}

\* "no available query ID": the loop is back at queryId, because the ids are all
\* in use, by queries of the model or by others.  Release keeps the connection.
RegisterFails(r) ==
  /\ pc[r] = "register"
  /\ Callback(r[1], "error")
  /\ End(r)
  /\ UNCHANGED <<idVars, poolVars, readVars, ctx, late, sent>>

\* Mutant: a function left on a context that is done already does not run.
RegisteredLate(r, i, m) ==
  /\ queryId' = i /\ queries' = m
  /\ id' = [id EXCEPT ![r] = i]
  /\ Goto(r, "write")
  /\ UNCHANGED <<poolVars, readVars, ctx, late, sent, conn, created, first, results>>

\* A function left on a context that is done already runs at once.
Registered(r, i, m) ==
  /\ queryId' = i /\ queries' = m
  /\ late' = late
       \cup (IF ctx[r[1]] = "none" THEN {} ELSE {[by |-> "ctx", id |-> i, query |-> r[1]]})
       \cup (IF cause[conn[r]] = "none" THEN {} ELSE {[by |-> "conn", id |-> i, conn |-> conn[r]]})
  /\ id' = [id EXCEPT ![r] = i]
  /\ Goto(r, "write")
  /\ UNCHANGED <<poolVars, readVars, ctx, sent, conn, created, first, results>>

NewPending(r) ==
  [query |-> r[1], conn |-> conn[r], readEpoch |-> readEpoch[conn[r]],
   retry |-> r[2] = 1 /\ RetryReadError /\ ~created[r]]

Register(r) ==
  /\ pc[r] = "register"
  /\ \E i \in NextIds :
       Registered(r, i, [j \in DOMAIN queries \cup {i} |-> IF j = i THEN NewPending(r) ELSE queries[j]])

\* What a write leaves for the read loop to find, if it still runs.
Request(r) ==
  {m \in {[conn |-> conn[r], id |-> id[r], query |-> r[1]]} : m.conn \in reading}

WriteSucceeds(r) ==
  /\ pc[r] = "write"
  /\ sent' = sent \cup Request(r)
  /\ End(r)
  /\ UNCHANGED <<idVars, poolVars, readVars, ctx, late, results>>

\* m.queries without i.
Without(i) == [j \in DOMAIN queries \ {i} |-> queries[j]]

\* After a failed write: nothing if another party took the query first, another
\* attempt, or the callback.
AfterWriteError(r, taken) ==
  \/ ~taken /\ End(r) /\ UNCHANGED results
  \/ /\ taken /\ ~created[r] /\ first[r]
     /\ Goto(r, "acquire")
     /\ first' = [first EXCEPT ![r] = FALSE]
     /\ conn' = [conn EXCEPT ![r] = 0] /\ id' = [id EXCEPT ![r] = 0]
     /\ UNCHANGED <<created, results>>
  \/ /\ taken /\ (created[r] \/ ~first[r])
     /\ Callback(r[1], "error") /\ End(r)

\* Mutant: a first failure is neither reported nor retried.
WriteFailsDrops(r) ==
  /\ pc[r] = "write"
  /\ queries' = Without(id[r])
  /\ Invalidate(conn[r], "other", Without(id[r]), late)
  /\ AfterWriteError(r, ~first[r])
  /\ UNCHANGED <<queryId, closed, dialled, readVars, ctx, sent>>

\* The write failed, although the request may have reached the server: take,
\* Invalidate and what follows.  In one step: an entry that is made on the
\* connection in between meets a context that is done now instead of shortly, and
\* its function runs when it likes in both.
WriteFails(r) ==
  /\ pc[r] = "write"
  /\ sent' \in {sent, sent \cup Request(r)}
  /\ queries' = Without(id[r])
  /\ Invalidate(conn[r], "other", Without(id[r]), late)
  /\ AfterWriteError(r, id[r] \in DOMAIN queries)
  /\ UNCHANGED <<queryId, closed, dialled, readVars, ctx>>

----------------------------------------------------------------------------
(* Completion. *)

\* recvLoop reads a response and completes by id.  Release keeps the
\* connection, or closes one that is no longer the pool's.
Recv(c) ==
  /\ c \in reading /\ readEpoch[c] < MaxReads
  /\ readEpoch' = [readEpoch EXCEPT ![c] = @ + 1]
  /\ \E m \in {s \in sent : s.conn = c} :
       /\ queries' = Without(m.id)
       /\ IF m.id \in DOMAIN queries
          THEN LET p == queries[m.id] IN
                 Callback(p.query, IF m.query = p.query THEN "response" ELSE "foreign")
          ELSE UNCHANGED results
  /\ UNCHANGED <<queryId, poolVars, reading, ctx, late, sent, runVars>>

\* readNext returned no message and no error.
RecvSkips(c) ==
  /\ c \in reading /\ readEpoch[c] < MaxReads
  /\ readEpoch' = [readEpoch EXCEPT ![c] = @ + 1]
  /\ UNCHANGED <<idVars, poolVars, reading, ctx, late, sent, runVars, results>>

\* readNext failed: the peer closed the connection or the pool did.
RecvFails(c) ==
  /\ c \in reading
  /\ reading' = reading \ {c}
  /\ sent' = {s \in sent : s.conn # c}
  /\ Invalidate(c, "read", queries, late)
  /\ UNCHANGED <<idVars, closed, dialled, readEpoch, ctx, runVars, results>>

\* The caller's context ends, and starts the functions register left on it.
\* (Nothing looks at it before the call or after the callback.)
CtxDone(q) ==
  /\ ctx[q] = "none" /\ Started(q) /\ results[q] = << >>
  /\ ctx' = [ctx EXCEPT ![q] = "done"]
  /\ late' = late \cup {[by |-> "ctx", id |-> i, query |-> q] :
                          i \in {j \in DOMAIN queries : queries[j].query = q}}
  /\ UNCHANGED <<idVars, poolVars, readVars, sent, runVars, results>>

\* A late function whose query another party took does nothing.
LateNothing ==
  \E f \in late :
    /\ f.id \notin DOMAIN queries
    /\ late' = late \ {f}
    /\ UNCHANGED <<idVars, poolVars, readVars, ctx, sent, runVars, results>>

\* A deadline on a connection that read nothing since the query was registered
\* condemns the connection; otherwise, also when the caller cancelled, Release keeps it.
CompleteContextDone ==
  \E f \in {g \in late : g.by = "ctx" /\ g.id \in DOMAIN queries} :
    LET p == queries[f.id] IN
      /\ queries' = Without(f.id)
      /\ \/ /\ readEpoch[p.conn] = p.readEpoch
            /\ Invalidate(p.conn, "other", Without(f.id), late \ {f})
         \/ late' = late \ {f} /\ UNCHANGED <<current, cause>>
      /\ Callback(p.query, IF f.query = p.query THEN "context" ELSE "foreign")
      /\ UNCHANGED <<queryId, closed, dialled, readVars, ctx, sent, runVars>>

\* The connection broke under the query: a read error is retried if register
\* allowed it, anything else is reported.
CompleteConnDone ==
  \E f \in {g \in late : g.by = "conn" /\ g.id \in DOMAIN queries} :
    LET p == queries[f.id] IN
      /\ queries' = Without(f.id)
      /\ late' = late \ {f}
      /\ IF p.retry /\ cause[f.conn] = "read"
         THEN Dispatch(<<p.query, 2>>) /\ UNCHANGED results
         ELSE Callback(p.query, IF f.conn = p.conn THEN "error" ELSE "foreign") /\ UNCHANGED pc
      /\ UNCHANGED <<queryId, poolVars, readVars, ctx, sent, conn, created, first, id>>

----------------------------------------------------------------------------

RunStep(r) ==
  \/ ExchangeSingle(r)
  \/ AcquireFails(r) \/ AcquireShared(r) \/ AcquireCreated(r)
  \/ RegisterFails(r) \/ Register(r)

LateStep == LateNothing \/ CompleteContextDone \/ CompleteConnDone

Next ==
  \/ Reset \/ Close
  \/ \E q \in Queries : ExchangeAsync(q) \/ CtxDone(q)
  \/ \E r \in Runs : RunStep(r) \/ WriteSucceeds(r) \/ WriteFails(r)
  \/ \E c \in Conns : Recv(c) \/ RecvSkips(c) \/ RecvFails(c)
  \/ LateStep

Spec == Init /\ [][Next]_vars

----------------------------------------------------------------------------
(* Properties. *)

\* The parties that owe the callback of q: the runs that are on the way to
\* registering it, and its entries in m.queries.
OnWay(q) == {r \in Runs : r[1] = q /\ pc[r] \in {"single", "acquire", "register"}}
Entries(q) == {i \in DOMAIN queries : queries[i].query = q}

\* From the moment it is dispatched exactly one party owes a query its
\* callback, until it is called: no interleaving of response, deadline, lost
\* connection, write error and retry drops a query or gives it two owners.
\* (While no id comes round again; see FreshIds.)
OneOwner ==
  \A q \in Queries : Started(q) =>
    \/ results[q] = << >> /\ Entries(q) = {} /\ \E r \in Runs : OnWay(q) = {r}
    \/ results[q] = << >> /\ OnWay(q) = {} /\ \E i \in Ids : Entries(q) = {i}
    \/ Len(results[q]) = 1 /\ OnWay(q) = {} /\ Entries(q) = {}

\* The id the next registration gets is not one that a goroutine, a late function
\* or a request still carries.  In the code this fails only after 65536
\* registrations in the life of one of these.
Carried == {id[r] : r \in {s \in Runs : pc[s] = "write"}} \cup {f.id : f \in late} \cup {m.id : m \in sent}
FreshIds == NextIds \cap Carried = {}

\* What the caller of ExchangeAsync sees.
Caller == INSTANCE Exchange WITH
  asked <- {q \in Queries : Started(q)},
  ended <- {q \in Queries : ctx[q] # "none"},
  answers <- results

\* The multiplexer keeps the promise of module Exchange: a query is completed once
\* at most, by its own response, its own context or its own connection, although all
\* three look it up by an id that is used again.  (With the same exception.)
Implements == Caller!Spec

\* A query whose context or whose connection is done, also from before it was
\* registered, has the function on the way that completes it.  So every query is
\* answered once its deadline has passed, although nothing is assumed of the server,
\* of a write or of the read loop: each may block for ever.
NoneStranded ==
  \A i \in DOMAIN queries :
    LET p == queries[i] IN
      /\ ctx[p.query] # "none" => [by |-> "ctx", id |-> i, query |-> p.query] \in late
      /\ cause[p.conn] # "none" => [by |-> "conn", id |-> i, conn |-> p.conn] \in late
=============================================================================
