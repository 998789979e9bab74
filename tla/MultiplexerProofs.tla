------------------------- MODULE MultiplexerProofs -------------------------
(***************************************************************************)
(* For every number of queries, ids, connections and reads: the variables  *)
(* of queryMultiplexer (dns/transport/multiplexer.go) keep to their types, *)
(* and no query is stranded.  What a step that leaves the entries of the   *)
(* other queries alone means for the owner of each query.                  *)
(***************************************************************************)
EXTENDS Multiplexer, TLAPS

----------------------------------------------------------------------------
(* The types. *)

\* A run that registers or writes has a connection.
Connected == \A r \in Runs : pc[r] \in {"register", "write"} => conn[r] # 0

TInv == TypeOK /\ Connected

USE DEF Ids, Conns

LEMMA NothingPending == ASSUME queries = << >> PROVE DOMAIN queries = {}
  <1>1. DOMAIN << >> = {}
    OBVIOUS
  <1> QED
    BY <1>1

LEMMA InitTInv == ASSUME Init PROVE TInv
  <1>1. DOMAIN queries = {}
    BY NothingPending DEF Init
  <1>2. results \in [Queries -> Seq({"response", "context", "error", "foreign"})]
    BY DEF Init
  <1>3. pc \in [Runs -> Points] /\ Connected
    BY DEF Init, Points, Connected
  <1>4. queryId \in Ids /\ current \in 0..MaxConns /\ dialled \in 0..MaxConns
    BY IdSpaceAssumption, MultiplexerBounds DEF Init
  <1>5. /\ cause \in [Conns -> {"none", "read", "other"}] /\ readEpoch \in [Conns -> 0..MaxReads]
        /\ conn \in [Runs -> 0..MaxConns] /\ id \in [Runs -> Ids]
    BY IdSpaceAssumption, MultiplexerBounds DEF Init
  <1>6. closed \in BOOLEAN /\ created \in [Runs -> BOOLEAN] /\ first \in [Runs -> BOOLEAN]
    BY Zenon DEF Init
  <1>7. /\ reading \in SUBSET Conns /\ late \in SUBSET Late
        /\ sent \in SUBSET [conn : Conns, id : Ids, query : Queries]
        /\ ctx \in [Queries -> {"none", "done"}]
    BY DEF Init
  <1> QED
    BY Zenon, <1>1, <1>2, <1>3, <1>4, <1>5, <1>6, <1>7 DEF TInv, TypeOK

LEMMA EndTInv ==
  ASSUME TInv, NEW r \in Runs, End(r)
  PROVE  /\ pc' \in [Runs -> Points] /\ conn' \in [Runs -> 0..MaxConns]
         /\ created' \in [Runs -> BOOLEAN] /\ first' \in [Runs -> BOOLEAN] /\ id' \in [Runs -> Ids]
         /\ Connected'
  BY IdSpaceAssumption, MultiplexerBounds DEF TInv, TypeOK, Connected, End, Goto, Points

LEMMA CallbackTInv ==
  ASSUME TInv, NEW q \in Queries, NEW a \in {"response", "context", "error", "foreign"}, Callback(q, a)
  PROVE  results' \in [Queries -> Seq({"response", "context", "error", "foreign"})]
  BY DEF TInv, TypeOK, Callback

LEMMA WithoutTInv ==
  ASSUME TInv, NEW i, queries' = Without(i)
  PROVE  DOMAIN queries' \subseteq Ids /\ \A j \in DOMAIN queries' : queries'[j] \in Pending
  BY DEF TInv, TypeOK, Without

LEMMA FunctionsTyped ==
  ASSUME TInv, NEW c \in Conns, NEW m, DOMAIN m \subseteq Ids
  PROVE  ConnFunctions(c, m) \subseteq Late
  BY DEF ConnFunctions, Late

LEMMA InvalidateTInv ==
  ASSUME TInv, NEW c \in Conns, NEW why \in {"read", "other"}, NEW m, DOMAIN m \subseteq Ids,
         NEW started, started \subseteq late, Invalidate(c, why, m, started)
  PROVE  /\ current' \in 0..MaxConns
         /\ cause' \in [Conns -> {"none", "read", "other"}]
         /\ late' \subseteq Late
  <1>1. ConnFunctions(c, m) \subseteq Late
    BY FunctionsTyped
  <1>2. /\ late \subseteq Late /\ current \in 0..MaxConns
        /\ cause \in [Conns -> {"none", "read", "other"}]
    BY DEF TInv, TypeOK
  <1>3. /\ current' = 0 \/ current' = current
        /\ cause' = [cause EXCEPT ![c] = why] \/ cause' = cause
        /\ late' \subseteq late \cup ConnFunctions(c, m)
    BY DEF Invalidate
  <1>4. current' \in 0..MaxConns
    BY ONLY <1>2, <1>3, MultiplexerBounds
  <1>5. cause' \in [Conns -> {"none", "read", "other"}]
    BY ONLY <1>2, <1>3, c \in Conns, why \in {"read", "other"}
  <1>6. late' \subseteq Late
    BY ONLY <1>1, <1>2, <1>3
  <1> QED
    BY ONLY <1>4, <1>5, <1>6

LEMMA RetireTInv ==
  ASSUME TInv, Retire
  PROVE  /\ current' \in 0..MaxConns
         /\ cause' \in [Conns -> {"none", "read", "other"}]
         /\ late' \subseteq Late
  <1>1. late \subseteq Late /\ DOMAIN queries \subseteq Ids
    BY DEF TInv, TypeOK
  <1>2. current # 0 => current \in Conns
    BY MultiplexerBounds DEF TInv, TypeOK
  <1>3. current # 0 => ConnFunctions(current, queries) \subseteq Late
    BY <1>1, <1>2, FunctionsTyped
  <1>4. current' \in 0..MaxConns
    BY MultiplexerBounds DEF TInv, TypeOK, Retire
  <1>5. cause' \in [Conns -> {"none", "read", "other"}]
    BY <1>2 DEF TInv, TypeOK, Retire
  <1>6. late' \subseteq Late
    BY <1>1, <1>3 DEF Retire
  <1> QED
    BY ONLY <1>4, <1>5, <1>6

LEMMA DispatchTInv ==
  ASSUME TInv, NEW r \in Runs, Dispatch(r)
  PROVE  pc' \in [Runs -> Points] /\ (UNCHANGED conn => Connected')
  BY Zenon DEF TInv, TypeOK, Connected, Dispatch, Goto, Points

USE DEF idVars, poolVars, readVars, runVars

LEMMA PoolTInv == ASSUME TInv, Reset \/ Close PROVE TInv'
  <1>1. CASE Reset
    BY Zenon, <1>1, RetireTInv DEF TInv, TypeOK, Connected, Reset
  <1>2. CASE Close
    BY Zenon, <1>2, RetireTInv DEF TInv, TypeOK, Connected, Close
  <1> QED
    BY <1>1, <1>2

LEMMA ExchangeTInv ==
  ASSUME TInv, NEW q \in Queries, ExchangeAsync(q) \/ CtxDone(q)
  PROVE  TInv'
  <1>1. CASE ExchangeAsync(q)
    <2>1. <<q, 1>> \in Runs
      BY DEF Runs
    <2>2. pc' \in [Runs -> Points] /\ Connected'
      BY <1>1, <2>1, DispatchTInv DEF ExchangeAsync
    <2> QED
      BY Zenon, <1>1, <2>2 DEF TInv, TypeOK, ExchangeAsync
  <1>2. CASE CtxDone(q)
    <2>1. late' \subseteq Late
      BY <1>2 DEF TInv, TypeOK, CtxDone, Late
    <2>2. ctx' \in [Queries -> {"none", "done"}]
      BY Zenon, <1>2 DEF TInv, TypeOK, CtxDone
    <2> QED
      BY Zenon, <1>2, <2>1, <2>2 DEF TInv, TypeOK, Connected, CtxDone
  <1> QED
    BY <1>1, <1>2

LEMMA RunTInv == ASSUME TInv, NEW r \in Runs, RunStep(r) PROVE TInv'
  <1>0. r[1] \in Queries
    BY DEF Runs
  <1>1. CASE ExchangeSingle(r)
    <2>1. PICK a \in {"response", "context", "error", "foreign"} : Callback(r[1], a)
      BY <1>1 DEF ExchangeSingle
    <2> QED
      BY Zenon, <1>0, <1>1, <2>1, CallbackTInv, EndTInv DEF TInv, TypeOK, ExchangeSingle
  <1>2. CASE AcquireFails(r)
    BY Zenon, <1>0, <1>2, CallbackTInv, EndTInv DEF TInv, TypeOK, AcquireFails
  <1>3. CASE AcquireShared(r)
    BY Zenon, <1>3, MultiplexerBounds DEF TInv, TypeOK, Connected, AcquireShared, Goto, Points
  <1>4. CASE AcquireCreated(r)
    <2>1. dialled + 1 \in Conns /\ dialled + 1 \in 0..MaxConns
      BY <1>4, MultiplexerBounds DEF TInv, TypeOK, AcquireCreated
    <2>2. pc' \in [Runs -> Points] /\ conn' \in [Runs -> 0..MaxConns] /\ created' \in [Runs -> BOOLEAN]
      BY Zenon, <1>4, <2>1 DEF TInv, TypeOK, AcquireCreated, Goto, Points
    <2>3. Connected'
      BY <1>4, <2>1, MultiplexerBounds DEF TInv, TypeOK, Connected, AcquireCreated, Goto
    <2> QED
      BY Zenon, <1>4, <2>1, <2>2, <2>3 DEF TInv, TypeOK, AcquireCreated
  <1>5. CASE RegisterFails(r)
    BY Zenon, <1>0, <1>5, CallbackTInv, EndTInv DEF TInv, TypeOK, RegisterFails
  <1>6. CASE Register(r)
    <2>1. PICK i \in NextIds :
            Registered(r, i, [j \in DOMAIN queries \cup {i} |-> IF j = i THEN NewPending(r) ELSE queries[j]])
      BY <1>6 DEF Register
    <2>2. i \in Ids
      BY DEF NextIds
    <2>3. conn[r] \in Conns
      BY <1>6, MultiplexerBounds DEF TInv, TypeOK, Connected, Register
    <2>4. NewPending(r) \in Pending
      BY <1>0, <2>3, OptionsAssumption DEF TInv, TypeOK, NewPending, Pending
    <2>5. DOMAIN queries' \subseteq Ids /\ \A j \in DOMAIN queries' : queries'[j] \in Pending
      BY Zenon, <2>1, <2>2, <2>4 DEF TInv, TypeOK, Registered
    <2>6. late' \subseteq Late
      BY <1>0, <2>1, <2>2, <2>3 DEF TInv, TypeOK, Registered, Late
    <2>7. pc' \in [Runs -> Points] /\ id' \in [Runs -> Ids] /\ Connected'
      BY <1>6, <2>1, <2>2 DEF TInv, TypeOK, Connected, Register, Registered, Goto, Points
    <2> QED
      BY Zenon, <2>1, <2>2, <2>5, <2>6, <2>7 DEF TInv, TypeOK, Registered
  <1> QED
    BY <1>1, <1>2, <1>3, <1>4, <1>5, <1>6 DEF RunStep

LEMMA WriteTInv ==
  ASSUME TInv, NEW r \in Runs, WriteSucceeds(r) \/ WriteFails(r)
  PROVE  TInv'
  <1>0. r[1] \in Queries
    BY DEF Runs
  <1>1. pc[r] = "write" => Request(r) \subseteq [conn : Conns, id : Ids, query : Queries]
    BY <1>0 DEF TInv, TypeOK, Request
  <1>2. CASE WriteSucceeds(r)
    BY Zenon, <1>1, <1>2, EndTInv DEF TInv, TypeOK, WriteSucceeds
  <1>3. CASE WriteFails(r)
    <2>1. conn[r] \in Conns
      BY <1>3, MultiplexerBounds DEF TInv, TypeOK, Connected, WriteFails
    <2>2. DOMAIN queries' \subseteq Ids /\ \A j \in DOMAIN queries' : queries'[j] \in Pending
      BY <1>3, WithoutTInv DEF WriteFails
    <2>3. DOMAIN Without(id[r]) \subseteq Ids
      BY DEF TInv, TypeOK, Without
    <2>4. /\ current' \in 0..MaxConns
          /\ cause' \in [Conns -> {"none", "read", "other"}]
          /\ late' \subseteq Late
      BY Zenon, <1>3, <2>1, <2>3, InvalidateTInv DEF WriteFails
    <2>5. sent' \subseteq [conn : Conns, id : Ids, query : Queries]
      BY Zenon, <1>1, <1>3 DEF TInv, TypeOK, WriteFails
    <2>6. /\ pc' \in [Runs -> Points] /\ conn' \in [Runs -> 0..MaxConns]
          /\ created' \in [Runs -> BOOLEAN] /\ first' \in [Runs -> BOOLEAN] /\ id' \in [Runs -> Ids]
          /\ Connected'
          /\ results' \in [Queries -> Seq({"response", "context", "error", "foreign"})]
      <3>1. CASE End(r) /\ UNCHANGED results
        BY Zenon, <3>1, EndTInv DEF TInv, TypeOK
      <3>2. CASE End(r) /\ Callback(r[1], "error")
        BY <1>0, <3>2, EndTInv, CallbackTInv
      <3>3. CASE /\ Goto(r, "acquire")
                 /\ first' = [first EXCEPT ![r] = FALSE]
                 /\ conn' = [conn EXCEPT ![r] = 0] /\ id' = [id EXCEPT ![r] = 0]
                 /\ UNCHANGED <<created, results>>
        BY <3>3, IdSpaceAssumption, MultiplexerBounds DEF TInv, TypeOK, Connected, Goto, Points
      <3> QED
        BY Zenon, <1>3, <3>1, <3>2, <3>3 DEF WriteFails, AfterWriteError
    <2> QED
      BY Zenon, <1>3, <2>2, <2>4, <2>5, <2>6 DEF TInv, TypeOK, WriteFails
  <1> QED
    BY <1>2, <1>3

LEMMA EpochTInv ==
  ASSUME TInv, NEW c \in Conns, readEpoch[c] < MaxReads, readEpoch' = [readEpoch EXCEPT ![c] = @ + 1]
  PROVE  readEpoch' \in [Conns -> 0..MaxReads]
  <1>1. readEpoch[c] + 1 \in 0..MaxReads
    BY MultiplexerBounds DEF TInv, TypeOK
  <1> QED
    BY <1>1 DEF TInv, TypeOK

LEMMA RecvTInv ==
  ASSUME TInv, NEW c \in Conns, Recv(c) \/ RecvSkips(c) \/ RecvFails(c)
  PROVE  TInv'
  <1>1. CASE Recv(c)
    <2>1. PICK m \in {s \in sent : s.conn = c} :
            /\ queries' = Without(m.id)
            /\ IF m.id \in DOMAIN queries
               THEN Callback(queries[m.id].query,
                             IF m.query = queries[m.id].query THEN "response" ELSE "foreign")
               ELSE UNCHANGED results
      BY Zenon, <1>1 DEF Recv
    <2>2. DOMAIN queries' \subseteq Ids /\ \A j \in DOMAIN queries' : queries'[j] \in Pending
      BY <2>1, WithoutTInv
    <2>3. m.id \in DOMAIN queries => queries[m.id].query \in Queries
      BY Zenon DEF TInv, TypeOK, Pending
    <2>4. results' \in [Queries -> Seq({"response", "context", "error", "foreign"})]
      BY Zenon, <2>1, <2>3, CallbackTInv DEF TInv, TypeOK
    <2>5. readEpoch' \in [Conns -> 0..MaxReads]
      BY Zenon, <1>1, EpochTInv DEF Recv
    <2> QED
      BY Zenon, <1>1, <2>2, <2>4, <2>5 DEF TInv, TypeOK, Connected, Recv
  <1>2. CASE RecvSkips(c)
    <2>1. readEpoch' \in [Conns -> 0..MaxReads]
      BY Zenon, <1>2, EpochTInv DEF RecvSkips
    <2> QED
      BY Zenon, <1>2, <2>1 DEF TInv, TypeOK, Connected, RecvSkips
  <1>3. CASE RecvFails(c)
    <2>1. DOMAIN queries \subseteq Ids
      BY DEF TInv, TypeOK
    <2>2. /\ current' \in 0..MaxConns
          /\ cause' \in [Conns -> {"none", "read", "other"}]
          /\ late' \subseteq Late
      BY Zenon, <1>3, <2>1, InvalidateTInv DEF RecvFails
    <2> QED
      BY Zenon, <1>3, <2>2 DEF TInv, TypeOK, Connected, RecvFails
  <1> QED
    BY <1>1, <1>2, <1>3

LEMMA LateTInv == ASSUME TInv, LateStep PROVE TInv'
  <1>1. CASE LateNothing
    BY Zenon, <1>1 DEF TInv, TypeOK, Connected, LateNothing
  <1>2. CASE CompleteContextDone
    <2>1. PICK f \in {g \in late : g.by = "ctx" /\ g.id \in DOMAIN queries} :
            LET p == queries[f.id] IN
              /\ queries' = Without(f.id)
              /\ \/ /\ readEpoch[p.conn] = p.readEpoch
                    /\ Invalidate(p.conn, "other", Without(f.id), late \ {f})
                 \/ late' = late \ {f} /\ UNCHANGED <<current, cause>>
              /\ Callback(p.query, IF f.query = p.query THEN "context" ELSE "foreign")
              /\ UNCHANGED <<queryId, closed, dialled, readVars, ctx, sent, runVars>>
      BY Zenon, <1>2 DEF CompleteContextDone
    <2>2. queries[f.id].conn \in Conns /\ queries[f.id].query \in Queries
      BY Zenon, <2>1 DEF TInv, TypeOK, Pending
    <2>3. DOMAIN queries' \subseteq Ids /\ \A j \in DOMAIN queries' : queries'[j] \in Pending
      BY Zenon, <2>1, WithoutTInv
    <2>4. DOMAIN Without(f.id) \subseteq Ids /\ late \ {f} \subseteq late
      BY DEF TInv, TypeOK, Without
    <2>5. /\ current' \in 0..MaxConns
          /\ cause' \in [Conns -> {"none", "read", "other"}]
          /\ late' \subseteq Late
      BY Zenon, <2>1, <2>2, <2>4, InvalidateTInv DEF TInv, TypeOK
    <2>6. results' \in [Queries -> Seq({"response", "context", "error", "foreign"})]
      BY Zenon, <2>1, <2>2, CallbackTInv
    <2> QED
      BY Zenon, <2>1, <2>3, <2>5, <2>6 DEF TInv, TypeOK, Connected
  <1>3. CASE CompleteConnDone
    <2>1. PICK f \in {g \in late : g.by = "conn" /\ g.id \in DOMAIN queries} :
            LET p == queries[f.id] IN
              /\ queries' = Without(f.id)
              /\ late' = late \ {f}
              /\ IF p.retry /\ cause[f.conn] = "read"
                 THEN Dispatch(<<p.query, 2>>) /\ UNCHANGED results
                 ELSE Callback(p.query, IF f.conn = p.conn THEN "error" ELSE "foreign") /\ UNCHANGED pc
              /\ UNCHANGED <<queryId, poolVars, readVars, ctx, sent, conn, created, first, id>>
      BY Zenon, <1>3 DEF CompleteConnDone
    <2>2. queries[f.id].query \in Queries
      BY Zenon, <2>1 DEF TInv, TypeOK, Pending
    <2>3. DOMAIN queries' \subseteq Ids /\ \A j \in DOMAIN queries' : queries'[j] \in Pending
      BY <2>1, WithoutTInv
    <2>4. <<queries[f.id].query, 2>> \in Runs
      BY <2>2 DEF Runs
    <2>5. pc' \in [Runs -> Points] /\ Connected'
      BY Zenon, <2>1, <2>4, DispatchTInv DEF TInv, TypeOK, Connected
    <2>6. results' \in [Queries -> Seq({"response", "context", "error", "foreign"})]
      BY Zenon, <2>1, <2>2, CallbackTInv DEF TInv, TypeOK
    <2> QED
      BY Zenon, <2>1, <2>3, <2>5, <2>6 DEF TInv, TypeOK
  <1> QED
    BY <1>1, <1>2, <1>3 DEF LateStep

LEMMA NextTInv == TInv /\ [Next]_vars => TInv'
  <1> SUFFICES ASSUME TInv, [Next]_vars PROVE TInv'
    OBVIOUS
  <1>1. CASE UNCHANGED vars
    BY Zenon, <1>1 DEF TInv, TypeOK, Connected, vars
  <1> QED
    BY <1>1, PoolTInv, ExchangeTInv, RunTInv, WriteTInv, RecvTInv, LateTInv DEF Next

----------------------------------------------------------------------------
(* No query is stranded. *)

LEMMA InvalidateStrands ==
  ASSUME TInv, NoneStranded,
         NEW c \in Conns, NEW why, NEW i, NEW started, Invalidate(c, why, Without(i), started),
         queries' = Without(i), UNCHANGED ctx, \A f \in late \ started : f.id = i
  PROVE  NoneStranded'
  <1> SUFFICES ASSUME NEW j \in DOMAIN queries'
               PROVE  LET p == queries'[j] IN
                        /\ ctx[p.query] # "none" => [by |-> "ctx", id |-> j, query |-> p.query] \in late'
                        /\ cause'[p.conn] # "none" => [by |-> "conn", id |-> j, conn |-> p.conn] \in late'
    BY Zenon DEF NoneStranded
  <1> DEFINE p == queries[j]
  <1>1. j \in DOMAIN queries /\ j # i /\ queries'[j] = p /\ DOMAIN queries' = DOMAIN Without(i)
    BY DEF Without
  <1>2. \A f \in late : f.id = j => f \in late'
    BY <1>1 DEF Invalidate
  <1>3. ctx[p.query] # "none" => [by |-> "ctx", id |-> j, query |-> p.query] \in late'
    <2>1. [by |-> "ctx", id |-> j, query |-> p.query].id = j
      OBVIOUS
    <2> QED
      BY Zenon, <1>1, <1>2, <2>1 DEF NoneStranded
  <1>4. cause[p.conn] # "none" => [by |-> "conn", id |-> j, conn |-> p.conn] \in late'
    <2>1. [by |-> "conn", id |-> j, conn |-> p.conn].id = j
      OBVIOUS
    <2> QED
      BY Zenon, <1>1, <1>2, <2>1 DEF NoneStranded
  <1>5. cause'[p.conn] # cause[p.conn] => [by |-> "conn", id |-> j, conn |-> p.conn] \in late'
    <2>1. p.conn \in Conns
      BY <1>1 DEF TInv, TypeOK, Pending
    <2>2. cause'[p.conn] # cause[p.conn] => p.conn = c /\ late' = started \cup ConnFunctions(c, Without(i))
      BY Zenon, <2>1 DEF TInv, TypeOK, Invalidate
    <2> QED
      BY <1>1, <2>2 DEF ConnFunctions, Without
  <1> QED
    BY Zenon, <1>1, <1>3, <1>4, <1>5

LEMMA TakeStrands ==
  ASSUME NoneStranded, NEW i, queries' = Without(i), UNCHANGED <<ctx, cause>>,
         late' \subseteq late, \A f \in late \ late' : f.id = i
  PROVE  NoneStranded'
  BY DEF NoneStranded, Without

\* Nothing is taken, and connections are cancelled with their functions.
LEMMA CancelStrands ==
  ASSUME TInv, NoneStranded, NEW c \in Conns, UNCHANGED <<queries, ctx>>,
         \/ UNCHANGED <<cause, late>>
         \/ \E why : cause' = [cause EXCEPT ![c] = why] /\ late' = late \cup ConnFunctions(c, queries)
  PROVE  NoneStranded'
  <1> SUFFICES ASSUME NEW j \in DOMAIN queries
               PROVE  LET p == queries[j] IN
                        /\ ctx[p.query] # "none" => [by |-> "ctx", id |-> j, query |-> p.query] \in late'
                        /\ cause'[p.conn] # "none" => [by |-> "conn", id |-> j, conn |-> p.conn] \in late'
    BY DEF NoneStranded
  <1>1. queries[j].conn \in Conns
    BY DEF TInv, TypeOK, Pending
  <1>2. cause'[queries[j].conn] # cause[queries[j].conn] =>
          queries[j].conn = c /\ ConnFunctions(c, queries) \subseteq late'
    BY Zenon, <1>1 DEF TInv, TypeOK
  <1>3. queries[j].conn = c => [by |-> "conn", id |-> j, conn |-> c] \in ConnFunctions(c, queries)
    BY DEF ConnFunctions
  <1> QED
    BY Zenon, <1>2, <1>3 DEF NoneStranded

LEMMA RegisterStrands ==
  ASSUME TInv, NoneStranded, NEW r \in Runs, Register(r)
  PROVE  NoneStranded'
  <1>1. PICK i \in NextIds :
          Registered(r, i, [j \in DOMAIN queries \cup {i} |-> IF j = i THEN NewPending(r) ELSE queries[j]])
    BY DEF Register
  <1> SUFFICES ASSUME NEW j \in DOMAIN queries'
               PROVE  LET p == queries'[j] IN
                        /\ ctx[p.query] # "none" => [by |-> "ctx", id |-> j, query |-> p.query] \in late'
                        /\ cause[p.conn] # "none" => [by |-> "conn", id |-> j, conn |-> p.conn] \in late'
    BY Zenon, <1>1 DEF NoneStranded, Registered
  <1>2. CASE j = i
    <2>1. queries'[j] = NewPending(r)
      BY Zenon, <1>1, <1>2 DEF Registered
    <2>2. queries'[j].query = r[1] /\ queries'[j].conn = conn[r]
      BY <2>1 DEF NewPending
    <2> QED
      BY Zenon, <1>1, <1>2, <2>2 DEF Registered
  <1>3. CASE j # i
    <2>1. j \in DOMAIN queries /\ queries'[j] = queries[j] /\ late \subseteq late'
      BY Zenon, <1>1, <1>3 DEF Registered
    <2> QED
      BY <2>1 DEF NoneStranded
  <1> QED
    BY <1>2, <1>3

LEMMA LateStrands == ASSUME TInv, NoneStranded, LateStep PROVE NoneStranded'
  <1>1. CASE LateNothing
    <2>1. PICK f \in late : f.id \notin DOMAIN queries /\ late' = late \ {f} /\ UNCHANGED <<queries, ctx, cause>>
      BY <1>1 DEF LateNothing
    <2> QED
      BY <2>1 DEF NoneStranded
  <1>2. CASE CompleteContextDone
    <2>1. PICK f \in {g \in late : g.by = "ctx" /\ g.id \in DOMAIN queries} :
            /\ queries' = Without(f.id) /\ UNCHANGED ctx
            /\ \/ Invalidate(queries[f.id].conn, "other", Without(f.id), late \ {f})
               \/ late' = late \ {f} /\ UNCHANGED cause
      BY Zenon, <1>2 DEF CompleteContextDone
    <2>2. queries[f.id].conn \in Conns
      BY Zenon, <2>1 DEF TInv, TypeOK, Pending
    <2>3. CASE Invalidate(queries[f.id].conn, "other", Without(f.id), late \ {f})
      BY <2>1, <2>2, <2>3, InvalidateStrands
    <2>4. CASE late' = late \ {f} /\ UNCHANGED cause
      BY <2>1, <2>4, TakeStrands
    <2> QED
      BY <2>1, <2>3, <2>4
  <1>3. CASE CompleteConnDone
    <2>1. PICK f \in {g \in late : g.by = "conn" /\ g.id \in DOMAIN queries} :
            queries' = Without(f.id) /\ late' = late \ {f} /\ UNCHANGED <<ctx, cause>>
      BY <1>3 DEF CompleteConnDone
    <2> QED
      BY <2>1, TakeStrands
  <1> QED
    BY <1>1, <1>2, <1>3 DEF LateStep

LEMMA NextStrands ==
  ASSUME TInv, NoneStranded, [Next]_vars
  PROVE  NoneStranded'
  <1>1. ASSUME UNCHANGED <<queries, ctx, cause, late>> PROVE NoneStranded'
    BY <1>1 DEF NoneStranded
  <1>2. CASE Reset \/ Close
    <2>1. CASE current = 0
      BY <1>1, <1>2, <2>1 DEF Reset, Close, Retire
    <2>2. CASE current # 0
      <3>1. current \in Conns
        BY <2>2, MultiplexerBounds DEF TInv, TypeOK
      <3>2. /\ cause' = [cause EXCEPT ![current] = "other"] /\ late' = late \cup ConnFunctions(current, queries)
            /\ UNCHANGED <<queries, ctx>>
        BY <1>2, <2>2 DEF Reset, Close, Retire
      <3> QED
        BY Zenon, <3>1, <3>2, CancelStrands
    <2> QED
      BY <2>1, <2>2
  <1>3. ASSUME NEW q \in Queries, CtxDone(q) PROVE NoneStranded'
    BY <1>3 DEF TInv, TypeOK, Pending, NoneStranded, CtxDone
  <1>4. ASSUME NEW r \in Runs, WriteFails(r) PROVE NoneStranded'
    <2>1. conn[r] \in Conns
      BY <1>4, MultiplexerBounds DEF TInv, TypeOK, Connected, WriteFails
    <2> QED
      BY <1>4, <2>1, InvalidateStrands DEF WriteFails
  <1>5. ASSUME NEW c \in Conns, Recv(c) PROVE NoneStranded'
    BY <1>5, TakeStrands DEF Recv
  <1>6. ASSUME NEW c \in Conns, RecvFails(c) PROVE NoneStranded'
    BY <1>6, CancelStrands DEF RecvFails, Invalidate
  <1>7. ASSUME NEW r \in Runs, RunStep(r) \/ WriteSucceeds(r) PROVE NoneStranded'
    BY Zenon, <1>1, <1>7, RegisterStrands
    DEF RunStep, ExchangeSingle, AcquireFails, AcquireShared, AcquireCreated, RegisterFails, WriteSucceeds
  <1> QED
    BY Zenon, <1>1, <1>2, <1>3, <1>4, <1>5, <1>6, <1>7, LateStrands DEF Next, vars, ExchangeAsync, RecvSkips

\* A query whose context or connection is done has the function on the way that
\* completes it (register, completeContextDone, completeConnDone), for any number of
\* queries and connections, and even if ids come round: no deadline is missed.
THEOREM NoQueryStranded == Spec => []NoneStranded
  <1>1. Init => NoneStranded
    BY NothingPending DEF Init, NoneStranded
  <1> QED
    BY <1>1, InitTInv, NextTInv, NextStrands, PTL DEF Spec

----------------------------------------------------------------------------
(* One owner, while ids are fresh. *)

\* Whoever carries the id of an entry carries it for the query of that entry.
FunctionFits(f) ==
  f.id \in DOMAIN queries =>
    /\ f.by = "ctx" => queries[f.id].query = f.query
    /\ f.by = "conn" => queries[f.id].conn = f.conn

RequestFits(m) == m.id \in DOMAIN queries => queries[m.id].query = m.query

Match ==
  /\ \A r \in Runs : pc[r] = "write" /\ id[r] \in DOMAIN queries => queries[id[r]].query = r[1]
  /\ \A f \in late : FunctionFits(f)
  /\ \A m \in sent : RequestFits(m)

\* A query is dispatched again once at most, when its first run has lost it.
Again ==
  \A q \in Queries :
    /\ \A i \in DOMAIN queries : queries[i].query = q /\ queries[i].retry => pc[<<q, 2>>] = "none"
    /\ pc[<<q, 2>>] # "none" =>
         /\ pc[<<q, 1>>] \in {"write", "ended"}
         /\ pc[<<q, 1>>] = "write" => id[<<q, 1>>] \notin DOMAIN queries

Unregistered(q) == \A i \in DOMAIN queries : queries[i].query # q

Blank ==
  \A q \in Queries : ~Started(q) => results[q] = << >> /\ Unregistered(q) /\ pc[<<q, 2>>] = "none"

\* OneOwner, run by run and entry by entry.
Coming(r) == pc[r] \in {"single", "acquire", "register"}

Owner(q) ==
  \/ /\ results[q] = << >> /\ Unregistered(q)
     /\ Coming(<<q, 1>>) \/ Coming(<<q, 2>>)
     /\ ~(Coming(<<q, 1>>) /\ Coming(<<q, 2>>))
  \/ /\ results[q] = << >> /\ ~Coming(<<q, 1>>) /\ ~Coming(<<q, 2>>)
     /\ \E i \in DOMAIN queries :
          queries[i].query = q /\ \A j \in DOMAIN queries : queries[j].query = q => j = i
  \/ Len(results[q]) = 1 /\ ~Coming(<<q, 1>>) /\ ~Coming(<<q, 2>>) /\ Unregistered(q)

Owned == \A q \in Queries : Started(q) => Owner(q)

OInv == TInv /\ Match /\ Again /\ Blank /\ Owned

LEMMA OwnedIsOneOwner == ASSUME OInv PROVE OneOwner
  <1> SUFFICES ASSUME NEW q \in Queries, Started(q)
               PROVE  \/ results[q] = << >> /\ Entries(q) = {} /\ \E r \in Runs : OnWay(q) = {r}
                      \/ results[q] = << >> /\ OnWay(q) = {} /\ \E i \in Ids : Entries(q) = {i}
                      \/ Len(results[q]) = 1 /\ OnWay(q) = {} /\ Entries(q) = {}
    BY DEF OneOwner
  <1>1. Owner(q)
    BY DEF OInv, Owned
  <1>2. \A r \in Runs : r[1] = q => r = <<q, 1>> \/ r = <<q, 2>>
    BY DEF Runs
  <1>3. <<q, 1>> \in Runs /\ <<q, 2>> \in Runs /\ <<q, 1>>[1] = q /\ <<q, 2>>[1] = q
    BY DEF Runs
  <1>4. Unregistered(q) => Entries(q) = {}
    BY DEF Unregistered, Entries
  <1>5. ~Coming(<<q, 1>>) /\ ~Coming(<<q, 2>>) => OnWay(q) = {}
    BY <1>2 DEF OnWay, Coming
  <1>6. Coming(<<q, 1>>) /\ ~Coming(<<q, 2>>) => OnWay(q) = {<<q, 1>>}
    BY <1>2, <1>3 DEF OnWay, Coming
  <1>7. Coming(<<q, 2>>) /\ ~Coming(<<q, 1>>) => OnWay(q) = {<<q, 2>>}
    BY <1>2, <1>3 DEF OnWay, Coming
  <1>8. ASSUME NEW i \in DOMAIN queries, queries[i].query = q,
               \A j \in DOMAIN queries : queries[j].query = q => j = i
        PROVE  i \in Ids /\ Entries(q) = {i}
    BY <1>8 DEF Entries, OInv, TInv, TypeOK
  <1> QED
    BY <1>1, <1>3, <1>4, <1>5, <1>6, <1>7, <1>8 DEF Owner

LEMMA InitOInv == ASSUME Init PROVE OInv
  <1>1. DOMAIN queries = {}
    BY NothingPending DEF Init
  <1>2. Match /\ Again
    BY <1>1 DEF Init, Match, Again, Runs
  <1>3. Blank /\ Owned
    BY <1>1 DEF Init, Blank, Owned, Started, Unregistered, Runs
  <1> QED
    BY <1>2, <1>3, InitTInv DEF OInv

\* m.queries loses entries at most.
Shrinks == \A j \in DOMAIN queries' : j \in DOMAIN queries /\ queries'[j] = queries[j]

\* It stays as it is, or is cut to where it is already.
SameQueries == DOMAIN queries' = DOMAIN queries /\ \A j \in DOMAIN queries : queries'[j] = queries[j]

\* Both runs of q stay where they are, or on the way.
Stays(q) == \A k \in {1, 2} : Coming(<<q, k>>)' <=> Coming(<<q, k>>)

SameEntries(q) ==
  \A i : (i \in DOMAIN queries' /\ queries'[i].query = q) <=> (i \in DOMAIN queries /\ queries[i].query = q)

LEMMA RunIsPair ==
  ASSUME NEW r \in Runs
  PROVE  /\ r[1] \in Queries /\ r[2] \in {1, 2} /\ r = <<r[1], r[2]>>
         /\ \A q \in Queries : <<q, 1>> \in Runs /\ <<q, 2>> \in Runs /\ <<q, 1>> # <<q, 2>>
         /\ \A q \in Queries : r = <<q, 1>> \/ r = <<q, 2>> => q = r[1]
         /\ r = <<r[1], 1>> \/ r = <<r[1], 2>>
  BY DEF Runs

LEMMA MatchKeeps ==
  ASSUME Match, Shrinks,
         \A r \in Runs : pc'[r] = "write" => pc[r] = "write" /\ id'[r] = id[r],
         \A f \in late' : f \in late \/ FunctionFits(f)',
         \A m \in sent' : m \in sent \/ RequestFits(m)'
  PROVE  Match'
  BY DEF Match, Shrinks, FunctionFits, RequestFits

LEMMA AgainKeeps ==
  ASSUME Again, Shrinks,
         \A q \in Queries :
           /\ pc[<<q, 2>>] = "none" => pc'[<<q, 2>>] = "none"
           /\ pc[<<q, 1>>] = "ended" => pc'[<<q, 1>>] = "ended"
           /\ pc[<<q, 1>>] = "write" =>
                pc'[<<q, 1>>] = "ended" \/ (pc'[<<q, 1>>] = "write" /\ id'[<<q, 1>>] = id[<<q, 1>>])
  PROVE  Again'
  <1> SUFFICES ASSUME NEW q \in Queries
               PROVE  /\ \A i \in DOMAIN queries' :
                           queries'[i].query = q /\ queries'[i].retry => pc'[<<q, 2>>] = "none"
                      /\ pc'[<<q, 2>>] # "none" =>
                           /\ pc'[<<q, 1>>] \in {"write", "ended"}
                           /\ pc'[<<q, 1>>] = "write" => id'[<<q, 1>>] \notin DOMAIN queries'
    BY Zenon DEF Again
  <1>1. /\ \A i \in DOMAIN queries : queries[i].query = q /\ queries[i].retry => pc[<<q, 2>>] = "none"
        /\ pc[<<q, 2>>] # "none" =>
             /\ pc[<<q, 1>>] \in {"write", "ended"}
             /\ pc[<<q, 1>>] = "write" => id[<<q, 1>>] \notin DOMAIN queries
    BY DEF Again
  <1> QED
    BY <1>1 DEF Shrinks

LEMMA BlankKeeps ==
  ASSUME Blank, Shrinks,
         \A q \in Queries : ~Started(q)' =>
           ~Started(q) /\ results'[q] = results[q] /\ pc'[<<q, 2>>] = pc[<<q, 2>>]
  PROVE  Blank'
  BY DEF Blank, Shrinks, Unregistered

LEMMA OwnerKeeps ==
  ASSUME NEW q \in Queries, Owner(q), results'[q] = results[q], SameEntries(q), Stays(q)
  PROVE  Owner(q)'
  BY DEF Owner, Unregistered, SameEntries, Stays

\* The callback is called by a run on the way.
LEMMA OwnerAnswered ==
  ASSUME TInv, NEW r \in Runs, Owner(r[1]), Coming(r), NEW a, Callback(r[1], a), End(r), UNCHANGED queries
  PROVE  Owner(r[1])'
  <1>1. results[r[1]] = << >> /\ Unregistered(r[1])
    BY Zenon, RunIsPair DEF Owner
  <1>2. Len(results'[r[1]]) = 1
    BY <1>1, RunIsPair DEF TInv, TypeOK, Callback
  <1>3. ~Coming(<<r[1], 1>>)' /\ ~Coming(<<r[1], 2>>)'
    BY Zenon, RunIsPair DEF TInv, TypeOK, Owner, Coming, End, Goto
  <1> QED
    BY Zenon, <1>1, <1>2, <1>3 DEF Owner, Unregistered

LEMMA EntryOwner ==
  ASSUME NEW q \in Queries, Owner(q), NEW i \in DOMAIN queries, queries[i].query = q
  PROVE  /\ results[q] = << >> /\ ~Coming(<<q, 1>>) /\ ~Coming(<<q, 2>>)
         /\ \A j \in DOMAIN queries : queries[j].query = q => j = i
  BY DEF Owner, Unregistered

\* The callback is called by who has taken the entry.
LEMMA OwnerTaken ==
  ASSUME TInv, NEW q \in Queries, Owner(q), NEW i \in DOMAIN queries, queries[i].query = q,
         queries' = Without(i), NEW a, Callback(q, a),
         \A k \in {1, 2} : Coming(<<q, k>>)' => Coming(<<q, k>>)
  PROVE  Owner(q)'
  <1>1. Len(results'[q]) = 1
    BY EntryOwner DEF TInv, TypeOK, Callback
  <1>2. Unregistered(q)'
    BY EntryOwner DEF Unregistered, Without
  <1> QED
    BY Zenon, <1>1, <1>2, EntryOwner DEF Owner

\* Who has taken the entry sends the query on its way again.
LEMMA OwnerAgain ==
  ASSUME TInv, NEW r \in Runs, Owner(r[1]), NEW i \in DOMAIN queries, queries[i].query = r[1],
         queries' = Without(i), UNCHANGED results,
         NEW point \in {"single", "acquire"}, Goto(r, point)
  PROVE  Owner(r[1])'
  <1>0. \A j \in DOMAIN queries : queries[j].query = r[1] => j = i
    <2>1. r[1] \in Queries
      BY RunIsPair
    <2> QED
      BY Zenon, <2>1, EntryOwner
  <1>1. Unregistered(r[1])'
    BY <1>0 DEF Unregistered, Without
  <1>2. Coming(r)' /\ \A k \in {1, 2} : r # <<r[1], k>> => ~Coming(<<r[1], k>>)'
    BY RunIsPair, EntryOwner DEF TInv, TypeOK, Coming, Goto
  <1> QED
    BY Zenon, <1>1, <1>2, RunIsPair, EntryOwner DEF Owner

\* Of the other queries nothing changes.
LEMMA OthersKeep ==
  ASSUME TInv, Owned, NEW q \in Queries, NEW o \in Queries, q # o,
         Started(q)' => Started(q), results'[q] = results[q],
         UNCHANGED queries \/ \E i \in DOMAIN queries : queries[i].query = o /\ queries' = Without(i),
         UNCHANGED pc \/ \E r \in Runs : r[1] = o /\ \E point : Goto(r, point)
  PROVE  Started(q)' => Owner(q)'
  <1>1. SameEntries(q)
    <2>1. CASE UNCHANGED queries
      BY <2>1 DEF SameEntries
    <2>2. CASE \E i \in DOMAIN queries : queries[i].query = o /\ queries' = Without(i)
      <3>1. PICK i \in DOMAIN queries : queries[i].query = o /\ queries' = Without(i)
        BY <2>2
      <3>2. DOMAIN queries' = DOMAIN queries \ {i} /\ \A j \in DOMAIN queries' : queries'[j] = queries[j]
        BY <3>1 DEF Without
      <3> QED
        BY <3>1, <3>2 DEF SameEntries
    <2> QED
      BY <2>1, <2>2
  <1>2. pc'[<<q, 1>>] = pc[<<q, 1>>] /\ pc'[<<q, 2>>] = pc[<<q, 2>>]
    BY DEF TInv, TypeOK, Goto, Runs
  <1>3. Stays(q)
    BY <1>2 DEF Stays, Coming
  <1> QED
    BY <1>1, <1>3, OwnerKeeps DEF Owned

LEMMA WithoutShrinks == ASSUME NEW i, queries' = Without(i) PROVE Shrinks
  BY DEF Shrinks, Without

\* Steps that leave the queries, the runs and the results alone, or nearly.
LEMMA QuietOInv ==
  ASSUME OInv, SameQueries, UNCHANGED <<pc, id, results>>,
         \A f \in late' : f \in late \/ FunctionFits(f), sent' \subseteq sent
  PROVE  Match' /\ Again' /\ Blank' /\ Owned'
  <1>1. Match'
    BY DEF OInv, SameQueries, Match, FunctionFits, RequestFits
  <1>2. Again' /\ Blank'
    BY DEF OInv, SameQueries, Again, Blank, Started, Unregistered
  <1>3. Owned'
    BY DEF OInv, SameQueries, Owned, Owner, Started, Unregistered, Coming
  <1> QED
    BY <1>1, <1>2, <1>3

LEMMA ConnFunctionsFit ==
  ASSUME NEW c, NEW f \in ConnFunctions(c, queries)
  PROVE  FunctionFits(f)
  BY DEF ConnFunctions, FunctionFits

LEMMA QuietSteps ==
  ASSUME OInv,
         \/ Reset \/ Close \/ LateNothing
         \/ \E q \in Queries : CtxDone(q)
         \/ \E c \in Conns : RecvSkips(c) \/ RecvFails(c)
  PROVE  Match' /\ Again' /\ Blank' /\ Owned'
  <1>1. CASE Reset \/ Close
    BY Zenon, <1>1, ConnFunctionsFit, QuietOInv DEF SameQueries, Reset, Close, Retire
  <1>2. CASE LateNothing
    BY <1>2, QuietOInv DEF SameQueries, LateNothing
  <1>3. ASSUME NEW q \in Queries, CtxDone(q) PROVE Match' /\ Again' /\ Blank' /\ Owned'
    BY <1>3, QuietOInv DEF SameQueries, CtxDone, FunctionFits
  <1>4. ASSUME NEW c \in Conns, RecvSkips(c) PROVE Match' /\ Again' /\ Blank' /\ Owned'
    BY <1>4, QuietOInv DEF SameQueries, RecvSkips
  <1>5. ASSUME NEW c \in Conns, RecvFails(c) PROVE Match' /\ Again' /\ Blank' /\ Owned'
    BY <1>5, ConnFunctionsFit, QuietOInv DEF SameQueries, RecvFails, Invalidate
  <1> QED
    BY <1>1, <1>2, <1>3, <1>4, <1>5
=============================================================================
