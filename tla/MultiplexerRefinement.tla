----------------------- MODULE MultiplexerRefinement -----------------------
(***************************************************************************)
(* As long as ids do not come round while somebody carries them, each      *)
(* query of queryMultiplexer (dns/transport/multiplexer.go) has one owner, *)
(* and the multiplexer implements module Exchange: every step of it is one *)
(* a caller of ExchangeAsync expects, or one the caller does not see.      *)
(***************************************************************************)
EXTENDS MultiplexerProofs

USE DEF Ids, Conns, idVars, poolVars, readVars, runVars

----------------------------------------------------------------------------
(* Each operation keeps one owner for every query. *)

LEMMA ExchangeAsyncOInv ==
  ASSUME OInv, NEW q \in Queries, ExchangeAsync(q)
  PROVE  Match' /\ Again' /\ Blank' /\ Owned'
  <1>1. PICK point \in {"single", "acquire"} : pc' = [pc EXCEPT ![<<q, 1>>] = point]
    BY DEF ExchangeAsync, Dispatch, Goto
  <1>2. <<q, 1>> \in Runs /\ \A p \in Queries : <<p, 2>> \in Runs /\ <<p, 1>> \in Runs
    BY DEF Runs
  <1>3. pc[<<q, 1>>] = "none" /\ UNCHANGED <<queries, late, sent, id, results>>
    BY DEF ExchangeAsync
  <1>4. Shrinks
    BY <1>3 DEF Shrinks
  <1>5. /\ \A p \in Queries : pc'[<<p, 2>>] = pc[<<p, 2>>]
        /\ \A p \in Queries : p # q => pc'[<<p, 1>>] = pc[<<p, 1>>]
        /\ pc'[<<q, 1>>] = point
    BY <1>1, <1>2 DEF OInv, TInv, TypeOK
  <1>6. Match'
    BY Zenon, <1>1, <1>2, <1>3, <1>4, MatchKeeps DEF OInv, TInv, TypeOK
  <1>7. Again'
    BY <1>3, <1>4, <1>5, AgainKeeps DEF OInv
  <1>8. Blank'
    BY <1>3, <1>4, <1>5, BlankKeeps DEF OInv, Started
  <1>9. ASSUME NEW p \in Queries, Started(p)' PROVE Owner(p)'
    <2>1. CASE p = q
      <3>1. results[q] = << >> /\ Unregistered(q) /\ pc[<<q, 2>>] = "none"
        BY <1>3 DEF OInv, Blank, Started
      <3> QED
        BY <1>3, <1>5, <2>1, <3>1 DEF Owner, Unregistered, Coming
    <2>2. CASE p # q
      <3>1. Owner(p)
        BY <1>5, <1>9, <2>2 DEF OInv, Owned, Started
      <3> QED
        BY <1>3, <1>5, <2>2, <3>1 DEF Owner, Unregistered, Coming
    <2> QED
      BY <2>1, <2>2
  <1> QED
    BY <1>6, <1>7, <1>8, <1>9 DEF Owned

LEMMA ComingStarted ==
  ASSUME OInv, NEW r \in Runs, pc[r] # "none"
  PROVE  Started(r[1])
  BY RunIsPair DEF OInv, Again, Started

\* A run on the way moves on.
LEMMA MovingOInv ==
  ASSUME OInv, NEW r \in Runs, Coming(r), Goto(r, "register"), UNCHANGED <<queries, late, sent, id, results>>
  PROVE  Match' /\ Again' /\ Blank' /\ Owned'
  <1>1. /\ \A s \in Runs : s # r => pc'[s] = pc[s]
        /\ pc'[r] = "register"
    BY DEF OInv, TInv, TypeOK, Goto
  <1>2. \A q \in Queries : <<q, 1>> \in Runs /\ <<q, 2>> \in Runs
    BY DEF Runs
  <1>3. Shrinks
    BY DEF Shrinks
  <1>4. Match'
    BY <1>1, <1>3, MatchKeeps DEF OInv
  <1>5. Again'
    BY <1>1, <1>2, <1>3, AgainKeeps DEF OInv, Coming
  <1>6. \A q \in Queries : Started(q)' <=> Started(q)
    BY Zenon, <1>1, <1>2 DEF Started, Coming
  <1>7. Blank'
    <2>1. ASSUME NEW q \in Queries, ~Started(q) PROVE <<q, 2>> # r
      BY <2>1, RunIsPair, ComingStarted DEF Coming
    <2> QED
      BY Zenon, <1>1, <1>2, <1>3, <1>6, <2>1, BlankKeeps DEF OInv
  <1>8. ASSUME NEW q \in Queries, Started(q)' PROVE Owner(q)'
    <2>1. Stays(q)
      BY Zenon, <1>1, <1>2 DEF Stays, Coming
    <2>2. SameEntries(q)
      BY DEF SameEntries
    <2> QED
      BY <1>6, <1>8, <2>1, <2>2, OwnerKeeps DEF OInv, Owned
  <1> QED
    BY <1>4, <1>5, <1>7, <1>8 DEF Owned

\* A run on the way calls the callback.
LEMMA AnsweringOInv ==
  ASSUME OInv, NEW r \in Runs, Coming(r), NEW a, Callback(r[1], a), End(r), UNCHANGED <<queries, late, sent>>
  PROVE  Match' /\ Again' /\ Blank' /\ Owned'
  <1>0. r[1] \in Queries /\ Started(r[1])
    BY RunIsPair, ComingStarted DEF Coming
  <1>1. /\ \A s \in Runs : s # r => pc'[s] = pc[s] /\ id'[s] = id[s]
        /\ pc'[r] = "ended"
    BY DEF OInv, TInv, TypeOK, End, Goto
  <1>2. \A q \in Queries : <<q, 1>> \in Runs /\ <<q, 2>> \in Runs
    BY DEF Runs
  <1>3. Shrinks
    BY DEF Shrinks
  <1>4. Match'
    BY <1>1, <1>3, MatchKeeps DEF OInv
  <1>5. Again'
    BY <1>1, <1>2, <1>3, AgainKeeps DEF OInv, Coming
  <1>6. \A q \in Queries : Started(q)' <=> Started(q)
    BY Zenon, <1>1, <1>2 DEF Started, Coming
  <1>7. \A q \in Queries : q # r[1] => results'[q] = results[q]
    BY Zenon DEF OInv, TInv, TypeOK, Callback
  <1>8. Blank'
    <2>1. ASSUME NEW q \in Queries, ~Started(q) PROVE <<q, 2>> # r /\ q # r[1]
      BY <1>0, <2>1, RunIsPair
    <2> QED
      BY Zenon, <1>1, <1>2, <1>3, <1>6, <1>7, <2>1, BlankKeeps DEF OInv
  <1>9. ASSUME NEW q \in Queries, Started(q)' PROVE Owner(q)'
    <2>1. CASE q = r[1]
      BY <1>0, <2>1, OwnerAnswered DEF OInv, Owned
    <2>2. CASE q # r[1]
      BY <1>0, <1>6, <1>7, <1>9, <2>2, OthersKeep DEF OInv, End
    <2> QED
      BY <2>1, <2>2
  <1> QED
    BY <1>4, <1>5, <1>8, <1>9 DEF Owned

\* A run is done with, others having the query.
LEMMA EndingOInv ==
  ASSUME OInv, NEW r \in Runs, pc[r] = "write", End(r), SameQueries, UNCHANGED results,
         \A f \in late' : f \in late \/ FunctionFits(f)', \A m \in sent' : m \in sent \/ RequestFits(m)'
  PROVE  Match' /\ Again' /\ Blank' /\ Owned'
  <1>0. r[1] \in Queries /\ Started(r[1])
    BY RunIsPair, ComingStarted
  <1>1. /\ \A s \in Runs : s # r => pc'[s] = pc[s] /\ id'[s] = id[s]
        /\ pc'[r] = "ended"
    BY DEF OInv, TInv, TypeOK, End, Goto
  <1>2. \A q \in Queries : <<q, 1>> \in Runs /\ <<q, 2>> \in Runs
    BY DEF Runs
  <1>3. Shrinks
    BY DEF SameQueries, Shrinks
  <1>4. Match'
    BY <1>1, <1>3, MatchKeeps DEF OInv
  <1>5. Again'
    BY <1>1, <1>2, <1>3, AgainKeeps DEF OInv
  <1>6. \A q \in Queries : Started(q)' <=> Started(q)
    BY Zenon, <1>1, <1>2 DEF Started
  <1>7. Blank'
    <2>1. ASSUME NEW q \in Queries, ~Started(q) PROVE <<q, 2>> # r
      BY <1>0, <2>1, RunIsPair
    <2> QED
      BY Zenon, <1>1, <1>2, <1>3, <1>6, <2>1, BlankKeeps DEF OInv
  <1>8. ASSUME NEW q \in Queries, Started(q)' PROVE Owner(q)'
    <2>1. Stays(q)
      BY Zenon, <1>1, <1>2 DEF Stays, Coming
    <2>2. SameEntries(q)
      BY DEF SameQueries, SameEntries
    <2> QED
      BY <1>6, <1>8, <2>1, <2>2, OwnerKeeps DEF OInv, Owned
  <1> QED
    BY <1>4, <1>5, <1>7, <1>8 DEF Owned

LEMMA EntryStarted ==
  ASSUME OInv, NEW i \in DOMAIN queries
  PROVE  queries[i].query \in Queries /\ Started(queries[i].query)
  BY Zenon DEF OInv, TInv, TypeOK, Pending, Blank, Unregistered

LEMMA InvalidateFits ==
  ASSUME NEW c, NEW why, NEW i, NEW started, started \subseteq late,
         queries' = Without(i), Invalidate(c, why, Without(i), started)
  PROVE  \A f \in late' : f \in late \/ FunctionFits(f)'
  <1>1. ASSUME NEW f \in ConnFunctions(c, Without(i)) PROVE FunctionFits(f)'
    BY <1>1 DEF ConnFunctions, FunctionFits
  <1> QED
    BY <1>1 DEF Invalidate

\* An entry is taken and its callback called.
LEMMA TakenOInv ==
  ASSUME OInv, NEW i \in DOMAIN queries, queries' = Without(i), NEW a, Callback(queries[i].query, a),
         UNCHANGED <<pc, id>> \/ \E r \in Runs : pc[r] = "write" /\ End(r),
         \A f \in late' : f \in late \/ FunctionFits(f)', \A m \in sent' : m \in sent \/ RequestFits(m)'
  PROVE  Match' /\ Again' /\ Blank' /\ Owned'
  <1> DEFINE o == queries[i].query
  <1>0. o \in Queries /\ Started(o)
    BY EntryStarted
  <1>1. \A s \in Runs : (pc'[s] = pc[s] /\ id'[s] = id[s]) \/ (pc[s] = "write" /\ pc'[s] = "ended")
    BY DEF OInv, TInv, TypeOK, End, Goto
  <1>2. \A q \in Queries : <<q, 1>> \in Runs /\ <<q, 2>> \in Runs
    BY DEF Runs
  <1>3. Shrinks
    BY WithoutShrinks
  <1>4. Match'
    BY <1>1, <1>3, MatchKeeps DEF OInv
  <1>5. Again'
    BY <1>1, <1>2, <1>3, AgainKeeps DEF OInv
  <1>6. \A q \in Queries : Started(q)' <=> Started(q)
    BY Zenon, <1>1, <1>2 DEF Started
  <1>7. \A q \in Queries : q # o => results'[q] = results[q]
    BY Zenon DEF OInv, TInv, TypeOK, Callback
  <1>8. Blank'
    <2>1. ASSUME NEW q \in Queries, ~Started(q) PROVE pc'[<<q, 2>>] = pc[<<q, 2>>]
      BY Zenon, <1>1, <1>2, <2>1 DEF OInv, Blank
    <2> QED
      BY <1>0, <1>3, <1>6, <1>7, <2>1, BlankKeeps DEF OInv
  <1>9. ASSUME NEW q \in Queries, Started(q)' PROVE Owner(q)'
    <2>1. Stays(q)
      BY Zenon, <1>1, <1>2 DEF Stays, Coming
    <2>2. CASE q = o
      <3>1. Owner(q) /\ TInv /\ queries[i].query = q /\ Callback(q, a)
        BY <1>0, <2>2 DEF OInv, Owned
      <3>2. \A k \in {1, 2} : Coming(<<q, k>>)' => Coming(<<q, k>>)
        BY <2>1 DEF Stays
      <3> QED
        BY <3>1, <3>2, OwnerTaken
    <2>3. CASE q # o
      <3>1. SameEntries(q)
        BY <2>3 DEF SameEntries, Without
      <3> QED
        BY <1>6, <1>7, <1>9, <2>1, <2>3, <3>1, OwnerKeeps DEF OInv, Owned
    <2> QED
      BY <2>2, <2>3
  <1> QED
    BY <1>4, <1>5, <1>8, <1>9 DEF Owned

\* An entry is taken, and a run of its query is on the way instead: the second, which
\* starts, or the one that failed to write.
LEMMA RedispatchOInv ==
  ASSUME OInv, NEW r \in Runs, NEW i \in DOMAIN queries, queries[i].query = r[1],
         queries' = Without(i), UNCHANGED results,
         NEW point \in {"single", "acquire"}, Goto(r, point),
         \A s \in Runs : s # r => id'[s] = id[s],
         (pc[r] = "none" /\ r[2] = 2) \/ (pc[r] = "write" /\ id[r] = i),
         \A f \in late' : f \in late \/ FunctionFits(f)', \A m \in sent' : m \in sent \/ RequestFits(m)'
  PROVE  Match' /\ Again' /\ Blank' /\ Owned'
  <1> DEFINE o == r[1]
  <1>0. o \in Queries /\ Started(o) /\ Owner(o)
    BY EntryStarted DEF OInv, Owned
  <1>1. /\ \A s \in Runs : s # r => pc'[s] = pc[s]
        /\ pc'[r] = point
    BY DEF OInv, TInv, TypeOK, Goto
  <1>2. \A q \in Queries : <<q, 1>> \in Runs /\ <<q, 2>> \in Runs
    BY DEF Runs
  <1>3. Shrinks
    BY WithoutShrinks
  <1>4. Match'
    BY <1>1, <1>3, MatchKeeps DEF OInv
  <1>5. /\ ~Coming(<<o, 1>>) /\ ~Coming(<<o, 2>>)
        /\ \A j \in DOMAIN queries : queries[j].query = o => j = i
    BY <1>0, EntryOwner
  <1>6. pc[<<o, 1>>] \in {"write", "ended"}
    BY <1>0, <1>2, <1>5 DEF OInv, TInv, TypeOK, Points, Coming, Started
  <1>7. ASSUME NEW q \in Queries
        PROVE  /\ \A j \in DOMAIN queries' : queries'[j].query = q /\ queries'[j].retry => pc'[<<q, 2>>] = "none"
               /\ pc'[<<q, 2>>] # "none" =>
                    /\ pc'[<<q, 1>>] \in {"write", "ended"}
                    /\ pc'[<<q, 1>>] = "write" => id'[<<q, 1>>] \notin DOMAIN queries'
    <2>1. CASE q # o
      <3>1. <<q, 1>> # r /\ <<q, 2>> # r
        BY <2>1, RunIsPair
      <3>2. pc'[<<q, 1>>] = pc[<<q, 1>>] /\ pc'[<<q, 2>>] = pc[<<q, 2>>] /\ id'[<<q, 1>>] = id[<<q, 1>>]
        BY <1>1, <1>2, <3>1
      <3>3. Again
        BY Zenon DEF OInv
      <3> QED
        BY ONLY <1>3, <3>2, <3>3, q \in Queries DEF Again, Shrinks
    <2>2. CASE q = o
      <3>1. \A j \in DOMAIN queries' : queries'[j].query # q
        BY <1>5, <2>2 DEF Without
      <3>2. CASE r = <<q, 1>>
        <4>1. pc[<<q, 2>>] = "none"
          <5>1. r[2] = 1
            BY <3>2
          <5>2. pc[<<q, 1>>] = "write" /\ id[<<q, 1>>] \in DOMAIN queries
            BY <3>2, <5>1
          <5> QED
            BY <5>2 DEF OInv, Again
        <4>2. pc'[<<q, 2>>] = "none"
          BY <1>1, <1>2, <3>2, <4>1, RunIsPair
        <4> QED
          BY <3>1, <4>2
      <3>3. CASE r = <<q, 2>>
        <4>1. <<q, 1>> # r
          BY <3>3, RunIsPair
        <4>2. pc'[<<q, 1>>] = pc[<<q, 1>>] /\ id'[<<q, 1>>] = id[<<q, 1>>]
          BY Zenon, <1>1, <1>2, <4>1
        <4>3. pc[<<q, 1>>] = "write" /\ id[<<q, 1>>] \in DOMAIN queries => queries[id[<<q, 1>>]].query = q
          BY Zenon, <1>2, RunIsPair DEF OInv, Match
        <4>4. pc[<<q, 1>>] = "write" => id[<<q, 1>>] \notin DOMAIN queries'
          BY <1>5, <2>2, <4>3 DEF Without
        <4> QED
          BY <1>6, <2>2, <3>1, <4>2, <4>4
      <3> QED
        BY Zenon, <2>2, <3>2, <3>3, RunIsPair
    <2> QED
      BY Zenon, <2>1, <2>2
  <1>8. \A q \in Queries : Started(q)' <=> Started(q)
    BY Zenon, <1>0, <1>1, <1>2, RunIsPair DEF Started
  <1>9. Blank'
    <2>1. ASSUME NEW q \in Queries, ~Started(q) PROVE <<q, 2>> # r
      BY <1>0, <2>1, RunIsPair
    <2> QED
      BY Zenon, <1>1, <1>2, <1>3, <1>8, <2>1, BlankKeeps DEF OInv
  <1>10. ASSUME NEW q \in Queries, Started(q)' PROVE Owner(q)'
    <2>1. CASE q = o
      BY <1>0, <2>1, OwnerAgain DEF OInv
    <2>2. CASE q # o
      BY <1>0, <1>8, <1>10, <2>2, OthersKeep DEF OInv
    <2> QED
      BY <2>1, <2>2
  <1> QED
    BY <1>4, <1>7, <1>9, <1>10 DEF Owned, Again

LEMMA RegisterOInv ==
  ASSUME OInv, FreshIds, NEW r \in Runs, Register(r)
  PROVE  Match' /\ Again' /\ Blank' /\ Owned'
  <1> DEFINE o == r[1]
  <1>1. PICK i \in NextIds :
          Registered(r, i, [j \in DOMAIN queries \cup {i} |-> IF j = i THEN NewPending(r) ELSE queries[j]])
    BY DEF Register
  <1>2. o \in Queries /\ Started(o) /\ Owner(o) /\ pc[r] = "register"
    BY RunIsPair, ComingStarted DEF Register, OInv, Owned
  <1>3. /\ \A s \in Runs : s # r => pc'[s] = pc[s] /\ id'[s] = id[s]
        /\ pc'[r] = "write" /\ id'[r] = i
        /\ UNCHANGED <<sent, results>>
    BY Zenon, <1>1 DEF OInv, TInv, TypeOK, Registered, Goto
  <1>4. /\ DOMAIN queries' = DOMAIN queries \cup {i} /\ i \notin DOMAIN queries
        /\ \A j \in DOMAIN queries : queries'[j] = queries[j]
        /\ queries'[i] = NewPending(r)
    BY Zenon, <1>1 DEF Registered, NextIds
  <1>5. /\ queries'[i].query = o /\ queries'[i].conn = conn[r]
        /\ queries'[i].retry => r[2] = 1
    <2>1. queries'[i].query = o /\ queries'[i].conn = conn[r]
      BY <1>4 DEF NewPending
    <2>2. NewPending(r).retry = (r[2] = 1 /\ RetryReadError /\ ~created[r])
      BY DEF NewPending
    <2>3. queries'[i].retry => r[2] = 1
      BY <1>4, <2>2, Zenon
    <2> QED
      BY <2>1, <2>3
  <1>6. /\ \A s \in Runs : pc[s] = "write" => id[s] # i
        /\ \A f \in late : f.id # i
        /\ \A m \in sent : m.id # i
    BY DEF FreshIds, Carried
  <1>7. \A q \in Queries : <<q, 1>> \in Runs /\ <<q, 2>> \in Runs
    BY DEF Runs
  <1>8. Match'
    <2>1. ASSUME NEW s \in Runs, pc'[s] = "write", id'[s] \in DOMAIN queries'
          PROVE  queries'[id'[s]].query = s[1]
      <3>1. CASE s = r
        BY <1>3, <1>5, <3>1
      <3>2. CASE s # r
        <4>1. pc[s] = "write" /\ id'[s] = id[s] /\ id[s] \in DOMAIN queries
          BY <1>3, <1>4, <1>6, <2>1, <3>2
        <4>2. queries[id[s]].query = s[1]
          BY Zenon, <4>1 DEF OInv, Match
        <4> QED
          BY <1>4, <4>1, <4>2
      <3> QED
        BY <3>1, <3>2
    <2>2. ASSUME NEW f \in late' PROVE FunctionFits(f)'
      <3>1. CASE f \in late
        BY <1>4, <1>6, <3>1 DEF OInv, Match, FunctionFits
      <3>2. CASE f = [by |-> "ctx", id |-> i, query |-> o]
        BY <1>5, <3>2 DEF FunctionFits
      <3>3. CASE f = [by |-> "conn", id |-> i, conn |-> conn[r]]
        BY <1>5, <3>3 DEF FunctionFits
      <3> QED
        BY Zenon, <1>1, <3>1, <3>2, <3>3 DEF Registered
    <2>3. ASSUME NEW m \in sent' PROVE RequestFits(m)'
      BY <1>3, <1>4, <1>6 DEF OInv, Match, RequestFits
    <2> QED
      BY <2>1, <2>2, <2>3 DEF Match
  <1>9. ASSUME NEW q \in Queries
        PROVE  /\ \A j \in DOMAIN queries' : queries'[j].query = q /\ queries'[j].retry => pc'[<<q, 2>>] = "none"
               /\ pc'[<<q, 2>>] # "none" =>
                    /\ pc'[<<q, 1>>] \in {"write", "ended"}
                    /\ pc'[<<q, 1>>] = "write" => id'[<<q, 1>>] \notin DOMAIN queries'
    <2>1. CASE r = <<q, 1>>
      <3>1. pc[<<q, 2>>] = "none"
        BY <1>2, <2>1 DEF OInv, Again
      <3> QED
        BY <1>3, <1>7, <2>1, <3>1, RunIsPair
    <2>2. CASE r = <<q, 2>>
      <3>1. /\ r[2] = 2 /\ <<q, 1>> # r /\ o = q
        BY <2>2, RunIsPair
      <3>2. \A j \in DOMAIN queries : queries[j].query # q
        BY <1>2, <2>2, <3>1 DEF Owner, Coming, Unregistered
      <3>3. ~queries'[i].retry
        BY <1>5, <3>1
      <3>4. pc[<<q, 1>>] \in {"write", "ended"} /\ (pc[<<q, 1>>] = "write" => id[<<q, 1>>] \notin DOMAIN queries)
        BY <1>2, <2>2 DEF OInv, Again
      <3> QED
        BY <1>3, <1>4, <1>6, <1>7, <3>1, <3>2, <3>3, <3>4
    <2>3. CASE r # <<q, 1>> /\ r # <<q, 2>>
      <3>1. o # q
        BY <2>3, RunIsPair
      <3>2. /\ \A j \in DOMAIN queries : queries[j].query = q /\ queries[j].retry => pc[<<q, 2>>] = "none"
            /\ pc[<<q, 2>>] # "none" =>
                 /\ pc[<<q, 1>>] \in {"write", "ended"}
                 /\ pc[<<q, 1>>] = "write" => id[<<q, 1>>] \notin DOMAIN queries
        BY DEF OInv, Again
      <3> QED
        BY <1>3, <1>4, <1>5, <1>6, <1>7, <2>3, <3>1, <3>2
    <2> QED
      BY <2>1, <2>2, <2>3
  <1>10. \A q \in Queries : Started(q)' <=> Started(q)
    BY Zenon, <1>2, <1>3, <1>7 DEF Started
  <1>11. Blank'
    <2>1. ASSUME NEW q \in Queries, ~Started(q)
          PROVE  results'[q] = << >> /\ Unregistered(q)' /\ pc'[<<q, 2>>] = "none"
      <3>1. q # o /\ <<q, 2>> # r
        BY <1>2, <2>1, RunIsPair
      <3> QED
        BY Zenon, <1>3, <1>4, <1>5, <1>7, <2>1, <3>1 DEF OInv, Blank, Unregistered
    <2> QED
      BY <1>10, <2>1 DEF Blank
  <1>12. ASSUME NEW q \in Queries, Started(q)' PROVE Owner(q)'
    <2>1. CASE q = o
      <3>1. /\ results[q] = << >> /\ Unregistered(q)
            /\ \A k \in {1, 2} : <<q, k>> # r => ~Coming(<<q, k>>)
        BY <1>2, <2>1, RunIsPair DEF Owner, Coming
      <3>2. ~Coming(<<q, 1>>)' /\ ~Coming(<<q, 2>>)'
        BY <1>3, <1>7, <3>1 DEF Coming
      <3>3. /\ i \in DOMAIN queries' /\ queries'[i].query = q
            /\ \A j \in DOMAIN queries' : queries'[j].query = q => j = i
        BY <1>4, <1>5, <2>1, <3>1 DEF Unregistered
      <3> QED
        BY <1>3, <3>1, <3>2, <3>3 DEF Owner
    <2>2. CASE q # o
      <3>1. SameEntries(q)
        BY <1>4, <1>5, <2>2 DEF SameEntries
      <3>2. r # <<q, 1>> /\ r # <<q, 2>>
        BY <2>2, RunIsPair
      <3>3. Stays(q)
        BY Zenon, <1>3, <1>7, <3>2 DEF Stays, Coming
      <3> QED
        BY <1>3, <1>10, <1>12, <3>1, <3>3, OwnerKeeps DEF OInv, Owned
    <2> QED
      BY <2>1, <2>2
  <1> QED
    BY <1>8, <1>9, <1>11, <1>12 DEF Owned, Again

LEMMA WithoutSame == ASSUME NEW i, i \notin DOMAIN queries, queries' = Without(i) PROVE SameQueries
  BY DEF SameQueries, Without

LEMMA WriteOInv ==
  ASSUME OInv, NEW r \in Runs, WriteSucceeds(r) \/ WriteFails(r)
  PROVE  Match' /\ Again' /\ Blank' /\ Owned'
  <1>1. pc[r] = "write"
    BY DEF WriteSucceeds, WriteFails
  <1>2. \A m \in Request(r) : RequestFits(m)
    BY <1>1 DEF OInv, Match, Request, RequestFits
  <1>3. CASE WriteSucceeds(r)
    <2>1. SameQueries /\ UNCHANGED <<queries, late, results>> /\ End(r) /\ sent' = sent \cup Request(r)
      BY <1>3 DEF WriteSucceeds, SameQueries
    <2>2. \A m \in sent' : m \in sent \/ RequestFits(m)'
      BY <1>2, <2>1 DEF RequestFits
    <2> QED
      BY <1>1, <2>1, <2>2, EndingOInv
  <1>4. CASE WriteFails(r)
    <2>1. /\ queries' = Without(id[r])
          /\ Invalidate(conn[r], "other", Without(id[r]), late)
          /\ AfterWriteError(r, id[r] \in DOMAIN queries)
          /\ sent' \subseteq sent \cup Request(r)
      BY <1>4 DEF WriteFails
    <2>2. \A f \in late' : f \in late \/ FunctionFits(f)'
      BY <2>1, InvalidateFits
    <2>3. \A m \in sent' : m \in sent \/ RequestFits(m)'
      BY <1>2, <2>1 DEF RequestFits, Without
    <2>4. CASE id[r] \notin DOMAIN queries
      <3>1. End(r) /\ UNCHANGED results
        BY <2>1, <2>4 DEF AfterWriteError
      <3>2. SameQueries
        BY <2>1, <2>4, WithoutSame
      <3> QED
        BY <1>1, <2>2, <2>3, <3>1, <3>2, EndingOInv
    <2>5. CASE id[r] \in DOMAIN queries
      <3>1. queries[id[r]].query = r[1]
        BY <1>1, <2>5 DEF OInv, Match
      <3>2. CASE Callback(r[1], "error") /\ End(r)
        BY <1>1, <2>1, <2>2, <2>3, <2>5, <3>1, <3>2, TakenOInv
      <3>3. CASE Goto(r, "acquire") /\ id' = [id EXCEPT ![r] = 0] /\ UNCHANGED results
        <4>1. \A s \in Runs : s # r => id'[s] = id[s]
          BY <3>3 DEF OInv, TInv, TypeOK
        <4> QED
          BY <1>1, <2>1, <2>2, <2>3, <2>5, <3>1, <3>3, <4>1, RedispatchOInv
      <3> QED
        BY <2>1, <2>5, <3>2, <3>3 DEF AfterWriteError
    <2> QED
      BY <2>4, <2>5
  <1> QED
    BY <1>3, <1>4

LEMMA RecvOInv ==
  ASSUME OInv, NEW c \in Conns, Recv(c)
  PROVE  Match' /\ Again' /\ Blank' /\ Owned'
  <1>1. PICK m \in {s \in sent : s.conn = c} :
          /\ queries' = Without(m.id)
          /\ IF m.id \in DOMAIN queries
             THEN Callback(queries[m.id].query,
                           IF m.query = queries[m.id].query THEN "response" ELSE "foreign")
             ELSE UNCHANGED results
    BY DEF Recv
  <1>2. UNCHANGED <<pc, id, late, sent>>
    BY DEF Recv
  <1>3. CASE m.id \in DOMAIN queries
    BY <1>1, <1>2, <1>3, TakenOInv
  <1>4. CASE m.id \notin DOMAIN queries
    BY <1>1, <1>2, <1>4, WithoutSame, QuietOInv
  <1> QED
    BY <1>3, <1>4

LEMMA CompleteOInv ==
  ASSUME OInv, CompleteContextDone \/ CompleteConnDone
  PROVE  Match' /\ Again' /\ Blank' /\ Owned'
  <1>1. CASE CompleteContextDone
    <2>1. PICK f \in {g \in late : g.by = "ctx" /\ g.id \in DOMAIN queries} :
            /\ queries' = Without(f.id)
            /\ \/ Invalidate(queries[f.id].conn, "other", Without(f.id), late \ {f})
               \/ late' = late \ {f}
            /\ Callback(queries[f.id].query, IF f.query = queries[f.id].query THEN "context" ELSE "foreign")
            /\ UNCHANGED <<pc, id, sent>>
      BY Zenon, <1>1 DEF CompleteContextDone
    <2>2. late \ {f} \subseteq late
      OBVIOUS
    <2>3. \A g \in late' : g \in late \/ FunctionFits(g)'
      BY <2>1, <2>2, InvalidateFits
    <2> QED
      BY <2>1, <2>3, TakenOInv
  <1>2. CASE CompleteConnDone
    <2>1. PICK f \in {g \in late : g.by = "conn" /\ g.id \in DOMAIN queries} :
            /\ queries' = Without(f.id)
            /\ late' = late \ {f}
            /\ IF queries[f.id].retry /\ cause[f.conn] = "read"
               THEN Dispatch(<<queries[f.id].query, 2>>) /\ UNCHANGED results
               ELSE /\ Callback(queries[f.id].query, IF f.conn = queries[f.id].conn THEN "error" ELSE "foreign")
                    /\ UNCHANGED pc
            /\ UNCHANGED <<id, sent>>
      BY Zenon, <1>2 DEF CompleteConnDone
    <2>2. CASE queries[f.id].retry /\ cause[f.conn] = "read"
      <3>1. PICK r \in Runs : r = <<queries[f.id].query, 2>>
        BY <2>1, EntryStarted, RunIsPair DEF Runs
      <3>2. r[1] = queries[f.id].query /\ r[2] = 2
        BY <3>1
      <3>3. PICK point \in {"single", "acquire"} : Goto(r, point)
        BY Zenon, <2>1, <2>2, <3>1 DEF Dispatch, Goto
      <3>4. pc[r] = "none"
        BY Zenon, <2>1, <2>2, <3>1, EntryStarted DEF OInv, Again
      <3> QED
        BY <2>1, <2>2, <3>2, <3>3, <3>4, RedispatchOInv
    <2>3. CASE ~(queries[f.id].retry /\ cause[f.conn] = "read")
      BY <2>1, <2>3, TakenOInv
    <2> QED
      BY <2>2, <2>3
  <1> QED
    BY <1>1, <1>2

LEMMA RunOInv ==
  ASSUME OInv, FreshIds, NEW r \in Runs, RunStep(r)
  PROVE  Match' /\ Again' /\ Blank' /\ Owned'
  <1>1. CASE ExchangeSingle(r)
    BY <1>1, AnsweringOInv DEF ExchangeSingle, Coming
  <1>2. CASE AcquireFails(r) \/ RegisterFails(r)
    BY <1>2, AnsweringOInv DEF AcquireFails, RegisterFails, Coming
  <1>3. CASE AcquireShared(r) \/ AcquireCreated(r)
    BY <1>3, MovingOInv DEF AcquireShared, AcquireCreated, Coming
  <1> QED
    BY <1>1, <1>2, <1>3, RegisterOInv DEF RunStep

LEMMA NextOInv == OInv /\ FreshIds /\ [Next]_vars => OInv'
  <1> SUFFICES ASSUME OInv, FreshIds, [Next]_vars PROVE Match' /\ Again' /\ Blank' /\ Owned'
    BY NextTInv DEF OInv
  <1>1. CASE UNCHANGED vars
    BY <1>1, QuietOInv DEF vars, SameQueries
  <1>2. CASE Next
    BY <1>2, QuietSteps, ExchangeAsyncOInv, RunOInv, WriteOInv, RecvOInv, CompleteOInv DEF Next, LateStep
  <1> QED
    BY <1>1, <1>2

\* While no id comes round, exactly one party owes a query its callback until it is
\* called: whichever of recvLoop, completeContextDone, completeConnDone and a failed
\* write takes the query first, for any number of them.
THEOREM EachQueryOneOwner == Spec /\ []FreshIds => []OneOwner
  <1>1. OInv => OneOwner
    BY OwnedIsOneOwner
  <1> QED
    BY <1>1, InitOInv, NextOInv, PTL DEF Spec

----------------------------------------------------------------------------
(* A function of a caller's context runs when that context is done. *)

\* A function of a caller's context runs only when that context is done.
LateDone == \A f \in late : f.by = "ctx" => ctx[f.query] # "none"

LEMMA ConnFunctionsBy == ASSUME NEW c, NEW m, NEW f \in ConnFunctions(c, m) PROVE f.by = "conn"
  BY DEF ConnFunctions

LEMMA InvalidateBy ==
  ASSUME LateDone, UNCHANGED ctx, NEW c, NEW why, NEW m, NEW started, started \subseteq late,
         Invalidate(c, why, m, started)
  PROVE  LateDone'
  BY ConnFunctionsBy DEF LateDone, Invalidate

LEMMA NextLateDone == TInv /\ LateDone /\ [Next]_vars => LateDone'
  <1> SUFFICES ASSUME TInv, LateDone, [Next]_vars PROVE LateDone'
    OBVIOUS
  <1>1. ASSUME UNCHANGED ctx, late' \subseteq late PROVE LateDone'
    BY <1>1 DEF LateDone
  <1>2. CASE Reset \/ Close
    BY <1>2, ConnFunctionsBy DEF LateDone, Reset, Close, Retire
  <1>3. ASSUME NEW q \in Queries, CtxDone(q) PROVE LateDone'
    <2>1. ctx \in [Queries -> {"none", "done"}] /\ ctx' = [ctx EXCEPT ![q] = "done"]
      BY <1>3 DEF CtxDone, TInv, TypeOK
    <2>2. ctx'[q] # "none" /\ \A p \in Queries : ctx[p] # "none" => ctx'[p] # "none"
      BY ONLY <2>1, q \in Queries
    <2>3. \A f \in late' : f \in late \/ (f.by = "ctx" /\ f.query = q)
      BY <1>3 DEF CtxDone
    <2>4. \A f \in late : f.by = "ctx" => f.query \in Queries
      BY DEF TInv, TypeOK, Late
    <2> QED
      BY ONLY <2>2, <2>3, <2>4, LateDone DEF LateDone
  <1>4. ASSUME NEW r \in Runs, Register(r) PROVE LateDone'
    <2>1. PICK i \in NextIds :
            Registered(r, i, [j \in DOMAIN queries \cup {i} |-> IF j = i THEN NewPending(r) ELSE queries[j]])
      BY <1>4 DEF Register
    <2>2. ctx' = ctx /\ \A f \in late' : f \in late \/ f.by = "conn" \/ (f.query = r[1] /\ ctx[r[1]] # "none")
      <3>1. /\ ctx' = ctx
            /\ \A f \in late' :
                 \/ f \in late
                 \/ ctx[r[1]] # "none" /\ f = [by |-> "ctx", id |-> i, query |-> r[1]]
                 \/ f = [by |-> "conn", id |-> i, conn |-> conn[r]]
        BY Zenon, <2>1 DEF Registered
      <3> QED
        BY ONLY <3>1
    <2> QED
      BY ONLY <2>2, LateDone DEF LateDone
  <1>5. ASSUME NEW r \in Runs, WriteFails(r) PROVE LateDone'
    BY <1>5, InvalidateBy DEF WriteFails
  <1>6. ASSUME NEW c \in Conns, RecvFails(c) PROVE LateDone'
    BY <1>6, InvalidateBy DEF RecvFails
  <1>7. CASE CompleteContextDone
    <2>1. PICK f \in late :
            /\ \/ Invalidate(queries[f.id].conn, "other", Without(f.id), late \ {f})
               \/ late' = late \ {f}
            /\ UNCHANGED ctx
      BY Zenon, <1>7 DEF CompleteContextDone
    <2>2. late \ {f} \subseteq late
      OBVIOUS
    <2> QED
      BY <1>1, <2>1, <2>2, InvalidateBy
  <1>8. CASE LateNothing \/ CompleteConnDone
    BY Zenon, <1>1, <1>8 DEF LateNothing, CompleteConnDone
  <1>9. ASSUME NEW r \in Runs, ExchangeSingle(r) \/ AcquireFails(r) \/ AcquireShared(r) \/ AcquireCreated(r)
                               \/ RegisterFails(r) \/ WriteSucceeds(r)
        PROVE  LateDone'
    BY Zenon, <1>1, <1>9 DEF ExchangeSingle, AcquireFails, AcquireShared, AcquireCreated, RegisterFails, WriteSucceeds
  <1>10. ASSUME NEW q \in Queries, ExchangeAsync(q) PROVE LateDone'
    BY <1>1, <1>10 DEF ExchangeAsync
  <1>11. ASSUME NEW c \in Conns, Recv(c) \/ RecvSkips(c) PROVE LateDone'
    BY <1>1, <1>11 DEF Recv, RecvSkips
  <1>12. CASE UNCHANGED vars
    BY <1>1, <1>12 DEF vars
  <1> QED
    BY <1>2, <1>3, <1>4, <1>5, <1>6, <1>7, <1>8, <1>9, <1>10, <1>11, <1>12 DEF Next, RunStep, LateStep

----------------------------------------------------------------------------
(* Each step, as the caller sees it. *)

\* The caller sees neither a query that begins nor a context that ends.
Unseen == UNCHANGED ctx /\ \A q \in Queries : Started(q)' <=> Started(q)

LEMMA StutterStep == ASSUME Unseen, UNCHANGED results PROVE UNCHANGED Caller!vars
  BY DEF Unseen, Caller!vars

LEMMA AnswerStep ==
  ASSUME OInv, Unseen, NEW q \in Queries, Started(q), results[q] = << >>,
         NEW a, a \in {"response", "error"} \/ (a = "context" /\ ctx[q] # "none"), Callback(q, a)
  PROVE  Caller!Next
  <1>1. results' = [results EXCEPT ![q] = <<a>>]
    <2>1. Append(results[q], a) = <<a>>
      OBVIOUS
    <2> QED
      BY <2>1 DEF Callback
  <1>2. Caller!Answer(q)
    BY Zenon, <1>1 DEF Unseen, Caller!Answer, Caller!Answers
  <1> QED
    BY <1>2 DEF Caller!Next

\* A run moves, and was under way before.
LEMMA MoveUnseen ==
  ASSUME TInv, UNCHANGED ctx, NEW r \in Runs, pc[r] # "none", NEW point, point # "none", Goto(r, point)
  PROVE  Unseen
  <1>1. \A s \in Runs : pc'[s] # "none" <=> pc[s] # "none"
    BY DEF TInv, TypeOK, Goto
  <1>2. \A q \in Queries : <<q, 1>> \in Runs
    BY DEF Runs
  <1> QED
    BY <1>1, <1>2 DEF Unseen, Started

\* The callback is called by the run that owes it.
LEMMA RunAnswers ==
  ASSUME OInv, UNCHANGED ctx, NEW r \in Runs, Coming(r), End(r),
         NEW a, a \in {"response", "error"} \/ (a = "context" /\ ctx[r[1]] # "none"), Callback(r[1], a)
  PROVE  Caller!Next
  <1>1. Unseen
    BY MoveUnseen DEF OInv, Coming, End
  <1>2. r[1] \in Queries /\ Started(r[1])
    BY RunIsPair, ComingStarted DEF Coming
  <1>3. Owner(r[1])
    BY <1>2 DEF OInv, Owned
  <1>4. results[r[1]] = << >>
    BY <1>2, <1>3, RunIsPair DEF Owner
  <1> QED
    BY <1>1, <1>2, <1>4, AnswerStep

\* The callback is called by who has taken the entry.
LEMMA EntryAnswers ==
  ASSUME OInv, Unseen, NEW i \in DOMAIN queries, NEW a, Callback(queries[i].query, a),
         a \in {"response", "error"} \/ (a = "context" /\ ctx[queries[i].query] # "none")
  PROVE  Caller!Next
  <1>1. queries[i].query \in Queries /\ Started(queries[i].query)
    BY EntryStarted
  <1>2. Owner(queries[i].query)
    BY <1>1 DEF OInv, Owned
  <1>3. results[queries[i].query] = << >>
    BY Zenon, <1>1, <1>2, EntryOwner
  <1> QED
    BY <1>1, <1>3, AnswerStep

LEMMA CallerSteps ==
  ASSUME OInv, NEW q \in Queries, ExchangeAsync(q) \/ CtxDone(q)
  PROVE  Caller!Next
  <1>0. \A p \in Queries : <<p, 1>> \in Runs /\ (p # q => <<p, 1>> # <<q, 1>>)
    BY DEF Runs
  <1>1. CASE ExchangeAsync(q)
    <2>1. PICK point \in {"single", "acquire"} : Goto(<<q, 1>>, point)
      BY <1>1 DEF ExchangeAsync, Dispatch
    <2>2. \A p \in Queries : Started(p)' <=> (Started(p) \/ p = q)
      BY Zenon, <1>0, <2>1 DEF Started, Goto, OInv, TInv, TypeOK
    <2>3. ~Started(q) /\ UNCHANGED <<ctx, results>>
      BY <1>1 DEF ExchangeAsync, Started
    <2>4. Caller!Ask(q)
      BY <2>2, <2>3 DEF Caller!Ask
    <2> QED
      BY <2>4 DEF Caller!Next
  <1>2. CASE CtxDone(q)
    <2>1. /\ Started(q) /\ ctx[q] = "none" /\ results[q] = << >>
          /\ ctx' = [ctx EXCEPT ![q] = "done"] /\ UNCHANGED <<pc, results>>
      BY <1>2 DEF CtxDone
    <2>2. \A p \in Queries : ctx'[p] # "none" <=> (ctx[p] # "none" \/ p = q)
      BY <2>1 DEF OInv, TInv, TypeOK
    <2>3. Caller!End(q)
      BY <2>1, <2>2 DEF Caller!End, Started
    <2> QED
      BY <2>3 DEF Caller!Next
  <1> QED
    BY <1>1, <1>2

LEMMA RunSteps ==
  ASSUME OInv, NEW r \in Runs, RunStep(r)
  PROVE  [Caller!Next]_Caller!vars
  <1>1. CASE ExchangeSingle(r)
    <2>1. PICK a \in {"response", "error"} \cup (IF ctx[r[1]] # "none" THEN {"context"} ELSE {}) :
            Callback(r[1], a)
      BY <1>1 DEF ExchangeSingle
    <2> QED
      BY <1>1, <2>1, RunAnswers DEF ExchangeSingle, Coming
  <1>2. CASE AcquireFails(r) \/ RegisterFails(r)
    BY <1>2, RunAnswers DEF AcquireFails, RegisterFails, Coming
  <1>3. CASE AcquireShared(r) \/ AcquireCreated(r) \/ Register(r)
    <2>1. /\ UNCHANGED <<ctx, results>> /\ pc[r] # "none"
          /\ \E point \in {"register", "write"} : Goto(r, point)
      BY Zenon, <1>3 DEF AcquireShared, AcquireCreated, Register, Registered
    <2>2. Unseen
      BY <2>1, MoveUnseen DEF OInv
    <2> QED
      BY <2>1, <2>2, StutterStep
  <1> QED
    BY <1>1, <1>2, <1>3 DEF RunStep

LEMMA WriteSteps ==
  ASSUME OInv, NEW r \in Runs, WriteSucceeds(r) \/ WriteFails(r)
  PROVE  [Caller!Next]_Caller!vars
  <1>1. pc[r] = "write" /\ UNCHANGED ctx
    BY DEF WriteSucceeds, WriteFails
  <1>2. Unseen
    BY Zenon, <1>1, MoveUnseen DEF OInv, WriteSucceeds, WriteFails, AfterWriteError, End
  <1>3. CASE UNCHANGED results
    BY <1>2, <1>3, StutterStep
  <1>4. CASE results' # results
    <2>1. id[r] \in DOMAIN queries /\ Callback(r[1], "error")
      BY <1>4 DEF WriteSucceeds, WriteFails, AfterWriteError
    <2>2. queries[id[r]].query = r[1]
      BY <1>1, <2>1 DEF OInv, Match
    <2> QED
      BY <1>2, <2>1, <2>2, EntryAnswers
  <1> QED
    BY <1>3, <1>4

LEMMA RecvSteps ==
  ASSUME OInv, NEW c \in Conns, Recv(c)
  PROVE  [Caller!Next]_Caller!vars
  <1>1. PICK m \in sent :
          IF m.id \in DOMAIN queries
          THEN Callback(queries[m.id].query, IF m.query = queries[m.id].query THEN "response" ELSE "foreign")
          ELSE UNCHANGED results
    BY DEF Recv
  <1>2. Unseen
    BY DEF Recv, Unseen, Started
  <1>3. m.id \in DOMAIN queries => m.query = queries[m.id].query
    BY DEF OInv, Match, RequestFits
  <1> QED
    BY <1>1, <1>2, <1>3, StutterStep, EntryAnswers

LEMMA LateSteps ==
  ASSUME OInv, LateDone, LateStep
  PROVE  [Caller!Next]_Caller!vars
  <1>1. CASE LateNothing
    BY <1>1, StutterStep DEF LateNothing, Unseen, Started
  <1>2. CASE CompleteContextDone
    <2>1. PICK f \in {g \in late : g.by = "ctx" /\ g.id \in DOMAIN queries} :
            /\ Callback(queries[f.id].query, IF f.query = queries[f.id].query THEN "context" ELSE "foreign")
            /\ UNCHANGED <<ctx, pc>>
      BY <1>2 DEF CompleteContextDone
    <2>2. f.query = queries[f.id].query /\ ctx[f.query] # "none"
      BY <2>1 DEF OInv, Match, FunctionFits, LateDone
    <2>3. Unseen
      BY <2>1 DEF Unseen, Started
    <2> QED
      BY <2>1, <2>2, <2>3, EntryAnswers
  <1>3. CASE CompleteConnDone
    <2>1. PICK f \in {g \in late : g.by = "conn" /\ g.id \in DOMAIN queries} :
            /\ IF queries[f.id].retry /\ cause[f.conn] = "read"
               THEN Dispatch(<<queries[f.id].query, 2>>) /\ UNCHANGED results
               ELSE /\ Callback(queries[f.id].query, IF f.conn = queries[f.id].conn THEN "error" ELSE "foreign")
                    /\ UNCHANGED pc
            /\ UNCHANGED ctx
      BY Zenon, <1>3 DEF CompleteConnDone
    <2>2. f.conn = queries[f.id].conn
      BY <2>1 DEF OInv, Match, FunctionFits
    <2>3. CASE queries[f.id].retry /\ cause[f.conn] = "read"
      <3>1. PICK point \in {"single", "acquire"} : pc' = [pc EXCEPT ![<<queries[f.id].query, 2>>] = point]
        BY Zenon, <2>1, <2>3 DEF Dispatch, Goto
      <3>2. \A q \in Queries : <<q, 1>> \in Runs /\ <<q, 1>> # <<queries[f.id].query, 2>>
        BY DEF Runs
      <3>3. \A q \in Queries : pc'[<<q, 1>>] = pc[<<q, 1>>]
        BY <3>1, <3>2 DEF OInv, TInv, TypeOK
      <3>4. Unseen /\ UNCHANGED results
        BY <2>1, <2>3, <3>3 DEF Unseen, Started
      <3> QED
        BY <3>4, StutterStep
    <2>4. CASE ~(queries[f.id].retry /\ cause[f.conn] = "read")
      <3>1. Unseen /\ Callback(queries[f.id].query, "error")
        BY <2>1, <2>2, <2>4 DEF Unseen, Started
      <3> QED
        BY <2>1, <3>1, EntryAnswers
    <2> QED
      BY <2>3, <2>4
  <1> QED
    BY <1>1, <1>2, <1>3 DEF LateStep

LEMMA NextRefines == OInv /\ LateDone /\ [Next]_vars => [Caller!Next]_Caller!vars
  <1> SUFFICES ASSUME OInv, LateDone, [Next]_vars PROVE [Caller!Next]_Caller!vars
    OBVIOUS
  <1>1. CASE UNCHANGED vars \/ Reset \/ Close \/ \E c \in Conns : RecvSkips(c) \/ RecvFails(c)
    <2>1. UNCHANGED <<ctx, pc, results>>
      BY Zenon, <1>1 DEF vars, Reset, Close, RecvSkips, RecvFails
    <2> QED
      BY <2>1, StutterStep DEF Unseen, Started
  <1> QED
    BY <1>1, CallerSteps, RunSteps, WriteSteps, RecvSteps, LateSteps DEF Next

LEMMA InitRefines == Init => Caller!Init
  BY DEF Init, Caller!Init, Started, Runs

\* While no id comes round, ExchangeAsync keeps its promise to the caller, for any
\* number of queries, ids and connections: the callback is called once at most, with
\* the response to the query or an error of its own context or connection.
THEOREM MultiplexerImplements == Spec /\ []FreshIds => Implements
  <1>1. Init => OInv /\ LateDone
    BY Zenon, InitOInv DEF Init, LateDone
  <1>2. OInv => TInv
    BY DEF OInv
  <1> QED
    BY <1>1, <1>2, NextOInv, NextLateDone, InitRefines, NextRefines, PTL DEF Spec, Implements, Caller!Spec

=============================================================================
