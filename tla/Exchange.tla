------------------------------ MODULE Exchange ------------------------------
(***************************************************************************)
(* What queryMultiplexer promises the caller of ExchangeAsync: its         *)
(* callback is called at most once, with the response to its own query or  *)
(* an error that concerns it.  Exchange closes a channel in the callback,  *)
(* which panics the second time.                                           *)
(***************************************************************************)
CONSTANT Queries

VARIABLES
  asked,   \* queries for which ExchangeAsync was called
  ended,   \* queries whose ctx is done
  answers  \* what the callback of a query was called with

vars == <<asked, ended, answers>>

Init == asked = {} /\ ended = {} /\ answers = [q \in Queries |-> << >>]

Ask(q) ==
  /\ q \notin asked
  /\ asked' = asked \cup {q}
  /\ UNCHANGED <<ended, answers>>

End(q) ==
  /\ q \in asked \ ended /\ answers[q] = << >>
  /\ ended' = ended \cup {q}
  /\ UNCHANGED <<asked, answers>>

\* ctx.Err() is reported only when ctx is done.
Answers(q) == {"response", "error"} \cup {a \in {"context"} : q \in ended}

Answer(q) ==
  /\ q \in asked /\ answers[q] = << >>
  /\ \E a \in Answers(q) : answers' = [answers EXCEPT ![q] = <<a>>]
  /\ UNCHANGED <<asked, ended>>

Next == \E q \in Queries : Ask(q) \/ End(q) \/ Answer(q)

Spec == Init /\ [][Next]_vars
=============================================================================
