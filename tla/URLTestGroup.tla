---------------------------- MODULE URLTestGroup ----------------------------
(***************************************************************************)
(* URLTest and URLTestGroup (protocol/group/urltest.go): an outbound that  *)
(* measures the delays of its members and dials through the fastest.  The  *)
(* tests are made by a loop that a dial starts and that ends when the      *)
(* group has not been used for a while, by PostStart, and on demand; one   *)
(* flag keeps them apart.  The delays are in a history that a failed dial  *)
(* and the tests that an API makes of a single outbound change as well.    *)
(*                                                                         *)
(* The members are no groups themselves.  The selection is read without a  *)
(* lock, in one step.  The reads of the history by one performUpdateCheck  *)
(* are one step.  What its interruption closes is modelled in Connections. *)
(***************************************************************************)
EXTENDS Naturals, Sequences, SequencesExt

CONSTANTS
  Members,     \* g.outbounds, a sequence of outbounds
  Networks,    \* N.NetworkTCP and N.NetworkUDP
  Supports,    \* the networks of an outbound
  Delays,      \* what a test of an outbound may measure, in milliseconds
  Tolerance,   \* g.tolerance
  MaxDials,    \* bound on the dials at a time
  MaxTickers   \* bound on the tickers made

None == "none"
Unknown == 65536  \* no history
Outbounds == Range(Members)
Dials == 1..MaxDials
Tickers == 1..MaxTickers

ASSUME GroupAssumption ==
  /\ Members # <<>> /\ None \notin Outbounds
  /\ Supports \in [Outbounds -> SUBSET Networks]
  /\ Delays \in [Outbounds -> SUBSET (0..65535)] /\ Tolerance \in 1..65535

VARIABLES
  selected,  \* g.selectedOutboundTCP and g.selectedOutboundUDP
  history,   \* g.history: the delay of an outbound, or Unknown
  dial,      \* the dials: how far they are, and the outbound
  started,   \* g.started
  active,    \* the age of g.lastActive: up to g.interval, up to g.idleTimeout, or more
  ticker,    \* g.ticker, 0 for nil
  loop,      \* the goroutines of loopCheck, by ticker
  closed,    \* g.close is closed
  over,      \* Close was called
  checking,  \* g.checking
  todo       \* the outbounds whose test has not ended

loopVars == <<started, active, ticker, loop, closed, over>>
testVars == <<checking, todo>>
vars == <<selected, history, dial, loopVars, testVars>>

NoDial == [pc |-> "none", via |-> None]

TypeOK ==
  /\ selected \in [Networks -> Outbounds \cup {None}]
  /\ \A o \in Outbounds : history[o] \in Delays[o] \cup {Unknown}
  /\ dial \in [Dials -> [pc : {"none", "touched", "dialing"}, via : Outbounds \cup {None}]]
  /\ started \in BOOLEAN /\ active \in {"recent", "old", "idle"}
  /\ ticker \in Tickers \cup {0} /\ closed \in BOOLEAN /\ over \in BOOLEAN
  /\ loop \in [Tickers -> {"none", "begin", "select", "check", "checking", "stop", "done"}]
  /\ checking \in BOOLEAN /\ todo \in SUBSET Outbounds

Init ==
  /\ selected = [n \in Networks |-> None] /\ history = [o \in Outbounds |-> Unknown]
  /\ dial = [c \in Dials |-> NoDial]
  /\ started = FALSE /\ active = "idle" /\ ticker = 0 /\ closed = FALSE /\ over = FALSE
  /\ loop = [t \in Tickers |-> "none"]
  /\ checking = FALSE /\ todo = {}

----------------------------------------------------------------------------
(* Selection. *)

\* Mutant: the tolerance is left out.
FasterAtAll(acc, o) ==
  IF history[o] # Unknown /\ (acc.delay = 0 \/ acc.delay > history[o])
  THEN [outbound |-> o, delay |-> history[o]]
  ELSE acc

\* One round of the loop of Select: acc holds minOutbound and minDelay.
Faster(acc, o) ==
  IF history[o] # Unknown /\ (acc.delay = 0 \/ acc.delay > (history[o] + Tolerance) % 65536)
  THEN [outbound |-> o, delay |-> history[o]]
  ELSE acc

Having(net) == SelectSeq(Members, LAMBDA o : net \in Supports[o])

\* Select: the outbound, and whether it was chosen by its history.
Select(net) ==
  LET now == selected[net]
      known == IF now # None /\ history[now] # Unknown THEN [outbound |-> now, delay |-> history[now]]
               ELSE [outbound |-> None, delay |-> 0]
      best == FoldLeft(Faster, known, Having(net)).outbound
  IN  IF best # None THEN <<best, TRUE>>
      ELSE <<IF Having(net) = <<>> THEN None ELSE Head(Having(net)), FALSE>>

\* What performUpdateCheck selects.
Updated(net) ==
  LET s == Select(net)
  IN  IF s[1] # None /\ (selected[net] = None \/ s[2]) THEN s[1] ELSE selected[net]

PerformUpdateCheck == selected' = [n \in Networks |-> Updated(n)]

----------------------------------------------------------------------------
(* Tests. *)

\* urlTest, up to the tests.  Without force, an outbound whose history is recent is
\* not tested.
UrlTest(force) ==
  /\ ~checking /\ checking' = TRUE
  /\ todo' \in {s \in SUBSET Outbounds : \A o \in Outbounds : force \/ history[o] = Unknown => o \in s}

\* PostStart; the test is made by a goroutine, and is one of Check.
PostStart ==
  /\ ~started /\ started' = TRUE /\ active' = "recent"
  /\ UNCHANGED <<selected, history, dial, ticker, loop, closed, over, testVars>>

\* A test outside of the loop: by PostStart, without force, or by URLTest,
\* CheckOutbounds or InterfaceUpdated, with force.
Check ==
  /\ \E force \in BOOLEAN : UrlTest(force)
  /\ UNCHANGED <<selected, history, dial, loopVars>>

\* One test of the batch ends: with a delay, with an error, or, if the context of the
\* batch was cancelled, with nothing.
Tested(o) ==
  /\ o \in todo /\ todo' = todo \ {o}
  /\ history' \in {history} \cup {[history EXCEPT ![o] = d] : d \in Delays[o] \cup {Unknown}}
  /\ UNCHANGED <<selected, dial, loopVars, checking>>

\* The batch has ended; the selection is updated, the flag cleared, and if it was
\* loopCheck that called, it goes on.
TestReturns ==
  /\ checking /\ todo = {}
  /\ PerformUpdateCheck
  /\ checking' = FALSE
  /\ loop' = [t \in Tickers |-> IF loop[t] = "checking" THEN "select" ELSE loop[t]]
  /\ UNCHANGED <<history, dial, started, active, ticker, closed, over, todo>>

\* A test of one outbound for the Clash API, or for the daemon's, which leaves the
\* selection alone.
APITests(o) ==
  /\ history' \in {[history EXCEPT ![o] = d] : d \in Delays[o] \cup {Unknown}}
  /\ UNCHANGED <<selected, dial, loopVars, testVars>>

\* The Clash API then updates the groups that the outbound is in.  As a test may give
\* the delay that is known already, this may come at any time.
APIUpdates ==
  /\ PerformUpdateCheck
  /\ UNCHANGED <<history, dial, loopVars, testVars>>

----------------------------------------------------------------------------
(* The loop. *)

\* Touch.  With a new ticker, lastActive is left to loopCheck.
Touch ==
  \/ ~started /\ UNCHANGED <<active, ticker, loop>>
  \/ started /\ ticker # 0 /\ active' = "recent" /\ UNCHANGED <<ticker, loop>>
  \/ /\ started /\ ticker = 0
     /\ \E t \in Tickers :
          /\ loop[t] = "none" /\ \A u \in 1..(t - 1) : loop[u] # "none"
          /\ ticker' = t /\ loop' = [loop EXCEPT ![t] = "begin"]
     /\ UNCHANGED active

\* The start of loopCheck.
LoopBegins(t) ==
  /\ loop[t] = "begin"
  /\ loop' = [loop EXCEPT ![t] = IF active = "recent" THEN "select" ELSE "check"]
  /\ active' = "recent"
  /\ UNCHANGED <<selected, history, dial, started, ticker, closed, over, testVars>>

LoopClosed(t) ==
  /\ loop[t] = "select" /\ closed
  /\ loop' = [loop EXCEPT ![t] = "done"]
  /\ UNCHANGED <<selected, history, dial, started, active, ticker, closed, over, testVars>>

\* Mutant: the idle timeout is not looked at.
LoopTickAlways(t) ==
  /\ loop[t] = "select" /\ ticker = t
  /\ loop' = [loop EXCEPT ![t] = "check"]
  /\ UNCHANGED <<selected, history, dial, started, active, ticker, closed, over, testVars>>

\* A tick; there is none from a ticker that was stopped.
LoopTick(t) ==
  /\ loop[t] = "select" /\ ticker = t
  /\ loop' = [loop EXCEPT ![t] = IF active = "idle" THEN "stop" ELSE "check"]
  /\ UNCHANGED <<selected, history, dial, started, active, ticker, closed, over, testVars>>

\* Mutant: the ticker is stopped and not forgotten.
LoopStopsKeeps(t) ==
  /\ loop[t] = "stop"
  /\ loop' = [loop EXCEPT ![t] = "done"]
  /\ UNCHANGED <<selected, history, dial, started, active, ticker, closed, over, testVars>>

LoopStops(t) ==
  /\ loop[t] = "stop"
  /\ loop' = [loop EXCEPT ![t] = "done"]
  /\ ticker' = IF ticker = t THEN 0 ELSE ticker
  /\ UNCHANGED <<selected, history, dial, started, active, closed, over, testVars>>

\* CheckOutbounds of the loop, which returns at once if another test is going on.
LoopChecks(t) ==
  /\ loop[t] = "check"
  /\ \/ UrlTest(FALSE) /\ loop' = [loop EXCEPT ![t] = "checking"]
     \/ checking /\ UNCHANGED testVars /\ loop' = [loop EXCEPT ![t] = "select"]
  /\ UNCHANGED <<selected, history, dial, started, active, ticker, closed, over>>

TimePasses ==
  /\ active' = IF active = "recent" THEN "old" ELSE "idle"
  /\ UNCHANGED <<selected, history, dial, started, ticker, loop, closed, over, testVars>>

\* Close does not close g.close if there is no ticker.
Close ==
  /\ ~over /\ over' = TRUE
  /\ ticker' = 0 /\ closed' = (ticker # 0)
  /\ UNCHANGED <<selected, history, dial, started, active, loop, testVars>>

----------------------------------------------------------------------------
(* Dials. *)

\* DialContext and ListenPacket.
Dial(c) ==
  /\ dial[c].pc = "none"
  /\ dial' = [dial EXCEPT ![c].pc = "touched"]
  /\ Touch
  /\ UNCHANGED <<selected, history, started, closed, over, testVars>>

\* The selection is read; while there is none, Select makes one.
Load(c) ==
  /\ dial[c].pc = "touched"
  /\ \E net \in Networks :
       LET via == IF selected[net] # None THEN selected[net] ELSE Select(net)[1]
       IN  dial' = [dial EXCEPT ![c] = [pc |-> IF via = None THEN "none" ELSE "dialing", via |-> via]]
  /\ UNCHANGED <<selected, history, loopVars, testVars>>

\* The outbound has dialled; if that failed, its history is deleted.
Dialed(c) ==
  /\ dial[c].pc = "dialing"
  /\ dial' = [dial EXCEPT ![c] = NoDial]
  /\ history' \in {history, [history EXCEPT ![dial[c].via] = Unknown]}
  /\ UNCHANGED <<selected, loopVars, testVars>>

----------------------------------------------------------------------------

LoopStep(t) == LoopBegins(t) \/ LoopClosed(t) \/ LoopTick(t) \/ LoopStops(t) \/ LoopChecks(t)
TestStep == (\E o \in Outbounds : Tested(o)) \/ TestReturns

Next ==
  \/ \E t \in Tickers : LoopStep(t)
  \/ \E c \in Dials : Dial(c) \/ Load(c) \/ Dialed(c)
  \/ TestStep \/ (\E o \in Outbounds : APITests(o)) \/ APIUpdates
  \/ PostStart \/ Check \/ TimePasses \/ Close

Spec == Init /\ [][Next]_vars

\* The goroutines run; a test returns, as its context has a deadline; time passes,
\* and a ticker ticks.
FairSpec ==
  /\ Spec
  /\ WF_vars(TestStep) /\ WF_vars(TimePasses)
  /\ \A t \in Tickers : WF_vars(LoopStep(t))

----------------------------------------------------------------------------
(* Properties. *)

\* Whatever was selected before and whichever test, failed dial or request changed the
\* history, performUpdateCheck selects a member that supports the network and has a
\* delay, if there is one; no other is faster than it by more than the tolerance; and
\* the selection moves only to one that is faster by more, or from one that failed.
\* The last two are for delays of at least a millisecond and sums below 2^16: the code
\* takes a delay of zero for none.
Chosen ==
  \A n \in Networks :
    LET fit == {o \in Outbounds : n \in Supports[o] /\ history[o] # Unknown}
        Slower(a, b) == history[a] > history[b] + Tolerance
    IN  /\ fit # {} => Updated(n) \in fit
        /\ (\A o \in fit : history[o] > 0 /\ history[o] + Tolerance < 65536) =>
             /\ fit # {} => \A o \in fit : ~Slower(Updated(n), o)
             /\ selected[n] \in fit => Updated(n) = selected[n] \/ Slower(selected[n], Updated(n))

\* While a group that is not closed has a ticker, a loop serves it: no order of Touch,
\* the idle test and Close leaves a ticker that nobody reads, which would keep every
\* later Touch from starting a loop.  (A Touch between the idle test and the lock is
\* lost: that loop still ends, and the next Touch starts another.)
LoopServesTicker ==
  ticker # 0 => closed \/ loop[ticker] \in {"begin", "select", "check", "checking", "stop"}

\* A group that is no longer dialled through stops testing by itself, closed or not:
\* its loops end, also when one was touched while it decided to.
IdleStops ==
  <>[][\A c \in Dials : ~Dial(c)]_vars => <>[](\A t \in Tickers : loop[t] \in {"none", "done"})
=============================================================================
