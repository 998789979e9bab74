# sing-box-python in TLA+

This directory specifies the parts of sing-box-python whose correctness depends on
the order in which things happen, checks them with TLC on small instances and
proves the safety properties of seven of them with TLAPS. The source is
under `src/`: the Python binding in `src/src/singbox.cpp`, and the Go program it
loads in `src/singbox-go`. `PROJECT.json` maps every definition to the lines it
models, and lists the runs, the mutants, the hazards and the theorems.

## The system and its parts

| Part | Source (under `src/`) | Module |
|---|---|---|
| Python binding | `src/singbox.cpp`, `singbox-go/binding/main.go` | `Binding` |
| Box: stages of start and close | `singbox-go/box.go`, `adapter/lifecycle.go` | `BoxLifecycle`, `Box` |
| Outbound manager | `adapter/outbound/manager.go` | `StartOrder`, `Box` |
| Endpoint, inbound and service managers | `adapter/*/manager.go` | `BoxLifecycle` (their stages) |
| Daemon service | `daemon/started_service.go`, `daemon/instance.go` | `StartedService` |
| DNS transport manager | `dns/transport_manager.go` | `TransportManager` |
| DNS client | `dns/client.go` | `DNSClient` |
| DNS connection pool | `dns/transport/conn_pool.go` | `ConnPoolSingle` |
| DNS query multiplexer | `dns/transport/multiplexer.go` | `Multiplexer`, `Exchange`, `ReuseProbe` |
| FakeIP store | `dns/transport/fakeip`, `experimental/cachefile/fakeip.go` | `FakeIPStore` |
| Network manager | `route/network.go`, `route/network_environment.go` | `NetworkManager`, `Network` |
| Connection manager | `route/conn.go` | `Connections` |
| Selector, interrupt group | `protocol/group/selector.go`, `common/interrupt` | `Connections` |
| URLTest | `protocol/group/urltest.go` | `URLTestGroup` |
| Traffic control | `common/trafficcontrol` | `Connections` (its table) |
| Router, rules, rule sets, DNS router | `route/`, `dns/router.go` | only `ResetNetwork` and the entry of a connection |
| Protocols, stream transports, TLS, sniffing, services, options, command line, packaging | the rest | not modelled |

How they interact: a `SingBox` object of the binding owns one service of the Go
library, which is a Box. A Box starts its managers stage by stage; each starts its
items, in the order of their dependencies. A connection that an inbound accepts is
entered with traffic control and carried by the connection manager over an outbound,
which may be a group that chooses among others. Questions go through the DNS client
and its cache to a DNS server that the transport manager holds; it sends them through
the multiplexer, over connections that come from the pool, and the FakeIP server
answers from its store. When the network changes, the network manager closes the
connections and resets the DNS servers. The daemon service is the other owner of a
Box, driven by graphical clients instead of Python.

The boundaries between modules are the ones of the code.

- `Box` puts `BoxLifecycle` (the stages) and `StartOrder` (the passes of
  `startOutbounds`) together; `Binding` and `StartedService` take a Box to be
  something that starts or fails and then closes, which `Box` shows (`StartEnds`,
  `ClosedReleases`). `TransportManager` takes the loop of `startTransports`, the same
  as that of `startOutbounds`, from there.
- `Network` puts `NetworkManager` and `ReuseProbe` together: the resets of the one
  are calls of `Reset` of the other.
- `Multiplexer` takes the connection pool to be what `ConnPoolSingle` shows of it
  (`OneCreator`: one caller starts the reader; `HandedOutTracked`: the connection is
  open and a Reset or Close finds it), and implements `Exchange`, which is all that
  `DNSClient` relies on: a question is answered once, by what is its own.
- `DNSClient` takes the environment as a value that changes at any time;
  `Network` shows that it follows what the manager has stored (`EnvironmentPresent`).
- `URLTestGroup` chooses; what the interruption after a choice does to connections
  is in `Connections`, with a Selector.

## The modules

In all of them a section under a mutex is one step, and every call made outside
the mutex is another. Mutants, written before the definition they change, are
plausible slips; each shows that a property can fail.

### Binding

Threads call methods of `SingBox` objects. An object has `handle_` and
`operation_in_progress_`; the Go registry is `byID` and `next`; a Go instance has the
state of its box (`core`), its `closed` flag, its context (`cancelled`) and its
`access` mutex. A method is a section under `mutex_`, a native call with the
interpreter lock released, and a second section under `mutex_`. The native call is
cut wherever Go code locks or unlocks. Start can fail while the options are read,
while the box is built, and while it starts; it can panic; stop can fail; a query
can be refused, fail, or find the service stopped. `__exit__` and the destructor
are actions too. A box whose `Start` or `Close` panics is "panicked": the binding
recovers and lets go of it, and what was at work in it goes on. `NoOrphan` says that
no other box is lost. The blocking module function `startFromJSON` is not modelled.

### BoxLifecycle, StartOrder, Box

`BoxLifecycle` has the plan of stages that `preStart` and `start` go through and the
order of `Close`, with failure, panic and cancellation between any two steps. The cache
file, the Clash API, the V2Ray API and the NTP service are components of their own,
since they begin to work at different stages. A panic in the `Close` that a failed
start makes (phase "unwinding") is recovered by `Start`, which then returns nil; one in
any other place ends in "panicked". It takes `Close` not to be called while `Start` runs;
the owners above ensure it.
`StartOrder` has the passes of `startOutbounds` over every dependency graph and the
search of `lintOutbound`. In `Box`, the place of the outbound manager in the plan is
taken by these passes, one step for each outbound, so that a start can fail or be
cancelled with some outbounds started, and an endpoint, which the outbound manager
starts and the endpoint manager closes, is released by the right one.

### StartedService

`StartOrReloadService`, `CloseService`, `Close`, `SetError` and `interruptStart`, with
a start that can be interrupted while its box is being created or started; the streams
in `followInstance`, and those that `waitForStarted`. Status updates go through an
observer that is external: a queue, and a buffer for each subscriber from which
updates are dropped when it is full (`EmitBuffer`, `Inbox`).

### TransportManager

`Create`, `Initialize`, `Start`, `Remove` and `Close` with each error return.

### DNSClient

`Exchange`, `ExchangeAsync` and `Lookup` of one question to one server, from the look
at the cache to the return: the key with the network environment, `cacheLock` and the
channel that others wait for, the refusals between them, the exchange, `storeCache`
and the background refresh of an expired answer. Every read of the environment, of
the cache and of `cacheLock` is a step of its own. Only `release` is one step where the
code deletes the entry and then closes the channel: nothing can tell a channel that is
closed later from a waiter that is slow to wake up.

### ConnPoolSingle

`AcquireShared`, `connectSingle`, `collectShared`, `Release`, `Invalidate`,
`Reset`, `Close` and `closeState`, with callers that give up, dials that hang,
connections that break, and an `IsAlive` that can or cannot tell (`detects`, chosen at the start:
QUIC connections can, multiplexed ones cannot). `ConnPoolOrdered` has no caller in
the repository and is left out.

### Multiplexer, Exchange and ReuseProbe

`Multiplexer` has the dispatch of a query, its registration under an id, the write,
the read loop, and everyone who can complete a query: its response, its context,
its connection's context, a failed write, a retry. A function given to
`context.AfterFunc` that has been triggered and not yet run is an element of a set
of late functions, which can run at any later time. `Exchange` is what a caller is
promised; the refinement mapping (`Caller`) forgets all but which queries were asked,
whose context is done and what the callbacks were called with. `ReuseProbe` has the
state that tells whether a server lets connections be reused, with the probes, the
epochs of `Reset` and the demotion by broken connections. Of that state `Multiplexer`
makes no assumption. A write that fails takes the entry, invalidates the connection and
calls back in one step; what others do in between could as well be done before or after.

### NetworkManager and Network

`NetworkManager` has the default interface, its notifications, the updates that
`dispatchInterfaceUpdateLocked` starts and cancels, `networkResetPending`,
`resetRunAccess`, the environment with its timer and its lock, the resumption after a
suspend, and `Close`. Of an interface, of routes and of the WIFI state, the model keeps
what a property can tell apart: whether there is an interface, and whether what was
read or stored is still so. `UpdateWIFIState` reads in one step and stores in another,
and what it stores may be older than what the monitor stored in between; the environment
is compared with what is stored. `Network` adds the probes of a multiplexer, the resets that
reach it from an update, from a resumption and from callers that take no lock (the API,
the memory killer, a suspend), and the histories `present` and `learned`, which say on
which network a probe was started.

### Connections

One connection from the router to its last `onClose`, or one that a part of the program
dials itself, with the three tables it is entered in: traffic control, the interrupt
group of a Selector and the connection manager. An outbound may fail after it has
connected, and then closes what it dialled. `NewConnection` and
`NewPacketConnection` are cut at every call that can fail; the two copies run by
themselves, half-close, share the flag `done`, and close both ends in the order of the
code. Meanwhile selections are made and stored, the group interrupts, `CloseAll` and the
API close.

### URLTestGroup

`Touch`, `PostStart`, `Close`, the loop of a ticker with its idle test, `urlTest` with its
`checking` flag, the tests of a batch, `performUpdateCheck` with `Select`, and dials that
load the selection and delete the history of a member that fails.

### FakeIPStore

`Create` as its look-up without the lock, its second look under the lock, its
transaction and its request to save the counter; the timer that saves it, cut
between its read and its write, so that a write that is slow meets the next one;
`Close`, cut at the unlock; the flush of the Clash API; and the end of the process,
orderly or by a crash at any point, with what the cache file keeps. Addresses are
numbered from the base of the range. The transactions of `Start` are taken to succeed.

## The runs

| Run | Instance | States | What it shows |
|---|---|---|---|
| `binding` | 2 threads, 2 objects, 2 services | 116,084 | an object that says it runs has a live service of its own; no service is shared or closed under a query, and none is lost unless it panics; every call returns |
| `box` | the real plan; 2 outbounds or none, an endpoint, every graph of dependencies with an absent tag | 320,498 | what a component needs is at work while it is, but for two gaps; a closed box leaves nothing; dependencies come first and are blamed only when no order would do; a start ends |
| `started_service` | 3 calls, 3 boxes, a following and a waiting stream | 443,610 | one box at a time, none lost; the status is true; streams hear of changes; calls return unless a start that hangs is not interrupted |
| `transport_manager` | 3 servers | 153,443 | list and map agree, the default serves, Close leaves none open |
| `transport_manager_fakeip` | the same | | finding: Remove makes a fakeip server the default |
| `dns_client` | 3 calls of 3 kinds, 2 known environments, a change | 385,191 | a waiter's owner will release it; equal questions are asked once; no answer of a former network is served; calls return |
| `conn_pool` | 2 callers, 2 dials, 2 states | 554,680 | no leak, one creator, nothing closed or untracked is handed out, a follower survives its leader's failure, calls return unless their dial hangs |
| `multiplexer` | 2 queries, 2 connections, 9 ids | 931,227 | each query has one owner until it is completed, none is stranded, and `Exchange` is implemented |
| `network` | 2 probes, a reset, a dying connection, any number of changes | 4,581,068 | a reset that is owed is on the way, the environment follows what is stored, only what was learned on the present network is believed |
| `connections` | a connection of any kind, 2 outbounds, 2 selections | 234,901 | a switch leaves no connection behind, a connection that is over is released everywhere, a closed one ends |
| `url_test` | 2 members, 3 delays each, 1 dial at a time, 2 tickers | 216,768 | the choice is right within the tolerance, a live ticker has its loop, an unused group stops testing |
| `fakeip_store` | 3 domains, 2 addresses, 2 calls, 2 lives | 638,626 | the two buckets are inverse through everything, oldest address first, an orderly restart loses nothing |

`TypeOK` in each module states the ranges of its variables. It goes into the
`INVARIANTS` of the cfg while the module is being changed.

### Bounds

- Two threads on two objects are enough to have every pair of methods overlap on
  one object and on two, and `MaxStarts` 2 to have two services at once, or a
  restart of one object. `MaxHandle` equals `MaxStarts`: a wrap-around of the 64-bit
  handle with services alive is out of scope, of the proofs too.
- Two outbounds and an endpoint, each with up to two dependencies among them, the
  fallback and a tag that is not there, give chains, cycles and missing ends.
- Three calls of the daemon service: a start, the reload that interrupts it, and the
  stop that interrupts that.
- Two states of the pool and two dials give a dial that outlives its state, and a
  second one beside it. A third dial repeats the second.
- Three DNS calls give an owner and two that wait, or a waiter that becomes an owner
  with another behind it. One change between two known environments, or between a
  known one and none, at any point of them.
- `multiplexer` has more ids than its queries can use, so that an id does not come
  round while a late function still carries it (`FreshIds`). In the code that takes
  65536 registrations; it is possible there and then breaks `OneOwner` and
  `Implements`.
- In `network` the number of changes is not bounded, so that any number overtake an
  update. One reset of the multiplexer separates probes of two epochs; the second
  dying connection and further resets are covered by the proofs.
- One connection is enough: connections meet only in the tables, and an interruption
  or `CloseAll` treats each by itself. Two selections lead there and back.
- Two members, either of which may be faster, by less than the tolerance, as much or
  more, or answer in zero milliseconds; one of them is without UDP. Two tickers give one
  that stops and its successor. Sums that wrap around at 65536 are not reached.
- Two addresses for three domains make every third new domain evict another. The
  size of the range is a number of addresses from the configured one to the last of
  the prefix, and need not be a power of two. Two lives give one restart, in either
  range, from every state a process can end in.

Deadlock is checked for `binding` and `box`. In the others all calls may have been
made and the system may rest; the liveness properties say what must have happened by
then.

### Fairness

- `Binding`: weak fairness of each thread inside a call. Go's scheduler and Python's
  run a runnable thread, and `box.Start` and `box.Close` are taken to return.
  Nobody is obliged to make a call.
- `Box`: one goroutine that proceeds.
- `StartedService`: calls proceed, and a free mutex is granted. `Box.Start` is under no
  fairness until its context is cancelled; `CallsReturn` has as its premise that no
  start goes on for ever uninterrupted.
- `ConnPoolSingle`: calls and `closeState` proceed, and a dial whose context is done
  returns. Another dial may hang; `AcquireReturns` excepts who waits for that one.
- `DNSClient`: calls proceed, and an exchange returns, as its context has a deadline.
  Nothing is assumed of a call's own context or of a background refresh.
- `URLTestGroup`: tests return (they have a timeout), loops proceed and time passes.
- `Connections`: goroutines proceed, and reading an end that was closed locally fails.
  No peer is obliged to send or to close.
- `Multiplexer`, `Network`, `FakeIPStore`, `TransportManager`: none; only safety is
  checked. In place of a liveness property, `NoneStranded` and `ResetOwed` say that
  what must come next is on the way.

## What is proved

For every value of the constants, with TLAPS:

- `BindingProofs!TypeCorrect`: `TypeOK` of `Binding`.
- `BindingProofs!RunningServes`, `OneHolder`, `NothingLost`, `NoContention`: the four
  safety properties of `Binding` that the run `binding` checks. They assume
  `MaxStarts <= MaxHandle`, that is, a process starts fewer than 2^64 services.
- `FakeIPStoreProofs!OneToOne`, `AddressesInTurn`, `CleanRestart`: `Inverse`,
  `OldestFirst` and `CleanRestartKeeps` of `FakeIPStore`. They assume a range of at
  least four addresses (`SizeAssumption`).
- `MultiplexerProofs!NoQueryStranded`: `NoneStranded`, without any assumption on ids.
- `MultiplexerRefinement!EachQueryOneOwner`: `OneOwner`, and
  `MultiplexerRefinement!MultiplexerImplements`: that `Multiplexer` implements
  `Exchange`. Both are of the form `Spec /\ []FreshIds => ...`: as long as the id that
  the next registration takes is not one that a goroutine, a late function or a request
  still carries.
- `NetworkProofs!PresentProbeDecides`, `ProbingHasAProbe`: the two properties of
  `ReuseProbe`, for any number of resets, probes and broken connections.
- `NetworkProofs!NoResetLost`, `EnvironmentFollows`, `ReuseLearnedHere`: `ResetOwed`,
  `EnvironmentPresent` and `LearnedHere` of `Network`, the network manager over the
  probes; and `ProbesUnderManager`, that the two properties of the probes hold in it.
- `ConnPoolProofs!NothingLeaks`, `SingleCreator`, `ReturnsTracked`, `FollowersGoOn`:
  `NoLeak`, `OneCreator`, `HandedOutTracked` and `FollowersUnharmed` of
  `ConnPoolSingle`, for any number of callers, resets and dials.
- `DNSClientProofs!CondIsHeld`, `OneExchange`, `CachedAnswerFits`: `CondHeld`,
  `Coalesced` and `FitsEnvironment` of `DNSClient`, for any number of calls,
  environments and changes between them, and any set of requests.
- `StartedServiceProofs!SingleBox`, `StatusHolds`, `NobodyLeftBehind`: `OneBox`,
  `StatusTrue` and `WatchersTold` of `StartedService`, for any number of calls,
  instances, followers and waiters.

Of the constants of the last four nothing is assumed but that the bounds are natural
numbers (the pool has at least one state, the failure limit is at least one, and so are
the buffers of the daemon's observer).

The argument for the binding. None of the four is inductive. `BindingProofs`
defines the strengthening: what each program counter means for the object and the
instance a thread works on (which handle it carries, whether its instance is in the
registry, who holds the instance's mutex), that at most one operation is in
progress on an object, and that handles and instances are used by one holder each.
The last is where the assumption enters: a handle is fresh because the counter has
not come round. That it has not follows from `Counted`: the starts that have yet to draw
a handle can be numbered, from the counter on, within the instances built. One that draws
the next handle passes its number on to the one that had the next. Nothing is assumed of
the number of threads.

The argument for the FakeIP store. `Inverse` is kept by storing an address for a
domain only if the domain has none. `Holding` says that it has none from the second
look until the store, because whoever is past the second look holds
`addressAccess`, and what does not take that lock (a flush, a restart) can only
empty the mapping. The order of the addresses needs `InOrder`: the addresses taken since
an address was are those between it and the counter, round the end of the range. The
restart needs `Orderly` (after an orderly `Close`, what is saved or about to be is the
store as it is), which needs `Pending`: outside of the lock, a timer that is set holds
the metadata as they are.

The argument for the multiplexer. `TInv` (in `MultiplexerProofs`) is the type
invariant with `Connected`: a run that registers or writes has a connection.
`NoneStranded` is inductive on top of it: an entry is made together with the functions
that are due already, and what makes a context or a connection done starts the functions of all entries it concerns. `OInv` adds `Match` (what
carries an id that is in the table carries the query or the connection of that entry),
`Again` (a second run exists only after the first has given its entry up), `Blank` (a
query that was not started has left no trace) and `Owned`, which says `OneOwner` run by
run. `Match` is where `FreshIds` enters: a new entry takes an id that nobody carries. The
refinement needs `LateDone` besides, that a late function of a context belongs to a
context that is done; each step of the multiplexer then is a step of `Exchange` or changes
none of what the caller sees.

The argument for the probe. `PInv` says that no probe is of a later epoch than the
present one and that only probes that were started run; with it the two properties are
inductive together. A probe of an earlier epoch ends without a trace; one of the present
epoch is alone, and ends the state "probing".

The argument for the network manager. `ResetOwed` and `EnvironmentPresent` are inductive
with `Settled`: without an update or a resumption under `resetRunAccess` there is no
place in one, what an update of the environment has read goes out of date together with
what is stored, and `Close` ends the updates first. `LearnedHere` needs `Belief`: a
probe that may yet decide was started on the present network, or a reset is to come,
which will leave it behind; after `Close` no probe is left.

The argument for the connection pool. `NoLeak` does not follow from itself: the next step
may drop the state that tracks a connection, or a call may close one that is still
shared. The invariant therefore follows a connection through its life. `Current`: an open
pool is at the last state made. `OneDial`: while a goroutine dials, its state names it
and has no connection. `Tracking`: a state tracks what was dialled for it, and what it
shares. `Claimed`: the claim is set on the connection that is shared exactly when one
caller was told. `Hands`: who is about to close a connection has taken it out of the
current state, and what that state shares is open. `Owned` and `Fresh`: after it is
installed, a connection is tracked, in the hands of who closes it, or closed, and nothing
is closed earlier. The two action properties follow from the invariant and the steps that
end a wait.

The argument for the DNS client. `Owners` makes `CondHeld` inductive: who is in
`cacheLock` is under way and waits for nobody, and who waits does so for one in
`cacheLock`, so that each return has to be shown to release what others wait for.
`Fitting` says of what is cached, and of what a call or a refresh is about to store, that
it was asked for in that environment or while none was known. `CalmInv` is the
strengthening for `Coalesced`: until the answer is stored, the only call past the cache
is the one in `cacheLock`; afterwards there is none.

The argument for the daemon service. `Alone` says that the call past its lock is one,
`Place` what it knows at each point of `s.instance`, of the instance in its local variable
and of the status: `SetError` may have made that FATAL at any point, but nothing else can
interfere. `Settled` and `Status` say that what is not settled is in the hands of a call
that will settle it; in particular, a start that was interrupted has the call that
interrupted it waiting for the lock. `OneBox` and `StatusTrue` follow. `WatchersTold` needs
`Following` and `Waiting`, which also speak of who has not subscribed yet and of what
`Close` leaves: the present status is among the updates that a waiter has received or will
receive.

Only model-checked: the properties of `Box`, `TransportManager`, `Connections` and
`URLTestGroup`, which are not proved, and liveness everywhere.
Liveness under fairness and `ENABLED` are beyond this prover, as are induction over data
and recursive operators.

## Disagreement found

- `transport_manager_fakeip`: `Remove` of the default DNS server tests the opposite
  of what its error message says (`dns/transport_manager.go:215`).

## Observed on the way

None of these has a run of its own. The properties except the cases named here, each
in the words of its comment.

Binding, Box and daemon:

- `__exit__` raises and leaves the service running if another thread is in
  `queryStats` (`src/singbox.cpp:176`; the docstring at `:308` says it stops).
- With no outbound configured, the fallback outbound is appended under the tag
  `direct` even if an endpoint has that tag. The start then counts one started tag for
  two entries and panics on a nil interface (`adapter/outbound/manager.go:73`, `:143`,
  `:162`); this ends in the phase "panicked" of `Box`.
- A panic in a component's `Start` or `Close` leaves what was started at work, and the
  binding forgets the box (`binding/main.go:155`). If it comes in the `Close` of a failed
  start, `Start` returns nil (`box.go:511`).
- An endpoint is started with the outbounds, before the router, and may accept traffic
  then; the Clash API and the NTP service are closed last, after what they use
  (`box.go:566`, `:621`).
- A stop that arrives before the instance of a start is stored, or after `SetError`, does
  not interrupt the start and waits for it (`daemon/started_service.go:320`).
- `lintOutbound` says that an endpoint in a cycle is "not found"
  (`adapter/outbound/manager.go:155`).
- `waitForStarted` reads the status before it subscribes and misses a change in
  between; updates that were queued earlier can make it return too soon; its callers
  read `s.instance` afterwards without a second look (`daemon/started_service.go:167`).

DNS:

- Two DNS servers with one tag, the default one, leave a default server that is
  never started (`dns/transport_manager.go:283`). A refused `Remove` and a failed
  `Create` leave a server open that no list holds.
- Calls that waited for an exchange whose answer was not stored each exchange on their
  own, one after another or all together; calls with different timeouts do not share
  (`dns/client.go:298`).
- A change of network and back during an exchange stores the answer of the one under
  the key of the other; a question asked while no environment was known is stored for
  the one that is known when it is answered (`dns/client.go:133`).
- The completion functions of a query find it by its id, which comes round after 65536
  registrations (`dns/transport/multiplexer.go:366`).
- The timer of the FakeIP metadata may write an older counter over the one that
  `Close` saved; a failed transaction leaves an address given out that resolves to
  nothing or to its earlier domain (`dns/transport/fakeip/store.go:103`, `:142`).

Network:

- `UpdateWIFIState` reads the WIFI state and stores it later, so that it may overwrite
  a newer one that the monitor reported meanwhile (`route/network.go:484`).
- With a platform interface, the return at the comment "race" leaves
  `networkResetPending` set with no update on the way (`route/network.go:569`).
- `Close` stops the timer of the environment before it closes the WIFI monitor, whose
  callback can start it again (`route/network.go:284`).
- `ResetNetwork` called by the API, the memory killer or a suspend takes no
  `resetRunAccess`, and may run together with that of an update.
- Losing the default interface leaves the environment as it was.

Connections and groups:

- A connection of which one direction is through, and whose other end is then closed
  by an interruption or the API, stays until its other copy ends.
- `NewPacketConnection` does not call `onClose` when the report of a handshake fails.
- Connections that a member takes itself (a group, the DNS outbound) are in no
  interrupt group of the Selector, and a connection that is being dialled during an
  interruption escapes it, although `docs/configuration/outbound/selector.md:36` says
  "Interrupt existing connections when the selected outbound has changed."
- Two overlapping selections may be stored in the other order, so that the next start
  selects what is not selected now (`protocol/group/selector.go:131`).
- `Touch` between the idle test of the loop and its lock is lost with the ticker; the
  next one starts another. `Touch` after `Close` makes a ticker that nobody stops, and
  `Close` without a ticker does not close `g.close`. A forced check is dropped while
  another runs (`protocol/group/urltest.go:265`, `:281`, `:373`).
- In `Select` a delay of zero counts as none, and `Delay + tolerance` wraps around at
  65536 (`protocol/group/urltest.go:322`).

## What is not modelled, and why

- Wire formats, cryptography, TLS, sniffing, sockets and platform code: parsing and
  input/output over libraries outside the repository, and most of its lines. Their
  life cycle is that of the managers.
- Options, schema, command line, packaging: declarations and scripts. The one check
  that matters here, of equal tags, is a premise of `StartOrder`.
- Router, rules and rule sets, the DNS router: which outbound or server is chosen is a
  function of rules and metadata, that is, of data. Rule sets are swapped whole under a
  lock of their own.
- Totals and the event stream of traffic control, the counters of the V2Ray statistics:
  independent atomic integers and a log.
- Groups within groups, `getProxyDelay`, the memory killer, the Clash API beyond the
  calls above: they repeat or forward what is modelled.
- The interface list of a platform interface in `NetworkManager`, and failures of
  `NewNetworkManager` over its options.
- `ConnPoolOrdered`, `Store.Reset`, `FakeIPStoreAsync`, and `Create` and `Remove` of the
  outbound, endpoint, inbound and service managers once they run: nothing calls them.
- The exit codes of the blocking `startFromJSON`.
