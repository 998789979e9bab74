-------------------------- MODULE TransportManager --------------------------
(***************************************************************************)
(* TransportManager (dns/transport_manager.go): the DNS servers of an      *)
(* instance by tag, the default one and the fakeip one.  New creates them, *)
(* Start and Close take them up and down, Create and Remove also serve a   *)
(* manager that is running.                                                *)
(***************************************************************************)
EXTENDS Naturals, Sequences, Functions, FiniteSets

CONSTANTS
  Tags,        \* tags of DNS servers
  Local,       \* "local", the tag of the fallback server
  MaxServers   \* bound on the servers created

None == [id |-> 0, tag |-> "", fake |-> FALSE, deps |-> {}]

VARIABLES
  defaultTag,        \* m.defaultTag, or ""
  phase,             \* "new", "aborted" (New failed), "initialized", "failed", "running", "closed"
  started,           \* m.started
  transports,        \* m.transports
  transportByTag,    \* m.transportByTag, None where there is no entry
  dependByTag,       \* m.dependByTag
  defaultTransport,  \* m.defaultTransport
  fakeIPTransport,   \* m.fakeIPTransport
  made,              \* servers created
  open,              \* ids of the servers started and not closed
  plain              \* history: tags are distinct, and only New has called Create

vars == <<defaultTag, phase, started, transports, transportByTag, dependByTag,
          defaultTransport, fakeIPTransport, made, open, plain>>

AllTags == Tags \cup {Local}
Transport == [id : 1..(MaxServers + 1), tag : AllTags, fake : BOOLEAN, deps : SUBSET AllTags]
Ids(s) == {s[i].id : i \in DOMAIN s}

TypeOK ==
  /\ defaultTag \in Tags \cup {""}
  /\ phase \in {"new", "aborted", "initialized", "failed", "running", "closed"}
  /\ started \in BOOLEAN /\ transports \in Seq(Transport)
  /\ transportByTag \in [AllTags -> Transport \cup {None}]
  /\ dependByTag \in [AllTags -> Seq(AllTags)]
  /\ defaultTransport \in Transport \cup {None}
  /\ fakeIPTransport \in Transport \cup {None} /\ (fakeIPTransport # None => fakeIPTransport.fake)
  /\ made \in 0..(MaxServers + 1)
  /\ open \subseteq 1..made /\ plain \in BOOLEAN

Init ==
  /\ defaultTag \in Tags \cup {""}
  /\ phase = "new" /\ started = FALSE
  /\ transports = <<>> /\ transportByTag = [t \in AllTags |-> None]
  /\ dependByTag = [t \in AllTags |-> <<>>]
  /\ defaultTransport = None /\ fakeIPTransport = None
  /\ made = 0 /\ open = {} /\ plain = TRUE

\* A server of the configuration, or one for a running manager, depends on at
\* most one other (domain_resolver), as far as the model goes.  Nothing rejects a
\* configuration with two servers of one tag.
Inputs ==
  {tr \in [id : {made + 1}, tag : Tags, fake : BOOLEAN, deps : {{}} \cup {{t} : t \in Tags}] :
     /\ tr.fake => tr.deps = {}
     /\ tr.tag \notin tr.deps}

Abort(error) == phase' = IF error /\ ~started THEN "aborted" ELSE phase

\* Create once the server has been made and, in a running manager, started: it
\* takes the place of the one with its tag, and is registered also when it then
\* turns out to be no good as the default or as a second fakeip server.
Register(tr) ==
  LET isDefault == tr.tag = defaultTag \/ (defaultTag = "" /\ defaultTransport = None)
      error == tr.fake /\ (isDefault \/ fakeIPTransport # None)
  IN  /\ transports' = Append(SelectSeq(transports, LAMBDA s : s # transportByTag[tr.tag]), tr)
      /\ transportByTag' = [transportByTag EXCEPT ![tr.tag] = tr]
      /\ dependByTag' = [t \in AllTags |-> IF t \in tr.deps THEN Append(dependByTag[t], tr.tag) ELSE dependByTag[t]]
      /\ defaultTransport' = IF isDefault /\ ~tr.fake THEN tr ELSE defaultTransport
      /\ fakeIPTransport' = IF tr.fake /\ ~error THEN tr ELSE fakeIPTransport
      /\ open' = IF started THEN (open \ {transportByTag[tr.tag].id}) \cup {tr.id} ELSE open
      /\ Abort(error)

Create ==
  /\ phase \in {"new", "running"}
  /\ made < MaxServers
  /\ made' = made + 1
  /\ \E tr \in Inputs :
       /\ Register(tr)
       /\ plain' = (plain /\ phase = "new" /\ transportByTag[tr.tag] = None)
  /\ UNCHANGED <<defaultTag, started>>

\* The server cannot be made or, in a running manager, fails at one of the stages it is
\* taken through.  It may have been started at an earlier one, and nobody closes it.
CreateFails ==
  /\ phase \in {"new", "running"}
  /\ made < MaxServers
  /\ made' = made + 1 /\ Abort(TRUE)
  /\ plain' = (plain /\ phase = "new")
  /\ open' \in {open} \cup (IF started THEN {open \cup {made + 1}} ELSE {})
  /\ UNCHANGED <<defaultTag, started, transports, transportByTag, dependByTag,
                 defaultTransport, fakeIPTransport>>

\* The server that has the tag does not close: the new one, already started, is
\* dropped.
CreateCloseFails ==
  /\ phase = "running" /\ made < MaxServers
  /\ \E tr \in Inputs :
       /\ transportByTag[tr.tag] # None
       /\ open' = (open \ {transportByTag[tr.tag].id}) \cup {tr.id}
  /\ made' = made + 1 /\ plain' = FALSE
  /\ UNCHANGED <<defaultTag, phase, started, transports, transportByTag, dependByTag,
                 defaultTransport, fakeIPTransport>>

\* Start(StartStateInitialize).  After an error the box is closed.
StartInitialize ==
  /\ phase = "new"
  /\ phase' = "initialized" /\ started' = TRUE
  /\ LET local == [id |-> made + 1, tag |-> Local, fake |-> FALSE, deps |-> {}] IN
       IF defaultTransport = None /\ defaultTag = ""
       THEN /\ transports' = Append(transports, local)
            /\ transportByTag' = [transportByTag EXCEPT ![Local] = local]
            /\ defaultTransport' = local
            /\ made' = made + 1
       ELSE UNCHANGED <<transports, transportByTag, defaultTransport, made>>
  /\ UNCHANGED <<defaultTag, dependByTag, fakeIPTransport, open, plain>>

\* The configured default server was found, or a fallback made.
DefaultFound == defaultTransport # None

\* Start(StartStateStart), by startTransports (see StartOrder).
StartTransports ==
  /\ phase = "initialized" /\ DefaultFound
  /\ phase' = "running"
  /\ open' = Ids(transports)
  /\ UNCHANGED <<defaultTag, started, transports, transportByTag, dependByTag,
                 defaultTransport, fakeIPTransport, made, plain>>

\* Some of the servers are started when one fails.
StartTransportsFails ==
  /\ phase = "initialized" /\ DefaultFound
  /\ phase' = "failed"
  /\ \E ids \in SUBSET Ids(transports) : open' = open \cup ids
  /\ UNCHANGED <<defaultTag, started, transports, transportByTag, dependByTag,
                 defaultTransport, fakeIPTransport, made, plain>>

\* Mutant: the list is cleared before the servers are taken from it.
CloseCleared ==
  /\ phase \in {"new", "initialized", "failed", "running"}
  /\ phase' = "closed" /\ started' = FALSE
  /\ transports' = IF started THEN <<>> ELSE transports
  /\ open' = IF started THEN open \ Ids(transports') ELSE open
  /\ UNCHANGED <<defaultTag, transportByTag, dependByTag, defaultTransport, fakeIPTransport, made, plain>>

Close ==
  /\ phase \in {"new", "initialized", "failed", "running"}
  /\ phase' = "closed" /\ started' = FALSE
  /\ transports' = IF started THEN <<>> ELSE transports
  /\ open' = IF started THEN open \ Ids(transports) ELSE open
  /\ UNCHANGED <<defaultTag, transportByTag, dependByTag, defaultTransport, fakeIPTransport, made, plain>>

\* Remove.  The server is taken out of the map and the list before anything is
\* refused; a server that is refused afterwards is not closed.
Remove ==
  /\ phase \in {"new", "running"} /\ plain' = FALSE
  /\ \E tag \in AllTags :
       /\ transportByTag[tag] # None
       /\ LET tr == transportByTag[tag]
              rest == SelectSeq(transports, LAMBDA s : s # tr)
              next == IF rest = <<>> THEN None ELSE rest[1]
              refused == defaultTransport = tr /\ next # None /\ ~next.fake
              error == refused \/ dependByTag[tag] # <<>>
          IN  /\ transportByTag' = [transportByTag EXCEPT ![tag] = None]
              /\ transports' = rest
              /\ defaultTransport' = IF defaultTransport = tr /\ ~refused THEN next ELSE defaultTransport
              /\ dependByTag' = [t \in AllTags |->
                   IF error \/ t \notin tr.deps THEN dependByTag[t]
                   ELSE IF Len(dependByTag[t]) = 1 THEN <<>>
                   ELSE SelectSeq(dependByTag[t], LAMBDA u : u # tag)]
              /\ open' = IF started /\ ~error THEN open \ {tr.id} ELSE open
  /\ UNCHANGED <<defaultTag, phase, started, fakeIPTransport, made>>

Next ==
  \/ Create \/ CreateFails \/ CreateCloseFails \/ Remove
  \/ StartInitialize \/ StartTransports \/ StartTransportsFails \/ Close

Spec == Init /\ [][Next]_vars

----------------------------------------------------------------------------
(* Properties. *)

\* Until Close, the list and the map hold the same servers, one for a tag, also where
\* Create and Remove return an error half way: they panic with "invalid inbound
\* index" otherwise.  A running manager has a default server, and it is one that was started: the
\* DNS router sends it what no rule matches.  After Close, also one that follows a
\* failed start, no server is left open.  (As long as the manager is used as box.New
\* does, with distinct tags: a second server with the tag of the default one takes
\* its place in the list, and the default is never started; a Remove that is refused,
\* or a Create that cannot close what it replaces, leaves a server that is started
\* and in no list.)
ServesUntilClosed ==
  /\ phase # "closed" =>
       /\ Range(transports) = {transportByTag[t] : t \in AllTags} \ {None}
       /\ Cardinality(Range(transports)) = Len(transports)
  /\ plain => /\ phase = "running" => defaultTransport.id \in open
              /\ phase = "closed" => open = {}

\* "the default DNS server can no longer be `fakeip`" (docs/changelog.md): fakeip answers
\* with made up addresses, and nothing would resolve the real ones.
DefaultNotFakeIP == ~defaultTransport.fake
=============================================================================
