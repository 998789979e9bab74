----------------------------- MODULE Connections -----------------------------
(***************************************************************************)
(* A connection that is routed to a Selector, from the router to the last  *)
(* onClose.  It is entered in three tables: the connections of the traffic *)
(* manager (common/trafficcontrol), the interrupt group of the Selector    *)
(* (protocol/group/selector.go, common/interrupt) and the connections of   *)
(* the ConnectionManager (route/conn.go), which also carries it: it dials, *)
(* starts a copy in either direction, and closes both ends when they are   *)
(* through.  Meanwhile the user selects another outbound, or all           *)
(* connections are closed.  Connections that parts of the program dial     *)
(* through the Selector themselves are "internal": they have no local end, *)
(* and the ConnectionManager only tracks them.                             *)
(*                                                                         *)
(* "local" is the inbound end, a connTracker or packetConnTracker;         *)
(* "remote" the outbound end, an interrupt.Conn around a trackedConn.      *)
(***************************************************************************)
EXTENDS Naturals, Sequences

CONSTANTS
  Outbounds,   \* the members of the Selector
  Handlers,    \* those of them that take connections themselves: groups, dns
  Default,     \* the one it selects when none is stored
  MaxConns,    \* bound on the connections
  MaxSelects   \* bound on the calls of SelectOutbound

None == "none"
Conns == 1..MaxConns      \* in the order they are routed
Selects == 1..MaxSelects  \* in the order they swap the selection
Threads == {"main", "upload", "download"}

Kinds == {"stream", "packet", "internal"}

ASSUME SelectorAssumption == Default \in Outbounds /\ Handlers \subseteq Outbounds /\ None \notin Outbounds

VARIABLES
  selected,  \* s.selected
  stored,    \* the selection in the cache file
  select,    \* the calls of SelectOutbound: what is left to do, and the outbound
  external,  \* s.interruptExternalConnections
  kind,      \* NewConnection, NewPacketConnection or neither
  handed,    \* the connections that went to a member that takes them itself
  via,       \* the outbound a connection is dialled through
  pc,        \* where NewConnection is, or NewPacketConnection
  todo,      \* what is left to do for a goroutine of the connection
  local,     \* whether the ends are "open" or "closed"
  remote,
  joined,    \* the connections in the table of the traffic manager,
  grouped,   \* in the interrupt group,
  tracked,   \* and in the ConnectionManager
  closers,   \* what CloseAll has taken from there and is to close
  copying,   \* the copies that have not ended
  done,      \* the flag the two copies share
  ended,     \* history: calls of onClose
  late       \* history: see SwitchInterrupts

selectVars == <<selected, stored, select, external>>
ends == <<local, remote, joined, grouped, tracked>>
flow == <<kind, handed, via, pc, todo, copying, done, ended>>
vars == <<selectVars, ends, flow, closers, late>>

Idle == [pc |-> "none", tag |-> None]
Steps == {"local", "remote", "onClose", "last", "first"}

TypeOK ==
  /\ selected \in Outbounds /\ stored \in Outbounds \cup {None}
  /\ select \in [Selects -> [pc : {"none", "store", "interrupt", "done"}, tag : Outbounds \cup {None}]]
  /\ external \in BOOLEAN /\ kind \in [Conns -> Kinds] /\ handed \subseteq Conns
  /\ via \in [Conns -> Outbounds \cup {None}]
  /\ pc \in [Conns -> {"none", "load", "dial", "group", "report", "copy", "end"}]
  /\ \A c \in Conns, t \in Threads : \A i \in DOMAIN todo[c][t] : todo[c][t][i] \in Steps
  /\ local \in [Conns -> {"none", "open", "closed"}] /\ remote \in [Conns -> {"none", "open", "closed"}]
  /\ joined \subseteq Conns /\ grouped \subseteq Conns /\ tracked \subseteq Conns
  /\ closers \subseteq Conns /\ late \subseteq Conns
  /\ copying \in [Conns -> SUBSET {"upload", "download"}]
  /\ done \in [Conns -> BOOLEAN] /\ ended \in [Conns -> 0..2]

\* Start of the Selector: the selection that was stored, or the default.
Startup(s) == IF s # None THEN s ELSE Default

Init ==
  /\ stored \in Outbounds \cup {None} /\ selected = Startup(stored)
  /\ select = [s \in Selects |-> Idle]
  /\ external \in BOOLEAN /\ kind = [c \in Conns |-> "stream"] /\ handed = {}
  /\ via = [c \in Conns |-> None] /\ pc = [c \in Conns |-> "none"]
  /\ todo = [c \in Conns |-> [t \in Threads |-> <<>>]]
  /\ local = [c \in Conns |-> "none"] /\ remote = [c \in Conns |-> "none"]
  /\ joined = {} /\ grouped = {} /\ tracked = {} /\ closers = {} /\ late = {}
  /\ copying = [c \in Conns |-> {}] /\ done = [c \in Conns |-> FALSE]
  /\ ended = [c \in Conns |-> 0]

----------------------------------------------------------------------------
(* Closing an end.  Either may be closed more than once. *)

\* connTracker.Close: leave, and close.
CloseLocal(c) ==
  /\ local' = [local EXCEPT ![c] = "closed"] /\ joined' = joined \ {c}
  /\ UNCHANGED <<remote, grouped, tracked>>

\* interrupt.Conn.Close, and trackedConn.Close under it.
CloseRemote(c) ==
  /\ remote' = [remote EXCEPT ![c] = "closed"]
  /\ grouped' = grouped \ {c} /\ tracked' = tracked \ {c}
  /\ UNCHANGED <<local, joined>>

----------------------------------------------------------------------------
(* Selector. *)

\* SelectOutbound swaps the selection and returns if it was the same.
SelectOutbound(s, tag) ==
  /\ select[s].pc = "none" /\ \A r \in 1..(s - 1) : select[r].pc # "none"
  /\ selected' = tag /\ UNCHANGED external
  /\ select' = [select EXCEPT ![s] =
                  IF tag = selected THEN [Idle EXCEPT !.pc = "done"] ELSE [pc |-> "store", tag |-> tag]]
  /\ UNCHANGED <<stored, ends, flow, closers, late>>

\* Mutant: an error ends SelectOutbound.
StoreSelectedReturns(s) ==
  /\ select[s].pc = "store"
  /\ \/ /\ stored' = select[s].tag
        /\ select' = [select EXCEPT ![s] = [Idle EXCEPT !.pc = "interrupt"]]
     \/ /\ UNCHANGED stored
        /\ select' = [select EXCEPT ![s] = [Idle EXCEPT !.pc = "done"]]
  /\ UNCHANGED <<selected, external, ends, flow, closers, late>>

\* It stores the selection, and only logs it if that fails, ...
StoreSelected(s) ==
  /\ select[s].pc = "store"
  /\ select' = [select EXCEPT ![s] = [Idle EXCEPT !.pc = "interrupt"]]
  /\ \/ stored' = select[s].tag
     \/ UNCHANGED stored
  /\ UNCHANGED <<selected, external, ends, flow, closers, late>>

\* ... and interrupts: Group.Interrupt closes the trackedConns.
Interrupt(s) ==
  LET cut == {c \in grouped : kind[c] = "internal" \/ external}
  IN  /\ select[s].pc = "interrupt"
      /\ select' = [select EXCEPT ![s].pc = "done"]
      /\ grouped' = grouped \ cut /\ tracked' = tracked \ cut
      /\ remote' = [c \in Conns |-> IF c \in cut THEN "closed" ELSE remote[c]]
      /\ late' = late \cup {c \in Conns : pc[c] \in {"dial", "group"} /\ via[c] # selected}
      /\ UNCHANGED <<selected, stored, external, local, joined, flow, closers>>

----------------------------------------------------------------------------
(* NewConnection and NewPacketConnection. *)

\* The router enters the connection with the traffic manager and passes it on to the
\* Selector, which may pass it on in turn; an internal connection is dialled right away.
Route(c, k) ==
  /\ pc[c] = "none" /\ \A d \in 1..(c - 1) : pc[d] # "none"
  /\ pc' = [pc EXCEPT ![c] = "load"] /\ kind' = [kind EXCEPT ![c] = k]
  /\ IF k = "internal" THEN UNCHANGED <<local, joined, handed, via>>
     ELSE /\ local' = [local EXCEPT ![c] = "open"] /\ joined' = joined \cup {c}
          /\ IF selected \in Handlers
             THEN handed' = handed \cup {c} /\ via' = [via EXCEPT ![c] = selected]
             ELSE UNCHANGED <<handed, via>>
  /\ UNCHANGED <<selectVars, remote, grouped, tracked, todo, copying, done, ended, closers, late>>

\* DialContext and ListenPacket of the Selector load the selection.
Load(c) ==
  /\ pc[c] = "load" /\ pc' = [pc EXCEPT ![c] = "dial"]
  /\ via' = [via EXCEPT ![c] = IF c \in handed THEN @ ELSE selected]
  /\ UNCHANGED <<selectVars, ends, kind, handed, todo, copying, done, ended, closers, late>>

\* The dialer of the outbound enters the connection with TrackConn.
TrackConn(c) ==
  /\ pc[c] = "dial" /\ pc' = [pc EXCEPT ![c] = "group"]
  /\ remote' = [remote EXCEPT ![c] = "open"] /\ tracked' = tracked \cup {c}
  /\ UNCHANGED <<selectVars, local, joined, grouped, kind, handed, via, todo, copying, done, ended, closers, late>>

\* The Selector enters it in its group, if it has dialled.
NewConn(c) ==
  /\ pc[c] = "group" /\ pc' = [pc EXCEPT ![c] = "report"]
  /\ grouped' = IF c \in handed THEN grouped ELSE grouped \cup {c}
  /\ UNCHANGED <<selectVars, local, remote, joined, tracked, kind, handed, via, todo, copying, done, ended, closers, late>>

End(c, steps) ==
  /\ pc' = [pc EXCEPT ![c] = "end"]
  /\ todo' = [todo EXCEPT ![c]["main"] = steps]
  /\ UNCHANGED <<selectVars, ends, kind, handed, via, copying, done, ended, closers, late>>

DialFails(c) == pc[c] = "dial" /\ End(c, IF kind[c] = "internal" THEN <<>> ELSE <<"local", "onClose">>)

\* The outbound's own handshake fails on the connection it has dialled, which it closes.
HandshakeFails(c) ==
  /\ pc[c] = "group" /\ pc' = [pc EXCEPT ![c] = "end"]
  /\ remote' = [remote EXCEPT ![c] = "none"] /\ tracked' = tracked \ {c}
  /\ todo' = [todo EXCEPT ![c]["main"] = IF kind[c] = "internal" THEN <<>> ELSE <<"local", "onClose">>]
  /\ UNCHANGED <<selectVars, local, joined, grouped, kind, handed, via, copying, done, ended, closers, late>>

\* Mutant: the remote end is left open.
ReportFailsOpen(c) ==
  /\ pc[c] = "report" /\ kind[c] # "internal"
  /\ End(c, IF kind[c] = "packet" THEN <<"local", "remote">> ELSE <<"local", "onClose">>)

\* The report of success to the inbound fails, or the set-up of tls_spoof.
ReportFails(c) ==
  /\ pc[c] = "report" /\ kind[c] # "internal"
  /\ End(c, IF kind[c] = "packet" THEN <<"local", "remote">> ELSE <<"remote", "local", "onClose">>)

\* kickWriteHandshake fails, towards the remote or the local end.
KickFails(c) ==
  /\ pc[c] = "report" /\ kind[c] = "stream"
  /\ \/ End(c, <<"onClose", "local", "remote">>)
     \/ End(c, <<"onClose", "remote", "local">>)

Copy(c) ==
  /\ pc[c] = "report" /\ kind[c] # "internal"
  /\ pc' = [pc EXCEPT ![c] = "copy"]
  /\ copying' = [copying EXCEPT ![c] = {"upload", "download"}]
  /\ UNCHANGED <<selectVars, ends, kind, handed, via, todo, done, ended, closers, late>>

\* The part that dialled an internal connection closes it.
InternalCloses(c) == pc[c] = "report" /\ kind[c] = "internal" /\ End(c, <<"remote">>)

----------------------------------------------------------------------------
(* connectionCopy and packetConnectionCopy. *)

Source(dir) == IF dir = "upload" THEN "local" ELSE "remote"
Destination(dir) == IF dir = "upload" THEN "remote" ELSE "local"
EndOf(c, end) == IF end = "local" THEN local[c] ELSE remote[c]
Both(dir) == <<Source(dir), Destination(dir)>>

CopyEnds(c, dir, steps) ==
  /\ dir \in copying[c]
  /\ copying' = [copying EXCEPT ![c] = @ \ {dir}]
  /\ todo' = [todo EXCEPT ![c][dir] = steps]
  /\ UNCHANGED <<selectVars, ends, kind, handed, via, pc, done, ended, closers, late>>

\* Mutant: an error does not close the ends.
CopyFailsOpen(c, dir) == kind[c] = "stream" /\ CopyEnds(c, dir, <<"last">>)

\* The copy, or the CloseWrite after it, fails.
CopyFails(c, dir) == kind[c] = "stream" /\ CopyEnds(c, dir, Both(dir) \o <<"last">>)

\* The source has ended; a destination without CloseWrite is closed.
CopyFinishes(c, dir) ==
  /\ kind[c] = "stream" /\ EndOf(c, Source(dir)) = "open"
  /\ CopyEnds(c, dir, <<"last">>) \/ CopyEnds(c, dir, <<Destination(dir), "last">>)

PacketCopyEnds(c, dir) == kind[c] = "packet" /\ CopyEnds(c, dir, <<"first">>)

----------------------------------------------------------------------------
(* What the goroutines do in order. *)

Then(c, t, steps) == todo' = [todo EXCEPT ![c][t] = steps \o Tail(@)]

Perform(c, t) ==
  LET step == Head(todo[c][t])
  IN  /\ todo[c][t] # <<>>
      /\ \/ step = "local" /\ CloseLocal(c) /\ Then(c, t, <<>>) /\ UNCHANGED <<done, ended>>
         \/ step = "remote" /\ CloseRemote(c) /\ Then(c, t, <<>>) /\ UNCHANGED <<done, ended>>
         \/ /\ step = "onClose" /\ ended' = [ended EXCEPT ![c] = @ + 1] /\ Then(c, t, <<>>)
            /\ UNCHANGED <<ends, done>>
         \* done.Swap of connectionCopy: the second copy calls onClose and closes both ends.
         \/ /\ step = "last" /\ done' = [done EXCEPT ![c] = TRUE]
            /\ Then(c, t, IF done[c] THEN <<"onClose">> \o Both(t) ELSE <<>>)
            /\ UNCHANGED <<ends, ended>>
         \* done.Swap of packetConnectionCopy: the first calls onClose, and each closes both ends.
         \/ /\ step = "first" /\ done' = [done EXCEPT ![c] = TRUE]
            /\ Then(c, t, IF done[c] THEN Both(t) ELSE <<"onClose">> \o Both(t))
            /\ UNCHANGED <<ends, ended>>
      /\ UNCHANGED <<selectVars, kind, handed, via, pc, copying, closers, late>>

----------------------------------------------------------------------------
(* From outside. *)

\* CloseAll takes all connections out of the list, ...
CloseAll ==
  /\ tracked # {} /\ tracked' = {} /\ closers' = closers \cup tracked
  /\ UNCHANGED <<selectVars, local, remote, joined, grouped, flow, late>>

\* ... and then closes them.
CloseRaw(c) ==
  /\ c \in closers /\ closers' = closers \ {c}
  /\ remote' = [remote EXCEPT ![c] = IF @ = "open" THEN "closed" ELSE @]
  /\ UNCHANGED <<selectVars, local, joined, grouped, tracked, flow, late>>

\* CloseConnection and CloseAllConnections of the API close what the traffic manager has.
CloseConnection(c) ==
  /\ c \in joined /\ CloseLocal(c)
  /\ UNCHANGED <<selectVars, flow, closers, late>>

----------------------------------------------------------------------------

SelectStep(s) == StoreSelected(s) \/ Interrupt(s)
MainStep(c) ==
  \/ Load(c) \/ TrackConn(c) \/ NewConn(c) \/ DialFails(c) \/ HandshakeFails(c) \/ ReportFails(c) \/ KickFails(c) \/ Copy(c)
CopyStep(c, dir) == CopyFails(c, dir) \/ CopyFinishes(c, dir) \/ PacketCopyEnds(c, dir)

Next ==
  \/ \E s \in Selects : SelectStep(s) \/ \E o \in Outbounds : SelectOutbound(s, o)
  \/ \E c \in Conns :
       \/ \E k \in Kinds : Route(c, k)
       \/ InternalCloses(c) \/ MainStep(c) \/ CloseRaw(c) \/ CloseConnection(c)
       \/ \E t \in Threads : Perform(c, t)
       \/ \E dir \in {"upload", "download"} : CopyStep(c, dir)
  \/ CloseAll

Spec == Init /\ [][Next]_vars

\* The goroutines run, a dial ends, and so does a copy from an end that is closed.
\* Nothing is assumed of a copy between open ends.
FairSpec ==
  /\ Spec
  /\ \A c \in Conns :
       /\ WF_vars(MainStep(c)) /\ WF_vars(CloseRaw(c))
       /\ \A t \in Threads : WF_vars(Perform(c, t))
       /\ \A dir \in {"upload", "download"} :
            /\ WF_vars(EndOf(c, Source(dir)) = "closed" /\ CopyFails(c, dir))
            /\ WF_vars(EndOf(c, Source(dir)) = "closed" /\ PacketCopyEnds(c, dir))

----------------------------------------------------------------------------
(* Properties. *)

\* An open connection that the Selector has dialled through another outbound than the
\* one it has selected awaits an interruption, unless it is an inbound connection and
\* those are left alone, or was being dialled when the interruption came.
SwitchInterrupts ==
  \A c \in Conns \ (handed \cup late) :
    (remote[c] = "open" /\ pc[c] # "group" /\ via[c] # selected) =>
      \/ kind[c] # "internal" /\ ~external
      \/ \E s \in Selects : select[s].pc \in {"store", "interrupt"}

\* The goroutines of a connection have ended.
Over(c) == pc[c] \in {"copy", "end"} /\ copying[c] = {} /\ \A t \in Threads : todo[c][t] = <<>>

\* A connection that is over is in none of the tables and both of its ends are closed.
\* onClose was called once, but not by NewPacketConnection if the report failed.
Released ==
  \A c \in Conns : Over(c) =>
    /\ c \notin joined \cup grouped \cup tracked
    /\ local[c] # "open" /\ remote[c] # "open"
    /\ ended[c] = IF \/ kind[c] = "internal"
                     \/ kind[c] = "packet" /\ pc[c] = "end" /\ remote[c] = "closed"
                  THEN 0 ELSE 1

\* When an end is closed, by an interruption, by CloseAll or by the API, the connection
\* ends, unless the copy from that end has ended before.
ClosedEnds ==
  \A c \in Conns : \A dir \in {"upload", "download"} :
    (/\ EndOf(c, Source(dir)) = "closed" /\ kind[c] # "internal"
     /\ pc[c] # "copy" \/ dir \in copying[c]) ~> Over(c)
=============================================================================
