---------------------------- MODULE FakeIPStore ----------------------------
(***************************************************************************)
(* Store (dns/transport/fakeip/store.go) over its storage, the cache file  *)
(* (experimental/cachefile/fakeip.go) or memory.go: made up addresses for  *)
(* domains, given out in turn from a range, found again when a connection  *)
(* goes to one of them, and kept over restarts and crashes.                *)
(*                                                                         *)
(* One address family; IPv6 is handled in the same way.  Addresses are     *)
(* numbered from the base of the range.  A transaction of the cache file   *)
(* is one step, and so is a section under saveMetadataAccess.  The         *)
(* transactions of Start are taken to succeed, and the database to be open *)
(* as long as there are calls.                                             *)
(***************************************************************************)
EXTENDS Naturals

CONSTANTS
  Domains,   \* domain names
  Size,      \* addresses from the configured one to the last of its prefix
  Calls,     \* calls of Create that can overlap
  MaxLives,  \* bound on the starts
  None       \* no domain, no call

ASSUME SizeAssumption == Size \in Nat /\ Size >= 4
ASSUME LivesAssumption == MaxLives \in Nat
ASSUME NoneAssumption == None \notin Domains /\ None \notin Calls

Last == Size - 1          \* s.inet4Last
Usable == 2..(Size - 2)   \* the base, the one after it and the last are not given out
Counter == 1..(Size - 2)  \* values of s.inet4Current
Nil == 0                  \* no address
Ranges == {1, 2}          \* configured ranges, of one size
NoMetadata == [range |-> 0, current |-> 0]
Metadata == [range : Ranges, current : Counter] \cup {NoMetadata}

VARIABLES
  persistent,    \* the storage is the cache file, not MemoryStorage
  phase,         \* "down", "up", "saving" (in Store.Close), "closed"
  lives,         \* starts so far
  range,         \* s.inet4Range
  domainOf,      \* the bucket "address"
  addressOf,     \* the bucket "domain4"
  meta,          \* the metadata in the bucket "address"
  current,       \* s.inet4Current
  access,        \* the call that holds s.addressAccess
  closing,       \* the metadata that Store.Close saves
  saveMetadata,  \* c.saveMetadata
  timer,         \* c.saveMetadataTimer is set
  saving,        \* what runs of the timer's function read and have yet to save
  pc,            \* of a call: "idle", "lock", "store", "save"
  domain,        \* its argument
  address,       \* the address it has taken
  clean,         \* history: Store.Close saved the metadata, and nothing happened
                 \* besides, or since
  since          \* history: the addresses taken since this one was; all of them
                 \* for one not taken in this life

dbVars == <<domainOf, addressOf, meta>>
saveVars == <<saveMetadata, timer, saving>>
callVars == <<pc, domain, address>>
vars == <<persistent, phase, lives, range, dbVars, current, access, closing, saveVars,
          callVars, clean, since>>

TypeOK ==
  /\ persistent \in BOOLEAN /\ phase \in {"down", "up", "saving", "closed"}
  /\ lives \in 0..MaxLives /\ range \in Ranges
  /\ domainOf \in [Usable -> Domains \cup {None}]
  /\ addressOf \in [Domains -> Usable \cup {Nil}]
  /\ meta \in Metadata /\ current \in Counter
  /\ access \in Calls \cup {None} /\ closing \in Metadata
  /\ saveMetadata \in Metadata /\ timer \in BOOLEAN /\ saving \subseteq Metadata \ {NoMetadata}
  /\ pc \in [Calls -> {"idle", "lock", "store", "save"}]
  /\ domain \in [Calls -> Domains \cup {None}]
  /\ address \in [Calls -> Usable \cup {Nil}]
  /\ clean \in BOOLEAN /\ since \in [Usable -> SUBSET Usable]

Unmapped == [a \in Usable |-> None]
Untaken == [a \in Usable |-> Usable]

Init ==
  /\ persistent \in BOOLEAN /\ phase = "down" /\ lives = 0
  /\ range = 1 /\ current = 1
  /\ domainOf = Unmapped /\ addressOf = [d \in Domains |-> Nil] /\ meta = NoMetadata
  /\ access = None /\ closing = NoMetadata
  /\ saveMetadata = NoMetadata /\ timer = FALSE /\ saving = {}
  /\ pc = [c \in Calls |-> "idle"]
  /\ domain = [c \in Calls |-> None] /\ address = [c \in Calls |-> Nil]
  /\ since = Untaken /\ clean = FALSE

\* FakeIPReset deletes the buckets, and with them the metadata.
FakeIPReset ==
  /\ domainOf' = Unmapped
  /\ addressOf' = [d \in Domains |-> Nil]
  /\ meta' = NoMetadata

\* Start.  FakeIPMetadata deletes what it loads; without metadata, or with those
\* of another range, there is nothing to go on from.
Start ==
  /\ phase = "down" /\ lives < MaxLives
  /\ phase' = "up" /\ lives' = lives + 1 /\ clean' = FALSE
  /\ range' \in Ranges
  /\ \/ /\ meta.range = range'
        /\ current' = meta.current /\ meta' = NoMetadata
        /\ UNCHANGED <<domainOf, addressOf>>
     \/ /\ meta.range # range'
        /\ current' = 1
        /\ FakeIPReset
  /\ UNCHANGED <<persistent, access, closing, saveVars, callVars, since>>

\* The process ends: after Close, or by a crash at any point.
Stop ==
  /\ phase # "down" /\ phase' = "down"
  /\ access' = None /\ closing' = NoMetadata
  /\ saveMetadata' = NoMetadata /\ timer' = FALSE /\ saving' = {}
  /\ pc' = [c \in Calls |-> "idle"]
  /\ domain' = [c \in Calls |-> None] /\ address' = [c \in Calls |-> Nil]
  /\ since' = Untaken /\ clean' = (clean /\ phase = "closed")
  /\ UNCHANGED <<persistent, lives, range, dbVars, current>>

----------------------------------------------------------------------------
(* Create. *)

Goto(c, p) == pc' = [pc EXCEPT ![c] = p]

End(c) ==
  /\ Goto(c, "idle")
  /\ domain' = [domain EXCEPT ![c] = None]
  /\ address' = [address EXCEPT ![c] = Nil]

\* FakeIPLoadDomain before the lock.  A domain that has an address is answered
\* with it, which changes nothing.
Create(c, d) ==
  /\ phase # "down" /\ pc[c] = "idle"
  /\ addressOf[d] = Nil
  /\ Goto(c, "lock")
  /\ domain' = [domain EXCEPT ![c] = d]
  /\ clean' = FALSE
  /\ UNCHANGED <<persistent, phase, lives, range, dbVars, current, access, closing, saveVars, address, since>>

\* The check after the lock: another call was faster.
CreateLoaded(c) ==
  /\ pc[c] = "lock" /\ access = None
  /\ addressOf[domain[c]] # Nil
  /\ End(c)
  /\ UNCHANGED <<persistent, phase, lives, range, dbVars, current, access, closing, saveVars, clean, since>>

\* Mutant: the last address is given out again and again.
NextAddressSticks(a) == IF a + 1 = Last \/ a + 1 > Last THEN a ELSE a + 1

\* The address after a, or the first one that is given out.
NextAddress(a) == IF a + 1 = Last \/ a + 1 > Last THEN 2 ELSE a + 1

TakeTurn(c) ==
  /\ current' = NextAddress(current)
  /\ address' = [address EXCEPT ![c] = NextAddress(current)]
  /\ since' = [a \in Usable |-> IF a = NextAddress(current) THEN {} ELSE since[a] \cup {NextAddress(current)}]
  /\ access' = c
  /\ Goto(c, "store")
  /\ UNCHANGED <<persistent, phase, lives, range, dbVars, closing, saveVars, domain, clean>>

\* Mutant: the address is taken without a second look.
TakeUnchecked(c) == pc[c] = "lock" /\ access = None /\ TakeTurn(c)

Take(c) ==
  /\ pc[c] = "lock" /\ access = None
  /\ addressOf[domain[c]] = Nil
  /\ TakeTurn(c)

\* FakeIPStore: the address is taken from the domain that had it.
FakeIPStore(a, d) ==
  /\ domainOf' = [domainOf EXCEPT ![a] = d]
  /\ addressOf' = [e \in Domains |-> IF e = d THEN a ELSE IF e = domainOf[a] THEN Nil ELSE addressOf[e]]

\* A transaction that fails is logged, and the address returned all the same.
Store(c) ==
  /\ pc[c] = "store"
  /\ \/ FakeIPStore(address[c], domain[c])
     \/ persistent /\ UNCHANGED <<domainOf, addressOf>>
  /\ Goto(c, "save")
  /\ UNCHANGED <<persistent, phase, lives, range, meta, current, access, closing, saveVars,
                 domain, address, clean, since>>

\* FakeIPSaveMetadataAsync sets the timer, or sets it again.
Save(c) ==
  /\ pc[c] = "save"
  /\ saveMetadata' = IF persistent THEN [range |-> range, current |-> current] ELSE saveMetadata
  /\ timer' = persistent
  /\ access' = None
  /\ End(c)
  /\ UNCHANGED <<persistent, phase, lives, range, dbVars, current, closing, saving, clean, since>>

----------------------------------------------------------------------------
(* The timer, Close and the flush. *)

\* The timer's function reads c.saveMetadata and unlocks; an earlier run may not have ended,
TimerFires ==
  /\ timer /\ timer' = FALSE
  /\ saving' = saving \cup ({saveMetadata} \ {NoMetadata})
  /\ UNCHANGED <<persistent, phase, lives, range, dbVars, current, access, closing, saveMetadata,
                 callVars, clean, since>>

\* and saves it, if it can.  Another run may have read the same.
TimerSaves ==
  /\ \E metadata \in saving : saving' \in {saving, saving \ {metadata}} /\ meta' \in {meta, metadata}
  /\ UNCHANGED <<persistent, phase, lives, range, domainOf, addressOf, current, access, closing,
                 saveMetadata, timer, callVars, clean, since>>

\* Store.Close looks at the counter under the lock,
CloseReads ==
  /\ phase = "up" /\ access = None
  /\ phase' = "saving" /\ closing' = [range |-> range, current |-> current]
  /\ clean' = (saving = {} /\ \A c \in Calls : pc[c] = "idle")
  /\ UNCHANGED <<persistent, lives, range, dbVars, current, access, saveVars, callVars, since>>

\* Mutant: nothing is saved when the timer would do it.
CloseLeavesTimer ==
  /\ phase = "saving"
  /\ phase' = "closed" /\ closing' = NoMetadata
  /\ meta' = IF persistent /\ ~timer THEN closing ELSE meta
  /\ clean' = (clean /\ persistent)
  /\ UNCHANGED <<persistent, lives, range, domainOf, addressOf, current, access, saveVars, callVars, since>>

\* and saves it without.  MemoryStorage saves nothing.
CloseSaves ==
  /\ phase = "saving"
  /\ phase' = "closed" /\ closing' = NoMetadata
  /\ \/ persistent /\ meta' = closing /\ UNCHANGED clean
     \/ meta' = meta /\ clean' = FALSE
  /\ UNCHANGED <<persistent, lives, range, domainOf, addressOf, current, access, saveVars, callVars, since>>

\* flushFakeip resets the cache file behind the back of the store.
Flush ==
  /\ persistent /\ phase # "down"
  /\ FakeIPReset
  /\ clean' = FALSE
  /\ UNCHANGED <<persistent, phase, lives, range, current, access, closing, saveVars, callVars, since>>

----------------------------------------------------------------------------
CallStep(c) == CreateLoaded(c) \/ Take(c) \/ Store(c) \/ Save(c)

Next ==
  \/ Start \/ Stop
  \/ \E c \in Calls : CallStep(c) \/ \E d \in Domains : Create(c, d)
  \/ TimerFires \/ TimerSaves
  \/ CloseReads \/ CloseSaves
  \/ Flush

Spec == Init /\ [][Next]_vars

----------------------------------------------------------------------------
(* Properties. *)

\* The two buckets are each other's inverse, so that no two domains share an address and no
\* domain has two, whatever calls overlap, transactions fail, flushes come in between or
\* crashes cut short (Create, FakeIPStore).  An address whose transaction failed was given
\* out all the same, and is not covered: Lookup finds nothing for it, or the domain before.
Inverse ==
  \A a \in Usable, d \in Domains : domainOf[a] = d <=> addressOf[d] = a

\* An address given out in this life is not given to another domain before all
\* others have had their turn (the counter of Create and its wrap-around), even
\* when the cache is flushed or stores fail: clients keep addresses for a while.
OldestFirst ==
  [][\A c \in Calls : pc[c] = "lock" /\ pc'[c] = "store"
       => Usable \ {address'[c]} \subseteq since[address'[c]]]_vars

\* After an orderly Close with nothing going on, the next Start with the same
\* range goes on exactly where this life stopped: all domains keep their
\* addresses and the counter its value.
CleanRestartKeeps ==
  [][phase = "down" /\ phase' = "up" /\ clean /\ range' = range
       => UNCHANGED <<domainOf, addressOf, current>>]_vars
=============================================================================
