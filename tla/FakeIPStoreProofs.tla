------------------------- MODULE FakeIPStoreProofs -------------------------
(***************************************************************************)
(* The mapping of the FakeIP store is one to one, for any number of        *)
(* domains, addresses, overlapping calls, crashes and restarts.            *)
(*                                                                         *)
(* Inverse is not inductive: FakeIPStore keeps it only because the domain  *)
(* it stores has no address, which the check after the lock established    *)
(* and nobody undoes while the call holds addressAccess.  Holding says so. *)
(*                                                                         *)
(* A second invariant, RInv, says what the metadata pending, being saved   *)
(* and saved are, and which addresses were taken since another one.  From  *)
(* it follow the order of the addresses and the restart after Close.       *)
(***************************************************************************)
EXTENDS FakeIPStore, TLAPS

\* The part of TypeOK that the argument needs.
Typed ==
  /\ domainOf \in [Usable -> Domains \cup {None}]
  /\ addressOf \in [Domains -> Usable \cup {Nil}]
  /\ meta \in Metadata /\ current \in Counter /\ closing \in Metadata
  /\ saveMetadata \in Metadata /\ saving \subseteq Metadata /\ range \in Ranges
  /\ pc \in [Calls -> {"idle", "lock", "store", "save"}]
  /\ domain \in [Calls -> Domains \cup {None}]
  /\ address \in [Calls -> Usable \cup {Nil}]

\* A call past the check holds the lock, and what it is about to store is a
\* domain without an address.
Holding ==
  \A c \in Calls :
    /\ pc[c] = "lock" => domain[c] \in Domains
    /\ pc[c] \in {"store", "save"} => access = c
    /\ pc[c] = "store" => domain[c] \in Domains /\ address[c] \in Usable /\ addressOf[domain[c]] = Nil

IInv == Typed /\ Inverse /\ Holding

\* The counter of Create stays in the range, and what it gives out is an address
\* that is neither of the first two nor the last.
LEMMA NextAddressUsable ==
  ASSUME NEW a \in Counter
  PROVE  NextAddress(a) \in Usable /\ NextAddress(a) \in Counter
BY SizeAssumption DEF NextAddress, Usable, Counter, Last

LEMMA NilNotUsable == Nil \notin Usable
BY SizeAssumption DEF Nil, Usable

LEMMA NoMetadataType == NoMetadata \in Metadata
BY DEF NoMetadata, Metadata

\* What the metadata hold that a start accepts.
LEMMA MetadataCurrent ==
  ASSUME NEW m \in Metadata, m.range \in Ranges
  PROVE  m.current \in Counter
BY DEF Metadata, NoMetadata, Ranges

\* The metadata of a running store.
LEMMA MetadataOf ==
  ASSUME NEW r \in Ranges, NEW n \in Counter
  PROVE  [range |-> r, current |-> n] \in Metadata
BY DEF Metadata

\* A reset leaves the empty mapping, which is its own inverse.
LEMMA ResetInverse ==
  ASSUME FakeIPReset
  PROVE  /\ domainOf' \in [Usable -> Domains \cup {None}]
         /\ addressOf' \in [Domains -> Usable \cup {Nil}]
         /\ meta' \in Metadata
         /\ Inverse'
         /\ \A d \in Domains : addressOf'[d] = Nil
<1>1. domainOf' = [a \in Usable |-> None] /\ addressOf' = [d \in Domains |-> Nil] /\ meta' = NoMetadata
  BY DEF FakeIPReset, Unmapped
<1>2. Inverse'
  BY <1>1, NilNotUsable, NoneAssumption DEF Inverse
<1> QED
  BY <1>1, <1>2, NoMetadataType

\* Storing an address for a domain that has none keeps the mapping one to one.
LEMMA StoreInverse ==
  ASSUME Typed, Inverse, NEW a \in Usable, NEW d \in Domains, addressOf[d] = Nil, FakeIPStore(a, d)
  PROVE  /\ domainOf' \in [Usable -> Domains \cup {None}]
         /\ addressOf' \in [Domains -> Usable \cup {Nil}]
         /\ Inverse'
<1>1. domainOf' = [domainOf EXCEPT ![a] = d]
  BY DEF FakeIPStore
<1>2. addressOf' = [e \in Domains |-> IF e = d THEN a ELSE IF e = domainOf[a] THEN Nil ELSE addressOf[e]]
  BY DEF FakeIPStore
<1>3. SUFFICES ASSUME NEW b \in Usable, NEW e \in Domains
               PROVE  domainOf'[b] = e <=> addressOf'[e] = b
  BY <1>1, <1>2 DEF Inverse, Typed
<1>4. domainOf[b] = e <=> addressOf[e] = b
  BY DEF Inverse
<1>5. domainOf[b] # d
  BY NilNotUsable DEF Inverse
<1>6. CASE b = a
  BY <1>1, <1>2, <1>4, <1>5, <1>6, NilNotUsable DEF Typed
<1>7. CASE b # a
  <2>1. CASE e = d
    BY <1>1, <1>2, <1>5, <1>7, <2>1 DEF Typed
  <2>2. CASE e # d /\ e = domainOf[a]
    <3>1. addressOf[e] = a
      BY <2>2 DEF Inverse
    <3> QED
      BY <1>1, <1>2, <1>4, <1>7, <2>2, <3>1, NilNotUsable DEF Typed
  <2>3. CASE e # d /\ e # domainOf[a]
    BY <1>1, <1>2, <1>4, <1>7, <2>3 DEF Typed
  <2> QED
    BY <2>1, <2>2, <2>3
<1> QED
  BY <1>6, <1>7

LEMMA InitIInv == Init => IInv
BY NilNotUsable, NoMetadataType, NoneAssumption, SizeAssumption
   DEF Init, IInv, Typed, Inverse, Holding, Unmapped, Counter, Ranges, Nil

\* Start and the end of a process: the mapping is kept or emptied.
LEMMA StartIInv == ASSUME IInv, Start PROVE IInv'
<1>1. range' \in Ranges /\ UNCHANGED <<access, closing, saveMetadata, saving, pc, domain, address>>
  BY DEF Start, saveVars, callVars
<1>3. CASE meta.range = range' /\ current' = meta.current /\ meta' = NoMetadata /\ UNCHANGED <<domainOf, addressOf>>
  <2>1. current' \in Counter
    BY <1>1, <1>3, MetadataCurrent DEF IInv, Typed
  <2>2. Typed'
    BY <1>1, <1>3, <2>1, NoMetadataType DEF IInv, Typed
  <2>3. Inverse' /\ Holding'
    BY <1>1, <1>3 DEF IInv, Inverse, Holding
  <2> QED
    BY <2>2, <2>3 DEF IInv
<1>4. CASE current' = 1 /\ FakeIPReset
  <2>1. current' \in Counter
    BY <1>4, SizeAssumption DEF Counter
  <2>2. Typed'
    BY <1>1, <1>4, <2>1, ResetInverse DEF IInv, Typed
  <2>3. Holding'
    BY <1>1, <1>4, ResetInverse DEF IInv, Holding
  <2> QED
    BY <1>4, <2>2, <2>3, ResetInverse DEF IInv
<1> QED
  BY <1>3, <1>4 DEF Start

LEMMA StopIInv == ASSUME IInv, Stop PROVE IInv'
<1>1. UNCHANGED <<domainOf, addressOf, meta, current, range>> /\ \A c \in Calls : pc'[c] = "idle"
  BY DEF Stop, dbVars
<1>2. Typed'
  BY <1>1, NoMetadataType DEF Stop, IInv, Typed
<1>3. Inverse' /\ Holding'
  BY <1>1 DEF IInv, Inverse, Holding
<1> QED
  BY <1>2, <1>3 DEF IInv

\* The steps of Create.
LEMMA CreateIInv == ASSUME IInv, NEW c \in Calls, NEW d \in Domains, Create(c, d) PROVE IInv'
<1>1. Typed' /\ Inverse'
  BY DEF Create, Goto, IInv, Typed, Inverse, dbVars, saveVars
<1>2. Holding'
  BY DEF Create, Goto, IInv, Typed, Holding, dbVars
<1> QED
  BY <1>1, <1>2 DEF IInv

LEMMA CreateLoadedIInv == ASSUME IInv, NEW c \in Calls, CreateLoaded(c) PROVE IInv'
<1>1. Typed' /\ Inverse'
  BY DEF CreateLoaded, End, Goto, IInv, Typed, Inverse, dbVars, saveVars
<1>2. Holding'
  BY DEF CreateLoaded, End, Goto, IInv, Typed, Holding, dbVars
<1> QED
  BY <1>1, <1>2 DEF IInv

LEMMA TakeIInv == ASSUME IInv, NEW c \in Calls, Take(c) PROVE IInv'
<1>1. NextAddress(current) \in Usable /\ NextAddress(current) \in Counter
  BY NextAddressUsable DEF IInv, Typed
<1>2. Typed' /\ Inverse'
  BY <1>1 DEF Take, TakeTurn, Goto, IInv, Typed, Inverse, dbVars, saveVars
<1>3. Holding'
  <2>1. \A e \in Calls : pc[e] \notin {"store", "save"}
    BY NoneAssumption DEF Take, IInv, Holding
  <2> QED
    BY <1>1, <2>1 DEF Take, TakeTurn, Goto, IInv, Typed, Holding, dbVars
<1> QED
  BY <1>2, <1>3 DEF IInv

LEMMA StoreIInv == ASSUME IInv, NEW c \in Calls, Store(c) PROVE IInv'
<1>1. access = c /\ domain[c] \in Domains /\ address[c] \in Usable /\ addressOf[domain[c]] = Nil
  BY DEF Store, IInv, Holding
<1>2. pc' = [pc EXCEPT ![c] = "save"] /\ UNCHANGED <<range, meta, current, access, closing, saveMetadata, saving, domain, address>>
  BY DEF Store, Goto, saveVars
<1>3. \A e \in Calls \ {c} : pc[e] \notin {"store", "save"}
  BY <1>1 DEF IInv, Holding
<1>4. Holding'
  BY <1>1, <1>2, <1>3 DEF IInv, Typed, Holding
<1>5. /\ domainOf' \in [Usable -> Domains \cup {None}]
      /\ addressOf' \in [Domains -> Usable \cup {Nil}]
      /\ Inverse'
  <2>1. CASE FakeIPStore(address[c], domain[c])
    BY <1>1, <2>1, StoreInverse DEF IInv
  <2>2. CASE UNCHANGED <<domainOf, addressOf>>
    BY <2>2 DEF IInv, Typed, Inverse
  <2> QED
    BY <2>1, <2>2 DEF Store
<1>6. Typed'
  BY <1>2, <1>5 DEF IInv, Typed
<1> QED
  BY <1>4, <1>5, <1>6 DEF IInv

LEMMA SaveIInv == ASSUME IInv, NEW c \in Calls, Save(c) PROVE IInv'
<1>1. saveMetadata' \in Metadata
  BY MetadataOf DEF Save, IInv, Typed
<1>2. Typed' /\ Inverse'
  BY <1>1 DEF Save, End, Goto, IInv, Typed, Inverse, dbVars
<1>3. \A e \in Calls \ {c} : pc[e] \notin {"store", "save"}
  BY DEF Save, IInv, Holding
<1>4. Holding'
  BY <1>3 DEF Save, End, Goto, IInv, Typed, Holding, dbVars
<1> QED
  BY <1>2, <1>4 DEF IInv

\* The timer and Close touch the metadata only, and a flush empties the mapping,
\* which leaves a call that is about to store with a domain without address.
LEMMA SavingIInv ==
  ASSUME IInv, TimerFires \/ TimerSaves \/ CloseReads \/ CloseSaves
  PROVE  IInv'
<1>1. UNCHANGED <<domainOf, addressOf, current, range, access, pc, domain, address>>
  BY DEF TimerFires, TimerSaves, CloseReads, CloseSaves, dbVars, callVars
<1>2. meta' \in Metadata /\ closing' \in Metadata /\ saveMetadata' \in Metadata /\ saving' \subseteq Metadata
  <2>1. CASE TimerFires \/ TimerSaves
    BY Zenon, <2>1 DEF TimerFires, TimerSaves, dbVars, IInv, Typed
  <2>2. CASE CloseReads \/ CloseSaves
    BY <2>2, NoMetadataType, MetadataOf DEF CloseReads, CloseSaves, dbVars, saveVars, IInv, Typed
  <2> QED
    BY <2>1, <2>2
<1> QED
  BY <1>1, <1>2 DEF IInv, Typed, Inverse, Holding

LEMMA FlushIInv == ASSUME IInv, Flush PROVE IInv'
<1>1. FakeIPReset /\ UNCHANGED <<range, current, access, closing, saveMetadata, saving, pc, domain, address>>
  BY DEF Flush, saveVars, callVars
<1>2. Typed'
  BY <1>1, ResetInverse DEF IInv, Typed
<1>3. Holding'
  BY <1>1, ResetInverse DEF IInv, Holding
<1> QED
  BY <1>1, <1>2, <1>3, ResetInverse DEF IInv

LEMMA NextIInv == IInv /\ [Next]_vars => IInv'
<1> SUFFICES ASSUME IInv, [Next]_vars
             PROVE  IInv'
  OBVIOUS
<1>1. CASE Start
  BY <1>1, StartIInv
<1>2. CASE Stop
  BY <1>2, StopIInv
<1>3. ASSUME NEW c \in Calls, CallStep(c)
      PROVE  IInv'
  BY <1>3, CreateLoadedIInv, TakeIInv, StoreIInv, SaveIInv DEF CallStep
<1>4. ASSUME NEW c \in Calls, NEW d \in Domains, Create(c, d)
      PROVE  IInv'
  BY <1>4, CreateIInv
<1>5. CASE TimerFires \/ TimerSaves \/ CloseReads \/ CloseSaves
  BY <1>5, SavingIInv
<1>6. CASE Flush
  BY <1>6, FlushIInv
<1>7. CASE UNCHANGED vars
  BY <1>7 DEF vars, dbVars, saveVars, callVars, IInv, Typed, Inverse, Holding
<1> QED
  BY <1>1, <1>2, <1>3, <1>4, <1>5, <1>6, <1>7 DEF Next

----------------------------------------------------------------------------
(* Restarts and the order of the addresses.                                *)

\* The metadata that name the store as it is.
Here == [range |-> range, current |-> current]

\* Between two lives nothing is pending, and nothing has been given out.
Down ==
  phase = "down" =>
    ~timer /\ saving = {} /\ access = None /\ since = Untaken /\ \A c \in Calls : pc[c] = "idle"

\* Outside of the lock, the timer is set for the metadata as they are.
Pending == timer /\ access = None => saveMetadata = Here

\* After an orderly Close, what is saved, or about to be, is the store as it is.
Orderly ==
  clean =>
    /\ phase \in {"saving", "closed", "down"}
    /\ access = None /\ \A c \in Calls : pc[c] = "idle"
    /\ saving \subseteq {Here}
    /\ phase = "saving" => closing = Here
    /\ phase \in {"closed", "down"} => meta = Here

\* The addresses after a in the order of Create, up to b.
Between(a, b) == {x \in Usable : IF a <= b THEN a < x /\ x <= b ELSE a < x \/ x <= b}

\* Since an address was taken, the ones after it have been, up to the counter.
InOrder == \A a \in Usable : since[a] = Usable \/ since[a] = Between(a, current)

RInv == Down /\ Pending /\ Orderly /\ InOrder

\* Taking the next address closes the gap between it and every other one.
LEMMA BetweenGrows ==
  ASSUME NEW a \in Usable, NEW b \in Counter, a # NextAddress(b)
  PROVE  Between(a, b) \cup {NextAddress(b)} = Between(a, NextAddress(b))
<1>1. NextAddress(b) \in Usable
  BY NextAddressUsable
<1>2. CASE b + 1 < Last
  <2>1. NextAddress(b) = b + 1
    BY <1>2, SizeAssumption DEF NextAddress, Counter, Last
  <2> QED
    BY <1>1, <2>1, SizeAssumption DEF Between, Usable, Counter
<1>3. CASE ~(b + 1 < Last)
  <2>1. NextAddress(b) = 2 /\ b = Size - 2
    BY <1>3, SizeAssumption DEF NextAddress, Counter, Last
  <2> QED
    BY <2>1, SizeAssumption DEF Between, Usable
<1> QED
  BY <1>2, <1>3

\* Nothing lies between an address and itself, and before an address is taken
\* again everything else does.
LEMMA BetweenEnds ==
  /\ \A a \in Usable : Between(a, a) = {}
  /\ \A b \in Counter : Usable \ {NextAddress(b)} \subseteq Between(NextAddress(b), b)
<1>1. \A a \in Usable : Between(a, a) = {}
  BY SizeAssumption DEF Between, Usable
<1>2. ASSUME NEW b \in Counter
      PROVE  Usable \ {NextAddress(b)} \subseteq Between(NextAddress(b), b)
  BY SizeAssumption DEF Between, Usable, Counter, NextAddress, Last
<1> QED
  BY <1>1, <1>2

\* What Create takes keeps the addresses in order.
LEMMA TakeInOrder ==
  ASSUME Typed, InOrder, NEW c \in Calls, TakeTurn(c)
  PROVE  InOrder'
<1>1. current \in Counter /\ current' = NextAddress(current) /\ NextAddress(current) \in Usable
  BY NextAddressUsable DEF Typed, TakeTurn
<1> SUFFICES ASSUME NEW a \in Usable
             PROVE  since'[a] = Usable \/ since'[a] = Between(a, current')
  BY DEF InOrder, Between
<1>2. since'[a] = IF a = NextAddress(current) THEN {} ELSE since[a] \cup {NextAddress(current)}
  BY DEF TakeTurn
<1>3. CASE a = NextAddress(current)
  BY <1>1, <1>2, <1>3, BetweenEnds
<1>4. CASE a # NextAddress(current) /\ since[a] = Usable
  BY <1>1, <1>2, <1>4
<1>5. CASE a # NextAddress(current) /\ since[a] = Between(a, current)
  BY <1>1, <1>2, <1>5, BetweenGrows
<1> QED
  BY <1>3, <1>4, <1>5 DEF InOrder

LEMMA InitRInv == Init => RInv
BY DEF Init, RInv, Down, Pending, Orderly, InOrder, Untaken

\* A start finds nothing pending.
LEMMA StartRInv == ASSUME RInv, Start PROVE RInv'
<1>1. /\ phase = "down" /\ phase' = "up" /\ clean' = FALSE
      /\ UNCHANGED <<access, saveMetadata, timer, saving, pc, since>>
  BY Zenon DEF Start, saveVars, callVars
<1>2. ~timer /\ since = Untaken
  BY Zenon, <1>1 DEF RInv, Down
<1>3. Down' /\ Pending' /\ Orderly'
  BY Zenon, <1>1, <1>2 DEF Down, Pending, Orderly
<1>4. InOrder'
  BY Zenon, <1>1, <1>2 DEF InOrder, Untaken
<1> QED
  BY Zenon, <1>3, <1>4 DEF RInv

\* The end of a process leaves nothing pending, and a clean store only when Close
\* has saved it.
LEMMA StopRInv == ASSUME RInv, Stop PROVE RInv'
<1>1. Down' /\ Pending' /\ InOrder'
  BY Zenon DEF Stop, Down, Pending, InOrder, Untaken
<1>2. Orderly'
  <2>1. ASSUME clean' PROVE clean /\ phase = "closed"
    BY Zenon, <2>1 DEF Stop
  <2>2. ASSUME clean' PROVE meta = Here
    BY Zenon, <2>1, <2>2 DEF RInv, Orderly
  <2>3. Here' = Here /\ meta' = meta
    BY Zenon DEF Stop, Here, dbVars
  <2> QED
    BY Zenon, <2>2, <2>3 DEF Stop, Orderly
<1> QED
  BY Zenon, <1>1, <1>2 DEF RInv

\* A step of a call: the store is neither down nor clean.
LEMMA CallRInv ==
  ASSUME IInv, RInv, NEW c \in Calls, CallStep(c) \/ \E d \in Domains : Create(c, d)
  PROVE  RInv'
<1>1. phase # "down"
  BY Zenon DEF RInv, Down, CallStep, CreateLoaded, Take, Store, Save, Create
<1>2. phase' = phase
  BY Zenon DEF CallStep, CreateLoaded, Take, TakeTurn, Store, Save, Create
<1>3. ~clean'
  <2>1. CASE CallStep(c)
    <3>1. pc[c] # "idle" /\ clean' = clean
      BY Zenon, <2>1 DEF CallStep, CreateLoaded, Take, TakeTurn, Store, Save
    <3> QED
      BY Zenon, <3>1 DEF RInv, Orderly
  <2>2. CASE \E d \in Domains : Create(c, d)
    BY Zenon, <2>2 DEF Create
  <2> QED
    BY <2>1, <2>2
<1>4. Pending'
  <2>1. CASE Save(c)
    BY Zenon, <2>1 DEF Save, Pending, Here
  <2>2. CASE Take(c)
    BY Zenon, <2>2, NoneAssumption DEF Take, TakeTurn, Pending
  <2>3. CASE CreateLoaded(c) \/ Store(c) \/ \E d \in Domains : Create(c, d)
    <3>1. UNCHANGED <<timer, access, saveMetadata, range, current>>
      BY Zenon, <2>3 DEF CreateLoaded, Store, Create, saveVars
    <3> QED
      BY Zenon, <3>1 DEF RInv, Pending, Here
  <2> QED
    BY <2>1, <2>2, <2>3 DEF CallStep
<1>5. InOrder'
  <2>1. CASE Take(c)
    BY Zenon, <2>1, TakeInOrder DEF Take, IInv, RInv
  <2>2. CASE CreateLoaded(c) \/ Store(c) \/ Save(c) \/ \E d \in Domains : Create(c, d)
    <3>1. UNCHANGED <<since, current>>
      BY Zenon, <2>2 DEF CreateLoaded, Store, Save, Create
    <3> QED
      BY Zenon, <3>1 DEF RInv, InOrder, Between
  <2> QED
    BY <2>1, <2>2 DEF CallStep
<1> QED
  BY Zenon, <1>1, <1>2, <1>3, <1>4, <1>5 DEF RInv, Down, Orderly

\* The timer, Close and the flush leave the counter alone; what they save is what
\* the store is.
LEMMA SavingRInv ==
  ASSUME RInv, TimerFires \/ TimerSaves \/ CloseReads \/ CloseSaves \/ Flush
  PROVE  RInv'
<1> USE DEF RInv
<1>1. UNCHANGED <<since, current, range, access, pc, saveMetadata>>
  BY Zenon DEF TimerFires, TimerSaves, CloseReads, CloseSaves, Flush, saveVars, callVars
<1>2. InOrder' /\ Here' = Here
  BY Zenon, <1>1 DEF InOrder, Between, Here
<1>3. phase # "down" /\ phase' # "down"
  <2>1. CASE TimerFires \/ TimerSaves
    BY Zenon, <2>1 DEF TimerFires, TimerSaves, Down
  <2>2. CASE CloseReads \/ CloseSaves \/ Flush
    BY Zenon, <2>2 DEF CloseReads, CloseSaves, Flush
  <2> QED
    BY <2>1, <2>2
<1>4. Pending'
  <2>1. timer' => timer
    BY Zenon DEF TimerFires, TimerSaves, CloseReads, CloseSaves, Flush, saveVars
  <2> QED
    BY Zenon, <1>1, <1>2, <2>1 DEF Pending
<1>5. Orderly'
  <2>1. CASE TimerFires
    <3>1. saving' \subseteq saving \cup {saveMetadata} /\ UNCHANGED <<phase, clean, closing, meta>> /\ timer
      BY Zenon, <2>1 DEF TimerFires, dbVars
    <3>2. clean => saveMetadata = Here
      BY Zenon, <3>1 DEF Pending, Orderly
    <3> QED
      BY Zenon, <1>1, <1>2, <3>1, <3>2 DEF Orderly
  <2>2. CASE TimerSaves
    <3>0. PICK metadata \in saving :
            saving' \in {saving, saving \ {metadata}} /\ meta' \in {meta, metadata}
      BY Zenon, <2>2 DEF TimerSaves
    <3>1. saving' \subseteq saving /\ UNCHANGED <<phase, clean, closing>>
      BY Zenon, <2>2, <3>0 DEF TimerSaves
    <3>2. clean => metadata = Here
      BY Zenon, <3>0 DEF Orderly
    <3>3. clean /\ phase \in {"closed", "down"} => meta' = Here
      <4>1. clean /\ phase \in {"closed", "down"} => meta = Here
        BY Zenon DEF Orderly
      <4>2. meta' = meta \/ meta' = metadata
        BY Zenon, <3>0
      <4> QED
        BY Zenon, <3>2, <4>1, <4>2
    <3> QED
      BY Zenon, <1>1, <1>2, <3>1, <3>3 DEF Orderly
  <2>3. CASE CloseReads
    <3>1. phase' = "saving" /\ closing' = Here /\ access = None /\ saving' = saving
      BY Zenon, <2>3 DEF CloseReads, Here, saveVars
    <3>2. clean' => saving = {} /\ \A c \in Calls : pc[c] = "idle"
      BY Zenon, <2>3 DEF CloseReads
    <3> QED
      BY Zenon, <1>1, <1>2, <3>1, <3>2 DEF Orderly
  <2>4. CASE CloseSaves
    <3>1. phase = "saving" /\ phase' = "closed" /\ saving' = saving
      BY Zenon, <2>4 DEF CloseSaves, saveVars
    <3>2. clean' => clean /\ meta' = closing
      BY Zenon, <2>4 DEF CloseSaves
    <3> QED
      BY Zenon, <1>1, <1>2, <3>1, <3>2 DEF Orderly
  <2>5. CASE Flush
    BY Zenon, <2>5 DEF Flush, Orderly
  <2> QED
    BY <2>1, <2>2, <2>3, <2>4, <2>5
<1> QED
  BY Zenon, <1>2, <1>3, <1>4, <1>5 DEF Down

LEMMA NextRInv == IInv /\ RInv /\ [Next]_vars => RInv'
<1> SUFFICES ASSUME IInv, RInv, [Next]_vars
             PROVE  RInv'
  OBVIOUS
<1>1. CASE UNCHANGED vars
  BY Zenon, <1>1 DEF vars, dbVars, saveVars, callVars, RInv, Down, Pending, Orderly, InOrder, Between, Here
<1> QED
  BY Zenon, <1>1, StartRInv, StopRInv, CallRInv, SavingRInv DEF Next

\* Both invariants hold at every moment of every run.
LEMMA BothInvariants == Spec => [](IInv /\ RInv)
  BY InitIInv, NextIInv, InitRInv, NextRInv, PTL DEF Spec

\* Whatever Create has stored is found again by Lookup, and belongs to one domain
\* only, at every moment of every run: overlapping calls, transactions that fail,
\* flushes, crashes and restarts included.
THEOREM OneToOne == Spec => []Inverse
<1>1. IInv => Inverse
  BY DEF IInv
<1> QED
  BY <1>1, InitIInv, NextIInv, PTL DEF Spec

\* An address is not given to another domain before all the others have had their
\* turn, for a range of any size: neither a failed store nor a flush nor an
\* overlapping Create brings the counter out of order within a life.
THEOREM AddressesInTurn == Spec => OldestFirst
<1>1. IInv /\ RInv /\ [Next]_vars =>
        [\A c \in Calls : pc[c] = "lock" /\ pc'[c] = "store"
           => Usable \ {address'[c]} \subseteq since[address'[c]]]_vars
  <2> SUFFICES ASSUME IInv, RInv, Next, NEW c \in Calls, pc[c] = "lock", pc'[c] = "store"
               PROVE  Usable \ {address'[c]} \subseteq since[address'[c]]
    BY Zenon
  <2>1. Take(c)
    <3>1. ASSUME NEW e \in Calls, CallStep(e) \/ \E d \in Domains : Create(e, d)
          PROVE  Take(c)
      <4>1. e = c
        BY <3>1 DEF CallStep, CreateLoaded, Take, TakeTurn, Store, Save, Create, End, Goto, IInv, Typed
      <4> QED
        BY <3>1, <4>1 DEF CallStep, CreateLoaded, Store, Save, Create, End, Goto, IInv, Typed
    <3>2. CASE Stop
      BY <3>2 DEF Stop
    <3>3. CASE Start \/ TimerFires \/ TimerSaves \/ CloseReads \/ CloseSaves \/ Flush
      BY <3>3 DEF Start, TimerFires, TimerSaves, CloseReads, CloseSaves, Flush, callVars
    <3> QED
      BY <3>1, <3>2, <3>3 DEF Next
  <2>2. address'[c] = NextAddress(current) /\ current \in Counter /\ NextAddress(current) \in Usable
    BY <2>1, NextAddressUsable DEF Take, TakeTurn, IInv, Typed
  <2> QED
    BY Zenon, <2>2, BetweenEnds DEF RInv, InOrder
<1> QED
  BY <1>1, BothInvariants, PTL DEF Spec, OldestFirst

\* After an orderly Close a start with the same range goes on where the last life
\* stopped, whatever the timer of FakeIPSaveMetadataAsync did in between.
THEOREM CleanRestart == Spec => CleanRestartKeeps
<1>1. RInv /\ [Next]_vars =>
        [phase = "down" /\ phase' = "up" /\ clean /\ range' = range
           => UNCHANGED <<domainOf, addressOf, current>>]_vars
  <2> SUFFICES ASSUME RInv, Next, phase = "down", phase' = "up", clean, range' = range
               PROVE  UNCHANGED <<domainOf, addressOf, current>>
    BY Zenon
  <2>1. Start
    <3>1. ASSUME NEW c \in Calls, CallStep(c) \/ \E d \in Domains : Create(c, d)
          PROVE  FALSE
      BY <3>1 DEF CallStep, CreateLoaded, Take, TakeTurn, Store, Save, Create
    <3>2. CASE Stop \/ TimerFires \/ TimerSaves \/ CloseReads \/ CloseSaves \/ Flush
      BY <3>2 DEF Stop, TimerFires, TimerSaves, CloseReads, CloseSaves, Flush
    <3> QED
      BY <3>1, <3>2 DEF Next
  <2>2. meta = Here
    BY Zenon DEF RInv, Orderly
  <2>3. meta.range = range' /\ meta.current = current
    BY <2>2 DEF Here
  <2> QED
    BY <2>1, <2>3 DEF Start
<1> QED
  BY <1>1, BothInvariants, PTL DEF Spec, CleanRestartKeeps
============================================================================
