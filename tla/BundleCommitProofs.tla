------------------------- MODULE BundleCommitProofs -------------------------
(***************************************************************************)
(* Proofs about BundleCommit: no object that a root needs is collected, an *)
(* acknowledged receipt survives a power loss, a refused command was not   *)
(* published, Core never folds past the disk, and the durable root         *)
(* implements AtomicPublication, for every set of issuers and every bound. *)
(*                                                                         *)
(* All of them follow from one inductive invariant, BundleInv.  Its core:  *)
(* a settled owner knows the root (Agreed); a publication in flight is     *)
(* what its steps say it is (Underway) and is one whole publication ahead  *)
(* of the durable root (Planned); nothing may be collected from the first  *)
(* staged object until the outcome is known (Collectable); and a ticket's  *)
(* tag names a root whose floor reaches the ticket's (Numbers).            *)
(***************************************************************************)
EXTENDS BundleCommit, TLAPS

(* The types of the state.                                                 *)

Batch == (Issuer \X Nat) \cup {Atomic!LocalEdit, << "none" >>}
History == [floor : Nat, batches : Seq(Batch)]
Entry == [next : Nat, high : Nat, phase : {"unissued", "issued", "retired", "gone"}]
ReceiptOf == [issuer : Issuer, sequence : Nat, action : Atomic!Action, generation : Nat]
Root ==
    [sha : Nat, generation : Nat, history : History, receipts : SUBSET ReceiptOf,
     issuers : [Issuer -> Entry], predecessors : Seq(Nat)]
Ticket == [floor : Nat, tag : Nat, previous : Nat, ready : BOOLEAN]
Command ==
    [issuer : Issuer, sequence : Nat, action : Atomic!Action, before : History, epoch : Nat]
Owner ==
    [open : {TRUE}, root : Root, receipts : SUBSET ReceiptOf, issuers : [Issuer -> Entry],
     unsettled : BOOLEAN, uncertain : BOOLEAN,
     state : {"NotPublished", "Unknown", "Committed"}, tag : Nat,
     pending : Command \cup {NoCommand}, saving : BOOLEAN, save : Ticket,
     root_sha256 : Nat, committed : SUBSET Nat, acknowledged : SUBSET Nat,
     can_collect : BOOLEAN]
Flight ==
    [kind : {"command", "manual", "save", "issuers"},
     step : {"admitted", "staged", "tagged", "renamed", "synced"}, next : Root,
     original : History, issuers : [Issuer -> Entry], receipts : SUBSET ReceiptOf]

TypeOK ==
    /\ visible \in Root /\ durable \in Root
    /\ objects \subseteq Nat
    /\ bundle \in Owner \cup {Closed}
    /\ flight \in Flight \cup {Idle}
    /\ core \in History
    /\ ticket \in Ticket
    /\ attempts \in Nat /\ epoch \in Nat
    /\ acked \subseteq ReceiptOf
    /\ refused \subseteq Command \cup {NoCommand}

Owned == bundle # Closed
InFlight == flight # Idle
ByCommand == flight.kind \in {"command", "manual"}
BySave == flight.kind \in {"save", "issuers"}

(* Until its root is renamed an owner that is settled knows the root.      *)
Agreed ==
    Owned /\ ~bundle.unsettled =>
        /\ bundle.committed = Closure(bundle.root)
        /\ durable = bundle.root
        /\ ~(InFlight /\ flight.step = "renamed") => visible = bundle.root
        /\ ~InFlight => /\ bundle.receipts = bundle.root.receipts
                        /\ bundle.issuers = bundle.root.issuers
                        /\ bundle.save = NoTicket /\ ~bundle.saving

(* What the step of a publication says about the two roots, the owner's    *)
(* memory and the store.                                                   *)
Underway ==
    InFlight =>
        /\ Owned
        /\ flight.step # "synced" => ~bundle.unsettled
        /\ flight.step \in {"renamed", "synced"} => visible = flight.next
        /\ flight.step = "synced" =>
              durable = flight.next /\ bundle.unsettled /\ bundle.state # "NotPublished"
        /\ flight.receipts = bundle.root.receipts /\ flight.issuers = bundle.root.issuers
        /\ flight.kind = "save" => /\ bundle.receipts = bundle.root.receipts
                                   /\ bundle.issuers = bundle.root.issuers
        /\ flight.next.sha = attempts
        /\ Range(flight.next.predecessors) \subseteq Closure(bundle.root)
        /\ flight.step # "admitted" =>
              /\ Closure(flight.next) \subseteq objects
              /\ Atomic!Continues(flight.next.history, bundle.root.history)

(* The store may be collected only before the first object is staged, and  *)
(* then what is committed covers both roots.                               *)
Collectable ==
    Owned /\ bundle.can_collect =>
        /\ InFlight => flight.step = "admitted"
        /\ Closure(visible) \cup Closure(durable) \subseteq bundle.committed

Unmatched(e, receipts) == \A r \in receipts : ~Matches(r, e)

(* A receipt in memory is in both roots; a command adds one receipt, which *)
(* no receipt matches yet, and a save adds none.                           *)
Receipted ==
    /\ Owned => bundle.receipts \subseteq visible.receipts \cap durable.receipts
    /\ InFlight /\ ByCommand =>
          /\ flight.next.receipts =
                bundle.root.receipts \cup {Receipt(bundle.pending, bundle.root.generation + 1)}
          /\ Unmatched(bundle.pending, bundle.root.receipts)
          /\ bundle.receipts = bundle.root.receipts
          /\ bundle.pending \in Command
    /\ InFlight /\ BySave =>
          flight.next.receipts = bundle.receipts /\ bundle.receipts \subseteq bundle.root.receipts

(* No refused command has a receipt in either root or in the next one.     *)
RefusedOf(r) == \A e \in refused : Unmatched(e, r.receipts)
Refusals == RefusedOf(visible) /\ RefusedOf(durable) /\ (InFlight => RefusedOf(flight.next))

(* Neither root, nor the next one, lacks an acknowledged receipt.          *)
AckedIn(root) == \A r \in acked : r \in root.receipts \/ root.issuers[r.issuer] = Gone
Acknowledgements == AckedIn(visible) /\ AckedIn(durable) /\ (InFlight => AckedIn(flight.next))

(* Core, the durable root and the visible root fold in this order.         *)
Floors ==
    /\ core.floor <= durable.history.floor
    /\ durable.history.floor <= visible.history.floor
    /\ InFlight => flight.original.floor <= durable.history.floor

(* A ticket is tagged with the attempt that publishes its floor, and no    *)
(* root carries that number before the attempt's own rename.               *)
Numbers ==
    /\ visible.sha <= attempts /\ durable.sha <= attempts /\ ticket.tag <= attempts
    /\ ticket.tag # 0 /\ visible.sha = ticket.tag => ticket.floor <= visible.history.floor
    /\ ticket.ready => ticket.tag # 0
    /\ InFlight /\ flight.step \notin {"renamed", "synced"} => visible.sha < attempts
    /\ InFlight /\ ticket.tag = attempts => ticket.floor <= flight.next.history.floor
    /\ InFlight /\ BySave =>
          /\ ticket.floor <= flight.next.history.floor
          /\ bundle.save = ticket /\ bundle.saving
          /\ bundle.root_sha256 # 0 /\ ticket # NoTicket => ticket.tag = bundle.root_sha256
    /\ InFlight /\ ByCommand => bundle.save = NoTicket /\ ~bundle.saving

(* Root "new" is one publication ahead of root "old".                      *)
Spent(old, i, action) ==
    [issuer |-> i, sequence |-> old.issuers[i].next, action |-> action]
Executed(old, new, e) ==
    /\ old.issuers[e.issuer].phase = "issued"
    /\ \E floor \in 0 .. Len(Effect(old.history, e).batches) :
          new.history = Fold(Effect(old.history, e), floor)
    /\ new.receipts = old.receipts \cup {Receipt(e, old.generation + 1)}
    /\ new.issuers = Atomic!Advance(old.issuers, e.issuer)
ByOneCommand(old, new) ==
    \E i \in Issuer, action \in Atomic!Action : Executed(old, new, Spent(old, i, action))
HoldsReceipts(old, i, receipts) == \A r \in old.receipts : r.issuer = i => r \in receipts
EntryKept(old, i, receipts, issuers) ==
    issuers[i] = old.issuers[i] /\ HoldsReceipts(old, i, receipts)
EntryIssued(old, i, receipts, issuers) ==
    /\ old.issuers[i] = Atomic!Unissued /\ issuers[i] = Issued
    /\ HoldsReceipts(old, i, receipts)
EntryAcknowledged(old, i, receipts, issuers) ==
    /\ old.issuers[i].phase \in {"issued", "retired"}
    /\ issuers[i].high \in old.issuers[i].high .. old.issuers[i].next - 1
    /\ issuers[i] = [old.issuers[i] EXCEPT !.high = issuers[i].high]
    /\ HoldsReceipts(old, i, receipts)
EntryClosed(old, i, receipts, issuers) ==
    /\ old.issuers[i].phase \in {"issued", "retired"}
    /\ old.issuers[i].high + 1 = old.issuers[i].next
    /\ \/ /\ issuers[i] = [old.issuers[i] EXCEPT !.phase = "retired"]
          /\ HoldsReceipts(old, i, receipts)
       \/ /\ issuers[i] = Gone
          /\ \A r \in receipts : r.issuer # i
Entries(old, receipts, issuers) ==
    /\ receipts \subseteq old.receipts
    /\ \E i \in Issuer :
          /\ \A j \in Issuer \ {i} : EntryKept(old, j, receipts, issuers)
          /\ \/ EntryKept(old, i, receipts, issuers)
             \/ EntryIssued(old, i, receipts, issuers)
             \/ EntryAcknowledged(old, i, receipts, issuers)
             \/ EntryClosed(old, i, receipts, issuers)
Ahead(old, new) ==
    /\ new.generation = old.generation + 1
    /\ \/ ByOneCommand(old, new)
       \/ /\ Atomic!Continues(new.history, old.history)
          /\ Entries(old, new.receipts, new.issuers)
(* The visible root is the durable one or one publication ahead of it, and *)
(* so will the next one be.                                                *)
Planned ==
    /\ visible = durable \/ Ahead(durable, visible)
    /\ InFlight /\ flight.step # "synced" =>
          /\ flight.next.generation = durable.generation + 1
          /\ ByCommand => ByOneCommand(durable, flight.next)
          /\ BySave => Entries(durable, flight.next.receipts, flight.next.issuers)

(* The inductive invariant.                                                *)
BundleInv ==
    /\ TypeOK /\ Agreed /\ Underway /\ Collectable /\ GraphIsPresent
    /\ Receipted /\ Refusals /\ Acknowledgements /\ Floors /\ Numbers /\ Planned

-----------------------------------------------------------------------------
(* What the operators of the model return.                                 *)
LEMMA OwnerIsOpen == ASSUME TypeOK, Owned PROVE bundle \in Owner
    BY DEF TypeOK, Owned

LEMMA FlightIsFlight == ASSUME TypeOK, InFlight PROVE flight \in Flight
    BY DEF TypeOK, InFlight

LEMMA OwnerNotClosed == ASSUME NEW b \in Owner PROVE b # Closed
    BY DEF Owner, Closed

LEMMA FlightNotIdle == ASSUME NEW f \in Flight PROVE f # Idle
    BY DEF Flight, Idle

LEMMA NoTicketType == NoTicket \in Ticket /\ NoTicket.floor = 0 /\ NoTicket.tag = 0
                      /\ NoTicket.ready = FALSE
    BY DEF NoTicket, Ticket

LEMMA FoldType ==
    ASSUME NEW h \in History, NEW n \in Nat
    PROVE  /\ Fold(h, n) \in History
           /\ Fold(h, n).floor = IF h.floor < n THEN n ELSE h.floor
           /\ Fold(h, n).batches = h.batches
    BY DEF Fold, Atomic!Fold, History

LEMMA EffectType ==
    ASSUME NEW h \in History, NEW e, e.issuer \in Issuer, e.sequence \in Nat
    PROVE  Effect(h, e) \in History /\ Effect(h, e).floor = h.floor
<1>1. Atomic!BatchOf(e) \in Batch
    BY DEF Batch, Atomic!BatchOf
<1>2. Append(h.batches, Atomic!BatchOf(e)) \in Seq(Batch)
    BY <1>1 DEF History
<1>3. Effect(h, e) = h \/ Effect(h, e) = [h EXCEPT !.batches = Append(h.batches, Atomic!BatchOf(e))]
    BY DEF Effect, Atomic!Effect, History
<1> QED
    BY <1>2, <1>3 DEF History

LEMMA SelectType ==
    ASSUME NEW h \in History
    PROVE  /\ SelectHistory(h) \in History
           /\ \E n \in 0 .. Len(h.batches) : SelectHistory(h) = Fold(h, n)
           /\ h.floor <= SelectHistory(h).floor
<1> DEFINE n == IF Len(h.batches) > Retained THEN Len(h.batches) - Retained ELSE 0
<1>1. Len(h.batches) \in Nat /\ h.floor \in Nat
    BY DEF History
<1>2. n \in 0 .. Len(h.batches) /\ n \in Nat
    BY <1>1, BoundsAreNaturals
<1>3. SelectHistory(h) = Fold(h, n)
    BY DEF SelectHistory
<1> HIDE DEF n
<1>4. Fold(h, n) \in History /\ Fold(h, n).floor = IF h.floor < n THEN n ELSE h.floor
    BY <1>2, FoldType
<1>5. h.floor <= Fold(h, n).floor
    BY <1>1, <1>2, <1>4
<1> QED
    BY <1>2, <1>3, <1>4, <1>5

LEMMA NextRootType ==
    ASSUME TypeOK, NEW b \in Owner, NEW h \in History, NEW receipts \in SUBSET ReceiptOf
    PROVE  /\ NextRoot(b, h, receipts) \in Root
           /\ NextRoot(b, h, receipts).sha = attempts + 1
           /\ NextRoot(b, h, receipts).generation = b.root.generation + 1
           /\ NextRoot(b, h, receipts).history = h
           /\ NextRoot(b, h, receipts).receipts = receipts
           /\ NextRoot(b, h, receipts).issuers = b.issuers
           /\ Range(NextRoot(b, h, receipts).predecessors) \subseteq Closure(b.root)
<1> DEFINE old == b.root.predecessors
           both == << b.root.sha >> \o old
           k == IF old = << >> THEN 1 ELSE 2
           kept == SubSeq(both, 1, k)
<1>1. b.root \in Root /\ b.root.sha \in Nat /\ old \in Seq(Nat) /\ b.issuers \in [Issuer -> Entry]
      /\ b.root.generation \in Nat /\ attempts \in Nat
    BY DEF Owner, Root, TypeOK
<1>2. /\ both \in Seq(Nat) /\ Len(both) = 1 + Len(old) /\ Len(old) \in Nat
      /\ \A i \in 1 .. Len(both) : both[i] = IF i = 1 THEN b.root.sha ELSE old[i - 1]
    <2> HIDE DEF old
    <2>1. << b.root.sha >> \in Seq(Nat) /\ Len(<< b.root.sha >>) = 1 /\ << b.root.sha >>[1] = b.root.sha
        BY <1>1
    <2> QED
        BY <1>1, <2>1
<1>3. k \in 1 .. 2 /\ k <= Len(both)
    <2> HIDE DEF old, both
    <2>1. old # << >> => Len(old) >= 1
        BY <1>1
    <2> QED
        BY <1>2, <2>1
<1>4. /\ kept \in Seq(Nat) /\ Len(kept) = k
      /\ \A i \in 1 .. k : kept[i] = both[i]
    <2> HIDE DEF both, k
    <2> QED
        BY <1>2, <1>3
<1>5. Range(kept) \subseteq Closure(b.root)
    <2> SUFFICES ASSUME NEW i \in 1 .. k
                 PROVE  kept[i] \in {b.root.sha} \cup Range(old)
        BY <1>3, <1>4 DEF Range, Closure
    <2> HIDE DEF kept, k
    <2>1. i \in 1 .. Len(both) /\ kept[i] = both[i]
        BY <1>2, <1>3, <1>4, SMTT(60)
    <2>2. i = 1 \/ i - 1 \in 1 .. Len(old)
        <3> HIDE DEF old, both
        <3> QED
            BY <1>2, <2>1
    <2>3. \A j \in 1 .. Len(old) : old[j] \in Range(old)
        BY <1>1 DEF Range
    <2> QED
        BY <1>2, <2>1, <2>2, <2>3
<1>6. NextRoot(b, h, receipts) =
          [sha |-> attempts + 1, generation |-> b.root.generation + 1, history |-> h,
           receipts |-> receipts, issuers |-> b.issuers, predecessors |-> kept]
    BY DEF NextRoot
<1> HIDE DEF kept, both, old, k
<1> QED
    BY <1>1, <1>4, <1>5, <1>6 DEF Root

(* What a failed publication leaves: the flight is over, the root the      *)
(* owner knows and its committed objects are those of b.                   *)
LEMMA FailedFields ==
    ASSUME TypeOK, InFlight, NEW b \in Owner, NEW told, Failed(b, told)
    PROVE  /\ flight' = Idle /\ acked' = acked
           /\ bundle' \in Owner
           /\ bundle'.root = b.root /\ bundle'.committed = b.committed
           /\ bundle'.can_collect = b.can_collect
           /\ b.unsettled => bundle'.unsettled /\ bundle'.receipts = b.receipts
           /\ bundle'.receipts \in {b.receipts, flight.receipts}
           /\ core' \in {core, flight.original}
           /\ refused' = refused \/
                 /\ refused' = refused \cup {b.pending} /\ ByCommand
                 /\ told # "unknown" \/ b.state = "NotPublished"
           /\ \/ ByCommand /\ ticket' = ticket
              \/ BySave /\ ticket' = NoTicket
              \/ BySave /\ ticket' = Ready(ticket) /\ b.root_sha256 # 0 /\ b.unsettled
           /\ ~bundle'.unsettled =>
                 \/ /\ flight.kind = "manual"
                    /\ bundle'.receipts = b.receipts /\ bundle'.issuers = flight.issuers
                    /\ bundle'.save = b.save /\ bundle'.saving = b.saving
                 \/ /\ flight.kind = "save"
                    /\ bundle'.receipts = b.receipts /\ bundle'.issuers = b.issuers
                    /\ bundle'.save = NoTicket /\ ~bundle'.saving
                 \/ /\ flight.kind = "issuers"
                    /\ bundle'.receipts = flight.receipts /\ bundle'.issuers = flight.issuers
                    /\ bundle'.save = NoTicket /\ ~bundle'.saving
<1>1. flight \in Flight
    BY FlightIsFlight
<1>2. CASE CommandFailed(b, told)
    <2>1. /\ bundle' \in {[b EXCEPT !.unsettled = TRUE],
                           [b EXCEPT !.unsettled = TRUE, !.issuers = flight.issuers]}
          /\ UNCHANGED <<core, ticket>>
          /\ refused' = refused \/ (told # "unknown" /\ refused' = refused \cup {b.pending})
          /\ ByCommand
        BY <1>2 DEF CommandFailed, ByCommand
    <2>2. flight.issuers \in [Issuer -> Entry]
        BY <1>1 DEF Flight
    <2>3. bundle' \in Owner
        BY <2>1, <2>2, ZenonT(60) DEF Owner
    <2>4. /\ bundle'.root = b.root /\ bundle'.committed = b.committed
          /\ bundle'.can_collect = b.can_collect /\ bundle'.unsettled
          /\ bundle'.receipts = b.receipts
        BY <2>1, <2>2 DEF Owner
    <2> QED
        BY <2>1, <2>3, <2>4 DEF Failed
<1>3. CASE ManualFailed(b)
    <2>1. /\ \/ /\ b.state = "NotPublished"
                /\ bundle' = [b EXCEPT !.pending = NoCommand, !.issuers = flight.issuers]
                /\ core' = flight.original
                /\ refused' = refused \cup {b.pending}
             \/ /\ bundle' = [b EXCEPT !.unsettled = TRUE]
                /\ UNCHANGED <<core, refused>>
          /\ UNCHANGED ticket
          /\ flight.kind = "manual" /\ ByCommand
        BY <1>3 DEF ManualFailed, DefinitelyUnpublished, ByCommand
    <2>2. flight.issuers \in [Issuer -> Entry]
        BY <1>1 DEF Flight
    <2>3. bundle' \in Owner
        BY <2>1, <2>2, ZenonT(60) DEF Owner
    <2>4. /\ bundle'.root = b.root /\ bundle'.committed = b.committed
          /\ bundle'.can_collect = b.can_collect
          /\ b.unsettled => bundle'.unsettled
          /\ bundle'.receipts = b.receipts
          /\ ~bundle'.unsettled => /\ bundle'.issuers = flight.issuers
                                   /\ bundle'.save = b.save /\ bundle'.saving = b.saving
        BY <2>1, <2>2 DEF Owner
    <2> QED
        BY <2>1, <2>3, <2>4 DEF Failed
<1>4. CASE SaveFailed(b)
    <2> DEFINE retained == b.root_sha256 # 0 /\ b.unsettled
               unsettled == b.unsettled \/ b.uncertain
               undone == flight.kind = "issuers" /\ ~unsettled
               issuers == IF undone THEN flight.issuers ELSE b.issuers
               receipts == IF undone THEN flight.receipts ELSE b.receipts
    <2>1. /\ bundle' = [b EXCEPT !.saving = retained, !.save = ticket', !.unsettled = unsettled,
                                 !.issuers = issuers, !.receipts = receipts]
          /\ ticket' = IF retained THEN Ready(ticket) ELSE NoTicket
          /\ UNCHANGED <<core, refused>>
          /\ flight.kind \in {"save", "issuers"}
        BY <1>4 DEF SaveFailed
    <2>2. /\ issuers \in [Issuer -> Entry] /\ receipts \subseteq ReceiptOf
          /\ b.unsettled \in BOOLEAN /\ b.uncertain \in BOOLEAN
        BY <1>1 DEF Flight, Owner
    <2>3. ticket' \in Ticket
        BY <2>1, NoTicketType DEF Ready, Ticket, TypeOK
    <2>4. retained \in BOOLEAN /\ unsettled \in BOOLEAN
        BY DEF Owner
    <2>5. /\ b.unsettled => unsettled /\ receipts = b.receipts
          /\ ~unsettled => ~retained /\ ~b.unsettled
          /\ ~unsettled /\ flight.kind = "issuers" =>
                receipts = flight.receipts /\ issuers = flight.issuers
          /\ flight.kind = "save" => receipts = b.receipts /\ issuers = b.issuers
          /\ receipts \in {b.receipts, flight.receipts}
        BY DEF Owner
    <2> HIDE DEF retained, unsettled, issuers, receipts
    <2>6. bundle' \in Owner
        BY <2>1, <2>2, <2>3, <2>4, ZenonT(60) DEF Owner
    <2>7. /\ bundle'.root = b.root /\ bundle'.committed = b.committed
          /\ bundle'.can_collect = b.can_collect
          /\ bundle'.receipts = receipts /\ bundle'.issuers = issuers
          /\ bundle'.saving = retained /\ bundle'.save = ticket' /\ bundle'.unsettled = unsettled
        BY <2>1 DEF Owner
    <2>8. \/ ticket' = NoTicket
          \/ ticket' = Ready(ticket) /\ b.root_sha256 # 0 /\ b.unsettled
        BY <2>1 DEF retained
    <2> QED
        BY <2>1, <2>5, <2>6, <2>7, <2>8 DEF Failed, BySave, ByCommand
<1> QED
    BY <1>2, <1>3, <1>4 DEF Failed

(* What the start of a publication leaves.                                 *)
Kind == {"command", "manual", "save", "issuers"}
LEMMA StartFields ==
    ASSUME TypeOK, Owned, NEW kind \in Kind, NEW b \in Owner, NEW h \in History,
           NEW receipts \in SUBSET ReceiptOf, NEW original \in History,
           Start(kind, b, h, receipts, original)
    PROVE  /\ attempts' = attempts + 1
           /\ flight' \in Flight
           /\ flight'.kind = kind /\ flight'.step = "admitted" /\ flight'.original = original
           /\ flight'.issuers = bundle.issuers /\ flight'.receipts = bundle.receipts
           /\ flight'.next = NextRoot(b, h, receipts)
           /\ bundle' \in Owner
           /\ bundle'.root = b.root /\ bundle'.receipts = b.receipts
           /\ bundle'.issuers = b.issuers /\ bundle'.unsettled = b.unsettled
           /\ bundle'.pending = b.pending /\ bundle'.saving = b.saving
           /\ bundle'.save = b.save /\ bundle'.root_sha256 = b.root_sha256
           /\ bundle'.committed = b.committed /\ bundle'.can_collect = b.can_collect
<1> DEFINE next == NextRoot(b, h, receipts)
<1>1. next \in Root
    BY NextRootType
<1>2. bundle.issuers \in [Issuer -> Entry] /\ bundle.receipts \in SUBSET ReceiptOf
    BY OwnerIsOpen DEF Owner
<1>3. flight' = [kind |-> kind, step |-> "admitted", next |-> next, original |-> original,
                 issuers |-> bundle.issuers, receipts |-> bundle.receipts]
    BY DEF Start
<1>4. bundle' = [b EXCEPT !.state = "NotPublished", !.tag = 0] /\ attempts' = attempts + 1
    BY DEF Start
<1> HIDE DEF next
<1>5. flight' \in Flight
    BY <1>1, <1>2, <1>3 DEF Flight, Kind
<1>6. /\ flight'.kind = kind /\ flight'.step = "admitted" /\ flight'.original = original
      /\ flight'.issuers = bundle.issuers /\ flight'.receipts = bundle.receipts
      /\ flight'.next = next
    BY <1>3
<1>7. bundle' \in Owner
    BY <1>4 DEF Owner
<1>8. /\ bundle'.root = b.root /\ bundle'.receipts = b.receipts
      /\ bundle'.issuers = b.issuers /\ bundle'.unsettled = b.unsettled
      /\ bundle'.pending = b.pending /\ bundle'.saving = b.saving
    BY <1>4 DEF Owner
<1>9. /\ bundle'.save = b.save /\ bundle'.root_sha256 = b.root_sha256
      /\ bundle'.committed = b.committed /\ bundle'.can_collect = b.can_collect
    BY <1>4 DEF Owner
<1> QED
    BY <1>4, <1>5, <1>6, <1>7, <1>8, <1>9 DEF next

(* The parts of the invariant that are about the store and the roots       *)
(* survive the start of any publication by a settled owner.                *)
LEMMA StartKeepsStore ==
    ASSUME TypeOK, Agreed, Underway, Collectable, GraphIsPresent,
           Owned, ~InFlight, ~bundle.unsettled,
           NEW kind \in Kind, NEW b \in Owner, NEW h \in History,
           NEW receipts \in SUBSET ReceiptOf, NEW original \in History,
           Start(kind, b, h, receipts, original),
           b.root = bundle.root, b.committed = bundle.committed,
           b.can_collect = bundle.can_collect, ~b.unsettled,
           kind = "save" => b.receipts = bundle.receipts /\ b.issuers = bundle.issuers,
           UNCHANGED <<visible, durable, objects>>
    PROVE  Agreed' /\ Underway' /\ Collectable' /\ GraphIsPresent'
<1>1. /\ bundle.committed = Closure(bundle.root) /\ durable = bundle.root
      /\ visible = bundle.root
      /\ bundle.receipts = bundle.root.receipts /\ bundle.issuers = bundle.root.issuers
    BY DEF Agreed
<1>2. /\ attempts' = attempts + 1
      /\ flight' \in Flight
      /\ flight'.kind = kind /\ flight'.step = "admitted"
      /\ flight'.issuers = bundle.issuers /\ flight'.receipts = bundle.receipts
      /\ flight'.next = NextRoot(b, h, receipts)
      /\ bundle' \in Owner
      /\ bundle'.root = b.root /\ bundle'.receipts = b.receipts
      /\ bundle'.issuers = b.issuers /\ bundle'.unsettled = b.unsettled
      /\ bundle'.committed = b.committed /\ bundle'.can_collect = b.can_collect
    BY StartFields
<1>3. Owned' /\ InFlight'
    BY <1>2, OwnerNotClosed, FlightNotIdle DEF Owned, InFlight
<1>4. /\ flight'.next.sha = attempts'
      /\ Range(flight'.next.predecessors) \subseteq Closure(b.root)
    <2>1. /\ NextRoot(b, h, receipts).sha = attempts + 1
          /\ Range(NextRoot(b, h, receipts).predecessors) \subseteq Closure(b.root)
        BY NextRootType
    <2> QED
        BY <1>2, <2>1
<1>5. Agreed'
    BY <1>1, <1>2, <1>3 DEF Agreed, Closure
<1>6. Underway'
    <2>1. /\ ~bundle'.unsettled
          /\ flight'.step \notin {"renamed", "synced"}
          /\ flight'.receipts = bundle'.root.receipts /\ flight'.issuers = bundle'.root.issuers
          /\ flight'.kind = "save" => /\ bundle'.receipts = bundle'.root.receipts
                                      /\ bundle'.issuers = bundle'.root.issuers
        BY <1>1, <1>2
    <2>2. Range(flight'.next.predecessors) \subseteq Closure(bundle'.root)
        BY <1>2, <1>4
    <2> QED
        BY <1>2, <1>3, <1>4, <2>1, <2>2 DEF Underway, Closure
<1>7. Collectable'
    BY <1>1, <1>2, <1>3 DEF Collectable, Closure
<1> QED
    BY <1>5, <1>6, <1>7 DEF GraphIsPresent, Closure

(* A command that is admitted: its receipt and its effect are one step     *)
(* ahead of the durable root, and no published receipt has its id.         *)
LEMMA CommandStarts ==
    ASSUME BundleInv, NEW kind \in {"command", "manual"}, NEW e \in Command,
           AdmitsCommand(e), NEW n \in 0 .. Len(Effect(bundle.root.history, e).batches),
           Start(kind, Admitted(e), Fold(Effect(bundle.root.history, e), n),
                 WithReceipt(e), core),
           core' \in History, core'.floor = core.floor,
           refused' = {r \in refused : ~Matches(r, e)},
           UNCHANGED <<visible, durable, objects, ticket, epoch, acked>>
    PROVE  BundleInv'
<1> DEFINE b == Admitted(e)
           h == Fold(Effect(bundle.root.history, e), n)
           receipts == WithReceipt(e)
           r1 == Receipt(e, bundle.root.generation + 1)
<1> USE DEF BundleInv
<1>1. /\ Owned /\ ~InFlight /\ ~bundle.unsettled /\ bundle.pending = NoCommand
      /\ Lookup(bundle, e) = "Absent"
      /\ bundle.issuers[e.issuer].phase = "issued"
      /\ bundle.issuers[e.issuer].next = e.sequence
    BY DEF AdmitsCommand, CanStart, Owned, InFlight
<1>2. /\ bundle.committed = Closure(bundle.root) /\ durable = bundle.root
      /\ visible = bundle.root
      /\ bundle.receipts = bundle.root.receipts /\ bundle.issuers = bundle.root.issuers
      /\ bundle.save = NoTicket /\ ~bundle.saving
    BY <1>1 DEF Agreed
<1>3. bundle \in Owner /\ bundle.root \in Root
    BY <1>1, OwnerIsOpen DEF Owner
<1>4. e.issuer \in Issuer /\ e.sequence \in Nat /\ e.action \in Atomic!Action
    BY DEF Command
<1>5. /\ b = [bundle EXCEPT !.pending = e, !.issuers = Atomic!Advance(bundle.issuers, e.issuer)]
      /\ Atomic!Advance(bundle.issuers, e.issuer) \in [Issuer -> Entry]
    <2>1. bundle.issuers \in [Issuer -> Entry]
        BY <1>3 DEF Owner
    <2>2. [bundle.issuers[e.issuer] EXCEPT !.next = @ + 1] \in Entry
        BY <1>4, <2>1, SMTT(60) DEF Entry
    <2> QED
        BY <1>3, <2>1, <2>2 DEF Admitted, Atomic!Advance, Owner
<1>6. b \in Owner
    BY <1>3, <1>5 DEF Owner
<1>7. /\ b.root = bundle.root /\ b.committed = bundle.committed
      /\ b.can_collect = bundle.can_collect /\ b.unsettled = bundle.unsettled
      /\ b.receipts = bundle.receipts /\ b.pending = e
      /\ b.issuers = Atomic!Advance(bundle.issuers, e.issuer)
    BY <1>3, <1>5 DEF Owner
<1>8. b.save = bundle.save /\ b.saving = bundle.saving
    BY <1>3, <1>5 DEF Owner
<1>9. h \in History
    <2>1. bundle.root.history \in History
        BY <1>3 DEF Root
    <2>2. Effect(bundle.root.history, e) \in History
        BY <1>4, <2>1, EffectType
    <2> QED
        BY <2>2, FoldType
<1>10. r1 \in ReceiptOf /\ receipts = bundle.root.receipts \cup {r1} /\ receipts \in SUBSET ReceiptOf
    <2>1. bundle.root.generation + 1 \in Nat
        BY <1>3 DEF Root
    <2>2. r1 \in ReceiptOf
        BY <1>4, <2>1 DEF Receipt, Atomic!Receipt, ReceiptOf
    <2> QED
        BY <1>2, <1>3, <2>2 DEF WithReceipt, Owner
<1>11. core \in History /\ core.floor \in Nat
    BY DEF TypeOK, History
<1>12. kind \in Kind /\ kind # "save"
    BY DEF Kind
<1>13. Unmatched(e, bundle.root.receipts)
    BY <1>1, <1>2 DEF Lookup, Unmatched
<1> HIDE DEF b, h, receipts, r1
<1>14. Start(kind, b, h, receipts, core)
    BY DEF b, h, receipts
<1>15. /\ attempts' = attempts + 1
       /\ flight' \in Flight
       /\ flight'.kind = kind /\ flight'.step = "admitted" /\ flight'.original = core
       /\ flight'.next = NextRoot(b, h, receipts)
       /\ bundle' \in Owner
       /\ bundle'.root = b.root /\ bundle'.receipts = b.receipts
       /\ bundle'.pending = b.pending /\ bundle'.saving = b.saving
       /\ bundle'.save = b.save
    <2>1. TypeOK /\ Owned /\ kind \in Kind /\ b \in Owner /\ h \in History
          /\ receipts \in SUBSET ReceiptOf /\ core \in History
        BY <1>1, <1>6, <1>9, <1>10, <1>11, <1>12
    <2> HIDE DEF BundleInv
    <2>2. attempts' = attempts + 1 /\ flight' \in Flight
        BY <1>14, <2>1, StartFields
    <2>5. flight'.kind = kind /\ flight'.step = "admitted"
        BY <1>14, <2>1, StartFields
    <2>6. flight'.next = NextRoot(b, h, receipts)
        BY <1>14, <2>1, StartFields
    <2>3. /\ bundle' \in Owner
          /\ bundle'.root = b.root /\ bundle'.receipts = b.receipts
          /\ bundle'.pending = b.pending /\ bundle'.saving = b.saving
          /\ bundle'.save = b.save
        BY <1>14, <2>1, StartFields
    <2>4. flight'.original = core
        BY <1>14 DEF Start
    <2> QED
        BY <2>2, <2>3, <2>4, <2>5, <2>6
<1>16. /\ NextRoot(b, h, receipts).sha = attempts + 1
       /\ NextRoot(b, h, receipts).generation = b.root.generation + 1
       /\ NextRoot(b, h, receipts).history = h
       /\ NextRoot(b, h, receipts).receipts = receipts
       /\ NextRoot(b, h, receipts).issuers = b.issuers
    BY <1>6, <1>9, <1>10, NextRootType
<1>17. Owned' /\ InFlight' /\ ByCommand' /\ ~BySave'
    BY <1>15, OwnerNotClosed, FlightNotIdle DEF Owned, InFlight, ByCommand, BySave
<1>18. Agreed' /\ Underway' /\ Collectable' /\ GraphIsPresent'
    BY <1>1, <1>6, <1>7, <1>9, <1>10, <1>11, <1>12, <1>14, StartKeepsStore
<1>19. TypeOK'
    <2>1. refused' \subseteq Command \cup {NoCommand}
        BY DEF TypeOK
    <2>2. attempts' \in Nat
        BY <1>15 DEF TypeOK
    <2> QED
        BY <1>15, <2>1, <2>2 DEF TypeOK
<1>20. Receipted'
    <2>1. /\ bundle'.receipts = bundle.root.receipts /\ bundle'.root = bundle.root
          /\ bundle'.pending = e /\ flight'.next.receipts = bundle.root.receipts \cup {r1}
        BY <1>2, <1>7, <1>10, <1>15, <1>16
    <2> QED
        BY <1>2, <1>13, <1>17, <2>1 DEF Receipted, r1, Unmatched, Matches, Receipt, Atomic!Receipt
<1>21. Refusals'
    <2>1. /\ flight'.next.receipts = bundle.root.receipts \cup {r1}
          /\ r1.issuer = e.issuer /\ r1.sequence = e.sequence
        BY <1>10, <1>15, <1>16 DEF r1, Receipt, Atomic!Receipt
    <2>2. ASSUME NEW c \in refused', NEW r \in visible.receipts \cup {r1}
          PROVE  ~Matches(r, c)
        BY <2>1, <2>2 DEF Refusals, RefusedOf, Unmatched, Matches
    <2> QED
        BY <1>2, <2>1, <2>2 DEF Refusals, RefusedOf, Unmatched, Matches
<1>22. Acknowledgements'
    <2>1. /\ flight'.next.receipts = bundle.root.receipts \cup {r1}
          /\ flight'.next.issuers = Atomic!Advance(bundle.issuers, e.issuer)
        BY <1>7, <1>10, <1>15, <1>16
    <2>2. ASSUME NEW r \in acked
          PROVE  r \in flight'.next.receipts \/ flight'.next.issuers[r.issuer] = Gone
        <3>1. r \in durable.receipts \/ durable.issuers[r.issuer] = Gone
            BY DEF Acknowledgements, AckedIn
        <3>2. CASE durable.issuers[r.issuer] = Gone
            <4>1. r.issuer \in Issuer /\ r.issuer # e.issuer
                BY <1>1, <1>2, <3>2 DEF Gone, Atomic!Gone, TypeOK, ReceiptOf
            <4>2. bundle.issuers \in [Issuer -> Entry]
                BY <1>3 DEF Owner
            <4>3. flight'.next.issuers[r.issuer] = bundle.issuers[r.issuer]
                BY <1>4, <2>1, <4>1, <4>2 DEF Atomic!Advance
            <4> QED
                BY <1>2, <3>2, <4>3
        <3> QED
            BY <1>2, <2>1, <3>1, <3>2
    <2>3. Gone' = Gone
        BY DEF Gone, Atomic!Gone
    <2> QED
        BY <2>2, <2>3 DEF Acknowledgements, AckedIn
<1>23. Floors'
    BY <1>15 DEF Floors
<1>24. Numbers'
    <2>1. visible.sha \in Nat /\ durable.sha \in Nat /\ ticket.tag \in Nat /\ attempts \in Nat
        BY DEF TypeOK, Root, Ticket
    <2>2. /\ visible'.sha <= attempts' /\ ticket'.tag <= attempts' /\ durable'.sha <= attempts'
          /\ ticket'.tag # attempts' /\ visible'.sha < attempts'
        BY <1>15, <2>1 DEF Numbers
    <2>3. bundle'.save = NoTicket /\ ~bundle'.saving
        BY <1>2, <1>8, <1>15
    <2>4. NoTicket' = NoTicket
        BY DEF NoTicket
    <2> QED
        BY <1>17, <2>2, <2>3, <2>4 DEF Numbers
<1>25. Planned'
    <2>1. flight'.next.generation = durable.generation + 1
        BY <1>2, <1>7, <1>15, <1>16
    <2> DEFINE s == Spent(durable, e.issuer, e.action)
    <2>2. s.issuer = e.issuer /\ s.sequence = e.sequence /\ s.action = e.action
        BY <1>1, <1>2 DEF Spent
    <2>3. /\ Effect(durable.history, s) = Effect(bundle.root.history, e)
          /\ Receipt(s, durable.generation + 1) = r1
        BY <1>2, <2>2 DEF Effect, Atomic!Effect, Atomic!BatchOf, Receipt, Atomic!Receipt, r1
    <2>4. /\ flight'.next.history = Fold(Effect(durable.history, s), n)
          /\ n \in 0 .. Len(Effect(durable.history, s).batches)
        BY <1>15, <1>16, <2>3 DEF h
    <2> HIDE DEF s
    <2>5. Executed(durable, flight'.next, s)
        BY <1>1, <1>2, <1>7, <1>10, <1>15, <1>16, <2>2, <2>3, <2>4 DEF Executed
    <2>6. ByOneCommand(durable, flight'.next)
        BY <1>4, <2>5 DEF ByOneCommand, s
    <2>7. visible' = durable' /\ durable' = durable
        BY <1>2
    <2> QED
        BY <1>17, <2>1, <2>6, <2>7 DEF Planned
<1> QED
    BY <1>18, <1>19, <1>20, <1>21, <1>22, <1>23, <1>24, <1>25

(* A save that starts: memory b0 differs from the owner's in the entries   *)
(* and receipts of at most one issuer.                                     *)
LEMMA SaveStarts ==
    ASSUME BundleInv, NEW kind \in {"save", "issuers"}, NEW b0 \in Owner, CanStart,
           SaveWith(b0, kind),
           b0.root = bundle.root, b0.committed = bundle.committed,
           b0.can_collect = bundle.can_collect, b0.unsettled = bundle.unsettled,
           b0.pending = bundle.pending,
           kind = "save" => b0.receipts = bundle.receipts /\ b0.issuers = bundle.issuers,
           Entries(durable, b0.receipts, b0.issuers)
    PROVE  BundleInv'
<1> DEFINE aligned == Fold(core, bundle.root.history.floor)
           h == SelectHistory(aligned)
           b == [b0 EXCEPT !.saving = TRUE, !.save = ticket', !.root_sha256 = 0]
           receipts == b0.receipts
<1> USE DEF BundleInv
<1>1. /\ Owned /\ ~InFlight /\ ~bundle.unsettled /\ ticket = NoTicket
      /\ UNCHANGED <<visible, durable, objects, core, epoch, acked, refused>>
    BY DEF CanStart, SaveWith, Owned, InFlight
<1>2. /\ bundle.committed = Closure(bundle.root) /\ durable = bundle.root
      /\ visible = bundle.root
      /\ bundle.receipts = bundle.root.receipts /\ bundle.issuers = bundle.root.issuers
    BY <1>1 DEF Agreed
<1>3. bundle \in Owner /\ bundle.root \in Root /\ core \in History
    BY <1>1, OwnerIsOpen DEF Owner, TypeOK
<1>4. h \in History
    <2>1. bundle.root.history.floor \in Nat
        BY <1>3 DEF Root, History
    <2>2. aligned \in History
        BY <1>3, <2>1, FoldType
    <2> QED
        BY <2>2, SelectType
<1>5. /\ ticket' = IF h.floor > core.floor THEN [NoTicket EXCEPT !.floor = h.floor] ELSE NoTicket
      /\ Start(kind, b, h, receipts, core)
    BY DEF SaveWith
<1>6. h.floor \in Nat /\ core.floor \in Nat
    BY <1>3, <1>4 DEF History
<1> HIDE DEF h, aligned
<1>7. /\ ticket' \in Ticket /\ ticket'.tag = 0 /\ ticket'.floor <= h.floor
      /\ ~ticket'.ready
    <2> DEFINE floor == IF h.floor > core.floor THEN h.floor ELSE 0
    <2>1. ticket' = [floor |-> floor, tag |-> 0, previous |-> 0, ready |-> FALSE]
        BY <1>5 DEF NoTicket
    <2>2. floor \in Nat /\ floor <= h.floor
        BY <1>6
    <2> HIDE DEF floor
    <2> QED
        BY <2>1, <2>2 DEF Ticket
<1>8. b \in Owner
    BY <1>7 DEF Owner
<1>9. /\ b.root = b0.root /\ b.committed = b0.committed
      /\ b.can_collect = b0.can_collect /\ b.unsettled = b0.unsettled
      /\ b.receipts = b0.receipts /\ b.issuers = b0.issuers
    BY DEF Owner
<1>10. b.save = ticket' /\ b.root_sha256 = 0 /\ b.saving = TRUE
    BY DEF Owner
<1>11. receipts \in SUBSET ReceiptOf /\ b0.issuers \in [Issuer -> Entry]
    BY DEF Owner
<1>12. kind \in Kind
    BY DEF Kind
<1> HIDE DEF b, receipts
<1>13. b.receipts = receipts
    BY <1>9 DEF receipts
<1>14. /\ attempts' = attempts + 1
       /\ flight' \in Flight
       /\ flight'.kind = kind /\ flight'.step = "admitted" /\ flight'.original = core
       /\ flight'.next = NextRoot(b, h, receipts)
       /\ bundle' \in Owner
       /\ bundle'.root = b.root /\ bundle'.receipts = b.receipts
       /\ bundle'.save = b.save /\ bundle'.root_sha256 = b.root_sha256
    <2>1. TypeOK /\ Owned /\ kind \in Kind /\ b \in Owner /\ h \in History
          /\ receipts \in SUBSET ReceiptOf /\ core \in History
        BY <1>1, <1>3, <1>4, <1>8, <1>11, <1>12
    <2> HIDE DEF BundleInv
    <2>2. attempts' = attempts + 1 /\ flight' \in Flight
        BY <1>5, <2>1, StartFields
    <2>3. flight'.kind = kind /\ flight'.step = "admitted"
        BY <1>5, <2>1, StartFields
    <2>4. flight'.next = NextRoot(b, h, receipts)
        BY <1>5, <2>1, StartFields
    <2>5. flight'.original = core
        BY <1>5 DEF Start
    <2>6. /\ bundle' \in Owner
          /\ bundle'.root = b.root /\ bundle'.receipts = b.receipts
          /\ bundle'.save = b.save /\ bundle'.root_sha256 = b.root_sha256
        BY <1>5, <2>1, StartFields
    <2> QED
        BY <2>2, <2>3, <2>4, <2>5, <2>6
<1>15. /\ NextRoot(b, h, receipts).sha = attempts + 1
       /\ NextRoot(b, h, receipts).generation = b.root.generation + 1
       /\ NextRoot(b, h, receipts).history = h
       /\ NextRoot(b, h, receipts).receipts = receipts
       /\ NextRoot(b, h, receipts).issuers = b.issuers
    BY <1>4, <1>8, <1>11, NextRootType
<1>16. Owned' /\ InFlight' /\ BySave' /\ ~ByCommand'
    BY <1>14, OwnerNotClosed, FlightNotIdle DEF Owned, InFlight, ByCommand, BySave
<1>17. Agreed' /\ Underway' /\ Collectable' /\ GraphIsPresent'
    <2>1. /\ b.root = bundle.root /\ b.committed = bundle.committed
          /\ b.can_collect = bundle.can_collect /\ ~b.unsettled
          /\ kind = "save" => b.receipts = bundle.receipts /\ b.issuers = bundle.issuers
        BY <1>1, <1>9
    <2> QED
        BY <1>1, <1>3, <1>4, <1>5, <1>8, <1>11, <1>12, <2>1, StartKeepsStore
<1>18. TypeOK'
    <2>1. attempts' \in Nat
        BY <1>14 DEF TypeOK
    <2> QED
        BY <1>1, <1>7, <1>14, <2>1 DEF TypeOK
<1>19. receipts \subseteq durable.receipts
    BY DEF Entries, receipts
<1>20. flight'.next.receipts = receipts /\ flight'.next.issuers = b0.issuers
    BY <1>9, <1>14, <1>15
<1>21. Receipted'
    BY <1>1, <1>2, <1>9, <1>13, <1>14, <1>16, <1>19, <1>20 DEF Receipted
<1>22. Refusals'
    BY <1>1, <1>19, <1>20 DEF Refusals, RefusedOf, Unmatched, Matches
<1>23. Acknowledgements'
    <2>1. ASSUME NEW r \in acked
          PROVE  r \in receipts \/ b0.issuers[r.issuer] = Gone
        <3>1. r \in durable.receipts \/ durable.issuers[r.issuer] = Gone
            BY DEF Acknowledgements, AckedIn
        <3>2. r.issuer \in Issuer
            BY DEF TypeOK, ReceiptOf
        <3>3. PICK i \in Issuer :
                 /\ \A j \in Issuer \ {i} : EntryKept(durable, j, receipts, b0.issuers)
                 /\ \/ EntryKept(durable, i, receipts, b0.issuers)
                    \/ EntryIssued(durable, i, receipts, b0.issuers)
                    \/ EntryAcknowledged(durable, i, receipts, b0.issuers)
                    \/ EntryClosed(durable, i, receipts, b0.issuers)
            BY DEF Entries, receipts
        <3>4. CASE EntryKept(durable, r.issuer, receipts, b0.issuers)
            BY <3>1, <3>4 DEF EntryKept, HoldsReceipts
        <3>5. CASE EntryIssued(durable, r.issuer, receipts, b0.issuers)
            BY <3>1, <3>5 DEF EntryIssued, HoldsReceipts, Atomic!Unissued, Gone, Atomic!Gone
        <3>6. CASE EntryAcknowledged(durable, r.issuer, receipts, b0.issuers)
            BY <3>1, <3>6 DEF EntryAcknowledged, HoldsReceipts, Gone, Atomic!Gone
        <3>7. CASE EntryClosed(durable, r.issuer, receipts, b0.issuers)
            BY <3>1, <3>7 DEF EntryClosed, HoldsReceipts, Gone, Atomic!Gone
        <3> QED
            BY <3>2, <3>3, <3>4, <3>5, <3>6, <3>7
    <2>2. Gone' = Gone
        BY DEF Gone, Atomic!Gone
    <2> QED
        BY <1>1, <1>20, <2>1, <2>2 DEF Acknowledgements, AckedIn
<1>24. Floors'
    BY <1>1, <1>14 DEF Floors
<1>25. Numbers'
    <2>1. visible.sha \in Nat /\ attempts \in Nat /\ visible.sha <= attempts
        BY DEF TypeOK, Root, Numbers
    <2>2. /\ visible'.sha <= attempts' /\ ticket'.tag <= attempts'
          /\ ticket'.tag # attempts' /\ visible'.sha < attempts' /\ durable'.sha <= attempts'
        BY <1>1, <1>2, <1>7, <1>14, <2>1
    <2>3. flight'.next.history = h /\ bundle'.save = ticket' /\ bundle'.root_sha256 = 0
        BY <1>10, <1>14, <1>15
    <2>4. bundle'.saving = b.saving
        <3> HIDE DEF BundleInv
        <3>1. TypeOK /\ Owned
            BY <1>1 DEF BundleInv
        <3> QED
            BY <1>3, <1>4, <1>5, <1>8, <1>11, <1>12, <3>1, StartFields
    <2> QED
        BY <1>7, <1>10, <1>16, <2>2, <2>3, <2>4 DEF Numbers
<1>26. Planned'
    <2>1. flight'.next.generation = durable.generation + 1
        BY <1>2, <1>9, <1>14, <1>15
    <2>2. Entries(durable, flight'.next.receipts, flight'.next.issuers)
        BY <1>20 DEF receipts
    <2>3. visible' = durable' /\ durable' = durable
        BY <1>1, <1>2
    <2> QED
        BY <1>16, <2>1, <2>2, <2>3 DEF Planned
<1> QED
    BY <1>17, <1>18, <1>21, <1>22, <1>23, <1>24, <1>25, <1>26

LEMMA FoldNothing ==
    ASSUME NEW h \in History
    PROVE  h = Fold(h, 0) /\ 0 \in 0 .. Len(h.batches)
<1>1. h.floor \in Nat /\ Len(h.batches) \in Nat
    BY DEF History
<1>2. ~(h.floor < 0) /\ 0 \in 0 .. Len(h.batches)
    BY <1>1
<1>3. Fold(h, 0) = [h EXCEPT !.floor = h.floor]
    BY <1>2 DEF Fold, Atomic!Fold, History
<1> QED
    BY <1>2, <1>3 DEF History

LEMMA EnvelopeIsCommand == ASSUME TypeOK, NEW e \in Envelope PROVE e \in Command
<1>1. EmptyRoot.history \in History
    <2>1. EmptyRoot.history = [floor |-> 0, batches |-> << >>]
        BY DEF EmptyRoot, Atomic!EmptyRoot
    <2> QED
        BY <2>1 DEF History
<1>2. visible.history \in History
    BY DEF TypeOK, Root
<1>3. \A n \in 1 .. MaxSequence : n \in Nat
    BY BoundsAreNaturals
<1>4. \A n \in 1 .. epoch : n \in Nat
    BY DEF TypeOK
<1> QED
    BY <1>1, <1>2, <1>3, <1>4 DEF Envelope, SeenHistories, Command

LEMMA CommandTargetKeeps ==
    ASSUME BundleInv, NEW e \in Envelope, CommandTarget(e)
    PROVE  BundleInv'
<1> DEFINE after == Effect(bundle.root.history, e)
           h == IF e.action = "comment" THEN after ELSE SelectHistory(after)
<1>1. TypeOK /\ e \in Command
    BY EnvelopeIsCommand DEF BundleInv
<1>2. /\ AdmitsCommand(e) /\ Start("command", Admitted(e), h, WithReceipt(e), core)
      /\ refused' = {r \in refused : ~Matches(r, e)}
      /\ UNCHANGED <<visible, durable, objects, core, ticket, epoch, acked>>
    BY DEF CommandTarget
<1>3. Owned
    BY <1>2 DEF AdmitsCommand, CanStart, Owned
<1>4. bundle.root.history \in History /\ e.issuer \in Issuer /\ e.sequence \in Nat
    BY <1>1, <1>3, OwnerIsOpen DEF Owner, Root, Command
<1>5. after \in History
    BY <1>4, EffectType
<1>6. core' \in History /\ core'.floor = core.floor
    BY <1>1, <1>2 DEF TypeOK
<1> HIDE DEF after
<1>7. PICK n \in 0 .. Len(after.batches) : h = Fold(after, n)
    BY <1>5, FoldNothing, SelectType
<1> HIDE DEF h
<1>8. Start("command", Admitted(e), Fold(after, n), WithReceipt(e), core)
    BY <1>2, <1>7
<1> QED
    BY <1>1, <1>2, <1>6, <1>8, CommandStarts DEF after

LEMMA AdmittedHistoryKeeps ==
    ASSUME BundleInv, NEW e \in Envelope, AdmittedHistory(e)
    PROVE  BundleInv'
<1> DEFINE after == Effect(bundle.root.history, e)
<1>1. TypeOK /\ e \in Command
    BY EnvelopeIsCommand DEF BundleInv
<1>2. /\ AdmitsCommand(e) /\ core = e.before /\ e.before = bundle.root.history
      /\ Start("manual", Admitted(e), after, WithReceipt(e), core)
      /\ core' = after
      /\ refused' = {r \in refused : ~Matches(r, e)}
      /\ UNCHANGED <<visible, durable, objects, ticket, epoch, acked>>
    BY DEF AdmittedHistory, AdmitsCommand
<1>3. Owned
    BY <1>2 DEF AdmitsCommand, CanStart, Owned
<1>4. bundle.root.history \in History /\ e.issuer \in Issuer /\ e.sequence \in Nat
    BY <1>1, <1>3, OwnerIsOpen DEF Owner, Root, Command
<1>5. after \in History /\ after.floor = bundle.root.history.floor
    BY <1>4, EffectType
<1>6. after = Fold(after, 0) /\ 0 \in 0 .. Len(after.batches)
    BY <1>5, FoldNothing
<1> HIDE DEF after
<1>7. Start("manual", Admitted(e), Fold(after, 0), WithReceipt(e), core)
    BY <1>2, <1>6
<1>8. core' \in History /\ core'.floor = core.floor
    BY <1>2, <1>5
<1> QED
    BY <1>1, <1>2, <1>6, <1>7, <1>8, CommandStarts DEF after

(* A settled owner's memory is the durable root, and what it saves differs *)
(* from it in the entry of one issuer.                                     *)
LEMMA SettledMemory ==
    ASSUME BundleInv, NEW b, NEW kind, CanStart, SaveWith(b, kind)
    PROVE  /\ bundle \in Owner /\ durable \in Root
           /\ bundle.receipts = durable.receipts /\ bundle.issuers = durable.issuers
           /\ durable.issuers \in [Issuer -> Entry]
           /\ \A r \in durable.receipts : r.issuer \in Issuer
<1>1. Owned /\ ~InFlight /\ ~bundle.unsettled
    BY DEF CanStart, SaveWith, Owned, InFlight
<1>2. bundle \in Owner /\ durable \in Root
    BY <1>1, OwnerIsOpen DEF BundleInv, TypeOK
<1>3. /\ bundle.receipts = durable.receipts /\ bundle.issuers = durable.issuers
    BY <1>1 DEF BundleInv, Agreed
<1> QED
    BY <1>2, <1>3 DEF Root, ReceiptOf

LEMMA SaveKeeps == ASSUME BundleInv, Save PROVE BundleInv'
<1>1. CanStart /\ SaveWith(bundle, "save")
    BY DEF Save
<1>2. /\ bundle \in Owner /\ bundle.receipts = durable.receipts
      /\ bundle.issuers = durable.issuers
    BY <1>1, SettledMemory
<1>3. Entries(durable, bundle.receipts, bundle.issuers)
    BY <1>2, SomeIssuer DEF Entries, EntryKept, HoldsReceipts
<1> QED
    BY <1>1, <1>2, <1>3, SaveStarts

LEMMA IssueKeeps == ASSUME BundleInv, NEW i \in Issuer, IssueIssuer(i) PROVE BundleInv'
<1> DEFINE b == [bundle EXCEPT !.issuers[i] = Issued]
<1>1. CanStart /\ bundle.issuers[i] = Atomic!Unissued /\ SaveWith(b, "issuers")
    BY DEF IssueIssuer
<1>2. /\ bundle \in Owner /\ bundle.receipts = durable.receipts
      /\ bundle.issuers = durable.issuers /\ durable.issuers \in [Issuer -> Entry]
    BY <1>1, SettledMemory
<1>3. Issued \in Entry
    BY DEF Issued, Atomic!Issued, Entry
<1>4. b = [bundle EXCEPT !.issuers = [durable.issuers EXCEPT ![i] = Issued]]
    BY <1>2 DEF Owner
<1>5. b \in Owner
    BY <1>2, <1>3, <1>4 DEF Owner
<1>6. /\ b.root = bundle.root /\ b.committed = bundle.committed
      /\ b.can_collect = bundle.can_collect /\ b.unsettled = bundle.unsettled
      /\ b.pending = bundle.pending
      /\ b.receipts = durable.receipts /\ b.issuers = [durable.issuers EXCEPT ![i] = Issued]
    BY <1>2, <1>4 DEF Owner
<1> HIDE DEF b
<1>7. Entries(durable, b.receipts, b.issuers)
    <2>1. \A j \in Issuer \ {i} : EntryKept(durable, j, b.receipts, b.issuers)
        BY <1>2, <1>6 DEF EntryKept, HoldsReceipts
    <2>2. EntryIssued(durable, i, b.receipts, b.issuers)
        BY <1>1, <1>2, <1>6 DEF EntryIssued, HoldsReceipts
    <2> QED
        BY <1>6, <2>1, <2>2 DEF Entries
<1> QED
    BY <1>1, <1>5, <1>6, <1>7, SaveStarts

LEMMA AcknowledgeKeeps ==
    ASSUME BundleInv, NEW i \in Issuer, NEW through \in Nat, AcknowledgeIssuer(i, through)
    PROVE  BundleInv'
<1> DEFINE b == [bundle EXCEPT !.issuers[i].high = through]
           entry == [durable.issuers[i] EXCEPT !.high = through]
<1>1. /\ CanStart /\ bundle.issuers[i].phase \in {"issued", "retired"}
      /\ through >= bundle.issuers[i].high /\ through < bundle.issuers[i].next
      /\ SaveWith(b, "issuers")
    BY DEF AcknowledgeIssuer
<1>2. /\ bundle \in Owner /\ bundle.receipts = durable.receipts
      /\ bundle.issuers = durable.issuers /\ durable.issuers \in [Issuer -> Entry]
    BY <1>1, SettledMemory
<1>3. durable.issuers[i] \in Entry /\ entry \in Entry /\ entry.high = through
    BY <1>2 DEF Entry
<1>4. b = [bundle EXCEPT !.issuers = [durable.issuers EXCEPT ![i] = entry]]
    BY <1>2 DEF Owner
<1> HIDE DEF entry
<1>5. b \in Owner
    <2> DEFINE issuers == [durable.issuers EXCEPT ![i] = entry]
    <2>1. issuers \in [Issuer -> Entry]
        BY <1>2, <1>3
    <2>2. b = [bundle EXCEPT !.issuers = issuers]
        BY <1>4
    <2> HIDE DEF issuers, b
    <2> QED
        BY <1>2, <2>1, <2>2 DEF Owner
<1>6. /\ b.root = bundle.root /\ b.committed = bundle.committed
      /\ b.can_collect = bundle.can_collect /\ b.unsettled = bundle.unsettled
      /\ b.pending = bundle.pending
      /\ b.receipts = durable.receipts /\ b.issuers = [durable.issuers EXCEPT ![i] = entry]
    BY <1>2, <1>4 DEF Owner
<1> HIDE DEF b
<1>7. Entries(durable, b.receipts, b.issuers)
    <2>1. \A j \in Issuer \ {i} : EntryKept(durable, j, b.receipts, b.issuers)
        BY <1>2, <1>6 DEF EntryKept, HoldsReceipts
    <2>2. through \in durable.issuers[i].high .. durable.issuers[i].next - 1
        BY <1>1, <1>2, <1>3 DEF Entry
    <2>3. b.issuers[i] = entry
        BY <1>2, <1>6
    <2>4. EntryAcknowledged(durable, i, b.receipts, b.issuers)
        BY <1>1, <1>2, <1>3, <1>6, <2>2, <2>3 DEF EntryAcknowledged, HoldsReceipts, entry
    <2> QED
        BY <1>6, <2>1, <2>4 DEF Entries
<1> QED
    BY <1>1, <1>5, <1>6, <1>7, SaveStarts

LEMMA RetireKeeps ==
    ASSUME BundleInv, NEW i \in Issuer, NEW forget \in BOOLEAN, RetireIssuer(i, forget)
    PROVE  BundleInv'
<1> DEFINE kept == {r \in bundle.receipts : ~forget \/ r.issuer # i}
           entry == IF \E r \in kept : r.issuer = i
                    THEN [bundle.issuers[i] EXCEPT !.phase = "retired"] ELSE Gone
           b == [bundle EXCEPT !.issuers[i] = entry, !.receipts = kept]
<1>1. /\ CanStart /\ bundle.issuers[i].phase \in {"issued", "retired"}
      /\ bundle.issuers[i].high + 1 = bundle.issuers[i].next
      /\ SaveWith(b, "issuers")
    BY DEF RetireIssuer
<1>2. /\ bundle \in Owner /\ bundle.receipts = durable.receipts
      /\ bundle.issuers = durable.issuers /\ durable.issuers \in [Issuer -> Entry]
    BY <1>1, SettledMemory
<1>3. entry \in Entry /\ kept \in SUBSET ReceiptOf
    <2>1. bundle.issuers[i] \in Entry
        BY <1>2
    <2>2. [bundle.issuers[i] EXCEPT !.phase = "retired"] \in Entry /\ Gone \in Entry
        BY <2>1 DEF Entry, Gone, Atomic!Gone
    <2>3. bundle.receipts \in SUBSET ReceiptOf
        BY <1>2 DEF Owner
    <2> QED
        BY <2>2, <2>3
<1>4. \/ /\ entry = [durable.issuers[i] EXCEPT !.phase = "retired"]
         /\ HoldsReceipts(durable, i, kept)
      \/ entry = Gone /\ \A r \in kept : r.issuer # i
    BY <1>2 DEF HoldsReceipts
<1>5. kept \subseteq durable.receipts /\ \A j \in Issuer \ {i} : HoldsReceipts(durable, j, kept)
    BY <1>2 DEF HoldsReceipts
<1> HIDE DEF entry, kept
<1>6. b = [bundle EXCEPT !.issuers = [durable.issuers EXCEPT ![i] = entry], !.receipts = kept]
    BY <1>2 DEF Owner
<1>7. b \in Owner
    BY <1>2, <1>3, <1>6 DEF Owner
<1>8. /\ b.root = bundle.root /\ b.committed = bundle.committed
      /\ b.can_collect = bundle.can_collect /\ b.unsettled = bundle.unsettled
      /\ b.pending = bundle.pending
      /\ b.receipts = kept /\ b.issuers = [durable.issuers EXCEPT ![i] = entry]
    BY <1>2, <1>6 DEF Owner
<1> HIDE DEF b
<1>9. Entries(durable, b.receipts, b.issuers)
    <2>1. \A j \in Issuer \ {i} : EntryKept(durable, j, b.receipts, b.issuers)
        BY <1>2, <1>5, <1>8 DEF EntryKept
    <2>2. b.issuers[i] = entry
        BY <1>2, <1>8
    <2>3. EntryClosed(durable, i, b.receipts, b.issuers)
        BY <1>1, <1>2, <1>4, <1>8, <2>2 DEF EntryClosed
    <2> QED
        BY <1>5, <1>8, <2>1, <2>3 DEF Entries
<1> QED
    BY <1>1, <1>7, <1>8, <1>9, SaveStarts

-----------------------------------------------------------------------------
(* Before the rename both roots are the one the owner knows.               *)
LEMMA BeforeRename ==
    ASSUME BundleInv, InFlight, flight.step \in {"admitted", "staged", "tagged"}
    PROVE  /\ Owned /\ bundle \in Owner /\ flight \in Flight /\ ~bundle.unsettled
           /\ visible = bundle.root /\ durable = bundle.root
           /\ bundle.committed = Closure(bundle.root)
    BY OwnerIsOpen, FlightIsFlight DEF BundleInv, Underway, Agreed

LEMMA ContinuesFloor ==
    ASSUME NEW new, NEW old, Atomic!Continues(new, old)
    PROVE  new.floor >= old.floor
    BY DEF Atomic!Continues

(* A staged root is one publication ahead of the durable one.              *)
LEMMA NextIsAhead ==
    ASSUME BundleInv, InFlight, flight.step \in {"staged", "tagged"}
    PROVE  /\ Ahead(durable, flight.next)
           /\ durable.history.floor <= flight.next.history.floor
<1>1. flight \in Flight /\ durable = bundle.root /\ durable \in Root
    BY BeforeRename DEF BundleInv, TypeOK
<1>2. Atomic!Continues(flight.next.history, durable.history)
    BY <1>1 DEF BundleInv, Underway
<1>3. /\ flight.next.generation = durable.generation + 1
      /\ ByCommand => ByOneCommand(durable, flight.next)
      /\ BySave => Entries(durable, flight.next.receipts, flight.next.issuers)
    BY DEF BundleInv, Planned
<1>4. ByCommand \/ BySave
    BY <1>1 DEF ByCommand, BySave, Flight
<1>5. durable.history.floor \in Nat /\ flight.next.history.floor \in Nat
    BY <1>1 DEF Flight, Root, History
<1>6. flight.next.history.floor >= durable.history.floor
    BY <1>2, ContinuesFloor
<1> QED
    BY <1>2, <1>3, <1>4, <1>5, <1>6 DEF Ahead

(* A publication that fails: either nothing was touched and the owner      *)
(* still knows the root, or the outcome is unknown and the owner unsettled.*)
Untouched(b) ==
    /\ b.root = bundle.root /\ b.committed = bundle.committed
    /\ b.receipts = bundle.receipts /\ b.issuers = bundle.issuers
    /\ b.save = bundle.save /\ b.saving = bundle.saving /\ b.unsettled = bundle.unsettled
    /\ flight.step \in {"admitted", "staged", "tagged"}
    /\ visible' = visible
Unknown(b, told) ==
    /\ b.unsettled /\ told = "unknown" /\ b.state # "NotPublished"
    /\ b.receipts \subseteq visible'.receipts \cap durable.receipts
    /\ visible' = visible \/ (visible' = flight.next /\ flight.step = "tagged")

LEMMA FailedKeeps ==
    ASSUME BundleInv, InFlight, NEW b \in Owner, NEW told, Failed(b, told),
           Untouched(b) \/ Unknown(b, told),
           b.pending = bundle.pending, b.root_sha256 \in {0, bundle.root_sha256},
           b.can_collect => Closure(visible') \cup Closure(durable) \subseteq b.committed,
           objects' \subseteq objects,
           Closure(visible') \cup Closure(durable) \subseteq objects',
           UNCHANGED <<durable, attempts, epoch>>
    PROVE  BundleInv'
<1> USE DEF BundleInv
<1>1. bundle \in Owner /\ flight \in Flight /\ TypeOK
    BY OwnerIsOpen, FlightIsFlight DEF Underway
<1>2. /\ flight' = Idle /\ acked' = acked
      /\ bundle' \in Owner
      /\ bundle'.root = b.root /\ bundle'.committed = b.committed
      /\ bundle'.can_collect = b.can_collect
      /\ b.unsettled => bundle'.unsettled /\ bundle'.receipts = b.receipts
      /\ bundle'.receipts \in {b.receipts, flight.receipts}
      /\ core' \in {core, flight.original}
    BY <1>1, FailedFields
<1>3. \/ refused' = refused
      \/ /\ refused' = refused \cup {b.pending} /\ ByCommand
         /\ told # "unknown" \/ b.state = "NotPublished"
    BY <1>1, FailedFields
<1>4. \/ ticket' \in {ticket, NoTicket}
      \/ BySave /\ ticket' = Ready(ticket) /\ b.root_sha256 # 0
    BY <1>1, FailedFields
<1>5. ~bundle'.unsettled =>
         \/ /\ flight.kind = "manual"
            /\ bundle'.receipts = b.receipts /\ bundle'.issuers = flight.issuers
            /\ bundle'.save = b.save /\ bundle'.saving = b.saving
         \/ /\ flight.kind = "save"
            /\ bundle'.receipts = b.receipts /\ bundle'.issuers = b.issuers
            /\ bundle'.save = NoTicket /\ ~bundle'.saving
         \/ /\ flight.kind = "issuers"
            /\ bundle'.receipts = flight.receipts /\ bundle'.issuers = flight.issuers
            /\ bundle'.save = NoTicket /\ ~bundle'.saving
    BY <1>1, FailedFields
<1>6. ~InFlight' /\ Owned'
    BY <1>2, OwnerNotClosed DEF InFlight, Owned, Idle
<1>7. Untouched(b) => /\ ~bundle.unsettled /\ visible = bundle.root /\ durable = bundle.root
                      /\ bundle.committed = Closure(bundle.root)
    BY BeforeRename DEF Untouched
<1>8. /\ flight.receipts = bundle.root.receipts /\ flight.issuers = bundle.root.issuers
      /\ flight.kind = "save" => /\ bundle.receipts = bundle.root.receipts
                                 /\ bundle.issuers = bundle.root.issuers
      /\ flight.next.sha = attempts
    BY DEF Underway
<1>9. visible' = visible \/ (visible' = flight.next /\ flight.step = "tagged")
    BY DEF Untouched, Unknown
<1>10. /\ ticket' \in Ticket /\ ticket'.tag \in {ticket.tag, 0} /\ ticket'.floor \in {ticket.floor, 0}
       /\ ticket'.tag # 0 => ticket'.floor = ticket.floor /\ ticket'.tag = ticket.tag
    <2>1. ticket \in Ticket
        BY <1>1 DEF TypeOK
    <2>2. /\ Ready(ticket) \in Ticket
          /\ Ready(ticket).tag = ticket.tag /\ Ready(ticket).floor = ticket.floor
        BY <2>1 DEF Ready, Ticket
    <2> QED
        BY <1>4, <2>1, <2>2, NoTicketType
<1>11. TypeOK'
    <2>1. visible' \in Root
        BY <1>1, <1>9 DEF TypeOK, Flight
    <2>2. core' \in History
        BY <1>1, <1>2 DEF TypeOK, Flight
    <2>3. refused' \subseteq Command \cup {NoCommand}
        BY <1>1, <1>3 DEF TypeOK, Owner
    <2> QED
        BY <1>1, <1>2, <1>10, <2>1, <2>2, <2>3 DEF TypeOK
<1>12. Agreed'
    <2> SUFFICES ASSUME ~bundle'.unsettled
                 PROVE  /\ bundle'.committed = Closure(bundle'.root)
                        /\ durable' = bundle'.root /\ visible' = bundle'.root
                        /\ bundle'.receipts = bundle'.root.receipts
                        /\ bundle'.issuers = bundle'.root.issuers
                        /\ bundle'.save = NoTicket /\ ~bundle'.saving
        <3> HIDE DEF BundleInv
        <3> QED
            BY <1>6 DEF Agreed
    <2>1. Untouched(b)
        BY <1>2 DEF Unknown
    <2>2. /\ bundle'.committed = Closure(bundle'.root)
          /\ durable' = bundle'.root /\ visible' = bundle'.root
        BY <1>2, <1>7, <2>1 DEF Untouched
    <2>3. CASE flight.kind = "manual"
        <3>1. bundle.receipts = bundle.root.receipts /\ bundle.save = NoTicket /\ ~bundle.saving
            BY <2>3 DEF Receipted, Numbers, ByCommand
        <3>2. bundle'.root = bundle.root
            BY <1>2, <2>1 DEF Untouched
        <3>3. /\ bundle'.receipts = b.receipts /\ bundle'.issuers = flight.issuers
              /\ bundle'.save = b.save /\ bundle'.saving = b.saving
            BY <1>5, <2>3
        <3> QED
            BY <1>8, <2>1, <2>2, <3>1, <3>2, <3>3 DEF Untouched
    <2>4. CASE flight.kind # "manual"
        BY <1>2, <1>5, <1>8, <2>1, <2>2, <2>4 DEF Untouched
    <2> QED
        BY <2>3, <2>4
<1>13. Underway'
    BY <1>6 DEF Underway
<1>14. Collectable'
    BY <1>2, <1>6 DEF Collectable, Closure
<1>15. GraphIsPresent'
    BY DEF GraphIsPresent, Closure
<1>16. Receipted'
    <2>1. bundle'.receipts \subseteq visible'.receipts \cap durable.receipts
        <3>1. CASE Untouched(b)
            <4>1. bundle.receipts \subseteq visible.receipts \cap durable.receipts
                BY DEF Receipted, Underway
            <4> QED
                BY <1>2, <1>7, <1>8, <3>1, <4>1 DEF Untouched
        <3>2. CASE Unknown(b, told)
            BY <1>2, <3>2 DEF Unknown
        <3> QED
            BY <3>1, <3>2
    <2> QED
        BY <1>6, <2>1 DEF Receipted
<1>17. Refusals'
    <2>1. RefusedOf(visible) /\ RefusedOf(durable) /\ RefusedOf(flight.next)
        BY DEF Refusals
    <2>2. CASE refused' = refused
        BY <1>6, <1>9, <2>1, <2>2 DEF Refusals, RefusedOf, Unmatched, Matches
    <2>3. CASE refused' # refused
        <3>1. /\ refused' = refused \cup {bundle.pending} /\ ByCommand /\ Untouched(b)
            BY <1>3, <2>3 DEF Unknown
        <3>2. Unmatched(bundle.pending, visible.receipts) /\ Unmatched(bundle.pending, durable.receipts)
            BY <1>7, <3>1 DEF Receipted
        <3>3. visible' = visible
            BY <3>1 DEF Untouched
        <3> QED
            BY <1>6, <2>1, <3>1, <3>2, <3>3 DEF Refusals, RefusedOf, Unmatched, Matches
    <2> QED
        BY <2>2, <2>3
<1>18. Acknowledgements'
    BY <1>2, <1>6, <1>9 DEF Acknowledgements, AckedIn, Gone, Atomic!Gone
<1>19. Floors'
    <2>1. durable.history.floor <= visible'.history.floor
        <3>1. CASE visible' = visible
            BY <3>1 DEF Floors
        <3>2. CASE visible' = flight.next /\ flight.step = "tagged"
            BY <3>2, NextIsAhead
        <3> QED
            BY <1>9, <3>1, <3>2
    <2>2. core'.floor <= durable.history.floor
        BY <1>2 DEF Floors
    <2> QED
        BY <1>6, <2>1, <2>2 DEF Floors
<1>20. Numbers'
    <2>1. /\ visible.sha <= attempts /\ ticket.tag <= attempts
          /\ ticket.tag # 0 /\ visible.sha = ticket.tag => ticket.floor <= visible.history.floor
          /\ ticket.tag = attempts => ticket.floor <= flight.next.history.floor
          /\ attempts \in Nat
        BY <1>1 DEF Numbers, TypeOK
    <2>2. /\ ticket.tag \in Nat /\ ticket.floor \in Nat
          /\ visible.history.floor \in Nat /\ flight.next.history.floor \in Nat
        BY <1>1 DEF TypeOK, Ticket, Flight, Root, History
    <2>3. /\ visible'.sha <= attempts' /\ ticket'.tag <= attempts'
          /\ ticket'.tag # 0 /\ visible'.sha = ticket'.tag => ticket'.floor <= visible'.history.floor
        <3> HIDE DEF BundleInv
        <3>1. ticket'.tag <= attempts' /\ attempts' = attempts
            BY <1>10, <2>1, <2>2
        <3>2. CASE visible' = visible
            BY <1>10, <2>1, <2>2, <3>1, <3>2
        <3>3. CASE visible' = flight.next
            BY <1>8, <1>10, <2>1, <2>2, <3>1, <3>3
        <3> QED
            BY <1>9, <3>2, <3>3
    <2>4. ticket'.ready => ticket'.tag # 0
        <3>1. CASE ticket' \in {ticket, NoTicket}
            BY <3>1, NoTicketType DEF Numbers
        <3>2. CASE BySave /\ ticket' = Ready(ticket) /\ b.root_sha256 # 0
            <4>1. CASE ticket = NoTicket
                BY <3>2, <4>1, NoTicketType DEF Ready
            <4>2. CASE ticket # NoTicket
                <5>1. ticket.tag = bundle.root_sha256 /\ bundle.root_sha256 # 0
                    BY <3>2, <4>2 DEF Numbers
                <5>2. Ready(ticket).tag = ticket.tag
                    BY <1>1 DEF Ready, Ticket, TypeOK
                <5> QED
                    BY <3>2, <5>1, <5>2
            <4> QED
                BY <4>1, <4>2
        <3> QED
            BY <1>4, <3>1, <3>2
    <2> QED
        BY <1>6, <2>3, <2>4 DEF Numbers
<1>21. Planned'
    <2>1. visible' = durable \/ Ahead(durable, visible')
        <3>1. CASE visible' = visible
            BY <3>1 DEF Planned
        <3>2. CASE visible' = flight.next /\ flight.step = "tagged"
            BY <3>2, NextIsAhead
        <3> QED
            BY <1>9, <3>1, <3>2
    <2> QED
        BY <1>6, <2>1 DEF Planned
<1> QED
    BY <1>11, <1>12, <1>13, <1>14, <1>15, <1>16, <1>17, <1>18, <1>19, <1>20, <1>21

(* The failures of the publisher, one lemma for each.                      *)
LEMMA StageFailsKeeps == ASSUME BundleInv, StageFails PROVE BundleInv'
<1>1. InFlight /\ flight.step = "admitted"
    BY DEF StageFails, InStep, InFlight
<1>2. /\ bundle \in Owner /\ ~bundle.unsettled
      /\ visible = bundle.root /\ durable = bundle.root
      /\ bundle.committed = Closure(bundle.root)
    BY <1>1, BeforeRename
<1>3. PICK collected \in BOOLEAN, uncertain \in BOOLEAN, victims \in SUBSET Victims(bundle),
              told \in {"refused", "unknown"} :
          /\ objects' = objects \ victims
          /\ Failed([bundle EXCEPT !.can_collect = @ \/ collected, !.uncertain = uncertain,
                                   !.acknowledged = @ \ victims], told)
    <2>1. PublishSettled \in BOOLEAN /\ bundle.uncertain \in BOOLEAN
        BY <1>2 DEF PublishSettled, Owner
    <2>2. PICK collected \in {FALSE, PublishSettled}, uncertain \in {bundle.uncertain, TRUE} :
              /\ objects' = objects \ (IF collected THEN Victims(bundle) ELSE {})
              /\ \E told \in IF uncertain THEN {"refused", "unknown"} ELSE {"refused"} :
                    Failed([bundle EXCEPT !.can_collect = @ \/ collected,
                                !.uncertain = uncertain,
                                !.acknowledged = @ \ (IF collected THEN Victims(bundle) ELSE {})],
                           told)
        BY DEF StageFails
    <2>3. (IF collected THEN Victims(bundle) ELSE {}) \in SUBSET Victims(bundle)
        OBVIOUS
    <2> QED
        BY <2>1, <2>2, <2>3
<1> DEFINE b == [bundle EXCEPT !.can_collect = @ \/ collected, !.uncertain = uncertain,
                               !.acknowledged = @ \ victims]
<1>4. b \in Owner
    <2>1. /\ bundle.can_collect \in BOOLEAN /\ (bundle.can_collect \/ collected) \in BOOLEAN
          /\ bundle.acknowledged \ victims \in SUBSET Nat
        BY <1>2 DEF Owner
    <2> QED
        BY <1>2, <2>1 DEF Owner
<1>5. /\ b.root = bundle.root /\ b.committed = bundle.committed
      /\ b.receipts = bundle.receipts /\ b.issuers = bundle.issuers
      /\ b.save = bundle.save /\ b.saving = bundle.saving /\ b.unsettled = bundle.unsettled
      /\ b.pending = bundle.pending /\ b.root_sha256 = bundle.root_sha256
    BY <1>2 DEF Owner
<1>6. Failed(b, told)
    BY <1>3
<1> HIDE DEF b
<1>7. UNCHANGED <<visible, durable, attempts, epoch>>
    BY DEF StageFails
<1>8. Closure(visible') \cup Closure(durable) \subseteq b.committed
    BY <1>2, <1>5, <1>7
<1>9. Closure(visible') \cup Closure(durable) \subseteq objects'
    BY <1>2, <1>3, <1>7 DEF BundleInv, GraphIsPresent, Victims
<1>10. Untouched(b)
    BY <1>1, <1>5, <1>7 DEF Untouched
<1> QED
    BY <1>1, <1>3, <1>4, <1>5, <1>6, <1>7, <1>8, <1>9, <1>10, FailedKeeps

LEMMA PrepareFailsKeeps == ASSUME BundleInv, PrepareFails PROVE BundleInv'
<1>1. InFlight /\ flight.step = "staged"
      /\ UNCHANGED <<visible, durable, objects, attempts, epoch>>
    BY DEF PrepareFails, InStep, InFlight
<1>2. /\ bundle \in Owner /\ visible = bundle.root /\ durable = bundle.root
      /\ bundle.committed = Closure(bundle.root)
    BY <1>1, BeforeRename
<1>3. PICK uncertain \in BOOLEAN, told \in {"refused", "unknown"} :
          Failed([bundle EXCEPT !.uncertain = uncertain], told)
    <2>1. bundle.uncertain \in BOOLEAN
        BY <1>2 DEF Owner
    <2> QED
        BY <2>1 DEF PrepareFails
<1> DEFINE b == [bundle EXCEPT !.uncertain = uncertain]
<1>4. b \in Owner
    BY <1>2 DEF Owner
<1>5. /\ b.root = bundle.root /\ b.committed = bundle.committed
      /\ b.receipts = bundle.receipts /\ b.issuers = bundle.issuers
      /\ b.save = bundle.save /\ b.saving = bundle.saving /\ b.unsettled = bundle.unsettled
      /\ b.pending = bundle.pending /\ b.root_sha256 = bundle.root_sha256
    BY <1>2 DEF Owner
<1>6. Failed(b, told)
    BY <1>3
<1> HIDE DEF b
<1>7. Untouched(b)
    BY <1>1, <1>5 DEF Untouched
<1>8. /\ Closure(visible') \cup Closure(durable) \subseteq b.committed
      /\ Closure(visible') \cup Closure(durable) \subseteq objects'
    BY <1>1, <1>2, <1>5 DEF BundleInv, GraphIsPresent
<1> QED
    BY <1>1, <1>4, <1>5, <1>6, <1>7, <1>8, FailedKeeps

LEMMA ReplaceRefusedKeeps == ASSUME BundleInv, ReplaceRefused PROVE BundleInv'
<1>1. InFlight /\ flight.step = "tagged"
      /\ UNCHANGED <<visible, durable, objects, attempts, epoch>>
    BY DEF ReplaceRefused, InStep, InFlight
<1>2. PICK uncertain \in BOOLEAN :
          Failed([bundle EXCEPT !.tag = 0, !.root_sha256 = 0, !.uncertain = uncertain], "refused")
    BY DEF ReplaceRefused
<1>3. /\ bundle \in Owner /\ visible = bundle.root /\ durable = bundle.root
      /\ bundle.committed = Closure(bundle.root)
    BY <1>1, BeforeRename
<1> DEFINE b == [bundle EXCEPT !.tag = 0, !.root_sha256 = 0, !.uncertain = uncertain]
<1>4. b \in Owner
    BY <1>3 DEF Owner
<1>5. /\ b.root = bundle.root /\ b.committed = bundle.committed
      /\ b.receipts = bundle.receipts /\ b.issuers = bundle.issuers
      /\ b.save = bundle.save /\ b.saving = bundle.saving /\ b.unsettled = bundle.unsettled
      /\ b.pending = bundle.pending /\ b.root_sha256 = 0
    BY <1>3 DEF Owner
<1>6. Failed(b, "refused")
    BY <1>2
<1> HIDE DEF b
<1>7. Untouched(b)
    BY <1>1, <1>5 DEF Untouched
<1>8. /\ Closure(visible') \cup Closure(durable) \subseteq b.committed
      /\ Closure(visible') \cup Closure(durable) \subseteq objects'
    BY <1>1, <1>3, <1>5 DEF BundleInv, GraphIsPresent
<1> QED
    BY <1>1, <1>4, <1>5, <1>6, <1>7, <1>8, FailedKeeps

LEMMA UnknownFields ==
    ASSUME NEW b \in Owner
    PROVE  /\ UnknownOutcome(b) \in Owner
           /\ UnknownOutcome(b).unsettled /\ UnknownOutcome(b).state = "Unknown"
           /\ UnknownOutcome(b).receipts = b.receipts /\ UnknownOutcome(b).pending = b.pending
           /\ UnknownOutcome(b).root_sha256 = b.root_sha256
           /\ UnknownOutcome(b).can_collect = b.can_collect
<1>1. UnknownOutcome(b) \in Owner
    BY DEF UnknownOutcome, Owner
<1>2. /\ UnknownOutcome(b).unsettled /\ UnknownOutcome(b).state = "Unknown"
      /\ UnknownOutcome(b).receipts = b.receipts /\ UnknownOutcome(b).pending = b.pending
      /\ UnknownOutcome(b).root_sha256 = b.root_sha256
      /\ UnknownOutcome(b).can_collect = b.can_collect
    BY DEF UnknownOutcome, Owner
<1> QED
    BY <1>1, <1>2

(* Past the first step nothing may be collected, so a failure is only ever *)
(* of the caller's knowledge.                                              *)
LEMMA PastStaging ==
    ASSUME BundleInv, InFlight, flight.step # "admitted"
    PROVE  /\ bundle \in Owner /\ flight \in Flight /\ bundle.can_collect = FALSE
           /\ Closure(flight.next) \subseteq objects
           /\ Closure(visible) \cup Closure(durable) \subseteq objects
           /\ bundle.receipts \subseteq visible.receipts \cap durable.receipts
<1>1. bundle \in Owner /\ flight \in Flight /\ Owned
    BY OwnerIsOpen, FlightIsFlight DEF BundleInv, Underway
<1>2. ~bundle.can_collect
    BY <1>1 DEF BundleInv, Collectable
<1>3. bundle.can_collect \in BOOLEAN
    BY <1>1 DEF Owner
<1> QED
    BY <1>1, <1>2, <1>3 DEF BundleInv, Underway, GraphIsPresent, Receipted

LEMMA RenameAmbiguousKeeps == ASSUME BundleInv, RenameAmbiguous PROVE BundleInv'
<1>1. InFlight /\ flight.step = "tagged" /\ Failed(UnknownOutcome(bundle), "unknown")
      /\ visible' \in {visible, flight.next}
      /\ UNCHANGED <<durable, objects, attempts, epoch>>
    BY DEF RenameAmbiguous, InStep, InFlight
<1>2. /\ bundle \in Owner /\ flight \in Flight /\ bundle.can_collect = FALSE
      /\ Closure(visible') \cup Closure(durable) \subseteq objects'
    BY <1>1, PastStaging
<1>3. bundle.receipts \subseteq visible'.receipts \cap durable.receipts
    <2>1. bundle.receipts \subseteq flight.next.receipts
        BY <1>1, <1>2 DEF BundleInv, Receipted, ByCommand, BySave, Flight
    <2> QED
        BY <1>1, <2>1, PastStaging
<1>4. Unknown(UnknownOutcome(bundle), "unknown")
    BY <1>1, <1>2, <1>3, UnknownFields DEF Unknown
<1> QED
    BY <1>1, <1>2, <1>4, UnknownFields, FailedKeeps

LEMMA SyncFailsKeeps == ASSUME BundleInv, SyncFails PROVE BundleInv'
<1>1. InFlight /\ flight.step = "renamed" /\ Failed(UnknownOutcome(bundle), "unknown")
      /\ UNCHANGED <<visible, durable, objects, attempts, epoch>>
    BY DEF SyncFails, InStep, InFlight
<1>2. /\ bundle \in Owner /\ bundle.can_collect = FALSE
      /\ Closure(visible') \cup Closure(durable) \subseteq objects'
      /\ bundle.receipts \subseteq visible'.receipts \cap durable.receipts
    BY <1>1, PastStaging
<1>3. Unknown(UnknownOutcome(bundle), "unknown")
    BY <1>1, <1>2, UnknownFields DEF Unknown
<1> QED
    BY <1>1, <1>2, <1>3, UnknownFields, FailedKeeps

LEMMA TailFailsKeeps == ASSUME BundleInv, TailFails PROVE BundleInv'
<1>1. InFlight /\ flight.step = "synced"
      /\ UNCHANGED <<visible, durable, objects, attempts, epoch>>
    BY DEF TailFails, InStep, InFlight
<1>2. /\ bundle \in Owner /\ flight \in Flight /\ bundle.can_collect = FALSE
      /\ Closure(visible') \cup Closure(durable) \subseteq objects'
      /\ bundle.receipts \subseteq visible'.receipts \cap durable.receipts
    BY <1>1, PastStaging
<1>3. /\ visible = flight.next /\ durable = flight.next
      /\ bundle.unsettled /\ bundle.state # "NotPublished"
    BY <1>1 DEF BundleInv, Underway
<1>4. CASE Failed(Installed(bundle), "unknown")
    <2> DEFINE b == Installed(bundle)
    <2>1. b \in Owner
        BY <1>2 DEF Owner, Installed, Flight, Root
    <2>2. /\ b.unsettled = bundle.unsettled /\ b.state = bundle.state /\ b.pending = bundle.pending
          /\ b.receipts = flight.next.receipts /\ b.root_sha256 = bundle.root_sha256
          /\ b.can_collect = bundle.can_collect
        BY <1>2 DEF Owner, Installed
    <2>3. Failed(b, "unknown")
        BY <1>4
    <2> HIDE DEF b
    <2>4. Unknown(b, "unknown")
        BY <1>1, <1>3, <2>2 DEF Unknown
    <2> QED
        BY <1>1, <1>2, <2>1, <2>2, <2>3, <2>4, FailedKeeps
<1>5. CASE Failed([bundle EXCEPT !.state = "Unknown"], "unknown")
    <2> DEFINE b == [bundle EXCEPT !.state = "Unknown"]
    <2>1. b \in Owner
        BY <1>2 DEF Owner
    <2>2. /\ b.unsettled = bundle.unsettled /\ b.state = "Unknown" /\ b.pending = bundle.pending
          /\ b.receipts = bundle.receipts /\ b.root_sha256 = bundle.root_sha256
          /\ b.can_collect = bundle.can_collect
        BY <1>2 DEF Owner
    <2>3. Failed(b, "unknown")
        BY <1>5
    <2> HIDE DEF b
    <2>4. Unknown(b, "unknown")
        BY <1>1, <1>2, <1>3, <2>2 DEF Unknown
    <2> QED
        BY <1>1, <1>2, <2>1, <2>2, <2>3, <2>4, FailedKeeps
<1> QED
    BY <1>4, <1>5 DEF TailFails

-----------------------------------------------------------------------------
(* The steps of the publisher that succeed.                                *)
LEMMA FlightSteps ==
    ASSUME flight \in Flight, NEW step \in {"staged", "tagged", "renamed", "synced"},
           flight' = [flight EXCEPT !.step = step]
    PROVE  /\ flight' \in Flight /\ InFlight'
           /\ flight'.step = step /\ flight'.kind = flight.kind /\ flight'.next = flight.next
           /\ flight'.original = flight.original
           /\ flight'.issuers = flight.issuers /\ flight'.receipts = flight.receipts
           /\ ByCommand' = ByCommand /\ BySave' = BySave
<1>1. flight' \in Flight
    BY DEF Flight
<1>2. /\ flight'.step = step /\ flight'.kind = flight.kind /\ flight'.next = flight.next
      /\ flight'.original = flight.original
      /\ flight'.issuers = flight.issuers /\ flight'.receipts = flight.receipts
    BY DEF Flight
<1>3. flight' # Idle
    BY <1>1, FlightNotIdle
<1> QED
    BY <1>1, <1>2, <1>3 DEF InFlight, ByCommand, BySave, Idle

(* What every such step leaves as it was.                                  *)
LEMMA StepKeeps ==
    ASSUME BundleInv, InFlight, NEW step \in {"staged", "tagged", "renamed", "synced"},
           flight' = [flight EXCEPT !.step = step],
           bundle' \in Owner, bundle'.root = bundle.root, bundle'.pending = bundle.pending,
           bundle'.receipts = bundle.receipts, bundle'.issuers = bundle.issuers,
           bundle'.can_collect = FALSE,
           visible' \in {visible, flight.next}, durable' \in {durable, visible},
           objects' \subseteq objects \cup {flight.next.sha},
           UNCHANGED <<core, attempts, epoch, acked, refused>>, ticket' \in Ticket
    PROVE  /\ TypeOK' /\ Collectable' /\ Refusals' /\ Acknowledgements' /\ Owned'
           /\ bundle.receipts \subseteq visible.receipts \cap durable.receipts \cap flight.next.receipts
           /\ Receipted'
<1>1. bundle \in Owner /\ flight \in Flight
    BY OwnerIsOpen, FlightIsFlight DEF BundleInv, Underway
<1>2. /\ flight' \in Flight /\ InFlight' /\ flight'.next = flight.next /\ flight'.kind = flight.kind
      /\ ByCommand' = ByCommand /\ BySave' = BySave
    BY <1>1, FlightSteps
<1>3. Owned'
    BY OwnerNotClosed DEF Owned, Closed
<1>4. flight.next \in Root /\ flight.next.sha \in Nat
    BY <1>1 DEF Flight, Root
<1>5. TypeOK'
    BY <1>2, <1>4 DEF BundleInv, TypeOK
<1>6. Collectable'
    BY DEF Collectable
<1>7. Refusals'
    BY <1>2 DEF BundleInv, Refusals, RefusedOf, Unmatched, Matches
<1>8. Acknowledgements'
    BY <1>2 DEF BundleInv, Acknowledgements, AckedIn, Gone, Atomic!Gone
<1>9. bundle.receipts \subseteq flight.next.receipts
    BY <1>1 DEF BundleInv, Receipted, ByCommand, BySave, Flight
<1>10. bundle.receipts \subseteq visible.receipts \cap durable.receipts
    BY DEF BundleInv, Receipted, Underway
<1>11. Receipted'
    <2>1. bundle'.receipts \subseteq visible'.receipts \cap durable'.receipts
        BY <1>9, <1>10
    <2>2. InFlight /\ ByCommand =>
              /\ flight.next.receipts =
                    bundle.root.receipts \cup {Receipt(bundle.pending, bundle.root.generation + 1)}
              /\ Unmatched(bundle.pending, bundle.root.receipts)
              /\ bundle.receipts = bundle.root.receipts
              /\ bundle.pending \in Command
        BY DEF BundleInv, Receipted
    <2>3. InFlight /\ BySave =>
              flight.next.receipts = bundle.receipts /\ bundle.receipts \subseteq bundle.root.receipts
        BY DEF BundleInv, Receipted
    <2> QED
        BY <1>2, <2>1, <2>2, <2>3 DEF Receipted
<1> QED
    BY <1>3, <1>5, <1>6, <1>7, <1>8, <1>9, <1>10, <1>11

LEMMA StageKeeps == ASSUME BundleInv, Stage PROVE BundleInv'
<1>1. /\ InFlight /\ flight.step = "admitted" /\ PublishAdmits
      /\ objects' = (objects \ Victims(bundle)) \cup {flight.next.sha}
      /\ bundle' = [bundle EXCEPT !.acknowledged = @ \ Victims(bundle), !.can_collect = FALSE]
      /\ flight' = [flight EXCEPT !.step = "staged"]
      /\ UNCHANGED << visible, durable, core, ticket, attempts, epoch, acked, refused >>
    BY DEF Stage, InStep, InFlight
<1>2. /\ bundle \in Owner /\ flight \in Flight /\ ~bundle.unsettled
      /\ visible = bundle.root /\ durable = bundle.root
      /\ bundle.committed = Closure(bundle.root)
    BY <1>1, BeforeRename
<1>3. /\ flight' \in Flight /\ InFlight' /\ flight'.step = "staged"
      /\ flight'.kind = flight.kind /\ flight'.next = flight.next
      /\ flight'.original = flight.original
      /\ flight'.issuers = flight.issuers /\ flight'.receipts = flight.receipts
      /\ ByCommand' = ByCommand /\ BySave' = BySave
    BY <1>1, <1>2, FlightSteps
<1>4. bundle' \in Owner
    <2>1. bundle.acknowledged \ Victims(bundle) \in SUBSET Nat
        BY <1>2 DEF Owner
    <2> QED
        BY <1>1, <1>2, <2>1 DEF Owner
<1>5. /\ bundle'.root = bundle.root /\ bundle'.pending = bundle.pending
      /\ bundle'.receipts = bundle.receipts /\ bundle'.issuers = bundle.issuers
      /\ bundle'.can_collect = FALSE /\ bundle'.unsettled = bundle.unsettled
      /\ bundle'.committed = bundle.committed
      /\ bundle'.save = bundle.save /\ bundle'.saving = bundle.saving
      /\ bundle'.root_sha256 = bundle.root_sha256
    BY <1>1, <1>2 DEF Owner
<1>6. ticket' \in Ticket
    BY <1>1 DEF BundleInv, TypeOK
<1>7. TypeOK' /\ Collectable' /\ Refusals' /\ Acknowledgements' /\ Owned' /\ Receipted'
    BY <1>1, <1>4, <1>5, <1>6, StepKeeps
<1>8. Closure(bundle.root) \subseteq objects' /\ Closure(flight.next) \subseteq objects'
    <2>1. Closure(bundle.root) \subseteq objects'
        BY <1>1, <1>2 DEF BundleInv, GraphIsPresent, Victims
    <2>2. Range(flight.next.predecessors) \subseteq Closure(bundle.root)
        BY <1>1 DEF BundleInv, Underway
    <2> QED
        BY <1>1, <2>1, <2>2 DEF Closure
<1>9. Agreed'
    BY <1>1, <1>2, <1>3, <1>5 DEF Agreed, Closure
<1>10. Underway'
    <2>1. Atomic!Continues(flight.next.history, bundle.root.history)
        BY <1>1 DEF PublishAdmits
    <2>2. /\ flight.receipts = bundle.root.receipts /\ flight.issuers = bundle.root.issuers
          /\ flight.kind = "save" => /\ bundle.receipts = bundle.root.receipts
                                     /\ bundle.issuers = bundle.root.issuers
          /\ flight.next.sha = attempts
          /\ Range(flight.next.predecessors) \subseteq Closure(bundle.root)
        BY <1>1 DEF BundleInv, Underway
    <2> QED
        BY <1>1, <1>2, <1>3, <1>5, <1>7, <1>8, <2>1, <2>2 DEF Underway
<1>11. GraphIsPresent'
    BY <1>1, <1>2, <1>8 DEF GraphIsPresent
<1>12. Floors'
    BY <1>1, <1>3 DEF BundleInv, Floors
<1>13. Numbers'
    BY <1>1, <1>3, <1>5 DEF BundleInv, Numbers
<1>14. Planned'
    BY <1>1, <1>3 DEF BundleInv, Planned
<1> QED
    BY <1>7, <1>9, <1>10, <1>11, <1>12, <1>13, <1>14 DEF BundleInv

LEMMA RenameKeeps == ASSUME BundleInv, Rename PROVE BundleInv'
<1>1. /\ InFlight /\ flight.step = "tagged" /\ visible' = flight.next
      /\ bundle' = [bundle EXCEPT !.uncertain = TRUE]
      /\ flight' = [flight EXCEPT !.step = "renamed"]
      /\ UNCHANGED << durable, objects, core, ticket, attempts, epoch, acked, refused >>
    BY DEF Rename, InStep, InFlight
<1>2. /\ bundle \in Owner /\ flight \in Flight /\ ~bundle.unsettled
      /\ durable = bundle.root /\ bundle.committed = Closure(bundle.root)
    BY <1>1, BeforeRename
<1>3. /\ flight' \in Flight /\ InFlight' /\ flight'.step = "renamed"
      /\ flight'.kind = flight.kind /\ flight'.next = flight.next
      /\ flight'.original = flight.original
      /\ flight'.issuers = flight.issuers /\ flight'.receipts = flight.receipts
      /\ ByCommand' = ByCommand /\ BySave' = BySave
    BY <1>1, <1>2, FlightSteps
<1>4. bundle' \in Owner
    BY <1>1, <1>2 DEF Owner
<1>5. /\ bundle'.root = bundle.root /\ bundle'.pending = bundle.pending
      /\ bundle'.receipts = bundle.receipts /\ bundle'.issuers = bundle.issuers
      /\ bundle'.can_collect = bundle.can_collect /\ bundle'.unsettled = bundle.unsettled
      /\ bundle'.committed = bundle.committed
      /\ bundle'.save = bundle.save /\ bundle'.saving = bundle.saving
      /\ bundle'.root_sha256 = bundle.root_sha256
    BY <1>1, <1>2 DEF Owner
<1>6. /\ bundle.can_collect = FALSE
      /\ Closure(flight.next) \subseteq objects /\ Closure(durable) \subseteq objects
    BY <1>1, PastStaging
<1>7. TypeOK' /\ Collectable' /\ Refusals' /\ Acknowledgements' /\ Owned' /\ Receipted'
    <2>1. ticket' \in Ticket
        BY <1>1 DEF BundleInv, TypeOK
    <2> QED
        BY <1>1, <1>4, <1>5, <1>6, <2>1, StepKeeps
<1>8. Agreed'
    BY <1>1, <1>2, <1>3, <1>5 DEF Agreed
<1>9. Underway'
    <2>1. /\ flight.receipts = bundle.root.receipts /\ flight.issuers = bundle.root.issuers
          /\ flight.kind = "save" => /\ bundle.receipts = bundle.root.receipts
                                     /\ bundle.issuers = bundle.root.issuers
          /\ flight.next.sha = attempts
          /\ Range(flight.next.predecessors) \subseteq Closure(bundle.root)
          /\ Atomic!Continues(flight.next.history, bundle.root.history)
        BY <1>1 DEF BundleInv, Underway
    <2> QED
        BY <1>1, <1>2, <1>3, <1>5, <1>6, <1>7, <2>1 DEF Underway
<1>10. GraphIsPresent'
    BY <1>1, <1>6 DEF GraphIsPresent
<1>11. Floors'
    BY <1>1, <1>3, NextIsAhead DEF BundleInv, Floors
<1>12. Numbers'
    <2>1. /\ ticket.tag <= attempts /\ (ticket.ready => ticket.tag # 0)
          /\ ticket.tag = attempts => ticket.floor <= flight.next.history.floor
          /\ BySave =>
                /\ ticket.floor <= flight.next.history.floor
                /\ bundle.save = ticket /\ bundle.saving
                /\ bundle.root_sha256 # 0 /\ ticket # NoTicket => ticket.tag = bundle.root_sha256
          /\ ByCommand => bundle.save = NoTicket /\ ~bundle.saving
          /\ attempts \in Nat /\ flight.next.sha = attempts /\ durable.sha <= attempts
        BY <1>1 DEF BundleInv, Numbers, TypeOK, Underway
    <2> QED
        BY <1>1, <1>3, <1>5, <2>1 DEF Numbers
<1>13. Planned'
    BY <1>1, <1>3, NextIsAhead DEF BundleInv, Planned
<1> QED
    BY <1>7, <1>8, <1>9, <1>10, <1>11, <1>12, <1>13 DEF BundleInv

LEMMA SyncParentKeeps == ASSUME BundleInv, SyncParent PROVE BundleInv'
<1>1. /\ InFlight /\ flight.step = "renamed" /\ durable' = visible
      /\ bundle' = [bundle EXCEPT !.uncertain = FALSE, !.unsettled = TRUE, !.state = "Committed"]
      /\ flight' = [flight EXCEPT !.step = "synced"]
      /\ UNCHANGED << visible, objects, core, ticket, attempts, epoch, acked, refused >>
    BY DEF SyncParent, InStep, InFlight
<1>2. /\ bundle \in Owner /\ flight \in Flight /\ bundle.can_collect = FALSE
      /\ Closure(flight.next) \subseteq objects
      /\ Closure(visible) \cup Closure(durable) \subseteq objects
    BY <1>1, PastStaging
<1>3. /\ flight' \in Flight /\ InFlight' /\ flight'.step = "synced"
      /\ flight'.kind = flight.kind /\ flight'.next = flight.next
      /\ flight'.original = flight.original
      /\ flight'.issuers = flight.issuers /\ flight'.receipts = flight.receipts
      /\ ByCommand' = ByCommand /\ BySave' = BySave
    BY <1>1, <1>2, FlightSteps
<1>4. bundle' \in Owner
    BY <1>1, <1>2 DEF Owner
<1>5. /\ bundle'.root = bundle.root /\ bundle'.pending = bundle.pending
      /\ bundle'.receipts = bundle.receipts /\ bundle'.issuers = bundle.issuers
      /\ bundle'.can_collect = bundle.can_collect /\ bundle'.unsettled = TRUE
      /\ bundle'.state = "Committed"
      /\ bundle'.save = bundle.save /\ bundle'.saving = bundle.saving
      /\ bundle'.root_sha256 = bundle.root_sha256
    BY <1>1, <1>2 DEF Owner
<1>6. TypeOK' /\ Collectable' /\ Refusals' /\ Acknowledgements' /\ Owned' /\ Receipted'
    <2>1. ticket' \in Ticket
        BY <1>1 DEF BundleInv, TypeOK
    <2> QED
        BY <1>1, <1>2, <1>4, <1>5, <2>1, StepKeeps
<1>7. visible = flight.next
    BY <1>1 DEF BundleInv, Underway
<1>8. Agreed'
    BY <1>5 DEF Agreed
<1>9. Underway'
    <2>1. /\ flight.receipts = bundle.root.receipts /\ flight.issuers = bundle.root.issuers
          /\ flight.kind = "save" => /\ bundle.receipts = bundle.root.receipts
                                     /\ bundle.issuers = bundle.root.issuers
          /\ flight.next.sha = attempts
          /\ Range(flight.next.predecessors) \subseteq Closure(bundle.root)
          /\ Atomic!Continues(flight.next.history, bundle.root.history)
        BY <1>1 DEF BundleInv, Underway
    <2> QED
        BY <1>1, <1>2, <1>3, <1>5, <1>6, <1>7, <2>1 DEF Underway
<1>10. GraphIsPresent'
    BY <1>1, <1>2 DEF GraphIsPresent
<1>11. Floors'
    <2>1. core.floor \in Nat /\ durable.history.floor \in Nat /\ visible.history.floor \in Nat
          /\ flight.original.floor \in Nat
        BY <1>2 DEF BundleInv, TypeOK, Flight, Root, History
    <2> QED
        BY <1>1, <1>3, <2>1 DEF BundleInv, Floors
<1>12. Numbers'
    <2>1. /\ ticket.tag <= attempts /\ (ticket.ready => ticket.tag # 0)
          /\ visible.sha <= attempts
          /\ ticket.tag # 0 /\ visible.sha = ticket.tag => ticket.floor <= visible.history.floor
          /\ ticket.tag = attempts => ticket.floor <= flight.next.history.floor
          /\ BySave =>
                /\ ticket.floor <= flight.next.history.floor
                /\ bundle.save = ticket /\ bundle.saving
                /\ bundle.root_sha256 # 0 /\ ticket # NoTicket => ticket.tag = bundle.root_sha256
          /\ ByCommand => bundle.save = NoTicket /\ ~bundle.saving
        BY <1>1 DEF BundleInv, Numbers
    <2> QED
        BY <1>1, <1>3, <1>5, <2>1 DEF Numbers
<1>13. Planned'
    BY <1>1, <1>3 DEF BundleInv, Planned
<1> QED
    BY <1>6, <1>8, <1>9, <1>10, <1>11, <1>12, <1>13 DEF BundleInv

LEMMA TagKeeps == ASSUME BundleInv, Tag PROVE BundleInv'
<1> DEFINE tagged(t) == [t EXCEPT !.tag = flight.next.sha, !.previous = bundle.root.sha]
<1>1. /\ InFlight /\ flight.step = "staged"
      /\ ticket' = IF ticket # NoTicket /\ bundle.save # NoTicket THEN tagged(ticket) ELSE ticket
      /\ bundle' = Tagged(bundle)
      /\ flight' = [flight EXCEPT !.step = "tagged"]
      /\ UNCHANGED << visible, durable, objects, core, attempts, epoch, acked, refused >>
    BY DEF Tag, InStep, InFlight
<1>2. /\ bundle \in Owner /\ flight \in Flight /\ ~bundle.unsettled
      /\ visible = bundle.root /\ durable = bundle.root
      /\ bundle.committed = Closure(bundle.root)
    BY <1>1, BeforeRename
<1>3. /\ flight' \in Flight /\ InFlight' /\ flight'.step = "tagged"
      /\ flight'.kind = flight.kind /\ flight'.next = flight.next
      /\ flight'.original = flight.original
      /\ flight'.issuers = flight.issuers /\ flight'.receipts = flight.receipts
      /\ ByCommand' = ByCommand /\ BySave' = BySave
    BY <1>1, <1>2, FlightSteps
<1>4. flight.next.sha \in Nat /\ bundle.root.sha \in Nat
    BY <1>2 DEF Flight, Root, Owner
<1>5. \A t \in Ticket : /\ tagged(t) \in Ticket /\ tagged(t).tag = flight.next.sha
                        /\ tagged(t).floor = t.floor /\ tagged(t).ready = t.ready
    BY <1>4 DEF Ticket
<1> DEFINE save == IF bundle.save = NoTicket THEN bundle.save ELSE tagged(bundle.save)
           sha == IF bundle.saving THEN flight.next.sha ELSE bundle.root_sha256
<1>6. bundle' = [bundle EXCEPT !.tag = flight.next.sha, !.root_sha256 = sha, !.save = save]
    BY <1>1, <1>2 DEF Tagged, Owner
<1>7. ticket' \in Ticket /\ ticket \in Ticket /\ save \in Ticket /\ sha \in Nat
    <2> HIDE DEF tagged
    <2>1. ticket \in Ticket /\ bundle.save \in Ticket /\ bundle.root_sha256 \in Nat
        BY <1>2 DEF BundleInv, TypeOK, Owner
    <2> QED
        BY <1>1, <1>4, <1>5, <2>1
<1>8. /\ bundle.save = NoTicket => save = NoTicket /\ ticket' = ticket
      /\ bundle.save = ticket => ticket' = save
      /\ bundle.saving => sha = flight.next.sha
      /\ ticket = NoTicket => ticket' = NoTicket
      /\ ticket' # ticket => ticket' = tagged(ticket)
      /\ bundle.save = ticket /\ ticket' # NoTicket => ticket' = tagged(ticket)
    <2> HIDE DEF tagged
    <2> QED
        BY <1>1
<1> HIDE DEF save, sha, tagged
<1>9. bundle' \in Owner
    BY <1>2, <1>4, <1>6, <1>7 DEF Owner
<1>10. /\ bundle'.root = bundle.root /\ bundle'.pending = bundle.pending
       /\ bundle'.receipts = bundle.receipts /\ bundle'.issuers = bundle.issuers
       /\ bundle'.can_collect = bundle.can_collect /\ bundle'.unsettled = bundle.unsettled
       /\ bundle'.committed = bundle.committed
       /\ bundle'.save = save /\ bundle'.saving = bundle.saving /\ bundle'.root_sha256 = sha
    BY <1>2, <1>6 DEF Owner
<1>11. /\ bundle.can_collect = FALSE
       /\ Closure(flight.next) \subseteq objects /\ Closure(durable) \subseteq objects
    BY <1>1, PastStaging
<1>12. TypeOK' /\ Collectable' /\ Refusals' /\ Acknowledgements' /\ Owned' /\ Receipted'
    BY <1>1, <1>7, <1>9, <1>10, <1>11, StepKeeps
<1>13. Agreed'
    BY <1>1, <1>2, <1>3, <1>10 DEF Agreed
<1>14. Underway'
    <2>1. /\ flight.receipts = bundle.root.receipts /\ flight.issuers = bundle.root.issuers
          /\ flight.kind = "save" => /\ bundle.receipts = bundle.root.receipts
                                     /\ bundle.issuers = bundle.root.issuers
          /\ flight.next.sha = attempts
          /\ Range(flight.next.predecessors) \subseteq Closure(bundle.root)
          /\ Atomic!Continues(flight.next.history, bundle.root.history)
        BY <1>1 DEF BundleInv, Underway
    <2> QED
        BY <1>1, <1>2, <1>3, <1>10, <1>11, <1>12, <2>1 DEF Underway
<1>15. GraphIsPresent'
    BY <1>1, <1>2, <1>11 DEF GraphIsPresent
<1>16. Floors'
    BY <1>1, <1>3 DEF BundleInv, Floors
<1>17. Numbers'
    <2>1. /\ ticket.tag <= attempts /\ (ticket.ready => ticket.tag # 0)
          /\ visible.sha <= attempts /\ visible.sha < attempts
          /\ ticket.tag # 0 /\ visible.sha = ticket.tag => ticket.floor <= visible.history.floor
          /\ ticket.tag = attempts => ticket.floor <= flight.next.history.floor
          /\ BySave => /\ ticket.floor <= flight.next.history.floor
                       /\ bundle.save = ticket /\ bundle.saving
          /\ ByCommand => bundle.save = NoTicket /\ ~bundle.saving
          /\ flight.next.sha = attempts /\ (ByCommand \/ BySave)
        <3>1. ByCommand \/ BySave
            BY <1>2 DEF Flight, ByCommand, BySave
        <3> QED
            BY <1>1, <3>1 DEF BundleInv, Numbers, Underway
    <2>2. attempts \in Nat /\ visible.sha \in Nat
        BY DEF BundleInv, TypeOK, Root
    <2>3. ticket'.floor = ticket.floor /\ ticket'.ready = ticket.ready
          /\ ticket'.tag \in {ticket.tag, attempts}
        BY <1>5, <1>7, <1>8, <2>1
    <2>4. ticket'.tag = ticket.tag \/ (BySave /\ ticket'.tag = attempts)
        BY <1>5, <1>7, <1>8, <2>1
    <2>5. /\ visible'.sha <= attempts' /\ ticket'.tag <= attempts'
          /\ ticket'.tag # 0 /\ visible'.sha = ticket'.tag => ticket'.floor <= visible'.history.floor
          /\ ticket'.ready => ticket'.tag # 0
          /\ ticket'.tag = attempts' => ticket'.floor <= flight'.next.history.floor
          /\ visible'.sha < attempts' /\ durable'.sha <= attempts'
        BY <1>1, <1>2, <1>3, <2>1, <2>2, <2>3, <2>4
    <2>6. BySave => /\ ticket'.floor <= flight'.next.history.floor
                    /\ bundle'.save = ticket' /\ bundle'.saving
                    /\ bundle'.root_sha256 # 0 /\ ticket' # NoTicket =>
                          ticket'.tag = bundle'.root_sha256
        BY <1>3, <1>5, <1>7, <1>8, <1>10, <2>1, <2>3
    <2>7. ByCommand => bundle'.save = NoTicket /\ ~bundle'.saving
        BY <1>8, <1>10, <2>1
    <2> QED
        BY <1>3, <2>5, <2>6, <2>7 DEF Numbers
<1>18. Planned'
    BY <1>1, <1>3 DEF BundleInv, Planned
<1> QED
    BY <1>12, <1>13, <1>14, <1>15, <1>16, <1>17, <1>18 DEF BundleInv

-----------------------------------------------------------------------------
(* An owner takes over the visible root, once it is the durable one too:   *)
(* after a publication, by reconciliation and when it opens the bundle.    *)
LEMMA TakeOver ==
    ASSUME BundleInv, flight' = Idle,
           visible' = visible, durable' = visible, objects' = objects, attempts' = attempts,
           epoch' \in Nat, refused' = refused, acked' \subseteq acked \cup visible.receipts,
           acked \subseteq acked',
           bundle' \in Owner, bundle'.root = visible,
           bundle'.receipts = visible.receipts, bundle'.issuers = visible.issuers,
           bundle'.committed = Closure(visible),
           ~bundle'.unsettled => bundle'.save = NoTicket /\ ~bundle'.saving,
           core' \in History, core'.floor <= visible.history.floor,
           ticket' \in {ticket, NoTicket}
    PROVE  BundleInv'
<1>1. ~InFlight' /\ Owned'
    BY OwnerNotClosed DEF InFlight, Owned, Idle
<1>2. /\ visible \in Root /\ ticket \in Ticket /\ attempts \in Nat
      /\ visible.receipts \subseteq ReceiptOf /\ acked \subseteq ReceiptOf
    BY DEF BundleInv, TypeOK, Root
<1>3. TypeOK'
    BY <1>2, NoTicketType DEF BundleInv, TypeOK
<1>4. Agreed'
    BY <1>1 DEF Agreed
<1>5. Underway'
    BY <1>1 DEF Underway
<1>6. Collectable'
    BY <1>1 DEF Collectable
<1>7. GraphIsPresent'
    BY DEF BundleInv, GraphIsPresent
<1>8. Receipted'
    BY <1>1 DEF Receipted
<1>9. Refusals'
    BY <1>1 DEF BundleInv, Refusals, RefusedOf, Unmatched, Matches
<1>10. Acknowledgements'
    <2>1. AckedIn(visible)
        BY DEF BundleInv, Acknowledgements
    <2> QED
        BY <1>1, <2>1 DEF Acknowledgements, AckedIn, Gone, Atomic!Gone
<1>11. Floors'
    <2>1. visible.history.floor \in Nat
        BY <1>2 DEF Root, History
    <2> QED
        BY <1>1, <2>1 DEF Floors
<1>12. Numbers'
    <2>1. /\ visible.sha <= attempts /\ ticket.tag <= attempts
          /\ ticket.tag # 0 /\ visible.sha = ticket.tag => ticket.floor <= visible.history.floor
          /\ ticket.ready => ticket.tag # 0
        BY DEF BundleInv, Numbers
    <2>2. NoTicket.tag = 0 /\ NoTicket.tag <= attempts /\ ~NoTicket.ready
        BY <1>2, NoTicketType
    <2> QED
        BY <1>1, <2>1, <2>2 DEF Numbers
<1>13. Planned'
    BY <1>1 DEF Planned
<1> QED
    BY <1>3, <1>4, <1>5, <1>6, <1>7, <1>8, <1>9, <1>10, <1>11, <1>12, <1>13 DEF BundleInv

LEMMA FinishKeeps == ASSUME BundleInv, Finish PROVE BundleInv'
<1> DEFINE b == MarkCommitted([Installed(bundle) EXCEPT !.unsettled = FALSE],
                              flight.next, objects)
<1>1. /\ InFlight /\ flight.step = "synced" /\ Succeeded(b)
      /\ UNCHANGED << visible, durable, objects, attempts, epoch >>
    BY DEF Finish, InStep, InFlight
<1>2. bundle \in Owner /\ flight \in Flight /\ visible = flight.next /\ durable = flight.next
    BY <1>1, PastStaging DEF BundleInv, Underway
<1>3. /\ objects \in SUBSET Nat /\ Closure(flight.next) \in SUBSET Nat
      /\ core \in History /\ ticket \in Ticket /\ flight.original \in History
      /\ flight.next \in Root /\ flight.next.history \in History
    <2>1. /\ objects \in SUBSET Nat /\ core \in History /\ ticket \in Ticket
          /\ Closure(visible) \subseteq objects
        BY DEF BundleInv, TypeOK, GraphIsPresent
    <2> QED
        BY <1>2, <2>1 DEF Flight, Root
<1>4. b = [bundle EXCEPT !.root = flight.next, !.receipts = flight.next.receipts,
                         !.issuers = flight.next.issuers, !.unsettled = FALSE,
                         !.committed = Closure(flight.next), !.acknowledged = objects,
                         !.can_collect = FALSE]
    BY <1>2 DEF MarkCommitted, Installed, Owner
<1> HIDE DEF b
<1>5. b \in Owner
    BY <1>2, <1>3, <1>4 DEF Owner, Root
<1>6. /\ b.root = flight.next /\ b.receipts = flight.next.receipts
      /\ b.issuers = flight.next.issuers /\ b.unsettled = FALSE
      /\ b.committed = Closure(flight.next) /\ b.pending = bundle.pending
      /\ b.save = bundle.save /\ b.saving = bundle.saving
    BY <1>2, <1>4 DEF Owner
<1>7. core.floor <= visible.history.floor
    BY <1>2 DEF BundleInv, Floors
<1>8. /\ flight' = Idle /\ refused' = refused
    BY <1>1 DEF Succeeded
<1>9. ByCommand => bundle.save = NoTicket /\ ~bundle.saving
    BY <1>1 DEF BundleInv, Numbers
<1>10. epoch' \in Nat
    BY <1>1 DEF BundleInv, TypeOK
<1>11. CASE CommandPublished(b)
    <2>1. /\ bundle' \in {[b EXCEPT !.pending = NoCommand],
                           [b EXCEPT !.pending = NoCommand, !.unsettled = TRUE]}
          /\ core' \in {core, b.root.history} /\ ticket' = ticket
          /\ acked' \subseteq acked \cup b.receipts /\ acked \subseteq acked'
          /\ ByCommand
        BY <1>11 DEF CommandPublished, ByCommand
    <2>2. bundle' \in Owner
        <3>1. [b EXCEPT !.pending = NoCommand] \in Owner
            BY <1>5 DEF Owner
        <3>2. [b EXCEPT !.pending = NoCommand, !.unsettled = TRUE] \in Owner
            BY <1>5 DEF Owner
        <3> QED
            BY <2>1, <3>1, <3>2
    <2>3. /\ bundle'.root = b.root /\ bundle'.receipts = b.receipts /\ bundle'.issuers = b.issuers
          /\ bundle'.committed = b.committed /\ bundle'.save = b.save /\ bundle'.saving = b.saving
        BY <1>5, <2>1 DEF Owner
    <2>4. core' \in History /\ core'.floor <= visible.history.floor
        <3>1. flight.next.history.floor \in Nat
            BY <1>3 DEF History
        <3>2. core' = core \/ core' = visible.history
            BY <1>2, <1>6, <2>1
        <3> QED
            BY <1>2, <1>3, <1>7, <3>1, <3>2
    <2> QED
        BY <1>1, <1>2, <1>6, <1>8, <1>9, <1>10, <2>1, <2>2, <2>3, <2>4, TakeOver
<1>12. CASE ManualPublished(b)
    <2>1. /\ bundle' = [b EXCEPT !.pending = NoCommand]
          /\ core' = core /\ ticket' = ticket
          /\ acked' \subseteq acked \cup b.receipts /\ acked \subseteq acked'
          /\ ByCommand
        BY <1>12 DEF ManualPublished, ByCommand
    <2>2. bundle' \in Owner
        BY <1>5, <2>1 DEF Owner
    <2>3. /\ bundle'.root = b.root /\ bundle'.receipts = b.receipts /\ bundle'.issuers = b.issuers
          /\ bundle'.committed = b.committed /\ bundle'.save = b.save /\ bundle'.saving = b.saving
        BY <1>5, <2>1 DEF Owner
    <2> QED
        BY <1>1, <1>2, <1>3, <1>6, <1>7, <1>8, <1>9, <1>10, <2>1, <2>2, <2>3, TakeOver
<1>13. CASE SavePublished(b)
    <2>1. PICK commits \in BOOLEAN :
              /\ core' = IF commits THEN Fold(core, ticket.floor) ELSE core
              /\ bundle' = [b EXCEPT !.saving = FALSE, !.save = NoTicket, !.unsettled = ~commits]
        BY <1>13 DEF SavePublished
    <2>2. ticket' = NoTicket /\ acked' = acked /\ BySave
        BY <1>13 DEF SavePublished, BySave
    <2>3. bundle' \in Owner
        BY <1>5, <2>1, NoTicketType DEF Owner
    <2>4. /\ bundle'.root = b.root /\ bundle'.receipts = b.receipts /\ bundle'.issuers = b.issuers
          /\ bundle'.committed = b.committed /\ bundle'.save = NoTicket /\ bundle'.saving = FALSE
        BY <1>5, <2>1 DEF Owner
    <2>5. ticket.floor <= visible.history.floor /\ ticket.floor \in Nat /\ core.floor \in Nat
        BY <1>1, <1>2, <1>3, <2>2 DEF BundleInv, Numbers, Ticket, History
    <2>6. core' \in History /\ core'.floor <= visible.history.floor
        <3>1. /\ Fold(core, ticket.floor) \in History
              /\ Fold(core, ticket.floor).floor =
                    IF core.floor < ticket.floor THEN ticket.floor ELSE core.floor
            BY <1>3, <2>5, FoldType
        <3> QED
            BY <1>3, <1>7, <2>1, <2>5, <3>1
    <2> QED
        BY <1>1, <1>2, <1>6, <1>8, <1>10, <2>2, <2>3, <2>4, <2>6, TakeOver
<1> QED
    BY <1>1, <1>11, <1>12, <1>13 DEF Succeeded

(* Reconciliation takes every field from the visible root.                 *)
LEMMA ReconciledFields ==
    ASSUME BundleInv, Owned
    PROVE  /\ Reconciled \in Owner
           /\ Reconciled.root = visible /\ Reconciled.receipts = visible.receipts
           /\ Reconciled.issuers = visible.issuers /\ Reconciled.committed = Closure(visible)
           /\ Reconciled.save = NoTicket /\ Reconciled.saving = FALSE
<1>1. bundle \in Owner /\ visible \in Root
    BY OwnerIsOpen DEF BundleInv, TypeOK
<1>2. objects \in SUBSET Nat /\ Closure(visible) \in SUBSET Nat
    BY DEF BundleInv, TypeOK, GraphIsPresent
<1> DEFINE state == IF bundle.tag = visible.sha /\ bundle.tag # 0 THEN "Committed"
                    ELSE IF bundle.state = "Unknown" THEN "NotPublished" ELSE bundle.state
           root == Closure(visible)
           mark == MarkCommitted(bundle, visible, objects)
<1>3. state \in {"NotPublished", "Unknown", "Committed"}
    BY <1>1 DEF Owner
<1>4. /\ mark \in Owner /\ mark.state = bundle.state
      /\ mark.committed = root
    <2>1. mark = [bundle EXCEPT !.committed = root, !.acknowledged = objects, !.can_collect = FALSE]
        BY DEF MarkCommitted
    <2> HIDE DEF mark, root
    <2>2. root \in SUBSET Nat
        BY <1>2 DEF root
    <2> QED
        BY <1>1, <1>2, <2>1, <2>2 DEF Owner
<1>5. Reconciled = [mark EXCEPT !.root = visible, !.receipts = visible.receipts,
                        !.issuers = visible.issuers, !.can_collect = TRUE, !.uncertain = FALSE,
                        !.state = state, !.saving = FALSE, !.save = NoTicket,
                        !.root_sha256 = 0, !.tag = 0, !.unsettled = FALSE]
    <2>1. state = IF bundle.tag = visible.sha /\ bundle.tag # 0 THEN "Committed"
                  ELSE IF mark.state = "Unknown" THEN "NotPublished" ELSE mark.state
        BY <1>4
    <2> HIDE DEF state
    <2> QED
        BY <2>1 DEF Reconciled
<1> HIDE DEF mark
<1>6. visible.receipts \in SUBSET ReceiptOf /\ visible.issuers \in [Issuer -> Entry]
    BY <1>1 DEF Root
<1> HIDE DEF state, root
<1>7. Reconciled \in Owner
    BY <1>1, <1>3, <1>4, <1>5, <1>6, NoTicketType, ZenonT(60) DEF Owner
<1>8. /\ Reconciled.root = visible /\ Reconciled.receipts = visible.receipts
      /\ Reconciled.issuers = visible.issuers /\ Reconciled.committed = root
      /\ Reconciled.save = NoTicket /\ Reconciled.saving = FALSE
    BY <1>4, <1>5 DEF Owner
<1> QED
    BY <1>7, <1>8 DEF root

(* What a ticket's tag decides about Core's floor.                         *)
LEMMA SettledFloor ==
    ASSUME BundleInv, ticket.tag # 0,
           core' = IF OwnRootObserved(ticket) THEN Fold(core, ticket.floor) ELSE core
    PROVE  core' \in History /\ core'.floor <= visible.history.floor
<1>1. core \in History /\ ticket \in Ticket /\ visible \in Root /\ durable \in Root
    BY DEF BundleInv, TypeOK
<1>2. /\ core.floor \in Nat /\ ticket.floor \in Nat
      /\ visible.history.floor \in Nat /\ durable.history.floor \in Nat
    BY <1>1 DEF History, Ticket, Root
<1>3. core.floor <= visible.history.floor
    BY <1>2 DEF BundleInv, Floors
<1>4. OwnRootObserved(ticket) => ticket.floor <= visible.history.floor
    BY DEF OwnRootObserved, BundleInv, Numbers
<1>5. /\ Fold(core, ticket.floor) \in History
      /\ Fold(core, ticket.floor).floor =
            IF core.floor < ticket.floor THEN ticket.floor ELSE core.floor
    BY <1>1, <1>2, FoldType
<1> QED
    BY <1>1, <1>2, <1>3, <1>4, <1>5

LEMMA CoreBelowVisible ==
    ASSUME BundleInv
    PROVE  core \in History /\ core.floor <= visible.history.floor /\ epoch \in Nat
<1>1. core \in History /\ visible \in Root /\ durable \in Root /\ epoch \in Nat
    BY DEF BundleInv, TypeOK
<1>2. core.floor \in Nat /\ visible.history.floor \in Nat /\ durable.history.floor \in Nat
    BY <1>1 DEF History, Root
<1> QED
    BY <1>1, <1>2 DEF BundleInv, Floors

LEMMA SettleKeeps ==
    ASSUME BundleInv, SettleDestinationTicket
    PROVE  /\ core' \in History /\ core'.floor <= visible.history.floor
           /\ ticket' \in {ticket, NoTicket}
<1>1. CASE bundle.save = NoTicket \/ ticket = NoTicket
    BY <1>1, CoreBelowVisible DEF SettleDestinationTicket
<1>2. CASE ~(bundle.save = NoTicket \/ ticket = NoTicket)
    <2>1. /\ ticket.ready /\ ticket' = NoTicket
          /\ core' = IF OwnRootObserved(ticket) THEN Fold(core, ticket.floor) ELSE core
        BY <1>2 DEF SettleDestinationTicket
    <2>2. ticket.tag # 0
        BY <2>1 DEF BundleInv, Numbers
    <2> QED
        BY <2>1, <2>2, SettledFloor
<1> QED
    BY <1>1, <1>2

LEMMA ReconcileKeeps == ASSUME BundleInv, Reconcile PROVE BundleInv'
<1>1. /\ Owned /\ flight' = Idle /\ durable' = visible /\ bundle' = Reconciled
      /\ SettleDestinationTicket
      /\ UNCHANGED << visible, objects, attempts, epoch, acked, refused >>
    BY DEF Reconcile, CanReconcile, Owned
<1>2. bundle' \in Owner /\ bundle'.root = visible /\ bundle'.receipts = visible.receipts
      /\ bundle'.issuers = visible.issuers /\ bundle'.committed = Closure(visible)
      /\ bundle'.save = NoTicket /\ bundle'.saving = FALSE
    BY <1>1, ReconciledFields
<1>3. /\ core' \in History /\ core'.floor <= visible.history.floor
      /\ ticket' \in {ticket, NoTicket}
    BY <1>1, SettleKeeps
<1>4. epoch' \in Nat
    BY <1>1, CoreBelowVisible
<1> QED
    BY <1>1, <1>2, <1>3, <1>4, TakeOver

LEMMA ReconcileCommandKeeps == ASSUME BundleInv, ReconcileCommand PROVE BundleInv'
<1>1. /\ Owned /\ flight' = Idle /\ durable' = visible
      /\ bundle' = [Reconciled EXCEPT !.pending = NoCommand]
      /\ SettleDestinationTicket
      /\ UNCHANGED << visible, objects, attempts, epoch, acked, refused >>
    BY DEF ReconcileCommand, CanReconcile, Owned
<1>2. bundle' \in Owner /\ bundle'.root = visible /\ bundle'.receipts = visible.receipts
      /\ bundle'.issuers = visible.issuers /\ bundle'.committed = Closure(visible)
      /\ bundle'.save = NoTicket /\ bundle'.saving = FALSE
    BY <1>1, ReconciledFields DEF Owner
<1>3. /\ core' \in History /\ core'.floor <= visible.history.floor
      /\ ticket' \in {ticket, NoTicket}
    BY <1>1, SettleKeeps
<1>4. epoch' \in Nat
    BY <1>1, CoreBelowVisible
<1> QED
    BY <1>1, <1>2, <1>3, <1>4, TakeOver

LEMMA InstallReconciledKeeps == ASSUME BundleInv, InstallReconciledCommand PROVE BundleInv'
<1>1. /\ Owned /\ flight' = Idle /\ durable' = visible
      /\ bundle' = [Reconciled EXCEPT !.pending = NoCommand]
      /\ core' = visible.history
      /\ UNCHANGED << visible, objects, ticket, attempts, epoch, acked, refused >>
    BY DEF InstallReconciledCommand, Owned
<1>2. bundle' \in Owner /\ bundle'.root = visible /\ bundle'.receipts = visible.receipts
      /\ bundle'.issuers = visible.issuers /\ bundle'.committed = Closure(visible)
      /\ bundle'.save = NoTicket /\ bundle'.saving = FALSE
    BY <1>1, ReconciledFields DEF Owner
<1>3. core' \in History /\ core'.floor <= visible.history.floor
    BY <1>1 DEF BundleInv, TypeOK, Root, History
<1>4. epoch' \in Nat
    BY <1>1, CoreBelowVisible
<1> QED
    BY <1>1, <1>2, <1>3, <1>4, TakeOver

LEMMA OpenKeeps == ASSUME BundleInv, Open PROVE BundleInv'
<1>1. /\ ~Owned /\ durable' = visible /\ bundle' = Adopted(visible, objects)
      /\ core' = IF core = NoHistory THEN visible.history ELSE core
      /\ epoch' = epoch + 1
      /\ UNCHANGED << visible, objects, flight, ticket, attempts, acked, refused >>
    BY DEF Open, Owned
<1>2. flight = Idle
    BY <1>1 DEF BundleInv, Underway, InFlight
<1>3. visible \in Root /\ objects \in SUBSET Nat /\ Closure(visible) \in SUBSET Nat
    BY DEF BundleInv, TypeOK, GraphIsPresent
<1> DEFINE root == Closure(visible)
<1>4. bundle' = [open |-> TRUE, root |-> visible, receipts |-> visible.receipts,
                 issuers |-> visible.issuers, unsettled |-> FALSE, uncertain |-> FALSE,
                 state |-> "NotPublished", tag |-> 0, pending |-> NoCommand, saving |-> FALSE,
                 save |-> NoTicket, root_sha256 |-> 0, committed |-> root,
                 acknowledged |-> objects, can_collect |-> FALSE]
    BY <1>1 DEF Adopted, MarkCommitted
<1>5. visible.receipts \in SUBSET ReceiptOf /\ visible.issuers \in [Issuer -> Entry]
    BY <1>3 DEF Root
<1>6. root \in SUBSET Nat
    BY <1>3
<1> HIDE DEF root
<1>7. bundle' \in Owner
    BY <1>3, <1>4, <1>5, <1>6, NoTicketType DEF Owner
<1>8. /\ bundle'.root = visible /\ bundle'.receipts = visible.receipts
      /\ bundle'.issuers = visible.issuers /\ bundle'.committed = root
      /\ bundle'.save = NoTicket /\ bundle'.saving = FALSE
    BY <1>4
<1>9. core' \in History /\ core'.floor <= visible.history.floor
    <2>1. visible.history \in History /\ visible.history.floor \in Nat
        BY <1>3 DEF Root, History
    <2> QED
        BY <1>1, <2>1, CoreBelowVisible
<1>10. epoch' \in Nat
    BY <1>1, CoreBelowVisible
<1> QED
    BY <1>1, <1>2, <1>7, <1>8, <1>9, <1>10, TakeOver DEF root

-----------------------------------------------------------------------------
(* The steps that publish nothing.                                         *)

(* Steps of an owner between publications that keep the root it knows.     *)
LEMMA QuietKeeps ==
    ASSUME BundleInv, Owned, flight = Idle, flight' = Idle,
           visible' = visible, durable' \in {durable, visible}, objects' = objects,
           attempts' = attempts, epoch' = epoch, refused' = refused, acked' = acked,
           bundle' \in {bundle, [bundle EXCEPT !.unsettled = TRUE]},
           core' \in History, core'.floor <= visible.history.floor,
           durable' = visible \/ core' = core,
           ticket' \in {ticket, NoTicket}
    PROVE  BundleInv'
<1>1. bundle \in Owner /\ ~InFlight
    BY OwnerIsOpen DEF BundleInv, InFlight
<1>2. bundle' \in Owner
    <2>1. [bundle EXCEPT !.unsettled = TRUE] \in Owner
        BY <1>1 DEF Owner
    <2> QED
        BY <1>1, <2>1
<1>3. /\ ~bundle'.unsettled => bundle' = bundle
      /\ bundle'.receipts = bundle.receipts /\ bundle'.committed = bundle.committed
      /\ bundle'.can_collect = bundle.can_collect
    BY <1>1 DEF Owner
<1>4. ~InFlight' /\ Owned'
    BY <1>2, OwnerNotClosed DEF InFlight, Owned, Idle
<1>5. /\ visible \in Root /\ durable \in Root /\ ticket \in Ticket /\ attempts \in Nat
      /\ core \in History
    BY DEF BundleInv, TypeOK
<1>6. TypeOK'
    BY <1>2, <1>5, NoTicketType DEF BundleInv, TypeOK
<1>7. Agreed'
    <2> SUFFICES ASSUME ~bundle'.unsettled PROVE Agreed'
        BY DEF Agreed
    <2>1. /\ bundle' = bundle /\ durable = bundle.root /\ visible = bundle.root
          /\ bundle.committed = Closure(bundle.root)
          /\ bundle.receipts = bundle.root.receipts
          /\ bundle.issuers = bundle.root.issuers
          /\ bundle.save = NoTicket /\ ~bundle.saving
        BY <1>1, <1>3 DEF BundleInv, Agreed
    <2>2. durable' = bundle.root /\ visible' = bundle.root
        BY <2>1
    <2> QED
        BY <2>1, <2>2 DEF Agreed
<1>8. Underway'
    BY <1>4 DEF Underway
<1>9. Collectable'
    <2>1. bundle.can_collect => Closure(visible) \cup Closure(durable) \subseteq bundle.committed
        BY DEF BundleInv, Collectable
    <2> QED
        BY <1>3, <1>4, <2>1 DEF Collectable
<1>10. GraphIsPresent'
    BY DEF BundleInv, GraphIsPresent
<1>11. Receipted'
    <2>1. bundle.receipts \subseteq visible.receipts \cap durable.receipts
        BY DEF BundleInv, Receipted
    <2> QED
        BY <1>3, <1>4, <2>1 DEF Receipted
<1>12. Refusals'
    BY <1>4 DEF BundleInv, Refusals, RefusedOf, Unmatched, Matches
<1>13. Acknowledgements'
    BY <1>4 DEF BundleInv, Acknowledgements, AckedIn, Gone, Atomic!Gone
<1>14. Floors'
    <2>1. visible.history.floor \in Nat /\ durable.history.floor \in Nat
        BY <1>5 DEF Root, History
    <2>2. core.floor <= durable.history.floor /\ durable.history.floor <= visible.history.floor
        BY DEF BundleInv, Floors
    <2>3. core'.floor <= durable'.history.floor
        BY <2>2
    <2>4. durable'.history.floor <= visible'.history.floor
        BY <2>1, <2>2
    <2> QED
        BY <1>4, <2>3, <2>4 DEF Floors
<1>15. Numbers'
    <2>1. /\ visible.sha <= attempts /\ durable.sha <= attempts /\ ticket.tag <= attempts
          /\ ticket.tag # 0 /\ visible.sha = ticket.tag => ticket.floor <= visible.history.floor
          /\ ticket.ready => ticket.tag # 0
        BY DEF BundleInv, Numbers
    <2>2. NoTicket.tag = 0 /\ NoTicket.tag <= attempts /\ ~NoTicket.ready
        BY <1>5, NoTicketType
    <2>3. durable'.sha <= attempts' /\ visible'.sha <= attempts'
        BY <2>1
    <2> QED
        BY <1>4, <2>1, <2>2, <2>3 DEF Numbers
<1>16. Planned'
    <2>1. visible = durable \/ Ahead(durable, visible)
        BY DEF BundleInv, Planned
    <2>2. visible' = durable' \/ Ahead(durable', visible')
        BY <2>1
    <2> QED
        BY <1>4, <2>2 DEF Planned
<1> QED
    BY <1>6, <1>7, <1>8, <1>9, <1>10, <1>11, <1>12, <1>13, <1>14, <1>15, <1>16 DEF BundleInv

LEMMA SettleOrphanKeeps == ASSUME BundleInv, SettleOrphan PROVE BundleInv'
<1>1. /\ Owned /\ flight = Idle /\ ticket.ready /\ durable' = visible /\ ticket' = NoTicket
      /\ core' = IF OwnRootObserved(ticket) THEN Fold(core, ticket.floor) ELSE core
      /\ UNCHANGED << visible, objects, bundle, flight, attempts, epoch, acked, refused >>
    BY DEF SettleOrphan, Owned
<1>2. ticket.tag # 0
    BY <1>1 DEF BundleInv, Numbers
<1>3. core' \in History /\ core'.floor <= visible.history.floor
    BY <1>1, <1>2, SettledFloor
<1> QED
    BY <1>1, <1>3, QuietKeeps

LEMMA ReconcileFailsKeeps == ASSUME BundleInv, ReconcileFails PROVE BundleInv'
<1>1. /\ Owned /\ flight = Idle
      /\ UNCHANGED << visible, objects, flight, core, ticket, attempts, epoch, acked, refused >>
    BY DEF ReconcileFails, Owned
<1>2. core \in History /\ core.floor <= visible.history.floor /\ epoch \in Nat
    BY CoreBelowVisible
<1>3. CASE durable' \in {durable, visible} /\ bundle' = [bundle EXCEPT !.unsettled = TRUE]
    BY <1>1, <1>2, <1>3, QuietKeeps
<1>4. CASE /\ durable' = visible
           /\ bundle' = [Reconciled EXCEPT !.tag = bundle.tag, !.saving = bundle.saving,
                             !.save = bundle.save, !.root_sha256 = bundle.root_sha256,
                             !.unsettled = TRUE]
    <2>1. bundle \in Owner
        BY <1>1, OwnerIsOpen DEF BundleInv
    <2>2. /\ bundle.tag \in Nat /\ bundle.saving \in BOOLEAN /\ bundle.save \in Ticket
          /\ bundle.root_sha256 \in Nat
        BY <2>1 DEF Owner
    <2>3. Reconciled \in Owner /\ Reconciled.root = visible
          /\ Reconciled.receipts = visible.receipts
          /\ Reconciled.issuers = visible.issuers /\ Reconciled.committed = Closure(visible)
        BY <1>1, ReconciledFields
    <2>4. bundle' \in Owner
        BY <1>4, <2>2, <2>3 DEF Owner
    <2>5. bundle'.root = visible /\ bundle'.receipts = visible.receipts
          /\ bundle'.issuers = visible.issuers /\ bundle'.committed = Closure(visible)
          /\ bundle'.unsettled
        BY <1>4, <2>2, <2>3 DEF Owner
    <2> QED
        BY <1>1, <1>2, <1>4, <2>4, <2>5, TakeOver
<1> QED
    BY <1>3, <1>4 DEF ReconcileFails

LEMMA AskKeeps == ASSUME BundleInv, NEW e, AskReceipt(e) PROVE BundleInv'
<1>1. /\ Owned /\ ~InFlight
      /\ acked' = acked \cup {r \in bundle.receipts : Matches(r, e)}
      /\ UNCHANGED << visible, durable, objects, bundle, flight, core, ticket, attempts,
                      epoch, refused >>
    BY DEF AskReceipt, Owned, InFlight
<1>2. bundle.receipts \subseteq visible.receipts \cap durable.receipts
    BY <1>1 DEF BundleInv, Receipted
<1>3. acked' \subseteq acked \cup (visible.receipts \cap durable.receipts)
    BY <1>1, <1>2
<1>4. acked' \subseteq ReceiptOf
    BY <1>3 DEF BundleInv, TypeOK, Root
<1>5. TypeOK'
    BY <1>1, <1>4 DEF BundleInv, TypeOK
<1>6. Acknowledgements'
    BY <1>1, <1>3 DEF BundleInv, Acknowledgements, AckedIn, Gone, Atomic!Gone, InFlight
<1>7. Agreed' /\ Underway' /\ Collectable' /\ GraphIsPresent'
    BY <1>1 DEF BundleInv, Agreed, Underway, Collectable, GraphIsPresent, Owned, InFlight
<1>8. Receipted' /\ Refusals' /\ Floors' /\ Numbers' /\ Planned'
    BY <1>1 DEF BundleInv, Receipted, Refusals, RefusedOf, Unmatched, Matches, Floors, Numbers,
                Planned, Owned, InFlight
<1> QED
    BY <1>5, <1>6, <1>7, <1>8 DEF BundleInv

LEMMA CoreEditKeeps == ASSUME BundleInv, CoreEdit PROVE BundleInv'
<1>1. /\ core' = [core EXCEPT !.batches = Append(@, Atomic!LocalEdit)]
      /\ UNCHANGED << visible, durable, objects, bundle, flight, ticket, attempts, epoch,
                      acked, refused >>
    BY DEF CoreEdit
<1>2. core' \in History /\ core'.floor = core.floor
    <2>1. core \in History
        BY DEF BundleInv, TypeOK
    <2>2. Append(core.batches, Atomic!LocalEdit) \in Seq(Batch)
        BY <2>1 DEF History, Batch
    <2> QED
        BY <1>1, <2>1, <2>2 DEF History
<1>3. TypeOK'
    BY <1>1, <1>2 DEF BundleInv, TypeOK
<1>4. Floors'
    BY <1>1, <1>2 DEF BundleInv, Floors, InFlight
<1>5. Agreed' /\ Underway' /\ Collectable' /\ GraphIsPresent'
    BY <1>1 DEF BundleInv, Agreed, Underway, Collectable, GraphIsPresent, Owned, InFlight
<1>6. Receipted' /\ Refusals' /\ Acknowledgements' /\ Numbers' /\ Planned'
    BY <1>1 DEF BundleInv, Receipted, Refusals, RefusedOf, Unmatched, Matches, Numbers,
                Acknowledgements, AckedIn, Gone, Atomic!Gone,
                Planned, Owned, InFlight, ByCommand, BySave
<1> QED
    BY <1>3, <1>4, <1>5, <1>6 DEF BundleInv

(* Without an owner only what is on disk is left to say.                   *)
LEMMA UnownedKeeps ==
    ASSUME BundleInv, bundle' = Closed, flight' = Idle,
           objects' \subseteq objects, Closure(visible') \cup Closure(durable') \subseteq objects',
           \/ visible' = visible /\ durable' = durable
           \/ visible' = durable' /\ visible' \in {visible, durable},
           core' \in History, core'.floor <= durable'.history.floor,
           ticket' = NoTicket \/ (ticket' = ticket /\ visible' = visible),
           UNCHANGED <<attempts, epoch, acked, refused>>
    PROVE  BundleInv'
<1>1. ~InFlight' /\ ~Owned'
    BY DEF InFlight, Owned, Idle, Closed
<1>2. /\ visible \in Root /\ durable \in Root /\ ticket \in Ticket /\ attempts \in Nat
    BY DEF BundleInv, TypeOK
<1>3. TypeOK'
    BY <1>2, NoTicketType DEF BundleInv, TypeOK, Closed, Idle
<1>4. Agreed' /\ Underway' /\ Collectable' /\ GraphIsPresent'
    BY <1>1 DEF Agreed, Underway, Collectable, GraphIsPresent
<1>5. Receipted'
    BY <1>1 DEF Receipted
<1>6. Refusals'
    BY <1>1 DEF BundleInv, Refusals, RefusedOf, Unmatched, Matches
<1>7. Acknowledgements'
    BY <1>1 DEF BundleInv, Acknowledgements, AckedIn, Gone, Atomic!Gone
<1>8. Floors'
    <2>1. visible.history.floor \in Nat /\ durable.history.floor \in Nat
        BY <1>2 DEF Root, History
    <2>2. durable'.history.floor <= visible'.history.floor
        BY <2>1 DEF BundleInv, Floors
    <2> QED
        BY <1>1, <2>2 DEF Floors
<1>9. Numbers'
    <2>1. /\ visible.sha <= attempts /\ durable.sha <= attempts /\ ticket.tag <= attempts
          /\ ticket.tag # 0 /\ visible.sha = ticket.tag => ticket.floor <= visible.history.floor
          /\ ticket.ready => ticket.tag # 0
        BY DEF BundleInv, Numbers
    <2>2. NoTicket.tag = 0 /\ NoTicket.tag <= attempts /\ ~NoTicket.ready
        BY <1>2, NoTicketType
    <2>3. durable'.sha <= attempts' /\ visible'.sha <= attempts'
        BY <2>1
    <2> QED
        BY <1>1, <2>1, <2>2, <2>3 DEF Numbers
<1>10. Planned'
    <2>1. visible' = durable' \/ Ahead(durable', visible')
        BY DEF BundleInv, Planned
    <2> QED
        BY <1>1, <2>1 DEF Planned
<1> QED
    BY <1>3, <1>4, <1>5, <1>6, <1>7, <1>8, <1>9, <1>10 DEF BundleInv

LEMMA DropOwnerKeeps == ASSUME BundleInv, DropOwner PROVE BundleInv'
<1>1. /\ Owned /\ flight' = Idle /\ bundle' = Closed
      /\ objects' = IF bundle.can_collect THEN objects \ Victims(bundle) ELSE objects
      /\ ticket' \in {ticket, NoTicket}
      /\ UNCHANGED << visible, durable, core, attempts, epoch, acked, refused >>
    BY DEF DropOwner, Owned
<1>2. Closure(visible') \cup Closure(durable') \subseteq objects' /\ objects' \subseteq objects
    BY <1>1 DEF BundleInv, Collectable, GraphIsPresent, Victims
<1>3. core' \in History /\ core'.floor <= durable'.history.floor
    BY <1>1 DEF BundleInv, TypeOK, Floors
<1> QED
    BY <1>1, <1>2, <1>3, UnownedKeeps

LEMMA CrashKeeps == ASSUME BundleInv, Crash PROVE BundleInv'
<1>1. /\ bundle' = Closed /\ flight' = Idle /\ core' = NoHistory /\ ticket' = NoTicket
      /\ \/ visible' = visible /\ durable' = durable
         \/ \E r \in {visible, durable} : visible' = r /\ durable' = r
      /\ UNCHANGED << objects, attempts, epoch, acked, refused >>
    BY DEF Crash
<1>2. Closure(visible') \cup Closure(durable') \subseteq objects'
    BY <1>1 DEF BundleInv, GraphIsPresent
<1>3. core' \in History /\ core'.floor = 0
    <2>1. << << "none" >> >> \in Seq(Batch)
        BY DEF Batch
    <2> QED
        BY <1>1, <2>1 DEF NoHistory, History
<1>4. durable'.history.floor \in Nat
    BY <1>1 DEF BundleInv, TypeOK, Root, History
<1>5. core'.floor <= durable'.history.floor
    BY <1>3, <1>4
<1>6. objects' \subseteq objects /\ bundle' = Closed /\ flight' = Idle /\ ticket' = NoTicket
      /\ UNCHANGED <<attempts, epoch, acked, refused>>
    BY <1>1
<1>7. \/ visible' = visible /\ durable' = durable
      \/ visible' = durable' /\ visible' \in {visible, durable}
    BY <1>1
<1>8. core' \in History
    BY <1>3
<1>9. ticket' = NoTicket \/ (ticket' = ticket /\ visible' = visible)
    BY <1>6
<1> QED
    BY <1>2, <1>5, <1>6, <1>7, <1>8, <1>9, UnownedKeeps

-----------------------------------------------------------------------------
LEMMA InitBundleInv == ASSUME Init PROVE BundleInv
<1> DEFINE h == [floor |-> 0, batches |-> << >>]
           table == [i \in Issuer |-> Atomic!Unissued]
<1>1. EmptyRoot = [sha |-> 0, generation |-> 1, history |-> h, receipts |-> {},
                   issuers |-> table, predecessors |-> << >>]
    BY DEF EmptyRoot, Atomic!EmptyRoot
<1>2. h \in History /\ table \in [Issuer -> Entry] /\ h.floor = 0
    BY DEF History, Entry, Atomic!Unissued
<1> HIDE DEF h, table
<1>3. EmptyRoot \in Root
    BY <1>1, <1>2 DEF Root
<1>4. /\ EmptyRoot.sha = 0 /\ EmptyRoot.history = h /\ EmptyRoot.receipts = {}
      /\ EmptyRoot.issuers = table /\ EmptyRoot.predecessors = << >>
    BY <1>1
<1>5. Closure(EmptyRoot) = {0}
    BY <1>4 DEF Closure, Range
<1>6. /\ visible = EmptyRoot /\ durable = EmptyRoot /\ objects = {0} /\ flight = Idle
      /\ bundle = Adopted(EmptyRoot, {0}) /\ core = h /\ ticket = NoTicket
      /\ attempts = 0 /\ epoch = 1 /\ acked = {} /\ refused = {}
    BY <1>4 DEF Init
<1>7. bundle = [open |-> TRUE, root |-> EmptyRoot, receipts |-> {}, issuers |-> table,
                unsettled |-> FALSE, uncertain |-> FALSE, state |-> "NotPublished", tag |-> 0,
                pending |-> NoCommand, saving |-> FALSE, save |-> NoTicket, root_sha256 |-> 0,
                committed |-> {0}, acknowledged |-> {0}, can_collect |-> FALSE]
    BY <1>4, <1>5, <1>6 DEF Adopted, MarkCommitted
<1>8. bundle \in Owner
    BY <1>2, <1>3, <1>7, NoTicketType DEF Owner
<1>9. /\ bundle.root = EmptyRoot /\ bundle.receipts = {} /\ bundle.issuers = table
      /\ bundle.committed = {0} /\ bundle.can_collect = FALSE
      /\ bundle.save = NoTicket /\ bundle.saving = FALSE
    BY <1>7
<1>10. ~InFlight /\ Owned
    BY <1>6, <1>8, OwnerNotClosed DEF InFlight, Owned
<1>11. TypeOK
    BY <1>2, <1>3, <1>6, <1>8, NoTicketType DEF TypeOK
<1>12. Agreed
    BY <1>4, <1>5, <1>6, <1>9, <1>10 DEF Agreed
<1>13. Underway /\ Collectable /\ GraphIsPresent
    BY <1>5, <1>6, <1>9, <1>10 DEF Underway, Collectable, GraphIsPresent
<1>14. Receipted /\ Refusals /\ Acknowledgements
    BY <1>4, <1>6, <1>9, <1>10 DEF Receipted, Refusals, RefusedOf, Acknowledgements, AckedIn
<1>15. Floors /\ Numbers /\ Planned
    BY <1>2, <1>4, <1>6, <1>10, NoTicketType DEF Floors, Numbers, Planned
<1> QED
    BY <1>11, <1>12, <1>13, <1>14, <1>15 DEF BundleInv

LEMMA StutterKeeps == ASSUME BundleInv, UNCHANGED vars PROVE BundleInv'
<1>1. UNCHANGED << visible, durable, objects, bundle, flight, core, ticket, attempts, epoch,
                   acked, refused >>
    BY DEF vars
<1>2. TypeOK' /\ Agreed' /\ Underway' /\ Collectable' /\ GraphIsPresent'
    BY <1>1 DEF BundleInv, TypeOK, Agreed, Underway, Collectable, GraphIsPresent, Owned, InFlight
<1>3. Receipted' /\ Refusals' /\ Acknowledgements' /\ Floors' /\ Numbers' /\ Planned'
    BY <1>1 DEF BundleInv, Receipted, Refusals, RefusedOf, Unmatched, Matches, Numbers, Floors,
                Acknowledgements, AckedIn, Gone, Atomic!Gone,
                Planned, Owned, InFlight, ByCommand, BySave
<1> QED
    BY <1>2, <1>3 DEF BundleInv

LEMMA NextBundleInv == ASSUME BundleInv, [Next]_vars PROVE BundleInv'
<1>1. CASE UNCHANGED vars
    BY <1>1, StutterKeeps
<1>2. CASE Next
    <2>1. ASSUME NEW e \in Envelope, CommandTarget(e) PROVE BundleInv'
        BY <2>1, CommandTargetKeeps
    <2>2. ASSUME NEW e \in Envelope, AdmittedHistory(e) PROVE BundleInv'
        BY <2>2, AdmittedHistoryKeeps
    <2>3. ASSUME NEW i \in Issuer, NEW n \in 1 .. MaxSequence, NEW action \in Atomic!Action,
                 AskReceipt([issuer |-> i, sequence |-> n, action |-> action])
          PROVE  BundleInv'
        BY <2>3, AskKeeps
    <2>4. CASE Save
        BY <2>4, SaveKeeps
    <2>5. ASSUME NEW i \in Issuer, IssueIssuer(i) PROVE BundleInv'
        BY <2>5, IssueKeeps
    <2>6. ASSUME NEW i \in Issuer, NEW through \in 0 .. MaxSequence, AcknowledgeIssuer(i, through)
          PROVE  BundleInv'
        <3>1. through \in Nat
            BY BoundsAreNaturals
        <3> QED
            BY <2>6, <3>1, AcknowledgeKeeps
    <2>7. ASSUME NEW i \in Issuer, NEW forget \in BOOLEAN, RetireIssuer(i, forget) PROVE BundleInv'
        BY <2>7, RetireKeeps
    <2>8. CASE Stage \/ StageFails \/ PrepareFails \/ Tag
        BY <2>8, StageKeeps, StageFailsKeeps, PrepareFailsKeeps, TagKeeps
    <2>9. CASE ReplaceRefused \/ RenameAmbiguous \/ Rename \/ SyncFails \/ SyncParent
        BY <2>9, ReplaceRefusedKeeps, RenameAmbiguousKeeps, RenameKeeps, SyncFailsKeeps,
           SyncParentKeeps
    <2>10. CASE Finish \/ TailFails
        BY <2>10, FinishKeeps, TailFailsKeeps
    <2>11. CASE Reconcile \/ ReconcileFails \/ ReconcileCommand \/ InstallReconciledCommand
        BY <2>11, ReconcileKeeps, ReconcileFailsKeeps, ReconcileCommandKeeps,
           InstallReconciledKeeps
    <2>12. CASE SettleOrphan \/ CoreEdit \/ DropOwner \/ Crash \/ Open
        BY <2>12, SettleOrphanKeeps, CoreEditKeeps, DropOwnerKeeps, CrashKeeps, OpenKeeps
    <2> QED
        BY <1>2, <2>1, <2>2, <2>3, <2>4, <2>5, <2>6, <2>7, <2>8, <2>9, <2>10, <2>11, <2>12
        DEF Next
<1> QED
    BY <1>1, <1>2

(* Every step of the owner, the publisher and the machine (Next) keeps the *)
(* inductive invariant.                                                    *)
THEOREM BundleInvCorrect == Spec => []BundleInv
<1>1. Init => BundleInv
    BY InitBundleInv
<1>2. BundleInv /\ [Next]_vars => BundleInv'
    BY NextBundleInv
<1> QED
    BY <1>1, <1>2, PTL DEF Spec

-----------------------------------------------------------------------------
(* What the invariant is for.                                              *)

(* The objects of the root a reader may see, of the root a power loss may  *)
(* leave and of the roots kept for recovery are never collected, whatever  *)
(* was staged, collected or lost before (Stage, StageFails, DropOwner).    *)
THEOREM GraphCorrect == Spec => []GraphIsPresent
<1>1. BundleInv => GraphIsPresent
    BY DEF BundleInv
<1> QED
    BY <1>1, BundleInvCorrect, PTL

(* A receipt answered as committed (Finish, AskReceipt) is in the root     *)
(* that a power loss leaves, or its issuer was retired and forgotten.      *)
THEOREM AckedCorrect == Spec => []AckedIsDurable
<1>1. BundleInv => AckedIsDurable
    BY DEF BundleInv, Acknowledgements, AckedIn, AckedIsDurable
<1> QED
    BY <1>1, BundleInvCorrect, PTL

(* A command reported as not published (CommandFailed, ManualFailed) is in *)
(* neither root until its caller sends it again.                           *)
THEOREM RefusedCorrect == Spec => []RefusedNeverPublished
<1>1. BundleInv => RefusedNeverPublished
    <2> SUFFICES ASSUME BundleInv, NEW e \in refused,
                        NEW r \in visible.receipts \cup durable.receipts
                 PROVE  ~Matches(r, e)
        BY DEF RefusedNeverPublished
    <2>1. Unmatched(e, visible.receipts) /\ Unmatched(e, durable.receipts)
        BY DEF BundleInv, Refusals, RefusedOf
    <2> QED
        BY <2>1 DEF Unmatched
<1> QED
    BY <1>1, BundleInvCorrect, PTL

(* The floor of the session's Core never passes the durable root's: a      *)
(* ticket is committed only when its root is durable (SavePublished,       *)
(* SettleDestinationTicket, SettleOrphan).                                 *)
THEOREM FloorCorrect == Spec => []FloorNeverAheadOfDisk
<1>1. BundleInv => FloorNeverAheadOfDisk
    BY DEF BundleInv, Floors, FloorNeverAheadOfDisk
<1> QED
    BY <1>1, BundleInvCorrect, PTL

-----------------------------------------------------------------------------
(* The durable root implements AtomicPublication.                          *)

LEMMA DurableMoves ==
    ASSUME BundleInv, [Next]_vars
    PROVE  durable' = durable \/ durable' = visible
<1>1. CASE UNCHANGED vars
    BY <1>1 DEF vars
<1>2. CASE Next
    <2>1. ASSUME NEW e \in Envelope, CommandTarget(e) \/ AdmittedHistory(e)
          PROVE  durable' = durable
        BY <2>1 DEF CommandTarget, AdmittedHistory
    <2>2. ASSUME NEW e, AskReceipt(e) PROVE durable' = durable
        BY <2>2 DEF AskReceipt
    <2>3. ASSUME NEW b, NEW kind, SaveWith(b, kind) PROVE durable' = durable
        BY <2>3 DEF SaveWith
    <2>4. ASSUME Save PROVE durable' = durable
        BY <2>3, <2>4 DEF Save
    <2>5. ASSUME NEW i \in Issuer, IssueIssuer(i) PROVE durable' = durable
        BY <2>3, <2>5 DEF IssueIssuer
    <2>6. ASSUME NEW i \in Issuer, NEW n, AcknowledgeIssuer(i, n) PROVE durable' = durable
        BY <2>3, <2>6 DEF AcknowledgeIssuer
    <2>7. ASSUME NEW i \in Issuer, NEW f, RetireIssuer(i, f) PROVE durable' = durable
        BY <2>3, <2>7 DEF RetireIssuer
    <2>8. CASE Stage \/ StageFails \/ PrepareFails \/ Tag
        BY <2>8 DEF Stage, StageFails, PrepareFails, Tag
    <2>9. CASE ReplaceRefused \/ RenameAmbiguous \/ Rename \/ SyncFails \/ SyncParent
        BY <2>9 DEF ReplaceRefused, RenameAmbiguous, Rename, SyncFails, SyncParent
    <2>10. CASE Finish \/ TailFails
        BY <2>10 DEF Finish, TailFails
    <2>11. CASE Reconcile \/ ReconcileFails \/ ReconcileCommand \/ InstallReconciledCommand
        BY <2>11 DEF Reconcile, ReconcileFails, ReconcileCommand, InstallReconciledCommand
    <2>12. CASE SettleOrphan \/ CoreEdit \/ DropOwner \/ Crash \/ Open
        BY <2>12 DEF SettleOrphan, CoreEdit, DropOwner, Crash, Open
    <2> QED
        BY <1>2, <2>1, <2>2, <2>4, <2>5, <2>6, <2>7, <2>8, <2>9, <2>10, <2>11, <2>12 DEF Next
<1> QED
    BY <1>1, <1>2

(* A root one publication ahead is one step of the abstract specification. *)
LEMMA AheadIsStep ==
    ASSUME Ahead(durable, durable')
    PROVE  Atomic!Next
<1> DEFINE old == Published(durable)
           new == Published(durable')
<1>1. /\ old.generation = durable.generation /\ old.history = durable.history
      /\ old.receipts = durable.receipts /\ old.issuers = durable.issuers
      /\ new.generation = durable'.generation /\ new.history = durable'.history
      /\ new.receipts = durable'.receipts /\ new.issuers = durable'.issuers
    BY DEF Published
<1>2. new = [generation |-> durable'.generation, history |-> durable'.history,
             receipts |-> durable'.receipts, issuers |-> durable'.issuers]
    BY DEF Published
<1>3. durable'.generation = durable.generation + 1
    BY DEF Ahead
<1>4. CASE ByOneCommand(durable, durable')
    <2>1. PICK i \in Issuer, action \in Atomic!Action :
              Executed(durable, durable', Spent(durable, i, action))
        BY <1>4 DEF ByOneCommand
    <2> DEFINE e == [issuer |-> i, sequence |-> durable.issuers[i].next, action |-> action]
    <2>2. /\ durable.issuers[i].phase = "issued"
          /\ \E floor \in 0 .. Len(Atomic!Effect(durable.history, e).batches) :
                durable'.history = Atomic!Fold(Atomic!Effect(durable.history, e), floor)
          /\ durable'.receipts =
                durable.receipts \cup {Atomic!Receipt(e, durable.generation + 1)}
          /\ durable'.issuers = Atomic!Advance(durable.issuers, i)
        BY <2>1 DEF Executed, Spent, Effect, Fold, Receipt
    <2>3. Atomic!Execute(i, action)
        BY <1>1, <1>2, <1>3, <2>2 DEF Atomic!Execute
    <2> QED
        BY <2>3 DEF Atomic!Next
<1>5. CASE /\ Atomic!Continues(durable'.history, durable.history)
           /\ Entries(durable, durable'.receipts, durable'.issuers)
    <2> DEFINE receipts == durable'.receipts
               issuers == durable'.issuers
    <2>1. PICK i \in Issuer :
              /\ \A j \in Issuer \ {i} : EntryKept(durable, j, receipts, issuers)
              /\ \/ EntryKept(durable, i, receipts, issuers)
                 \/ EntryIssued(durable, i, receipts, issuers)
                 \/ EntryAcknowledged(durable, i, receipts, issuers)
                 \/ EntryClosed(durable, i, receipts, issuers)
        BY <1>5 DEF Entries
    <2>2. \A j \in Issuer \ {i} : Atomic!Kept(j, receipts, issuers)
        BY <1>1, <2>1 DEF EntryKept, HoldsReceipts, Atomic!Kept
    <2>3. \/ Atomic!Kept(i, receipts, issuers)
          \/ Atomic!NewlyIssued(i, issuers)
          \/ Atomic!Acknowledged(i, receipts, issuers)
          \/ Atomic!Retired(i, receipts, issuers)
          \/ Atomic!Forgotten(i, receipts, issuers)
        <3>1. CASE EntryKept(durable, i, receipts, issuers)
            BY <1>1, <3>1 DEF EntryKept, HoldsReceipts, Atomic!Kept
        <3>2. CASE EntryIssued(durable, i, receipts, issuers)
            BY <1>1, <3>2 DEF EntryIssued, Issued, Atomic!NewlyIssued
        <3>3. CASE EntryAcknowledged(durable, i, receipts, issuers)
            BY <1>1, <3>3 DEF EntryAcknowledged, HoldsReceipts, Atomic!Acknowledged
        <3>4. CASE EntryClosed(durable, i, receipts, issuers)
            BY <1>1, <3>4 DEF EntryClosed, HoldsReceipts, Gone, Atomic!Retired, Atomic!Forgotten,
                              Atomic!WhollyReconciled
        <3> QED
            BY <2>1, <3>1, <3>2, <3>3, <3>4
    <2>4. receipts \subseteq durable.receipts
        BY <1>5 DEF Entries
    <2>5. Atomic!Save(durable'.history, receipts, issuers)
        BY <1>1, <1>2, <1>3, <1>5, <2>2, <2>3, <2>4 DEF Atomic!Save
    <2> QED
        BY <1>1, <2>5 DEF Atomic!Next
<1> QED
    BY <1>4, <1>5 DEF Ahead

(* The durable root changes by whole publications only: whatever fails,    *)
(* is lost or is repeated, every change of it is one accepted command or   *)
(* one save of AtomicPublication.                                          *)
THEOREM PublicationCorrect == Spec => ImplementsAtomicPublication
<1>1. Init => Atomic!Init
    BY DEF Init, EmptyRoot, Published, Atomic!Init, Atomic!EmptyRoot
<1>2. BundleInv /\ [Next]_vars => [Atomic!Next]_(Published(durable))
    <2> SUFFICES ASSUME BundleInv, [Next]_vars
                 PROVE  Atomic!Next \/ Published(durable)' = Published(durable)
        OBVIOUS
    <2>1. CASE durable' = durable
        BY <2>1 DEF Published
    <2>2. CASE durable' = visible /\ durable' # durable
        <3>1. Ahead(durable, visible)
            BY <2>2 DEF BundleInv, Planned
        <3> QED
            BY <2>2, <3>1, AheadIsStep
    <2> QED
        BY <2>1, <2>2, DurableMoves
<1> QED
    BY <1>1, <1>2, BundleInvCorrect, PTL DEF Spec, ImplementsAtomicPublication, Atomic!Spec

=============================================================================
