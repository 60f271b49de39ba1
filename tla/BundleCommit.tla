---------------------------- MODULE BundleCommit ----------------------------
(***************************************************************************)
(* Publication of a project bundle (kinewright-project: bundle_commit.rs,  *)
(* bundle.rs, receipts.rs).  One owner holds the bundle; it stages objects *)
(* in a content-addressed store, then replaces the root file that names    *)
(* them: write a temporary, rename it over the root, sync the directory.   *)
(* The rename may be seen before it is durable, may fail with an ambiguous *)
(* error, and the process or the machine may stop between any two steps.   *)
(* An owner that does not know the outcome refuses everything until it has *)
(* reconciled with what is on disk.                                        *)
(*                                                                         *)
(* A head id and a history digest are fresh exactly when the history       *)
(* changes, so both are represented by the history.  A root's digest is    *)
(* the number of the publication attempt that built it ("sha").            *)
(***************************************************************************)
EXTENDS Naturals, Sequences, SequencesExt, FiniteSets, FiniteSetsExt

CONSTANTS
    Issuer,         \* the issuer ids a project may hand out
    Retained,       \* the storage limit: batches a published history retains
    MaxSequence,    \* bound on the sequence an issuer reaches
    MaxBatches,     \* bound on the history
    MaxEdits,       \* bound on the edits made in the editor itself
    MaxAttempts,    \* bound on publication attempts
    MaxEpochs       \* bound on the owners the bundle ever has

ASSUME BoundsAreNaturals ==
    /\ Retained \in Nat
    /\ MaxSequence \in Nat /\ MaxBatches \in Nat /\ MaxEdits \in Nat
    /\ MaxAttempts \in Nat /\ MaxEpochs \in Nat
ASSUME SomeIssuer == Issuer # {}

VARIABLES
    visible,        \* the root file as a reader sees it
    durable,        \* the root file a power loss leaves behind
    objects,        \* digests of the roots whose objects are in the store
    bundle,         \* the owner's memory, or Closed
    flight,         \* the publication in progress, or Idle
    core,           \* the session's Core history, or NoHistory
    ticket,         \* Core's pending floor save, or NoTicket
    attempts,       \* publication attempts so far
    epoch,          \* owners so far: the bundle's owner epoch
    acked,          \* receipts answered as committed
    refused         \* commands whose caller was told they were not published

vars == << visible, durable, objects, bundle, flight, core, ticket, attempts, epoch,
           acked, refused >>

(* What is promised of the durable root.                                   *)
Published(r) == [generation |-> r.generation, history |-> r.history,
                 receipts |-> r.receipts, issuers |-> r.issuers]
Atomic == INSTANCE AtomicPublication WITH root <- Published(durable)

Issued == Atomic!Issued
Gone == Atomic!Gone
Fold(h, floor) == Atomic!Fold(h, floor)
Effect(h, e) == Atomic!Effect(h, e)
Receipt(e, generation) == Atomic!Receipt(e, generation)

NoHistory == [floor |-> 0, batches |-> << << "none" >> >>]
NoTicket == [floor |-> 0, tag |-> 0, previous |-> 0, ready |-> FALSE]
NoCommand == [issuer |-> "none"]
Closed == [open |-> FALSE]
Idle == [kind |-> "idle"]

---------------------------------------------------------------------------
(* The object store.                                                       *)

(* The objects of a root and of the two roots it replaced, which its       *)
(* recovery inventory names.                                               *)
Closure(r) == {r.sha} \cup Range(r.predecessors)

(* Fault: the committed roots are not renewed.                             *)
MarkCommitted_StaleRoots(b, r, present) ==
    [b EXCEPT !.acknowledged = present, !.can_collect = FALSE]
MarkCommitted(b, r, present) ==
    [b EXCEPT !.committed = Closure(r), !.acknowledged = present, !.can_collect = FALSE]

(* Collection takes what was in the store when the committed root was      *)
(* acknowledged and is no longer reachable from it: what a later attempt   *)
(* staged is not its to take.                                              *)
Victims(b) == b.acknowledged \ b.committed

---------------------------------------------------------------------------
(* Receipts.                                                               *)

Matches(r, e) == r.issuer = e.issuer /\ r.sequence = e.sequence

(* receipt_lookup in one bundle's own ledger; rescue records and the       *)
(* ledgers of the projects a recovered bundle came from are left out.      *)
Lookup(b, e) ==
    IF b.pending # NoCommand /\ Matches(b.pending, e)
    THEN IF b.pending = e THEN "Pending" ELSE "IdPayloadConflict"
    ELSE IF \E r \in b.receipts : Matches(r, e)
    THEN IF \E r \in b.receipts : Matches(r, e) /\ r.action = e.action
         THEN IF b.issuers[e.issuer].phase = "retired" THEN "Retired" ELSE "Committed"
         ELSE "IdPayloadConflict"
    ELSE IF b.issuers[e.issuer].phase = "issued" /\ e.sequence >= b.issuers[e.issuer].next
    THEN "Absent"
    ELSE "RetiredUnresolved"

(* Asking after a command whose receipt is held hands that receipt out.    *)
AskReceipt(e) ==
    /\ bundle # Closed /\ flight = Idle
    /\ Lookup(bundle, e) = "Committed"
    /\ acked' = acked \cup {r \in bundle.receipts : Matches(r, e)}
    /\ UNCHANGED << visible, durable, objects, bundle, flight, core, ticket, attempts,
                    epoch, refused >>

---------------------------------------------------------------------------
(* The owner.                                                              *)

(* The memory of an owner that has just read root r.  NeverAttempted and   *)
(* DefinitelyRefused differ in reports only: both are "NotPublished".      *)
Adopted(r, present) ==
    MarkCommitted(
        [open |-> TRUE, root |-> r, receipts |-> r.receipts, issuers |-> r.issuers,
         unsettled |-> FALSE, uncertain |-> FALSE, state |-> "NotPublished", tag |-> 0,
         pending |-> NoCommand, saving |-> FALSE, save |-> NoTicket, root_sha256 |-> 0,
         committed |-> {}, acknowledged |-> {}, can_collect |-> FALSE],
        r, present)

EmptyRoot ==
    [sha |-> 0, generation |-> 1, history |-> Atomic!EmptyRoot.history, receipts |-> {},
     issuers |-> Atomic!EmptyRoot.issuers, predecessors |-> << >>]

Init ==
    /\ visible = EmptyRoot /\ durable = EmptyRoot
    /\ objects = {0}
    /\ bundle = Adopted(EmptyRoot, {0})
    /\ flight = Idle
    /\ core = EmptyRoot.history
    /\ ticket = NoTicket
    /\ attempts = 0 /\ epoch = 1
    /\ acked = {} /\ refused = {}

(* The editor edits its Core at any time, also while a save is under way.  *)
CoreEdit ==
    /\ core # NoHistory
    /\ Len(core.batches) < MaxBatches
    /\ Cardinality({n \in DOMAIN core.batches : core.batches[n] = Atomic!LocalEdit}) < MaxEdits
    /\ core' = [core EXCEPT !.batches = Append(@, Atomic!LocalEdit)]
    /\ UNCHANGED << visible, durable, objects, bundle, flight, ticket, attempts, epoch,
                    acked, refused >>

---------------------------------------------------------------------------
(* The start of a publication: everything decided before the first object  *)
(* is staged.                                                              *)

(* The root that publishing history h with memory b builds.                *)
NextRoot(b, h, receipts) ==
    [sha |-> attempts + 1, generation |-> b.root.generation + 1, history |-> h,
     receipts |-> receipts, issuers |-> b.issuers,
     predecessors |-> SubSeq(<< b.root.sha >> \o b.root.predecessors, 1,
                             IF b.root.predecessors = << >> THEN 1 ELSE 2)]

Start(kind, b, h, receipts, original) ==
    /\ attempts' = attempts + 1
    /\ flight' = [kind |-> kind, step |-> "admitted", next |-> NextRoot(b, h, receipts),
                  original |-> original, issuers |-> bundle.issuers,
                  receipts |-> bundle.receipts]
    /\ bundle' = [b EXCEPT !.state = "NotPublished", !.tag = 0]

(* A history over the limit is published with its oldest batches folded,   *)
(* as few of them as will do.                                              *)
SelectHistory(h) ==
    Fold(h, IF Len(h.batches) > Retained THEN Len(h.batches) - Retained ELSE 0)

CanStart == bundle # Closed /\ flight = Idle /\ attempts < MaxAttempts

AdmitsCommand(e) ==
    /\ CanStart
    /\ Lookup(bundle, e) = "Absent"
    /\ ~bundle.unsettled /\ bundle.pending = NoCommand
    /\ e.epoch = epoch
    /\ e.before = bundle.root.history
    /\ bundle.issuers[e.issuer].phase = "issued"
    /\ bundle.issuers[e.issuer].next = e.sequence

Admitted(e) ==
    [bundle EXCEPT !.pending = e, !.issuers = Atomic!Advance(@, e.issuer)]

(* Fault: the root is published without the receipt.                       *)
WithReceipt_Left(e) == bundle.receipts
WithReceipt(e) == bundle.receipts \cup {Receipt(e, bundle.root.generation + 1)}

(* An edit or comment of an agent: executed on a candidate Core, installed *)
(* in the session's Core only once it is published.                        *)
CommandTarget(e) ==
    /\ AdmitsCommand(e) /\ e.action # "manual"
    /\ ticket = NoTicket            \* SettleOrphan came first
    /\ core # NoHistory /\ Fold(core, bundle.root.history.floor) = bundle.root.history
    /\ LET after == Effect(bundle.root.history, e)
       IN  Start("command", Admitted(e),
                 IF e.action = "comment" THEN after ELSE SelectHistory(after),
                 WithReceipt(e), core)
    /\ refused' = {r \in refused : ~Matches(r, e)}
    /\ UNCHANGED << visible, durable, objects, core, ticket, epoch, acked >>

(* A manual edit the editor has already accepted: core here is the host's  *)
(* validation shadow, which runs the edit before it is published.  The     *)
(* editor's own Core accepted it first and is never installed from it.     *)
AdmittedHistory(e) ==
    /\ AdmitsCommand(e) /\ e.action = "manual"
    /\ core = e.before
    /\ core' = Effect(core, e)
    /\ Start("manual", Admitted(e), Effect(core, e), WithReceipt(e), core)
    /\ refused' = {r \in refused : ~Matches(r, e)}
    /\ UNCHANGED << visible, durable, objects, ticket, epoch, acked >>

(* A save publishes an exported Core history.  When it folds more of the   *)
(* history than Core has, Core holds a ticket for that floor until the     *)
(* outcome is known.                                                       *)
SaveWith(b, kind) ==
    /\ ticket = NoTicket            \* SettleOrphan came first
    /\ ~bundle.unsettled            \* Reconcile came first
    /\ bundle.pending = NoCommand
    /\ core # NoHistory
    /\ LET aligned == Fold(core, bundle.root.history.floor)
           selected == SelectHistory(aligned)
       IN  /\ Len(core.batches) >= aligned.floor
           /\ ticket' = IF selected.floor > core.floor
                        THEN [NoTicket EXCEPT !.floor = selected.floor] ELSE NoTicket
           /\ Start(kind, [b EXCEPT !.saving = TRUE, !.save = ticket', !.root_sha256 = 0],
                    selected, b.receipts, core)
    /\ UNCHANGED << visible, durable, objects, core, epoch, acked, refused >>

Save == CanStart /\ SaveWith(bundle, "save")

IssueIssuer(i) ==
    /\ CanStart
    /\ bundle.issuers[i] = Atomic!Unissued
    /\ SaveWith([bundle EXCEPT !.issuers[i] = Issued], "issuers")

AcknowledgeIssuer(i, through) ==
    /\ CanStart
    /\ bundle.issuers[i].phase \in {"issued", "retired"}
    /\ through >= bundle.issuers[i].high /\ through < bundle.issuers[i].next
    /\ SaveWith([bundle EXCEPT !.issuers[i].high = through], "issuers")

(* Receipts follow their issuer into retirement; an issuer left without    *)
(* receipts loses its entry.                                               *)
RetireIssuer(i, forget) ==
    /\ CanStart
    /\ bundle.issuers[i].phase \in {"issued", "retired"}
    /\ bundle.issuers[i].high + 1 = bundle.issuers[i].next
    /\ LET kept == {r \in bundle.receipts : ~forget \/ r.issuer # i}
           entry == IF \E r \in kept : r.issuer = i
                    THEN [bundle.issuers[i] EXCEPT !.phase = "retired"]
                    ELSE Gone
       IN  SaveWith([bundle EXCEPT !.issuers[i] = entry, !.receipts = kept], "issuers")

---------------------------------------------------------------------------
(* How each operation ends.                                                *)

(* A command that failed stays pending, and the owner unsettled, until it  *)
(* is reconciled.  Its sequence is given back unless the error says that   *)
(* the outcome is unknown.                                                 *)
CommandFailed(b, told) ==
    /\ flight.kind = "command"
    /\ IF told = "unknown"
       THEN /\ bundle' = [b EXCEPT !.unsettled = TRUE]
            /\ refused' = refused
       ELSE /\ bundle' = [b EXCEPT !.unsettled = TRUE, !.issuers = flight.issuers]
            /\ refused' = refused \cup {b.pending}
    /\ UNCHANGED << core, ticket >>

(* Fault: an unknown outcome is taken for a refusal. *)
DefinitelyUnpublished_Always(b) == TRUE
(* A manual edit is taken back, in Core too, only when it is known not to  *)
(* be published.                                                           *)
DefinitelyUnpublished(b) == b.state = "NotPublished"
ManualFailed(b) ==
    /\ flight.kind = "manual"
    /\ IF DefinitelyUnpublished(b)
       THEN /\ bundle' = [b EXCEPT !.pending = NoCommand, !.issuers = flight.issuers]
            /\ core' = flight.original
            /\ refused' = refused \cup {b.pending}
       ELSE /\ bundle' = [b EXCEPT !.unsettled = TRUE]
            /\ UNCHANGED << core, refused >>
    /\ UNCHANGED ticket

(* A save that may have been published keeps its ticket for reconciliation *)
(* and any other lets it go.  A change of the issuer table is undone only  *)
(* by an owner that is still settled.                                      *)
Ready(t) == IF t = NoTicket THEN t ELSE [t EXCEPT !.ready = TRUE]
SaveFailed(b) ==
    LET retained == b.root_sha256 # 0 /\ b.unsettled
        unsettled == b.unsettled \/ b.uncertain
        undone == flight.kind = "issuers" /\ ~unsettled
    IN  /\ flight.kind \in {"save", "issuers"}
        /\ ticket' = IF retained THEN Ready(ticket) ELSE NoTicket
        /\ bundle' = [b EXCEPT !.saving = retained, !.save = ticket', !.unsettled = unsettled,
                               !.issuers = IF undone THEN flight.issuers ELSE @,
                               !.receipts = IF undone THEN flight.receipts ELSE @]
        /\ UNCHANGED << core, refused >>

(* The publisher returns an error: b is the memory it leaves, told what    *)
(* the error itself says of the outcome.                                   *)
Failed(b, told) ==
    /\ flight' = Idle
    /\ CommandFailed(b, told) \/ ManualFailed(b) \/ SaveFailed(b)
    /\ UNCHANGED acked

(* A published command is installed in Core, which fails when the editor   *)
(* changed Core meanwhile.                                                 *)
CommandPublished(b) ==
    /\ flight.kind = "command"
    /\ IF flight.original \in {core, b.root.history}
       THEN /\ bundle' = [b EXCEPT !.pending = NoCommand]
            /\ core' = IF core = flight.original THEN b.root.history ELSE core
            /\ acked' = acked \cup {r \in b.receipts : Matches(r, b.pending)}
       ELSE /\ bundle' = [b EXCEPT !.pending = NoCommand, !.unsettled = TRUE]
            /\ UNCHANGED << core, acked >>
    /\ UNCHANGED ticket

ManualPublished(b) ==
    /\ flight.kind = "manual"
    /\ bundle' = [b EXCEPT !.pending = NoCommand]
    /\ acked' = acked \cup {r \in b.receipts : Matches(r, b.pending)}
    /\ UNCHANGED << core, ticket >>

(* A save commits its ticket; Core may refuse, and then lets it go.        *)
SavePublished(b) ==
    /\ flight.kind \in {"save", "issuers"}
    /\ ticket' = NoTicket
    /\ \E commits \in {TRUE, ticket = NoTicket} :
          /\ core' = IF commits THEN Fold(core, ticket.floor) ELSE core
          /\ bundle' = [b EXCEPT !.saving = FALSE, !.save = NoTicket, !.unsettled = ~commits]
    /\ UNCHANGED acked

Succeeded(b) ==
    /\ flight' = Idle
    /\ CommandPublished(b) \/ ManualPublished(b) \/ SavePublished(b)
    /\ UNCHANGED refused

---------------------------------------------------------------------------
(* The publisher.                                                          *)

InStep(step) == bundle # Closed /\ flight # Idle /\ flight.step = step

(* The publisher's early returns before it collects: it is settled and the *)
(* root is the one the owner knows.                                        *)
PublishSettled ==
    /\ ~bundle.unsettled /\ ~bundle.uncertain
    /\ visible.sha = bundle.root.sha

(* And after it: the history continues the published one.                  *)
PublishAdmits ==
    /\ PublishSettled
    /\ Atomic!Continues(flight.next.history, bundle.root.history)

(* Collect what the last acknowledged root no longer needs, then stage the *)
(* objects of the next root and the copy of the root it replaces.          *)
Stage ==
    /\ InStep("admitted")
    /\ PublishAdmits
    /\ objects' = (objects \ Victims(bundle)) \cup {flight.next.sha}
    /\ bundle' = [bundle EXCEPT !.acknowledged = @ \ Victims(bundle), !.can_collect = FALSE]
    /\ flight' = [flight EXCEPT !.step = "staged"]
    /\ UNCHANGED << visible, durable, core, ticket, attempts, epoch, acked, refused >>

(* An early return, or staging fails: nothing was published.  Collection   *)
(* may have run, and a failed directory sync leaves the namespace          *)
(* uncertain, which the error may or may not say.                          *)
StageFails ==
    /\ InStep("admitted")
    /\ \E collected \in {FALSE, PublishSettled}, uncertain \in {bundle.uncertain, TRUE} :
          LET victims == IF collected THEN Victims(bundle) ELSE {}
          IN  /\ objects' = objects \ victims
              /\ \E told \in IF uncertain THEN {"refused", "unknown"} ELSE {"refused"} :
                    Failed([bundle EXCEPT !.can_collect = @ \/ collected,
                                          !.uncertain = uncertain,
                                          !.acknowledged = @ \ victims], told)
    /\ UNCHANGED << visible, durable, attempts, epoch >>

(* A step after the objects are staged and before the tag is set fails:    *)
(* finishing the object batch may leave the namespace uncertain.           *)
PrepareFails ==
    /\ InStep("staged")
    /\ \E uncertain \in {bundle.uncertain, TRUE} :
          \E told \in IF uncertain THEN {"refused", "unknown"} ELSE {"refused"} :
                Failed([bundle EXCEPT !.uncertain = uncertain], told)
    /\ UNCHANGED << visible, durable, objects, attempts, epoch >>

(* Core's ticket and the owner both record which root is about to be       *)
(* published, before the root file is touched.                             *)
Tagged(b) == [b EXCEPT !.tag = flight.next.sha,
                       !.root_sha256 = IF b.saving THEN flight.next.sha ELSE @,
                       !.save = IF @ = NoTicket THEN @
                                ELSE [@ EXCEPT !.tag = flight.next.sha,
                                               !.previous = bundle.root.sha]]
Tag ==
    /\ InStep("staged")
    /\ ticket' = IF ticket # NoTicket /\ bundle.save # NoTicket
                 THEN [ticket EXCEPT !.tag = flight.next.sha, !.previous = bundle.root.sha]
                 ELSE ticket
    /\ bundle' = Tagged(bundle)
    /\ flight' = [flight EXCEPT !.step = "tagged"]
    /\ UNCHANGED << visible, durable, objects, core, attempts, epoch, acked, refused >>

(* The temporary cannot be written, or the rename is refused for lack of   *)
(* permission: the root is untouched.  Removing the temporary may fail.    *)
ReplaceRefused ==
    /\ InStep("tagged")
    /\ \E uncertain \in BOOLEAN :
          Failed([bundle EXCEPT !.tag = 0, !.root_sha256 = 0, !.uncertain = uncertain],
                 "refused")
    /\ UNCHANGED << visible, durable, objects, attempts, epoch >>

UnknownOutcome(b) == [b EXCEPT !.state = "Unknown", !.unsettled = TRUE, !.uncertain = TRUE]

(* Any other rename error: the root may or may not have been replaced.     *)
RenameAmbiguous ==
    /\ InStep("tagged")
    /\ visible' \in {visible, flight.next}
    /\ Failed(UnknownOutcome(bundle), "unknown")
    /\ UNCHANGED << durable, objects, attempts, epoch >>

Rename ==
    /\ InStep("tagged")
    /\ visible' = flight.next
    /\ bundle' = [bundle EXCEPT !.uncertain = TRUE]
    /\ flight' = [flight EXCEPT !.step = "renamed"]
    /\ UNCHANGED << durable, objects, core, ticket, attempts, epoch, acked, refused >>

SyncFails ==
    /\ InStep("renamed")
    /\ Failed(UnknownOutcome(bundle), "unknown")
    /\ UNCHANGED << visible, durable, objects, attempts, epoch >>

(* Fault: the directory is not synced.                                     *)
SyncParent_Skipped ==
    /\ InStep("renamed")
    /\ bundle' = [bundle EXCEPT !.uncertain = FALSE, !.unsettled = TRUE, !.state = "Committed"]
    /\ flight' = [flight EXCEPT !.step = "synced"]
    /\ UNCHANGED << visible, durable, objects, core, ticket, attempts, epoch, acked, refused >>
(* The directory is synced: the publication is final whatever follows.     *)
SyncParent ==
    /\ InStep("renamed")
    /\ durable' = visible
    /\ bundle' = [bundle EXCEPT !.uncertain = FALSE, !.unsettled = TRUE, !.state = "Committed"]
    /\ flight' = [flight EXCEPT !.step = "synced"]
    /\ UNCHANGED << visible, objects, core, ticket, attempts, epoch, acked, refused >>

(* The owner takes over what it published.                                 *)
Installed(b) ==
    [b EXCEPT !.root = flight.next, !.receipts = flight.next.receipts,
              !.issuers = flight.next.issuers]
Finish ==
    /\ InStep("synced")
    /\ Succeeded(MarkCommitted([Installed(bundle) EXCEPT !.unsettled = FALSE],
                               flight.next, objects))
    /\ UNCHANGED << visible, durable, objects, attempts, epoch >>

(* A failure after publication: reported as unknown, never as refused.     *)
TailFails ==
    /\ InStep("synced")
    /\ \/ Failed(Installed(bundle), "unknown")
       \/ Failed([bundle EXCEPT !.state = "Unknown"], "unknown")
    /\ UNCHANGED << visible, durable, objects, attempts, epoch >>

---------------------------------------------------------------------------
(* Reconciliation.                                                         *)

(* Fault: a ticket left behind is always committed.                        *)
OwnRootObserved_Assumed(t) == TRUE
(* The tag decides what became of Core's ticket.                           *)
OwnRootObserved(t) == visible.sha = t.tag

(* The owner's own attempt is settled; one it does not hold is not its to  *)
(* settle.  A root that is neither the attempt's nor the one before it     *)
(* refuses the settlement.                                                 *)
SettleDestinationTicket ==
    IF bundle.save = NoTicket \/ ticket = NoTicket
    THEN UNCHANGED << core, ticket >>
    ELSE /\ ticket.ready
         /\ visible.sha \in {ticket.tag, ticket.previous}
         /\ ticket' = NoTicket
         /\ core' = IF OwnRootObserved(ticket) THEN Fold(core, ticket.floor) ELSE core

(* The owner reads the root, syncs the directory so that what it read is   *)
(* what a power loss leaves, and takes everything from it.                 *)
Reconciled ==
    [MarkCommitted(bundle, visible, objects) EXCEPT
        !.root = visible, !.receipts = visible.receipts, !.issuers = visible.issuers,
        !.can_collect = TRUE, !.uncertain = FALSE,
        !.state = IF bundle.tag = visible.sha /\ bundle.tag # 0 THEN "Committed"
                  ELSE IF @ = "Unknown" THEN "NotPublished" ELSE @,
        !.saving = FALSE, !.save = NoTicket, !.root_sha256 = 0, !.tag = 0,
        !.unsettled = FALSE]

CanReconcile == bundle # Closed /\ flight = Idle /\ visible.sha \in objects

Reconcile ==
    /\ CanReconcile
    /\ durable' = visible
    /\ SettleDestinationTicket
    /\ bundle' = Reconciled
    /\ UNCHANGED << visible, objects, flight, attempts, epoch, acked, refused >>

(* Reconciliation stops at an I/O error: before or after the sync, or with *)
(* the root taken over and the ticket not settled.                         *)
ReconcileFails ==
    /\ bundle # Closed /\ flight = Idle
    /\ \/ /\ durable' \in {durable, visible}
          /\ bundle' = [bundle EXCEPT !.unsettled = TRUE]
       \/ /\ CanReconcile
          /\ durable' = visible
          /\ bundle' = [Reconciled EXCEPT !.tag = bundle.tag, !.saving = bundle.saving,
                            !.save = bundle.save, !.root_sha256 = bundle.root_sha256,
                            !.unsettled = TRUE]
    /\ UNCHANGED << visible, objects, flight, core, ticket, attempts, epoch, acked, refused >>

(* The only way out of a pending command.                                  *)
ReconcileCommand ==
    /\ CanReconcile
    /\ durable' = visible
    /\ SettleDestinationTicket
    /\ bundle' = [Reconciled EXCEPT !.pending = NoCommand]
    /\ UNCHANGED << visible, objects, flight, attempts, epoch, acked, refused >>

(* ... and then Core takes over the published history.                     *)
InstallReconciledCommand ==
    /\ bundle # Closed /\ flight = Idle
    /\ core # NoHistory /\ ticket = NoTicket
    /\ durable' = visible
    /\ bundle' = [Reconciled EXCEPT !.pending = NoCommand]
    /\ core' = visible.history
    /\ UNCHANGED << visible, objects, flight, ticket, attempts, epoch, acked, refused >>

(* The first step of a save or command: a ticket an earlier owner left is  *)
(* settled by its tag alone, once the observed root is synced.             *)
SettleOrphan ==
    /\ bundle # Closed /\ flight = Idle
    /\ ticket # NoTicket /\ ticket.ready
    /\ durable' = visible
    /\ ticket' = NoTicket
    /\ core' = IF OwnRootObserved(ticket) THEN Fold(core, ticket.floor) ELSE core
    /\ UNCHANGED << visible, objects, bundle, flight, attempts, epoch, acked, refused >>

---------------------------------------------------------------------------
(* Owners come and go.                                                     *)

(* The owner is dropped while the session's Core lives on.  The store      *)
(* collects on its way out if the last publication allows it; a ticket     *)
(* that was not kept for reconciliation is released.                       *)
DropOwner ==
    /\ bundle # Closed /\ flight = Idle
    /\ objects' = IF bundle.can_collect THEN objects \ Victims(bundle) ELSE objects
    /\ ticket' = IF ticket.ready THEN ticket ELSE NoTicket
    /\ bundle' = Closed
    /\ UNCHANGED << visible, durable, flight, core, attempts, epoch, acked, refused >>

(* The process is killed, or the machine loses power and with it any       *)
(* rename that was not synced.                                             *)
Crash ==
    /\ bundle # Closed
    /\ \/ UNCHANGED << visible, durable >>
       \/ \E r \in {visible, durable} : visible' = r /\ durable' = r
    /\ bundle' = Closed /\ flight' = Idle
    /\ core' = NoHistory /\ ticket' = NoTicket
    /\ UNCHANGED << objects, attempts, epoch, acked, refused >>

(* A new owner reads and checks the whole graph of the root, takes the     *)
(* lock and syncs the root it has read.  A new session restores its Core.  *)
Open ==
    /\ bundle = Closed
    /\ epoch < MaxEpochs
    /\ visible.sha \in objects
    /\ durable' = visible
    /\ bundle' = Adopted(visible, objects)
    /\ core' = IF core = NoHistory THEN visible.history ELSE core
    /\ epoch' = epoch + 1
    /\ UNCHANGED << visible, objects, flight, ticket, attempts, acked, refused >>

---------------------------------------------------------------------------
(* A caller wrote its command against the published history or against an  *)
(* older one, here the first, and for this owner or an earlier one.        *)
SeenHistories == {visible.history, EmptyRoot.history}

Envelope ==
    [issuer : Issuer, sequence : 1 .. MaxSequence, action : Atomic!Action,
     before : SeenHistories, epoch : 1 .. epoch]

Next ==
    \/ \E e \in Envelope : CommandTarget(e)
    \/ \E e \in Envelope : AdmittedHistory(e)
    \/ \E i \in Issuer, n \in 1 .. MaxSequence, action \in Atomic!Action :
          AskReceipt([issuer |-> i, sequence |-> n, action |-> action])
    \/ Save
    \/ \E i \in Issuer :
          \/ IssueIssuer(i)
          \/ \E through \in 0 .. MaxSequence : AcknowledgeIssuer(i, through)
          \/ \E forget \in BOOLEAN : RetireIssuer(i, forget)
    \/ Stage \/ StageFails \/ PrepareFails \/ Tag
    \/ ReplaceRefused \/ RenameAmbiguous \/ Rename \/ SyncFails \/ SyncParent
    \/ Finish \/ TailFails
    \/ Reconcile \/ ReconcileFails \/ ReconcileCommand \/ InstallReconciledCommand
    \/ SettleOrphan
    \/ CoreEdit \/ DropOwner \/ Crash \/ Open

Spec == Init /\ [][Next]_vars

---------------------------------------------------------------------------
(* A receipt once answered as committed is in the root that a power loss   *)
(* leaves, unless its issuer was retired and forgotten.                    *)
AckedIsDurable ==
    \A r \in acked : r \in durable.receipts \/ durable.issuers[r.issuer] = Gone

(* A command whose caller was told that it was not published is in neither *)
(* the root a reader sees nor the one a power loss leaves, until the       *)
(* caller sends it again.                                                  *)
RefusedNeverPublished ==
    \A e \in refused : \A r \in visible.receipts \cup durable.receipts : ~Matches(r, e)

(* The objects of every root that a reader may see or a power loss may     *)
(* leave, and of the roots kept for recovery, are in the store.            *)
GraphIsPresent == Closure(visible) \cup Closure(durable) \subseteq objects

(* Core never folds a batch that the durable root still keeps, so undo     *)
(* never loses what a reopened project would have.                         *)
FloorNeverAheadOfDisk == core # NoHistory => core.floor <= durable.history.floor

(* The durable root changes by whole publications only.                    *)
ImplementsAtomicPublication == Atomic!Spec

=============================================================================
