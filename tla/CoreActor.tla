----------------------------- MODULE CoreActor -----------------------------
(***************************************************************************)
(* The Core actor of kinewright-core: one thread owns the history and      *)
(* serves one message at a time (run_actor), so an action of this module   *)
(* is the whole handler of one message.  The concurrency is between its    *)
(* clients: what one of them read in an earlier turn (an accepted cut, a   *)
(* save ticket, the pending manual stream) may be stale when it comes      *)
(* back, and a save holds a history floor across its file IO while editing *)
(* goes on.                                                                *)
(*                                                                         *)
(* A handler that refuses its message and changes nothing is a message the *)
(* model does not take.  The persistence owner's proof type is the only    *)
(* type that can call the attachment operations; BindOwner fixes it.       *)
(***************************************************************************)
EXTENDS Integers, CoreHistory

CONSTANTS
    Proof,              \* persistence owners' private proof types
    Tag,                \* identities of a published root (HistorySaveTag)
    ManualCommands,     \* MANUAL_COMMANDS, the length of the manual queue
    MaxBatches,         \* bound on the accepted stream
    MaxRevision,        \* bound on the timeline revision
    MaxInstalls,        \* bound on the histories installed
    MaxFloors,          \* bound on the save tickets handed out
    MaxGenerations      \* bound on the manual permits handed out

ASSUME ActorConstants ==
    /\ None \notin Doc \cup Proof \cup Tag
    /\ Rejected \notin History \cup HistorySnapshot
    /\ ManualCommands \in Nat \ {0}
    /\ {MaxBatches, MaxRevision, MaxInstalls, MaxFloors, MaxGenerations} \subseteq Nat

VARIABLES
    \* CoreState
    hist,               \* document, revision, undo, redo, op_log, batches
    baseline,           \* the document before batches
    floor_offset,       \* accepted commands discarded below the baseline
    pending_floor,      \* the save barrier, or None
    next_floor_id,      \* the last save ticket handed out
    history_epoch,      \* bumped whenever a history is installed
    \* locals of run_actor
    owner,              \* the bound proof type, or None
    attachment,         \* Live, Frozen or Sealed
    manual,             \* the manual ingress, or None
    manual_generation,  \* the last manual permit handed out
    \* what the clients hold between two messages
    cut,                \* the last AcceptedCut or exported history, or None
    barriers,           \* HistoryFloorBarrier by ticket
    ticket,             \* the last PendingHistorySave read, or None
    outbox,             \* the manual stream a publisher read, or None
    \* history variables
    suffix,             \* hist as rebuilt from the pending floor's baseline
    read_high           \* the highest manual sequence any publisher has read

state == <<hist, baseline, floor_offset, pending_floor, next_floor_id, history_epoch>>
admission == <<owner, attachment, manual, manual_generation>>
clients == <<cut, barriers, ticket, outbox, read_high>>
vars == <<state, admission, clients, suffix>>

AttachmentState == {"Live", "Frozen", "Sealed"}
Cut == [revision: Nat, history: HistorySnapshot]
PendingFloor ==
    [id: Nat \ {0}, tag: Tag \cup {None}, ready: BOOLEAN, offset: Nat,
     discard: Nat, depth: Nat, baseline: Doc]
PendingHistorySave == [id: Nat \ {0}, tag: Tag \cup {None}, ready: BOOLEAN]
HistoryFloorBarrier == [retain: BOOLEAN, settled: BOOLEAN]
AcceptedHistory == [sequence: Nat \ {0}, predecessor: Nat, batch: HistoryBatch]
ManualIngress ==
    [generation: Nat \ {0}, next_sequence: Nat \ {0}, pending: Seq(AcceptedHistory)]
Outbox == [generation: Nat \ {0}, items: Seq(AcceptedHistory)]

(* Option::None is no value of the optional types.                         *)
ASSUME NoneIsNoValue ==
    None \notin PendingFloor \cup ManualIngress \cup Cut \cup PendingHistorySave \cup Outbox

(* Every variable holds a value of its Rust type.                          *)
TypeOK ==
    /\ hist \in History
    /\ baseline \in Doc
    /\ floor_offset \in Nat
    /\ pending_floor \in PendingFloor \cup {None}
    /\ next_floor_id \in Nat
    /\ history_epoch \in Nat
    /\ owner \in Proof \cup {None}
    /\ attachment \in AttachmentState
    /\ manual \in ManualIngress \cup {None}
    /\ manual_generation \in Nat
    /\ cut \in Cut \cup {None}
    /\ barriers \in Seq(HistoryFloorBarrier)
    /\ Len(barriers) = next_floor_id
    /\ ticket \in PendingHistorySave \cup {None}
    /\ outbox \in Outbox \cup {None}
    /\ suffix \in History
    /\ read_high \in Nat

-----------------------------------------------------------------------------
CurrentHistory == Snapshot(hist, baseline, floor_offset)
CurrentCut == [revision |-> hist.revision, history |-> CurrentHistory]

(* history_change_id, and the order in which the identities must grow.     *)
HistoryChangeId == <<hist.revision, Len(hist.batches)>>
Precedes(a, b) == a[1] < b[1] \/ (a[1] = b[1] /\ a[2] < b[2])

Save(floor) == [id |-> floor.id, tag |-> floor.tag, ready |-> floor.ready]

(* Fault: an owner outlives its seal.                                      *)
Authorized_AfterSeal(proof) == owner = proof

(* authorize_attachment *)
Authorized(proof) == attachment # "Sealed" /\ owner = proof

(* Fault: an Undo may consume the entry just below the floor.              *)
UndoBlocked_OneTooLow == pending_floor # None /\ Len(hist.undo) < pending_floor.depth

(* An Undo that would cross the pending floor is answered UndoBlockedBySave *)
(* and is not an accepted command.                                         *)
UndoBlocked == pending_floor # None /\ Len(hist.undo) <= pending_floor.depth

(* execute_actor_command accepts the command.                              *)
ActorAccepts(cmd) ==
    /\ attachment = "Live"
    /\ cmd.type = "Undo" => ~ UndoBlocked
    /\ Accepts(hist, CanonicalCommand(cmd))
    /\ Len(hist.batches) < MaxBatches
    /\ hist.revision < MaxRevision

RunCommand(cmd) ==
    /\ hist' = Exec(hist, cmd)
    /\ suffix' = Exec(suffix, cmd)
    /\ UNCHANGED <<baseline, floor_offset, pending_floor, next_floor_id, history_epoch>>

(* Fault: the installed history keeps the old baseline.                    *)
Install_OldBaseline(candidate, base, offset) ==
    /\ history_epoch < MaxInstalls
    /\ hist.revision < MaxRevision
    /\ hist' = [candidate EXCEPT !.revision = hist.revision + 1]
    /\ floor_offset' = offset
    /\ pending_floor' = None
    /\ history_epoch' = history_epoch + 1
    /\ suffix' = hist'
    /\ UNCHANGED <<baseline, next_floor_id>>

(* Fault: the installed history keeps the revision of its replay.          *)
Install_ReplayRevision(candidate, base, offset) ==
    /\ history_epoch < MaxInstalls
    /\ hist' = candidate
    /\ baseline' = base
    /\ floor_offset' = offset
    /\ pending_floor' = None
    /\ history_epoch' = history_epoch + 1
    /\ suffix' = hist'
    /\ UNCHANGED next_floor_id

(* Replace the whole history by a validated candidate: the revision and    *)
(* the epoch move on, tickets are never reused.                            *)
Install(candidate, base, offset) ==
    /\ history_epoch < MaxInstalls
    /\ hist.revision < MaxRevision
    /\ hist' = [candidate EXCEPT !.revision = hist.revision + 1]
    /\ baseline' = base
    /\ floor_offset' = offset
    /\ pending_floor' = None
    /\ history_epoch' = history_epoch + 1
    /\ suffix' = hist'
    /\ UNCHANGED next_floor_id

-----------------------------------------------------------------------------
Init ==
    /\ \E doc \in Doc :
        /\ hist = NewHistory(doc, 0)
        /\ baseline = doc
        /\ suffix = NewHistory(doc, 0)
    /\ floor_offset = 0
    /\ pending_floor = None
    /\ next_floor_id = 0
    /\ history_epoch = 0
    /\ owner = None
    /\ attachment = "Live"
    /\ manual = None
    /\ manual_generation = 0
    /\ cut = None
    /\ barriers = << >>
    /\ ticket = None
    /\ outbox = None
    /\ read_high = 0

BindOwner(proof) ==
    /\ owner \in {None, proof}
    /\ owner' = proof
    /\ UNCHANGED <<state, attachment, manual, manual_generation, clients, suffix>>

(* Fault: a plain command is accepted beside a manual producer.            *)
Command_BesideManual(cmd) ==
    /\ ActorAccepts(cmd)
    /\ RunCommand(cmd)
    /\ UNCHANGED <<admission, clients>>

(* Command and Request: refused while a manual producer is bound.          *)
Command(cmd) ==
    /\ manual = None
    /\ ActorAccepts(cmd)
    /\ RunCommand(cmd)
    /\ UNCHANGED <<admission, clients>>

(* ExportHistory: any holder of a Core may read it.                        *)
ExportHistory ==
    /\ cut' = CurrentCut
    /\ UNCHANGED <<state, admission, barriers, ticket, outbox, read_high, suffix>>

CaptureCut(proof) ==
    /\ Authorized(proof)
    /\ cut' = CurrentCut
    /\ attachment' = "Frozen"
    /\ UNCHANGED <<state, owner, manual, manual_generation,
                   barriers, ticket, outbox, read_high, suffix>>

FinishAttachment(proof, seal) ==
    /\ Authorized(proof)
    /\ cut = CurrentCut
    /\ attachment = "Frozen"
    /\ attachment' = IF seal THEN "Sealed" ELSE "Live"
    /\ UNCHANGED <<state, owner, manual, manual_generation, clients, suffix>>

-----------------------------------------------------------------------------
(* Fault: the depth of the floor counted the wrong way round.              *)
NewPendingFloor_Swapped(id, before, after) ==
    [id |-> id, tag |-> None, ready |-> FALSE, offset |-> after.floor_offset,
     discard |-> Len(before.batches) - Len(after.batches),
     depth |-> Len(after.undo) - Len(before.undo), baseline |-> after.baseline]

NewPendingFloor(id, before, after) ==
    [id |-> id, tag |-> None, ready |-> FALSE, offset |-> after.floor_offset,
     discard |-> Len(before.batches) - Len(after.batches),
     depth |-> Len(before.undo) - Len(after.undo), baseline |-> after.baseline]

(* A save begins: the floor is chosen on the cut the owner captured and    *)
(* accepted only while that cut is still the whole history.                *)
BeginFloor(proof, discard) ==
    /\ Authorized(proof)
    /\ manual = None
    /\ pending_floor = None
    /\ cut # None
    /\ cut.history = CurrentHistory
    /\ next_floor_id < MaxFloors
    /\ LET after == Floor(cut.history, discard) IN
        /\ after # Rejected
        /\ next_floor_id' = next_floor_id + 1
        /\ pending_floor' = NewPendingFloor(next_floor_id + 1, cut.history, after)
        /\ suffix' = [hist EXCEPT !.document = after.document, !.undo = after.undo,
                                  !.redo = after.redo, !.batches = after.batches]
    /\ barriers' = Append(barriers, [retain |-> FALSE, settled |-> FALSE])
    /\ UNCHANGED <<hist, baseline, floor_offset, history_epoch, admission,
                   cut, ticket, outbox, read_high>>

(* Fault: whatever floor is pending is taken for the ticket's own.         *)
HoldsFloor_AnyTicket(id) == pending_floor # None

HoldsFloor(id) == pending_floor # None /\ pending_floor.id = id

(* HistoryFloorBarrier::tag_publication, before the root is published.     *)
TagPublication(proof, id, tag) ==
    /\ Authorized(proof)
    /\ HoldsFloor(id)
    /\ ~ pending_floor.ready
    /\ pending_floor.tag \in {None, tag}
    /\ pending_floor' = [pending_floor EXCEPT !.tag = tag]
    /\ UNCHANGED <<hist, baseline, floor_offset, next_floor_id, history_epoch,
                   admission, clients, suffix>>

(* HistoryFloorBarrier::retain_until_reconcile: the outcome of the save is *)
(* unknown, so the ticket outlives its barrier.                            *)
RetainUntilReconcile(proof, id) ==
    /\ Authorized(proof)
    /\ HoldsFloor(id)
    /\ pending_floor.tag # None
    /\ pending_floor' = [pending_floor EXCEPT !.ready = TRUE]
    /\ barriers' = ReplaceAt(barriers, id, [barriers[id] EXCEPT !.retain = TRUE])
    /\ UNCHANGED <<hist, baseline, floor_offset, next_floor_id, history_epoch,
                   admission, cut, ticket, outbox, read_high, suffix>>

(* The replay that commits a floor, and the comparison it must pass.       *)
CommitCandidate ==
    Replay(NewHistory(pending_floor.baseline, 0),
           SubSeq(hist.batches, pending_floor.discard + 1, Len(hist.batches)))

CommitAgrees(candidate) ==
    /\ pending_floor.discard <= Len(hist.batches)
    /\ pending_floor.depth <= Len(hist.undo)
    /\ candidate # Rejected
    /\ candidate.document = hist.document
    /\ candidate.undo = SubSeq(hist.undo, pending_floor.depth + 1, Len(hist.undo))
    /\ candidate.redo = hist.redo

(* settle_floor.  A ticket already handed out but no longer pending is a   *)
(* late answer and succeeds without effect.  A commit whose replay differs *)
(* gives the ticket up without discarding anything (CommitInvariant).      *)
SettleFloor(id, commit) ==
    IF HoldsFloor(id) /\ commit /\ CommitAgrees(CommitCandidate)
    THEN Install(CommitCandidate, pending_floor.baseline, pending_floor.offset)
    ELSE /\ pending_floor' = IF HoldsFloor(id) THEN None ELSE pending_floor
         /\ suffix' = IF HoldsFloor(id) THEN hist ELSE suffix
         /\ UNCHANGED <<hist, baseline, floor_offset, next_floor_id, history_epoch>>

SettleFloorSucceeds(id, commit) ==
    HoldsFloor(id) /\ commit => CommitAgrees(CommitCandidate)

(* HistoryFloorBarrier::commit and release.                                *)
SettleBarrier(proof, id, commit) ==
    /\ Authorized(proof)
    /\ ~ barriers[id].settled
    /\ SettleFloor(id, commit)
    /\ barriers' = ReplaceAt(barriers, id,
                    [barriers[id] EXCEPT !.settled = SettleFloorSucceeds(id, commit)])
    /\ UNCHANGED <<admission, cut, ticket, outbox, read_high>>

(* Drop of a barrier that is neither settled nor retained releases it.     *)
(* The release of a sealed actor fails, and Drop ignores the failure.      *)
DropBarrier(proof, id) ==
    /\ owner = proof
    /\ ~ barriers[id].settled
    /\ ~ barriers[id].retain
    /\ IF Authorized(proof) THEN SettleFloor(id, FALSE) ELSE UNCHANGED <<state, suffix>>
    /\ barriers' = ReplaceAt(barriers, id, [barriers[id] EXCEPT !.settled = TRUE])
    /\ UNCHANGED <<admission, cut, ticket, outbox, read_high>>

(* PendingFloor: a fresh owner reads the ticket left by an earlier save.   *)
ReadTicket ==
    /\ pending_floor # None
    /\ ticket' = Save(pending_floor)
    /\ UNCHANGED <<state, admission, cut, barriers, outbox, read_high, suffix>>

(* settle_history_save: the ticket must still be exactly the pending one.  *)
SettleTicket(proof, commit) ==
    /\ Authorized(proof)
    /\ ticket # None
    /\ pending_floor # None
    /\ ticket = Save(pending_floor)
    /\ SettleFloor(ticket.id, commit)
    /\ UNCHANGED <<admission, clients>>

-----------------------------------------------------------------------------
(* InstallFrozen at the exact frozen cut: a floor of the cut, its recovery *)
(* close, or a checkpoint the owner validated itself.                      *)
FrozenTransition(s, discard) == IF discard = 0 THEN s ELSE Floor(s, discard)

InstallFrozen(proof, after) ==
    /\ Authorized(proof)
    /\ attachment = "Frozen"
    /\ cut = CurrentCut
    /\ pending_floor = None
    /\ after # Rejected
    /\ Len(after.batches) <= MaxBatches
    /\ LET candidate == Restore(after) IN
        /\ candidate # Rejected
        /\ Install(candidate, after.baseline, after.floor_offset)
    /\ manual' = None
    /\ cut' = [revision |-> hist'.revision, history |-> after]
    /\ UNCHANGED <<owner, attachment, manual_generation,
                   barriers, ticket, outbox, read_high>>

(* The owner names the pending manual stream it accounts for.              *)
AccountsForPending ==
    manual # None =>
        manual.pending = IF outbox = None THEN << >> ELSE outbox.items

InstallFrozenTransition(proof, discard, close) ==
    /\ cut # None
    /\ AccountsForPending
    /\ LET floored == FrozenTransition(cut.history, discard)
           after == IF close /\ floored # Rejected THEN RecoveryClose(floored) ELSE floored
       IN  InstallFrozen(proof, after)

InstallFrozenCheckpoint(proof, after) ==
    /\ manual = None
    /\ InstallFrozen(proof, after)

(* RestoreHistory, restore_history and install_checkpoint: the candidate   *)
(* comes from outside and is validated by replay before it is installed.   *)
RestoreHistory(requested, after) ==
    /\ attachment = "Live"
    /\ manual = None
    /\ pending_floor = None
    /\ owner \in {None, requested}
    /\ LET candidate == Restore(after) IN
        /\ candidate # Rejected
        /\ Install(candidate, after.baseline, after.floor_offset)
    /\ UNCHANGED <<admission, clients>>

-----------------------------------------------------------------------------
NewIngress(generation) == [generation |-> generation, next_sequence |-> 1, pending |-> << >>]

(* BindManual: a fresh permit starts an empty stream at sequence 1.        *)
BindIngress ==
    /\ manual # None => manual.pending = << >>
    /\ pending_floor = None
    /\ manual_generation < MaxGenerations
    /\ manual_generation' = manual_generation + 1
    /\ manual' = NewIngress(manual_generation + 1)
    /\ attachment' = "Live"
    /\ read_high' = 0
    /\ UNCHANGED <<state, owner, cut, barriers, ticket, outbox, suffix>>

BindManual(proof) ==
    /\ Authorized(proof)
    /\ attachment = "Live"
    /\ BindIngress

(* resume_manual: leave a freeze at exactly the cut it was taken at.       *)
ResumeManual(proof) ==
    /\ Authorized(proof)
    /\ attachment = "Frozen"
    /\ cut = CurrentCut
    /\ BindIngress

(* ManualCommand with a current permit.  The encoder and the byte budget   *)
(* may refuse what the history accepts; then nothing changes, which module *)
(* ManualAdmission shows of the rollback.                                  *)
ManualCommand(cmd) ==
    /\ manual # None
    /\ Len(manual.pending) < ManualCommands
    /\ ActorAccepts(cmd)
    /\ RunCommand(cmd)
    /\ manual' = [manual EXCEPT
                    !.next_sequence = @ + 1,
                    !.pending = Append(@, [sequence |-> manual.next_sequence,
                                           predecessor |-> manual.next_sequence - 1,
                                           batch |-> Last(hist'.batches)])]
    /\ UNCHANGED <<owner, attachment, manual_generation, clients>>

(* ManualPending: read without removing.                                   *)
ManualPending ==
    /\ manual # None
    /\ outbox' = [generation |-> manual.generation, items |-> manual.pending]
    /\ read_high' = manual.next_sequence - 1
    /\ UNCHANGED <<state, admission, cut, barriers, ticket, suffix>>

(* Fault: only the length of an acknowledgement is compared.               *)
AckMatches_LengthOnly(prefix) == Len(prefix) <= Len(manual.pending)

(* ManualAck: a publisher gives back a prefix of what it read, perhaps     *)
(* long ago.  Exactly those items leave the queue, or none does.           *)
AckMatches(prefix) == Len(prefix) <= Len(manual.pending)
                      /\ prefix = SubSeq(manual.pending, 1, Len(prefix))

ManualAck(proof, count) ==
    /\ owner = proof
    /\ manual # None
    /\ outbox # None
    /\ outbox.generation = manual.generation
    /\ count \in 1 .. Len(outbox.items)
    /\ AckMatches(SubSeq(outbox.items, 1, count))
    /\ manual' = [manual EXCEPT
                    !.pending = SubSeq(@, count + 1, Len(@))]
    /\ UNCHANGED <<state, owner, attachment, manual_generation, clients, suffix>>

-----------------------------------------------------------------------------
(* Histories offered from outside: another project's, which has not been   *)
(* edited yet, and the last cut, intact or with another document in it.    *)
Foreign == {Snapshot(NewHistory(doc, 0), doc, 0) : doc \in Doc}

Offered ==
    Foreign \cup IF cut = None THEN {}
                ELSE {[cut.history EXCEPT !.document = doc] : doc \in Doc}

Next ==
    \/ \E proof \in Proof :
        \/ BindOwner(proof)
        \/ CaptureCut(proof)
        \/ \E seal \in BOOLEAN : FinishAttachment(proof, seal)
        \/ \E discard \in 1 .. MaxBatches : BeginFloor(proof, discard)
        \/ \E id \in 1 .. next_floor_id, tag \in Tag : TagPublication(proof, id, tag)
        \/ \E id \in 1 .. next_floor_id : RetainUntilReconcile(proof, id)
        \/ \E id \in 1 .. next_floor_id, commit \in BOOLEAN : SettleBarrier(proof, id, commit)
        \/ \E id \in 1 .. next_floor_id : DropBarrier(proof, id)
        \/ \E commit \in BOOLEAN : SettleTicket(proof, commit)
        \/ \E discard \in 0 .. MaxBatches, close \in BOOLEAN :
                InstallFrozenTransition(proof, discard, close)
        \/ \E after \in Offered : InstallFrozenCheckpoint(proof, after)
        \/ BindManual(proof)
        \/ ResumeManual(proof)
        \/ \E count \in 1 .. ManualCommands : ManualAck(proof, count)
    \/ \E requested \in Proof \cup {None}, after \in Offered : RestoreHistory(requested, after)
    \/ \E cmd \in JournalCommand : Command(cmd) \/ ManualCommand(cmd)
    \/ ExportHistory
    \/ ReadTicket
    \/ ManualPending

Spec == Init /\ [][Next]_vars

-----------------------------------------------------------------------------
(* A save in flight can always commit: whatever commands were accepted     *)
(* during its IO, replaying them on the floor's baseline gives exactly the *)
(* live document, the undo entries above the floor and the redo stack, so  *)
(* settle_floor never answers CommitInvariant.                             *)
FloorCommitSound == pending_floor # None => CommitAgrees(CommitCandidate)

(* The history rebuilt step by step from the floor's baseline agrees with  *)
(* the live one above the floor, and the entry just below the floor cannot *)
(* absorb a later batch of its gesture.                                    *)
SuffixMatches == pending_floor # None => AboveFloor(hist, suffix, pending_floor.depth)

(* What export_history hands to a save or a recovery is always accepted by *)
(* restore: the command stream alone rebuilds the document and both stacks.*)
Restorable == Restore(CurrentHistory) # Rejected

(* Undo followed by redo meets the same documents: each entry's operations *)
(* lead from its document to the next one, starting at the baseline, and   *)
(* the redo stack continues from the live document.                        *)
Documents ==
    [i \in 1 .. Len(hist.undo) |-> hist.undo[i].document] \o <<hist.document>>
        \o [i \in 1 .. Len(hist.redo) |-> hist.redo[Len(hist.redo) + 1 - i].document]
Edges ==
    [i \in 1 .. Len(hist.undo) |-> hist.undo[i].operations]
        \o [i \in 1 .. Len(hist.redo) |-> hist.redo[Len(hist.redo) + 1 - i].operations]

HistoryIsAPath ==
    /\ Documents[1] = baseline
    /\ \A i \in DOMAIN Edges : ApplyBatch(Documents[i], Edges[i]) = Documents[i + 1]

(* An open gesture is one uninterrupted run of its own batches: the newest *)
(* entry, while it holds a key, consists of the operations of the batches  *)
(* accepted since the gesture began, and no undo, redo or other edit that  *)
(* moved the cursor lies between them (the comment on coalesce_key).       *)
GestureRun(key) ==
    RunFrom(hist.batches,
            CHOOSE n \in 1 .. Len(hist.batches) + 1 : StartsRun(hist.batches, key, n))

GestureIsOneRun ==
    OpenGesture(hist) =>
        Last(hist.undo).operations = FlattenSeq(GestureRun(Last(hist.undo).coalesce_key))

(* While a manual producer is bound, its pending queue is exactly the not  *)
(* yet acknowledged end of the accepted stream: nothing is accepted behind *)
(* its back, and sequence numbers are gapless.                             *)
ManualStreamExact ==
    manual # None =>
        LET count == Len(manual.pending) IN
        /\ count < manual.next_sequence
        /\ count <= Len(hist.batches)
        /\ \A i \in 1 .. count :
            /\ manual.pending[i].batch = hist.batches[Len(hist.batches) - count + i]
            /\ manual.pending[i].sequence = manual.next_sequence - 1 - count + i

(* An item leaves the manual queue only after a publisher read it: late or *)
(* repeated acknowledgements never drop an unpublished edit.               *)
AckedWasRead == manual # None => manual.next_sequence - 1 - Len(manual.pending) <= read_high

(* Two different histories never share a HistoryChangeId: each change moves *)
(* the identity forward, truncation by a floor or a restore included.      *)
ChangeIdAdvances ==
    [][CurrentHistory' # CurrentHistory => Precedes(HistoryChangeId, HistoryChangeId')]_vars

(* A save ticket is settled by its own barrier or by an owner that read    *)
(* exactly that ticket; a late answer of an earlier save leaves it alone.  *)
SettledByItsOwner ==
    [][pending_floor # None /\ (pending_floor' = None \/ pending_floor'.id # pending_floor.id) =>
        \/ barriers'[pending_floor.id].settled /\ ~ barriers[pending_floor.id].settled
        \/ ticket = Save(pending_floor)]_vars

(* The history an owner sealed for a handoff is the last one: no queued    *)
(* command, late barrier or permit changes it afterwards.                  *)
SealedIsFinal ==
    [][attachment = "Sealed" => UNCHANGED <<state, attachment, owner>>]_vars

=============================================================================
