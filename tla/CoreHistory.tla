---------------------------- MODULE CoreHistory ----------------------------
(***************************************************************************)
(* The history value owned by the Core actor (kinewright-core actor.rs):   *)
(* the live document, its undo and redo stacks and the accepted command    *)
(* stream, with the executor every path shares.  Live editing, crash       *)
(* recovery, restores and save floors all run commands through Exec, so    *)
(* this module has no state of its own: it is the transition function.     *)
(*                                                                         *)
(* Documents and operations are opaque values.  What one operation does to *)
(* a document, validation included, is the constant operator ApplyOp; how  *)
(* a batch runs its operations is ApplyBatch.  The identity effects stored *)
(* in a HistoryBatch are a function of the document and the operations, so *)
(* they add nothing to equality of histories and are left out.             *)
(***************************************************************************)
EXTENDS Naturals, SequencesExt

CONSTANTS
    Doc,                \* validated documents
    Op,                 \* operations, legacy spellings included
    Batches,            \* the operation sequences a client submits
    Key,                \* coalescing keys of gestures
    None,               \* Option::None
    Rejected,           \* the result of an operation the document refuses
    Canonical,          \* Canonical[op]: canonicalize_legacy_effect_names
    ApplyOp(_, _)       \* ApplyOp(doc, op): the new document or Rejected

CanonicalBatch(ops) == [i \in DOMAIN ops |-> Canonical[ops[i]]]

ASSUME HistoryConstants ==
    /\ Batches \subseteq Seq(Op)
    /\ None \notin Key
    /\ Rejected \notin Doc
    /\ Canonical \in [Op -> Op]

(* Renaming legacy effects yields an operation that needs no renaming.     *)
ASSUME CanonicalIdempotent == \A op \in Op : Canonical[Canonical[op]] = Canonical[op]

ASSUME BatchesCanonical == \A ops \in Batches : CanonicalBatch(ops) \in Batches

(* An operation leaves a document that validate_document accepts, or fails.*)
ASSUME ApplyOpType ==
    \A doc \in Doc, op \in Op : ApplyOp(doc, op) \in Doc \cup {Rejected}

-----------------------------------------------------------------------------
(* apply_batch_inner: an empty batch is refused; otherwise each operation  *)
(* meets the valid result of the one before it, and one failure drops the  *)
(* candidate and refuses the whole batch.                                  *)
OpStep(doc, op) == IF doc = Rejected THEN Rejected ELSE ApplyOp(doc, op)

ApplyBatch(doc, ops) ==
    LET run[n \in 0 .. Len(ops)] == IF n = 0 THEN doc ELSE OpStep(run[n - 1], ops[n])
    IN  IF ops = << >> THEN Rejected ELSE run[Len(ops)]

-----------------------------------------------------------------------------
(* JournalCommand: the history commands, as a record with unused fields    *)
(* None or << >>.  Do(op) is DoBatch(<<op>>): the two differ only in the   *)
(* wording of a rejection.  The revision-gated forms of a live command are *)
(* journalled as the plain ones.                                           *)
DoBatch(ops) == [type |-> "DoBatch", ops |-> ops, key |-> None]
DoBatchCoalesced(ops, key) == [type |-> "DoBatchCoalesced", ops |-> ops, key |-> key]
Undo == [type |-> "Undo", ops |-> << >>, key |-> None]
Redo == [type |-> "Redo", ops |-> << >>, key |-> None]

Edits == {DoBatch(ops) : ops \in Batches}
    \cup {DoBatchCoalesced(ops, key) : ops \in Batches, key \in Key}
JournalCommand == Edits \cup {Undo, Redo}

(* What is journalled is the canonicalised command.                        *)
CanonicalCommand(cmd) == [cmd EXCEPT !.ops = CanonicalBatch(@)]

HistoryEntry == [document: Doc, operations: Seq(Op), coalesce_key: Key \cup {None}]
HistoryBatch == [order: Nat, command: JournalCommand, undo_entries: Nat, redo_entries: Nat]

(* The part of CoreState that a replay rebuilds.                           *)
History == [document: Doc, revision: Nat, undo: Seq(HistoryEntry),
            redo: Seq(HistoryEntry), op_log: Seq(Op), batches: Seq(HistoryBatch)]

NewHistory(doc, revision) ==
    [document |-> doc, revision |-> revision, undo |-> << >>, redo |-> << >>,
     op_log |-> << >>, batches |-> << >>]

Entry(doc, ops, key) == [document |-> doc, operations |-> ops, coalesce_key |-> key]

-----------------------------------------------------------------------------
(* CoreState::do_operation and do_batch: one closed undo entry.            *)
PushClosed(h, ops) == Append(h.undo, Entry(h.document, ops, None))

(* A gesture reuses the newest entry when that entry holds its key.        *)
Merges(h, key) == h.undo # << >> /\ Last(h.undo).coalesce_key = key

(* CoreState::do_batch_coalesced: the entry keeps its first document.      *)
Extended(entry, ops) == [entry EXCEPT !.operations = @ \o ops]

PushCoalesced(h, ops, key) ==
    IF Merges(h, key)
    THEN ReplaceAt(h.undo, Len(h.undo), Extended(Last(h.undo), ops))
    ELSE Append(h.undo, Entry(h.document, ops, key))

(* Fault: an edit keeps the redo stack.                                    *)
Edit_KeepsRedo(h, cmd) ==
    [h EXCEPT !.document = ApplyBatch(h.document, cmd.ops),
              !.undo = IF cmd.type = "DoBatch" THEN PushClosed(h, cmd.ops)
                       ELSE PushCoalesced(h, cmd.ops, cmd.key),
              !.op_log = @ \o cmd.ops,
              !.revision = @ + 1]

Edit(h, cmd) ==
    [h EXCEPT !.document = ApplyBatch(h.document, cmd.ops),
              !.undo = IF cmd.type = "DoBatch" THEN PushClosed(h, cmd.ops)
                       ELSE PushCoalesced(h, cmd.ops, cmd.key),
              !.redo = << >>,
              !.op_log = @ \o cmd.ops,
              !.revision = @ + 1]

(* Fault: the exposed entry stays open.                                    *)
CloseExposed_LeftOpen(undo) == undo

(* A reused key must not merge across an undo boundary.                    *)
Closed(entry) == [entry EXCEPT !.coalesce_key = None]

CloseExposed(undo) ==
    IF undo = << >> THEN undo ELSE ReplaceAt(undo, Len(undo), Closed(Last(undo)))

(* CoreState::undo and CoreState::redo; an empty stack changes nothing.    *)
UndoStep(h) ==
    IF h.undo = << >> THEN h
    ELSE [h EXCEPT !.document = Last(h.undo).document,
                   !.undo = CloseExposed(Front(h.undo)),
                   !.redo = Append(@, Entry(h.document, Last(h.undo).operations, None)),
                   !.revision = @ + 1]

RedoStep(h) ==
    IF h.redo = << >> THEN h
    ELSE [h EXCEPT !.document = Last(h.redo).document,
                   !.redo = Front(h.redo),
                   !.undo = Append(@, Entry(h.document, Last(h.redo).operations, None)),
                   !.revision = @ + 1]

(* execute_command_inner answers DocumentChanged, not a rejection.         *)
Accepts(h, cmd) ==
    cmd.type \in {"Undo", "Redo"} \/ ApplyBatch(h.document, cmd.ops) # Rejected

Applied(h, cmd) ==
    CASE cmd.type = "Undo" -> UndoStep(h)
      [] cmd.type = "Redo" -> RedoStep(h)
      [] OTHER -> Edit(h, cmd)

(* execute_command: every accepted command, an Undo of an empty stack      *)
(* included, appends one batch that records the stack depths.              *)
Record(h, cmd) ==
    [h EXCEPT !.batches =
        Append(@, [order |-> Len(h.batches), command |-> cmd,
                   undo_entries |-> Len(h.undo), redo_entries |-> Len(h.redo)])]

Exec(h, cmd) ==
    LET canonical == CanonicalCommand(cmd) IN
    IF Accepts(h, canonical) THEN Record(Applied(h, canonical), canonical) ELSE h

-----------------------------------------------------------------------------
(* Replay the commands of accepted batches through the ordinary executor.  *)
(* A command the executor does not accept makes the replay fail.           *)
ReplayStep(h, batch) ==
    IF h # Rejected /\ Accepts(h, CanonicalCommand(batch.command))
    THEN Exec(h, batch.command)
    ELSE Rejected

Replay(h, batches) ==
    LET run[n \in 0 .. Len(batches)] ==
            IF n = 0 THEN h ELSE ReplayStep(run[n - 1], batches[n])
    IN  run[Len(batches)]

(* HistorySnapshot: the portable value of one history, floor included.     *)
HistorySnapshot ==
    [floor_offset: Nat, baseline: Doc, document: Doc, batches: Seq(HistoryBatch),
     undo: Seq(HistoryEntry), redo: Seq(HistoryEntry)]

Snapshot(h, baseline, floor_offset) ==
    [floor_offset |-> floor_offset, baseline |-> baseline, document |-> h.document,
     batches |-> h.batches, undo |-> h.undo, redo |-> h.redo]

(* CoreState::restore: rebuild from the baseline and demand exact equality *)
(* with the snapshot; Rejected stands for HistoryError::Corrupt.           *)
Restore(s) ==
    LET candidate == Replay(NewHistory(s.baseline, 0), s.batches) IN
    IF candidate # Rejected /\ Snapshot(candidate, s.baseline, s.floor_offset) = s
    THEN candidate ELSE Rejected

(* Fault: a floor may split an open gesture.                               *)
PrefixIsClosed_SplitsGesture(before, prefix) ==
    prefix.redo = << >> /\ Len(prefix.undo) <= Len(before.undo)

(* floor_from_prefix: the prefix must leave no redo, must not reach above  *)
(* the retained cursor and must not split a gesture that is still open.    *)
PrefixIsClosed(before, prefix) ==
    LET dropped == Len(prefix.undo) IN
    /\ prefix.redo = << >>
    /\ dropped <= Len(before.undo)
    /\ ~ (dropped = Len(before.undo) /\ dropped > 0 /\ Last(before.undo).coalesce_key # None)

FloorFromPrefix(before, discard, prefix) ==
    LET suffix == Replay(NewHistory(prefix.document, 0),
                         SubSeq(before.batches, discard + 1, Len(before.batches))) IN
    IF /\ PrefixIsClosed(before, prefix)
       /\ suffix # Rejected
       /\ suffix.document = before.document
       /\ suffix.undo = SubSeq(before.undo, Len(prefix.undo) + 1, Len(before.undo))
       /\ suffix.redo = before.redo
    THEN Snapshot(suffix, prefix.document, before.floor_offset + discard)
    ELSE Rejected

(* floor_history: discard a closed prefix of the accepted stream, so that  *)
(* the document it produced becomes the baseline.                          *)
Floor(before, discard) ==
    LET prefix == Replay(NewHistory(before.baseline, 0), SubSeq(before.batches, 1, discard)) IN
    IF discard \in 1 .. Len(before.batches) /\ Restore(before) # Rejected /\ prefix # Rejected
    THEN FloorFromPrefix(before, discard, prefix)
    ELSE Rejected

(* HistoryTransition::recovery_close: close the final gesture with an Undo *)
(* and a Redo, which must leave the document and the stacks as they were.  *)
OpenGesture(s) == s.undo # << >> /\ Last(s.undo).coalesce_key # None

RecoveryClose(before) ==
    LET candidate == Restore(before)
        closed == IF OpenGesture(before) THEN Exec(Exec(candidate, Undo), Redo) ELSE candidate
        Operations(undo) == [i \in DOMAIN undo |-> undo[i].operations]
    IN  IF /\ candidate # Rejected
           /\ OpenGesture(before) => before.redo = << >>
           /\ closed.document = before.document
           /\ FlattenSeq(Operations(closed.undo)) = FlattenSeq(Operations(before.undo))
           /\ Len(closed.undo) = Len(before.undo)
           /\ closed.redo = before.redo
        THEN Snapshot(closed, before.baseline, before.floor_offset)
        ELSE Rejected

-----------------------------------------------------------------------------
(* g is the history h as rebuilt above a floor that hides the lowest depth *)
(* undo entries: same document and redo stack, the undo entries above the  *)
(* floor, and an entry just below it that no later batch can extend.       *)
AboveFloor(h, g, depth) ==
    /\ depth <= Len(h.undo)
    /\ g.document = h.document
    /\ g.undo = SubSeq(h.undo, depth + 1, Len(h.undo))
    /\ g.redo = h.redo
    /\ depth > 0 /\ Len(h.undo) = depth => Last(h.undo).coalesce_key = None

(* A batch that leaves the newest entry open for key: one of the gesture,  *)
(* or a Redo, which finds nothing to redo while a gesture is open.         *)
KeepsCursor(batch, key) ==
    \/ batch.command.type = "DoBatchCoalesced" /\ batch.command.key = key
    \/ batch.command.type = "Redo"

(* The longest end of the stream that keeps the cursor starts at batch n;  *)
(* the operations of the stream from there on, batch by batch.             *)
StartsRun(batches, key, n) ==
    /\ n \in 1 .. Len(batches) + 1
    /\ \A i \in n .. Len(batches) : KeepsCursor(batches[i], key)
    /\ n = 1 \/ ~ KeepsCursor(batches[n - 1], key)

RunFrom(batches, n) ==
    [i \in 1 .. Len(batches) + 1 - n |-> batches[n + i - 1].command.ops]

=============================================================================
