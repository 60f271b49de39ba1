-------------------------- MODULE ManualAdmission --------------------------
(***************************************************************************)
(* ManualIngress::execute (kinewright-core actor/manual_history.rs).  A    *)
(* command runs on the live history first; the publication codec and the   *)
(* byte budgets may still refuse it afterwards.  The handler keeps no copy *)
(* of the history: CandidateDelta remembers only what the command can      *)
(* change and puts it back, and a cache of the serialised stacks is edited *)
(* in place and patched back on a refusal.                                 *)
(*                                                                         *)
(* A JsonArray is a sequence of encoded values with their end offsets; it  *)
(* is modelled as the sequence of the values.  The branch that rebuilds    *)
(* the cache after a history was installed is left out: the actor installs *)
(* none while a producer is bound.                                         *)
(***************************************************************************)
EXTENDS CoreHistory

CONSTANTS ManualCommands, MaxBatches, MaxRevision

ASSUME AdmissionConstants ==
    /\ ManualCommands \in Nat \ {0}
    /\ {MaxBatches, MaxRevision} \subseteq Nat

ASSUME NoneIsNoEntry == None \notin HistoryEntry

VARIABLES
    hist,           \* CoreState, shared with the actor
    cache,          \* HistoryJson: serialised stacks and the last identity
    next_sequence,  \* of the next publication
    pending,        \* publications not yet acknowledged
    stream          \* history variable: every publication made so far

vars == <<hist, cache, next_sequence, pending, stream>>

Identity(h) == [document |-> h.document, batches |-> h.batches,
                undo |-> h.undo, redo |-> h.redo]

Identities == [document: Doc, batches: Seq(HistoryBatch),
               undo: Seq(HistoryEntry), redo: Seq(HistoryEntry)]
Publication == [sequence: Nat \ {0}, before: Identities, after: Identities,
                batch: HistoryBatch]
HistoryJson == [batches: Seq(HistoryBatch), undo: Seq(HistoryEntry),
                redo: Seq(HistoryEntry), sha256: Identities]

(* Every variable holds a value of its Rust type.                          *)
TypeOK ==
    /\ hist \in History
    /\ cache \in HistoryJson
    /\ next_sequence \in Nat \ {0}
    /\ pending \in Seq(Publication)
    /\ stream \in Seq(Publication)

-----------------------------------------------------------------------------
(* CandidateDelta::begin.  An edit takes the redo stack out of the state;  *)
(* Undo and Redo keep only the heads of the entries they move.             *)
IsEdit(cmd) == cmd.type \notin {"Undo", "Redo"}

Begin(h, cmd) ==
    [document |-> h.document, revision |-> h.revision,
     undo_len |-> Len(h.undo), redo_len |-> Len(h.redo),
     undo_top |-> IF h.undo = << >> THEN None ELSE Last(h.undo),
     redo_top |-> IF h.redo = << >> THEN None ELSE Last(h.redo),
     op_log_len |-> Len(h.op_log), batches_len |-> Len(h.batches),
     redo |-> IF IsEdit(cmd) THEN h.redo ELSE << >>,
     exposed_key |-> IF Len(h.undo) < 2 THEN None ELSE h.undo[Len(h.undo) - 1].coalesce_key]

TakeRedo(h, cmd) == IF IsEdit(cmd) THEN [h EXCEPT !.redo = << >>] ELSE h

Truncate(s, n) == IF n < Len(s) THEN SubSeq(s, 1, n) ELSE s

(* Fault: a refused edit loses the redo stack.                             *)
RestoreEdit_DropsRedo(d, h) ==
    LET undo == Truncate(h.undo, d.undo_len) IN
    [h EXCEPT !.undo = IF undo = << >> \/ d.undo_top = None THEN undo
                       ELSE [undo EXCEPT ![Len(undo)].operations =
                                Truncate(@, Len(d.undo_top.operations))]]

(* CandidateDelta::rollback, by the kind of stack change.                  *)
RestoreEdit(d, h) ==
    LET undo == Truncate(h.undo, d.undo_len) IN
    [h EXCEPT !.redo = d.redo,
              !.undo = IF undo = << >> \/ d.undo_top = None THEN undo
                       ELSE [undo EXCEPT ![Len(undo)].operations =
                                Truncate(@, Len(d.undo_top.operations))]]

RestoreUndo(d, h) ==
    IF Len(h.undo) >= d.undo_len THEN h
    ELSE LET undo == IF h.undo = << >> THEN << >>
                     ELSE [h.undo EXCEPT ![Len(h.undo)].coalesce_key = d.exposed_key]
         IN  [h EXCEPT !.redo = Front(@),
                       !.undo = Append(undo, Entry(d.undo_top.document, Last(h.redo).operations,
                                                   d.undo_top.coalesce_key))]

RestoreRedo(d, h) ==
    IF Len(h.redo) >= d.redo_len THEN h
    ELSE [h EXCEPT !.undo = Front(@),
                   !.redo = Append(@, Entry(d.redo_top.document, Last(h.undo).operations,
                                            d.redo_top.coalesce_key))]

Rollback(d, h, cmd) ==
    LET stacks == CASE cmd.type = "Undo" -> RestoreUndo(d, h)
                    [] cmd.type = "Redo" -> RestoreRedo(d, h)
                    [] OTHER -> RestoreEdit(d, h)
    IN  [stacks EXCEPT !.document = d.document, !.revision = d.revision,
                       !.op_log = Truncate(@, d.op_log_len),
                       !.batches = Truncate(@, d.batches_len)]

-----------------------------------------------------------------------------
(* CandidateDelta::cache_prefixes: how much of each cached stack survives. *)
Minus(n, k) == IF n < k THEN 0 ELSE n - k

(* Fault: the cache keeps the entry an Undo exposed.                       *)
UndoPrefix_OneTooLong(d, h, cmd) ==
    CASE cmd.type = "Undo" -> IF Len(h.undo) < d.undo_len THEN Minus(d.undo_len, 1) ELSE d.undo_len
      [] cmd.type = "Redo" -> d.undo_len
      [] OTHER -> IF Len(h.undo) = d.undo_len THEN Minus(d.undo_len, 1) ELSE d.undo_len

UndoPrefix(d, h, cmd) ==
    CASE cmd.type = "Undo" -> IF Len(h.undo) < d.undo_len THEN Minus(d.undo_len, 2) ELSE d.undo_len
      [] cmd.type = "Redo" -> d.undo_len
      [] OTHER -> IF Len(h.undo) = d.undo_len THEN Minus(d.undo_len, 1) ELSE d.undo_len

RedoPrefix(d, h, cmd) ==
    CASE cmd.type = "Undo" -> d.redo_len
      [] cmd.type = "Redo" -> Len(h.redo)
      [] OTHER -> 0

(* JsonArray::replace_tail and the patch that undoes it.                   *)
ReplaceTail(array, prefix, tail) == SubSeq(array, 1, prefix) \o tail
Patch(array, prefix) == [prefix |-> prefix, tail |-> SubSeq(array, prefix + 1, Len(array))]
RollbackArray(array, patch) == SubSeq(array, 1, patch.prefix) \o patch.tail

From(s, prefix) == SubSeq(s, prefix + 1, Len(s))

(* HistoryJson::update with the array at which capacity runs out, if any;  *)
(* the arrays already replaced are patched back.                           *)
Update(c, h, up, rp) ==
    [c EXCEPT !.batches = ReplaceTail(@, Len(@), From(h.batches, Len(@))),
              !.undo = ReplaceTail(@, up, From(h.undo, up)),
              !.redo = ReplaceTail(@, rp, From(h.redo, rp))]

PatchBack(updated, c, up, rp) ==
    [updated EXCEPT !.batches = RollbackArray(@, Patch(c.batches, Len(c.batches))),
                    !.undo = RollbackArray(@, Patch(c.undo, up)),
                    !.redo = RollbackArray(@, Patch(c.redo, rp))]

FailedUpdate(c, h, up, at) ==
    LET batches == ReplaceTail(c.batches, Len(c.batches), From(h.batches, Len(c.batches)))
        undo == ReplaceTail(c.undo, up, From(h.undo, up))
    IN  CASE at = "batches" -> c
          [] at = "undo" -> [c EXCEPT !.batches =
                                RollbackArray(batches, Patch(c.batches, Len(c.batches)))]
          [] at = "redo" -> [c EXCEPT !.batches =
                                RollbackArray(batches, Patch(c.batches, Len(c.batches))),
                                      !.undo = RollbackArray(undo, Patch(c.undo, up))]

(* HistoryJson::identities: the history as the cache spells it.            *)
CachedIdentity(c, h) ==
    [document |-> h.document, batches |-> c.batches, undo |-> c.undo, redo |-> c.redo]

NewCache(h) ==
    [batches |-> h.batches, undo |-> h.undo, redo |-> h.redo, sha256 |-> Identity(h)]

-----------------------------------------------------------------------------
(* Fault: the first sequence number is zero.                               *)
FirstSequence_Zero == 0

FirstSequence == 1

Init ==
    /\ \E doc \in Doc :
        /\ hist = NewHistory(doc, 0)
        /\ cache = NewCache(NewHistory(doc, 0))
    /\ next_sequence = FirstSequence
    /\ pending = << >>
    /\ stream = << >>

Candidate(cmd) == Exec(TakeRedo(hist, cmd), cmd)
CandidateAccepted(cmd) == Accepts(TakeRedo(hist, cmd), CanonicalCommand(cmd))

(* The document refuses the command: the delta is undone.                  *)
RejectCommand(cmd) ==
    /\ Len(pending) < ManualCommands
    /\ ~ CandidateAccepted(cmd)
    /\ hist' = Rollback(Begin(hist, cmd), TakeRedo(hist, cmd), cmd)
    /\ UNCHANGED <<cache, next_sequence, pending, stream>>

(* The serialised history outgrows its budget while the cache is edited.   *)
RefuseCapacity(cmd, at) ==
    /\ Len(pending) < ManualCommands
    /\ CandidateAccepted(cmd)
    /\ LET d == Begin(hist, cmd)
           h == Candidate(cmd)
       IN  /\ cache' = FailedUpdate(cache, h, UndoPrefix(d, h, cmd), at)
           /\ hist' = Rollback(d, h, cmd)
    /\ UNCHANGED <<next_sequence, pending, stream>>

(* The codec or the queue's byte budget refuses the finished candidate.    *)
RefuseEncoding(cmd) ==
    /\ Len(pending) < ManualCommands
    /\ CandidateAccepted(cmd)
    /\ LET d == Begin(hist, cmd)
           h == Candidate(cmd)
           up == UndoPrefix(d, h, cmd)
           rp == RedoPrefix(d, h, cmd)
       IN  /\ cache' = PatchBack(Update(cache, h, up, rp), cache, up, rp)
           /\ hist' = Rollback(d, h, cmd)
    /\ UNCHANGED <<next_sequence, pending, stream>>

Admit(cmd) ==
    /\ Len(pending) < ManualCommands
    /\ CandidateAccepted(cmd)
    /\ Len(hist.batches) < MaxBatches
    /\ hist.revision < MaxRevision
    /\ LET d == Begin(hist, cmd)
           h == Candidate(cmd)
           updated == Update(cache, h, UndoPrefix(d, h, cmd), RedoPrefix(d, h, cmd))
           after == CachedIdentity(updated, h)
           item == [sequence |-> next_sequence, before |-> cache.sha256, after |-> after,
                    batch |-> Last(h.batches)]
       IN  /\ hist' = h
           /\ cache' = [updated EXCEPT !.sha256 = after]
           /\ pending' = Append(pending, item)
           /\ stream' = Append(stream, item)
    /\ next_sequence' = next_sequence + 1

Acknowledge ==
    /\ pending # << >>
    /\ pending' = Tail(pending)
    /\ UNCHANGED <<hist, cache, next_sequence, stream>>

Next ==
    \/ \E cmd \in JournalCommand :
        \/ RejectCommand(cmd)
        \/ \E at \in {"batches", "undo", "redo"} : RefuseCapacity(cmd, at)
        \/ RefuseEncoding(cmd)
        \/ Admit(cmd)
    \/ Acknowledge

Spec == Init /\ [][Next]_vars

-----------------------------------------------------------------------------
(* The incrementally patched cache spells exactly the live history after   *)
(* every command, accepted or refused at any point, so the identities sent *)
(* to the publisher are those of the real history.                         *)
CacheExact == cache = NewCache(hist)

(* Admission with rollback implements atomic admission.                    *)
Atomic == INSTANCE AtomicAdmission WITH hist <- hist, stream <- stream
ImplementsAtomicAdmission == Atomic!Spec

=============================================================================
