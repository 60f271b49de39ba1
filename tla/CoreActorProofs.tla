-------------------------- MODULE CoreActorProofs --------------------------
(***************************************************************************)
(* Theorems about the Core actor, for every set of documents, operations,  *)
(* keys and proofs and every bound.                                        *)
(*                                                                         *)
(* TypeOK /\ SuffixMatches carries type correctness, the suffix behind a   *)
(* floor and the order of history identities.  Rebuilt and SuffixRebuilt   *)
(* say that the accepted stream, and the part of it above a floor, replay  *)
(* to what is live: from them a snapshot is restorable and a floor in      *)
(* flight can commit, and the live stacks are a path whose open entry is   *)
(* one gesture.  TicketInOrder and FrozenIsOwned say which tickets         *)
(* exist and who froze the history, for settling and sealing.  ManualInv   *)
(* relates the manual producer's queue to the stream.                      *)
(***************************************************************************)
EXTENDS CoreActor, CoreHistoryProofs

(* A floor that is not refused is a snapshot with the live document, the   *)
(* undo entries above some closed prefix and the live redo stack           *)
(* (floor_from_prefix), and it is the replay of the retained stream on the *)
(* floor's baseline.                                                       *)
LEMMA FloorType ==
    ASSUME NEW before \in HistorySnapshot, NEW discard \in Nat,
           Floor(before, discard) # Rejected
    PROVE  /\ Floor(before, discard) \in HistorySnapshot
           /\ discard <= Len(before.batches)
           /\ Len(Floor(before, discard).batches) = Len(before.batches) - discard
           /\ \E prefix \in History :
                /\ PrefixIsClosed(before, prefix)
                /\ Floor(before, discard).document = before.document
                /\ Floor(before, discard).undo =
                        SubSeq(before.undo, Len(prefix.undo) + 1, Len(before.undo))
                /\ Floor(before, discard).redo = before.redo
           /\ Rebuilds(Floor(before, discard), Floor(before, discard).baseline,
                       SubSeq(before.batches, discard + 1, Len(before.batches)))
<1> DEFINE prefix == Replay(NewHistory(before.baseline, 0), SubSeq(before.batches, 1, discard))
           tail == SubSeq(before.batches, discard + 1, Len(before.batches))
           suffix_ == Replay(NewHistory(prefix.document, 0), tail)
<1>1. /\ prefix # Rejected /\ discard \in 1 .. Len(before.batches)
      /\ Floor(before, discard) = FloorFromPrefix(before, discard, prefix)
  BY DEF Floor
<1>2. /\ before.batches \in Seq(HistoryBatch) /\ Len(before.batches) \in Nat
      /\ before.baseline \in Doc /\ before.floor_offset \in Nat
      /\ discard \in 0 .. Len(before.batches)
  BY <1>1, LenProperties DEF HistorySnapshot
<1>3. prefix \in History
  <2>1. SubSeq(before.batches, 1, discard) \in Seq(HistoryBatch)
    BY <1>2, PrefixLemma
  <2> QED
    BY <1>1, <1>2, <2>1, ReplayType
<1>4. /\ PrefixIsClosed(before, prefix)
      /\ suffix_ # Rejected
      /\ suffix_.document = before.document
      /\ suffix_.undo = SubSeq(before.undo, Len(prefix.undo) + 1, Len(before.undo))
      /\ suffix_.redo = before.redo
      /\ Floor(before, discard) = Snapshot(suffix_, prefix.document, before.floor_offset + discard)
  BY <1>1 DEF FloorFromPrefix
<1>5. prefix.document \in Doc /\ before.floor_offset + discard \in Nat
  BY <1>2, <1>3 DEF History
<1>6. tail \in Seq(HistoryBatch) /\ Len(tail) = Len(before.batches) - discard
  BY <1>2, SuffixLemma
<1> HIDE DEF prefix, tail
<1>7. suffix_ \in History /\ Len(suffix_.batches) = Len(tail)
  BY <1>4, <1>5, <1>6, ReplayType
<1> HIDE DEF suffix_
<1>8. Floor(before, discard) \in HistorySnapshot
  BY <1>4, <1>5, <1>7, SnapshotType
<1>9. /\ Floor(before, discard).document = suffix_.document
      /\ Floor(before, discard).undo = suffix_.undo
      /\ Floor(before, discard).redo = suffix_.redo
      /\ Floor(before, discard).batches = suffix_.batches
      /\ Floor(before, discard).baseline = prefix.document
  BY <1>4 DEF Snapshot
<1>10. SameStacks(suffix_, Floor(before, discard))
  BY <1>9 DEF SameStacks
<1>11. Rebuilds(Floor(before, discard), Floor(before, discard).baseline,
                SubSeq(before.batches, discard + 1, Len(before.batches)))
  BY <1>4, <1>7, <1>9, <1>10 DEF Rebuilds, suffix_, tail
<1>12. /\ Floor(before, discard).document = before.document
       /\ Floor(before, discard).undo = SubSeq(before.undo, Len(prefix.undo) + 1, Len(before.undo))
       /\ Floor(before, discard).redo = before.redo
  BY <1>4, <1>9
<1>13. Len(Floor(before, discard).batches) = Len(before.batches) - discard
  BY <1>6, <1>7, <1>9
<1>14. discard <= Len(before.batches)
  BY <1>2
<1> QED
  BY <1>3, <1>4, <1>8, <1>11, <1>12, <1>13, <1>14

(* A recovery close that is not refused is a snapshot.                     *)
LEMMA RecoveryCloseType ==
    ASSUME NEW before \in HistorySnapshot, RecoveryClose(before) # Rejected
    PROVE  RecoveryClose(before) \in HistorySnapshot
<1> DEFINE candidate == Restore(before)
           closed == IF OpenGesture(before) THEN Exec(Exec(candidate, Undo), Redo) ELSE candidate
<1>1. /\ candidate # Rejected
      /\ RecoveryClose(before) = Snapshot(closed, before.baseline, before.floor_offset)
  BY DEF RecoveryClose
<1>2. candidate \in History
  BY <1>1, RestoreType
<1>3. Undo \in JournalCommand /\ Redo \in JournalCommand
  BY DEF JournalCommand
<1> HIDE DEF candidate
<1>4. closed \in History
  BY <1>2, <1>3, ExecType
<1> HIDE DEF closed
<1>5. before.baseline \in Doc /\ before.floor_offset \in Nat
  BY DEF HistorySnapshot
<1> QED
  BY <1>1, <1>4, <1>5, SnapshotType

(* The fields of a snapshot.                                               *)
LEMMA SnapshotFields ==
    ASSUME NEW s \in HistorySnapshot
    PROVE  /\ s.baseline \in Doc /\ s.document \in Doc /\ s.floor_offset \in Nat
           /\ s.undo \in Seq(HistoryEntry) /\ s.redo \in Seq(HistoryEntry)
           /\ s.batches \in Seq(HistoryBatch)
BY DEF HistorySnapshot

(* What CaptureCut and ExportHistory hand out is a snapshot.               *)
LEMMA CurrentCutType ==
    ASSUME TypeOK
    PROVE  CurrentHistory \in HistorySnapshot /\ CurrentCut \in Cut
<1>1. CurrentHistory \in HistorySnapshot
  BY SnapshotType DEF TypeOK, CurrentHistory
<1> QED
  BY <1>1 DEF TypeOK, CurrentCut, Cut, History

(* Installing a history keeps the types, gives up the pending floor and    *)
(* raises the revision by one.                                             *)
LEMMA InstallType ==
    ASSUME TypeOK, NEW candidate \in History, NEW base \in Doc, NEW offset \in Nat,
           Install(candidate, base, offset)
    PROVE  /\ hist' \in History /\ suffix' \in History /\ baseline' \in Doc
           /\ floor_offset' \in Nat /\ pending_floor' = None
           /\ history_epoch' \in Nat /\ next_floor_id' = next_floor_id
           /\ hist'.revision = hist.revision + 1
<1>1. hist.revision + 1 \in Nat /\ history_epoch + 1 \in Nat
  BY SMTT(60) DEF TypeOK, History
<1>2. hist' \in History
  BY <1>1 DEF Install, History
<1>3. hist'.revision = hist.revision + 1
  BY DEF Install, History
<1> QED
  BY <1>1, <1>2, <1>3 DEF Install

(* An accepted command keeps the history and the ghost suffix histories.   *)
LEMMA RunCommandType ==
    ASSUME TypeOK, NEW cmd \in JournalCommand, RunCommand(cmd)
    PROVE  hist' \in History /\ suffix' \in History
BY ExecType DEF TypeOK, RunCommand

(* A fresh Core satisfies TypeOK.                                          *)
LEMMA InitTypeOK == Init => TypeOK
<1> SUFFICES ASSUME Init PROVE TypeOK
  OBVIOUS
<1>1. PICK doc \in Doc : hist = NewHistory(doc, 0) /\ baseline = doc /\ suffix = NewHistory(doc, 0)
  BY DEF Init
<1>2. hist \in History /\ suffix \in History
  BY <1>1, NewHistoryType
<1>3. barriers \in Seq(HistoryFloorBarrier) /\ Len(barriers) = next_floor_id
  BY EmptySeq DEF Init
<1> QED
  BY <1>1, <1>2, <1>3 DEF Init, TypeOK, AttachmentState

(* Every ticket handed out has a barrier.                                  *)
LEMMA BarrierElement ==
    ASSUME TypeOK, NEW id \in 1 .. next_floor_id
    PROVE  barriers[id] \in HistoryFloorBarrier
<1>1. barriers \in Seq(HistoryFloorBarrier) /\ id \in 1 .. Len(barriers)
  BY DEF TypeOK
<1> QED
  BY <1>1, ElementOfSeq

(* Updating one barrier keeps the barriers.                                *)
LEMMA BarrierType ==
    ASSUME TypeOK, NEW id \in 1 .. next_floor_id, NEW b \in HistoryFloorBarrier
    PROVE  /\ ReplaceAt(barriers, id, b) \in Seq(HistoryFloorBarrier)
           /\ Len(ReplaceAt(barriers, id, b)) = next_floor_id
<1>1. /\ barriers \in Seq(HistoryFloorBarrier)
      /\ id \in 1 .. Len(barriers)
      /\ Len(barriers) = next_floor_id
  BY DEF TypeOK
<1> QED
  BY <1>1, ExceptSeq DEF ReplaceAt

(* A floor that may be committed is a history.                             *)
LEMMA CommitCandidateType ==
    ASSUME TypeOK, pending_floor # None, CommitAgrees(CommitCandidate)
    PROVE  CommitCandidate \in History
<1>1. /\ hist.batches \in Seq(HistoryBatch) /\ Len(hist.batches) \in Nat
      /\ pending_floor.baseline \in Doc /\ pending_floor.discard \in Nat
  BY LenProperties DEF TypeOK, History, PendingFloor
<1>2. pending_floor.discard \in 0 .. Len(hist.batches) /\ CommitCandidate # Rejected
  BY <1>1 DEF CommitAgrees
<1>3. SubSeq(hist.batches, pending_floor.discard + 1, Len(hist.batches)) \in Seq(HistoryBatch)
  BY <1>1, <1>2, SuffixLemma
<1> QED
  BY <1>1, <1>2, <1>3, ReplayType DEF CommitCandidate

(* settle_floor keeps the types, whether it commits, releases, or is late. *)
LEMMA SettleFloorType ==
    ASSUME TypeOK, NEW id, NEW commit \in BOOLEAN, SettleFloor(id, commit)
    PROVE  /\ hist' \in History /\ suffix' \in History /\ baseline' \in Doc
           /\ floor_offset' \in Nat /\ pending_floor' \in PendingFloor \cup {None}
           /\ history_epoch' \in Nat /\ next_floor_id' = next_floor_id
<1>1. CASE HoldsFloor(id) /\ commit /\ CommitAgrees(CommitCandidate)
  <2>1. Install(CommitCandidate, pending_floor.baseline, pending_floor.offset)
    BY <1>1 DEF SettleFloor
  <2>2. CommitCandidate \in History
    BY <1>1, CommitCandidateType DEF HoldsFloor
  <2>3. pending_floor.baseline \in Doc /\ pending_floor.offset \in Nat
    BY <1>1 DEF TypeOK, HoldsFloor, PendingFloor
  <2> QED
    BY <2>1, <2>2, <2>3, InstallType
<1>2. CASE ~ (HoldsFloor(id) /\ commit /\ CommitAgrees(CommitCandidate))
  BY <1>2 DEF SettleFloor, TypeOK
<1> QED
  BY <1>1, <1>2

(* begin_floor accepts only a floor above which the live history and the   *)
(* rebuilt one agree.                                                      *)
LEMMA BeginFloorFacts ==
    ASSUME TypeOK, NEW proof \in Proof, NEW discard \in 1 .. MaxBatches,
           BeginFloor(proof, discard)
    PROVE  /\ suffix' \in History
           /\ pending_floor' \in PendingFloor
           /\ AboveFloor(hist, suffix', pending_floor'.depth)
           /\ pending_floor'.discard \in 0 .. Len(hist.batches)
           /\ Rebuilds(suffix', pending_floor'.baseline,
                       SubSeq(hist.batches, pending_floor'.discard + 1, Len(hist.batches)))
<1> DEFINE before == CurrentHistory
           after == Floor(before, discard)
<1>1. /\ cut.history = before /\ after # Rejected
      /\ next_floor_id' = next_floor_id + 1
      /\ pending_floor' =
            [id |-> next_floor_id + 1, tag |-> None, ready |-> FALSE,
             offset |-> after.floor_offset,
             discard |-> Len(before.batches) - Len(after.batches),
             depth |-> Len(before.undo) - Len(after.undo),
             baseline |-> after.baseline]
      /\ suffix' = [hist EXCEPT !.document = after.document, !.undo = after.undo,
                                !.redo = after.redo, !.batches = after.batches]
  BY DEF BeginFloor, NewPendingFloor
<1>2. discard \in Nat /\ before \in HistorySnapshot
  BY CurrentCutType, ActorConstants
<1>3. before.undo = hist.undo /\ before.document = hist.document /\ before.redo = hist.redo
  BY DEF CurrentHistory, Snapshot
<1> HIDE DEF before
<1>4. after \in HistorySnapshot
  BY <1>1, <1>2, FloorType
<1>5. PICK prefix \in History :
        /\ PrefixIsClosed(before, prefix)
        /\ after.document = before.document
        /\ after.undo = SubSeq(before.undo, Len(prefix.undo) + 1, Len(before.undo))
        /\ after.redo = before.redo
  BY <1>1, <1>2, FloorType
<1> HIDE DEF after
<1>6. /\ hist.undo \in Seq(HistoryEntry) /\ Len(hist.undo) \in Nat
      /\ Len(prefix.undo) \in 0 .. Len(hist.undo)
  <2>1. hist.undo \in Seq(HistoryEntry) /\ prefix.undo \in Seq(HistoryEntry)
    BY DEF TypeOK, History
  <2>2. Len(hist.undo) \in Nat /\ Len(prefix.undo) \in Nat
    BY <2>1, LenProperties
  <2> QED
    BY <1>3, <1>5, <2>1, <2>2 DEF PrefixIsClosed
<1>7. Len(after.undo) = Len(hist.undo) - Len(prefix.undo)
  <2>1. after.undo = SubSeq(hist.undo, Len(prefix.undo) + 1, Len(hist.undo))
    BY <1>3, <1>5
  <2>2. Len(SubSeq(hist.undo, Len(prefix.undo) + 1, Len(hist.undo)))
            = Len(hist.undo) - Len(prefix.undo)
    BY <1>6, SuffixLemma
  <2> QED
    BY <2>1, <2>2
<1>8. Len(before.undo) - Len(after.undo) = Len(prefix.undo)
  BY <1>3, <1>6, <1>7
<1>9. Len(before.batches) - Len(after.batches) = discard
  <2>1. before.batches \in Seq(HistoryBatch) /\ Len(before.batches) \in Nat
    BY <1>2, SnapshotFields, LenProperties
  <2>2. Len(after.batches) = Len(before.batches) - discard
    BY <1>1, <1>2, FloorType DEF after
  <2> QED
    BY <1>2, <2>1, <2>2
<1>10. pending_floor' \in PendingFloor
  <2>1. next_floor_id + 1 \in Nat \ {0}
    BY DEF TypeOK
  <2>2. after.floor_offset \in Nat /\ after.baseline \in Doc
    BY <1>4, SnapshotFields
  <2>3. Len(before.batches) - Len(after.batches) \in Nat
    BY <1>2, <1>9
  <2>4. Len(before.undo) - Len(after.undo) \in Nat
    <3>1. Len(prefix.undo) \in Nat
      BY <1>6
    <3> QED
      BY <1>8, <3>1
  <2>5. ASSUME NEW a \in Nat \ {0}, NEW b \in Nat, NEW c \in Nat, NEW d \in Nat, NEW e \in Doc
        PROVE  [id |-> a, tag |-> None, ready |-> FALSE, offset |-> b, discard |-> c,
                depth |-> d, baseline |-> e] \in PendingFloor
    BY DEF PendingFloor
  <2> QED
    BY <1>1, <2>1, <2>2, <2>3, <2>4, <2>5
<1>11. suffix' \in History
  <2>1. /\ after.document \in Doc /\ after.undo \in Seq(HistoryEntry)
        /\ after.redo \in Seq(HistoryEntry) /\ after.batches \in Seq(HistoryBatch)
    BY <1>4, SnapshotFields
  <2> QED
    BY <1>1, <2>1 DEF TypeOK, History
<1>12. AboveFloor(hist, suffix', Len(prefix.undo))
  <2>1. suffix'.document = after.document /\ suffix'.undo = after.undo /\ suffix'.redo = after.redo
    BY <1>1 DEF TypeOK, History
  <2>2. ASSUME Len(prefix.undo) > 0, Len(hist.undo) = Len(prefix.undo)
        PROVE  Last(hist.undo).coalesce_key = None
    BY <1>3, <1>5, <2>2 DEF PrefixIsClosed
  <2> QED
    BY <1>3, <1>5, <1>6, <2>1, <2>2 DEF AboveFloor
<1>13. pending_floor'.depth = Len(prefix.undo)
  BY <1>1, <1>8
<1>14. /\ pending_floor'.discard = discard
       /\ pending_floor'.baseline = after.baseline
  BY <1>1, <1>9
<1>15. /\ before.batches = hist.batches
       /\ discard \in 0 .. Len(hist.batches)
  <2>1. before.batches = hist.batches
    BY DEF before, CurrentHistory, Snapshot
  <2>2. discard <= Len(before.batches)
    BY <1>1, <1>2, FloorType DEF after
  <2>3. hist.batches \in Seq(HistoryBatch) /\ Len(hist.batches) \in Nat
    BY LenProperties DEF TypeOK, History
  <2> QED
    BY <1>2, <2>1, <2>2, <2>3
<1>16. Rebuilds(after, after.baseline, SubSeq(before.batches, discard + 1, Len(before.batches)))
  BY <1>1, <1>2, FloorType DEF after
<1>17. suffix'.document = after.document /\ suffix'.undo = after.undo /\ suffix'.redo = after.redo
  BY <1>1 DEF TypeOK, History
<1>18. Rebuilds(suffix', after.baseline, SubSeq(hist.batches, discard + 1, Len(hist.batches)))
  BY <1>15, <1>16, <1>17 DEF Rebuilds, SameStacks
<1> QED
  BY <1>10, <1>11, <1>12, <1>13, <1>14, <1>15, <1>18

(* A history offered from outside is a snapshot.                           *)
LEMMA OfferedType ==
    ASSUME TypeOK, NEW after \in Offered
    PROVE  after \in HistorySnapshot
<1>1. ASSUME NEW doc \in Doc
      PROVE  Snapshot(NewHistory(doc, 0), doc, 0) \in HistorySnapshot
  <2>1. NewHistory(doc, 0) \in History
    BY NewHistoryType
  <2> QED
    BY <2>1 DEF Snapshot, HistorySnapshot, History
<1>2. CASE after \in Foreign
  BY <1>1, <1>2 DEF Foreign
<1>3. CASE after \notin Foreign
  BY <1>3, ZenonT(60) DEF Offered, TypeOK, Cut, HistorySnapshot
<1> QED
  BY <1>2, <1>3

(* What an owner installs at the frozen cut is a snapshot: the cut itself, *)
(* a floor of it, or the recovery close of either.                         *)
LEMMA TransitionType ==
    ASSUME TypeOK, NEW proof \in Proof, NEW discard \in 0 .. MaxBatches,
           NEW close \in BOOLEAN, InstallFrozenTransition(proof, discard, close)
    PROVE  \E after \in HistorySnapshot : InstallFrozen(proof, after)
<1> DEFINE floored == FrozenTransition(cut.history, discard)
           after == IF close /\ floored # Rejected THEN RecoveryClose(floored) ELSE floored
<1>1. InstallFrozen(proof, after) /\ after # Rejected /\ cut # None
  BY DEF InstallFrozenTransition, InstallFrozen
<1>2. cut.history \in HistorySnapshot /\ discard \in Nat
  BY <1>1, ActorConstants DEF TypeOK, Cut
<1>3. ASSUME floored # Rejected PROVE floored \in HistorySnapshot
  BY <1>2, <1>3, FloorType DEF FrozenTransition
<1>4. after \in HistorySnapshot
  BY <1>1, <1>3, RecoveryCloseType
<1> HIDE DEF after
<1> QED
  BY <1>1, <1>4

(* InstallFrozen keeps the types, for a transition and for a checkpoint.   *)
LEMMA InstallFrozenType ==
    ASSUME TypeOK, NEW proof \in Proof, NEW after \in HistorySnapshot,
           InstallFrozen(proof, after)
    PROVE  TypeOK'
<1>1. Restore(after) # Rejected /\ Install(Restore(after), after.baseline, after.floor_offset)
  BY DEF InstallFrozen
<1>2. Restore(after) \in History
  BY <1>1, RestoreType
<1>3. after.baseline \in Doc /\ after.floor_offset \in Nat
  BY SnapshotFields
<1>4. /\ hist' \in History /\ suffix' \in History /\ baseline' \in Doc
      /\ floor_offset' \in Nat /\ pending_floor' = None
      /\ history_epoch' \in Nat /\ next_floor_id' = next_floor_id
  BY <1>1, <1>2, <1>3, InstallType
<1>5. cut' \in Cut
  <2>1. hist'.revision \in Nat
    BY <1>4 DEF History
  <2>2. cut' = [revision |-> hist'.revision, history |-> after]
    BY DEF InstallFrozen
  <2> QED
    BY <2>1, <2>2 DEF Cut
<1>6. manual' = None /\ UNCHANGED <<owner, attachment, manual_generation,
                                    barriers, ticket, outbox, read_high>>
  BY DEF InstallFrozen
<1> QED
  BY <1>4, <1>5, <1>6 DEF TypeOK

(* Binding a manual producer keeps the types.                              *)
LEMMA BindIngressType ==
    ASSUME TypeOK, BindIngress
    PROVE  TypeOK'
<1>1. manual_generation + 1 \in Nat \ {0}
  BY DEF TypeOK
<1>2. << >> \in Seq(AcceptedHistory)
  BY EmptySeq
<1>3. manual' \in ManualIngress /\ manual_generation' \in Nat
  BY <1>1, <1>2 DEF BindIngress, NewIngress, ManualIngress
<1>4. attachment' \in AttachmentState /\ read_high' \in Nat
  BY DEF BindIngress, AttachmentState
<1>5. UNCHANGED <<hist, baseline, floor_offset, pending_floor, next_floor_id, history_epoch,
                  owner, cut, barriers, ticket, outbox, suffix>>
  BY DEF BindIngress, state
<1> QED
  BY <1>3, <1>4, <1>5 DEF TypeOK

(* A manual command keeps the types: the item it queues carries the batch  *)
(* just recorded.                                                          *)
LEMMA ManualCommandType ==
    ASSUME TypeOK, NEW cmd \in JournalCommand, ManualCommand(cmd)
    PROVE  TypeOK'
<1>1. hist' \in History /\ suffix' \in History
  BY RunCommandType DEF ManualCommand
<1>2. manual \in ManualIngress
  BY DEF ManualCommand, TypeOK
<1> DEFINE item == [sequence |-> manual.next_sequence, predecessor |-> manual.next_sequence - 1,
                    batch |-> Last(hist'.batches)]
<1>3. Last(hist'.batches) \in HistoryBatch
  <2> DEFINE c == CanonicalCommand(cmd)
  <2>1. c \in JournalCommand
    BY CanonicalCommandType
  <2>2. Accepts(hist, c) /\ hist \in History
    BY DEF ManualCommand, ActorAccepts, TypeOK
  <2>3. Applied(hist, c) \in History
    BY <2>1, <2>2, AppliedType
  <2>4. hist' = Record(Applied(hist, c), c)
    BY <2>2 DEF ManualCommand, RunCommand, Exec
  <2> QED
    BY <2>1, <2>3, <2>4, RecordType
<1>4. item \in AcceptedHistory
  <2>1. manual.next_sequence \in Nat \ {0} /\ manual.next_sequence - 1 \in Nat
    BY <1>2 DEF ManualIngress
  <2> QED
    BY <1>3, <2>1 DEF AcceptedHistory
<1>5. manual' = [manual EXCEPT !.next_sequence = @ + 1, !.pending = Append(@, item)]
  BY DEF ManualCommand
<1> HIDE DEF item
<1>6. Append(manual.pending, item) \in Seq(AcceptedHistory)
  BY <1>2, <1>4, AppendProperties DEF ManualIngress
<1>7. manual.next_sequence + 1 \in Nat \ {0}
  BY <1>2 DEF ManualIngress
<1>8. manual' \in ManualIngress
  BY <1>2, <1>5, <1>6, <1>7 DEF ManualIngress
<1>9. UNCHANGED <<baseline, floor_offset, pending_floor, next_floor_id, history_epoch,
                  owner, attachment, manual_generation, cut, barriers, ticket, outbox, read_high>>
  BY DEF ManualCommand, RunCommand, clients
<1> QED
  BY <1>1, <1>8, <1>9 DEF TypeOK

(* Every message handler of run_actor keeps TypeOK.                        *)
LEMMA NextTypeOK == TypeOK /\ [Next]_vars => TypeOK'
<1> SUFFICES ASSUME TypeOK, [Next]_vars PROVE TypeOK'
  OBVIOUS
<1> USE DEF state, admission, clients
<1>1. ASSUME NEW proof \in Proof, BindOwner(proof) PROVE TypeOK'
  BY <1>1 DEF BindOwner, TypeOK
<1>2. ASSUME NEW proof \in Proof, CaptureCut(proof) PROVE TypeOK'
  BY <1>2, CurrentCutType DEF CaptureCut, TypeOK, AttachmentState
<1>3. ASSUME NEW proof \in Proof, NEW seal \in BOOLEAN, FinishAttachment(proof, seal) PROVE TypeOK'
  BY <1>3 DEF FinishAttachment, TypeOK, AttachmentState
<1>4. ASSUME NEW proof \in Proof, NEW discard \in 1 .. MaxBatches, BeginFloor(proof, discard)
      PROVE  TypeOK'
  <2>1. suffix' \in History /\ pending_floor' \in PendingFloor
    BY <1>4, BeginFloorFacts
  <2>2. [retain |-> FALSE, settled |-> FALSE] \in HistoryFloorBarrier
    BY DEF HistoryFloorBarrier
  <2>3. barriers' \in Seq(HistoryFloorBarrier) /\ Len(barriers') = next_floor_id + 1
    BY <1>4, <2>2, AppendProperties DEF BeginFloor, TypeOK
  <2>4. next_floor_id' = next_floor_id + 1 /\ next_floor_id' \in Nat
    BY <1>4 DEF BeginFloor, TypeOK
  <2>5. UNCHANGED <<hist, baseline, floor_offset, history_epoch, owner, attachment, manual,
                    manual_generation, cut, ticket, outbox, read_high>>
    BY <1>4 DEF BeginFloor
  <2> QED
    BY <2>1, <2>3, <2>4, <2>5 DEF TypeOK
<1>5. ASSUME NEW proof \in Proof, NEW id \in 1 .. next_floor_id, NEW tag \in Tag,
             TagPublication(proof, id, tag)
      PROVE  TypeOK'
  <2>1. pending_floor' \in PendingFloor
    BY <1>5 DEF TagPublication, HoldsFloor, TypeOK, PendingFloor
  <2> QED
    BY <1>5, <2>1 DEF TagPublication, TypeOK
<1>6. ASSUME NEW proof \in Proof, NEW id \in 1 .. next_floor_id, RetainUntilReconcile(proof, id)
      PROVE  TypeOK'
  <2>1. pending_floor' \in PendingFloor
    BY <1>6 DEF RetainUntilReconcile, HoldsFloor, TypeOK, PendingFloor
  <2>2. [barriers[id] EXCEPT !.retain = TRUE] \in HistoryFloorBarrier
    BY BarrierElement DEF HistoryFloorBarrier
  <2>3. barriers' \in Seq(HistoryFloorBarrier) /\ Len(barriers') = next_floor_id
    BY <1>6, <2>2, BarrierType DEF RetainUntilReconcile
  <2> QED
    BY <1>6, <2>1, <2>3 DEF RetainUntilReconcile, TypeOK
<1>7. ASSUME NEW proof \in Proof, NEW id \in 1 .. next_floor_id, NEW commit \in BOOLEAN,
             SettleBarrier(proof, id, commit)
      PROVE  TypeOK'
  <2>1. SettleFloorSucceeds(id, commit) \in BOOLEAN
    BY DEF SettleFloorSucceeds
  <2>2. [barriers[id] EXCEPT !.settled = SettleFloorSucceeds(id, commit)] \in HistoryFloorBarrier
    BY <2>1, BarrierElement DEF HistoryFloorBarrier
  <2>3. barriers' \in Seq(HistoryFloorBarrier) /\ Len(barriers') = next_floor_id
    BY <1>7, <2>2, BarrierType DEF SettleBarrier
  <2>4. /\ hist' \in History /\ suffix' \in History /\ baseline' \in Doc
        /\ floor_offset' \in Nat /\ pending_floor' \in PendingFloor \cup {None}
        /\ history_epoch' \in Nat /\ next_floor_id' = next_floor_id
    BY <1>7, SettleFloorType DEF SettleBarrier
  <2> QED
    BY <1>7, <2>3, <2>4 DEF SettleBarrier, TypeOK
<1>8. ASSUME NEW proof \in Proof, NEW id \in 1 .. next_floor_id, DropBarrier(proof, id)
      PROVE  TypeOK'
  <2>1. [barriers[id] EXCEPT !.settled = TRUE] \in HistoryFloorBarrier
    BY BarrierElement DEF HistoryFloorBarrier
  <2>2. barriers' \in Seq(HistoryFloorBarrier) /\ Len(barriers') = next_floor_id
    BY <1>8, <2>1, BarrierType DEF DropBarrier
  <2>3. SettleFloor(id, FALSE) \/ UNCHANGED <<state, suffix>>
    BY <1>8 DEF DropBarrier
  <2>4. /\ hist' \in History /\ suffix' \in History /\ baseline' \in Doc
        /\ floor_offset' \in Nat /\ pending_floor' \in PendingFloor \cup {None}
        /\ history_epoch' \in Nat /\ next_floor_id' = next_floor_id
    BY <2>3, SettleFloorType DEF TypeOK
  <2> QED
    BY <1>8, <2>2, <2>4 DEF DropBarrier, TypeOK
<1>9. ASSUME NEW proof \in Proof, NEW commit \in BOOLEAN, SettleTicket(proof, commit)
      PROVE  TypeOK'
  <2>1. SettleFloor(ticket.id, commit)
    BY <1>9 DEF SettleTicket
  <2>2. /\ hist' \in History /\ suffix' \in History /\ baseline' \in Doc
        /\ floor_offset' \in Nat /\ pending_floor' \in PendingFloor \cup {None}
        /\ history_epoch' \in Nat /\ next_floor_id' = next_floor_id
    BY <2>1, SettleFloorType
  <2> QED
    BY <1>9, <2>2 DEF SettleTicket, TypeOK
<1>10. ASSUME NEW proof \in Proof, NEW discard \in 0 .. MaxBatches, NEW close \in BOOLEAN,
              InstallFrozenTransition(proof, discard, close)
       PROVE  TypeOK'
  BY <1>10, TransitionType, InstallFrozenType
<1>11. ASSUME NEW proof \in Proof, NEW after \in Offered, InstallFrozenCheckpoint(proof, after)
       PROVE  TypeOK'
  BY <1>11, OfferedType, InstallFrozenType DEF InstallFrozenCheckpoint
<1>12. ASSUME NEW proof \in Proof, BindManual(proof) \/ ResumeManual(proof) PROVE TypeOK'
  BY <1>12, BindIngressType DEF BindManual, ResumeManual
<1>13. ASSUME NEW proof \in Proof, NEW count \in 1 .. ManualCommands, ManualAck(proof, count)
       PROVE  TypeOK'
  <2>1. manual \in ManualIngress
    BY <1>13 DEF ManualAck, TypeOK
  <2>2. manual.pending \in Seq(AcceptedHistory) /\ Len(manual.pending) \in Nat
    BY <2>1, LenProperties DEF ManualIngress
  <2>3. count \in 0 .. Len(manual.pending)
    <3>1. outbox.items \in Seq(AcceptedHistory) /\ Len(outbox.items) \in Nat
      BY <1>13, LenProperties DEF ManualAck, TypeOK, Outbox
    <3>2. count \in 0 .. Len(outbox.items) /\ count \in Nat
      BY <1>13, <3>1 DEF ManualAck
    <3>3. Len(SubSeq(outbox.items, 1, count)) = count
      BY <3>1, <3>2, PrefixLemma
    <3> QED
      BY <1>13, <2>2, <3>2, <3>3 DEF ManualAck, AckMatches
  <2>4. SubSeq(manual.pending, count + 1, Len(manual.pending)) \in Seq(AcceptedHistory)
    BY <2>2, <2>3, SuffixLemma
  <2>5. manual' \in ManualIngress
    BY <1>13, <2>1, <2>4 DEF ManualAck, ManualIngress
  <2> QED
    BY <1>13, <2>5 DEF ManualAck, TypeOK
<1>14. ASSUME NEW requested \in Proof \cup {None}, NEW after \in Offered,
              RestoreHistory(requested, after)
       PROVE  TypeOK'
  <2>1. /\ after \in HistorySnapshot
        /\ after.baseline \in Doc /\ after.floor_offset \in Nat
    BY OfferedType, SnapshotFields
  <2>2. Restore(after) # Rejected /\ Install(Restore(after), after.baseline, after.floor_offset)
    BY <1>14 DEF RestoreHistory
  <2>3. /\ hist' \in History /\ suffix' \in History /\ baseline' \in Doc
        /\ floor_offset' \in Nat /\ pending_floor' = None
        /\ history_epoch' \in Nat /\ next_floor_id' = next_floor_id
    BY <2>1, <2>2, RestoreType, InstallType
  <2> QED
    BY <1>14, <2>3 DEF RestoreHistory, TypeOK
<1>15. ASSUME NEW cmd \in JournalCommand, Command(cmd) PROVE TypeOK'
  <2>1. hist' \in History /\ suffix' \in History
    BY <1>15, RunCommandType DEF Command
  <2> QED
    BY <1>15, <2>1 DEF Command, RunCommand, TypeOK
<1>16. ASSUME NEW cmd \in JournalCommand, ManualCommand(cmd) PROVE TypeOK'
  BY <1>16, ManualCommandType
<1>17. CASE ExportHistory
  BY <1>17, CurrentCutType DEF ExportHistory, TypeOK
<1>18. CASE ReadTicket
  <2>1. ticket' \in PendingHistorySave
    BY <1>18 DEF ReadTicket, Save, TypeOK, PendingFloor, PendingHistorySave
  <2> QED
    BY <1>18, <2>1 DEF ReadTicket, TypeOK
<1>19. CASE ManualPending
  <2>1. outbox' \in Outbox /\ read_high' \in Nat
    BY <1>19 DEF ManualPending, TypeOK, ManualIngress, Outbox
  <2> QED
    BY <1>19, <2>1 DEF ManualPending, TypeOK
<1>20. CASE UNCHANGED vars
  BY <1>20 DEF vars, TypeOK
<1> QED
  BY <1>1, <1>2, <1>3, <1>4, <1>5, <1>6, <1>7, <1>8, <1>9, <1>10, <1>11, <1>12, <1>13, <1>14,
     <1>15, <1>16, <1>17, <1>18, <1>19, <1>20 DEF Next

(* The type invariant holds of the Core actor for all documents,           *)
(* operations and bounds.                                                  *)
THEOREM TypeCorrect == Spec => []TypeOK
BY InitTypeOK, NextTypeOK, PTL DEF Spec

(* An installed history has no pending floor.                              *)
LEMMA SuffixInstalled ==
    ASSUME NEW candidate, NEW base, NEW offset, Install(candidate, base, offset)
    PROVE  SuffixMatches'
BY DEF Install, SuffixMatches

(* Settling a floor, or failing to, leaves nothing to relate or leaves the *)
(* relation as it was.                                                     *)
LEMMA SuffixSettled ==
    ASSUME SuffixMatches, NEW id, NEW commit \in BOOLEAN, SettleFloor(id, commit)
    PROVE  SuffixMatches'
<1>1. CASE HoldsFloor(id) /\ commit /\ CommitAgrees(CommitCandidate)
  BY <1>1, SuffixInstalled DEF SettleFloor
<1>2. CASE ~ (HoldsFloor(id) /\ commit /\ CommitAgrees(CommitCandidate))
  <2>1. UNCHANGED hist /\ (pending_floor' = None \/ UNCHANGED <<pending_floor, suffix>>)
    BY <1>2 DEF SettleFloor
  <2> QED
    BY <2>1 DEF SuffixMatches
<1> QED
  BY <1>1, <1>2

(* A command accepted while a save is in flight keeps the live history and *)
(* the suffix rebuilt on the floor related.                                *)
LEMMA SuffixCommand ==
    ASSUME TypeOK, SuffixMatches, NEW cmd \in JournalCommand,
           ActorAccepts(cmd), RunCommand(cmd)
    PROVE  SuffixMatches'
<1> SUFFICES ASSUME pending_floor # None
             PROVE  AboveFloor(hist', suffix', pending_floor.depth)
  BY DEF SuffixMatches, RunCommand
<1>1. /\ hist \in History /\ suffix \in History /\ pending_floor.depth \in Nat
      /\ AboveFloor(hist, suffix, pending_floor.depth)
  BY DEF TypeOK, PendingFloor, SuffixMatches
<1>2. Accepts(hist, CanonicalCommand(cmd))
  BY DEF ActorAccepts
<1>3. ASSUME cmd.type = "Undo" PROVE Len(hist.undo) # pending_floor.depth
  <2>1. ~ (Len(hist.undo) <= pending_floor.depth)
    BY <1>3 DEF ActorAccepts, UndoBlocked
  <2> QED
    BY <1>1, <2>1
<1>4. AboveFloor(Exec(hist, cmd), Exec(suffix, cmd), pending_floor.depth)
  BY <1>1, <1>2, <1>3, AboveExec
<1> QED
  BY <1>4 DEF RunCommand

(* While a save holds a floor, the history rebuilt from the floor's        *)
(* baseline stays equal to the live one above the floor, whatever commands *)
(* run_actor accepts meanwhile.  This is what lets settle_floor discard    *)
(* the prefix.                                                             *)
THEOREM SuffixCorrect == Spec => []SuffixMatches
<1>1. Init => SuffixMatches
  BY DEF Init, SuffixMatches
<1>2. TypeOK /\ SuffixMatches /\ [Next]_vars => SuffixMatches'
  <2> SUFFICES ASSUME TypeOK, SuffixMatches, [Next]_vars PROVE SuffixMatches'
    OBVIOUS
  <2> USE DEF state, admission, clients
  <2>1. ASSUME NEW proof \in Proof, NEW discard \in 1 .. MaxBatches, BeginFloor(proof, discard)
        PROVE  SuffixMatches'
    <3>1. AboveFloor(hist, suffix', pending_floor'.depth)
      BY <2>1, BeginFloorFacts
    <3> QED
      BY <2>1, <3>1 DEF BeginFloor, SuffixMatches
  <2>2. ASSUME NEW proof \in Proof, NEW id \in 1 .. next_floor_id,
               \/ \E tag \in Tag : TagPublication(proof, id, tag)
               \/ RetainUntilReconcile(proof, id)
        PROVE  SuffixMatches'
    <3>1. /\ pending_floor # None /\ pending_floor'.depth = pending_floor.depth
          /\ UNCHANGED <<hist, suffix>>
      BY <2>2 DEF TagPublication, RetainUntilReconcile, HoldsFloor, TypeOK, PendingFloor
    <3> QED
      BY <3>1 DEF SuffixMatches
  <2>3. ASSUME NEW proof \in Proof, NEW id \in 1 .. next_floor_id, NEW commit \in BOOLEAN,
               SettleBarrier(proof, id, commit)
        PROVE  SuffixMatches'
    BY <2>3, SuffixSettled DEF SettleBarrier
  <2>4. ASSUME NEW proof \in Proof, NEW id \in 1 .. next_floor_id, DropBarrier(proof, id)
        PROVE  SuffixMatches'
    <3>1. CASE SettleFloor(id, FALSE)
      BY <3>1, SuffixSettled
    <3>2. CASE UNCHANGED <<state, suffix>>
      BY <3>2 DEF SuffixMatches
    <3> QED
      BY <2>4, <3>1, <3>2 DEF DropBarrier
  <2>5. ASSUME NEW proof \in Proof, NEW commit \in BOOLEAN, SettleTicket(proof, commit)
        PROVE  SuffixMatches'
    BY <2>5, SuffixSettled DEF SettleTicket
  <2>6. ASSUME NEW proof \in Proof, NEW discard \in 0 .. MaxBatches, NEW close \in BOOLEAN,
               InstallFrozenTransition(proof, discard, close)
        PROVE  SuffixMatches'
    BY <2>6, SuffixInstalled DEF InstallFrozenTransition, InstallFrozen
  <2>7. ASSUME NEW proof \in Proof, NEW after \in Offered, InstallFrozenCheckpoint(proof, after)
        PROVE  SuffixMatches'
    BY <2>7, SuffixInstalled DEF InstallFrozenCheckpoint, InstallFrozen
  <2>8. ASSUME NEW requested \in Proof \cup {None}, NEW after \in Offered,
               RestoreHistory(requested, after)
        PROVE  SuffixMatches'
    BY <2>8, SuffixInstalled DEF RestoreHistory
  <2>9. ASSUME NEW cmd \in JournalCommand, Command(cmd) \/ ManualCommand(cmd)
        PROVE  SuffixMatches'
    BY <2>9, SuffixCommand DEF Command, ManualCommand
  <2>10. ASSUME NEW proof \in Proof,
               \/ BindOwner(proof) \/ CaptureCut(proof)
               \/ \E seal \in BOOLEAN : FinishAttachment(proof, seal)
               \/ BindManual(proof) \/ ResumeManual(proof)
               \/ \E count \in 1 .. ManualCommands : ManualAck(proof, count)
        PROVE  SuffixMatches'
    <3>1. UNCHANGED <<hist, suffix, pending_floor>>
      BY <2>10 DEF BindOwner, CaptureCut, FinishAttachment, BindManual, ResumeManual,
                   BindIngress, ManualAck
    <3> QED
      BY <3>1 DEF SuffixMatches
  <2>11. CASE ExportHistory \/ ReadTicket \/ ManualPending \/ UNCHANGED vars
    <3>1. UNCHANGED <<hist, suffix, pending_floor>>
      BY <2>11 DEF ExportHistory, ReadTicket, ManualPending, vars
    <3> QED
      BY <3>1 DEF SuffixMatches
  <2> QED
    BY <2>1, <2>2, <2>3, <2>4, <2>5, <2>6, <2>7, <2>8, <2>9, <2>10, <2>11 DEF Next
<1> QED
  BY <1>1, <1>2, TypeCorrect, PTL DEF Spec

(* One accepted command moves the identity of the history forward.         *)
LEMMA ExecAdvances ==
    ASSUME NEW h \in History, NEW cmd \in JournalCommand, Accepts(h, CanonicalCommand(cmd))
    PROVE  /\ Exec(h, cmd).revision \in {h.revision, h.revision + 1}
           /\ Len(Exec(h, cmd).batches) = Len(h.batches) + 1
<1> DEFINE c == CanonicalCommand(cmd)
           x == Applied(h, c)
<1>1. c \in JournalCommand
  BY CanonicalCommandType
<1> HIDE DEF c
<1>2. Accepts(h, c) /\ Exec(h, cmd) = Record(x, c)
  BY DEF Exec, c
<1>3. x \in History
  BY <1>1, <1>2, AppliedType
<1>4. x.revision \in {h.revision, h.revision + 1} /\ x.batches = h.batches
  BY DEF Applied, UndoStep, RedoStep, Edit, History
<1> HIDE DEF x
<1>5. Record(x, c).revision = x.revision
  BY <1>3 DEF Record, History
<1> QED
  BY <1>1, <1>2, <1>3, <1>4, <1>5, RecordType

(* Installing a history moves its identity forward.                        *)
LEMMA InstallAdvances ==
    ASSUME TypeOK, NEW candidate \in History, NEW base, NEW offset,
           Install(candidate, base, offset)
    PROVE  Precedes(HistoryChangeId, HistoryChangeId')
<1>1. hist'.revision = hist.revision + 1 /\ hist.revision \in Nat
  BY DEF Install, TypeOK, History
<1> QED
  BY <1>1 DEF Precedes, HistoryChangeId

(* Settling a floor moves the identity forward or keeps the history.       *)
LEMMA SettleAdvances ==
    ASSUME TypeOK, NEW id, NEW commit \in BOOLEAN, SettleFloor(id, commit)
    PROVE  CurrentHistory' # CurrentHistory => Precedes(HistoryChangeId, HistoryChangeId')
<1>1. CASE HoldsFloor(id) /\ commit /\ CommitAgrees(CommitCandidate)
  <2>1. Install(CommitCandidate, pending_floor.baseline, pending_floor.offset)
    BY <1>1 DEF SettleFloor
  <2>2. CommitCandidate \in History
    BY <1>1, CommitCandidateType DEF HoldsFloor
  <2> QED
    BY <2>1, <2>2, InstallAdvances
<1>2. CASE ~ (HoldsFloor(id) /\ commit /\ CommitAgrees(CommitCandidate))
  BY <1>2 DEF SettleFloor, CurrentHistory
<1> QED
  BY <1>1, <1>2

(* An accepted command moves the identity forward.                         *)
LEMMA CommandAdvances ==
    ASSUME TypeOK, NEW cmd \in JournalCommand, ActorAccepts(cmd), RunCommand(cmd)
    PROVE  Precedes(HistoryChangeId, HistoryChangeId')
<1>1. hist \in History /\ hist.revision \in Nat /\ Len(hist.batches) \in Nat
  BY LenProperties DEF TypeOK, History
<1>2. /\ hist'.revision \in {hist.revision, hist.revision + 1}
      /\ Len(hist'.batches) = Len(hist.batches) + 1
  BY <1>1, ExecAdvances DEF RunCommand, ActorAccepts
<1> QED
  BY <1>1, <1>2 DEF Precedes, HistoryChangeId

(* history_change_id never names two different histories: every change,    *)
(* truncation included, moves the identity strictly forward in its order.  *)
THEOREM ChangeIdCorrect == Spec => ChangeIdAdvances
<1> DEFINE Advances == CurrentHistory' # CurrentHistory => Precedes(HistoryChangeId, HistoryChangeId')
<1>1. TypeOK /\ [Next]_vars => [Advances]_vars
  <2> SUFFICES ASSUME TypeOK, Next PROVE Advances
    OBVIOUS
  <2> USE DEF state, admission, clients
  <2>1. ASSUME NEW proof \in Proof, NEW id \in 1 .. next_floor_id, NEW commit \in BOOLEAN,
               SettleBarrier(proof, id, commit)
        PROVE  Advances
    BY <2>1, SettleAdvances DEF SettleBarrier
  <2>2. ASSUME NEW proof \in Proof, NEW id \in 1 .. next_floor_id, DropBarrier(proof, id)
        PROVE  Advances
    <3>1. CASE SettleFloor(id, FALSE)
      BY <3>1, SettleAdvances
    <3>2. CASE UNCHANGED <<state, suffix>>
      BY <3>2 DEF CurrentHistory
    <3> QED
      BY <2>2, <3>1, <3>2 DEF DropBarrier
  <2>3. ASSUME NEW proof \in Proof, NEW commit \in BOOLEAN, SettleTicket(proof, commit)
        PROVE  Advances
    BY <2>3, SettleAdvances DEF SettleTicket
  <2>4. ASSUME NEW proof \in Proof, NEW after \in HistorySnapshot, InstallFrozen(proof, after)
        PROVE  Advances
    <3>1. Restore(after) # Rejected /\ Install(Restore(after), after.baseline, after.floor_offset)
      BY <2>4 DEF InstallFrozen
    <3> QED
      BY <3>1, RestoreType, InstallAdvances
  <2>5. ASSUME NEW requested \in Proof \cup {None}, NEW after \in Offered,
               RestoreHistory(requested, after)
        PROVE  Advances
    <3>1. Restore(after) # Rejected /\ Install(Restore(after), after.baseline, after.floor_offset)
      BY <2>5 DEF RestoreHistory
    <3> QED
      BY <3>1, OfferedType, RestoreType, InstallAdvances
  <2>10. ASSUME NEW proof \in Proof,
               \/ \E discard \in 0 .. MaxBatches, close \in BOOLEAN :
                        InstallFrozenTransition(proof, discard, close)
               \/ \E after \in Offered : InstallFrozenCheckpoint(proof, after)
        PROVE  Advances
    BY <2>4, <2>10, TransitionType, OfferedType DEF InstallFrozenCheckpoint
  <2>6. ASSUME NEW cmd \in JournalCommand, Command(cmd) \/ ManualCommand(cmd)
        PROVE  Advances
    BY <2>6, CommandAdvances DEF Command, ManualCommand
  <2>7. ASSUME UNCHANGED <<hist, baseline, floor_offset>>
        PROVE  Advances
    BY <2>7 DEF CurrentHistory
  <2>8. ASSUME NEW proof \in Proof,
               \/ BindOwner(proof) \/ CaptureCut(proof)
               \/ \E seal \in BOOLEAN : FinishAttachment(proof, seal)
               \/ \E discard \in 1 .. MaxBatches : BeginFloor(proof, discard)
               \/ \E id \in 1 .. next_floor_id, tag \in Tag : TagPublication(proof, id, tag)
               \/ \E id \in 1 .. next_floor_id : RetainUntilReconcile(proof, id)
               \/ BindManual(proof) \/ ResumeManual(proof)
               \/ \E count \in 1 .. ManualCommands : ManualAck(proof, count)
        PROVE  Advances
    <3>1. UNCHANGED <<hist, baseline, floor_offset>>
      BY <2>8 DEF BindOwner, CaptureCut, FinishAttachment, BeginFloor, TagPublication,
                  RetainUntilReconcile, BindManual, ResumeManual, BindIngress, ManualAck
    <3> QED
      BY <2>7, <3>1
  <2>9. CASE ExportHistory \/ ReadTicket \/ ManualPending
    <3>1. UNCHANGED <<hist, baseline, floor_offset>>
      BY <2>9 DEF ExportHistory, ReadTicket, ManualPending
    <3> QED
      BY <2>7, <3>1
  <2> HIDE DEF Advances
  <2> QED
    BY <2>1, <2>2, <2>3, <2>5, <2>6, <2>8, <2>9, <2>10 DEF Next
<1>2. ChangeIdAdvances <=> [][Advances]_vars
  BY DEF ChangeIdAdvances
<1> QED
  BY <1>1, <1>2, TypeCorrect, PTL DEF Spec

-----------------------------------------------------------------------------
(* The accepted stream is a complete account of the history: replaying it  *)
(* on the baseline gives the document, both stacks and the stream itself.  *)
Rebuilt ==
    /\ Rebuilds(hist, baseline, hist.batches)
    /\ Replay(NewHistory(baseline, 0), hist.batches).batches = hist.batches

(* While a save is in flight, the stream above its floor rebuilds the      *)
(* suffix from the floor's baseline.                                       *)
SuffixRebuilt ==
    pending_floor # None =>
        /\ pending_floor.discard \in 0 .. Len(hist.batches)
        /\ Rebuilds(suffix, pending_floor.baseline,
                    SubSeq(hist.batches, pending_floor.discard + 1, Len(hist.batches)))

(* A history that is the replay of its own stream can be installed.        *)
LEMMA RebuiltInstalled ==
    ASSUME NEW candidate \in History, NEW base \in Doc, NEW offset,
           Rejected \notin History,
           Replay(NewHistory(base, 0), candidate.batches) = candidate,
           Install(candidate, base, offset)
    PROVE  Rebuilt' /\ SuffixRebuilt'
<1>1. /\ hist'.document = candidate.document /\ hist'.undo = candidate.undo
      /\ hist'.redo = candidate.redo /\ hist'.batches = candidate.batches
  BY DEF Install, History
<1>2. baseline' = base /\ pending_floor' = None /\ candidate # Rejected
  BY DEF Install
<1> QED
  BY <1>1, <1>2 DEF Rebuilt, SuffixRebuilt, Rebuilds, SameStacks

(* A validated snapshot is installed as the replay of its own stream.      *)
LEMMA RebuiltRestored ==
    ASSUME NEW after \in HistorySnapshot, Restore(after) # Rejected,
           Install(Restore(after), after.baseline, after.floor_offset)
    PROVE  Rebuilt' /\ SuffixRebuilt'
<1>1. /\ Restore(after) \in History
      /\ Replay(NewHistory(after.baseline, 0), Restore(after).batches) = Restore(after)
  BY RestoreType
<1>2. after.baseline \in Doc /\ Rejected \notin History
  BY SnapshotFields, ActorConstants
<1> QED
  BY <1>1, <1>2, RebuiltInstalled

(* Committing a floor installs the replay of the retained stream; giving a *)
(* ticket up, or answering a late one, leaves the history as it was.       *)
LEMMA RebuiltSettled ==
    ASSUME TypeOK, Rebuilt, SuffixRebuilt, NEW id, NEW commit \in BOOLEAN,
           SettleFloor(id, commit)
    PROVE  Rebuilt' /\ SuffixRebuilt'
<1>1. CASE HoldsFloor(id) /\ commit /\ CommitAgrees(CommitCandidate)
  <2> DEFINE fresh == NewHistory(pending_floor.baseline, 0)
             retained == SubSeq(hist.batches, pending_floor.discard + 1, Len(hist.batches))
  <2>1. /\ Install(CommitCandidate, pending_floor.baseline, pending_floor.offset)
        /\ pending_floor # None
    BY <1>1 DEF SettleFloor, HoldsFloor
  <2>2. CommitCandidate \in History /\ CommitCandidate # Rejected
    BY <1>1, <2>1, CommitCandidateType DEF CommitAgrees
  <2>3. /\ pending_floor.baseline \in Doc /\ pending_floor.discard \in 0 .. Len(hist.batches)
        /\ hist.batches \in Seq(HistoryBatch)
    BY <2>1 DEF SuffixRebuilt, TypeOK, PendingFloor, History
  <2>4. fresh \in History /\ fresh.batches = << >>
    BY <2>3, NewHistoryType DEF NewHistory
  <2>5. retained \in Seq(HistoryBatch)
    BY <2>3, SuffixLemma
  <2>6. CommitCandidate = Replay(fresh, retained)
    BY DEF CommitCandidate
  <2> HIDE DEF fresh, retained
  <2>7. Replay(fresh, Replay(fresh, retained).batches) = Replay(fresh, retained)
    BY <2>2, <2>4, <2>5, <2>6, ReplayAgain
  <2>8. Replay(NewHistory(pending_floor.baseline, 0), CommitCandidate.batches) = CommitCandidate
    BY <2>6, <2>7 DEF fresh
  <2> HIDE DEF CommitCandidate
  <2> QED
    BY <2>1, <2>2, <2>3, <2>8, RebuiltInstalled, ActorConstants
<1>2. CASE ~ (HoldsFloor(id) /\ commit /\ CommitAgrees(CommitCandidate))
  <2>1. /\ UNCHANGED <<hist, baseline>>
        /\ pending_floor' = None \/ UNCHANGED <<pending_floor, suffix>>
    BY <1>2 DEF SettleFloor
  <2> QED
    BY <2>1 DEF Rebuilt, SuffixRebuilt
<1> QED
  BY <1>1, <1>2

(* An accepted command appends the batch that extends both replays by      *)
(* itself, whatever it was recorded as.                                    *)
LEMMA RebuiltCommand ==
    ASSUME TypeOK, SuffixMatches, Rebuilt, SuffixRebuilt, NEW cmd \in JournalCommand,
           ActorAccepts(cmd), RunCommand(cmd)
    PROVE  Rebuilt' /\ SuffixRebuilt'
<1> DEFINE b == BatchOf(hist, cmd)
           g == Replay(NewHistory(baseline, 0), hist.batches)
<1>1. /\ hist \in History /\ baseline \in Doc /\ hist.batches \in Seq(HistoryBatch)
      /\ Len(hist.batches) \in Nat /\ suffix \in History
      /\ Rejected \notin History
  BY LenProperties, ActorConstants DEF TypeOK, History
<1>2. /\ Accepts(hist, CanonicalCommand(cmd))
      /\ hist' = Exec(hist, cmd) /\ suffix' = Exec(suffix, cmd)
      /\ baseline' = baseline /\ pending_floor' = pending_floor
  BY DEF ActorAccepts, RunCommand
<1>3. /\ Exec(hist, cmd).batches = Append(hist.batches, b)
      /\ b \in HistoryBatch /\ b.command = CanonicalCommand(cmd)
  BY <1>1, <1>2, ExecBatch
<1>4. Rebuilt'
  <2>1. /\ Rebuilds(Exec(hist, cmd), baseline, Append(hist.batches, b))
        /\ Replay(NewHistory(baseline, 0), Append(hist.batches, b)) = Exec(g, cmd)
    <3> HIDE DEF b
    <3> QED
      BY <1>1, <1>2, <1>3, RebuildsExec DEF Rebuilt
  <2>2. g \in History /\ SameStacks(g, hist) /\ g.batches = hist.batches
    BY DEF Rebuilt, Rebuilds
  <2> HIDE DEF g
  <2>3. Accepts(g, CanonicalCommand(cmd)) /\ BatchOf(g, cmd) = b
    BY <1>1, <1>2, <2>2, ExecSame
  <2>4. Exec(g, cmd).batches = Append(hist.batches, b)
    BY <2>2, <2>3, ExecBatch
  <2> HIDE DEF b
  <2> QED
    BY <1>2, <1>3, <2>1, <2>4 DEF Rebuilt
<1>5. SuffixRebuilt'
  <2> SUFFICES ASSUME pending_floor # None PROVE SuffixRebuilt'
    BY <1>2 DEF SuffixRebuilt
  <2> DEFINE d == pending_floor.discard
             retained == SubSeq(hist.batches, d + 1, Len(hist.batches))
             doc == pending_floor.baseline
  <2>1. d \in 0 .. Len(hist.batches) /\ Rebuilds(suffix, doc, retained) /\ doc \in Doc
    BY DEF SuffixRebuilt, TypeOK, PendingFloor
  <2>2. retained \in Seq(HistoryBatch)
    BY <1>1, <2>1, SuffixLemma
  <2>3. suffix.document = hist.document
    BY DEF SuffixMatches, AboveFloor
  <2>4. Accepts(suffix, CanonicalCommand(cmd))
    BY <1>2, <2>3 DEF Accepts
  <2>5. SubSeq(Append(hist.batches, b), d + 1, Len(Append(hist.batches, b))) = Append(retained, b)
    BY <1>1, <1>3, <2>1, SuffixAppend
  <2>6. Len(Append(hist.batches, b)) = Len(hist.batches) + 1
    BY <1>1, <1>3, AppendProperties
  <2> HIDE DEF retained, b
  <2>7. Rebuilds(Exec(suffix, cmd), doc, Append(retained, b))
    BY <1>1, <1>3, <2>1, <2>2, <2>4, RebuildsExec
  <2>8. d \in 0 .. Len(hist.batches) + 1
    BY <1>1, <2>1
  <2> QED
    BY <1>2, <1>3, <2>5, <2>6, <2>7, <2>8 DEF SuffixRebuilt
<1> QED
  BY <1>4, <1>5

(* What export_history hands to a save or a recovery can always be restored *)
(* and a floor in flight can always be committed, whatever commands,       *)
(* restores and other floors run_actor took before.                        *)
LEMMA RebuiltInvariant == Spec => [](Rebuilt /\ SuffixRebuilt)
<1>1. Init => Rebuilt /\ SuffixRebuilt
  <2> SUFFICES ASSUME Init PROVE Rebuilt /\ SuffixRebuilt
    OBVIOUS
  <2>1. PICK doc \in Doc : hist = NewHistory(doc, 0) /\ baseline = doc
    BY DEF Init
  <2>2. hist \in History /\ hist.batches = << >> /\ Rejected \notin History
    BY <2>1, NewHistoryType, ActorConstants DEF NewHistory
  <2>3. Replay(NewHistory(doc, 0), << >>) = NewHistory(doc, 0)
    BY ReplayEmpty
  <2>4. Rebuilt
    BY <2>1, <2>2, <2>3 DEF Rebuilt, Rebuilds, SameStacks
  <2> QED
    BY <2>4 DEF Init, SuffixRebuilt
<1>2. TypeOK /\ SuffixMatches /\ Rebuilt /\ SuffixRebuilt /\ [Next]_vars
        => Rebuilt' /\ SuffixRebuilt'
  <2> SUFFICES ASSUME TypeOK, SuffixMatches, Rebuilt, SuffixRebuilt, [Next]_vars
               PROVE  Rebuilt' /\ SuffixRebuilt'
    OBVIOUS
  <2> USE DEF state, admission, clients
  <2> DEFINE Kept == Rebuilt' /\ SuffixRebuilt'
  <2> SUFFICES Kept
    OBVIOUS
  <2>1. ASSUME NEW proof \in Proof, NEW discard \in 1 .. MaxBatches, BeginFloor(proof, discard)
        PROVE  Kept
    <3>1. /\ pending_floor'.discard \in 0 .. Len(hist.batches)
          /\ Rebuilds(suffix', pending_floor'.baseline,
                      SubSeq(hist.batches, pending_floor'.discard + 1, Len(hist.batches)))
      BY <2>1, BeginFloorFacts
    <3>2. UNCHANGED <<hist, baseline>>
      BY <2>1 DEF BeginFloor
    <3> QED
      BY <3>1, <3>2 DEF Rebuilt, SuffixRebuilt
  <2>2. ASSUME NEW proof \in Proof, NEW id \in 1 .. next_floor_id,
               \/ \E tag \in Tag : TagPublication(proof, id, tag)
               \/ RetainUntilReconcile(proof, id)
        PROVE  Kept
    <3>1. /\ pending_floor # None /\ pending_floor'.discard = pending_floor.discard
          /\ pending_floor'.baseline = pending_floor.baseline
          /\ UNCHANGED <<hist, baseline, suffix>>
      BY <2>2 DEF TagPublication, RetainUntilReconcile, HoldsFloor, TypeOK, PendingFloor
    <3> QED
      BY <3>1 DEF Rebuilt, SuffixRebuilt
  <2>3. ASSUME NEW proof \in Proof, NEW id \in 1 .. next_floor_id, NEW commit \in BOOLEAN,
               SettleBarrier(proof, id, commit)
        PROVE  Kept
    BY <2>3, RebuiltSettled DEF SettleBarrier
  <2>4. ASSUME NEW proof \in Proof, NEW id \in 1 .. next_floor_id, DropBarrier(proof, id)
        PROVE  Kept
    <3>1. CASE SettleFloor(id, FALSE)
      BY <3>1, RebuiltSettled
    <3>2. CASE UNCHANGED <<state, suffix>>
      BY <3>2 DEF Rebuilt, SuffixRebuilt
    <3> QED
      BY <2>4, <3>1, <3>2 DEF DropBarrier
  <2>5. ASSUME NEW proof \in Proof, NEW commit \in BOOLEAN, SettleTicket(proof, commit)
        PROVE  Kept
    BY <2>5, RebuiltSettled DEF SettleTicket
  <2>6. ASSUME NEW proof \in Proof, NEW after \in HistorySnapshot, InstallFrozen(proof, after)
        PROVE  Kept
    BY <2>6, RebuiltRestored DEF InstallFrozen
  <2>7. ASSUME NEW proof \in Proof,
               \/ \E discard \in 0 .. MaxBatches, close \in BOOLEAN :
                        InstallFrozenTransition(proof, discard, close)
               \/ \E after \in Offered : InstallFrozenCheckpoint(proof, after)
        PROVE  Kept
    <3> HIDE DEF Kept
    <3> QED
      BY <2>6, <2>7, TransitionType, OfferedType DEF InstallFrozenCheckpoint
  <2>8. ASSUME NEW requested \in Proof \cup {None}, NEW after \in Offered,
               RestoreHistory(requested, after)
        PROVE  Kept
    BY <2>8, OfferedType, RebuiltRestored DEF RestoreHistory
  <2>9. ASSUME NEW cmd \in JournalCommand, Command(cmd) \/ ManualCommand(cmd)
        PROVE  Kept
    BY <2>9, RebuiltCommand DEF Command, ManualCommand
  <2>10. ASSUME NEW proof \in Proof,
               \/ BindOwner(proof) \/ CaptureCut(proof)
               \/ \E seal \in BOOLEAN : FinishAttachment(proof, seal)
               \/ BindManual(proof) \/ ResumeManual(proof)
               \/ \E count \in 1 .. ManualCommands : ManualAck(proof, count)
        PROVE  Kept
    <3>1. UNCHANGED <<hist, baseline, suffix, pending_floor>>
      BY <2>10 DEF BindOwner, CaptureCut, FinishAttachment, BindManual, ResumeManual,
                   BindIngress, ManualAck
    <3> QED
      BY <3>1 DEF Rebuilt, SuffixRebuilt
  <2>11. CASE ExportHistory \/ ReadTicket \/ ManualPending \/ UNCHANGED vars
    <3>1. UNCHANGED <<hist, baseline, suffix, pending_floor>>
      BY <2>11 DEF ExportHistory, ReadTicket, ManualPending, vars
    <3> QED
      BY <3>1 DEF Rebuilt, SuffixRebuilt
  <2> HIDE DEF Kept
  <2> QED
    BY <2>1, <2>2, <2>3, <2>4, <2>5, <2>7, <2>8, <2>9, <2>10, <2>11 DEF Next
<1> QED
  BY <1>1, <1>2, TypeCorrect, SuffixCorrect, PTL DEF Spec

(* export_history always yields what CoreState::restore accepts: the       *)
(* command stream alone rebuilds the document and both stacks, after any   *)
(* sequence of edits, undos, floors and restores.                          *)
THEOREM RestorableCorrect == Spec => []Restorable
<1>1. TypeOK /\ Rebuilt => Restorable
  <2> SUFFICES ASSUME TypeOK, Rebuilt PROVE Restorable
    OBVIOUS
  <2> DEFINE candidate == Replay(NewHistory(baseline, 0), hist.batches)
  <2>1. /\ candidate \in History /\ candidate # Rejected /\ SameStacks(candidate, hist)
        /\ candidate.batches = hist.batches
    BY DEF Rebuilt, Rebuilds
  <2>2. CurrentHistory.baseline = baseline /\ CurrentHistory.batches = hist.batches
        /\ CurrentHistory.floor_offset = floor_offset
    BY DEF CurrentHistory, Snapshot
  <2>3. Snapshot(candidate, baseline, floor_offset) = CurrentHistory
    <3> HIDE DEF candidate
    <3> QED
      BY <2>1 DEF Snapshot, CurrentHistory, SameStacks
  <2>4. Restore(CurrentHistory) = candidate
    <3>1. Replay(NewHistory(CurrentHistory.baseline, 0), CurrentHistory.batches) = candidate
      BY <2>2
    <3>2. Snapshot(candidate, CurrentHistory.baseline, CurrentHistory.floor_offset) = CurrentHistory
      BY <2>2, <2>3
    <3> HIDE DEF candidate
    <3> QED
      BY <2>1, <3>1, <3>2 DEF Restore
  <2> QED
    BY <2>1, <2>4 DEF Restorable
<1> QED
  BY <1>1, TypeCorrect, RebuiltInvariant, PTL

(* A function on 1 .. n is a sequence of length n.                         *)
LEMMA TableSeq ==
    ASSUME NEW S, NEW n \in Nat, NEW f \in [1 .. n -> S]
    PROVE  f \in Seq(S) /\ Len(f) = n
BY SeqDef, LenProperties

(* The documents of the undo stack, the live one and those of the redo     *)
(* stack, newest first.                                                    *)
LEMMA DocumentsAt ==
    ASSUME TypeOK
    PROVE  /\ Len(hist.undo) \in Nat /\ Len(hist.redo) \in Nat
           /\ \A i \in 1 .. Len(hist.undo) : Documents[i] = hist.undo[i].document
           /\ Documents[Len(hist.undo) + 1] = hist.document
           /\ \A i \in 1 .. Len(hist.redo) :
                 Documents[Len(hist.undo) + 1 + i] = hist.redo[Len(hist.redo) + 1 - i].document
<1> DEFINE m == Len(hist.undo)
           n == Len(hist.redo)
           a == [i \in 1 .. m |-> hist.undo[i].document]
           b == <<hist.document>>
           c == [i \in 1 .. n |-> hist.redo[n + 1 - i].document]
           ab == a \o b
<1>1. /\ hist.undo \in Seq(HistoryEntry) /\ hist.redo \in Seq(HistoryEntry)
      /\ hist.document \in Doc /\ m \in Nat /\ n \in Nat
  BY LenProperties DEF TypeOK, History
<1>2. \A i \in 1 .. m : hist.undo[i].document \in Doc
  <2>1. \A i \in 1 .. m : hist.undo[i] \in HistoryEntry
    BY <1>1, ElementOfSeq
  <2> QED
    BY <2>1 DEF HistoryEntry
<1>3. \A i \in 1 .. n : hist.redo[n + 1 - i].document \in Doc
  <2>1. ASSUME NEW i \in 1 .. n PROVE hist.redo[n + 1 - i] \in HistoryEntry
    <3>1. n + 1 - i \in 1 .. n
      BY <1>1
    <3> QED
      BY <1>1, <3>1, ElementOfSeq
  <2> QED
    BY <2>1 DEF HistoryEntry
<1>4. Documents = ab \o c
  BY DEF Documents
<1>5. /\ \A i \in 1 .. m : a[i] = hist.undo[i].document
      /\ \A i \in 1 .. n : c[i] = hist.redo[n + 1 - i].document
      /\ b \in Seq(Doc) /\ Len(b) = 1 /\ b[1] = hist.document
  BY <1>1
<1>6. a \in [1 .. m -> Doc] /\ c \in [1 .. n -> Doc]
  BY <1>2, <1>3
<1> HIDE DEF m, n, a, b, c
<1>7. a \in Seq(Doc) /\ Len(a) = m /\ c \in Seq(Doc) /\ Len(c) = n
  BY <1>1, <1>6, TableSeq
<1>8. /\ ab \in Seq(Doc) /\ Len(ab) = m + 1
      /\ \A i \in 1 .. m + 1 : ab[i] = IF i <= m THEN a[i] ELSE b[i - m]
  <2>1. /\ ab \in Seq(Doc) /\ Len(ab) = Len(a) + Len(b)
        /\ \A i \in 1 .. Len(a) + Len(b) : ab[i] = IF i <= Len(a) THEN a[i] ELSE b[i - Len(a)]
    BY <1>5, <1>7, ConcatProperties
  <2> HIDE DEF ab
  <2> QED
    BY <1>5, <1>7, <2>1
<1> HIDE DEF ab
<1>9. \A i \in 1 .. m + 1 + n : Documents[i] = IF i <= m + 1 THEN ab[i] ELSE c[i - (m + 1)]
  <2>1. \A i \in 1 .. Len(ab) + Len(c) :
            (ab \o c)[i] = IF i <= Len(ab) THEN ab[i] ELSE c[i - Len(ab)]
    BY <1>7, <1>8, ConcatProperties
  <2> QED
    BY <1>4, <1>7, <1>8, <2>1
<1>10. ASSUME NEW i \in 1 .. m PROVE Documents[i] = hist.undo[i].document
  <2>1. i \in 1 .. m + 1 + n /\ i \in 1 .. m + 1 /\ i <= m + 1 /\ i <= m
    BY <1>1
  <2> QED
    BY <1>5, <1>8, <1>9, <2>1
<1>11. Documents[m + 1] = hist.document
  <2>1. /\ m + 1 \in 1 .. m + 1 + n /\ m + 1 \in 1 .. m + 1
        /\ m + 1 <= m + 1 /\ ~ (m + 1 <= m) /\ (m + 1) - m = 1
    BY <1>1
  <2> QED
    BY <1>5, <1>8, <1>9, <2>1
<1>12. ASSUME NEW i \in 1 .. n PROVE Documents[m + 1 + i] = hist.redo[n + 1 - i].document
  <2>1. /\ m + 1 + i \in 1 .. m + 1 + n /\ ~ (m + 1 + i <= m + 1)
        /\ (m + 1 + i) - (m + 1) = i
    BY <1>1
  <2> QED
    BY <1>5, <1>9, <2>1
<1> QED
  BY <1>1, <1>10, <1>11, <1>12 DEF m, n

(* The operations between these documents.                                 *)
LEMMA EdgesAt ==
    ASSUME TypeOK
    PROVE  /\ DOMAIN Edges = 1 .. Len(hist.undo) + Len(hist.redo)
           /\ \A i \in 1 .. Len(hist.undo) : Edges[i] = hist.undo[i].operations
           /\ \A i \in 1 .. Len(hist.redo) :
                 Edges[Len(hist.undo) + i] = hist.redo[Len(hist.redo) + 1 - i].operations
<1> DEFINE m == Len(hist.undo)
           n == Len(hist.redo)
           a == [i \in 1 .. m |-> hist.undo[i].operations]
           c == [i \in 1 .. n |-> hist.redo[n + 1 - i].operations]
<1>1. /\ hist.undo \in Seq(HistoryEntry) /\ hist.redo \in Seq(HistoryEntry)
      /\ m \in Nat /\ n \in Nat
  BY LenProperties DEF TypeOK, History
<1>2. \A i \in 1 .. m : hist.undo[i].operations \in Seq(Op)
  <2>1. \A i \in 1 .. m : hist.undo[i] \in HistoryEntry
    BY <1>1, ElementOfSeq
  <2> QED
    BY <2>1 DEF HistoryEntry
<1>3. \A i \in 1 .. n : hist.redo[n + 1 - i].operations \in Seq(Op)
  <2>1. ASSUME NEW i \in 1 .. n PROVE hist.redo[n + 1 - i] \in HistoryEntry
    <3>1. n + 1 - i \in 1 .. n
      BY <1>1
    <3> QED
      BY <1>1, <3>1, ElementOfSeq
  <2> QED
    BY <2>1 DEF HistoryEntry
<1>4. Edges = a \o c
  BY DEF Edges
<1>5. /\ \A i \in 1 .. m : a[i] = hist.undo[i].operations
      /\ \A i \in 1 .. n : c[i] = hist.redo[n + 1 - i].operations
  BY <1>1
<1>6. a \in [1 .. m -> Seq(Op)] /\ c \in [1 .. n -> Seq(Op)]
  BY <1>2, <1>3
<1> HIDE DEF m, n, a, c
<1>7. a \in Seq(Seq(Op)) /\ Len(a) = m /\ c \in Seq(Seq(Op)) /\ Len(c) = n
  BY <1>1, <1>6, TableSeq
<1>8. /\ Edges \in Seq(Seq(Op)) /\ Len(Edges) = m + n
      /\ \A i \in 1 .. m + n : Edges[i] = IF i <= m THEN a[i] ELSE c[i - m]
  BY <1>4, <1>7, ConcatProperties
<1>9. DOMAIN Edges = 1 .. m + n
  BY <1>8, LenProperties
<1>10. ASSUME NEW i \in 1 .. m PROVE Edges[i] = hist.undo[i].operations
  <2>1. i \in 1 .. m + n /\ i <= m
    BY <1>1
  <2> QED
    BY <1>5, <1>8, <2>1
<1>11. ASSUME NEW i \in 1 .. n PROVE Edges[m + i] = hist.redo[n + 1 - i].operations
  <2>1. m + i \in 1 .. m + n /\ ~ (m + i <= m) /\ (m + i) - m = i
    BY <1>1
  <2> QED
    BY <1>5, <1>8, <2>1
<1> QED
  BY <1>9, <1>10, <1>11 DEF m, n

(* The live history is a path and its open gesture one run, because it is  *)
(* what its own stream replays to.                                         *)
LEMMA LiveSound ==
    ASSUME TypeOK, Rebuilt
    PROVE  IsPath(hist, baseline) /\ GestureRuns(hist)
<1> DEFINE replayed == Replay(NewHistory(baseline, 0), hist.batches)
<1>1. baseline \in Doc /\ hist.batches \in Seq(HistoryBatch)
  BY DEF TypeOK, History
<1>2. replayed # Rejected /\ SameStacks(replayed, hist) /\ replayed.batches = hist.batches
  BY DEF Rebuilt, Rebuilds
<1>3. IsPath(replayed, baseline) /\ GestureRuns(replayed)
  BY <1>1, <1>2, ReplaySound
<1> HIDE DEF replayed
<1>4. IsPath(hist, baseline)
  BY <1>2, <1>3 DEF IsPath, SameStacks
<1>5. \A key \in Key : /\ Merges(replayed, key) <=> Merges(hist, key)
                       /\ OpenOps(replayed, key) = OpenOps(hist, key)
  BY <1>2 DEF Merges, OpenOps, SameStacks
<1>6. replayed.redo = hist.redo
  BY <1>2 DEF SameStacks
<1>7. GestureRuns(hist)
  BY <1>2, <1>3, <1>5, <1>6 DEF GestureRuns
<1> QED
  BY <1>4, <1>7

(* Undo and redo always meet the documents the user saw: every entry's     *)
(* operations lead from its document to the next one, from the baseline    *)
(* through the live document to the last redo entry, whatever gestures     *)
(* were merged, undone, floored or restored on the way.                    *)
THEOREM HistoryPathCorrect == Spec => []HistoryIsAPath
<1>1. TypeOK /\ Rebuilt => HistoryIsAPath
  <2> SUFFICES ASSUME TypeOK, Rebuilt PROVE HistoryIsAPath
    OBVIOUS
  <2> DEFINE m == Len(hist.undo)
             n == Len(hist.redo)
  <2>1. /\ After(hist.undo, hist.document, 0) = baseline
        /\ \A i \in 1 .. m : ApplyBatch(hist.undo[i].document, hist.undo[i].operations)
                               = After(hist.undo, hist.document, i)
        /\ \A i \in 1 .. n : ApplyBatch(After(hist.redo, hist.document, i), hist.redo[i].operations)
                               = hist.redo[i].document
    BY LiveSound DEF IsPath, UndoPath, RedoPath
  <2>2. /\ m \in Nat /\ n \in Nat
        /\ \A i \in 1 .. m : Documents[i] = hist.undo[i].document
        /\ Documents[m + 1] = hist.document
        /\ \A i \in 1 .. n : Documents[m + 1 + i] = hist.redo[n + 1 - i].document
    BY DocumentsAt
  <2>3. /\ DOMAIN Edges = 1 .. m + n
        /\ \A i \in 1 .. m : Edges[i] = hist.undo[i].operations
        /\ \A i \in 1 .. n : Edges[m + i] = hist.redo[n + 1 - i].operations
    BY EdgesAt
  <2>4. ASSUME NEW i \in 0 .. m
        PROVE  Documents[i + 1] = After(hist.undo, hist.document, i)
    <3>1. CASE i = m
      BY <2>2, <3>1 DEF After
    <3>2. CASE i # m
      <4>1. i + 1 \in 1 .. m /\ i < m
        BY <2>2, <3>2
      <4> QED
        BY <2>2, <4>1 DEF After
    <3> QED
      BY <3>1, <3>2
  <2>5. ASSUME NEW i \in 1 .. n
        PROVE  Documents[m + i] = After(hist.redo, hist.document, n + 1 - i)
    <3>1. CASE i = 1
      BY <2>2, <3>1 DEF After
    <3>2. CASE i # 1
      <4>1. /\ i - 1 \in 1 .. n /\ m + 1 + (i - 1) = m + i
            /\ n + 1 - (i - 1) = (n + 1 - i) + 1 /\ n + 1 - i < n
        BY <2>2, <3>2
      <4> QED
        BY <2>2, <4>1 DEF After
    <3> QED
      BY <3>1, <3>2
  <2> HIDE DEF m, n
  <2>6. Documents[1] = baseline
    <3>1. 0 \in 0 .. m /\ 0 + 1 = 1
      BY <2>2
    <3> QED
      BY <2>1, <2>4, <3>1
  <2>7. ASSUME NEW i \in 1 .. m + n
        PROVE  ApplyBatch(Documents[i], Edges[i]) = Documents[i + 1]
    <3>1. CASE i <= m
      <4>1. i \in 1 .. m /\ i \in 0 .. m
        BY <2>2, <3>1
      <4> QED
        BY <2>1, <2>2, <2>3, <2>4, <4>1
    <3>2. CASE ~ (i <= m)
      <4> DEFINE k == i - m
                 j == n + 1 - k
      <4>1. k \in 1 .. n /\ m + k = i /\ i + 1 = m + 1 + k /\ j \in 1 .. n
        BY <2>2, <3>2
      <4> HIDE DEF k
      <4>2. Documents[i] = After(hist.redo, hist.document, j)
        BY <2>5, <4>1
      <4>3. Edges[i] = hist.redo[j].operations
        BY <2>3, <4>1
      <4>4. Documents[i + 1] = hist.redo[j].document
        BY <2>2, <4>1
      <4> HIDE DEF j
      <4> QED
        BY <2>1, <4>1, <4>2, <4>3, <4>4
    <3> QED
      BY <3>1, <3>2
  <2> QED
    BY <2>3, <2>6, <2>7 DEF HistoryIsAPath
<1> QED
  BY <1>1, TypeCorrect, RebuiltInvariant, PTL

(* While the newest entry holds a key, it is exactly the operations of the *)
(* gesture's own batches at the end of the stream: no undo, effective redo *)
(* or other edit ever hides inside one undo step, across floors and        *)
(* restores included.                                                      *)
THEOREM GestureCorrect == Spec => []GestureIsOneRun
<1>1. TypeOK /\ Rebuilt => GestureIsOneRun
  <2> SUFFICES ASSUME TypeOK, Rebuilt, OpenGesture(hist)
               PROVE  Last(hist.undo).operations
                        = FlattenSeq(GestureRun(Last(hist.undo).coalesce_key))
    BY DEF GestureIsOneRun
  <2> DEFINE key == Last(hist.undo).coalesce_key
             start == CHOOSE n \in 1 .. Len(hist.batches) + 1 : StartsRun(hist.batches, key, n)
  <2>1. hist.undo # << >> /\ key # None
    BY DEF OpenGesture
  <2>2. key \in Key /\ Len(hist.batches) \in Nat
    <3>1. Last(hist.undo) \in HistoryEntry
      BY <2>1, FrontLast DEF TypeOK, History
    <3> QED
      BY <2>1, <3>1, LenProperties DEF HistoryEntry, TypeOK, History
  <2>3. OpenOps(hist, key) = Last(hist.undo).operations
    BY <2>1 DEF OpenOps, Merges
  <2> HIDE DEF key
  <2>4. PICK n : StartsRun(hist.batches, key, n)
                   /\ FlattenSeq(RunFrom(hist.batches, n)) = OpenOps(hist, key)
    BY <2>2, LiveSound DEF GestureRuns
  <2>5. n \in 1 .. Len(hist.batches) + 1
    BY <2>4 DEF StartsRun
  <2>6. StartsRun(hist.batches, key, start)
    BY <2>4, <2>5
  <2> HIDE DEF start
  <2>7. start = n
    BY <2>2, <2>4, <2>6, StartUnique
  <2>8. GestureRun(key) = RunFrom(hist.batches, start)
    BY DEF GestureRun, start
  <2>9. Last(hist.undo).operations = FlattenSeq(GestureRun(key))
    BY <2>3, <2>4, <2>7, <2>8
  <2> QED
    BY <2>9 DEF key
<1> QED
  BY <1>1, TypeCorrect, RebuiltInvariant, PTL

(* settle_floor never answers CommitInvariant: whatever commands were      *)
(* accepted while the save wrote its files, the replay that commits the    *)
(* floor gives exactly the live document, the undo entries above the floor *)
(* and the redo stack.                                                     *)
THEOREM FloorCommitCorrect == Spec => []FloorCommitSound
<1>1. TypeOK /\ SuffixMatches /\ SuffixRebuilt => FloorCommitSound
  <2> SUFFICES ASSUME TypeOK, SuffixMatches, SuffixRebuilt, pending_floor # None
               PROVE  CommitAgrees(CommitCandidate)
    BY DEF FloorCommitSound
  <2>1. AboveFloor(hist, suffix, pending_floor.depth)
    BY DEF SuffixMatches
  <2>2. CommitCandidate # Rejected /\ SameStacks(CommitCandidate, suffix)
    BY DEF SuffixRebuilt, Rebuilds, CommitCandidate
  <2>3. pending_floor.discard <= Len(hist.batches)
    <3>1. hist.batches \in Seq(HistoryBatch) /\ Len(hist.batches) \in Nat
      BY LenProperties DEF TypeOK, History
    <3> QED
      BY <3>1 DEF SuffixRebuilt
  <2> QED
    BY <2>1, <2>2, <2>3 DEF CommitAgrees, AboveFloor, SameStacks
<1> QED
  BY <1>1, TypeCorrect, SuffixCorrect, RebuiltInvariant, PTL

-----------------------------------------------------------------------------
(* A pending floor belongs to a ticket that was handed out.                *)
TicketInOrder == pending_floor # None => pending_floor.id \in 1 .. next_floor_id

(* Tickets are numbered from one and only the newest can be pending.       *)
LEMMA TicketInvariant == Spec => []TicketInOrder
<1>1. Init => TicketInOrder
  BY DEF Init, TicketInOrder
<1>2. TypeOK /\ TicketInOrder /\ [Next]_vars => TicketInOrder'
  <2> SUFFICES ASSUME TypeOK, TicketInOrder, [Next]_vars PROVE TicketInOrder'
    OBVIOUS
  <2> USE DEF state, admission, clients
  <2>1. ASSUME NEW proof \in Proof, NEW discard \in 1 .. MaxBatches, BeginFloor(proof, discard)
        PROVE  TicketInOrder'
    BY <2>1 DEF BeginFloor, NewPendingFloor, TicketInOrder, TypeOK
  <2>2. ASSUME NEW proof \in Proof, NEW id \in 1 .. next_floor_id,
               \/ \E tag \in Tag : TagPublication(proof, id, tag)
               \/ RetainUntilReconcile(proof, id)
        PROVE  TicketInOrder'
    BY <2>2 DEF TagPublication, RetainUntilReconcile, HoldsFloor, TypeOK, PendingFloor,
                TicketInOrder
  <2>3. ASSUME NEW candidate, NEW base, NEW offset, Install(candidate, base, offset)
        PROVE  TicketInOrder'
    BY <2>3 DEF Install, TicketInOrder
  <2>4. ASSUME NEW id, NEW commit \in BOOLEAN, SettleFloor(id, commit)
        PROVE  TicketInOrder'
    BY <2>3, <2>4 DEF SettleFloor, TicketInOrder
  <2>5. ASSUME UNCHANGED <<pending_floor, next_floor_id>> PROVE TicketInOrder'
    BY <2>5 DEF TicketInOrder
  <2>6. ASSUME NEW proof \in Proof, NEW id \in 1 .. next_floor_id,
               \/ \E commit \in BOOLEAN : SettleBarrier(proof, id, commit)
               \/ DropBarrier(proof, id)
        PROVE  TicketInOrder'
    BY <2>4, <2>5, <2>6 DEF SettleBarrier, DropBarrier
  <2>7. ASSUME NEW proof \in Proof, NEW commit \in BOOLEAN, SettleTicket(proof, commit)
        PROVE  TicketInOrder'
    BY <2>4, <2>7 DEF SettleTicket
  <2>8. ASSUME NEW proof \in Proof,
               \/ \E discard \in 0 .. MaxBatches, close \in BOOLEAN :
                        InstallFrozenTransition(proof, discard, close)
               \/ \E after \in Offered : InstallFrozenCheckpoint(proof, after)
        PROVE  TicketInOrder'
    BY <2>3, <2>8 DEF InstallFrozenTransition, InstallFrozenCheckpoint, InstallFrozen
  <2>9. ASSUME NEW requested \in Proof \cup {None}, NEW after \in Offered,
               RestoreHistory(requested, after)
        PROVE  TicketInOrder'
    BY <2>3, <2>9 DEF RestoreHistory
  <2>10. ASSUME NEW cmd \in JournalCommand, Command(cmd) \/ ManualCommand(cmd)
        PROVE  TicketInOrder'
    BY <2>5, <2>10 DEF Command, ManualCommand, RunCommand
  <2>11. ASSUME NEW proof \in Proof,
               \/ BindOwner(proof) \/ CaptureCut(proof)
               \/ \E seal \in BOOLEAN : FinishAttachment(proof, seal)
               \/ BindManual(proof) \/ ResumeManual(proof)
               \/ \E count \in 1 .. ManualCommands : ManualAck(proof, count)
        PROVE  TicketInOrder'
    BY <2>5, <2>11 DEF BindOwner, CaptureCut, FinishAttachment, BindManual, ResumeManual,
                       BindIngress, ManualAck
  <2>12. CASE ExportHistory \/ ReadTicket \/ ManualPending \/ UNCHANGED vars
    BY <2>5, <2>12 DEF ExportHistory, ReadTicket, ManualPending, vars
  <2> QED
    BY <2>1, <2>2, <2>6, <2>7, <2>8, <2>9, <2>10, <2>11, <2>12 DEF Next
<1> QED
  BY <1>1, <1>2, TypeCorrect, PTL DEF Spec

(* A ticket leaves the actor in one turn with the answer to its own        *)
(* barrier, or with a settlement by an owner that read exactly that        *)
(* ticket: a late commit or a dropped barrier of an earlier save never     *)
(* releases the floor of a later one.  It rests on FloorCommitCorrect: a   *)
(* commit that failed its replay would give the ticket up and leave the    *)
(* barrier unsettled.                                                      *)
THEOREM SettledCorrect == Spec => SettledByItsOwner
<1> DEFINE Gone == pending_floor # None
                    /\ (pending_floor' = None \/ pending_floor'.id # pending_floor.id)
           Own == \/ barriers'[pending_floor.id].settled /\ ~ barriers[pending_floor.id].settled
                  \/ ticket = Save(pending_floor)
<1>1. TypeOK /\ TicketInOrder /\ FloorCommitSound /\ [Next]_vars => [Gone => Own]_vars
  <2> SUFFICES ASSUME TypeOK, TicketInOrder, FloorCommitSound, Next, Gone PROVE Own
    OBVIOUS
  <2> USE DEF state, admission, clients
  <2>1. ~ UNCHANGED pending_floor
    OBVIOUS
  <2>2. ASSUME NEW proof \in Proof, NEW id \in 1 .. next_floor_id, NEW commit \in BOOLEAN,
               SettleBarrier(proof, id, commit)
        PROVE  Own
    <3>1. pending_floor.id = id
      BY <2>1, <2>2 DEF SettleBarrier, SettleFloor, HoldsFloor
    <3>2. SettleFloorSucceeds(id, commit)
      BY DEF SettleFloorSucceeds, HoldsFloor, FloorCommitSound
    <3>3. ~ barriers[id].settled
      BY <2>2 DEF SettleBarrier
    <3>4. barriers'[id].settled
      <4> DEFINE b == [barriers[id] EXCEPT !.settled = SettleFloorSucceeds(id, commit)]
      <4>1. barriers[id] \in HistoryFloorBarrier
        BY BarrierElement
      <4>2. b.settled
        BY <3>2, <4>1 DEF HistoryFloorBarrier
      <4>3. barriers' = ReplaceAt(barriers, id, b)
        BY <2>2 DEF SettleBarrier
      <4> HIDE DEF b
      <4>4. id \in DOMAIN barriers
        BY LenProperties DEF TypeOK
      <4>5. barriers'[id] = b
        BY <4>3, <4>4 DEF ReplaceAt
      <4> QED
        BY <4>2, <4>5
    <3> QED
      BY <3>1, <3>3, <3>4
  <2>3. ASSUME NEW proof \in Proof, NEW id \in 1 .. next_floor_id, DropBarrier(proof, id)
        PROVE  Own
    <3>1. pending_floor.id = id /\ ~ barriers[id].settled
      BY <2>1, <2>3 DEF DropBarrier, SettleFloor, HoldsFloor
    <3>2. barriers'[id].settled
      <4> DEFINE b == [barriers[id] EXCEPT !.settled = TRUE]
      <4>1. barriers[id] \in HistoryFloorBarrier
        BY BarrierElement
      <4>2. b.settled
        BY <4>1 DEF HistoryFloorBarrier
      <4>3. barriers' = ReplaceAt(barriers, id, b)
        BY <2>3 DEF DropBarrier
      <4> HIDE DEF b
      <4>4. id \in DOMAIN barriers
        BY LenProperties DEF TypeOK
      <4>5. barriers'[id] = b
        BY <4>3, <4>4 DEF ReplaceAt
      <4> QED
        BY <4>2, <4>5
    <3> QED
      BY <3>1, <3>2
  <2>4. ASSUME NEW proof \in Proof, NEW commit \in BOOLEAN, SettleTicket(proof, commit)
        PROVE  Own
    BY <2>4 DEF SettleTicket
  <2>5. ASSUME NEW proof \in Proof, NEW id \in 1 .. next_floor_id,
               \/ \E tag \in Tag : TagPublication(proof, id, tag)
               \/ RetainUntilReconcile(proof, id)
        PROVE  FALSE
    <3>1. pending_floor' # None /\ pending_floor'.id = pending_floor.id
      <4>1. pending_floor \in PendingFloor
        BY DEF TypeOK
      <4>2. \/ \E tag \in Tag : pending_floor' = [pending_floor EXCEPT !.tag = tag]
            \/ pending_floor' = [pending_floor EXCEPT !.ready = TRUE]
        BY <2>5 DEF TagPublication, RetainUntilReconcile
      <4>3. pending_floor' \in PendingFloor /\ pending_floor'.id = pending_floor.id
        BY <4>1, <4>2 DEF PendingFloor
      <4> QED
        BY <4>3, NoneIsNoValue
    <3> QED
      BY <3>1
  <2>6. ASSUME NEW proof \in Proof,
               \/ \E discard \in 1 .. MaxBatches : BeginFloor(proof, discard)
               \/ \E discard \in 0 .. MaxBatches, close \in BOOLEAN :
                        InstallFrozenTransition(proof, discard, close)
               \/ \E after \in Offered : InstallFrozenCheckpoint(proof, after)
        PROVE  FALSE
    BY <2>6 DEF BeginFloor, InstallFrozenTransition, InstallFrozenCheckpoint, InstallFrozen
  <2>7. ASSUME NEW requested \in Proof \cup {None}, NEW after \in Offered,
               RestoreHistory(requested, after)
        PROVE  FALSE
    BY <2>7 DEF RestoreHistory
  <2>8. ASSUME NEW cmd \in JournalCommand, Command(cmd) \/ ManualCommand(cmd)
        PROVE  FALSE
    BY <2>1, <2>8 DEF Command, ManualCommand, RunCommand
  <2>9. ASSUME NEW proof \in Proof,
               \/ BindOwner(proof) \/ CaptureCut(proof)
               \/ \E seal \in BOOLEAN : FinishAttachment(proof, seal)
               \/ BindManual(proof) \/ ResumeManual(proof)
               \/ \E count \in 1 .. ManualCommands : ManualAck(proof, count)
        PROVE  FALSE
    BY <2>1, <2>9 DEF BindOwner, CaptureCut, FinishAttachment, BindManual, ResumeManual,
                      BindIngress, ManualAck
  <2>10. CASE ExportHistory \/ ReadTicket \/ ManualPending
    BY <2>1, <2>10 DEF ExportHistory, ReadTicket, ManualPending
  <2> HIDE DEF Own, Gone
  <2> QED
    BY <2>2, <2>3, <2>4, <2>5, <2>6, <2>7, <2>8, <2>9, <2>10 DEF Next
<1>2. SettledByItsOwner <=> [][Gone => Own]_vars
  BY DEF SettledByItsOwner
<1> QED
  BY <1>1, <1>2, TypeCorrect, TicketInvariant, FloorCommitCorrect, PTL DEF Spec


-----------------------------------------------------------------------------
(* Only a bound owner freezes or seals.                                    *)
FrozenIsOwned == attachment # "Live" => owner # None

(* Once an owner has sealed the Core for a handoff, no queued command,     *)
(* late barrier, ticket or permit changes the history, and no other owner  *)
(* is bound.                                                               *)
THEOREM SealedCorrect == Spec => SealedIsFinal
<1> DEFINE Final == attachment = "Sealed" => UNCHANGED <<state, attachment, owner>>
<1>1. Init => FrozenIsOwned
  BY DEF Init, FrozenIsOwned
<1>2. FrozenIsOwned /\ [Next]_vars => FrozenIsOwned'
  <2> SUFFICES ASSUME FrozenIsOwned, [Next]_vars PROVE FrozenIsOwned'
    OBVIOUS
  <2> USE ActorConstants DEF state, admission, clients
  <2>1. ASSUME UNCHANGED <<owner, attachment>> PROVE FrozenIsOwned'
    BY <2>1 DEF FrozenIsOwned
  <2>2. ASSUME NEW proof \in Proof,
               \/ BindOwner(proof) \/ CaptureCut(proof)
               \/ \E seal \in BOOLEAN : FinishAttachment(proof, seal)
               \/ BindManual(proof) \/ ResumeManual(proof)
        PROVE  FrozenIsOwned'
    BY <2>2 DEF BindOwner, CaptureCut, FinishAttachment, Authorized, BindManual, ResumeManual,
                BindIngress, FrozenIsOwned
  <2>3. ASSUME NEW proof \in Proof, NEW id \in 1 .. next_floor_id,
               \/ \E tag \in Tag : TagPublication(proof, id, tag)
               \/ RetainUntilReconcile(proof, id)
               \/ \E commit \in BOOLEAN : SettleBarrier(proof, id, commit)
               \/ DropBarrier(proof, id)
        PROVE  FrozenIsOwned'
    BY <2>1, <2>3 DEF TagPublication, RetainUntilReconcile, SettleBarrier, DropBarrier
  <2>4. ASSUME NEW proof \in Proof,
               \/ \E discard \in 1 .. MaxBatches : BeginFloor(proof, discard)
               \/ \E commit \in BOOLEAN : SettleTicket(proof, commit)
               \/ \E discard \in 0 .. MaxBatches, close \in BOOLEAN :
                        InstallFrozenTransition(proof, discard, close)
               \/ \E after \in Offered : InstallFrozenCheckpoint(proof, after)
               \/ \E count \in 1 .. ManualCommands : ManualAck(proof, count)
        PROVE  FrozenIsOwned'
    BY <2>1, <2>4 DEF BeginFloor, SettleTicket, InstallFrozenTransition,
                      InstallFrozenCheckpoint, InstallFrozen, ManualAck
  <2>5. ASSUME NEW cmd \in JournalCommand, Command(cmd) \/ ManualCommand(cmd)
        PROVE  FrozenIsOwned'
    BY <2>1, <2>5 DEF Command, ManualCommand
  <2>6. ASSUME NEW requested \in Proof \cup {None}, NEW after \in Offered,
               RestoreHistory(requested, after)
        PROVE  FrozenIsOwned'
    BY <2>1, <2>6 DEF RestoreHistory
  <2>7. CASE ExportHistory \/ ReadTicket \/ ManualPending \/ UNCHANGED vars
    BY <2>1, <2>7 DEF ExportHistory, ReadTicket, ManualPending, vars
  <2> QED
    BY <2>2, <2>3, <2>4, <2>5, <2>6, <2>7 DEF Next
<1>3. FrozenIsOwned /\ [Next]_vars => [Final]_vars
  <2> SUFFICES ASSUME FrozenIsOwned, Next, attachment = "Sealed"
               PROVE  UNCHANGED <<state, attachment, owner>>
    OBVIOUS
  <2> USE DEF admission, clients
  <2> DEFINE Kept == UNCHANGED <<state, attachment, owner>>
  <2> SUFFICES Kept
    OBVIOUS
  <2>1. ASSUME NEW proof \in Proof, Authorized(proof) PROVE FALSE
    BY <2>1 DEF Authorized
  <2>2. ASSUME NEW proof \in Proof, BindOwner(proof) PROVE Kept
    BY <2>2 DEF BindOwner, FrozenIsOwned
  <2>3. ASSUME NEW proof \in Proof, NEW id \in 1 .. next_floor_id, DropBarrier(proof, id)
        PROVE  Kept
    BY <2>1, <2>3 DEF DropBarrier
  <2>4. ASSUME NEW proof \in Proof, NEW count \in 1 .. ManualCommands, ManualAck(proof, count)
        PROVE  Kept
    BY <2>4 DEF ManualAck
  <2>5. ASSUME NEW proof \in Proof, NEW id \in 1 .. next_floor_id,
               \/ \E tag \in Tag : TagPublication(proof, id, tag)
               \/ RetainUntilReconcile(proof, id)
               \/ \E commit \in BOOLEAN : SettleBarrier(proof, id, commit)
        PROVE  FALSE
    BY <2>1, <2>5 DEF TagPublication, RetainUntilReconcile, SettleBarrier
  <2>6. ASSUME NEW proof \in Proof,
               \/ CaptureCut(proof)
               \/ \E seal \in BOOLEAN : FinishAttachment(proof, seal)
               \/ \E discard \in 1 .. MaxBatches : BeginFloor(proof, discard)
               \/ \E commit \in BOOLEAN : SettleTicket(proof, commit)
               \/ \E discard \in 0 .. MaxBatches, close \in BOOLEAN :
                        InstallFrozenTransition(proof, discard, close)
               \/ \E after \in Offered : InstallFrozenCheckpoint(proof, after)
               \/ BindManual(proof) \/ ResumeManual(proof)
        PROVE  FALSE
    BY <2>1, <2>6 DEF CaptureCut, FinishAttachment, BeginFloor, SettleTicket,
                      InstallFrozenTransition, InstallFrozenCheckpoint, InstallFrozen,
                      BindManual, ResumeManual
  <2>7. ASSUME NEW cmd \in JournalCommand, Command(cmd) \/ ManualCommand(cmd)
        PROVE  FALSE
    BY <2>7 DEF Command, ManualCommand, ActorAccepts
  <2>8. ASSUME NEW requested \in Proof \cup {None}, NEW after \in Offered,
               RestoreHistory(requested, after)
        PROVE  FALSE
    BY <2>8 DEF RestoreHistory
  <2>9. CASE ExportHistory \/ ReadTicket \/ ManualPending
    BY <2>9 DEF ExportHistory, ReadTicket, ManualPending
  <2> HIDE DEF Kept
  <2> QED
    BY <2>2, <2>3, <2>4, <2>5, <2>6, <2>7, <2>8, <2>9 DEF Next
<1>4. SealedIsFinal <=> [][Final]_vars
  BY DEF SealedIsFinal
<1> QED
  BY <1>1, <1>2, <1>3, <1>4, PTL DEF Spec

-----------------------------------------------------------------------------
(* A manual producer and a save in flight exclude each other, so no floor  *)
(* truncates the stream the producer's queue refers to.                    *)
OneAdmission == manual # None => pending_floor = None

(* What the publisher holds of the current permit has been read, and a     *)
(* permit is never handed out twice.                                       *)
OutboxWasRead ==
    /\ manual # None => manual.generation = manual_generation
    /\ outbox # None => outbox.generation <= manual_generation
    /\ manual # None /\ outbox # None /\ outbox.generation = manual.generation =>
        \A i \in 1 .. Len(outbox.items) : outbox.items[i].sequence <= read_high

ManualInv == OneAdmission /\ ManualStreamExact /\ OutboxWasRead /\ AckedWasRead

(* Accepting a manual command appends its batch to the stream and to the   *)
(* queue, under the next sequence number.                                  *)
LEMMA ManualAppends ==
    ASSUME TypeOK, ManualInv, NEW cmd \in JournalCommand, ManualCommand(cmd)
    PROVE  ManualInv'
<1> DEFINE p == manual.pending
           b == BatchOf(hist, cmd)
           item == [sequence |-> manual.next_sequence,
                    predecessor |-> manual.next_sequence - 1, batch |-> b]
           n == Len(p)
           m == Len(hist.batches)
           k == manual.next_sequence
<1> USE DEF state, admission, clients
<1>1. /\ manual \in ManualIngress /\ p \in Seq(AcceptedHistory) /\ n \in Nat
      /\ hist \in History /\ hist.batches \in Seq(HistoryBatch) /\ m \in Nat
      /\ k \in Nat \ {0} /\ manual # None
  BY LenProperties DEF ManualCommand, TypeOK, ManualIngress, History
<1>2. /\ hist'.batches = Append(hist.batches, b) /\ b \in HistoryBatch
  BY <1>1, ExecBatch DEF ManualCommand, ActorAccepts, RunCommand
<1>3. /\ Append(hist.batches, b) \in Seq(HistoryBatch)
      /\ Len(Append(hist.batches, b)) = m + 1
      /\ \A i \in 1 .. m : Append(hist.batches, b)[i] = hist.batches[i]
      /\ Append(hist.batches, b)[m + 1] = b
  BY <1>1, <1>2, AppendProperties
<1>4. Last(hist'.batches) = b
  BY <1>2, <1>3 DEF Last
<1>5. manual' = [manual EXCEPT !.next_sequence = @ + 1, !.pending = Append(@, item)]
  BY <1>4 DEF ManualCommand
<1> HIDE DEF b
<1>6. item \in AcceptedHistory
  BY <1>1, <1>2 DEF AcceptedHistory
<1> HIDE DEF item
<1>7. /\ manual'.next_sequence = k + 1
      /\ manual'.pending = Append(p, item)
      /\ manual'.generation = manual.generation
  BY <1>1, <1>5 DEF ManualIngress
<1>8. /\ Append(p, item) \in Seq(AcceptedHistory)
      /\ Len(Append(p, item)) = n + 1
      /\ \A i \in 1 .. n : Append(p, item)[i] = p[i]
      /\ Append(p, item)[n + 1] = item
  BY <1>1, <1>6, AppendProperties
<1>9. /\ n < k /\ n <= m
      /\ \A i \in 1 .. n : /\ p[i].batch = hist.batches[m - n + i]
                           /\ p[i].sequence = k - 1 - n + i
  BY <1>1 DEF ManualInv, ManualStreamExact
<1>10. item.batch = b /\ item.sequence = k
  BY DEF item
<1> DEFINE q == Append(p, item)
           s == Append(hist.batches, b)
<1> HIDE DEF q, s, p, n, m, k
<1>11. ASSUME NEW i \in 1 .. n + 1
       PROVE  /\ q[i].batch = s[(m + 1) - (n + 1) + i]
              /\ q[i].sequence = (k + 1) - 1 - (n + 1) + i
  <2>1. CASE i \in 1 .. n
    <3>1. q[i] = p[i] /\ m - n + i \in 1 .. m
      BY <1>1, <1>8, <1>9, <2>1 DEF q
    <3>2. s[m - n + i] = hist.batches[m - n + i]
      BY <1>3, <3>1 DEF s
    <3>3. (m + 1) - (n + 1) + i = m - n + i
      BY <1>1
    <3>4. (k + 1) - 1 - (n + 1) + i = k - 1 - n + i
      BY <1>1
    <3>5. /\ p[i].batch = hist.batches[m - n + i]
          /\ p[i].sequence = k - 1 - n + i
      BY <1>9, <2>1
    <3> QED
      BY <3>1, <3>2, <3>3, <3>4, <3>5
  <2>2. CASE i = n + 1
    <3>1. (m + 1) - (n + 1) + i = m + 1
      BY <1>1, <2>2
    <3> QED
      BY <1>1, <1>3, <1>8, <1>10, <2>2, <3>1, SMTT(60) DEF q, s
  <2> QED
    BY <1>1, <2>1, <2>2
<1>12. ManualStreamExact'
  <2>1. Len(manual'.pending) = n + 1 /\ Len(hist'.batches) = m + 1
    BY <1>2, <1>3, <1>7, <1>8
  <2>2. n + 1 < k + 1 /\ n + 1 <= m + 1
    BY <1>1, <1>9
  <2> QED
    BY <1>2, <1>7, <1>11, <2>1, <2>2 DEF ManualStreamExact, q, s
<1>13. OneAdmission' /\ OutboxWasRead'
  BY <1>1, <1>7 DEF ManualInv, OneAdmission, OutboxWasRead, ManualCommand, RunCommand
<1>14. AckedWasRead'
  <2>1. Len(manual'.pending) = n + 1 /\ manual'.next_sequence = k + 1
    BY <1>7, <1>8
  <2>2. (k + 1) - 1 - (n + 1) = k - 1 - n
    BY <1>1
  <2>3. k - 1 - n <= read_high
    BY <1>1 DEF ManualInv, AckedWasRead, n, p, k
  <2>4. read_high' = read_high
    BY DEF ManualCommand
  <2> QED
    BY <2>1, <2>2, <2>3, <2>4 DEF AckedWasRead
<1> QED
  BY <1>12, <1>13, <1>14 DEF ManualInv

(* Acknowledging what a publisher read removes exactly those items, and    *)
(* they were read.                                                         *)
LEMMA ManualAcks ==
    ASSUME TypeOK, ManualInv, NEW proof \in Proof, NEW count \in 1 .. ManualCommands,
           ManualAck(proof, count)
    PROVE  ManualInv'
<1> DEFINE p == manual.pending
           o == outbox.items
           n == Len(p)
           m == Len(hist.batches)
           q == SubSeq(p, count + 1, n)
<1> USE DEF state, admission, clients
<1>1. /\ manual \in ManualIngress /\ p \in Seq(AcceptedHistory) /\ n \in Nat
      /\ m \in Nat /\ manual.next_sequence \in Nat \ {0} /\ manual # None
      /\ outbox # None /\ outbox.generation = manual.generation
      /\ o \in Seq(AcceptedHistory) /\ Len(o) \in Nat
  BY LenProperties DEF ManualAck, TypeOK, ManualIngress, History, Outbox
<1>2. count \in 1 .. Len(o) /\ count \in 0 .. Len(o) /\ count \in Nat
  BY <1>1 DEF ManualAck
<1>3. Len(SubSeq(o, 1, count)) = count /\ SubSeq(o, 1, count)[count] = o[count]
  BY <1>1, <1>2, PrefixLemma
<1>4. count <= n /\ SubSeq(o, 1, count) = SubSeq(p, 1, count)
  BY <1>3 DEF ManualAck, AckMatches
<1>5. count \in 1 .. n /\ count \in 0 .. n
  BY <1>1, <1>2, <1>4
<1>6. SubSeq(p, 1, count)[count] = p[count]
  BY <1>1, <1>5, PrefixLemma
<1>7. q \in Seq(AcceptedHistory) /\ Len(q) = n - count
      /\ \A i \in 1 .. n - count : q[i] = p[count + i]
  BY <1>1, <1>5, SuffixLemma
<1>8. /\ manual'.next_sequence = manual.next_sequence /\ manual'.pending = q
      /\ manual'.generation = manual.generation
  BY <1>1 DEF ManualAck, ManualIngress
<1>9. UNCHANGED <<hist, pending_floor, manual_generation, outbox, read_high>>
  BY DEF ManualAck
<1>10. /\ n < manual.next_sequence /\ n <= m
       /\ \A i \in 1 .. n : /\ p[i].batch = hist.batches[m - n + i]
                            /\ p[i].sequence = manual.next_sequence - 1 - n + i
  BY <1>1 DEF ManualInv, ManualStreamExact
<1>11. o[count].sequence <= read_high
  BY <1>1, <1>2 DEF ManualInv, OutboxWasRead
<1> HIDE DEF q, p, n, m, o
<1>12. ASSUME NEW i \in 1 .. n - count
       PROVE  /\ q[i].batch = hist.batches[m - (n - count) + i]
              /\ q[i].sequence = manual.next_sequence - 1 - (n - count) + i
  <2>1. count + i \in 1 .. n /\ q[i] = p[count + i]
    BY <1>1, <1>2, <1>7
  <2>2. m - (n - count) + i = m - n + (count + i)
    BY <1>1, <1>2
  <2>3. manual.next_sequence - 1 - (n - count) + i = manual.next_sequence - 1 - n + (count + i)
    BY <1>1, <1>2
  <2> QED
    BY <1>10, <2>1, <2>2, <2>3
<1>13. ManualStreamExact'
  <2>1. n - count < manual.next_sequence /\ n - count <= m
    BY <1>1, <1>2, <1>10
  <2> QED
    BY <1>7, <1>8, <1>9, <1>12, <2>1 DEF ManualStreamExact, m
<1>14. OneAdmission' /\ OutboxWasRead'
  BY <1>1, <1>8, <1>9 DEF ManualInv, OneAdmission, OutboxWasRead
<1>15. AckedWasRead'
  <2>1. p[count].sequence = manual.next_sequence - 1 - n + count
    BY <1>5, <1>10
  <2>2. p[count] = o[count]
    BY <1>3, <1>4, <1>6
  <2>3. manual.next_sequence - 1 - (n - count) = manual.next_sequence - 1 - n + count
    BY <1>1, <1>2
  <2> QED
    BY <1>7, <1>8, <1>9, <1>11, <2>1, <2>2, <2>3 DEF AckedWasRead
<1> QED
  BY <1>13, <1>14, <1>15 DEF ManualInv

(* A fresh permit starts an empty stream under a number no publisher has   *)
(* seen.                                                                   *)
LEMMA ManualBinds ==
    ASSUME TypeOK, ManualInv, BindIngress
    PROVE  ManualInv'
<1> USE DEF state, admission, clients
<1>1. /\ manual' = NewIngress(manual_generation + 1)
      /\ manual_generation' = manual_generation + 1 /\ read_high' = 0
      /\ pending_floor = None /\ UNCHANGED <<pending_floor, outbox, hist>>
  BY DEF BindIngress
<1>2. /\ manual'.pending = << >> /\ manual'.next_sequence = 1
      /\ manual'.generation = manual_generation + 1
  BY <1>1 DEF NewIngress
<1>3. Len(manual'.pending) = 0 /\ Len(hist.batches) \in Nat
  BY <1>2, EmptySeq, LenProperties DEF TypeOK, History
<1>4. ManualStreamExact'
  BY <1>1, <1>2, <1>3 DEF ManualStreamExact
<1>5. AckedWasRead'
  BY <1>1, <1>2, <1>3 DEF AckedWasRead
<1>6. OutboxWasRead'
  <2>1. manual_generation \in Nat
    BY DEF TypeOK
  <2>2. ASSUME outbox # None
        PROVE  outbox.generation \in Nat /\ outbox.generation <= manual_generation
    BY <2>2 DEF TypeOK, Outbox, ManualInv, OutboxWasRead
  <2>3. ASSUME outbox # None
        PROVE  /\ outbox.generation <= manual_generation + 1
               /\ outbox.generation # manual_generation + 1
    BY <2>1, <2>2, <2>3
  <2> QED
    BY <1>1, <1>2, <2>3 DEF OutboxWasRead
<1> QED
  BY <1>1, <1>4, <1>5, <1>6 DEF ManualInv, OneAdmission

(* Reading the queue leaves it, and raises the mark to its end.            *)
LEMMA ManualReads ==
    ASSUME TypeOK, ManualInv, ManualPending
    PROVE  ManualInv'
<1> USE DEF state, admission, clients
<1> DEFINE n == Len(manual.pending)
<1>1. /\ manual \in ManualIngress /\ n \in Nat
      /\ manual.next_sequence \in Nat \ {0} /\ manual # None
  BY LenProperties DEF ManualPending, TypeOK, ManualIngress
<1>2. /\ outbox' = [generation |-> manual.generation, items |-> manual.pending]
      /\ read_high' = manual.next_sequence - 1
      /\ UNCHANGED <<hist, manual, pending_floor, manual_generation>>
  BY DEF ManualPending
<1>3. outbox'.generation = manual.generation /\ outbox'.items = manual.pending
  BY <1>2
<1>4. /\ manual.generation = manual_generation /\ manual_generation \in Nat
      /\ \A i \in 1 .. n : manual.pending[i].sequence = manual.next_sequence - 1 - n + i
  BY <1>1 DEF ManualInv, OutboxWasRead, ManualStreamExact, TypeOK
<1>5. ASSUME NEW i \in 1 .. n PROVE manual.pending[i].sequence <= manual.next_sequence - 1
  <2>1. manual.next_sequence - 1 - n + i <= manual.next_sequence - 1
    BY <1>1
  <2> QED
    BY <1>4, <2>1
<1>6. OutboxWasRead'
  <2>1. outbox'.generation <= manual_generation'
    BY <1>2, <1>3, <1>4
  <2> QED
    BY <1>2, <1>3, <1>4, <1>5, <2>1 DEF OutboxWasRead
<1>7. AckedWasRead'
  BY <1>1, <1>2 DEF AckedWasRead
<1> QED
  BY <1>2, <1>6, <1>7 DEF ManualInv, OneAdmission, ManualStreamExact

(* The manual queue and what publishers read of it stay in step with the   *)
(* accepted stream.                                                        *)
LEMMA ManualInvariant == Spec => []ManualInv
<1>1. Init => ManualInv
  BY DEF Init, ManualInv, OneAdmission, ManualStreamExact, OutboxWasRead, AckedWasRead
<1>2. TypeOK /\ ManualInv /\ [Next]_vars => ManualInv'
  <2> SUFFICES ASSUME TypeOK, ManualInv, [Next]_vars PROVE ManualInv'
    OBVIOUS
  <2> USE DEF state, admission, clients
  <2>1. ASSUME UNCHANGED <<hist, pending_floor, manual, manual_generation, outbox, read_high>>
        PROVE  ManualInv'
    BY <2>1 DEF ManualInv, OneAdmission, ManualStreamExact, OutboxWasRead, AckedWasRead
  <2>2. ASSUME manual' = None, UNCHANGED <<manual_generation, outbox>>
        PROVE  ManualInv'
    BY <2>2 DEF ManualInv, OneAdmission, ManualStreamExact, OutboxWasRead, AckedWasRead
  <2>3. ASSUME NEW id, NEW commit \in BOOLEAN, SettleFloor(id, commit),
               UNCHANGED <<manual, manual_generation, outbox, read_high>>
        PROVE  ManualInv'
    <3>1. CASE manual = None
      BY <2>2, <2>3, <3>1
    <3>2. CASE manual # None
      <4>1. pending_floor = None
        BY <3>2 DEF ManualInv, OneAdmission
      <4>2. UNCHANGED <<hist, pending_floor>>
        BY <2>3, <4>1 DEF SettleFloor, HoldsFloor
      <4> QED
        BY <2>1, <2>3, <4>2
    <3> QED
      BY <3>1, <3>2
  <2>4. ASSUME NEW proof \in Proof, NEW id \in 1 .. next_floor_id,
               \/ \E tag \in Tag : TagPublication(proof, id, tag)
               \/ RetainUntilReconcile(proof, id)
        PROVE  ManualInv'
    <3>1. pending_floor # None /\ UNCHANGED <<manual, manual_generation, outbox>>
      BY <2>4 DEF TagPublication, RetainUntilReconcile, HoldsFloor
    <3>2. manual = None
      BY <3>1 DEF ManualInv, OneAdmission
    <3> QED
      BY <2>2, <3>1, <3>2
  <2>5. ASSUME NEW proof \in Proof, NEW id \in 1 .. next_floor_id,
               \/ \E commit \in BOOLEAN : SettleBarrier(proof, id, commit)
               \/ DropBarrier(proof, id)
        PROVE  ManualInv'
    BY <2>1, <2>3, <2>5 DEF SettleBarrier, DropBarrier
  <2>6. ASSUME NEW proof \in Proof, NEW commit \in BOOLEAN, SettleTicket(proof, commit)
        PROVE  ManualInv'
    BY <2>3, <2>6 DEF SettleTicket
  <2>7. ASSUME NEW proof \in Proof,
               \/ \E discard \in 1 .. MaxBatches : BeginFloor(proof, discard)
               \/ \E discard \in 0 .. MaxBatches, close \in BOOLEAN :
                        InstallFrozenTransition(proof, discard, close)
               \/ \E after \in Offered : InstallFrozenCheckpoint(proof, after)
        PROVE  ManualInv'
    BY <2>2, <2>7 DEF BeginFloor, InstallFrozenTransition, InstallFrozenCheckpoint,
                      InstallFrozen
  <2>8. ASSUME NEW requested \in Proof \cup {None}, NEW after \in Offered,
               RestoreHistory(requested, after)
        PROVE  ManualInv'
    BY <2>2, <2>8 DEF RestoreHistory
  <2>9. ASSUME NEW cmd \in JournalCommand, Command(cmd) PROVE ManualInv'
    BY <2>2, <2>9 DEF Command
  <2>10. ASSUME NEW cmd \in JournalCommand, ManualCommand(cmd) PROVE ManualInv'
    BY <2>10, ManualAppends
  <2>11. ASSUME NEW proof \in Proof, BindManual(proof) \/ ResumeManual(proof) PROVE ManualInv'
    BY <2>11, ManualBinds DEF BindManual, ResumeManual
  <2>12. ASSUME NEW proof \in Proof, NEW count \in 1 .. ManualCommands, ManualAck(proof, count)
         PROVE  ManualInv'
    BY <2>12, ManualAcks
  <2>13. CASE ManualPending
    BY <2>13, ManualReads
  <2>14. ASSUME NEW proof \in Proof,
               \/ BindOwner(proof) \/ CaptureCut(proof)
               \/ \E seal \in BOOLEAN : FinishAttachment(proof, seal)
         PROVE  ManualInv'
    BY <2>1, <2>14 DEF BindOwner, CaptureCut, FinishAttachment
  <2>15. CASE ExportHistory \/ ReadTicket \/ UNCHANGED vars
    BY <2>1, <2>15 DEF ExportHistory, ReadTicket, vars
  <2> QED
    BY <2>4, <2>5, <2>6, <2>7, <2>8, <2>9, <2>10, <2>11, <2>12, <2>13, <2>14, <2>15 DEF Next
<1> QED
  BY <1>1, <1>2, TypeCorrect, PTL DEF Spec

(* While a manual producer is bound, its queue is exactly the              *)
(* unacknowledged end of the accepted stream, gaplessly numbered: neither  *)
(* a plain command nor a floor nor a restore slips in behind its back.     *)
THEOREM ManualStreamCorrect == Spec => []ManualStreamExact
BY ManualInvariant, PTL DEF ManualInv

(* A late, repeated or foreign acknowledgement never drops an edit no      *)
(* publisher has read.                                                     *)
THEOREM AckedCorrect == Spec => []AckedWasRead
BY ManualInvariant, PTL DEF ManualInv
=============================================================================
