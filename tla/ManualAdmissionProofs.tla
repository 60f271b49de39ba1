----------------------- MODULE ManualAdmissionProofs -----------------------
(***************************************************************************)
(* Theorems about manual admission, for every document type and bound: its *)
(* types, that the patched cache spells the live history, and that         *)
(* admission with rollback implements AtomicAdmission.  Two facts about    *)
(* the operators carry all of them: the delta of a command restores the    *)
(* history exactly, refused before or after the command ran                *)
(* (RollbackRefused, RollbackCandidate), and the prefixes the cache keeps  *)
(* are common to the old and the new stacks (CacheFollows).                *)
(***************************************************************************)
EXTENDS ManualAdmission, CoreHistoryProofs

-----------------------------------------------------------------------------
(* Sequences.                                                              *)

(* Vec::truncate gives back a stack from one that extends it.              *)
LEMMA TruncateBack ==
    ASSUME NEW S, NEW s \in Seq(S), NEW t \in Seq(S), Len(s) <= Len(t),
           \A i \in 1 .. Len(s) : t[i] = s[i]
    PROVE  Truncate(t, Len(s)) = s
<1>1. Len(s) \in Nat /\ Len(t) \in Nat
  BY LenProperties
<1>2. CASE Len(s) = Len(t)
  BY <1>1, <1>2, SeqEqual DEF Truncate
<1>3. CASE Len(s) # Len(t)
  <2>1. Len(s) \in 0 .. Len(t) /\ Len(s) < Len(t)
    BY <1>1, <1>3
  <2> DEFINE u == SubSeq(t, 1, Len(s))
  <2>2. u \in Seq(S) /\ Len(u) = Len(s) /\ \A i \in 1 .. Len(s) : u[i] = t[i]
    BY <2>1, PrefixLemma
  <2> HIDE DEF u
  <2>3. u = s
    BY <2>2, SeqEqual
  <2> QED
    BY <2>1, <2>3 DEF Truncate, u
<1> QED
  BY <1>2, <1>3

LEMMA TruncateConcat ==
    ASSUME NEW S, NEW s \in Seq(S), NEW t \in Seq(S)
    PROVE  Truncate(s \o t, Len(s)) = s
<1>1. Len(s) \in Nat /\ Len(t) \in Nat
  BY LenProperties
<1>2. /\ s \o t \in Seq(S) /\ Len(s \o t) = Len(s) + Len(t)
      /\ \A i \in 1 .. Len(s) + Len(t) : (s \o t)[i] = IF i <= Len(s) THEN s[i] ELSE t[i - Len(s)]
  BY ConcatProperties
<1> DEFINE u == s \o t
<1> HIDE DEF u
<1>3. u \in Seq(S) /\ Len(s) <= Len(u) /\ \A i \in 1 .. Len(s) : u[i] = s[i]
  BY <1>1, <1>2 DEF u
<1>4. Truncate(u, Len(s)) = s
  BY <1>3, TruncateBack
<1> QED
  BY <1>4 DEF u

LEMMA TruncateAppend ==
    ASSUME NEW S, NEW s \in Seq(S), NEW e \in S
    PROVE  Truncate(Append(s, e), Len(s)) = s
<1>1. Len(s) \in Nat
  BY LenProperties
<1> DEFINE u == Append(s, e)
<1>2. u \in Seq(S) /\ Len(u) = Len(s) + 1 /\ \A i \in 1 .. Len(s) : u[i] = s[i]
  BY AppendProperties
<1> HIDE DEF u
<1>3. Truncate(u, Len(s)) = s
  BY <1>1, <1>2, TruncateBack
<1> QED
  BY <1>3 DEF u

LEMMA TruncateAll ==
    ASSUME NEW S, NEW s \in Seq(S)
    PROVE  Truncate(s, Len(s)) = s
BY LenProperties DEF Truncate

(* A prefix that two stacks share and the rest of the second make the      *)
(* second: what replace_tail relies on.                                    *)
LEMMA Splice ==
    ASSUME NEW S, NEW s \in Seq(S), NEW t \in Seq(S), NEW p \in Nat,
           p <= Len(s), p <= Len(t), \A i \in 1 .. p : s[i] = t[i]
    PROVE  SubSeq(s, 1, p) \o SubSeq(t, p + 1, Len(t)) = t
<1>1. Len(s) \in Nat /\ Len(t) \in Nat
  BY LenProperties
<1>2. p \in 0 .. Len(s) /\ p \in 0 .. Len(t)
  BY <1>1
<1> DEFINE a == SubSeq(s, 1, p)
           b == SubSeq(t, 1, p)
<1>3. a \in Seq(S) /\ Len(a) = p /\ \A i \in 1 .. p : a[i] = s[i]
  BY <1>2, PrefixLemma
<1>4. b \in Seq(S) /\ Len(b) = p /\ \A i \in 1 .. p : b[i] = t[i]
  BY <1>2, PrefixLemma
<1> HIDE DEF a, b
<1>5. a = b
  BY <1>3, <1>4, SeqEqual
<1>6. 1 \in 1 .. Len(t) + 1 /\ p \in 1 - 1 .. Len(t) /\ Len(t) \in p .. Len(t)
  BY <1>1
<1>7. SubSeq(t, 1, p) \o SubSeq(t, p + 1, Len(t)) = SubSeq(t, 1, Len(t))
  BY <1>6, ConcatAdjacentSubSeq
<1>8. SubSeq(t, 1, Len(t)) = t
  BY SubSeqFull
<1> QED
  BY <1>5, <1>7, <1>8 DEF a, b

(* The patch of an array puts it back, whatever tail replaced its own.     *)
LEMMA PatchRestores ==
    ASSUME NEW S, NEW s \in Seq(S), NEW p \in 0 .. Len(s), NEW tail \in Seq(S)
    PROVE  RollbackArray(ReplaceTail(s, p, tail), Patch(s, p)) = s
<1>1. Len(s) \in Nat /\ p \in Nat /\ Len(tail) \in Nat
  BY LenProperties
<1> DEFINE a == SubSeq(s, 1, p)
           u == a \o tail
<1>2. a \in Seq(S) /\ Len(a) = p /\ \A i \in 1 .. p : a[i] = s[i]
  BY PrefixLemma
<1> HIDE DEF a
<1>3. /\ u \in Seq(S) /\ Len(u) = Len(a) + Len(tail)
      /\ \A i \in 1 .. Len(a) + Len(tail) : u[i] = IF i <= Len(a) THEN a[i] ELSE tail[i - Len(a)]
  BY <1>2, ConcatProperties
<1> HIDE DEF u
<1>4. p <= Len(u) /\ p <= Len(s) /\ \A i \in 1 .. p : u[i] = s[i]
  BY <1>1, <1>2, <1>3
<1>5. SubSeq(u, 1, p) \o SubSeq(s, p + 1, Len(s)) = s
  BY <1>1, <1>3, <1>4, Splice
<1> QED
  BY <1>5 DEF RollbackArray, ReplaceTail, Patch, u, a

-----------------------------------------------------------------------------
(* Histories.                                                              *)

LEMMA SameHistory ==
    ASSUME NEW g \in History, NEW h \in History,
           g.document = h.document, g.revision = h.revision, g.undo = h.undo,
           g.redo = h.redo, g.op_log = h.op_log, g.batches = h.batches
    PROVE  g = h
<1>1. g = [document |-> g.document, revision |-> g.revision, undo |-> g.undo,
           redo |-> g.redo, op_log |-> g.op_log, batches |-> g.batches]
  BY DEF History
<1>2. h = [document |-> h.document, revision |-> h.revision, undo |-> h.undo,
           redo |-> h.redo, op_log |-> h.op_log, batches |-> h.batches]
  BY DEF History
<1> QED
  BY <1>1, <1>2

LEMMA SameEntry ==
    ASSUME NEW d \in HistoryEntry, NEW e \in HistoryEntry,
           d.document = e.document, d.operations = e.operations, d.coalesce_key = e.coalesce_key
    PROVE  d = e
BY DEF HistoryEntry

(* Taking the redo stack out before an edit changes nothing of the edit.   *)
LEMMA TakeRedoType ==
    ASSUME NEW h \in History, NEW cmd
    PROVE  /\ TakeRedo(h, cmd) \in History
           /\ TakeRedo(h, cmd).document = h.document /\ TakeRedo(h, cmd).revision = h.revision
           /\ TakeRedo(h, cmd).undo = h.undo /\ TakeRedo(h, cmd).op_log = h.op_log
           /\ TakeRedo(h, cmd).batches = h.batches
           /\ IsEdit(cmd) => TakeRedo(h, cmd).redo = << >>
           /\ ~ IsEdit(cmd) => TakeRedo(h, cmd) = h
<1>1. << >> \in Seq(HistoryEntry)
  BY EmptySeq
<1> QED
  BY <1>1 DEF TakeRedo, History

LEMMA TakeRedoExec ==
    ASSUME NEW h \in History, NEW cmd \in JournalCommand
    PROVE  /\ Accepts(TakeRedo(h, cmd), CanonicalCommand(cmd)) <=> Accepts(h, CanonicalCommand(cmd))
           /\ Accepts(h, CanonicalCommand(cmd)) => Exec(TakeRedo(h, cmd), cmd) = Exec(h, cmd)
<1> DEFINE t == TakeRedo(h, cmd)
           c == CanonicalCommand(cmd)
<1>1. c \in JournalCommand /\ c.type = cmd.type
  BY CanonicalCommandType
<1>2. /\ t \in History /\ t.document = h.document /\ t.undo = h.undo /\ t.op_log = h.op_log
      /\ t.batches = h.batches /\ t.revision = h.revision
      /\ ~ IsEdit(cmd) => t = h
  BY TakeRedoType
<1> HIDE DEF t, c
<1>3. Accepts(t, c) <=> Accepts(h, c)
  BY <1>2 DEF Accepts
<1>4. ASSUME Accepts(h, c)
      PROVE  Exec(t, cmd) = Exec(h, cmd)
  <2>1. CASE ~ IsEdit(cmd)
    BY <1>2, <2>1
  <2>2. CASE IsEdit(cmd)
    <3>1. Applied(t, c) = Edit(t, c) /\ Applied(h, c) = Edit(h, c)
      BY <1>1, <2>2 DEF Applied, IsEdit
    <3>2. PushClosed(t, c.ops) = PushClosed(h, c.ops)
      BY <1>2 DEF PushClosed
    <3>3. PushCoalesced(t, c.ops, c.key) = PushCoalesced(h, c.ops, c.key)
      BY <1>2 DEF PushCoalesced, Merges
    <3>4. Applied(t, c) \in History /\ Applied(h, c) \in History
      BY <1>1, <1>2, <1>3, <1>4, AppliedType
    <3>5. Edit(t, c) = Edit(h, c)
      <4> DEFINE x == Edit(t, c)
                 y == Edit(h, c)
      <4>1. /\ x.document = y.document /\ x.revision = y.revision /\ x.undo = y.undo
            /\ x.redo = y.redo /\ x.op_log = y.op_log /\ x.batches = y.batches
        BY <1>2, <3>2, <3>3 DEF Edit, History
      <4> HIDE DEF x, y
      <4>2. x \in History /\ y \in History
        BY <3>1, <3>4 DEF x, y
      <4>3. x = y
        BY <4>1, <4>2, SameHistory
      <4> QED
        BY <4>3 DEF x, y
    <3> QED
      BY <1>3, <1>4, <3>1, <3>5 DEF Exec, c
  <2> QED
    BY <2>1, <2>2
<1> QED
  BY <1>3, <1>4 DEF t, c

(* What a command leaves of the stacks: the candidate, as far as a         *)
(* rollback and the cache need to know it.                                 *)
Grown(h, k, ops) ==
    \/ \E e \in HistoryEntry : k.undo = Append(h.undo, e)
    \/ h.undo # << >> /\ k.undo = ReplaceAt(h.undo, Len(h.undo), Extended(Last(h.undo), ops))

LEMMA CandidateShape ==
    ASSUME NEW h \in History, NEW cmd \in JournalCommand,
           Accepts(h, CanonicalCommand(cmd))
    PROVE  LET k == Exec(TakeRedo(h, cmd), cmd)
               c == CanonicalCommand(cmd)
           IN  /\ k \in History
               /\ \E b \in HistoryBatch : k.batches = Append(h.batches, b)
               /\ cmd.type \in {"Undo", "Redo"} => k.op_log = h.op_log
               /\ cmd.type = "Undo" => k.undo = UndoStep(h).undo /\ k.redo = UndoStep(h).redo
               /\ cmd.type = "Redo" => k.undo = RedoStep(h).undo /\ k.redo = RedoStep(h).redo
               /\ IsEdit(cmd) => /\ c.ops \in Seq(Op) /\ k.op_log = h.op_log \o c.ops
                                 /\ k.redo = << >> /\ Grown(h, k, c.ops)
<1> DEFINE c == CanonicalCommand(cmd)
           x == Applied(h, c)
           k == Exec(TakeRedo(h, cmd), cmd)
<1>1. c \in JournalCommand /\ c.type = cmd.type
  BY CanonicalCommandType
<1>2. k = Exec(h, cmd) /\ k = Record(x, c)
  BY TakeRedoExec DEF Exec
<1>3. x \in History
  BY <1>1, AppliedType
<1>4. \E b \in HistoryBatch : k.batches = Append(h.batches, b)
  BY <1>2, ExecBatch
<1>5. k \in History
  BY <1>2, ExecType
<1> HIDE DEF k
<1>6. k.undo = x.undo /\ k.redo = x.redo /\ k.op_log = x.op_log
  BY <1>2, <1>3 DEF Record, History
<1>7. ASSUME cmd.type = "Undo"
      PROVE  k.undo = UndoStep(h).undo /\ k.redo = UndoStep(h).redo /\ k.op_log = h.op_log
  BY <1>1, <1>6, <1>7 DEF Applied, UndoStep, History
<1>8. ASSUME cmd.type = "Redo"
      PROVE  k.undo = RedoStep(h).undo /\ k.redo = RedoStep(h).redo /\ k.op_log = h.op_log
  BY <1>1, <1>6, <1>8 DEF Applied, RedoStep, History
<1>9. ASSUME IsEdit(cmd)
      PROVE  /\ c.ops \in Seq(Op) /\ k.op_log = h.op_log \o c.ops
             /\ k.redo = << >> /\ Grown(h, k, c.ops)
  <2>1. x = Edit(h, c)
    BY <1>1, <1>9 DEF Applied, IsEdit
  <2>2. c.ops \in Seq(Op) /\ c.key \in Key \cup {None}
    BY <1>1, CommandType
  <2>3. /\ x.op_log = h.op_log \o c.ops /\ x.redo = << >>
        /\ x.undo = PushClosed(h, c.ops) \/ x.undo = PushCoalesced(h, c.ops, c.key)
    BY <2>1 DEF Edit, History
  <2>4. Entry(h.document, c.ops, None) \in HistoryEntry /\ Entry(h.document, c.ops, c.key) \in HistoryEntry
    BY <2>2 DEF Entry, HistoryEntry, History
  <2>5. CASE x.undo = PushClosed(h, c.ops)
    BY <1>6, <2>2, <2>3, <2>4, <2>5 DEF Grown, PushClosed
  <2>6. CASE x.undo = PushCoalesced(h, c.ops, c.key)
    BY <1>6, <2>2, <2>3, <2>4, <2>6 DEF Grown, PushCoalesced, Merges
  <2> QED
    BY <2>3, <2>5, <2>6
<1> QED
  BY <1>4, <1>5, <1>7, <1>8, <1>9 DEF k

(* The common end of every rollback.                                       *)
LEMMA RollbackEnd ==
    ASSUME NEW h \in History, NEW k \in History, NEW cmd, NEW stacks \in History,
           stacks.undo = h.undo, stacks.redo = h.redo,
           stacks.op_log = k.op_log, stacks.batches = k.batches,
           Truncate(k.op_log, Len(h.op_log)) = h.op_log,
           Truncate(k.batches, Len(h.batches)) = h.batches,
           stacks = CASE cmd.type = "Undo" -> RestoreUndo(Begin(h, cmd), k)
                      [] cmd.type = "Redo" -> RestoreRedo(Begin(h, cmd), k)
                      [] OTHER -> RestoreEdit(Begin(h, cmd), k)
    PROVE  Rollback(Begin(h, cmd), k, cmd) = h
<1> DEFINE d == Begin(h, cmd)
           r == [stacks EXCEPT !.document = d.document, !.revision = d.revision,
                               !.op_log = Truncate(@, d.op_log_len),
                               !.batches = Truncate(@, d.batches_len)]
<1>1. Rollback(d, k, cmd) = r
  BY DEF Rollback
<1>2. /\ d.document = h.document /\ d.revision = h.revision
      /\ d.op_log_len = Len(h.op_log) /\ d.batches_len = Len(h.batches)
  BY DEF Begin
<1> HIDE DEF d
<1>3. /\ r.document = h.document /\ r.revision = h.revision /\ r.undo = h.undo
      /\ r.redo = h.redo /\ r.op_log = h.op_log /\ r.batches = h.batches
      /\ r \in History
  BY <1>2 DEF History
<1> HIDE DEF r
<1>4. r = h
  BY <1>3, SameHistory
<1> QED
  BY <1>1, <1>4 DEF d

(* A refused edit: its entry is cut off, or its operations are cut off the *)
(* entry they were merged into.                                            *)
LEMMA RestoreEditExact ==
    ASSUME NEW h \in History, NEW k \in History, NEW cmd, IsEdit(cmd), NEW ops \in Seq(Op),
           k.undo = h.undo \/ Grown(h, k, ops)
    PROVE  LET r == RestoreEdit(Begin(h, cmd), k) IN
           /\ r \in History /\ r.undo = h.undo /\ r.redo = h.redo
           /\ r.op_log = k.op_log /\ r.batches = k.batches
<1> DEFINE d == Begin(h, cmd)
           n == Len(h.undo)
           u == Truncate(k.undo, n)
           top == Last(h.undo)
           v == IF u = << >> \/ d.undo_top = None THEN u
                ELSE [u EXCEPT ![Len(u)].operations = Truncate(@, Len(d.undo_top.operations))]
<1>1. /\ d.redo = h.redo /\ d.undo_len = n
      /\ d.undo_top = IF h.undo = << >> THEN None ELSE top
  BY DEF Begin
<1>2. h.undo \in Seq(HistoryEntry) /\ k.undo \in Seq(HistoryEntry) /\ n \in Nat
  BY LenProperties DEF History
<1>3. ASSUME h.undo # << >>
      PROVE  /\ top \in HistoryEntry /\ top # None /\ n \in Nat \ {0} /\ top = h.undo[n]
             /\ top.operations \in Seq(Op)
  <2>1. top \in HistoryEntry /\ n \in Nat \ {0}
    BY <1>2, <1>3, FrontLast
  <2> QED
    BY <2>1, NoneIsNoEntry DEF Last, HistoryEntry
<1>4. \/ u = h.undo
      \/ /\ h.undo # << >>
         /\ u = ReplaceAt(h.undo, n, Extended(top, ops))
  <2>1. CASE k.undo = h.undo
    BY <1>2, <2>1, TruncateAll
  <2>2. ASSUME NEW e \in HistoryEntry, k.undo = Append(h.undo, e)
        PROVE  u = h.undo
    BY <1>2, <2>2, TruncateAppend
  <2>3. CASE h.undo # << >> /\ k.undo = ReplaceAt(h.undo, n, Extended(top, ops))
    <3>1. Extended(top, ops) \in HistoryEntry
      <4>1. top.operations \o ops \in Seq(Op)
        BY <1>3, <2>3, ConcatProperties
      <4> QED
        BY <1>3, <2>3, <4>1 DEF Extended, HistoryEntry
    <3>2. Len(k.undo) = n
      BY <1>2, <2>3, <3>1, ReplaceLast
    <3>3. u = k.undo
      BY <1>2, <3>2, TruncateAll
    <3> QED
      BY <2>3, <3>3
  <2> QED
    BY <2>1, <2>2, <2>3 DEF Grown
<1>5. v = h.undo
  <2>1. CASE h.undo = << >>
    BY <1>4, <2>1
  <2>2. CASE h.undo # << >>
    <3>1. /\ u \in Seq(HistoryEntry) /\ Len(u) = n
          /\ \A i \in 1 .. n - 1 : u[i] = h.undo[i]
          /\ u[n] \in {top, Extended(top, ops)}
      <4>1. CASE u = h.undo
        BY <1>2, <1>3, <2>2, <4>1
      <4>2. CASE u = ReplaceAt(h.undo, n, Extended(top, ops))
        <5>1. Extended(top, ops) \in HistoryEntry
          <6>1. top.operations \o ops \in Seq(Op)
            BY <1>3, <2>2, ConcatProperties
          <6> QED
            BY <1>3, <2>2, <6>1 DEF Extended, HistoryEntry
        <5> DEFINE e == Extended(top, ops)
                   a == ReplaceAt(h.undo, n, e)
        <5> HIDE DEF e
        <5>2. /\ a \in Seq(HistoryEntry) /\ Len(a) = n /\ Last(a) = e
              /\ \A i \in 1 .. n - 1 : a[i] = h.undo[i]
          BY <1>2, <2>2, <5>1, ReplaceLast DEF e
        <5> HIDE DEF a
        <5>3. u = a
          BY <4>2 DEF a, e
        <5> HIDE DEF u
        <5> QED
          BY <5>2, <5>3 DEF Last, e
      <4> QED
        BY <1>4, <4>1, <4>2
    <3> HIDE DEF u, top
    <3> DEFINE w == [u[n] EXCEPT !.operations = Truncate(@, Len(top.operations))]
    <3>2. w = top
      <4>1. u[n].operations = top.operations \/ u[n].operations = top.operations \o ops
        BY <1>3, <2>2, <3>1 DEF Extended, HistoryEntry
      <4>2. Truncate(u[n].operations, Len(top.operations)) = top.operations
        BY <1>3, <2>2, <4>1, TruncateAll, TruncateConcat
      <4>3. /\ u[n] \in HistoryEntry /\ u[n].document = top.document
            /\ u[n].coalesce_key = top.coalesce_key
        <5>1. u[n] \in HistoryEntry
          BY <1>2, <1>3, <2>2, <3>1, ElementOfSeq
        <5> QED
          BY <1>3, <2>2, <3>1, <5>1 DEF Extended, HistoryEntry
      <4>4. /\ w \in HistoryEntry /\ w.document = top.document
            /\ w.operations = top.operations /\ w.coalesce_key = top.coalesce_key
        BY <1>3, <2>2, <4>2, <4>3 DEF HistoryEntry
      <4> HIDE DEF w
      <4> QED
        BY <1>3, <2>2, <4>4, SameEntry
    <3>3. v = [u EXCEPT ![n] = w]
      <4>1. u # << >> /\ d.undo_top = top /\ top # None
        BY <1>1, <1>3, <2>2, <3>1, EmptySeq
      <4> QED
        BY <3>1, <4>1
    <3> HIDE DEF w, v
    <3>4. n \in 1 .. Len(u)
      BY <1>3, <2>2, <3>1
    <3>5. /\ v \in Seq(HistoryEntry) /\ Len(v) = n
          /\ \A j \in 1 .. n : v[j] = IF j = n THEN top ELSE u[j]
      BY <1>3, <2>2, <3>1, <3>2, <3>3, <3>4, ExceptSeq
    <3>6. \A j \in 1 .. n : v[j] = h.undo[j]
      BY <1>3, <2>2, <3>1, <3>5
    <3> QED
      BY <1>2, <3>5, <3>6, SeqEqual
  <2> QED
    BY <2>1, <2>2
<1>6. RestoreEdit(d, k) = [k EXCEPT !.redo = h.redo, !.undo = v]
  BY <1>1 DEF RestoreEdit
<1> HIDE DEF v, d
<1>7. RestoreEdit(d, k) = [k EXCEPT !.redo = h.redo, !.undo = h.undo]
  BY <1>5, <1>6
<1> QED
  BY <1>7 DEF History, d

(* Pushing and popping.                                                    *)
LEMMA FrontAppend ==
    ASSUME NEW S, NEW s \in Seq(S), NEW e \in S
    PROVE  /\ Append(s, e) \in Seq(S) /\ Append(s, e) # << >>
           /\ Front(Append(s, e)) = s /\ Last(Append(s, e)) = e
<1> DEFINE a == Append(s, e)
           f == Front(a)
<1>1. Len(s) \in Nat
  BY LenProperties
<1>2. /\ a \in Seq(S) /\ a # << >> /\ Len(a) = Len(s) + 1
      /\ \A i \in 1 .. Len(s) : a[i] = s[i]
      /\ a[Len(s) + 1] = e
  BY AppendProperties
<1> HIDE DEF a
<1>3. f \in Seq(S) /\ Len(f) = Len(a) - 1 /\ \A i \in 1 .. Len(a) - 1 : f[i] = a[i]
  BY <1>2, FrontLast
<1> HIDE DEF f
<1>4. f = s
  <2>1. Len(f) = Len(s) /\ \A i \in 1 .. Len(f) : f[i] = s[i]
    BY <1>1, <1>2, <1>3
  <2> QED
    BY <1>3, <2>1, SeqEqual
<1>5. Last(a) = e
  BY <1>2 DEF Last
<1> QED
  BY <1>2, <1>4, <1>5 DEF a, f

LEMMA AppendFrontLast ==
    ASSUME NEW S, NEW s \in Seq(S), s # << >>
    PROVE  Append(Front(s), Last(s)) = s
<1>1. /\ Len(s) \in Nat \ {0} /\ Front(s) \in Seq(S) /\ Len(Front(s)) = Len(s) - 1
      /\ Last(s) \in S /\ \A i \in 1 .. Len(s) - 1 : Front(s)[i] = s[i]
  BY FrontLast
<1> DEFINE a == Append(Front(s), Last(s))
<1>2. /\ a \in Seq(S) /\ Len(a) = Len(Front(s)) + 1
      /\ \A i \in 1 .. Len(Front(s)) : a[i] = Front(s)[i]
      /\ a[Len(Front(s)) + 1] = Last(s)
  BY <1>1, AppendProperties
<1> HIDE DEF a
<1>3. Len(a) = Len(s) /\ a[Len(s)] = s[Len(s)]
  BY <1>1, <1>2 DEF Last
<1>4. \A i \in 1 .. Len(a) : a[i] = s[i]
  BY <1>1, <1>2, <1>3
<1>5. a = s
  BY <1>2, <1>3, <1>4, SeqEqual
<1> QED
  BY <1>5 DEF a

(* A refused Undo: the popped entry comes back from the redo stack, with   *)
(* the document and key that were kept, and the exposed entry gets its key *)
(* back.                                                                   *)
LEMMA RestoreUndoExact ==
    ASSUME NEW h \in History, NEW k \in History, NEW cmd,
           k.undo = UndoStep(h).undo, k.redo = UndoStep(h).redo
    PROVE  LET r == RestoreUndo(Begin(h, cmd), k) IN
           /\ r \in History /\ r.undo = h.undo /\ r.redo = h.redo
           /\ r.op_log = k.op_log /\ r.batches = k.batches
<1> DEFINE d == Begin(h, cmd)
           n == Len(h.undo)
           top == Last(h.undo)
           f == Front(h.undo)
<1>1. /\ d.undo_len = n
      /\ d.undo_top = IF h.undo = << >> THEN None ELSE top
      /\ d.exposed_key = IF n < 2 THEN None ELSE h.undo[n - 1].coalesce_key
  BY DEF Begin
<1>2. /\ h.undo \in Seq(HistoryEntry) /\ h.redo \in Seq(HistoryEntry)
      /\ k.undo \in Seq(HistoryEntry) /\ k.redo \in Seq(HistoryEntry) /\ n \in Nat
  BY LenProperties DEF History
<1> HIDE DEF d
<1>3. CASE h.undo = << >>
  <2>1. k.undo = h.undo /\ k.redo = h.redo
    BY <1>3 DEF UndoStep
  <2>2. RestoreUndo(d, k) = k
    BY <1>1, <1>2, <2>1 DEF RestoreUndo
  <2> QED
    BY <2>1, <2>2 DEF d
<1>4. CASE h.undo # << >>
  <2> DEFINE moved == Entry(h.document, top.operations, None)
             back == IF k.undo = << >> THEN << >>
                     ELSE [k.undo EXCEPT ![Len(k.undo)].coalesce_key = d.exposed_key]
             e == Entry(d.undo_top.document, Last(k.redo).operations, d.undo_top.coalesce_key)
  <2>1. /\ n \in Nat \ {0} /\ f \in Seq(HistoryEntry) /\ Len(f) = n - 1
        /\ top \in HistoryEntry /\ \A i \in 1 .. n - 1 : f[i] = h.undo[i]
    BY <1>2, <1>4, FrontLast
  <2>2. k.undo = CloseExposed(f) /\ k.redo = Append(h.redo, moved)
    BY <1>4 DEF UndoStep, History
  <2>3. moved \in HistoryEntry /\ moved.operations = top.operations
    BY <2>1 DEF Entry, HistoryEntry, History
  <2> HIDE DEF moved
  <2>4. Front(k.redo) = h.redo /\ Last(k.redo) = moved
    BY <1>2, <2>2, <2>3, FrontAppend
  <2>5. e = top
    <3>1. /\ e \in HistoryEntry /\ e.document = top.document
          /\ e.operations = top.operations /\ e.coalesce_key = top.coalesce_key
      BY <1>1, <1>4, <2>1, <2>3, <2>4 DEF Entry, HistoryEntry
    <3> HIDE DEF e, top
    <3> QED
      BY <2>1, <3>1, SameEntry
  <2> HIDE DEF f, top
  <2>6. back = f /\ Len(k.undo) = n - 1
    <3>1. CASE f = << >>
      BY <2>1, <2>2, <3>1 DEF CloseExposed
    <3>2. CASE f # << >>
      <4> DEFINE m == Len(f)
                 c == Closed(Last(f))
      <4>1. /\ m \in Nat \ {0} /\ Last(f) \in HistoryEntry /\ Last(f) = f[m]
            /\ m = n - 1 /\ f[m] = h.undo[m]
        <5>1. m \in Nat \ {0} /\ Last(f) \in HistoryEntry
          BY <2>1, <3>2, FrontLast
        <5>2. Last(f) = f[m]
          BY DEF Last
        <5> HIDE DEF m, n
        <5>3. m = n - 1 /\ m \in 1 .. n - 1
          BY <2>1, <5>1 DEF m
        <5>4. f[m] = h.undo[m]
          BY <2>1, <5>3
        <5> QED
          BY <5>1, <5>2, <5>3, <5>4
      <4>2. d.exposed_key = f[m].coalesce_key
        <5> HIDE DEF m, n
        <5>1. ~ (n < 2) /\ h.undo[n - 1] = f[m]
          BY <2>1, <4>1
        <5> QED
          BY <1>1, <5>1
      <4>3. /\ c \in HistoryEntry /\ c.document = Last(f).document
            /\ c.operations = Last(f).operations
        BY <4>1 DEF Closed, HistoryEntry
      <4> HIDE DEF c
      <4>4. k.undo = ReplaceAt(f, Len(f), c)
        BY <2>2, <3>2 DEF CloseExposed, c
      <4>5. /\ Len(k.undo) = Len(f) /\ k.undo # << >> /\ Last(k.undo) = c
            /\ \A i \in 1 .. Len(f) - 1 : k.undo[i] = f[i]
        <5> DEFINE a == ReplaceAt(f, Len(f), c)
        <5>1. /\ Len(a) = Len(f) /\ a # << >> /\ Last(a) = c
              /\ \A i \in 1 .. Len(f) - 1 : a[i] = f[i]
          <6>1. f \in Seq(HistoryEntry) /\ c \in HistoryEntry
            BY <2>1, <4>3
          <6> QED
            BY <3>2, <6>1, ReplaceLast
        <5> HIDE DEF a
        <5> QED
          BY <4>4, <5>1 DEF a
      <4> HIDE DEF m
      <4> DEFINE w == [k.undo[m] EXCEPT !.coalesce_key = d.exposed_key]
      <4>6. Len(k.undo) = m /\ k.undo[m] = c /\ m \in 1 .. Len(k.undo)
        BY <2>1, <4>1, <4>5 DEF Last, m
      <4>7. w = f[m]
        <5>1. /\ w \in HistoryEntry /\ w.document = f[m].document
              /\ w.operations = f[m].operations /\ w.coalesce_key = f[m].coalesce_key
          BY <4>1, <4>2, <4>3, <4>6 DEF HistoryEntry
        <5> HIDE DEF w
        <5> QED
          BY <4>1, <5>1, SameEntry
      <4>8. back = [k.undo EXCEPT ![m] = w]
        BY <4>5, <4>6
      <4> HIDE DEF w, back
      <4>9. /\ back \in Seq(HistoryEntry) /\ Len(back) = m
            /\ \A j \in 1 .. m : back[j] = IF j = m THEN f[m] ELSE k.undo[j]
        BY <1>2, <4>1, <4>6, <4>7, <4>8, ExceptSeq
      <4>10. \A j \in 1 .. m : back[j] = f[j]
        BY <4>1, <4>5, <4>9 DEF m
      <4>11. back = f
        BY <2>1, <4>9, <4>10, SeqEqual DEF m
      <4> QED
        BY <4>1, <4>6, <4>11
    <3> QED
      BY <3>1, <3>2
  <2> HIDE DEF back, e
  <2>7. RestoreUndo(d, k) = [k EXCEPT !.redo = Front(@), !.undo = Append(back, e)]
    BY <1>1, <2>1, <2>6 DEF RestoreUndo, back, e
  <2>8. Append(back, e) = h.undo
    BY <1>2, <1>4, <2>5, <2>6, AppendFrontLast DEF f, top
  <2>9. RestoreUndo(d, k) = [k EXCEPT !.redo = h.redo, !.undo = h.undo]
    BY <2>4, <2>7, <2>8
  <2> QED
    BY <2>9 DEF History, d
<1> QED
  BY <1>3, <1>4

(* A refused Redo, likewise.                                               *)
LEMMA RestoreRedoExact ==
    ASSUME NEW h \in History, NEW k \in History, NEW cmd,
           k.undo = RedoStep(h).undo, k.redo = RedoStep(h).redo
    PROVE  LET r == RestoreRedo(Begin(h, cmd), k) IN
           /\ r \in History /\ r.undo = h.undo /\ r.redo = h.redo
           /\ r.op_log = k.op_log /\ r.batches = k.batches
<1> DEFINE d == Begin(h, cmd)
           n == Len(h.redo)
           top == Last(h.redo)
<1>1. /\ d.redo_len = n
      /\ d.redo_top = IF h.redo = << >> THEN None ELSE top
  BY DEF Begin
<1>2. /\ h.undo \in Seq(HistoryEntry) /\ h.redo \in Seq(HistoryEntry)
      /\ k.undo \in Seq(HistoryEntry) /\ k.redo \in Seq(HistoryEntry) /\ n \in Nat
  BY LenProperties DEF History
<1> HIDE DEF d
<1>3. CASE h.redo = << >>
  <2>1. k.undo = h.undo /\ k.redo = h.redo
    BY <1>3 DEF RedoStep
  <2>2. RestoreRedo(d, k) = k
    BY <1>1, <1>2, <2>1 DEF RestoreRedo
  <2> QED
    BY <2>1, <2>2 DEF d
<1>4. CASE h.redo # << >>
  <2> DEFINE moved == Entry(h.document, top.operations, None)
             e == Entry(d.redo_top.document, Last(k.undo).operations, d.redo_top.coalesce_key)
  <2>1. n \in Nat \ {0} /\ Len(Front(h.redo)) = n - 1 /\ top \in HistoryEntry
    BY <1>2, <1>4, FrontLast
  <2>2. k.redo = Front(h.redo) /\ k.undo = Append(h.undo, moved)
    BY <1>4 DEF RedoStep, History
  <2>3. moved \in HistoryEntry /\ moved.operations = top.operations
    BY <2>1 DEF Entry, HistoryEntry, History
  <2> HIDE DEF moved
  <2>4. Front(k.undo) = h.undo /\ Last(k.undo) = moved
    BY <1>2, <2>2, <2>3, FrontAppend
  <2>5. e = top
    <3>1. /\ e \in HistoryEntry /\ e.document = top.document
          /\ e.operations = top.operations /\ e.coalesce_key = top.coalesce_key
      BY <1>1, <1>4, <2>1, <2>3, <2>4 DEF Entry, HistoryEntry
    <3> HIDE DEF e, top
    <3> QED
      BY <2>1, <3>1, SameEntry
  <2> HIDE DEF e
  <2>6. RestoreRedo(d, k) = [k EXCEPT !.undo = Front(@), !.redo = Append(@, e)]
    BY <1>1, <2>1, <2>2 DEF RestoreRedo, e
  <2>7. Append(k.redo, e) = h.redo
    BY <1>2, <1>4, <2>2, <2>5, AppendFrontLast
  <2>8. RestoreRedo(d, k) = [k EXCEPT !.undo = h.undo, !.redo = h.redo]
    BY <2>4, <2>6, <2>7 DEF History
  <2> QED
    BY <2>8 DEF History, d
<1> QED
  BY <1>3, <1>4

(* The delta undoes a command that ran: no trace of it is left.            *)
LEMMA RollbackCandidate ==
    ASSUME NEW h \in History, NEW cmd \in JournalCommand, Accepts(h, CanonicalCommand(cmd))
    PROVE  Rollback(Begin(h, cmd), Exec(TakeRedo(h, cmd), cmd), cmd) = h
<1> DEFINE k == Exec(TakeRedo(h, cmd), cmd)
           ops == CanonicalCommand(cmd).ops
<1>1. /\ k \in History
      /\ \E b \in HistoryBatch : k.batches = Append(h.batches, b)
      /\ cmd.type \in {"Undo", "Redo"} => k.op_log = h.op_log
      /\ cmd.type = "Undo" => k.undo = UndoStep(h).undo /\ k.redo = UndoStep(h).redo
      /\ cmd.type = "Redo" => k.undo = RedoStep(h).undo /\ k.redo = RedoStep(h).redo
      /\ IsEdit(cmd) => /\ ops \in Seq(Op) /\ k.op_log = h.op_log \o ops /\ Grown(h, k, ops)
  BY CandidateShape
<1> HIDE DEF k, ops
<1>2. h.op_log \in Seq(Op) /\ h.batches \in Seq(HistoryBatch)
  BY DEF History
<1>3. Truncate(k.batches, Len(h.batches)) = h.batches
  BY <1>1, <1>2, TruncateAppend
<1>4. Truncate(k.op_log, Len(h.op_log)) = h.op_log
  BY <1>1, <1>2, TruncateAll, TruncateConcat, ZenonT(60) DEF IsEdit
<1> DEFINE stacks == CASE cmd.type = "Undo" -> RestoreUndo(Begin(h, cmd), k)
                       [] cmd.type = "Redo" -> RestoreRedo(Begin(h, cmd), k)
                       [] OTHER -> RestoreEdit(Begin(h, cmd), k)
<1>5. /\ stacks \in History /\ stacks.undo = h.undo /\ stacks.redo = h.redo
      /\ stacks.op_log = k.op_log /\ stacks.batches = k.batches
  <2>1. CASE cmd.type = "Undo"
    BY <1>1, <2>1, RestoreUndoExact
  <2>2. CASE cmd.type = "Redo"
    BY <1>1, <2>2, RestoreRedoExact
  <2>3. CASE IsEdit(cmd)
    <3>1. stacks = RestoreEdit(Begin(h, cmd), k)
      BY <2>3 DEF IsEdit
    <3> HIDE DEF stacks
    <3> QED
      BY <1>1, <2>3, <3>1, RestoreEditExact
  <2> QED
    BY <2>1, <2>2, <2>3 DEF IsEdit
<1>6. Rollback(Begin(h, cmd), k, cmd) = h
  BY <1>1, <1>3, <1>4, <1>5, RollbackEnd, ZenonT(60)
<1> QED
  BY <1>6 DEF k

(* ... and the taking of the redo stack of an edit the document refused.   *)
LEMMA RollbackRefused ==
    ASSUME NEW h \in History, NEW cmd \in JournalCommand, ~ Accepts(h, CanonicalCommand(cmd))
    PROVE  Rollback(Begin(h, cmd), TakeRedo(h, cmd), cmd) = h
<1> DEFINE k == TakeRedo(h, cmd)
           stacks == CASE cmd.type = "Undo" -> RestoreUndo(Begin(h, cmd), k)
                       [] cmd.type = "Redo" -> RestoreRedo(Begin(h, cmd), k)
                       [] OTHER -> RestoreEdit(Begin(h, cmd), k)
<1>1. IsEdit(cmd)
  BY CanonicalCommandType DEF Accepts, IsEdit
<1>2. k \in History /\ k.undo = h.undo /\ k.op_log = h.op_log /\ k.batches = h.batches
  BY TakeRedoType
<1>3. << >> \in Seq(Op)
  BY EmptySeq
<1>4. stacks = RestoreEdit(Begin(h, cmd), k)
  BY <1>1 DEF IsEdit
<1> HIDE DEF k, stacks
<1>5. /\ stacks \in History /\ stacks.undo = h.undo /\ stacks.redo = h.redo
      /\ stacks.op_log = k.op_log /\ stacks.batches = k.batches
  BY <1>1, <1>2, <1>3, <1>4, RestoreEditExact, ZenonT(60)
<1>6. /\ Truncate(k.batches, Len(h.batches)) = h.batches
      /\ Truncate(k.op_log, Len(h.op_log)) = h.op_log
  BY <1>2, TruncateAll DEF History
<1>7. Rollback(Begin(h, cmd), k, cmd) = h
  BY <1>2, <1>5, <1>6, RollbackEnd DEF stacks
<1> QED
  BY <1>7 DEF k

-----------------------------------------------------------------------------
(* The cache.                                                              *)

(* What cache_prefixes says is kept is common to the stacks before and     *)
(* after the command.                                                      *)
SharedPrefix(s, t, p) ==
    /\ p \in Nat /\ p <= Len(s) /\ p <= Len(t)
    /\ \A i \in 1 .. p : s[i] = t[i]

LEMMA SharedAppend ==
    ASSUME NEW S, NEW s \in Seq(S), NEW e \in S
    PROVE  SharedPrefix(s, Append(s, e), Len(s)) /\ Len(Append(s, e)) = Len(s) + 1
<1>1. Len(s) \in Nat
  BY LenProperties
<1> DEFINE a == Append(s, e)
<1>2. Len(a) = Len(s) + 1 /\ \A i \in 1 .. Len(s) : a[i] = s[i]
  BY AppendProperties
<1> HIDE DEF a
<1>3. SharedPrefix(s, a, Len(s))
  BY <1>1, <1>2 DEF SharedPrefix
<1> QED
  BY <1>2, <1>3 DEF a

LEMMA SharedSame ==
    ASSUME NEW S, NEW s \in Seq(S)
    PROVE  SharedPrefix(s, s, Len(s))
BY LenProperties DEF SharedPrefix

LEMMA UndoPrefixShared ==
    ASSUME NEW h \in History, NEW cmd \in JournalCommand, Accepts(h, CanonicalCommand(cmd))
    PROVE  LET k == Exec(TakeRedo(h, cmd), cmd) IN
           SharedPrefix(h.undo, k.undo, UndoPrefix(Begin(h, cmd), k, cmd))
<1> DEFINE k == Exec(TakeRedo(h, cmd), cmd)
           d == Begin(h, cmd)
           n == Len(h.undo)
           ops == CanonicalCommand(cmd).ops
<1>1. /\ k \in History
      /\ cmd.type = "Undo" => k.undo = UndoStep(h).undo
      /\ cmd.type = "Redo" => k.undo = RedoStep(h).undo
      /\ IsEdit(cmd) => ops \in Seq(Op) /\ Grown(h, k, ops)
  BY CandidateShape
<1>2. d.undo_len = n
  BY DEF Begin
<1>3. h.undo \in Seq(HistoryEntry) /\ h.redo \in Seq(HistoryEntry) /\ n \in Nat
  BY LenProperties DEF History
<1> HIDE DEF k, d, ops
<1> SUFFICES SharedPrefix(h.undo, k.undo, UndoPrefix(d, k, cmd))
  BY DEF k, d
<1>4. CASE cmd.type = "Undo"
  <2>1. CASE h.undo = << >>
    <3>1. k.undo = h.undo
      BY <1>1, <1>4, <2>1 DEF UndoStep
    <3>2. UndoPrefix(d, k, cmd) = n
      BY <1>2, <1>3, <1>4, <3>1 DEF UndoPrefix
    <3> QED
      BY <1>3, <3>1, <3>2, SharedSame
  <2>2. CASE h.undo # << >>
    <3> DEFINE f == Front(h.undo)
               m == Len(f)
               u == CloseExposed(f)
    <3>1. k.undo = u
      BY <1>1, <1>4, <2>2 DEF UndoStep, History
    <3>2. /\ n \in Nat \ {0} /\ f \in Seq(HistoryEntry) /\ m = n - 1
          /\ \A i \in 1 .. n - 1 : f[i] = h.undo[i]
      BY <1>3, <2>2, FrontLast
    <3> HIDE DEF f
    <3>3. /\ Len(u) = m
          /\ \A i \in 1 .. m - 1 : u[i] = f[i]
      <4>1. CASE f = << >>
        <5>1. u = f /\ m = 0
          BY <4>1, EmptySeq DEF CloseExposed
        <5> QED
          BY <5>1
      <4>2. CASE f # << >>
        <5> DEFINE e == Closed(Last(f))
        <5>1. e \in HistoryEntry
          <6>1. Last(f) \in HistoryEntry
            BY <3>2, <4>2, FrontLast
          <6> QED
            BY <6>1 DEF Closed, HistoryEntry
        <5> HIDE DEF e
        <5>2. u = ReplaceAt(f, Len(f), e)
          BY <4>2 DEF CloseExposed, e
        <5>3. f \in Seq(HistoryEntry)
          BY <3>2
        <5> HIDE DEF u
        <5> DEFINE a == ReplaceAt(f, Len(f), e)
        <5>4. Len(a) = Len(f) /\ \A i \in 1 .. Len(f) - 1 : a[i] = f[i]
          BY <4>2, <5>1, <5>3, ReplaceLast
        <5> HIDE DEF a
        <5> QED
          BY <5>2, <5>4 DEF a
      <4> QED
        BY <4>1, <4>2
    <3> HIDE DEF u, m, n
    <3>4. UndoPrefix(d, k, cmd) = IF n < 2 THEN 0 ELSE n - 2
      <4>1. Len(k.undo) < d.undo_len
        BY <1>2, <3>1, <3>2, <3>3
      <4> QED
        BY <1>2, <1>4, <4>1 DEF UndoPrefix, Minus
    <3> DEFINE p == IF n < 2 THEN 0 ELSE n - 2
    <3>5. p \in Nat /\ p <= n /\ p <= m /\ \A i \in 1 .. p : i \in 1 .. m - 1 /\ i \in 1 .. n - 1
      BY <3>2
    <3> HIDE DEF p
    <3>6. SharedPrefix(h.undo, u, p)
      BY <3>2, <3>3, <3>5 DEF SharedPrefix, n
    <3> QED
      BY <3>1, <3>4, <3>6 DEF p
  <2> QED
    BY <2>1, <2>2
<1>5. CASE cmd.type = "Redo"
  <2>0. UndoPrefix(d, k, cmd) = n
    BY <1>2, <1>5 DEF UndoPrefix
  <2>1. CASE h.redo = << >>
    <3>1. k.undo = h.undo
      BY <1>1, <1>5, <2>1 DEF RedoStep
    <3> QED
      BY <1>3, <2>0, <3>1, SharedSame
  <2>2. CASE h.redo # << >>
    <3> DEFINE e == Entry(h.document, Last(h.redo).operations, None)
    <3>1. k.undo = Append(h.undo, e)
      BY <1>1, <1>5, <2>2 DEF RedoStep, History
    <3>2. e \in HistoryEntry
      <4>1. Last(h.redo) \in HistoryEntry
        BY <1>3, <2>2, FrontLast
      <4> QED
        BY <4>1 DEF Entry, HistoryEntry, History
    <3> HIDE DEF e
    <3> QED
      BY <1>3, <2>0, <3>1, <3>2, SharedAppend
  <2> QED
    BY <2>1, <2>2
<1>6. CASE IsEdit(cmd)
  <2>0. UndoPrefix(d, k, cmd) = IF Len(k.undo) = n THEN Minus(n, 1) ELSE n
    BY <1>2, <1>6 DEF UndoPrefix, IsEdit
  <2>1. ASSUME NEW e \in HistoryEntry, k.undo = Append(h.undo, e)
        PROVE  SharedPrefix(h.undo, k.undo, UndoPrefix(d, k, cmd))
    <3>1. SharedPrefix(h.undo, k.undo, n) /\ Len(k.undo) = n + 1
      BY <1>3, <2>1, SharedAppend
    <3> HIDE DEF n
    <3>2. UndoPrefix(d, k, cmd) = n
      BY <1>3, <2>0, <3>1
    <3> QED
      BY <3>1, <3>2
  <2>2. CASE h.undo # << >> /\ k.undo = ReplaceAt(h.undo, n, Extended(Last(h.undo), ops))
    <3> DEFINE e == Extended(Last(h.undo), ops)
               a == ReplaceAt(h.undo, Len(h.undo), e)
    <3>1. e \in HistoryEntry
      <4>1. Last(h.undo) \in HistoryEntry
        BY <1>3, <2>2, FrontLast
      <4>2. Last(h.undo).operations \o ops \in Seq(Op)
        BY <1>1, <1>6, <4>1, ConcatProperties DEF HistoryEntry
      <4> QED
        BY <4>1, <4>2 DEF Extended, HistoryEntry
    <3> HIDE DEF e
    <3>2. Len(a) = Len(h.undo) /\ \A i \in 1 .. Len(h.undo) - 1 : a[i] = h.undo[i]
      BY <1>3, <2>2, <3>1, ReplaceLast
    <3>3. n \in Nat \ {0}
      BY <1>3, <2>2, EmptySeq
    <3>4. k.undo = a
      BY <2>2 DEF e
    <3> HIDE DEF a, n
    <3>5. UndoPrefix(d, k, cmd) = n - 1
      BY <2>0, <3>2, <3>3, <3>4 DEF Minus, n
    <3>6. SharedPrefix(h.undo, a, n - 1)
      BY <3>2, <3>3 DEF SharedPrefix, n
    <3> QED
      BY <3>4, <3>5, <3>6
  <2> QED
    BY <1>1, <1>6, <2>1, <2>2 DEF Grown
<1> QED
  BY <1>4, <1>5, <1>6 DEF IsEdit

LEMMA RedoPrefixShared ==
    ASSUME NEW h \in History, NEW cmd \in JournalCommand, Accepts(h, CanonicalCommand(cmd))
    PROVE  LET k == Exec(TakeRedo(h, cmd), cmd) IN
           SharedPrefix(h.redo, k.redo, RedoPrefix(Begin(h, cmd), k, cmd))
<1> DEFINE k == Exec(TakeRedo(h, cmd), cmd)
           d == Begin(h, cmd)
           n == Len(h.redo)
<1>1. /\ k \in History
      /\ cmd.type = "Undo" => k.redo = UndoStep(h).redo
      /\ cmd.type = "Redo" => k.redo = RedoStep(h).redo
  BY CandidateShape
<1>2. d.redo_len = n
  BY DEF Begin
<1>3. /\ h.undo \in Seq(HistoryEntry) /\ h.redo \in Seq(HistoryEntry) /\ n \in Nat
      /\ k.redo \in Seq(HistoryEntry) /\ Len(k.redo) \in Nat
  BY <1>1, LenProperties DEF History
<1> HIDE DEF k, d
<1> SUFFICES SharedPrefix(h.redo, k.redo, RedoPrefix(d, k, cmd))
  BY DEF k, d
<1>4. CASE cmd.type = "Undo"
  <2>0. RedoPrefix(d, k, cmd) = n
    BY <1>2, <1>4 DEF RedoPrefix
  <2>1. CASE h.undo = << >>
    <3>1. k.redo = h.redo
      BY <1>1, <1>4, <2>1 DEF UndoStep
    <3> QED
      BY <1>3, <2>0, <3>1, SharedSame
  <2>2. CASE h.undo # << >>
    <3> DEFINE e == Entry(h.document, Last(h.undo).operations, None)
    <3>1. k.redo = Append(h.redo, e)
      BY <1>1, <1>4, <2>2 DEF UndoStep, History
    <3>2. e \in HistoryEntry
      <4>1. Last(h.undo) \in HistoryEntry
        BY <1>3, <2>2, FrontLast
      <4> QED
        BY <4>1 DEF Entry, HistoryEntry, History
    <3> HIDE DEF e
    <3> QED
      BY <1>3, <2>0, <3>1, <3>2, SharedAppend
  <2> QED
    BY <2>1, <2>2
<1>5. CASE cmd.type = "Redo"
  <2>0. RedoPrefix(d, k, cmd) = Len(k.redo)
    BY <1>5 DEF RedoPrefix
  <2>1. CASE h.redo = << >>
    <3>1. k.redo = h.redo
      BY <1>1, <1>5, <2>1 DEF RedoStep
    <3> QED
      BY <1>3, <2>0, <3>1, SharedSame
  <2>2. CASE h.redo # << >>
    <3> DEFINE f == Front(h.redo)
    <3>1. k.redo = f
      BY <1>1, <1>5, <2>2 DEF RedoStep, History
    <3>2. n \in Nat \ {0} /\ Len(f) = n - 1 /\ \A i \in 1 .. n - 1 : f[i] = h.redo[i]
      BY <1>3, <2>2, FrontLast
    <3> HIDE DEF f
    <3> DEFINE m == Len(f)
    <3>3. SharedPrefix(h.redo, f, m)
      <4>1. m \in Nat /\ m <= n /\ \A i \in 1 .. m : i \in 1 .. n - 1
        BY <3>2
      <4> QED
        BY <3>2, <4>1 DEF SharedPrefix
    <3> QED
      BY <2>0, <3>1, <3>3
  <2> QED
    BY <2>1, <2>2
<1>6. CASE IsEdit(cmd)
  <2>1. RedoPrefix(d, k, cmd) = 0
    BY <1>6 DEF RedoPrefix, IsEdit
  <2> QED
    BY <1>3, <2>1 DEF SharedPrefix
<1> QED
  BY <1>4, <1>5, <1>6 DEF IsEdit

LEMMA SameJson ==
    ASSUME NEW b \in HistoryJson, NEW c \in HistoryJson, b.batches = c.batches,
           b.undo = c.undo, b.redo = c.redo, b.sha256 = c.sha256
    PROVE  b = c
BY DEF HistoryJson

LEMMA NewCacheType ==
    ASSUME NEW h \in History
    PROVE  /\ Identity(h) \in Identities /\ NewCache(h) \in HistoryJson
           /\ NewCache(h).batches = h.batches /\ NewCache(h).undo = h.undo
           /\ NewCache(h).redo = h.redo /\ NewCache(h).sha256 = Identity(h)
BY DEF Identity, Identities, NewCache, HistoryJson, History

(* The cache of a history follows a candidate: updated it spells the       *)
(* candidate, and patched back, whole or half way, it is what it was.      *)
LEMMA CacheFollows ==
    ASSUME NEW h \in History, NEW cmd \in JournalCommand, Accepts(h, CanonicalCommand(cmd))
    PROVE  LET k == Exec(TakeRedo(h, cmd), cmd)
               up == UndoPrefix(Begin(h, cmd), k, cmd)
               rp == RedoPrefix(Begin(h, cmd), k, cmd)
               c == NewCache(h)
               updated == Update(c, k, up, rp)
           IN  /\ updated \in HistoryJson /\ updated.batches = k.batches
               /\ updated.undo = k.undo /\ updated.redo = k.redo
               /\ PatchBack(updated, c, up, rp) = c
               /\ \A at \in {"batches", "undo", "redo"} : FailedUpdate(c, k, up, at) = c
<1> DEFINE k == Exec(TakeRedo(h, cmd), cmd)
           up == UndoPrefix(Begin(h, cmd), k, cmd)
           rp == RedoPrefix(Begin(h, cmd), k, cmd)
           c == NewCache(h)
           updated == Update(c, k, up, rp)
           n == Len(h.batches)
<1>1. /\ k \in History /\ \E b \in HistoryBatch : k.batches = Append(h.batches, b)
  BY CandidateShape
<1>2. SharedPrefix(h.undo, k.undo, up) /\ SharedPrefix(h.redo, k.redo, rp)
  BY UndoPrefixShared, RedoPrefixShared
<1>3. /\ c \in HistoryJson /\ c.batches = h.batches /\ c.undo = h.undo /\ c.redo = h.redo
      /\ c.sha256 = Identity(h)
  BY NewCacheType
<1> HIDE DEF k, up, rp, c
<1>4. /\ h.batches \in Seq(HistoryBatch) /\ k.batches \in Seq(HistoryBatch)
      /\ h.undo \in Seq(HistoryEntry) /\ k.undo \in Seq(HistoryEntry)
      /\ h.redo \in Seq(HistoryEntry) /\ k.redo \in Seq(HistoryEntry)
  BY <1>1 DEF History
<1>5. SharedPrefix(h.batches, k.batches, n)
  BY <1>1, <1>4, SharedAppend
<1>6. ASSUME NEW S, NEW s \in Seq(S), NEW t \in Seq(S), NEW p, SharedPrefix(s, t, p)
      PROVE  /\ ReplaceTail(s, p, From(t, p)) = t
             /\ RollbackArray(t, Patch(s, p)) = s
             /\ RollbackArray(ReplaceTail(s, p, From(t, p)), Patch(s, p)) = s
  <2>1. p \in Nat /\ p <= Len(s) /\ p <= Len(t) /\ \A i \in 1 .. p : s[i] = t[i]
    BY <1>6 DEF SharedPrefix
  <2>2. SubSeq(s, 1, p) \o SubSeq(t, p + 1, Len(t)) = t
    BY <2>1, Splice
  <2>3. SubSeq(t, 1, p) \o SubSeq(s, p + 1, Len(s)) = s
    BY <2>1, Splice
  <2>4. ReplaceTail(s, p, From(t, p)) = t /\ RollbackArray(t, Patch(s, p)) = s
    BY <2>2, <2>3 DEF ReplaceTail, From, RollbackArray, Patch
  <2> QED
    BY <2>4
<1>7. /\ ReplaceTail(h.batches, n, From(k.batches, n)) = k.batches
      /\ RollbackArray(k.batches, Patch(h.batches, n)) = h.batches
  BY <1>4, <1>5, <1>6
<1>8. /\ ReplaceTail(h.undo, up, From(k.undo, up)) = k.undo
      /\ RollbackArray(k.undo, Patch(h.undo, up)) = h.undo
  BY <1>2, <1>4, <1>6
<1>9. /\ ReplaceTail(h.redo, rp, From(k.redo, rp)) = k.redo
      /\ RollbackArray(k.redo, Patch(h.redo, rp)) = h.redo
  BY <1>2, <1>4, <1>6
<1>10. updated = [c EXCEPT !.batches = k.batches, !.undo = k.undo, !.redo = k.redo]
  BY <1>3, <1>7, <1>8, <1>9 DEF Update, HistoryJson
<1>11. /\ updated \in HistoryJson /\ updated.batches = k.batches
       /\ updated.undo = k.undo /\ updated.redo = k.redo /\ updated.sha256 = c.sha256
  <2> HIDE DEF updated
  <2> QED
    BY <1>3, <1>4, <1>10 DEF HistoryJson
<1> HIDE DEF updated, n
<1>12. PatchBack(updated, c, up, rp) = c
  <2>1. PatchBack(updated, c, up, rp)
          = [updated EXCEPT !.batches = h.batches, !.undo = h.undo, !.redo = h.redo]
    BY <1>3, <1>7, <1>8, <1>9, <1>11 DEF PatchBack, HistoryJson, n
  <2> DEFINE p == PatchBack(updated, c, up, rp)
  <2> HIDE DEF p
  <2>2. p \in HistoryJson /\ p.batches = c.batches /\ p.undo = c.undo /\ p.redo = c.redo
        /\ p.sha256 = c.sha256
    BY <1>3, <1>4, <1>11, <2>1 DEF HistoryJson, p
  <2>3. p = c
    BY <1>3, <2>2, SameJson
  <2> QED
    BY <2>3 DEF p
<1>13. ASSUME NEW at \in {"batches", "undo", "redo"}
       PROVE  FailedUpdate(c, k, up, at) = c
  <2>1. CASE at = "batches"
    BY <2>1 DEF FailedUpdate
  <2>2. CASE at = "undo"
    <3>1. FailedUpdate(c, k, up, at) = [c EXCEPT !.batches = h.batches]
      BY <1>3, <1>7, <2>2 DEF FailedUpdate, n
    <3> DEFINE p == [c EXCEPT !.batches = h.batches]
    <3>2. p \in HistoryJson /\ p.batches = c.batches /\ p.undo = c.undo /\ p.redo = c.redo
          /\ p.sha256 = c.sha256
      BY <1>3, <1>4 DEF HistoryJson
    <3> HIDE DEF p
    <3>3. p = c
      BY <1>3, <3>2, SameJson
    <3> QED
      BY <3>1, <3>3 DEF p
  <2>3. CASE at = "redo"
    <3>1. FailedUpdate(c, k, up, at) = [c EXCEPT !.batches = h.batches, !.undo = h.undo]
      BY <1>3, <1>7, <1>8, <2>3 DEF FailedUpdate, n
    <3> DEFINE p == [c EXCEPT !.batches = h.batches, !.undo = h.undo]
    <3>2. p \in HistoryJson /\ p.batches = c.batches /\ p.undo = c.undo /\ p.redo = c.redo
          /\ p.sha256 = c.sha256
      BY <1>3, <1>4 DEF HistoryJson
    <3> HIDE DEF p
    <3>3. p = c
      BY <1>3, <3>2, SameJson
    <3> QED
      BY <3>1, <3>3 DEF p
  <2> QED
    BY <2>1, <2>2, <2>3
<1> QED
  BY <1>11, <1>12, <1>13 DEF k, up, rp, c, updated

-----------------------------------------------------------------------------
(* Publications are numbered without gaps.                                 *)
Sequenced == next_sequence = Len(stream) + 1

AdmissionInv == TypeOK /\ CacheExact /\ Sequenced

(* The publication of the step from one history to the next.               *)
Published(sequence, h, k) ==
    [sequence |-> sequence, before |-> Identity(h), after |-> Identity(k),
     batch |-> Last(k.batches)]

(* A refused command leaves the history and the cache as they were, at     *)
(* whichever of the three points it is refused.                            *)
LEMMA RefusalLeavesNoTrace ==
    ASSUME AdmissionInv, NEW cmd \in JournalCommand,
           \/ RejectCommand(cmd)
           \/ \E at \in {"batches", "undo", "redo"} : RefuseCapacity(cmd, at)
           \/ RefuseEncoding(cmd)
    PROVE  UNCHANGED vars
<1>1. hist \in History /\ cache = NewCache(hist)
  BY DEF AdmissionInv, TypeOK, CacheExact
<1>2. CandidateAccepted(cmd) <=> Accepts(hist, CanonicalCommand(cmd))
  BY <1>1, TakeRedoExec DEF CandidateAccepted
<1>3. CASE RejectCommand(cmd)
  BY <1>1, <1>2, <1>3, RollbackRefused DEF RejectCommand, vars
<1>4. ASSUME NEW at \in {"batches", "undo", "redo"}, RefuseCapacity(cmd, at)
      PROVE  UNCHANGED vars
  <2>1. Accepts(hist, CanonicalCommand(cmd))
    BY <1>2, <1>4 DEF RefuseCapacity
  <2>2. hist' = hist
    BY <1>1, <1>4, <2>1, RollbackCandidate DEF RefuseCapacity, Candidate
  <2>3. cache' = cache
    BY <1>1, <1>4, <2>1, CacheFollows DEF RefuseCapacity, Candidate
  <2> QED
    BY <1>4, <2>2, <2>3 DEF RefuseCapacity, vars
<1>5. CASE RefuseEncoding(cmd)
  <2>1. Accepts(hist, CanonicalCommand(cmd))
    BY <1>2, <1>5 DEF RefuseEncoding
  <2>2. hist' = hist
    BY <1>1, <1>5, <2>1, RollbackCandidate DEF RefuseEncoding, Candidate
  <2>3. cache' = cache
    BY <1>1, <1>5, <2>1, CacheFollows DEF RefuseEncoding, Candidate
  <2> QED
    BY <1>5, <2>2, <2>3 DEF RefuseEncoding, vars
<1> QED
  BY <1>3, <1>4, <1>5

(* An admitted command is the ordinary execution, published with the       *)
(* identities of the histories before and after it.                        *)
LEMMA AdmissionIsExec ==
    ASSUME AdmissionInv, NEW cmd \in JournalCommand, Admit(cmd)
    PROVE  /\ Accepts(hist, CanonicalCommand(cmd))
           /\ hist' = Exec(hist, cmd) /\ hist' \in History
           /\ cache' = NewCache(hist')
           /\ Published(next_sequence, hist, hist') \in Publication
           /\ pending' = Append(pending, Published(next_sequence, hist, hist'))
           /\ stream' = Append(stream, Published(next_sequence, hist, hist'))
           /\ next_sequence' = next_sequence + 1
<1> DEFINE d == Begin(hist, cmd)
           k == Exec(TakeRedo(hist, cmd), cmd)
           updated == Update(cache, k, UndoPrefix(d, k, cmd), RedoPrefix(d, k, cmd))
           after == CachedIdentity(updated, k)
           item == [sequence |-> next_sequence, before |-> cache.sha256, after |-> after,
                    batch |-> Last(k.batches)]
<1>1. hist \in History /\ cache = NewCache(hist) /\ next_sequence \in Nat \ {0}
  BY DEF AdmissionInv, TypeOK, CacheExact
<1>2. Accepts(hist, CanonicalCommand(cmd))
  BY <1>1, TakeRedoExec DEF Admit, CandidateAccepted
<1>3. k = Exec(hist, cmd) /\ k \in History
  BY <1>1, <1>2, TakeRedoExec, CandidateShape
<1>4. /\ updated \in HistoryJson /\ updated.batches = k.batches
      /\ updated.undo = k.undo /\ updated.redo = k.redo
  BY <1>1, <1>2, CacheFollows
<1>5. /\ hist' = k /\ cache' = [updated EXCEPT !.sha256 = after]
      /\ pending' = Append(pending, item) /\ stream' = Append(stream, item)
      /\ next_sequence' = next_sequence + 1
  BY DEF Admit, Candidate
<1> HIDE DEF updated, k
<1>6. after = Identity(k)
  BY <1>4 DEF CachedIdentity, Identity
<1>7. cache.sha256 = Identity(hist) /\ Identity(hist) \in Identities /\ Identity(k) \in Identities
  BY <1>1, <1>3, NewCacheType
<1>8. item = Published(next_sequence, hist, k)
  BY <1>6, <1>7 DEF Published
<1>9. cache' = NewCache(k)
  <2> DEFINE e == [updated EXCEPT !.sha256 = Identity(k)]
             f == NewCache(k)
  <2>1. /\ e \in HistoryJson /\ e.batches = k.batches /\ e.undo = k.undo /\ e.redo = k.redo
        /\ e.sha256 = Identity(k)
    BY <1>4, <1>7 DEF HistoryJson
  <2>2. /\ f \in HistoryJson /\ f.batches = k.batches /\ f.undo = k.undo /\ f.redo = k.redo
        /\ f.sha256 = Identity(k)
    BY <1>3, NewCacheType
  <2> HIDE DEF e, f
  <2>3. e = f
    BY <2>1, <2>2, SameJson
  <2> QED
    BY <1>5, <1>6, <2>3 DEF e, f
<1>10. Last(k.batches) \in HistoryBatch
  <2>1. \E b \in HistoryBatch : k.batches = Append(hist.batches, b)
    BY <1>1, <1>2, CandidateShape DEF k
  <2>2. hist.batches \in Seq(HistoryBatch)
    BY <1>1 DEF History
  <2> QED
    BY <2>1, <2>2, FrontAppend
<1>11. Published(next_sequence, hist, k) \in Publication
  BY <1>1, <1>7, <1>10 DEF Published, Publication
<1> HIDE DEF item
<1> QED
  BY <1>2, <1>3, <1>5, <1>8, <1>9, <1>11

LEMMA AdmissionStep ==
    ASSUME AdmissionInv, [Next]_vars
    PROVE  AdmissionInv'
<1>1. CASE UNCHANGED vars
  BY <1>1 DEF AdmissionInv, TypeOK, CacheExact, Sequenced, vars
<1>2. CASE Acknowledge
  <2>1. pending' \in Seq(Publication)
    BY <1>2, HeadTailProperties DEF Acknowledge, AdmissionInv, TypeOK
  <2> QED
    BY <1>2, <2>1 DEF Acknowledge, AdmissionInv, TypeOK, CacheExact, Sequenced
<1>3. ASSUME NEW cmd \in JournalCommand, Admit(cmd)
      PROVE  AdmissionInv'
  <2> DEFINE p == Published(next_sequence, hist, hist')
  <2>1. /\ hist' \in History /\ cache' = NewCache(hist') /\ p \in Publication
        /\ pending' = Append(pending, p) /\ stream' = Append(stream, p)
        /\ next_sequence' = next_sequence + 1
    BY <1>3, AdmissionIsExec
  <2> HIDE DEF p
  <2>2. pending \in Seq(Publication) /\ stream \in Seq(Publication) /\ next_sequence \in Nat \ {0}
    BY DEF AdmissionInv, TypeOK
  <2>3. /\ pending' \in Seq(Publication) /\ stream' \in Seq(Publication)
        /\ Len(stream') = Len(stream) + 1
    BY <2>1, <2>2, AppendProperties
  <2>4. cache' \in HistoryJson
    BY <2>1, NewCacheType
  <2>5. TypeOK' /\ CacheExact'
    BY <2>1, <2>2, <2>3, <2>4 DEF TypeOK, CacheExact
  <2>6. Sequenced'
    BY <2>1, <2>3 DEF AdmissionInv, Sequenced
  <2> QED
    BY <2>5, <2>6 DEF AdmissionInv
<1> QED
  BY <1>1, <1>2, <1>3, RefusalLeavesNoTrace DEF Next

LEMMA AdmissionInit == Init => AdmissionInv
<1> SUFFICES ASSUME Init PROVE AdmissionInv
  OBVIOUS
<1>1. PICK doc \in Doc : hist = NewHistory(doc, 0) /\ cache = NewCache(NewHistory(doc, 0))
  BY DEF Init
<1>2. hist \in History /\ cache = NewCache(hist)
  BY <1>1, NewHistoryType
<1>3. cache \in HistoryJson
  BY <1>2, NewCacheType
<1>4. << >> \in Seq(Publication) /\ Len(<< >>) = 0
  BY EmptySeq
<1> QED
  BY <1>2, <1>3, <1>4 DEF Init, FirstSequence, AdmissionInv, TypeOK, CacheExact, Sequenced

LEMMA AdmissionInvariant == Spec => []AdmissionInv
<1>1. AdmissionInv /\ [Next]_vars => AdmissionInv'
  BY AdmissionStep
<1> QED
  BY <1>1, AdmissionInit, PTL DEF Spec

(* Manual admission keeps its types.                                       *)
THEOREM AdmissionTypeCorrect == Spec => []TypeOK
<1>1. AdmissionInv => TypeOK
  BY DEF AdmissionInv
<1> QED
  BY <1>1, AdmissionInvariant, PTL

(* The cache that HistoryJson patches in place always spells the live      *)
(* history, whatever was accepted or refused before.                       *)
THEOREM CacheCorrect == Spec => []CacheExact
<1>1. AdmissionInv => CacheExact
  BY DEF AdmissionInv
<1> QED
  BY <1>1, AdmissionInvariant, PTL

-----------------------------------------------------------------------------
(* The refinement.  The instance has its own copies of the operators of    *)
(* CoreHistory; they are the same.                                         *)
LEMMA AtomicOperators ==
    /\ \A doc, revision : Atomic!NewHistory(doc, revision) = NewHistory(doc, revision)
    /\ \A cmd : Atomic!CanonicalCommand(cmd) = CanonicalCommand(cmd)
    /\ \A h, cmd : Atomic!Accepts(h, cmd) <=> Accepts(h, cmd)
    /\ \A h, cmd : Atomic!Exec(h, cmd) = Exec(h, cmd)
    /\ Atomic!JournalCommand = JournalCommand
    /\ \A h : Atomic!Identity(h) = Identity(h)
    /\ \A s : Atomic!Last(s) = Last(s)
<1>0. /\ \A s : Atomic!Last(s) = Last(s)
      /\ \A s : Atomic!Front(s) = Front(s)
      /\ \A s, i, e : Atomic!ReplaceAt(s, i, e) = ReplaceAt(s, i, e)
  BY DEF Atomic!Last, Last, Atomic!Front, Front, Atomic!ReplaceAt, ReplaceAt
<1>1. \A doc, revision : Atomic!NewHistory(doc, revision) = NewHistory(doc, revision)
  BY DEF Atomic!NewHistory, NewHistory
<1>2. \A cmd : Atomic!CanonicalCommand(cmd) = CanonicalCommand(cmd)
  BY DEF Atomic!CanonicalCommand, CanonicalCommand, Atomic!CanonicalBatch, CanonicalBatch
<1>a. \A doc, ops : Atomic!ApplyBatch(doc, ops) = ApplyBatch(doc, ops)
  BY DEF Atomic!ApplyBatch, ApplyBatch, Atomic!OpStep, OpStep
<1>3. \A h, cmd : Atomic!Accepts(h, cmd) <=> Accepts(h, cmd)
  BY <1>a DEF Atomic!Accepts, Accepts
<1>4. \A doc, ops, key : Atomic!Entry(doc, ops, key) = Entry(doc, ops, key)
  BY DEF Atomic!Entry, Entry
<1>5. \A h, ops : Atomic!PushClosed(h, ops) = PushClosed(h, ops)
  BY <1>4 DEF Atomic!PushClosed, PushClosed
<1>6. \A h, ops, key : Atomic!PushCoalesced(h, ops, key) = PushCoalesced(h, ops, key)
  BY <1>0, <1>4 DEF Atomic!PushCoalesced, PushCoalesced, Atomic!Merges, Merges,
                    Atomic!Extended, Extended
<1>7. \A h, cmd : Atomic!Edit(h, cmd) = Edit(h, cmd)
  BY <1>a, <1>5, <1>6 DEF Atomic!Edit, Edit
<1>8. \A h : Atomic!UndoStep(h) = UndoStep(h)
  <2>1. \A undo : Atomic!CloseExposed(undo) = CloseExposed(undo)
    BY <1>0 DEF Atomic!CloseExposed, CloseExposed, Atomic!Closed, Closed
  <2> QED
    BY <1>0, <1>4, <2>1 DEF Atomic!UndoStep, UndoStep
<1>9. \A h : Atomic!RedoStep(h) = RedoStep(h)
  BY <1>0, <1>4 DEF Atomic!RedoStep, RedoStep
<1>10. \A h, cmd : Atomic!Applied(h, cmd) = Applied(h, cmd)
  BY <1>7, <1>8, <1>9 DEF Atomic!Applied, Applied
<1>11. \A h, cmd : Atomic!Record(h, cmd) = Record(h, cmd)
  BY DEF Atomic!Record, Record
<1>12. \A h, cmd : Atomic!Exec(h, cmd) = Exec(h, cmd)
  BY <1>2, <1>3, <1>10, <1>11 DEF Atomic!Exec, Exec
<1>13. Atomic!JournalCommand = JournalCommand
  BY DEF Atomic!JournalCommand, JournalCommand, Atomic!Edits, Edits, Atomic!DoBatch, DoBatch,
         Atomic!DoBatchCoalesced, DoBatchCoalesced, Atomic!Undo, Undo, Atomic!Redo, Redo
<1>14. \A h : Atomic!Identity(h) = Identity(h)
  BY DEF Atomic!Identity, Identity
<1> QED
  BY <1>0, <1>1, <1>2, <1>3, <1>12, <1>13, <1>14

(* Every step of the handler is an atomic acceptance or none: a refusal,   *)
(* early or late, is a stuttering step, and what is admitted is the next   *)
(* link of the chain of identities.                                        *)
THEOREM AtomicAdmissionCorrect == Spec => ImplementsAtomicAdmission
<1>1. Init => Atomic!Init
  BY AtomicOperators DEF Init, Atomic!Init
<1>2. ASSUME AdmissionInv, [Next]_vars
      PROVE  [Atomic!Next]_<<hist, stream>>
  <2>1. CASE UNCHANGED vars
    BY <2>1 DEF vars
  <2>2. CASE Acknowledge
    BY <2>2 DEF Acknowledge
  <2>3. ASSUME NEW cmd \in JournalCommand, Admit(cmd)
        PROVE  Atomic!Next
    <3>1. /\ Accepts(hist, CanonicalCommand(cmd)) /\ hist' = Exec(hist, cmd)
          /\ stream' = Append(stream, Published(next_sequence, hist, hist'))
      BY <1>2, <2>3, AdmissionIsExec
    <3>2. Atomic!Item(Len(stream) + 1, Identity(hist), Identity(hist'), Last(hist'.batches))
            = Published(next_sequence, hist, hist')
      BY <1>2 DEF Atomic!Item, Published, AdmissionInv, Sequenced
    <3>3. Atomic!Accept(cmd)
      BY <3>1, <3>2, AtomicOperators DEF Atomic!Accept
    <3> QED
      BY <3>3, AtomicOperators DEF Atomic!Next
  <2> QED
    BY <1>2, <2>1, <2>2, <2>3, RefusalLeavesNoTrace DEF Next
<1> QED
  BY <1>1, <1>2, AdmissionInvariant, PTL DEF Spec, ImplementsAtomicAdmission, Atomic!Spec
=============================================================================
