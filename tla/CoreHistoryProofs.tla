------------------------- MODULE CoreHistoryProofs -------------------------
(***************************************************************************)
(* Lemmas about the history value of module CoreHistory: its operators     *)
(* keep the types, a replay can follow the stream as it grows and repeats  *)
(* what it recorded (ReplayAppend, ReplayAgain), and Exec keeps a history  *)
(* and its suffix rebuilt above a floor related (AboveExec).               *)
(*                                                                         *)
(* A batch in two parts gives what the whole gives (ApplyBatchConcat).     *)
(* From it, every command keeps the two stacks a path through the live     *)
(* document (ExecPath) and the open entry one run of the accepted stream   *)
(* (ExecRuns), so whatever a replay of the stream rebuilds has both        *)
(* (ReplaySound).                                                          *)
(*                                                                         *)
(* What a recursive function computes is shown by the least counterexample *)
(* (LeastNatural).                                                         *)
(***************************************************************************)
EXTENDS CoreHistory, SequenceTheorems, WellFoundedInduction, TLAPS

(* What SubSeq keeps of a sequence above position d; Rust's slice s[d..].  *)
LEMMA SuffixLemma ==
    ASSUME NEW S, NEW s \in Seq(S), NEW d \in 0 .. Len(s)
    PROVE  /\ SubSeq(s, d + 1, Len(s)) \in Seq(S)
           /\ Len(SubSeq(s, d + 1, Len(s))) = Len(s) - d
           /\ \A i \in 1 .. Len(s) - d : SubSeq(s, d + 1, Len(s))[i] = s[d + i]
<1>1. Len(s) \in Nat /\ d \in Nat
  BY LenProperties
<1>2. \A i \in d + 1 .. Len(s) : s[i] \in S
  BY <1>1, ElementOfSeq
<1>3. d + 1 \in Int /\ Len(s) \in Int
  BY <1>1
<1>4. /\ SubSeq(s, d + 1, Len(s)) \in Seq(S)
      /\ Len(SubSeq(s, d + 1, Len(s))) = IF d + 1 <= Len(s) THEN Len(s) - (d + 1) + 1 ELSE 0
      /\ \A i \in 1 .. Len(s) - (d + 1) + 1 : SubSeq(s, d + 1, Len(s))[i] = s[d + 1 + i - 1]
  BY <1>2, <1>3, SubSeqProperties
<1>5. Len(SubSeq(s, d + 1, Len(s))) = Len(s) - d
  BY <1>1, <1>4
<1>6. ASSUME NEW i \in 1 .. Len(s) - d
      PROVE  SubSeq(s, d + 1, Len(s))[i] = s[d + i]
  BY <1>1, <1>4
<1> QED
  BY <1>4, <1>5, <1>6

(* What SubSeq keeps of a sequence up to position n; Rust's slice s[..n].  *)
LEMMA PrefixLemma ==
    ASSUME NEW S, NEW s \in Seq(S), NEW n \in 0 .. Len(s)
    PROVE  /\ SubSeq(s, 1, n) \in Seq(S)
           /\ Len(SubSeq(s, 1, n)) = n
           /\ \A i \in 1 .. n : SubSeq(s, 1, n)[i] = s[i]
<1>1. Len(s) \in Nat /\ n \in Nat
  BY LenProperties
<1>2. 1 \in Int /\ n \in Int /\ \A i \in 1 .. n : s[i] \in S
  BY <1>1, ElementOfSeq
<1>3. /\ SubSeq(s, 1, n) \in Seq(S)
      /\ Len(SubSeq(s, 1, n)) = IF 1 <= n THEN n - 1 + 1 ELSE 0
      /\ \A i \in 1 .. n - 1 + 1 : SubSeq(s, 1, n)[i] = s[1 + i - 1]
  BY <1>2, SubSeqProperties
<1>4. Len(SubSeq(s, 1, n)) = n
  BY <1>1, <1>3
<1>5. ASSUME NEW i \in 1 .. n
      PROVE  SubSeq(s, 1, n)[i] = s[i]
  BY <1>1, <1>3
<1> QED
  BY <1>3, <1>4, <1>5

(* Popping a non-empty stack: Vec::pop returns the last entry and leaves   *)
(* the others.                                                             *)
LEMMA FrontLast ==
    ASSUME NEW S, NEW s \in Seq(S), s # << >>
    PROVE  /\ Len(s) \in Nat \ {0}
           /\ Front(s) \in Seq(S)
           /\ Len(Front(s)) = Len(s) - 1
           /\ Last(s) \in S
           /\ \A i \in 1 .. Len(s) - 1 : Front(s)[i] = s[i]
<1>1. Len(s) \in Nat \ {0}
  BY EmptySeq
<1>2. Last(s) \in S
  BY <1>1, ElementOfSeq DEF Last
<1>3. Len(s) - 1 \in 0 .. Len(s)
  BY <1>1
<1> QED
  BY <1>1, <1>2, <1>3, PrefixLemma DEF Front

(* Writing through last_mut changes the last entry of a stack and nothing  *)
(* else.                                                                   *)
LEMMA ReplaceLast ==
    ASSUME NEW S, NEW s \in Seq(S), s # << >>, NEW e \in S
    PROVE  /\ ReplaceAt(s, Len(s), e) \in Seq(S)
           /\ Len(ReplaceAt(s, Len(s), e)) = Len(s)
           /\ ReplaceAt(s, Len(s), e) # << >>
           /\ Last(ReplaceAt(s, Len(s), e)) = e
           /\ \A i \in 1 .. Len(s) - 1 : ReplaceAt(s, Len(s), e)[i] = s[i]
<1>1. Len(s) \in Nat /\ Len(s) \in 1 .. Len(s)
  BY EmptySeq
<1>2. ReplaceAt(s, Len(s), e) = [s EXCEPT ![Len(s)] = e]
  BY DEF ReplaceAt
<1>3. /\ ReplaceAt(s, Len(s), e) \in Seq(S)
      /\ Len(ReplaceAt(s, Len(s), e)) = Len(s)
      /\ \A j \in 1 .. Len(s) : ReplaceAt(s, Len(s), e)[j] = IF j = Len(s) THEN e ELSE s[j]
  BY <1>1, <1>2, ExceptSeq
<1>4. Last(ReplaceAt(s, Len(s), e)) = e
  BY <1>1, <1>3 DEF Last
<1>5. ReplaceAt(s, Len(s), e) # << >>
  BY <1>1, <1>3, EmptySeq
<1>6. \A i \in 1 .. Len(s) - 1 : ReplaceAt(s, Len(s), e)[i] = s[i]
  BY <1>1, <1>3
<1> QED
  BY <1>3, <1>4, <1>5, <1>6

(* Closing the exposed entry of an undo stack yields an undo stack.        *)
LEMMA CloseExposedType ==
    ASSUME NEW undo \in Seq(HistoryEntry)
    PROVE  CloseExposed(undo) \in Seq(HistoryEntry)
<1>1. CASE undo = << >>
  BY <1>1 DEF CloseExposed
<1>2. CASE undo # << >>
  <2>1. Last(undo) \in HistoryEntry
    BY <1>2, FrontLast
  <2>2. Closed(Last(undo)) \in HistoryEntry
    BY <2>1 DEF Closed, HistoryEntry
  <2> QED
    BY <1>2, <2>2, ReplaceLast DEF CloseExposed
<1> QED
  BY <1>1, <1>2

(* The least-number principle, from the library's well-foundedness of the  *)
(* naturals: the induction used below takes the least counterexample.      *)
LEMMA LeastNatural ==
    ASSUME NEW T \in SUBSET Nat, T # {}
    PROVE  \E x \in T : \A y \in T : x <= y
<1> DEFINE R == OpToRel(<, Nat)
<1>1. IsWellFoundedOn(R, Nat)
  BY NatLessThanWellFounded, Zenon
<1>2. ASSUME NEW x \in Nat, NEW y \in Nat, x < y PROVE <<x, y>> \in R
  BY <1>2 DEF OpToRel
<1> HIDE DEF R
<1>3. PICK x \in T : \A y \in T : ~ (<<y, x>> \in R)
  BY <1>1, WFMin
<1>4. ASSUME NEW y \in T PROVE x <= y
  <2>1. x \in Nat /\ y \in Nat
    OBVIOUS
  <2>2. ~ (<<y, x>> \in R)
    BY <1>3
  <2>3. ~ (y < x)
    BY <1>2, <2>1, <2>2
  <2> QED
    BY <2>1, <2>3
<1> QED
  BY <1>4

-----------------------------------------------------------------------------
(* run lists the documents the first n operations of a batch go through.   *)
IsBatchRun(run, doc, ops, n) ==
    run[0] = doc /\ \A i \in 1 .. n : run[i] = OpStep(run[i - 1], ops[i])

(* The recursive function that ApplyBatch evaluates exists.                *)
LEMMA BatchRunExists ==
    ASSUME NEW doc, NEW ops, NEW n \in Nat
    PROVE  \E run : run = [i \in 0 .. n |-> IF i = 0 THEN doc ELSE OpStep(run[i - 1], ops[i])]
<1> DEFINE Is(run, k) == run = [i \in 0 .. k |-> IF i = 0 THEN doc ELSE OpStep(run[i - 1], ops[i])]
           Bad == {k \in Nat : ~ \E run : Is(run, k)}
<1> SUFFICES ASSUME Bad # {} PROVE FALSE
  OBVIOUS
<1>1. PICK k \in Bad : \A m \in Bad : k <= m
  BY LeastNatural
<1>2. k # 0
  <2>1. Is([i \in 0 .. 0 |-> doc], 0)
    OBVIOUS
  <2> QED
    BY <2>1
<1>3. k - 1 \in Nat /\ k - 1 \notin Bad
  BY <1>1, <1>2
<1>4. PICK run : Is(run, k - 1)
  BY <1>3
<1> DEFINE longer == [i \in 0 .. k |-> IF i = k THEN OpStep(run[k - 1], ops[k]) ELSE run[i]]
<1>5. Is(longer, k)
  BY <1>1, <1>2, <1>3, <1>4
<1> QED
  BY <1>5

(* A batch that is not empty yields the last document of its run.          *)
LEMMA ApplyBatchIsRun ==
    ASSUME NEW doc, NEW ops \in Seq(Op), ops # << >>
    PROVE  \E run : IsBatchRun(run, doc, ops, Len(ops)) /\ ApplyBatch(doc, ops) = run[Len(ops)]
<1> DEFINE n == Len(ops)
           Is(run) == run = [i \in 0 .. n |-> IF i = 0 THEN doc ELSE OpStep(run[i - 1], ops[i])]
           run == CHOOSE run : Is(run)
<1>1. n \in Nat
  BY LenProperties
<1>2. Is(run)
  BY <1>1, BatchRunExists
<1>3. ApplyBatch(doc, ops) = run[n]
  BY DEF ApplyBatch
<1> HIDE DEF run, n
<1>4. IsBatchRun(run, doc, ops, n)
  <2> DEFINE f == [i \in 0 .. n |-> IF i = 0 THEN doc ELSE OpStep(run[i - 1], ops[i])]
  <2>1. run = f
    BY <1>2
  <2>2. f[0] = doc /\ \A i \in 1 .. n : f[i] = OpStep(run[i - 1], ops[i])
    BY <1>1
  <2> HIDE DEF f
  <2> QED
    BY <2>1, <2>2 DEF IsBatchRun
<1> QED
  BY <1>3, <1>4 DEF n

(* Two runs of the same operations on the same document agree.             *)
LEMMA BatchRunUnique ==
    ASSUME NEW doc, NEW first, NEW second, NEW n \in Nat, NEW f, NEW g,
           IsBatchRun(f, doc, first, n), IsBatchRun(g, doc, second, n),
           \A i \in 1 .. n : first[i] = second[i]
    PROVE  f[n] = g[n]
<1> DEFINE Bad == {k \in 0 .. n : f[k] # g[k]}
<1> SUFFICES ASSUME Bad # {} PROVE FALSE
  OBVIOUS
<1>1. PICK k \in Bad : \A j \in Bad : k <= j
  <2>1. Bad \in SUBSET Nat
    OBVIOUS
  <2> HIDE DEF Bad
  <2> QED
    BY <2>1, LeastNatural
<1>2. f[0] = g[0]
  BY DEF IsBatchRun
<1>3. k \in 1 .. n /\ k - 1 \in 0 .. n /\ k - 1 \notin Bad
  BY <1>1, <1>2
<1>4. f[k] = OpStep(f[k - 1], first[k]) /\ g[k] = OpStep(g[k - 1], second[k])
  BY <1>3 DEF IsBatchRun
<1> QED
  BY <1>3, <1>4

(* The documents a run goes through are documents, until it is refused.    *)
LEMMA BatchRunType ==
    ASSUME NEW doc \in Doc, NEW ops \in Seq(Op), NEW run, IsBatchRun(run, doc, ops, Len(ops))
    PROVE  run[Len(ops)] \in Doc \cup {Rejected}
<1> DEFINE n == Len(ops)
           Bad == {k \in 0 .. n : run[k] \notin Doc \cup {Rejected}}
<1>1. n \in Nat /\ \A i \in 1 .. n : ops[i] \in Op
  BY LenProperties, ElementOfSeq
<1> SUFFICES ASSUME Bad # {} PROVE FALSE
  BY <1>1
<1>2. run[0] = doc /\ \A i \in 1 .. n : run[i] = OpStep(run[i - 1], ops[i])
  BY DEF IsBatchRun
<1> HIDE DEF n
<1>3. PICK k \in Bad : \A j \in Bad : k <= j
  <2>1. Bad \in SUBSET Nat
    BY <1>1
  <2> HIDE DEF Bad
  <2> QED
    BY <2>1, LeastNatural
<1>4. k \in 1 .. n /\ k - 1 \in 0 .. n /\ k - 1 \notin Bad
  BY <1>1, <1>2, <1>3
<1>5. run[k - 1] \in Doc \cup {Rejected} /\ run[k] = OpStep(run[k - 1], ops[k]) /\ ops[k] \in Op
  BY <1>1, <1>2, <1>4
<1> QED
  BY <1>3, <1>5, ApplyOpType DEF OpStep

(* apply_batch yields a document or refuses the batch.                     *)
LEMMA ApplyBatchType ==
    ASSUME NEW doc \in Doc, NEW ops \in Seq(Op)
    PROVE  ApplyBatch(doc, ops) \in Doc \cup {Rejected}
<1>1. CASE ops = << >>
  BY <1>1 DEF ApplyBatch
<1>2. CASE ops # << >>
  BY <1>2, ApplyBatchIsRun, BatchRunType
<1> QED
  BY <1>1, <1>2

(* A run over two batches in a row is a run over the first and then, from  *)
(* where that one ends, a run over the second.                             *)
LEMMA BatchRunSplit ==
    ASSUME NEW doc, NEW a \in Seq(Op), NEW b \in Seq(Op), NEW run,
           IsBatchRun(run, doc, a \o b, Len(a \o b))
    PROVE  /\ IsBatchRun(run, doc, a, Len(a))
           /\ IsBatchRun([i \in 0 .. Len(b) |-> run[Len(a) + i]], run[Len(a)], b, Len(b))
           /\ run[Len(a \o b)] = [i \in 0 .. Len(b) |-> run[Len(a) + i]][Len(b)]
<1> DEFINE m == Len(a)
           n == Len(b)
           rest == [i \in 0 .. n |-> run[m + i]]
<1>1. m \in Nat /\ n \in Nat
  BY LenProperties
<1>2. /\ Len(a \o b) = m + n
      /\ \A i \in 1 .. m + n : (a \o b)[i] = IF i <= m THEN a[i] ELSE b[i - m]
  BY ConcatProperties
<1>3. /\ run[0] = doc
      /\ \A i \in 1 .. m + n : run[i] = OpStep(run[i - 1], (a \o b)[i])
  BY <1>2 DEF IsBatchRun
<1> HIDE DEF m, n
<1>4. IsBatchRun(run, doc, a, m)
  <2>1. ASSUME NEW i \in 1 .. m PROVE run[i] = OpStep(run[i - 1], a[i])
    <3>1. i \in 1 .. m + n /\ i <= m
      BY <1>1
    <3> QED
      BY <1>2, <1>3, <3>1
  <2> QED
    BY <1>3, <2>1 DEF IsBatchRun
<1>5. IsBatchRun(rest, run[m], b, n)
  <2>1. rest[0] = run[m]
    BY <1>1
  <2>2. ASSUME NEW i \in 1 .. n PROVE rest[i] = OpStep(rest[i - 1], b[i])
    <3>1. m + i \in 1 .. m + n /\ ~ (m + i <= m) /\ (m + i) - m = i /\ (m + i) - 1 = m + (i - 1)
      BY <1>1
    <3>2. run[m + i] = OpStep(run[m + (i - 1)], b[i])
      BY <1>2, <1>3, <3>1
    <3>3. rest[i] = run[m + i] /\ rest[i - 1] = run[m + (i - 1)]
      BY <1>1
    <3> QED
      BY <3>2, <3>3
  <2> HIDE DEF rest
  <2> QED
    BY <2>1, <2>2 DEF IsBatchRun
<1>6. run[m + n] = rest[n]
  BY <1>1
<1> QED
  BY <1>2, <1>4, <1>5, <1>6 DEF m, n

(* Sequential semantics: a batch extended by another one does what the two *)
(* do one after the other, as the comment of apply_batch says.             *)
LEMMA ApplyBatchConcat ==
    ASSUME NEW doc, NEW a \in Seq(Op), NEW b \in Seq(Op), a # << >>, b # << >>
    PROVE  ApplyBatch(doc, a \o b) = ApplyBatch(ApplyBatch(doc, a), b)
<1> DEFINE m == Len(a)
           n == Len(b)
<1>1. m \in Nat \ {0} /\ n \in Nat \ {0}
  BY EmptySeq
<1>2. a \o b \in Seq(Op) /\ Len(a \o b) = m + n
  BY ConcatProperties
<1>3. a \o b # << >>
  <2>1. Len(a \o b) # 0
    BY <1>1, <1>2
  <2> QED
    BY <2>1, EmptySeq
<1>4. PICK f : IsBatchRun(f, doc, a \o b, Len(a \o b)) /\ ApplyBatch(doc, a \o b) = f[Len(a \o b)]
  BY <1>2, <1>3, ApplyBatchIsRun
<1> DEFINE rest == [i \in 0 .. n |-> f[m + i]]
<1>5. /\ IsBatchRun(f, doc, a, m)
      /\ IsBatchRun(rest, f[m], b, n)
      /\ f[Len(a \o b)] = rest[n]
  BY <1>4, BatchRunSplit
<1> HIDE DEF rest
<1>6. PICK g : IsBatchRun(g, doc, a, m) /\ ApplyBatch(doc, a) = g[m]
  BY ApplyBatchIsRun
<1>7. f[m] = ApplyBatch(doc, a)
  BY <1>1, <1>5, <1>6, BatchRunUnique
<1>8. PICK k : IsBatchRun(k, f[m], b, n) /\ ApplyBatch(f[m], b) = k[n]
  BY ApplyBatchIsRun
<1>9. rest[n] = ApplyBatch(f[m], b)
  BY <1>1, <1>5, <1>8, BatchRunUnique
<1> QED
  BY <1>4, <1>5, <1>7, <1>9

-----------------------------------------------------------------------------
(* The fields of a journal command: edits carry a submitted batch, a       *)
(* coalesced one a key, Undo and Redo nothing.                             *)
LEMMA CommandType ==
    ASSUME NEW cmd \in JournalCommand
    PROVE  /\ cmd.ops \in Seq(Op)
           /\ cmd.key \in Key \cup {None}
           /\ cmd.type \notin {"Undo", "Redo"} => cmd.ops \in Batches
           /\ cmd.type \in {"Undo", "Redo"} => cmd \in {Undo, Redo}
           /\ cmd.type \in {"DoBatch", "DoBatchCoalesced", "Undo", "Redo"}
           /\ cmd.type = "DoBatchCoalesced" => cmd.key \in Key
<1>1. << >> \in Seq(Op)
  BY EmptySeq
<1>2. CASE cmd \in Edits
  BY <1>2, HistoryConstants DEF Edits, DoBatch, DoBatchCoalesced
<1>3. CASE cmd \in {Undo, Redo}
  <2>1. cmd.ops = << >> /\ cmd.key = None /\ cmd.type \in {"Undo", "Redo"}
    BY <1>3 DEF Undo, Redo
  <2> QED
    BY <1>1, <1>3, <2>1
<1> QED
  BY <1>2, <1>3 DEF JournalCommand

(* Canonicalising legacy names keeps a journal command's kind and key.     *)
LEMMA CanonicalCommandType ==
    ASSUME NEW cmd \in JournalCommand
    PROVE  /\ CanonicalCommand(cmd) \in JournalCommand
           /\ CanonicalCommand(cmd).type = cmd.type
           /\ CanonicalCommand(cmd).key = cmd.key
<1>1. CASE cmd \in Edits
  BY <1>1, BatchesCanonical DEF JournalCommand, Edits, DoBatch, DoBatchCoalesced, CanonicalCommand
<1>2. CASE cmd \in {Undo, Redo}
  <2>1. CanonicalBatch(<< >>) = << >>
    BY DEF CanonicalBatch
  <2> QED
    BY <1>2, <2>1 DEF JournalCommand, Undo, Redo, CanonicalCommand
<1> QED
  BY <1>1, <1>2 DEF JournalCommand

(* An accepted edit (do_batch, do_batch_coalesced) yields a history.       *)
LEMMA EditType ==
    ASSUME NEW h \in History, NEW cmd \in JournalCommand,
           cmd.type \notin {"Undo", "Redo"}, ApplyBatch(h.document, cmd.ops) # Rejected
    PROVE  Edit(h, cmd) \in History
<1>1. cmd.ops \in Batches /\ cmd.ops \in Seq(Op) /\ cmd.key \in Key \cup {None}
  BY CommandType
<1>2. ApplyBatch(h.document, cmd.ops) \in Doc
  BY <1>1, ApplyBatchType DEF History
<1>3. h.undo \in Seq(HistoryEntry) /\ h.document \in Doc
  BY DEF History
<1>4. PushClosed(h, cmd.ops) \in Seq(HistoryEntry)
  BY <1>1, <1>3, AppendProperties DEF PushClosed, Entry, HistoryEntry
<1>5. PushCoalesced(h, cmd.ops, cmd.key) \in Seq(HistoryEntry)
  <2>1. CASE Merges(h, cmd.key)
    <3>1. h.undo # << >> /\ Last(h.undo) \in HistoryEntry
      BY <1>3, <2>1, FrontLast DEF Merges
    <3>2. Last(h.undo).operations \o cmd.ops \in Seq(Op)
      BY <1>1, <3>1, ConcatProperties DEF HistoryEntry
    <3>3. Extended(Last(h.undo), cmd.ops) \in HistoryEntry
      BY <3>1, <3>2 DEF Extended, HistoryEntry
    <3> QED
      BY <1>3, <2>1, <3>1, <3>3, ReplaceLast DEF PushCoalesced
  <2>2. CASE ~ Merges(h, cmd.key)
    BY <1>1, <1>3, <2>2, AppendProperties DEF PushCoalesced, Entry, HistoryEntry
  <2> QED
    BY <2>1, <2>2
<1>6. h.op_log \o cmd.ops \in Seq(Op)
  BY <1>1, ConcatProperties DEF History
<1>7. << >> \in Seq(HistoryEntry)
  BY EmptySeq
<1>8. h.revision + 1 \in Nat
  BY DEF History
<1> QED
  BY <1>2, <1>4, <1>5, <1>6, <1>7, <1>8 DEF Edit, History

(* CoreState::undo yields a history.                                       *)
LEMMA UndoStepType ==
    ASSUME NEW h \in History
    PROVE  UndoStep(h) \in History
<1>1. CASE h.undo = << >>
  BY <1>1 DEF UndoStep
<1>2. CASE h.undo # << >>
  <2>1. /\ Last(h.undo) \in HistoryEntry
        /\ Front(h.undo) \in Seq(HistoryEntry)
    BY <1>2, FrontLast DEF History
  <2>2. CloseExposed(Front(h.undo)) \in Seq(HistoryEntry)
    BY <2>1, CloseExposedType
  <2>3. Entry(h.document, Last(h.undo).operations, None) \in HistoryEntry
    BY <2>1 DEF History, HistoryEntry, Entry
  <2>4. Append(h.redo, Entry(h.document, Last(h.undo).operations, None)) \in Seq(HistoryEntry)
    BY <2>3, AppendProperties DEF History
  <2>5. Last(h.undo).document \in Doc
    BY <2>1 DEF HistoryEntry
  <2>6. h.revision + 1 \in Nat
    BY DEF History
  <2> QED
    BY <1>2, <2>2, <2>4, <2>5, <2>6 DEF UndoStep, History
<1> QED
  BY <1>1, <1>2

(* CoreState::redo yields a history.                                       *)
LEMMA RedoStepType ==
    ASSUME NEW h \in History
    PROVE  RedoStep(h) \in History
<1>1. CASE h.redo = << >>
  BY <1>1 DEF RedoStep
<1>2. CASE h.redo # << >>
  <2>1. /\ Last(h.redo) \in HistoryEntry
        /\ Front(h.redo) \in Seq(HistoryEntry)
    BY <1>2, FrontLast DEF History
  <2>2. Entry(h.document, Last(h.redo).operations, None) \in HistoryEntry
    BY <2>1 DEF History, HistoryEntry, Entry
  <2>3. Append(h.undo, Entry(h.document, Last(h.redo).operations, None)) \in Seq(HistoryEntry)
    BY <2>2, AppendProperties DEF History
  <2>4. Last(h.redo).document \in Doc
    BY <2>1 DEF HistoryEntry
  <2>5. h.revision + 1 \in Nat
    BY DEF History
  <2> QED
    BY <1>2, <2>1, <2>3, <2>4, <2>5 DEF RedoStep, History
<1> QED
  BY <1>1, <1>2

(* Whatever execute_command_inner accepts yields a history.                *)
LEMMA AppliedType ==
    ASSUME NEW h \in History, NEW cmd \in JournalCommand, Accepts(h, cmd)
    PROVE  Applied(h, cmd) \in History
<1>1. CASE cmd.type = "Undo"
  BY <1>1, UndoStepType DEF Applied
<1>2. CASE cmd.type = "Redo"
  BY <1>2, RedoStepType DEF Applied
<1>3. CASE cmd.type \notin {"Undo", "Redo"}
  BY <1>3, EditType DEF Applied, Accepts
<1> QED
  BY <1>1, <1>2, <1>3

(* execute_command records exactly one batch per accepted command.         *)
LEMMA RecordType ==
    ASSUME NEW h \in History, NEW cmd \in JournalCommand
    PROVE  /\ Record(h, cmd) \in History
           /\ Len(Record(h, cmd).batches) = Len(h.batches) + 1
           /\ Last(Record(h, cmd).batches) \in HistoryBatch
<1> DEFINE b == [order |-> Len(h.batches), command |-> cmd,
                 undo_entries |-> Len(h.undo), redo_entries |-> Len(h.redo)]
<1>1. /\ Len(h.batches) \in Nat
      /\ Len(h.undo) \in Nat
      /\ Len(h.redo) \in Nat
      /\ h.batches \in Seq(HistoryBatch)
  BY LenProperties DEF History
<1>2. b \in HistoryBatch
  BY <1>1 DEF HistoryBatch
<1>3. Record(h, cmd) = [h EXCEPT !.batches = Append(h.batches, b)]
  BY DEF Record
<1> HIDE DEF b
<1>4. /\ Append(h.batches, b) \in Seq(HistoryBatch)
      /\ Len(Append(h.batches, b)) = Len(h.batches) + 1
      /\ Append(h.batches, b)[Len(h.batches) + 1] = b
  BY <1>1, <1>2, AppendProperties
<1>5. Record(h, cmd).batches = Append(h.batches, b)
  BY <1>3 DEF History
<1>6. Record(h, cmd) \in History
  BY <1>3, <1>4 DEF History
<1>7. Last(Record(h, cmd).batches) = b
  BY <1>4, <1>5 DEF Last
<1> QED
  BY <1>2, <1>4, <1>5, <1>6, <1>7

(* execute_command maps histories to histories.                            *)
LEMMA ExecType ==
    ASSUME NEW h \in History, NEW cmd \in JournalCommand
    PROVE  Exec(h, cmd) \in History
<1>1. CanonicalCommand(cmd) \in JournalCommand
  BY CanonicalCommandType
<1>2. CASE Accepts(h, CanonicalCommand(cmd))
  BY <1>1, <1>2, AppliedType, RecordType DEF Exec
<1>3. CASE ~ Accepts(h, CanonicalCommand(cmd))
  BY <1>3 DEF Exec
<1> QED
  BY <1>2, <1>3

(* CoreState::new yields a history.                                        *)
LEMMA NewHistoryType ==
    ASSUME NEW doc \in Doc, NEW revision \in Nat
    PROVE  NewHistory(doc, revision) \in History
<1>1. << >> \in Seq(HistoryEntry) /\ << >> \in Seq(Op) /\ << >> \in Seq(HistoryBatch)
  BY EmptySeq
<1> QED
  BY <1>1 DEF NewHistory, History

(* CoreState::history yields a snapshot.                                   *)
LEMMA SnapshotType ==
    ASSUME NEW h \in History, NEW base \in Doc, NEW offset \in Nat
    PROVE  Snapshot(h, base, offset) \in HistorySnapshot
BY DEF Snapshot, History, HistorySnapshot

(* run lists the histories a replay of the first n batches goes through.   *)
IsRun(run, h, batches, n) ==
    run = [i \in 0 .. n |-> IF i = 0 THEN h ELSE ReplayStep(run[i - 1], batches[i])]

(* Every stream has a run.                                                 *)
LEMMA RunExists ==
    ASSUME NEW h, NEW batches, NEW n \in Nat
    PROVE  \E run : IsRun(run, h, batches, n)
<1> DEFINE Bad == {k \in Nat : ~ \E run : IsRun(run, h, batches, k)}
<1> SUFFICES ASSUME Bad # {} PROVE FALSE
  OBVIOUS
<1>1. PICK k \in Bad : \A m \in Bad : k <= m
  BY LeastNatural
<1>2. k # 0
  <2>1. IsRun([i \in 0 .. 0 |-> h], h, batches, 0)
    BY DEF IsRun
  <2> QED
    BY <2>1
<1>3. k - 1 \in Nat /\ k - 1 \notin Bad
  BY <1>1, <1>2
<1>4. PICK run : IsRun(run, h, batches, k - 1)
  BY <1>3
<1> DEFINE longer == [i \in 0 .. k |-> IF i = k THEN ReplayStep(run[k - 1], batches[k]) ELSE run[i]]
<1>5. IsRun(longer, h, batches, k)
  BY <1>1, <1>2, <1>3, <1>4 DEF IsRun
<1> QED
  BY <1>5

(* The steps of a run.                                                     *)
LEMMA RunSteps ==
    ASSUME NEW h, NEW batches, NEW n \in Nat, NEW run, IsRun(run, h, batches, n)
    PROVE  /\ run[0] = h
           /\ \A i \in 1 .. n : run[i] = ReplayStep(run[i - 1], batches[i])
<1> DEFINE f == [i \in 0 .. n |-> IF i = 0 THEN h ELSE ReplayStep(run[i - 1], batches[i])]
<1>1. run = f
  BY DEF IsRun
<1>2. 0 \in 0 .. n
  OBVIOUS
<1>3. f[0] = h
  BY <1>2
<1>4. \A i \in 1 .. n : f[i] = ReplayStep(run[i - 1], batches[i])
  OBVIOUS
<1> HIDE DEF f
<1> QED
  BY <1>1, <1>3, <1>4

(* Two runs over streams with the same beginning agree there.              *)
LEMMA RunUnique ==
    ASSUME NEW h, NEW first, NEW second, NEW n \in Nat, NEW m \in Nat, n <= m,
           NEW f, NEW g, IsRun(f, h, first, n), IsRun(g, h, second, m),
           \A i \in 1 .. n : first[i] = second[i]
    PROVE  f[n] = g[n]
<1> DEFINE Bad == {k \in 0 .. n : f[k] # g[k]}
<1> SUFFICES ASSUME Bad # {} PROVE FALSE
  OBVIOUS
<1>1. PICK k \in Bad : \A j \in Bad : k <= j
  <2>1. Bad \in SUBSET Nat
    OBVIOUS
  <2> HIDE DEF Bad
  <2> QED
    BY <2>1, LeastNatural
<1>2. f[0] = g[0]
  <2>1. f[0] = h
    BY RunSteps
  <2>2. g[0] = h
    BY RunSteps
  <2> QED
    BY <2>1, <2>2
<1>3. k # 0 /\ k - 1 \in 0 .. n /\ k - 1 \notin Bad
  BY <1>1, <1>2
<1>4. f[k] = ReplayStep(f[k - 1], first[k]) /\ g[k] = ReplayStep(g[k - 1], second[k])
  <2>1. k \in 1 .. n /\ k \in 1 .. m
    BY <1>3
  <2> QED
    BY <2>1, RunSteps
<1> QED
  BY <1>3, <1>4

(* A replay is the end of a run.                                           *)
LEMMA ReplayIsRun ==
    ASSUME NEW h, NEW batches, Len(batches) \in Nat
    PROVE  \E run : IsRun(run, h, batches, Len(batches)) /\ Replay(h, batches) = run[Len(batches)]
<1> DEFINE n == Len(batches)
           run == CHOOSE run : IsRun(run, h, batches, n)
<1>1. IsRun(run, h, batches, n)
  BY RunExists
<1>2. Replay(h, batches) = run[n]
  BY DEF Replay, IsRun
<1> QED
  BY <1>1, <1>2

(* Replaying nothing changes nothing.                                      *)
LEMMA ReplayEmpty ==
    ASSUME NEW h
    PROVE  Replay(h, << >>) = h
<1>1. Len(<< >>) = 0
  BY EmptySeq
<1>2. PICK run : IsRun(run, h, << >>, 0) /\ Replay(h, << >>) = run[0]
  BY <1>1, ReplayIsRun
<1> QED
  BY <1>2, RunSteps

(* Replaying one batch more is one step more: the accepted stream can be   *)
(* replayed as it grows.                                                   *)
LEMMA ReplayAppend ==
    ASSUME NEW h, NEW batches \in Seq(HistoryBatch), NEW batch \in HistoryBatch
    PROVE  Replay(h, Append(batches, batch)) = ReplayStep(Replay(h, batches), batch)
<1> DEFINE n == Len(batches)
           longer == Append(batches, batch)
<1>1. n \in Nat
  BY LenProperties
<1>2. Len(longer) = n + 1 /\ longer[n + 1] = batch /\ \A i \in 1 .. n : longer[i] = batches[i]
  BY AppendProperties
<1>3. PICK f : IsRun(f, h, batches, n) /\ Replay(h, batches) = f[n]
  BY <1>1, ReplayIsRun
<1> HIDE DEF n, longer
<1>4. PICK g : IsRun(g, h, longer, n + 1) /\ Replay(h, longer) = g[n + 1]
  <2>1. Len(longer) \in Nat
    BY <1>1, <1>2
  <2> QED
    BY <1>2, <2>1, ReplayIsRun
<1>5. f[n] = g[n]
  <2>1. n + 1 \in Nat /\ n <= n + 1
    BY <1>1
  <2>2. \A i \in 1 .. n : batches[i] = longer[i]
    BY <1>2
  <2> QED
    BY <1>1, <1>3, <1>4, <2>1, <2>2, RunUnique
<1>6. g[n + 1] = ReplayStep(g[n], longer[n + 1])
  <2>1. n + 1 \in Nat /\ n + 1 \in 1 .. n + 1 /\ (n + 1) - 1 = n
    BY <1>1
  <2>2. \A i \in 1 .. n + 1 : g[i] = ReplayStep(g[i - 1], longer[i])
    BY <1>4, <2>1, RunSteps
  <2> QED
    BY <2>1, <2>2
<1> QED
  BY <1>2, <1>3, <1>4, <1>5, <1>6 DEF longer

(* A stream is its beginnings, each one batch longer than the one before.  *)
LEMMA Beginnings ==
    ASSUME NEW S, NEW s \in Seq(S)
    PROVE  /\ SubSeq(s, 1, 0) = << >>
           /\ SubSeq(s, 1, Len(s)) = s
           /\ \A n \in 1 .. Len(s) : SubSeq(s, 1, n) = Append(SubSeq(s, 1, n - 1), s[n])
<1>1. SubSeq(s, 1, 0) = << >>
  BY SubSeqEmpty
<1>2. SubSeq(s, 1, Len(s)) = s
  BY SubSeqFull
<1>3. ASSUME NEW n \in 1 .. Len(s)
      PROVE  SubSeq(s, 1, n) = Append(SubSeq(s, 1, n - 1), s[n])
  <2> DEFINE t == SubSeq(s, 1, n)
             u == SubSeq(s, 1, n - 1)
             v == Append(u, s[n])
  <2>1. Len(s) \in Nat /\ n - 1 \in 0 .. Len(s) /\ n \in 0 .. Len(s) /\ s[n] \in S
    BY LenProperties, ElementOfSeq
  <2>2. t \in Seq(S) /\ Len(t) = n /\ \A i \in 1 .. n : t[i] = s[i]
    BY <2>1, PrefixLemma
  <2>3. u \in Seq(S) /\ Len(u) = n - 1 /\ \A i \in 1 .. n - 1 : u[i] = s[i]
    BY <2>1, PrefixLemma
  <2> HIDE DEF t, u
  <2>4. v \in Seq(S) /\ Len(v) = n /\ v[n] = s[n] /\ \A i \in 1 .. n - 1 : v[i] = s[i]
    BY <2>1, <2>3, AppendProperties
  <2> HIDE DEF v
  <2>5. \A i \in 1 .. n : t[i] = v[i]
    BY <2>2, <2>4
  <2>6. t = v
    BY <2>2, <2>4, <2>5, SeqEqual
  <2> QED
    BY <2>6 DEF t, u, v
<1> QED
  BY <1>1, <1>2, <1>3

(* Canonicalising twice is canonicalising once.                            *)
LEMMA CanonicalOnce ==
    ASSUME NEW cmd \in JournalCommand
    PROVE  CanonicalCommand(CanonicalCommand(cmd)) = CanonicalCommand(cmd)
<1> DEFINE ops == cmd.ops
<1>1. ops \in Seq(Op)
  BY CommandType
<1>2. ops \in [1 .. Len(ops) -> Op] /\ DOMAIN ops = 1 .. Len(ops)
  BY <1>1, LenProperties
<1> HIDE DEF ops
<1>3. CanonicalBatch(CanonicalBatch(ops)) = CanonicalBatch(ops)
  BY <1>2, HistoryConstants, CanonicalIdempotent DEF CanonicalBatch
<1>4. CanonicalCommand(cmd).ops = CanonicalBatch(ops)
  BY DEF CanonicalCommand, JournalCommand, Edits, DoBatch, DoBatchCoalesced, Undo, Redo, ops
<1>5. CanonicalCommand(CanonicalCommand(cmd))
        = [CanonicalCommand(cmd) EXCEPT !.ops = CanonicalBatch(CanonicalBatch(ops))]
  BY <1>4 DEF CanonicalCommand
<1>6. CanonicalCommand(CanonicalCommand(cmd)) = [CanonicalCommand(cmd) EXCEPT !.ops = CanonicalBatch(ops)]
  BY <1>3, <1>5
<1> QED
  BY <1>6 DEF CanonicalCommand, ops

(* The batch that an accepted command leaves at the end of the stream.     *)
BatchOf(h, cmd) ==
    [order |-> Len(h.batches), command |-> CanonicalCommand(cmd),
     undo_entries |-> Len(Exec(h, cmd).undo), redo_entries |-> Len(Exec(h, cmd).redo)]

(* An accepted command grows the stream by its own batch, which replays to *)
(* the same history.                                                       *)
LEMMA ExecBatch ==
    ASSUME NEW h \in History, NEW cmd \in JournalCommand, Accepts(h, CanonicalCommand(cmd))
    PROVE  /\ Exec(h, cmd).batches = Append(h.batches, BatchOf(h, cmd))
           /\ BatchOf(h, cmd) \in HistoryBatch
           /\ BatchOf(h, cmd).command = CanonicalCommand(cmd)
           /\ Exec(h, CanonicalCommand(cmd)) = Exec(h, cmd)
<1> DEFINE c == CanonicalCommand(cmd)
           x == Applied(h, c)
           b == [order |-> Len(x.batches), command |-> c,
                 undo_entries |-> Len(x.undo), redo_entries |-> Len(x.redo)]
<1>1. c \in JournalCommand
  BY CanonicalCommandType
<1>2. x \in History
  BY <1>1, AppliedType
<1>3. Exec(h, cmd) = Record(x, c)
  BY DEF Exec
<1>4. x.batches = h.batches
  BY DEF Applied, UndoStep, RedoStep, Edit, History
<1>5. Exec(h, c) = Exec(h, cmd)
  BY CanonicalOnce DEF Exec
<1>6. Record(x, c) = [x EXCEPT !.batches = Append(x.batches, b)]
  BY DEF Record
<1>7. b \in HistoryBatch
  <2>1. Len(x.batches) \in Nat /\ Len(x.undo) \in Nat /\ Len(x.redo) \in Nat
    BY <1>2, LenProperties DEF History
  <2> QED
    BY <1>1, <2>1 DEF HistoryBatch
<1>8. b = BatchOf(h, cmd)
  <2>1. Record(x, c).undo = x.undo /\ Record(x, c).redo = x.redo
    BY <1>2, <1>6 DEF History
  <2> QED
    BY <1>3, <1>4, <2>1 DEF BatchOf
<1> HIDE DEF x, b
<1>9. Record(x, c).batches = Append(x.batches, b)
  BY <1>2, <1>6 DEF History
<1>10. b.command = c
  BY DEF b
<1> QED
  BY <1>3, <1>4, <1>5, <1>7, <1>8, <1>9, <1>10

(* The part of a history that decides what a command does.                 *)
SameStacks(g, h) == g.document = h.document /\ g.undo = h.undo /\ g.redo = h.redo

(* A command does the same to two histories with the same document and     *)
(* stacks, and records the same batch in streams of the same length.       *)
LEMMA ExecSame ==
    ASSUME NEW g \in History, NEW h \in History, NEW cmd \in JournalCommand,
           SameStacks(g, h), Accepts(h, CanonicalCommand(cmd))
    PROVE  /\ Accepts(g, CanonicalCommand(cmd))
           /\ SameStacks(Exec(g, cmd), Exec(h, cmd))
           /\ Len(g.batches) = Len(h.batches) => BatchOf(g, cmd) = BatchOf(h, cmd)
<1> DEFINE c == CanonicalCommand(cmd)
           x == Applied(g, c)
           y == Applied(h, c)
<1>1. c \in JournalCommand
  BY CanonicalCommandType
<1>2. Accepts(g, c)
  BY DEF Accepts, SameStacks
<1>3. x \in History /\ y \in History
  BY <1>1, <1>2, AppliedType
<1>4. SameStacks(x, y)
  <2>1. CASE c.type = "Undo"
    BY <2>1 DEF SameStacks, Applied, UndoStep, History
  <2>2. CASE c.type = "Redo"
    BY <2>2 DEF SameStacks, Applied, RedoStep, History
  <2>3. CASE c.type \notin {"Undo", "Redo"}
    <3>1. PushClosed(g, c.ops) = PushClosed(h, c.ops)
      BY DEF PushClosed, SameStacks
    <3>2. PushCoalesced(g, c.ops, c.key) = PushCoalesced(h, c.ops, c.key)
      BY DEF PushCoalesced, Merges, SameStacks
    <3> QED
      BY <2>3, <3>1, <3>2 DEF SameStacks, Applied, Edit, History
  <2> QED
    BY <2>1, <2>2, <2>3
<1>5. Exec(g, cmd) = Record(x, c) /\ Exec(h, cmd) = Record(y, c)
  BY <1>2 DEF Exec
<1> HIDE DEF x, y
<1>6. SameStacks(Record(x, c), Record(y, c))
  BY <1>3, <1>4 DEF SameStacks, Record, History
<1> HIDE DEF c
<1>7. SameStacks(Exec(g, cmd), Exec(h, cmd))
  BY <1>5, <1>6
<1>8. Len(g.batches) = Len(h.batches) => BatchOf(g, cmd) = BatchOf(h, cmd)
  BY <1>7 DEF SameStacks, BatchOf
<1> QED
  BY <1>2, <1>7, <1>8 DEF c

(* A replay that does not fail yields a history with one batch more for    *)
(* each batch replayed.                                                    *)
LEMMA ReplayFacts ==
    ASSUME NEW h \in History, NEW batches \in Seq(HistoryBatch), Replay(h, batches) # Rejected
    PROVE  /\ Replay(h, batches) \in History
           /\ Len(Replay(h, batches).batches) = Len(h.batches) + Len(batches)
<1> DEFINE R(n) == Replay(h, SubSeq(batches, 1, n))
           Good(n) == R(n) = Rejected \/ (R(n) \in History /\ Len(R(n).batches) = Len(h.batches) + n)
           Bad == {n \in 0 .. Len(batches) : ~ Good(n)}
<1>1. Len(batches) \in Nat /\ Len(h.batches) \in Nat
  BY LenProperties DEF History
<1>2. Good(0)
  <2>1. R(0) = h
    BY Beginnings, ReplayEmpty
  <2> QED
    BY <1>1, <2>1
<1>3. ASSUME NEW n \in 1 .. Len(batches), Good(n - 1) PROVE Good(n)
  <2> DEFINE b == batches[n]
             r == R(n - 1)
  <2>1. b \in HistoryBatch
    BY ElementOfSeq
  <2>2. R(n) = ReplayStep(r, b)
    <3>1. SubSeq(batches, 1, n) = Append(SubSeq(batches, 1, n - 1), b)
      BY Beginnings
    <3>2. SubSeq(batches, 1, n - 1) \in Seq(HistoryBatch)
      BY <1>1, PrefixLemma
    <3> QED
      BY <2>1, <3>1, <3>2, ReplayAppend
  <2>3. b.command \in JournalCommand
    BY <2>1 DEF HistoryBatch
  <2>4. ASSUME R(n) # Rejected
        PROVE  R(n) \in History /\ Len(R(n).batches) = Len(h.batches) + n
    <3>1. /\ r # Rejected /\ Accepts(r, CanonicalCommand(b.command))
          /\ R(n) = Exec(r, b.command)
      BY <2>2, <2>4 DEF ReplayStep
    <3>2. r \in History /\ Len(r.batches) = Len(h.batches) + (n - 1)
      BY <1>3, <3>1
    <3> HIDE DEF r, R, b
    <3>3. Exec(r, b.command) \in History
      BY <2>3, <3>2, ExecType
    <3>4. Len(Exec(r, b.command).batches) = Len(r.batches) + 1
      <4>1. r.batches \in Seq(HistoryBatch)
        BY <3>2 DEF History
      <4> QED
        BY <2>3, <3>1, <3>2, <4>1, ExecBatch, AppendProperties
    <3> QED
      BY <1>1, <3>1, <3>2, <3>3, <3>4
  <2> QED
    BY <2>4
<1> HIDE DEF Good, R
<1>4. Bad = {}
  <2> SUFFICES ASSUME Bad # {} PROVE FALSE
    OBVIOUS
  <2>1. PICK n \in Bad : \A m \in Bad : n <= m
    <3>1. Bad \in SUBSET Nat
      BY <1>1
    <3> HIDE DEF Bad
    <3> QED
      BY <3>1, LeastNatural
  <2>2. n \in 1 .. Len(batches) /\ n - 1 \in 0 .. Len(batches) /\ n - 1 \notin Bad
    BY <1>1, <1>2, <2>1
  <2> QED
    BY <1>3, <2>1, <2>2
<1>5. Good(Len(batches))
  BY <1>1, <1>4
<1>6. R(Len(batches)) = Replay(h, batches)
  BY Beginnings DEF R
<1> QED
  BY <1>5, <1>6 DEF Good

(* The stream a replay records is the stream replayed, canonical and       *)
(* renumbered: replaying it again gives the same history.                  *)
LEMMA ReplayAgain ==
    ASSUME NEW h \in History, h.batches = << >>, NEW batches \in Seq(HistoryBatch),
           Replay(h, batches) # Rejected
    PROVE  Replay(h, Replay(h, batches).batches) = Replay(h, batches)
<1> DEFINE R(n) == Replay(h, SubSeq(batches, 1, n))
           Good(n) == R(n) # Rejected => Replay(h, R(n).batches) = R(n)
           Bad == {n \in 0 .. Len(batches) : ~ Good(n)}
<1>1. Len(batches) \in Nat
  BY LenProperties
<1>2. Good(0)
  <2>1. R(0) = h
    BY Beginnings, ReplayEmpty
  <2> QED
    BY <2>1, ReplayEmpty
<1>3. ASSUME NEW n \in 1 .. Len(batches), Good(n - 1) PROVE Good(n)
  <2> SUFFICES ASSUME R(n) # Rejected PROVE Replay(h, R(n).batches) = R(n)
    OBVIOUS
  <2> DEFINE b == batches[n]
             r == R(n - 1)
             e == BatchOf(r, b.command)
  <2>1. b \in HistoryBatch /\ b.command \in JournalCommand
    <3>1. b \in HistoryBatch
      BY ElementOfSeq
    <3> QED
      BY <3>1 DEF HistoryBatch
  <2>2. SubSeq(batches, 1, n - 1) \in Seq(HistoryBatch)
    BY <1>1, PrefixLemma
  <2>3. R(n) = ReplayStep(r, b)
    <3>1. SubSeq(batches, 1, n) = Append(SubSeq(batches, 1, n - 1), b)
      BY Beginnings
    <3> QED
      BY <2>1, <2>2, <3>1, ReplayAppend
  <2>4. /\ r # Rejected /\ Accepts(r, CanonicalCommand(b.command))
        /\ R(n) = Exec(r, b.command)
    BY <2>3 DEF ReplayStep
  <2>5. r \in History
    BY <2>2, <2>4, ReplayFacts
  <2>6. Replay(h, r.batches) = r
    BY <1>3, <2>4
  <2> HIDE DEF r, R, b, e
  <2>7. /\ Exec(r, b.command).batches = Append(r.batches, e)
        /\ e \in HistoryBatch
        /\ e.command = CanonicalCommand(b.command)
        /\ Exec(r, CanonicalCommand(b.command)) = Exec(r, b.command)
    BY <2>1, <2>4, <2>5, ExecBatch DEF e
  <2>8. r.batches \in Seq(HistoryBatch)
    BY <2>5 DEF History
  <2>9. Replay(h, Append(r.batches, e)) = ReplayStep(r, e)
    BY <2>6, <2>7, <2>8, ReplayAppend
  <2>10. CanonicalCommand(CanonicalCommand(b.command)) = CanonicalCommand(b.command)
    BY <2>1, CanonicalOnce
  <2>11. ReplayStep(r, e) = Exec(r, b.command)
    BY <2>4, <2>7, <2>10 DEF ReplayStep
  <2> QED
    BY <2>4, <2>7, <2>9, <2>11
<1> HIDE DEF Good, R
<1>4. Bad = {}
  <2> SUFFICES ASSUME Bad # {} PROVE FALSE
    OBVIOUS
  <2>1. PICK n \in Bad : \A m \in Bad : n <= m
    <3>1. Bad \in SUBSET Nat
      BY <1>1
    <3> HIDE DEF Bad
    <3> QED
      BY <3>1, LeastNatural
  <2>2. n \in 1 .. Len(batches) /\ n - 1 \in 0 .. Len(batches) /\ n - 1 \notin Bad
    BY <1>1, <1>2, <2>1
  <2> QED
    BY <1>3, <2>1, <2>2
<1>5. Good(Len(batches))
  BY <1>1, <1>4
<1>6. R(Len(batches)) = Replay(h, batches)
  BY Beginnings DEF R
<1> QED
  BY <1>5, <1>6 DEF Good

(* Replaying batches on doc rebuilds the document and both stacks of h.    *)
Rebuilds(h, doc, batches) ==
    LET replayed == Replay(NewHistory(doc, 0), batches) IN
    replayed \in History /\ replayed # Rejected /\ SameStacks(replayed, h)

(* A stream that rebuilds a history still does when both take one more     *)
(* accepted command.                                                       *)
LEMMA RebuildsExec ==
    ASSUME NEW h \in History, NEW cmd \in JournalCommand, Accepts(h, CanonicalCommand(cmd)),
           NEW doc \in Doc, NEW batches \in Seq(HistoryBatch), Rebuilds(h, doc, batches),
           NEW b \in HistoryBatch, b.command = CanonicalCommand(cmd),
           Rejected \notin History
    PROVE  /\ Rebuilds(Exec(h, cmd), doc, Append(batches, b))
           /\ Replay(NewHistory(doc, 0), Append(batches, b))
                = Exec(Replay(NewHistory(doc, 0), batches), cmd)
<1> DEFINE g == Replay(NewHistory(doc, 0), batches)
<1>1. g \in History /\ g # Rejected /\ SameStacks(g, h)
  BY DEF Rebuilds
<1>2. Replay(NewHistory(doc, 0), Append(batches, b)) = ReplayStep(g, b)
  BY ReplayAppend
<1> HIDE DEF g
<1>3. Accepts(g, CanonicalCommand(cmd)) /\ SameStacks(Exec(g, cmd), Exec(h, cmd))
  BY <1>1, ExecSame
<1>4. Exec(g, CanonicalCommand(cmd)) = Exec(g, cmd)
  BY <1>1, <1>3, ExecBatch
<1>5. CanonicalCommand(CanonicalCommand(cmd)) = CanonicalCommand(cmd)
  BY CanonicalOnce
<1>6. ReplayStep(g, b) = Exec(g, cmd)
  BY <1>1, <1>3, <1>4, <1>5 DEF ReplayStep
<1>7. Exec(g, cmd) \in History
  BY <1>1, ExecType
<1> QED
  BY <1>2, <1>3, <1>6, <1>7 DEF Rebuilds, g

(* A replay of a fresh history that does not fail yields a history.        *)
LEMMA ReplayType ==
    ASSUME NEW doc \in Doc, NEW batches \in Seq(HistoryBatch),
           Replay(NewHistory(doc, 0), batches) # Rejected
    PROVE  /\ Replay(NewHistory(doc, 0), batches) \in History
           /\ Len(Replay(NewHistory(doc, 0), batches).batches) = Len(batches)
<1>1. NewHistory(doc, 0) \in History
  BY NewHistoryType
<1>2. NewHistory(doc, 0).batches = << >> /\ Len(NewHistory(doc, 0).batches) = 0
  BY EmptySeq DEF NewHistory
<1>3. Len(batches) \in Nat
  BY LenProperties
<1> QED
  BY <1>1, <1>2, <1>3, ReplayFacts

(* A restore that does not fail yields a history whose snapshot is the one *)
(* it was given, and that is the replay of its own stream.                 *)
LEMMA RestoreType ==
    ASSUME NEW s \in HistorySnapshot, Restore(s) # Rejected
    PROVE  /\ Restore(s) \in History
           /\ Snapshot(Restore(s), s.baseline, s.floor_offset) = s
           /\ Restore(s).batches = s.batches
           /\ Restore(s) = Replay(NewHistory(s.baseline, 0), Restore(s).batches)
<1> DEFINE candidate == Replay(NewHistory(s.baseline, 0), s.batches)
<1>1. /\ candidate # Rejected
      /\ Snapshot(candidate, s.baseline, s.floor_offset) = s
      /\ Restore(s) = candidate
  BY DEF Restore
<1>2. candidate \in History
  BY <1>1, ReplayType DEF HistorySnapshot
<1>3. candidate.batches = s.batches
  <2> HIDE DEF candidate
  <2> QED
    BY <1>1 DEF Snapshot
<1> QED
  BY <1>1, <1>2, <1>3

(* Pushing an entry commutes with cutting off the entries below a floor.   *)
LEMMA SuffixAppend ==
    ASSUME NEW S, NEW s \in Seq(S), NEW d \in 0 .. Len(s), NEW e \in S
    PROVE  SubSeq(Append(s, e), d + 1, Len(Append(s, e)))
            = Append(SubSeq(s, d + 1, Len(s)), e)
<1> DEFINE a == Append(s, e)
           t == SubSeq(s, d + 1, Len(s))
           u == SubSeq(a, d + 1, Len(a))
           v == Append(t, e)
<1>1. Len(s) \in Nat /\ d \in Nat
  BY LenProperties
<1>2. /\ a \in Seq(S) /\ Len(a) = Len(s) + 1
      /\ \A i \in 1 .. Len(s) : a[i] = s[i]
      /\ a[Len(s) + 1] = e
  BY AppendProperties
<1>3. /\ t \in Seq(S) /\ Len(t) = Len(s) - d
      /\ \A i \in 1 .. Len(s) - d : t[i] = s[d + i]
  BY SuffixLemma
<1> HIDE DEF a, t
<1>4. d \in 0 .. Len(a)
  BY <1>1, <1>2
<1>5. /\ u \in Seq(S) /\ Len(u) = Len(a) - d
      /\ \A i \in 1 .. Len(a) - d : u[i] = a[d + i]
  BY <1>2, <1>4, SuffixLemma
<1>6. /\ v \in Seq(S) /\ Len(v) = Len(t) + 1
      /\ \A i \in 1 .. Len(t) : v[i] = t[i]
      /\ v[Len(t) + 1] = e
  BY <1>3, AppendProperties
<1> HIDE DEF u, v
<1>7. Len(u) = Len(v)
  BY <1>1, <1>2, <1>3, <1>5, <1>6
<1>8. ASSUME NEW i \in 1 .. Len(u)
      PROVE  u[i] = v[i]
  <2>1. u[i] = a[d + i] /\ i \in Nat \ {0} /\ i <= Len(s) - d + 1
    BY <1>1, <1>2, <1>5
  <2>2. CASE i <= Len(s) - d
    <3>1. i \in 1 .. Len(t) /\ i \in 1 .. Len(s) - d /\ d + i \in 1 .. Len(s)
      BY <1>1, <1>3, <2>1, <2>2
    <3> QED
      BY <1>2, <1>3, <1>6, <2>1, <3>1
  <2>3. CASE i = Len(s) - d + 1
    <3>1. d + i = Len(s) + 1 /\ i = Len(t) + 1
      BY <1>1, <1>3, <2>3
    <3> QED
      BY <1>2, <1>6, <2>1, <3>1
  <2> QED
    BY <1>1, <2>1, <2>2, <2>3
<1>9. u = v
  BY <1>5, <1>6, <1>7, <1>8, SeqEqual
<1> QED
  BY <1>9 DEF a, t, u, v

(* Above a floor that hides d < Len(s) entries, the top of the stack is    *)
(* the same and popping commutes with cutting.                             *)
LEMMA SuffixTop ==
    ASSUME NEW S, NEW s \in Seq(S), NEW d \in 0 .. Len(s), Len(s) # d
    PROVE  /\ s # << >>
           /\ SubSeq(s, d + 1, Len(s)) # << >>
           /\ Last(SubSeq(s, d + 1, Len(s))) = Last(s)
           /\ d \in 0 .. Len(Front(s))
           /\ Front(SubSeq(s, d + 1, Len(s))) = SubSeq(Front(s), d + 1, Len(Front(s)))
<1> DEFINE t == SubSeq(s, d + 1, Len(s))
           f == Front(s)
           u == Front(t)
           v == SubSeq(f, d + 1, Len(f))
<1>1. Len(s) \in Nat /\ d \in Nat /\ d < Len(s)
  BY LenProperties
<1>2. s # << >>
  BY <1>1, EmptySeq
<1>3. /\ t \in Seq(S) /\ Len(t) = Len(s) - d
      /\ \A i \in 1 .. Len(s) - d : t[i] = s[d + i]
  BY SuffixLemma
<1> HIDE DEF t
<1>4. t # << >>
  BY <1>1, <1>3, EmptySeq
<1>5. Last(t) = Last(s)
  <2>1. Len(s) - d \in 1 .. Len(s) - d /\ d + (Len(s) - d) = Len(s)
    BY <1>1
  <2> QED
    BY <1>3, <2>1 DEF Last
<1>6. /\ f \in Seq(S) /\ Len(f) = Len(s) - 1
      /\ \A i \in 1 .. Len(s) - 1 : f[i] = s[i]
  BY <1>2, FrontLast
<1> HIDE DEF f
<1>7. /\ u \in Seq(S) /\ Len(u) = Len(t) - 1
      /\ \A i \in 1 .. Len(t) - 1 : u[i] = t[i]
  BY <1>3, <1>4, FrontLast
<1>8. d \in 0 .. Len(f)
  BY <1>1, <1>6
<1>9. /\ v \in Seq(S) /\ Len(v) = Len(f) - d
      /\ \A i \in 1 .. Len(f) - d : v[i] = f[d + i]
  BY <1>6, <1>8, SuffixLemma
<1> HIDE DEF u, v
<1>10. Len(u) = Len(v)
  BY <1>1, <1>3, <1>6, <1>7, <1>9
<1>11. ASSUME NEW i \in 1 .. Len(u)
       PROVE  u[i] = v[i]
  <2>1. /\ i \in 1 .. Len(t) - 1 /\ i \in 1 .. Len(s) - d
        /\ i \in 1 .. Len(f) - d /\ d + i \in 1 .. Len(s) - 1
    BY <1>1, <1>3, <1>6, <1>7
  <2> QED
    BY <1>3, <1>6, <1>7, <1>9, <2>1
<1>12. u = v
  BY <1>7, <1>9, <1>10, <1>11, SeqEqual
<1> QED
  BY <1>2, <1>4, <1>5, <1>8, <1>12 DEF t, f, u, v

(* Above a floor that hides d < Len(s) entries, writing the last entry     *)
(* commutes with cutting.                                                  *)
LEMMA SuffixReplaceLast ==
    ASSUME NEW S, NEW s \in Seq(S), NEW d \in 0 .. Len(s), Len(s) # d, NEW e \in S
    PROVE  LET r == ReplaceAt(s, Len(s), e)
               t == SubSeq(s, d + 1, Len(s))
           IN  SubSeq(r, d + 1, Len(r)) = ReplaceAt(t, Len(t), e)
<1> DEFINE r == ReplaceAt(s, Len(s), e)
           t == SubSeq(s, d + 1, Len(s))
           u == SubSeq(r, d + 1, Len(r))
           v == ReplaceAt(t, Len(t), e)
<1>1. Len(s) \in Nat /\ d \in Nat /\ d < Len(s)
  BY LenProperties
<1>2. s # << >> /\ t # << >>
  BY SuffixTop
<1>3. /\ t \in Seq(S) /\ Len(t) = Len(s) - d
      /\ \A i \in 1 .. Len(s) - d : t[i] = s[d + i]
  BY SuffixLemma
<1> HIDE DEF t
<1>4. /\ r \in Seq(S) /\ Len(r) = Len(s)
      /\ \A i \in 1 .. Len(s) - 1 : r[i] = s[i]
      /\ Last(r) = e
  BY <1>2, ReplaceLast
<1> HIDE DEF r
<1>5. /\ v \in Seq(S) /\ Len(v) = Len(t)
      /\ \A i \in 1 .. Len(t) - 1 : v[i] = t[i]
      /\ Last(v) = e
  BY <1>2, <1>3, ReplaceLast
<1>6. /\ u \in Seq(S) /\ Len(u) = Len(r) - d
      /\ \A i \in 1 .. Len(r) - d : u[i] = r[d + i]
  BY <1>1, <1>4, SuffixLemma
<1> HIDE DEF u, v
<1>7. Len(u) = Len(v)
  BY <1>3, <1>4, <1>5, <1>6
<1>8. ASSUME NEW i \in 1 .. Len(u)
      PROVE  u[i] = v[i]
  <2>a. u[i] = r[d + i]
    BY <1>1, <1>4, <1>6
  <2>1. CASE i = Len(u)
    <3>1. d + i = Len(r) /\ i = Len(v)
      BY <1>1, <1>3, <1>4, <1>5, <1>6, <2>1
    <3> QED
      BY <1>4, <1>5, <2>a, <3>1 DEF Last
  <2>2. CASE i # Len(u)
    <3>1. i \in 1 .. Len(t) - 1 /\ i \in 1 .. Len(s) - d /\ d + i \in 1 .. Len(s) - 1
      <4>1. Len(t) = Len(s) - d /\ Len(u) = Len(s) - d
        BY <1>3, <1>4, <1>6
      <4>2. i \in 1 .. Len(s) - d /\ i # Len(s) - d
        BY <2>2, <4>1
      <4> QED
        BY <1>1, <4>1, <4>2
    <3>2. v[i] = t[i]
      BY <1>5, <3>1
    <3>3. t[i] = s[d + i]
      BY <1>3, <3>1
    <3>4. r[d + i] = s[d + i]
      BY <1>4, <3>1
    <3> QED
      BY <2>a, <3>2, <3>3, <3>4
  <2> QED
    BY <2>1, <2>2
<1>9. u = v
  BY <1>5, <1>6, <1>7, <1>8, SeqEqual
<1> QED
  BY <1>9 DEF r, t, u, v

(* An entry pushed on both histories keeps them related.                   *)
LEMMA AbovePush ==
    ASSUME NEW h \in History, NEW g \in History, NEW d \in Nat, NEW e \in HistoryEntry,
           AboveFloor(h, g, d)
    PROVE  LET undo == Append(h.undo, e) IN
           /\ d <= Len(undo)
           /\ Append(g.undo, e) = SubSeq(undo, d + 1, Len(undo))
           /\ d # Len(undo)
<1>1. h.undo \in Seq(HistoryEntry) /\ Len(h.undo) \in Nat
  BY LenProperties DEF History
<1>2. d \in 0 .. Len(h.undo)
  BY <1>1 DEF AboveFloor
<1>3. Len(Append(h.undo, e)) = Len(h.undo) + 1
  BY <1>1, AppendProperties
<1>4. Append(g.undo, e) = SubSeq(Append(h.undo, e), d + 1, Len(Append(h.undo, e)))
  BY <1>1, <1>2, SuffixAppend DEF AboveFloor
<1> QED
  BY <1>1, <1>2, <1>3, <1>4

(* do_batch and do_batch_coalesced keep a history and its rebuilt suffix   *)
(* related: a gesture merges in both or in neither.                        *)
LEMMA AboveEdit ==
    ASSUME NEW h \in History, NEW g \in History, NEW d \in Nat, NEW cmd \in JournalCommand,
           cmd.type \notin {"Undo", "Redo"},
           ApplyBatch(h.document, cmd.ops) # Rejected,
           AboveFloor(h, g, d)
    PROVE  AboveFloor(Edit(h, cmd), Edit(g, cmd), d)
<1>1. /\ cmd.ops \in Seq(Op) /\ cmd.key \in Key \cup {None}
      /\ cmd.type = "DoBatchCoalesced" => cmd.key \in Key
      /\ cmd.type \in {"DoBatch", "DoBatchCoalesced"}
  BY CommandType
<1>2. /\ h.undo \in Seq(HistoryEntry) /\ Len(h.undo) \in Nat
      /\ h.document \in Doc /\ g.document = h.document
      /\ d \in 0 .. Len(h.undo)
      /\ g.undo = SubSeq(h.undo, d + 1, Len(h.undo))
  BY LenProperties DEF History, AboveFloor
<1>3. ASSUME d <= Len(Edit(h, cmd).undo), d # Len(Edit(h, cmd).undo),
             Edit(g, cmd).undo = SubSeq(Edit(h, cmd).undo, d + 1, Len(Edit(h, cmd).undo))
      PROVE  AboveFloor(Edit(h, cmd), Edit(g, cmd), d)
  <2>1. /\ Edit(h, cmd).document = ApplyBatch(h.document, cmd.ops)
        /\ Edit(g, cmd).document = ApplyBatch(g.document, cmd.ops)
        /\ Edit(h, cmd).redo = << >> /\ Edit(g, cmd).redo = << >>
    BY DEF Edit, History
  <2> QED
    BY <1>2, <1>3, <2>1 DEF AboveFloor
<1>4. CASE cmd.type = "DoBatch"
  <2> DEFINE e == Entry(h.document, cmd.ops, None)
  <2>1. e \in HistoryEntry
    BY <1>1, <1>2 DEF Entry, HistoryEntry
  <2>2. Edit(h, cmd).undo = Append(h.undo, e) /\ Edit(g, cmd).undo = Append(g.undo, e)
    BY <1>2, <1>4 DEF Edit, PushClosed, History
  <2> HIDE DEF e
  <2> QED
    BY <1>3, <2>1, <2>2, AbovePush, SMTT(60)
<1>5. CASE cmd.type = "DoBatchCoalesced" /\ ~ Merges(h, cmd.key)
  <2> DEFINE e == Entry(h.document, cmd.ops, cmd.key)
  <2>1. e \in HistoryEntry
    BY <1>1, <1>2 DEF Entry, HistoryEntry
  <2>2. ~ Merges(g, cmd.key)
    <3>1. CASE Len(h.undo) = d
      <4>1. g.undo = << >>
        BY <1>2, <3>1, SubSeqEmpty
      <4> QED
        BY <4>1 DEF Merges
    <3>2. CASE Len(h.undo) # d
      BY <1>2, <1>5, <3>2, SuffixTop DEF Merges
    <3> QED
      BY <3>1, <3>2
  <2>3. Edit(h, cmd).undo = Append(h.undo, e) /\ Edit(g, cmd).undo = Append(g.undo, e)
    BY <1>2, <1>5, <2>2 DEF Edit, PushCoalesced, History
  <2> HIDE DEF e
  <2> QED
    BY <1>3, <2>1, <2>3, AbovePush, SMTT(60)
<1>6. CASE cmd.type = "DoBatchCoalesced" /\ Merges(h, cmd.key)
  <2>1. h.undo # << >> /\ Last(h.undo).coalesce_key = cmd.key /\ cmd.key # None
    BY <1>1, <1>6, HistoryConstants DEF Merges
  <2>2. Len(h.undo) # d
    <3>1. Len(h.undo) # 0
      BY <1>2, <2>1, EmptySeq
    <3> QED
      BY <1>2, <2>1, <3>1 DEF AboveFloor
  <2>3. g.undo # << >> /\ Last(g.undo) = Last(h.undo)
    BY <1>2, <2>2, SuffixTop
  <2>4. Merges(g, cmd.key)
    BY <2>1, <2>3 DEF Merges
  <2> DEFINE e == Extended(Last(h.undo), cmd.ops)
             u == ReplaceAt(h.undo, Len(h.undo), e)
             v == ReplaceAt(g.undo, Len(g.undo), e)
  <2>5. e \in HistoryEntry
    <3>1. Last(h.undo) \in HistoryEntry
      BY <1>2, <2>1, FrontLast
    <3>2. Last(h.undo).operations \o cmd.ops \in Seq(Op)
      BY <1>1, <3>1, ConcatProperties DEF HistoryEntry
    <3> QED
      BY <3>1, <3>2 DEF Extended, HistoryEntry
  <2>6. Edit(h, cmd).undo = u /\ Edit(g, cmd).undo = v
    BY <1>6, <2>3, <2>4 DEF Edit, PushCoalesced, History
  <2> HIDE DEF e
  <2>7. Len(u) = Len(h.undo)
    BY <1>2, <2>1, <2>5, ReplaceLast
  <2>8. v = SubSeq(u, d + 1, Len(u))
    BY <1>2, <2>2, <2>5, SuffixReplaceLast
  <2> HIDE DEF u, v
  <2> QED
    BY <1>2, <1>3, <2>2, <2>6, <2>7, <2>8
<1> QED
  BY <1>1, <1>4, <1>5, <1>6

(* CoreState::undo keeps them related when the entry it pops lies above    *)
(* the floor; closing the exposed entry seals the floor.                   *)
LEMMA AboveUndo ==
    ASSUME NEW h \in History, NEW g \in History, NEW d \in Nat,
           Len(h.undo) # d, AboveFloor(h, g, d)
    PROVE  AboveFloor(UndoStep(h), UndoStep(g), d)
<1>1. /\ h.undo \in Seq(HistoryEntry) /\ Len(h.undo) \in Nat
      /\ g.document = h.document /\ g.redo = h.redo
      /\ d \in 0 .. Len(h.undo)
      /\ g.undo = SubSeq(h.undo, d + 1, Len(h.undo))
  BY LenProperties DEF History, AboveFloor
<1> DEFINE f == Front(h.undo)
           t == Front(g.undo)
<1>2. /\ h.undo # << >> /\ g.undo # << >>
      /\ Last(g.undo) = Last(h.undo)
      /\ d \in 0 .. Len(f)
      /\ t = SubSeq(f, d + 1, Len(f))
  BY <1>1, SuffixTop
<1>3. f \in Seq(HistoryEntry) /\ Len(f) \in Nat
  BY <1>1, <1>2, FrontLast, LenProperties
<1>4. /\ UndoStep(h).undo = CloseExposed(f) /\ UndoStep(g).undo = CloseExposed(t)
      /\ UndoStep(h).document = UndoStep(g).document
      /\ UndoStep(h).redo = UndoStep(g).redo
  BY <1>1, <1>2 DEF UndoStep, History
<1> HIDE DEF f, t
<1>5. CASE Len(f) = 0
  <2>1. f = << >> /\ d = 0
    BY <1>2, <1>3, <1>5, EmptySeq
  <2>2. t = << >>
    BY <1>2, <2>1, SubSeqEmpty
  <2>3. CloseExposed(f) = << >> /\ CloseExposed(t) = << >>
    BY <2>1, <2>2 DEF CloseExposed
  <2>4. Len(<< >>) = 0 /\ SubSeq(<< >>, 1, 0) = << >>
    BY SubSeqEmpty
  <2> QED
    BY <1>4, <2>1, <2>3, <2>4 DEF AboveFloor
<1>6. CASE Len(f) # 0
  <2>1. f # << >>
    BY <1>6
  <2> DEFINE e == Closed(Last(f))
             u == ReplaceAt(f, Len(f), e)
  <2>2. e \in HistoryEntry /\ e.coalesce_key = None
    <3>1. Last(f) \in HistoryEntry
      BY <1>3, <2>1, FrontLast
    <3> QED
      BY <3>1 DEF Closed, HistoryEntry
  <2>3. CloseExposed(f) = u
    BY <2>1 DEF CloseExposed
  <2> HIDE DEF e
  <2>4. Len(u) = Len(f) /\ Last(u) = e
    BY <1>3, <2>1, <2>2, ReplaceLast
  <2>5. CASE Len(f) = d
    <3>1. t = << >> /\ SubSeq(u, d + 1, Len(u)) = << >>
      BY <1>2, <1>3, <2>4, <2>5, SubSeqEmpty
    <3>2. CloseExposed(t) = << >>
      BY <3>1 DEF CloseExposed
    <3> HIDE DEF u
    <3> QED
      <4>1. UndoStep(h).undo = u /\ UndoStep(g).undo = << >>
        BY <1>4, <2>3, <3>2
      <4>2. Len(u) = d /\ Last(u).coalesce_key = None
        BY <2>2, <2>4, <2>5
      <4>3. d <= Len(UndoStep(h).undo)
        BY <4>1, <4>2
      <4>4. UndoStep(g).undo = SubSeq(UndoStep(h).undo, d + 1, Len(UndoStep(h).undo))
        BY <3>1, <4>1
      <4>5. Last(UndoStep(h).undo).coalesce_key = None
        BY <4>1, <4>2
      <4> QED
        BY <1>4, <4>3, <4>4, <4>5 DEF AboveFloor
  <2>6. CASE Len(f) # d
    <3>1. t # << >> /\ Last(t) = Last(f)
      BY <1>2, <1>3, <2>6, SuffixTop
    <3>2. CloseExposed(t) = ReplaceAt(t, Len(t), e)
      BY <3>1 DEF CloseExposed, e
    <3>3. ReplaceAt(t, Len(t), e) = SubSeq(u, d + 1, Len(u))
      BY <1>2, <1>3, <2>2, <2>6, SuffixReplaceLast
    <3> HIDE DEF u
    <3> QED
      BY <1>2, <1>3, <1>4, <2>3, <2>4, <2>6, <3>2, <3>3 DEF AboveFloor
  <2> QED
    BY <2>5, <2>6
<1> QED
  BY <1>5, <1>6

(* CoreState::redo keeps them related, whatever lies on the redo stack.    *)
LEMMA AboveRedo ==
    ASSUME NEW h \in History, NEW g \in History, NEW d \in Nat, AboveFloor(h, g, d)
    PROVE  AboveFloor(RedoStep(h), RedoStep(g), d)
<1>1. g.document = h.document /\ g.redo = h.redo
  BY DEF AboveFloor
<1>2. CASE h.redo = << >>
  BY <1>1, <1>2 DEF RedoStep
<1>3. CASE h.redo # << >>
  <2> DEFINE e == Entry(h.document, Last(h.redo).operations, None)
  <2>1. e \in HistoryEntry
    <3>1. Last(h.redo) \in HistoryEntry
      BY <1>3, FrontLast DEF History
    <3> QED
      BY <3>1 DEF Entry, History, HistoryEntry
  <2>2. /\ RedoStep(h).undo = Append(h.undo, e) /\ RedoStep(g).undo = Append(g.undo, e)
        /\ RedoStep(h).document = RedoStep(g).document
        /\ RedoStep(h).redo = RedoStep(g).redo
    BY <1>1, <1>3 DEF RedoStep, History
  <2> HIDE DEF e
  <2>3. /\ d <= Len(RedoStep(h).undo) /\ d # Len(RedoStep(h).undo)
        /\ RedoStep(g).undo = SubSeq(RedoStep(h).undo, d + 1, Len(RedoStep(h).undo))
    BY <2>1, <2>2, AbovePush, SMTT(60)
  <2> QED
    BY <2>2, <2>3 DEF AboveFloor
<1> QED
  BY <1>2, <1>3

(* Exec keeps a history and its rebuilt suffix related, as long as no Undo *)
(* reaches the floor: the heart of committing a floor after more edits.    *)
LEMMA AboveExec ==
    ASSUME NEW h \in History, NEW g \in History, NEW d \in Nat, NEW cmd \in JournalCommand,
           Accepts(h, CanonicalCommand(cmd)),
           cmd.type = "Undo" => Len(h.undo) # d,
           AboveFloor(h, g, d)
    PROVE  AboveFloor(Exec(h, cmd), Exec(g, cmd), d)
<1> DEFINE c == CanonicalCommand(cmd)
<1>1. c \in JournalCommand /\ c.type = cmd.type
  BY CanonicalCommandType
<1> HIDE DEF c
<1>2. Accepts(h, c) /\ Accepts(g, c)
  BY DEF Accepts, AboveFloor, c
<1>3. AboveFloor(Applied(h, c), Applied(g, c), d)
  <2>1. CASE c.type = "Undo"
    BY <1>1, <2>1, AboveUndo DEF Applied
  <2>2. CASE c.type = "Redo"
    BY <1>1, <2>2, AboveRedo DEF Applied
  <2>3. CASE c.type \notin {"Undo", "Redo"}
    BY <1>1, <1>2, <2>3, AboveEdit DEF Applied, Accepts
  <2> QED
    BY <2>1, <2>2, <2>3
<1>4. Applied(h, c) \in History /\ Applied(g, c) \in History
  BY <1>1, <1>2, AppliedType
<1>5. Exec(h, cmd) = Record(Applied(h, c), c) /\ Exec(g, cmd) = Record(Applied(g, c), c)
  BY <1>2 DEF Exec, c
<1>6. ASSUME NEW x \in History
      PROVE  /\ Record(x, c).document = x.document
             /\ Record(x, c).undo = x.undo
             /\ Record(x, c).redo = x.redo
  BY DEF Record, History
<1> QED
  BY <1>3, <1>4, <1>5, <1>6 DEF AboveFloor

-----------------------------------------------------------------------------
(* Undo and redo walk one path of documents.  After(s, doc, i) is the      *)
(* document that follows entry i of a stack whose newest neighbour is doc. *)
After(s, doc, i) == IF i < Len(s) THEN s[i + 1].document ELSE doc

(* Every undo entry leads from its document to the one that follows it.    *)
UndoPath(undo, doc) ==
    \A i \in 1 .. Len(undo) :
        ApplyBatch(undo[i].document, undo[i].operations) = After(undo, doc, i)

(* Every redo entry leads to its document from the one that follows it.    *)
RedoPath(redo, doc) ==
    \A i \in 1 .. Len(redo) :
        ApplyBatch(After(redo, doc, i), redo[i].operations) = redo[i].document

IsPath(h, base) ==
    /\ After(h.undo, h.document, 0) = base
    /\ UndoPath(h.undo, h.document)
    /\ RedoPath(h.redo, h.document)

(* do_batch and redo push an entry that leads to the new document.         *)
LEMMA UndoPathPush ==
    ASSUME NEW undo \in Seq(HistoryEntry), NEW e \in HistoryEntry, NEW next,
           UndoPath(undo, e.document), ApplyBatch(e.document, e.operations) = next
    PROVE  /\ UndoPath(Append(undo, e), next)
           /\ After(Append(undo, e), next, 0) = After(undo, e.document, 0)
<1> DEFINE n == Len(undo)
           longer == Append(undo, e)
<1>1. n \in Nat
  BY LenProperties
<1>2. Len(longer) = n + 1 /\ longer[n + 1] = e /\ \A i \in 1 .. n : longer[i] = undo[i]
  BY AppendProperties
<1>3. \A i \in 1 .. n : ApplyBatch(undo[i].document, undo[i].operations) = After(undo, e.document, i)
  BY DEF UndoPath
<1> HIDE DEF n, longer
<1>4. \A i \in 0 .. n : After(longer, next, i) = After(undo, e.document, i)
  <2> SUFFICES ASSUME NEW i \in 0 .. n
               PROVE  After(longer, next, i) = After(undo, e.document, i)
    OBVIOUS
  <2>1. CASE i = n
    BY <1>1, <1>2, <2>1 DEF After, n
  <2>2. CASE i # n
    <3>1. i + 1 \in 1 .. n /\ i < n /\ i < n + 1
      BY <1>1, <2>2
    <3> QED
      BY <1>2, <3>1 DEF After, n
  <2> QED
    BY <2>1, <2>2
<1>5. After(longer, next, n + 1) = next
  BY <1>1, <1>2 DEF After
<1>6. ASSUME NEW i \in 1 .. n + 1
      PROVE  ApplyBatch(longer[i].document, longer[i].operations) = After(longer, next, i)
  <2>1. CASE i = n + 1
    BY <1>2, <1>5, <2>1
  <2>2. CASE i # n + 1
    <3>1. i \in 1 .. n /\ i \in 0 .. n
      BY <1>1, <2>2
    <3> QED
      BY <1>2, <1>3, <1>4, <3>1
  <2> QED
    BY <2>1, <2>2
<1>7. UndoPath(longer, next)
  BY <1>2, <1>6 DEF UndoPath
<1>8. After(longer, next, 0) = After(undo, e.document, 0)
  BY <1>1, <1>4
<1> QED
  BY <1>7, <1>8 DEF longer

(* Undo pops the entry that led to the live document.                      *)
LEMMA UndoPathPop ==
    ASSUME NEW undo \in Seq(HistoryEntry), undo # << >>, NEW doc, UndoPath(undo, doc)
    PROVE  /\ UndoPath(Front(undo), Last(undo).document)
           /\ After(Front(undo), Last(undo).document, 0) = After(undo, doc, 0)
           /\ ApplyBatch(Last(undo).document, Last(undo).operations) = doc
<1> DEFINE n == Len(undo)
           f == Front(undo)
           d == Last(undo).document
<1>1. n \in Nat \ {0} /\ Len(f) = n - 1 /\ \A i \in 1 .. n - 1 : f[i] = undo[i]
  BY FrontLast
<1>2. Last(undo) = undo[n]
  BY DEF Last
<1>3. \A i \in 1 .. n : ApplyBatch(undo[i].document, undo[i].operations) = After(undo, doc, i)
  BY DEF UndoPath
<1>4. ApplyBatch(Last(undo).document, Last(undo).operations) = doc
  <2>1. n \in 1 .. n /\ After(undo, doc, n) = doc
    BY <1>1 DEF After
  <2> QED
    BY <1>2, <1>3, <2>1
<1> HIDE DEF f
<1>5. \A i \in 0 .. n - 1 : After(f, d, i) = After(undo, doc, i)
  <2> SUFFICES ASSUME NEW i \in 0 .. n - 1
               PROVE  After(f, d, i) = After(undo, doc, i)
    OBVIOUS
  <2>1. CASE i = n - 1
    BY <1>1, <1>2, <2>1 DEF After
  <2>2. CASE i # n - 1
    <3>1. i + 1 \in 1 .. n - 1 /\ i < n - 1 /\ i < n
      BY <1>1, <2>2
    <3> QED
      BY <1>1, <3>1 DEF After
  <2> QED
    BY <2>1, <2>2
<1> HIDE DEF n, d
<1>6. ASSUME NEW i \in 1 .. n - 1
      PROVE  ApplyBatch(f[i].document, f[i].operations) = After(f, d, i)
  <2>1. i \in 1 .. n /\ i \in 0 .. n - 1 /\ f[i] = undo[i]
    BY <1>1
  <2> QED
    BY <1>3, <1>5, <2>1
<1>7. UndoPath(f, d)
  BY <1>1, <1>6 DEF UndoPath
<1>8. After(f, d, 0) = After(undo, doc, 0)
  BY <1>1, <1>5
<1> QED
  BY <1>4, <1>7, <1>8 DEF f, d

(* The newest entry may be rewritten, as a merge and a close do, when it   *)
(* still starts where it did and leads to the new live document.           *)
LEMMA UndoPathReplace ==
    ASSUME NEW undo \in Seq(HistoryEntry), undo # << >>, NEW doc, UndoPath(undo, doc),
           NEW e \in HistoryEntry, e.document = Last(undo).document,
           NEW next, ApplyBatch(e.document, e.operations) = next
    PROVE  /\ UndoPath(ReplaceAt(undo, Len(undo), e), next)
           /\ After(ReplaceAt(undo, Len(undo), e), next, 0) = After(undo, doc, 0)
<1> DEFINE n == Len(undo)
           u == ReplaceAt(undo, n, e)
<1>1. /\ n \in Nat \ {0} /\ Len(u) = n
      /\ \A i \in 1 .. n - 1 : u[i] = undo[i]
      /\ Last(u) = e
  BY FrontLast, ReplaceLast
<1>2. Last(undo) = undo[n] /\ u[n] = e
  BY <1>1 DEF Last
<1>3. \A i \in 1 .. n : ApplyBatch(undo[i].document, undo[i].operations) = After(undo, doc, i)
  BY DEF UndoPath
<1> HIDE DEF u
<1>4. \A i \in 0 .. n - 1 : After(u, next, i) = After(undo, doc, i)
  <2> SUFFICES ASSUME NEW i \in 0 .. n - 1
               PROVE  After(u, next, i) = After(undo, doc, i)
    OBVIOUS
  <2>1. i < n
    BY <1>1
  <2>2. u[i + 1].document = undo[i + 1].document
    <3>1. CASE i = n - 1
      BY <1>1, <1>2, <3>1
    <3>2. CASE i # n - 1
      <4>1. i + 1 \in 1 .. n - 1
        BY <1>1, <3>2
      <4> QED
        BY <1>1, <4>1
    <3> QED
      BY <3>1, <3>2
  <2> QED
    BY <1>1, <2>1, <2>2 DEF After
<1>5. After(u, next, n) = next
  BY <1>1 DEF After
<1> HIDE DEF n
<1>6. ASSUME NEW i \in 1 .. n
      PROVE  ApplyBatch(u[i].document, u[i].operations) = After(u, next, i)
  <2>1. CASE i = n
    BY <1>2, <1>5, <2>1
  <2>2. CASE i # n
    <3>1. i \in 1 .. n - 1 /\ i \in 0 .. n - 1
      BY <1>1, <2>2
    <3> QED
      BY <1>1, <1>3, <1>4, <3>1
  <2> QED
    BY <2>1, <2>2
<1>7. UndoPath(u, next)
  BY <1>1, <1>6 DEF UndoPath
<1>8. After(u, next, 0) = After(undo, doc, 0)
  BY <1>1, <1>4
<1> QED
  BY <1>7, <1>8 DEF u, n

(* Undo pushes on the redo stack the document it left and the way back.    *)
LEMMA RedoPathPush ==
    ASSUME NEW redo \in Seq(HistoryEntry), NEW e \in HistoryEntry, NEW prev,
           RedoPath(redo, e.document), ApplyBatch(prev, e.operations) = e.document
    PROVE  RedoPath(Append(redo, e), prev)
<1> DEFINE n == Len(redo)
           longer == Append(redo, e)
<1>1. n \in Nat
  BY LenProperties
<1>2. Len(longer) = n + 1 /\ longer[n + 1] = e /\ \A i \in 1 .. n : longer[i] = redo[i]
  BY AppendProperties
<1>3. \A i \in 1 .. n : ApplyBatch(After(redo, e.document, i), redo[i].operations) = redo[i].document
  BY DEF RedoPath
<1> HIDE DEF longer
<1>4. ASSUME NEW i \in 1 .. n + 1
      PROVE  ApplyBatch(After(longer, prev, i), longer[i].operations) = longer[i].document
  <2>1. CASE i = n + 1
    <3>1. After(longer, prev, i) = prev
      BY <1>1, <1>2, <2>1 DEF After
    <3> QED
      BY <1>2, <2>1, <3>1
  <2>2. CASE i # n + 1
    <3>1. i \in 1 .. n /\ i < n + 1
      BY <1>1, <2>2
    <3>2. After(longer, prev, i) = After(redo, e.document, i)
      <4>1. After(longer, prev, i) = longer[i + 1].document
        BY <1>2, <3>1 DEF After
      <4>2. CASE i = n
        BY <1>1, <1>2, <4>1, <4>2 DEF After
      <4>3. CASE i # n
        <5>1. i + 1 \in 1 .. n /\ i < n
          BY <1>1, <3>1, <4>3
        <5> QED
          BY <1>2, <4>1, <5>1 DEF After
      <4> QED
        BY <4>2, <4>3
    <3> QED
      BY <1>2, <1>3, <3>1, <3>2
  <2> QED
    BY <2>1, <2>2
<1> HIDE DEF n
<1> QED
  BY <1>2, <1>4 DEF RedoPath, longer

(* Redo pops the entry that leads on from the live document.               *)
LEMMA RedoPathPop ==
    ASSUME NEW redo \in Seq(HistoryEntry), redo # << >>, NEW doc, RedoPath(redo, doc)
    PROVE  /\ RedoPath(Front(redo), Last(redo).document)
           /\ ApplyBatch(doc, Last(redo).operations) = Last(redo).document
<1> DEFINE n == Len(redo)
           f == Front(redo)
           d == Last(redo).document
<1>1. n \in Nat \ {0} /\ Len(f) = n - 1 /\ \A i \in 1 .. n - 1 : f[i] = redo[i]
  BY FrontLast
<1>2. Last(redo) = redo[n]
  BY DEF Last
<1>3. \A i \in 1 .. n : ApplyBatch(After(redo, doc, i), redo[i].operations) = redo[i].document
  BY DEF RedoPath
<1>4. ApplyBatch(doc, Last(redo).operations) = Last(redo).document
  <2>1. n \in 1 .. n /\ After(redo, doc, n) = doc
    BY <1>1 DEF After
  <2> QED
    BY <1>2, <1>3, <2>1
<1> HIDE DEF f
<1>5. ASSUME NEW i \in 1 .. n - 1
      PROVE  ApplyBatch(After(f, d, i), f[i].operations) = f[i].document
  <2>1. i \in 1 .. n /\ f[i] = redo[i] /\ i < n
    BY <1>1
  <2>2. After(redo, doc, i) = redo[i + 1].document
    BY <2>1 DEF After
  <2>3. After(f, d, i) = redo[i + 1].document
    <3>1. CASE i = n - 1
      BY <1>1, <1>2, <3>1 DEF After
    <3>2. CASE i # n - 1
      <4>1. i + 1 \in 1 .. n - 1 /\ i < n - 1
        BY <1>1, <3>2
      <4> QED
        BY <1>1, <4>1 DEF After
    <3> QED
      BY <3>1, <3>2
  <2> QED
    BY <1>3, <2>1, <2>2, <2>3
<1> HIDE DEF n, d
<1>6. RedoPath(f, d)
  BY <1>1, <1>5 DEF RedoPath
<1> QED
  BY <1>4, <1>6 DEF f, d

(* A fresh history is the path of its baseline alone.                      *)
LEMMA NewHistoryPath ==
    ASSUME NEW base \in Doc
    PROVE  IsPath(NewHistory(base, 0), base)
<1>1. Len(<< >>) = 0
  BY EmptySeq
<1> QED
  BY <1>1 DEF IsPath, NewHistory, After, UndoPath, RedoPath

(* An accepted edit extends the path by its batch, or the newest entry by  *)
(* a gesture's batch: the sequential semantics of a batch makes the merged *)
(* entry lead to the same document.                                        *)
LEMMA EditPath ==
    ASSUME NEW h \in History, NEW base, NEW cmd \in JournalCommand,
           cmd.type \notin {"Undo", "Redo"}, ApplyBatch(h.document, cmd.ops) # Rejected,
           IsPath(h, base)
    PROVE  IsPath(Edit(h, cmd), base)
<1> DEFINE next == ApplyBatch(h.document, cmd.ops)
           u == Edit(h, cmd).undo
<1>1. /\ cmd.ops \in Seq(Op) /\ cmd.key \in Key \cup {None}
      /\ cmd.type \in {"DoBatch", "DoBatchCoalesced"}
  BY CommandType
<1>2. h.undo \in Seq(HistoryEntry) /\ h.document \in Doc
  BY DEF History
<1>3. /\ After(h.undo, h.document, 0) = base
      /\ UndoPath(h.undo, h.document)
  BY DEF IsPath
<1>4. Edit(h, cmd).document = next /\ Edit(h, cmd).redo = << >>
  BY DEF Edit, History
<1>5. ASSUME UndoPath(u, next), After(u, next, 0) = base
      PROVE  IsPath(Edit(h, cmd), base)
  <2>1. Len(<< >>) = 0
    BY EmptySeq
  <2>2. RedoPath(<< >>, next)
    BY <2>1 DEF RedoPath
  <2> QED
    BY <1>4, <1>5, <2>2 DEF IsPath
<1>6. ASSUME NEW e, e = Entry(h.document, cmd.ops, None) \/ e = Entry(h.document, cmd.ops, cmd.key),
             u = Append(h.undo, e)
      PROVE  IsPath(Edit(h, cmd), base)
  <2>1. e \in HistoryEntry /\ e.document = h.document /\ e.operations = cmd.ops
    BY <1>1, <1>2, <1>6 DEF Entry, HistoryEntry
  <2> HIDE DEF u, next
  <2>2. UndoPath(h.undo, e.document) /\ ApplyBatch(e.document, e.operations) = next
    BY <1>3, <2>1 DEF next
  <2>3. UndoPath(u, next) /\ After(u, next, 0) = After(h.undo, e.document, 0)
    BY <1>2, <1>6, <2>1, <2>2, UndoPathPush
  <2> QED
    BY <1>3, <1>5, <2>1, <2>3
<1>7. CASE cmd.type = "DoBatch"
  <2>1. u = Append(h.undo, Entry(h.document, cmd.ops, None))
    BY <1>7 DEF Edit, PushClosed, History
  <2> HIDE DEF u
  <2> QED
    BY <1>6, <2>1
<1>8. CASE cmd.type = "DoBatchCoalesced" /\ ~ Merges(h, cmd.key)
  <2>1. u = Append(h.undo, Entry(h.document, cmd.ops, cmd.key))
    BY <1>8 DEF Edit, PushCoalesced, History
  <2> HIDE DEF u
  <2> QED
    BY <1>6, <2>1
<1>9. CASE cmd.type = "DoBatchCoalesced" /\ Merges(h, cmd.key)
  <2> DEFINE top == Last(h.undo)
             e == Extended(top, cmd.ops)
  <2>1. h.undo # << >>
    BY <1>9 DEF Merges
  <2>2. top \in HistoryEntry
    BY <1>2, <2>1, FrontLast
  <2>3. top.operations \in Seq(Op) /\ top.document \in Doc
    BY <2>2 DEF HistoryEntry
  <2>4. top.operations \o cmd.ops \in Seq(Op)
    BY <1>1, <2>3, ConcatProperties
  <2>5. /\ e \in HistoryEntry /\ e.document = top.document
        /\ e.operations = top.operations \o cmd.ops
    BY <2>2, <2>4 DEF Extended, HistoryEntry
  <2>6. u = ReplaceAt(h.undo, Len(h.undo), e)
    BY <1>9 DEF Edit, PushCoalesced, History
  <2>7. ApplyBatch(top.document, top.operations) = h.document
    BY <1>2, <1>3, <2>1, UndoPathPop
  <2> HIDE DEF u, e, top
  <2>8. top.operations # << >> /\ cmd.ops # << >>
    <3>1. h.document # Rejected
      BY <1>2, HistoryConstants
    <3> QED
      BY <2>7, <3>1 DEF ApplyBatch
  <2>9. ApplyBatch(e.document, e.operations) = next
    BY <1>1, <2>3, <2>5, <2>7, <2>8, ApplyBatchConcat
  <2> HIDE DEF next
  <2>10. e.document = Last(h.undo).document
    BY <2>5 DEF top
  <2>11. UndoPath(u, next) /\ After(u, next, 0) = After(h.undo, h.document, 0)
    BY <1>2, <1>3, <2>1, <2>5, <2>6, <2>9, <2>10, UndoPathReplace
  <2> QED
    BY <1>3, <1>5, <2>11
<1> QED
  BY <1>1, <1>7, <1>8, <1>9

(* Closing the entry that an undo exposes keeps the path.                  *)
LEMMA CloseExposedPath ==
    ASSUME NEW undo \in Seq(HistoryEntry), NEW doc, UndoPath(undo, doc)
    PROVE  /\ UndoPath(CloseExposed(undo), doc)
           /\ After(CloseExposed(undo), doc, 0) = After(undo, doc, 0)
<1>1. CASE undo = << >>
  BY <1>1 DEF CloseExposed
<1>2. CASE undo # << >>
  <2> DEFINE e == Closed(Last(undo))
  <2>1. Last(undo) \in HistoryEntry
    BY <1>2, FrontLast
  <2>2. /\ e \in HistoryEntry /\ e.document = Last(undo).document
        /\ e.operations = Last(undo).operations
    BY <2>1 DEF Closed, HistoryEntry
  <2>3. ApplyBatch(Last(undo).document, Last(undo).operations) = doc
    BY <1>2, UndoPathPop
  <2>4. CloseExposed(undo) = ReplaceAt(undo, Len(undo), e)
    BY <1>2 DEF CloseExposed
  <2> HIDE DEF e
  <2>5. ApplyBatch(e.document, e.operations) = doc
    BY <2>2, <2>3
  <2> QED
    BY <1>2, <2>2, <2>4, <2>5, UndoPathReplace
<1> QED
  BY <1>1, <1>2

(* CoreState::undo moves one step back on the path.                        *)
LEMMA UndoStepPath ==
    ASSUME NEW h \in History, NEW base, IsPath(h, base)
    PROVE  IsPath(UndoStep(h), base)
<1>1. CASE h.undo = << >>
  BY <1>1 DEF UndoStep
<1>2. CASE h.undo # << >>
  <2> DEFINE top == Last(h.undo)
             e == Entry(h.document, top.operations, None)
             f == Front(h.undo)
  <2>1. h.undo \in Seq(HistoryEntry) /\ h.redo \in Seq(HistoryEntry) /\ h.document \in Doc
    BY DEF History
  <2>2. top \in HistoryEntry /\ f \in Seq(HistoryEntry)
    BY <1>2, <2>1, FrontLast
  <2>3. e \in HistoryEntry /\ e.document = h.document /\ e.operations = top.operations
    BY <2>1, <2>2 DEF Entry, HistoryEntry
  <2>4. /\ UndoStep(h).document = top.document
        /\ UndoStep(h).undo = CloseExposed(f)
        /\ UndoStep(h).redo = Append(h.redo, e)
    BY <1>2 DEF UndoStep, History
  <2>5. /\ After(h.undo, h.document, 0) = base
        /\ UndoPath(h.undo, h.document) /\ RedoPath(h.redo, h.document)
    BY DEF IsPath
  <2>6. /\ UndoPath(f, top.document) /\ After(f, top.document, 0) = base
        /\ ApplyBatch(top.document, top.operations) = h.document
    BY <1>2, <2>1, <2>5, UndoPathPop
  <2> HIDE DEF top, e, f
  <2>7. /\ UndoPath(CloseExposed(f), top.document)
        /\ After(CloseExposed(f), top.document, 0) = base
    BY <2>2, <2>6, CloseExposedPath
  <2>8. RedoPath(h.redo, e.document) /\ ApplyBatch(top.document, e.operations) = e.document
    BY <2>3, <2>5, <2>6
  <2>9. RedoPath(Append(h.redo, e), top.document)
    BY <2>1, <2>3, <2>8, RedoPathPush
  <2> QED
    BY <2>4, <2>7, <2>9 DEF IsPath
<1> QED
  BY <1>1, <1>2

(* CoreState::redo moves one step forward on the path.                     *)
LEMMA RedoStepPath ==
    ASSUME NEW h \in History, NEW base, IsPath(h, base)
    PROVE  IsPath(RedoStep(h), base)
<1>1. CASE h.redo = << >>
  BY <1>1 DEF RedoStep
<1>2. CASE h.redo # << >>
  <2> DEFINE top == Last(h.redo)
             e == Entry(h.document, top.operations, None)
  <2>1. h.undo \in Seq(HistoryEntry) /\ h.redo \in Seq(HistoryEntry) /\ h.document \in Doc
    BY DEF History
  <2>2. top \in HistoryEntry
    BY <1>2, <2>1, FrontLast
  <2>3. e \in HistoryEntry /\ e.document = h.document /\ e.operations = top.operations
    BY <2>1, <2>2 DEF Entry, HistoryEntry
  <2>4. /\ RedoStep(h).document = top.document
        /\ RedoStep(h).undo = Append(h.undo, e)
        /\ RedoStep(h).redo = Front(h.redo)
    BY <1>2 DEF RedoStep, History
  <2>5. /\ After(h.undo, h.document, 0) = base
        /\ UndoPath(h.undo, h.document) /\ RedoPath(h.redo, h.document)
    BY DEF IsPath
  <2>6. /\ RedoPath(Front(h.redo), top.document)
        /\ ApplyBatch(h.document, top.operations) = top.document
    BY <1>2, <2>1, <2>5, RedoPathPop
  <2> HIDE DEF top, e
  <2>7. UndoPath(h.undo, e.document) /\ ApplyBatch(e.document, e.operations) = top.document
    BY <2>3, <2>5, <2>6
  <2>8. /\ UndoPath(Append(h.undo, e), top.document)
        /\ After(Append(h.undo, e), top.document, 0) = After(h.undo, e.document, 0)
    BY <2>1, <2>3, <2>7, UndoPathPush
  <2> QED
    BY <2>3, <2>4, <2>5, <2>6, <2>8 DEF IsPath
<1> QED
  BY <1>1, <1>2

(* execute_command keeps the history a path from its baseline.             *)
LEMMA ExecPath ==
    ASSUME NEW h \in History, NEW base, NEW cmd \in JournalCommand, IsPath(h, base)
    PROVE  IsPath(Exec(h, cmd), base)
<1> DEFINE c == CanonicalCommand(cmd)
<1>1. c \in JournalCommand
  BY CanonicalCommandType
<1> HIDE DEF c
<1>2. CASE ~ Accepts(h, c)
  BY <1>2 DEF Exec, c
<1>3. CASE Accepts(h, c)
  <2>1. IsPath(Applied(h, c), base)
    <3>1. CASE c.type = "Undo"
      BY <3>1, UndoStepPath DEF Applied
    <3>2. CASE c.type = "Redo"
      BY <3>2, RedoStepPath DEF Applied
    <3>3. CASE c.type \notin {"Undo", "Redo"}
      BY <1>1, <1>3, <3>3, EditPath DEF Applied, Accepts
    <3> QED
      BY <3>1, <3>2, <3>3
  <2>2. Applied(h, c) \in History
    BY <1>1, <1>3, AppliedType
  <2>3. Exec(h, cmd) = Record(Applied(h, c), c)
    BY <1>3 DEF Exec, c
  <2>4. ASSUME NEW x \in History
        PROVE  /\ Record(x, c).document = x.document
               /\ Record(x, c).undo = x.undo
               /\ Record(x, c).redo = x.redo
    BY DEF Record, History
  <2> QED
    BY <2>1, <2>2, <2>3, <2>4 DEF IsPath
<1> QED
  BY <1>2, <1>3

-----------------------------------------------------------------------------
(* One step of flattening, under a name that keeps the concatenation out   *)
(* of the induction; f lists the results of the first steps over seqs.     *)
Then(s, t) == s \o t

IsFlat(f, seqs, n) ==
    f[1] = seqs[1] /\ \A i \in 2 .. n : f[i] = Then(f[i - 1], seqs[i])

(* The recursive function that FlattenSeq evaluates exists.                *)
LEMMA FlatExists ==
    ASSUME NEW seqs, NEW n \in Nat
    PROVE  \E f : f = [i \in 1 .. n |-> IF i = 1 THEN seqs[i] ELSE Then(f[i - 1], seqs[i])]
<1> DEFINE Is(f, k) == f = [i \in 1 .. k |-> IF i = 1 THEN seqs[i] ELSE Then(f[i - 1], seqs[i])]
           Bad == {k \in Nat : ~ \E f : Is(f, k)}
<1> SUFFICES ASSUME Bad # {} PROVE FALSE
  OBVIOUS
<1>1. PICK k \in Bad : \A m \in Bad : k <= m
  BY LeastNatural
<1>2. k # 0
  <2> DEFINE none == [i \in 1 .. 0 |-> seqs[i]]
  <2>1. Is(none, 0)
    OBVIOUS
  <2> QED
    BY <2>1
<1>3. k - 1 \in Nat /\ k - 1 \notin Bad
  <2>1. k \in Nat
    OBVIOUS
  <2> HIDE DEF Bad
  <2> QED
    BY <1>1, <1>2, <2>1
<1>4. PICK f : Is(f, k - 1)
  BY <1>3
<1> DEFINE longer == [i \in 1 .. k |->
                        IF i # k THEN f[i] ELSE IF i = 1 THEN seqs[i] ELSE Then(f[k - 1], seqs[k])]
<1>5. Is(longer, k)
  <2>1. k \in Nat \ {0}
    BY <1>2
  <2>2. ASSUME NEW i \in 1 .. k - 1
        PROVE  f[i] = IF i = 1 THEN seqs[i] ELSE Then(f[i - 1], seqs[i])
    <3> DEFINE g == [j \in 1 .. k - 1 |-> IF j = 1 THEN seqs[j] ELSE Then(f[j - 1], seqs[j])]
    <3>1. f = g
      BY <1>4
    <3>2. g[i] = IF i = 1 THEN seqs[i] ELSE Then(f[i - 1], seqs[i])
      OBVIOUS
    <3> HIDE DEF g
    <3> QED
      BY <3>1, <3>2
  <2>3. ASSUME NEW i \in 1 .. k
        PROVE  longer[i] = IF i = 1 THEN seqs[i] ELSE Then(longer[i - 1], seqs[i])
    <3>1. CASE i = 1
      BY <2>1, <2>2, <3>1
    <3>2. CASE i # 1
      <4>1. i - 1 \in 1 .. k /\ i - 1 # k /\ (i # k => i \in 1 .. k - 1)
        BY <2>1, <3>2
      <4>2. longer[i - 1] = f[i - 1]
        BY <4>1
      <4> QED
        BY <2>2, <3>2, <4>1, <4>2
    <3> QED
      BY <3>1, <3>2
  <2>4. longer = [i \in 1 .. k |-> longer[i]]
    OBVIOUS
  <2> HIDE DEF longer
  <2> QED
    BY <2>3, <2>4
<1> QED
  BY <1>5

(* What FlattenSeq yields is the last of these concatenations.             *)
LEMMA FlattenIsFlat ==
    ASSUME NEW seqs, Len(seqs) \in Nat \ {0}
    PROVE  \E f : IsFlat(f, seqs, Len(seqs)) /\ FlattenSeq(seqs) = f[Len(seqs)]
<1> DEFINE n == Len(seqs)
           Is(f) == f = [i \in 1 .. n |-> IF i = 1 THEN seqs[i] ELSE Then(f[i - 1], seqs[i])]
           flat == CHOOSE f : Is(f)
<1>1. n \in Nat \ {0}
  OBVIOUS
<1>2. Is(flat)
  BY <1>1, FlatExists
<1>3. FlattenSeq(seqs) = flat[n]
  BY <1>1 DEF FlattenSeq, Then
<1> HIDE DEF flat, n
<1>4. IsFlat(flat, seqs, n)
  <2> DEFINE g == [i \in 1 .. n |-> IF i = 1 THEN seqs[i] ELSE Then(flat[i - 1], seqs[i])]
  <2>1. flat = g
    BY <1>2
  <2>2. g[1] = seqs[1] /\ \A i \in 2 .. n : g[i] = Then(flat[i - 1], seqs[i])
    BY <1>1
  <2> HIDE DEF g
  <2> QED
    BY <2>1, <2>2 DEF IsFlat
<1> QED
  BY <1>3, <1>4 DEF n

(* Two lists of concatenations of the same beginnings agree.               *)
LEMMA FlatUnique ==
    ASSUME NEW first, NEW second, NEW n \in Nat \ {0}, NEW f, NEW g,
           IsFlat(f, first, n), IsFlat(g, second, n), \A i \in 1 .. n : first[i] = second[i]
    PROVE  f[n] = g[n]
<1> DEFINE Bad == {k \in 1 .. n : f[k] # g[k]}
<1> SUFFICES ASSUME Bad # {} PROVE FALSE
  OBVIOUS
<1>1. PICK k \in Bad : \A j \in Bad : k <= j
  <2>1. Bad \in SUBSET Nat
    OBVIOUS
  <2> HIDE DEF Bad
  <2> QED
    BY <2>1, LeastNatural
<1>2. f[1] = g[1]
  BY DEF IsFlat
<1>3. k \in 2 .. n /\ k - 1 \in 1 .. n /\ k - 1 \notin Bad
  BY <1>1, <1>2
<1>4. f[k] = Then(f[k - 1], first[k]) /\ g[k] = Then(g[k - 1], second[k]) /\ first[k] = second[k]
  BY <1>3 DEF IsFlat
<1> QED
  BY <1>3, <1>4

(* Flattening nothing, and one sequence more.                              *)
LEMMA FlattenEmpty == FlattenSeq(<< >>) = << >>
BY EmptySeq DEF FlattenSeq

LEMMA FlattenAppend ==
    ASSUME NEW S, NEW s \in Seq(Seq(S)), NEW x \in Seq(S)
    PROVE  FlattenSeq(Append(s, x)) = FlattenSeq(s) \o x
<1> DEFINE n == Len(s)
           longer == Append(s, x)
<1>1. n \in Nat
  BY LenProperties
<1>2. Len(longer) = n + 1 /\ longer[n + 1] = x /\ \A i \in 1 .. n : longer[i] = s[i]
  BY AppendProperties
<1>3. PICK g : IsFlat(g, longer, n + 1) /\ FlattenSeq(longer) = g[n + 1]
  <2>1. Len(longer) \in Nat \ {0}
    BY <1>1, <1>2
  <2> HIDE DEF longer
  <2> QED
    BY <1>2, <2>1, FlattenIsFlat
<1>4. CASE n = 0
  <2>1. s = << >>
    BY <1>4, EmptySeq
  <2>2. FlattenSeq(longer) = x
    <3>1. g[1] = longer[1]
      BY <1>3 DEF IsFlat
    <3> HIDE DEF longer
    <3> QED
      BY <1>2, <1>3, <1>4, <3>1
  <2>3. << >> \o x = x
    BY ConcatEmptySeq
  <2> QED
    BY <2>1, <2>2, <2>3, FlattenEmpty
<1>5. CASE n # 0
  <2>1. PICK f : IsFlat(f, s, n) /\ FlattenSeq(s) = f[n]
    BY <1>1, <1>5, FlattenIsFlat
  <2> HIDE DEF longer
  <2>2. IsFlat(g, longer, n)
    <3>1. \A i \in 2 .. n : i \in 2 .. n + 1
      BY <1>1
    <3> QED
      BY <1>3, <3>1 DEF IsFlat
  <2>3. f[n] = g[n]
    <3>1. n \in Nat \ {0} /\ \A i \in 1 .. n : s[i] = longer[i]
      BY <1>1, <1>2, <1>5
    <3> HIDE DEF n
    <3> QED
      BY <2>1, <2>2, <3>1, FlatUnique
  <2>4. g[n + 1] = Then(g[n], longer[n + 1])
    <3>1. n + 1 \in 2 .. n + 1 /\ (n + 1) - 1 = n
      BY <1>1, <1>5
    <3>2. \A i \in 2 .. n + 1 : g[i] = Then(g[i - 1], longer[i])
      BY <1>3 DEF IsFlat
    <3> QED
      BY <3>1, <3>2
  <2>5. FlattenSeq(longer) = FlattenSeq(s) \o x
    BY <1>2, <1>3, <2>1, <2>3, <2>4 DEF Then
  <2> QED
    BY <2>5 DEF longer
<1> QED
  BY <1>4, <1>5

(* The longest end of a stream that keeps a gesture's cursor is unique.    *)
LEMMA StartUnique ==
    ASSUME NEW batches, Len(batches) \in Nat, NEW key, NEW m, NEW n,
           StartsRun(batches, key, m), StartsRun(batches, key, n)
    PROVE  m = n
<1>1. /\ m \in 1 .. Len(batches) + 1 /\ n \in 1 .. Len(batches) + 1
      /\ \A i \in m .. Len(batches) : KeepsCursor(batches[i], key)
      /\ \A i \in n .. Len(batches) : KeepsCursor(batches[i], key)
      /\ m = 1 \/ ~ KeepsCursor(batches[m - 1], key)
      /\ n = 1 \/ ~ KeepsCursor(batches[n - 1], key)
  BY DEF StartsRun
<1>2. CASE m < n
  <2>1. n - 1 \in m .. Len(batches) /\ n # 1
    BY <1>1, <1>2
  <2> QED
    BY <1>1, <2>1
<1>3. CASE n < m
  <2>1. m - 1 \in n .. Len(batches) /\ m # 1
    BY <1>1, <1>3
  <2> QED
    BY <1>1, <2>1
<1> QED
  BY <1>1, <1>2, <1>3

(* The sequences of operations from a batch on.                            *)
LEMMA RunFromType ==
    ASSUME NEW batches \in Seq(HistoryBatch), NEW n \in 1 .. Len(batches) + 1
    PROVE  /\ RunFrom(batches, n) \in Seq(Seq(Op))
           /\ Len(RunFrom(batches, n)) = Len(batches) + 1 - n
           /\ \A i \in 1 .. Len(batches) + 1 - n :
                 RunFrom(batches, n)[i] = batches[n + i - 1].command.ops
<1> DEFINE m == Len(batches) + 1 - n
<1>1. Len(batches) \in Nat /\ m \in Nat
  BY LenProperties
<1>2. ASSUME NEW i \in 1 .. m PROVE batches[n + i - 1].command.ops \in Seq(Op)
  <2>1. n + i - 1 \in 1 .. Len(batches)
    BY <1>1
  <2>2. batches[n + i - 1] \in HistoryBatch
    BY <2>1, ElementOfSeq
  <2>3. batches[n + i - 1].command \in JournalCommand
    BY <2>2 DEF HistoryBatch
  <2> QED
    BY <2>3, CommandType
<1>3. RunFrom(batches, n) = [i \in 1 .. m |-> batches[n + i - 1].command.ops]
  BY DEF RunFrom
<1> HIDE DEF m
<1>4. RunFrom(batches, n) \in [1 .. m -> Seq(Op)]
  BY <1>2, <1>3
<1>5. RunFrom(batches, n) \in Seq(Seq(Op)) /\ Len(RunFrom(batches, n)) = m
  BY <1>1, <1>4, SeqDef, LenProperties
<1> QED
  BY <1>3, <1>5 DEF m

(* A batch that keeps the cursor lengthens the run by its operations.      *)
LEMMA RunGrows ==
    ASSUME NEW batches \in Seq(HistoryBatch), NEW b \in HistoryBatch, NEW key, NEW n,
           StartsRun(batches, key, n), KeepsCursor(b, key)
    PROVE  /\ StartsRun(Append(batches, b), key, n)
           /\ FlattenSeq(RunFrom(Append(batches, b), n))
                = FlattenSeq(RunFrom(batches, n)) \o b.command.ops
<1> DEFINE l == Len(batches)
           longer == Append(batches, b)
<1>1. l \in Nat
  BY LenProperties
<1>2. /\ longer \in Seq(HistoryBatch)
      /\ Len(longer) = l + 1 /\ longer[l + 1] = b /\ \A i \in 1 .. l : longer[i] = batches[i]
  BY AppendProperties
<1>3. /\ n \in 1 .. l + 1
      /\ \A i \in n .. l : KeepsCursor(batches[i], key)
      /\ n = 1 \/ ~ KeepsCursor(batches[n - 1], key)
  BY DEF StartsRun
<1>4. b.command.ops \in Seq(Op)
  BY CommandType DEF HistoryBatch
<1> HIDE DEF longer
<1>5. StartsRun(longer, key, n)
  <2>1. n \in 1 .. Len(longer) + 1
    BY <1>1, <1>2, <1>3
  <2>2. ASSUME NEW i \in n .. l + 1 PROVE KeepsCursor(longer[i], key)
    <3>1. CASE i = l + 1
      BY <1>2, <3>1
    <3>2. CASE i # l + 1
      <4>1. i \in n .. l /\ i \in 1 .. l
        BY <1>1, <1>3, <3>2
      <4> QED
        BY <1>2, <1>3, <4>1
    <3> QED
      BY <3>1, <3>2
  <2>3. n = 1 \/ ~ KeepsCursor(longer[n - 1], key)
    <3>1. CASE n # 1
      <4>1. n - 1 \in 1 .. l
        BY <1>1, <1>3, <3>1
      <4> QED
        BY <1>2, <1>3, <3>1, <4>1
    <3> QED
      BY <3>1
  <2> QED
    BY <1>2, <2>1, <2>2, <2>3 DEF StartsRun
<1> DEFINE r == RunFrom(batches, n)
           s == RunFrom(longer, n)
           m == l + 1 - n
<1>6. /\ m \in Nat /\ r \in Seq(Seq(Op)) /\ Len(r) = m
      /\ \A i \in 1 .. m : r[i] = batches[n + i - 1].command.ops
  BY <1>1, <1>3, RunFromType
<1>7. /\ s \in Seq(Seq(Op)) /\ Len(s) = m + 1
      /\ \A i \in 1 .. m + 1 : s[i] = longer[n + i - 1].command.ops
  <2>1. n \in 1 .. Len(longer) + 1 /\ Len(longer) + 1 - n = m + 1
    BY <1>1, <1>2, <1>3
  <2> QED
    BY <1>2, <2>1, RunFromType
<1> HIDE DEF r, s
<1>8. /\ Append(r, b.command.ops) \in Seq(Seq(Op))
      /\ Len(Append(r, b.command.ops)) = m + 1
      /\ Append(r, b.command.ops)[m + 1] = b.command.ops
      /\ \A i \in 1 .. m : Append(r, b.command.ops)[i] = r[i]
  BY <1>4, <1>6, AppendProperties
<1>9. ASSUME NEW i \in 1 .. m + 1 PROVE s[i] = Append(r, b.command.ops)[i]
  <2>1. CASE i = m + 1
    <3>1. n + i - 1 = l + 1
      BY <1>1, <1>3, <2>1
    <3> QED
      BY <1>2, <1>7, <1>8, <2>1, <3>1
  <2>2. CASE i # m + 1
    <3>1. i \in 1 .. m /\ n + i - 1 \in 1 .. l
      <4>1. n \in Nat /\ l \in Nat /\ n <= l + 1 /\ 1 <= n
        BY <1>1, <1>3
      <4>2. i \in 1 .. (l + 1 - n) + 1 /\ i # (l + 1 - n) + 1
        BY <2>2
      <4> HIDE DEF l, m
      <4> QED
        BY <4>1, <4>2 DEF m
    <3> QED
      BY <1>2, <1>6, <1>7, <1>8, <3>1
  <2> QED
    BY <2>1, <2>2
<1>10. s = Append(r, b.command.ops)
  BY <1>7, <1>8, <1>9, SeqEqual
<1>11. FlattenSeq(s) = FlattenSeq(r) \o b.command.ops
  BY <1>4, <1>6, <1>10, FlattenAppend
<1> QED
  BY <1>5, <1>11 DEF r, s, longer

(* Any other batch starts an empty run behind itself.                      *)
LEMMA RunResets ==
    ASSUME NEW batches \in Seq(HistoryBatch), NEW b \in HistoryBatch, NEW key,
           ~ KeepsCursor(b, key)
    PROVE  \E n : /\ StartsRun(Append(batches, b), key, n)
                  /\ FlattenSeq(RunFrom(Append(batches, b), n)) = << >>
<1> DEFINE l == Len(batches)
           longer == Append(batches, b)
<1>1. l \in Nat
  BY LenProperties
<1>2. longer \in Seq(HistoryBatch) /\ Len(longer) = l + 1 /\ longer[l + 1] = b
  BY AppendProperties
<1> HIDE DEF longer
<1>3. StartsRun(longer, key, l + 2)
  <2>1. /\ l + 2 \in 1 .. Len(longer) + 1
        /\ (l + 2) - 1 = l + 1
        /\ \A i \in l + 2 .. Len(longer) : FALSE
    BY <1>1, <1>2
  <2>2. ~ KeepsCursor(longer[(l + 2) - 1], key)
    BY <1>2, <2>1
  <2> QED
    BY <2>1, <2>2 DEF StartsRun
<1>4. RunFrom(longer, l + 2) = << >>
  <2>1. l + 2 \in 1 .. Len(longer) + 1 /\ Len(longer) + 1 - (l + 2) = 0
    BY <1>1, <1>2
  <2>2. RunFrom(longer, l + 2) \in Seq(Seq(Op)) /\ Len(RunFrom(longer, l + 2)) = 0
    BY <1>2, <2>1, RunFromType
  <2> QED
    BY <2>2, EmptySeq
<1> QED
  BY <1>3, <1>4, FlattenEmpty DEF longer

(* The operations a gesture with this key has merged so far.               *)
OpenOps(h, key) == IF Merges(h, key) THEN Last(h.undo).operations ELSE << >>

(* For every key, the operations merged so far are those of the longest    *)
(* end of the stream that keeps the cursor, and while there is an entry to *)
(* merge into there is nothing to redo.                                    *)
GestureRuns(h) ==
    \A key \in Key :
        /\ Merges(h, key) => h.redo = << >>
        /\ \E n : /\ StartsRun(h.batches, key, n)
                  /\ FlattenSeq(RunFrom(h.batches, n)) = OpenOps(h, key)

(* An entry just pushed decides whether a gesture can merge.               *)
LEMMA MergesPushed ==
    ASSUME NEW x, NEW undo \in Seq(HistoryEntry), NEW e \in HistoryEntry, NEW key,
           x.undo = Append(undo, e)
    PROVE  /\ e.coalesce_key = key => OpenOps(x, key) = e.operations
           /\ e.coalesce_key # key => OpenOps(x, key) = << >> /\ ~ Merges(x, key)
<1>1. /\ Len(undo) \in Nat /\ Len(Append(undo, e)) = Len(undo) + 1
      /\ Append(undo, e)[Len(undo) + 1] = e
  BY LenProperties, AppendProperties
<1>2. Append(undo, e) # << >>
  <2>1. Len(Append(undo, e)) # 0
    BY <1>1
  <2> QED
    BY <2>1, EmptySeq
<1>3. Last(Append(undo, e)) = e
  BY <1>1 DEF Last
<1> QED
  BY <1>2, <1>3 DEF Merges, OpenOps

(* So does an entry just rewritten.                                        *)
LEMMA MergesReplaced ==
    ASSUME NEW x, NEW undo \in Seq(HistoryEntry), undo # << >>, NEW e \in HistoryEntry, NEW key,
           x.undo = ReplaceAt(undo, Len(undo), e)
    PROVE  /\ e.coalesce_key = key => OpenOps(x, key) = e.operations
           /\ e.coalesce_key # key => OpenOps(x, key) = << >> /\ ~ Merges(x, key)
<1>1. ReplaceAt(undo, Len(undo), e) # << >> /\ Last(ReplaceAt(undo, Len(undo), e)) = e
  BY ReplaceLast
<1> QED
  BY <1>1 DEF Merges, OpenOps

(* What an accepted command does to the operations merged under a key: a   *)
(* batch of the gesture adds its own, a Redo finds nothing to do, and      *)
(* everything else ends the gesture.                                       *)
LEMMA GestureApplied ==
    ASSUME NEW h \in History, NEW c \in JournalCommand, Accepts(h, c), NEW key \in Key,
           Merges(h, key) => h.redo = << >>
    PROVE  LET x == Applied(h, c)
               keeps == (c.type = "DoBatchCoalesced" /\ c.key = key) \/ c.type = "Redo"
           IN  /\ Merges(x, key) => x.redo = << >>
               /\ keeps => OpenOps(x, key) = OpenOps(h, key) \o c.ops
               /\ ~ keeps => OpenOps(x, key) = << >>
<1> DEFINE x == Applied(h, c)
           keeps == (c.type = "DoBatchCoalesced" /\ c.key = key) \/ c.type = "Redo"
<1>1. /\ c.ops \in Seq(Op) /\ c.key \in Key \cup {None}
      /\ c.type \in {"DoBatch", "DoBatchCoalesced", "Undo", "Redo"}
  BY CommandType
<1>2. h.undo \in Seq(HistoryEntry) /\ h.redo \in Seq(HistoryEntry) /\ h.document \in Doc
  BY DEF History
<1>3. key # None
  BY HistoryConstants
<1>4. OpenOps(h, key) \in Seq(Op) /\ << >> \in Seq(Op)
  <2>1. << >> \in Seq(Op)
    BY EmptySeq
  <2>2. CASE Merges(h, key)
    <3>1. Last(h.undo) \in HistoryEntry
      BY <1>2, <2>2, FrontLast DEF Merges
    <3> QED
      BY <2>1, <2>2, <3>1 DEF OpenOps, HistoryEntry
  <2>3. CASE ~ Merges(h, key)
    BY <2>1, <2>3 DEF OpenOps
  <2> QED
    BY <2>2, <2>3
<1>5. ~ Merges(h, key) => OpenOps(h, key) = << >>
  BY DEF OpenOps
<1>6. CASE c.type = "Undo"
  <2>1. ~ keeps
    BY <1>6
  <2>2. ~ Merges(x, key)
    <3>1. CASE h.undo = << >>
      BY <1>6, <3>1 DEF Applied, UndoStep, Merges
    <3>2. CASE h.undo # << >>
      <4> DEFINE f == Front(h.undo)
      <4>1. f \in Seq(HistoryEntry)
        BY <1>2, <3>2, FrontLast
      <4>2. x.undo = CloseExposed(f)
        BY <1>6, <3>2 DEF Applied, UndoStep, History
      <4> HIDE DEF x, f
      <4>3. CASE f = << >>
        BY <4>2, <4>3 DEF CloseExposed, Merges
      <4>4. CASE f # << >>
        <5> DEFINE e == Closed(Last(f))
        <5>1. Last(f) \in HistoryEntry
          BY <4>1, <4>4, FrontLast
        <5>2. e \in HistoryEntry /\ e.coalesce_key = None
          BY <5>1 DEF Closed, HistoryEntry
        <5>3. x.undo = ReplaceAt(f, Len(f), e)
          BY <4>2, <4>4 DEF CloseExposed
        <5> HIDE DEF e
        <5> QED
          BY <1>3, <4>1, <4>4, <5>2, <5>3, MergesReplaced
      <4> QED
        BY <4>3, <4>4
    <3> QED
      BY <3>1, <3>2
  <2> HIDE DEF x, keeps
  <2>3. OpenOps(x, key) = << >>
    BY <2>2 DEF OpenOps
  <2> QED
    BY <2>1, <2>2, <2>3 DEF x, keeps
<1>7. CASE c.type = "Redo"
  <2>1. keeps /\ c.ops = << >>
    BY <1>7, CommandType DEF Undo, Redo
  <2>2. OpenOps(h, key) \o c.ops = OpenOps(h, key)
    BY <1>4, <2>1, ConcatEmptySeq
  <2>3. CASE h.redo = << >>
    <3>1. x = h
      BY <1>7, <2>3 DEF Applied, RedoStep
    <3> QED
      BY <2>1, <2>2, <3>1
  <2>4. CASE h.redo # << >>
    <3> DEFINE e == Entry(h.document, Last(h.redo).operations, None)
    <3>1. Last(h.redo) \in HistoryEntry
      BY <1>2, <2>4, FrontLast
    <3>2. e \in HistoryEntry /\ e.coalesce_key = None
      BY <1>2, <3>1 DEF Entry, HistoryEntry
    <3>3. x.undo = Append(h.undo, e)
      BY <1>7, <2>4 DEF Applied, RedoStep, History
    <3> HIDE DEF e, x, keeps
    <3>4. ~ Merges(x, key) /\ OpenOps(x, key) = << >>
      BY <1>2, <1>3, <3>2, <3>3, MergesPushed
    <3>5. OpenOps(h, key) = << >>
      BY <1>5, <2>4
    <3> QED
      BY <2>1, <2>2, <3>4, <3>5 DEF x, keeps
  <2> QED
    BY <2>3, <2>4
<1>8. CASE c.type = "DoBatch"
  <2> DEFINE e == Entry(h.document, c.ops, None)
  <2>1. ~ keeps
    BY <1>8
  <2>2. e \in HistoryEntry /\ e.coalesce_key = None
    BY <1>1, <1>2 DEF Entry, HistoryEntry
  <2>3. x.undo = Append(h.undo, e)
    BY <1>8 DEF Applied, Edit, PushClosed, History
  <2> HIDE DEF e, x, keeps
  <2>4. ~ Merges(x, key) /\ OpenOps(x, key) = << >>
    BY <1>2, <1>3, <2>2, <2>3, MergesPushed
  <2> QED
    BY <2>1, <2>4 DEF x, keeps
<1>9. CASE c.type = "DoBatchCoalesced" /\ ~ Merges(h, c.key)
  <2> DEFINE e == Entry(h.document, c.ops, c.key)
  <2>1. keeps <=> c.key = key
    BY <1>9
  <2>2. e \in HistoryEntry /\ e.coalesce_key = c.key /\ e.operations = c.ops
    BY <1>1, <1>2 DEF Entry, HistoryEntry
  <2>3. x.undo = Append(h.undo, e) /\ x.redo = << >>
    BY <1>9 DEF Applied, Edit, PushCoalesced, History
  <2> HIDE DEF e, x, keeps
  <2>4. /\ c.key = key => OpenOps(x, key) = c.ops
        /\ c.key # key => OpenOps(x, key) = << >>
    BY <1>2, <2>2, <2>3, MergesPushed
  <2>5. c.key = key => OpenOps(h, key) \o c.ops = c.ops
    BY <1>1, <1>5, <1>9, ConcatEmptySeq
  <2> QED
    BY <2>1, <2>3, <2>4, <2>5 DEF x, keeps
<1>10. CASE c.type = "DoBatchCoalesced" /\ Merges(h, c.key)
  <2> DEFINE top == Last(h.undo)
             e == Extended(top, c.ops)
  <2>1. keeps <=> c.key = key
    BY <1>10
  <2>2. h.undo # << >> /\ top.coalesce_key = c.key
    BY <1>10 DEF Merges
  <2>3. top \in HistoryEntry
    BY <1>2, <2>2, FrontLast
  <2>4. top.operations \o c.ops \in Seq(Op)
    BY <1>1, <2>3, ConcatProperties DEF HistoryEntry
  <2>5. /\ e \in HistoryEntry /\ e.coalesce_key = c.key
        /\ e.operations = top.operations \o c.ops
    BY <2>2, <2>3, <2>4 DEF Extended, HistoryEntry
  <2>6. x.undo = ReplaceAt(h.undo, Len(h.undo), e) /\ x.redo = << >>
    BY <1>10 DEF Applied, Edit, PushCoalesced, History
  <2>7. c.key = key => OpenOps(h, key) = top.operations
    BY <1>10 DEF OpenOps
  <2> HIDE DEF e, x, keeps, top
  <2>8. /\ c.key = key => OpenOps(x, key) = e.operations
        /\ c.key # key => OpenOps(x, key) = << >>
    BY <1>2, <2>2, <2>5, <2>6, MergesReplaced
  <2>9. c.key = key => OpenOps(x, key) = OpenOps(h, key) \o c.ops
    BY <2>5, <2>7, <2>8
  <2> QED
    BY <2>1, <2>6, <2>8, <2>9 DEF x, keeps
<1> QED
  BY <1>1, <1>6, <1>7, <1>8, <1>9, <1>10

(* A fresh history has no gesture.                                         *)
LEMMA NewHistoryRuns ==
    ASSUME NEW base \in Doc
    PROVE  GestureRuns(NewHistory(base, 0))
<1> DEFINE h == NewHistory(base, 0)
<1>1. h.batches = << >> /\ h.undo = << >> /\ h.redo = << >>
  BY DEF NewHistory
<1> HIDE DEF h
<1>2. Len(<< >>) = 0 /\ << >> \in Seq(HistoryBatch)
  BY EmptySeq
<1>3. RunFrom(<< >>, 1) = << >>
  <2>1. RunFrom(<< >>, 1) \in Seq(Seq(Op)) /\ Len(RunFrom(<< >>, 1)) = 0
    <3>1. 1 \in 1 .. Len(<< >>) + 1 /\ Len(<< >>) + 1 - 1 = 0
      BY <1>2
    <3> QED
      BY <1>2, <3>1, RunFromType
  <2> QED
    BY <2>1, EmptySeq
<1>4. ASSUME NEW key \in Key
      PROVE  StartsRun(<< >>, key, 1)
  <2>1. 1 \in 1 .. Len(<< >>) + 1 /\ \A i \in 1 .. Len(<< >>) : FALSE
    BY <1>2
  <2> QED
    BY <2>1 DEF StartsRun
<1>5. ASSUME NEW key \in Key
      PROVE  OpenOps(h, key) = << >> /\ ~ Merges(h, key)
  BY <1>1 DEF OpenOps, Merges
<1>6. GestureRuns(h)
  BY <1>1, <1>3, <1>4, <1>5, FlattenEmpty DEF GestureRuns
<1> QED
  BY <1>6 DEF h

(* execute_command keeps every open gesture one uninterrupted run.         *)
LEMMA ExecRuns ==
    ASSUME NEW h \in History, NEW cmd \in JournalCommand, GestureRuns(h)
    PROVE  GestureRuns(Exec(h, cmd))
<1> DEFINE c == CanonicalCommand(cmd)
           x == Applied(h, c)
           y == Exec(h, cmd)
           b == BatchOf(h, cmd)
<1>1. c \in JournalCommand
  BY CanonicalCommandType
<1>2. CASE ~ Accepts(h, c)
  BY <1>2 DEF Exec
<1>3. CASE Accepts(h, c)
  <2>1. /\ y.batches = Append(h.batches, b) /\ b \in HistoryBatch /\ b.command = c
        /\ h.batches \in Seq(HistoryBatch)
    BY <1>3, ExecBatch DEF History
  <2>2. x \in History
    BY <1>1, <1>3, AppliedType
  <2>3. y = Record(x, c)
    BY <1>3 DEF Exec
  <2> HIDE DEF x
  <2>4. y.undo = x.undo /\ y.redo = x.redo
    BY <2>2, <2>3 DEF Record, History
  <2> HIDE DEF y, b, c
  <2> SUFFICES ASSUME NEW key \in Key
               PROVE  /\ Merges(y, key) => y.redo = << >>
                      /\ \E n : /\ StartsRun(y.batches, key, n)
                                /\ FlattenSeq(RunFrom(y.batches, n)) = OpenOps(y, key)
    BY DEF GestureRuns, y
  <2>5. Merges(h, key) => h.redo = << >>
    BY DEF GestureRuns
  <2>6. PICK n : StartsRun(h.batches, key, n) /\ FlattenSeq(RunFrom(h.batches, n)) = OpenOps(h, key)
    BY DEF GestureRuns
  <2> DEFINE keeps == (c.type = "DoBatchCoalesced" /\ c.key = key) \/ c.type = "Redo"
  <2>7. /\ Merges(x, key) => x.redo = << >>
        /\ keeps => OpenOps(x, key) = OpenOps(h, key) \o c.ops
        /\ ~ keeps => OpenOps(x, key) = << >>
    BY <1>1, <1>3, <2>5, GestureApplied DEF x
  <2>8. (Merges(y, key) <=> Merges(x, key)) /\ OpenOps(y, key) = OpenOps(x, key)
    BY <2>4 DEF Merges, OpenOps
  <2>9. KeepsCursor(b, key) <=> keeps
    BY <2>1 DEF KeepsCursor
  <2> HIDE DEF keeps
  <2>10. CASE keeps
    <3>1. /\ StartsRun(y.batches, key, n)
          /\ FlattenSeq(RunFrom(y.batches, n)) = OpenOps(h, key) \o c.ops
      BY <2>1, <2>6, <2>9, <2>10, RunGrows
    <3> QED
      BY <2>4, <2>7, <2>8, <2>10, <3>1
  <2>11. CASE ~ keeps
    <3>1. \E m : StartsRun(y.batches, key, m) /\ FlattenSeq(RunFrom(y.batches, m)) = << >>
      BY <2>1, <2>9, <2>11, RunResets
    <3> QED
      BY <2>4, <2>7, <2>8, <2>11, <3>1
  <2> QED
    BY <2>10, <2>11
<1> QED
  BY <1>2, <1>3

(* Whatever a replay rebuilds from a baseline is a path from it, and its   *)
(* open gesture one run of its stream.                                     *)
LEMMA ReplaySound ==
    ASSUME NEW base \in Doc, NEW batches \in Seq(HistoryBatch),
           Replay(NewHistory(base, 0), batches) # Rejected
    PROVE  /\ Replay(NewHistory(base, 0), batches) \in History
           /\ IsPath(Replay(NewHistory(base, 0), batches), base)
           /\ GestureRuns(Replay(NewHistory(base, 0), batches))
<1> DEFINE h == NewHistory(base, 0)
           R(n) == Replay(h, SubSeq(batches, 1, n))
           Good(n) == R(n) = Rejected
                        \/ (R(n) \in History /\ IsPath(R(n), base) /\ GestureRuns(R(n)))
           Bad == {n \in 0 .. Len(batches) : ~ Good(n)}
<1>1. Len(batches) \in Nat
  BY LenProperties
<1>2. Good(0)
  <2>1. R(0) = h
    BY Beginnings, ReplayEmpty
  <2>2. h \in History /\ IsPath(h, base) /\ GestureRuns(h)
    BY NewHistoryType, NewHistoryPath, NewHistoryRuns
  <2> HIDE DEF h, R
  <2> QED
    BY <2>1, <2>2
<1>3. ASSUME NEW n \in 1 .. Len(batches), Good(n - 1) PROVE Good(n)
  <2> DEFINE b == batches[n]
             r == R(n - 1)
  <2>1. b \in HistoryBatch
    BY ElementOfSeq
  <2>2. R(n) = ReplayStep(r, b)
    <3>1. SubSeq(batches, 1, n) = Append(SubSeq(batches, 1, n - 1), b)
      BY Beginnings
    <3>2. SubSeq(batches, 1, n - 1) \in Seq(HistoryBatch)
      BY <1>1, PrefixLemma
    <3> QED
      BY <2>1, <3>1, <3>2, ReplayAppend
  <2>3. b.command \in JournalCommand
    BY <2>1 DEF HistoryBatch
  <2>4. ASSUME R(n) # Rejected
        PROVE  R(n) \in History /\ IsPath(R(n), base) /\ GestureRuns(R(n))
    <3>1. r # Rejected /\ R(n) = Exec(r, b.command)
      BY <2>2, <2>4 DEF ReplayStep
    <3>2. r \in History /\ IsPath(r, base) /\ GestureRuns(r)
      BY <1>3, <3>1
    <3> HIDE DEF r, R, b
    <3> QED
      BY <2>3, <3>1, <3>2, ExecType, ExecPath, ExecRuns
  <2> QED
    BY <2>4
<1> HIDE DEF Good, R
<1>4. Bad = {}
  <2> SUFFICES ASSUME Bad # {} PROVE FALSE
    OBVIOUS
  <2>1. PICK n \in Bad : \A m \in Bad : n <= m
    <3>1. Bad \in SUBSET Nat
      BY <1>1
    <3> HIDE DEF Bad
    <3> QED
      BY <3>1, LeastNatural
  <2>2. n \in 1 .. Len(batches) /\ n - 1 \in 0 .. Len(batches) /\ n - 1 \notin Bad
    BY <1>1, <1>2, <2>1
  <2> QED
    BY <1>3, <2>1, <2>2
<1>5. Good(Len(batches))
  BY <1>1, <1>4
<1>6. R(Len(batches)) = Replay(h, batches)
  BY Beginnings DEF R
<1> QED
  BY <1>5, <1>6 DEF Good
=============================================================================
