----------------------- MODULE RecoveryJournalProofs -----------------------
(***************************************************************************)
(* Proofs for module RecoveryJournal.                                      *)
(*                                                                         *)
(* JournalInv says whose file each journal is, and carries the types, the  *)
(* absence of orphans and the protection of undecided crash data.          *)
(* RecordedInv adds that the recorder follows the Core: replaying the      *)
(* journal and then the queued events goes through the documents of those  *)
(* events, stops at none of them and ends where the live history is.  It   *)
(* holds until the first save or refused Studio activation, and after it   *)
(* for clients that send no Undo or Redo, which is as far as the code      *)
(* goes: a restarted journal starts from a document without the undo and   *)
(* redo stacks the Core keeps.                                             *)
(*                                                                         *)
(* What a replay computes is shown by the least counterexample             *)
(* (LeastNatural), as in CoreHistoryProofs.                                *)
(***************************************************************************)
EXTENDS RecoveryJournal, CoreHistoryProofs

(* One replayed command yields a report.                                   *)
LEMMA RecoverStepType ==
    ASSUME NEW r \in RecoveryReport, NEW cmd \in JournalCommand
    PROVE  RecoverStep(r, cmd) \in RecoveryReport
<1>1. Exec(r.history, cmd) \in History
  BY ExecType DEF RecoveryReport
<1> QED
  BY <1>1 DEF RecoverStep, RecoveryReport

(* A report of a header alone.                                             *)
LEMMA NewReportType ==
    ASSUME NEW doc \in Doc
    PROVE  /\ NewReport(doc) \in RecoveryReport /\ ~ NewReport(doc).damaged
           /\ NewReport(doc).history = NewHistory(doc, 0)
           /\ NewReport(doc).history.document = doc
<1>1. NewHistory(doc, 0) \in History /\ NewHistory(doc, 0).document = doc
  BY NewHistoryType DEF NewHistory
<1> QED
  BY <1>1 DEF NewReport, RecoveryReport

(* run lists the reports a recovery of the first n commands goes through.  *)
IsRecovery(run, h, entries, n) ==
    run = [i \in 0 .. n |-> IF i = 0 THEN h ELSE RecoverStep(run[i - 1], entries[i])]

(* Every journal has a recovery.                                           *)
LEMMA RecoveryExists ==
    ASSUME NEW h, NEW entries, NEW n \in Nat
    PROVE  \E run : IsRecovery(run, h, entries, n)
<1> DEFINE Bad == {k \in Nat : ~ \E run : IsRecovery(run, h, entries, k)}
<1> SUFFICES ASSUME Bad # {} PROVE FALSE
  OBVIOUS
<1>1. PICK k \in Bad : \A m \in Bad : k <= m
  BY LeastNatural
<1>2. k # 0
  <2>1. IsRecovery([i \in 0 .. 0 |-> h], h, entries, 0)
    BY DEF IsRecovery
  <2> QED
    BY <2>1
<1>3. k - 1 \in Nat /\ k - 1 \notin Bad
  BY <1>1, <1>2
<1>4. PICK run : IsRecovery(run, h, entries, k - 1)
  BY <1>3
<1> DEFINE longer == [i \in 0 .. k |-> IF i = k THEN RecoverStep(run[k - 1], entries[k]) ELSE run[i]]
<1>5. IsRecovery(longer, h, entries, k)
  BY <1>1, <1>2, <1>3, <1>4 DEF IsRecovery
<1> QED
  BY <1>5

(* The steps of a recovery.                                                *)
LEMMA RecoverySteps ==
    ASSUME NEW h, NEW entries, NEW n \in Nat, NEW run, IsRecovery(run, h, entries, n)
    PROVE  /\ run[0] = h
           /\ \A i \in 1 .. n : run[i] = RecoverStep(run[i - 1], entries[i])
<1> DEFINE f == [i \in 0 .. n |-> IF i = 0 THEN h ELSE RecoverStep(run[i - 1], entries[i])]
<1>1. run = f
  BY DEF IsRecovery
<1>2. 0 \in 0 .. n
  OBVIOUS
<1>3. f[0] = h
  BY <1>2
<1>4. \A i \in 1 .. n : f[i] = RecoverStep(run[i - 1], entries[i])
  OBVIOUS
<1> HIDE DEF f
<1> QED
  BY <1>1, <1>3, <1>4

(* The last step of a recovery that is not empty.                          *)
LEMMA LastRecoveryStep ==
    ASSUME NEW h, NEW entries, NEW n \in Nat, NEW run, n # 0, IsRecovery(run, h, entries, n)
    PROVE  run[n] = RecoverStep(run[n - 1], entries[n])
<1>1. n \in 1 .. n
  OBVIOUS
<1>2. \A i \in 1 .. n : run[i] = RecoverStep(run[i - 1], entries[i])
  BY RecoverySteps
<1> QED
  BY <1>1, <1>2

(* Two recoveries of journals with the same beginning agree there.         *)
LEMMA RecoveryUnique ==
    ASSUME NEW h, NEW first, NEW second, NEW n \in Nat, NEW m \in Nat, n <= m,
           NEW f, NEW g, IsRecovery(f, h, first, n), IsRecovery(g, h, second, m),
           \A i \in 1 .. n : first[i] = second[i]
    PROVE  f[n] = g[n]
<1> DEFINE Bad == {k \in 0 .. n : f[k] # g[k]}
<1> SUFFICES ASSUME Bad # {} PROVE FALSE
  OBVIOUS
<1>1. PICK k \in Bad : \A j \in Bad : k <= j
  <2>1. Bad \in SUBSET Nat
    OBVIOUS
  <2> HIDE DEF Bad
  <2> QED
    BY <2>1, LeastNatural
<1>2. f[0] = g[0]
  <2>1. f[0] = h
    BY RecoverySteps
  <2>2. g[0] = h
    BY RecoverySteps
  <2> QED
    BY <2>1, <2>2
<1>3. k # 0 /\ k - 1 \in 0 .. n /\ k - 1 \notin Bad
  BY <1>1, <1>2
<1>4. f[k] = RecoverStep(f[k - 1], first[k]) /\ g[k] = RecoverStep(g[k - 1], second[k])
  <2>1. k \in 1 .. n /\ k \in 1 .. m
    BY <1>3
  <2> QED
    BY <2>1, RecoverySteps
<1> QED
  BY <1>3, <1>4

(* replay returns the end of a recovery.                                   *)
LEMMA ReplayIsRecovery ==
    ASSUME NEW doc, NEW entries, Len(entries) \in Nat
    PROVE  \E run : /\ IsRecovery(run, NewReport(doc), entries, Len(entries))
                    /\ ReplayJournal(doc, entries) = run[Len(entries)]
<1> DEFINE n == Len(entries)
           h == NewReport(doc)
           run == CHOOSE run : IsRecovery(run, h, entries, n)
<1>1. IsRecovery(run, h, entries, n)
  BY RecoveryExists
<1>2. ReplayJournal(doc, entries) = run[n]
  BY DEF ReplayJournal, IsRecovery
<1> QED
  BY <1>1, <1>2

(* A journal with only its header recovers the header's document.          *)
LEMMA RecoverEmpty ==
    ASSUME NEW doc
    PROVE  ReplayJournal(doc, << >>) = NewReport(doc)
<1>1. Len(<< >>) = 0
  BY EmptySeq
<1>2. PICK run : IsRecovery(run, NewReport(doc), << >>, 0) /\ ReplayJournal(doc, << >>) = run[0]
  BY <1>1, ReplayIsRecovery
<1> QED
  BY <1>2, RecoverySteps

(* One more journalled command is one more step of the replay.             *)
LEMMA RecoverAppend ==
    ASSUME NEW doc, NEW entries \in Seq(JournalCommand), NEW cmd \in JournalCommand
    PROVE  ReplayJournal(doc, Append(entries, cmd)) = RecoverStep(ReplayJournal(doc, entries), cmd)
<1> DEFINE n == Len(entries)
           longer == Append(entries, cmd)
<1>1. n \in Nat
  BY LenProperties
<1>2. Len(longer) = n + 1 /\ longer[n + 1] = cmd /\ \A i \in 1 .. n : longer[i] = entries[i]
  BY AppendProperties
<1>3. PICK f : IsRecovery(f, NewReport(doc), entries, n) /\ ReplayJournal(doc, entries) = f[n]
  BY <1>1, ReplayIsRecovery
<1> HIDE DEF n, longer
<1>4. PICK g : IsRecovery(g, NewReport(doc), longer, n + 1) /\ ReplayJournal(doc, longer) = g[n + 1]
  <2>1. Len(longer) \in Nat
    BY <1>1, <1>2
  <2> QED
    BY <1>2, <2>1, ReplayIsRecovery
<1>5. f[n] = g[n]
  <2>1. n + 1 \in Nat /\ n <= n + 1
    BY <1>1
  <2>2. \A i \in 1 .. n : entries[i] = longer[i]
    BY <1>2
  <2> QED
    BY <1>1, <1>3, <1>4, <2>1, <2>2, RecoveryUnique
<1>6. g[n + 1] = RecoverStep(g[n], longer[n + 1])
  <2>1. n + 1 \in Nat /\ n + 1 # 0 /\ (n + 1) - 1 = n
    BY <1>1
  <2>2. g[n + 1] = RecoverStep(g[(n + 1) - 1], longer[n + 1])
    BY <1>4, <2>1, LastRecoveryStep
  <2> QED
    BY <2>1, <2>2
<1> QED
  BY <1>2, <1>3, <1>4, <1>5, <1>6 DEF longer

(* A replay always yields a report, wherever it stops.                     *)
LEMMA RecoverType ==
    ASSUME NEW doc \in Doc, NEW entries \in Seq(JournalCommand)
    PROVE  ReplayJournal(doc, entries) \in RecoveryReport
<1> DEFINE R(n) == ReplayJournal(doc, SubSeq(entries, 1, n))
           Bad == {n \in 0 .. Len(entries) : R(n) \notin RecoveryReport}
<1>1. Len(entries) \in Nat
  BY LenProperties
<1>2. R(0) \in RecoveryReport
  <2>1. R(0) = NewReport(doc)
    BY Beginnings, RecoverEmpty
  <2> QED
    BY <2>1, NewReportType
<1>3. ASSUME NEW n \in 1 .. Len(entries), R(n - 1) \in RecoveryReport PROVE R(n) \in RecoveryReport
  <2> DEFINE u == SubSeq(entries, 1, n - 1)
             c == entries[n]
  <2>1. c \in JournalCommand /\ n - 1 \in 0 .. Len(entries)
    BY <1>1, ElementOfSeq
  <2>2. u \in Seq(JournalCommand)
    BY <2>1, PrefixLemma
  <2>3. SubSeq(entries, 1, n) = Append(u, c)
    BY Beginnings
  <2> HIDE DEF c, u
  <2>4. R(n) = RecoverStep(ReplayJournal(doc, u), c)
    BY <2>1, <2>2, <2>3, RecoverAppend
  <2>5. ReplayJournal(doc, u) \in RecoveryReport
    BY <1>3 DEF u
  <2> QED
    BY <2>1, <2>4, <2>5, RecoverStepType
<1>4. Bad = {}
  <2> SUFFICES ASSUME Bad # {} PROVE FALSE
    OBVIOUS
  <2>1. Bad \in SUBSET Nat
    OBVIOUS
  <2>2. \A n \in Bad : n \in 0 .. Len(entries) /\ R(n) \notin RecoveryReport
    OBVIOUS
  <2>3. \A n \in 0 .. Len(entries) : n \notin Bad => R(n) \in RecoveryReport
    OBVIOUS
  <2> HIDE DEF R, Bad
  <2>4. PICK n \in Bad : \A m \in Bad : n <= m
    BY <2>1, LeastNatural
  <2>5. n \in 1 .. Len(entries) /\ n - 1 \in 0 .. Len(entries)
    BY <1>1, <1>2, <2>2, <2>4
  <2>6. n - 1 \notin Bad
    BY <2>4, <2>5
  <2> QED
    BY <1>3, <2>2, <2>3, <2>4, <2>5, <2>6
<1>5. Len(entries) \notin Bad
  BY <1>4
<1>6. R(Len(entries)) \in RecoveryReport
  BY <1>1, <1>5
<1> QED
  BY <1>6, Beginnings

-----------------------------------------------------------------------------
(* Phases in which a session owns a journal name.                          *)
OpenPhases == {"Editing", "Saving", "Saved", "Stopped", "Attach"}

(* The session's journal is never undecided crash data, the recorder runs  *)
(* only in an open session, on that journal, a session that is not yet     *)
(* attached has a new Core, and only a save or a refused activation        *)
(* attaches an old one.                                                    *)
OwnJournal ==
    /\ phase \in OpenPhases => path \in Name \ pending \/ (phase = "Attach" /\ path = None)
    /\ phase \notin OpenPhases => path = None
    /\ recording => phase \in {"Editing", "Saving", "Saved"} /\ journals[path] # None
    /\ ~ recording => queue = << >>
    /\ restoring # None => restoring \in pending /\ phase \in {"Opening", "Editing"}
    /\ phase = "Opening" => hist = NewHistory(hist.document, 0)
    /\ phase \in {"Saving", "Saved", "Stopped"} => saves > 0
    /\ phase = "Attach" => saves > 0 \/ (refusals > 0 /\ path = None)

(* A file that is not the session's: undecided crash data, a journal left  *)
(* for Studio, or a newer build's.                                         *)
SetAside(n) == n \in pending \cup preserved \/ journals[n].format > build

(* There are only such files before a session's first file is created and  *)
(* after its last one is given up.                                         *)
Tidy ==
    phase \in {"Started", "Opening", "Attach", "Activating", "Studio"} /\ failures = 0 =>
        \A n \in Files : SetAside(n)

JournalInv == TypeOK /\ OwnJournal /\ Tidy /\ NoOrphanJournal

(* What one step keeps of undecided crash data and other sessions' files.  *)
KeepsPending ==
    \A n \in Files : journals'[n] # journals[n] =>
        IF n \in pending THEN n \notin pending' ELSE n = path

Event == [command: JournalCommand, doc: Doc]

(* A journal file is a journal.                                            *)
LEMMA FileType ==
    ASSUME TypeOK, NEW n \in Name, journals[n] # None
    PROVE  /\ journals[n] \in Journal
           /\ Recovered(journals[n]) \in Doc
<1>1. journals[n] \in Journal
  BY DEF TypeOK
<1>2. journals[n].initial \in Doc /\ journals[n].commands \in Seq(JournalCommand)
  BY <1>1 DEF Journal
<1>3. Inspected(journals[n]) \in RecoveryReport
  BY <1>2, RecoverType DEF Inspected
<1> QED
  BY <1>1, <1>3 DEF Recovered, RecoveryReport, History

(* JournalWriter::append keeps a journal's header and adds commands.       *)
LEMMA AppendedType ==
    ASSUME NEW journal \in Journal, NEW events \in Seq(Event)
    PROVE  Appended(journal, events) \in Journal
<1> DEFINE more == [i \in DOMAIN events |-> events[i].command]
<1>1. more \in Seq(JournalCommand)
  <2>1. events \in [1 .. Len(events) -> Event] /\ Len(events) \in Nat /\ DOMAIN events = 1 .. Len(events)
    BY LenProperties
  <2>2. more \in [1 .. Len(events) -> JournalCommand]
    BY <2>1 DEF Event
  <2> QED
    BY <2>1, <2>2, SeqDef
<1>2. journal.commands \in Seq(JournalCommand)
  BY DEF Journal
<1> HIDE DEF more
<1>3. journal.commands \o more \in Seq(JournalCommand)
  BY <1>1, <1>2, ConcatProperties
<1>4. Appended(journal, events) = [journal EXCEPT !.commands = journal.commands \o more]
  BY DEF Appended, more
<1> QED
  BY <1>3, <1>4 DEF Journal

(* record_event appends the event's command.                               *)
LEMMA AppendedOne ==
    ASSUME NEW journal \in Journal, NEW event \in Event
    PROVE  /\ Appended(journal, <<event>>) \in Journal
           /\ Appended(journal, <<event>>).format = journal.format
           /\ Appended(journal, <<event>>).initial = journal.initial
           /\ Appended(journal, <<event>>).commands = Append(journal.commands, event.command)
<1>1. <<event>> \in Seq(Event)
  OBVIOUS
<1> DEFINE more == [i \in DOMAIN <<event>> |-> <<event>>[i].command]
<1>2. more = <<event.command>>
  OBVIOUS
<1>3. journal.commands \in Seq(JournalCommand) /\ event.command \in JournalCommand
  BY DEF Journal, Event
<1>4. journal.commands \o <<event.command>> = Append(journal.commands, event.command)
  BY <1>3
<1>5. Appended(journal, <<event>>) = [journal EXCEPT !.commands = journal.commands \o more]
  BY DEF Appended
<1> HIDE DEF more
<1>6. Appended(journal, <<event>>).commands = journal.commands \o more
  BY <1>5 DEF Journal
<1> QED
  BY <1>1, <1>2, <1>4, <1>5, <1>6, AppendedType DEF Journal

(* A journal keeps its format while it grows.                              *)
LEMMA AppendedFormat ==
    ASSUME NEW journal \in Journal, NEW events \in Seq(Event)
    PROVE  Appended(journal, events).format = journal.format
BY DEF Appended, Journal

(* Draining the queue changes only the session's own file, which stays a   *)
(* journal of its format.                                                  *)
LEMMA DrainedFiles ==
    ASSUME TypeOK, OwnJournal
    PROVE  /\ Drained \in [Name -> Journal \cup {None}]
           /\ \A n \in Name : n # path => Drained[n] = journals[n]
           /\ \A n \in Name : Drained[n] # None <=> journals[n] # None
           /\ \A n \in Files : Drained[n].format = journals[n].format
           /\ ~ recording => Drained = journals
<1>1. CASE recording
  <2> DEFINE file == Appended(journals[path], queue)
  <2>1. path \in Name /\ journals[path] # None
    BY <1>1, NoneIsNoFile DEF OwnJournal, OpenPhases
  <2>2. journals[path] \in Journal /\ queue \in Seq(Event)
    BY <2>1, FileType DEF TypeOK, Event
  <2>3. file \in Journal /\ file.format = journals[path].format
    BY <2>2, AppendedType, AppendedFormat
  <2>4. Drained = [journals EXCEPT ![path] = file]
    BY <1>1 DEF Drained
  <2> HIDE DEF file
  <2>5. file # None /\ journals \in [Name -> Journal \cup {None}]
    BY <2>3, NoneIsNoFile DEF TypeOK
  <2>6. Drained[path] = file /\ \A n \in Name : n # path => Drained[n] = journals[n]
    BY <2>1, <2>4, <2>5
  <2>7. Drained \in [Name -> Journal \cup {None}]
    BY <2>1, <2>3, <2>4, <2>5
  <2> QED
    BY <1>1, <2>1, <2>3, <2>5, <2>6, <2>7 DEF Files
<1>2. CASE ~ recording
  BY <1>2 DEF Drained, TypeOK
<1> QED
  BY <1>1, <1>2

(* Only the session's own journal is written or removed with its session.  *)
LEMMA RemovedFiles ==
    ASSUME TypeOK, OwnJournal, RemovesJournal
    PROVE  /\ journals' \in [Name -> Journal \cup {None}]
           /\ failures' \in Nat /\ (failures' = 0 => failures = 0)
           /\ \A n \in Name : n # path => journals'[n] = journals[n]
           /\ path # None /\ failures' = 0 => \A n \in Files' : n # path /\ n \in Files
           /\ path = None => journals' = journals
<1>0. failures \in Nat /\ path \in Name \cup {None} /\ journals \in [Name -> Journal \cup {None}]
  BY DEF TypeOK
<1>1. CASE path = None
  BY <1>0, <1>1, NoneIsNoFile DEF RemovesJournal
<1>2. CASE path # None /\ journals' = [journals EXCEPT ![path] = None] /\ UNCHANGED failures
  BY <1>0, <1>2 DEF Files
<1>3. CASE path # None /\ journals' = Drained /\ FileFails
  <2>1. failures' \in Nat /\ failures' # 0
    BY <1>0, <1>3 DEF FileFails
  <2> QED
    BY <1>3, <2>1, DrainedFiles
<1> QED
  BY <1>1, <1>2, <1>3 DEF RemovesJournal

(* The recorder of a stopped session has recorded every event it was sent. *)
LEMMA StoppedType ==
    ASSUME TypeOK, StopRecorder
    PROVE  queue' \in Seq(Event) /\ recording' \in BOOLEAN /\ owed' \in Doc \cup {None}
<1>1. queue \in Seq(Event)
  BY DEF TypeOK, Event
<1>2. queue # << >> => Last(queue).doc \in Doc
  <2> SUFFICES ASSUME queue # << >> PROVE Last(queue) \in Event
    BY DEF Event
  <2> QED
    BY <1>1, FrontLast
<1>3. owed' \in Doc \cup {None}
  BY <1>2 DEF StopRecorder, TypeOK
<1> QED
  BY <1>3, EmptySeq DEF StopRecorder

(* Every step keeps the types.                                             *)
LEMMA NextType ==
    ASSUME TypeOK, OwnJournal, Next
    PROVE  TypeOK'
<1>1. CASE OpenProject \/ NewProject
  <2>1. NewHistory(saved, 0) \in History /\ NewHistory(Blank, 0) \in History
    BY NewHistoryType, JournalConstants DEF TypeOK
  <2> QED
    BY <1>1, <2>1 DEF OpenProject, NewProject, CreateSession, TypeOK, Phase
<1>2. ASSUME NEW n \in Name, RestorePending(n) PROVE TypeOK'
  <2>1. NewHistory(Recovered(journals[n]), 0) \in History
    BY <1>2, FileType, NewHistoryType DEF RestorePending, Recoverable
  <2>2. n.named \in BOOLEAN
    BY DEF Name
  <2> QED
    BY <1>2, <2>1, <2>2 DEF RestorePending, CreateSession, TypeOK, Phase
<1>3. ASSUME NEW n \in Name, DiscardPending(n) \/ ShelvePending(n) PROVE TypeOK'
  BY <1>3 DEF DiscardPending, ShelvePending, TypeOK, Phase
<1>4. CASE ConsumePending
  BY <1>4 DEF ConsumePending, TypeOK, Phase
<1>5. CASE ConsumePendingFails
  BY <1>5 DEF ConsumePendingFails, FileFails, TypeOK, Phase
<1>6. ASSUME NEW n \in Name, StartRecorder(n) PROVE TypeOK'
  <2>1. hist.document \in Doc
    BY DEF TypeOK, History
  <2>2. [format |-> build, initial |-> hist.document, commands |-> << >>] \in Journal
    BY <2>1, EmptySeq DEF Journal, TypeOK
  <2> QED
    BY <1>6, <2>1, <2>2 DEF StartRecorder, TypeOK, Phase
<1>7. ASSUME NEW n \in Name, StartRecorderFails(n) PROVE TypeOK'
  BY <1>7 DEF StartRecorderFails, FileFails, NextJournal, Allocatable, TypeOK, Phase
<1>8. ASSUME NEW cmd \in Commands, Edited(cmd) PROVE TypeOK'
  <2> DEFINE c == CanonicalCommand(cmd)
             h == Exec(hist, cmd)
  <2>1. cmd \in JournalCommand
    BY JournalConstants
  <2>2. c \in JournalCommand /\ h \in History
    BY <2>1, CanonicalCommandType, ExecType DEF TypeOK
  <2> HIDE DEF c, h
  <2>3. h.document \in Doc
    BY <2>2 DEF History
  <2> DEFINE e == [command |-> c, doc |-> h.document]
  <2>4. e \in Event
    BY <2>2, <2>3 DEF Event
  <2> HIDE DEF e
  <2>5. Append(queue, e) \in Seq(Event)
    BY <2>4, AppendProperties DEF TypeOK, Event
  <2>6. hist' = h /\ queue' \in {Append(queue, e), queue}
    BY <1>8 DEF Edited, c, h, e
  <2>7. queue' \in Seq(Event)
    BY <2>5, <2>6 DEF TypeOK, Event
  <2> QED
    BY <1>8, <2>2, <2>6, <2>7 DEF Edited, TypeOK, Event
<1>9. CASE RecordEvent
  <2> DEFINE e == Head(queue)
  <2>1. queue \in Seq(Event) /\ queue # << >>
    BY <1>9 DEF RecordEvent, TypeOK, Event
  <2>2. e \in Event /\ Tail(queue) \in Seq(Event)
    BY <2>1, HeadTailProperties
  <2>3. path \in Name /\ journals[path] # None
    BY <1>9 DEF RecordEvent, OwnJournal, OpenPhases
  <2>4. journals[path] \in Journal
    BY <2>3, FileType
  <2> HIDE DEF e
  <2>5. Appended(journals[path], <<e>>) \in Journal
    BY <2>2, <2>4, AppendedOne
  <2>6. journals' = [journals EXCEPT ![path] = Appended(journals[path], <<e>>)]
    BY <1>9 DEF RecordEvent, e
  <2>7. e.doc \in Doc
    BY <2>2 DEF Event
  <2> QED
    BY <1>9, <2>2, <2>3, <2>5, <2>6, <2>7 DEF RecordEvent, TypeOK, Event, e
<1>10. CASE RecordFails
  BY <1>10, EmptySeq DEF RecordFails, TypeOK
<1>11. CASE BeginSave
  BY <1>11 DEF BeginSave, TypeOK, Phase, History
<1>12. CASE WriteProject
  BY <1>12 DEF WriteProject, TypeOK, Phase
<1>13. CASE WriteProjectFails
  BY <1>13 DEF WriteProjectFails, FileFails, TypeOK, Phase
<1>14. CASE StopActive \/ StopForStudio
  <2>1. StopRecorder
    BY <1>14 DEF StopActive, StopForStudio
  <2>2. journals' \in [Name -> Journal \cup {None}]
    BY <2>1, DrainedFiles DEF StopRecorder
  <2> QED
    BY <1>14, <2>1, <2>2, StoppedType DEF StopActive, StopForStudio, TypeOK, Phase, Event, Files
<1>15. CASE RemoveJournal
  BY <1>15, RemovedFiles DEF RemoveJournal, TypeOK, Phase
<1>16. CASE Close
  <2>1. queue' \in Seq(Event) /\ hist' \in History
    BY <1>16, EmptySeq, NewHistoryType, JournalConstants DEF Close, EndSession
  <2>2. RemovesJournal /\ phase' \in Phase
    BY <1>16 DEF Close, Phase
  <2> QED
    BY <1>16, <2>1, <2>2, RemovedFiles DEF Close, EndSession, TypeOK, Event
<1>17. CASE Crash
  <2>1. queue' \in Seq(Event) /\ hist' \in History
    BY <1>17, EmptySeq, NewHistoryType, JournalConstants DEF Crash, EndSession
  <2>2. phase' \in Phase /\ crashes' \in Nat
    BY <1>17 DEF Crash, Phase, TypeOK
  <2> QED
    BY <1>17, <2>1, <2>2 DEF Crash, EndSession, TypeOK, Event
<1>18. CASE StudioActivated
  BY <1>18 DEF StudioActivated, TypeOK, Phase
<1>19. CASE StudioRefused
  BY <1>19 DEF StudioRefused, TypeOK, Phase
<1>20. CASE Launch
  BY <1>20 DEF Launch, TypeOK, Phase, Files
<1> QED
  BY <1>1, <1>2, <1>3, <1>4, <1>5, <1>6, <1>7, <1>8, <1>9, <1>10, <1>11, <1>12, <1>13, <1>14, <1>15, <1>16, <1>17, <1>18, <1>19, <1>20 DEF Next

(* Every step keeps the ownership of the files.                            *)
LEMMA NextOwn ==
    ASSUME TypeOK, OwnJournal, Next
    PROVE  OwnJournal'
<1>1. CASE OpenProject \/ NewProject
  <2>1. NewHistory(saved, 0).document = saved /\ NewHistory(Blank, 0).document = Blank
    BY DEF NewHistory
  <2> QED
    BY <1>1, <2>1 DEF OpenProject, NewProject, CreateSession, OwnJournal, OpenPhases
<1>2. ASSUME NEW n \in Name, RestorePending(n) PROVE OwnJournal'
  <2>1. NewHistory(Recovered(journals[n]), 0).document = Recovered(journals[n])
    BY DEF NewHistory
  <2> QED
    BY <1>2, <2>1 DEF RestorePending, CreateSession, Recoverable, OwnJournal, OpenPhases
<1>3. ASSUME NEW n \in Name, DiscardPending(n) \/ ShelvePending(n) PROVE OwnJournal'
  BY <1>3, NoneIsNoFile DEF DiscardPending, ShelvePending, DialogOpen, OwnJournal, OpenPhases, TypeOK
<1>4. CASE ConsumePending
  BY <1>4, NoneIsNoFile DEF ConsumePending, OwnJournal, OpenPhases, TypeOK
<1>5. CASE ConsumePendingFails
  BY <1>5 DEF ConsumePendingFails, FileFails, OwnJournal, OpenPhases, TypeOK
<1>6. ASSUME NEW n \in Name, StartRecorder(n) PROVE OwnJournal'
  <2>1. [format |-> build, initial |-> hist.document, commands |-> << >>] \in Journal
    BY EmptySeq DEF Journal, TypeOK, History
  <2>2. journals'[n] # None
    BY <1>6, <2>1, NoneIsNoFile DEF StartRecorder, TypeOK
  <2>3. n \in Name \ pending /\ path' = n
    BY <1>6 DEF StartRecorder, NextJournal, Allocatable
  <2> QED
    BY <1>6, <2>2, <2>3 DEF StartRecorder, OwnJournal, OpenPhases
<1>7. ASSUME NEW n \in Name, StartRecorderFails(n) PROVE OwnJournal'
  BY <1>7, NoneIsNoFile DEF StartRecorderFails, FileFails, NextJournal, Allocatable, OwnJournal, OpenPhases, TypeOK
<1>8. ASSUME NEW cmd \in Commands, Edited(cmd) PROVE OwnJournal'
  BY <1>8 DEF Edited, SessionOpen, OwnJournal, OpenPhases
<1>9. CASE RecordEvent
  <2>1. path \in Name /\ journals[path] # None
    BY <1>9 DEF RecordEvent, OwnJournal, OpenPhases
  <2>2. journals'[path] # None
    <3>1. queue \in Seq(Event) /\ queue # << >>
      BY <1>9 DEF RecordEvent, TypeOK, Event
    <3>2. <<Head(queue)>> \in Seq(Event) /\ journals[path] \in Journal
      BY <2>1, <3>1, HeadTailProperties, FileType
    <3>3. Appended(journals[path], <<Head(queue)>>) \in Journal
      BY <3>2, AppendedType
    <3> QED
      BY <1>9, <2>1, <3>3, NoneIsNoFile DEF RecordEvent, TypeOK
  <2> QED
    BY <1>9, <2>1, <2>2 DEF RecordEvent, OwnJournal, OpenPhases
<1>10. CASE RecordFails
  BY <1>10 DEF RecordFails, OwnJournal, OpenPhases, TypeOK
<1>11. CASE BeginSave
  BY <1>11 DEF BeginSave, OwnJournal, OpenPhases, TypeOK
<1>12. CASE WriteProject
  BY <1>12 DEF WriteProject, OwnJournal, OpenPhases, TypeOK
<1>13. CASE WriteProjectFails
  BY <1>13 DEF WriteProjectFails, FileFails, OwnJournal, OpenPhases, TypeOK
<1>14. CASE StopActive \/ StopForStudio
  BY <1>14 DEF StopActive, StopForStudio, StopRecorder, OwnJournal, OpenPhases
<1>15. CASE RemoveJournal
  BY <1>15, RemovedFiles DEF RemoveJournal, OwnJournal, OpenPhases
<1>16. CASE Close
  BY <1>16 DEF Close, EndSession, OwnJournal, OpenPhases
<1>17. CASE Crash
  BY <1>17 DEF Crash, EndSession, OwnJournal, OpenPhases
<1>18. CASE StudioActivated
  BY <1>18 DEF StudioActivated, OwnJournal, OpenPhases
<1>19. CASE StudioRefused
  BY <1>19 DEF StudioRefused, OwnJournal, OpenPhases, TypeOK
<1>20. CASE Launch
  BY <1>20 DEF Launch, OwnJournal, OpenPhases, TypeOK
<1> QED
  BY <1>1, <1>2, <1>3, <1>4, <1>5, <1>6, <1>7, <1>8, <1>9, <1>10, <1>11, <1>12, <1>13, <1>14, <1>15, <1>16, <1>17, <1>18, <1>19, <1>20 DEF Next

(* Every step leaves no orphan: a file is removed, or becomes the          *)
(* session's own, before its name is given up.                             *)
LEMMA NextTidy ==
    ASSUME JournalInv, Next
    PROVE  Tidy' /\ NoOrphanJournal'
<1> USE DEF JournalInv
<1>1. CASE OpenProject \/ NewProject
  BY <1>1 DEF OpenProject, NewProject, CreateSession, Tidy, NoOrphanJournal, SetAside, Files, TypeOK, OwnJournal, OpenPhases
<1>2. ASSUME NEW n \in Name, RestorePending(n) PROVE Tidy' /\ NoOrphanJournal'
  BY <1>2 DEF RestorePending, CreateSession, Tidy, NoOrphanJournal, SetAside, Files, TypeOK, OwnJournal, OpenPhases
<1>3. ASSUME NEW n \in Name, DiscardPending(n) \/ ShelvePending(n) PROVE Tidy' /\ NoOrphanJournal'
  BY <1>3 DEF DiscardPending, ShelvePending, DialogOpen, Tidy, NoOrphanJournal, SetAside, Files, TypeOK, OwnJournal, OpenPhases
<1>4. CASE ConsumePending
  BY <1>4 DEF ConsumePending, Tidy, NoOrphanJournal, SetAside, Files, TypeOK, OwnJournal, OpenPhases
<1>5. CASE ConsumePendingFails
  BY <1>5 DEF ConsumePendingFails, FileFails, Tidy, NoOrphanJournal, SetAside, Files, TypeOK, OwnJournal, OpenPhases
<1>6. ASSUME NEW n \in Name, StartRecorder(n) PROVE Tidy' /\ NoOrphanJournal'
  <2>1. \A m \in Name : m # n => journals'[m] = journals[m]
    BY <1>6 DEF StartRecorder, TypeOK
  <2> QED
    BY <1>6, <2>1 DEF StartRecorder, Tidy, NoOrphanJournal, SetAside, Files
<1>7. ASSUME NEW n \in Name, StartRecorderFails(n) PROVE Tidy' /\ NoOrphanJournal'
  BY <1>7, NoneIsNoFile DEF StartRecorderFails, FileFails, NextJournal, Allocatable, Tidy, NoOrphanJournal, SetAside, Files, TypeOK, OwnJournal, OpenPhases
<1>8. ASSUME NEW cmd \in Commands, Edited(cmd) PROVE Tidy' /\ NoOrphanJournal'
  BY <1>8 DEF Edited, SessionOpen, Tidy, NoOrphanJournal, SetAside, Files, TypeOK, OwnJournal, OpenPhases
<1>9. CASE RecordEvent
  <2>1. path \in Name /\ phase \in {"Editing", "Saving", "Saved"} /\ phase' = phase
    BY <1>9, NoneIsNoFile DEF RecordEvent, OwnJournal, OpenPhases
  <2>2. \A m \in Name : m # path => journals'[m] = journals[m]
    BY <1>9 DEF RecordEvent, TypeOK
  <2> QED
    BY <1>9, <2>1, <2>2 DEF RecordEvent, Tidy, NoOrphanJournal, SetAside, Files
<1>10. CASE RecordFails
  BY <1>10 DEF RecordFails, Tidy, NoOrphanJournal, SetAside, Files, TypeOK, OwnJournal, OpenPhases
<1>11. CASE BeginSave
  BY <1>11 DEF BeginSave, Tidy, NoOrphanJournal, SetAside, Files, TypeOK, OwnJournal, OpenPhases
<1>12. CASE WriteProject
  BY <1>12 DEF WriteProject, Tidy, NoOrphanJournal, SetAside, Files, TypeOK, OwnJournal, OpenPhases
<1>13. CASE WriteProjectFails
  BY <1>13 DEF WriteProjectFails, FileFails, Tidy, NoOrphanJournal, SetAside, Files, TypeOK, OwnJournal, OpenPhases
<1>14. CASE StopActive \/ StopForStudio
  <2>1. StopRecorder
    BY <1>14 DEF StopActive, StopForStudio
  <2>2. Files' = Files /\ \A n \in Files : journals'[n].format = journals[n].format
    BY <2>1, DrainedFiles DEF StopRecorder, Files
  <2> QED
    BY <1>14, <2>2 DEF StopActive, StopForStudio, Tidy, NoOrphanJournal, SetAside
<1>15. CASE RemoveJournal
  <2>1. path # None
    BY <1>15, NoneIsNoFile DEF RemoveJournal, OwnJournal, OpenPhases
  <2>2. \A n \in Files : n # path => journals'[n] = journals[n]
    BY <1>15, RemovedFiles DEF RemoveJournal, Files
  <2>3. failures' = 0 => failures = 0 /\ \A n \in Files' : n # path /\ n \in Files
    BY <1>15, <2>1, RemovedFiles DEF RemoveJournal
  <2> QED
    BY <1>15, <2>2, <2>3 DEF RemoveJournal, Tidy, NoOrphanJournal, SetAside
<1>16. CASE Close
  <2>1. \A n \in Files : n # path => journals'[n] = journals[n]
    BY <1>16, RemovedFiles DEF Close, Files
  <2>2. failures' = 0 => failures = 0 /\ \A n \in Files' : n # path /\ n \in Files
    <3>1. CASE path = None
      BY <1>16, <3>1, RemovedFiles, NoneIsNoFile DEF Close, Files
    <3>2. CASE path # None
      BY <1>16, <3>2, RemovedFiles DEF Close
    <3> QED
      BY <3>1, <3>2
  <2> QED
    BY <1>16, <2>1, <2>2 DEF Close, Tidy, NoOrphanJournal, SetAside
<1>17. CASE Crash
  BY <1>17 DEF Crash, Tidy, NoOrphanJournal, SetAside, Files, TypeOK, OwnJournal, OpenPhases
<1>18. CASE StudioActivated
  BY <1>18 DEF StudioActivated, Tidy, NoOrphanJournal, SetAside, Files
<1>19. CASE StudioRefused
  BY <1>19 DEF StudioRefused, Tidy, NoOrphanJournal, SetAside, Files
<1>20. CASE Launch
  BY <1>20 DEF Launch, Tidy, NoOrphanJournal, SetAside, Files, TypeOK, OwnJournal, OpenPhases
<1> QED
  BY <1>1, <1>2, <1>3, <1>4, <1>5, <1>6, <1>7, <1>8, <1>9, <1>10, <1>11, <1>12, <1>13, <1>14, <1>15, <1>16, <1>17, <1>18, <1>19, <1>20 DEF Next

(* A step that changes a file removes undecided crash data that is decided *)
(* by that step, or writes or removes the session's own journal.           *)
LEMMA NextKeeps ==
    ASSUME TypeOK, OwnJournal, Next
    PROVE  KeepsPending
<1>1. CASE OpenProject \/ NewProject
  BY <1>1 DEF OpenProject, NewProject, KeepsPending, Files, TypeOK, OwnJournal, OpenPhases
<1>2. ASSUME NEW n \in Name, RestorePending(n) PROVE KeepsPending
  BY <1>2 DEF RestorePending, KeepsPending, Files, TypeOK, OwnJournal, OpenPhases
<1>3. ASSUME NEW n \in Name, DiscardPending(n) \/ ShelvePending(n) PROVE KeepsPending
  BY <1>3 DEF DiscardPending, ShelvePending, KeepsPending, Files, TypeOK, OwnJournal, OpenPhases
<1>4. CASE ConsumePending
  BY <1>4 DEF ConsumePending, KeepsPending, Files, TypeOK, OwnJournal, OpenPhases
<1>5. CASE ConsumePendingFails
  BY <1>5 DEF ConsumePendingFails, FileFails, KeepsPending, Files, TypeOK, OwnJournal, OpenPhases
<1>6. ASSUME NEW n \in Name, StartRecorder(n) PROVE KeepsPending
  BY <1>6 DEF StartRecorder, NextJournal, Allocatable, KeepsPending, Files, TypeOK, OwnJournal, OpenPhases
<1>7. ASSUME NEW n \in Name, StartRecorderFails(n) PROVE KeepsPending
  BY <1>7 DEF StartRecorderFails, FileFails, NextJournal, Allocatable, KeepsPending, Files, TypeOK, OwnJournal, OpenPhases
<1>8. ASSUME NEW cmd \in Commands, Edited(cmd) PROVE KeepsPending
  BY <1>8 DEF Edited, SessionOpen, KeepsPending, Files, TypeOK, OwnJournal, OpenPhases
<1>9. CASE RecordEvent
  <2>1. \A m \in Name : m # path => journals'[m] = journals[m]
    BY <1>9 DEF RecordEvent, TypeOK
  <2>2. path \notin pending
    BY <1>9, NoneIsNoFile DEF RecordEvent, OwnJournal, OpenPhases, TypeOK
  <2> QED
    BY <1>9, <2>1, <2>2 DEF KeepsPending, Files
<1>10. CASE RecordFails
  BY <1>10 DEF RecordFails, KeepsPending, Files, TypeOK, OwnJournal, OpenPhases
<1>11. CASE BeginSave
  BY <1>11 DEF BeginSave, KeepsPending, Files, TypeOK, OwnJournal, OpenPhases
<1>12. CASE WriteProject
  BY <1>12 DEF WriteProject, KeepsPending, Files, TypeOK, OwnJournal, OpenPhases
<1>13. CASE WriteProjectFails
  BY <1>13 DEF WriteProjectFails, FileFails, KeepsPending, Files, TypeOK, OwnJournal, OpenPhases
<1>14. CASE StopActive \/ StopForStudio
  <2>1. \A m \in Name : m # path => journals'[m] = journals[m]
    BY <1>14, DrainedFiles DEF StopActive, StopForStudio, StopRecorder
  <2>2. path \notin pending
    BY <1>14 DEF StopActive, StopForStudio, OwnJournal, OpenPhases
  <2> QED
    BY <2>1, <2>2 DEF KeepsPending, Files
<1>15. CASE RemoveJournal \/ Close
  <2>1. RemovesJournal
    BY <1>15 DEF RemoveJournal, Close
  <2>2. \A m \in Name : m # path => journals'[m] = journals[m]
    BY <2>1, RemovedFiles
  <2>3. path \notin pending
    BY <1>15, NoneIsNoFile DEF RemoveJournal, Close, OwnJournal, OpenPhases, TypeOK
  <2> QED
    BY <2>2, <2>3 DEF KeepsPending, Files
<1>16. CASE StudioActivated \/ StudioRefused
  BY <1>16 DEF StudioActivated, StudioRefused, KeepsPending
<1>17. CASE Crash
  BY <1>17 DEF Crash, KeepsPending, Files, TypeOK, OwnJournal, OpenPhases
<1>18. CASE Launch
  BY <1>18 DEF Launch, KeepsPending, Files, TypeOK, OwnJournal, OpenPhases
<1> QED
  BY <1>1, <1>2, <1>3, <1>4, <1>5, <1>6, <1>7, <1>8, <1>9, <1>10, <1>11, <1>12, <1>13, <1>14, <1>15, <1>16, <1>17, <1>18 DEF Next

(* The inductive invariant of the files holds in every reachable state.    *)
LEMMA JournalInvariant == Spec => []JournalInv
<1>1. Init => JournalInv
  <2> SUFFICES ASSUME Init PROVE JournalInv
    OBVIOUS
  <2>1. hist \in History /\ saved \in Doc
    BY NewHistoryType, JournalConstants DEF Init
  <2>2. queue \in Seq(Event)
    BY EmptySeq DEF Init
  <2>3. TypeOK
    <3>1. /\ journals \in [Name -> Journal \cup {None}] /\ phase \in Phase
          /\ recording \in BOOLEAN /\ named \in BOOLEAN /\ build \in Format
      BY DEF Init, Phase
    <3>2. {saves, activations, refusals, crashes, failures} \subseteq Nat
      BY DEF Init
    <3>3. path = None /\ restoring = None /\ owed = None /\ pending = {} /\ preserved = {} /\ to_write \in Doc
      BY <2>1 DEF Init
    <3> QED
      BY <2>1, <2>2, <3>1, <3>2, <3>3 DEF TypeOK, Event
  <2>4. OwnJournal
    BY DEF Init, OwnJournal, OpenPhases
  <2>5. Tidy /\ NoOrphanJournal
    BY DEF Init, Tidy, NoOrphanJournal, Files
  <2> QED
    BY <2>3, <2>4, <2>5 DEF JournalInv
<1>2. JournalInv /\ [Next]_vars => JournalInv'
  <2> SUFFICES ASSUME JournalInv, [Next]_vars PROVE JournalInv'
    OBVIOUS
  <2>1. CASE Next
    BY <2>1, NextType, NextOwn, NextTidy DEF JournalInv
  <2>2. CASE UNCHANGED vars
    BY <2>2 DEF vars, JournalInv, TypeOK, OwnJournal, Tidy, NoOrphanJournal, SetAside, Files
  <2> QED
    BY <2>1, <2>2
<1> QED
  BY <1>1, <1>2, PTL DEF Spec

(* Every variable of the app thread and its recorder holds a value of its  *)
(* Rust type, in every reachable state.                                    *)
THEOREM TypeCorrect == Spec => []TypeOK
<1>1. JournalInv => TypeOK
  BY DEF JournalInv
<1> QED
  BY <1>1, JournalInvariant, PTL

(* No journal outlives its purpose while the app runs and no file          *)
(* operation failed, whatever was saved, restored, discarded or crashed.   *)
THEOREM NoOrphanCorrect == Spec => []NoOrphanJournal
<1>1. JournalInv => NoOrphanJournal
  BY DEF JournalInv
<1> QED
  BY <1>1, JournalInvariant, PTL

(* Undecided crash data is touched only by the step that decides it, and   *)
(* any other file only by the session that owns it.                        *)
THEOREM PendingCorrect == Spec => PendingKept
<1>1. JournalInv /\ [Next]_vars => [KeepsPending]_vars
  BY NextKeeps DEF JournalInv
<1>2. Spec => [][KeepsPending]_vars
  BY <1>1, JournalInvariant, PTL DEF Spec
<1> QED
  BY <1>2 DEF PendingKept, KeepsPending

-----------------------------------------------------------------------------
(* Clients that only edit send no Undo and no Redo.                        *)
OnlyEdits == Commands \subseteq Edits

(* The recorder's replay g follows the Core h: edits need only the         *)
(* document, an Undo or a Redo needs the stacks too.                       *)
Follows(g, h) == g.document = h.document /\ (OnlyEdits \/ SameStacks(g, h))

(* A replay that has run every command so far.                             *)
Undamaged == {r \in RecoveryReport : ~ r.damaged}

(* What a session's Core knows of the past, its journal's header does not: *)
(* a save and a refused Studio activation restart the journal.             *)
Restarted == saves > 0 \/ refusals > 0

(* Until the first restart, and for clients that only edit at any time,    *)
(* the recorder follows the Core: from what the journal replays to, each   *)
(* queued event leads to the document it was sent with, and the last one   *)
(* to the live history.                                                    *)
Streamed ==
    recording /\ (~ Restarted \/ OnlyEdits) =>
        \E trail \in [0 .. Len(queue) -> Undamaged] :
            /\ trail[0] = Inspected(journals[path])
            /\ trail[0].history.document = owed
            /\ \A k \in 1 .. Len(queue) :
                  /\ trail[k] = RecoverStep(trail[k - 1], queue[k].command)
                  /\ trail[k].history.document = queue[k].doc
            /\ Follows(trail[Len(queue)].history, hist)

(* Until the first save or failure, the last recorded document stays       *)
(* recoverable: from the session's own journal, or from some file once the *)
(* session is gone or its journal was left for Studio.                     *)
Kept ==
    saves = 0 /\ failures = 0 /\ (~ Restarted \/ OnlyEdits) /\ owed # None =>
        IF path # None
        THEN journals[path] # None /\ Recovered(journals[path]) = owed
        ELSE \E n \in Files : Recovered(journals[n]) = owed

RecordedInv == JournalInv /\ Streamed /\ Kept

(* A command does to the replay what it does to the live history.          *)
LEMMA FollowsExec ==
    ASSUME NEW g \in History, NEW h \in History, NEW cmd \in JournalCommand,
           OnlyEdits => cmd.type \notin {"Undo", "Redo"},
           Follows(g, h), Accepts(h, CanonicalCommand(cmd))
    PROVE  Accepts(g, CanonicalCommand(cmd)) /\ Follows(Exec(g, cmd), Exec(h, cmd))
<1>1. CASE SameStacks(g, h)
  BY <1>1, ExecSame DEF Follows, SameStacks
<1>2. CASE OnlyEdits
  <2> DEFINE c == CanonicalCommand(cmd)
  <2>1. c \in JournalCommand /\ c.type = cmd.type /\ c.type \notin {"Undo", "Redo"}
    BY <1>2, CanonicalCommandType
  <2> HIDE DEF c
  <2>2. g.document = h.document /\ Accepts(g, c) /\ Accepts(h, c)
    BY DEF Follows, Accepts, c
  <2>3. ASSUME NEW x \in History, Accepts(x, c)
        PROVE  Exec(x, cmd).document = ApplyBatch(x.document, c.ops)
    <3>1. Exec(x, cmd) = Record(Edit(x, c), c)
      BY <2>1, <2>3 DEF Exec, Applied, c
    <3>2. Edit(x, c) \in History
      BY <2>1, <2>3, EditType DEF Accepts
    <3>3. Record(Edit(x, c), c).document = Edit(x, c).document
      BY <3>2 DEF Record, History
    <3>4. Edit(x, c).document = ApplyBatch(x.document, c.ops)
      BY DEF Edit, History
    <3> QED
      BY <3>1, <3>3, <3>4
  <2>4. Exec(g, cmd).document = Exec(h, cmd).document
    BY <2>2, <2>3
  <2> QED
    BY <1>2, <2>2, <2>4 DEF Follows, c
<1> QED
  BY <1>1, <1>2 DEF Follows

(* attach_owned starts the recorder with an empty queue, before the first  *)
(* restart on a new Core and after it on the Core as it is.                *)
LEMMA StreamedStart ==
    ASSUME JournalInv, NEW n \in Name, StartRecorder(n)
    PROVE  Streamed'
<1> SUFFICES ASSUME ~ Restarted \/ OnlyEdits PROVE Streamed'
  BY DEF StartRecorder, Streamed, Restarted
<1> DEFINE doc == hist.document
           file == [format |-> build, initial |-> doc, commands |-> << >>]
           fresh == NewReport(doc)
           trail == [k \in 0 .. 0 |-> fresh]
<1>1. queue = << >> /\ (~ Restarted => hist = NewHistory(doc, 0))
  BY DEF StartRecorder, JournalInv, OwnJournal, Restarted
<1>2. doc \in Doc
  BY DEF JournalInv, TypeOK, History
<1>3. journals'[path'] = file /\ owed' = doc /\ queue' = queue /\ hist' = hist
  BY DEF StartRecorder, JournalInv, TypeOK
<1>4. Inspected(file) = fresh
  BY RecoverEmpty DEF Inspected
<1>5. /\ fresh \in Undamaged /\ fresh.history.document = doc
      /\ fresh.history = NewHistory(doc, 0)
  BY <1>2, NewReportType DEF Undamaged
<1> HIDE DEF file, fresh
<1>6. trail \in [0 .. 0 -> Undamaged] /\ trail[0] = fresh
  BY <1>5
<1>7. Follows(fresh.history, hist)
  BY <1>1, <1>5 DEF Follows, SameStacks
<1> HIDE DEF trail, doc
<1>8. Len(queue') = 0
  BY <1>1, <1>3, EmptySeq
<1>9. /\ trail[0] = Inspected(journals'[path'])
      /\ trail[0].history.document = owed'
      /\ Follows(trail[0].history, hist')
  BY <1>3, <1>4, <1>5, <1>6, <1>7
<1> QED
  BY <1>6, <1>8, <1>9 DEF Streamed

(* An accepted command reaches the live history and the end of the trail   *)
(* alike, so the trail grows by the document the event carries.            *)
LEMMA StreamedEdited ==
    ASSUME JournalInv, Streamed, NEW cmd \in Commands, Edited(cmd)
    PROVE  Streamed'
<1> SUFFICES ASSUME recording, ~ Restarted \/ OnlyEdits PROVE Streamed'
  BY DEF Edited, Streamed, Restarted
<1> DEFINE c == CanonicalCommand(cmd)
           h == Exec(hist, cmd)
           e == [command |-> c, doc |-> h.document]
           N == Len(queue)
<1>1. cmd \in JournalCommand /\ hist \in History /\ queue \in Seq(Event)
  BY JournalConstants DEF JournalInv, TypeOK, Event
<1>2. c \in JournalCommand /\ h \in History /\ Accepts(hist, c)
  BY <1>1, CanonicalCommandType, ExecType DEF Edited
<1>3. PICK trail \in [0 .. N -> Undamaged] :
            /\ trail[0] = Inspected(journals[path])
            /\ trail[0].history.document = owed
            /\ \A k \in 1 .. N :
                  /\ trail[k] = RecoverStep(trail[k - 1], queue[k].command)
                  /\ trail[k].history.document = queue[k].doc
            /\ Follows(trail[N].history, hist)
  BY DEF Streamed
<1>4. N \in Nat /\ e \in Event
  BY <1>1, <1>2, LenProperties DEF Event, History
<1>5. hist' = h /\ queue' = Append(queue, e) /\ UNCHANGED <<journals, path, owed>>
  BY DEF Edited
<1> HIDE DEF e, N
<1>6. /\ Len(queue') = N + 1
      /\ queue'[N + 1] = e
      /\ \A k \in 1 .. N : queue'[k] = queue[k]
  BY <1>1, <1>4, <1>5, AppendProperties DEF N
<1> DEFINE g == trail[N]
           x == RecoverStep(g, c)
           longer == [k \in 0 .. N + 1 |-> IF k = N + 1 THEN x ELSE trail[k]]
<1>7. g \in Undamaged /\ g.history \in History /\ Follows(g.history, hist)
  BY <1>3, <1>4 DEF Undamaged, RecoveryReport
<1> HIDE DEF c, h, g
<1>8. x \in Undamaged /\ Follows(x.history, h)
  <2>1. CanonicalCommand(c) = c
    BY <1>1, CanonicalOnce DEF c
  <2>2. Accepts(hist, CanonicalCommand(c))
    BY <1>2, <2>1
  <2>3. Accepts(g.history, CanonicalCommand(c)) /\ Follows(Exec(g.history, c), Exec(hist, c))
    <3>1. OnlyEdits => c.type \notin {"Undo", "Redo"}
      BY <1>1, CanonicalCommandType DEF OnlyEdits, Edits, DoBatch, DoBatchCoalesced, c
    <3> QED
      BY <1>1, <1>2, <1>7, <2>2, <3>1, FollowsExec
  <2>4. Exec(hist, c) = h
    BY <1>1, <1>2, ExecBatch DEF c, h
  <2>5. x = [g EXCEPT !.history = Exec(g.history, c)]
    BY <1>7, <2>1, <2>3 DEF RecoverStep, Undamaged
  <2>6. Exec(g.history, c) \in History
    BY <1>2, <1>7, ExecType
  <2>7. x \in Undamaged /\ x.history = Exec(g.history, c)
    BY <1>7, <2>5, <2>6 DEF Undamaged, RecoveryReport
  <2> QED
    BY <2>3, <2>4, <2>7
<1> HIDE DEF x
<1>9. e.command = c /\ e.doc = h.document
  BY DEF e
<1>10. longer \in [0 .. N + 1 -> Undamaged] /\ longer[N + 1] = x /\ \A k \in 0 .. N : longer[k] = trail[k]
  BY <1>4, <1>8
<1> HIDE DEF longer
<1>11. longer[0] = trail[0]
  BY <1>4, <1>10
<1>12. x.history.document = h.document
  BY <1>8 DEF Follows
<1>13. ASSUME NEW k \in 1 .. N + 1
       PROVE  /\ longer[k] = RecoverStep(longer[k - 1], queue'[k].command)
              /\ longer[k].history.document = queue'[k].doc
  <2>1. CASE k = N + 1
    <3>1. longer[k - 1] = g /\ k - 1 = N
      BY <1>4, <1>10, <2>1 DEF g
    <3> QED
      BY <1>6, <1>9, <1>10, <1>12, <2>1, <3>1 DEF x
  <2>2. CASE k # N + 1
    <3>1. k \in 1 .. N /\ k - 1 \in 0 .. N /\ k \in 0 .. N
      BY <1>4, <2>2
    <3> QED
      BY <1>3, <1>6, <1>10, <3>1
  <2> QED
    BY <2>1, <2>2
<1>14. Follows(longer[N + 1].history, hist')
  BY <1>5, <1>8, <1>10
<1> QED
  BY <1>3, <1>5, <1>6, <1>10, <1>11, <1>13, <1>14 DEF Streamed

(* The recorder moves one step along the trail.                            *)
LEMMA StreamedRecord ==
    ASSUME JournalInv, Streamed, RecordEvent
    PROVE  /\ Streamed'
           /\ ~ Restarted \/ OnlyEdits =>
                 journals'[path] # None /\ Recovered(journals'[path]) = owed'
<1> SUFFICES ASSUME ~ Restarted \/ OnlyEdits
             PROVE  Streamed' /\ journals'[path] # None /\ Recovered(journals'[path]) = owed'
  BY DEF RecordEvent, Streamed, Restarted
<1> DEFINE e == Head(queue)
           N == Len(queue)
           file == journals[path]
           after == Appended(file, <<e>>)
<1>1. queue \in Seq(Event) /\ queue # << >> /\ recording
  BY DEF RecordEvent, JournalInv, TypeOK, Event
<1>2. path \in Name /\ journals[path] # None
  BY NoneIsNoFile DEF RecordEvent, JournalInv, OwnJournal, OpenPhases
<1>3. file \in Journal /\ file.initial \in Doc /\ file.commands \in Seq(JournalCommand)
  <2>1. file \in Journal
    BY <1>2, FileType DEF JournalInv
  <2> QED
    BY <2>1 DEF Journal
<1>4. /\ e \in Event /\ e = queue[1]
      /\ N \in Nat \ {0}
      /\ Tail(queue) \in Seq(Event) /\ Len(Tail(queue)) = N - 1
      /\ \A k \in 1 .. N - 1 : Tail(queue)[k] = queue[k + 1]
  BY <1>1, HeadTailProperties, LenProperties
<1>5. PICK trail \in [0 .. N -> Undamaged] :
            /\ trail[0] = Inspected(file)
            /\ trail[0].history.document = owed
            /\ \A k \in 1 .. N :
                  /\ trail[k] = RecoverStep(trail[k - 1], queue[k].command)
                  /\ trail[k].history.document = queue[k].doc
            /\ Follows(trail[N].history, hist)
  BY <1>1 DEF Streamed
<1>6. /\ journals' = [journals EXCEPT ![path] = after]
      /\ owed' = e.doc /\ queue' = Tail(queue) /\ UNCHANGED <<path, hist>>
  BY DEF RecordEvent
<1> HIDE DEF e, N, file, after
<1>7. after \in Journal /\ after.initial = file.initial /\ after.commands = Append(file.commands, e.command)
  BY <1>3, <1>4, AppendedOne DEF after
<1>8. journals'[path] = after /\ after # None
  BY <1>2, <1>6, <1>7, NoneIsNoFile DEF JournalInv, TypeOK
<1>9. trail[1] = RecoverStep(trail[0], e.command) /\ trail[1].history.document = e.doc
  <2>1. 1 \in 1 .. N /\ 1 - 1 = 0
    BY <1>4
  <2> QED
    BY <1>4, <1>5, <2>1
<1>10. Inspected(after) = trail[1]
  <2>1. e.command \in JournalCommand
    BY <1>4 DEF Event
  <2>2. ReplayJournal(file.initial, Append(file.commands, e.command))
          = RecoverStep(ReplayJournal(file.initial, file.commands), e.command)
    BY <1>3, <2>1, RecoverAppend
  <2> QED
    BY <1>5, <1>7, <1>9, <2>2 DEF Inspected
<1> DEFINE rest == [k \in 0 .. N - 1 |-> trail[k + 1]]
<1>11. rest \in [0 .. N - 1 -> Undamaged] /\ \A k \in 0 .. N - 1 : rest[k] = trail[k + 1]
  BY <1>4
<1> HIDE DEF rest
<1>12. rest[0] = trail[1] /\ rest[N - 1] = trail[N]
  BY <1>4, <1>11
<1>13. ASSUME NEW k \in 1 .. N - 1
       PROVE  /\ rest[k] = RecoverStep(rest[k - 1], queue'[k].command)
              /\ rest[k].history.document = queue'[k].doc
  <2>1. k + 1 \in 1 .. N /\ (k + 1) - 1 = k /\ k \in 0 .. N - 1 /\ k - 1 \in 0 .. N - 1 /\ (k - 1) + 1 = k
    BY <1>4
  <2>2. rest[k] = trail[k + 1] /\ rest[k - 1] = trail[k]
    BY <1>11, <2>1
  <2>3. queue'[k] = queue[k + 1]
    BY <1>4, <1>6
  <2> QED
    BY <1>5, <2>1, <2>2, <2>3
<1>14. Len(queue') = N - 1
  BY <1>4, <1>6
<1>15. Recovered(journals'[path]) = owed'
  BY <1>6, <1>8, <1>9, <1>10 DEF Recovered
<1>16. /\ rest[0] = Inspected(journals'[path'])
       /\ rest[0].history.document = owed'
       /\ Follows(rest[N - 1].history, hist')
  BY <1>5, <1>6, <1>8, <1>9, <1>10, <1>12
<1>17. Streamed'
  BY <1>11, <1>13, <1>14, <1>16 DEF Streamed
<1> QED
  BY <1>8, <1>15, <1>17

(* Appending to the second part appends to the whole.                      *)
LEMMA AppendAfter ==
    ASSUME NEW S, NEW s \in Seq(S), NEW u \in Seq(S), NEW c \in S
    PROVE  s \o Append(u, c) = Append(s \o u, c) /\ s \o u \in Seq(S)
<1>1. <<c>> \in Seq(S) /\ s \o u \in Seq(S)
  BY ConcatProperties
<1>2. Append(u, c) = u \o <<c>> /\ Append(s \o u, c) = (s \o u) \o <<c>>
  BY <1>1, AppendIsConcat
<1> QED
  BY <1>1, <1>2, ConcatAssociative

(* A recorder that stops writes the whole queue, so its journal replays to *)
(* the last event it was sent.                                             *)
LEMMA StreamedStop ==
    ASSUME JournalInv, Streamed, StopRecorder, recording, ~ Restarted \/ OnlyEdits
    PROVE  path \in Name /\ journals'[path] # None /\ Recovered(journals'[path]) = owed'
<1> DEFINE N == Len(queue)
           file == journals[path]
           more == [i \in DOMAIN queue |-> queue[i].command]
           part(k) == SubSeq(more, 1, k)
           R(k) == ReplayJournal(file.initial, file.commands \o part(k))
<1>1. queue \in Seq(Event) /\ N \in Nat /\ DOMAIN queue = 1 .. N
  BY LenProperties DEF JournalInv, TypeOK, Event
<1>2. path \in Name /\ journals[path] # None
  BY NoneIsNoFile DEF JournalInv, OwnJournal, OpenPhases
<1>3. file \in Journal /\ file.initial \in Doc /\ file.commands \in Seq(JournalCommand)
  <2>1. file \in Journal
    BY <1>2, FileType DEF JournalInv
  <2> QED
    BY <2>1 DEF Journal
<1>4. more \in Seq(JournalCommand) /\ Len(more) = N /\ \A k \in 1 .. N : more[k] = queue[k].command
  <2>1. \A k \in 1 .. N : queue[k] \in Event
    BY <1>1, ElementOfSeq
  <2>2. more \in [1 .. N -> JournalCommand]
    BY <1>1, <2>1 DEF Event
  <2>3. more \in Seq(JournalCommand)
    BY <1>1, <2>2, SeqDef
  <2> QED
    BY <1>1, <2>2, <2>3, LenProperties
<1>5. PICK trail \in [0 .. N -> Undamaged] :
            /\ trail[0] = Inspected(file)
            /\ trail[0].history.document = owed
            /\ \A k \in 1 .. N :
                  /\ trail[k] = RecoverStep(trail[k - 1], queue[k].command)
                  /\ trail[k].history.document = queue[k].doc
            /\ Follows(trail[N].history, hist)
  BY DEF Streamed
<1>6. journals'[path] = Appended(file, queue)
  BY <1>2 DEF StopRecorder, Drained, JournalInv, TypeOK
<1>7. /\ Appended(file, queue) \in Journal
      /\ Appended(file, queue).initial = file.initial
      /\ Appended(file, queue).commands = file.commands \o more
  <2>1. Appended(file, queue) = [file EXCEPT !.commands = file.commands \o more]
    BY DEF Appended
  <2> HIDE DEF more, file
  <2> QED
    BY <1>1, <1>3, <2>1, AppendedType DEF Journal
<1>8. owed' = IF N = 0 THEN owed ELSE queue[N].doc
  <2>1. N = 0 <=> queue = << >>
    BY <1>1, EmptySeq
  <2>2. queue # << >> => Last(queue) = queue[N]
    BY DEF Last
  <2> QED
    BY <2>1, <2>2 DEF StopRecorder
<1> HIDE DEF N, file, more
<1>9. R(0) = trail[0]
  <2>1. part(0) = << >>
    BY <1>4, Beginnings
  <2>2. file.commands \o << >> = file.commands
    BY <1>3, ConcatEmptySeq
  <2> QED
    BY <1>5, <2>1, <2>2 DEF Inspected
<1>10. ASSUME NEW k \in 1 .. N, R(k - 1) = trail[k - 1] PROVE R(k) = trail[k]
  <2>1. more[k] \in JournalCommand /\ k - 1 \in 0 .. N
    BY <1>1, <1>4, ElementOfSeq
  <2>2. part(k - 1) \in Seq(JournalCommand)
    BY <1>4, <2>1, PrefixLemma
  <2>3. part(k) = Append(part(k - 1), more[k])
    BY <1>4, Beginnings
  <2> HIDE DEF part
  <2>4. /\ file.commands \o part(k) = Append(file.commands \o part(k - 1), more[k])
        /\ file.commands \o part(k - 1) \in Seq(JournalCommand)
    <3> DEFINE s == file.commands
               u == part(k - 1)
               c == more[k]
    <3>1. s \in Seq(JournalCommand) /\ u \in Seq(JournalCommand) /\ c \in JournalCommand
      BY <1>3, <2>1, <2>2
    <3> HIDE DEF s, u, c
    <3>2. s \o Append(u, c) = Append(s \o u, c) /\ s \o u \in Seq(JournalCommand)
      BY <3>1, AppendAfter
    <3> QED
      BY <2>3, <3>2 DEF s, u, c
  <2>5. R(k) = RecoverStep(R(k - 1), more[k])
    BY <2>1, <2>4, RecoverAppend
  <2> QED
    BY <1>4, <1>5, <1>10, <2>5
<1>11. R(N) = trail[N]
  <2> DEFINE Bad == {k \in 0 .. N : R(k) # trail[k]}
  <2> SUFFICES ASSUME Bad # {} PROVE FALSE
    BY <1>1
  <2>1. Bad \in SUBSET Nat
    OBVIOUS
  <2>2. \A k \in Bad : k \in 0 .. N /\ R(k) # trail[k]
    OBVIOUS
  <2>3. \A k \in 0 .. N : k \notin Bad => R(k) = trail[k]
    OBVIOUS
  <2> HIDE DEF R, Bad
  <2>4. PICK k \in Bad : \A m \in Bad : k <= m
    BY <2>1, LeastNatural
  <2>5. k \in 1 .. N /\ k - 1 \in 0 .. N
    BY <1>1, <1>9, <2>2, <2>4
  <2>6. k - 1 \notin Bad
    BY <2>4, <2>5
  <2> QED
    BY <1>10, <2>2, <2>3, <2>4, <2>5, <2>6
<1>12. part(N) = more
  BY <1>1, <1>4, Beginnings
<1>13. Recovered(Appended(file, queue)) = trail[N].history.document
  BY <1>7, <1>11, <1>12 DEF Recovered, Inspected
<1>14. trail[N].history.document = owed'
  BY <1>1, <1>5, <1>8
<1> QED
  BY <1>2, <1>6, <1>7, <1>13, <1>14, NoneIsNoFile

(* Every step keeps the recorder and the Core together.                    *)
LEMMA NextStreamed ==
    ASSUME JournalInv, Streamed, Next
    PROVE  Streamed'
<1>1. CASE OpenProject \/ NewProject
  BY <1>1 DEF OpenProject, NewProject, CreateSession, Streamed, JournalInv, OwnJournal
<1>2. ASSUME NEW n \in Name, RestorePending(n) PROVE Streamed'
  BY <1>2 DEF RestorePending, CreateSession, Streamed, JournalInv, OwnJournal
<1>3. ASSUME NEW n \in Name, DiscardPending(n) \/ ShelvePending(n) PROVE Streamed'
  <2>1. \/ ~ recording'
        \/ UNCHANGED <<recording, path, queue, hist, owed, saves, refusals>> /\ journals'[path] = journals[path]
    BY <1>3, NoneIsNoFile DEF DiscardPending, ShelvePending, JournalInv, OwnJournal, OpenPhases, TypeOK
  <2> QED
    BY <2>1 DEF Streamed, Restarted
<1>4. CASE ConsumePending
  <2>1. \/ ~ recording'
        \/ UNCHANGED <<recording, path, queue, hist, owed, saves, refusals>> /\ journals'[path] = journals[path]
    BY <1>4 DEF ConsumePending, JournalInv, OwnJournal, OpenPhases, TypeOK
  <2> QED
    BY <2>1 DEF Streamed, Restarted
<1>5. CASE ConsumePendingFails
  BY <1>5 DEF ConsumePendingFails, Streamed, Restarted
<1>6. ASSUME NEW n \in Name, StartRecorder(n) PROVE Streamed'
  BY <1>6, StreamedStart
<1>7. ASSUME NEW n \in Name, StartRecorderFails(n) PROVE Streamed'
  BY <1>7 DEF StartRecorderFails, Streamed, JournalInv, OwnJournal
<1>8. ASSUME NEW cmd \in Commands, Edited(cmd) PROVE Streamed'
  BY <1>8, StreamedEdited
<1>9. CASE RecordEvent
  BY <1>9, StreamedRecord
<1>10. CASE RecordFails
  BY <1>10 DEF RecordFails, Streamed, Restarted
<1>11. CASE BeginSave
  <2>1. Restarted' /\ UNCHANGED <<recording, path, queue, hist, owed, journals>>
    BY <1>11 DEF BeginSave, Restarted, JournalInv, TypeOK
  <2> QED
    BY <2>1 DEF Streamed
<1>12. CASE WriteProject
  BY <1>12 DEF WriteProject, Streamed, Restarted
<1>13. CASE WriteProjectFails
  BY <1>13 DEF WriteProjectFails, Streamed, Restarted
<1>14. CASE StopActive \/ StopForStudio
  BY <1>14 DEF StopActive, StopForStudio, StopRecorder, Streamed
<1>15. CASE RemoveJournal
  BY <1>15 DEF RemoveJournal, Streamed, JournalInv, OwnJournal
<1>16. CASE Close
  BY <1>16 DEF Close, EndSession, Streamed
<1>17. CASE Crash
  BY <1>17 DEF Crash, EndSession, Streamed
<1>18. CASE StudioActivated \/ StudioRefused
  BY <1>18 DEF StudioActivated, StudioRefused, Streamed, JournalInv, OwnJournal
<1>19. CASE Launch
  BY <1>19 DEF Launch, Streamed, JournalInv, OwnJournal
<1> QED
  BY <1>1, <1>2, <1>3, <1>4, <1>5, <1>6, <1>7, <1>8, <1>9, <1>10, <1>11, <1>12, <1>13, <1>14, <1>15, <1>16, <1>17, <1>18, <1>19 DEF Next

(* Every step keeps the last recorded document recoverable.                *)
LEMMA NextKept ==
    ASSUME JournalInv, Streamed, Kept, Next
    PROVE  Kept'
<1>1. CASE OpenProject \/ NewProject
  BY <1>1 DEF OpenProject, NewProject, Kept
<1>2. ASSUME NEW n \in Name, RestorePending(n) PROVE Kept'
  BY <1>2 DEF RestorePending, Kept, Restarted, Files
<1>3. ASSUME NEW n \in Name, DiscardPending(n) PROVE Kept'
  <2>1. CASE recording
    <3>1. path \in Name \ pending /\ path # n /\ path # None
      BY <1>3, <2>1, NoneIsNoFile DEF DiscardPending, JournalInv, OwnJournal, OpenPhases
    <3>2. journals'[path] = journals[path] /\ UNCHANGED <<path, owed, saves, refusals, failures>>
      BY <1>3, <2>1, <3>1 DEF DiscardPending, JournalInv, TypeOK
    <3> QED
      BY <3>1, <3>2 DEF Kept, Restarted
  <2>2. CASE ~ recording
    BY <1>3, <2>2 DEF DiscardPending, Kept
  <2> QED
    BY <2>1, <2>2
<1>4. CASE ConsumePending
  <2>1. path \in Name \ pending /\ path # restoring /\ path # None
    BY <1>4, NoneIsNoFile DEF ConsumePending, JournalInv, OwnJournal, OpenPhases
  <2>2. journals'[path] = journals[path] /\ UNCHANGED <<path, owed, saves, refusals, failures>>
    BY <1>4, <2>1 DEF ConsumePending, JournalInv, TypeOK
  <2> QED
    BY <2>1, <2>2 DEF Kept, Restarted
<1>5. CASE ConsumePendingFails
  BY <1>5 DEF ConsumePendingFails, FileFails, Kept, JournalInv, TypeOK
<1>6. ASSUME NEW n \in Name, StartRecorder(n) PROVE Kept'
  <2> DEFINE file == [format |-> build, initial |-> hist.document, commands |-> << >>]
  <2>1. journals'[n] = file /\ path' = n /\ owed' = hist.document
    BY <1>6 DEF StartRecorder, JournalInv, TypeOK
  <2>2. hist.document \in Doc /\ file \in Journal
    BY EmptySeq DEF Journal, JournalInv, TypeOK, History
  <2>3. Recovered(file) = NewReport(hist.document).history.document
    BY RecoverEmpty DEF Recovered, Inspected
  <2> HIDE DEF file
  <2>4. file # None /\ n # None
    BY <2>2, NoneIsNoFile
  <2> QED
    BY <2>1, <2>2, <2>3, <2>4, NewReportType DEF Kept
<1>7. ASSUME NEW n \in Name, StartRecorderFails(n) PROVE Kept'
  <2>1. CASE path = None
    <3>1. journals[n] = None
      BY <1>7, <2>1, NoneIsNoFile DEF StartRecorderFails, NextJournal, Allocatable
    <3> QED
      BY <1>7, <3>1 DEF StartRecorderFails, FileFails, Kept, JournalInv, TypeOK
  <2>2. CASE path # None
    <3>1. saves > 0
      BY <1>7, <2>2 DEF StartRecorderFails, JournalInv, OwnJournal, OpenPhases
    <3> QED
      BY <1>7, <3>1 DEF StartRecorderFails, Kept, JournalInv, TypeOK
  <2> QED
    BY <2>1, <2>2
<1>8. ASSUME NEW cmd \in Commands, Edited(cmd) PROVE Kept'
  BY <1>8 DEF Edited, Kept, Restarted, Files
<1>9. CASE RecordEvent
  <2>1. path' = path /\ path # None
    BY <1>9, NoneIsNoFile DEF RecordEvent, JournalInv, OwnJournal, OpenPhases
  <2> QED
    BY <1>9, <2>1, StreamedRecord DEF RecordEvent, Kept, Restarted
<1>10. CASE RecordFails
  BY <1>10 DEF RecordFails, Kept, Restarted, Files
<1>11. CASE BeginSave
  BY <1>11 DEF BeginSave, Kept, JournalInv, TypeOK
<1>12. CASE WriteProject
  BY <1>12 DEF WriteProject, Kept, JournalInv, OwnJournal
<1>13. CASE WriteProjectFails
  BY <1>13 DEF WriteProjectFails, Kept, JournalInv, OwnJournal
<1>14. CASE StopActive
  BY <1>14 DEF StopActive, Kept, JournalInv, OwnJournal
<1>15. CASE RemoveJournal
  BY <1>15 DEF RemoveJournal, Kept, JournalInv, OwnJournal
<1>16. CASE Close
  BY <1>16 DEF Close, Kept
<1>17. CASE Crash
  <2> SUFFICES ASSUME saves = 0, failures = 0, ~ Restarted \/ OnlyEdits, owed # None
               PROVE  \E n \in Files : Recovered(journals[n]) = owed
    BY <1>17 DEF Crash, EndSession, Kept, Restarted, Files
  <2>1. CASE path # None
    <3>1. path \in Files /\ Recovered(journals[path]) = owed
      BY <2>1 DEF Kept, Files, JournalInv, TypeOK
    <3> QED
      BY <3>1
  <2>2. CASE path = None
    BY <2>2 DEF Kept
  <2> QED
    BY <2>1, <2>2
<1>18. CASE StopForStudio
  <2> SUFFICES ASSUME saves = 0, failures = 0, ~ Restarted \/ OnlyEdits, owed' # None
               PROVE  \E n \in Files' : Recovered(journals'[n]) = owed'
    BY <1>18 DEF StopForStudio, Kept, Restarted
  <2>1. StopRecorder /\ path \in Name /\ path # None
    BY <1>18, NoneIsNoFile DEF StopForStudio, JournalInv, OwnJournal, OpenPhases
  <2>2. journals'[path] # None /\ Recovered(journals'[path]) = owed'
    <3>1. CASE recording
      BY <2>1, <3>1, StreamedStop
    <3>2. CASE ~ recording
      <4>1. journals' = journals /\ owed' = owed
        BY <2>1, <3>2 DEF StopRecorder, Drained
      <4> QED
        BY <2>1, <4>1 DEF Kept
    <3> QED
      BY <3>1, <3>2
  <2> QED
    BY <2>1, <2>2 DEF Files
<1>19. ASSUME NEW n \in Name, ShelvePending(n) PROVE Kept'
  BY <1>19 DEF ShelvePending, Kept, Restarted, Files
<1>20. CASE StudioActivated \/ StudioRefused
  BY <1>20 DEF StudioActivated, StudioRefused, Kept, Restarted, Files, JournalInv, TypeOK
<1>21. CASE Launch
  BY <1>21 DEF Launch, Kept, Restarted, Files
<1> QED
  BY <1>1, <1>2, <1>3, <1>4, <1>5, <1>6, <1>7, <1>8, <1>9, <1>10, <1>11, <1>12, <1>13, <1>14, <1>15, <1>16, <1>17, <1>18, <1>19, <1>20, <1>21 DEF Next

(* The recorder follows the Core in every reachable state.                 *)
LEMMA RecordedInvariant == Spec => []RecordedInv
<1>1. Init => Streamed /\ Kept
  BY DEF Init, Streamed, Kept
<1>2. JournalInv /\ Streamed /\ Kept /\ [Next]_vars => Streamed' /\ Kept'
  <2> SUFFICES ASSUME JournalInv, Streamed, Kept, [Next]_vars PROVE Streamed' /\ Kept'
    OBVIOUS
  <2>1. CASE Next
    BY <2>1, NextStreamed, NextKept
  <2>2. CASE UNCHANGED vars
    BY <2>2 DEF vars, Streamed, Kept, Restarted, Files
  <2> QED
    BY <2>1, <2>2
<1> QED
  BY <1>1, <1>2, JournalInvariant, PTL DEF Spec, RecordedInv

(* Until the first save or refused Studio activation, and at any time for  *)
(* clients that only edit, replaying the session's journal runs every      *)
(* command in it and gives the document the Core had after the last        *)
(* recorded event: the recorder's queue and Core's accepted stream never   *)
(* drift apart, whatever was edited while the journal was restarted.  For  *)
(* an Undo after a restart the code does not keep it: run undo_across_save *)
(* shows how.                                                              *)
THEOREM ReplaysRecordedCorrect ==
    Spec => []((saves = 0 /\ refusals = 0) \/ Commands \subseteq Edits => JournalReplaysRecorded)
<1>1. RecordedInv => ((saves = 0 /\ refusals = 0) \/ Commands \subseteq Edits => JournalReplaysRecorded)
  <2> SUFFICES ASSUME RecordedInv, (saves = 0 /\ refusals = 0) \/ Commands \subseteq Edits, recording
               PROVE  ~ Inspected(journals[path]).damaged /\ Recovered(journals[path]) = owed
    BY DEF JournalReplaysRecorded
  <2>1. ~ Restarted \/ OnlyEdits
    BY DEF Restarted, OnlyEdits
  <2>2. PICK trail \in [0 .. Len(queue) -> Undamaged] :
            trail[0] = Inspected(journals[path]) /\ trail[0].history.document = owed
    BY <2>1 DEF RecordedInv, Streamed
  <2>3. Len(queue) \in Nat
    BY LenProperties DEF RecordedInv, JournalInv, TypeOK
  <2>4. trail[0] \in Undamaged
    BY <2>2, <2>3
  <2> QED
    BY <2>2, <2>4 DEF Recovered, Undamaged
<1> QED
  BY <1>1, RecordedInvariant, PTL

(* Until the first save, and unless a file operation failed, the document  *)
(* of the last recorded event survives every crash in some journal, also   *)
(* across a Studio activation, or in the project file.  After a refused    *)
(* activation it does for clients that only edit.  Runs crash_during_save  *)
(* and consumed_too_early show how a save or a failure loses it.           *)
THEOREM SurvivesCorrect ==
    Spec => [](saves = 0 /\ failures = 0 /\ (refusals = 0 \/ Commands \subseteq Edits)
                 => RecordedSurvivesCrash)
<1>1. RecordedInv => (saves = 0 /\ failures = 0 /\ (refusals = 0 \/ Commands \subseteq Edits)
                        => RecordedSurvivesCrash)
  <2> SUFFICES ASSUME RecordedInv, saves = 0, failures = 0, refusals = 0 \/ Commands \subseteq Edits,
                      phase = "Down", owed # None
               PROVE  \E n \in Files : Recovered(journals[n]) = owed
    BY DEF RecordedSurvivesCrash
  <2>1. path = None /\ (~ Restarted \/ OnlyEdits)
    BY DEF RecordedInv, JournalInv, OwnJournal, OpenPhases, Restarted, OnlyEdits
  <2> QED
    BY <2>1 DEF RecordedInv, Kept
<1> QED
  BY <1>1, RecordedInvariant, PTL

=============================================================================
