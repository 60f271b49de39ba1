-------------------------- MODULE RecoveryJournal --------------------------
(***************************************************************************)
(* Crash recovery of a project in the desktop app (kinewright-app          *)
(* recovery.rs).  A recorder thread subscribes to the Core and appends     *)
(* every accepted command to a journal file.  A save restarts the journal  *)
(* from the Core's current document; a crash leaves it behind for the next *)
(* launch, which replays it in a fresh Core and offers the result.         *)
(*                                                                         *)
(* Agents keep editing the Core while the app thread saves and restarts    *)
(* the journal, so each step of Recovery::attach_owned is an action.  A    *)
(* record torn by a crash has no newline and is dropped by parse_journal;  *)
(* it is a record that was never written.                                  *)
(*                                                                         *)
(* An unsaved project journals to unsaved-1, unsaved-2 ..., a saved one to *)
(* its own base, -2, -3 ...; a name is the family and the number.  Builds  *)
(* of several project formats share the recovery directory.                *)
(***************************************************************************)
EXTENDS CoreHistory

CONSTANTS
    Commands,       \* the commands clients send
    Blank,          \* default_project_document
    MaxFormat,      \* the newest PROJECT_FORMAT_VERSION
    MaxBatches,     \* bound on the accepted commands of one session
    MaxSaves,       \* bound on saves
    MaxActivations, \* bound on Studio activations
    MaxRefusals,    \* bound on refused ones
    MaxCrashes,     \* bound on crashes
    MaxJournals,    \* bound on the journal files of each family
    MaxFailures     \* bound on failed file creations and removals

ASSUME JournalConstants ==
    /\ Commands \subseteq JournalCommand
    /\ None \notin Doc
    /\ Blank \in Doc
    /\ {MaxFormat, MaxBatches, MaxSaves, MaxActivations, MaxRefusals, MaxCrashes,
         MaxJournals, MaxFailures} \subseteq Nat

VARIABLES
    saved,      \* the project file's document
    journals,   \* journal files by name: header and commands, or None
    build,      \* PROJECT_FORMAT_VERSION of the running app
    phase,      \* where the app thread is, Down after a crash
    named,      \* the session has a project path
    hist,       \* the open session's Core
    queue,      \* events sent to the recorder and not yet recorded
    recording,  \* the recorder thread is running
    path,       \* Recovery::path, the session's journal
    pending,    \* journals found at startup and not yet decided
    restoring,  \* the pending journal a restored session came from, or None
    to_write,   \* the document a running save captured
    saves,      \* saves so far
    activations, \* Studio activations so far
    refusals,   \* refused Studio activations so far
    crashes,    \* crashes so far
    failures,   \* failed file creations and removals so far
    preserved,  \* history variable: journals this run of the app left for Studio
    owed        \* history variable: the document after the last recorded event

vars == <<saved, journals, build, phase, named, hist, queue, recording, path, pending,
          restoring, to_write, saves, activations, refusals, crashes, failures, preserved,
          owed>>

Format == 1 .. MaxFormat
Name == [named: BOOLEAN, number: 1 .. MaxJournals]
Journal == [format: Format, initial: Doc, commands: Seq(JournalCommand)]

(* A missing file is neither a journal nor a name.                         *)
ASSUME NoneIsNoFile == None \notin Journal /\ None \notin Name

Phase == {"Down", "Started", "Opening", "Attach", "Editing", "Saving", "Saved", "Stopped",
          "Activating", "Studio"}

(* Every variable holds a value of its Rust type.                          *)
TypeOK ==
    /\ saved \in Doc
    /\ journals \in [Name -> Journal \cup {None}]
    /\ build \in Format
    /\ phase \in Phase
    /\ named \in BOOLEAN
    /\ hist \in History
    /\ queue \in Seq([command: JournalCommand, doc: Doc])
    /\ recording \in BOOLEAN
    /\ path \in Name \cup {None}
    /\ pending \subseteq Name
    /\ restoring \in Name \cup {None}
    /\ to_write \in Doc
    /\ {saves, activations, refusals, crashes, failures} \subseteq Nat
    /\ preserved \subseteq Name
    /\ owed \in Doc \cup {None}

-----------------------------------------------------------------------------
(* No client holds the Core before its first recorder is attached, and     *)
(* Studio's own Core is recorded in its bundle.                            *)
SessionOpen == phase \in Phase \ {"Down", "Started", "Opening", "Studio"}
Files == {n \in Name : journals[n] # None}

(* RecoveryReport: what a replay rebuilt, and whether it stopped early.    *)
RecoveryReport == [history: History, damaged: BOOLEAN]
NewReport(doc) == [history |-> NewHistory(doc, 0), damaged |-> FALSE]

(* replay: a fresh Core runs the commands until one is not answered by the *)
(* change it records; that one and everything after it is ignored.         *)
RecoverStep(r, cmd) ==
    IF ~ r.damaged /\ CanonicalCommand(cmd) = cmd /\ Accepts(r.history, cmd)
    THEN [r EXCEPT !.history = Exec(@, cmd)]
    ELSE [r EXCEPT !.damaged = TRUE]

ReplayJournal(doc, commands) ==
    LET run[n \in 0 .. Len(commands)] ==
            IF n = 0 THEN NewReport(doc) ELSE RecoverStep(run[n - 1], commands[n])
    IN  run[Len(commands)]

Inspected(journal) == ReplayJournal(journal.initial, journal.commands)
Recovered(journal) == Inspected(journal).history.document

(* Fault: the whole event is written in place of its command.              *)
Appended_Events(journal, events) == [journal EXCEPT !.commands = @ \o events]

(* Fault: each append truncates the file.                                  *)
Appended_Truncating(journal, events) ==
    [journal EXCEPT !.commands = [i \in DOMAIN events |-> events[i].command]]

(* JournalWriter::append for a run of events.                              *)
Appended(journal, events) ==
    [journal EXCEPT !.commands = @ \o [i \in DOMAIN events |-> events[i].command]]

(* Fault: the base name is taken without looking.                          *)
Allocatable_Unchecked(n) == TRUE

(* allocate_journal_path: a name that is neither undecided crash data nor  *)
(* an existing file, unless that file is the session's own.  An unsaved    *)
(* session attaches only without a file of its own, and so never keeps one. *)
Allocatable(n) == n \notin pending /\ (n = path \/ journals[n] = None)

-----------------------------------------------------------------------------
Init ==
    /\ saved \in Doc
    /\ journals = [n \in Name |-> None]
    /\ build \in Format
    /\ phase = "Started"
    /\ named = FALSE
    /\ hist = NewHistory(Blank, 0)
    /\ queue = << >>
    /\ recording = FALSE
    /\ path = None
    /\ pending = {}
    /\ restoring = None
    /\ to_write = saved
    /\ saves = 0
    /\ activations = 0
    /\ refusals = 0
    /\ crashes = 0
    /\ failures = 0
    /\ preserved = {}
    /\ owed = None

(* A session is created on a document; its recorder is attached next.      *)
CreateSession(doc, has_path) ==
    /\ phase = "Started"
    /\ phase' = "Opening"
    /\ named' = has_path
    /\ hist' = NewHistory(doc, 0)

OpenProject ==
    /\ CreateSession(saved, TRUE)
    /\ owed' = None
    /\ UNCHANGED <<saved, journals, build, queue, recording, path, pending, restoring,
                   to_write, saves, activations, refusals, crashes, failures,
                   preserved>>

NewProject ==
    /\ CreateSession(Blank, FALSE)
    /\ owed' = None
    /\ UNCHANGED <<saved, journals, build, queue, recording, path, pending, restoring,
                   to_write, saves, activations, refusals, crashes, failures,
                   preserved>>

(* The dialog offers a found journal; this build can run what it holds.    *)
Recoverable(n) == n \in pending /\ journals[n] # None /\ journals[n].format <= build

(* Fault: the crash data is deleted before the session is attached.        *)
RestorePending_Consumes(n) ==
    /\ Recoverable(n)
    /\ CreateSession(Recovered(journals[n]), n.named)
    /\ journals' = [journals EXCEPT ![n] = None]
    /\ pending' = pending \ {n}
    /\ UNCHANGED <<saved, build, queue, recording, path, restoring, to_write, saves,
                   activations, refusals, crashes, failures, preserved, owed>>

(* Restore a pending journal: a new session starts on the replayed         *)
(* document, for the project its header names; the crash data stays until  *)
(* the session is attached.                                                *)
RestorePending(n) ==
    /\ Recoverable(n)
    /\ CreateSession(Recovered(journals[n]), n.named)
    /\ restoring' = n
    /\ UNCHANGED <<saved, journals, build, queue, recording, path, pending, to_write,
                   saves, activations, refusals, crashes, failures, preserved, owed>>

(* The person decides about crash data at startup or beside a session.     *)
DialogOpen == phase \in {"Started", "Editing", "Studio"} /\ restoring = None

(* A journal written by a newer format is not restored: shelve_pending     *)
(* stops offering it and keeps the file for a newer build.                 *)
ShelvePending(n) ==
    /\ DialogOpen
    /\ n \in pending
    /\ journals[n] # None
    /\ journals[n].format > build
    /\ pending' = pending \ {n}
    /\ UNCHANGED <<saved, journals, build, phase, named, hist, queue, recording, path,
                   restoring, to_write, saves, activations, refusals, crashes,
                   failures, preserved, owed>>

(* A file cannot be created or removed; the app reports it and goes on.    *)
FileFails ==
    /\ failures < MaxFailures
    /\ failures' = failures + 1

(* remove_pending after the person discarded it.                           *)
DiscardPending(n) ==
    /\ DialogOpen
    /\ n \in pending
    /\ journals' = [journals EXCEPT ![n] = None]
    /\ pending' = pending \ {n}
    /\ owed' = IF recording THEN owed ELSE None
    /\ UNCHANGED <<saved, build, phase, named, hist, queue, recording, path,
                   restoring, to_write, saves, activations, refusals, crashes,
                   failures, preserved>>

(* Fault: the restored journal is forgotten but not deleted.               *)
ConsumePending_KeepsFile ==
    /\ phase = "Editing"
    /\ restoring # None
    /\ pending' = pending \ {restoring}
    /\ restoring' = None
    /\ UNCHANGED <<saved, journals, build, phase, named, hist, queue, recording, path,
                   to_write, saves, activations, refusals, crashes, failures,
                   preserved, owed>>

(* consume_pending once the restored session is attached.                  *)
ConsumePending ==
    /\ phase = "Editing"
    /\ restoring # None
    /\ journals' = [journals EXCEPT ![restoring] = None]
    /\ pending' = pending \ {restoring}
    /\ restoring' = None
    /\ UNCHANGED <<saved, build, phase, named, hist, queue, recording, path, to_write,
                   saves, activations, refusals, crashes, failures, preserved, owed>>

(* The crash data of a restored session could not be removed: it is kept   *)
(* and offered again.                                                      *)
ConsumePendingFails ==
    /\ phase = "Editing"
    /\ restoring # None
    /\ FileFails
    /\ restoring' = None
    /\ UNCHANGED <<saved, journals, build, phase, named, hist, queue, recording, path,
                   pending, to_write, saves, activations, refusals, crashes,
                   preserved, owed>>

(* The first such name of the session's family.                            *)
NextJournal(n) ==
    /\ n.named = named
    /\ Allocatable(n)
    /\ \A earlier \in 1 .. n.number - 1 : ~ Allocatable([n EXCEPT !.number = earlier])

(* Recorder::start_owned: subscribe, take the Core's snapshot, create the  *)
(* file (create_new) with it as header.                                    *)
StartRecorder(n) ==
    /\ phase \in {"Opening", "Attach"}
    /\ NextJournal(n)
    /\ journals[n] = None
    /\ path' = n
    /\ journals' = [journals EXCEPT ![n] =
                        [format |-> build, initial |-> hist.document, commands |-> << >>]]
    /\ recording' = TRUE
    /\ owed' = hist.document
    /\ phase' = "Editing"
    /\ UNCHANGED <<saved, build, named, hist, queue, pending, restoring, to_write,
                   saves, activations, refusals, crashes, failures, preserved>>

(* The journal cannot be created: the session goes on without a recorder.  *)
StartRecorderFails(n) ==
    /\ phase \in {"Opening", "Attach"}
    /\ NextJournal(n)
    /\ IF journals[n] = None THEN FileFails ELSE UNCHANGED failures
    /\ path' = n
    /\ phase' = "Editing"
    /\ UNCHANGED <<saved, journals, build, named, hist, queue, recording, pending,
                   restoring, to_write, saves, activations, refusals, crashes,
                   preserved, owed>>

-----------------------------------------------------------------------------
(* The Core accepts a command and broadcasts it with the new document.     *)
Edited(cmd) ==
    /\ SessionOpen
    /\ Accepts(hist, CanonicalCommand(cmd))
    /\ Len(hist.batches) < MaxBatches
    /\ hist' = Exec(hist, cmd)
    /\ queue' = IF recording
                THEN Append(queue, [command |-> CanonicalCommand(cmd), doc |-> hist'.document])
                ELSE queue
    /\ UNCHANGED <<saved, journals, build, phase, named, recording, path, pending,
                   restoring, to_write, saves, activations, refusals, crashes,
                   failures, preserved, owed>>

(* record_event: append one command and sync it.                           *)
RecordEvent ==
    /\ recording
    /\ queue # << >>
    /\ journals' = [journals EXCEPT ![path] = Appended(@, <<Head(queue)>>)]
    /\ owed' = Head(queue).doc
    /\ queue' = Tail(queue)
    /\ UNCHANGED <<saved, build, phase, named, hist, recording, path, pending,
                   restoring, to_write, saves, activations, refusals, crashes,
                   failures, preserved>>

(* The append fails: the recorder reports the error and stops for good.    *)
RecordFails ==
    /\ recording
    /\ queue # << >>
    /\ recording' = FALSE
    /\ queue' = << >>
    /\ UNCHANGED <<saved, journals, build, phase, named, hist, path, pending,
                   restoring, to_write, saves, activations, refusals, crashes,
                   failures, preserved, owed>>

-----------------------------------------------------------------------------
(* A save captures the document, writes the project file and restarts the  *)
(* journal (adopt_saved_path, checkpoint_owned, attach_owned).             *)
BeginSave ==
    /\ phase = "Editing"
    /\ restoring = None
    /\ saves < MaxSaves
    /\ phase' = "Saving"
    /\ to_write' = hist.document
    /\ saves' = saves + 1
    /\ UNCHANGED <<saved, journals, build, named, hist, queue, recording, path,
                   pending, restoring, activations, refusals, crashes, failures,
                   preserved, owed>>

WriteProject ==
    /\ phase = "Saving"
    /\ phase' = "Saved"
    /\ saved' = to_write
    /\ named' = TRUE
    /\ UNCHANGED <<journals, build, hist, queue, recording, path, pending, restoring,
                   to_write, saves, activations, refusals, crashes, failures,
                   preserved, owed>>

(* An error before or after the bytes landed: nothing is adopted.          *)
WriteProjectFails ==
    /\ phase = "Saving"
    /\ FileFails
    /\ phase' = "Editing"
    /\ saved' \in {saved, to_write}
    /\ UNCHANGED <<journals, build, named, hist, queue, recording, path, pending,
                   restoring, to_write, saves, activations, refusals, crashes,
                   preserved, owed>>

(* Recorder::shutdown: the recorder drains its queue before it stops.      *)
Drained == IF recording THEN [journals EXCEPT ![path] = Appended(@, queue)] ELSE journals

StopRecorder ==
    /\ journals' = Drained
    /\ owed' = IF recording /\ queue # << >> THEN Last(queue).doc ELSE owed
    /\ queue' = << >>
    /\ recording' = FALSE

StopActive ==
    /\ phase = "Saved"
    /\ phase' = "Stopped"
    /\ StopRecorder
    /\ UNCHANGED <<saved, build, named, hist, path, pending, restoring, to_write,
                   saves, activations, refusals, crashes, failures, preserved>>

(* remove_journal, best effort: a file that cannot be removed stays, and a *)
(* session without a journal removes none.                                 *)
RemovesJournal ==
    \/ path = None /\ UNCHANGED <<journals, failures>>
    \/ path # None /\ journals' = [journals EXCEPT ![path] = None] /\ UNCHANGED failures
    \/ path # None /\ journals' = Drained /\ FileFails

RemoveJournal ==
    /\ phase = "Stopped"
    /\ phase' = "Attach"
    /\ RemovesJournal
    /\ UNCHANGED <<saved, build, named, hist, queue, recording, path, pending,
                   restoring, to_write, saves, activations, refusals, crashes,
                   preserved, owed>>

(* enable_ja1 for a session without a path: stop_for_studio drains the     *)
(* recorder and forgets the journal, which stays for explicit recovery.    *)
StopForStudio ==
    /\ phase = "Editing"
    /\ restoring = None
    /\ ~ named
    /\ activations < MaxActivations
    /\ phase' = "Activating"
    /\ activations' = activations + 1
    /\ StopRecorder
    /\ path' = None
    /\ preserved' = preserved \cup (Files \cap {path})
    /\ UNCHANGED <<saved, build, named, hist, pending, restoring, to_write, saves,
                   refusals, crashes, failures>>

(* finish_ja1_activation: the bundle owns the session from here.           *)
StudioActivated ==
    /\ phase = "Activating"
    /\ phase' = "Studio"
    /\ UNCHANGED <<saved, journals, build, named, hist, queue, recording, path,
                   pending, restoring, to_write, saves, activations, refusals,
                   crashes, failures, preserved, owed>>

(* The bundle cannot be made: the session goes back to a journal.          *)
StudioRefused ==
    /\ phase = "Activating"
    /\ refusals < MaxRefusals
    /\ phase' = "Attach"
    /\ refusals' = refusals + 1
    /\ UNCHANGED <<saved, journals, build, named, hist, queue, recording, path,
                   pending, restoring, to_write, saves, activations, crashes,
                   failures, preserved, owed>>

(* The session and its Core are gone.                                      *)
EndSession ==
    /\ named' = FALSE
    /\ hist' = NewHistory(Blank, 0)
    /\ queue' = << >>
    /\ recording' = FALSE
    /\ path' = None

(* Recovery::close: finish journal IO, then remove the journal.            *)
Close ==
    /\ phase \in {"Editing", "Studio"}
    /\ restoring = None
    /\ phase' = "Started"
    /\ RemovesJournal
    /\ EndSession
    /\ owed' = None
    /\ UNCHANGED <<saved, build, pending, restoring, to_write, saves, activations,
                   refusals, crashes, preserved>>

Crash ==
    /\ phase # "Down"
    /\ crashes < MaxCrashes
    /\ phase' = "Down"
    /\ EndSession
    /\ pending' = {}
    /\ preserved' = {}
    /\ restoring' = None
    /\ crashes' = crashes + 1
    /\ UNCHANGED <<saved, journals, build, to_write, saves, activations, refusals,
                   failures, owed>>

(* Startup, perhaps of another build, scans the whole recovery directory.  *)
Launch ==
    /\ phase = "Down"
    /\ phase' = "Started"
    /\ pending' = Files
    /\ build' \in Format
    /\ UNCHANGED <<saved, journals, named, hist, queue, recording, path, restoring,
                   to_write, saves, activations, refusals, crashes, failures,
                   preserved, owed>>

Next ==
    \/ OpenProject
    \/ NewProject
    \/ \E n \in Name : RestorePending(n) \/ ShelvePending(n) \/ DiscardPending(n)
    \/ ConsumePending
    \/ ConsumePendingFails
    \/ \E n \in Name : StartRecorder(n) \/ StartRecorderFails(n)
    \/ \E cmd \in Commands : Edited(cmd)
    \/ RecordEvent
    \/ RecordFails
    \/ BeginSave
    \/ WriteProject
    \/ WriteProjectFails
    \/ StopActive
    \/ RemoveJournal
    \/ StopForStudio
    \/ StudioActivated
    \/ StudioRefused
    \/ Close
    \/ Crash
    \/ Launch

Spec == Init /\ [][Next]_vars

-----------------------------------------------------------------------------
(* Replaying the session's journal runs every command in it, without       *)
(* damage, and gives the document the Core had after the last recorded     *)
(* event.                                                                  *)
JournalReplaysRecorded ==
    recording => /\ ~ Inspected(journals[path]).damaged
                 /\ Recovered(journals[path]) = owed

(* After a crash, the document of the last recorded event can be recovered *)
(* from the project file or from some journal.                             *)
RecordedSurvivesCrash ==
    phase = "Down" /\ owed # None =>
        owed = saved \/ \E n \in Files : Recovered(journals[n]) = owed

(* Undecided crash data is kept: no recording, save, close or failed start *)
(* touches it.  It changes only when its restore landed or the person      *)
(* discarded it, and any other file only when it is the session's own.     *)
PendingKept ==
    [][\A n \in Files : journals'[n] # journals[n] =>
            IF n \in pending THEN n \notin pending' ELSE n = path]_vars

(* No journal outlives its purpose: while the app runs and no removal has  *)
(* failed, each file is the session's own, undecided crash data, a newer   *)
(* build's, or one Studio activation left for explicit recovery.  So a     *)
(* launch never offers work that was already saved, restored or closed.    *)
NoOrphanJournal ==
    phase # "Down" /\ failures = 0 =>
        \A n \in Files : \/ n \in pending \cup {path} \cup preserved
                        \/ journals[n].format > build

=============================================================================
