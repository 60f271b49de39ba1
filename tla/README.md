# A TLA+ model of Kinewright's editing core

Kinewright is a video editor whose document is edited by a person and by
agents at the same time.  All edits go through one actor, the Core; the desktop
app, the agent server, project persistence and crash recovery are its clients.
This directory models the Core's history, the protocols its clients run against
it, the crash journal, the incident sidecar's writer thread, the project lock,
the publication of a project bundle and the export queue.  TLC checks the modules
on small instances and TLAPS proves most of the safety properties for every
instance.

Paths below are relative to `crates/`.

## Inventory

| Part | State it keeps | Operations | What is hard | Module |
|---|---|---|---|---|
| Core history (`kinewright-core/src/actor.rs`, `history.rs`, `journal.rs`) | live document, revision, undo and redo stacks, accepted batches, baseline, floor offset | edit, coalesced edit, undo, redo, snapshot, restore, floor, recovery close | long sequences of legal calls; a gesture that must not merge across an undo or a floor | `CoreHistory` |
| Core actor and attachments (`actor.rs` `run_actor`, `attachment.rs`, `history_transition.rs`) | the history, one pending save floor, the persistence owner, Live/Frozen/Sealed, the manual ingress | 20 messages; `HistoryFloorBarrier`, `CoreAttachment`, `ManualPermit` on the client side | stale cuts, late and repeated answers, editing during a save's IO, messages queued behind a seal | `CoreActor` |
| Manual admission (`actor/manual_history.rs`) | queue of publications, incremental JSON cache | execute a command, roll it back | failure at any of five points after the history already changed | `ManualAdmission`, `AtomicAdmission` |
| App crash recovery (`kinewright-app/src/recovery.rs`, parts of `app.rs`, `kinewright-project/src/recovery.rs`) | journal files, recorder thread and its queue, undecided crash data | attach, record, checkpoint at a save, leave for Studio, close, scan, restore, shelve, discard | crash between any two file operations, agents editing while the app thread saves, failing IO | `RecoveryJournal` |
| Incident sidecar writer (`kinewright-project/src/sidecar.rs`) | channel, last written job per file, error list | submit, submit and join, batch, land, drop | jobs out of order, answers before earlier work, shutdown | `SidecarWriter` |
| Project lock (`kinewright-project/src/lockfile.rs`) | lock object, discovery file, claims | acquire, publish, verify, release, drop | the lock object can be unlinked and replaced between a check and its act; owners die at any step | `ProjectLock` |
| Bundle publication (`bundle_commit.rs`, `bundle.rs`, `receipts.rs`, `store.rs`, `namespace/linux.rs`) | root file, objects, issuer table, receipts, owner memory, floor ticket | stage, publish, reconcile, retry, save, collect | crash and power loss at every step, a rename whose outcome is unknown, repeated commands | `AtomicPublication`, `BundleCommit` |
| Export queue (`kinewright-agent/src/export_queue.rs`, output replacement in `kinewright-media/src/export.rs`) | job records, bounded channel, worker, monitor, output files | enqueue, cancel, encode, verify, settle, quarantine | cancellation against completion, sources that change under an encode, a full channel, failing renames | `ExportQueue` |
| Bundle copy, switch and rescue (`bundle_recovery.rs`, `bundle_switch.rs`) | as bundle publication, for two destinations or branches | copy, switch, rescue | as bundle publication | not modelled |
| Session save (`session.rs`, `history_save.rs`, `project.rs`) | saved digest, established stems, debounce | flush, save, save as, close | partial failure, preserve and replace | not modelled |
| Studio orchestration (`kinewright-agent/src/orchestration/`) | outbox, mailbox, claims | admit, claim, dispatch, settle | duplicates, process-bound claims after a crash | not modelled |
| Writer host (`kinewright-agent/src/writer_host/`) | leases, grants, manual publisher | lease, publish, switch | lost connections, stale leases | not modelled |
| Preview scheduler (`kinewright-media/src/sched.rs`) | live bytes, readers, lookahead | admit, decode, drop | the byte cap under cancellation | not modelled |
| Document operations (one operation; the loop of a batch is in `CoreHistory`), media engine, agent server, user interface, hashing, process jobs | | | numerical, device bound or presentation | not modelled |

How they interact.  The actor serves one message at a time, so a handler is
atomic; concurrency is between clients that read in one turn and act in a later
one.  A save exports the history, computes a floor (the prefix it may discard),
begins it on the actor, writes files while edits go on, and then commits or
releases.  The recovery recorder and every view subscribe to the actor's events.
A manual producer (a Studio writer) takes the actor over: plain commands are
refused and each accepted command is queued as a publication until a publisher
acknowledges it.

What makes each part correct, in one sentence: a save in flight can always be
committed whatever was accepted meanwhile; an identity of a history is never
used twice; undo and redo walk one path; what is exported can be restored; a
refused command leaves no trace; a published edit is never dropped unread; a
recorded edit survives a crash; a file never goes back to an older snapshot; one
process writes a project at a time and a dead owner is reported once; a command
is published whole, exactly once and for good, or its caller is not told that it
was refused; a completed export is the file the caller asked for.

## Modules

* `CoreHistory` — the transition function of a history: `Exec` (execute_command),
  `Restore`, `Floor`, `RecoveryClose`.  It has no variables.  Documents and
  operations are opaque; what one operation does is the constant operator
  `ApplyOp`, of which only "a valid document or a refusal" is assumed.  `ApplyBatch`
  is the loop of apply_batch_inner over it: an empty batch is refused, every
  operation meets the valid result of the one before, one failure refuses the whole
  batch.  `Do(op)` is a batch of one; the revision-gated forms are
  journalled as the plain ones.  Identity effects are a function of document
  and operations and are left out.
* `CoreActor` — the actor: one action per message that changes state, and the
  values the clients hold between messages (`cut`, `barriers`, `ticket`,
  `outbox`).  A handler that refuses its message changes nothing and is not an
  action.  Reading messages (`Subscribe`, `ObserveHistory`, `Query`,
  `AttachmentState`, a capture that does not freeze) are covered by
  `ExportHistory`.  `HistoryTransition::find_floor` picks some floor, so
  `BeginFloor` takes any `discard`.  `suffix` and `read_high` are history
  variables: `suffix` is the history rebuilt above the pending floor one
  command at a time.
* `AtomicAdmission` — what manual admission promises: accept a command whole and
  publish it as the next link of a chain, or do nothing.
* `ManualAdmission` — what the code does: run the command, update the cached JSON
  arrays in place, encode, and undo all of it on a refusal.  Byte counts are not
  modelled; each place where a budget can run out is a nondeterministic refusal.
* `RecoveryJournal` — one project of the desktop app: the Core of its session, the
  recorder with its queue, the journal files, saving step by step, crash and
  launch.  A journal name is a number in the saved or the unsaved family.  Replay
  (`RecoverStep`) stops for good at the first command that is not answered by its
  own change and reports damage.  Each launch may be a build of another project
  format: a journal newer than the build is shelved, never restored
  (`ShelvePending`).  Activating Studio drains the recorder and leaves the journal
  behind (`StopForStudio`); from there the bundle owns the session
  (`StudioActivated`), or the activation is refused and the same Core is attached
  to a new journal (`StudioRefused`).  A torn record is one that was never written
  (`parse_journal` drops a line without newline).  `owed` and `preserved` are
  history variables: the document of the last event the recorder processed, and
  the journals this run of the app left for Studio.  A save captures the Core's
  document; the copy the app holds can lag it by a frame.  One session is open at
  a time; a session that loses its writer authority and a journal whose header
  cannot be read are left out.
* `SidecarWriter` — the sidecar's writer thread and the threads that submit to it.
* `ProjectLock` — processes acquiring, publishing, verifying, writing under and
  releasing the lock, step by step where the code makes a system call, with death
  at every step and a person who deletes the lock object or the discovery file.
  An inode is a number, a claim a fresh number; how a spelling of a path is
  resolved is left out.  `moved` and `unsettled` are history variables: the lock
  object was deleted since the process last compared it with its path, and the
  claim of an owner that ended without a release.
* `AtomicPublication` — what a bundle promises: the durable root changes only by
  a whole publication (a command with its receipt, a save that folds history, a
  change of the issuer table), each command of an issuer at most once and in order.
* `BundleCommit` — what the code does: stage objects, write, rename and sync the
  root, each with its failures; the owner's pending command and unsettled state;
  reconciliation; retries of a command by its caller; saves that hold a floor
  ticket on Core and settle it later, also for an owner that is gone; collection
  of objects; edits in Core beside a publication; dropping the owner, killing the
  process and power loss.  `visible` is the root a reader sees, `durable` the one a
  power loss leaves.  A head id and a history digest are represented by the history
  itself, a root's digest by the number of the attempt that built it.
  `Atomic == INSTANCE AtomicPublication WITH root <- Published(durable)` is the
  refinement mapping.
* `ExportQueue` — enqueue in its three steps (check, insert the record, try the
  bounded channel), cancellation, the worker from taking a job to settling it, the
  monitor thread that copies progress, `replace_output` with its backup, and the
  quarantine of an untrusted file.  The encode is one step of the backend that may
  read the sources before and after they change.
* `SmallDocuments`, `MCCoreActor`, `MCManualAdmission`, `MCRecoveryJournal`,
  `MCSidecarWriter`, `MCProjectLock` — the model-checking instances: three documents
  in a row, an operation that steps and is refused at the end, one that resets,
  and a legacy spelling; which thread submits which sidecar; the symmetry of the
  headless processes.  `BundleCommit` and `ExportQueue` are checked as they are.
* `CoreHistoryProofs`, `CoreActorProofs`, `ManualAdmissionProofs`,
  `RecoveryJournalProofs`, `SidecarWriterProofs`, `ProjectLockProofs`,
  `BundleCommitProofs`, `ExportQueueProofs` — proofs.  Each extends the module it
  is about; the lemmas about histories are shared in `CoreHistoryProofs`.

Operators whose comment starts with "Fault:" are deliberate mistakes for
mutation testing.  Nothing refers to them: `PROJECT.json` lists which definition
each one replaces and which property then fails.

## Runs

| Run | Checks | Bounds |
|---|---|---|
| `history` | `TypeOK`, `FloorCommitSound`, `SuffixMatches`, `HistoryIsAPath`, `GestureIsOneRun` | 4 accepted commands from three batches (a plain one, its legacy spelling, a refused empty one) and two gesture keys, one save, freezes; installs are off (they are the next run's) |
| `sessions` | `Restorable`, `ManualStreamExact`, `AckedWasRead`, `SettledByItsOwner`, `SealedIsFinal`, `ChangeIdAdvances` | 2 saves, one installed history (the session's last cut or another project's), 2 commands per stream, one permit, a queue of 2 |
| `admission` | `TypeOK`, `CacheExact`, `ImplementsAtomicAdmission` | 4 commands, a queue of 2, refusals at every point |
| `recovery_session` | `TypeOK`, `JournalReplaysRecorded`, `RecordedSurvivesCrash` | 2 accepted commands per session from a gesture in the legacy spelling, a plain edit and Undo, 2 crashes, two journal names per family, one Studio activation, no save |
| `recovery_files` | `NoOrphanJournal`, `PendingKept` | one document and one accepted command per session, one save, 2 crashes, three journal names per family, builds of two formats, one Studio activation that may be refused, one failing file operation |
| `sidecar` | `OkMeansLanded`, `EarlierJobsSettled`, `NothingLostAtExit`, `StaleNeverOverwrites`, `JoinReturns`, `ShutdownEnds` | two threads, three files of which they share one, 3 jobs |
| `lock` | `TypeOK`, `OneWriter`, `HeadlessNeverBesideJournal`, `LiveDiscoveryKept`, `ReclaimExact` | three processes, one of them a GUI, 3 claims, 2 attempts each, one deletion of the lock object and one of the discovery |
| `bundle` | `AckedIsDurable`, `RefusedNeverPublished`, `GraphIsPresent`, `FloorNeverAheadOfDisk`, `ImplementsAtomicPublication` | one issuer with 2 sequences, 3 batches of which 1 is retained, one edit in Core, 4 attempts, 2 owners |
| `export` | `TypeOK`, `SettledIsFinal`, `CompletedIsTrusted`, `OutputsKept`, `JobsSettle` | two output paths, 2 jobs, one caller, a channel of 1, one frame, one change of the sources |
| `undo_across_save`, `crash_during_save`, `consumed_too_early` | one property each, violated | below |

Why the bounds are enough for the cases they aim at.  A floor goes wrong only
through what lies at its boundary: an entry below it, an open gesture at it, an
undo to it and a redo away from it; that takes four commands.  A late answer
needs a first save that lost its ticket and a second that holds one.  A name
clash of journals needs a crashed session, a new one and a restored one, so three
names in `recovery_files`; what is in a journal does not matter there, so one
document is enough, and two formats make one build older than a journal.  A
session that restores frees the name it restored from, so two are enough for two
crashes in `recovery_session`; a gesture merges and is undone within two commands.  A stale sidecar
job needs two threads and two jobs for one file, and a second file to tell
sequence order from file order.  A lock goes wrong between a process that opened
an object, the one that replaced it and a successor: three claims and one
deletion.  In `bundle`, a publication whose outcome is unknown, its
reconciliation, a retry and a save after it take four attempts, and an owner that
finds what another left takes two; a limit of one retained batch makes saves
fold.  In `export`, a job that is cancelled while its backend still
lands the file and a second one for the same path take two jobs; the second path
tells paths apart.  `MaxBatches`,
`MaxRevision`, `MaxInstalls`, `MaxFloors`, `MaxGenerations`, `MaxSaves`,
`MaxCrashes`, `MaxFailures`, `MaxJournals`, `MaxJobs`, `MaxClaims`, `MaxUnlinks`,
`MaxDeletions`, `MaxSequence`, `MaxEdits`, `MaxAttempts`, `MaxEpochs` and
`MaxChanges`, and `MaxActivations` and `MaxRefusals`, stand in guards and types only.

Deadlock is not checked: the actor rests when nobody sends a message or after a
seal, the app rests after its last crash, the writer thread ends, processes leave
a project, a bundle and a queue rest when no command comes.

Fairness.  `SidecarWriter!FairSpec` states weak fairness of the writer thread,
which the operating system schedules and whose steps block on nothing but the
channel and the disk; threads that submit are not assumed to make progress.
`OkMeansLanded` and `EarlierJobsSettled` speak of a file that one thread submits,
because the app submits only from its frame thread; with two, a joined job can be
superseded by a job that then fails.  `ExportQueue!FairSpec` states weak fairness
of the worker, of the monitor while it runs, and of a caller that has begun an
enqueue: three running threads whose steps wait only for the queue's lock, and the
worker for the monitor and for the backend.  It includes that an encode and a
measurement end.  Neither starting a call nor cancelling is assumed.

## What the runs show

* The save barrier is sound: replaying what was accepted during a save's IO on
  the floor's baseline gives the live history, so `CommitInvariant` is never
  answered.  The two guards it rests on are the block on an Undo at the floor and
  the rule that a floor does not split an open gesture; without either TLC finds
  the divergence.
* Rollback of a refused manual command is exact, in the history and in the
  cached JSON, for each place it can fail.
* A sidecar file never goes back, a joined flush means what it says and shutdown
  ends with the queue landed.
* Two processes write one project at the same time only when the lock object is
  deleted between the check and the write of one of them; the code verifies right
  before it writes and cannot close that window.  With the same exception a
  release never removes a successor's discovery.  As long as the lock object is
  left alone, the next owner reports exactly the claim a dead owner left behind
  (the discovery file may be deleted after it was read, and then it reports an
  owner whose claim is already gone), and a headless process never works beside a
  journal.
* Publication of a bundle is atomic as its callers see it.  A receipt answered as
  committed survives a power loss; a command whose caller was told it was not
  published is nowhere; an unknown outcome is answered as unknown and resolved by
  reconciliation; objects of any root that can still come back are never
  collected; Core folds its history only when the folded root is durable.  One
  consequence is not a violation but worth knowing: a manual edit whose outcome
  was unknown stays in the Core it was validated on after reconciliation finds it
  unpublished, and a later save of that Core publishes it without a receipt
  (`bundle_commit.rs:419`).
* A settled export stays settled whatever arrives late, a completed one is made
  from the verified sources only, outputs are replaced only with permission and
  never lost half way, and every record settles.  Two comments of
  `export_queue.rs` disagree with the code about which cancelled records carry a
  reason: line 146 promises "cancelled before verification" where a job cancelled
  between the check after its encode and its measurement has none, and lines
  1177-1178 say that a job cancelled during its encode carries none where line 852
  gives it one.  The model keeps what the code does.
* Journals do not pile up: while no file operation fails, a journal is the open
  session's, undecided crash data, a newer build's, or one that a Studio activation
  kept for explicit recovery, and each of the last two is kept on purpose.
* Recovery loses nothing within one journal and across restarts, but three
  places contradict the module's own promise that every event already processed
  by the recorder is durable (`kinewright-app/src/recovery.rs`, lines 22-24):
  * `undo_across_save`: a save restarts the journal from the current document
    while the Core keeps its undo stack.  An Undo of an edit from before the save
    is journalled as a plain Undo and does nothing in the replay.  A refused Studio
    activation restarts the journal of an unsaved project in the same way
    (`kinewright-app/src/app.rs:1012`), with the same effect.
  * `crash_during_save`: the old journal is removed before the new one is
    created; an edit an agent made after the save captured its document is in
    neither file if the crash falls in between.
  * `consumed_too_early`: a restored session whose new journal cannot be created
    is still taken as a success and the crash journal is deleted.

## Proofs

Every theorem holds for all values of the constants that satisfy the named
ASSUMEs: any documents, operations, threads, processes, paths and issuers, and
any bound.  None needs the bounds to be small, and none needs fairness.

Streams of any length.  The provers have no induction scheme over data.  What a
replay computes is shown by its least counterexample instead: `LeastNatural` (from
the well-foundedness of the naturals) picks the shortest prefix of the stream
for which a statement fails, and `ReplayAppend` shows that one batch more cannot
make it fail.  For this `Replay` and `ReplayJournal` are recursive functions over
the positions of a stream; `RunExists` and `RunUnique` show that such a
function exists and is the only one.  `ApplyBatch` is treated the same way
(`BatchRunExists`, `BatchRunUnique`), and `ApplyBatchConcat` proves what the comment
of apply_batch promises: a batch followed by a second one gives what the two
as one batch give, refusals included.

`CoreActorProofs`:

* `TypeCorrect` (`Spec => []TypeOK`).
* `SuffixCorrect` (`Spec => []SuffixMatches`): the history rebuilt command by
  command above the floor agrees with the live one above the floor.  The
  inductive invariant is `TypeOK` with `AboveFloor`, whose last conjunct (the
  entry just below the floor is closed) is what makes it inductive: without it a
  later batch of the same gesture would extend an entry the suffix does not have.
  The key lemma, `AboveExec` in `CoreHistoryProofs`, says that one accepted command
  that does not cross the floor preserves the relation.
* `RestorableCorrect` and `FloorCommitCorrect` (`Restorable`, `FloorCommitSound`).
  `Rebuilt` says that the accepted stream replayed from the baseline gives the live
  document, stacks and stream, `SuffixRebuilt` the same for what was accepted since
  the pending floor.  They are kept because replaying what was recorded records
  the same again (`ReplayAgain`), since a batch's recorded command is already
  canonical.  With `SuffixMatches` it follows that `settle_floor` finds what it
  demands.
* `HistoryPathCorrect` and `GestureCorrect` (`HistoryIsAPath`, `GestureIsOneRun`):
  undoing and redoing any number of times goes through the documents the entries'
  operations lead to, and an open entry is exactly the run of batches of its gesture
  since it started.  Both hold of anything a replay rebuilds (`ReplaySound`), and by
  `Rebuilt` the live history is such a replay, so no step of the actor, floor and
  restore included, needs an argument of its own.  A command keeps the path
  because a merged gesture is two batches in a row (`ExecPath`, from
  `ApplyBatchConcat`); it keeps the run because an undo or redo that exposes an open
  entry closes it (`ExecRuns`).  `GestureRuns`, the inductive form, speaks of every key
  and not only of the open one (a key with no entry to merge into has an empty run),
  and adds that there is nothing to redo while an entry is open, so that a Redo in
  the stream is one that changed nothing.
* `ChangeIdCorrect` (`ChangeIdAdvances`): every step that changes the exported
  history moves the pair of revision and command count forward.
* `SettledCorrect` and `SealedCorrect` (`SettledByItsOwner`, `SealedIsFinal`), from
  `TicketInOrder` (a pending floor has a number already given out) and
  `FrozenIsOwned` (only an owner's history is frozen or sealed).
* `ManualStreamCorrect` and `AckedCorrect` (`ManualStreamExact`, `AckedWasRead`).
  `ManualInv` adds that a bound producer excludes a pending floor (`OneAdmission`)
  and that what a publisher holds of the current permit has been read
  (`OutboxWasRead`).

`ManualAdmissionProofs`: `AdmissionTypeCorrect`, `CacheCorrect` (`CacheExact`) and
`AtomicAdmissionCorrect`, the refinement of `AtomicAdmission`.  The invariant is
`TypeOK`, `CacheExact` and that the next sequence number is one past the stream.
The work is in the operators: the delta saved before a command restores the
history exactly, whether the command was refused before it ran or after
(`RollbackRefused`, `RollbackCandidate`), and the prefixes the cache keeps are
common to the old and the new stacks (`CacheFollows`).

`RecoveryJournalProofs`: `TypeCorrect`, `NoOrphanCorrect` (`NoOrphanJournal`) and
`PendingCorrect` (`PendingKept`) rest on `JournalInv`: an open session owns a name
that is no undecided crash data, the recorder runs only on that file
(`OwnJournal`), and before the first file of a session is created and after its
last one is given up every file is set aside: undecided, left for Studio or a newer
build's (`Tidy`, `SetAside`).  `ReplaysRecordedCorrect` states
`JournalReplaysRecorded`, no damage included, until the first save or refused
Studio activation, and after any number of them for clients that only edit;
`SurvivesCorrect` states `RecordedSurvivesCrash` until the first save or failed file
operation, and past a refused activation for clients that only edit.  The three
runs that expect a violation show why the hypotheses on saves and failures are
there: a journal restarted by a save (`Restarted`) starts from a document
without the stacks the Core keeps, so an Undo recorded in it cannot be replayed.
The strengthening, `Streamed`, is about the events in flight: from what the journal
replays to, each queued event leads, undamaged, to the document it was sent with,
and the last one to the live document and stacks.  Since replay stops at the first
bad command, one damaged report would spoil all that follow, so the witness is a
trail of undamaged reports.  `Kept` says where the last recorded document is while
the session lives and after it died; `StreamedStop`, that draining the recorder
carries it into the file that is left for Studio.

`SidecarWriterProofs`: `SidecarTypeCorrect`, `StaleNeverOverwritesCorrect`,
`NothingLostCorrect`, `EarlierJobsCorrect` and `OkMeansLandedCorrect`.
The thread's memory `last_written` equals what the files hold (`MemoryIsDisk`);
Stop is the last message and a batch is landed before the next is collected
(`Phases`); each number given out is with its thread, pending or settled
(`Accounted`); the jobs of a file's only writer are numbered, sent and taken in one
order (`Order`), so a joined job is its writer's newest and is answered when no
older one is pending.

`ProjectLockProofs`: `LockTypeCorrect`, `OneWriterCorrect`, `HeadlessCorrect`,
`LiveDiscoveryCorrect` and `ReclaimCorrect`.  The inductive invariant `LockInv` adds
to the types: every inode a process holds was created (`InodesKnown`); a place in
the code past the flock holds it (`FlockHeld`) and no two processes hold it on one
inode (`FlockExclusive`); what the last check saw still stands unless the object
was deleted since (`CheckHolds`).  While the lock object is never deleted, every
open descriptor names it (`NeverMoved`), the claim a dead owner left is the
discovery that the holder of the flock found (`DebtKnown`), and there is no journal
once a headless process has scanned (`NoJournalSeen`).  `CheckHolds` is
the heart: `OneWriter` alone says nothing about a process between its check and
its write, and is not preserved by that write.

`BundleCommitProofs`: `GraphCorrect` (`GraphIsPresent`), `AckedCorrect`
(`AckedIsDurable`), `RefusedCorrect` (`RefusedNeverPublished`), `FloorCorrect`
(`FloorNeverAheadOfDisk`) and `PublicationCorrect`, the refinement of
`AtomicPublication`.  None of the four invariants is inductive, because the state
that decides them is the owner's memory during a publication whose outcome is not
known.  `BundleInv` describes it: a settled owner knows the root (`Agreed`); a
flight's step says which of the visible and the durable root are the old one and
which the new (`Underway`); the visible root is the durable one or one whole
publication ahead of it, and so will the flight's be (`Planned`, over `Ahead`);
nothing is collected between the first staged object and the known outcome
(`Collectable`); the pending command is the one the flight publishes and no receipt
answers it yet (`Receipted`); refused commands and acknowledged receipts agree with
all three roots (`Refusals`, `Acknowledgements`); Core, the durable and the visible
root fold in this order (`Floors`); and a tag is the number of one root, whose
floor reaches the ticket's (`Numbers`).  `Planned` is why the refinement holds: a
sync, a reconciliation, an opening and a power loss make the visible root durable
or leave the durable one, and nothing else changes it.

`ExportQueueProofs`: `ExportTypeCorrect`, `SettledIsFinalCorrect`,
`CompletedIsTrustedCorrect` and `OutputsKeptCorrect`.  `QueueInv`: an id is in one
place only, a call, a slot of the channel or the worker's hands (`HeldOnce`); its
record is one the holder may still settle (`Recorded`); ids are given out in order
(`Fresh`); only a completed record shows a measurement (`Measured`); reports reach
only the encode in hand (`Reporting`, `Answered`); and the worker's place says what
is at the output of the job in hand, made from sources no older than the verified
ones (`OutputOfItem`, `VerifiedInPast`).

Assumptions are the named ASSUMEs of the modules: sentinels differ from data (a
missing value is no record, `NoneIsNoValue`, `NoneIsNoEntry`, `NoneIsNoFile`),
bounds are naturals, the GUI processes are processes and at least one attempt is
made, there is an issuer, canonicalisation is idempotent and keeps a batch a batch,
an operation yields a document or is refused (`ApplyOpType`).  TLC evaluates them in the runs.  The inductive
invariants were model-checked on the instances of the runs before they were
proved; for `Streamed`, whose witness TLC cannot search for, the check was of the
same statement with the witness computed.

Only model-checked: `JoinReturns`, `ShutdownEnds` and `JobsSettle`, which are liveness
properties under fairness and out of these provers' reach.  Every invariant and
every other action property of a passing run is proved.

## Not modelled

* Copying, switching and rescuing a bundle, and the first activation of a legacy
  project: they publish through the publisher modelled in `BundleCommit`, with a
  second destination or a chosen branch, and would each be a module of its own.
  So would rescue records and the ledgers of predecessor roots, which a receipt
  lookup also reads: in the model a receipt is found in the root's own ledger only.
  Quotas other than the history limit only turn one refusal into another.  The
  shadow Core on which a manual edit is validated and the editor's own Core are one
  history in the model.
* Session flush and save over the sidecar writer, the orchestration's outbox and
  claims, the writer host's leases and the preview scheduler.  Their clients' side
  of Core (tickets, the manual permit) is in `CoreActor`.
* What one document operation does, decoding, compositing, audio, the agent
  server's protocol and tools, evaluation and the user interface: data, numerical,
  device bound or presentation, and most of the repository's lines.
* A disk that stalls (`kinewright-app/src/recovery.rs:568`), sources that are replaced
  and put back within one encode, files that somebody else creates at an output
  path, and a panic of an export's preflight or drift analysis.

## Plan

1. Models: copy and switch over `BundleCommit`; session flush and save over
   `SidecarWriter`; the orchestration's outbox and claims.
2. Proofs: `JournalReplaysRecorded` after a save for a session that undoes, but
   nothing accepted before the save; today's theorem covers sessions without Undo
   and Redo.
