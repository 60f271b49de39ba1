---------------------------- MODULE ExportQueue ----------------------------
(***************************************************************************)
(* The export queue (kinewright-agent: export_queue.rs) over the desktop   *)
(* backend's output replacement (kinewright-media: export.rs).  Callers    *)
(* enqueue and cancel from any thread; one worker thread encodes, checks   *)
(* that the sources did not change meanwhile, measures the file and        *)
(* settles the record; a monitor thread copies progress into the record.   *)
(*                                                                         *)
(* A job's cancellation token is set exactly when its record becomes       *)
(* Cancelled, both under the lock, so the record stands for both.  A       *)
(* source is represented by its fingerprint, which is new each time the    *)
(* file changes.  A measurement and the reason for its absence are one     *)
(* value, since every writer sets the two together: "reported" is either   *)
(* the measurement or why it could not be made.                            *)
(***************************************************************************)
EXTENDS Naturals, Sequences

CONSTANTS
    Path,           \* output files
    Caller,         \* threads that enqueue
    None,
    Capacity,       \* pending jobs the queue holds
    Frames,         \* frames of every export
    MaxJobs,        \* bound on the ids given out
    MaxChanges      \* bound on changes of the sources

ASSUME QueueConstants ==
    /\ Capacity \in Nat \ {0}       \* InvalidCapacity
    /\ Frames \in Nat /\ MaxJobs \in Nat /\ MaxChanges \in Nat

Id == 1 .. MaxJobs
ExportJobState == {"Queued", "Running", "Completed", "Failed", "Cancelled"}
Terminal == {"Completed", "Failed", "Cancelled"}
Measurement == {"none", "reported", "cancelled"}

(* progress is None until the first report: total_frames is zero.          *)
ExportJobRecord ==
    [path : Path, state : ExportJobState, verifying : BOOLEAN,
     progress : (0 .. Frames) \cup {None}, video : Measurement, audio : Measurement]

(* A request whose checks passed; its id is 0 until it has a record.       *)
WorkItem ==
    [id : Id \cup {0}, path : Path, overwrite : BOOLEAN, verify : BOOLEAN,
     verified : 0 .. MaxChanges]

(* A file, by the job that wrote it and the sources it was made from.      *)
Output == [id : Id, used : SUBSET (0 .. MaxChanges)]

ASSUME NoneIsNoValue == None \notin ExportJobRecord \cup WorkItem \cup Output \cup 0 .. Frames

VARIABLES
    jobs,           \* the records by id, None where there is none
    next_id,
    calls,          \* what each caller's enqueue has decided so far, or None
    channel,        \* the bounded work channel
    worker,         \* the worker thread: its place, its item, its encode
    sink,           \* progress reports the monitor has not read yet
    source,         \* the live fingerprint of the sources
    files,          \* what is at each output path
    backups         \* what replace_output has moved aside from it

vars == << jobs, next_id, calls, channel, worker, sink, source, files, backups >>

Waiting ==
    [pc |-> "Waiting", item |-> None, monitor |-> FALSE, sent |-> 0, used |-> {},
     result |-> "none"]

Init ==
    /\ jobs = [id \in Id |-> None]
    /\ next_id = 1
    /\ calls = [c \in Caller |-> None]
    /\ channel = << >>
    /\ worker = Waiting
    /\ sink = << >>
    /\ source = 0
    /\ files = [p \in Path |-> None]
    /\ backups = [p \in Path |-> None]

(* Somebody replaces a source.  An encode that is running may read both.   *)
ChangeSource ==
    /\ source < MaxChanges
    /\ source' = source + 1
    /\ worker' = IF worker.pc = "Encoding"
                 THEN [worker EXCEPT !.used = @ \cup {source + 1}]
                 ELSE worker
    /\ UNCHANGED << jobs, next_id, calls, channel, sink, files, backups >>

---------------------------------------------------------------------------
(* enqueue and cancel, on a caller's thread.                               *)

Active(id) == jobs[id] # None /\ jobs[id].state \notin Terminal

(* inspect_existing_output *)
MayWrite(path, overwrite) == overwrite \/ files[path] = None

(* The checks before the lock: the output may be written, and the sources  *)
(* are the ones the document names; their fingerprint is kept.             *)
Preflight(c, path, overwrite, verify) ==
    /\ calls[c] = None
    /\ next_id <= MaxJobs
    /\ MayWrite(path, overwrite)
    /\ calls' = [calls EXCEPT ![c] = [id |-> 0, path |-> path, overwrite |-> overwrite,
                                      verify |-> verify, verified |-> source]]
    /\ UNCHANGED << jobs, next_id, channel, worker, sink, source, files, backups >>

NewRecord(path) ==
    [path |-> path, state |-> "Queued", verifying |-> FALSE, progress |-> None,
     video |-> "none", audio |-> "none"]

(* Under the lock: an active job owns its output path.                     *)
Insert(c) ==
    /\ calls[c] # None /\ calls[c].id = 0
    /\ next_id <= MaxJobs
    /\ \A id \in Id : Active(id) => jobs[id].path # calls[c].path
    /\ jobs' = [jobs EXCEPT ![next_id] = NewRecord(calls[c].path)]
    /\ calls' = [calls EXCEPT ![c].id = next_id]
    /\ next_id' = next_id + 1
    /\ UNCHANGED << channel, worker, sink, source, files, backups >>

(* OutputInUse *)
InsertRefused(c) ==
    /\ calls[c] # None /\ calls[c].id = 0
    /\ \E id \in Id : Active(id) /\ jobs[id].path = calls[c].path
    /\ calls' = [calls EXCEPT ![c] = None]
    /\ UNCHANGED << jobs, next_id, channel, worker, sink, source, files, backups >>

(* Fault: a send that finds the queue full leaves the record behind.       *)
TrySend_KeepsRecord(c) ==
    /\ calls[c] # None /\ calls[c].id # 0
    /\ channel' = IF Len(channel) < Capacity THEN Append(channel, calls[c]) ELSE channel
    /\ calls' = [calls EXCEPT ![c] = None]
    /\ UNCHANGED << jobs, next_id, worker, sink, source, files, backups >>

(* Fault: the channel is not bounded.                                      *)
TrySend_Unbounded(c) ==
    /\ calls[c] # None /\ calls[c].id # 0
    /\ channel' = Append(channel, calls[c])
    /\ calls' = [calls EXCEPT ![c] = None]
    /\ UNCHANGED << jobs, next_id, worker, sink, source, files, backups >>

(* The record is visible before the work is sent; a full channel takes it  *)
(* back, cancelled or not.                                                 *)
TrySend(c) ==
    /\ calls[c] # None /\ calls[c].id # 0
    /\ IF Len(channel) < Capacity
       THEN channel' = Append(channel, calls[c]) /\ UNCHANGED jobs
       ELSE jobs' = [jobs EXCEPT ![calls[c].id] = None] /\ UNCHANGED channel
    /\ calls' = [calls EXCEPT ![c] = None]
    /\ UNCHANGED << next_id, worker, sink, source, files, backups >>

Cancel(id) ==
    /\ Active(id)
    /\ jobs' = [jobs EXCEPT ![id].state = "Cancelled"]
    /\ UNCHANGED << next_id, calls, channel, worker, sink, source, files, backups >>

---------------------------------------------------------------------------
(* The worker's changes to a record, each under the lock.                  *)

IsCancelled(id) == jobs[id].state = "Cancelled"

MarkCancelled(id, video, audio) ==
    [jobs EXCEPT ![id] = [@ EXCEPT !.state = "Cancelled", !.video = video, !.audio = audio]]

MarkFailed(id) == IF IsCancelled(id) THEN jobs ELSE [jobs EXCEPT ![id].state = "Failed"]

Completed(job, video, audio) ==
    [job EXCEPT !.state = "Completed", !.verifying = FALSE, !.video = video, !.audio = audio,
                !.progress = IF @ = None THEN None ELSE Frames]

(* Fault: the measurement of a job cancelled meanwhile is published.       *)
MarkCompleted_Anyway(id, video, audio) ==
    [jobs EXCEPT ![id] = Completed(@, video, audio)]

MarkCompleted(id, video, audio) ==
    [jobs EXCEPT ![id] = IF IsCancelled(id) THEN [@ EXCEPT !.verifying = FALSE]
                         ELSE Completed(@, video, audio)]

---------------------------------------------------------------------------
(* run_work_item, on the worker's thread.                                  *)

At(pc) == worker.pc = pc
Goto(pc) == worker' = [worker EXCEPT !.pc = pc]
item == worker.item

Take ==
    /\ At("Waiting") /\ channel # << >>
    /\ worker' = [Waiting EXCEPT !.pc = "Taken", !.item = Head(channel)]
    /\ channel' = Tail(channel)
    /\ UNCHANGED << jobs, next_id, calls, sink, source, files, backups >>

MarkRunning ==
    /\ At("Taken")
    /\ IF jobs[item.id].state = "Queued"
       THEN jobs' = [jobs EXCEPT ![item.id].state = "Running"] /\ Goto("Preflight")
       ELSE jobs' = MarkCancelled(item.id, "none", "none") /\ worker' = Waiting
    /\ UNCHANGED << next_id, calls, channel, sink, source, files, backups >>

(* The sources and looks are checked again, then the output.               *)
PreflightAgain ==
    /\ At("Preflight")
    /\ source = item.verified
    /\ Goto("Validating")
    /\ UNCHANGED << jobs, next_id, calls, channel, sink, source, files, backups >>

(* Fault: the output is not inspected again.                               *)
ValidateWorkerOutput_Skipped == TRUE

ValidateWorkerOutput == MayWrite(item.path, item.overwrite)

(* The encode starts; the monitor thread may fail to start.                *)
StartEncode ==
    /\ At("Validating")
    /\ ValidateWorkerOutput
    /\ \E monitor \in BOOLEAN :
          worker' = [worker EXCEPT !.pc = "Encoding", !.monitor = monitor, !.used = {source}]
    /\ UNCHANGED << jobs, next_id, calls, channel, sink, source, files, backups >>

(* A changed source, a missing look, a forbidden or vanished destination.  *)
RefuseWork ==
    /\ At("Preflight") \/ At("Validating")
    /\ Goto("Failing")
    /\ UNCHANGED << jobs, next_id, calls, channel, sink, source, files, backups >>

SendProgress ==
    /\ At("Encoding") /\ worker.monitor
    /\ worker.sent <= Frames
    /\ sink' = Append(sink, worker.sent)
    /\ worker' = [worker EXCEPT !.sent = @ + 1]
    /\ UNCHANGED << jobs, next_id, calls, channel, source, files, backups >>

(* monitor_progress and set_progress: also after a cancellation.           *)
SetProgress ==
    /\ sink # << >>
    /\ jobs' = [jobs EXCEPT ![item.id].progress = Head(sink)]
    /\ sink' = Tail(sink)
    /\ UNCHANGED << next_id, calls, channel, worker, source, files, backups >>

Returned(result) ==
    worker' = [Waiting EXCEPT !.pc = "Returned", !.item = item, !.result = result]
NewOutput == [id |-> item.id, used |-> worker.used]

(* The backend fails, panics or reports a cancellation, its own included:  *)
(* the temporary is removed and the output was not touched.                *)
EncodeFails ==
    /\ At("Encoding")
    /\ \E result \in {"failed", "cancelled"} : Returned(result)
    /\ UNCHANGED << jobs, next_id, calls, channel, sink, source, files, backups >>

(* replace_output: rename into place, or move the old output aside first.  *)
Land ==
    /\ At("Encoding")
    /\ files[item.path] = None
    /\ files' = [files EXCEPT ![item.path] = NewOutput]
    /\ Returned("ok")
    /\ UNCHANGED << jobs, next_id, calls, channel, sink, source, backups >>

MoveAside ==
    /\ At("Encoding")
    /\ files[item.path] # None
    /\ backups' = [backups EXCEPT ![item.path] = files[item.path]]
    /\ files' = [files EXCEPT ![item.path] = None]
    /\ Goto("MovedAside")
    /\ UNCHANGED << jobs, next_id, calls, channel, sink, source >>

LandOver ==
    /\ At("MovedAside")
    /\ files' = [files EXCEPT ![item.path] = NewOutput]
    /\ Goto("Landed")
    /\ UNCHANGED << jobs, next_id, calls, channel, sink, source, backups >>

(* The rename fails: the old output is put back if that succeeds.          *)
LandFails ==
    /\ At("MovedAside")
    /\ \/ /\ files' = [files EXCEPT ![item.path] = backups[item.path]]
          /\ backups' = [backups EXCEPT ![item.path] = None]
       \/ UNCHANGED << files, backups >>
    /\ Returned("failed")
    /\ UNCHANGED << jobs, next_id, calls, channel, sink, source >>

(* The backup is removed; if that fails the export fails, with the new     *)
(* output in place.                                                        *)
RemoveBackup ==
    /\ At("Landed")
    /\ \/ backups' = [backups EXCEPT ![item.path] = None] /\ Returned("ok")
       \/ UNCHANGED backups /\ Returned("failed")
    /\ UNCHANGED << jobs, next_id, calls, channel, sink, source, files >>

(* The monitor is stopped, drains the reports and is joined; then a        *)
(* cancellation goes before whatever the backend answered.                 *)
JoinMonitor ==
    /\ At("Returned")
    /\ sink = << >>
    /\ IF IsCancelled(item.id)
       THEN /\ jobs' = MarkCancelled(item.id, IF item.verify THEN "cancelled" ELSE "none",
                                     "cancelled")
            /\ worker' = Waiting
       ELSE CASE worker.result = "ok" -> Goto("Checking") /\ UNCHANGED jobs
              [] worker.result = "failed" -> Goto("Failing") /\ UNCHANGED jobs
              [] worker.result = "cancelled" ->
                    jobs' = MarkCancelled(item.id, "none", "none") /\ worker' = Waiting
    /\ UNCHANGED << next_id, calls, channel, sink, source, files, backups >>

(* Fault: the sources are not compared after the encode.                   *)
SourceIdentityDrift_Ignored == FALSE

SourceIdentityDrift == source # item.verified

(* verify_and_settle: the measurement starts only on a trusted file.       *)
CheckSources ==
    /\ At("Checking")
    /\ IF SourceIdentityDrift
       THEN Goto("Quarantining") /\ UNCHANGED jobs
       ELSE Goto("Verifying") /\ jobs' = [jobs EXCEPT ![item.id].verifying = TRUE]
    /\ UNCHANGED << next_id, calls, channel, sink, source, files, backups >>

(* Renamed to <output>.untrusted, or deleted, or neither can be done.      *)
QuarantineUntrustedOutput ==
    /\ At("Quarantining")
    /\ files' \in {files, [files EXCEPT ![item.path] = None]}
    /\ Goto("Failing")
    /\ UNCHANGED << jobs, next_id, calls, channel, sink, source, backups >>

(* The measurement returns, fails or panics; none of it fails the job.     *)
FinishVerification ==
    /\ At("Verifying")
    /\ jobs' = MarkCompleted(item.id, IF item.verify THEN "reported" ELSE "none", "reported")
    /\ worker' = Waiting
    /\ UNCHANGED << next_id, calls, channel, sink, source, files, backups >>

Fail ==
    /\ At("Failing")
    /\ jobs' = MarkFailed(item.id)
    /\ worker' = Waiting
    /\ UNCHANGED << next_id, calls, channel, sink, source, files, backups >>

---------------------------------------------------------------------------
WorkerStep ==
    \/ Take \/ MarkRunning \/ PreflightAgain \/ StartEncode \/ RefuseWork
    \/ EncodeFails \/ Land \/ MoveAside \/ LandOver \/ LandFails \/ RemoveBackup
    \/ JoinMonitor \/ CheckSources \/ QuarantineUntrustedOutput
    \/ FinishVerification \/ Fail

FinishCall(c) == Insert(c) \/ InsertRefused(c) \/ TrySend(c)

Next ==
    \/ \E c \in Caller, path \in Path, overwrite \in BOOLEAN, verify \in BOOLEAN :
          Preflight(c, path, overwrite, verify)
    \/ \E c \in Caller : FinishCall(c)
    \/ \E id \in Id : Cancel(id)
    \/ WorkerStep
    \/ SendProgress
    \/ SetProgress
    \/ ChangeSource

Spec == Init /\ [][Next]_vars

(* The threads are scheduled, and the backend's encode ends somehow.       *)
FairSpec ==
    /\ Spec
    /\ WF_vars(WorkerStep)
    /\ WF_vars(SetProgress)
    /\ \A c \in Caller : WF_vars(FinishCall(c))

---------------------------------------------------------------------------
Place ==
    {"Waiting", "Taken", "Preflight", "Validating", "Encoding", "MovedAside", "Landed",
     "Returned", "Checking", "Quarantining", "Verifying", "Failing"}
Worker ==
    [pc : Place, item : WorkItem \cup {None}, monitor : BOOLEAN, sent : 0 .. Frames + 1,
     used : SUBSET (0 .. MaxChanges), result : {"none", "ok", "failed", "cancelled"}]

(* Every variable holds a value the code can hold, and the channel never   *)
(* holds more than the capacity the caller was promised.                   *)
TypeOK ==
    /\ jobs \in [Id -> ExportJobRecord \cup {None}]
    /\ next_id \in 1 .. MaxJobs + 1
    /\ calls \in [Caller -> WorkItem \cup {None}]
    /\ channel \in Seq(WorkItem) /\ Len(channel) <= Capacity
    /\ worker \in Worker
    /\ sink \in Seq(0 .. Frames)
    /\ source \in 0 .. MaxChanges
    /\ files \in [Path -> Output \cup {None}]
    /\ backups \in [Path -> Output \cup {None}]

(* A settled record stays: a completed or failed one does not change at    *)
(* all, no late progress report included, and a cancelled one stays        *)
(* cancelled and never shows a measurement, even if one was under way.     *)
(* Only a call that finds the queue full takes its own record back.        *)
SettledIsFinal ==
    [][\A id \in Id : jobs[id] # None /\ jobs[id].state \in Terminal =>
          IF jobs'[id] = None
          THEN \E c \in Caller : calls[c] # None /\ calls[c].id = id
          ELSE /\ jobs'[id].state = jobs[id].state
               /\ IsCancelled(id) => "reported" \notin {jobs'[id].video, jobs'[id].audio}
               /\ ~ IsCancelled(id) => jobs'[id] = jobs[id]]_vars

(* A job becomes Completed only with its own file at its output, made from *)
(* nothing but the sources that were verified when it was accepted.  A     *)
(* source replaced and put back within one encode is outside the claim:    *)
(* source_identity_drift compares fingerprints and cannot see it.          *)
CompletedIsTrusted ==
    [][\A id \in Id :
          Active(id) /\ jobs'[id] # None /\ jobs'[id].state = "Completed" =>
             files[item.path] = [id |-> id, used |-> {item.verified}]]_vars

(* An output is moved or replaced only by the job that wrote it or by one  *)
(* that was allowed to overwrite, also when a cancelled job lands its file *)
(* behind the check of the next one; and whatever fails during such a      *)
(* replacement, the old or the new file is still there or set aside.  The  *)
(* claim is about the queue's own files: what somebody else creates at an  *)
(* output path is left out.                                                *)
OutputsKept ==
    [][\A p \in Path :
          /\ files[p] # None /\ files'[p] # files[p] =>
                /\ item # None /\ item.path = p
                /\ item.overwrite \/ files[p].id = item.id
          /\ backups[p] # None /\ backups'[p] # backups[p] =>
                files'[p] # None \/ backups'[p] # None]_vars

Unsettled(id) == jobs[id] # None /\ (jobs[id].state \notin Terminal \/ jobs[id].verifying)

(* Every record settles: no job stays queued, running or verifying.        *)
JobsSettle == \A id \in Id : Unsettled(id) ~> ~ Unsettled(id)

=============================================================================
