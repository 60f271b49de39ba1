--------------------------- MODULE SidecarWriter ---------------------------
(***************************************************************************)
(* The incident sidecar's writer thread (kinewright-project sidecar.rs).   *)
(* Sessions queue snapshots of their incident log for a file; the debounced *)
(* flush does not wait, close, exit and save join.  The thread takes all   *)
(* that is queued, keeps the newest job per file, drops what is older than *)
(* the file and lands the rest in sequence order through a temporary file  *)
(* and a rename.                                                           *)
(*                                                                         *)
(* A snapshot is named by the sequence number of its job.  A load sees the *)
(* file before or after the rename, so landing a job is one step; losing   *)
(* the project lock, a failed temporary file and a failed rename are one   *)
(* failure.  A batch holds jobs with distinct numbers and is a set.        *)
(***************************************************************************)
EXTENDS Integers, Sequences

CONSTANTS
    Client,     \* threads that hold the writer
    Path,       \* sidecar files
    Writers,    \* by file, the threads that submit jobs for it
    None,
    Stop,       \* WriterMessage::Stop
    MaxJobs     \* bound on the jobs submitted


VARIABLES
    seq,            \* the next sequence number
    clients,        \* what each thread is doing with the writer
    dropped,        \* the last handle is being dropped
    channel,        \* messages sent to the thread
    mode,           \* where the thread is
    stopping,       \* the thread saw Stop
    draining,       \* the thread is in its last batch
    batch,          \* jobs received and not yet sorted out
    winners,        \* jobs of the batch still to be landed
    last_written,   \* by file, the newest job landed
    disk,           \* by file, the job whose snapshot it holds
    errors,         \* failures of background jobs, not yet taken
    settled         \* history variable: jobs landed, superseded or reported

vars == <<seq, clients, dropped, channel, mode, stopping, draining, batch, winners,
          last_written, disk, errors, settled>>

Absent == -1
WriterJob == [path: Path, seq: Nat, ack: BOOLEAN]
Idle == [stage |-> "Idle", job |-> None]
ClientState ==
    {Idle} \cup [stage: {"Sending", "Waiting", "Ok", "Err"}, job: WriterJob]

ASSUME SidecarConstants ==
    /\ MaxJobs \in Nat
    /\ Writers \in [Path -> SUBSET Client]
    /\ Stop \notin WriterJob
    /\ None \notin WriterJob

(* Every variable holds a value of its Rust type.                          *)
TypeOK ==
    /\ seq \in Nat
    /\ clients \in [Client -> ClientState]
    /\ dropped \in BOOLEAN
    /\ channel \in Seq(WriterJob \cup {Stop})
    /\ mode \in {"Receiving", "Collecting", "Writing", "Stopped"}
    /\ stopping \in BOOLEAN
    /\ draining \in BOOLEAN
    /\ batch \subseteq WriterJob
    /\ winners \subseteq WriterJob
    /\ last_written \in [Path -> Int]
    /\ disk \in [Path -> Int]
    /\ errors \subseteq WriterJob
    /\ settled \subseteq WriterJob

-----------------------------------------------------------------------------
Init ==
    /\ seq = 0
    /\ clients = [c \in Client |-> Idle]
    /\ dropped = FALSE
    /\ channel = << >>
    /\ mode = "Receiving"
    /\ stopping = FALSE
    /\ draining = FALSE
    /\ batch = {}
    /\ winners = {}
    /\ last_written = [p \in Path |-> Absent]
    /\ disk = [p \in Path |-> Absent]
    /\ errors = {}
    /\ settled = {}

(* submit_owned and submit_and_join_owned: the number is taken first, the  *)
(* job is sent afterwards, so two threads may send out of order.           *)
FetchSeq(c, path, ack) ==
    /\ ~ dropped
    /\ clients[c] = Idle
    /\ seq < MaxJobs
    /\ seq' = seq + 1
    /\ clients' = [clients EXCEPT ![c] =
                    [stage |-> "Sending", job |-> [path |-> path, seq |-> seq, ack |-> ack]]]
    /\ UNCHANGED <<dropped, channel, mode, stopping, draining, batch, winners,
                   last_written, disk, errors, settled>>

Send(c) ==
    /\ clients[c].stage = "Sending"
    /\ channel' = Append(channel, clients[c].job)
    /\ clients' = [clients EXCEPT ![c] =
                    IF @.job.ack THEN [@ EXCEPT !.stage = "Waiting"] ELSE Idle]
    /\ UNCHANGED <<seq, dropped, mode, stopping, draining, batch, winners,
                   last_written, disk, errors, settled>>

(* The joined write returns its result to the caller.                      *)
Return(c) ==
    /\ clients[c].stage \in {"Ok", "Err"}
    /\ clients' = [clients EXCEPT ![c] = Idle]
    /\ UNCHANGED <<seq, dropped, channel, mode, stopping, draining, batch, winners,
                   last_written, disk, errors, settled>>

TakeErrors ==
    /\ errors # {}
    /\ errors' = {}
    /\ UNCHANGED <<seq, clients, dropped, channel, mode, stopping, draining, batch, winners,
                   last_written, disk, settled>>

(* Drop of the last handle: no thread is inside a call.                    *)
DropWriter ==
    /\ ~ dropped
    /\ \A c \in Client : clients[c] = Idle
    /\ dropped' = TRUE
    /\ channel' = Append(channel, Stop)
    /\ UNCHANGED <<seq, clients, mode, stopping, draining, batch, winners,
                   last_written, disk, errors, settled>>

-----------------------------------------------------------------------------
(* Fault: a Stop ends the thread at once.                                  *)
Take_StopsAtOnce ==
    /\ mode \in {"Receiving", "Collecting"}
    /\ channel # << >>
    /\ channel' = Tail(channel)
    /\ IF Head(channel) = Stop
       THEN /\ mode' = "Stopped"
            /\ stopping' = TRUE
            /\ UNCHANGED batch
       ELSE /\ mode' = "Collecting"
            /\ batch' = batch \cup {Head(channel)}
            /\ UNCHANGED stopping
    /\ UNCHANGED <<seq, clients, dropped, draining, winners, last_written, disk,
                   errors, settled>>

(* writer_loop: block for the first message, then take what is queued.     *)
Take ==
    /\ mode \in {"Receiving", "Collecting"}
    /\ channel # << >>
    /\ channel' = Tail(channel)
    /\ mode' = "Collecting"
    /\ IF Head(channel) = Stop
       THEN stopping' = TRUE /\ UNCHANGED batch
       ELSE batch' = batch \cup {Head(channel)} /\ UNCHANGED stopping
    /\ UNCHANGED <<seq, clients, dropped, draining, winners, last_written, disk,
                   errors, settled>>

Answered(jobs, result) ==
    [c \in Client |-> IF clients[c].stage = "Waiting" /\ clients[c].job \in jobs
                      THEN [clients[c] EXCEPT !.stage = result]
                      ELSE clients[c]]

(* Fault: the oldest job of a file wins its batch.                         *)
Latest_Oldest(jobs) ==
    {job \in jobs : \A other \in jobs : other.path = job.path => job.seq <= other.seq}

(* write_batch: the latest job per file wins.                              *)
Latest(jobs) ==
    {job \in jobs : \A other \in jobs : other.path = job.path => other.seq <= job.seq}

(* Fault: the inner loop blocks for the next message.                      *)
StartBatch_WaitsForStop ==
    /\ mode = "Collecting"
    /\ channel = << >>
    /\ stopping
    /\ mode' = "Writing"
    /\ batch' = {}
    /\ winners' = Latest(batch)
    /\ clients' = Answered(batch \ Latest(batch), "Ok")
    /\ settled' = settled \cup (batch \ Latest(batch))
    /\ UNCHANGED <<seq, dropped, channel, stopping, draining, last_written, disk, errors>>

(* Nothing more is queued: superseded jobs are answered Ok at once.        *)
StartBatch ==
    /\ mode = "Collecting"
    /\ channel = << >>
    /\ mode' = "Writing"
    /\ batch' = {}
    /\ winners' = Latest(batch)
    /\ clients' = Answered(batch \ Latest(batch), "Ok")
    /\ settled' = settled \cup (batch \ Latest(batch))
    /\ UNCHANGED <<seq, dropped, channel, stopping, draining, last_written, disk, errors>>

(* Fault: winners are landed newest first.                                 *)
Upcoming_Newest(job) == job \in winners /\ \A other \in winners : other.seq <= job.seq

(* Winners are landed in sequence order.                                   *)
Upcoming(job) == job \in winners /\ \A other \in winners : job.seq <= other.seq

Settle(job) ==
    /\ mode = "Writing"
    /\ Upcoming(job)
    /\ winners' = winners \ {job}
    /\ settled' = settled \cup {job}
    /\ UNCHANGED <<seq, dropped, channel, mode, stopping, draining, batch>>

(* Fault: a job older than the file is landed all the same.                *)
Stale_Never(job) == FALSE

Stale(job) == job.seq <= last_written[job.path]

SkipStale(job) ==
    /\ Settle(job)
    /\ Stale(job)
    /\ clients' = Answered({job}, "Ok")
    /\ UNCHANGED <<last_written, disk, errors>>

(* write_one_job succeeds.                                                 *)
Land(job) ==
    /\ Settle(job)
    /\ ~ Stale(job)
    /\ disk' = [disk EXCEPT ![job.path] = job.seq]
    /\ last_written' = [last_written EXCEPT ![job.path] = job.seq]
    /\ clients' = Answered({job}, "Ok")
    /\ UNCHANGED errors

(* The authority is lost or the write fails: the caller or, for a          *)
(* background job, the error list learns of it.                            *)
Fail(job) ==
    /\ Settle(job)
    /\ ~ Stale(job)
    /\ clients' = Answered({job}, "Err")
    /\ errors' = IF job.ack THEN errors ELSE errors \cup {job}
    /\ UNCHANGED <<last_written, disk>>

(* Fault: the thread blocks for another message after a Stop.              *)
EndBatch_IgnoresStop ==
    /\ mode = "Writing"
    /\ winners = {}
    /\ mode' = "Receiving"
    /\ UNCHANGED <<seq, clients, dropped, channel, stopping, draining, batch, winners,
                   last_written, disk, errors, settled>>

(* After a Stop the thread drains once more, lands that batch and exits.   *)
EndBatch ==
    /\ mode = "Writing"
    /\ winners = {}
    /\ mode' = IF ~ stopping THEN "Receiving"
               ELSE IF draining THEN "Stopped" ELSE "Collecting"
    /\ draining' = stopping
    /\ UNCHANGED <<seq, clients, dropped, channel, stopping, batch, winners,
                   last_written, disk, errors, settled>>

WriterStep ==
    \/ Take
    \/ StartBatch
    \/ \E job \in winners : SkipStale(job) \/ Land(job) \/ Fail(job)
    \/ EndBatch

ClientStep(c) ==
    \/ \E path \in Path, ack \in BOOLEAN : c \in Writers[path] /\ FetchSeq(c, path, ack)
    \/ Send(c)
    \/ Return(c)

Next ==
    \/ \E c \in Client : ClientStep(c)
    \/ TakeErrors
    \/ DropWriter
    \/ WriterStep

Spec == Init /\ [][Next]_vars

(* The writer thread is scheduled whenever it has something to do.         *)
FairSpec == Spec /\ WF_vars(WriterStep)

-----------------------------------------------------------------------------
(* A stale background snapshot never overwrites newer bytes, even when two *)
(* threads send their jobs out of order or a newer job failed in between.  *)
StaleNeverOverwrites == [][\A p \in Path : disk[p] <= disk'[p]]_vars

OnlyWriter(c, path) == Writers[path] = {c}

(* A joined write that returns Ok has landed: the file holds its snapshot  *)
(* or a newer one.  This rests on a file having a single submitting        *)
(* thread, as the frame thread is for its session's sidecar: only then is  *)
(* a joined job never superseded within its batch.                         *)
OkMeansLanded ==
    \A c \in Client : clients[c].stage = "Ok" /\ OnlyWriter(c, clients[c].job.path) =>
        clients[c].job.seq <= disk[clients[c].job.path]

Pending == (batch \cup winners \cup {channel[i] : i \in DOMAIN channel}) \ {Stop}

(* When a joined write is answered, every earlier job for the thread's     *)
(* files has landed, was superseded or reported its error, so the error    *)
(* drain that follows a save misses none of them.                          *)
EarlierJobsSettled ==
    \A c \in Client :
        clients[c].stage \in {"Ok", "Err"} /\ OnlyWriter(c, clients[c].job.path) =>
            \A job \in Pending : OnlyWriter(c, job.path) => clients[c].job.seq < job.seq

(* The thread exits only after every submitted job was settled: a flush    *)
(* queued before the last handle is dropped is not lost.                   *)
NothingLostAtExit ==
    mode = "Stopped" => \A n \in 0 .. seq - 1 : \E job \in settled : job.seq = n

(* A joined write always returns.                                          *)
JoinReturns == \A c \in Client : clients[c].stage = "Waiting" ~> clients[c].stage # "Waiting"

(* Dropping the last handle ends the thread that the drop joins.           *)
ShutdownEnds == dropped ~> mode = "Stopped"

=============================================================================
