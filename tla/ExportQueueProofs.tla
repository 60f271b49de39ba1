-------------------------- MODULE ExportQueueProofs --------------------------
(***************************************************************************)
(* Theorems about the export queue, for every number of callers, paths,    *)
(* jobs and source changes and every capacity: the type invariant, that a  *)
(* settled record is final, that a completed job has its own file made     *)
(* from the verified sources, and that outputs are kept.  They rest on     *)
(* QueueInv: an id is held once (by a call, the channel or the worker),    *)
(* its record is one the holder may settle, and the worker's place says    *)
(* what is at the output of the job in hand.                               *)
(***************************************************************************)
EXTENDS ExportQueue, SequenceTheorems, TLAPS

(* The worker has a job in hand.                                           *)
Busy == worker.pc # "Waiting"

Unstarted == {"Queued", "Cancelled"}
Started == {"Running", "Cancelled"}

(* Whoever holds an id holds a record that nobody else settled: a call and *)
(* the channel one that was not started, the worker one it started itself. *)
Recorded ==
    /\ \A c \in Caller : calls[c] # None /\ calls[c].id # 0 =>
          jobs[calls[c].id] # None /\ jobs[calls[c].id].state \in Unstarted
    /\ \A i \in 1 .. Len(channel) :
          channel[i].id # 0 /\ jobs[channel[i].id] # None /\ jobs[channel[i].id].state \in Unstarted
    /\ Busy => /\ item # None /\ item.id # 0 /\ jobs[item.id] # None
               /\ worker.pc = "Taken" => jobs[item.id].state \in Unstarted
               /\ worker.pc # "Taken" => jobs[item.id].state \in Started

(* An id is in one place only: one call, one slot of the channel, or the   *)
(* worker's hands.                                                         *)
HeldOnce ==
    /\ \A c, d \in Caller :
          calls[c] # None /\ calls[d] # None /\ calls[c].id # 0 /\ calls[c].id = calls[d].id => c = d
    /\ \A i, j \in 1 .. Len(channel) : channel[i].id = channel[j].id => i = j
    /\ \A c \in Caller, i \in 1 .. Len(channel) : calls[c] # None => calls[c].id # channel[i].id
    /\ Busy => /\ \A i \in 1 .. Len(channel) : channel[i].id # item.id
               /\ \A c \in Caller : calls[c] # None => calls[c].id # item.id

(* Ids are given out in order.                                             *)
Fresh == \A id \in Id : id >= next_id => jobs[id] = None

(* Only a completed record shows a measurement.                            *)
Measured ==
    \A id \in Id : jobs[id] # None /\ jobs[id].state # "Completed" =>
        jobs[id].video # "reported" /\ jobs[id].audio # "reported"

(* The monitor has reports only of the encode in hand.                     *)
Reporting ==
    sink # << >> => worker.pc \in {"Encoding", "MovedAside", "Landed", "Returned"}

(* A backend that returned has answered.                                   *)
Answered == worker.pc = "Returned" => worker.result # "none"

(* An encode read no source older than the one its job was accepted with.  *)
ReadSince(used) == used # {} /\ \A u \in used : item.verified <= u /\ u <= source

(* What is at the output of the job in hand, by the worker's place.        *)
OutputOfItem ==
    LET file == files[item.path] IN
    /\ worker.pc = "Encoding" => item.overwrite \/ file = None
    /\ worker.pc \in {"Encoding", "MovedAside"} => ReadSince(worker.used)
    /\ worker.pc = "MovedAside" => file = None
    /\ worker.pc \in {"Landed", "Checking"} \/ (worker.pc = "Returned" /\ worker.result = "ok") =>
          file # None /\ file.id = item.id /\ ReadSince(file.used)
    /\ worker.pc = "Quarantining" => file # None /\ file.id = item.id
    /\ worker.pc = "Verifying" => file = [id |-> item.id, used |-> {item.verified}]

(* No request was checked against sources that did not exist yet.          *)
VerifiedInPast ==
    /\ \A c \in Caller : calls[c] # None => calls[c].verified <= source
    /\ \A i \in 1 .. Len(channel) : channel[i].verified <= source
    /\ Busy => item.verified <= source

QueueInv ==
    /\ Recorded /\ HeldOnce /\ Fresh /\ Measured /\ VerifiedInPast
    /\ Reporting /\ Answered /\ OutputOfItem

-----------------------------------------------------------------------------
(* The job in the worker's hands.                                          *)
LEMMA InHand ==
    ASSUME TypeOK, Recorded, Busy
    PROVE  /\ item \in WorkItem /\ item.id \in Id /\ item.path \in Path
           /\ item.verified \in 0 .. MaxChanges
           /\ jobs[item.id] \in ExportJobRecord /\ jobs[item.id] # None
<1>1. item \in WorkItem /\ item.id # 0 /\ jobs[item.id] # None
  BY DEF Recorded, TypeOK, Worker, item
<1>2. item.id \in Id /\ item.path \in Path /\ item.verified \in 0 .. MaxChanges
  BY <1>1 DEF WorkItem
<1> QED
  BY <1>1, <1>2 DEF TypeOK

(* What a step of the worker with a job in hand does to the records: it    *)
(* touches its own only, keeps a cancelled one cancelled, and lets go of a *)
(* record in any state or keeps one that is running or cancelled.          *)
Handles ==
    /\ UNCHANGED << calls, channel, next_id, source >>
    /\ jobs' \in [Id -> ExportJobRecord \cup {None}]
    /\ \A id \in Id \ {item.id} : jobs'[id] = jobs[id]
    /\ jobs'[item.id] # None
    /\ jobs'[item.id].state # "Completed" =>
          jobs'[item.id].video # "reported" /\ jobs'[item.id].audio # "reported"
    /\ IsCancelled(item.id) => jobs'[item.id].state = "Cancelled"
    /\ \/ worker'.pc = "Waiting"
       \/ /\ worker'.item = item
          /\ worker'.pc \in Place \ {"Waiting", "Taken"}
          /\ jobs'[item.id].state \in Started

(* Such a step keeps everything that is said of records and ids.           *)
LEMMA HandlesKeeps ==
    ASSUME TypeOK, QueueInv, Busy, Handles
    PROVE  Recorded' /\ HeldOnce' /\ Fresh' /\ Measured' /\ VerifiedInPast'
<1>1. item.id \in Id /\ jobs[item.id] # None
  BY InHand DEF QueueInv
<1>2. \A c \in Caller : calls[c] # None => calls[c] \in WorkItem
  BY DEF TypeOK
<1>3. \A i \in 1 .. Len(channel) : channel[i] \in WorkItem
  BY ElementOfSeq DEF TypeOK
<1>4. Recorded'
  <2>1. ASSUME NEW c \in Caller, calls[c] # None, calls[c].id # 0
        PROVE  jobs'[calls[c].id] # None /\ jobs'[calls[c].id].state \in Unstarted
    <3>1. calls[c].id \in Id \ {item.id}
      BY <1>2, <2>1 DEF QueueInv, HeldOnce, WorkItem
    <3> QED
      BY <2>1, <3>1 DEF Handles, QueueInv, Recorded
  <2>2. ASSUME NEW i \in 1 .. Len(channel)
        PROVE  /\ channel[i].id # 0 /\ jobs'[channel[i].id] # None
               /\ jobs'[channel[i].id].state \in Unstarted
    <3>1. channel[i].id \in Id \ {item.id}
      BY <1>3 DEF QueueInv, HeldOnce, WorkItem, Recorded
    <3> QED
      BY <3>1 DEF Handles, QueueInv, Recorded
  <2>3. ASSUME Busy'
        PROVE  /\ item' # None /\ item'.id # 0 /\ jobs'[item'.id] # None
               /\ worker'.pc = "Taken" => jobs'[item'.id].state \in Unstarted
               /\ worker'.pc # "Taken" => jobs'[item'.id].state \in Started
    BY <2>3 DEF Handles, Busy, QueueInv, Recorded, item
  <2> QED
    BY <2>1, <2>2, <2>3 DEF Recorded, Handles
<1>5. HeldOnce'
  <2>1. Busy' => item' = item
    BY DEF Handles, Busy, item
  <2> QED
    BY <2>1 DEF HeldOnce, Handles, QueueInv
<1>6. Fresh'
  BY <1>1 DEF Fresh, Handles, QueueInv
<1>7. Measured'
  BY <1>1 DEF Measured, Handles, QueueInv
<1>8. VerifiedInPast'
  <2>1. Busy' => item' = item
    BY DEF Handles, Busy, item
  <2> QED
    BY <2>1 DEF VerifiedInPast, Handles, QueueInv
<1> QED
  BY <1>4, <1>5, <1>6, <1>7, <1>8

(* A step that leaves the records alone and moves the worker on.           *)
LEMMA HandlesMove ==
    ASSUME TypeOK, QueueInv, Busy, worker.pc # "Taken",
           UNCHANGED << jobs, next_id, calls, channel, source >>,
           worker'.item = item, worker'.pc \in Place \ {"Waiting", "Taken"}
    PROVE  Handles
<1>1. item.id \in Id /\ jobs[item.id] # None
  BY InHand DEF QueueInv
<1>2. jobs[item.id].state \in Started
  BY DEF QueueInv, Recorded
<1> QED
  BY <1>1, <1>2 DEF Handles, TypeOK, QueueInv, Measured, IsCancelled

(* The records after a change of one of them.                              *)
LEMMA OneRecord ==
    ASSUME TypeOK, NEW id \in Id, NEW r \in ExportJobRecord,
           jobs' = [jobs EXCEPT ![id] = r]
    PROVE  /\ jobs' \in [Id -> ExportJobRecord \cup {None}]
           /\ jobs'[id] = r /\ r # None
           /\ \A k \in Id \ {id} : jobs'[k] = jobs[k]
BY NoneIsNoValue DEF TypeOK

(* Every kind of step the worker takes with a job in hand is of that form. *)
HandStep ==
    \/ MarkRunning \/ PreflightAgain \/ StartEncode \/ RefuseWork
    \/ EncodeFails \/ Land \/ MoveAside \/ LandOver \/ LandFails \/ RemoveBackup
    \/ JoinMonitor \/ CheckSources \/ QuarantineUntrustedOutput
    \/ FinishVerification \/ Fail

LEMMA HandStepHandles ==
    ASSUME TypeOK, QueueInv, HandStep
    PROVE  Busy /\ Handles
<1> USE DEF At, Goto, Busy
<1>1. Busy
  BY DEF HandStep, MarkRunning, PreflightAgain, StartEncode, RefuseWork, EncodeFails, Land,
         MoveAside, LandOver, LandFails, RemoveBackup, JoinMonitor, CheckSources,
         QuarantineUntrustedOutput, FinishVerification, Fail
<1> DEFINE j == jobs[item.id]
<1>2. /\ item \in WorkItem /\ item.id \in Id /\ j \in ExportJobRecord /\ j # None
      /\ worker \in Worker
  BY <1>1, InHand DEF QueueInv, TypeOK
<1>3. /\ worker.pc = "Taken" => j.state \in Unstarted
      /\ worker.pc # "Taken" => j.state \in Started
      /\ j.state # "Completed" => j.video # "reported" /\ j.audio # "reported"
  BY <1>1, <1>2 DEF QueueInv, Recorded, Measured
<1>4. Waiting.pc = "Waiting"
  BY DEF Waiting
<1>5. ASSUME NEW r \in ExportJobRecord, jobs' = [jobs EXCEPT ![item.id] = r],
             UNCHANGED << calls, channel, next_id, source >>,
             r.state # "Completed" => r.video # "reported" /\ r.audio # "reported",
             j.state = "Cancelled" => r.state = "Cancelled",
             \/ worker' = Waiting
             \/ /\ worker'.item = item /\ worker'.pc \in Place \ {"Waiting", "Taken"}
                /\ r.state \in Started
      PROVE  Handles
  <2>1. /\ jobs' \in [Id -> ExportJobRecord \cup {None}]
        /\ jobs'[item.id] = r /\ r # None
        /\ \A k \in Id \ {item.id} : jobs'[k] = jobs[k]
    BY <1>2, <1>5, OneRecord
  <2> QED
    BY <1>4, <1>5, <2>1 DEF Handles, IsCancelled
<1>6. CASE PreflightAgain \/ StartEncode \/ RefuseWork \/ MoveAside \/ LandOver
           \/ QuarantineUntrustedOutput
  <2>1. /\ UNCHANGED << jobs, next_id, calls, channel, source >>
        /\ worker'.item = item /\ worker'.pc \in Place \ {"Waiting", "Taken"}
        /\ worker.pc # "Taken"
    BY <1>2, <1>6 DEF PreflightAgain, StartEncode, RefuseWork, MoveAside, LandOver,
                QuarantineUntrustedOutput, Worker, Place, item
  <2> QED
    BY <1>1, <2>1, HandlesMove
<1>7. CASE EncodeFails \/ Land \/ LandFails \/ RemoveBackup
  <2>1. /\ UNCHANGED << jobs, next_id, calls, channel, source >>
        /\ \E result \in {"ok", "failed", "cancelled"} : Returned(result)
        /\ worker.pc # "Taken"
    BY <1>7 DEF EncodeFails, Land, LandFails, RemoveBackup
  <2>2. worker'.item = item /\ worker'.pc \in Place \ {"Waiting", "Taken"}
    BY <2>1 DEF Returned, Waiting, Place
  <2> QED
    BY <1>1, <2>1, <2>2, HandlesMove
<1>8. CASE MarkRunning
  <2>1. CASE j.state = "Queued"
    <3> DEFINE r == [j EXCEPT !.state = "Running"]
    <3>1. r \in ExportJobRecord /\ r.state = "Running" /\ r.video = j.video /\ r.audio = j.audio
      BY <1>2 DEF ExportJobRecord, ExportJobState
    <3>2. jobs' = [jobs EXCEPT ![item.id] = r]
      BY <1>8, <2>1 DEF MarkRunning
    <3>3. worker'.item = item /\ worker'.pc \in Place \ {"Waiting", "Taken"}
      BY <1>2, <1>8, <2>1 DEF MarkRunning, Worker, Place, item
    <3> HIDE DEF r
    <3> QED
      BY <1>3, <1>5, <1>8, <2>1, <3>1, <3>2, <3>3 DEF MarkRunning, Started
  <2>2. CASE j.state # "Queued"
    <3> DEFINE r == [j EXCEPT !.state = "Cancelled", !.video = "none", !.audio = "none"]
    <3>1. r \in ExportJobRecord /\ r.state = "Cancelled" /\ r.video = "none" /\ r.audio = "none"
      BY <1>2 DEF ExportJobRecord, ExportJobState, Measurement
    <3>2. jobs' = [jobs EXCEPT ![item.id] = r] /\ worker' = Waiting
      BY <1>8, <2>2 DEF MarkRunning, MarkCancelled
    <3> HIDE DEF r
    <3> QED
      BY <1>5, <1>8, <3>1, <3>2 DEF MarkRunning
  <2> QED
    BY <2>1, <2>2
<1>9. ASSUME NEW video \in {"none", "cancelled"}, NEW audio \in {"none", "cancelled"},
             jobs' = MarkCancelled(item.id, video, audio), worker' = Waiting,
             UNCHANGED << calls, channel, next_id, source >>
      PROVE  Handles
  <2> DEFINE r == [j EXCEPT !.state = "Cancelled", !.video = video, !.audio = audio]
  <2>1. r \in ExportJobRecord /\ r.state = "Cancelled" /\ r.video = video /\ r.audio = audio
    BY <1>2 DEF ExportJobRecord, ExportJobState, Measurement
  <2>2. jobs' = [jobs EXCEPT ![item.id] = r]
    BY <1>9 DEF MarkCancelled
  <2> HIDE DEF r
  <2> QED
    BY <1>5, <1>9, <2>1, <2>2
<1>10. CASE JoinMonitor
  <2>1. UNCHANGED << calls, channel, next_id, source >> /\ worker.pc = "Returned"
    BY <1>10 DEF JoinMonitor
  <2>2. CASE IsCancelled(item.id) \/ worker.result = "cancelled"
    <3>1. \E video, audio \in {"none", "cancelled"} :
             jobs' = MarkCancelled(item.id, video, audio) /\ worker' = Waiting
      BY <1>10, <2>2 DEF JoinMonitor
    <3> QED
      BY <1>9, <2>1, <3>1
  <2>3. CASE ~ IsCancelled(item.id) /\ worker.result # "cancelled"
    <3>1. /\ UNCHANGED jobs
          /\ worker' = [worker EXCEPT !.pc = "Checking"] \/ worker' = [worker EXCEPT !.pc = "Failing"]
      BY <1>2, <1>10, <2>1, <2>3 DEF JoinMonitor, QueueInv, Answered, Worker
    <3>2. worker'.item = item /\ worker'.pc \in Place \ {"Waiting", "Taken"}
      BY <1>2, <3>1 DEF Worker, Place, item
    <3> QED
      BY <1>1, <2>1, <3>1, <3>2, HandlesMove
  <2> QED
    BY <2>2, <2>3
<1>11. CASE CheckSources
  <2>1. UNCHANGED << calls, channel, next_id, source >> /\ worker.pc = "Checking"
    BY <1>11 DEF CheckSources
  <2>2. worker'.item = item /\ worker'.pc \in Place \ {"Waiting", "Taken"}
    BY <1>2, <1>11 DEF CheckSources, Worker, Place, item
  <2>3. CASE SourceIdentityDrift
    BY <1>1, <1>11, <2>1, <2>2, <2>3, HandlesMove DEF CheckSources
  <2>4. CASE ~ SourceIdentityDrift
    <3> DEFINE r == [j EXCEPT !.verifying = TRUE]
    <3>1. r \in ExportJobRecord /\ r.state = j.state /\ r.video = j.video /\ r.audio = j.audio
      BY <1>2 DEF ExportJobRecord
    <3>2. jobs' = [jobs EXCEPT ![item.id] = r]
      BY <1>11, <2>4 DEF CheckSources
    <3> HIDE DEF r
    <3> QED
      BY <1>3, <1>5, <2>1, <2>2, <3>1, <3>2
  <2> QED
    BY <2>3, <2>4
<1>12. CASE FinishVerification
  <2> DEFINE video == IF item.verify THEN "reported" ELSE "none"
             r == IF IsCancelled(item.id) THEN [j EXCEPT !.verifying = FALSE]
                  ELSE Completed(j, video, "reported")
  <2>1. /\ r \in ExportJobRecord
        /\ j.state = "Cancelled" => r.state = "Cancelled" /\ r.video = j.video /\ r.audio = j.audio
        /\ j.state # "Cancelled" => r.state = "Completed"
    <3>1. CASE IsCancelled(item.id)
      BY <1>2, <3>1 DEF IsCancelled, ExportJobRecord
    <3>2. CASE ~ IsCancelled(item.id)
      <4>1. video \in Measurement /\ "reported" \in Measurement
        BY DEF Measurement
      <4>2. Frames \in 0 .. Frames
        BY QueueConstants
      <4>3. r = Completed(j, video, "reported")
        BY <3>2
      <4> HIDE DEF video
      <4> QED
        BY <1>2, <3>2, <4>1, <4>2, <4>3 DEF Completed, ExportJobRecord, ExportJobState, IsCancelled
    <3> QED
      BY <3>1, <3>2
  <2>2. jobs' = [jobs EXCEPT ![item.id] = r] /\ worker' = Waiting
        /\ UNCHANGED << calls, channel, next_id, source >>
    BY <1>12 DEF FinishVerification, MarkCompleted
  <2>3. j.state # "Completed" /\ "Cancelled" # "Completed"
    BY <1>3, <1>12 DEF FinishVerification, Started
  <2> HIDE DEF r, j
  <2>4. r.state # "Completed" => r.video # "reported" /\ r.audio # "reported"
    BY <1>3, <2>1, <2>3
  <2> QED
    BY <1>1, <1>5, <2>1, <2>2, <2>4
<1>13. CASE Fail
  <2> DEFINE r == IF j.state = "Cancelled" THEN j ELSE [j EXCEPT !.state = "Failed"]
  <2>1. /\ r \in ExportJobRecord /\ r.video = j.video /\ r.audio = j.audio
        /\ j.state = "Cancelled" => r.state = "Cancelled"
        /\ j.state # "Cancelled" => r.state = "Failed"
    BY <1>2 DEF ExportJobRecord, ExportJobState
  <2>2. jobs' = [jobs EXCEPT ![item.id] = r] /\ worker' = Waiting
        /\ UNCHANGED << calls, channel, next_id, source >> /\ worker.pc = "Failing"
    BY <1>2, <1>13 DEF Fail, MarkFailed, IsCancelled, TypeOK
  <2> HIDE DEF r
  <2> QED
    BY <1>3, <1>5, <2>1, <2>2 DEF Started
<1> QED
  BY <1>1, <1>6, <1>7, <1>8, <1>10, <1>11, <1>12, <1>13 DEF HandStep

-----------------------------------------------------------------------------
(* A fresh queue.                                                          *)
LEMMA QueueInit == Init => TypeOK /\ QueueInv
<1> SUFFICES ASSUME Init PROVE TypeOK /\ QueueInv
  OBVIOUS
<1>1. /\ worker = Waiting /\ Waiting \in Worker /\ worker.pc = "Waiting"
  <2>1. 0 \in 0 .. Frames + 1 /\ {} \in SUBSET (0 .. MaxChanges)
    BY QueueConstants
  <2> QED
    BY <2>1 DEF Init, Waiting, Worker, Place
<1>2. channel \in Seq(WorkItem) /\ Len(channel) = 0 /\ sink \in Seq(0 .. Frames)
  BY EmptySeq DEF Init
<1>3. TypeOK
  BY <1>1, <1>2, QueueConstants DEF Init, TypeOK, Id
<1>4. QueueInv
  BY <1>1, <1>2 DEF Init, QueueInv, Recorded, HeldOnce, Fresh, Measured, VerifiedInPast,
                    Reporting, Answered, OutputOfItem, Busy
<1> QED
  BY <1>3, <1>4

(* The worker's steps with a job in hand keep the types.                   *)
LEMMA HandStepType ==
    ASSUME TypeOK, QueueInv, HandStep
    PROVE  TypeOK'
<1> USE DEF At, Goto
<1>1. Busy /\ Handles
  BY HandStepHandles
<1>2. /\ item \in WorkItem /\ item.id \in Id /\ item.path \in Path /\ worker \in Worker
      /\ source \in 0 .. MaxChanges /\ worker.used \in SUBSET (0 .. MaxChanges)
      /\ Frames \in Nat
  BY <1>1, InHand, QueueConstants DEF QueueInv, TypeOK, Worker
<1>3. Waiting \in Worker
  <2>1. 0 \in 0 .. Frames + 1 /\ {} \in SUBSET (0 .. MaxChanges)
    BY QueueConstants
  <2> QED
    BY <2>1 DEF Waiting, Worker, Place
<1>4. worker' \in Worker
  <2>1. ASSUME NEW pc \in Place, worker' = [worker EXCEPT !.pc = pc] PROVE worker' \in Worker
    BY <1>2, <2>1 DEF Worker
  <2>2. ASSUME NEW result \in {"ok", "failed", "cancelled"}, Returned(result)
        PROVE  worker' \in Worker
    BY <1>2, <1>3, <2>2 DEF Returned, Worker, Place, Waiting, item
  <2>3. CASE StartEncode
    <3>1. PICK monitor \in BOOLEAN :
            worker' = [worker EXCEPT !.pc = "Encoding", !.monitor = monitor, !.used = {source}]
      BY <2>3 DEF StartEncode
    <3>2. {source} \in SUBSET (0 .. MaxChanges)
      BY <1>2
    <3> QED
      BY <1>2, <3>1, <3>2 DEF Worker, Place
  <2>4. CASE \/ MarkRunning \/ PreflightAgain \/ RefuseWork \/ MoveAside \/ LandOver
             \/ CheckSources \/ QuarantineUntrustedOutput \/ FinishVerification \/ Fail
    <3>1. worker' = Waiting \/ \E pc \in Place : worker' = [worker EXCEPT !.pc = pc]
      BY <2>4 DEF MarkRunning, PreflightAgain, RefuseWork, MoveAside, LandOver, CheckSources,
                  QuarantineUntrustedOutput, FinishVerification, Fail, Place
    <3> QED
      BY <1>3, <2>1, <3>1
  <2>5. CASE JoinMonitor
    <3>1. worker.result \in {"ok", "failed", "cancelled"}
      BY <1>2, <2>5 DEF JoinMonitor, QueueInv, Answered, Worker
    <3>2. worker' = Waiting \/ \E pc \in Place : worker' = [worker EXCEPT !.pc = pc]
      BY <2>5, <3>1 DEF JoinMonitor, Place
    <3> QED
      BY <1>3, <2>1, <3>2
  <2>6. CASE EncodeFails \/ Land \/ LandFails \/ RemoveBackup
    BY <2>2, <2>6 DEF EncodeFails, Land, LandFails, RemoveBackup
  <2> QED
    BY <2>3, <2>4, <2>5, <2>6 DEF HandStep
<1>5. /\ files' \in [Path -> Output \cup {None}] /\ backups' \in [Path -> Output \cup {None}]
      /\ sink' = sink
  <2>1. files \in [Path -> Output \cup {None}] /\ backups \in [Path -> Output \cup {None}]
    BY DEF TypeOK
  <2>2. NewOutput \in Output
    BY <1>2 DEF NewOutput, Output
  <2>3. CASE UNCHANGED << files, backups, sink >>
    BY <2>1, <2>3
  <2>4. CASE MoveAside \/ LandFails \/ RemoveBackup
    BY <1>2, <2>1, <2>4 DEF MoveAside, LandFails, RemoveBackup
  <2>5. CASE Land \/ LandOver
    BY <1>2, <2>1, <2>2, <2>5 DEF Land, LandOver
  <2>6. CASE QuarantineUntrustedOutput
    BY <1>2, <2>1, <2>6 DEF QuarantineUntrustedOutput
  <2>7. CASE \/ MarkRunning \/ PreflightAgain \/ StartEncode \/ RefuseWork \/ EncodeFails
             \/ JoinMonitor \/ CheckSources \/ FinishVerification \/ Fail
    BY <2>3, <2>7 DEF MarkRunning, PreflightAgain, StartEncode, RefuseWork, EncodeFails,
                      JoinMonitor, CheckSources, FinishVerification, Fail
  <2> QED
    BY <2>4, <2>5, <2>6, <2>7 DEF HandStep
<1> QED
  BY <1>1, <1>4, <1>5 DEF Handles, TypeOK

(* ... and what is known of the output of the job in hand.                 *)
LEMMA HandStepOutput ==
    ASSUME TypeOK, QueueInv, HandStep
    PROVE  Reporting' /\ Answered' /\ OutputOfItem'
<1> USE DEF At, Goto
<1>1. Busy /\ Handles /\ worker' \in Worker
  BY HandStepHandles, HandStepType DEF TypeOK
<1>2. /\ item \in WorkItem /\ item.id \in Id /\ item.path \in Path /\ worker \in Worker
      /\ item.verified \in 0 .. MaxChanges /\ source \in 0 .. MaxChanges
      /\ files \in [Path -> Output \cup {None}] /\ item = worker.item
  BY <1>1, InHand DEF QueueInv, TypeOK, item
<1>3. item.verified <= source /\ source' = source
  BY <1>1 DEF Handles, QueueInv, VerifiedInPast
<1> DEFINE file == files[item.path]
<1>4. ASSUME worker'.pc \notin {"Encoding", "MovedAside", "Landed", "Returned", "Checking",
                                "Quarantining", "Verifying"}, sink' = << >>
      PROVE  Reporting' /\ Answered' /\ OutputOfItem'
  BY <1>4 DEF Reporting, Answered, OutputOfItem
<1>5. ASSUME worker.pc \notin {"Encoding", "MovedAside", "Landed", "Returned"}
      PROVE  sink = << >>
  BY <1>5 DEF QueueInv, Reporting
<1>6. CASE MarkRunning \/ PreflightAgain \/ RefuseWork \/ FinishVerification \/ Fail
  <2>1. /\ worker'.pc \in {"Waiting", "Preflight", "Validating", "Failing"}
        /\ worker.pc \in {"Taken", "Preflight", "Validating", "Verifying", "Failing"}
        /\ sink' = sink
    BY <1>2, <1>6 DEF MarkRunning, PreflightAgain, RefuseWork, FinishVerification, Fail,
                Worker, Waiting
  <2> QED
    BY <1>4, <1>5, <2>1
<1>7. CASE StartEncode
  <2>1. PICK monitor \in BOOLEAN :
          worker' = [worker EXCEPT !.pc = "Encoding", !.monitor = monitor, !.used = {source}]
    BY <1>7 DEF StartEncode
  <2>2. /\ worker'.pc = "Encoding" /\ worker'.item = item /\ worker'.used = {source}
        /\ files' = files
    BY <1>2, <1>7, <2>1 DEF StartEncode, Worker
  <2>3. item.overwrite \/ file = None
    BY <1>7 DEF StartEncode, ValidateWorkerOutput, MayWrite
  <2>4. ReadSince(worker.used)'
    BY <1>2, <1>3, <2>2 DEF ReadSince, item
  <2> QED
    BY <2>2, <2>3, <2>4 DEF Reporting, Answered, OutputOfItem, item
<1>8. CASE EncodeFails \/ LandFails
  <2>1. PICK result \in {"failed", "cancelled"} : Returned(result)
    BY <1>8 DEF EncodeFails, LandFails
  <2>2. worker'.pc = "Returned" /\ worker'.result = result
    BY <2>1 DEF Returned, Waiting
  <2> QED
    BY <2>1, <2>2 DEF Reporting, Answered, OutputOfItem
<1>9. ASSUME NEW used, worker.used = used, ReadSince(used),
             files' = [files EXCEPT ![item.path] = NewOutput],
             worker'.item = item,
             worker'.pc = "Landed" \/ (worker'.pc = "Returned" /\ worker'.result = "ok")
      PROVE  Reporting' /\ Answered' /\ OutputOfItem'
  <2>1. files'[item.path] = NewOutput /\ NewOutput \in Output
    BY <1>2, <1>9 DEF NewOutput, Output, Worker
  <2>2. NewOutput # None /\ NewOutput.id = item.id /\ NewOutput.used = used
    BY <1>9, <2>1, NoneIsNoValue DEF NewOutput
  <2>3. (ReadSince(used))'
    BY <1>3, <1>9 DEF ReadSince, item
  <2> HIDE DEF file
  <2> QED
    BY <1>9, <2>1, <2>2, <2>3 DEF Reporting, Answered, OutputOfItem, item
<1>10. CASE Land
  <2>1. worker'.item = item /\ worker'.pc = "Returned" /\ worker'.result = "ok"
    BY <1>10 DEF Land, Returned, Waiting
  <2>2. ReadSince(worker.used)
    BY <1>10 DEF Land, QueueInv, OutputOfItem
  <2> QED
    BY <1>9, <1>10, <2>1, <2>2 DEF Land
<1>11. CASE LandOver
  <2>1. worker'.item = item /\ worker'.pc = "Landed"
    BY <1>2, <1>11 DEF LandOver, Worker
  <2>2. ReadSince(worker.used)
    BY <1>11 DEF LandOver, QueueInv, OutputOfItem
  <2> QED
    BY <1>9, <1>11, <2>1, <2>2 DEF LandOver
<1>12. CASE MoveAside
  <2>1. worker'.item = item /\ worker'.pc = "MovedAside" /\ worker'.used = worker.used
    BY <1>2, <1>12 DEF MoveAside, Worker
  <2>2. files'[item.path] = None
    BY <1>2, <1>12 DEF MoveAside
  <2>3. ReadSince(worker.used)'
    <3>1. ReadSince(worker.used)
      BY <1>12 DEF MoveAside, QueueInv, OutputOfItem
    <3> QED
      BY <1>3, <2>1, <3>1 DEF ReadSince, item
  <2> QED
    BY <2>1, <2>2, <2>3 DEF Reporting, Answered, OutputOfItem, item
<1>13. ASSUME files' = files, worker'.item = item, sink' = sink,
              worker.pc \in {"Landed", "Checking"} \/ (worker.pc = "Returned" /\ worker.result = "ok"),
              worker'.pc \in {"Checking", "Quarantining"}
                \/ (worker'.pc = "Returned" /\ worker'.result = "ok"),
              worker.pc = "Landed" \/ sink = << >>,
              worker.pc = "Landed" => worker'.pc = "Returned"
       PROVE  Reporting' /\ Answered' /\ OutputOfItem'
  <2>1. file # None /\ file.id = item.id /\ ReadSince(file.used)
    BY <1>13 DEF QueueInv, OutputOfItem
  <2>2. \A u : ReadSince(u) => (ReadSince(u))'
    BY <1>3, <1>13 DEF ReadSince, item
  <2>3. OutputOfItem'
    BY <1>13, <2>1, <2>2 DEF OutputOfItem, item
  <2> QED
    BY <1>13, <2>3 DEF Reporting, Answered
<1>14. CASE RemoveBackup
  <2>1. /\ files' = files /\ sink' = sink /\ worker.pc = "Landed"
        /\ Returned("ok") \/ Returned("failed")
    BY <1>14 DEF RemoveBackup
  <2>2. CASE Returned("ok")
    <3>1. worker'.item = item /\ worker'.pc = "Returned" /\ worker'.result = "ok"
      BY <2>2 DEF Returned, Waiting
    <3> QED
      BY <1>13, <2>1, <3>1
  <2>3. CASE Returned("failed")
    <3>1. worker'.pc = "Returned" /\ worker'.result = "failed"
      BY <2>3 DEF Returned, Waiting
    <3> QED
      BY <3>1 DEF Reporting, Answered, OutputOfItem
  <2> QED
    BY <2>1, <2>2, <2>3
<1>15. CASE JoinMonitor
  <2>1. sink = << >> /\ sink' = sink /\ files' = files /\ worker.pc = "Returned"
        /\ worker.result \in {"ok", "failed", "cancelled"}
    BY <1>2, <1>15 DEF JoinMonitor, QueueInv, Answered, Worker
  <2>2. CASE worker' = Waiting
    BY <1>4, <2>1, <2>2 DEF Waiting
  <2>3. CASE worker' # Waiting /\ worker.result = "failed"
    <3>1. worker'.pc = "Failing"
      BY <1>2, <1>15, <2>3 DEF JoinMonitor, Worker
    <3> QED
      BY <1>4, <2>1, <3>1
  <2>4. CASE worker' # Waiting /\ worker.result = "ok"
    <3>1. worker'.pc = "Checking" /\ worker'.item = item
      BY <1>2, <1>15, <2>4 DEF JoinMonitor, Worker
    <3> QED
      BY <1>13, <2>1, <2>4, <3>1
  <2>5. CASE worker.result = "cancelled"
    <3>1. worker' = Waiting
      BY <1>15, <2>5 DEF JoinMonitor
    <3> QED
      BY <2>2, <3>1
  <2> QED
    BY <2>1, <2>2, <2>3, <2>4, <2>5
<1>16. CASE CheckSources
  <2>1. worker.pc = "Checking" /\ files' = files /\ sink' = sink /\ sink = << >>
    BY <1>5, <1>16 DEF CheckSources
  <2>2. CASE SourceIdentityDrift
    <3>1. worker'.pc = "Quarantining" /\ worker'.item = item
      BY <1>2, <1>16, <2>2 DEF CheckSources, Worker
    <3> QED
      BY <1>13, <2>1, <3>1
  <2>3. CASE ~ SourceIdentityDrift
    <3>1. worker'.pc = "Verifying" /\ worker'.item = item
      BY <1>2, <1>16, <2>3 DEF CheckSources, Worker
    <3>2. file \in Output /\ file.id = item.id /\ ReadSince(file.used)
      BY <1>2, <2>1 DEF QueueInv, OutputOfItem
    <3>3. file.used = {item.verified}
      BY <1>2, <2>3, <3>2 DEF ReadSince, SourceIdentityDrift, Output
    <3>4. file = [id |-> item.id, used |-> {item.verified}]
      BY <3>2, <3>3 DEF Output
    <3> QED
      BY <2>1, <3>1, <3>4 DEF Reporting, Answered, OutputOfItem, item
  <2> QED
    BY <2>2, <2>3
<1>17. CASE QuarantineUntrustedOutput
  <2>1. worker'.pc = "Failing" /\ sink' = sink /\ worker.pc = "Quarantining"
    BY <1>2, <1>17 DEF QuarantineUntrustedOutput, Worker
  <2> QED
    BY <1>4, <1>5, <2>1
<1> QED
  BY <1>6, <1>7, <1>8, <1>10, <1>11, <1>12, <1>14, <1>15, <1>16, <1>17 DEF HandStep

-----------------------------------------------------------------------------
(* What a caller or a canceller does leaves the worker and the files.      *)
LEMMA OutsideOutput ==
    ASSUME QueueInv, UNCHANGED << worker, sink, source, files >>
    PROVE  Reporting' /\ Answered' /\ OutputOfItem'
BY DEF QueueInv, Reporting, Answered, OutputOfItem, ReadSince, item

(* Where ids are held, with their types.                                   *)
LEMMA Held ==
    ASSUME TypeOK, Recorded
    PROVE  /\ \A c \in Caller : calls[c] # None => calls[c] \in WorkItem
           /\ \A c \in Caller : calls[c] # None /\ calls[c].id # 0 => calls[c].id \in Id
           /\ \A i \in 1 .. Len(channel) : channel[i] \in WorkItem /\ channel[i].id \in Id
           /\ Len(channel) \in Nat
<1>1. channel \in Seq(WorkItem)
  BY DEF TypeOK
<1>2. \A i \in 1 .. Len(channel) : channel[i] \in WorkItem
  BY <1>1, ElementOfSeq
<1>3. Len(channel) \in Nat
  BY <1>1, LenProperties
<1> QED
  BY <1>2, <1>3 DEF TypeOK, Recorded, WorkItem

(* The checks before the lock.                                             *)
LEMMA PreflightKeeps ==
    ASSUME TypeOK, QueueInv, NEW c \in Caller, NEW path \in Path,
           NEW overwrite \in BOOLEAN, NEW verify \in BOOLEAN,
           Preflight(c, path, overwrite, verify)
    PROVE  TypeOK' /\ QueueInv'
<1> DEFINE w == [id |-> 0, path |-> path, overwrite |-> overwrite,
                 verify |-> verify, verified |-> source]
<1>1. w \in WorkItem /\ w.id = 0 /\ w.verified = source
  BY DEF WorkItem, TypeOK
<1>2. w # None
  BY <1>1, NoneIsNoValue
<1>3. calls' = [calls EXCEPT ![c] = w]
      /\ UNCHANGED << jobs, next_id, channel, worker, sink, source, files, backups >>
  BY DEF Preflight
<1> HIDE DEF w
<1>4. calls'[c] = w /\ \A d \in Caller \ {c} : calls'[d] = calls[d]
  BY <1>3 DEF TypeOK
<1>5. TypeOK'
  BY <1>1, <1>3 DEF TypeOK
<1>6. Recorded'
  BY <1>1, <1>3, <1>4 DEF Recorded, QueueInv, Busy, item
<1>7. HeldOnce'
  <2>1. \A i \in 1 .. Len(channel) : channel[i].id # 0
    BY DEF QueueInv, Recorded
  <2>2. Busy => item.id # 0
    BY DEF QueueInv, Recorded
  <2>3. UNCHANGED << channel, Busy, item >>
    BY <1>3 DEF Busy, item
  <2> QED
    BY <1>1, <1>4, <2>1, <2>2, <2>3 DEF HeldOnce, QueueInv
<1>8. Fresh' /\ Measured'
  BY <1>3 DEF QueueInv, Fresh, Measured
<1>9. VerifiedInPast'
  BY <1>1, <1>3, <1>4 DEF QueueInv, VerifiedInPast, Busy, item, TypeOK
<1> QED
  BY <1>3, <1>5, <1>6, <1>7, <1>8, <1>9, OutsideOutput DEF QueueInv

(* The record and the id are made under the lock.                          *)
LEMMA InsertKeeps ==
    ASSUME TypeOK, QueueInv, NEW c \in Caller, Insert(c)
    PROVE  TypeOK' /\ QueueInv'
<1> DEFINE w == [calls[c] EXCEPT !.id = next_id]
           r == NewRecord(calls[c].path)
<1>1. calls[c] \in WorkItem /\ next_id \in Id /\ MaxJobs \in Nat
  BY QueueConstants DEF Insert, TypeOK, Id
<1>2. w \in WorkItem /\ w.id = next_id /\ w.verified = calls[c].verified
  BY <1>1 DEF WorkItem
<1>3. r \in ExportJobRecord /\ r.state = "Queued" /\ r.video = "none" /\ r.audio = "none"
  BY <1>1 DEF WorkItem, NewRecord, ExportJobRecord, ExportJobState, Measurement
<1>4. /\ calls' = [calls EXCEPT ![c] = w] /\ jobs' = [jobs EXCEPT ![next_id] = r]
      /\ next_id' = next_id + 1
      /\ UNCHANGED << channel, worker, sink, source, files, backups >>
  BY DEF Insert
<1>5. w # None /\ r # None
  BY <1>2, <1>3, NoneIsNoValue
<1> HIDE DEF w, r
<1>6. /\ calls'[c] = w /\ \A d \in Caller \ {c} : calls'[d] = calls[d]
  BY <1>4 DEF TypeOK
<1>7. /\ jobs' \in [Id -> ExportJobRecord \cup {None}]
      /\ jobs'[next_id] = r /\ \A id \in Id \ {next_id} : jobs'[id] = jobs[id]
  BY <1>1, <1>3, <1>4, OneRecord
<1>8. TypeOK'
  BY <1>1, <1>2, <1>4, <1>7 DEF TypeOK, Id
<1>9. jobs[next_id] = None
  BY <1>1 DEF QueueInv, Fresh, Id
<1>10. /\ \A d \in Caller : calls[d] # None => calls[d].id # next_id
       /\ \A i \in 1 .. Len(channel) : channel[i].id # next_id
       /\ Busy => item.id # next_id
  BY <1>1, <1>9 DEF QueueInv, Recorded, Id
<1>11. UNCHANGED << channel, Busy, item, worker, source >>
  BY <1>4 DEF Busy, item
<1>12. /\ \A d \in Caller : calls[d] # None /\ calls[d].id # 0 => calls[d].id \in Id
       /\ \A i \in 1 .. Len(channel) : channel[i].id \in Id
  BY Held DEF QueueInv
<1>13. Recorded'
  <2>1. ASSUME NEW d \in Caller, calls'[d] # None, calls'[d].id # 0
        PROVE  jobs'[calls'[d].id] # None /\ jobs'[calls'[d].id].state \in Unstarted
    <3>1. CASE d = c
      BY <1>2, <1>3, <1>5, <1>6, <1>7, <3>1 DEF Unstarted
    <3>2. CASE d # c
      <4>1. calls'[d] = calls[d] /\ calls[d].id \in Id \ {next_id}
        BY <1>6, <1>10, <1>12, <2>1, <3>2
      <4> QED
        BY <1>7, <2>1, <4>1 DEF QueueInv, Recorded
    <3> QED
      BY <3>1, <3>2
  <2>2. ASSUME NEW i \in 1 .. Len(channel)
        PROVE  channel[i].id # 0 /\ jobs'[channel[i].id] # None
               /\ jobs'[channel[i].id].state \in Unstarted
    BY <1>7, <1>10, <1>12 DEF QueueInv, Recorded
  <2>3. ASSUME Busy
        PROVE  /\ item # None /\ item.id # 0 /\ jobs'[item.id] # None
               /\ worker.pc = "Taken" => jobs'[item.id].state \in Unstarted
               /\ worker.pc # "Taken" => jobs'[item.id].state \in Started
    BY <1>7, <1>10, <2>3, InHand DEF QueueInv, Recorded
  <2> QED
    BY <1>11, <2>1, <2>2, <2>3 DEF Recorded
<1>14. HeldOnce'
  BY <1>2, <1>6, <1>10, <1>11 DEF HeldOnce, QueueInv
<1>15. Fresh'
  BY <1>1, <1>4, <1>7 DEF QueueInv, Fresh, Id
<1>16. Measured'
  BY <1>1, <1>3, <1>7 DEF QueueInv, Measured
<1>17. VerifiedInPast'
  BY <1>2, <1>6, <1>11 DEF QueueInv, VerifiedInPast, Insert
<1> QED
  BY <1>4, <1>8, <1>13, <1>14, <1>15, <1>16, <1>17, OutsideOutput DEF QueueInv

(* A call that is over: refused, its record taken back, or its item sent.  *)
LEMMA InsertRefusedKeeps ==
    ASSUME TypeOK, QueueInv, NEW c \in Caller, InsertRefused(c)
    PROVE  TypeOK' /\ QueueInv'
<1>1. /\ calls' = [calls EXCEPT ![c] = None]
      /\ UNCHANGED << jobs, next_id, channel, worker, sink, source, files, backups >>
  BY DEF InsertRefused
<1>2. calls'[c] = None /\ \A d \in Caller \ {c} : calls'[d] = calls[d]
  BY <1>1 DEF TypeOK
<1>3. TypeOK'
  BY <1>1 DEF TypeOK
<1>4. UNCHANGED << jobs, next_id, channel, Busy, item, worker, source >>
  BY <1>1 DEF Busy, item
<1>5. Recorded' /\ HeldOnce'
  BY <1>2, <1>4 DEF QueueInv, Recorded, HeldOnce
<1>6. Fresh' /\ Measured' /\ VerifiedInPast'
  BY <1>2, <1>4 DEF QueueInv, Fresh, Measured, VerifiedInPast
<1> QED
  BY <1>1, <1>3, <1>5, <1>6, OutsideOutput DEF QueueInv

LEMMA TrySendKeeps ==
    ASSUME TypeOK, QueueInv, NEW c \in Caller, TrySend(c)
    PROVE  TypeOK' /\ QueueInv'
<1> DEFINE w == calls[c]
           n == Len(channel)
<1>1. w # None /\ w.id # 0 /\ w \in WorkItem /\ w.id \in Id
  BY Held DEF TrySend, QueueInv
<1>2. calls' = [calls EXCEPT ![c] = None]
      /\ UNCHANGED << next_id, worker, sink, source, files, backups >>
  BY DEF TrySend
<1>3. calls'[c] = None /\ \A d \in Caller \ {c} : calls'[d] = calls[d]
  BY <1>2 DEF TypeOK
<1>4. UNCHANGED << next_id, Busy, item, worker, source >>
  BY <1>2 DEF Busy, item
<1>5. /\ \A d \in Caller : calls[d] # None => calls[d] \in WorkItem
      /\ \A d \in Caller : calls[d] # None /\ calls[d].id # 0 => calls[d].id \in Id
      /\ \A i \in 1 .. n : channel[i] \in WorkItem /\ channel[i].id \in Id
      /\ n \in Nat
  BY Held DEF QueueInv
<1>6. CASE n < Capacity
  <2>1. channel' = Append(channel, w) /\ UNCHANGED jobs
    BY <1>6 DEF TrySend
  <2>2. /\ channel' \in Seq(WorkItem) /\ Len(channel') = n + 1
        /\ \A i \in 1 .. n : channel'[i] = channel[i]
        /\ channel'[n + 1] = w
    BY <1>1, <2>1, AppendProperties DEF TypeOK
  <2>3. TypeOK'
    BY <1>2, <1>5, <1>6, <2>1, <2>2, QueueConstants DEF TypeOK
  <2>4. \A i \in 1 .. Len(channel') : (i \in 1 .. n /\ channel'[i] = channel[i])
                                      \/ (i = n + 1 /\ channel'[i] = w)
    BY <1>5, <2>2
  <2> HIDE DEF n
  <2>5. Recorded'
    BY <1>1, <1>3, <1>4, <2>1, <2>4 DEF QueueInv, Recorded, n
  <2>6. HeldOnce'
    <3>1. /\ \A i \in 1 .. n : w.id # channel[i].id
          /\ Busy => w.id # item.id
          /\ \A d \in Caller \ {c} : calls[d] # None => calls[d].id # w.id
      BY <1>1 DEF QueueInv, HeldOnce, n
    <3>2. ASSUME NEW i \in 1 .. Len(channel'), NEW j \in 1 .. Len(channel'),
                 channel'[i].id = channel'[j].id
          PROVE  i = j
      BY <2>4, <3>1, <3>2 DEF QueueInv, HeldOnce, n
    <3>3. ASSUME NEW d \in Caller, NEW i \in 1 .. Len(channel'), calls'[d] # None
          PROVE  calls'[d].id # channel'[i].id
      BY <1>3, <2>4, <3>1, <3>3 DEF QueueInv, HeldOnce, n
    <3>4. ASSUME NEW d \in Caller, NEW e \in Caller, calls'[d] # None, calls'[e] # None,
                 calls'[d].id # 0, calls'[d].id = calls'[e].id
          PROVE  d = e
      BY <1>3, <3>4 DEF QueueInv, HeldOnce
    <3>5. ASSUME Busy
          PROVE  /\ \A i \in 1 .. Len(channel') : channel'[i].id # item.id
                 /\ \A d \in Caller : calls'[d] # None => calls'[d].id # item.id
      BY <1>3, <2>4, <3>1, <3>5 DEF QueueInv, HeldOnce, n
    <3> QED
      BY <1>4, <3>2, <3>3, <3>4, <3>5 DEF HeldOnce
  <2>7. Fresh' /\ Measured'
    BY <1>4, <2>1 DEF QueueInv, Fresh, Measured
  <2>8. VerifiedInPast'
    BY <1>1, <1>3, <1>4, <2>4 DEF QueueInv, VerifiedInPast, n
  <2> QED
    BY <1>2, <2>3, <2>5, <2>6, <2>7, <2>8, OutsideOutput DEF QueueInv
<1>7. CASE ~ (n < Capacity)
  <2>1. jobs' = [jobs EXCEPT ![w.id] = None] /\ UNCHANGED channel
    BY <1>7 DEF TrySend
  <2>2. jobs'[w.id] = None /\ \A id \in Id \ {w.id} : jobs'[id] = jobs[id]
    BY <1>1, <2>1 DEF TypeOK
  <2>3. TypeOK'
    BY <1>2, <2>1 DEF TypeOK
  <2> HIDE DEF n
  <2>4. /\ \A i \in 1 .. n : channel[i].id \in Id \ {w.id}
        /\ Busy => item.id \in Id \ {w.id}
        /\ \A d \in Caller \ {c} : calls[d] # None /\ calls[d].id # 0 => calls[d].id \in Id \ {w.id}
    <3>1. Busy => item.id \in Id
      BY InHand DEF QueueInv
    <3> QED
      BY <1>1, <1>5, <3>1 DEF QueueInv, HeldOnce, n
  <2>5. Recorded'
    <3>1. ASSUME NEW d \in Caller, calls'[d] # None, calls'[d].id # 0
          PROVE  jobs'[calls'[d].id] # None /\ jobs'[calls'[d].id].state \in Unstarted
      BY <1>3, <2>2, <2>4, <3>1 DEF QueueInv, Recorded
    <3>2. ASSUME NEW i \in 1 .. n
          PROVE  channel[i].id # 0 /\ jobs'[channel[i].id] # None
                 /\ jobs'[channel[i].id].state \in Unstarted
      BY <2>2, <2>4 DEF QueueInv, Recorded, n
    <3>3. ASSUME Busy
          PROVE  /\ item # None /\ item.id # 0 /\ jobs'[item.id] # None
                 /\ worker.pc = "Taken" => jobs'[item.id].state \in Unstarted
                 /\ worker.pc # "Taken" => jobs'[item.id].state \in Started
      BY <2>2, <2>4, <3>3 DEF QueueInv, Recorded
    <3> QED
      BY <1>4, <2>1, <3>1, <3>2, <3>3 DEF Recorded, n
  <2>6. HeldOnce'
    BY <1>3, <1>4, <2>1 DEF QueueInv, HeldOnce
  <2>7. Fresh' /\ Measured'
    BY <1>1, <1>4, <2>2 DEF QueueInv, Fresh, Measured
  <2>8. VerifiedInPast'
    BY <1>3, <1>4, <2>1 DEF QueueInv, VerifiedInPast
  <2> QED
    BY <1>2, <2>3, <2>5, <2>6, <2>7, <2>8, OutsideOutput DEF QueueInv
<1> QED
  BY <1>6, <1>7

(* A change of a record that keeps its state, or cancels an active one.    *)
LEMMA RecordKeeps ==
    ASSUME TypeOK, QueueInv, NEW id \in Id, NEW r \in ExportJobRecord,
           jobs' = [jobs EXCEPT ![id] = r], jobs[id] # None,
           r.state = jobs[id].state \/ (Active(id) /\ r.state = "Cancelled"),
           r.video = jobs[id].video, r.audio = jobs[id].audio,
           UNCHANGED << next_id, calls, channel, worker, source >>
    PROVE  Recorded' /\ HeldOnce' /\ Fresh' /\ Measured' /\ VerifiedInPast'
<1>1. /\ jobs'[id] = r /\ r # None
      /\ \A k \in Id \ {id} : jobs'[k] = jobs[k]
  BY OneRecord
<1>2. UNCHANGED << Busy, item >>
  BY DEF Busy, item
<1>3. \A k \in Id : jobs[k] # None => jobs'[k] # None
                       /\ (jobs'[k].state = jobs[k].state \/ jobs'[k].state = "Cancelled")
  BY <1>1
<1>4. Recorded'
  <2>1. ASSUME NEW c \in Caller, calls[c] # None, calls[c].id # 0
        PROVE  jobs'[calls[c].id] # None /\ jobs'[calls[c].id].state \in Unstarted
    <3>1. calls[c].id \in Id
      BY <2>1, Held DEF QueueInv
    <3> QED
      BY <1>3, <2>1, <3>1 DEF QueueInv, Recorded, Unstarted
  <2>2. ASSUME NEW i \in 1 .. Len(channel)
        PROVE  channel[i].id # 0 /\ jobs'[channel[i].id] # None
               /\ jobs'[channel[i].id].state \in Unstarted
    <3>1. channel[i].id \in Id
      BY Held DEF QueueInv
    <3> QED
      BY <1>3, <3>1 DEF QueueInv, Recorded, Unstarted
  <2>3. ASSUME Busy
        PROVE  /\ item # None /\ item.id # 0 /\ jobs'[item.id] # None
               /\ worker.pc = "Taken" => jobs'[item.id].state \in Unstarted
               /\ worker.pc # "Taken" => jobs'[item.id].state \in Started
    <3>1. item.id \in Id
      BY <2>3, InHand DEF QueueInv
    <3> QED
      BY <1>3, <2>3, <3>1 DEF QueueInv, Recorded, Unstarted, Started
  <2> QED
    BY <1>2, <2>1, <2>2, <2>3 DEF Recorded
<1>5. HeldOnce' /\ VerifiedInPast'
  BY <1>2 DEF QueueInv, HeldOnce, VerifiedInPast
<1>6. Fresh'
  BY <1>1 DEF QueueInv, Fresh
<1>7. Measured'
  <2>1. jobs[id].state # "Completed" \/ r.state = "Completed"
    BY DEF Active, Terminal
  <2> QED
    BY <1>1, <2>1 DEF QueueInv, Measured, Active
<1> QED
  BY <1>4, <1>5, <1>6, <1>7

LEMMA CancelKeeps ==
    ASSUME TypeOK, QueueInv, NEW id \in Id, Cancel(id)
    PROVE  TypeOK' /\ QueueInv'
<1> DEFINE r == [jobs[id] EXCEPT !.state = "Cancelled"]
<1>1. jobs[id] \in ExportJobRecord /\ jobs[id] # None /\ Active(id)
  BY DEF Cancel, Active, TypeOK
<1>2. /\ r \in ExportJobRecord /\ r.state = "Cancelled"
      /\ r.video = jobs[id].video /\ r.audio = jobs[id].audio
  BY <1>1 DEF ExportJobRecord, ExportJobState
<1>3. jobs' = [jobs EXCEPT ![id] = r]
      /\ UNCHANGED << next_id, calls, channel, worker, sink, source, files, backups >>
  BY DEF Cancel
<1> HIDE DEF r
<1>4. TypeOK'
  BY <1>2, <1>3 DEF TypeOK
<1>5. Recorded' /\ HeldOnce' /\ Fresh' /\ Measured' /\ VerifiedInPast'
  BY <1>1, <1>2, <1>3, RecordKeeps
<1> QED
  BY <1>3, <1>4, <1>5, OutsideOutput DEF QueueInv

LEMMA SetProgressKeeps ==
    ASSUME TypeOK, QueueInv, SetProgress
    PROVE  TypeOK' /\ QueueInv'
<1>1. Busy /\ sink # << >>
  BY DEF SetProgress, QueueInv, Reporting, Busy
<1>2. item.id \in Id /\ jobs[item.id] \in ExportJobRecord /\ jobs[item.id] # None
  BY <1>1, InHand DEF QueueInv
<1> DEFINE r == [jobs[item.id] EXCEPT !.progress = Head(sink)]
<1>3. Head(sink) \in 0 .. Frames /\ Tail(sink) \in Seq(0 .. Frames)
  BY <1>1, HeadTailProperties DEF TypeOK
<1>4. /\ r \in ExportJobRecord /\ r.state = jobs[item.id].state
      /\ r.video = jobs[item.id].video /\ r.audio = jobs[item.id].audio
  BY <1>2, <1>3 DEF ExportJobRecord
<1>5. jobs' = [jobs EXCEPT ![item.id] = r] /\ sink' = Tail(sink)
      /\ UNCHANGED << next_id, calls, channel, worker, source, files, backups >>
  BY DEF SetProgress
<1> HIDE DEF r
<1>6. TypeOK'
  BY <1>2, <1>3, <1>4, <1>5 DEF TypeOK
<1>7. Recorded' /\ HeldOnce' /\ Fresh' /\ Measured' /\ VerifiedInPast'
  BY <1>2, <1>4, <1>5, RecordKeeps
<1>8. Reporting' /\ Answered' /\ OutputOfItem'
  BY <1>1, <1>5 DEF QueueInv, Reporting, Answered, OutputOfItem, ReadSince, item
<1> QED
  BY <1>6, <1>7, <1>8 DEF QueueInv

LEMMA SendProgressKeeps ==
    ASSUME TypeOK, QueueInv, SendProgress
    PROVE  TypeOK' /\ QueueInv'
<1>1. /\ worker \in Worker /\ worker.pc = "Encoding"
      /\ worker.sent \in 0 .. Frames /\ Frames \in Nat
  BY QueueConstants DEF TypeOK, SendProgress, At, Worker
<1>2. worker' = [worker EXCEPT !.sent = @ + 1] /\ sink' = Append(sink, worker.sent)
      /\ UNCHANGED << jobs, next_id, calls, channel, source, files, backups >>
  BY DEF SendProgress
<1>3. worker' \in Worker
  <2>1. worker.sent + 1 \in 0 .. Frames + 1
    BY <1>1
  <2> QED
    BY <1>1, <1>2, <2>1 DEF Worker
<1>4. /\ worker'.pc = worker.pc /\ worker'.item = worker.item /\ worker'.used = worker.used
  BY <1>1, <1>2 DEF Worker
<1>5. TypeOK'
  BY <1>1, <1>2, <1>3, AppendProperties DEF TypeOK
<1>6. UNCHANGED << Busy, item, jobs, next_id, calls, channel, source, files >>
  BY <1>2, <1>4 DEF Busy, item
<1>7. Recorded' /\ HeldOnce' /\ Fresh' /\ Measured' /\ VerifiedInPast'
  BY <1>4, <1>6 DEF QueueInv, Recorded, HeldOnce, Fresh, Measured, VerifiedInPast
<1>8. Reporting' /\ Answered' /\ OutputOfItem'
  BY <1>1, <1>4, <1>6 DEF QueueInv, Reporting, Answered, OutputOfItem, ReadSince
<1> QED
  BY <1>5, <1>7, <1>8 DEF QueueInv

LEMMA ChangeSourceKeeps ==
    ASSUME TypeOK, QueueInv, ChangeSource
    PROVE  TypeOK' /\ QueueInv'
<1>1. /\ source \in 0 .. MaxChanges /\ source + 1 \in 0 .. MaxChanges /\ source' = source + 1
      /\ MaxChanges \in Nat /\ worker \in Worker
      /\ UNCHANGED << jobs, next_id, calls, channel, sink, files, backups >>
  BY QueueConstants DEF TypeOK, ChangeSource
<1>2. /\ worker' \in Worker /\ worker'.pc = worker.pc /\ worker'.item = worker.item
      /\ worker'.result = worker.result
      /\ worker.pc = "Encoding" => worker'.used = worker.used \cup {source + 1}
      /\ worker.pc # "Encoding" => worker'.used = worker.used
  <2>1. worker.used \cup {source + 1} \in SUBSET (0 .. MaxChanges)
    BY <1>1 DEF Worker
  <2>2. CASE worker.pc = "Encoding"
    BY <1>1, <2>1, <2>2 DEF ChangeSource, Worker
  <2>3. CASE worker.pc # "Encoding"
    BY <1>1, <2>3 DEF ChangeSource
  <2> QED
    BY <2>2, <2>3
<1>3. TypeOK'
  BY <1>1, <1>2 DEF TypeOK
<1>4. UNCHANGED << Busy, item, jobs, next_id, calls, channel, sink, files >>
  BY <1>1, <1>2 DEF Busy, item
<1>5. Recorded' /\ HeldOnce' /\ Fresh' /\ Measured'
  BY <1>2, <1>4 DEF QueueInv, Recorded, HeldOnce, Fresh, Measured
<1>6. VerifiedInPast'
  <2>1. /\ \A c \in Caller : calls[c] # None => calls[c].verified \in Nat
        /\ \A i \in 1 .. Len(channel) : channel[i].verified \in Nat
        /\ Busy => item.verified \in Nat
    BY Held, InHand DEF QueueInv, WorkItem
  <2> QED
    BY <1>1, <1>4, <2>1 DEF QueueInv, VerifiedInPast
<1>7. Reporting' /\ Answered'
  BY <1>2, <1>4 DEF QueueInv, Reporting, Answered
<1>8. OutputOfItem'
  <2>1. CASE ~ Busy
    BY <1>2, <2>1 DEF OutputOfItem, Busy
  <2>2. CASE Busy
    <3>1. item.verified \in Nat /\ item.verified <= source /\ item.path \in Path
      BY <2>2, InHand DEF QueueInv, VerifiedInPast
    <3>2. ASSUME NEW used \in SUBSET Nat, ReadSince(used), NEW more \in {used, used \cup {source + 1}}
          PROVE  more # {} /\ \A u \in more : item.verified <= u /\ u <= source'
      <4>1. \A u \in more : u \in used \/ u = source + 1
        BY <3>2
      <4>2. source \in Nat /\ source' = source + 1
        BY <1>1
      <4> QED
        BY <3>1, <3>2, <4>1, <4>2 DEF ReadSince
    <3>3. worker.used \in SUBSET Nat
      BY <1>1 DEF Worker
    <3>4. files[item.path] # None => files[item.path].used \in SUBSET Nat
      <4>1. files[item.path] # None => files[item.path] \in Output
        BY <3>1 DEF TypeOK
      <4> QED
        BY <4>1 DEF Output
    <3> QED
      <4>1. worker.pc \in {"Encoding", "MovedAside"} => ReadSince(worker.used)'
        <5>1. worker.pc \in {"Encoding", "MovedAside"} => ReadSince(worker.used)
          BY DEF QueueInv, OutputOfItem
        <5>2. worker'.used \in {worker.used, worker.used \cup {source + 1}}
          BY <1>2
        <5> QED
          BY <1>4, <3>2, <3>3, <5>1, <5>2 DEF ReadSince
      <4>2. files[item.path] # None /\ ReadSince(files[item.path].used)
              => ReadSince(files[item.path].used)'
        <5> DEFINE used == files[item.path].used
        <5>1. UNCHANGED used
          BY <1>4
        <5> HIDE DEF used
        <5>2. files[item.path] # None /\ ReadSince(used)
                => used # {} /\ \A u \in used : item.verified <= u /\ u <= source'
          BY <3>2, <3>4 DEF used
        <5>3. files[item.path] # None /\ ReadSince(used) => ReadSince(used)'
          BY <1>4, <5>1, <5>2 DEF ReadSince
        <5> QED
          BY <5>3 DEF used
      <4> QED
        BY <1>2, <1>4, <4>1, <4>2 DEF QueueInv, OutputOfItem
  <2> QED
    BY <2>1, <2>2
<1> QED
  BY <1>3, <1>5, <1>6, <1>7, <1>8 DEF QueueInv

(* The worker takes the oldest item.                                       *)
LEMMA TakeKeeps ==
    ASSUME TypeOK, QueueInv, Take
    PROVE  TypeOK' /\ QueueInv'
<1> DEFINE n == Len(channel)
<1>1. /\ channel \in Seq(WorkItem) /\ channel # << >> /\ worker.pc = "Waiting"
      /\ channel' = Tail(channel)
      /\ UNCHANGED << jobs, next_id, calls, sink, source, files, backups >>
  BY DEF Take, TypeOK, At
<1>2. /\ n \in Nat \ {0} /\ channel' \in Seq(WorkItem) /\ Len(channel') = n - 1
      /\ Head(channel) \in WorkItem /\ Head(channel) = channel[1]
      /\ \A i \in 1 .. n - 1 : channel'[i] = channel[i + 1]
  BY <1>1, HeadTailProperties, LenProperties, EmptySeq
<1>3. /\ worker' \in Worker /\ worker'.pc = "Taken" /\ item' = channel[1]
  <2>1. 0 \in 0 .. Frames + 1 /\ {} \in SUBSET (0 .. MaxChanges)
    BY QueueConstants
  <2> QED
    BY <1>2, <2>1 DEF Take, Waiting, Worker, Place, item
<1>4. TypeOK'
  BY <1>1, <1>2, <1>3, QueueConstants DEF TypeOK
<1> HIDE DEF n
<1>5. 1 \in 1 .. n /\ \A i \in 1 .. n - 1 : i + 1 \in 1 .. n /\ i + 1 # 1
  BY <1>2
<1>6. Recorded'
  <2>1. \A c \in Caller : calls'[c] # None /\ calls'[c].id # 0 =>
          jobs'[calls'[c].id] # None /\ jobs'[calls'[c].id].state \in Unstarted
    BY <1>1 DEF QueueInv, Recorded
  <2>2. \A i \in 1 .. n : channel[i].id # 0 /\ jobs[channel[i].id] # None
                            /\ jobs[channel[i].id].state \in Unstarted
    BY DEF QueueInv, Recorded, n
  <2>3. item' # None
    BY <1>2, <1>3, NoneIsNoValue
  <2> QED
    BY <1>1, <1>2, <1>3, <1>5, <2>1, <2>2, <2>3 DEF Recorded
<1>7. HeldOnce'
  <2>1. /\ \A i, j \in 1 .. n : channel[i].id = channel[j].id => i = j
        /\ \A c \in Caller, i \in 1 .. n : calls[c] # None => calls[c].id # channel[i].id
    BY DEF QueueInv, HeldOnce, n
  <2>2. \A c, d \in Caller :
          calls[c] # None /\ calls[d] # None /\ calls[c].id # 0 /\ calls[c].id = calls[d].id => c = d
    BY DEF QueueInv, HeldOnce
  <2>3. ASSUME NEW i \in 1 .. n - 1, NEW j \in 1 .. n - 1, channel'[i].id = channel'[j].id
        PROVE  i = j
    <3>1. i + 1 = j + 1
      <4>1. channel[i + 1].id = channel[j + 1].id /\ i + 1 \in 1 .. n /\ j + 1 \in 1 .. n
        BY <1>2, <1>5, <2>3
      <4> QED
        BY <2>1, <4>1
    <3> QED
      BY <1>2, <3>1
  <2>4. \A i \in 1 .. n - 1 : channel'[i].id # channel[1].id
    BY <1>2, <1>5, <2>1
  <2>5. \A c \in Caller, i \in 1 .. n - 1 : calls[c] # None => calls[c].id # channel'[i].id
    BY <1>2, <1>5, <2>1, SMTT(60)
  <2>6. \A c \in Caller : calls[c] # None => calls[c].id # channel[1].id
    BY <1>5, <2>1
  <2>7. Len(channel') = n - 1 /\ calls' = calls /\ item' = channel[1]
    BY <1>1, <1>2, <1>3
  <2> QED
    BY <2>2, <2>3, <2>4, <2>5, <2>6, <2>7 DEF HeldOnce
<1>8. Fresh' /\ Measured'
  BY <1>1 DEF QueueInv, Fresh, Measured
<1>9. VerifiedInPast'
  <2>1. \A i \in 1 .. n : channel[i].verified <= source
    BY DEF QueueInv, VerifiedInPast, n
  <2> QED
    BY <1>1, <1>2, <1>3, <1>5, <2>1 DEF QueueInv, VerifiedInPast
<1>10. Reporting' /\ Answered' /\ OutputOfItem'
  BY <1>1, <1>3 DEF QueueInv, Reporting, Answered, OutputOfItem
<1> QED
  BY <1>4, <1>6, <1>7, <1>8, <1>9, <1>10 DEF QueueInv

-----------------------------------------------------------------------------
(* Every step keeps the invariant.                                         *)
LEMMA QueueStep ==
    ASSUME TypeOK, QueueInv, [Next]_vars
    PROVE  TypeOK' /\ QueueInv'
<1>1. CASE \E c \in Caller, path \in Path, overwrite \in BOOLEAN, verify \in BOOLEAN :
              Preflight(c, path, overwrite, verify)
  BY <1>1, PreflightKeeps
<1>2. CASE \E c \in Caller : FinishCall(c)
  BY <1>2, InsertKeeps, InsertRefusedKeeps, TrySendKeeps DEF FinishCall
<1>3. CASE \E id \in Id : Cancel(id)
  BY <1>3, CancelKeeps
<1>4. CASE HandStep
  <2>1. Busy /\ Handles
    BY <1>4, HandStepHandles
  <2>2. Recorded' /\ HeldOnce' /\ Fresh' /\ Measured' /\ VerifiedInPast'
    BY <2>1, HandlesKeeps
  <2> QED
    BY <1>4, <2>2, HandStepType, HandStepOutput DEF QueueInv
<1>5. CASE Take
  BY <1>5, TakeKeeps
<1>6. CASE SendProgress \/ SetProgress \/ ChangeSource
  BY <1>6, SendProgressKeeps, SetProgressKeeps, ChangeSourceKeeps
<1>7. CASE UNCHANGED vars
  <2>1. UNCHANGED << jobs, next_id, calls, channel, worker, sink, source, files, backups >>
    BY <1>7 DEF vars
  <2>2. TypeOK'
    BY <2>1 DEF TypeOK
  <2>3. UNCHANGED << Busy, item >>
    BY <2>1 DEF Busy, item
  <2>4. Recorded' /\ HeldOnce' /\ Fresh' /\ Measured' /\ VerifiedInPast'
    BY <2>1, <2>3 DEF QueueInv, Recorded, HeldOnce, Fresh, Measured, VerifiedInPast
  <2> QED
    BY <2>1, <2>2, <2>4, OutsideOutput DEF QueueInv
<1> QED
  BY <1>1, <1>2, <1>3, <1>4, <1>5, <1>6, <1>7 DEF Next, WorkerStep, HandStep

LEMMA QueueInvariant == Spec => [](TypeOK /\ QueueInv)
<1>1. Init => TypeOK /\ QueueInv
  BY QueueInit
<1>2. TypeOK /\ QueueInv /\ [Next]_vars => TypeOK' /\ QueueInv'
  BY QueueStep
<1> QED
  BY <1>1, <1>2, PTL DEF Spec

(* The queue keeps its types, and its channel never holds more than the    *)
(* capacity: the sync_channel's bound, whoever sends and takes.            *)
THEOREM ExportTypeCorrect == Spec => []TypeOK
BY QueueInvariant, PTL

-----------------------------------------------------------------------------
(* A record that is settled is not the one a worker has in hand, unless it *)
(* was cancelled: so only its taking back by a full queue removes it.      *)
(* set_progress, mark_completed, mark_failed and cancel, in any order, do  *)
(* not turn a settled record into another.                                 *)
THEOREM SettledIsFinalCorrect == Spec => SettledIsFinal
<1> DEFINE Settled(id) ==
             jobs[id] # None /\ jobs[id].state \in Terminal =>
               IF jobs'[id] = None
               THEN \E c \in Caller : calls[c] # None /\ calls[c].id = id
               ELSE /\ jobs'[id].state = jobs[id].state
                    /\ IsCancelled(id) => "reported" \notin {jobs'[id].video, jobs'[id].audio}
                    /\ ~ IsCancelled(id) => jobs'[id] = jobs[id]
           Kept == \A id \in Id : Settled(id)
<1>1. ASSUME TypeOK, QueueInv, Next
      PROVE  Kept
  <2> USE <1>1
  <2> SUFFICES ASSUME NEW id \in Id, jobs[id] # None, jobs[id].state \in Terminal
               PROVE  Settled(id)
    OBVIOUS
  <2>1. /\ IsCancelled(id) => jobs[id].video # "reported" /\ jobs[id].audio # "reported"
        /\ jobs[id] \in ExportJobRecord
    BY DEF IsCancelled, QueueInv, Measured, TypeOK
  <2>2. ASSUME jobs'[id] = jobs[id] PROVE Settled(id)
    BY <2>1, <2>2
  <2>3. CASE UNCHANGED jobs
    BY <2>2, <2>3
  <2>4. ASSUME NEW c \in Caller, Insert(c) PROVE Settled(id)
    <3>1. id # next_id
      BY <2>4 DEF QueueInv, Fresh, TypeOK, Id
    <3> QED
      BY <2>2, <2>4, <3>1 DEF Insert, TypeOK
  <2>5. ASSUME NEW c \in Caller, TrySend(c) PROVE Settled(id)
    <3>1. CASE calls[c].id = id
      BY <2>3, <2>5, <3>1 DEF TrySend, TypeOK
    <3>2. CASE calls[c].id # id
      BY <2>2, <2>5, <3>2 DEF TrySend, TypeOK
    <3> QED
      BY <3>1, <3>2
  <2>6. ASSUME NEW k \in Id, Cancel(k) PROVE Settled(id)
    <3>1. k # id
      BY <2>6 DEF Cancel, Active
    <3> QED
      BY <2>2, <2>6, <3>1 DEF Cancel, TypeOK
  <2>7. CASE SetProgress
    <3>1. Busy
      BY <2>7 DEF SetProgress, QueueInv, Reporting, Busy
    <3>2. worker.pc # "Taken"
      BY <2>7 DEF SetProgress, QueueInv, Reporting
    <3>3. CASE item.id = id
      <4>1. jobs[id].state = "Cancelled"
        BY <3>1, <3>2, <3>3 DEF QueueInv, Recorded, Started, Terminal
      <4>2. jobs'[id] = [jobs[id] EXCEPT !.progress = Head(sink)]
        BY <2>7, <3>3 DEF SetProgress, TypeOK
      <4>3. /\ jobs'[id].state = jobs[id].state /\ jobs'[id].video = jobs[id].video
            /\ jobs'[id].audio = jobs[id].audio
        BY <2>1, <4>2 DEF ExportJobRecord
      <4>4. Head(sink) \in 0 .. Frames
        BY <2>7, HeadTailProperties DEF SetProgress, TypeOK
      <4>5. jobs'[id] \in ExportJobRecord
        BY <2>1, <4>2, <4>4 DEF ExportJobRecord
      <4> QED
        BY <2>1, <4>1, <4>3, <4>5, NoneIsNoValue DEF IsCancelled
    <3>4. CASE item.id # id
      BY <2>2, <2>7, <3>4 DEF SetProgress, TypeOK
    <3> QED
      BY <3>3, <3>4
  <2>8. CASE HandStep
    <3>1. Busy /\ Handles
      BY <2>8, HandStepHandles
    <3>2. CASE item.id = id
      <4>1. jobs[id].state = "Cancelled"
        BY <3>1, <3>2 DEF QueueInv, Recorded, Started, Unstarted, Terminal
      <4> QED
        BY <3>1, <3>2, <4>1 DEF Handles, IsCancelled
    <3>3. CASE item.id # id
      BY <2>2, <3>1, <3>3 DEF Handles
    <3> QED
      BY <3>2, <3>3
  <2>9. CASE Take \/ SendProgress \/ ChangeSource
    BY <2>3, <2>9 DEF Take, SendProgress, ChangeSource
  <2>10. ASSUME NEW c \in Caller, InsertRefused(c) PROVE Settled(id)
    BY <2>3, <2>10 DEF InsertRefused
  <2>11. ASSUME NEW c \in Caller, NEW path \in Path, NEW overwrite \in BOOLEAN,
                NEW verify \in BOOLEAN, Preflight(c, path, overwrite, verify)
         PROVE  Settled(id)
    BY <2>3, <2>11 DEF Preflight
  <2> HIDE DEF Settled
  <2> QED
    BY <1>1, <2>4, <2>5, <2>6, <2>7, <2>8, <2>9, <2>10, <2>11
       DEF Next, WorkerStep, HandStep, FinishCall
<1>2. TypeOK /\ QueueInv /\ [Next]_vars => [Kept]_vars
  BY <1>1
<1> QED
  BY <1>2, QueueInvariant, PTL DEF Spec, SettledIsFinal

(* mark_completed runs only from "Verifying", where the file at the output *)
(* is the job's own and was read from the verified sources alone: the      *)
(* fingerprint is new each time, so one that is equal after the encode was *)
(* the only one during it.                                                 *)
THEOREM CompletedIsTrustedCorrect == Spec => CompletedIsTrusted
<1> DEFINE Trusted(id) ==
             Active(id) /\ jobs'[id] # None /\ jobs'[id].state = "Completed" =>
               files[item.path] = [id |-> id, used |-> {item.verified}]
           Kept == \A id \in Id : Trusted(id)
<1>1. ASSUME TypeOK, QueueInv, Next
      PROVE  Kept
  <2> USE <1>1
  <2> SUFFICES ASSUME NEW id \in Id, Active(id), jobs'[id] # None, jobs'[id].state = "Completed"
               PROVE  files[item.path] = [id |-> id, used |-> {item.verified}]
    OBVIOUS
  <2>1. jobs[id] \in ExportJobRecord /\ jobs[id].state # "Completed" /\ jobs[id] # None
    BY DEF Active, TypeOK, Terminal
  <2>2. jobs'[id] # jobs[id]
    BY <2>1
  <2>3. ASSUME NEW k \in Id, NEW r, jobs' = [jobs EXCEPT ![k] = r] PROVE k = id /\ jobs'[id] = r
    BY <2>2, <2>3 DEF TypeOK
  <2>4. HandStep
    <3>1. ASSUME NEW c \in Caller, NEW path \in Path, NEW overwrite \in BOOLEAN,
                 NEW verify \in BOOLEAN, Preflight(c, path, overwrite, verify)
          PROVE  FALSE
      BY <2>2, <3>1 DEF Preflight
    <3>2. ASSUME NEW c \in Caller, FinishCall(c) PROVE FALSE
      <4>1. CASE Insert(c)
        <5>1. next_id \in Id
          BY <4>1 DEF Insert, TypeOK, Id
        <5>2. jobs' = [jobs EXCEPT ![next_id] = NewRecord(calls[c].path)]
          BY <4>1 DEF Insert
        <5>3. jobs'[id] = NewRecord(calls[c].path)
          BY <2>3, <5>1, <5>2
        <5>4. NewRecord(calls[c].path).state = "Queued"
          BY DEF NewRecord
        <5> QED
          BY <5>3, <5>4
      <4>2. CASE InsertRefused(c)
        BY <2>2, <4>2 DEF InsertRefused
      <4>3. CASE TrySend(c)
        <5>1. calls[c].id \in Id
          BY <4>3, Held DEF TrySend, QueueInv
        <5>2. UNCHANGED jobs \/ jobs' = [jobs EXCEPT ![calls[c].id] = None]
          BY <4>3 DEF TrySend
        <5> QED
          BY <2>2, <2>3, <5>1, <5>2
      <4> QED
        BY <3>2, <4>1, <4>2, <4>3 DEF FinishCall
    <3>3. ASSUME NEW k \in Id, Cancel(k) PROVE FALSE
      <4>1. jobs' = [jobs EXCEPT ![k] = [jobs[k] EXCEPT !.state = "Cancelled"]]
        BY <3>3 DEF Cancel
      <4>2. jobs'[id] = [jobs[id] EXCEPT !.state = "Cancelled"]
        BY <2>3, <4>1
      <4>3. jobs'[id].state = "Cancelled"
        BY <2>1, <4>2 DEF ExportJobRecord
      <4> QED
        BY <4>3
    <3>4. ASSUME SetProgress PROVE FALSE
      <4>1. Busy
        BY <3>4 DEF SetProgress, QueueInv, Reporting, Busy
      <4>2. item.id \in Id
        BY <4>1, InHand DEF QueueInv
      <4>3. jobs' = [jobs EXCEPT ![item.id] = [jobs[item.id] EXCEPT !.progress = Head(sink)]]
        BY <3>4 DEF SetProgress
      <4>4. jobs'[id] = [jobs[id] EXCEPT !.progress = Head(sink)]
        BY <2>3, <4>2, <4>3
      <4>5. jobs'[id].state = jobs[id].state
        BY <2>1, <4>4 DEF ExportJobRecord
      <4> QED
        BY <2>1, <4>5
    <3>5. ASSUME Take \/ SendProgress \/ ChangeSource PROVE FALSE
      BY <2>2, <3>5 DEF Take, SendProgress, ChangeSource
    <3> QED
      BY <1>1, <3>1, <3>2, <3>3, <3>4, <3>5 DEF Next, WorkerStep, HandStep
  <2>5. Busy /\ Handles
    BY <2>4, HandStepHandles
  <2>6. item.id = id
    BY <2>2, <2>5 DEF Handles
  <2>7. worker'.pc = "Waiting"
    BY <2>5, <2>6 DEF Handles, Started
  <2>8. worker \in Worker /\ worker.pc # "Waiting"
    BY <2>5 DEF TypeOK, Busy
  <2>9. CASE FinishVerification
    BY <2>6, <2>9 DEF FinishVerification, QueueInv, OutputOfItem, At
  <2>10. CASE Fail
    <3>1. jobs' = jobs \/ jobs' = [jobs EXCEPT ![item.id] = [jobs[item.id] EXCEPT !.state = "Failed"]]
      BY <2>10 DEF Fail, MarkFailed
    <3>2. jobs'[id] = [jobs[id] EXCEPT !.state = "Failed"]
      BY <2>2, <2>3, <2>6, <3>1
    <3>3. jobs'[id].state = "Failed"
      BY <2>1, <3>2 DEF ExportJobRecord
    <3> QED
      BY <3>3
  <2>11. CASE MarkRunning \/ JoinMonitor
    <3>1. worker.result # "none" \/ ~ JoinMonitor
      BY DEF QueueInv, Answered, JoinMonitor, At
    <3>2. \/ UNCHANGED jobs
          \/ jobs' = [jobs EXCEPT ![item.id] = [jobs[item.id] EXCEPT !.state = "Running"]]
          \/ \E video, audio \in Measurement : jobs' = MarkCancelled(item.id, video, audio)
      BY <2>8, <2>11, <3>1 DEF MarkRunning, JoinMonitor, Worker, Measurement
    <3>3. CASE jobs' = [jobs EXCEPT ![item.id] = [jobs[item.id] EXCEPT !.state = "Running"]]
      <4>1. jobs'[id] = [jobs[id] EXCEPT !.state = "Running"]
        BY <2>3, <2>6, <3>3
      <4>2. jobs'[id].state = "Running"
        BY <2>1, <4>1 DEF ExportJobRecord
      <4> QED
        BY <4>2
    <3>4. ASSUME NEW video \in Measurement, NEW audio \in Measurement,
                 jobs' = MarkCancelled(item.id, video, audio)
          PROVE  FALSE
      <4>1. jobs'[id] = [jobs[id] EXCEPT !.state = "Cancelled", !.video = video, !.audio = audio]
        BY <2>3, <2>6, <3>4 DEF MarkCancelled
      <4>2. jobs'[id].state = "Cancelled"
        BY <2>1, <4>1 DEF ExportJobRecord
      <4> QED
        BY <4>2
    <3> QED
      BY <2>2, <3>2, <3>3, <3>4
  <2>12. CASE CheckSources
    <3>1. worker'.pc # "Waiting"
      BY <2>8, <2>12 DEF CheckSources, Goto, Worker
    <3> QED
      BY <2>7, <3>1
  <2>13. CASE \/ PreflightAgain \/ StartEncode \/ RefuseWork \/ EncodeFails \/ Land \/ MoveAside
              \/ LandOver \/ LandFails \/ RemoveBackup \/ QuarantineUntrustedOutput
    BY <2>2, <2>13 DEF PreflightAgain, StartEncode, RefuseWork, EncodeFails, Land, MoveAside,
                       LandOver, LandFails, RemoveBackup, QuarantineUntrustedOutput
  <2> QED
    BY <2>4, <2>9, <2>10, <2>11, <2>12, <2>13 DEF HandStep
<1>2. TypeOK /\ QueueInv /\ [Next]_vars => [Kept]_vars
  BY <1>1 DEF vars, Active
<1> QED
  BY <1>2, QueueInvariant, PTL DEF Spec, CompletedIsTrusted

(* replace_output and quarantine_untrusted_output are the only steps that  *)
(* touch a file; the worker's place says that the one they touch is its    *)
(* own, may be overwritten, or is not there.                               *)
THEOREM OutputsKeptCorrect == Spec => OutputsKept
<1> DEFINE KeptAt(p) ==
             /\ files[p] # None /\ files'[p] # files[p] =>
                   /\ item # None /\ item.path = p
                   /\ item.overwrite \/ files[p].id = item.id
             /\ backups[p] # None /\ backups'[p] # backups[p] =>
                   files'[p] # None \/ backups'[p] # None
           Kept == \A p \in Path : KeptAt(p)
<1>1. ASSUME TypeOK, QueueInv, Next
      PROVE  Kept
  <2> USE <1>1
  <2> SUFFICES ASSUME NEW p \in Path PROVE KeptAt(p)
    OBVIOUS
  <2>1. CASE UNCHANGED << files, backups >>
    BY <2>1
  <2>2. CASE HandStep
    <3>1. Busy
      BY <2>2, HandStepHandles
    <3>2. /\ item \in WorkItem /\ item # None /\ item.path \in Path
          /\ files \in [Path -> Output \cup {None}] /\ backups \in [Path -> Output \cup {None}]
      BY <3>1, InHand, NoneIsNoValue DEF QueueInv, TypeOK
    <3>3. ASSUME item.path # p PROVE KeptAt(p)
      <4>1. files'[p] = files[p] /\ backups'[p] = backups[p]
        BY <2>2, <3>2, <3>3
           DEF HandStep, MarkRunning, PreflightAgain, StartEncode, RefuseWork, EncodeFails, Land,
               MoveAside, LandOver, LandFails, RemoveBackup, JoinMonitor, CheckSources,
               QuarantineUntrustedOutput, FinishVerification, Fail
      <4> QED
        BY <4>1
    <3>4. CASE item.path = p /\ Land
      <4>1. files[p] = None /\ UNCHANGED backups
        BY <3>4 DEF Land
      <4> QED
        BY <4>1
    <3>5. CASE item.path = p /\ MoveAside
      <4>1. backups'[p] # None /\ (item.overwrite \/ files[p] = None)
        BY <3>2, <3>5 DEF MoveAside, QueueInv, OutputOfItem, At
      <4> QED
        BY <3>2, <3>5, <4>1
    <3>6. CASE item.path = p /\ LandOver
      <4>1. files[p] = None /\ UNCHANGED backups
        BY <3>6 DEF LandOver, QueueInv, OutputOfItem, At
      <4> QED
        BY <4>1
    <3>7. CASE item.path = p /\ LandFails
      <4>1. files[p] = None
        BY <3>7 DEF LandFails, QueueInv, OutputOfItem, At
      <4>2. files'[p] = backups[p] \/ UNCHANGED << files, backups >>
        BY <3>2, <3>7 DEF LandFails
      <4> QED
        BY <4>1, <4>2
    <3>8. CASE item.path = p /\ RemoveBackup
      <4>1. files[p] # None /\ UNCHANGED files
        BY <3>8 DEF RemoveBackup, QueueInv, OutputOfItem, At
      <4> QED
        BY <4>1
    <3>9. CASE item.path = p /\ QuarantineUntrustedOutput
      <4>1. files[p].id = item.id /\ UNCHANGED backups
        BY <3>9 DEF QuarantineUntrustedOutput, QueueInv, OutputOfItem, At
      <4> QED
        BY <3>2, <3>9, <4>1
    <3>10. CASE \/ MarkRunning \/ PreflightAgain \/ StartEncode \/ RefuseWork \/ EncodeFails
                \/ JoinMonitor \/ CheckSources \/ FinishVerification \/ Fail
      BY <2>1, <3>10 DEF MarkRunning, PreflightAgain, StartEncode, RefuseWork, EncodeFails,
                         JoinMonitor, CheckSources, FinishVerification, Fail
    <3> HIDE DEF KeptAt
    <3> QED
      BY <2>2, <3>3, <3>4, <3>5, <3>6, <3>7, <3>8, <3>9, <3>10 DEF HandStep
  <2>3. CASE ~ HandStep
    <3>1. UNCHANGED << files, backups >>
      BY <1>1, <2>3 DEF Next, WorkerStep, HandStep, FinishCall, Preflight, Insert, InsertRefused,
                        TrySend, Cancel, Take, SendProgress, SetProgress, ChangeSource
    <3> QED
      BY <2>1, <3>1
  <2> QED
    BY <2>2, <2>3
<1>2. TypeOK /\ QueueInv /\ [Next]_vars => [Kept]_vars
  BY <1>1
<1> QED
  BY <1>2, QueueInvariant, PTL DEF Spec, OutputsKept
=============================================================================
