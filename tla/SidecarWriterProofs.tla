------------------------ MODULE SidecarWriterProofs ------------------------
(***************************************************************************)
(* The sidecar writer for any number of threads, files and jobs: it stays  *)
(* well typed, never replaces a snapshot by an older one, keeps its word   *)
(* to the thread that joins a write, and loses no job when it exits.       *)
(*                                                                         *)
(* Four facts make this inductive.  last_written, the thread's memory,     *)
(* agrees with the file (MemoryIsDisk).  Stop is the last message there    *)
(* is, and a batch is landed before the next is collected (Phases).  Every *)
(* number handed out is still with its thread, pending or settled          *)
(* (Accounted).  And the jobs of a file's only writer are numbered, sent   *)
(* and taken in one order (Order), so that a joined job is the newest of   *)
(* its writer and is answered when no older one is pending.                *)
(***************************************************************************)
EXTENDS SidecarWriter, TLAPS

(* Answering joined writes keeps the clients' states well typed.           *)
LEMMA AnsweredType ==
    ASSUME clients \in [Client -> ClientState], NEW jobs, NEW result \in {"Ok", "Err"}
    PROVE  Answered(jobs, result) \in [Client -> ClientState]
<1> SUFFICES ASSUME NEW c \in Client, clients[c].stage = "Waiting"
             PROVE  [clients[c] EXCEPT !.stage = result] \in ClientState
    BY DEF Answered
<1>1. clients[c] \in ClientState
    OBVIOUS
<1>2. clients[c] \in [stage: {"Sending", "Waiting", "Ok", "Err"}, job: WriterJob]
    BY <1>1 DEF ClientState, Idle
<1> QED
    BY <1>2 DEF ClientState

(* Every reachable state of the sidecar writer is well typed.              *)
THEOREM SidecarTypeCorrect == Spec => []TypeOK
<1>1. Init => TypeOK
    <2>1. Absent \in Int /\ Idle \in ClientState
        BY DEF Absent, ClientState
    <2>2. ASSUME Init
          PROVE  /\ clients \in [Client -> ClientState]
                 /\ last_written \in [Path -> Int]
                 /\ disk \in [Path -> Int]
        BY <2>1, <2>2 DEF Init
    <2>3. ASSUME Init
          PROVE  dropped \in BOOLEAN /\ stopping \in BOOLEAN /\ draining \in BOOLEAN
        BY <2>3, Zenon DEF Init
    <2>4. ASSUME Init
          PROVE  /\ seq \in Nat
                 /\ channel \in Seq(WriterJob \cup {Stop})
                 /\ mode \in {"Receiving", "Collecting", "Writing", "Stopped"}
        BY <2>4 DEF Init
    <2>5. ASSUME Init
          PROVE  /\ batch \subseteq WriterJob /\ winners \subseteq WriterJob
                 /\ errors \subseteq WriterJob /\ settled \subseteq WriterJob
        BY <2>5 DEF Init
    <2> QED
        BY <2>2, <2>3, <2>4, <2>5 DEF TypeOK
<1>2. ASSUME TypeOK, [Next]_vars
      PROVE  TypeOK'
    <2> USE <1>2 DEF TypeOK
    <2>1. CASE \E c \in Client : ClientStep(c)
        <3>1. PICK c \in Client : ClientStep(c)
            BY <2>1
        <3>2. CASE \E path \in Path, ack \in BOOLEAN :
                  c \in Writers[path] /\ FetchSeq(c, path, ack)
            BY <3>2, SMTT(60) DEF FetchSeq, ClientState, WriterJob
        <3>3. CASE Send(c)
            <4>1. clients[c] \in [stage: {"Sending", "Waiting", "Ok", "Err"}, job: WriterJob]
                BY <3>3 DEF Send, ClientState, Idle
            <4>2. channel' \in Seq(WriterJob \cup {Stop})
                BY <3>3, <4>1 DEF Send
            <4>3. clients' \in [Client -> ClientState]
                BY <3>3, <4>1 DEF Send, ClientState
            <4> QED
                BY <3>3, <4>2, <4>3 DEF Send
        <3>4. CASE Return(c)
            BY <3>4 DEF Return, ClientState
        <3> QED
            BY <3>1, <3>2, <3>3, <3>4 DEF ClientStep
    <2>2. CASE TakeErrors
        BY <2>2 DEF TakeErrors
    <2>3. CASE DropWriter
        BY <2>3 DEF DropWriter
    <2>4. CASE Take
        <3>1. Head(channel) \in WriterJob \cup {Stop}
            BY <2>4 DEF Take
        <3>2. channel' \in Seq(WriterJob \cup {Stop})
            BY <2>4 DEF Take
        <3>3. batch' \subseteq WriterJob /\ stopping' \in BOOLEAN
            BY <2>4, <3>1, Zenon DEF Take
        <3> QED
            BY <2>4, <3>2, <3>3 DEF Take
    <2>5. CASE StartBatch
        <3>1. clients' \in [Client -> ClientState]
            BY <2>5, AnsweredType DEF StartBatch
        <3> QED
            BY <2>5, <3>1 DEF StartBatch, Latest
    <2>6. ASSUME NEW job \in winners, SkipStale(job) \/ Land(job) \/ Fail(job)
          PROVE  TypeOK'
        <3>1. job \in WriterJob /\ job.path \in Path /\ job.seq \in Nat
            BY <2>6 DEF WriterJob
        <3>2. clients' \in [Client -> ClientState]
            BY <2>6, AnsweredType DEF SkipStale, Land, Fail
        <3>3. last_written' \in [Path -> Int] /\ disk' \in [Path -> Int]
            BY <2>6, <3>1 DEF SkipStale, Land, Fail
        <3> QED
            BY <2>6, <3>1, <3>2, <3>3 DEF SkipStale, Land, Fail, Settle
    <2>7. CASE EndBatch
        BY <2>7 DEF EndBatch
    <2>8. CASE UNCHANGED vars
        BY <2>8 DEF vars
    <2> QED
        BY <2>1, <2>2, <2>3, <2>4, <2>5, <2>6, <2>7, <2>8 DEF Next, WriterStep
<1> QED
    BY <1>1, <1>2, PTL DEF Spec

(* The thread's memory of what it landed is what the files hold.           *)
MemoryIsDisk == last_written = disk

LEMMA MemoryCorrect == Spec => []MemoryIsDisk
<1>1. Init => MemoryIsDisk
    BY DEF Init, MemoryIsDisk
<1>2. ASSUME MemoryIsDisk, [Next]_vars
      PROVE  MemoryIsDisk'
    <2> USE <1>2 DEF MemoryIsDisk
    <2>1. ASSUME NEW job \in winners, Land(job)
          PROVE  MemoryIsDisk'
        BY <2>1 DEF Land
    <2>2. CASE UNCHANGED <<last_written, disk>>
        BY <2>2
    <2> QED
        BY <2>1, <2>2 DEF Next, vars, ClientStep, FetchSeq, Send, Return, TakeErrors,
            DropWriter, WriterStep, Take, StartBatch, SkipStale, Fail, EndBatch
<1> QED
    BY <1>1, <1>2, PTL DEF Spec

(* No step of any thread replaces a snapshot on disk by an older one, for  *)
(* any number of threads that send their jobs in any order.                *)
THEOREM StaleNeverOverwritesCorrect == Spec => StaleNeverOverwrites
<1> DEFINE Step == \A p \in Path : disk[p] <= disk'[p]
<1>1. ASSUME TypeOK, MemoryIsDisk, Next
      PROVE  Step
    <2>1. CASE UNCHANGED disk
        BY <1>1, <2>1 DEF TypeOK
    <2>2. ASSUME NEW job \in winners, Land(job)
          PROVE  Step
        <3>1. job.path \in Path /\ job.seq \in Nat
            BY <1>1, <2>2 DEF TypeOK, WriterJob
        <3>2. disk' = [disk EXCEPT ![job.path] = job.seq]
            BY <2>2 DEF Land
        <3>3. disk[job.path] <= job.seq
            BY <1>1, <2>2, <3>1 DEF Land, Stale, MemoryIsDisk, TypeOK
        <3> QED
            BY <1>1, <3>1, <3>2, <3>3 DEF TypeOK
    <2> QED
        BY <1>1, <2>1, <2>2 DEF Next, ClientStep, FetchSeq, Send, Return, TakeErrors,
            DropWriter, WriterStep, Take, StartBatch, SkipStale, Fail, EndBatch
<1>2. TypeOK /\ MemoryIsDisk /\ [Next]_vars => [Step]_vars
    BY <1>1
<1> QED
    BY <1>2, SidecarTypeCorrect, MemoryCorrect, PTL DEF Spec, StaleNeverOverwrites

-----------------------------------------------------------------------------
(* The phases of the thread: it lands a batch before it collects the next, *)
(* and Stop is the last message, sent when no thread is inside a call.     *)
Phases ==
    /\ mode \in {"Receiving", "Collecting"} => winners = {}
    /\ mode # "Collecting" => batch = {}
    /\ mode = "Stopped" => stopping /\ winners = {}
    /\ draining => stopping
    /\ stopping => dropped /\ channel = << >>
    /\ dropped => \A c \in Client : clients[c] = Idle
    /\ \A i \in DOMAIN channel : channel[i] = Stop => i = Len(channel) /\ dropped

(* No number is lost: a job that was numbered is about to be sent, is      *)
(* pending or is settled.                                                  *)
Accounted ==
    \A n \in 0 .. seq - 1 :
        \/ \E c \in Client : clients[c].stage = "Sending" /\ clients[c].job.seq = n
        \/ \E job \in Pending \cup settled : job.seq = n

(* The jobs of a file's only writer are numbered, sent and taken in one    *)
(* order, so the writer is never ahead of a joined job it waits for.       *)
Mine(c, job) == OnlyWriter(c, job.path)
Received == batch \cup winners
Submitted ==
    /\ \A job \in Pending : job.seq < seq
    /\ \A c \in Client : clients[c] # Idle => c \in Writers[clients[c].job.path]
                                          /\ clients[c].job.seq < seq
SentInOrder ==
    \A c \in Client :
        /\ \A i, j \in DOMAIN channel :
              /\ i < j /\ channel[i] # Stop /\ channel[j] # Stop
              /\ Mine(c, channel[i]) /\ Mine(c, channel[j])
              => channel[i].seq < channel[j].seq
        /\ \A job \in Received : \A i \in DOMAIN channel :
              channel[i] # Stop /\ Mine(c, job) /\ Mine(c, channel[i]) =>
                  job.seq < channel[i].seq
        /\ \A j, k \in Received :
              Mine(c, j) /\ Mine(c, k) /\ j.seq = k.seq => j = k
Newest ==
    \A c \in Client : \A job \in Pending : Mine(c, job) =>
        /\ clients[c].stage = "Sending" => job.seq < clients[c].job.seq
        /\ clients[c].stage = "Waiting" => job.seq <= clients[c].job.seq
AnsweredLast ==
    \A c \in Client :
        clients[c].stage \in {"Ok", "Err"} /\ Mine(c, clients[c].job) =>
            \A job \in Pending : ~ Mine(c, job)

(* The messages after a thread's Send, a drop or a Take.                   *)
Queued == {channel[i] : i \in DOMAIN channel}

LEMMA QueuedAppend ==
    ASSUME NEW S, NEW s \in Seq(S), NEW x \in S
    PROVE  {Append(s, x)[i] : i \in DOMAIN Append(s, x)} = {s[i] : i \in DOMAIN s} \cup {x}
<1> DEFINE t == Append(s, x)
<1>1. DOMAIN t = 1 .. Len(s) + 1 /\ DOMAIN s = 1 .. Len(s) /\ Len(s) \in Nat
    OBVIOUS
<1>2. \A i \in 1 .. Len(s) : t[i] = s[i]
    OBVIOUS
<1>3. t[Len(s) + 1] = x
    OBVIOUS
<1> HIDE DEF t
<1>4. \A i \in 1 .. Len(s) + 1 : i \in 1 .. Len(s) \/ i = Len(s) + 1
    BY <1>1
<1>5. \A i \in 1 .. Len(s) : i \in 1 .. Len(s) + 1
    BY <1>1
<1>6. Len(s) + 1 \in 1 .. Len(s) + 1
    BY <1>1
<1> QED
    BY <1>1, <1>2, <1>3, <1>4, <1>5, <1>6, Zenon DEF t

LEMMA QueuedTail ==
    ASSUME NEW S, NEW s \in Seq(S), s # << >>
    PROVE  {s[i] : i \in DOMAIN s} = {Tail(s)[i] : i \in DOMAIN Tail(s)} \cup {Head(s)}
<1> DEFINE t == Tail(s)
<1>1. Len(s) \in Nat /\ Len(s) >= 1 /\ DOMAIN t = 1 .. Len(s) - 1 /\ DOMAIN s = 1 .. Len(s)
    OBVIOUS
<1>2. \A i \in 1 .. Len(s) - 1 : t[i] = s[i + 1]
    OBVIOUS
<1>3. Head(s) = s[1]
    OBVIOUS
<1> HIDE DEF t
<1>4. \A i \in 1 .. Len(s) : i = 1 \/ (i - 1 \in 1 .. Len(s) - 1 /\ t[i - 1] = s[i])
    <2> TAKE i \in 1 .. Len(s)
    <2>1. i = 1 \/ (i - 1 \in 1 .. Len(s) - 1 /\ (i - 1) + 1 = i)
        BY <1>1
    <2> QED
        BY <2>1, <1>2
<1>5. \A i \in 1 .. Len(s) - 1 : i + 1 \in 1 .. Len(s)
    BY <1>1
<1>6. 1 \in 1 .. Len(s)
    BY <1>1
<1>7. ASSUME NEW x \in {s[i] : i \in DOMAIN s}
      PROVE  x \in {t[i] : i \in DOMAIN t} \cup {s[1]}
    BY <1>1, <1>4, <1>7
<1>8. ASSUME NEW x \in {t[i] : i \in DOMAIN t} \cup {s[1]}
      PROVE  x \in {s[i] : i \in DOMAIN s}
    BY <1>1, <1>2, <1>5, <1>6, <1>8
<1> QED
    BY <1>3, <1>7, <1>8 DEF t

(* What answering leaves alone: only a waiting thread changes, and only    *)
(* its stage.                                                              *)
LEMMA AnsweredKeeps ==
    ASSUME clients \in [Client -> ClientState], NEW jobs, NEW result \in {"Ok", "Err"},
           NEW c \in Client
    PROVE  /\ clients[c].stage # "Waiting" \/ clients[c].job \notin jobs
              => Answered(jobs, result)[c] = clients[c]
           /\ clients[c].stage = "Waiting" /\ clients[c].job \in jobs
              => /\ Answered(jobs, result)[c].stage = result
                 /\ Answered(jobs, result)[c].job = clients[c].job
<1>1. Answered(jobs, result)[c] = IF clients[c].stage = "Waiting" /\ clients[c].job \in jobs
                                  THEN [clients[c] EXCEPT !.stage = result] ELSE clients[c]
    BY DEF Answered
<1>2. clients[c].stage = "Waiting" =>
          clients[c] \in [stage: {"Sending", "Waiting", "Ok", "Err"}, job: WriterJob]
    BY DEF ClientState, Idle
<1> QED
    BY <1>1, <1>2

LEMMA PhasesCorrect == Spec => []Phases
<1>1. Init => Phases
    BY DEF Init, Phases
<1>2. ASSUME TypeOK, Phases, [Next]_vars
      PROVE  Phases'
    <2> USE <1>2
    <2>1. ASSUME NEW c \in Client, NEW path \in Path, NEW ack \in BOOLEAN,
                 FetchSeq(c, path, ack)
          PROVE  Phases'
        BY <2>1 DEF Phases, FetchSeq, TypeOK
    <2>2. ASSUME NEW c \in Client, Send(c)
          PROVE  Phases'
        <3>1. clients[c] # Idle /\ ~ dropped /\ ~ stopping
            BY <2>2 DEF Send, Idle, Phases
        <3>2. clients[c].job \in WriterJob
            BY <2>2, <3>1 DEF TypeOK, ClientState
        <3>3. channel \in Seq(WriterJob \cup {Stop}) /\ clients[c].job \in WriterJob \cup {Stop}
            BY <3>2 DEF TypeOK
        <3>4. ~ dropped' /\ ~ stopping' /\ UNCHANGED <<mode, winners, batch, draining>>
            BY <2>2, <3>1 DEF Send
        <3>5. \A i \in DOMAIN channel : channel[i] # Stop
            BY <3>1 DEF Phases
        <3>6. \A i \in DOMAIN channel' : channel'[i] # Stop
            <4>1. channel' = Append(channel, clients[c].job)
                BY <2>2 DEF Send
            <4>2. clients[c].job # Stop
                BY <3>2, SidecarConstants
            <4> QED
                BY <3>3, <3>5, <4>1, <4>2
        <3> QED
            BY <3>1, <3>4, <3>6 DEF Phases
    <2>3. ASSUME NEW c \in Client, Return(c)
          PROVE  Phases'
        <3>1. clients[c] # Idle /\ ~ dropped
            BY <2>3 DEF Return, Idle, Phases
        <3> QED
            BY <2>3, <3>1 DEF Phases, Return
    <2>4. CASE TakeErrors
        BY <2>4 DEF Phases, TakeErrors
    <2>5. CASE DropWriter
        <3>1. channel \in Seq(WriterJob \cup {Stop}) /\ channel' = Append(channel, Stop)
            BY <2>5 DEF TypeOK, DropWriter
        <3>2. \A i \in DOMAIN channel : channel[i] # Stop
            BY <2>5 DEF Phases, DropWriter
        <3>3. \A i \in DOMAIN channel' : channel'[i] = Stop => i = Len(channel')
            BY <3>1, <3>2
        <3>4. ~ stopping /\ stopping' = stopping /\ dropped'
            BY <2>5 DEF Phases, DropWriter
        <3> QED
            BY <2>5, <3>3, <3>4 DEF Phases, DropWriter
    <2>6. CASE Take
        <3>1. channel \in Seq(WriterJob \cup {Stop}) /\ channel # << >> /\ channel' = Tail(channel)
            BY <2>6 DEF TypeOK, Take
        <3>2. ~ stopping /\ winners = {} /\ mode' = "Collecting" /\ winners' = winners
            BY <2>6, <3>1 DEF Phases, Take
        <3>3. \A i \in DOMAIN channel' : channel'[i] = Stop => i = Len(channel') /\ dropped
            <4>1. \A i \in DOMAIN channel' : /\ i + 1 \in DOMAIN channel
                                             /\ channel'[i] = channel[i + 1]
                                             /\ i + 1 = Len(channel) => i = Len(channel')
                BY <3>1
            <4> QED
                BY <4>1 DEF Phases
        <3>4. Head(channel) = Stop => channel' = << >> /\ dropped
            <4>1. 1 \in DOMAIN channel /\ Head(channel) = channel[1]
                BY <3>1
            <4>2. ASSUME Head(channel) = Stop PROVE 1 = Len(channel) /\ dropped
                BY <4>1, <4>2 DEF Phases
            <4> QED
                BY <3>1, <4>2
        <3> QED
            BY <2>6, <3>2, <3>3, <3>4 DEF Phases, Take
    <2>7. CASE StartBatch
        <3>1. dropped => \A c \in Client : clients'[c] = Idle
            <4> SUFFICES ASSUME dropped, NEW c \in Client PROVE clients'[c] = Idle
                OBVIOUS
            <4>1. clients[c] = Idle /\ Idle.stage # "Waiting"
                BY DEF Phases, Idle
            <4> QED
                BY <2>7, <4>1 DEF StartBatch, Answered
        <3> QED
            BY <2>7, <3>1 DEF Phases, StartBatch
    <2>8. ASSUME NEW job \in winners, SkipStale(job) \/ Land(job) \/ Fail(job)
          PROVE  Phases'
        <3>1. dropped => \A c \in Client : clients'[c] = Idle
            <4> SUFFICES ASSUME dropped, NEW c \in Client PROVE clients'[c] = Idle
                OBVIOUS
            <4>1. clients[c] = Idle /\ Idle.stage # "Waiting"
                BY DEF Phases, Idle
            <4> QED
                BY <2>8, <4>1 DEF SkipStale, Land, Fail, Answered
        <3> QED
            BY <2>8, <3>1 DEF Phases, SkipStale, Land, Fail, Settle
    <2>9. CASE EndBatch
        BY <2>9 DEF Phases, EndBatch
    <2>10. CASE UNCHANGED vars
        BY <2>10 DEF Phases, vars
    <2> QED
        BY <2>1, <2>2, <2>3, <2>4, <2>5, <2>6, <2>7, <2>8, <2>9, <2>10
            DEF Next, ClientStep, WriterStep
<1> QED
    BY <1>1, <1>2, SidecarTypeCorrect, PTL DEF Spec

(* What is pending after a Send, after a Take and after a drop.            *)
LEMMA PendingAfterSend ==
    ASSUME TypeOK, NEW c \in Client, Send(c)
    PROVE  /\ clients[c].job \in WriterJob
           /\ Pending' = Pending \cup {clients[c].job}
<1>1. clients[c] \in ClientState /\ clients[c] # Idle
    BY DEF TypeOK, Send, Idle
<1>2. clients[c].job \in WriterJob
    BY <1>1 DEF ClientState
<1>3. channel \in Seq(WriterJob \cup {Stop}) /\ clients[c].job \in WriterJob \cup {Stop}
    BY <1>2 DEF TypeOK
<1>4. Queued' = Queued \cup {clients[c].job}
    BY <1>3, QueuedAppend DEF Send, Queued
<1>5. clients[c].job # Stop /\ UNCHANGED <<batch, winners>>
    BY <1>2, SidecarConstants DEF Send
<1> QED
    BY <1>2, <1>4, <1>5, Zenon DEF Pending, Queued

LEMMA PendingAfterDrop ==
    ASSUME TypeOK, DropWriter
    PROVE  Pending' = Pending
<1>1. channel \in Seq(WriterJob \cup {Stop}) /\ Stop \in WriterJob \cup {Stop}
    BY DEF TypeOK
<1>2. Queued' = Queued \cup {Stop}
    BY <1>1, QueuedAppend DEF DropWriter, Queued
<1>3. UNCHANGED <<batch, winners>>
    BY DEF DropWriter
<1> QED
    BY <1>2, <1>3, Zenon DEF Pending, Queued

LEMMA PendingAfterTake ==
    ASSUME TypeOK, Take
    PROVE  Pending' = Pending
<1>1. channel \in Seq(WriterJob \cup {Stop}) /\ channel # << >>
    BY DEF TypeOK, Take
<1>2. Queued = Queued' \cup {Head(channel)}
    BY <1>1, QueuedTail DEF Take, Queued
<1>3. CASE Head(channel) = Stop
    BY <1>2, <1>3 DEF Pending, Queued, Take
<1>4. CASE Head(channel) # Stop
    <2>1. batch' = batch \cup {Head(channel)} /\ winners' = winners
        BY <1>4 DEF Take
    <2> QED
        BY <1>2, <2>1, Zenon DEF Pending, Queued
<1> QED
    BY <1>3, <1>4

(* A pending job is a job.                                                 *)
LEMMA PendingIsJob == TypeOK => Pending \subseteq WriterJob
    BY DEF TypeOK, Pending

LEMMA AccountedCorrect == Spec => []Accounted
<1>1. Init => Accounted
    BY DEF Init, Accounted
<1>2. ASSUME TypeOK, Phases, Accounted, [Next]_vars
      PROVE  Accounted'
    <2> USE <1>2
    <2> DEFINE Numbered(n) ==
                   \/ \E c \in Client : clients[c].stage = "Sending" /\ clients[c].job.seq = n
                   \/ \E job \in Pending \cup settled : job.seq = n
    <2>0. /\ \A n \in 0 .. seq - 1 : Numbered(n)
          /\ (\A n \in 0 .. seq' - 1 : Numbered(n)') => Accounted'
        BY DEF Accounted
    <2>1. ASSUME NEW c \in Client, NEW path \in Path, NEW ack \in BOOLEAN,
                 FetchSeq(c, path, ack)
          PROVE  Accounted'
        <3> SUFFICES ASSUME NEW n \in 0 .. seq' - 1 PROVE Numbered(n)'
            BY <2>0
        <3>1. Pending' = Pending /\ settled' = settled /\ seq' = seq + 1 /\ seq \in Nat
            BY <2>1 DEF FetchSeq, Pending, TypeOK
        <3>2. /\ clients'[c].stage = "Sending" /\ clients'[c].job.seq = seq
              /\ \A d \in Client \ {c} : clients'[d] = clients[d]
            BY <2>1 DEF FetchSeq, TypeOK
        <3>3. clients[c].stage # "Sending"
            BY <2>1 DEF FetchSeq, Idle
        <3>4. n = seq \/ n \in 0 .. seq - 1
            BY <3>1
        <3>5. CASE n = seq
            BY <3>2, <3>5
        <3>6. CASE n \in 0 .. seq - 1
            BY <2>0, <3>1, <3>2, <3>3, <3>6
        <3> QED
            BY <3>4, <3>5, <3>6
    <2>2. ASSUME NEW c \in Client, Send(c)
          PROVE  Accounted'
        <3> SUFFICES ASSUME NEW n \in 0 .. seq' - 1 PROVE Numbered(n)'
            BY <2>0
        <3>1. Pending' = Pending \cup {clients[c].job} /\ settled' = settled /\ seq' = seq
            BY <2>2, PendingAfterSend DEF Send
        <3>2. \A d \in Client \ {c} : clients'[d] = clients[d]
            BY <2>2 DEF Send, TypeOK
        <3>3. Numbered(n)
            BY <2>0, <3>1
        <3> QED
            BY <3>1, <3>2, <3>3
    <2>3. ASSUME NEW c \in Client, Return(c)
          PROVE  Accounted'
        <3> SUFFICES ASSUME NEW n \in 0 .. seq' - 1 PROVE Numbered(n)'
            BY <2>0
        <3>1. Pending' = Pending /\ settled' = settled /\ seq' = seq
            BY <2>3 DEF Return, Pending
        <3>2. \A d \in Client \ {c} : clients'[d] = clients[d]
            BY <2>3 DEF Return, TypeOK
        <3>3. clients[c].stage # "Sending"
            BY <2>3 DEF Return
        <3>4. Numbered(n)
            BY <2>0, <3>1
        <3> QED
            BY <3>1, <3>2, <3>3, <3>4
    <2>4. CASE TakeErrors
        BY <2>4 DEF TakeErrors, Accounted, Pending
    <2>5. CASE DropWriter
        <3>1. Pending' = Pending /\ UNCHANGED <<seq, clients, settled>>
            BY <2>5, PendingAfterDrop DEF DropWriter
        <3> QED
            BY <3>1 DEF Accounted
    <2>6. CASE Take
        <3>1. Pending' = Pending /\ UNCHANGED <<seq, clients, settled>>
            BY <2>6, PendingAfterTake DEF Take
        <3> QED
            BY <3>1 DEF Accounted
    <2>7. ASSUME /\ StartBatch \/ \E job \in winners : SkipStale(job) \/ Land(job) \/ Fail(job)
          PROVE  Accounted'
        <3> SUFFICES ASSUME NEW n \in 0 .. seq' - 1 PROVE Numbered(n)'
            BY <2>0
        <3>1. Pending \cup settled \subseteq Pending' \cup settled' /\ seq' = seq
            <4>1. CASE StartBatch
                <5>1. winners = {}
                    BY <4>1 DEF Phases, StartBatch
                <5> QED
                    BY <4>1, <5>1 DEF StartBatch, Pending
            <4>2. ASSUME NEW job \in winners, SkipStale(job) \/ Land(job) \/ Fail(job)
                  PROVE  Pending \cup settled \subseteq Pending' \cup settled' /\ seq' = seq
                BY <4>2 DEF SkipStale, Land, Fail, Settle, Pending
            <4> QED
                BY <2>7, <4>1, <4>2
        <3>2. \A d \in Client : clients[d].stage = "Sending" => clients'[d] = clients[d]
            BY <2>7 DEF StartBatch, SkipStale, Land, Fail, Answered
        <3>3. Numbered(n)
            BY <2>0, <3>1
        <3> QED
            BY <3>1, <3>2, <3>3
    <2>8. CASE EndBatch
        BY <2>8 DEF EndBatch, Accounted, Pending
    <2>9. CASE UNCHANGED vars
        BY <2>9 DEF vars, Accounted, Pending
    <2> QED
        BY <2>1, <2>2, <2>3, <2>4, <2>5, <2>6, <2>7, <2>8, <2>9
            DEF Next, ClientStep, WriterStep
<1> QED
    BY <1>1, <1>2, SidecarTypeCorrect, PhasesCorrect, PTL DEF Spec

(* The thread exits only after every submitted job was settled, whatever   *)
(* the number of threads that were sending when the last handle went.      *)
THEOREM NothingLostCorrect == Spec => []NothingLostAtExit
<1>1. TypeOK /\ Phases /\ Accounted => NothingLostAtExit
    <2> SUFFICES ASSUME TypeOK, Phases, Accounted, mode = "Stopped", NEW n \in 0 .. seq - 1
                 PROVE  \E job \in settled : job.seq = n
        BY DEF NothingLostAtExit
    <2>1. batch = {} /\ winners = {} /\ channel = << >> /\ dropped
        BY DEF Phases
    <2>2. Pending = {}
        BY <2>1 DEF Pending
    <2>3. \A c \in Client : clients[c] = Idle
        BY <2>1 DEF Phases
    <2>4. Idle.stage = "Idle"
        BY DEF Idle
    <2> QED
        BY <2>2, <2>3, <2>4 DEF Accounted
<1> QED
    BY <1>1, SidecarTypeCorrect, PhasesCorrect, AccountedCorrect, PTL

-----------------------------------------------------------------------------
(* Everything known of the numbers: the invariant behind the two promises  *)
(* made to the only writer of a file.                                      *)
Order == Submitted /\ SentInOrder /\ Newest /\ AnsweredLast

(* A step that adds no pending job and answers none of the only writers    *)
(* that still has one pending.                                             *)
LEMMA OrderKept ==
    ASSUME TypeOK, Order, seq' = seq, Pending' \subseteq Pending,
           SentInOrder',
           \A c \in Client :
               \/ clients'[c] = Idle
               \/ clients'[c] = clients[c]
               \/ /\ clients[c].stage = "Waiting"
                  /\ clients'[c].stage \in {"Ok", "Err"} /\ clients'[c].job = clients[c].job
                  /\ Mine(c, clients[c].job) => \A job \in Pending' : ~ Mine(c, job)
    PROVE  Order'
<1>0. \A c \in Client : clients[c].stage = "Waiting" => clients[c] # Idle
    BY DEF Idle
<1>1. Submitted'
    <2>1. \A job \in Pending' : job.seq < seq'
        BY DEF Order, Submitted
    <2>2. ASSUME NEW c \in Client, clients'[c] # Idle
          PROVE  c \in Writers[clients'[c].job.path] /\ clients'[c].job.seq < seq'
        BY <1>0, <2>2 DEF Order, Submitted
    <2> QED
        BY <2>1, <2>2 DEF Submitted
<1>2. Newest'
    <2> SUFFICES ASSUME NEW c \in Client, NEW job \in Pending', Mine(c, job)
                 PROVE  /\ clients'[c].stage = "Sending" => job.seq < clients'[c].job.seq
                        /\ clients'[c].stage = "Waiting" => job.seq <= clients'[c].job.seq
        BY DEF Newest, Mine, OnlyWriter
    <2> QED
        BY DEF Order, Newest, Idle
<1>3. AnsweredLast'
    <2> SUFFICES ASSUME NEW c \in Client, clients'[c].stage \in {"Ok", "Err"},
                        Mine(c, clients'[c].job), NEW job \in Pending'
                 PROVE  ~ Mine(c, job)
        BY DEF AnsweredLast, Mine, OnlyWriter
    <2> QED
        BY DEF Order, AnsweredLast, Idle
<1> QED
    BY <1>1, <1>2, <1>3 DEF Order

LEMMA OrderCorrect == Spec => []Order
<1>1. Init => Order
    <2>1. ASSUME Init PROVE Pending = {} /\ Received = {} /\ DOMAIN channel = {}
        BY <2>1 DEF Init, Pending, Received
    <2>2. ASSUME Init, NEW c \in Client PROVE clients[c] = Idle
        BY <2>2 DEF Init
    <2>3. Idle.stage = "Idle"
        BY DEF Idle
    <2> QED
        BY <2>1, <2>2, <2>3 DEF Order, Submitted, SentInOrder, Newest, AnsweredLast
<1>2. ASSUME TypeOK, Phases, Order, [Next]_vars
      PROVE  Order'
    <2> USE <1>2
    <2>1. ASSUME NEW c \in Client, NEW path \in Path, NEW ack \in BOOLEAN,
                 c \in Writers[path], FetchSeq(c, path, ack)
          PROVE  Order'
        <3>1. Pending' = Pending /\ Received' = Received /\ channel' = channel
            BY <2>1 DEF FetchSeq, Pending, Received
        <3>2. seq' = seq + 1 /\ seq \in Nat
            BY <2>1 DEF FetchSeq, TypeOK
        <3>3. /\ clients'[c].stage = "Sending" /\ clients'[c].job.seq = seq
              /\ clients'[c].job.path = path
              /\ \A d \in Client \ {c} : clients'[d] = clients[d]
            BY <2>1 DEF FetchSeq, TypeOK
        <3>4. \A job \in Pending : job.seq < seq /\ job.seq \in Nat
            BY PendingIsJob DEF Order, Submitted, WriterJob
        <3>5. Submitted'
            <4>1. \A job \in Pending' : job.seq < seq'
                BY <3>1, <3>2, <3>4
            <4>2. ASSUME NEW d \in Client, clients'[d] # Idle
                  PROVE  d \in Writers[clients'[d].job.path] /\ clients'[d].job.seq < seq'
                <5>1. CASE d = c
                    BY <2>1, <3>2, <3>3, <5>1
                <5>2. CASE d # c
                    <6>1. clients[d] # Idle /\ clients'[d] = clients[d] /\ clients[d] \in ClientState
                        BY <3>3, <4>2, <5>2 DEF TypeOK
                    <6>2. clients[d].job.seq \in Nat
                        BY <6>1 DEF ClientState, WriterJob
                    <6> QED
                        BY <3>2, <6>1, <6>2 DEF Order, Submitted
                <5> QED
                    BY <5>1, <5>2
            <4> QED
                BY <4>1, <4>2 DEF Submitted
        <3>6. SentInOrder'
            BY <3>1 DEF Order, SentInOrder, Mine, OnlyWriter
        <3>7. Newest'
            <4> SUFFICES ASSUME NEW d \in Client, NEW job \in Pending, Mine(d, job)
                         PROVE  /\ clients'[d].stage = "Sending" => job.seq < clients'[d].job.seq
                                /\ clients'[d].stage = "Waiting" => job.seq <= clients'[d].job.seq
                BY <3>1 DEF Newest, Mine, OnlyWriter
            <4>1. CASE d = c
                BY <3>3, <3>4, <4>1
            <4>2. CASE d # c
                BY <3>3, <4>2 DEF Order, Newest
            <4> QED
                BY <4>1, <4>2
        <3>8. AnsweredLast'
            BY <3>1, <3>3 DEF Order, AnsweredLast, Mine, OnlyWriter
        <3> QED
            BY <3>5, <3>6, <3>7, <3>8 DEF Order
    <2>2. ASSUME NEW c \in Client, Send(c)
          PROVE  Order'
        <3> DEFINE new == clients[c].job
        <3>1. new \in WriterJob /\ Pending' = Pending \cup {new}
            BY <2>2, PendingAfterSend
        <3>2. /\ clients[c].stage = "Sending" /\ clients[c] # Idle
              /\ \A d \in Client \ {c} : clients'[d] = clients[d]
              /\ clients'[c] = Idle \/ (clients'[c].stage = "Waiting" /\ clients'[c].job = new)
            <4>1. clients[c] \in ClientState /\ clients[c].stage = "Sending" /\ clients[c] # Idle
                BY <2>2 DEF Send, Idle, TypeOK
            <4>2. clients[c] \in [stage: {"Sending", "Waiting", "Ok", "Err"}, job: WriterJob]
                BY <4>1 DEF ClientState
            <4> QED
                BY <2>2, <4>1, <4>2 DEF Send, TypeOK
        <3>3. c \in Writers[new.path] /\ new.seq < seq /\ new.seq \in Nat
            BY <3>1, <3>2 DEF Order, Submitted, WriterJob
        <3>4. seq' = seq /\ Received' = Received /\ channel' = Append(channel, new)
            BY <2>2 DEF Send, Received
        <3>5. channel \in Seq(WriterJob \cup {Stop}) /\ new \in WriterJob \cup {Stop}
            BY <3>1 DEF TypeOK
        <3>6. \A d \in Client : Mine(d, new) => d = c
            BY <3>3 DEF Mine, OnlyWriter
        <3>7. \A job \in Pending : Mine(c, job) => job.seq < new.seq
            BY <3>2 DEF Order, Newest
        <3>8. \A d \in Client : \A job \in Pending : Mine(d, job) /\ Mine(d, new) => job.seq < new.seq
            BY <3>6, <3>7
        <3>9. Submitted'
            <4>1. \A job \in Pending' : job.seq < seq'
                BY <3>1, <3>3, <3>4 DEF Order, Submitted
            <4>2. \A d \in Client : clients'[d] # Idle => d \in Writers[clients'[d].job.path]
                                                      /\ clients'[d].job.seq < seq'
                BY <3>2, <3>3, <3>4 DEF Order, Submitted
            <4> QED
                BY <4>1, <4>2 DEF Submitted
        <3>10. /\ DOMAIN channel' = 1 .. Len(channel) + 1 /\ DOMAIN channel = 1 .. Len(channel)
               /\ Len(channel) \in Nat
               /\ channel'[Len(channel) + 1] = new
               /\ \A i \in DOMAIN channel : channel'[i] = channel[i]
            BY <3>4, <3>5
        <3>11. /\ \A i \in DOMAIN channel : channel[i] # Stop => channel[i] \in Pending
               /\ Received \subseteq Pending
            <4>1. Stop \notin Received
                BY SidecarConstants DEF Received, TypeOK
            <4> QED
                BY <4>1 DEF Pending, Received
        <3> HIDE DEF new
        <3>12. SentInOrder'
            <4>1. ASSUME NEW d \in Client, NEW i \in DOMAIN channel', NEW j \in DOMAIN channel',
                         i < j, channel'[i] # Stop, channel'[j] # Stop,
                         Mine(d, channel'[i]), Mine(d, channel'[j])
                  PROVE  channel'[i].seq < channel'[j].seq
                <5>1. i \in DOMAIN channel
                    BY <3>10, <4>1
                <5>2. CASE j \in DOMAIN channel
                    BY <3>10, <4>1, <5>1, <5>2 DEF Order, SentInOrder
                <5>3. CASE j = Len(channel) + 1
                    BY <3>8, <3>10, <3>11, <4>1, <5>1, <5>3
                <5> QED
                    BY <3>10, <5>2, <5>3
            <4>2. ASSUME NEW d \in Client, NEW job \in Received', NEW i \in DOMAIN channel',
                         channel'[i] # Stop, Mine(d, job), Mine(d, channel'[i])
                  PROVE  job.seq < channel'[i].seq
                <5>1. CASE i \in DOMAIN channel
                    BY <3>4, <3>10, <4>2, <5>1 DEF Order, SentInOrder
                <5>2. CASE i = Len(channel) + 1
                    BY <3>4, <3>8, <3>10, <3>11, <4>2, <5>2
                <5> QED
                    BY <3>10, <5>1, <5>2
            <4>3. \A d \in Client : \A j, k \in Received' :
                      Mine(d, j) /\ Mine(d, k) /\ j.seq = k.seq => j = k
                BY <3>4 DEF Order, SentInOrder
            <4> QED
                BY <4>1, <4>2, <4>3 DEF SentInOrder, Mine, OnlyWriter
        <3>13. Newest'
            <4> SUFFICES ASSUME NEW d \in Client, NEW job \in Pending', Mine(d, job)
                         PROVE  /\ clients'[d].stage = "Sending" => job.seq < clients'[d].job.seq
                                /\ clients'[d].stage = "Waiting" => job.seq <= clients'[d].job.seq
                BY DEF Newest, Mine, OnlyWriter
            <4>1. job \in WriterJob /\ job.seq \in Nat
                BY <3>1, PendingIsJob DEF WriterJob
            <4>2. CASE d = c
                <5>1. job.seq < new.seq \/ job.seq = new.seq
                    BY <3>1, <3>7, <4>2
                <5>2. clients'[c].stage # "Sending"
                    BY <3>2 DEF Idle
                <5>3. clients'[c].stage = "Waiting" => clients'[c].job = new
                    BY <3>2 DEF Idle
                <5> QED
                    BY <3>3, <4>1, <4>2, <5>1, <5>2, <5>3
            <4>3. CASE d # c
                BY <3>1, <3>2, <3>6, <4>3 DEF Order, Newest
            <4> QED
                BY <4>2, <4>3
        <3>14. AnsweredLast'
            <4> SUFFICES ASSUME NEW d \in Client, clients'[d].stage \in {"Ok", "Err"},
                                Mine(d, clients'[d].job), NEW job \in Pending'
                         PROVE  ~ Mine(d, job)
                BY DEF AnsweredLast, Mine, OnlyWriter
            <4>1. d # c
                BY <3>2 DEF Idle
            <4> QED
                BY <3>1, <3>2, <3>6, <4>1 DEF Order, AnsweredLast
        <3> QED
            BY <3>9, <3>12, <3>13, <3>14 DEF Order
    <2>3. ASSUME NEW c \in Client, Return(c)
          PROVE  Order'
        <3>1. Pending' = Pending /\ Received' = Received /\ channel' = channel /\ seq' = seq
            BY <2>3 DEF Return, Pending, Received
        <3>2. \A d \in Client : clients'[d] = Idle \/ clients'[d] = clients[d]
            BY <2>3 DEF Return, TypeOK
        <3>3. SentInOrder'
            BY <3>1 DEF Order, SentInOrder, Mine, OnlyWriter
        <3> QED
            BY <3>1, <3>2, <3>3, OrderKept
    <2>4. ASSUME UNCHANGED <<seq, clients, channel, batch, winners>>
          PROVE  Order'
        <3>1. Pending' = Pending /\ Received' = Received /\ channel' = channel /\ seq' = seq
            BY <2>4 DEF Pending, Received
        <3>2. SentInOrder'
            BY <3>1 DEF Order, SentInOrder, Mine, OnlyWriter
        <3> QED
            BY <2>4, <3>1, <3>2, OrderKept
    <2>5. CASE DropWriter
        <3>1. Pending' = Pending /\ UNCHANGED <<seq, clients>> /\ Received' = Received
            BY <2>5, PendingAfterDrop DEF DropWriter, Received
        <3>2. channel \in Seq(WriterJob \cup {Stop}) /\ channel' = Append(channel, Stop)
            BY <2>5 DEF DropWriter, TypeOK
        <3>3. \A i \in DOMAIN channel' :
                  channel'[i] # Stop => i \in DOMAIN channel /\ channel'[i] = channel[i]
            BY <3>2
        <3>4. SentInOrder'
            BY <3>1, <3>3 DEF Order, SentInOrder, Mine, OnlyWriter
        <3> QED
            BY <3>1, <3>4, OrderKept
    <2>6. CASE Take
        <3>1. Pending' = Pending /\ UNCHANGED <<seq, clients>>
            BY <2>6, PendingAfterTake DEF Take
        <3>2. /\ channel \in Seq(WriterJob \cup {Stop}) /\ channel # << >>
              /\ channel' = Tail(channel)
            BY <2>6 DEF Take, TypeOK
        <3>3. /\ \A i \in DOMAIN channel' : i + 1 \in DOMAIN channel /\ channel'[i] = channel[i + 1]
              /\ \A i, j \in DOMAIN channel' : i < j => i + 1 < j + 1
              /\ \A i \in DOMAIN channel' : 1 < i + 1
              /\ 1 \in DOMAIN channel /\ Head(channel) = channel[1]
            BY <3>2
        <3>4. \A job \in Received' :
                  job \in Received \/ (job = channel[1] /\ channel[1] # Stop)
            BY <2>6, <3>3 DEF Take, Received
        <3>5. SentInOrder'
            <4>1. ASSUME NEW d \in Client, NEW i \in DOMAIN channel', NEW j \in DOMAIN channel',
                         i < j, channel'[i] # Stop, channel'[j] # Stop,
                         Mine(d, channel'[i]), Mine(d, channel'[j])
                  PROVE  channel'[i].seq < channel'[j].seq
                <5>1. /\ i + 1 \in DOMAIN channel /\ j + 1 \in DOMAIN channel /\ i + 1 < j + 1
                      /\ channel'[i] = channel[i + 1] /\ channel'[j] = channel[j + 1]
                    BY <3>3, <4>1
                <5> QED
                    BY <4>1, <5>1 DEF Order, SentInOrder
            <4>2. ASSUME NEW d \in Client, NEW job \in Received', NEW i \in DOMAIN channel',
                         channel'[i] # Stop, Mine(d, job), Mine(d, channel'[i])
                  PROVE  job.seq < channel'[i].seq
                <5>1. /\ i + 1 \in DOMAIN channel /\ channel'[i] = channel[i + 1] /\ 1 < i + 1
                    BY <3>3, <4>2
                <5> QED
                    BY <3>3, <3>4, <4>2, <5>1 DEF Order, SentInOrder
            <4>3. ASSUME NEW d \in Client, NEW j \in Received', NEW k \in Received',
                         Mine(d, j), Mine(d, k), j.seq = k.seq
                  PROVE  j = k
                <5>1. \A job \in Received : job.seq \in Nat
                    BY DEF Received, TypeOK, WriterJob
                <5>2. channel[1] # Stop /\ Mine(d, channel[1]) => \A job \in Received :
                          Mine(d, job) => job.seq < channel[1].seq
                    BY <3>3 DEF Order, SentInOrder
                <5>3. channel[1] # Stop => channel[1].seq \in Nat
                    BY <3>2, <3>3 DEF WriterJob
                <5>4. CASE j \in Received /\ k \in Received
                    BY <4>3, <5>4 DEF Order, SentInOrder
                <5>5. CASE j \in Received /\ k = channel[1] /\ channel[1] # Stop
                    BY <4>3, <5>1, <5>2, <5>3, <5>5
                <5>6. CASE k \in Received /\ j = channel[1] /\ channel[1] # Stop
                    BY <4>3, <5>1, <5>2, <5>3, <5>6
                <5> QED
                    BY <3>4, <5>4, <5>5, <5>6
            <4> QED
                BY <4>1, <4>2, <4>3 DEF SentInOrder, Mine, OnlyWriter
        <3> QED
            BY <3>1, <3>5, OrderKept
    <2>7. ASSUME UNCHANGED <<seq, channel>>, Received' \subseteq Received,
                 NEW jobs \in SUBSET WriterJob, NEW result \in {"Ok", "Err"},
                 clients' = Answered(jobs, result),
                 \A c \in Client : \A own \in jobs :
                     clients[c].stage = "Waiting" /\ clients[c].job = own /\ Mine(c, own) =>
                         \A job \in Pending' : ~ Mine(c, job)
          PROVE  Order'
        <3>1. Pending' \subseteq Pending /\ seq' = seq /\ channel' = channel
            BY <2>7 DEF Pending, Received
        <3>2. SentInOrder'
            BY <2>7, <3>1 DEF Order, SentInOrder, Mine, OnlyWriter
        <3>3. clients \in [Client -> ClientState]
            BY DEF TypeOK
        <3>4. ASSUME NEW c \in Client
              PROVE  \/ clients'[c] = clients[c]
                     \/ /\ clients[c].stage = "Waiting"
                        /\ clients'[c].stage \in {"Ok", "Err"} /\ clients'[c].job = clients[c].job
                        /\ Mine(c, clients[c].job) => \A job \in Pending' : ~ Mine(c, job)
            BY <2>7, <3>3, AnsweredKeeps
        <3> QED
            BY <3>1, <3>2, <3>4, OrderKept
    <2>8. CASE StartBatch
        <3>1. winners = {} /\ winners' \subseteq batch /\ batch' = {}
            BY <2>8 DEF Phases, StartBatch, Latest
        <3>2. Received' \subseteq Received /\ UNCHANGED <<seq, channel>>
            BY <2>8, <3>1 DEF StartBatch, Received
        <3>3. ASSUME NEW c \in Client, NEW own \in batch \ Latest(batch),
                     clients[c].stage = "Waiting", clients[c].job = own, Mine(c, own)
              PROVE  FALSE
            <4>1. PICK other \in batch : other.path = own.path /\ ~ (other.seq <= own.seq)
                BY <3>3 DEF Latest
            <4>2. other \in Pending /\ Mine(c, other)
                BY <3>3, <4>1, SidecarConstants DEF Pending, Mine, TypeOK
            <4> QED
                BY <3>3, <4>1, <4>2 DEF Order, Newest
        <3>4. batch \ Latest(batch) \in SUBSET WriterJob
            BY DEF TypeOK
        <3>5. clients' = Answered(batch \ Latest(batch), "Ok")
            BY <2>8 DEF StartBatch
        <3> QED
            BY <2>7, <3>2, <3>3, <3>4, <3>5
    <2>9. ASSUME NEW own \in winners, SkipStale(own) \/ Land(own) \/ Fail(own)
          PROVE  Order'
        <3>1. /\ Upcoming(own) /\ winners' = winners \ {own} /\ batch = {} /\ batch' = {}
              /\ UNCHANGED <<seq, channel>>
            BY <2>9 DEF SkipStale, Land, Fail, Settle, Phases
        <3>2. Received' \subseteq Received /\ own \in Received
            BY <3>1 DEF Received
        <3>3. ASSUME NEW c \in Client, clients[c].stage = "Waiting", clients[c].job = own,
                     Mine(c, own), NEW job \in Pending', Mine(c, job)
              PROVE  FALSE
            <4>1. job \in Pending /\ job.seq \in Nat /\ own.seq \in Nat
                BY <3>1, <3>3, PendingIsJob DEF Pending, WriterJob, TypeOK
            <4>2. job.seq <= own.seq
                BY <3>3, <4>1 DEF Order, Newest
            <4>3. CASE job \in winners /\ job # own
                <5>1. own.seq <= job.seq /\ job \in Received
                    BY <3>1, <4>3 DEF Upcoming, Received
                <5>2. own.seq = job.seq
                    BY <4>1, <4>2, <5>1
                <5> QED
                    BY <3>2, <3>3, <4>3, <5>1, <5>2 DEF Order, SentInOrder
            <4>4. ASSUME NEW i \in DOMAIN channel, channel[i] = job, job # Stop
                  PROVE  FALSE
                <5>1. own.seq < job.seq
                    BY <3>2, <3>3, <4>4 DEF Order, SentInOrder
                <5> QED
                    BY <4>1, <4>2, <5>1
            <4> QED
                BY <3>1, <3>3, <4>3, <4>4 DEF Pending
        <3>4. {own} \in SUBSET WriterJob
            BY DEF TypeOK
        <3>5. \E result \in {"Ok", "Err"} : clients' = Answered({own}, result)
            BY <2>9 DEF SkipStale, Land, Fail
        <3> QED
            BY <2>7, <3>1, <3>2, <3>3, <3>4, <3>5
    <2> QED
        BY <2>1, <2>2, <2>3, <2>4, <2>5, <2>6, <2>8, <2>9
            DEF Next, ClientStep, WriterStep, TakeErrors, EndBatch, vars
<1> QED
    BY <1>1, <1>2, SidecarTypeCorrect, PhasesCorrect, PTL DEF Spec

(* When a joined write of a file's only writer is answered, none of that   *)
(* writer's jobs is still pending.                                         *)
THEOREM EarlierJobsCorrect == Spec => []EarlierJobsSettled
<1>1. Order => EarlierJobsSettled
    BY DEF Order, AnsweredLast, EarlierJobsSettled, Mine
<1> QED
    BY <1>1, OrderCorrect, PTL

(* A joined write that returns Ok to a file's only writer is in the file,  *)
(* or a newer one is.                                                      *)
THEOREM OkMeansLandedCorrect == Spec => []OkMeansLanded
<1>1. Init => OkMeansLanded
    BY DEF Init, OkMeansLanded, Idle
<1>2. ASSUME TypeOK, MemoryIsDisk, Phases, Order, OkMeansLanded,
             [\A p \in Path : disk[p] <= disk'[p]]_vars, [Next]_vars
      PROVE  OkMeansLanded'
    <2> USE <1>2
    <2>1. \A p \in Path : disk[p] <= disk'[p] /\ disk[p] \in Int
        BY DEF vars, TypeOK
    <2>2. ASSUME NEW c \in Client, clients'[c] = clients[c], clients'[c].stage = "Ok",
                 OnlyWriter(c, clients'[c].job.path), disk' \in [Path -> Int]
          PROVE  clients'[c].job.seq <= disk'[clients'[c].job.path]
        <3>1. clients[c].job \in WriterJob
            BY <2>2 DEF TypeOK, ClientState, Idle
        <3>2. clients[c].job.seq <= disk[clients[c].job.path]
            BY <2>2 DEF OkMeansLanded
        <3> QED
            BY <2>1, <2>2, <3>1, <3>2 DEF WriterJob
    <2>3. SUFFICES ASSUME disk' \in [Path -> Int], NEW c \in Client, clients'[c] # clients[c],
                          clients'[c].stage = "Ok", OnlyWriter(c, clients'[c].job.path)
                   PROVE  clients'[c].job.seq <= disk'[clients'[c].job.path]
        <3>1. disk' \in [Path -> Int]
            <4>1. ASSUME NEW job \in winners, Land(job) PROVE disk' \in [Path -> Int]
                BY <4>1 DEF Land, TypeOK, WriterJob
            <4> QED
                BY <4>1 DEF TypeOK, Next, vars, ClientStep, FetchSeq, Send, Return, TakeErrors,
                    DropWriter, WriterStep, Take, StartBatch, SkipStale, Fail, EndBatch
        <3> QED
            BY <2>2, <3>1 DEF OkMeansLanded, OnlyWriter
    <2>4. clients \in [Client -> ClientState]
        BY DEF TypeOK
    <2>5. CASE StartBatch
        <3>1. clients' = Answered(batch \ Latest(batch), "Ok")
            BY <2>5 DEF StartBatch
        <3>2. /\ clients[c].stage = "Waiting" /\ clients[c].job \in batch \ Latest(batch)
              /\ clients'[c].job = clients[c].job
            BY <2>3, <2>4, <3>1, AnsweredKeeps
        <3>3. PICK other \in batch :
                  other.path = clients[c].job.path /\ ~ (other.seq <= clients[c].job.seq)
            BY <3>2 DEF Latest
        <3>4. other \in Pending /\ Mine(c, other)
            BY <2>3, <3>2, <3>3, SidecarConstants DEF Pending, Mine, TypeOK
        <3> QED
            BY <3>2, <3>3, <3>4 DEF Order, Newest
    <2>6. ASSUME NEW job \in winners, SkipStale(job) \/ Land(job)
          PROVE  clients'[c].job.seq <= disk'[clients'[c].job.path]
        <3>1. clients' = Answered({job}, "Ok")
            BY <2>6 DEF SkipStale, Land
        <3>2. clients'[c].job = job
            BY <2>3, <2>4, <3>1, AnsweredKeeps
        <3>3. job.path \in Path /\ job.seq \in Nat
            BY DEF TypeOK, WriterJob
        <3>4. job.seq <= disk'[job.path]
            BY <2>6, <3>3 DEF SkipStale, Land, Stale, MemoryIsDisk, TypeOK
        <3> QED
            BY <3>2, <3>4
    <2>7. ASSUME NEW job \in winners, Fail(job)
          PROVE  FALSE
        <3>1. clients' = Answered({job}, "Err")
            BY <2>7 DEF Fail
        <3> QED
            BY <2>3, <2>4, <3>1, AnsweredKeeps
    <2>8. ASSUME NEW d \in Client, ClientStep(d)
          PROVE  FALSE
        <3>1. \A e \in Client \ {d} : clients'[e] = clients[e]
            BY <2>4, <2>8 DEF ClientStep, FetchSeq, Send, Return
        <3>2. clients'[d].stage # "Ok"
            <4>1. CASE Send(d)
                <5>1. clients[d] \in [stage: {"Sending", "Waiting", "Ok", "Err"}, job: WriterJob]
                    BY <2>4, <4>1 DEF Send, ClientState, Idle
                <5> QED
                    BY <2>4, <4>1, <5>1 DEF Send, Idle
            <4>2. CASE Return(d)
                BY <2>4, <4>2 DEF Return, Idle
            <4>3. ASSUME NEW path, NEW ack, FetchSeq(d, path, ack)
                  PROVE  clients'[d].stage # "Ok"
                BY <2>4, <4>3 DEF FetchSeq
            <4> QED
                BY <2>8, <4>1, <4>2, <4>3 DEF ClientStep
        <3> QED
            BY <2>3, <3>1, <3>2
    <2>9. CASE UNCHANGED clients
        BY <2>3, <2>9
    <2> QED
        BY <2>5, <2>6, <2>7, <2>8, <2>9 DEF Next, vars, WriterStep, TakeErrors, DropWriter,
            Take, EndBatch
<1> QED
    BY <1>1, <1>2, SidecarTypeCorrect, MemoryCorrect, PhasesCorrect, OrderCorrect,
       StaleNeverOverwritesCorrect, PTL DEF Spec, StaleNeverOverwrites

=============================================================================
