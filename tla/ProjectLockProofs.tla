------------------------- MODULE ProjectLockProofs --------------------------
(***************************************************************************)
(* Proofs about ProjectLock, for every set of processes, every number of   *)
(* acquires and every number of deletions of the lock object and of the    *)
(* discovery file.                                                         *)
(***************************************************************************)
EXTENDS ProjectLock, TLAPS

Holding == {"Locked", "Scanned", "Decided", "Publishing", "Held", "Writing",
            "ReleaseRead", "Removing", "Unlocking"}

(* An inode is numbered once; a process that is past its open holds one.   *)
InodesKnown ==
    /\ object <= created
    /\ \A p \in Process : proc[p].fd <= created
    /\ \A p \in Process : proc[p].pc \notin {"Idle", "Opening"} => proc[p].fd # 0

(* The flock is held from try_lock_exclusive to the end.                   *)
FlockHeld == \A p \in Process : proc[p].locked <=> proc[p].pc \in Holding

FlockExclusive == \A p, q \in Process : Exclusive(p, q)

(* A check that was not overtaken by a deletion still tells the truth.     *)
CheckHolds ==
    \A p \in Process :
        proc[p].pc \in {"Publishing", "Writing", "Removing"} /\ ~ proc[p].moved => Matches(p)

(* Without deletions of the lock object every descriptor names it.         *)
NeverMoved ==
    unlinks = 0 => \A p \in Process : proc[p].pc \notin {"Idle", "Opening"} => Matches(p)

(* Without deletions of the lock object, the claim left behind is the      *)
(* discovery that a process holding the flock found.                       *)
DebtKnown ==
    unlinks = 0 =>
        /\ (\A p \in Process : ~ Published(p)) => unsettled = discovery
        /\ \A p \in Process : Published(p) =>
                unsettled = Absent /\ discovery \in {proc[p].claim, Absent}
        /\ \A p \in Process : proc[p].pc \in {"Decided", "Publishing"} =>
                proc[p].previous = unsettled \/ (deletions > 0 /\ unsettled = Absent)

NoJournalSeen ==
    unlinks = 0 => \A p \in Process \ Gui :
        Published(p) \/ proc[p].pc \in {"Scanned", "Decided", "Publishing"} => ~ journal

LockInv ==
    /\ TypeOK
    /\ InodesKnown
    /\ FlockHeld
    /\ FlockExclusive
    /\ CheckHolds
    /\ NeverMoved
    /\ DebtKnown
    /\ NoJournalSeen

LEMMA IdleType ==
    /\ Idle \in ProcessState
    /\ Idle.pc = "Idle" /\ Idle.fd = 0 /\ Idle.locked = FALSE /\ Idle.moved = FALSE
BY DEF Idle, ProcessState, Discovery

LEMMA InitInv == Init => LockInv
BY LockConstants, IdleType DEF Init, LockInv, TypeOK, InodesKnown, FlockHeld, FlockExclusive, CheckHolds,
    NeverMoved, DebtKnown, NoJournalSeen, Exclusive, Published, Matches, At, Holding, Discovery

LEMMA OpeningType ==
    ASSUME NEW attempt \in Nat, NEW claim \in Nat
    PROVE  /\ Opening(attempt, claim) \in ProcessState
           /\ Opening(attempt, claim).pc = "Opening"
           /\ Opening(attempt, claim).fd = 0
           /\ Opening(attempt, claim).locked = FALSE
BY DEF Opening, ProcessState, Discovery

LEMMA RetryType ==
    ASSUME LockInv, NEW p \in Process, Retry(p)
    PROVE  /\ proc' \in [Process -> ProcessState]
           /\ \A q \in Process \ {p} : proc'[q] = proc[q]
           /\ proc'[p].pc \in {"Idle", "Opening"}
           /\ proc'[p].fd = 0 /\ proc'[p].locked = FALSE
<1> DEFINE again == Opening(proc[p].attempt + 1, proc[p].claim)
<1>1. proc[p].attempt + 1 \in Nat /\ proc[p].claim \in Nat
    BY DEF LockInv, TypeOK, ProcessState
<1>2. again \in ProcessState /\ again.pc = "Opening" /\ again.fd = 0 /\ again.locked = FALSE
    BY <1>1, OpeningType
<1>3. proc' = [proc EXCEPT ![p] = Idle] \/ proc' = [proc EXCEPT ![p] = again]
    BY DEF Retry
<1> HIDE DEF again
<1> QED
    BY <1>2, <1>3, IdleType DEF LockInv, TypeOK

(* What moving one process on leaves alone.                                *)
Others(p) ==
    /\ proc' \in [Process -> ProcessState]
    /\ \A q \in Process \ {p} : proc'[q] = proc[q]

Moves(p, pc) ==
    /\ Others(p)
    /\ proc'[p].pc = pc
    /\ proc'[p].fd = proc[p].fd
    /\ proc'[p].locked = proc[p].locked
    /\ proc'[p].claim = proc[p].claim
    /\ proc'[p].previous = proc[p].previous

LEMMA GotoMoves ==
    ASSUME LockInv, NEW p \in Process, NEW pc, Goto(p, pc),
           pc \in {"Scanned", "Held", "ReleaseRead", "Unlocking"}
    PROVE  Moves(p, pc) /\ proc'[p].moved = proc[p].moved
BY DEF LockInv, TypeOK, Goto, Moves, Others, ProcessState

LEMMA CheckedMoves ==
    ASSUME LockInv, NEW p \in Process, NEW pc, Checked(p, pc),
           pc \in {"Matched", "Publishing", "Writing", "Removing"}
    PROVE  Moves(p, pc)
BY ZenonT(60) DEF LockInv, TypeOK, Checked, Moves, Others, ProcessState

Ends(p) ==
    /\ Others(p)
    /\ proc'[p].pc \in {"Idle", "Opening"}
    /\ proc'[p].fd = 0
    /\ proc'[p].locked = FALSE

LEMMA IdleEnds ==
    ASSUME LockInv, NEW p \in Process, proc' = [proc EXCEPT ![p] = Idle]
    PROVE  Ends(p)
BY IdleType DEF LockInv, TypeOK, Ends, Others

(* A process that leaves disturbs the invariant only through what it left  *)
(* behind.                                                                 *)
LEMMA EndsKeepsInv ==
    ASSUME LockInv, NEW p \in Process, Ends(p),
           UNCHANGED <<object, created, discovery, claims, journal, unlinks, deletions>>,
           unsettled' = IF Published(p) THEN Abandoned(p) ELSE unsettled
    PROVE  LockInv'
<1> USE DEF LockInv
<1>1. TypeOK'
    BY DEF TypeOK, Ends, Others, Abandoned, Discovery, ProcessState
<1>2. InodesKnown' /\ FlockHeld' /\ FlockExclusive'
    BY DEF InodesKnown, FlockHeld, FlockExclusive, Ends, Others, Exclusive, Holding, TypeOK
<1>3. CheckHolds' /\ NeverMoved'
    BY DEF CheckHolds, NeverMoved, Ends, Others, Matches
<1>4. DebtKnown'
    BY DEF DebtKnown, Ends, Others, Published, Abandoned, TypeOK, FlockHeld, FlockExclusive, Exclusive, Holding, NeverMoved, Matches
<1>5. NoJournalSeen'
    BY DEF NoJournalSeen, Ends, Others, Published
<1> QED
    BY <1>1, <1>2, <1>3, <1>4, <1>5

(* What an action that moves one process on, holding what it holds, has to *)
(* show: its own place, and what became of the discovery.                  *)
LEMMA MovesKeepsFlock ==
    ASSUME LockInv, NEW p \in Process, NEW pc, Moves(p, pc),
           pc \in Holding <=> proc[p].pc \in Holding,
           proc[p].pc \notin {"Idle", "Opening"},
           UNCHANGED <<object, created, unlinks>>,
           pc \in {"Publishing", "Writing", "Removing"} => Matches(p)
    PROVE  InodesKnown' /\ FlockHeld' /\ FlockExclusive' /\ CheckHolds' /\ NeverMoved'
<1> USE DEF LockInv
<1>1. InodesKnown'
    BY DEF InodesKnown, Moves, Others
<1>2. FlockHeld' /\ FlockExclusive'
    BY DEF FlockHeld, FlockExclusive, Moves, Others, Exclusive
<1>3. CheckHolds' /\ NeverMoved'
    BY DEF CheckHolds, NeverMoved, Moves, Others, Matches
<1> QED
    BY <1>1, <1>2, <1>3

(* Without deletions of the lock object one process at most holds a flock. *)
LEMMA OneHolder ==
    ASSUME LockInv, unlinks = 0, NEW p \in Process, NEW q \in Process,
           proc[p].pc \in Holding, proc[q].pc \in Holding
    PROVE  p = q
BY DEF LockInv, FlockHeld, FlockExclusive, Exclusive, NeverMoved, Matches, Holding

LEMMA CheckOpenedInv ==
    ASSUME LockInv, NEW p \in Process, CheckOpened(p) PROVE LockInv'
<1> USE DEF LockInv
<1>1. CASE Matches(p)
    <2>1. Moves(p, "Matched")
        BY <1>1, CheckedMoves DEF CheckOpened
    <2>2. InodesKnown' /\ FlockHeld' /\ FlockExclusive' /\ CheckHolds' /\ NeverMoved'
        BY <2>1, MovesKeepsFlock DEF CheckOpened, Holding, At
    <2>3. TypeOK'
        BY <2>1 DEF TypeOK, Moves, Others, CheckOpened
    <2>4. DebtKnown' /\ NoJournalSeen'
        BY <2>1 DEF DebtKnown, NoJournalSeen, Moves, Others, CheckOpened, Published, At
    <2> QED
        BY <2>2, <2>3, <2>4
<1>2. CASE ~ Matches(p)
    <2>1. Ends(p)
        BY <1>2, RetryType DEF CheckOpened, Ends, Others
    <2> QED
        BY <2>1, EndsKeepsInv DEF CheckOpened, Published, At
<1> QED
    BY <1>1, <1>2

LEMMA TryLockInv ==
    ASSUME LockInv, NEW p \in Process, TryLock(p) PROVE LockInv'
<1> USE DEF LockInv
<1>1. CASE Free(p)
    <2>1. /\ Others(p)
          /\ proc'[p].pc = "Locked" /\ proc'[p].locked = TRUE /\ proc'[p].fd = proc[p].fd
        BY <1>1 DEF TryLock, TypeOK, Others, ProcessState
    <2>2. TypeOK' /\ InodesKnown'
        BY <2>1 DEF TypeOK, InodesKnown, Others, TryLock, At
    <2>3. FlockHeld'
        BY <2>1 DEF FlockHeld, Others, Holding
    <2>4. FlockExclusive'
        BY <1>1, <2>1 DEF FlockExclusive, Exclusive, Others, Free
    <2>5. CheckHolds' /\ NeverMoved'
        BY <2>1 DEF CheckHolds, NeverMoved, Others, Matches, TryLock, At
    <2>6. DebtKnown' /\ NoJournalSeen'
        BY <2>1 DEF DebtKnown, NoJournalSeen, Others, TryLock, Published, At
    <2> QED
        BY <2>2, <2>3, <2>4, <2>5, <2>6
<1>2. CASE ~ Free(p)
    <2>1. Ends(p)
        BY <1>2, RetryType DEF TryLock, Ends, Others
    <2> QED
        BY <2>1, EndsKeepsInv DEF TryLock, Published, At
<1> QED
    BY <1>1, <1>2

LEMMA OpenInv ==
    ASSUME LockInv, NEW p \in Process, Open(p) PROVE LockInv'
<1> USE DEF LockInv
<1>1. object' # 0 /\ object' \in Nat /\ created' \in Nat /\ object' <= created' /\ created <= created'
    BY DEF Open, TypeOK, InodesKnown
<1>2. /\ Others(p)
      /\ proc'[p].pc = "Opened" /\ proc'[p].locked = proc[p].locked /\ proc'[p].fd = object'
    BY <1>1, ZenonT(60) DEF Open, TypeOK, Others, ProcessState
<1>3. TypeOK'
    BY <1>1, <1>2 DEF TypeOK, Others, Open
<1>4. InodesKnown'
    BY <1>1, <1>2 DEF TypeOK, InodesKnown, Others, Open, ProcessState
<1>5. FlockHeld' /\ FlockExclusive'
    BY <1>2 DEF FlockHeld, FlockExclusive, Exclusive, Others, Open, At, Holding
<1>6. CheckHolds' /\ NeverMoved'
    BY <1>1, <1>2 DEF CheckHolds, NeverMoved, InodesKnown, Others, Matches, Open, At
<1>7. DebtKnown' /\ NoJournalSeen'
    BY <1>2 DEF DebtKnown, NoJournalSeen, Others, Open, Published, At
<1> QED
    BY <1>3, <1>4, <1>5, <1>6, <1>7

LEMMA ScanInv ==
    ASSUME LockInv, NEW p \in Process, Scan(p) PROVE LockInv'
<1> USE DEF LockInv
<1>1. CASE p \notin Gui /\ journal
    BY <1>1, IdleEnds, EndsKeepsInv DEF Scan, Refuse, Published, At
<1>2. CASE ~ (p \notin Gui /\ journal)
    <2>1. Moves(p, "Scanned")
        BY <1>2, GotoMoves DEF Scan
    <2>2. InodesKnown' /\ FlockHeld' /\ FlockExclusive' /\ CheckHolds' /\ NeverMoved'
        BY <2>1, MovesKeepsFlock DEF Scan, Holding, At
    <2>3. TypeOK'
        BY <2>1 DEF TypeOK, Moves, Others, Scan
    <2>4. DebtKnown'
        BY <2>1 DEF DebtKnown, Moves, Others, Scan, Published, At
    <2>5. NoJournalSeen'
        BY <1>2, <2>1 DEF NoJournalSeen, Moves, Others, Scan, Published, At
    <2> QED
        BY <2>2, <2>3, <2>4, <2>5
<1> QED
    BY <1>1, <1>2

LEMMA DecideInv ==
    ASSUME LockInv, NEW p \in Process, Decide(p) PROVE LockInv'
<1> USE DEF LockInv
<1>1. CASE discovery = Foreign
    BY <1>1, IdleEnds, EndsKeepsInv DEF Decide, Refuse, Published, At
<1>2. CASE discovery # Foreign
    <2>1. /\ Others(p)
          /\ proc'[p].pc = "Decided" /\ proc'[p].locked = proc[p].locked
          /\ proc'[p].fd = proc[p].fd /\ proc'[p].previous = discovery
        BY <1>2 DEF Decide, TypeOK, Others, ProcessState
    <2>2. TypeOK' /\ InodesKnown'
        BY <2>1 DEF TypeOK, InodesKnown, Others, Decide, At
    <2>3. FlockHeld' /\ FlockExclusive'
        BY <2>1 DEF FlockHeld, FlockExclusive, Exclusive, Others, Decide, At, Holding
    <2>4. CheckHolds' /\ NeverMoved'
        BY <2>1 DEF CheckHolds, NeverMoved, Others, Matches, Decide, At
    <2>5. DebtKnown'
        <3> SUFFICES ASSUME unlinks = 0 PROVE DebtKnown'
            BY DEF DebtKnown, Decide
        <3>1. \A q \in Process : ~ Published(q)
            BY OneHolder DEF Decide, Published, At, Holding
        <3>2. \A q \in Process : ~ Published(q)'
            BY <2>1, <3>1 DEF Others, Published
        <3>3. unsettled = discovery
            BY <3>1 DEF DebtKnown
        <3>4. \A q \in Process : proc'[q].pc \in {"Decided", "Publishing"} =>
                proc'[q].previous = unsettled' \/ (deletions' > 0 /\ unsettled' = Absent)
            <4> SUFFICES ASSUME NEW q \in Process, proc'[q].pc \in {"Decided", "Publishing"}
                         PROVE  \/ proc'[q].previous = unsettled'
                                \/ deletions' > 0 /\ unsettled' = Absent
                OBVIOUS
            <4>1. CASE q = p
                BY <2>1, <3>3, <4>1 DEF Decide
            <4>2. CASE q # p
                BY <2>1, <4>2 DEF DebtKnown, Others, Decide
            <4> QED
                BY <4>1, <4>2
        <3>5. unsettled' = discovery'
            BY <3>3 DEF Decide
        <3> QED
            BY <3>2, <3>4, <3>5 DEF DebtKnown, Published
    <2>6. NoJournalSeen'
        BY <2>1 DEF NoJournalSeen, Others, Decide, Published, At
    <2> QED
        BY <2>2, <2>3, <2>4, <2>5, <2>6
<1> QED
    BY <1>1, <1>2

LEMMA CheckPublishInv ==
    ASSUME LockInv, NEW p \in Process, CheckPublish(p) PROVE LockInv'
<1> USE DEF LockInv
<1>1. CASE ~ Matches(p)
    BY <1>1, IdleEnds, EndsKeepsInv DEF CheckPublish, Refuse, Published, At
<1>2. CASE Matches(p)
    <2>1. Moves(p, "Publishing")
        BY <1>2, CheckedMoves DEF CheckPublish
    <2>2. InodesKnown' /\ FlockHeld' /\ FlockExclusive' /\ CheckHolds' /\ NeverMoved'
        BY <1>2, <2>1, MovesKeepsFlock DEF CheckPublish, Holding, At
    <2>3. TypeOK'
        BY <2>1 DEF TypeOK, Moves, Others, CheckPublish
    <2>4. DebtKnown'
        BY <2>1 DEF DebtKnown, Moves, Others, CheckPublish, Published, At
    <2>5. NoJournalSeen'
        BY <2>1 DEF NoJournalSeen, Moves, Others, CheckPublish, Published, At
    <2> QED
        BY <2>2, <2>3, <2>4, <2>5
<1> QED
    BY <1>1, <1>2

LEMMA PublishInv ==
    ASSUME LockInv, NEW p \in Process, Publish(p) PROVE LockInv'
<1> USE DEF LockInv
<1>1. Moves(p, "Held")
    BY GotoMoves DEF Publish
<1>2. InodesKnown' /\ FlockHeld' /\ FlockExclusive' /\ CheckHolds' /\ NeverMoved'
    BY <1>1, MovesKeepsFlock DEF Publish, Holding, At
<1>3. TypeOK'
    BY <1>1 DEF TypeOK, Moves, Others, Publish, Discovery, ProcessState
<1>4. DebtKnown'
    BY <1>1, OneHolder DEF DebtKnown, Moves, Others, Publish, Published, At, Holding
<1>5. NoJournalSeen'
    BY <1>1, OneHolder DEF NoJournalSeen, Moves, Others, Publish, Published, At, Holding
<1> QED
    BY <1>2, <1>3, <1>4, <1>5

LEMMA BeginWriteInv ==
    ASSUME LockInv, NEW p \in Process, BeginWrite(p) PROVE LockInv'
<1> USE DEF LockInv
<1>1. Moves(p, "Writing")
    BY CheckedMoves DEF BeginWrite
<1>2. InodesKnown' /\ FlockHeld' /\ FlockExclusive' /\ CheckHolds' /\ NeverMoved'
    BY <1>1, MovesKeepsFlock DEF BeginWrite, Holding, At
<1>3. TypeOK'
    BY <1>1 DEF TypeOK, Moves, Others, BeginWrite
<1>4. DebtKnown'
    BY <1>1, OneHolder DEF DebtKnown, Moves, Others, BeginWrite, Published, At, Holding
<1>5. NoJournalSeen'
    BY <1>1, OneHolder DEF NoJournalSeen, Moves, Others, BeginWrite, Published, At, Holding
<1> QED
    BY <1>2, <1>3, <1>4, <1>5

LEMMA EndWriteInv ==
    ASSUME LockInv, NEW p \in Process, EndWrite(p) PROVE LockInv'
<1> USE DEF LockInv
<1>1. Moves(p, "Held")
    BY GotoMoves DEF EndWrite
<1>2. InodesKnown' /\ FlockHeld' /\ FlockExclusive' /\ CheckHolds' /\ NeverMoved'
    BY <1>1, MovesKeepsFlock DEF EndWrite, Holding, At
<1>3. TypeOK'
    BY <1>1 DEF TypeOK, Moves, Others, EndWrite
<1>4. DebtKnown'
    BY <1>1, OneHolder DEF DebtKnown, Moves, Others, EndWrite, Published, At, Holding
<1>5. NoJournalSeen'
    BY <1>1, OneHolder DEF NoJournalSeen, Moves, Others, EndWrite, Published, At, Holding
<1> QED
    BY <1>2, <1>3, <1>4, <1>5

LEMMA RemoveInv ==
    ASSUME LockInv, NEW p \in Process, Remove(p) PROVE LockInv'
<1> USE DEF LockInv
<1>1. Moves(p, "Unlocking")
    BY GotoMoves DEF Remove
<1>2. InodesKnown' /\ FlockHeld' /\ FlockExclusive' /\ CheckHolds' /\ NeverMoved'
    BY <1>1, MovesKeepsFlock DEF Remove, Holding, At
<1>3. TypeOK'
    BY <1>1 DEF TypeOK, Moves, Others, Remove, Discovery
<1>4. DebtKnown'
    BY <1>1, OneHolder DEF DebtKnown, Moves, Others, Remove, Published, At, Holding
<1>5. NoJournalSeen'
    BY <1>1, OneHolder DEF NoJournalSeen, Moves, Others, Remove, Published, At, Holding
<1> QED
    BY <1>2, <1>3, <1>4, <1>5

LEMMA RemoveFailsInv ==
    ASSUME LockInv, NEW p \in Process, RemoveFails(p) PROVE LockInv'
<1> USE DEF LockInv
<1>1. Moves(p, "Unlocking")
    BY GotoMoves DEF RemoveFails
<1>2. InodesKnown' /\ FlockHeld' /\ FlockExclusive' /\ CheckHolds' /\ NeverMoved'
    BY <1>1, MovesKeepsFlock DEF RemoveFails, Holding, At
<1>3. TypeOK'
    BY <1>1 DEF TypeOK, Moves, Others, RemoveFails, Abandoned, Discovery, ProcessState
<1>4. DebtKnown'
    BY <1>1, OneHolder DEF DebtKnown, Moves, Others, RemoveFails, Published, At, Holding, Abandoned
<1>5. NoJournalSeen'
    BY <1>1, OneHolder DEF NoJournalSeen, Moves, Others, RemoveFails, Published, At, Holding
<1> QED
    BY <1>2, <1>3, <1>4, <1>5

LEMMA ReleaseInv ==
    ASSUME LockInv, NEW p \in Process, Release(p) \/ ReleaseVerify(p) PROVE LockInv'
<1> USE DEF LockInv
<1>1. PICK pc \in {"ReleaseRead", "Removing", "Unlocking"} :
        /\ Moves(p, pc)
        /\ pc = "Removing" => Matches(p)
        /\ pc = "Unlocking" => discovery # proc[p].claim \/ ~ Matches(p)
    BY GotoMoves, CheckedMoves DEF Release, ReleaseVerify
<1>2. InodesKnown' /\ FlockHeld' /\ FlockExclusive' /\ CheckHolds' /\ NeverMoved'
    BY <1>1, MovesKeepsFlock DEF Release, ReleaseVerify, Holding, At
<1>3. TypeOK'
    BY <1>1 DEF TypeOK, Moves, Others, Release, ReleaseVerify
<1>4. DebtKnown'
    BY <1>1, OneHolder DEF DebtKnown, NeverMoved, Moves, Others, Release, ReleaseVerify,
        Published, At, Holding
<1>5. NoJournalSeen'
    BY <1>1 DEF NoJournalSeen, Moves, Others, Release, ReleaseVerify, Published, At
<1> QED
    BY <1>2, <1>3, <1>4, <1>5

LEMMA StartInv ==
    ASSUME LockInv, NEW p \in Process, Start(p) PROVE LockInv'
<1> USE DEF LockInv
<1> DEFINE fresh == Opening(1, claims + 1)
<1>1. fresh \in ProcessState /\ fresh.pc = "Opening" /\ fresh.fd = 0 /\ fresh.locked = FALSE
    <2>1. claims + 1 \in Nat
        BY DEF TypeOK
    <2> QED
        BY <2>1, OpeningType
<1>2. proc' = [proc EXCEPT ![p] = fresh]
    BY DEF Start
<1> HIDE DEF fresh
<1>3. Ends(p)
    BY <1>1, <1>2 DEF TypeOK, Ends, Others
<1>4. TypeOK'
    BY <1>3 DEF TypeOK, Start, Ends, Others
<1>5. InodesKnown' /\ FlockHeld' /\ FlockExclusive'
    BY <1>3 DEF InodesKnown, FlockHeld, FlockExclusive, Ends, Others, Exclusive, Holding, Start, TypeOK
<1>6. CheckHolds' /\ NeverMoved'
    BY <1>3 DEF CheckHolds, NeverMoved, Ends, Others, Matches, Start
<1>7. DebtKnown' /\ NoJournalSeen'
    BY <1>3 DEF DebtKnown, NoJournalSeen, Ends, Others, Published, Start, At
<1> QED
    BY <1>4, <1>5, <1>6, <1>7

(* The actions that end an attempt or a handle.                            *)
LEMMA EndingInv ==
    ASSUME LockInv, NEW p \in Process,
           OpenFails(p) \/ ScanFails(p) \/ PublishFails(p) \/ Unlock(p) \/ Drop(p) \/ Crash(p)
    PROVE  LockInv'
<1>1. Ends(p)
    BY RetryType, IdleEnds DEF OpenFails, ScanFails, PublishFails, Unlock, Drop, Crash, Refuse,
        Ends, Others
<1>2. UNCHANGED <<object, created, discovery, claims, journal, unlinks, deletions>>
    BY DEF OpenFails, ScanFails, PublishFails, Unlock, Drop, Crash
<1>3. unsettled' = IF Published(p) THEN Abandoned(p) ELSE unsettled
    BY DEF OpenFails, ScanFails, PublishFails, Unlock, Drop, Crash, Published, At
<1> QED
    BY <1>1, <1>2, <1>3, EndsKeepsInv

LEMMA UnlinkInv ==
    ASSUME LockInv, Unlink PROVE LockInv'
<1> USE DEF LockInv
<1>1. \A p \in Process :
        /\ proc'[p] \in ProcessState
        /\ proc'[p].pc = proc[p].pc /\ proc'[p].fd = proc[p].fd /\ proc'[p].locked = proc[p].locked
        /\ proc[p].pc # "Idle" => proc'[p].moved
    BY DEF Unlink, TypeOK, ProcessState
<1>2. proc' = [p \in Process |-> proc'[p]]
    BY DEF Unlink
<1>3. object' = 0 /\ created' = created /\ created \in Nat
    BY DEF Unlink, TypeOK
<1>4. proc' \in [Process -> ProcessState]
    BY <1>1, <1>2
<1>5. TypeOK'
    BY <1>3, <1>4 DEF TypeOK, Unlink
<1>6. InodesKnown' /\ FlockHeld' /\ FlockExclusive'
    BY <1>1, <1>3 DEF InodesKnown, FlockHeld, FlockExclusive, Exclusive
<1>7. CheckHolds'
    BY <1>1 DEF CheckHolds
<1>8. unlinks' # 0
    BY DEF Unlink, TypeOK
<1> QED
    BY <1>5, <1>6, <1>7, <1>8 DEF NeverMoved, DebtKnown, NoJournalSeen

LEMMA DeleteInv ==
    ASSUME LockInv, DeleteDiscovery PROVE LockInv'
<1> USE DEF LockInv
<1>1. TypeOK' /\ deletions' > 0
    BY DEF TypeOK, DeleteDiscovery, Discovery
<1>2. InodesKnown' /\ FlockHeld' /\ FlockExclusive' /\ CheckHolds' /\ NeverMoved'
    BY DEF InodesKnown, FlockHeld, FlockExclusive, Exclusive, CheckHolds, NeverMoved, Matches,
        DeleteDiscovery
<1>3. DebtKnown' /\ NoJournalSeen'
    BY <1>1 DEF DebtKnown, NoJournalSeen, Published, DeleteDiscovery
<1> QED
    BY <1>1, <1>2, <1>3

LEMMA StutterInv == LockInv /\ UNCHANGED vars => LockInv'
BY DEF LockInv, vars, TypeOK, InodesKnown, FlockHeld, FlockExclusive, Exclusive, CheckHolds,
    NeverMoved, Matches, DebtKnown, NoJournalSeen, Published

LEMMA NextInv == LockInv /\ [Next]_vars => LockInv'
<1> SUFFICES ASSUME LockInv, [Next]_vars PROVE LockInv'
    OBVIOUS
<1>1. CASE \E p \in Process : Step(p)
    <2>1. PICK p \in Process : Step(p)
        BY <1>1
    <2> QED
        BY <2>1, StartInv, OpenInv, CheckOpenedInv, TryLockInv, ScanInv, DecideInv,
            CheckPublishInv, PublishInv, BeginWriteInv, EndWriteInv, ReleaseInv, RemoveInv,
            RemoveFailsInv, EndingInv DEF Step
<1> QED
    BY <1>1, UnlinkInv, DeleteInv, StutterInv DEF Next

LEMMA LockInvariant == Spec => []LockInv
BY InitInv, NextInv, PTL DEF Spec

-----------------------------------------------------------------------------
(* Every reachable state of the project lock is well typed.                *)
THEOREM LockTypeCorrect == Spec => []TypeOK
<1>1. LockInv => TypeOK
    BY DEF LockInv
<1> QED
    BY <1>1, LockInvariant, PTL

(* Verified writers exclude each other outside the window between verify   *)
(* and write, for every number of processes and of deletions of the lock   *)
(* object.                                                                 *)
THEOREM OneWriterCorrect == Spec => []OneWriter
<1>1. LockInv => OneWriter
    BY DEF LockInv, OneWriter, CheckHolds, FlockHeld, FlockExclusive, Exclusive, Matches, At,
        Holding
<1> QED
    BY <1>1, LockInvariant, PTL

(* A takeover without a GUI never works beside a recovery journal (G10).   *)
THEOREM HeadlessCorrect == Spec => []HeadlessNeverBesideJournal
<1>1. LockInv => HeadlessNeverBesideJournal
    BY DEF LockInv, HeadlessNeverBesideJournal, NoJournalSeen
<1> QED
    BY <1>1, LockInvariant, PTL

(* No other process takes the owner's discovery away.                      *)
THEOREM LiveDiscoveryCorrect == Spec => LiveDiscoveryKept
<1> DEFINE Kept(q) ==
        Owner(q) /\ discovery = proc[q].claim /\ discovery' # discovery =>
        \/ At(q, "Removing")
        \/ deletions' # deletions
        \/ \E p \in Process : proc[p].moved /\ proc[p].pc \in {"Publishing", "Removing"}
<1>1. LockInv /\ [Next]_vars => [\A q \in Process : Kept(q)]_vars
    <2> SUFFICES ASSUME LockInv, Next, NEW q \in Process, Owner(q),
                        discovery' # discovery, deletions' = deletions, ~ At(q, "Removing")
                 PROVE  \E p \in Process : proc[p].moved /\ proc[p].pc \in {"Publishing", "Removing"}
        BY DEF vars
    <2>1. ~ DeleteDiscovery /\ ~ Unlink
        BY DEF DeleteDiscovery, Unlink, LockInv, TypeOK
    <2>2. PICK p \in Process : Step(p)
        BY <2>1 DEF Next
    <2>3. Publish(p) \/ Remove(p)
        BY <2>2 DEF Step, Start, Open, OpenFails, CheckOpened, TryLock, Scan, ScanFails, Decide,
            CheckPublish, PublishFails, BeginWrite, EndWrite, Release, ReleaseVerify,
            RemoveFails, Unlock, Drop, Crash
    <2>4. p # q /\ proc[p].pc \in {"Publishing", "Removing"}
        BY <2>3 DEF Publish, Remove, At, Owner, Published
    <2>5. proc[p].locked /\ proc[q].locked
        BY <2>4 DEF LockInv, FlockHeld, Holding, Owner, Published
    <2>6. proc[p].fd # object
        BY <2>4, <2>5 DEF LockInv, FlockExclusive, Exclusive, Owner, Matches
    <2>7. proc[p].moved
        BY <2>4, <2>6 DEF LockInv, CheckHolds, Matches
    <2> QED
        BY <2>4, <2>7
<1> QED
    BY <1>1, LockInvariant, PTL DEF Spec, LiveDiscoveryKept

(* Every owner that ended without releasing is reported by the next one.   *)
THEOREM ReclaimCorrect == Spec => ReclaimExact
<1> DEFINE Exact(p) ==
        unlinks = 0 /\ At(p, "Publishing") /\ proc'[p].pc = "Held" =>
            \/ proc[p].previous = unsettled
            \/ deletions > 0 /\ unsettled = Absent
<1>1. LockInv => \A p \in Process : Exact(p)
    BY DEF LockInv, DebtKnown, At
<1>2. LockInv /\ [Next]_vars => [\A p \in Process : Exact(p)]_vars
    BY <1>1
<1> QED
    BY <1>2, LockInvariant, PTL DEF Spec, ReclaimExact

=============================================================================
