---------------------------- MODULE ProjectLock ----------------------------
(***************************************************************************)
(* The project lock (kinewright-project lockfile.rs): a lock object whose  *)
(* flock says who is alive, and a discovery file beside it that names the  *)
(* owner.  Processes acquire, write under a verified claim, release, drop  *)
(* the handle or die at any step.  A person may delete the lock object or  *)
(* the discovery file under them.                                          *)
(*                                                                         *)
(* A claim is its claim_id, a fresh number; an inode is a number.  The     *)
(* spelling, the pinned parent directory and the temporary files of a      *)
(* publication are left out: they decide which file is meant, not who owns *)
(* it.                                                                     *)
(***************************************************************************)
EXTENDS Naturals

CONSTANTS
    Process,        \* processes that open the project
    Gui,            \* those of LockMode::Gui
    Attempts,       \* LOCK_ACQUIRE_ATTEMPTS
    Absent,         \* no discovery file
    Unreadable,     \* a discovery file that does not parse
    Foreign,        \* a discovery file of another host
    MaxClaims,      \* bound on the acquires begun
    MaxUnlinks,     \* bound on the deletions of the lock object
    MaxDeletions    \* bound on the deletions of the discovery file

ASSUME LockConstants ==
    /\ Gui \subseteq Process
    /\ Attempts \in Nat \ {0}
    /\ {MaxClaims, MaxUnlinks, MaxDeletions} \subseteq Nat
    /\ Absent \notin Nat /\ Unreadable \notin Nat /\ Foreign \notin Nat
    /\ Absent # Unreadable /\ Absent # Foreign /\ Unreadable # Foreign

VARIABLES
    object,         \* the inode the lock path names, 0 for none
    created,        \* the inodes created so far
    discovery,      \* the discovery file
    claims,         \* the claims drawn so far
    proc,           \* where each process is
    journal,        \* a recovery journal for the project exists
    unlinks,        \* deletions of the lock object
    deletions,      \* deletions of the discovery file
    unsettled       \* history variable: the claim of an owner that ended
                    \* without releasing and that no owner has reported yet

vars == <<object, created, discovery, claims, proc, journal, unlinks, deletions, unsettled>>

Discovery == Nat \cup {Absent, Unreadable, Foreign}

(* moved is a history variable: the lock object was deleted since the      *)
(* process last saw that its descriptor still names it.                    *)
ProcessState ==
    [pc: {"Idle", "Opening", "Opened", "Matched", "Locked", "Scanned", "Decided",
          "Publishing", "Held", "Writing", "ReleaseRead", "Removing", "Unlocking"},
     attempt: Nat, fd: Nat, locked: BOOLEAN, claim: Nat, previous: Discovery,
     moved: BOOLEAN]

(* Every variable holds a value of its Rust type.                          *)
TypeOK ==
    /\ object \in Nat
    /\ created \in Nat
    /\ discovery \in Discovery
    /\ claims \in Nat
    /\ proc \in [Process -> ProcessState]
    /\ journal \in BOOLEAN
    /\ unlinks \in Nat
    /\ deletions \in Nat
    /\ unsettled \in Discovery

-----------------------------------------------------------------------------
Idle == [pc |-> "Idle", attempt |-> 0, fd |-> 0, locked |-> FALSE, claim |-> 0,
         previous |-> Absent, moved |-> FALSE]

(* An attempt that begins.                                                 *)
Opening(attempt, claim) ==
    [pc |-> "Opening", attempt |-> attempt, fd |-> 0, locked |-> FALSE, claim |-> claim,
     previous |-> Absent, moved |-> FALSE]

(* The folder holds no discovery, one that does not parse, or one written  *)
(* by another machine.                                                     *)
Init ==
    /\ object = 0
    /\ created = 0
    /\ discovery \in {Absent, Unreadable, Foreign}
    /\ claims = 0
    /\ proc = [p \in Process |-> Idle]
    /\ journal \in BOOLEAN
    /\ unlinks = 0
    /\ deletions = 0
    /\ unsettled = discovery

At(p, pc) == proc[p].pc = pc

Goto(p, pc) == proc' = [proc EXCEPT ![p].pc = pc]

(* Fault: the attempts are counted down.                                   *)
Retry_CountsDown(p) ==
    proc' = [proc EXCEPT ![p] =
        IF p \in Gui \/ @.attempt >= Attempts + 1 THEN Idle
        ELSE Opening(@.attempt - 1, @.claim)]

(* The attempt failed and dropped its descriptor.  The GUI tries once.     *)
Retry(p) ==
    proc' = [proc EXCEPT ![p] =
        IF p \in Gui \/ @.attempt >= Attempts THEN Idle
        ELSE Opening(@.attempt + 1, @.claim)]

(* A refusal after the flock: the guard unlocks.                           *)
Refuse(p) == proc' = [proc EXCEPT ![p] = Idle]

(* fd_matches_path: the descriptor still names the lock path.              *)
Matches(p) == proc[p].fd = object

(* The descriptor was seen to name the path.                               *)
Checked(p, pc) == proc' = [proc EXCEPT ![p].pc = pc, ![p].moved = FALSE]

-----------------------------------------------------------------------------
(* build_claim draws the claim_id.                                         *)
Start(p) ==
    /\ At(p, "Idle")
    /\ claims < MaxClaims
    /\ claims' = claims + 1
    /\ proc' = [proc EXCEPT ![p] = Opening(1, claims + 1)]
    /\ UNCHANGED <<object, created, discovery, journal, unlinks, deletions, unsettled>>

(* Open or create the lock object; it is never truncated.                  *)
Open(p) ==
    /\ At(p, "Opening")
    /\ IF object = 0
       THEN /\ created' = created + 1
            /\ object' = created'
       ELSE UNCHANGED <<object, created>>
    /\ proc' = [proc EXCEPT ![p].pc = "Opened", ![p].fd = object']
    /\ UNCHANGED <<discovery, claims, journal, unlinks, deletions, unsettled>>

(* The open fails: permissions and the like are tried again, a symbolic    *)
(* link or a missing directory ends the acquire.                           *)
OpenFails(p) ==
    /\ At(p, "Opening")
    /\ Retry(p) \/ Refuse(p)
    /\ UNCHANGED <<object, created, discovery, claims, journal, unlinks, deletions, unsettled>>

CheckOpened(p) ==
    /\ At(p, "Opened")
    /\ IF Matches(p) THEN Checked(p, "Matched") ELSE Retry(p)
    /\ UNCHANGED <<object, created, discovery, claims, journal, unlinks, deletions, unsettled>>

(* Fault: any live owner is taken to have died.                            *)
Free_Stolen(p) == TRUE

(* No other open description of the inode holds the flock.                 *)
Free(p) == \A q \in Process : ~ (proc[q].locked /\ proc[q].fd = proc[p].fd)

(* try_lock_exclusive, then the sweep of stale temporary files.            *)
TryLock(p) ==
    /\ At(p, "Matched")
    /\ IF Free(p)
       THEN proc' = [proc EXCEPT ![p].pc = "Locked", ![p].locked = TRUE]
       ELSE Retry(p)
    /\ UNCHANGED <<object, created, discovery, claims, journal, unlinks, deletions, unsettled>>

(* Fault: journals are looked for only behind a stale discovery.           *)
Scan_OnlyStale(p) ==
    /\ At(p, "Locked")
    /\ IF p \notin Gui /\ journal /\ discovery # Absent THEN Refuse(p) ELSE Goto(p, "Scanned")
    /\ UNCHANGED <<object, created, discovery, claims, journal, unlinks, deletions, unsettled>>

(* A takeover without a GUI refuses while a journal pends; the GUI asks    *)
(* its user instead.                                                       *)
Scan(p) ==
    /\ At(p, "Locked")
    /\ IF p \notin Gui /\ journal THEN Refuse(p) ELSE Goto(p, "Scanned")
    /\ UNCHANGED <<object, created, discovery, claims, journal, unlinks, deletions, unsettled>>

(* The lookup of pending journals fails: refused as well.                  *)
ScanFails(p) ==
    /\ At(p, "Locked")
    /\ p \notin Gui
    /\ Refuse(p)
    /\ UNCHANGED <<object, created, discovery, claims, journal, unlinks, deletions, unsettled>>

(* decide_free_claim: a foreign discovery refuses, any other is reclaimed. *)
Decide(p) ==
    /\ At(p, "Scanned")
    /\ IF discovery = Foreign THEN Refuse(p)
       ELSE proc' = [proc EXCEPT ![p].pc = "Decided", ![p].previous = discovery]
    /\ UNCHANGED <<object, created, discovery, claims, journal, unlinks, deletions, unsettled>>

(* The object may have been replaced since the open: LockLost.             *)
CheckPublish(p) ==
    /\ At(p, "Decided")
    /\ IF Matches(p) THEN Checked(p, "Publishing") ELSE Refuse(p)
    /\ UNCHANGED <<object, created, discovery, claims, journal, unlinks, deletions, unsettled>>

(* write_discovery: the rename lands the claim.                            *)
Publish(p) ==
    /\ At(p, "Publishing")
    /\ discovery' = proc[p].claim
    /\ Goto(p, "Held")
    /\ unsettled' = Absent
    /\ UNCHANGED <<object, created, claims, journal, unlinks, deletions>>

PublishFails(p) ==
    /\ At(p, "Publishing")
    /\ Refuse(p)
    /\ UNCHANGED <<object, created, discovery, claims, journal, unlinks, deletions, unsettled>>

-----------------------------------------------------------------------------
(* Fault: the handle is not verified before the write.                     *)
BeginWrite_Unverified(p) ==
    /\ At(p, "Held")
    /\ Checked(p, "Writing")
    /\ UNCHANGED <<object, created, discovery, claims, journal, unlinks, deletions, unsettled>>

(* Every write to the project or its journal begins with verify.           *)
BeginWrite(p) ==
    /\ At(p, "Held")
    /\ Matches(p)
    /\ Checked(p, "Writing")
    /\ UNCHANGED <<object, created, discovery, claims, journal, unlinks, deletions, unsettled>>

(* The GUI creates or removes its journal, or either saves the project.    *)
EndWrite(p) ==
    /\ At(p, "Writing")
    /\ IF p \in Gui THEN journal' \in BOOLEAN ELSE UNCHANGED journal
    /\ Goto(p, "Held")
    /\ UNCHANGED <<object, created, discovery, claims, unlinks, deletions, unsettled>>

(* release reads the discovery and goes on only if it names this claim.    *)
Release(p) ==
    /\ At(p, "Held")
    /\ Goto(p, IF discovery = proc[p].claim THEN "ReleaseRead" ELSE "Unlocking")
    /\ UNCHANGED <<object, created, discovery, claims, journal, unlinks, deletions, unsettled>>

(* Fault: the lock object is not verified before the removal.              *)
ReleaseVerify_Unverified(p) ==
    /\ At(p, "ReleaseRead")
    /\ Checked(p, "Removing")
    /\ UNCHANGED <<object, created, discovery, claims, journal, unlinks, deletions, unsettled>>

ReleaseVerify(p) ==
    /\ At(p, "ReleaseRead")
    /\ IF Matches(p) THEN Checked(p, "Removing") ELSE Goto(p, "Unlocking")
    /\ UNCHANGED <<object, created, discovery, claims, journal, unlinks, deletions, unsettled>>

(* remove_file takes whatever is there now.                                *)
Remove(p) ==
    /\ At(p, "Removing")
    /\ discovery' = Absent
    /\ Goto(p, "Unlocking")
    /\ UNCHANGED <<object, created, claims, journal, unlinks, deletions, unsettled>>

(* The discovery still names this claim: its owner ended without releasing. *)
Abandoned(p) == IF discovery = proc[p].claim THEN proc[p].claim ELSE unsettled

RemoveFails(p) ==
    /\ At(p, "Removing")
    /\ Goto(p, "Unlocking")
    /\ unsettled' = Abandoned(p)
    /\ UNCHANGED <<object, created, discovery, claims, journal, unlinks, deletions>>

Unlock(p) ==
    /\ At(p, "Unlocking")
    /\ proc' = [proc EXCEPT ![p] = Idle]
    /\ UNCHANGED <<object, created, discovery, claims, journal, unlinks, deletions, unsettled>>

Published(p) == proc[p].pc \in {"Held", "Writing", "ReleaseRead", "Removing"}

(* The handle is dropped without a release: only the flock goes.           *)
Drop(p) ==
    /\ At(p, "Held")
    /\ proc' = [proc EXCEPT ![p] = Idle]
    /\ unsettled' = Abandoned(p)
    /\ UNCHANGED <<object, created, discovery, claims, journal, unlinks, deletions>>

(* The process dies; the kernel drops its flock.                           *)
Crash(p) ==
    /\ ~ At(p, "Idle")
    /\ proc' = [proc EXCEPT ![p] = Idle]
    /\ unsettled' = IF Published(p) THEN Abandoned(p) ELSE unsettled
    /\ UNCHANGED <<object, created, discovery, claims, journal, unlinks, deletions>>

(* Somebody deletes the lock object, which the messages advise against.    *)
Unlink ==
    /\ object # 0
    /\ unlinks < MaxUnlinks
    /\ unlinks' = unlinks + 1
    /\ object' = 0
    /\ proc' = [p \in Process |-> [proc[p] EXCEPT !.moved = (proc[p].pc # "Idle")]]
    /\ UNCHANGED <<created, discovery, claims, journal, deletions, unsettled>>

(* Somebody deletes the discovery, which the messages allow.               *)
DeleteDiscovery ==
    /\ discovery # Absent
    /\ deletions < MaxDeletions
    /\ deletions' = deletions + 1
    /\ discovery' = Absent
    /\ unsettled' = Absent
    /\ UNCHANGED <<object, created, claims, proc, journal, unlinks>>

Step(p) ==
    \/ Start(p) \/ Open(p) \/ OpenFails(p) \/ CheckOpened(p) \/ TryLock(p) \/ Scan(p)
    \/ ScanFails(p) \/ Decide(p) \/ CheckPublish(p) \/ Publish(p) \/ PublishFails(p)
    \/ BeginWrite(p) \/ EndWrite(p)
    \/ Release(p) \/ ReleaseVerify(p) \/ Remove(p) \/ RemoveFails(p) \/ Unlock(p)
    \/ Drop(p) \/ Crash(p)

Next == (\E p \in Process : Step(p)) \/ Unlink \/ DeleteDiscovery

Spec == Init /\ [][Next]_vars

-----------------------------------------------------------------------------
Exclusive(p, q) ==
    proc[p].locked /\ proc[q].locked /\ proc[p].fd = proc[q].fd => p = q

(* Two processes are inside a write to the project at once only when the   *)
(* lock object was deleted after one of them verified its handle: verify   *)
(* leaves no other window, however the object is replaced.                 *)
OneWriter ==
    \A p, q \in Process :
        At(p, "Writing") /\ At(q, "Writing") /\ ~ proc[p].moved /\ ~ proc[q].moved => p = q

Owner(q) == Published(q) /\ Matches(q)

(* The discovery of the owner stands until the owner releases it, somebody *)
(* deletes it, or a process acts on a check made before the lock object    *)
(* was deleted under it.  In particular no slow release and no late        *)
(* publication of another process takes it away.                           *)
LiveDiscoveryKept ==
    [][\A q \in Process : Owner(q) /\ discovery = proc[q].claim /\ discovery' # discovery =>
        \/ At(q, "Removing")
        \/ deletions' # deletions
        \/ \E p \in Process : proc[p].moved /\ proc[p].pc \in {"Publishing", "Removing"}]_vars

(* Every owner that ended without releasing is reported by the next one,   *)
(* and nobody else is: the claim a publication names as reclaimed is the   *)
(* one left behind, while the lock object is not tampered with.            *)
ReclaimExact ==
    [][\A p \in Process :
        unlinks = 0 /\ At(p, "Publishing") /\ proc'[p].pc = "Held" =>
            \/ proc[p].previous = unsettled
            \/ deletions > 0 /\ unsettled = Absent]_vars

(* G10: while a process without a GUI owns the project no recovery journal *)
(* pends: it scanned under the flock, and journals are created only under  *)
(* that flock.                                                             *)
HeadlessNeverBesideJournal ==
    unlinks = 0 => \A p \in Process \ Gui : Published(p) => ~ journal

=============================================================================
