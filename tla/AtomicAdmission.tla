-------------------------- MODULE AtomicAdmission --------------------------
(***************************************************************************)
(* What manual admission promises: a command is either accepted whole, and *)
(* then published as the next link of a chain of history identities, or it *)
(* leaves no trace.                                                        *)
(***************************************************************************)
EXTENDS CoreHistory

VARIABLES
    hist,       \* the live history
    stream      \* every publication made so far, oldest first

(* The identity of a history: a digest of its canonical JSON.  Equal       *)
(* digests mean equal histories, so the digest is the value itself; the    *)
(* baseline and the floor are fixed while a manual producer is bound.      *)
Identity(h) == [document |-> h.document, batches |-> h.batches,
                undo |-> h.undo, redo |-> h.redo]

Item(sequence, before, after, batch) ==
    [sequence |-> sequence, before |-> before, after |-> after, batch |-> batch]

Init ==
    /\ \E doc \in Doc : hist = NewHistory(doc, 0)
    /\ stream = << >>

Accept(cmd) ==
    /\ Accepts(hist, CanonicalCommand(cmd))
    /\ hist' = Exec(hist, cmd)
    /\ stream' = Append(stream, Item(Len(stream) + 1, Identity(hist), Identity(hist'),
                                     Last(hist'.batches)))

Next == \E cmd \in JournalCommand : Accept(cmd)

Spec == Init /\ [][Next]_<<hist, stream>>

=============================================================================
