------------------------- MODULE AtomicPublication -------------------------
(***************************************************************************)
(* What a bundle promises of the project root that survives a power loss:  *)
(* it moves from one complete generation to the next, and a generation is  *)
(* one whole publication.  A command's effect on the history, its receipt  *)
(* and its issuer's next sequence appear together or not at all, and a     *)
(* sequence is spent once.                                                 *)
(***************************************************************************)
EXTENDS Naturals, Sequences, SequencesExt, FiniteSets

CONSTANT Issuer     \* the issuer ids a project may hand out

VARIABLE root       \* the durable project root

(* What a command does is all of its content that matters here: two        *)
(* commands with one id and different actions have different digests.      *)
Action == {"edit", "comment", "manual"}

(* An issuer id is fresh when it is issued and is never handed out again:  *)
(* "gone" marks one whose entry was removed.                               *)
Unissued == [next |-> 0, high |-> 0, phase |-> "unissued"]
Issued == [next |-> 1, high |-> 0, phase |-> "issued"]
Gone == [next |-> 0, high |-> 0, phase |-> "gone"]
Advance(issuers, i) == [issuers EXCEPT ![i].next = @ + 1]

(* A batch carries the command it came from; an edit made in the editor    *)
(* itself carries none.                                                    *)
LocalEdit == << "editor", 0 >>
BatchOf(e) == << e.issuer, e.sequence >>

(* A history is every batch ever accepted, oldest first; the first "floor" *)
(* of them are folded into its baseline and can no longer be undone.       *)
Fold(h, floor) == [h EXCEPT !.floor = IF @ < floor THEN floor ELSE @]
Effect(h, e) ==
    IF e.action = "comment" THEN h ELSE [h EXCEPT !.batches = Append(@, BatchOf(e))]
Continues(new, old) ==
    /\ IsPrefix(old.batches, new.batches)
    /\ new.floor >= old.floor

Receipt(e, generation) ==
    [issuer |-> e.issuer, sequence |-> e.sequence, action |-> e.action,
     generation |-> generation]

EmptyRoot ==
    [generation |-> 1, history |-> [floor |-> 0, batches |-> << >>],
     receipts |-> {}, issuers |-> [i \in Issuer |-> Unissued]]

Init == root = EmptyRoot

(* One accepted command: the issuer's next sequence is spent on it.        *)
Execute(i, action) ==
    LET e == [issuer |-> i, sequence |-> root.issuers[i].next, action |-> action]
    IN  /\ root.issuers[i].phase = "issued"
        /\ \E floor \in 0 .. Len(Effect(root.history, e).batches) :
              root' = [generation |-> root.generation + 1,
                       history |-> Fold(Effect(root.history, e), floor),
                       receipts |-> root.receipts \cup {Receipt(e, root.generation + 1)},
                       issuers |-> Advance(root.issuers, i)]

(* The forms an issuer's entry and its receipts may take after a save.     *)
Kept(i, receipts, issuers) ==
    /\ issuers[i] = root.issuers[i]
    /\ \A r \in root.receipts : r.issuer = i => r \in receipts
NewlyIssued(i, issuers) ==
    root.issuers[i] = Unissued /\ issuers[i] = Issued
Acknowledged(i, receipts, issuers) ==
    /\ root.issuers[i].phase \in {"issued", "retired"}
    /\ issuers[i].high \in root.issuers[i].high .. root.issuers[i].next - 1
    /\ issuers[i] = [root.issuers[i] EXCEPT !.high = issuers[i].high]
    /\ \A r \in root.receipts : r.issuer = i => r \in receipts
WhollyReconciled(i) ==
    /\ root.issuers[i].phase \in {"issued", "retired"}
    /\ root.issuers[i].high + 1 = root.issuers[i].next
Retired(i, receipts, issuers) ==
    /\ WhollyReconciled(i)
    /\ issuers[i] = [root.issuers[i] EXCEPT !.phase = "retired"]
    /\ \A r \in root.receipts : r.issuer = i => r \in receipts
Forgotten(i, receipts, issuers) ==
    /\ WhollyReconciled(i)
    /\ issuers[i] = Gone
    /\ \A r \in receipts : r.issuer # i

(* A save: the history continues, no receipt is invented, and at most one  *)
(* issuer's entry changes; a receipt is only dropped with its whole        *)
(* issuer, once all of that issuer's results were acknowledged.            *)
Save(history, receipts, issuers) ==
    /\ Continues(history, root.history)
    /\ receipts \subseteq root.receipts
    /\ \E i \in Issuer :
          /\ \A j \in Issuer \ {i} : Kept(j, receipts, issuers)
          /\ \/ Kept(i, receipts, issuers)
             \/ NewlyIssued(i, issuers)
             \/ Acknowledged(i, receipts, issuers)
             \/ Retired(i, receipts, issuers)
             \/ Forgotten(i, receipts, issuers)
    /\ root' = [generation |-> root.generation + 1, history |-> history,
                receipts |-> receipts, issuers |-> issuers]

Next ==
    \/ \E i \in Issuer, action \in Action : Execute(i, action)
    \/ Save(root'.history, root'.receipts, root'.issuers)

Spec == Init /\ [][Next]_root

=============================================================================
