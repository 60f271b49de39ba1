------------------------- MODULE MCRecoveryJournal --------------------------
(* The recovery journal over three small documents.                        *)
EXTENDS RecoveryJournal, SmallDocuments

(* A gesture in the legacy spelling, a plain edit and Undo.                *)
MCGesture == {DoBatchCoalesced(<<"Inc">>, "k"), DoBatch(<<"inc">>), Undo}

=============================================================================
