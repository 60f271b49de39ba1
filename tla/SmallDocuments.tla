--------------------------- MODULE SmallDocuments ---------------------------
(***************************************************************************)
(* The documents and operations of the model-checking instances: three     *)
(* documents in a row; "inc" steps to the next one and is refused by the   *)
(* last, "clr" goes back to the first, "Inc" is the legacy spelling of     *)
(* "inc".                                                                  *)
(***************************************************************************)
EXTENDS CoreHistory

MCDoc == 0 .. 2
MCOneDoc == {0}
MCOp == {"inc", "Inc", "clr"}
MCBatches == {<< >>, <<"inc">>, <<"Inc">>, <<"Inc", "clr">>, <<"inc", "clr">>}
MCOneBatch == {<<"inc">>}
MCClearOp == {"clr"}
MCClear == {<<"clr">>}
MCLegacyBatches == {<<"inc">>, <<"Inc">>}
MCHistoryBatches == MCLegacyBatches \cup {<< >>}
MCCanonical == [op \in Op |-> IF op = "Inc" THEN "inc" ELSE op]

MCApplyOp(doc, op) ==
    IF op = "clr" THEN 0 ELSE IF doc = 2 THEN Rejected ELSE doc + 1

MCEdits == Edits
MCBlank == 0

=============================================================================
