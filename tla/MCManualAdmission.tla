------------------------- MODULE MCManualAdmission --------------------------
(* Manual admission over three small documents.                            *)
EXTENDS ManualAdmission, SmallDocuments

=============================================================================
