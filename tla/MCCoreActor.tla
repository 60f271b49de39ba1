---------------------------- MODULE MCCoreActor -----------------------------
(* The Core actor over three small documents.                              *)
EXTENDS CoreActor, SmallDocuments

=============================================================================
