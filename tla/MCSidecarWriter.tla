-------------------------- MODULE MCSidecarWriter ---------------------------
(* The sidecar writer with two files of the frame thread alone and one    *)
(* that an agent thread writes too.                                        *)
EXTENDS SidecarWriter

MCWriters == [path \in Path |-> IF path = "shared" THEN Client ELSE {"frame"}]

=============================================================================
