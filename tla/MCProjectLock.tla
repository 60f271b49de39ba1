--------------------------- MODULE MCProjectLock ----------------------------
(* The project lock with one GUI and interchangeable headless processes.   *)
EXTENDS ProjectLock, TLC

MCSymmetry == Permutations(Process \ Gui)

=============================================================================
