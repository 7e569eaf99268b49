----------------------------- MODULE MCFileLock -----------------------------
(* Instances of FileLock for TLC. *)
EXTENDS FileLock, TLC

CONSTANTS p1, p2, p3, p4

ThreeProcesses == {p1, p2, p3}
FourProcesses  == {p1, p2, p3, p4}

\* The processes are interchangeable (used only where no liveness is checked).
Symmetry4 == Permutations(FourProcesses)
=============================================================================
