------------------------- MODULE MCControllerLease -------------------------
\* Instances of ControllerLease for TLC.
EXTENDS ControllerLease, TLC

\* Runtimes are interchangeable, and so are the slots of their calls.
Symmetry == Permutations(Runtime) \cup Permutations(Slot)
=============================================================================
