---------------------------- MODULE MCController ----------------------------
\* Instances of Controller for TLC.
EXTENDS Controller, TLC

\* Runtimes are interchangeable, and so are the slots of their calls and the Workers.
Symmetry == Permutations(Runtime) \cup Permutations(Slot) \cup Permutations(Worker)
=============================================================================
