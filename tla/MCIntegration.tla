--------------------------- MODULE MCIntegration ---------------------------
\* Instances of Integration for TLC.
EXTENDS Integration, TLC

\* Workers are interchangeable, and so are calls.
Symmetry == Permutations(Worker) \cup Permutations(Call)
=============================================================================
