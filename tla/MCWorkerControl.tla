--------------------------- MODULE MCWorkerControl ---------------------------
(* Instances of WorkerControl that TLC can finish: the .cfg files name the    *)
(* operators' commands and the bounds of each.                                *)
EXTENDS WorkerControl
=============================================================================
