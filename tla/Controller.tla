------------------------------ MODULE Controller ------------------------------
(***************************************************************************)
(* The controller's two single places: the one lease of the sessions on a  *)
(* repository, and the one slot for an unfinished Worker with the          *)
(* integrations of the finished ones.  `part' says which of the two a      *)
(* behaviour is about; the other rests in an initial state.  The record of *)
(* a Worker is WorkerLifecycle, which WorkerControl implements.            *)
(***************************************************************************)
EXTENDS ControllerLease, Integration

VARIABLE part

controllerVars == <<part, leaseVars, vars>>

Parts == {"lease", "slot"}

ControllerInit ==
    /\ part \in Parts
    /\ LeaseInit /\ Init
    /\ part # "lease" => ~exists

ControllerNext ==
    \/ part = "lease" /\ LeaseNext /\ UNCHANGED <<part, vars>>
    \/ part = "slot" /\ Next /\ UNCHANGED <<part, leaseVars>>

ControllerSpec == ControllerInit /\ [][ControllerNext]_controllerVars

-----------------------------------------------------------------------------
(* Properties; the others are those of the two modules, by their names *)

\* What the two modules say of the types of their variables.
TypesOK == LeaseTypeOK /\ TypeOK
=============================================================================
