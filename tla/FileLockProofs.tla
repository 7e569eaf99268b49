--------------------------- MODULE FileLockProofs ---------------------------
(***************************************************************************)
(* Mutual exclusion of the file lock, for any set of processes, when no    *)
(* process dies while it holds the `.reclaim` guard; the types hold        *)
(* without that assumption.                                                *)
(*                                                                         *)
(* The inductive invariant says why: the guard names its holder, so there  *)
(* is one reclaimer; the lock directory names the process that is creating *)
(* or holding it; and what a reclaimer is about to rename stays stale,     *)
(* because its owner is dead and nobody else can take it away.             *)
(***************************************************************************)
EXTENDS FileLock, TLAPS

\* Nobody dies inside the guard.
ReclaimersSurvive == ReclaimersMayDie = FALSE

\* A process in its owner.json write is the maker of an ownerless directory.
MakerIsRecorded ==
    \A p \in Process :
        pc[p] \in {"write", "cleanup"} => lock.maker = p /\ lock.owner = Nobody

\* A process between its mkdir of the guard and its rm is the one it names.
GuardIsRecorded == \A p \in Process : pc[p] \in Guarding => guard = p

\* A guard names a process that is alive inside it, so it never gets old and
\* nobody ever decides to remove it from outside.
GuardIsFresh ==
    /\ guard # Nobody => guard \in Process /\ pc[guard] \in Guarding
    /\ guardOld = FALSE
    /\ \A p \in Process : pc[p] # "rmGuard"

\* An absent directory names nobody; an ownerless one that is old lost its maker;
\* and one that a live process owns was made by it.
LockIsCoherent ==
    /\ lock.maker = Nobody => lock.owner = Nobody
    /\ lock.owner # Nobody => lock.owner = lock.maker
    /\ lockOld => lock.owner = Nobody /\ lock.maker \in Process /\ ~Alive(lock.maker)

\* What a reclaimer is about to rename has no live maker.
RenamesStale ==
    \A p \in Process :
        pc[p] = "rename" => lock.maker \in Process /\ ~Alive(lock.maker)

IInv ==
    /\ TypeOK
    /\ HolderIsRecorded
    /\ MakerIsRecorded
    /\ GuardIsRecorded
    /\ GuardIsFresh
    /\ LockIsCoherent
    /\ RenamesStale

-----------------------------------------------------------------------------
\* The step sets are disjoint where the argument needs it.
USE DEF Goto, Alive, Present, Absent

\* Initially every process is idle and both directories are absent.
LEMMA InitEstablishesIInv == Init => IInv
<1> SUFFICES ASSUME Init PROVE IInv
  OBVIOUS
<1>1. TypeOK
  BY DEF Init, TypeOK, Steps
<1>2. \A p \in Process : pc[p] = "idle"
  BY DEF Init
<1>3. /\ HolderIsRecorded /\ MakerIsRecorded /\ GuardIsRecorded
      /\ GuardIsFresh /\ LockIsCoherent /\ RenamesStale
  BY <1>2 DEF Init, HolderIsRecorded, MakerIsRecorded, GuardIsRecorded, GuardIsFresh,
      LockIsCoherent, RenamesStale, Holding, Guarding
<1> QED
  BY <1>1, <1>3 DEF IInv

\* Every step of the lock protocol preserves the inductive invariant, unless a
\* reclaimer dies inside the guard.
LEMMA StepPreservesIInv ==
  ASSUME ReclaimersSurvive, IInv, [Next]_vars
  PROVE  IInv'
<1> USE NamesAreDistinct
<1> USE DEF IInv, TypeOK, HolderIsRecorded, MakerIsRecorded, GuardIsRecorded, GuardIsFresh,
            LockIsCoherent, RenamesStale, Steps, Holding, Guarding
<1>1. ASSUME NEW p \in Process, Begin(p) PROVE IInv'
  BY <1>1 DEF Begin
<1>2. ASSUME NEW p \in Process, GiveUp(p) PROVE IInv'
  BY <1>2 DEF GiveUp
<1>3. ASSUME NEW p \in Process, Release(p) PROVE IInv'
  BY <1>3 DEF Release
<1>4. ASSUME NEW p \in Process, Die(p) PROVE IInv'
  BY <1>4 DEF Die, ReclaimersSurvive
<1>5. ASSUME NEW p \in Process, MakeLock(p) PROVE IInv'
  <2>1. CASE ~Present
    <3>1. pc' = [pc EXCEPT ![p] = "write"] /\ lock.owner = Nobody
          /\ \A q \in Process : pc[q] \notin Holding \cup {"write", "cleanup", "rename"}
      BY <1>5, <2>1 DEF MakeLock
    <3>2. lock' = [maker |-> p, owner |-> Nobody] /\ lockOld' = FALSE
          /\ UNCHANGED <<observed, guard, guardOld>> /\ pc[p] = "mkdir"
      BY <1>5, <2>1 DEF MakeLock
    <3>3. TypeOK'
      BY <3>1, <3>2
    <3>4. HolderIsRecorded' /\ MakerIsRecorded' /\ RenamesStale' /\ LockIsCoherent'
      BY <3>1, <3>2
    <3>5. GuardIsRecorded' /\ GuardIsFresh'
      BY <3>1, <3>2
    <3> QED
      BY <3>3, <3>4, <3>5
  <2>2. CASE Present
    <3>1. pc' = [pc EXCEPT ![p] = "inspect"] /\ pc[p] = "mkdir"
          /\ UNCHANGED <<observed, lock, lockOld, guard, guardOld>>
      BY <1>5, <2>2 DEF MakeLock
    <3> QED
      BY <3>1
  <2> QED
    BY <2>1, <2>2
<1>6. ASSUME NEW p \in Process, WriteOwner(p) PROVE IInv'
  <2>1. lock.maker = p /\ pc[p] = "write" /\ pc' = [pc EXCEPT ![p] = "held"]
    BY <1>6 DEF WriteOwner
  <2>2. lock' = [maker |-> p, owner |-> p] /\ lockOld' = FALSE
    BY <1>6, <2>1 DEF WriteOwner
  <2>3. UNCHANGED <<observed, guard, guardOld>>
    BY <1>6 DEF WriteOwner
  <2>4. \A q \in Process : q # p => pc[q] \notin Holding \cup {"write", "cleanup"}
    BY <2>1
  <2> QED
    BY <2>1, <2>2, <2>3, <2>4
<1>7. ASSUME NEW p \in Process, WriteOwnerFails(p) PROVE IInv'
  BY <1>7 DEF WriteOwnerFails
<1>8. ASSUME NEW p \in Process, CleanUp(p) PROVE IInv'
  BY <1>8 DEF CleanUp
<1>9. ASSUME NEW p \in Process, Retry(p) PROVE IInv'
  BY <1>9 DEF Retry
<1>10. ASSUME NEW p \in Process, Inspect(p) PROVE IInv'
  BY <1>10 DEF Inspect, StaleOwner
<1>11. ASSUME NEW p \in Process, MakeGuard(p) PROVE IInv'
  <2>1. CASE guard = Nobody
    <3>1. pc' = [pc EXCEPT ![p] = "recheck"] /\ guard' = p /\ guardOld' = FALSE
      BY <1>11, <2>1 DEF MakeGuard
    <3>2. UNCHANGED <<observed, lock, lockOld>>
      BY <1>11 DEF MakeGuard
    <3>3. \A q \in Process : pc[q] \notin Guarding
      BY <2>1
    <3>4. pc' \in [Process -> Steps] /\ pc'[p] = "recheck"
          /\ \A q \in Process \ {p} : pc'[q] = pc[q]
      BY <3>1
    <3>5. TypeOK'
      BY <3>1, <3>2, <3>4
    <3>6. GuardIsRecorded' /\ GuardIsFresh'
      BY <3>1, <3>3, <3>4
    <3>7. HolderIsRecorded' /\ MakerIsRecorded' /\ RenamesStale'
      BY <3>2, <3>3, <3>4
    <3>8. LockIsCoherent'
      <4>1. pc[p] = "mkGuard"
        BY <1>11 DEF MakeGuard
      <4>2. lockOld => lock.maker \in Process \ {p} /\ pc'[lock.maker] = "dead"
        BY <3>4, <4>1
      <4> QED
        BY <3>2, <4>2
    <3> QED
      BY <3>5, <3>6, <3>7, <3>8
  <2>2. CASE guard # Nobody
    <3>1. pc' = [pc EXCEPT ![p] = "statGuard"] /\ pc[p] = "mkGuard"
      BY <1>11, <2>2 DEF MakeGuard
    <3>2. UNCHANGED <<observed, lock, lockOld, guard, guardOld>>
      BY <1>11, <2>2 DEF MakeGuard
    <3> QED
      BY <3>1, <3>2
  <2> QED
    BY <2>1, <2>2
<1>12. ASSUME NEW p \in Process, StatGuard(p) PROVE IInv'
  BY <1>12 DEF StatGuard
<1>13. ASSUME NEW p \in Process, ExpireGuard(p) PROVE IInv'
  BY <1>13 DEF ExpireGuard
<1>14. ASSUME NEW p \in Process, Recheck(p) PROVE IInv'
  BY <1>14 DEF Recheck, StaleOwner
<1>15. ASSUME NEW p \in Process, RenameStale(p) PROVE IInv'
  BY <1>15 DEF RenameStale
<1>16. ASSUME NEW p \in Process, RemoveGuard(p) PROVE IInv'
  BY <1>16 DEF RemoveGuard
<1>17. ASSUME NEW p \in Process, ReadOwn(p) PROVE IInv'
  BY <1>17 DEF ReadOwn
<1>18. ASSUME NEW p \in Process, RenameOwn(p) PROVE IInv'
  BY <1>18 DEF RenameOwn
<1>19. CASE AgeLock
  BY <1>19 DEF AgeLock
<1>20. CASE AgeGuard
  BY <1>20 DEF AgeGuard
<1>21. CASE UNCHANGED vars
  BY <1>21 DEF vars
<1> QED
  BY <1>1, <1>2, <1>3, <1>4, <1>5, <1>6, <1>7, <1>8, <1>9, <1>10, <1>11, <1>12, <1>13,
     <1>14, <1>15, <1>16, <1>17, <1>18, <1>19, <1>20, <1>21 DEF Next, Acquire, Reclaim, LetGo

-----------------------------------------------------------------------------
\* The inductive invariant, for any set of processes, when none dies in the guard.
THEOREM InvariantHolds ==
  ASSUME ReclaimersSurvive
  PROVE  Spec => []IInv
<1>1. Init => IInv
  BY InitEstablishesIInv
<1>2. IInv /\ [Next]_vars => IInv'
  BY StepPreservesIInv
<1> QED
  BY <1>1, <1>2, PTL DEF Spec

\* Holders are recorded in the directory, so there is one: no two operations of
\* withFileLock (file-lock.ts:30-41) ever overlap.
THEOREM Exclusion ==
  ASSUME ReclaimersSurvive
  PROVE  Spec => []MutualExclusion
<1>1. IInv => MutualExclusion
  BY DEF IInv, HolderIsRecorded, MutualExclusion
<1> QED
  BY <1>1, InvariantHolds, PTL

\* A held lease stays recorded until its holder lets go: assertHeld() succeeds.
THEOREM LeaseIsKept ==
  ASSUME ReclaimersSurvive
  PROVE  Spec => []HolderIsRecorded
<1>1. IInv => HolderIsRecorded
  BY DEF IInv
<1> QED
  BY <1>1, InvariantHolds, PTL

\* Every step keeps the types, whoever dies and wherever.
LEMMA StepPreservesTypes == TypeOK /\ [Next]_vars => TypeOK'
<1> SUFFICES ASSUME TypeOK, [Next]_vars PROVE TypeOK'
  OBVIOUS
<1> USE DEF TypeOK, Steps, Holding, Guarding
<1>1. StaleOwner \in Process \cup {Nobody, Incomplete}
  BY DEF StaleOwner
<1>2. ASSUME NEW p \in Process, Acquire(p) PROVE TypeOK'
  <2>1. CASE WriteOwnerFails(p) \/ Retry(p)
    BY <2>1 DEF WriteOwnerFails, Retry
  <2>2. CASE MakeLock(p)
    <3>1. pc' \in [Process -> Steps]
      BY <2>2 DEF MakeLock
    <3>2. lock' \in {lock, [maker |-> p, owner |-> Nobody]} /\ lockOld' \in {lockOld, FALSE}
      BY <2>2 DEF MakeLock
    <3>3. UNCHANGED <<observed, guard, guardOld>>
      BY <2>2 DEF MakeLock
    <3>4. lock' \in [maker : Process \cup {Nobody}, owner : Process \cup {Nobody}]
      BY <3>2
    <3> QED
      BY <3>1, <3>2, <3>3, <3>4
  <2>3. CASE WriteOwner(p) \/ CleanUp(p)
    <3>1. pc' \in [Process -> Steps]
      BY <2>3 DEF WriteOwner, CleanUp
    <3>2. lock' \in {[maker |-> lock.maker, owner |-> p], Absent} /\ lockOld' = FALSE
      BY <2>3 DEF WriteOwner, CleanUp
    <3>3. UNCHANGED <<observed, guard, guardOld>>
      BY <2>3 DEF WriteOwner, CleanUp
    <3>4. lock' \in [maker : Process \cup {Nobody}, owner : Process \cup {Nobody}]
      BY <3>2
    <3> QED
      BY <3>1, <3>2, <3>3, <3>4
  <2> QED
    BY <1>2, <2>1, <2>2, <2>3 DEF Acquire
<1>3. ASSUME NEW p \in Process, Reclaim(p) PROVE TypeOK'
  <2>1. CASE Inspect(p)
    BY <1>1, <2>1 DEF Inspect
  <2>2. CASE MakeGuard(p)
    BY <2>2 DEF MakeGuard
  <2>3. CASE StatGuard(p)
    BY <2>3 DEF StatGuard
  <2>4. CASE ExpireGuard(p) \/ RemoveGuard(p)
    BY <2>4 DEF ExpireGuard, RemoveGuard
  <2>5. CASE Recheck(p)
    BY <2>5 DEF Recheck
  <2>6. CASE RenameStale(p)
    BY <2>6 DEF RenameStale
  <2> QED
    BY <1>3, <2>1, <2>2, <2>3, <2>4, <2>5, <2>6 DEF Reclaim
<1>4. ASSUME NEW p \in Process, LetGo(p) PROVE TypeOK'
  <2>1. pc' \in [Process -> Steps]
    BY <1>4 DEF LetGo, ReadOwn, RenameOwn
  <2>2. lock' \in {lock, Absent} /\ lockOld' \in {lockOld, FALSE}
    BY <1>4 DEF LetGo, ReadOwn, RenameOwn
  <2>3. UNCHANGED <<observed, guard, guardOld>>
    BY <1>4 DEF LetGo, ReadOwn, RenameOwn
  <2>4. lock' \in [maker : Process \cup {Nobody}, owner : Process \cup {Nobody}]
    BY <2>2
  <2> QED
    BY <2>1, <2>2, <2>3, <2>4
<1>5. ASSUME NEW p \in Process, Begin(p) \/ GiveUp(p) \/ Release(p) \/ Die(p) PROVE TypeOK'
  BY <1>5 DEF Begin, GiveUp, Release, Die
<1>6. CASE AgeLock \/ AgeGuard
  BY <1>6 DEF AgeLock, AgeGuard
<1>7. CASE UNCHANGED vars
  BY <1>7 DEF vars
<1> QED
  BY <1>2, <1>3, <1>4, <1>5, <1>6, <1>7 DEF Next

\* Type correctness, also when processes die while they hold the guard.
THEOREM TypeCorrect == Spec => []TypeOK
<1>1. Init => TypeOK
  BY InitEstablishesIInv DEF IInv
<1> QED
  BY <1>1, StepPreservesTypes, PTL DEF Spec

\* A reclaimer renames a directory only when the process it names is dead.
THEOREM ReclaimsOnlyStale ==
  ASSUME ReclaimersSurvive
  PROVE  Spec => OnlyStaleIsReclaimed
<1>1. IInv => \A p \in Process : RenameStale(p) =>
         /\ lock.owner # Nobody => ~Alive(lock.owner)
         /\ lock.maker # Nobody => ~Alive(lock.maker)
  BY DEF IInv, RenamesStale, LockIsCoherent, RenameStale
<1> QED
  BY <1>1, InvariantHolds, PTL DEF OnlyStaleIsReclaimed
=============================================================================
