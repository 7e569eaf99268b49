------------------------------ MODULE FileLock ------------------------------
(***************************************************************************)
(* The cross-process mutex of src/utils/file-lock.ts.                      *)
(*                                                                         *)
(* A lock is a directory: mkdir creates it or fails, and owner.json inside *)
(* names the process that made it.  A process that finds the directory     *)
(* looks for a dead owner (or for an owner that never wrote owner.json     *)
(* within the grace period) and, if there is one, reclaims the directory   *)
(* under a second directory, the `.reclaim` guard.  Every file-system call *)
(* is one step, and a process may die between any two.                     *)
(*                                                                         *)
(* A caller is a process: no process waits twice for the same lock (the    *)
(* project store queues its updates in memory, the controller lease is     *)
(* taken once), so the owner's token and pid are both the process.         *)
(***************************************************************************)
EXTENDS Naturals, FiniteSets

CONSTANTS
    Process,            \* the processes that may ever ask for the lock
    Nobody,             \* "no owner.json", "no observation", "no guard"
    Incomplete,         \* readStaleOwner's { kind: "incomplete" }
    ReclaimersMayDie    \* may a process die while it holds the guard?

ASSUME NamesAreDistinct ==
    /\ Nobody \notin Process
    /\ Incomplete \notin Process
    /\ Nobody # Incomplete
    /\ ReclaimersMayDie \in BOOLEAN

VARIABLES
    pc,         \* pc[p]: the file-system call p makes next
    observed,   \* observed[p]: the stale owner p saw before it reclaims
    lock,       \* the lock directory: absent, or its maker and its owner.json
    lockOld,    \* the lock directory has outlived the grace period
    guard,      \* the process that made the `.reclaim` directory
    guardOld    \* the `.reclaim` directory has outlived the grace period

vars == <<pc, observed, lock, lockOld, guard, guardOld>>

Absent == [maker |-> Nobody, owner |-> Nobody]
Present == lock.maker # Nobody

Holding  == {"held", "readOwn", "renameOwn"}
Guarding == {"recheck", "rename", "unguardYes", "unguardNo"}
Steps == {"idle", "mkdir", "write", "cleanup", "inspect", "mkGuard", "statGuard",
          "rmGuard", "wait", "dead"} \cup Holding \cup Guarding

Alive(p) == pc[p] # "dead"
Goto(p, step) == pc' = [pc EXCEPT ![p] = step]

Init ==
    /\ pc = [p \in Process |-> "idle"]
    /\ observed = [p \in Process |-> Nobody]
    /\ lock = Absent
    /\ lockOld = FALSE
    /\ guard = Nobody
    /\ guardOld = FALSE

-----------------------------------------------------------------------------
(* acquireFileLease *)

\* A process calls acquireFileLease; it enters the retry loop.
Begin(p) ==
    /\ pc[p] = "idle"
    /\ Goto(p, "mkdir")
    /\ UNCHANGED <<observed, lock, lockOld, guard, guardOld>>

\* mkdir(lockPath): creates the directory, or fails with EEXIST.
MakeLock(p) ==
    /\ pc[p] = "mkdir"
    /\ \/ /\ ~Present
          /\ lock' = [maker |-> p, owner |-> Nobody]
          /\ lockOld' = FALSE
          /\ Goto(p, "write")
       \/ /\ Present
          /\ Goto(p, "inspect")
          /\ UNCHANGED <<lock, lockOld>>
    /\ UNCHANGED <<observed, guard, guardOld>>

\* writeFile(owner.json) goes by path: it lands in whichever directory is there.
WriteOwner(p) ==
    /\ pc[p] = "write"
    /\ Present
    /\ lock' = [maker |-> lock.maker, owner |-> p]
    /\ lockOld' = FALSE
    /\ Goto(p, "held")
    /\ UNCHANGED <<observed, guard, guardOld>>

\* writeFile fails: an I/O error, or ENOENT when the directory is gone.
WriteOwnerFails(p) ==
    /\ pc[p] = "write"
    /\ Goto(p, "cleanup")
    /\ UNCHANGED <<observed, lock, lockOld, guard, guardOld>>

\* The catch clause removes lockPath and rethrows.
CleanUp(p) ==
    /\ pc[p] = "cleanup"
    /\ lock' = Absent
    /\ lockOld' = FALSE
    /\ Goto(p, "idle")
    /\ UNCHANGED <<observed, guard, guardOld>>

\* The deadline passed, or the abort signal fired, while p waits to retry.
GiveUp(p) ==
    /\ pc[p] = "wait"
    /\ Goto(p, "idle")
    /\ UNCHANGED <<observed, lock, lockOld, guard, guardOld>>

\* delay(retryMs) ends and the loop starts again.
Retry(p) ==
    /\ pc[p] = "wait"
    /\ Goto(p, "mkdir")
    /\ UNCHANGED <<observed, lock, lockOld, guard, guardOld>>

-----------------------------------------------------------------------------
(* readStaleOwner and reclaimStaleLock *)

\* Mutant: an owner.json that is not there yet counts at once.
StaleOwnerNoGrace ==
    IF lock.owner # Nobody
    THEN IF Alive(lock.owner) THEN Nobody ELSE lock.owner
    ELSE IF Present THEN Incomplete ELSE Nobody

\* What readStaleOwner returns: the dead owner, Incomplete, or Nobody when the
\* lock is absent, is owned by a live process or is too young to judge.  Its
\* read and its stat are one step: see AgeLock for why nothing comes between.
StaleOwner ==
    IF lock.owner # Nobody
    THEN IF Alive(lock.owner) THEN Nobody ELSE lock.owner
    ELSE IF Present /\ lockOld THEN Incomplete ELSE Nobody

\* The first look at the owner, after mkdir failed.
Inspect(p) ==
    /\ pc[p] = "inspect"
    /\ observed' = [observed EXCEPT ![p] = StaleOwner]
    /\ Goto(p, IF StaleOwner = Nobody THEN "wait" ELSE "mkGuard")
    /\ UNCHANGED <<lock, lockOld, guard, guardOld>>

\* Mutant: the guard is made with mkdir({ recursive: true }).
MakeGuardRecursive(p) ==
    /\ pc[p] = "mkGuard"
    /\ guard' = p
    /\ guardOld' = FALSE
    /\ Goto(p, "recheck")
    /\ UNCHANGED <<observed, lock, lockOld>>

\* mkdir(`.reclaim`): p becomes the reclaimer, or fails with EEXIST.
MakeGuard(p) ==
    /\ pc[p] = "mkGuard"
    /\ \/ /\ guard = Nobody
          /\ guard' = p
          /\ guardOld' = FALSE
          /\ Goto(p, "recheck")
       \/ /\ guard # Nobody
          /\ Goto(p, "statGuard")
          /\ UNCHANGED <<guard, guardOld>>
    /\ UNCHANGED <<observed, lock, lockOld>>

\* Mutant: a guard never expires.
StatGuardNeverOld(p) ==
    /\ pc[p] = "statGuard"
    /\ Goto(p, "wait")
    /\ UNCHANGED <<observed, lock, lockOld, guard, guardOld>>

\* stat(`.reclaim`): an old guard is removed in a later step, by its path.
StatGuard(p) ==
    /\ pc[p] = "statGuard"
    /\ Goto(p, IF guard # Nobody /\ guardOld THEN "rmGuard" ELSE "wait")
    /\ UNCHANGED <<observed, lock, lockOld, guard, guardOld>>

\* rm(`.reclaim`) of a guard that was found old: whichever guard is there now.
ExpireGuard(p) ==
    /\ pc[p] = "rmGuard"
    /\ guard' = Nobody
    /\ guardOld' = FALSE
    /\ Goto(p, "wait")
    /\ UNCHANGED <<observed, lock, lockOld>>

\* Mutant: the first look at the owner is believed.
RecheckNothing(p) ==
    /\ pc[p] = "recheck"
    /\ Goto(p, "rename")
    /\ UNCHANGED <<observed, lock, lockOld, guard, guardOld>>

\* The reclaimer reads the owner again and goes on only if nothing changed.
Recheck(p) ==
    /\ pc[p] = "recheck"
    /\ Goto(p, IF StaleOwner # Nobody /\ StaleOwner = observed[p]
               THEN "rename" ELSE "unguardNo")
    /\ UNCHANGED <<observed, lock, lockOld, guard, guardOld>>

\* Mutant: the stale directory is taken over with the owner that was observed.
RenameStaleTakesOver(p) ==
    /\ pc[p] = "rename"
    /\ lock' = [maker |-> p, owner |-> observed[p]]
    /\ lockOld' = FALSE
    /\ Goto(p, "unguardYes")
    /\ UNCHANGED <<observed, guard, guardOld>>

\* rename(lockPath, stalePath), and rm of the renamed directory, which no other
\* process knows; ENOENT counts as reclaimed.
RenameStale(p) ==
    /\ pc[p] = "rename"
    /\ lock' = Absent
    /\ lockOld' = FALSE
    /\ Goto(p, "unguardYes")
    /\ UNCHANGED <<observed, guard, guardOld>>

\* The finally clause removes the guard; then the loop retries at once after a
\* reclamation and after a delay otherwise.
RemoveGuard(p) ==
    /\ pc[p] \in {"unguardYes", "unguardNo"}
    /\ guard' = Nobody
    /\ guardOld' = FALSE
    /\ Goto(p, IF pc[p] = "unguardYes" THEN "mkdir" ELSE "wait")
    /\ UNCHANGED <<observed, lock, lockOld>>

-----------------------------------------------------------------------------
(* release *)

\* The holder's operation is over (or threw): lease.release() begins.
Release(p) ==
    /\ pc[p] = "held"
    /\ Goto(p, "readOwn")
    /\ UNCHANGED <<observed, lock, lockOld, guard, guardOld>>

\* releaseOwnedLock leaves a lock that names another owner alone.
ReadOwn(p) ==
    /\ pc[p] = "readOwn"
    /\ Goto(p, IF lock.owner = p THEN "renameOwn" ELSE "idle")
    /\ UNCHANGED <<observed, lock, lockOld, guard, guardOld>>

\* rename(lockPath, releasePath) and rm of the renamed directory.
RenameOwn(p) ==
    /\ pc[p] = "renameOwn"
    /\ lock' = Absent
    /\ lockOld' = FALSE
    /\ Goto(p, "idle")
    /\ UNCHANGED <<observed, guard, guardOld>>

-----------------------------------------------------------------------------
(* The environment *)

\* A process dies (for good: a restarted program is another process).
Die(p) ==
    /\ Alive(p)
    /\ pc[p] \in Guarding => ReclaimersMayDie
    /\ Goto(p, "dead")
    /\ UNCHANGED <<observed, lock, lockOld, guard, guardOld>>

\* The grace period (5 s) passes over a directory that has no owner.json.  A
\* live process makes its next file-system call well within it, so only a
\* directory whose maker died gets this old, and a stat that finds it old
\* finds the directory the read a moment earlier found.
AgeLock ==
    /\ Present
    /\ lock.owner = Nobody
    /\ ~Alive(lock.maker)
    /\ ~lockOld
    /\ lockOld' = TRUE
    /\ UNCHANGED <<pc, observed, lock, guard, guardOld>>

\* The same for a guard whose maker died before it removed it.
AgeGuard ==
    /\ guard # Nobody
    /\ ~Alive(guard)
    /\ ~guardOld
    /\ guardOld' = TRUE
    /\ UNCHANGED <<pc, observed, lock, lockOld, guard>>

-----------------------------------------------------------------------------
Acquire(p) == MakeLock(p) \/ WriteOwner(p) \/ WriteOwnerFails(p) \/ CleanUp(p) \/ Retry(p)
Reclaim(p) == \/ Inspect(p) \/ MakeGuard(p) \/ StatGuard(p) \/ ExpireGuard(p)
              \/ Recheck(p) \/ RenameStale(p) \/ RemoveGuard(p)
LetGo(p) == ReadOwn(p) \/ RenameOwn(p)

Next ==
    \/ \E p \in Process : Begin(p) \/ GiveUp(p) \/ Release(p) \/ Die(p)
    \/ \E p \in Process : Acquire(p) \/ Reclaim(p) \/ LetGo(p)
    \/ AgeLock
    \/ AgeGuard

Spec == Init /\ [][Next]_vars

\* A process that is inside a call goes on, and time passes.  Nobody has to ask
\* for the lock, to hold on to it, to give it back, to give up or to die.
FairSpec ==
    /\ Spec
    /\ \A p \in Process : WF_vars(Acquire(p) \/ Reclaim(p) \/ LetGo(p))
    /\ WF_vars(AgeLock)
    /\ WF_vars(AgeGuard)

-----------------------------------------------------------------------------
(* Properties *)

\* Every variable stays in its type.
TypeOK ==
    /\ pc \in [Process -> Steps]
    /\ observed \in [Process -> Process \cup {Nobody, Incomplete}]
    /\ lock \in [maker : Process \cup {Nobody}, owner : Process \cup {Nobody}]
    /\ lockOld \in BOOLEAN
    /\ guard \in Process \cup {Nobody}
    /\ guardOld \in BOOLEAN

\* No two processes hold the lock (withFileLock runs operation() in both) ...
MutualExclusion ==
    \A p, q \in Process : pc[p] \in Holding /\ pc[q] \in Holding => p = q

\* ... and the lock directory names the process that holds it, which is what
\* assertHeld() looks for: a held lease is never lost to a reclaimer.
HolderIsRecorded ==
    \A p \in Process : pc[p] \in Holding => lock.owner = p

\* Only a lock nobody alive is in is ever taken away by another process: the
\* directory a reclaimer renames has a dead owner, or a dead maker and no owner.
OnlyStaleIsReclaimed ==
    [][\A p \in Process : RenameStale(p) =>
          /\ lock.owner # Nobody => ~Alive(lock.owner)
          /\ lock.maker # Nobody => ~Alive(lock.maker)]_vars

\* A lock whose owner died is freed while anyone keeps asking for it, also when
\* reclaimers die and leave their guard behind: the guard expires.
DeadOwned == Present /\ ~Alive(IF lock.owner = Nobody THEN lock.maker ELSE lock.owner)
DeadLockIsReclaimed ==
    \A p \in Process :
        (DeadOwned /\ pc[p] = "mkdir") ~> (~DeadOwned \/ pc[p] \in {"idle", "dead"})

=============================================================================
