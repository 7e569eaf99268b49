--------------------------- MODULE ControllerLease ---------------------------
(***************************************************************************)
(* Who may mutate a repository: IntentumRuntime's controller lease         *)
(* (src/runtime/intentum-runtime.ts).                                      *)
(*                                                                         *)
(* Every Pi session makes a runtime.  A runtime takes the lease            *)
(* .intentum/controller.lease when it first needs it, looks at it again    *)
(* before every operation, and gives it back when it is disposed, after    *)
(* the operations it owns have ended.  The lease is a file lock            *)
(* (module FileLock); here it is the owner its directory names.            *)
(*                                                                         *)
(* A promise and the awaits on it settle in one step: their continuations  *)
(* run before any other event of the process.  Operations that check the   *)
(* lease twice (a command through the controller) check it once here,      *)
(* as the writes of artifacts and the Worker commands do.                  *)
(***************************************************************************)
EXTENDS Naturals

CONSTANTS
    Runtime,        \* the runtimes of all sessions
    Slot,           \* the calls one runtime may have in flight
    Command,        \* the commands that are given, of AnyCommand
    MaxLease,       \* bound: how often one runtime acquires the lease
    MaxRemoval      \* bound: how often somebody deletes the directory

\* init; a write or read of the project's files; a command of a Worker.
AnyCommand == {"init", "artifact", "worker"}

ASSUME LeaseBounds ==
    /\ Command \subseteq AnyCommand
    /\ MaxLease \in Nat
    /\ MaxRemoval \in Nat

VARIABLES
    dir,        \* the lease that controller.lease/owner.json names
    removed,    \* how often the directory was deleted from outside
    exists,     \* the project is initialised: .intentum/state.json is there
    rt,         \* rt[r]: the fields of a runtime
    op          \* op[r][o]: the calls in flight

leaseVars == <<dir, removed, exists, rt, op>>

\* A lease is the n-th that a runtime acquired: it stands for the owner token.
NoLease == <<>>
Lease == Runtime \X (1..MaxLease)

Kind == {"start"} \cup Command
IdleCall == [step |-> "idle", kind |-> "start", lease |-> NoLease]

NewRuntime == [session |-> "none", dispose |-> "no", handle |-> NoLease,
               promise |-> "none", lease |-> NoLease, made |-> 0]

Names(r) == dir # NoLease /\ dir[1] = r
Disposed(r) == rt[r].dispose # "no"
Dead(r) == rt[r].session = "dead"

\* runOwnedOperation keeps these calls; the commands of Workers go to the manager.
Owned(kind) == kind # "worker"

LeaseInit ==
    /\ dir = NoLease
    /\ removed = 0
    /\ exists \in BOOLEAN
    /\ rt = [r \in Runtime |-> NewRuntime]
    /\ op = [r \in Runtime |-> [o \in Slot |-> IdleCall]]

-----------------------------------------------------------------------------
(* Helpers *)

\* Mutant: a release that does not compare tokens.
FreedAny(lease) == IF lease = NoLease THEN dir ELSE NoLease

\* The directory after lease.release(): gone, if it still names that lease.
Freed(lease) == IF dir = lease THEN NoLease ELSE dir

\* The calls that wait for the promise of r, and the others, as they are after
\* the promise was settled: `step' is where the waiting ones go on.
Settled(r, step) ==
    [o \in Slot |-> IF op[r][o].step # "wait" THEN op[r][o]
                    ELSE IF step = "idle" THEN IdleCall
                    ELSE [op[r][o] EXCEPT !.step = step]]

\* A call that throws or returns; a session is open after its start, even after
\* one that failed: the extension keeps the runtime it made.
SessionAfter(r, slots) ==
    IF \E o \in slots : op[r][o].step # "idle" /\ op[r][o].kind = "start"
    THEN "open" ELSE rt[r].session
Waiting(r) == {o \in Slot : op[r][o].step = "wait"}

-----------------------------------------------------------------------------
(* Calls *)

\* session_start.  The extension makes a new runtime for every session.
Start(r, o) ==
    /\ op[r][o].step = "idle"
    /\ rt[r].session = "none"
    /\ rt' = [rt EXCEPT ![r].session = "starting"]
    /\ op' = [op EXCEPT ![r][o] = [step |-> "begin", kind |-> "start", lease |-> NoLease]]
    /\ UNCHANGED <<dir, removed, exists>>

\* A command.  Pi awaits the session_start handler before it takes commands.
Ask(r, o, kind) ==
    /\ rt[r].session = "open"
    /\ ~Disposed(r)
    /\ op[r][o].step = "idle"
    /\ op' = [op EXCEPT ![r][o] = [step |-> "begin", kind |-> kind, lease |-> NoLease]]
    /\ UNCHANGED <<dir, removed, exists, rt>>

\* The call ends without having done anything: it was refused, or it is a start
\* that finds no project.
Refuse(r, o) ==
    /\ op' = [op EXCEPT ![r][o] = IdleCall]
    /\ rt' = [rt EXCEPT ![r].session = SessionAfter(r, {o})]
    /\ UNCHANGED <<dir, removed, exists>>

\* ensureControllerLease up to its first await, after the project was looked for.
Ensure(r, o) ==
    /\ op[r][o].step = "begin"
    /\ \/ /\ Disposed(r) \/ (~exists /\ op[r][o].kind # "init")
          /\ Refuse(r, o)
       \/ /\ ~Disposed(r) /\ (exists \/ op[r][o].kind = "init")
          /\ \/ /\ rt[r].handle # NoLease
                /\ op' = [op EXCEPT ![r][o].step = "assert", ![r][o].lease = rt[r].handle]
                /\ UNCHANGED rt
             \/ /\ rt[r].handle = NoLease
                /\ rt[r].promise = "none"
                /\ rt[r].made < MaxLease
                /\ rt' = [rt EXCEPT ![r].promise = "acquiring"]
                /\ op' = [op EXCEPT ![r][o].step = "wait"]
             \/ /\ rt[r].handle = NoLease
                /\ rt[r].promise \in {"acquiring", "returning"}
                /\ op' = [op EXCEPT ![r][o].step = "wait"]
                /\ UNCHANGED rt
             \/ /\ rt[r].handle = NoLease     \* the promise of an earlier call
                /\ rt[r].promise = "fulfilled"
                /\ rt' = [rt EXCEPT ![r].handle = rt[r].lease]
                /\ op' = [op EXCEPT ![r][o].step = "body"]
          /\ UNCHANGED <<dir, removed, exists>>

\* assertHeld() reads the owner: the call goes on, unless it is one of the
\* manager's and the manager was disposed.
AssertHeld(r, o) ==
    /\ op[r][o].step = "assert"
    /\ dir = op[r][o].lease
    /\ op' = [op EXCEPT ![r][o] = IF Owned(op[r][o].kind) \/ ~Disposed(r)
                                  THEN [op[r][o] EXCEPT !.step = "body", !.lease = NoLease]
                                  ELSE IdleCall]
    /\ UNCHANGED <<dir, removed, exists, rt>>

\* The lease was lost: the runtime forgets its handle, whichever it is now ...
LeaseLost(r, o) ==
    /\ op[r][o].step = "assert"
    /\ dir # op[r][o].lease
    /\ rt' = [rt EXCEPT ![r].handle = NoLease]
    /\ op' = [op EXCEPT ![r][o].step = "letGo", ![r][o].lease = rt[r].handle]
    /\ UNCHANGED <<dir, removed, exists>>

\* ... releases it, and the call throws.
LetGo(r, o) ==
    /\ op[r][o].step = "letGo"
    /\ dir' = Freed(op[r][o].lease)
    /\ op' = [op EXCEPT ![r][o] = IdleCall]
    /\ rt' = [rt EXCEPT ![r].session = SessionAfter(r, {o})]
    /\ UNCHANGED <<removed, exists>>

\* The operation itself has ended; what it did is the other modules' matter, but
\* that init creates the project.
Finish(r, o) ==
    /\ op[r][o].step = "body"
    /\ exists' = (exists \/ op[r][o].kind = "init")
    /\ rt' = [rt EXCEPT ![r].session = SessionAfter(r, {o})]
    /\ op' = [op EXCEPT ![r][o] = IdleCall]
    /\ UNCHANGED <<dir, removed>>

-----------------------------------------------------------------------------
(* controllerLeasePromise *)

\* acquireFileLease succeeds: the directory is free, or its owner is dead.  All
\* calls that wait go on; if the runtime was disposed meanwhile, the lease is
\* given back before any call sees it.
Acquire(r) ==
    /\ rt[r].promise = "acquiring"
    /\ \A s \in Runtime : Names(s) => Dead(s)
    /\ LET lease == <<r, rt[r].made + 1>> IN
       /\ dir' = lease
       /\ rt' = [rt EXCEPT ![r].made = @ + 1,
                           ![r].lease = lease,
                           ![r].promise = IF Disposed(r) THEN "returning" ELSE "fulfilled",
                           ![r].handle = IF Disposed(r) THEN @ ELSE lease]
    /\ op' = IF Disposed(r) THEN op ELSE [op EXCEPT ![r] = Settled(r, "body")]
    /\ UNCHANGED <<removed, exists>>

\* The calls that wait for the promise throw, and the promise is cleared.
Reject(r) ==
    /\ rt' = [rt EXCEPT ![r].promise = "none", ![r].lease = NoLease,
                        ![r].session = SessionAfter(r, Waiting(r))]
    /\ op' = [op EXCEPT ![r] = Settled(r, "idle")]
    /\ UNCHANGED <<removed, exists>>

\* The lease that was acquired too late is released.
GiveBack(r) ==
    /\ rt[r].promise = "returning"
    /\ dir' = Freed(rt[r].lease)
    /\ Reject(r)

\* Mutant: the calls that wait are not told.
AcquireFailsSilently(r) ==
    /\ rt[r].promise = "acquiring"
    /\ rt' = [rt EXCEPT ![r].promise = "none"]
    /\ UNCHANGED <<dir, removed, exists, op>>

\* Mutant: no deadline, only an I/O error on a free directory ends the waiting.
AcquireWaits(r) ==
    /\ rt[r].promise = "acquiring"
    /\ dir = NoLease
    /\ Reject(r)
    /\ UNCHANGED dir

\* The deadline (300 ms) passed, or an I/O error.
AcquireFails(r) ==
    /\ rt[r].promise = "acquiring"
    /\ Reject(r)
    /\ UNCHANGED dir

-----------------------------------------------------------------------------
(* dispose *)

\* session_shutdown, or the session_start that replaces the runtime.
DisposeRuntime(r) ==
    /\ rt[r].session \in {"starting", "open"}
    /\ ~Disposed(r)
    /\ rt' = [rt EXCEPT ![r].dispose = "draining"]
    /\ UNCHANGED <<dir, removed, exists, op>>

\* Mutant: the manager's commands are not waited for.
DrainedOwned(r) == \A o \in Slot : Owned(op[r][o].kind) => op[r][o].step = "idle"

\* Every owned call has ended, and every command the manager has accepted.
Drained(r) ==
    \A o \in Slot : op[r][o].step \in (IF Owned(op[r][o].kind) THEN {"idle"}
                                       ELSE {"idle", "begin", "wait", "assert", "letGo"})

Drain(r) ==
    /\ rt[r].dispose = "draining"
    /\ Drained(r)
    /\ rt' = [rt EXCEPT ![r].dispose = "releasing"]
    /\ UNCHANGED <<dir, removed, exists, op>>

\* Mutant: dispose does not wait for an acquisition in flight.
ReleaseNow(r) ==
    /\ rt[r].dispose = "releasing"
    /\ dir' = Freed(rt[r].handle)
    /\ rt' = [rt EXCEPT ![r].dispose = "done", ![r].handle = NoLease]
    /\ UNCHANGED <<removed, exists, op>>

\* Once the promise has settled, its lease and the runtime's are released.
Release(r) ==
    /\ rt[r].dispose = "releasing"
    /\ rt[r].promise \notin {"acquiring", "returning"}
    /\ dir' = IF Freed(rt[r].lease) = NoLease THEN NoLease ELSE Freed(rt[r].handle)
    /\ rt' = [rt EXCEPT ![r].dispose = "done", ![r].handle = NoLease,
                        ![r].promise = "none", ![r].lease = NoLease]
    /\ UNCHANGED <<removed, exists, op>>

-----------------------------------------------------------------------------
(* The environment *)

\* The process ends without dispose.
Die(r) ==
    /\ rt[r].session \notin {"none", "dead"}
    /\ rt' = [rt EXCEPT ![r] = [NewRuntime EXCEPT !.session = "dead", !.made = rt[r].made]]
    /\ op' = [op EXCEPT ![r] = [o \in Slot |-> IdleCall]]
    /\ UNCHANGED <<dir, removed, exists>>

\* Somebody deletes controller.lease (rm -rf .intentum, git clean -x).
Remove ==
    /\ dir # NoLease
    /\ removed < MaxRemoval
    /\ removed' = removed + 1
    /\ dir' = NoLease
    /\ UNCHANGED <<exists, rt, op>>

-----------------------------------------------------------------------------
Progress(r, o) == Ensure(r, o) \/ AssertHeld(r, o) \/ LeaseLost(r, o) \/ LetGo(r, o) \/ Finish(r, o)
Settle(r) == Acquire(r) \/ GiveBack(r) \/ AcquireFails(r)
Disposal(r) == Drain(r) \/ Release(r)

LeaseNext ==
    \/ \E r \in Runtime, o \in Slot :
          Start(r, o) \/ (\E kind \in Command : Ask(r, o, kind)) \/ Progress(r, o)
    \/ \E r \in Runtime : Settle(r) \/ DisposeRuntime(r) \/ Disposal(r) \/ Die(r)
    \/ Remove

LeaseSpec == LeaseInit /\ [][LeaseNext]_leaseVars

-----------------------------------------------------------------------------
(* Properties *)

\* Types; a lease is known to the promise that acquired it; whoever waits, waits
\* for a promise that is to be settled.
LeaseTypeOK ==
    /\ dir \in Lease \cup {NoLease}
    /\ removed \in 0..MaxRemoval
    /\ exists \in BOOLEAN
    /\ rt \in [Runtime ->
         [session : {"none", "starting", "open", "dead"},
          dispose : {"no", "draining", "releasing", "done"},
          handle : Lease \cup {NoLease}, lease : Lease \cup {NoLease},
          promise : {"none", "acquiring", "returning", "fulfilled"},
          made : 0..MaxLease]]
    /\ op \in [Runtime -> [Slot ->
         [step : {"idle", "begin", "assert", "letGo", "wait", "body"},
          kind : Kind, lease : Lease \cup {NoLease}]]]
    /\ \A r \in Runtime : (rt[r].promise \in {"returning", "fulfilled"}) = (rt[r].lease # NoLease)
    /\ \A r \in Runtime, o \in Slot :
          op[r][o].step = "wait" => rt[r].promise \in {"acquiring", "returning"}

\* As long as nobody deletes the directory, operations of two runtimes never
\* overlap, also while one runtime is disposed and its successor starts.
OneController ==
    removed = 0 =>
        \A r, s \in Runtime : (\E o, p \in Slot : op[r][o].step = "body" /\ op[s][p].step = "body") => r = s

\* When dispose has returned, the directory does not name the runtime, nor will
\* it later: a successor is not kept out by a session that is over.
DisposedHoldsNothing ==
    \A r \in Runtime : rt[r].dispose = "done" =>
        /\ ~Names(r)
        /\ rt[r].promise = "none"

\* The lease of a live runtime is only ever taken away by itself or by whoever
\* deletes the directory: a session that lost its lease and lets go of it, or is
\* disposed, does not free the lease of its successor.
NobodyElsesLease ==
    [][\A r \in Runtime, o \in Slot :
          (LetGo(r, o) \/ GiveBack(r) \/ Release(r)) /\ dir' # dir => Names(r)]_leaseVars

\* dispose never waits for what waits for ever: until it has returned, a call, a
\* promise or the disposal itself of this runtime can go on, whatever the owner of
\* the lease does.  No step of a call or a promise can be repeated without end.
DisposeIsNeverStuck ==
    \A r \in Runtime : rt[r].dispose \in {"draining", "releasing"} =>
        ENABLED (Settle(r) \/ Disposal(r) \/ \E o \in Slot : Progress(r, o))

\* An operation begins only while the directory names the lease of its runtime
\* (the comment on ensureControllerLease: stop mutating instead of trusting the
\* cached handle).
OperatesUnderLease ==
    [][\A r \in Runtime, o \in Slot :
          op[r][o].step # "body" /\ op'[r][o].step = "body" => dir' = rt'[r].handle]_leaseVars

=============================================================================
