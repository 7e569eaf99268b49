---------------------------- MODULE ProjectStore ----------------------------
(***************************************************************************)
(* How .intentum/state.json and the artifacts beside it are written:       *)
(* src/state/project-store.ts, the calls of the project controller and of  *)
(* the runtime that go through it, and the activity log after which an     *)
(* observer of the state is told.                                          *)
(*                                                                         *)
(* A process is one Node process; its calls are asynchronous functions.    *)
(* The in-memory queue of a process lets one of its calls at a time go for *)
(* the lock directory; the lock itself is what FileLock shows it to be:    *)
(* one holder, freed when its holder has died.                             *)
(***************************************************************************)
EXTENDS Naturals, Sequences

CONSTANTS
    Procs,          \* processes with a ProjectStore on the same repository
    Calls,          \* numbers of the calls one process may have in flight
    Targets,        \* the phases that are asked for
    StartPhases,    \* phases of the projects the behaviours start from
    MaxCalls,       \* bound: calls ever made
    MaxCrashes      \* bound: deaths of processes

VARIABLES
    disk,       \* state.json, NoState before it exists
    charter,    \* an artifact (both are treated alike): missing, empty, template, written
    lock,       \* holder of state.json.lock: a call, Unheld, or Dead
    call,       \* call[p][c]: what it does, where it stands, the state it holds
    queue,      \* queue[p]: stateMutationTails, the head is running
    log,        \* log[p]: appendTail of the activity log, the head is being written
    shown,      \* shown[p]: what observers were last given
    asked, crashes,     \* bounded counters
    renames,    \* history: how many times state.json was replaced
    writers     \* history: the processes that replaced it

vars == <<disk, charter, lock, call, queue, log, shown, asked, crashes, renames, writers>>
bounds == <<asked, crashes>>
history == <<renames, writers>>

P == INSTANCE ProjectLifecycle WITH project <- disk.project

\* The runtime makes a pause of a transition to `paused', so that no move asks for it,
\* and a project is paused only by a call.
ASSUME PhasesAssumption == StartPhases \subseteq P!ActivePhases /\ Targets \subseteq P!ActivePhases

NoState == [project |-> P!NoProject, rev |-> 0]
Exists == disk # NoState

Unheld == <<"unheld">>
Dead == <<"dead">>

\* `move' is transition, `worker' any update of a Worker record, `artifact' is
\* writeArtifact, `show' the refresh at the end of onSessionStart.
Kinds == {"init", "move", "pause", "resume", "worker", "artifact", "show"}

Idle == [kind |-> "none", target |-> "none", at |-> "idle", view |-> NoState, created |-> FALSE]

Blank == [by |-> "none", phase |-> "none", rev |-> 0]

Init ==
    /\ disk \in {NoState} \cup
                {[project |-> [P!Fresh EXCEPT !.phase = s], rev |-> 1] : s \in StartPhases}
    /\ charter = IF Exists THEN "template" ELSE "missing"
    /\ lock = Unheld
    /\ call = [p \in Procs |-> [c \in Calls |-> Idle]]
    /\ queue = [p \in Procs |-> <<>>]
    /\ log = [p \in Procs |-> <<>>]
    /\ shown = [p \in Procs |-> Blank]
    /\ asked = 0 /\ crashes = 0
    /\ renames = disk.rev /\ writers = {}

At(p, c, s) == call[p][c].at = s
Is(p, c, ks) == call[p][c].kind \in ks
Goes(p, c, s) == call' = [call EXCEPT ![p][c].at = s]
Ends(p, c) == call' = [call EXCEPT ![p][c] = Idle]
Holds(p, c) == lock = <<p, c>>

Shows(p, by, s) == shown' = [shown EXCEPT ![p] = [by |-> by, phase |-> s.project.phase, rev |-> s.rev]]

-----------------------------------------------------------------------------
(* Calls begin.  Everything but initialize and the session's refresh looks   *)
(* whether the project exists first (ensureInitialized).                     *)

Ask(p, c, k, t) ==
    /\ At(p, c, "idle") /\ asked < MaxCalls
    /\ \A d \in Calls : d < c => ~At(p, d, "idle")       \* the numbers mean nothing
    /\ k # "init" => Exists
    /\ asked' = asked + 1
    /\ call' = [call EXCEPT ![p][c] = [Idle EXCEPT
            !.kind = k, !.target = t,
            !.at = CASE k = "artifact" -> "artifact" [] k = "show" -> "reread" [] OTHER -> "queued"]]
    /\ queue' = IF k \in {"artifact", "show"} THEN queue
                ELSE [queue EXCEPT ![p] = Append(@, c)]
    /\ UNCHANGED <<disk, charter, lock, log, shown, crashes, history>>

\* Mutant: each store instance has a queue and a lock of its own.
TakeLockBlindly(p, c) ==
    /\ At(p, c, "queued") /\ queue[p] # <<>> /\ Head(queue[p]) = c
    /\ lock' = <<p, c>> /\ Goes(p, c, "locked")
    /\ UNCHANGED <<disk, charter, queue, log, shown, bounds, history>>

\* withStateMutationQueue, then withFileLock.
TakeLock(p, c) ==
    /\ At(p, c, "queued") /\ queue[p] # <<>> /\ Head(queue[p]) = c
    /\ lock = Unheld
    /\ lock' = <<p, c>> /\ Goes(p, c, "locked")
    /\ UNCHANGED <<disk, charter, queue, log, shown, bounds, history>>

\* The lock could not be had before its deadline (30 s): the call throws.
LockTimesOut(p, c) ==
    /\ At(p, c, "queued") /\ queue[p] # <<>> /\ Head(queue[p]) = c
    /\ lock # Unheld
    /\ queue' = [queue EXCEPT ![p] = Tail(@)]
    /\ call' = [call EXCEPT ![p][c] = Idle]
    /\ UNCHANGED <<disk, charter, lock, log, shown, bounds, history>>

-----------------------------------------------------------------------------
(* Under the lock.                                                           *)

\* initialize: an existing project is read, otherwise a new one is made.
InitLooks(p, c) ==
    /\ At(p, c, "locked") /\ Is(p, c, {"init"})
    /\ call' = [call EXCEPT ![p][c] = IF Exists
            THEN [@ EXCEPT !.view = disk, !.at = "artifacts"]
            ELSE [@ EXCEPT !.view = [project |-> P!Fresh, rev |-> 1], !.created = TRUE, !.at = "commit"]]
    /\ UNCHANGED <<disk, charter, lock, queue, log, shown, bounds, history>>

\* The updater throws for a transition that the table does not have.
Accepts(s, k, t) == k = "move" => P!MayMove(s, t)

Updated(s, k, t) ==
    CASE k = "move"   -> P!Transitioned(s, t)
      [] k = "pause"  -> P!Paused(s)
      [] k = "resume" -> P!Resumed(s)
      [] OTHER        -> s

\* update: read, apply, validate; a refused one writes nothing.
Apply(p, c) ==
    /\ At(p, c, "locked") /\ Is(p, c, {"move", "pause", "resume", "worker"})
    /\ LET k == call[p][c].kind  t == call[p][c].target
       IN  call' = [call EXCEPT ![p][c] = IF Accepts(disk.project, k, t)
                THEN [@ EXCEPT !.at = "commit",
                               !.view = [project |-> Updated(disk.project, k, t), rev |-> disk.rev + 1]]
                ELSE [@ EXCEPT !.at = "failed"]]
    /\ UNCHANGED <<disk, charter, lock, queue, log, shown, bounds, history>>

\* writeAtomic: the temporary file is renamed over state.json ...
Commit(p, c) ==
    /\ At(p, c, "commit")
    /\ disk' = call[p][c].view
    /\ renames' = renames + 1 /\ writers' = writers \cup {p}
    /\ Goes(p, c, IF Is(p, c, {"init"}) THEN "artifacts" ELSE "release")
    /\ UNCHANGED <<charter, lock, queue, log, shown, bounds>>

\* ... or cannot be written, and is removed.
CommitFails(p, c) ==
    /\ At(p, c, "commit") /\ Goes(p, c, "failed")
    /\ UNCHANGED <<disk, charter, lock, queue, log, shown, bounds, history>>

\* ensureArtifacts: create the file only if it is missing (wx) ...
CreateTemplate(p, c) ==
    /\ At(p, c, "artifacts")
    /\ IF charter = "missing" THEN charter' = "empty" /\ Goes(p, c, "template")
                              ELSE UNCHANGED charter /\ Goes(p, c, "release")
    /\ UNCHANGED <<disk, lock, queue, log, shown, bounds, history>>

\* Mutant: the template is put there whatever has been written meanwhile.
FillTemplateByName(p, c) ==
    /\ At(p, c, "template")
    /\ charter' = "template"
    /\ Goes(p, c, "release")
    /\ UNCHANGED <<disk, lock, queue, log, shown, bounds, history>>

\* ... and write into the file that was created, which a writeArtifact may have
\* replaced under its name.
FillTemplate(p, c) ==
    /\ At(p, c, "template")
    /\ charter' = IF charter = "empty" THEN "template" ELSE charter
    /\ Goes(p, c, "release")
    /\ UNCHANGED <<disk, lock, queue, log, shown, bounds, history>>

-----------------------------------------------------------------------------
(* The lock is given back, the next call of the queue may go on, and this    *)
(* one's await returns.  A Worker's update and an initialize that created    *)
(* nothing tell the observers at once; the others write the activity log     *)
(* first.                                                                    *)

Unqueue(p) == queue' = [queue EXCEPT ![p] = Tail(@)]

Release(p, c) ==
    /\ At(p, c, "release")
    /\ lock' = IF Holds(p, c) THEN Unheld ELSE lock
    /\ Unqueue(p)
    /\ IF Is(p, c, {"worker"}) \/ (Is(p, c, {"init"}) /\ ~call[p][c].created)
       THEN Ends(p, c) /\ Shows(p, "update", call[p][c].view) /\ UNCHANGED log
       ELSE Goes(p, c, "log") /\ log' = [log EXCEPT ![p] = Append(@, c)] /\ UNCHANGED shown
    /\ UNCHANGED <<disk, charter, bounds, history>>

ReleaseFailed(p, c) ==
    /\ At(p, c, "failed")
    /\ lock' = IF Holds(p, c) THEN Unheld ELSE lock
    /\ Unqueue(p) /\ Ends(p, c)
    /\ UNCHANGED <<disk, charter, log, shown, bounds, history>>

\* Mutant: every append goes to the file at once.
WriteLogAtOnce(p, c) ==
    /\ At(p, c, "log")
    /\ log' = [log EXCEPT ![p] = SelectSeq(@, LAMBDA d : d # c)]
    /\ IF Is(p, c, {"artifact"}) THEN Goes(p, c, "reread") /\ UNCHANGED shown
                                 ELSE Ends(p, c) /\ Shows(p, "update", call[p][c].view)
    /\ UNCHANGED <<disk, charter, lock, queue, bounds, history>>

\* An append has succeeded, or failed without a word; then emitChange.
WriteLog(p, c) ==
    /\ At(p, c, "log") /\ Head(log[p]) = c
    /\ log' = [log EXCEPT ![p] = Tail(@)]
    /\ IF Is(p, c, {"artifact"}) THEN Goes(p, c, "reread") /\ UNCHANGED shown
                                 ELSE Ends(p, c) /\ Shows(p, "update", call[p][c].view)
    /\ UNCHANGED <<disk, charter, lock, queue, bounds, history>>

\* writeArtifact: temporary file and rename, under the artifact's own lock.
WriteArtifact(p, c) ==
    /\ At(p, c, "artifact")
    /\ charter' = "written"
    /\ Goes(p, c, "log") /\ log' = [log EXCEPT ![p] = Append(@, c)]
    /\ UNCHANGED <<disk, lock, queue, shown, bounds, history>>

\* refreshUi(await store.read()): state.json is read without a lock, and shown
\* when the read has returned; a change of phase may overtake the read.
Reread(p, c) ==
    /\ At(p, c, "reread")
    /\ call' = [call EXCEPT ![p][c].view = disk, ![p][c].at = "refresh"]
    /\ UNCHANGED <<disk, charter, lock, queue, log, shown, bounds, history>>

Refresh(p, c) ==
    /\ At(p, c, "refresh")
    /\ LET view == call[p][c].view IN
       Shows(p, IF view.project.phase = disk.project.phase THEN "read" ELSE "overtaken", view)
    /\ Ends(p, c)
    /\ UNCHANGED <<disk, charter, lock, queue, log, bounds, history>>

-----------------------------------------------------------------------------
\* A process dies and is started again: its calls are gone, its lock is not.
Crash(p) ==
    /\ crashes < MaxCrashes /\ crashes' = crashes + 1
    /\ lock' = IF \E c \in Calls : Holds(p, c) THEN Dead ELSE lock
    /\ call' = [call EXCEPT ![p] = [c \in Calls |-> Idle]]
    /\ queue' = [queue EXCEPT ![p] = <<>>]
    /\ log' = [log EXCEPT ![p] = <<>>]
    /\ shown' = [shown EXCEPT ![p] = Blank]
    /\ UNCHANGED <<disk, charter, asked, history>>

\* FileLock: whoever waits for the lock of a dead process takes it away.
Reclaim ==
    /\ lock = Dead /\ lock' = Unheld
    /\ UNCHANGED <<disk, charter, call, queue, log, shown, bounds, history>>

Step(p, c) ==
    \/ TakeLock(p, c) \/ LockTimesOut(p, c) \/ InitLooks(p, c) \/ Apply(p, c) \/ Commit(p, c) \/ CommitFails(p, c)
    \/ CreateTemplate(p, c) \/ FillTemplate(p, c) \/ Release(p, c) \/ ReleaseFailed(p, c)
    \/ WriteLog(p, c) \/ WriteArtifact(p, c) \/ Reread(p, c) \/ Refresh(p, c)

Next ==
    \/ \E p \in Procs, c \in Calls :
           \/ Step(p, c)
           \/ \E k \in Kinds \ {"move"} : Ask(p, c, k, "none")
           \/ \E t \in Targets : Ask(p, c, "move", t)
    \/ \E p \in Procs : Crash(p)
    \/ Reclaim

\* The event loop and the file system go on, and the lock's deadline passes.
Fairness == \A p \in Procs, c \in Calls : WF_vars(Step(p, c))

Spec == Init /\ [][Next]_vars /\ Fairness

-----------------------------------------------------------------------------
(* Properties *)

TypeOK ==
    /\ disk \in [project : P!States \cup {P!NoProject}, rev : Nat]
    /\ charter \in {"missing", "empty", "template", "written"}
    /\ lock \in {Unheld, Dead} \cup (Procs \X Calls)
    /\ \A p \in Procs : queue[p] \in Seq(Calls) /\ log[p] \in Seq(Calls)
    /\ \A p \in Procs : shown[p].by \in {"none", "update", "read", "overtaken"}

\* No update is lost: every rename of state.json was made from the state the one
\* before it had left, whichever processes and calls they came from.
NoLostUpdate == disk.rev = renames

\* What stands in state.json always satisfies what assertProjectState demands of
\* a project, so no process is ever refused by its own state.
PauseIsCoherent == P!PauseIsCoherent

Quiet(p) == \A c \in Calls : At(p, c, "idle")

\* When the calls of the one process that writes have come to rest, the phase it
\* shows is the project's, although a change of phase tells the observers later
\* than a Worker's update and a read do.  But the code shows a read that a change of
\* phase has overtaken as if nothing had happened, also as the last thing: what such
\* a read shows is excepted.
ShownPhaseIsCurrent ==
    \A p \in Procs :
        Quiet(p) /\ writers \subseteq {p} /\ shown[p].by \in {"update", "read"}
            => shown[p].phase = disk.project.phase

\* A charter somebody wrote is never replaced by the template.
WrittenStays == [][charter = "written" => charter' = "written"]_charter

\* The phases move as the controller promises, through crashes, failed writes and
\* calls of several processes.
ImplementsLifecycle == [][P!Next]_(disk.project)

\* What the store promises beyond its own state.
KeepsItsPromises == ImplementsLifecycle /\ WrittenStays

\* A call that goes for the state comes to its end, unless its process dies, also
\* when another process has died with the lock.
UpdatesEnd == \A p \in Procs, c \in Calls : At(p, c, "queued") ~> At(p, c, "idle")
=============================================================================
