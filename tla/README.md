# A verification project for Intentum

Intentum is an extension of the Pi coding agent: a Designer session talks to the
human and delegates work to a *Worker*, a second Pi session in its own Git
worktree.  A deterministic controller, in one Node process, owns the durable
state (`.intentum/state.json`, `runs/<worker>/result.json`), starts, pauses,
steers, resumes, aborts and integrates Workers, and recovers after a crash.  This
directory holds TLA+ models of that controller, TLC configurations that check them
on small instances, and TLAPS proofs of what matters most for every instance.

Source paths below are relative to the repository (`src/work/worker-manager.ts`).

## 1. Inventory

| component | state it keeps | operations | talks to |
|---|---|---|---|
| file lock (`src/utils/file-lock.ts`) | lock directory, `owner.json`, `.reclaim` guard | acquire, reclaim, release, assertHeld | every store write, result write, integration, controller lease |
| project store (`src/state/project-store.ts`, `schema.ts`) | `state.json`, artifacts | initialize, read, update (in-memory queue, then file lock), writeArtifact | file lock |
| Worker manager (`src/work/worker-manager.ts`) | runtimes, runtime generations, control revisions, per-Worker operation queues, aborts, integrations, lifecycle epoch | createAndStart, requestPause, steer, resume, abort, integrateWorker, reconcilePendingResults, pauseActive, dispose; tool callbacks; the settled handler | store, worktrees, Pi sessions, integration |
| project controller (`src/controller/`) | phase, phaseBeforePause, schedulerPaused | transition, pause, resume, recoverInterruptedWork | store |
| runtime (`src/runtime/intentum-runtime.ts`) | controller lease, lifecycle epoch, owned operations | onSessionStart, dispose, ensureControllerLease, the façade of every command | lock, controller, manager |
| Pi session adapter (`src/runtime/pi-worker-runtime.ts`, `worker-tools.ts`) | an AgentSession | prompt, steer, abort, dispose, subscribe; four sequential tools | manager's callbacks |
| worktree manager (`src/git/worktree-manager.ts`) | worktrees and Worker branches | create, commitChanges, assertCompletedWorktree, assertRecoverableWorktree | Git |
| integration manager (`src/git/integration-manager.ts`) | target branch and worktree | integrate | Git, file lock |
| contracts, results (`src/work/`) | files | validate, save | store |
| Worker sandbox (`src/runtime/worker-sandbox.ts`) | a bubblewrap process per tool call, its timer and abort listener | runSandboxedCommand, buildBubblewrapCommand, the checks of the paths | Pi's tool calls, the file system |
| control center (`src/tui/control-panel.ts`, `src/tools/control-panel-host.ts`) | tab, selection, focus, scroll position, evidence, the operation in progress, timers | keys, clicks, runAction, dialogs, state changes, resize, close | runtime, observers of the state |
| model picker (`src/tui/model-picker.ts`, `src/tools/model-picker-host.ts`, `src/state/provider-pins.ts`) | pins, marks, query, pending change | toggle, search, choose, connect | Pi's models, the pins file |
| harness presentation (`src/tui/presentation.ts`, `status-widget.ts`, `src/tools/commands.ts`) | none | what to show first, what to offer | control center, widget, launcher |
| transcript activity (`src/tui/thinking-presentation.ts`, `thinking-pulse.ts`, `live-ticker.ts`) | pulse, speed, one ticker | Pi's events, renders, ticks | Pi's working row and blocks |
| launcher (`bin/intentum.mjs`) | the child process | doctor, status, launch, signals | Pi, Git |
| Designer tools, renderers, session chrome, repository brief | little or none | parse, draw, read files | runtime |

What is hard here.  One process interleaves at every `await`: an operator's
commands wait in a queue per Worker, but an abort does not, callbacks of the Pi
session do not, and `createAndStart` does not.  The result file and the record are
two files written one after the other.  A session that is told to stop goes on
until its tool returns.  A settled event is handled later than it happens.  The
process may die anywhere, also while it holds a lock directory, and another must
take the lock over without taking it from somebody alive.

What must hold: one holder of a lock; one writer per worktree; a disposition
(completed, failed, blocked, paused) that was durably submitted survives crashes
and is neither published twice nor overwritten by an older attempt; a completed
Worker is exactly what was verified in Git; steering is not lost; a paused project
starts nothing; no Worker stays active with nothing left to move it.

Every command first looks at the controller lease, so that two sessions in one
repository do not both drive its Workers; a completed Worker is merged into a
branch the human works on at the same time; and at most one Worker is unfinished.

The same holds outside the Worker's control.  Two processes and several calls of
each write `state.json`, and the observers are told of a change at different times.
A tool's shell may leave processes behind, ignore its input or never end.  A panel
is redrawn from states that arrive while its own operations run, at any size.  Pi's
events come in any order a model and a human can produce.  What must hold there: no
update is lost, whoever calls is answered once and everything has ended by then,
nothing but the worktree can be written, and what is on the screen is so.

`PROJECT.json` lists each component with its status, and the hazards at their
lines with the properties that guard against them.

## 2. Modules

| module | what it is |
|---|---|
| `FileLock` | the lock directory, step by step at the file system |
| `FileLockProofs` | its inductive invariant and theorems |
| `WorkerLifecycle` | abstract: the life of one Worker record |
| `WorkerControl` | detailed: one Worker under the manager, its sessions, operators, crashes; implements `WorkerLifecycle` |
| `WorkerControlProofs` | its inductive invariant, the promises of `WorkerLifecycle`, the refinement, one writer, delivery of instructions, results and completions |
| `WorkerProgressProofs` | its second invariant: who moves an active Worker on, who asks it to pause |
| `ControllerLease` | the runtimes of all sessions around the controller lease: start, calls, loss, dispose, death |
| `Integration` | completed Workers merged into the target branch, the single slot, the human in the same repository |
| `IntegrationProofs` | its inductive invariant and theorems |
| `Controller` | `ControllerLease` and `Integration` beside each other |
| `ControllerLeaseProofs` | the inductive invariant of the lease, one controller, nobody else's lease, nothing left behind; the types of both parts of `Controller` |
| `ProjectLifecycle` | abstract: phases, pause and resume of the project |
| `ProjectStore` | detailed: calls of several processes that write `state.json` and the artifacts; implements `ProjectLifecycle` |
| `ProjectStoreProofs` | its inductive invariant, no lost update, the refinement, the phase that is shown |
| `SandboxCommand` | one command in the Worker's sandbox: pipes, timer, abort, left-behind processes |
| `SandboxMounts` | what the mounts of the sandbox make readable and writable |
| `PanelView` | the scrolling body of the control center: viewport, focus, clicks |
| `Presentation` | operators: what every surface counts, orders, offers and recommends, and the size of the panel |
| `Surfaces` | the projects these surfaces are shown, and what they promise |
| `ControlCenter` | the control center's host and view while operations, dialogs and state changes overlap; uses `Presentation` |
| `ModelPicker` | the model picker with its pins, on the screen and on disk |
| `TranscriptActivity` | the working row and the spinners of tool calls |
| `Launcher` | Pi's start, its signals and exit, doctor's look at Git |
| `Calls` | `ProjectStore`, `SandboxCommand`, `SandboxMounts` and `TranscriptActivity` beside one another |
| `CallsProofs` | their invariants and the theorems of `Calls`; the store's part comes from `ProjectStoreProofs` |
| `Screen` | `ControlCenter`, `PanelView`, `Surfaces`, `ModelPicker` and `Launcher` beside one another |
| `ScreenProofs` | their invariants and the theorems of `Screen` |
| `MC*` | the instances TLC checks: `MCController` of `Controller`, `MCCalls` of `Calls`, `MCTerminal` of `Screen`, the others (`MCFileLock`, `MCWorkerControl`, `MCIntegration`, `MCControllerLease`, `MCModelPicker`) of the module they name |

The modules meet at their interfaces.  `ControllerLease` takes the lease for what
`FileLock` shows a lock to be (one owner, reclaimed from the dead), and so does
`ProjectStore` for `state.json.lock`; `WorkerControl` takes the lease and one atomic
update for granted, which `ProjectStore` shows of an update, and ends where a Worker
is `completed`; `Integration` goes on from there with many Workers and reduces each
one's life to `working` and `stopped`.  `ControlCenter` takes a call of the runtime for
one step that takes effect or fails.

`Controller`, `Calls` and `Screen` put modules side by side: `part` says which one
a behaviour is about, and the others rest in an initial state.  Their runs explore
the sum of the parts' states, not their product, and claim nothing about their
interaction; it is one run because the parts share a question (who may act, who
gets an answer, what the human sees).  Each composition has its step proved to be a step or a
stutter of each part, so that what is proved of a part is proved of the specification that the run
checks.

### FileLock

A process is at one file-system call at a time (`pc`).  `MakeLock`, `WriteOwner`,
`WriteOwnerFails`, `CleanUp`, `Retry` and `GiveUp` are the loop of
`acquireFileLease`; `Inspect` is `readStaleOwner`; `MakeGuard`, `StatGuard`,
`ExpireGuard`, `Recheck`, `RenameStale`, `RemoveGuard` are `reclaimStaleLock`;
`Release`, `ReadOwn`, `RenameOwn` are `release()`.  `Die` ends a process between any
two calls.

Time: the grace period (5 s) is an aging step (`AgeLock`, `AgeGuard`) that applies
to a directory whose maker is dead.  A live process makes its next file-system
call well within the grace period; a live process that is suspended for longer
than that is outside the model.  Pids are not reused.

`ReclaimersMayDie` separates two questions: with FALSE a process may die anywhere
except while it holds the guard, and the lock is safe for any number of processes, which
is what the proofs assume; with TRUE the guard may be left behind, must expire for the
lock to stay live (`DeadLockIsReclaimed`), and its expiry is a race.  The race takes four
processes (`FileLockGuardExpiry`, section 5); with three, `FileLockSafe` finds the lock safe
and live wherever they die.

### WorkerLifecycle

The promise: statuses, the attempt identity (a counter of how many there have
been), and the pending disposition.  One action per way a record may change.
`Reconcile` and `Interrupt` are what restarts and aborts may do; `Resume` is the
only way back to `working` and always takes a fresh attempt.

### WorkerControl

One Worker.  Durable: its record, its result file, the project's pause, the
Worker branch (`head`, `dirty`), the worktree (`disk`).  In memory: the current
generation (`live`), the attached session with its turn and what its prompt
delivered (`managed`), the sessions (`sess`), the callback each executes (`cb`), the
Worker's operation queue, the `createAndStart` and the abort in flight.

How the code maps to actions:

- *An action is what happens between two awaits that matter.*  `store.update` is
  one step, the one in which the updater is applied: the store runs one update at a
  time, in the order they were asked for, and a read sees what has been applied
  (`StoreFree` keeps a resume's update and the launch that follows it together, as
  the code does).  What an abort remembers of the attached session before its update
  is applied does not depend on that update, so it is taken in the same step.
- An update whose updater throws changes nothing; the operation goes to its error
  path, which is a step of its own because other operations run before it.
- *Queue.*  pause, steer, resume and the settled handler wait in
  `runWorkerOperation`; the head of `queue` is the one that runs, and `step` says
  where it stands.
- pause and steer read the record and update it; both steps are one, because a
  refusal by a status that changed in between equals no command at all.
- *abort* is outside the queue: it marks every resume asked for before it stale
  (control revision), reads, writes `interrupted`, invalidates the generation and
  waits for the session to stop.
- *Generations.*  `live` is the session whose generation is current and 0 when the
  last one was invalidated; the counter itself is abstracted away.  Sessions are
  numbered in the order they are made.
- *Sessions.*  The four Worker tools run one after another (`executionMode:
  "sequential"`, `worker-tools.ts`), so a session executes at most one callback, and
  writes to its worktree only between callbacks.  A callback's own checks are in
  its steps: generation, status, abort signal, and the undo of a result whose
  update was refused.
- *Turn end.*  Pi reports settled, perhaps after a failure, and may reject the
  prompt; both events go to the queue with the turn they belong to.
- *Restart.*  `Crash` forgets everything in memory and may lose the worktree;
  `Reconcile` is `reconcilePendingResults`, `Recover` is `recoverInterruptedWork`.
  Commands come only after both, because `onSessionStart` awaits them.

Two gaps of the code are constants, so that the runs can show what holds without
them and `WorkerCrashes` what still holds with them, which is the refinement: `AbortMayReject` (Pi's `session.abort()`
rejects, the manager disposes the session and forgets it while a tool callback
is still running) and `ResumeInCreate` (the operator aborts a Worker whose start is
in flight and resumes it before that start has noticed).

Not in the model: I/O errors of the store itself, corrupt files, a second
controller process (the controller lease keeps it out), the message a steer sends
to the live session (the outbox is what guarantees delivery), `dispose` of the
manager inside one process.  Integration has a module of its own.  `commit` after a commit only writes a
progress summary and is left out.

### ControllerLease

A runtime `r` has the fields of `IntentumRuntime`: `handle` is `controllerLease`,
`promise` and `lease` are `controllerLeasePromise` and what it resolved to,
`dispose` is `disposed` and how far `dispose()` has come.  `op[r][o]` is a call in
flight.  `Start` and `Ask` begin one; `Ensure`, `AssertHeld`, `LeaseLost`, `LetGo`
are `ensureControllerLease`; `Acquire`, `GiveBack`, `AcquireFails` are the promise;
`Finish` ends the operation itself, whose content belongs to the other modules.
`DisposeRuntime`, `Drain`, `Release` are `dispose()`.  `Die` is the end of a process,
`Remove` the `rm -rf .intentum` of which the code's comment speaks.

Abstractions.  The calls are of three kinds because dispose treats them
differently: `init`, any call that `runOwnedOperation` keeps, and a command of a
Worker, which the manager waits for only once it has accepted it.  An operation
that checks the lease twice checks it once.  A promise settles together with the
awaits on it.  The extension makes a new runtime for every session, so a disposed
runtime is not started again.  While a session whose lease was lost refuses
commands, the Worker session it started goes on; that is outside this module.

### Integration

Per Worker: `status`, `attempt` and `commit` of the record and the head (`tip`) of its
branch.  A call is at a step of `integrateWorker` and `integrate()`: `verify`
(worktree), `queued` (the chain of promises), and then, under `integration.lock`, at one
git command after the other, because the human may act between any two of them:
`branch`, `markers`, `clean`, `head`, `ancestor` (the checks, whose answers are compared by
`Check`, noted by `NoteHead`, decided by `Ancestor`), `merge`, and `result`, `parents`,
`markersAfter`, `cleanAfter` (what the merge is confirmed by), or, when the merge did not
succeed, the catch clause: `unmerged`, `marker`, `abort`, `gone`, and two questions that are
asked at once (`restored`, `left`; `Answer`).  A head that was noted may be out of date when
the next command answers.  The call ends at `merged`, `conflict` or `deferred`, the outcome
that `Record` writes if the record is `Still` the one that was read; a record that a conflict
made unfinished again is `reopened` until it has ended otherwise.  `Create`,
`Reserve`, `Resume`, `Restarted` are the looks at the slot and the updates that
follow them.  `Dispose` aborts what is in flight; `Crash` forgets it and recovers.

Git is external: `git merge` is one step with the outcomes it may leave (nothing,
the merge commit, a conflict with `MERGE_HEAD`, a prepared merge that was killed, a
worktree that was killed half updated); `merge --abort` takes an unfinished merge
back, and fails only over edits of the human's.  A branch is the list of what was
committed or merged; nobody rewrites history, and a result that touches
controller-owned paths is refused without effect, so neither is in the model.  The
human edits, commits, switches branches, starts, concludes and gives up merges in
the target's worktree; `HumanRaces` is the set of those acts that also happen during an
integration, between any two of its commands, and the others wait until it has ended.

### ProjectLifecycle and ProjectStore

`ProjectLifecycle` is `lifecycle.ts`: the table of transitions, what a pause remembers
and where a resume goes.  `ProjectStore` is how the calls of the project controller
and the runtime get there.  A call waits in its process's queue
(`withStateMutationQueue`), takes the lock directory, reads, applies its transform,
writes a temporary file and renames it (`TakeLock` or `LockTimesOut`, `Apply`, `Commit`, `CommitFails`,
`Release`), appends to the activity log (`WriteLog`) and tells the observers; an
artifact is created and filled in two steps (`CreateTemplate`, `FillTemplate`) and
replaced by `WriteArtifact`.  A process may die between any two of these; `Reclaim`
frees a dead lock, as `FileLock` shows.  `disk.rev` counts the states that were made
from one another, `renames` all renames: they differ exactly if an update was lost.
A Worker's update is a call that tells its observers at once, and so does a read: `shown`
remembers whether what the observers saw came by an update, by a read, or by a read that a
change of phase on disk had `overtaken` when it was shown.  The templates that
`onSessionStart` writes before it takes any lock (`intentum-runtime.ts`, 102) are not a call
of their own; they only fill artifacts that are missing.

### SandboxCommand and SandboxMounts

`SandboxCommand` is `runSandboxedCommand`.  The shell leads a process group;
`helper` is another process of it, which may hold the pipes after the shell has
gone.  `Reads`, `Output`, `Exits`, `HelperExits` are what the group does; `StdinEnds`,
`Close`, `Timeout`, `Abort` are the events Node reports, each with everything its handler
does.  `Close` comes when the leader has exited and no process holds a pipe.

`SandboxMounts` walks the arguments of bubblewrap in their order over a small tree of
paths: directories that exist, are links or are missing on the host, three places of
the worktree, five of Node.  `Init` says which may be what: a system directory that holds
neither the worktree nor Node may be missing or a link, the worktree's `.intentum` missing, its
`.pi` a link; everything else is there, unless it is below one of these.
`EnsureControllerDirectories` and `Check` are the preparation and the refusals of
`createWorkerSandboxTools`; `Apply` is one argument, which covers what the earlier ones put below it or
fails.

### PanelView, Presentation and Surfaces

`PanelView` keeps the scroll position, the focus and the pending moves of the panel
and replaces its body by any other of `Bodies`; a body is its number of rows and the
rows of each control.  A row under a "more" line counts as hidden.  Every key, click and
wheel turn is an action; `Render` is the clamping that a frame does.

`Presentation` holds the tables: order, attention, next step and severity of
`presentation.ts`, the lines of the widget, the actions of the Worker pane, the
suggestions of `/intentum`, the launcher's own copy, and the layout's arithmetic.
`Surfaces` checks them against the manager's guards (`Accepts`) for every project of
three Workers.  The guards look at more than the state: whether a session is attached,
whether worktree, branch and commits are recorded and as recorded, whether the project is
trusted, whether an abort is under way (`Circumstances`).  No surface knows these, so
`MayBeRefused` names, action by action, the ones for which an offer may still be refused;
for every other reason an offer is kept.  `Suggested` is the table of the help, a third copy,
which takes the Workers in the order in which they were created.

### ControlCenter and ModelPicker

`db` is the newest state and `cur` the one the panel was told; `late` is a change that
is told after its log line.  `op` is the operation in progress and how far it is
(`dialog`, `call`, `ending`, `stopping`; `read`, `compare` for an inspection).  `RunAction`
begins it, `Answer` ends a dialog, `CallTakesEffect`, `Succeed`, `Fails`, `Leaves` are the
call of the runtime; `InspectReads` and `InspectEnds` read evidence and compare the
identity it was read for.  `HoldEnds`, `pulse` and `Render` are timers and frames.

In `ModelPicker` a pin is toggled on the screen and in a queue of writes; `PinWritten` and
`PinFails` end a write, `OtherWrites` is another process.  `flight` are the model changes
that Pi has not answered, each with the picker that asked (the answer to one that was closed
since, or replaced, changes nothing on the screen: `AskerIsOpen`), `busy` the flag that locks the
keys meanwhile.  `tainted` and `foreign` name the providers for which `PinsAreSaved` does not hold (section 5).  The models that
are listed are places in the catalogue, whose order the filter keeps; a provider's place in the
sorted list is the number of those that precede it, pinned before connected before the rest.

### TranscriptActivity

Pulses are numbered; `active` are those that have started and not stopped, `timers`
those whose interval is set, `row` what the working row shows, `rate` the blocks the
shown speed was averaged over.  `Thinks`, `Speaks`, `MessageEnds`, `Ends` are Pi's events;
`Frame` is a timer.  A tool call is registered when it is rendered without a
result and unregistered when it is rendered with one; `Settle` is `agent_end`.

### Launcher

`machine` is what the launcher finds: Node, Pi, the registration, a Git on PATH (`git`) and
one where the controller takes it from (`trusted`), the repository and its head, the sandbox,
the project.  `LocateAndSpawn` starts Pi or gives up, `InstallHandlers` follows the spawn;
`HandledSignal` is a SIGINT or SIGTERM while the launcher waits, which it survives;
`UnhandledSignal` is any other (SIGHUP, SIGQUIT, SIGKILL), or any before the handlers are
there: it ends the launcher, and `killed` remembers that it did.  `PiIsReaped` ends the launcher
with a code.  Pi is external.  A bound: no launcher is started beside a Pi that was left
behind.

## 3. Runs

Each run takes at most about three minutes.  `CHECK_DEADLOCK FALSE`
throughout: an idle lock, controller, shell or panel owes nothing, operators may stop
giving commands, and the counters that bound a run end it.

| run | question | bounds |
|---|---|---|
| `FileLockSafe` | exclusion, recorded lease, only the dead lose locks, and they do lose them | 3 processes; death anywhere, fairness |
| `FileLockGuardExpiry` | exclusion when reclaimers die | 4 processes; violated |
| `Controller` | who may act: one controller, disposal that ends and leaves nothing, one Worker in the slot beside those a conflict reopened, the human's merges | lease: 2 runtimes with 2 calls each, symmetric, 1 removal; slot: 2 Workers, 1 call, 2 attempts, merges may fail, 1 act of the human, who starts no merge during an integration |
| `WorkerOperators` | pause, steer, resume, project pause, a restart | 2 sessions, 3 commands, 1 commit, 1 crash |
| `WorkerAborts` | abort, resume, pause: one writer, verified completions, turns resolve | 3 sessions, 3 commands, fairness |
| `WorkerCrashes` | crashes and restarts, aborts and resumes, both gaps open: refinement | 3 sessions, 3 commands, 2 crashes |
| `LeaseForgotten` | the comment on a lost lease | violated |
| `IntegrationSafe` | integrated is merged, half merges are reported, calls end | 1 Worker, 2 calls, 2 attempts, 2 acts of the human between any git commands, branch switches excepted, 1 end of a session, fairness |
| `ConflictReopens` | the single unfinished Worker of the docs | violated |
| `Calls` | who waits: updates, commands, spinners; and the sandbox's mounts | store: 2 processes with 2 calls each, 2 calls in all, 1 death; command: 2 chunks of input, output cap 2, 4 chunks written; activity: 2 tool calls, 3 blocks, 2 themes; fairness |
| `Terminal` | what the human sees and starts | panel: 6 bodies, 3 heights; surfaces: 3 Workers in any of 11 statuses, 4 sizes; control center: 2 Workers, 2 events; picker: 2 providers, 3 models, 2 pins, 2 openings; launcher: 4 argument lists, one with two screen modes, 1 signal of 5 |
| `PickerPendingChange` | the comment on a pending model change | violated |

Why the bounds are enough.  Four processes are what the guard's race needs: one
that died with the lock, one that died with the guard, and two that race.  Three are one
that dies with the lock and two that reclaim it at once, or one after the other died; for
more the proof stands.  Three
commands allow abort-resume-abort, pause-steer-resume and resume-abort-resume;
three sessions allow a session to be replaced while its predecessor is still
stopping.  Where a resume may overtake a start, `OneWriter`, and where a pause or an instruction is
among the commands, the refinement, are left to the proofs.  One commit distinguishes the base commit from a result; a second
completion of the same attempt adds nothing that the commit number would tell
apart.  A crash may come anywhere, between a result and its record included, and a second
one during the recovery from the first.
`MaxSession` bounds the sessions of one process: when they are used up a create or a
resume waits at its construction.  Two runtimes are a session and its successor,
two calls one that waits for what another began; a runtime acquires the lease at
most once, because it never forgets a fulfilled promise, so `MaxLease` = 2 cuts
nothing off.  Two attempts are what an integration needs to find the record
changed under it; two acts of the human are enough to begin and to conclude, or to
edit and to commit, around each step of it.

Two calls of the store, of one process or of two, are what a lost update or a late
notice takes; with one death the lock is left to the other.  A command that is fed two chunks
can be cut off between them, and four chunks of output go over a cap of two.  Two
spinners are needed for one to stop while the other turns, three blocks of thinking
for an old timer beside two newer pulses.  The bodies of the panel are shorter and
longer than each height, with controls at both edges, on a shared row, over several rows and none
at all.  Three Workers are the least with which an order can be wrong and a
brief of three lines can leave one out after its heading.  Two events let an operation run while a Worker
moves, or an operation be asked for while another runs, on another Worker included; a late
notice, a Worker that moves and an inspection all at once take a third, which is left to the
proof of `CenterIsCurrent`.  Two toggles and two openings show
every interleaving of a failing write with a later one that the model allows to be
correct.  The paths of the mounts were chosen so that the toolchain lies above, inside, beside
and far from the worktree.

Fairness.  `FileLock`: a process inside a call goes on, and time passes; nobody has
to ask for a lock, release it or die.  `WorkerControl`: promises that were started
go on (create, the queue, the abort, callbacks, a session that was told to stop),
which is the JavaScript event loop; a turn that could end again and again ends at
last (strong fairness of `EndTurn`), which is the provider's doing and the weakest
assumption under which any turn ends, since a turn may call tools in between.
`Integration`: a call in flight goes on, since every Git command ends or is killed
by its timeout.  `ProjectStore`: a call that has begun goes on: the event loop, the file system and
the lock's deadline, after which a call that could not get the lock throws.
`SandboxCommand`: timers fire and Node reports what has happened; neither the shell nor
its group has to end by itself.  `TranscriptActivity`: the ticker ticks.  Operators, the
human, Pi and restarts get none.

## 4. Properties and proofs

FileLock.  `MutualExclusion` and `HolderIsRecorded` are proved for any set of
processes, from the assumption `ReclaimersMayDie = FALSE` (`ReclaimersSurvive`), and so is
`OnlyStaleIsReclaimed`; the types need no assumption.  The inductive invariant
says: whoever is past `mkdir` and alive is the maker of the lock that is there;
whoever holds it is also its recorded owner; the guard's maker is exactly the one
process that is in the guarded steps, so at most one process renames; and what a
reclaimer at `rename` is about to take still has a dead owner or maker.  Exclusion
alone is not inductive: a second `rename` after a fresh `mkdir` breaks it, and only
the guard together with the second look at the owner rules this out.

WorkerLifecycle.  `Coherent` (a disposition is pending exactly while verifying) is
what `assertProjectState` demands of every record; it is inductive together with
the type invariant, for any number of attempts (`LifecycleInvariant`).
`LifecycleMovesForward` follows from it step by step: `FinishedIsFinal` and
`OnlyFreshAttemptsRun`, joined in `MovesForward`.  Both are stated of the instance that
`WorkerControl` makes of the module, so that with `ImplementsLifecycle` they hold of its record as
well (`WorkerMovesForward`); no run checks them apart from that refinement.

WorkerControl.  Proved for any number of sessions, commits, commands and crashes, with any
set of commands, and whether or not Pi may refuse to stop (`AbortMayReject`) and a resume may
overtake a start (`ResumeInCreate`): `TypeOK`, `ImplementsLifecycle`,
`InstructionsAtLeastOnce`, and that one session at most runs or is told to stop
(`WorkerOneSession`).  The inductive invariant comes in parts.  `Types` gives every
field its set.  `Order` is about the queue: nothing is under way in a process that is down,
what waits has not begun, and an abort supersedes every resume.  `Life` is what the
refinement needs of each step beside the record (`LifeStep`): a completion that is being
verified is overtaken only by an abort or a restart, so what `Accept` and `Refuse` write
is a step of `WorkerLifecycle`; an abort found a Worker that had started; a result has a
status.  `WorkerMovesForward` carries what is proved of `WorkerLifecycle` over to this record.  `Turns` says that a handler of a settled turn belongs to a turn that is over and
whose prompt is settled, and that a session that is about to be attached never had a turn:
without it an `Acknowledge` could take instructions from the outbox that a later prompt
still carries.  With `PromptIsOutbox` (a resume writes the outbox it has read) that makes
`InstructionsAtLeastOnce` inductive.  `Writer` says who may run and why: a busy session is
attached, a stopping one failed, is aborted or makes room for that of a start, nobody is
busy while a resume or a retirement runs.  The steps that change neither sessions nor
record are dealt with once (`CalmKept`), the others one by one.

`OneWriter`, `VerifyingIsBacked`, `CompletedIsVerified` and `RestartKeepsDispositions` are proved under
the one assumption that their runs make, that Pi stops the sessions it is told to stop
(`~AbortMayReject`; section 5 has what happens otherwise); `ResumeInCreate` may be either.
The invariant is `Results`.  Its center is that a callback is executed only for a session
that runs (`CallsRun`), which makes one writer of one session: there is then one callback at most,
nobody else touches its result between the write and the update (`CallSays`), and none is left once
the Worker verifies (`VerifyingQuiet`).  A new attempt begins only when nobody runs
(`ResumeCalm`), because a session is told to stop only while its Worker runs, has failed
or is being aborted (`StopStatus`), and an abort in flight supersedes the resume.  While a
completion waits to be accepted its handler still has the last word (`TurnStays`), so
nobody can write to the worktree that was verified (`Accepting`).  `RecordWritten` says
once what a step may do to the record, `Changes` which steps change what.

`ActiveHasSession` and `PausedStartsNothing` say what is left when nothing is queued or in
flight; the invariant (`Progress`, in `WorkerProgressProofs`) says before that who will move an
active Worker on.  `Carried`: its start, a resume that is about to prompt, an abort that
has not begun to stop it, its session's turn, or the queued handler of that turn (`Tended`).
`PauseComes`: a Worker that works in a paused project is about to be asked to pause by
one of these or by a pause in its queue.  Each of them relies on more.  A start knows the current
session and is there as long as the record says so (`StartIsCurrent`, `StartIsThere`); a
resume that is being prepared, or a handler that retires a session, finds no active Worker
(`NobodyActive`); a resume that nothing superseded keeps its session, and one that was
superseded after its update has an abort behind it (`ResumeHolds`); the handler of the
current turn finds the status for which it chose its step (`HandlerFits`); a callback
keeps its session running (`CallsLive`).  TLC found all of them to hold on a run with two
sessions, three commands and a crash before they were proved.  What a step does to the
queue is said once (`QueueMoves`, `HeadKept`, `QueuedWorks`, `OpsKept`), and so is which
steps may make a record pending (`PendingWritten`).  The one assumption is that of their run: nobody
resumes a Worker while its start is in flight (`~ResumeInCreate`; it is what
`StartIsAlone` says, and without it `ActiveHasSession` fails, section 5).  `AbortMayReject` may be either.

Looking for the invariant of `OneWriter` and `WorkerOneSession` corrected the model: with two
sessions and the four commands abort, resume, abort, resume, an earlier `CreateFail` let other operations run between a
`markFailed` that was refused and the disposal of its session, and `OneWriter` failed.  The code
does not wait there (`worker-manager.ts`, 236-250 and 1406-1433); now `CreateFail` drops the session in
the same step, and only a `markFailed` that wrote leaves a gap (`CreateDrop`).

Integration.  Proved for any Workers, calls, attempts, acts of the human and ends of sessions, and
whether or not merges fail; of the human's acts during an integration `IntegratedIsMerged`
excludes switching the branch (`"switches" \notin HumanRaces`), `HumanMergeIsLeftAlone`
starting a merge (`"merges" \notin HumanRaces`), `HalfMergeIsReported` and `OneOccupant` none.
No step takes a commit out of the target (`Grows`: the model has no rewriting of history).  For
`IntegratedIsMerged` the target stays the current branch from the first command on
(`AtTarget`), so each head that a call notes was the target's when it was noted and is `Within`
it ever after (`Noted`): a call is at `merged` only if its commit is in the head it noted before
the merge or is a parent of the one it noted after it.  A record says integrated only because a
call at `merged` wrote it, for the commit the record still names (`Settles`).  What a half merge
is reported for follows from `call.commit` being a commit: it is then neither nothing nor the
human's; that the questions of the catch clause see it is `HalfKnown`.  With a human who starts no
merge meanwhile, a call past its look for `MERGE_HEAD` never faces one of the human's (`Alone`).
`OneOccupant` says of the slot what the code gives: a Worker that a conflict has reopened does not
count, and one that does was reserved while no other did, or is resumed by the one that stopped in
it (`InSlot`).  Section 5 has what happens when the excluded acts come, and the run in which the
reopened Worker breaks the unconditional statement.

ControllerLease.  `OneController` and `NobodyElsesLease` are proved for any number of
runtimes, calls, acquisitions and deletions.  Exclusion follows from three facts
about whoever operates: it has the fulfilled promise of a lease; as long as nobody deleted
the directory, that is the lease the directory names; and a lease names one
runtime.  None is inductive alone.  The invariant (`At`) is stated of one runtime at a
time: `OwnIs` says which leases its fields and calls may hold, `LifeIs` what a session
that is not there, or a disposal that has drained, leaves no room for, `HeldIs` what
holds until a deletion, for instance that a call looking at the lease looks at the
runtime's own.  A step of one runtime disturbs the others only through the directory,
and a release compares leases (`FreedKeeps`).  `NothingIsLeftHeld` (`DisposedHoldsNothing`) adds that the directory names a
live runtime only with the lease of its promise, and `LeaseTypesHold` that a promise knows a lease
exactly while it is settled with one, and that whoever waits, waits for a promise that is still to
be settled (`Promised`): `DisposeIsNeverStuck` builds on the latter.

Controller.  A step of it is one of the lease or one of the integrations (`ControllerParts`), so
all theorems of both modules hold of `ControllerSpec`; `ControllerTypes` states the types of both.

PanelView.  `KeepsItsPlace` is proved for any bodies, heights and sequences of keys.  The
invariant keeps, between frames, what the next frame will do with the position: that
the row of a chosen control is readable there, or that a pending move will bring it in.
The arithmetic of "more" lines is in `EnsuredIsReadable`: after `ensureControlVisible` the
row is readable from every position and at every height of three or more.

TranscriptActivity.  The three parts of `ActivityIsShown` are proved together (`ActivityShown`)
for any tool calls, themes and blocks of thinking.  The samples of the tracker outlive a block, so
`RateIsOfThisBlock` is not inductive alone: a pulse that is live has dropped those of earlier
blocks (`LiveRates`), and one that is not live shows no rate.

SandboxCommand.  `AnswersAreWhole` is proved for any input and cap: a
rejection and a resolution both come from `close` alone or from a spawn that failed, and
`close` excludes a process that still holds a pipe; the invariant ties what was
killed, reported and remembered (`stdinError`, `aborted`, `kept`) to what the result
says.

SandboxMounts.  `SandboxIsTight` is proved for every set of paths that is closed under parents
(`PathsAssumption`), every worktree, prefix of Node, toolchain and set of secrets, and whatever
of these links and holes the host has.  Each mount covers what earlier ones put below it, so all depends
on the order in which the arguments are applied (`OrderIs`): the invariant speaks of
what is left to mount.  Before the worktree is bound nothing can be written (`BeforeBind`);
what was mounted of the toolchain can be read unless the worktree covers it, which the
checks exclude (`ToolchainStays`); and once the worktree is bound, what can be written is the
worktree without the controller's directories that were covered since (`WorktreeIsBound`).
That two directories are either apart or one inside the other (`InsideIsNested`) is the
fact about paths on which the cases rest, `OutermostExists` the one induction, over the length of a
path.

Calls.  `CallsTypes`, `WholeAnswers`, `ActivityShown` and `TightSandbox` state the properties of the
run for `CallsSpec`: each step of it is a step or a stutter of each part (`CallsStep`).

ProjectStore.  All of its safety properties are proved, for any processes and calls, with a
project that begins in an active phase and moves that ask for one (`PhasesAssumption`: the
runtime makes a pause of a transition to `paused`).  Everything rests on `LockIsHeld`: a
call past the lock is the one the lock names, also after a process died with it, so that
nobody replaces `state.json` between a call's read and its rename.  Then what a call is about
to write is one update of what stands there (`ViewsAreFresh`), which gives `NoLostUpdate`
and the refinement: only `Commit` changes the project, by a step of `ProjectLifecycle`.
`CoherentProject` and the table of transitions (`TableIsFollowed`) follow for the project on
disk.  `ShownPhaseIsCurrent` excepts what a read shows that a change of phase has overtaken (section 5);
for the rest it needs the order of the log: each waiting call is in it
once (`LogIsOrdered`), and while no change is between its rename and the log, the last
entry that will tell the observers tells the phase on disk, or, when there is none, that
phase is shown already (`PhaseIsComing`).  A Worker's update overtakes the log without
harm because it does not change the phase.

ControlCenter.  `CenterIsCurrent` is proved for any Workers, operations and changes of the
project, with statuses a record may have.  `EvidenceOfShownAttempt` is the part that needs an
invariant: nothing in a project goes back, which `NotAfter` says of a Worker's attempt, of
how far it has come within it (`Rank`) and of its commit; what the panel shows, and every state
that is still to be told, is never newer than the project (`ToldAreOld`); and an answer
was read after the panel showed what it is compared with, so evidence is never older than
that (`EvidenceIsNew`).  The panel itself may go back: it may be told of an older state
after a newer one.  The types need one fact more: every project that is told lists each Worker once
(`ProjectsAreListed`), so that a selected row is a Worker.

ModelPicker.  `PinsAreSaved` is proved for any providers and pickers.  While writes wait, those
of one provider undo each other in turn: the first what is on disk, the last says what is
shown (`Alternate`).  A write that is carried out is the first of its provider, since a picker
writes in order and a provider an earlier picker still writes is set apart; one that
fails is the only one, or the provider is set apart too.  `ListIsOfActiveProvider` says that the
list is that of the provider that is marked, although every pin sorts the providers anew: sorting
by the number of predecessors is right because `Precedes` is a total order for any set of pins
(pinned, connected, then the order of the names), which gives every provider a place of its own, so
the index that is moved along with the marked provider still finds it (`ListInv`).  The theorem
assumes of the names what the module does (`NamesAssumption`): each provider is named once, `"all"`
and `"absent"` are none of them, and the first pins are of providers.

Launcher and Surfaces.  `PiIsNotOrphaned`, `CodeIsHonest` and `GitIsJudgedAlike`, joined in
`LaunchIsFaithful`, are proved for any arguments and any of the five signals, with the exceptions
their comments name: a signal that finds no handler, and a machine whose Git on PATH is not the
one at the trusted path.  `OfferedIsAccepted`, `SuggestedIsAccepted` and `PanelFits`,
joined in `OffersAreGood`, are proved for any Workers and sizes of the terminal; what an offer may
still be refused for is `MayBeRefused`, and for the size the rows and columns are
integers, so this is arithmetic and not a table.

Screen.  `ScreenTypes`, `PlaceIsKept`, `PanelOffersWhatIsTaken`, `CenterStaysCurrent`,
`PickerTellsTheTruth` and `PiIsWaitedFor` state the properties of the run for `ScreenSpec`, from
`ScreenInv`, which joins the invariants of the parts.

Model-checked only.  Of the safety properties, `SaidAsMeant`: what the surfaces say and the
arguments Pi is started with are lists that are selected from and joined (`SelectSeq`,
`FlattenSeq`), which are defined by recursion; a fact about them needs induction over data, which is
out of the prover's reach.  So are liveness under fairness (`DeadLockIsReclaimed`, `TurnsResolve`,
`IntegrationsEnd`, `CallsEnd`) and ENABLED (`DisposeIsNeverStuck`).  Every other property
that a passing run checks is a theorem, some under the assumptions that are named above.

`OneController` says nothing once the lease directory has been deleted from outside:
then two sessions may both believe in it, the second with a lease and the first
until it looks.  `HalfMergeIsReported` leaves out calls whose session ends;
`IntegratedIsMerged` is checked with a human who switches no branch during an integration,
`HumanMergeIsLeftAlone` with one who starts no merge during one; `OneOccupant` does not count a
Worker that a conflict has reopened.  Section 5 says why.

## 5. What goes wrong

Shown by the runs that fail:

- `FileLockGuardExpiry`: an old `.reclaim` guard is removed by path after a separate
  `stat`.  Two waiters may both find it old; the first removes it, the next
  process makes a fresh guard, the second waiter removes that one, and a further
  reclaimer enters.  The later of the two renames then takes away a lock that was
  acquired in between.  It takes a process that died inside the guarded section.
- `LeaseForgotten`: when the lease was lost, `ensureControllerLease` clears the handle
  but not the fulfilled promise it came from.  That call is refused; the next one
  awaits the old promise, installs the released lease and goes on without one,
  although the comment says to stop mutating.
- `PickerPendingChange`: a pin is toggled and a model chosen while the pin's write is in
  flight.  When that write fails, the host's `setError` (`model-picker-host.ts`, 92)
  clears `busy` (`model-picker.ts`, 153) although `setModel` is still in flight: Escape
  and Enter work again, against the comment at `model-picker.ts`, 157.
- `ConflictReopens`: a completed Worker does not occupy the slot, so another is created; then the
  first one's integration conflicts and blocks it (`worker-manager.ts`, 875).  Now two are
  unfinished, and if the other stops as well neither can be resumed, although
  `docs/IMPLEMENTATION_STATUS.md` (38, 54) has a single unfinished Worker.

Met while modelling, reachable in the modules with other constants or a stronger
property, and without a run of its own:

- A verifying Worker with an attached session accepts steering, because
  `isActiveWorkerStatus` includes `verifying`, while the comment in
  `worker-manager.ts` (476-477) says it is excluded.  The instruction is kept
  (`InstructionsAtLeastOnce` holds), but nothing will prompt with it unless the
  Worker is blocked and resumed.
- Abort a Worker whose session is being built, resume it after the start has
  attached its session and while the start's last update waits for the store: the
  resume reuses that session, its update is queued, the start's update is refused,
  and the start's error path marks the resumed attempt failed because the
  generation it knows is still current (`ResumeInCreate`).  When the error path comes before
  the resume's update, it disposes the session that the resume reuses; the update still
  writes `working`, the launch fails, and the record says working with no session:
  `ActiveHasSession` fails in twenty steps.
- With `AbortMayReject` a completion callback of the stopped attempt that is past its
  last check writes its result over that of the new attempt, and `VerifyingIsBacked`
  is lost.  It needs Pi to fail to stop a session.
- With `AbortMayReject`, `OneWriter` fails: the comment in `pi-worker-runtime.ts` (170-173) says that a
  session whose stop was asked for is quiescent before it is disposed, but when `session.abort()`
  rejects, the manager disposes it and forgets it all the same while its tool callback is at a
  `git commit`.  The operator resumes the Worker, and two sessions write to one worktree.
- With `"switches"` in `HumanRaces`, `IntegratedIsMerged` fails: HEAD and the current branch are read
  by separate commands (`integration-manager.ts`, 68/77 and 180-184).  The human switches to another
  branch after the check and back after HEAD was read: the result was merged into the other branch, and
  the record says integrated.
- A disposal that kills `git merge` while it updates the worktree leaves a half merge
  and a record that says completed: `signal.throwIfAborted()` comes before the look
  at the worktree (`integration-manager.ts`, 143).
- A merge the human starts between the checks and `git merge` is aborted by the
  cleanup, which takes any `MERGE_HEAD` for its own (`"merges"` in `HumanRaces`).
- A session whose start failed because another controller was alive keeps its
  runtime.  When the other process has died a command takes the lease, and neither
  reconciliation nor recovery runs before it.

Of the surfaces and the tools, kept out of the properties by a named exception or
simply not promised:

- An inspection asked for while another operation runs is dropped after the panel
  has noted it as loading (`control-panel-host.ts`, 243): the detail says so until the
  panel is opened again.
- The project's calls append to the activity log before they tell the observers, a Worker's
  update tells them at once; a slow append therefore shows an older state after a
  newer one until the next change (`ShownPhaseIsCurrent` is about the phase alone).
- A read of the state that waits while a phase changes shows the old phase when it ends, also after
  the change has been shown (`intentum-runtime.ts`, 109 and 201); the old phase then stays
  until the next change or read.  `ShownPhaseIsCurrent` excepts it as `overtaken`.
- Resume, integrate, steer and pause are offered by status alone.  A Worker that was aborted before its
  session had a worktree is offered a resume (`control-panel.ts`, 881-892), which fails it
  (`worker-manager.ts`, 558-578); one that is starting is offered steering before its session is
  attached (430, 493).  `MayBeRefused` lists all of these.
- SIGHUP (a closed terminal), SIGQUIT and SIGKILL, and any signal between the spawn and the handlers
  (`bin/intentum.mjs`, 683-684), end the launcher and leave Pi to itself.  `PiIsNotOrphaned` excepts them.
- A crash between the creation of an artifact and its content leaves it empty, and
  `writeIfMissing` (`project-store.ts`, 171) takes an empty file for a written one.
- Three quick toggles of one pin, the first write failing, leave the screen and the file
  apart, since the failure negates the toggle it belongs to and not what is shown; a picker
  that is opened again before the last picker's writes are done loads pins that are
  about to change.  `tainted` and `foreign` mark these providers.
- The wheel moves by three rows, a page by the height less one: at small heights both
  skip a row that a "more" line hides.
- `/intentum help` leaves blocked Workers out of what can be resumed, suggests a resume
  while the project is paused, and offers `/steer` while a Worker verifies (`commands.ts`, 360).
- A tool block that is rendered without its result after `agent_end` registers again and
  ticks until another turn ends; the comment at `live-ticker.ts`, 33, names a session's
  shutdown, at which nothing calls `settleLiveTools`.
- `inspectRepository` asks the `git` on PATH (`bin/intentum.mjs`, 332) and says that it judges as the
  controller will (328); the controller takes only `/usr/bin/git` or `/bin/git` (`utils/process.ts`, 54)
  and remembers a failure for the process.  `doctor` and the launch may find nothing wrong where no
  Worker can be created; `GitIsJudgedAlike` excepts it.
- An argument list with a second `--` moves the launcher's first message behind it.

## 6. Not modelled

- *Contracts and results*: validation of text fields and caps on sizes.  They refuse
  before anything changes, so a model would have an action that may also not happen.
- *Repository brief*, *Designer tools*, *tool renderers*, *session chrome and theme*:
  reading files into a prompt, schemas in front of the runtime's calls, and drawing.
  The one piece of state among them, the ticker of the spinners, is in `TranscriptActivity`.
- *Sandbox*: the seccomp program, the environment of the shell and the parsing of a
  tool's arguments; the model has the process and the mounts.
- *Launcher*: `update` and the texts of `help`.
- *Store*: the shapes `assertProjectState` refuses, beyond those of a pause and of a
  pending disposition; failing reads and corrupt files; for a Worker, an update that fails, which the
  settled handler swallows (`worker-manager.ts`, 1204), so that a record may stay active.
- *Worktrees*: identity and path checks are one condition, that the worktree is there.
- *Manager*: `dispose` and a new activation inside one process, `inspect`.
- *Pi*: construction of a session, choice of a model, compaction, network.

## 7. Plan

Done: `FileLock` (everything rests on it), `WorkerLifecycle` and `WorkerControl` (the core),
`ControllerLease` and `Integration`, then the project's phases over the store, the
sandbox, the surfaces and the launcher, and the proofs of section 4.

Left, in this order:

1. `SessionRecovery`: `ControllerLease` composed with the part of `WorkerControl` that
   starts, recovers and records, so that callbacks of a session that lost its lease
   and commands of one that never recovered are in one model.
2. `dispose` and re-activation of the manager in `WorkerControl`: operations in flight
   whose sessions come alive afterwards.
3. `ControlCenter` over `PanelView`: what a state that arrives during an operation does to
   the place the human reads.
4. Proofs: what is left is `SaidAsMeant`, which needs the order of the surfaces restated without
   selecting from lists, and the assumptions that some theorems share with their runs
   (`ReclaimersMayDie`, `AbortMayReject`, `ResumeInCreate`, `HumanRaces`), each of which
   section 5 shows to be needed by the code as it is.
