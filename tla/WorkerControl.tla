---------------------------- MODULE WorkerControl ----------------------------
(***************************************************************************)
(* One Worker under src/work/worker-manager.ts: its record and result file *)
(* on disk, the Pi sessions that run its turns, the operators that pause,  *)
(* steer, resume and abort it, and the crashes and restarts in between.    *)
(*                                                                         *)
(* An action is what happens between two awaits that matter.  store.update *)
(* is one step: updates queue up, so nothing else is written between its   *)
(* read and its write, nor between its write and the code that awaits it.  *)
(* An update whose updater throws changes nothing and the operation goes   *)
(* to its error path.                                                      *)
(*                                                                         *)
(* Generations: runtimeGenerations[worker] = g exactly for the newest      *)
(* session that was neither invalidated nor superseded; `live' is that     *)
(* session, 0 when there is none.  Sessions are numbered as they are made. *)
(***************************************************************************)
EXTENDS Naturals, Sequences, SequencesExt

CONSTANTS
    MaxSession,     \* sessions one process makes for this Worker
    MaxCommits,     \* commits on the Worker branch
    MaxCrashes,     \* crashes of the controller process
    MaxCommands,    \* operator commands
    Commands,       \* which: subset of {"pause", "steer", "resume", "abort", "project"}
    AbortMayReject, \* may session.abort() reject and leave a callback running?
    ResumeInCreate  \* may the operator resume while createAndStart is in flight?

ASSUME BoundsAreSane ==
    /\ MaxSession \in Nat \ {0}
    /\ {MaxCommits, MaxCrashes, MaxCommands} \subseteq Nat
    /\ Commands \subseteq {"pause", "steer", "resume", "abort", "project"}
    /\ AbortMayReject \in BOOLEAN
    /\ ResumeInCreate \in BOOLEAN

VARIABLES
    \* durable
    rec,        \* the WorkerRecord in state.json
    result,     \* runs/<worker>/result.json
    paused,     \* phase = "paused", which assertProjectState ties to schedulerPaused
    head,       \* the Worker branch: commits after the base commit
    dirty,      \* the worktree has uncommitted changes
    disk,       \* the worktree exists
    \* in memory
    mode,       \* "down"; "recover" between the two passes of a restart; "up"
    live,       \* the session whose generation is current
    managed,    \* runtimes.get(worker): the attached session and its turn
    sess,       \* the Pi sessions
    cb,         \* the tool callback each session is executing
    queue,      \* the Worker's operation queue; its head is running
    create,     \* the createAndStart in flight
    abort,      \* the emergency abort in flight
    pausing,    \* pauseProject has written `paused', pauseActive is to follow
    \* history and bounds
    accepted,   \* instructions the operator was told are queued
    settled,    \* instructions that were in the prompt of a turn that settled
    commands,   \* operator commands so far
    crashes     \* crashes so far

durable  == <<rec, result, paused, head, dirty, disk>>
sessions == <<live, managed, sess, cb>>
control  == <<queue, create, abort, pausing>>
history  == <<accepted, settled>>
bounds   == <<commands, crashes>>
vars == <<durable, mode, sessions, control, history, bounds>>

Session == 1..MaxSession

Finished       == {"completed", "failed", "integrated"}
Resumable      == {"paused", "interrupted", "blocked"}
RunningOrVerifying == {"working", "pause_requested", "verifying"}   \* mutant: isActiveWorkerStatus
Running        == {"working", "pause_requested"}
ActiveStatuses == {"starting", "working", "pause_requested", "verifying"}
Unfinished(s)  == s \notin Finished \cup {"none"}
AbortableAny(s) == s # "none"     \* mutant: the status is not checked
Abortable(s)   == s \in ActiveStatuses \cup Resumable

NoRuntime  == [s |-> 0, turn |-> 0, attempt |-> 0, instr |-> <<>>]
NoResult   == [attempt |-> 0, status |-> "none", commit |-> 0]
NoCallback == [step |-> "none", status |-> "none", attempt |-> 0, commit |-> 0]
Idle       == [step |-> "idle", s |-> 0]

Init ==
    /\ rec = [status |-> "none", attempt |-> 0, pending |-> "none", instr |-> <<>>, commit |-> 0]
    /\ result = NoResult
    /\ paused = FALSE /\ head = 0 /\ dirty = FALSE /\ disk = FALSE
    /\ mode = "up"
    /\ live = 0 /\ managed = NoRuntime
    /\ sess = [s \in Session |-> "none"]
    /\ cb = [s \in Session |-> NoCallback]
    /\ queue = <<>> /\ create = Idle /\ abort = Idle /\ pausing = FALSE
    /\ accepted = {} /\ settled = {}
    /\ commands = 0 /\ crashes = 0

-----------------------------------------------------------------------------
(* Helpers *)

\* The status changes and nothing else.
Move(status) == rec' = [rec EXCEPT !.status = status]

\* The status changes and a pending disposition is deleted with it.
Become(status) == rec' = [rec EXCEPT !.status = status, !.pending = "none"]

\* An operation of the queue: what it is, where it stands, and what it holds.
Op(kind) == [kind |-> kind, step |-> "start", s |-> 0, turn |-> 0, fail |-> FALSE,
             msg |-> 0, stale |-> FALSE, made |-> FALSE, seen |-> "none", commit |-> 0, instr |-> <<>>]
op == Head(queue)
At(step) == mode = "up" /\ queue # <<>> /\ op.step = step
Step(step) == queue' = <<[op EXCEPT !.step = step]>> \o Tail(queue)
Done == queue' = Tail(queue)

\* Between a resume's update and the launch of its prompt no other update runs.
StoreFree == ~(queue # <<>> /\ op.step = "launch")

\* Mutant: a handler that took the turn's number before it was counted.
EarlierTurn(s, turn) == live = s /\ managed.s = s /\ managed.turn + 1 = turn

\* isCurrentRuntimeTurn(s, turn)
CurrentTurn(s, turn) == live = s /\ managed.s = s /\ managed.turn = turn

\* invalidateRuntimeGeneration(s)
Invalidate(s) == live' = IF live = s THEN 0 ELSE live

\* A disposed session that still runs a turn is stopped first.
Disposed(s) == [sess EXCEPT ![s] = IF @ \in {"busy", "stopping"} THEN "stopping" ELSE "gone"]

\* disposeRuntime(s) and, for a runtime that never got attached, dispose().
Dispose(s) ==
    /\ sess' = Disposed(s)
    /\ managed' = IF managed.s = s THEN NoRuntime ELSE managed

\* nextRuntimeGeneration and the start of the factory's promise.
Fresh == CHOOSE s \in Session : sess[s] = "none" /\ \A t \in 1..(s - 1) : sess[t] # "none"
CanMakeSession == \E s \in Session : sess[s] = "none"
MakeSession ==
    /\ CanMakeSession
    /\ live' = Fresh
    /\ sess' = [sess EXCEPT ![Fresh] = "building"]

\* What a session's turn puts in the queue: settled, and a rejected prompt.
Settled(s, turn, fail) == [Op("settled") EXCEPT !.s = s, !.turn = turn, !.fail = fail]
Rejected(s, turn) ==
    [Op("rejected") EXCEPT !.s = s, !.turn = turn, !.fail = TRUE, !.step = "settle"]

\* launchPrompt: a new turn, with the instructions the prompt carries.
Launched(instr) ==
    [managed EXCEPT !.turn = @ + 1, !.attempt = rec'.attempt, !.instr = instr]

-----------------------------------------------------------------------------
(* createAndStart *)

\* The first checks: the project is not paused and no Worker is unfinished.
CreateRequest ==
    /\ mode = "up" /\ create = Idle
    /\ rec.status = "none" /\ ~paused
    /\ create' = [step |-> "reserve", s |-> 0]
    /\ UNCHANGED <<durable, mode, sessions, queue, abort, pausing, history, bounds>>

CreateAt(step) == mode = "up" /\ create.step = step
CreateTo(step) == create' = [create EXCEPT !.step = step]

\* The reservation; a project paused meanwhile ends it without a trace.
CreateReserve ==
    /\ CreateAt("reserve") /\ StoreFree
    /\ \/ /\ ~paused
          /\ rec' = [rec EXCEPT !.status = "queued", !.attempt = 1]
          /\ CreateTo("start")
       \/ /\ paused
          /\ CreateTo("idle")
          /\ UNCHANGED rec
    /\ UNCHANGED <<result, paused, head, dirty, disk, mode, sessions, queue, abort, pausing, history, bounds>>

\* The contract is saved and the record moves to `starting'.
CreateStart ==
    /\ CreateAt("start") /\ StoreFree
    /\ \/ /\ ~paused /\ rec.status = "queued"
          /\ Move("starting")
          /\ CreateTo("plan")
       \/ CreateTo("fail") /\ UNCHANGED rec
    /\ UNCHANGED <<result, paused, head, dirty, disk, mode, sessions, queue, abort, pausing, history, bounds>>

\* onPlanned records the worktree's identity, only while still `starting'.
CreatePlan ==
    /\ CreateAt("plan") /\ StoreFree
    /\ \/ rec.status = "starting" /\ CreateTo("addTree")
       \/ CreateTo("fail")
    /\ UNCHANGED <<durable, mode, sessions, queue, abort, pausing, history, bounds>>

\* git worktree add: the worktree appears ...
CreateAddTree ==
    /\ CreateAt("addTree")
    /\ disk' = TRUE
    /\ CreateTo("open")
    /\ UNCHANGED <<rec, result, paused, head, dirty, mode, sessions, queue, abort, pausing, history, bounds>>

\* ... and fails before or after that, and is cleaned up, if that works ...
CreateAddTreeFails ==
    /\ CreateAt("addTree") \/ CreateAt("open")
    /\ disk' \in {disk, FALSE}
    /\ CreateTo("fail")
    /\ UNCHANGED <<rec, result, paused, head, dirty, mode, sessions, queue, abort, pausing, history, bounds>>

\* ... or is checked out, and a session is made for it.
CreateOpen ==
    /\ CreateAt("open")
    /\ MakeSession
    /\ create' = [step |-> "build", s |-> Fresh]
    /\ UNCHANGED <<durable, mode, managed, cb, queue, abort, pausing, history, bounds>>

\* The factory is done: attachRuntime, or dispose a session that is superseded.
\* A session that is already attached is unsubscribed and stopped first.
CreateBuilt ==
    /\ CreateAt("build")
    /\ \/ /\ live = create.s /\ managed.s = 0
          /\ sess' = [sess EXCEPT ![create.s] = "idle"]
          /\ managed' = [NoRuntime EXCEPT !.s = create.s]
          /\ CreateTo("begin")
       \/ /\ live = create.s /\ managed.s # 0
          /\ sess' = [Disposed(managed.s) EXCEPT ![create.s] = "idle"]
          /\ CreateTo("swap")
          /\ UNCHANGED managed
       \/ /\ sess' = [sess EXCEPT ![create.s] = "gone"]     \* superseded, or the factory failed
          /\ CreateTo("fail")
          /\ UNCHANGED managed
    /\ UNCHANGED <<durable, mode, live, cb, queue, abort, pausing, history, bounds>>

CreateSwap ==
    /\ CreateAt("swap")
    /\ managed.s # 0 => sess[managed.s] = "gone"
    /\ managed' = [NoRuntime EXCEPT !.s = create.s]
    /\ CreateTo("begin")
    /\ UNCHANGED <<durable, mode, live, sess, cb, queue, abort, pausing, history, bounds>>

\* The last update and, without a yield, the first prompt.
CreateBegin ==
    /\ CreateAt("begin") /\ StoreFree
    /\ \/ /\ ~paused /\ rec.status = "starting" /\ managed.s = create.s
          /\ Move("working")
          /\ managed' = Launched(<<>>)
          /\ sess' = [sess EXCEPT ![create.s] = "busy"]
          /\ create' = Idle
       \/ /\ paused \/ rec.status # "starting"
          /\ CreateTo("fail")
          /\ UNCHANGED <<rec, managed, sess>>
    /\ UNCHANGED <<result, paused, head, dirty, disk, mode, live, cb, queue, abort, pausing, history, bounds>>

\* The error path: markFailed, if the session it knows is still current, and then
\* that session is invalidated and disposed.  Only the note in the activity log
\* that follows a failure lets others run in between.
CreateDropped ==
    /\ IF create.s = 0 THEN UNCHANGED <<live, managed, sess>>
       ELSE Invalidate(create.s) /\ Dispose(create.s)
    /\ create' = Idle

CreateFail ==
    /\ CreateAt("fail") /\ StoreFree
    /\ IF /\ create.s = 0 \/ live = create.s
          /\ rec.status \in {"queued"} \cup ActiveStatuses
       THEN Become("failed") /\ CreateTo("drop") /\ UNCHANGED <<live, managed, sess>>
       ELSE CreateDropped /\ UNCHANGED rec
    /\ UNCHANGED <<result, paused, head, dirty, disk, mode, cb, queue, abort, pausing, history, bounds>>

CreateDrop ==
    /\ CreateAt("drop")
    /\ CreateDropped
    /\ UNCHANGED <<durable, mode, cb, queue, abort, pausing, history, bounds>>

-----------------------------------------------------------------------------
(* The operators' commands.  pause, steer and resume wait their turn in the *)
(* Worker's queue; abort does not.                                          *)

Command(c) == mode = "up" /\ c \in Commands /\ commands < MaxCommands /\ commands' = commands + 1
Enqueue(o) == queue' = Append(queue, o)

PauseRequest ==
    /\ Command("pause") /\ rec.status # "none"
    /\ Enqueue(Op("pause"))
    /\ UNCHANGED <<durable, mode, sessions, create, abort, pausing, history, crashes>>

\* Mutant: an empty message is not refused.
SteerRequestEmpty ==
    /\ Command("steer") /\ rec.status # "none"
    /\ Enqueue(Op("steer"))
    /\ UNCHANGED <<durable, mode, sessions, create, abort, pausing, history, crashes>>

\* A steering message is not empty.
SteerRequest ==
    /\ Command("steer") /\ rec.status # "none"
    /\ Enqueue([Op("steer") EXCEPT !.msg = commands'])
    /\ UNCHANGED <<durable, mode, sessions, create, abort, pausing, history, crashes>>

\* resume, with or without a message; refused while an abort is in flight.
ResumeRequest ==
    /\ Command("resume") /\ rec.status # "none"
    /\ abort = Idle
    /\ create = Idle \/ ResumeInCreate
    /\ \E msg \in {0, commands'} : Enqueue([Op("resume") EXCEPT !.msg = msg])
    /\ UNCHANGED <<durable, mode, sessions, create, abort, pausing, history, crashes>>

\* requestPauseUnlocked; a verifying, paused or pause_requested Worker is left
\* alone, any other refuses.  The steering message itself changes no state.
Pause ==
    /\ At("start") /\ op.kind = "pause" /\ StoreFree
    /\ IF rec.status \in {"queued", "starting"} \/ (rec.status = "working" /\ managed.s # 0)
       THEN Move("pause_requested") ELSE UNCHANGED rec
    /\ Done
    /\ UNCHANGED <<result, paused, head, dirty, disk, mode, sessions, create, abort, pausing, history, bounds>>

\* steerUnlocked: the instruction is durable before the session hears of it.
SteerAccepts ==
    \/ rec.status \in {"pause_requested"} \cup Resumable
    \/ rec.status \in ActiveStatuses /\ managed.s # 0
Steer ==
    /\ At("start") /\ op.kind = "steer" /\ StoreFree
    /\ IF SteerAccepts
       THEN /\ rec' = [rec EXCEPT !.instr = Append(@, op.msg)]
            /\ accepted' = accepted \cup {op.msg}
       ELSE UNCHANGED <<rec, accepted>>
    /\ Done
    /\ UNCHANGED <<result, paused, head, dirty, disk, mode, sessions, create, abort, pausing, settled, bounds>>

-----------------------------------------------------------------------------
(* resume *)

ResumeAt(step) == At(step) /\ op.kind = "resume"
MayResumeAnyPhase == ~op.stale /\ rec.status \in Resumable     \* mutant: paused or not
MayResume == ~op.stale /\ ~paused /\ rec.status \in Resumable

\* The first checks of resumeUnlocked.
ResumeStart ==
    /\ ResumeAt("start")
    /\ IF MayResume /\ abort = Idle THEN Step("resources") ELSE Done
    /\ UNCHANGED <<durable, mode, sessions, create, abort, pausing, history, bounds>>

\* The worktree's identity is checked; failUnrecoverableWorker if it is lost.
ResumeResources ==
    /\ ResumeAt("resources") /\ StoreFree
    /\ \/ /\ disk
          /\ IF op.stale THEN Done ELSE Step("open")
          /\ UNCHANGED rec
       \/ /\ IF rec.status \in Resumable THEN Move("failed") ELSE UNCHANGED rec
          /\ Done
    /\ UNCHANGED <<result, paused, head, dirty, disk, mode, sessions, create, abort, pausing, history, bounds>>

\* The attached session is used again, or one is restored or created.
ResumeOpen ==
    /\ ResumeAt("open")
    /\ \/ /\ managed.s # 0
          /\ queue' = <<[op EXCEPT !.step = "latest", !.s = managed.s]>> \o Tail(queue)
          /\ UNCHANGED <<live, sess>>
       \/ /\ managed.s = 0
          /\ MakeSession
          /\ queue' = <<[op EXCEPT !.step = "build", !.s = Fresh, !.made = TRUE]>> \o Tail(queue)
    /\ UNCHANGED <<durable, mode, managed, cb, create, abort, pausing, history, bounds>>

\* The error path; a session that was attached before this resume stays.
ResumeFails ==
    /\ IF op.made THEN Invalidate(op.s) /\ Dispose(op.s) ELSE UNCHANGED <<live, managed, sess>>
    /\ Done

ResumeBuilt ==
    /\ ResumeAt("build")
    /\ \/ /\ ~op.stale /\ live = op.s /\ managed.s = 0
          /\ sess' = [sess EXCEPT ![op.s] = "idle"]
          /\ managed' = [NoRuntime EXCEPT !.s = op.s]
          /\ Step("latest")
          /\ UNCHANGED live
       \/ /\ ~op.stale /\ live = op.s /\ managed.s # 0
          /\ sess' = [Disposed(managed.s) EXCEPT ![op.s] = "idle"]
          /\ Step("swap")
          /\ UNCHANGED <<live, managed>>
       \/ ResumeFails       \* superseded by an abort or a session, or the factory failed
    /\ UNCHANGED <<durable, mode, cb, create, abort, pausing, history, bounds>>

ResumeSwap ==
    /\ ResumeAt("swap")
    /\ managed.s # 0 => sess[managed.s] = "gone"
    /\ managed' = [NoRuntime EXCEPT !.s = op.s]
    /\ Step("latest")
    /\ UNCHANGED <<durable, mode, live, sess, cb, create, abort, pausing, history, bounds>>

\* The checks are made again, and the instructions are read that the prompt will carry.
ResumeLatest ==
    /\ ResumeAt("latest")
    /\ IF MayResume /\ live = op.s
       THEN /\ queue' = <<[op EXCEPT !.step = "update",
                                     !.instr = IF op.msg = 0 THEN rec.instr
                                               ELSE Append(rec.instr, op.msg)]>> \o Tail(queue)
            /\ UNCHANGED <<live, managed, sess>>
       ELSE ResumeFails
    /\ UNCHANGED <<durable, mode, cb, create, abort, pausing, history, bounds>>

\* The update: a new attempt is working.
ResumeUpdate ==
    /\ ResumeAt("update")
    /\ IF MayResume
       THEN /\ rec' = [rec EXCEPT !.status = "working", !.attempt = @ + 1,
                                  !.instr = op.instr, !.commit = 0]
            /\ accepted' = IF op.msg = 0 THEN accepted ELSE accepted \cup {op.msg}
            /\ Step("launch")
            /\ UNCHANGED <<live, managed, sess>>
       ELSE ResumeFails /\ UNCHANGED <<rec, accepted>>
    /\ UNCHANGED <<result, paused, head, dirty, disk, mode, cb, create, abort, pausing, settled, bounds>>

\* The prompt, unless an abort came since or the runtime is another one; Pi
\* rejects the prompt of a session that is busy.
ResumeLaunch ==
    /\ ResumeAt("launch")
    /\ IF op.stale \/ managed.s # op.s THEN ResumeFails
       ELSE /\ managed' = [managed EXCEPT !.turn = @ + 1, !.attempt = rec.attempt, !.instr = op.instr]
            /\ IF sess[op.s] = "idle"
               THEN sess' = [sess EXCEPT ![op.s] = "busy"] /\ Done
               ELSE /\ queue' = Append(Tail(queue), Rejected(op.s, managed'.turn))
                    /\ UNCHANGED sess
            /\ UNCHANGED live
    /\ UNCHANGED <<durable, mode, cb, create, abort, pausing, history, bounds>>

-----------------------------------------------------------------------------
(* abort *)

\* One abort at a time: a second call gets the first one's promise.  It supersedes
\* every resume asked for before it.
AbortRequest ==
    /\ Command("abort") /\ rec.status # "none"
    /\ abort = Idle
    /\ abort' = [step |-> "read", s |-> 0]
    /\ queue' = [i \in DOMAIN queue |-> [queue[i] EXCEPT !.stale = queue[i].kind = "resume"]]
    /\ UNCHANGED <<durable, mode, sessions, create, pausing, history, crashes>>

AbortAt(step) == mode = "up" /\ abort.step = step

AbortRead ==
    /\ AbortAt("read")
    /\ abort' = IF Abortable(rec.status) THEN [step |-> "interrupt", s |-> 0] ELSE Idle
    /\ UNCHANGED <<durable, mode, sessions, queue, create, pausing, history, bounds>>

\* Without a session the record is interrupted; with one, its generation is
\* invalidated at once and the session is told to stop.
AbortInterrupt ==
    /\ AbortAt("interrupt") /\ StoreFree
    /\ \/ /\ managed.s = 0
          /\ IF Unfinished(rec.status) THEN Become("interrupted") ELSE UNCHANGED rec
          /\ abort' = Idle
          /\ UNCHANGED <<live, sess>>
       \/ /\ managed.s # 0 /\ Abortable(rec.status)
          /\ Become("interrupted")
          /\ Invalidate(managed.s)
          /\ sess' = Disposed(managed.s)
          /\ abort' = [step |-> "stop", s |-> managed.s]
       \/ /\ managed.s # 0 /\ ~Abortable(rec.status)
          /\ abort' = Idle
          /\ UNCHANGED <<rec, live, sess>>
    /\ UNCHANGED <<result, paused, head, dirty, disk, mode, managed, cb, queue, create, pausing, history, bounds>>

\* Mutant: session.abort() is not awaited.
AbortStopAtOnce ==
    /\ AbortAt("stop")
    /\ managed' = IF managed.s = abort.s THEN NoRuntime ELSE managed
    /\ abort' = Idle
    /\ UNCHANGED <<durable, mode, live, sess, cb, queue, create, pausing, history, bounds>>

\* session.abort() returned, or rejected and the session was disposed by force.
AbortStop ==
    /\ AbortAt("stop")
    /\ sess[abort.s] = "gone"
    /\ managed' = IF managed.s = abort.s THEN NoRuntime ELSE managed
    /\ abort' = Idle
    /\ UNCHANGED <<durable, mode, live, sess, cb, queue, create, pausing, history, bounds>>

-----------------------------------------------------------------------------
(* Pausing and resuming the project *)

PauseProject ==
    /\ Command("project") /\ StoreFree
    /\ ~pausing
    /\ paused' = TRUE
    /\ pausing' = TRUE
    /\ UNCHANGED <<rec, result, head, dirty, disk, mode, sessions, queue, create, abort, history, crashes>>

\* pauseActive asks a Worker that is active and has a session to pause.
PauseActive ==
    /\ mode = "up" /\ pausing
    /\ pausing' = FALSE
    /\ IF rec.status \in ActiveStatuses /\ managed.s # 0
       THEN Enqueue(Op("pause")) ELSE UNCHANGED queue
    /\ UNCHANGED <<durable, mode, sessions, create, abort, history, bounds>>

ResumeProject ==
    /\ Command("project") /\ StoreFree
    /\ paused
    /\ paused' = FALSE
    /\ UNCHANGED <<rec, result, head, dirty, disk, mode, sessions, control, history, crashes>>

-----------------------------------------------------------------------------
(* The sessions: a turn writes, calls tools one after another, and ends. *)

Idling(s) == cb[s].step = "none"

\* The worktree gets changes, or loses them again.
Write(s) ==
    /\ sess[s] \in {"busy", "stopping"} /\ Idling(s)
    /\ dirty' = ~dirty
    /\ UNCHANGED <<rec, result, paused, head, disk, mode, sessions, control, history, bounds>>

\* The turn ends.  Pi says that it settled, having failed or not, and then
\* rejects the prompt, or not; or it only rejects the prompt.
EndTurn(s) ==
    /\ sess[s] = "busy" /\ Idling(s)
    /\ managed.s = s
    /\ sess' = [sess EXCEPT ![s] = "idle"]
    /\ \/ /\ \E fail \in BOOLEAN, events \in {<<>>, <<Rejected(s, managed.turn)>>} :
             /\ events # <<>> => fail
             /\ queue' = queue \o <<Settled(s, managed.turn, fail)>> \o events
          /\ settled' = settled \cup Range(managed.instr)
       \/ /\ Enqueue(Rejected(s, managed.turn))
          /\ UNCHANGED settled
    /\ UNCHANGED <<durable, mode, live, managed, cb, create, abort, pausing, accepted, bounds>>

\* A session told to stop waits for the tool it executes; or Pi fails to stop
\* it, it is disposed all the same and the tool goes on.
StopSession(s) ==
    /\ sess[s] = "stopping"
    /\ Idling(s) \/ AbortMayReject
    /\ sess' = [sess EXCEPT ![s] = "gone"]
    /\ UNCHANGED <<durable, mode, live, managed, cb, control, history, bounds>>

-----------------------------------------------------------------------------
(* The settled handler and handlePromptRejected.  The handler never fails:   *)
(* what its updates refuse is a turn or a status that is no longer current.  *)

SettledAt(step) == At(step) /\ op.kind \in {"settled", "rejected"}
OpTurn == CurrentTurn(op.s, op.turn)
TrimmedAll(instr, n) == <<>>     \* mutant: the outbox is emptied
Trimmed(instr, n) == SubSeq(instr, n + 1, Len(instr))

\* acknowledgeDeliveredInstructions
Acknowledge ==
    /\ SettledAt("start") /\ StoreFree
    /\ rec' = IF OpTurn /\ rec.attempt = managed.attempt /\ IsPrefix(managed.instr, rec.instr)
              THEN [rec EXCEPT !.instr = Trimmed(@, Len(managed.instr))]
              ELSE rec
    /\ Step("settle")
    /\ UNCHANGED <<result, paused, head, dirty, disk, mode, sessions, create, abort, pausing, history, bounds>>

\* onSettled and handlePromptRejected read the record and choose.
Settle ==
    /\ SettledAt("settle")
    /\ \/ /\ OpTurn /\ rec.status = "verifying"
          /\ queue' = <<[op EXCEPT !.seen = rec.pending, !.commit = rec.commit,
                                   !.step = IF rec.pending = "completed" THEN "verify" ELSE "publish"]>>
                      \o Tail(queue)
       \/ OpTurn /\ rec.status \in {"queued", "starting"} \cup Running /\ op.fail /\ Step("fail")
       \/ OpTurn /\ rec.status \in Running /\ ~op.fail /\ Step("block")
       \/ /\ ~OpTurn \/ rec.status \in Resumable \cup Finished
             \/ (~op.fail /\ rec.status \in {"queued", "starting"})
          /\ Done
    /\ UNCHANGED <<durable, mode, sessions, create, abort, pausing, history, bounds>>

\* markFailed; a session that failed is retired.
SettleFail ==
    /\ SettledAt("fail") /\ StoreFree
    /\ IF OpTurn /\ rec.status \in {"queued"} \cup ActiveStatuses
       THEN Become("failed") /\ Step("retire")
       ELSE UNCHANGED rec /\ Done
    /\ UNCHANGED <<result, paused, head, dirty, disk, mode, sessions, create, abort, pausing, history, bounds>>

\* Mutant: a turn that was asked to pause is forgotten.
BlockWorking ==
    /\ SettledAt("block") /\ StoreFree
    /\ IF OpTurn /\ rec.status = "working" THEN Move("blocked") ELSE UNCHANGED rec
    /\ Done
    /\ UNCHANGED <<result, paused, head, dirty, disk, mode, sessions, create, abort, pausing, history, bounds>>

\* A turn that ended without a disposition blocks the Worker.
BlockUnsettled ==
    /\ SettledAt("block") /\ StoreFree
    /\ IF OpTurn /\ rec.status \in Running THEN Move("blocked") ELSE UNCHANGED rec
    /\ Done
    /\ UNCHANGED <<result, paused, head, dirty, disk, mode, sessions, create, abort, pausing, history, bounds>>

\* A disposition other than completion is published as it was submitted.
Publish ==
    /\ SettledAt("publish") /\ StoreFree
    /\ IF OpTurn /\ rec.status = "verifying" /\ rec.pending = op.seen
       THEN /\ Become(op.seen)
            /\ IF op.seen = "failed" THEN Step("retire") ELSE Done
       ELSE UNCHANGED rec /\ Done
    /\ UNCHANGED <<result, paused, head, dirty, disk, mode, sessions, create, abort, pausing, history, bounds>>

\* Mutant: uncommitted changes are overlooked.
CommittedTree(commit) == disk /\ head > 0 /\ head = commit

\* Is the worktree clean, with commits, and its HEAD this commit?
CompletedTree(commit) == disk /\ ~dirty /\ head > 0 /\ head = commit

\* A completion is verified in Git once more, now that the session is idle.
Verify ==
    /\ SettledAt("verify")
    /\ queue' = <<[op EXCEPT !.step = IF CompletedTree(op.commit) THEN "accept" ELSE "refuse"]>>
                \o Tail(queue)
    /\ UNCHANGED <<durable, mode, sessions, create, abort, pausing, history, bounds>>

Accept ==
    /\ SettledAt("accept") /\ StoreFree
    /\ IF OpTurn /\ rec.status = "verifying" /\ rec.commit = op.commit
       THEN Become("completed") /\ Step("retire")
       ELSE UNCHANGED rec /\ Step("refuse")
    /\ UNCHANGED <<result, paused, head, dirty, disk, mode, sessions, create, abort, pausing, history, bounds>>

Refuse ==
    /\ SettledAt("refuse") /\ StoreFree
    /\ IF OpTurn /\ rec.status = "verifying" THEN Become("blocked") ELSE UNCHANGED rec
    /\ Done
    /\ UNCHANGED <<result, paused, head, dirty, disk, mode, sessions, create, abort, pausing, history, bounds>>

\* retireRuntime
Retire ==
    /\ SettledAt("retire")
    /\ Invalidate(op.s)
    /\ Dispose(op.s)
    /\ Done
    /\ UNCHANGED <<durable, mode, cb, create, abort, pausing, history, bounds>>

-----------------------------------------------------------------------------
(* The tool callbacks.  A call checks that its session is current, reads the *)
(* record, and checks again in its last update; session.abort() sets the     *)
(* signal that the call checks in between.                                   *)

MayCall(s) == sess[s] = "busy" /\ Idling(s) /\ live = s /\ rec.status \in Running
CallAt(s, step) == mode = "up" /\ cb[s].step = step
CallTo(s, step) == cb' = [cb EXCEPT ![s].step = step]
CallEnds(s) == cb' = [cb EXCEPT ![s] = NoCallback]
Signalled(s) == sess[s] # "busy"

\* onCommit, up to the call of Git.
CommitBegin(s) ==
    /\ MayCall(s)
    /\ CallTo(s, "commit")
    /\ UNCHANGED <<durable, mode, live, managed, sess, control, history, bounds>>

\* git commit, or its failure; what the record gets from it is a summary.
Commit(s) ==
    /\ CallAt(s, "commit")
    /\ CallEnds(s)
    /\ \/ /\ dirty /\ head < MaxCommits
          /\ dirty' = FALSE
          /\ head' = head + 1
       \/ UNCHANGED <<dirty, head>>
    /\ UNCHANGED <<rec, result, paused, disk, mode, live, managed, sess, control, history, bounds>>

\* onProgress with state "paused".
ProgressPaused(s) ==
    /\ MayCall(s) /\ StoreFree
    /\ rec.status = "pause_requested"
    /\ rec' = [rec EXCEPT !.status = "verifying", !.pending = "paused"]
    /\ UNCHANGED <<result, paused, head, dirty, disk, mode, sessions, control, history, bounds>>

\* onEscalation
Escalate(s) ==
    /\ MayCall(s) /\ StoreFree
    /\ rec' = [rec EXCEPT !.status = "verifying", !.pending = "blocked"]
    /\ UNCHANGED <<result, paused, head, dirty, disk, mode, sessions, control, history, bounds>>

\* onComplete
CompleteBegin(s) ==
    /\ MayCall(s)
    /\ \E d \in {"completed", "failed", "blocked"} :
           cb' = [cb EXCEPT ![s] = [step |-> IF d = "completed" THEN "verify" ELSE "write",
                                    status |-> d, attempt |-> rec.attempt, commit |-> 0]]
    /\ UNCHANGED <<durable, mode, live, managed, sess, control, history, bounds>>

\* Only clean worktrees with commits are complete.
CompleteVerify(s) ==
    /\ CallAt(s, "verify")
    /\ IF CompletedTree(head)
       THEN cb' = [cb EXCEPT ![s].step = "write", ![s].commit = head]
       ELSE CallEnds(s)
    /\ UNCHANGED <<durable, mode, live, managed, sess, control, history, bounds>>

\* The result is durable before the record says so ...
CompleteWrite(s) ==
    /\ CallAt(s, "write")
    /\ IF live = s /\ ~Signalled(s)
       THEN CallTo(s, "written")
       ELSE CallEnds(s)
    /\ UNCHANGED <<durable, mode, live, managed, sess, control, history, bounds>>

CompleteWritten(s) ==
    /\ CallAt(s, "written")
    /\ result' = [attempt |-> cb[s].attempt, status |-> cb[s].status, commit |-> cb[s].commit]
    /\ CallTo(s, IF Signalled(s) THEN "clean" ELSE "update")
    /\ UNCHANGED <<rec, paused, head, dirty, disk, mode, live, managed, sess, control, history, bounds>>

\* ... and removed again when the record no longer takes it.
CompleteUpdate(s) ==
    /\ CallAt(s, "update") /\ StoreFree
    /\ IF live = s /\ rec.status \in Running
       THEN /\ rec' = [rec EXCEPT !.status = "verifying", !.pending = cb[s].status,
                                  !.commit = IF cb[s].commit = 0 THEN @ ELSE cb[s].commit]
            /\ CallEnds(s)
       ELSE CallTo(s, "clean") /\ UNCHANGED rec
    /\ UNCHANGED <<result, paused, head, dirty, disk, mode, live, managed, sess, control, history, bounds>>

CompleteClean(s) ==
    /\ CallAt(s, "clean")
    /\ result' = IF result.attempt = cb[s].attempt THEN NoResult ELSE result
    /\ CallEnds(s)
    /\ UNCHANGED <<rec, paused, head, dirty, disk, mode, live, managed, sess, control, history, bounds>>

-----------------------------------------------------------------------------
(* Crash and restart *)

\* The process ends anywhere; its worktree may be gone when it starts again.
Crash ==
    /\ mode # "down" /\ crashes < MaxCrashes
    /\ crashes' = crashes + 1
    /\ mode' = "down"
    /\ live' = 0 /\ managed' = NoRuntime
    /\ sess' = [s \in Session |-> "none"]
    /\ cb' = [s \in Session |-> NoCallback]
    /\ queue' = <<>> /\ create' = Idle /\ abort' = Idle /\ pausing' = FALSE
    /\ disk' \in {disk, FALSE}
    /\ UNCHANGED <<rec, result, paused, head, dirty, history, commands>>

\* reconcilePendingResults, the first pass of session_start.
ResultOfAttempt == result # NoResult /\ result.attempt = rec.attempt
\* Mutant: every result has to be that of a completed worktree.
ResultStandsInGit == rec.pending \in {"none", result.status} /\ CompletedTree(result.commit)
ResultStands ==
    /\ rec.pending \in {"none", result.status}
    /\ result.status = "completed" => CompletedTree(result.commit)

Reconcile ==
    /\ mode = "down"
    /\ mode' = "recover"
    /\ \/ /\ rec.status \in Running \cup {"verifying"}
          /\ \/ /\ rec.pending = "paused"
                /\ Become("paused")
             \/ /\ rec.pending # "paused" /\ ResultOfAttempt /\ ResultStands
                /\ rec' = [rec EXCEPT !.status = result.status, !.pending = "none",
                                      !.commit = IF result.commit = 0 THEN @ ELSE result.commit]
             \/ /\ rec.pending # "paused" /\ ResultOfAttempt /\ ~ResultStands
                /\ Become("blocked")
             \/ /\ rec.status = "verifying" /\ rec.pending # "paused" /\ ~ResultOfAttempt
                /\ Become("blocked")
             \/ /\ rec.status \in Running /\ ~ResultOfAttempt
                /\ UNCHANGED rec
       \/ /\ rec.status \notin Running \cup {"verifying"}
          /\ UNCHANGED rec
    /\ UNCHANGED <<result, paused, head, dirty, disk, sessions, control, history, bounds>>

\* recoverInterruptedWork, the second: nothing runs that the record says runs.
Recover ==
    /\ mode = "recover"
    /\ mode' = "up"
    /\ \/ /\ Unfinished(rec.status) /\ (rec.status = "queued" \/ ~disk)
          /\ Become("failed")
       \/ /\ rec.status \in ActiveStatuses /\ disk
          /\ Become("interrupted")
       \/ /\ ~Unfinished(rec.status) \/ (disk /\ rec.status \in Resumable)
          /\ UNCHANGED rec
    /\ UNCHANGED <<result, paused, head, dirty, disk, sessions, control, history, bounds>>

-----------------------------------------------------------------------------

Creating ==
    \/ CreateReserve \/ CreateStart \/ CreatePlan \/ CreateAddTree
    \/ CreateAddTreeFails \/ CreateOpen \/ CreateBuilt \/ CreateSwap \/ CreateBegin
    \/ CreateFail \/ CreateDrop
Operating ==
    \/ CreateRequest \/ PauseRequest \/ SteerRequest \/ ResumeRequest \/ AbortRequest
    \/ PauseProject \/ ResumeProject
Queued ==
    \/ Pause \/ Steer
    \/ ResumeStart \/ ResumeResources \/ ResumeOpen \/ ResumeBuilt \/ ResumeSwap
    \/ ResumeLatest \/ ResumeUpdate \/ ResumeLaunch
    \/ Acknowledge \/ Settle \/ SettleFail \/ BlockUnsettled \/ Publish
    \/ Verify \/ Accept \/ Refuse \/ Retire
Aborting == AbortRead \/ AbortInterrupt \/ AbortStop
Calling(s) == CommitBegin(s) \/ ProgressPaused(s) \/ Escalate(s) \/ CompleteBegin(s)
Called(s) ==
    \/ Commit(s)
    \/ CompleteVerify(s) \/ CompleteWrite(s) \/ CompleteWritten(s)
    \/ CompleteUpdate(s) \/ CompleteClean(s)
Restarting == Reconcile \/ Recover

Next ==
    \/ Creating \/ Operating \/ Queued \/ Aborting \/ PauseActive
    \/ \E s \in Session : Write(s) \/ EndTurn(s) \/ StopSession(s) \/ Calling(s) \/ Called(s)
    \/ Crash \/ Restarting

Spec == Init /\ [][Next]_vars

\* What is started goes on: an operation, a callback, a session that was told
\* to stop; and a turn that could end again and again ends at last.  The
\* operators, and a process that restarts, owe nothing.
Fairness ==
    /\ WF_vars(Creating) /\ WF_vars(Queued) /\ WF_vars(Aborting) /\ WF_vars(PauseActive)
    /\ \A s \in Session :
          WF_vars(StopSession(s)) /\ WF_vars(Called(s)) /\ SF_vars(EndTurn(s))

FairSpec == Spec /\ Fairness

-----------------------------------------------------------------------------
(* Properties *)

Statuses == {"none", "queued", "starting", "verifying"} \cup Running \cup Resumable \cup Finished

OpSteps == {"start", "resources", "open", "build", "swap", "latest", "update", "launch",
            "settle", "fail", "block", "publish", "verify", "accept", "refuse", "retire"}

\* The shape of the state.
TypeOK ==
    /\ rec \in [status : Statuses, attempt : Nat, instr : Seq(1..MaxCommands),
                pending : {"none", "paused", "blocked", "completed", "failed"}, commit : 0..MaxCommits]
    /\ result \in [attempt : Nat, status : {"none", "completed", "failed", "blocked"},
                   commit : 0..MaxCommits]
    /\ {paused, dirty, disk, pausing} \subseteq BOOLEAN
    /\ head \in 0..MaxCommits
    /\ mode \in {"down", "recover", "up"}
    /\ {live, managed.s, create.s, abort.s} \subseteq 0..MaxSession
    /\ sess \in [Session -> {"none", "building", "idle", "busy", "stopping", "gone"}]
    /\ queue \in Seq([kind : {"pause", "steer", "resume", "settled", "rejected"}, step : OpSteps,
                      s : 0..MaxSession, turn : Nat, fail : BOOLEAN, msg : 0..MaxCommands,
                      stale : BOOLEAN, made : BOOLEAN, commit : 0..MaxCommits,
                      seen : {"none", "paused", "blocked", "completed", "failed"},
                      instr : Seq(1..MaxCommands)])

\* A session may change the worktree and its branch while it runs a turn, also when
\* it is being stopped, and while a git commit of its is in flight, even when the
\* session itself is gone.
Writing(s) == sess[s] \in {"busy", "stopping"} \/ cb[s].step = "commit"

\* A worktree has one writer: no two sessions of the Worker may change it at once,
\* however resumes, aborts and a start still in flight replace one another.
OneWriter == \A s, t \in Session : Writing(s) /\ Writing(t) => s = t

\* While a completed or failed disposition waits for its session to settle, the
\* durable result is that attempt's and says the same, so that a crash in this
\* window loses nothing.
VerifyingIsBacked ==
    rec.status = "verifying" /\ rec.pending \in {"completed", "failed"} =>
        /\ result.attempt = rec.attempt
        /\ result.status = rec.pending
        /\ rec.pending = "completed" => result.commit = rec.commit

\* A completed Worker is what was verified: its result is durable, its branch
\* stands at the commit of the result, nothing is uncommitted and no session is
\* left that could change that.
CompletedIsVerified ==
    rec.status = "completed" =>
        /\ result = [attempt |-> rec.attempt, status |-> "completed", commit |-> rec.commit]
        /\ rec.commit > 0 /\ head = rec.commit /\ ~dirty
        /\ \A s \in Session : sess[s] \notin {"busy", "stopping"}

\* Steering is delivered at least once: an instruction that was accepted is in
\* the durable outbox until a turn whose prompt carried it has settled, through
\* pauses, resumes, aborts and crashes.
InstructionsAtLeastOnce ==
    accepted \subseteq Range(rec.instr) \cup settled

\* Nothing is left to run but a session's own turn.
Quiet ==
    /\ mode = "up"
    /\ queue = <<>> /\ create = Idle /\ abort = Idle /\ ~pausing
    /\ \A s \in Session : Idling(s) /\ sess[s] # "stopping"

\* An active Worker is never abandoned: when no operation is left to move it,
\* the session whose turn will is running, attached and current.
ActiveHasSession ==
    Quiet /\ rec.status \in ActiveStatuses =>
        managed.s # 0 /\ live = managed.s /\ sess[live] = "busy"

\* A paused project starts nothing: what is left of it once everything queued is
\* done is a turn that has been asked to pause or has handed in its disposition.
PausedStartsNothing ==
    Quiet /\ paused => rec.status \notin {"queued", "starting", "working"}

\* The record lives the life that WorkerLifecycle promises.
Lifecycle == INSTANCE WorkerLifecycle
    WITH status <- rec.status, attempt <- rec.attempt, pending <- rec.pending
ImplementsLifecycle == Lifecycle!Spec

\* A restart publishes the disposition that was waiting for the session: only a
\* completion whose worktree changed since is blocked for review instead.
RestartKeepsDispositions ==
    [][mode = "down" /\ mode' = "recover" /\ rec.status = "verifying" =>
          \/ rec'.status = rec.pending
          \/ rec.pending = "completed" /\ ~CompletedTree(rec.commit) /\ rec'.status = "blocked"]_vars

\* Every turn is resolved: an active Worker is not active for ever.
TurnsResolve ==
    rec.status \in ActiveStatuses ~> rec.status \notin ActiveStatuses \/ mode # "up"

=============================================================================
