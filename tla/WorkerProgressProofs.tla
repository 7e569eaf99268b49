------------------------ MODULE WorkerProgressProofs ------------------------
(***************************************************************************)
(* No Worker is abandoned: ActiveHasSession and PausedStartsNothing of     *)
(* WorkerControl, under the one assumption that nobody resumes a Worker    *)
(* while its start is still in flight (~ResumeInCreate).                   *)
(*                                                                         *)
(* Both say what is left when nothing is queued or in flight any more.     *)
(* The invariant says before that who will move an active Worker on: the   *)
(* start, the resume that is about to prompt, the abort, its session's     *)
(* turn, or the handler of that turn (Carried).  What each of them may     *)
(* rely on is in the conjuncts before it.                                  *)
(***************************************************************************)
EXTENDS WorkerControlProofs

Pending == ActiveStatuses \cup {"queued"}
InStart == {"start", "plan", "addTree", "open", "build", "swap", "begin", "fail"}
InAbort == {"read", "interrupt"}

\* A callback belongs to a session that was made, and the current session's runs.
CallsLive ==
    \A s \in Session : ~Idling(s) => sess[s] # "none" /\ (live = s => sess[s] = "busy")

\* A session that an abort stops is no longer the current one.
AbortLeaves == abort.step = "stop" => abort.s # live /\ abort.s \in Session /\ sess[abort.s] # "none"

\* A start knows the current session, runs before any resume is asked for, and is there as
\* long as the record says so.
StartIsCurrent ==
    /\ create.step = "reserve" => create.s = 0
    /\ create.s # 0 /\ rec.status \in Pending => live = create.s
StartIsAlone   == \A o \in Range(queue) : o.kind = "resume" => create = Idle /\ rec.status # "none"
StartIsThere   == mode = "up" /\ rec.status \in {"queued", "starting"} => create.step \in InStart

\* A resume that has begun, and a handler that retires a session, find no active Worker.
Preparing == Resuming(ResumeSteps \ {"start", "launch"}) \/ Settling({"retire"})
NobodyActive == Preparing => rec.status \notin Pending

\* A resume that nothing has superseded keeps its session attached and current, and one
\* that was superseded after its update has an abort behind it that has not begun.
ResumeHolds ==
    /\ Resuming({"latest", "update", "launch"}) /\ ~op.stale => managed.s = op.s
    /\ Resuming({"update", "launch"}) /\ ~op.stale => live = op.s
    /\ Resuming({"launch"}) /\ op.stale => abort.step \in InAbort

\* The handler of the current turn finds the status for which it chose its step.
HandlersLate == \A o \in Range(queue) : o.kind \in SettledKind => rec.status \notin NotBegun
HandlerFits ==
    OpTurn /\ rec.status \in ActiveStatuses =>
        /\ Settling({"publish"}) => rec.status = "verifying" /\ rec.pending = op.seen
        /\ Settling({"verify", "accept", "refuse"}) => rec.status = "verifying"
        /\ Settling({"block"}) => rec.status \in Running

\* Who moves an active Worker on.
Handles(o) == o.kind \in SettledKind /\ o.s = live /\ o.turn = managed.turn
Tended ==
    /\ live # 0 /\ managed.s = live
    /\ sess[live] = "busy" \/ \E o \in Range(queue) : Handles(o)
Carried ==
    mode = "up" /\ rec.status \in Running \cup {"verifying"} =>
        create.step \in InStart \/ Resuming({"launch"}) \/ abort.step \in InAbort \/ Tended

\* Who asks the Worker of a paused project to pause.
PauseComes ==
    mode = "up" /\ paused /\ rec.status = "working" =>
        \/ pausing \/ create.step \in InStart \/ abort.step \in InAbort
        \/ \E o \in Range(queue) : o.kind = "pause"

Control == Types /\ Order /\ Life /\ Turns /\ Writer
Progress ==
    /\ CallsLive /\ AbortLeaves
    /\ StartIsCurrent /\ StartIsAlone /\ StartIsThere
    /\ NobodyActive /\ ResumeHolds /\ HandlersLate /\ HandlerFits
    /\ Carried /\ PauseComes

-----------------------------------------------------------------------------
(* What a step does *)

\* A session that was made stays made, and never becomes the current one again.
LEMMA MadeOnce ==
  ASSUME Types, [Next]_vars, ~Crash, NEW s \in Session, sess[s] # "none"
  PROVE  sess'[s] # "none" /\ (live' = s => live = s)
<1> DEFINE G == sess'[s] # "none" /\ (live' = s => live = s)
<1>0. s # 0
  BY BoundsAreSane DEF Session
<1>1. ASSUME sess' = sess, live' = live PROVE G
  BY <1>1
<1>2. ASSUME MakeSession PROVE G
  BY <1>2, Makes
<1>3. ASSUME NEW t, Drops(t) PROVE G
  BY <1>0, <1>3 DEF Drops, Stops
<1>4. ASSUME queue # <<>>, op.s \in Session, ResumeFails PROVE G
  BY <1>1, <1>3, <1>4, ResumeFailed
<1>5. CASE CreateOpen \/ ResumeOpen
  BY <1>5, <1>1, <1>2 DEF CreateOpen, ResumeOpen
<1>6. CASE CreateBuilt
  <2>1. CASE s = create.s
    BY <1>6, <2>1, CreateBuilds
  <2>2. CASE s # create.s /\ s = managed.s
    BY <1>0, <1>6, <2>2, CreateBuilds
  <2>3. CASE s # create.s /\ s # managed.s
    BY <1>6, <2>3, CreateBuilds
  <2> QED
    BY <2>1, <2>2, <2>3
<1>7. CASE CreateBegin
  BY <1>7 DEF CreateBegin, Types
<1>8. CASE CreateFail \/ CreateDrop
  <2>1. UNCHANGED <<live, sess>> \/ (create.s # 0 /\ Invalidate(create.s) /\ Dispose(create.s))
    BY <1>8 DEF CreateFail, CreateDrop, CreateDropped
  <2>2. create.s # 0 => create.s \in Session
    BY BoundsAreSane DEF Types, CreateType, Session
  <2> QED
    BY <2>1, <2>2, <1>1, <1>3, Dropped
<1>9. CASE ResumeBuilt
  <2>1. CASE ResumeFails
    BY <1>4, <1>9, <2>1, ResumeBuilds
  <2>2. CASE ~ResumeFails
    <3>1. CASE s = op.s
      BY <1>9, <2>2, <3>1, ResumeBuilds
    <3>2. CASE s # op.s /\ s = managed.s
      BY <1>0, <1>9, <2>2, <3>2, ResumeBuilds
    <3>3. CASE s # op.s /\ s # managed.s
      BY <1>9, <2>2, <3>3, ResumeBuilds
    <3> QED
      BY <3>1, <3>2, <3>3
  <2> QED
    BY <2>1, <2>2
<1>10. CASE ResumeLatest \/ ResumeUpdate
  <2>1. queue # <<>> /\ op.s \in Session
    BY <1>10, AtResume DEF ResumeLatest, ResumeUpdate, ResumeSteps
  <2> QED
    BY <1>10, <2>1, <1>1, <1>4 DEF ResumeLatest, ResumeUpdate
<1>11. CASE ResumeLaunch
  <2>1. queue # <<>> /\ op.s \in Session
    BY <1>11, AtResume DEF ResumeLaunch, ResumeSteps
  <2>2. CASE live' = live /\ (sess' = sess \/ sess' = [sess EXCEPT ![op.s] = "busy"])
    BY <2>2 DEF Types
  <2> QED
    BY <1>11, <2>1, <2>2, <1>4, Launches
<1>12. CASE AbortInterrupt
  <2>1. CASE UNCHANGED <<live, sess>>
    BY <2>1, <1>1
  <2>2. CASE Stops(managed.s) /\ (live' = live \/ live' = 0)
    BY <1>0, <2>2 DEF Stops
  <2> QED
    BY <1>12, <2>1, <2>2, Interrupts
<1>13. CASE Retire
  BY <1>13, <1>3, AtSettled, Dropped DEF Retire
<1>14. ASSUME NEW t \in Session, EndTurn(t) \/ StopSession(t) PROVE G
  <2>1. live' = live /\ (sess' = [sess EXCEPT ![t] = "idle"] \/ sess' = [sess EXCEPT ![t] = "gone"])
    BY <1>14 DEF EndTurn, StopSession
  <2> QED
    BY <2>1 DEF Types
<1> QED
  BY <1>1, <1>5, <1>6, <1>7, <1>8, <1>9, <1>10, <1>11, <1>12, <1>13, <1>14, Changes DEF SessionSteps

\* While a session is current its turn ends only by itself or by an abort.
LEMMA LiveRuns ==
  ASSUME Types, Turns, Writer, [Next]_vars, NEW s \in Session, sess[s] = "busy", live = s,
         live' = s
  PROVE  sess'[s] = "busy" \/ EndTurn(s)
<1> DEFINE G == sess'[s] = "busy" \/ EndTurn(s)
<1>0. s # 0 /\ managed.s = s
  BY BoundsAreSane DEF Session, Writer, BusyAttached
<1>1. ASSUME sess' = sess PROVE G
  BY <1>1
<1>2. ASSUME MakeSession PROVE G
  BY <1>2, Makes
<1>3. ASSUME NEW t, Drops(t) PROVE G
  BY <1>3 DEF Drops, Stops
<1>4. ASSUME queue # <<>>, op.s \in Session, ResumeFails PROVE G
  BY <1>1, <1>3, <1>4, ResumeFailed
<1>5. CASE CreateOpen \/ ResumeOpen
  BY <1>5, <1>1, <1>2 DEF CreateOpen, ResumeOpen
<1>6. CASE CreateBuilt
  <2>1. create.s # managed.s
    BY <1>6, CreateBuilds DEF Turns, CreatingNew, NewSteps, Unused
  <2> QED
    BY <1>0, <1>6, <2>1, CreateBuilds
<1>7. CASE CreateBegin
  BY <1>7 DEF CreateBegin, Types
<1>8. CASE CreateFail \/ CreateDrop
  <2>1. sess' = sess \/ (create.s # 0 /\ Invalidate(create.s) /\ Dispose(create.s))
    BY <1>8 DEF CreateFail, CreateDrop, CreateDropped
  <2>2. create.s # 0 => create.s \in Session
    BY BoundsAreSane DEF Types, CreateType, Session
  <2> QED
    BY <2>1, <2>2, <1>1, <1>3, Dropped
<1>9. CASE ResumeBuilt \/ ResumeLatest \/ ResumeUpdate \/ ResumeLaunch
  <2>1. queue # <<>> /\ op.kind = "resume" /\ op.step \in {"build", "latest", "update", "launch"}
    BY <1>9, AtResume DEF ResumeBuilt, ResumeLatest, ResumeUpdate, ResumeLaunch, ResumeSteps
  <2> QED
    BY <2>1 DEF Writer, NobodyBusy, Idles, Resumes, Resuming, ResumeSteps
<1>10. CASE AbortInterrupt
  <2>1. CASE live' # managed.s
    BY <1>0, <2>1
  <2> QED
    BY <1>1, <1>10, <2>1, Interrupts
<1>11. CASE Retire
  BY <1>11, <1>3, AtSettled, Dropped DEF Retire
<1>12. ASSUME NEW t \in Session, EndTurn(t) \/ StopSession(t) PROVE G
  <2>1. StopSession(t) => sess[t] = "stopping"
    BY DEF StopSession
  <2>2. sess' = [sess EXCEPT ![t] = "idle"] \/ sess' = [sess EXCEPT ![t] = "gone"]
    BY <1>12 DEF EndTurn, StopSession
  <2> QED
    BY <1>12, <2>1, <2>2 DEF Types
<1>13. CASE Crash
  BY <1>0, <1>13 DEF Crash
<1> QED
  BY <1>1, <1>5, <1>6, <1>7, <1>8, <1>9, <1>10, <1>11, <1>12, <1>13, Changes DEF SessionSteps

\* Callbacks stay those of sessions that were made, and the current session's runs.
LEMMA CallsLiveStep ==
  ASSUME Types, Turns, Writer, CallsLive, [Next]_vars
  PROVE  CallsLive'
<1> SUFFICES ASSUME NEW s \in Session, ~Idling(s)'
             PROVE  sess'[s] # "none" /\ (live' = s => sess'[s] = "busy")
  BY DEF CallsLive
<1>1. ~Crash
  BY CrashQuiet
<1>2. CASE ~Idling(s)
  <2>1. sess[s] # "none" /\ ~EndTurn(s)
    BY <1>2 DEF CallsLive, EndTurn
  <2> QED
    BY <1>1, <1>2, <2>1, MadeOnce, LiveRuns DEF CallsLive
<1>3. CASE Idling(s)
  <2>1. PICK t \in Session : CommitBegin(t) \/ CompleteBegin(t) \/ Called(t)
    BY <1>1, <1>3, Changes DEF CallbackSteps, Idling
  <2>2. sess' = sess /\ MayCall(s)
    BY <1>3, <2>1, CallbackStep DEF Idling
  <2> QED
    BY <2>2 DEF MayCall
<1> QED
  BY <1>2, <1>3

\* What an abort stops stays behind.
LEMMA AbortLeavesStep ==
  ASSUME Types, Turns, AbortLeaves, [Next]_vars
  PROVE  AbortLeaves'
<1>1. CASE AbortInterrupt
  BY <1>1, Interrupts DEF AbortLeaves, Idle, Stops
<1>2. CASE abort'.step # "stop"
  BY <1>2 DEF AbortLeaves
<1>3. CASE abort' = abort /\ ~Crash
  BY <1>3, MadeOnce DEF AbortLeaves
<1>4. AbortRequest \/ AbortRead => abort'.step # "stop"
  BY DEF AbortRequest, AbortRead, Idle
<1>5. AbortStop \/ Crash => abort' = Idle
  BY DEF AbortStop, Crash
<1> QED
  BY <1>1, <1>2, <1>3, <1>4, <1>5, Changes DEF AbortSteps, Idle

\* What writes an active status: from which one, and with which disposition pending.
PendingBy ==
    \/ rec.status \in Pending /\ rec'.status = rec.status /\ rec'.pending = rec.pending
    \/ Submits /\ rec.status \in Running /\ rec'.status = "verifying"
    \/ Pause /\ rec'.status = "pause_requested"
       /\ (rec.status \in {"queued", "starting"} \/ (rec.status = "working" /\ managed.s # 0))
    \/ CreateReserve /\ rec'.status = "queued" /\ ~paused
    \/ CreateStart /\ rec.status = "queued" /\ rec'.status = "starting"
    \/ CreateBegin /\ rec.status = "starting" /\ rec'.status = "working" /\ ~paused
    \/ ResumeUpdate /\ MayResume /\ rec'.status = "working"

\* The record becomes, or stays, active by such a step only.
LEMMA PendingWritten ==
  ASSUME Types, [Next]_vars, rec'.status \in Pending
  PROVE  PendingBy
<1> USE DEF Pending, ActiveStatuses
<1> DEFINE G == PendingBy
<1>0. rec \in RecType /\ rec.pending \notin Pending
  BY DEF Types, RecType, PendingSet
<1>1. ASSUME rec' = rec PROVE G
  BY <1>1 DEF PendingBy
<1>2. ASSUME NEW v, Move(v) \/ Become(v), v \notin Pending PROVE FALSE
  BY <1>2, Moves, Becomes
<1>3. ASSUME NEW v, rec' = [rec EXCEPT !.instr = v] PROVE G
  BY <1>0, <1>3 DEF RecType, PendingBy
<1>4. CASE CreateReserve
  BY <1>0, <1>1, <1>4 DEF CreateReserve, RecType, PendingBy
<1>5. CASE CreateStart
  BY <1>1, <1>5, Moves DEF CreateStart, PendingBy
<1>6. CASE CreateBegin
  BY <1>1, <1>6, Moves DEF CreateBegin, PendingBy
<1>7. CASE CreateFail \/ SettleFail
  <2>1. Become("failed") \/ rec' = rec
    BY <1>7 DEF CreateFail, SettleFail
  <2> QED
    BY <2>1, <1>1, <1>2
<1>8. CASE Pause
  BY <1>1, <1>8, Moves DEF Pause, PendingBy
<1>9. CASE Steer \/ Acknowledge
  <2>1. rec' = rec \/ \E v : rec' = [rec EXCEPT !.instr = v]
    BY <1>9 DEF Steer, Acknowledge
  <2> QED
    BY <2>1, <1>1, <1>3
<1>10. CASE ResumeResources
  BY <1>1, <1>2, <1>10 DEF ResumeResources
<1>11. CASE ResumeUpdate
  <2>1. rec' = rec \/ (MayResume /\ rec' = [rec EXCEPT !.status = "working", !.attempt = @ + 1,
                                            !.instr = op.instr, !.commit = 0])
    BY <1>11 DEF ResumeUpdate
  <2>2. CASE MayResume /\ rec' = [rec EXCEPT !.status = "working", !.attempt = @ + 1,
                                            !.instr = op.instr, !.commit = 0]
    <3>1. rec'.status = "working"
      BY <1>0, <2>2 DEF RecType
    <3> QED
      BY <1>11, <2>2, <3>1 DEF PendingBy
  <2> QED
    BY <2>1, <2>2, <1>1
<1>12. CASE AbortInterrupt
  BY <1>1, <1>2, <1>12 DEF AbortInterrupt
<1>13. CASE BlockUnsettled \/ Accept \/ Refuse
  <2>1. rec' = rec \/ Move("blocked") \/ Become("completed") \/ Become("blocked")
    BY <1>13 DEF BlockUnsettled, Accept, Refuse
  <2> QED
    BY <2>1, <1>1, <1>2
<1>14. CASE Publish
  <2>1. rec' = rec \/ Become(rec.pending)
    BY <1>14 DEF Publish
  <2> QED
    BY <2>1, <1>0, <1>1, <1>2
<1>15. ASSUME NEW s \in Session, ProgressPaused(s) \/ Escalate(s) \/ CompleteUpdate(s) PROVE G
  <2>1. CASE rec' = rec
    BY <2>1, <1>1
  <2>2. CASE rec' # rec
    <3>1. Submits /\ rec.status \in Running
      BY <1>15, <2>2 DEF Submits, ProgressPaused, Escalate, MayCall, CompleteUpdate, Running
    <3>2. rec'.status = "verifying"
      BY <1>0, <1>15, <2>2 DEF ProgressPaused, Escalate, CompleteUpdate, RecType
    <3> QED
      BY <3>1, <3>2 DEF PendingBy
  <2> QED
    BY <2>1, <2>2
<1>16. CASE Reconcile
  <2>1. \/ rec' = rec \/ Become("paused") \/ Become("blocked")
        \/ rec' = [rec EXCEPT !.status = result.status, !.pending = "none",
                              !.commit = IF result.commit = 0 THEN @ ELSE result.commit]
    BY <1>16 DEF Reconcile
  <2>2. CASE rec' = [rec EXCEPT !.status = result.status, !.pending = "none",
                              !.commit = IF result.commit = 0 THEN @ ELSE result.commit]
    <3>1. rec'.status = result.status
      BY <1>0, <2>2 DEF RecType
    <3> QED
      BY <3>1 DEF Types, ResultType, ResultSet
  <2> QED
    BY <2>1, <2>2, <1>1, <1>2
<1>17. CASE Recover
  BY <1>1, <1>2, <1>17 DEF Recover
<1> QED
  BY <1>1, <1>4, <1>5, <1>6, <1>7, <1>8, <1>9, <1>10, <1>11, <1>12, <1>13, <1>14, <1>15, <1>16,
     <1>17, Changes DEF RecordSteps

\* A restart leaves no active Worker.
LEMMA RestartedNone ==
  ASSUME Types, [Next]_vars, mode # "up", mode' = "up"
  PROVE  rec'.status \notin Pending
<1> USE DEF Pending, ActiveStatuses
<1>1. Recover
  BY Changes DEF Crash, Restarting, Reconcile
<1>2. \/ Become("failed") \/ Become("interrupted")
      \/ rec' = rec /\ (~Unfinished(rec.status) \/ rec.status \in Resumable)
  BY <1>1 DEF Recover
<1> QED
  BY <1>2, Becomes DEF Unfinished, Finished, Resumable

-----------------------------------------------------------------------------
(* How the queue moves *)

\* What is queued by those who do not run in it: their operation goes behind the others.
Joins ==
    \E E : /\ Gains(E)
           /\ \A o \in E : /\ o.step \in {"start", "settle"}
                           /\ o.kind = "resume" => ResumeRequest
                           /\ o.kind \in SettledKind => \E s \in Session : EndTurn(s)

LEMMA QueueMoves ==
  ASSUME Types, [Next]_vars
  PROVE  Queued \/ Crash \/ queue' = queue \/ Joins \/ (AbortRequest /\ queue' = Superseded(queue))
<1>1. CASE Creating
  BY <1>1 DEF Creating, CreateReserve, CreateStart, CreatePlan, CreateAddTree,
     CreateAddTreeFails, CreateOpen, CreateBuilt, CreateSwap, CreateBegin, CreateFail, CreateDrop
<1>2. CASE CreateRequest \/ PauseProject \/ ResumeProject \/ Aborting \/ Restarting
  BY <1>2 DEF CreateRequest, PauseProject, ResumeProject, Aborting, AbortRead,
     AbortInterrupt, AbortStop, Restarting, Reconcile, Recover, control
<1>3. CASE PauseRequest \/ PauseActive
  <2>1. queue' = queue \/ Gains({Op("pause")})
    BY <1>3, NewOps, OpQueued DEF PauseRequest, PauseActive, Enqueue
  <2>2. \A o \in {Op("pause")} : o.step = "start" /\ o.kind = "pause"
    BY DEF Op
  <2> QED
    BY <2>1, <2>2 DEF Joins, SettledKind
<1>4. CASE SteerRequest
  <2>1. commands' \in 1..MaxCommands
    BY <1>4, BoundsAreSane DEF SteerRequest, Command, Types
  <2>2. \E x \in OpType : x.step = "start" /\ x.kind = "steer" /\ Gains({x})
    BY <1>4, <2>1, NewOps, OpQueued DEF SteerRequest, Enqueue, Op
  <2> QED
    BY <2>2 DEF Joins, SettledKind
<1>5. CASE ResumeRequest
  BY <1>5, ResumeAsked DEF Joins, SettledKind
<1>6. CASE AbortRequest
  BY <1>6 DEF AbortRequest, Superseded
<1>7. ASSUME NEW s \in Session, Write(s) \/ StopSession(s) \/ Calling(s) \/ Called(s)
      PROVE  queue' = queue
  BY <1>7 DEF Write, StopSession, Calling, CommitBegin, ProgressPaused, Escalate,
     CompleteBegin, Called, Commit, CompleteVerify, CompleteWrite, CompleteWritten,
     CompleteUpdate, CompleteClean, control
<1>8. ASSUME NEW s \in Session, EndTurn(s) PROVE Joins
  <2>1. Gains(Ended(s)) /\ \A o \in Ended(s) : o.step \in {"start", "settle"} /\ o.kind # "resume"
    BY <1>8, TurnEnds, EndedOps DEF SettledKind
  <2> QED
    BY <1>8, <2>1 DEF Joins
<1>9. CASE UNCHANGED vars
  BY <1>9 DEF vars, control
<1> QED
  BY <1>1, <1>2, <1>3, <1>4, <1>5, <1>6, <1>7, <1>8, <1>9 DEF Next, Operating

\* Who pauses the project, and who follows that up.
LEMMA PausedChanges ==
  ASSUME [Next]_vars, ~Crash, ~PauseProject
  PROVE  (paused' = paused \/ ResumeProject) /\ (pausing' = pausing \/ PauseActive)
<1>1. CASE Creating
  BY <1>1 DEF Creating, CreateReserve, CreateStart, CreatePlan, CreateAddTree, CreateAddTreeFails,
     CreateOpen, CreateBuilt, CreateSwap, CreateBegin, CreateFail, CreateDrop, durable
<1>2. CASE Operating
  BY <1>2 DEF Operating, CreateRequest, PauseRequest, SteerRequest, ResumeRequest, AbortRequest,
     ResumeProject, durable, control
<1>3. CASE Queued
  <2>1. CASE Pause \/ Steer \/ ResumeStart \/ ResumeResources \/ ResumeOpen \/ ResumeBuilt
             \/ ResumeSwap \/ ResumeLatest \/ ResumeUpdate \/ ResumeLaunch
    BY <2>1 DEF Pause, Steer, ResumeStart, ResumeResources, ResumeOpen, ResumeBuilt, ResumeSwap,
       ResumeLatest, ResumeUpdate, ResumeLaunch, durable
  <2>2. CASE Acknowledge \/ Settle \/ SettleFail \/ BlockUnsettled \/ Publish \/ Verify
             \/ Accept \/ Refuse \/ Retire
    BY <2>2 DEF Acknowledge, Settle, SettleFail, BlockUnsettled, Publish, Verify, Accept, Refuse,
       Retire, durable
  <2> QED
    BY <1>3, <2>1, <2>2 DEF Queued
<1>4. CASE Aborting \/ PauseActive \/ Restarting
  BY <1>4 DEF Aborting, AbortRead, AbortInterrupt, AbortStop, PauseActive, Restarting, Reconcile,
     Recover, durable, control
<1>5. ASSUME NEW s \in Session, Write(s) \/ EndTurn(s) \/ StopSession(s) \/ Calling(s)
      PROVE  paused' = paused /\ pausing' = pausing
  BY <1>5 DEF Write, EndTurn, StopSession, Calling, CommitBegin, ProgressPaused, Escalate,
     CompleteBegin, durable, control
<1>6. ASSUME NEW s \in Session, Called(s)
      PROVE  paused' = paused /\ pausing' = pausing
  BY <1>6 DEF Called, Commit, CompleteVerify, CompleteWrite, CompleteWritten, CompleteUpdate,
     CompleteClean, durable, control
<1>7. CASE UNCHANGED vars
  BY <1>7 DEF vars, durable, control
<1> QED
  BY <1>1, <1>2, <1>3, <1>4, <1>5, <1>6, <1>7 DEF Next

\* The operation that runs, as the others see it.
SameOp ==
    /\ op'.kind = op.kind /\ op'.step = op.step /\ op'.s = op.s /\ op'.turn = op.turn
    /\ op'.made = op.made /\ SameReading
    /\ op.kind = "resume" => (op.stale => op'.stale) /\ (op'.stale => op.stale \/ AbortRequest)

\* An operation goes on by its own steps only.
LEMMA HeadKept ==
  ASSUME Types, [Next]_vars, ~Queued, queue' # <<>>, op'.step \notin {"start", "settle"}
  PROVE  queue # <<>> /\ SameOp
<1>1. CASE Crash
  BY <1>1 DEF Crash
<1>2. CASE queue' = queue
  BY <1>2 DEF SameOp, SameReading, op
<1>3. CASE Joins
  <2>1. PICK E : Gains(E) /\ \A o \in E : o.step \in {"start", "settle"}
    BY <1>3 DEF Joins
  <2>2. queue # <<>> /\ op' = op
    BY <2>1 DEF Gains
  <2> QED
    BY <2>2 DEF SameOp, SameReading
<1>4. CASE AbortRequest /\ queue' = Superseded(queue)
  <2>1. queue # <<>> /\ op' = [op EXCEPT !.stale = op.kind = "resume"]
    BY <1>4, SupersededQueue
  <2>2. op \in OpType /\ op'.kind = op.kind /\ op'.step = op.step /\ op'.s = op.s
        /\ op'.turn = op.turn /\ op'.made = op.made
        /\ (op.kind = "resume" => op'.stale)
    BY <1>4, <2>1, SupersededOp, TheOp
  <2>3. SameReading
    BY <2>1, <2>2 DEF OpType, OpRecord, SameReading
  <2> QED
    BY <1>4, <2>1, <2>2, <2>3 DEF SameOp
<1> QED
  BY <1>1, <1>2, <1>3, <1>4, QueueMoves

\* The operation that runs is not driven out by the others.
LEMMA HeadOn ==
  ASSUME Types, [Next]_vars, ~Queued, ~Crash, NEW steps, Resuming(steps)
  PROVE  Resuming(steps)'
<1>1. queue # <<>> /\ op.kind = "resume" /\ op.step \in steps
  BY DEF Resuming
<1>2. CASE queue' = queue
  BY <1>1, <1>2 DEF Resuming, op
<1>3. CASE Joins
  <2>1. queue' # <<>> /\ op' = op
    BY <1>1, <1>3 DEF Joins, Gains
  <2> QED
    BY <1>1, <2>1 DEF Resuming
<1>4. CASE AbortRequest /\ queue' = Superseded(queue)
  BY <1>1, <1>4, SupersededOp DEF Resuming
<1> QED
  BY <1>2, <1>3, <1>4, QueueMoves

\* The operation that runs is done, goes on, or is followed by the rejection of its prompt.
LEMMA QueuedWorks ==
  ASSUME Types, Queued
  PROVE  /\ mode = "up" /\ queue # <<>> /\ op \in OpType
         /\ Waiting(queue) \subseteq Range(queue')
         /\ Ends \/ (\E w : GoesTo(w)) \/ (ResumeLaunch /\ ~Ends)
<1> DEFINE G == Ends \/ (\E w : GoesTo(w)) \/ (ResumeLaunch /\ ~Ends)
<1>1. /\ mode = "up" /\ queue # <<>>
  BY DEF Queued, Pause, Steer, ResumeStart, ResumeResources, ResumeOpen, ResumeBuilt, ResumeSwap,
     ResumeLatest, ResumeUpdate, ResumeLaunch, Acknowledge, Settle, SettleFail, BlockUnsettled,
     Publish, Verify, Accept, Refuse, Retire, ResumeAt, SettledAt, At
<1>2. op \in OpType
  BY <1>1, TheOp
<1>3. ASSUME Ends \/ \E w : GoesTo(w) PROVE Waiting(queue) \subseteq Range(queue')
  BY <1>3 DEF Ends, GoesTo
<1>4. CASE Pause \/ Steer
  <2>1. Ends
    BY <1>4, OpEnds DEF Pause, Steer, At
  <2> QED
    BY <2>1, <1>1, <1>2, <1>3
<1>5. ASSUME NEW v, StepsTo(v) PROVE GoesTo(v)
  BY <1>5 DEF StepsTo
<1>6. CASE ResumeStart \/ ResumeResources
  <2>1. Ends \/ StepsTo("resources") \/ StepsTo("open")
    BY <1>6, AtResume DEF ResumeStart, ResumeResources, ResumeSteps
  <2> QED
    BY <2>1, <1>1, <1>2, <1>3, <1>5
<1>7. CASE ResumeOpen
  BY <1>1, <1>2, <1>3, <1>7, ResumeOpens
<1>8. CASE ResumeBuilt
  <2>1. Ends \/ StepsTo("latest") \/ StepsTo("swap")
    BY <1>8, ResumeBuilds, ResumeFailed
  <2> QED
    BY <2>1, <1>1, <1>2, <1>3, <1>5
<1>9. CASE ResumeSwap
  <2>1. StepsTo("latest")
    BY <1>9, AtResume DEF ResumeSwap, ResumeSteps
  <2> QED
    BY <2>1, <1>1, <1>2, <1>3, <1>5
<1>10. CASE ResumeLatest
  <2>1. op.s \in Session
    BY <1>10, AtResume DEF ResumeLatest, ResumeSteps
  <2>2. Ends \/ GoesTo("update")
    BY <1>1, <1>10, <2>1, ResumeReads, ResumeFailed
  <2> QED
    BY <2>2, <1>1, <1>2, <1>3
<1>11. CASE ResumeUpdate
  <2>1. op.s \in Session /\ (Step("launch") => StepsTo("launch"))
    BY <1>11, AtResume DEF ResumeUpdate, ResumeSteps
  <2>2. Ends \/ StepsTo("launch")
    BY <1>1, <1>11, <2>1, ResumeFailed DEF ResumeUpdate
  <2> QED
    BY <2>2, <1>1, <1>2, <1>3, <1>5
<1>12. CASE ResumeLaunch
  <2>1. op.s \in Session
    BY <1>12, AtResume DEF ResumeLaunch, ResumeSteps
  <2>2. Ends \/ Waiting(queue) \subseteq Range(queue')
    BY <1>1, <1>12, <2>1, Launches, ResumeFailed
  <2> QED
    BY <1>1, <1>2, <1>3, <1>12, <2>2
<1>13. CASE Acknowledge \/ SettleFail \/ BlockUnsettled \/ Publish \/ Accept \/ Refuse \/ Retire
  <2>1. Ends \/ \E v \in {"settle", "retire", "refuse"} : StepsTo(v)
    BY <1>13, AtSettled DEF Acknowledge, SettleFail, BlockUnsettled, Publish, Accept, Refuse,
       Retire, SettleSteps
  <2> QED
    BY <2>1, <1>1, <1>2, <1>3, <1>5
<1>14. CASE Settle
  <2>1. GoesTo("verify") \/ GoesTo("publish") \/ StepsTo("fail") \/ StepsTo("block") \/ Ends
    BY <1>14, SettleChooses
  <2> QED
    BY <2>1, <1>1, <1>2, <1>3, <1>5
<1>15. CASE Verify
  <2>1. StepsTo("accept") \/ StepsTo("refuse")
    BY <1>15, VerifyChooses
  <2> QED
    BY <2>1, <1>1, <1>2, <1>3, <1>5
<1> QED
  BY <1>4, <1>6, <1>7, <1>8, <1>9, <1>10, <1>11, <1>12, <1>13, <1>14, <1>15 DEF Queued

\* What is queued stays queued, until it is its turn.
LEMMA OpsKept ==
  ASSUME Types, [Next]_vars, ~Crash, NEW o \in Range(queue), ~(Queued /\ o = op)
  PROVE  \E p \in Range(queue') : p.kind = o.kind /\ p.s = o.s /\ p.turn = o.turn
<1>1. CASE Queued
  <2>1. o \in Waiting(queue)
    BY <1>1, QueuedWorks, TheOp
  <2> QED
    BY <1>1, <2>1, QueuedWorks
<1>2. CASE queue' = queue
  BY <1>2
<1>3. CASE Joins
  BY <1>3 DEF Joins, Gains
<1>4. CASE AbortRequest /\ queue' = Superseded(queue)
  <2>1. PICK i \in 1..Len(queue) : o = queue[i]
    BY Places DEF Types
  <2>2. /\ queue' \in Seq(OpType) /\ Len(queue') = Len(queue)
        /\ queue'[i] = [queue[i] EXCEPT !.stale = queue[i].kind = "resume"]
    BY <1>4, SupersededQueue
  <2>3. queue'[i] \in Range(queue')
    BY <2>2, Places
  <2>4. o \in OpType
    BY <2>1 DEF Types
  <2>5. queue'[i].kind = o.kind /\ queue'[i].s = o.s /\ queue'[i].turn = o.turn
    BY <2>1, <2>2, <2>4 DEF OpType, OpRecord
  <2> QED
    BY <2>3, <2>5
<1> QED
  BY <1>1, <1>2, <1>3, <1>4, QueueMoves

-----------------------------------------------------------------------------
(* The invariant is kept *)

\* Nobody resumes a Worker that is being started.
LEMMA StartIsAloneStep ==
  ASSUME ~ResumeInCreate, Types, Order, Life, StartIsAlone, [Next]_vars
  PROVE  StartIsAlone'
<1> SUFFICES ASSUME NEW o \in Range(queue'), o.kind = "resume"
             PROVE  create' = Idle /\ rec'.status # "none"
  BY DEF StartIsAlone
<1>1. rec.status # "none" => rec'.status # "none"
  <2>1. Lives
    BY LifeStep, LifeStutter
  <2>2. rec.pending \in {"none", "paused", "blocked", "completed", "failed"}
    BY DEF Types, RecType, PendingSet
  <2>3. CASE UNCHANGED Lifecycle!vars
    BY <2>3 DEF Lifecycle!vars
  <2>4. CASE Lifecycle!Next
    BY <2>2, <2>4 DEF Lifecycle!Next, Lifecycle!Reserve, Lifecycle!Start, Lifecycle!Begin,
       Lifecycle!AskPause, Lifecycle!Submit, Lifecycle!Reconcile, Lifecycle!Publish,
       Lifecycle!Block, Lifecycle!Interrupt, Lifecycle!Fail, Lifecycle!Resume,
       Lifecycle!Integrate, Lifecycle!Conflict, Lifecycle!Become, Lifecycle!Running,
       Lifecycle!Resumable, Lifecycle!Finished, Lifecycle!Dispositions
  <2> QED
    BY <2>1, <2>3, <2>4 DEF Lives
<1>2. CASE ResumeRequest
  BY <1>1, <1>2 DEF ResumeRequest
<1>3. CASE ~ResumeRequest
  <2>1. ~Crash
    BY EmptyQueue DEF Crash
  <2>2. \E p \in Range(queue) : p.kind = "resume"
    <3>1. CASE Queued
      <4>1. op \in Range(queue) /\ Waiting(queue) \subseteq Range(queue)
        BY <3>1, QueuedWorks, TheOp
      <4>2. CASE Ends
        BY <4>1, <4>2 DEF Ends
      <4>3. CASE \E w : GoesTo(w)
        BY <4>1, <4>3 DEF GoesTo
      <4>4. CASE ResumeLaunch
        BY <4>1, <4>4, AtResume DEF ResumeLaunch, ResumeSteps
      <4> QED
        BY <3>1, <4>2, <4>3, <4>4, QueuedWorks
    <3>2. CASE queue' = queue
      BY <3>2
    <3>3. CASE Joins
      BY <1>3, <3>3 DEF Joins, Gains
    <3>4. CASE AbortRequest /\ queue' = Superseded(queue)
      BY <3>4, SupersededOps
    <3> QED
      BY <2>1, <3>1, <3>2, <3>3, <3>4, QueueMoves
  <2>3. create = Idle /\ rec.status # "none"
    BY <2>2 DEF StartIsAlone
  <2>4. ~CreateRequest
    BY <2>3 DEF CreateRequest
  <2>5. ~Creating
    BY <2>3 DEF Creating, CreateReserve, CreateStart, CreatePlan, CreateAddTree,
       CreateAddTreeFails, CreateOpen, CreateBuilt, CreateSwap, CreateBegin, CreateFail,
       CreateDrop, CreateAt, Idle
  <2> QED
    BY <1>1, <2>1, <2>3, <2>4, <2>5, Changes DEF StartSteps
<1> QED
  BY <1>2, <1>3

\* While a resume runs, no start does.
LEMMA ResumesAlone ==
  ASSUME Types, StartIsAlone, queue # <<>>, op.kind = "resume"
  PROVE  create = Idle /\ ~Creating
<1>1. create = Idle
  BY TheOp DEF StartIsAlone
<1> QED
  BY <1>1 DEF Creating, CreateReserve, CreateStart, CreatePlan, CreateAddTree,
     CreateAddTreeFails, CreateOpen, CreateBuilt, CreateSwap, CreateBegin, CreateFail,
     CreateDrop, CreateAt, Idle

\* While a start is needed to move the Worker on, it does not end but by moving it.
LEMMA StartGoesOn ==
  ASSUME Types, StartIsCurrent, create.step \in InStart, rec.status \in Pending,
         rec'.status \in Pending, [Next]_vars, ~Crash
  PROVE  create'.step \in InStart \/ CreateBegin
<1> USE DEF InStart
<1>1. CASE create' = create
  BY <1>1
<1>2. CASE CreateRequest \/ CreateReserve \/ CreateDrop
  BY <1>2 DEF CreateRequest, CreateReserve, CreateDrop, CreateAt, Idle
<1>3. ASSUME NEW v, CreateTo(v) PROVE create'.step = v
  BY <1>3, Creates
<1>4. CASE CreateStart \/ CreatePlan \/ CreateAddTree \/ CreateAddTreeFails \/ CreateSwap
  BY <1>3, <1>4 DEF CreateStart, CreatePlan, CreateAddTree, CreateAddTreeFails, CreateSwap
<1>5. CASE CreateOpen
  BY <1>5 DEF CreateOpen
<1>6. CASE CreateBuilt
  BY <1>6, CreateBuilds
<1>7. CASE CreateFail
  <2>1. Become("failed")
    BY <1>7 DEF CreateFail, StartIsCurrent, Pending
  <2> QED
    BY <2>1, Becomes DEF Pending, ActiveStatuses
<1> QED
  BY <1>1, <1>2, <1>4, <1>5, <1>6, <1>7, Changes DEF StartSteps, Creating

\* A Worker that was reserved is being started.
LEMMA StartIsThereStep ==
  ASSUME Types, StartIsCurrent, StartIsThere, [Next]_vars
  PROVE  StartIsThere'
<1> SUFFICES ASSUME mode' = "up", rec'.status \in {"queued", "starting"}
             PROVE  create'.step \in InStart
  BY DEF StartIsThere
<1>1. mode = "up" /\ ~Crash /\ PendingBy
  BY PendingWritten, RestartedNone DEF Pending, ActiveStatuses, Crash
<1>2. (CreateReserve /\ ~paused) \/ CreateStart => create'.step \in InStart
  BY Creates DEF CreateReserve, CreateStart, InStart
<1>3. CASE rec'.status = rec.status /\ rec.status \in Pending
  <2>1. create.step \in InStart
    BY <1>1, <1>3 DEF StartIsThere
  <2>2. ~CreateBegin \/ create'.step \in InStart
    BY <1>3, Moves, Creates DEF CreateBegin, InStart
  <2> QED
    BY <1>1, <1>3, <2>1, <2>2, StartGoesOn
<1> QED
  BY <1>1, <1>2, <1>3 DEF PendingBy

\* A resume that has begun, and a handler that retires a session, run on no active Worker.
LEMMA PreparingHere ==
  ASSUME Types, NobodyActive,
         ResumeResources \/ ResumeOpen \/ ResumeBuilt \/ ResumeSwap \/ ResumeLatest \/ ResumeUpdate
         \/ Retire
  PROVE  Preparing /\ rec.status \notin Pending
<1>1. CASE Retire
  BY <1>1, AtSettled DEF Retire, Preparing, Settling, NobodyActive
<1>2. CASE ~Retire
  <2>1. \E v \in ResumeSteps \ {"start", "launch"} : ResumeAt(v)
    BY <1>2 DEF ResumeResources, ResumeOpen, ResumeBuilt, ResumeSwap, ResumeLatest, ResumeUpdate,
       ResumeSteps
  <2> QED
    BY <2>1, AtResume DEF Preparing, Resuming, NobodyActive
<1> QED
  BY <1>1, <1>2

\* While the Worker is active, only its start, its resume and its abort change its session.
LEMMA SessionStays ==
  ASSUME Types, NobodyActive, rec.status \in Pending, rec'.status \in Pending, [Next]_vars,
         ~Crash, ~Creating, ~ResumeLaunch
  PROVE  live' = live /\ (managed' = managed \/ (AbortStop /\ managed.s = abort.s))
<1>1. /\ ~ResumeOpen /\ ~ResumeBuilt /\ ~ResumeSwap /\ ~ResumeLatest /\ ~ResumeUpdate /\ ~Retire
  BY PreparingHere
<1>2. /\ ~CreateOpen /\ ~CreateBuilt /\ ~CreateBegin /\ ~CreateFail /\ ~CreateDrop /\ ~CreateSwap
  BY DEF Creating
<1>3. AbortInterrupt => live' = live /\ managed' = managed
  BY Interrupts DEF Pending, ActiveStatuses
<1>4. \A s \in Session : EndTurn(s) \/ StopSession(s) => live' = live /\ managed' = managed
  BY DEF EndTurn, StopSession
<1>5. AbortStop => live' = live /\ (managed' = managed \/ managed.s = abort.s)
  BY DEF AbortStop
<1>6. ResumeLaunch \/ AbortInterrupt \/ AbortStop \/ (live' = live /\ managed' = managed)
  BY <1>1, <1>2, <1>4, Changes DEF SessionSteps
<1> QED
  BY <1>3, <1>5, <1>6

\* The session that a start knows is the current one.
LEMMA StartIsCurrentStep ==
  ASSUME Types, StartIsAlone, NobodyActive, StartIsCurrent, [Next]_vars
  PROVE  StartIsCurrent'
<1>1. ASSUME Creating PROVE create'.step # "reserve"
  <2>1. ASSUME NEW v, CreateTo(v), v # "reserve" PROVE create'.step # "reserve"
    BY <2>1, Creates
  <2>2. CASE CreateReserve \/ CreateStart \/ CreatePlan \/ CreateAddTree \/ CreateAddTreeFails
             \/ CreateSwap
    BY <2>1, <2>2 DEF CreateReserve, CreateStart, CreatePlan, CreateAddTree, CreateAddTreeFails,
       CreateSwap
  <2>3. CASE CreateOpen \/ CreateBuilt
    BY <2>3, CreateBuilds DEF CreateOpen
  <2>4. CASE CreateBegin \/ CreateFail \/ CreateDrop
    BY <2>1, <2>4 DEF CreateBegin, CreateFail, CreateDrop, CreateDropped, Idle
  <2> QED
    BY <1>1, <2>2, <2>3, <2>4 DEF Creating
<1>2. create'.step = "reserve" => create'.s = 0
  <2>1. CreateRequest => create'.s = 0
    BY DEF CreateRequest
  <2>2. Crash => create'.s = 0
    BY DEF Crash, Idle
  <2> QED
    BY <1>1, <2>1, <2>2, Changes DEF StartSteps, StartIsCurrent
<1>3. ASSUME create'.s # 0, rec'.status \in Pending PROVE live' = create'.s
  <2>1. ~Crash /\ ~CreateRequest
    <3>1. CreateRequest => create'.s = 0
      BY DEF CreateRequest
    <3>2. Crash => create'.s = 0
      BY DEF Crash, Idle
    <3> QED
      BY <1>3, <3>1, <3>2
  <2>2. CASE Creating
    <3>1. ASSUME NEW v, CreateTo(v), rec.status \in Pending, live' = live PROVE live' = create'.s
      BY <1>3, <3>1, Creates DEF StartIsCurrent
    <3>2. CASE CreateReserve
      BY <1>3, <3>2, Creates DEF CreateReserve, CreateAt, StartIsCurrent
    <3>3. CASE CreateStart
      <4>1. rec.status \in Pending
        BY <1>3, <3>3 DEF CreateStart, Pending
      <4>2. live' = live /\ \E v : CreateTo(v)
        BY <3>3 DEF CreateStart, sessions
      <4> QED
        BY <3>1, <4>1, <4>2
    <3>4. CASE CreatePlan \/ CreateAddTree \/ CreateAddTreeFails \/ CreateSwap
      <4>1. live' = live /\ rec' = rec /\ \E v : CreateTo(v)
        BY <3>4 DEF CreatePlan, CreateAddTree, CreateAddTreeFails, CreateSwap, sessions, durable
      <4> QED
        BY <1>3, <3>1, <4>1
    <3>5. CASE CreateOpen
      BY <3>5 DEF CreateOpen, MakeSession
    <3>6. CASE CreateBuilt
      <4>1. rec' = rec
        BY <3>6 DEF CreateBuilt, durable
      <4> QED
        BY <1>3, <3>6, <4>1, CreateBuilds DEF StartIsCurrent
    <3>7. CASE CreateBegin
      <4>1. create' = Idle \/ (live' = live /\ rec' = rec /\ CreateTo("fail"))
        BY <3>7 DEF CreateBegin
      <4> QED
        BY <1>3, <3>1, <4>1 DEF Idle
    <3>8. CASE CreateFail \/ CreateDrop
      <4>1. create' = Idle \/ Become("failed")
        BY <3>8 DEF CreateFail, CreateDrop, CreateDropped
      <4> QED
        BY <1>3, <4>1, Becomes DEF Idle, Pending, ActiveStatuses
    <3> QED
      BY <2>2, <3>2, <3>3, <3>4, <3>5, <3>6, <3>7, <3>8 DEF Creating
  <2>3. CASE ~Creating
    <3>1. create' = create
      BY <2>1, <2>3, Changes DEF StartSteps
    <3>2. ~ResumeLaunch /\ ~ResumeUpdate
      <4>1. ResumeLaunch \/ ResumeUpdate => queue # <<>> /\ op.kind = "resume"
        BY AtResume DEF ResumeLaunch, ResumeUpdate, ResumeSteps
      <4> QED
        BY <1>3, <3>1, <4>1, ResumesAlone DEF Idle
    <3>3. rec.status \in Pending
      <4>1. PendingBy
        BY <1>3, PendingWritten
      <4> QED
        BY <2>3, <3>2, <4>1 DEF PendingBy, Pending, ActiveStatuses, Running, Creating
    <3>4. live' = live
      BY <1>3, <2>1, <2>3, <3>2, <3>3, SessionStays
    <3> QED
      BY <1>3, <3>1, <3>3, <3>4 DEF StartIsCurrent
  <2> QED
    BY <2>2, <2>3
<1> QED
  BY <1>2, <1>3 DEF StartIsCurrent

\* What prepares a resume, or retires a session, begins when the Worker is not active.
LEMMA NobodyActiveStep ==
  ASSUME Types, Order, Life, Writer, NobodyActive, [Next]_vars
  PROVE  NobodyActive'
<1> SUFFICES ASSUME Preparing', rec'.status \in Pending
             PROVE  FALSE
  BY DEF NobodyActive
<1>1. PendingBy
  BY PendingWritten
<1>2. /\ queue' # <<>>
      /\ \/ op'.kind = "resume" /\ op'.step \in ResumeSteps \ {"start", "launch"}
         \/ op'.kind \in SettledKind /\ op'.step = "retire"
  <2>1. CASE Resuming(ResumeSteps \ {"start", "launch"})'
    BY <2>1 DEF Resuming, ResumeSteps
  <2>2. CASE Settling({"retire"})'
    BY <2>2 DEF Settling, SettledKind
  <2> QED
    BY <2>1, <2>2 DEF Preparing
<1>3. ASSUME Ends PROVE FALSE
  BY <1>2, <1>3 DEF Ends, Order, Waits
<1>4. ASSUME NEW v, StepsTo(v) \/ GoesTo(v)
      PROVE  v \in (ResumeSteps \ {"start", "launch"}) \cup {"retire"}
  BY <1>2, <1>4 DEF StepsTo, GoesTo
<1>5. CASE ~Queued
  <2>1. Preparing
    BY <1>2, <1>5, HeadKept DEF SameOp, ResumeSteps, Preparing, Resuming, Settling
  <2>2. rec.status \notin Pending /\ rec.status \notin NotBegun
    BY <2>1 DEF NobodyActive, Writer, Begun, Idles, Resumes, Preparing, Resuming
  <2>3. CreateReserve
    BY <1>1, <1>5, <2>2 DEF PendingBy, Pending, ActiveStatuses, Running, Queued
  <2> QED
    BY <2>2, <2>3 DEF CreateReserve, CreateAt, Life, ReserveFirst, NotBegun
<1>6. ASSUME Become("failed") \/ Become("completed") PROVE FALSE
  BY <1>6, Becomes DEF Pending, ActiveStatuses
<1>7. CASE Pause \/ Steer
  BY <1>3, <1>7, OpEnds DEF Pause, Steer, At
<1>8. CASE ResumeStart
  <2>1. Ends \/ MayResume
    BY <1>8, AtResume DEF ResumeStart, ResumeSteps
  <2>2. rec' = rec
    BY <1>8 DEF ResumeStart, durable
  <2> QED
    BY <1>3, <2>1, <2>2 DEF MayResume, Resumable, Pending, ActiveStatuses
<1>9. CASE ResumeResources \/ ResumeOpen \/ ResumeBuilt \/ ResumeSwap \/ ResumeLatest \/ Retire
  <2>1. rec' = rec \/ Move("failed")
    BY <1>9 DEF ResumeResources, ResumeOpen, ResumeBuilt, ResumeSwap, ResumeLatest, Retire, durable
  <2> QED
    BY <1>9, <2>1, PreparingHere, Moves DEF Pending, ActiveStatuses
<1>10. CASE ResumeUpdate
  <2>1. rec' = rec \/ StepsTo("launch")
    BY <1>10, AtResume DEF ResumeUpdate, ResumeSteps
  <2> QED
    BY <1>4, <1>10, <2>1, PreparingHere DEF ResumeSteps
<1>11. CASE ResumeLaunch
  <2>1. queue # <<>> /\ op.s \in Session
    BY <1>11, AtResume DEF ResumeLaunch, ResumeSteps
  <2>2. Ends \/ op' \in Waiting(queue) \cup {Rejected(op.s, managed'.turn)}
    BY <1>11, <2>1, Launches, ResumeFailed
  <2> QED
    BY <1>2, <1>3, <2>2, TurnOps DEF Order, Waits
<1>12. CASE Acknowledge \/ Settle \/ BlockUnsettled \/ Verify \/ Refuse
  <2>1. \/ Ends
        \/ \E v \in {"settle", "fail", "block", "publish", "verify", "accept", "refuse"} :
              StepsTo(v) \/ GoesTo(v)
    BY <1>12, AtSettled, SettleChooses, VerifyChooses DEF Acknowledge, BlockUnsettled, Refuse,
       SettleSteps
  <2> QED
    BY <1>3, <1>4, <2>1 DEF ResumeSteps
<1>13. CASE SettleFail \/ Publish \/ Accept
  <2>1. Ends \/ StepsTo("refuse") \/ Become("failed") \/ Become("completed")
    BY <1>13, AtSettled DEF SettleFail, Publish, Accept, SettleSteps
  <2> QED
    BY <1>3, <1>4, <1>6, <2>1 DEF ResumeSteps
<1> QED
  BY <1>5, <1>7, <1>8, <1>9, <1>10, <1>11, <1>12, <1>13 DEF Queued

\* An abort that found an active Worker interrupts it.
LEMMA AbortGoesOn ==
  ASSUME Types, abort.step \in InAbort, rec.status \in Pending \ {"queued"},
         rec'.status \in Pending, [Next]_vars, ~Crash
  PROVE  abort'.step \in InAbort
<1> USE DEF InAbort, Pending, ActiveStatuses
<1>1. CASE AbortRead
  BY <1>1 DEF AbortRead, Abortable
<1>2. CASE AbortInterrupt
  <2>1. \/ Become("interrupted")
        \/ managed.s = 0 /\ ~Unfinished(rec.status)
        \/ managed.s # 0 /\ ~Abortable(rec.status)
    BY <1>2 DEF AbortInterrupt
  <2> QED
    BY <2>1, Becomes DEF Unfinished, Finished, Abortable
<1>3. ~AbortRequest /\ ~AbortStop
  BY DEF AbortRequest, AbortStop, AbortAt, Idle
<1> QED
  BY <1>1, <1>2, <1>3, Changes DEF AbortSteps

\* A resume's session stays attached and current, unless an abort takes it.
LEMMA ResumeHoldsStep ==
  ASSUME Types, Order, Writer, StartIsAlone, NobodyActive, ResumeHolds, [Next]_vars
  PROVE  ResumeHolds'
<1> DEFINE W == {"latest", "update", "launch"}
<1> SUFFICES ASSUME queue' # <<>>, op'.kind = "resume", op'.step \in W
             PROVE  /\ ~op'.stale => managed'.s = op'.s
                    /\ op'.step \in {"update", "launch"} /\ ~op'.stale => live' = op'.s
                    /\ op'.step = "launch" /\ op'.stale => abort'.step \in InAbort
  BY DEF ResumeHolds, Resuming
<1>1. CASE ~Queued
  <2>1. queue # <<>> /\ SameOp /\ op.kind = "resume" /\ op.step \in W
    BY <1>1, HeadKept DEF SameOp
  <2>2. /\ op'.step = op.step /\ op'.s = op.s
        /\ (op.stale => op'.stale) /\ (op'.stale => op.stale \/ AbortRequest)
    BY <2>1 DEF SameOp
  <2>3. /\ ~op.stale => managed.s = op.s
        /\ op.step \in {"update", "launch"} /\ ~op.stale => live = op.s
        /\ op.step = "launch" /\ op.stale => abort.step \in InAbort
    BY <2>1 DEF ResumeHolds, Resuming
  <2>4. ~Creating /\ ~Crash
    BY <2>1, ResumesAlone DEF Crash
  <2>5. AbortInterrupt \/ AbortStop => op.stale
    <3>1. AbortInterrupt \/ AbortStop => abort # Idle
      BY DEF AbortInterrupt, AbortStop, AbortAt, Idle
    <3> QED
      BY <2>1, <3>1, TheOp DEF Order, Supersedes
  <2>6. ~op.stale => live' = live /\ managed' = managed
    <3>1. \A s \in Session : EndTurn(s) \/ StopSession(s) => live' = live /\ managed' = managed
      BY DEF EndTurn, StopSession
    <3> QED
      BY <1>1, <2>4, <2>5, <3>1, Changes DEF SessionSteps, Creating, Queued
  <2>7. op.step = "launch" /\ op'.stale => abort'.step \in InAbort
    <3>1. AbortRequest => abort'.step = "read"
      BY DEF AbortRequest
    <3>2. ASSUME op.step = "launch", op.stale PROVE abort'.step \in InAbort
      <4>1. rec.status = "working" /\ abort.step \in InAbort
        BY <2>1, <2>3, <3>2 DEF Writer, Launching, Resuming
      <4>2. ~AbortInterrupt /\ ~AbortStop
        BY <2>1, <3>2, <4>1 DEF AbortInterrupt, AbortStop, AbortAt, StoreFree, InAbort
      <4>3. AbortRead => abort'.step = "interrupt"
        BY <4>1 DEF AbortRead, Abortable, ActiveStatuses
      <4> QED
        BY <2>4, <3>1, <4>1, <4>2, <4>3, Changes DEF AbortSteps, InAbort
    <3> QED
      BY <2>2, <3>1, <3>2 DEF InAbort
  <2> QED
    BY <2>2, <2>3, <2>6, <2>7
<1>2. ASSUME Ends PROVE FALSE
  BY <1>2 DEF Ends, Order, Waits
<1>3. ASSUME NEW v, StepsTo(v) \/ GoesTo(v)
      PROVE  op'.step = v /\ op.kind = "resume" /\ v \in W /\ op'.stale = op.stale
  BY <1>3 DEF StepsTo, GoesTo
<1>4. CASE Pause \/ Steer
  BY <1>2, <1>4, OpEnds DEF Pause, Steer, At
<1>5. CASE ResumeStart \/ ResumeResources
  <2>1. Ends \/ StepsTo("resources") \/ StepsTo("open")
    BY <1>5, AtResume DEF ResumeStart, ResumeResources, ResumeSteps
  <2> QED
    BY <2>1, <1>2, <1>3
<1>6. CASE ResumeOpen
  <2>1. GoesTo("latest") /\ op'.s = managed.s
    BY <1>3, <1>6, ResumeOpens
  <2>2. managed' = managed
    BY <1>6 DEF ResumeOpen
  <2> QED
    BY <1>3, <2>1, <2>2
<1>7. CASE ResumeBuilt
  <2>1. StepsTo("latest") /\ managed'.s = op.s
    BY <1>2, <1>3, <1>7, ResumeBuilds, ResumeFailed
  <2> QED
    BY <1>3, <2>1 DEF StepsTo, SameSession
<1>8. CASE ResumeSwap
  <2>1. StepsTo("latest") /\ managed' = [NoRuntime EXCEPT !.s = op.s]
    BY <1>8, AtResume DEF ResumeSwap, ResumeSteps
  <2> QED
    BY <1>3, <2>1 DEF StepsTo, SameSession, NoRuntime
<1>9. CASE ResumeLatest
  <2>1. queue # <<>> /\ op.s \in Session /\ op.kind = "resume" /\ op.step = "latest"
    BY <1>9, AtResume DEF ResumeLatest, ResumeSteps
  <2>2. live = op.s /\ UNCHANGED <<live, managed>> /\ GoesTo("update") /\ SameSession
    BY <1>2, <1>9, <2>1, ResumeReads, ResumeFailed
  <2>3. ~op.stale => managed.s = op.s
    BY <2>1 DEF ResumeHolds, Resuming
  <2> QED
    BY <1>3, <2>2, <2>3 DEF SameSession
<1>10. CASE ResumeUpdate
  <2>1. queue # <<>> /\ op.s \in Session /\ op.kind = "resume" /\ op.step = "update"
        /\ (Step("launch") => StepsTo("launch"))
    BY <1>10, AtResume DEF ResumeUpdate, ResumeSteps
  <2>2. ~op.stale /\ UNCHANGED <<live, managed>> /\ StepsTo("launch")
    BY <1>2, <1>10, <2>1, ResumeFailed DEF ResumeUpdate, MayResume
  <2>3. managed.s = op.s /\ live = op.s
    BY <2>1, <2>2 DEF ResumeHolds, Resuming
  <2> QED
    BY <1>3, <2>2, <2>3 DEF StepsTo, SameSession
<1>11. CASE ResumeLaunch
  <2>1. queue # <<>> /\ op.s \in Session
    BY <1>11, AtResume DEF ResumeLaunch, ResumeSteps
  <2>2. Ends \/ op' \in Waiting(queue) \cup {Rejected(op.s, managed'.turn)}
    BY <1>11, <2>1, Launches, ResumeFailed
  <2> QED
    BY <1>2, <2>2, TurnOps DEF Order, Waits
<1>12. CASE Acknowledge \/ SettleFail \/ BlockUnsettled \/ Publish \/ Accept \/ Refuse \/ Retire
  <2>1. Ends \/ \E v \in {"settle", "retire", "refuse"} : StepsTo(v)
    BY <1>12, AtSettled DEF Acknowledge, SettleFail, BlockUnsettled, Publish, Accept, Refuse,
       Retire, SettleSteps
  <2> QED
    BY <1>2, <1>3, <2>1
<1>13. CASE Settle \/ Verify
  <2>1. Ends \/ \E v \in {"fail", "block", "publish", "verify", "accept", "refuse"} :
                   StepsTo(v) \/ GoesTo(v)
    BY <1>13, SettleChooses, VerifyChooses
  <2> QED
    BY <1>2, <1>3, <2>1
<1> QED
  BY <1>1, <1>4, <1>5, <1>6, <1>7, <1>8, <1>9, <1>10, <1>11, <1>12, <1>13 DEF Queued

\* The handler of a turn comes after the Worker has begun.
LEMMA HandlersLateStep ==
  ASSUME Types, Order, Life, Writer, HandlersLate, [Next]_vars
  PROVE  HandlersLate'
<1> SUFFICES ASSUME NEW o \in Range(queue'), o.kind \in SettledKind
             PROVE  rec'.status \notin NotBegun
  BY DEF HandlersLate
<1>1. rec.status \notin NotBegun => rec'.status \notin NotBegun
  BY LifeStep, LifeStutter, LivesOn
<1>2. ~Crash
  BY EmptyQueue DEF Crash
<1>3. CASE \E p \in Range(queue) : p.kind \in SettledKind
  BY <1>1, <1>3 DEF HandlersLate
<1>4. CASE \E s \in Session : EndTurn(s)
  BY <1>1, <1>4 DEF EndTurn, Writer, Begun, Runs
<1>5. CASE ResumeLaunch
  <2>1. Resuming({"launch"})
    BY <1>5, AtResume DEF ResumeLaunch, ResumeSteps, Resuming
  <2> QED
    BY <1>1, <2>1 DEF Writer, Launching, NotBegun
<1>6. CASE Queued /\ ~ResumeLaunch
  <2>1. op \in Range(queue) /\ Waiting(queue) \subseteq Range(queue)
    BY <1>6, QueuedWorks, TheOp
  <2>2. CASE Ends
    BY <1>3, <2>1, <2>2 DEF Ends
  <2>3. CASE \E w : GoesTo(w)
    BY <1>3, <2>1, <2>3 DEF GoesTo
  <2> QED
    BY <1>6, <2>2, <2>3, QueuedWorks
<1>7. CASE queue' = queue
  BY <1>3, <1>7
<1>8. CASE Joins
  BY <1>3, <1>4, <1>8 DEF Joins, Gains
<1>9. CASE AbortRequest /\ queue' = Superseded(queue)
  BY <1>3, <1>9, SupersededOps
<1> QED
  BY <1>2, <1>5, <1>6, <1>7, <1>8, <1>9, QueueMoves

\* No disposition is submitted any more when the handler of the current turn runs.
LEMMA TurnSilent ==
  ASSUME Types, Turns, Writer, CallsLive, queue # <<>>, op.kind \in SettledKind, OpTurn,
         Submits, rec.status \in Running, rec'.status = "verifying"
  PROVE  FALSE
<1>1. \A u \in Session : sess[u] # "busy"
  BY TurnQuiet
<1>2. PICK s \in Session : ProgressPaused(s) \/ Escalate(s) \/ CompleteUpdate(s)
  BY DEF Submits
<1>3. CASE ProgressPaused(s) \/ Escalate(s)
  BY <1>1, <1>3 DEF ProgressPaused, Escalate, MayCall
<1>4. CASE CompleteUpdate(s)
  <2>1. ~Idling(s)
    BY <1>4 DEF CompleteUpdate, CallAt, Idling
  <2>2. live = s
    BY <1>4 DEF CompleteUpdate, Running
  <2> QED
    BY <1>1, <2>1, <2>2 DEF CallsLive
<1> QED
  BY <1>2, <1>3, <1>4

\* The handler of the current turn finds what it chose its step for.
LEMMA HandlerFitsStep ==
  ASSUME Types, Order, Turns, Writer, CallsLive, HandlersLate, HandlerFits, [Next]_vars
  PROVE  HandlerFits'
<1> DEFINE W == {"publish", "verify", "accept", "refuse", "block"}
           F == /\ op.step = "publish" => rec.status = "verifying" /\ rec.pending = op.seen
                /\ op.step \in {"verify", "accept", "refuse"} => rec.status = "verifying"
                /\ op.step = "block" => rec.status \in Running
<1> SUFFICES ASSUME queue' # <<>>, op'.kind \in SettledKind, op'.step \in W, OpTurn',
                    rec'.status \in ActiveStatuses
             PROVE  F'
  BY DEF HandlerFits, Settling
<1>0. ASSUME queue # <<>>, op.kind \in SettledKind, op.step \in W, OpTurn,
             rec.status \in ActiveStatuses
      PROVE  F
  BY <1>0 DEF HandlerFits, Settling
<1> HIDE DEF F
<1>1. CASE ~Queued
  <2>1. queue # <<>> /\ op.kind \in SettledKind /\ op.step \in W
        /\ op'.s = op.s /\ op'.turn = op.turn /\ op'.step = op.step /\ op'.seen = op.seen
    BY <1>1, HeadKept DEF SameOp, SameReading
  <2>2. OpTurn
    BY <2>1, TurnStays DEF Settling
  <2>3. rec.status \notin NotBegun
    BY <2>1, TheOp DEF HandlersLate
  <2>4. PendingBy
    BY PendingWritten DEF Pending
  <2>5. rec.status \in ActiveStatuses /\ rec'.status = rec.status /\ rec'.pending = rec.pending
    BY <1>1, <2>1, <2>2, <2>3, <2>4, TurnSilent DEF PendingBy, Queued, NotBegun, ActiveStatuses
  <2> QED
    BY <1>0, <2>1, <2>2, <2>5 DEF F
<1>2. ASSUME Ends PROVE FALSE
  BY <1>2 DEF Ends, Order, Waits
<1>3. ASSUME NEW v, StepsTo(v) \/ GoesTo(v)
      PROVE  op'.step = v /\ op.kind \in SettledKind /\ v \in W
  BY <1>3 DEF StepsTo, GoesTo
<1>4. CASE Pause \/ Steer
  BY <1>2, <1>4, OpEnds DEF Pause, Steer, At
<1>5. CASE ResumeStart \/ ResumeResources \/ ResumeOpen \/ ResumeBuilt \/ ResumeSwap
           \/ ResumeLatest \/ ResumeUpdate \/ ResumeLaunch
  <2>1. op.kind = "resume" /\ queue # <<>>
    BY <1>5 DEF ResumeStart, ResumeResources, ResumeOpen, ResumeBuilt, ResumeSwap, ResumeLatest,
       ResumeUpdate, ResumeLaunch, ResumeAt, At
  <2>2. Ends \/ ResumeLaunch
    BY <1>3, <1>5, <2>1, QueuedWorks DEF Queued, SettledKind
  <2>3. CASE ResumeLaunch
    <3>1. op.s \in Session
      BY <2>3, AtResume DEF ResumeLaunch, ResumeSteps
    <3>2. Ends \/ op' \in Waiting(queue) \cup {Rejected(op.s, managed'.turn)}
      BY <2>1, <2>3, <3>1, Launches, ResumeFailed
    <3> QED
      BY <1>2, <3>2, TurnOps DEF Order, Waits
  <2> QED
    BY <1>2, <2>2, <2>3
<1>6. CASE Acknowledge \/ SettleFail \/ BlockUnsettled \/ Publish \/ Refuse \/ Retire
  <2>1. Ends \/ \E v \in {"settle", "retire"} : StepsTo(v)
    BY <1>6, AtSettled DEF Acknowledge, SettleFail, BlockUnsettled, Publish, Refuse,
       Retire, SettleSteps
  <2> QED
    BY <1>2, <1>3, <2>1
<1>7. CASE Settle
  <2>1. rec' = rec
    BY <1>7 DEF Settle, durable
  <2>2. CASE rec.status = "verifying" /\ op'.seen = rec.pending /\ (GoesTo("verify") \/ GoesTo("publish"))
    BY <1>3, <2>1, <2>2 DEF F
  <2>3. CASE StepsTo("block") /\ rec.status \in Running
    BY <1>3, <2>1, <2>3 DEF F
  <2> QED
    BY <1>2, <1>3, <1>7, <2>2, <2>3, SettleChooses
<1>8. CASE Verify \/ Accept
  <2>1. queue # <<>> /\ op.kind \in SettledKind /\ op.step \in {"verify", "accept"}
    BY <1>8, AtSettled DEF Verify, Accept
  <2>2. StepsTo("accept") \/ StepsTo("refuse")
    BY <1>2, <1>3, <1>8, AtSettled, VerifyChooses DEF Accept, SettleSteps
  <2>3. op'.s = op.s /\ op'.turn = op.turn /\ op'.step \in {"accept", "refuse"}
    BY <2>2 DEF StepsTo, GoesTo, SameSession
  <2>4. OpTurn
    BY <2>1, <2>3, TurnStays DEF Settling
  <2>5. rec' = rec
    <3>1. Verify => rec' = rec
      BY DEF Verify, durable
    <3>2. Accept => rec' = rec \/ Step("retire")
      BY DEF Accept
    <3>3. Step("retire") => StepsTo("retire")
      BY <1>8, AtSettled DEF Verify, Accept, SettleSteps
    <3> QED
      BY <1>3, <1>8, <3>1, <3>2, <3>3
  <2> QED
    BY <1>0, <2>1, <2>3, <2>4, <2>5 DEF F
<1> QED
  BY <1>1, <1>4, <1>5, <1>6, <1>7, <1>8 DEF Queued

\* The handler of the current turn goes on until the Worker is not active any more.
LEMMA HandlerGoesOn ==
  ASSUME Types, NobodyActive, HandlerFits, Queued, op.kind \in SettledKind, OpTurn,
         rec.status \in Running \cup {"verifying"}, rec'.status \in Running \cup {"verifying"}
  PROVE  \E p \in Range(queue') : p.kind \in SettledKind /\ p.s = op.s /\ p.turn = op.turn
<1> DEFINE G == \E p \in Range(queue') : p.kind \in SettledKind /\ p.s = op.s /\ p.turn = op.turn
<1>1. queue # <<>> /\ op \in OpType
  BY QueuedWorks
<1>2. ASSUME NEW v, StepsTo(v) \/ (GoesTo(v) /\ SameSession) PROVE G
  <2>1. op' \in Range(queue') /\ op'.kind = op.kind /\ op'.s = op.s /\ op'.turn = op.turn
    BY <1>2 DEF StepsTo, GoesTo, SameSession
  <2> QED
    BY <2>1
<1> HIDE DEF G
<1>3. ASSUME NEW v, Move(v) \/ Become(v), v \notin Running \cup {"verifying"} PROVE FALSE
  BY <1>3, Moves, Becomes
<1>4. CASE Acknowledge
  BY <1>2, <1>4, AtSettled DEF Acknowledge, SettleSteps, G
<1>5. CASE Settle
  BY <1>2, <1>5, SettleChooses DEF Running, Resumable, Finished, G
<1>6. CASE SettleFail
  BY <1>3, <1>6 DEF SettleFail, Running, ActiveStatuses
<1>7. CASE BlockUnsettled
  <2>1. rec.status \in Running
    BY <1>1, <1>7, AtSettled DEF BlockUnsettled, HandlerFits, Settling, Running, ActiveStatuses
  <2>2. Move("blocked")
    BY <1>7, <2>1 DEF BlockUnsettled
  <2> QED
    BY <1>3, <2>2 DEF Running
<1>8. CASE Publish
  <2>1. rec.status = "verifying" /\ rec.pending = op.seen
    BY <1>1, <1>8, AtSettled DEF Publish, HandlerFits, Settling, Running, ActiveStatuses
  <2>2. Become(op.seen) /\ op.seen \in PendingSet
    BY <1>1, <1>8, <2>1 DEF Publish, OpType, OpRecord
  <2> QED
    BY <1>3, <2>2 DEF Running, PendingSet
<1>9. CASE Verify
  BY <1>2, <1>9, VerifyChooses DEF G
<1>10. CASE Accept
  <2>1. Become("completed") \/ StepsTo("refuse")
    BY <1>10, AtSettled DEF Accept, SettleSteps
  <2> QED
    BY <1>2, <1>3, <2>1 DEF Running, G
<1>11. CASE Refuse
  <2>1. rec.status = "verifying"
    BY <1>1, <1>11, AtSettled DEF Refuse, HandlerFits, Settling, Running, ActiveStatuses
  <2>2. Become("blocked")
    BY <1>11, <2>1 DEF Refuse
  <2> QED
    BY <1>3, <2>2 DEF Running
<1>12. CASE Retire
  BY <1>12, PreparingHere DEF Pending, ActiveStatuses, Running
<1>13. /\ ~Pause /\ ~Steer /\ ~ResumeStart /\ ~ResumeResources /\ ~ResumeOpen /\ ~ResumeBuilt
       /\ ~ResumeSwap /\ ~ResumeLatest /\ ~ResumeUpdate /\ ~ResumeLaunch
  BY DEF Pause, Steer, ResumeStart, ResumeResources, ResumeOpen, ResumeBuilt, ResumeSwap,
     ResumeLatest, ResumeUpdate, ResumeLaunch, ResumeAt, SettledKind
<1> QED
  BY <1>4, <1>5, <1>6, <1>7, <1>8, <1>9, <1>10, <1>11, <1>12, <1>13 DEF Queued, G

\* A prompt that is launched is a turn of the current session, or is rejected.
LEMMA LaunchTends ==
  ASSUME Types, ResumeHolds, ResumeLaunch, ~op.stale
  PROVE  Tended'
<1>1. queue # <<>> /\ op.kind = "resume" /\ op.step = "launch" /\ op.s \in Session /\ op.s # 0
  BY AtResume, BoundsAreSane DEF ResumeLaunch, ResumeSteps, Session
<1>2. managed.s = op.s /\ live = op.s
  BY <1>1 DEF ResumeHolds, Resuming
<1>3. ~ResumeFails
  <2>1. managed' = [managed EXCEPT !.turn = @ + 1, !.attempt = rec.attempt, !.instr = op.instr]
    BY <1>2 DEF ResumeLaunch
  <2>2. managed'.s = managed.s /\ managed'.turn = managed.turn + 1 /\ managed.turn \in Nat
    BY <2>1 DEF Types, ManagedType
  <2> QED
    BY <1>1, <1>2, <2>2, ResumeFailed DEF Drops
<1>4. live' = op.s /\ managed'.s = op.s
  BY <1>2, <1>3, Launches
<1>5. CASE sess' = [sess EXCEPT ![op.s] = "busy"]
  BY <1>1, <1>4, <1>5 DEF Tended, Types
<1>6. CASE Rejected(op.s, managed'.turn) \in Range(queue')
  BY <1>1, <1>4, <1>6, TurnOps DEF Tended, Handles, SettledKind
<1> QED
  BY <1>3, <1>5, <1>6, Launches

\* A turn that ends leaves its handler.
LEMMA EndLeavesHandler ==
  ASSUME Types, NEW s \in Session, EndTurn(s)
  PROVE  \E o \in Range(queue') : o.kind \in SettledKind /\ o.s = s /\ o.turn = managed.turn
<1>1. Gains(Ended(s))
  BY TurnEnds
<1> DEFINE r == Rejected(s, managed.turn)
<1>2. \E x \in OpType : (x = r \/ \E f \in BOOLEAN : x = Settled(s, managed.turn, f)) /\ x \in Range(queue')
  <2>1. r \in OpType /\ \A f \in BOOLEAN : Settled(s, managed.turn, f) \in OpType
    BY NewOps
  <2>2. queue \in Seq(OpType)
    BY DEF Types
  <2>3. CASE queue' = Append(queue, r)
    <3>1. r \in Range(queue')
      BY <2>1, <2>2, <2>3, QueueAppend
    <3> QED
      BY <2>1, <3>1
  <2>4. CASE \E f \in BOOLEAN, events \in {<<>>, <<r>>} :
                queue' = queue \o <<Settled(s, managed.turn, f)>> \o events
    <3>1. PICK f \in BOOLEAN, events \in {<<>>, <<r>>} :
             queue' = queue \o <<Settled(s, managed.turn, f)>> \o events
      BY <2>4
    <3> DEFINE x == Settled(s, managed.turn, f)
               q == queue \o <<x>> \o events
    <3>2. x \in OpType
      BY <2>1
    <3> HIDE DEF x
    <3>3. events \in Seq(OpType)
      <4>1. CASE events = <<>>
        BY <4>1
      <4>2. CASE events = <<r>>
        <5> HIDE DEF r
        <5> QED
          BY <2>1, <4>2
      <4> QED
        BY <3>1, <4>1, <4>2
    <3>4. q \in Seq(OpType) /\ Len(queue) + 1 \in 1..Len(q) /\ q[Len(queue) + 1] = x
      BY <2>2, <3>2, <3>3
    <3>5. x \in Range(q)
      BY <3>4, Places
    <3> QED
      BY <2>1, <3>1, <3>2, <3>5 DEF x
  <2> QED
    BY <2>3, <2>4 DEF EndTurn, Enqueue
<1> QED
  BY <1>2, TurnOps DEF SettledKind

\* A session that tends an active Worker does so until the Worker is moved on.
LEMMA TendedStep ==
  ASSUME Types, Turns, Writer, AbortLeaves, NobodyActive, HandlerFits, Tended,
         rec.status \in Running \cup {"verifying"}, rec'.status \in Running \cup {"verifying"},
         [Next]_vars, ~Crash, ~Creating, ~ResumeLaunch
  PROVE  Tended'
<1>1. live # 0 /\ managed.s = live /\ live \in Session
  BY DEF Tended, Types, Session
<1>2. live' = live /\ managed' = managed
  <2>1. rec.status \in Pending /\ rec'.status \in Pending
    BY DEF Pending, ActiveStatuses, Running
  <2>2. AbortStop => abort.s # live
    BY DEF AbortStop, AbortAt, AbortLeaves
  <2> QED
    BY <1>1, <2>1, <2>2, SessionStays
<1>3. ASSUME \E p \in Range(queue') : p.kind \in SettledKind /\ p.s = live /\ p.turn = managed.turn
      PROVE  Tended'
  BY <1>1, <1>2, <1>3 DEF Tended, Handles
<1>4. CASE sess[live] = "busy"
  <2>1. CASE sess'[live] = "busy"
    BY <1>1, <1>2, <2>1 DEF Tended
  <2>2. CASE EndTurn(live)
    BY <1>1, <1>3, <2>2, EndLeavesHandler
  <2> QED
    BY <1>1, <1>2, <1>4, <2>1, <2>2, LiveRuns
<1>5. ASSUME NEW o \in Range(queue), Handles(o) PROVE Tended'
  <2>1. o.kind \in SettledKind /\ o.s = live /\ o.turn = managed.turn
    BY <1>5 DEF Handles
  <2>2. CASE Queued /\ o = op
    <3>1. OpTurn
      BY <1>1, <2>1, <2>2 DEF OpTurn, CurrentTurn
    <3> QED
      BY <1>3, <2>1, <2>2, <3>1, HandlerGoesOn
  <2>3. CASE ~(Queued /\ o = op)
    BY <1>3, <2>1, <2>3, OpsKept
  <2> QED
    BY <2>2, <2>3
<1> QED
  BY <1>4, <1>5 DEF Tended

\* Somebody moves an active Worker on.
LEMMA CarriedStep ==
  ASSUME Types, Order, Turns, Writer, AbortLeaves, StartIsCurrent, StartIsThere,
         NobodyActive, ResumeHolds, HandlerFits, Carried, [Next]_vars
  PROVE  Carried'
<1> DEFINE Busy == Running \cup {"verifying"}
           G == create'.step \in InStart \/ Resuming({"launch"})' \/ abort'.step \in InAbort \/ Tended'
<1> SUFFICES ASSUME mode' = "up", rec'.status \in Busy
             PROVE  G
  BY DEF Carried
<1>1. mode = "up" /\ ~Crash /\ PendingBy /\ rec'.status \in Pending
  <2>1. rec'.status \in Pending
    BY DEF Pending, ActiveStatuses, Running
  <2> QED
    BY <2>1, PendingWritten, RestartedNone DEF Crash
<1>2. CASE CreateBegin /\ rec.status = "starting" /\ rec'.status = "working"
  <2>1. create.s \in Session /\ create.s # 0
    BY <1>2, BoundsAreSane DEF CreateBegin, CreateAt, Types, CreateType, Session
  <2>2. live = create.s
    BY <1>2, <2>1 DEF StartIsCurrent, Pending, ActiveStatuses
  <2>3. /\ managed.s = create.s /\ managed' = Launched(<<>>) /\ live' = live
        /\ sess' = [sess EXCEPT ![create.s] = "busy"]
    BY <1>2 DEF CreateBegin
  <2>4. managed'.s = create.s
    BY <2>3 DEF Launched, Types, ManagedType
  <2> QED
    BY <2>1, <2>2, <2>3, <2>4 DEF Tended, Types
<1>3. CASE ResumeUpdate /\ MayResume /\ rec'.status = "working"
  <2>1. StepsTo("launch") /\ op.kind = "resume"
    BY <1>3, AtResume DEF ResumeUpdate, ResumeSteps
  <2> QED
    BY <2>1 DEF StepsTo, GoesTo, Resuming
<1>4. CASE Pause /\ rec.status \in {"queued", "starting"}
  <2>1. create' = create /\ create.step \in InStart
    BY <1>1, <1>4 DEF Pause, StartIsThere
  <2> QED
    BY <2>1
<1>5. CASE rec.status \in Busy
  <2>1. rec.status \in Pending \ {"queued"}
    BY <1>5 DEF Pending, ActiveStatuses, Running
  <2>2. CASE Creating /\ ~CreateBegin
    <3>1. CASE create.step \in InStart
      BY <1>1, <2>1, <2>2, <3>1, StartGoesOn
    <3>2. CASE create.step \notin InStart
      <4>1. CreateReserve \/ CreateDrop
        BY <2>2, <3>2 DEF Creating, CreateStart, CreatePlan, CreateAddTree, CreateAddTreeFails,
           CreateOpen, CreateBuilt, CreateSwap, CreateFail, CreateAt, InStart
      <4>2. CASE CreateReserve
        <5>1. CASE create'.step = "start"
          BY <5>1 DEF InStart
        <5>2. CASE create'.step # "start"
          <6>1. UNCHANGED <<rec, live, managed, sess, queue, abort>>
            BY <4>2, <5>2, Creates DEF CreateReserve, sessions
          <6>2. Resuming({"launch"})' <=> Resuming({"launch"})
            BY <6>1 DEF Resuming, op
          <6>3. Tended' <=> Tended
            BY <6>1 DEF Tended, Handles
          <6> QED
            BY <1>1, <1>5, <3>2, <6>1, <6>2, <6>3 DEF Carried
        <5> QED
          BY <5>1, <5>2
      <4>3. CASE CreateDrop
        BY <1>5, <4>3 DEF CreateDrop, CreateAt, Writer, Dropping, Running
      <4> QED
        BY <4>1, <4>2, <4>3
    <3> QED
      BY <3>1, <3>2
  <2>3. CASE CreateBegin
    <3>1. create' = [create EXCEPT !.step = "fail"]
      BY <1>5, <2>3 DEF CreateBegin, CreateTo, Running
    <3>2. create'.step = "fail"
      BY <2>3, <3>1, Creates DEF CreateTo
    <3> QED
      BY <3>2 DEF InStart
  <2>4. CASE ResumeLaunch
    <3>1. CASE op.stale
      <4>1. abort.step \in InAbort
        BY <2>4, <3>1, AtResume DEF ResumeLaunch, ResumeSteps, ResumeHolds, Resuming
      <4> QED
        BY <1>1, <2>1, <4>1, AbortGoesOn
    <3> QED
      BY <2>4, <3>1, LaunchTends
  <2>5. CASE ~Creating /\ ~ResumeLaunch
    <3>1. CASE create.step \in InStart
      BY <1>1, <2>1, <2>5, <3>1, StartGoesOn DEF Creating
    <3>2. CASE abort.step \in InAbort
      BY <1>1, <2>1, <3>2, AbortGoesOn
    <3>3. CASE Tended
      BY <1>1, <1>5, <2>5, <3>3, TendedStep
    <3>4. CASE Resuming({"launch"})
      <4>1. ~Queued
        <5>1. op.kind = "resume" /\ op.step = "launch"
          BY <3>4 DEF Resuming
        <5> QED
          BY <2>5, <5>1 DEF Queued, Pause, Steer, ResumeStart, ResumeResources, ResumeOpen,
             ResumeBuilt, ResumeSwap, ResumeLatest, ResumeUpdate, Acknowledge, Settle, SettleFail,
             BlockUnsettled, Publish, Verify, Accept, Refuse, Retire, ResumeAt, SettledAt, At
      <4>2. Resuming({"launch"})'
        BY <1>1, <3>4, <4>1, HeadOn
      <4> QED
        BY <4>2
    <3> QED
      BY <1>1, <1>5, <3>1, <3>2, <3>3, <3>4 DEF Carried
  <2> QED
    BY <2>2, <2>3, <2>4, <2>5
<1> HIDE DEF G
<1> QED
  BY <1>1, <1>2, <1>3, <1>4, <1>5 DEF PendingBy, Running, Pending, ActiveStatuses

\* A working Worker without a session is being started or aborted.
LEMMA WithoutSession ==
  ASSUME Types, ResumeHolds, Carried, mode = "up", rec.status = "working", managed.s = 0
  PROVE  create.step \in InStart \/ abort.step \in InAbort
<1>1. ~Tended
  BY DEF Tended
<1>2. Resuming({"launch"}) => abort.step \in InAbort
  <2>1. Resuming({"launch"}) => op.s \in Session /\ op.s # 0
    BY TheOp, BoundsAreSane DEF Resuming, OpType, HasSession, Session
  <2> QED
    BY <2>1 DEF ResumeHolds, Resuming
<1> QED
  BY <1>1, <1>2 DEF Carried, Running

\* Somebody asks the Worker of a paused project to pause.
LEMMA PauseComesStep ==
  ASSUME Types, StartIsCurrent, ResumeHolds, Carried, PauseComes, [Next]_vars
  PROVE  PauseComes'
<1> DEFINE G == \/ pausing' \/ create'.step \in InStart \/ abort'.step \in InAbort
                \/ \E o \in Range(queue') : o.kind = "pause"
<1> SUFFICES ASSUME mode' = "up", paused', rec'.status = "working"
             PROVE  G
  BY DEF PauseComes
<1>1. mode = "up" /\ ~Crash /\ PendingBy /\ rec'.status \in Pending
  <2>1. rec'.status \in Pending
    BY DEF Pending, ActiveStatuses
  <2> QED
    BY <2>1, PendingWritten, RestartedNone DEF Crash
<1>2. CASE PauseProject
  BY <1>2 DEF PauseProject
<1>3. CASE ~PauseProject
  <2>1. paused
    <3>1. paused' = paused \/ ResumeProject
      BY <1>1, <1>3, PausedChanges
    <3> QED
      BY <3>1 DEF ResumeProject
  <2>2. rec.status = "working"
    BY <1>1, <2>1 DEF PendingBy, MayResume
  <2>3. ASSUME create.step \in InStart PROVE G
    <3>1. create'.step \in InStart \/ CreateBegin
      BY <1>1, <2>2, <2>3, StartGoesOn DEF Pending, ActiveStatuses
    <3>2. CreateBegin => CreateTo("fail")
      BY <2>1 DEF CreateBegin
    <3> QED
      BY <3>1, <3>2, Creates DEF InStart
  <2>4. ASSUME abort.step \in InAbort PROVE G
    BY <1>1, <2>2, <2>4, AbortGoesOn DEF Pending, ActiveStatuses
  <2>5. ASSUME managed.s = 0 PROVE G
    BY <1>1, <2>2, <2>3, <2>4, <2>5, WithoutSession
  <2>6. CASE pausing
    <3>1. pausing' = pausing \/ PauseActive
      BY <1>1, <1>3, PausedChanges
    <3>2. CASE PauseActive /\ managed.s # 0
      <4>1. queue' = Append(queue, Op("pause"))
        BY <2>2, <3>2 DEF PauseActive, Enqueue, ActiveStatuses
      <4>2. Op("pause") \in Range(queue')
        BY <4>1, NewOps, QueueAppend DEF Types
      <4> QED
        BY <4>2 DEF Op
    <3> QED
      BY <2>5, <2>6, <3>1, <3>2
  <2>7. ASSUME NEW o \in Range(queue), o.kind = "pause" PROVE G
    <3>1. CASE Queued /\ o = op /\ managed.s # 0
      <4>1. Pause
        BY <2>7, <3>1 DEF Queued, Steer, ResumeStart, ResumeResources, ResumeOpen,
           ResumeBuilt, ResumeSwap, ResumeLatest, ResumeUpdate, ResumeLaunch, Acknowledge, Settle,
           SettleFail, BlockUnsettled, Publish, Verify, Accept, Refuse, Retire, ResumeAt, SettledAt
      <4>2. Move("pause_requested")
        BY <2>2, <3>1, <4>1 DEF Pause
      <4> QED
        BY <4>2, Moves
    <3>2. CASE ~(Queued /\ o = op)
      BY <1>1, <2>7, <3>2, OpsKept
    <3> QED
      BY <2>5, <3>1, <3>2
  <2> QED
    BY <1>1, <2>1, <2>2, <2>3, <2>4, <2>6, <2>7 DEF PauseComes
<1> QED
  BY <1>2, <1>3

-----------------------------------------------------------------------------
(* The invariant, and what it says *)

LEMMA ProgressInit == Init => Progress
<1> SUFFICES ASSUME Init PROVE Progress
  OBVIOUS
<1>1. queue = <<>> /\ rec.status = "none" /\ create = Idle /\ abort = Idle /\ ~pausing /\ ~paused
  BY DEF Init
<1>2. \A s \in Session : Idling(s)
  BY DEF Init, Idling, NoCallback
<1>3. ~Preparing /\ (\A steps : ~Resuming(steps) /\ ~Settling(steps))
  BY <1>1 DEF Preparing, Resuming, Settling
<1> QED
  BY <1>1, <1>2, <1>3, EmptyQueue DEF Progress, CallsLive, AbortLeaves, StartIsCurrent,
     StartIsAlone, StartIsThere, NobodyActive, ResumeHolds, HandlersLate, HandlerFits, Carried,
     PauseComes, Idle, Running

\* While nobody resumes a Worker whose start is in flight, the invariant holds.
LEMMA ProgressInvariant ==
  ASSUME ~ResumeInCreate
  PROVE  Spec => []Progress
<1>1. /\ Types /\ Order /\ Life /\ Turns /\ Writer /\ Progress /\ [Next]_vars
      => Progress'
  BY CallsLiveStep, AbortLeavesStep, StartIsCurrentStep, StartIsAloneStep, StartIsThereStep,
     NobodyActiveStep, ResumeHoldsStep, HandlersLateStep, HandlerFitsStep, CarriedStep,
     PauseComesStep DEF Progress
<1> QED
  BY <1>1, ProgressInit, LifeInvariant, WriterInvariant, PTL DEF Spec

\* An active Worker is never abandoned: when no operation is left to move it on, the session
\* whose turn will is running, attached and current (worker-manager.ts as a whole: start,
\* resume, abort, the settled handler and the tool callbacks), with any number of sessions,
\* commands and crashes, provided nobody resumes the Worker while createAndStart is in flight.
THEOREM WorkerIsTended ==
  ASSUME ~ResumeInCreate
  PROVE  Spec => []ActiveHasSession
<1>1. Types /\ Progress => ActiveHasSession
  <2> SUFFICES ASSUME Types, Progress, Quiet, rec.status \in ActiveStatuses
               PROVE  managed.s # 0 /\ live = managed.s /\ sess[live] = "busy"
    BY DEF ActiveHasSession
  <2>1. mode = "up" /\ queue = <<>> /\ create.step \notin InStart /\ abort.step \notin InAbort
    BY DEF Quiet, Idle, InStart, InAbort
  <2>2. rec.status # "starting"
    BY <2>1 DEF Progress, StartIsThere
  <2>3. Tended
    BY <2>1, <2>2 DEF Progress, Carried, Resuming, ActiveStatuses, Running
  <2> QED
    BY <2>1, <2>3, EmptyQueue DEF Tended
<1> QED
  BY <1>1, LifeInvariant, ProgressInvariant, PTL

\* A paused project starts nothing: once everything that was asked for is done, its Worker is
\* not queued, starting or working (pauseProject and pauseActive with the start, the resume and
\* the abort they may meet on the way), under the same assumption.
THEOREM WorkerPauseHolds ==
  ASSUME ~ResumeInCreate
  PROVE  Spec => []PausedStartsNothing
<1>1. Progress => PausedStartsNothing
  <2> SUFFICES ASSUME Progress, Quiet, paused, rec.status \in {"queued", "starting", "working"}
               PROVE  FALSE
    BY DEF PausedStartsNothing
  <2>1. /\ mode = "up" /\ queue = <<>> /\ create.step \notin InStart /\ abort.step \notin InAbort
        /\ ~pausing
    BY DEF Quiet, Idle, InStart, InAbort
  <2>2. rec.status = "working"
    BY <2>1 DEF Progress, StartIsThere
  <2> QED
    BY <2>1, <2>2, EmptyQueue DEF Progress, PauseComes
<1> QED
  BY <1>1, ProgressInvariant, PTL
=============================================================================
