------------------------- MODULE ProjectStoreProofs -------------------------
(***************************************************************************)
(* What ProjectStore keeps for any number of processes and calls, and that *)
(* every behaviour of it is one that ProjectLifecycle allows the project.  *)
(*                                                                         *)
(* Everything rests on one fact: a call that is past the lock is the one   *)
(* the lock names (`LockIsHeld').  So nobody replaces state.json between   *)
(* the read and the rename of a call, and what it is about to write is the *)
(* update of what stands there (`ViewsAreFresh').                          *)
(***************************************************************************)
EXTENDS ProjectStore, TLAPS

UnderLock == {"locked", "commit", "artifacts", "template", "release", "failed"}
Places == UnderLock \cup {"idle", "queued", "artifact", "log", "reread", "refresh"}

DiskStates == {NoState} \cup [project : P!States, rev : Nat]

CallStates == [kind : Kinds \cup {"none"}, target : P!ActivePhases \cup {"none"}, at : Places,
               view : DiskStates, created : BOOLEAN]

Locks == {Unheld, Dead} \cup (Procs \X Calls)
ShownStates == [by : {"none", "update", "read", "overtaken"}, phase : P!Phases \cup {"none"}, rev : Nat]

Types ==
    /\ disk \in DiskStates
    /\ charter \in {"missing", "empty", "template", "written"}
    /\ lock \in Locks
    /\ call \in [Procs -> [Calls -> CallStates]]
    /\ queue \in [Procs -> Seq(Calls)] /\ log \in [Procs -> Seq(Calls)]
    /\ shown \in [Procs -> ShownStates]
    /\ renames \in Nat /\ writers \subseteq Procs

LockIsHeld ==
    \A p \in Procs, c \in Calls : call[p][c].at \in UnderLock => lock = <<p, c>>

\* It is also the one its process's queue lets run.
QueueHasHead ==
    \A p \in Procs, c \in Calls :
        call[p][c].at \in UnderLock => queue[p] # <<>> /\ Head(queue[p]) = c

\* The log has what waits for it, once.
LogHas(p, c) == \E i \in 1 .. Len(log[p]) : log[p][i] = c

LogIsOrdered ==
    \A p \in Procs :
        /\ \A i \in 1 .. Len(log[p]) : call[p][log[p][i]].at = "log"
        /\ \A i, j \in 1 .. Len(log[p]) : log[p][i] = log[p][j] => i = j
        /\ \A c \in Calls : call[p][c].at = "log" => LogHas(p, c)

Updates == {"move", "pause", "resume", "worker"}

\* A call that updates found a project, and asks for what there is.
AskedFor(p, c) ==
    /\ call[p][c].kind \in Updates => Exists
    /\ call[p][c].kind = "move" => call[p][c].target \in P!ActivePhases
    /\ call[p][c].at = "commit" => call[p][c].view.project \in P!States

Asked == \A p \in Procs, c \in Calls : AskedFor(p, c)

-----------------------------------------------------------------------------
(* Types *)

\* A project that the table lets move, pauses or resumes is a project.
LEMMA LifecycleTypes ==
  ASSUME NEW s \in P!States, NEW t \in P!ActivePhases
  PROVE  /\ P!Transitioned(s, t) \in P!States
         /\ P!Paused(s) \in P!States
         /\ P!Resumed(s) \in P!States
         /\ P!Fresh \in P!States
BY DEF P!States, P!Phases, P!ActivePhases, P!Transitioned, P!Paused, P!Resumed, P!Fresh

\* The calls that an action leaves alone.
Others(p, c) == \A q \in Procs, d \in Calls : q # p \/ d # c => call'[q][d] = call[q][d]

\* The call keeps what it does and has seen.
Stays(p, c) ==
    /\ call'[p][c].kind = call[p][c].kind /\ call'[p][c].target = call[p][c].target
    /\ call'[p][c].view = call[p][c].view /\ call'[p][c].created = call[p][c].created

\* The initial values of the tables have their types.
LEMMA Blanks ==
  /\ NoState \in DiskStates /\ Idle \in CallStates /\ Blank \in ShownStates
BY DEF NoState, DiskStates, Idle, CallStates, Kinds, Places, Blank, ShownStates

\* A call goes to its next step.
LEMMA GoesOn ==
  ASSUME Types, NEW p \in Procs, NEW c \in Calls, NEW s \in Places, Goes(p, c, s)
  PROVE  /\ call' \in [Procs -> [Calls -> CallStates]]
         /\ call'[p][c].at = s /\ Stays(p, c) /\ Others(p, c)
<1>2. call[p][c] \in CallStates
  BY DEF Types
<1>4. [call[p][c] EXCEPT !.at = s] \in CallStates
  BY <1>2 DEF CallStates
<1>1. call' \in [Procs -> [Calls -> CallStates]]
  BY <1>4 DEF Types, Goes
<1>3. call'[p][c] = [call[p][c] EXCEPT !.at = s] /\ Others(p, c)
  BY DEF Types, Goes, Others
<1> QED
  BY <1>1, <1>2, <1>3 DEF CallStates, Stays

\* A call ends.
LEMMA EndsHere ==
  ASSUME Types, NEW p \in Procs, NEW c \in Calls, Ends(p, c)
  PROVE  /\ call' \in [Procs -> [Calls -> CallStates]]
         /\ call'[p][c] = Idle /\ Others(p, c)
BY Blanks DEF Types, Ends, Others

\* A call becomes x.
LEMMA Becomes ==
  ASSUME Types, NEW p \in Procs, NEW c \in Calls, NEW x \in CallStates,
         call' = [call EXCEPT ![p][c] = x]
  PROVE  /\ call' \in [Procs -> [Calls -> CallStates]]
         /\ call'[p][c] = x /\ Others(p, c)
BY DEF Types, Others

\* What is shown has its type.
LEMMA ShowsTyped ==
  ASSUME Types, NEW p \in Procs, NEW by \in {"update", "read", "overtaken"}, NEW v \in DiskStates,
         Shows(p, by, v)
  PROVE  shown' \in [Procs -> ShownStates]
<1>1. [by |-> by, phase |-> v.project.phase, rev |-> v.rev] \in ShownStates
  BY DEF ShownStates, DiskStates, NoState, P!States, P!NoProject
<1> QED
  BY <1>1 DEF Types, Shows

\* The initial states have the types.
LEMMA InitTypes == Init => Types
<1> SUFFICES ASSUME Init PROVE Types
  OBVIOUS
<1>1. disk \in DiskStates
  <2>1. CASE disk = NoState
    BY <2>1, Blanks
  <2>2. ASSUME NEW s \in StartPhases, disk = [project |-> [P!Fresh EXCEPT !.phase = s], rev |-> 1]
        PROVE  disk \in DiskStates
    <3>1. s \in P!Phases
      BY PhasesAssumption DEF P!Phases
    <3>2. [P!Fresh EXCEPT !.phase = s] \in P!States
      BY <3>1 DEF P!States, P!Fresh
    <3> QED
      BY <2>2, <3>2 DEF DiskStates
  <2> QED
    BY <2>1, <2>2 DEF Init
<1>2. call \in [Procs -> [Calls -> CallStates]]
  BY Blanks DEF Init
<1>3. disk.rev \in Nat
  BY <1>1 DEF DiskStates, NoState
<1>4. charter \in {"missing", "empty", "template", "written"}
  BY DEF Init
<1>5. /\ shown \in [Procs -> ShownStates]
      /\ queue \in [Procs -> Seq(Calls)] /\ log \in [Procs -> Seq(Calls)]
  BY Blanks DEF Init
<1> QED
  BY <1>1, <1>2, <1>3, <1>4, <1>5 DEF Init, Types, Locks

\* What a call makes of the project is a project.
LEMMA UpdatedTyped ==
  ASSUME Types, Asked, NEW p \in Procs, NEW c \in Calls, call[p][c].kind \in Updates
  PROVE  /\ disk.project \in P!States /\ disk.rev \in Nat
         /\ Updated(disk.project, call[p][c].kind, call[p][c].target) \in P!States
<1>1. disk.project \in P!States /\ disk.rev \in Nat
  BY DEF Types, Asked, AskedFor, Exists, DiskStates
<1> DEFINE k == call[p][c].kind  t == call[p][c].target
<1>2. CASE k = "move"
  <2>1. t \in P!ActivePhases
    BY <1>2 DEF Asked, AskedFor
  <2> QED
    BY <1>1, <1>2, <2>1, LifecycleTypes DEF Updated
<1>3. P!Paused(disk.project) \in P!States /\ P!Resumed(disk.project) \in P!States
  BY <1>1, LifecycleTypes DEF P!ActivePhases
<1> QED
  BY <1>1, <1>2, <1>3 DEF Updated, Updates

\* Every step keeps the types.
LEMMA StepTypes ==
  ASSUME Types, QueueHasHead, LogIsOrdered, Asked, [Next]_vars
  PROVE  Types'
<1> SUFFICES Types'
  OBVIOUS
<1>1. ASSUME NEW p \in Procs, NEW c \in Calls, NEW k \in Kinds, NEW t \in Targets \cup {"none"}, Ask(p, c, k, t)
      PROVE  Types'
  <2> DEFINE x == [Idle EXCEPT !.kind = k, !.target = t,
            !.at = CASE k = "artifact" -> "artifact" [] k = "show" -> "reread" [] OTHER -> "queued"]
  <2>1. x \in CallStates
    BY Blanks, PhasesAssumption DEF CallStates, Places, Idle
  <2>2. call' \in [Procs -> [Calls -> CallStates]]
    BY <1>1, <2>1, Becomes DEF Ask
  <2>3. queue' \in [Procs -> Seq(Calls)]
    BY <1>1 DEF Ask, Types
  <2> QED
    BY <1>1, <2>2, <2>3 DEF Ask, Types, history
<1>2. ASSUME NEW p \in Procs, NEW c \in Calls, Step(p, c) PROVE Types'
  <2>1. CASE TakeLock(p, c)
    <3>1. call' \in [Procs -> [Calls -> CallStates]]
      BY <2>1, GoesOn DEF TakeLock, Places, UnderLock
    <3> QED
      BY <2>1, <3>1 DEF TakeLock, Types, Locks, history
  <2>2. CASE LockTimesOut(p, c)
    <3>1. call' \in [Procs -> [Calls -> CallStates]]
      BY <2>2, EndsHere DEF LockTimesOut, Ends
    <3>2. queue' \in [Procs -> Seq(Calls)]
      BY <2>2 DEF LockTimesOut, Types
    <3> QED
      BY <2>2, <3>1, <3>2 DEF LockTimesOut, Types, history
  <2>3. CASE InitLooks(p, c)
    <3>0. call[p][c] \in CallStates /\ disk \in DiskStates
      BY DEF Types
    <3>1. call' \in [Procs -> [Calls -> CallStates]]
      <4>1. [call[p][c] EXCEPT !.view = disk, !.at = "artifacts"] \in CallStates
        BY <3>0 DEF CallStates, Places, UnderLock
      <4>2. [project |-> P!Fresh, rev |-> 1] \in DiskStates
        BY DEF DiskStates, P!States, P!Fresh, P!Phases, P!ActivePhases
      <4>3. [call[p][c] EXCEPT !.view = [project |-> P!Fresh, rev |-> 1], !.created = TRUE, !.at = "commit"]
                \in CallStates
        BY <3>0, <4>2 DEF CallStates, Places, UnderLock
      <4> QED
        BY <2>3, <4>1, <4>3 DEF InitLooks, Types
    <3> QED
      BY <2>3, <3>1 DEF InitLooks, Types, history
  <2>4. CASE Apply(p, c)
    <3> DEFINE k == call[p][c].kind  t == call[p][c].target
               v == [project |-> Updated(disk.project, k, t), rev |-> disk.rev + 1]
    <3>0. call[p][c] \in CallStates
      BY DEF Types
    <3>1. CASE Accepts(disk.project, k, t)
      <4>1. v \in DiskStates
        BY <2>4, UpdatedTyped DEF Apply, Is, Updates, DiskStates
      <4>2. [call[p][c] EXCEPT !.at = "commit", !.view = v] \in CallStates
        BY <3>0, <4>1 DEF CallStates, Places, UnderLock
      <4> QED
        BY <2>4, <3>1, <4>2 DEF Apply, Types, history
    <3>2. CASE ~Accepts(disk.project, k, t)
      <4>1. [call[p][c] EXCEPT !.at = "failed"] \in CallStates
        BY <3>0 DEF CallStates, Places, UnderLock
      <4> QED
        BY <2>4, <3>2, <4>1 DEF Apply, Types, history
    <3> QED
      BY <3>1, <3>2
  <2>5. CASE Commit(p, c)
    <3>1. call' \in [Procs -> [Calls -> CallStates]]
      <4>1. CASE Is(p, c, {"init"})
        BY <2>5, <4>1, GoesOn DEF Commit, Places, UnderLock
      <4>2. CASE ~Is(p, c, {"init"})
        BY <2>5, <4>2, GoesOn DEF Commit, Places, UnderLock
      <4> QED
        BY <4>1, <4>2
    <3>2. disk' \in DiskStates
      BY <2>5 DEF Commit, Types, CallStates
    <3> QED
      BY <2>5, <3>1, <3>2 DEF Commit, Types
  <2>6. CASE CommitFails(p, c)
    <3>1. call' \in [Procs -> [Calls -> CallStates]]
      BY <2>6, GoesOn DEF CommitFails, Places, UnderLock
    <3> QED
      BY <2>6, <3>1 DEF CommitFails, Types, history
  <2>7. CASE CreateTemplate(p, c)
    <3>1. call' \in [Procs -> [Calls -> CallStates]]
      BY <2>7, GoesOn DEF CreateTemplate, Places, UnderLock
    <3> QED
      BY <2>7, <3>1 DEF CreateTemplate, Types, history
  <2>8. CASE FillTemplate(p, c)
    <3>1. call' \in [Procs -> [Calls -> CallStates]]
      BY <2>8, GoesOn DEF FillTemplate, Places, UnderLock
    <3> QED
      BY <2>8, <3>1 DEF FillTemplate, Types, history
  <2>9. CASE Release(p, c)
    <3>1. queue' \in [Procs -> Seq(Calls)]
      BY <2>9 DEF Release, Unqueue, At, UnderLock, QueueHasHead, Types
    <3>2. lock' \in Locks
      BY <2>9 DEF Release, Types, Locks
    <3>3. /\ call' \in [Procs -> [Calls -> CallStates]]
          /\ log' \in [Procs -> Seq(Calls)] /\ shown' \in [Procs -> ShownStates]
      <4>1. CASE Is(p, c, {"worker"}) \/ (Is(p, c, {"init"}) /\ ~call[p][c].created)
        <5>1. Ends(p, c) /\ Shows(p, "update", call[p][c].view) /\ UNCHANGED log
          BY <2>9, <4>1 DEF Release
        <5>2. call[p][c].view \in DiskStates
          BY DEF Types, CallStates
        <5> QED
          BY <5>1, <5>2, EndsHere, ShowsTyped DEF Types
      <4>2. CASE ~(Is(p, c, {"worker"}) \/ (Is(p, c, {"init"}) /\ ~call[p][c].created))
        <5>1. Goes(p, c, "log") /\ log' = [log EXCEPT ![p] = Append(@, c)] /\ UNCHANGED shown
          BY <2>9, <4>2 DEF Release
        <5> QED
          BY <5>1, GoesOn DEF Types, Places
      <4> QED
        BY <4>1, <4>2
    <3> QED
      BY <2>9, <3>1, <3>2, <3>3 DEF Release, Types, history
  <2>10. CASE ReleaseFailed(p, c)
    <3>1. call' \in [Procs -> [Calls -> CallStates]]
      BY <2>10, EndsHere DEF ReleaseFailed
    <3>2. lock' \in Locks /\ queue' \in [Procs -> Seq(Calls)]
      BY <2>10 DEF ReleaseFailed, Unqueue, At, UnderLock, QueueHasHead, Types, Locks
    <3> QED
      BY <2>10, <3>1, <3>2 DEF ReleaseFailed, Types, history
  <2>11. CASE WriteLog(p, c)
    <3>0. log[p] # <<>>
      BY <2>11 DEF WriteLog, At, LogIsOrdered, LogHas
    <3>1. log' \in [Procs -> Seq(Calls)]
      BY <2>11, <3>0 DEF WriteLog, Types
    <3>2. call' \in [Procs -> [Calls -> CallStates]] /\ shown' \in [Procs -> ShownStates]
      <4>1. CASE Is(p, c, {"artifact"})
        <5>1. Goes(p, c, "reread") /\ UNCHANGED shown
          BY <2>11, <4>1 DEF WriteLog
        <5> QED
          BY <5>1, GoesOn DEF Types, Places
      <4>2. CASE ~Is(p, c, {"artifact"})
        <5>1. Ends(p, c) /\ Shows(p, "update", call[p][c].view)
          BY <2>11, <4>2 DEF WriteLog
        <5>2. call[p][c].view \in DiskStates
          BY DEF Types, CallStates
        <5> QED
          BY <5>1, <5>2, EndsHere, ShowsTyped
      <4> QED
        BY <4>1, <4>2
    <3> QED
      BY <2>11, <3>1, <3>2 DEF WriteLog, Types, history
  <2>12. CASE WriteArtifact(p, c)
    <3>1. call' \in [Procs -> [Calls -> CallStates]]
      BY <2>12, GoesOn DEF WriteArtifact, Places
    <3>2. log' \in [Procs -> Seq(Calls)]
      BY <2>12 DEF WriteArtifact, Types
    <3> QED
      BY <2>12, <3>1, <3>2 DEF WriteArtifact, Types, history
  <2>13. CASE Reread(p, c)
    <3>0. call[p][c] \in CallStates /\ disk \in DiskStates
      BY DEF Types
    <3>2. [call[p][c] EXCEPT !.view = disk, !.at = "refresh"] \in CallStates
      BY <3>0 DEF CallStates, Places
    <3>1. call' \in [Procs -> [Calls -> CallStates]]
      BY <2>13, <3>2 DEF Reread, Types
    <3> QED
      BY <2>13, <3>1 DEF Reread, Types, history
  <2>14. CASE Refresh(p, c)
    <3>1. call' \in [Procs -> [Calls -> CallStates]]
      BY <2>14, EndsHere DEF Refresh
    <3>2. call[p][c].view \in DiskStates
      BY DEF Types, CallStates
    <3>3. shown' \in [Procs -> ShownStates]
      BY <2>14, <3>2, ShowsTyped DEF Refresh
    <3> QED
      BY <2>14, <3>1, <3>3 DEF Refresh, Types, history
  <2> QED
    BY <1>2, <2>1, <2>2, <2>3, <2>4, <2>5, <2>6, <2>7, <2>8, <2>9, <2>10, <2>11, <2>12, <2>13,
       <2>14 DEF Step
<1>3. ASSUME NEW p \in Procs, Crash(p) PROVE Types'
  BY <1>3, Blanks DEF Crash, Types, Locks, history
<1>4. CASE Reclaim
  BY <1>4 DEF Reclaim, Types, Locks, history
<1>5. CASE UNCHANGED vars
  BY <1>5 DEF vars, Types
<1> QED
  BY <1>1, <1>2, <1>3, <1>4, <1>5 DEF Next, Kinds
-----------------------------------------------------------------------------
(* The lock and the queue *)

\* A call under the lock goes on there.
Proceeds(p, c) ==
    /\ call[p][c].at \in UnderLock /\ call'[p][c].at \in UnderLock
    /\ lock' = lock /\ queue' = queue

\* A call that waits leaves the queue, with the lock or without it.
Enters(p, c) ==
    /\ call[p][c].at = "queued" /\ queue[p] # <<>> /\ Head(queue[p]) = c
    /\ \/ lock = Unheld /\ lock' = <<p, c>> /\ queue' = queue
       \/ call'[p][c] = Idle /\ lock' = lock /\ Unqueue(p)

\* A call gives the lock back.
Leaves(p, c) ==
    /\ call[p][c].at \in UnderLock /\ call'[p][c].at \notin UnderLock
    /\ lock' = IF Holds(p, c) THEN Unheld ELSE lock
    /\ Unqueue(p)

\* A call has nothing to do with the lock.
Apart(p, c) ==
    /\ call[p][c].at \notin UnderLock /\ call'[p][c].at \notin UnderLock
    /\ lock' = lock /\ queue' = queue

\* Every step of a call is one of the four.
LEMMA StepLocks ==
  ASSUME Types, NEW p \in Procs, NEW c \in Calls, Step(p, c)
  PROVE  /\ Others(p, c)
         /\ Proceeds(p, c) \/ Enters(p, c) \/ Leaves(p, c) \/ Apart(p, c)
<1>1. CASE TakeLock(p, c)
  BY <1>1, GoesOn DEF TakeLock, Places, UnderLock, Enters, At
<1>2. CASE LockTimesOut(p, c)
  BY <1>2, EndsHere DEF LockTimesOut, Ends, Enters, At, Unqueue
<1>3. CASE InitLooks(p, c)
  <2>1. call[p][c] \in CallStates
    BY DEF Types
  <2>2. Others(p, c) /\ call'[p][c].at \in {"artifacts", "commit"}
    BY <1>3, <2>1 DEF InitLooks, Types, Others, CallStates
  <2> QED
    BY <1>3, <2>2 DEF InitLooks, Proceeds, At, UnderLock
<1>4. CASE Apply(p, c)
  <2>1. call[p][c] \in CallStates
    BY DEF Types
  <2>2. Others(p, c) /\ call'[p][c].at \in {"failed", "commit"}
    BY <1>4, <2>1 DEF Apply, Types, Others, CallStates
  <2> QED
    BY <1>4, <2>2 DEF Apply, Proceeds, At, UnderLock
<1>5. CASE Commit(p, c)
  BY <1>5, GoesOn DEF Commit, Places, UnderLock, Proceeds, At
<1>6. CASE CommitFails(p, c)
  BY <1>6, GoesOn DEF CommitFails, Places, UnderLock, Proceeds, At
<1>7. CASE CreateTemplate(p, c)
  BY <1>7, GoesOn DEF CreateTemplate, Places, UnderLock, Proceeds, At
<1>8. CASE FillTemplate(p, c)
  BY <1>8, GoesOn DEF FillTemplate, Places, UnderLock, Proceeds, At
<1>9. CASE Release(p, c)
  <2>1. Ends(p, c) \/ Goes(p, c, "log")
    BY <1>9 DEF Release
  <2>2. Others(p, c) /\ call'[p][c].at \in {"idle", "log"}
    BY <2>1, GoesOn, EndsHere DEF Places, Idle
  <2> QED
    BY <1>9, <2>2 DEF Release, UnderLock, Leaves, At
<1>10. CASE ReleaseFailed(p, c)
  BY <1>10, EndsHere DEF ReleaseFailed, UnderLock, Leaves, At, Idle
<1>11. CASE WriteLog(p, c)
  <2>1. Ends(p, c) \/ Goes(p, c, "reread")
    BY <1>11 DEF WriteLog
  <2>2. Others(p, c) /\ call'[p][c].at \in {"idle", "reread"}
    BY <2>1, GoesOn, EndsHere DEF Places, Idle
  <2> QED
    BY <1>11, <2>2 DEF WriteLog, UnderLock, Apart, At
<1>12. CASE WriteArtifact(p, c)
  BY <1>12, GoesOn DEF WriteArtifact, Places, UnderLock, Apart, At
<1>13. CASE Reread(p, c)
  <2>1. call[p][c] \in CallStates
    BY DEF Types
  <2>2. Others(p, c) /\ call'[p][c].at = "refresh"
    BY <1>13, <2>1 DEF Reread, Types, Others, CallStates
  <2> QED
    BY <1>13, <2>2 DEF Reread, UnderLock, Apart, At
<1>14. CASE Refresh(p, c)
  BY <1>14, EndsHere DEF Refresh, UnderLock, Apart, At, Idle
<1> QED
  BY <1>1, <1>2, <1>3, <1>4, <1>5, <1>6, <1>7, <1>8, <1>9, <1>10, <1>11, <1>12, <1>13,
     <1>14 DEF Step

\* A call that begins is not under the lock, and waits behind the others.
LEMMA AskLocks ==
  ASSUME Types, NEW p \in Procs, NEW c \in Calls, NEW k \in Kinds, NEW t \in Targets \cup {"none"},
         Ask(p, c, k, t)
  PROVE  /\ Others(p, c) /\ call'[p][c].kind = k /\ call'[p][c].target = t
         /\ call'[p][c].at \in {"artifact", "reread", "queued"}
         /\ call'[p][c].at = "artifact" => k = "artifact"
         /\ call'[p][c].at = "queued" => k \notin {"artifact", "show"}
         /\ ~call'[p][c].created
         /\ call[p][c].at = "idle" /\ UNCHANGED lock
         /\ queue' = queue \/ queue' = [queue EXCEPT ![p] = Append(@, c)]
<1> DEFINE x == [Idle EXCEPT !.kind = k, !.target = t,
          !.at = CASE k = "artifact" -> "artifact" [] k = "show" -> "reread" [] OTHER -> "queued"]
<1>1. x \in CallStates
  BY Blanks, PhasesAssumption DEF CallStates, Places, Idle
<1>2. call'[p][c] = x /\ Others(p, c)
  BY <1>1, Becomes DEF Ask
<1>3. /\ x.kind = k /\ x.target = t /\ ~x.created
      /\ x.at \in {"artifact", "reread", "queued"}
      /\ x.at = "artifact" => k = "artifact"
      /\ x.at = "queued" => k \notin {"artifact", "show"}
  BY DEF Idle
<1> QED
  BY <1>2, <1>3 DEF Ask, At

\* A process that dies takes its own calls with it.
LEMMA CrashLocks ==
  ASSUME Types, NEW p \in Procs, Crash(p)
  PROVE  /\ \A c \in Calls : call'[p][c] = Idle
         /\ \A q \in Procs : q # p => call'[q] = call[q] /\ queue'[q] = queue[q] /\ log'[q] = log[q]
         /\ queue'[p] = <<>> /\ log'[p] = <<>>
BY DEF Crash, Types

\* Whoever is under the lock is the one it names.
LEMMA LockStep ==
  ASSUME Types, LockIsHeld, [Next]_vars
  PROVE  LockIsHeld'
<1>1. ASSUME NEW p \in Procs, NEW c \in Calls, NEW k \in Kinds, NEW t \in Targets \cup {"none"}, Ask(p, c, k, t)
      PROVE  LockIsHeld'
  BY <1>1, AskLocks DEF Others, LockIsHeld, UnderLock
<1>2. ASSUME NEW p \in Procs, NEW c \in Calls, Step(p, c) PROVE LockIsHeld'
  <2>1. Others(p, c)
    BY <1>2, StepLocks
  <2>2. CASE Proceeds(p, c)
    BY <2>1, <2>2 DEF Proceeds, Others, LockIsHeld
  <2>3. CASE Enters(p, c)
    BY <2>1, <2>3 DEF Enters, Others, LockIsHeld, Idle, UnderLock, Unheld
  <2>4. CASE Leaves(p, c)
    BY <2>1, <2>4 DEF Leaves, Holds, Others, LockIsHeld
  <2>5. CASE Apart(p, c)
    BY <2>1, <2>5 DEF Apart, Others, LockIsHeld
  <2> QED
    BY <1>2, StepLocks, <2>2, <2>3, <2>4, <2>5
<1>3. ASSUME NEW p \in Procs, Crash(p) PROVE LockIsHeld'
  <2> SUFFICES ASSUME NEW q \in Procs, NEW d \in Calls, call'[q][d].at \in UnderLock
               PROVE  lock' = <<q, d>>
    BY DEF LockIsHeld
  <2>1. q # p
    BY <1>3, CrashLocks DEF Idle, UnderLock
  <2>2. lock = <<q, d>>
    BY <1>3, <2>1, CrashLocks DEF LockIsHeld
  <2>3. \A c \in Calls : ~Holds(p, c)
    BY <2>1, <2>2 DEF Holds
  <2> QED
    BY <1>3, <2>2, <2>3 DEF Crash
<1>4. CASE Reclaim
  BY <1>4 DEF Reclaim, LockIsHeld, Dead
<1>5. CASE UNCHANGED vars
  BY <1>5 DEF vars, LockIsHeld
<1> QED
  BY <1>1, <1>2, <1>3, <1>4, <1>5 DEF Next, Kinds

\* And it is the one its process's queue lets run.
LEMMA QueueStep ==
  ASSUME Types, QueueHasHead, [Next]_vars
  PROVE  QueueHasHead'
<1>0. queue \in [Procs -> Seq(Calls)]
  BY DEF Types
<1>1. ASSUME NEW p \in Procs, NEW c \in Calls, NEW k \in Kinds, NEW t \in Targets \cup {"none"}, Ask(p, c, k, t)
      PROVE  QueueHasHead'
  <2>1. \A q \in Procs : queue[q] # <<>> => queue'[q] # <<>> /\ Head(queue'[q]) = Head(queue[q])
    <3>1. CASE queue' = queue
      BY <3>1
    <3>2. CASE queue' = [queue EXCEPT ![p] = Append(@, c)]
      <4>1. queue[p] \in Seq(Calls)
        BY <1>0
      <4>2. queue[p] # <<>> => Append(queue[p], c) # <<>> /\ Head(Append(queue[p], c)) = Head(queue[p])
        BY <4>1
      <4> QED
        BY <1>0, <3>2, <4>2
    <3> QED
      BY <1>1, AskLocks, <3>1, <3>2
  <2> QED
    BY <1>1, <2>1, AskLocks DEF Others, QueueHasHead, UnderLock
<1>2. ASSUME NEW p \in Procs, NEW c \in Calls, Step(p, c) PROVE QueueHasHead'
  <2>1. Others(p, c)
    BY <1>2, StepLocks
  <2>2. CASE Proceeds(p, c)
    BY <2>1, <2>2 DEF Proceeds, Others, QueueHasHead
  <2>3. CASE Enters(p, c)
    <3>1. \A d \in Calls : call[p][d].at \in UnderLock => d = c
      BY <2>3 DEF Enters, QueueHasHead
    <3>2. CASE lock = Unheld /\ lock' = <<p, c>> /\ queue' = queue
      BY <2>1, <2>3, <3>2 DEF Enters, Others, QueueHasHead
    <3>3. CASE call'[p][c] = Idle /\ lock' = lock /\ Unqueue(p)
      <4>1. \A d \in Calls : call'[p][d].at \notin UnderLock
        BY <2>1, <3>1, <3>3 DEF Others, Idle, UnderLock
      <4>2. \A q \in Procs : q # p => queue'[q] = queue[q]
        BY <1>0, <3>3 DEF Unqueue
      <4> QED
        BY <2>1, <4>1, <4>2 DEF Others, QueueHasHead
    <3> QED
      BY <2>3, <3>2, <3>3 DEF Enters
  <2>4. CASE Leaves(p, c)
    <3>1. \A d \in Calls : call[p][d].at \in UnderLock => d = c
      BY <2>4 DEF Leaves, QueueHasHead
    <3> QED
      BY <1>0, <2>1, <2>4, <3>1 DEF Leaves, Others, QueueHasHead, Unqueue
  <2>5. CASE Apart(p, c)
    BY <2>1, <2>5 DEF Apart, Others, QueueHasHead
  <2> QED
    BY <1>2, StepLocks, <2>2, <2>3, <2>4, <2>5
<1>3. ASSUME NEW p \in Procs, Crash(p) PROVE QueueHasHead'
  BY <1>3, CrashLocks DEF QueueHasHead, Idle, UnderLock
<1>4. CASE Reclaim
  BY <1>4 DEF Reclaim, QueueHasHead
<1>5. CASE UNCHANGED vars
  BY <1>5 DEF vars, QueueHasHead
<1> QED
  BY <1>1, <1>2, <1>3, <1>4, <1>5 DEF Next, Kinds
-----------------------------------------------------------------------------
(* The activity log *)

Joins(p, c) ==
    /\ call[p][c].at # "log" /\ call'[p][c].at = "log"
    /\ log' = [log EXCEPT ![p] = Append(@, c)]

Passes(p, c) ==
    /\ call[p][c].at = "log" /\ call'[p][c].at # "log"
    /\ Head(log[p]) = c /\ log' = [log EXCEPT ![p] = Tail(@)]

Ignores(p, c) == call[p][c].at # "log" /\ call'[p][c].at # "log" /\ log' = log

\* Every step of a call joins the log, passes it or ignores it.
LEMMA StepLogs ==
  ASSUME Types, NEW p \in Procs, NEW c \in Calls, Step(p, c)
  PROVE  Joins(p, c) \/ Passes(p, c) \/ Ignores(p, c)
<1>1. CASE Release(p, c)
  <2>1. CASE Is(p, c, {"worker"}) \/ (Is(p, c, {"init"}) /\ ~call[p][c].created)
    <3>1. Ends(p, c)
      BY <1>1, <2>1 DEF Release
    <3> QED
      BY <1>1, <2>1, <3>1, EndsHere DEF Release, Ignores, At, Idle
  <2>2. CASE ~(Is(p, c, {"worker"}) \/ (Is(p, c, {"init"}) /\ ~call[p][c].created))
    <3>1. Goes(p, c, "log")
      BY <1>1, <2>2 DEF Release
    <3> QED
      BY <1>1, <2>2, <3>1, GoesOn DEF Release, Joins, At, Places
  <2> QED
    BY <2>1, <2>2
<1>2. CASE WriteLog(p, c)
  <2>1. Ends(p, c) \/ Goes(p, c, "reread")
    BY <1>2 DEF WriteLog
  <2>2. call'[p][c].at \in {"idle", "reread"}
    BY <2>1, GoesOn, EndsHere DEF Places, Idle
  <2> QED
    BY <1>2, <2>2 DEF WriteLog, Passes, At
<1>3. CASE WriteArtifact(p, c)
  BY <1>3, GoesOn DEF WriteArtifact, Places, Joins, At
<1>4. CASE TakeLock(p, c)
  BY <1>4, GoesOn DEF TakeLock, Places, UnderLock, Ignores, At
<1>5. CASE LockTimesOut(p, c)
  BY <1>5, EndsHere DEF LockTimesOut, Ends, Ignores, At, Idle
<1>6. CASE InitLooks(p, c)
  <2>1. call[p][c] \in CallStates
    BY DEF Types
  <2>2. call'[p][c].at \in {"artifacts", "commit"}
    BY <1>6, <2>1 DEF InitLooks, Types, CallStates
  <2> QED
    BY <1>6, <2>2 DEF InitLooks, Ignores, At
<1>7. CASE Apply(p, c)
  <2>1. call[p][c] \in CallStates
    BY DEF Types
  <2>2. call'[p][c].at \in {"failed", "commit"}
    BY <1>7, <2>1 DEF Apply, Types, CallStates
  <2> QED
    BY <1>7, <2>2 DEF Apply, Ignores, At
<1>8. CASE Commit(p, c)
  BY <1>8, GoesOn DEF Commit, Places, UnderLock, Ignores, At
<1>9. CASE CommitFails(p, c)
  BY <1>9, GoesOn DEF CommitFails, Places, UnderLock, Ignores, At
<1>10. CASE CreateTemplate(p, c)
  BY <1>10, GoesOn DEF CreateTemplate, Places, UnderLock, Ignores, At
<1>11. CASE FillTemplate(p, c)
  BY <1>11, GoesOn DEF FillTemplate, Places, UnderLock, Ignores, At
<1>12. CASE ReleaseFailed(p, c)
  BY <1>12, EndsHere DEF ReleaseFailed, Ignores, At, Idle
<1>13. CASE Reread(p, c)
  <2>1. call[p][c] \in CallStates
    BY DEF Types
  <2>2. call'[p][c].at = "refresh"
    BY <1>13, <2>1 DEF Reread, Types, CallStates
  <2> QED
    BY <1>13, <2>2 DEF Reread, Ignores, At
<1>14. CASE Refresh(p, c)
  BY <1>14, EndsHere DEF Refresh, Ignores, At, Idle
<1> QED
  BY <1>1, <1>2, <1>3, <1>4, <1>5, <1>6, <1>7, <1>8, <1>9, <1>10, <1>11, <1>12, <1>13,
     <1>14 DEF Step

\* What Append and Tail make of a sequence, place by place.
LEMMA AppendPlaces ==
  ASSUME NEW S, NEW s \in Seq(S), NEW x \in S
  PROVE  /\ Append(s, x) \in Seq(S) /\ Len(Append(s, x)) = Len(s) + 1
         /\ \A i \in 1 .. Len(s) : Append(s, x)[i] = s[i]
         /\ Append(s, x)[Len(s) + 1] = x
         /\ Len(s) \in Nat
OBVIOUS

\* Tail moves everything one place to the front.
LEMMA TailPlaces ==
  ASSUME NEW S, NEW s \in Seq(S), s # <<>>
  PROVE  /\ Tail(s) \in Seq(S) /\ Len(Tail(s)) = Len(s) - 1
         /\ \A i \in 1 .. Len(s) - 1 : Tail(s)[i] = s[i + 1]
         /\ Head(s) = s[1] /\ Len(s) \in Nat \ {0}
OBVIOUS

\* The log has what waits for it, once, in an order.
LEMMA LogStep ==
  ASSUME Types, LogIsOrdered, [Next]_vars
  PROVE  LogIsOrdered'
<1>0. log \in [Procs -> Seq(Calls)]
  BY DEF Types
<1>1. ASSUME NEW p \in Procs, NEW c \in Calls, NEW k \in Kinds, NEW t \in Targets \cup {"none"}, Ask(p, c, k, t)
      PROVE  LogIsOrdered'
  <2>1. log' = log
    BY <1>1 DEF Ask
  <2>2. \A q \in Procs, d \in Calls : call'[q][d].at = "log" <=> call[q][d].at = "log"
    BY <1>1, AskLocks DEF Others
  <2>3. \A q \in Procs : \A i \in 1 .. Len(log[q]) : log[q][i] \in Calls
    BY <1>0
  <2> QED
    BY <2>1, <2>2, <2>3 DEF LogIsOrdered, LogHas
<1>2. ASSUME NEW p \in Procs, NEW c \in Calls, Step(p, c) PROVE LogIsOrdered'
  <2>1. Others(p, c)
    BY <1>2, StepLocks
  <2>2. CASE Ignores(p, c)
    <3>1. \A q \in Procs, d \in Calls : call'[q][d].at = "log" <=> call[q][d].at = "log"
      BY <2>1, <2>2 DEF Ignores, Others
    <3>2. \A q \in Procs : \A i \in 1 .. Len(log[q]) : log[q][i] \in Calls
      BY <1>0
    <3> QED
      BY <2>2, <3>1, <3>2 DEF LogIsOrdered, LogHas, Ignores
  <2> SUFFICES ASSUME NEW q \in Procs, Joins(p, c) \/ Passes(p, c)
               PROVE  /\ \A i \in 1 .. Len(log'[q]) : call'[q][log'[q][i]].at = "log"
                      /\ \A i, j \in 1 .. Len(log'[q]) : log'[q][i] = log'[q][j] => i = j
                      /\ \A d \in Calls : call'[q][d].at = "log" =>
                             \E i \in 1 .. Len(log'[q]) : log'[q][i] = d
    BY <1>2, <2>2, StepLogs DEF LogIsOrdered, LogHas
  <2> DEFINE s == log[q]
  <2>3. /\ s \in Seq(Calls) /\ Len(s) \in Nat
        /\ \A i \in 1 .. Len(s) : s[i] \in Calls /\ call[q][s[i]].at = "log"
        /\ \A i, j \in 1 .. Len(s) : s[i] = s[j] => i = j
        /\ \A d \in Calls : call[q][d].at = "log" => \E i \in 1 .. Len(s) : s[i] = d
    BY <1>0 DEF LogIsOrdered, LogHas
  <2>4. CASE q # p
    <3>1. log'[q] = s /\ \A d \in Calls : call'[q][d] = call[q][d]
      BY <1>0, <2>1, <2>4 DEF Joins, Passes, Others
    <3> QED
      BY <2>3, <3>1
  <2>5. CASE q = p /\ Joins(p, c)
    <3>1. log'[q] = Append(s, c)
      BY <1>0, <2>5 DEF Joins
    <3>2. /\ Len(log'[q]) = Len(s) + 1
          /\ \A i \in 1 .. Len(s) : log'[q][i] = s[i]
          /\ log'[q][Len(s) + 1] = c
      BY <2>3, <3>1, AppendPlaces
    <3>3. \A i \in 1 .. Len(s) : s[i] # c
      BY <2>3, <2>5 DEF Joins
    <3>4. \A d \in Calls : d # c => call'[q][d] = call[q][d]
      BY <2>1, <2>5 DEF Others
    <3>5. call'[q][c].at = "log"
      BY <2>5 DEF Joins
    <3>6. \A i \in 1 .. Len(log'[q]) : i \in 1 .. Len(s) \/ i = Len(s) + 1
      BY <2>3, <3>2
    <3>7. \A i \in 1 .. Len(log'[q]) : call'[q][log'[q][i]].at = "log"
      BY <2>3, <3>2, <3>3, <3>4, <3>5, <3>6
    <3>8. \A i, j \in 1 .. Len(log'[q]) : log'[q][i] = log'[q][j] => i = j
      BY <2>3, <3>2, <3>3, <3>6
    <3>9. \A d \in Calls : call'[q][d].at = "log" => \E i \in 1 .. Len(log'[q]) : log'[q][i] = d
      <4> SUFFICES ASSUME NEW d \in Calls, call'[q][d].at = "log"
                   PROVE  \E i \in 1 .. Len(log'[q]) : log'[q][i] = d
        OBVIOUS
      <4>1. CASE d = c
        <5>1. Len(s) + 1 \in 1 .. Len(log'[q])
          BY <2>3, <3>2
        <5> QED
          BY <4>1, <5>1, <3>2
      <4>2. CASE d # c
        <5>1. PICK i \in 1 .. Len(s) : s[i] = d
          BY <2>3, <3>4, <4>2
        <5>2. i \in 1 .. Len(log'[q])
          BY <2>3, <3>2, <5>1
        <5> QED
          BY <3>2, <5>1, <5>2
      <4> QED
        BY <4>1, <4>2
    <3> QED
      BY <3>7, <3>8, <3>9
  <2>6. CASE q = p /\ Passes(p, c)
    <3>1. s # <<>>
      BY <2>3, <2>6 DEF Passes
    <3>2. log'[q] = Tail(s) /\ c = Head(s)
      BY <1>0, <2>6 DEF Passes
    <3>3. /\ Len(log'[q]) = Len(s) - 1
          /\ \A i \in 1 .. Len(s) - 1 : log'[q][i] = s[i + 1]
          /\ c = s[1] /\ Len(s) \in Nat \ {0}
      BY <2>3, <3>1, <3>2, TailPlaces
    <3>4. \A i \in 1 .. Len(s) - 1 : i + 1 \in 1 .. Len(s) /\ i + 1 # 1
      BY <3>3
    <3>5. 1 \in 1 .. Len(s)
      BY <3>3
    <3>6. \A d \in Calls : d # c => call'[q][d] = call[q][d]
      BY <2>1, <2>6 DEF Others
    <3>7. \A i \in 1 .. Len(s) - 1 : s[i + 1] # c
      BY <2>3, <3>3, <3>4, <3>5
    <3>8. \A i \in 1 .. Len(log'[q]) : call'[q][log'[q][i]].at = "log"
      <4> SUFFICES ASSUME NEW i \in 1 .. Len(log'[q]) PROVE call'[q][log'[q][i]].at = "log"
        OBVIOUS
      <4>1. i \in 1 .. Len(s) - 1 /\ i + 1 \in 1 .. Len(s)
        BY <3>3, <3>4
      <4>2. log'[q][i] = s[i + 1] /\ s[i + 1] \in Calls /\ s[i + 1] # c /\ call[q][s[i + 1]].at = "log"
        BY <2>3, <3>3, <3>7, <4>1
      <4>3. call'[q][s[i + 1]] = call[q][s[i + 1]]
        BY <3>6, <4>2
      <4> QED
        BY <4>2, <4>3
    <3>9. \A i, j \in 1 .. Len(log'[q]) : log'[q][i] = log'[q][j] => i = j
      <4> SUFFICES ASSUME NEW i \in 1 .. Len(log'[q]), NEW j \in 1 .. Len(log'[q]), log'[q][i] = log'[q][j]
                   PROVE  i = j
        OBVIOUS
      <4>1. s[i + 1] = s[j + 1] /\ i + 1 \in 1 .. Len(s) /\ j + 1 \in 1 .. Len(s)
        BY <3>3, <3>4
      <4>2. i + 1 = j + 1
        BY <2>3, <4>1
      <4> QED
        BY <4>2
    <3>10. \A d \in Calls : call'[q][d].at = "log" => \E i \in 1 .. Len(log'[q]) : log'[q][i] = d
      <4> SUFFICES ASSUME NEW d \in Calls, call'[q][d].at = "log"
                   PROVE  \E i \in 1 .. Len(log'[q]) : log'[q][i] = d
        OBVIOUS
      <4>1. d # c
        BY <2>6 DEF Passes
      <4>2. PICK i \in 1 .. Len(s) : s[i] = d
        BY <2>3, <3>6, <4>1
      <4>3. i # 1
        BY <3>3, <4>1, <4>2
      <4>4. i - 1 \in 1 .. Len(s) - 1 /\ (i - 1) + 1 = i
        BY <3>3, <4>2, <4>3
      <4>5. log'[q][i - 1] = d
        BY <3>3, <4>2, <4>4
      <4> QED
        BY <3>3, <4>4, <4>5
    <3> QED
      BY <3>8, <3>9, <3>10
  <2> QED
    BY <2>4, <2>5, <2>6
<1>3. ASSUME NEW p \in Procs, Crash(p) PROVE LogIsOrdered'
  <2>1. \A i \in 1 .. Len(log'[p]) : FALSE
    BY <1>3, CrashLocks
  <2>2. \A c \in Calls : call'[p][c].at = "idle"
    BY <1>3, CrashLocks DEF Idle
  <2>3. \A q \in Procs : q # p => call'[q] = call[q] /\ log'[q] = log[q]
    BY <1>3, CrashLocks
  <2> QED
    BY <2>1, <2>2, <2>3 DEF LogIsOrdered, LogHas
<1>4. CASE Reclaim
  BY <1>4 DEF Reclaim, LogIsOrdered, LogHas
<1>5. CASE UNCHANGED vars
  BY <1>5 DEF vars, LogIsOrdered, LogHas
<1> QED
  BY <1>1, <1>2, <1>3, <1>4, <1>5 DEF Next, Kinds
-----------------------------------------------------------------------------
(* What is read is still there when it is written *)

\* An update that is about to be written is one of what stands in state.json.
Fits(p, c) ==
    LET x == call[p][c]
    IN  /\ x.view.rev = disk.rev + 1
        /\ \/ x.kind = "init" /\ x.created /\ disk = NoState /\ x.view.project = P!Fresh
           \/ /\ x.kind \in Updates /\ Accepts(disk.project, x.kind, x.target)
              /\ x.view.project = Updated(disk.project, x.kind, x.target)

\* What has been written, and not yet been told.
Past == {"artifacts", "template", "release"}

ViewIsFresh(p, c) ==
    LET x == call[p][c]
    IN  /\ x.at \in {"queued", "locked"} => ~x.created /\ x.kind \in Updates \cup {"init"}
        /\ x.at = "commit" => Fits(p, c)
        /\ x.at \in Past => x.view = disk /\ x.kind \in Updates \cup {"init"}
        /\ x.at = "artifact" => x.kind = "artifact"

ViewsAreFresh == \A p \in Procs, c \in Calls : ViewIsFresh(p, c)

\* What assertProjectState asks of a project.
CoherentProject(s) ==
    /\ s.phase = "paused" <=> s.schedulerPaused
    /\ s.phase = "paused" <=> s.before # "none"

DiskIsSound == disk.rev = renames /\ CoherentProject(disk.project)

\* A project that is moved along the table, paused or resumed stays coherent, and a
\* Worker's update leaves its phase alone.
LEMMA LifecycleCoherence ==
  ASSUME NEW s \in P!States, NEW t \in P!ActivePhases, CoherentProject(s)
  PROVE  /\ CoherentProject(P!Transitioned(s, t))
         /\ CoherentProject(P!Paused(s))
         /\ CoherentProject(P!Resumed(s))
         /\ CoherentProject(P!Fresh)
BY DEF P!States, P!Phases, P!ActivePhases, P!Transitioned, P!Paused, P!Resumed, P!Fresh, CoherentProject

\* What a call makes of a coherent project is one.
LEMMA UpdatedCoherent ==
  ASSUME Types, Asked, DiskIsSound, NEW p \in Procs, NEW c \in Calls, call[p][c].kind \in Updates
  PROVE  CoherentProject(Updated(disk.project, call[p][c].kind, call[p][c].target))
<1>1. disk.project \in P!States /\ CoherentProject(disk.project)
  BY UpdatedTyped DEF DiskIsSound
<1> DEFINE k == call[p][c].kind  t == call[p][c].target
<1>2. CASE k = "move"
  <2>1. t \in P!ActivePhases
    BY <1>2 DEF Asked, AskedFor
  <2> QED
    BY <1>1, <1>2, <2>1, LifecycleCoherence DEF Updated
<1>3. CoherentProject(P!Paused(disk.project)) /\ CoherentProject(P!Resumed(disk.project))
  <2>1. "build" \in P!ActivePhases
    BY DEF P!ActivePhases
  <2> QED
    BY <1>1, <2>1, LifecycleCoherence
<1> QED
  BY <1>1, <1>2, <1>3 DEF Updated, Updates

\* What is about to be written is a project, at the next revision.
LEMMA CommitsProject ==
  ASSUME Types, Asked, ViewsAreFresh, DiskIsSound, NEW p \in Procs, NEW c \in Calls, Commit(p, c)
  PROVE  /\ disk' = call[p][c].view /\ disk'.project \in P!States /\ disk' # NoState
         /\ disk'.rev = renames' /\ CoherentProject(disk'.project)
<1>1. Fits(p, c) /\ disk' = call[p][c].view /\ renames' = renames + 1
  BY DEF ViewsAreFresh, ViewIsFresh, Commit, At
<1>2. disk'.project \in P!States
  BY <1>1 DEF Asked, AskedFor, Commit, At
<1>3. disk' # NoState
  BY <1>2 DEF NoState, P!States, P!NoProject, P!Phases, P!ActivePhases
<1>4. CoherentProject(disk'.project)
  <2>1. CASE call[p][c].kind = "init"
    <3>1. CoherentProject(P!Fresh)
      BY DEF P!Fresh, CoherentProject
    <3> QED
      BY <1>1, <2>1, <3>1 DEF Fits, Updates
  <2>2. CASE call[p][c].kind \in Updates
    BY <1>1, <2>2, UpdatedCoherent DEF Fits, Updates
  <2> QED
    BY <1>1, <2>1, <2>2 DEF Fits
<1>5. disk'.rev = renames'
  BY <1>1 DEF Fits, DiskIsSound
<1> QED
  BY <1>1, <1>2, <1>3, <1>4, <1>5

\* state.json is replaced by nothing else.
LEMMA OnlyCommitsWrite ==
  ASSUME NEW p \in Procs, NEW c \in Calls, Step(p, c), ~Commit(p, c)
  PROVE  disk' = disk /\ renames' = renames /\ writers' = writers
BY DEF Step, TakeLock, LockTimesOut, InitLooks, Apply, CommitFails, CreateTemplate, FillTemplate,
       Release, ReleaseFailed, WriteLog, WriteArtifact, Reread, Refresh, history

\* Every revision is one rename, and every project coherent.
LEMMA DiskStep ==
  ASSUME Types, Asked, ViewsAreFresh, DiskIsSound, [Next]_vars
  PROVE  DiskIsSound'
<1>1. ASSUME NEW p \in Procs, NEW c \in Calls, NEW k \in Kinds, NEW t \in Targets \cup {"none"}, Ask(p, c, k, t)
      PROVE  DiskIsSound'
  BY <1>1 DEF Ask, DiskIsSound, history
<1>2. ASSUME NEW p \in Procs, NEW c \in Calls, Step(p, c) PROVE DiskIsSound'
  <2>1. CASE Commit(p, c)
    BY <2>1, CommitsProject DEF DiskIsSound
  <2>2. CASE ~Commit(p, c)
    BY <1>2, <2>2, OnlyCommitsWrite DEF DiskIsSound
  <2> QED
    BY <2>1, <2>2
<1>3. ASSUME NEW p \in Procs, Crash(p) PROVE DiskIsSound'
  BY <1>3 DEF Crash, DiskIsSound, history
<1>4. CASE Reclaim
  BY <1>4 DEF Reclaim, DiskIsSound, history
<1>5. CASE UNCHANGED vars
  BY <1>5 DEF vars, DiskIsSound
<1> QED
  BY <1>1, <1>2, <1>3, <1>4, <1>5 DEF Next, Kinds

\* A call that has ended asks for nothing.
LEMMA IdleIsFresh ==
  ASSUME NEW p \in Procs, NEW c \in Calls, call'[p][c] = Idle
  PROVE  AskedFor(p, c)' /\ ViewIsFresh(p, c)'
BY DEF AskedFor, ViewIsFresh, Idle, Updates, Past

\* A call that only goes on, and neither writes nor is about to.
LEMMA GoingOnIsFresh ==
  ASSUME Types, Asked, ViewsAreFresh, NEW p \in Procs, NEW c \in Calls,
         NEW s \in Places, Goes(p, c, s), disk' = disk,
         s \notin {"queued", "commit", "artifact"},
         s = "locked" => At(p, c, "queued"),
         s \in Past => call[p][c].at \in Past
  PROVE  AskedFor(p, c)' /\ ViewIsFresh(p, c)'
<1>1. call'[p][c].at = s /\ Stays(p, c)
  BY GoesOn
<1>2. AskedFor(p, c) /\ ViewIsFresh(p, c)
  BY DEF Asked, ViewsAreFresh
<1>3. AskedFor(p, c)'
  BY <1>1, <1>2 DEF Stays, AskedFor, Exists
<1>4. ViewIsFresh(p, c)'
  BY <1>1, <1>2 DEF Stays, ViewIsFresh, At
<1> QED
  BY <1>3, <1>4

\* The call that steps has asked for what there is, and has seen what stands there.
LEMMA OwnStep ==
  ASSUME Types, Asked, ViewsAreFresh, DiskIsSound, NEW p \in Procs, NEW c \in Calls, Step(p, c)
  PROVE  AskedFor(p, c)' /\ ViewIsFresh(p, c)'
<1>0. AskedFor(p, c) /\ ViewIsFresh(p, c) /\ call[p][c] \in CallStates /\ disk \in DiskStates
  BY DEF Asked, ViewsAreFresh, Types
<1>1. CASE TakeLock(p, c)
  BY <1>1, GoingOnIsFresh DEF TakeLock, Places, UnderLock, Past
<1>2. CASE LockTimesOut(p, c)
  BY <1>2, EndsHere, IdleIsFresh DEF LockTimesOut, Ends
<1>3. CASE InitLooks(p, c)
  <2>1. CASE Exists
    <3>1. call'[p][c] = [call[p][c] EXCEPT !.view = disk, !.at = "artifacts"]
      BY <1>3, <2>1 DEF InitLooks, Types
    <3>2. /\ call'[p][c].kind = "init" /\ call'[p][c].at = "artifacts" /\ call'[p][c].view = disk
      BY <1>0, <1>3, <3>1 DEF InitLooks, Is, CallStates
    <3> QED
      BY <1>3, <3>2 DEF InitLooks, AskedFor, ViewIsFresh, Updates, Past
  <2>2. CASE ~Exists
    <3> DEFINE v == [project |-> P!Fresh, rev |-> 1]
    <3>1. call'[p][c] = [call[p][c] EXCEPT !.view = v, !.created = TRUE, !.at = "commit"]
      BY <1>3, <2>2 DEF InitLooks, Types
    <3>5. call[p][c].kind = "init"
      BY <1>3 DEF InitLooks, Is
    <3> HIDE DEF v
    <3>6. /\ call'[p][c].kind = "init" /\ call'[p][c].at = "commit" /\ call'[p][c].created
          /\ call'[p][c].view = v
      BY <1>0, <3>1, <3>5 DEF CallStates
    <3>2. /\ call'[p][c].kind = "init" /\ call'[p][c].at = "commit" /\ call'[p][c].created
          /\ call'[p][c].view.project = P!Fresh /\ call'[p][c].view.rev = 1
      BY <3>6 DEF v
    <3>3. disk' = NoState /\ disk'.rev = 0
      BY <1>3, <2>2 DEF InitLooks, Exists, NoState
    <3>4. P!Fresh \in P!States
      BY DEF P!Fresh, P!States, P!Phases, P!ActivePhases
    <3> QED
      BY <3>2, <3>3, <3>4 DEF AskedFor, ViewIsFresh, Fits, Updates, Past
  <2> QED
    BY <2>1, <2>2
<1>4. CASE Apply(p, c)
  <2> DEFINE k == call[p][c].kind  t == call[p][c].target
             v == [project |-> Updated(disk.project, k, t), rev |-> disk.rev + 1]
  <2>1. k \in Updates /\ disk' = disk
    BY <1>4 DEF Apply, Is, Updates
  <2>2. Updated(disk.project, k, t) \in P!States
    BY <2>1, UpdatedTyped
  <2>3. CASE Accepts(disk.project, k, t)
    <3>1. call'[p][c] = [call[p][c] EXCEPT !.at = "commit", !.view = v]
      BY <1>4, <2>3 DEF Apply, Types
    <3>2. /\ call'[p][c].kind = k /\ call'[p][c].at = "commit" /\ call'[p][c].target = t
          /\ call'[p][c].view.project = Updated(disk.project, k, t) /\ call'[p][c].view.rev = disk.rev + 1
      BY <1>0, <3>1 DEF CallStates
    <3>3. AskedFor(p, c)'
      BY <1>0, <2>1, <2>2, <3>2 DEF AskedFor, Exists
    <3>4. Fits(p, c)'
      BY <2>1, <2>3, <3>2 DEF Fits
    <3> QED
      BY <3>2, <3>3, <3>4 DEF ViewIsFresh, Past
  <2>4. CASE ~Accepts(disk.project, k, t)
    <3>1. call'[p][c] = [call[p][c] EXCEPT !.at = "failed"]
      BY <1>4, <2>4 DEF Apply, Types
    <3>2. call'[p][c].kind = k /\ call'[p][c].at = "failed" /\ call'[p][c].target = t
      BY <1>0, <3>1 DEF CallStates
    <3> QED
      BY <1>0, <2>1, <3>2 DEF AskedFor, ViewIsFresh, Past, Exists
  <2> QED
    BY <2>3, <2>4
<1>5. CASE Commit(p, c)
  <2>1. disk' = call[p][c].view /\ disk' # NoState
    BY <1>5, CommitsProject
  <2>2. \E s \in Past : Goes(p, c, s)
    BY <1>5 DEF Commit, Past
  <2>3. call'[p][c].at \in Past /\ Stays(p, c)
    BY <2>2, GoesOn DEF Places, UnderLock, Past
  <2>4. call[p][c].kind \in Updates \cup {"init"}
    BY <1>0, <1>5 DEF ViewIsFresh, Fits, Commit, At
  <2> QED
    BY <1>0, <2>1, <2>3, <2>4 DEF AskedFor, ViewIsFresh, Stays, Exists, Past
<1>6. CASE CommitFails(p, c)
  BY <1>6, GoingOnIsFresh DEF CommitFails, Places, UnderLock, Past
<1>7. CASE CreateTemplate(p, c)
  BY <1>7, GoingOnIsFresh DEF CreateTemplate, Places, UnderLock, Past, At
<1>8. CASE FillTemplate(p, c)
  BY <1>8, GoingOnIsFresh DEF FillTemplate, Places, UnderLock, Past, At
<1>9. CASE Release(p, c)
  <2>1. Ends(p, c) \/ Goes(p, c, "log")
    BY <1>9 DEF Release
  <2> QED
    BY <1>9, <2>1, GoingOnIsFresh, EndsHere, IdleIsFresh DEF Release, Places, Past
<1>10. CASE ReleaseFailed(p, c)
  BY <1>10, EndsHere, IdleIsFresh DEF ReleaseFailed
<1>11. CASE WriteLog(p, c)
  <2>1. Ends(p, c) \/ Goes(p, c, "reread")
    BY <1>11 DEF WriteLog
  <2> QED
    BY <1>11, <2>1, GoingOnIsFresh, EndsHere, IdleIsFresh DEF WriteLog, Places, Past
<1>12. CASE WriteArtifact(p, c)
  BY <1>12, GoingOnIsFresh DEF WriteArtifact, Places, Past
<1>13. CASE Reread(p, c)
  <2>1. call'[p][c] = [call[p][c] EXCEPT !.view = disk, !.at = "refresh"]
    BY <1>13 DEF Reread, Types
  <2>2. /\ call'[p][c].at = "refresh" /\ call'[p][c].kind = call[p][c].kind
        /\ call'[p][c].target = call[p][c].target
    BY <1>0, <2>1 DEF CallStates
  <2> QED
    BY <1>0, <1>13, <2>2 DEF Reread, AskedFor, ViewIsFresh, Exists, Past
<1>14. CASE Refresh(p, c)
  BY <1>14, EndsHere, IdleIsFresh DEF Refresh
<1> QED
  BY <1>1, <1>2, <1>3, <1>4, <1>5, <1>6, <1>7, <1>8, <1>9, <1>10, <1>11, <1>12, <1>13,
     <1>14 DEF Step

\* A call that is left alone stays as good as it was, unless state.json changes under
\* it; then it is not under the lock.
LEMMA OthersStayFresh ==
  ASSUME Asked, ViewsAreFresh, NEW q \in Procs, NEW d \in Calls, call'[q][d] = call[q][d],
         disk' = disk \/ (disk' # NoState /\ call[q][d].at \notin UnderLock)
  PROVE  AskedFor(q, d)' /\ ViewIsFresh(q, d)'
<1>1. AskedFor(q, d) /\ ViewIsFresh(q, d)
  BY DEF Asked, ViewsAreFresh
<1>2. CASE disk' = disk
  BY <1>1, <1>2 DEF AskedFor, ViewIsFresh, Fits, Exists
<1>3. CASE disk' # NoState /\ call[q][d].at \notin UnderLock
  BY <1>1, <1>3 DEF AskedFor, ViewIsFresh, Exists, UnderLock, Past
<1> QED
  BY <1>2, <1>3

\* What has been read under the lock is still there when it is written.
LEMMA ViewsStep ==
  ASSUME Types, LockIsHeld, Asked, ViewsAreFresh, DiskIsSound, [Next]_vars
  PROVE  Asked' /\ ViewsAreFresh'
<1> SUFFICES ASSUME NEW q \in Procs, NEW d \in Calls
             PROVE  AskedFor(q, d)' /\ ViewIsFresh(q, d)'
  BY DEF Asked, ViewsAreFresh
<1>1. ASSUME NEW p \in Procs, NEW c \in Calls, NEW k \in Kinds, NEW t \in Targets \cup {"none"}, Ask(p, c, k, t),
             k = "move" => t \in Targets
      PROVE  AskedFor(q, d)' /\ ViewIsFresh(q, d)'
  <2>1. disk' = disk
    BY <1>1 DEF Ask
  <2>2. CASE q # p \/ d # c
    BY <1>1, <2>1, <2>2, AskLocks, OthersStayFresh DEF Others
  <2>3. CASE q = p /\ d = c
    <3>1. k # "init" => Exists
      BY <1>1 DEF Ask
    <3>2. /\ call'[q][d].kind = k /\ call'[q][d].target = t
          /\ call'[q][d].at \in {"artifact", "reread", "queued"}
          /\ call'[q][d].at = "artifact" => k = "artifact"
          /\ call'[q][d].at = "queued" => k \notin {"artifact", "show"}
          /\ ~call'[q][d].created
      BY <1>1, <2>3, AskLocks
    <3>3. AskedFor(q, d)'
      BY <1>1, <2>1, <3>1, <3>2, PhasesAssumption DEF AskedFor, Exists, Updates
    <3>4. ViewIsFresh(q, d)'
      BY <3>2 DEF ViewIsFresh, Past, Kinds, Updates
    <3> QED
      BY <3>3, <3>4
  <2> QED
    BY <2>2, <2>3
<1>2. ASSUME NEW p \in Procs, NEW c \in Calls, Step(p, c)
      PROVE  AskedFor(q, d)' /\ ViewIsFresh(q, d)'
  <2>1. CASE q = p /\ d = c
    BY <1>2, <2>1, OwnStep
  <2>2. CASE (q # p \/ d # c) /\ ~Commit(p, c)
    <3>1. call'[q][d] = call[q][d] /\ disk' = disk
      BY <1>2, <2>2, StepLocks, OnlyCommitsWrite DEF Others
    <3> QED
      BY <3>1, OthersStayFresh
  <2>3. CASE (q # p \/ d # c) /\ Commit(p, c)
    <3>1. call'[q][d] = call[q][d]
      BY <1>2, <2>3, StepLocks DEF Others
    <3>2. disk' # NoState
      BY <2>3, CommitsProject
    <3>3. lock = <<p, c>>
      BY <2>3 DEF LockIsHeld, Commit, At, UnderLock
    <3>4. call[q][d].at \notin UnderLock
      BY <2>3, <3>3 DEF LockIsHeld
    <3> QED
      BY <3>1, <3>2, <3>4, OthersStayFresh
  <2> QED
    BY <2>1, <2>2, <2>3
<1>3. ASSUME NEW p \in Procs, Crash(p) PROVE AskedFor(q, d)' /\ ViewIsFresh(q, d)'
  <2>1. CASE q = p
    BY <1>3, <2>1, CrashLocks, IdleIsFresh
  <2>2. CASE q # p
    BY <1>3, <2>2, CrashLocks, OthersStayFresh DEF Crash
  <2> QED
    BY <2>1, <2>2
<1>4. CASE Reclaim
  BY <1>4, OthersStayFresh DEF Reclaim
<1>5. CASE UNCHANGED vars
  BY <1>5, OthersStayFresh DEF vars
<1> QED
  BY <1>1, <1>2, <1>3, <1>4, <1>5 DEF Next, Kinds

-----------------------------------------------------------------------------
(* What is shown last *)

\* Whoever tells the observers without the log.
TellsAtOnce(p, c) ==
    call[p][c].kind = "worker" \/ (call[p][c].kind = "init" /\ ~call[p][c].created)

\* A change that is written and will be told through the log.
Pending(p) == \E c \in Calls : call[p][c].at \in Past /\ ~TellsAtOnce(p, c)

\* The log's entries that will be told when they have been written.
Telling(p, i) == call[p][log[p][i]].kind # "artifact"

IsLast(p, i) ==
    Telling(p, i) /\ \A j \in 1 .. Len(log[p]) : j > i => ~Telling(p, j)

\* While only p writes: the last change in its log is of the phase the project has, and
\* where the log has none, that phase is shown already.
PhaseIsComing(p) ==
    writers \subseteq {p} /\ ~Pending(p) =>
        /\ \A i \in 1 .. Len(log[p]) :
               IsLast(p, i) => call[p][log[p][i]].view.project.phase = disk.project.phase
        /\ (\A i \in 1 .. Len(log[p]) : ~Telling(p, i)) /\ shown[p].by \in {"update", "read"} =>
               shown[p].phase = disk.project.phase

ShownLast == \A p \in Procs : PhaseIsComing(p)

\* The entries of a log are calls that wait for it.
LEMMA Entries ==
  ASSUME Types, LogIsOrdered, NEW p \in Procs
  PROVE  /\ log[p] \in Seq(Calls) /\ Len(log[p]) \in Nat
         /\ \A i \in 1 .. Len(log[p]) : log[p][i] \in Calls /\ call[p][log[p][i]].at = "log"
         /\ \A i, j \in 1 .. Len(log[p]) : log[p][i] = log[p][j] => i = j
BY DEF Types, LogIsOrdered

\* A call outside the log steps, and tells nothing or what is true: what is coming still
\* is.
LEMMA StillComing ==
  ASSUME Types, LogIsOrdered, NEW p \in Procs, NEW c \in Calls, PhaseIsComing(p),
         \A d \in Calls : d # c => call'[p][d] = call[p][d],
         call[p][c].at # "log", log'[p] = log[p],
         Pending(p) => Pending(p)',
         disk'.project.phase = disk.project.phase, writers \subseteq writers',
         \/ shown'[p] = shown[p]
         \/ shown'[p].by \notin {"update", "read"}
         \/ shown'[p].phase = disk.project.phase
  PROVE  PhaseIsComing(p)'
<1> SUFFICES ASSUME writers' \subseteq {p}, ~Pending(p)'
             PROVE  /\ \A i \in 1 .. Len(log'[p]) :
                           IsLast(p, i)' => call'[p][log'[p][i]].view.project.phase = disk'.project.phase
                    /\ (\A i \in 1 .. Len(log'[p]) : ~Telling(p, i)') /\ shown'[p].by \in {"update", "read"} =>
                           shown'[p].phase = disk'.project.phase
  BY DEF PhaseIsComing
<1>1. writers \subseteq {p} /\ ~Pending(p)
  OBVIOUS
<1>2. \A i \in 1 .. Len(log[p]) : log'[p][i] = log[p][i] /\ call'[p][log[p][i]] = call[p][log[p][i]]
  BY Entries
<1>3. \A i \in 1 .. Len(log[p]) : Telling(p, i)' <=> Telling(p, i)
  BY <1>2 DEF Telling
<1>4. \A i \in 1 .. Len(log[p]) : IsLast(p, i)' <=> IsLast(p, i)
  BY <1>3 DEF IsLast
<1>5. \A i \in 1 .. Len(log[p]) : IsLast(p, i) => call[p][log[p][i]].view.project.phase = disk.project.phase
  BY <1>1 DEF PhaseIsComing
<1>6. (\A i \in 1 .. Len(log[p]) : ~Telling(p, i)) /\ shown[p].by \in {"update", "read"} =>
          shown[p].phase = disk.project.phase
  BY <1>1 DEF PhaseIsComing
<1>7. \A i \in 1 .. Len(log'[p]) :
          IsLast(p, i)' => call'[p][log'[p][i]].view.project.phase = disk'.project.phase
  BY <1>2, <1>4, <1>5
<1>8. (\A i \in 1 .. Len(log'[p]) : ~Telling(p, i)') /\ shown'[p].by \in {"update", "read"} =>
          shown'[p].phase = disk'.project.phase
  BY <1>3, <1>6
<1> QED
  BY <1>7, <1>8

\* A call joins the log.  If it will tell, it will tell of the phase the project has.
LEMMA ComingByLog ==
  ASSUME Types, LogIsOrdered, NEW p \in Procs, NEW c \in Calls, PhaseIsComing(p), Joins(p, c), Stays(p, c),
         \A d \in Calls : d # c => call'[p][d] = call[p][d],
         disk'.project.phase = disk.project.phase, writers \subseteq writers', shown'[p] = shown[p],
         \/ call[p][c].kind = "artifact" /\ call[p][c].at \notin Past
         \/ call[p][c].kind # "artifact" /\ call[p][c].view = disk
  PROVE  PhaseIsComing(p)'
<1> DEFINE s == log[p]  n == Len(s)
<1>1. /\ s \in Seq(Calls) /\ n \in Nat
      /\ \A i \in 1 .. n : s[i] \in Calls /\ s[i] # c
  BY Entries DEF Joins
<1>2. log'[p] = Append(s, c)
  BY DEF Joins, Types
<1>3. /\ Len(log'[p]) = n + 1 /\ log'[p][n + 1] = c
      /\ \A i \in 1 .. n : log'[p][i] = s[i]
  BY <1>1, <1>2, AppendPlaces
<1>11. PICK m \in Nat : m = n + 1
  BY <1>1
<1>4. \A i \in 1 .. n : call'[p][s[i]] = call[p][s[i]]
  BY <1>1
<1>5. \A i \in 1 .. n : Telling(p, i)' <=> Telling(p, i)
  BY <1>3, <1>4 DEF Telling
<1>6. Telling(p, m)' <=> call[p][c].kind # "artifact"
  BY <1>3, <1>11 DEF Telling, Stays
<1>7. \A i \in 1 .. Len(log'[p]) : i \in 1 .. n \/ i = m
  BY <1>1, <1>3, <1>11
<1>8. m \in 1 .. Len(log'[p]) /\ \A i \in 1 .. n : i < m /\ i \in 1 .. Len(log'[p])
  BY <1>1, <1>3, <1>11
<1>9. CASE call[p][c].kind # "artifact" /\ call[p][c].view = disk
  <2>1. \A i \in 1 .. n : ~IsLast(p, i)'
    BY <1>6, <1>8, <1>9 DEF IsLast
  <2>2. call'[p][log'[p][m]].view.project.phase = disk'.project.phase
    BY <1>3, <1>9, <1>11 DEF Stays
  <2>3. \A i \in 1 .. Len(log'[p]) :
            IsLast(p, i)' => call'[p][log'[p][i]].view.project.phase = disk'.project.phase
    BY <1>7, <2>1, <2>2
  <2>4. ~(\A i \in 1 .. Len(log'[p]) : ~Telling(p, i)')
    BY <1>6, <1>8, <1>9
  <2> QED
    BY <2>3, <2>4 DEF PhaseIsComing
<1>10. CASE call[p][c].kind = "artifact" /\ call[p][c].at \notin Past
  <2> SUFFICES ASSUME writers' \subseteq {p}, ~Pending(p)'
               PROVE  /\ \A i \in 1 .. Len(log'[p]) :
                             IsLast(p, i)' => call'[p][log'[p][i]].view.project.phase = disk'.project.phase
                      /\ (\A i \in 1 .. Len(log'[p]) : ~Telling(p, i)') /\ shown'[p].by \in {"update", "read"} =>
                             shown'[p].phase = disk'.project.phase
    BY DEF PhaseIsComing
  <2>1. writers \subseteq {p} /\ ~Pending(p)
    BY <1>10 DEF Pending, TellsAtOnce
  <2>2. /\ \A i \in 1 .. n : IsLast(p, i) => call[p][s[i]].view.project.phase = disk.project.phase
        /\ (\A i \in 1 .. n : ~Telling(p, i)) /\ shown[p].by \in {"update", "read"} =>
                 shown[p].phase = disk.project.phase
    BY <2>1 DEF PhaseIsComing
  <2>3. ~Telling(p, m)'
    BY <1>6, <1>10
  <2>4. \A i \in 1 .. n : IsLast(p, i)' => IsLast(p, i)
    BY <1>5, <1>8 DEF IsLast
  <2>5. ~IsLast(p, m)'
    BY <2>3 DEF IsLast
  <2>6. \A i \in 1 .. Len(log'[p]) :
            IsLast(p, i)' => call'[p][log'[p][i]].view.project.phase = disk'.project.phase
    <3> SUFFICES ASSUME NEW i \in 1 .. Len(log'[p]), IsLast(p, i)'
                 PROVE  call'[p][log'[p][i]].view.project.phase = disk'.project.phase
      OBVIOUS
    <3>1. i \in 1 .. n
      BY <1>7, <2>5
    <3>2. log'[p][i] = s[i] /\ call'[p][s[i]] = call[p][s[i]]
      BY <1>3, <1>4, <3>1
    <3>3. call[p][s[i]].view.project.phase = disk.project.phase
      BY <2>2, <2>4, <3>1
    <3> QED
      BY <3>2, <3>3
  <2>7. (\A i \in 1 .. Len(log'[p]) : ~Telling(p, i)') /\ shown'[p].by \in {"update", "read"} =>
            shown'[p].phase = disk'.project.phase
    BY <1>5, <1>8, <2>2
  <2> QED
    BY <2>6, <2>7
<1> QED
  BY <1>9, <1>10

\* The head of the log has been written.  If it was the last that tells, what it told is
\* the phase the project has.
LEMMA ComingFromLog ==
  ASSUME Types, LogIsOrdered, NEW p \in Procs, NEW c \in Calls, PhaseIsComing(p), Passes(p, c),
         \A d \in Calls : d # c => call'[p][d] = call[p][d],
         call'[p][c].at \notin Past,
         disk' = disk, writers' = writers,
         \/ call[p][c].kind = "artifact" /\ shown'[p] = shown[p]
         \/ /\ call[p][c].kind # "artifact"
            /\ shown'[p].phase = call[p][c].view.project.phase
  PROVE  PhaseIsComing(p)'
<1> DEFINE s == log[p]  n == Len(s)
<1> SUFFICES ASSUME writers' \subseteq {p}, ~Pending(p)'
             PROVE  /\ \A i \in 1 .. Len(log'[p]) :
                           IsLast(p, i)' => call'[p][log'[p][i]].view.project.phase = disk'.project.phase
                    /\ (\A i \in 1 .. Len(log'[p]) : ~Telling(p, i)') /\ shown'[p].by \in {"update", "read"} =>
                           shown'[p].phase = disk'.project.phase
  BY DEF PhaseIsComing
<1>1. writers \subseteq {p} /\ ~Pending(p)
  BY DEF Pending, TellsAtOnce, Passes, Past
<1>2. /\ \A i \in 1 .. n : IsLast(p, i) => call[p][s[i]].view.project.phase = disk.project.phase
      /\ (\A i \in 1 .. n : ~Telling(p, i)) /\ shown[p].by \in {"update", "read"} =>
               shown[p].phase = disk.project.phase
  BY <1>1 DEF PhaseIsComing
<1>3. s # <<>>
  BY DEF Passes, LogIsOrdered, LogHas
<1>4. log'[p] = Tail(s) /\ Head(s) = c
  BY DEF Passes, Types
<1>5. /\ s \in Seq(Calls) /\ n \in Nat
      /\ \A i \in 1 .. n : s[i] \in Calls
      /\ \A i, j \in 1 .. n : s[i] = s[j] => i = j
  BY Entries
<1>6. /\ Len(log'[p]) = n - 1 /\ n \in Nat \ {0} /\ s[1] = c
      /\ \A i \in 1 .. n - 1 : log'[p][i] = s[i + 1]
  BY <1>3, <1>4, <1>5, TailPlaces
<1>7. \A i \in 1 .. n - 1 : i + 1 \in 1 .. n /\ i + 1 # 1 /\ s[i + 1] # c
  BY <1>5, <1>6
<1>8. \A i \in 1 .. n - 1 : call'[p][log'[p][i]] = call[p][s[i + 1]]
  BY <1>5, <1>6, <1>7
<1>9. \A i \in 1 .. n - 1 : Telling(p, i)' <=> Telling(p, i + 1)
  BY <1>8 DEF Telling
<1>10. \A j \in 1 .. n : j = 1 \/ (j - 1 \in 1 .. n - 1 /\ (j - 1) + 1 = j)
  BY <1>6
<1>11. \A i \in 1 .. n - 1 : IsLast(p, i)' => IsLast(p, i + 1)
  <2> SUFFICES ASSUME NEW i \in 1 .. n - 1, IsLast(p, i)', NEW j \in 1 .. n, j > i + 1
               PROVE  ~Telling(p, j)
    BY <1>9 DEF IsLast
  <2>1. PICK m \in 1 .. n - 1 : m + 1 = j
    BY <1>10
  <2>2. m > i /\ m \in 1 .. Len(log'[p])
    BY <1>6, <2>1
  <2>3. ~Telling(p, m)'
    BY <2>2 DEF IsLast
  <2> QED
    BY <1>9, <2>1, <2>3
<1>12. \A i \in 1 .. Len(log'[p]) :
           IsLast(p, i)' => call'[p][log'[p][i]].view.project.phase = disk'.project.phase
  <2> SUFFICES ASSUME NEW i \in 1 .. Len(log'[p]), IsLast(p, i)'
               PROVE  call'[p][log'[p][i]].view.project.phase = disk'.project.phase
    OBVIOUS
  <2>1. i \in 1 .. n - 1 /\ i + 1 \in 1 .. n
    BY <1>6, <1>7
  <2>2. call'[p][log'[p][i]] = call[p][s[i + 1]]
    BY <1>8, <2>1
  <2>3. call[p][s[i + 1]].view.project.phase = disk.project.phase
    BY <1>2, <1>11, <2>1
  <2> QED
    BY <2>2, <2>3
<1>13. ASSUME \A i \in 1 .. Len(log'[p]) : ~Telling(p, i)', shown'[p].by \in {"update", "read"}
       PROVE  shown'[p].phase = disk'.project.phase
  <2>1. \A j \in 1 .. n : j # 1 => ~Telling(p, j)
    BY <1>6, <1>9, <1>10, <1>13
  <2>2. 1 \in 1 .. n
    BY <1>6
  <2>3. Telling(p, 1) <=> call[p][c].kind # "artifact"
    BY <1>6 DEF Telling
  <2>4. CASE call[p][c].kind = "artifact" /\ shown'[p] = shown[p]
    BY <1>2, <1>13, <2>1, <2>3, <2>4
  <2>5. CASE /\ call[p][c].kind # "artifact"
             /\ shown'[p].phase = call[p][c].view.project.phase
    <3>1. IsLast(p, 1)
      BY <2>1, <2>3, <2>5 DEF IsLast
    <3> QED
      BY <1>2, <1>6, <2>2, <2>5, <3>1
  <2> QED
    BY <2>4, <2>5
<1> QED
  BY <1>12, <1>13

\* A call that has not written goes on without telling: what is pending still is.
LEMMA StillPending ==
  ASSUME NEW p \in Procs, NEW c \in Calls,
         \A d \in Calls : d # c => call'[p][d] = call[p][d],
         call[p][c].at \in Past => call'[p][c].at \in Past /\ Stays(p, c)
  PROVE  Pending(p) => Pending(p)'
BY DEF Pending, TellsAtOnce, Stays

\* What the step of a call leaves to the other processes.
LEMMA StepElsewhere ==
  ASSUME Types, NEW p \in Procs, NEW c \in Calls, Step(p, c), NEW q \in Procs, q # p
  PROVE  log'[q] = log[q] /\ shown'[q] = shown[q]
<1> DEFINE shows == \E by \in {"update", "read", "overtaken"} : Shows(p, by, call[p][c].view)
<1>1. shown' = shown \/ shows
  BY DEF Step, TakeLock, LockTimesOut, InitLooks, Apply, Commit, CommitFails, CreateTemplate,
         FillTemplate, Release, ReleaseFailed, WriteLog, WriteArtifact, Reread, Refresh
<1>2. shown'[q] = shown[q]
  BY <1>1 DEF Shows, Types
<1>3. log'[q] = log[q]
  BY StepLogs DEF Joins, Passes, Ignores, Types
<1> QED
  BY <1>2, <1>3

\* A process whose calls, log and screen stay as they are, while state.json does or
\* is written by another.
LEMMA ElsewhereStillComing ==
  ASSUME NEW q \in Procs, PhaseIsComing(q), call'[q] = call[q], log'[q] = log[q],
         shown'[q] = shown[q], writers \subseteq writers',
         disk' = disk \/ ~(writers' \subseteq {q})
  PROVE  PhaseIsComing(q)'
<1>1. CASE ~(writers' \subseteq {q})
  BY <1>1 DEF PhaseIsComing
<1>2. CASE disk' = disk
  <2>1. Pending(q)' <=> Pending(q)
    BY DEF Pending, TellsAtOnce
  <2>2. \A i \in 1 .. Len(log[q]) : Telling(q, i)' <=> Telling(q, i)
    BY DEF Telling
  <2>3. \A i \in 1 .. Len(log[q]) : IsLast(q, i)' <=> IsLast(q, i)
    BY <2>2 DEF IsLast
  <2> SUFFICES ASSUME writers' \subseteq {q}, ~Pending(q)'
               PROVE  /\ \A i \in 1 .. Len(log'[q]) :
                             IsLast(q, i)' => call'[q][log'[q][i]].view.project.phase = disk'.project.phase
                      /\ (\A i \in 1 .. Len(log'[q]) : ~Telling(q, i)') /\ shown'[q].by \in {"update", "read"} =>
                             shown'[q].phase = disk'.project.phase
    BY DEF PhaseIsComing
  <2>4. /\ \A i \in 1 .. Len(log[q]) : IsLast(q, i) => call[q][log[q][i]].view.project.phase = disk.project.phase
        /\ (\A i \in 1 .. Len(log[q]) : ~Telling(q, i)) /\ shown[q].by \in {"update", "read"} =>
                 shown[q].phase = disk.project.phase
    BY <2>1 DEF PhaseIsComing
  <2> QED
    BY <1>2, <2>2, <2>3, <2>4
<1> QED
  BY <1>1, <1>2

\* The process whose call steps: what is coming to its screen still is.
LEMMA OwnComing ==
  ASSUME Types, LockIsHeld, QueueHasHead, LogIsOrdered, Asked, ViewsAreFresh, DiskIsSound,
         NEW p \in Procs, NEW c \in Calls, PhaseIsComing(p), Step(p, c)
  PROVE  PhaseIsComing(p)'
<1>1. \A d \in Calls : d # c => call'[p][d] = call[p][d]
  BY StepLocks DEF Others
<1>2. AskedFor(p, c) /\ ViewIsFresh(p, c)
  BY DEF Asked, ViewsAreFresh
<1>3. CASE Commit(p, c)
  <2>1. Fits(p, c) /\ disk' = call[p][c].view
    BY <1>2, <1>3 DEF ViewIsFresh, Commit, At
  <2>2. CASE call[p][c].kind = "worker"
    <3>1. disk'.project = disk.project
      BY <2>1, <2>2 DEF Fits, Updated
    <3>2. Pending(p) => Pending(p)'
      BY <1>1, <1>3, StillPending DEF Commit, At, Past
    <3> QED
      BY <1>1, <1>3, <3>1, <3>2, StillComing DEF Commit, At
  <2>3. CASE call[p][c].kind # "worker"
    <3>1. \E s \in Past : Goes(p, c, s)
      BY <1>3 DEF Commit, Past
    <3>2. call'[p][c].at \in Past /\ Stays(p, c)
      BY <3>1, GoesOn DEF Places, UnderLock, Past
    <3>3. ~TellsAtOnce(p, c)'
      BY <2>1, <2>3, <3>2 DEF TellsAtOnce, Stays, Fits, Updates
    <3>4. Pending(p)'
      BY <3>2, <3>3 DEF Pending
    <3> QED
      BY <3>4 DEF PhaseIsComing
  <2> QED
    BY <2>2, <2>3
<1>4. CASE CreateTemplate(p, c) \/ FillTemplate(p, c)
  <2>1. \E s \in Past : Goes(p, c, s)
    BY <1>4 DEF CreateTemplate, FillTemplate, Past
  <2>2. call'[p][c].at \in Past /\ Stays(p, c)
    <3>1. PICK s \in Past \ {"artifacts"} : Goes(p, c, s)
      BY <1>4 DEF CreateTemplate, FillTemplate, Past
    <3> QED
      BY <3>1, GoesOn DEF Places, UnderLock, Past
  <2>3. Pending(p) => Pending(p)'
    BY <1>1, <2>2, StillPending
  <2> QED
    BY <1>1, <1>4, <2>3, StillComing DEF CreateTemplate, FillTemplate, At, history
<1>5. CASE Release(p, c)
  <2>1. call[p][c].view = disk /\ call[p][c].kind \in Updates \cup {"init"}
    BY <1>2, <1>5 DEF ViewIsFresh, Release, At, Past
  <2>2. CASE TellsAtOnce(p, c)
    <3>1. Ends(p, c) /\ Shows(p, "update", call[p][c].view) /\ UNCHANGED log
      BY <1>5, <2>2 DEF Release, TellsAtOnce, Is
    <3>2. \A d \in Calls : d # c => call[p][d].at \notin Past
      BY <1>5 DEF QueueHasHead, Release, At, UnderLock, Past
    <3>3. ~Pending(p)
      BY <2>2, <3>2 DEF Pending
    <3>4. shown'[p].phase = disk.project.phase
      BY <2>1, <3>1 DEF Shows, Types
    <3> QED
      BY <1>1, <1>5, <3>1, <3>3, <3>4, StillComing DEF Release, At, history
  <2>3. CASE ~TellsAtOnce(p, c)
    <3>1. Goes(p, c, "log") /\ log' = [log EXCEPT ![p] = Append(@, c)] /\ UNCHANGED shown
      BY <1>5, <2>3 DEF Release, TellsAtOnce, Is
    <3>2. call'[p][c].at = "log" /\ Stays(p, c)
      BY <3>1, GoesOn DEF Places
    <3>3. Joins(p, c)
      BY <1>5, <3>1, <3>2 DEF Joins, Release, At
    <3>4. call[p][c].kind # "artifact"
      BY <2>1 DEF Updates
    <3> QED
      BY <1>1, <1>5, <2>1, <3>1, <3>2, <3>3, <3>4, ComingByLog DEF Release, history
  <2> QED
    BY <2>2, <2>3
<1>6. CASE WriteArtifact(p, c)
  <2>1. Goes(p, c, "log")
    BY <1>6 DEF WriteArtifact
  <2>2. call'[p][c].at = "log" /\ Stays(p, c)
    BY <2>1, GoesOn DEF Places
  <2>3. Joins(p, c)
    BY <1>6, <2>2 DEF Joins, WriteArtifact, At
  <2>4. call[p][c].kind = "artifact" /\ call[p][c].at \notin Past
    BY <1>2, <1>6 DEF ViewIsFresh, WriteArtifact, At, Past
  <2> QED
    BY <1>1, <1>6, <2>2, <2>3, <2>4, ComingByLog DEF WriteArtifact, history
<1>7. CASE WriteLog(p, c)
  <2>1. CASE Is(p, c, {"artifact"})
    <3>1. Goes(p, c, "reread") /\ UNCHANGED shown
      BY <1>7, <2>1 DEF WriteLog
    <3>2. call'[p][c].at = "reread"
      BY <3>1, GoesOn DEF Places
    <3>3. Passes(p, c) /\ call'[p][c].at \notin Past
      BY <1>7, <3>2 DEF WriteLog, Passes, At, Past
    <3>4. call[p][c].kind = "artifact"
      BY <2>1 DEF Is
    <3> QED
      BY <1>1, <1>7, <3>1, <3>3, <3>4, ComingFromLog DEF WriteLog, history
  <2>2. CASE ~Is(p, c, {"artifact"})
    <3>1. Ends(p, c) /\ Shows(p, "update", call[p][c].view)
      BY <1>7, <2>2 DEF WriteLog
    <3>2. call'[p][c].at = "idle"
      BY <3>1, EndsHere DEF Idle
    <3>3. Passes(p, c) /\ call'[p][c].at \notin Past
      BY <1>7, <3>2 DEF WriteLog, Passes, At, Past
    <3>4. call[p][c].kind # "artifact"
      BY <2>2 DEF Is
    <3>5. shown'[p].phase = call[p][c].view.project.phase
      BY <3>1 DEF Shows, Types
    <3> QED
      BY <1>1, <1>7, <3>3, <3>4, <3>5, ComingFromLog DEF WriteLog, history
  <2> QED
    BY <2>1, <2>2
<1>8. CASE Refresh(p, c)
  <2>1. shown'[p].by = "overtaken" \/ shown'[p].phase = disk.project.phase
    BY <1>8 DEF Refresh, Shows, Types
  <2>2. Pending(p) => Pending(p)'
    BY <1>1, <1>8, StillPending DEF Refresh, At, Past
  <2> QED
    BY <1>1, <1>8, <2>1, <2>2, StillComing DEF Refresh, At, history
<1>9. ASSUME call[p][c].at \notin Past \cup {"log"}, log' = log, shown' = shown, disk' = disk,
             writers' = writers
      PROVE  PhaseIsComing(p)'
  <2>1. Pending(p) => Pending(p)'
    BY <1>1, <1>9, StillPending
  <2> QED
    BY <1>1, <1>9, <2>1, StillComing
<1>10. CASE TakeLock(p, c) \/ LockTimesOut(p, c)
  BY <1>9, <1>10 DEF TakeLock, LockTimesOut, At, Past, history
<1>11. CASE InitLooks(p, c) \/ Apply(p, c)
  BY <1>9, <1>11 DEF InitLooks, Apply, At, Past, history
<1>12. CASE CommitFails(p, c) \/ ReleaseFailed(p, c) \/ Reread(p, c)
  BY <1>9, <1>12 DEF CommitFails, ReleaseFailed, Reread, At, Past, history
<1> QED
  BY <1>3, <1>4, <1>5, <1>6, <1>7, <1>8, <1>10, <1>11, <1>12 DEF Step

\* What is coming to a screen still is, whoever steps.
LEMMA ComingStep ==
  ASSUME Types, LockIsHeld, QueueHasHead, LogIsOrdered, Asked, ViewsAreFresh, DiskIsSound, ShownLast,
         [Next]_vars
  PROVE  ShownLast'
<1> SUFFICES ASSUME NEW q \in Procs PROVE PhaseIsComing(q)'
  BY DEF ShownLast
<1>0. PhaseIsComing(q)
  BY DEF ShownLast
<1>1. ASSUME NEW p \in Procs, NEW c \in Calls, NEW k \in Kinds, NEW t \in Targets \cup {"none"}, Ask(p, c, k, t)
      PROVE  PhaseIsComing(q)'
  <2>1. /\ disk' = disk /\ log' = log /\ shown' = shown /\ writers' = writers
        /\ call[p][c].at = "idle" /\ Others(p, c)
    BY <1>1, AskLocks DEF Ask, history
  <2>2. CASE q = p
    <3>1. \A d \in Calls : d # c => call'[p][d] = call[p][d]
      BY <2>1 DEF Others
    <3>2. Pending(p) => Pending(p)'
      BY <2>1, <3>1, StillPending DEF Past
    <3> QED
      BY <1>0, <2>1, <2>2, <3>1, <3>2, StillComing
  <2>3. CASE q # p
    <3>1. call'[q] = call[q]
      BY <1>1, <2>3 DEF Ask, Types
    <3> QED
      BY <1>0, <2>1, <3>1, ElsewhereStillComing
  <2> QED
    BY <2>2, <2>3
<1>2. ASSUME NEW p \in Procs, NEW c \in Calls, Step(p, c) PROVE PhaseIsComing(q)'
  <2>1. CASE q = p
    BY <1>0, <1>2, <2>1, OwnComing
  <2>2. CASE q # p
    <3>1. log'[q] = log[q] /\ shown'[q] = shown[q]
      BY <1>2, <2>2, StepElsewhere
    <3>2. call'[q] = call[q]
      <4>1. \A d \in Calls : call'[q][d] = call[q][d]
        BY <1>2, <2>2, StepLocks DEF Others
      <4>2. call' \in [Procs -> [Calls -> CallStates]]
        BY <1>2, StepTypes DEF Next, Types
      <4> QED
        BY <4>1, <4>2 DEF Types
    <3>3. CASE Commit(p, c)
      BY <1>0, <2>2, <3>1, <3>2, <3>3, ElsewhereStillComing DEF Commit
    <3>4. CASE ~Commit(p, c)
      <4>1. disk' = disk /\ writers' = writers
        BY <1>2, <3>4, OnlyCommitsWrite
      <4> QED
        BY <1>0, <3>1, <3>2, <4>1, ElsewhereStillComing
    <3> QED
      BY <3>3, <3>4
  <2> QED
    BY <2>1, <2>2
<1>3. ASSUME NEW p \in Procs, Crash(p) PROVE PhaseIsComing(q)'
  <2>1. CASE q = p
    <3>1. \A i \in 1 .. Len(log'[p]) : FALSE
      BY <1>3, CrashLocks
    <3>2. shown'[p].by \notin {"update", "read"}
      BY <1>3 DEF Crash, Types, Blank
    <3> QED
      BY <2>1, <3>1, <3>2 DEF PhaseIsComing
  <2>2. CASE q # p
    <3>1. call'[q] = call[q] /\ log'[q] = log[q]
      BY <1>3, <2>2, CrashLocks
    <3>2. shown'[q] = shown[q] /\ disk' = disk /\ writers' = writers
      BY <1>3, <2>2 DEF Crash, Types, history
    <3> QED
      BY <1>0, <3>1, <3>2, ElsewhereStillComing
  <2> QED
    BY <2>1, <2>2
<1>4. CASE Reclaim
  BY <1>0, <1>4, ElsewhereStillComing DEF Reclaim, history
<1>5. CASE UNCHANGED vars
  BY <1>0, <1>5, ElsewhereStillComing DEF vars
<1> QED
  BY <1>1, <1>2, <1>3, <1>4, <1>5 DEF Next, Kinds

-----------------------------------------------------------------------------
(* The theorems *)

IInv ==
    /\ Types /\ LockIsHeld /\ QueueHasHead /\ LogIsOrdered
    /\ Asked /\ ViewsAreFresh /\ DiskIsSound /\ ShownLast

\* The invariant holds at the start ...
LEMMA InitInv == Init => IInv
<1> SUFFICES ASSUME Init PROVE IInv
  OBVIOUS
<1>1. Types
  BY InitTypes
<1>2. \A p \in Procs, c \in Calls : call[p][c] = Idle
  BY DEF Init
<1>3. LockIsHeld /\ QueueHasHead
  BY <1>2 DEF LockIsHeld, QueueHasHead, Idle, UnderLock
<1>4. \A p \in Procs : log[p] = <<>> /\ shown[p] = Blank
  BY DEF Init
<1>5. LogIsOrdered
  <2>1. \A p \in Procs : \A i \in 1 .. Len(log[p]) : FALSE
    BY <1>4
  <2>2. \A p \in Procs, c \in Calls : call[p][c].at # "log"
    BY <1>2 DEF Idle
  <2> QED
    BY <2>1, <2>2 DEF LogIsOrdered
<1>6. Asked
  BY <1>2 DEF Asked, AskedFor, Idle, Updates
<1>7. ViewsAreFresh
  BY <1>2 DEF ViewsAreFresh, ViewIsFresh, Idle, Past
<1>8. DiskIsSound
  <2>1. CASE disk = NoState
    BY <2>1 DEF Init, DiskIsSound, CoherentProject, NoState, P!NoProject
  <2>2. ASSUME NEW s \in StartPhases, disk = [project |-> [P!Fresh EXCEPT !.phase = s], rev |-> 1]
        PROVE  DiskIsSound
    <3>1. s # "paused"
      BY PhasesAssumption DEF P!ActivePhases
    <3> QED
      BY <2>2, <3>1 DEF Init, DiskIsSound, CoherentProject, P!Fresh
  <2> QED
    BY <2>1, <2>2 DEF Init
<1>9. ShownLast
  BY <1>4 DEF ShownLast, PhaseIsComing, Blank
<1> QED
  BY <1>1, <1>3, <1>5, <1>6, <1>7, <1>8, <1>9 DEF IInv

\* ... and every step keeps it.
LEMMA StepInv == IInv /\ [Next]_vars => IInv'
<1> SUFFICES ASSUME IInv, [Next]_vars PROVE IInv'
  OBVIOUS
<1> USE DEF IInv
<1>1. Types'
  BY StepTypes
<1>2. LockIsHeld' /\ QueueHasHead' /\ LogIsOrdered'
  BY LockStep, QueueStep, LogStep
<1>3. Asked' /\ ViewsAreFresh' /\ DiskIsSound'
  BY ViewsStep, DiskStep
<1>4. ShownLast'
  BY ComingStep
<1> QED
  BY <1>1, <1>2, <1>3, <1>4

\* The invariant holds in every state of the store.
THEOREM StoreInvariant == Spec => []IInv
BY InitInv, StepInv, PTL DEF Spec

\* The invariant says more than the types.
LEMMA InvIsTyped == IInv => TypeOK
<1> SUFFICES ASSUME IInv PROVE TypeOK
  OBVIOUS
<1>1. disk \in [project : P!States \cup {P!NoProject}, rev : Nat]
  BY DEF IInv, Types, DiskStates, NoState
<1>2. \A p \in Procs : shown[p].by \in {"none", "update", "read", "overtaken"}
  BY DEF IInv, Types, ShownStates
<1> QED
  BY <1>1, <1>2 DEF IInv, Types, TypeOK, Locks

\* What TypeOK says of the store: state.json, the charter, the lock, queues and logs.
THEOREM StoreTypes == Spec => []TypeOK
BY InvIsTyped, StoreInvariant, PTL

\* No update of state.json is lost: the revision that stands there counts the renames,
\* so each was made from what the one before it had left.
THEOREM NoUpdateIsLost == Spec => []NoLostUpdate
<1>1. IInv => NoLostUpdate
  BY DEF IInv, DiskIsSound, NoLostUpdate
<1> QED
  BY <1>1, StoreInvariant, PTL

\* No process is ever refused by the state that another wrote: what stands in
\* state.json satisfies assertProjectState.
THEOREM StoreIsCoherent == Spec => []PauseIsCoherent
<1>1. IInv => PauseIsCoherent
  BY DEF IInv, DiskIsSound, CoherentProject, PauseIsCoherent, P!PauseIsCoherent
<1> QED
  BY <1>1, StoreInvariant, PTL

\* When the calls of the one process that writes are at rest, the phase it shows is the
\* project's, although a change of phase is told later than a Worker's update and a read
\* are; excepted is what a read shows that a change of phase has overtaken.
THEOREM PhaseIsShown == Spec => []ShownPhaseIsCurrent
<1>1. IInv => ShownPhaseIsCurrent
  <2> SUFFICES ASSUME IInv, NEW p \in Procs, Quiet(p), writers \subseteq {p}, shown[p].by \in {"update", "read"}
               PROVE  shown[p].phase = disk.project.phase
    BY DEF ShownPhaseIsCurrent
  <2>1. ~Pending(p)
    BY DEF Pending, Quiet, At, Past
  <2>2. \A i \in 1 .. Len(log[p]) : FALSE
    BY Entries DEF IInv, Quiet, At
  <2> QED
    BY <2>1, <2>2 DEF IInv, ShownLast, PhaseIsComing
<1> QED
  BY <1>1, StoreInvariant, PTL

\* A charter that somebody wrote is never replaced by the template.
THEOREM WrittenCharterStays == Spec => WrittenStays
<1>1. [Next]_vars => [charter = "written" => charter' = "written"]_charter
  <2> SUFFICES ASSUME Next, charter = "written" PROVE charter' = "written"
    BY DEF vars
  <2>1. ASSUME NEW p \in Procs, NEW c \in Calls, Step(p, c) PROVE charter' = "written"
    <3>1. CASE CreateTemplate(p, c)
      BY <3>1 DEF CreateTemplate
    <3>2. CASE FillTemplate(p, c)
      BY <3>2 DEF FillTemplate
    <3>3. CASE WriteArtifact(p, c)
      BY <3>3 DEF WriteArtifact
    <3>4. CASE TakeLock(p, c) \/ LockTimesOut(p, c) \/ InitLooks(p, c) \/ Apply(p, c)
      BY <3>4 DEF TakeLock, LockTimesOut, InitLooks, Apply
    <3>5. CASE Commit(p, c) \/ CommitFails(p, c) \/ Release(p, c) \/ ReleaseFailed(p, c)
      BY <3>5 DEF Commit, CommitFails, Release, ReleaseFailed
    <3>6. CASE WriteLog(p, c) \/ Reread(p, c) \/ Refresh(p, c)
      BY <3>6 DEF WriteLog, Reread, Refresh
    <3> QED
      BY <2>1, <3>1, <3>2, <3>3, <3>4, <3>5, <3>6 DEF Step
  <2> QED
    BY <2>1 DEF Next, Ask, Crash, Reclaim
<1> QED
  BY <1>1, PTL DEF Spec, WrittenStays

\* Whatever replaces state.json moves the project as the controller promises, or leaves
\* it where it is: the store implements ProjectLifecycle.
LEMMA StepsAreLifecycle ==
  ASSUME IInv, Next
  PROVE  P!Next \/ UNCHANGED disk.project
<1>1. ASSUME NEW p \in Procs, NEW c \in Calls, Commit(p, c)
      PROVE  P!Next \/ UNCHANGED disk.project
  <2>1. Fits(p, c) /\ AskedFor(p, c) /\ disk' = call[p][c].view
    BY <1>1 DEF IInv, Asked, ViewsAreFresh, ViewIsFresh, Commit, At
  <2> DEFINE t == call[p][c].target
  <2>2. CASE call[p][c].kind = "init"
    BY <2>1, <2>2 DEF Fits, Updates, P!Next, P!Initialize, P!Exists, NoState
  <2>3. CASE call[p][c].kind \in Updates
    <3>1. disk.project \in P!States
      BY <2>3, UpdatedTyped DEF IInv
    <3>2. P!Exists
      BY <3>1 DEF P!Exists, P!States, P!NoProject, P!Phases, P!ActivePhases
    <3>3. /\ disk'.project = Updated(disk.project, call[p][c].kind, t)
          /\ Accepts(disk.project, call[p][c].kind, t)
      BY <2>1, <2>3 DEF Fits, Updates
    <3>4. CASE call[p][c].kind = "move"
      BY <2>1, <3>2, <3>3, <3>4 DEF AskedFor, Updated, Accepts, P!Next, P!Move
    <3>5. CASE call[p][c].kind = "pause"
      BY <3>2, <3>3, <3>5 DEF Updated, P!Next, P!Pause
    <3>6. CASE call[p][c].kind = "resume"
      BY <3>2, <3>3, <3>6 DEF Updated, P!Next, P!Resume
    <3>7. CASE call[p][c].kind = "worker"
      BY <3>3, <3>7 DEF Updated
    <3> QED
      BY <2>3, <3>4, <3>5, <3>6, <3>7 DEF Updates
  <2> QED
    BY <2>1, <2>2, <2>3 DEF Fits
<1>2. ASSUME NEW p \in Procs, NEW c \in Calls, Step(p, c) PROVE P!Next \/ UNCHANGED disk.project
  BY <1>1, <1>2, OnlyCommitsWrite
<1>3. ASSUME disk' = disk PROVE UNCHANGED disk.project
  BY <1>3
<1> QED
  BY <1>2, <1>3 DEF Next, Ask, Crash, Reclaim

\* The phases move as ProjectLifecycle says, through crashes, failed writes and calls of
\* several processes.
THEOREM StoreImplementsLifecycle == Spec => ImplementsLifecycle
<1>1. IInv /\ [Next]_vars => [P!Next]_(disk.project)
  BY StepsAreLifecycle DEF vars
<1> QED
  BY <1>1, StoreInvariant, PTL DEF Spec, ImplementsLifecycle

\* Both of the store's promises at once.
THEOREM StoreKeepsItsPromises == Spec => KeepsItsPromises
BY StoreImplementsLifecycle, WrittenCharterStays, PTL DEF KeepsItsPromises

\* A pause never forgets where the project was, and a phase is left only along an
\* allowed transition, whoever asks.
THEOREM TableIsFollowed == Spec => P!PhasesFollowTheTable
<1> DEFINE Follows ==
      LET s == disk.project
      IN  /\ s.phase = "paused" /\ s'.phase = "paused" => s'.before = s.before
          /\ s.phase \in P!ActivePhases /\ s'.phase = "paused" => s'.before = s.phase
          /\ P!Exists => s'.phase \in P!AllowedTransitions[s.phase] \cup {s.phase}
<1>1. IInv /\ [Next]_vars => [Follows]_(disk.project)
  <2> SUFFICES ASSUME IInv, P!Next PROVE Follows
    BY StepsAreLifecycle DEF vars
  <2>1. CoherentProject(disk.project) /\ disk.project \in P!States \cup {P!NoProject}
    BY DEF IInv, DiskIsSound, Types, DiskStates, NoState
  <2> DEFINE t == disk.project
  <2> USE DEF CoherentProject, P!States, P!Phases, P!ActivePhases, P!NoProject, P!Exists
  <2>2. CASE P!Initialize
    BY <2>1, <2>2 DEF P!Initialize, P!Fresh
  <2>3. CASE P!Pause
    <3>1. t # P!NoProject /\ t \in P!States /\ disk'.project = P!Paused(t)
      BY <2>1, <2>3 DEF P!Pause
    <3>2. CASE t.phase = "paused"
      BY <2>1, <3>1, <3>2 DEF P!Paused
    <3>3. CASE t.phase # "paused"
      <4>1. disk'.project.phase = "paused" /\ disk'.project.before = t.phase
        BY <3>1, <3>3 DEF P!Paused, P!Transitioned
      <4>2. "paused" \in P!AllowedTransitions[t.phase]
        BY <3>1, <3>3 DEF P!AllowedTransitions
      <4> QED
        BY <3>3, <4>1, <4>2
    <3> QED
      BY <3>2, <3>3
  <2>4. CASE P!Resume
    BY <2>1, <2>4 DEF P!Resume, P!Resumed, P!Transitioned, P!AllowedTransitions
  <2>5. ASSUME NEW a \in P!ActivePhases, P!Move(a) PROVE Follows
    BY <2>1, <2>5 DEF P!Move, P!MayMove, P!Transitioned
  <2> QED
    BY <2>2, <2>3, <2>4, <2>5 DEF P!Next
<1> QED
  BY <1>1, StoreInvariant, PTL DEF Spec, P!PhasesFollowTheTable
=============================================================================
