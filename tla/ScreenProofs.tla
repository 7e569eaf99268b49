---------------------------- MODULE ScreenProofs ----------------------------
(***************************************************************************)
(* Proofs about Screen, which hold whatever the Workers, the bodies and    *)
(* heights of the panel, the sizes of the terminal, the providers and      *)
(* models, and the arguments are.                                          *)
(*                                                                         *)
(* The parts share no state, so each section finds what one of them        *)
(* carries from step to step, and the last one puts them side by side:     *)
(*   - ControlCenter: an operation in flight is known to the panel, timers *)
(*     follow the surface, evidence is of the attempt shown, and every     *)
(*     project that is told lists each Worker once (CenterIInv);           *)
(*   - PanelView: a control the user chose keeps the focus until a render  *)
(*     settles where it is (PanelInv, ViewTypes);                          *)
(*   - ModelPicker: the pins that wait alternate between what is saved and *)
(*     what is shown (PickerInv), and the list is that of the provider     *)
(*     that is marked, since sorting is a total order that gives every     *)
(*     provider a place of its own (ListInv);                              *)
(*   - Launcher and Surfaces: LauncherInv, EndTypes, ShownInv.             *)
(***************************************************************************)
EXTENDS Screen, SequenceTheorems, FiniteSetTheorems, TLAPS

-----------------------------------------------------------------------------
(* ControlCenter *)

\* How far a Worker has come within an attempt; no step of the project goes back.
Rank(st) ==
    IF st = "queued" THEN 0 ELSE IF st = "starting" THEN 1 ELSE IF st = "working" THEN 2
    ELSE IF st = "pause_requested" THEN 3 ELSE IF st = "verifying" THEN 4
    ELSE IF st = "paused" THEN 5 ELSE IF st = "completed" THEN 6 ELSE IF st = "blocked" THEN 7
    ELSE IF st = "interrupted" THEN 8 ELSE IF st = "failed" THEN 9 ELSE 10

Idents == Nat \X Statuses \X Nat

\* One identity of a Worker was never written after another.
NotAfter(i, j) ==
    /\ i[3] <= j[3]
    /\ i[1] < j[1] \/ (i[1] = j[1] /\ Rank(i[2]) <= Rank(j[2]))

Behind(s, t) == \A w \in Workers : Identity(s, w) \in Idents /\ NotAfter(Identity(s, w), Identity(t, w))

\* A project has a record of every Worker.
Recorded(s) ==
    /\ {"paused", "status", "attempt", "commit", "order"} \subseteq DOMAIN s
    /\ s.status \in [Workers -> Statuses]
    /\ s.attempt \in [Workers -> Nat] /\ s.commit \in [Workers -> Nat]

\* What the panel was told, and what it will be told, was the project once.
ToldAreOld ==
    /\ Recorded(db) /\ Behind(cur, db)
    /\ \E S : late \in Seq(S)
    /\ \A k \in DOMAIN late : Behind(late[k].state, db)

\* The operation in flight; an inspection began with an identity the panel showed.
OpIsKnown ==
    /\ {"type", "worker", "at"} \subseteq DOMAIN op
    /\ op.at \in {"none", "dialog", "call", "ending", "stopping", "failing", "read", "compare"}
    /\ op.at = "none" => op = NoOp
    /\ op.at \notin {"none", "read", "compare"} => op.type # "inspect"
    /\ op.at = "stopping" => "todo" \in DOMAIN op
    /\ op.at \in {"read", "compare"} =>
          /\ op.type = "inspect" /\ op.worker \in Workers /\ op.ident \in Idents
          /\ NotAfter(op.ident, Identity(db, op.worker))
    /\ op.at = "compare" =>
          /\ op.evidence \in Idents
          /\ NotAfter(op.ident, op.evidence) /\ NotAfter(op.evidence, Identity(db, op.worker))

\* Evidence that stands is not older than what is shown beside it.
EvidenceIsNew ==
    /\ DOMAIN detail = Workers
    /\ \A w \in Workers : detail[w].kind = "loaded" =>
         LET e == detail[w].evidence IN
         /\ e \in Idents /\ NotAfter(e, Identity(db, w))
         /\ cur.attempt[w] <= e[1] /\ cur.commit[w] <= e[3]
         /\ cur.status[w] \in Terminal /\ cur.attempt[w] = e[1] => Rank(cur.status[w]) <= Rank(e[2])

CenterInv ==
    /\ ToldAreOld /\ OpIsKnown /\ EvidenceIsNew
    /\ PanelFollowsOperation /\ TimersFollowTheSurface

-----------------------------------------------------------------------------
\* The order of a Worker's identities.
LEMMA NotAfterIsOrder ==
  ASSUME NEW i \in Idents, NEW j \in Idents, NEW k \in Idents, NotAfter(i, j)
  PROVE  /\ NotAfter(i, i)
         /\ NotAfter(j, k) => NotAfter(i, k)
         /\ NotAfter(j, i) => i[1] = j[1] /\ i[3] = j[3] /\ i[2] = j[2]
<1>1. i[1] \in Nat /\ i[2] \in Statuses /\ i[3] \in Nat
  BY DEF Idents
<1>2. j[1] \in Nat /\ j[2] \in Statuses /\ j[3] \in Nat
  BY DEF Idents
<1>3. k[1] \in Nat /\ k[2] \in Statuses /\ k[3] \in Nat
  BY DEF Idents
<1>4. Rank(i[2]) \in Nat /\ Rank(j[2]) \in Nat /\ Rank(k[2]) \in Nat
  BY DEF Rank
<1>5. Rank(i[2]) = Rank(j[2]) => i[2] = j[2]
  BY <1>1, <1>2 DEF Rank, Statuses, Unfinished, Active
<1> QED
  BY <1>1, <1>2, <1>3, <1>4, <1>5 DEF NotAfter

\* An identity says what it is made of.
LEMMA IdentityIs ==
  ASSUME NEW s, NEW w
  PROVE  /\ Identity(s, w)[1] = s.attempt[w]
         /\ Identity(s, w)[2] = s.status[w]
         /\ Identity(s, w)[3] = s.commit[w]
BY DEF Identity

\* A project with records has identities.
LEMMA RecordedIs ==
  ASSUME NEW s, Recorded(s), NEW w \in Workers
  PROVE  Identity(s, w) \in Idents
BY DEF Recorded, Identity, Idents

\* A project in which one Worker gets further, or begins a new attempt, moves on.
LEMMA Advances ==
  ASSUME NEW s, Recorded(s), NEW t, Recorded(t), NEW w,
         \A v \in Workers \ {w} : Identity(t, v) = Identity(s, v),
         w \in Workers =>
             /\ s.commit[w] <= t.commit[w]
             /\ \/ s.attempt[w] < t.attempt[w]
                \/ s.attempt[w] = t.attempt[w] /\ Rank(s.status[w]) <= Rank(t.status[w])
  PROVE  Behind(s, t)
<1>1. ASSUME NEW v \in Workers PROVE NotAfter(Identity(s, v), Identity(t, v))
  <2>1. /\ s.attempt[v] \in Nat /\ s.commit[v] \in Nat
        /\ Rank(s.status[v]) \in Nat /\ Rank(t.status[v]) \in Nat
    BY DEF Recorded, Rank
  <2>2. /\ Identity(s, v)[1] = s.attempt[v] /\ Identity(t, v)[1] = t.attempt[v]
        /\ Identity(s, v)[2] = s.status[v] /\ Identity(t, v)[2] = t.status[v]
        /\ Identity(s, v)[3] = s.commit[v] /\ Identity(t, v)[3] = t.commit[v]
    BY DEF Identity
  <2>3. CASE v = w
    BY <2>1, <2>2, <2>3 DEF NotAfter
  <2>4. CASE v # w
    <3>1. Identity(t, v) = Identity(s, v)
      BY <2>4
    <3> QED
      BY <2>1, <2>2, <3>1 DEF NotAfter
  <2> QED
    BY <2>3, <2>4
<1> QED
  BY <1>1, RecordedIs DEF Behind

\* The new record and what it leaves alone.
LEMMA UpdatedIs ==
  ASSUME NEW s, Recorded(s), NEW w, NEW st
  PROVE  /\ DOMAIN Updated(s, w, st) = DOMAIN s
         /\ Updated(s, w, st).status = [s.status EXCEPT ![w] = st]
         /\ Updated(s, w, st).attempt = s.attempt
         /\ Updated(s, w, st).commit = s.commit
BY DEF Updated, Recorded

\* Nothing moves on from a project that stays in its records.
LEMMA SameRecords ==
  ASSUME NEW s, Recorded(s), NEW t, DOMAIN t = DOMAIN s,
         t.status = s.status, t.attempt = s.attempt, t.commit = s.commit
  PROVE  Recorded(t) /\ Behind(s, t)
<1>1. Recorded(t)
  BY DEF Recorded
<1>2. ASSUME NEW v \in Workers PROVE Identity(s, v) \in Idents /\ NotAfter(Identity(s, v), Identity(t, v))
  <2>1. Identity(s, v) = Identity(t, v) /\ Identity(s, v) \in Idents
    BY <1>2, RecordedIs DEF Identity
  <2>2. s.attempt[v] \in Nat /\ s.commit[v] \in Nat /\ Rank(s.status[v]) \in Nat
    BY DEF Recorded, Rank
  <2> QED
    BY <2>1, <2>2, IdentityIs DEF NotAfter
<1> QED
  BY <1>1, <1>2 DEF Behind

\* A Worker that is updated moves on, and no other does.
LEMMA UpdatedMovesOn ==
  ASSUME NEW s, Recorded(s), NEW w, NEW st \in Statuses,
         w \in Workers => Rank(s.status[w]) <= Rank(st)
  PROVE  Recorded(Updated(s, w, st)) /\ Behind(s, Updated(s, w, st))
<1> DEFINE t == Updated(s, w, st)
<1>1. /\ DOMAIN t = DOMAIN s /\ t.status = [s.status EXCEPT ![w] = st]
      /\ t.attempt = s.attempt /\ t.commit = s.commit
  BY UpdatedIs
<1> HIDE DEF t
<1>2. CASE w \in Workers
  <2>1. Recorded(t)
    BY <1>1, <1>2 DEF Recorded
  <2>2. \A v \in Workers \ {w} : Identity(t, v) = Identity(s, v)
    BY <1>1, <1>2 DEF Recorded, Identity
  <2>3. s.commit[w] <= t.commit[w] /\ s.attempt[w] = t.attempt[w] /\ t.status[w] = st
    BY <1>1, <1>2 DEF Recorded
  <2>4. Behind(s, t)
    BY <1>2, <2>1, <2>2, <2>3, Advances
  <2> QED
    BY <2>1, <2>4 DEF t
<1>3. CASE w \notin Workers
  <2>1. t.status = s.status
    BY <1>1, <1>3 DEF Recorded
  <2>2. Recorded(t) /\ Behind(s, t)
    BY <1>1, <2>1, SameRecords
  <2> QED
    BY <2>2 DEF t
<1> QED
  BY <1>2, <1>3

\* A Worker that is resumed begins a new attempt.
LEMMA ResumedMovesOn ==
  ASSUME NEW s, Recorded(s), NEW w, NEW st \in Statuses,
         NEW t, t = [Updated(s, w, st) EXCEPT !.attempt[w] = @ + 1]
  PROVE  Recorded(t) /\ Behind(s, t)
<1> DEFINE u == Updated(s, w, st)
<1>0. t = [u EXCEPT !.attempt[w] = @ + 1]
  OBVIOUS
<1>1. /\ DOMAIN u = DOMAIN s /\ u.status = [s.status EXCEPT ![w] = st]
      /\ u.attempt = s.attempt /\ u.commit = s.commit
  BY DEF Updated, Recorded
<1>2. Recorded(t) /\ Behind(s, t)
  <2> HIDE DEF u
  <2>1. /\ DOMAIN t = DOMAIN s /\ t.status = [s.status EXCEPT ![w] = st]
        /\ t.attempt = [s.attempt EXCEPT ![w] = s.attempt[w] + 1]
        /\ t.commit = s.commit
    BY <1>0, <1>1 DEF Recorded
  <2>2. CASE w \in Workers
    <3>1. Recorded(t)
      <4>1. s.attempt[w] + 1 \in Nat
        BY <2>2 DEF Recorded
      <4>2. t.attempt \in [Workers -> Nat]
        BY <2>1, <4>1 DEF Recorded
      <4>3. t.status \in [Workers -> Statuses]
        BY <2>1 DEF Recorded
      <4> QED
        BY <2>1, <4>2, <4>3 DEF Recorded
    <3>2. \A v \in Workers \ {w} : Identity(t, v) = Identity(s, v)
      BY <2>1, <2>2 DEF Recorded, Identity
    <3>3. s.commit[w] <= t.commit[w] /\ s.attempt[w] < t.attempt[w]
      BY <2>1, <2>2 DEF Recorded
    <3> QED
      BY <2>2, <3>1, <3>2, <3>3, Advances
  <2>3. CASE w \notin Workers
    <3>1. t.status = s.status /\ t.attempt = s.attempt
      BY <2>1, <2>3 DEF Recorded
    <3> QED
      BY <2>1, <3>1, SameRecords
  <2> QED
    BY <2>2, <2>3
<1> QED
  BY <1>2

\* What a call does to the project moves its Worker on.
LEMMA EffectMovesOn ==
  ASSUME NEW s, Recorded(s), NEW c, NEW a, NEW w, Accepts(s, c, a, w)
  PROVE  Recorded(Effect(s, a, w)) /\ Behind(s, Effect(s, a, w))
<1>0. w \in Workers => s.status[w] \in Statuses /\ Rank(s.status[w]) \in Nat
  BY DEF Recorded, Rank
<1>1. CASE a = "pause-project" \/ a = "resume-project"
  <2>1. \E b \in BOOLEAN : Effect(s, a, w) = [s EXCEPT !.paused = b]
    BY <1>1 DEF Effect
  <2>2. PICK b \in BOOLEAN : Effect(s, a, w) = [s EXCEPT !.paused = b]
    BY <2>1
  <2> QED
    BY <2>2, SameRecords DEF Recorded
<1>2. CASE a = "steer"
  <2>1. Effect(s, a, w) = Updated(s, w, s.status[w])
    BY <1>2 DEF Effect
  <2>2. s.status[w] \in Statuses
    BY <1>2 DEF Accepts, Statuses, Unfinished, Active, Resumable
  <2> QED
    BY <1>0, <2>1, <2>2, UpdatedMovesOn
<1>3. CASE a = "pause-worker"
  <2>1. CASE s.status[w] \in {"queued", "starting", "working"}
    <3>1. Effect(s, a, w) = Updated(s, w, "pause_requested")
      BY <1>3, <2>1 DEF Effect
    <3>2. Rank(s.status[w]) <= Rank("pause_requested")
      BY <2>1 DEF Rank
    <3> QED
      BY <3>1, <3>2, UpdatedMovesOn DEF Statuses, Unfinished, Active
  <2>2. CASE s.status[w] \notin {"queued", "starting", "working"}
    BY <1>3, <2>2, SameRecords DEF Effect
  <2> QED
    BY <2>1, <2>2
<1>4. CASE a = "resume-worker"
  <2>1. Effect(s, a, w) = [Updated(s, w, "working") EXCEPT !.attempt[w] = @ + 1]
    BY <1>4 DEF Effect
  <2> QED
    BY <2>1, ResumedMovesOn DEF Statuses, Unfinished, Active
<1>5. CASE a = "integrate"
  <2>1. Effect(s, a, w) = Updated(s, w, "integrated")
    BY <1>5 DEF Effect
  <2>2. Rank(s.status[w]) <= Rank("integrated")
    BY <1>5 DEF Accepts, Rank
  <2> QED
    BY <2>1, <2>2, UpdatedMovesOn DEF Statuses
<1>6. CASE a = "abort"
  <2>1. Effect(s, a, w) = Updated(s, w, "interrupted")
    BY <1>6 DEF Effect
  <2>2. Rank(s.status[w]) <= Rank("interrupted")
    BY <1>6 DEF Accepts, Unfinished, Active, Rank
  <2> QED
    BY <2>1, <2>2, UpdatedMovesOn DEF Statuses, Unfinished
<1>7. CASE a \notin {"pause-project", "resume-project", "steer", "pause-worker",
                     "resume-worker", "integrate", "abort"}
  BY <1>7, SameRecords DEF Effect
<1> QED
  BY <1>1, <1>2, <1>3, <1>4, <1>5, <1>6, <1>7

\* No step of the world or of the panel takes a record back.
LEMMA ProjectMovesOn ==
  ASSUME Recorded(db), [Next]_vars
  PROVE  Recorded(db') /\ Behind(db, db')
<1>1. CASE db' = db
  BY <1>1, SameRecords
<1>2. ASSUME NEW w \in Workers, NEW st, WorkerMoves(w, st) PROVE Recorded(db') /\ Behind(db, db')
  <2>1. /\ <<db.status[w], st>> \in Steps
        /\ db' = [Updated(db, w, st) EXCEPT !.attempt[w] =
                     IF db.status[w] \in Resumable /\ st = "working" THEN @ + 1 ELSE @]
    BY <1>2 DEF WorkerMoves
  <2>2. st \in Statuses
    BY <2>1 DEF Steps, Statuses, Unfinished, Active
  <2>3. CASE db.status[w] \in Resumable /\ st = "working"
    <3>1. db' = [Updated(db, w, st) EXCEPT !.attempt[w] = @ + 1]
      BY <2>1, <2>3
    <3> QED
      BY <2>2, <3>1, ResumedMovesOn
  <2>4. CASE ~(db.status[w] \in Resumable /\ st = "working")
    <3>1. Rank(db.status[w]) <= Rank(st)
      BY <2>1, <2>4 DEF Steps, Rank, Resumable
    <3> DEFINE u == Updated(db, w, st)
    <3>2. Recorded(u) /\ Behind(db, u)
      BY <2>2, <3>1, UpdatedMovesOn
    <3>3. db' = [u EXCEPT !.attempt[w] = @]
      BY <2>1, <2>4
    <3> HIDE DEF u
    <3>4. DOMAIN db' = DOMAIN u /\ db'.status = u.status /\ db'.attempt = u.attempt /\ db'.commit = u.commit
      BY <3>2, <3>3 DEF Recorded
    <3>5. \A v \in Workers : Identity(db', v) = Identity(u, v)
      BY <3>4 DEF Identity
    <3>6. Recorded(db')
      BY <3>2, <3>4 DEF Recorded
    <3> QED
      BY <3>2, <3>5, <3>6 DEF Behind
  <2> QED
    BY <2>3, <2>4
<1>3. ASSUME NEW w \in Workers, WorkerCommits(w) PROVE Recorded(db') /\ Behind(db, db')
  <2> DEFINE u == Updated(db, w, "working")
  <2>1. db' = [u EXCEPT !.commit[w] = @ + 1] /\ db.status[w] = "working"
    BY <1>3 DEF WorkerCommits
  <2>2. /\ DOMAIN u = DOMAIN db /\ u.status = [db.status EXCEPT ![w] = "working"]
        /\ u.attempt = db.attempt /\ u.commit = db.commit
    BY UpdatedIs
  <2> HIDE DEF u
  <2>3. /\ DOMAIN db' = DOMAIN db /\ db'.status = [db.status EXCEPT ![w] = "working"]
        /\ db'.attempt = db.attempt
        /\ db'.commit = [db.commit EXCEPT ![w] = db.commit[w] + 1]
    BY <2>1, <2>2 DEF Recorded
  <2>4. Recorded(db')
    BY <2>3 DEF Recorded, Statuses, Unfinished, Active
  <2>5. \A v \in Workers \ {w} : Identity(db', v) = Identity(db, v)
    BY <2>3 DEF Recorded, Identity
  <2>6. /\ db.commit[w] <= db'.commit[w] /\ db.attempt[w] = db'.attempt[w]
        /\ db'.status[w] = db.status[w] /\ Rank(db.status[w]) \in Nat
    BY <2>1, <2>3 DEF Recorded, Rank
  <2> QED
    BY <2>4, <2>5, <2>6, Advances
<1>4. CASE ProjectMoves
  <2>1. db' = [db EXCEPT !.paused = ~@]
    BY <1>4 DEF ProjectMoves
  <2> QED
    BY <2>1, SameRecords DEF Recorded
<1>5. CASE CallTakesEffect
  BY <1>5, EffectMovesOn DEF CallTakesEffect
<1>7. CASE ResumeMarksFailed
  <2>1. /\ db' = Updated(db, op.worker, "failed")
        /\ \E c \in Circumstances : Accepts(db, c, "resume-worker", op.worker)
    BY <1>7 DEF ResumeMarksFailed
  <2>2. Rank(db.status[op.worker]) <= Rank("failed")
    BY <2>1 DEF Accepts, Resumable, Rank
  <2> QED
    BY <2>1, <2>2, UpdatedMovesOn DEF Statuses
<1>6. ASSUME NEW w \in Workers, AskToPause(w), db' # db PROVE Recorded(db') /\ Behind(db, db')
  <2>1. db.status[w] \in {"queued", "starting", "working"} /\ db' = Updated(db, w, "pause_requested")
    BY <1>6 DEF AskToPause
  <2>2. Rank(db.status[w]) <= Rank("pause_requested")
    BY <2>1 DEF Rank
  <2> QED
    BY <2>1, <2>2, UpdatedMovesOn DEF Statuses, Unfinished, Active
<1> QED
  BY <1>1, <1>2, <1>3, <1>4, <1>5, <1>6, <1>7
     DEF Next, vars, host, panel, TellLate, ToggleDetails, SelectWorker, OpenWorker, SwitchTab, RunAction, Answer,
         FindActive, Succeed, Fails, Leaves, InspectReads, InspectEnds, HoldEnds, Render,
         CloseByAction, Close, Dispose

-----------------------------------------------------------------------------
\* What was behind stays behind when the project moves on.
LEMMA StaysBehind ==
  ASSUME NEW s, NEW t, NEW u, Behind(s, t), Behind(t, u), Recorded(u)
  PROVE  Behind(s, u)
<1>1. ASSUME NEW w \in Workers PROVE Identity(s, w) \in Idents /\ NotAfter(Identity(s, w), Identity(u, w))
  <2>1. Identity(s, w) \in Idents /\ Identity(t, w) \in Idents /\ Identity(u, w) \in Idents
    BY RecordedIs DEF Behind
  <2>2. NotAfter(Identity(s, w), Identity(t, w)) /\ NotAfter(Identity(t, w), Identity(u, w))
    BY DEF Behind
  <2> QED
    BY <2>1, <2>2, NotAfterIsOrder
<1> QED
  BY <1>1 DEF Behind

\* What the panel is told is the project of this step or one that waited to be told, and
\* only changes of the project are told later.
LEMMA WhatIsTold ==
  ASSUME [Next]_vars
  PROVE  /\ \/ cur' = cur
            \/ cur' = db'
            \/ late # <<>> /\ cur' = Head(late).state
         /\ \/ late' = late
            \/ \E b \in BOOLEAN : late' = Append(late, [state |-> db', mine |-> b])
            \/ late # <<>> /\ late' = Tail(late)
<1> USE DEF Told
<1>1. ASSUME NEW w \in Workers, NEW st, WorkerMoves(w, st) \/ WorkerCommits(w) \/ AskToPause(w)
      PROVE  late' = late /\ (cur' = cur \/ cur' = db')
  BY <1>1 DEF WorkerMoves, WorkerCommits, AskToPause
<1>2. CASE ProjectMoves
  <2>1. late' = Append(late, [state |-> db', mine |-> FALSE]) /\ cur' = cur
    BY <1>2 DEF ProjectMoves
  <2> QED
    BY <2>1
<1>3. CASE TellLate
  BY <1>3 DEF TellLate
<1>4. CASE CallTakesEffect
  <2>1. CASE ProjectOp(op.type)
    <3>1. late' = Append(late, [state |-> db', mine |-> TRUE]) /\ cur' = cur
      BY <1>4, <2>1 DEF CallTakesEffect
    <3> QED
      BY <3>1
  <2>2. CASE ~ProjectOp(op.type)
    BY <1>4, <2>2 DEF CallTakesEffect
  <2> QED
    BY <2>1, <2>2
<1>5. CASE ResumeMarksFailed
  BY <1>5 DEF ResumeMarksFailed
<1> QED
  BY <1>1, <1>2, <1>3, <1>4, <1>5
     DEF Next, vars, host, panel, ToggleDetails, SelectWorker, OpenWorker, SwitchTab, RunAction, Answer,
         FindActive, Succeed, Fails, Leaves, InspectReads, InspectEnds, HoldEnds, Render,
         CloseByAction, Close, Dispose

\* The panel and what waits to be told stay behind the project.
LEMMA ToldAreOldStep ==
  ASSUME ToldAreOld, [Next]_vars
  PROVE  ToldAreOld'
<1>1. Recorded(db') /\ Behind(db, db')
  BY ProjectMovesOn DEF ToldAreOld
<1>2. Behind(cur, db') /\ \A k \in DOMAIN late : Behind(late[k].state, db')
  BY <1>1, StaysBehind DEF ToldAreOld
<1>3. Behind(db', db')
  BY <1>1, SameRecords
<1>4. PICK S : late \in Seq(S)
  BY DEF ToldAreOld
<1>5. Behind(cur', db')
  <2>1. CASE late # <<>> /\ cur' = Head(late).state
    <3>1. 1 \in DOMAIN late /\ Head(late) = late[1]
      BY <1>4, <2>1
    <3> QED
      BY <1>2, <2>1, <3>1
  <2>2. CASE cur' = cur
    BY <1>2, <2>2
  <2>3. CASE cur' = db'
    BY <1>3, <2>3
  <2> QED
    BY <2>1, <2>2, <2>3, WhatIsTold
<1>6. (\E T : late' \in Seq(T)) /\ \A k \in DOMAIN late' : Behind(late'[k].state, db')
  <2>1. CASE late' = late
    BY <1>2, <1>4, <2>1
  <2>2. CASE \E b \in BOOLEAN : late' = Append(late, [state |-> db', mine |-> b])
    <3>1. PICK b \in BOOLEAN : late' = Append(late, [state |-> db', mine |-> b])
      BY <2>2
    <3> DEFINE x == [state |-> db', mine |-> b]
               T == S \cup {x}
    <3>2. late \in Seq(T) /\ x \in T /\ x.state = db'
      BY <1>4
    <3>3. late' = Append(late, x)
      BY <3>1
    <3> HIDE DEF x, T
    <3>4. late' \in Seq(T)
      BY <3>2, <3>3
    <3>5. ASSUME NEW k \in DOMAIN late' PROVE Behind(late'[k].state, db')
      <4>1. CASE k \in DOMAIN late
        <5>1. late'[k] = late[k]
          BY <3>2, <3>3, <4>1
        <5> QED
          BY <1>2, <4>1, <5>1
      <4>2. CASE k \notin DOMAIN late
        <5>1. late'[k] = x
          BY <3>2, <3>3, <4>2
        <5> QED
          BY <1>3, <3>2, <5>1
      <4> QED
        BY <4>1, <4>2
    <3> QED
      BY <3>4, <3>5
  <2>3. CASE late # <<>> /\ late' = Tail(late)
    <3>1. late' \in Seq(S)
      BY <1>4, <2>3
    <3>2. ASSUME NEW k \in DOMAIN late' PROVE Behind(late'[k].state, db')
      <4>1. k + 1 \in DOMAIN late /\ late'[k] = late[k + 1]
        BY <1>4, <2>3
      <4> QED
        BY <1>2, <4>1
    <3> QED
      BY <3>1, <3>2
  <2> QED
    BY <2>1, <2>2, <2>3, WhatIsTold
<1> QED
  BY <1>1, <1>5, <1>6 DEF ToldAreOld

-----------------------------------------------------------------------------
\* What was not after a Worker's identity is not after a later one.
LEMMA StaysNotAfter ==
  ASSUME NEW s, NEW t, Behind(s, t), Recorded(s), Recorded(t), NEW w \in Workers, NEW i \in Idents,
         NotAfter(i, Identity(s, w))
  PROVE  NotAfter(i, Identity(t, w))
<1>1. Identity(s, w) \in Idents /\ Identity(t, w) \in Idents
  BY RecordedIs
<1>2. NotAfter(Identity(s, w), Identity(t, w))
  BY DEF Behind
<1> QED
  BY <1>1, <1>2, NotAfterIsOrder

\* No control of the panel is called an inspection.
LEMMA ReachableIs ==
  ASSUME NEW r \in Reachable
  PROVE  r.type # "inspect"
<1>1. \A a \in OfferedOn(cur, Selected) : a # "inspect"
  BY DEF OfferedOn
<1> QED
  BY <1>1 DEF Reachable

\* What an inspection leaves behind, if it begins.
LEMMA InspectionBegins ==
  ASSUME ToldAreOld, OpIsKnown, NEW w \in Workers, Inspect(w), db' = db
  PROVE  OpIsKnown'
<1>1. CASE op = NoOp
  <2>1. op' = [type |-> "inspect", worker |-> w, at |-> "read", ident |-> Identity(cur, w)]
    BY <1>1 DEF Inspect
  <2>2. Identity(cur, w) \in Idents /\ NotAfter(Identity(cur, w), Identity(db, w))
    BY DEF ToldAreOld, Behind
  <2> QED
    BY <2>1, <2>2 DEF OpIsKnown
<1>2. CASE op # NoOp
  BY <1>2 DEF Inspect, OpIsKnown
<1> QED
  BY <1>1, <1>2

\* The operation in flight is one of those the host knows.
LEMMA OpIsKnownStep ==
  ASSUME ToldAreOld, OpIsKnown, [Next]_vars
  PROVE  OpIsKnown'
<1>1. Recorded(db) /\ Recorded(db') /\ Behind(db, db')
  BY ProjectMovesOn DEF ToldAreOld
<1>2. CASE op' = op
  <2>1. ASSUME op.at \in {"read", "compare"} PROVE NotAfter(op.ident, Identity(db', op.worker))
    BY <1>1, <2>1, StaysNotAfter DEF OpIsKnown
  <2>2. ASSUME op.at = "compare" PROVE NotAfter(op.evidence, Identity(db', op.worker))
    BY <1>1, <2>2, StaysNotAfter DEF OpIsKnown
  <2> QED
    BY <1>2, <2>1, <2>2 DEF OpIsKnown
<1>3. ASSUME NEW w \in Workers, ToggleDetails(w) \/ OpenWorker(w), op' # op PROVE OpIsKnown'
  <2>1. Inspect(w) /\ db' = db
    BY <1>3 DEF ToggleDetails, OpenWorker, Expand
  <2> QED
    BY <2>1, InspectionBegins
<1>4. ASSUME NEW r \in Reachable, RunAction(r) PROVE OpIsKnown'
  <2>1. op' = [type |-> r.type, worker |-> r.worker, at |-> IF Asks(r.type) THEN "dialog" ELSE "call"]
    BY <1>4 DEF RunAction
  <2> QED
    BY <2>1, ReachableIs DEF OpIsKnown
<1>5. ASSUME op.at = "dialog", op' = [op EXCEPT !.at = "call"] PROVE OpIsKnown'
  BY <1>5 DEF OpIsKnown
<1>6. ASSUME op.at = "call", op' = [op EXCEPT !.at = "ending"] PROVE OpIsKnown'
  BY <1>6 DEF OpIsKnown
<1>7. CASE op' = NoOp
  BY <1>7 DEF OpIsKnown, NoOp
<1>8. CASE FindActive
  BY <1>8 DEF FindActive, OpIsKnown
<1>9. ASSUME NEW w \in Workers, AskToPause(w) PROVE OpIsKnown'
  <2>1. op.at = "stopping" /\ op' = [op EXCEPT !.todo = @ \ {w}]
    BY <1>9 DEF AskToPause
  <2> QED
    BY <2>1 DEF OpIsKnown
<1>10. CASE InspectReads
  <2>1. /\ op.at = "read" /\ db' = db
        /\ op' = [type |-> "inspect", worker |-> op.worker, at |-> "compare", ident |-> op.ident,
                  evidence |-> Identity(db, op.worker)]
    BY <1>10 DEF InspectReads
  <2>2. /\ op.worker \in Workers /\ op.ident \in Idents
        /\ NotAfter(op.ident, Identity(db, op.worker))
    BY <2>1 DEF OpIsKnown
  <2>3. /\ Identity(db, op.worker) \in Idents
        /\ NotAfter(Identity(db, op.worker), Identity(db, op.worker))
    <3>1. Behind(db, db)
      BY <1>1, SameRecords
    <3> QED
      BY <2>2, <3>1 DEF Behind
  <2> QED
    BY <2>1, <2>2, <2>3 DEF OpIsKnown
<1>11. ASSUME NEW ok \in BOOLEAN, Answer(ok)
       PROVE  op' = NoOp \/ (op.at = "dialog" /\ op' = [op EXCEPT !.at = "call"])
  BY <1>11 DEF Answer, Finish
<1>12. Succeed \/ Fails \/ Leaves \/ (\E ok \in BOOLEAN : InspectEnds(ok)) => op' = NoOp
  BY DEF Succeed, Fails, Leaves, InspectEnds, Finish
<1>13. CallTakesEffect => op.at = "call" /\ op' = [op EXCEPT !.at = "ending"]
  BY DEF CallTakesEffect
<1>14. CASE ResumeMarksFailed
  <2>1. op.at = "call" /\ op' = [op EXCEPT !.at = "failing"]
    BY <1>14 DEF ResumeMarksFailed
  <2> QED
    BY <2>1 DEF OpIsKnown
<1> QED
  BY <1>2, <1>3, <1>4, <1>5, <1>6, <1>7, <1>8, <1>9, <1>10, <1>11, <1>12, <1>13, <1>14
     DEF Next, vars, host, panel, WorkerMoves, WorkerCommits, ProjectMoves, TellLate, SelectWorker,
         SwitchTab, HoldEnds, Render, CloseByAction, Close, Dispose

-----------------------------------------------------------------------------
\* What the panel is told takes away the evidence that it makes obsolete.
LEMMA EvidenceWhenTold ==
  ASSUME ToldAreOld, EvidenceIsNew, Recorded(db'), Behind(db, db'),
         NEW t, Told(t), Behind(t, db')
  PROVE  EvidenceIsNew'
<1>1. CASE life = "disposed"
  <2>1. cur' = cur /\ detail' = detail
    BY <1>1 DEF Told
  <2>2. ASSUME NEW w \in Workers, detail[w].kind = "loaded" PROVE NotAfter(detail[w].evidence, Identity(db', w))
    BY <2>2, StaysNotAfter DEF EvidenceIsNew, ToldAreOld
  <2> QED
    BY <2>1, <2>2 DEF EvidenceIsNew
<1>2. CASE life # "disposed"
  <2> DEFINE gone == {w \in Workers : detail[w] # None /\ Outdated(cur, t, w)}
  <2>1. cur' = t /\ detail' = [w \in Workers |-> IF w \in gone THEN None ELSE detail[w]]
    BY <1>2 DEF Told
  <2>2. ASSUME NEW w \in Workers, detail'[w].kind = "loaded"
        PROVE  LET e == detail'[w].evidence IN
               /\ e \in Idents /\ NotAfter(e, Identity(db', w))
               /\ cur'.attempt[w] <= e[1] /\ cur'.commit[w] <= e[3]
               /\ cur'.status[w] \in Terminal /\ cur'.attempt[w] = e[1] => Rank(cur'.status[w]) <= Rank(e[2])
    <3>1. w \notin gone
      BY <2>1, <2>2 DEF None
    <3>2. detail'[w] = detail[w]
      BY <2>1, <3>1
    <3>3. detail[w].kind = "loaded" /\ detail[w] # None
      BY <2>2, <3>2 DEF None
    <3>4. /\ cur.attempt[w] = t.attempt[w] /\ cur.commit[w] = t.commit[w]
          /\ t.status[w] \in Terminal => cur.status[w] = t.status[w]
      BY <3>1, <3>3 DEF Outdated
    <3> DEFINE e == detail[w].evidence
    <3>5. /\ e \in Idents /\ NotAfter(e, Identity(db, w))
          /\ cur.attempt[w] <= e[1] /\ cur.commit[w] <= e[3]
          /\ cur.status[w] \in Terminal /\ cur.attempt[w] = e[1] => Rank(cur.status[w]) <= Rank(e[2])
      BY <3>3 DEF EvidenceIsNew
    <3>6. NotAfter(e, Identity(db', w))
      BY <3>5, StaysNotAfter DEF ToldAreOld
    <3> HIDE DEF e
    <3>7. cur'.attempt[w] = t.attempt[w] /\ cur'.commit[w] = t.commit[w] /\ cur'.status[w] = t.status[w]
      BY <2>1
    <3>8. detail'[w].evidence = e
      BY <3>2 DEF e
    <3> QED
      BY <3>4, <3>5, <3>6, <3>7, <3>8
  <2> QED
    BY <2>1, <2>2 DEF EvidenceIsNew
<1> QED
  BY <1>1, <1>2

\* Evidence that is shown is not older than what the panel shows beside it.
LEMMA EvidenceIsNewStep ==
  ASSUME ToldAreOld, OpIsKnown, EvidenceIsNew, [Next]_vars
  PROVE  EvidenceIsNew'
<1>1. Recorded(db) /\ Recorded(db') /\ Behind(db, db') /\ Behind(db', db')
  BY ProjectMovesOn, SameRecords DEF ToldAreOld
<1>2. ASSUME NEW w \in Workers, detail[w].kind = "loaded" PROVE NotAfter(detail[w].evidence, Identity(db', w))
  BY <1>1, <1>2, StaysNotAfter DEF EvidenceIsNew
<1>3. CASE cur' = cur /\ detail' = detail
  BY <1>2, <1>3 DEF EvidenceIsNew
<1>4. CASE Told(db')
  BY <1>1, <1>4, EvidenceWhenTold
<1>5. CASE TellLate
  <2>1. late # <<>> /\ Told(Head(late).state) /\ db' = db
    BY <1>5 DEF TellLate
  <2>2. PICK S : late \in Seq(S)
    BY DEF ToldAreOld
  <2>3. 1 \in DOMAIN late /\ Head(late) = late[1]
    BY <2>1, <2>2
  <2>4. Behind(Head(late).state, db')
    BY <2>1, <2>3 DEF ToldAreOld
  <2> QED
    BY <1>1, <2>1, <2>4, EvidenceWhenTold
<1>6. ASSUME NEW v \in Workers, cur' = cur, detail' = [detail EXCEPT ![v] = Loading] PROVE EvidenceIsNew'
  <2>1. DOMAIN detail' = Workers /\ \A w \in Workers : detail'[w] = IF w = v THEN Loading ELSE detail[w]
    BY <1>6 DEF EvidenceIsNew
  <2>2. ASSUME NEW w \in Workers, detail'[w].kind = "loaded" PROVE detail'[w] = detail[w]
    BY <2>1, <2>2 DEF Loading
  <2> QED
    BY <1>2, <1>6, <2>1, <2>2 DEF EvidenceIsNew
<1>7. ASSUME NEW ok \in BOOLEAN, InspectEnds(ok) PROVE EvidenceIsNew'
  <2> DEFINE v == op.worker
             new == IF op.ident # Identity(cur, v) THEN None
                    ELSE IF ok THEN [kind |-> "loaded", evidence |-> op.evidence] ELSE Failure
  <2>1. /\ op.at = "compare" /\ cur' = cur /\ db' = db
        /\ detail' = [detail EXCEPT ![v] = IF life # "open" THEN @ ELSE new]
    BY <1>7 DEF InspectEnds
  <2>2. CASE life # "open"
    <3>1. DOMAIN detail' = Workers /\ \A w \in Workers : detail'[w] = detail[w]
      BY <2>1, <2>2 DEF EvidenceIsNew
    <3> QED
      BY <1>2, <2>1, <3>1 DEF EvidenceIsNew
  <2>3. CASE life = "open"
    <3>1. /\ v \in Workers /\ op.ident \in Idents /\ op.evidence \in Idents
          /\ NotAfter(op.ident, op.evidence) /\ NotAfter(op.evidence, Identity(db, v))
      BY <2>1 DEF OpIsKnown
    <3>2. /\ DOMAIN detail' = Workers
          /\ \A w \in Workers : detail'[w] = IF w = v THEN new ELSE detail[w]
      BY <2>1, <2>3, <3>1 DEF EvidenceIsNew
    <3>3. ASSUME new.kind = "loaded"
          PROVE  new.evidence = op.evidence /\ op.ident = Identity(cur, v)
      BY <3>3 DEF None, Failure
    <3>4. ASSUME new.kind = "loaded"
          PROVE  /\ cur.attempt[v] <= op.evidence[1] /\ cur.commit[v] <= op.evidence[3]
                 /\ cur.attempt[v] = op.evidence[1] => Rank(cur.status[v]) <= Rank(op.evidence[2])
      <4>1. /\ op.ident[1] = cur.attempt[v] /\ op.ident[2] = cur.status[v]
            /\ op.ident[3] = cur.commit[v]
        BY <3>3, <3>4 DEF Identity
      <4>2. op.ident[1] \in Nat /\ op.evidence[1] \in Nat
        BY <3>1 DEF Idents
      <4> QED
        BY <3>1, <4>1, <4>2 DEF NotAfter
    <3> HIDE DEF new
    <3>5. ASSUME NEW w \in Workers, detail'[w].kind = "loaded"
          PROVE  LET e == detail'[w].evidence IN
                 /\ e \in Idents /\ NotAfter(e, Identity(db', w))
                 /\ cur'.attempt[w] <= e[1] /\ cur'.commit[w] <= e[3]
                 /\ cur'.status[w] \in Terminal /\ cur'.attempt[w] = e[1] => Rank(cur'.status[w]) <= Rank(e[2])
      <4>1. CASE w = v
        <5>1. detail'[w] = new
          BY <3>2, <4>1
        <5> QED
          BY <2>1, <3>1, <3>3, <3>4, <3>5, <4>1, <5>1
      <4>2. CASE w # v
        <5>1. detail'[w] = detail[w]
          BY <3>2, <4>2
        <5> QED
          BY <1>2, <2>1, <3>5, <5>1 DEF EvidenceIsNew
      <4> QED
        BY <4>1, <4>2
    <3> QED
      BY <3>2, <3>5 DEF EvidenceIsNew
  <2> QED
    BY <2>2, <2>3
<1>8. ASSUME NEW w \in Workers, ToggleDetails(w) \/ OpenWorker(w)
      PROVE  cur' = cur /\ (detail' = detail \/ detail' = [detail EXCEPT ![w] = Loading])
  BY <1>8 DEF ToggleDetails, OpenWorker, Expand, Inspect
<1>9. ASSUME NEW w \in Workers, NEW st, WorkerMoves(w, st) \/ WorkerCommits(w) PROVE Told(db')
  BY <1>9 DEF WorkerMoves, WorkerCommits
<1>10. ASSUME NEW w \in Workers, AskToPause(w) PROVE Told(db') \/ (cur' = cur /\ detail' = detail)
  BY <1>10 DEF AskToPause
<1>11. CallTakesEffect \/ ResumeMarksFailed => Told(db') \/ (cur' = cur /\ detail' = detail)
  BY DEF CallTakesEffect, ResumeMarksFailed
<1> QED
  BY <1>3, <1>4, <1>5, <1>6, <1>7, <1>8, <1>9, <1>10, <1>11
     DEF Next, vars, host, panel, ProjectMoves, SelectWorker, SwitchTab, RunAction, Answer, FindActive,
         Succeed, Fails, Leaves, InspectReads, HoldEnds, Render, CloseByAction, Close, Dispose

-----------------------------------------------------------------------------
\* Whether the host works on an operation, in the words of PanelFollowsOperation.
Working == op # NoOp /\ op.type # "inspect"

\* The operation takes the keys, the feedback line and, for a question, the screen, and
\* gives them back when it ends.
LEMMA PanelFollowsStep ==
  ASSUME OpIsKnown, PanelFollowsOperation, [Next]_vars
  PROVE  PanelFollowsOperation'
<1> SUFFICES ASSUME life' = "open"
             PROVE  /\ suspended' <=> Working'
                    /\ (feedback' = "loading") <=> Working'
                    /\ hidden' <=> (op.at)' = "dialog"
                    /\ (feedback' = "success") <=> hold'
  BY DEF PanelFollowsOperation, Working
<1>1. life = "open"
  BY DEF Next, vars, host, panel, WorkerMoves, WorkerCommits, ProjectMoves, TellLate, ToggleDetails, SelectWorker,
         OpenWorker, SwitchTab, RunAction, Answer, CallTakesEffect, ResumeMarksFailed, FindActive, AskToPause, Succeed, Fails,
         Leaves, InspectReads, InspectEnds, HoldEnds, Render, CloseByAction, Close, Dispose
<1>2. /\ suspended <=> Working
      /\ (feedback = "loading") <=> Working
      /\ hidden <=> op.at = "dialog"
      /\ (feedback = "success") <=> hold
  BY <1>1 DEF PanelFollowsOperation, Working
<1>3. CASE UNCHANGED <<op, suspended, feedback, hold, hidden>>
  BY <1>2, <1>3 DEF Working
<1>4. NoOp.at = "none"
  BY DEF NoOp
<1>5. op.at \in {"dialog", "call", "ending", "stopping", "failing"} => Working
  BY <1>4 DEF Working, OpIsKnown
<1>6. op.at \in {"none", "read", "compare"} => ~Working
  BY DEF Working, OpIsKnown
<1>7. ASSUME NEW w \in Workers, ToggleDetails(w) \/ OpenWorker(w), op' # op
      PROVE  /\ suspended' = suspended /\ feedback' = feedback /\ hold' = hold /\ hidden' = hidden
             /\ ~Working /\ ~Working' /\ op.at # "dialog" /\ (op.at)' # "dialog"
  <2>1. /\ Inspect(w)
        /\ suspended' = suspended /\ feedback' = feedback /\ hold' = hold /\ hidden' = hidden
    BY <1>7 DEF ToggleDetails, OpenWorker, Expand
  <2>2. op = NoOp /\ op' = [type |-> "inspect", worker |-> w, at |-> "read", ident |-> Identity(cur, w)]
    BY <1>7, <2>1 DEF Inspect
  <2> QED
    BY <1>4, <2>1, <2>2 DEF Working
<1>8. ASSUME NEW r \in Reachable, RunAction(r)
      PROVE  /\ suspended' = TRUE /\ feedback' = "loading" /\ hold' = FALSE
             /\ Working' /\ (hidden' <=> (op.at)' = "dialog")
  <2>1. /\ op' = [type |-> r.type, worker |-> r.worker, at |-> IF Asks(r.type) THEN "dialog" ELSE "call"]
        /\ suspended' = TRUE /\ feedback' = "loading" /\ hold' = FALSE /\ hidden' = Asks(r.type)
    BY <1>8 DEF RunAction
  <2>2. op' # NoOp /\ (op.type)' # "inspect"
    BY <1>4, <2>1, ReachableIs
  <2>3. hidden' <=> (op.at)' = "dialog"
    BY <2>1
  <2> QED
    BY <2>1, <2>2, <2>3 DEF Working
<1>9. CASE Answer(TRUE)
  <2>1. /\ op.at = "dialog" /\ hidden' = FALSE /\ op' = [op EXCEPT !.at = "call"]
        /\ suspended' = suspended /\ feedback' = feedback /\ hold' = hold
    BY <1>1, <1>9 DEF Answer
  <2>2. (op.at)' = "call" /\ Working /\ Working'
    BY <1>4, <1>5, <2>1 DEF Working, OpIsKnown
  <2> QED
    BY <1>2, <2>1, <2>2
<1>10. CASE Answer(FALSE)
  <2>1. /\ hidden' = FALSE /\ op' = NoOp /\ suspended' = FALSE /\ feedback' = "idle" /\ hold' = FALSE
    BY <1>1, <1>10 DEF Answer, Finish
  <2> QED
    BY <1>4, <2>1 DEF Working
<1>11. CASE CallTakesEffect \/ ResumeMarksFailed \/ FindActive \/ \E w \in Workers : AskToPause(w)
  <2>1. /\ op.at \in {"call", "ending", "stopping"}
        /\ suspended' = suspended /\ feedback' = feedback /\ hold' = hold /\ hidden' = hidden
    BY <1>11 DEF CallTakesEffect, ResumeMarksFailed, FindActive, AskToPause
  <2>2. (op.at)' \in {"ending", "stopping", "failing"} /\ (op.type)' # "inspect"
    BY <1>11 DEF CallTakesEffect, ResumeMarksFailed, FindActive, AskToPause, OpIsKnown
  <2>3. Working /\ Working'
    BY <1>4, <1>5, <2>1, <2>2 DEF Working
  <2> QED
    BY <1>2, <2>1, <2>2, <2>3
<1>12. CASE Succeed \/ Fails
  <2>1. /\ op.at \in {"call", "ending", "stopping", "failing"} /\ op' = NoOp /\ suspended' = FALSE /\ hidden' = hidden
        /\ feedback' \in {"success", "error"} /\ (hold' <=> feedback' = "success")
    BY <1>1, <1>12 DEF Succeed, Fails, Finish
  <2> QED
    BY <1>2, <1>4, <2>1 DEF Working
<1>13. ~Leaves
  BY <1>1 DEF Leaves
<1>14. CASE InspectReads
  <2>1. /\ op.at = "read" /\ (op.at)' = "compare" /\ (op.type)' = "inspect"
        /\ suspended' = suspended /\ feedback' = feedback /\ hold' = hold /\ hidden' = hidden
    BY <1>14 DEF InspectReads
  <2> QED
    BY <1>2, <1>6, <2>1 DEF Working
<1>15. CASE \E ok \in BOOLEAN : InspectEnds(ok)
  <2>1. /\ op.at = "compare" /\ op' = NoOp /\ suspended' = FALSE
        /\ feedback' = feedback /\ hold' = hold /\ hidden' = hidden
    BY <1>15 DEF InspectEnds
  <2> QED
    BY <1>2, <1>4, <1>6, <2>1 DEF Working
<1>16. CASE HoldEnds
  <2>1. /\ hold /\ hold' = FALSE /\ feedback' = "idle" /\ op' = op /\ suspended' = suspended /\ hidden' = hidden
    BY <1>1, <1>16 DEF HoldEnds
  <2> QED
    BY <1>2, <2>1 DEF Working
<1>17. ~CloseByAction /\ ~Close /\ ~Dispose
  BY DEF CloseByAction, Close, Dispose
<1>18. CASE \E w \in Workers : ToggleDetails(w) \/ OpenWorker(w)
  <2>1. PICK w \in Workers : ToggleDetails(w) \/ OpenWorker(w)
    BY <1>18
  <2>2. CASE op' = op
    <3>1. UNCHANGED <<op, suspended, feedback, hold, hidden>>
      BY <2>1, <2>2 DEF ToggleDetails, OpenWorker
    <3> QED
      BY <1>3, <3>1
  <2>3. CASE op' # op
    BY <1>2, <1>7, <2>1, <2>3
  <2> QED
    BY <2>2, <2>3
<1>19. CASE \E r \in Reachable : RunAction(r)
  BY <1>8, <1>19
<1> QED
  BY <1>3, <1>9, <1>10, <1>11, <1>12, <1>13, <1>14, <1>15, <1>16, <1>17, <1>18, <1>19
     DEF Next, vars, host, panel, WorkerMoves, WorkerCommits, ProjectMoves, TellLate, SelectWorker, SwitchTab, Render

-----------------------------------------------------------------------------
\* What the panel is told starts and stops the pulse.
LEMMA PulseWhenTold ==
  ASSUME NEW t, Told(t), life = "open", life' = "open", size' = size,
         op' # NoOp <=> op # NoOp
  PROVE  pulse' = Animates(op, size, life)'
BY DEF Told, Animates

\* The pulse turns while there is something to animate, and a disposed panel has no timer.
LEMMA TimersFollowStep ==
  ASSUME OpIsKnown, OpIsKnown', TimersFollowTheSurface, [Next]_vars
  PROVE  TimersFollowTheSurface'
<1>1. NoOp.at = "none"
  BY DEF NoOp
<1>2. op.at # "none" => op # NoOp
  BY <1>1
<1>3. (op.at)' # "none" => op' # NoOp
  BY <1>1
<1>4. ASSUME life' = "open" PROVE pulse' = Animates(op, size, life)'
  <2>1. life = "open"
    BY <1>4 DEF Next, vars, host, panel, WorkerMoves, WorkerCommits, ProjectMoves, TellLate, ToggleDetails,
         SelectWorker, OpenWorker, SwitchTab, RunAction, Answer, CallTakesEffect, ResumeMarksFailed, FindActive, AskToPause, Succeed,
         Fails, Leaves, InspectReads, InspectEnds, HoldEnds, Render, CloseByAction, Close, Dispose
  <2>2. pulse = Animates(op, size, life)
    BY <2>1 DEF TimersFollowTheSurface
  <2>3. ASSUME UNCHANGED <<cur, size, pulse>>, op' # NoOp <=> op # NoOp
        PROVE  pulse' = Animates(op, size, life)'
    BY <1>4, <2>1, <2>2, <2>3 DEF Animates
  <2>4. ASSUME UNCHANGED cur, pulse' = Animates(op', size', life)
        PROVE  pulse' = Animates(op, size, life)'
    BY <1>4, <2>1, <2>4 DEF Animates
  <2>5. ASSUME NEW w \in Workers, NEW st, WorkerMoves(w, st) \/ WorkerCommits(w)
        PROVE  pulse' = Animates(op, size, life)'
    <3>1. Told(db') /\ op' = op /\ size' = size
      BY <2>5 DEF WorkerMoves, WorkerCommits
    <3> QED
      BY <1>4, <2>1, <3>1, PulseWhenTold
  <2>6. CASE TellLate
    <3>1. Told(Head(late).state) /\ op' = op /\ size' = size
      BY <2>6 DEF TellLate
    <3> QED
      BY <1>4, <2>1, <3>1, PulseWhenTold
  <2>7. ASSUME NEW w \in Workers, ToggleDetails(w) \/ OpenWorker(w)
        PROVE  pulse' = Animates(op, size, life)'
    <3>1. size' = size /\ cur' = cur
          /\ (pulse' = Animates(op', size, life) \/ (op' = op /\ pulse' = pulse))
      BY <2>7 DEF ToggleDetails, OpenWorker, Expand, Inspect
    <3> QED
      BY <2>3, <2>4, <3>1
  <2>8. CASE CallTakesEffect \/ ResumeMarksFailed \/ \E w \in Workers : AskToPause(w)
    <3>1. op # NoOp /\ op' # NoOp /\ size' = size
      BY <1>2, <1>3, <2>8 DEF CallTakesEffect, ResumeMarksFailed, AskToPause, OpIsKnown
    <3>2. Told(db') \/ UNCHANGED <<cur, pulse>>
      BY <2>8 DEF CallTakesEffect, ResumeMarksFailed, AskToPause
    <3> QED
      BY <1>4, <2>1, <2>3, <3>1, <3>2, PulseWhenTold
  <2>9. CASE FindActive \/ InspectReads
    <3>1. op # NoOp /\ op' # NoOp /\ UNCHANGED <<cur, size, pulse>>
      BY <1>2, <1>3, <2>9 DEF FindActive, InspectReads
    <3> QED
      BY <2>3, <3>1
  <2>10. CASE (\E r \in Reachable : RunAction(r)) \/ Succeed \/ Fails \/ (\E ok \in BOOLEAN : InspectEnds(ok)) \/ Answer(FALSE)
    <3>1. UNCHANGED <<cur, size>> /\ pulse' = Animates(op', size, life)
      BY <2>10 DEF RunAction, Succeed, Fails, InspectEnds, Answer, Finish
    <3> QED
      BY <2>4, <3>1
  <2>11. CASE Answer(TRUE)
    <3>1. op # NoOp /\ op' # NoOp /\ UNCHANGED <<cur, size, pulse>>
      BY <1>2, <1>3, <2>11 DEF Answer, OpIsKnown
    <3> QED
      BY <2>3, <3>1
  <2>12. CASE \E sz \in Sizes : Render(sz)
    <3>1. cur' = cur /\ op' = op /\ pulse' = Animates(op', size', life)
      BY <2>12 DEF Render
    <3> QED
      BY <2>4, <3>1
  <2>13. ~Leaves /\ ~CloseByAction /\ ~Close /\ ~Dispose
    BY <1>4, <2>1 DEF Leaves, CloseByAction, Close, Dispose
  <2>14. CASE UNCHANGED <<cur, size, pulse, op>>
    BY <2>3, <2>14
  <2> QED
    BY <2>5, <2>6, <2>7, <2>8, <2>9, <2>10, <2>11, <2>12, <2>13, <2>14
       DEF Next, vars, host, panel, ProjectMoves, SelectWorker, SwitchTab, HoldEnds
<1>5. ASSUME life' = "disposed" PROVE ~hold' /\ ~pulse' /\ ~mouse'
  <2>1. CASE Dispose
    BY <2>1 DEF Dispose
  <2>2. CASE ~Dispose
    <3>1. life = "disposed" /\ mouse' = mouse
      BY <1>5, <2>2 DEF Next, vars, host, panel, WorkerMoves, WorkerCommits, ProjectMoves, TellLate, ToggleDetails,
         SelectWorker, OpenWorker, SwitchTab, RunAction, Answer, CallTakesEffect, ResumeMarksFailed, FindActive, AskToPause, Succeed,
         Fails, Leaves, InspectReads, InspectEnds, HoldEnds, Render, CloseByAction, Close, Dispose
    <3>2. ~hold /\ ~pulse /\ ~mouse
      BY <3>1 DEF TimersFollowTheSurface
    <3>4. ~hold'
      BY <2>2, <3>1, <3>2 DEF Next, vars, host, panel, WorkerMoves, WorkerCommits, ProjectMoves, TellLate, ToggleDetails,
         SelectWorker, OpenWorker, SwitchTab, RunAction, Answer, CallTakesEffect, ResumeMarksFailed, FindActive, AskToPause, Succeed,
         Fails, Leaves, InspectReads, InspectEnds, HoldEnds, Render, CloseByAction, Close, Finish, Listening
    <3>3. \/ pulse' = pulse
          \/ \E r \in Reachable : RunAction(r)
          \/ Succeed \/ Fails \/ Leaves
          \/ Answer(TRUE) \/ Answer(FALSE) \/ InspectEnds(TRUE) \/ InspectEnds(FALSE)
      <4>1. ASSUME NEW t, Told(t) PROVE pulse' = pulse
        BY <3>1, <4>1 DEF Told
      <4>2. ASSUME NEW w \in Workers, NEW st, WorkerMoves(w, st) \/ WorkerCommits(w) \/ AskToPause(w)
            PROVE  pulse' = pulse
        BY <4>1, <4>2 DEF WorkerMoves, WorkerCommits, AskToPause
      <4>3. TellLate \/ CallTakesEffect \/ ResumeMarksFailed => pulse' = pulse
        BY <4>1 DEF TellLate, CallTakesEffect, ResumeMarksFailed
      <4>4. ~(\E sz \in Sizes : Render(sz)) /\ ~CloseByAction /\ ~Close
        BY <3>1 DEF Render, CloseByAction, Close, Listening
      <4>5. \A w \in Workers : ~ToggleDetails(w) /\ ~SelectWorker(w) /\ ~OpenWorker(w)
        BY <3>1 DEF ToggleDetails, SelectWorker, OpenWorker, Listening
      <4> QED
        BY <2>2, <4>2, <4>3, <4>4, <4>5
           DEF Next, vars, host, ProjectMoves, SwitchTab, FindActive, InspectReads, HoldEnds
    <3>5. ~pulse'
      BY <3>1, <3>2, <3>3 DEF RunAction, Listening, Answer, Succeed, Fails, Leaves, InspectEnds, Animates
    <3> QED
      BY <3>1, <3>2, <3>4, <3>5
  <2> QED
    BY <2>1, <2>2
<1> QED
  BY <1>4, <1>5 DEF TimersFollowTheSurface

-----------------------------------------------------------------------------
\* A panel is opened on a project it was just told of.
LEMMA CenterInit ==
  ASSUME StartStatuses \subseteq Statuses, Init
  PROVE  CenterInv
<1>1. /\ db.status \in [Workers -> StartStatuses]
      /\ db.attempt = [w \in Workers |-> 1] /\ db.commit = [w \in Workers |-> 0]
      /\ {"paused", "status", "attempt", "commit", "order"} \subseteq DOMAIN db
  BY DEF Init, StartProjects
<1>2. Recorded(db)
  BY <1>1 DEF Recorded
<1>3. ToldAreOld
  <2>1. cur = db /\ late = <<>>
    BY DEF Init
  <2>2. Behind(cur, db)
    BY <1>2, <2>1, SameRecords
  <2>3. late \in Seq({}) /\ DOMAIN late = {}
    BY <2>1
  <2> QED
    BY <1>2, <2>2, <2>3 DEF ToldAreOld
<1>4. OpIsKnown
  BY DEF Init, OpIsKnown, NoOp
<1>5. EvidenceIsNew
  BY DEF Init, EvidenceIsNew, None
<1>6. PanelFollowsOperation /\ TimersFollowTheSurface
  BY DEF Init, PanelFollowsOperation, TimersFollowTheSurface, NoOp
<1> QED
  BY <1>3, <1>4, <1>5, <1>6 DEF CenterInv

\* Evidence beside a current record is evidence of it.
LEMMA EvidenceIsOfShown == CenterInv => EvidenceOfShownAttempt
<1> SUFFICES ASSUME CenterInv, NEW w \in Workers, detail[w].kind = "loaded",
                    Identity(cur, w) = Identity(db, w)
             PROVE  LET e == detail[w].evidence IN
                    /\ e[1] = cur.attempt[w] /\ e[3] = cur.commit[w]
                    /\ cur.status[w] \in Terminal => e[2] = cur.status[w]
  BY DEF EvidenceOfShownAttempt
<1> DEFINE e == detail[w].evidence
<1>1. /\ e \in Idents /\ NotAfter(e, Identity(cur, w))
      /\ cur.attempt[w] <= e[1] /\ cur.commit[w] <= e[3]
      /\ cur.status[w] \in Terminal /\ cur.attempt[w] = e[1] => Rank(cur.status[w]) <= Rank(e[2])
  BY DEF CenterInv, EvidenceIsNew
<1>2. Identity(cur, w) \in Idents
  BY DEF CenterInv, ToldAreOld, Behind
<1>3. /\ Identity(cur, w)[1] = cur.attempt[w] /\ Identity(cur, w)[2] = cur.status[w]
      /\ Identity(cur, w)[3] = cur.commit[w]
  BY IdentityIs
<1> HIDE DEF e
<1>4. /\ e[1] \in Nat /\ e[2] \in Statuses /\ e[3] \in Nat
      /\ cur.attempt[w] \in Nat /\ cur.status[w] \in Statuses /\ cur.commit[w] \in Nat
  BY <1>1, <1>2, <1>3 DEF Idents
<1>5. /\ e[3] <= cur.commit[w]
      /\ e[1] < cur.attempt[w] \/ (e[1] = cur.attempt[w] /\ Rank(e[2]) <= Rank(cur.status[w]))
  BY <1>1, <1>3 DEF NotAfter
<1>6. e[1] = cur.attempt[w] /\ e[3] = cur.commit[w] /\ Rank(e[2]) <= Rank(cur.status[w])
  BY <1>1, <1>4, <1>5
<1>7. ASSUME cur.status[w] \in Terminal PROVE e[2] = cur.status[w]
  <2>1. Rank(cur.status[w]) = Rank(e[2])
    <3>1. Rank(cur.status[w]) \in Nat /\ Rank(e[2]) \in Nat
      BY DEF Rank
    <3> QED
      BY <1>1, <1>6, <1>7, <3>1
  <2> QED
    BY <1>4, <2>1 DEF Rank, Statuses, Unfinished, Active
<1> QED
  BY <1>6, <1>7 DEF e

-----------------------------------------------------------------------------
(* ControlCenter: types *)

\* The Workers of a project are listed, each place taken by one of them.
Listed(s) == s.order \in [1 .. Cardinality(Workers) -> Workers] /\ s.paused \in BOOLEAN

\* The projects the panel knows are listed, and an operation on a Worker is on one.
ProjectsAreListed ==
    /\ Listed(db) /\ Listed(cur)
    /\ \A k \in DOMAIN late : Listed(late[k].state)
    /\ op.at # "none" /\ ~ProjectOp(op.type) /\ op.type # "show-status" => op.worker \in Workers

\* What the panel keeps of its own.
PanelTypes ==
    /\ tab \in Tabs /\ selected \in Workers \cup {NoWorker} /\ expanded \subseteq Workers
    /\ \A w \in Workers : detail[w].kind \in {"none", "loading", "loaded", "error"}
    /\ feedback \in {"idle", "loading", "success", "error"}
    /\ suspended \in BOOLEAN /\ hold \in BOOLEAN /\ pulse \in BOOLEAN
    /\ hidden \in BOOLEAN /\ mouse \in BOOLEAN
    /\ life \in {"open", "closed", "disposed"}

\* There are Workers to list.
LEMMA SomeWorkers == Cardinality(Workers) \in Nat /\ Cardinality(Workers) >= 1
<1>1. IsFiniteSet(Workers) /\ Workers # {}
  BY CenterAssumption
<1>2. Cardinality(Workers) \in Nat /\ Cardinality(Workers) # 0
  BY <1>1, FS_CardinalityType, FS_EmptySet
<1> QED
  BY <1>2

\* The Worker that is updated comes first, and nobody else gets into the list.
LEMMA NewestFirstIsListed ==
  ASSUME NEW n \in Nat, NEW S, NEW o \in [1 .. n -> S], NEW w \in S
  PROVE  NewestFirst(o, w) \in [1 .. n -> S]
<1> DEFINE at == CHOOSE k \in DOMAIN o : o[k] = w
<1>1. NewestFirst(o, w) = [k \in 1 .. n |-> IF k = 1 THEN w ELSE IF k <= at THEN o[k - 1] ELSE o[k]]
  BY DEF NewestFirst
<1> HIDE DEF at
<1>2. ASSUME NEW k \in 1 .. n PROVE (IF k = 1 THEN w ELSE IF k <= at THEN o[k - 1] ELSE o[k]) \in S
  <2>1. k # 1 => k - 1 \in 1 .. n
    OBVIOUS
  <2>2. k # 1 => o[k - 1] \in S
    BY <2>1
  <2> QED
    BY <2>2
<1> QED
  BY <1>1, <1>2

\* A list stays one when a Worker is updated.
LEMMA UpdatedIsListed ==
  ASSUME NEW s, Recorded(s), Listed(s), NEW w \in Workers, NEW st
  PROVE  Listed(Updated(s, w, st))
<1>1. /\ Updated(s, w, st).order = NewestFirst(s.order, w)
      /\ Updated(s, w, st).paused = s.paused
  BY DEF Updated, Recorded
<1>2. Cardinality(Workers) \in Nat /\ s.order \in [1 .. Cardinality(Workers) -> Workers]
  BY SomeWorkers DEF Listed
<1>3. NewestFirst(s.order, w) \in [1 .. Cardinality(Workers) -> Workers]
  BY <1>2, NewestFirstIsListed
<1> QED
  BY <1>1, <1>3 DEF Listed

\* And by a change of anything else.
LEMMA SameListed ==
  ASSUME NEW s, Listed(s), NEW t, t.order = s.order, t.paused \in BOOLEAN
  PROVE  Listed(t)
BY DEF Listed

\* What a call does to a Worker of the list.
LEMMA EffectIsListed ==
  ASSUME NEW s, Recorded(s), Listed(s), NEW a, NEW w, ProjectOp(a) \/ w \in Workers \/ a = "show-status"
  PROVE  Listed(Effect(s, a, w))
<1>1. CASE ProjectOp(a)
  <2>1. PICK b \in BOOLEAN : Effect(s, a, w) = [s EXCEPT !.paused = b]
    BY <1>1 DEF ProjectOp, Effect
  <2>2. Effect(s, a, w).order = s.order /\ Effect(s, a, w).paused = b
    BY <2>1 DEF Recorded
  <2> QED
    BY <2>2, SameListed
<1>2. CASE ~ProjectOp(a) /\ w \in Workers
  <2>1. \/ Effect(s, a, w) = s
        \/ \E st : Effect(s, a, w) = Updated(s, w, st)
        \/ Effect(s, a, w) = [Updated(s, w, "working") EXCEPT !.attempt[w] = @ + 1]
    BY <1>2 DEF Effect, ProjectOp
  <2>2. CASE Effect(s, a, w) = [Updated(s, w, "working") EXCEPT !.attempt[w] = @ + 1]
    <3> DEFINE u == Updated(s, w, "working")
    <3>1. Listed(u) /\ DOMAIN u = DOMAIN s
      BY <1>2, UpdatedIsListed, UpdatedIs
    <3>2. Effect(s, a, w) = [u EXCEPT !.attempt[w] = @ + 1]
      BY <2>2
    <3> HIDE DEF u
    <3>3. Effect(s, a, w).order = u.order /\ Effect(s, a, w).paused = u.paused
      BY <3>1, <3>2 DEF Recorded
    <3> QED
      BY <3>1, <3>3 DEF Listed
  <2> QED
    BY <1>2, <2>1, <2>2, UpdatedIsListed
<1>3. CASE ~ProjectOp(a) /\ a = "show-status"
  BY <1>3 DEF Effect
<1> QED
  BY <1>1, <1>2, <1>3

\* The Worker that is marked is a Worker.
LEMMA SelectedIsWorker ==
  ASSUME ProjectsAreListed, PanelTypes
  PROVE  Selected \in Workers
<1>1. cur.order \in [1 .. Cardinality(Workers) -> Workers] /\ 1 \in 1 .. Cardinality(Workers)
  BY SomeWorkers DEF ProjectsAreListed, Listed
<1>2. cur.order[1] \in Workers
  BY <1>1
<1> QED
  BY <1>2 DEF Selected, PanelTypes

\* Every step that changes the project leaves it a list.
LEMMA ListedStep ==
  ASSUME Recorded(db), ProjectsAreListed, [Next]_vars
  PROVE  Listed(db')
<1>0. Listed(db)
  BY DEF ProjectsAreListed
<1>1. CASE db' = db
  BY <1>0, <1>1
<1>2. ASSUME NEW w \in Workers, NEW st, WorkerMoves(w, st) PROVE Listed(db')
  <2> DEFINE u == Updated(db, w, st)
  <2>1. db' = [u EXCEPT !.attempt[w] = IF db.status[w] \in Resumable /\ st = "working" THEN @ + 1 ELSE @]
    BY <1>2 DEF WorkerMoves
  <2>2. Listed(u) /\ DOMAIN u = DOMAIN db
    BY <1>0, UpdatedIsListed, UpdatedIs
  <2> HIDE DEF u
  <2>3. db'.order = u.order /\ db'.paused = u.paused
    BY <2>1, <2>2 DEF Recorded
  <2> QED
    BY <2>2, <2>3 DEF Listed
<1>3. ASSUME NEW w \in Workers, WorkerCommits(w) PROVE Listed(db')
  <2> DEFINE u == Updated(db, w, "working")
  <2>1. db' = [u EXCEPT !.commit[w] = @ + 1]
    BY <1>3 DEF WorkerCommits
  <2>2. Listed(u) /\ DOMAIN u = DOMAIN db
    BY <1>0, UpdatedIsListed, UpdatedIs
  <2> HIDE DEF u
  <2>3. db'.order = u.order /\ db'.paused = u.paused
    BY <2>1, <2>2 DEF Recorded
  <2> QED
    BY <2>2, <2>3 DEF Listed
<1>4. CASE ProjectMoves
  <2>1. db' = [db EXCEPT !.paused = ~@]
    BY <1>4 DEF ProjectMoves
  <2>2. db'.order = db.order /\ db'.paused = ~db.paused
    BY <2>1 DEF Recorded
  <2>3. (~db.paused) \in BOOLEAN
    OBVIOUS
  <2> QED
    BY <1>0, <2>2, <2>3, SameListed
<1>5. CASE CallTakesEffect
  <2>1. db' = Effect(db, op.type, op.worker) /\ op.at = "call"
    BY <1>5 DEF CallTakesEffect
  <2>2. ProjectOp(op.type) \/ op.worker \in Workers \/ op.type = "show-status"
    BY <2>1 DEF ProjectsAreListed
  <2> QED
    BY <1>0, <2>1, <2>2, EffectIsListed
<1>7. CASE ResumeMarksFailed
  <2>1. /\ db' = Updated(db, op.worker, "failed")
        /\ op.at = "call" /\ op.type = "resume-worker"
    BY <1>7 DEF ResumeMarksFailed
  <2>2. op.worker \in Workers
    BY <2>1 DEF ProjectsAreListed, ProjectOp
  <2> QED
    BY <1>0, <2>1, <2>2, UpdatedIsListed
<1>6. ASSUME NEW w \in Workers, AskToPause(w), db' # db PROVE Listed(db')
  <2>1. db' = Updated(db, w, "pause_requested")
    BY <1>6 DEF AskToPause
  <2> QED
    BY <1>0, <2>1, UpdatedIsListed
<1> QED
  BY <1>1, <1>2, <1>3, <1>4, <1>5, <1>6, <1>7
     DEF Next, vars, host, panel, TellLate, ToggleDetails, SelectWorker, OpenWorker, SwitchTab, RunAction, Answer,
         FindActive, Succeed, Fails, Leaves, InspectReads, InspectEnds, HoldEnds, Render,
         CloseByAction, Close, Dispose

\* An operation that is asked for on a Worker is on a Worker, until it ends.
LEMMA OpOnWorkerStep ==
  ASSUME ToldAreOld, OpIsKnown, PanelTypes, ProjectsAreListed, [Next]_vars
  PROVE  (op.at # "none" /\ ~ProjectOp(op.type) /\ op.type # "show-status" => op.worker \in Workers)'
<1> DEFINE Goal == op'.at # "none" /\ ~ProjectOp(op'.type) /\ op'.type # "show-status" => op'.worker \in Workers
<1> SUFFICES Goal
  BY DEF ProjectOp
<1>0. op.at # "none" /\ ~ProjectOp(op.type) /\ op.type # "show-status" => op.worker \in Workers
  BY DEF ProjectsAreListed
<1>1. ASSUME op'.at = "none" \/ (op.at # "none" /\ op'.type = op.type /\ op'.worker = op.worker) PROVE Goal
  BY <1>0, <1>1 DEF ProjectOp
<1>2. CASE op' = op
  BY <1>0, <1>2
<1>3. ASSUME NEW w \in Workers, ToggleDetails(w) \/ OpenWorker(w), op' # op PROVE Goal
  BY <1>3 DEF ToggleDetails, OpenWorker, Expand, Inspect
<1>4. ASSUME NEW r \in Reachable, RunAction(r) PROVE Goal
  <2>1. op'.type = r.type /\ op'.worker = r.worker
    BY <1>4 DEF RunAction
  <2>2. r.worker \in Workers \/ ProjectOp(r.type) \/ r.type = "show-status"
    BY SelectedIsWorker DEF Reachable, ProjectOp
  <2> QED
    BY <2>1, <2>2
<1>5. ASSUME op' = NoOp PROVE Goal
  BY <1>5 DEF NoOp
<1>6. ASSUME NEW ok \in BOOLEAN, Answer(ok) PROVE Goal
  <2>1. op' = NoOp \/ (op.at = "dialog" /\ op' = [op EXCEPT !.at = "call"])
    BY <1>6 DEF Answer, Finish
  <2>2. ASSUME op.at = "dialog", op' = [op EXCEPT !.at = "call"] PROVE Goal
    BY <1>0, <2>2 DEF OpIsKnown
  <2> QED
    BY <1>5, <2>1, <2>2
<1>7. CASE CallTakesEffect \/ ResumeMarksFailed
  <2>1. op.at = "call" /\ \E to \in {"ending", "failing"} : op' = [op EXCEPT !.at = to]
    BY <1>7 DEF CallTakesEffect, ResumeMarksFailed
  <2> QED
    BY <1>0, <2>1 DEF OpIsKnown
<1>8. CASE FindActive
  <2>1. op'.type = "pause-project"
    BY <1>8 DEF FindActive
  <2> QED
    BY <2>1 DEF ProjectOp
<1>9. ASSUME NEW w \in Workers, AskToPause(w) PROVE Goal
  <2>1. op.at = "stopping" /\ op' = [op EXCEPT !.todo = @ \ {w}]
    BY <1>9 DEF AskToPause
  <2> QED
    BY <1>0, <2>1 DEF OpIsKnown
<1>10. CASE InspectReads
  <2>1. op.at = "read" /\ op'.worker = op.worker
    BY <1>10 DEF InspectReads
  <2> QED
    BY <2>1 DEF OpIsKnown
<1>11. Succeed \/ Fails \/ Leaves \/ (\E ok \in BOOLEAN : InspectEnds(ok)) => op' = NoOp
  BY DEF Succeed, Fails, Leaves, InspectEnds, Finish
<1> HIDE DEF Goal
<1> QED
  BY <1>2, <1>3, <1>4, <1>5, <1>6, <1>7, <1>8, <1>9, <1>10, <1>11
     DEF Next, vars, host, panel, WorkerMoves, WorkerCommits, ProjectMoves, TellLate, SelectWorker,
         SwitchTab, HoldEnds, Render, CloseByAction, Close, Dispose

\* What is told and will be told are lists.
LEMMA ProjectsAreListedStep ==
  ASSUME ToldAreOld, OpIsKnown, PanelTypes, ProjectsAreListed, [Next]_vars
  PROVE  ProjectsAreListed'
<1>1. Listed(db')
  BY ListedStep DEF ToldAreOld
<1>2. Listed(cur) /\ \A k \in DOMAIN late : Listed(late[k].state)
  BY DEF ProjectsAreListed
<1>3. PICK S : late \in Seq(S)
  BY DEF ToldAreOld
<1>4. Listed(cur')
  <2>1. CASE late # <<>> /\ cur' = Head(late).state
    <3>1. 1 \in DOMAIN late /\ Head(late) = late[1]
      BY <1>3, <2>1
    <3> QED
      BY <1>2, <2>1, <3>1
  <2> QED
    BY <1>1, <1>2, <2>1, WhatIsTold
<1>5. \A k \in DOMAIN late' : Listed(late'[k].state)
  <2>1. CASE late' = late
    BY <1>2, <2>1
  <2>2. CASE \E b \in BOOLEAN : late' = Append(late, [state |-> db', mine |-> b])
    <3>1. PICK b \in BOOLEAN : late' = Append(late, [state |-> db', mine |-> b])
      BY <2>2
    <3> DEFINE x == [state |-> db', mine |-> b]
    <3>2. x.state = db' /\ late' = Append(late, x)
      BY <3>1
    <3> HIDE DEF x
    <3>3. ASSUME NEW k \in DOMAIN late' PROVE late'[k] = x \/ (k \in DOMAIN late /\ late'[k] = late[k])
      BY <1>3, <3>2
    <3> QED
      BY <1>1, <1>2, <3>2, <3>3
  <2>3. CASE late # <<>> /\ late' = Tail(late)
    <3>1. ASSUME NEW k \in DOMAIN late' PROVE k + 1 \in DOMAIN late /\ late'[k] = late[k + 1]
      BY <1>3, <2>3
    <3> QED
      BY <1>2, <3>1
  <2> QED
    BY <2>1, <2>2, <2>3, WhatIsTold
<1> QED
  BY <1>1, <1>4, <1>5, OpOnWorkerStep DEF ProjectsAreListed, Listed

\* Whatever is told, evidence is of a kind, and the pulse runs or not.
LEMMA ToldIsTyped ==
  ASSUME PanelTypes, DOMAIN detail = Workers, NEW t, Told(t)
  PROVE  /\ expanded' \subseteq Workers /\ pulse' \in BOOLEAN
         /\ \A w \in Workers : detail'[w].kind \in {"none", "loading", "loaded", "error"}
<1>1. CASE life = "disposed"
  BY <1>1 DEF Told, PanelTypes
<1>2. CASE life # "disposed"
  BY <1>2 DEF Told, PanelTypes, None
<1> QED
  BY <1>1, <1>2

\* An inspection that is asked for loads evidence, and the pulse runs or not.
LEMMA InspectIsTyped ==
  ASSUME PanelTypes, DOMAIN detail = Workers, NEW v \in Workers, Inspect(v)
  PROVE  /\ pulse' \in BOOLEAN
         /\ \A w \in Workers : detail'[w].kind \in {"none", "loading", "loaded", "error"}
<1>1. detail' = [detail EXCEPT ![v] = Loading] /\ pulse' = Animates(op', size, life)
  BY DEF Inspect
<1>2. pulse' \in BOOLEAN
  BY <1>1 DEF Animates
<1> QED
  BY <1>1, <1>2 DEF PanelTypes, Loading

\* Every step leaves the panel's own state what it is.
LEMMA PanelTypesStep ==
  ASSUME PanelTypes, ProjectsAreListed, DOMAIN detail = Workers, [Next]_vars
  PROVE  PanelTypes'
<1> USE DEF panel, host
<1>0. ASSUME NEW o, NEW sz, NEW l PROVE Animates(o, sz, l) \in BOOLEAN
  BY DEF Animates
<1>1. ASSUME NEW w \in Workers, NEW st, WorkerMoves(w, st) \/ WorkerCommits(w) PROVE PanelTypes'
  <2>1. /\ UNCHANGED <<tab, selected, suspended, feedback, hold, hidden, life, mouse>>
        /\ \E t : Told(t)
    BY <1>1 DEF WorkerMoves, WorkerCommits
  <2> QED
    BY <2>1, ToldIsTyped DEF PanelTypes
<1>2. ASSUME NEW w \in Workers, AskToPause(w) PROVE PanelTypes'
  <2>1. /\ UNCHANGED <<tab, selected, suspended, feedback, hold, hidden, life, mouse>>
        /\ (\E t : Told(t)) \/ UNCHANGED <<expanded, detail, pulse>>
    BY <1>2 DEF AskToPause
  <2> QED
    BY <2>1, ToldIsTyped DEF PanelTypes
<1>3. CASE TellLate \/ CallTakesEffect \/ ResumeMarksFailed
  <2>1. /\ UNCHANGED <<tab, selected, suspended, feedback, hold, hidden, life, mouse>>
        /\ (\E t : Told(t)) \/ UNCHANGED <<expanded, detail, pulse>>
    BY <1>3 DEF TellLate, CallTakesEffect, ResumeMarksFailed
  <2> QED
    BY <2>1, ToldIsTyped DEF PanelTypes
<1>4. CASE ProjectMoves \/ FindActive \/ InspectReads
  BY <1>4 DEF ProjectMoves, FindActive, InspectReads, PanelTypes
<1>5. ASSUME NEW t \in Tabs, SwitchTab(t) PROVE PanelTypes'
  <2>1. Selected \in Workers
    BY SelectedIsWorker
  <2> QED
    BY <1>5, <2>1 DEF SwitchTab, PanelTypes
<1>6. ASSUME NEW w \in Workers, SelectWorker(w) PROVE PanelTypes'
  BY <1>6 DEF SelectWorker, PanelTypes
<1>7. ASSUME NEW w \in Workers, ToggleDetails(w) \/ OpenWorker(w) PROVE PanelTypes'
  <2>1. /\ UNCHANGED <<suspended, feedback, hold, hidden, life, mouse>>
        /\ tab' \in Tabs /\ selected' \in Workers \cup {NoWorker} /\ expanded' \subseteq Workers
        /\ Inspect(w) \/ UNCHANGED <<detail, pulse>>
    BY <1>7 DEF ToggleDetails, OpenWorker, Expand, PanelTypes, Tabs
  <2> QED
    BY <2>1, InspectIsTyped DEF PanelTypes
<1>8. ASSUME NEW r, RunAction(r) PROVE PanelTypes'
  <2>1. /\ UNCHANGED <<panel, life, mouse>> /\ suspended' = TRUE /\ hidden' = Asks(r.type)
        /\ feedback' = "loading" /\ hold' = FALSE /\ pulse' = Animates(op', size, life)
    BY <1>8 DEF RunAction
  <2>2. Asks(r.type) \in BOOLEAN
    BY DEF Asks
  <2> QED
    BY <1>0, <2>1, <2>2 DEF PanelTypes
<1>9. ASSUME NEW f \in {"idle", "success", "error"}, Finish(f)
      PROVE  suspended' = FALSE /\ (feedback' = feedback \/ feedback' = f) /\ (hold' = hold \/ hold' = (f = "success"))
  BY <1>9 DEF Finish
<1>10. ASSUME NEW ok \in BOOLEAN, Answer(ok) PROVE PanelTypes'
  <2>1. CASE ok
    BY <1>10, <2>1 DEF Answer, PanelTypes
  <2>2. CASE ~ok
    <3>1. /\ UNCHANGED <<panel, life, mouse>> /\ Finish("idle")
          /\ hidden' = (IF life = "open" THEN FALSE ELSE hidden) /\ pulse' = Animates(NoOp, size, life)
      BY <1>10, <2>2 DEF Answer
    <3>2. hold' \in BOOLEAN /\ suspended' = FALSE /\ feedback' \in {feedback, "idle"}
      BY <1>9, <3>1 DEF PanelTypes
    <3> QED
      BY <1>0, <3>1, <3>2 DEF PanelTypes
  <2> QED
    BY <2>1, <2>2
<1>11. CASE Succeed \/ Fails
  <2>1. /\ UNCHANGED <<panel, hidden, life, mouse>> /\ (Finish("success") \/ Finish("error"))
        /\ pulse' = Animates(NoOp, size, life)
    BY <1>11 DEF Succeed, Fails
  <2>2. hold' \in BOOLEAN /\ suspended' = FALSE /\ feedback' \in {feedback, "success", "error"}
    BY <1>9, <2>1 DEF PanelTypes
  <2> QED
    BY <1>0, <2>1, <2>2 DEF PanelTypes
<1>12. CASE Leaves
  BY <1>12 DEF Leaves, PanelTypes
<1>13. ASSUME NEW ok \in BOOLEAN, InspectEnds(ok) PROVE PanelTypes'
  <2>1. /\ UNCHANGED <<tab, selected, expanded, feedback, hold, hidden, life, mouse>>
        /\ suspended' = FALSE /\ pulse' = Animates(NoOp, size, life)
    BY <1>13 DEF InspectEnds
  <2> DEFINE x == IF life # "open" THEN detail[op.worker]
                  ELSE IF op.ident # Identity(cur, op.worker) THEN None
                  ELSE IF ok THEN [kind |-> "loaded", evidence |-> op.evidence] ELSE Failure
  <2>2. detail' = [detail EXCEPT ![op.worker] = x]
    BY <1>13 DEF InspectEnds
  <2>3. x = detail[op.worker] \/ x.kind \in {"none", "loading", "loaded", "error"}
    BY DEF None, Failure
  <2> HIDE DEF x
  <2>4. \A w \in Workers : detail'[w].kind \in {"none", "loading", "loaded", "error"}
    BY <2>2, <2>3 DEF PanelTypes
  <2> QED
    BY <1>0, <2>1, <2>4 DEF PanelTypes
<1>14. CASE HoldEnds \/ \E sz \in Sizes : Render(sz)
  BY <1>0, <1>14 DEF HoldEnds, Render, PanelTypes
<1>15. CASE CloseByAction \/ Close \/ Dispose
  BY <1>15 DEF CloseByAction, Close, Dispose, PanelTypes
<1>16. CASE UNCHANGED vars
  BY <1>16 DEF vars, PanelTypes
<1> HIDE DEF panel, host
<1> QED
  BY <1>1, <1>2, <1>3, <1>4, <1>5, <1>6, <1>7, <1>8, <1>10, <1>11, <1>12, <1>13, <1>14, <1>15, <1>16 DEF Next

\* The panel opens on a list of Workers.
LEMMA CenterTypesInit == Init => ProjectsAreListed /\ PanelTypes
<1> SUFFICES ASSUME Init PROVE ProjectsAreListed /\ PanelTypes
  OBVIOUS
<1>1. \E o : o \in Orders
  <2>1. PICK o \in Bijection(1 .. Cardinality(Workers), Workers) : TRUE
    BY CenterAssumption, FS_CardinalityType DEF ExistsBijection
  <2>2. o \in [1 .. Cardinality(Workers) -> Workers] /\ \A i, j \in DOMAIN o : o[i] = o[j] => i = j
    BY <2>1 DEF Bijection, Injection, IsInjective
  <2> QED
    BY <2>2 DEF Orders
<1>2. (CHOOSE o \in Orders : TRUE) \in [1 .. Cardinality(Workers) -> Workers]
  BY <1>1 DEF Orders
<1>3. db.order = (CHOOSE o \in Orders : TRUE) /\ db.paused = FALSE
  BY DEF Init, StartProjects
<1>4. ProjectsAreListed
  <2>1. Listed(db) /\ cur = db /\ late = <<>> /\ op.at = "none"
    BY <1>2, <1>3 DEF Init, Listed, NoOp
  <2>2. DOMAIN late = {}
    BY <2>1
  <2> QED
    BY <2>1, <2>2 DEF ProjectsAreListed
<1>5. Animates(NoOp, size, "open") \in BOOLEAN
  BY DEF Animates
<1>6. PanelTypes
  BY <1>5, CenterAssumption DEF Init, PanelTypes, Tabs, None
<1> QED
  BY <1>4, <1>6

\* ControlCenter: everything that is carried from step to step.
CenterIInv == CenterInv /\ ProjectsAreListed /\ PanelTypes

\* It holds when the panel opens.
LEMMA CenterIInvInit == Init => CenterIInv
BY CenterInit, CenterTypesInit, CenterAssumption DEF CenterIInv

\* And after every step.
LEMMA CenterIInvStep == CenterIInv /\ [Next]_vars => CenterIInv'
<1> SUFFICES ASSUME CenterIInv, [Next]_vars PROVE CenterIInv'
  OBVIOUS
<1> USE DEF CenterIInv
<1>1. OpIsKnown'
  BY OpIsKnownStep DEF CenterInv
<1>2. CenterInv'
  BY <1>1, ToldAreOldStep, EvidenceIsNewStep, PanelFollowsStep, TimersFollowStep DEF CenterInv
<1>3. ProjectsAreListed'
  BY ProjectsAreListedStep DEF CenterInv
<1>4. PanelTypes'
  BY PanelTypesStep DEF CenterInv, EvidenceIsNew
<1> QED
  BY <1>2, <1>3, <1>4

\* It says what the run checks.
LEMMA CenterIInvImplies == CenterIInv => TypeOK /\ CenterIsCurrent
<1> SUFFICES ASSUME CenterIInv PROVE TypeOK /\ CenterIsCurrent
  OBVIOUS
<1>1. CenterIsCurrent
  BY EvidenceIsOfShown DEF CenterIInv, CenterInv, CenterIsCurrent
<1>2. DOMAIN db.status = Workers /\ cur.paused \in BOOLEAN
  BY DEF CenterIInv, CenterInv, ToldAreOld, Recorded, ProjectsAreListed, Listed
<1>3. op.at \in {"none", "dialog", "call", "ending", "stopping", "failing", "read", "compare"}
  BY DEF CenterIInv, CenterInv, OpIsKnown
<1>4. PanelTypes
  BY DEF CenterIInv
<1> QED
  BY <1>1, <1>2, <1>3, <1>4 DEF TypeOK, PanelTypes

-----------------------------------------------------------------------------
(* PanelView *)

Held == chosen # NoControl => focus = chosen /\ chosen \in body.ids

Follows == /\ drawn => after = 0
           /\ chosen # NoControl => after = 0 \/ atStart

PanelInv ==
    /\ body \in Bodies /\ height \in Heights /\ top \in Nat
    /\ drawn \in BOOLEAN /\ atStart \in BOOLEAN
    /\ Held /\ Follows /\ Panel!KeepsItsPlace

\* What is assumed of bodies and heights, spelled out.
LEMMA NoControlIsNone == NoControl \notin Controls
BY PanelAssumption DEF Panel!NoControlAssumption

\* Every control has rows of its body, the first of them among these.
LEMMA BodiesAreSound ==
  \A b \in Bodies :
     /\ b.total \in Nat /\ b.ids \subseteq Controls
     /\ b.rows \in [b.ids -> SUBSET (0 .. b.total - 1)]
     /\ \A i \in b.ids : b.first[i] \in b.rows[i]
     /\ b.order \in Seq(b.ids)
     /\ b.ids = {b.order[k] : k \in 1 .. Len(b.order)}
     /\ \A k \in 1 .. Len(b.order) : b.order[k] \in b.ids
BY PanelAssumption DEF Panel!BodiesAssumption

\* There is room for a row and two "more" lines.
LEMMA HeightsAreSound == Heights \subseteq {h \in Nat : h >= Panel!MIN_BODY_HEIGHT}
BY PanelAssumption DEF Panel!HeightsAssumption

\* A position that is clamped lies between the first row and the last full page.
LEMMA ClampedIsBounded ==
  ASSUME NEW b \in Bodies, NEW h \in Heights, NEW t \in Nat
  PROVE  Panel!Clamped(t, b, h) \in Nat /\ Panel!Clamped(t, b, h) <= Panel!Maximum(b, h)
BY BodiesAreSound, HeightsAreSound DEF Panel!Clamped, Panel!Maximum, Panel!Least, Panel!AtLeast0

\* ensureControlVisible and viewportFor make any row readable, from any position.
LEMMA EnsuredIsReadable ==
  ASSUME NEW b \in Bodies, NEW h \in Heights, NEW t \in Nat, NEW r \in 0 .. b.total - 1
  PROVE  /\ Panel!EnsureVisible(t, r, b, h) \in Nat
         /\ Panel!Readable(r, Panel!Clamped(Panel!EnsureVisible(t, r, b, h), b, h), b, h)
<1> DEFINE low == Panel!Lowered(t, r)
           pos == Panel!Raised(low, r, b, h)
<1> USE BodiesAreSound, HeightsAreSound DEF Panel!MIN_BODY_HEIGHT, Panel!AtLeast0, Panel!Least
<1>1. b.total \in Nat /\ h \in Nat /\ h >= 3
  OBVIOUS
<1>2. low \in Nat /\ r >= low + (IF low > 0 THEN 1 ELSE 0)
  BY <1>1 DEF Panel!Lowered
<1> HIDE DEF low
<1>3. pos \in Nat
  <2>1. Panel!Maximum(b, h) \in Nat
    BY <1>1 DEF Panel!Maximum
  <2>2. r \in Int /\ Panel!AtLeast0(r - h + 2) \in Nat
    BY <1>1
  <2> HIDE DEF Panel!Maximum, Panel!AtLeast0
  <2>3. Panel!Least(Panel!Maximum(b, h), Panel!AtLeast0(r - h + 2)) \in Nat
    BY <2>1, <2>2
  <2> HIDE DEF Panel!Least
  <2> QED
    BY <1>2, <2>3 DEF Panel!Raised
<1>4. CASE b.total <= h
  BY <1>1, <1>3, <1>4 DEF Panel!EnsureVisible, Panel!Readable, low
<1>5. CASE b.total > h
  <2>1. CASE r >= low + h - (IF low + h < b.total THEN 1 ELSE 0)
    <3>1. pos = IF r - h + 2 < 0 THEN 0 ELSE IF b.total - h < r - h + 2 THEN b.total - h ELSE r - h + 2
      BY <1>1, <1>2, <1>5, <2>1 DEF Panel!Raised, Panel!Maximum
    <3>2. Panel!Clamped(pos, b, h) = pos
      BY <1>1, <1>3, <1>5, <3>1 DEF Panel!Clamped
    <3>3. Panel!Readable(r, pos, b, h)
      <4> DEFINE n == b.total
      <4>1. n \in Nat /\ h \in Nat /\ h >= 3 /\ n > h /\ r \in 0 .. n - 1
        BY <1>1, <1>5
      <4>2. pos = IF r - h + 2 < 0 THEN 0 ELSE IF n - h < r - h + 2 THEN n - h ELSE r - h + 2
        BY <3>1
      <4>3. /\ r >= pos + (IF pos > 0 THEN 1 ELSE 0)
            /\ r < pos + h - (IF pos + h < n THEN 1 ELSE 0)
        <5> HIDE DEF n, pos
        <5> QED
          BY <4>1, <4>2
      <4> QED
        BY <4>1, <4>3 DEF Panel!Readable
    <3> QED
      BY <1>3, <3>2, <3>3 DEF Panel!EnsureVisible, low
  <2>2. CASE ~(r >= low + h - (IF low + h < b.total THEN 1 ELSE 0))
    <3>1. pos = low
      BY <1>1, <1>2, <2>2 DEF Panel!Raised
    <3>2. Panel!Readable(r, Panel!Clamped(low, b, h), b, h)
      BY <1>1, <1>2, <1>5, <2>2 DEF Panel!Readable, Panel!Clamped
    <3> QED
      BY <1>3, <3>1, <3>2 DEF Panel!EnsureVisible, low
  <2> QED
    BY <2>1, <2>2
<1> QED
  BY <1>1, <1>4, <1>5

\* A control that was just opened comes to the start of the viewport.
LEMMA OpenedIsReadable ==
  ASSUME NEW b \in Bodies, NEW h \in Heights, NEW r \in 0 .. b.total - 1
  PROVE  LET t == Panel!Least(Panel!Maximum(b, h), Panel!AtLeast0(r - 1))
         IN  t \in Nat /\ Panel!Readable(r, Panel!Clamped(t, b, h), b, h)
<1>1. b.total \in Nat /\ h \in Nat /\ h >= 3
  BY BodiesAreSound, HeightsAreSound DEF Panel!MIN_BODY_HEIGHT
<1> QED
  BY <1>1 DEF Panel!Least, Panel!Maximum, Panel!AtLeast0, Panel!Clamped, Panel!Readable

\* The controls that keys move to are controls of the body.
LEMMA EdgesAndNeighbours ==
  ASSUME body \in Bodies, Panel!Count > 0, NEW d \in {1, -1}
  PROVE  Panel!Neighbour(d) \in body.ids /\ body.order[1] \in body.ids /\ body.order[Panel!Count] \in body.ids
<1>1. Panel!Count \in Nat /\ \A k \in 1 .. Panel!Count : body.order[k] \in body.ids
  BY BodiesAreSound DEF Panel!Count
<1>2. 1 \in 1 .. Panel!Count /\ Panel!Count \in 1 .. Panel!Count
  BY <1>1
<1>3. ASSUME NEW k \in 1 .. Panel!Count PROVE ((k - 1 + d + Panel!Count) % Panel!Count) + 1 \in 1 .. Panel!Count
  BY <1>1
<1>4. CASE \E k \in 1 .. Panel!Count : body.order[k] = focus
  <2> DEFINE j == CHOOSE k \in 1 .. Panel!Count : body.order[k] = focus
  <2>1. j \in 1 .. Panel!Count
    BY <1>4
  <2> HIDE DEF j
  <2>2. ((j - 1 + d + Panel!Count) % Panel!Count) + 1 \in 1 .. Panel!Count
    BY <1>3, <2>1
  <2>3. Panel!Neighbour(d) = body.order[((j - 1 + d + Panel!Count) % Panel!Count) + 1]
    BY <1>4 DEF Panel!Neighbour, j
  <2> QED
    BY <1>1, <1>2, <2>2, <2>3
<1>5. CASE ~(\E k \in 1 .. Panel!Count : body.order[k] = focus)
  BY <1>1, <1>2, <1>5 DEF Panel!Neighbour
<1> QED
  BY <1>4, <1>5
-----------------------------------------------------------------------------
(* The steps *)

\* The panel opens at the top, with nothing chosen and nothing drawn.
LEMMA PanelInit == Panel!Init => PanelInv
<1> SUFFICES ASSUME Panel!Init PROVE PanelInv
  OBVIOUS
<1>1. /\ body \in Bodies /\ height \in Heights /\ top = 0
      /\ ~drawn /\ drawn \in BOOLEAN /\ atStart \in BOOLEAN /\ chosen = NoControl
  BY DEF Panel!Init
<1> QED
  BY <1>1 DEF PanelInv, Held, Follows, Panel!KeepsItsPlace, Panel!ViewportIsFull, Panel!ChosenIsFocused

\* A frame shows what the user chose, and no empty rows.
LEMMA RenderKeepsPlace == ASSUME PanelInv, Panel!Render PROVE PanelInv'
<1> USE DEF PanelInv
<1>1. body \in Bodies /\ height \in Heights /\ top \in Nat
  OBVIOUS
<1>2. ASSUME NEW r \in 0 .. body.total - 1
      PROVE  /\ Panel!EnsureVisible(top, r, body, height) \in Nat
             /\ Panel!Readable(r, Panel!Clamped(Panel!EnsureVisible(top, r, body, height), body, height), body, height)
  BY <1>1, EnsuredIsReadable
<1>3. ASSUME NEW r \in 0 .. body.total - 1
      PROVE  LET t == Panel!Least(Panel!Maximum(body, height), Panel!AtLeast0(r - 1))
             IN  t \in Nat /\ Panel!Readable(r, Panel!Clamped(t, body, height), body, height)
  BY <1>1, OpenedIsReadable
<1>4. ASSUME NEW i \in body.ids
      PROVE  body.first[i] \in 0 .. body.total - 1 /\ body.first[i] \in body.rows[i]
  BY <1>1, BodiesAreSound
<1>5. Panel!ScrolledTop \in Nat
  BY <1>1, <1>2, <1>3, <1>4 DEF Panel!ScrolledTop
<1>6. Panel!RenderTop \in Nat /\ Panel!RenderTop <= Panel!Maximum(body, height)
  BY <1>1, <1>5, ClampedIsBounded DEF Panel!RenderTop
<1>7. ASSUME chosen # NoControl
      PROVE  focus = chosen /\ focus \in Panel!VisibleControls(Panel!RenderTop, body, height)
  <2>1. focus = chosen /\ focus \in body.ids /\ (after = 0 \/ atStart)
    BY <1>7 DEF Held, Follows
  <2>2. Panel!Readable(body.first[focus], Panel!RenderTop, body, height)
    BY <1>2, <1>3, <1>4, <2>1 DEF Panel!RenderTop, Panel!ScrolledTop
  <2> QED
    BY <1>4, <2>1, <2>2 DEF Panel!VisibleControls
<1>8. /\ body' = body /\ height' = height /\ chosen' = chosen /\ drawn' = TRUE
      /\ top' = Panel!RenderTop /\ focus' = Panel!RenderFocus /\ after' = 0
      /\ visible' = Panel!VisibleControls(Panel!RenderTop, body, height)
      /\ atStart' \in BOOLEAN
  BY DEF Panel!Render
<1>9. chosen # NoControl => Panel!RenderFocus = chosen
  BY <1>7 DEF Panel!RenderFocus
<1>10. Held' /\ Follows'
  BY <1>8, <1>9 DEF Held, Follows
<1>11. Panel!KeepsItsPlace'
  BY <1>6, <1>7, <1>8, <1>9 DEF Panel!KeepsItsPlace, Panel!ViewportIsFull, Panel!ChosenIsFocused
<1> QED
  BY <1>1, <1>6, <1>8, <1>10, <1>11

\* Moving the focus brings the control into the view before it is drawn.
LEMMA FocusOnKeepsPlace == ASSUME PanelInv, drawn, NEW i \in body.ids, Panel!FocusOn(i) PROVE PanelInv'
<1> USE DEF PanelInv
<1>1. body.first[i] \in 0 .. body.total - 1
  BY BodiesAreSound
<1>2. Panel!EnsureVisible(top, body.first[i], body, height) \in Nat
  BY <1>1, EnsuredIsReadable
<1> QED
  BY <1>2 DEF Panel!FocusOn, Held, Follows, Panel!KeepsItsPlace, Panel!ViewportIsFull, Panel!ChosenIsFocused

\* A scroll ends the choice.
LEMMA ScrollKeepsPlace == ASSUME PanelInv, NEW n \in Int, Panel!ScrollBy(n) PROVE PanelInv'
<1> USE DEF PanelInv
<1>1. Panel!Maximum(body, height) \in Nat
  BY BodiesAreSound, HeightsAreSound DEF Panel!Maximum, Panel!AtLeast0
<1>2. Panel!AtLeast0(Panel!Least(Panel!Maximum(body, height), top + n)) \in Nat
  BY <1>1 DEF Panel!AtLeast0, Panel!Least
<1> QED
  BY <1>2 DEF Panel!ScrollBy, Held, Follows, Panel!KeepsItsPlace, Panel!ViewportIsFull, Panel!ChosenIsFocused

\* Other rows keep the choice if they have its control.
LEMMA RebuiltKeepsPlace ==
  ASSUME PanelInv, NEW b \in Bodies, NEW f, NEW c, Panel!Rebuilt(b, f, c),
         drawn \/ (c = chosen /\ f = focus),
         c \in b.ids => f = c
  PROVE  PanelInv'
<1> USE DEF PanelInv
<1>1. b.ids \subseteq Controls /\ NoControl \notin b.ids
  BY BodiesAreSound, NoControlIsNone
<1>2. c \in b.ids => after = 0 \/ atStart
  BY <1>1 DEF Follows
<1> QED
  BY <1>1, <1>2 DEF Panel!Rebuilt, Held, Follows, Panel!KeepsItsPlace, Panel!ViewportIsFull, Panel!ChosenIsFocused

\* Another tab starts over, or at the control that is opened.
LEMMA NewViewKeepsPlace ==
  ASSUME PanelInv, NEW b \in Bodies,
         \/ \E forget \in BOOLEAN : Panel!StartOver(b, forget)
         \/ \E i \in b.ids : Panel!OpenAt(b, i)
  PROVE  PanelInv'
<1> USE DEF PanelInv, Held, Follows, Panel!KeepsItsPlace, Panel!ViewportIsFull, Panel!ChosenIsFocused
<1>1. ASSUME NEW forget \in BOOLEAN, Panel!StartOver(b, forget) PROVE PanelInv'
  <2>1. /\ body' = b /\ height' = height /\ top' = 0 /\ chosen' = NoControl
        /\ ~drawn' /\ drawn' \in BOOLEAN /\ atStart' \in BOOLEAN
    BY <1>1 DEF Panel!StartOver
  <2> QED
    BY <2>1
<1>2. ASSUME NEW i \in b.ids, Panel!OpenAt(b, i) PROVE PanelInv'
  <2>1. /\ body' = b /\ height' = height /\ top' = 0 /\ chosen' = i /\ focus' = i
        /\ ~drawn' /\ drawn' \in BOOLEAN /\ atStart' /\ atStart' \in BOOLEAN
    BY <1>2 DEF Panel!OpenAt
  <2> QED
    BY <2>1
<1> QED
  BY <1>1, <1>2

\* Whatever the activation of a control does to the view.
LEMMA ActivatedKeepsPlace == ASSUME PanelInv, drawn, NEW i, Panel!Activated(i) PROVE PanelInv'
<1>1. PICK b \in Bodies :
        \/ Panel!Rebuilt(b, i, i)
        \/ \E j \in b.ids : Panel!Rebuilt(b, j, j) \/ Panel!OpenAt(b, j)
        \/ \E forget \in BOOLEAN : Panel!StartOver(b, forget)
  BY DEF Panel!Activated
<1>2. CASE Panel!Rebuilt(b, i, i)
  BY <1>2, RebuiltKeepsPlace
<1>3. ASSUME NEW j \in b.ids, Panel!Rebuilt(b, j, j) PROVE PanelInv'
  BY <1>3, RebuiltKeepsPlace
<1>4. CASE (\E j \in b.ids : Panel!OpenAt(b, j)) \/ \E forget \in BOOLEAN : Panel!StartOver(b, forget)
  BY <1>4, NewViewKeepsPlace
<1> QED
  BY <1>1, <1>2, <1>3, <1>4

\* Every key, click, state and resize.
LEMMA PanelStep == PanelInv /\ [Panel!Next]_(Panel!vars) => PanelInv'
<1> SUFFICES ASSUME PanelInv, [Panel!Next]_(Panel!vars) PROVE PanelInv'
  OBVIOUS
<1>1. CASE Panel!Render
  BY <1>1, RenderKeepsPlace
<1>2. ASSUME NEW d \in {1, -1}, Panel!MoveFocus(d) PROVE PanelInv'
  <2>1. CASE Panel!Count = 0
    BY <1>2, <2>1, ScrollKeepsPlace DEF Panel!MoveFocus
  <2>2. CASE Panel!Count # 0
    <3>1. drawn /\ Panel!FocusOn(Panel!Neighbour(d)) /\ body \in Bodies
      BY <1>2, <2>2 DEF Panel!MoveFocus, PanelInv
    <3>2. Panel!Count > 0
      BY <2>2, <3>1, BodiesAreSound DEF Panel!Count
    <3>3. Panel!Neighbour(d) \in body.ids
      BY <3>1, <3>2, EdgesAndNeighbours
    <3> QED
      BY <3>1, <3>3, FocusOnKeepsPlace
  <2> QED
    BY <2>1, <2>2
<1>3. CASE Panel!FocusEdge
  <2>1. drawn /\ Panel!Count > 0 /\ body \in Bodies
    BY <1>3 DEF Panel!FocusEdge, PanelInv
  <2>2. body.order[1] \in body.ids /\ body.order[Panel!Count] \in body.ids
    BY <2>1, EdgesAndNeighbours
  <2> QED
    BY <1>3, <2>1, <2>2, FocusOnKeepsPlace DEF Panel!FocusEdge
<1>4. CASE Panel!Page \/ Panel!Wheel
  <2>1. height \in Int
    BY HeightsAreSound DEF PanelInv
  <2>2. PICK n \in Int : Panel!ScrollBy(n)
    BY <1>4, <2>1 DEF Panel!Page, Panel!Wheel, Panel!WHEEL_LINES
  <2> QED
    BY <2>2, ScrollKeepsPlace
<1>5. CASE Panel!Enter \/ \E i \in Controls : Panel!Click(i)
  BY <1>5, ActivatedKeepsPlace DEF Panel!Enter, Panel!Click
<1>6. ASSUME NEW b \in Bodies, Panel!Rebuild(b) \/ \E forget \in BOOLEAN : Panel!StartOver(b, forget) PROVE PanelInv'
  <2>1. CASE Panel!Rebuild(b)
    <3>1. b.ids \subseteq Controls /\ NoControl \notin b.ids
      BY BodiesAreSound, NoControlIsNone
    <3>2. chosen \in b.ids => focus = chosen
      BY <3>1 DEF PanelInv, Held
    <3> QED
      BY <2>1, <3>2, RebuiltKeepsPlace DEF Panel!Rebuild
  <2>2. CASE \E forget \in BOOLEAN : Panel!StartOver(b, forget)
    BY <2>2, NewViewKeepsPlace
  <2> QED
    BY <1>6, <2>1, <2>2
<1>7. ASSUME NEW h \in Heights, Panel!Resize(h) PROVE PanelInv'
  BY <1>7 DEF Panel!Resize, PanelInv, Held, Follows, Panel!KeepsItsPlace, Panel!ViewportIsFull, Panel!ChosenIsFocused
<1>8. CASE UNCHANGED Panel!vars
  BY <1>8 DEF Panel!vars, PanelInv, Held, Follows, Panel!KeepsItsPlace, Panel!ViewportIsFull, Panel!ChosenIsFocused
<1>9. CASE \/ \E d \in {1, -1} : Panel!MoveFocus(d)
           \/ \E h \in Heights : Panel!Resize(h)
  BY <1>2, <1>7, <1>9
<1>10. CASE \E b \in Bodies : Panel!Rebuild(b) \/ \E forget \in BOOLEAN : Panel!StartOver(b, forget)
  BY <1>6, <1>10
<1> QED
  BY <1>1, <1>3, <1>4, <1>5, <1>8, <1>9, <1>10 DEF Panel!Next

\* A set of places in a list has a first and a last one.
LEMMA FirstAndLast ==
  ASSUME NEW n \in Nat, NEW T \in SUBSET (1 .. n), T # {}
  PROVE  /\ \E k \in T : \A j \in T : k <= j
         /\ \E k \in T : \A j \in T : j <= k
<1> DEFINE R == OpToRel(<, Nat)
           U == {n - k : k \in T}
<1>1. IsWellFoundedOn(R, Nat)
  BY NatLessThanWellFounded
<1>2. \A x, y \in Nat : x < y => <<x, y>> \in R
  BY DEF OpToRel
<1>3. T \subseteq Nat /\ U \subseteq Nat /\ U # {}
  <2>1. \A k \in T : k \in Nat /\ n - k \in Nat
    OBVIOUS
  <2>2. \E k \in T : TRUE
    OBVIOUS
  <2>3. \A x \in U : x \in Nat
    BY <2>1
  <2> QED
    BY <2>1, <2>2, <2>3
<1> HIDE DEF R
<1>4. \E k \in T : \A j \in T : ~(<<j, k>> \in R)
  BY <1>1, <1>3, WFMin
<1>5. \E x \in U : \A y \in U : ~(<<y, x>> \in R)
  <2> HIDE DEF U
  <2> QED
    BY <1>1, <1>3, WFMin
<1>6. PICK k \in T : \A j \in T : ~(j < k)
  BY <1>2, <1>3, <1>4
<1>7. PICK x \in U : \A y \in U : ~(y < x)
  BY <1>2, <1>3, <1>5
<1>8. PICK m \in T : x = n - m
  BY <1>7
<1>9. ASSUME NEW j \in T PROVE j <= m
  <2>1. n - j \in U /\ ~(n - j < n - m)
    BY <1>7, <1>8
  <2>2. j \in Nat /\ m \in Nat
    BY <1>3
  <2> HIDE DEF U
  <2> QED
    BY <2>1, <2>2
<1>10. \A j \in T : k <= j
  <2> SUFFICES ASSUME NEW j \in T PROVE k <= j
    OBVIOUS
  <2>1. j \in Nat /\ k \in Nat /\ ~(j < k)
    BY <1>3, <1>6
  <2> QED
    BY <2>1
<1> HIDE DEF U
<1> QED
  BY <1>9, <1>10

\* The first and the last of some controls of a body are controls of it.
LEMMA EndsAreControls ==
  ASSUME NEW b \in Bodies, NEW S \in SUBSET b.ids
  PROVE  /\ Panel!FirstOf(S, b) \in b.ids \cup {NoControl}
         /\ Panel!LastOf(S, b) \in b.ids \cup {NoControl}
<1>1. CASE S = {}
  BY <1>1 DEF Panel!FirstOf, Panel!LastOf
<1>2. CASE S # {}
  <2> DEFINE n == Len(b.order)
             T == {k \in 1 .. n : b.order[k] \in S}
  <2>1. n \in Nat /\ b.ids = {b.order[k] : k \in 1 .. n}
    BY BodiesAreSound
  <2>2. T \in SUBSET (1 .. n) /\ T # {}
    BY <1>2, <2>1
  <2>3. (\E k \in T : \A j \in T : k <= j) /\ (\E k \in T : \A j \in T : j <= k)
    <3> HIDE DEF n, T
    <3> QED
      BY <2>1, <2>2, FirstAndLast
  <2>4. \E k \in 1 .. n : b.order[k] \in S /\ \A j \in 1 .. k - 1 : b.order[j] \notin S
    <3>1. PICK k \in T : \A j \in T : k <= j
      BY <2>3
    <3>2. ASSUME NEW j \in 1 .. k - 1 PROVE b.order[j] \notin S
      <4>1. j \in 1 .. n /\ ~(k <= j)
        BY <2>1, <2>2
      <4> QED
        BY <3>1, <4>1
    <3> QED
      BY <3>2
  <2>5. \E k \in 1 .. n : b.order[k] \in S /\ \A j \in k + 1 .. n : b.order[j] \notin S
    <3>1. PICK k \in T : \A j \in T : j <= k
      BY <2>3
    <3>2. ASSUME NEW j \in k + 1 .. n PROVE b.order[j] \notin S
      <4>1. j \in 1 .. n /\ ~(j <= k)
        BY <2>1, <2>2
      <4> QED
        BY <3>1, <4>1
    <3> QED
      BY <3>2
  <2> QED
    BY <1>2, <2>1, <2>4, <2>5 DEF Panel!FirstOf, Panel!LastOf
<1> QED
  BY <1>1, <1>2

\* What the panel keeps of the frame and of the keys.
ViewTypes ==
    /\ focus \in Controls \cup {NoControl} /\ chosen \in Controls \cup {NoControl}
    /\ after \in {-1, 0, 1} /\ visible \subseteq Controls

\* A frame focuses a control that can be seen, if there is one.
LEMMA RenderIsTyped == ASSUME PanelInv, ViewTypes, Panel!Render PROVE ViewTypes'
<1> DEFINE S == Panel!VisibleControls(Panel!RenderTop, body, height)
<1>1. body \in Bodies
  BY DEF PanelInv
<1>2. body.ids \subseteq Controls
  BY <1>1, BodiesAreSound
<1>3. S \in SUBSET body.ids
  BY DEF Panel!VisibleControls
<1>4. Panel!RenderFocus \in Controls \cup {NoControl}
  <2>1. Panel!FirstOf(S, body) \in body.ids \cup {NoControl} /\ Panel!LastOf(S, body) \in body.ids \cup {NoControl}
    BY <1>1, <1>3, EndsAreControls
  <2>2. Panel!RenderFocus \in {focus, Panel!FirstOf(S, body), Panel!LastOf(S, body)}
    BY DEF Panel!RenderFocus
  <2> QED
    BY <1>2, <2>1, <2>2 DEF ViewTypes
<1>5. visible' = S /\ focus' = Panel!RenderFocus /\ after' = 0 /\ chosen' = chosen
  BY DEF Panel!Render
<1> QED
  BY <1>2, <1>3, <1>4, <1>5 DEF ViewTypes

\* So does whatever moves the focus, rebuilds the body or starts over.
LEMMA ViewStepsAreTyped ==
  ASSUME PanelInv, ViewTypes,
         \/ \E i \in body.ids : Panel!FocusOn(i)
         \/ \E n \in Int : Panel!ScrollBy(n)
         \/ \E b \in Bodies : \/ \E f \in Controls \cup {NoControl}, c \in Controls \cup {NoControl} : Panel!Rebuilt(b, f, c)
                              \/ \E i \in b.ids : Panel!OpenAt(b, i)
                              \/ \E forget \in BOOLEAN : Panel!StartOver(b, forget)
  PROVE  ViewTypes'
<1>1. ASSUME NEW i \in body.ids, Panel!FocusOn(i) PROVE ViewTypes'
  <2>1. i \in Controls
    BY BodiesAreSound DEF PanelInv
  <2> QED
    BY <1>1, <2>1 DEF Panel!FocusOn, ViewTypes
<1>2. ASSUME NEW n \in Int, Panel!ScrollBy(n) PROVE ViewTypes'
  <2>1. after' \in {-1, 0, 1} /\ chosen' = NoControl /\ focus' = focus /\ visible' = visible
    BY <1>2 DEF Panel!ScrollBy
  <2> QED
    BY <2>1 DEF ViewTypes
<1>3. ASSUME NEW b \in Bodies, NEW f \in Controls \cup {NoControl}, NEW c \in Controls \cup {NoControl},
             Panel!Rebuilt(b, f, c)
      PROVE  ViewTypes'
  BY <1>3 DEF Panel!Rebuilt, ViewTypes
<1>4. ASSUME NEW b \in Bodies, NEW i \in b.ids, Panel!OpenAt(b, i) PROVE ViewTypes'
  <2>1. i \in Controls
    BY BodiesAreSound
  <2> QED
    BY <1>4, <2>1 DEF Panel!OpenAt, ViewTypes
<1>5. ASSUME NEW b \in Bodies, NEW forget \in BOOLEAN, Panel!StartOver(b, forget) PROVE ViewTypes'
  <2>1. focus' = NoControl /\ chosen' = NoControl /\ visible' = visible /\ (after' = 0 \/ after' = after)
    BY <1>5 DEF Panel!StartOver
  <2> QED
    BY <2>1 DEF ViewTypes
<1> QED
  BY <1>1, <1>2, <1>3, <1>4, <1>5

\* An activation is one of those.
LEMMA ActivatedIsTyped ==
  ASSUME PanelInv, ViewTypes, NEW i \in Controls \cup {NoControl}, Panel!Activated(i) PROVE ViewTypes'
<1>1. PICK b \in Bodies :
        \/ Panel!Rebuilt(b, i, i)
        \/ \E j \in b.ids : Panel!Rebuilt(b, j, j) \/ Panel!OpenAt(b, j)
        \/ \E forget \in BOOLEAN : Panel!StartOver(b, forget)
  BY DEF Panel!Activated
<1>2. \A j \in b.ids : j \in Controls
  BY BodiesAreSound
<1> QED
  BY <1>1, <1>2, ViewStepsAreTyped

\* Every key, click, state and resize.
LEMMA ViewTypesStep ==
  ASSUME PanelInv, ViewTypes, [Panel!Next]_(Panel!vars) PROVE ViewTypes'
<1>0. body \in Bodies /\ height \in Int
  BY HeightsAreSound DEF PanelInv
<1>1. CASE Panel!Render
  BY <1>1, RenderIsTyped
<1>2. ASSUME NEW d \in {1, -1}, Panel!MoveFocus(d) PROVE ViewTypes'
  <2>1. CASE Panel!Count = 0
    <3>1. d \in Int /\ Panel!ScrollBy(d)
      BY <1>2, <2>1 DEF Panel!MoveFocus
    <3> QED
      BY <3>1, ViewStepsAreTyped
  <2>2. CASE Panel!Count # 0
    <3>1. Panel!Count > 0 /\ Panel!FocusOn(Panel!Neighbour(d))
      BY <1>0, <1>2, <2>2, BodiesAreSound DEF Panel!MoveFocus, Panel!Count
    <3>2. Panel!Neighbour(d) \in body.ids
      BY <1>0, <3>1, EdgesAndNeighbours
    <3> QED
      BY <3>1, <3>2, ViewStepsAreTyped
  <2> QED
    BY <2>1, <2>2
<1>3. CASE Panel!FocusEdge
  <2>1. body.order[1] \in body.ids /\ body.order[Panel!Count] \in body.ids
    BY <1>0, <1>3, EdgesAndNeighbours DEF Panel!FocusEdge
  <2> QED
    BY <1>3, <2>1, ViewStepsAreTyped DEF Panel!FocusEdge
<1>4. CASE Panel!Page \/ Panel!Wheel
  <2>1. PICK n \in Int : Panel!ScrollBy(n)
    BY <1>0, <1>4 DEF Panel!Page, Panel!Wheel, Panel!WHEEL_LINES
  <2> QED
    BY <2>1, ViewStepsAreTyped
<1>5. CASE Panel!Enter \/ \E i \in Controls : Panel!Click(i)
  BY <1>5, ActivatedIsTyped DEF Panel!Enter, Panel!Click, ViewTypes
<1>6. ASSUME NEW b \in Bodies, Panel!Rebuild(b) \/ \E forget \in BOOLEAN : Panel!StartOver(b, forget)
      PROVE  ViewTypes'
  <2>1. Panel!Rebuild(b) => Panel!Rebuilt(b, focus, chosen)
    BY DEF Panel!Rebuild
  <2> QED
    BY <1>6, <2>1, ViewStepsAreTyped DEF ViewTypes
<1>7. ASSUME NEW h \in Heights, Panel!Resize(h) PROVE ViewTypes'
  BY <1>7 DEF Panel!Resize, ViewTypes
<1>8. CASE UNCHANGED Panel!vars
  BY <1>8 DEF Panel!vars, ViewTypes
<1>9. CASE \/ \E d \in {1, -1} : Panel!MoveFocus(d)
           \/ \E h \in Heights : Panel!Resize(h)
  BY <1>2, <1>7, <1>9
<1>10. CASE \E b \in Bodies : Panel!Rebuild(b) \/ \E forget \in BOOLEAN : Panel!StartOver(b, forget)
  BY <1>6, <1>10
<1> QED
  BY <1>1, <1>3, <1>4, <1>5, <1>8, <1>9, <1>10 DEF Panel!Next

\* PanelView: everything that is carried from frame to frame, which says what the run checks.
LEMMA PanelImplies == PanelInv /\ ViewTypes => Panel!TypeOK /\ KeepsItsPlace
BY DEF PanelInv, ViewTypes, Panel!TypeOK, KeepsItsPlace

\* It holds when the panel opens.
LEMMA ViewTypesInit == Panel!Init => ViewTypes
BY DEF Panel!Init, ViewTypes

-----------------------------------------------------------------------------
(* ModelPicker: pins *)

Write == [key : Picker!Providers, to : BOOLEAN, picker : Nat]

PickerTypes ==
    /\ picker \in {"closed", "loading", "open", "login"}
    /\ writes \in Seq(Write) /\ opens \in Nat
    /\ pins \subseteq Picker!Providers /\ (disk = Picker!Absent \/ disk \subseteq Picker!Providers)

\* Provider p is one of which the picker that is open knows everything.
Known(p) == picker = "open" /\ p \in Picker!Providers \ (tainted \cup foreign)

\* The writes of p that wait are those of this picker, and each undoes the one before
\* it: the first what is on disk, and the last says what is on the screen.
Alternate(p, ws, saved, shown) ==
    LET W == {k \in DOMAIN ws : ws[k].key = p} IN
    /\ \A k \in W : (\A j \in W : k <= j) => (ws[k].to <=> p \notin saved)
    /\ \A j, k \in W : j < k /\ (\A i \in W : i <= j \/ k <= i) => (ws[k].to <=> ~ws[j].to)
    /\ \A k \in W : (\A j \in W : j <= k) => (ws[k].to <=> p \in shown)
    /\ W = {} => (p \in shown <=> p \in saved)

PinsFollow ==
    \A p : Known(p) =>
        /\ disk # Picker!Absent
        /\ \A k \in DOMAIN writes : writes[k].key = p => writes[k].picker = opens
        /\ Alternate(p, writes, disk, pins)

PickerInv == PickerTypes /\ PinsFollow

-----------------------------------------------------------------------------
\* What is left of a sequence of writes without one of them.
LEMMA WithoutOne ==
  ASSUME NEW S, NEW ws \in Seq(S), NEW k \in DOMAIN ws
  PROVE  /\ Picker!RemoveAt(ws, k) \in Seq(S)
         /\ DOMAIN Picker!RemoveAt(ws, k) = 1 .. Len(ws) - 1
         /\ \A i \in 1 .. Len(ws) - 1 : Picker!RemoveAt(ws, k)[i] = IF i < k THEN ws[i] ELSE ws[i + 1]
<1>1. Len(ws) \in Nat /\ k \in 1 .. Len(ws)
  OBVIOUS
<1> DEFINE a == SubSeq(ws, 1, k - 1)
           b == SubSeq(ws, k + 1, Len(ws))
<1>2. a \in Seq(S) /\ Len(a) = k - 1 /\ \A i \in 1 .. k - 1 : a[i] = ws[i]
  BY <1>1
<1>3. b \in Seq(S) /\ Len(b) = Len(ws) - k /\ \A i \in 1 .. Len(ws) - k : b[i] = ws[k + i]
  BY <1>1
<1>4. Picker!RemoveAt(ws, k) = a \o b
  BY DEF Picker!RemoveAt
<1> HIDE DEF a, b
<1>5. a \o b \in Seq(S) /\ Len(a \o b) = Len(ws) - 1
  BY <1>1, <1>2, <1>3
<1>6. ASSUME NEW i \in 1 .. Len(ws) - 1 PROVE (a \o b)[i] = IF i < k THEN ws[i] ELSE ws[i + 1]
  <2>1. CASE i < k
    BY <1>1, <1>2, <1>3, <2>1
  <2>2. CASE ~(i < k)
    <3>0. i \in 1 .. Len(a) + Len(b) /\ ~(i <= Len(a)) /\ Len(a) = k - 1
      BY <1>1, <1>2, <1>3, <2>2
    <3>1. (a \o b)[i] = b[i - Len(a)]
      BY <1>2, <1>3, <3>0, ConcatProperties
    <3>2. i - (k - 1) \in 1 .. Len(ws) - k /\ k + (i - (k - 1)) = i + 1
      BY <1>1, <2>2
    <3> QED
      BY <1>2, <1>3, <2>2, <3>1, <3>2
  <2> QED
    BY <2>1, <2>2
<1> QED
  BY <1>4, <1>5, <1>6

\* The writes of p among ws, and where a write stood before the k-th was taken out.
Of(p, ws) == {i \in DOMAIN ws : ws[i].key = p}
Place(k, i) == IF i < k THEN i ELSE i + 1

\* Without the k-th the other writes are the same, in the same order.
LEMMA WithoutOneOf ==
  ASSUME NEW ws \in Seq(Write), NEW k \in DOMAIN ws, NEW p
  PROVE  LET r == Picker!RemoveAt(ws, k) IN
         /\ \A i \in Of(p, r) : Place(k, i) \in Of(p, ws) \ {k} /\ r[i] = ws[Place(k, i)]
         /\ \A m \in Of(p, ws) \ {k} : \E i \in Of(p, r) : Place(k, i) = m
         /\ \A i, j \in Of(p, r) : (Place(k, i) <= Place(k, j) <=> i <= j) /\ (Place(k, i) < Place(k, j) <=> i < j)
<1> DEFINE r == Picker!RemoveAt(ws, k)
<1>1. /\ DOMAIN r = 1 .. Len(ws) - 1 /\ Len(ws) \in Nat /\ k \in 1 .. Len(ws) /\ DOMAIN ws = 1 .. Len(ws)
      /\ \A i \in DOMAIN r : r[i] = ws[Place(k, i)]
  <2>1. DOMAIN r = 1 .. Len(ws) - 1
    BY WithoutOne
  <2>2. \A i \in 1 .. Len(ws) - 1 : r[i] = IF i < k THEN ws[i] ELSE ws[i + 1]
    BY WithoutOne
  <2> HIDE DEF r
  <2> QED
    BY <2>1, <2>2 DEF Place
<1> HIDE DEF r
<1>2. \A i \in Of(p, r) : Place(k, i) \in Of(p, ws) \ {k} /\ r[i] = ws[Place(k, i)]
  BY <1>1 DEF Place, Of
<1>3. ASSUME NEW m \in Of(p, ws) \ {k} PROVE \E i \in Of(p, r) : Place(k, i) = m
  <2>1. m \in 1 .. Len(ws) /\ m # k /\ ws[m].key = p
    BY <1>1 DEF Of
  <2>2. CASE m < k
    <3>1. m \in DOMAIN r /\ Place(k, m) = m
      BY <1>1, <2>1, <2>2 DEF Place
    <3>2. m \in Of(p, r)
      BY <1>1, <2>1, <3>1 DEF Of
    <3> QED
      BY <3>1, <3>2
  <2>3. CASE ~(m < k)
    <3>1. m - 1 \in DOMAIN r /\ Place(k, m - 1) = m
      BY <1>1, <2>1, <2>3 DEF Place
    <3>2. m - 1 \in Of(p, r)
      BY <1>1, <2>1, <3>1 DEF Of
    <3> QED
      BY <3>1, <3>2
  <2> QED
    BY <2>2, <2>3
<1>4. \A i, j \in Of(p, r) : (Place(k, i) <= Place(k, j) <=> i <= j) /\ (Place(k, i) < Place(k, j) <=> i < j)
  BY <1>1 DEF Place, Of
<1> QED
  BY <1>2, <1>3, <1>4 DEF r

\* A write of another provider leaves those of p as they were.
LEMMA OthersLeave ==
  ASSUME NEW ws \in Seq(Write), NEW k \in DOMAIN ws, NEW p, ws[k].key # p,
         NEW saved, NEW shown, Alternate(p, ws, saved, shown)
  PROVE  Alternate(p, Picker!RemoveAt(ws, k), saved, shown)
<1> DEFINE r == Picker!RemoveAt(ws, k)
<1>1. k \notin Of(p, ws)
  BY DEF Of
<1>2. /\ \A i \in Of(p, r) : Place(k, i) \in Of(p, ws) /\ r[i] = ws[Place(k, i)]
      /\ \A m \in Of(p, ws) : \E i \in Of(p, r) : Place(k, i) = m
      /\ \A i, j \in Of(p, r) : (Place(k, i) <= Place(k, j) <=> i <= j) /\ (Place(k, i) < Place(k, j) <=> i < j)
  BY <1>1, WithoutOneOf
<1> HIDE DEF r
<1>3. /\ \A m \in Of(p, ws) : (\A j \in Of(p, ws) : m <= j) => (ws[m].to <=> p \notin saved)
      /\ \A j, m \in Of(p, ws) : j < m /\ (\A i \in Of(p, ws) : i <= j \/ m <= i) => (ws[m].to <=> ~ws[j].to)
      /\ \A m \in Of(p, ws) : (\A j \in Of(p, ws) : j <= m) => (ws[m].to <=> p \in shown)
      /\ Of(p, ws) = {} => (p \in shown <=> p \in saved)
  BY DEF Alternate, Of
<1>4. ASSUME NEW m \in Of(p, r), \A j \in Of(p, r) : m <= j PROVE r[m].to <=> p \notin saved
  BY <1>2, <1>3, <1>4
<1>5. ASSUME NEW j \in Of(p, r), NEW m \in Of(p, r), j < m, \A i \in Of(p, r) : i <= j \/ m <= i
      PROVE  r[m].to <=> ~r[j].to
  BY <1>2, <1>3, <1>5
<1>6. ASSUME NEW m \in Of(p, r), \A j \in Of(p, r) : j <= m PROVE r[m].to <=> p \in shown
  BY <1>2, <1>3, <1>6
<1>7. Of(p, r) = {} => Of(p, ws) = {}
  BY <1>2
<1> QED
  BY <1>3, <1>4, <1>5, <1>6, <1>7 DEF Alternate, r, Of

\* The first write of p that is saved leaves the next one to undo it.
LEMMA FirstIsSaved ==
  ASSUME NEW ws \in Seq(Write), NEW k \in DOMAIN ws, NEW p, ws[k].key = p,
         \A j \in Of(p, ws) : k <= j,
         NEW saved, NEW shown, Alternate(p, ws, saved, shown),
         NEW now, p \in now <=> ws[k].to
  PROVE  Alternate(p, Picker!RemoveAt(ws, k), now, shown)
<1> DEFINE r == Picker!RemoveAt(ws, k)
<1>1. k \in Of(p, ws) /\ k \in Int /\ \A m \in Of(p, ws) : m \in Int
  BY DEF Of
<1>2. /\ \A i \in Of(p, r) : Place(k, i) \in Of(p, ws) \ {k} /\ r[i] = ws[Place(k, i)]
      /\ \A m \in Of(p, ws) \ {k} : \E i \in Of(p, r) : Place(k, i) = m
      /\ \A i, j \in Of(p, r) : (Place(k, i) <= Place(k, j) <=> i <= j) /\ (Place(k, i) < Place(k, j) <=> i < j)
  BY WithoutOneOf
<1> HIDE DEF r
<1>3. /\ \A j, m \in Of(p, ws) : j < m /\ (\A i \in Of(p, ws) : i <= j \/ m <= i) => (ws[m].to <=> ~ws[j].to)
      /\ \A m \in Of(p, ws) : (\A j \in Of(p, ws) : j <= m) => (ws[m].to <=> p \in shown)
  BY DEF Alternate, Of
<1>4. ASSUME NEW m \in Of(p, r), \A j \in Of(p, r) : m <= j PROVE r[m].to <=> p \notin now
  <2>1. Place(k, m) \in Of(p, ws) /\ k < Place(k, m) /\ r[m] = ws[Place(k, m)]
    BY <1>1, <1>2
  <2>2. \A i \in Of(p, ws) : i <= k \/ Place(k, m) <= i
    BY <1>1, <1>2, <1>4
  <2>3. ws[Place(k, m)].to <=> ~ws[k].to
    BY <1>1, <1>3, <2>1, <2>2
  <2> QED
    BY <2>1, <2>3
<1>5. ASSUME NEW j \in Of(p, r), NEW m \in Of(p, r), j < m, \A i \in Of(p, r) : i <= j \/ m <= i
      PROVE  r[m].to <=> ~r[j].to
  <2>1. /\ Place(k, j) \in Of(p, ws) /\ r[j] = ws[Place(k, j)]
        /\ Place(k, m) \in Of(p, ws) /\ r[m] = ws[Place(k, m)]
        /\ Place(k, j) < Place(k, m)
    BY <1>2, <1>5
  <2>2. \A i \in Of(p, ws) : i <= Place(k, j) \/ Place(k, m) <= i
    BY <1>1, <1>2, <1>5, <2>1
  <2> QED
    BY <1>3, <2>1, <2>2
<1>6. ASSUME NEW m \in Of(p, r), \A j \in Of(p, r) : j <= m PROVE r[m].to <=> p \in shown
  <2>1. Place(k, m) \in Of(p, ws) /\ r[m] = ws[Place(k, m)]
    BY <1>2
  <2>2. \A i \in Of(p, ws) : i <= Place(k, m)
    BY <1>1, <1>2, <1>6, <2>1
  <2> QED
    BY <1>3, <2>1, <2>2
<1>7. Of(p, r) = {} => (p \in shown <=> p \in now)
  <2> HAVE Of(p, r) = {}
  <2>1. \A j \in Of(p, ws) : j <= k
    BY <1>1, <1>2
  <2> QED
    BY <1>1, <1>3, <2>1
<1> QED
  BY <1>4, <1>5, <1>6, <1>7 DEF Alternate, r, Of

\* The only write of p that fails leaves what is on disk, which is shown again.
LEMMA OnlyFails ==
  ASSUME NEW ws \in Seq(Write), NEW k \in DOMAIN ws, NEW p, ws[k].key = p,
         \A j \in Of(p, ws) : j = k,
         NEW saved, NEW shown, Alternate(p, ws, saved, shown),
         NEW back, p \in back <=> ~ws[k].to
  PROVE  Alternate(p, Picker!RemoveAt(ws, k), saved, back)
<1> DEFINE r == Picker!RemoveAt(ws, k)
<1>1. Of(p, r) = {}
  BY WithoutOneOf
<1> HIDE DEF r
<1>2. k \in Of(p, ws) /\ \A j \in Of(p, ws) : k <= j
  BY DEF Of
<1>3. ws[k].to <=> p \notin saved
  BY <1>2 DEF Alternate, Of
<1> QED
  BY <1>1, <1>3 DEF Alternate, r, Of

\* A toggle adds a write that undoes what is shown.
LEMMA ToggleIsAdded ==
  ASSUME NEW ws \in Seq(Write), NEW q \in Write, NEW p,
         NEW saved, NEW shown, Alternate(p, ws, saved, shown),
         NEW next, q.key = p => (q.to <=> p \notin shown) /\ (p \in next <=> q.to),
         q.key # p => (p \in next <=> p \in shown)
  PROVE  Alternate(p, Append(ws, q), saved, next)
<1> DEFINE r == Append(ws, q)
           n == Len(ws) + 1
<1>1. /\ DOMAIN ws = 1 .. Len(ws) /\ Len(ws) \in Nat /\ DOMAIN r = 1 .. n /\ r[n] = q
      /\ \A i \in 1 .. Len(ws) : r[i] = ws[i]
  OBVIOUS
<1>2. \A i \in Of(p, ws) : i \in Int /\ i < n /\ r[i] = ws[i]
  BY <1>1 DEF Of
<1>3. Of(p, r) = Of(p, ws) \cup (IF q.key = p THEN {n} ELSE {})
  BY <1>1 DEF Of
<1>4. n \in Int
  BY <1>1
<1>5. r[n] = q
  BY <1>1
<1> HIDE DEF r, n
<1>6. /\ \A m \in Of(p, ws) : (\A j \in Of(p, ws) : m <= j) => (ws[m].to <=> p \notin saved)
      /\ \A j, m \in Of(p, ws) : j < m /\ (\A i \in Of(p, ws) : i <= j \/ m <= i) => (ws[m].to <=> ~ws[j].to)
      /\ \A m \in Of(p, ws) : (\A j \in Of(p, ws) : j <= m) => (ws[m].to <=> p \in shown)
      /\ Of(p, ws) = {} => (p \in shown <=> p \in saved)
  BY DEF Alternate, Of
<1>7. CASE q.key # p
  <2>1. Of(p, r) = Of(p, ws)
    BY <1>3, <1>7
  <2> QED
    BY <1>2, <1>6, <1>7, <2>1 DEF Alternate, Of, r
<1>8. CASE q.key = p
  <2>1. Of(p, r) = Of(p, ws) \cup {n} /\ (q.to <=> p \notin shown) /\ (p \in next <=> q.to)
    BY <1>3, <1>8
  <2>2. ASSUME NEW m \in Of(p, r), \A j \in Of(p, r) : m <= j PROVE r[m].to <=> p \notin saved
    <3>1. CASE m \in Of(p, ws)
      BY <1>2, <1>6, <2>1, <2>2, <3>1
    <3>2. CASE m = n
      <4>1. ASSUME NEW j \in Of(p, ws) PROVE FALSE
        <5>1. m <= j
          BY <2>1, <2>2
        <5>2. j \in Int /\ j < n
          BY <1>2
        <5> QED
          BY <1>4, <3>2, <5>1, <5>2
      <4> QED
        BY <1>5, <1>6, <2>1, <3>2, <4>1
    <3> QED
      BY <2>1, <3>1, <3>2
  <2>3. ASSUME NEW j \in Of(p, r), NEW m \in Of(p, r), j < m, \A i \in Of(p, r) : i <= j \/ m <= i
        PROVE  r[m].to <=> ~r[j].to
    <3>1. j \in Of(p, ws)
      BY <1>2, <1>4, <2>1, <2>3
    <3>2. CASE m \in Of(p, ws)
      BY <1>2, <1>6, <2>1, <2>3, <3>1, <3>2
    <3>3. CASE m = n
      <4>1. \A i \in Of(p, ws) : i <= j
        BY <1>2, <1>4, <2>1, <2>3, <3>3
      <4> QED
        BY <1>2, <1>5, <1>6, <2>1, <3>1, <3>3, <4>1
    <3> QED
      BY <2>1, <3>2, <3>3
  <2>4. ASSUME NEW m \in Of(p, r), \A j \in Of(p, r) : j <= m PROVE r[m].to <=> p \in next
    <3>1. m = n
      BY <1>2, <1>4, <2>1, <2>4
    <3> QED
      BY <1>5, <2>1, <3>1
  <2>5. Of(p, r) # {}
    BY <2>1
  <2> QED
    BY <2>2, <2>3, <2>4, <2>5 DEF Alternate, Of, r
<1> QED
  BY <1>7, <1>8
\* What is said of p does not depend on the other providers.
LEMMA OnlyOf ==
  ASSUME NEW p, NEW ws, NEW saved, NEW shown, Alternate(p, ws, saved, shown),
         NEW now, p \in now <=> p \in saved, NEW next, p \in next <=> p \in shown
  PROVE  Alternate(p, ws, now, next)
BY DEF Alternate

-----------------------------------------------------------------------------
\* Before a picker is opened nothing is known.
LEMMA PickerInit ==
  ASSUME Initial \subseteq Picker!Providers
  PROVE  Picker!Init => PickerInv
BY DEF Picker!Init, PickerInv, PickerTypes, PinsFollow, Known

\* A write that is over, saved or not, is of a provider and of a picker; the others are left.
LEMMA WriteIsOver ==
  ASSUME PickerTypes, NEW k \in DOMAIN writes
  PROVE  /\ writes[k] \in Write /\ Picker!RemoveAt(writes, k) \in Seq(Write)
         /\ \A i \in DOMAIN Picker!RemoveAt(writes, k) : \E j \in DOMAIN writes : Picker!RemoveAt(writes, k)[i] = writes[j]
<1> DEFINE r == Picker!RemoveAt(writes, k)
<1>0. writes \in Seq(Write)
  BY DEF PickerTypes
<1>1. r \in Seq(Write) /\ DOMAIN r = 1 .. Len(writes) - 1
  BY <1>0, WithoutOne
<1>2. \A i \in 1 .. Len(writes) - 1 : r[i] = IF i < k THEN writes[i] ELSE writes[i + 1]
  BY <1>0, WithoutOne
<1> HIDE DEF r
<1>3. Len(writes) \in Nat /\ DOMAIN writes = 1 .. Len(writes) /\ k \in Int
  BY <1>0
<1>4. ASSUME NEW i \in DOMAIN r PROVE \E j \in DOMAIN writes : r[i] = writes[j]
  <2>1. i \in DOMAIN writes /\ i + 1 \in DOMAIN writes
    BY <1>1, <1>3
  <2> QED
    BY <1>1, <1>2, <2>1
<1>5. writes[k] \in Write
  BY <1>0
<1> QED
  BY <1>1, <1>4, <1>5 DEF r

\* The write that is carried out is the first of its provider, when the picker that
\* is open knows it.
LEMMA NextIsFirst ==
  ASSUME PickerInv, NEW k \in Picker!NextWrites, NEW p, Known(p), writes[k].key = p
  PROVE  /\ writes[k].picker = opens
         /\ \A j \in Of(p, writes) : k <= j
<1>1. /\ k \in DOMAIN writes /\ \A j \in 1 .. k - 1 : writes[j].picker # writes[k].picker
      /\ writes \in Seq(Write)
      /\ \A j \in DOMAIN writes : writes[j].key = p => writes[j].picker = opens
  BY DEF Picker!NextWrites, PickerInv, PickerTypes, PinsFollow
<1>2. writes[k].picker = opens
  BY <1>1
<1>3. ASSUME NEW j \in Of(p, writes) PROVE k <= j
  <2>1. j \in 1 .. Len(writes) /\ k \in 1 .. Len(writes) /\ Len(writes) \in Nat
    BY <1>1 DEF Of
  <2>2. writes[j].picker = opens
    BY <1>1 DEF Of
  <2>3. ~(j \in 1 .. k - 1)
    BY <1>1, <1>2, <2>2
  <2> QED
    BY <2>1, <2>3
<1> QED
  BY <1>2, <1>3

\* The pins are read: what is shown is what is saved, and a provider that an earlier
\* picker still writes is not one of which everything is known.
LEMMA LoadedShowsSaved ==
  ASSUME Initial \subseteq Picker!Providers, "absent" \notin Picker!Providers,
         PickerInv, NEW readable \in BOOLEAN, NEW q \in BOOLEAN, Picker!Loaded(readable, q)
  PROVE  PickerInv'
<1>1. CASE ~readable
  BY <1>1 DEF Picker!Loaded, Picker!counters, PickerInv, PickerTypes, PinsFollow, Known
<1>2. CASE readable
  <2>1. /\ disk' = (IF disk = Picker!Absent THEN Initial ELSE disk) /\ pins' = disk' /\ picker' = "open"
        /\ tainted' = {writes[k].key : k \in DOMAIN writes}
        /\ writes' = writes /\ opens' = opens
    BY <1>2 DEF Picker!Loaded, Picker!counters
  <2>2. disk' \subseteq Picker!Providers /\ disk' # Picker!Absent'
    BY <2>1 DEF PickerInv, PickerTypes, Picker!Absent
  <2>3. ASSUME NEW p, Known(p)' PROVE \A k \in DOMAIN writes' : writes'[k].key # p
    BY <2>1, <2>3 DEF Known
  <2>4. ASSUME NEW p, Known(p)' PROVE Alternate(p, writes', disk', pins')
    BY <2>1, <2>3, <2>4 DEF Alternate
  <2> QED
    BY <2>1, <2>2, <2>3, <2>4 DEF PickerInv, PickerTypes, PinsFollow
<1> QED
  BY <1>1, <1>2

\* A toggle is shown, and written after what is already to be written.
LEMMA ToggleFollows ==
  ASSUME PickerInv, NEW n \in Picker!Providers, Picker!TogglePin(n)
  PROVE  PickerInv'
<1> DEFINE q == [key |-> n, to |-> n \notin pins, picker |-> opens]
<1>1. /\ writes' = Append(writes, q) /\ pins' = (IF n \notin pins THEN pins \cup {n} ELSE pins \ {n})
      /\ picker' = picker /\ opens' = opens /\ disk' = disk /\ tainted' = tainted /\ foreign' = foreign
  BY DEF Picker!TogglePin, Picker!SetPinned
<1>2. q \in Write /\ writes \in Seq(Write)
  BY DEF PickerInv, PickerTypes, Write
<1>3. q.key = n /\ (q.to <=> n \notin pins) /\ q.picker = opens
  OBVIOUS
<1> HIDE DEF q
<1>4. PickerTypes'
  BY <1>1, <1>2 DEF PickerInv, PickerTypes
<1>5. ASSUME NEW p, Known(p)'
      PROVE  /\ disk' # Picker!Absent'
             /\ \A k \in DOMAIN writes' : writes'[k].key = p => writes'[k].picker = opens'
             /\ Alternate(p, writes', disk', pins')
  <2>1. Known(p)
    BY <1>1, <1>5 DEF Known
  <2>2. /\ disk # Picker!Absent /\ \A k \in DOMAIN writes : writes[k].key = p => writes[k].picker = opens
        /\ Alternate(p, writes, disk, pins)
    BY <2>1 DEF PickerInv, PinsFollow
  <2>3. q.key = p => (q.to <=> p \notin pins) /\ (p \in pins' <=> q.to)
    BY <1>1, <1>3
  <2>4. q.key # p => (p \in pins' <=> p \in pins)
    BY <1>1, <1>3
  <2>5. Alternate(p, Append(writes, q), disk, pins')
    BY <1>2, <2>2, <2>3, <2>4, ToggleIsAdded
  <2>6. \A k \in DOMAIN Append(writes, q) : Append(writes, q)[k].key = p => Append(writes, q)[k].picker = opens
    <3>1. ASSUME NEW k \in DOMAIN Append(writes, q) PROVE Append(writes, q)[k] = q \/ (k \in DOMAIN writes /\ Append(writes, q)[k] = writes[k])
      BY <1>2
    <3> QED
      BY <1>3, <2>2, <3>1
  <2> QED
    BY <1>1, <2>2, <2>5, <2>6 DEF Picker!Absent
<1> QED
  BY <1>4, <1>5 DEF PickerInv, PinsFollow

\* A pin that is written is what the next write of that provider undoes.
LEMMA WrittenFollows ==
  ASSUME "absent" \notin Picker!Providers, PickerInv, NEW k \in DOMAIN writes, Picker!PinWritten(k)
  PROVE  PickerInv'
<1> DEFINE r == Picker!RemoveAt(writes, k)
           saved == IF disk = Picker!Absent THEN {} ELSE disk
<1>1. /\ k \in Picker!NextWrites /\ writes' = r
      /\ disk' = (IF writes[k].to THEN saved \cup {writes[k].key} ELSE saved \ {writes[k].key})
      /\ picker' = picker /\ opens' = opens /\ pins' = pins /\ tainted' = tainted /\ foreign' = foreign
  BY DEF Picker!PinWritten, Picker!counters
<1>2. /\ writes[k] \in Write /\ r \in Seq(Write) /\ writes \in Seq(Write)
      /\ \A i \in DOMAIN r : \E j \in DOMAIN writes : r[i] = writes[j]
  BY WriteIsOver DEF PickerInv, PickerTypes
<1> HIDE DEF r
<1>3. writes[k].key \in Picker!Providers /\ saved \subseteq Picker!Providers
  BY <1>2 DEF Write, PickerInv, PickerTypes
<1> HIDE DEF saved
<1>4. disk' \subseteq Picker!Providers /\ disk' # Picker!Absent
  <2>1. disk' \subseteq Picker!Providers
    BY <1>1, <1>3
  <2> QED
    BY <2>1 DEF Picker!Absent
<1>5. PickerTypes'
  BY <1>1, <1>2, <1>4 DEF PickerInv, PickerTypes, Picker!Absent
<1>6. ASSUME NEW p, Known(p)'
      PROVE  /\ \A i \in DOMAIN writes' : writes'[i].key = p => writes'[i].picker = opens'
             /\ Alternate(p, writes', disk', pins')
  <2>1. Known(p)
    BY <1>1, <1>6 DEF Known
  <2>2. /\ disk # Picker!Absent /\ \A i \in DOMAIN writes : writes[i].key = p => writes[i].picker = opens
        /\ Alternate(p, writes, disk, pins)
    BY <2>1 DEF PickerInv, PinsFollow
  <2>3. \A i \in DOMAIN r : r[i].key = p => r[i].picker = opens
    BY <1>2, <2>2
  <2>4. Alternate(p, r, disk', pins)
    <3>1. CASE writes[k].key = p
      <4>1. \A j \in Of(p, writes) : k <= j
        BY <1>1, <2>1, <3>1, NextIsFirst
      <4>2. p \in disk' <=> writes[k].to
        BY <1>1, <3>1
      <4> QED
        BY <1>2, <2>2, <3>1, <4>1, <4>2, FirstIsSaved DEF r
    <3>2. CASE writes[k].key # p
      <4>1. Alternate(p, r, disk, pins)
        BY <1>2, <2>2, <3>2, OthersLeave DEF r
      <4>2. p \in disk' <=> p \in disk
        BY <1>1, <2>2, <3>2 DEF saved
      <4> QED
        BY <4>1, <4>2, OnlyOf
    <3> QED
      BY <3>1, <3>2
  <2> QED
    BY <1>1, <2>3, <2>4
<1> QED
  BY <1>1, <1>4, <1>5, <1>6 DEF PickerInv, PinsFollow, Picker!Absent

\* A pin that cannot be written is taken back, which is right when no later write of
\* that provider waits.
LEMMA FailureFollows ==
  ASSUME PickerInv, NEW k \in DOMAIN writes, Picker!PinFails(k)
  PROVE  PickerInv'
<1> DEFINE r == Picker!RemoveAt(writes, k)
<1>1. /\ k \in Picker!NextWrites /\ writes' = r
      /\ picker' = picker /\ opens' = opens /\ disk' = disk /\ foreign' = foreign
  BY DEF Picker!PinFails, Picker!counters
<1>2. IF picker = "open" /\ writes[k].picker = opens
      THEN /\ pins' = (IF ~writes[k].to THEN pins \cup {writes[k].key} ELSE pins \ {writes[k].key})
           /\ tainted' = (IF \E j \in DOMAIN writes : j > k /\ writes[j].key = writes[k].key
                          THEN tainted \cup {writes[k].key} ELSE tainted)
      ELSE pins' = pins /\ tainted' = tainted
  BY DEF Picker!PinFails, Picker!SetPinned
<1>3. /\ writes[k] \in Write /\ r \in Seq(Write) /\ writes \in Seq(Write)
      /\ \A i \in DOMAIN r : \E j \in DOMAIN writes : r[i] = writes[j]
  BY WriteIsOver DEF PickerInv, PickerTypes
<1> HIDE DEF r
<1>4. writes[k].key \in Picker!Providers
  BY <1>3 DEF Write
<1>5. PickerTypes'
  BY <1>1, <1>2, <1>3, <1>4 DEF PickerInv, PickerTypes, Picker!Absent
<1>6. ASSUME NEW p, Known(p)'
      PROVE  /\ disk' # Picker!Absent
             /\ \A i \in DOMAIN writes' : writes'[i].key = p => writes'[i].picker = opens'
             /\ Alternate(p, writes', disk', pins')
  <2>1. Known(p) /\ picker = "open" /\ p \notin tainted'
    BY <1>1, <1>2, <1>6 DEF Known
  <2>2. /\ disk # Picker!Absent /\ \A i \in DOMAIN writes : writes[i].key = p => writes[i].picker = opens
        /\ Alternate(p, writes, disk, pins)
    BY <2>1 DEF PickerInv, PinsFollow
  <2>3. \A i \in DOMAIN r : r[i].key = p => r[i].picker = opens
    BY <1>3, <2>2
  <2>4. Alternate(p, r, disk, pins')
    <3>1. CASE writes[k].key = p
      <4>1. writes[k].picker = opens /\ \A j \in Of(p, writes) : k <= j
        BY <1>1, <2>1, <3>1, NextIsFirst
      <4>2. ~\E j \in DOMAIN writes : j > k /\ writes[j].key = p
        BY <1>2, <2>1, <3>1, <4>1
      <4>3. \A j \in Of(p, writes) : j = k
        <5> TAKE j \in Of(p, writes)
        <5>1. j \in DOMAIN writes /\ writes[j].key = p /\ j \in Int /\ k \in Int
          BY <1>3 DEF Of
        <5>2. k <= j /\ ~(j > k)
          BY <4>1, <4>2, <5>1
        <5> QED
          BY <5>1, <5>2
      <4>4. p \in pins' <=> ~writes[k].to
        BY <1>2, <2>1, <3>1, <4>1
      <4> QED
        BY <1>3, <2>2, <3>1, <4>3, <4>4, OnlyFails DEF r
    <3>2. CASE writes[k].key # p
      <4>1. Alternate(p, r, disk, pins)
        BY <1>3, <2>2, <3>2, OthersLeave DEF r
      <4>2. p \in pins' <=> p \in pins
        BY <1>2, <3>2
      <4> QED
        BY <4>1, <4>2, OnlyOf
    <3> QED
      BY <3>1, <3>2
  <2> QED
    BY <1>1, <2>2, <2>3, <2>4
<1> QED
  BY <1>5, <1>6 DEF PickerInv, PinsFollow, Picker!Absent

\* What another process writes is no longer known.
LEMMA OtherIsForeign ==
  ASSUME "absent" \notin Picker!Providers, PickerInv, NEW n \in Picker!Providers, Picker!OtherWrites(n)
  PROVE  PickerInv'
<1>1. /\ disk # Picker!Absent /\ disk' = (IF n \in disk THEN disk \ {n} ELSE disk \cup {n})
      /\ foreign' = foreign \cup {n}
      /\ picker' = picker /\ opens' = opens /\ pins' = pins /\ tainted' = tainted /\ writes' = writes
  BY DEF Picker!OtherWrites
<1>2. disk' \subseteq Picker!Providers /\ disk' # Picker!Absent
  <2>1. disk \subseteq Picker!Providers
    BY <1>1 DEF PickerInv, PickerTypes
  <2>2. disk' \subseteq Picker!Providers
    BY <1>1, <2>1
  <2> QED
    BY <2>2 DEF Picker!Absent
<1>3. ASSUME NEW p, Known(p)'
      PROVE  /\ \A i \in DOMAIN writes' : writes'[i].key = p => writes'[i].picker = opens'
             /\ Alternate(p, writes', disk', pins')
  <2>1. Known(p) /\ (p \in disk' <=> p \in disk)
    BY <1>1, <1>3 DEF Known
  <2>2. /\ \A i \in DOMAIN writes : writes[i].key = p => writes[i].picker = opens
        /\ Alternate(p, writes, disk, pins)
    BY <2>1 DEF PickerInv, PinsFollow
  <2>3. Alternate(p, writes, disk', pins)
    BY <2>1, <2>2, OnlyOf
  <2> QED
    BY <1>1, <2>2, <2>3
<1> QED
  BY <1>1, <1>2, <1>3 DEF PickerInv, PickerTypes, PinsFollow, Picker!Absent

\* The other steps leave the pins, and open no picker.
LEMMA OthersLeavePins ==
  ASSUME PickerInv, Picker!pin' = Picker!pin,
         \/ picker' = picker /\ opens' = opens
         \/ picker' \in {"closed", "loading", "login"} /\ opens' \in Nat
  PROVE  PickerInv'
BY DEF PickerInv, PickerTypes, PinsFollow, Known, Picker!pin, Picker!Absent

\* Every step keeps the invariant.
LEMMA PickerStep ==
  ASSUME Initial \subseteq Picker!Providers, "absent" \notin Picker!Providers, PickerInv, [Picker!Next]_(Picker!vars)
  PROVE  PickerInv'
<1>0. opens \in Nat
  BY DEF PickerInv, PickerTypes
<1>1. CASE Picker!Open \/ Picker!LoginEnds
  BY <1>0, <1>1, OthersLeavePins DEF Picker!Open, Picker!LoginEnds
<1>2. CASE \E q \in BOOLEAN : Picker!Loaded(TRUE, q) \/ Picker!Loaded(FALSE, q)
  BY <1>2, LoadedShowsSaved
<1>3. CASE \E p \in Picker!Providers : Picker!TogglePin(p) \/ Picker!OtherWrites(p)
  BY <1>3, ToggleFollows, OtherIsForeign
<1>4. CASE \E k \in DOMAIN writes : Picker!PinWritten(k) \/ Picker!PinFails(k)
  BY <1>4, WrittenFollows, FailureFollows
<1>5. CASE \/ \E providers \in BOOLEAN, d \in {1, -1} : Picker!Move(providers, d)
           \/ \E d \in {1, -1} : Picker!Cycle(d)
           \/ Picker!Browse \/ \E i \in 0 .. Len(Names) : Picker!PickProvider(i)
           \/ \E q \in BOOLEAN : Picker!Type(q)
           \/ \E k \in DOMAIN Catalogue : Picker!PickModel(k - 1)
  <2>1. Picker!pin' = Picker!pin /\ picker' = picker /\ opens' = opens
    BY <1>5 DEF Picker!Move, Picker!Cycle, Picker!Browse, Picker!PickProvider, Picker!Type, Picker!PickModel, Picker!counters
  <2> QED
    BY <2>1, OthersLeavePins
<1>6. CASE Picker!Cancel \/ Picker!Connect
  <2>1. Picker!pin' = Picker!pin /\ picker' \in {"closed", "login"} /\ opens' = opens
    BY <1>6 DEF Picker!Cancel, Picker!Connect, Picker!Done, Picker!counters
  <2> QED
    BY <1>0, <2>1, OthersLeavePins
<1>7. CASE \E i \in BOOLEAN : Picker!Enter(i)
  <2>1. Picker!pin' = Picker!pin /\ opens' = opens /\ (picker' = picker \/ picker' = "closed")
    BY <1>7 DEF Picker!Enter
  <2> QED
    BY <1>0, <2>1, OthersLeavePins
<1>8. CASE \E f \in flight : Picker!Chosen(f) \/ Picker!NotChosen(f)
  <2>1. Picker!pin' = Picker!pin /\ opens' = opens /\ (picker' = picker \/ picker' = "closed")
    BY <1>8 DEF Picker!Chosen, Picker!NotChosen, Picker!counters
  <2> QED
    BY <1>0, <2>1, OthersLeavePins
<1>9. CASE UNCHANGED Picker!vars
  <2>1. Picker!pin' = Picker!pin /\ opens' = opens /\ picker' = picker
    BY <1>9 DEF Picker!vars, Picker!counters
  <2> QED
    BY <2>1, OthersLeavePins
<1> QED
  BY <1>1, <1>2, <1>3, <1>4, <1>5, <1>6, <1>7, <1>8, <1>9 DEF Picker!Next

-----------------------------------------------------------------------------
(* ModelPicker: the list *)

\* The picker counts as everyone does.
LEMMA SameCardinality == ASSUME NEW S PROVE Picker!Cardinality(S) = Cardinality(S)
BY DEF Picker!Cardinality, Cardinality

\* The providers, one for each name.
LEMMA ProvidersAre ==
  /\ Len(Names) \in Nat /\ Picker!Providers = {Names[k] : k \in 1 .. Len(Names)}
  /\ IsFiniteSet(Picker!Providers) /\ Cardinality(Picker!Providers) = Len(Names)
  /\ "all" \notin Picker!Providers /\ "absent" \notin Picker!Providers
  /\ Initial \subseteq Picker!Providers
<1> DEFINE N == Len(Names)
           f == [k \in 1 .. N |-> Names[k]]
<1>1. /\ Names \in Seq(Picker!Providers) /\ \A i, j \in DOMAIN Names : Names[i] = Names[j] => i = j
      /\ {"all", "absent"} \cap Picker!Providers = {} /\ Initial \subseteq Picker!Providers
  BY PickerAssumption DEF Picker!NamesAssumption
<1>2. N \in Nat /\ DOMAIN Names = 1 .. N
  BY <1>1, LenProperties
<1>3. Picker!Providers = {Names[k] : k \in 1 .. N}
  BY <1>2 DEF Picker!Providers
<1> HIDE DEF N
<1>4. f \in Bijection(1 .. N, Picker!Providers)
  BY <1>1, <1>2, <1>3 DEF Bijection, Injection, Surjection, IsInjective
<1> HIDE DEF f
<1>5. IsFiniteSet(1 .. N) /\ Cardinality(1 .. N) = N
  BY <1>2, FS_Interval
<1>6. ExistsBijection(1 .. N, Picker!Providers)
  BY <1>4 DEF ExistsBijection
<1>7. IsFiniteSet(Picker!Providers) /\ Cardinality(Picker!Providers) = N
  BY <1>5, <1>6, FS_Bijection
<1> QED
  BY <1>1, <1>2, <1>3, <1>7 DEF N

\* How many they are.
LEMMA NamesAreMany == Len(Names) \in Nat
BY ProvidersAre

\* They are finitely many.
LEMMA ProvidersAreMany ==
  /\ IsFiniteSet(Picker!Providers) /\ Cardinality(Picker!Providers) = Len(Names)
  /\ "all" \notin Picker!Providers
BY ProvidersAre

\* A provider has its place in the alphabet to itself.
LEMMA AlphabeticalIs ==
  ASSUME NEW p \in Picker!Providers
  PROVE  Picker!Alphabetical(p) \in Nat /\ Names[Picker!Alphabetical(p)] = p
<1>1. \E k \in DOMAIN Names : Names[k] = p
  BY DEF Picker!Providers
<1>2. Picker!Alphabetical(p) \in DOMAIN Names /\ Names[Picker!Alphabetical(p)] = p
  BY <1>1 DEF Picker!Alphabetical
<1>3. Names \in Seq(Picker!Providers)
  BY PickerAssumption DEF Picker!NamesAssumption
<1>4. DOMAIN Names = 1 .. Len(Names)
  BY <1>3, LenProperties
<1> QED
  BY <1>2, <1>4

\* Whatever is pinned, the comparison sorts: it is a total order.
LEMMA PrecedesIsOrder ==
  ASSUME NEW P, NEW p \in Picker!Providers, NEW q \in Picker!Providers, NEW r \in Picker!Providers
  PROVE  /\ ~Picker!Precedes(P, p, p)
         /\ Picker!Precedes(P, p, q) /\ Picker!Precedes(P, q, r) => Picker!Precedes(P, p, r)
         /\ p # q => Picker!Precedes(P, p, q) \/ Picker!Precedes(P, q, p)
<1>1. /\ Picker!Alphabetical(p) \in Nat /\ Picker!Alphabetical(q) \in Nat /\ Picker!Alphabetical(r) \in Nat
      /\ Picker!Alphabetical(p) = Picker!Alphabetical(q) => p = q
  BY AlphabeticalIs
<1> QED
  BY <1>1 DEF Picker!Precedes

\* So every provider has its own place in the list, and every place its provider.
LEMMA PlacesAreTaken ==
  ASSUME NEW P
  PROVE  /\ \A p \in Picker!Providers : /\ Picker!IndexOf(P, p) \in 1 .. Len(Names)
                                        /\ Picker!ProviderAt(P, Picker!IndexOf(P, p)) = p
         /\ \A i \in 1 .. Len(Names) : /\ Picker!ProviderAt(P, i) \in Picker!Providers
                                       /\ Picker!IndexOf(P, Picker!ProviderAt(P, i)) = i
<1>a. \A p \in Picker!Providers : p # "all"
  BY ProvidersAreMany
<1>b. \A p \in Picker!Providers :
         Picker!IndexOf(P, p) = 1 + Cardinality({q \in Picker!Providers : Picker!Precedes(P, q, p)})
  <2> TAKE p \in Picker!Providers
  <2> QED
    BY <1>a, SameCardinality DEF Picker!IndexOf
<1> DEFINE N == Len(Names)
           S == Picker!Providers
           Before(p) == {q \in S : Picker!Precedes(P, q, p)}
           f == [p \in S |-> Picker!IndexOf(P, p)]
<1>1. N \in Nat /\ IsFiniteSet(S) /\ Cardinality(S) = N /\ "all" \notin S
  BY NamesAreMany, ProvidersAreMany
<1>2. \A p \in S : Picker!IndexOf(P, p) = 1 + Cardinality(Before(p))
  BY <1>b
<1>3. \A p \in S : Before(p) \in SUBSET S /\ p \notin Before(p)
  BY PrecedesIsOrder
<1>4. \A p, q \in S : Picker!Precedes(P, p, q) => Before(p) \in SUBSET Before(q) /\ p \in Before(q)
  BY PrecedesIsOrder
<1>5. \A p, q \in S : p # q => Picker!Precedes(P, p, q) \/ Picker!Precedes(P, q, p)
  BY PrecedesIsOrder
<1> HIDE DEF N, S, Before
<1>6. ASSUME NEW p \in S
      PROVE  IsFiniteSet(Before(p)) /\ Cardinality(Before(p)) \in Nat /\ Cardinality(Before(p)) < N
  <2>1. IsFiniteSet(Before(p)) /\ Cardinality(Before(p)) <= N /\ Cardinality(Before(p)) # N
    BY <1>1, <1>3, FS_Subset
  <2>2. Cardinality(Before(p)) \in Nat
    BY <2>1, FS_CardinalityType
  <2> QED
    BY <1>1, <2>1, <2>2
<1>7. ASSUME NEW p \in S, NEW q \in S, Picker!Precedes(P, p, q)
      PROVE  Cardinality(Before(p)) # Cardinality(Before(q))
  <2>1. IsFiniteSet(Before(q)) /\ Before(p) \in SUBSET Before(q) /\ Before(p) # Before(q)
    BY <1>3, <1>4, <1>6, <1>7
  <2> QED
    BY <2>1, FS_Subset
<1>8. \A p \in S : Picker!IndexOf(P, p) \in 1 .. N
  BY <1>1, <1>2, <1>6
<1>9. ASSUME NEW p \in S, NEW q \in S, Picker!IndexOf(P, p) = Picker!IndexOf(P, q) PROVE p = q
  <2>1. Cardinality(Before(p)) = Cardinality(Before(q))
    BY <1>2, <1>6, <1>9
  <2> QED
    BY <1>5, <1>7, <2>1
<1>10. f \in Injection(S, 1 .. N)
  BY <1>8, <1>9 DEF Injection, IsInjective
<1>11. IsFiniteSet(1 .. N) /\ Cardinality(1 .. N) = N
  BY <1>1, FS_Interval
<1>12. f \in Surjection(S, 1 .. N)
  <2> HIDE DEF f
  <2> QED
    BY <1>1, <1>10, <1>11, FS_Injection
<1>13. \A i \in 1 .. N : \E p \in S : Picker!IndexOf(P, p) = i
  BY <1>12 DEF Surjection
<1>14. \A i \in 1 .. N : Picker!ProviderAt(P, i) = CHOOSE p \in S : Picker!IndexOf(P, p) = i
  BY <1>1 DEF Picker!ProviderAt, S
<1>15. \A i \in 1 .. N : Picker!ProviderAt(P, i) \in S /\ Picker!IndexOf(P, Picker!ProviderAt(P, i)) = i
  BY <1>13, <1>14
<1>16. \A p \in S : Picker!ProviderAt(P, Picker!IndexOf(P, p)) = p
  BY <1>8, <1>9, <1>15
<1> QED
  BY <1>8, <1>15, <1>16 DEF N, S

\* What setPinned does: the provider that is marked stays marked in the list as it is
\* sorted afterwards, and all of them stay all of them.
LEMMA MarkStays ==
  ASSUME NEW P, NEW Q, NEW i \in 0 .. Len(Names)
  PROVE  /\ Picker!IndexOf(Q, Picker!ProviderAt(P, i)) \in 0 .. Len(Names)
         /\ Picker!ProviderAt(Q, Picker!IndexOf(Q, Picker!ProviderAt(P, i))) = Picker!ProviderAt(P, i)
<1>0. Len(Names) \in Nat
  BY NamesAreMany
<1>1. CASE i = 0
  <2>1. Picker!ProviderAt(P, i) = "all" /\ Picker!IndexOf(Q, "all") = 0 /\ Picker!ProviderAt(Q, 0) = "all"
    BY <1>1 DEF Picker!ProviderAt, Picker!IndexOf
  <2> QED
    BY <1>0, <2>1
<1>2. CASE i # 0
  <2>1. i \in 1 .. Len(Names)
    BY <1>0, <1>2
  <2>2. Picker!ProviderAt(P, i) \in Picker!Providers
    BY <2>1, PlacesAreTaken
  <2> HIDE DEF Picker!Providers
  <2>3. /\ Picker!IndexOf(Q, Picker!ProviderAt(P, i)) \in 1 .. Len(Names)
        /\ Picker!ProviderAt(Q, Picker!IndexOf(Q, Picker!ProviderAt(P, i))) = Picker!ProviderAt(P, i)
    BY <2>2, PlacesAreTaken
  <2> QED
    BY <1>0, <2>3
<1> QED
  BY <1>1, <1>2

\* The list has a number of models, and one that is not empty has a first.
LEMMA FilteredIsFinite ==
  ASSUME NEW p, NEW q
  PROVE  /\ Cardinality(Picker!Filtered(p, q)) \in Nat
         /\ Picker!Filtered(p, q) # {} => 0 < Cardinality(Picker!Filtered(p, q))
<1> DEFINE F == Picker!Filtered(p, q)
<1>1. Len(Catalogue) \in Nat /\ DOMAIN Catalogue = 1 .. Len(Catalogue)
  BY PickerAssumption DEF Picker!NamesAssumption
<1>2. IsFiniteSet(1 .. Len(Catalogue))
  BY <1>1, FS_Interval
<1>3. F \in SUBSET (1 .. Len(Catalogue))
  BY <1>1 DEF Picker!Filtered
<1> HIDE DEF F
<1>4. IsFiniteSet(F)
  BY <1>2, <1>3, FS_Subset
<1>5. Cardinality(F) \in Nat /\ (F # {} => Cardinality(F) # 0)
  BY <1>4, FS_CardinalityType, FS_EmptySet
<1> QED
  BY <1>5 DEF F

\* A mark in the list of providers, and a row in the list of the models of that one.
ListInv ==
    /\ index \in 0 .. Len(Names) /\ sel \in Nat
    /\ Picker!ListIsOfActiveProvider

\* Whatever is listed anew is listed from its first row.
LEMMA ShowsTheList ==
  ASSUME NEW p, NEW q, Picker!Shows(p, q), index' \in 0 .. Len(Names),
         p = Picker!ProviderAt(pins', index')
  PROVE  ListInv'
<1>1. filtered' = Picker!Filtered(p, q) /\ query' = q /\ sel' = 0
  BY DEF Picker!Shows
<1>2. Picker!ActiveProvider' = p
  BY DEF Picker!ActiveProvider
<1>3. filtered' = Picker!Filtered(Picker!ActiveProvider', query') /\ (filtered' # {} => sel' < Cardinality(filtered'))
  BY <1>1, <1>2, FilteredIsFinite
<1>4. Picker!ListIsOfActiveProvider'
  BY <1>3, SameCardinality DEF Picker!ListIsOfActiveProvider
<1>5. sel' \in Nat
  BY <1>1
<1> QED
  BY <1>4, <1>5 DEF ListInv

\* As long as the provider that is marked is the same, the list stays.
LEMMA ListStays ==
  ASSUME ListInv, Picker!ActiveProvider' = Picker!ActiveProvider,
         index' \in 0 .. Len(Names), UNCHANGED <<query, filtered, sel>>,
         picker' = picker \/ picker' # "open"
  PROVE  ListInv'
<1>1. sel' \in Nat
  BY DEF ListInv
<1>2. ASSUME picker' = "open"
      PROVE  /\ filtered' = Picker!Filtered(Picker!ActiveProvider, query)
             /\ filtered' # {} => sel' < Cardinality(filtered')
  <2>1. picker = "open"
    BY <1>2
  <2>2. /\ filtered = Picker!Filtered(Picker!ActiveProvider, query)
        /\ filtered # {} => sel < Cardinality(filtered)
    BY <2>1, SameCardinality DEF ListInv, Picker!ListIsOfActiveProvider
  <2> QED
    BY <2>2
<1>3. Picker!Filtered(Picker!ActiveProvider, query)' = Picker!Filtered(Picker!ActiveProvider, query)
  BY DEF Picker!Filtered
<1>4. Picker!ListIsOfActiveProvider'
  BY <1>2, <1>3, SameCardinality DEF Picker!ListIsOfActiveProvider
<1> QED
  BY <1>1, <1>4 DEF ListInv

\* A pin that is toggled or taken back re-sorts the providers under the mark, which moves
\* with its provider: the list stays.
LEMMA PinKeepsTheList ==
  ASSUME ListInv, NEW key, NEW to, Picker!SetPinned(key, to),
         UNCHANGED <<picker, filtered, query, sel>>
  PROVE  ListInv'
<1>1. index' = Picker!IndexOf(pins', Picker!ProviderAt(pins, index)) /\ index \in 0 .. Len(Names)
  BY DEF Picker!SetPinned, Picker!ActiveProvider, ListInv
<1>2. index' \in 0 .. Len(Names) /\ Picker!ProviderAt(pins', index') = Picker!ProviderAt(pins, index)
  BY <1>1, MarkStays
<1>3. Picker!ActiveProvider' = Picker!ActiveProvider
  BY <1>2 DEF Picker!ActiveProvider
<1> QED
  BY <1>2, <1>3, ListStays

\* What leaves the mark, the row and the list alone.
LEMMA OthersKeepTheList ==
  ASSUME ListInv, UNCHANGED <<pins, index, query, filtered, sel>>, picker' = picker \/ picker' # "open"
  PROVE  ListInv'
<1>1. Picker!ActiveProvider' = Picker!ActiveProvider
  BY DEF Picker!ActiveProvider
<1>2. index' \in 0 .. Len(Names)
  BY DEF ListInv
<1> QED
  BY <1>1, <1>2, ListStays

\* A move in the list of models stays in it.
LEMMA RowStaysInList ==
  ASSUME ListInv, picker = "open", UNCHANGED <<picker, pins, index, query, filtered>>,
         sel' \in Nat, filtered # {} => sel' < Cardinality(filtered)
  PROVE  ListInv'
<1>1. Picker!ActiveProvider' = Picker!ActiveProvider
  BY DEF Picker!ActiveProvider
<1>2. filtered' = Picker!Filtered(Picker!ActiveProvider, query)
  BY DEF ListInv, Picker!ListIsOfActiveProvider
<1>3. Picker!Filtered(Picker!ActiveProvider, query)' = Picker!Filtered(Picker!ActiveProvider, query)
  BY <1>1 DEF Picker!Filtered
<1>4. Picker!ListIsOfActiveProvider'
  BY <1>2, <1>3, SameCardinality DEF Picker!ListIsOfActiveProvider
<1> QED
  BY <1>4 DEF ListInv

\* Every step keeps the list that of the provider that is marked.
LEMMA ListStep ==
  ASSUME ListInv, [Picker!Next]_(Picker!vars)
  PROVE  ListInv'
<1> DEFINE N == Len(Names)
<1>0. N \in Nat /\ index \in 0 .. N /\ sel \in Nat
  BY NamesAreMany DEF ListInv
<1>1. CASE Picker!Open \/ Picker!LoginEnds
  <2>1. picker' # "open" /\ UNCHANGED <<pins, index, query, filtered, sel>>
    BY <1>1 DEF Picker!Open, Picker!LoginEnds, Picker!pin, Picker!view
  <2> QED
    BY <2>1, OthersKeepTheList
<1>2. ASSUME NEW q \in BOOLEAN, Picker!Loaded(TRUE, q) \/ Picker!Loaded(FALSE, q) PROVE ListInv'
  <2>1. Picker!Shows("all", q) /\ index' = 0
    BY <1>2 DEF Picker!Loaded
  <2>2. "all" = Picker!ProviderAt(pins', index') /\ index' \in 0 .. Len(Names)
    BY <1>0, <2>1 DEF Picker!ProviderAt
  <2> QED
    BY <2>1, <2>2, ShowsTheList
<1>3. ASSUME NEW p \in Picker!Providers, Picker!TogglePin(p) PROVE ListInv'
  <2>1. Picker!SetPinned(p, p \notin pins) /\ UNCHANGED <<picker, filtered, query, sel>>
    BY <1>3 DEF Picker!TogglePin
  <2> QED
    BY <2>1, PinKeepsTheList
<1>4. ASSUME NEW p \in Picker!Providers, Picker!OtherWrites(p) PROVE ListInv'
  <2>1. UNCHANGED <<picker, pins, index, query, filtered, sel>>
    BY <1>4 DEF Picker!OtherWrites, Picker!view
  <2> QED
    BY <2>1, OthersKeepTheList
<1>5. ASSUME NEW k \in DOMAIN writes, Picker!PinWritten(k) PROVE ListInv'
  <2>1. UNCHANGED <<picker, pins, index, query, filtered, sel>>
    BY <1>5 DEF Picker!PinWritten, Picker!view
  <2> QED
    BY <2>1, OthersKeepTheList
<1>6. ASSUME NEW k \in DOMAIN writes, Picker!PinFails(k) PROVE ListInv'
  <2>1. UNCHANGED <<picker, filtered, query, sel>>
    BY <1>6 DEF Picker!PinFails
  <2>2. Picker!SetPinned(writes[k].key, ~writes[k].to) \/ UNCHANGED <<pins, index>>
    BY <1>6 DEF Picker!PinFails
  <2> QED
    BY <2>1, <2>2, PinKeepsTheList, OthersKeepTheList
<1>7. ASSUME NEW d \in {1, -1}, Picker!Move(TRUE, d) PROVE ListInv'
  <2>1. index' = Picker!Between(0, index + d, N) /\ Picker!Shows(Picker!ProviderAt(pins, index'), query) /\ pins' = pins
    BY <1>7 DEF Picker!Move, Picker!pin
  <2>2. index' \in 0 .. N
    <3> HIDE DEF N
    <3> QED
      BY <1>0, <2>1 DEF Picker!Between, Picker!AtLeast0
  <2> QED
    BY <2>1, <2>2, ShowsTheList
<1>8. ASSUME NEW d \in {1, -1}, Picker!Move(FALSE, d) PROVE ListInv'
  <2>1. /\ picker = "open" /\ UNCHANGED <<picker, pins, index, query, filtered>>
        /\ sel' = Picker!AtLeast0(Picker!Between(0, sel + d, Cardinality(filtered) - 1))
    BY <1>8, SameCardinality DEF Picker!Move, Picker!Takes, Picker!pin
  <2>a. filtered = Picker!Filtered(Picker!ActiveProvider, query)
    BY <2>1 DEF ListInv, Picker!ListIsOfActiveProvider
  <2>b. Cardinality(filtered) \in Nat /\ (filtered # {} => 0 < Cardinality(filtered))
    BY <2>a, FilteredIsFinite
  <2> DEFINE c == Cardinality(filtered)
  <2>2. /\ c \in Nat /\ (filtered # {} => 0 < c)
        /\ sel' = Picker!AtLeast0(Picker!Between(0, sel + d, c - 1))
    BY <2>1, <2>b
  <2> HIDE DEF c
  <2>3. sel' \in Nat /\ (0 < c => sel' < c)
    BY <1>0, <2>2 DEF Picker!Between, Picker!AtLeast0
  <2>4. filtered # {} => sel' < Cardinality(filtered)
    BY <2>2, <2>3 DEF c
  <2> QED
    BY <2>1, <2>3, <2>4, RowStaysInList
<1>9. ASSUME NEW d \in {1, -1}, Picker!Cycle(d) PROVE ListInv'
  <2>1. index' = (index + d + N + 1) % (N + 1) /\ Picker!Shows(Picker!ProviderAt(pins, index'), query) /\ pins' = pins
    BY <1>9 DEF Picker!Cycle, Picker!pin
  <2>2. index' \in 0 .. N
    <3> HIDE DEF N
    <3> QED
      BY <1>0, <2>1
  <2> QED
    BY <2>1, <2>2, ShowsTheList
<1>10. ASSUME NEW i \in 0 .. N, Picker!PickProvider(i) PROVE ListInv'
  <2>1. index' = i /\ Picker!Shows(Picker!ProviderAt(pins, i), FALSE) /\ pins' = pins
    BY <1>10 DEF Picker!PickProvider, Picker!pin
  <2> QED
    BY <2>1, ShowsTheList
<1>11. ASSUME NEW q \in BOOLEAN, Picker!Type(q) PROVE ListInv'
  <2>1. index' = index /\ Picker!Shows(Picker!ProviderAt(pins, index), q) /\ pins' = pins
    BY <1>11 DEF Picker!Type, Picker!pin, Picker!ActiveProvider
  <2> QED
    BY <1>0, <2>1, ShowsTheList
<1>12. ASSUME NEW k \in DOMAIN Catalogue, Picker!PickModel(k - 1) PROVE ListInv'
  <2>1. k - 1 \in Nat
    BY PickerAssumption DEF Picker!NamesAssumption
  <2>2. /\ picker = "open" /\ UNCHANGED <<picker, index, query, filtered>>
        /\ sel' = k - 1 /\ k - 1 < Cardinality(filtered)
    BY <1>12, SameCardinality DEF Picker!PickModel, Picker!Takes
  <2>3. pins' = pins
    BY <1>12 DEF Picker!PickModel, Picker!pin
  <2> QED
    BY <2>1, <2>2, <2>3, RowStaysInList
<1>13. CASE Picker!Browse \/ Picker!Cancel \/ Picker!Connect
  <2>1. UNCHANGED <<pins, index, query, filtered, sel>> /\ (picker' = picker \/ picker' # "open")
    BY <1>13 DEF Picker!Browse, Picker!Cancel, Picker!Connect, Picker!Done, Picker!pin, Picker!view
  <2> QED
    BY <2>1, OthersKeepTheList
<1>14. ASSUME NEW i \in BOOLEAN, Picker!Enter(i) PROVE ListInv'
  <2>1. UNCHANGED <<pins, index, query, filtered, sel>> /\ (picker' = picker \/ picker' # "open")
    BY <1>14 DEF Picker!Enter, Picker!pin, Picker!view
  <2> QED
    BY <2>1, OthersKeepTheList
<1>15. ASSUME NEW f \in flight, Picker!Chosen(f) \/ Picker!NotChosen(f) PROVE ListInv'
  <2>1. UNCHANGED <<pins, index, query, filtered, sel>> /\ (picker' = picker \/ picker' # "open")
    BY <1>15 DEF Picker!Chosen, Picker!NotChosen, Picker!pin, Picker!view
  <2> QED
    BY <2>1, OthersKeepTheList
<1>16. CASE UNCHANGED Picker!vars
  <2>1. UNCHANGED <<pins, index, query, filtered, sel>> /\ picker' = picker
    BY <1>16 DEF Picker!vars, Picker!pin, Picker!view
  <2> QED
    BY <2>1, OthersKeepTheList
<1>17. CASE \E providers \in BOOLEAN, d \in {1, -1} : Picker!Move(providers, d)
  BY <1>7, <1>8, <1>17
<1> QED
  BY <1>1, <1>2, <1>3, <1>4, <1>5, <1>6, <1>9, <1>10, <1>11, <1>12, <1>13, <1>14, <1>15, <1>16, <1>17
     DEF Picker!Next

\* Before a picker is opened nothing is listed.
LEMMA ListInit == Picker!Init => ListInv
BY NamesAreMany DEF Picker!Init, ListInv, Picker!ListIsOfActiveProvider

\* The pins on the screen are those on disk when nothing is left to write.
LEMMA FollowedAreSaved == PickerInv => Picker!PinsAreSaved
<1> SUFFICES ASSUME PickerInv, picker = "open", writes = <<>>, NEW p \in Picker!Providers \ (tainted \cup foreign)
             PROVE  (p \in pins) <=> (p \in disk)
  BY DEF Picker!PinsAreSaved
<1>1. Alternate(p, writes, disk, pins)
  BY DEF PickerInv, PinsFollow, Known
<1>2. {k \in DOMAIN writes : writes[k].key = p} = {}
  OBVIOUS
<1> QED
  BY <1>1, <1>2 DEF Alternate

\* ModelPicker: everything that is carried from step to step says what the run checks.
LEMMA PickerImplies == PickerInv /\ ListInv => Picker!TypeOK /\ PickerIsTrue
<1> SUFFICES ASSUME PickerInv, ListInv PROVE Picker!TypeOK /\ PickerIsTrue
  OBVIOUS
<1>1. PickerIsTrue
  BY FollowedAreSaved DEF PickerIsTrue, ListInv
<1>a. writes \in Seq(Write) /\ DOMAIN writes = 1 .. Len(writes)
  BY LenProperties DEF PickerInv, PickerTypes
<1>b. \A k \in DOMAIN writes : writes[k] \in Write
  BY <1>a, ElementOfSeq
<1>2. \A k \in DOMAIN writes : writes[k].key \in Picker!Providers
  BY <1>b DEF Write
<1> QED
  BY <1>1, <1>2 DEF PickerInv, PickerTypes, ListInv, Picker!TypeOK

-----------------------------------------------------------------------------
(* Launcher *)

\* Pi runs while somebody waits for it; a launcher that is done with one that ended
\* says so; and what it passed the user on for was judged on the machine as it is.
LauncherInv ==
    /\ machine \in Start!Machines /\ state \in {"shell", "locating", "spawned", "waiting"}
    /\ killed \in BOOLEAN
    /\ pi \in {"none", "runs", "ok", "error", "signal"}
    /\ state \in {"spawned", "waiting"} => pi # "none" /\ hint = Start!GitTrouble(machine)
    /\ state = "locating" => pi = "none"
    /\ report = Start!NoReport \/ report = Start!Found(machine)
    /\ Start!PiIsNotOrphaned /\ Start!CodeIsHonest

\* Where one git stands for the other, what has no Git trouble is exactly a repository
\* the controller takes, on every machine.
LEMMA NoTroubleIsFit ==
  ASSUME NEW m \in Start!Machines, m.git = m.trusted
  PROVE  Start!GitTrouble(m) = "none" <=> Start!RepositoryIsFit(m)
BY DEF Start!Machines, Start!GitTrouble, Start!RepositoryIsFit

\* A report names a Git problem exactly on a machine with Git trouble.
LEMMA ReportNamesTrouble ==
  ASSUME NEW m \in Start!Machines
  PROVE  Start!GitTrouble(m) = "none" <=> Start!Found(m).fail \subseteq {"node", "pi", "project"}
<1>1. Start!GitTrouble(m) \in {"none", "git", "repository", "root", "commit", "branch"}
  BY DEF Start!GitTrouble
<1>2. Start!GitTrouble(m) # "none" => Start!GitTrouble(m) \in Start!Found(m).fail
  BY DEF Start!Found
<1>3. Start!Found(m).fail \subseteq {"node", "pi", "project"} \cup ({Start!GitTrouble(m)} \ {"none"})
  BY DEF Start!Found
<1> QED
  BY <1>1, <1>2, <1>3

\* No order of signals, exits and commands of the user breaks any of it.
LEMMA LauncherStep == LauncherInv /\ [Start!Next]_(Start!vars) => LauncherInv'
<1> SUFFICES ASSUME LauncherInv, [Start!Next]_(Start!vars) PROVE LauncherInv'
  OBVIOUS
<1> USE DEF LauncherInv, Start!PiIsNotOrphaned, Start!CodeIsHonest, Start!Ended
<1>1. CASE Start!Doctor
  BY <1>1 DEF Start!Doctor
<1>2. CASE \E args \in Arguments, init \in BOOLEAN : Start!Launch(args, init)
  BY <1>2 DEF Start!Launch
<1>3. CASE Start!LocateAndSpawn
  BY <1>3 DEF Start!LocateAndSpawn
<1>4. CASE \E end \in {"ok", "error", "signal"} : Start!PiExits(end)
  BY <1>4 DEF Start!PiExits
<1>5. CASE Start!PiIsReaped
  BY <1>5 DEF Start!PiIsReaped, Start!CodeOf
<1>6. CASE Start!HandledSignal
  BY <1>6 DEF Start!HandledSignal, Start!Signalled
<1>7. ASSUME NEW sig \in DOMAIN Start!CodeOfSignal, Start!UnhandledSignal(sig) PROVE LauncherInv'
  <2>1. Start!CodeOfSignal[sig] # 0
    BY DEF Start!CodeOfSignal
  <2> QED
    BY <1>7, <2>1 DEF Start!UnhandledSignal, Start!Signalled
<1>8. CASE UNCHANGED Start!vars
  BY <1>8 DEF Start!vars
<1>9. CASE Start!InstallHandlers
  BY <1>9 DEF Start!InstallHandlers
<1> QED
  BY <1>1, <1>2, <1>3, <1>4, <1>5, <1>6, <1>7, <1>8, <1>9 DEF Start!Next

\* How a launcher may end, and how often it was signalled.
EndTypes == code \in {0, 1, 129, 130, 131, 137, 143} /\ signals \in 0 .. MaxSignals

\* Before anything is typed nothing runs.
LEMMA LauncherInit == Start!Init => LauncherInv /\ EndTypes
<1> SUFFICES ASSUME Start!Init PROVE LauncherInv /\ EndTypes
  OBVIOUS
<1>1. EndTypes
  BY LauncherAssumption DEF Start!Init, EndTypes
<1>2. /\ machine \in Start!Machines /\ state = "shell" /\ report = Start!NoReport /\ hint = "none"
      /\ pi = "none" /\ code = 0 /\ killed = FALSE
  BY DEF Start!Init
<1>3. LauncherInv
  BY <1>2 DEF LauncherInv, Start!PiIsNotOrphaned, Start!CodeIsHonest
<1> QED
  BY <1>1, <1>3

\* Every end is that of Pi or one of five signals, which are counted up to their bound.
LEMMA EndTypesStep == EndTypes /\ [Start!Next]_(Start!vars) => EndTypes'
<1> SUFFICES ASSUME EndTypes, [Start!Next]_(Start!vars) PROVE EndTypes'
  OBVIOUS
<1>0. MaxSignals \in Nat /\ signals \in 0 .. MaxSignals /\ code \in {0, 1, 129, 130, 131, 137, 143}
  BY LauncherAssumption DEF EndTypes
<1> DEFINE Signal == Start!HandledSignal \/ \E sig \in DOMAIN Start!CodeOfSignal : Start!UnhandledSignal(sig)
<1>1. CASE Signal
  <2>1. signals < MaxSignals /\ signals' = signals + 1
    BY <1>1 DEF Start!HandledSignal, Start!UnhandledSignal, Start!Signalled
  <2>2. code' \in {code, 129, 130, 131, 137, 143}
    BY <1>1 DEF Start!HandledSignal, Start!UnhandledSignal, Start!Ended, Start!CodeOfSignal
  <2>3. signals' \in 0 .. MaxSignals
    BY <1>0, <2>1
  <2> QED
    BY <1>0, <2>2, <2>3 DEF EndTypes
<1>2. CASE ~Signal
  <2>1. signals' = signals
    BY <1>2 DEF Start!Next, Start!vars, Start!Doctor, Start!Launch, Start!LocateAndSpawn, Start!InstallHandlers,
                Start!PiExits, Start!PiIsReaped
  <2>2. code' \in {code, 0, 1}
    BY <1>2 DEF Start!Next, Start!vars, Start!Doctor, Start!Launch, Start!LocateAndSpawn, Start!InstallHandlers,
                Start!PiExits, Start!PiIsReaped, Start!Ended, Start!CodeOf
  <2> QED
    BY <1>0, <2>1, <2>2 DEF EndTypes
<1> QED
  BY <1>1, <1>2

\* Launcher: hints and findings about Git are those of the controller, where PATH has the
\* git that the controller asks.
LEMMA LauncherImplies == LauncherInv /\ EndTypes => Start!TypeOK /\ LaunchIsFaithful
<1> SUFFICES ASSUME LauncherInv, EndTypes PROVE Start!TypeOK /\ LaunchIsFaithful
  OBVIOUS
<1>1. ASSUME machine.git = machine.trusted, state \in {"spawned", "waiting"}
      PROVE  hint = "none" <=> Start!RepositoryIsFit(machine)
  <2>1. machine \in Start!Machines /\ hint = Start!GitTrouble(machine)
    BY <1>1 DEF LauncherInv
  <2> QED
    BY <1>1, <2>1, NoTroubleIsFit
<1>2. ASSUME machine.git = machine.trusted, report # Start!NoReport
      PROVE  Start!RepositoryIsFit(machine) <=> report.fail \subseteq {"node", "pi", "project"}
  <2>1. machine \in Start!Machines /\ report = Start!Found(machine)
    BY <1>2 DEF LauncherInv
  <2> QED
    BY <1>2, <2>1, ReportNamesTrouble, NoTroubleIsFit
<1>3. Start!GitIsJudgedAlike
  BY <1>1, <1>2 DEF Start!GitIsJudgedAlike
<1> QED
  BY <1>3 DEF LauncherInv, EndTypes, Start!TypeOK, LaunchIsFaithful

-----------------------------------------------------------------------------
(* Surfaces *)

\* Every Worker has a status, and the terminal keeps its size.
ShownInv ==
    /\ project.status \in [ShownWorkers -> WorkerStatuses]
    /\ terminal \in TerminalSizes

\* A status that is updated is a status.
LEMMA ShownStep == ShownInv /\ [Shown!Next]_(Shown!vars) => ShownInv'
<1> SUFFICES ASSUME ShownInv, [Shown!Next]_(Shown!vars) PROVE ShownInv'
  OBVIOUS
<1>1. ASSUME NEW w \in ShownWorkers, NEW st \in WorkerStatuses, Shown!Update(w, st) PROVE ShownInv'
  BY <1>1 DEF ShownInv, Shown!Update
<1>2. CASE UNCHANGED Shown!vars
  BY <1>2 DEF Shown!vars, ShownInv
<1> QED
  BY <1>1, <1>2 DEF Shown!Next

\* The panel's table of actions and the manager's guards agree on any record of the
\* Workers, but for what only the manager looks at.
LEMMA TablesAgree ==
  ASSUME ShownInv
  PROVE  Shown!OfferedIsAccepted
<1> SUFFICES ASSUME NEW w \in ShownWorkers, NEW a \in Shown!OfferedOn(project, w),
                    NEW c \in Shown!Circumstances
             PROVE  Shown!Accepts(project, c, a, w) \/ Shown!MayBeRefused(project, c, a, w)
  BY DEF Shown!OfferedIsAccepted
<1> USE DEF Shown!Active, Shown!Resumable, Shown!Unfinished
<1>1. a \in {"steer", "pause-worker", "resume-project", "resume-worker", "integrate", "abort"}
  BY DEF Shown!OfferedOn
<1>2. CASE a = "resume-worker"
  <2>1. ~project.paused /\ project.status[w] \in Shown!Resumable
    BY <1>2 DEF Shown!OfferedOn
  <2>2. DOMAIN project.status = ShownWorkers
    BY DEF ShownInv
  <2> QED
    BY <1>2, <2>1, <2>2 DEF Shown!Accepts, Shown!MayBeRefused
<1>3. CASE a # "resume-worker"
  BY <1>1, <1>3 DEF Shown!OfferedOn, Shown!Accepts, Shown!MayBeRefused
<1> QED
  BY <1>2, <1>3

\* So does the help's, once the project is resumed.
LEMMA HelpAgrees ==
  ASSUME ShownInv
  PROVE  Shown!SuggestedIsAccepted
<1> DEFINE resumed == [project EXCEPT !.paused = FALSE]
<1> SUFFICES ASSUME NEW r \in Shown!Suggested(project, Shown!Created), NEW c \in Shown!Circumstances
             PROVE  \/ Shown!Accepts(resumed, c, r.kind, r.worker)
                    \/ Shown!MayBeRefused(resumed, c, r.kind, r.worker)
  BY DEF Shown!SuggestedIsAccepted
<1>1. resumed.status = project.status /\ resumed.paused = FALSE /\ DOMAIN resumed.status = ShownWorkers
  BY DEF ShownInv
<1>2. ASSUME NEW S, NEW w \in Shown!FirstCreated(project, Shown!Created, S)
      PROVE  resumed.status[w] \in S
  BY <1>1, <1>2 DEF Shown!FirstCreated
<1> HIDE DEF resumed
<1>3. CASE r.kind \in {"resume-project", "pause-project"}
  BY <1>3 DEF Shown!Accepts
<1>4. ASSUME NEW w \in Shown!FirstCreated(project, Shown!Created, {"paused", "interrupted"}),
             r = Shown!Do("resume-worker", w)
      PROVE  \/ Shown!Accepts(resumed, c, r.kind, r.worker)
             \/ Shown!MayBeRefused(resumed, c, r.kind, r.worker)
  <2>1. r.kind = "resume-worker" /\ r.worker = w /\ resumed.status[w] \in {"paused", "interrupted"}
    BY <1>2, <1>4 DEF Shown!Do
  <2> QED
    BY <1>1, <2>1 DEF Shown!Accepts, Shown!MayBeRefused, Shown!Resumable, Shown!Circumstances
<1>5. ASSUME NEW w \in Shown!FirstCreated(project, Shown!Created, {"completed"}),
             r = Shown!Do("integrate", w)
      PROVE  \/ Shown!Accepts(resumed, c, r.kind, r.worker)
             \/ Shown!MayBeRefused(resumed, c, r.kind, r.worker)
  <2>1. r.kind = "integrate" /\ r.worker = w /\ resumed.status[w] = "completed"
    BY <1>2, <1>5 DEF Shown!Do
  <2> QED
    BY <2>1 DEF Shown!Accepts, Shown!MayBeRefused
<1>6. ASSUME NEW w \in Shown!FirstCreated(project, Shown!Created, Shown!Active),
             r = Shown!Do("steer", w)
      PROVE  \/ Shown!Accepts(resumed, c, r.kind, r.worker)
             \/ Shown!MayBeRefused(resumed, c, r.kind, r.worker)
  <2>1. r.kind = "steer" /\ r.worker = w /\ resumed.status[w] \in Shown!Active
    BY <1>2, <1>6 DEF Shown!Do
  <2> QED
    BY <2>1 DEF Shown!Accepts, Shown!MayBeRefused, Shown!Active
<1>7. CASE r = Shown!Do(IF project.paused THEN "resume-project" ELSE "pause-project", Shown!NoWorker)
  BY <1>3, <1>7 DEF Shown!Do
<1> QED
  BY <1>4, <1>5, <1>6, <1>7 DEF Shown!Suggested

\* The rows and columns of the panel are within those of any terminal.
LEMMA PanelIsWithin ==
  ASSUME TerminalSizes \subseteq Nat \X Nat, ShownInv
  PROVE  Shown!PanelFits
<1> SUFFICES ASSUME NEW f \in BOOLEAN, Shown!Surface(terminal, f).kind # "fallback"
             PROVE  /\ Shown!Surface(terminal, f).body + Shown!PANEL_CHROME_ROWS <= Shown!Surface(terminal, f).room
                    /\ Shown!Surface(terminal, f).width <= terminal[1]
  BY DEF Shown!PanelFits
<1> DEFINE columns == terminal[1]
           rows == terminal[2]
<1>1. columns \in Nat /\ rows \in Nat
  BY DEF ShownInv
<1>2. ~(columns < 60 \/ rows < 16)
  BY DEF Shown!Surface
<1>3. CASE f
  <2>1. /\ Shown!Surface(terminal, f).body = Shown!Greater(3, rows - Shown!PANEL_CHROME_ROWS)
        /\ Shown!Surface(terminal, f).room = rows /\ Shown!Surface(terminal, f).width = columns
    BY <1>2, <1>3 DEF Shown!Surface
  <2> HIDE DEF columns, rows
  <2> QED
    BY <1>1, <1>2, <2>1 DEF Shown!Greater, Shown!PANEL_CHROME_ROWS, columns
<1>4. CASE ~f
  <2>1. /\ Shown!Surface(terminal, f).body = Shown!BodyRows(rows)
        /\ Shown!Surface(terminal, f).room = rows - 2
        /\ Shown!Surface(terminal, f).width = Shown!Greater(1, Shown!Lesser(Shown!MAX_PANEL_WIDTH, columns))
    BY <1>2, <1>4 DEF Shown!Surface
  <2> HIDE DEF columns, rows
  <2>2. Shown!BodyRows(rows) + Shown!PANEL_CHROME_ROWS <= rows - 2
    BY <1>1, <1>2 DEF Shown!BodyRows, Shown!Greater, Shown!Lesser, Shown!MAX_BODY_ROWS, Shown!PANEL_CHROME_ROWS
  <2>3. Shown!Greater(1, Shown!Lesser(Shown!MAX_PANEL_WIDTH, columns)) <= columns
    BY <1>1, <1>2 DEF Shown!Greater, Shown!Lesser, Shown!MAX_PANEL_WIDTH
  <2> QED
    BY <2>1, <2>2, <2>3 DEF columns
<1> QED
  BY <1>3, <1>4

\* The record a surface is shown has a status for each of its Workers.
LEMMA ShownInit == Shown!Init => ShownInv
BY DEF Shown!Init, ShownInv

\* Surfaces: what is offered and suggested is accepted, and the panel fits.
LEMMA ShownImplies == ShownInv => OffersAreGood
BY TablesAgree, HelpAgrees, PanelIsWithin, SurfacesAssumption DEF OffersAreGood

-----------------------------------------------------------------------------
(* Screen: the parts side by side *)

ScreenInv ==
    /\ CenterIInv
    /\ PanelInv /\ ViewTypes
    /\ PickerInv /\ ListInv
    /\ LauncherInv /\ EndTypes
    /\ ShownInv

\* Each part starts as its module says.
LEMMA ScreenStarts == ScreenInit => ScreenInv
<1> SUFFICES ASSUME ScreenInit PROVE ScreenInv
  OBVIOUS
<1>1. CenterIInv
  BY CenterIInvInit DEF ScreenInit
<1>2. PanelInv /\ ViewTypes
  BY PanelInit, ViewTypesInit DEF ScreenInit
<1>3. PickerInv /\ ListInv
  BY PickerInit, ListInit, ProvidersAre DEF ScreenInit
<1>4. LauncherInv /\ EndTypes
  BY LauncherInit DEF ScreenInit
<1>5. ShownInv
  BY ShownInit DEF ScreenInit
<1> QED
  BY <1>1, <1>2, <1>3, <1>4, <1>5 DEF ScreenInv

\* A step of the screen is, for each part, one of its own or none.
LEMMA PartsStep ==
  ASSUME [ScreenNext]_screenVars
  PROVE  /\ [Next]_vars /\ [Panel!Next]_(Panel!vars) /\ [Shown!Next]_(Shown!vars)
         /\ [Picker!Next]_(Picker!vars) /\ [Start!Next]_(Start!vars)
<1>1. [Next]_vars
  BY DEF ScreenNext, screenVars
<1>2. Panel!Next \/ UNCHANGED panelVars
  BY DEF ScreenNext, screenVars
<1>3. Shown!Next \/ UNCHANGED surfaceVars
  BY DEF ScreenNext, screenVars
<1>4. Picker!Next \/ UNCHANGED pickerVars
  BY DEF ScreenNext, screenVars
<1>5. Start!Next \/ UNCHANGED launcherVars
  BY DEF ScreenNext, screenVars
<1>6. UNCHANGED panelVars => UNCHANGED Panel!vars
  BY DEF panelVars, Panel!vars
<1>7. UNCHANGED surfaceVars => UNCHANGED Shown!vars
  BY DEF surfaceVars, Shown!vars
<1>8. UNCHANGED pickerVars => UNCHANGED Picker!vars
  BY DEF pickerVars, Picker!vars, Picker!pin, Picker!view, Picker!counters
<1>9. UNCHANGED launcherVars => UNCHANGED Start!vars
  BY DEF launcherVars, Start!vars
<1> QED
  BY <1>1, <1>2, <1>3, <1>4, <1>5, <1>6, <1>7, <1>8, <1>9

\* So what each part carries from step to step, the screen carries.
LEMMA ScreenStep == ScreenInv /\ [ScreenNext]_screenVars => ScreenInv'
<1> SUFFICES ASSUME ScreenInv, [ScreenNext]_screenVars PROVE ScreenInv'
  OBVIOUS
<1>1. CenterIInv'
  BY PartsStep, CenterIInvStep DEF ScreenInv
<1>2. PanelInv' /\ ViewTypes'
  BY PartsStep, PanelStep, ViewTypesStep DEF ScreenInv
<1>3. PickerInv'
  BY PartsStep, PickerStep, ProvidersAre DEF ScreenInv
<1>4. ListInv'
  BY PartsStep, ListStep DEF ScreenInv
<1>5. LauncherInv' /\ EndTypes'
  BY PartsStep, LauncherStep, EndTypesStep DEF ScreenInv
<1>6. ShownInv'
  BY PartsStep, ShownStep DEF ScreenInv
<1> QED
  BY <1>1, <1>2, <1>3, <1>4, <1>5, <1>6 DEF ScreenInv

\* ScreenInv is an invariant of all five parts.
LEMMA ScreenInvariant == ScreenSpec => []ScreenInv
BY ScreenStarts, ScreenStep, PTL DEF ScreenSpec

\* Screen: every part keeps the types its module states.
THEOREM ScreenTypes == ScreenSpec => []TypesOK
<1>1. ScreenInv => TypesOK
  BY CenterIInvImplies, PanelImplies, PickerImplies, LauncherImplies DEF ScreenInv, TypesOK
<1> QED
  BY <1>1, ScreenInvariant, PTL

\* PanelView: whatever is scrolled, clicked, rebuilt or resized, the control the user
\* chose keeps the focus where it can be read, and no room is left empty while there
\* are rows to fill it.
THEOREM PlaceIsKept == ScreenSpec => []KeepsItsPlace
<1>1. ScreenInv => KeepsItsPlace
  BY PanelImplies DEF ScreenInv
<1> QED
  BY <1>1, ScreenInvariant, PTL

\* Surfaces: what the panel offers and the help suggests on any record of the Workers is
\* what the manager accepts, whatever else it looks at, but for the reasons that
\* MayBeRefused lists; and the panel fits the terminal it is laid out for.
THEOREM PanelOffersWhatIsTaken == ScreenSpec => []OffersAreGood
<1>1. ScreenInv => OffersAreGood
  BY ShownImplies DEF ScreenInv
<1> QED
  BY <1>1, ScreenInvariant, PTL

\* ControlCenter: no panel stays dead behind an operation that has ended, no timer runs
\* for a panel nobody sees, and no evidence of another attempt is shown.
THEOREM CenterStaysCurrent == ScreenSpec => []CenterIsCurrent
<1>1. ScreenInv => CenterIsCurrent
  BY CenterIInvImplies DEF ScreenInv
<1> QED
  BY <1>1, ScreenInvariant, PTL

\* ModelPicker: the models that are listed are those of the provider that is marked,
\* and the pins that are shown, once nothing is left to write, are those on disk.
THEOREM PickerTellsTheTruth == ScreenSpec => []PickerIsTrue
<1>1. ScreenInv => PickerIsTrue
  BY PickerImplies DEF ScreenInv
<1> QED
  BY <1>1, ScreenInvariant, PTL

\* Launcher: through the signals the launcher handles, SIGINT and SIGTERM, Pi is not left
\* without a launcher that waits for it; only a signal that finds no handler leaves it
\* behind.  An exit code of 0 is that of a Pi that ended well, and where the git on PATH
\* is as trusted as the one the controller asks, Git is judged as the controller does.
THEOREM PiIsWaitedFor == ScreenSpec => []LaunchIsFaithful
<1>1. ScreenInv => LaunchIsFaithful
  BY LauncherImplies DEF ScreenInv
<1> QED
  BY <1>1, ScreenInvariant, PTL
=============================================================================
