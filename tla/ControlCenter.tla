---------------------------- MODULE ControlCenter ----------------------------
(***************************************************************************)
(* The control center (src/tools/control-panel-host.ts) over the Worker    *)
(* pane and the overview of src/tui/control-panel.ts: one operation at a   *)
(* time, dialogs that hide the panel, feedback and its timer, the pulse    *)
(* timer, evidence that is loaded while the Worker goes on, and the state  *)
(* the panel is told of, which is not always the newest.                   *)
(*                                                                         *)
(* Worker updates tell their observers at once.  A change of the project   *)
(* tells them only after its line in the activity log, with the state it   *)
(* was made in: by then a Worker may have moved on (`late').               *)
(***************************************************************************)
EXTENDS Presentation

CONSTANTS
    Workers,        \* Worker identifiers
    StartStatuses,  \* statuses a project may be opened with
    Sizes,          \* terminal sizes, <<columns, rows>>
    Fullscreen,     \* tui.mode = "fullscreen"
    ReducedMotion,
    Guided,         \* autonomy = "guided": integration asks first
    Requests,       \* types of actions that are asked for
    MaxEvents       \* bound: operations of the panel, and changes not made by it

VARIABLES
    db,         \* the canonical project: a project of Presentation, with attempt and commit
    late,       \* project changes whose observers are told later: [state, mine]
    cur,        \* current: what the panel was last told
    tab, selected, expanded, detail,    \* fields of IntentumControlPanel
    op,         \* the operation in flight: busy is op # NoOp
    suspended,  \* panel.suspended
    feedback,   \* panel.actionState
    hold,       \* feedbackTimer is set
    pulse,      \* pulseTimer is set
    hidden,     \* the overlay is hidden behind a dialog
    size,       \* of the terminal, as the last frame saw it
    life,       \* open, closed (done was called), disposed
    mouse,      \* mouse reports are enabled
    moves, asked    \* bounded counters

panel == <<tab, selected, expanded, detail>>
host == <<op, suspended, feedback, hold, pulse, hidden, size, life, mouse>>
vars == <<db, late, cur, panel, host, moves, asked>>

\* Decisions and help have no control that starts an operation and stays.
Tabs == {"overview", "workers", "other"}
None == [kind |-> "none"]
Loading == [kind |-> "loading"]
Failure == [kind |-> "error"]
NoOp == [type |-> "none", worker |-> NoWorker, at |-> "none"]

Fallback(sz) == Surface(sz, Fullscreen).kind = "fallback"

-----------------------------------------------------------------------------
(* The panel's view of the project *)

\* workerEvidenceIdentity
Identity(s, w) == <<s.attempt[w], s.status[w], s.commit[w]>>

\* setState: is evidence of w loaded under s obsolete under t?
Outdated(s, t, w) ==
    \/ s.attempt[w] # t.attempt[w] \/ s.commit[w] # t.commit[w]
    \/ s.status[w] # t.status[w] /\ t.status[w] \in Terminal

\* The observer of openControlPanel, which is unsubscribed on disposal.
Told(t) ==
    IF life = "disposed" THEN UNCHANGED <<cur, expanded, detail, pulse>>
    ELSE LET gone == {w \in Workers : detail[w] # None /\ Outdated(cur, t, w)} IN
         /\ cur' = t
         /\ expanded' = expanded \ gone
         /\ detail' = [w \in Workers |-> IF w \in gone THEN None ELSE detail[w]]
         /\ pulse' = (/\ life = "open" /\ ~ReducedMotion /\ ~Fallback(size)
                      /\ \/ op # NoOp
                         \/ \E w \in Workers : t.status[w] \in {"starting", "working", "verifying"})

\* syncPulseTimer, after a change of the operation, the surface or the life.
Animates(o, sz, l) ==
    /\ l = "open" /\ ~ReducedMotion /\ ~Fallback(sz)
    /\ o # NoOp \/ \E w \in Workers : cur.status[w] \in {"starting", "working", "verifying"}

\* updateWorker: the record gets a new updatedAt.
Updated(s, w, st) == [s EXCEPT !.status[w] = st, !.order = NewestFirst(@, w)]

Orders == {o \in [1 .. Cardinality(Workers) -> Workers] : \A i, j \in DOMAIN o : o[i] = o[j] => i = j}

\* The projects a panel may be opened on: at most one Worker is unfinished.
StartProjects ==
    {d \in [paused : {FALSE}, blocking : {FALSE}, status : [Workers -> StartStatuses],
            attempt : {[w \in Workers |-> 1]}, commit : {[w \in Workers |-> 0]},
            order : {CHOOSE o \in Orders : TRUE}] :
        Cardinality({w \in Workers : d.status[w] \in Unfinished}) <= 1}

Init ==
    /\ db \in StartProjects
    /\ late = <<>> /\ cur = db
    /\ tab \in Tabs \ {"workers"} /\ selected = NoWorker
    /\ expanded = {} /\ detail = [w \in Workers |-> None]
    /\ op = NoOp /\ suspended = FALSE /\ feedback = "idle" /\ hold = FALSE /\ hidden = FALSE
    /\ size \in {sz \in Sizes : ~Fallback(sz)}
    /\ life = "open" /\ mouse = ~Fullscreen /\ pulse = Animates(NoOp, size, "open")
    /\ moves = 0 /\ asked = 0

-----------------------------------------------------------------------------
(* The world goes on: what Worker sessions and the Designer's tools change *)

Steps == {<<"queued", "starting">>, <<"starting", "working">>, <<"starting", "failed">>,
          <<"working", "verifying">>, <<"working", "failed">>, <<"working", "interrupted">>,
          <<"pause_requested", "paused">>, <<"pause_requested", "verifying">>,
          <<"verifying", "completed">>, <<"verifying", "blocked">>, <<"paused", "working">>,
          <<"interrupted", "working">>, <<"blocked", "working">>,
          <<"paused", "failed">>, <<"interrupted", "failed">>, <<"blocked", "failed">>,
          <<"completed", "integrated">>, <<"completed", "blocked">>}

WorkerMoves(w, st) ==
    /\ moves + asked < MaxEvents /\ moves' = moves + 1
    /\ <<db.status[w], st>> \in Steps
    /\ st \in {"starting", "working"} \/ db.status[w] \in Resumable =>
           \* nothing starts beside another, or paused; a resume that finds no worktree fails
           ~db.paused /\ \A v \in Workers \ {w} : db.status[v] \notin Unfinished
    /\ LET resumed == db.status[w] \in Resumable /\ st = "working"
           t == [Updated(db, w, st) EXCEPT !.attempt[w] = IF resumed THEN @ + 1 ELSE @]
       IN  db' = t /\ Told(t)
    /\ UNCHANGED <<late, tab, selected, op, suspended, feedback, hold, hidden, size, life, mouse, asked>>

\* onCommit records a result commit.
WorkerCommits(w) ==
    /\ moves + asked < MaxEvents /\ moves' = moves + 1
    /\ db.status[w] = "working" /\ db.commit[w] < 1
    /\ LET t == [Updated(db, w, "working") EXCEPT !.commit[w] = @ + 1] IN db' = t /\ Told(t)
    /\ UNCHANGED <<late, tab, selected, op, suspended, feedback, hold, hidden, size, life, mouse, asked>>

\* Someone else pauses or resumes the project.
ProjectMoves ==
    /\ moves + asked < MaxEvents /\ moves' = moves + 1
    /\ db' = [db EXCEPT !.paused = ~@]
    /\ late' = Append(late, [state |-> db', mine |-> FALSE])
    /\ UNCHANGED <<cur, panel, host, asked>>

TellLate ==
    /\ late # <<>> /\ late' = Tail(late)
    /\ Told(Head(late).state)
    /\ UNCHANGED <<db, tab, selected, op, suspended, feedback, hold, hidden, size, life, mouse, moves, asked>>

-----------------------------------------------------------------------------
(* Keys and clicks *)

\* The panel has the keyboard: no dialog is over it and it is not suspended.
Listening == life = "open" /\ ~hidden /\ ~suspended /\ ~Fallback(size)

\* setTab; the next frame selects the newest Worker if none is (prepareWorkers).
Selected == IF selected = NoWorker THEN Head(cur.order) ELSE selected

SwitchTab(t) ==
    /\ Listening /\ t # tab /\ tab' = t
    /\ selected' = IF t = "workers" THEN Selected ELSE selected
    /\ UNCHANGED <<db, late, cur, expanded, detail, host, moves, asked>>

\* runAction of an inspection: at once when nothing runs; otherwise the request
\* is dropped with a notification, and the detail stays `loading'.
Inspect(w) ==
    /\ detail' = [detail EXCEPT ![w] = Loading]
    /\ IF op = NoOp
       THEN /\ op' = [type |-> "inspect", worker |-> w, at |-> "read", ident |-> Identity(cur, w)]
            /\ moves + asked < MaxEvents /\ asked' = asked + 1
       ELSE op' = op /\ asked' = asked
    /\ pulse' = Animates(op', size, life)

\* expandWorkerDetails: evidence is asked for unless it is there or on its way.
Expand(w) ==
    /\ expanded' = expanded \cup {w}
    /\ IF detail[w] \in {None, Failure} THEN Inspect(w) ELSE UNCHANGED <<detail, op, pulse, asked>>

\* toggleWorkerDetails: retry, hide or show.
ToggleDetails(w) ==
    /\ Listening /\ tab = "workers" /\ w = Selected
    /\ IF w \in expanded
       THEN IF detail[w] = Failure THEN expanded' = expanded /\ Inspect(w)
            ELSE expanded' = expanded \ {w} /\ UNCHANGED <<detail, op, pulse, asked>>
       ELSE Expand(w)
    /\ UNCHANGED <<db, late, cur, tab, selected, suspended, feedback, hold, hidden, size, life, mouse, moves>>

SelectWorker(w) ==
    /\ Listening /\ tab = "workers" /\ w # selected /\ selected' = w
    /\ UNCHANGED <<db, late, cur, tab, expanded, detail, host, moves, asked>>

\* openWorker from a row of the overview; a result is opened with its evidence.
OpenWorker(w) ==
    /\ Listening /\ tab = "overview"
    /\ w \in {OverviewWorkers(cur)[k] : k \in DOMAIN OverviewWorkers(cur)}
    /\ tab' = "workers" /\ selected' = w
    /\ IF cur.status[w] = "completed" THEN Expand(w) ELSE UNCHANGED <<expanded, detail, op, pulse, asked>>
    /\ UNCHANGED <<db, late, cur, suspended, feedback, hold, hidden, size, life, mouse, moves>>

-----------------------------------------------------------------------------
(* Operations *)

\* Which of them ask first, behind the panel: performPanelAction.
Asks(a) == a \in {"steer", "resume-worker", "abort"} \/ (a = "integrate" /\ Guided)

ProjectOp(a) == a \in {"pause-project", "resume-project"}

\* The controls that can be activated where the panel stands, and the p key.
Reachable ==
    {[type |-> IF cur.paused THEN "resume-project" ELSE "pause-project", worker |-> NoWorker]}
    \cup (IF tab = "overview" THEN {[type |-> "show-status", worker |-> NoWorker]} ELSE {})
    \cup (IF tab = "workers"
          THEN {[type |-> a, worker |-> IF ProjectOp(a) THEN NoWorker ELSE Selected] :
                    a \in OfferedOn(cur, Selected)}
          ELSE {})

\* runAction, up to its first wait: the question, or the call of the runtime.
\* While an inspection runs a request only draws a notification.
RunAction(r) ==
    /\ Listening /\ op = NoOp /\ r \in Reachable /\ r.type \in Requests
    /\ moves + asked < MaxEvents /\ asked' = asked + 1
    /\ op' = [type |-> r.type, worker |-> r.worker, at |-> IF Asks(r.type) THEN "dialog" ELSE "call"]
    /\ hidden' = Asks(r.type) /\ suspended' = TRUE
    /\ feedback' = "loading" /\ hold' = FALSE
    /\ pulse' = Animates(op', size, life)
    /\ UNCHANGED <<db, late, cur, panel, size, life, mouse, moves>>

\* The end of runAction: busy and suspended go; feedback only while it is open.
Finish(f) ==
    /\ op' = NoOp /\ suspended' = FALSE
    /\ IF life = "open" /\ f # "closed" THEN feedback' = f /\ hold' = (f = "success")
                                        ELSE UNCHANGED <<feedback, hold>>

\* The dialog is answered.  The panel comes back if it is still there.
Answer(yes) ==
    /\ op.at = "dialog"
    /\ hidden' = IF life = "open" THEN FALSE ELSE hidden
    /\ IF yes THEN op' = [op EXCEPT !.at = "call"] /\ UNCHANGED <<suspended, feedback, hold, pulse>>
              ELSE Finish("idle") /\ pulse' = Animates(NoOp, size, life)
    /\ UNCHANGED <<db, late, cur, panel, size, life, mouse, moves, asked>>

\* What a call that the runtime accepts does to the project.
Effect(s, a, w) ==
    CASE a = "pause-project"  -> [s EXCEPT !.paused = TRUE]
      [] a = "resume-project" -> [s EXCEPT !.paused = FALSE]
      [] a = "steer"          -> Updated(s, w, s.status[w])
      [] a = "pause-worker"   -> IF s.status[w] \in {"queued", "starting", "working"}
                                 THEN Updated(s, w, "pause_requested") ELSE s
      [] a = "resume-worker"  -> [Updated(s, w, "working") EXCEPT !.attempt[w] = @ + 1]
      [] a = "integrate"      -> Updated(s, w, "integrated")
      [] a = "abort"          -> Updated(s, w, "interrupted")
      [] OTHER                -> s

\* The call changes the project.  Only a project change is told later.
CallTakesEffect ==
    /\ op.at = "call" /\ op.type # "show-status"
    /\ \E c \in Circumstances : Accepts(db, c, op.type, op.worker)
    /\ db' = Effect(db, op.type, op.worker)
    /\ op' = [op EXCEPT !.at = "ending"]
    /\ IF ProjectOp(op.type)
       THEN late' = Append(late, [state |-> db', mine |-> TRUE]) /\ UNCHANGED <<cur, expanded, detail, pulse>>
       ELSE late' = late /\ Told(db')
    /\ UNCHANGED <<tab, selected, suspended, feedback, hold, hidden, size, life, mouse, moves, asked>>

\* A resume that finds the preserved worktree lost marks the Worker failed, and throws.
ResumeMarksFailed ==
    /\ op.at = "call" /\ op.type = "resume-worker"
    /\ \E c \in Circumstances : Accepts(db, c, op.type, op.worker)
    /\ db' = Updated(db, op.worker, "failed") /\ Told(db')
    /\ op' = [op EXCEPT !.at = "failing"]
    /\ UNCHANGED <<late, tab, selected, suspended, feedback, hold, hidden, size, life, mouse, moves, asked>>

\* The change that this operation made of the project has been told.
Emitted == \A k \in DOMAIN late : ~late[k].mine

\* pauseActive, the rest of pauseProject, reads which Workers run; a Worker that has
\* no session yet is passed over ...
FindActive ==
    /\ op.at = "ending" /\ op.type = "pause-project" /\ Emitted
    /\ \E S \in SUBSET {w \in Workers : db.status[w] \in Active} :
           op' = [type |-> op.type, worker |-> NoWorker, at |-> "stopping", todo |-> S]
    /\ UNCHANGED <<db, late, cur, panel, suspended, feedback, hold, pulse, hidden, size, life, mouse, moves, asked>>

\* ... and asks them one by one to pause.
AskToPause(w) ==
    /\ op.at = "stopping" /\ w \in op.todo
    /\ op' = [op EXCEPT !.todo = @ \ {w}]
    /\ \E c \in Circumstances : Accepts(db, c, "pause-worker", w)
    /\ IF db.status[w] \in {"queued", "starting", "working"}
       THEN db' = Updated(db, w, "pause_requested") /\ Told(db')
       ELSE UNCHANGED <<db, cur, expanded, detail, pulse>>
    /\ UNCHANGED <<late, tab, selected, suspended, feedback, hold, hidden, size, life, mouse, moves, asked>>

Succeed ==
    /\ \/ op.at = "ending" /\ op.type # "pause-project" /\ Emitted
       \/ op.at = "stopping" /\ op.todo = {}
    /\ Finish("success") /\ pulse' = Animates(NoOp, size, life)
    /\ UNCHANGED <<db, late, cur, panel, hidden, size, life, mouse, moves, asked>>

\* The runtime refuses, or fails on the way.
Fails ==
    /\ op.at \in {"call", "ending", "stopping", "failing"} /\ Emitted
    /\ Finish("error") /\ pulse' = Animates(NoOp, size, life)
    /\ UNCHANGED <<db, late, cur, panel, hidden, size, life, mouse, moves, asked>>

\* show-status reads the project and leaves.
Leaves ==
    /\ op.at = "call" /\ op.type = "show-status"
    /\ life' = IF life = "open" THEN "closed" ELSE life
    /\ op' = NoOp /\ suspended' = FALSE /\ pulse' = FALSE
    /\ UNCHANGED <<db, late, cur, panel, feedback, hold, hidden, size, mouse, moves, asked>>

\* inspect reads the record, and then the result of the same attempt.
InspectReads ==
    /\ op.at = "read"
    /\ op' = [type |-> "inspect", worker |-> op.worker, at |-> "compare", ident |-> op.ident,
              evidence |-> Identity(db, op.worker)]
    /\ UNCHANGED <<db, late, cur, panel, suspended, feedback, hold, pulse, hidden, size, life, mouse, moves, asked>>

\* Mutant: the answer is shown, whatever happened meanwhile.
InspectEndsAnyway(ok) ==
    /\ op.at = "compare"
    /\ detail' = [detail EXCEPT ![op.worker] =
           IF life # "open" THEN @
           ELSE IF ok THEN [kind |-> "loaded", evidence |-> op.evidence] ELSE Failure]
    /\ op' = NoOp /\ suspended' = FALSE /\ pulse' = Animates(NoOp, size, life)
    /\ UNCHANGED <<db, late, cur, tab, selected, expanded, feedback, hold, hidden, size, life, mouse, moves, asked>>

\* The answer is shown if the panel still shows the Worker it was asked about.
InspectEnds(ok) ==
    /\ op.at = "compare"
    /\ detail' = [detail EXCEPT ![op.worker] =
           IF life # "open" THEN @
           ELSE IF op.ident # Identity(cur, op.worker) THEN None
           ELSE IF ok THEN [kind |-> "loaded", evidence |-> op.evidence] ELSE Failure]
    /\ op' = NoOp /\ suspended' = FALSE /\ pulse' = Animates(NoOp, size, life)
    /\ UNCHANGED <<db, late, cur, tab, selected, expanded, feedback, hold, hidden, size, life, mouse, moves, asked>>

-----------------------------------------------------------------------------
(* The surface and the end *)

\* setActionState(..., clearAfter): a success is shown for a while.
HoldEnds ==
    /\ hold /\ hold' = FALSE
    /\ feedback' = IF life = "open" THEN "idle" ELSE feedback
    /\ UNCHANGED <<db, late, cur, panel, op, suspended, pulse, hidden, size, life, mouse, moves, asked>>

\* render finds the terminal resized.
Render(sz) ==
    /\ life = "open" /\ ~hidden /\ sz # size /\ size' = sz
    /\ pulse' = Animates(op, sz, life)
    /\ UNCHANGED <<db, late, cur, panel, op, suspended, feedback, hold, hidden, life, mouse, moves, asked>>

\* Escape, the close control and a decision are actions that end at once: busy
\* comes and goes, and the panel is left as they found it, saying `loading'.
CloseByAction ==
    /\ Listening /\ op = NoOp
    /\ life' = "closed" /\ feedback' = "loading" /\ hold' = FALSE /\ pulse' = FALSE
    /\ UNCHANGED <<db, late, cur, panel, op, suspended, hidden, size, mouse, moves, asked>>

\* Escape while an operation runs, which goes on without the panel, or on the
\* fallback surface; a click outside the panel.  The timers stop with the overlay.
Close ==
    /\ life = "open" /\ ~hidden
    /\ op # NoOp \/ Fallback(size) \/ mouse
    /\ life' = "closed"
    /\ UNCHANGED <<db, late, cur, panel, op, suspended, feedback, hold, pulse, hidden, size, mouse, moves, asked>>

\* Pi disposes the overlay, after done or with the session.
Dispose ==
    /\ life # "disposed" /\ life' = "disposed"
    /\ hold' = FALSE /\ pulse' = FALSE /\ mouse' = FALSE
    /\ UNCHANGED <<db, late, cur, panel, op, suspended, feedback, hidden, size, moves, asked>>

Next ==
    \/ \E w \in Workers : \/ \E st \in {s[2] : s \in Steps} : WorkerMoves(w, st)
                          \/ WorkerCommits(w)
                          \/ ToggleDetails(w) \/ SelectWorker(w) \/ OpenWorker(w) \/ AskToPause(w)
    \/ ProjectMoves \/ TellLate
    \/ \E t \in Tabs : SwitchTab(t)
    \/ \E r \in Reachable : RunAction(r)
    \/ Answer(TRUE) \/ Answer(FALSE)
    \/ CallTakesEffect \/ ResumeMarksFailed \/ FindActive \/ Succeed \/ Fails \/ Leaves
    \/ InspectReads \/ InspectEnds(TRUE) \/ InspectEnds(FALSE)
    \/ HoldEnds \/ \E sz \in Sizes : Render(sz)
    \/ CloseByAction \/ Close \/ Dispose

Spec == Init /\ [][Next]_vars

-----------------------------------------------------------------------------
(* Properties *)

TypeOK ==
    /\ DOMAIN db.status = Workers /\ cur.paused \in BOOLEAN
    /\ tab \in Tabs /\ selected \in Workers \cup {NoWorker} /\ expanded \subseteq Workers
    /\ \A w \in Workers : detail[w].kind \in {"none", "loading", "loaded", "error"}
    /\ op.at \in {"none", "dialog", "call", "ending", "stopping", "failing", "read", "compare"}
    /\ feedback \in {"idle", "loading", "success", "error"}
    /\ {suspended, hold, pulse, hidden, mouse} \subseteq BOOLEAN
    /\ life \in {"open", "closed", "disposed"}

\* Keys reach the panel exactly when no operation needs the human's attention, the
\* feedback line says `loading' exactly as long as one runs, and the overlay comes
\* back after every dialog: a path of runAction that forgets one of them would
\* leave a panel that is dead, or one that starts a second operation.
PanelFollowsOperation ==
    life = "open" =>
        LET working == op # NoOp /\ op.type # "inspect" IN
        /\ suspended <=> working
        /\ (feedback = "loading") <=> working
        /\ hidden <=> op.at = "dialog"
        /\ (feedback = "success") <=> hold

\* The pulse timer runs exactly while there is something to animate, through every
\* order of operations, resizes and state changes; after disposal no timer is left
\* and the terminal's mouse reports are off.
TimersFollowTheSurface ==
    /\ life = "open" => pulse = Animates(op, size, life)
    /\ life = "disposed" => ~hold /\ ~pulse /\ ~mouse

\* Evidence on the screen is that of the attempt and the commit shown beside it, and
\* of the outcome when there is one, once the panel has been told the newest record:
\* although the evidence was read from disk while the Worker went on, and although
\* the panel may have been shown an older state in between.
EvidenceOfShownAttempt ==
    \A w \in Workers :
        detail[w].kind = "loaded" /\ Identity(cur, w) = Identity(db, w) =>
            LET e == detail[w].evidence IN
            /\ e[1] = cur.attempt[w] /\ e[3] = cur.commit[w]
            /\ cur.status[w] \in Terminal => e[2] = cur.status[w]
=============================================================================
