---------------------------- MODULE Presentation ----------------------------
(***************************************************************************)
(* What the surfaces say of a project: the harness model of                *)
(* src/tui/presentation.ts, the status widget, the control center's        *)
(* overview and Worker pane, the commands a bare /intentum suggests, and   *)
(* the launcher's `intentum status', which has its own copy of the rules.  *)
(* Texts are left out; what is kept is which Worker a surface speaks of,   *)
(* in which order, and which actions it offers.                            *)
(*                                                                         *)
(* A project here is a record                                              *)
(*   paused    state.phase = "paused" (schedulerPaused moves with it)      *)
(*   blocking  a pending decision blocks work                              *)
(*   status    WorkerRecord.status of every Worker                         *)
(*   order     the Workers, newest updatedAt first                         *)
(***************************************************************************)
EXTENDS Naturals, Sequences, FiniteSets

Active     == {"starting", "working", "pause_requested", "verifying"}
Attention  == {"failed", "blocked", "interrupted"}
Resumable  == {"paused", "interrupted", "blocked"}
Unfinished == Active \cup {"queued", "paused", "blocked", "interrupted"}
Terminal   == {"completed", "blocked", "failed"}

Take(seq, n) == SubSeq(seq, 1, IF Len(seq) < n THEN Len(seq) ELSE n)

\* sortedWorkers after updateWorker gave w a new updatedAt: the others keep their order.
NewestFirst(order, w) ==
    LET at == CHOOSE k \in DOMAIN order : order[k] = w
    IN  [k \in DOMAIN order |-> IF k = 1 THEN w ELSE IF k <= at THEN order[k - 1] ELSE order[k]]

\* sortedWorkers, then the Workers of some statuses; NoWorker stands for undefined.
NoWorker == "no Worker"
In(s, S) == SelectSeq(s.order, LAMBDA w : s.status[w] \in S)
First(s, S) == IF In(s, S) = <<>> THEN NoWorker ELSE Head(In(s, S))
Some(s, S) == First(s, S) # NoWorker

Do(k, w) == [kind |-> k, worker |-> w]

\* Mutant: interrupted work is looked at before blocked work.
RiskSwapped(s) ==
    First(s, IF Some(s, {"failed"}) THEN {"failed"}
             ELSE IF Some(s, {"interrupted"}) THEN {"interrupted"} ELSE {"blocked"})

\* The most urgent of the Workers that are stuck.
Stuck(s) == First(s, IF Some(s, {"failed"}) THEN {"failed"}
                     ELSE IF Some(s, {"blocked"}) THEN {"blocked"} ELSE {"interrupted"})

\* deriveHarnessPresentation: the next step and its action.
PrimaryAction(s) ==
    CASE s.paused                  -> Do("resume-project", NoWorker)
      [] ~s.paused /\ s.blocking   -> Do("open-decision", NoWorker)
      [] ~s.paused /\ ~s.blocking  ->
            IF Some(s, Attention) THEN Do("open-worker", Stuck(s))
            ELSE IF Some(s, {"completed"}) THEN Do("review-worker", First(s, {"completed"}))
            ELSE IF Some(s, {"verifying"}) THEN Do("open-worker", First(s, {"verifying"}))
            ELSE IF Some(s, Active) THEN Do("open-worker", First(s, Active))
            ELSE IF Some(s, {"paused"}) THEN Do("open-worker", First(s, {"paused"}))
            ELSE Do("continue-in-chat", NoWorker)

\* deriveHarnessPresentation: the severity of the whole project.
Severity(s) ==
    IF Some(s, {"failed", "interrupted"}) THEN "error"
    ELSE IF s.blocking \/ Some(s, {"blocked"}) THEN "warning"
    ELSE IF Some(s, {"completed"}) THEN "review"
    ELSE IF Some(s, Active) THEN "progress" ELSE "neutral"

\* attentionRank
ByRank(s) == In(s, {"failed"}) \o In(s, {"blocked"}) \o In(s, {"interrupted"})

\* renderStatusWidget: the Workers with a line, at most two of each kind.
MAX_RISK_LINES == 2
MAX_RESULT_LINES == 2
WidgetLines(s) == (IF s.blocking THEN <<NoWorker>> ELSE <<>>)
                    \o Take(ByRank(s), MAX_RISK_LINES)
                    \o Take(In(s, {"completed"}), MAX_RESULT_LINES)

\* renderStatusBrief keeps the first three lines and a count of every category.
BriefLines(s) == Take(WidgetLines(s), 3)
Counts(s) == [active |-> Len(In(s, Active)), review |-> Len(In(s, {"completed"})),
              attention |-> Len(In(s, Attention)), paused |-> Len(In(s, {"paused"})),
              queued |-> Len(In(s, {"queued"}))]

\* primaryActionLines, overviewAttention, overviewActive: the Workers the overview
\* can open; the attention rows are the newest ones, whatever is wrong with them.
OverviewWorkers(s) ==
    (IF PrimaryAction(s).worker = NoWorker THEN <<>> ELSE <<PrimaryAction(s).worker>>)
    \o Take(In(s, Attention), 2) \o Take(In(s, {"completed"}), 2) \o Take(In(s, Active), 3)

\* bin/intentum.mjs, statusNextStep: the launcher's copy of the same priorities.
Risk(s) == IF ByRank(s) = <<>> THEN NoWorker ELSE Head(ByRank(s))

LauncherNext(s) ==
    CASE s.paused                -> Do("resume-project", NoWorker)
      [] ~s.paused /\ s.blocking -> Do("open-decision", NoWorker)
      [] OTHER ->
           LET steps == <<Do("open-worker", Risk(s)),
                          Do("review-worker", First(s, {"completed"})),
                          Do("open-worker", First(s, {"verifying"})),
                          Do("open-worker", First(s, Active \ {"verifying"})),
                          Do("open-worker", First(s, {"paused"})),
                          Do("continue-in-chat", "nobody")>>
           IN  [steps[CHOOSE k \in 1 .. 6 : /\ steps[k].worker # NoWorker
                                            /\ \A j \in 1 .. k - 1 : steps[j].worker = NoWorker]
                EXCEPT !.worker = IF @ = "nobody" THEN NoWorker ELSE @]

\* showStatus: every Worker is listed, under attention or under work.
LauncherAttention(s) == ByRank(s) \o In(s, {"completed"}) \o In(s, {"integrated"})
LauncherWork(s) == In(s, {"queued", "starting", "working", "pause_requested", "verifying", "paused"})

-----------------------------------------------------------------------------
(* What is offered, and what the Worker manager takes *)

\* Mutant: a pane that offers a resume without looking at the project.
OfferedAnyway(s, w) ==
    (IF s.status[w] \in Resumable THEN {"resume-worker", "steer"} ELSE {})
    \cup (IF s.status[w] = "completed" THEN {"integrate"} ELSE {})
    \cup (IF s.status[w] \in Active THEN {"abort"} ELSE {})

\* workerActionLines: the actions in the pane of a Worker.
OfferedOn(s, w) ==
    LET st == s.status[w] IN
       (IF st \in Active \ {"verifying"} THEN {"steer"} ELSE {})
    \cup (IF st \in {"starting", "working"} THEN {"pause-worker"} ELSE {})
    \cup (IF st \in Resumable
          THEN {IF s.paused THEN "resume-project" ELSE "resume-worker", "steer"} ELSE {})
    \cup (IF st = "completed" THEN {"integrate"} ELSE {})
    \cup (IF st \in Active THEN {"abort"} ELSE {})

\* The Worker of some statuses that was created first, if there is one.
FirstCreated(s, created, S) ==
    {created[k] : k \in {i \in DOMAIN created :
        /\ s.status[created[i]] \in S
        /\ \A j \in 1 .. i - 1 : s.status[created[j]] \notin S}}

\* relevantHelp: the commands suggested outside the TUI.  It takes the Workers in the
\* order of the record, in which they were created.
Suggested(s, created) ==
    {Do(IF s.paused THEN "resume-project" ELSE "pause-project", NoWorker)}
    \cup {Do("resume-worker", w) : w \in FirstCreated(s, created, {"paused", "interrupted"})}
    \cup {Do("integrate", w) : w \in FirstCreated(s, created, {"completed"})}
    \cup {Do("steer", w) : w \in FirstCreated(s, created, Active)}

\* What the manager looks at beside the state: a session is attached to the Worker; its
\* worktree, branch and commits are recorded, and are as recorded; the project is
\* trusted; an emergency abort is under way.
Circumstances == [session : BOOLEAN, preserved : BOOLEAN, trusted : BOOLEAN, aborting : BOOLEAN]

\* The guards of WorkerManager and ProjectController, but for the lease they all need.
Accepts(s, c, a, w) ==
    CASE a = "resume-project" -> TRUE
      [] a = "pause-project"  -> TRUE
      [] a = "steer"          -> \/ s.status[w] \in Resumable \cup {"pause_requested"}
                                 \/ s.status[w] \in Active /\ c.session
      [] a = "pause-worker"   -> \/ s.status[w] \in {"paused", "verifying", "pause_requested"}
                                 \/ s.status[w] \in {"queued", "starting"} /\ ~c.session
                                 \/ s.status[w] \in {"starting", "working"} /\ c.session
      [] a = "resume-worker"  -> /\ ~s.paused /\ s.status[w] \in Resumable
                                 /\ \A v \in DOMAIN s.status \ {w} : s.status[v] \notin Unfinished
                                 /\ c.preserved /\ c.trusted /\ ~c.aborting
      [] a = "integrate"      -> s.status[w] = "completed" /\ c.preserved
      [] a = "abort"          -> s.status[w] \in Unfinished \ {"queued"}

-----------------------------------------------------------------------------
(* Surfaces *)

PANEL_CHROME_ROWS == 6
MAX_PANEL_WIDTH == 100
MAX_BODY_ROWS == 24
Lesser(m, n) == IF m < n THEN m ELSE n
Greater(m, n) == IF m < n THEN n ELSE m

\* panelBodyRowsFor
BodyRows(rows) == Greater(3, Lesser(MAX_BODY_ROWS, rows - PANEL_CHROME_ROWS - 2))

\* panelSurfaceFor: too small a terminal shows text only, fullscreen is filled,
\* and otherwise a dialog is centred (setOverlayOptions: in two rows less).
Surface(sz, fullscreen) ==
    IF sz[1] < 60 \/ sz[2] < 16 THEN [kind |-> "fallback", width |-> sz[1], body |-> 0, room |-> sz[2]]
    ELSE IF fullscreen
    THEN [kind |-> "workspace", width |-> sz[1], body |-> Greater(3, sz[2] - PANEL_CHROME_ROWS), room |-> sz[2]]
    ELSE [kind |-> "dialog", width |-> Greater(1, Lesser(MAX_PANEL_WIDTH, sz[1])),
          body |-> BodyRows(sz[2]), room |-> sz[2] - 2]
=============================================================================
