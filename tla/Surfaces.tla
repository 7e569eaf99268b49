------------------------------ MODULE Surfaces ------------------------------
(***************************************************************************)
(* What the surfaces of Presentation promise of any project they may be    *)
(* shown: one that is read from state.json, and every one it becomes as    *)
(* its Workers are updated.                                                *)
(***************************************************************************)
EXTENDS Presentation, SequencesExt

CONSTANTS Workers, WorkerStatuses, Sizes

VARIABLES project, size

vars == <<project, size>>

Orders == {o \in [1 .. Cardinality(Workers) -> Workers] : \A i, j \in DOMAIN o : o[i] = o[j] => i = j}

Init ==
    /\ project \in [paused : BOOLEAN, blocking : BOOLEAN, status : [Workers -> WorkerStatuses],
                    order : {CHOOSE o \in Orders : TRUE}]
    /\ size \in Sizes

\* updateWorker: another status, and the newest updatedAt.
Update(w, st) ==
    /\ project' = [project EXCEPT !.status[w] = st,
                       !.order = NewestFirst(@, w)]
    /\ UNCHANGED size

Next == \E w \in Workers : \E st \in WorkerStatuses : Update(w, st)

Spec == Init /\ [][Next]_vars

-----------------------------------------------------------------------------
(* Properties *)

\* What no surface can know of a Worker, or does not look at, and the manager may still
\* refuse for: no session is attached yet, or any more; the worktree is not as recorded;
\* the project is not trusted, an abort is under way, or another Worker is unfinished.
MayBeRefused(s, c, a, w) ==
    \/ a = "steer" /\ s.status[w] \in {"starting", "working", "verifying"} /\ ~c.session
    \/ a = "pause-worker" /\ s.status[w] = "working" /\ ~c.session
    \/ a \in {"resume-worker", "integrate"} /\ ~c.preserved
    \/ a = "resume-worker" /\ (~c.trusted \/ c.aborting)
    \/ a = "resume-worker" /\ \E v \in Workers \ {w} : s.status[v] \in Unfinished

\* The control center's table of actions and the manager's guards are written twice: a
\* control that is offered on a current state is one the manager takes, but for what
\* MayBeRefused lists.
OfferedIsAccepted ==
    \A w \in Workers : \A a \in OfferedOn(project, w) : \A c \in Circumstances :
        Accepts(project, c, a, w) \/ MayBeRefused(project, c, a, w)

\* The order in which the Workers were created.
Created == CHOOSE o \in Orders : TRUE

\* The table of the help is a third one: each command it suggests is taken, with the
\* same exceptions, once the project has been resumed as the line before it says.
SuggestedIsAccepted ==
    LET resumed == [project EXCEPT !.paused = FALSE]
    IN  \A r \in Suggested(project, Created) : \A c \in Circumstances :
            Accepts(resumed, c, r.kind, r.worker) \/ MayBeRefused(resumed, c, r.kind, r.worker)

\* The launcher's `intentum status' names the same next step as the extension's
\* surfaces, for the same Worker, and leaves no Worker out.
SurfacesAgree ==
    /\ LauncherNext(project) = PrimaryAction(project)
    /\ Len(LauncherAttention(project)) + Len(LauncherWork(project)) = Cardinality(Workers)

\* No surface is silent about a failure or a result: the most urgent Worker, or else the
\* newest result, heads the widget, after the line of a decision, and survives the
\* brief's cut to three lines; the overview can open it, unless the project is paused or
\* a decision is due, when only the newest rows can be opened there; and a project
\* whose severity is `review' has the result as its next step.
UrgentIsShown ==
    LET urgent == IF Some(project, Attention) THEN Stuck(project) ELSE First(project, {"completed"})
        lead == IF project.blocking THEN 2 ELSE 1
    IN
    /\ urgent # NoWorker =>
           /\ Len(BriefLines(project)) >= lead /\ BriefLines(project)[lead] = urgent
           /\ ~project.paused /\ ~project.blocking => Contains(OverviewWorkers(project), urgent)
    /\ Severity(project) = "review" => PrimaryAction(project).kind \in {"review-worker", "resume-project"}
    /\ Severity(project) = "neutral" => Counts(project).attention + Counts(project).review + Counts(project).active = 0

\* The control center fits the terminal it is laid out for, in both modes.
PanelFits ==
    \A f \in BOOLEAN : LET s == Surface(size, f) IN
        s.kind # "fallback" => s.body + PANEL_CHROME_ROWS <= s.room /\ s.width <= size[1]
=============================================================================
