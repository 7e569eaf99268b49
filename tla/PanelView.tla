----------------------------- MODULE PanelView -----------------------------
(***************************************************************************)
(* The scrolling body of the control center (src/tui/control-panel.ts):    *)
(* which rows are in the viewport, which control has the focus, and what a *)
(* key, the wheel or a new state does to both.  What the rows say is       *)
(* ControlCenter's business; here a body is a number of rows and the rows  *)
(* every control occupies.                                                 *)
(*                                                                         *)
(* When the body is longer than the viewport its first or its last visible *)
(* row is replaced by a line "... n more above" or "... n more below", so  *)
(* that the controls of those rows cannot be seen, clicked or activated.   *)
(***************************************************************************)
EXTENDS Integers, Sequences, FiniteSets

CONSTANTS
    Controls,   \* control identifiers
    NoControl,
    Bodies,     \* the bodies the panel's state gives rise to
    Heights     \* body heights a terminal gives

MIN_BODY_HEIGHT == 3
WHEEL_LINES == 3

\* collectBodyControls: a body has `total' rows, `rows' of each of its controls,
\* a wrapped label taking several, and the controls in reading order.
NoControlAssumption == NoControl \notin Controls

BodiesAssumption ==
    \A b \in Bodies :
        /\ b.total \in Nat /\ b.ids \subseteq Controls
        /\ b.rows \in [b.ids -> SUBSET (0 .. b.total - 1)]
        /\ \A i \in b.ids : b.first[i] \in b.rows[i]
        /\ b.order \in Seq(b.ids) /\ b.ids = {b.order[k] : k \in 1 .. Len(b.order)}

HeightsAssumption == Heights \subseteq {h \in Nat : h >= MIN_BODY_HEIGHT}

VARIABLES
    body,       \* what the next render builds
    height,     \* bodyHeight
    top,        \* scrollTop
    focus,      \* focusId
    after,      \* focusAfterScroll: 0 when undefined
    atStart,    \* focusAtViewportStart
    drawn,      \* cachedLines are valid
    visible,    \* visibleBodyControls of the last render
    chosen      \* history: the control the user moved the focus to

vars == <<body, height, top, focus, after, atStart, drawn, visible, chosen>>

AtLeast0(n) == IF n < 0 THEN 0 ELSE n
Least(m, n) == IF m < n THEN m ELSE n

Maximum(b, h) == AtLeast0(b.total - h)

\* A row is readable: in the viewport and not replaced by a "more" line.
Readable(r, t, b, h) ==
    IF b.total <= h THEN r \in 0 .. b.total - 1
    ELSE /\ r >= t + (IF t > 0 THEN 1 ELSE 0)
         /\ r < t + h - (IF t + h < b.total THEN 1 ELSE 0)

\* Mutant: the line "more below" is forgotten.
RaisedFlat(t, r, b, h) ==
    IF r >= t + h THEN Least(Maximum(b, h), AtLeast0(r - h + 2)) ELSE t

Lowered(t, r) == IF r < t + (IF t > 0 THEN 1 ELSE 0) THEN AtLeast0(r - 1) ELSE t

Raised(t, r, b, h) ==
    IF r >= t + h - (IF t + h < b.total THEN 1 ELSE 0)
    THEN Least(Maximum(b, h), AtLeast0(r - h + 2))
    ELSE t

\* ensureControlVisible
EnsureVisible(t, r, b, h) == Raised(Lowered(t, r), r, b, h)

\* viewportFor
Clamped(t, b, h) == IF b.total <= h THEN 0 ELSE Least(t, b.total - h)

VisibleControls(t, b, h) == {i \in b.ids : \E r \in b.rows[i] : Readable(r, t, b, h)}

FirstOf(S, b) == IF S = {} THEN NoControl
                 ELSE b.order[CHOOSE k \in 1 .. Len(b.order) :
                                /\ b.order[k] \in S
                                /\ \A j \in 1 .. k - 1 : b.order[j] \notin S]
LastOf(S, b) == IF S = {} THEN NoControl
                ELSE b.order[CHOOSE k \in 1 .. Len(b.order) :
                               /\ b.order[k] \in S
                               /\ \A j \in k + 1 .. Len(b.order) : b.order[j] \notin S]

-----------------------------------------------------------------------------
\* The scroll position render starts from: a control that was just opened comes
\* to the start of the viewport, the focused one stays in it, and after a scroll
\* the focus follows the viewport instead.
ScrolledTop ==
    IF focus \notin body.ids THEN top
    ELSE IF atStart THEN Least(Maximum(body, height), AtLeast0(body.first[focus] - 1))
    ELSE IF after = 0 THEN EnsureVisible(top, body.first[focus], body, height)
    ELSE top

RenderTop == Clamped(ScrolledTop, body, height)

\* reconcileVisibleFocus
RenderFocus ==
    LET S == VisibleControls(RenderTop, body, height)
    IN  IF focus \in S THEN focus
        ELSE IF after = -1 THEN LastOf(S, body) ELSE FirstOf(S, body)

Init ==
    /\ body \in Bodies /\ height \in Heights
    /\ top = 0 /\ focus = NoControl /\ after = 0 /\ atStart = FALSE
    /\ drawn = FALSE /\ visible = {} /\ chosen = NoControl

Render ==
    /\ ~drawn
    /\ top' = RenderTop /\ focus' = RenderFocus
    /\ visible' = VisibleControls(RenderTop, body, height)
    /\ after' = 0 /\ drawn' = TRUE
    /\ atStart' = IF focus = NoControl THEN atStart ELSE FALSE
    /\ UNCHANGED <<body, height, chosen>>

\* focusIndex.  Every key handler renders first (ensureRendered): hence `drawn'.
FocusOn(i) ==
    /\ focus' = i /\ chosen' = i
    /\ top' = EnsureVisible(top, body.first[i], body, height)
    /\ drawn' = FALSE
    /\ UNCHANGED <<body, height, after, atStart, visible>>

\* Mutant: the position is not kept above the first row.
ScrollPast(n) ==
    /\ top' = Least(Maximum(body, height), top + n)
    /\ after' = IF n < 0 THEN -1 ELSE 1
    /\ drawn' = FALSE /\ chosen' = NoControl
    /\ UNCHANGED <<body, height, focus, atStart, visible>>

ScrollBy(n) ==
    /\ top' = AtLeast0(Least(Maximum(body, height), top + n))
    /\ after' = IF n < 0 THEN -1 ELSE 1
    /\ drawn' = FALSE /\ chosen' = NoControl
    /\ UNCHANGED <<body, height, focus, atStart, visible>>

Count == Len(body.order)

\* The control after (or before) the focused one, around the ends.
Neighbour(d) ==
    IF \E k \in 1 .. Count : body.order[k] = focus
    THEN LET k == CHOOSE k \in 1 .. Count : body.order[k] = focus
         IN  body.order[((k - 1 + d + Count) % Count) + 1]
    ELSE IF d > 0 THEN body.order[1] ELSE body.order[Count]

\* moveFocus
MoveFocus(d) ==
    /\ drawn
    /\ IF Count = 0 THEN ScrollBy(d) ELSE FocusOn(Neighbour(d))

\* Home and End; the page keys; the wheel.
FocusEdge == drawn /\ Count > 0 /\ (FocusOn(body.order[1]) \/ FocusOn(body.order[Count]))
Page  == drawn /\ (ScrollBy(height - 1) \/ ScrollBy(-(height - 1)))
Wheel == drawn /\ (ScrollBy(WHEEL_LINES) \/ ScrollBy(-WHEEL_LINES))

\* openWorker: another tab, with one of its controls at the start of the view.
OpenAt(b, i) ==
    /\ body' = b /\ top' = 0 /\ focus' = i /\ atStart' = TRUE
    /\ drawn' = FALSE /\ chosen' = i
    /\ UNCHANGED <<height, after, visible>>

\* setTab, and setActionState with anything to say, which also forgets the scroll:
\* from the top, no focus.
StartOver(b, forget) ==
    /\ body' = b /\ top' = 0 /\ focus' = NoControl /\ atStart' = FALSE
    /\ after' = IF forget THEN 0 ELSE after
    /\ drawn' = FALSE /\ chosen' = NoControl
    /\ UNCHANGED <<height, visible>>

\* Other rows, and the focus is on the control f where it exists.
Rebuilt(b, f, c) ==
    /\ body' = b /\ focus' = f /\ drawn' = FALSE
    /\ chosen' = IF c \in b.ids THEN c ELSE NoControl
    /\ UNCHANGED <<height, top, after, atStart, visible>>

\* setState, setWorkerDetailState, setDensity, expanding and collapsing.
Rebuild(b) == Rebuilt(b, focus, chosen)

\* What the activation of a control does to the view: it rebuilds the body (details,
\* selectWorker and selectDecision, which focus a control of their own), opens a
\* Worker, or changes the tab or the action shown.
Activated(i) ==
    \E b \in Bodies :
        \/ Rebuilt(b, i, i)
        \/ \E j \in b.ids : Rebuilt(b, j, j) \/ OpenAt(b, j)
        \/ \E forget \in BOOLEAN : StartOver(b, forget)

\* handleClick focuses what it hits, in the last render, and activates it.
Click(i) == drawn /\ i \in visible /\ Activated(i)

\* activateFocused
Enter == drawn /\ focus \in visible /\ Activated(focus)

\* setBodyHeight: the terminal was resized.
Resize(h) ==
    /\ h # height /\ height' = h /\ drawn' = FALSE
    /\ UNCHANGED <<body, top, focus, after, atStart, visible, chosen>>

Next ==
    \/ Render
    \/ \E d \in {1, -1} : MoveFocus(d)
    \/ FocusEdge \/ Page \/ Wheel
    \/ \E i \in Controls : Click(i)
    \/ Enter
    \/ \E b \in Bodies : Rebuild(b) \/ \E forget \in BOOLEAN : StartOver(b, forget)
    \/ \E h \in Heights : Resize(h)

Spec == Init /\ [][Next]_vars

-----------------------------------------------------------------------------
(* Properties *)

TypeOK ==
    /\ body \in Bodies /\ height \in Heights
    /\ top \in Nat /\ focus \in Controls \cup {NoControl}
    /\ after \in {-1, 0, 1} /\ atStart \in BOOLEAN /\ drawn \in BOOLEAN
    /\ visible \subseteq Controls /\ chosen \in Controls \cup {NoControl}

\* What is drawn stays inside the body: no empty rows below its last one while
\* there is more above, whatever was resized, replaced or scrolled before.
ViewportIsFull == drawn => top <= Maximum(body, height)

\* The control the user moved to is the one that has the focus in the next frame
\* and every later one until the user moves on, and it can be read there: neither
\* a "more" line, nor a resize, nor a new state takes it away from Enter.
ChosenIsFocused ==
    drawn /\ chosen # NoControl => focus = chosen /\ chosen \in visible

\* Both: the panel stays where the user left it.
KeepsItsPlace == ViewportIsFull /\ ChosenIsFocused
=============================================================================
