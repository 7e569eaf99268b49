------------------------- MODULE TranscriptActivity -------------------------
(***************************************************************************)
(* What moves on the screen while the Designer works: the pulse in the     *)
(* working row while it thinks (src/tui/thinking-presentation.ts and       *)
(* thinking-pulse.ts) and the one ticker that turns the spinners of the    *)
(* tool calls that run (src/tui/live-ticker.ts, liveSpinnerFrame of        *)
(* src/tui/tool-frame.ts).                                                 *)
(*                                                                         *)
(* Both are driven by Pi's events, by renders that Pi asks for when it     *)
(* likes, and by timers of their own; a turn may be aborted at any point,  *)
(* and the theme may change between two events.                            *)
(***************************************************************************)
EXTENDS Naturals

CONSTANTS
    Tools,          \* tool calls
    Themes,         \* host themes
    ReducedMotion,  \* INTENTUM_REDUCED_MOTION
    MaxBlocks,      \* bound: blocks of thinking that start
    MaxThemes       \* bound: theme changes

VARIABLES
    stream,     \* what the Designer streams: idle, quiet (between messages),
                \* thinking or other (text, a tool call)
    theme,
    pulses,     \* pulses built so far; the last one is the current one
    pulseTheme,
    active,     \* pulses that are active
    timers,     \* pulses whose next frame is scheduled
    live, seen, \* of the current pulse: a delta was seen, a token count was seen
    samples,    \* blocks whose rates are in its SpeedTracker
    row,        \* the working row: the indicator or a frame of a pulse
    rate,       \* blocks that the rate in the row is computed from
    block,      \* history: number of the block of thinking
    call,       \* tool calls: new, started, settled, by Tools
    liveTools,
    ticker,     \* the variable `ticker': none, or the interval that runs or is dead
    changes     \* bounded counter

pulseVars == <<pulses, pulseTheme, active, timers, live, seen, samples, row, rate, block>>
toolVars == <<liveTools, ticker>>
vars == <<stream, theme, pulseVars, call, toolVars, changes>>

Init ==
    /\ stream = "idle" /\ theme \in Themes
    /\ pulses = 0 /\ pulseTheme = theme /\ active = {} /\ timers = {}
    /\ live = FALSE /\ seen = FALSE /\ samples = {}
    /\ row = "idle" /\ rate = {} /\ block = 0
    /\ call = [t \in Tools |-> "new"]
    /\ liveTools = {} /\ ticker = "none" /\ changes = 0

-----------------------------------------------------------------------------
(* The pulse *)

\* formatPulse: the rate is shown only once this block had a delta.
ShowRate(isLive, S) == rate' = IF isLive THEN S ELSE {}

\* Mutant: the rates of the last block stay in the average.
AveragedAll(delta) == IF delta THEN samples \cup {block} ELSE samples

\* SpeedTracker as observe uses it: reset by the first delta of a block.
Averaged(delta) ==
    IF ~delta THEN samples
    ELSE (IF live THEN samples ELSE {}) \cup {block}

\* Another theme: the old pulse stops, which cancels its timer, and a new one starts.
Replaced ==
    /\ pulses' = pulses + 1 /\ pulseTheme' = theme
    /\ active' = {pulses + 1}
    /\ timers' = IF ReducedMotion THEN {} ELSE {pulses + 1}

\* The first event of a block of thinking, or the first under a new theme: the pulse
\* shows its first frame, with no rate, and schedules the next.
Observe(delta) ==
    LET isNew == pulses = 0 \/ pulseTheme # theme
        starts == isNew \/ active = {}
    IN  IF starts
        THEN /\ block < MaxBlocks /\ block' = block + 1
             /\ IF isNew THEN Replaced
                ELSE /\ active' = {pulses} /\ UNCHANGED <<pulses, pulseTheme>>
                     /\ timers' = IF ReducedMotion THEN {} ELSE {pulses}
             /\ samples' = IF isNew THEN {} ELSE samples
             /\ live' = FALSE /\ seen' = TRUE
             /\ row' = "pulse" /\ rate' = {}
        ELSE /\ live' = (live \/ (delta /\ seen)) /\ seen' = TRUE
             /\ \E S \in SUBSET Averaged(delta /\ seen) :
                   /\ samples' = S
                   /\ IF ReducedMotion THEN row' = "pulse" /\ ShowRate(live', S)
                                       ELSE UNCHANGED <<row, rate>>
             /\ UNCHANGED <<pulses, pulseTheme, active, timers, block>>

\* stop: cancels the timer; a pulse that was active gives the row back.
Stop ==
    /\ active' = active \ {pulses} /\ timers' = timers \ {pulses}
    /\ live' = FALSE /\ seen' = FALSE
    /\ row' = IF pulses \in active THEN "idle" ELSE row
    /\ rate' = IF pulses \in active THEN {} ELSE rate
    /\ UNCHANGED <<pulses, pulseTheme, samples, block>>

\* The timer of a pulse: the next frame, and the next timer.
Frame(p) ==
    /\ p \in timers
    /\ IF p \in active
       THEN /\ row' = "pulse" /\ UNCHANGED timers
            /\ \E S \in SUBSET samples : samples' = S /\ ShowRate(live, S)
       ELSE timers' = timers \ {p} /\ UNCHANGED <<row, rate, samples>>
    /\ UNCHANGED <<stream, theme, pulses, pulseTheme, active, live, seen, block, call, toolVars, changes>>

-----------------------------------------------------------------------------
(* The ticker *)

\* registerLiveTool
Register(t) ==
    /\ liveTools' = liveTools \cup {t}
    /\ ticker' = IF ticker = "none" THEN "runs" ELSE ticker

\* unregisterLiveTool
Unregister(t) ==
    /\ liveTools' = liveTools \ {t}
    /\ ticker' = IF t \in liveTools /\ liveTools = {t} THEN "none" ELSE ticker

\* Mutant: the interval is cleared but not forgotten, so that none starts again.
SettleDead ==
    /\ liveTools' = {} /\ ticker' = IF ticker = "none" THEN "none" ELSE "dead"

\* settleLiveTools
Settle == liveTools' = {} /\ ticker' = "none"

\* liveSpinnerFrame, when Pi renders the block of a call.
Render(t) ==
    /\ call[t] # "new"
    /\ IF call[t] = "settled" THEN Unregister(t) ELSE Register(t)
    /\ UNCHANGED <<stream, theme, pulseVars, call, changes>>

\* One tick repaints the block of every live call; those that settled are dropped.
Tick ==
    /\ ticker = "runs"
    /\ liveTools' = {t \in liveTools : call[t] # "settled"}
    /\ ticker' = IF liveTools' = {} THEN "none" ELSE "runs"
    /\ UNCHANGED <<stream, theme, pulseVars, call, changes>>

-----------------------------------------------------------------------------
(* Pi *)

\* message_update with an event of PULSE_EVENTS.
Thinks(delta) ==
    /\ stream # "idle" /\ stream' = "thinking"
    /\ Observe(delta)
    /\ UNCHANGED <<theme, call, toolVars, changes>>

\* message_update with an event of SETTLE_EVENTS.
Speaks ==
    /\ stream \in {"quiet", "thinking"} /\ stream' = "other"
    /\ Stop
    /\ UNCHANGED <<theme, call, toolVars, changes>>

MessageEnds ==
    /\ stream \in {"thinking", "other"} /\ stream' = "quiet"
    /\ Stop
    /\ UNCHANGED <<theme, call, toolVars, changes>>

AgentStarts ==
    /\ stream = "idle" /\ stream' = "quiet"
    /\ UNCHANGED <<theme, pulseVars, call, toolVars, changes>>

\* turn_end, or agent_end, at any point: the turn may have been aborted.
Ends(next) ==
    /\ stream # "idle" /\ stream' = next
    /\ Stop /\ Settle
    /\ UNCHANGED <<theme, call, changes>>

CallStarts(t) ==
    /\ stream = "quiet" /\ call[t] = "new"
    /\ call' = [call EXCEPT ![t] = "started"]
    /\ UNCHANGED <<stream, theme, pulseVars, toolVars, changes>>

CallSettles(t) ==
    /\ call[t] = "started"
    /\ call' = [call EXCEPT ![t] = "settled"]
    /\ UNCHANGED <<stream, theme, pulseVars, toolVars, changes>>

ThemeChanges(h) ==
    /\ h # theme /\ theme' = h /\ changes < MaxThemes /\ changes' = changes + 1
    /\ UNCHANGED <<stream, pulseVars, call, toolVars>>

Next ==
    \/ \E p \in 1 .. pulses : Frame(p)
    \/ \E t \in Tools : Render(t) \/ CallStarts(t) \/ CallSettles(t)
    \/ Tick
    \/ \E delta \in BOOLEAN : Thinks(delta)
    \/ Speaks \/ MessageEnds \/ AgentStarts
    \/ Ends("quiet") \/ Ends("idle")
    \/ \E h \in Themes : ThemeChanges(h)

\* The interval fires.
Spec == Init /\ [][Next]_vars /\ WF_vars(Tick)

-----------------------------------------------------------------------------
(* Properties *)

TypeOK ==
    /\ stream \in {"idle", "quiet", "thinking", "other"} /\ theme \in Themes
    /\ active \subseteq 1 .. pulses /\ timers \subseteq 1 .. pulses
    /\ row \in {"idle", "pulse"} /\ rate \subseteq 1 .. block
    /\ liveTools \subseteq Tools /\ ticker \in {"none", "runs"}

\* The row pulses exactly while the Designer thinks: no event order, aborted turn,
\* change of theme or late timer leaves a frame behind, stops the pulse of a block
\* that still streams, or lets two pulses write the row in turns.
RowFollowsThinking ==
    /\ row = "pulse" <=> stream = "thinking"
    /\ active = IF stream = "thinking" THEN {pulses} ELSE {}
    /\ timers \subseteq active

\* "a previous turn's rate never leaks forward" (SpeedTracker): the rate in the row
\* is the average of this block's own deltas.
RateIsOfThisBlock == rate \subseteq {block}

\* A spinner that is on the screen turns, and the one timer does not outlive them.
TickerFollowsTools == (ticker = "runs") <=> (liveTools # {})

\* A call that has settled stops spinning, whether or not Pi renders its block again.
SettledCallsRest == \A t \in Tools : call[t] = "settled" ~> t \notin liveTools
=============================================================================
