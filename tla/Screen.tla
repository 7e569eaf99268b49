------------------------------- MODULE Screen -------------------------------
(***************************************************************************)
(* What the human sees and starts, side by side: the control center, the   *)
(* viewport of its panel, the texts of all surfaces, the model picker, and *)
(* the launcher.  They share no state; `part' says which one a behaviour   *)
(* is about.                                                               *)
(***************************************************************************)
EXTENDS ControlCenter

CONSTANTS
    Controls, NoControl, Bodies, Heights,                       \* of PanelView
    ShownWorkers, WorkerStatuses, TerminalSizes,                \* of Surfaces
    Names, Ready, Catalogue, Matches, Initial,
    MaxPins, MaxOpens, MaxChoices,                              \* of ModelPicker
    Arguments, MaxSignals                                       \* of Launcher

VARIABLES
    part,
    body, height, top, focus, after, atStart, drawn, visible, chosen,
    project, terminal,
    picker, pins, index, browser, query, filtered, sel, busy, flight, current, writes, disk,
    toggles, opens, choices, others, tainted, foreign,
    machine, state, report, hint, command, typed, pi, code, killed, signals

Panel  == INSTANCE PanelView
Shown  == INSTANCE Surfaces WITH Workers <- ShownWorkers, Sizes <- TerminalSizes, size <- terminal
Picker == INSTANCE ModelPicker WITH life <- picker
Start  == INSTANCE Launcher WITH asked <- typed

\* The statuses a record may have.
Statuses == Unfinished \cup {"completed", "failed", "integrated"}

ASSUME CenterAssumption ==
    /\ IsFiniteSet(Workers) /\ Workers # {} /\ NoWorker \notin Workers
    /\ StartStatuses \subseteq Statuses /\ Fullscreen \in BOOLEAN

ASSUME PanelAssumption ==
    Panel!NoControlAssumption /\ Panel!BodiesAssumption /\ Panel!HeightsAssumption

ASSUME SurfacesAssumption == TerminalSizes \subseteq Nat \X Nat

ASSUME PickerAssumption == Picker!NamesAssumption

ASSUME LauncherAssumption == MaxSignals \in Nat

panelVars    == <<body, height, top, focus, after, atStart, drawn, visible, chosen>>
surfaceVars  == <<project, terminal>>
pickerVars   == <<picker, pins, index, browser, query, filtered, sel, busy, flight, current,
                  writes, disk, toggles, opens, choices, others, tainted, foreign>>
launcherVars == <<machine, state, report, hint, command, typed, pi, code, killed, signals>>

Parts == {"panel", "surfaces", "center", "picker", "launcher"}

ScreenInit ==
    /\ part \in Parts
    /\ Init /\ Panel!Init /\ Shown!Init /\ Picker!Init /\ Start!Init

ScreenNext ==
    /\ UNCHANGED part
    /\ \/ /\ part = "center" /\ Next
          /\ UNCHANGED <<panelVars, surfaceVars, pickerVars, launcherVars>>
       \/ /\ part = "panel" /\ Panel!Next
          /\ UNCHANGED <<vars, surfaceVars, pickerVars, launcherVars>>
       \/ /\ part = "surfaces" /\ Shown!Next
          /\ UNCHANGED <<vars, panelVars, pickerVars, launcherVars>>
       \/ /\ part = "picker" /\ Picker!Next
          /\ UNCHANGED <<vars, panelVars, surfaceVars, launcherVars>>
       \/ /\ part = "launcher" /\ Start!Next
          /\ UNCHANGED <<vars, panelVars, surfaceVars, pickerVars>>

screenVars == <<part, vars, panelVars, surfaceVars, pickerVars, launcherVars>>

ScreenSpec == ScreenInit /\ [][ScreenNext]_screenVars

-----------------------------------------------------------------------------
(* Properties: those of the modules, by name *)

\* What the modules say of the types of their variables.
TypesOK == TypeOK /\ Panel!TypeOK /\ Picker!TypeOK /\ Start!TypeOK

\* PanelView: the viewport is full, and the control the user chose keeps the focus
\* where it can be read.
KeepsItsPlace == Panel!KeepsItsPlace

\* Surfaces: what the panel offers, and what the help suggests, is what the manager takes,
\* but for the reasons that MayBeRefused lists; and the panel fits its terminal.
OffersAreGood ==
    part = "surfaces" => Shown!OfferedIsAccepted /\ Shown!SuggestedIsAccepted /\ Shown!PanelFits

\* Surfaces and Launcher: what is said is what is meant.  The extension and the launcher
\* name the same next step, the widget and the brief are headed by what is urgent, and Pi
\* is started with the screen modes and the message that the user asked for.
SaidAsMeant ==
    /\ part = "surfaces" => Shown!SurfacesAgree /\ Shown!UrgentIsShown
    /\ Start!PiStartsAsAsked

\* ControlCenter: no panel is dead, none runs timers for nothing, none shows evidence
\* of another attempt.
CenterIsCurrent == PanelFollowsOperation /\ TimersFollowTheSurface /\ EvidenceOfShownAttempt

\* ModelPicker: the picker lists what is chosen from, and shows what is saved.
PickerIsTrue == Picker!ListIsOfActiveProvider /\ Picker!PinsAreSaved

\* Launcher: Pi is waited for unless a signal without a handler ends the launcher, its end
\* is told honestly, and Git is judged as later where PATH has the git asked later.
LaunchIsFaithful == Start!PiIsNotOrphaned /\ Start!CodeIsHonest /\ Start!GitIsJudgedAlike
=============================================================================
