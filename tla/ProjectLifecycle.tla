-------------------------- MODULE ProjectLifecycle --------------------------
(***************************************************************************)
(* What the controller promises about the project itself: its phase, the   *)
(* phase a pause remembers, and the scheduler's flag, whoever moves it.    *)
(* ProjectStore, which has the queue, the lock, the files and the crashes, *)
(* is checked to implement this module.                                    *)
(***************************************************************************)

VARIABLE project    \* the project's part of state.json, NoProject before it exists

ActivePhases == {"discovery", "direction", "architecture", "build", "verify",
                 "review", "ship", "maintain"}
Phases == ActivePhases \cup {"paused"}

NoProject == [phase |-> "none", before |-> "none", schedulerPaused |-> FALSE]

AllowedTransitions ==
    [discovery    |-> {"direction", "paused"},
     direction    |-> {"architecture", "discovery", "paused"},
     architecture |-> {"build", "direction", "paused"},
     build        |-> {"verify", "architecture", "paused"},
     verify       |-> {"review", "build", "paused"},
     review       |-> {"ship", "build", "paused"},
     ship         |-> {"maintain", "review", "paused"},
     maintain     |-> {"build", "verify", "paused"},
     paused       |-> ActivePhases]

MayMove(s, target) == target \in AllowedTransitions[s.phase] \cup {s.phase}

\* The state a transition leads to, when MayMove lets it.
Transitioned(s, target) ==
    IF s.phase = target THEN s
    ELSE IF target = "paused"
    THEN [phase |-> "paused", before |-> s.phase, schedulerPaused |-> TRUE]
    ELSE [phase |-> target, before |-> "none", schedulerPaused |-> FALSE]

Paused(s) ==
    IF s.phase = "paused" THEN [phase |-> "paused", before |-> s.before, schedulerPaused |-> TRUE]
    ELSE Transitioned(s, "paused")

Resumed(s) ==
    IF s.phase = "paused" THEN Transitioned(s, IF s.before = "none" THEN "discovery" ELSE s.before)
    ELSE [phase |-> s.phase, before |-> s.before, schedulerPaused |-> FALSE]

Fresh == [phase |-> "discovery", before |-> "none", schedulerPaused |-> FALSE]

-----------------------------------------------------------------------------
Init == project = NoProject

Exists == project # NoProject

Initialize == ~Exists /\ project' = Fresh

Move(target) ==
    /\ Exists
    /\ MayMove(project, target)
    /\ project' = Transitioned(project, target)

Pause  == Exists /\ project' = Paused(project)
Resume == Exists /\ project' = Resumed(project)

Next == Initialize \/ Pause \/ Resume \/ \E t \in ActivePhases : Move(t)

Spec == Init /\ [][Next]_project

-----------------------------------------------------------------------------
(* Properties *)

States == [phase : Phases, before : ActivePhases \cup {"none"}, schedulerPaused : BOOLEAN]

TypeOK == project \in States \cup {NoProject}

\* What assertProjectState demands: the scheduler is paused, and a phase to go
\* back to is remembered, exactly while the project is paused.
PauseIsCoherent ==
    /\ project.phase = "paused" <=> project.schedulerPaused
    /\ project.phase = "paused" <=> project.before # "none"

\* A pause never forgets where the project was, however often it is repeated, and
\* a phase is left only along an allowed transition.
PhasesFollowTheTable ==
    [][/\ project.phase = "paused" /\ project'.phase = "paused" => project'.before = project.before
       /\ project.phase \in ActivePhases /\ project'.phase = "paused" => project'.before = project.phase
       /\ Exists => project'.phase \in AllowedTransitions[project.phase] \cup {project.phase}]_project
=============================================================================
