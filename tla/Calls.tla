------------------------------- MODULE Calls -------------------------------
(***************************************************************************)
(* What somebody waits for, side by side: a call of the store, a command   *)
(* in the sandbox, the spinners of tool calls, and the mounts of that      *)
(* sandbox.  `part' says which one a behaviour is about; the others rest   *)
(* in an initial state.                                                    *)
(***************************************************************************)
EXTENDS ProjectStore

CONSTANTS
    InputChunks, MaxOutput, MaxWrites,                          \* of SandboxCommand
    Tools, Themes, ReducedMotion, MaxBlocks, MaxThemes,         \* of TranscriptActivity
    Paths, System, Home, Secrets, Worktrees, Runtimes           \* of SandboxMounts

VARIABLES
    part,
    leader, helper, toWrite, stdin, stdoutBytes, kept, stdinError, aborted, timer, listener,
    result, signalled, closed,
    stream, theme, pulses, pulseTheme, active, timers, live, seen, samples, row, rate, block,
    tool, liveTools, ticker, changes,
    worktree, runtime, kind, bwrap, stage, todo, view

shellVars    == <<leader, helper, toWrite, stdin, stdoutBytes, kept, stdinError, aborted, timer,
                  listener, result, signalled, closed>>
activityVars == <<stream, theme, pulses, pulseTheme, active, timers, live, seen, samples, row,
                  rate, block, tool, liveTools, ticker, changes>>
mountVars    == <<worktree, runtime, kind, bwrap, stage, todo, view>>

Shell == INSTANCE SandboxCommand
Activity == INSTANCE TranscriptActivity WITH call <- tool
Mounts == INSTANCE SandboxMounts

ASSUME BoundsAreNatural == InputChunks \in Nat /\ MaxOutput \in Nat /\ MaxWrites \in Nat

\* The host is a tree of paths; see SandboxMounts.
ASSUME HostIsATree == Mounts!PathsAssumption

-----------------------------------------------------------------------------
Parts == {"store", "shell", "activity", "mounts"}

CallsInit == part \in Parts /\ Init /\ Shell!Init /\ Activity!Init /\ Mounts!Init

CallsNext ==
    /\ UNCHANGED part
    /\ \/ part = "store" /\ Next /\ UNCHANGED <<shellVars, activityVars, mountVars>>
       \/ part = "shell" /\ Shell!Next /\ UNCHANGED <<vars, activityVars, mountVars>>
       \/ part = "activity" /\ Activity!Next /\ UNCHANGED <<vars, shellVars, mountVars>>
       \/ part = "mounts" /\ Mounts!Next /\ UNCHANGED <<vars, shellVars, activityVars>>

CallsVars == <<part, vars, shellVars, activityVars, mountVars>>

\* The fairness of each part, as its module states it.
StoreGoesOn == \A p \in Procs, c \in Calls : WF_vars(part = "store" /\ Step(p, c))

ShellGoesOn ==
    /\ WF_shellVars(part = "shell" /\ Shell!Start)
    /\ WF_shellVars(part = "shell" /\ Shell!Timeout)
    /\ WF_shellVars(part = "shell" /\ Shell!StdinEnds)
    /\ WF_shellVars(part = "shell" /\ Shell!Close)

CallsGoOn == StoreGoesOn /\ ShellGoesOn /\ WF_activityVars(part = "activity" /\ Activity!Tick)

CallsSpec == CallsInit /\ [][CallsNext]_CallsVars /\ CallsGoOn

-----------------------------------------------------------------------------
(* Properties: those of the modules, by name; NoLostUpdate,                  *)
(* ShownPhaseIsCurrent and KeepsItsPromises are ProjectStore's               *)

\* What the modules say of the types of their variables (TypeOK in each).
TypesOK == TypeOK /\ Shell!TypeOK /\ Activity!TypeOK /\ Mounts!TypeOK

\* SandboxCommand: success is the whole operation, and nothing outlives the answer.
AnswersAreWhole == Shell!AnswersAreWhole

\* SandboxMounts: the shell of a Worker has its tools, writes to its worktree only, and
\* sees nothing else of the host.
SandboxIsTight == Mounts!SandboxIsTight

\* TranscriptActivity: the working row and the spinners show what goes on, and no more.
ActivityIsShown ==
    Activity!RowFollowsThinking /\ Activity!RateIsOfThisBlock /\ Activity!TickerFollowsTools

\* ProjectStore, SandboxCommand, TranscriptActivity: whoever waits gets an answer.
CallsEnd ==
    /\ UpdatesEnd
    /\ part = "shell" => Shell!CallIsAnswered
    /\ Activity!SettledCallsRest
=============================================================================
