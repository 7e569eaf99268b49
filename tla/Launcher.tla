------------------------------ MODULE Launcher ------------------------------
(***************************************************************************)
(* The `intentum' command (bin/intentum.mjs): doctor, which reports on the *)
(* machine, and the launch of Pi, for which it waits through the signals   *)
(* it handles, SIGINT and SIGTERM.  What the repository must be, and which *)
(* git is asked, is what the controller demands later                      *)
(* (WorktreeManager.create, trustedGitExecutable).                         *)
(*                                                                         *)
(* Pi itself is external: it runs until it exits, and may ignore or follow *)
(* a signal.                                                               *)
(***************************************************************************)
EXTENDS Naturals, Sequences, FiniteSets, SequencesExt

CONSTANTS
    Arguments,  \* what a user may pass on to Pi
    MaxSignals  \* bound: signals

VARIABLES
    machine,    \* see Machines
    state,      \* of the launcher: shell, locating, spawned (no handler yet), waiting
    report,     \* what doctor found wrong, if it ran last: [fail, warn], or NoReport
    hint,       \* the Git hint of the last launch, or none
    command,    \* arguments of the Pi that it started
    asked,      \* [args, init]: what the user typed
    pi,         \* none, runs, or how it ended: ok, error or signal
    code,       \* exit code of the last launcher that ended
    killed,     \* history: a signal without a handler ended the last launcher
    signals     \* bounded counter

vars == <<machine, state, report, hint, command, asked, pi, code, killed, signals>>

NoReport == [fail |-> {"not run"}, warn |-> {}]
DEFAULT_TUI_MODE == "fullscreen"

\* What doctor and a launch look at.  pi: locatePi finds one.  registered: Pi's
\* settings name the package.  git: one is on PATH.  trusted: one is where the
\* controller takes it from.  sandbox: Linux, with a bubblewrap where it is trusted.
Machines ==
    {m \in [node : {"old", "fine"}, pi : BOOLEAN, registered : BOOLEAN, git : BOOLEAN, trusted : BOOLEAN,
            repo : {"none", "below", "root"}, head : {"none", "detached", "branch"},
            sandbox : BOOLEAN, project : {"none", "unreadable", "ok"}] :
        /\ ~m.git /\ ~m.trusted => m.repo = "root" /\ m.head = "branch"
        /\ m.repo # "root" => m.head = "branch"}

\* inspectRepository, as doctor's Git line and launchPi's hint put it.
GitTrouble(m) ==
    CASE ~m.git                -> "git"
      [] m.repo = "none"       -> "repository"
      [] m.repo = "below"      -> "root"
      [] m.head = "none"       -> "commit"
      [] m.head = "detached"   -> "branch"
      [] OTHER                 -> "none"

\* runDoctor
Found(m) ==
    [fail |-> (IF m.node = "old" THEN {"node"} ELSE {})
              \cup (IF m.pi THEN {} ELSE {"pi"})
              \cup ({GitTrouble(m)} \ {"none"})
              \cup (IF m.project = "unreadable" THEN {"project"} ELSE {}),
     warn |-> IF m.sandbox THEN {} ELSE {"sandbox"}]

\* What the controller demands of the repository before it makes a worktree:
\* WorktreeManager.create's root, commit and branch, and a Git at a trusted path.
RepositoryIsFit(m) == m.trusted /\ m.repo = "root" /\ m.head = "branch"

-----------------------------------------------------------------------------
(* The arguments of Pi *)

IsMode(arg) == arg \in {"--tui-mode=fullscreen", "--tui-mode=regular"}
ModeOf(arg) == IF arg = "--tui-mode=regular" THEN "regular" ELSE "fullscreen"

\* Mutant: the form Pi does not parse is passed on.
ForwardedAsIs(args) == args

\* Pi parses only the form with a space.
Forwarded(args) ==
    FlattenSeq([k \in DOMAIN args |-> IF IsMode(args[k]) THEN <<"--tui-mode", ModeOf(args[k])>>
                                      ELSE <<args[k]>>])

\* launchPi
PiCommand(m, args, init) ==
    LET forwarded == Forwarded(args)
    IN  (IF m.registered THEN <<>> ELSE <<"-e", "intentum">>)
        \o (IF Contains(forwarded, "--tui-mode") THEN <<>> ELSE <<"--tui-mode", DEFAULT_TUI_MODE>>)
        \o forwarded
        \o (IF init THEN <<"--", "/intentum init">> ELSE <<>>)

-----------------------------------------------------------------------------
Init ==
    /\ machine \in Machines
    /\ state = "shell" /\ report = NoReport /\ hint = "none" /\ command = <<>>
    /\ asked = [args |-> <<>>, init |-> FALSE]
    /\ pi = "none" /\ code = 0 /\ killed = FALSE /\ signals = 0

\* No launcher is started beside a Pi that an earlier one has left behind: a bound.
Doctor ==
    /\ state = "shell" /\ pi # "runs" /\ pi' = "none"
    /\ report' = Found(machine) /\ hint' = "none" /\ command' = <<>>
    /\ code' = IF Found(machine).fail # {} THEN 1 ELSE 0
    /\ UNCHANGED <<machine, state, asked, killed, signals>>

\* runCli, for everything else and for init, whose passthrough ends its name.
Launch(args, init) ==
    /\ state = "shell" /\ pi # "runs" /\ state' = "locating"
    /\ asked' = [args |-> args, init |-> init] /\ hint' = "none" /\ command' = <<>>
    /\ report' = NoReport /\ pi' = "none" /\ killed' = FALSE
    /\ UNCHANGED <<machine, code, signals>>

Ended(c) == state' = "shell" /\ code' = c

CodeOf(end) == IF end = "ok" THEN 0 ELSE 1

\* launchPi up to the spawn: no Pi is said; a Git problem is a hint, never a stop.
LocateAndSpawn ==
    /\ state = "locating"
    /\ IF ~machine.pi THEN Ended(1) /\ UNCHANGED <<hint, command, pi>>
       ELSE /\ hint' = GitTrouble(machine)
            /\ command' = PiCommand(machine, asked.args, asked.init)
            /\ \/ state' = "spawned" /\ pi' = "runs" /\ UNCHANGED code
               \/ Ended(1) /\ UNCHANGED pi      \* the error event: main reports it
    /\ UNCHANGED <<machine, report, asked, killed, signals>>

\* process.on: from here on SIGINT is ignored and SIGTERM passed on.
InstallHandlers ==
    /\ state = "spawned" /\ state' = "waiting"
    /\ UNCHANGED <<machine, report, hint, command, asked, pi, code, killed, signals>>

\* Pi ends by itself, or by a signal that reached it.
PiExits(end) ==
    /\ pi = "runs" /\ pi' = end
    /\ UNCHANGED <<machine, state, report, hint, command, asked, code, killed, signals>>

\* waitForExit
PiIsReaped ==
    /\ state = "waiting" /\ pi \notin {"none", "runs"}
    /\ Ended(CodeOf(pi))
    /\ UNCHANGED <<machine, report, hint, command, asked, pi, killed, signals>>

Signalled == state # "shell" /\ signals < MaxSignals /\ signals' = signals + 1

\* Mutant: Ctrl+C ends the launcher as it ends any Node program.
CtrlCDefault ==
    /\ Signalled /\ state = "waiting" /\ Ended(130)
    /\ UNCHANGED <<machine, report, hint, command, asked, pi, killed>>

\* Ctrl+C reaches the launcher and Pi, a SIGTERM is passed on.  While it waits, the
\* launcher survives both; what Pi makes of them is Pi's (PiExits).
HandledSignal ==
    /\ Signalled /\ state = "waiting"
    /\ UNCHANGED <<machine, state, report, hint, command, asked, pi, code, killed>>

\* 128 and the number of the signal, as the shell reports it.
CodeOfSignal == [SIGHUP |-> 129, SIGINT |-> 130, SIGQUIT |-> 131, SIGKILL |-> 137, SIGTERM |-> 143]
HandledSignals == {"SIGINT", "SIGTERM"}

\* A signal for which there is no handler, or not yet, ends the launcher at once; a
\* Pi that runs goes on without it.
UnhandledSignal(sig) ==
    /\ Signalled /\ (state = "waiting" => sig \notin HandledSignals)
    /\ Ended(CodeOfSignal[sig]) /\ killed' = TRUE
    /\ UNCHANGED <<machine, report, hint, command, asked, pi>>

Next ==
    \/ Doctor
    \/ \E args \in Arguments, init \in BOOLEAN : Launch(args, init)
    \/ LocateAndSpawn \/ InstallHandlers
    \/ \E end \in {"ok", "error", "signal"} : PiExits(end)
    \/ PiIsReaped \/ HandledSignal
    \/ \E sig \in DOMAIN CodeOfSignal : UnhandledSignal(sig)

Spec == Init /\ [][Next]_vars

-----------------------------------------------------------------------------
(* Properties *)

TypeOK ==
    /\ machine \in Machines /\ state \in {"shell", "locating", "spawned", "waiting"}
    /\ pi \in {"none", "runs", "ok", "error", "signal"} /\ killed \in BOOLEAN
    /\ code \in {0, 1, 129, 130, 131, 137, 143} /\ signals \in 0 .. MaxSignals

\* Pi is not left behind with nobody waiting for it, by Ctrl+C, SIGTERM or any other
\* end of the launcher: the comment at the signal handlers, "the launcher must not exit
\* first and leave Pi orphaned".  The exception is a signal that finds no handler:
\* SIGHUP, SIGQUIT and SIGKILL at any time, and all before the handlers are installed.
PiIsNotOrphaned == pi = "runs" => state \in {"spawned", "waiting"} \/ killed

\* A shell script may rely on the code: it is 0 only after a Pi that ended well, and
\* never while a Pi that was left behind still runs.
CodeIsHonest == state = "shell" /\ pi # "none" /\ code = 0 => pi = "ok"

\* The screen modes among arguments, in their order, in either of the two forms.
ModesIn(args) ==
    LET at == SetToSortSeq({k \in DOMAIN args : args[k] = "--tui-mode" \/ IsMode(args[k])}, <)
    IN  [j \in DOMAIN at |-> IF IsMode(args[at[j]]) THEN ModeOf(args[at[j]]) ELSE args[at[j] + 1]]

\* Pi is started as it was asked to be: with the screen modes the user gave, in the
\* user's order and in the form Pi parses, or with the default one if there was none,
\* and with the first message last.
PiStartsAsAsked ==
    command # <<>> =>
        /\ ModesIn(command) =
               IF ModesIn(asked.args) = <<>> THEN <<DEFAULT_TUI_MODE>> ELSE ModesIn(asked.args)
        /\ \A k \in DOMAIN command : ~IsMode(command[k])
        /\ asked.init => Last(command) = "/intentum init"

\* inspectRepository's comment, "the way the controller will judge it": a launch gives
\* no hint exactly where the controller would take the repository, and doctor names a
\* Git problem only where it would not, and always then.  The exception is a machine
\* whose git on PATH is not at the trusted path, or the other way round.
GitIsJudgedAlike ==
    machine.git = machine.trusted =>
        /\ state \in {"spawned", "waiting"} => (hint = "none" <=> RepositoryIsFit(machine))
        /\ report # NoReport =>
               (RepositoryIsFit(machine) <=> report.fail \subseteq {"node", "pi", "project"})
=============================================================================
