---------------------------- MODULE SandboxMounts ----------------------------
(***************************************************************************)
(* The filesystem a Worker's shell is given (createWorkerSandboxTools and  *)
(* buildBubblewrapCommand of src/runtime/worker-sandbox.ts): an empty root *)
(* into which bubblewrap puts, one argument after another, scratch         *)
(* directories, the system's toolchain read-only, the worktree writable    *)
(* and the controller's directories in it read-only again.  Every          *)
(* operation covers what the earlier ones put below it, so that their      *)
(* order is what the boundary rests on.                                    *)
(*                                                                         *)
(* A path is the sequence of its components.  What bubblewrap does with an *)
(* argument is external.                                                   *)
(***************************************************************************)
EXTENDS Naturals, Sequences, SequencesExt

CONSTANTS
    Paths,      \* the paths looked at: closed under taking parents
    System,     \* SYSTEM_READ_ONLY_PATHS
    Home,       \* the user's home
    Secrets,    \* directories of the home that no mount may expose
    Worktrees,  \* where the worktree may be
    Runtimes    \* where Node may be installed

Protected == {".git", ".intentum", ".pi"}   \* .git and CONTROLLER_OWNED_REPOSITORY_PATHS
MIN_HOME_RUNTIME_DEPTH == 3

VARIABLES
    worktree, runtime,
    kind,       \* of paths on the host: absent, real or link
    bwrap,      \* a trusted bubblewrap exists
    stage,      \* prepare, check, mount, done, refused or failed
    todo,       \* arguments not applied yet
    view        \* what the shell sees at a path

vars == <<worktree, runtime, kind, bwrap, stage, todo, view>>

\* isInside: a path is inside itself.
IsInside(p, q) == IsPrefix(p, q)
Join(p, name) == Append(p, name)

\* Where the worktree, Node and the system may be is looked at, with what is put there.
PathsAssumption ==
    /\ Paths \subseteq Seq(STRING) /\ \A p \in Paths : p # <<>> => Front(p) \in Paths
    /\ Secrets \subseteq Paths /\ System \subseteq Paths /\ <<"tmp">> \in Paths
    /\ \A w \in Worktrees : \A name \in Protected : w \in Paths /\ Join(w, name) \in Paths
    /\ \A r \in Runtimes : \A name \in {"bin", "lib"} : r \in Paths /\ Join(r, name) \in Paths

Owned == {Join(worktree, name) : name \in Protected}
Toolchain == System \cup {Join(runtime, "bin"), Join(runtime, "lib")}

\* The worktree and the runtime are canonical paths that exist: what they are in is
\* real.  Other directories of the system may be missing or, like /bin, be links.
Init ==
    /\ worktree \in Worktrees /\ runtime \in Runtimes /\ bwrap \in BOOLEAN
    /\ LET Optional == {p \in System : ~IsInside(p, worktree) /\ ~IsInside(p, runtime)}
       IN  \E absent \in SUBSET (Optional \cup {Join(worktree, ".intentum")}),
              links \in SUBSET (Optional \cup {Join(worktree, ".pi")}) :
             kind = [p \in Paths |->
                        IF p \in links THEN "link"
                        ELSE IF \E q \in absent \cup links : IsInside(q, p) THEN "absent"
                        ELSE "real"]
    /\ stage = "prepare" /\ todo = {} /\ view = [p \in Paths |-> "absent"]

-----------------------------------------------------------------------------
(* Before the sandbox *)

Refuse == stage' = "refused" /\ UNCHANGED <<worktree, runtime, kind, bwrap, todo, view>>

\* ensureControllerDirectories: every one is a real directory, or is made one.
EnsureControllerDirectories ==
    /\ stage = "prepare"
    /\ IF \E p \in Owned : kind[p] = "link" THEN Refuse
       ELSE /\ stage' = "check"
            /\ kind' = [p \in Paths |-> IF p \in Owned THEN "real" ELSE kind[p]]
            /\ UNCHANGED <<worktree, runtime, bwrap, todo, view>>

\* assertSafeDynamicMount
SafeDynamicMount ==
    /\ runtime # <<>> /\ runtime # Home
    /\ IsInside(Home, runtime) => Len(runtime) - Len(Home) >= MIN_HOME_RUNTIME_DEPTH
    /\ \A p \in Secrets \cup {worktree} : ~IsInside(runtime, p) /\ ~IsInside(p, runtime)

\* deduplicateMounts
OutermostMounts(S) == {p \in S : \A q \in S : IsInside(q, p) => q = p}

\* existingMountLayout: links are recreated, what is real is mounted.
Real == OutermostMounts({p \in Toolchain : kind[p] = "real"})
Links == {p \in Toolchain : kind[p] = "link"}

\* requiredDestinationDirectories: the parents of every destination.
Parents(S) == {p \in Paths : p # <<>> /\ \E q \in S : p # q /\ IsInside(p, q)}

Each(what, S) == [does : {what}, at : S]

\* buildBubblewrapCommand: the arguments ...
Arguments ==
    Each("scratch", {<<"tmp">>})
    \cup Each("dir", Parents(Real \cup Links \cup {worktree} \cup Owned))
    \cup Each("link", Links)
    \cup Each("ro", Real)
    \cup Each("bind", {worktree})
    \cup Each("protect", Owned)

\* Mutant: the toolchain is mounted after the worktree.
ToolchainLast == [scratch |-> 1, dir |-> 2, link |-> 3, bind |-> 4, protect |-> 5, ro |-> 6]

\* ... and their order.  What is open is the order of mounts that are all of a kind,
\* which follows the length of their names.
Turn == [scratch |-> 1, dir |-> 2, link |-> 3, ro |-> 4, bind |-> 5, protect |-> 6]

Before(a, b) ==
    \/ Turn[a.does] < Turn[b.does]
    \/ a.does = "dir" /\ b.does = "dir" /\ Len(a.at) < Len(b.at)

Check ==
    /\ stage = "check"
    /\ IF ~bwrap \/ ~SafeDynamicMount \/ <<>> \in Real THEN Refuse
       ELSE /\ stage' = "mount" /\ todo' = Arguments
            /\ UNCHANGED <<worktree, runtime, kind, bwrap, view>>

-----------------------------------------------------------------------------
(* bubblewrap *)

Covered(p, how) ==
    [q \in Paths |-> IF ~IsInside(p, q) THEN view[q]
                     ELSE IF how # "scratch" /\ kind[q] = "absent" THEN "absent"
                     ELSE how]

\* A mount point that cannot be made, or a source that does not exist, ends bubblewrap.
Impossible(arg) ==
    \/ /\ view[arg.at] = "absent" /\ Len(arg.at) > 1
       /\ view[Front(arg.at)] \in {"ro", "rw"}
    \/ arg.does \in {"ro", "bind", "protect"} /\ kind[arg.at] = "absent"

Mounted(arg) ==
    CASE arg.does = "scratch" -> Covered(arg.at, "scratch")
      [] arg.does = "dir"     -> [view EXCEPT ![arg.at] = IF @ = "absent" THEN "scratch" ELSE @]
      [] arg.does = "link"    -> [view EXCEPT ![arg.at] = "link"]
      [] arg.does = "bind"    -> Covered(arg.at, "rw")
      [] OTHER                -> Covered(arg.at, "ro")

Apply(arg) ==
    /\ stage = "mount" /\ arg \in todo /\ \A other \in todo : ~Before(other, arg)
    /\ IF Impossible(arg)
       THEN stage' = "failed" /\ UNCHANGED <<todo, view>>
       ELSE /\ todo' = todo \ {arg}
            /\ stage' = IF todo = {arg} THEN "done" ELSE "mount"
            /\ view' = Mounted(arg)
    /\ UNCHANGED <<worktree, runtime, kind, bwrap>>

Next == EnsureControllerDirectories \/ Check \/ \E arg \in todo : Apply(arg)
Spec == Init /\ [][Next]_vars

-----------------------------------------------------------------------------
(* Properties *)

TypeOK ==
    /\ worktree \in Worktrees /\ runtime \in Runtimes
    /\ kind \in [Paths -> {"absent", "real", "link"}]
    /\ stage \in {"prepare", "check", "mount", "done", "refused", "failed"}
    /\ view \in [Paths -> {"absent", "scratch", "link", "ro", "rw"}]

\* "the worktree as its only persistent writable bind": in the finished sandbox all
\* of the worktree can be written but the controller's directories, and nothing of
\* the host outside it can, wherever the worktree and the toolchain are.
WorktreeIsTheOnlyWritable ==
    stage = "done" =>
        \A p \in Paths :
            (view[p] = "rw") <=> /\ kind[p] # "absent" /\ IsInside(worktree, p)
                                 /\ \A o \in Owned : ~IsInside(o, p)

\* The shell finds its tools: what the host has of the toolchain is readable in the
\* finished sandbox, except what a worktree inside it replaces.
ToolchainIsReadable ==
    stage = "done" =>
        \A t \in Toolchain, p \in Paths :
            /\ IsInside(t, p) /\ kind[t] = "real" /\ kind[p] = "real" /\ ~IsInside(worktree, p)
            => view[p] = "ro"

\* The host stays out of sight: a file of the host that the shell can see is the
\* worktree's or the toolchain's, and the user's secrets are neither, whatever prefix
\* Node was installed under.
HostIsHidden ==
    stage = "done" =>
        \A p \in Paths : view[p] \in {"ro", "rw"} =>
            \/ IsInside(worktree, p)
            \/ /\ \E t \in Toolchain : kind[t] = "real" /\ IsInside(t, p)
               /\ \A s \in Secrets : IsInside(s, p) => \E t \in System : IsInside(t, p)

\* bubblewrap never fails half-way in a layout that the checks let through: every
\* source exists and every mount point can be made.
LayoutIsPossible == stage # "failed"

\* All of it: the boundary, and that the tools work inside it.
SandboxIsTight ==
    WorktreeIsTheOnlyWritable /\ ToolchainIsReadable /\ HostIsHidden /\ LayoutIsPossible
=============================================================================
