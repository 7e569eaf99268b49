--------------------------- MODULE SandboxCommand ---------------------------
(***************************************************************************)
(* One filesystem operation of a Worker's tools in its sandbox             *)
(* (runSandboxedCommand of src/runtime/worker-sandbox.ts): a shell that is *)
(* the leader of a process group, its three pipes, the timer, the abort    *)
(* signal of the tool call, and the events Node reports, in any order they *)
(* can come in.                                                            *)
(*                                                                         *)
(* Node reports `close' when the leader has exited and all its pipes are   *)
(* closed; another process of the group can hold them open.                *)
(***************************************************************************)
EXTENDS Naturals

CONSTANTS
    InputChunks,    \* what is written to stdin
    MaxOutput,      \* MAX_SANDBOX_STDOUT_BYTES
    MaxWrites       \* bound: chunks the group writes to stdout

VARIABLES
    leader,     \* the shell: none, runs, zero (exit code 0), failed or killed
    helper,     \* another process of the group that holds the pipes
    toWrite,    \* chunks of the input that the pipe has not taken
    stdin,      \* open, closed or broken (EPIPE), as Node sees it
    stdoutBytes, kept,  \* bytes seen, bytes in the buffer
    stdinError, aborted,
    timer, listener,    \* the timeout is set, the abort listener is registered
    result,     \* pending, resolved or rejected
    signalled,  \* history: the tool call was aborted
    closed      \* `close' was reported

process == <<leader, helper>>
output == <<stdoutBytes, kept>>
vars == <<process, toWrite, stdin, output, stdinError, aborted, timer, listener,
          result, signalled, closed>>

Runs == leader = "runs"

Init ==
    /\ leader = "none" /\ helper \in BOOLEAN
    /\ toWrite = InputChunks /\ stdin = "open"
    /\ stdoutBytes = 0 /\ kept = 0 /\ stdinError = FALSE /\ aborted = FALSE
    /\ timer = FALSE /\ listener = FALSE
    /\ result = "pending" /\ signalled \in BOOLEAN /\ closed = FALSE

-----------------------------------------------------------------------------
(* The promise *)

\* The executor: nothing is started for a call that is aborted already.
Start ==
    /\ leader = "none" /\ result = "pending"
    /\ IF signalled
       THEN result' = "rejected" /\ UNCHANGED <<leader, timer, listener>>
       ELSE leader' = "runs" /\ timer' = TRUE /\ listener' = TRUE /\ UNCHANGED result
    /\ UNCHANGED <<helper, toWrite, stdin, output, stdinError, aborted, signalled, closed>>

\* cleanup, and the promise is settled once.
Settle(outcome) ==
    /\ timer' = FALSE /\ listener' = FALSE
    /\ result' = IF result = "pending" THEN outcome ELSE result

\* The shell could not be started; `close' may still be reported.
SpawnFails ==
    /\ Runs /\ toWrite = InputChunks /\ stdoutBytes = 0
    /\ leader' = "failed" /\ helper' = FALSE /\ stdin' = "closed"
    /\ Settle("rejected")
    /\ UNCHANGED <<toWrite, output, stdinError, aborted, signalled, closed>>

\* killProcessGroup
KillGroup ==
    /\ leader' = IF Runs THEN "killed" ELSE leader
    /\ helper' = FALSE

\* The tool call is aborted, and if the listener is there the group is killed.
Abort ==
    /\ ~signalled /\ leader # "none" /\ signalled' = TRUE
    /\ IF listener THEN aborted' = TRUE /\ KillGroup ELSE UNCHANGED <<aborted, process>>
    /\ UNCHANGED <<toWrite, stdin, output, stdinError, timer, listener, result, closed>>

\* Mutant: only the shell is killed, not its group.
TimeoutLeader ==
    /\ timer /\ timer' = FALSE /\ leader' = IF Runs THEN "killed" ELSE leader
    /\ UNCHANGED <<helper, toWrite, stdin, output, stdinError, aborted, listener, result, signalled, closed>>

Timeout ==
    /\ timer /\ timer' = FALSE /\ KillGroup
    /\ UNCHANGED <<toWrite, stdin, output, stdinError, aborted, listener, result, signalled, closed>>

-----------------------------------------------------------------------------
(* The process group *)

Reads ==
    /\ (Runs \/ helper) /\ leader # "none" /\ toWrite > 0 /\ stdin = "open"
    /\ toWrite' = toWrite - 1
    /\ UNCHANGED <<process, stdin, output, stdinError, aborted, timer, listener, result, signalled, closed>>

\* The data event: too much output kills the shell, and the rest is dropped.
Output ==
    /\ (Runs \/ helper) /\ leader # "none" /\ stdoutBytes < MaxWrites
    /\ stdoutBytes' = stdoutBytes + 1
    /\ IF stdoutBytes' > MaxOutput
       THEN /\ stdinError' = TRUE /\ UNCHANGED kept
            /\ leader' = IF Runs THEN "killed" ELSE leader
       ELSE kept' = kept + 1 /\ UNCHANGED <<stdinError, leader>>
    /\ UNCHANGED <<helper, toWrite, stdin, aborted, timer, listener, result, signalled, closed>>

Exits(code) ==
    /\ Runs /\ leader' = code
    /\ UNCHANGED <<helper, toWrite, stdin, output, stdinError, aborted, timer, listener, result, signalled, closed>>

HelperExits ==
    /\ helper /\ leader # "none" /\ helper' = FALSE
    /\ UNCHANGED <<leader, toWrite, stdin, output, stdinError, aborted, timer, listener, result, signalled, closed>>

\* The input is written, or nobody is left to read it: EPIPE, which is remembered.
StdinEnds ==
    /\ stdin = "open" /\ leader # "none"
    /\ \/ /\ toWrite = 0 /\ stdin' = "closed" /\ UNCHANGED stdinError
       \/ /\ toWrite > 0 /\ ~Runs /\ ~helper
          /\ stdin' = "broken" /\ stdinError' = TRUE
    /\ UNCHANGED <<process, toWrite, output, aborted, timer, listener, result, signalled, closed>>

\* Mutant: the exit code alone decides.
CloseByCode ==
    /\ leader \in {"zero", "failed", "killed"} /\ ~helper /\ stdin # "open" /\ ~closed /\ closed' = TRUE
    /\ Settle(IF leader = "zero" THEN "resolved" ELSE "rejected")
    /\ UNCHANGED <<process, toWrite, stdin, output, stdinError, aborted, signalled>>

Close ==
    /\ leader \in {"zero", "failed", "killed"} /\ ~helper /\ stdin # "open" /\ ~closed /\ closed' = TRUE
    /\ Settle(IF leader = "zero" /\ ~aborted /\ ~stdinError THEN "resolved" ELSE "rejected")
    /\ UNCHANGED <<process, toWrite, stdin, output, stdinError, aborted, signalled>>

Next ==
    \/ Start \/ SpawnFails \/ Abort \/ Timeout
    \/ Reads \/ Output \/ HelperExits \/ StdinEnds \/ Close
    \/ \E code \in {"zero", "failed"} : Exits(code)

\* The call is made, timers fire, and Node reports what has happened.  Neither the
\* shell nor the group has to end by itself.
Fairness == WF_vars(Start) /\ WF_vars(Timeout) /\ WF_vars(StdinEnds) /\ WF_vars(Close)

Spec == Init /\ [][Next]_vars /\ Fairness

-----------------------------------------------------------------------------
(* Properties *)

TypeOK ==
    /\ leader \in {"none", "runs", "zero", "failed", "killed"} /\ helper \in BOOLEAN
    /\ toWrite \in 0 .. InputChunks /\ stdin \in {"open", "closed", "broken"}
    /\ stdoutBytes \in 0 .. MaxWrites /\ kept \in 0 .. MaxOutput
    /\ result \in {"pending", "resolved", "rejected"}
    /\ closed \in BOOLEAN

\* A tool is told that its operation succeeded only when all of it happened: the
\* input was taken, the output is complete, and the call was not aborted before the
\* shell was reaped.  An exit code of 0 is not enough: a sink may exit early.
SuccessIsWhole ==
    result = "resolved" => /\ toWrite = 0 /\ kept = stdoutBytes
                           /\ leader = "zero" /\ ~aborted

\* When the tool has its answer nothing of the operation is left: no process that
\* could still write to the worktree, no timer and no listener on the call's signal.
NothingOutlivesTheAnswer ==
    result # "pending" => ~Runs /\ ~timer /\ ~listener /\ (leader = "none" \/ ~helper)

\* Both: what the tool is told is the end of it.
AnswersAreWhole == SuccessIsWhole /\ NothingOutlivesTheAnswer

\* The tool gets an answer, also when a process that the shell left behind keeps the
\* pipes open, the input is never read or the output never ends.
CallIsAnswered == <>(result # "pending")
=============================================================================
