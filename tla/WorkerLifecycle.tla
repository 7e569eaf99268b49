--------------------------- MODULE WorkerLifecycle ---------------------------
(***************************************************************************)
(* What the controller promises about one Worker: the life of its record   *)
(* in .intentum/state.json, whatever sessions, callbacks, operators and    *)
(* crashes do around it.  WorkerControl, which has all of these, is        *)
(* checked to implement this module.                                       *)
(*                                                                         *)
(* An attempt is one delegation of the contract to a session: the first    *)
(* start, and every resume, which takes a fresh identity.  A session never *)
(* ends an attempt itself: it submits a disposition, and the record stays  *)
(* `verifying` until the session has settled.                              *)
(***************************************************************************)
EXTENDS Naturals

VARIABLES
    status,     \* WorkerRecord.status, "none" before the reservation
    attempt,    \* how many attempt identities the record has had
    pending     \* WorkerRecord.pendingTerminalStatus, "none" when absent

vars == <<status, attempt, pending>>

Statuses == {"queued", "starting", "working", "blocked", "pause_requested", "paused",
             "verifying", "completed", "failed", "interrupted", "integrated"}
Dispositions == {"paused", "blocked", "completed", "failed"}

Finished  == {"completed", "failed", "integrated"}
Resumable == {"paused", "interrupted", "blocked"}
Running   == {"working", "pause_requested"}     \* a callback may submit a disposition
Active    == {"starting", "working", "pause_requested", "verifying"}

Init == status = "none" /\ attempt = 0 /\ pending = "none"

\* The record moves to another status within its attempt, without a disposition.
Become(s) == status' = s /\ pending' = "none" /\ attempt' = attempt

\* createAndStart writes the record with its first attempt identity.
Reserve ==
    /\ status = "none"
    /\ status' = "queued"
    /\ attempt' = 1
    /\ pending' = "none"

Start == status = "queued" /\ Become("starting")
Begin == status = "starting" /\ Become("working")

\* A safe pause is asked of a Worker that is starting or running.
AskPause == status \in {"queued", "starting", "working"} /\ Become("pause_requested")

\* The session hands in how its attempt ends; only the first one counts, and a
\* pause is only acknowledged when one was asked for.
Submit(d) ==
    /\ status \in Running
    /\ d = "paused" => status = "pause_requested"
    /\ status' = "verifying"
    /\ pending' = d
    /\ attempt' = attempt

\* The session has settled: its disposition becomes the status ...
Publish == status = "verifying" /\ pending # "none" /\ Become(pending)

\* ... or the attempt is blocked: nothing was submitted, or it did not verify.
Block == status \in Running \cup {"verifying"} /\ Become("blocked")

\* A restart finds the durable result of an attempt whose record never heard of it.
Reconcile(d) == status \in Running /\ d \in Dispositions \ {"paused"} /\ Become(d)

\* Emergency abort, and restart recovery: whatever is unfinished is interrupted.
Interrupt == status \notin Finished \cup {"none", "queued"} /\ Become("interrupted")

\* The runtime failed, startup failed, or the preserved resources are unusable.
Fail == status \notin Finished \cup {"none"} /\ Become("failed")

\* An explicit resume is the only way back to work, and it is a new attempt.
Resume ==
    /\ status \in Resumable
    /\ status' = "working"
    /\ attempt' = attempt + 1
    /\ pending' = "none"

\* A completed result is merged, or conflicts with the target branch.
Integrate == status = "completed" /\ Become("integrated")
Conflict  == status = "completed" /\ Become("blocked")

Next ==
    \/ Reserve \/ Start \/ Begin \/ AskPause
    \/ \E d \in Dispositions : Submit(d) \/ Reconcile(d)
    \/ Publish \/ Block \/ Interrupt \/ Fail \/ Resume
    \/ Integrate \/ Conflict

Spec == Init /\ [][Next]_vars

-----------------------------------------------------------------------------
(* Properties *)

\* Types, with the coherence that assertProjectState demands of every record it
\* lets through: a disposition is pending exactly while the Worker verifies.
TypeOK ==
    /\ status \in Statuses \cup {"none"}
    /\ attempt \in Nat
    /\ pending \in Dispositions \cup {"none"}

Coherent == (pending # "none") <=> (status = "verifying")

\* A record that is integrated or failed never changes again, and what leaves
\* `completed` is only integration: no late callback reopens a finished Worker.
FinishedIsFinal ==
    [][/\ status \in {"failed", "integrated"} => UNCHANGED vars
       /\ status = "completed" => status' \in {"completed", "integrated", "blocked"}]_vars

\* A stopped Worker goes back to work only with a new attempt identity, so that
\* results and callbacks of the old attempt can be told from the new one's.
OnlyFreshAttemptsRun ==
    [][status' \in Running \cup {"verifying"} /\ status \in Resumable
         => attempt' = attempt + 1]_vars

\* Both: however late a callback, an abort or a restart comes, the record only goes on.
MovesForward == FinishedIsFinal /\ OnlyFreshAttemptsRun
=============================================================================
