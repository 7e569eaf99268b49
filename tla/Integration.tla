---------------------------- MODULE Integration ----------------------------
(***************************************************************************)
(* Merging completed Workers into the target branch: integrateWorker of    *)
(* src/work/worker-manager.ts and src/git/integration-manager.ts, with the *)
(* records of several Workers, the one slot for unfinished ones, the human *)
(* at work in the same repository, sessions that end and processes that    *)
(* die.                                                                    *)
(*                                                                         *)
(* A Worker's branch has numbered commits; commit n contains those before  *)
(* it.  A branch of the repository is the list of what was committed or    *)
(* merged, and its head is that list: nobody rewrites history.  A record   *)
(* that is paused, blocked or interrupted is "stopped"; one that is queued *)
(* to verifying is "working".  A git command that reads the repository is  *)
(* a step of its own: what it answered is noted in the call, and may be    *)
(* out of date when the next one answers.                                  *)
(***************************************************************************)
EXTENDS Naturals, Sequences

CONSTANTS
    Worker,         \* the Workers that may be created
    Call,           \* the integrateWorker calls that may be in flight
    MaxAttempt,     \* bound: attempts of one Worker
    MaxHuman,       \* bound: what the human does in the repository
    MaxEnd,         \* bound: how often the session ends or the process dies
    Ends,           \* the ways in which a session ends, of {"dispose", "crash"}
    MergeMayFail,   \* may git merge conflict, time out or be refused?
    HumanRaces      \* what the human does also while an integration is at work

ASSUME IntegrationBounds ==
    /\ MaxAttempt \in Nat \ {0} /\ MaxHuman \in Nat /\ MaxEnd \in Nat
    /\ Ends \subseteq {"dispose", "crash"}
    /\ MergeMayFail \in BOOLEAN
    /\ HumanRaces \subseteq {"edits", "commits", "switches", "merges", "concludes", "resets"}

VARIABLES
    rec,        \* rec[w]: status, attempt and result commit of the record, and
                \* whether it is unfinished because an integration conflicted
    tip,        \* tip[w]: the last commit of the Worker's branch
    creating,   \* the Worker whose reservation is in flight (createTail)
    resuming,   \* the Workers whose resume has passed its checks
    call,       \* call[c]: an integrateWorker in flight
    line,       \* the calls that wait for the integrations before them
    repo,       \* the target repository: its branches and its worktree
    disposed,   \* the manager is disposed
    humans,     \* what the human did so far
    ends        \* how many sessions have ended

control == <<rec, tip, creating, resuming>>
counts  == <<disposed, humans, ends>>
vars    == <<control, call, line, repo, counts>>

Branches == {"target", "other"}
NoOne == "no one"
ASSUME NoOneIsNoWorker == NoOne \notin Worker

Human == <<"human", 0>>      \* work of the human's, on a branch or half merged
Nothing == <<"nothing", 0>>  \* no half merge

Commit == Worker \X (1..MaxAttempt)
Statuses == {"absent", "working", "stopped", "completed", "failed", "integrated"}

\* Of a call: its step, the record it read, the heads that git rev-parse answered
\* before and after the merge, what its cleanup has seen, and its signal.
Idle == [step |-> "idle", worker |-> NoOne, attempt |-> 0, commit |-> 0,
         head |-> <<>>, result |-> <<>>, seen |-> {}, aborted |-> FALSE]

Init ==
    /\ rec = [w \in Worker |-> [status |-> "absent", attempt |-> 0, commit |-> 0, reopened |-> FALSE]]
    /\ tip = [w \in Worker |-> 0]
    /\ creating = NoOne
    /\ resuming = {}
    /\ call = [c \in Call |-> Idle]
    /\ line = <<>>
    /\ repo = [branch |-> [b \in Branches |-> <<>>], current |-> "target",
               edited |-> FALSE, half |-> Nothing, mergeHead |-> FALSE, unmerged |-> FALSE]
    /\ disposed = FALSE
    /\ humans = 0
    /\ ends = 0

-----------------------------------------------------------------------------
(* The single slot *)

\* Mutant: a stopped Worker does not occupy the slot.
UnfinishedRunning(w) == rec[w].status = "working"

Unfinished(w) == rec[w].status \in {"working", "stopped"}

OthersFinished(w) == \A v \in Worker \ {w} : ~Unfinished(v)

\* createAndStart looks for an unfinished Worker, reads the artifacts ...
Create(w) ==
    /\ ~disposed
    /\ creating = NoOne
    /\ rec[w].status = "absent"
    /\ \A v \in Worker : ~Unfinished(v)
    /\ creating' = w
    /\ UNCHANGED <<rec, tip, resuming, call, line, repo, counts>>

\* ... and reserves the slot, in an update that does not look again.
Reserve(w) ==
    /\ creating = w
    /\ creating' = NoOne
    /\ rec' = IF disposed THEN rec
              ELSE [rec EXCEPT ![w] = [status |-> "working", attempt |-> 1, commit |-> 0,
                                   reopened |-> FALSE]]
    /\ UNCHANGED <<tip, resuming, call, line, repo, counts>>

\* resume looks for another unfinished Worker ...
Resume(w) ==
    /\ ~disposed
    /\ w \notin resuming
    /\ rec[w].status = "stopped"
    /\ rec[w].attempt < MaxAttempt
    /\ OthersFinished(w)
    /\ resuming' = resuming \cup {w}
    /\ UNCHANGED <<rec, tip, creating, call, line, repo, counts>>

\* ... and its update looks only at its own record.  A resume whose worktree does
\* not fit the record fails the Worker.
Restarted(w) ==
    /\ w \in resuming
    /\ resuming' = resuming \ {w}
    /\ IF disposed \/ rec[w].status # "stopped" THEN rec' = rec
       ELSE \/ rec' = [rec EXCEPT ![w].status = "working", ![w].attempt = @ + 1,
                                  ![w].commit = 0]
            \/ rec' = [rec EXCEPT ![w].status = "failed", ![w].reopened = FALSE]
    /\ UNCHANGED <<tip, creating, call, line, repo, counts>>

\* The Worker commits, at most once in an attempt.
CommitWork(w) ==
    /\ rec[w].status = "working"
    /\ tip[w] < rec[w].attempt
    /\ tip' = [tip EXCEPT ![w] = @ + 1]
    /\ UNCHANGED <<rec, creating, resuming, call, line, repo, counts>>

\* Its completion was verified: the result is the head of its branch.  Or the
\* attempt ends otherwise.
EndAttempt(w, status) ==
    /\ rec[w].status = "working"
    /\ status \in {"completed", "stopped", "failed"}
    /\ status = "completed" => tip[w] > 0
    /\ rec' = [rec EXCEPT ![w].status = status,
                          ![w].commit = IF status = "completed" THEN tip[w] ELSE 0,
                          ![w].reopened = @ /\ status = "stopped"]
    /\ UNCHANGED <<tip, creating, resuming, call, line, repo, counts>>

-----------------------------------------------------------------------------
(* integrateWorker *)

Checks   == {"branch", "markers", "clean", "head", "ancestor"}
Cleanups == {"unmerged", "marker", "abort", "gone", "restored", "left"}
Confirms == {"result", "parents", "markersAfter", "cleanAfter"}
Guarded  == Checks \cup {"merge"} \cup Cleanups \cup Confirms

\* A call goes on; what it noted it forgets outside the guarded section.
Forget(r) == [r EXCEPT !.head = <<>>, !.result = <<>>, !.seen = {}]
Move(c, r) == call' = [call EXCEPT ![c] = IF r.step \in Guarded THEN r ELSE Forget(r)]
Goto(c, step) == Move(c, [call[c] EXCEPT !.step = step])

Target == repo.branch["target"]
Here == repo.branch[repo.current]
Clean == ~repo.edited /\ repo.half = Nothing

\* Commit n of w is an ancestor of the head of this branch.
Contains(branch, w, n) ==
    \E i \in DOMAIN branch : branch[i][1] = w /\ branch[i][2] >= n

\* The call reads the record of a completed Worker.
Integrate(c, w) ==
    /\ ~disposed
    /\ call[c].step = "idle"
    /\ rec[w].status = "completed"
    /\ call' = [call EXCEPT ![c] = [step |-> "verify", worker |-> w, attempt |-> rec[w].attempt,
                                    commit |-> rec[w].commit, head |-> <<>>, result |-> <<>>,
                                    seen |-> {}, aborted |-> FALSE]]
    /\ UNCHANGED <<control, line, repo, counts>>

\* The Worker's worktree still is at the result commit; then the call waits for
\* the integrations before it.
Verify(c) ==
    /\ call[c].step = "verify"
    /\ ~call[c].aborted
    /\ LET ok == tip[call[c].worker] = call[c].commit IN
       /\ Goto(c, IF ok THEN "queued" ELSE "deferred")
       /\ line' = IF ok THEN Append(line, c) ELSE line
    /\ UNCHANGED <<control, repo, counts>>

\* Its predecessors in this process have ended, and integration.lock is free.
MyTurn(c) ==
    /\ call[c].step = "queued"
    /\ Head(line) = c
    /\ \A d \in Call : call[d].step \notin Guarded

\* Mutant: an integration that fails in the queue blocks those behind it.
LockAfterSuccess(c) ==
    /\ MyTurn(c)
    /\ line' = IF call[c].aborted THEN line ELSE Tail(line)
    /\ call' = [call EXCEPT ![c] = IF @.aborted THEN Idle ELSE [@ EXCEPT !.step = "branch"]]
    /\ UNCHANGED <<control, repo, counts>>

\* The integrations before it have ended, well or badly: the call takes the
\* integration lock, or finds only now that it was aborted.
Lock(c) ==
    /\ MyTurn(c)
    /\ line' = Tail(line)
    /\ call' = [call EXCEPT ![c] = IF @.aborted THEN Idle ELSE [@ EXCEPT !.step = "branch"]]
    /\ UNCHANGED <<control, repo, counts>>

\* The checks, and the verification after the merge, in the order of their git
\* commands.
Looks == {"branch", "markers", "clean", "parents", "markersAfter", "cleanAfter"}
After(step) ==
    CASE step = "branch"  -> "markers"
      [] step = "markers" -> "clean"
      [] step = "clean"   -> "head"
      [] step = "parents" -> "markersAfter"
      [] step = "markersAfter" -> "cleanAfter"
      [] step = "cleanAfter"   -> "merged"

\* Mutant: the state of the worktree is not looked at.
FitsUnmarked(c) ==
    LET step == call[c].step IN
    /\ step \in {"branch", "parents"} => repo.current = "target"
    /\ step = "parents" =>
          call[c].result = Append(call[c].head, <<call[c].worker, call[c].commit>>)

\* What a command answers is as it should be: the target is the current branch, no
\* Git operation is in progress, the worktree is clean; and the commit that was
\* HEAD after the merge has the noted head and the result as its parents.
Fits(c) ==
    LET step == call[c].step IN
    /\ step \in {"branch", "parents"} => repo.current = "target"
    /\ step = "parents" =>
          call[c].result = Append(call[c].head, <<call[c].worker, call[c].commit>>)
    /\ step \in {"markers", "markersAfter"} => ~repo.mergeHead
    /\ step \in {"clean", "cleanAfter"} => Clean

\* One of these commands: the call goes on, or gives up.
Check(c) ==
    /\ call[c].step \in Looks
    /\ ~call[c].aborted
    /\ Goto(c, IF Fits(c) THEN After(call[c].step) ELSE "deferred")
    /\ UNCHANGED <<control, line, repo, counts>>

\* HEAD is noted, before the merge and after it.
NoteHead(c) ==
    /\ ~call[c].aborted
    /\ \/ /\ call[c].step = "head"
          /\ Move(c, [call[c] EXCEPT !.step = "ancestor", !.head = Here])
       \/ /\ call[c].step = "result"
          /\ Move(c, [call[c] EXCEPT !.step = "parents", !.result = Here])
    /\ UNCHANGED <<control, line, repo, counts>>

\* The Worker's branch still ends in the result; a result that is in the noted head
\* already needs no merge.
Ancestor(c) ==
    /\ call[c].step = "ancestor"
    /\ ~call[c].aborted
    /\ Goto(c, IF tip[call[c].worker] # call[c].commit THEN "deferred"
               ELSE IF Contains(call[c].head, call[c].worker, call[c].commit) THEN "merged"
               ELSE "merge")
    /\ UNCHANGED <<control, line, repo, counts>>

\* What git merge may leave: nothing; the merge commit; a MERGE_HEAD, with
\* conflicts or, killed before its commit, without; or, killed earlier, a
\* worktree that is partly updated.
Untouched == repo
Merged(w, n) ==
    IF Contains(Here, w, n) THEN repo
    ELSE [repo EXCEPT !.branch[repo.current] = Append(@, <<w, n>>)]
Conflicted(w, n) == [repo EXCEPT !.half = <<w, n>>, !.mergeHead = TRUE, !.unmerged = TRUE]
Prepared(w, n) == [repo EXCEPT !.half = <<w, n>>, !.mergeHead = TRUE]
Partial(w, n) == [repo EXCEPT !.half = <<w, n>>]

\* What it may leave when it does not return success.
Failures(w, n) ==
    IF repo.mergeHead \/ repo.half # Nothing THEN {Untouched}
    ELSE {Untouched, Conflicted(w, n), Prepared(w, n), Partial(w, n), Merged(w, n)}

\* git merge --no-ff.
Merge(c) ==
    /\ call[c].step = "merge"
    /\ LET w == call[c].worker  n == call[c].commit IN
       \/ /\ ~repo.mergeHead /\ repo.half = Nothing
          /\ repo' = Merged(w, n)
          /\ Goto(c, "result")
       \/ /\ MergeMayFail \/ call[c].aborted \/ repo.mergeHead \/ repo.half # Nothing
          /\ repo' \in Failures(w, n)
          /\ Goto(c, "unmerged")
    /\ UNCHANGED <<control, line, counts>>

-----------------------------------------------------------------------------
(* The catch clause: its commands ignore the signal *)

\* Unmerged files are noted ...
Unmerged(c) ==
    /\ call[c].step = "unmerged"
    /\ Move(c, [call[c] EXCEPT !.step = "marker",
                               !.seen = IF repo.unmerged THEN {"unmerged"} ELSE {}])
    /\ UNCHANGED <<control, line, repo, counts>>

\* ... and MERGE_HEAD is looked for.  With one, whoever made it, the merge is
\* aborted; without, unmerged files are a conflict, or the worktree is looked at.
Marker(c) ==
    /\ call[c].step = "marker"
    /\ Goto(c, IF repo.mergeHead THEN "abort"
               ELSE IF "unmerged" \in call[c].seen THEN "conflict" ELSE "left")
    /\ UNCHANGED <<control, line, repo, counts>>

\* git merge --abort takes back what is unfinished, unless there is no merge any
\* more; over edits it may fail.
Aborted == [repo EXCEPT !.half = Nothing, !.mergeHead = FALSE, !.unmerged = FALSE]
Abort(c) ==
    /\ call[c].step = "abort"
    /\ \/ repo.mergeHead /\ repo' = Aborted /\ Goto(c, "gone")
       \/ (repo.mergeHead => repo.edited) /\ repo' = repo /\ Goto(c, "conflict")
    /\ UNCHANGED <<control, line, counts>>

\* It is not there any more, or manual recovery is required.
Gone(c) ==
    /\ call[c].step = "gone"
    /\ Goto(c, IF repo.mergeHead THEN "conflict" ELSE "restored")
    /\ UNCHANGED <<control, line, repo, counts>>

\* What is asked at the end, at once and in either order: after an abort, whether
\* head and branch are what they were; without a MERGE_HEAD, whether the head is
\* and the worktree is clean.
Asked(step) == IF step = "restored" THEN {"head", "branch"} ELSE {"head", "status"}

\* Mutant: without a MERGE_HEAD only the head is compared.
DifferUnseen(c, question) ==
    \/ question = "head" /\ Here # call[c].head
    \/ question = "branch" /\ repo.current # "target"
Differs(c, question) ==
    \/ question = "head" /\ Here # call[c].head
    \/ question = "branch" /\ repo.current # "target"
    \/ question = "status" /\ ~Clean

\* One of the two answers; after the second the call ends in a conflict when
\* something differs or files were unmerged.
Answer(c, question) ==
    LET step == call[c].step
        seen == call[c].seen \cup {question}
                \cup (IF Differs(c, question) THEN {"differs"} ELSE {})
    IN
    /\ step \in {"restored", "left"}
    /\ question \in Asked(step) \ call[c].seen
    /\ Move(c, [call[c] EXCEPT
         !.seen = seen,
         !.step = IF ~(Asked(step) \subseteq seen) THEN step
                  ELSE IF seen \cap {"unmerged", "differs"} # {} THEN "conflict"
                  ELSE "deferred"])
    /\ UNCHANGED <<control, line, repo, counts>>

Cleanup(c) ==
    \/ Unmerged(c) \/ Marker(c) \/ Abort(c) \/ Gone(c)
    \/ \E question \in {"head", "branch", "status"} : Answer(c, question)

-----------------------------------------------------------------------------
(* The record *)

\* Mutant: only the status is compared.
StillStatus(c) == rec[call[c].worker].status = "completed"

\* The record is still the one the call has read.
Still(c) ==
    LET current == rec[call[c].worker] IN
    /\ current.status = "completed"
    /\ current.attempt = call[c].attempt
    /\ current.commit = call[c].commit

\* The update that ends the call; it changes nothing, or throws, when the record
\* has changed.
Record(c) ==
    /\ call[c].step \in {"merged", "conflict", "deferred"}
    /\ ~call[c].aborted
    /\ rec' = IF ~Still(c) \/ call[c].step = "deferred" THEN rec
              ELSE IF call[c].step = "merged" THEN [rec EXCEPT ![call[c].worker].status = "integrated"]
              ELSE [rec EXCEPT ![call[c].worker].status = "stopped",
                               ![call[c].worker].reopened = TRUE]
    /\ call' = [call EXCEPT ![c] = Idle]
    /\ UNCHANGED <<tip, creating, resuming, line, repo, counts>>

\* The signal of a disposal stops the call wherever it is but in the queue, in
\* git merge and in the cleanup, which have their own way with it; the cleanup
\* looks for it once MERGE_HEAD is dealt with.
Abandon(c) ==
    /\ call[c].aborted
    /\ call[c].step \notin {"idle", "queued", "merge"} \cup (Cleanups \ {"left"})
    /\ call' = [call EXCEPT ![c] = Idle]
    /\ UNCHANGED <<control, line, repo, counts>>

-----------------------------------------------------------------------------
(* Sessions end *)

InFlight == {c \in Call : call[c].step # "idle"}

\* dispose aborts the integrations in flight and waits for them ...
Dispose ==
    /\ "dispose" \in Ends /\ ends < MaxEnd
    /\ ~disposed
    /\ disposed' = TRUE
    /\ ends' = ends + 1
    /\ call' = [c \in Call |-> [call[c] EXCEPT !.aborted = c \in InFlight]]
    /\ UNCHANGED <<control, line, repo, humans>>

\* The next session's recovery ends what was working: a durable result is kept,
\* a reservation is given up, anything else is interrupted.
Recover ==
    \E ending \in [Worker -> {"completed", "stopped", "failed"}] :
        /\ \A w \in Worker : IF rec[w].status = "working"
                              THEN ending[w] = "completed" => tip[w] > 0
                              ELSE ending[w] = "stopped"
        /\ rec' = [w \in Worker |->
                     IF rec[w].status # "working" THEN rec[w]
                     ELSE [status |-> ending[w], attempt |-> rec[w].attempt,
                           commit |-> IF ending[w] = "completed" THEN tip[w] ELSE 0,
                           reopened |-> rec[w].reopened /\ ending[w] = "stopped"]]

\* ... and the next session starts.
NextSession ==
    /\ disposed
    /\ InFlight = {} /\ creating = NoOne /\ resuming = {}
    /\ disposed' = FALSE
    /\ Recover
    /\ UNCHANGED <<tip, creating, resuming, call, line, repo, humans, ends>>

\* The process dies, and with it a git merge that runs; another one recovers.
Crash ==
    /\ "crash" \in Ends /\ ends < MaxEnd
    /\ ends' = ends + 1
    /\ call' = [c \in Call |-> Idle]
    /\ line' = <<>>
    /\ creating' = NoOne
    /\ resuming' = {}
    /\ Recover
    /\ disposed' = FALSE
    /\ repo' \in {repo} \cup UNION {Failures(call[c].worker, call[c].commit) :
                                       c \in {d \in Call : call[d].step = "merge"}}
    /\ UNCHANGED <<tip, humans>>

-----------------------------------------------------------------------------
(* The human, in the same repository *)

HumanActs(act) ==
    /\ humans < MaxHuman
    /\ act \in HumanRaces \/ \A c \in Call : call[c].step \notin Guarded
    /\ humans' = humans + 1
    /\ UNCHANGED <<control, call, line, disposed, ends>>

\* Edits a file; commits; switches the branch; starts a merge that conflicts.
HumanEdits == ~repo.edited /\ repo' = [repo EXCEPT !.edited = TRUE] /\ HumanActs("edits")
HumanCommits ==
    /\ ~repo.mergeHead /\ repo.half = Nothing
    /\ repo' = [repo EXCEPT !.branch[repo.current] = Append(@, Human), !.edited = FALSE]
    /\ HumanActs("commits")
HumanSwitches ==
    /\ ~repo.mergeHead /\ Clean
    /\ repo' = [repo EXCEPT !.current = IF @ = "target" THEN "other" ELSE "target"]
    /\ HumanActs("switches")
HumanMerges ==
    /\ ~repo.mergeHead /\ Clean
    /\ repo' = [repo EXCEPT !.half = Human, !.mergeHead = TRUE, !.unmerged = TRUE]
    /\ HumanActs("merges")

\* Concludes the merge that is there, or gives up all that is not committed.
HumanConcludes ==
    /\ repo.mergeHead
    /\ repo' = [Aborted EXCEPT !.branch[repo.current] = Append(@, repo.half), !.edited = FALSE]
    /\ HumanActs("concludes")
HumanResets ==
    /\ repo.mergeHead \/ ~Clean
    /\ repo' = [Aborted EXCEPT !.edited = FALSE]
    /\ HumanActs("resets")

-----------------------------------------------------------------------------
Occupies(w) == \/ Create(w) \/ Reserve(w) \/ Resume(w) \/ Restarted(w) \/ CommitWork(w)
               \/ \E status \in Statuses : EndAttempt(w, status)
Proceed(c) == \/ Verify(c) \/ Lock(c) \/ Check(c) \/ NoteHead(c) \/ Ancestor(c) \/ Merge(c)
              \/ Cleanup(c) \/ Record(c) \/ Abandon(c)

Next ==
    \/ \E w \in Worker : Occupies(w) \/ \E c \in Call : Integrate(c, w)
    \/ \E c \in Call : Proceed(c)
    \/ Dispose \/ NextSession \/ Crash
    \/ HumanEdits \/ HumanCommits \/ HumanSwitches \/ HumanMerges
    \/ HumanConcludes \/ HumanResets

Spec == Init /\ [][Next]_vars

\* A call in flight goes on: Git commands end, or are killed by their timeout.
FairSpec == Spec /\ \A c \in Call : WF_vars(Proceed(c))

-----------------------------------------------------------------------------
(* Properties *)

\* Types; the lock is held by one call; a call knows a Worker.
TypeOK ==
    /\ rec \in [Worker -> [status : Statuses, attempt : 0..MaxAttempt, commit : 0..MaxAttempt,
                            reopened : BOOLEAN]]
    /\ tip \in [Worker -> 0..MaxAttempt]
    /\ creating \in Worker \cup {NoOne}
    /\ resuming \subseteq Worker
    /\ \A c \in Call : /\ call[c].step \in Guarded \cup {"idle", "verify", "queued", "merged",
                                                         "conflict", "deferred"}
                       /\ call[c].seen \subseteq {"unmerged", "head", "branch", "status", "differs"}
                       /\ call[c].step # "idle" => call[c].worker \in Worker
                       /\ call[c].aborted => disposed
    /\ \A c, d \in Call : call[c].step \in Guarded /\ call[d].step \in Guarded => c = d
    /\ \A b \in Branches : \A i \in DOMAIN repo.branch[b] :
          repo.branch[b][i] \in Commit \cup {Human}
    /\ repo.half \in Commit \cup {Human, Nothing}
    /\ repo.unmerged => repo.mergeHead
    /\ repo.mergeHead => repo.half # Nothing
    /\ disposed \in BOOLEAN

\* A record that says integrated is right: the result is in the target branch,
\* whatever the human, the crashes and the other call did in between.  The human
\* may do anything but switch the branch during an integration: branch and HEAD are
\* read by separate commands.
IntegratedIsMerged ==
    \A w \in Worker : rec[w].status = "integrated" => Contains(Target, w, rec[w].commit)

\* A call whose merge is still half in the worktree ends as a conflict, which
\* blocks the Worker and says so; it does not leave the result completed as if
\* nothing had been touched (the comment on a git merge that was killed), whatever
\* the human does meanwhile.  Only a disposal or a crash ends it without a word.
HalfMergeIsReported ==
    [][\A c \in Call :
          /\ call[c].step \in Cleanups /\ call'[c].step \notin Cleanups
          /\ repo'.half = <<call[c].worker, call[c].commit>>
          /\ ~call[c].aborted /\ ends' = ends
          => call'[c].step = "conflict"]_vars

\* The controller does not take a merge of the human's away: as long as the human
\* begins none during an integration, its checks see every merge that is not its
\* own, whatever else the human does.
HumanMergeIsLeftAlone ==
    [][repo.half = Human /\ repo'.half # Human => humans' # humans]_vars

\* One unfinished Worker at a time.
OneUnfinished == \A v, w \in Worker : Unfinished(v) /\ Unfinished(w) => v = w

\* At most one unfinished Worker that no integration conflict has reopened, although
\* neither the reservation nor the update of a resume looks at the other Workers.
OneOccupant ==
    \A v, w \in Worker : /\ rec[v].status \in {"working", "stopped"} /\ ~rec[v].reopened
                         /\ rec[w].status \in {"working", "stopped"} /\ ~rec[w].reopened
                         => v = w

\* Every integration ends, also behind others and when the session ends.
IntegrationsEnd == \A c \in Call : call[c].step # "idle" ~> call[c].step = "idle"

=============================================================================
