------------------------- MODULE IntegrationProofs -------------------------
(***************************************************************************)
(* Proofs about Integration: types, what an integrated record promises,    *)
(* what is left of a merge that fails, the human's merge, the one slot.    *)
(*                                                                         *)
(* The invariant has a part for each.  Noted says what a call knows of the *)
(* heads it has read, and rests on a history that only grows (Grows) and   *)
(* on a branch that is not switched (AtTarget).  HalfKnown says what the   *)
(* cleanup knows of its own half merge, Alone that it meets none of the    *)
(* human's, InSlot who is in the slot.                                     *)
(***************************************************************************)
EXTENDS Integration, SequenceTheorems, TLAPS

Steps == Guarded \cup {"idle", "verify", "queued", "merged", "conflict", "deferred"}
Work  == Commit \cup {Human}

Facts == {"unmerged", "head", "branch", "status", "differs"}

RecType  == [status : Statuses, attempt : 0..MaxAttempt, commit : 0..MaxAttempt,
             reopened : BOOLEAN]
CallType == [step : Steps, worker : Worker \cup {NoOne}, attempt : 0..MaxAttempt,
             commit : 0..MaxAttempt, head : Seq(Work), result : Seq(Work),
             seen : SUBSET Facts, aborted : BOOLEAN]
RepoType == [branch : [Branches -> Seq(Work)], current : Branches, edited : BOOLEAN,
             half : Work \cup {Nothing}, mergeHead : BOOLEAN, unmerged : BOOLEAN]

Types ==
    /\ rec \in [Worker -> RecType]
    /\ tip \in [Worker -> 0..MaxAttempt]
    /\ creating \in Worker \cup {NoOne}
    /\ resuming \in SUBSET Worker
    /\ call \in [Call -> CallType]
    /\ repo \in RepoType
    /\ disposed \in BOOLEAN

\* Unmerged files belong to a MERGE_HEAD, and that to a half merge.
Marked == (repo.unmerged => repo.mergeHead) /\ (repo.mergeHead => repo.half # Nothing)

\* A reservation is of a new Worker, a resume has room for an attempt, and a
\* completed record names a commit.
Slotted ==
    /\ \A w \in Worker : creating = w => rec[w].status = "absent"
    /\ \A w \in resuming : rec[w].status # "absent" /\ rec[w].attempt < MaxAttempt
    /\ \A w \in Worker : rec[w].status = "completed" => rec[w].commit > 0

\* A call in flight is about a commit of a Worker; only those are aborted, and
\* only by a disposal.
CallIs(c) ==
    /\ call[c].step # "idle" => call[c].worker \in Worker /\ call[c].commit \in 1..MaxAttempt
    /\ call[c].step = "idle" => ~call[c].aborted
    /\ call[c].aborted => disposed
InOrder == \A c \in Call : CallIs(c)

\* The integration lock has one holder.
Apart == \A c, d \in Call : call[c].step \in Guarded /\ call[d].step \in Guarded => c = d

Counted == humans \in Nat /\ ends \in Nat

Safe == Types /\ Marked /\ Slotted /\ InOrder /\ Apart /\ Counted

-----------------------------------------------------------------------------
(* What a step does to the target *)

\* Whatever a branch contained it still contains.
Grows ==
    \A w \in Worker : \A n \in 0..MaxAttempt : Contains(Target, w, n) => Contains(Target', w, n)

\* A branch that is appended to contains what it did.
LEMMA AppendKeeps ==
  ASSUME NEW S, NEW b \in Seq(S), NEW x \in S
  PROVE  /\ Append(b, x) \in Seq(S)
         /\ \A w, n : Contains(b, w, n) => Contains(Append(b, x), w, n)
<1>1. Append(b, x) \in Seq(S) /\ DOMAIN b \subseteq DOMAIN Append(b, x)
      /\ \A i \in DOMAIN b : Append(b, x)[i] = b[i]
  BY AppendProperties
<1> QED
  BY <1>1 DEF Contains

\* What is appended to a branch is in it.
LEMMA AppendAdds ==
  ASSUME NEW S, NEW b \in Seq(S), NEW w, NEW n \in Nat, <<w, n>> \in S
  PROVE  Contains(Append(b, <<w, n>>), w, n)
<1>1. Len(b) + 1 \in DOMAIN Append(b, <<w, n>>) /\ Append(b, <<w, n>>)[Len(b) + 1] = <<w, n>>
  BY AppendProperties
<1> QED
  BY <1>1 DEF Contains

\* A step that appends to the current branch keeps every branch's commits.
LEMMA AppendGrows ==
  ASSUME Types, NEW x \in Work,
         repo'.branch = [repo.branch EXCEPT ![repo.current] = Append(@, x)]
  PROVE  repo'.branch \in [Branches -> Seq(Work)] /\ Grows
<1>1. /\ repo.branch \in [Branches -> Seq(Work)] /\ repo.current \in Branches
      /\ "target" \in Branches
  BY DEF Types, RepoType, Branches
<1>2. Append(repo.branch[repo.current], x) \in Seq(Work)
  BY <1>1, AppendKeeps
<1>3. repo'.branch \in [Branches -> Seq(Work)]
  BY <1>1, <1>2
<1>4. CASE repo.current = "target"
  <2>1. repo'.branch["target"] = Append(repo.branch["target"], x)
    BY <1>1, <1>4
  <2> QED
    BY <1>1, <1>3, <2>1, AppendKeeps DEF Grows, Target
<1>5. CASE repo.current # "target"
  <2>1. repo'.branch["target"] = repo.branch["target"]
    BY <1>1, <1>5
  <2> QED
    BY <1>3, <2>1 DEF Grows, Target
<1> QED
  BY <1>4, <1>5

\* What git merge leaves, well or badly, is a repository whose branches have grown.
LEMMA MergeGrows ==
  ASSUME Types, Marked, NEW w \in Worker, NEW n \in 1..MaxAttempt,
         repo' \in Failures(w, n) \cup {Merged(w, n)}
  PROVE  repo' \in RepoType /\ Marked' /\ Grows
<1>1. <<w, n>> \in Work /\ <<w, n>> # Nothing
  BY DEF Work, Commit, Nothing
<1>2. CASE repo' = repo
  BY <1>2 DEF Types, Marked, Grows, Target
<1>3. CASE repo' = Merged(w, n) /\ repo' # repo
  <2>1. repo' = [repo EXCEPT !.branch[repo.current] = Append(@, <<w, n>>)]
    BY <1>3 DEF Merged
  <2>2. repo'.branch = [repo.branch EXCEPT ![repo.current] = Append(@, <<w, n>>)]
    BY <2>1 DEF Types, RepoType
  <2>3. repo'.branch \in [Branches -> Seq(Work)] /\ Grows
    BY <1>1, <2>2, AppendGrows
  <2>4. repo' = [repo EXCEPT !.branch = repo'.branch]
    BY <2>1, <2>2 DEF Types, RepoType
  <2> QED
    BY <2>3, <2>4 DEF Types, RepoType, Marked
<1>4. CASE repo' \in {Conflicted(w, n), Prepared(w, n), Partial(w, n)}
           /\ ~(repo.mergeHead \/ repo.half # Nothing)
  <2>1. repo' \in RepoType /\ repo'.branch = repo.branch /\ Marked'
    BY <1>1, <1>4 DEF Conflicted, Prepared, Partial, Types, RepoType, Marked
  <2> QED
    BY <2>1 DEF Grows, Target
<1> QED
  BY <1>2, <1>3, <1>4 DEF Failures, Untouched

\* Every step but one that ends a session in git merge leaves the repository as
\* it is, or is one of these.
RepoStep ==
    \/ UNCHANGED repo
    \/ \E c \in Call : Merge(c) \/ Abort(c)
    \/ Crash
    \/ HumanEdits \/ HumanCommits \/ HumanSwitches \/ HumanMerges
    \/ HumanConcludes \/ HumanResets

LEMMA RepoSteps ==
  ASSUME [Next]_vars
  PROVE  RepoStep
<1>1. CASE \E w \in Worker : Occupies(w) \/ \E c \in Call : Integrate(c, w)
  BY <1>1 DEF Occupies, Create, Reserve, Resume, Restarted, CommitWork, EndAttempt, Integrate,
              RepoStep
<1>2. CASE \E c \in Call : Proceed(c)
  BY <1>2 DEF Proceed, Verify, Lock, Check, NoteHead, Ancestor, Cleanup, Unmerged, Marker, Gone,
              Answer, Record, Abandon, RepoStep
<1>3. CASE Dispose \/ NextSession \/ UNCHANGED vars
  BY <1>3 DEF Dispose, NextSession, vars, RepoStep
<1> QED
  BY <1>1, <1>2, <1>3 DEF Next, RepoStep

\* A step keeps the repository's type and its marks, and its branches grow.
LEMMA RepoKept ==
  ASSUME Safe, [Next]_vars
  PROVE  repo' \in RepoType /\ Marked' /\ Grows
<1> USE DEF Safe
<1>1. CASE UNCHANGED repo
  BY <1>1 DEF Types, Marked, Grows, Target
<1>2. ASSUME NEW c \in Call, Merge(c)
      PROVE  repo' \in RepoType /\ Marked' /\ Grows
  <2>1. call[c].worker \in Worker /\ call[c].commit \in 1..MaxAttempt
    BY <1>2 DEF Merge, InOrder, CallIs
  <2>2. repo' \in Failures(call[c].worker, call[c].commit) \cup {Merged(call[c].worker, call[c].commit)}
    BY <1>2 DEF Merge
  <2> QED
    BY <2>1, <2>2, MergeGrows
<1>3. ASSUME NEW c \in Call, Abort(c)
      PROVE  repo' \in RepoType /\ Marked' /\ Grows
  <2>1. repo' = repo \/ repo' = Aborted
    BY <1>3 DEF Abort
  <2> QED
    BY <2>1, <1>1 DEF Aborted, Types, RepoType, Marked, Grows, Target
<1>4. CASE Crash
  <2>1. CASE repo' = repo
    BY <2>1, <1>1
  <2>2. ASSUME NEW c \in Call, call[c].step = "merge",
               repo' \in Failures(call[c].worker, call[c].commit)
        PROVE  repo' \in RepoType /\ Marked' /\ Grows
    <3>1. call[c].worker \in Worker /\ call[c].commit \in 1..MaxAttempt
      BY <2>2 DEF InOrder, CallIs
    <3> QED
      BY <2>2, <3>1, MergeGrows
  <2> QED
    BY <1>4, <2>1, <2>2 DEF Crash
<1>5. CASE HumanEdits \/ HumanSwitches \/ HumanMerges \/ HumanResets
  <2>1. Human \in Work /\ Human # Nothing
    BY DEF Work, Human, Nothing
  <2>2. repo' \in RepoType /\ repo'.branch = repo.branch /\ Marked'
    <3>1. CASE HumanEdits \/ HumanSwitches
      BY <3>1 DEF HumanEdits, HumanSwitches, Types, RepoType, Marked, Branches
    <3>2. CASE HumanMerges
      BY <2>1, <3>2 DEF HumanMerges, Types, RepoType, Marked
    <3>3. CASE HumanResets
      BY <3>3 DEF HumanResets, Aborted, Types, RepoType, Marked
    <3> QED
      BY <1>5, <3>1, <3>2, <3>3
  <2> QED
    BY <2>2 DEF Grows, Target
<1>6. ASSUME NEW x \in Work, NEW r \in {repo, Aborted},
             repo' = [r EXCEPT !.branch[repo.current] = Append(@, x), !.edited = FALSE]
      PROVE  repo' \in RepoType /\ Marked' /\ Grows
  <2>1. r \in RepoType /\ r.branch = repo.branch /\ r.current = repo.current
        /\ (r.unmerged => r.mergeHead) /\ (r.mergeHead => r.half # Nothing)
    BY DEF Aborted, Types, RepoType, Marked
  <2>2. repo'.branch = [repo.branch EXCEPT ![repo.current] = Append(@, x)]
    BY <1>6, <2>1 DEF RepoType
  <2>3. repo'.branch \in [Branches -> Seq(Work)] /\ Grows
    BY <2>2, AppendGrows
  <2>4. repo' = [r EXCEPT !.branch = repo'.branch, !.edited = FALSE]
    BY <1>6, <2>1, <2>2 DEF RepoType
  <2> QED
    BY <2>1, <2>3, <2>4 DEF RepoType, Marked
<1>7. CASE HumanCommits
  BY <1>6, <1>7 DEF HumanCommits, Work
<1>8. CASE HumanConcludes
  <2>1. repo.half \in Work
    BY <1>8 DEF HumanConcludes, Types, RepoType, Marked
  <2> QED
    BY <1>6, <1>8, <2>1 DEF HumanConcludes
<1> QED
  BY <1>1, <1>2, <1>3, <1>4, <1>5, <1>7, <1>8, RepoSteps DEF RepoStep

-----------------------------------------------------------------------------
(* What a step does to the records *)

\* A record that says integrated said so before, or a call that found this
\* commit in the target has written it.
Settles ==
    \A w \in Worker :
        rec'[w].status = "integrated" =>
            \/ rec'[w] = rec[w]
            \/ \E c \in Call : /\ call[c].step = "merged" /\ call[c].worker = w
                               /\ call[c].commit = rec'[w].commit

RecordsHold ==
    /\ rec' \in [Worker -> RecType] /\ tip' \in [Worker -> 0..MaxAttempt]
    /\ creating' \in Worker \cup {NoOne} /\ resuming' \in SUBSET Worker /\ disposed' \in BOOLEAN
    /\ Slotted' /\ Settles

\* One record changes.
Changes(w) ==
    /\ rec' \in [Worker -> RecType]
    /\ \A v \in Worker \ {w} : rec'[v] = rec[v]

\* A step that changes one record keeps what is said of them.
LEMMA RecordChanged ==
  ASSUME Safe, NEW w \in Worker, Changes(w), tip' = tip, disposed' = disposed,
         creating' = creating \/ creating' = NoOne, resuming' \subseteq resuming,
         creating' = w => rec'[w].status = "absent",
         w \in resuming' => rec'[w].status # "absent" /\ rec'[w].attempt < MaxAttempt,
         rec'[w].status = "completed" => rec'[w].commit > 0,
         rec'[w].status = "integrated" =>
             \/ rec'[w] = rec[w]
             \/ \E c \in Call : /\ call[c].step = "merged" /\ call[c].worker = w
                                /\ call[c].commit = rec'[w].commit
  PROVE  RecordsHold
<1>1. rec' \in [Worker -> RecType] /\ \A v \in Worker : v # w => rec'[v] = rec[v]
  BY DEF Changes
<1>2. Slotted'
  <2>1. ASSUME NEW v \in Worker, creating' = v PROVE rec'[v].status = "absent"
    BY <1>1, <2>1, NoOneIsNoWorker DEF Safe, Slotted
  <2>2. ASSUME NEW v \in resuming' PROVE rec'[v].status # "absent" /\ rec'[v].attempt < MaxAttempt
    BY <1>1, <2>2 DEF Safe, Slotted, Types
  <2>3. ASSUME NEW v \in Worker, rec'[v].status = "completed" PROVE rec'[v].commit > 0
    BY <1>1, <2>3 DEF Safe, Slotted
  <2> QED
    BY <2>1, <2>2, <2>3 DEF Slotted
<1>3. Settles
  BY <1>1 DEF Settles
<1> QED
  BY <1>1, <1>2, <1>3 DEF RecordsHold, Safe, Types

\* Every step keeps what is said of the records.
LEMMA RecordsKept ==
  ASSUME Safe, [Next]_vars
  PROVE  RecordsHold
<1>0. Types /\ Slotted
  BY DEF Safe
<1>1. CASE UNCHANGED <<control, disposed>>
  BY <1>0, <1>1 DEF control, Types, Slotted, Settles, RecordsHold
<1>2. ASSUME NEW w \in Worker, Create(w) PROVE RecordsHold
  BY <1>0, <1>2 DEF Create, counts, Types, Slotted, Settles, RecordsHold
<1>3. ASSUME NEW w \in Worker, Reserve(w) PROVE RecordsHold
  <2>1. CASE disposed
    BY <1>0, <1>3, <2>1, NoOneIsNoWorker DEF Reserve, counts, Types, Slotted, Settles, RecordsHold
  <2>2. CASE ~disposed
    <3> DEFINE r == [status |-> "working", attempt |-> 1, commit |-> 0, reopened |-> FALSE]
    <3>1. /\ rec' = [rec EXCEPT ![w] = r]
          /\ creating = w /\ creating' = NoOne /\ UNCHANGED <<tip, resuming, disposed>>
      BY <1>3, <2>2 DEF Reserve, counts
    <3>2. r \in RecType /\ r.status = "working"
      BY IntegrationBounds DEF RecType, Statuses
    <3> HIDE DEF r
    <3>3. Changes(w) /\ rec'[w] = r
      BY <1>0, <3>1, <3>2 DEF Changes, Types
    <3>4. w \notin resuming
      BY <1>0, <3>1 DEF Slotted
    <3> QED
      BY <3>1, <3>2, <3>3, <3>4, NoOneIsNoWorker, RecordChanged
  <2> QED
    BY <2>1, <2>2
<1>4. ASSUME NEW w \in Worker, Resume(w) PROVE RecordsHold
  BY <1>0, <1>4 DEF Resume, counts, Types, Slotted, Settles, RecordsHold
<1>5. ASSUME NEW w \in Worker, Restarted(w) PROVE RecordsHold
  <2>1. /\ w \in resuming /\ resuming' = resuming \ {w}
        /\ UNCHANGED <<tip, creating, disposed>>
    BY <1>5 DEF Restarted, counts
  <2>2. rec[w] \in RecType /\ rec[w].status # "absent" /\ rec[w].attempt < MaxAttempt
    BY <1>0, <2>1 DEF Types, Slotted
  <2>3. creating # w
    BY <1>0, <2>2 DEF Slotted
  <2>4. CASE rec' = rec
    BY <1>0, <2>1, <2>4 DEF Types, Slotted, Settles, RecordsHold
  <2>5. CASE rec' = [rec EXCEPT ![w].status = "working", ![w].attempt = @ + 1, ![w].commit = 0]
    <3> DEFINE n == rec[w].attempt + 1
               r == [rec[w] EXCEPT !.status = "working", !.attempt = n, !.commit = 0]
    <3>a. n \in 0..MaxAttempt
      BY <2>2, IntegrationBounds DEF RecType
    <3>1. r \in RecType /\ r.status = "working"
      <4> HIDE DEF n
      <4> QED
        <5>1. "working" \in Statuses /\ 0 \in 0..MaxAttempt
          BY IntegrationBounds DEF Statuses
        <5> QED
          BY <2>2, <3>a, <5>1 DEF RecType
    <3>2. rec' = [rec EXCEPT ![w] = r]
      BY <1>0, <2>1, <2>5 DEF Types
    <3> HIDE DEF r
    <3>3. Changes(w) /\ rec'[w] = r
      BY <1>0, <3>1, <3>2 DEF Changes, Types
    <3> QED
      BY <2>1, <2>3, <3>1, <3>3, RecordChanged
  <2>6. CASE rec' = [rec EXCEPT ![w].status = "failed", ![w].reopened = FALSE]
    <3>1. Changes(w) /\ rec'[w].status = "failed"
      BY <1>0, <2>2, <2>6 DEF Changes, Types, RecType, Statuses
    <3> QED
      BY <2>1, <2>3, <3>1, RecordChanged
  <2> QED
    BY <1>5, <2>4, <2>5, <2>6 DEF Restarted
<1>6. ASSUME NEW w \in Worker, CommitWork(w) PROVE RecordsHold
  <2>1. tip' \in [Worker -> 0..MaxAttempt]
    BY <1>0, <1>6, IntegrationBounds DEF CommitWork, Types, RecType
  <2> QED
    BY <1>0, <1>6, <2>1 DEF CommitWork, counts, Types, Slotted, Settles, RecordsHold
<1>7. ASSUME NEW w \in Worker, NEW status \in Statuses, EndAttempt(w, status) PROVE RecordsHold
  <2>1. /\ rec[w].status = "working" /\ status \in {"completed", "stopped", "failed"}
        /\ status = "completed" => tip[w] > 0
        /\ UNCHANGED <<tip, creating, resuming, disposed>>
    BY <1>7 DEF EndAttempt, counts
  <2> DEFINE n == IF status = "completed" THEN tip[w] ELSE 0
  <2>2. n \in 0..MaxAttempt /\ (status = "completed" => n > 0)
    BY <1>0, <2>1, IntegrationBounds DEF Types
  <2> DEFINE again == rec[w].reopened /\ status = "stopped"
  <2>3. rec' = [rec EXCEPT ![w].status = status, ![w].commit = n, ![w].reopened = again]
    BY <1>7 DEF EndAttempt
  <2>a. again \in BOOLEAN
    OBVIOUS
  <2> HIDE DEF n, again
  <2>4. Changes(w) /\ rec'[w].status = status /\ rec'[w].commit = n /\ rec'[w].attempt = rec[w].attempt
    BY <1>0, <2>2, <2>3, <2>a DEF Changes, Types, RecType, Statuses
  <2>5. creating # w /\ (w \in resuming => rec[w].attempt < MaxAttempt)
    BY <1>0, <2>1 DEF Slotted
  <2> QED
    BY <2>1, <2>2, <2>4, <2>5, RecordChanged
<1>8. ASSUME NEW c \in Call, Record(c) PROVE RecordsHold
  <2> DEFINE w == call[c].worker
  <2>1. w \in Worker
    BY <1>8 DEF Record, Safe, InOrder, CallIs
  <2>2. UNCHANGED <<tip, creating, resuming, disposed>>
    BY <1>8 DEF Record, counts
  <2>3. CASE rec' = rec
    BY <1>0, <2>2, <2>3 DEF Types, Slotted, Settles, RecordsHold
  <2>4. CASE rec' # rec
    <3> DEFINE status == IF call[c].step = "merged" THEN "integrated" ELSE "stopped"
    <3>1. /\ rec[w].status = "completed" /\ rec[w].commit = call[c].commit
          /\ \/ rec' = [rec EXCEPT ![w].status = status]
             \/ rec' = [rec EXCEPT ![w].status = status, ![w].reopened = TRUE]
      BY <1>8, <2>4 DEF Record, Still
    <3>2. status \in Statuses /\ status \notin {"absent", "completed"}
          /\ (status = "integrated" => call[c].step = "merged")
      BY DEF Statuses
    <3> HIDE DEF w, status
    <3>3. Changes(w) /\ rec'[w].status = status /\ rec'[w].commit = rec[w].commit
          /\ rec'[w].attempt = rec[w].attempt
      BY <1>0, <2>1, <3>1, <3>2 DEF Changes, Types, RecType
    <3>4. creating # w /\ (w \in resuming => rec[w].attempt < MaxAttempt)
      BY <1>0, <2>1, <3>1 DEF Slotted
    <3>5. status = "integrated" => /\ call[c].step = "merged" /\ call[c].worker = w
                                   /\ call[c].commit = rec'[w].commit
      BY <3>1, <3>2, <3>3 DEF w
    <3> QED
      BY <2>1, <2>2, <3>2, <3>3, <3>4, <3>5, RecordChanged
  <2> QED
    BY <2>3, <2>4
<1>9. CASE Dispose
  BY <1>0, <1>9 DEF Dispose, control, Types, Slotted, Settles, RecordsHold
<1>10. ASSUME Recover, UNCHANGED tip, disposed' = FALSE, creating' = NoOne, resuming' = {}
       PROVE  RecordsHold
  <2>1. PICK ending \in [Worker -> {"completed", "stopped", "failed"}] :
          /\ \A w \in Worker : rec[w].status = "working" /\ ending[w] = "completed" => tip[w] > 0
          /\ rec' = [w \in Worker |->
                       IF rec[w].status # "working" THEN rec[w]
                       ELSE [status |-> ending[w], attempt |-> rec[w].attempt,
                             commit |-> IF ending[w] = "completed" THEN tip[w] ELSE 0,
                             reopened |-> rec[w].reopened /\ ending[w] = "stopped"]]
    BY <1>10 DEF Recover
  <2>2. ASSUME NEW w \in Worker
        PROVE  /\ rec'[w] \in RecType
               /\ rec'[w].status = "completed" => rec'[w].commit > 0
               /\ rec'[w].status = "integrated" => rec'[w] = rec[w]
    <3>1. CASE rec[w].status # "working"
      BY <1>0, <2>1, <3>1 DEF Types, Slotted
    <3>2. CASE rec[w].status = "working"
      <4> DEFINE n == IF ending[w] = "completed" THEN tip[w] ELSE 0
      <4>1. n \in 0..MaxAttempt /\ (ending[w] = "completed" => n > 0)
        BY <1>0, <2>1, <3>2, IntegrationBounds DEF Types
      <4> DEFINE again == rec[w].reopened /\ ending[w] = "stopped"
      <4>2. rec'[w] = [status |-> ending[w], attempt |-> rec[w].attempt, commit |-> n,
                       reopened |-> again]
        BY <2>1, <3>2
      <4>3. again \in BOOLEAN
        OBVIOUS
      <4> HIDE DEF n, again
      <4> QED
        BY <1>0, <2>1, <4>1, <4>2, <4>3 DEF Types, RecType, Statuses
    <3> QED
      BY <3>1, <3>2
  <2>3. rec' \in [Worker -> RecType]
    BY <2>1, <2>2
  <2> QED
    BY <1>0, <1>10, <2>2, <2>3, NoOneIsNoWorker DEF Types, Slotted, Settles, RecordsHold
<1>11. CASE NextSession
  BY <1>10, <1>11 DEF NextSession
<1>12. CASE Crash
  BY <1>10, <1>12 DEF Crash
<1>13. ASSUME NEW c \in Call, Proceed(c) PROVE RecordsHold
  BY <1>1, <1>8, <1>13 DEF Proceed, Verify, Lock, Check, NoteHead, Ancestor, Merge, Cleanup,
       Unmerged, Marker, Abort, Gone, Answer, Abandon, counts
<1>14. ASSUME NEW w \in Worker, NEW c \in Call, Integrate(c, w) PROVE RecordsHold
  BY <1>1, <1>14 DEF Integrate, counts
<1>15. CASE HumanEdits \/ HumanCommits \/ HumanSwitches \/ HumanMerges \/ HumanConcludes \/ HumanResets
  BY <1>1, <1>15 DEF HumanEdits, HumanCommits, HumanSwitches, HumanMerges, HumanConcludes,
                     HumanResets, HumanActs
<1>16. CASE UNCHANGED vars
  BY <1>1, <1>16 DEF vars, counts
<1> QED
  BY <1>2, <1>3, <1>4, <1>5, <1>6, <1>7, <1>9, <1>11, <1>12, <1>13, <1>14, <1>15, <1>16
  DEF Next, Occupies

-----------------------------------------------------------------------------
(* What a step does to the calls *)

CallsHold == call' \in [Call -> CallType] /\ InOrder' /\ Apart'

\* A call that has ended.
LEMMA IdleIs == Idle \in CallType /\ Idle.step = "idle" /\ ~Idle.aborted
<1>1. <<>> \in Seq(Work) /\ 0 \in 0..MaxAttempt
  BY IntegrationBounds, EmptySeq
<1> QED
  BY <1>1 DEF Idle, CallType, Steps

\* The call goes to this step, and nothing of the others changes.
Goes(c, step) ==
    /\ call' \in [Call -> CallType]
    /\ \A d \in Call \ {c} : call'[d] = call[d]
    /\ call'[c].step = step
    /\ call'[c].worker = call[c].worker /\ call'[c].commit = call[c].commit
    /\ call'[c].aborted = call[c].aborted

\* So does Move, and in the guarded section the call is as it says.
LEMMA MoveGoes ==
  ASSUME Types, NEW c \in Call, NEW r \in CallType, Move(c, r),
         r.worker = call[c].worker, r.commit = call[c].commit, r.aborted = call[c].aborted
  PROVE  Goes(c, r.step) /\ (r.step \in Guarded => call'[c] = r)
<1> DEFINE q == IF r.step \in Guarded THEN r ELSE Forget(r)
<1>1. /\ q \in CallType /\ q.step = r.step /\ q.worker = r.worker /\ q.commit = r.commit
      /\ q.aborted = r.aborted /\ (r.step \in Guarded => q = r)
  BY EmptySeq DEF Forget, CallType
<1>2. call' = [call EXCEPT ![c] = q]
  BY DEF Move
<1> HIDE DEF q
<1> QED
  BY <1>1, <1>2 DEF Types, Goes

\* Goto changes the step only.
LEMMA GotoGoes ==
  ASSUME Types, NEW c \in Call, NEW step \in Steps, Goto(c, step)
  PROVE  /\ Goes(c, step)
         /\ step \in Guarded => call'[c] = [call[c] EXCEPT !.step = step]
<1> DEFINE r == [call[c] EXCEPT !.step = step]
<1>1. /\ r \in CallType /\ r.step = step /\ r.worker = call[c].worker
      /\ r.commit = call[c].commit /\ r.aborted = call[c].aborted
  BY DEF Types, CallType
<1>2. Move(c, r)
  BY DEF Goto
<1> HIDE DEF r
<1>3. Goes(c, step) /\ (step \in Guarded => call'[c] = r)
  BY <1>1, <1>2, MoveGoes
<1> QED
  BY <1>3 DEF r

\* A call in flight that goes on keeps the calls in order, if it enters the
\* guarded section from there or finds nobody there.
LEMMA GoesHolds ==
  ASSUME Safe, NEW c \in Call, NEW step \in Steps \ {"idle"}, Goes(c, step), disposed' = disposed,
         call[c].step # "idle",
         step \in Guarded => \/ call[c].step \in Guarded
                             \/ \A d \in Call : call[d].step \notin Guarded
  PROVE  CallsHold
<1>1. InOrder'
  BY DEF Goes, Safe, InOrder, CallIs
<1>2. Apart'
  BY DEF Goes, Safe, Apart
<1> QED
  BY <1>1, <1>2 DEF CallsHold, Goes

\* When a call ends the others are as they were.
LEMMA EndHolds ==
  ASSUME Safe, NEW c \in Call, call' = [call EXCEPT ![c] = Idle], disposed' = disposed
  PROVE  CallsHold
<1>1. call' \in [Call -> CallType] /\ call'[c] = Idle /\ \A d \in Call \ {c} : call'[d] = call[d]
  BY IdleIs DEF Safe, Types
<1>2. InOrder'
  BY <1>1, IdleIs DEF Safe, InOrder, CallIs
<1>3. Apart'
  BY <1>1, IdleIs DEF Safe, Apart, Guarded, Checks, Cleanups, Confirms
<1> QED
  BY <1>1, <1>2, <1>3 DEF CallsHold

-----------------------------------------------------------------------------
(* Where the step of a call leads *)

GuardedSteps == Guarded \cup {"merged", "conflict", "deferred"}

\* Inside the guarded section a call moves like this; `from' is its step before.
Leads(c, from, to) ==
    \/ Check(c) /\ from \in Looks /\ (to = "deferred" \/ (Fits(c) /\ to = After(from)))
    \/ /\ NoteHead(c) /\ from = "head" /\ to = "ancestor"
       /\ call'[c] = [call[c] EXCEPT !.step = to, !.head = Here]
    \/ /\ NoteHead(c) /\ from = "result" /\ to = "parents"
       /\ call'[c] = [call[c] EXCEPT !.step = to, !.result = Here]
    \/ /\ Ancestor(c) /\ from = "ancestor"
       /\ \/ to \in {"deferred", "merge"}
          \/ to = "merged" /\ Contains(call[c].head, call[c].worker, call[c].commit)
    \/ Merge(c) /\ from = "merge" /\ to \in {"result", "unmerged"}
    \/ /\ Unmerged(c) /\ from = "unmerged" /\ to = "marker"
       /\ call'[c].seen \subseteq {"unmerged"}
    \/ /\ Marker(c) /\ from = "marker"
       /\ \/ repo.mergeHead /\ to = "abort"
          \/ ~repo.mergeHead /\ to = "conflict"
          \/ ~repo.mergeHead /\ to = "left" /\ call'[c].seen = call[c].seen
                             /\ "unmerged" \notin call[c].seen
    \/ /\ Abort(c) /\ from = "abort"
       /\ \/ repo' = Aborted /\ to = "gone"
          \/ to = "conflict"
    \/ Gone(c) /\ from = "gone" /\ to \in {"conflict", "restored"}
    \/ \E question \in {"head", "branch", "status"} :
          /\ Answer(c, question) /\ from \in {"restored", "left"}
          /\ question \in Asked(from) \ call[c].seen
          /\ \/ /\ to = from
                /\ call'[c].seen = call[c].seen \cup {question}
                                   \cup (IF Differs(c, question) THEN {"differs"} ELSE {})
             \/ to = "conflict"
             \/ /\ to = "deferred" /\ ~Differs(c, question)
                /\ "differs" \notin call[c].seen
                /\ Asked(from) \subseteq call[c].seen \cup {question}

\* The step of a call in the guarded section.
LEMMA GuardedMoves ==
  ASSUME Safe, NEW c \in Call,
         \/ Check(c) \/ NoteHead(c) \/ Ancestor(c) \/ Merge(c) \/ Cleanup(c)
  PROVE  /\ call[c].step \in Guarded
         /\ \E to \in GuardedSteps : Goes(c, to) /\ Leads(c, call[c].step, to)
         /\ disposed' = disposed
<1>0. Types /\ call[c] \in CallType /\ GuardedSteps \subseteq Steps
  BY DEF Safe, Types, GuardedSteps, Steps
<1> USE DEF Guarded, Checks, Cleanups, Confirms, GuardedSteps, counts
<1>1. CASE Check(c)
  <2>1. call[c].step \in Looks /\ disposed' = disposed
    BY <1>1 DEF Check
  <2>2. After(call[c].step) \in GuardedSteps
    BY <2>1 DEF Looks, After
  <2>3. PICK to \in GuardedSteps :
          /\ Goto(c, to)
          /\ to = "deferred" \/ (Fits(c) /\ to = After(call[c].step))
    <3>1. CASE Fits(c)
      BY <1>1, <2>2, <3>1 DEF Check
    <3>2. CASE ~Fits(c)
      BY <1>1, <3>2 DEF Check
    <3> QED
      BY <3>1, <3>2
  <2>4. Goes(c, to)
    BY <1>0, <2>3, GotoGoes
  <2>5. Leads(c, call[c].step, to)
    BY <1>1, <2>1, <2>3 DEF Leads
  <2> QED
    BY <2>1, <2>4, <2>5 DEF Looks
<1>2. CASE NoteHead(c)
  <2>1. Here \in Seq(Work)
    BY <1>0 DEF Types, RepoType, Here
  <2>2. CASE call[c].step = "head"
    <3> DEFINE r == [call[c] EXCEPT !.step = "ancestor", !.head = Here]
    <3>1. /\ r \in CallType /\ r.step = "ancestor" /\ r.worker = call[c].worker
          /\ r.commit = call[c].commit /\ r.aborted = call[c].aborted
      BY <1>0, <2>1 DEF CallType, Steps
    <3>2. Move(c, r)
      BY <1>2, <2>2 DEF NoteHead
    <3> HIDE DEF r
    <3>3. Goes(c, "ancestor") /\ call'[c] = r
      BY <1>0, <3>1, <3>2, MoveGoes
    <3>4. Leads(c, "head", "ancestor")
      BY <1>2, <2>2, <3>3 DEF Leads, r
    <3> QED
      BY <1>2, <2>2, <3>3, <3>4 DEF NoteHead
  <2>3. CASE call[c].step = "result"
    <3> DEFINE r == [call[c] EXCEPT !.step = "parents", !.result = Here]
    <3>1. /\ r \in CallType /\ r.step = "parents" /\ r.worker = call[c].worker
          /\ r.commit = call[c].commit /\ r.aborted = call[c].aborted
      BY <1>0, <2>1 DEF CallType, Steps
    <3>2. Move(c, r)
      BY <1>2, <2>3 DEF NoteHead
    <3> HIDE DEF r
    <3>3. Goes(c, "parents") /\ call'[c] = r
      BY <1>0, <3>1, <3>2, MoveGoes
    <3>4. Leads(c, "result", "parents")
      BY <1>2, <2>3, <3>3 DEF Leads, r
    <3> QED
      BY <1>2, <2>3, <3>3, <3>4 DEF NoteHead
  <2> QED
    BY <1>2, <2>2, <2>3 DEF NoteHead
<1>3. CASE Ancestor(c)
  <2>1. PICK to \in {"deferred", "merged", "merge"} :
          /\ Goto(c, to)
          /\ to = "merged" => Contains(call[c].head, call[c].worker, call[c].commit)
    BY <1>3 DEF Ancestor
  <2>2. Goes(c, to)
    BY <1>0, <2>1, GotoGoes
  <2>3. Leads(c, call[c].step, to)
    BY <1>3, <2>1 DEF Leads, Ancestor
  <2> QED
    BY <1>3, <2>1, <2>2, <2>3 DEF Ancestor
<1>4. CASE Merge(c)
  <2>1. PICK to \in {"result", "unmerged"} : Goto(c, to)
    BY <1>4 DEF Merge
  <2>2. Goes(c, to)
    BY <1>0, <2>1, GotoGoes
  <2>3. Leads(c, call[c].step, to)
    BY <1>4, <2>1 DEF Leads, Merge
  <2> QED
    BY <1>4, <2>1, <2>2, <2>3 DEF Merge
<1>5. CASE Unmerged(c)
  <2> DEFINE seen == IF repo.unmerged THEN {"unmerged"} ELSE {}
             r == [call[c] EXCEPT !.step = "marker", !.seen = seen]
  <2>a. seen \subseteq {"unmerged"} /\ seen \in SUBSET Facts
    BY DEF Facts
  <2> HIDE DEF seen
  <2>1. /\ r \in CallType /\ r.step = "marker" /\ r.worker = call[c].worker
        /\ r.commit = call[c].commit /\ r.aborted = call[c].aborted
        /\ r.seen \subseteq {"unmerged"}
    BY <1>0, <2>a DEF CallType, Steps
  <2>2. Move(c, r)
    BY <1>5 DEF Unmerged, seen
  <2> HIDE DEF r
  <2>3. Goes(c, "marker") /\ call'[c] = r
    BY <1>0, <2>1, <2>2, MoveGoes
  <2>4. Leads(c, "unmerged", "marker")
    BY <1>5, <2>1, <2>3 DEF Leads
  <2> QED
    BY <1>5, <2>3, <2>4 DEF Unmerged
<1>6. CASE Marker(c)
  <2>1. PICK to \in {"abort", "conflict", "left"} :
          /\ Goto(c, to)
          /\ (to = "abort") = repo.mergeHead
          /\ to = "left" => "unmerged" \notin call[c].seen
    BY <1>0, <1>6 DEF Marker, Types, RepoType
  <2>2. Goes(c, to) /\ call[c].step = "marker"
        /\ (to = "left" => call'[c] = [call[c] EXCEPT !.step = to])
    BY <1>0, <1>6, <2>1, GotoGoes DEF Marker
  <2>3. to = "left" => call'[c].seen = call[c].seen
    BY <1>0, <2>2 DEF CallType
  <2>4. Leads(c, call[c].step, to)
    BY <1>6, <2>1, <2>2, <2>3 DEF Leads
  <2> QED
    BY <1>6, <2>1, <2>2, <2>4 DEF Marker
<1>7. CASE Abort(c)
  <2>1. PICK to \in {"gone", "conflict"} :
          /\ Goto(c, to)
          /\ to = "gone" => repo' = Aborted
    BY <1>7 DEF Abort
  <2>2. Goes(c, to)
    BY <1>0, <2>1, GotoGoes
  <2>3. Leads(c, call[c].step, to)
    BY <1>7, <2>1 DEF Leads, Abort
  <2> QED
    BY <1>7, <2>1, <2>2, <2>3 DEF Abort
<1>8. CASE Gone(c)
  <2>1. PICK to \in {"restored", "conflict"} : Goto(c, to)
    BY <1>8 DEF Gone
  <2>2. Goes(c, to)
    BY <1>0, <2>1, GotoGoes
  <2>3. Leads(c, call[c].step, to)
    BY <1>8, <2>1 DEF Leads, Gone
  <2> QED
    BY <1>8, <2>1, <2>2, <2>3 DEF Gone
<1>9. ASSUME NEW question \in {"head", "branch", "status"}, Answer(c, question)
      PROVE  /\ call[c].step \in Guarded
             /\ \E to \in GuardedSteps : Goes(c, to) /\ Leads(c, call[c].step, to)
             /\ disposed' = disposed
  <2> DEFINE from == call[c].step
             new == IF Differs(c, question) THEN {"differs"} ELSE {}
             seen == call[c].seen \cup {question} \cup new
             to == IF ~(Asked(from) \subseteq seen) THEN from
                   ELSE IF seen \cap {"unmerged", "differs"} # {} THEN "conflict"
                   ELSE "deferred"
             r == [call[c] EXCEPT !.seen = seen, !.step = to]
  <2>1. /\ from \in {"restored", "left"} /\ question \in Asked(from) \ call[c].seen
        /\ Move(c, r) /\ disposed' = disposed
    BY <1>9 DEF Answer
  <2>2. to \in GuardedSteps /\ seen \in SUBSET Facts
    BY <1>0, <2>1 DEF CallType, Facts
  <2>3. \/ to = from
        \/ to = "conflict"
        \/ /\ to = "deferred" /\ ~Differs(c, question) /\ "differs" \notin call[c].seen
           /\ Asked(from) \subseteq call[c].seen \cup {question}
    <3>1. CASE ~(Asked(from) \subseteq seen)
      BY <3>1
    <3>2. CASE Asked(from) \subseteq seen /\ seen \cap {"unmerged", "differs"} = {}
      <4>1. "differs" \notin seen
        BY <3>2
      <4>2. ~Differs(c, question) /\ new = {}
        BY <4>1
      <4> QED
        BY <3>2, <4>1, <4>2
    <3> QED
      BY <3>1, <3>2
  <2> HIDE DEF to, seen, new, from
  <2>4. /\ r \in CallType /\ r.step = to /\ r.worker = call[c].worker
        /\ r.commit = call[c].commit /\ r.aborted = call[c].aborted /\ r.seen = seen
    <3>1. to \in Steps /\ seen \in SUBSET Facts /\ call[c] \in CallType
      BY <1>0, <2>2
    <3>2. r \in CallType
      BY <3>1 DEF CallType
    <3> QED
      BY <3>1, <3>2 DEF CallType
  <2>5. from \in Guarded /\ call[c].step = from
    BY <2>1 DEF from
  <2> HIDE DEF r
  <2>6. Goes(c, to) /\ (to = from => call'[c] = r)
    BY <1>0, <2>1, <2>4, <2>5, MoveGoes
  <2>7. to = from => call'[c].seen = seen
    BY <2>4, <2>6
  <2>8. Leads(c, from, to)
    BY <1>9, <2>1, <2>3, <2>7 DEF Leads, seen, new
  <2> QED
    BY <2>1, <2>2, <2>5, <2>6, <2>8
<1> QED
  BY <1>1, <1>2, <1>3, <1>4, <1>5, <1>6, <1>7, <1>8, <1>9 DEF Cleanup

-----------------------------------------------------------------------------
(* What a step does to a call *)

\* Nothing but its signal changes.
Same(c) ==
    /\ call'[c].step = call[c].step
    /\ call'[c].worker = call[c].worker /\ call'[c].commit = call[c].commit
    /\ call'[c].head = call[c].head /\ call'[c].result = call[c].result
    /\ call'[c].seen = call[c].seen

\* It is outside the guarded section or enters it; out of a cleanup it comes so
\* only when it was aborted or the process died.
Outside(c) ==
    /\ call'[c].step \in {"idle", "verify", "queued", "branch", "deferred"}
    /\ call[c].step \in Cleanups => call[c].aborted \/ ends' # ends

\* It moves in the guarded section.
Inside(c) ==
    /\ call[c].step \in Guarded
    /\ \E to \in GuardedSteps : Goes(c, to) /\ Leads(c, call[c].step, to)

CallStep(c) == Same(c) \/ Outside(c) \/ Inside(c)

\* When one call goes to a step, each of them has made such a step.
LEMMA GoesSteps ==
  ASSUME Safe, NEW c \in Call, NEW step, Goes(c, step),
         \/ step \in {"queued", "branch", "deferred"} /\ call[c].step \notin Cleanups
         \/ Inside(c)
  PROVE  \A d \in Call : CallStep(d)
<1>1. ASSUME NEW d \in Call, d # c PROVE Same(d)
  BY <1>1 DEF Goes, Same
<1>2. CallStep(c)
  BY DEF Goes, CallStep, Outside
<1> QED
  BY <1>1, <1>2 DEF CallStep

LEMMA EndSteps ==
  ASSUME Safe, NEW c \in Call, call' = [call EXCEPT ![c] = Idle],
         call[c].step \in Cleanups => call[c].aborted
  PROVE  \A d \in Call : CallStep(d)
<1>1. call'[c] = Idle /\ \A d \in Call \ {c} : call'[d] = call[d]
  BY DEF Safe, Types
<1>2. CallStep(c)
  BY <1>1, IdleIs DEF CallStep, Outside
<1>3. ASSUME NEW d \in Call, d # c PROVE Same(d)
  BY <1>1, <1>3 DEF Same
<1> QED
  BY <1>2, <1>3 DEF CallStep

\* Every step keeps the calls in order, and each of them makes such a step.
LEMMA CallsKept ==
  ASSUME Safe, [Next]_vars
  PROVE  CallsHold /\ \A c \in Call : CallStep(c)
<1>0. Types /\ call \in [Call -> CallType] /\ GuardedSteps \subseteq Steps \ {"idle"}
  BY DEF Safe, Types, GuardedSteps, Steps, Guarded, Checks, Cleanups, Confirms
<1> DEFINE Goal == CallsHold /\ \A c \in Call : CallStep(c)
<1>1. CASE UNCHANGED <<call, disposed>>
  BY <1>1 DEF Safe, Types, InOrder, CallIs, Apart, CallsHold, CallStep, Same
<1>2. ASSUME NEW w \in Worker, NEW c \in Call, Integrate(c, w) PROVE Goal
  <2> DEFINE r == [step |-> "verify", worker |-> w, attempt |-> rec[w].attempt,
                   commit |-> rec[w].commit, head |-> <<>>, result |-> <<>>, seen |-> {},
                   aborted |-> FALSE]
  <2>1. rec[w] \in RecType /\ rec[w].commit \in 1..MaxAttempt /\ disposed' = disposed
        /\ call[c].step = "idle"
    BY <1>0, <1>2, IntegrationBounds DEF Integrate, counts, Safe, Types, RecType, Slotted
  <2>2. call' = [call EXCEPT ![c] = r]
    BY <1>2 DEF Integrate
  <2>3. r \in CallType /\ r.step = "verify" /\ r.worker = w /\ r.commit \in 1..MaxAttempt
        /\ ~r.aborted
    BY <2>1, EmptySeq DEF CallType, RecType, Steps
  <2> HIDE DEF r
  <2>4. call' \in [Call -> CallType] /\ call'[c] = r /\ \A d \in Call \ {c} : call'[d] = call[d]
    BY <1>0, <2>2, <2>3
  <2>5. InOrder'
    BY <2>1, <2>3, <2>4 DEF Safe, InOrder, CallIs
  <2>6. Apart'
    BY <2>3, <2>4 DEF Safe, Apart, Guarded, Checks, Cleanups, Confirms
  <2>7. \A d \in Call : CallStep(d)
    BY <2>1, <2>3, <2>4 DEF CallStep, Same, Outside, Cleanups
  <2> QED
    BY <2>4, <2>5, <2>6, <2>7 DEF CallsHold
<1>3. ASSUME NEW c \in Call, Verify(c) PROVE Goal
  <2>1. PICK step \in {"queued", "deferred"} : Goto(c, step)
    BY <1>3 DEF Verify
  <2>2. Goes(c, step)
    BY <1>0, <2>1, GotoGoes DEF Steps
  <2>3. /\ step \in Steps \ {"idle"} /\ step \notin Guarded /\ call[c].step = "verify"
        /\ disposed' = disposed /\ call[c].step \notin Cleanups
    BY <1>3 DEF Verify, counts, Steps, Guarded, Checks, Cleanups, Confirms
  <2> QED
    BY <2>2, <2>3, GoesHolds, GoesSteps
<1>4. ASSUME NEW c \in Call, Lock(c) PROVE Goal
  <2>1. disposed' = disposed /\ call[c].step = "queued" /\ call[c].step \notin Cleanups
        /\ \A d \in Call : call[d].step \notin Guarded
    BY <1>4 DEF Lock, MyTurn, counts, Cleanups
  <2>2. CASE call[c].aborted
    BY <1>4, <2>1, <2>2, EndHolds, EndSteps DEF Lock
  <2>3. CASE ~call[c].aborted
    <3>1. call' = [call EXCEPT ![c] = [call[c] EXCEPT !.step = "branch"]]
      BY <1>0, <1>4, <2>3 DEF Lock
    <3>2. "branch" \in Steps \ {"idle"}
      BY DEF Steps, Guarded, Checks
    <3>3. Goes(c, "branch")
      BY <1>0, <3>1, <3>2 DEF Goes, CallType
    <3> QED
      BY <2>1, <3>2, <3>3, GoesHolds, GoesSteps
  <2> QED
    BY <2>2, <2>3
<1>5. ASSUME NEW c \in Call,
             Check(c) \/ NoteHead(c) \/ Ancestor(c) \/ Merge(c) \/ Cleanup(c)
      PROVE  Goal
  <2>1. call[c].step \in Guarded /\ disposed' = disposed /\ Inside(c)
    BY <1>5, GuardedMoves DEF Inside
  <2>2. PICK to \in GuardedSteps : Goes(c, to)
    BY <2>1 DEF Inside
  <2>3. to \in Steps \ {"idle"} /\ call[c].step # "idle"
    BY <1>0, <2>1 DEF Guarded, Checks, Cleanups, Confirms
  <2> QED
    BY <2>1, <2>2, <2>3, GoesHolds, GoesSteps
<1>6. ASSUME NEW c \in Call, Record(c) \/ Abandon(c) PROVE Goal
  <2>1. call' = [call EXCEPT ![c] = Idle] /\ disposed' = disposed
        /\ (call[c].step \in Cleanups => call[c].aborted)
    BY <1>6 DEF Record, Abandon, counts, Cleanups
  <2> QED
    BY <2>1, EndHolds, EndSteps
<1>7. CASE Dispose
  <2>1. /\ call' = [c \in Call |-> [call[c] EXCEPT !.aborted = c \in InFlight]]
        /\ disposed' = TRUE
    BY <1>7 DEF Dispose
  <2>2. ASSUME NEW c \in Call
        PROVE  call'[c] \in CallType /\ Same(c) /\ call'[c].aborted = (call[c].step # "idle")
    <3>1. call[c] \in CallType
      BY <1>0
    <3>2. call'[c] = [call[c] EXCEPT !.aborted = call[c].step # "idle"]
      BY <2>1 DEF InFlight
    <3> QED
      BY <3>1, <3>2 DEF CallType, Same
  <2>3. call' \in [Call -> CallType]
    BY <2>1, <2>2
  <2>4. InOrder'
    BY <2>1, <2>2 DEF Safe, InOrder, CallIs, Same
  <2>5. Apart'
    BY <2>2 DEF Safe, Apart, Same
  <2> QED
    BY <2>2, <2>3, <2>4, <2>5 DEF CallsHold, CallStep
<1>8. CASE NextSession
  <2>1. call' = call /\ \A c \in Call : call[c].step = "idle"
    BY <1>8 DEF NextSession, InFlight
  <2> QED
    BY <1>0, <2>1 DEF Safe, InOrder, CallIs, Apart, CallsHold, CallStep, Same
<1>9. CASE Crash
  <2>1. call' = [c \in Call |-> Idle] /\ ends' # ends
    BY <1>9 DEF Crash, Safe, Counted
  <2>2. call' \in [Call -> CallType] /\ \A c \in Call : call'[c] = Idle
    BY <2>1, IdleIs
  <2> QED
    BY <2>1, <2>2, IdleIs DEF InOrder, CallIs, Apart, Guarded, Checks, Cleanups, Confirms,
                              CallsHold, CallStep, Outside
<1>10. CASE \E w \in Worker : Occupies(w)
  BY <1>1, <1>10 DEF Occupies, Create, Reserve, Resume, Restarted, CommitWork, EndAttempt, counts
<1>11. CASE HumanEdits \/ HumanCommits \/ HumanSwitches \/ HumanMerges \/ HumanConcludes \/ HumanResets
  BY <1>1, <1>11 DEF HumanEdits, HumanCommits, HumanSwitches, HumanMerges, HumanConcludes,
                     HumanResets, HumanActs
<1>12. CASE UNCHANGED vars
  BY <1>1, <1>12 DEF vars, counts
<1>13. CASE \E c \in Call : Proceed(c)
  BY <1>3, <1>4, <1>5, <1>6, <1>13 DEF Proceed
<1> QED
  BY <1>2, <1>7, <1>8, <1>9, <1>10, <1>11, <1>12, <1>13 DEF Next

-----------------------------------------------------------------------------
(* The shape of the state *)

\* Nothing is merged or in flight at the start.
LEMMA AtFirst == Init => Safe
<1> SUFFICES ASSUME Init PROVE Safe
  OBVIOUS
<1>1. Types
  <2>1. repo \in RepoType
    BY EmptySeq DEF Init, RepoType, Branches
  <2>2. call \in [Call -> CallType]
    BY IdleIs DEF Init
  <2>3. rec \in [Worker -> RecType] /\ tip \in [Worker -> 0..MaxAttempt]
    BY IntegrationBounds DEF Init, RecType, Statuses
  <2> QED
    BY <2>1, <2>2, <2>3 DEF Init, Types
<1>2. Marked /\ Slotted
  BY NoOneIsNoWorker DEF Init, Marked, Slotted
<1>3. \A c \in Call : call[c] = Idle
  BY DEF Init
<1>4. InOrder /\ Apart
  BY <1>3, IdleIs DEF InOrder, CallIs, Apart, Guarded, Checks, Cleanups, Confirms
<1> QED
  BY <1>1, <1>2, <1>4 DEF Safe, Counted, Init

\* The counters of the bounds are numbers.
LEMMA CountedKept ==
  ASSUME Counted, [Next]_vars
  PROVE  Counted'
<1>1. CASE UNCHANGED <<humans, ends>>
  BY <1>1 DEF Counted
<1>2. CASE \E w \in Worker : Occupies(w) \/ \E c \in Call : Integrate(c, w)
  BY <1>1, <1>2 DEF Occupies, Create, Reserve, Resume, Restarted, CommitWork, EndAttempt,
                    Integrate, counts
<1>3. CASE \E c \in Call : Proceed(c)
  BY <1>1, <1>3 DEF Proceed, Verify, Lock, Check, NoteHead, Ancestor, Merge, Cleanup, Unmerged,
                    Marker, Abort, Gone, Answer, Record, Abandon, counts
<1>4. CASE Dispose \/ NextSession \/ Crash \/ UNCHANGED vars
  BY <1>4 DEF Dispose, NextSession, Crash, Counted, vars, counts
<1>5. CASE HumanEdits \/ HumanCommits \/ HumanSwitches \/ HumanMerges \/ HumanConcludes \/ HumanResets
  BY <1>5 DEF HumanEdits, HumanCommits, HumanSwitches, HumanMerges, HumanConcludes,
              HumanResets, HumanActs, Counted
<1> QED
  BY <1>2, <1>3, <1>4, <1>5 DEF Next

\* A step keeps the shape of the state.
LEMMA SafeKept ==
  ASSUME Safe, [Next]_vars
  PROVE  Safe'
BY RepoKept, RecordsKept, CallsKept, CountedKept DEF Safe, Types, RecordsHold, CallsHold

\* In every state.
LEMMA IntegrationInvariant == Spec => []Safe
<1>1. Safe /\ [Next]_vars => Safe'
  BY SafeKept
<1> QED
  BY AtFirst, <1>1, PTL DEF Spec

\* The types of the module, and the lock's one holder.
THEOREM IntegrationTypes == Spec => []TypeOK
<1>1. Safe => TypeOK
  <2> SUFFICES ASSUME Safe PROVE TypeOK
    OBVIOUS
  <2>1. Types /\ Marked /\ InOrder /\ Apart
    BY DEF Safe
  <2>2. /\ \A b \in Branches : \A i \in DOMAIN repo.branch[b] : repo.branch[b][i] \in Work
        /\ repo.half \in Work \cup {Nothing}
    BY <2>1, ElementOfSeq DEF Types, RepoType
  <2>3. \A c \in Call : call[c].step \in Steps /\ call[c].seen \subseteq Facts
    BY <2>1 DEF Types, CallType
  <2> QED
    BY <2>1, <2>2, <2>3 DEF TypeOK, Types, RecType, Work, Marked, InOrder, CallIs, Apart, Steps,
                            Facts
<1> QED
  BY IntegrationInvariant, <1>1, PTL

-----------------------------------------------------------------------------
(* What is recorded as integrated *)

\* As long as the human does not switch the branch during an integration.
\* Whatever this branch contains is in the target.
Within(branch) ==
    \A w \in Worker : \A n \in 0..MaxAttempt : Contains(branch, w, n) => Contains(Target, w, n)

\* Past its first check a call finds the target checked out.
AtTarget == \A c \in Call : call[c].step \in Guarded \ {"branch"} => repo.current = "target"

\* What a call has noted is still in the target, and so is what it has verified.
Noted ==
    \A c \in Call :
        /\ call[c].step = "ancestor" => Within(call[c].head)
        /\ call[c].step = "parents" => Within(call[c].result)
        /\ call[c].step \in {"markersAfter", "cleanAfter", "merged"}
              => Contains(Target, call[c].worker, call[c].commit)

\* The branch stays while an integration is at work.
LEMMA CurrentKept ==
  ASSUME "switches" \notin HumanRaces, Safe, [Next]_vars, NEW c \in Call, call[c].step \in Guarded
  PROVE  repo'.current = repo.current
<1>1. \A w, n : \A r \in Failures(w, n) \cup {Merged(w, n), Aborted} : r.current = repo.current
  BY DEF Failures, Untouched, Merged, Conflicted, Prepared, Partial, Aborted, Safe, Types, RepoType
<1>2. ~HumanSwitches
  BY DEF HumanSwitches, HumanActs
<1>3. CASE \E d \in Call : Merge(d) \/ Abort(d)
  BY <1>1, <1>3 DEF Merge, Abort
<1>4. CASE Crash
  BY <1>1, <1>4 DEF Crash
<1>5. CASE HumanEdits \/ HumanCommits \/ HumanMerges \/ HumanConcludes \/ HumanResets
  BY <1>5 DEF HumanEdits, HumanCommits, HumanMerges, HumanConcludes, HumanResets, Aborted,
              Safe, Types, RepoType
<1> QED
  BY <1>2, <1>3, <1>4, <1>5, RepoSteps DEF RepoStep

LEMMA AtTargetKept ==
  ASSUME "switches" \notin HumanRaces, Safe, AtTarget, [Next]_vars
  PROVE  AtTarget'
<1> SUFFICES ASSUME NEW c \in Call, call'[c].step \in Guarded \ {"branch"}
             PROVE  repo'.current = "target"
  BY DEF AtTarget
<1>1. CallStep(c) /\ ~Outside(c)
  BY CallsKept DEF Outside, Guarded, Checks, Cleanups, Confirms
<1>2. CASE call[c].step \in Guarded \ {"branch"}
  BY <1>2, CurrentKept DEF AtTarget
<1>3. CASE call[c].step \notin Guarded \ {"branch"}
  <2>1. Inside(c) /\ call[c].step = "branch"
    BY <1>1, <1>3 DEF CallStep, Same, Inside
  <2>2. PICK to \in GuardedSteps : Goes(c, to) /\ Leads(c, "branch", to)
    BY <2>1 DEF Inside
  <2>3. to # "deferred"
    BY <2>2 DEF Goes, Guarded, Checks, Cleanups, Confirms
  <2>4. Check(c) /\ Fits(c)
    BY <2>2, <2>3 DEF Leads
  <2> QED
    BY <2>1, <2>4 DEF Check, Fits
<1> QED
  BY <1>2, <1>3

\* How a call comes to its notes, and to what it has verified.
LEMMA NotedKept ==
  ASSUME "switches" \notin HumanRaces, Safe, AtTarget, Noted, [Next]_vars
  PROVE  Noted'
<1>0. Grows /\ Types /\ Safe'
  BY RepoKept, SafeKept DEF Safe
<1> SUFFICES ASSUME NEW c \in Call
             PROVE  /\ call'[c].step = "ancestor" => Within(call[c].head)'
                    /\ call'[c].step = "parents" => Within(call[c].result)'
                    /\ call'[c].step \in {"markersAfter", "cleanAfter", "merged"}
                          => Contains(Target', call'[c].worker, call'[c].commit)
  BY DEF Noted
<1>1. CASE Outside(c)
  BY <1>1 DEF Outside
<1>2. CASE Same(c)
  <2>1. call[c].step = "ancestor" => \A w \in Worker : \A n \in 0..MaxAttempt :
            Contains(call'[c].head, w, n) => Contains(Target', w, n)
    BY <1>0, <1>2 DEF Same, Noted, Within, Grows
  <2>2. call[c].step = "parents" => \A w \in Worker : \A n \in 0..MaxAttempt :
            Contains(call'[c].result, w, n) => Contains(Target', w, n)
    BY <1>0, <1>2 DEF Same, Noted, Within, Grows
  <2>3. call[c].step \in {"markersAfter", "cleanAfter", "merged"}
           => Contains(Target', call[c].worker, call[c].commit)
    <3> SUFFICES ASSUME call[c].step \in {"markersAfter", "cleanAfter", "merged"}
                 PROVE  Contains(Target', call[c].worker, call[c].commit)
      OBVIOUS
    <3>1. call[c].worker \in Worker /\ call[c].commit \in 0..MaxAttempt
      BY IntegrationBounds DEF Safe, InOrder, CallIs
    <3> QED
      BY <1>0, <3>1 DEF Noted, Grows
  <2> QED
    BY <1>2, <2>1, <2>2, <2>3 DEF Same, Within
<1>3. CASE Inside(c)
  <2>1. PICK to \in GuardedSteps : Goes(c, to) /\ Leads(c, call[c].step, to)
    BY <1>3 DEF Inside
  <2>2. /\ call'[c].step = to /\ call'[c].worker = call[c].worker
        /\ call'[c].commit = call[c].commit /\ call[c].step \in Guarded
    BY <1>3, <2>1 DEF Goes, Inside
  <2>3. call[c].worker \in Worker /\ call[c].commit \in 0..MaxAttempt /\ call[c].commit \in Nat
        /\ <<call[c].worker, call[c].commit>> \in Work
    BY <2>2, IntegrationBounds DEF Safe, InOrder, CallIs, Guarded, Checks, Cleanups, Confirms,
                                   Work, Commit
  <2>4. ASSUME NoteHead(c) PROVE Target' = Target /\ Here = Target
    <3>1. repo' = repo /\ repo.current = "target"
      BY <2>4 DEF NoteHead, AtTarget, Guarded, Checks, Confirms
    <3> QED
      BY <3>1 DEF Target, Here
  <2>5. ASSUME to = "ancestor" PROVE Within(call[c].head)'
    <3>1. NoteHead(c) /\ call'[c] = [call[c] EXCEPT !.step = to, !.head = Here]
      BY <2>1, <2>5 DEF Leads, Looks, After, Asked
    <3>2. call'[c].head = Target'
      BY <1>0, <2>4, <3>1 DEF Types, CallType
    <3> QED
      BY <3>2 DEF Within
  <2>6. ASSUME to = "parents" PROVE Within(call[c].result)'
    <3>1. NoteHead(c) /\ call'[c] = [call[c] EXCEPT !.step = to, !.result = Here]
      BY <2>1, <2>6 DEF Leads, Looks, After, Asked
    <3>2. call'[c].result = Target'
      BY <1>0, <2>4, <3>1 DEF Types, CallType
    <3> QED
      BY <3>2 DEF Within
  <2>7. ASSUME to \in {"markersAfter", "cleanAfter", "merged"}
        PROVE  Contains(Target', call[c].worker, call[c].commit)
    <3>1. \/ Check(c) /\ Fits(c) /\ call[c].step \in {"parents", "markersAfter", "cleanAfter"}
          \/ /\ Ancestor(c) /\ call[c].step = "ancestor"
             /\ Contains(call[c].head, call[c].worker, call[c].commit)
      BY <2>1, <2>7 DEF Leads, Looks, After, Asked
    <3>2. Target' = Target
      BY <3>1 DEF Check, Ancestor, Target
    <3>3. CASE call[c].step = "parents" /\ Fits(c)
      <4>1. call[c].result = Append(call[c].head, <<call[c].worker, call[c].commit>>)
        BY <3>3 DEF Fits
      <4>2. call[c].head \in Seq(Work)
        BY <1>0 DEF Types, CallType
      <4>3. Contains(call[c].result, call[c].worker, call[c].commit)
        BY <2>3, <4>1, <4>2, AppendAdds
      <4> QED
        BY <2>3, <3>2, <3>3, <4>3 DEF Noted, Within
    <3>4. CASE call[c].step \in {"markersAfter", "cleanAfter"}
      BY <3>2, <3>4 DEF Noted
    <3>5. CASE call[c].step = "ancestor" /\ Contains(call[c].head, call[c].worker, call[c].commit)
      BY <2>3, <3>2, <3>5 DEF Noted, Within
    <3> QED
      BY <3>1, <3>3, <3>4, <3>5
  <2> QED
    BY <2>2, <2>5, <2>6, <2>7
<1> QED
  BY <1>1, <1>2, <1>3, CallsKept DEF CallStep

\* What was integrated stays in the target.
LEMMA IntegratedKept ==
  ASSUME Safe, Noted, IntegratedIsMerged, [Next]_vars
  PROVE  IntegratedIsMerged'
<1>1. Grows /\ Settles /\ InOrder /\ Types /\ Types'
  BY RepoKept, RecordsKept, SafeKept DEF Safe, RecordsHold
<1> SUFFICES ASSUME NEW w \in Worker, rec'[w].status = "integrated"
             PROVE  Contains(Target', w, rec'[w].commit)
  BY DEF IntegratedIsMerged
<1>2. rec'[w].commit \in 0..MaxAttempt
  BY <1>1 DEF Types, RecType
<1>3. Contains(Target, w, rec'[w].commit)
  BY <1>1 DEF Settles, Noted, IntegratedIsMerged
<1> QED
  BY <1>1, <1>2, <1>3 DEF Grows

\* integrateWorker: a record that says integrated is right about the target, when
\* the human, who may do anything else, does not switch the branch meanwhile.
THEOREM IntegratedMeansMerged ==
  ASSUME "switches" \notin HumanRaces PROVE Spec => []IntegratedIsMerged
<1> DEFINE I == AtTarget /\ Noted /\ IntegratedIsMerged
<1>1. Init => I
  <2> SUFFICES ASSUME Init PROVE I
    OBVIOUS
  <2>1. \A c \in Call : call[c].step = "idle"
    BY IdleIs DEF Init
  <2> QED
    BY <2>1 DEF Init, AtTarget, Noted, IntegratedIsMerged, Guarded, Checks, Cleanups, Confirms
<1>2. Safe /\ I /\ [Next]_vars => I'
  BY AtTargetKept, NotedKept, IntegratedKept
<1> QED
  BY IntegrationInvariant, <1>1, <1>2, PTL DEF Spec

-----------------------------------------------------------------------------
(* A merge that fails *)

Own(c) == <<call[c].worker, call[c].commit>>

\* The human's merge is none of a Worker's, and not nothing.
LEMMA HumanIsHuman ==
  ASSUME NEW w, NEW n \in 1..MaxAttempt
  PROVE  <<w, n>> # Human /\ <<w, n>> # Nothing /\ Human # Nothing
BY IntegrationBounds DEF Human, Nothing

\* git merge does not touch a half merge that is there, and its own is not the human's.
LEMMA MergeLeaves ==
  ASSUME Types, NEW w \in Worker, NEW n \in 1..MaxAttempt,
         repo' \in Failures(w, n) \cup {Merged(w, n)}
  PROVE  /\ repo'.half = repo.half \/ (repo.half = Nothing /\ repo'.half = <<w, n>>)
         /\ repo'.half = repo.half => (repo'.mergeHead = repo.mergeHead \/ repo.half = Nothing)
<1>1. Merged(w, n).half = repo.half /\ Merged(w, n).mergeHead = repo.mergeHead
  BY DEF Merged, Types, RepoType
<1>2. /\ Conflicted(w, n).half = <<w, n>> /\ Prepared(w, n).half = <<w, n>>
      /\ Partial(w, n).half = <<w, n>>
  BY DEF Conflicted, Prepared, Partial, Types, RepoType
<1> QED
  BY <1>1, <1>2 DEF Failures, Untouched

\* How a half merge comes to be there: it was; a call's git merge left its own; or
\* the human began one.
LEMMA HalfFrom ==
  ASSUME Safe, [Next]_vars, repo'.half # Nothing
  PROVE  \/ repo'.half = repo.half /\ repo'.mergeHead = repo.mergeHead
         \/ \E c \in Call : /\ call[c].step = "merge"
                            /\ (Merge(c) \/ Crash)
                            /\ repo'.half = Own(c) /\ call[c].commit \in 1..MaxAttempt
         \/ HumanMerges /\ repo'.half = Human /\ repo'.mergeHead
<1>0. Types /\ Marked
  BY DEF Safe
<1>1. ASSUME NEW c \in Call, call[c].step = "merge", Merge(c) \/ Crash,
             repo' \in Failures(call[c].worker, call[c].commit)
                       \cup {Merged(call[c].worker, call[c].commit)}
      PROVE  \/ repo'.half = repo.half /\ repo'.mergeHead = repo.mergeHead
             \/ repo'.half = Own(c) /\ call[c].commit \in 1..MaxAttempt
  <2>1. call[c].worker \in Worker /\ call[c].commit \in 1..MaxAttempt
    BY <1>1 DEF Safe, InOrder, CallIs
  <2> QED
    BY <1>0, <1>1, <2>1, MergeLeaves DEF Own
<1>2. ASSUME NEW c \in Call, Merge(c)
      PROVE  call[c].step = "merge" /\ repo' \in Failures(call[c].worker, call[c].commit)
                                       \cup {Merged(call[c].worker, call[c].commit)}
  BY <1>2 DEF Merge
<1>3. Aborted.half = Nothing
  BY <1>0 DEF Aborted, Types, RepoType
<1>4. ASSUME NEW c \in Call, Abort(c) PROVE repo' = repo
  BY <1>3, <1>4 DEF Abort
<1>5. CASE Crash
  BY <1>1, <1>5 DEF Crash
<1>6. CASE HumanEdits \/ HumanCommits \/ HumanSwitches
  BY <1>0, <1>6 DEF HumanEdits, HumanCommits, HumanSwitches, Types, RepoType
<1>7. CASE HumanMerges
  BY <1>0, <1>7 DEF HumanMerges, Types, RepoType
<1>8. CASE HumanConcludes \/ HumanResets
  BY <1>0, <1>8 DEF HumanConcludes, HumanResets, Aborted, Types, RepoType
<1> QED
  BY <1>1, <1>2, <1>4, <1>5, <1>6, <1>7, <1>8, RepoSteps DEF RepoStep

\* What a call in its cleanup knows of its own half merge: after an abort it is
\* gone, and without a MERGE_HEAD the status tells of it.
HalfKnown ==
    \A c \in Call :
        /\ call[c].step = "marker" => call[c].seen \subseteq {"unmerged"}
        /\ call[c].step \in {"gone", "restored"} => repo.half # Own(c)
        /\ call[c].step = "left" /\ repo.half = Own(c) /\ "status" \in call[c].seen
              => "differs" \in call[c].seen

LEMMA HalfKnownKept ==
  ASSUME Safe, HalfKnown, [Next]_vars
  PROVE  HalfKnown'
<1>0. Types /\ Safe'
  BY SafeKept DEF Safe
<1> SUFFICES ASSUME NEW c \in Call
             PROVE  /\ call'[c].step = "marker" => call'[c].seen \subseteq {"unmerged"}
                    /\ call'[c].step \in {"gone", "restored"} => repo'.half # Own(c)'
                    /\ /\ call'[c].step = "left" /\ repo'.half = Own(c)'
                       /\ "status" \in call'[c].seen
                       => "differs" \in call'[c].seen
  BY DEF HalfKnown
<1>1. CASE Outside(c)
  BY <1>1 DEF Outside
<1>2. CASE Same(c)
  <2>1. CASE call[c].step \notin {"gone", "restored", "left"}
    BY <1>2, <2>1 DEF Same, HalfKnown
  <2>2. CASE call[c].step \in {"gone", "restored", "left"}
    <3>1. /\ Own(c)' = Own(c) /\ call[c].commit \in 1..MaxAttempt
          /\ Own(c) # Human /\ Own(c) # Nothing
      BY <1>2, <2>2, HumanIsHuman DEF Same, Own, Safe, InOrder, CallIs
    <3>2. \A d \in Call : call[d].step # "merge"
      BY <2>2 DEF Safe, Apart, Guarded, Cleanups
    <3>3. repo'.half = Own(c) => repo.half = Own(c)
      BY <3>1, <3>2, HalfFrom
    <3> QED
      BY <1>2, <2>2, <3>1, <3>3 DEF Same, HalfKnown
  <2> QED
    BY <2>1, <2>2
<1>3. CASE Inside(c)
  <2>1. PICK to \in GuardedSteps : Goes(c, to) /\ Leads(c, call[c].step, to)
    BY <1>3 DEF Inside
  <2>2. call'[c].step = to /\ Own(c)' = Own(c) /\ Own(c) # Nothing
    <3>1. call[c].commit \in 1..MaxAttempt
      BY <1>3 DEF Inside, Safe, InOrder, CallIs, Guarded, Checks, Cleanups, Confirms
    <3> QED
      BY <2>1, <3>1, HumanIsHuman DEF Goes, Own
  <2>3. CASE to = "marker"
    BY <2>1, <2>2, <2>3 DEF Leads, Looks, After, Asked
  <2>4. CASE to = "gone"
    <3>1. repo' = Aborted
      BY <2>1, <2>4 DEF Leads, Looks, After, Asked
    <3>2. repo'.half = Nothing
      BY <1>0, <3>1 DEF Aborted, Types, RepoType
    <3> QED
      BY <2>2, <2>4, <3>2
  <2>5. CASE to = "restored"
    <3>1. call[c].step \in {"gone", "restored"} /\ repo' = repo
      BY <2>1, <2>5 DEF Leads, Looks, After, Asked, Gone, Answer
    <3> QED
      BY <2>2, <2>5, <3>1 DEF HalfKnown
  <2>6. CASE to = "left"
    <3>1. CASE Marker(c)
      <4>1. call'[c].seen = call[c].seen /\ "status" \notin call[c].seen
        BY <2>1, <2>6, <3>1 DEF Leads, Looks, After, Asked, Marker, HalfKnown
      <4> QED
        BY <2>2, <2>6, <4>1
    <3>2. ASSUME NEW question \in {"head", "branch", "status"}, Answer(c, question),
                 call[c].step = "left",
                 call'[c].seen = call[c].seen \cup {question}
                                 \cup (IF Differs(c, question) THEN {"differs"} ELSE {})
          PROVE  repo'.half = Own(c) /\ "status" \in call'[c].seen => "differs" \in call'[c].seen
      <4>1. repo' = repo
        BY <3>2 DEF Answer
      <4>2. CASE question = "status" /\ repo.half = Own(c)
        BY <2>2, <3>2, <4>2 DEF Differs, Clean
      <4>3. CASE question # "status" /\ repo.half = Own(c) /\ "status" \in call'[c].seen
        <5>1. "status" \in call[c].seen
          BY <3>2, <4>3
        <5> QED
          BY <3>2, <4>3, <5>1 DEF HalfKnown
      <4> QED
        BY <4>1, <4>2, <4>3
    <3>3. \/ Marker(c)
          \/ \E question \in {"head", "branch", "status"} :
                /\ Answer(c, question) /\ call[c].step = "left"
                /\ call'[c].seen = call[c].seen \cup {question}
                                   \cup (IF Differs(c, question) THEN {"differs"} ELSE {})
      BY <2>1, <2>6 DEF Leads, Looks, After
    <3> QED
      BY <2>2, <2>6, <3>1, <3>2, <3>3
  <2> QED
    BY <2>2, <2>3, <2>4, <2>5, <2>6
<1> QED
  BY <1>1, <1>2, <1>3, CallsKept DEF CallStep

\* The catch clause of integrateWorker: a half merge of the call's own that is
\* still in the worktree when the call leaves it is reported as a conflict.
THEOREM HalfMergesAreReported == Spec => HalfMergeIsReported
<1> DEFINE Reported ==
      \A c \in Call :
          /\ call[c].step \in Cleanups /\ call'[c].step \notin Cleanups
          /\ repo'.half = <<call[c].worker, call[c].commit>>
          /\ ~call[c].aborted /\ ends' = ends
          => call'[c].step = "conflict"
<1>1. Init => HalfKnown
  <2> SUFFICES ASSUME Init PROVE HalfKnown
    OBVIOUS
  <2>1. \A c \in Call : call[c].step = "idle"
    BY IdleIs DEF Init
  <2> QED
    BY <2>1 DEF HalfKnown
<1>2. Safe /\ HalfKnown /\ [Next]_vars => HalfKnown'
  BY HalfKnownKept
<1>3. Safe /\ HalfKnown /\ [Next]_vars => Reported
  <2> SUFFICES ASSUME Safe, HalfKnown, [Next]_vars, NEW c \in Call,
                      call[c].step \in Cleanups, call'[c].step \notin Cleanups,
                      repo'.half = Own(c), ~call[c].aborted, ends' = ends
               PROVE  call'[c].step = "conflict"
    BY DEF Reported, Own
  <2>1. Inside(c)
    BY CallsKept DEF CallStep, Same, Outside
  <2>2. PICK to \in GuardedSteps : Goes(c, to) /\ Leads(c, call[c].step, to)
    BY <2>1 DEF Inside
  <2>3. call'[c].step = to
    BY <2>2 DEF Goes
  <2>4. \/ to = "conflict"
        \/ \E question \in {"head", "branch", "status"} :
              /\ Answer(c, question) /\ call[c].step \in {"restored", "left"}
              /\ ~Differs(c, question) /\ "differs" \notin call[c].seen
              /\ Asked(call[c].step) \subseteq call[c].seen \cup {question}
    BY <2>2, <2>3 DEF Leads, Looks, Cleanups
  <2>5. ASSUME NEW question \in {"head", "branch", "status"}, Answer(c, question),
               call[c].step \in {"restored", "left"}, ~Differs(c, question),
               "differs" \notin call[c].seen,
               Asked(call[c].step) \subseteq call[c].seen \cup {question}
        PROVE  FALSE
    <3>1. repo.half = Own(c)
      BY <2>5 DEF Answer
    <3>2. call[c].step = "left" /\ "status" \notin call[c].seen
      BY <2>5, <3>1 DEF HalfKnown
    <3>3. question = "status"
      BY <2>5, <3>2 DEF Asked
    <3>4. Own(c) # Nothing
      <4>1. call[c].commit \in 1..MaxAttempt
        BY <2>5 DEF Safe, InOrder, CallIs
      <4> QED
        BY <4>1, HumanIsHuman DEF Own
    <3> QED
      BY <2>5, <3>1, <3>3, <3>4 DEF Differs, Clean
  <2> QED
    BY <2>3, <2>4, <2>5
<1> QED
  BY IntegrationInvariant, <1>1, <1>2, <1>3, PTL DEF Spec, HalfMergeIsReported

-----------------------------------------------------------------------------
(* The human's merge *)

\* As long as the human begins no merge during an integration: a merge of the
\* human's has a MERGE_HEAD, and a call that has looked for one faces none.
HumanMarked == repo.half = Human => repo.mergeHead

Late  == Guarded \ {"branch", "markers"}
Alone == \A c \in Call : call[c].step \in Late => repo.half # Human

LEMMA AloneKept ==
  ASSUME "merges" \notin HumanRaces, Safe, HumanMarked, Alone, [Next]_vars
  PROVE  HumanMarked' /\ Alone'
<1>1. Human # Nothing /\ \A c \in Call : call[c].commit \in 1..MaxAttempt => Own(c) # Human
  BY DEF Human, Nothing, Own
<1>2. \/ repo'.half # Human
      \/ repo.half = Human /\ repo'.mergeHead = repo.mergeHead
      \/ HumanMerges /\ repo'.mergeHead
  BY <1>1, HalfFrom
<1>3. HumanMarked'
  BY <1>2 DEF HumanMarked
<1>4. ASSUME NEW c \in Call, call'[c].step \in Late, repo'.half = Human PROVE FALSE
  <2>1. Same(c) \/ Inside(c)
    BY <1>4, CallsKept DEF CallStep, Outside, Late, Guarded, Checks, Cleanups, Confirms
  <2>2. call[c].step \in Guarded
    BY <1>4, <2>1 DEF Same, Inside, Late
  <2>3. ~HumanMerges
    BY <2>2 DEF HumanMerges, HumanActs
  <2>4. repo.half = Human /\ repo.mergeHead
    BY <1>2, <1>4, <2>3 DEF HumanMarked
  <2>5. call[c].step \in {"branch", "markers"}
    BY <2>2, <2>4 DEF Alone, Late
  <2>6. Inside(c)
    BY <1>4, <2>1, <2>5 DEF Same, Late
  <2>7. PICK to \in GuardedSteps : Goes(c, to) /\ Leads(c, call[c].step, to)
    BY <2>6 DEF Inside
  <2>8. to \in Late
    BY <1>4, <2>7 DEF Goes
  <2>9. Fits(c) /\ to = After(call[c].step)
    BY <2>5, <2>7, <2>8 DEF Leads, Late, Guarded, Checks, Cleanups, Confirms
  <2>10. call[c].step = "markers"
    BY <2>5, <2>8, <2>9 DEF After, Late
  <2> QED
    BY <2>4, <2>9, <2>10 DEF Fits
<1> QED
  BY <1>3, <1>4 DEF Alone

\* The cleanup of integrateWorker takes any MERGE_HEAD for its own; that is right,
\* whatever the human does but begin a merge during an integration.
THEOREM HumanMergesAreLeftAlone ==
  ASSUME "merges" \notin HumanRaces PROVE Spec => HumanMergeIsLeftAlone
<1> DEFINE Left == repo.half = Human /\ repo'.half # Human => humans' # humans
<1>1. Init => HumanMarked /\ Alone
  <2> SUFFICES ASSUME Init PROVE HumanMarked /\ Alone
    OBVIOUS
  <2>1. repo.half = Nothing /\ Nothing # Human
    BY DEF Init, Nothing, Human
  <2> QED
    BY <2>1 DEF HumanMarked, Alone
<1>2. Safe /\ HumanMarked /\ Alone /\ [Next]_vars => (HumanMarked /\ Alone)'
  BY AloneKept
<1>3. Safe /\ HumanMarked /\ Alone /\ [Next]_vars => Left
  <2> SUFFICES ASSUME Safe, Alone, [Next]_vars, repo.half = Human, repo'.half # Human
               PROVE  humans' # humans
    OBVIOUS
  <2>1. ASSUME NEW c \in Call, Merge(c) \/ Abort(c) PROVE FALSE
    BY <2>1 DEF Merge, Abort, Alone, Late, Guarded, Cleanups
  <2>2. ASSUME Crash PROVE FALSE
    <3>1. PICK c \in Call : /\ call[c].step = "merge"
                            /\ repo' \in Failures(call[c].worker, call[c].commit)
      BY <2>2 DEF Crash
    <3> QED
      BY <3>1 DEF Alone, Late, Guarded
  <2>3. ASSUME NEW act, HumanActs(act) PROVE humans' # humans
    <3>1. humans \in Nat /\ humans' = humans + 1
      BY <2>3 DEF HumanActs, Safe, Counted
    <3> QED
      BY <3>1
  <2>4. CASE HumanEdits \/ HumanCommits \/ HumanSwitches \/ HumanMerges \/ HumanConcludes
             \/ HumanResets
    BY <2>3, <2>4 DEF HumanEdits, HumanCommits, HumanSwitches, HumanMerges, HumanConcludes,
                      HumanResets
  <2> QED
    BY <2>1, <2>2, <2>4, RepoSteps DEF RepoStep
<1> QED
  BY IntegrationInvariant, <1>1, <1>2, <1>3, PTL DEF Spec, HumanMergeIsLeftAlone

-----------------------------------------------------------------------------
(* The single slot *)

\* A Worker that occupies the slot: unfinished, and not reopened by a conflict.
Occupant(w) == rec[w].status \in {"working", "stopped"} /\ ~rec[w].reopened

\* The slot is reserved while it is empty.
InSlot == OneOccupant /\ (creating # NoOne => \A w \in Worker : ~Occupant(w))

\* When no Worker comes to occupy the slot, it is as good as before.
LEMMA FewerInSlot ==
  ASSUME InSlot, \A w \in Worker : Occupant(w)' => Occupant(w),
         creating' = creating \/ creating' = NoOne
  PROVE  InSlot'
BY DEF InSlot, OneOccupant, Occupant

\* A step keeps one Worker in the slot.
LEMMA SlotKept ==
  ASSUME Safe, InSlot, [Next]_vars
  PROVE  InSlot'
<1>0. rec \in [Worker -> RecType]
  BY DEF Safe, Types
<1>1. CASE UNCHANGED <<rec, creating>>
  BY <1>1 DEF InSlot, OneOccupant, Occupant
<1>2. ASSUME NEW w \in Worker, Create(w) PROVE InSlot'
  BY <1>2 DEF Create, InSlot, OneOccupant, Occupant, Unfinished
<1>3. ASSUME NEW w \in Worker, Reserve(w) PROVE InSlot'
  <2>1. creating = w /\ creating' = NoOne /\ \A v \in Worker \ {w} : rec'[v] = rec[v]
    BY <1>0, <1>3 DEF Reserve
  <2>2. \A v \in Worker : ~Occupant(v)
    BY <2>1, NoOneIsNoWorker DEF InSlot
  <2> QED
    BY <2>1, <2>2 DEF InSlot, OneOccupant, Occupant
<1>4. ASSUME NEW w \in Worker, \A v \in Worker \ {w} : rec'[v] = rec[v],
             Occupant(w)' => Occupant(w), creating' = creating
      PROVE  InSlot'
  <2>1. \A v \in Worker : Occupant(v)' => Occupant(v)
    BY <1>4 DEF Occupant
  <2> QED
    BY <1>4, <2>1, FewerInSlot
<1>5. ASSUME NEW w \in Worker, Restarted(w) PROVE InSlot'
  <2>1. creating' = creating /\ \A v \in Worker \ {w} : rec'[v] = rec[v]
    BY <1>0, <1>5 DEF Restarted
  <2>2. Occupant(w)' => Occupant(w)
    BY <1>0, <1>5 DEF Restarted, Occupant, RecType
  <2> QED
    BY <1>4, <2>1, <2>2
<1>6. ASSUME NEW w \in Worker, NEW status \in Statuses, EndAttempt(w, status) PROVE InSlot'
  <2>1. creating' = creating /\ \A v \in Worker \ {w} : rec'[v] = rec[v]
    BY <1>0, <1>6 DEF EndAttempt
  <2>2. rec[w].status = "working" /\ rec'[w].status = status
        /\ rec'[w].reopened = (rec[w].reopened /\ status = "stopped")
        /\ status \in {"completed", "stopped", "failed"}
    BY <1>0, <1>6 DEF EndAttempt, RecType
  <2> QED
    BY <1>4, <2>1, <2>2 DEF Occupant
<1>7. ASSUME NEW c \in Call, Record(c) PROVE InSlot'
  <2>1. call[c].worker \in Worker /\ creating' = creating
    BY <1>7 DEF Record, Safe, InOrder, CallIs
  <2>2. PICK w \in Worker : w = call[c].worker
    BY <2>1
  <2>3. \/ rec' = rec
        \/ rec' = [rec EXCEPT ![w].status = "integrated"]
        \/ rec' = [rec EXCEPT ![w].status = "stopped", ![w].reopened = TRUE]
    BY <1>7, <2>2 DEF Record
  <2>4. \A v \in Worker \ {w} : rec'[v] = rec[v]
    BY <1>0, <2>3
  <2>5. Occupant(w)' => Occupant(w)
    BY <1>0, <2>3 DEF Occupant, RecType
  <2> QED
    BY <1>4, <2>1, <2>4, <2>5
<1>8. ASSUME Recover, creating' = NoOne PROVE InSlot'
  <2>1. ASSUME NEW w \in Worker, Occupant(w)' PROVE Occupant(w)
    <3>1. CASE rec[w].status # "working"
      BY <1>8, <2>1, <3>1 DEF Recover, Occupant
    <3>2. CASE rec[w].status = "working"
      <4>1. rec'[w].reopened = FALSE => rec[w].reopened = FALSE \/ rec'[w].status # "stopped"
        BY <1>0, <1>8, <3>2 DEF Recover, RecType
      <4> QED
        BY <1>0, <1>8, <2>1, <3>2, <4>1 DEF Recover, Occupant, RecType
    <3> QED
      BY <3>1, <3>2
  <2> QED
    BY <1>8, <2>1, FewerInSlot
<1>9. CASE NextSession
  BY <1>8, <1>9 DEF NextSession
<1>10. CASE Crash
  BY <1>8, <1>10 DEF Crash
<1>11. ASSUME NEW c \in Call, Proceed(c) PROVE InSlot'
  BY <1>1, <1>7, <1>11 DEF Proceed, Verify, Lock, Check, NoteHead, Ancestor, Merge, Cleanup,
                           Unmerged, Marker, Abort, Gone, Answer, Abandon, control
<1>12. ASSUME NEW w \in Worker, NEW c \in Call, Integrate(c, w) PROVE InSlot'
  BY <1>1, <1>12 DEF Integrate, control
<1>13. ASSUME NEW w \in Worker, Resume(w) \/ CommitWork(w) PROVE InSlot'
  BY <1>1, <1>13 DEF Resume, CommitWork
<1>14. CASE HumanEdits \/ HumanCommits \/ HumanSwitches \/ HumanMerges \/ HumanConcludes \/ HumanResets
  BY <1>1, <1>14 DEF HumanEdits, HumanCommits, HumanSwitches, HumanMerges, HumanConcludes,
                     HumanResets, HumanActs, control
<1>15. CASE Dispose \/ UNCHANGED vars
  BY <1>1, <1>15 DEF Dispose, vars, control
<1> QED
  BY <1>2, <1>3, <1>5, <1>6, <1>7, <1>9, <1>10, <1>11, <1>12, <1>13, <1>14, <1>15
  DEF Next, Occupies

\* createAndStart and resume look for another unfinished Worker before their
\* update, which does not look again; still one Worker at most is unfinished
\* besides those that a conflict has reopened.
THEOREM OneOccupantOfTheSlot == Spec => []OneOccupant
<1>1. Init => InSlot
  BY DEF Init, InSlot, OneOccupant, Occupant
<1>2. Safe /\ InSlot /\ [Next]_vars => InSlot'
  BY SlotKept
<1>3. InSlot => OneOccupant
  BY DEF InSlot
<1> QED
  BY IntegrationInvariant, <1>1, <1>2, <1>3, PTL DEF Spec
=============================================================================
