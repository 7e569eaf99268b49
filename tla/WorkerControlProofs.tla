------------------------- MODULE WorkerControlProofs -------------------------
(***************************************************************************)
(* Proofs about WorkerControl, for every number of sessions, commits,      *)
(* crashes and commands.                                                   *)
(***************************************************************************)
EXTENDS WorkerControl, SequenceTheorems, WellFoundedInduction, TLAPS

-----------------------------------------------------------------------------
(* Types *)

PendingSet == {"none", "paused", "blocked", "completed", "failed"}
ResultSet  == {"none", "completed", "failed", "blocked"}
SessSet    == {"none", "building", "idle", "busy", "stopping", "gone"}
SettledKind == {"settled", "rejected"}
KindSet    == {"pause", "steer", "resume"} \cup SettledKind
ResumeSteps == {"start", "resources", "open", "build", "swap", "latest", "update", "launch"}
SettleSteps == {"start", "settle", "fail", "block", "publish", "verify", "accept", "refuse", "retire"}
CreateSteps == {"idle", "reserve", "start", "plan", "addTree", "open", "build", "swap", "begin",
                "fail", "drop"}
CbSteps    == {"none", "commit", "verify", "write", "written", "update", "clean"}

RecType == [status : Statuses, attempt : Nat, pending : PendingSet,
            instr : Seq(1..MaxCommands), commit : 0..MaxCommits]
ResultType == [attempt : Nat, status : ResultSet, commit : 0..MaxCommits]
ManagedType == [s : 0..MaxSession, turn : Nat, attempt : Nat, instr : Seq(1..MaxCommands)]
AbortType == [step : {"idle", "read", "interrupt", "stop"}, s : 0..MaxSession]

\* From the making of its session on, a start has one.
CreateType ==
    {c \in [step : CreateSteps, s : 0..MaxSession] :
        c.step \in {"build", "swap", "begin"} => c.s \in Session}

\* A callback that completes the attempt has a status to complete it with.
CbType ==
    {c \in [step : CbSteps, status : ResultSet, attempt : Nat, commit : 0..MaxCommits] :
        c.step \notin {"none", "commit"} => c.status # "none"}

\* An operation is at a step of its kind, and has the session that its step needs.
OpRecord == [kind : KindSet, step : ResumeSteps \cup SettleSteps,
             s : 0..MaxSession, turn : Nat, fail : BOOLEAN, msg : 0..MaxCommands,
             stale : BOOLEAN, made : BOOLEAN, seen : PendingSet, commit : 0..MaxCommits,
             instr : Seq(1..MaxCommands)]
HasSession(o) ==
    \/ o.kind \in SettledKind
    \/ o.kind = "resume" /\ o.step \in {"build", "swap", "latest", "update", "launch"}
OpType ==
    {o \in OpRecord :
        /\ o.kind = "steer" => o.msg # 0
        /\ o.kind \in {"pause", "steer"} => o.step = "start"
        /\ o.kind = "resume" => o.step \in ResumeSteps
        /\ o.kind \in SettledKind => o.step \in SettleSteps
        /\ o.made => o.kind = "resume" /\ HasSession(o)
        /\ HasSession(o) => o.s \in Session}

Types ==
    /\ rec \in RecType /\ result \in ResultType
    /\ paused \in BOOLEAN /\ dirty \in BOOLEAN /\ disk \in BOOLEAN /\ pausing \in BOOLEAN
    /\ head \in 0..MaxCommits
    /\ mode \in {"down", "recover", "up"}
    /\ live \in 0..MaxSession /\ managed \in ManagedType
    /\ sess \in [Session -> SessSet] /\ cb \in [Session -> CbType]
    /\ queue \in Seq(OpType)
    /\ create \in CreateType /\ abort \in AbortType
    /\ commands \in 0..MaxCommands

-----------------------------------------------------------------------------
(* The operation queue *)

\* The operations behind the one that runs.
Waiting(q) == {q[i] : i \in 2..Len(q)}

\* What is in a queue, and what waits in it, by its places.
LEMMA Places ==
  ASSUME NEW S, NEW q \in Seq(S), NEW y
  PROVE  /\ y \in Range(q) <=> \E i \in 1..Len(q) : y = q[i]
         /\ y \in Waiting(q) <=> \E i \in 2..Len(q) : y = q[i]
<1>1. DOMAIN q = 1..Len(q)
  OBVIOUS
<1>2. y \in Range(q) <=> \E i \in DOMAIN q : y = q[i]
  BY DEF Range
<1>3. y \in Waiting(q) <=> \E i \in 2..Len(q) : y = q[i]
  BY DEF Waiting
<1> QED
  BY <1>1, <1>2, <1>3

\* The operation at the head is one of the queue's, and the others wait.
LEMMA QueueHead ==
  ASSUME NEW S, NEW q \in Seq(S), q # <<>>
  PROVE  /\ Head(q) \in S /\ Head(q) \in Range(q)
         /\ Range(q) = {Head(q)} \cup Waiting(q)
         /\ Waiting(q) \subseteq S
<1>1. Len(q) \in Nat \ {0} /\ Head(q) = q[1] /\ \A i \in 1..Len(q) : q[i] \in S
  OBVIOUS
<1>2. ASSUME NEW y PROVE /\ y \in Range(q) <=> y = Head(q) \/ y \in Waiting(q)
                         /\ y \in Waiting(q) => y \in S
  BY <1>1, Places
<1> QED
  BY <1>1, <1>2

\* A queue whose first place has changed.
LEMMA FirstChanged ==
  ASSUME NEW S, NEW q \in Seq(S), NEW r \in Seq(S), q # <<>>,
         Len(r) = Len(q), \A i \in 2..Len(q) : r[i] = q[i]
  PROVE  /\ r # <<>> /\ Waiting(r) = Waiting(q)
         /\ Range(r) = {Head(r)} \cup Waiting(q)
<1>1. ASSUME NEW y PROVE y \in Waiting(r) <=> y \in Waiting(q)
  BY Places
<1>2. Waiting(r) = Waiting(q)
  BY <1>1
<1>3. r # <<>>
  OBVIOUS
<1> QED
  BY <1>2, <1>3, QueueHead

\* A queue without its first place.
LEMMA FirstGone ==
  ASSUME NEW S, NEW q \in Seq(S), NEW r \in Seq(S), Len(q) \in Nat \ {0},
         Len(r) = Len(q) - 1, \A i \in 1..Len(r) : r[i] = q[i + 1]
  PROVE  /\ Range(r) = Waiting(q) /\ Waiting(r) \subseteq Waiting(q)
         /\ r # <<>> => Head(r) \in Waiting(q)
<1>1. \A i \in 2..Len(q) : i - 1 \in 1..Len(r) /\ q[i] = r[i - 1]
  OBVIOUS
<1>2. \A i \in 1..Len(r) : i + 1 \in 2..Len(q)
  OBVIOUS
<1>3. ASSUME NEW y PROVE y \in Range(r) <=> y \in Waiting(q)
  <2>1. y \in Range(r) <=> \E i \in 1..Len(r) : y = r[i]
    BY Places
  <2>2. y \in Waiting(q) <=> \E i \in 2..Len(q) : y = q[i]
    BY Places
  <2>3. ASSUME NEW i \in 1..Len(r), y = r[i] PROVE \E k \in 2..Len(q) : y = q[k]
    BY <1>2, <2>3
  <2>4. ASSUME NEW i \in 2..Len(q), y = q[i] PROVE \E k \in 1..Len(r) : y = r[k]
    BY <1>1, <2>4
  <2> QED
    BY <2>1, <2>2, <2>3, <2>4
<1>4. ASSUME NEW y \in Waiting(r) PROVE y \in Range(r)
  BY Places
<1>5. r # <<>> => Head(r) \in Range(r)
  BY QueueHead
<1>6. Range(r) = Waiting(q)
  BY <1>3
<1> QED
  BY <1>4, <1>5, <1>6

\* A queue with one more place.
LEMMA LastAdded ==
  ASSUME NEW S, NEW q \in Seq(S), NEW r \in Seq(S), NEW x,
         Len(r) = Len(q) + 1, r[Len(q) + 1] = x, \A i \in 1..Len(q) : r[i] = q[i]
  PROVE  Range(r) = Range(q) \cup {x} /\ Waiting(r) \subseteq Waiting(q) \cup {x}
<1>1. ASSUME NEW y PROVE /\ y \in Range(r) <=> y \in Range(q) \/ y = x
                         /\ y \in Waiting(r) => y \in Waiting(q) \/ y = x
  <2>1. Len(q) \in Nat
    OBVIOUS
  <2> QED
    BY <2>1, Places
<1> QED
  BY <1>1

\* The operation at the head goes on as another one.
LEMMA QueueStep ==
  ASSUME NEW S, NEW q \in Seq(S), q # <<>>, NEW x \in S,
         NEW r, r = <<x>> \o Tail(q)
  PROVE  /\ r \in Seq(S) /\ r # <<>> /\ Head(r) = x
         /\ Waiting(r) = Waiting(q)
         /\ Range(r) = {x} \cup Waiting(q)
<1>1. r \in Seq(S) /\ Len(r) = Len(q) /\ Head(r) = x /\ \A i \in 2..Len(q) : r[i] = q[i]
  OBVIOUS
<1> QED
  BY ONLY <1>1, FirstChanged, q \in Seq(S), q # <<>>

\* The operation at the head is done.
LEMMA QueueDone ==
  ASSUME NEW S, NEW q \in Seq(S), q # <<>>, NEW r, r = Tail(q)
  PROVE  /\ r \in Seq(S)
         /\ Range(r) = Waiting(q) /\ Waiting(r) \subseteq Waiting(q)
         /\ r # <<>> => Head(r) \in Waiting(q)
<1>1. /\ r \in Seq(S) /\ Len(q) \in Nat \ {0} /\ Len(r) = Len(q) - 1
      /\ \A i \in 1..Len(r) : r[i] = q[i + 1]
  OBVIOUS
<1> QED
  BY ONLY <1>1, FirstGone, q \in Seq(S)

\* An operation is queued.
LEMMA QueueAppend ==
  ASSUME NEW S, NEW q \in Seq(S), NEW x \in S
  PROVE  /\ Append(q, x) \in Seq(S) /\ Append(q, x) # <<>>
         /\ Range(Append(q, x)) = Range(q) \cup {x}
         /\ Waiting(Append(q, x)) \subseteq Waiting(q) \cup {x}
         /\ q = <<>> => Head(Append(q, x)) = x
         /\ q # <<>> => Head(Append(q, x)) = Head(q)
<1> DEFINE r == Append(q, x)
<1>1. /\ r \in Seq(S) /\ Len(r) = Len(q) + 1
      /\ r[Len(q) + 1] = x /\ \A i \in 1..Len(q) : r[i] = q[i]
  OBVIOUS
<1>2. Range(r) = Range(q) \cup {x} /\ Waiting(r) \subseteq Waiting(q) \cup {x}
  <2> HIDE DEF r
  <2> QED
    BY <1>1, LastAdded
<1>3. r # <<>> /\ (q = <<>> => Head(r) = x)
  OBVIOUS
<1>4. q # <<>> => Head(r) = Head(q)
  OBVIOUS
<1> HIDE DEF r
<1>5. /\ r \in Seq(S) /\ r # <<>> /\ Range(r) = Range(q) \cup {x} /\ Waiting(r) \subseteq Waiting(q) \cup {x}
      /\ q = <<>> => Head(r) = x
      /\ q # <<>> => Head(r) = Head(q)
  BY ONLY <1>1, <1>2, <1>3, <1>4
<1> QED
  BY <1>5 DEF r

-----------------------------------------------------------------------------
(* Types *)

\* The new session is one that was not made yet.
LEMMA FreshSession ==
  ASSUME Types, CanMakeSession
  PROVE  Fresh \in Session /\ sess[Fresh] = "none"
<1> DEFINE T == {s \in Session : sess[s] = "none"}
           R == OpToRel(<, Nat)
<1>1. T \subseteq Nat /\ T # {}
  BY BoundsAreSane DEF CanMakeSession, Session
<1>2. \E x \in T : \A y \in T : ~ (<<y, x>> \in R)
  <2> HIDE DEF T, R
  <2>1. IsWellFoundedOn(R, Nat)
    BY NatLessThanWellFounded DEF R
  <2> QED
    BY <1>1, <2>1, WFMin
<1>3. PICK x \in T : \A y \in T : ~ (<<y, x>> \in R)
  BY <1>2
<1>4. \A y \in T : <<y, x>> \in Nat \X Nat /\ (y < x => <<y, x>> \in R)
  BY <1>1 DEF OpToRel
<1>5. \A y \in T : ~(y < x)
  BY <1>3, <1>4
<1>6. x \in Session /\ sess[x] = "none" /\ \A t \in 1..(x - 1) : sess[t] # "none"
  BY <1>5, <1>1, BoundsAreSane DEF Session
<1> QED
  BY <1>6 DEF Fresh

\* Fields of an operation that it may change at any step.
LEMMA OpFields ==
  ASSUME NEW x \in OpType
  PROVE  /\ \A v \in BOOLEAN : [x EXCEPT !.stale = v] \in OpType
         /\ \A v \in 1..MaxCommands : [x EXCEPT !.msg = v] \in OpType
<1>1. x \in OpRecord
  BY DEF OpType
<1>2. ASSUME NEW v \in BOOLEAN PROVE [x EXCEPT !.stale = v] \in OpType
  <2> DEFINE y == [x EXCEPT !.stale = v]
  <2>1. /\ y \in OpRecord /\ y.kind = x.kind /\ y.step = x.step /\ y.s = x.s
        /\ y.msg = x.msg /\ y.made = x.made
    BY <1>1 DEF OpRecord
  <2> HIDE DEF y
  <2>2. y \in OpType
    BY <2>1 DEF OpType, HasSession
  <2> QED
    BY <2>2 DEF y
<1>3. ASSUME NEW v \in 1..MaxCommands PROVE [x EXCEPT !.msg = v] \in OpType
  <2> DEFINE y == [x EXCEPT !.msg = v]
  <2>1. v \in 0..MaxCommands /\ v # 0
    BY BoundsAreSane
  <2>2. /\ y \in OpRecord /\ y.kind = x.kind /\ y.step = x.step /\ y.s = x.s
        /\ y.msg = v /\ y.made = x.made
    BY <1>1, <2>1 DEF OpRecord
  <2> HIDE DEF y
  <2>3. y \in OpType
    BY <2>1, <2>2 DEF OpType, HasSession
  <2> QED
    BY <2>3 DEF y
<1> QED
  BY <1>2, <1>3

\* A resume goes on to a step, with the session that the step needs.
LEMMA ResumeGoes ==
  ASSUME NEW x \in OpType, x.kind = "resume", NEW v \in ResumeSteps,
         NEW s \in 0..MaxSession,
         v \in {"build", "swap", "latest", "update", "launch"} \/ ~x.made,
         v \in {"build", "swap", "latest", "update", "launch"} => s \in Session
  PROVE  /\ [x EXCEPT !.step = v, !.s = s] \in OpType
         /\ \A i \in Seq(1..MaxCommands) : [x EXCEPT !.step = v, !.s = s, !.instr = i] \in OpType
         /\ s \in Session /\ v = "build" => [x EXCEPT !.step = v, !.s = s, !.made = TRUE] \in OpType
<1>1. x \in OpRecord /\ ~(v \in SettleSteps /\ v \notin ResumeSteps)
  BY DEF OpType
<1> QED
  BY <1>1 DEF OpType, OpRecord, HasSession, ResumeSteps, SettledKind

\* The handler of a settled turn goes on to a step.
LEMMA SettleGoes ==
  ASSUME NEW x \in OpType, x.kind \in SettledKind, NEW v \in SettleSteps,
         NEW seen \in PendingSet, NEW commit \in 0..MaxCommits
  PROVE  /\ [x EXCEPT !.step = v] \in OpType
         /\ [x EXCEPT !.seen = seen, !.commit = commit, !.step = v] \in OpType
BY DEF OpType, OpRecord, HasSession, SettledKind

\* What is put in the queue are operations.
LEMMA NewOps ==
  ASSUME Types
  PROVE  /\ Op("pause") \in OpType /\ Op("resume") \in OpType
         /\ \A m \in 1..MaxCommands : [Op("steer") EXCEPT !.msg = m] \in OpType
         /\ \A s \in Session, f \in BOOLEAN :
               Settled(s, managed.turn, f) \in OpType /\ Rejected(s, managed.turn) \in OpType
<1>1. \A k \in {"pause", "steer", "resume", "settled", "rejected"} :
         Op(k) \in OpRecord /\ Op(k).msg = 0 /\ Op(k).step = "start" /\ Op(k).kind = k /\ ~Op(k).made
  BY BoundsAreSane DEF Op, OpRecord, KindSet, SettledKind, ResumeSteps, PendingSet
<1>2. managed.turn \in Nat /\ Session \subseteq 0..MaxSession
  BY BoundsAreSane DEF Types, ManagedType, Session
<1>3. ASSUME NEW s \in Session, NEW f \in BOOLEAN, NEW n \in Nat
      PROVE  Settled(s, n, f) \in OpType /\ Rejected(s, n) \in OpType
  BY <1>1, <1>2 DEF Settled, Rejected, OpType, OpRecord, HasSession, SettledKind, SettleSteps
<1>4. ASSUME NEW m \in 1..MaxCommands PROVE [Op("steer") EXCEPT !.msg = m] \in OpType
  <2> DEFINE x == Op("steer")
             y == [x EXCEPT !.msg = m]
  <2>1. /\ x \in OpRecord /\ x.step = "start" /\ x.kind = "steer" /\ ~x.made
        /\ m \in 0..MaxCommands /\ m # 0
    BY <1>1, BoundsAreSane
  <2> HIDE DEF x
  <2>2. /\ y \in OpRecord /\ y.msg # 0 /\ y.kind = "steer" /\ y.step = "start" /\ ~y.made
    BY <2>1 DEF OpRecord
  <2> HIDE DEF y
  <2>3. y \in OpType
    BY <2>2 DEF OpType, HasSession, SettledKind
  <2> QED
    BY <2>3 DEF x, y
<1>5. Op("pause") \in OpType /\ Op("resume") \in OpType
  BY <1>1 DEF OpType, HasSession, ResumeSteps, SettledKind
<1> QED
  BY <1>2, <1>3, <1>4, <1>5

\* A rejected prompt is an operation.
LEMMA NewRejected ==
  ASSUME NEW s \in Session, NEW n \in Nat
  PROVE  Rejected(s, n) \in OpType
<1>1. Op("rejected") \in OpRecord /\ ~Op("rejected").made /\ Op("rejected").kind = "rejected"
  BY BoundsAreSane DEF Op, OpRecord, KindSet, SettledKind, ResumeSteps, PendingSet
<1>2. s \in 0..MaxSession
  BY BoundsAreSane DEF Session
<1> QED
  BY <1>1, <1>2 DEF Rejected, OpType, OpRecord, HasSession, SettledKind, SettleSteps


\* The helpers that write a variable write a value of its type.
LEMMA Writes ==
  ASSUME Types
  PROVE  /\ \A v \in Statuses : Move(v) => rec' \in RecType
         /\ \A v \in Statuses : Become(v) => rec' \in RecType
         /\ \A v \in CreateSteps : CreateTo(v) =>
               ((v \in {"build", "swap", "begin"} => create.s \in Session) => create' \in CreateType)
         /\ Idle \in CreateType /\ Idle \in AbortType
         /\ \A s \in 0..MaxSession : Invalidate(s) => live' \in 0..MaxSession
         /\ \A s \in 0..MaxSession : Disposed(s) \in [Session -> SessSet]
         /\ \A s \in 0..MaxSession : Dispose(s) => sess' \in [Session -> SessSet] /\ managed' \in ManagedType
         /\ \A s \in 0..MaxSession : [NoRuntime EXCEPT !.s = s] \in ManagedType
         /\ NoRuntime \in ManagedType /\ NoResult \in ResultType /\ NoCallback \in CbType
<1>1. /\ \A v \in Statuses : Move(v) => rec' \in RecType
      /\ \A v \in Statuses : Become(v) => rec' \in RecType
  BY DEF Types, Move, Become, RecType, PendingSet
<1>2. /\ \A v \in CreateSteps : CreateTo(v) =>
            ((v \in {"build", "swap", "begin"} => create.s \in Session) => create' \in CreateType)
      /\ Idle \in CreateType /\ Idle \in AbortType
  BY BoundsAreSane DEF Types, CreateTo, CreateType, CreateSteps, AbortType, Idle
<1>3. \A s \in 0..MaxSession : Invalidate(s) => live' \in 0..MaxSession
  BY BoundsAreSane DEF Types, Invalidate
<1>4. /\ NoRuntime \in ManagedType /\ NoResult \in ResultType /\ NoCallback \in CbType
      /\ \A s \in 0..MaxSession : [NoRuntime EXCEPT !.s = s] \in ManagedType
  <2>1. <<>> \in Seq(1..MaxCommands) /\ 0 \in 0..MaxSession /\ 0 \in 0..MaxCommits /\ 0 \in Nat
    BY BoundsAreSane
  <2> QED
    BY <2>1 DEF NoRuntime, NoResult, NoCallback, ManagedType, ResultType, CbType, ResultSet, CbSteps
<1>5. \A s \in 0..MaxSession : Disposed(s) \in [Session -> SessSet]
  BY DEF Types, Disposed, SessSet
<1>6. \A s \in 0..MaxSession : Dispose(s) => sess' \in [Session -> SessSet] /\ managed' \in ManagedType
  BY <1>4, <1>5 DEF Types, Dispose
<1> QED
  BY <1>1, <1>2, <1>3, <1>4, <1>5, <1>6

\* A session is made.
LEMMA Made ==
  ASSUME Types, MakeSession
  PROVE  /\ Fresh \in Session /\ sess[Fresh] = "none"
         /\ live' = Fresh /\ live' \in 0..MaxSession
         /\ sess' = [sess EXCEPT ![Fresh] = "building"] /\ sess' \in [Session -> SessSet]
<1>1. Fresh \in Session /\ sess[Fresh] = "none"
  BY FreshSession DEF MakeSession
<1>2. Session \subseteq 0..MaxSession
  BY BoundsAreSane DEF Session
<1>3. live' = Fresh /\ sess' = [sess EXCEPT ![Fresh] = "building"]
  BY DEF MakeSession
<1>4. sess' \in [Session -> SessSet]
  BY <1>3 DEF Types, SessSet
<1> QED
  BY <1>1, <1>2, <1>3, <1>4

-----------------------------------------------------------------------------
(* What a step does to the queue *)

\* The operation that runs is done, ...
Ends ==
    /\ queue' \in Seq(OpType)
    /\ Range(queue') = Waiting(queue) /\ Waiting(queue') \subseteq Waiting(queue)
    /\ queue' # <<>> => op' \in Waiting(queue)

\* ... or goes on to step w: as the same operation (StepsTo), or with a session, with
\* what it has read of the record, with its prompt ...
GoesTo(w) ==
    /\ queue' \in Seq(OpType) /\ queue' # <<>> /\ op' \in OpType
    /\ Waiting(queue') = Waiting(queue) /\ Range(queue') = {op'} \cup Waiting(queue)
    /\ op'.step = w /\ op'.kind = op.kind /\ op'.turn = op.turn /\ op'.fail = op.fail
    /\ op'.msg = op.msg /\ op'.stale = op.stale
SameSession == op'.s = op.s /\ op'.made = op.made
SameReading == op'.seen = op.seen /\ op'.commit = op.commit
SamePrompt  == op'.instr = op.instr
StepsTo(w) == GoesTo(w) /\ SameSession /\ SameReading /\ SamePrompt

\* ... or others are queued behind it.
Gains(E) ==
    /\ queue' \in Seq(OpType) /\ queue' # <<>>
    /\ Range(queue) \subseteq Range(queue') /\ Range(queue') \subseteq Range(queue) \cup E
    /\ Waiting(queue') \subseteq Waiting(queue) \cup E
    /\ queue = <<>> => op' \in E
    /\ queue # <<>> => op' = op

\* The operation that runs is one, and the others wait.
LEMMA TheOp ==
  ASSUME Types, queue # <<>>
  PROVE  op \in OpType /\ op \in Range(queue) /\ Range(queue) = {op} \cup Waiting(queue)
         /\ Waiting(queue) \subseteq OpType
BY QueueHead DEF Types, op

\* It goes on as another one.
LEMMA OpGoesOn ==
  ASSUME Types, queue # <<>>, NEW x \in OpType, queue' = <<x>> \o Tail(queue)
  PROVE  /\ queue' \in Seq(OpType) /\ queue' # <<>> /\ op' = x /\ op' \in OpType
         /\ Waiting(queue') = Waiting(queue) /\ Range(queue') = {op'} \cup Waiting(queue)
<1>1. queue \in Seq(OpType) /\ op' = Head(queue')
  BY DEF Types, op
<1>2. \A r : r = <<x>> \o Tail(queue) =>
         /\ r \in Seq(OpType) /\ r # <<>> /\ Head(r) = x
         /\ Waiting(r) = Waiting(queue) /\ Range(r) = {x} \cup Waiting(queue)
  BY ONLY QueueStep, <1>1, x \in OpType, queue # <<>>
<1> QED
  BY <1>1, <1>2

\* A resume goes on to a step.
LEMMA ResumeTo ==
  ASSUME Types, queue # <<>>, op.kind = "resume", NEW w \in ResumeSteps,
         \/ w \in {"resources", "open"} /\ ~op.made
         \/ w \in {"swap", "latest", "launch"} /\ op.s \in Session, Step(w)
  PROVE  StepsTo(w)
<1>1. op \in OpType /\ op \in OpRecord
  BY TheOp DEF OpType
<1>2. [op EXCEPT !.step = w] \in OpType
  <2>1. [op EXCEPT !.step = w] = [op EXCEPT !.step = w, !.s = op.s] /\ op.s \in 0..MaxSession
    BY <1>1 DEF OpRecord
  <2> QED
    BY <1>1, <2>1, ResumeGoes
<1>3. op' = [op EXCEPT !.step = w]
  BY <1>2, OpGoesOn DEF Step
<1>4. /\ op'.step = w /\ op'.kind = op.kind /\ op'.turn = op.turn /\ op'.fail = op.fail
      /\ op'.msg = op.msg /\ op'.stale = op.stale /\ op'.s = op.s /\ op'.made = op.made
      /\ op'.seen = op.seen /\ op'.commit = op.commit /\ op'.instr = op.instr
  BY ONLY <1>1, <1>3 DEF OpRecord
<1>5. /\ queue' \in Seq(OpType) /\ queue' # <<>> /\ op' \in OpType
      /\ Waiting(queue') = Waiting(queue) /\ Range(queue') = {op'} \cup Waiting(queue)
  BY <1>2, OpGoesOn DEF Step
<1> QED
  BY <1>4, <1>5 DEF StepsTo, GoesTo, SameSession, SameReading, SamePrompt

\* The handler of a settled turn goes on to a step.
LEMMA SettleTo ==
  ASSUME Types, queue # <<>>, op.kind \in SettledKind, NEW w \in SettleSteps, Step(w)
  PROVE  StepsTo(w)
<1>1. op \in OpType /\ op \in OpRecord
  BY TheOp DEF OpType
<1>2. [op EXCEPT !.step = w] \in OpType
  <2>1. 0 \in 0..MaxCommits /\ "none" \in PendingSet
    BY BoundsAreSane DEF PendingSet
  <2> QED
    BY <1>1, <2>1, SettleGoes
<1>3. op' = [op EXCEPT !.step = w]
  BY <1>2, OpGoesOn DEF Step
<1>4. /\ op'.step = w /\ op'.kind = op.kind /\ op'.turn = op.turn /\ op'.fail = op.fail
      /\ op'.msg = op.msg /\ op'.stale = op.stale /\ op'.s = op.s /\ op'.made = op.made
      /\ op'.seen = op.seen /\ op'.commit = op.commit /\ op'.instr = op.instr
  BY ONLY <1>1, <1>3 DEF OpRecord
<1>5. /\ queue' \in Seq(OpType) /\ queue' # <<>> /\ op' \in OpType
      /\ Waiting(queue') = Waiting(queue) /\ Range(queue') = {op'} \cup Waiting(queue)
  BY <1>2, OpGoesOn DEF Step
<1> QED
  BY <1>4, <1>5 DEF StepsTo, GoesTo, SameSession, SameReading, SamePrompt

\* It ends.
LEMMA OpEnds ==
  ASSUME Types, queue # <<>>, Done
  PROVE  Ends
BY QueueDone DEF Types, op, Done, Ends

\* Another operation is queued.
LEMMA OpQueued ==
  ASSUME Types, NEW x \in OpType, queue' = Append(queue, x)
  PROVE  Gains({x})
<1>1. queue \in Seq(OpType) /\ op' = Head(queue') /\ op = Head(queue)
  BY DEF Types, op
<1>2. LET r == Append(queue, x) IN
        /\ r \in Seq(OpType) /\ r # <<>>
        /\ Range(r) = Range(queue) \cup {x} /\ Waiting(r) \subseteq Waiting(queue) \cup {x}
        /\ queue = <<>> => Head(r) = x
        /\ queue # <<>> => Head(r) = Head(queue)
  BY <1>1, QueueAppend
<1> QED
  BY <1>1, <1>2 DEF Gains

\* A resume runs: what it is, that it may end, and the steps it may go on to.
LEMMA AtResume ==
  ASSUME Types, NEW v \in ResumeSteps, ResumeAt(v)
  PROVE  /\ mode = "up" /\ queue # <<>>
         /\ op \in OpType /\ op \in Range(queue) /\ op.kind = "resume" /\ op.step = v
         /\ op.s \in 0..MaxSession /\ op.msg \in 0..MaxCommands /\ op.instr \in Seq(1..MaxCommands)
         /\ IF v \in {"build", "swap", "latest", "update", "launch"} THEN op.s \in Session ELSE ~op.made
         /\ Done => Ends
         /\ \A w \in {"resources", "open"} :
               v \in {"start", "resources"} /\ Step(w) => StepsTo(w)
         /\ \A w \in {"swap", "latest", "launch"} :
               v \in {"build", "swap", "update"} /\ Step(w) => StepsTo(w)
<1>1. mode = "up" /\ queue # <<>> /\ op.kind = "resume" /\ op.step = v
  BY DEF ResumeAt, At
<1>2. op \in OpType /\ op \in Range(queue) /\ op \in OpRecord
  BY <1>1, TheOp DEF OpType
<1>3. op.s \in 0..MaxSession /\ op.msg \in 0..MaxCommands /\ op.instr \in Seq(1..MaxCommands)
  BY <1>2 DEF OpRecord
<1>4. IF v \in {"build", "swap", "latest", "update", "launch"} THEN op.s \in Session ELSE ~op.made
  BY <1>1, <1>2 DEF OpType, HasSession, SettledKind
<1>5. Done => Ends
  BY <1>1, OpEnds
<1>6. \A w \in {"resources", "open"} :
         v \in {"start", "resources"} /\ Step(w) => StepsTo(w)
  BY <1>1, <1>4, ResumeTo DEF ResumeSteps
<1>7. \A w \in {"swap", "latest", "launch"} :
         v \in {"build", "swap", "update"} /\ Step(w) => StepsTo(w)
  BY <1>1, <1>4, ResumeTo DEF ResumeSteps
<1> QED
  BY <1>1, <1>2, <1>3, <1>4, <1>5, <1>6, <1>7

\* The handler of a turn that settled runs.
LEMMA AtSettled ==
  ASSUME Types, NEW v, SettledAt(v)
  PROVE  /\ mode = "up" /\ queue # <<>>
         /\ op \in OpType /\ op \in Range(queue) /\ op.kind \in SettledKind /\ op.step = v
         /\ op.s \in Session /\ op.s \in 0..MaxSession /\ op.turn \in Nat
         /\ op.seen \in PendingSet /\ op.commit \in 0..MaxCommits
         /\ Done => Ends
         /\ \A w \in SettleSteps : Step(w) => StepsTo(w)
<1>1. mode = "up" /\ queue # <<>> /\ op.kind \in SettledKind /\ op.step = v
  BY DEF SettledAt, At, SettledKind
<1>2. op \in OpType /\ op \in Range(queue) /\ op \in OpRecord
  BY <1>1, TheOp DEF OpType
<1>3. /\ op.s \in 0..MaxSession /\ op.turn \in Nat
      /\ op.seen \in PendingSet /\ op.commit \in 0..MaxCommits
  BY <1>2 DEF OpRecord
<1>4. op.s \in Session
  BY <1>1, <1>2 DEF OpType, HasSession
<1>5. Done => Ends
  BY <1>1, OpEnds
<1>6. \A w \in SettleSteps : Step(w) => StepsTo(w)
  BY <1>1, SettleTo
<1> QED
  BY <1>1, <1>2, <1>3, <1>4, <1>5, <1>6

\* A resume takes the attached session, or makes one.
LEMMA ResumeOpens ==
  ASSUME Types, ResumeOpen
  PROVE  /\ SameReading /\ SamePrompt
         /\ \/ /\ managed.s # 0 /\ managed.s \in Session /\ UNCHANGED <<live, sess>>
               /\ GoesTo("latest") /\ op'.s = managed.s /\ ~op'.made
            \/ /\ managed.s = 0 /\ Fresh \in Session /\ sess[Fresh] = "none" /\ live' = Fresh
               /\ sess' = [sess EXCEPT ![Fresh] = "building"]
               /\ GoesTo("build") /\ op'.s = Fresh /\ op'.made
<1>1. queue # <<>> /\ op \in OpType /\ op \in OpRecord /\ op.kind = "resume" /\ ~op.made
  BY AtResume DEF ResumeOpen, ResumeSteps, OpType
<1>2. managed.s \in 0..MaxSession /\ 0..MaxSession = Session \cup {0}
  BY BoundsAreSane DEF Types, ManagedType, Session
<1>3. CASE managed.s # 0
  <2>1. managed.s \in Session
    BY <1>2, <1>3
  <2>2. [op EXCEPT !.step = "latest", !.s = managed.s] \in OpType
    BY <1>1, <1>2, <2>1, ResumeGoes DEF ResumeSteps
  <2>3. /\ UNCHANGED <<live, sess>>
        /\ queue' = <<[op EXCEPT !.step = "latest", !.s = managed.s]>> \o Tail(queue)
    BY <1>3 DEF ResumeOpen
  <2>4. op' = [op EXCEPT !.step = "latest", !.s = managed.s]
    BY <1>1, <2>2, <2>3, OpGoesOn
  <2>5. /\ op'.step = "latest" /\ op'.kind = op.kind /\ op'.turn = op.turn /\ op'.fail = op.fail
        /\ op'.msg = op.msg /\ op'.stale = op.stale /\ op'.s = managed.s /\ op'.made = op.made
        /\ op'.seen = op.seen /\ op'.commit = op.commit /\ op'.instr = op.instr
    BY ONLY <1>1, <2>4 DEF OpRecord
  <2>6. GoesTo("latest")
    BY <1>1, <2>2, <2>3, <2>5, OpGoesOn DEF GoesTo
  <2> QED
    BY <1>1, <1>3, <2>1, <2>3, <2>5, <2>6 DEF SameReading, SamePrompt
<1>4. CASE managed.s = 0
  <2>1. MakeSession
    BY <1>4 DEF ResumeOpen
  <2>2. Fresh \in Session /\ sess[Fresh] = "none" /\ live' = Fresh /\ sess' = [sess EXCEPT ![Fresh] = "building"]
    BY <2>1, Made
  <2>3. [op EXCEPT !.step = "build", !.s = Fresh, !.made = TRUE] \in OpType
    BY <1>1, <1>2, <2>2, ResumeGoes DEF ResumeSteps
  <2>4. queue' = <<[op EXCEPT !.step = "build", !.s = Fresh, !.made = TRUE]>> \o Tail(queue)
    BY <1>4 DEF ResumeOpen
  <2>5. op' = [op EXCEPT !.step = "build", !.s = Fresh, !.made = TRUE]
    BY <1>1, <2>3, <2>4, OpGoesOn
  <2>6. /\ op'.step = "build" /\ op'.kind = op.kind /\ op'.turn = op.turn /\ op'.fail = op.fail
        /\ op'.msg = op.msg /\ op'.stale = op.stale /\ op'.s = Fresh /\ op'.made = TRUE
        /\ op'.seen = op.seen /\ op'.commit = op.commit /\ op'.instr = op.instr
    BY ONLY <1>1, <2>5 DEF OpRecord
  <2>7. GoesTo("build")
    BY <1>1, <2>3, <2>4, <2>6, OpGoesOn DEF GoesTo
  <2> QED
    BY <1>4, <2>2, <2>6, <2>7 DEF SameReading, SamePrompt
<1> QED
  BY <1>3, <1>4

\* A resume that may go on carries the outbox, and its own message behind it.
LEMMA ResumeReads ==
  ASSUME Types, ResumeLatest
  PROVE  \/ /\ MayResume /\ live = op.s /\ UNCHANGED <<live, managed, sess>>
            /\ GoesTo("update") /\ SameSession
            /\ op.msg = 0 => op'.instr = rec.instr
            /\ op.msg # 0 => op'.instr = Append(rec.instr, op.msg)
         \/ ResumeFails
<1>1. /\ queue # <<>> /\ op \in OpType /\ op \in OpRecord /\ op.kind = "resume"
      /\ op.s \in Session /\ op.s \in 0..MaxSession /\ op.msg \in 0..MaxCommands
  BY AtResume DEF ResumeLatest, ResumeSteps, OpType
<1>2. op.msg # 0 => op.msg \in 1..MaxCommands
  BY <1>1, BoundsAreSane
<1>3. rec.instr \in Seq(1..MaxCommands) /\ (op.msg # 0 => Append(rec.instr, op.msg) \in Seq(1..MaxCommands))
  BY <1>2 DEF Types, RecType
<1>4. \A i \in Seq(1..MaxCommands) : [op EXCEPT !.step = "update", !.instr = i] \in OpType
  <2>1. \A i \in Seq(1..MaxCommands) :
           [op EXCEPT !.step = "update", !.instr = i] = [op EXCEPT !.step = "update", !.s = op.s, !.instr = i]
    BY <1>1 DEF OpRecord
  <2> QED
    BY <1>1, <2>1, ResumeGoes DEF ResumeSteps
<1>5. CASE MayResume /\ live = op.s
  <2> DEFINE Prompt(i) == [op EXCEPT !.step = "update", !.instr = i]
  <2>1. UNCHANGED <<live, managed, sess>>
    BY <1>5 DEF ResumeLatest
  <2>2. ASSUME NEW i \in Seq(1..MaxCommands), queue' = <<Prompt(i)>> \o Tail(queue)
        PROVE  GoesTo("update") /\ SameSession /\ op'.instr = i
    <3>1. Prompt(i) \in OpType
      BY <1>4
    <3>2. op' = Prompt(i)
      <4> HIDE DEF Prompt
      <4> QED
        BY <1>1, <2>2, <3>1, OpGoesOn
    <3>3. /\ op'.step = "update" /\ op'.kind = op.kind /\ op'.turn = op.turn /\ op'.fail = op.fail
          /\ op'.msg = op.msg /\ op'.stale = op.stale /\ op'.s = op.s /\ op'.made = op.made
          /\ op'.instr = i
      BY ONLY <1>1, <3>2 DEF OpRecord
    <3> HIDE DEF Prompt
    <3> QED
      BY <1>1, <2>2, <3>1, <3>3, OpGoesOn DEF GoesTo, SameSession
  <2>3. op.msg = 0 => queue' = <<Prompt(rec.instr)>> \o Tail(queue)
    BY <1>5 DEF ResumeLatest
  <2>4. op.msg # 0 => queue' = <<Prompt(Append(rec.instr, op.msg))>> \o Tail(queue)
    BY <1>5 DEF ResumeLatest
  <2> HIDE DEF Prompt
  <2>5. op.msg = 0 => GoesTo("update") /\ SameSession /\ op'.instr = rec.instr
    BY <1>3, <2>2, <2>3
  <2>6. op.msg # 0 => GoesTo("update") /\ SameSession /\ op'.instr = Append(rec.instr, op.msg)
    BY <1>3, <2>2, <2>4
  <2> QED
    BY <1>5, <2>1, <2>5, <2>6
<1>6. CASE ~(MayResume /\ live = op.s)
  BY <1>6 DEF ResumeLatest
<1> QED
  BY <1>5, <1>6

\* The handler of a settled turn reads the record and chooses its step.
LEMMA SettleChooses ==
  ASSUME Types, Settle
  PROVE  \/ /\ OpTurn /\ rec.status = "verifying"
            /\ IF rec.pending = "completed" THEN GoesTo("verify") ELSE GoesTo("publish")
            /\ SameSession /\ op'.seen = rec.pending /\ op'.commit = rec.commit
         \/ OpTurn /\ StepsTo("fail")
         \/ OpTurn /\ StepsTo("block") /\ rec.status \in Running
         \/ Ends /\ (OpTurn => rec.status \in {"queued", "starting"} \cup Resumable \cup Finished)
<1>1. /\ queue # <<>> /\ op \in OpType /\ op \in OpRecord /\ op.kind \in SettledKind /\ (Done => Ends)
      /\ \A w \in SettleSteps : Step(w) => StepsTo(w)
  BY AtSettled DEF Settle, OpType
<1>2. rec.pending \in PendingSet /\ rec.commit \in 0..MaxCommits
  BY DEF Types, RecType
<1>3. ASSUME NEW v \in {"verify", "publish"},
             queue' = <<[op EXCEPT !.seen = rec.pending, !.commit = rec.commit, !.step = v]>> \o Tail(queue)
      PROVE  GoesTo(v) /\ SameSession /\ op'.seen = rec.pending /\ op'.commit = rec.commit
  <2> DEFINE x == [op EXCEPT !.seen = rec.pending, !.commit = rec.commit, !.step = v]
  <2>1. x \in OpType
    BY <1>1, <1>2, SettleGoes DEF SettleSteps
  <2>2. op' = x
    <3> HIDE DEF x
    <3> QED
      BY <1>1, <1>3, <2>1, OpGoesOn DEF x
  <2>3. /\ op'.step = v /\ op'.kind = op.kind /\ op'.turn = op.turn /\ op'.fail = op.fail
        /\ op'.msg = op.msg /\ op'.stale = op.stale /\ op'.s = op.s /\ op'.made = op.made
        /\ op'.seen = rec.pending /\ op'.commit = rec.commit
    BY ONLY <1>1, <2>2 DEF OpRecord
  <2>4. queue' = <<x>> \o Tail(queue)
    BY <1>3
  <2> HIDE DEF x
  <2> QED
    BY <1>1, <2>1, <2>3, <2>4, OpGoesOn DEF GoesTo, SameSession
<1> QED
  BY <1>1, <1>3 DEF Settle, SettleSteps

\* The worktree of a completion is verified.
LEMMA VerifyChooses ==
  ASSUME Types, Verify
  PROVE  (CompletedTree(op.commit) /\ StepsTo("accept")) \/ StepsTo("refuse")
<1>1. /\ queue # <<>> /\ op \in OpType /\ op.kind \in SettledKind
      /\ \A w \in SettleSteps : Step(w) => StepsTo(w)
  BY AtSettled DEF Verify
<1> QED
  BY <1>1 DEF Verify, SettleSteps, Step

\* An abort supersedes the resumes in the queue, and changes nothing else of it.
Superseded(q) == [i \in DOMAIN q |-> [q[i] EXCEPT !.stale = q[i].kind = "resume"]]

\* What that leaves of the queue, and of the operation that runs.
LEMMA SupersededQueue ==
  ASSUME Types, queue' = Superseded(queue)
  PROVE  /\ queue' \in Seq(OpType) /\ Len(queue') = Len(queue) /\ (queue' = <<>> <=> queue = <<>>)
         /\ \A i \in 1..Len(queue) : queue'[i] = [queue[i] EXCEPT !.stale = queue[i].kind = "resume"]
         /\ queue # <<>> => op' = [op EXCEPT !.stale = op.kind = "resume"]
<1>1. queue \in Seq(OpType) /\ Len(queue) \in Nat /\ DOMAIN queue = 1..Len(queue)
  BY DEF Types
<1>2. \A i \in 1..Len(queue) : queue[i] \in OpType
  BY <1>1
<1>3. \A i \in 1..Len(queue) : [queue[i] EXCEPT !.stale = queue[i].kind = "resume"] \in OpType
  BY <1>2, OpFields
<1>4. queue' \in [1..Len(queue) -> OpType]
  BY <1>1, <1>3 DEF Superseded
<1>5. queue' \in Seq(OpType) /\ Len(queue') = Len(queue) /\ (queue' = <<>> <=> queue = <<>>)
  BY <1>1, <1>4
<1>6. \A i \in 1..Len(queue) : queue'[i] = [queue[i] EXCEPT !.stale = queue[i].kind = "resume"]
  BY <1>1 DEF Superseded
<1>7. queue # <<>> => op' = [op EXCEPT !.stale = op.kind = "resume"]
  <2>1. ASSUME queue # <<>> PROVE op' = queue'[1] /\ op = queue[1] /\ 1 \in 1..Len(queue)
    BY <2>1, <1>1, <1>5 DEF op
  <2> QED
    BY <2>1, <1>6
<1> QED
  BY <1>5, <1>6, <1>7

\* What the end of a turn may put in the queue.
Ended(s) == {Settled(s, managed.turn, f) : f \in BOOLEAN} \cup {Rejected(s, managed.turn)}

\* The end of a turn queues its handlers behind the others; what its prompt carried is
\* settled, unless Pi only rejected the prompt.
LEMMA TurnEnds ==
  ASSUME Types, NEW s \in Session, EndTurn(s)
  PROVE  /\ Gains(Ended(s))
         /\ \/ settled' = settled \cup Range(managed.instr)
            \/ settled' = settled /\ Range(queue') \subseteq Range(queue) \cup {Rejected(s, managed.turn)}
<1> DEFINE o(f) == Settled(s, managed.turn, f)
           r == Rejected(s, managed.turn)
           q(f) == Append(queue, o(f))
<1>1. /\ r \in OpType /\ r \in Ended(s) /\ queue \in Seq(OpType)
      /\ \A f \in BOOLEAN : o(f) \in OpType /\ o(f) \in Ended(s)
  BY NewOps DEF Ended, Types
<1>2. \/ settled' = settled \cup Range(managed.instr) /\ \E f \in BOOLEAN : queue' = q(f) \/ queue' = Append(q(f), r)
      \/ settled' = settled /\ queue' = Append(queue, r)
  <2>1. CASE settled' = settled /\ queue' = Append(queue, r)
    BY <2>1
  <2>2. CASE /\ settled' = settled \cup Range(managed.instr)
             /\ \E f \in BOOLEAN, events \in {<<>>, <<r>>} : queue' = queue \o <<o(f)>> \o events
    <3>1. PICK f \in BOOLEAN, events \in {<<>>, <<r>>} : queue' = queue \o <<o(f)>> \o events
      BY <2>2
    <3>2. o(f) \in OpType
      BY <1>1
    <3> HIDE DEF o, r
    <3>3. /\ queue \o <<o(f)>> = Append(queue, o(f))
          /\ queue \o <<o(f)>> \o <<>> = Append(queue, o(f))
          /\ queue \o <<o(f)>> \o <<r>> = Append(Append(queue, o(f)), r)
      BY <1>1, <3>2
    <3>4. queue' = q(f) \/ queue' = Append(q(f), r)
      BY <3>1, <3>3
    <3> QED
      BY <2>2, <3>4
  <2> QED
    BY <2>1, <2>2 DEF EndTurn, Enqueue
<1>3. ASSUME NEW p, NEW E, p \in Seq(OpType), p # <<>>, Range(p) = Range(queue) \cup E, E \subseteq Ended(s),
             Waiting(p) \subseteq Waiting(queue) \cup E, queue = <<>> => Head(p) \in E,
             queue # <<>> => Head(p) = op
      PROVE  /\ Append(p, r) \in Seq(OpType) /\ Append(p, r) # <<>>
             /\ Range(Append(p, r)) = Range(queue) \cup (E \cup {r}) /\ E \cup {r} \subseteq Ended(s)
             /\ Waiting(Append(p, r)) \subseteq Waiting(queue) \cup (E \cup {r})
             /\ queue = <<>> => Head(Append(p, r)) \in E
             /\ queue # <<>> => Head(Append(p, r)) = op
  <2> HIDE DEF r
  <2>1. /\ Append(p, r) \in Seq(OpType) /\ Append(p, r) # <<>>
        /\ Range(Append(p, r)) = Range(p) \cup {r} /\ Waiting(Append(p, r)) \subseteq Waiting(p) \cup {r}
        /\ Head(Append(p, r)) = Head(p)
    BY <1>1, <1>3, QueueAppend
  <2> QED
    BY <1>1, <1>3, <2>1
<1>4. ASSUME NEW x, x \in OpType, x \in Ended(s)
      PROVE  /\ Append(queue, x) \in Seq(OpType) /\ Append(queue, x) # <<>>
             /\ Range(Append(queue, x)) = Range(queue) \cup {x}
             /\ Waiting(Append(queue, x)) \subseteq Waiting(queue) \cup {x}
             /\ queue = <<>> => Head(Append(queue, x)) \in {x}
             /\ queue # <<>> => Head(Append(queue, x)) = op
  BY <1>1, <1>4, QueueAppend DEF op
<1>5. op' = Head(queue')
  BY DEF op
<1>6. CASE settled' = settled /\ queue' = Append(queue, r)
  <2> HIDE DEF r
  <2> QED
    BY <1>1, <1>4, <1>5, <1>6 DEF r, Gains
<1>7. ASSUME NEW f \in BOOLEAN, queue' = q(f), settled' = settled \cup Range(managed.instr)
      PROVE  /\ queue' \in Seq(OpType) /\ queue' # <<>>
             /\ Range(queue) \subseteq Range(queue')
             /\ Range(queue') \subseteq Range(queue) \cup Ended(s)
             /\ Waiting(queue') \subseteq Waiting(queue) \cup Ended(s)
             /\ queue = <<>> => op' \in Ended(s)
             /\ queue # <<>> => op' = op
  <2> HIDE DEF o
  <2> QED
    BY <1>1, <1>4, <1>5, <1>7
<1>8. ASSUME NEW f \in BOOLEAN, queue' = Append(q(f), r), settled' = settled \cup Range(managed.instr)
      PROVE  /\ queue' \in Seq(OpType) /\ queue' # <<>>
             /\ Range(queue) \subseteq Range(queue')
             /\ Range(queue') \subseteq Range(queue) \cup Ended(s)
             /\ Waiting(queue') \subseteq Waiting(queue) \cup Ended(s)
             /\ queue = <<>> => op' \in Ended(s)
             /\ queue # <<>> => op' = op
  <2> DEFINE E == {o(f)}
             p == q(f)
  <2>1. /\ p \in Seq(OpType) /\ p # <<>> /\ Range(p) = Range(queue) \cup E /\ E \subseteq Ended(s)
        /\ Waiting(p) \subseteq Waiting(queue) \cup E /\ (queue = <<>> => Head(p) \in E)
        /\ queue # <<>> => Head(p) = op
    <3> HIDE DEF o
    <3> QED
      BY <1>1, <1>4
  <2>2. queue' = Append(p, r)
    BY <1>8
  <2> HIDE DEF E, p, r
  <2>3. /\ Append(p, r) \in Seq(OpType) /\ Append(p, r) # <<>>
        /\ Range(Append(p, r)) = Range(queue) \cup (E \cup {r}) /\ E \cup {r} \subseteq Ended(s)
        /\ Waiting(Append(p, r)) \subseteq Waiting(queue) \cup (E \cup {r})
        /\ queue = <<>> => Head(Append(p, r)) \in E
        /\ queue # <<>> => Head(Append(p, r)) = op
    BY <2>1, <1>3
  <2> QED
    BY ONLY <2>1, <2>2, <2>3, <1>5
<1> QED
  <2> HIDE DEF o, r, q
  <2>1. settled' = settled \cup Range(managed.instr) \/ (settled' = settled /\ queue' = Append(queue, r))
    BY <1>2
  <2> QED
    BY <1>2, <1>6, <1>7, <1>8 DEF Gains

\* What is cut off the outbox is what the prompt carried.
LEMMA TrimmedOutbox ==
  ASSUME NEW S, NEW m \in Seq(S), NEW q \in Seq(S), IsPrefix(m, q)
  PROVE  /\ Trimmed(q, Len(m)) \in Seq(S)
         /\ Range(q) = Range(m) \cup Range(Trimmed(q, Len(m)))
<1> DEFINE n == Len(m)
           r == Trimmed(q, n)
<1>1. n \in Nat /\ Len(q) \in Nat /\ n <= Len(q) /\ \A i \in 1..Len(q) : q[i] \in S
  BY DEF IsPrefix
<1>2. /\ SubSeq(q, n + 1, Len(q)) \in Seq(S)
      /\ Len(SubSeq(q, n + 1, Len(q))) = IF n + 1 <= Len(q) THEN Len(q) - (n + 1) + 1 ELSE 0
      /\ \A i \in 1..(Len(q) - (n + 1) + 1) : SubSeq(q, n + 1, Len(q))[i] = q[n + 1 + i - 1]
  <2>1. n + 1 \in Int /\ Len(q) \in Int /\ \A i \in (n + 1)..Len(q) : q[i] \in S
    BY <1>1
  <2> HIDE DEF n
  <2> QED
    BY <2>1, SubSeqProperties
<1>3. r \in Seq(S) /\ Len(r) = Len(q) - n /\ \A i \in 1..Len(r) : r[i] = q[n + i]
  <2>1. r = SubSeq(q, n + 1, Len(q))
    BY DEF Trimmed
  <2> HIDE DEF n, r
  <2> QED
    BY <1>1, <1>2, <2>1
<1>4. \A i \in 1..n : m[i] = q[i]
  <2>1. SubSeq(m, 1, n) = SubSeq(q, 1, n)
    BY DEF IsPrefix
  <2>2. \A i \in 1..n : SubSeq(m, 1, n)[i] = m[i]
    <3>1. \A i \in 1..n : m[i] \in S
      OBVIOUS
    <3> HIDE DEF n
    <3>2. \A i \in 1..(n - 1 + 1) : SubSeq(m, 1, n)[i] = m[1 + i - 1]
      BY <3>1, <1>1, SubSeqProperties
    <3> QED
      BY <3>2, <1>1
  <2>3. \A i \in 1..n : SubSeq(q, 1, n)[i] = q[i]
    <3>1. \A i \in 1..n : q[i] \in S
      BY <1>1
    <3> HIDE DEF n
    <3>2. \A i \in 1..(n - 1 + 1) : SubSeq(q, 1, n)[i] = q[1 + i - 1]
      BY <3>1, <1>1, SubSeqProperties
    <3> QED
      BY <3>2, <1>1
  <2> QED
    BY <2>1, <2>2, <2>3
<1>5. ASSUME NEW y PROVE y \in Range(q) <=> y \in Range(m) \/ y \in Range(r)
  <2>1. /\ y \in Range(q) <=> \E i \in 1..Len(q) : y = q[i]
        /\ y \in Range(m) <=> \E i \in 1..n : y = m[i]
    BY Places
  <2> HIDE DEF n, r
  <2>2. y \in Range(r) <=> \E i \in 1..Len(r) : y = r[i]
    BY <1>3, Places
  <2>3. ASSUME NEW i \in 1..Len(q), y = q[i] PROVE y \in Range(m) \/ y \in Range(r)
    <3>1. CASE i <= n
      BY <3>1, <2>1, <2>3, <1>1, <1>4
    <3>2. CASE ~(i <= n)
      <4>1. i - n \in 1..Len(r) /\ r[i - n] = q[i]
        BY <3>2, <1>1, <1>3
      <4> QED
        BY <4>1, <2>2, <2>3
    <3> QED
      BY <3>1, <3>2
  <2>4. ASSUME NEW i \in 1..n, y = m[i] PROVE y \in Range(q)
    BY <2>1, <2>4, <1>1, <1>4
  <2>5. ASSUME NEW i \in 1..Len(r), y = r[i] PROVE y \in Range(q)
    <3>1. n + i \in 1..Len(q)
      BY <1>1, <1>3
    <3> QED
      BY <2>1, <2>5, <3>1, <1>3
  <2> QED
    BY <2>1, <2>2, <2>3, <2>4, <2>5
<1> QED
  BY <1>3, <1>5

\* A prompt that Pi rejects at once: the resume ends and its rejection is queued.
LEMMA RejectedAtOnce ==
  ASSUME Types, queue # <<>>, NEW x \in OpType, queue' = Append(Tail(queue), x)
  PROVE  /\ queue' \in Seq(OpType) /\ queue' # <<>>
         /\ Range(queue') = Waiting(queue) \cup {x} /\ Waiting(queue') \subseteq Waiting(queue) \cup {x}
         /\ op' \in Waiting(queue) \cup {x}
<1> DEFINE q == Tail(queue)
<1>1. /\ q \in Seq(OpType) /\ Range(q) = Waiting(queue) /\ Waiting(q) \subseteq Waiting(queue)
      /\ q # <<>> => Head(q) \in Waiting(queue)
  BY QueueDone DEF Types
<1>2. op' = Head(queue') /\ queue' = Append(q, x)
  BY DEF op
<1> HIDE DEF q
<1>3. /\ Append(q, x) \in Seq(OpType) /\ Append(q, x) # <<>>
      /\ Range(Append(q, x)) = Range(q) \cup {x} /\ Waiting(Append(q, x)) \subseteq Waiting(q) \cup {x}
      /\ q = <<>> => Head(Append(q, x)) = x
      /\ q # <<>> => Head(Append(q, x)) = Head(q)
  BY <1>1, QueueAppend
<1> QED
  BY <1>1, <1>2, <1>3

\* The prompt of a resume: it is not launched, it is, or Pi rejects it at once.
LEMMA Launches ==
  ASSUME Types, ResumeLaunch
  PROVE  \/ ResumeFails
         \/ /\ ~op.stale /\ managed.s = op.s /\ live' = live
            /\ managed' = [managed EXCEPT !.turn = @ + 1, !.attempt = rec.attempt, !.instr = op.instr]
            /\ managed' \in ManagedType /\ managed'.s = op.s /\ managed'.turn = managed.turn + 1
            /\ \/ sess[op.s] = "idle" /\ sess' = [sess EXCEPT ![op.s] = "busy"] /\ Ends
               \/ /\ sess' = sess
                  /\ queue' \in Seq(OpType) /\ queue' # <<>>
                  /\ Range(queue') = Waiting(queue) \cup {Rejected(op.s, managed'.turn)}
                  /\ Waiting(queue') \subseteq Waiting(queue) \cup {Rejected(op.s, managed'.turn)}
                  /\ op' \in Waiting(queue) \cup {Rejected(op.s, managed'.turn)}
<1>1. /\ queue # <<>> /\ op \in OpType /\ op.kind = "resume" /\ (Done => Ends)
      /\ op.s \in Session /\ op.instr \in Seq(1..MaxCommands)
  BY AtResume DEF ResumeLaunch, ResumeSteps
<1>2. CASE op.stale \/ managed.s # op.s
  BY <1>2 DEF ResumeLaunch
<1>3. CASE ~op.stale /\ managed.s = op.s
  <2>1. managed \in ManagedType /\ rec.attempt \in Nat /\ managed.turn + 1 \in Nat
    BY DEF Types, ManagedType, RecType
  <2>2. managed' = [managed EXCEPT !.turn = @ + 1, !.attempt = rec.attempt, !.instr = op.instr] /\ live' = live
    BY <1>3 DEF ResumeLaunch
  <2>3. managed' \in ManagedType /\ managed'.s = op.s /\ managed'.turn = managed.turn + 1
    BY <1>1, <1>3, <2>1, <2>2 DEF ManagedType
  <2>4. Rejected(op.s, managed'.turn) \in OpType
    BY <1>1, <2>1, <2>3, NewRejected
  <2>5. CASE sess[op.s] = "idle"
    BY <1>1, <1>3, <2>2, <2>3, <2>5 DEF ResumeLaunch
  <2>6. CASE sess[op.s] # "idle"
    <3>1. sess' = sess /\ queue' = Append(Tail(queue), Rejected(op.s, managed'.turn))
      BY <1>3, <2>6 DEF ResumeLaunch
    <3> QED
      BY <1>1, <1>3, <2>2, <2>3, <2>4, <3>1, RejectedAtOnce
  <2> QED
    BY <2>5, <2>6
<1> QED
  BY <1>2, <1>3

-----------------------------------------------------------------------------
(* The types are invariant *)

\* The first values have their types.
LEMMA TypesInit == Init => Types
<1>1. /\ 0 \in 0..MaxCommits /\ 0 \in 0..MaxCommands /\ 0 \in 0..MaxSession /\ 0 \in Nat
      /\ <<>> \in Seq(1..MaxCommands) /\ <<>> \in Seq(OpType)
  BY BoundsAreSane
<1>2. NoRuntime \in ManagedType /\ NoResult \in ResultType /\ NoCallback \in CbType
  BY <1>1 DEF NoRuntime, NoResult, NoCallback, ManagedType, ResultType, CbType, ResultSet, CbSteps
<1>3. Idle \in CreateType /\ Idle \in AbortType
  BY <1>1 DEF Idle, CreateType, CreateSteps, AbortType
<1>4. Init => rec \in RecType
  BY <1>1 DEF Init, RecType, PendingSet, Statuses
<1>5. Init => sess \in [Session -> SessSet] /\ cb \in [Session -> CbType]
  BY <1>2 DEF Init, SessSet
<1> QED
  BY <1>1, <1>2, <1>3, <1>4, <1>5 DEF Init, Types

\* Every step keeps the types.
LEMMA TypesStep ==
  ASSUME Types, Next
  PROVE  Types'
<1>1. ASSUME CreateRequest PROVE Types'
  <2>1. create' \in CreateType
    BY <1>1, BoundsAreSane DEF CreateRequest, CreateType, CreateSteps
  <2> QED
    BY <1>1, <2>1 DEF Types, durable, sessions, control, history, bounds, CreateRequest
<1>2. ASSUME CreateReserve PROVE Types'
  <2>1. [rec EXCEPT !.status = "queued", !.attempt = 1] \in RecType
    BY DEF Types, RecType, Statuses
  <2>2. rec' \in RecType
    BY <1>2, <2>1 DEF CreateReserve, Types
  <2>3. create' \in CreateType
    BY <1>2, Writes DEF CreateReserve, CreateSteps
  <2> QED
    BY <1>2, <2>1, <2>2, <2>3 DEF Types, durable, sessions, control, history, bounds, CreateReserve
<1>3. ASSUME CreateStart PROVE Types'
  <2>1. rec' \in RecType
    BY <1>3, Writes DEF CreateStart, Types, Statuses
  <2>2. create' \in CreateType
    BY <1>3, Writes DEF CreateStart, CreateSteps
  <2> QED
    BY <1>3, <2>1, <2>2 DEF Types, durable, sessions, control, history, bounds, CreateStart
<1>4. ASSUME CreatePlan PROVE Types'
  <2>1. create' \in CreateType
    BY <1>4, Writes DEF CreatePlan, CreateSteps
  <2> QED
    BY <1>4, <2>1 DEF Types, durable, sessions, control, history, bounds, CreatePlan
<1>5. ASSUME CreateAddTree PROVE Types'
  <2>1. create' \in CreateType
    BY <1>5, Writes DEF CreateAddTree, CreateSteps
  <2> QED
    BY <1>5, <2>1 DEF Types, durable, sessions, control, history, bounds, CreateAddTree
<1>6. ASSUME CreateAddTreeFails PROVE Types'
  <2>1. create' \in CreateType
    BY <1>6, Writes DEF CreateAddTreeFails, CreateSteps
  <2>2. disk' \in BOOLEAN
    BY <1>6 DEF CreateAddTreeFails, Types
  <2> QED
    BY <1>6, <2>1, <2>2 DEF Types, durable, sessions, control, history, bounds, CreateAddTreeFails
<1>7. ASSUME CreateOpen PROVE Types'
  <2>1. live' \in 0..MaxSession /\ sess' \in [Session -> SessSet]
    BY <1>7, Made DEF CreateOpen
  <2>2. Fresh \in Session /\ Fresh \in 0..MaxSession
    BY <1>7, Made, BoundsAreSane DEF CreateOpen, Session
  <2>3. create' \in CreateType
    BY <1>7, <2>2 DEF CreateOpen, CreateType, CreateSteps
  <2> QED
    BY <1>7, <2>1, <2>2, <2>3 DEF Types, durable, sessions, control, history, bounds, CreateOpen
<1>8. ASSUME CreateBuilt PROVE Types'
  <2>1. create.s \in Session /\ create.s \in 0..MaxSession /\ managed.s \in 0..MaxSession
    BY <1>8 DEF CreateBuilt, CreateAt, Types, CreateType, ManagedType
  <2>2. sess' \in [Session -> SessSet]
    BY <1>8, <2>1, Writes DEF CreateBuilt, Types, SessSet
  <2>3. managed' \in ManagedType
    BY <1>8, <2>1, Writes DEF CreateBuilt, Types
  <2>4. create' \in CreateType
    BY <1>8, <2>1, Writes DEF CreateBuilt, CreateSteps
  <2> QED
    BY <1>8, <2>1, <2>2, <2>3, <2>4 DEF Types, durable, sessions, control, history, bounds,
       CreateBuilt
<1>9. ASSUME CreateSwap PROVE Types'
  <2>1. create.s \in Session /\ create.s \in 0..MaxSession
    BY <1>9 DEF CreateSwap, CreateAt, Types, CreateType
  <2>2. managed' \in ManagedType
    BY <1>9, <2>1, Writes DEF CreateSwap
  <2>3. create' \in CreateType
    BY <1>9, <2>1, Writes DEF CreateSwap, CreateSteps
  <2> QED
    BY <1>9, <2>1, <2>2, <2>3 DEF Types, durable, sessions, control, history, bounds, CreateSwap
<1>10. ASSUME CreateBegin PROVE Types'
  <2>1. rec' \in RecType
    BY <1>10, Writes DEF CreateBegin, Types, Statuses, Running
  <2>2. rec'.attempt \in Nat /\ <<>> \in Seq(1..MaxCommands) /\ managed.turn + 1 \in Nat
    BY <2>1 DEF RecType, Types, ManagedType
  <2>3. Launched(<<>>) \in ManagedType
    BY <2>2 DEF Types, Launched, ManagedType
  <2>4. managed' \in ManagedType
    BY <1>10, <2>3 DEF CreateBegin, Types
  <2>5. sess' \in [Session -> SessSet]
    BY <1>10 DEF CreateBegin, Types, SessSet
  <2>6. create' \in CreateType
    BY <1>10, Writes DEF CreateBegin, CreateSteps
  <2> QED
    BY <1>10, <2>1, <2>2, <2>3, <2>4, <2>5, <2>6 DEF Types, durable, sessions, control, history,
       bounds, CreateBegin
<1>11. ASSUME CreateFail PROVE Types'
  <2>1. create.s \in 0..MaxSession
    BY DEF Types, CreateType
  <2>2. rec' \in RecType
    BY <1>11, Writes DEF CreateFail, Types, Statuses, Finished
  <2>3. live' \in 0..MaxSession /\ managed' \in ManagedType /\ sess' \in [Session -> SessSet]
    BY <1>11, <2>1, Writes DEF CreateFail, CreateDropped, Types
  <2>4. create' \in CreateType
    BY <1>11, Writes DEF CreateFail, CreateDropped, CreateSteps
  <2> QED
    BY <1>11, <2>1, <2>2, <2>3, <2>4 DEF Types, durable, sessions, control, history, bounds,
       CreateFail
<1>12. ASSUME CreateDrop PROVE Types'
  <2>1. create.s \in 0..MaxSession
    BY DEF Types, CreateType
  <2>2. live' \in 0..MaxSession /\ managed' \in ManagedType /\ sess' \in [Session -> SessSet]
    BY <1>12, <2>1, Writes DEF CreateDrop, CreateDropped, Types
  <2>3. create' \in CreateType
    BY <1>12, Writes DEF CreateDrop, CreateDropped
  <2> QED
    BY <1>12, <2>1, <2>2, <2>3 DEF Types, durable, sessions, control, history, bounds, CreateDrop
<1>13. ASSUME PauseRequest PROVE Types'
  <2>1. commands' \in 0..MaxCommands
    BY <1>13, BoundsAreSane DEF PauseRequest, Command, Types
  <2>2. queue' \in Seq(OpType)
    BY <1>13, NewOps, OpQueued DEF PauseRequest, Enqueue, Gains
  <2> QED
    BY <1>13, <2>1, <2>2 DEF Types, durable, sessions, control, history, bounds, PauseRequest
<1>14. ASSUME SteerRequest PROVE Types'
  <2>1. commands' \in 1..MaxCommands /\ commands' \in 0..MaxCommands
    BY <1>14, BoundsAreSane DEF SteerRequest, Command, Types
  <2>2. [Op("steer") EXCEPT !.msg = commands'] \in OpType
    BY <2>1, NewOps
  <2>3. queue' \in Seq(OpType)
    BY <1>14, <2>2, OpQueued DEF SteerRequest, Enqueue, Gains
  <2> QED
    BY <1>14, <2>1, <2>2, <2>3 DEF Types, durable, sessions, control, history, bounds, SteerRequest
<1>15. ASSUME ResumeRequest PROVE Types'
  <2>1. commands' \in 1..MaxCommands /\ commands' \in 0..MaxCommands
    BY <1>15, BoundsAreSane DEF ResumeRequest, Command, Types
  <2>2. Op("resume").msg = 0 /\ Op("resume") \in OpRecord
    BY NewOps DEF Op, OpType
  <2>3. [Op("resume") EXCEPT !.msg = 0] = Op("resume")
    BY <2>2 DEF OpRecord
  <2>4. \A m \in {0, commands'} : [Op("resume") EXCEPT !.msg = m] \in OpType
    BY <2>1, <2>3, NewOps, OpFields
  <2>5. queue' \in Seq(OpType)
    BY <1>15, <2>4, OpQueued DEF ResumeRequest, Enqueue, Gains
  <2> QED
    BY <1>15, <2>1, <2>2, <2>3, <2>4, <2>5 DEF Types, durable, sessions, control, history,
       bounds, ResumeRequest
<1>16. ASSUME AbortRequest PROVE Types'
  <2>1. commands' \in 0..MaxCommands
    BY <1>16, BoundsAreSane DEF AbortRequest, Command, Types
  <2>2. queue' \in Seq(OpType)
    BY <1>16, SupersededQueue DEF AbortRequest, Superseded
  <2>3. abort' \in AbortType
    BY <1>16, BoundsAreSane DEF AbortRequest, AbortType
  <2> QED
    BY <1>16, <2>1, <2>2, <2>3 DEF Types, durable, sessions, control, history, bounds, AbortRequest
<1>17. ASSUME PauseProject PROVE Types'
  <2>1. commands' \in 0..MaxCommands
    BY <1>17, BoundsAreSane DEF PauseProject, Command, Types
  <2>2. paused' \in BOOLEAN /\ pausing' \in BOOLEAN
    BY <1>17 DEF PauseProject
  <2> QED
    BY <1>17, <2>1, <2>2 DEF Types, durable, sessions, control, history, bounds, PauseProject
<1>18. ASSUME ResumeProject PROVE Types'
  <2>1. commands' \in 0..MaxCommands
    BY <1>18, BoundsAreSane DEF ResumeProject, Command, Types
  <2>2. paused' \in BOOLEAN
    BY <1>18 DEF ResumeProject
  <2> QED
    BY <1>18, <2>1, <2>2 DEF Types, durable, sessions, control, history, bounds, ResumeProject
<1>19. ASSUME Pause PROVE Types'
  <2>1. rec' \in RecType
    BY <1>19, Writes DEF Pause, Types, Statuses, Running
  <2>2. queue' \in Seq(OpType)
    BY <1>19, OpEnds DEF Pause, At, Ends
  <2> QED
    BY <1>19, <2>1, <2>2 DEF Types, durable, sessions, control, history, bounds, Pause
<1>20. ASSUME Steer PROVE Types'
  <2>1. op \in OpType /\ op.msg \in 1..MaxCommands
    BY <1>20, TheOp DEF Steer, At, OpType, OpRecord
  <2>2. Append(rec.instr, op.msg) \in Seq(1..MaxCommands)
    BY <2>1 DEF Types, RecType
  <2>3. [rec EXCEPT !.instr = Append(rec.instr, op.msg)] \in RecType
    BY <2>2 DEF Types, RecType
  <2>4. rec' \in RecType
    BY <1>20, <2>3 DEF Steer, Types
  <2>5. queue' \in Seq(OpType)
    BY <1>20, OpEnds DEF Steer, At, Ends
  <2> QED
    BY <1>20, <2>1, <2>2, <2>3, <2>4, <2>5 DEF Types, durable, sessions, control, history,
       bounds, Steer
<1>21. ASSUME ResumeStart PROVE Types'
  <2>1. (Done => Ends) /\ (Step("resources") => StepsTo("resources"))
    BY <1>21, AtResume DEF ResumeStart, ResumeSteps
  <2>2. queue' \in Seq(OpType)
    BY <1>21, <2>1 DEF ResumeStart, Ends, StepsTo, GoesTo
  <2> QED
    BY <1>21, <2>1, <2>2 DEF Types, durable, sessions, control, history, bounds, ResumeStart
<1>22. ASSUME ResumeResources PROVE Types'
  <2>1. (Done => Ends) /\ (Step("open") => StepsTo("open"))
    BY <1>22, AtResume DEF ResumeResources, ResumeSteps
  <2>2. rec' \in RecType
    BY <1>22, Writes DEF ResumeResources, Types, Statuses, Finished
  <2>3. queue' \in Seq(OpType)
    BY <1>22, <2>1 DEF ResumeResources, Ends, StepsTo, GoesTo
  <2> QED
    BY <1>22, <2>1, <2>2, <2>3 DEF Types, durable, sessions, control, history, bounds,
       ResumeResources
<1>23. ASSUME ResumeOpen PROVE Types'
  <2>1. queue' \in Seq(OpType)
    BY <1>23, ResumeOpens DEF StepsTo, GoesTo
  <2>2. Session \subseteq 0..MaxSession
    BY BoundsAreSane DEF Session
  <2>3. live' \in 0..MaxSession
    BY <1>23, <2>2, ResumeOpens DEF Types
  <2>4. sess' \in [Session -> SessSet]
    BY <1>23, ResumeOpens DEF Types, SessSet
  <2> QED
    BY <1>23, <2>1, <2>2, <2>3, <2>4 DEF Types, durable, sessions, control, history, bounds,
       ResumeOpen
<1>24. ASSUME ResumeBuilt PROVE Types'
  <2>1. /\ op.s \in Session /\ op.s \in 0..MaxSession /\ (Done => Ends)
        /\ \A w \in {"swap", "latest"} : Step(w) => StepsTo(w)
    BY <1>24, AtResume DEF ResumeBuilt, ResumeSteps
  <2>2. managed.s \in 0..MaxSession
    BY DEF Types, ManagedType
  <2>3. live' \in 0..MaxSession
    BY <1>24, <2>1, Writes DEF ResumeBuilt, ResumeFails, Types
  <2>4. managed' \in ManagedType
    BY <1>24, <2>1, Writes DEF ResumeBuilt, ResumeFails, Types
  <2>5. sess' \in [Session -> SessSet]
    BY <1>24, <2>1, <2>2, Writes DEF ResumeBuilt, ResumeFails, Types, SessSet
  <2>6. queue' \in Seq(OpType)
    BY <1>24, <2>1 DEF ResumeBuilt, ResumeFails, Ends, StepsTo, GoesTo
  <2> QED
    BY <1>24, <2>1, <2>2, <2>3, <2>4, <2>5, <2>6 DEF Types, durable, sessions, control, history,
       bounds, ResumeBuilt
<1>25. ASSUME ResumeSwap PROVE Types'
  <2>1. /\ op.s \in 0..MaxSession
        /\ Step("latest") => StepsTo("latest")
    BY <1>25, AtResume DEF ResumeSwap, ResumeSteps
  <2>2. managed' \in ManagedType
    BY <1>25, <2>1, Writes DEF ResumeSwap
  <2>3. queue' \in Seq(OpType)
    BY <1>25, <2>1 DEF ResumeSwap, StepsTo, GoesTo
  <2> QED
    BY <1>25, <2>1, <2>2, <2>3 DEF Types, durable, sessions, control, history, bounds, ResumeSwap
<1>26. ASSUME ResumeLatest PROVE Types'
  <2>1. op.s \in 0..MaxSession /\ op.msg \in 0..MaxCommands /\ (Done => Ends)
    BY <1>26, AtResume DEF ResumeLatest, ResumeSteps
  <2>2. live' \in 0..MaxSession /\ managed' \in ManagedType /\ sess' \in [Session -> SessSet]
    BY <1>26, <2>1, Writes, ResumeReads DEF ResumeFails, Types
  <2>3. queue' \in Seq(OpType)
    BY <1>26, <2>1, ResumeReads DEF ResumeFails, Ends, StepsTo, GoesTo
  <2> QED
    BY <1>26, <2>1, <2>2, <2>3 DEF Types, durable, sessions, control, history, bounds, ResumeLatest
<1>27. ASSUME ResumeUpdate PROVE Types'
  <2>1. /\ op.instr \in Seq(1..MaxCommands) /\ op.s \in 0..MaxSession
        /\ (Done => Ends) /\ (Step("launch") => StepsTo("launch"))
    BY <1>27, AtResume DEF ResumeUpdate, ResumeSteps
  <2>2. 0 \in 0..MaxCommits /\ rec.attempt + 1 \in Nat
    BY BoundsAreSane DEF Types, RecType
  <2>3. [rec EXCEPT !.status = "working", !.attempt = @ + 1, !.instr = op.instr, !.commit = 0] \in RecType
    BY <2>1, <2>2 DEF Types, RecType, Statuses, Running
  <2>4. rec' \in RecType
    BY <1>27, <2>3 DEF ResumeUpdate, Types
  <2>5. live' \in 0..MaxSession /\ managed' \in ManagedType /\ sess' \in [Session -> SessSet]
    BY <1>27, <2>1, Writes DEF ResumeUpdate, ResumeFails, Types
  <2>6. queue' \in Seq(OpType)
    BY <1>27, <2>1 DEF ResumeUpdate, ResumeFails, Ends, StepsTo, GoesTo
  <2> QED
    BY <1>27, <2>1, <2>2, <2>3, <2>4, <2>5, <2>6 DEF Types, durable, sessions, control, history,
       bounds, ResumeUpdate
<1>28. ASSUME ResumeLaunch PROVE Types'
  <2>1. op.s \in 0..MaxSession /\ (Done => Ends)
    BY <1>28, AtResume DEF ResumeLaunch, ResumeSteps
  <2>2. live' \in 0..MaxSession /\ managed' \in ManagedType /\ sess' \in [Session -> SessSet]
    BY <1>28, <2>1, Writes, Launches DEF ResumeFails, Types, SessSet
  <2>3. queue' \in Seq(OpType)
    BY <1>28, <2>1, Launches DEF ResumeFails, Ends
  <2> QED
    BY <1>28, <2>1, <2>2, <2>3 DEF Types, durable, sessions, control, history, bounds, ResumeLaunch
<1>29. ASSUME Acknowledge PROVE Types'
  <2>1. Step("settle") => StepsTo("settle")
    BY <1>29, AtSettled DEF Acknowledge, SettleSteps
  <2>2. queue' \in Seq(OpType)
    BY <1>29, <2>1 DEF Acknowledge, StepsTo, GoesTo
  <2>3. managed.instr \in Seq(1..MaxCommands) /\ rec.instr \in Seq(1..MaxCommands)
    BY DEF Types, ManagedType, RecType
  <2>4. IsPrefix(managed.instr, rec.instr) => Trimmed(rec.instr, Len(managed.instr)) \in Seq(1..MaxCommands)
    BY <2>3, TrimmedOutbox
  <2>5. rec' \in RecType
    BY <1>29, <2>4 DEF Acknowledge, Types, RecType
  <2> QED
    BY <1>29, <2>1, <2>2, <2>3, <2>4, <2>5 DEF Types, durable, sessions, control, history,
       bounds, Acknowledge
<1>30. ASSUME Settle PROVE Types'
  <2>1. queue' \in Seq(OpType)
    BY <1>30, SettleChooses DEF Ends, StepsTo, GoesTo
  <2> QED
    BY <1>30, <2>1 DEF Types, durable, sessions, control, history, bounds, Settle
<1>31. ASSUME SettleFail PROVE Types'
  <2>1. (Done => Ends) /\ (Step("retire") => StepsTo("retire"))
    BY <1>31, AtSettled DEF SettleFail, SettleSteps
  <2>2. rec' \in RecType
    BY <1>31, Writes DEF SettleFail, Types, Statuses, Finished
  <2>3. queue' \in Seq(OpType)
    BY <1>31, <2>1 DEF SettleFail, Ends, StepsTo, GoesTo
  <2> QED
    BY <1>31, <2>1, <2>2, <2>3 DEF Types, durable, sessions, control, history, bounds, SettleFail
<1>32. ASSUME BlockUnsettled PROVE Types'
  <2>1. (Done => Ends)
    BY <1>32, AtSettled DEF BlockUnsettled, SettleSteps
  <2>2. rec' \in RecType
    BY <1>32, Writes DEF BlockUnsettled, Types, Statuses, Resumable
  <2>3. queue' \in Seq(OpType)
    BY <1>32, <2>1 DEF BlockUnsettled, Ends
  <2> QED
    BY <1>32, <2>1, <2>2, <2>3 DEF Types, durable, sessions, control, history, bounds,
       BlockUnsettled
<1>33. ASSUME Publish PROVE Types'
  <2>1. op.seen \in PendingSet /\ (Done => Ends) /\ (Step("retire") => StepsTo("retire"))
    BY <1>33, AtSettled DEF Publish, SettleSteps
  <2>2. rec' \in RecType
    BY <1>33, <2>1, Writes DEF Publish, Types, Statuses, Resumable, Finished, PendingSet
  <2>3. queue' \in Seq(OpType)
    BY <1>33, <2>1 DEF Publish, Ends, StepsTo, GoesTo
  <2> QED
    BY <1>33, <2>1, <2>2, <2>3 DEF Types, durable, sessions, control, history, bounds, Publish
<1>34. ASSUME Verify PROVE Types'
  <2>1. queue' \in Seq(OpType)
    BY <1>34, VerifyChooses DEF StepsTo, GoesTo
  <2> QED
    BY <1>34, <2>1 DEF Types, durable, sessions, control, history, bounds, Verify
<1>35. ASSUME Accept PROVE Types'
  <2>1. \A w \in {"retire", "refuse"} : Step(w) => StepsTo(w)
    BY <1>35, AtSettled DEF Accept, SettleSteps
  <2>2. rec' \in RecType
    BY <1>35, Writes DEF Accept, Types, Statuses, Finished
  <2>3. queue' \in Seq(OpType)
    BY <1>35, <2>1 DEF Accept, StepsTo, GoesTo
  <2> QED
    BY <1>35, <2>1, <2>2, <2>3 DEF Types, durable, sessions, control, history, bounds, Accept
<1>36. ASSUME Refuse PROVE Types'
  <2>1. (Done => Ends)
    BY <1>36, AtSettled DEF Refuse, SettleSteps
  <2>2. rec' \in RecType
    BY <1>36, Writes DEF Refuse, Types, Statuses, Resumable
  <2>3. queue' \in Seq(OpType)
    BY <1>36, <2>1 DEF Refuse, Ends
  <2> QED
    BY <1>36, <2>1, <2>2, <2>3 DEF Types, durable, sessions, control, history, bounds, Refuse
<1>37. ASSUME Retire PROVE Types'
  <2>1. op.s \in 0..MaxSession /\ (Done => Ends)
    BY <1>37, AtSettled DEF Retire
  <2>2. live' \in 0..MaxSession /\ managed' \in ManagedType /\ sess' \in [Session -> SessSet]
    BY <1>37, <2>1, Writes DEF Retire
  <2>3. queue' \in Seq(OpType)
    BY <1>37, <2>1 DEF Retire, Ends
  <2> QED
    BY <1>37, <2>1, <2>2, <2>3 DEF Types, durable, sessions, control, history, bounds, Retire
<1>38. ASSUME AbortRead PROVE Types'
  <2>1. abort' \in AbortType
    BY <1>38, Writes, BoundsAreSane DEF AbortRead, AbortType
  <2> QED
    BY <1>38, <2>1 DEF Types, durable, sessions, control, history, bounds, AbortRead
<1>39. ASSUME AbortInterrupt PROVE Types'
  <2>1. managed.s \in 0..MaxSession
    BY DEF Types, ManagedType
  <2>2. rec' \in RecType
    BY <1>39, Writes DEF AbortInterrupt, Types, Statuses, Resumable
  <2>3. live' \in 0..MaxSession /\ sess' \in [Session -> SessSet]
    BY <1>39, <2>1, Writes DEF AbortInterrupt, Types
  <2>4. abort' \in AbortType
    BY <1>39, <2>1, Writes DEF AbortInterrupt, AbortType
  <2> QED
    BY <1>39, <2>1, <2>2, <2>3, <2>4 DEF Types, durable, sessions, control, history, bounds,
       AbortInterrupt
<1>40. ASSUME AbortStop PROVE Types'
  <2>1. managed' \in ManagedType
    BY <1>40, Writes DEF AbortStop, Types
  <2>2. abort' \in AbortType
    BY <1>40, Writes DEF AbortStop
  <2> QED
    BY <1>40, <2>1, <2>2 DEF Types, durable, sessions, control, history, bounds, AbortStop
<1>41. ASSUME PauseActive PROVE Types'
  <2>1. pausing' \in BOOLEAN
    BY <1>41 DEF PauseActive
  <2>2. queue' \in Seq(OpType)
    BY <1>41, NewOps, OpQueued DEF PauseActive, Enqueue, Gains, Types
  <2> QED
    BY <1>41, <2>1, <2>2 DEF Types, durable, sessions, control, history, bounds, PauseActive
<1>42. ASSUME NEW s \in Session, Write(s) PROVE Types'
  <2>1. dirty' \in BOOLEAN
    BY <1>42 DEF Write, Types
  <2> QED
    BY <1>42, <2>1 DEF Types, durable, sessions, control, history, bounds, Write
<1>43. ASSUME NEW s \in Session, EndTurn(s) PROVE Types'
  <2>1. queue' \in Seq(OpType)
    BY <1>43, TurnEnds DEF Gains
  <2>2. sess' \in [Session -> SessSet]
    BY <1>43 DEF EndTurn, Types, SessSet
  <2> QED
    BY <1>43, <2>1, <2>2 DEF Types, durable, sessions, control, history, bounds, EndTurn
<1>44. ASSUME NEW s \in Session, StopSession(s) PROVE Types'
  <2>1. sess' \in [Session -> SessSet]
    BY <1>44 DEF StopSession, Types, SessSet
  <2> QED
    BY <1>44, <2>1 DEF Types, durable, sessions, control, history, bounds, StopSession
<1>45. ASSUME NEW s \in Session, CommitBegin(s) PROVE Types'
  <2>1. cb' \in [Session -> CbType]
    BY <1>45 DEF CommitBegin, CallTo, Types, CbType, CbSteps
  <2> QED
    BY <1>45, <2>1 DEF Types, durable, sessions, control, history, bounds, CommitBegin
<1>46. ASSUME NEW s \in Session, ProgressPaused(s) PROVE Types'
  <2>1. rec' \in RecType
    BY <1>46 DEF ProgressPaused, Types, RecType, PendingSet, Statuses
  <2> QED
    BY <1>46, <2>1 DEF Types, durable, sessions, control, history, bounds, ProgressPaused
<1>47. ASSUME NEW s \in Session, Escalate(s) PROVE Types'
  <2>1. rec' \in RecType
    BY <1>47 DEF Escalate, Types, RecType, PendingSet, Statuses
  <2> QED
    BY <1>47, <2>1 DEF Types, durable, sessions, control, history, bounds, Escalate
<1>48. ASSUME NEW s \in Session, CompleteBegin(s) PROVE Types'
  <2>1. rec.attempt \in Nat /\ 0 \in 0..MaxCommits
    BY BoundsAreSane DEF Types, RecType
  <2>2. cb' \in [Session -> CbType]
    BY <1>48, <2>1 DEF CompleteBegin, Types, CbType, CbSteps, ResultSet
  <2> QED
    BY <1>48, <2>1, <2>2 DEF Types, durable, sessions, control, history, bounds, CompleteBegin
<1>49. ASSUME NEW s \in Session, Commit(s) PROVE Types'
  <2>1. cb' \in [Session -> CbType]
    BY <1>49, Writes DEF Commit, CallEnds, Types
  <2>2. MaxCommits \in Nat /\ head \in 0..MaxCommits /\ dirty \in BOOLEAN
    BY BoundsAreSane DEF Types
  <2>3. (head < MaxCommits /\ head' = head + 1) \/ head' = head
    BY <1>49 DEF Commit
  <2>4. dirty' = FALSE \/ dirty' = dirty
    BY <1>49 DEF Commit
  <2>5. head' \in 0..MaxCommits
    BY <2>2, <2>3
  <2>6. dirty' \in BOOLEAN
    BY <2>2, <2>4
  <2> QED
    BY <1>49, <2>1, <2>2, <2>3, <2>4, <2>5, <2>6 DEF Types, durable, sessions, control, history,
       bounds, Commit
<1>50. ASSUME NEW s \in Session, CompleteVerify(s) PROVE Types'
  <2>1. cb[s] \in CbType /\ cb[s].step = "verify" /\ head \in 0..MaxCommits
    BY <1>50 DEF CompleteVerify, CallAt, Types
  <2>2. [cb[s] EXCEPT !.step = "write", !.commit = head] \in CbType
    BY <2>1 DEF CbType, CbSteps
  <2>3. cb' \in [Session -> CbType]
    BY <1>50, <2>2, Writes DEF CompleteVerify, CallEnds, Types
  <2> QED
    BY <1>50, <2>1, <2>2, <2>3 DEF Types, durable, sessions, control, history, bounds,
       CompleteVerify
<1>51. ASSUME NEW s \in Session, CompleteWrite(s) PROVE Types'
  <2>1. cb[s] \in CbType /\ cb[s].step = "write"
    BY <1>51 DEF CompleteWrite, CallAt, Types
  <2>2. [cb[s] EXCEPT !.step = "written"] \in CbType
    BY <2>1 DEF CbType, CbSteps
  <2>3. cb' \in [Session -> CbType]
    BY <1>51, <2>2, Writes DEF CompleteWrite, CallTo, CallEnds, Types
  <2> QED
    BY <1>51, <2>1, <2>2, <2>3 DEF Types, durable, sessions, control, history, bounds, CompleteWrite
<1>52. ASSUME NEW s \in Session, CompleteWritten(s) PROVE Types'
  <2>1. cb[s] \in CbType /\ cb[s].step = "written"
    BY <1>52 DEF CompleteWritten, CallAt, Types
  <2>2. \A v \in {"clean", "update"} : [cb[s] EXCEPT !.step = v] \in CbType
    BY <2>1 DEF CbType, CbSteps
  <2>3. cb' \in [Session -> CbType]
    BY <1>52, <2>2 DEF CompleteWritten, CallTo, Types
  <2>4. result' \in ResultType
    BY <1>52, <2>1 DEF CompleteWritten, ResultType, CbType
  <2> QED
    BY <1>52, <2>1, <2>2, <2>3, <2>4 DEF Types, durable, sessions, control, history, bounds,
       CompleteWritten
<1>53. ASSUME NEW s \in Session, CompleteUpdate(s) PROVE Types'
  <2>1. cb[s] \in CbType /\ cb[s].step = "update"
    BY <1>53 DEF CompleteUpdate, CallAt, Types
  <2>2. [cb[s] EXCEPT !.step = "clean"] \in CbType
    BY <2>1 DEF CbType, CbSteps
  <2>3. cb' \in [Session -> CbType]
    BY <1>53, <2>2, Writes DEF CompleteUpdate, CallTo, CallEnds, Types
  <2>4. cb[s].status \in PendingSet /\ cb[s].commit \in 0..MaxCommits
    BY <2>1 DEF CbType, ResultSet, PendingSet
  <2>5. rec' \in RecType
    BY <1>53, <2>4 DEF CompleteUpdate, Types, RecType, Statuses
  <2> QED
    BY <1>53, <2>1, <2>2, <2>3, <2>4, <2>5 DEF Types, durable, sessions, control, history,
       bounds, CompleteUpdate
<1>54. ASSUME NEW s \in Session, CompleteClean(s) PROVE Types'
  <2>1. cb' \in [Session -> CbType]
    BY <1>54, Writes DEF CompleteClean, CallEnds, Types
  <2>2. result' \in ResultType
    BY <1>54, Writes DEF CompleteClean, Types
  <2> QED
    BY <1>54, <2>1, <2>2 DEF Types, durable, sessions, control, history, bounds, CompleteClean
<1>55. ASSUME Crash PROVE Types'
  <2>1. cb' \in [Session -> CbType] /\ sess' \in [Session -> SessSet]
    BY <1>55, Writes DEF Crash, SessSet
  <2>2. 0 \in 0..MaxSession /\ <<>> \in Seq(OpType)
    BY BoundsAreSane
  <2>3. live' \in 0..MaxSession /\ disk' \in BOOLEAN /\ queue' \in Seq(OpType)
    BY <1>55, <2>2 DEF Crash, Types
  <2>4. managed' \in ManagedType /\ create' \in CreateType /\ abort' \in AbortType
    BY <1>55, Writes DEF Crash
  <2> QED
    BY <1>55, <2>1, <2>2, <2>3, <2>4 DEF Types, durable, sessions, control, history, bounds, Crash
<1>56. ASSUME Reconcile PROVE Types'
  <2>1. result.status \in Statuses /\ result.commit \in 0..MaxCommits
    BY DEF Types, ResultType, ResultSet, Statuses, Finished, Resumable
  <2>2. rec' \in RecType
    BY <1>56, <2>1, Writes DEF Reconcile, Types, Statuses, Resumable, RecType, PendingSet
  <2> QED
    BY <1>56, <2>1, <2>2 DEF Types, durable, sessions, control, history, bounds, Reconcile
<1>57. ASSUME Recover PROVE Types'
  <2>1. rec' \in RecType
    BY <1>57, Writes DEF Recover, Types, Statuses, Resumable, Finished
  <2> QED
    BY <1>57, <2>1 DEF Types, durable, sessions, control, history, bounds, Recover
<1> QED
  BY <1>1, <1>2, <1>3, <1>4, <1>5, <1>6, <1>7, <1>8, <1>9, <1>10, <1>11, <1>12, <1>13, <1>14,
     <1>15, <1>16, <1>17, <1>18, <1>19, <1>20, <1>21, <1>22, <1>23, <1>24, <1>25, <1>26, <1>27,
     <1>28, <1>29, <1>30, <1>31, <1>32, <1>33, <1>34, <1>35, <1>36, <1>37, <1>38, <1>39, <1>40,
     <1>41, <1>42, <1>43, <1>44, <1>45, <1>46, <1>47, <1>48, <1>49, <1>50, <1>51, <1>52, <1>53,
     <1>54, <1>55, <1>56, <1>57 DEF Next, Creating, Operating, Queued, Aborting, Calling, Called,
     Restarting

\* The types hold in every reachable state.
LEMMA TypesInvariant == Spec => []Types
<1>1. Types /\ UNCHANGED vars => Types'
  BY DEF Types, vars, durable, sessions, control, history, bounds
<1>2. Types /\ [Next]_vars => Types'
  BY <1>1, TypesStep
<1> QED
  BY <1>2, TypesInit, PTL DEF Spec

\* The record, the result, the sessions and the queue keep their types: no step of a start, a resume, an abort, a turn, a
\* callback, a crash or a restart leaves a value that the others do not expect.
THEOREM WorkerTypes == Spec => []TypeOK
<1>1. Types => TypeOK
  <2> SUFFICES ASSUME Types PROVE TypeOK
    OBVIOUS
  <2>1. rec \in RecType /\ result \in ResultType /\ head \in 0..MaxCommits /\ mode \in {"down", "recover", "up"}
    BY DEF Types
  <2>2. {paused, dirty, disk, pausing} \subseteq BOOLEAN
    BY DEF Types
  <2>3. {live, managed.s, create.s, abort.s} \subseteq 0..MaxSession
    BY DEF Types, ManagedType, CreateType, AbortType
  <2>4. sess \in [Session -> SessSet]
    BY DEF Types
  <2> DEFINE O == [kind : {"pause", "steer", "resume", "settled", "rejected"}, step : OpSteps,
                   s : 0..MaxSession, turn : Nat, fail : BOOLEAN, msg : 0..MaxCommands,
                   stale : BOOLEAN, made : BOOLEAN, commit : 0..MaxCommits,
                   seen : {"none", "paused", "blocked", "completed", "failed"},
                   instr : Seq(1..MaxCommands)]
  <2>5. OpType \subseteq O
    <3>1. KindSet = {"pause", "steer", "resume", "settled", "rejected"}
      BY DEF KindSet, SettledKind
    <3>2. ResumeSteps \cup SettleSteps = OpSteps
      BY DEF ResumeSteps, SettleSteps, OpSteps
    <3>3. OpRecord \subseteq O
      BY <3>1, <3>2 DEF OpRecord, PendingSet
    <3> HIDE DEF O
    <3> QED
      BY <3>3 DEF OpType
  <2>6. queue \in Seq(O)
    <3>1. queue \in Seq(OpType)
      BY DEF Types
    <3> HIDE DEF O
    <3> QED
      BY <3>1, <2>5, SeqMonotonic
  <2> QED
    BY <2>1, <2>2, <2>3, <2>4, <2>6 DEF TypeOK, RecType, ResultType, PendingSet, ResultSet, SessSet
<1> QED
  BY <1>1, TypesInvariant, PTL

\* A resume that is asked for has not begun.
LEMMA ResumeAsked ==
  ASSUME Types, ResumeRequest
  PROVE  \E x \in OpType : /\ x.kind = "resume" /\ x.step = "start" /\ ~x.made
                           /\ Gains({x})
<1>1. commands' \in 1..MaxCommands
  BY BoundsAreSane DEF ResumeRequest, Command, Types
<1>2. /\ Op("resume") \in OpType /\ Op("resume") \in OpRecord /\ Op("resume").msg = 0
      /\ Op("resume").kind = "resume" /\ Op("resume").step = "start" /\ ~Op("resume").made
  BY NewOps DEF Op, OpType
<1>3. [Op("resume") EXCEPT !.msg = 0] = Op("resume")
  BY <1>2 DEF OpRecord
<1>4. PICK m \in {0, commands'} : queue' = Append(queue, [Op("resume") EXCEPT !.msg = m])
  BY DEF ResumeRequest, Enqueue
<1> DEFINE x == [Op("resume") EXCEPT !.msg = m]
<1>5. x \in OpType
  BY <1>1, <1>2, <1>3, OpFields
<1>6. x.kind = "resume" /\ x.step = "start" /\ ~x.made
  BY <1>2 DEF OpRecord
<1>7. queue' = Append(queue, x)
  BY <1>4
<1> HIDE DEF x
<1> QED
  BY <1>5, <1>6, <1>7, OpQueued

\* When it is superseded an operation keeps its other fields.
LEMMA StaleKept ==
  ASSUME NEW x \in OpType, NEW v, NEW y, y = [x EXCEPT !.stale = v]
  PROVE  /\ y.step = x.step /\ y.kind = x.kind /\ y.s = x.s /\ y.turn = x.turn
         /\ y.fail = x.fail /\ y.msg = x.msg /\ y.stale = v /\ y.made = x.made
         /\ y.seen = x.seen /\ y.commit = x.commit /\ y.instr = x.instr
<1>1. x \in OpRecord
  BY DEF OpType
<1> QED
  BY <1>1 DEF OpRecord

\* Every operation that waits, or is in the queue, is one that did before it was superseded.
LEMMA SupersededOps ==
  ASSUME Types, queue' = Superseded(queue)
  PROVE  /\ \A o \in Range(queue') :
               /\ o.kind = "resume" => o.stale
               /\ \E p \in Range(queue) : /\ o.kind = p.kind /\ o.step = p.step /\ o.s = p.s
                                          /\ o.turn = p.turn /\ o.made = p.made
         /\ \A o \in Waiting(queue') :
               \E p \in Waiting(queue) : o.kind = p.kind /\ o.step = p.step
<1>1. queue \in Seq(OpType) /\ queue' \in Seq(OpType) /\ Len(queue') = Len(queue) /\ Len(queue) \in Nat
  BY SupersededQueue DEF Types
<1>2. \A i \in 1..Len(queue) :
         queue[i] \in OpType /\ queue'[i] = [queue[i] EXCEPT !.stale = queue[i].kind = "resume"]
  BY <1>1, SupersededQueue
<1>3. ASSUME NEW i \in 1..Len(queue)
      PROVE  /\ queue'[i].kind = queue[i].kind /\ queue'[i].step = queue[i].step
             /\ queue'[i].s = queue[i].s /\ queue'[i].turn = queue[i].turn
             /\ queue'[i].made = queue[i].made
             /\ queue'[i].kind = "resume" => queue'[i].stale
  <2> DEFINE p == queue[i]
             b == (p.kind = "resume")
  <2>1. p \in OpType /\ queue'[i] = [p EXCEPT !.stale = b]
    BY <1>2
  <2>2. b <=> p.kind = "resume"
    OBVIOUS
  <2> HIDE DEF p, b
  <2>3. /\ queue'[i].stale = b /\ queue'[i].kind = p.kind /\ queue'[i].step = p.step
        /\ queue'[i].s = p.s /\ queue'[i].turn = p.turn /\ queue'[i].made = p.made
    BY <2>1, StaleKept
  <2> QED
    BY <2>2, <2>3 DEF p
<1>4. ASSUME NEW o \in Range(queue')
      PROVE  /\ o.kind = "resume" => o.stale
             /\ \E p \in Range(queue) : /\ o.kind = p.kind /\ o.step = p.step /\ o.s = p.s
                                        /\ o.turn = p.turn /\ o.made = p.made
  <2>1. PICK i \in 1..Len(queue) : o = queue'[i]
    BY <1>1, Places
  <2>2. queue[i] \in Range(queue)
    BY <1>1, Places
  <2> QED
    BY <2>1, <2>2, <1>3
<1>5. ASSUME NEW o \in Waiting(queue')
      PROVE  \E p \in Waiting(queue) : o.kind = p.kind /\ o.step = p.step
  <2>1. PICK i \in 2..Len(queue) : o = queue'[i]
    BY <1>1, Places
  <2>2. queue[i] \in Waiting(queue) /\ i \in 1..Len(queue)
    BY <1>1, Places
  <2> QED
    BY <2>1, <2>2, <1>3
<1> QED
  BY <1>4, <1>5

\* What the end of a turn queues.
LEMMA TurnOps ==
  ASSUME NEW s, NEW n, NEW f
  PROVE  /\ Rejected(s, n).kind = "rejected" /\ Rejected(s, n).step = "settle"
         /\ Rejected(s, n).s = s /\ Rejected(s, n).turn = n
         /\ Settled(s, n, f).kind = "settled" /\ Settled(s, n, f).step = "start"
         /\ Settled(s, n, f).s = s /\ Settled(s, n, f).turn = n
BY DEF Rejected, Settled, Op

\* ... and they are handlers of that turn, which have not begun.
LEMMA EndedOps ==
  ASSUME NEW s, NEW o \in Ended(s)
  PROVE  /\ o.kind \in SettledKind /\ o.s = s /\ o.turn = managed.turn
         /\ o.step = "start" \/ (o.kind = "rejected" /\ o.step = "settle")
         /\ o.kind = "settled" => o # Rejected(s, managed.turn)
BY TurnOps DEF Ended, SettledKind

\* An empty queue.
LEMMA EmptyQueue == Range(<<>>) = {} /\ Waiting(<<>>) = {}
<1>1. DOMAIN <<>> = {} /\ 2..Len(<<>>) = {}
  OBVIOUS
<1> QED
  BY <1>1 DEF Range, Waiting

\* The operation that runs goes on, but superseded.
LEMMA SupersededOp ==
  ASSUME Types, queue' = Superseded(queue)
  PROVE  /\ queue' # <<>> <=> queue # <<>>
         /\ queue # <<>> =>
               /\ op'.kind = op.kind /\ op'.step = op.step /\ op'.s = op.s /\ op'.turn = op.turn
               /\ op'.made = op.made /\ op'.msg = op.msg /\ op'.instr = op.instr
               /\ op.kind = "resume" => op'.stale
<1>1. /\ queue' # <<>> <=> queue # <<>>
      /\ queue # <<>> => op' = [op EXCEPT !.stale = op.kind = "resume"]
  BY SupersededQueue
<1>2. ASSUME queue # <<>>
      PROVE  /\ op'.kind = op.kind /\ op'.step = op.step /\ op'.s = op.s /\ op'.turn = op.turn
             /\ op'.made = op.made /\ op'.msg = op.msg /\ op'.instr = op.instr
             /\ op.kind = "resume" => op'.stale
  <2> DEFINE b == (op.kind = "resume")
  <2>1. op \in OpType /\ op' = [op EXCEPT !.stale = b]
    BY <1>1, <1>2, TheOp
  <2>2. b <=> op.kind = "resume"
    OBVIOUS
  <2> HIDE DEF b
  <2>3. /\ op'.kind = op.kind /\ op'.step = op.step /\ op'.s = op.s /\ op'.turn = op.turn
        /\ op'.made = op.made /\ op'.msg = op.msg /\ op'.instr = op.instr /\ op'.stale = b
    BY <2>1, StaleKept
  <2> QED
    BY <2>2, <2>3
<1> QED
  BY <1>1, <1>2

-----------------------------------------------------------------------------
(* What a step does to the record *)

\* The status changes, and the pending disposition stays or goes.
LEMMA Moves ==
  ASSUME Types, NEW v, Move(v)
  PROVE  /\ rec'.status = v /\ rec'.pending = rec.pending /\ rec'.attempt = rec.attempt
         /\ rec'.instr = rec.instr /\ rec'.commit = rec.commit
BY DEF Types, RecType, Move

\* The status changes, and no disposition is pending.
LEMMA Becomes ==
  ASSUME Types, NEW v, Become(v)
  PROVE  /\ rec'.status = v /\ rec'.pending = "none" /\ rec'.attempt = rec.attempt
         /\ rec'.instr = rec.instr /\ rec'.commit = rec.commit
BY DEF Types, RecType, Become

-----------------------------------------------------------------------------
(* The inductive invariant, part by part *)

\* A process that is down, or restarts, has nothing under way.
Rest ==
    mode # "up" =>
        /\ queue = <<>> /\ create = Idle /\ abort = Idle /\ ~pausing
        /\ live = 0 /\ managed = NoRuntime
        /\ \A s \in Session : sess[s] = "none" /\ cb[s] = NoCallback

\* An operation that waits has not begun.
Waits == \A o \in Waiting(queue) : o.step = "start" \/ (o.kind = "rejected" /\ o.step = "settle")

\* While an abort is in flight it supersedes every resume.
Supersedes == abort # Idle => \A o \in Range(queue) : o.kind = "resume" => o.stale

Order == Rest /\ Waits /\ Supersedes

\* The operation that runs: a resume, or the handler of a turn that settled, at these steps.
Resuming(steps) == queue # <<>> /\ op.kind = "resume" /\ op.step \in steps
Settling(steps) == queue # <<>> /\ op.kind \in SettledKind /\ op.step \in steps
Resumes == Resuming(ResumeSteps \ {"start"})

\* A disposition is pending exactly while the Worker verifies.
PendingVerifies == rec.pending # "none" <=> rec.status = "verifying"

\* A completion that is being verified can only be overtaken by an abort or a restart.
Verdict ==
    Settling({"verify", "accept"}) =>
        /\ rec.status \notin {"none", "queued", "starting"} \cup Running
        /\ rec.status = "verifying" => rec.pending = "completed"

\* An abort that read the record found a Worker that had started.
AbortFound == abort.step = "interrupt" => rec.status \notin {"none", "queued"}

\* A result has a status, and a reservation is the record's first.
ResultSays == result # NoResult => result.status # "none"
ReserveFirst == create.step = "reserve" => rec.status = "none"

Life == PendingVerifies /\ Verdict /\ AbortFound /\ ResultSays /\ ReserveFirst

\* A turn that settled is over: its session is not in it, and what its prompt
\* carried is settled, unless Pi only rejected the prompt.
Over(o) ==
    o.kind \in SettledKind =>
        /\ sess[o.s] # "none"
        /\ o.kind = "rejected" => o.step # "start"
        /\ o.s = managed.s =>
              /\ o.turn <= managed.turn
              /\ o.turn = managed.turn =>
                    /\ sess[o.s] # "busy"
                    /\ o.kind = "settled" => Range(managed.instr) \subseteq settled
TurnsOver == \A o \in Range(queue) : Over(o)

\* A session that is about to be attached is new: no turn of it was ever launched.
NewSteps  == {"build", "swap"}
HeldSteps == {"build", "swap", "latest", "update", "launch"}
Unused(s) ==
    /\ sess[s] # "none" /\ managed.s # s
    /\ \A o \in Range(queue) : o.kind \in SettledKind => o.s # s
Held == Resuming(HeldSteps) => sess[op.s] # "none"
CreatingNew == create.step \in NewSteps =>
    Unused(create.s) /\ (Resuming(HeldSteps) => create.s # op.s)
ResumingNew == Resuming(NewSteps) => Unused(op.s)
AttachedMade == managed.s # 0 => sess[managed.s] # "none"

Turns == TurnsOver /\ Held /\ CreatingNew /\ ResumingNew /\ AttachedMade

\* Between its reading and its update a resume's prompt is the outbox and its message.
PromptIsOutbox ==
    Resuming({"update"}) =>
        /\ op.msg = 0 => op.instr = rec.instr
        /\ op.msg # 0 => op.instr = Append(rec.instr, op.msg)

\* Who runs, and why: a session in its turn is attached to a Worker that runs, and one
\* that is told to stop has failed, is being aborted or makes room for the one of a start.
Runs(s) == sess[s] \in {"busy", "stopping"}
BusyAttached ==
    \A s \in Session : sess[s] = "busy" =>
        managed.s = s /\ rec.status \in Running \cup {"verifying", "failed"}
StoppingCause ==
    \A s \in Session : sess[s] = "stopping" =>
        /\ live # s
        /\ \/ rec.status = "failed"
           \/ abort.step = "stop" /\ abort.s = s
           \/ managed.s = s /\ create.step = "swap"

\* While a resume runs no turn does, nor does the session it made or one that is retired.
Idles == Resumes \/ Settling({"retire"})
Owns  == (Resumes /\ op.made) \/ Settling({"retire"})
NobodyBusy == Idles => \A u \in Session : sess[u] # "busy"
OwnIdle == Owns => ~Runs(op.s)

\* Nothing runs before the Worker has begun, and what follows a turn comes after that.
NotBegun == {"none", "queued", "starting"}
Begun ==
    /\ Idles => rec.status \notin NotBegun
    /\ rec.status \in NotBegun => \A s \in Session : ~Runs(s)

\* The session of a start runs its turn only while it is the current one, so that a
\* failure of the start finds it.
CreateLive == \A s \in Session : sess[s] = "busy" /\ create.s = s => live = s
ResumeLive == Resuming({"update", "launch"}) /\ ~op.stale /\ managed.s = op.s /\ create.s = op.s => live = op.s
Dropping   == create.step = "drop" => rec.status = "failed"
Launching  == Resuming({"launch"}) => rec.status = "working"

\* Two sessions never run at once, one that is still being stopped included.
OneSession == \A s, t \in Session : Runs(s) /\ Runs(t) => s = t

Writer == BusyAttached /\ StoppingCause /\ NobodyBusy /\ OwnIdle /\ Begun
          /\ CreateLive /\ ResumeLive /\ Dropping /\ Launching /\ OneSession

\* What WorkerLifecycle allows the record in one step.
Lives == [Lifecycle!Next]_(Lifecycle!vars)

-----------------------------------------------------------------------------
(* What a step does to the start and to the operation that runs *)

\* A start that goes on keeps its session.
LEMMA Creates ==
  ASSUME Types, NEW v, CreateTo(v)
  PROVE  create'.step = v /\ create'.s = create.s
BY DEF Types, CreateType, CreateTo

\* When the operation that ran is done, nothing runs that is past its first steps.
LEMMA NothingRuns ==
  ASSUME Waits, Ends, NEW steps, "start" \notin steps, "settle" \notin steps
  PROVE  ~Settling(steps)' /\ ~Resuming(steps)'
<1>1. queue' # <<>> => op' \in Waiting(queue)
  BY DEF Ends
<1>2. ASSUME queue' # <<>> PROVE op'.step \notin steps
  BY <1>1, <1>2 DEF Waits
<1> QED
  BY <1>2 DEF Settling, Resuming

\* What is queued does not run at once, unless nothing does, and then it is at its start.
LEMMA RunsAsBefore ==
  ASSUME NEW E, Gains(E), \A o \in E : o.step \in {"start", "settle"},
         NEW steps, "start" \notin steps, "settle" \notin steps
  PROVE  /\ Settling(steps)' => Settling(steps) /\ op' = op
         /\ Resuming(steps)' => Resuming(steps) /\ op' = op
<1>1. CASE queue = <<>>
  <2>1. op' \in E
    BY <1>1 DEF Gains
  <2> QED
    BY <2>1 DEF Settling, Resuming
<1>2. CASE queue # <<>>
  BY <1>2 DEF Gains, Settling, Resuming
<1> QED
  BY <1>1, <1>2

\* The operation that goes on is at the step it went to.
LEMMA RunsAt ==
  ASSUME NEW w, StepsTo(w) \/ GoesTo(w), NEW steps
  PROVE  /\ Settling(steps)' => w \in steps /\ op.kind \in SettledKind
         /\ Resuming(steps)' => w \in steps /\ op.kind = "resume"
<1>1. op'.step = w /\ op'.kind = op.kind
  BY DEF StepsTo, GoesTo
<1> QED
  BY <1>1 DEF Settling, Resuming

\* Every step keeps the order of the operations.
LEMMA OrderStep ==
  ASSUME Types, Order, Next
  PROVE  Order'
<1> USE DEF Order
<1>1. ASSUME CreateRequest PROVE Order'
  <2>1. Waits' /\ Supersedes'
    BY <1>1 DEF Waits, Supersedes, CreateRequest
  <2>2. Rest'
    BY <1>1 DEF Rest, CreateRequest, sessions
  <2> QED
    BY <2>1, <2>2 DEF Order
<1>2. ASSUME CreateReserve PROVE Order'
  <2>1. Waits' /\ Supersedes'
    BY <1>2 DEF Waits, Supersedes, CreateReserve
  <2>2. Rest'
    BY <1>2 DEF Rest, CreateReserve, CreateAt, sessions
  <2> QED
    BY <2>1, <2>2 DEF Order
<1>3. ASSUME CreateStart PROVE Order'
  <2>1. Waits' /\ Supersedes'
    BY <1>3 DEF Waits, Supersedes, CreateStart
  <2>2. Rest'
    BY <1>3 DEF Rest, CreateStart, CreateAt, sessions
  <2> QED
    BY <2>1, <2>2 DEF Order
<1>4. ASSUME CreatePlan PROVE Order'
  <2>1. Waits' /\ Supersedes'
    BY <1>4 DEF Waits, Supersedes, CreatePlan
  <2>2. Rest'
    BY <1>4 DEF Rest, CreatePlan, CreateAt, sessions
  <2> QED
    BY <2>1, <2>2 DEF Order
<1>5. ASSUME CreateAddTree PROVE Order'
  <2>1. Waits' /\ Supersedes'
    BY <1>5 DEF Waits, Supersedes, CreateAddTree
  <2>2. Rest'
    BY <1>5 DEF Rest, CreateAddTree, CreateAt, sessions
  <2> QED
    BY <2>1, <2>2 DEF Order
<1>6. ASSUME CreateAddTreeFails PROVE Order'
  <2>1. Waits' /\ Supersedes'
    BY <1>6 DEF Waits, Supersedes, CreateAddTreeFails
  <2>2. Rest'
    BY <1>6 DEF Rest, CreateAddTreeFails, CreateAt, sessions
  <2> QED
    BY <2>1, <2>2 DEF Order
<1>7. ASSUME CreateOpen PROVE Order'
  <2>1. Waits' /\ Supersedes'
    BY <1>7 DEF Waits, Supersedes, CreateOpen
  <2>2. Rest'
    BY <1>7 DEF Rest, CreateOpen, CreateAt
  <2> QED
    BY <2>1, <2>2 DEF Order
<1>8. ASSUME CreateBuilt PROVE Order'
  <2>1. Waits' /\ Supersedes'
    BY <1>8 DEF Waits, Supersedes, CreateBuilt
  <2>2. Rest'
    BY <1>8 DEF Rest, CreateBuilt, CreateAt
  <2> QED
    BY <2>1, <2>2 DEF Order
<1>9. ASSUME CreateSwap PROVE Order'
  <2>1. Waits' /\ Supersedes'
    BY <1>9 DEF Waits, Supersedes, CreateSwap
  <2>2. Rest'
    BY <1>9 DEF Rest, CreateSwap, CreateAt
  <2> QED
    BY <2>1, <2>2 DEF Order
<1>10. ASSUME CreateBegin PROVE Order'
  <2>1. Waits' /\ Supersedes'
    BY <1>10 DEF Waits, Supersedes, CreateBegin
  <2>2. Rest'
    BY <1>10 DEF Rest, CreateBegin, CreateAt
  <2> QED
    BY <2>1, <2>2 DEF Order
<1>11. ASSUME CreateFail PROVE Order'
  <2>1. Waits' /\ Supersedes'
    BY <1>11 DEF Waits, Supersedes, CreateFail
  <2>2. Rest'
    BY <1>11 DEF Rest, CreateFail, CreateAt
  <2> QED
    BY <2>1, <2>2 DEF Order
<1>12. ASSUME CreateDrop PROVE Order'
  <2>1. Waits' /\ Supersedes'
    BY <1>12 DEF Waits, Supersedes, CreateDrop
  <2>2. Rest'
    BY <1>12 DEF Rest, CreateDrop, CreateAt
  <2> QED
    BY <2>1, <2>2 DEF Order
<1>13. ASSUME PauseRequest PROVE Order'
  <2>1. Gains({Op("pause")}) /\ Op("pause").step = "start" /\ Op("pause").kind = "pause"
    BY <1>13, NewOps, OpQueued DEF PauseRequest, Enqueue, Op
  <2>2. Rest'
    BY <1>13, <2>1 DEF Rest, PauseRequest, Command, sessions
  <2>3. Waits'
    BY <1>13, <2>1 DEF Waits, PauseRequest, Gains
  <2>4. Supersedes'
    BY <1>13, <2>1 DEF Supersedes, PauseRequest, Gains
  <2> QED
    BY <2>2, <2>3, <2>4 DEF Order
<1>14. ASSUME SteerRequest PROVE Order'
  <2>1. commands' \in 1..MaxCommands
    BY <1>14, BoundsAreSane DEF SteerRequest, Command, Types
  <2>2. \E x \in OpType : x.step = "start" /\ x.kind = "steer" /\ Gains({x})
    BY <1>14, <2>1, NewOps, OpQueued DEF SteerRequest, Enqueue, Op
  <2>3. Rest'
    BY <1>14, <2>1, <2>2 DEF Rest, SteerRequest, Command, sessions
  <2>4. Waits'
    BY <1>14, <2>1, <2>2 DEF Waits, SteerRequest, Gains
  <2>5. Supersedes'
    BY <1>14, <2>1, <2>2 DEF Supersedes, SteerRequest, Gains
  <2> QED
    BY <2>3, <2>4, <2>5 DEF Order
<1>15. ASSUME ResumeRequest PROVE Order'
  <2>1. \E x \in OpType : x.step = "start" /\ x.kind = "resume" /\ Gains({x})
    BY <1>15, ResumeAsked
  <2>2. Rest'
    BY <1>15, <2>1 DEF Rest, ResumeRequest, Command, sessions
  <2>3. Waits'
    BY <1>15, <2>1 DEF Waits, ResumeRequest, Gains
  <2>4. Supersedes'
    BY <1>15, <2>1 DEF Supersedes, ResumeRequest
  <2> QED
    BY <2>2, <2>3, <2>4 DEF Order
<1>16. ASSUME AbortRequest PROVE Order'
  <2>1. /\ \A o \in Waiting(queue') : \E p \in Waiting(queue) : o.step = p.step /\ o.kind = p.kind
        /\ \A o \in Range(queue') : o.kind = "resume" => o.stale
    BY <1>16, SupersededOps DEF AbortRequest, Superseded
  <2>2. Rest'
    BY <1>16, <2>1 DEF Rest, AbortRequest, Command, sessions
  <2>3. Waits'
    BY <1>16, <2>1 DEF Waits, AbortRequest, Command
  <2>4. Supersedes'
    BY <1>16, <2>1 DEF Supersedes, AbortRequest, Command
  <2> QED
    BY <2>2, <2>3, <2>4 DEF Order
<1>17. ASSUME PauseProject PROVE Order'
  <2>1. Waits' /\ Supersedes'
    BY <1>17 DEF Waits, Supersedes, PauseProject
  <2>2. Rest'
    BY <1>17 DEF Rest, PauseProject, Command, sessions
  <2> QED
    BY <2>1, <2>2 DEF Order
<1>18. ASSUME ResumeProject PROVE Order'
  <2>1. Rest' /\ Waits' /\ Supersedes'
    BY <1>18 DEF Rest, Waits, Supersedes, ResumeProject, sessions, control
  <2> QED
    BY <2>1 DEF Order
<1>19. ASSUME Pause PROVE Order'
  <2>1. queue # <<>> /\ Ends /\ Range(queue) = {op} \cup Waiting(queue)
    BY <1>19, OpEnds, TheOp DEF Pause, At
  <2>2. Rest'
    BY <1>19, <2>1 DEF Rest, Pause, At, sessions
  <2>3. Waits'
    BY <1>19, <2>1 DEF Waits, Pause, Ends, StepsTo, GoesTo, SettledKind
  <2>4. Supersedes'
    BY <1>19, <2>1 DEF Supersedes, Pause, Ends, StepsTo, GoesTo, SettledKind
  <2> QED
    BY <2>2, <2>3, <2>4 DEF Order
<1>20. ASSUME Steer PROVE Order'
  <2>1. queue # <<>> /\ Ends /\ Range(queue) = {op} \cup Waiting(queue)
    BY <1>20, OpEnds, TheOp DEF Steer, At
  <2>2. Rest'
    BY <1>20, <2>1 DEF Rest, Steer, At, sessions
  <2>3. Waits'
    BY <1>20, <2>1 DEF Waits, Steer, Ends, StepsTo, GoesTo, SettledKind
  <2>4. Supersedes'
    BY <1>20, <2>1 DEF Supersedes, Steer, Ends, StepsTo, GoesTo, SettledKind
  <2> QED
    BY <2>2, <2>3, <2>4 DEF Order
<1>21. ASSUME ResumeStart PROVE Order'
  <2>1. /\ queue # <<>> /\ op \in OpType /\ op.kind = "resume" /\ Range(queue) = {op} \cup Waiting(queue)
        /\ Done => Ends
        /\ Step("resources") => StepsTo("resources")
    BY <1>21, AtResume, TheOp DEF ResumeStart, ResumeSteps
  <2>2. Rest'
    BY <1>21, <2>1 DEF Rest, ResumeStart, ResumeAt, At, sessions
  <2>3. Waits'
    BY <1>21, <2>1 DEF Waits, ResumeStart, ResumeFails, Ends, StepsTo, GoesTo
  <2>4. Supersedes'
    BY <1>21, <2>1 DEF Supersedes, ResumeStart, ResumeFails, Ends, StepsTo, GoesTo
  <2> QED
    BY <2>2, <2>3, <2>4 DEF Order
<1>22. ASSUME ResumeResources PROVE Order'
  <2>1. /\ queue # <<>> /\ op \in OpType /\ op.kind = "resume" /\ Range(queue) = {op} \cup Waiting(queue)
        /\ Done => Ends
        /\ Step("open") => StepsTo("open")
    BY <1>22, AtResume, TheOp DEF ResumeResources, ResumeSteps
  <2>2. Rest'
    BY <1>22, <2>1 DEF Rest, ResumeResources, ResumeAt, At, sessions
  <2>3. Waits'
    BY <1>22, <2>1 DEF Waits, ResumeResources, ResumeFails, Ends, StepsTo, GoesTo
  <2>4. Supersedes'
    BY <1>22, <2>1 DEF Supersedes, ResumeResources, ResumeFails, Ends, StepsTo, GoesTo
  <2> QED
    BY <2>2, <2>3, <2>4 DEF Order
<1>23. ASSUME ResumeOpen PROVE Order'
  <2>1. /\ queue # <<>> /\ op \in OpType /\ op.kind = "resume" /\ Range(queue) = {op} \cup Waiting(queue)
        /\ Done => Ends
    BY <1>23, AtResume, TheOp DEF ResumeOpen, ResumeSteps
  <2>2. /\ Waiting(queue') = Waiting(queue) /\ Range(queue') = {op'} \cup Waiting(queue)
        /\ op'.kind = op.kind /\ op'.stale = op.stale
    BY <1>23, <2>1, ResumeOpens DEF StepsTo, GoesTo
  <2>3. Rest'
    BY <1>23, <2>1, <2>2 DEF Rest, ResumeOpen, ResumeAt, At
  <2>4. Waits'
    BY <1>23, <2>1, <2>2 DEF Waits, ResumeOpen
  <2>5. Supersedes'
    BY <1>23, <2>1, <2>2 DEF Supersedes, ResumeOpen
  <2> QED
    BY <2>3, <2>4, <2>5 DEF Order
<1>24. ASSUME ResumeBuilt PROVE Order'
  <2>1. /\ queue # <<>> /\ op \in OpType /\ op.kind = "resume" /\ Range(queue) = {op} \cup Waiting(queue)
        /\ Done => Ends
        /\ Step("latest") => StepsTo("latest")
        /\ Step("swap") => StepsTo("swap")
    BY <1>24, AtResume, TheOp DEF ResumeBuilt, ResumeSteps
  <2>2. Rest'
    BY <1>24, <2>1 DEF Rest, ResumeBuilt, ResumeAt, At
  <2>3. Waits'
    BY <1>24, <2>1 DEF Waits, ResumeBuilt, ResumeFails, Ends, StepsTo, GoesTo
  <2>4. Supersedes'
    BY <1>24, <2>1 DEF Supersedes, ResumeBuilt, ResumeFails, Ends, StepsTo, GoesTo
  <2> QED
    BY <2>2, <2>3, <2>4 DEF Order
<1>25. ASSUME ResumeSwap PROVE Order'
  <2>1. /\ queue # <<>> /\ op \in OpType /\ op.kind = "resume" /\ Range(queue) = {op} \cup Waiting(queue)
        /\ Done => Ends
        /\ Step("latest") => StepsTo("latest")
    BY <1>25, AtResume, TheOp DEF ResumeSwap, ResumeSteps
  <2>2. Rest'
    BY <1>25, <2>1 DEF Rest, ResumeSwap, ResumeAt, At
  <2>3. Waits'
    BY <1>25, <2>1 DEF Waits, ResumeSwap, ResumeFails, Ends, StepsTo, GoesTo
  <2>4. Supersedes'
    BY <1>25, <2>1 DEF Supersedes, ResumeSwap, ResumeFails, Ends, StepsTo, GoesTo
  <2> QED
    BY <2>2, <2>3, <2>4 DEF Order
<1>26. ASSUME ResumeLatest PROVE Order'
  <2>1. /\ queue # <<>> /\ op \in OpType /\ op.kind = "resume" /\ Range(queue) = {op} \cup Waiting(queue)
        /\ Done => Ends
    BY <1>26, AtResume, TheOp DEF ResumeLatest, ResumeSteps
  <2>2. Rest'
    BY <1>26, <2>1 DEF Rest, ResumeLatest, ResumeAt, At
  <2>3. Waits'
    BY <1>26, <2>1, ResumeReads DEF Waits, ResumeLatest, Ends, StepsTo, GoesTo, SettledKind,
       ResumeFails
  <2>4. Supersedes'
    BY <1>26, <2>1, ResumeReads DEF Supersedes, ResumeLatest, Ends, StepsTo, GoesTo, SettledKind,
       ResumeFails
  <2> QED
    BY <2>2, <2>3, <2>4 DEF Order
<1>27. ASSUME ResumeUpdate PROVE Order'
  <2>1. /\ queue # <<>> /\ op \in OpType /\ op.kind = "resume" /\ Range(queue) = {op} \cup Waiting(queue)
        /\ Done => Ends
        /\ Step("launch") => StepsTo("launch")
    BY <1>27, AtResume, TheOp DEF ResumeUpdate, ResumeSteps
  <2>2. Rest'
    BY <1>27, <2>1 DEF Rest, ResumeUpdate, ResumeAt, At
  <2>3. Waits'
    BY <1>27, <2>1 DEF Waits, ResumeUpdate, ResumeFails, Ends, StepsTo, GoesTo
  <2>4. Supersedes'
    BY <1>27, <2>1 DEF Supersedes, ResumeUpdate, ResumeFails, Ends, StepsTo, GoesTo
  <2> QED
    BY <2>2, <2>3, <2>4 DEF Order
<1>28. ASSUME ResumeLaunch PROVE Order'
  <2>1. /\ queue # <<>> /\ op \in OpType /\ op.kind = "resume" /\ Range(queue) = {op} \cup Waiting(queue)
        /\ Done => Ends
    BY <1>28, AtResume, TheOp DEF ResumeLaunch, ResumeSteps
  <2>2. Rest'
    BY <1>28, <2>1 DEF Rest, ResumeLaunch, ResumeAt, At
  <2>3. Waits'
    BY <1>28, <2>1, Launches, TurnOps DEF Waits, Ends, ResumeFails
  <2>4. Supersedes'
    BY <1>28, <2>1, Launches, TurnOps DEF Supersedes, ResumeLaunch, Ends, ResumeFails
  <2> QED
    BY <2>2, <2>3, <2>4 DEF Order
<1>29. ASSUME Acknowledge PROVE Order'
  <2>1. /\ queue # <<>> /\ op \in OpType /\ op.kind \in SettledKind /\ Range(queue) = {op} \cup Waiting(queue)
        /\ Done => Ends
        /\ Step("settle") => StepsTo("settle")
    BY <1>29, AtSettled, TheOp DEF Acknowledge, SettleSteps
  <2>2. Rest'
    BY <1>29, <2>1 DEF Rest, Acknowledge, SettledAt, At, sessions
  <2>3. Waits'
    BY <1>29, <2>1 DEF Waits, Acknowledge, Ends, StepsTo, GoesTo, SettledKind
  <2>4. Supersedes'
    BY <1>29, <2>1 DEF Supersedes, Acknowledge, Ends, StepsTo, GoesTo, SettledKind
  <2> QED
    BY <2>2, <2>3, <2>4 DEF Order
<1>30. ASSUME Settle PROVE Order'
  <2>1. /\ queue # <<>> /\ op \in OpType /\ op.kind \in SettledKind /\ Range(queue) = {op} \cup Waiting(queue)
    BY <1>30, AtSettled, TheOp DEF Settle
  <2>2. \/ Ends
        \/ /\ Waiting(queue') = Waiting(queue) /\ Range(queue') = {op'} \cup Waiting(queue)
           /\ op'.kind = op.kind /\ op'.stale = op.stale
    BY <1>30, <2>1, SettleChooses DEF StepsTo, GoesTo
  <2>3. Rest'
    BY <1>30, <2>1, <2>2 DEF Rest, Settle, SettledAt, At, sessions
  <2>4. Waits'
    BY <1>30, <2>1, <2>2 DEF Waits, Settle, Ends
  <2>5. Supersedes'
    BY <1>30, <2>1, <2>2 DEF Supersedes, Settle, Ends
  <2> QED
    BY <2>3, <2>4, <2>5 DEF Order
<1>31. ASSUME SettleFail PROVE Order'
  <2>1. /\ queue # <<>> /\ op \in OpType /\ op.kind \in SettledKind /\ Range(queue) = {op} \cup Waiting(queue)
        /\ Done => Ends
        /\ Step("retire") => StepsTo("retire")
    BY <1>31, AtSettled, TheOp DEF SettleFail, SettleSteps
  <2>2. Rest'
    BY <1>31, <2>1 DEF Rest, SettleFail, SettledAt, At, sessions
  <2>3. Waits'
    BY <1>31, <2>1 DEF Waits, SettleFail, Ends, StepsTo, GoesTo, SettledKind
  <2>4. Supersedes'
    BY <1>31, <2>1 DEF Supersedes, SettleFail, Ends, StepsTo, GoesTo, SettledKind
  <2> QED
    BY <2>2, <2>3, <2>4 DEF Order
<1>32. ASSUME BlockUnsettled PROVE Order'
  <2>1. /\ queue # <<>> /\ op \in OpType /\ op.kind \in SettledKind /\ Range(queue) = {op} \cup Waiting(queue)
        /\ Done => Ends
    BY <1>32, AtSettled, TheOp DEF BlockUnsettled, SettleSteps
  <2>2. Rest'
    BY <1>32, <2>1 DEF Rest, BlockUnsettled, SettledAt, At, sessions
  <2>3. Waits'
    BY <1>32, <2>1 DEF Waits, BlockUnsettled, Ends, StepsTo, GoesTo, SettledKind
  <2>4. Supersedes'
    BY <1>32, <2>1 DEF Supersedes, BlockUnsettled, Ends, StepsTo, GoesTo, SettledKind
  <2> QED
    BY <2>2, <2>3, <2>4 DEF Order
<1>33. ASSUME Publish PROVE Order'
  <2>1. /\ queue # <<>> /\ op \in OpType /\ op.kind \in SettledKind /\ Range(queue) = {op} \cup Waiting(queue)
        /\ Done => Ends
        /\ Step("retire") => StepsTo("retire")
    BY <1>33, AtSettled, TheOp DEF Publish, SettleSteps
  <2>2. Rest'
    BY <1>33, <2>1 DEF Rest, Publish, SettledAt, At, sessions
  <2>3. Waits'
    BY <1>33, <2>1 DEF Waits, Publish, Ends, StepsTo, GoesTo, SettledKind
  <2>4. Supersedes'
    BY <1>33, <2>1 DEF Supersedes, Publish, Ends, StepsTo, GoesTo, SettledKind
  <2> QED
    BY <2>2, <2>3, <2>4 DEF Order
<1>34. ASSUME Verify PROVE Order'
  <2>1. /\ queue # <<>> /\ op \in OpType /\ op.kind \in SettledKind /\ Range(queue) = {op} \cup Waiting(queue)
    BY <1>34, AtSettled, TheOp DEF Verify
  <2>2. Rest'
    BY <1>34, <2>1 DEF Rest, Verify, SettledAt, At, sessions
  <2>3. Waits'
    BY <1>34, <2>1, VerifyChooses DEF Waits, Verify, Ends, StepsTo, GoesTo, SettledKind, ResumeFails
  <2>4. Supersedes'
    BY <1>34, <2>1, VerifyChooses DEF Supersedes, Verify, Ends, StepsTo, GoesTo, SettledKind,
       ResumeFails
  <2> QED
    BY <2>2, <2>3, <2>4 DEF Order
<1>35. ASSUME Accept PROVE Order'
  <2>1. /\ queue # <<>> /\ op \in OpType /\ op.kind \in SettledKind /\ Range(queue) = {op} \cup Waiting(queue)
        /\ Done => Ends
        /\ Step("retire") => StepsTo("retire")
        /\ Step("refuse") => StepsTo("refuse")
    BY <1>35, AtSettled, TheOp DEF Accept, SettleSteps
  <2>2. Rest'
    BY <1>35, <2>1 DEF Rest, Accept, SettledAt, At, sessions
  <2>3. Waits'
    BY <1>35, <2>1 DEF Waits, Accept, Ends, StepsTo, GoesTo, SettledKind
  <2>4. Supersedes'
    BY <1>35, <2>1 DEF Supersedes, Accept, Ends, StepsTo, GoesTo, SettledKind
  <2> QED
    BY <2>2, <2>3, <2>4 DEF Order
<1>36. ASSUME Refuse PROVE Order'
  <2>1. /\ queue # <<>> /\ op \in OpType /\ op.kind \in SettledKind /\ Range(queue) = {op} \cup Waiting(queue)
        /\ Done => Ends
    BY <1>36, AtSettled, TheOp DEF Refuse, SettleSteps
  <2>2. Rest'
    BY <1>36, <2>1 DEF Rest, Refuse, SettledAt, At, sessions
  <2>3. Waits'
    BY <1>36, <2>1 DEF Waits, Refuse, Ends, StepsTo, GoesTo, SettledKind
  <2>4. Supersedes'
    BY <1>36, <2>1 DEF Supersedes, Refuse, Ends, StepsTo, GoesTo, SettledKind
  <2> QED
    BY <2>2, <2>3, <2>4 DEF Order
<1>37. ASSUME Retire PROVE Order'
  <2>1. /\ queue # <<>> /\ op \in OpType /\ op.kind \in SettledKind /\ Range(queue) = {op} \cup Waiting(queue)
        /\ Done => Ends
    BY <1>37, AtSettled, TheOp DEF Retire, SettleSteps
  <2>2. Rest'
    BY <1>37, <2>1 DEF Rest, Retire, SettledAt, At
  <2>3. Waits'
    BY <1>37, <2>1 DEF Waits, Retire, Ends, StepsTo, GoesTo, SettledKind
  <2>4. Supersedes'
    BY <1>37, <2>1 DEF Supersedes, Retire, Ends, StepsTo, GoesTo, SettledKind
  <2> QED
    BY <2>2, <2>3, <2>4 DEF Order
<1>38. ASSUME AbortRead PROVE Order'
  <2>1. Waits'
    BY <1>38 DEF Waits, AbortRead
  <2>2. Rest'
    BY <1>38 DEF Rest, AbortRead, AbortAt, sessions
  <2>3. Supersedes'
    BY <1>38 DEF Supersedes, AbortRead, AbortAt, Idle
  <2> QED
    BY <2>1, <2>2, <2>3 DEF Order
<1>39. ASSUME AbortInterrupt PROVE Order'
  <2>1. Waits'
    BY <1>39 DEF Waits, AbortInterrupt
  <2>2. Rest'
    BY <1>39 DEF Rest, AbortInterrupt, AbortAt
  <2>3. Supersedes'
    BY <1>39 DEF Supersedes, AbortInterrupt, AbortAt, Idle
  <2> QED
    BY <2>1, <2>2, <2>3 DEF Order
<1>40. ASSUME AbortStop PROVE Order'
  <2>1. Waits'
    BY <1>40 DEF Waits, AbortStop
  <2>2. Rest'
    BY <1>40 DEF Rest, AbortStop, AbortAt
  <2>3. Supersedes'
    BY <1>40 DEF Supersedes, AbortStop, AbortAt
  <2> QED
    BY <2>1, <2>2, <2>3 DEF Order
<1>41. ASSUME PauseActive PROVE Order'
  <2>1. queue' = queue \/ (Gains({Op("pause")}) /\ Op("pause").step = "start" /\ Op("pause").kind = "pause")
    BY <1>41, NewOps, OpQueued DEF PauseActive, Enqueue, Op
  <2>2. Rest'
    BY <1>41, <2>1 DEF Rest, PauseActive, sessions
  <2>3. Waits'
    BY <1>41, <2>1 DEF Waits, PauseActive, Gains
  <2>4. Supersedes'
    BY <1>41, <2>1 DEF Supersedes, PauseActive, Gains
  <2> QED
    BY <2>2, <2>3, <2>4 DEF Order
<1>42. ASSUME NEW s \in Session, Write(s) PROVE Order'
  <2>1. Rest' /\ Waits' /\ Supersedes'
    BY <1>42 DEF Rest, Waits, Supersedes, Write, sessions, control
  <2> QED
    BY <2>1 DEF Order
<1>43. ASSUME NEW s \in Session, EndTurn(s) PROVE Order'
  <2>1. Rest'
    BY <1>43 DEF Rest, EndTurn
  <2>2. Waits'
    BY <1>43, TurnEnds, EndedOps DEF Waits, Gains, SettledKind
  <2>3. Supersedes'
    BY <1>43, TurnEnds, EndedOps DEF Supersedes, EndTurn, Gains, SettledKind
  <2> QED
    BY <2>1, <2>2, <2>3 DEF Order
<1>44. ASSUME NEW s \in Session, StopSession(s) PROVE Order'
  <2>1. Waits' /\ Supersedes'
    BY <1>44 DEF Waits, Supersedes, StopSession, control
  <2>2. Rest'
    BY <1>44 DEF Rest, StopSession, control
  <2> QED
    BY <2>1, <2>2 DEF Order
<1>45. ASSUME NEW s \in Session, CommitBegin(s) PROVE Order'
  <2>1. Waits' /\ Supersedes'
    BY <1>45 DEF Waits, Supersedes, CommitBegin, control
  <2>2. Rest'
    BY <1>45 DEF Rest, CommitBegin, MayCall, control
  <2> QED
    BY <2>1, <2>2 DEF Order
<1>46. ASSUME NEW s \in Session, ProgressPaused(s) PROVE Order'
  <2>1. Rest' /\ Waits' /\ Supersedes'
    BY <1>46 DEF Rest, Waits, Supersedes, ProgressPaused, sessions, control
  <2> QED
    BY <2>1 DEF Order
<1>47. ASSUME NEW s \in Session, Escalate(s) PROVE Order'
  <2>1. Rest' /\ Waits' /\ Supersedes'
    BY <1>47 DEF Rest, Waits, Supersedes, Escalate, sessions, control
  <2> QED
    BY <2>1 DEF Order
<1>48. ASSUME NEW s \in Session, CompleteBegin(s) PROVE Order'
  <2>1. Waits' /\ Supersedes'
    BY <1>48 DEF Waits, Supersedes, CompleteBegin, control
  <2>2. Rest'
    BY <1>48 DEF Rest, CompleteBegin, MayCall, control
  <2> QED
    BY <2>1, <2>2 DEF Order
<1>49. ASSUME NEW s \in Session, Commit(s) PROVE Order'
  <2>1. Waits' /\ Supersedes'
    BY <1>49 DEF Waits, Supersedes, Commit, control
  <2>2. Rest'
    BY <1>49 DEF Rest, Commit, CallAt, control
  <2> QED
    BY <2>1, <2>2 DEF Order
<1>50. ASSUME NEW s \in Session, CompleteVerify(s) PROVE Order'
  <2>1. Waits' /\ Supersedes'
    BY <1>50 DEF Waits, Supersedes, CompleteVerify, control
  <2>2. Rest'
    BY <1>50 DEF Rest, CompleteVerify, CallAt, control
  <2> QED
    BY <2>1, <2>2 DEF Order
<1>51. ASSUME NEW s \in Session, CompleteWrite(s) PROVE Order'
  <2>1. Waits' /\ Supersedes'
    BY <1>51 DEF Waits, Supersedes, CompleteWrite, control
  <2>2. Rest'
    BY <1>51 DEF Rest, CompleteWrite, CallAt, control
  <2> QED
    BY <2>1, <2>2 DEF Order
<1>52. ASSUME NEW s \in Session, CompleteWritten(s) PROVE Order'
  <2>1. Waits' /\ Supersedes'
    BY <1>52 DEF Waits, Supersedes, CompleteWritten, control
  <2>2. Rest'
    BY <1>52 DEF Rest, CompleteWritten, CallAt, control
  <2> QED
    BY <2>1, <2>2 DEF Order
<1>53. ASSUME NEW s \in Session, CompleteUpdate(s) PROVE Order'
  <2>1. Waits' /\ Supersedes'
    BY <1>53 DEF Waits, Supersedes, CompleteUpdate, control
  <2>2. Rest'
    BY <1>53 DEF Rest, CompleteUpdate, CallAt, control
  <2> QED
    BY <2>1, <2>2 DEF Order
<1>54. ASSUME NEW s \in Session, CompleteClean(s) PROVE Order'
  <2>1. Waits' /\ Supersedes'
    BY <1>54 DEF Waits, Supersedes, CompleteClean, control
  <2>2. Rest'
    BY <1>54 DEF Rest, CompleteClean, CallAt, control
  <2> QED
    BY <2>1, <2>2 DEF Order
<1>55. ASSUME Crash PROVE Order'
  <2>1. Rest'
    BY <1>55 DEF Rest, Crash
  <2>2. Waits'
    BY <1>55, EmptyQueue DEF Waits, Crash
  <2>3. Supersedes'
    BY <1>55, EmptyQueue DEF Supersedes, Crash
  <2> QED
    BY <2>1, <2>2, <2>3 DEF Order
<1>56. ASSUME Reconcile PROVE Order'
  <2>1. Waits' /\ Supersedes'
    BY <1>56 DEF Waits, Supersedes, Reconcile, control
  <2>2. Rest'
    BY <1>56 DEF Rest, Reconcile, sessions, control
  <2> QED
    BY <2>1, <2>2 DEF Order
<1>57. ASSUME Recover PROVE Order'
  <2>1. Waits' /\ Supersedes'
    BY <1>57 DEF Waits, Supersedes, Recover, control
  <2>2. Rest'
    BY <1>57 DEF Rest, Recover, sessions, control
  <2> QED
    BY <2>1, <2>2 DEF Order
<1> QED
  BY <1>1, <1>2, <1>3, <1>4, <1>5, <1>6, <1>7, <1>8, <1>9, <1>10, <1>11, <1>12, <1>13, <1>14,
     <1>15, <1>16, <1>17, <1>18, <1>19, <1>20, <1>21, <1>22, <1>23, <1>24, <1>25, <1>26, <1>27,
     <1>28, <1>29, <1>30, <1>31, <1>32, <1>33, <1>34, <1>35, <1>36, <1>37, <1>38, <1>39, <1>40,
     <1>41, <1>42, <1>43, <1>44, <1>45, <1>46, <1>47, <1>48, <1>49, <1>50, <1>51, <1>52, <1>53,
     <1>54, <1>55, <1>56, <1>57 DEF Next, Creating, Operating, Queued, Aborting, Calling, Called,
     Restarting

\* Every step keeps the life of the record, and is one that WorkerLifecycle allows.
LEMMA LifeStep ==
  ASSUME Types, Order, Life, Next
  PROVE  Life' /\ Lives
<1> USE DEF Order, Life
<1>1. ASSUME CreateRequest PROVE Life' /\ Lives
  <2>1. PendingVerifies' /\ Verdict' /\ AbortFound' /\ ResultSays' /\ Lives
    BY <1>1 DEF PendingVerifies, Verdict, Settling, op, AbortFound, ResultSays, Lives,
       Lifecycle!vars, CreateRequest, durable
  <2>2. ReserveFirst'
    BY <1>1 DEF ReserveFirst, CreateRequest, durable
  <2> QED
    BY <2>1, <2>2 DEF Life
<1>2. ASSUME CreateReserve PROVE Life' /\ Lives
  <2>1. rec' = rec \/ (rec'.status = "queued" /\ rec'.attempt = 1 /\ rec'.pending = rec.pending)
    BY <1>2 DEF CreateReserve, Types, RecType
  <2>2. ResultSays'
    BY <1>2 DEF ResultSays, CreateReserve
  <2>3. PendingVerifies'
    BY <1>2, <2>1 DEF PendingVerifies, CreateReserve, ReserveFirst, CreateAt
  <2>4. Verdict'
    BY <1>2, <2>1 DEF Verdict, Settling, op, CreateReserve, ReserveFirst, CreateAt, Running,
       Resumable, Finished, ActiveStatuses
  <2>5. AbortFound'
    BY <1>2, <2>1 DEF AbortFound, CreateReserve, ReserveFirst, CreateAt, Running, Resumable,
       Finished, ActiveStatuses
  <2>6. ReserveFirst'
    BY <1>2, <2>1, Creates DEF ReserveFirst, CreateReserve, CreateAt, CreateDropped, Idle,
       Running, Resumable, Finished, ActiveStatuses
  <2>7. Lives
    BY <1>2, <2>1 DEF Lives, Lifecycle!vars, PendingVerifies, Lifecycle!Next, Lifecycle!Reserve,
       Lifecycle!Become, Lifecycle!Finished, Lifecycle!Resumable, Lifecycle!Running,
       Lifecycle!Dispositions, Running, Resumable, Finished, ActiveStatuses, ReserveFirst,
       CreateReserve, CreateAt
  <2> QED
    BY <2>2, <2>3, <2>4, <2>5, <2>6, <2>7 DEF Life
<1>3. ASSUME CreateStart PROVE Life' /\ Lives
  <2>1. rec' = rec \/ (/\ rec.status = "queued" /\ rec'.status = "starting"
                       /\ rec'.pending = rec.pending /\ rec'.attempt = rec.attempt)
    BY <1>3, Moves DEF CreateStart
  <2>2. ResultSays'
    BY <1>3 DEF ResultSays, CreateStart
  <2>3. PendingVerifies'
    BY <1>3, <2>1 DEF PendingVerifies, MayResume, Running, Resumable, Finished, ActiveStatuses
  <2>4. Verdict'
    BY <1>3, <2>1 DEF Verdict, Settling, op, CreateStart, Running, Resumable, Finished,
       ActiveStatuses
  <2>5. AbortFound'
    BY <1>3, <2>1 DEF AbortFound, CreateStart, AbortAt, Idle, Running, Resumable, Finished,
       ActiveStatuses
  <2>6. ReserveFirst'
    BY <1>3, <2>1, Creates DEF ReserveFirst, CreateStart, CreateAt, CreateDropped, Idle, Running,
       Resumable, Finished, ActiveStatuses
  <2>7. Lives
    BY <1>3, <2>1 DEF Lives, Lifecycle!vars, PendingVerifies, Lifecycle!Next, Lifecycle!Start,
       Lifecycle!Become, Lifecycle!Finished, Lifecycle!Resumable, Lifecycle!Running,
       Lifecycle!Dispositions, Running, Resumable, Finished, ActiveStatuses
  <2> QED
    BY <2>2, <2>3, <2>4, <2>5, <2>6, <2>7 DEF Life
<1>4. ASSUME CreatePlan PROVE Life' /\ Lives
  <2>1. PendingVerifies' /\ Verdict' /\ AbortFound' /\ ResultSays' /\ Lives
    BY <1>4 DEF PendingVerifies, Verdict, Settling, op, AbortFound, ResultSays, Lives,
       Lifecycle!vars, CreatePlan, durable
  <2>2. ReserveFirst'
    BY <1>4, Creates DEF ReserveFirst, CreatePlan, durable, CreateAt, CreateDropped, Idle,
       Running, Resumable, Finished, ActiveStatuses
  <2> QED
    BY <2>1, <2>2 DEF Life
<1>5. ASSUME CreateAddTree PROVE Life' /\ Lives
  <2>1. PendingVerifies' /\ Verdict' /\ AbortFound' /\ ResultSays' /\ Lives
    BY <1>5 DEF PendingVerifies, Verdict, Settling, op, AbortFound, ResultSays, Lives,
       Lifecycle!vars, CreateAddTree
  <2>2. ReserveFirst'
    BY <1>5, Creates DEF ReserveFirst, CreateAddTree, CreateAt, CreateDropped, Idle, Running,
       Resumable, Finished, ActiveStatuses
  <2> QED
    BY <2>1, <2>2 DEF Life
<1>6. ASSUME CreateAddTreeFails PROVE Life' /\ Lives
  <2>1. PendingVerifies' /\ Verdict' /\ AbortFound' /\ ResultSays' /\ Lives
    BY <1>6 DEF PendingVerifies, Verdict, Settling, op, AbortFound, ResultSays, Lives,
       Lifecycle!vars, CreateAddTreeFails
  <2>2. ReserveFirst'
    BY <1>6, Creates DEF ReserveFirst, CreateAddTreeFails, CreateAt, CreateDropped, Idle,
       Running, Resumable, Finished, ActiveStatuses
  <2> QED
    BY <2>1, <2>2 DEF Life
<1>7. ASSUME CreateOpen PROVE Life' /\ Lives
  <2>1. PendingVerifies' /\ Verdict' /\ AbortFound' /\ ResultSays' /\ Lives
    BY <1>7 DEF PendingVerifies, Verdict, Settling, op, AbortFound, ResultSays, Lives,
       Lifecycle!vars, CreateOpen, durable
  <2>2. ReserveFirst'
    BY <1>7 DEF ReserveFirst, CreateOpen, CreateAt, durable
  <2> QED
    BY <2>1, <2>2 DEF Life
<1>8. ASSUME CreateBuilt PROVE Life' /\ Lives
  <2>1. PendingVerifies' /\ Verdict' /\ AbortFound' /\ ResultSays' /\ Lives
    BY <1>8 DEF PendingVerifies, Verdict, Settling, op, AbortFound, ResultSays, Lives,
       Lifecycle!vars, CreateBuilt, durable
  <2>2. ReserveFirst'
    BY <1>8, Creates DEF ReserveFirst, CreateBuilt, durable, CreateAt, CreateDropped, Idle,
       Running, Resumable, Finished, ActiveStatuses
  <2> QED
    BY <2>1, <2>2 DEF Life
<1>9. ASSUME CreateSwap PROVE Life' /\ Lives
  <2>1. PendingVerifies' /\ Verdict' /\ AbortFound' /\ ResultSays' /\ Lives
    BY <1>9 DEF PendingVerifies, Verdict, Settling, op, AbortFound, ResultSays, Lives,
       Lifecycle!vars, CreateSwap, durable
  <2>2. ReserveFirst'
    BY <1>9, Creates DEF ReserveFirst, CreateSwap, durable, CreateAt, CreateDropped, Idle,
       Running, Resumable, Finished, ActiveStatuses
  <2> QED
    BY <2>1, <2>2 DEF Life
<1>10. ASSUME CreateBegin PROVE Life' /\ Lives
  <2>1. rec' = rec \/ (/\ rec.status = "starting" /\ rec'.status = "working"
                       /\ rec'.pending = rec.pending /\ rec'.attempt = rec.attempt)
    BY <1>10, Moves DEF CreateBegin
  <2>2. ResultSays'
    BY <1>10 DEF ResultSays, CreateBegin
  <2>3. PendingVerifies'
    BY <1>10, <2>1 DEF PendingVerifies, MayResume, Running, Resumable, Finished, ActiveStatuses
  <2>4. Verdict'
    BY <1>10, <2>1 DEF Verdict, Settling, op, CreateBegin, Running, Resumable, Finished,
       ActiveStatuses
  <2>5. AbortFound'
    BY <1>10, <2>1 DEF AbortFound, CreateBegin, AbortAt, Idle, Running, Resumable, Finished,
       ActiveStatuses
  <2>6. ReserveFirst'
    BY <1>10, <2>1, Creates DEF ReserveFirst, CreateBegin, CreateAt, CreateDropped, Idle,
       Running, Resumable, Finished, ActiveStatuses
  <2>7. Lives
    BY <1>10, <2>1 DEF Lives, Lifecycle!vars, PendingVerifies, Lifecycle!Next, Lifecycle!Begin,
       Lifecycle!Become, Lifecycle!Finished, Lifecycle!Resumable, Lifecycle!Running,
       Lifecycle!Dispositions, Running, Resumable, Finished, ActiveStatuses
  <2> QED
    BY <2>2, <2>3, <2>4, <2>5, <2>6, <2>7 DEF Life
<1>11. ASSUME CreateFail PROVE Life' /\ Lives
  <2>1. rec' = rec \/ (/\ rec.status \in {"queued"} \cup ActiveStatuses /\ rec'.status = "failed"
                       /\ rec'.pending = "none" /\ rec'.attempt = rec.attempt)
    BY <1>11, Becomes DEF CreateFail
  <2>2. ResultSays'
    BY <1>11 DEF ResultSays, CreateFail
  <2>3. PendingVerifies'
    BY <1>11, <2>1 DEF PendingVerifies, MayResume, Running, Resumable, Finished, ActiveStatuses
  <2>4. Verdict'
    BY <1>11, <2>1 DEF Verdict, Settling, op, CreateFail, Running, Resumable, Finished,
       ActiveStatuses
  <2>5. AbortFound'
    BY <1>11, <2>1 DEF AbortFound, CreateFail, AbortAt, Idle, Running, Resumable, Finished,
       ActiveStatuses
  <2>6. ReserveFirst'
    BY <1>11, <2>1, Creates DEF ReserveFirst, CreateFail, CreateAt, CreateDropped, Idle, Running,
       Resumable, Finished, ActiveStatuses
  <2>7. Lives
    BY <1>11, <2>1 DEF Lives, Lifecycle!vars, PendingVerifies, Lifecycle!Next, Lifecycle!Fail,
       Lifecycle!Become, Lifecycle!Finished, Lifecycle!Resumable, Lifecycle!Running,
       Lifecycle!Dispositions, Running, Resumable, Finished, ActiveStatuses
  <2> QED
    BY <2>2, <2>3, <2>4, <2>5, <2>6, <2>7 DEF Life
<1>12. ASSUME CreateDrop PROVE Life' /\ Lives
  <2>1. PendingVerifies' /\ Verdict' /\ AbortFound' /\ ResultSays' /\ Lives
    BY <1>12 DEF PendingVerifies, Verdict, Settling, op, AbortFound, ResultSays, Lives,
       Lifecycle!vars, CreateDrop, durable
  <2>2. ReserveFirst'
    BY <1>12, Creates DEF ReserveFirst, CreateDrop, durable, CreateAt, CreateDropped, Idle,
       Running, Resumable, Finished, ActiveStatuses
  <2> QED
    BY <2>1, <2>2 DEF Life
<1>13. ASSUME PauseRequest PROVE Life' /\ Lives
  <2>1. Gains({Op("pause")}) /\ Op("pause").step = "start" /\ Op("pause").kind = "pause"
    BY <1>13, NewOps, OpQueued DEF PauseRequest, Enqueue, Op
  <2>2. PendingVerifies' /\ AbortFound' /\ ResultSays' /\ ReserveFirst' /\ Lives
    BY <1>13 DEF PendingVerifies, AbortFound, ResultSays, ReserveFirst, Lives, Lifecycle!vars,
       PauseRequest, durable
  <2>3. Verdict'
    BY <1>13, <2>1, NothingRuns, RunsAsBefore, RunsAt DEF Verdict, Settling, PauseRequest, durable
  <2> QED
    BY <2>2, <2>3 DEF Life
<1>14. ASSUME SteerRequest PROVE Life' /\ Lives
  <2>1. commands' \in 1..MaxCommands
    BY <1>14, BoundsAreSane DEF SteerRequest, Command, Types
  <2>2. \E x \in OpType : x.step = "start" /\ x.kind = "steer" /\ Gains({x})
    BY <1>14, <2>1, NewOps, OpQueued DEF SteerRequest, Enqueue, Op
  <2>3. PendingVerifies' /\ AbortFound' /\ ResultSays' /\ ReserveFirst' /\ Lives
    BY <1>14 DEF PendingVerifies, AbortFound, ResultSays, ReserveFirst, Lives, Lifecycle!vars,
       SteerRequest, durable
  <2>4. Verdict'
    BY <1>14, <2>1, <2>2, NothingRuns, RunsAsBefore, RunsAt DEF Verdict, Settling, SteerRequest,
       durable
  <2> QED
    BY <2>3, <2>4 DEF Life
<1>15. ASSUME ResumeRequest PROVE Life' /\ Lives
  <2>1. \E x \in OpType : x.step = "start" /\ x.kind = "resume" /\ Gains({x})
    BY <1>15, ResumeAsked
  <2>2. PendingVerifies' /\ AbortFound' /\ ResultSays' /\ ReserveFirst' /\ Lives
    BY <1>15 DEF PendingVerifies, AbortFound, ResultSays, ReserveFirst, Lives, Lifecycle!vars,
       ResumeRequest, durable
  <2>3. Verdict'
    BY <1>15, <2>1, NothingRuns, RunsAsBefore, RunsAt DEF Verdict, Settling, ResumeRequest, durable
  <2> QED
    BY <2>2, <2>3 DEF Life
<1>16. ASSUME AbortRequest PROVE Life' /\ Lives
  <2>1. /\ queue' # <<>> <=> queue # <<>>
        /\ queue # <<>> => /\ op'.kind = op.kind /\ op'.step = op.step /\ op'.s = op.s /\ op'.turn = op.turn
                           /\ op'.made = op.made /\ op'.msg = op.msg /\ op'.instr = op.instr
                           /\ op.kind = "resume" => op'.stale
    BY <1>16, SupersededOp DEF AbortRequest, Superseded
  <2>2. PendingVerifies' /\ ResultSays' /\ ReserveFirst' /\ Lives
    BY <1>16 DEF PendingVerifies, ResultSays, ReserveFirst, Lives, Lifecycle!vars, AbortRequest,
       durable
  <2>3. Verdict'
    BY <1>16, <2>1 DEF Verdict, Settling, AbortRequest, durable, Running, Resumable, Finished,
       ActiveStatuses
  <2>4. AbortFound'
    BY <1>16, <2>1 DEF AbortFound, AbortRequest, Command, durable
  <2> QED
    BY <2>2, <2>3, <2>4 DEF Life
<1>17. ASSUME PauseProject PROVE Life' /\ Lives
  <2>1. PendingVerifies' /\ Verdict' /\ AbortFound' /\ ResultSays' /\ ReserveFirst' /\ Lives
    BY <1>17 DEF PendingVerifies, Verdict, Settling, op, AbortFound, ResultSays, ReserveFirst,
       Lives, Lifecycle!vars, PauseProject
  <2> QED
    BY <2>1 DEF Life
<1>18. ASSUME ResumeProject PROVE Life' /\ Lives
  <2>1. PendingVerifies' /\ Verdict' /\ AbortFound' /\ ResultSays' /\ ReserveFirst' /\ Lives
    BY <1>18 DEF PendingVerifies, Verdict, Settling, op, AbortFound, ResultSays, ReserveFirst,
       Lives, Lifecycle!vars, ResumeProject, control
  <2> QED
    BY <2>1 DEF Life
<1>19. ASSUME Pause PROVE Life' /\ Lives
  <2>1. queue # <<>> /\ op.kind = "pause" /\ op.step = "start" /\ Ends /\ Range(queue) = {op} \cup Waiting(queue)
    BY <1>19, OpEnds, TheOp DEF Pause, At
  <2>2. rec' = rec \/ (/\ rec.status \in {"queued", "starting", "working"} /\ rec'.status = "pause_requested"
                       /\ rec'.pending = rec.pending /\ rec'.attempt = rec.attempt)
    BY <1>19, Moves DEF Pause
  <2>3. ResultSays'
    BY <1>19 DEF ResultSays, Pause
  <2>4. PendingVerifies'
    BY <1>19, <2>1, <2>2 DEF PendingVerifies, MayResume, Running, Resumable, Finished,
       ActiveStatuses
  <2>5. Verdict'
    BY <1>19, <2>1, <2>2, NothingRuns, RunsAsBefore, RunsAt DEF Verdict, Settling, Pause,
       ResumeFails, Running, Resumable, Finished, ActiveStatuses
  <2>6. AbortFound'
    BY <1>19, <2>1, <2>2 DEF AbortFound, Pause, AbortAt, Idle, Running, Resumable, Finished,
       ActiveStatuses
  <2>7. ReserveFirst'
    BY <1>19, <2>1, <2>2 DEF ReserveFirst, Pause, MayResume, Running, Resumable, Finished,
       ActiveStatuses
  <2>8. Lives
    BY <1>19, <2>1, <2>2 DEF Lives, Lifecycle!vars, PendingVerifies, Lifecycle!Next,
       Lifecycle!AskPause, Lifecycle!Become, Lifecycle!Finished, Lifecycle!Resumable,
       Lifecycle!Running, Lifecycle!Dispositions, Running, Resumable, Finished, ActiveStatuses
  <2> QED
    BY <2>3, <2>4, <2>5, <2>6, <2>7, <2>8 DEF Life
<1>20. ASSUME Steer PROVE Life' /\ Lives
  <2>1. queue # <<>> /\ op.kind = "steer" /\ op.step = "start" /\ Ends /\ Range(queue) = {op} \cup Waiting(queue)
    BY <1>20, OpEnds, TheOp DEF Steer, At
  <2>2. rec'.status = rec.status /\ rec'.pending = rec.pending /\ rec'.attempt = rec.attempt
    BY <1>20 DEF Steer, Types, RecType
  <2>3. ResultSays'
    BY <1>20 DEF ResultSays, Steer
  <2>4. PendingVerifies'
    BY <1>20, <2>1, <2>2 DEF PendingVerifies, MayResume, Running, Resumable, Finished,
       ActiveStatuses
  <2>5. Verdict'
    BY <1>20, <2>1, <2>2, NothingRuns, RunsAsBefore, RunsAt DEF Verdict, Settling, Steer,
       ResumeFails, Running, Resumable, Finished, ActiveStatuses
  <2>6. AbortFound'
    BY <1>20, <2>1, <2>2 DEF AbortFound, Steer, AbortAt, Idle, Running, Resumable, Finished,
       ActiveStatuses
  <2>7. ReserveFirst'
    BY <1>20, <2>1, <2>2 DEF ReserveFirst, Steer, At
  <2>8. Lives
    BY <1>20, <2>1, <2>2 DEF Lives, Lifecycle!vars, PendingVerifies, Lifecycle!Finished,
       Lifecycle!Resumable, Lifecycle!Running, Lifecycle!Dispositions, Running, Resumable,
       Finished, ActiveStatuses
  <2> QED
    BY <2>3, <2>4, <2>5, <2>6, <2>7, <2>8 DEF Life
<1>21. ASSUME ResumeStart PROVE Life' /\ Lives
  <2>1. /\ queue # <<>> /\ op \in OpType /\ op.kind = "resume" /\ op.step = "start"
        /\ Range(queue) = {op} \cup Waiting(queue) /\ (Done => Ends)
        /\ Step("resources") => StepsTo("resources")
    BY <1>21, AtResume, TheOp DEF ResumeStart, ResumeSteps
  <2>2. Ends \/ (queue' # <<>> /\ op'.kind = "resume")
    BY <1>21, <2>1 DEF ResumeStart, ResumeFails, StepsTo, GoesTo
  <2>3. PendingVerifies' /\ AbortFound' /\ ResultSays' /\ ReserveFirst' /\ Lives
    BY <1>21 DEF PendingVerifies, AbortFound, ResultSays, ReserveFirst, Lives, Lifecycle!vars,
       ResumeStart, durable
  <2>4. Verdict'
    BY <1>21, <2>1, <2>2, NothingRuns DEF Verdict, Settling, ResumeStart, durable, SettledKind
  <2> QED
    BY <2>3, <2>4 DEF Life
<1>22. ASSUME ResumeResources PROVE Life' /\ Lives
  <2>1. /\ queue # <<>> /\ op \in OpType /\ op.kind = "resume" /\ op.step = "resources"
        /\ Range(queue) = {op} \cup Waiting(queue) /\ (Done => Ends)
        /\ Step("open") => StepsTo("open")
    BY <1>22, AtResume, TheOp DEF ResumeResources, ResumeSteps
  <2>2. rec' = rec \/ (/\ rec.status \in Resumable /\ rec'.status = "failed"
                       /\ rec'.pending = rec.pending /\ rec'.attempt = rec.attempt)
    BY <1>22, Moves DEF ResumeResources
  <2>3. Ends \/ (queue' # <<>> /\ op'.kind = "resume")
    BY <1>22, <2>1 DEF ResumeResources, ResumeFails, StepsTo, GoesTo
  <2>4. ResultSays'
    BY <1>22 DEF ResultSays, ResumeResources
  <2>5. PendingVerifies'
    BY <1>22, <2>1, <2>2, <2>3 DEF PendingVerifies, MayResume, Running, Resumable, Finished,
       ActiveStatuses
  <2>6. Verdict'
    BY <1>22, <2>1, <2>2, <2>3, NothingRuns DEF Verdict, Settling, ResumeResources, SettledKind
  <2>7. AbortFound'
    BY <1>22, <2>1, <2>2, <2>3 DEF AbortFound, ResumeResources, AbortAt, Idle, Running,
       Resumable, Finished, ActiveStatuses
  <2>8. ReserveFirst'
    BY <1>22, <2>1, <2>2, <2>3 DEF ReserveFirst, ResumeResources, MayCall, Unfinished, Running,
       Resumable, Finished, ActiveStatuses
  <2>9. Lives
    BY <1>22, <2>1, <2>2, <2>3 DEF Lives, Lifecycle!vars, PendingVerifies, Lifecycle!Next,
       Lifecycle!Fail, Lifecycle!Become, Lifecycle!Finished, Lifecycle!Resumable,
       Lifecycle!Running, Lifecycle!Dispositions, Running, Resumable, Finished, ActiveStatuses
  <2> QED
    BY <2>4, <2>5, <2>6, <2>7, <2>8, <2>9 DEF Life
<1>23. ASSUME ResumeOpen PROVE Life' /\ Lives
  <2>1. /\ queue # <<>> /\ op \in OpType /\ op.kind = "resume" /\ op.step = "open"
        /\ Range(queue) = {op} \cup Waiting(queue) /\ (Done => Ends)
    BY <1>23, AtResume, TheOp DEF ResumeOpen, ResumeSteps
  <2>2. Ends \/ (queue' # <<>> /\ op'.kind = "resume")
    BY <1>23, <2>1, ResumeOpens DEF ResumeFails, StepsTo, GoesTo
  <2>3. PendingVerifies' /\ AbortFound' /\ ResultSays' /\ ReserveFirst' /\ Lives
    BY <1>23 DEF PendingVerifies, AbortFound, ResultSays, ReserveFirst, Lives, Lifecycle!vars,
       ResumeOpen, durable
  <2>4. Verdict'
    BY <1>23, <2>1, <2>2, NothingRuns DEF Verdict, Settling, ResumeOpen, durable, SettledKind
  <2> QED
    BY <2>3, <2>4 DEF Life
<1>24. ASSUME ResumeBuilt PROVE Life' /\ Lives
  <2>1. /\ queue # <<>> /\ op \in OpType /\ op.kind = "resume" /\ op.step = "build" /\ op.s \in Session
        /\ Range(queue) = {op} \cup Waiting(queue) /\ (Done => Ends)
        /\ Step("latest") => StepsTo("latest")
        /\ Step("swap") => StepsTo("swap")
    BY <1>24, AtResume, TheOp DEF ResumeBuilt, ResumeSteps
  <2>2. Ends \/ (queue' # <<>> /\ op'.kind = "resume")
    BY <1>24, <2>1 DEF ResumeBuilt, ResumeFails, StepsTo, GoesTo
  <2>3. PendingVerifies' /\ AbortFound' /\ ResultSays' /\ ReserveFirst' /\ Lives
    BY <1>24 DEF PendingVerifies, AbortFound, ResultSays, ReserveFirst, Lives, Lifecycle!vars,
       ResumeBuilt, durable
  <2>4. Verdict'
    BY <1>24, <2>1, <2>2, NothingRuns DEF Verdict, Settling, ResumeBuilt, durable, SettledKind
  <2> QED
    BY <2>3, <2>4 DEF Life
<1>25. ASSUME ResumeSwap PROVE Life' /\ Lives
  <2>1. /\ queue # <<>> /\ op \in OpType /\ op.kind = "resume" /\ op.step = "swap" /\ op.s \in Session
        /\ Range(queue) = {op} \cup Waiting(queue) /\ (Done => Ends)
        /\ Step("latest") => StepsTo("latest")
    BY <1>25, AtResume, TheOp DEF ResumeSwap, ResumeSteps
  <2>2. Ends \/ (queue' # <<>> /\ op'.kind = "resume")
    BY <1>25, <2>1 DEF ResumeSwap, ResumeFails, StepsTo, GoesTo
  <2>3. PendingVerifies' /\ AbortFound' /\ ResultSays' /\ ReserveFirst' /\ Lives
    BY <1>25 DEF PendingVerifies, AbortFound, ResultSays, ReserveFirst, Lives, Lifecycle!vars,
       ResumeSwap, durable
  <2>4. Verdict'
    BY <1>25, <2>1, <2>2, NothingRuns DEF Verdict, Settling, ResumeSwap, durable, SettledKind
  <2> QED
    BY <2>3, <2>4 DEF Life
<1>26. ASSUME ResumeLatest PROVE Life' /\ Lives
  <2>1. /\ queue # <<>> /\ op \in OpType /\ op.kind = "resume" /\ op.step = "latest" /\ op.s \in Session
        /\ Range(queue) = {op} \cup Waiting(queue) /\ (Done => Ends)
    BY <1>26, AtResume, TheOp DEF ResumeLatest, ResumeSteps
  <2>2. Ends \/ (queue' # <<>> /\ op'.kind = "resume")
    BY <1>26, <2>1, ResumeReads DEF ResumeFails, StepsTo, GoesTo
  <2>3. PendingVerifies' /\ AbortFound' /\ ResultSays' /\ ReserveFirst' /\ Lives
    BY <1>26 DEF PendingVerifies, AbortFound, ResultSays, ReserveFirst, Lives, Lifecycle!vars,
       ResumeLatest, durable
  <2>4. Verdict'
    BY <1>26, <2>1, <2>2, NothingRuns DEF Verdict, Settling, ResumeLatest, durable, SettledKind
  <2> QED
    BY <2>3, <2>4 DEF Life
<1>27. ASSUME ResumeUpdate PROVE Life' /\ Lives
  <2>1. /\ queue # <<>> /\ op \in OpType /\ op.kind = "resume" /\ op.step = "update" /\ op.s \in Session
        /\ Range(queue) = {op} \cup Waiting(queue) /\ (Done => Ends)
        /\ Step("launch") => StepsTo("launch")
    BY <1>27, AtResume, TheOp DEF ResumeUpdate, ResumeSteps
  <2>2. rec' = rec \/ (/\ MayResume /\ rec'.status = "working"
                       /\ rec'.pending = rec.pending /\ rec'.attempt = rec.attempt + 1)
    BY <1>27 DEF ResumeUpdate, Types, RecType
  <2>3. Ends \/ (queue' # <<>> /\ op'.kind = "resume")
    BY <1>27, <2>1 DEF ResumeUpdate, ResumeFails, StepsTo, GoesTo
  <2>4. ResultSays'
    BY <1>27 DEF ResultSays, ResumeUpdate
  <2>5. PendingVerifies'
    BY <1>27, <2>1, <2>2, <2>3 DEF PendingVerifies, MayResume, Running, Resumable, Finished,
       ActiveStatuses
  <2>6. Verdict'
    BY <1>27, <2>1, <2>2, <2>3, NothingRuns DEF Verdict, Settling, ResumeUpdate, SettledKind
  <2>7. AbortFound'
    BY <1>27, <2>1, <2>2, <2>3 DEF AbortFound, ResumeUpdate, AbortAt, Idle, Running, Resumable,
       Finished, ActiveStatuses
  <2>8. ReserveFirst'
    BY <1>27, <2>1, <2>2, <2>3 DEF ReserveFirst, ResumeUpdate, MayResume, Running, Resumable,
       Finished, ActiveStatuses
  <2>9. Lives
    BY <1>27, <2>1, <2>2, <2>3 DEF Lives, Lifecycle!vars, PendingVerifies, Lifecycle!Next,
       Lifecycle!Resume, Lifecycle!Become, Lifecycle!Finished, Lifecycle!Resumable,
       Lifecycle!Running, Lifecycle!Dispositions, Running, Resumable, Finished, ActiveStatuses,
       MayResume
  <2> QED
    BY <2>4, <2>5, <2>6, <2>7, <2>8, <2>9 DEF Life
<1>28. ASSUME ResumeLaunch PROVE Life' /\ Lives
  <2>1. /\ queue # <<>> /\ op \in OpType /\ op.kind = "resume" /\ op.step = "launch" /\ op.s \in Session
        /\ Range(queue) = {op} \cup Waiting(queue) /\ (Done => Ends)
    BY <1>28, AtResume, TheOp DEF ResumeLaunch, ResumeSteps
  <2>2. Ends \/ (queue' # <<>> => op'.step \in {"start", "settle"})
    BY <1>28, <2>1, Launches, TurnOps DEF Waits, ResumeFails
  <2>3. rec' = rec
    BY <1>28 DEF ResumeLaunch, durable
  <2>4. PendingVerifies' /\ AbortFound' /\ ResultSays' /\ ReserveFirst' /\ Lives
    BY <1>28 DEF PendingVerifies, AbortFound, ResultSays, ReserveFirst, Lives, Lifecycle!vars,
       ResumeLaunch, durable
  <2>5. Verdict'
    BY <1>28, <2>1, <2>2, <2>3, NothingRuns DEF Verdict, Settling
  <2> QED
    BY <2>4, <2>5 DEF Life
<1>29. ASSUME Acknowledge PROVE Life' /\ Lives
  <2>1. /\ queue # <<>> /\ op \in OpType /\ op.kind \in SettledKind /\ op.step = "start" /\ op.s \in Session
        /\ Range(queue) = {op} \cup Waiting(queue) /\ (Done => Ends)
        /\ Step("settle") => StepsTo("settle")
    BY <1>29, AtSettled, TheOp DEF Acknowledge, SettleSteps
  <2>2. rec'.status = rec.status /\ rec'.pending = rec.pending /\ rec'.attempt = rec.attempt
    BY <1>29 DEF Acknowledge, Types, RecType
  <2>3. Ends \/ (queue' # <<>> /\ op'.step = "settle")
    BY <1>29, <2>1 DEF Acknowledge, StepsTo, GoesTo
  <2>4. ResultSays'
    BY <1>29 DEF ResultSays, Acknowledge
  <2>5. PendingVerifies'
    BY <1>29, <2>1, <2>2, <2>3 DEF PendingVerifies, MayResume, Running, Resumable, Finished,
       ActiveStatuses
  <2>6. Verdict'
    BY <1>29, <2>1, <2>2, <2>3, NothingRuns DEF Verdict, Settling, Running, Resumable, Finished,
       ActiveStatuses
  <2>7. AbortFound'
    BY <1>29, <2>1, <2>2, <2>3 DEF AbortFound, Acknowledge, AbortAt, Idle, Running, Resumable,
       Finished, ActiveStatuses
  <2>8. ReserveFirst'
    BY <1>29, <2>1, <2>2, <2>3 DEF ReserveFirst, Acknowledge, SettledAt, At
  <2>9. Lives
    BY <1>29, <2>1, <2>2, <2>3 DEF Lives, Lifecycle!vars, PendingVerifies, Lifecycle!Finished,
       Lifecycle!Resumable, Lifecycle!Running, Lifecycle!Dispositions, Running, Resumable,
       Finished, ActiveStatuses
  <2> QED
    BY <2>4, <2>5, <2>6, <2>7, <2>8, <2>9 DEF Life
<1>30. ASSUME Settle PROVE Life' /\ Lives
  <2>1. /\ queue # <<>> /\ op \in OpType /\ op.kind \in SettledKind /\ op.step = "settle" /\ op.s \in Session
        /\ Range(queue) = {op} \cup Waiting(queue) /\ (Done => Ends)
    BY <1>30, AtSettled, TheOp DEF Settle, SettleSteps
  <2>2. rec' = rec
    BY <1>30 DEF Settle, durable
  <2>3. \/ Ends \/ (queue' # <<>> /\ op'.step \in {"publish", "fail", "block"})
        \/ rec.status = "verifying" /\ rec.pending = "completed"
    BY <1>30, <2>1, SettleChooses DEF StepsTo, GoesTo
  <2>4. PendingVerifies' /\ AbortFound' /\ ResultSays' /\ ReserveFirst' /\ Lives
    BY <1>30 DEF PendingVerifies, AbortFound, ResultSays, ReserveFirst, Lives, Lifecycle!vars,
       Settle, durable
  <2>5. Verdict'
    BY <1>30, <2>1, <2>2, <2>3, NothingRuns DEF Verdict, Settling, Running, Resumable, Finished,
       ActiveStatuses
  <2> QED
    BY <2>4, <2>5 DEF Life
<1>31. ASSUME SettleFail PROVE Life' /\ Lives
  <2>1. /\ queue # <<>> /\ op \in OpType /\ op.kind \in SettledKind /\ op.step = "fail" /\ op.s \in Session
        /\ Range(queue) = {op} \cup Waiting(queue) /\ (Done => Ends)
        /\ Step("retire") => StepsTo("retire")
    BY <1>31, AtSettled, TheOp DEF SettleFail, SettleSteps
  <2>2. rec' = rec \/ (/\ rec.status \in {"queued"} \cup ActiveStatuses /\ rec'.status = "failed"
                       /\ rec'.pending = "none" /\ rec'.attempt = rec.attempt)
    BY <1>31, Becomes DEF SettleFail
  <2>3. Ends \/ (queue' # <<>> /\ op'.step = "retire")
    BY <1>31, <2>1 DEF SettleFail, StepsTo, GoesTo
  <2>4. ResultSays'
    BY <1>31 DEF ResultSays, SettleFail
  <2>5. PendingVerifies'
    BY <1>31, <2>1, <2>2, <2>3 DEF PendingVerifies, MayResume, Running, Resumable, Finished,
       ActiveStatuses
  <2>6. Verdict'
    BY <1>31, <2>1, <2>2, <2>3, NothingRuns DEF Verdict, Settling, Running, Resumable, Finished,
       ActiveStatuses
  <2>7. AbortFound'
    BY <1>31, <2>1, <2>2, <2>3 DEF AbortFound, SettleFail, AbortAt, Idle, Running, Resumable,
       Finished, ActiveStatuses
  <2>8. ReserveFirst'
    BY <1>31, <2>1, <2>2, <2>3 DEF ReserveFirst, SettleFail, MayCall, Unfinished, Running,
       Resumable, Finished, ActiveStatuses
  <2>9. Lives
    BY <1>31, <2>1, <2>2, <2>3 DEF Lives, Lifecycle!vars, PendingVerifies, Lifecycle!Next,
       Lifecycle!Fail, Lifecycle!Become, Lifecycle!Finished, Lifecycle!Resumable,
       Lifecycle!Running, Lifecycle!Dispositions, Running, Resumable, Finished, ActiveStatuses
  <2> QED
    BY <2>4, <2>5, <2>6, <2>7, <2>8, <2>9 DEF Life
<1>32. ASSUME BlockUnsettled PROVE Life' /\ Lives
  <2>1. /\ queue # <<>> /\ op \in OpType /\ op.kind \in SettledKind /\ op.step = "block" /\ op.s \in Session
        /\ Range(queue) = {op} \cup Waiting(queue) /\ (Done => Ends)
    BY <1>32, AtSettled, TheOp DEF BlockUnsettled, SettleSteps
  <2>2. rec' = rec \/ (/\ rec.status \in Running /\ rec'.status = "blocked"
                       /\ rec'.pending = rec.pending /\ rec'.attempt = rec.attempt)
    BY <1>32, Moves DEF BlockUnsettled
  <2>3. ResultSays'
    BY <1>32 DEF ResultSays, BlockUnsettled
  <2>4. PendingVerifies'
    BY <1>32, <2>1, <2>2 DEF PendingVerifies, MayResume, Running, Resumable, Finished,
       ActiveStatuses
  <2>5. Verdict'
    BY <1>32, <2>1, <2>2, NothingRuns, RunsAsBefore, RunsAt DEF Verdict, Settling,
       BlockUnsettled, ResumeFails, Running, Resumable, Finished, ActiveStatuses
  <2>6. AbortFound'
    BY <1>32, <2>1, <2>2 DEF AbortFound, BlockUnsettled, AbortAt, Idle, Running, Resumable,
       Finished, ActiveStatuses
  <2>7. ReserveFirst'
    BY <1>32, <2>1, <2>2 DEF ReserveFirst, BlockUnsettled, MayCall, Unfinished, Running,
       Resumable, Finished, ActiveStatuses
  <2>8. Lives
    BY <1>32, <2>1, <2>2 DEF Lives, Lifecycle!vars, PendingVerifies, Lifecycle!Next,
       Lifecycle!Block, Lifecycle!Become, Lifecycle!Finished, Lifecycle!Resumable,
       Lifecycle!Running, Lifecycle!Dispositions, Running, Resumable, Finished, ActiveStatuses
  <2> QED
    BY <2>3, <2>4, <2>5, <2>6, <2>7, <2>8 DEF Life
<1>33. ASSUME Publish PROVE Life' /\ Lives
  <2>1. /\ queue # <<>> /\ op \in OpType /\ op.kind \in SettledKind /\ op.step = "publish" /\ op.s \in Session
        /\ Range(queue) = {op} \cup Waiting(queue) /\ (Done => Ends)
        /\ Step("retire") => StepsTo("retire")
    BY <1>33, AtSettled, TheOp DEF Publish, SettleSteps
  <2>2. rec' = rec \/ (/\ rec.status = "verifying" /\ rec.pending = op.seen /\ rec'.status = op.seen
                       /\ rec'.pending = "none" /\ rec'.attempt = rec.attempt)
    BY <1>33, Becomes DEF Publish
  <2>3. Ends \/ (queue' # <<>> /\ op'.step = "retire")
    BY <1>33, <2>1 DEF Publish, StepsTo, GoesTo
  <2>4. ResultSays'
    BY <1>33 DEF ResultSays, Publish
  <2>5. PendingVerifies'
    BY <1>33, <2>1, <2>2, <2>3 DEF PendingVerifies, Types, RecType, PendingSet, ResultSet
  <2>6. Verdict'
    BY <1>33, <2>1, <2>2, <2>3, NothingRuns DEF Verdict, Settling, Running, Resumable, Finished,
       ActiveStatuses
  <2>7. AbortFound'
    BY <1>33, <2>1, <2>2, <2>3 DEF AbortFound, Publish, PendingVerifies, Types, RecType, PendingSet
  <2>8. ReserveFirst'
    BY <1>33, <2>1, <2>2, <2>3 DEF ReserveFirst, Publish, SettledAt, At
  <2>9. Lives
    BY <1>33, <2>1, <2>2, <2>3 DEF Lives, Lifecycle!vars, PendingVerifies, Lifecycle!Next,
       Lifecycle!Publish, Lifecycle!Become, Lifecycle!Finished, Lifecycle!Resumable,
       Lifecycle!Running, Lifecycle!Dispositions, Running, Resumable, Finished, ActiveStatuses,
       Types, RecType, PendingSet
  <2> QED
    BY <2>4, <2>5, <2>6, <2>7, <2>8, <2>9 DEF Life
<1>34. ASSUME Verify PROVE Life' /\ Lives
  <2>1. /\ queue # <<>> /\ op \in OpType /\ op.kind \in SettledKind /\ op.step = "verify" /\ op.s \in Session
        /\ Range(queue) = {op} \cup Waiting(queue) /\ (Done => Ends)
    BY <1>34, AtSettled, TheOp DEF Verify, SettleSteps
  <2>2. rec' = rec
    BY <1>34 DEF Verify, durable
  <2>3. PendingVerifies' /\ AbortFound' /\ ResultSays' /\ ReserveFirst' /\ Lives
    BY <1>34 DEF PendingVerifies, AbortFound, ResultSays, ReserveFirst, Lives, Lifecycle!vars,
       Verify, durable
  <2>4. Verdict'
    BY <1>34, <2>1, <2>2, NothingRuns, RunsAsBefore, RunsAt, VerifyChooses DEF Verdict, Settling,
       Running, Resumable, Finished, ActiveStatuses
  <2> QED
    BY <2>3, <2>4 DEF Life
<1>35. ASSUME Accept PROVE Life' /\ Lives
  <2>1. /\ queue # <<>> /\ op \in OpType /\ op.kind \in SettledKind /\ op.step = "accept" /\ op.s \in Session
        /\ Range(queue) = {op} \cup Waiting(queue) /\ (Done => Ends)
        /\ Step("retire") => StepsTo("retire")
        /\ Step("refuse") => StepsTo("refuse")
    BY <1>35, AtSettled, TheOp DEF Accept, SettleSteps
  <2>2. rec' = rec \/ (/\ rec.status = "verifying" /\ rec'.status = "completed"
                       /\ rec'.pending = "none" /\ rec'.attempt = rec.attempt)
    BY <1>35, Becomes DEF Accept
  <2>3. ResultSays'
    BY <1>35 DEF ResultSays, Accept
  <2>4. PendingVerifies'
    BY <1>35, <2>1, <2>2 DEF PendingVerifies, MayResume, Running, Resumable, Finished,
       ActiveStatuses
  <2>5. Verdict'
    BY <1>35, <2>1, <2>2, NothingRuns, RunsAsBefore, RunsAt DEF Verdict, Settling, Accept,
       ResumeFails, Running, Resumable, Finished, ActiveStatuses
  <2>6. AbortFound'
    BY <1>35, <2>1, <2>2 DEF AbortFound, Accept, AbortAt, Idle, Running, Resumable, Finished,
       ActiveStatuses
  <2>7. ReserveFirst'
    BY <1>35, <2>1, <2>2 DEF ReserveFirst, Accept, SettledAt, At
  <2>8. Lives
    BY <1>35, <2>1, <2>2 DEF Lives, Lifecycle!vars, PendingVerifies, Lifecycle!Next,
       Lifecycle!Publish, Lifecycle!Become, Lifecycle!Finished, Lifecycle!Resumable,
       Lifecycle!Running, Lifecycle!Dispositions, Running, Resumable, Finished, ActiveStatuses,
       Verdict, Settling
  <2> QED
    BY <2>3, <2>4, <2>5, <2>6, <2>7, <2>8 DEF Life
<1>36. ASSUME Refuse PROVE Life' /\ Lives
  <2>1. /\ queue # <<>> /\ op \in OpType /\ op.kind \in SettledKind /\ op.step = "refuse" /\ op.s \in Session
        /\ Range(queue) = {op} \cup Waiting(queue) /\ (Done => Ends)
    BY <1>36, AtSettled, TheOp DEF Refuse, SettleSteps
  <2>2. rec' = rec \/ (/\ rec.status = "verifying" /\ rec'.status = "blocked"
                       /\ rec'.pending = "none" /\ rec'.attempt = rec.attempt)
    BY <1>36, Becomes DEF Refuse
  <2>3. ResultSays'
    BY <1>36 DEF ResultSays, Refuse
  <2>4. PendingVerifies'
    BY <1>36, <2>1, <2>2 DEF PendingVerifies, MayResume, Running, Resumable, Finished,
       ActiveStatuses
  <2>5. Verdict'
    BY <1>36, <2>1, <2>2, NothingRuns, RunsAsBefore, RunsAt DEF Verdict, Settling, Refuse,
       ResumeFails, Running, Resumable, Finished, ActiveStatuses
  <2>6. AbortFound'
    BY <1>36, <2>1, <2>2 DEF AbortFound, Refuse, AbortAt, Idle, Running, Resumable, Finished,
       ActiveStatuses
  <2>7. ReserveFirst'
    BY <1>36, <2>1, <2>2 DEF ReserveFirst, Refuse, SettledAt, At
  <2>8. Lives
    BY <1>36, <2>1, <2>2 DEF Lives, Lifecycle!vars, PendingVerifies, Lifecycle!Next,
       Lifecycle!Block, Lifecycle!Become, Lifecycle!Finished, Lifecycle!Resumable,
       Lifecycle!Running, Lifecycle!Dispositions, Running, Resumable, Finished, ActiveStatuses
  <2> QED
    BY <2>3, <2>4, <2>5, <2>6, <2>7, <2>8 DEF Life
<1>37. ASSUME Retire PROVE Life' /\ Lives
  <2>1. /\ queue # <<>> /\ op \in OpType /\ op.kind \in SettledKind /\ op.step = "retire" /\ op.s \in Session
        /\ Range(queue) = {op} \cup Waiting(queue) /\ (Done => Ends)
    BY <1>37, AtSettled, TheOp DEF Retire, SettleSteps
  <2>2. PendingVerifies' /\ AbortFound' /\ ResultSays' /\ ReserveFirst' /\ Lives
    BY <1>37 DEF PendingVerifies, AbortFound, ResultSays, ReserveFirst, Lives, Lifecycle!vars,
       Retire, durable
  <2>3. Verdict'
    BY <1>37, <2>1, NothingRuns, RunsAsBefore, RunsAt DEF Verdict, Settling, Retire, durable,
       ResumeFails, Running, Resumable, Finished, ActiveStatuses
  <2> QED
    BY <2>2, <2>3 DEF Life
<1>38. ASSUME AbortRead PROVE Life' /\ Lives
  <2>1. PendingVerifies' /\ Verdict' /\ ResultSays' /\ ReserveFirst' /\ Lives
    BY <1>38 DEF PendingVerifies, Verdict, Settling, op, ResultSays, ReserveFirst, Lives,
       Lifecycle!vars, AbortRead, durable
  <2>2. AbortFound'
    BY <1>38 DEF AbortFound, AbortRead, durable, AbortAt, Idle, Abortable, Running, Resumable,
       Finished, ActiveStatuses
  <2> QED
    BY <2>1, <2>2 DEF Life
<1>39. ASSUME AbortInterrupt PROVE Life' /\ Lives
  <2>1. rec' = rec \/ (/\ rec.status \notin Finished \cup {"none"} /\ rec'.status = "interrupted"
                       /\ rec'.pending = "none" /\ rec'.attempt = rec.attempt)
    BY <1>39, Becomes DEF AbortInterrupt, Unfinished, Abortable, ActiveStatuses, Resumable, Finished
  <2>2. ResultSays'
    BY <1>39 DEF ResultSays, AbortInterrupt
  <2>3. PendingVerifies'
    BY <1>39, <2>1 DEF PendingVerifies, MayResume, Running, Resumable, Finished, ActiveStatuses
  <2>4. Verdict'
    BY <1>39, <2>1 DEF Verdict, Settling, op, AbortInterrupt, Running, Resumable, Finished,
       ActiveStatuses
  <2>5. AbortFound'
    BY <1>39, <2>1 DEF AbortFound, AbortInterrupt, AbortAt, Idle, Running, Resumable, Finished,
       ActiveStatuses
  <2>6. ReserveFirst'
    BY <1>39, <2>1 DEF ReserveFirst, AbortInterrupt, MayResume, Running, Resumable, Finished,
       ActiveStatuses
  <2>7. Lives
    BY <1>39, <2>1 DEF Lives, Lifecycle!vars, PendingVerifies, Lifecycle!Next,
       Lifecycle!Interrupt, Lifecycle!Become, Lifecycle!Finished, Lifecycle!Resumable,
       Lifecycle!Running, Lifecycle!Dispositions, Running, Resumable, Finished, ActiveStatuses,
       AbortFound, AbortInterrupt, AbortAt
  <2> QED
    BY <2>2, <2>3, <2>4, <2>5, <2>6, <2>7 DEF Life
<1>40. ASSUME AbortStop PROVE Life' /\ Lives
  <2>1. PendingVerifies' /\ Verdict' /\ ResultSays' /\ ReserveFirst' /\ Lives
    BY <1>40 DEF PendingVerifies, Verdict, Settling, op, ResultSays, ReserveFirst, Lives,
       Lifecycle!vars, AbortStop, durable
  <2>2. AbortFound'
    BY <1>40 DEF AbortFound, AbortStop, durable, AbortAt, Idle
  <2> QED
    BY <2>1, <2>2 DEF Life
<1>41. ASSUME PauseActive PROVE Life' /\ Lives
  <2>1. queue' = queue \/ (Gains({Op("pause")}) /\ Op("pause").step = "start" /\ Op("pause").kind = "pause")
    BY <1>41, NewOps, OpQueued DEF PauseActive, Enqueue, Op
  <2>2. PendingVerifies' /\ AbortFound' /\ ResultSays' /\ ReserveFirst' /\ Lives
    BY <1>41 DEF PendingVerifies, AbortFound, ResultSays, ReserveFirst, Lives, Lifecycle!vars,
       PauseActive, durable
  <2>3. Verdict'
    BY <1>41, <2>1, NothingRuns, RunsAsBefore, RunsAt DEF Verdict, Settling, PauseActive,
       durable, op
  <2> QED
    BY <2>2, <2>3 DEF Life
<1>42. ASSUME NEW s \in Session, Write(s) PROVE Life' /\ Lives
  <2>1. PendingVerifies' /\ Verdict' /\ AbortFound' /\ ResultSays' /\ ReserveFirst' /\ Lives
    BY <1>42 DEF PendingVerifies, Verdict, Settling, op, AbortFound, ResultSays, ReserveFirst,
       Lives, Lifecycle!vars, Write, control
  <2> QED
    BY <2>1 DEF Life
<1>43. ASSUME NEW s \in Session, EndTurn(s) PROVE Life' /\ Lives
  <2>1. rec' = rec
    BY <1>43 DEF EndTurn, durable
  <2>2. \A o \in Ended(s) : o.step \in {"start", "settle"}
    BY EndedOps
  <2>3. PendingVerifies' /\ AbortFound' /\ ResultSays' /\ ReserveFirst' /\ Lives
    BY <1>43 DEF PendingVerifies, AbortFound, ResultSays, ReserveFirst, Lives, Lifecycle!vars,
       EndTurn, durable
  <2>4. Verdict'
    BY <1>43, <2>1, <2>2, TurnEnds, RunsAsBefore DEF Verdict, Settling
  <2> QED
    BY <2>3, <2>4 DEF Life
<1>44. ASSUME NEW s \in Session, StopSession(s) PROVE Life' /\ Lives
  <2>1. PendingVerifies' /\ Verdict' /\ AbortFound' /\ ResultSays' /\ ReserveFirst' /\ Lives
    BY <1>44 DEF PendingVerifies, Verdict, Settling, op, AbortFound, ResultSays, ReserveFirst,
       Lives, Lifecycle!vars, StopSession, durable, control
  <2> QED
    BY <2>1 DEF Life
<1>45. ASSUME NEW s \in Session, CommitBegin(s) PROVE Life' /\ Lives
  <2>1. PendingVerifies' /\ Verdict' /\ AbortFound' /\ ResultSays' /\ ReserveFirst' /\ Lives
    BY <1>45 DEF PendingVerifies, Verdict, Settling, op, AbortFound, ResultSays, ReserveFirst,
       Lives, Lifecycle!vars, CommitBegin, durable, control
  <2> QED
    BY <2>1 DEF Life
<1>46. ASSUME NEW s \in Session, ProgressPaused(s) PROVE Life' /\ Lives
  <2>1. rec.status = "pause_requested" /\ rec'.status = "verifying" /\ rec'.pending = "paused" /\ rec'.attempt = rec.attempt
    BY <1>46 DEF ProgressPaused, Types, RecType
  <2>2. ResultSays'
    BY <1>46 DEF ResultSays, ProgressPaused
  <2>3. PendingVerifies'
    BY <1>46, <2>1 DEF PendingVerifies, MayResume, Running, Resumable, Finished, ActiveStatuses
  <2>4. Verdict'
    BY <1>46, <2>1 DEF Verdict, Settling, op, ProgressPaused, control, Running, Resumable,
       Finished, ActiveStatuses
  <2>5. AbortFound'
    BY <1>46, <2>1 DEF AbortFound, ProgressPaused, control, AbortAt, Idle, Running, Resumable,
       Finished, ActiveStatuses
  <2>6. ReserveFirst'
    BY <1>46, <2>1 DEF ReserveFirst, ProgressPaused, MayCall, control
  <2>7. Lives
    BY <1>46, <2>1 DEF Lives, Lifecycle!vars, PendingVerifies, Lifecycle!Next, Lifecycle!Submit,
       Lifecycle!Become, Lifecycle!Finished, Lifecycle!Resumable, Lifecycle!Running,
       Lifecycle!Dispositions, Running, Resumable, Finished, ActiveStatuses
  <2> QED
    BY <2>2, <2>3, <2>4, <2>5, <2>6, <2>7 DEF Life
<1>47. ASSUME NEW s \in Session, Escalate(s) PROVE Life' /\ Lives
  <2>1. rec.status \in Running /\ rec'.status = "verifying" /\ rec'.pending = "blocked" /\ rec'.attempt = rec.attempt
    BY <1>47 DEF Escalate, MayCall, Types, RecType
  <2>2. ResultSays'
    BY <1>47 DEF ResultSays, Escalate
  <2>3. PendingVerifies'
    BY <1>47, <2>1 DEF PendingVerifies, MayResume, Running, Resumable, Finished, ActiveStatuses
  <2>4. Verdict'
    BY <1>47, <2>1 DEF Verdict, Settling, op, Escalate, control, Running, Resumable, Finished,
       ActiveStatuses
  <2>5. AbortFound'
    BY <1>47, <2>1 DEF AbortFound, Escalate, control, AbortAt, Idle, Running, Resumable,
       Finished, ActiveStatuses
  <2>6. ReserveFirst'
    BY <1>47, <2>1 DEF ReserveFirst, Escalate, control, MayCall, Unfinished, Running, Resumable,
       Finished, ActiveStatuses
  <2>7. Lives
    BY <1>47, <2>1 DEF Lives, Lifecycle!vars, PendingVerifies, Lifecycle!Next, Lifecycle!Submit,
       Lifecycle!Become, Lifecycle!Finished, Lifecycle!Resumable, Lifecycle!Running,
       Lifecycle!Dispositions, Running, Resumable, Finished, ActiveStatuses
  <2> QED
    BY <2>2, <2>3, <2>4, <2>5, <2>6, <2>7 DEF Life
<1>48. ASSUME NEW s \in Session, CompleteBegin(s) PROVE Life' /\ Lives
  <2>1. PendingVerifies' /\ Verdict' /\ AbortFound' /\ ResultSays' /\ ReserveFirst' /\ Lives
    BY <1>48 DEF PendingVerifies, Verdict, Settling, op, AbortFound, ResultSays, ReserveFirst,
       Lives, Lifecycle!vars, CompleteBegin, durable, control
  <2> QED
    BY <2>1 DEF Life
<1>49. ASSUME NEW s \in Session, Commit(s) PROVE Life' /\ Lives
  <2>1. PendingVerifies' /\ Verdict' /\ AbortFound' /\ ResultSays' /\ ReserveFirst' /\ Lives
    BY <1>49 DEF PendingVerifies, Verdict, Settling, op, AbortFound, ResultSays, ReserveFirst,
       Lives, Lifecycle!vars, Commit, control
  <2> QED
    BY <2>1 DEF Life
<1>50. ASSUME NEW s \in Session, CompleteVerify(s) PROVE Life' /\ Lives
  <2>1. PendingVerifies' /\ Verdict' /\ AbortFound' /\ ResultSays' /\ ReserveFirst' /\ Lives
    BY <1>50 DEF PendingVerifies, Verdict, Settling, op, AbortFound, ResultSays, ReserveFirst,
       Lives, Lifecycle!vars, CompleteVerify, durable, control
  <2> QED
    BY <2>1 DEF Life
<1>51. ASSUME NEW s \in Session, CompleteWrite(s) PROVE Life' /\ Lives
  <2>1. PendingVerifies' /\ Verdict' /\ AbortFound' /\ ResultSays' /\ ReserveFirst' /\ Lives
    BY <1>51 DEF PendingVerifies, Verdict, Settling, op, AbortFound, ResultSays, ReserveFirst,
       Lives, Lifecycle!vars, CompleteWrite, durable, control
  <2> QED
    BY <2>1 DEF Life
<1>52. ASSUME NEW s \in Session, CompleteWritten(s) PROVE Life' /\ Lives
  <2>1. PendingVerifies' /\ Verdict' /\ AbortFound' /\ ReserveFirst' /\ Lives
    BY <1>52 DEF PendingVerifies, Verdict, Settling, op, AbortFound, ReserveFirst, Lives,
       Lifecycle!vars, CompleteWritten, control
  <2>2. ResultSays'
    BY <1>52 DEF ResultSays, CompleteWritten, CallAt, Types, CbType, NoResult
  <2> QED
    BY <2>1, <2>2 DEF Life
<1>53. ASSUME NEW s \in Session, CompleteUpdate(s) PROVE Life' /\ Lives
  <2>1. rec' = rec \/ (/\ rec.status \in Running /\ rec'.status = "verifying" /\ rec'.pending = cb[s].status
                       /\ rec'.attempt = rec.attempt /\ cb[s].status \in ResultSet \ {"none"})
    BY <1>53 DEF CompleteUpdate, CallAt, CbType, Types, RecType
  <2>2. ResultSays'
    BY <1>53 DEF ResultSays, CompleteUpdate
  <2>3. PendingVerifies'
    BY <1>53, <2>1 DEF PendingVerifies, MayResume, Running, Resumable, Finished, ActiveStatuses
  <2>4. Verdict'
    BY <1>53, <2>1 DEF Verdict, Settling, op, CompleteUpdate, control, Running, Resumable,
       Finished, ActiveStatuses
  <2>5. AbortFound'
    BY <1>53, <2>1 DEF AbortFound, CompleteUpdate, control, AbortAt, Idle, Running, Resumable,
       Finished, ActiveStatuses
  <2>6. ReserveFirst'
    BY <1>53, <2>1 DEF ReserveFirst, CompleteUpdate, control, MayCall, Unfinished, Running,
       Resumable, Finished, ActiveStatuses
  <2>7. Lives
    BY <1>53, <2>1 DEF Lives, Lifecycle!vars, PendingVerifies, Lifecycle!Next, Lifecycle!Submit,
       Lifecycle!Become, Lifecycle!Finished, Lifecycle!Resumable, Lifecycle!Running,
       Lifecycle!Dispositions, Running, Resumable, Finished, ActiveStatuses, ResultSet
  <2> QED
    BY <2>2, <2>3, <2>4, <2>5, <2>6, <2>7 DEF Life
<1>54. ASSUME NEW s \in Session, CompleteClean(s) PROVE Life' /\ Lives
  <2>1. PendingVerifies' /\ Verdict' /\ AbortFound' /\ ReserveFirst' /\ Lives
    BY <1>54 DEF PendingVerifies, Verdict, Settling, op, AbortFound, ReserveFirst, Lives,
       Lifecycle!vars, CompleteClean, control
  <2>2. ResultSays'
    BY <1>54 DEF ResultSays, CompleteClean, CallAt
  <2> QED
    BY <2>1, <2>2 DEF Life
<1>55. ASSUME Crash PROVE Life' /\ Lives
  <2>1. PendingVerifies' /\ ResultSays' /\ Lives
    BY <1>55 DEF PendingVerifies, ResultSays, Lives, Lifecycle!vars, Crash
  <2>2. Verdict'
    BY <1>55 DEF Verdict, Settling, Crash
  <2>3. AbortFound'
    BY <1>55 DEF AbortFound, Crash, Idle
  <2>4. ReserveFirst'
    BY <1>55 DEF ReserveFirst, Crash, Idle
  <2> QED
    BY <2>1, <2>2, <2>3, <2>4 DEF Life
<1>56. ASSUME Reconcile PROVE Life' /\ Lives
  <2>1. rec.status \in Running \cup {"verifying"} \/ rec' = rec
    BY <1>56 DEF Reconcile
  <2>2. \/ rec' = rec
        \/ /\ rec'.pending = "none" /\ rec'.attempt = rec.attempt
           /\ \/ rec'.status = "paused" /\ rec.pending = "paused"
              \/ rec'.status = "blocked"
              \/ /\ rec'.status = result.status /\ rec.pending \in {"none", result.status}
                 /\ result # NoResult /\ result.status \in ResultSet
    BY <1>56, Becomes DEF Reconcile, ResultStands, ResultOfAttempt, Types, RecType, ResultType
  <2>3. ResultSays'
    BY <1>56 DEF ResultSays, Reconcile
  <2>4. PendingVerifies'
    BY <1>56, <2>1, <2>2 DEF PendingVerifies, Reconcile, ResultSet
  <2>5. Verdict'
    BY <1>56, <2>1, <2>2 DEF Verdict, Settling, op, Reconcile, control, Running, Resumable,
       Finished, ActiveStatuses
  <2>6. AbortFound'
    BY <1>56, <2>1, <2>2 DEF AbortFound, Reconcile, control, Rest, Idle
  <2>7. ReserveFirst'
    BY <1>56, <2>1, <2>2 DEF ReserveFirst, Reconcile, control, MayResume, Running, Resumable,
       Finished, ActiveStatuses
  <2>8. Lives
    BY <1>56, <2>1, <2>2 DEF Lives, Lifecycle!vars, PendingVerifies, Lifecycle!Finished,
       Lifecycle!Resumable, Lifecycle!Running, Lifecycle!Dispositions, Running, Resumable,
       Finished, ActiveStatuses, ResultSet, ResultSays, Lifecycle!Next, Lifecycle!Publish,
       Lifecycle!Reconcile, Lifecycle!Block, Lifecycle!Become
  <2> QED
    BY <2>3, <2>4, <2>5, <2>6, <2>7, <2>8 DEF Life
<1>57. ASSUME Recover PROVE Life' /\ Lives
  <2>1. rec' = rec \/ (/\ Unfinished(rec.status) /\ rec'.pending = "none" /\ rec'.attempt = rec.attempt
                       /\ \/ rec'.status = "failed"
                          \/ rec'.status = "interrupted" /\ rec.status \in ActiveStatuses)
    BY <1>57, Becomes DEF Recover, Unfinished, ActiveStatuses, Finished
  <2>2. ResultSays'
    BY <1>57 DEF ResultSays, Recover
  <2>3. PendingVerifies'
    BY <1>57, <2>1 DEF PendingVerifies, MayResume, Running, Resumable, Finished, ActiveStatuses
  <2>4. Verdict'
    BY <1>57, <2>1 DEF Verdict, Settling, op, Recover, control, Running, Resumable, Finished,
       ActiveStatuses
  <2>5. AbortFound'
    BY <1>57, <2>1 DEF AbortFound, Recover, control, AbortAt, Idle, Running, Resumable, Finished,
       ActiveStatuses
  <2>6. ReserveFirst'
    BY <1>57, <2>1 DEF ReserveFirst, Recover, control, MayCall, Unfinished, Running, Resumable,
       Finished, ActiveStatuses
  <2>7. Lives
    BY <1>57, <2>1 DEF Lives, Lifecycle!vars, PendingVerifies, Lifecycle!Finished,
       Lifecycle!Resumable, Lifecycle!Running, Lifecycle!Dispositions, Running, Resumable,
       Finished, ActiveStatuses, Unfinished, Lifecycle!Next, Lifecycle!Fail, Lifecycle!Interrupt,
       Lifecycle!Become
  <2> QED
    BY <2>2, <2>3, <2>4, <2>5, <2>6, <2>7 DEF Life
<1> QED
  BY <1>1, <1>2, <1>3, <1>4, <1>5, <1>6, <1>7, <1>8, <1>9, <1>10, <1>11, <1>12, <1>13, <1>14,
     <1>15, <1>16, <1>17, <1>18, <1>19, <1>20, <1>21, <1>22, <1>23, <1>24, <1>25, <1>26, <1>27,
     <1>28, <1>29, <1>30, <1>31, <1>32, <1>33, <1>34, <1>35, <1>36, <1>37, <1>38, <1>39, <1>40,
     <1>41, <1>42, <1>43, <1>44, <1>45, <1>46, <1>47, <1>48, <1>49, <1>50, <1>51, <1>52, <1>53,
     <1>54, <1>55, <1>56, <1>57 DEF Next, Creating, Operating, Queued, Aborting, Calling, Called,
     Restarting

\* No session, operation or callback exists at first.
LEMMA LifeInit == Init => Order /\ Life
<1> SUFFICES ASSUME Init PROVE Order /\ Life
  OBVIOUS
<1>1. Range(queue) = {} /\ Waiting(queue) = {} /\ queue = <<>> /\ create = Idle /\ abort = Idle
  BY EmptyQueue DEF Init
<1>2. Order
  BY <1>1 DEF Init, Order, Rest, Waits, Supersedes
<1>3. Life
  BY <1>1 DEF Init, Life, PendingVerifies, Verdict, Settling, AbortFound, ResultSays, ReserveFirst, Idle, NoResult
<1> QED
  BY <1>2, <1>3

\* A step that changes no variable keeps every part.
LEMMA LifeStutter ==
  ASSUME Types, Order, Life, UNCHANGED vars
  PROVE  (Order /\ Life)' /\ Lives
<1>1. /\ rec' = rec /\ result' = result /\ mode' = mode /\ queue' = queue /\ create' = create
      /\ abort' = abort /\ pausing' = pausing /\ live' = live /\ managed' = managed
      /\ sess' = sess /\ cb' = cb
  BY DEF vars, durable, sessions, control
<1>2. Order'
  BY <1>1 DEF Order, Rest, Waits, Supersedes
<1>3. Life'
  BY <1>1 DEF Life, PendingVerifies, Verdict, Settling, op, AbortFound, ResultSays, ReserveFirst
<1>4. Lives
  BY <1>1 DEF Lives, Lifecycle!vars
<1> QED
  BY <1>2, <1>3, <1>4

\* The order of the operations and the life of the record are invariant.
LEMMA LifeInvariant == Spec => [](Types /\ Order /\ Life)
<1>1. Types /\ Types' /\ Order /\ Life /\ [Next]_vars => (Order /\ Life)'
  BY OrderStep, LifeStep, LifeStutter
<1>2. Init => Order /\ Life
  BY LifeInit
<1> QED
  BY <1>1, <1>2, TypesInvariant, PTL DEF Spec

\* The record lives the life that WorkerLifecycle promises, whatever the sessions, the
\* operators and the crashes do around it.
THEOREM WorkerImplementsLifecycle == Spec => ImplementsLifecycle
<1>1. Init => Lifecycle!Init
  BY DEF Init, Lifecycle!Init
<1>2. Types /\ Order /\ Life /\ [Next]_vars => [Lifecycle!Next]_(Lifecycle!vars)
  BY LifeStep, LifeStutter DEF Lives
<1> QED
  BY <1>1, <1>2, LifeInvariant, PTL DEF Spec, ImplementsLifecycle, Lifecycle!Spec

\* What WorkerLifecycle promises of the record holds in every behaviour of it, with any number
\* of attempts: the types of the record and the coherence that assertProjectState demands, a
\* disposition pending exactly while the Worker verifies.  It never refuses what the
\* controller itself wrote.
THEOREM LifecycleInvariant == Lifecycle!Spec => [](Lifecycle!TypeOK /\ Lifecycle!Coherent)
<1> DEFINE I == Lifecycle!TypeOK /\ Lifecycle!Coherent
<1> USE DEF Lifecycle!TypeOK, Lifecycle!Coherent, Lifecycle!Statuses, Lifecycle!Dispositions
<1>1. Lifecycle!Init => I
  BY DEF Lifecycle!Init
<1>2. I /\ Lifecycle!Next => I'
  BY DEF Lifecycle!Next, Lifecycle!Reserve, Lifecycle!Start, Lifecycle!Begin, Lifecycle!AskPause,
         Lifecycle!Submit, Lifecycle!Publish, Lifecycle!Block, Lifecycle!Reconcile, Lifecycle!Interrupt,
         Lifecycle!Fail, Lifecycle!Resume, Lifecycle!Integrate, Lifecycle!Conflict, Lifecycle!Become
<1>3. I /\ UNCHANGED (Lifecycle!vars) => I'
  BY DEF Lifecycle!vars
<1> QED
  BY <1>1, <1>2, <1>3, PTL DEF Lifecycle!Spec

\* No step of the record leads out of `failed' or `integrated', and out of `completed' only
\* integration leads; one that stopped runs again only under a new attempt identity.
THEOREM LifecycleMovesForward == Lifecycle!Spec => Lifecycle!MovesForward
<1> DEFINE Final == /\ rec.status \in {"failed", "integrated"} => UNCHANGED (Lifecycle!vars)
                    /\ rec.status = "completed" => (rec.status)' \in {"completed", "integrated", "blocked"}
           Anew == (rec.status)' \in Lifecycle!Running \cup {"verifying"}
                       /\ rec.status \in Lifecycle!Resumable
                       => (rec.attempt)' = rec.attempt + 1
<1>1. Lifecycle!Next => Final /\ Anew
  BY DEF Lifecycle!Next, Lifecycle!Reserve, Lifecycle!Start, Lifecycle!Begin, Lifecycle!AskPause,
         Lifecycle!Submit, Lifecycle!Publish, Lifecycle!Block, Lifecycle!Reconcile, Lifecycle!Interrupt,
         Lifecycle!Fail, Lifecycle!Resume, Lifecycle!Integrate, Lifecycle!Conflict, Lifecycle!Become,
         Lifecycle!Finished, Lifecycle!Resumable, Lifecycle!Running
<1>2. [Lifecycle!Next]_(Lifecycle!vars) => [Final]_(Lifecycle!vars) /\ [Anew]_(Lifecycle!vars)
  BY <1>1
<1> QED
  BY <1>2, PTL DEF Lifecycle!Spec, Lifecycle!MovesForward, Lifecycle!FinishedIsFinal,
     Lifecycle!OnlyFreshAttemptsRun

\* However late a callback, an abort or a restart comes, the record of the detailed
\* controller only goes on: a finished Worker is not reopened, a stopped one works again
\* under a new attempt alone, and a disposition is pending exactly while it verifies.
THEOREM WorkerMovesForward == Spec => Lifecycle!MovesForward /\ []Lifecycle!Coherent
BY WorkerImplementsLifecycle, LifecycleInvariant, LifecycleMovesForward, PTL DEF ImplementsLifecycle

-----------------------------------------------------------------------------
(* What a step does to the sessions *)

\* No session is undone, begins a turn, or is told to stop that did not run.
Eased ==
    \A s \in Session :
        /\ sess[s] # "none" => sess'[s] # "none"
        /\ sess'[s] = "busy" => sess[s] = "busy"
        /\ sess'[s] = "stopping" => Runs(s)

\* Session s is stopped, or gone, and the others are what they were.
Stops(s) ==
    /\ \A t \in Session : t # s => sess'[t] = sess[t]
    /\ sess'[s] \in {"stopping", "gone"} /\ (sess'[s] = "stopping" => Runs(s))

\* ... and it is neither current nor attached any longer.
Drops(s) ==
    /\ s \in Session /\ Stops(s)
    /\ live' # s /\ (live' = live \/ live' = 0) /\ (live # s => live' = live)
    /\ managed'.s # s /\ (managed' = managed \/ (managed' = NoRuntime /\ managed.s = s))

\* Disposing of a session stops it.
LEMMA DisposedStops ==
  ASSUME Types, NEW s \in Session, sess' = Disposed(s)
  PROVE  Stops(s)
<1>1. \A t \in Session : t # s => sess'[t] = sess[t]
  BY DEF Types, Disposed
<1>2. sess'[s] = IF sess[s] \in {"busy", "stopping"} THEN "stopping" ELSE "gone"
  BY DEF Types, Disposed
<1> QED
  BY <1>1, <1>2 DEF Stops, Runs

\* Invalidating and disposing of a session drops it.
LEMMA Dropped ==
  ASSUME Types, NEW s \in Session, Invalidate(s), Dispose(s)
  PROVE  Drops(s)
<1>1. Stops(s)
  BY DisposedStops DEF Dispose
<1>2. s # 0
  BY BoundsAreSane DEF Session
<1>3. live' # s /\ (live' = live \/ live' = 0) /\ (live # s => live' = live)
  BY <1>2 DEF Invalidate
<1>4. managed'.s # s /\ (managed' = managed \/ (managed' = NoRuntime /\ managed.s = s))
  BY <1>2 DEF Dispose, NoRuntime
<1> QED
  BY <1>1, <1>3, <1>4 DEF Drops

\* A step that stops a session eases the sessions ...
LEMMA StopsEase ==
  ASSUME NEW s, Stops(s)
  PROVE  Eased
BY DEF Stops, Eased, Runs

\* ... and so does one that leaves them alone ...
LEMMA SameEase ==
  ASSUME sess' = sess
  PROVE  Eased
BY DEF Eased, Runs

\* ... or makes one.
LEMMA Makes ==
  ASSUME Types, MakeSession
  PROVE  /\ Eased /\ Fresh \in Session /\ sess[Fresh] = "none" /\ live' = Fresh
         /\ sess'[Fresh] = "building" /\ \A t \in Session : t # Fresh => sess'[t] = sess[t]
<1>1. /\ Fresh \in Session /\ sess[Fresh] = "none" /\ live' = Fresh
      /\ sess' = [sess EXCEPT ![Fresh] = "building"]
  BY Made
<1>2. sess'[Fresh] = "building" /\ \A t \in Session : t # Fresh => sess'[t] = sess[t]
  BY <1>1 DEF Types
<1> QED
  BY <1>1, <1>2 DEF Eased, Runs

\* A resume that fails: the session that it made goes.
LEMMA ResumeFailed ==
  ASSUME Types, queue # <<>>, op.s \in Session, ResumeFails
  PROVE  /\ Ends /\ Eased
         /\ UNCHANGED <<live, managed, sess>> \/ (op.made /\ Drops(op.s))
<1>1. CASE op.made
  <2>1. Drops(op.s)
    BY <1>1, Dropped DEF ResumeFails
  <2>2. Eased
    BY <2>1, StopsEase DEF Drops
  <2> QED
    BY <1>1, <2>1, <2>2, OpEnds DEF ResumeFails
<1>2. CASE ~op.made
  BY <1>2, OpEnds, SameEase DEF ResumeFails
<1> QED
  BY <1>1, <1>2

\* The session of a start is attached, or waits for the attached one to stop, or fails.
LEMMA CreateBuilds ==
  ASSUME Types, CreateBuilt
  PROVE  /\ create.s \in Session /\ create.step = "build" /\ live' = live /\ create'.s = create.s
         /\ sess'[create.s] \in {"idle", "gone"}
         /\ \A t \in Session : t # create.s /\ t # managed.s => sess'[t] = sess[t]
         /\ \/ /\ live = create.s /\ managed.s = 0 /\ managed'.s = create.s
               /\ create'.step = "begin"
            \/ /\ live = create.s /\ managed.s \in Session /\ managed' = managed
               /\ create'.step = "swap"
               /\ managed.s # create.s =>
                     sess'[managed.s] \in {"stopping", "gone"}
                     /\ (sess'[managed.s] = "stopping" => Runs(managed.s))
            \/ /\ managed' = managed /\ create'.step = "fail"
               /\ managed.s \in Session /\ managed.s # create.s => sess'[managed.s] = sess[managed.s]
<1>1. create.s \in Session /\ create.step = "build"
  BY DEF CreateBuilt, CreateAt, Types, CreateType
<1>2. /\ live' = live
      /\ \A v : CreateTo(v) => create'.step = v /\ create'.s = create.s
  BY Creates DEF CreateBuilt
<1>3. CASE /\ live = create.s /\ managed.s = 0
           /\ sess' = [sess EXCEPT ![create.s] = "idle"]
           /\ managed' = [NoRuntime EXCEPT !.s = create.s]
           /\ CreateTo("begin")
  <2>1. sess'[create.s] = "idle" /\ \A t \in Session : t # create.s => sess'[t] = sess[t]
    BY <1>1, <1>3 DEF Types
  <2>2. managed'.s = create.s
    BY <1>3 DEF NoRuntime
  <2> QED
    BY <1>1, <1>2, <1>3, <2>1, <2>2
<1>4. CASE /\ live = create.s /\ managed.s # 0
           /\ sess' = [Disposed(managed.s) EXCEPT ![create.s] = "idle"]
           /\ CreateTo("swap") /\ UNCHANGED managed
  <2>1. managed.s \in Session
    BY <1>4, BoundsAreSane DEF Types, ManagedType, Session
  <2> DEFINE d == Disposed(managed.s)
  <2>2. d \in [Session -> SessSet]
    BY <2>1, Writes DEF Session
  <2>3. /\ \A t \in Session : t # managed.s => d[t] = sess[t]
        /\ d[managed.s] \in {"stopping", "gone"} /\ (d[managed.s] = "stopping" => Runs(managed.s))
    BY <2>1 DEF Types, Disposed, Runs
  <2> HIDE DEF d
  <2>4. sess' = [d EXCEPT ![create.s] = "idle"]
    BY <1>4 DEF d
  <2>5. sess'[create.s] = "idle" /\ \A t \in Session : t # create.s => sess'[t] = d[t]
    BY <1>1, <2>2, <2>4
  <2> QED
    BY <1>1, <1>2, <1>4, <2>1, <2>3, <2>5
<1>5. CASE sess' = [sess EXCEPT ![create.s] = "gone"] /\ CreateTo("fail") /\ UNCHANGED managed
  <2>1. sess'[create.s] = "gone" /\ \A t \in Session : t # create.s => sess'[t] = sess[t]
    BY <1>1, <1>5 DEF Types
  <2> QED
    BY <1>1, <1>2, <1>5, <2>1
<1> QED
  BY <1>3, <1>4, <1>5 DEF CreateBuilt

\* The same for the session that a resume made.
LEMMA ResumeBuilds ==
  ASSUME Types, ResumeBuilt
  PROVE  /\ queue # <<>> /\ op.kind = "resume" /\ op.step = "build" /\ op.s \in Session
         /\ \/ ResumeFails
            \/ /\ ~op.stale /\ live = op.s /\ live' = live /\ sess'[op.s] = "idle"
               /\ \A t \in Session : t # op.s /\ t # managed.s => sess'[t] = sess[t]
               /\ \/ managed.s = 0 /\ managed'.s = op.s /\ StepsTo("latest")
                  \/ /\ managed.s \in Session /\ managed' = managed /\ StepsTo("swap")
                     /\ managed.s # op.s =>
                           sess'[managed.s] \in {"stopping", "gone"}
                           /\ (sess'[managed.s] = "stopping" => Runs(managed.s))
<1>1. /\ queue # <<>> /\ op \in OpType /\ op.kind = "resume" /\ op.step = "build" /\ op.s \in Session
      /\ \A w \in {"swap", "latest"} : Step(w) => StepsTo(w)
  BY AtResume DEF ResumeBuilt, ResumeSteps
<1>3. CASE /\ ~op.stale /\ live = op.s /\ managed.s = 0
           /\ sess' = [sess EXCEPT ![op.s] = "idle"]
           /\ managed' = [NoRuntime EXCEPT !.s = op.s]
           /\ Step("latest") /\ UNCHANGED live
  <2>1. sess'[op.s] = "idle" /\ \A t \in Session : t # op.s => sess'[t] = sess[t]
    BY <1>1, <1>3 DEF Types
  <2>2. managed'.s = op.s
    BY <1>3 DEF NoRuntime
  <2> QED
    BY <1>1, <1>3, <2>1, <2>2
<1>4. CASE /\ ~op.stale /\ live = op.s /\ managed.s # 0
           /\ sess' = [Disposed(managed.s) EXCEPT ![op.s] = "idle"]
           /\ Step("swap") /\ UNCHANGED <<live, managed>>
  <2>1. managed.s \in Session
    BY <1>4, BoundsAreSane DEF Types, ManagedType, Session
  <2> DEFINE d == Disposed(managed.s)
  <2>2. d \in [Session -> SessSet]
    BY <2>1, Writes DEF Session
  <2>3. /\ \A t \in Session : t # managed.s => d[t] = sess[t]
        /\ d[managed.s] \in {"stopping", "gone"} /\ (d[managed.s] = "stopping" => Runs(managed.s))
    BY <2>1 DEF Types, Disposed, Runs
  <2> HIDE DEF d
  <2>4. sess' = [d EXCEPT ![op.s] = "idle"]
    BY <1>4 DEF d
  <2>5. sess'[op.s] = "idle" /\ \A t \in Session : t # op.s => sess'[t] = d[t]
    BY <1>1, <2>2, <2>4
  <2> QED
    BY <1>1, <1>4, <2>1, <2>3, <2>5
<1> QED
  BY <1>1, <1>3, <1>4 DEF ResumeBuilt

\* An abort finds nothing that it can stop, or stops the attached session.
LEMMA Interrupts ==
  ASSUME Types, AbortInterrupt
  PROVE  /\ managed' = managed /\ Eased
         /\ \/ /\ UNCHANGED <<live, sess>> /\ abort' = Idle
               /\ rec' = rec \/ managed.s = 0
            \/ /\ managed.s \in Session /\ Stops(managed.s)
               /\ live' # managed.s /\ (live' = live \/ live' = 0)
               /\ abort'.step = "stop" /\ abort'.s = managed.s
               /\ rec'.status = "interrupted" /\ rec.status \in ActiveStatuses \cup Resumable
<1>1. CASE managed.s = 0
  BY <1>1, SameEase DEF AbortInterrupt
<1>2. CASE managed.s # 0 /\ ~Abortable(rec.status)
  BY <1>2, SameEase DEF AbortInterrupt
<1>3. CASE managed.s # 0 /\ Abortable(rec.status)
  <2>1. managed.s \in Session /\ managed.s # 0
    BY <1>3, BoundsAreSane DEF Types, ManagedType, Session
  <2>2. /\ Become("interrupted") /\ Invalidate(managed.s) /\ sess' = Disposed(managed.s)
        /\ abort' = [step |-> "stop", s |-> managed.s] /\ managed' = managed
    BY <1>3 DEF AbortInterrupt
  <2>3. Stops(managed.s) /\ Eased
    BY <2>1, <2>2, DisposedStops, StopsEase
  <2>4. live' # managed.s /\ (live' = live \/ live' = 0)
    BY <2>1, <2>2 DEF Invalidate
  <2>5. rec'.status = "interrupted"
    BY <2>2, Becomes
  <2> QED
    BY <1>3, <2>1, <2>2, <2>3, <2>4, <2>5 DEF Abortable
<1> QED
  BY <1>1, <1>2, <1>3

-----------------------------------------------------------------------------
(* What a step does to the turns that have settled, and to the sessions that are new *)

\* Every handler in the queue was there before, or is one of a turn of session t.
Follows(o, p) ==
    o.kind = p.kind /\ o.s = p.s /\ o.turn = p.turn /\ (o.step = "start" => p.step = "start")
Inherits == \A o \in Range(queue') : o.kind \in SettledKind => \E p \in Range(queue) : Follows(o, p)
InheritsOr(t) ==
    \A o \in Range(queue') :
        o.kind \in SettledKind => o.s = t \/ \E p \in Range(queue) : Follows(o, p)

\* When the operation that ran is done the others are left ...
LEMMA EndsInherit ==
  ASSUME Types, queue # <<>>, Ends
  PROVE  Inherits
BY TheOp DEF Ends, Inherits, Follows

\* ... when it goes on it is the handler of the same turn ...
LEMMA StepInherits ==
  ASSUME Types, queue # <<>>, NEW w, w # "start", GoesTo(w), op.kind = "resume" \/ SameSession
  PROVE  Inherits
<1>1. op \in Range(queue) /\ Waiting(queue) \subseteq Range(queue)
  BY TheOp
<1>2. /\ Range(queue') = {op'} \cup Waiting(queue)
      /\ op'.kind = op.kind /\ op'.turn = op.turn /\ op'.step # "start"
  BY DEF GoesTo
<1>3. op.kind = "resume" \/ op'.s = op.s
  BY DEF SameSession
<1>4. "resume" \notin SettledKind
  BY DEF SettledKind
<1> QED
  BY <1>1, <1>2, <1>3, <1>4 DEF Inherits, Follows

\* ... and what the operators queue is none.
LEMMA GainInherits ==
  ASSUME NEW E, Gains(E), \A o \in E : o.kind \notin SettledKind
  PROVE  Inherits
BY DEF Gains, Inherits, Follows

\* An abort leaves the handlers what they were ...
LEMMA SupersededInherits ==
  ASSUME Types, queue' = Superseded(queue)
  PROVE  Inherits
BY SupersededOps DEF Inherits, Follows

\* ... and so does a step that leaves the queue alone.
LEMMA SameInherits ==
  ASSUME queue' = queue
  PROVE  Inherits
BY DEF Inherits, Follows

\* Handlers that were there before may be joined by those of any session.
LEMMA InheritsMore ==
  ASSUME Inherits
  PROVE  \A t : InheritsOr(t)
BY DEF Inherits, InheritsOr

\* A handler of a turn that settled keeps finding it so, while no turn begins ...
LEMMA TurnsOn ==
  ASSUME Types, TurnsOver, Inherits, Eased, settled \subseteq settled',
         managed' = managed \/ managed'.s = 0
  PROVE  TurnsOver'
<1> SUFFICES ASSUME NEW o \in Range(queue'), o.kind \in SettledKind PROVE Over(o)'
  BY DEF TurnsOver, Over
<1>1. PICK p \in Range(queue) : Follows(o, p)
  BY DEF Inherits
<1>2. p \in OpType /\ p.kind \in SettledKind
  BY <1>1, QueueHead, TheOp, EmptyQueue DEF Follows
<1>3. p.s \in Session /\ p.s # 0
  BY <1>2, BoundsAreSane DEF OpType, HasSession, Session
<1>4. /\ sess[p.s] # "none" /\ (p.kind = "rejected" => p.step # "start")
      /\ p.s = managed.s =>
            /\ p.turn <= managed.turn
            /\ p.turn = managed.turn =>
                  /\ sess[p.s] # "busy"
                  /\ p.kind = "settled" => Range(managed.instr) \subseteq settled
  BY <1>2 DEF TurnsOver, Over
<1>5. sess'[p.s] # "none" /\ (sess[p.s] # "busy" => sess'[p.s] # "busy")
  BY <1>3, <1>4 DEF Eased
<1>6. managed'.s = p.s => managed' = managed
  BY <1>3
<1> QED
  BY <1>1, <1>4, <1>5, <1>6 DEF Over, Follows

\* ... or a session is attached that has had none ...
LEMMA TurnsAttach ==
  ASSUME Types, TurnsOver, Inherits, Eased, Unused(managed'.s)
  PROVE  TurnsOver'
<1> SUFFICES ASSUME NEW o \in Range(queue'), o.kind \in SettledKind PROVE Over(o)'
  BY DEF TurnsOver, Over
<1>1. PICK p \in Range(queue) : Follows(o, p)
  BY DEF Inherits
<1>2. p \in OpType /\ p.kind \in SettledKind
  BY <1>1, QueueHead, TheOp, EmptyQueue DEF Follows
<1>3. p.s \in Session /\ p.s # managed'.s
  BY <1>2 DEF OpType, HasSession, Unused
<1>4. sess[p.s] # "none" /\ (p.kind = "rejected" => p.step # "start")
  BY <1>2 DEF TurnsOver, Over
<1>5. sess'[p.s] # "none"
  BY <1>3, <1>4 DEF Eased
<1> QED
  BY <1>1, <1>3, <1>4, <1>5 DEF Over, Follows

\* ... or the next turn begins, or Pi rejects its prompt at once.
LEMMA TurnsLaunch ==
  ASSUME Types, TurnsOver, managed'.s = managed.s, managed'.turn = managed.turn + 1,
         \A s \in Session : sess[s] # "none" => sess'[s] # "none",
         \A o \in Range(queue') : o.kind \in SettledKind =>
            \/ \E p \in Range(queue) : Follows(o, p)
            \/ /\ o.kind = "rejected" /\ o.step = "settle"
               /\ o.s = managed.s /\ o.turn = managed.turn + 1 /\ sess'[o.s] \notin {"none", "busy"}
  PROVE  TurnsOver'
<1>0. managed.turn \in Nat
  BY DEF Types, ManagedType
<1> SUFFICES ASSUME NEW o \in Range(queue'), o.kind \in SettledKind PROVE Over(o)'
  BY DEF TurnsOver, Over
<1>1. CASE \E p \in Range(queue) : Follows(o, p)
  <2>1. PICK p \in Range(queue) : Follows(o, p)
    BY <1>1
  <2>2. p \in OpType /\ p.kind \in SettledKind
    BY <2>1, QueueHead, TheOp, EmptyQueue DEF Follows
  <2>3. p.s \in Session /\ p.turn \in Nat
    BY <2>2 DEF OpType, OpRecord, HasSession
  <2>4. /\ sess[p.s] # "none" /\ (p.kind = "rejected" => p.step # "start")
        /\ p.s = managed.s => p.turn <= managed.turn
    BY <2>2 DEF TurnsOver, Over
  <2>5. p.s = managed.s => p.turn <= managed.turn + 1 /\ p.turn # managed.turn + 1
    BY <1>0, <2>3, <2>4
  <2>6. sess'[p.s] # "none"
    BY <2>3, <2>4
  <2> QED
    BY <2>1, <2>4, <2>5, <2>6 DEF Over, Follows
<1>2. CASE /\ o.kind = "rejected" /\ o.step = "settle"
           /\ o.s = managed.s /\ o.turn = managed.turn + 1 /\ sess'[o.s] \notin {"none", "busy"}
  BY <1>0, <1>2 DEF Over
<1> QED
  BY <1>1, <1>2

\* The start and the resume hold the sessions that they held, the attached one goes, stays
\* or is one of these, and what is queued is of the attached one.
StartsAsBefore == create'.step \in NewSteps => create.step \in NewSteps /\ create'.s = create.s
HoldsAsBefore ==
    /\ Resuming(HeldSteps)' => Resuming(HeldSteps) /\ op'.s = op.s
    /\ Resuming(NewSteps)' => Resuming(NewSteps)
Attaches ==
    \/ managed'.s = managed.s \/ managed'.s = 0
    \/ managed'.s = create.s /\ create.step \in NewSteps /\ create'.step \notin NewSteps
    \/ managed'.s = op.s /\ Resuming(NewSteps) /\ ~Resuming(NewSteps)'

\* A step of this kind keeps what is held, and what is new.
LEMMA NewKept ==
  ASSUME Types, Turns, StartsAsBefore, HoldsAsBefore, Attaches, InheritsOr(managed.s),
         \A s \in Session : sess[s] # "none" => sess'[s] # "none"
  PROVE  Held' /\ CreatingNew' /\ ResumingNew' /\ AttachedMade'
<1>0. 0 \notin Session /\ managed.s \in Session \cup {0}
  BY BoundsAreSane DEF Session, Types, ManagedType
<1>1. create.step \in NewSteps => create.s \in Session
  BY DEF NewSteps, Types, CreateType
<1>2. Resuming(HeldSteps) => op.s \in Session
  BY TheOp DEF Resuming, HeldSteps, OpType, HasSession
<1>3. Resuming(NewSteps) => Resuming(HeldSteps)
  BY DEF Resuming, NewSteps, HeldSteps
<1>4. ASSUME NEW s \in Session, Unused(s), managed'.s # s
      PROVE  /\ sess'[s] # "none"
             /\ \A o \in Range(queue') : o.kind \in SettledKind => o.s # s
  BY <1>4 DEF Unused, InheritsOr, Follows
<1>5. Held'
  BY <1>2 DEF Turns, Held, HoldsAsBefore
<1>6. CreatingNew'
  <2> SUFFICES ASSUME create'.step \in NewSteps
               PROVE  Unused(create.s)' /\ (Resuming(HeldSteps)' => create'.s # op'.s)
    BY DEF CreatingNew
  <2>1. /\ create.step \in NewSteps /\ create'.s = create.s /\ create.s \in Session
        /\ Unused(create.s) /\ (Resuming(HeldSteps) => create.s # op.s)
    BY <1>1 DEF StartsAsBefore, Turns, CreatingNew
  <2>2. managed'.s # create.s
    BY <1>0, <1>3, <2>1 DEF Attaches, Unused
  <2>3. /\ sess'[create.s] # "none"
        /\ \A o \in Range(queue') : o.kind \in SettledKind => o.s # create.s
    BY <1>4, <2>1, <2>2
  <2> QED
    BY <2>1, <2>2, <2>3 DEF Unused, HoldsAsBefore
<1>7. ResumingNew'
  <2> SUFFICES ASSUME Resuming(NewSteps)' PROVE Unused(op.s)'
    BY DEF ResumingNew
  <2>0. Resuming(HeldSteps)'
    BY DEF Resuming, NewSteps, HeldSteps
  <2>1. Resuming(NewSteps) /\ Resuming(HeldSteps) /\ op'.s = op.s /\ op.s \in Session /\ Unused(op.s)
    BY <1>2, <1>3, <2>0 DEF HoldsAsBefore, Turns, ResumingNew
  <2>2. managed'.s # op.s
    BY <1>0, <2>1 DEF Attaches, Unused, Turns, CreatingNew
  <2>3. /\ sess'[op.s] # "none"
        /\ \A o \in Range(queue') : o.kind \in SettledKind => o.s # op.s
    BY <1>4, <2>1, <2>2
  <2> QED
    BY <2>1, <2>2, <2>3 DEF Unused
<1>8. AttachedMade'
  BY <1>0, <1>1, <1>2, <1>3 DEF Attaches, Turns, AttachedMade, CreatingNew, ResumingNew, Unused
<1> QED
  BY <1>5, <1>6, <1>7, <1>8

\* How the operation that runs holds its session through a step.
LEMMA EndHolds ==
  ASSUME Waits, Ends
  PROVE  HoldsAsBefore
BY NothingRuns DEF HoldsAsBefore, HeldSteps, NewSteps

\* ... it goes on, to a step with the same session ...
LEMMA StepHolds ==
  ASSUME NEW w, GoesTo(w),
         \/ w \notin HeldSteps \/ op.kind # "resume"
         \/ queue # <<>> /\ op.step \in HeldSteps /\ SameSession /\ (w \in NewSteps => op.step \in NewSteps)
  PROVE  HoldsAsBefore
<1>1. op'.step = w /\ op'.kind = op.kind
  BY DEF GoesTo
<1>2. NewSteps \subseteq HeldSteps
  BY DEF NewSteps, HeldSteps
<1> QED
  BY <1>1, <1>2 DEF HoldsAsBefore, Resuming, SameSession

\* ... others are queued behind it ...
LEMMA GainHolds ==
  ASSUME NEW E, Gains(E), \A o \in E : o.step \in {"start", "settle"}
  PROVE  HoldsAsBefore
BY RunsAsBefore DEF HoldsAsBefore, HeldSteps, NewSteps

\* ... nothing is done to the queue ...
LEMMA SameHolds ==
  ASSUME queue' = queue
  PROVE  HoldsAsBefore
BY DEF HoldsAsBefore, Resuming, op

\* ... or an abort supersedes it.
LEMMA SupersededHolds ==
  ASSUME Types, queue' = Superseded(queue)
  PROVE  HoldsAsBefore
BY SupersededOp DEF HoldsAsBefore, Resuming

\* The operation that runs holds a session of the process.
LEMMA AttachedHeld ==
  ASSUME Types
  PROVE  /\ Resuming(HeldSteps) => op.s \in Session
         /\ Resuming(NewSteps) => op.s \in Session
         /\ managed.s \in Session \cup {0}
BY TheOp, BoundsAreSane DEF Resuming, HeldSteps, NewSteps, OpType, HasSession, Types, ManagedType, Session

\* Every step keeps the turns apart: a turn that has settled stays over, and a session that
\* is about to be attached stays new.
LEMMA TurnStep ==
  ASSUME Types, Order, Turns, Writer, Next
  PROVE  Turns'
<1> USE DEF Order
<1>1. ASSUME CreateRequest PROVE Turns'
  <2>1. Inherits /\ HoldsAsBefore
    BY <1>1, SameInherits, SameHolds DEF CreateRequest
  <2>2. Eased /\ Attaches /\ (managed' = managed \/ managed'.s = 0)
    BY <1>1, SameEase DEF Attaches, CreateRequest, sessions
  <2>3. StartsAsBefore
    BY <1>1, Creates DEF StartsAsBefore, CreateRequest, CreateAt, NewSteps, Idle
  <2>4. settled' = settled
    BY <1>1 DEF CreateRequest, history
  <2>5. TurnsOver'
    BY <2>1, <2>2, <2>4, TurnsOn DEF Turns
  <2>6. Held' /\ CreatingNew' /\ ResumingNew' /\ AttachedMade'
    BY <2>1, <2>2, <2>3, NewKept, InheritsMore DEF Eased
  <2> QED
    BY <2>5, <2>6 DEF Turns
<1>2. ASSUME CreateReserve PROVE Turns'
  <2>1. Inherits /\ HoldsAsBefore
    BY <1>2, SameInherits, SameHolds DEF CreateReserve
  <2>2. Eased /\ Attaches /\ (managed' = managed \/ managed'.s = 0)
    BY <1>2, SameEase DEF Attaches, CreateReserve, sessions
  <2>3. StartsAsBefore
    BY <1>2, Creates DEF StartsAsBefore, CreateReserve, CreateAt, NewSteps, Idle
  <2>4. settled' = settled
    BY <1>2 DEF CreateReserve, history
  <2>5. TurnsOver'
    BY <2>1, <2>2, <2>4, TurnsOn DEF Turns
  <2>6. Held' /\ CreatingNew' /\ ResumingNew' /\ AttachedMade'
    BY <2>1, <2>2, <2>3, NewKept, InheritsMore DEF Eased
  <2> QED
    BY <2>5, <2>6 DEF Turns
<1>3. ASSUME CreateStart PROVE Turns'
  <2>1. Inherits /\ HoldsAsBefore
    BY <1>3, SameInherits, SameHolds DEF CreateStart
  <2>2. Eased /\ Attaches /\ (managed' = managed \/ managed'.s = 0)
    BY <1>3, SameEase DEF Attaches, CreateStart, sessions
  <2>3. StartsAsBefore
    BY <1>3, Creates DEF StartsAsBefore, CreateStart, CreateAt, NewSteps, Idle
  <2>4. settled' = settled
    BY <1>3 DEF CreateStart, history
  <2>5. TurnsOver'
    BY <2>1, <2>2, <2>4, TurnsOn DEF Turns
  <2>6. Held' /\ CreatingNew' /\ ResumingNew' /\ AttachedMade'
    BY <2>1, <2>2, <2>3, NewKept, InheritsMore DEF Eased
  <2> QED
    BY <2>5, <2>6 DEF Turns
<1>4. ASSUME CreatePlan PROVE Turns'
  <2>1. Inherits /\ HoldsAsBefore
    BY <1>4, SameInherits, SameHolds DEF CreatePlan
  <2>2. Eased /\ Attaches /\ (managed' = managed \/ managed'.s = 0)
    BY <1>4, SameEase DEF Attaches, CreatePlan, sessions
  <2>3. StartsAsBefore
    BY <1>4, Creates DEF StartsAsBefore, CreatePlan, CreateAt, NewSteps, Idle
  <2>4. settled' = settled
    BY <1>4 DEF CreatePlan, history
  <2>5. TurnsOver'
    BY <2>1, <2>2, <2>4, TurnsOn DEF Turns
  <2>6. Held' /\ CreatingNew' /\ ResumingNew' /\ AttachedMade'
    BY <2>1, <2>2, <2>3, NewKept, InheritsMore DEF Eased
  <2> QED
    BY <2>5, <2>6 DEF Turns
<1>5. ASSUME CreateAddTree PROVE Turns'
  <2>1. Inherits /\ HoldsAsBefore
    BY <1>5, SameInherits, SameHolds DEF CreateAddTree
  <2>2. Eased /\ Attaches /\ (managed' = managed \/ managed'.s = 0)
    BY <1>5, SameEase DEF Attaches, CreateAddTree, sessions
  <2>3. StartsAsBefore
    BY <1>5, Creates DEF StartsAsBefore, CreateAddTree, CreateAt, NewSteps, Idle
  <2>4. settled' = settled
    BY <1>5 DEF CreateAddTree, history
  <2>5. TurnsOver'
    BY <2>1, <2>2, <2>4, TurnsOn DEF Turns
  <2>6. Held' /\ CreatingNew' /\ ResumingNew' /\ AttachedMade'
    BY <2>1, <2>2, <2>3, NewKept, InheritsMore DEF Eased
  <2> QED
    BY <2>5, <2>6 DEF Turns
<1>6. ASSUME CreateAddTreeFails PROVE Turns'
  <2>1. Inherits /\ HoldsAsBefore
    BY <1>6, SameInherits, SameHolds DEF CreateAddTreeFails
  <2>2. Eased /\ Attaches /\ (managed' = managed \/ managed'.s = 0)
    BY <1>6, SameEase DEF Attaches, CreateAddTreeFails, sessions
  <2>3. StartsAsBefore
    BY <1>6, Creates DEF StartsAsBefore, CreateAddTreeFails, CreateAt, NewSteps, Idle
  <2>4. settled' = settled
    BY <1>6 DEF CreateAddTreeFails, history
  <2>5. TurnsOver'
    BY <2>1, <2>2, <2>4, TurnsOn DEF Turns
  <2>6. Held' /\ CreatingNew' /\ ResumingNew' /\ AttachedMade'
    BY <2>1, <2>2, <2>3, NewKept, InheritsMore DEF Eased
  <2> QED
    BY <2>5, <2>6 DEF Turns
<1>7. ASSUME CreateOpen PROVE Turns'
  <2>1. /\ Eased /\ Fresh \in Session /\ sess[Fresh] = "none" /\ sess'[Fresh] = "building"
        /\ UNCHANGED <<queue, managed, settled>> /\ create'.s = Fresh
    BY <1>7, Makes DEF CreateOpen, control, history
  <2>2. Inherits /\ HoldsAsBefore
    BY <2>1, SameInherits, SameHolds
  <2>3. TurnsOver'
    BY <2>1, <2>2, TurnsOn DEF Turns
  <2>4. AttachedMade' /\ Held'
    BY <2>1, AttachedHeld DEF Turns, AttachedMade, Held, HoldsAsBefore, Eased, Resuming, op
  <2>5. managed.s # Fresh /\ \A o \in Range(queue) : o.kind \in SettledKind => o.s # Fresh
    BY <2>1, BoundsAreSane DEF Turns, AttachedMade, TurnsOver, Over, Session
  <2>6. CreatingNew'
    BY <2>1, <2>5 DEF CreatingNew, Unused, Turns, Held, Resuming, op
  <2>7. ResumingNew'
    BY <2>1, AttachedHeld DEF ResumingNew, Unused, Turns, Resuming, op, Eased
  <2> QED
    BY <2>3, <2>4, <2>6, <2>7 DEF Turns
<1>8. ASSUME CreateBuilt PROVE Turns'
  <2>1. Inherits /\ HoldsAsBefore /\ settled' = settled
    BY <1>8, SameInherits, SameHolds DEF CreateBuilt, history
  <2>2. Unused(create.s) /\ create.s \in Session /\ create.step = "build"
    BY <1>8, CreateBuilds DEF Turns, CreatingNew, NewSteps
  <2>3. Eased
    <3> SUFFICES ASSUME NEW t \in Session
                 PROVE  /\ sess[t] # "none" => sess'[t] # "none"
                        /\ sess'[t] = "busy" => sess[t] = "busy"
                        /\ sess'[t] = "stopping" => Runs(t)
      BY DEF Eased
    <3>1. CASE t = create.s
      BY <1>8, <3>1, CreateBuilds
    <3>2. CASE t # create.s /\ t = managed.s
      BY <1>8, <3>2, CreateBuilds, BoundsAreSane DEF Runs, Session
    <3>3. CASE t # create.s /\ t # managed.s
      BY <1>8, <3>3, CreateBuilds DEF Runs
    <3> QED
      BY <3>1, <3>2, <3>3
  <2>4. TurnsOver'
    BY <1>8, <2>1, <2>2, <2>3, CreateBuilds, TurnsOn, TurnsAttach DEF Turns
  <2>5. Attaches /\ StartsAsBefore
    BY <1>8, <2>2, CreateBuilds DEF Attaches, StartsAsBefore, NewSteps
  <2> QED
    BY <2>1, <2>3, <2>4, <2>5, NewKept, InheritsMore DEF Turns, Eased
<1>9. ASSUME CreateSwap PROVE Turns'
  <2>1. Inherits /\ HoldsAsBefore /\ Eased /\ settled' = settled
    BY <1>9, SameInherits, SameHolds, SameEase DEF CreateSwap, history
  <2>2. /\ create.step = "swap" /\ create'.step = "begin" /\ managed'.s = create.s
        /\ Unused(create.s)
    BY <1>9, Creates DEF CreateSwap, CreateAt, NoRuntime, Turns, CreatingNew, NewSteps
  <2>3. TurnsOver'
    BY <2>1, <2>2, TurnsAttach DEF Turns
  <2>4. Attaches /\ StartsAsBefore
    BY <2>2 DEF Attaches, StartsAsBefore, NewSteps
  <2> QED
    BY <2>1, <2>3, <2>4, NewKept, InheritsMore DEF Turns, Eased
<1>10. ASSUME CreateBegin PROVE Turns'
  <2>1. Inherits /\ HoldsAsBefore /\ settled' = settled
    BY <1>10, SameInherits, SameHolds DEF CreateBegin, history
  <2>2. StartsAsBefore
    BY <1>10, Creates DEF CreateBegin, StartsAsBefore, NewSteps, Idle
  <2>3. CASE UNCHANGED <<managed, sess>>
    <3>1. Eased /\ Attaches
      BY <2>3, SameEase DEF Attaches
    <3> QED
      BY <2>1, <2>2, <2>3, <3>1, TurnsOn, NewKept, InheritsMore DEF Turns, Eased
  <2>4. CASE ~UNCHANGED <<managed, sess>>
    <3>1. /\ managed' = Launched(<<>>) /\ create.s \in Session
          /\ sess' = [sess EXCEPT ![create.s] = "busy"]
      BY <1>10, <2>4 DEF CreateBegin, CreateAt, Types, CreateType
    <3>2. managed'.s = managed.s /\ managed'.turn = managed.turn + 1
      BY <3>1 DEF Launched, Types, ManagedType
    <3>3. \A s \in Session : sess[s] # "none" => sess'[s] # "none"
      BY <3>1 DEF Types
    <3>4. TurnsOver'
      BY <2>1, <3>2, <3>3, TurnsLaunch DEF Turns, Inherits
    <3> QED
      BY <2>1, <2>2, <3>2, <3>3, <3>4, NewKept, InheritsMore DEF Turns, Attaches
  <2> QED
    BY <2>3, <2>4
<1>11. ASSUME CreateFail PROVE Turns'
  <2>1. Inherits /\ HoldsAsBefore
    BY <1>11, SameInherits, SameHolds DEF CreateFail
  <2>2. Eased /\ Attaches /\ (managed' = managed \/ managed'.s = 0)
    BY <1>11, Dropped, StopsEase, SameEase DEF CreateFail, CreateDropped, Drops, Attaches,
       NoRuntime, Types, CreateType, Session
  <2>3. StartsAsBefore
    BY <1>11, Creates DEF StartsAsBefore, CreateFail, CreateAt, NewSteps, Idle, CreateDropped
  <2>4. settled' = settled
    BY <1>11 DEF CreateFail, history
  <2>5. TurnsOver'
    BY <2>1, <2>2, <2>4, TurnsOn DEF Turns
  <2>6. Held' /\ CreatingNew' /\ ResumingNew' /\ AttachedMade'
    BY <2>1, <2>2, <2>3, NewKept, InheritsMore DEF Eased
  <2> QED
    BY <2>5, <2>6 DEF Turns
<1>12. ASSUME CreateDrop PROVE Turns'
  <2>1. Inherits /\ HoldsAsBefore
    BY <1>12, SameInherits, SameHolds DEF CreateDrop
  <2>2. Eased /\ Attaches /\ (managed' = managed \/ managed'.s = 0)
    BY <1>12, Dropped, StopsEase, SameEase DEF CreateDrop, CreateDropped, Drops, Attaches,
       NoRuntime, Types, CreateType, Session
  <2>3. StartsAsBefore
    BY <1>12, Creates DEF StartsAsBefore, CreateDrop, CreateAt, NewSteps, Idle, CreateDropped
  <2>4. settled' = settled
    BY <1>12 DEF CreateDrop, history
  <2>5. TurnsOver'
    BY <2>1, <2>2, <2>4, TurnsOn DEF Turns
  <2>6. Held' /\ CreatingNew' /\ ResumingNew' /\ AttachedMade'
    BY <2>1, <2>2, <2>3, NewKept, InheritsMore DEF Eased
  <2> QED
    BY <2>5, <2>6 DEF Turns
<1>13. ASSUME PauseRequest PROVE Turns'
  <2>1. Gains({Op("pause")}) /\ Op("pause").step = "start" /\ Op("pause").kind = "pause"
    BY <1>13, NewOps, OpQueued DEF PauseRequest, Enqueue, Op
  <2>2. Inherits /\ HoldsAsBefore
    BY <1>13, <2>1, GainInherits, GainHolds DEF SettledKind
  <2>3. Eased /\ Attaches /\ (managed' = managed \/ managed'.s = 0)
    BY <1>13, SameEase DEF Attaches, PauseRequest, sessions
  <2>4. StartsAsBefore
    BY <1>13 DEF StartsAsBefore, PauseRequest
  <2>5. settled' = settled
    BY <1>13 DEF PauseRequest, history
  <2>6. TurnsOver'
    BY <2>2, <2>3, <2>5, TurnsOn DEF Turns
  <2>7. Held' /\ CreatingNew' /\ ResumingNew' /\ AttachedMade'
    BY <2>2, <2>3, <2>4, NewKept, InheritsMore DEF Eased
  <2> QED
    BY <2>6, <2>7 DEF Turns
<1>14. ASSUME SteerRequest PROVE Turns'
  <2>1. commands' \in 1..MaxCommands
    BY <1>14, BoundsAreSane DEF SteerRequest, Command, Types
  <2>2. \E x \in OpType : x.step = "start" /\ x.kind = "steer" /\ Gains({x})
    BY <1>14, <2>1, NewOps, OpQueued DEF SteerRequest, Enqueue, Op
  <2>3. Inherits /\ HoldsAsBefore
    BY <1>14, <2>1, <2>2, GainInherits, GainHolds DEF SettledKind
  <2>4. Eased /\ Attaches /\ (managed' = managed \/ managed'.s = 0)
    BY <1>14, SameEase DEF Attaches, SteerRequest, sessions
  <2>5. StartsAsBefore
    BY <1>14 DEF StartsAsBefore, SteerRequest
  <2>6. settled' = settled
    BY <1>14 DEF SteerRequest, history
  <2>7. TurnsOver'
    BY <2>3, <2>4, <2>6, TurnsOn DEF Turns
  <2>8. Held' /\ CreatingNew' /\ ResumingNew' /\ AttachedMade'
    BY <2>3, <2>4, <2>5, NewKept, InheritsMore DEF Eased
  <2> QED
    BY <2>7, <2>8 DEF Turns
<1>15. ASSUME ResumeRequest PROVE Turns'
  <2>1. \E x \in OpType : x.step = "start" /\ x.kind = "resume" /\ Gains({x})
    BY <1>15, ResumeAsked
  <2>2. Inherits /\ HoldsAsBefore
    BY <1>15, <2>1, GainInherits, GainHolds DEF SettledKind
  <2>3. Eased /\ Attaches /\ (managed' = managed \/ managed'.s = 0)
    BY <1>15, SameEase DEF Attaches, ResumeRequest, sessions
  <2>4. StartsAsBefore
    BY <1>15 DEF StartsAsBefore, ResumeRequest
  <2>5. settled' = settled
    BY <1>15 DEF ResumeRequest, history
  <2>6. TurnsOver'
    BY <2>2, <2>3, <2>5, TurnsOn DEF Turns
  <2>7. Held' /\ CreatingNew' /\ ResumingNew' /\ AttachedMade'
    BY <2>2, <2>3, <2>4, NewKept, InheritsMore DEF Eased
  <2> QED
    BY <2>6, <2>7 DEF Turns
<1>16. ASSUME AbortRequest PROVE Turns'
  <2>1. /\ queue' # <<>> <=> queue # <<>>
        /\ queue # <<>> => /\ op'.kind = op.kind /\ op'.step = op.step /\ op'.s = op.s /\ op'.turn = op.turn
                           /\ op'.made = op.made /\ op'.msg = op.msg /\ op'.instr = op.instr
                           /\ op.kind = "resume" => op'.stale
    BY <1>16, SupersededOp DEF AbortRequest, Superseded
  <2>2. Inherits /\ HoldsAsBefore
    BY <1>16, <2>1, SupersededInherits, SupersededHolds DEF AbortRequest, Superseded
  <2>3. Eased /\ Attaches /\ (managed' = managed \/ managed'.s = 0)
    BY <1>16, SameEase DEF Attaches, AbortRequest, sessions
  <2>4. StartsAsBefore
    BY <1>16 DEF StartsAsBefore, AbortRequest
  <2>5. settled' = settled
    BY <1>16 DEF AbortRequest, history
  <2>6. TurnsOver'
    BY <2>2, <2>3, <2>5, TurnsOn DEF Turns
  <2>7. Held' /\ CreatingNew' /\ ResumingNew' /\ AttachedMade'
    BY <2>2, <2>3, <2>4, NewKept, InheritsMore DEF Eased
  <2> QED
    BY <2>6, <2>7 DEF Turns
<1>17. ASSUME PauseProject PROVE Turns'
  BY <1>17 DEF Turns, TurnsOver, Over, Held, CreatingNew, ResumingNew, AttachedMade, Unused,
     Resuming, op, PauseProject, sessions, history
<1>18. ASSUME ResumeProject PROVE Turns'
  BY <1>18 DEF Turns, TurnsOver, Over, Held, CreatingNew, ResumingNew, AttachedMade, Unused,
     Resuming, op, ResumeProject, sessions, control, history
<1>19. ASSUME Pause PROVE Turns'
  <2>1. queue # <<>> /\ op.kind = "pause" /\ op.step = "start" /\ Ends /\ Range(queue) = {op} \cup Waiting(queue)
    BY <1>19, OpEnds, TheOp DEF Pause, At
  <2>2. Inherits /\ HoldsAsBefore
    BY <1>19, <2>1, EndsInherit, EndHolds
  <2>3. Eased /\ Attaches /\ (managed' = managed \/ managed'.s = 0)
    BY <1>19, SameEase DEF Attaches, Pause, sessions
  <2>4. StartsAsBefore
    BY <1>19 DEF StartsAsBefore, Pause
  <2>5. settled' = settled
    BY <1>19 DEF Pause, history
  <2>6. TurnsOver'
    BY <2>2, <2>3, <2>5, TurnsOn DEF Turns
  <2>7. Held' /\ CreatingNew' /\ ResumingNew' /\ AttachedMade'
    BY <2>2, <2>3, <2>4, NewKept, InheritsMore DEF Eased
  <2> QED
    BY <2>6, <2>7 DEF Turns
<1>20. ASSUME Steer PROVE Turns'
  <2>1. queue # <<>> /\ op.kind = "steer" /\ op.step = "start" /\ Ends /\ Range(queue) = {op} \cup Waiting(queue)
    BY <1>20, OpEnds, TheOp DEF Steer, At
  <2>2. Inherits /\ HoldsAsBefore
    BY <1>20, <2>1, EndsInherit, EndHolds
  <2>3. Eased /\ Attaches /\ (managed' = managed \/ managed'.s = 0)
    BY <1>20, SameEase DEF Attaches, Steer, sessions
  <2>4. StartsAsBefore
    BY <1>20 DEF StartsAsBefore, Steer
  <2>5. settled' = settled
    BY <1>20 DEF Steer
  <2>6. TurnsOver'
    BY <2>2, <2>3, <2>5, TurnsOn DEF Turns
  <2>7. Held' /\ CreatingNew' /\ ResumingNew' /\ AttachedMade'
    BY <2>2, <2>3, <2>4, NewKept, InheritsMore DEF Eased
  <2> QED
    BY <2>6, <2>7 DEF Turns
<1>21. ASSUME ResumeStart PROVE Turns'
  <2>1. /\ queue # <<>> /\ op \in OpType /\ op.kind = "resume" /\ op.step = "start"
        /\ Range(queue) = {op} \cup Waiting(queue) /\ (Done => Ends)
        /\ Step("resources") => StepsTo("resources")
    BY <1>21, AtResume, TheOp DEF ResumeStart, ResumeSteps
  <2>2. Inherits /\ HoldsAsBefore
    BY <1>21, <2>1, EndsInherit, EndHolds, StepInherits, StepHolds DEF ResumeStart, StepsTo,
       HeldSteps
  <2>3. Eased /\ Attaches /\ (managed' = managed \/ managed'.s = 0)
    BY <1>21, SameEase DEF Attaches, ResumeStart, sessions
  <2>4. StartsAsBefore
    BY <1>21 DEF StartsAsBefore, ResumeStart
  <2>5. settled' = settled
    BY <1>21 DEF ResumeStart, history
  <2>6. TurnsOver'
    BY <2>2, <2>3, <2>5, TurnsOn DEF Turns
  <2>7. Held' /\ CreatingNew' /\ ResumingNew' /\ AttachedMade'
    BY <2>2, <2>3, <2>4, NewKept, InheritsMore DEF Eased
  <2> QED
    BY <2>6, <2>7 DEF Turns
<1>22. ASSUME ResumeResources PROVE Turns'
  <2>1. /\ queue # <<>> /\ op \in OpType /\ op.kind = "resume" /\ op.step = "resources"
        /\ Range(queue) = {op} \cup Waiting(queue) /\ (Done => Ends)
        /\ Step("open") => StepsTo("open")
    BY <1>22, AtResume, TheOp DEF ResumeResources, ResumeSteps
  <2>2. Inherits /\ HoldsAsBefore
    BY <1>22, <2>1, EndsInherit, EndHolds, StepInherits, StepHolds DEF ResumeResources, StepsTo,
       HeldSteps
  <2>3. Eased /\ Attaches /\ (managed' = managed \/ managed'.s = 0)
    BY <1>22, SameEase DEF Attaches, ResumeResources, sessions
  <2>4. StartsAsBefore
    BY <1>22 DEF StartsAsBefore, ResumeResources
  <2>5. settled' = settled
    BY <1>22 DEF ResumeResources, history
  <2>6. TurnsOver'
    BY <2>2, <2>3, <2>5, TurnsOn DEF Turns
  <2>7. Held' /\ CreatingNew' /\ ResumingNew' /\ AttachedMade'
    BY <2>2, <2>3, <2>4, NewKept, InheritsMore DEF Eased
  <2> QED
    BY <2>6, <2>7 DEF Turns
<1>23. ASSUME ResumeOpen PROVE Turns'
  <2>1. /\ queue # <<>> /\ op.kind = "resume" /\ op.step = "open"
        /\ UNCHANGED <<managed, settled, create>>
    BY <1>23, AtResume DEF ResumeOpen, ResumeSteps, history
  <2>2. PICK w \in HeldSteps : GoesTo(w)
    BY <1>23, ResumeOpens DEF HeldSteps
  <2>3. Inherits
    BY <2>1, <2>2, StepInherits DEF HeldSteps
  <2>4. CASE /\ managed.s \in Session /\ UNCHANGED sess
             /\ GoesTo("latest") /\ op'.s = managed.s
    <3>1. TurnsOver'
      BY <2>1, <2>3, <2>4, SameEase, TurnsOn DEF Turns
    <3>2. sess[managed.s] # "none"
      BY <2>4, BoundsAreSane DEF Turns, AttachedMade, Session
    <3>3. op'.step = "latest"
      BY <2>4 DEF GoesTo
    <3>4. CreatingNew'
      BY <2>1, <2>3, <2>4, <3>3 DEF Turns, CreatingNew, Unused, Inherits, Follows
    <3> QED
      BY <2>1, <2>4, <3>1, <3>2, <3>3, <3>4
      DEF Turns, Held, ResumingNew, AttachedMade, Resuming, NewSteps
  <2>5. CASE /\ managed.s = 0 /\ Fresh \in Session /\ sess[Fresh] = "none"
             /\ sess' = [sess EXCEPT ![Fresh] = "building"]
             /\ GoesTo("build") /\ op'.s = Fresh
    <3>1. sess'[Fresh] = "building" /\ \A t \in Session : t # Fresh => sess'[t] = sess[t]
      BY <2>5 DEF Types
    <3>2. Eased
      BY <2>5, <3>1 DEF Eased, Runs
    <3>3. TurnsOver'
      BY <2>1, <2>3, <3>2, TurnsOn DEF Turns
    <3>4. managed.s # Fresh /\ \A o \in Range(queue) : o.kind \in SettledKind => o.s # Fresh
      BY <2>5, BoundsAreSane DEF Turns, TurnsOver, Over, Session
    <3>5. Held' /\ ResumingNew'
      BY <2>1, <2>3, <2>5, <3>1, <3>4 DEF Held, ResumingNew, Unused, Inherits, Follows
    <3>6. create.step \in NewSteps => create.s \in Session /\ Unused(create.s)
      BY DEF NewSteps, Types, CreateType, Turns, CreatingNew
    <3>7. create.step \in NewSteps => create.s # Fresh /\ sess'[create.s] # "none"
      BY <2>5, <3>2, <3>6 DEF Unused, Eased
    <3>8. CreatingNew'
      BY <2>1, <2>3, <2>5, <3>6, <3>7 DEF CreatingNew, Unused, Inherits, Follows
    <3> QED
      BY <2>1, <2>5, <3>3, <3>5, <3>8 DEF Turns, AttachedMade
  <2> QED
    BY <1>23, <2>4, <2>5, ResumeOpens
<1>24. ASSUME ResumeBuilt PROVE Turns'
  <2>1. /\ queue # <<>> /\ op.kind = "resume" /\ op.step = "build" /\ op.s \in Session
        /\ UNCHANGED <<create, settled>>
    BY <1>24, ResumeBuilds DEF ResumeBuilt, history
  <2>2. Unused(op.s) /\ StartsAsBefore /\ Resuming(NewSteps)
    BY <2>1 DEF Turns, ResumingNew, Resuming, NewSteps, StartsAsBefore
  <2>3. CASE ResumeFails
    <3>1. Ends /\ Eased /\ (managed' = managed \/ managed'.s = 0)
      BY <2>1, <2>3, ResumeFailed DEF Drops, NoRuntime
    <3>2. Inherits /\ HoldsAsBefore /\ Attaches
      BY <2>1, <3>1, EndsInherit, EndHolds DEF Attaches
    <3> QED
      BY <2>1, <2>2, <3>1, <3>2, TurnsOn, NewKept, InheritsMore DEF Turns, Eased
  <2>4. CASE ~ResumeFails
    <3>1. Eased
      <4> SUFFICES ASSUME NEW t \in Session
                   PROVE  /\ sess[t] # "none" => sess'[t] # "none"
                          /\ sess'[t] = "busy" => sess[t] = "busy"
                          /\ sess'[t] = "stopping" => Runs(t)
        BY DEF Eased
      <4>1. CASE t = op.s
        BY <1>24, <2>4, <4>1, ResumeBuilds
      <4>2. CASE t # op.s /\ t = managed.s
        BY <1>24, <2>4, <4>2, ResumeBuilds, BoundsAreSane DEF Runs, Session
      <4>3. CASE t # op.s /\ t # managed.s
        BY <1>24, <2>4, <4>3, ResumeBuilds DEF Runs
      <4> QED
        BY <4>1, <4>2, <4>3
    <3>2. CASE managed'.s = op.s /\ StepsTo("latest")
      <4>1. Inherits /\ HoldsAsBefore
        BY <2>1, <3>2, StepInherits, StepHolds DEF StepsTo, HeldSteps, NewSteps
      <4>2. Attaches
        BY <2>2, <3>2, RunsAt DEF Attaches, NewSteps
      <4> QED
        BY <2>1, <2>2, <3>1, <3>2, <4>1, <4>2, TurnsAttach, NewKept, InheritsMore DEF Turns, Eased
    <3>3. CASE managed' = managed /\ StepsTo("swap")
      <4>1. Inherits /\ HoldsAsBefore
        BY <2>1, <3>3, StepInherits, StepHolds DEF StepsTo, HeldSteps, NewSteps
      <4>2. Attaches
        BY <3>3 DEF Attaches
      <4> QED
        BY <2>1, <2>2, <3>1, <3>3, <4>1, <4>2, TurnsOn, NewKept, InheritsMore DEF Turns, Eased
    <3> QED
      BY <1>24, <2>4, <3>2, <3>3, ResumeBuilds
  <2> QED
    BY <2>3, <2>4
<1>25. ASSUME ResumeSwap PROVE Turns'
  <2>1. /\ queue # <<>> /\ op.kind = "resume" /\ op.step = "swap" /\ op.s \in Session
        /\ UNCHANGED <<create, settled, sess>> /\ managed'.s = op.s /\ StepsTo("latest")
    BY <1>25, AtResume DEF ResumeSwap, ResumeSteps, history, NoRuntime
  <2>2. Unused(op.s) /\ StartsAsBefore /\ Resuming(NewSteps)
    BY <2>1 DEF Turns, ResumingNew, Resuming, NewSteps, StartsAsBefore
  <2>3. Inherits /\ HoldsAsBefore /\ Eased
    BY <2>1, StepInherits, StepHolds, SameEase DEF StepsTo, HeldSteps, NewSteps
  <2>4. Attaches
    BY <2>1, <2>2, RunsAt DEF Attaches, NewSteps
  <2> QED
    BY <2>1, <2>2, <2>3, <2>4, TurnsAttach, NewKept, InheritsMore DEF Turns, Eased
<1>26. ASSUME ResumeLatest PROVE Turns'
  <2>1. /\ queue # <<>> /\ op \in OpType /\ op.kind = "resume" /\ op.step = "latest" /\ op.s \in Session
        /\ Range(queue) = {op} \cup Waiting(queue) /\ (Done => Ends)
    BY <1>26, AtResume, TheOp DEF ResumeLatest, ResumeSteps
  <2>2. Inherits /\ HoldsAsBefore
    BY <1>26, <2>1, EndsInherit, EndHolds, StepInherits, StepHolds, ResumeReads DEF ResumeFails,
       HeldSteps, NewSteps
  <2>3. Eased /\ Attaches /\ (managed' = managed \/ managed'.s = 0)
    BY <1>26, <2>1, ResumeFailed, SameEase, ResumeReads DEF Drops, Attaches, NoRuntime
  <2>4. StartsAsBefore
    BY <1>26 DEF StartsAsBefore, ResumeLatest
  <2>5. settled' = settled
    BY <1>26 DEF ResumeLatest, history
  <2>6. TurnsOver'
    BY <2>2, <2>3, <2>5, TurnsOn DEF Turns
  <2>7. Held' /\ CreatingNew' /\ ResumingNew' /\ AttachedMade'
    BY <2>2, <2>3, <2>4, NewKept, InheritsMore DEF Eased
  <2> QED
    BY <2>6, <2>7 DEF Turns
<1>27. ASSUME ResumeUpdate PROVE Turns'
  <2>1. /\ queue # <<>> /\ op \in OpType /\ op.kind = "resume" /\ op.step = "update" /\ op.s \in Session
        /\ Range(queue) = {op} \cup Waiting(queue) /\ (Done => Ends)
        /\ Step("launch") => StepsTo("launch")
    BY <1>27, AtResume, TheOp DEF ResumeUpdate, ResumeSteps
  <2>2. Inherits /\ HoldsAsBefore
    BY <1>27, <2>1, EndsInherit, EndHolds, StepInherits, StepHolds DEF ResumeUpdate, ResumeFails,
       StepsTo, HeldSteps, NewSteps
  <2>3. Eased /\ Attaches /\ (managed' = managed \/ managed'.s = 0)
    BY <1>27, <2>1, ResumeFailed, SameEase DEF ResumeUpdate, Drops, Attaches, NoRuntime
  <2>4. StartsAsBefore
    BY <1>27 DEF StartsAsBefore, ResumeUpdate
  <2>5. settled' = settled
    BY <1>27 DEF ResumeUpdate
  <2>6. TurnsOver'
    BY <2>2, <2>3, <2>5, TurnsOn DEF Turns
  <2>7. Held' /\ CreatingNew' /\ ResumingNew' /\ AttachedMade'
    BY <2>2, <2>3, <2>4, NewKept, InheritsMore DEF Eased
  <2> QED
    BY <2>6, <2>7 DEF Turns
<1>28. ASSUME ResumeLaunch PROVE Turns'
  <2>1. /\ queue # <<>> /\ op.kind = "resume" /\ op.step = "launch" /\ op.s \in Session
        /\ UNCHANGED <<create, settled>>
    BY <1>28, AtResume DEF ResumeLaunch, ResumeSteps, history
  <2>2. StartsAsBefore
    BY <2>1 DEF StartsAsBefore
  <2>3. CASE ResumeFails
    <3>1. Ends /\ Eased /\ (managed' = managed \/ managed'.s = 0)
      BY <2>1, <2>3, ResumeFailed DEF Drops, NoRuntime
    <3>2. Inherits /\ HoldsAsBefore /\ Attaches
      BY <2>1, <3>1, EndsInherit, EndHolds DEF Attaches
    <3> QED
      BY <2>1, <2>2, <3>1, <3>2, TurnsOn, NewKept, InheritsMore DEF Turns, Eased
  <2>4. CASE ~ResumeFails
    <3>1. managed.s = op.s /\ managed'.s = managed.s /\ managed'.turn = managed.turn + 1 /\ Attaches
      BY <1>28, <2>4, Launches DEF Attaches
    <3>2. CASE sess[op.s] = "idle" /\ sess' = [sess EXCEPT ![op.s] = "busy"] /\ Ends
      <4>1. \A s \in Session : sess[s] # "none" => sess'[s] # "none"
        BY <2>1, <3>2 DEF Types
      <4>2. Inherits /\ HoldsAsBefore
        BY <2>1, <3>2, EndsInherit, EndHolds
      <4>3. TurnsOver'
        BY <3>1, <4>1, <4>2, TurnsLaunch DEF Turns, Inherits
      <4> QED
        BY <2>2, <3>1, <4>1, <4>2, <4>3, NewKept, InheritsMore DEF Turns
    <3>3. CASE /\ sess' = sess
               /\ Range(queue') = Waiting(queue) \cup {Rejected(op.s, managed'.turn)}
               /\ op' \in Waiting(queue) \cup {Rejected(op.s, managed'.turn)}
      <4> DEFINE x == Rejected(op.s, managed'.turn)
      <4>1. /\ x.kind = "rejected" /\ x.step = "settle" /\ x.s = managed.s /\ x.turn = managed.turn + 1
        BY <3>1, TurnOps
      <4>2. sess[op.s] \notin {"none", "busy"}
        BY <2>1 DEF Turns, Held, Resuming, HeldSteps, Writer, NobodyBusy, Idles, Resumes, ResumeSteps
      <4> HIDE DEF x
      <4>3. Range(queue') = Waiting(queue) \cup {x} /\ op' \in Waiting(queue) \cup {x}
        BY <3>3 DEF x
      <4>4. Waiting(queue) \subseteq Range(queue)
        BY <2>1, TheOp
      <4>5. \A o \in Range(queue') : o.kind \in SettledKind => o = x \/ \E p \in Range(queue) : Follows(o, p)
        BY <4>3, <4>4 DEF Follows
      <4>6. TurnsOver'
        BY <3>1, <3>3, <4>1, <4>2, <4>5, TurnsLaunch DEF Turns
      <4>7. InheritsOr(managed.s)
        BY <4>1, <4>5 DEF InheritsOr
      <4>8. op'.step \in {"start", "settle"}
        BY <4>1, <4>3 DEF Order, Waits
      <4>9. HoldsAsBefore
        BY <4>8 DEF HoldsAsBefore, Resuming, HeldSteps, NewSteps
      <4> QED
        BY <2>2, <3>1, <3>3, <4>6, <4>7, <4>9, NewKept DEF Turns
    <3> QED
      BY <1>28, <2>4, <3>2, <3>3, Launches
  <2> QED
    BY <2>3, <2>4
<1>29. ASSUME Acknowledge PROVE Turns'
  <2>1. /\ queue # <<>> /\ op \in OpType /\ op.kind \in SettledKind /\ op.step = "start" /\ op.s \in Session
        /\ Range(queue) = {op} \cup Waiting(queue) /\ (Done => Ends)
        /\ Step("settle") => StepsTo("settle")
    BY <1>29, AtSettled, TheOp DEF Acknowledge, SettleSteps
  <2>2. Inherits /\ HoldsAsBefore
    BY <1>29, <2>1, EndsInherit, EndHolds, StepInherits, StepHolds DEF Acknowledge, StepsTo,
       SettledKind
  <2>3. Eased /\ Attaches /\ (managed' = managed \/ managed'.s = 0)
    BY <1>29, SameEase DEF Attaches, Acknowledge, sessions
  <2>4. StartsAsBefore
    BY <1>29 DEF StartsAsBefore, Acknowledge
  <2>5. settled' = settled
    BY <1>29 DEF Acknowledge, history
  <2>6. TurnsOver'
    BY <2>2, <2>3, <2>5, TurnsOn DEF Turns
  <2>7. Held' /\ CreatingNew' /\ ResumingNew' /\ AttachedMade'
    BY <2>2, <2>3, <2>4, NewKept, InheritsMore DEF Eased
  <2> QED
    BY <2>6, <2>7 DEF Turns
<1>30. ASSUME Settle PROVE Turns'
  <2>1. /\ queue # <<>> /\ op \in OpType /\ op.kind \in SettledKind /\ op.step = "settle" /\ op.s \in Session
        /\ Range(queue) = {op} \cup Waiting(queue) /\ (Done => Ends)
    BY <1>30, AtSettled, TheOp DEF Settle, SettleSteps
  <2>2. Inherits /\ HoldsAsBefore
    BY <1>30, <2>1, EndsInherit, EndHolds, StepInherits, StepHolds, SettleChooses DEF StepsTo,
       SettledKind
  <2>3. Eased /\ Attaches /\ (managed' = managed \/ managed'.s = 0)
    BY <1>30, SameEase DEF Attaches, Settle, sessions
  <2>4. StartsAsBefore
    BY <1>30 DEF StartsAsBefore, Settle
  <2>5. settled' = settled
    BY <1>30 DEF Settle, history
  <2>6. TurnsOver'
    BY <2>2, <2>3, <2>5, TurnsOn DEF Turns
  <2>7. Held' /\ CreatingNew' /\ ResumingNew' /\ AttachedMade'
    BY <2>2, <2>3, <2>4, NewKept, InheritsMore DEF Eased
  <2> QED
    BY <2>6, <2>7 DEF Turns
<1>31. ASSUME SettleFail PROVE Turns'
  <2>1. /\ queue # <<>> /\ op \in OpType /\ op.kind \in SettledKind /\ op.step = "fail" /\ op.s \in Session
        /\ Range(queue) = {op} \cup Waiting(queue) /\ (Done => Ends)
        /\ Step("retire") => StepsTo("retire")
    BY <1>31, AtSettled, TheOp DEF SettleFail, SettleSteps
  <2>2. Inherits /\ HoldsAsBefore
    BY <1>31, <2>1, EndsInherit, EndHolds, StepInherits, StepHolds DEF SettleFail, StepsTo,
       SettledKind
  <2>3. Eased /\ Attaches /\ (managed' = managed \/ managed'.s = 0)
    BY <1>31, SameEase DEF Attaches, SettleFail, sessions
  <2>4. StartsAsBefore
    BY <1>31 DEF StartsAsBefore, SettleFail
  <2>5. settled' = settled
    BY <1>31 DEF SettleFail, history
  <2>6. TurnsOver'
    BY <2>2, <2>3, <2>5, TurnsOn DEF Turns
  <2>7. Held' /\ CreatingNew' /\ ResumingNew' /\ AttachedMade'
    BY <2>2, <2>3, <2>4, NewKept, InheritsMore DEF Eased
  <2> QED
    BY <2>6, <2>7 DEF Turns
<1>32. ASSUME BlockUnsettled PROVE Turns'
  <2>1. /\ queue # <<>> /\ op \in OpType /\ op.kind \in SettledKind /\ op.step = "block" /\ op.s \in Session
        /\ Range(queue) = {op} \cup Waiting(queue) /\ (Done => Ends)
    BY <1>32, AtSettled, TheOp DEF BlockUnsettled, SettleSteps
  <2>2. Inherits /\ HoldsAsBefore
    BY <1>32, <2>1, EndsInherit, EndHolds, StepInherits, StepHolds DEF BlockUnsettled, StepsTo,
       SettledKind
  <2>3. Eased /\ Attaches /\ (managed' = managed \/ managed'.s = 0)
    BY <1>32, SameEase DEF Attaches, BlockUnsettled, sessions
  <2>4. StartsAsBefore
    BY <1>32 DEF StartsAsBefore, BlockUnsettled
  <2>5. settled' = settled
    BY <1>32 DEF BlockUnsettled, history
  <2>6. TurnsOver'
    BY <2>2, <2>3, <2>5, TurnsOn DEF Turns
  <2>7. Held' /\ CreatingNew' /\ ResumingNew' /\ AttachedMade'
    BY <2>2, <2>3, <2>4, NewKept, InheritsMore DEF Eased
  <2> QED
    BY <2>6, <2>7 DEF Turns
<1>33. ASSUME Publish PROVE Turns'
  <2>1. /\ queue # <<>> /\ op \in OpType /\ op.kind \in SettledKind /\ op.step = "publish" /\ op.s \in Session
        /\ Range(queue) = {op} \cup Waiting(queue) /\ (Done => Ends)
        /\ Step("retire") => StepsTo("retire")
    BY <1>33, AtSettled, TheOp DEF Publish, SettleSteps
  <2>2. Inherits /\ HoldsAsBefore
    BY <1>33, <2>1, EndsInherit, EndHolds, StepInherits, StepHolds DEF Publish, StepsTo, SettledKind
  <2>3. Eased /\ Attaches /\ (managed' = managed \/ managed'.s = 0)
    BY <1>33, SameEase DEF Attaches, Publish, sessions
  <2>4. StartsAsBefore
    BY <1>33 DEF StartsAsBefore, Publish
  <2>5. settled' = settled
    BY <1>33 DEF Publish, history
  <2>6. TurnsOver'
    BY <2>2, <2>3, <2>5, TurnsOn DEF Turns
  <2>7. Held' /\ CreatingNew' /\ ResumingNew' /\ AttachedMade'
    BY <2>2, <2>3, <2>4, NewKept, InheritsMore DEF Eased
  <2> QED
    BY <2>6, <2>7 DEF Turns
<1>34. ASSUME Verify PROVE Turns'
  <2>1. /\ queue # <<>> /\ op \in OpType /\ op.kind \in SettledKind /\ op.step = "verify" /\ op.s \in Session
        /\ Range(queue) = {op} \cup Waiting(queue) /\ (Done => Ends)
    BY <1>34, AtSettled, TheOp DEF Verify, SettleSteps
  <2>2. Inherits /\ HoldsAsBefore
    BY <1>34, <2>1, EndsInherit, EndHolds, StepInherits, StepHolds, VerifyChooses DEF StepsTo,
       SettledKind
  <2>3. Eased /\ Attaches /\ (managed' = managed \/ managed'.s = 0)
    BY <1>34, SameEase DEF Attaches, Verify, sessions
  <2>4. StartsAsBefore
    BY <1>34 DEF StartsAsBefore, Verify
  <2>5. settled' = settled
    BY <1>34 DEF Verify, history
  <2>6. TurnsOver'
    BY <2>2, <2>3, <2>5, TurnsOn DEF Turns
  <2>7. Held' /\ CreatingNew' /\ ResumingNew' /\ AttachedMade'
    BY <2>2, <2>3, <2>4, NewKept, InheritsMore DEF Eased
  <2> QED
    BY <2>6, <2>7 DEF Turns
<1>35. ASSUME Accept PROVE Turns'
  <2>1. /\ queue # <<>> /\ op \in OpType /\ op.kind \in SettledKind /\ op.step = "accept" /\ op.s \in Session
        /\ Range(queue) = {op} \cup Waiting(queue) /\ (Done => Ends)
        /\ Step("retire") => StepsTo("retire")
        /\ Step("refuse") => StepsTo("refuse")
    BY <1>35, AtSettled, TheOp DEF Accept, SettleSteps
  <2>2. Inherits /\ HoldsAsBefore
    BY <1>35, <2>1, EndsInherit, EndHolds, StepInherits, StepHolds DEF Accept, StepsTo, SettledKind
  <2>3. Eased /\ Attaches /\ (managed' = managed \/ managed'.s = 0)
    BY <1>35, SameEase DEF Attaches, Accept, sessions
  <2>4. StartsAsBefore
    BY <1>35 DEF StartsAsBefore, Accept
  <2>5. settled' = settled
    BY <1>35 DEF Accept, history
  <2>6. TurnsOver'
    BY <2>2, <2>3, <2>5, TurnsOn DEF Turns
  <2>7. Held' /\ CreatingNew' /\ ResumingNew' /\ AttachedMade'
    BY <2>2, <2>3, <2>4, NewKept, InheritsMore DEF Eased
  <2> QED
    BY <2>6, <2>7 DEF Turns
<1>36. ASSUME Refuse PROVE Turns'
  <2>1. /\ queue # <<>> /\ op \in OpType /\ op.kind \in SettledKind /\ op.step = "refuse" /\ op.s \in Session
        /\ Range(queue) = {op} \cup Waiting(queue) /\ (Done => Ends)
    BY <1>36, AtSettled, TheOp DEF Refuse, SettleSteps
  <2>2. Inherits /\ HoldsAsBefore
    BY <1>36, <2>1, EndsInherit, EndHolds, StepInherits, StepHolds DEF Refuse, StepsTo, SettledKind
  <2>3. Eased /\ Attaches /\ (managed' = managed \/ managed'.s = 0)
    BY <1>36, SameEase DEF Attaches, Refuse, sessions
  <2>4. StartsAsBefore
    BY <1>36 DEF StartsAsBefore, Refuse
  <2>5. settled' = settled
    BY <1>36 DEF Refuse, history
  <2>6. TurnsOver'
    BY <2>2, <2>3, <2>5, TurnsOn DEF Turns
  <2>7. Held' /\ CreatingNew' /\ ResumingNew' /\ AttachedMade'
    BY <2>2, <2>3, <2>4, NewKept, InheritsMore DEF Eased
  <2> QED
    BY <2>6, <2>7 DEF Turns
<1>37. ASSUME Retire PROVE Turns'
  <2>1. /\ queue # <<>> /\ op \in OpType /\ op.kind \in SettledKind /\ op.step = "retire" /\ op.s \in Session
        /\ Range(queue) = {op} \cup Waiting(queue) /\ (Done => Ends)
    BY <1>37, AtSettled, TheOp DEF Retire, SettleSteps
  <2>2. Inherits /\ HoldsAsBefore
    BY <1>37, <2>1, EndsInherit, EndHolds, StepInherits, StepHolds DEF Retire, StepsTo, SettledKind
  <2>3. Eased /\ Attaches /\ (managed' = managed \/ managed'.s = 0)
    BY <1>37, <2>1, Dropped, StopsEase, SameEase DEF Retire, Drops, Attaches, NoRuntime
  <2>4. StartsAsBefore
    BY <1>37 DEF StartsAsBefore, Retire
  <2>5. settled' = settled
    BY <1>37 DEF Retire, history
  <2>6. TurnsOver'
    BY <2>2, <2>3, <2>5, TurnsOn DEF Turns
  <2>7. Held' /\ CreatingNew' /\ ResumingNew' /\ AttachedMade'
    BY <2>2, <2>3, <2>4, NewKept, InheritsMore DEF Eased
  <2> QED
    BY <2>6, <2>7 DEF Turns
<1>38. ASSUME AbortRead PROVE Turns'
  BY <1>38 DEF Turns, TurnsOver, Over, Held, CreatingNew, ResumingNew, AttachedMade, Unused,
     Resuming, op, AbortRead, sessions, history
<1>39. ASSUME AbortInterrupt PROVE Turns'
  <2>1. Inherits /\ HoldsAsBefore
    BY <1>39, SameInherits, SameHolds DEF AbortInterrupt
  <2>2. Eased /\ Attaches /\ (managed' = managed \/ managed'.s = 0)
    BY <1>39, Interrupts DEF Attaches
  <2>3. StartsAsBefore
    BY <1>39 DEF StartsAsBefore, AbortInterrupt
  <2>4. settled' = settled
    BY <1>39 DEF AbortInterrupt, history
  <2>5. TurnsOver'
    BY <2>1, <2>2, <2>4, TurnsOn DEF Turns
  <2>6. Held' /\ CreatingNew' /\ ResumingNew' /\ AttachedMade'
    BY <2>1, <2>2, <2>3, NewKept, InheritsMore DEF Eased
  <2> QED
    BY <2>5, <2>6 DEF Turns
<1>40. ASSUME AbortStop PROVE Turns'
  <2>1. Inherits /\ HoldsAsBefore
    BY <1>40, SameInherits, SameHolds DEF AbortStop
  <2>2. Eased /\ Attaches /\ (managed' = managed \/ managed'.s = 0)
    BY <1>40, SameEase DEF AbortStop, Attaches, NoRuntime
  <2>3. StartsAsBefore
    BY <1>40 DEF StartsAsBefore, AbortStop
  <2>4. settled' = settled
    BY <1>40 DEF AbortStop, history
  <2>5. TurnsOver'
    BY <2>1, <2>2, <2>4, TurnsOn DEF Turns
  <2>6. Held' /\ CreatingNew' /\ ResumingNew' /\ AttachedMade'
    BY <2>1, <2>2, <2>3, NewKept, InheritsMore DEF Eased
  <2> QED
    BY <2>5, <2>6 DEF Turns
<1>41. ASSUME PauseActive PROVE Turns'
  <2>1. queue' = queue \/ (Gains({Op("pause")}) /\ Op("pause").step = "start" /\ Op("pause").kind = "pause")
    BY <1>41, NewOps, OpQueued DEF PauseActive, Enqueue, Op
  <2>2. Inherits /\ HoldsAsBefore
    BY <1>41, <2>1, GainInherits, GainHolds, SameInherits, SameHolds DEF SettledKind
  <2>3. Eased /\ Attaches /\ (managed' = managed \/ managed'.s = 0)
    BY <1>41, SameEase DEF Attaches, PauseActive, sessions
  <2>4. StartsAsBefore
    BY <1>41 DEF StartsAsBefore, PauseActive
  <2>5. settled' = settled
    BY <1>41 DEF PauseActive, history
  <2>6. TurnsOver'
    BY <2>2, <2>3, <2>5, TurnsOn DEF Turns
  <2>7. Held' /\ CreatingNew' /\ ResumingNew' /\ AttachedMade'
    BY <2>2, <2>3, <2>4, NewKept, InheritsMore DEF Eased
  <2> QED
    BY <2>6, <2>7 DEF Turns
<1>42. ASSUME NEW s \in Session, Write(s) PROVE Turns'
  BY <1>42 DEF Turns, TurnsOver, Over, Held, CreatingNew, ResumingNew, AttachedMade, Unused,
     Resuming, op, Write, sessions, control, history
<1>43. ASSUME NEW s \in Session, EndTurn(s) PROVE Turns'
  <2>1. /\ sess[s] = "busy" /\ managed.s = s /\ sess' = [sess EXCEPT ![s] = "idle"]
        /\ managed' = managed /\ create' = create
    BY <1>43 DEF EndTurn
  <2>2. sess'[s] = "idle" /\ \A t \in Session : t # s => sess'[t] = sess[t]
    BY <2>1 DEF Types
  <2>3. Eased /\ Attaches /\ StartsAsBefore
    BY <2>1, <2>2 DEF Eased, Runs, Attaches, StartsAsBefore
  <2>4. Gains(Ended(s)) /\ HoldsAsBefore /\ settled \subseteq settled'
    BY <1>43, TurnEnds, EndedOps, GainHolds
  <2>5. InheritsOr(managed.s)
    BY <2>1, <2>4, EndedOps DEF Gains, InheritsOr, Follows
  <2>6. TurnsOver'
    <3> SUFFICES ASSUME NEW o \in Range(queue'), o.kind \in SettledKind PROVE Over(o)'
      BY DEF TurnsOver, Over
    <3>1. CASE o \in Ended(s)
      <4>1. /\ o.s = s /\ o.turn = managed.turn
            /\ o.step = "start" \/ (o.kind = "rejected" /\ o.step = "settle")
            /\ o.kind = "settled" => o # Rejected(s, managed.turn)
        BY <3>1, EndedOps
      <4>2. o.kind = "rejected" => o.step # "start"
        BY <3>1, TurnOps DEF Ended
      <4>3. managed.turn \in Nat
        BY DEF Types, ManagedType
      <4>4. CASE settled' = settled \cup Range(managed.instr)
        BY <2>1, <2>2, <4>1, <4>2, <4>3, <4>4 DEF Over
      <4>5. CASE o \in Range(queue)
        BY <4>5, <4>1, <2>1 DEF Turns, TurnsOver, Over
      <4>6. CASE o = Rejected(s, managed.turn)
        BY <2>1, <2>2, <4>1, <4>2, <4>3, <4>6 DEF Over
      <4> QED
        BY <1>43, <4>4, <4>5, <4>6, TurnEnds
    <3>2. CASE o \in Range(queue)
      <4>1. Over(o)
        BY <3>2 DEF Turns, TurnsOver
      <4>2. o.s \in Session
        BY <3>2, QueueHead, TheOp, EmptyQueue DEF OpType, HasSession
      <4> QED
        BY <2>1, <2>3, <2>4, <4>1, <4>2 DEF Over, Eased
    <3> QED
      BY <2>4, <3>1, <3>2 DEF Gains
  <2> QED
    BY <2>3, <2>4, <2>5, <2>6, NewKept DEF Turns, Eased
<1>44. ASSUME NEW s \in Session, StopSession(s) PROVE Turns'
  <2>1. Inherits /\ HoldsAsBefore
    BY <1>44, SameInherits, SameHolds DEF StopSession, control
  <2>2. Eased /\ Attaches /\ (managed' = managed \/ managed'.s = 0)
    BY <1>44 DEF StopSession, Attaches, Eased, Runs, Types
  <2>3. StartsAsBefore
    BY <1>44 DEF StartsAsBefore, StopSession, control
  <2>4. settled' = settled
    BY <1>44 DEF StopSession, history
  <2>5. TurnsOver'
    BY <2>1, <2>2, <2>4, TurnsOn DEF Turns
  <2>6. Held' /\ CreatingNew' /\ ResumingNew' /\ AttachedMade'
    BY <2>1, <2>2, <2>3, NewKept, InheritsMore DEF Eased
  <2> QED
    BY <2>5, <2>6 DEF Turns
<1>45. ASSUME NEW s \in Session, CommitBegin(s) PROVE Turns'
  BY <1>45 DEF Turns, TurnsOver, Over, Held, CreatingNew, ResumingNew, AttachedMade, Unused,
     Resuming, op, CommitBegin, control, history
<1>46. ASSUME NEW s \in Session, ProgressPaused(s) PROVE Turns'
  BY <1>46 DEF Turns, TurnsOver, Over, Held, CreatingNew, ResumingNew, AttachedMade, Unused,
     Resuming, op, ProgressPaused, sessions, control, history
<1>47. ASSUME NEW s \in Session, Escalate(s) PROVE Turns'
  BY <1>47 DEF Turns, TurnsOver, Over, Held, CreatingNew, ResumingNew, AttachedMade, Unused,
     Resuming, op, Escalate, sessions, control, history
<1>48. ASSUME NEW s \in Session, CompleteBegin(s) PROVE Turns'
  BY <1>48 DEF Turns, TurnsOver, Over, Held, CreatingNew, ResumingNew, AttachedMade, Unused,
     Resuming, op, CompleteBegin, control, history
<1>49. ASSUME NEW s \in Session, Commit(s) PROVE Turns'
  BY <1>49 DEF Turns, TurnsOver, Over, Held, CreatingNew, ResumingNew, AttachedMade, Unused,
     Resuming, op, Commit, control, history
<1>50. ASSUME NEW s \in Session, CompleteVerify(s) PROVE Turns'
  BY <1>50 DEF Turns, TurnsOver, Over, Held, CreatingNew, ResumingNew, AttachedMade, Unused,
     Resuming, op, CompleteVerify, control, history
<1>51. ASSUME NEW s \in Session, CompleteWrite(s) PROVE Turns'
  BY <1>51 DEF Turns, TurnsOver, Over, Held, CreatingNew, ResumingNew, AttachedMade, Unused,
     Resuming, op, CompleteWrite, control, history
<1>52. ASSUME NEW s \in Session, CompleteWritten(s) PROVE Turns'
  BY <1>52 DEF Turns, TurnsOver, Over, Held, CreatingNew, ResumingNew, AttachedMade, Unused,
     Resuming, op, CompleteWritten, control, history
<1>53. ASSUME NEW s \in Session, CompleteUpdate(s) PROVE Turns'
  BY <1>53 DEF Turns, TurnsOver, Over, Held, CreatingNew, ResumingNew, AttachedMade, Unused,
     Resuming, op, CompleteUpdate, control, history
<1>54. ASSUME NEW s \in Session, CompleteClean(s) PROVE Turns'
  BY <1>54 DEF Turns, TurnsOver, Over, Held, CreatingNew, ResumingNew, AttachedMade, Unused,
     Resuming, op, CompleteClean, control, history
<1>55. ASSUME Crash PROVE Turns'
  BY <1>55, EmptyQueue DEF Turns, TurnsOver, Held, CreatingNew, ResumingNew, AttachedMade,
     Resuming, Crash, Idle, NoRuntime, NewSteps
<1>56. ASSUME Reconcile PROVE Turns'
  BY <1>56 DEF Turns, TurnsOver, Over, Held, CreatingNew, ResumingNew, AttachedMade, Unused,
     Resuming, op, Reconcile, sessions, control, history
<1>57. ASSUME Recover PROVE Turns'
  BY <1>57 DEF Turns, TurnsOver, Over, Held, CreatingNew, ResumingNew, AttachedMade, Unused,
     Resuming, op, Recover, sessions, control, history
<1> QED
  BY <1>1, <1>2, <1>3, <1>4, <1>5, <1>6, <1>7, <1>8, <1>9, <1>10, <1>11, <1>12, <1>13, <1>14,
     <1>15, <1>16, <1>17, <1>18, <1>19, <1>20, <1>21, <1>22, <1>23, <1>24, <1>25, <1>26, <1>27,
     <1>28, <1>29, <1>30, <1>31, <1>32, <1>33, <1>34, <1>35, <1>36, <1>37, <1>38, <1>39, <1>40,
     <1>41, <1>42, <1>43, <1>44, <1>45, <1>46, <1>47, <1>48, <1>49, <1>50, <1>51, <1>52, <1>53,
     <1>54, <1>55, <1>56, <1>57 DEF Next, Creating, Operating, Queued, Aborting, Calling, Called,
     Restarting

-----------------------------------------------------------------------------
(* Steering is delivered at least once *)

\* The prompt of a resume that is past its reading is the one that it read.
PromptsAsBefore ==
    Resuming({"update"})' => Resuming({"update"}) /\ op'.msg = op.msg /\ op'.instr = op.instr

\* An operation that is done is at no update ...
LEMMA EndPrompts ==
  ASSUME Waits, Ends
  PROVE  PromptsAsBefore
BY NothingRuns DEF PromptsAsBefore

\* ... nor is one that goes on to another step.
LEMMA StepPrompts ==
  ASSUME NEW w, GoesTo(w), w # "update"
  PROVE  PromptsAsBefore
BY DEF PromptsAsBefore, Resuming, GoesTo

\* What is queued behind a resume leaves its prompt ...
LEMMA GainPrompts ==
  ASSUME NEW E, Gains(E), \A o \in E : o.step \in {"start", "settle"}
  PROVE  PromptsAsBefore
BY RunsAsBefore DEF PromptsAsBefore

\* ... as does a step that leaves the queue alone ...
LEMMA SamePrompts ==
  ASSUME queue' = queue
  PROVE  PromptsAsBefore
BY DEF PromptsAsBefore, Resuming, op

\* ... and an abort.
LEMMA SupersededPrompts ==
  ASSUME Types, queue' = Superseded(queue)
  PROVE  PromptsAsBefore
BY SupersededOp DEF PromptsAsBefore, Resuming

\* A resume whose prompt is launched, or rejected, or that failed, is past its update.
LEMMA LaunchPrompts ==
  ASSUME Types, Waits, ResumeLaunch
  PROVE  PromptsAsBefore
<1>1. queue # <<>> /\ op.s \in Session
  BY AtResume DEF ResumeLaunch, ResumeSteps
<1>2. CASE Ends
  BY <1>2, EndPrompts
<1>3. CASE op' \in Waiting(queue) \cup {Rejected(op.s, managed'.turn)}
  <2>1. op'.step \in {"start", "settle"}
    BY <1>3, TurnOps DEF Waits
  <2> QED
    BY <2>1 DEF PromptsAsBefore, Resuming
<1> QED
  BY <1>1, <1>2, <1>3, Launches, ResumeFailed

\* What becomes of the outbox when it is written, and when it gains an instruction.
LEMMA OutboxSet ==
  ASSUME Types, NEW v, rec' = [rec EXCEPT !.instr = v]
  PROVE  rec'.instr = v /\ rec.instr \in Seq(1..MaxCommands)
BY DEF Types, RecType

\* What is appended to the outbox is delivered with it.
LEMMA OutboxAppend ==
  ASSUME NEW q \in Seq(1..MaxCommands), NEW x \in 1..MaxCommands
  PROVE  Range(Append(q, x)) = Range(q) \cup {x}
<1> DEFINE S == 1..MaxCommands
<1>1. q \in Seq(S) /\ x \in S
  OBVIOUS
<1> HIDE DEF S
<1> QED
  BY <1>1, QueueAppend

\* Nothing that was accepted is lost while the outbox and what has settled stay.
LEMMA OutboxKept ==
  ASSUME PromptIsOutbox, InstructionsAtLeastOnce, PromptsAsBefore, rec'.instr = rec.instr,
         accepted' = accepted, settled \subseteq settled'
  PROVE  (PromptIsOutbox /\ InstructionsAtLeastOnce)'
BY DEF PromptIsOutbox, InstructionsAtLeastOnce, PromptsAsBefore

\* Every step keeps what was accepted in the outbox until its turn has settled.
LEMMA OutboxStep ==
  ASSUME Types, Order, Turns, PromptIsOutbox, InstructionsAtLeastOnce, Next
  PROVE  (PromptIsOutbox /\ InstructionsAtLeastOnce)'
<1> USE DEF Order
<1>1. ASSUME CreateRequest PROVE (PromptIsOutbox /\ InstructionsAtLeastOnce)'
  BY <1>1 DEF PromptIsOutbox, InstructionsAtLeastOnce, Resuming, op, CreateRequest, durable, history
<1>2. ASSUME CreateReserve PROVE (PromptIsOutbox /\ InstructionsAtLeastOnce)'
  <2>1. PromptsAsBefore
    BY <1>2, SamePrompts DEF CreateReserve
  <2>2. rec'.instr = rec.instr
    BY <1>2, Moves, Becomes DEF CreateReserve, Types, RecType
  <2>3. accepted' = accepted /\ settled \subseteq settled'
    BY <1>2 DEF CreateReserve, history
  <2> QED
    BY <2>1, <2>2, <2>3, OutboxKept
<1>3. ASSUME CreateStart PROVE (PromptIsOutbox /\ InstructionsAtLeastOnce)'
  <2>1. PromptsAsBefore
    BY <1>3, SamePrompts DEF CreateStart
  <2>2. rec'.instr = rec.instr
    BY <1>3, Moves, Becomes DEF CreateStart
  <2>3. accepted' = accepted /\ settled \subseteq settled'
    BY <1>3 DEF CreateStart, history
  <2> QED
    BY <2>1, <2>2, <2>3, OutboxKept
<1>4. ASSUME CreatePlan PROVE (PromptIsOutbox /\ InstructionsAtLeastOnce)'
  BY <1>4 DEF PromptIsOutbox, InstructionsAtLeastOnce, Resuming, op, CreatePlan, durable, history
<1>5. ASSUME CreateAddTree PROVE (PromptIsOutbox /\ InstructionsAtLeastOnce)'
  BY <1>5 DEF PromptIsOutbox, InstructionsAtLeastOnce, Resuming, op, CreateAddTree, history
<1>6. ASSUME CreateAddTreeFails PROVE (PromptIsOutbox /\ InstructionsAtLeastOnce)'
  BY <1>6 DEF PromptIsOutbox, InstructionsAtLeastOnce, Resuming, op, CreateAddTreeFails, history
<1>7. ASSUME CreateOpen PROVE (PromptIsOutbox /\ InstructionsAtLeastOnce)'
  BY <1>7 DEF PromptIsOutbox, InstructionsAtLeastOnce, Resuming, op, CreateOpen, durable, history
<1>8. ASSUME CreateBuilt PROVE (PromptIsOutbox /\ InstructionsAtLeastOnce)'
  BY <1>8 DEF PromptIsOutbox, InstructionsAtLeastOnce, Resuming, op, CreateBuilt, durable, history
<1>9. ASSUME CreateSwap PROVE (PromptIsOutbox /\ InstructionsAtLeastOnce)'
  BY <1>9 DEF PromptIsOutbox, InstructionsAtLeastOnce, Resuming, op, CreateSwap, durable, history
<1>10. ASSUME CreateBegin PROVE (PromptIsOutbox /\ InstructionsAtLeastOnce)'
  <2>1. PromptsAsBefore
    BY <1>10, SamePrompts DEF CreateBegin
  <2>2. rec'.instr = rec.instr
    BY <1>10, Moves, Becomes DEF CreateBegin
  <2>3. accepted' = accepted /\ settled \subseteq settled'
    BY <1>10 DEF CreateBegin, history
  <2> QED
    BY <2>1, <2>2, <2>3, OutboxKept
<1>11. ASSUME CreateFail PROVE (PromptIsOutbox /\ InstructionsAtLeastOnce)'
  <2>1. PromptsAsBefore
    BY <1>11, SamePrompts DEF CreateFail
  <2>2. rec'.instr = rec.instr
    BY <1>11, Moves, Becomes DEF CreateFail
  <2>3. accepted' = accepted /\ settled \subseteq settled'
    BY <1>11 DEF CreateFail, history
  <2> QED
    BY <2>1, <2>2, <2>3, OutboxKept
<1>12. ASSUME CreateDrop PROVE (PromptIsOutbox /\ InstructionsAtLeastOnce)'
  BY <1>12 DEF PromptIsOutbox, InstructionsAtLeastOnce, Resuming, op, CreateDrop, durable, history
<1>13. ASSUME PauseRequest PROVE (PromptIsOutbox /\ InstructionsAtLeastOnce)'
  <2>1. Gains({Op("pause")}) /\ Op("pause").step = "start" /\ Op("pause").kind = "pause"
    BY <1>13, NewOps, OpQueued DEF PauseRequest, Enqueue, Op
  <2>2. PromptsAsBefore
    BY <1>13, <2>1, GainPrompts
  <2>3. rec'.instr = rec.instr
    BY <1>13 DEF PauseRequest, durable
  <2>4. accepted' = accepted /\ settled \subseteq settled'
    BY <1>13 DEF PauseRequest, history
  <2> QED
    BY <2>2, <2>3, <2>4, OutboxKept
<1>14. ASSUME SteerRequest PROVE (PromptIsOutbox /\ InstructionsAtLeastOnce)'
  <2>1. commands' \in 1..MaxCommands
    BY <1>14, BoundsAreSane DEF SteerRequest, Command, Types
  <2>2. \E x \in OpType : x.step = "start" /\ x.kind = "steer" /\ Gains({x})
    BY <1>14, <2>1, NewOps, OpQueued DEF SteerRequest, Enqueue, Op
  <2>3. PromptsAsBefore
    BY <1>14, <2>1, <2>2, GainPrompts
  <2>4. rec'.instr = rec.instr
    BY <1>14 DEF SteerRequest, durable
  <2>5. accepted' = accepted /\ settled \subseteq settled'
    BY <1>14 DEF SteerRequest, history
  <2> QED
    BY <2>3, <2>4, <2>5, OutboxKept
<1>15. ASSUME ResumeRequest PROVE (PromptIsOutbox /\ InstructionsAtLeastOnce)'
  <2>1. \E x \in OpType : x.step = "start" /\ x.kind = "resume" /\ Gains({x})
    BY <1>15, ResumeAsked
  <2>2. PromptsAsBefore
    BY <1>15, <2>1, GainPrompts
  <2>3. rec'.instr = rec.instr
    BY <1>15 DEF ResumeRequest, durable
  <2>4. accepted' = accepted /\ settled \subseteq settled'
    BY <1>15 DEF ResumeRequest, history
  <2> QED
    BY <2>2, <2>3, <2>4, OutboxKept
<1>16. ASSUME AbortRequest PROVE (PromptIsOutbox /\ InstructionsAtLeastOnce)'
  <2>1. /\ queue' # <<>> <=> queue # <<>>
        /\ queue # <<>> => /\ op'.kind = op.kind /\ op'.step = op.step /\ op'.s = op.s /\ op'.turn = op.turn
                           /\ op'.made = op.made /\ op'.msg = op.msg /\ op'.instr = op.instr
                           /\ op.kind = "resume" => op'.stale
    BY <1>16, SupersededOp DEF AbortRequest, Superseded
  <2>2. PromptsAsBefore
    BY <1>16, <2>1, SupersededPrompts DEF AbortRequest, Superseded
  <2>3. rec'.instr = rec.instr
    BY <1>16 DEF AbortRequest, durable
  <2>4. accepted' = accepted /\ settled \subseteq settled'
    BY <1>16 DEF AbortRequest, history
  <2> QED
    BY <2>2, <2>3, <2>4, OutboxKept
<1>17. ASSUME PauseProject PROVE (PromptIsOutbox /\ InstructionsAtLeastOnce)'
  BY <1>17 DEF PromptIsOutbox, InstructionsAtLeastOnce, Resuming, op, PauseProject, history
<1>18. ASSUME ResumeProject PROVE (PromptIsOutbox /\ InstructionsAtLeastOnce)'
  BY <1>18 DEF PromptIsOutbox, InstructionsAtLeastOnce, Resuming, op, ResumeProject, control,
     history
<1>19. ASSUME Pause PROVE (PromptIsOutbox /\ InstructionsAtLeastOnce)'
  <2>1. queue # <<>> /\ op.kind = "pause" /\ op.step = "start" /\ Ends /\ Range(queue) = {op} \cup Waiting(queue)
    BY <1>19, OpEnds, TheOp DEF Pause, At
  <2>2. PromptsAsBefore
    BY <1>19, <2>1, EndPrompts
  <2>3. rec'.instr = rec.instr
    BY <1>19, Moves, Becomes DEF Pause
  <2>4. accepted' = accepted /\ settled \subseteq settled'
    BY <1>19 DEF Pause, history
  <2> QED
    BY <2>2, <2>3, <2>4, OutboxKept
<1>20. ASSUME Steer PROVE (PromptIsOutbox /\ InstructionsAtLeastOnce)'
  <2>1. /\ queue # <<>> /\ op.kind = "steer" /\ Ends /\ op \in OpType /\ settled' = settled
    BY <1>20, OpEnds, TheOp DEF Steer, At
  <2>2. ~Resuming({"update"})'
    BY <2>1, NothingRuns
  <2>3. CASE ~SteerAccepts
    <3>1. UNCHANGED <<rec, accepted>>
      BY <1>20, <2>3 DEF Steer
    <3> QED
      BY <2>1, <2>2, <3>1 DEF PromptIsOutbox, InstructionsAtLeastOnce
  <2>4. CASE SteerAccepts
    <3>0. rec' = [rec EXCEPT !.instr = Append(rec.instr, op.msg)] /\ accepted' = accepted \cup {op.msg}
      BY <1>20, <2>4 DEF Steer
    <3>1. rec'.instr = Append(rec.instr, op.msg) /\ rec.instr \in Seq(1..MaxCommands)
      BY <3>0, OutboxSet
    <3>2. op.msg \in 1..MaxCommands
      BY <2>1, BoundsAreSane DEF OpType, OpRecord
    <3>3. Range(rec'.instr) = Range(rec.instr) \cup {op.msg}
      BY <3>1, <3>2, OutboxAppend
    <3> QED
      BY <2>1, <2>2, <3>0, <3>3 DEF PromptIsOutbox, InstructionsAtLeastOnce
  <2> QED
    BY <2>3, <2>4
<1>21. ASSUME ResumeStart PROVE (PromptIsOutbox /\ InstructionsAtLeastOnce)'
  <2>1. /\ queue # <<>> /\ op \in OpType /\ op.kind = "resume" /\ op.step = "start"
        /\ Range(queue) = {op} \cup Waiting(queue) /\ (Done => Ends)
        /\ Step("resources") => StepsTo("resources")
    BY <1>21, AtResume, TheOp DEF ResumeStart, ResumeSteps
  <2>2. PromptsAsBefore
    BY <1>21, <2>1, EndPrompts, StepPrompts DEF ResumeStart, StepsTo
  <2>3. rec'.instr = rec.instr
    BY <1>21 DEF ResumeStart, durable
  <2>4. accepted' = accepted /\ settled \subseteq settled'
    BY <1>21 DEF ResumeStart, history
  <2> QED
    BY <2>2, <2>3, <2>4, OutboxKept
<1>22. ASSUME ResumeResources PROVE (PromptIsOutbox /\ InstructionsAtLeastOnce)'
  <2>1. /\ queue # <<>> /\ op \in OpType /\ op.kind = "resume" /\ op.step = "resources"
        /\ Range(queue) = {op} \cup Waiting(queue) /\ (Done => Ends)
        /\ Step("open") => StepsTo("open")
    BY <1>22, AtResume, TheOp DEF ResumeResources, ResumeSteps
  <2>2. PromptsAsBefore
    BY <1>22, <2>1, EndPrompts, StepPrompts DEF ResumeResources, StepsTo
  <2>3. rec'.instr = rec.instr
    BY <1>22, Moves, Becomes DEF ResumeResources
  <2>4. accepted' = accepted /\ settled \subseteq settled'
    BY <1>22 DEF ResumeResources, history
  <2> QED
    BY <2>2, <2>3, <2>4, OutboxKept
<1>23. ASSUME ResumeOpen PROVE (PromptIsOutbox /\ InstructionsAtLeastOnce)'
  <2>1. /\ queue # <<>> /\ op \in OpType /\ op.kind = "resume" /\ op.step = "open"
        /\ Range(queue) = {op} \cup Waiting(queue) /\ (Done => Ends)
    BY <1>23, AtResume, TheOp DEF ResumeOpen, ResumeSteps
  <2>2. PromptsAsBefore
    BY <1>23, <2>1, EndPrompts, StepPrompts, ResumeOpens
  <2>3. rec'.instr = rec.instr
    BY <1>23 DEF ResumeOpen, durable
  <2>4. accepted' = accepted /\ settled \subseteq settled'
    BY <1>23 DEF ResumeOpen, history
  <2> QED
    BY <2>2, <2>3, <2>4, OutboxKept
<1>24. ASSUME ResumeBuilt PROVE (PromptIsOutbox /\ InstructionsAtLeastOnce)'
  <2>1. /\ queue # <<>> /\ op \in OpType /\ op.kind = "resume" /\ op.step = "build" /\ op.s \in Session
        /\ Range(queue) = {op} \cup Waiting(queue) /\ (Done => Ends)
        /\ Step("latest") => StepsTo("latest")
        /\ Step("swap") => StepsTo("swap")
    BY <1>24, AtResume, TheOp DEF ResumeBuilt, ResumeSteps
  <2>2. PromptsAsBefore
    BY <1>24, <2>1, EndPrompts, StepPrompts, ResumeBuilds, ResumeFailed DEF StepsTo
  <2>3. rec'.instr = rec.instr
    BY <1>24 DEF ResumeBuilt, durable
  <2>4. accepted' = accepted /\ settled \subseteq settled'
    BY <1>24 DEF ResumeBuilt, history
  <2> QED
    BY <2>2, <2>3, <2>4, OutboxKept
<1>25. ASSUME ResumeSwap PROVE (PromptIsOutbox /\ InstructionsAtLeastOnce)'
  <2>1. /\ queue # <<>> /\ op \in OpType /\ op.kind = "resume" /\ op.step = "swap" /\ op.s \in Session
        /\ Range(queue) = {op} \cup Waiting(queue) /\ (Done => Ends)
        /\ Step("latest") => StepsTo("latest")
    BY <1>25, AtResume, TheOp DEF ResumeSwap, ResumeSteps
  <2>2. PromptsAsBefore
    BY <1>25, <2>1, EndPrompts, StepPrompts DEF ResumeSwap, StepsTo
  <2>3. rec'.instr = rec.instr
    BY <1>25 DEF ResumeSwap, durable
  <2>4. accepted' = accepted /\ settled \subseteq settled'
    BY <1>25 DEF ResumeSwap, history
  <2> QED
    BY <2>2, <2>3, <2>4, OutboxKept
<1>26. ASSUME ResumeLatest PROVE (PromptIsOutbox /\ InstructionsAtLeastOnce)'
  <2>1. /\ queue # <<>> /\ op.kind = "resume" /\ op.s \in Session /\ UNCHANGED <<rec, accepted, settled>>
    BY <1>26, AtResume DEF ResumeLatest, ResumeSteps, durable, history
  <2>2. CASE ResumeFails
    <3>1. ~Resuming({"update"})'
      BY <2>1, <2>2, ResumeFailed, NothingRuns
    <3> QED
      BY <2>1, <3>1 DEF PromptIsOutbox, InstructionsAtLeastOnce
  <2>3. CASE ~ResumeFails
    <3>1. /\ op'.msg = op.msg /\ (op.msg = 0 => op'.instr = rec.instr)
          /\ op.msg # 0 => op'.instr = Append(rec.instr, op.msg)
      BY <1>26, <2>3, ResumeReads DEF GoesTo
    <3> QED
      BY <2>1, <3>1 DEF PromptIsOutbox, InstructionsAtLeastOnce
  <2> QED
    BY <2>2, <2>3
<1>27. ASSUME ResumeUpdate PROVE (PromptIsOutbox /\ InstructionsAtLeastOnce)'
  <2>1. /\ queue # <<>> /\ op \in OpType /\ op.kind = "resume" /\ op.step = "update" /\ op.s \in Session
        /\ (Step("launch") => StepsTo("launch")) /\ settled' = settled
    BY <1>27, AtResume DEF ResumeUpdate, ResumeSteps
  <2>2. CASE ~MayResume
    <3>0. ResumeFails /\ UNCHANGED <<rec, accepted>>
      BY <1>27, <2>2 DEF ResumeUpdate
    <3>1. ~Resuming({"update"})'
      BY <2>1, <3>0, ResumeFailed, NothingRuns
    <3> QED
      BY <2>1, <3>0, <3>1 DEF PromptIsOutbox, InstructionsAtLeastOnce
  <2>3. CASE MayResume
    <3>0. /\ rec'.instr = op.instr /\ Step("launch")
          /\ op.msg = 0 => accepted' = accepted
          /\ op.msg # 0 => accepted' = accepted \cup {op.msg}
      BY <1>27, <2>3 DEF ResumeUpdate, Types, RecType
    <3>1. ~Resuming({"update"})'
      BY <2>1, <3>0, RunsAt
    <3>2. rec'.instr = op.instr /\ rec.instr \in Seq(1..MaxCommands)
      BY <3>0 DEF Types, RecType
    <3>3. /\ op.msg = 0 => op.instr = rec.instr
          /\ op.msg # 0 => op.instr = Append(rec.instr, op.msg)
      BY <2>1 DEF PromptIsOutbox, Resuming
    <3>4. CASE op.msg = 0
      BY <2>1, <3>0, <3>1, <3>2, <3>3, <3>4 DEF PromptIsOutbox, InstructionsAtLeastOnce
    <3>5. CASE op.msg # 0
      <4>1. op.msg \in 1..MaxCommands
        BY <2>1, <3>5, BoundsAreSane DEF OpType, OpRecord
      <4>2. Range(rec'.instr) = Range(rec.instr) \cup {op.msg}
        BY <3>2, <3>3, <3>5, <4>1, OutboxAppend
      <4> QED
        BY <2>1, <3>0, <3>1, <3>5, <4>2 DEF PromptIsOutbox, InstructionsAtLeastOnce
    <3> QED
      BY <3>4, <3>5
  <2> QED
    BY <2>2, <2>3
<1>28. ASSUME ResumeLaunch PROVE (PromptIsOutbox /\ InstructionsAtLeastOnce)'
  <2>1. /\ queue # <<>> /\ op \in OpType /\ op.kind = "resume" /\ op.step = "launch" /\ op.s \in Session
        /\ Range(queue) = {op} \cup Waiting(queue) /\ (Done => Ends)
    BY <1>28, AtResume, TheOp DEF ResumeLaunch, ResumeSteps
  <2>2. PromptsAsBefore
    BY <1>28, <2>1, LaunchPrompts
  <2>3. rec'.instr = rec.instr
    BY <1>28 DEF ResumeLaunch, durable
  <2>4. accepted' = accepted /\ settled \subseteq settled'
    BY <1>28 DEF ResumeLaunch, history
  <2> QED
    BY <2>2, <2>3, <2>4, OutboxKept
<1>29. ASSUME Acknowledge PROVE (PromptIsOutbox /\ InstructionsAtLeastOnce)'
  <2>1. /\ queue # <<>> /\ op \in Range(queue) /\ op.kind \in SettledKind /\ op.step = "start"
        /\ StepsTo("settle") /\ UNCHANGED <<accepted, settled>>
    BY <1>29, AtSettled DEF Acknowledge, SettleSteps, history
  <2>2. ~Resuming({"update"})'
    BY <2>1, RunsAt
  <2> DEFINE Delivered == OpTurn /\ rec.attempt = managed.attempt /\ IsPrefix(managed.instr, rec.instr)
  <2>3. CASE ~Delivered
    <3>1. rec' = rec
      BY <1>29, <2>3 DEF Acknowledge
    <3> QED
      BY <2>1, <2>2, <3>1 DEF PromptIsOutbox, InstructionsAtLeastOnce
  <2>4. CASE Delivered
    <3>0. rec' = [rec EXCEPT !.instr = Trimmed(rec.instr, Len(managed.instr))]
      BY <1>29, <2>4 DEF Acknowledge
    <3>1. /\ rec'.instr = Trimmed(rec.instr, Len(managed.instr))
          /\ rec.instr \in Seq(1..MaxCommands) /\ managed.instr \in Seq(1..MaxCommands)
      BY <3>0, OutboxSet DEF Types, ManagedType
    <3>2. Range(rec.instr) = Range(managed.instr) \cup Range(rec'.instr)
      BY <2>4, <3>1, TrimmedOutbox
    <3>3. op.kind = "settled"
      BY <2>1 DEF Turns, TurnsOver, Over, SettledKind
    <3>4. Range(managed.instr) \subseteq settled
      BY <2>1, <2>4, <3>3 DEF Turns, TurnsOver, Over, OpTurn, CurrentTurn
    <3> QED
      BY <2>1, <2>2, <3>2, <3>4 DEF PromptIsOutbox, InstructionsAtLeastOnce
  <2> QED
    BY <2>3, <2>4
<1>30. ASSUME Settle PROVE (PromptIsOutbox /\ InstructionsAtLeastOnce)'
  <2>1. /\ queue # <<>> /\ op \in OpType /\ op.kind \in SettledKind /\ op.step = "settle" /\ op.s \in Session
        /\ Range(queue) = {op} \cup Waiting(queue) /\ (Done => Ends)
    BY <1>30, AtSettled, TheOp DEF Settle, SettleSteps
  <2>2. PromptsAsBefore
    BY <1>30, <2>1, EndPrompts, StepPrompts, SettleChooses DEF StepsTo
  <2>3. rec'.instr = rec.instr
    BY <1>30 DEF Settle, durable
  <2>4. accepted' = accepted /\ settled \subseteq settled'
    BY <1>30 DEF Settle, history
  <2> QED
    BY <2>2, <2>3, <2>4, OutboxKept
<1>31. ASSUME SettleFail PROVE (PromptIsOutbox /\ InstructionsAtLeastOnce)'
  <2>1. /\ queue # <<>> /\ op \in OpType /\ op.kind \in SettledKind /\ op.step = "fail" /\ op.s \in Session
        /\ Range(queue) = {op} \cup Waiting(queue) /\ (Done => Ends)
        /\ Step("retire") => StepsTo("retire")
    BY <1>31, AtSettled, TheOp DEF SettleFail, SettleSteps
  <2>2. PromptsAsBefore
    BY <1>31, <2>1, EndPrompts, StepPrompts DEF SettleFail, StepsTo
  <2>3. rec'.instr = rec.instr
    BY <1>31, Moves, Becomes DEF SettleFail
  <2>4. accepted' = accepted /\ settled \subseteq settled'
    BY <1>31 DEF SettleFail, history
  <2> QED
    BY <2>2, <2>3, <2>4, OutboxKept
<1>32. ASSUME BlockUnsettled PROVE (PromptIsOutbox /\ InstructionsAtLeastOnce)'
  <2>1. /\ queue # <<>> /\ op \in OpType /\ op.kind \in SettledKind /\ op.step = "block" /\ op.s \in Session
        /\ Range(queue) = {op} \cup Waiting(queue) /\ (Done => Ends)
    BY <1>32, AtSettled, TheOp DEF BlockUnsettled, SettleSteps
  <2>2. PromptsAsBefore
    BY <1>32, <2>1, EndPrompts, StepPrompts DEF BlockUnsettled, StepsTo
  <2>3. rec'.instr = rec.instr
    BY <1>32, Moves, Becomes DEF BlockUnsettled
  <2>4. accepted' = accepted /\ settled \subseteq settled'
    BY <1>32 DEF BlockUnsettled, history
  <2> QED
    BY <2>2, <2>3, <2>4, OutboxKept
<1>33. ASSUME Publish PROVE (PromptIsOutbox /\ InstructionsAtLeastOnce)'
  <2>1. /\ queue # <<>> /\ op \in OpType /\ op.kind \in SettledKind /\ op.step = "publish" /\ op.s \in Session
        /\ Range(queue) = {op} \cup Waiting(queue) /\ (Done => Ends)
        /\ Step("retire") => StepsTo("retire")
    BY <1>33, AtSettled, TheOp DEF Publish, SettleSteps
  <2>2. PromptsAsBefore
    BY <1>33, <2>1, EndPrompts, StepPrompts DEF Publish, StepsTo
  <2>3. rec'.instr = rec.instr
    BY <1>33, Moves, Becomes DEF Publish
  <2>4. accepted' = accepted /\ settled \subseteq settled'
    BY <1>33 DEF Publish, history
  <2> QED
    BY <2>2, <2>3, <2>4, OutboxKept
<1>34. ASSUME Verify PROVE (PromptIsOutbox /\ InstructionsAtLeastOnce)'
  <2>1. /\ queue # <<>> /\ op \in OpType /\ op.kind \in SettledKind /\ op.step = "verify" /\ op.s \in Session
        /\ Range(queue) = {op} \cup Waiting(queue) /\ (Done => Ends)
    BY <1>34, AtSettled, TheOp DEF Verify, SettleSteps
  <2>2. PromptsAsBefore
    BY <1>34, <2>1, EndPrompts, StepPrompts, VerifyChooses DEF StepsTo
  <2>3. rec'.instr = rec.instr
    BY <1>34 DEF Verify, durable
  <2>4. accepted' = accepted /\ settled \subseteq settled'
    BY <1>34 DEF Verify, history
  <2> QED
    BY <2>2, <2>3, <2>4, OutboxKept
<1>35. ASSUME Accept PROVE (PromptIsOutbox /\ InstructionsAtLeastOnce)'
  <2>1. /\ queue # <<>> /\ op \in OpType /\ op.kind \in SettledKind /\ op.step = "accept" /\ op.s \in Session
        /\ Range(queue) = {op} \cup Waiting(queue) /\ (Done => Ends)
        /\ Step("retire") => StepsTo("retire")
        /\ Step("refuse") => StepsTo("refuse")
    BY <1>35, AtSettled, TheOp DEF Accept, SettleSteps
  <2>2. PromptsAsBefore
    BY <1>35, <2>1, EndPrompts, StepPrompts DEF Accept, StepsTo
  <2>3. rec'.instr = rec.instr
    BY <1>35, Moves, Becomes DEF Accept
  <2>4. accepted' = accepted /\ settled \subseteq settled'
    BY <1>35 DEF Accept, history
  <2> QED
    BY <2>2, <2>3, <2>4, OutboxKept
<1>36. ASSUME Refuse PROVE (PromptIsOutbox /\ InstructionsAtLeastOnce)'
  <2>1. /\ queue # <<>> /\ op \in OpType /\ op.kind \in SettledKind /\ op.step = "refuse" /\ op.s \in Session
        /\ Range(queue) = {op} \cup Waiting(queue) /\ (Done => Ends)
    BY <1>36, AtSettled, TheOp DEF Refuse, SettleSteps
  <2>2. PromptsAsBefore
    BY <1>36, <2>1, EndPrompts, StepPrompts DEF Refuse, StepsTo
  <2>3. rec'.instr = rec.instr
    BY <1>36, Moves, Becomes DEF Refuse
  <2>4. accepted' = accepted /\ settled \subseteq settled'
    BY <1>36 DEF Refuse, history
  <2> QED
    BY <2>2, <2>3, <2>4, OutboxKept
<1>37. ASSUME Retire PROVE (PromptIsOutbox /\ InstructionsAtLeastOnce)'
  <2>1. /\ queue # <<>> /\ op \in OpType /\ op.kind \in SettledKind /\ op.step = "retire" /\ op.s \in Session
        /\ Range(queue) = {op} \cup Waiting(queue) /\ (Done => Ends)
    BY <1>37, AtSettled, TheOp DEF Retire, SettleSteps
  <2>2. PromptsAsBefore
    BY <1>37, <2>1, EndPrompts, StepPrompts DEF Retire, StepsTo
  <2>3. rec'.instr = rec.instr
    BY <1>37 DEF Retire, durable
  <2>4. accepted' = accepted /\ settled \subseteq settled'
    BY <1>37 DEF Retire, history
  <2> QED
    BY <2>2, <2>3, <2>4, OutboxKept
<1>38. ASSUME AbortRead PROVE (PromptIsOutbox /\ InstructionsAtLeastOnce)'
  BY <1>38 DEF PromptIsOutbox, InstructionsAtLeastOnce, Resuming, op, AbortRead, durable, history
<1>39. ASSUME AbortInterrupt PROVE (PromptIsOutbox /\ InstructionsAtLeastOnce)'
  <2>1. PromptsAsBefore
    BY <1>39, SamePrompts DEF AbortInterrupt
  <2>2. rec'.instr = rec.instr
    BY <1>39, Moves, Becomes DEF AbortInterrupt
  <2>3. accepted' = accepted /\ settled \subseteq settled'
    BY <1>39 DEF AbortInterrupt, history
  <2> QED
    BY <2>1, <2>2, <2>3, OutboxKept
<1>40. ASSUME AbortStop PROVE (PromptIsOutbox /\ InstructionsAtLeastOnce)'
  BY <1>40 DEF PromptIsOutbox, InstructionsAtLeastOnce, Resuming, op, AbortStop, durable, history
<1>41. ASSUME PauseActive PROVE (PromptIsOutbox /\ InstructionsAtLeastOnce)'
  <2>1. queue' = queue \/ (Gains({Op("pause")}) /\ Op("pause").step = "start" /\ Op("pause").kind = "pause")
    BY <1>41, NewOps, OpQueued DEF PauseActive, Enqueue, Op
  <2>2. PromptsAsBefore
    BY <1>41, <2>1, GainPrompts, SamePrompts
  <2>3. rec'.instr = rec.instr
    BY <1>41 DEF PauseActive, durable
  <2>4. accepted' = accepted /\ settled \subseteq settled'
    BY <1>41 DEF PauseActive, history
  <2> QED
    BY <2>2, <2>3, <2>4, OutboxKept
<1>42. ASSUME NEW s \in Session, Write(s) PROVE (PromptIsOutbox /\ InstructionsAtLeastOnce)'
  BY <1>42 DEF PromptIsOutbox, InstructionsAtLeastOnce, Resuming, op, Write, control, history
<1>43. ASSUME NEW s \in Session, EndTurn(s) PROVE (PromptIsOutbox /\ InstructionsAtLeastOnce)'
  <2>1. PromptsAsBefore
    BY <1>43, TurnEnds, EndedOps, GainPrompts
  <2>2. rec'.instr = rec.instr
    BY <1>43 DEF EndTurn, durable
  <2>3. accepted' = accepted /\ settled \subseteq settled'
    BY <1>43 DEF EndTurn
  <2> QED
    BY <2>1, <2>2, <2>3, OutboxKept
<1>44. ASSUME NEW s \in Session, StopSession(s) PROVE (PromptIsOutbox /\ InstructionsAtLeastOnce)'
  BY <1>44 DEF PromptIsOutbox, InstructionsAtLeastOnce, Resuming, op, StopSession, durable,
     control, history
<1>45. ASSUME NEW s \in Session, CommitBegin(s) PROVE (PromptIsOutbox /\ InstructionsAtLeastOnce)'
  BY <1>45 DEF PromptIsOutbox, InstructionsAtLeastOnce, Resuming, op, CommitBegin, durable,
     control, history
<1>46. ASSUME NEW s \in Session, ProgressPaused(s) PROVE (PromptIsOutbox /\ InstructionsAtLeastOnce)'
  <2>1. PromptsAsBefore
    BY <1>46, SamePrompts DEF ProgressPaused, control
  <2>2. rec'.instr = rec.instr
    BY <1>46, Moves, Becomes DEF ProgressPaused, Types, RecType
  <2>3. accepted' = accepted /\ settled \subseteq settled'
    BY <1>46 DEF ProgressPaused, history
  <2> QED
    BY <2>1, <2>2, <2>3, OutboxKept
<1>47. ASSUME NEW s \in Session, Escalate(s) PROVE (PromptIsOutbox /\ InstructionsAtLeastOnce)'
  <2>1. PromptsAsBefore
    BY <1>47, SamePrompts DEF Escalate, control
  <2>2. rec'.instr = rec.instr
    BY <1>47, Moves, Becomes DEF Escalate, Types, RecType
  <2>3. accepted' = accepted /\ settled \subseteq settled'
    BY <1>47 DEF Escalate, history
  <2> QED
    BY <2>1, <2>2, <2>3, OutboxKept
<1>48. ASSUME NEW s \in Session, CompleteBegin(s) PROVE (PromptIsOutbox /\ InstructionsAtLeastOnce)'
  BY <1>48 DEF PromptIsOutbox, InstructionsAtLeastOnce, Resuming, op, CompleteBegin, durable,
     control, history
<1>49. ASSUME NEW s \in Session, Commit(s) PROVE (PromptIsOutbox /\ InstructionsAtLeastOnce)'
  BY <1>49 DEF PromptIsOutbox, InstructionsAtLeastOnce, Resuming, op, Commit, control, history
<1>50. ASSUME NEW s \in Session, CompleteVerify(s) PROVE (PromptIsOutbox /\ InstructionsAtLeastOnce)'
  BY <1>50 DEF PromptIsOutbox, InstructionsAtLeastOnce, Resuming, op, CompleteVerify, durable,
     control, history
<1>51. ASSUME NEW s \in Session, CompleteWrite(s) PROVE (PromptIsOutbox /\ InstructionsAtLeastOnce)'
  BY <1>51 DEF PromptIsOutbox, InstructionsAtLeastOnce, Resuming, op, CompleteWrite, durable,
     control, history
<1>52. ASSUME NEW s \in Session, CompleteWritten(s) PROVE (PromptIsOutbox /\ InstructionsAtLeastOnce)'
  BY <1>52 DEF PromptIsOutbox, InstructionsAtLeastOnce, Resuming, op, CompleteWritten, control,
     history
<1>53. ASSUME NEW s \in Session, CompleteUpdate(s) PROVE (PromptIsOutbox /\ InstructionsAtLeastOnce)'
  <2>1. PromptsAsBefore
    BY <1>53, SamePrompts DEF CompleteUpdate, control
  <2>2. rec'.instr = rec.instr
    BY <1>53, Moves, Becomes DEF CompleteUpdate, Types, RecType
  <2>3. accepted' = accepted /\ settled \subseteq settled'
    BY <1>53 DEF CompleteUpdate, history
  <2> QED
    BY <2>1, <2>2, <2>3, OutboxKept
<1>54. ASSUME NEW s \in Session, CompleteClean(s) PROVE (PromptIsOutbox /\ InstructionsAtLeastOnce)'
  BY <1>54 DEF PromptIsOutbox, InstructionsAtLeastOnce, Resuming, op, CompleteClean, control,
     history
<1>55. ASSUME Crash PROVE (PromptIsOutbox /\ InstructionsAtLeastOnce)'
  BY <1>55 DEF PromptIsOutbox, InstructionsAtLeastOnce, Resuming, Crash, history
<1>56. ASSUME Reconcile PROVE (PromptIsOutbox /\ InstructionsAtLeastOnce)'
  <2>1. PromptsAsBefore
    BY <1>56, SamePrompts DEF Reconcile, control
  <2>2. rec'.instr = rec.instr
    BY <1>56, Moves, Becomes DEF Reconcile, Types, RecType
  <2>3. accepted' = accepted /\ settled \subseteq settled'
    BY <1>56 DEF Reconcile, history
  <2> QED
    BY <2>1, <2>2, <2>3, OutboxKept
<1>57. ASSUME Recover PROVE (PromptIsOutbox /\ InstructionsAtLeastOnce)'
  <2>1. PromptsAsBefore
    BY <1>57, SamePrompts DEF Recover, control
  <2>2. rec'.instr = rec.instr
    BY <1>57, Moves, Becomes DEF Recover
  <2>3. accepted' = accepted /\ settled \subseteq settled'
    BY <1>57 DEF Recover, history
  <2> QED
    BY <2>1, <2>2, <2>3, OutboxKept
<1> QED
  BY <1>1, <1>2, <1>3, <1>4, <1>5, <1>6, <1>7, <1>8, <1>9, <1>10, <1>11, <1>12, <1>13, <1>14,
     <1>15, <1>16, <1>17, <1>18, <1>19, <1>20, <1>21, <1>22, <1>23, <1>24, <1>25, <1>26, <1>27,
     <1>28, <1>29, <1>30, <1>31, <1>32, <1>33, <1>34, <1>35, <1>36, <1>37, <1>38, <1>39, <1>40,
     <1>41, <1>42, <1>43, <1>44, <1>45, <1>46, <1>47, <1>48, <1>49, <1>50, <1>51, <1>52, <1>53,
     <1>54, <1>55, <1>56, <1>57 DEF Next, Creating, Operating, Queued, Aborting, Calling, Called,
     Restarting

-----------------------------------------------------------------------------
(* One writer *)

\* What the record's life says of a step: what has failed stays so, and what has begun too.
LEMMA LivesOn ==
  ASSUME Types, Lives
  PROVE  /\ rec.status = "failed" => rec'.status = "failed"
         /\ rec.status \notin NotBegun => rec'.status \notin NotBegun
<1>1. rec.pending \in {"none", "paused", "blocked", "completed", "failed"}
  BY DEF Types, RecType, PendingSet
<1>2. CASE UNCHANGED Lifecycle!vars
  BY <1>2 DEF Lifecycle!vars
<1>3. CASE Lifecycle!Next
  BY <1>1, <1>3 DEF Lifecycle!Next, Lifecycle!Reserve, Lifecycle!Start, Lifecycle!Begin,
     Lifecycle!AskPause, Lifecycle!Submit, Lifecycle!Reconcile, Lifecycle!Publish, Lifecycle!Block,
     Lifecycle!Interrupt, Lifecycle!Fail, Lifecycle!Resume, Lifecycle!Integrate, Lifecycle!Conflict,
     Lifecycle!Become, Lifecycle!Running, Lifecycle!Resumable, Lifecycle!Finished,
     Lifecycle!Dispositions, NotBegun
<1> QED
  BY <1>2, <1>3 DEF Lives

\* The handler of a turn that settled, and is still the last: nobody runs a turn, and its
\* session is not being stopped either.
LEMMA TurnQuiet ==
  ASSUME Types, Turns, Writer, queue # <<>>, op.kind \in SettledKind, OpTurn
  PROVE  (\A u \in Session : sess[u] # "busy") /\ ~Runs(op.s)
<1>1. op \in Range(queue) /\ op.s \in Session
  BY TheOp DEF OpType, HasSession
<1>2. live = op.s /\ managed.s = op.s /\ managed.turn = op.turn
  BY DEF OpTurn, CurrentTurn
<1>3. sess[op.s] # "busy"
  BY <1>1, <1>2 DEF Turns, TurnsOver, Over
<1>4. sess[op.s] # "stopping"
  BY <1>1, <1>2 DEF Writer, StoppingCause
<1>5. \A s \in Session : sess[s] = "busy" => managed.s = s
  BY DEF Writer, BusyAttached
<1> QED
  BY <1>2, <1>3, <1>4, <1>5 DEF Runs

\* What the operation that runs may go on to, so that the session that it holds idles.
Works ==
    /\ Idles' => Idles \/ ((\A u \in Session : sess[u] # "busy") /\ rec'.status \notin NotBegun)
    /\ Owns' => (Owns /\ op'.s = op.s) \/ sess'[op'.s] \notin {"busy", "stopping"}
    /\ Resuming({"launch"})' =>
          rec'.status = "working" \/ (Resuming({"launch"}) /\ rec'.status = rec.status)
Prompts ==
    Resuming({"update", "launch"})' =>
        \/ Resuming({"update", "launch"}) /\ op'.s = op.s /\ (op.stale => op'.stale)
        \/ live = op'.s
WorksAsBefore ==
    /\ Idles' => Idles
    /\ Owns' => Owns /\ op'.s = op.s
    /\ Resuming({"update", "launch"})' =>
          Resuming({"update", "launch"}) /\ op'.s = op.s /\ (op.stale => op'.stale)
    /\ Resuming({"launch"})' => Resuming({"launch"})

\* An operation that is done leaves none that is past its first steps ...
LEMMA EndWorks ==
  ASSUME Waits, Ends
  PROVE  /\ ~Idles' /\ ~Owns' /\ ~Resuming({"update", "launch"})' /\ ~Resuming({"launch"})'
         /\ WorksAsBefore
<1>1. ~Resuming(ResumeSteps \ {"start"})' /\ ~Settling({"retire"})'
  BY NothingRuns DEF ResumeSteps
<1>2. ~Resuming({"update", "launch"})' /\ ~Resuming({"launch"})'
  BY NothingRuns
<1> QED
  BY <1>1, <1>2 DEF WorksAsBefore, Idles, Owns, Resumes

\* ... nor is one that has only begun.
LEMMA FirstWorks ==
  ASSUME queue' # <<>> => op'.step \in {"start", "settle"}
  PROVE  /\ ~Idles' /\ ~Owns' /\ ~Resuming({"update", "launch"})' /\ ~Resuming({"launch"})'
         /\ WorksAsBefore
BY DEF WorksAsBefore, Idles, Owns, Resumes, Resuming, Settling, ResumeSteps

\* What is queued behind the operation that runs leaves it what it was ...
LEMMA GainWorks ==
  ASSUME NEW E, Gains(E), \A o \in E : o.step \in {"start", "settle"}
  PROVE  WorksAsBefore
<1>1. CASE queue = <<>>
  <2>1. op'.step \in {"start", "settle"}
    BY <1>1 DEF Gains
  <2> QED
    BY <2>1, FirstWorks
<1>2. CASE queue # <<>>
  BY <1>2 DEF Gains, WorksAsBefore, Idles, Owns, Resumes, Resuming, Settling
<1> QED
  BY <1>1, <1>2

\* ... as does a step that leaves the queue alone ...
LEMMA SameWorks ==
  ASSUME queue' = queue
  PROVE  WorksAsBefore
BY DEF WorksAsBefore, Idles, Owns, Resumes, Resuming, Settling, op

\* ... and an abort, which only supersedes it.
LEMMA SupersededWorks ==
  ASSUME Types, queue' = Superseded(queue)
  PROVE  WorksAsBefore
<1>1. /\ queue' # <<>> <=> queue # <<>>
      /\ queue # <<>> =>
            /\ op'.kind = op.kind /\ op'.step = op.step /\ op'.s = op.s /\ op'.made = op.made
            /\ op.kind = "resume" => op'.stale
  BY SupersededOp
<1> QED
  BY <1>1 DEF WorksAsBefore, Idles, Owns, Resumes, Resuming, Settling

\* A handler that does not retire its session, and a resume before its update, go on.
LEMMA StepWorks ==
  ASSUME NEW w, queue # <<>>, GoesTo(w), SameSession,
         \/ op.kind \in SettledKind /\ w # "retire"
         \/ op.kind = "resume" /\ op.step \in ResumeSteps \ {"start"} /\ w \notin {"update", "launch"}
  PROVE  WorksAsBefore
<1>1. /\ op'.kind = op.kind /\ op'.step = w /\ op'.s = op.s /\ op'.made = op.made
      /\ op'.stale = op.stale
  BY DEF GoesTo, SameSession
<1>2. "resume" \notin SettledKind
  BY DEF SettledKind
<1> QED
  BY <1>1, <1>2 DEF WorksAsBefore, Idles, Owns, Resumes, Resuming, Settling

\* What runs as before idles as before.
LEMMA BeforeWorks ==
  ASSUME WorksAsBefore, rec'.status = rec.status \/ ~Resuming({"launch"})
  PROVE  Works /\ Prompts
BY DEF WorksAsBefore, Works, Prompts

\* A step that eases the sessions keeps those that must idle idle.
LEMMA EasedKept ==
  ASSUME Types, Writer, Lives, Eased, Works
  PROVE  NobodyBusy' /\ OwnIdle' /\ Begun' /\ Launching' /\ OneSession'
<1>1. NobodyBusy'
  BY DEF Writer, NobodyBusy, Works, Eased
<1>2. OwnIdle'
  <2> SUFFICES ASSUME Owns' PROVE sess'[op'.s] \notin {"busy", "stopping"}
    BY DEF OwnIdle, Runs
  <2>1. CASE Owns /\ op'.s = op.s
    <3>1. queue # <<>> /\ (op.made \/ op.kind \in SettledKind)
      BY <2>1 DEF Owns, Resumes, Resuming, Settling
    <3>2. op.s \in Session
      BY <3>1, TheOp DEF OpType, HasSession
    <3>3. ~Runs(op.s)
      BY <2>1 DEF Writer, OwnIdle
    <3> QED
      BY <2>1, <3>2, <3>3 DEF Eased, Runs
  <2> QED
    BY <2>1 DEF Works
<1>3. Begun'
  <2>1. Idles' => rec'.status \notin NotBegun
    BY LivesOn DEF Writer, Begun, Works
  <2>2. rec'.status \in NotBegun => \A s \in Session : ~Runs(s)
    BY LivesOn DEF Writer, Begun
  <2> QED
    BY <2>1, <2>2 DEF Begun, Eased, Runs
<1>4. Launching'
  BY DEF Writer, Launching, Works
<1>5. OneSession'
  BY DEF Writer, OneSession, Eased, Runs
<1> QED
  BY <1>1, <1>2, <1>3, <1>4, <1>5

\* A step after which no session runs its turn, or stops, that did not before.
Lulls ==
    \A s \in Session :
        /\ sess[s] # "none" => sess'[s] # "none"
        /\ sess'[s] = "busy" => sess[s] = "busy"
        /\ sess'[s] = "stopping" => sess[s] = "stopping"

\* So does one that leaves them alone.
LEMMA SameLulls ==
  ASSUME sess' = sess
  PROVE  Lulls
BY DEF Lulls

\* It keeps the writer, when it leaves the sessions where they are attached.
LEMMA CalmKept ==
  ASSUME Types, Writer, Lives, Lulls, live' = live, managed'.s = managed.s, Works, Prompts,
         abort.step = "stop" => abort' = abort,
         create.step = "swap" => create' = create,
         create'.s = create.s \/ create'.s = 0,
         create'.step = "drop" => create.step = "drop" \/ rec'.status = "failed",
         \/ rec'.status = rec.status
         \/ \A u \in Session : sess[u] # "busy"
         \/ rec'.status \in Running \cup {"verifying", "failed"}
  PROVE  Writer'
<1>0. 0 \notin Session /\ Eased
  BY BoundsAreSane DEF Session, Lulls, Eased, Runs
<1>1. NobodyBusy' /\ OwnIdle' /\ Begun' /\ Launching' /\ OneSession'
  BY <1>0, EasedKept
<1>2. BusyAttached'
  BY DEF Writer, BusyAttached, Lulls
<1>3. StoppingCause'
  BY LivesOn DEF Writer, StoppingCause, Lulls
<1>4. CreateLive'
  BY <1>0 DEF Writer, CreateLive, Lulls
<1>5. ResumeLive'
  <2> SUFFICES ASSUME Resuming({"update", "launch"})', ~op'.stale, managed'.s = op'.s, create'.s = op'.s
               PROVE  live' = op'.s
    BY DEF ResumeLive
  <2>1. CASE Resuming({"update", "launch"}) /\ op'.s = op.s /\ (op.stale => op'.stale)
    <3>1. op.s \in Session
      BY <2>1, AttachedHeld DEF Resuming, HeldSteps
    <3> QED
      BY <1>0, <2>1, <3>1 DEF Writer, ResumeLive
  <2> QED
    BY <2>1 DEF Prompts
<1>6. Dropping'
  BY LivesOn DEF Writer, Dropping
<1> QED
  BY <1>1, <1>2, <1>3, <1>4, <1>5, <1>6 DEF Writer

\* A step that drops a session, which does not run or whose Worker has failed.
LEMMA DropKept ==
  ASSUME Types, Writer, NEW x, Drops(x), UNCHANGED <<rec, abort>>,
         create' = create \/ (create.step # "swap" /\ create' = Idle),
         ~Runs(x) \/ (create.step # "swap" /\ (sess[x] = "busy" => rec.status = "failed"))
  PROVE  BusyAttached' /\ StoppingCause' /\ CreateLive' /\ Dropping'
<1>0. x \in Session /\ 0 \notin Session
  BY BoundsAreSane DEF Drops, Session
<1>1. ASSUME NEW t \in Session, sess'[t] = "busy"
      PROVE  t # x /\ sess[t] = "busy"
  BY <1>0, <1>1 DEF Drops, Stops
<1>2. BusyAttached'
  BY <1>1 DEF Writer, BusyAttached, Drops
<1>3. StoppingCause'
  <2> SUFFICES ASSUME NEW t \in Session, sess'[t] = "stopping"
               PROVE  /\ live' # t
                      /\ \/ rec.status = "failed" \/ (abort.step = "stop" /\ abort.s = t)
                         \/ managed'.s = t /\ create'.step = "swap"
    BY DEF StoppingCause
  <2>1. CASE t # x
    <3>1. sess[t] = "stopping"
      BY <2>1 DEF Drops, Stops
    <3>2. live # t /\ \/ rec.status = "failed" \/ (abort.step = "stop" /\ abort.s = t)
                      \/ managed.s = t /\ create.step = "swap"
      BY <3>1 DEF Writer, StoppingCause
    <3>3. live' # t
      BY <1>0, <3>2 DEF Drops
    <3> QED
      BY <2>1, <3>2, <3>3 DEF Drops
  <2>2. CASE t = x
    <3>1. Runs(x) /\ live' # x
      BY <2>2 DEF Drops, Stops
    <3>2. CASE sess[x] = "busy"
      BY <2>2, <3>1, <3>2
    <3>3. CASE sess[x] = "stopping"
      BY <1>0, <2>2, <3>1, <3>3 DEF Writer, StoppingCause
    <3> QED
      BY <3>1, <3>2, <3>3 DEF Runs
  <2> QED
    BY <2>1, <2>2
<1>4. CreateLive'
  BY <1>0, <1>1 DEF Writer, CreateLive, Drops, Idle
<1>5. Dropping'
  BY DEF Writer, Dropping, Idle
<1> QED
  BY <1>2, <1>3, <1>4, <1>5

\* A resume that fails keeps it too: the session that it made does not run.
LEMMA FailsKept ==
  ASSUME Types, Order, Writer, Lives, queue # <<>>, op.kind = "resume",
         op.step \in ResumeSteps \ {"start"}, op.s \in Session, ResumeFails, UNCHANGED <<rec, create, abort>>
  PROVE  Writer'
<1>1. /\ Ends /\ Eased
      /\ UNCHANGED <<live, managed, sess>> \/ (op.made /\ Drops(op.s))
  BY ResumeFailed
<1>2. /\ Works /\ Prompts /\ ~Resuming({"update", "launch"})'
  BY <1>1, EndWorks, BeforeWorks DEF Order
<1>3. CASE UNCHANGED <<live, managed, sess>>
  BY <1>2, <1>3, SameLulls, CalmKept
<1>4. CASE op.made /\ Drops(op.s)
  <2>1. ~Runs(op.s)
    BY <1>4 DEF Writer, OwnIdle, Owns, Resumes, Resuming
  <2>2. BusyAttached' /\ StoppingCause' /\ CreateLive' /\ Dropping'
    BY <1>4, <2>1, DropKept
  <2>3. NobodyBusy' /\ OwnIdle' /\ Begun' /\ Launching' /\ OneSession'
    BY <1>1, <1>2, EasedKept
  <2>4. ResumeLive'
    BY <1>2 DEF ResumeLive
  <2> QED
    BY <2>2, <2>3, <2>4 DEF Writer
<1> QED
  BY <1>1, <1>3, <1>4

\* Every step keeps the Worker to one writer, and keeps the reasons for it.
LEMMA WriterStep ==
  ASSUME Types, Order, Life, Turns, Writer, Lives, Next
  PROVE  Writer'
<1>1. ASSUME CreateRequest PROVE Writer'
  <2>1. WorksAsBefore
    BY <1>1, SameWorks DEF CreateRequest
  <2>2. /\ create.step = "swap" => create' = create
        /\ create'.s = create.s \/ create'.s = 0
        /\ create'.step # "drop"
    BY <1>1, Creates DEF CreateRequest, CreateAt, Idle
  <2>3. UNCHANGED <<rec, live, sess, managed, abort>>
    BY <1>1 DEF CreateRequest, durable, sessions
  <2> QED
    BY <2>1, <2>2, <2>3, SameLulls, BeforeWorks, CalmKept
<1>2. ASSUME CreateReserve PROVE Writer'
  <2>1. WorksAsBefore
    BY <1>2, SameWorks DEF CreateReserve
  <2>2. rec' = rec \/ (rec'.status = "queued" /\ rec'.attempt = 1 /\ rec'.pending = rec.pending)
    BY <1>2 DEF CreateReserve, Types, RecType
  <2>3. \/ rec'.status = rec.status
        \/ \A u \in Session : sess[u] # "busy"
        \/ rec'.status \in Running \cup {"verifying", "failed"}
    BY <1>2, <2>2 DEF CreateAt, Life, ReserveFirst, Writer, Begun, NotBegun, Runs, CreateReserve
  <2>4. ~Resuming({"launch"})
    BY <1>2 DEF CreateReserve, StoreFree, Resuming
  <2>5. /\ create.step = "swap" => create' = create
        /\ create'.s = create.s \/ create'.s = 0
        /\ create'.step # "drop"
    BY <1>2, Creates DEF CreateReserve, CreateAt, Idle
  <2>6. UNCHANGED <<live, sess, managed, abort>>
    BY <1>2 DEF CreateReserve, sessions
  <2> QED
    BY <2>1, <2>3, <2>4, <2>5, <2>6, SameLulls, BeforeWorks, CalmKept
<1>3. ASSUME CreateStart PROVE Writer'
  <2>1. WorksAsBefore
    BY <1>3, SameWorks DEF CreateStart
  <2>2. rec' = rec \/ (/\ rec.status = "queued" /\ rec'.status = "starting"
                       /\ rec'.pending = rec.pending /\ rec'.attempt = rec.attempt)
    BY <1>3, Moves DEF CreateStart
  <2>3. \/ rec'.status = rec.status
        \/ \A u \in Session : sess[u] # "busy"
        \/ rec'.status \in Running \cup {"verifying", "failed"}
    BY <1>3, <2>2 DEF Writer, Begun, NotBegun, Runs
  <2>4. ~Resuming({"launch"})
    BY <1>3 DEF CreateStart, StoreFree, Resuming
  <2>5. /\ create.step = "swap" => create' = create
        /\ create'.s = create.s \/ create'.s = 0
        /\ create'.step # "drop"
    BY <1>3, Creates DEF CreateStart, CreateAt, Idle
  <2>6. UNCHANGED <<live, sess, managed, abort>>
    BY <1>3 DEF CreateStart, sessions
  <2> QED
    BY <2>1, <2>3, <2>4, <2>5, <2>6, SameLulls, BeforeWorks, CalmKept
<1>4. ASSUME CreatePlan PROVE Writer'
  <2>1. WorksAsBefore
    BY <1>4, SameWorks DEF CreatePlan
  <2>2. /\ create.step = "swap" => create' = create
        /\ create'.s = create.s \/ create'.s = 0
        /\ create'.step # "drop"
    BY <1>4, Creates DEF CreatePlan, CreateAt, Idle
  <2>3. UNCHANGED <<rec, live, sess, managed, abort>>
    BY <1>4 DEF CreatePlan, durable, sessions
  <2> QED
    BY <2>1, <2>2, <2>3, SameLulls, BeforeWorks, CalmKept
<1>5. ASSUME CreateAddTree PROVE Writer'
  <2>1. WorksAsBefore
    BY <1>5, SameWorks DEF CreateAddTree
  <2>2. /\ create.step = "swap" => create' = create
        /\ create'.s = create.s \/ create'.s = 0
        /\ create'.step # "drop"
    BY <1>5, Creates DEF CreateAddTree, CreateAt, Idle
  <2>3. UNCHANGED <<rec, live, sess, managed, abort>>
    BY <1>5 DEF CreateAddTree, sessions
  <2> QED
    BY <2>1, <2>2, <2>3, SameLulls, BeforeWorks, CalmKept
<1>6. ASSUME CreateAddTreeFails PROVE Writer'
  <2>1. WorksAsBefore
    BY <1>6, SameWorks DEF CreateAddTreeFails
  <2>2. /\ create.step = "swap" => create' = create
        /\ create'.s = create.s \/ create'.s = 0
        /\ create'.step # "drop"
    BY <1>6, Creates DEF CreateAddTreeFails, CreateAt, Idle
  <2>3. UNCHANGED <<rec, live, sess, managed, abort>>
    BY <1>6 DEF CreateAddTreeFails, sessions
  <2> QED
    BY <2>1, <2>2, <2>3, SameLulls, BeforeWorks, CalmKept
<1>7. ASSUME CreateOpen PROVE Writer'
  <2>1. /\ Eased /\ Fresh \in Session /\ sess[Fresh] = "none" /\ live' = Fresh
        /\ sess'[Fresh] = "building" /\ \A t \in Session : t # Fresh => sess'[t] = sess[t]
        /\ UNCHANGED <<queue, managed, rec, abort>>
        /\ create.step = "open" /\ create'.step = "build" /\ create'.s = Fresh
    BY <1>7, Makes DEF CreateOpen, CreateAt, control, durable
  <2>2. WorksAsBefore /\ Works
    BY <2>1, SameWorks, BeforeWorks
  <2>3. NobodyBusy' /\ OwnIdle' /\ Begun' /\ Launching' /\ OneSession'
    BY <2>1, <2>2, EasedKept
  <2>4. BusyAttached' /\ StoppingCause' /\ CreateLive' /\ Dropping'
    BY <2>1 DEF Writer, BusyAttached, StoppingCause, CreateLive, Dropping
  <2>5. ResumeLive'
    <3>1. Resuming({"update", "launch"})' => Resuming(HeldSteps) /\ op'.s = op.s
      BY <2>2 DEF WorksAsBefore, Resuming, HeldSteps
    <3> QED
      BY <2>1, <3>1 DEF ResumeLive, Turns, Held
  <2> QED
    BY <2>3, <2>4, <2>5 DEF Writer
<1>8. ASSUME CreateBuilt PROVE Writer'
  <2>1. /\ create.s \in Session /\ create.step = "build" /\ live' = live /\ create'.s = create.s
        /\ Unused(create.s) /\ UNCHANGED <<rec, abort>> /\ managed.s # create.s
    BY <1>8, CreateBuilds DEF Turns, CreatingNew, NewSteps, Unused, CreateBuilt, durable
  <2>2. /\ WorksAsBefore /\ Works
        /\ Resuming({"update", "launch"})' => op'.s # create.s
    <3>1. WorksAsBefore
      BY <1>8, SameWorks DEF CreateBuilt
    <3>2. Resuming({"update", "launch"})' => Resuming(HeldSteps) /\ op'.s = op.s
      BY <3>1 DEF WorksAsBefore, Resuming, HeldSteps
    <3> QED
      BY <2>1, <3>1, <3>2, BeforeWorks DEF Turns, CreatingNew, NewSteps
  <2>3. ASSUME NEW t \in Session
        PROVE  /\ sess[t] # "none" => sess'[t] # "none"
               /\ sess'[t] = "busy" => /\ t # create.s /\ sess[t] = "busy"
                                       /\ managed'.s = managed.s
               /\ sess'[t] = "stopping" =>
                     /\ t # create.s /\ Runs(t)
                     /\ \/ sess[t] = "stopping"
                        \/ managed'.s = t /\ create'.step = "swap" /\ live # t
    <3>1. CASE t = create.s
      BY <1>8, <3>1, CreateBuilds
    <3>2. CASE t # create.s /\ t = managed.s
      BY <1>8, <2>1, <3>2, CreateBuilds, BoundsAreSane DEF Runs, Session
    <3>3. CASE t # create.s /\ t # managed.s
      <4>1. sess'[t] = sess[t]
        BY <1>8, <3>3, CreateBuilds
      <4>2. sess[t] # "busy"
        BY <3>3 DEF Writer, BusyAttached
      <4> QED
        BY <3>3, <4>1, <4>2 DEF Runs
    <3> QED
      BY <3>1, <3>2, <3>3
  <2>4. Eased
    BY <2>3 DEF Eased
  <2>5. NobodyBusy' /\ OwnIdle' /\ Begun' /\ Launching' /\ OneSession'
    BY <2>2, <2>4, EasedKept
  <2>6. BusyAttached'
    BY <2>1, <2>3 DEF Writer, BusyAttached
  <2>7. StoppingCause'
    <3> SUFFICES ASSUME NEW t \in Session, sess'[t] = "stopping"
                 PROVE  /\ live' # t
                        /\ \/ rec'.status = "failed" \/ (abort'.step = "stop" /\ abort'.s = t)
                           \/ managed'.s = t /\ create'.step = "swap"
      BY DEF StoppingCause
    <3> QED
      BY <2>1, <2>3 DEF Writer, StoppingCause
  <2>8. CreateLive' /\ ResumeLive'
    BY <2>1, <2>2, <2>3 DEF CreateLive, ResumeLive
  <2>9. Dropping'
    BY <1>8, CreateBuilds DEF Dropping
  <2> QED
    BY <2>5, <2>6, <2>7, <2>8, <2>9 DEF Writer
<1>9. ASSUME CreateSwap PROVE Writer'
  <2>1. /\ create.step = "swap" /\ create'.step = "begin" /\ managed'.s = create.s /\ create'.s = create.s
        /\ UNCHANGED <<rec, abort, live, sess, queue>> /\ (managed.s # 0 => sess[managed.s] = "gone")
    BY <1>9, Creates DEF CreateSwap, CreateAt, NoRuntime, durable
  <2>2. /\ WorksAsBefore /\ Works
        /\ Resuming({"update", "launch"})' => op'.s # create.s
    <3>1. WorksAsBefore
      BY <2>1, SameWorks
    <3>2. Resuming({"update", "launch"})' => Resuming(HeldSteps) /\ op'.s = op.s
      BY <3>1 DEF WorksAsBefore, Resuming, HeldSteps
    <3> QED
      BY <2>1, <3>1, <3>2, BeforeWorks DEF Turns, CreatingNew, NewSteps
  <2>3. \A t \in Session : sess[t] # "busy" /\ (sess[t] = "stopping" => managed.s # t)
    BY <2>1, BoundsAreSane DEF Writer, BusyAttached, Session
  <2>4. NobodyBusy' /\ OwnIdle' /\ Begun' /\ Launching' /\ OneSession'
    BY <2>1, <2>2, SameEase, EasedKept
  <2>5. BusyAttached' /\ StoppingCause' /\ CreateLive' /\ ResumeLive' /\ Dropping'
    BY <2>1, <2>2, <2>3 DEF Writer, BusyAttached, StoppingCause, CreateLive, ResumeLive, Dropping
  <2> QED
    BY <2>4, <2>5 DEF Writer
<1>10. ASSUME CreateBegin PROVE Writer'
  <2>1. /\ create.step = "begin" /\ create.s \in Session /\ UNCHANGED <<live, queue, abort>>
        /\ WorksAsBefore /\ ~Resuming({"launch"})
    BY <1>10, SameWorks DEF CreateBegin, CreateAt, Types, CreateType, StoreFree, Resuming
  <2>2. CASE CreateTo("fail") /\ UNCHANGED <<rec, managed, sess>>
    <3>1. create'.step = "fail" /\ create'.s = create.s
      BY <2>2, Creates
    <3> QED
      BY <2>1, <2>2, <3>1, SameLulls, BeforeWorks, CalmKept
  <2>3. CASE /\ rec.status = "starting" /\ managed.s = create.s /\ Move("working")
             /\ managed' = Launched(<<>>) /\ sess' = [sess EXCEPT ![create.s] = "busy"]
             /\ create' = Idle
    <3>1. /\ rec'.status = "working" /\ managed'.s = create.s
          /\ sess'[create.s] = "busy" /\ \A t \in Session : t # create.s => sess'[t] = sess[t]
      BY <2>1, <2>3, Moves DEF Launched, Types, ManagedType
    <3>2. ~Idles /\ \A t \in Session : ~Runs(t)
      BY <2>3 DEF Writer, Begun, NotBegun
    <3>3. \A t \in Session : sess'[t] \in {"busy", "stopping"} => t = create.s /\ sess'[t] = "busy"
      BY <3>1, <3>2 DEF Runs
    <3>4. ~Idles' /\ ~Owns' /\ ~Resuming({"update", "launch"})' /\ ~Resuming({"launch"})'
      <4>1. ~Idles' /\ ~Resuming({"launch"})'
        BY <2>1, <3>2 DEF WorksAsBefore
      <4>2. Owns' => Idles'
        BY DEF Owns, Idles
      <4>3. Resuming({"update", "launch"})' => Idles'
        BY DEF Resuming, Idles, Resumes, ResumeSteps
      <4> QED
        BY <4>1, <4>2, <4>3
    <3>5. BusyAttached' /\ StoppingCause' /\ OneSession'
      BY <3>1, <3>3 DEF BusyAttached, StoppingCause, OneSession, Runs, Running
    <3>6. NobodyBusy' /\ OwnIdle' /\ Begun' /\ Launching' /\ ResumeLive'
      BY <3>1, <3>4 DEF NobodyBusy, OwnIdle, Begun, NotBegun, Launching, ResumeLive
    <3>7. CreateLive' /\ Dropping'
      BY <2>3, BoundsAreSane DEF CreateLive, Dropping, Idle, Session
    <3> QED
      BY <3>5, <3>6, <3>7 DEF Writer
  <2> QED
    BY <1>10, <2>2, <2>3 DEF CreateBegin
<1>11. ASSUME CreateFail PROVE Writer'
  <2>1. /\ create.step = "fail" /\ UNCHANGED <<queue, abort>>
        /\ WorksAsBefore /\ ~Resuming({"launch"})
    BY <1>11, SameWorks DEF CreateFail, CreateAt, StoreFree, Resuming
  <2>2. CASE Become("failed") /\ CreateTo("drop") /\ UNCHANGED <<live, managed, sess>>
    <3>1. rec'.status = "failed" /\ create'.s = create.s
      BY <2>2, Becomes, Creates
    <3> QED
      BY <2>1, <2>2, <3>1, SameLulls, BeforeWorks, CalmKept
  <2>3. ASSUME ~(/\ create.s = 0 \/ live = create.s
                 /\ rec.status \in {"queued"} \cup ActiveStatuses),
               CreateDropped, UNCHANGED rec
        PROVE  Writer'
    <3>0. create' = Idle /\ create'.s = 0 /\ create'.step = "idle"
      BY <2>3 DEF CreateDropped, Idle
    <3>1. CASE create.s = 0
      <4>1. UNCHANGED <<live, managed, sess>>
        BY <2>1, <2>3, <3>0, <3>1 DEF CreateDropped
      <4> QED
        BY <2>1, <2>3, <3>0, <3>1, <4>1, SameLulls, BeforeWorks, CalmKept
    <3>2. CASE create.s # 0
      <4>1. create.s \in Session
        BY <3>2, BoundsAreSane DEF Types, CreateType, Session
      <4>2. Drops(create.s)
        BY <2>1, <2>3, <3>0, <3>2, <4>1, Dropped DEF CreateDropped
      <4>3. sess[create.s] = "busy" => rec.status = "failed"
        BY <2>3, <4>1 DEF Writer, CreateLive, BusyAttached, Running, ActiveStatuses
      <4>4. BusyAttached' /\ StoppingCause' /\ CreateLive' /\ Dropping'
        BY <2>1, <2>3, <3>0, <4>2, <4>3, DropKept
      <4>5. NobodyBusy' /\ OwnIdle' /\ Begun' /\ Launching' /\ OneSession'
        BY <2>1, <2>3, <3>0, <4>2, StopsEase, BeforeWorks, EasedKept DEF Drops
      <4>6. ResumeLive'
        <5>1. Resuming({"update", "launch"})' => Resuming(HeldSteps) /\ op'.s = op.s
          BY <2>1 DEF WorksAsBefore, Resuming, HeldSteps
        <5> QED
          BY <2>1, <2>3, <3>0, <5>1, AttachedHeld, BoundsAreSane DEF ResumeLive, Session
      <4> QED
        BY <4>4, <4>5, <4>6 DEF Writer
    <3> QED
      BY <3>1, <3>2
  <2> QED
    BY <1>11, <2>2, <2>3 DEF CreateFail
<1>12. ASSUME CreateDrop PROVE Writer'
  <2>1. /\ create.step = "drop" /\ CreateDropped /\ UNCHANGED <<rec, queue, abort>> /\ WorksAsBefore
    BY <1>12, SameWorks DEF CreateDrop, CreateAt, durable
  <2>2. create' = Idle /\ create'.s = 0 /\ create'.step = "idle"
    BY <2>1 DEF CreateDropped, Idle
  <2>3. CASE TRUE
    <3>1. CASE create.s = 0
      <4>1. UNCHANGED <<live, managed, sess>>
        BY <2>1, <2>2, <3>1 DEF CreateDropped
      <4> QED
        BY <2>1, <2>2, <3>1, <4>1, SameLulls, BeforeWorks, CalmKept
    <3>2. CASE create.s # 0
      <4>1. create.s \in Session
        BY <3>2, BoundsAreSane DEF Types, CreateType, Session
      <4>2. Drops(create.s)
        BY <2>1, <2>2, <3>2, <4>1, Dropped DEF CreateDropped
      <4>3. sess[create.s] = "busy" => rec.status = "failed"
        BY <2>1 DEF Writer, Dropping
      <4>4. BusyAttached' /\ StoppingCause' /\ CreateLive' /\ Dropping'
        BY <2>1, <2>2, <4>2, <4>3, DropKept
      <4>5. NobodyBusy' /\ OwnIdle' /\ Begun' /\ Launching' /\ OneSession'
        BY <2>1, <2>2, <4>2, StopsEase, BeforeWorks, EasedKept DEF Drops
      <4>6. ResumeLive'
        <5>1. Resuming({"update", "launch"})' => Resuming(HeldSteps) /\ op'.s = op.s
          BY <2>1 DEF WorksAsBefore, Resuming, HeldSteps
        <5> QED
          BY <2>1, <2>2, <5>1, AttachedHeld, BoundsAreSane DEF ResumeLive, Session
      <4> QED
        BY <4>4, <4>5, <4>6 DEF Writer
    <3> QED
      BY <3>1, <3>2
  <2> QED
    BY <2>3
<1>13. ASSUME PauseRequest PROVE Writer'
  <2>1. Gains({Op("pause")}) /\ Op("pause").step = "start" /\ Op("pause").kind = "pause"
    BY <1>13, NewOps, OpQueued DEF PauseRequest, Enqueue, Op
  <2>2. WorksAsBefore
    BY <1>13, <2>1, GainWorks
  <2>3. UNCHANGED <<rec, live, sess, managed, create, abort>>
    BY <1>13 DEF PauseRequest, durable, sessions
  <2> QED
    BY <2>2, <2>3, SameLulls, BeforeWorks, CalmKept
<1>14. ASSUME SteerRequest PROVE Writer'
  <2>1. commands' \in 1..MaxCommands
    BY <1>14, BoundsAreSane DEF SteerRequest, Command, Types
  <2>2. \E x \in OpType : x.step = "start" /\ x.kind = "steer" /\ Gains({x})
    BY <1>14, <2>1, NewOps, OpQueued DEF SteerRequest, Enqueue, Op
  <2>3. WorksAsBefore
    BY <1>14, <2>1, <2>2, GainWorks
  <2>4. UNCHANGED <<rec, live, sess, managed, create, abort>>
    BY <1>14 DEF SteerRequest, durable, sessions
  <2> QED
    BY <2>3, <2>4, SameLulls, BeforeWorks, CalmKept
<1>15. ASSUME ResumeRequest PROVE Writer'
  <2>1. \E x \in OpType : x.step = "start" /\ x.kind = "resume" /\ Gains({x})
    BY <1>15, ResumeAsked
  <2>2. WorksAsBefore
    BY <1>15, <2>1, GainWorks
  <2>3. UNCHANGED <<rec, live, sess, managed, create, abort>>
    BY <1>15 DEF ResumeRequest, durable, sessions
  <2> QED
    BY <2>2, <2>3, SameLulls, BeforeWorks, CalmKept
<1>16. ASSUME AbortRequest PROVE Writer'
  <2>1. /\ queue' # <<>> <=> queue # <<>>
        /\ queue # <<>> => /\ op'.kind = op.kind /\ op'.step = op.step /\ op'.s = op.s /\ op'.turn = op.turn
                           /\ op'.made = op.made /\ op'.msg = op.msg /\ op'.instr = op.instr
                           /\ op.kind = "resume" => op'.stale
    BY <1>16, SupersededOp DEF AbortRequest, Superseded
  <2>2. WorksAsBefore
    BY <1>16, <2>1, SupersededWorks DEF AbortRequest, Superseded
  <2>3. abort.step = "stop" => abort' = abort
    BY <1>16 DEF AbortRequest, AbortAt, Idle
  <2>4. UNCHANGED <<rec, live, sess, managed, create>>
    BY <1>16 DEF AbortRequest, durable, sessions
  <2> QED
    BY <2>2, <2>3, <2>4, SameLulls, BeforeWorks, CalmKept
<1>17. ASSUME PauseProject PROVE Writer'
  <2>1. WorksAsBefore
    BY <1>17, SameWorks DEF PauseProject
  <2>2. UNCHANGED <<rec, live, sess, managed, create, abort>>
    BY <1>17 DEF PauseProject, sessions
  <2> QED
    BY <2>1, <2>2, SameLulls, BeforeWorks, CalmKept
<1>18. ASSUME ResumeProject PROVE Writer'
  <2>1. WorksAsBefore
    BY <1>18, SameWorks DEF ResumeProject, control
  <2>2. UNCHANGED <<rec, live, sess, managed, create, abort>>
    BY <1>18 DEF ResumeProject, sessions, control
  <2> QED
    BY <2>1, <2>2, SameLulls, BeforeWorks, CalmKept
<1>19. ASSUME Pause PROVE Writer'
  <2>1. queue # <<>> /\ op.kind = "pause" /\ op.step = "start" /\ Ends /\ Range(queue) = {op} \cup Waiting(queue)
    BY <1>19, OpEnds, TheOp DEF Pause, At
  <2>2. WorksAsBefore
    BY <1>19, <2>1, EndWorks DEF Order
  <2>3. rec' = rec \/ (/\ rec.status \in {"queued", "starting", "working"} /\ rec'.status = "pause_requested"
                       /\ rec'.pending = rec.pending /\ rec'.attempt = rec.attempt)
    BY <1>19, Moves DEF Pause
  <2>4. \/ rec'.status = rec.status
        \/ \A u \in Session : sess[u] # "busy"
        \/ rec'.status \in Running \cup {"verifying", "failed"}
    BY <1>19, <2>3, <2>1 DEF Running, MayResume
  <2>5. ~Resuming({"launch"})
    BY <1>19 DEF Pause, StoreFree, Resuming
  <2>6. UNCHANGED <<live, sess, managed, create, abort>>
    BY <1>19 DEF Pause, sessions
  <2> QED
    BY <2>2, <2>4, <2>5, <2>6, SameLulls, BeforeWorks, CalmKept
<1>20. ASSUME Steer PROVE Writer'
  <2>1. queue # <<>> /\ op.kind = "steer" /\ op.step = "start" /\ Ends /\ Range(queue) = {op} \cup Waiting(queue)
    BY <1>20, OpEnds, TheOp DEF Steer, At
  <2>2. WorksAsBefore
    BY <1>20, <2>1, EndWorks DEF Order
  <2>3. rec'.status = rec.status /\ rec'.pending = rec.pending /\ rec'.attempt = rec.attempt
    BY <1>20 DEF Steer, Types, RecType
  <2>4. \/ rec'.status = rec.status
        \/ \A u \in Session : sess[u] # "busy"
        \/ rec'.status \in Running \cup {"verifying", "failed"}
    BY <1>20, <2>3, <2>1
  <2>5. ~Resuming({"launch"})
    BY <1>20 DEF Steer, StoreFree, Resuming
  <2>6. UNCHANGED <<live, sess, managed, create, abort>>
    BY <1>20 DEF Steer, sessions
  <2> QED
    BY <2>2, <2>4, <2>5, <2>6, SameLulls, BeforeWorks, CalmKept
<1>21. ASSUME ResumeStart PROVE Writer'
  <2>1. /\ queue # <<>> /\ op.kind = "resume" /\ ~op.made /\ (Done => Ends)
        /\ Step("resources") => StepsTo("resources")
    BY <1>21, AtResume DEF ResumeStart, ResumeSteps
  <2>2. UNCHANGED <<rec, live, managed, sess, create, abort>>
    BY <1>21 DEF ResumeStart, durable, sessions
  <2>3. Works /\ Prompts
    <3>1. CASE Done
      BY <2>1, <2>2, <3>1, EndWorks, BeforeWorks DEF Order
    <3>2. CASE MayResume /\ StepsTo("resources")
      <4>1. (\A u \in Session : sess[u] # "busy") /\ rec'.status \notin NotBegun
        BY <2>2, <3>2 DEF MayResume, Resumable, NotBegun, Running, Writer, BusyAttached
      <4>2. ~Owns'
        BY <2>1, <3>2, RunsAt DEF Owns, Resumes, StepsTo, SameSession
      <4>3. ~Resuming({"update", "launch"})' /\ ~Resuming({"launch"})'
        BY <3>2, RunsAt
      <4> QED
        BY <4>1, <4>2, <4>3 DEF Works, Prompts
    <3> QED
      BY <1>21, <2>1, <3>1, <3>2 DEF ResumeStart
  <2> QED
    BY <2>2, <2>3, SameLulls, CalmKept
<1>22. ASSUME ResumeResources PROVE Writer'
  <2>1. /\ queue # <<>> /\ op \in OpType /\ op.kind = "resume" /\ op.step = "resources"
        /\ Range(queue) = {op} \cup Waiting(queue) /\ (Done => Ends)
        /\ Step("open") => StepsTo("open")
    BY <1>22, AtResume, TheOp DEF ResumeResources, ResumeSteps
  <2>2. WorksAsBefore
    BY <1>22, <2>1, EndWorks, StepWorks DEF Order, ResumeSteps, StepsTo, ResumeResources
  <2>3. rec' = rec \/ (/\ rec.status \in Resumable /\ rec'.status = "failed"
                       /\ rec'.pending = rec.pending /\ rec'.attempt = rec.attempt)
    BY <1>22, Moves DEF ResumeResources
  <2>4. \/ rec'.status = rec.status
        \/ \A u \in Session : sess[u] # "busy"
        \/ rec'.status \in Running \cup {"verifying", "failed"}
    BY <1>22, <2>3, <2>1 DEF Running, MayResume
  <2>5. ~Resuming({"launch"})
    BY <1>22 DEF ResumeResources, StoreFree, Resuming
  <2>6. UNCHANGED <<live, sess, managed, create, abort>>
    BY <1>22 DEF ResumeResources, sessions
  <2> QED
    BY <2>2, <2>4, <2>5, <2>6, SameLulls, BeforeWorks, CalmKept
<1>23. ASSUME ResumeOpen PROVE Writer'
  <2>1. /\ queue # <<>> /\ op.kind = "resume" /\ op.step = "open" /\ Idles
        /\ UNCHANGED <<rec, managed, create, abort>>
    BY <1>23, AtResume DEF ResumeOpen, ResumeSteps, durable, Idles, Resumes, Resuming
  <2>2. CASE UNCHANGED <<live, sess>> /\ GoesTo("latest") /\ ~op'.made
    <3>1. ~Owns' /\ ~Resuming({"update", "launch"})' /\ ~Resuming({"launch"})'
      BY <2>2, RunsAt DEF Owns, Resumes
    <3>2. Works /\ Prompts
      BY <2>1, <3>1 DEF Works, Prompts
    <3> QED
      BY <2>1, <2>2, <3>2, SameLulls, CalmKept
  <2>3. CASE /\ managed.s = 0 /\ Fresh \in Session /\ sess[Fresh] = "none" /\ live' = Fresh
             /\ sess' = [sess EXCEPT ![Fresh] = "building"]
             /\ GoesTo("build") /\ op'.s = Fresh
    <3>1. sess'[Fresh] = "building" /\ \A t \in Session : t # Fresh => sess'[t] = sess[t]
      BY <2>3 DEF Types
    <3>2. Eased /\ \A t \in Session : sess'[t] # "busy"
      BY <2>1, <2>3, <3>1 DEF Eased, Runs, Writer, NobodyBusy
    <3>3. ~Resuming({"update", "launch"})' /\ ~Resuming({"launch"})'
      BY <2>3, RunsAt
    <3>4. Works
      BY <2>1, <2>3, <3>1, <3>3 DEF Works
    <3>5. NobodyBusy' /\ OwnIdle' /\ Begun' /\ Launching' /\ OneSession'
      BY <3>2, <3>4, EasedKept
    <3>6. BusyAttached' /\ StoppingCause' /\ CreateLive' /\ ResumeLive' /\ Dropping'
      BY <2>1, <2>3, <3>1, <3>2, <3>3
      DEF Writer, BusyAttached, StoppingCause, CreateLive, ResumeLive, Dropping
    <3> QED
      BY <3>5, <3>6 DEF Writer
  <2> QED
    BY <1>23, <2>2, <2>3, ResumeOpens
<1>24. ASSUME ResumeBuilt PROVE Writer'
  <2>1. /\ queue # <<>> /\ op.kind = "resume" /\ op.step = "build" /\ op.s \in Session
        /\ UNCHANGED <<rec, create, abort>> /\ Idles /\ Unused(op.s)
    BY <1>24, ResumeBuilds DEF ResumeBuilt, durable, Idles, Resumes, Resuming, ResumeSteps,
       Turns, ResumingNew, NewSteps
  <2>2. CASE ResumeFails
    BY <2>1, <2>2, FailsKept DEF ResumeSteps
  <2>3. CASE ~ResumeFails
    <3>1. /\ live = op.s /\ live' = live /\ sess'[op.s] = "idle"
          /\ \E w \in {"latest", "swap"} : StepsTo(w)
      BY <1>24, <2>3, ResumeBuilds
    <3>2. PICK w \in {"latest", "swap"} : StepsTo(w)
      BY <3>1
    <3>3. ASSUME NEW t \in Session
          PROVE  /\ sess[t] # "none" => sess'[t] # "none"
                 /\ sess'[t] # "busy"
                 /\ sess'[t] = "stopping" => /\ t # op.s /\ sess[t] = "stopping"
                                             /\ managed.s = t => managed' = managed
      <4>0. sess[t] # "busy"
        BY <2>1 DEF Writer, NobodyBusy
      <4>1. CASE t = op.s
        BY <3>1, <4>1
      <4>2. CASE t # op.s /\ t = managed.s
        BY <1>24, <2>3, <4>0, <4>2, ResumeBuilds, BoundsAreSane DEF Runs, Session
      <4>3. CASE t # op.s /\ t # managed.s
        BY <1>24, <2>3, <4>0, <4>3, ResumeBuilds
      <4> QED
        BY <4>1, <4>2, <4>3
    <3>4. Eased
      BY <3>3 DEF Eased, Runs
    <3>5. ~Resuming({"update", "launch"})' /\ ~Resuming({"launch"})'
      BY <3>2, RunsAt
    <3>6. Works
      BY <2>1, <3>1, <3>2, <3>5 DEF Works, StepsTo, SameSession
    <3>7. NobodyBusy' /\ OwnIdle' /\ Begun' /\ Launching' /\ OneSession'
      BY <3>4, <3>6, EasedKept
    <3>8. StoppingCause'
      BY <2>1, <3>1, <3>3 DEF Writer, StoppingCause
    <3>9. BusyAttached' /\ CreateLive' /\ ResumeLive' /\ Dropping'
      BY <2>1, <3>3, <3>5 DEF Writer, BusyAttached, CreateLive, ResumeLive, Dropping
    <3> QED
      BY <3>7, <3>8, <3>9 DEF Writer
  <2> QED
    BY <2>2, <2>3
<1>25. ASSUME ResumeSwap PROVE Writer'
  <2>1. /\ queue # <<>> /\ op.kind = "resume" /\ op.step = "swap" /\ op.s \in Session
        /\ UNCHANGED <<rec, create, abort, sess, live>> /\ Idles /\ StepsTo("latest")
        /\ managed.s # 0 => sess[managed.s] = "gone"
    BY <1>25, AtResume DEF ResumeSwap, durable, Idles, Resumes, Resuming, ResumeSteps
  <2>2. WorksAsBefore /\ Works
    BY <2>1, StepWorks, BeforeWorks DEF StepsTo, ResumeSteps
  <2>3. ~Resuming({"update", "launch"})'
    BY <2>1, RunsAt
  <2>4. NobodyBusy' /\ OwnIdle' /\ Begun' /\ Launching' /\ OneSession'
    BY <2>1, <2>2, SameEase, EasedKept
  <2>5. \A t \in Session : sess[t] # "busy" /\ (sess[t] = "stopping" => managed.s # t)
    BY <2>1, BoundsAreSane DEF Writer, NobodyBusy, Session
  <2>6. BusyAttached' /\ StoppingCause' /\ CreateLive' /\ ResumeLive' /\ Dropping'
    BY <2>1, <2>3, <2>5 DEF Writer, BusyAttached, StoppingCause, CreateLive, ResumeLive, Dropping
  <2> QED
    BY <2>4, <2>6 DEF Writer
<1>26. ASSUME ResumeLatest PROVE Writer'
  <2>1. /\ queue # <<>> /\ op.kind = "resume" /\ op.step = "latest" /\ op.s \in Session
        /\ UNCHANGED <<rec, create, abort>> /\ Idles
    BY <1>26, AtResume DEF ResumeLatest, durable, Idles, Resumes, Resuming, ResumeSteps
  <2>2. CASE ResumeFails
    BY <2>1, <2>2, FailsKept DEF ResumeSteps
  <2>3. CASE /\ live = op.s /\ UNCHANGED <<live, managed, sess>>
             /\ GoesTo("update") /\ SameSession
    <3>1. ~Resuming({"launch"})' /\ op'.s = op.s
      BY <2>3, RunsAt DEF SameSession
    <3>2. Owns' => Owns
      BY <2>1, <2>3, RunsAt DEF Owns, Resumes, Resuming, ResumeSteps, SameSession
    <3>3. Works /\ Prompts
      BY <2>1, <2>3, <3>1, <3>2 DEF Works, Prompts
    <3> QED
      BY <2>1, <2>3, <3>3, SameLulls, CalmKept
  <2> QED
    BY <1>26, <2>2, <2>3, ResumeReads
<1>27. ASSUME ResumeUpdate PROVE Writer'
  <2>1. /\ queue # <<>> /\ op.kind = "resume" /\ op.step = "update" /\ op.s \in Session
        /\ UNCHANGED <<create, abort>> /\ Idles
        /\ Step("launch") => StepsTo("launch")
    BY <1>27, AtResume DEF ResumeUpdate, Idles, Resumes, Resuming, ResumeSteps
  <2>2. CASE ResumeFails /\ UNCHANGED rec
    BY <2>1, <2>2, FailsKept DEF ResumeSteps
  <2>3. CASE rec'.status = "working" /\ StepsTo("launch") /\ UNCHANGED <<live, managed, sess>>
    <3>1. op'.s = op.s /\ op'.made = op.made /\ op'.stale = op.stale
      BY <2>3 DEF StepsTo, SameSession, GoesTo
    <3>2. (Owns' => Owns) /\ Resuming({"update", "launch"})
      BY <2>1, <2>3, <3>1, RunsAt DEF Owns, Resumes, Resuming, ResumeSteps
    <3>3. Works /\ Prompts
      BY <2>1, <2>3, <3>1, <3>2 DEF Works, Prompts
    <3> QED
      BY <2>1, <2>3, <3>3, SameLulls, CalmKept DEF Running
  <2>4. MayResume => rec'.status = "working"
    BY <1>27 DEF ResumeUpdate, Types, RecType
  <2> QED
    BY <1>27, <2>1, <2>2, <2>3, <2>4 DEF ResumeUpdate
<1>28. ASSUME ResumeLaunch PROVE Writer'
  <2>1. /\ queue # <<>> /\ op.kind = "resume" /\ op.step = "launch" /\ op.s \in Session
        /\ UNCHANGED <<rec, create, abort>> /\ Idles /\ Resuming({"launch"}) /\ op \in Range(queue)
    BY <1>28, AtResume DEF ResumeLaunch, durable, Idles, Resumes, Resuming, ResumeSteps
  <2>2. CASE ResumeFails
    BY <2>1, <2>2, FailsKept DEF ResumeSteps
  <2>3. CASE ~ResumeFails
    <3>1. ~op.stale /\ managed.s = op.s /\ live' = live /\ managed'.s = op.s
      BY <1>28, <2>3, Launches
    <3>2. CASE sess[op.s] = "idle" /\ sess' = [sess EXCEPT ![op.s] = "busy"] /\ Ends
      <4>1. sess'[op.s] = "busy" /\ \A t \in Session : t # op.s => sess'[t] = sess[t]
        BY <2>1, <3>2 DEF Types
      <4>2. rec.status = "working" /\ abort = Idle
        BY <2>1, <3>1 DEF Writer, Launching, Order, Supersedes
      <4>3. ASSUME NEW t \in Session PROVE ~Runs(t)
        <5>1. sess[t] # "busy"
          BY <2>1 DEF Writer, NobodyBusy
        <5>2. sess[t] # "stopping"
          BY <3>1, <3>2, <4>2 DEF Writer, StoppingCause, Idle
        <5> QED
          BY <5>1, <5>2 DEF Runs
      <4>4. \A t \in Session : sess'[t] \in {"busy", "stopping"} => t = op.s /\ sess'[t] = "busy"
        BY <4>1, <4>3 DEF Runs
      <4>5. ~Idles' /\ ~Owns' /\ ~Resuming({"update", "launch"})' /\ ~Resuming({"launch"})'
        BY <3>2, EndWorks DEF Order
      <4>6. BusyAttached' /\ StoppingCause' /\ OneSession'
        BY <2>1, <3>1, <4>1, <4>2, <4>4 DEF BusyAttached, StoppingCause, OneSession, Runs, Running
      <4>7. NobodyBusy' /\ OwnIdle' /\ Begun' /\ Launching' /\ ResumeLive'
        BY <2>1, <4>2, <4>5 DEF NobodyBusy, OwnIdle, Begun, NotBegun, Launching, ResumeLive
      <4>8. CreateLive'
        <5>1. create.s = op.s => live = op.s
          BY <2>1, <3>1 DEF Writer, ResumeLive, Resuming
        <5> QED
          BY <2>1, <3>1, <4>4, <5>1 DEF CreateLive
      <4>9. Dropping'
        BY <2>1 DEF Writer, Dropping
      <4> QED
        BY <4>6, <4>7, <4>8, <4>9 DEF Writer
    <3>3. CASE sess' = sess /\ op' \in Waiting(queue) \cup {Rejected(op.s, managed'.turn)}
      <4> DEFINE x == Rejected(op.s, managed'.turn)
      <4>1. x.step = "settle"
        BY TurnOps
      <4> HIDE DEF x
      <4>2. op' \in Waiting(queue) \cup {x}
        BY <3>3 DEF x
      <4>3. op'.step \in {"start", "settle"}
        BY <4>1, <4>2 DEF Order, Waits
      <4>4. Works /\ Prompts
        BY <2>1, <4>3, FirstWorks, BeforeWorks
      <4> QED
        BY <2>1, <3>1, <3>3, <4>4, SameLulls, CalmKept
    <3> QED
      BY <1>28, <2>3, <3>2, <3>3, Launches
  <2> QED
    BY <2>2, <2>3
<1>29. ASSUME Acknowledge PROVE Writer'
  <2>1. /\ queue # <<>> /\ op \in OpType /\ op.kind \in SettledKind /\ op.step = "start" /\ op.s \in Session
        /\ Range(queue) = {op} \cup Waiting(queue) /\ (Done => Ends)
        /\ Step("settle") => StepsTo("settle")
    BY <1>29, AtSettled, TheOp DEF Acknowledge, SettleSteps
  <2>2. WorksAsBefore
    BY <1>29, <2>1, EndWorks, StepWorks DEF Order, StepsTo, Acknowledge
  <2>3. rec'.status = rec.status /\ rec'.pending = rec.pending /\ rec'.attempt = rec.attempt
    BY <1>29 DEF Acknowledge, Types, RecType
  <2>4. \/ rec'.status = rec.status
        \/ \A u \in Session : sess[u] # "busy"
        \/ rec'.status \in Running \cup {"verifying", "failed"}
    BY <1>29, <2>3, <2>1
  <2>5. ~Resuming({"launch"})
    BY <1>29 DEF Acknowledge, StoreFree, Resuming
  <2>6. UNCHANGED <<live, sess, managed, create, abort>>
    BY <1>29 DEF Acknowledge, sessions
  <2> QED
    BY <2>2, <2>4, <2>5, <2>6, SameLulls, BeforeWorks, CalmKept
<1>30. ASSUME Settle PROVE Writer'
  <2>1. /\ queue # <<>> /\ op \in OpType /\ op.kind \in SettledKind /\ op.step = "settle" /\ op.s \in Session
        /\ Range(queue) = {op} \cup Waiting(queue) /\ (Done => Ends)
    BY <1>30, AtSettled, TheOp DEF Settle, SettleSteps
  <2>2. WorksAsBefore
    BY <1>30, <2>1, EndWorks, StepWorks, SettleChooses DEF Order, StepsTo
  <2>3. UNCHANGED <<rec, live, sess, managed, create, abort>>
    BY <1>30 DEF Settle, durable, sessions
  <2> QED
    BY <2>2, <2>3, SameLulls, BeforeWorks, CalmKept
<1>31. ASSUME SettleFail PROVE Writer'
  <2>1. /\ queue # <<>> /\ op.kind \in SettledKind /\ (Done => Ends)
        /\ \A w \in SettleSteps : Step(w) => StepsTo(w)
        /\ UNCHANGED <<live, managed, sess, create, abort>>
    BY <1>31, AtSettled DEF SettleFail, sessions
  <2>2. ~Resuming({"launch"})
    BY <1>31 DEF SettleFail, StoreFree, Resuming
  <2>3. CASE UNCHANGED rec /\ Done
    <3>1. WorksAsBefore
      BY <2>1, <2>3, EndWorks, StepWorks DEF Order, SettleSteps, StepsTo
    <3> QED
      BY <2>1, <2>2, <2>3, <3>1, SameLulls, BeforeWorks, CalmKept
  <2>4. CASE OpTurn /\ ~(UNCHANGED rec /\ Done)
    <3>1. (\A u \in Session : sess[u] # "busy") /\ ~Runs(op.s)
      BY <2>1, <2>4, TurnQuiet
    <3>2. rec'.status = "failed" /\ StepsTo("retire")
      BY <1>31, <2>1, <2>4, Becomes DEF SettleFail, SettleSteps
    <3>3. op'.s = op.s /\ sess'[op'.s] \notin {"busy", "stopping"}
      BY <2>1, <3>1, <3>2 DEF StepsTo, SameSession, Runs
    <3>4. ~Resuming({"update", "launch"})' /\ ~Resuming({"launch"})'
      BY <3>2, RunsAt
    <3>5. Works /\ Prompts
      BY <3>1, <3>2, <3>3, <3>4 DEF Works, Prompts, NotBegun
    <3> QED
      BY <2>1, <3>1, <3>5, SameLulls, CalmKept
  <2> QED
    BY <1>31, <2>3, <2>4 DEF SettleFail
<1>32. ASSUME BlockUnsettled PROVE Writer'
  <2>1. /\ queue # <<>> /\ op \in OpType /\ op.kind \in SettledKind /\ op.step = "block" /\ op.s \in Session
        /\ Range(queue) = {op} \cup Waiting(queue) /\ (Done => Ends)
    BY <1>32, AtSettled, TheOp DEF BlockUnsettled, SettleSteps
  <2>2. WorksAsBefore
    BY <1>32, <2>1, EndWorks, StepWorks DEF Order, StepsTo, BlockUnsettled
  <2>3. rec' = rec \/ (/\ rec.status \in Running /\ rec'.status = "blocked"
                       /\ rec'.pending = rec.pending /\ rec'.attempt = rec.attempt)
    BY <1>32, Moves DEF BlockUnsettled
  <2>4. \/ rec'.status = rec.status
        \/ \A u \in Session : sess[u] # "busy"
        \/ rec'.status \in Running \cup {"verifying", "failed"}
    BY <1>32, <2>3, <2>1, TurnQuiet DEF BlockUnsettled
  <2>5. ~Resuming({"launch"})
    BY <1>32 DEF BlockUnsettled, StoreFree, Resuming
  <2>6. UNCHANGED <<live, sess, managed, create, abort>>
    BY <1>32 DEF BlockUnsettled, sessions
  <2> QED
    BY <2>2, <2>4, <2>5, <2>6, SameLulls, BeforeWorks, CalmKept
<1>33. ASSUME Publish PROVE Writer'
  <2>1. /\ queue # <<>> /\ op.kind \in SettledKind /\ (Done => Ends)
        /\ \A w \in SettleSteps : Step(w) => StepsTo(w)
        /\ UNCHANGED <<live, managed, sess, create, abort>>
    BY <1>33, AtSettled DEF Publish, sessions
  <2>2. ~Resuming({"launch"})
    BY <1>33 DEF Publish, StoreFree, Resuming
  <2>3. CASE UNCHANGED rec /\ Done
    <3>1. WorksAsBefore
      BY <2>1, <2>3, EndWorks, StepWorks DEF Order, SettleSteps, StepsTo
    <3> QED
      BY <2>1, <2>2, <2>3, <3>1, SameLulls, BeforeWorks, CalmKept
  <2>4. CASE OpTurn /\ ~(UNCHANGED rec /\ Done)
    <3>1. (\A u \in Session : sess[u] # "busy") /\ ~Runs(op.s)
      BY <2>1, <2>4, TurnQuiet
    <3>2. CASE Done
      BY <2>1, <2>2, <3>1, <3>2, EndWorks, SameLulls, BeforeWorks, CalmKept DEF Order
    <3>3. CASE rec'.status = "failed" /\ StepsTo("retire")
      <4>1. op'.s = op.s /\ sess'[op'.s] \notin {"busy", "stopping"}
        BY <2>1, <3>1, <3>3 DEF StepsTo, SameSession, Runs
      <4>2. ~Resuming({"update", "launch"})' /\ ~Resuming({"launch"})'
        BY <3>3, RunsAt
      <4>3. Works /\ Prompts
        BY <3>1, <3>3, <4>1, <4>2 DEF Works, Prompts, NotBegun
      <4> QED
        BY <2>1, <3>1, <4>3, SameLulls, CalmKept
    <3> QED
      BY <1>33, <2>1, <2>4, <3>2, <3>3, Becomes DEF Publish, SettleSteps
  <2> QED
    BY <1>33, <2>3, <2>4 DEF Publish
<1>34. ASSUME Verify PROVE Writer'
  <2>1. /\ queue # <<>> /\ op \in OpType /\ op.kind \in SettledKind /\ op.step = "verify" /\ op.s \in Session
        /\ Range(queue) = {op} \cup Waiting(queue) /\ (Done => Ends)
    BY <1>34, AtSettled, TheOp DEF Verify, SettleSteps
  <2>2. WorksAsBefore
    BY <1>34, <2>1, StepWorks, VerifyChooses DEF StepsTo
  <2>3. UNCHANGED <<rec, live, sess, managed, create, abort>>
    BY <1>34 DEF Verify, durable, sessions
  <2> QED
    BY <2>2, <2>3, SameLulls, BeforeWorks, CalmKept
<1>35. ASSUME Accept PROVE Writer'
  <2>1. /\ queue # <<>> /\ op.kind \in SettledKind /\ (Done => Ends)
        /\ \A w \in SettleSteps : Step(w) => StepsTo(w)
        /\ UNCHANGED <<live, managed, sess, create, abort>>
    BY <1>35, AtSettled DEF Accept, sessions
  <2>2. ~Resuming({"launch"})
    BY <1>35 DEF Accept, StoreFree, Resuming
  <2>3. CASE UNCHANGED rec /\ Step("refuse")
    <3>1. WorksAsBefore
      BY <2>1, <2>3, EndWorks, StepWorks DEF Order, SettleSteps, StepsTo
    <3> QED
      BY <2>1, <2>2, <2>3, <3>1, SameLulls, BeforeWorks, CalmKept
  <2>4. CASE OpTurn /\ ~(UNCHANGED rec /\ Step("refuse"))
    <3>1. (\A u \in Session : sess[u] # "busy") /\ ~Runs(op.s)
      BY <2>1, <2>4, TurnQuiet
    <3>2. rec'.status = "completed" /\ StepsTo("retire")
      BY <1>35, <2>1, <2>4, Becomes DEF Accept, SettleSteps
    <3>3. op'.s = op.s /\ sess'[op'.s] \notin {"busy", "stopping"}
      BY <2>1, <3>1, <3>2 DEF StepsTo, SameSession, Runs
    <3>4. ~Resuming({"update", "launch"})' /\ ~Resuming({"launch"})'
      BY <3>2, RunsAt
    <3>5. Works /\ Prompts
      BY <3>1, <3>2, <3>3, <3>4 DEF Works, Prompts, NotBegun
    <3> QED
      BY <2>1, <3>1, <3>5, SameLulls, CalmKept
  <2> QED
    BY <1>35, <2>3, <2>4 DEF Accept
<1>36. ASSUME Refuse PROVE Writer'
  <2>1. /\ queue # <<>> /\ op \in OpType /\ op.kind \in SettledKind /\ op.step = "refuse" /\ op.s \in Session
        /\ Range(queue) = {op} \cup Waiting(queue) /\ (Done => Ends)
    BY <1>36, AtSettled, TheOp DEF Refuse, SettleSteps
  <2>2. WorksAsBefore
    BY <1>36, <2>1, EndWorks, StepWorks DEF Order, StepsTo, Refuse
  <2>3. rec' = rec \/ (/\ rec.status = "verifying" /\ rec'.status = "blocked"
                       /\ rec'.pending = "none" /\ rec'.attempt = rec.attempt)
    BY <1>36, Becomes DEF Refuse
  <2>4. \/ rec'.status = rec.status
        \/ \A u \in Session : sess[u] # "busy"
        \/ rec'.status \in Running \cup {"verifying", "failed"}
    BY <1>36, <2>3, <2>1, TurnQuiet DEF Refuse
  <2>5. ~Resuming({"launch"})
    BY <1>36 DEF Refuse, StoreFree, Resuming
  <2>6. UNCHANGED <<live, sess, managed, create, abort>>
    BY <1>36 DEF Refuse, sessions
  <2> QED
    BY <2>2, <2>4, <2>5, <2>6, SameLulls, BeforeWorks, CalmKept
<1>37. ASSUME Retire PROVE Writer'
  <2>1. /\ queue # <<>> /\ op.s \in Session /\ Ends /\ Owns /\ Drops(op.s)
        /\ UNCHANGED <<rec, create, abort>>
    BY <1>37, AtSettled, Dropped DEF Retire, durable, Owns, Settling
  <2>2. Works /\ ~Resuming({"update", "launch"})'
    BY <2>1, EndWorks, BeforeWorks DEF Order
  <2>3. ~Runs(op.s)
    BY <2>1 DEF Writer, OwnIdle
  <2>4. BusyAttached' /\ StoppingCause' /\ CreateLive' /\ Dropping'
    BY <2>1, <2>3, DropKept
  <2>5. NobodyBusy' /\ OwnIdle' /\ Begun' /\ Launching' /\ OneSession'
    BY <2>1, <2>2, StopsEase, EasedKept DEF Drops
  <2> QED
    BY <2>2, <2>4, <2>5 DEF Writer, ResumeLive
<1>38. ASSUME AbortRead PROVE Writer'
  <2>1. WorksAsBefore
    BY <1>38, SameWorks DEF AbortRead
  <2>2. abort.step = "stop" => abort' = abort
    BY <1>38 DEF AbortRead, AbortAt, Idle
  <2>3. UNCHANGED <<rec, live, sess, managed, create>>
    BY <1>38 DEF AbortRead, durable, sessions
  <2> QED
    BY <2>1, <2>2, <2>3, SameLulls, BeforeWorks, CalmKept
<1>39. ASSUME AbortInterrupt PROVE Writer'
  <2>1. /\ abort.step = "interrupt" /\ UNCHANGED <<queue, create, managed>> /\ Eased
        /\ WorksAsBefore /\ ~Resuming({"launch"})
    BY <1>39, SameWorks, Interrupts DEF AbortInterrupt, AbortAt, StoreFree, Resuming
  <2>2. Works /\ Prompts
    BY <2>1, BeforeWorks
  <2>3. CASE UNCHANGED <<live, sess>> /\ (rec' = rec \/ managed.s = 0)
    <3>1. managed.s = 0 => \A u \in Session : sess[u] # "busy"
      BY BoundsAreSane DEF Writer, BusyAttached, Session
    <3> QED
      BY <2>1, <2>2, <2>3, <3>1, SameLulls, CalmKept
  <2>4. CASE /\ managed.s \in Session /\ Stops(managed.s) /\ live' # managed.s
             /\ abort'.step = "stop" /\ abort'.s = managed.s
             /\ rec.status \in ActiveStatuses \cup Resumable
    <3>1. NobodyBusy' /\ OwnIdle' /\ Begun' /\ Launching' /\ OneSession'
      BY <2>1, <2>2, EasedKept
    <3>2. ASSUME NEW t \in Session PROVE sess'[t] # "busy" /\ (sess'[t] = "stopping" => t = managed.s)
      <4>1. CASE t = managed.s
        BY <2>4, <4>1 DEF Stops
      <4>2. CASE t # managed.s
        <5>1. sess'[t] = sess[t]
          BY <2>4, <4>2 DEF Stops
        <5>2. rec.status # "failed"
          BY <2>4 DEF ActiveStatuses, Resumable
        <5> QED
          BY <2>1, <4>2, <5>1, <5>2 DEF Writer, BusyAttached, StoppingCause
      <4> QED
        BY <4>1, <4>2
    <3>3. BusyAttached' /\ StoppingCause' /\ CreateLive'
      BY <2>4, <3>2 DEF BusyAttached, StoppingCause, CreateLive
    <3>4. ResumeLive'
      <4>1. Resuming({"update", "launch"}) => op \in Range(queue) /\ op.stale
        BY <2>1, TheOp DEF Resuming, Order, Supersedes, Idle
      <4> QED
        BY <2>1, <4>1 DEF ResumeLive, WorksAsBefore
    <3>5. Dropping'
      BY <2>1, LivesOn DEF Writer, Dropping
    <3> QED
      BY <3>1, <3>3, <3>4, <3>5 DEF Writer
  <2> QED
    BY <1>39, <2>3, <2>4, Interrupts
<1>40. ASSUME AbortStop PROVE Writer'
  <2>1. /\ abort.step = "stop" /\ sess[abort.s] = "gone" /\ UNCHANGED <<rec, queue, create, live, sess>>
        /\ managed' = managed \/ (managed.s = abort.s /\ managed'.s = 0)
        /\ abort'.step = "idle"
    BY <1>40 DEF AbortStop, AbortAt, durable, NoRuntime, Idle
  <2>2. WorksAsBefore /\ Works
    BY <2>1, SameWorks, BeforeWorks
  <2>3. NobodyBusy' /\ OwnIdle' /\ Begun' /\ Launching' /\ OneSession'
    BY <2>1, <2>2, SameEase, EasedKept
  <2>4. BusyAttached' /\ StoppingCause' /\ CreateLive' /\ Dropping'
    BY <2>1 DEF Writer, BusyAttached, StoppingCause, CreateLive, Dropping
  <2>5. ResumeLive'
    <3>1. Resuming({"update", "launch"})' =>
             Resuming({"update", "launch"}) /\ op'.s = op.s /\ (op.stale => op'.stale) /\ op.s # 0
      BY <2>2, AttachedHeld, BoundsAreSane DEF WorksAsBefore, Resuming, HeldSteps, Session
    <3> QED
      BY <2>1, <3>1 DEF Writer, ResumeLive
  <2> QED
    BY <2>3, <2>4, <2>5 DEF Writer
<1>41. ASSUME PauseActive PROVE Writer'
  <2>1. queue' = queue \/ (Gains({Op("pause")}) /\ Op("pause").step = "start" /\ Op("pause").kind = "pause")
    BY <1>41, NewOps, OpQueued DEF PauseActive, Enqueue, Op
  <2>2. WorksAsBefore
    BY <1>41, <2>1, GainWorks, SameWorks
  <2>3. UNCHANGED <<rec, live, sess, managed, create, abort>>
    BY <1>41 DEF PauseActive, durable, sessions
  <2> QED
    BY <2>2, <2>3, SameLulls, BeforeWorks, CalmKept
<1>42. ASSUME NEW s \in Session, Write(s) PROVE Writer'
  <2>1. WorksAsBefore
    BY <1>42, SameWorks DEF Write, control
  <2>2. UNCHANGED <<rec, live, sess, managed, create, abort>>
    BY <1>42 DEF Write, sessions, control
  <2> QED
    BY <2>1, <2>2, SameLulls, BeforeWorks, CalmKept
<1>43. ASSUME NEW s \in Session, EndTurn(s) PROVE Writer'
  <2>1. /\ sess' = [sess EXCEPT ![s] = "idle"] /\ sess[s] = "busy"
        /\ UNCHANGED <<rec, live, managed, create, abort>>
    BY <1>43 DEF EndTurn, durable
  <2>2. Lulls
    BY <2>1 DEF Lulls, Types
  <2>3. WorksAsBefore
    BY <1>43, TurnEnds, EndedOps, GainWorks
  <2> QED
    BY <2>1, <2>2, <2>3, BeforeWorks, CalmKept
<1>44. ASSUME NEW s \in Session, StopSession(s) PROVE Writer'
  <2>1. WorksAsBefore
    BY <1>44, SameWorks DEF StopSession, control
  <2>2. Lulls /\ managed'.s = managed.s
    BY <1>44 DEF StopSession, Lulls, Types
  <2>3. UNCHANGED <<rec, live, create, abort>>
    BY <1>44 DEF StopSession, durable, control
  <2> QED
    BY <2>1, <2>2, <2>3, SameLulls, BeforeWorks, CalmKept
<1>45. ASSUME NEW s \in Session, CommitBegin(s) PROVE Writer'
  <2>1. WorksAsBefore
    BY <1>45, SameWorks DEF CommitBegin, control
  <2>2. UNCHANGED <<rec, live, sess, managed, create, abort>>
    BY <1>45 DEF CommitBegin, durable, control
  <2> QED
    BY <2>1, <2>2, SameLulls, BeforeWorks, CalmKept
<1>46. ASSUME NEW s \in Session, ProgressPaused(s) PROVE Writer'
  <2>1. WorksAsBefore
    BY <1>46, SameWorks DEF ProgressPaused, control
  <2>2. rec.status = "pause_requested" /\ rec'.status = "verifying" /\ rec'.pending = "paused" /\ rec'.attempt = rec.attempt
    BY <1>46 DEF ProgressPaused, Types, RecType
  <2>3. \/ rec'.status = rec.status
        \/ \A u \in Session : sess[u] # "busy"
        \/ rec'.status \in Running \cup {"verifying", "failed"}
    BY <1>46, <2>2 DEF Running, MayResume
  <2>4. ~Resuming({"launch"})
    BY <1>46 DEF ProgressPaused, StoreFree, Resuming
  <2>5. UNCHANGED <<live, sess, managed, create, abort>>
    BY <1>46 DEF ProgressPaused, sessions, control
  <2> QED
    BY <2>1, <2>3, <2>4, <2>5, SameLulls, BeforeWorks, CalmKept
<1>47. ASSUME NEW s \in Session, Escalate(s) PROVE Writer'
  <2>1. WorksAsBefore
    BY <1>47, SameWorks DEF Escalate, control
  <2>2. rec.status \in Running /\ rec'.status = "verifying" /\ rec'.pending = "blocked" /\ rec'.attempt = rec.attempt
    BY <1>47 DEF Escalate, MayCall, Types, RecType
  <2>3. \/ rec'.status = rec.status
        \/ \A u \in Session : sess[u] # "busy"
        \/ rec'.status \in Running \cup {"verifying", "failed"}
    BY <1>47, <2>2 DEF Running, MayResume
  <2>4. ~Resuming({"launch"})
    BY <1>47 DEF Escalate, StoreFree, Resuming
  <2>5. UNCHANGED <<live, sess, managed, create, abort>>
    BY <1>47 DEF Escalate, sessions, control
  <2> QED
    BY <2>1, <2>3, <2>4, <2>5, SameLulls, BeforeWorks, CalmKept
<1>48. ASSUME NEW s \in Session, CompleteBegin(s) PROVE Writer'
  <2>1. WorksAsBefore
    BY <1>48, SameWorks DEF CompleteBegin, control
  <2>2. UNCHANGED <<rec, live, sess, managed, create, abort>>
    BY <1>48 DEF CompleteBegin, durable, control
  <2> QED
    BY <2>1, <2>2, SameLulls, BeforeWorks, CalmKept
<1>49. ASSUME NEW s \in Session, Commit(s) PROVE Writer'
  <2>1. WorksAsBefore
    BY <1>49, SameWorks DEF Commit, control
  <2>2. UNCHANGED <<rec, live, sess, managed, create, abort>>
    BY <1>49 DEF Commit, control
  <2> QED
    BY <2>1, <2>2, SameLulls, BeforeWorks, CalmKept
<1>50. ASSUME NEW s \in Session, CompleteVerify(s) PROVE Writer'
  <2>1. WorksAsBefore
    BY <1>50, SameWorks DEF CompleteVerify, control
  <2>2. UNCHANGED <<rec, live, sess, managed, create, abort>>
    BY <1>50 DEF CompleteVerify, durable, control
  <2> QED
    BY <2>1, <2>2, SameLulls, BeforeWorks, CalmKept
<1>51. ASSUME NEW s \in Session, CompleteWrite(s) PROVE Writer'
  <2>1. WorksAsBefore
    BY <1>51, SameWorks DEF CompleteWrite, control
  <2>2. UNCHANGED <<rec, live, sess, managed, create, abort>>
    BY <1>51 DEF CompleteWrite, durable, control
  <2> QED
    BY <2>1, <2>2, SameLulls, BeforeWorks, CalmKept
<1>52. ASSUME NEW s \in Session, CompleteWritten(s) PROVE Writer'
  <2>1. WorksAsBefore
    BY <1>52, SameWorks DEF CompleteWritten, control
  <2>2. UNCHANGED <<rec, live, sess, managed, create, abort>>
    BY <1>52 DEF CompleteWritten, control
  <2> QED
    BY <2>1, <2>2, SameLulls, BeforeWorks, CalmKept
<1>53. ASSUME NEW s \in Session, CompleteUpdate(s) PROVE Writer'
  <2>1. WorksAsBefore
    BY <1>53, SameWorks DEF CompleteUpdate, control
  <2>2. rec' = rec \/ (/\ rec.status \in Running /\ rec'.status = "verifying" /\ rec'.pending = cb[s].status
                       /\ rec'.attempt = rec.attempt /\ cb[s].status \in ResultSet \ {"none"})
    BY <1>53 DEF CompleteUpdate, CallAt, CbType, Types, RecType
  <2>3. \/ rec'.status = rec.status
        \/ \A u \in Session : sess[u] # "busy"
        \/ rec'.status \in Running \cup {"verifying", "failed"}
    BY <1>53, <2>2 DEF Running, MayResume
  <2>4. ~Resuming({"launch"})
    BY <1>53 DEF CompleteUpdate, StoreFree, Resuming
  <2>5. UNCHANGED <<live, sess, managed, create, abort>>
    BY <1>53 DEF CompleteUpdate, control
  <2> QED
    BY <2>1, <2>3, <2>4, <2>5, SameLulls, BeforeWorks, CalmKept
<1>54. ASSUME NEW s \in Session, CompleteClean(s) PROVE Writer'
  <2>1. WorksAsBefore
    BY <1>54, SameWorks DEF CompleteClean, control
  <2>2. UNCHANGED <<rec, live, sess, managed, create, abort>>
    BY <1>54 DEF CompleteClean, control
  <2> QED
    BY <2>1, <2>2, SameLulls, BeforeWorks, CalmKept
<1>55. ASSUME Crash PROVE Writer'
  <2>1. /\ queue' = <<>> /\ create'.step = "idle" /\ rec' = rec
        /\ \A t \in Session : sess'[t] = "none"
    BY <1>55 DEF Crash, Idle
  <2>2. ~Idles' /\ ~Owns' /\ ~Resuming({"update", "launch"})' /\ ~Resuming({"launch"})'
    BY <2>1 DEF Idles, Owns, Resumes, Resuming, Settling
  <2> QED
    BY <2>1, <2>2 DEF Writer, BusyAttached, StoppingCause, NobodyBusy, OwnIdle, Begun, CreateLive,
       ResumeLive, Dropping, Launching, OneSession, Runs
<1>56. ASSUME Reconcile PROVE Writer'
  <2>1. WorksAsBefore
    BY <1>56, SameWorks DEF Reconcile, control
  <2>2. rec.status \in Running \cup {"verifying"} \/ rec' = rec
    BY <1>56 DEF Reconcile
  <2>3. \/ rec' = rec
        \/ /\ rec'.pending = "none" /\ rec'.attempt = rec.attempt
           /\ \/ rec'.status = "paused" /\ rec.pending = "paused"
              \/ rec'.status = "blocked"
              \/ /\ rec'.status = result.status /\ rec.pending \in {"none", result.status}
                 /\ result # NoResult /\ result.status \in ResultSet
    BY <1>56, Becomes DEF Reconcile, ResultStands, ResultOfAttempt, Types, RecType, ResultType
  <2>4. \/ rec'.status = rec.status
        \/ \A u \in Session : sess[u] # "busy"
        \/ rec'.status \in Running \cup {"verifying", "failed"}
    BY <1>56, <2>2, <2>3 DEF Reconcile, Order, Rest
  <2>5. ~Resuming({"launch"})
    BY <1>56 DEF Order, Rest, Resuming, Reconcile
  <2>6. UNCHANGED <<live, sess, managed, create, abort>>
    BY <1>56 DEF Reconcile, sessions, control
  <2> QED
    BY <2>1, <2>4, <2>5, <2>6, SameLulls, BeforeWorks, CalmKept
<1>57. ASSUME Recover PROVE Writer'
  <2>1. WorksAsBefore
    BY <1>57, SameWorks DEF Recover, control
  <2>2. rec' = rec \/ (/\ Unfinished(rec.status) /\ rec'.pending = "none" /\ rec'.attempt = rec.attempt
                       /\ \/ rec'.status = "failed"
                          \/ rec'.status = "interrupted" /\ rec.status \in ActiveStatuses)
    BY <1>57, Becomes DEF Recover, Unfinished, ActiveStatuses, Finished
  <2>3. \/ rec'.status = rec.status
        \/ \A u \in Session : sess[u] # "busy"
        \/ rec'.status \in Running \cup {"verifying", "failed"}
    BY <1>57, <2>2 DEF Recover, Order, Rest
  <2>4. ~Resuming({"launch"})
    BY <1>57 DEF Order, Rest, Resuming, Recover
  <2>5. UNCHANGED <<live, sess, managed, create, abort>>
    BY <1>57 DEF Recover, sessions, control
  <2> QED
    BY <2>1, <2>3, <2>4, <2>5, SameLulls, BeforeWorks, CalmKept
<1> QED
  BY <1>1, <1>2, <1>3, <1>4, <1>5, <1>6, <1>7, <1>8, <1>9, <1>10, <1>11, <1>12, <1>13, <1>14,
     <1>15, <1>16, <1>17, <1>18, <1>19, <1>20, <1>21, <1>22, <1>23, <1>24, <1>25, <1>26, <1>27,
     <1>28, <1>29, <1>30, <1>31, <1>32, <1>33, <1>34, <1>35, <1>36, <1>37, <1>38, <1>39, <1>40,
     <1>41, <1>42, <1>43, <1>44, <1>45, <1>46, <1>47, <1>48, <1>49, <1>50, <1>51, <1>52, <1>53,
     <1>54, <1>55, <1>56, <1>57 DEF Next, Creating, Operating, Queued, Aborting, Calling, Called,
     Restarting

-----------------------------------------------------------------------------
(* The theorems *)

\* At first no session runs, and nothing has been promised.
LEMMA WriterInit == Init => Turns /\ Writer /\ PromptIsOutbox /\ InstructionsAtLeastOnce
<1> SUFFICES ASSUME Init PROVE Turns /\ Writer /\ PromptIsOutbox /\ InstructionsAtLeastOnce
  OBVIOUS
<1>1. /\ queue = <<>> /\ Range(queue) = {} /\ create.step = "idle" /\ managed.s = 0
      /\ \A s \in Session : sess[s] = "none"
  BY EmptyQueue DEF Init, Idle, NoRuntime
<1>2. Turns
  BY <1>1 DEF Turns, TurnsOver, Held, CreatingNew, ResumingNew, AttachedMade, Resuming, NewSteps
<1>3. Writer
  BY <1>1 DEF Writer, BusyAttached, StoppingCause, NobodyBusy, OwnIdle, Idles, Owns, Resumes,
     Resuming, Settling, Begun, CreateLive, ResumeLive, Dropping, Launching, OneSession, Runs
<1>4. PromptIsOutbox /\ InstructionsAtLeastOnce
  BY <1>1 DEF Init, PromptIsOutbox, Resuming, InstructionsAtLeastOnce
<1> QED
  BY <1>2, <1>3, <1>4

\* A step that changes no variable keeps every part.
LEMMA WriterStutter ==
  ASSUME Turns, Writer, PromptIsOutbox, InstructionsAtLeastOnce, UNCHANGED vars
  PROVE  (Turns /\ Writer /\ PromptIsOutbox /\ InstructionsAtLeastOnce)'
<1>1. /\ rec' = rec /\ queue' = queue /\ op' = op /\ create' = create /\ abort' = abort /\ live' = live
      /\ managed' = managed /\ sess' = sess /\ accepted' = accepted /\ settled' = settled
  BY DEF vars, durable, sessions, control, history, op
<1>2. Turns'
  BY <1>1 DEF Turns, TurnsOver, Over, Held, CreatingNew, ResumingNew, AttachedMade, Unused, Resuming
<1>3. Writer'
  BY <1>1 DEF Writer, BusyAttached, StoppingCause, NobodyBusy, OwnIdle, Idles, Owns, Resumes,
     Resuming, Settling, Begun, CreateLive, ResumeLive, Dropping, Launching, OneSession, Runs
<1>4. PromptIsOutbox' /\ InstructionsAtLeastOnce'
  BY <1>1 DEF PromptIsOutbox, Resuming, InstructionsAtLeastOnce
<1> QED
  BY <1>2, <1>3, <1>4

\* Who runs, what has settled and what is still to be delivered are invariant.
LEMMA WriterInvariant ==
  Spec => [](Turns /\ Writer /\ PromptIsOutbox /\ InstructionsAtLeastOnce)
<1>1. /\ Types /\ Order /\ Life
      /\ Turns /\ Writer /\ PromptIsOutbox /\ InstructionsAtLeastOnce /\ [Next]_vars
      => (Turns /\ Writer /\ PromptIsOutbox /\ InstructionsAtLeastOnce)'
  BY LifeStep, TurnStep, WriterStep, OutboxStep, WriterStutter
<1> QED
  BY <1>1, WriterInit, LifeInvariant, PTL DEF Spec

\* Two sessions of a Worker never run a turn at once, one that is still being stopped
\* included, for every number of sessions, commands and crashes, and also when Pi fails
\* to stop a session.
THEOREM WorkerOneSession == Spec => []OneSession
<1>1. Writer => OneSession
  BY DEF Writer
<1> QED
  BY <1>1, WriterInvariant, PTL

\* Steering is delivered at least once: what was accepted is in the outbox until a turn
\* whose prompt carried it has settled.
THEOREM WorkerDeliversInstructions == Spec => []InstructionsAtLeastOnce
BY WriterInvariant, PTL

-----------------------------------------------------------------------------
(* Dispositions and results, when Pi does stop the sessions that it is told to stop *)

\* Which steps change the sessions, the callbacks, the result, the branch and the worktree,
\* the abort, the record and the start in flight.
SessionSteps ==
    \/ CreateOpen \/ CreateBuilt \/ CreateBegin \/ CreateFail \/ CreateDrop
    \/ ResumeOpen \/ ResumeBuilt \/ ResumeLatest \/ ResumeUpdate \/ ResumeLaunch
    \/ AbortInterrupt \/ Retire \/ Crash
    \/ \E s \in Session : EndTurn(s) \/ StopSession(s)
CallbackSteps == Crash \/ \E s \in Session : CommitBegin(s) \/ CompleteBegin(s) \/ Called(s)
ResultSteps == \E s \in Session : CompleteWritten(s) \/ CompleteClean(s)
TreeSteps == \E s \in Session : Commit(s) \/ Write(s)
AbortSteps == AbortRequest \/ AbortRead \/ AbortInterrupt \/ AbortStop \/ Crash
RecordSteps ==
    \/ CreateReserve \/ CreateStart \/ CreateBegin \/ CreateFail
    \/ Pause \/ Steer \/ ResumeResources \/ ResumeUpdate \/ AbortInterrupt
    \/ Acknowledge \/ SettleFail \/ BlockUnsettled \/ Publish \/ Accept \/ Refuse
    \/ \E s \in Session : ProgressPaused(s) \/ Escalate(s) \/ CompleteUpdate(s)
    \/ Reconcile \/ Recover
StartSteps == CreateRequest \/ Creating \/ Crash

\* No other step changes them.
LEMMA Changes ==
  ASSUME [Next]_vars
  PROVE  /\ mode' = mode \/ Crash \/ Restarting
         /\ (sess' = sess /\ live' = live) \/ SessionSteps
         /\ managed' = managed \/ SessionSteps \/ CreateSwap \/ ResumeSwap \/ AbortStop
         /\ cb' = cb \/ CallbackSteps
         /\ result' = result \/ ResultSteps
         /\ (head' = head /\ dirty' = dirty) \/ TreeSteps
         /\ abort' = abort \/ AbortSteps
         /\ rec' = rec \/ RecordSteps
         /\ create' = create \/ StartSteps
<1> USE DEF SessionSteps, CallbackSteps, ResultSteps, TreeSteps, AbortSteps, RecordSteps,
     StartSteps, durable, sessions, control
<1>1. CASE Creating
  BY <1>1 DEF Creating, CreateReserve, CreateStart, CreatePlan, CreateAddTree,
     CreateAddTreeFails, CreateOpen, CreateBuilt, CreateSwap, CreateBegin, CreateFail, CreateDrop
<1>2. CASE Operating
  BY <1>2 DEF Operating, CreateRequest, PauseRequest, SteerRequest, ResumeRequest, AbortRequest,
     PauseProject, ResumeProject
<1>3. CASE Queued
  <2>1. CASE Pause \/ Steer \/ ResumeStart \/ ResumeResources \/ ResumeOpen \/ ResumeBuilt
             \/ ResumeSwap \/ ResumeLatest \/ ResumeUpdate \/ ResumeLaunch
    BY <2>1 DEF Pause, Steer, ResumeStart, ResumeResources, ResumeOpen, ResumeBuilt, ResumeSwap,
       ResumeLatest, ResumeUpdate, ResumeLaunch
  <2>2. CASE Acknowledge \/ Settle \/ SettleFail \/ BlockUnsettled \/ Publish \/ Verify
             \/ Accept \/ Refuse \/ Retire
    BY <2>2 DEF Acknowledge, Settle, SettleFail, BlockUnsettled, Publish, Verify, Accept, Refuse,
       Retire
  <2> QED
    BY <1>3, <2>1, <2>2 DEF Queued
<1>4. CASE Aborting \/ PauseActive \/ Restarting \/ Crash
  BY <1>4 DEF Aborting, AbortRead, AbortInterrupt, AbortStop, PauseActive, Restarting, Reconcile,
     Recover, Crash
<1>5. ASSUME NEW s \in Session, Write(s) \/ EndTurn(s) \/ StopSession(s) \/ Calling(s)
      PROVE  /\ mode' = mode /\ managed' = managed
             /\ (sess' = sess /\ live' = live) \/ SessionSteps
             /\ cb' = cb \/ CallbackSteps
             /\ result' = result
             /\ (head' = head /\ dirty' = dirty) \/ TreeSteps
             /\ abort' = abort /\ create' = create
             /\ rec' = rec \/ RecordSteps
  BY <1>5 DEF Write, EndTurn, StopSession, Calling, CommitBegin, ProgressPaused, Escalate,
     CompleteBegin
<1>6. ASSUME NEW s \in Session, Called(s)
      PROVE  /\ mode' = mode /\ sess' = sess /\ live' = live /\ managed' = managed
             /\ cb' = cb \/ CallbackSteps
             /\ result' = result \/ ResultSteps
             /\ (head' = head /\ dirty' = dirty) \/ TreeSteps
             /\ abort' = abort /\ create' = create
             /\ rec' = rec \/ RecordSteps
  BY <1>6 DEF Called, Commit, CompleteVerify, CompleteWrite, CompleteWritten, CompleteUpdate,
     CompleteClean
<1>7. CASE UNCHANGED vars
  BY <1>7 DEF vars
<1> QED
  BY <1>1, <1>2, <1>3, <1>4, <1>5, <1>6, <1>7 DEF Next

\* The handler that runs goes on with what it has read.
SameHandler == op'.s = op.s /\ op'.turn = op.turn /\ SameReading

\* A handler is at such a step because it was, or because it has just read what it needs.
LEMMA HandlerStays ==
  ASSUME Types, Waits, [Next]_vars, NEW w \in {"publish", "accept"}, Settling({w})'
  PROVE  \/ Settling({w}) /\ SameHandler
         \/ w = "publish" /\ Settle /\ op'.seen # "completed"
         \/ w = "accept" /\ Verify /\ CompletedTree(op.commit) /\ SameHandler
<1> DEFINE G == Settling({w}) /\ SameHandler
<1>1. ASSUME queue' = queue PROVE G
  BY <1>1 DEF Settling, SameHandler, SameReading, op
<1>2. ASSUME Ends PROVE FALSE
  BY <1>2, NothingRuns
<1>3. ASSUME NEW v, StepsTo(v) \/ GoesTo(v), v # w \/ op.kind \notin SettledKind PROVE FALSE
  BY <1>3, RunsAt
<1>4. ASSUME NEW E, Gains(E), \A o \in E : o.step \in {"start", "settle"} PROVE G
  <2>1. Settling({w}) /\ op' = op
    BY <1>4, RunsAsBefore
  <2> QED
    BY <2>1 DEF SameHandler, SameReading
<1>5. ASSUME queue # <<>>, op.s \in Session, ResumeFails PROVE FALSE
  BY <1>2, <1>5, ResumeFailed
<1>6. CASE Creating
  BY <1>1, <1>6 DEF Creating, CreateReserve, CreateStart, CreatePlan, CreateAddTree,
     CreateAddTreeFails, CreateOpen, CreateBuilt, CreateSwap, CreateBegin, CreateFail, CreateDrop
<1>7. CASE CreateRequest \/ PauseProject \/ ResumeProject \/ Aborting \/ Restarting
  BY <1>1, <1>7 DEF CreateRequest, PauseProject, ResumeProject, Aborting, AbortRead,
     AbortInterrupt, AbortStop, Restarting, Reconcile, Recover, control
<1> HIDE DEF G
<1>8. CASE PauseRequest \/ SteerRequest \/ ResumeRequest \/ PauseActive
  <2>1. CASE PauseRequest \/ PauseActive
    <3>1. queue' = queue \/ Gains({Op("pause")})
      BY <2>1, NewOps, OpQueued DEF PauseRequest, PauseActive, Enqueue
    <3>2. \A o \in {Op("pause")} : o.step \in {"start", "settle"}
      BY DEF Op
    <3> QED
      BY <3>1, <3>2, <1>1, <1>4 DEF G
  <2>2. CASE SteerRequest
    <3>1. commands' \in 1..MaxCommands
      BY <2>2, BoundsAreSane DEF SteerRequest, Command, Types
    <3>2. \E x \in OpType : x.step = "start" /\ Gains({x})
      BY <2>2, <3>1, NewOps, OpQueued DEF SteerRequest, Enqueue, Op
    <3> QED
      BY <3>2, <1>4 DEF G
  <2>3. CASE ResumeRequest
    BY <2>3, ResumeAsked, <1>4 DEF G
  <2> QED
    BY <1>8, <2>1, <2>2, <2>3
<1>9. CASE AbortRequest
  <2>1. queue' = Superseded(queue)
    BY <1>9 DEF AbortRequest, Superseded
  <2>2. queue # <<>> /\ op' = [op EXCEPT !.stale = op.kind = "resume"]
    BY <2>1, SupersededQueue DEF Settling
  <2>3. op \in OpType /\ op'.kind = op.kind /\ op'.step = op.step
    BY <2>1, <2>2, SupersededOp, TheOp
  <2>4. SameHandler
    BY <2>2, <2>3 DEF OpType, OpRecord, SameHandler, SameReading
  <2> QED
    BY <2>2, <2>3, <2>4 DEF G, Settling
<1>10. CASE Pause \/ Steer
  <2>1. Ends
    BY <1>10, OpEnds DEF Pause, Steer, At
  <2> QED
    BY <2>1, <1>2
<1>11. CASE ResumeStart \/ ResumeResources \/ ResumeOpen \/ ResumeBuilt \/ ResumeSwap
            \/ ResumeLatest \/ ResumeUpdate
  <2>1. CASE ResumeStart \/ ResumeResources
    <3>1. /\ queue # <<>> /\ op.kind = "resume"
          /\ Ends \/ StepsTo("resources") \/ StepsTo("open")
      BY <2>1, AtResume DEF ResumeStart, ResumeResources, ResumeSteps
    <3> QED
      BY <3>1, <1>2, <1>3 DEF SettledKind
  <2>2. CASE ResumeOpen
    <3>1. queue # <<>> /\ op.kind = "resume" /\ (GoesTo("latest") \/ GoesTo("build"))
      BY <2>2, AtResume, ResumeOpens DEF ResumeOpen, ResumeSteps
    <3> QED
      BY <3>1, <1>3 DEF SettledKind
  <2>3. CASE ResumeBuilt
    <3>1. /\ queue # <<>> /\ op.kind = "resume" /\ op.s \in Session
          /\ ResumeFails \/ StepsTo("latest") \/ StepsTo("swap")
      BY <2>3, ResumeBuilds
    <3> QED
      BY <3>1, <1>3, <1>5 DEF SettledKind
  <2>4. CASE ResumeSwap
    <3>1. queue # <<>> /\ op.kind = "resume" /\ StepsTo("latest")
      BY <2>4, AtResume DEF ResumeSwap, ResumeSteps
    <3> QED
      BY <3>1, <1>3 DEF SettledKind
  <2>5. CASE ResumeLatest
    <3>1. /\ queue # <<>> /\ op.kind = "resume" /\ op.s \in Session
          /\ ResumeFails \/ GoesTo("update")
      BY <2>5, AtResume, ResumeReads DEF ResumeLatest, ResumeSteps
    <3> QED
      BY <3>1, <1>3, <1>5 DEF SettledKind
  <2>6. CASE ResumeUpdate
    <3>1. /\ queue # <<>> /\ op.kind = "resume" /\ op.s \in Session
          /\ ResumeFails \/ StepsTo("launch")
      BY <2>6, AtResume DEF ResumeUpdate, ResumeSteps
    <3> QED
      BY <3>1, <1>3, <1>5 DEF SettledKind
  <2> QED
    BY <1>11, <2>1, <2>2, <2>3, <2>4, <2>5, <2>6
<1>12. CASE ResumeLaunch
  <2>1. queue # <<>> /\ op.kind = "resume" /\ op.s \in Session
    BY <1>12, AtResume DEF ResumeLaunch, ResumeSteps
  <2>2. ResumeFails \/ Ends \/ op' \in Waiting(queue) \cup {Rejected(op.s, managed'.turn)}
    BY <1>12, Launches
  <2>3. CASE op' \in Waiting(queue) \cup {Rejected(op.s, managed'.turn)}
    BY <2>3, TurnOps DEF Waits, Settling
  <2> QED
    BY <2>1, <2>2, <2>3, <1>2, <1>5
<1>13. CASE Acknowledge \/ SettleFail \/ BlockUnsettled \/ Publish \/ Accept \/ Refuse \/ Retire
  <2>1. Ends \/ \E v \in {"settle", "retire", "refuse"} : StepsTo(v)
    BY <1>13, AtSettled DEF Acknowledge, SettleFail, BlockUnsettled, Publish, Accept, Refuse,
       Retire, SettleSteps
  <2> QED
    BY <2>1, <1>2, <1>3
<1>14. CASE Settle
  <2>1. \/ GoesTo("verify") \/ StepsTo("fail") \/ StepsTo("block") \/ Ends
        \/ GoesTo("publish") /\ op'.seen # "completed"
    BY <1>14, SettleChooses
  <2> QED
    BY <2>1, <1>2, <1>3, <1>14
<1>15. CASE Verify
  <2>1. (CompletedTree(op.commit) /\ StepsTo("accept")) \/ StepsTo("refuse")
    BY <1>15, VerifyChooses
  <2>2. StepsTo("accept") => w = "accept" /\ SameHandler
    BY <1>3 DEF StepsTo, GoesTo, SameHandler, SameSession
  <2> QED
    BY <2>1, <2>2, <1>3, <1>15
<1>16. ASSUME NEW s \in Session, Write(s) \/ StopSession(s) \/ Calling(s) \/ Called(s) PROVE G
  BY <1>16, <1>1 DEF Write, StopSession, Calling, CommitBegin, ProgressPaused, Escalate,
     CompleteBegin, Called, Commit, CompleteVerify, CompleteWrite, CompleteWritten,
     CompleteUpdate, CompleteClean, control
<1>17. ASSUME NEW s \in Session, EndTurn(s) PROVE G
  <2>1. Gains(Ended(s)) /\ \A o \in Ended(s) : o.step \in {"start", "settle"}
    BY <1>17, TurnEnds, EndedOps
  <2> QED
    BY <2>1, <1>4
<1>18. CASE Crash
  BY <1>18 DEF Crash, Settling
<1>19. CASE UNCHANGED vars
  <2>1. queue' = queue
    BY <1>19 DEF vars, control
  <2> QED
    BY <2>1, <1>1 DEF G
<1> QED
  BY <1>6, <1>7, <1>8, <1>9, <1>10, <1>11, <1>12, <1>13, <1>14, <1>15, <1>16, <1>17, <1>18, <1>19
     DEF Next, Operating, Queued, G

\* The session of a start that is being attached does not run.
CreateIdle == create.step \in NewSteps => ~Runs(create.s)

\* The same sessions run.
RunsIn(f) == \A u \in Session : f[u] \in {"busy", "stopping"} <=> Runs(u)

\* Disposing of a session stops it, and no session runs or rests that did not.
LEMMA DisposedRuns ==
  ASSUME Types, NEW s \in Session, NEW t \in Session
  PROVE  Disposed(s)[t] \in {"busy", "stopping"} <=> Runs(t)
<1>1. CASE s = t
  BY <1>1 DEF Disposed, Types, Runs
<1>2. CASE s # t
  BY <1>2 DEF Disposed, Types, Runs
<1> QED
  BY <1>1, <1>2

\* A session stops running only between two callbacks, and one that begins to run is one
\* whose prompt is launched.
LEMMA RunsStep ==
  ASSUME ~AbortMayReject, Types, Turns, Writer, CreateIdle, [Next]_vars, NEW s \in Session
  PROVE  /\ Runs(s) => Runs(s)' \/ Idling(s) \/ Crash
         /\ Runs(s)' => \/ Runs(s)
                        \/ rec'.status = "working" /\ (CreateBegin \/ (ResumeLaunch /\ s = op.s))
<1> DEFINE S == Runs(s)' <=> Runs(s)
<1>1. ASSUME sess' = sess PROVE S
  BY <1>1 DEF Runs
<1>2. ASSUME NEW t \in Session, sess' = Disposed(t) PROVE S
  BY <1>2, DisposedRuns DEF Runs
<1>3. ASSUME queue # <<>>, op.s \in Session, ResumeFails PROVE S
  BY <1>1, <1>2, <1>3 DEF ResumeFails, Dispose
<1>4. ASSUME MakeSession PROVE S
  BY <1>4, Makes DEF Runs
<1>5. ASSUME NEW t \in Session, ~Runs(t), NEW v \in {"idle", "gone"},
             NEW f \in [Session -> SessSet], RunsIn(f),
             sess' = [f EXCEPT ![t] = v]
      PROVE  S
  BY <1>5 DEF Runs, RunsIn
<1>6. CASE CreateOpen \/ ResumeOpen
  BY <1>6, <1>1, <1>4 DEF CreateOpen, ResumeOpen
<1>7. CASE CreateBuilt
  <2>1. create.s \in Session /\ create.step = "build" /\ (managed.s # 0 => managed.s \in Session)
    BY <1>7, CreateBuilds, BoundsAreSane DEF Types, ManagedType, Session
  <2>2. ~Runs(create.s)
    BY <2>1 DEF CreateIdle, NewSteps
  <2>3. sess \in [Session -> SessSet] /\ RunsIn(sess)
    BY DEF Types, Runs, RunsIn
  <2>4. managed.s # 0 => /\ Disposed(managed.s) \in [Session -> SessSet]
                         /\ RunsIn(Disposed(managed.s))
    BY <2>1, DisposedRuns, Writes DEF Session, RunsIn
  <2>5. \/ sess' = [sess EXCEPT ![create.s] = "idle"]
        \/ managed.s # 0 /\ sess' = [Disposed(managed.s) EXCEPT ![create.s] = "idle"]
        \/ sess' = [sess EXCEPT ![create.s] = "gone"]
    BY <1>7 DEF CreateBuilt
  <2> QED
    BY <2>1, <2>2, <2>3, <2>4, <2>5, <1>5
<1>8. CASE CreateBegin
  <2>1. CASE sess' = sess
    BY <2>1, <1>1
  <2>2. CASE Move("working") /\ sess' = [sess EXCEPT ![create.s] = "busy"]
    BY <2>2, <1>8, Moves DEF Types, Runs
  <2> QED
    BY <2>1, <2>2, <1>8 DEF CreateBegin
<1>9. CASE CreateFail \/ CreateDrop
  <2>1. sess' = sess \/ (create.s # 0 /\ Dispose(create.s))
    BY <1>9 DEF CreateFail, CreateDrop, CreateDropped
  <2>2. create.s # 0 => create.s \in Session
    BY BoundsAreSane DEF Types, CreateType, Session
  <2> QED
    BY <2>1, <2>2, <1>1, <1>2 DEF Dispose
<1>10. CASE ResumeBuilt
  <2>1. /\ queue # <<>> /\ op.kind = "resume" /\ op.step = "build" /\ op.s \in Session
        /\ managed.s # 0 => managed.s \in Session
    BY <1>10, ResumeBuilds, BoundsAreSane DEF Types, ManagedType, Session
  <2>2. live = op.s => ~Runs(op.s)
    BY <2>1 DEF Turns, ResumingNew, Resuming, NewSteps, Unused, Writer, BusyAttached,
       StoppingCause, Runs
  <2>3. sess \in [Session -> SessSet] /\ RunsIn(sess)
    BY DEF Types, Runs, RunsIn
  <2>4. managed.s # 0 => /\ Disposed(managed.s) \in [Session -> SessSet]
                         /\ RunsIn(Disposed(managed.s))
    BY <2>1, DisposedRuns, Writes DEF Session, RunsIn
  <2>5. \/ live = op.s /\ sess' = [sess EXCEPT ![op.s] = "idle"]
        \/ live = op.s /\ managed.s # 0 /\ sess' = [Disposed(managed.s) EXCEPT ![op.s] = "idle"]
        \/ ResumeFails
    BY <1>10 DEF ResumeBuilt
  <2> QED
    BY <2>1, <2>2, <2>3, <2>4, <2>5, <1>3, <1>5
<1>11. CASE ResumeLatest \/ ResumeUpdate
  <2>1. queue # <<>> /\ op.s \in Session
    BY <1>11, AtResume DEF ResumeLatest, ResumeUpdate, ResumeSteps
  <2> QED
    BY <1>11, <2>1, <1>1, <1>3 DEF ResumeLatest, ResumeUpdate
<1>12. CASE ResumeLaunch
  <2>1. queue # <<>> /\ op.s \in Session /\ op.kind = "resume" /\ op.step = "launch" /\ rec' = rec
    BY <1>12, AtResume DEF ResumeLaunch, ResumeSteps, durable
  <2>2. rec'.status = "working"
    BY <2>1 DEF Writer, Launching, Resuming
  <2>3. CASE sess[op.s] = "idle" /\ sess' = [sess EXCEPT ![op.s] = "busy"]
    BY <2>1, <2>2, <2>3, <1>12 DEF Types, Runs
  <2> QED
    BY <1>12, <2>1, <2>3, <1>1, <1>3, Launches
<1>13. CASE AbortInterrupt
  <2>1. managed.s # 0 => managed.s \in Session
    BY BoundsAreSane DEF Types, ManagedType, Session
  <2> QED
    BY <1>13, <2>1, <1>1, <1>2 DEF AbortInterrupt
<1>14. CASE Retire
  BY <1>14, <1>2, AtSettled DEF Retire, Dispose
<1>15. ASSUME NEW t \in Session, EndTurn(t) \/ StopSession(t)
       PROVE  (Runs(s)' => Runs(s)) /\ (Runs(s) => Runs(s)' \/ Idling(s))
  <2>1. Idling(t) /\ (sess' = [sess EXCEPT ![t] = "idle"] \/ sess' = [sess EXCEPT ![t] = "gone"])
    BY <1>15 DEF EndTurn, StopSession
  <2> QED
    BY <2>1 DEF Types, Runs
<1>16. CASE Crash
  BY <1>16 DEF Crash, Runs
<1> QED
  BY <1>1, <1>6, <1>7, <1>8, <1>9, <1>10, <1>11, <1>12, <1>13, <1>14, <1>15, <1>16, Changes DEF
     SessionSteps

\* A Worker whose session an emergency abort stops is interrupted, or has failed since.
AbortStops == abort.step = "stop" => rec.status \in {"interrupted", "failed"}

\* A session is only told to stop while its Worker runs, or once it failed, or by the abort.
Stoppable == Running \cup {"verifying", "failed"}
Aborted(s) == abort.step = "stop" /\ abort.s = s
StopStatus == \A s \in Session : sess[s] = "stopping" => rec.status \in Stoppable \/ Aborted(s)

\* While the handler of a turn that settled has the last word, the only session that runs
\* is one that failed or is aborted ...
LEMMA TurnCalm ==
  ASSUME Types, Turns, Writer, queue # <<>>, op.kind \in SettledKind, OpTurn, NEW s \in Session,
         Runs(s)
  PROVE  sess[s] = "stopping" /\ (rec.status = "failed" \/ Aborted(s))
<1>1. sess[s] = "stopping"
  BY TurnQuiet DEF Runs
<1>2. ~(managed.s = s /\ live # s)
  BY DEF OpTurn, CurrentTurn
<1> QED
  BY <1>1, <1>2 DEF Writer, StoppingCause, Aborted

\* ... and when a resume begins a new attempt none does.
LEMMA ResumeCalm ==
  ASSUME Types, Order, Writer, StopStatus, ResumeUpdate, MayResume
  PROVE  abort.step # "stop" /\ \A s \in Session : ~Runs(s)
<1>1. queue # <<>> /\ op \in Range(queue) /\ op.kind = "resume" /\ op.step = "update"
  BY AtResume DEF ResumeUpdate, ResumeSteps
<1>2. \A s \in Session : sess[s] # "busy"
  BY <1>1 DEF Writer, NobodyBusy, Idles, Resumes, Resuming, ResumeSteps
<1>3. abort.step # "stop"
  BY <1>1 DEF MayResume, Order, Supersedes, Idle
<1>4. rec.status \notin Stoppable
  BY DEF MayResume, Resumable, Stoppable, Running
<1> QED
  BY <1>2, <1>3, <1>4 DEF StopStatus, Runs, Aborted

\* A handler does not publish a completion that it did not verify.
PublishSays == Settling({"publish"}) => op.seen # "completed"

\* What a step does to the record: ...
SameDisposition ==
    rec'.attempt = rec.attempt /\ rec'.pending = rec.pending /\ rec'.commit = rec.commit
\* a new attempt begins while nobody runs; ...
AttemptStep == rec'.attempt = rec.attempt \/ \A s \in Session : ~Runs(s)
\* a Worker that runs submits a disposition; ...
Submits == \E s \in Session : ProgressPaused(s) \/ Escalate(s) \/ CompleteUpdate(s)
VerifyingStep == rec'.status = "verifying" =>
    (rec.status = "verifying" /\ SameDisposition) \/ (rec.status \in Running /\ Submits)
\* it is completed by its handler or after a restart; ...
CompletedStep == rec'.status = "completed" =>
    (rec.status = "completed" /\ SameDisposition) \/ Accept \/ Reconcile
\* an abort in flight is not undone; ...
InterruptedStep == abort.step = "stop" => rec'.status \in {"interrupted", "failed"}
\* and only the abort leaves behind a session that has still to stop.
StoppableStep ==
    rec'.status \in Stoppable \/ AbortInterrupt \/ \A s \in Session : Runs(s) => Aborted(s)
RecordStep == AttemptStep /\ VerifyingStep /\ CompletedStep /\ InterruptedStep /\ StoppableStep

\* Every step does that to the record.
LEMMA RecordWritten ==
  ASSUME Types, Order, Life, Turns, Writer, AbortStops, StopStatus, PublishSays, [Next]_vars
  PROVE  RecordStep
<1> USE DEF RecordStep
<1>1. ASSUME rec'.status = rec.status, SameDisposition PROVE RecordStep
  BY <1>1 DEF AttemptStep, VerifyingStep, CompletedStep, InterruptedStep, StoppableStep,
     SameDisposition, AbortStops, StopStatus, Writer, BusyAttached, Runs, Stoppable
<1>2. ASSUME rec'.attempt = rec.attempt, rec'.status = "failed" PROVE RecordStep
  BY <1>2 DEF AttemptStep, VerifyingStep, CompletedStep, InterruptedStep, StoppableStep,
     Stoppable
<1>3. ASSUME \A s \in Session : ~Runs(s), abort.step # "stop",
             rec'.status \notin {"verifying", "completed"}
      PROVE  RecordStep
  BY <1>3 DEF AttemptStep, VerifyingStep, CompletedStep, InterruptedStep, StoppableStep, Runs
<1>4. ASSUME rec.status \in NotBegun, rec'.status \notin {"verifying", "completed"}
      PROVE RecordStep
  BY <1>4, <1>3 DEF Writer, Begun, NotBegun, AbortStops
<1>5. ASSUME NEW v, SettledAt(v), OpTurn, rec.status \in Running \cup {"verifying"}
      PROVE  (\A s \in Session : ~Runs(s)) /\ abort.step # "stop"
  <2>1. abort.step # "stop" /\ rec.status # "failed"
    BY <1>5 DEF AbortStops, Running
  <2>2. queue # <<>> /\ op.kind \in SettledKind
    BY <1>5, AtSettled
  <2> QED
    BY <1>5, <2>1, <2>2, TurnCalm DEF Aborted
<1>6. ASSUME mode # "up"
      PROVE  (\A s \in Session : ~Runs(s)) /\ abort.step # "stop"
  BY <1>6 DEF Order, Rest, Idle, Runs
<1>7. ASSUME rec' = rec PROVE RecordStep
  BY <1>7, <1>1 DEF SameDisposition
<1>8. CASE CreateReserve
  <2>1. CASE rec.status = "none" /\ rec'.status = "queued"
    BY <2>1, <1>4 DEF NotBegun
  <2> QED
    BY <1>8, <2>1, <1>7 DEF CreateReserve, CreateAt, Order, Life, ReserveFirst, Types, RecType
<1>9. CASE CreateStart \/ CreateBegin
  <2>1. CASE rec.status \in NotBegun /\ rec'.status \in {"starting", "working"}
    BY <2>1, <1>4
  <2> QED
    BY <1>9, <2>1, <1>7, Moves DEF CreateStart, CreateBegin, NotBegun
<1>10. CASE CreateFail
  BY <1>10, <1>2, <1>7, Becomes DEF CreateFail
<1>11. CASE Pause
  <2>1. CASE rec.status \in {"queued", "starting", "working"} /\ Move("pause_requested")
    BY <2>1, Moves DEF AttemptStep, VerifyingStep, CompletedStep, InterruptedStep, StoppableStep,
       Stoppable, Running, AbortStops
  <2> QED
    BY <1>11, <2>1, <1>7 DEF Pause
<1>12. CASE Steer \/ Acknowledge
  <2>1. rec'.status = rec.status /\ SameDisposition
    BY <1>12 DEF Steer, Acknowledge, Types, RecType, SameDisposition
  <2> QED
    BY <2>1, <1>1
<1>13. CASE ResumeResources
  BY <1>13, <1>2, <1>7, Moves DEF ResumeResources
<1>14. CASE ResumeUpdate
  <2>1. CASE MayResume
    <3>1. abort.step # "stop" /\ \A s \in Session : ~Runs(s)
      BY <1>14, <2>1, ResumeCalm
    <3>2. rec'.status = "working"
      BY <1>14, <2>1 DEF ResumeUpdate, Types, RecType
    <3> QED
      BY <3>1, <3>2, <1>3
  <2> QED
    BY <1>14, <2>1, <1>7 DEF ResumeUpdate
<1>15. CASE AbortInterrupt
  <2>1. CASE Become("interrupted")
    BY <2>1, <1>15, Becomes DEF AttemptStep, VerifyingStep, CompletedStep, InterruptedStep,
       StoppableStep
  <2> QED
    BY <1>15, <2>1, <1>7 DEF AbortInterrupt
<1>16. CASE SettleFail
  BY <1>16, <1>2, <1>7, Becomes DEF SettleFail
<1>17. CASE BlockUnsettled \/ Refuse \/ Publish
  <2>1. CASE rec' = rec
    BY <2>1, <1>7
  <2>2. CASE rec' # rec
    <3>1. /\ \A s \in Session : ~Runs(s)
          /\ abort.step # "stop"
      BY <1>17, <2>2, <1>5 DEF BlockUnsettled, Refuse, Publish
    <3>2. rec'.status = "blocked" \/ (Publish /\ rec'.status = op.seen)
      BY <1>17, <2>2, Moves, Becomes DEF BlockUnsettled, Refuse, Publish
    <3>3. Publish => op.seen \in PendingSet \ {"completed"}
      BY AtSettled DEF Publish, PublishSays, Settling
    <3> QED
      BY <3>1, <3>2, <3>3, <1>3 DEF PendingSet
  <2> QED
    BY <2>1, <2>2
<1>18. CASE Accept
  <2>1. CASE rec' = rec
    BY <2>1, <1>7
  <2>2. CASE rec' # rec
    <3>1. /\ \A s \in Session : ~Runs(s)
          /\ abort.step # "stop"
      BY <1>18, <2>2, <1>5 DEF Accept
    <3>2. rec'.status = "completed"
      BY <1>18, <2>2, Becomes DEF Accept
    <3> QED
      BY <1>18, <3>1, <3>2 DEF AttemptStep, VerifyingStep, CompletedStep, InterruptedStep,
         StoppableStep, Runs
  <2> QED
    BY <2>1, <2>2
<1>19. ASSUME NEW s \in Session, ProgressPaused(s) \/ Escalate(s) \/ CompleteUpdate(s)
       PROVE RecordStep
  <2>1. CASE rec.status \in Running /\ rec'.status = "verifying" /\ rec'.attempt = rec.attempt
    BY <1>19, <2>1 DEF AttemptStep, VerifyingStep, CompletedStep, InterruptedStep, StoppableStep,
       Stoppable, Running, AbortStops, Submits
  <2> QED
    BY <1>19, <2>1, <1>7 DEF ProgressPaused, Escalate, CompleteUpdate, MayCall, Types, RecType
<1>20. CASE Reconcile
  <2>1. mode # "up"
    BY <1>20 DEF Reconcile
  <2>2. rec' = rec \/ rec'.status # "verifying"
    <3>1. CASE Become("paused") \/ Become("blocked")
      BY <3>1, Becomes
    <3>2. CASE rec' = [rec EXCEPT !.status = result.status, !.pending = "none",
                                  !.commit = IF result.commit = 0 THEN @ ELSE result.commit]
      <4>1. rec'.status = result.status
        BY <3>2 DEF Types, RecType
      <4> QED
        BY <4>1 DEF Types, ResultType, ResultSet
    <3> QED
      BY <1>20, <3>1, <3>2 DEF Reconcile
  <2>3. CASE rec'.status # "verifying"
    BY <1>20, <2>1, <2>3, <1>6 DEF AttemptStep, VerifyingStep, CompletedStep, InterruptedStep,
       StoppableStep, Runs
  <2> QED
    BY <2>2, <2>3, <1>7
<1>21. CASE Recover
  <2>1. mode # "up"
    BY <1>21 DEF Recover
  <2>2. rec' = rec \/ rec'.status \in {"failed", "interrupted"}
    BY <1>21, Becomes DEF Recover
  <2> QED
    BY <2>1, <2>2, <1>3, <1>6, <1>7
<1> QED
  BY <1>7, <1>8, <1>9, <1>10, <1>11, <1>12, <1>13, <1>14, <1>15, <1>16, <1>17, <1>18, <1>19,
     <1>20, <1>21, Changes DEF RecordSteps

\* A callback is executed for a session that runs ...
CallsRun == \A s \in Session : ~Idling(s) => Runs(s)

\* ... and none once the attempt has its disposition.
VerifyingQuiet == rec.status = "verifying" => \A s \in Session : Idling(s)

\* A completing callback is about the attempt of the record, has a verified commit for a
\* completion, and comes to its update when the result says what it says.
Says(s) ==
    /\ cb[s].step \notin {"none", "commit"} => cb[s].attempt = rec.attempt
    /\ cb[s].step \in {"write", "written", "update"} /\ cb[s].status = "completed" => cb[s].commit > 0
    /\ cb[s].step = "update" =>
          result = [attempt |-> cb[s].attempt, status |-> cb[s].status, commit |-> cb[s].commit]
CallSays == \A s \in Session : Says(s)

\* While a completion waits to be accepted the branch and the worktree stay as verified.
Accepting == Settling({"accept"}) /\ OpTurn /\ rec.status = "verifying" =>
    head = op.commit /\ head > 0 /\ ~dirty

\* A start keeps its session idle.
LEMMA CreateIdleStep ==
  ASSUME ~AbortMayReject, Types, Turns, Writer, CreateIdle, [Next]_vars
  PROVE  CreateIdle'
<1> SUFFICES ASSUME create'.step \in NewSteps PROVE ~Runs(create.s)'
  BY DEF CreateIdle
<1>1. CASE create' = create
  <2>1. create.s \in Session /\ create.step \in NewSteps /\ ~Runs(create.s)
    BY <1>1 DEF Types, CreateType, NewSteps, CreateIdle
  <2>2. ~CreateBegin
    BY <2>1 DEF CreateBegin, CreateAt, NewSteps
  <2>3. ~(ResumeLaunch /\ create.s = op.s)
    BY <2>1, AtResume DEF ResumeLaunch, ResumeSteps, Turns, CreatingNew, Resuming, HeldSteps
  <2> QED
    BY <1>1, <2>1, <2>2, <2>3, RunsStep DEF Runs
<1>2. CASE CreateOpen
  BY <1>2, Makes DEF CreateOpen, Runs
<1>3. CASE CreateBuilt
  BY <1>3, CreateBuilds DEF Runs
<1>4. CASE CreateRequest \/ Crash
  <2>1. create' = [step |-> "reserve", s |-> 0] \/ create' = Idle
    BY <1>4 DEF CreateRequest, Crash
  <2> QED
    BY <2>1 DEF NewSteps, Idle
<1>5. CASE CreateReserve \/ CreateStart \/ CreatePlan \/ CreateAddTree \/ CreateAddTreeFails
           \/ CreateSwap \/ CreateBegin \/ CreateFail \/ CreateDrop
  <2>1. create' = Idle \/ \E v \in {"idle", "start", "fail", "plan", "addTree", "open", "begin",
  "drop"} : CreateTo(v)
    BY <1>5 DEF CreateReserve, CreateStart, CreatePlan, CreateAddTree, CreateAddTreeFails,
       CreateSwap, CreateBegin, CreateFail, CreateDrop, CreateDropped
  <2> QED
    BY <2>1, Creates DEF NewSteps, Idle
<1> QED
  BY <1>1, <1>2, <1>3, <1>4, <1>5, Changes DEF StartSteps, Creating

\* An abort in flight has interrupted its Worker.
LEMMA AbortStopsStep ==
  ASSUME Types, Order, AbortStops, InterruptedStep, [Next]_vars
  PROVE  AbortStops'
<1>1. CASE AbortInterrupt
  BY <1>1, Interrupts DEF AbortStops, Idle
<1>2. abort' = abort \/ abort'.step # "stop" \/ AbortInterrupt
  <2>1. AbortRequest \/ AbortRead => abort'.step # "stop"
    BY DEF AbortRequest, AbortRead, Idle
  <2>2. AbortStop \/ Crash => abort' = Idle
    BY DEF AbortStop, Crash
  <2> QED
    BY <2>1, <2>2, Changes DEF AbortSteps, Idle
<1> QED
  BY <1>1, <1>2 DEF AbortStops, InterruptedStep

\* A session that is told to stop has its reason.
LEMMA StopStatusStep ==
  ASSUME ~AbortMayReject, Types, Turns, Writer, CreateIdle, StopStatus, StoppableStep, [Next]_vars
  PROVE  StopStatus'
<1> SUFFICES ASSUME NEW s \in Session, sess'[s] = "stopping", rec'.status \notin Stoppable
             PROVE  Aborted(s)'
  BY DEF StopStatus
<1>1. Runs(s)
  BY RunsStep DEF Runs, Stoppable, Running
<1>2. ASSUME Aborted(s) PROVE Aborted(s)'
  <2>1. ~AbortRequest /\ ~AbortRead /\ ~AbortInterrupt
    BY <1>2 DEF AbortRequest, AbortRead, AbortInterrupt, AbortAt, Aborted, Idle
  <2>2. ~AbortStop
    BY <1>1, <1>2 DEF AbortStop, Aborted, Runs
  <2>3. ~Crash
    BY DEF Crash
  <2> QED
    BY <1>2, <2>1, <2>2, <2>3, Changes DEF AbortSteps, Aborted
<1>3. CASE AbortInterrupt
  <2>1. rec.status \in Stoppable \/ Aborted(s)
    BY <1>1 DEF Writer, BusyAttached, StopStatus, Runs, Stoppable
  <2>2. rec' # rec \/ Aborted(s)
    BY <2>1
  <2>3. s # 0
    BY BoundsAreSane DEF Session
  <2>4. CASE managed.s = 0
    <3>1. rec' # rec => rec.status # "failed"
      BY <1>3, <2>4 DEF AbortInterrupt, Unfinished, Finished
    <3> QED
      BY <1>1, <1>2, <2>2, <2>3, <2>4, <3>1 DEF Writer, BusyAttached, StoppingCause, Runs,
         Aborted
  <2>5. CASE /\ managed.s \in Session /\ Stops(managed.s)
             /\ abort'.step = "stop" /\ abort'.s = managed.s
             /\ rec.status \in ActiveStatuses \cup Resumable
    <3>1. CASE s = managed.s
      BY <2>5, <3>1 DEF Aborted
    <3>2. CASE s # managed.s
      <4>1. sess[s] = "stopping" /\ rec.status # "failed"
        BY <2>5, <3>2 DEF Stops, ActiveStatuses, Resumable
      <4> QED
        BY <1>2, <3>2, <4>1 DEF Writer, StoppingCause, Aborted
    <3> QED
      BY <3>1, <3>2
  <2> QED
    BY <1>2, <1>3, <2>2, <2>4, <2>5, Interrupts
<1> QED
  BY <1>1, <1>2, <1>3 DEF StoppableStep

\* What the step of one callback leaves alone: the others, and the sessions.
LEMMA CallbackStep ==
  ASSUME Types, NEW t \in Session, CommitBegin(t) \/ CompleteBegin(t) \/ Called(t)
  PROVE  /\ sess' = sess /\ \A u \in Session : u # t => cb'[u] = cb[u]
         /\ CommitBegin(t) \/ CompleteBegin(t) => MayCall(t) /\ rec' = rec
         /\ Called(t) => ~Idling(t)
<1>1. CASE CommitBegin(t) \/ CompleteBegin(t)
  BY <1>1 DEF Types, CommitBegin, CompleteBegin, CallTo, MayCall, durable, Called, Commit,
     CompleteVerify, CompleteWrite, CompleteWritten, CompleteUpdate, CompleteClean, CallAt,
     Idling
<1>2. CASE Called(t)
  <2>1. ~Idling(t) /\ sess' = sess
    BY <1>2 DEF Called, Commit, CompleteVerify, CompleteWrite, CompleteWritten, CompleteUpdate,
       CompleteClean, CallAt, Idling
  <2>2. \/ CallEnds(t) \/ \E v : CallTo(t, v)
        \/ \E n : cb' = [cb EXCEPT ![t].step = "write", ![t].commit = n]
    BY <1>2 DEF Called, Commit, CompleteVerify, CompleteWrite, CompleteWritten, CompleteUpdate,
       CompleteClean
  <2>3. ~CommitBegin(t) /\ ~CompleteBegin(t)
    BY <2>1 DEF CommitBegin, CompleteBegin, MayCall
  <2> QED
    BY <2>1, <2>2, <2>3 DEF Types, CallEnds, CallTo
<1> QED
  BY <1>1, <1>2

\* A session that executes a callback is the only one that runs.
LEMMA OneCallback ==
  ASSUME Writer, CallsRun, NEW s \in Session, NEW t \in Session, ~Idling(s), Runs(t)
  PROVE  s = t
BY DEF Writer, OneSession, CallsRun, Runs

\* A crash leaves nothing of a callback.
LEMMA CrashQuiet ==
  ASSUME Crash, NEW s \in Session
  PROVE  Idling(s)'
<1>1. cb'[s] = NoCallback
  BY DEF Crash
<1> QED
  BY <1>1 DEF NoCallback, Idling

\* The callbacks run.
LEMMA CallsRunStep ==
  ASSUME ~AbortMayReject, Types, Turns, Writer, CreateIdle, CallsRun, [Next]_vars
  PROVE  CallsRun'
<1> SUFFICES ASSUME NEW s \in Session, ~Idling(s)' PROVE Runs(s)'
  BY DEF CallsRun
<1>1. ~Crash
  BY CrashQuiet
<1>2. CASE ~Idling(s)
  BY <1>1, <1>2, RunsStep DEF CallsRun
<1>3. CASE Idling(s)
  <2>1. PICK t \in Session : CommitBegin(t) \/ CompleteBegin(t) \/ Called(t)
    BY <1>1, <1>3, Changes DEF CallbackSteps, Idling
  <2>2. sess' = sess /\ MayCall(s)
    BY <1>3, <2>1, CallbackStep DEF Idling
  <2> QED
    BY <2>2 DEF Runs, MayCall
<1> QED
  BY <1>2, <1>3

\* No callback is left when the disposition is submitted.
LEMMA VerifyingQuietStep ==
  ASSUME Types, Writer, CallsRun, VerifyingQuiet, VerifyingStep, [Next]_vars
  PROVE  VerifyingQuiet'
<1> SUFFICES ASSUME rec'.status = "verifying", NEW s \in Session PROVE Idling(s)'
  BY DEF VerifyingQuiet
<1>1. CASE rec.status = "verifying"
  <2>1. \A t \in Session : ~CommitBegin(t) /\ ~CompleteBegin(t) /\ ~Called(t)
    BY <1>1, CallbackStep DEF VerifyingQuiet, MayCall, Running
  <2> QED
    BY <1>1, <2>1, CrashQuiet, Changes DEF CallbackSteps, Idling, VerifyingQuiet
<1>2. ASSUME rec.status \in Running, NEW t \in Session, ProgressPaused(t) \/ Escalate(t)
      PROVE Idling(s)'
  <2>1. Runs(t) /\ Idling(t) /\ cb' = cb
    BY <1>2 DEF ProgressPaused, Escalate, MayCall, sessions, Runs
  <2> QED
    BY <2>1, OneCallback DEF Idling
<1>3. ASSUME rec.status \in Running, NEW t \in Session, CompleteUpdate(t) PROVE Idling(s)'
  <2>1. ~Idling(t)
    BY <1>3 DEF CompleteUpdate, CallAt, Idling
  <2>2. CallEnds(t)
    BY <1>3 DEF CompleteUpdate, Running
  <2>3. s # t => Idling(s)
    BY <2>1, OneCallback DEF CallsRun
  <2> QED
    BY <2>2, <2>3 DEF CallEnds, NoCallback, Idling, Types
<1> QED
  BY <1>1, <1>2, <1>3 DEF VerifyingStep, Submits

\* What a callback says of the attempt stays true.
LEMMA CallSaysStep ==
  ASSUME Types, Writer, CallsRun, CallSays, AttemptStep, [Next]_vars
  PROVE  CallSays'
<1> SUFFICES ASSUME NEW s \in Session PROVE Says(s)'
  BY DEF CallSays
<1>1. Says(s) /\ cb[s] \in CbType
  BY DEF CallSays, Types
<1>2. CASE cb'[s] = cb[s]
  <2>1. CASE Idling(s)
    BY <1>2, <2>1 DEF Says, Idling
  <2>2. CASE ~Idling(s)
    <3>1. rec'.attempt = rec.attempt
      BY <2>2 DEF AttemptStep, CallsRun
    <3>2. ASSUME NEW t \in Session, CompleteWritten(t) \/ CompleteClean(t) PROVE FALSE
      <4>1. ~Idling(t)
        BY <3>2 DEF CompleteWritten, CompleteClean, CallAt, Idling
      <4>2. s = t
        BY <4>1, <2>2, OneCallback DEF CallsRun
      <4>3. cb'[s].step # cb[s].step
        BY <3>2, <4>2 DEF CompleteWritten, CompleteClean, CallAt, CallTo, CallEnds, NoCallback,
           Types, CbType
      <4> QED
        BY <4>3, <1>2
    <3>3. result' = result
      BY <3>2, Changes DEF ResultSteps
    <3> QED
      BY <1>1, <1>2, <3>1, <3>3 DEF Says
  <2> QED
    BY <2>1, <2>2
<1>3. CASE cb'[s] # cb[s]
  <2>1. CASE Crash
    BY <2>1 DEF Crash, Says, NoCallback
  <2>2. CASE ~Crash
    <3>1. PICK t \in Session : CommitBegin(t) \/ CompleteBegin(t) \/ Called(t)
      BY <1>3, <2>2, Changes DEF CallbackSteps
    <3>2. s = t
      BY <1>3, <3>1, CallbackStep
    <3>3. CASE CommitBegin(s)
      BY <3>3 DEF CommitBegin, CallTo, Types, CbType, Says
    <3>4. CASE CompleteBegin(s)
      BY <3>4 DEF CompleteBegin, Types, Says, durable
    <3>5. CASE Called(s)
      <4>1. CASE Commit(s) \/ CompleteClean(s)
        BY <4>1 DEF Commit, CompleteClean, CallEnds, NoCallback, Types, Says
      <4>2. CASE CompleteVerify(s)
        BY <1>1, <4>2 DEF CompleteVerify, CallAt, CallEnds, NoCallback, Types, CbType,
           CompletedTree, durable, Says
      <4>3. CASE CompleteWrite(s)
        BY <1>1, <4>3 DEF CompleteWrite, CallAt, CallTo, CallEnds, NoCallback, Types, CbType,
           durable, Says
      <4>4. CASE CompleteWritten(s)
        BY <1>1, <4>4 DEF CompleteWritten, CallAt, CallTo, Types, CbType, Says
      <4>5. CASE CompleteUpdate(s)
        BY <1>1, <4>5 DEF CompleteUpdate, CallAt, CallTo, CallEnds, NoCallback, Types, CbType,
           Says
      <4> QED
        BY <3>5, <4>1, <4>2, <4>3, <4>4, <4>5 DEF Called
    <3> QED
      BY <3>1, <3>2, <3>3, <3>4, <3>5
  <2> QED
    BY <2>1, <2>2
<1> QED
  BY <1>2, <1>3

\* A handler that publishes does not publish a completion.
LEMMA PublishSaysStep ==
  ASSUME Types, Order, PublishSays, [Next]_vars
  PROVE  PublishSays'
<1> SUFFICES ASSUME Settling({"publish"})' PROVE op'.seen # "completed"
  BY DEF PublishSays
<1>1. \/ Settling({"publish"}) /\ SameHandler
      \/ op'.seen # "completed"
  BY HandlerStays DEF Order
<1> QED
  BY <1>1 DEF PublishSays, SameHandler, SameReading

\* While a completion waits to be accepted nobody attaches another session, or launches a
\* prompt: a turn that has the last word then had it before.
LEMMA TurnStays ==
  ASSUME Types, Turns, NEW w, Settling({w}), w # "retire", op'.s = op.s, op'.turn = op.turn,
         queue' # <<>>, OpTurn', [Next]_vars
  PROVE  OpTurn
<1>1. /\ op \in OpType /\ op \in Range(queue) /\ op.kind \in SettledKind /\ op.s \in Session
      /\ op.step = w /\ op.s # 0
  BY TheOp, BoundsAreSane DEF Settling, OpType, HasSession, Session
<1>2. sess[op.s] # "none" /\ (create.step \in NewSteps => create.s # op.s)
  BY <1>1 DEF Turns, TurnsOver, Over, CreatingNew, Unused
<1>3. live' = op.s /\ managed'.s = op.s /\ managed'.turn = op.turn
  BY DEF OpTurn, CurrentTurn
<1>4. SUFFICES live' = live /\ managed' = managed
  BY <1>3 DEF OpTurn, CurrentTurn
<1>5. \A v \in ResumeSteps : ~ResumeAt(v)
  BY <1>1 DEF ResumeAt, SettledKind
<1>6. CASE CreateOpen
  BY <1>2, <1>3, <1>6, Makes DEF CreateOpen
<1>7. CASE CreateBuilt
  BY <1>2, <1>3, <1>7, CreateBuilds DEF NewSteps
<1>8. CASE CreateBegin
  <2>1. managed' = managed \/ managed' = Launched(<<>>)
    BY <1>8 DEF CreateBegin
  <2>2. managed \in ManagedType /\ op.turn \in Nat
    BY <1>1 DEF Types, OpType, OpRecord
  <2>3. CASE managed' = Launched(<<>>)
    <3>1. managed'.s = managed.s /\ managed'.turn = managed.turn + 1 /\ managed.turn \in Nat
      BY <2>2, <2>3 DEF Launched, ManagedType
    <3>2. op.turn <= managed.turn
      BY <1>1, <1>3, <3>1 DEF Turns, TurnsOver, Over
    <3> QED
      BY <1>3, <2>2, <3>1, <3>2
  <2>4. live' = live
    BY <1>8 DEF CreateBegin
  <2> QED
    BY <2>1, <2>3, <2>4
<1>9. CASE CreateFail \/ CreateDrop
  <2>1. UNCHANGED <<live, managed>> \/ (create.s # 0 /\ Invalidate(create.s) /\ Dispose(create.s))
    BY <1>9 DEF CreateFail, CreateDrop, CreateDropped
  <2>2. create.s # 0 => create.s \in Session
    BY BoundsAreSane DEF Types, CreateType, Session
  <2> QED
    BY <1>1, <1>3, <2>1, <2>2, Dropped DEF Drops, NoRuntime
<1>10. CASE AbortInterrupt
  BY <1>1, <1>3, <1>10, Interrupts
<1>11. CASE CreateSwap
  <2>1. create.step = "swap" /\ managed' = [NoRuntime EXCEPT !.s = create.s]
    BY <1>11 DEF CreateSwap, CreateAt
  <2> QED
    BY <1>2, <1>3, <2>1 DEF NewSteps, NoRuntime
<1>12. CASE AbortStop
  BY <1>1, <1>3, <1>12 DEF AbortStop, NoRuntime
<1>13. ASSUME NEW s \in Session, EndTurn(s) \/ StopSession(s)
       PROVE live' = live /\ managed' = managed
  BY <1>13 DEF EndTurn, StopSession
<1>14. ~Crash /\ ~Retire
  BY <1>1 DEF Crash, Retire, SettledAt, At
<1>15. /\ ~ResumeOpen /\ ~ResumeBuilt /\ ~ResumeSwap
       /\ ~ResumeLatest /\ ~ResumeUpdate /\ ~ResumeLaunch
  BY <1>5 DEF ResumeOpen, ResumeBuilt, ResumeSwap, ResumeLatest, ResumeUpdate, ResumeLaunch,
     ResumeSteps
<1> QED
  BY <1>6, <1>7, <1>8, <1>9, <1>10, <1>11, <1>12, <1>13, <1>14, <1>15, Changes DEF SessionSteps

\* The branch and the worktree stay as verified until the completion is accepted.
LEMMA AcceptingStep ==
  ASSUME Types, Order, Life, Turns, Writer, AbortStops, CallsRun, VerifyingQuiet, VerifyingStep,
         Accepting, [Next]_vars
  PROVE  Accepting'
<1> SUFFICES ASSUME Settling({"accept"})', OpTurn', rec'.status = "verifying"
             PROVE  head' = op'.commit /\ head' > 0 /\ ~dirty'
  BY DEF Accepting
<1>1. SameHandler /\ Settling({"accept", "verify"})
  BY HandlerStays, AtSettled DEF Order, Settling, Verify
<1>2. OpTurn
  BY <1>1, TurnStays DEF SameHandler, Settling
<1>3. rec.status \notin Running
  BY <1>1 DEF Life, Verdict, Settling
<1>4. rec.status = "verifying"
  BY <1>3 DEF VerifyingStep
<1>5. \A s \in Session : ~Runs(s) /\ Idling(s)
  BY <1>1, <1>2, <1>4, TurnCalm DEF Settling, AbortStops, Aborted, CallsRun
<1>6. head' = head /\ dirty' = dirty
  BY <1>5, Changes DEF TreeSteps, Commit, Write, CallAt, Idling, Runs
<1>7. head = op.commit /\ head > 0 /\ ~dirty
  BY <1>1, <1>2, <1>4, HandlerStays DEF Order, Accepting, CompletedTree
<1> QED
  BY <1>1, <1>6, <1>7 DEF SameHandler, SameReading

\* A disposition that waits for its session stays backed by the result.
LEMMA BackedStep ==
  ASSUME Types, Writer, CallsRun, CallSays, VerifyingQuiet, VerifyingIsBacked, VerifyingStep,
         [Next]_vars
  PROVE  VerifyingIsBacked'
<1> SUFFICES ASSUME rec'.status = "verifying" PROVE VerifyingIsBacked'
  BY DEF VerifyingIsBacked
<1>1. CASE rec.status = "verifying" /\ SameDisposition
  <2>1. result' = result
    BY <1>1, Changes DEF ResultSteps, CompleteWritten, CompleteClean, CallAt, VerifyingQuiet,
       Idling
  <2> QED
    BY <1>1, <2>1 DEF SameDisposition, VerifyingIsBacked
<1>2. ASSUME NEW s \in Session, ProgressPaused(s) \/ Escalate(s) PROVE VerifyingIsBacked'
  BY <1>2 DEF ProgressPaused, Escalate, VerifyingIsBacked, Types, RecType
<1>3. ASSUME NEW s \in Session, CompleteUpdate(s), rec.status \in Running PROVE VerifyingIsBacked'
  <2>1. /\ cb[s].attempt = rec.attempt /\ cb[s].commit \in Nat
        /\ cb[s].status = "completed" => cb[s].commit > 0
        /\ result = [attempt |-> cb[s].attempt, status |-> cb[s].status, commit |-> cb[s].commit]
    <3>1. Says(s) /\ cb[s].step = "update" /\ cb[s] \in CbType
      BY <1>3 DEF CompleteUpdate, CallAt, CallSays, Types
    <3>2. cb[s].commit \in Nat
      BY <3>1 DEF CbType
    <3> QED
      BY <3>1, <3>2 DEF Says
  <2>2. /\ rec' = [rec EXCEPT !.status = "verifying", !.pending = cb[s].status,
                              !.commit = IF cb[s].commit = 0 THEN @ ELSE cb[s].commit]
        /\ result' = result
    BY <1>3 DEF CompleteUpdate, Running
  <2>3. rec'.attempt = rec.attempt /\ rec'.pending = cb[s].status
    BY <2>2 DEF Types, RecType
  <2>4. cb[s].status = "completed" => rec'.commit = cb[s].commit
    BY <2>1, <2>2 DEF Types, RecType
  <2> QED
    BY <2>1, <2>2, <2>3, <2>4 DEF VerifyingIsBacked
<1> QED
  BY <1>1, <1>2, <1>3 DEF VerifyingStep, Submits

\* What completes the Worker was verified, and stays.
LEMMA VerifiedStep ==
  ASSUME ~AbortMayReject, Types, Types', Order, Life, Turns, Writer, CreateIdle, AbortStops,
         CallsRun, Accepting,
         VerifyingIsBacked, CompletedIsVerified, CompletedStep, [Next]_vars
  PROVE  CompletedIsVerified'
<1> DEFINE V == /\ result.attempt = rec.attempt /\ result.status = "completed"
                /\ result.commit = rec.commit
                /\ rec.commit > 0 /\ head = rec.commit /\ ~dirty
                /\ \A s \in Session : ~Runs(s)
<1>1. rec.status = "completed" => V
  BY DEF CompletedIsVerified, Runs
<1>2. result' \in ResultType
  BY DEF Types
<1>3. (rec'.status = "completed" => V') => CompletedIsVerified'
  BY <1>2 DEF CompletedIsVerified, Runs, ResultType
<1> HIDE DEF V
<1> SUFFICES ASSUME rec'.status = "completed" PROVE V'
  BY <1>3
<1>4. ASSUME \A s \in Session : ~Runs(s)
      PROVE  /\ \A s \in Session : ~Runs(s)'
             /\ result' = result /\ head' = head /\ dirty' = dirty
  <2>1. \A s \in Session : ~Runs(s)'
    BY <1>4, RunsStep
  <2>2. \A s \in Session : Idling(s)
    BY <1>4 DEF CallsRun
  <2>3. result' = result
    BY <2>2, Changes DEF ResultSteps, CompleteWritten, CompleteClean, CallAt, Idling
  <2>4. head' = head /\ dirty' = dirty
    BY <1>4, <2>2, Changes DEF TreeSteps, Commit, Write, CallAt, Idling, Runs
  <2> QED
    BY <2>1, <2>3, <2>4
<1>5. CASE rec.status = "completed" /\ SameDisposition
  BY <1>1, <1>4, <1>5 DEF V, SameDisposition
<1>6. CASE rec' = rec
  BY <1>5, <1>6 DEF SameDisposition
<1>7. CASE Accept /\ rec' # rec
  <2>1. /\ queue # <<>> /\ op.kind \in SettledKind /\ op.step = "accept"
        /\ OpTurn /\ rec.status = "verifying" /\ rec.commit = op.commit /\ Become("completed")
        /\ result' = result /\ head' = head /\ dirty' = dirty /\ sess' = sess
    BY <1>7, AtSettled DEF Accept, sessions
  <2>2. head = rec.commit /\ head > 0 /\ ~dirty
    BY <2>1 DEF Accepting, Settling
  <2>3. rec.pending = "completed"
    BY <2>1 DEF Life, Verdict, Settling
  <2>4. \A s \in Session : ~Runs(s)
    BY <2>1, TurnCalm DEF AbortStops, Aborted
  <2>5. rec'.attempt = rec.attempt /\ rec'.commit = rec.commit
    BY <2>1, Becomes
  <2> QED
    BY <2>1, <2>2, <2>3, <2>4, <2>5 DEF VerifyingIsBacked, V, Runs
<1>8. CASE Reconcile /\ rec' # rec
  <2>1. /\ result' = result /\ head' = head /\ dirty' = dirty /\ sess' = sess
        /\ \A s \in Session : ~Runs(s)
    BY <1>8 DEF Reconcile, sessions, Order, Rest, Runs
  <2>2. ~Become("paused") /\ ~Become("blocked")
    BY Becomes
  <2>3. /\ ResultOfAttempt /\ ResultStands
        /\ rec' = [rec EXCEPT !.status = result.status, !.pending = "none",
                              !.commit = IF result.commit = 0 THEN @ ELSE result.commit]
    BY <1>8, <2>2 DEF Reconcile
  <2>4. result.status = "completed" /\ rec'.attempt = rec.attempt
    BY <2>3 DEF Types, RecType
  <2>5. result.commit \in Nat /\ head = result.commit /\ head > 0 /\ ~dirty
    BY <2>3, <2>4 DEF ResultStands, CompletedTree, Types, ResultType
  <2>6. rec'.commit = result.commit
    BY <2>3, <2>5 DEF Types, RecType
  <2> QED
    BY <2>1, <2>3, <2>4, <2>5, <2>6 DEF ResultOfAttempt, V, Runs
<1> QED
  BY <1>5, <1>6, <1>7, <1>8 DEF CompletedStep

\* The results, part by part.
Results ==
    /\ CreateIdle /\ AbortStops /\ StopStatus /\ CallsRun /\ CallSays /\ VerifyingQuiet
    /\ PublishSays /\ Accepting /\ VerifyingIsBacked /\ CompletedIsVerified

\* They hold at first ...
LEMMA ResultsInit == Init => Results
<1> SUFFICES ASSUME Init PROVE Results
  OBVIOUS
<1>1. /\ rec.status = "none" /\ queue = <<>> /\ create = Idle /\ abort = Idle
      /\ \A s \in Session : sess[s] = "none" /\ cb[s] = NoCallback
  BY DEF Init
<1>2. CreateIdle /\ AbortStops /\ StopStatus
  BY <1>1 DEF CreateIdle, AbortStops, StopStatus, Idle, NewSteps
<1>3. CallsRun /\ CallSays /\ VerifyingQuiet
  BY <1>1 DEF CallsRun, CallSays, Says, VerifyingQuiet, Idling, NoCallback
<1>4. PublishSays /\ Accepting /\ VerifyingIsBacked /\ CompletedIsVerified
  BY <1>1 DEF PublishSays, Accepting, Settling, VerifyingIsBacked, CompletedIsVerified
<1> QED
  BY <1>2, <1>3, <1>4 DEF Results

\* ... and every step keeps them, when Pi does stop the sessions that it is told to stop.
LEMMA ResultsStep ==
  ASSUME ~AbortMayReject, Types, Types', Order, Life, Turns, Writer, Results, [Next]_vars
  PROVE  Results'
<1> USE DEF Results
<1>1. RecordStep
  BY RecordWritten
<1> USE DEF RecordStep
<1>2. CreateIdle' /\ AbortStops' /\ StopStatus'
  BY <1>1, CreateIdleStep, AbortStopsStep, StopStatusStep
<1>3. CallsRun' /\ CallSays' /\ VerifyingQuiet'
  BY <1>1, CallsRunStep, CallSaysStep, VerifyingQuietStep
<1>4. PublishSays' /\ Accepting'
  BY <1>1, PublishSaysStep, AcceptingStep
<1>5. VerifyingIsBacked' /\ CompletedIsVerified'
  BY <1>1, BackedStep, VerifiedStep
<1> QED
  BY <1>2, <1>3, <1>4, <1>5

\* So they are invariant.
LEMMA ResultsInvariant ==
  ASSUME ~AbortMayReject
  PROVE  Spec => []Results
<1>1. Types /\ Types' /\ Order /\ Life /\ Turns /\ Writer /\ Results /\ [Next]_vars => Results'
  BY ResultsStep
<1> QED
  BY <1>1, ResultsInit, LifeInvariant, WriterInvariant, PTL DEF Spec

\* A worktree has one writer: when Pi never fails to stop a session, no two sessions of a
\* Worker may change it at once, a git commit in flight included.
THEOREM WorkerOneWriter ==
  ASSUME ~AbortMayReject
  PROVE  Spec => []OneWriter
<1>1. Writer /\ Results => OneWriter
  <2> SUFFICES ASSUME Writer, CallsRun, NEW s \in Session, NEW t \in Session,
                      Writing(s), Writing(t)
               PROVE  s = t
    BY DEF OneWriter, Results
  <2>1. Runs(s) /\ Runs(t)
    BY DEF Writing, Runs, CallsRun, Idling
  <2> QED
    BY <2>1 DEF Writer, OneSession
<1> QED
  BY <1>1, ResultsInvariant, WriterInvariant, PTL

\* While a completed or failed disposition waits for its session to settle, the durable
\* result says the same of the same attempt, unless Pi fails to stop a session.
THEOREM WorkerBacksDispositions ==
  ASSUME ~AbortMayReject
  PROVE  Spec => []VerifyingIsBacked
<1>1. Results => VerifyingIsBacked
  BY DEF Results
<1> QED
  BY <1>1, ResultsInvariant, PTL

\* A completed Worker is what was verified in Git, its result is durable and no session
\* runs that could change it.
THEOREM WorkerCompletesVerified ==
  ASSUME ~AbortMayReject
  PROVE  Spec => []CompletedIsVerified
<1>1. Results => CompletedIsVerified
  BY DEF Results
<1> QED
  BY <1>1, ResultsInvariant, PTL

\* A restart that finds a disposition pending publishes it ...
LEMMA RestartStep ==
  ASSUME Types, Life, VerifyingIsBacked, [Next]_vars, mode = "down", mode' = "recover",
         rec.status = "verifying"
  PROVE  \/ rec'.status = rec.pending
         \/ rec.pending = "completed" /\ ~CompletedTree(rec.commit) /\ rec'.status = "blocked"
<1>1. Reconcile
  BY Changes DEF Crash, Restarting, Recover
<1>2. rec.pending \in {"paused", "blocked", "completed", "failed"}
  BY DEF Life, PendingVerifies, Types, RecType, PendingSet
<1>3. \/ rec.pending = "paused" /\ rec'.status = "paused"
      \/ /\ rec.pending # "paused" /\ ResultOfAttempt /\ ResultStands
         /\ rec'.status = result.status
      \/ rec.pending # "paused" /\ ResultOfAttempt /\ ~ResultStands /\ rec'.status = "blocked"
      \/ rec.pending # "paused" /\ ~ResultOfAttempt /\ rec'.status = "blocked"
  BY <1>1, Becomes DEF Reconcile, Types, RecType, Running
<1>4. CASE rec.pending \in {"completed", "failed"}
  <2>1. ResultOfAttempt /\ result.status = rec.pending
    BY <1>4 DEF VerifyingIsBacked, ResultOfAttempt, NoResult
  <2>2. ResultStands <=> (rec.pending = "completed" => CompletedTree(rec.commit))
    BY <1>4, <2>1 DEF ResultStands, VerifyingIsBacked
  <2> QED
    BY <1>3, <1>4, <2>1, <2>2
<1>5. CASE rec.pending \in {"paused", "blocked"}
  BY <1>3, <1>5 DEF ResultStands
<1> QED
  BY <1>2, <1>4, <1>5

\* A restart publishes the disposition that was pending, but for a completion whose worktree
\* is no longer the one that was verified.
THEOREM WorkerRestartKeeps ==
  ASSUME ~AbortMayReject
  PROVE  Spec => RestartKeepsDispositions
<1>1. Types /\ Life /\ VerifyingIsBacked /\ [Next]_vars =>
    [mode = "down" /\ mode' = "recover" /\ rec.status = "verifying" =>
        \/ rec'.status = rec.pending
        \/ rec.pending = "completed" /\ ~CompletedTree(rec.commit) /\ rec'.status = "blocked"]_vars
  BY RestartStep
<1> QED
  BY <1>1, LifeInvariant, WorkerBacksDispositions, PTL DEF Spec, RestartKeepsDispositions

===============================================================================
