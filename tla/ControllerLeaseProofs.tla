------------------------ MODULE ControllerLeaseProofs ------------------------
(***************************************************************************)
(* Proofs about ControllerLease, for any number of runtimes, calls,        *)
(* acquisitions and deletions of the directory.  What a runtime knows is   *)
(* stated of one runtime at a time (At), so that a step of one runtime     *)
(* disturbs the others only through the directory (InvStep, FreedKeeps).   *)
(***************************************************************************)
EXTENDS Controller, IntegrationProofs, TLAPS

(* Types *)

RtType ==
    [session : {"none", "starting", "open", "dead"},
     dispose : {"no", "draining", "releasing", "done"},
     handle : Lease \cup {NoLease}, lease : Lease \cup {NoLease},
     promise : {"none", "acquiring", "returning", "fulfilled"},
     made : 0..MaxLease]
OpType == [step : {"idle", "begin", "assert", "letGo", "wait", "body"},
           kind : Kind, lease : Lease \cup {NoLease}]

LeaseTypes ==
    /\ dir \in Lease \cup {NoLease} /\ removed \in 0 .. MaxRemoval /\ exists \in BOOLEAN
    /\ rt \in [Runtime -> RtType] /\ op \in [Runtime -> [Slot -> OpType]]
    /\ \A r \in Runtime : rt[r].promise = "acquiring" => rt[r].made < MaxLease

\* An idle slot is a call.
LEMMA IdleIsOp == IdleCall \in OpType
BY DEF IdleCall, OpType, Kind

\* A lease is not the empty directory, and it names its runtime.
LEMMA LeaseFacts == \A l \in Lease : l # NoLease /\ l[1] \in Runtime
<1> TAKE l \in Lease
<1>1. PICK r \in Runtime, n \in 1 .. MaxLease : l = <<r, n>>
  BY DEF Lease
<1>2. Len(l) = 2 /\ Len(NoLease) = 0
  BY <1>1 DEF NoLease
<1> QED
  BY <1>1, <1>2

\* What a call leaves behind is a state of a session.
LEMMA SessionAfterType ==
  ASSUME LeaseTypes, NEW r \in Runtime, NEW S
  PROVE SessionAfter(r, S) \in {"none", "starting", "open", "dead"}
BY DEF LeaseTypes, SessionAfter, RtType

\* The calls are still calls after a promise has settled.
LEMMA SettledType ==
  ASSUME LeaseTypes, NEW r \in Runtime, NEW st \in {"idle", "body"}
  PROVE Settled(r, st) \in [Slot -> OpType]
<1> DEFINE new(o) == IF op[r][o].step # "wait" THEN op[r][o]
                     ELSE IF st = "idle" THEN IdleCall ELSE [op[r][o] EXCEPT !.step = st]
<1>1. ASSUME NEW o \in Slot PROVE new(o) \in OpType
  <2>1. op[r][o] \in OpType
    BY DEF LeaseTypes
  <2>2. [op[r][o] EXCEPT !.step = st] \in OpType
    BY <2>1 DEF OpType
  <2> QED
    BY <2>1, <2>2, IdleIsOp
<1>2. Settled(r, st) = [o \in Slot |-> new(o)]
  BY DEF Settled
<1> HIDE DEF new
<1> QED
  BY <1>1, <1>2

\* Any field of a runtime may take any of its values.
LEMMA RtUpdates ==
  ASSUME NEW x \in RtType
  PROVE  /\ \A l \in Lease \cup {NoLease} : [x EXCEPT !.handle = l] \in RtType
         /\ \A s \in {"none", "starting", "open", "dead"} : [x EXCEPT !.session = s] \in RtType
         /\ \A d \in {"no", "draining", "releasing", "done"} : [x EXCEPT !.dispose = d] \in RtType
         /\ \A p \in {"none", "acquiring", "returning", "fulfilled"} : [x EXCEPT !.promise = p] \in RtType
         /\ \A l \in Lease \cup {NoLease} : [x EXCEPT !.lease = l] \in RtType
BY DEF RtType

\* A call may go on anywhere, with any lease.
LEMMA OpUpdates ==
  ASSUME NEW x \in OpType
  PROVE  /\ \A l \in Lease \cup {NoLease} : [x EXCEPT !.lease = l] \in OpType
         /\ \A s \in {"idle", "begin", "assert", "letGo", "wait", "body"} : [x EXCEPT !.step = s] \in OpType
BY DEF OpType

\* One runtime changes its fields.
LEMMA RtStep ==
  ASSUME LeaseTypes, NEW r \in Runtime, NEW x \in RtType, rt' = [rt EXCEPT ![r] = x],
         x.promise = "acquiring" => x.made < MaxLease
  PROVE  /\ rt' \in [Runtime -> RtType]
         /\ \A s \in Runtime : rt'[s].promise = "acquiring" => rt'[s].made < MaxLease
BY DEF LeaseTypes

\* One call of one runtime goes on.
LEMMA OpStep ==
  ASSUME LeaseTypes, NEW r \in Runtime, NEW o \in Slot, NEW x \in OpType, op' = [op EXCEPT ![r][o] = x]
  PROVE  op' \in [Runtime -> [Slot -> OpType]]
BY DEF LeaseTypes

\* Every step keeps the types.
LEMMA TypesStep == LeaseTypes /\ [LeaseNext]_leaseVars => LeaseTypes'
<1> SUFFICES ASSUME LeaseTypes, [LeaseNext]_leaseVars PROVE LeaseTypes'
  OBVIOUS
<1> USE LeaseBounds DEF LeaseTypes
<1>1. ASSUME NEW r \in Runtime, NEW o \in Slot, Start(r, o) PROVE LeaseTypes'
  <2> DEFINE y == [step |-> "begin", kind |-> "start", lease |-> NoLease]
             x == [rt[r] EXCEPT !.session = "starting"]
  <2>0. rt[r] \in RtType
    OBVIOUS
  <2>1. y \in OpType
    BY DEF OpType, Kind
  <2>2. op' = [op EXCEPT ![r][o] = y] /\ UNCHANGED <<dir, removed, exists>>
    BY <1>1 DEF Start
  <2>3. x \in RtType /\ x.promise = rt[r].promise /\ x.made = rt[r].made
    BY <2>0 DEF RtType
  <2>4. rt' = [rt EXCEPT ![r] = x]
    BY <1>1 DEF Start
  <2> HIDE DEF x, y
  <2> QED
    BY <2>1, <2>2, <2>3, <2>4, OpStep, RtStep
<1>2. ASSUME NEW r \in Runtime, NEW o \in Slot, NEW k \in Command, Ask(r, o, k) PROVE LeaseTypes'
  <2> DEFINE y == [step |-> "begin", kind |-> k, lease |-> NoLease]
  <2>1. y \in OpType
    BY DEF OpType, Kind
  <2>2. op' = [op EXCEPT ![r][o] = y] /\ UNCHANGED <<dir, removed, exists, rt>>
    BY <1>2 DEF Ask
  <2> HIDE DEF y
  <2>3. op' \in [Runtime -> [Slot -> OpType]]
    BY <2>1, <2>2, OpStep
  <2> QED
    BY <2>2, <2>3
<1>0. ASSUME NEW r \in Runtime, NEW o \in Slot, NEW S,
             op' = [op EXCEPT ![r][o] = IdleCall], rt' = [rt EXCEPT ![r].session = SessionAfter(r, S)],
             dir' \in Lease \cup {NoLease}, removed' = removed, exists' \in BOOLEAN
      PROVE  LeaseTypes'
  <2> DEFINE se == SessionAfter(r, S)
             x == [rt[r] EXCEPT !.session = se]
  <2>0. rt[r] \in RtType /\ se \in {"none", "starting", "open", "dead"}
    BY SessionAfterType
  <2>1. rt' = [rt EXCEPT ![r] = x]
    BY <1>0
  <2> HIDE DEF se
  <2>2. x \in RtType /\ x.promise = rt[r].promise /\ x.made = rt[r].made
    BY <2>0 DEF RtType
  <2> HIDE DEF x
  <2>3. op' \in [Runtime -> [Slot -> OpType]]
    BY <1>0, IdleIsOp, OpStep
  <2>4. /\ rt' \in [Runtime -> RtType]
        /\ \A s \in Runtime : rt'[s].promise = "acquiring" => rt'[s].made < MaxLease
    BY <2>1, <2>2, RtStep
  <2> QED
    BY <1>0, <2>3, <2>4
<1>3. ASSUME NEW r \in Runtime, NEW o \in Slot, Refuse(r, o) PROVE LeaseTypes'
  BY <1>3, <1>0 DEF Refuse
<1>4. ASSUME NEW r \in Runtime, NEW o \in Slot, Ensure(r, o) PROVE LeaseTypes'
  <2>0. rt[r] \in RtType /\ op[r][o] \in OpType
    OBVIOUS
  <2>1. CASE /\ op' = [op EXCEPT ![r][o].step = "assert", ![r][o].lease = rt[r].handle]
             /\ UNCHANGED <<rt, dir, removed, exists>>
    <3> DEFINE y == [[op[r][o] EXCEPT !.step = "assert"] EXCEPT !.lease = rt[r].handle]
    <3>1. y \in OpType
      BY <2>0 DEF OpType, RtType
    <3>2. op' = [op EXCEPT ![r][o] = y]
      BY <2>1, <2>0
    <3> HIDE DEF y
    <3>3. op' \in [Runtime -> [Slot -> OpType]]
      BY <3>1, <3>2, OpStep
    <3> QED
      BY <2>1, <3>3
  <2>2. CASE /\ op' = [op EXCEPT ![r][o].step = "wait"]
             /\ rt[r].made < MaxLease
             /\ rt' = [rt EXCEPT ![r].promise = "acquiring"]
             /\ UNCHANGED <<dir, removed, exists>>
    <3> DEFINE y == [op[r][o] EXCEPT !.step = "wait"]
               x == [rt[r] EXCEPT !.promise = "acquiring"]
    <3>1. y \in OpType
      BY <2>0, OpUpdates
    <3>2. op' = [op EXCEPT ![r][o] = y]
      BY <2>2
    <3>3. x \in RtType /\ x.made < MaxLease
      BY <2>0, <2>2 DEF RtType
    <3>4. rt' = [rt EXCEPT ![r] = x]
      BY <2>2
    <3> HIDE DEF x, y
    <3>5. op' \in [Runtime -> [Slot -> OpType]]
      BY <3>1, <3>2, OpStep
    <3>6. /\ rt' \in [Runtime -> RtType]
          /\ \A s \in Runtime : rt'[s].promise = "acquiring" => rt'[s].made < MaxLease
      BY <3>3, <3>4, RtStep
    <3> QED
      BY <2>2, <3>5, <3>6
  <2>3. CASE op' = [op EXCEPT ![r][o].step = "wait"] /\ UNCHANGED <<rt, dir, removed, exists>>
    <3> DEFINE y == [op[r][o] EXCEPT !.step = "wait"]
    <3>1. y \in OpType
      BY <2>0, OpUpdates
    <3>2. op' = [op EXCEPT ![r][o] = y]
      BY <2>3
    <3> HIDE DEF y
    <3> QED
      BY <2>3, <3>1, <3>2, OpStep
  <2>4. CASE /\ op' = [op EXCEPT ![r][o].step = "body"]
             /\ rt[r].promise = "fulfilled"
             /\ rt' = [rt EXCEPT ![r].handle = rt[r].lease]
             /\ UNCHANGED <<dir, removed, exists>>
    <3> DEFINE y == [op[r][o] EXCEPT !.step = "body"]
               x == [rt[r] EXCEPT !.handle = rt[r].lease]
    <3>1. y \in OpType
      BY <2>0, OpUpdates
    <3>2. op' = [op EXCEPT ![r][o] = y]
      BY <2>4
    <3>3. x \in RtType /\ x.promise = "fulfilled"
      BY <2>0, <2>4 DEF RtType
    <3>4. rt' = [rt EXCEPT ![r] = x]
      BY <2>4
    <3> HIDE DEF x, y
    <3>5. op' \in [Runtime -> [Slot -> OpType]]
      BY <3>1, <3>2, OpStep
    <3>6. /\ rt' \in [Runtime -> RtType]
          /\ \A s \in Runtime : rt'[s].promise = "acquiring" => rt'[s].made < MaxLease
      BY <3>3, <3>4, RtStep
    <3> QED
      BY <2>4, <3>5, <3>6
  <2>5. CASE Refuse(r, o)
    BY <2>5, <1>3
  <2> HIDE DEF LeaseTypes
  <2> QED
    BY <1>4, <2>1, <2>2, <2>3, <2>4, <2>5 DEF Ensure
<1>5. ASSUME NEW r \in Runtime, NEW o \in Slot, AssertHeld(r, o) PROVE LeaseTypes'
  <2> DEFINE y == IF Owned(op[r][o].kind) \/ ~Disposed(r)
                  THEN [op[r][o] EXCEPT !.step = "body", !.lease = NoLease] ELSE IdleCall
  <2>0. op[r][o] \in OpType
    OBVIOUS
  <2>1. y \in OpType
    BY <2>0, IdleIsOp DEF OpType
  <2>2. op' = [op EXCEPT ![r][o] = y] /\ UNCHANGED <<dir, removed, exists, rt>>
    BY <1>5 DEF AssertHeld
  <2> HIDE DEF y
  <2>3. op' \in [Runtime -> [Slot -> OpType]]
    BY <2>1, <2>2, OpStep
  <2> QED
    BY <2>2, <2>3
<1>6. ASSUME NEW r \in Runtime, NEW o \in Slot, LeaseLost(r, o) PROVE LeaseTypes'
  <2> DEFINE y == [[op[r][o] EXCEPT !.step = "letGo"] EXCEPT !.lease = rt[r].handle]
             x == [rt[r] EXCEPT !.handle = NoLease]
  <2>0. rt[r] \in RtType /\ op[r][o] \in OpType
    OBVIOUS
  <2>1. y \in OpType
    BY <2>0 DEF OpType, RtType
  <2>2. op' = [op EXCEPT ![r][o] = y]
    BY <1>6, <2>0 DEF LeaseLost
  <2>3. x \in RtType /\ x.promise = rt[r].promise /\ x.made = rt[r].made
    BY <2>0 DEF RtType
  <2>4. rt' = [rt EXCEPT ![r] = x]
    BY <1>6 DEF LeaseLost
  <2>5. UNCHANGED <<dir, removed, exists>>
    BY <1>6 DEF LeaseLost
  <2> HIDE DEF x, y
  <2> QED
    BY <2>1, <2>2, <2>3, <2>4, <2>5, OpStep, RtStep
<1>7. ASSUME NEW r \in Runtime, NEW o \in Slot, LetGo(r, o) PROVE LeaseTypes'
  <2>1. dir' \in Lease \cup {NoLease}
    BY <1>7 DEF LetGo, Freed
  <2>2. /\ op' = [op EXCEPT ![r][o] = IdleCall] /\ rt' = [rt EXCEPT ![r].session = SessionAfter(r, {o})]
        /\ UNCHANGED <<removed, exists>>
    BY <1>7 DEF LetGo
  <2> QED
    BY <1>0, <2>1, <2>2
<1>8. ASSUME NEW r \in Runtime, NEW o \in Slot, Finish(r, o) PROVE LeaseTypes'
  <2>1. exists' \in BOOLEAN
    BY <1>8 DEF Finish
  <2>2. /\ op' = [op EXCEPT ![r][o] = IdleCall] /\ rt' = [rt EXCEPT ![r].session = SessionAfter(r, {o})]
        /\ UNCHANGED <<dir, removed>>
    BY <1>8 DEF Finish
  <2> QED
    BY <1>0, <2>1, <2>2
<1>9. ASSUME NEW r \in Runtime, Acquire(r) PROVE LeaseTypes'
  <2> DEFINE n == rt[r].made + 1
             l == <<r, n>>
             p == IF Disposed(r) THEN "returning" ELSE "fulfilled"
             h == IF Disposed(r) THEN rt[r].handle ELSE l
             x == [rt[r] EXCEPT !.made = n, !.lease = l, !.promise = p, !.handle = h]
  <2>0. rt[r] \in RtType /\ rt[r].made \in 0 .. MaxLease /\ rt[r].made < MaxLease
    BY <1>9 DEF Acquire, RtType
  <2>1. n \in 1 .. MaxLease /\ n \in 0 .. MaxLease
    BY <2>0
  <2>2. l \in Lease
    BY <2>1 DEF Lease
  <2>3. rt' = [rt EXCEPT ![r] = x] /\ dir' = l /\ UNCHANGED <<removed, exists>>
    BY <1>9 DEF Acquire
  <2>7. p \in {"returning", "fulfilled"} /\ h \in Lease \cup {NoLease}
    BY <2>0, <2>2 DEF RtType
  <2> HIDE DEF n, l, p, h
  <2>4. x \in RtType /\ x.promise # "acquiring"
    BY <2>0, <2>1, <2>2, <2>7 DEF RtType
  <2> HIDE DEF x
  <2>5. op' \in [Runtime -> [Slot -> OpType]]
    <3>1. op' = op \/ op' = [op EXCEPT ![r] = Settled(r, "body")]
      BY <1>9 DEF Acquire
    <3>2. Settled(r, "body") \in [Slot -> OpType]
      BY SettledType
    <3> QED
      BY <3>1, <3>2
  <2>6. /\ rt' \in [Runtime -> RtType]
        /\ \A s \in Runtime : rt'[s].promise = "acquiring" => rt'[s].made < MaxLease
    BY <2>3, <2>4, RtStep
  <2> QED
    BY <2>2, <2>3, <2>5, <2>6
<1>10. ASSUME NEW r \in Runtime, GiveBack(r) \/ AcquireFails(r) PROVE LeaseTypes'
  <2> DEFINE se == SessionAfter(r, Waiting(r))
             x == [rt[r] EXCEPT !.promise = "none", !.lease = NoLease, !.session = se]
  <2>0. rt[r] \in RtType /\ se \in {"none", "starting", "open", "dead"}
    BY SessionAfterType
  <2>1. /\ rt' = [rt EXCEPT ![r].promise = "none", ![r].lease = NoLease, ![r].session = se]
        /\ op' = [op EXCEPT ![r] = Settled(r, "idle")] /\ UNCHANGED <<removed, exists>>
        /\ dir' = dir \/ dir' = Freed(rt[r].lease)
    BY <1>10 DEF GiveBack, AcquireFails, Reject
  <2> HIDE DEF se
  <2>2. rt' = [rt EXCEPT ![r] = x]
    BY <2>1, <2>0
  <2>3. x \in RtType /\ x.promise = "none"
    BY <2>0 DEF RtType
  <2>4. op' \in [Runtime -> [Slot -> OpType]]
    BY <2>1, SettledType
  <2>5. dir' \in Lease \cup {NoLease}
    BY <2>1 DEF Freed
  <2> HIDE DEF x
  <2>6. /\ rt' \in [Runtime -> RtType]
        /\ \A s \in Runtime : rt'[s].promise = "acquiring" => rt'[s].made < MaxLease
    BY <2>2, <2>3, RtStep
  <2> QED
    BY <2>1, <2>4, <2>5, <2>6
<1>11. ASSUME NEW r \in Runtime, DisposeRuntime(r) \/ Drain(r) PROVE LeaseTypes'
  <2>1. PICK d \in {"draining", "releasing"} :
          rt' = [rt EXCEPT ![r].dispose = d] /\ UNCHANGED <<dir, removed, exists, op>>
    BY <1>11 DEF DisposeRuntime, Drain
  <2> DEFINE x == [rt[r] EXCEPT !.dispose = d]
  <2>2. x \in RtType /\ x.promise = rt[r].promise /\ x.made = rt[r].made
    BY DEF RtType
  <2>3. rt' = [rt EXCEPT ![r] = x]
    BY <2>1
  <2> HIDE DEF x
  <2> QED
    BY <2>1, <2>2, <2>3, RtStep
<1>12. ASSUME NEW r \in Runtime, Release(r) PROVE LeaseTypes'
  <2> DEFINE x == [rt[r] EXCEPT !.dispose = "done", !.handle = NoLease,
                                !.promise = "none", !.lease = NoLease]
  <2>0. rt[r] \in RtType
    OBVIOUS
  <2>1. rt' = [rt EXCEPT ![r] = x]
    BY <1>12, <2>0 DEF Release
  <2>2. x \in RtType /\ x.promise = "none"
    BY <2>0 DEF RtType
  <2>3. dir' \in Lease \cup {NoLease} /\ UNCHANGED <<removed, exists, op>>
    BY <1>12 DEF Release, Freed
  <2> HIDE DEF x
  <2> QED
    BY <2>1, <2>2, <2>3, RtStep
<1>13. ASSUME NEW r \in Runtime, Die(r) PROVE LeaseTypes'
  BY <1>13, IdleIsOp DEF Die, RtType, NewRuntime
<1>14. CASE Remove
  BY <1>14 DEF Remove
<1>15. CASE UNCHANGED leaseVars
  BY <1>15 DEF leaseVars
<1> QED
  BY <1>1, <1>2, <1>4, <1>5, <1>6, <1>7, <1>8, <1>9, <1>10, <1>11, <1>12, <1>13, <1>14, <1>15
     DEF LeaseNext, Progress, Settle, Disposal

-----------------------------------------------------------------------------
(* What holds of one runtime *)

\* Leases that runtime r, with the fields x and the calls y, knows are its own.
OwnIs(r, x, y) ==
    /\ x.lease # NoLease => x.lease[1] = r
    /\ x.promise \in {"returning", "fulfilled"} => x.lease # NoLease
    /\ x.promise = "returning" => x.dispose # "no"
    /\ x.handle # NoLease => x.promise = "fulfilled" /\ x.handle = x.lease
    /\ \A o \in Slot : y[o].step = "assert" => y[o].lease # NoLease
    /\ \A o \in Slot : y[o].lease # NoLease => y[o].lease[1] = r

\* A session that is not there has no calls; what a disposal has waited for.
LifeIs(x, y) ==
    /\ x.session \in {"none", "dead"} =>
          x.dispose = "no" /\ x.promise = "none" /\ \A o \in Slot : y[o].step = "idle"
    /\ x.dispose \in {"releasing", "done"} =>
          \A o \in Slot : y[o].step \in (IF Owned(y[o].kind) THEN {"idle"}
                                         ELSE {"idle", "begin", "wait", "assert", "letGo"})
    /\ x.dispose = "done" => x.handle = NoLease

\* While the directory d is not deleted: it keeps the lease that was acquired.
HeldIs(d, x, y) ==
    /\ x.promise = "fulfilled" => d = x.lease
    /\ \A o \in Slot :
         /\ y[o].step = "body" => x.promise = "fulfilled"
         /\ y[o].step = "assert" => x.dispose = "done" \/ x.handle = y[o].lease
         /\ y[o].step = "letGo" => y[o].lease = NoLease

At(r) ==
    /\ OwnIs(r, rt[r], op[r])
    /\ LifeIs(rt[r], op[r])
    /\ removed = 0 => HeldIs(dir, rt[r], op[r])

Inv == LeaseTypes /\ \A r \in Runtime : At(r)

\* A step of one runtime keeps the invariant of the others, if it leaves a
\* lease that was acquired in the directory.
LEMMA InvStep ==
  ASSUME Inv, LeaseTypes', NEW r \in Runtime, At(r)',
         \A q \in Runtime \ {r} : rt'[q] = rt[q] /\ op'[q] = op[q],
         \A q \in Runtime \ {r} :
            removed' = 0 => removed = 0 /\ (rt[q].promise = "fulfilled" => dir' = dir)
  PROVE  Inv'
<1> SUFFICES ASSUME NEW q \in Runtime \ {r} PROVE At(q)'
  BY DEF Inv
<1>1. At(q) /\ rt'[q] = rt[q] /\ op'[q] = op[q]
  BY DEF Inv
<1>2. OwnIs(q, rt[q], op[q])' /\ LifeIs(rt[q], op[q])'
  BY <1>1 DEF At, OwnIs, LifeIs
<1>3. (removed = 0 => HeldIs(dir, rt[q], op[q]))'
  BY <1>1 DEF At, HeldIs
<1> QED
  BY <1>2, <1>3 DEF At

\* A release of one runtime does not free the lease that another has acquired.
LEMMA FreedKeeps ==
  ASSUME Inv, NEW q \in Runtime, NEW r \in Runtime, q # r, NEW l,
         l # NoLease => l[1] = r, removed = 0, rt[q].promise = "fulfilled"
  PROVE  Freed(l) = dir
<1>1. dir = rt[q].lease /\ rt[q].lease # NoLease /\ rt[q].lease[1] = q
  BY DEF Inv, At, OwnIs, HeldIs
<1> QED
  BY <1>1 DEF Freed

\* Initially nothing is held and nothing runs.
LEMMA InvInit == LeaseInit => Inv
<1> SUFFICES ASSUME LeaseInit PROVE Inv
  OBVIOUS
<1>1. LeaseTypes
  BY LeaseBounds, IdleIsOp DEF LeaseInit, LeaseTypes, NewRuntime, RtType
<1>2. ASSUME NEW r \in Runtime PROVE At(r)
  BY DEF LeaseInit, NewRuntime, IdleCall, At, OwnIs, LifeIs, HeldIs
<1> QED
  BY <1>1, <1>2 DEF Inv

\* A call goes on and its runtime is as before.
LEMMA OpOnly ==
  ASSUME Inv, LeaseTypes', NEW r \in Runtime, NEW o \in Slot, NEW y \in OpType,
         op' = [op EXCEPT ![r][o] = y], UNCHANGED <<dir, removed, exists, rt>>,
         rt[r].session \notin {"none", "dead"},
         y.lease # NoLease => y.lease[1] = r,
         y.step = "assert" => y.lease # NoLease /\ y.lease = rt[r].handle,
         y.step = "letGo" => FALSE,
         y.step = "body" /\ removed = 0 => rt[r].promise = "fulfilled",
         rt[r].dispose \in {"releasing", "done"} => y.step = "idle"
  PROVE  Inv'
<1>1. /\ op'[r][o] = y /\ \A p \in Slot \ {o} : op'[r][p] = op[r][p]
      /\ \A q \in Runtime \ {r} : op'[q] = op[q]
  BY DEF Inv, LeaseTypes
<1>2. rt' = rt /\ dir' = dir /\ removed' = removed
  OBVIOUS
<1>3. OwnIs(r, rt[r], op[r])'
  BY <1>1, <1>2 DEF Inv, At, OwnIs
<1>4. LifeIs(rt[r], op[r])'
  BY <1>1, <1>2 DEF Inv, At, LifeIs
<1>5. (removed = 0 => HeldIs(dir, rt[r], op[r]))'
  BY <1>1, <1>2 DEF Inv, At, HeldIs
<1>6. At(r)'
  BY <1>3, <1>4, <1>5 DEF At
<1> QED
  BY <1>1, <1>2, <1>6, InvStep

\* A call ends: it throws, returns, or is refused.
LEMMA OpEnds ==
  ASSUME Inv, LeaseTypes', NEW r \in Runtime, NEW o \in Slot,
         op[r][o].step # "idle",
         op' = [op EXCEPT ![r][o] = IdleCall],
         rt' = [rt EXCEPT ![r].session = SessionAfter(r, {o})],
         removed' = removed, removed = 0 => dir' = dir
  PROVE  Inv'
<1> DEFINE s == SessionAfter(r, {o})
           x == [rt[r] EXCEPT !.session = s]
<1>0. rt[r] \in RtType /\ At(r)
  BY DEF Inv, LeaseTypes
<1>1. rt[r].session \notin {"none", "dead"}
  BY <1>0 DEF At, LifeIs
<1>2. s = rt[r].session \/ s = "open"
  BY DEF SessionAfter
<1>3. rt' = [rt EXCEPT ![r] = x]
  BY DEF Inv, LeaseTypes
<1> HIDE DEF s
<1>4. /\ x.session \notin {"none", "dead"} /\ x.dispose = rt[r].dispose
      /\ x.promise = rt[r].promise /\ x.lease = rt[r].lease /\ x.handle = rt[r].handle
  BY <1>0, <1>1, <1>2 DEF RtType
<1> HIDE DEF x
<1>5. rt'[r] = x /\ \A q \in Runtime \ {r} : rt'[q] = rt[q]
  BY <1>3 DEF Inv, LeaseTypes
<1>6. /\ op'[r][o] = IdleCall /\ \A p \in Slot \ {o} : op'[r][p] = op[r][p]
      /\ \A q \in Runtime \ {r} : op'[q] = op[q]
  BY DEF Inv, LeaseTypes
<1>7. IdleCall.step = "idle" /\ IdleCall.lease = NoLease /\ IdleCall.kind = "start" /\ Owned("start")
  BY DEF IdleCall, Owned
<1>8. OwnIs(r, rt[r], op[r])'
  BY <1>0, <1>4, <1>5, <1>6, <1>7 DEF At, OwnIs
<1>9. LifeIs(rt[r], op[r])'
  <2>1. LifeIs(rt[r], op[r])
    BY <1>0 DEF At
  <2>2. /\ rt'[r].session \notin {"none", "dead"}
        /\ rt'[r].dispose = rt[r].dispose /\ rt'[r].handle = rt[r].handle
    BY <1>4, <1>5
  <2>3. ASSUME NEW p \in Slot, rt[r].dispose \in {"releasing", "done"}
        PROVE  op'[r][p].step \in (IF Owned(op'[r][p].kind) THEN {"idle"}
                                  ELSE {"idle", "begin", "wait", "assert", "letGo"})
    <3>1. CASE p = o
      BY <3>1, <1>6, <1>7
    <3>2. CASE p # o
      BY <3>2, <2>1, <2>3, <1>6 DEF LifeIs
    <3> QED
      BY <3>1, <3>2
  <2> QED
    BY <2>1, <2>2, <2>3 DEF LifeIs
<1>10. (removed = 0 => HeldIs(dir, rt[r], op[r]))'
  BY <1>0, <1>4, <1>5, <1>6, <1>7 DEF At, HeldIs
<1>11. At(r)'
  BY <1>8, <1>9, <1>10 DEF At
<1> QED
  BY <1>5, <1>6, <1>11, InvStep

\* The part of ensureControllerLease before its first await.
LEMMA EnsureStep ==
  ASSUME Inv, LeaseTypes', NEW r \in Runtime, NEW o \in Slot, Ensure(r, o)
  PROVE  Inv'
<1>0. rt[r] \in RtType /\ op[r][o] \in OpType /\ At(r) /\ op[r][o].step = "begin"
  BY DEF Inv, LeaseTypes, Ensure
<1>00. rt[r].session \notin {"none", "dead"}
  BY <1>0 DEF At, LifeIs
<1>1. CASE Refuse(r, o)
  <2>1. removed' = removed /\ dir' = dir
    BY <1>1 DEF Refuse
  <2>2. /\ op' = [op EXCEPT ![r][o] = IdleCall]
        /\ rt' = [rt EXCEPT ![r].session = SessionAfter(r, {o})]
    BY <1>1 DEF Refuse
  <2> QED
    BY <1>0, <2>1, <2>2, OpEnds
<1>2. CASE /\ op' = [op EXCEPT ![r][o].step = "assert", ![r][o].lease = rt[r].handle]
           /\ rt[r].handle # NoLease /\ ~Disposed(r)
           /\ UNCHANGED <<rt, dir, removed, exists>>
  <2> DEFINE y == [[op[r][o] EXCEPT !.step = "assert"] EXCEPT !.lease = rt[r].handle]
  <2>1. y \in OpType /\ y.step = "assert" /\ y.lease = rt[r].handle
    BY <1>0 DEF OpType, RtType
  <2>2. op' = [op EXCEPT ![r][o] = y]
    BY <1>2 DEF Inv, LeaseTypes
  <2>3. y.lease[1] = r
    BY <2>1, <1>2, <1>0 DEF At, OwnIs
  <2>4. rt[r].dispose = "no"
    BY <1>2 DEF Disposed
  <2> HIDE DEF y
  <2> QED
    BY <1>00, <1>2, <2>1, <2>2, <2>3, <2>4, OpOnly
<1>3. CASE /\ op' = [op EXCEPT ![r][o].step = "wait"] /\ ~Disposed(r)
           /\ UNCHANGED <<rt, dir, removed, exists>>
  <2> DEFINE y == [op[r][o] EXCEPT !.step = "wait"]
  <2>1. y \in OpType /\ y.step = "wait" /\ y.lease = op[r][o].lease
    BY <1>0 DEF OpType
  <2>2. op' = [op EXCEPT ![r][o] = y]
    BY <1>3
  <2>3. y.lease # NoLease => y.lease[1] = r
    BY <2>1, <1>0 DEF At, OwnIs
  <2>4. rt[r].dispose = "no"
    BY <1>3 DEF Disposed
  <2> HIDE DEF y
  <2> QED
    BY <1>00, <1>3, <2>1, <2>2, <2>3, <2>4, OpOnly
<1>4. ASSUME NEW x \in RtType, NEW y \in OpType, ~Disposed(r),
             op' = [op EXCEPT ![r][o] = y], rt' = [rt EXCEPT ![r] = x],
             UNCHANGED <<dir, removed, exists>>,
             y.lease = op[r][o].lease,
             x.session = rt[r].session, x.dispose = rt[r].dispose, x.lease = rt[r].lease,
             rt[r].handle = NoLease,
             \/ y.step = "wait" /\ x.promise = "acquiring" /\ rt[r].promise = "none" /\ x.handle = NoLease
             \/ /\ y.step = "body" /\ x.promise = rt[r].promise
                /\ rt[r].promise = "fulfilled" /\ x.handle = x.lease
      PROVE  Inv'
  <2>1. rt'[r] = x /\ \A q \in Runtime \ {r} : rt'[q] = rt[q]
    BY <1>4 DEF Inv, LeaseTypes
  <2>2. /\ op'[r][o] = y /\ \A p \in Slot \ {o} : op'[r][p] = op[r][p]
        /\ \A q \in Runtime \ {r} : op'[q] = op[q]
    BY <1>4 DEF Inv, LeaseTypes
  <2>3. rt[r].dispose = "no"
    BY <1>4 DEF Disposed
  <2>4. OwnIs(r, rt[r], op[r])'
    BY <1>0, <1>4, <2>1, <2>2 DEF At, OwnIs
  <2>5. LifeIs(rt[r], op[r])'
    BY <1>0, <1>00, <1>4, <2>1, <2>2, <2>3 DEF At, LifeIs
  <2>6. removed = 0 => \A p \in Slot : op[r][p].step # "assert"
    BY <1>0, <1>4, <2>3 DEF At, OwnIs, HeldIs
  <2>7. (removed = 0 => HeldIs(dir, rt[r], op[r]))'
    BY <1>0, <1>4, <2>1, <2>2, <2>6 DEF At, HeldIs
  <2>8. At(r)'
    BY <2>4, <2>5, <2>7 DEF At
  <2> QED
    BY <1>4, <2>1, <2>2, <2>8, InvStep
<1>5. CASE /\ op' = [op EXCEPT ![r][o].step = "wait"] /\ ~Disposed(r)
           /\ rt[r].handle = NoLease /\ rt[r].promise = "none"
           /\ rt' = [rt EXCEPT ![r].promise = "acquiring"]
           /\ UNCHANGED <<dir, removed, exists>>
  <2> DEFINE y == [op[r][o] EXCEPT !.step = "wait"]
             x == [rt[r] EXCEPT !.promise = "acquiring"]
  <2>1. y \in OpType /\ y.step = "wait" /\ y.lease = op[r][o].lease
    BY <1>0 DEF OpType
  <2>2. /\ x \in RtType /\ x.session = rt[r].session /\ x.dispose = rt[r].dispose
        /\ x.lease = rt[r].lease /\ x.promise = "acquiring" /\ x.handle = rt[r].handle
    BY <1>0 DEF RtType
  <2>3. op' = [op EXCEPT ![r][o] = y] /\ rt' = [rt EXCEPT ![r] = x]
    BY <1>5
  <2> HIDE DEF x, y
  <2> QED
    BY <1>4, <1>5, <2>1, <2>2, <2>3
<1>6. CASE /\ op' = [op EXCEPT ![r][o].step = "body"] /\ ~Disposed(r)
           /\ rt[r].handle = NoLease /\ rt[r].promise = "fulfilled"
           /\ rt' = [rt EXCEPT ![r].handle = rt[r].lease]
           /\ UNCHANGED <<dir, removed, exists>>
  <2> DEFINE y == [op[r][o] EXCEPT !.step = "body"]
             x == [rt[r] EXCEPT !.handle = rt[r].lease]
  <2>1. y \in OpType /\ y.step = "body" /\ y.lease = op[r][o].lease
    BY <1>0 DEF OpType
  <2>2. /\ x \in RtType /\ x.session = rt[r].session /\ x.dispose = rt[r].dispose
        /\ x.lease = rt[r].lease /\ x.promise = rt[r].promise /\ x.handle = x.lease
    BY <1>0 DEF RtType
  <2>3. op' = [op EXCEPT ![r][o] = y] /\ rt' = [rt EXCEPT ![r] = x]
    BY <1>6
  <2> HIDE DEF x, y
  <2> QED
    BY <1>4, <1>6, <2>1, <2>2, <2>3
<1> QED
  BY <1>1, <1>2, <1>3, <1>5, <1>6 DEF Ensure

\* The handle is only forgotten after a deletion, or after dispose has let go
\* of it.
LEMMA LeaseLostStep ==
  ASSUME Inv, LeaseTypes', NEW r \in Runtime, NEW o \in Slot, LeaseLost(r, o)
  PROVE  Inv'
<1> DEFINE y == [[op[r][o] EXCEPT !.step = "letGo"] EXCEPT !.lease = rt[r].handle]
           x == [rt[r] EXCEPT !.handle = NoLease]
<1>0. rt[r] \in RtType /\ op[r][o] \in OpType /\ At(r) /\ op[r][o].step = "assert"
  BY DEF Inv, LeaseTypes, LeaseLost
<1>1. /\ y.step = "letGo" /\ y.lease = rt[r].handle /\ y.kind = op[r][o].kind
      /\ x.session = rt[r].session /\ x.dispose = rt[r].dispose /\ x.lease = rt[r].lease
      /\ x.promise = rt[r].promise /\ x.handle = NoLease
  BY <1>0 DEF OpType, RtType
<1>2. op' = [op EXCEPT ![r][o] = y] /\ rt' = [rt EXCEPT ![r] = x]
  <2>1. op' = [op EXCEPT ![r][o] = y]
    BY <1>0 DEF LeaseLost, Inv, LeaseTypes
  <2>2. rt' = [rt EXCEPT ![r] = x]
    BY DEF LeaseLost
  <2> QED
    BY <2>1, <2>2
<1>3. UNCHANGED <<dir, removed>> /\ dir # op[r][o].lease
  BY DEF LeaseLost
<1> HIDE DEF x, y
<1>4. rt'[r] = x /\ \A q \in Runtime \ {r} : rt'[q] = rt[q]
  BY <1>2 DEF Inv, LeaseTypes
<1>5. /\ op'[r][o] = y /\ \A p \in Slot \ {o} : op'[r][p] = op[r][p]
      /\ \A q \in Runtime \ {r} : op'[q] = op[q]
  BY <1>2 DEF Inv, LeaseTypes
<1>6. removed = 0 => rt[r].dispose = "done" /\ rt[r].handle = NoLease
  BY <1>0, <1>3 DEF At, OwnIs, LifeIs, HeldIs
<1>7. OwnIs(r, rt[r], op[r])'
  BY <1>0, <1>1, <1>4, <1>5 DEF At, OwnIs
<1>8. LifeIs(rt[r], op[r])'
  <2>1. LifeIs(rt[r], op[r]) /\ rt[r].session \notin {"none", "dead"}
    BY <1>0 DEF At, LifeIs
  <2>2. /\ rt'[r].session = rt[r].session /\ rt'[r].dispose = rt[r].dispose
        /\ rt'[r].handle = NoLease
    BY <1>1, <1>4
  <2>3. ASSUME NEW p \in Slot, rt[r].dispose \in {"releasing", "done"}
        PROVE  op'[r][p].step \in (IF Owned(op'[r][p].kind) THEN {"idle"}
                                  ELSE {"idle", "begin", "wait", "assert", "letGo"})
    <3>1. CASE p = o
      BY <3>1, <1>0, <1>1, <1>5, <2>1, <2>3 DEF LifeIs
    <3>2. CASE p # o
      BY <3>2, <2>1, <2>3, <1>5 DEF LifeIs
    <3> QED
      BY <3>1, <3>2
  <2> QED
    BY <2>1, <2>2, <2>3 DEF LifeIs
<1>9. (removed = 0 => HeldIs(dir, rt[r], op[r]))'
  BY <1>0, <1>1, <1>3, <1>4, <1>5, <1>6 DEF At, HeldIs
<1>10. At(r)'
  BY <1>7, <1>8, <1>9 DEF At
<1> QED
  BY <1>3, <1>4, <1>5, <1>10, InvStep

\* The calls that waited for the lease go on with their operation.
LEMMA SettledFacts ==
  ASSUME Inv, NEW r \in Runtime, op' = [op EXCEPT ![r] = Settled(r, "body")]
  PROVE  /\ \A q \in Runtime \ {r} : op'[q] = op[q]
         /\ \A o \in Slot :
              \/ op[r][o].step # "wait" /\ op'[r][o] = op[r][o]
              \/ /\ op[r][o].step = "wait" /\ op'[r][o].step = "body"
                 /\ op'[r][o].lease = op[r][o].lease
<1>1. op'[r] = Settled(r, "body") /\ \A q \in Runtime \ {r} : op'[q] = op[q]
  BY DEF Inv, LeaseTypes
<1>2. ASSUME NEW o \in Slot, op[r][o].step = "wait"
      PROVE  op'[r][o].step = "body" /\ op'[r][o].lease = op[r][o].lease
  <2>1. op'[r][o] = [op[r][o] EXCEPT !.step = "body"]
    BY <1>1, <1>2 DEF Settled
  <2>2. op[r][o] \in OpType
    BY DEF Inv, LeaseTypes
  <2> QED
    BY <2>1, <2>2 DEF OpType
<1>3. ASSUME NEW o \in Slot, op[r][o].step # "wait" PROVE op'[r][o] = op[r][o]
  BY <1>1, <1>3 DEF Settled
<1> QED
  BY <1>1, <1>2, <1>3

\* The directory was free or named a dead runtime: no other runtime had
\* acquired it.
LEMMA AcquireStep ==
  ASSUME Inv, LeaseTypes', NEW r \in Runtime, Acquire(r)
  PROVE  Inv'
<1> DEFINE l == <<r, rt[r].made + 1>>
<1>0. /\ rt[r] \in RtType /\ At(r) /\ rt[r].promise = "acquiring"
      /\ l \in Lease /\ l # NoLease /\ l[1] = r
  <2>1. l \in Lease
    <3>1. rt[r].made \in 0 .. MaxLease /\ rt[r].made < MaxLease
      BY DEF Acquire, Inv, LeaseTypes, RtType
    <3>2. rt[r].made + 1 \in 1 .. MaxLease
      BY <3>1, LeaseBounds
    <3> QED
      BY <3>2 DEF Lease
  <2>2. l # NoLease /\ l[1] = r
    BY <2>1, LeaseFacts
  <2> QED
    BY <2>1, <2>2 DEF Inv, LeaseTypes, Acquire
<1>1. /\ rt'[r].session = rt[r].session /\ rt'[r].dispose = rt[r].dispose /\ rt'[r].lease = l
      /\ rt'[r].promise = (IF Disposed(r) THEN "returning" ELSE "fulfilled")
      /\ rt'[r].handle = (IF Disposed(r) THEN rt[r].handle ELSE l)
      /\ \A q \in Runtime \ {r} : rt'[q] = rt[q]
  <2> DEFINE x == [rt[r] EXCEPT !.made = @ + 1, !.lease = l,
                                !.promise = IF Disposed(r) THEN "returning" ELSE "fulfilled",
                                !.handle = IF Disposed(r) THEN @ ELSE l]
  <2>1. rt' = [rt EXCEPT ![r] = x]
    BY <1>0 DEF Acquire
  <2> HIDE DEF l
  <2>2. /\ x.session = rt[r].session /\ x.dispose = rt[r].dispose /\ x.lease = l
        /\ x.promise = (IF Disposed(r) THEN "returning" ELSE "fulfilled")
        /\ x.handle = (IF Disposed(r) THEN rt[r].handle ELSE l)
    BY <1>0 DEF RtType
  <2>3. r \in DOMAIN rt /\ DOMAIN rt = Runtime
    BY DEF Inv, LeaseTypes
  <2> HIDE DEF x
  <2> QED
    BY <2>1, <2>2, <2>3
<1>2. dir' = l /\ removed' = removed /\ \A s \in Runtime : Names(s) => Dead(s)
  BY DEF Acquire
<1> HIDE DEF l
<1>3. rt[r].session \notin {"none", "dead"} /\ rt[r].handle = NoLease
  BY <1>0 DEF At, LifeIs, OwnIs
<1>4. ASSUME NEW q \in Runtime \ {r}, removed = 0 PROVE rt[q].promise # "fulfilled"
  <2>1. At(q)
    BY DEF Inv
  <2>2. SUFFICES ASSUME rt[q].promise = "fulfilled" PROVE FALSE
    OBVIOUS
  <2>3. Names(q)
    BY <1>4, <2>1, <2>2 DEF At, OwnIs, HeldIs, Names
  <2> QED
    BY <1>2, <2>1, <2>2, <2>3 DEF Dead, At, LifeIs
<1>5. removed = 0 => \A o \in Slot : op[r][o].step # "body"
                        /\ (op[r][o].step = "assert" => rt[r].dispose = "done")
                        /\ (op[r][o].step = "letGo" => op[r][o].lease = NoLease)
  BY <1>0, <1>3 DEF At, OwnIs, HeldIs
<1>6. CASE Disposed(r)
  <2>1. op' = op
    BY <1>6 DEF Acquire
  <2>2. OwnIs(r, rt[r], op[r])'
    BY <1>0, <1>1, <1>3, <1>6, <2>1 DEF At, OwnIs, Disposed
  <2>3. LifeIs(rt[r], op[r])'
    BY <1>0, <1>1, <1>3, <1>6, <2>1 DEF At, LifeIs
  <2>4. (removed = 0 => HeldIs(dir, rt[r], op[r]))'
    BY <1>0, <1>1, <1>2, <1>3, <1>5, <1>6, <2>1 DEF HeldIs
  <2>5. At(r)'
    BY <2>2, <2>3, <2>4 DEF At
  <2> QED
    BY <1>1, <1>2, <1>4, <2>1, <2>5, InvStep
<1>7. CASE ~Disposed(r)
  <2>1. op' = [op EXCEPT ![r] = Settled(r, "body")] /\ rt[r].dispose = "no"
    BY <1>7 DEF Acquire, Disposed
  <2>2. /\ \A q \in Runtime \ {r} : op'[q] = op[q]
        /\ \A o \in Slot :
              \/ op[r][o].step # "wait" /\ op'[r][o] = op[r][o]
              \/ /\ op[r][o].step = "wait" /\ op'[r][o].step = "body"
                 /\ op'[r][o].lease = op[r][o].lease
    BY <2>1, SettledFacts
  <2>3. OwnIs(r, rt[r], op[r])'
    BY <1>0, <1>1, <1>7, <2>2 DEF At, OwnIs
  <2>4. LifeIs(rt[r], op[r])'
    BY <1>1, <1>3, <2>1 DEF LifeIs
  <2>5. (removed = 0 => HeldIs(dir, rt[r], op[r]))'
    BY <1>1, <1>2, <1>5, <1>7, <2>1, <2>2 DEF HeldIs
  <2>6. At(r)'
    BY <2>3, <2>4, <2>5 DEF At
  <2> QED
    BY <1>1, <1>2, <1>4, <2>2, <2>6, InvStep
<1> QED
  BY <1>6, <1>7

\* No operation runs while the promise is rejected.
LEMMA RejectStep ==
  ASSUME Inv, LeaseTypes', NEW r \in Runtime, GiveBack(r) \/ AcquireFails(r)
  PROVE  Inv'
<1> DEFINE s == SessionAfter(r, Waiting(r))
<1>0. rt[r] \in RtType /\ At(r) /\ rt[r].promise \in {"acquiring", "returning"}
  BY DEF Inv, LeaseTypes, GiveBack, AcquireFails
<1>1. rt[r].session \notin {"none", "dead"} /\ rt[r].handle = NoLease
  BY <1>0 DEF At, LifeIs, OwnIs
<1>2. /\ rt' = [rt EXCEPT ![r].promise = "none", ![r].lease = NoLease, ![r].session = s]
      /\ op' = [op EXCEPT ![r] = Settled(r, "idle")] /\ removed' = removed
      /\ dir' = dir \/ dir' = Freed(rt[r].lease)
  BY DEF GiveBack, AcquireFails, Reject
<1>3. s = rt[r].session \/ s = "open"
  BY DEF SessionAfter
<1> HIDE DEF s
<1>4. /\ rt'[r].session \notin {"none", "dead"} /\ rt'[r].dispose = rt[r].dispose
      /\ rt'[r].lease = NoLease /\ rt'[r].promise = "none" /\ rt'[r].handle = NoLease
      /\ \A q \in Runtime \ {r} : rt'[q] = rt[q]
  BY <1>0, <1>1, <1>2, <1>3 DEF Inv, LeaseTypes, RtType
<1>5. /\ \A q \in Runtime \ {r} : op'[q] = op[q]
      /\ \A o \in Slot : \/ op[r][o].step # "wait" /\ op'[r][o] = op[r][o]
                         \/ op'[r][o] = IdleCall
  <2>1. op' = [op EXCEPT ![r] = Settled(r, "idle")]
    BY <1>2
  <2>2. op'[r] = Settled(r, "idle") /\ \A q \in Runtime \ {r} : op'[q] = op[q]
    BY <2>1 DEF Inv, LeaseTypes
  <2>3. ASSUME NEW o \in Slot
        PROVE  (op[r][o].step # "wait" /\ op'[r][o] = op[r][o]) \/ op'[r][o] = IdleCall
    BY <2>2 DEF Settled
  <2> QED
    BY <2>2, <2>3
<1>6. IdleCall.step = "idle" /\ IdleCall.lease = NoLease
  BY DEF IdleCall
<1>7. OwnIs(r, rt[r], op[r])'
  BY <1>0, <1>4, <1>5, <1>6 DEF At, OwnIs
<1>8. LifeIs(rt[r], op[r])'
  BY <1>0, <1>4, <1>5, <1>6 DEF At, LifeIs
<1>9. (removed = 0 => HeldIs(dir, rt[r], op[r]))'
  <2>1. removed = 0 => \A o \in Slot :
            /\ op[r][o].step # "body"
            /\ op[r][o].step = "assert" => rt[r].dispose = "done"
            /\ op[r][o].step = "letGo" => op[r][o].lease = NoLease
    BY <1>0, <1>1 DEF At, OwnIs, HeldIs
  <2> QED
    BY <1>2, <1>4, <1>5, <1>6, <2>1 DEF HeldIs
<1>10. At(r)'
  BY <1>7, <1>8, <1>9 DEF At
<1>11. ASSUME NEW q \in Runtime \ {r}, removed = 0, rt[q].promise = "fulfilled"
       PROVE  dir' = dir
  <2>1. rt[r].lease # NoLease => rt[r].lease[1] = r
    BY <1>0 DEF At, OwnIs
  <2>2. Freed(rt[r].lease) = dir
    BY <1>11, <2>1, FreedKeeps
  <2> QED
    BY <1>2, <2>2
<1> QED
  BY <1>2, <1>4, <1>5, <1>10, <1>11, InvStep

\* Nothing is given up before the calls have ended.
LEMMA DisposalStep ==
  ASSUME Inv, LeaseTypes', NEW r \in Runtime, DisposeRuntime(r) \/ Drain(r)
  PROVE  Inv'
<1>0. rt[r] \in RtType /\ At(r) /\ rt[r].session \notin {"none", "dead"}
  <2>1. rt[r] \in RtType /\ At(r)
    BY DEF Inv, LeaseTypes
  <2> QED
    BY <2>1 DEF At, LifeIs, DisposeRuntime, Drain
<1>1. PICK d \in {"draining", "releasing"} :
        /\ rt' = [rt EXCEPT ![r].dispose = d] /\ UNCHANGED <<dir, removed, exists, op>>
        /\ d = "releasing" => Drained(r)
        /\ rt[r].dispose # "done"
  BY DEF DisposeRuntime, Drain, Disposed
<1>2. /\ rt'[r].session = rt[r].session /\ rt'[r].dispose = d /\ rt'[r].lease = rt[r].lease
      /\ rt'[r].promise = rt[r].promise /\ rt'[r].handle = rt[r].handle
      /\ \A q \in Runtime \ {r} : rt'[q] = rt[q]
  BY <1>0, <1>1 DEF Inv, LeaseTypes, RtType
<1>3. OwnIs(r, rt[r], op[r])'
  BY <1>0, <1>1, <1>2 DEF At, OwnIs
<1>4. LifeIs(rt[r], op[r])'
  BY <1>0, <1>1, <1>2 DEF LifeIs, Drained
<1>5. (removed = 0 => HeldIs(dir, rt[r], op[r]))'
  BY <1>0, <1>1, <1>2 DEF At, HeldIs
<1>6. At(r)'
  BY <1>3, <1>4, <1>5 DEF At
<1> QED
  BY <1>1, <1>2, <1>6, InvStep

\* dispose releases when no operation runs any more.
LEMMA ReleaseStep ==
  ASSUME Inv, LeaseTypes', NEW r \in Runtime, Release(r)
  PROVE  Inv'
<1>0. rt[r] \in RtType /\ At(r) /\ rt[r].dispose = "releasing"
  BY DEF Inv, LeaseTypes, Release
<1>1. rt[r].session \notin {"none", "dead"} /\ \A o \in Slot : op[r][o].step # "body"
  BY <1>0 DEF At, LifeIs
<1>2. /\ rt' = [rt EXCEPT ![r].dispose = "done", ![r].handle = NoLease,
                          ![r].promise = "none", ![r].lease = NoLease]
      /\ UNCHANGED <<removed, op>>
      /\ dir' = dir \/ dir' = Freed(rt[r].lease) \/ dir' = Freed(rt[r].handle)
  BY DEF Release, Freed
<1>3. /\ rt'[r].session = rt[r].session /\ rt'[r].dispose = "done" /\ rt'[r].lease = NoLease
      /\ rt'[r].promise = "none" /\ rt'[r].handle = NoLease
      /\ \A q \in Runtime \ {r} : rt'[q] = rt[q]
  BY <1>0, <1>2 DEF Inv, LeaseTypes, RtType
<1>4. OwnIs(r, rt[r], op[r])'
  BY <1>0, <1>2, <1>3 DEF At, OwnIs
<1>5. LifeIs(rt[r], op[r])'
  BY <1>0, <1>1, <1>2, <1>3 DEF At, LifeIs
<1>6. (removed = 0 => HeldIs(dir, rt[r], op[r]))'
  BY <1>0, <1>1, <1>2, <1>3 DEF At, HeldIs
<1>7. At(r)'
  BY <1>4, <1>5, <1>6 DEF At
<1>8. ASSUME NEW q \in Runtime \ {r}, removed = 0, rt[q].promise = "fulfilled"
      PROVE  dir' = dir
  <2>1. /\ rt[r].lease # NoLease => rt[r].lease[1] = r
        /\ rt[r].handle # NoLease => rt[r].handle[1] = r
    BY <1>0 DEF At, OwnIs
  <2>2. Freed(rt[r].lease) = dir
    BY <1>8, <2>1, FreedKeeps
  <2>3. Freed(rt[r].handle) = dir
    BY <1>8, <2>1, FreedKeeps
  <2> QED
    BY <1>2, <2>2, <2>3
<1> QED
  BY <1>2, <1>3, <1>7, <1>8, InvStep

\* A dead process holds nothing but its name in the directory.
LEMMA DieStep ==
  ASSUME Inv, LeaseTypes', NEW r \in Runtime, Die(r)
  PROVE  Inv'
<1>1. /\ rt'[r].dispose = "no" /\ rt'[r].promise = "none" /\ rt'[r].lease = NoLease
      /\ rt'[r].handle = NoLease
      /\ \A q \in Runtime \ {r} : rt'[q] = rt[q]
  BY DEF Die, NewRuntime, Inv, LeaseTypes, RtType
<1>2. /\ \A o \in Slot : op'[r][o] = IdleCall
      /\ \A q \in Runtime \ {r} : op'[q] = op[q]
  BY DEF Die, Inv, LeaseTypes
<1>3. UNCHANGED <<dir, removed>>
  BY DEF Die
<1>4. IdleCall.step = "idle" /\ IdleCall.lease = NoLease
  BY DEF IdleCall
<1>5. At(r)'
  BY <1>1, <1>2, <1>4 DEF At, OwnIs, LifeIs, HeldIs
<1> QED
  BY <1>1, <1>2, <1>3, <1>5, InvStep

\* A session starts with a fresh runtime.
LEMMA StartStep ==
  ASSUME Inv, LeaseTypes', NEW r \in Runtime, NEW o \in Slot, Start(r, o)
  PROVE  Inv'
<1> DEFINE y == [step |-> "begin", kind |-> "start", lease |-> NoLease]
<1>0. rt[r] \in RtType /\ At(r) /\ rt[r].session = "none"
  BY DEF Inv, LeaseTypes, Start
<1>1. y.step = "begin" /\ y.lease = NoLease
  OBVIOUS
<1>2. UNCHANGED <<dir, removed>> /\ op' = [op EXCEPT ![r][o] = y]
      /\ rt' = [rt EXCEPT ![r].session = "starting"]
  BY DEF Start
<1> HIDE DEF y
<1>3. /\ op'[r][o] = y /\ \A p \in Slot \ {o} : op'[r][p] = op[r][p]
      /\ \A q \in Runtime \ {r} : op'[q] = op[q]
  BY <1>2 DEF Inv, LeaseTypes
<1>4. /\ rt'[r].session = "starting" /\ rt'[r].dispose = rt[r].dispose
      /\ rt'[r].lease = rt[r].lease /\ rt'[r].promise = rt[r].promise
      /\ rt'[r].handle = rt[r].handle
      /\ \A q \in Runtime \ {r} : rt'[q] = rt[q]
  BY <1>0, <1>2 DEF Inv, LeaseTypes, RtType
<1>5. rt[r].dispose = "no"
  BY <1>0 DEF At, LifeIs
<1>6. OwnIs(r, rt[r], op[r])'
  BY <1>0, <1>1, <1>3, <1>4 DEF At, OwnIs
<1>7. LifeIs(rt[r], op[r])'
  BY <1>4, <1>5 DEF LifeIs
<1>8. (removed = 0 => HeldIs(dir, rt[r], op[r]))'
  BY <1>0, <1>1, <1>2, <1>3, <1>4 DEF At, HeldIs
<1>9. At(r)'
  BY <1>6, <1>7, <1>8 DEF At
<1> QED
  BY <1>2, <1>3, <1>4, <1>9, InvStep

\* A call that found its lease in the directory operates under it.
LEMMA AssertHeldStep ==
  ASSUME Inv, LeaseTypes', NEW r \in Runtime, NEW o \in Slot, AssertHeld(r, o)
  PROVE  Inv'
<1> DEFINE z == [[op[r][o] EXCEPT !.step = "body"] EXCEPT !.lease = NoLease]
           y == IF Owned(op[r][o].kind) \/ ~Disposed(r) THEN z ELSE IdleCall
<1>0. op[r][o] \in OpType /\ At(r) /\ op[r][o].step = "assert" /\ dir = op[r][o].lease
  BY DEF Inv, LeaseTypes, AssertHeld
<1>1. z \in OpType /\ z.step = "body" /\ z.lease = NoLease
  BY <1>0 DEF OpType
<1>2. op' = [op EXCEPT ![r][o] = y] /\ UNCHANGED <<dir, removed, exists, rt>>
  BY <1>0 DEF AssertHeld, Inv, LeaseTypes
<1> HIDE DEF z
<1>3. y \in OpType /\ y.lease = NoLease /\ (y = z \/ y = IdleCall)
  BY <1>1, IdleIsOp DEF IdleCall
<1>4. rt[r].session \notin {"none", "dead"}
  BY <1>0 DEF At, LifeIs
<1>5. rt[r].dispose \in {"releasing", "done"} => y = IdleCall
  BY <1>0 DEF At, LifeIs, Disposed
<1>6. removed = 0 /\ y = z => rt[r].promise = "fulfilled"
  <2>1. SUFFICES ASSUME removed = 0, y = z, rt[r].promise # "fulfilled" PROVE FALSE
    OBVIOUS
  <2>2. rt[r].handle = NoLease /\ op[r][o].lease # NoLease
    BY <1>0, <2>1 DEF At, OwnIs
  <2>3. rt[r].dispose = "done"
    BY <1>0, <2>1, <2>2 DEF At, HeldIs
  <2>4. y = IdleCall
    BY <1>5, <2>3
  <2> QED
    BY <1>1, <2>1, <2>4 DEF IdleCall
<1>7. IdleCall.step = "idle"
  BY DEF IdleCall
<1> HIDE DEF y
<1> QED
  BY <1>1, <1>2, <1>3, <1>4, <1>5, <1>6, <1>7, OpOnly

\* A command is given.
LEMMA AskStep ==
  ASSUME Inv, LeaseTypes', NEW r \in Runtime, NEW o \in Slot, NEW k \in Command, Ask(r, o, k)
  PROVE  Inv'
<1> DEFINE y == [step |-> "begin", kind |-> k, lease |-> NoLease]
<1>1. y \in OpType /\ y.step = "begin" /\ y.lease = NoLease
  BY DEF OpType, Kind
<1>2. /\ op' = [op EXCEPT ![r][o] = y] /\ UNCHANGED <<dir, removed, exists, rt>>
      /\ rt[r].session \notin {"none", "dead"} /\ rt[r].dispose = "no"
  BY DEF Ask, Disposed
<1> HIDE DEF y
<1> QED
  BY <1>1, <1>2, OpOnly

\* A call that lost its lease frees the directory only after a deletion.
LEMMA LetGoStep ==
  ASSUME Inv, LeaseTypes', NEW r \in Runtime, NEW o \in Slot, LetGo(r, o)
  PROVE  Inv'
<1>1. op[r][o].step = "letGo" /\ At(r)
  BY DEF LetGo, Inv
<1>2. removed = 0 => Freed(op[r][o].lease) = dir
  BY <1>1 DEF At, HeldIs, Freed
<1>3. /\ op' = [op EXCEPT ![r][o] = IdleCall]
      /\ rt' = [rt EXCEPT ![r].session = SessionAfter(r, {o})]
      /\ removed' = removed /\ dir' = Freed(op[r][o].lease)
  BY DEF LetGo
<1> QED
  BY <1>1, <1>2, <1>3, OpEnds

\* An operation ends.
LEMMA FinishStep ==
  ASSUME Inv, LeaseTypes', NEW r \in Runtime, NEW o \in Slot, Finish(r, o)
  PROVE  Inv'
<1>1. /\ op[r][o].step # "idle" /\ op' = [op EXCEPT ![r][o] = IdleCall]
      /\ rt' = [rt EXCEPT ![r].session = SessionAfter(r, {o})]
      /\ removed' = removed /\ dir' = dir
  BY DEF Finish
<1> QED
  BY <1>1, OpEnds

\* A deletion leaves what the runtimes know of their own leases.
LEMMA RemoveStep == ASSUME Inv, LeaseTypes', Remove PROVE Inv'
<1>1. removed' # 0 /\ UNCHANGED <<rt, op>>
  BY DEF Remove, Inv, LeaseTypes
<1>2. ASSUME NEW r \in Runtime PROVE At(r)'
  BY <1>1 DEF Inv, At, OwnIs, LifeIs
<1> QED
  BY <1>2 DEF Inv

\* Every step keeps the invariant.
LEMMA InvNext == Inv /\ [LeaseNext]_leaseVars => Inv'
<1> SUFFICES ASSUME Inv, [LeaseNext]_leaseVars PROVE Inv'
  OBVIOUS
<1>0. LeaseTypes'
  BY TypesStep DEF Inv
<1>1. ASSUME NEW r \in Runtime, NEW o \in Slot,
             Start(r, o) \/ (\E k \in Command : Ask(r, o, k)) \/ Progress(r, o)
      PROVE  Inv'
  BY <1>0, <1>1, StartStep, AskStep, EnsureStep, AssertHeldStep, LeaseLostStep, LetGoStep, FinishStep
     DEF Progress
<1>2. ASSUME NEW r \in Runtime, Settle(r) \/ DisposeRuntime(r) \/ Disposal(r) \/ Die(r) PROVE Inv'
  BY <1>0, <1>2, AcquireStep, RejectStep, DisposalStep, ReleaseStep, DieStep DEF Settle, Disposal
<1>3. CASE Remove
  BY <1>0, <1>3, RemoveStep
<1>4. CASE UNCHANGED leaseVars
  BY <1>4 DEF leaseVars, Inv, LeaseTypes, At, OwnIs, LifeIs, HeldIs, Owned
<1> QED
  BY <1>1, <1>2, <1>3, <1>4 DEF LeaseNext

\* What the runtimes know of their leases holds throughout.
THEOREM InvariantHolds == LeaseSpec => []Inv
<1>1. LeaseInit => Inv
  BY InvInit
<1> QED
  BY <1>1, InvNext, PTL DEF LeaseSpec

-----------------------------------------------------------------------------
(* The properties *)

\* While nobody deletes the directory, the operations of two runtimes never
\* overlap: whoever operates holds the promise of a lease, the directory names
\* that lease, and a lease names one runtime.
THEOREM OneControllerHolds == LeaseSpec => []OneController
<1>1. Inv => OneController
  <2> SUFFICES ASSUME Inv, removed = 0, NEW r \in Runtime, NEW s \in Runtime,
                      NEW o \in Slot, NEW p \in Slot,
                      op[r][o].step = "body", op[s][p].step = "body"
               PROVE  r = s
    BY DEF OneController
  <2>1. dir = rt[r].lease /\ dir[1] = r
    BY DEF Inv, At, OwnIs, HeldIs
  <2>2. dir = rt[s].lease /\ dir[1] = s
    BY DEF Inv, At, OwnIs, HeldIs
  <2> QED
    BY <2>1, <2>2
<1> QED
  BY <1>1, InvariantHolds, PTL

\* A runtime that lets go of a lease, gives one back or is disposed frees the
\* directory only if it names that runtime, also after somebody deleted it and a
\* successor took the lease.
THEOREM NobodyElsesLeaseHolds == LeaseSpec => NobodyElsesLease
<1>1. ASSUME NEW r \in Runtime, NEW l, l # NoLease => l[1] = r, Freed(l) # dir
      PROVE  Names(r)
  BY <1>1 DEF Freed, Names
<1>2. Inv /\ [LeaseNext]_leaseVars =>
        [\A r \in Runtime, o \in Slot :
           (LetGo(r, o) \/ GiveBack(r) \/ Release(r)) /\ dir' # dir => Names(r)]_leaseVars
  <2> SUFFICES ASSUME Inv, NEW r \in Runtime, NEW o \in Slot,
                      LetGo(r, o) \/ GiveBack(r) \/ Release(r), dir' # dir
               PROVE  Names(r)
    OBVIOUS
  <2>1. At(r)
    BY DEF Inv
  <2>2. CASE LetGo(r, o)
    <3>1. op[r][o].lease # NoLease => op[r][o].lease[1] = r
      BY <2>1 DEF At, OwnIs
    <3> QED
      BY <1>1, <2>2, <3>1 DEF LetGo
  <2>3. CASE GiveBack(r)
    BY <1>1, <2>1, <2>3 DEF GiveBack, At, OwnIs
  <2>4. CASE Release(r)
    <3>1. /\ rt[r].lease # NoLease => rt[r].lease[1] = r
          /\ rt[r].handle # NoLease => rt[r].handle[1] = r
      BY <2>1 DEF At, OwnIs
    <3>2. Freed(rt[r].lease) # dir \/ Freed(rt[r].handle) # dir
      BY <2>4 DEF Release, Freed
    <3> QED
      BY <1>1, <3>1, <3>2
  <2> QED
    BY <2>2, <2>3, <2>4
<1> QED
  BY <1>2, InvariantHolds, PTL DEF LeaseSpec, NobodyElsesLease

-----------------------------------------------------------------------------
(* What dispose leaves behind *)

\* The directory names a live runtime only with the lease its promise has
\* acquired, and a runtime that was disposed has no promise.
Tidy(r) ==
    /\ Names(r) /\ ~Dead(r) => rt[r].promise \in {"returning", "fulfilled"} /\ dir = rt[r].lease
    /\ rt[r].dispose = "done" => rt[r].promise = "none"

\* A step that leaves the promise of q alone and takes no lease for q.
\* What keeps the promise of a runtime keeps this.
LEMMA TidyKept ==
  ASSUME NEW q \in Runtime, Tidy(q),
         rt'[q].promise = rt[q].promise, rt'[q].lease = rt[q].lease,
         rt'[q].dispose = "done" => rt[q].dispose = "done",
         rt[q].session = "dead" => rt'[q].session = "dead",
         dir' = dir \/ dir' = NoLease \/ dir'[1] # q
  PROVE  Tidy(q)'
BY DEF Tidy, Names, Dead

\* So does a step of another runtime.
LEMMA TidyOther ==
  ASSUME NEW r \in Runtime, NEW q \in Runtime \ {r}, Tidy(q), rt'[q] = rt[q],
         dir' = dir \/ dir' = NoLease \/ dir'[1] = r
  PROVE  Tidy(q)'
BY DEF Tidy, Names, Dead

\* And a step that touches other fields of one runtime.
LEMMA RtOnly ==
  ASSUME Inv, \A r \in Runtime : Tidy(r), NEW r \in Runtime, NEW x,
         rt' = [rt EXCEPT ![r] = x],
         x.promise = rt[r].promise, x.lease = rt[r].lease,
         x.dispose = "done" => rt[r].dispose = "done",
         rt[r].session = "dead" => x.session = "dead",
         dir' = dir \/ dir' = NoLease
  PROVE  \A q \in Runtime : Tidy(q)'
<1>1. rt'[r] = x /\ \A q \in Runtime \ {r} : rt'[q] = rt[q]
  BY DEF Inv, LeaseTypes
<1>2. Tidy(r)'
  BY <1>1, TidyKept
<1>3. ASSUME NEW q \in Runtime \ {r} PROVE Tidy(q)'
  BY <1>1, TidyOther
<1> QED
  BY <1>2, <1>3

\* Every step keeps it.
LEMMA TidyNext ==
  ASSUME Inv, \A r \in Runtime : Tidy(r), [LeaseNext]_leaseVars
  PROVE  \A q \in Runtime : Tidy(q)'
<1> DEFINE C == \A q \in Runtime : Tidy(q)
<1>0. \A r \in Runtime : rt[r] \in RtType /\ At(r) /\ Tidy(r)
  BY DEF Inv, LeaseTypes
<1>1. ASSUME UNCHANGED rt, dir' = dir \/ dir' = NoLease PROVE C'
  BY <1>1, TidyKept
<1>2. ASSUME NEW r \in Runtime, NEW s, rt' = [rt EXCEPT ![r].session = s],
             dir' = dir \/ dir' = NoLease, rt[r].session # "dead"
      PROVE  C'
  <2> DEFINE x == [rt[r] EXCEPT !.session = s]
  <2>1. x.promise = rt[r].promise /\ x.lease = rt[r].lease /\ x.dispose = rt[r].dispose
    BY <1>0 DEF RtType
  <2>2. rt' = [rt EXCEPT ![r] = x]
    BY <1>2
  <2> HIDE DEF x
  <2> QED
    BY <1>2, <2>1, <2>2, RtOnly
<1>3. ASSUME NEW r \in Runtime, NEW l, rt' = [rt EXCEPT ![r].handle = l], dir' = dir
      PROVE  C'
  <2> DEFINE x == [rt[r] EXCEPT !.handle = l]
  <2>1. /\ x.promise = rt[r].promise /\ x.lease = rt[r].lease /\ x.dispose = rt[r].dispose
        /\ x.session = rt[r].session
    BY <1>0 DEF RtType
  <2>2. rt' = [rt EXCEPT ![r] = x]
    BY <1>3
  <2> HIDE DEF x
  <2> QED
    BY <1>3, <2>1, <2>2, RtOnly
<1>4. ASSUME NEW r \in Runtime, DisposeRuntime(r) \/ Drain(r) PROVE C'
  <2>1. PICK d \in {"draining", "releasing"} : rt' = [rt EXCEPT ![r].dispose = d] /\ dir' = dir
    BY <1>4 DEF DisposeRuntime, Drain
  <2> DEFINE x == [rt[r] EXCEPT !.dispose = d]
  <2>2. /\ x.promise = rt[r].promise /\ x.lease = rt[r].lease /\ x.dispose # "done"
        /\ x.session = rt[r].session
    BY <1>0 DEF RtType
  <2>3. rt' = [rt EXCEPT ![r] = x]
    BY <2>1
  <2> HIDE DEF x
  <2> QED
    BY <2>1, <2>2, <2>3, RtOnly
<1>5. ASSUME NEW r \in Runtime, rt' = [rt EXCEPT ![r].promise = "acquiring"], dir' = dir,
             rt[r].promise = "none", ~Disposed(r)
      PROVE  C'
  <2>1. /\ rt'[r].dispose = "no" /\ rt'[r].session = rt[r].session
        /\ \A q \in Runtime \ {r} : rt'[q] = rt[q]
    BY <1>0, <1>5 DEF Inv, LeaseTypes, RtType, Disposed
  <2>2. Tidy(r)'
    BY <1>0, <1>5, <2>1 DEF Tidy, Names, Dead
  <2> QED
    BY <1>0, <1>5, <2>1, <2>2, TidyOther
<1>6. ASSUME NEW r \in Runtime, Acquire(r) PROVE C'
  <2> DEFINE l == <<r, rt[r].made + 1>>
  <2>1. l[1] = r
    OBVIOUS
  <2>2. /\ dir' = l /\ rt'[r].lease = l /\ rt'[r].promise \in {"returning", "fulfilled"}
        /\ rt'[r].dispose = rt[r].dispose /\ rt[r].promise = "acquiring"
        /\ \A q \in Runtime \ {r} : rt'[q] = rt[q]
    BY <1>0, <1>6 DEF Acquire, Inv, LeaseTypes, RtType
  <2> HIDE DEF l
  <2>3. Tidy(r)'
    BY <1>0, <2>2 DEF Tidy
  <2> QED
    BY <1>0, <2>1, <2>2, <2>3, TidyOther
<1>7. ASSUME NEW r \in Runtime, GiveBack(r) \/ AcquireFails(r) PROVE C'
  <2> DEFINE s == SessionAfter(r, Waiting(r))
  <2>1. /\ rt' = [rt EXCEPT ![r].promise = "none", ![r].lease = NoLease, ![r].session = s]
        /\ \/ rt[r].promise = "returning" /\ dir' = Freed(rt[r].lease)
           \/ rt[r].promise = "acquiring" /\ dir' = dir
    BY <1>7 DEF GiveBack, AcquireFails, Reject
  <2>2. rt[r].session # "dead"
    BY <1>0, <2>1 DEF At, LifeIs
  <2> HIDE DEF s
  <2>3. /\ rt'[r].promise = "none" /\ \A q \in Runtime \ {r} : rt'[q] = rt[q]
    BY <1>0, <2>1 DEF Inv, LeaseTypes, RtType
  <2>4. ~Names(r)'
    BY <1>0, <2>1, <2>2 DEF Tidy, Names, Dead, Freed
  <2>5. Tidy(r)'
    BY <2>3, <2>4 DEF Tidy
  <2>6. dir' = dir \/ dir' = NoLease
    BY <2>1 DEF Freed
  <2> QED
    BY <1>0, <2>3, <2>5, <2>6, TidyOther
<1>8. ASSUME NEW r \in Runtime, Release(r) PROVE C'
  <2>1. /\ rt'[r].promise = "none" /\ \A q \in Runtime \ {r} : rt'[q] = rt[q]
    BY <1>0, <1>8 DEF Release, Inv, LeaseTypes, RtType
  <2>2. rt[r].session # "dead" /\ (dir' = dir \/ dir' = NoLease)
    BY <1>0, <1>8 DEF At, LifeIs, Release, Freed
  <2>3. ~Names(r)'
    <3>1. Names(r) => dir = rt[r].lease
      BY <1>0, <2>2 DEF Tidy, Dead
    <3> QED
      BY <1>8, <2>2, <3>1 DEF Release, Names, Freed
  <2>4. Tidy(r)'
    BY <2>1, <2>3 DEF Tidy
  <2> QED
    BY <1>0, <2>1, <2>2, <2>4, TidyOther
<1>9. ASSUME NEW r \in Runtime, Die(r) PROVE C'
  <2>1. /\ rt'[r].session = "dead" /\ rt'[r].dispose = "no" /\ dir' = dir
        /\ \A q \in Runtime \ {r} : rt'[q] = rt[q]
    BY <1>0, <1>9 DEF Die, NewRuntime, Inv, LeaseTypes, RtType
  <2>2. Tidy(r)'
    BY <2>1 DEF Tidy, Dead
  <2> QED
    BY <1>0, <2>1, <2>2, TidyOther
<1>10. ASSUME NEW r \in Runtime, NEW o \in Slot,
              Start(r, o) \/ (\E k \in Command : Ask(r, o, k)) \/ Progress(r, o)
       PROVE  C'
  <2>1. rt[r].session = "dead" => rt[r].promise = "none" /\ \A p \in Slot : op[r][p].step = "idle"
    BY <1>0 DEF At, LifeIs
  <2>2. CASE Start(r, o)
    BY <1>2, <2>2 DEF Start
  <2>3. CASE \E k \in Command : Ask(r, o, k)
    BY <1>1, <2>3 DEF Ask
  <2>4. CASE Ensure(r, o)
    <3>1. CASE Refuse(r, o)
      BY <1>2, <2>1, <2>4, <3>1 DEF Refuse, Ensure
    <3>2. CASE UNCHANGED <<rt, dir>>
      BY <1>1, <3>2
    <3>3. CASE /\ rt' = [rt EXCEPT ![r].promise = "acquiring"] /\ dir' = dir
               /\ rt[r].promise = "none" /\ ~Disposed(r)
      BY <1>5, <3>3
    <3>4. CASE rt' = [rt EXCEPT ![r].handle = rt[r].lease] /\ dir' = dir
      BY <1>3, <3>4
    <3> QED
      BY <2>4, <3>1, <3>2, <3>3, <3>4 DEF Ensure
  <2>5. CASE AssertHeld(r, o)
    BY <1>1, <2>5 DEF AssertHeld
  <2>6. CASE LeaseLost(r, o)
    BY <1>3, <2>6 DEF LeaseLost
  <2>7. CASE LetGo(r, o)
    BY <1>2, <2>1, <2>7 DEF LetGo, Freed
  <2>8. CASE Finish(r, o)
    BY <1>2, <2>1, <2>8 DEF Finish
  <2> QED
    BY <1>10, <2>2, <2>3, <2>4, <2>5, <2>6, <2>7, <2>8 DEF Progress
<1>11. CASE Remove
  BY <1>1, <1>11 DEF Remove
<1>12. CASE UNCHANGED leaseVars
  BY <1>1, <1>12 DEF leaseVars
<1> QED
  BY <1>4, <1>6, <1>7, <1>8, <1>9, <1>10, <1>11, <1>12 DEF LeaseNext, Settle, Disposal

\* When dispose has returned, the directory does not name the runtime, and no
\* promise of it is left that could take the lease later.
THEOREM NothingIsLeftHeld == LeaseSpec => []DisposedHoldsNothing
<1> DEFINE C == \A r \in Runtime : Tidy(r)
<1>1. LeaseInit => C
  <2> SUFFICES ASSUME LeaseInit, NEW r \in Runtime PROVE Tidy(r)
    OBVIOUS
  <2>1. dir = NoLease /\ rt[r] = NewRuntime
    BY DEF LeaseInit
  <2>2. rt[r].dispose = "no"
    BY <2>1 DEF NewRuntime
  <2> QED
    BY <2>1, <2>2 DEF Tidy, Names
<1>2. Inv /\ C /\ [LeaseNext]_leaseVars => C'
  BY TidyNext
<1>3. Inv /\ C => DisposedHoldsNothing
  <2> SUFFICES ASSUME Inv, C, NEW r \in Runtime, rt[r].dispose = "done"
               PROVE  ~Names(r) /\ rt[r].promise = "none"
    BY DEF DisposedHoldsNothing
  <2>1. rt[r].promise = "none"
    BY DEF Tidy
  <2>2. ~Dead(r)
    BY DEF Inv, At, LifeIs, Dead
  <2> QED
    BY <2>1, <2>2 DEF Tidy
<1> QED
  BY <1>1, <1>2, <1>3, InvariantHolds, PTL DEF LeaseSpec

-----------------------------------------------------------------------------
(* What the calls wait for *)

\* The promise knows a lease exactly while it is settled with one, and a call that waits
\* waits for a promise that is still to be settled.
Promised(r) ==
    /\ rt[r].promise \in {"returning", "fulfilled"} <=> rt[r].lease # NoLease
    /\ \A o \in Slot : op[r][o].step = "wait" => rt[r].promise \in {"acquiring", "returning"}

\* What keeps the promise, and lets no call wait, keeps this.
LEMMA PromisedKept ==
  ASSUME NEW q \in Runtime, Promised(q),
         rt'[q].promise = rt[q].promise, rt'[q].lease = rt[q].lease,
         \A o \in Slot : op'[q][o].step = "wait" => op[q][o].step = "wait"
  PROVE  Promised(q)'
BY DEF Promised

\* A step of one call that does not wait, with the promise as it was.
LEMMA PromisedCall ==
  ASSUME LeaseTypes, \A q \in Runtime : Promised(q), NEW r \in Runtime, NEW o \in Slot, NEW x, NEW y,
         rt' = [rt EXCEPT ![r] = x], x.promise = rt[r].promise, x.lease = rt[r].lease,
         op' = [op EXCEPT ![r][o] = y], y.step # "wait"
  PROVE  \A q \in Runtime : Promised(q)'
<1>1. /\ rt'[r] = x /\ \A q \in Runtime \ {r} : rt'[q] = rt[q]
      /\ op'[r][o] = y /\ \A p \in Slot \ {o} : op'[r][p] = op[r][p]
      /\ \A q \in Runtime \ {r} : op'[q] = op[q]
  BY DEF LeaseTypes
<1>2. \A p \in Slot : op'[r][p].step = "wait" => op[r][p].step = "wait"
  BY <1>1
<1>3. Promised(r)'
  BY <1>1, <1>2, PromisedKept
<1>4. ASSUME NEW q \in Runtime \ {r} PROVE Promised(q)'
  BY <1>1, PromisedKept
<1> QED
  BY <1>3, <1>4

\* A step of one runtime after which none of its calls waits.
LEMMA PromisedRuntime ==
  ASSUME \A q \in Runtime : Promised(q), NEW r \in Runtime,
         \A q \in Runtime \ {r} : rt'[q] = rt[q] /\ op'[q] = op[q],
         rt'[r].promise \in {"returning", "fulfilled"} <=> rt'[r].lease # NoLease,
         \A o \in Slot : op'[r][o].step = "wait" => rt'[r].promise \in {"acquiring", "returning"}
  PROVE  \A q \in Runtime : Promised(q)'
<1>1. Promised(r)'
  BY DEF Promised
<1>2. ASSUME NEW q \in Runtime \ {r} PROVE Promised(q)'
  BY PromisedKept
<1> QED
  BY <1>1, <1>2

\* The step of a call, case by case.
LEMMA PromisedProgress ==
  ASSUME LeaseTypes, \A q \in Runtime : Promised(q), NEW r \in Runtime, NEW o \in Slot,
         Start(r, o) \/ (\E k \in Command : Ask(r, o, k)) \/ Progress(r, o)
  PROVE  \A q \in Runtime : Promised(q)'
<1> DEFINE C == \A q \in Runtime : Promised(q)
<1>0. rt[r] \in RtType /\ op[r][o] \in OpType /\ rt = [rt EXCEPT ![r] = rt[r]]
  BY DEF LeaseTypes
<1>1. ASSUME NEW s, NEW y, rt' = [rt EXCEPT ![r].session = s], op' = [op EXCEPT ![r][o] = y],
             y.step # "wait"
      PROVE  C'
  <2> DEFINE x == [rt[r] EXCEPT !.session = s]
  <2>1. x.promise = rt[r].promise /\ x.lease = rt[r].lease
    BY <1>0 DEF RtType
  <2>2. rt' = [rt EXCEPT ![r] = x]
    BY <1>1
  <2> HIDE DEF x
  <2> QED
    BY <1>1, <2>1, <2>2, PromisedCall
<1>2. ASSUME NEW y, rt' = rt, op' = [op EXCEPT ![r][o] = y], y.step # "wait" PROVE C'
  BY <1>0, <1>2, PromisedCall
<1>3. ASSUME NEW l, NEW y, rt' = [rt EXCEPT ![r].handle = l], op' = [op EXCEPT ![r][o] = y],
             y.step # "wait"
      PROVE  C'
  <2> DEFINE x == [rt[r] EXCEPT !.handle = l]
  <2>1. x.promise = rt[r].promise /\ x.lease = rt[r].lease
    BY <1>0 DEF RtType
  <2>2. rt' = [rt EXCEPT ![r] = x]
    BY <1>3
  <2> HIDE DEF x
  <2> QED
    BY <1>3, <2>1, <2>2, PromisedCall
<1>4. ASSUME op' = [op EXCEPT ![r][o].step = "wait"],
             \/ rt' = [rt EXCEPT ![r].promise = "acquiring"] /\ rt[r].promise = "none"
             \/ rt' = rt /\ rt[r].promise \in {"acquiring", "returning"}
      PROVE  C'
  <2>1. /\ rt'[r].lease = rt[r].lease /\ \A q \in Runtime \ {r} : rt'[q] = rt[q]
        /\ rt'[r].promise \in {"acquiring", "returning"}
        /\ rt'[r].promise = "returning" <=> rt[r].promise = "returning"
        /\ rt[r].promise # "fulfilled"
    BY <1>0, <1>4 DEF LeaseTypes, RtType
  <2>2. \A q \in Runtime \ {r} : op'[q] = op[q]
    BY <1>4 DEF LeaseTypes
  <2>3. rt'[r].promise \in {"returning", "fulfilled"} <=> rt'[r].lease # NoLease
    BY <2>1 DEF Promised
  <2> QED
    BY <2>1, <2>2, <2>3, PromisedRuntime
<1>5. CASE Start(r, o)
  <2> DEFINE y == [step |-> "begin", kind |-> "start", lease |-> NoLease]
  <2>1. y.step # "wait"
    OBVIOUS
  <2>2. rt' = [rt EXCEPT ![r].session = "starting"] /\ op' = [op EXCEPT ![r][o] = y]
    BY <1>5 DEF Start
  <2> HIDE DEF y
  <2> QED
    BY <1>1, <2>1, <2>2
<1>6. ASSUME NEW k \in Command, Ask(r, o, k) PROVE C'
  <2> DEFINE y == [step |-> "begin", kind |-> k, lease |-> NoLease]
  <2>1. y.step # "wait"
    OBVIOUS
  <2>2. rt' = rt /\ op' = [op EXCEPT ![r][o] = y]
    BY <1>6 DEF Ask
  <2> HIDE DEF y
  <2> QED
    BY <1>2, <2>1, <2>2
<1>7. IdleCall.step # "wait"
  BY DEF IdleCall
<1>8. CASE Ensure(r, o)
  <2>1. CASE Refuse(r, o)
    BY <1>1, <1>7, <2>1 DEF Refuse
  <2>2. CASE UNCHANGED rt /\ op' = [op EXCEPT ![r][o].step = "assert", ![r][o].lease = rt[r].handle]
    <3> DEFINE y == [op[r][o] EXCEPT !.step = "assert", !.lease = rt[r].handle]
    <3>1. y.step # "wait"
      BY <1>0 DEF OpType
    <3>2. op' = [op EXCEPT ![r][o] = y]
      BY <2>2 DEF LeaseTypes
    <3> HIDE DEF y
    <3> QED
      BY <1>2, <2>2, <3>1, <3>2
  <2>3. CASE rt' = [rt EXCEPT ![r].handle = rt[r].lease] /\ op' = [op EXCEPT ![r][o].step = "body"]
    <3> DEFINE y == [op[r][o] EXCEPT !.step = "body"]
    <3>1. y.step # "wait"
      BY <1>0 DEF OpType
    <3>2. op' = [op EXCEPT ![r][o] = y]
      BY <2>3
    <3> HIDE DEF y
    <3> QED
      BY <1>3, <2>3, <3>1, <3>2
  <2> QED
    BY <1>4, <1>8, <2>1, <2>2, <2>3 DEF Ensure
<1>9. CASE AssertHeld(r, o)
  <2> DEFINE b == [op[r][o] EXCEPT !.step = "body", !.lease = NoLease]
             y == IF Owned(op[r][o].kind) \/ ~Disposed(r) THEN b ELSE IdleCall
  <2>1. b.step # "wait"
    BY <1>0 DEF OpType
  <2>2. y.step # "wait"
    BY <1>7, <2>1
  <2>3. rt' = rt /\ op' = [op EXCEPT ![r][o] = y]
    BY <1>9 DEF AssertHeld
  <2> HIDE DEF y
  <2> QED
    BY <1>2, <2>2, <2>3
<1>10. CASE LeaseLost(r, o)
  <2> DEFINE y == [op[r][o] EXCEPT !.step = "letGo", !.lease = rt[r].handle]
  <2>1. y.step # "wait"
    BY <1>0 DEF OpType
  <2>2. rt' = [rt EXCEPT ![r].handle = NoLease] /\ op' = [op EXCEPT ![r][o] = y]
    BY <1>10 DEF LeaseLost, LeaseTypes
  <2> HIDE DEF y
  <2> QED
    BY <1>3, <2>1, <2>2
<1>11. CASE LetGo(r, o)
  BY <1>1, <1>7, <1>11 DEF LetGo
<1>12. CASE Finish(r, o)
  BY <1>1, <1>7, <1>12 DEF Finish
<1> QED
  BY <1>5, <1>6, <1>8, <1>9, <1>10, <1>11, <1>12 DEF Progress

\* Every step keeps it: an acquisition tells all calls that wait, or leaves them to the
\* release that follows, and a disposal waits until the promise has settled.
LEMMA PromisedNext ==
  ASSUME LeaseTypes, \A r \in Runtime : Promised(r), [LeaseNext]_leaseVars
  PROVE  \A q \in Runtime : Promised(q)'
<1> DEFINE C == \A q \in Runtime : Promised(q)
<1>0. \A r \in Runtime : rt[r] \in RtType /\ Promised(r)
  BY DEF LeaseTypes
<1>1. ASSUME NEW r \in Runtime, Acquire(r) PROVE C'
  <2> DEFINE l == <<r, rt[r].made + 1>>
  <2>0. l # NoLease
    <3>1. Len(l) = 2 /\ Len(NoLease) = 0
      BY DEF NoLease
    <3> QED
      BY <3>1
  <2>1. /\ rt'[r].lease = l
        /\ rt'[r].promise = IF Disposed(r) THEN "returning" ELSE "fulfilled"
        /\ \A q \in Runtime \ {r} : rt'[q] = rt[q]
    BY <1>0, <1>1 DEF Acquire, LeaseTypes, RtType
  <2> HIDE DEF l
  <2>2. CASE Disposed(r)
    <3>1. op' = op /\ rt'[r].promise = "returning"
      BY <1>1, <2>1, <2>2 DEF Acquire
    <3> QED
      BY <2>0, <2>1, <3>1, PromisedRuntime
  <2>3. CASE ~Disposed(r)
    <3>1. op' = [op EXCEPT ![r] = Settled(r, "body")] /\ rt'[r].promise = "fulfilled"
      BY <1>1, <2>1, <2>3 DEF Acquire
    <3>2. op'[r] = Settled(r, "body") /\ \A q \in Runtime \ {r} : op'[q] = op[q]
      BY <3>1 DEF LeaseTypes
    <3>3. ASSUME NEW o \in Slot PROVE op'[r][o].step # "wait"
      <4>1. op[r][o] \in OpType
        BY DEF LeaseTypes
      <4>2. [op[r][o] EXCEPT !.step = "body"].step = "body"
        BY <4>1 DEF OpType
      <4>3. op'[r][o] = IF op[r][o].step # "wait" THEN op[r][o] ELSE [op[r][o] EXCEPT !.step = "body"]
        BY <3>2 DEF Settled
      <4> QED
        BY <4>2, <4>3
    <3> QED
      BY <2>0, <2>1, <3>1, <3>2, <3>3, PromisedRuntime
  <2> QED
    BY <2>2, <2>3
<1>2. ASSUME NEW r \in Runtime, Reject(r) PROVE C'
  <2> DEFINE s == SessionAfter(r, Waiting(r))
  <2>1. /\ rt' = [rt EXCEPT ![r].promise = "none", ![r].lease = NoLease, ![r].session = s]
        /\ op' = [op EXCEPT ![r] = Settled(r, "idle")]
    BY <1>2 DEF Reject
  <2> HIDE DEF s
  <2>2. rt'[r].promise = "none" /\ rt'[r].lease = NoLease /\ \A q \in Runtime \ {r} : rt'[q] = rt[q]
    BY <1>0, <2>1 DEF LeaseTypes, RtType
  <2>3. op'[r] = Settled(r, "idle") /\ \A q \in Runtime \ {r} : op'[q] = op[q]
    BY <2>1 DEF LeaseTypes
  <2>4. ASSUME NEW o \in Slot PROVE op'[r][o].step # "wait"
    <3>1. op'[r][o] = IF op[r][o].step # "wait" THEN op[r][o] ELSE IdleCall
      BY <2>3 DEF Settled
    <3> QED
      BY <3>1 DEF IdleCall
  <2> QED
    BY <2>2, <2>3, <2>4, PromisedRuntime
<1>3. ASSUME NEW r \in Runtime, DisposeRuntime(r) \/ Drain(r) PROVE C'
  <2>1. PICK d : rt' = [rt EXCEPT ![r].dispose = d] /\ op' = op
    BY <1>3 DEF DisposeRuntime, Drain
  <2>2. /\ rt'[r].promise = rt[r].promise /\ rt'[r].lease = rt[r].lease
        /\ \A q \in Runtime \ {r} : rt'[q] = rt[q]
    BY <1>0, <2>1 DEF LeaseTypes, RtType
  <2> QED
    BY <1>0, <2>1, <2>2, PromisedKept
<1>4. ASSUME NEW r \in Runtime, Release(r) PROVE C'
  <2>1. /\ rt'[r].promise = "none" /\ rt'[r].lease = NoLease /\ op' = op
        /\ \A q \in Runtime \ {r} : rt'[q] = rt[q]
    BY <1>0, <1>4 DEF Release, LeaseTypes, RtType
  <2>2. \A o \in Slot : op[r][o].step # "wait"
    BY <1>0, <1>4 DEF Promised, Release
  <2> QED
    BY <2>1, <2>2, PromisedRuntime
<1>5. ASSUME NEW r \in Runtime, Die(r) PROVE C'
  <2>1. /\ rt'[r].promise = "none" /\ rt'[r].lease = NoLease
        /\ \A q \in Runtime \ {r} : rt'[q] = rt[q]
    BY <1>0, <1>5 DEF Die, NewRuntime, LeaseTypes
  <2>2. op'[r] = [o \in Slot |-> IdleCall] /\ \A q \in Runtime \ {r} : op'[q] = op[q]
    BY <1>5 DEF Die, LeaseTypes
  <2>3. \A o \in Slot : op'[r][o].step # "wait"
    BY <2>2 DEF IdleCall
  <2> QED
    BY <2>1, <2>2, <2>3, PromisedRuntime
<1>6. CASE UNCHANGED <<rt, op>>
  BY <1>0, <1>6, PromisedKept
<1> QED
  BY <1>1, <1>2, <1>3, <1>4, <1>5, <1>6, PromisedProgress
     DEF LeaseNext, Settle, Disposal, GiveBack, AcquireFails, Remove, leaseVars

\* The fields of a runtime and its calls keep their types, a lease is known to the promise
\* that acquired it, and whoever waits, waits for a promise that is to be settled.
THEOREM LeaseTypesHold == LeaseSpec => []LeaseTypeOK
<1> DEFINE C == \A r \in Runtime : Promised(r)
<1>1. LeaseInit => LeaseTypes /\ C
  <2> SUFFICES ASSUME LeaseInit PROVE LeaseTypes /\ C
    OBVIOUS
  <2>1. LeaseTypes
    BY InvInit DEF Inv
  <2>2. ASSUME NEW r \in Runtime PROVE Promised(r)
    BY DEF LeaseInit, NewRuntime, IdleCall, Promised
  <2> QED
    BY <2>1, <2>2
<1>2. LeaseTypes /\ C /\ [LeaseNext]_leaseVars => LeaseTypes' /\ C'
  BY TypesStep, PromisedNext
<1>3. LeaseTypes /\ C => LeaseTypeOK
  BY DEF LeaseTypes, Promised, LeaseTypeOK, RtType, OpType
<1> QED
  BY <1>1, <1>2, <1>3, PTL DEF LeaseSpec

-----------------------------------------------------------------------------
(* The lease and the slot together *)

\* Whatever the sessions and the integrations do beside each other, each part of the
\* controller behaves as its module says: what is proved of the parts holds of both.
THEOREM ControllerParts == ControllerSpec => LeaseSpec /\ Spec
<1>1. ControllerInit => LeaseInit /\ Init
  BY DEF ControllerInit
<1>2. [ControllerNext]_controllerVars => [LeaseNext]_leaseVars /\ [Next]_vars
  BY DEF ControllerNext, controllerVars
<1> QED
  BY <1>1, <1>2, PTL DEF ControllerSpec, LeaseSpec, Spec

\* What LeaseTypeOK and TypeOK say of the types of the lease and of the integrations
\* holds for any bounds.
THEOREM ControllerTypes == ControllerSpec => []TypesOK
<1>1. LeaseTypeOK /\ TypeOK => TypesOK
  BY DEF TypesOK
<1> QED
  BY <1>1, ControllerParts, LeaseTypesHold, IntegrationTypes, PTL
=============================================================================
