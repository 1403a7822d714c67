------------------------ MODULE BoundedSchedulerProofs ------------------------
(***************************************************************************)
(* Proofs about BoundedScheduler for any finite set of requests and any    *)
(* capacities.                                                             *)
(***************************************************************************)
EXTENDS BoundedScheduler, FiniteSetTheorems, TLAPS

(* The requests whose location, in p, is one of S: At(S) when p is pc.     *)
Placed(p, S) == {r \in Requests : p[r] \in S}

-----------------------------------------------------------------------------
(* Counting.                                                               *)

(* Any set of requests is finite and has a cardinality.                    *)
LEMMA PlacedFinite ==
  ASSUME NEW p, NEW S
  PROVE  IsFiniteSet(Placed(p, S)) /\ Cardinality(Placed(p, S)) \in Nat
<1>1. Placed(p, S) \in SUBSET Requests
  BY DEF Placed
<1>2. IsFiniteSet(Placed(p, S))
  BY <1>1, FS_Subset, SchedulerAssumption
<1> QED
  BY <1>2, FS_CardinalityType

(* How the count of a kind of location changes when one request moves.     *)
LEMMA OneMoves ==
  ASSUME NEW p \in [Requests -> Locations], NEW r \in Requests, NEW S,
         NEW q \in [Requests -> Locations], \A x \in Requests \ {r} : q[x] = p[x]
  PROVE  /\ (q[r] \in S <=> p[r] \in S) => Cardinality(Placed(q, S)) = Cardinality(Placed(p, S))
         /\ q[r] \in S /\ p[r] \notin S => Cardinality(Placed(q, S)) = Cardinality(Placed(p, S)) + 1
         /\ q[r] \notin S /\ p[r] \in S => Cardinality(Placed(q, S)) = Cardinality(Placed(p, S)) - 1
<1> DEFINE others == Placed(p, S) \ {r}
           now == Placed(q, S)
<1>1. IsFiniteSet(Placed(p, S)) /\ Cardinality(Placed(p, S)) \in Nat
  BY PlacedFinite
<1>2. /\ IsFiniteSet(others)
      /\ Cardinality(others) = Cardinality(Placed(p, S)) - (IF p[r] \in S THEN 1 ELSE 0)
  <2>1. r \in Placed(p, S) <=> p[r] \in S
    BY DEF Placed
  <2> QED
    BY <1>1, <2>1, FS_RemoveElement
<1>3. now = IF q[r] \in S THEN others \cup {r} ELSE others
  BY DEF Placed
<1>4. Cardinality(others \cup {r}) = Cardinality(others) + 1
  BY <1>2, FS_AddElement
<1> QED
  BY <1>1, <1>2, <1>3, <1>4

(* What waking up waiters changes: only queued requests move, they are     *)
(* granted, and the units they are granted leave the counter.              *)
LEMMA WakeMoves ==
  ASSUME NEW p \in [Requests -> Locations], NEW v \in Int, NEW n \in Nat, Wake(p, v, n)
  PROVE  /\ pc' \in [Requests -> Locations]
         /\ value' \in Int
         /\ \A r \in Requests : pc'[r] # p[r] => p[r] = "queued" /\ pc'[r] = "granted"
         /\ Cardinality(Placed(pc', PlaceHeld)) = Cardinality(Placed(p, PlaceHeld))
         /\ value' + Cardinality(Placed(pc', UnitHeld)) = v + Cardinality(Placed(p, UnitHeld))
         /\ n <= v => value' >= 0
         /\ \/ \E r \in Requests : pc'[r] = "granted"
            \/ n = 0 /\ value' = v
            \/ \A r \in Requests : pc'[r] # "queued"
<1>1. PICK G \in SUBSET Queued(p) :
        /\ Cardinality(G) <= n
        /\ Cardinality(G) < n => G = Queued(p)
        /\ pc' = [r \in Requests |-> IF r \in G THEN "granted" ELSE p[r]]
        /\ value' = v - Cardinality(G)
  BY DEF Wake
<1>2. IsFiniteSet(G) /\ Cardinality(G) \in Nat
  <2>1. G \in SUBSET Requests
    BY DEF Queued
  <2> QED
    BY <2>1, FS_Subset, FS_CardinalityType, SchedulerAssumption
<1>3. /\ pc' \in [Requests -> Locations]
      /\ \A r \in Requests : pc'[r] # p[r] => p[r] = "queued" /\ pc'[r] = "granted"
  BY <1>1 DEF Queued, Locations, PlaceHeld, InDeque
<1>4. Placed(pc', PlaceHeld) = Placed(p, PlaceHeld)
  BY <1>1 DEF Placed, Queued, PlaceHeld, InDeque, UnitHeld
<1>5. Cardinality(Placed(pc', UnitHeld)) = Cardinality(Placed(p, UnitHeld)) + Cardinality(G)
  <2>1. Placed(pc', UnitHeld) = Placed(p, UnitHeld) \cup G
    BY <1>1 DEF Placed, Queued, UnitHeld
  <2>2. Placed(p, UnitHeld) \cap G = {}
    BY DEF Placed, Queued, UnitHeld
  <2>3. Cardinality(Placed(p, UnitHeld) \cap G) = 0
    BY <2>2, FS_EmptySet
  <2>4. IsFiniteSet(Placed(p, UnitHeld)) /\ Cardinality(Placed(p, UnitHeld)) \in Nat
    BY PlacedFinite
  <2>5. Cardinality(Placed(p, UnitHeld) \cup G) =
          Cardinality(Placed(p, UnitHeld)) + Cardinality(G) - Cardinality(Placed(p, UnitHeld) \cap G)
    BY <1>2, <2>4, FS_Union
  <2> QED
    BY <1>2, <2>1, <2>3, <2>4, <2>5
<1>6. \/ \E r \in Requests : pc'[r] = "granted"
      \/ n = 0 /\ value' = v
      \/ \A r \in Requests : pc'[r] # "queued"
  <2>1. CASE G # {}
    BY <1>1, <2>1 DEF Queued
  <2>2. CASE G = {}
    <3>1. Cardinality(G) = 0
      BY <2>2, FS_EmptySet
    <3>2. CASE n = 0
      BY <1>1, <3>1, <3>2
    <3>3. CASE n # 0
      <4>1. Queued(p) = {}
        BY <1>1, <2>2, <3>1, <3>3
      <4> QED
        BY <1>1, <2>2, <4>1 DEF Queued
    <3> QED
      BY <3>2, <3>3
  <2> QED
    BY <2>1, <2>2
<1>7. Cardinality(Placed(p, UnitHeld)) \in Nat
  BY PlacedFinite
<1> QED
  BY <1>1, <1>2, <1>3, <1>4, <1>5, <1>6, <1>7

-----------------------------------------------------------------------------
(* The invariant.                                                          *)

(* No place is given out beyond the capacity.                              *)
WithinCapacity == admitted <= Capacity

(* Who has been answered, and who still has to be told of what.            *)
Answered ==
  \A r \in Requests :
    /\ reply[r] # "none" <=> pc[r] \in {"done", "deferred"}
    /\ pc[r] \in {"unqueue", "ungrant", "leaving"} => exc[r] # "none"

IInv == /\ TypeOK
        /\ AdmissionCount
        /\ WithinCapacity
        /\ UnitsConserved
        /\ ThreadHoldsCapacity
        /\ NoLostWakeup
        /\ Answered

(* The same counts, in the words of the lemmas above.                      *)
LEMMA AtIsPlaced == \A S : At(S) = Placed(pc, S) /\ At(S)' = Placed(pc', S)
BY DEF At, Placed

(* The scheduler begins in the invariant.                                  *)
LEMMA InitEstablishes == Init => IInv
<1> SUFFICES ASSUME Init PROVE IInv
  OBVIOUS
<1> USE SchedulerAssumption
<1>1. TypeOK
  BY DEF Init, TypeOK, Locations, Jobs, Replies
<1>2. At(PlaceHeld) = {} /\ At(UnitHeld) = {} /\ At({"queued"}) = {}
  BY DEF Init, At, PlaceHeld, InDeque, UnitHeld
<1>3. AdmissionCount /\ WithinCapacity /\ UnitsConserved
  BY <1>2, FS_EmptySet DEF Init, AdmissionCount, WithinCapacity, Capacity, UnitsConserved
<1>4. ThreadHoldsCapacity /\ NoLostWakeup /\ Answered
  BY <1>2 DEF Init, ThreadHoldsCapacity, NoLostWakeup, Answered
<1> QED
  BY <1>1, <1>3, <1>4 DEF IInv

(* A step that moves one request to l and changes no unit or place but by  *)
(* what the move itself implies.                                           *)
LEMMA PlainMove ==
  ASSUME IInv, NEW r \in Requests, NEW l \in Locations,
         pc' \in [Requests -> Locations], pc'[r] = l,
         \A x \in Requests \ {r} : pc'[x] = pc[x],
         admitted' = admitted + (IF l \in PlaceHeld THEN 1 ELSE 0)
                              - (IF pc[r] \in PlaceHeld THEN 1 ELSE 0),
         value' = value - (IF l \in UnitHeld THEN 1 ELSE 0)
                        + (IF pc[r] \in UnitHeld THEN 1 ELSE 0),
         value' >= 0, admitted' <= Capacity
  PROVE  /\ AdmissionCount' /\ WithinCapacity' /\ UnitsConserved'
         /\ admitted' \in Nat /\ value' \in Nat
<1>0. /\ pc \in [Requests -> Locations] /\ admitted \in Int /\ value \in Int
      /\ admitted = Cardinality(Placed(pc, PlaceHeld))
      /\ value + Cardinality(Placed(pc, UnitHeld)) = MaximumConcurrency
  BY AtIsPlaced DEF IInv, TypeOK, AdmissionCount, UnitsConserved
<1>1. /\ Cardinality(Placed(pc, PlaceHeld)) \in Nat
      /\ Cardinality(Placed(pc, UnitHeld)) \in Nat
  BY PlacedFinite
<1>2. /\ Cardinality(Placed(pc', PlaceHeld)) =
           Cardinality(Placed(pc, PlaceHeld)) + (IF l \in PlaceHeld THEN 1 ELSE 0)
                                     - (IF pc[r] \in PlaceHeld THEN 1 ELSE 0)
      /\ Cardinality(Placed(pc', UnitHeld)) =
           Cardinality(Placed(pc, UnitHeld)) + (IF l \in UnitHeld THEN 1 ELSE 0)
                                     - (IF pc[r] \in UnitHeld THEN 1 ELSE 0)
  <2>1. ASSUME NEW S \in {PlaceHeld, UnitHeld}
        PROVE  Cardinality(Placed(pc', S)) =
                 Cardinality(Placed(pc, S)) + (IF l \in S THEN 1 ELSE 0)
                                            - (IF pc[r] \in S THEN 1 ELSE 0)
    <3>1. Cardinality(Placed(pc, S)) \in Nat
      BY PlacedFinite
    <3>2. /\ (pc'[r] \in S <=> pc[r] \in S) => Cardinality(Placed(pc', S)) = Cardinality(Placed(pc, S))
          /\ pc'[r] \in S /\ pc[r] \notin S => Cardinality(Placed(pc', S)) = Cardinality(Placed(pc, S)) + 1
          /\ pc'[r] \notin S /\ pc[r] \in S => Cardinality(Placed(pc', S)) = Cardinality(Placed(pc, S)) - 1
      BY <1>0, OneMoves
    <3> QED
      BY <3>1, <3>2
  <2> QED
    BY <2>1
<1>3. AdmissionCount' /\ WithinCapacity' /\ admitted' \in Nat
  <2>1. admitted' = Cardinality(Placed(pc', PlaceHeld))
    BY <1>0, <1>1, <1>2
  <2>2. admitted' \in Nat
    BY <2>1, PlacedFinite
  <2> QED
    BY <2>1, <2>2, AtIsPlaced DEF AdmissionCount, WithinCapacity, Capacity
<1>4. UnitsConserved' /\ value' \in Nat
  <2>1. value' + Cardinality(Placed(pc', UnitHeld)) = MaximumConcurrency
    BY <1>0, <1>1, <1>2, SchedulerAssumption
  <2> QED
    BY <1>0, <2>1, AtIsPlaced DEF UnitsConserved
<1> QED
  BY <1>3, <1>4

(* A step in which one request that holds a unit leaves for l and wakes n  *)
(* waiters from v units: either it gives its unit back or it keeps it.     *)
LEMMA WakingMove ==
  ASSUME IInv, NEW r \in Requests, NEW l \in {"running", "done"},
         NEW n \in 0..2, pc[r] \in UnitHeld,
         Wake([pc EXCEPT ![r] = l], value + (IF l = "done" THEN 1 ELSE 0), n),
         n <= value + (IF l = "done" THEN 1 ELSE 0),
         n = 0 => value = 0 /\ l = "running",
         admitted' = admitted - (IF l = "done" THEN 1 ELSE 0)
  PROVE  /\ AdmissionCount' /\ WithinCapacity' /\ UnitsConserved' /\ NoLostWakeup'
         /\ pc' \in [Requests -> Locations] /\ value' \in Nat /\ admitted' \in Nat
         /\ pc'[r] = l
         /\ \A q \in Requests \ {r} : pc'[q] # pc[q] => pc[q] = "queued" /\ pc'[q] = "granted"
<1> DEFINE p == [pc EXCEPT ![r] = l]
           v == value + (IF l = "done" THEN 1 ELSE 0)
<1>0. /\ pc \in [Requests -> Locations] /\ admitted \in Int /\ value \in Int
      /\ admitted = Cardinality(Placed(pc, PlaceHeld)) /\ admitted <= Capacity
      /\ value >= 0 /\ value + Cardinality(Placed(pc, UnitHeld)) = MaximumConcurrency
  BY AtIsPlaced DEF IInv, TypeOK, AdmissionCount, WithinCapacity, UnitsConserved
<1>1. /\ p \in [Requests -> Locations] /\ v \in Int /\ n \in Nat
      /\ Wake(p, v, n) /\ n <= v
  BY <1>0 DEF Locations, PlaceHeld, UnitHeld
<1>1b. p \in [Requests -> Locations] /\ p[r] = l /\ \A x \in Requests \ {r} : p[x] = pc[x]
  BY <1>0, <1>1
<1>1a. v = value + (IF l = "done" THEN 1 ELSE 0)
  OBVIOUS
<1> HIDE DEF p, v
<1>2. /\ pc' \in [Requests -> Locations]
      /\ value' \in Int
      /\ \A q \in Requests : pc'[q] # p[q] => p[q] = "queued" /\ pc'[q] = "granted"
      /\ Cardinality(Placed(pc', PlaceHeld)) = Cardinality(Placed(p, PlaceHeld))
      /\ value' + Cardinality(Placed(pc', UnitHeld)) = v + Cardinality(Placed(p, UnitHeld))
      /\ n <= v => value' >= 0
      /\ \/ \E q \in Requests : pc'[q] = "granted"
         \/ n = 0 /\ value' = v
         \/ \A q \in Requests : pc'[q] # "queued"
  BY <1>1, WakeMoves
<1>3. /\ Cardinality(Placed(pc, PlaceHeld)) \in Nat
      /\ Cardinality(Placed(pc, UnitHeld)) \in Nat
  BY PlacedFinite
<1>4. /\ Cardinality(Placed(p, PlaceHeld)) =
           Cardinality(Placed(pc, PlaceHeld)) + (IF l \in PlaceHeld THEN 1 ELSE 0)
                                     - (IF pc[r] \in PlaceHeld THEN 1 ELSE 0)
      /\ Cardinality(Placed(p, UnitHeld)) =
           Cardinality(Placed(pc, UnitHeld)) + (IF l \in UnitHeld THEN 1 ELSE 0)
                                     - (IF pc[r] \in UnitHeld THEN 1 ELSE 0)
  <2>1. ASSUME NEW S \in {PlaceHeld, UnitHeld}
        PROVE  Cardinality(Placed(p, S)) =
                 Cardinality(Placed(pc, S)) + (IF l \in S THEN 1 ELSE 0)
                                            - (IF pc[r] \in S THEN 1 ELSE 0)
    <3>1. Cardinality(Placed(pc, S)) \in Nat
      BY PlacedFinite
    <3>2. /\ (p[r] \in S <=> pc[r] \in S) => Cardinality(Placed(p, S)) = Cardinality(Placed(pc, S))
          /\ p[r] \in S /\ pc[r] \notin S => Cardinality(Placed(p, S)) = Cardinality(Placed(pc, S)) + 1
          /\ p[r] \notin S /\ pc[r] \in S => Cardinality(Placed(p, S)) = Cardinality(Placed(pc, S)) - 1
      BY <1>0, <1>1b, OneMoves
    <3> QED
      BY <1>1b, <3>1, <3>2
  <2> QED
    BY <2>1
<1>5. /\ l \in PlaceHeld <=> l = "running"
      /\ l \in UnitHeld <=> l = "running"
      /\ pc[r] \in PlaceHeld
  BY DEF PlaceHeld, UnitHeld, InDeque
<1>6. AdmissionCount' /\ WithinCapacity' /\ admitted' \in Nat
  <2>1. admitted' = Cardinality(Placed(pc', PlaceHeld)) /\ admitted' <= admitted
    BY <1>0, <1>1a, <1>1, <1>2, <1>3, <1>4, <1>5
  <2>2. admitted' \in Nat
    BY <2>1, PlacedFinite
  <2>3. admitted' <= Capacity
    BY <1>0, <2>1, <2>2, SchedulerAssumption DEF Capacity
  <2> QED
    BY <2>1, <2>2, <2>3, AtIsPlaced DEF AdmissionCount, WithinCapacity
<1>7. UnitsConserved' /\ value' \in Nat
  <2>1. value' >= 0 /\ value' + Cardinality(Placed(pc', UnitHeld)) = MaximumConcurrency
    BY <1>0, <1>1a, <1>1, <1>2, <1>3, <1>4, <1>5, SchedulerAssumption
  <2> QED
    BY <1>2, <2>1, AtIsPlaced DEF UnitsConserved
<1>8. NoLostWakeup'
  BY <1>1a, <1>2 DEF NoLostWakeup, At
<1>9. /\ pc'[r] = l
      /\ \A q \in Requests \ {r} : pc'[q] # pc[q] => pc[q] = "queued" /\ pc'[q] = "granted"
  BY <1>0, <1>1b, <1>1, <1>2 DEF UnitHeld
<1> QED
  BY <1>2, <1>6, <1>7, <1>8, <1>9

-----------------------------------------------------------------------------
(* Every step preserves the invariant.                                     *)

(* Steps of one request that wake nobody.                                  *)
PlainStep(r) == \/ RunExpired(r) \/ RunSaturated(r) \/ RunAtOnce(r) \/ RunTooLate(r)
                \/ RunQueued(r) \/ Expire(r) \/ Cancel(r) \/ EndJob(r)
                \/ CollectTimeout(r) \/ Defer(r)
                \/ pc[r] = "unqueue" /\ Unwind(r)

(* Steps of one request that may wake others.                              *)
WakingStep(r) == \/ Resume(r) \/ Collect(r) \/ FinishDeferred(r)
                 \/ pc[r] = "ungrant" /\ Unwind(r)

(* Every step either moves one call and wakes nobody, or gives back what   *)
(* a call held and wakes whom it can.                                      *)
LEMMA StepsAreOfTwoKinds ==
  \A r \in Requests :
    Run(r) \/ Expire(r) \/ Cancel(r) \/ Loop(r) \/ EndJob(r) => PlainStep(r) \/ WakingStep(r)
BY DEF Run, Loop, Unwind, PlainStep, WakingStep

(* A step that wakes nobody keeps the invariant.                           *)
LEMMA PlainStepPreserves ==
  ASSUME IInv, NEW r \in Requests, PlainStep(r)
  PROVE  IInv'
<1> USE DEF IInv, TypeOK
<1>1. /\ AdmissionCount' /\ WithinCapacity' /\ UnitsConserved'
      /\ admitted' \in Nat /\ value' \in Nat
  <2>0. /\ AdmissionCount /\ admitted <= Capacity /\ UnitsConserved /\ value >= 0
        /\ pc[r] \in Locations /\ Capacity \in Int
    BY SchedulerAssumption DEF UnitsConserved, Capacity, WithinCapacity
  <2>1. CASE UNCHANGED <<admitted, value, pc>>
    BY <2>0, <2>1 DEF AdmissionCount, WithinCapacity, UnitsConserved, At
  <2>2. CASE ~ UNCHANGED <<admitted, value, pc>>
    <3>1. PICK l \in Locations : pc' = [pc EXCEPT ![r] = l] /\
            /\ admitted' = admitted + (IF l \in PlaceHeld THEN 1 ELSE 0)
                                    - (IF pc[r] \in PlaceHeld THEN 1 ELSE 0)
            /\ value' = value - (IF l \in UnitHeld THEN 1 ELSE 0)
                              + (IF pc[r] \in UnitHeld THEN 1 ELSE 0)
            /\ value' >= 0 /\ admitted' <= Capacity
      <4>1. CASE RunExpired(r) \/ RunSaturated(r) \/ RunTooLate(r)
        BY <4>1, <2>0, "done" \in Locations
           DEF RunExpired, RunSaturated, RunTooLate, Locations, PlaceHeld, InDeque, UnitHeld
      <4>2. CASE RunAtOnce(r)
        BY <4>2, <2>0, "running" \in Locations
           DEF RunAtOnce, Locked, Locations, PlaceHeld, InDeque, UnitHeld
      <4>3. CASE RunQueued(r)
        BY <4>3, <2>0, "queued" \in Locations DEF RunQueued, Locations, PlaceHeld, InDeque, UnitHeld
      <4>4. CASE Expire(r) \/ Cancel(r)
        <5>1. pc[r] \in {"queued", "granted", "running"} /\ pc' = [pc EXCEPT ![r] = Marked(r)]
          BY <2>2, <4>4 DEF Expire, Cancel
        <5>2. UNCHANGED <<admitted, value>>
          BY <4>4 DEF Expire, Cancel
        <5>3. /\ Marked(r) \in PlaceHeld /\ pc[r] \in PlaceHeld
              /\ Marked(r) \in UnitHeld <=> pc[r] \in UnitHeld
          BY <5>1 DEF Marked, Locations, PlaceHeld, InDeque, UnitHeld
        <5>4. Marked(r) \in Locations
          BY <5>1 DEF Marked, Locations, PlaceHeld, InDeque, UnitHeld
        <5>5. /\ admitted' = admitted + (IF Marked(r) \in PlaceHeld THEN 1 ELSE 0)
                                      - (IF pc[r] \in PlaceHeld THEN 1 ELSE 0)
              /\ value' = value - (IF Marked(r) \in UnitHeld THEN 1 ELSE 0)
                                + (IF pc[r] \in UnitHeld THEN 1 ELSE 0)
              /\ value' >= 0 /\ admitted' <= Capacity
          BY <2>0, <5>2, <5>3
        <5> USE <5>4
        <5> WITNESS Marked(r) \in Locations
        <5> QED
          BY <5>1, <5>5
      <4>5. CASE EndJob(r)
        BY <2>2, <4>5 DEF EndJob
      <4>6. CASE CollectTimeout(r) \/ Defer(r)
        BY <4>6, <2>0, "deferred" \in Locations
           DEF CollectTimeout, Defer, Locations, PlaceHeld, InDeque, UnitHeld
      <4>7. CASE pc[r] = "unqueue" /\ Unwind(r)
        BY <4>7, <2>0, "done" \in Locations
           DEF Unwind, Locations, PlaceHeld, InDeque, UnitHeld
      <4> QED
        BY <4>1, <4>2, <4>3, <4>4, <4>5, <4>6, <4>7 DEF PlainStep
    <3>2. /\ pc' \in [Requests -> Locations] /\ pc'[r] = l
          /\ \A x \in Requests \ {r} : pc'[x] = pc[x]
      BY <3>1
    <3> QED
      BY <3>1, <3>2, PlainMove
  <2> QED
    BY <2>1, <2>2
<1>2. TypeOK'
  BY <1>1 DEF PlainStep, RunExpired, RunSaturated, RunAtOnce, RunTooLate, RunQueued, Join, Expire,
         Cancel, Marked, EndJob, CollectTimeout, Defer, Unwind, Leave, Locations, PlaceHeld,
         UnitHeld, InDeque, Jobs, JobResults, Replies
<1>3. ThreadHoldsCapacity'
  BY DEF ThreadHoldsCapacity, PlainStep, RunExpired, RunSaturated, RunAtOnce, RunTooLate, RunQueued,
         Expire, Cancel, Marked, EndJob, CollectTimeout, Defer, Unwind, Jobs, JobResults
<1>4. Answered'
  BY DEF Answered, PlainStep, RunExpired, RunSaturated, RunAtOnce, RunTooLate, RunQueued,
         Expire, Cancel, Marked, EndJob, CollectTimeout, Defer, Unwind
<1>5. NoLostWakeup'
  BY DEF NoLostWakeup, At, Locked, PlainStep, RunExpired, RunSaturated, RunAtOnce, RunTooLate,
         RunQueued, Expire, Cancel, Marked, EndJob, CollectTimeout, Defer, Unwind
<1> QED
  BY <1>1, <1>2, <1>3, <1>4, <1>5

(* What a waking step does: r goes to l and wakes up to n waiters.         *)
WakesUp(r, l, n) ==
  /\ pc[r] \in UnitHeld
  /\ Wake([pc EXCEPT ![r] = l], value + (IF l = "done" THEN 1 ELSE 0), n)
  /\ n <= value + (IF l = "done" THEN 1 ELSE 0)
  /\ n = 0 => value = 0 /\ l = "running"
  /\ admitted' = admitted - (IF l = "done" THEN 1 ELSE 0)
  /\ l = "running" => /\ pc[r] = "granted"
                      /\ job' = [job EXCEPT ![r] = "executing"]
                      /\ reply' = reply
  /\ l = "done" => /\ job[r] # "executing"
                   /\ job' = job
                   /\ reply' \in [Requests -> Replies] /\ reply'[r] # "none"
                   /\ \A q \in Requests \ {r} : reply'[q] = reply[q]
  /\ Leave(r) \/ ahead' = ahead
  /\ exc' = exc

(* A step that wakes waiters takes its own call to work or out, and wakes  *)
(* two at most.                                                            *)
LEMMA WakingStepWakesUp ==
  ASSUME IInv, NEW r \in Requests, WakingStep(r)
  PROVE  \E l \in {"running", "done"}, n \in 0..2 : WakesUp(r, l, n)
<1>0. /\ value \in Nat /\ admitted \in Int /\ pc \in [Requests -> Locations]
      /\ reply \in [Requests -> Replies] /\ job \in [Requests -> Jobs]
      /\ exc \in [Requests -> {"none", "deadline", "cancelled"}]
      /\ job[r] = "executing" => pc[r] \in {"running", "leaving", "deferred"}
      /\ pc[r] = "ungrant" => exc[r] # "none"
      /\ pc[r] = "deferred" => reply[r] # "none"
      /\ admitted - 0 = admitted /\ value + 0 = value
  BY DEF IInv, TypeOK, UnitsConserved, ThreadHoldsCapacity, Answered
<1>1. CASE ResumeStart(r)
  <2>1. WakesUp(r, "running", IF value > 0 THEN 1 ELSE 0)
    BY <1>0, <1>1 DEF ResumeStart, PassOn, WakesUp, UnitHeld
  <2> QED
    BY <2>1
<1>2. CASE ResumeTooLate(r)
  <2>1. WakesUp(r, "done", IF value > 0 THEN 2 ELSE 1)
    BY <1>0, <1>2 DEF ResumeTooLate, WakesUp, UnitHeld, Replies
  <2> QED
    BY <2>1
<1>3. CASE Collect(r)
  <2>1. WakesUp(r, "done", 1)
    BY <1>0, <1>3 DEF Collect, Release, WakesUp, UnitHeld, Replies
  <2> QED
    BY <2>1
<1>4. CASE FinishDeferred(r)
  <2>1. WakesUp(r, "done", 1)
    BY <1>0, <1>4 DEF FinishDeferred, Release, WakesUp, UnitHeld, JobResults
  <2> QED
    BY <2>1
<1>5. CASE pc[r] = "ungrant" /\ Unwind(r)
  <2>1. WakesUp(r, "done", 1)
    BY <1>0, <1>5 DEF Unwind, Release, WakesUp, UnitHeld, Replies
  <2> QED
    BY <2>1
<1> QED
  BY <1>1, <1>2, <1>3, <1>4, <1>5 DEF WakingStep, Resume

(* A step that wakes waiters keeps the invariant.                          *)
LEMMA WakingStepPreserves ==
  ASSUME IInv, NEW r \in Requests, WakingStep(r)
  PROVE  IInv'
<1>1. PICK l \in {"running", "done"}, n \in 0..2 : WakesUp(r, l, n)
  BY WakingStepWakesUp
<1>2. /\ AdmissionCount' /\ WithinCapacity' /\ UnitsConserved' /\ NoLostWakeup'
      /\ pc' \in [Requests -> Locations] /\ value' \in Nat /\ admitted' \in Nat
      /\ pc'[r] = l
      /\ \A q \in Requests \ {r} : pc'[q] # pc[q] => pc[q] = "queued" /\ pc'[q] = "granted"
  BY <1>1, WakingMove DEF WakesUp
<1>3. TypeOK'
  BY <1>1, <1>2 DEF WakesUp, IInv, TypeOK, Leave, Jobs
<1>4. ThreadHoldsCapacity'
  BY <1>1, <1>2 DEF WakesUp, UnitHeld, IInv, TypeOK, ThreadHoldsCapacity
<1>5. Answered'
  BY <1>1, <1>2 DEF WakesUp, UnitHeld, IInv, TypeOK, Answered
<1> QED
  BY <1>2, <1>3, <1>4, <1>5 DEF IInv

(* Every step keeps the invariant.                                         *)
LEMMA StepPreserves == IInv /\ [Next]_vars => IInv'
<1> SUFFICES ASSUME IInv, [Next]_vars PROVE IInv'
  OBVIOUS
<1>1. CASE Next
  BY <1>1, StepsAreOfTwoKinds, PlainStepPreserves, WakingStepPreserves DEF Next
<1>2. CASE UNCHANGED vars
  BY <1>2 DEF vars, IInv, TypeOK, AdmissionCount, WithinCapacity, UnitsConserved,
              ThreadHoldsCapacity, NoLostWakeup, Answered, At
<1> QED
  BY <1>1, <1>2

-----------------------------------------------------------------------------
(* The theorems.                                                           *)

(* The invariant holds for ever.                                           *)
LEMMA Invariance == Spec => []IInv
BY InitEstablishes, StepPreserves, PTL DEF Spec

(* The state of the scheduler is always one its code can be in.            *)
THEOREM TypeCorrect == Spec => []TypeOK
BY Invariance, PTL DEF IInv

(* _admitted never leaks and is never given back twice.                    *)
THEOREM AdmissionIsCounted == Spec => []AdmissionCount
BY Invariance, PTL DEF IInv

(* No unit of the semaphore is lost or made up.                            *)
THEOREM UnitsAreConserved == Spec => []UnitsConserved
BY Invariance, PTL DEF IInv

(* An abandoned thread keeps its capacity until it ends.                   *)
THEOREM ThreadsHoldCapacity == Spec => []ThreadHoldsCapacity
BY Invariance, PTL DEF IInv

(* Waiting calls and a free unit coexist only while a grant is on its way. *)
THEOREM WakeupsAreNotLost == Spec => []NoLostWakeup
BY Invariance, PTL DEF IInv

(* No more than maximum_concurrency operations execute at any time.        *)
THEOREM ConcurrencyIsBounded == Spec => []ConcurrencyBound
<1>1. IInv => ConcurrencyBound
  <2> SUFFICES ASSUME IInv PROVE ConcurrencyBound
    OBVIOUS
  <2> DEFINE executing == {r \in Requests : job[r] = "executing"}
  <2>1. executing \in SUBSET Placed(pc, UnitHeld)
    BY DEF IInv, ThreadHoldsCapacity, Placed, UnitHeld
  <2>2. /\ IsFiniteSet(Placed(pc, UnitHeld)) /\ Cardinality(Placed(pc, UnitHeld)) \in Nat
        /\ Cardinality(executing) <= Cardinality(Placed(pc, UnitHeld))
        /\ Cardinality(executing) \in Nat
    BY <2>1, PlacedFinite, FS_Subset, FS_CardinalityType
  <2>3. value \in Int /\ value >= 0 /\ value + Cardinality(Placed(pc, UnitHeld)) = MaximumConcurrency
    BY AtIsPlaced DEF IInv, TypeOK, UnitsConserved
  <2> QED
    BY <2>2, <2>3, SchedulerAssumption DEF ConcurrencyBound
<1> QED
  BY <1>1, Invariance, PTL

(* No more than maximum_queue_size calls wait, once no grant is pending.   *)
THEOREM QueueIsBounded == Spec => []QueueBound
<1>1. IInv => QueueBound
  <2> SUFFICES ASSUME IInv, At({"granted", "ungrant"}) = {}
               PROVE  Cardinality(At({"queued"})) <= MaximumQueueSize
    BY DEF QueueBound
  <2> DEFINE waiting == Placed(pc, {"queued"})
             holding == Placed(pc, UnitHeld)
  <2>0. /\ IsFiniteSet(waiting) /\ Cardinality(waiting) \in Nat
        /\ IsFiniteSet(holding) /\ Cardinality(holding) \in Nat
        /\ IsFiniteSet(Placed(pc, PlaceHeld)) /\ Cardinality(Placed(pc, PlaceHeld)) \in Nat
    BY PlacedFinite
  <2>1. CASE waiting = {}
    BY <2>1, AtIsPlaced, FS_EmptySet, SchedulerAssumption
  <2>2. CASE waiting # {}
    <3>1. value = 0
      BY <2>2, AtIsPlaced DEF IInv, TypeOK, UnitsConserved, NoLostWakeup
    <3>2. Cardinality(holding) = MaximumConcurrency
      BY <2>0, <3>1, AtIsPlaced DEF IInv, UnitsConserved
    <3>3. Cardinality(waiting \cup holding) = Cardinality(waiting) + Cardinality(holding)
      <4>1. Cardinality(waiting \cap holding) = 0
        <5>1. waiting \cap holding = {}
          BY DEF Placed, UnitHeld
        <5> QED
          BY <5>1, FS_EmptySet
      <4>2. Cardinality(waiting \cup holding) =
              Cardinality(waiting) + Cardinality(holding) - Cardinality(waiting \cap holding)
        BY <2>0, FS_Union
      <4> QED
        BY <2>0, <4>1, <4>2
    <3>4. (waiting \cup holding) \in SUBSET Placed(pc, PlaceHeld)
      BY DEF Placed, PlaceHeld, InDeque
    <3>5. Cardinality(waiting \cup holding) <= Cardinality(Placed(pc, PlaceHeld))
      BY <2>0, <3>4, FS_Subset
    <3>6. Cardinality(Placed(pc, PlaceHeld)) <= MaximumConcurrency + MaximumQueueSize
      BY AtIsPlaced DEF IInv, AdmissionCount, WithinCapacity, Capacity
    <3>7. Cardinality(waiting) <= MaximumQueueSize
      BY <2>0, <3>2, <3>3, <3>5, <3>6, SchedulerAssumption
    <3> QED
      BY <3>7, AtIsPlaced
  <2> QED
    BY <2>1, <2>2
<1> QED
  BY <1>1, Invariance, PTL

(* Both bounds on the capacity hold at any time.                           *)
THEOREM CapacityIsBounded == Spec => []CapacityBounds
<1>1. ConcurrencyBound /\ QueueBound => CapacityBounds
  BY DEF CapacityBounds
<1> QED
  BY <1>1, ConcurrencyIsBounded, QueueIsBounded, PTL

-----------------------------------------------------------------------------
(* BoundedScheduler implements AdmissionControl.                           *)

(* A step that moves r from one kind of place to kind, the waiters it wakes*)
(* staying in the queue, changes the abstract place of r alone.            *)
LEMMA PlaceMoves ==
  ASSUME IInv, NEW r \in Requests, NEW kind \in {"queue", "work", "outside"},
         pc' \in [Requests -> Locations],
         \A q \in Requests \ {r} : pc'[q] # pc[q] => pc[q] = "queued" /\ pc'[q] = "granted",
         kind = "queue" <=> pc'[r] \in InDeque,
         kind = "work" <=> pc'[r] \in AtWork
  PROVE  Place' = [Place EXCEPT ![r] = kind]
<1>1. ASSUME NEW q \in Requests PROVE Place'[q] = IF q = r THEN kind ELSE Place[q]
  <2>1. CASE q = r
    BY <2>1 DEF Place, InDeque, AtWork
  <2>2. CASE q # r
    BY <2>2 DEF Place, InDeque, AtWork
  <2> QED
    BY <2>1, <2>2
<1> QED
  BY <1>1 DEF Place

(* The instance brings its own copy of Cardinality.                        *)
LEMMA SameCardinality == \A S : Abstract!Cardinality(S) = Cardinality(S)
BY DEF Abstract!Cardinality, Cardinality

(* The abstract counts, in terms of the concrete ones.                     *)
LEMMA PlacesCounted ==
  ASSUME IInv
  PROVE  /\ Cardinality(Abstract!Inside) = admitted
         /\ \A r \in Requests : value > 0 \/ pc[r] = "granted" =>
               Cardinality(Abstract!Held("work")) < MaximumConcurrency
<1>1. Cardinality(Abstract!Inside) = admitted
  <2>1. Abstract!Inside = At(PlaceHeld)
    BY DEF Abstract!Inside, At, Place, PlaceHeld, UnitHeld, InDeque, AtWork
  <2> QED
    BY <2>1 DEF IInv, AdmissionCount
<1>2. ASSUME NEW r \in Requests, value > 0 \/ pc[r] = "granted"
      PROVE  Cardinality(Abstract!Held("work")) < MaximumConcurrency
  <2> DEFINE holding == Placed(pc, UnitHeld)
             working == Abstract!Held("work")
  <2>1. /\ IsFiniteSet(holding) /\ Cardinality(holding) \in Nat
        /\ value \in Nat /\ value + Cardinality(holding) = MaximumConcurrency
    BY PlacedFinite, AtIsPlaced DEF IInv, TypeOK, UnitsConserved
  <2>2. working \in SUBSET holding
    BY DEF Abstract!Held, Place, Placed, UnitHeld, AtWork
  <2>3. IsFiniteSet(working) /\ Cardinality(working) <= Cardinality(holding)
    BY <2>1, <2>2, FS_Subset
  <2>4. Cardinality(working) \in Nat
    BY <2>3, FS_CardinalityType
  <2>5. CASE value > 0
    BY <2>1, <2>3, <2>4, <2>5, SchedulerAssumption
  <2>6. CASE pc[r] = "granted"
    <3>1. r \in holding /\ r \notin working
      BY <2>6 DEF Abstract!Held, Place, Placed, UnitHeld, InDeque
    <3>2. Cardinality(working) # Cardinality(holding)
      BY <2>1, <2>2, <3>1, FS_Subset
    <3> QED
      BY <2>1, <2>3, <2>4, <3>2, SchedulerAssumption
  <2> QED
    BY <1>2, <2>5, <2>6
<1> QED
  BY <1>1, <1>2

(* The scheduler begins as the promise does.                               *)
LEMMA InitImplements == Init => Abstract!AInit
BY DEF Init, Abstract!AInit, Place, InDeque, AtWork

(* A waking step moves r, and some waiters from queued to granted.         *)
LEMMA WakingStepMoves ==
  ASSUME IInv, NEW r \in Requests, WakingStep(r)
  PROVE  /\ pc' \in [Requests -> Locations]
         /\ pc'[r] = IF job'[r] = "executing" THEN "running" ELSE "done"
         /\ \A q \in Requests \ {r} : pc'[q] # pc[q] => pc[q] = "queued" /\ pc'[q] = "granted"
<1>1. PICK l \in {"running", "done"}, n \in 0..2 : WakesUp(r, l, n)
  BY WakingStepWakesUp
<1>2. /\ pc' \in [Requests -> Locations]
      /\ pc'[r] = l
      /\ \A q \in Requests \ {r} : pc'[q] # pc[q] => pc[q] = "queued" /\ pc'[q] = "granted"
  BY <1>1, WakingMove DEF WakesUp
<1>3. l = "running" <=> job'[r] = "executing"
  BY <1>1 DEF WakesUp, IInv, TypeOK
<1> QED
  BY <1>2, <1>3

(* Every step of the scheduler is a step of the promise, or changes        *)
(* nothing the promise knows of.                                           *)
LEMMA StepImplements ==
  ASSUME IInv, NEW r \in Requests,
         Run(r) \/ Expire(r) \/ Cancel(r) \/ Loop(r) \/ EndJob(r)
  PROVE  Abstract!ANext \/ UNCHANGED Abstract!avars
<1> DEFINE Moves(l) == /\ pc' \in [Requests -> Locations]
                       /\ pc'[r] = l
                       /\ \A q \in Requests \ {r} :
                            pc'[q] # pc[q] => pc[q] = "queued" /\ pc'[q] = "granted"
<1>0. /\ pc \in [Requests -> Locations] /\ reply \in [Requests -> Replies] /\ admitted \in Int
      /\ value \in Nat /\ job \in [Requests -> Jobs]
      /\ exc \in [Requests -> {"none", "deadline", "cancelled"}]
      /\ admitted <= Capacity /\ Capacity \in Int
      /\ pc[r] \in {"unqueue", "ungrant", "leaving"} => exc[r] \in {"deadline", "cancelled"}
      /\ reply[r] = "none" <=> pc[r] \notin {"done", "deferred"}
      /\ job[r] = "executing" => pc[r] \in {"running", "leaving", "deferred"}
  BY SchedulerAssumption
     DEF IInv, TypeOK, UnitsConserved, WithinCapacity, Answered, ThreadHoldsCapacity, Capacity
<1>1. Place[r] = IF pc[r] \in InDeque THEN "queue" ELSE IF pc[r] \in AtWork THEN "work" ELSE "outside"
  BY DEF Place
<1> USE DEF Abstract!Open
<1>2. CASE RunExpired(r) \/ RunTooLate(r)
  <2>1. Moves("done") /\ pc[r] = "idle"
    BY <1>0, <1>2 DEF RunExpired, RunTooLate, Locations
  <2>2. Place' = [Place EXCEPT ![r] = "outside"]
    BY <2>1, PlaceMoves DEF InDeque, AtWork
  <2>3. Place' = Place
    BY <1>1, <2>1, <2>2 DEF InDeque, AtWork, Place
  <2>4. Abstract!ATooLate(r)
    BY <1>0, <1>1, <1>2, <2>1, <2>3 DEF RunExpired, RunTooLate, Abstract!ATooLate, InDeque, AtWork
  <2> QED
    BY <2>4 DEF Abstract!ANext
<1>3. CASE RunSaturated(r)
  <2>1. Moves("done") /\ pc[r] = "idle" /\ admitted = MaximumConcurrency + MaximumQueueSize
    BY <1>0, <1>3 DEF RunSaturated, Locations, Capacity
  <2>2. Place' = [Place EXCEPT ![r] = "outside"]
    BY <2>1, PlaceMoves DEF InDeque, AtWork
  <2>3. Place' = Place
    BY <1>1, <2>1, <2>2 DEF InDeque, AtWork, Place
  <2>4. Abstract!Cardinality(Abstract!Inside) = MaximumConcurrency + MaximumQueueSize
    BY <2>1, PlacesCounted, SameCardinality
  <2>5. Abstract!ARefuse(r)
    BY <1>0, <1>1, <1>3, <2>1, <2>3, <2>4
       DEF RunSaturated, Abstract!ARefuse, InDeque, AtWork
  <2> QED
    BY <2>5 DEF Abstract!ANext
<1>4. CASE RunAtOnce(r)
  <2>1. /\ Moves("running") /\ pc[r] = "idle" /\ value > 0
        /\ admitted < MaximumConcurrency + MaximumQueueSize
    BY <1>0, <1>4 DEF RunAtOnce, Locked, Locations, PlaceHeld, UnitHeld, Capacity
  <2>2. Place' = [Place EXCEPT ![r] = "work"]
    BY <2>1, PlaceMoves DEF InDeque, AtWork
  <2>3. /\ Abstract!Cardinality(Abstract!Inside) < MaximumConcurrency + MaximumQueueSize
        /\ Abstract!Cardinality(Abstract!Held("work")) < MaximumConcurrency
    BY <2>1, PlacesCounted, SameCardinality
  <2>4. Abstract!AEnter(r)
    BY <1>0, <1>1, <1>4, <2>1, <2>2, <2>3 DEF RunAtOnce, Abstract!AEnter, InDeque, AtWork
  <2> QED
    BY <2>4 DEF Abstract!ANext
<1>5. CASE RunQueued(r)
  <2>1. /\ Moves("queued") /\ pc[r] = "idle"
        /\ admitted < MaximumConcurrency + MaximumQueueSize
    BY <1>0, <1>5 DEF RunQueued, Locations, PlaceHeld, InDeque, Capacity
  <2>2. Place' = [Place EXCEPT ![r] = "queue"]
    BY <2>1, PlaceMoves DEF InDeque, AtWork
  <2>3. Abstract!Cardinality(Abstract!Inside) < MaximumConcurrency + MaximumQueueSize
    BY <2>1, PlacesCounted, SameCardinality
  <2>4. Abstract!AEnter(r)
    BY <1>0, <1>1, <1>5, <2>1, <2>2, <2>3 DEF RunQueued, Abstract!AEnter, InDeque, AtWork
  <2> QED
    BY <2>4 DEF Abstract!ANext
<1>6. CASE ResumeStart(r)
  <2>1. Moves("running") /\ pc[r] = "granted"
    BY <1>0, <1>6, WakingStepMoves DEF WakingStep, Resume, ResumeStart
  <2>2. Place' = [Place EXCEPT ![r] = "work"]
    BY <2>1, PlaceMoves DEF InDeque, AtWork
  <2>3. Abstract!Cardinality(Abstract!Held("work")) < MaximumConcurrency
    BY <2>1, PlacesCounted, SameCardinality
  <2>4. Abstract!AStart(r)
    BY <1>0, <1>1, <1>6, <2>1, <2>2, <2>3 DEF ResumeStart, Abstract!AStart, InDeque
  <2> QED
    BY <2>4 DEF Abstract!ANext
<1>7. CASE ResumeTooLate(r)
  <2>1. Moves("done") /\ pc[r] = "granted"
    BY <1>0, <1>7, WakingStepMoves DEF WakingStep, Resume, ResumeTooLate
  <2>2. Place' = [Place EXCEPT ![r] = "outside"]
    BY <2>1, PlaceMoves DEF InDeque, AtWork
  <2>3. Abstract!AGiveUp(r)
    BY <1>0, <1>1, <1>7, <2>1, <2>2 DEF ResumeTooLate, Abstract!AGiveUp, InDeque, Place
  <2> QED
    BY <2>3 DEF Abstract!ANext
<1>8. CASE Expire(r) \/ Cancel(r) \/ EndJob(r)
  <2>1. /\ pc' \in [Requests -> Locations] /\ \A q \in Requests \ {r} : pc'[q] = pc[q]
        /\ pc[r] \in InDeque <=> pc'[r] \in InDeque
        /\ pc[r] \in AtWork <=> pc'[r] \in AtWork
    BY <1>0, <1>8 DEF Expire, Cancel, EndJob, Marked, Locations, PlaceHeld, InDeque, UnitHeld, AtWork
  <2>2. Place' = Place
    BY <2>1 DEF Place
  <2>3. reply' = reply
    BY <1>8 DEF Expire, Cancel, EndJob
  <2> QED
    BY <2>2, <2>3 DEF Abstract!avars
<1>9. CASE Unwind(r)
  <2>1. Moves("done") /\ pc[r] \in {"unqueue", "ungrant"}
    <3>1. CASE pc[r] = "unqueue"
      BY <1>0, <1>9, <3>1 DEF Unwind, Locations
    <3>2. CASE pc[r] = "ungrant"
      BY <1>0, <1>9, <3>2, WakingStepMoves DEF WakingStep, Unwind
    <3> QED
      BY <1>9, <3>1, <3>2 DEF Unwind
  <2>2. Place' = [Place EXCEPT ![r] = "outside"]
    BY <2>1, PlaceMoves DEF InDeque, AtWork
  <2>3. Abstract!AGiveUp(r)
    BY <1>0, <1>1, <1>9, <2>1, <2>2 DEF Unwind, Abstract!AGiveUp, InDeque, Place
  <2> QED
    BY <2>3 DEF Abstract!ANext
<1>10. CASE Collect(r)
  <2>1. Moves("done") /\ pc[r] = "running"
    BY <1>0, <1>10, WakingStepMoves DEF WakingStep, Resume, Collect
  <2>2. Place' = [Place EXCEPT ![r] = "outside"]
    BY <2>1, PlaceMoves DEF InDeque, AtWork
  <2>3. Abstract!AAnswer(r)
    BY <1>0, <1>1, <1>10, <2>1, <2>2 DEF Collect, Abstract!AAnswer, InDeque, AtWork
  <2> QED
    BY <2>3 DEF Abstract!ANext
<1>11. CASE CollectTimeout(r) \/ Defer(r)
  <2>1. Moves("deferred") /\ pc[r] \in {"running", "leaving"}
    BY <1>0, <1>11 DEF CollectTimeout, Defer, Locations, PlaceHeld, UnitHeld
  <2>2. Place' = [Place EXCEPT ![r] = "work"]
    BY <2>1, PlaceMoves DEF InDeque, AtWork
  <2>3. Abstract!AGiveUp(r)
    BY <1>0, <1>1, <1>11, <2>1, <2>2
       DEF CollectTimeout, Defer, Abstract!AGiveUp, InDeque, AtWork, Place
  <2> QED
    BY <2>3 DEF Abstract!ANext
<1>12. CASE FinishDeferred(r)
  <2>1. Moves("done") /\ pc[r] = "deferred"
    BY <1>0, <1>12, WakingStepMoves DEF WakingStep, Resume, FinishDeferred, JobResults
  <2>2. Place' = [Place EXCEPT ![r] = "outside"]
    BY <2>1, PlaceMoves DEF InDeque, AtWork
  <2>3. Abstract!AReclaim(r)
    BY <1>0, <1>1, <1>12, <2>1, <2>2 DEF FinishDeferred, Abstract!AReclaim, InDeque, AtWork
  <2> QED
    BY <2>3 DEF Abstract!ANext
<1> QED
  BY <1>2, <1>3, <1>4, <1>5, <1>6, <1>7, <1>8, <1>9, <1>10, <1>11, <1>12 DEF Run, Loop, Resume

(* Every behaviour of the scheduler is one the promise allows.             *)
THEOREM Implementation == Spec => ImplementsAdmission
<1>1. ASSUME IInv, [Next]_vars PROVE [Abstract!ANext]_Abstract!avars
  <2>1. CASE Next
    BY <1>1, <2>1, StepImplements DEF Next
  <2>2. CASE UNCHANGED vars
    BY <2>2 DEF vars, Abstract!avars, Place
  <2> QED
    BY <1>1, <2>1, <2>2
<1> QED
  BY <1>1, InitImplements, Invariance, PTL DEF Spec, ImplementsAdmission, Abstract!ASpec

-----------------------------------------------------------------------------
(* First come first served.                                                *)

(* The deque is a line: of two calls in it one is ahead of the other, only *)
(* calls in it are in line, and a grant is never behind a waiting call.    *)
Line ==
  \A r, q \in Requests :
    /\ r \in ahead[q] => pc[q] \in InDeque
    /\ pc[r] \in InDeque /\ pc[q] \in InDeque /\ r # q => r \in ahead[q] \/ q \in ahead[r]
    /\ pc[r] \in {"granted", "ungrant"} /\ pc[q] = "queued" => r \in ahead[q]

(* Waking takes the calls at the front of the line.                        *)
LEMMA FrontIsGranted ==
  ASSUME IInv, Line, NEW r \in Requests, NEW l \in {"running", "done"}, NEW v \in Int,
         NEW n \in Nat, pc[r] \in UnitHeld, Wake([pc EXCEPT ![r] = l], v, n)
  PROVE  \A w, q \in Requests :
           pc[w] = "queued" /\ pc'[w] = "granted" /\ pc'[q] = "queued" => w \in ahead[q]
<1> DEFINE p == [pc EXCEPT ![r] = l]
<1>0. pc \in [Requests -> Locations]
  BY DEF IInv, TypeOK
<1>1. PICK G \in SUBSET Queued(p) :
        /\ \A w \in G : ahead[w] \cap Queued(p) \subseteq G
        /\ pc' = [q \in Requests |-> IF q \in G THEN "granted" ELSE p[q]]
  BY DEF Wake
<1>2. Queued(p) = {q \in Requests : pc[q] = "queued"}
  BY <1>0 DEF Queued, UnitHeld
<1>3. ASSUME NEW w \in Requests, NEW q \in Requests,
             pc[w] = "queued", pc'[w] = "granted", pc'[q] = "queued"
      PROVE  w \in ahead[q]
  <2>1. w \in G
    BY <1>0, <1>1, <1>3 DEF UnitHeld
  <2>2. q \in Queued(p) /\ q \notin G /\ pc[q] = "queued"
    BY <1>0, <1>1, <1>2, <1>3 DEF Queued
  <2>3. q \notin ahead[w]
    BY <1>1, <2>1, <2>2
  <2> QED
    BY <1>3, <2>1, <2>2, <2>3 DEF Line, InDeque
<1> QED
  BY <1>3

(* The deque remains a line, with the grants in front.                     *)
LEMMA LinePreserved ==
  ASSUME IInv, Line, NEW r \in Requests, PlainStep(r) \/ WakingStep(r)
  PROVE  Line'
<1>0. /\ pc \in [Requests -> Locations] /\ ahead \in [Requests -> SUBSET Requests]
  BY DEF IInv, TypeOK
<1>1. CASE PlainStep(r)
  BY <1>0, <1>1
     DEF Line, PlainStep, RunExpired, RunSaturated, RunAtOnce, RunTooLate, RunQueued, Join, Expire,
         Cancel, Marked, EndJob, CollectTimeout, Defer, Unwind, Leave, InDeque
<1>2. CASE WakingStep(r)
  <2>1. PICK l \in {"running", "done"}, n \in 0..2 : WakesUp(r, l, n)
    BY <1>2, WakingStepWakesUp
  <2>2. /\ pc'[r] = l /\ pc' \in [Requests -> Locations]
        /\ \A q \in Requests \ {r} : pc'[q] # pc[q] => pc[q] = "queued" /\ pc'[q] = "granted"
    BY <2>1, WakingMove DEF WakesUp
  <2>3. \A w, q \in Requests :
           pc[w] = "queued" /\ pc'[w] = "granted" /\ pc'[q] = "queued" => w \in ahead[q]
    <3>1. value + (IF l = "done" THEN 1 ELSE 0) \in Int /\ n \in Nat
      BY DEF IInv, TypeOK
    <3> QED
      BY <2>1, <3>1, FrontIsGranted DEF WakesUp
  <2>4. CASE Leave(r)
    BY <1>0, <2>2, <2>3, <2>4 DEF Line, Leave, InDeque
  <2>5. CASE ahead' = ahead /\ pc[r] \notin InDeque
    BY <1>0, <2>2, <2>3, <2>5 DEF Line, InDeque
  <2>6. Leave(r) \/ (ahead' = ahead /\ pc[r] \notin InDeque)
    BY <1>2 DEF WakingStep, Resume, ResumeStart, ResumeTooLate, Collect, FinishDeferred, Unwind, InDeque
  <2> QED
    BY <2>4, <2>5, <2>6
<1> QED
  BY <1>1, <1>2

(* No call gets to work past one that was in the queue before it.          *)
THEOREM FirstComeFirstServed == Spec => NoOvertaking
<1> DEFINE Fair == \A r, q \in Requests :
                     /\ pc[r] # "running" /\ pc'[r] = "running" /\ pc[q] = "queued" /\ pc'[q] = "queued"
                     => r \in ahead[q]
<1>1. Init => Line
  BY DEF Init, Line, InDeque
<1>2. ASSUME IInv, Line, [Next]_vars PROVE Line' /\ [Fair]_vars
  <2>1. CASE UNCHANGED vars
    BY <1>2, <2>1 DEF vars, Line
  <2>2. ASSUME NEW s \in Requests, Run(s) \/ Expire(s) \/ Cancel(s) \/ Loop(s) \/ EndJob(s)
        PROVE  Line' /\ Fair
    <3>1. PlainStep(s) \/ WakingStep(s)
      BY <2>2, StepsAreOfTwoKinds
    <3>2. Line'
      BY <1>2, <3>1, LinePreserved
    <3>3. Fair
      <4>0. pc \in [Requests -> Locations] /\ value >= 0
        BY <1>2 DEF IInv, TypeOK, UnitsConserved
      <4>1. CASE PlainStep(s)
        BY <1>2, <4>0, <4>1
           DEF Line, PlainStep, RunExpired, RunSaturated, RunAtOnce, RunTooLate, RunQueued, Locked,
               Expire, Cancel, Marked, EndJob, CollectTimeout, Defer, Unwind
      <4>2. CASE WakingStep(s)
        <5>1. /\ pc'[s] = IF job'[s] = "executing" THEN "running" ELSE "done"
              /\ \A q \in Requests \ {s} : pc'[q] # pc[q] => pc[q] = "queued" /\ pc'[q] = "granted"
          BY <1>2, <4>2, WakingStepMoves
        <5>2. pc'[s] = "running" => pc[s] = "granted"
          <6>1. PICK l \in {"running", "done"}, n \in 0..2 : WakesUp(s, l, n)
            BY <1>2, <4>2, WakingStepWakesUp
          <6>2. pc'[s] = l
            BY <1>2, <6>1, WakingMove DEF WakesUp
          <6> QED
            BY <6>1, <6>2 DEF WakesUp
        <5> QED
          BY <1>2, <5>1, <5>2 DEF Line
      <4> QED
        BY <3>1, <4>1, <4>2
    <3> QED
      BY <3>2, <3>3
  <2> HIDE DEF Fair
  <2>3. CASE Next
    BY <2>2, <2>3 DEF Next
  <2> QED
    BY <1>2, <2>1, <2>3
<1> QED
  BY <1>1, <1>2, Invariance, PTL DEF Spec, NoOvertaking
=============================================================================
