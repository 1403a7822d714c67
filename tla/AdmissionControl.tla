--------------------------- MODULE AdmissionControl ---------------------------
(***************************************************************************)
(* What BoundedScheduler promises its callers, with the event loop, the    *)
(* semaphore and the worker threads left out.  A request that is let in    *)
(* holds one place out of MaximumConcurrency + MaximumQueueSize, either in *)
(* the queue or at work; it is answered once; and the place of work that   *)
(* has been started is given back only when the work itself is over, even  *)
(* if the caller was answered long before.                                 *)
(***************************************************************************)
EXTENDS Integers, FiniteSets

CONSTANTS Requests, MaximumConcurrency, MaximumQueueSize

VARIABLES place, reply

avars == <<place, reply>>

Held(kind) == {r \in Requests : place[r] = kind}

Inside == {r \in Requests : place[r] # "outside"}

Open(r) == reply[r] = "none"

AInit == /\ place = [r \in Requests |-> "outside"]
         /\ reply = [r \in Requests |-> "none"]

(* Every place is taken: the caller hears so at once.                      *)
ARefuse(r) ==
  /\ Open(r) /\ place[r] = "outside"
  /\ Cardinality(Inside) = MaximumConcurrency + MaximumQueueSize
  /\ reply' = [reply EXCEPT ![r] = "saturated"]
  /\ UNCHANGED place

(* A caller that comes with its deadline already spent takes no place.     *)
ATooLate(r) ==
  /\ Open(r) /\ place[r] = "outside"
  /\ reply' = [reply EXCEPT ![r] = "deadline"]
  /\ UNCHANGED place

AEnter(r) ==
  /\ Open(r) /\ place[r] = "outside"
  /\ Cardinality(Inside) < MaximumConcurrency + MaximumQueueSize
  /\ \E to \in {"queue", "work"} :
       /\ to = "work" => Cardinality(Held("work")) < MaximumConcurrency
       /\ place' = [place EXCEPT ![r] = to]
  /\ UNCHANGED reply

AStart(r) ==
  /\ Open(r) /\ place[r] = "queue"
  /\ Cardinality(Held("work")) < MaximumConcurrency
  /\ place' = [place EXCEPT ![r] = "work"]
  /\ UNCHANGED reply

(* The work ended in time: its result goes to the caller, its place back.  *)
AAnswer(r) ==
  /\ Open(r) /\ place[r] = "work"
  /\ \E v \in {"value", "error"} : reply' = [reply EXCEPT ![r] = v]
  /\ place' = [place EXCEPT ![r] = "outside"]

(* The caller stops waiting.  In the queue it leaves nothing behind; work  *)
(* already started keeps its place until it is reclaimed.                  *)
AGiveUp(r) ==
  /\ Open(r) /\ place[r] # "outside"
  /\ \E v \in {"deadline", "cancelled"} : reply' = [reply EXCEPT ![r] = v]
  /\ place' = [place EXCEPT ![r] = IF @ = "queue" THEN "outside" ELSE @]

AReclaim(r) ==
  /\ ~Open(r) /\ place[r] = "work"
  /\ place' = [place EXCEPT ![r] = "outside"]
  /\ UNCHANGED reply

ANext == \E r \in Requests :
           \/ ARefuse(r) \/ ATooLate(r) \/ AEnter(r) \/ AStart(r)
           \/ AAnswer(r) \/ AGiveUp(r) \/ AReclaim(r)

ASpec == AInit /\ [][ANext]_avars
=============================================================================
