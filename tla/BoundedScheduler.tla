--------------------------- MODULE BoundedScheduler ---------------------------
(***************************************************************************)
(* jah.scheduler.BoundedScheduler: bounded admission of blocking work.     *)
(*                                                                         *)
(* Every request is one call of the coroutine run().  The event loop is    *)
(* single threaded, so a step of the model is what the loop executes       *)
(* between two suspension points; run() is suspended on the semaphore or   *)
(* on the shielded task of asyncio.to_thread.  Timers and cancellations do *)
(* not interrupt a coroutine: they leave an exception that is raised when  *)
(* the loop next resumes it, and other coroutines run in between.  Those   *)
(* windows are the states "unqueue", "ungrant" and "leaving".              *)
(*                                                                         *)
(* The semaphore is asyncio's (CPython 3.12): release() hands the unit     *)
(* directly to the first pending waiter, and acquire() does not overtake   *)
(* waiters.  Its deque is represented by who is ahead of whom in it.       *)
(*                                                                         *)
(* Definitions named Faulty..., Unfair..., Forgotten... and the like stand *)
(* before the one they vary and are bugs the properties have to catch.     *)
(***************************************************************************)
EXTENDS Integers, FiniteSets

CONSTANTS
  Requests,            \* the calls of run(), each made at most once
  MaximumConcurrency,  \* units of the semaphore
  MaximumQueueSize     \* places on top of these

ASSUME SchedulerAssumption ==
  /\ IsFiniteSet(Requests)
  /\ MaximumConcurrency \in Nat \ {0}
  /\ MaximumQueueSize \in Nat

VARIABLES
  admitted,  \* self._admitted
  value,     \* the semaphore's counter
  ahead,     \* the calls whose futures are ahead of this one's in the deque
  pc,        \* where each call of run() is
  exc,       \* the exception waiting to be raised in the coroutine
  job,       \* the task of asyncio.to_thread, or the way it ended
  reply      \* what the caller of run() got

vars == <<admitted, value, ahead, pc, exc, job, reply>>

(* "timeout" is an operation that itself raises TimeoutError.              *)
JobResults == {"value", "error", "timeout"}
Jobs       == {"none", "executing"} \cup JobResults
Replies    == {"none", "value", "error", "saturated", "deadline", "cancelled"}

InDeque   == {"queued", "granted", "unqueue", "ungrant"}
UnitHeld  == {"granted", "ungrant", "running", "leaving", "deferred"}
PlaceHeld == InDeque \cup UnitHeld
Locations == {"idle", "done"} \cup PlaceHeld

Capacity == MaximumConcurrency + MaximumQueueSize

TypeOK ==
  /\ admitted \in Nat
  /\ value \in Nat
  /\ ahead \in [Requests -> SUBSET Requests]
  /\ pc \in [Requests -> Locations]
  /\ exc \in [Requests -> {"none", "deadline", "cancelled"}]
  /\ job \in [Requests -> Jobs]
  /\ reply \in [Requests -> Replies]

Init ==
  /\ admitted = 0
  /\ value = MaximumConcurrency
  /\ ahead = [r \in Requests |-> {}]
  /\ pc = [r \in Requests |-> "idle"]
  /\ exc = [r \in Requests |-> "none"]
  /\ job = [r \in Requests |-> "none"]
  /\ reply = [r \in Requests |-> "none"]

-----------------------------------------------------------------------------
(* The semaphore of asyncio.                                               *)

(* Semaphore.locked(): no unit left, or a future in the deque that has not *)
(* been cancelled, so that a newcomer may not overtake it.                 *)
Locked == \/ value = 0
          \/ \E r \in Requests : pc[r] \in {"queued", "granted", "ungrant"}

Queued(p) == {r \in Requests : p[r] = "queued"}

(* _wake_up_next(), n times: the first n pending futures get a unit each.  *)
(* p and v are pc and value once the coroutine that wakes them has moved.  *)
UnfairWake(p, v, n) ==
  \E G \in SUBSET Queued(p) :
    /\ Cardinality(G) <= n
    /\ Cardinality(G) < n => G = Queued(p)
    /\ pc' = [r \in Requests |-> IF r \in G THEN "granted" ELSE p[r]]
    /\ value' = v - Cardinality(G)

Wake(p, v, n) ==
  \E G \in SUBSET Queued(p) :
    /\ \A w \in G : ahead[w] \cap Queued(p) \subseteq G
    /\ Cardinality(G) <= n
    /\ Cardinality(G) < n => G = Queued(p)
    /\ pc' = [r \in Requests |-> IF r \in G THEN "granted" ELSE p[r]]
    /\ value' = v - Cardinality(G)

Release(p) == Wake(p, value + 1, 1)

Join(r)  == ahead' = [ahead EXCEPT ![r] = {q \in Requests : pc[q] \in InDeque}]

Leave(r) == ahead' = [q \in Requests |-> IF q = r THEN {} ELSE ahead[q] \ {r}]

(* acquire() returns and, if there still is a unit, wakes one more future: *)
(* calls that came while a grant was pending had to queue behind it.       *)
ForgottenPassOn(p) == /\ pc' = p
                      /\ UNCHANGED value

PassOn(p) == Wake(p, value, IF value > 0 THEN 1 ELSE 0)

-----------------------------------------------------------------------------
(* run(), up to its first suspension.                                      *)

RunExpired(r) ==                        \* timeout_seconds <= 0
  /\ pc[r] = "idle"
  /\ pc' = [pc EXCEPT ![r] = "done"]
  /\ reply' = [reply EXCEPT ![r] = "deadline"]
  /\ UNCHANGED <<admitted, value, ahead, exc, job>>

RunSaturated(r) ==
  /\ pc[r] = "idle"
  /\ admitted >= Capacity
  /\ pc' = [pc EXCEPT ![r] = "done"]
  /\ reply' = [reply EXCEPT ![r] = "saturated"]
  /\ UNCHANGED <<admitted, value, ahead, exc, job>>

(* A free unit: acquire() does not suspend, the thread is started at once. *)
RunAtOnce(r) ==
  /\ pc[r] = "idle"
  /\ admitted < Capacity
  /\ ~Locked
  /\ admitted' = admitted + 1
  /\ value' = value - 1
  /\ pc' = [pc EXCEPT ![r] = "running"]
  /\ job' = [job EXCEPT ![r] = "executing"]
  /\ UNCHANGED <<ahead, exc, reply>>

(* The same, but remaining <= 0 once the unit is acquired: the finally     *)
(* clause gives back the unit and the place in the same step.              *)
RunTooLate(r) ==
  /\ pc[r] = "idle"
  /\ admitted < Capacity
  /\ ~Locked
  /\ pc' = [pc EXCEPT ![r] = "done"]
  /\ reply' = [reply EXCEPT ![r] = "deadline"]
  /\ UNCHANGED <<admitted, value, ahead, exc, job>>

FaultyRunQueued(r) ==
  /\ pc[r] = "idle"
  /\ admitted <= Capacity
  /\ Locked
  /\ admitted' = admitted + 1
  /\ Join(r)
  /\ pc' = [pc EXCEPT ![r] = "queued"]
  /\ UNCHANGED <<value, exc, job, reply>>

RunQueued(r) ==
  /\ pc[r] = "idle"
  /\ admitted < Capacity
  /\ Locked
  /\ admitted' = admitted + 1
  /\ Join(r)
  /\ pc' = [pc EXCEPT ![r] = "queued"]
  /\ UNCHANGED <<value, exc, job, reply>>

-----------------------------------------------------------------------------
(* The loop resumes run() after the semaphore future got its result.       *)

ResumeStart(r) ==
  /\ pc[r] = "granted"
  /\ PassOn([pc EXCEPT ![r] = "running"])
  /\ job' = [job EXCEPT ![r] = "executing"]
  /\ Leave(r)
  /\ UNCHANGED <<admitted, exc, reply>>

(* remaining <= 0: acquire() passes on, then the finally clause releases.  *)
ResumeTooLate(r) ==
  /\ pc[r] = "granted"
  /\ Wake([pc EXCEPT ![r] = "done"], value + 1, IF value > 0 THEN 2 ELSE 1)
  /\ admitted' = admitted - 1
  /\ reply' = [reply EXCEPT ![r] = "deadline"]
  /\ Leave(r)
  /\ UNCHANGED <<exc, job>>

-----------------------------------------------------------------------------
(* Timers and cancellation: they only mark the coroutine.                  *)

Marked(r) == CASE pc[r] = "queued"  -> "unqueue"
               [] pc[r] = "granted" -> "ungrant"
               [] pc[r] = "running" -> "leaving"

(* A timer on the queue only.                                             *)
UntimedWork(r) ==
  /\ pc[r] \in {"queued", "granted"}
  /\ pc' = [pc EXCEPT ![r] = Marked(r)]
  /\ exc' = [exc EXCEPT ![r] = "deadline"]
  /\ UNCHANGED <<admitted, value, ahead, job, reply>>

(* The timer of asyncio.wait_for fires.                                    *)
Expire(r) ==
  /\ pc[r] \in {"queued", "granted", "running"}
  /\ pc' = [pc EXCEPT ![r] = Marked(r)]
  /\ exc' = [exc EXCEPT ![r] = "deadline"]
  /\ UNCHANGED <<admitted, value, ahead, job, reply>>

(* The task that awaits run() is cancelled; a cancellation that comes on   *)
(* top of an expired timer wins (asyncio.timeout keeps CancelledError).    *)
Cancel(r) ==
  /\ \/ /\ pc[r] \in {"queued", "granted", "running"}
        /\ pc' = [pc EXCEPT ![r] = Marked(r)]
     \/ /\ pc[r] \in {"unqueue", "ungrant", "leaving"}
        /\ exc[r] = "deadline"
        /\ UNCHANGED pc
  /\ exc' = [exc EXCEPT ![r] = "cancelled"]
  /\ UNCHANGED <<admitted, value, ahead, job, reply>>

(* The exception is raised inside acquire(): a unit that had been granted  *)
(* meanwhile is passed on by acquire() itself, `acquired' is still False,  *)
(* and the finally clause gives the place back.                            *)
FaultyUnwind(r) ==
  /\ pc[r] \in {"unqueue", "ungrant"}
  /\ pc' = [pc EXCEPT ![r] = "done"]
  /\ admitted' = admitted - 1
  /\ reply' = [reply EXCEPT ![r] = exc[r]]
  /\ Leave(r)
  /\ UNCHANGED <<value, exc, job>>

Unwind(r) ==
  /\ \/ /\ pc[r] = "unqueue"
        /\ pc' = [pc EXCEPT ![r] = "done"]
        /\ UNCHANGED value
     \/ /\ pc[r] = "ungrant"
        /\ Release([pc EXCEPT ![r] = "done"])
  /\ admitted' = admitted - 1
  /\ reply' = [reply EXCEPT ![r] = exc[r]]
  /\ Leave(r)
  /\ UNCHANGED <<exc, job>>

-----------------------------------------------------------------------------
(* The shielded task.                                                      *)

(* The worker thread returns from operation(), or operation() raises.      *)
EndJob(r) ==
  /\ job[r] = "executing"
  /\ \E v \in JobResults : job' = [job EXCEPT ![r] = v]
  /\ UNCHANGED <<admitted, value, ahead, pc, exc, reply>>

(* The loop resumes run() with the task's result, in time.                 *)
Collect(r) ==
  /\ pc[r] = "running"
  /\ job[r] \in {"value", "error"}
  /\ Release([pc EXCEPT ![r] = "done"])
  /\ admitted' = admitted - 1
  /\ reply' = [reply EXCEPT ![r] = job[r]]
  /\ UNCHANGED <<ahead, exc, job>>

(* The task raised TimeoutError: handled as if the deadline had expired,   *)
(* the callback on the finished task being scheduled for the next round.   *)
CollectTimeout(r) ==
  /\ pc[r] = "running"
  /\ job[r] = "timeout"
  /\ pc' = [pc EXCEPT ![r] = "deferred"]
  /\ reply' = [reply EXCEPT ![r] = "deadline"]
  /\ UNCHANGED <<admitted, value, ahead, exc, job>>

(* The exception is raised at the shielded task: the caller is answered,   *)
(* the unit and the place stay reserved until _finish_deferred.            *)
UnflaggedDefer(r) ==
  /\ pc[r] = "leaving"
  /\ Release([pc EXCEPT ![r] = "deferred"])
  /\ admitted' = admitted - 1
  /\ reply' = [reply EXCEPT ![r] = exc[r]]
  /\ UNCHANGED <<ahead, exc, job>>

FaultyDefer(r) ==
  /\ pc[r] = "leaving"
  /\ Release([pc EXCEPT ![r] = "done"])
  /\ admitted' = admitted - 1
  /\ reply' = [reply EXCEPT ![r] = exc[r]]
  /\ UNCHANGED <<ahead, exc, job>>

NoCallbackDefer(r) ==
  /\ pc[r] = "leaving"
  /\ IF job[r] = "executing"
     THEN pc' = [pc EXCEPT ![r] = "deferred"]
     ELSE pc' = [pc EXCEPT ![r] = "done"]
  /\ reply' = [reply EXCEPT ![r] = exc[r]]
  /\ UNCHANGED <<admitted, value, ahead, exc, job>>

Defer(r) ==
  /\ pc[r] = "leaving"
  /\ pc' = [pc EXCEPT ![r] = "deferred"]
  /\ reply' = [reply EXCEPT ![r] = exc[r]]
  /\ UNCHANGED <<admitted, value, ahead, exc, job>>

(* _finish_deferred and _release_admission, the done callback.             *)
FaultyFinishDeferred(r) ==
  /\ pc[r] = "deferred"
  /\ job[r] \in {"value", "timeout"}
  /\ Release([pc EXCEPT ![r] = "done"])
  /\ admitted' = admitted - 1
  /\ UNCHANGED <<ahead, exc, job, reply>>

FinishDeferred(r) ==
  /\ pc[r] = "deferred"
  /\ job[r] \in JobResults
  /\ Release([pc EXCEPT ![r] = "done"])
  /\ admitted' = admitted - 1
  /\ UNCHANGED <<ahead, exc, job, reply>>

-----------------------------------------------------------------------------
Run(r)    == \/ RunExpired(r) \/ RunSaturated(r) \/ RunAtOnce(r)
             \/ RunTooLate(r) \/ RunQueued(r)
Resume(r) == ResumeStart(r) \/ ResumeTooLate(r)
Loop(r)   == \/ Resume(r) \/ Unwind(r) \/ Collect(r) \/ CollectTimeout(r)
             \/ Defer(r) \/ FinishDeferred(r)

Next == \E r \in Requests : Run(r) \/ Expire(r) \/ Cancel(r) \/ Loop(r) \/ EndJob(r)

Spec == Init /\ [][Next]_vars

(* The loop runs every callback that is ready and every timer fires.       *)
LoopFairness == \A r \in Requests : WF_vars(Loop(r)) /\ WF_vars(Expire(r))

(* No assumption on the worker threads: an operation may never return.     *)
FairSpec == Spec /\ LoopFairness

-----------------------------------------------------------------------------
At(S) == {r \in Requests : pc[r] \in S}

(* _admitted is exactly the number of calls that were let in and have not  *)
(* given their place back, whichever of the exits of run() they took: it   *)
(* neither leaks (the service would answer 429 for ever) nor is decremented*)
(* twice (it would admit too many).                                        *)
AdmissionCount == admitted = Cardinality(At(PlaceHeld))

(* The units of the semaphore are conserved through grants that time out,  *)
(* abandoned threads and late results.                                     *)
UnitsConserved == value >= 0 /\ value + Cardinality(At(UnitHeld)) = MaximumConcurrency

(* A thread that is still executing keeps its request's unit and place,    *)
(* also after the caller got its deadline error (the comment in run()).    *)
ThreadHoldsCapacity ==
  \A r \in Requests : job[r] = "executing" => pc[r] \in {"running", "leaving", "deferred"}

(* At most maximum_concurrency operations execute, abandoned ones included.*)
ConcurrencyBound ==
  Cardinality({r \in Requests : job[r] = "executing"}) <= MaximumConcurrency

(* At most maximum_queue_size calls wait for a unit, unless a grant is on  *)
(* its way: _admitted alone would let C + Q of them wait.                  *)
QueueBound ==
  At({"granted", "ungrant"}) = {} => Cardinality(At({"queued"})) <= MaximumQueueSize

(* Both bounds hold, whatever was abandoned or granted too late.           *)
CapacityBounds == ConcurrencyBound /\ QueueBound

(* No lost wake-up: while calls wait for a unit that is free, a coroutine  *)
(* is on its way that will pass it on.  A call may well queue behind a free*)
(* unit, and time-outs may hit the very coroutine that was woken.          *)
NoLostWakeup ==
  value > 0 /\ At({"queued"}) # {} => At({"granted", "ungrant"}) # {}

(* First come first served: no call gets to work while one that queued     *)
(* before it, or that queued when it had not even arrived, still waits.    *)
NoOvertaking ==
  [][\A r, q \in Requests :
       /\ pc[r] # "running" /\ pc'[r] = "running" /\ pc[q] = "queued" /\ pc'[q] = "queued"
       => r \in ahead[q]]_vars

(* Every call of run() returns or raises, even if no operation ever ends:  *)
(* the deadline bounds the wait of the HTTP request, not the thread.       *)
EveryCallAnswered ==
  \A r \in Requests : pc[r] # "idle" ~> reply[r] # "none"

(* Every operation that is executed returns or raises in the end: what the *)
(* next property supposes.                                                 *)
OperationsEnd == <>[](\A r \in Requests : job[r] # "executing")

(* If operations end, whatever was reserved is given back in the end and   *)
(* no request is left half way.                                            *)
CapacityRecovered ==
  OperationsEnd => \A r \in Requests : pc[r] # "idle" ~> pc[r] = "done"

-----------------------------------------------------------------------------
(* BoundedScheduler implements AdmissionControl.  A place is queued until  *)
(* the thread is started; a grant alone starts nothing.                    *)
AtWork == {"running", "leaving", "deferred"}

Place == [r \in Requests |-> IF pc[r] \in InDeque THEN "queue"
                             ELSE IF pc[r] \in AtWork THEN "work" ELSE "outside"]

Abstract == INSTANCE AdmissionControl WITH place <- Place, reply <- reply

(* The promise of AdmissionControl, kept by the scheduler's steps.         *)
ImplementsAdmission == Abstract!ASpec
=============================================================================
