--------------------------- MODULE DecisionService ---------------------------
(***************************************************************************)
(* service.py: the application that loads an engine once and evaluates     *)
(* each posted request in a worker thread under the bounded scheduler.     *)
(* The scheduler is taken at its word, AdmissionControl, which             *)
(* BoundedScheduler implements; one thread works at a time, as create_app  *)
(* configures it, so that the state of DecisionEngine is the state of that *)
(* thread.  A caller whose deadline passes is answered while its thread    *)
(* goes on.                                                                *)
(***************************************************************************)
EXTENDS DecisionEngine

CONSTANTS Callers, MaximumQueueSize

ASSUME ServiceAssumption == MaximumQueueSize \in Nat

MaximumConcurrency == 1

VARIABLES
  app,      \* "starting", "ready", or "failed" for good
  posted,   \* each caller's request
  place,    \* AdmissionControl
  result,   \* AdmissionControl's reply
  worker,   \* the caller whose thread has the engine, in a set
  http,     \* each caller's status code, 0 until it is answered
  body      \* each caller's answers

svars == <<evars, app, posted, place, result, worker, http, body>>

Scheduler == INSTANCE AdmissionControl WITH Requests <- Callers, reply <- result

ServiceInit ==
  /\ Init /\ Scheduler!AInit
  /\ app = "starting" /\ worker = {}
  /\ posted \in [Callers -> Requests]
  /\ http = [c \in Callers |-> 0]
  /\ body = [c \in Callers |-> <<>>]

(* The lifespan loads the engine before it serves, and never again.        *)
Startup == /\ app = "starting" /\ app' \in {"ready", "failed"}
           /\ UNCHANGED <<evars, posted, place, result, worker, http, body>>

Answered(c, status) == http' = [http EXCEPT ![c] = status]

(* Without an engine a post does not come to the scheduler.                *)
NotReady(c) ==
  /\ app = "failed" /\ http[c] = 0
  /\ Answered(c, 503)
  /\ UNCHANGED <<evars, app, posted, place, result, worker, body>>

Serving(c) == app = "ready" /\ http[c] = 0

Refuse(c) ==
  /\ Serving(c) /\ Scheduler!ARefuse(c)
  /\ Answered(c, 429)
  /\ UNCHANGED <<evars, app, posted, worker, body>>

(* A place in the queue, a place at work; the latter starts the thread.    *)
Admit(c) ==
  /\ Serving(c)
  /\ Scheduler!AEnter(c) \/ Scheduler!AStart(c)
  /\ IF place'[c] = "work" THEN Begin(posted[c]) /\ worker' = {c}
                           ELSE UNCHANGED <<evars, worker>>
  /\ UNCHANGED <<app, posted, http, body>>

EngineWorks ==
  /\ worker # {} /\ Work
  /\ UNCHANGED <<app, posted, place, result, worker, http, body>>

Idle == phase' = "idle" /\ request' = <<>> /\ pass' = 0 /\ compiled' = NoPass
        /\ measured' = NoPass /\ cache' = <<>> /\ answers' = <<>> /\ reply' = "none"
        /\ UNCHANGED engine

(* The thread returns in time, and the handler turns what it returned or   *)
(* raised into a response.                                                 *)
Status(outcome) == CASE outcome = "response" -> 200
                     [] outcome = "unavailable" -> 503
                     [] outcome = "value_error" -> 422

Return(c) ==
  /\ Serving(c) /\ worker = {c} /\ phase = "over"
  /\ Scheduler!AAnswer(c) /\ result'[c] = (IF reply = "response" THEN "value" ELSE "error")
  /\ Answered(c, Status(reply))
  /\ body' = [body EXCEPT ![c] = answers]
  /\ worker' = {} /\ Idle
  /\ UNCHANGED <<app, posted>>

QueueOnlyExpire(c) ==
  /\ Serving(c) /\ place[c] = "queue"
  /\ Scheduler!AGiveUp(c)
  /\ Answered(c, IF result'[c] = "deadline" THEN 504 ELSE 499)
  /\ UNCHANGED <<evars, app, posted, worker, body>>

(* The deadline passes before the handler has the result, in the queue, at *)
(* work, or on arrival.  A handler that is cancelled, as when the server   *)
(* stops, sends nothing, for which 499 stands.                             *)
Expire(c) ==
  /\ Serving(c)
  /\ Scheduler!ATooLate(c) \/ Scheduler!AGiveUp(c)
  /\ Answered(c, IF result'[c] = "deadline" THEN 504 ELSE 499)
  /\ UNCHANGED <<evars, app, posted, worker, body>>

LateReclaim(c) ==
  /\ worker = {c} /\ phase = "over"
  /\ Scheduler!AReclaim(c)
  /\ Answered(c, Status(reply)) /\ body' = [body EXCEPT ![c] = answers]
  /\ worker' = {} /\ Idle
  /\ UNCHANGED <<app, posted>>

(* The abandoned thread ends; nobody reads what it returns.                *)
Reclaim(c) ==
  /\ worker = {c} /\ phase = "over"
  /\ Scheduler!AReclaim(c)
  /\ worker' = {} /\ Idle
  /\ UNCHANGED <<app, posted, http, body>>

Handle(c) == NotReady(c) \/ Refuse(c) \/ Admit(c) \/ Return(c) \/ Expire(c) \/ Reclaim(c)

ServiceNext == Startup \/ EngineWorks \/ \E c \in Callers : Handle(c)

(* The event loop runs what is ready and the timers fire; the model        *)
(* computes, or the deadline does not wait for it.                         *)
ServiceSpec == /\ ServiceInit /\ [][ServiceNext]_svars
               /\ WF_svars(Startup)
               /\ \A c \in Callers : WF_svars(NotReady(c)) /\ WF_svars(Expire(c))
-----------------------------------------------------------------------------
(* What a caller is told is about its own request: an answer to each of    *)
(* its questions, read from its own prompts, although the threads of       *)
(* callers long gone use the same engine; and no answer without a 200.     *)
OwnAnswers ==
  \A c \in Callers :
    IF http[c] = 200
    THEN [i \in DOMAIN body[c] |-> [id |-> body[c][i].id, readings |-> body[c][i].readings]]
           = Reference!ReferenceAnswers(posted[c])
    ELSE body[c] = <<>>

(* An answer is given once: no late result replaces it.                    *)
AnsweredOnce ==
  [][\A c \in Callers : http[c] # 0 => http'[c] = http[c] /\ body'[c] = body[c]]_svars

(* Whoever is not on the way in or at work has been answered in the end,   *)
(* and nobody waits for an engine that never comes.                        *)
EveryPostAnswered == \A c \in Callers : <>(http[c] # 0)
=============================================================================
