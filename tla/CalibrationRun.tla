----------------------------- MODULE CalibrationRun -----------------------------
(***************************************************************************)
(* The life of a calibration profile: jah.evaluation.run_calibration       *)
(* scores the calibration split through an incremental cache and writes    *)
(* one profile per workload; jah.service.load_reference_engine loads the   *)
(* profiles and refuses to start on a mismatch; DecisionEngine accepts     *)
(* decisions on the evidence they carry.  In between the process may be    *)
(* killed, and the model configuration may be changed.                     *)
(*                                                                         *)
(* A calibration is a command started by an operator; several may run at   *)
(* once, each for all workloads or for one (--workload).  What they share  *)
(* is on disk: the cache, the profile directory, the summary.              *)
(*                                                                         *)
(* Numbers are left out: which gates the data of a workload meet is a      *)
(* choice of its own for each of them, and of a summary only the workloads *)
(* it lists are kept, for nothing else of it is read again.                *)
(***************************************************************************)
EXTENDS Integers, FiniteSets, SequencesExt, Subsequences, JsonLines

CONSTANTS
  Runs,            \* calibrate processes
  Dataset,         \* the calibration split, in order
  Questions,       \* the questions of each example, in order
  WorkloadOf,      \* the workload_id of each example
  Workloads,       \* all workloads of the suite, other splits included
  SupportRouting,  \* the one the code knows by name, support-routing-v1
  Configs,         \* contents the model configuration file takes
  BackboneOf,      \* the model id, revision and precision of one
  MinAccepted,     \* accepted decisions that certify a profile: 59 in the code
  FreshCache,      \* whether the operator deletes the cache on an upgrade
  NoProfile,       \* a profile file that cannot be loaded
  MaxStarts, MaxMishaps, MaxUpgrades   \* bounds on the runs of the model

Examples == Range(Dataset)

Measurements == [ex : Examples, q : UNION {Range(Questions[e]) : e \in Examples},
                 config : Configs]

Policies == {"threshold", "review_only"}

(* whole is not in the code: it marks a file that was written to its end.  *)
Profile == [config : Configs, samples : Seq(Measurements), policy : Policies,
            metrics : {"none", "failing", "passing"}, whole : BOOLEAN]

(* Where a process is; while it writes a profile, it is at its workload.   *)
Phases == {"idle", "scoring", "fitting", "closing", "done"}

ASSUME CalibrationAssumption ==
  /\ Dataset \in Seq(Examples) /\ IsInjective(Dataset) /\ Dataset # <<>>
  /\ WorkloadOf \in [Examples -> Workloads]
  /\ DOMAIN Questions = Examples
  /\ \A e \in Examples : /\ Questions[e] \in Seq(Range(Questions[e])) \ {<<>>}
                         /\ IsInjective(Questions[e])
  /\ Workloads \cap Phases = {} /\ NoProfile \notin Profile
  /\ DOMAIN BackboneOf = Configs
  /\ MinAccepted \in Nat \ {0}
  /\ FreshCache \in BOOLEAN
  /\ {MaxStarts, MaxMishaps, MaxUpgrades} \subseteq Nat

VARIABLES
  config,    \* the model configuration file
  cache,     \* calibration_cache.jsonl
  profiles,  \* the profile directory, one YAML file per workload
  summary,   \* calibration-summary.json: the workloads it lists, {} if cut
  pc, only, model, todo, buffer, data, pending, created,   \* the processes
  service,   \* the serving process
  spoiled,   \* not in the code: examples a torn or glued line left in part
  starts, mishaps, upgrades   \* what has been used of the bounds

files     == <<config, cache, profiles, summary>>
locals    == <<only, model, todo, buffer, data, pending, created>>
counters  == <<starts, mishaps, upgrades>>
vars      == <<files, pc, locals, service, spoiled, counters>>

Registries == [Workloads -> Profile \cup {NoProfile}]
NoEntries  == [w \in Workloads |-> NoProfile]

Down == [status |-> "down", config |-> config, loaded |-> NoEntries]

TypeOK ==
  /\ config \in Configs
  /\ cache \in Files(Measurements)
  /\ profiles \in Registries
  /\ summary \subseteq Workloads
  /\ pc \in [Runs -> Phases \cup Workloads]
  /\ only \in [Runs -> SUBSET Workloads]
  /\ model \in [Runs -> Configs]
  /\ todo \in [Runs -> Seq(Examples)]
  /\ buffer \in [Runs -> Seq(Measurements)]
  /\ data \in [Runs -> Seq(Measurements)]
  /\ pending \in [Runs -> SUBSET Workloads]
  /\ created \in [Runs -> SUBSET Workloads]
  /\ service \in [status : {"down", "loading", "ready", "not_ready"},
                  config : Configs, loaded : Registries]
  /\ spoiled \in SUBSET Examples
  /\ starts \in 0..MaxStarts /\ mishaps \in 0..MaxMishaps /\ upgrades \in 0..MaxUpgrades
  /\ \A r \in Runs : buffer[r] # <<>> => /\ pc[r] = "scoring"
                                         /\ todo[r] # <<>>
                                         /\ \A i \in 1..Len(buffer[r]) :
                                              buffer[r][i].ex = Head(todo[r])

Init ==
  /\ config \in Configs
  /\ cache = EmptyFile
  /\ profiles = NoEntries
  /\ summary = {}
  /\ pc = [r \in Runs |-> "idle"]
  /\ only = [r \in Runs |-> {}]
  /\ model = [r \in Runs |-> config]
  /\ todo = [r \in Runs |-> <<>>]
  /\ buffer = [r \in Runs |-> <<>>]
  /\ data = [r \in Runs |-> <<>>]
  /\ pending = [r \in Runs |-> {}]
  /\ created = [r \in Runs |-> {}]
  /\ service = Down
  /\ spoiled = {}
  /\ starts = 0 /\ mishaps = 0 /\ upgrades = 0

-----------------------------------------------------------------------------
(* run_calibration: scoring through the cache.                             *)

Started(r) == pc[r] \notin {"idle", "done"}

InPart(s) == {e \in ExamplesOf(s) : \E q \in Range(Questions[e]) :
                \A i \in 1..Len(s) : s[i].ex = e => s[i].q # q}

(* The examples that count as scored: any row of theirs is enough.         *)
Known == ExamplesOf(cache.rows)

ExamplesIn(W) == {e \in Examples : WorkloadOf[e] \in W}

RescoringTodo(W) == Where(Dataset, ExamplesIn(W))

CarelessTodo(W) ==
  Where(Dataset, ExamplesIn({w \in W : \A k \in Known : WorkloadOf[k] # w}))

Todo(W) == Where(Dataset, ExamplesIn(W) \ Known)

(* The rows about the examples of W.                                       *)
About(rows, W) == Where(rows, {m \in Measurements : WorkloadOf[m.ex] \in W})

CachedData(W) == About(cache.rows, W)

TruncatedCache == EmptyFile

OpenedCache == cache            \* mode "a"

Start(r, W) ==
  /\ ~ Started(r) /\ starts < MaxStarts
  /\ \E e \in Examples : WorkloadOf[e] \in W
  /\ starts' = starts + 1
  /\ pc' = [pc EXCEPT ![r] = "scoring"]
  /\ only' = [only EXCEPT ![r] = W]
  /\ model' = [model EXCEPT ![r] = config]
  /\ data' = [data EXCEPT ![r] = CachedData(W)]
  /\ todo' = [todo EXCEPT ![r] = Todo(W)]
  /\ cache' = OpenedCache
  /\ UNCHANGED <<config, profiles, summary, buffer, pending, created, service, spoiled, mishaps, upgrades>>

Score(r) ==                     \* backend.score(); the row goes to the buffer
  LET e == Head(todo[r]) IN
  /\ pc[r] = "scoring" /\ todo[r] # <<>>
  /\ Len(buffer[r]) < Len(Questions[e])
  /\ LET m == [ex |-> e, q |-> Questions[e][Len(buffer[r]) + 1], config |-> model[r]] IN
       /\ buffer' = [buffer EXCEPT ![r] = Append(@, m)]
       /\ data' = [data EXCEPT ![r] = Append(@, m)]
  /\ UNCHANGED <<files, pc, only, model, todo, pending, created, service, spoiled, counters>>

UnclearedFlush(r) ==
  /\ pc[r] = "scoring" /\ todo[r] # <<>>
  /\ Len(buffer[r]) = Len(Questions[Head(todo[r])])
  /\ cache' = Flushed(cache, buffer[r])
  /\ todo' = [todo EXCEPT ![r] = Tail(@)]
  /\ spoiled' = IF cache.end = "closed" THEN spoiled ELSE spoiled \cup InPart(cache'.rows)
  /\ UNCHANGED <<config, profiles, summary, pc, buffer, only, model, data, pending, created, service, counters>>

Flush(r) ==                     \* cache_handle.flush(), after each example
  /\ pc[r] = "scoring" /\ todo[r] # <<>>
  /\ Len(buffer[r]) = Len(Questions[Head(todo[r])])
  /\ cache' = Flushed(cache, buffer[r])
  /\ buffer' = [buffer EXCEPT ![r] = <<>>]
  /\ todo' = [todo EXCEPT ![r] = Tail(@)]
  /\ spoiled' = IF cache.end = "closed" THEN spoiled ELSE spoiled \cup InPart(cache'.rows)
  /\ UNCHANGED <<config, profiles, summary, pc, only, model, data, pending, created, service, counters>>

(* Scoring ends; what the last summary listed is carried over, and each    *)
(* workload that has data is to be fitted.                                 *)
UnlistedFits(r) == ({WorkloadOf[e] : e \in Examples} \cap only[r]) \ summary

Fits(r) == {WorkloadOf[e] : e \in Examples} \cap only[r]

Scored(r) ==
  /\ pc[r] = "scoring" /\ todo[r] = <<>>
  /\ pc' = [pc EXCEPT ![r] = "fitting"]
  /\ created' = [created EXCEPT ![r] = summary]
  /\ pending' = [pending EXCEPT ![r] = Fits(r)]
  /\ UNCHANGED <<files, only, model, todo, buffer, data, service, spoiled, counters>>

-----------------------------------------------------------------------------
(* run_calibration: fitting and writing.                                   *)

(* The gates the data of a workload can meet on their own: a threshold     *)
(* whose accepted decisions have few enough errors, and ECE and Brier      *)
(* score.  The first decides the policy, both together the metrics.        *)
Gates == {"selective", "calibration"}

(* The profile of w, if its data meet the gates in met: support-routing-v1 *)
(* accepts nothing, and a workload without data has no metrics.            *)
Fitted(r, w, met) ==
  LET samples == About(data[r], {w})
      accepts == "selective" \in met /\ w # SupportRouting /\ Len(samples) >= MinAccepted
      passes  == accepts /\ "calibration" \in met IN
  [config  |-> model[r],
   samples |-> samples,
   policy  |-> IF accepts THEN "threshold" ELSE "review_only",
   metrics |-> IF samples = <<>> THEN "none" ELSE IF passes THEN "passing" ELSE "failing",
   whole   |-> TRUE]

(* Workloads come first; then support-routing-v1, unless it is in          *)
(* profiles_created, where the last summary may have put it.               *)
NextToFit(r) ==
  IF pending[r] # {} THEN pending[r]
  ELSE ({SupportRouting} \cap Workloads) \ created[r]

BeginProfile(r, w) ==           \* save_profile opens the file: it is empty
  /\ pc[r] = "fitting" /\ w \in NextToFit(r)
  /\ pc' = [pc EXCEPT ![r] = w]
  /\ profiles' = [profiles EXCEPT ![w] = NoProfile]
  /\ UNCHANGED <<config, cache, summary, locals, service, spoiled, counters>>

EndProfile(r, w) ==
  /\ pc[r] = w
  /\ \E met \in SUBSET Gates : profiles' = [profiles EXCEPT ![w] = Fitted(r, w, met)]
  /\ created' = [created EXCEPT ![r] = @ \cup {w}]
  /\ pc' = [pc EXCEPT ![r] = "fitting"]
  /\ pending' = [pending EXCEPT ![r] = @ \ {w}]
  /\ UNCHANGED <<config, cache, summary, only, model, todo, buffer, data, service, spoiled, counters>>

BeginSummary(r) ==
  /\ pc[r] = "fitting" /\ NextToFit(r) = {}
  /\ pc' = [pc EXCEPT ![r] = "closing"]
  /\ summary' = {}
  /\ UNCHANGED <<config, cache, profiles, locals, service, spoiled, counters>>

EndSummary(r) ==
  /\ pc[r] = "closing"
  /\ pc' = [pc EXCEPT ![r] = "done"]
  /\ summary' = created[r]
  /\ UNCHANGED <<config, cache, profiles, locals, service, spoiled, counters>>

(* The process dies.  save_profile writes the metrics last, so a profile   *)
(* cut short is undecodable or has none, or lacks only its last bins.      *)
Die(r) ==
  /\ Started(r) /\ mishaps < MaxMishaps
  /\ mishaps' = mishaps + 1
  /\ pc' = [pc EXCEPT ![r] = "idle"]
  /\ cache' \in Survivors(cache, buffer[r])
  /\ buffer' = [buffer EXCEPT ![r] = <<>>]
  /\ spoiled' = spoiled \cup InPart(cache'.rows)
  /\ \/ UNCHANGED profiles
     \/ /\ pc[r] \in Workloads
        /\ \E met \in SUBSET Gates, all \in BOOLEAN :
             LET p == Fitted(r, pc[r], met) IN
             profiles' = [profiles EXCEPT ![pc[r]] =
               IF all THEN p ELSE [p EXCEPT !.metrics = "none", !.whole = FALSE]]
  /\ UNCHANGED <<config, summary, only, model, todo, data, pending, created, service, starts, upgrades>>

(* The operator installs another model, prompt or precision.               *)
Upgrade ==
  /\ upgrades < MaxUpgrades
  /\ upgrades' = upgrades + 1
  /\ config' \in Configs \ {config}
  /\ IF FreshCache THEN (\A r \in Runs : ~ Started(r)) /\ cache' = EmptyFile
                   ELSE UNCHANGED cache
  /\ UNCHANGED <<profiles, summary, pc, locals, service, spoiled, starts, mishaps>>

-----------------------------------------------------------------------------
(* load_reference_engine and the decisions of the engine it returns.       *)

Launch ==                       \* the configuration is read first ...
  /\ service.status = "down"
  /\ service' = [status |-> "loading", config |-> config, loaded |-> NoEntries]
  /\ UNCHANGED <<files, pc, locals, spoiled, counters>>

LoadRegistry ==                 \* ... and the profiles once the model is loaded
  /\ service.status = "loading"
  /\ LET matches == \A w \in Workloads : profiles[w] # NoProfile =>
                      BackboneOf[profiles[w].config] = BackboneOf[service.config] IN
     service' = IF matches
                THEN [service EXCEPT !.status = "ready", !.loaded = profiles]
                ELSE [service EXCEPT !.status = "not_ready"]
  /\ UNCHANGED <<files, pc, locals, spoiled, counters>>

Shutdown ==
  /\ service.status \in {"ready", "not_ready"}
  /\ service' = Down
  /\ UNCHANGED <<files, pc, locals, spoiled, counters>>

UnprovenEvidence(p) == p.metrics # "failing"

HasValidatedEvidence(p) == p.metrics = "passing"

(* check_profile_compatibility: all of the configuration, prompt and label *)
(* versions included, which the refusal at startup does not look at.       *)
BackboneCompatible(p) == BackboneOf[p.config] = BackboneOf[service.config]

Compatible(p) == p.config = service.config

(* Whether a confident decision of workload w is accepted.                 *)
Accepts(w) ==
  /\ service.status = "ready"
  /\ service.loaded[w] # NoProfile
  /\ HasValidatedEvidence(service.loaded[w])
  /\ Compatible(service.loaded[w])
  /\ service.loaded[w].policy = "threshold"

-----------------------------------------------------------------------------

Step(r) == \/ \E W \in {Workloads} \cup {{w} : w \in Workloads} : Start(r, W)
           \/ Score(r) \/ Flush(r) \/ Scored(r)
           \/ \E w \in Workloads : BeginProfile(r, w) \/ EndProfile(r, w)
           \/ BeginSummary(r) \/ EndSummary(r)
           \/ Die(r)

Next == (\E r \in Runs : Step(r)) \/ Upgrade \/ Launch \/ LoadRegistry \/ Shutdown

Spec == Init /\ [][Next]_vars

-----------------------------------------------------------------------------
(* Correctness.                                                            *)

Samples(w) == profiles[w].samples

(* No decision counts twice in a profile: every count that certifies one   *)
(* is a count of distinct decisions, however often the calibration was     *)
(* killed and started again (the rows of run_calibration, lines 709-779).  *)
SamplesAreDistinct ==
  \A w \in Workloads : profiles[w] # NoProfile => Distinct(Samples(w))

(* A profile that lets decisions be accepted rests on enough distinct      *)
(* decisions for the exact binomial bound.                                 *)
CertifiedBySamples ==
  \A w \in Workloads : Accepts(w) =>
    Cardinality({<<m.ex, m.q>> : m \in Range(service.loaded[w].samples)}) >= MinAccepted

(* What the service accepts, it accepts on evidence measured with the very *)
(* model, precision and prompt it serves.                                  *)
EvidenceFromServedModel ==
  \A w \in Workloads : Accepts(w) =>
    \A m \in Range(service.loaded[w].samples) : m.config = service.config

(* A profile whose writing was cut short never accepts a decision.         *)
CutProfilesNeverAccept ==
  \A w \in Workloads : Accepts(w) => service.loaded[w].whole

(* Acceptance rests on profiles that are whole and certified, and in no    *)
(* profile does a decision count twice.                                    *)
AcceptedOnEvidence == SamplesAreDistinct /\ CertifiedBySamples /\ CutProfilesNeverAccept

(* A complete calibration leaves a current profile for every workload of   *)
(* the calibration split, whatever crashed or was calibrated before it.    *)
Recalibrated(r) == pc[r] = "done" /\ only[r] = Workloads /\ model[r] = config

ProfilesAreCurrent ==
  \A r \in Runs, e \in Examples : Recalibrated(r) =>
    /\ profiles[WorkloadOf[e]] # NoProfile
    /\ profiles[WorkloadOf[e]].whole
    /\ profiles[WorkloadOf[e]].config = config

(* ... and so the service can be started.                                  *)
ServiceCanStart ==
  \A r \in Runs, w \in Workloads : Recalibrated(r) /\ profiles[w] # NoProfile =>
    BackboneOf[profiles[w].config] = BackboneOf[config]

(* It also used every decision of the calibration split, but for examples  *)
(* of which a torn or glued line once left a part in the cache.            *)
SamplesAreComplete ==
  \A r \in Runs, e \in Examples : Recalibrated(r) /\ e \notin spoiled =>
    \A q \in Range(Questions[e]) :
      \E m \in Range(Samples(WorkloadOf[e])) : m.ex = e /\ m.q = q

(* A complete recalibration makes up for whatever happened before it.      *)
RecalibrationIsComplete == ProfilesAreCurrent /\ SamplesAreComplete

(* A crash costs at most what was not flushed: of the rows that were in    *)
(* the cache a step loses one at most, the one a torn line is glued to.    *)
LosesOneRow == [][Upgrade \/ Len(cache'.rows) >= Len(cache.rows) - 1]_vars
================================================================================
