# jev-at-home in TLA+

A verification development for the Python package `jah` (`src/src/jah`), a local service that
answers typed questions about a text by reading the logits of a language model, and accepts an
answer only when a calibration profile with evidence covers it.  The modules model the parts of
the package that coordinate: threads and timers, files that outlive the process, and the paths an
evaluation may take.  Arithmetic on probabilities is left out wherever no control depends on it.

1. [The system](#1-the-system)
2. [Plan](#2-plan)
3. [Modules and how they correspond to the code](#3-modules-and-how-they-correspond-to-the-code)
4. [Runs](#4-runs)
5. [Disagreements found](#5-disagreements-found)
6. [Proofs](#6-proofs)
7. [What is not modelled](#7-what-is-not-modelled)
8. [Running the checks](#8-running-the-checks)

## 1. The system

The package has three lives.  A **service** holds one model in memory and answers HTTP posts.  A
set of **offline commands** builds the benchmark, evaluates the model, audits the evaluation,
calibrates profiles and watches for drift.  A few **release tools** hash, compare and report.  The
service and the commands never talk to each other: they share files.

```
             posts                 engine                         model
 callers ----------> service.py ----------> engine.py -----------> backends/*
                 |       |                  compiler.py, scoring.py, policy.py
                 |   scheduler.py                  ^
                 |   (threads, deadlines)          | profiles
                 v                                 |
              200/4xx/5xx                configs/profiles/*.yaml
                                                   ^
 public_data.py --> suite.jsonl --> evaluation.py calibrate (cache, summary)
  (fetch, cluster,     |        \-> evaluation.py run --> predictions.jsonl, report
   quarantine, split)  |                 ^                   |          |
                       v                 | quarantine        v          v
                 training/train.py       +------------- review.py    drift.py
                       |
                       v
 adapter (weights, manifest) --> equivalence.py --> artifacts/*.json --> report.py --> EVIDENCE.md
                                 compat.py ------------^
 configs/profiles, lock file, model configuration --> release.py --> release manifest
```

### Components, their state, operations and hard behaviours

| Component | State it keeps | Operations | What is hard | What makes it correct |
| --- | --- | --- | --- | --- |
| `scheduler.py` bounded scheduler | `_admitted`, the semaphore and its waiters, one task per running call | `run`, `_finish_deferred`, `_release_admission` | deadlines and cancellations that race a grant, a finished thread or each other; threads that outlive their caller | capacity is counted exactly and given back once; no lost wake-up; first come first served; every call answered |
| `service.py` HTTP service | the engine (loaded once), the readiness | `lifespan`, `evaluate`, health checks | abandoned threads still using the engine; a load that failed | each caller is told about its own request, once |
| `engine.py`, `compiler.py`, `scoring.py`, `policy.py`, `backends/*` decision engine | the prompts, measurements and prefix cache of one call | `evaluate_detailed`: compile, score in one of three ways, rotate and score again, assemble | mutable prefix cache, padding, alignment of two passes, failures half-way | all paths read the same logits as one prompt at a time; doubtful decisions are left to review |
| `calibration.py` profiles, `service.load_reference_engine` | YAML files, the loaded registry | `save_profile`, `load_profiles`, compatibility checks | torn files, upgrades between writing and loading | what is accepted rests on evidence from the served model |
| `evaluation.py calibrate` | incremental cache, profiles, summary | score, fit, write | kills and restarts at any point; one workload at a time | decisions are counted once and completely |
| `evaluation.py run` | predictions file, report | evaluate, `--resume`, rewrite, report | kills inside a row; resuming with another selection or model | distinct decisions, covered selection, report and file agree |
| `review.py audit` | the audit artifact with its quarantine | draw control rows, ask a reviewer, quarantine | files changing under it, reviewer queries that fail | only doubted errors are quarantined, under control |
| `drift.py` | none | compare predictions with a profile | reads rows another component writes | alarms exactly when there is cause |
| `m1_dataset.py` dataset contract | none (pure) | load, components, split assignment, readiness | relatedness through chains | related rows are never in two splits |
| `public_data.py` suite builder | download cache, suite, manifest, report | fetch, verify, import, cluster, quarantine, split, write | cut downloads, killed writes, consumers that read meanwhile | held-out rows stay out of training, also of partial suites |
| `training/train.py` | sample, shuffled order, gradients, loss history | select, sample, accumulate, step, report | out of memory errors inside a window, also at its last example | training split only; a step applies its own window's gradients, each once; losses stay in their window |
| `training/adapter.py`, the loading in `backends/*` | weights file, manifest | `inject_lora`, `export_adapter`, `load_adapter_into_model` | kills between the two files; layers without matrices; a digest nobody compares | what the manifest vouches for loads whole in both backends |
| `equivalence.py` | rows and peaks of one run, report, rows file | `load_regression_requests`, `compare_responses`, `summarize`, `run_equivalence` | failures half-way, kills between the files, gating of near ties | a pass is borne out by each request and each decision |
| `evaluation.py compare` | the comparison | `compare_reports` | reports and predictions of different times | what is compared is the same decisions, and those the reports are about |
| `compat.py` | report, rows file | `require_minimum_label_mass`, `run` | errors that leave an earlier report in place | a report that is written has its gate |
| `report.py` | `EVIDENCE.md` | `generate`, `check` | artifacts that change, tear or hide a gate deep inside | while the check stands, the evidence is what the artifacts say |
| `release.py` | the release manifest | `build_release_manifest`, `verify_offline_bundle` | what is not hashed, or hashed and not compared | a verified release is what the service loads |
| `shadow.py`, `exemplars.py`, `client.py`, `benchmark.py`, `resource.py`, `workload.py`, `schemas.py`, `diagnostics/*`, `backends/generative.py`, `backends/scalar_head.py` | little or none | see section 7 | | |

They interact by

* **calls**: service → scheduler → (in a worker thread) engine → backend;
* **callbacks**: the done callback of an abandoned thread's task returns its capacity;
* **files**: suite → evaluation, calibration, training; cache → profiles → service; predictions →
  audit → quarantine → next evaluation; predictions and profile → drift check;
* **the operator**, who upgrades the model configuration, restarts what was killed, removes
  refused downloads and chooses the options of each command.

The hazards in `PROJECT.json` list, line by line, where this can go wrong in ways a unit test
hardly reaches.  They are the source of the properties below.

## 2. Plan

Modules in the order of their importance to a caller who relies on an accepted answer.  All lines
but the last two are in place.

| # | Modules | Question | Status |
| --- | --- | --- | --- |
| 1 | `AdmissionControl`, `BoundedScheduler`; `BoundedSchedulerProofs` | Does the service stay bounded, fair and live under deadlines and cancellations? | modelled, checked, safety and refinement proved |
| 2 | `JsonLines`, `CalibrationRun`; `CalibrationRunProofs` | Does an accepted decision rest on evidence of the served model, whatever was killed or upgraded? | modelled, checked, safety proved |
| 3 | `EvaluationRun`, `QualityLoop`; `QualityLoopProofs` | Are the files an evaluation leaves what its report, the audit and the drift check take them for? | modelled, checked, safety proved |
| 4 | `ReferenceScoring`, `DecisionPrompts`, `DecisionEngine`; `DecisionProofs` | Is every scoring path the reference path? | modelled, checked, safety and refinement proved |
| 5 | `DecisionService` (composes 4 with the promise of 1); `DecisionProofs` | Does each caller get its own answer, once? | modelled, checked, safety proved |
| 6 | `DatasetSplits`, `PublicSuite`; `PublicSuiteProofs` | Can training see what is held out? | modelled, checked, safety proved |
| 7 | `ArtifactStore`, `TrainingRun`, `AdapterBundle`, `EquivalenceGate`, `PairedComparison`, `EvidenceReport`, `ReleaseBundle`, composed by `CandidateRelease`; `CandidateReleaseProofs` | Do the steps from training to release vouch for what they measured? | modelled, checked, safety proved |
| 8 | `ThresholdFit`, `OptionScoring` | `fit_acceptance_threshold`, label scoring and tie-breaks, against definitions | planned |
| 9 | `diagnostics/order_bias.py` | permuted prompts | planned |

`Subsequences` holds what several of them share; `SubsequenceLemmas` and `JsonLinesLemmas` hold the
facts about it and about the appended files that the proofs of 2, 3, 4 and 6 rest on.

Abstract specifications: `AdmissionControl` (what the scheduler promises, used again by
`DecisionService` in place of the scheduler) and `ReferenceScoring` (an answer read from each
question's own prompt, at one stroke, or an error).

Every safety invariant and every action property of the runs that pass is a theorem now (section 6).
Worth proving next: what the modules of lines 8 and 9 will say of every input.

## 3. Modules and how they correspond to the code

`PROJECT.json` maps every definition to its lines.  This section says how to read the modules.
Definitions whose names begin with `Faulty`, `Unfair`, `Sticky`, `Truncated` and the like are not
the code: they stand before the definition they vary and are the bugs a property has to catch.

### AdmissionControl and BoundedScheduler (`scheduler.py`)

A step of `BoundedScheduler` is what the event loop executes between two suspension points of
`run()`.  `run()` is suspended in two places: on `acquire()` (`queued`, `granted`) and on the
shielded task (`running`).  A timer or a cancellation does not interrupt a coroutine, it leaves an
exception which is raised when the loop next resumes it; `unqueue`, `ungrant` and `leaving` are
those windows, in which other coroutines run.  `deferred` is a call whose caller has been answered
while its thread goes on.  `admitted` is `_admitted`; `value` is the counter of the semaphore; its
deque is represented by `ahead`, for each call the calls in front of it; `job` is the task of
`asyncio.to_thread`.

The semaphore is external code and follows CPython 3.12, the version `scripts/setup_gpu.ps1`
installs (`pyproject.toml` allows 3.11 to 3.13): `release()` hands its unit to the first pending
waiter, `acquire()` does not overtake, and a woken waiter passes a further free unit on.  Thread
completion (`EndJob`) may happen at any time, also between expiry and the collection of the
result.

`AdmissionControl` knows only whether a request is outside, in the queue or at work and what its
caller was told.  A place of work that was started is given back only when the work is over.

### JsonLines

The files both loops append to (`calibration_cache.jsonl`, the predictions file), as the readers
see them: the decodable rows and the state of the last line.  `Survivors` are the contents a kill
may leave of what was in the buffer, a torn line included; `Write` glues the next row to a line
without newline.  `Distinct` and `ExamplesOf` are what both loops need to know of the rows.

### Subsequences

The list comprehensions `[x for x in s if ...]` of the code: `Where(s, T)` keeps the positions that
`s` has in `T`, in their order.  It is what `SelectSeq` computes; but `SelectSeq` is a recursion, of
which nothing could be proved for every sequence.

### CalibrationRun (`evaluation.run_calibration`, `calibration.py`, `service.load_reference_engine`)

One process per element of `Runs`, for all workloads or one.  `Start` reads the cache and selects
what is still to be scored, `Score` and `Flush` are the loop over questions and examples, `Scored`
seeds the list of profiles from the last summary, `BeginProfile`/`EndProfile` and
`BeginSummary`/`EndSummary` are the truncation and the completion of a file.  `Die` may happen
anywhere.  `Upgrade` replaces the model configuration; `Launch` and `LoadRegistry` are the
service's two reads.  `Accepts` is the condition under which a confident decision is accepted.
`spoiled` is a history variable: the examples a torn or glued line has left in part, which the
code takes as scored.  Which gates the data of a workload meet is a nondeterministic choice: the
selective gate decides the policy (`threshold` or `review_only`), and only together with the gates
of ECE and Brier score does it make the metrics pass, so that a threshold profile without validated
evidence occurs.  `summary` and `created` are the sets of workloads listed.

### EvaluationRun and QualityLoop (`evaluation.run_evaluation`, `review.run_audit`, `drift.py`)

`EvaluationRun` is one command after another over a predictions file: `Start` with or without
`--resume` and with any of the selections the options allow, `Record`/`Flush`, the truncation and
rewriting of the file from memory, the report.  `QualityLoop` extends it with the readers of that
file.  `BeginAudit` draws the control sample, of every composition; `EndAudit` has any outcome of
the reviewer, failed queries included; `StartExcluding` is the evaluation with
`--exclude-reviewed-quarantine`; `DriftCheck` looks for the fields `drift.py` looks for in the
rows the evaluation writes.  `heard` and `drift.cause` are history variables.

### DecisionPrompts, ReferenceScoring, DecisionEngine (`compiler.py`, `engine.py`, `backends/*`, `scoring.py`, `policy.py`)

A prompt is a sequence of tokens with the structure the compiler gives it: system, exemplars,
state, question, options as printed, answer boundary.  A measurement records what the model had
seen and where its options were printed, so that reading an option's logit from the wrong place,
or after another question's suffix, gives another value.  The scoring paths are those of
`HuggingFaceDirectLogitBackend`: one by one, microbatches padded on the right, or suffixes over a
copied prefix cache.  The second pass rotates choices.  `Disposition` is the policy, with the
outcomes of its comparisons left open.  A compilation fails if a prompt exceeds the token limit,
and may fail of any prompt, since `verify_single_token_labels` asks the tokenizer whether each
letter is one stable token behind it.  `ReferenceScoring` answers from `Compiled` directly.

### DecisionService (`service.py`)

`DecisionEngine` used through `AdmissionControl`: since one thread works at a time, its variables
are the state of that thread.  A caller that gives up is answered (504) while `EngineWorks`
continues; `Reclaim` is the end of the abandoned thread.  499 stands for a handler that was
cancelled and sends nothing.

### DatasetSplits and PublicSuite (`m1_dataset.py`, `public_data.py`)

`DatasetSplits` is the pure part: components through shared sources and clusters by union-find
(`Joined` is one union, seen as a function from nodes to roots, and `SourceRoots` the function from
the number of rows joined to the roots there are by then), the refusal of conflicting
components, the assignment and the readiness gate.  The hash that places a component is the
constant `Bucket`. `PublicSuite` is the build: download and store in two steps (a kill between
them leaves a cut file), verification of each cached file, `cluster_duplicates` with its prefix
filter, quarantine, assignment, and the three files written one after another.  `Evaluate` and
`Train` read whatever `suite.jsonl` holds at that moment.  A text is the set of its shingles; `Clustering` is the loop of `cluster_duplicates`, again as
the function from the number of rows looked at to the roots.  The properties compare it with
`Closure`, a transitive closure of pairs of rows that knows no loop.  The
length filter of line 276 is left out: pairs it drops are below the threshold. 0.9 is taken as the
rational number it stands for; `math.ceil(0.9 * n)` agrees with it for every length up to three
million.  `uses` is a history variable: in which split each row was used.

### ArtifactStore and the candidate (`training/*`, `equivalence.py`, `evaluation.py compare`, `compat.py`, `report.py`, `release.py`)

`ArtifactStore` is the set of files these commands share and the one command at work.  A command
works in steps (`Goes`), and ends by handing over the list of writes it still has to do (`Ends`);
each file written is first emptied, which is the state `Torn` in which a kill (`Die`) leaves it.
A document carries a stamp, the number of the command that wrote it, in place of `created_at` and
of digests.

* `TrainingRun` is `train_adapter`.  `Samples` are the samples `max_samples` allows, a share of
  each workload or so many of the only one; `StartEpoch` shuffles; `Learn` is one forward and
  backward pass; `OutOfMemory` is the handler, whose `continue` also skips the step of a window
  that ends there; `EndExample` applies the window when it is due; `Export` writes the weights,
  the manifest and the report.  A gradient is the set of questions it was computed from.
  `failures` is a history variable.
* `AdapterBundle` is what the two backends make of an adapter directory: `inject_lora` wraps the
  layers the manifest's configuration names, and `load_adapter_into_model` fills those the weights
  file has and refuses shapes that do not fit, except that a rank of one broadcasts.
* `EquivalenceGate` is `run_equivalence`, one request a step.  A compared decision is whether it
  agrees, deviates within the limit, flips and is in the tie band.  An error writes nothing.
* `PairedComparison` is `compare_reports` over two evaluations, which are commands here: the
  predictions grow request by request and are rewritten, then the report is written, so that a
  kill (or an error half-way, which leaves the same files) pairs new predictions with an old
  report.  `from` is a history variable of the document: the files a comparison was made of.
* `EvidenceReport` is `compat.py` as a command that records a gate, and `report.py`: `Gates` walks
  a whole document, `Rendering` keeps the gates of each artifact and the fields that identify it.
* `ReleaseBundle` is `release.py` beside `load_profile_registry`: the manifest pins files by name,
  the registry takes profiles by the id inside, the last file of an id winning.  `Replace`,
  `Withdraw` and `Correct` are the team's edits.
* `CandidateRelease` composes them over one disk: `checked` and `verdict` are the outcomes of
  `jah-report check` and of the verification as long as nobody has done anything since.

## 4. Runs

| Run | Instance | Checks | Shows |
| --- | --- | --- | --- |
| `scheduler_safety` | 5 calls, 2 units, 1 queue place, calls symmetric | `TypeOK`, `AdmissionCount`, `UnitsConserved`, `ThreadHoldsCapacity`, `CapacityBounds`, `NoLostWakeup`, `NoOvertaking`, `ImplementsAdmission` | capacity is exact, waiting is fair, and the scheduler keeps the promise of `AdmissionControl` |
| `scheduler_answers` | 3 calls, 1 unit, 1 queue place, fairness | `EveryCallAnswered`, `CapacityRecovered` | deadlines bound every wait; capacity comes back if operations end |
| `calibration_restarts` | 1 process, 3 examples (4 decisions), 2 workloads and the fallback, 3 configurations, 3 starts, 2 kills, 1 upgrade | `TypeOK`, `AcceptedOnEvidence`, `EvidenceFromServedModel`, `RecalibrationIsComplete`, `LosesOneRow` | with the cache deleted at an upgrade, acceptance rests on complete, distinct, current evidence |
| `evaluation_resume` | 3 examples (4 decisions), 3 selections, 2 models, 3 starts, 2 kills, 1 upgrade, 1 audit or drift check | `LoopTypeOK`, `EachDecisionOnce`, `ReportDescribesFile`, `OnlyErrorsAreQuarantined`, `LosesOneRow` | resumed runs leave a consistent file and report, and audits, also of half-written files, quarantine errors only |
| `engine_paths` | 9 requests, 7 configurations | `TypeOK`, `BranchesAreIsolated`, `DoubtfulIsReviewed`, `ScoresLikeReference`, `EveryCallEnds` | every path scores like the reference; acceptance is judged question by question |
| `service_answers` | 3 callers, 3 requests, 1 queue place | `OwnAnswers`, `AnsweredOnce`, `EveryPostAnswered` | abandoned threads disturb nobody, and everybody is answered |
| `dataset_splits` | 4 rows of 3 sources, 4 texts, 4 patterns of upstream splits, 2 builds, 1 kill, 2 seeds | `TypeOK`, `DuplicatesAreExact`, `SplitsDoNotLeak`, `BuiltSuiteIsUsable` | no related rows are used on two sides, even from a partial suite |
| `candidate_release` | 3 examples in windows of 2, 2 epochs, 2 adapter configurations, 2 regression requests of 2 decisions, 4 selections to evaluate, 2 profile files, 1 kill, seven budgets of commands | `CandidateTypeOK`, `StepsAreWhole`, `LossesStayInWindow`, `AdapterIsWhole`, `EquivalenceIsEarned`, `ComparisonIsPaired`, `CheckedEvidenceIsCurrent`, `VerifiedReleaseIsServed` | what each command vouches for is what it measured, whatever was overwritten, killed or edited |
| `calibration_stale_cache`, `calibration_refused`, `drift_healthy`, `audit_control` | smaller instances of the above | one property each | the disagreements of section 5 |

### Bounds, and why they are enough

As far as safety is concerned, the bounds only have to be large enough for the runs to test the model
and to tell it from the mutants: section 6 proves safety for all values.  For the liveness properties and the
disagreements they are all there is.

* **Scheduler.** Each call is made once.  Two units and five calls give a grant racing a timer
  while another unit is free, two waiters granted by one step (`ResumeTooLate`), and a newcomer
  that queues behind a pending grant; with three places, two of the five calls are also refused.
* **Calibration and evaluation.** A torn line matters to the example it belongs to and the one
  whose row is glued to it, so that one example of two questions and two of one are enough; three
  starts allow a kill, a resumption that is killed and a complete run.  `MinAccepted` is 2 in
  place of 59 and the control sample 2 in place of 10 rows, disputed at 50 % in place of 15 %:
  with so few decisions both sides of each gate are reached.
* **Engine.** Two choices of different lengths and a question that has no second pass give
  padding, a last microbatch that is not full and misaligned passes; the request of five options
  exceeds the token limit, and one request has a question with an exemplar, which shortens the
  common prefix.
* **Service.** One caller works, one waits, one is refused or takes over from one that gave up.
* **Candidate.** Three examples in windows of two give a full window, a short one at the end, an
  out of memory error at the first and at the last example of each, and one window that loses
  its step; one example has two questions, one of another's is not learnable, and one has none
  at all.  The two configurations share layers and differ in rank, so that a bundle mixed by a
  kill loads in part or is refused.  `Budgets` says how many commands of each kind a behaviour
  runs: the seven of the run pair the commands that meet (two trainings and the evidence,
  training and equivalence, equivalence and evidence, compatibility and evidence, evaluations
  and comparisons, these and the evidence, edits and releases), and since the commands meet only over files, all of them in one behaviour would
  add states and no new meeting.
* **Suite.** The threshold is 3/5 in place of 0.9: the smallest for which texts of two, three and
  four shingles form a chain of similar pairs whose ends are not similar.  Four rows give a chain
  from a test row to a training row through a shared source and a near duplicate.

### Fairness, and why the code justifies it

* `BoundedScheduler`: weak fairness of each call's loop steps and of its timer.  The asyncio loop
  runs every ready callback in turn and fires every timer.  There is none for worker threads:
  `EveryCallAnswered` holds although an operation may never return, and `CapacityRecovered` names
  the assumption that operations end.
* `DecisionEngine`: weak fairness of `Work`, that is, inference returns or raises.
* `DecisionService`: weak fairness of startup, of the refusal without an engine and of the
  deadline; none for the engine.
* The file models state no liveness: an operator may never start a command again.

Every passing run leaves deadlock unchecked where the system may stop for good because the bounds
on starts, calls or posts are used up; only `engine_paths` has no such bound, and deadlock is
checked there.

## 5. Disagreements found

Each is a run that TLC finds violated, and a finding in `PROJECT.json` with the quoted lines.

| Run | Property | The code | The document |
| --- | --- | --- | --- |
| `calibration_stale_cache` | `EvidenceFromServedModel` | cached rows are used whatever model produced them, and the profile is stamped with the current one | the runbook's recalibration after an upgrade |
| `calibration_refused` | `ServiceCanStart` | the fallback profile is not rewritten once a summary lists it, and its old stamp stops the service | the runbook's matching stamps |
| `drift_healthy` | `HealthyIsCleared` | `drift.py` looks for `disposition` where `evaluation.py` does not write it, and always alarms | the runbook's check that alerts are gone |
| `audit_control` | `QuarantineIsControlled` | control queries that fail count as not disputed | the non-optional control arm |

What else was seen while modelling, without a run of its own:

* a resumed evaluation takes the saved rows whatever model, adapter or profiles produced them, and
  reports them under the current configuration's hash (`evaluation.py:323`, `464`), where
  `M1_STATUS.md` promises reports with hashes of what they are about;
* the second pass of a few-shot request is compiled without its exemplars (`engine.py:119`);
* an answer whose probabilities are not finite is told to the client as its error
  (`service.py:194`);
* two calibrations over one cache count decisions twice (`evaluation.py:707`);
* the drift check does not filter the rows by the profile's workload (`drift.py:79`);
* the digest of the adapter's weights is written and never compared, and the scalar head goes on
  without an adapter whose manifest is missing (`adapter.py:225`, `scalar_head.py:128`);
* the equivalence report does not say which adapter it measured (`equivalence.py:197`, `289`), and
  for a model with recurrent layers the optimized path is the reference path (`huggingface.py:145`);
* the digest of the evaluation report, the model's revision and profiles that are not listed are
  not compared by the verification of a release (`release.py:101`);
* the comparison does not compare the digests of the predictions, and its verdict that all gates
  pass leaves out the selective gates that it copies (`evaluation.py:551`, `583`, `613`);
* a label mass that is not a number is not below the minimum (`compat.py:95`).

## 6. Proofs

Every safety invariant and every action property that a passing run checks is also a theorem,
checked by TLAPS for every value of the constants that satisfies the named assumptions, and TLC
evaluates each of these on the instances of the runs.  What they ask is what the code is given:

| Assumption | What it asks |
| --- | --- |
| `SchedulerAssumption`, `ServiceAssumption` | finitely many calls of the scheduler, at least one unit; a queue size that is a natural number |
| `CalibrationAssumption`, `EvaluationAssumption` | the examples of a split are distinct, each asks at least one question and none twice; workloads are not called like a phase of a run |
| `QualityAssumption` | an audit asks for at least one control row |
| `RequestAssumption`, `EngineAssumption`, `PromptAssumption` | what `schemas.py` lets in: at least one question, ids that differ, at least two options, which differ; the microbatch is any integer |
| `SplitsAssumption`, `PublicAssumption` | no split has the name for none; the threshold is a positive fraction, texts have finitely many shingles, the hash of a component names an ordinary split |
| `StoreAssumption`, `CandidateAssumption`, `ReleaseAssumption` | the profiles of the directory are a sequence of files, none of which is an output of a command; artifacts are |
| `TrainingAssumption`, `EquivalenceAssumption`, `SelectionAssumption` | finitely many examples, questions and decisions; windows of at least one example; memory counted in natural numbers |

The bounds on starts, kills, upgrades and commands are constants like the others: the theorems hold
for all of them.

**`BoundedSchedulerProofs`.**  The inductive invariant is

```
IInv == TypeOK /\ AdmissionCount /\ WithinCapacity /\ UnitsConserved
          /\ ThreadHoldsCapacity /\ NoLostWakeup /\ Answered
```

`AdmissionCount` and `UnitsConserved` tie the two counters to where the calls are; alone they are
not inductive, because a step that gives back capacity must know that its call still held it
(`TypeOK` and the location), that an exit with an exception has one (`Answered`), and that the
counter does not run below zero: a unit is taken only when `~Locked`, and a wake-up only spends
what was released.  `NoLostWakeup` needs `UnitsConserved` to know that a freed unit exists.  The
proof divides the actions into those that wake waiters and those that do not
(`StepsAreOfTwoKinds`); `OneMoves` and `WakeMoves` say how the counts change, once for each kind.

| Theorem | Establishes |
| --- | --- |
| `TypeCorrect` | the type invariant |
| `AdmissionIsCounted`, `UnitsAreConserved` | places and units are counted exactly through every exit |
| `ThreadsHoldCapacity`, `CapacityIsBounded` | abandoned threads are within the bounds |
| `WakeupsAreNotLost` | whoever waits for a free unit will be woken |
| `Implementation` | `BoundedScheduler` implements `AdmissionControl`: initial states and steps map under `Place` |
| `FirstComeFirstServed` | no overtaking; the additional invariant `Line` says that the deque is a total order with the grants in front |

**`SubsequenceLemmas` and `JsonLinesLemmas`.**  The library's induction theorems take the formula to
be proved as a parameter, which the installed provers cannot instantiate.  Induction is done by the
least number principle instead (`LeastNatural`): the set of numbers at which a fact fails would have
a least element, and the fact holds there because it holds before.  In this way `WhereReads` shows
that `Where` keeps what it should, in order and as often as it was there.  `Continues` says what a
file is after rows have been appended to it and a kill has cut some off: the beginning of the
earlier rows followed by that of the buffer.  It covers `Flush`, `Die`, the torn line and the
line glued to it at once.

**`CalibrationRunProofs`.**

| Theorem | Establishes |
| --- | --- |
| `CalibrationIsTyped`, `CacheLosesOneRowAtMost` | types, and what a kill costs, for any number of calibrations side by side |
| `EvidenceIsOfServedModel` | `EvidenceFromServedModel` if the cache is deleted on an upgrade, again for any number of calibrations |
| `AcceptsOnEvidence` | `AcceptedOnEvidence` as long as calibrations do not overlap |
| `RecalibrationMakesUp` | `RecalibrationIsComplete` for one calibration after the other |

`TypeOK` is inductive by itself.  The second line needs `EvidenceInv`: that the rows of the cache, what
each process has read or measured, and the samples of each profile are about one configuration;
without the deletion the run `calibration_stale_cache` violates it.  The third line needs `ScoringInv`: a
row of the cache or of a buffer belongs to no example that is still to do (`TodoOK`), what is in the
cache in part is known to be (`CacheOK`), and a profile that passed is whole and counts enough
distinct samples (`Sound`).  Its hypothesis `[]OneAtATime` cannot be dropped: what two
calibrations side by side put into one cache, a third counts twice, which `PROJECT.json` lists as a
hazard (`evaluation.py:707`) and TLC finds with two processes and three starts.  The last adds
`FittedInv`, what a process has written since it ended scoring.  It is stated for a set `Runs` of one
process, which starts any number of times: a process that is done says nothing of what another
writes after it.

**`QualityLoopProofs`.**

| Theorem | Establishes |
| --- | --- |
| `LoopIsTyped`, `OneRowIsLostAtMost` | types, and what a kill costs |
| `DecisionsAreMadeOnce` | `EachDecisionOnce`: no decision twice, and all of the selection in the end |
| `ReportsDescribeTheirFile` | `ReportDescribesFile` |
| `QuarantineHoldsErrors` | `OnlyErrorsAreQuarantined`, whatever the reviewer says and whenever the audit reads |

`EachDecisionOnce` is about the file, and a resumed run appends to the file what its memory does not
have.  `LoopInv` therefore relates the two: file and memory repeat nothing (`FileOK`, `MemoryOK`), an
example to do is to do once and no row of the file, the memory or the buffer is about it but those
of the one at hand (`TodoOK`, `BufferOK`), and from the rewriting on the file is the memory
(`WrittenOK`).

**`DecisionProofs`.**  For every request the schemas let in and every configuration of the engine:

| Theorem | Establishes |
| --- | --- |
| `EngineIsTyped` | the type invariant |
| `CacheIsNotWrittenInto` | `BranchesAreIsolated` |
| `EngineScoresLikeReference` | `DecisionEngine` implements `ReferenceScoring` |
| `AcceptanceIsEarned` | `DoubtfulIsReviewed` |
| `CallersGetTheirOwn`, `NobodyIsAnsweredTwice` | `OwnAnswers` and `AnsweredOnce` of the service, abandoned threads included |
| `EngineIsNotShared` | the thread that has the engine is the one at work, so that one copy of the engine's variables is enough |
| `ServiceKeepsThePromise` | the service takes and gives back places as `AdmissionControl` allows; `Implementation` is the other half |

The heart of `EngineInv` is `MeasuredInv`: each measurement has seen the whole prompt of its own
question and no more, and reads the options where that prompt printed them.  That the three paths
establish it takes three lemmas about prompts: a branch behind a shared prefix is the prompt
(`BranchIsPrompt`), padding is never read, and a microbatch is the next portion of the questions.
`AnswersInv` aligns the passes: what an answer says of an option is what the reference says of it,
although the second pass printed it elsewhere.  In the refinement (`StepRefines`) the call
and its reply are steps of the reference, and all scoring between them is a stutter.  `ServiceInv` adds to `EngineInv` that the engine works on
what the caller posted whose thread has it (`WorkerInv`), whether that caller still waits or not.

**`PublicSuiteProofs`.**

| Theorem | Establishes |
| --- | --- |
| `PrefixFilterIsComplete` | two texts whose similarity reaches the threshold share a shingle of their prefixes, so that the index of `cluster_duplicates` offers every pair it has to compare |
| `SuiteIsTyped` | types; no build imports a file that is missing or cut |
| `DuplicatesAreFound` | `DuplicatesAreExact` |
| `SplitsAreKeptApart` | `SplitsDoNotLeak`, of whole suites and of partial ones |
| `SuiteIsUsable` | `BuiltSuiteIsUsable` |

The prefix filter: the least common shingle has, in either text, only uncommon shingles below it, and
by `CeilingBound` there are at most as many of these as the prefix has room for besides it.

The loops over the rows are functions of the number of rows done; `Recursion` unfolds them and `UpTo`
does induction over that number, both from the least number principle.  What union-find computes is
stated without roots and paths: two rows are `Linked` if no set that is `Whole`, that is closed
under what the loop joins, separates them.  `RootsLink` and `ClustersLink` show that the roots are
equal just for linked rows, and the definition makes the rest short, since whatever is closed under
the links keeps linked rows together.  `RelatedAreLinked` ties it to the closure of pairs that the
properties use.  `SuiteInv` is then simple, for a build is a function of its pinned files: whatever
part of `suite.jsonl` there is, its rows are among `FinalRows(input)` (`Written`), and
`FinalKeepsApart` and `FinalIsUsable` say what those are.

**`CandidateReleaseProofs`.**  Of every behaviour of `CandidateSpec`, whatever the suites, budgets and
directories and however often commands run and are killed:

| Theorem | Establishes |
| --- | --- |
| `CandidateIsTyped` | `CandidateTypeOK` |
| `WindowsAreApplied`, `OnlyMemoryLosesExamples` | `StepsAreWhole`, `LossesStayInWindow` |
| `VouchedAdapterLoads` | `AdapterIsWhole` |
| `GateIsBorneOut` | `EquivalenceIsEarned` |
| `ComparesLikeWithLike` | `ComparisonIsPaired` |
| `EvidenceIsCurrent` | `CheckedEvidenceIsCurrent` |
| `ReleaseIsServed` | `VerifiedReleaseIsServed` |

*The release.*  `VerifiedReleaseIsServed` is not inductive: it speaks of the disk, and what the next
`Write` does to the disk is decided earlier, by the command that left its writes pending.  The
invariant is

```
ReleaseInv == StoreOK /\ (\A d \in Docs("release") : Manifested(d)) /\ Verified
```

`Verified` says that as long as the verdict stands the files match their pins (`Matched`) and no
pending write is to the manifest, the lock file or a profile.  `Manifested` says that a manifest,
on disk or about to be written (`Docs`), pins files of the directory only; without it a pinned
path could be one that another command writes.  Every action falls under one of three lemmas:
it leaves the files alone (`StandStill`), it hands over writes to other files (`WritesElsewhere`,
the training, the gates and the evidence), or it ends the verdict (`Unverified`, the edits and the
build); `DocsStay` covers the writing itself.  From `Matched` to what the service loads it takes
that the registry's choice of the last file of an id is defined (`LastIsListed`), which is the
least number principle on positions counted from the end.

*The types.*  `BaseInv` adds to them that a command at work has no writes pending, that a training has a
sample just as long as it runs, and that the locals of a command are empty while another is at work
(`ProcessOK`, `IdleOK`).  `StepKind` sorts the actions for what follows by what they do to the files: a
step waits, writes what is pending, kills, or hands over writes, and to which files.

*The training.*  `TrainingInv` says of the open window that the gradients are those of its examples
since memory last ran out in it (`GatheringOK`), of each step in the history that it has those of its
own window (`HistoryOK`), and of every example already passed that it is applied, lost, or in the open
window (`AccountedOK`).  `FailuresOK` keeps the history of the failures within the epoch.

*The files.*  `RowsInv` reasons with stamps: a report and rows of one stamp, on disk or about to be
written, were handed over by one command (`StampedOK`), and so bear each other out (`PairsOK`).
`TogetherInv` says which files belong together while no command was killed, `DocsFit` what each kind
of document holds, and `CheckedOK` that nothing is pending that the evidence was checked against.

**Only model-checked.**  The four liveness properties (`EveryCallAnswered`, `CapacityRecovered`,
`EveryCallEnds`, `EveryPostAnswered`), since liveness under fairness is beyond the prover, and the
four disagreements of section 5, which are counterexamples.

## 7. What is not modelled

`PROJECT.json` lists every part with its reason.  In short:

* **numbers**: softmax, temperatures, calibration fits, binomial bounds, similarity of exemplars,
  losses.  They enter as nondeterministic outcomes or constants;
* **hardware**: `benchmark.py`, `resource.py`, the figures `compat.py` measures, and the deviations
  between scoring paths that come from floating point (`equivalence.py` measures them and its
  gates are modelled; the engine model says that the paths read the same tokens);
* **parsing and validation of one message**: `schemas.py`, `workload.py`, `client.py`;
* **text**: the wording and the metrics of `EVIDENCE.md`, the explanations `review.py` generates,
  `diagnostics/*`;
* **planned**: the threshold fit, the order bias experiment
  (section 2).

Known simplifications in what is modelled: token boundaries are atoms, so that separate
tokenization of prefix and suffix equals that of the whole; the latencies of resumed rows are left
out; in the calibration model the profile directory has one file per workload, and two files of
one id do not occur (they do in `ReleaseBundle`); a training that is refused before its first
epoch, for want of examples or layers, is not an action, since it changes nothing; the drift check
is given the rows of one workload.  Further:

* a profile cut inside its last key, the reliability bins, counts as whole: nothing reads them;
* `Compatible` compares the configuration as a whole where `check_profile_compatibility` compares
  the named fields; configurations of the model differ in nothing else;
* the audit and the drift check refuse a file whose last line is cut; the code also refuses one with
  an undecodable line in the middle (`review.py:197`, `drift.py:184`), so that the model has more
  audits and checks than the code;
* `audit.json` is written at once, and so is a comparison's evaluation (`PairedComparison.Evaluate`
  is a fresh run; resumption is in `EvaluationRun`);
* an unexpected error of a handler (500) is left out, and 499 stands for a handler that was cancelled;
* two torn contents of a file count as equal, and a torn model file that still parses does not occur;
* the gates of a calibration or evaluation document (ECE, Brier score, all together) are one gate for
  each group.

**What the properties exempt.**  Some hazards are real in the code, and nothing in it prevents their
worst case.  The models have these cases, and the properties say what still holds around them:

| Hazard | Exempt | What the property shows |
| --- | --- | --- |
| an example with one cached row is taken as scored (`evaluation.py:713`) | `RecalibrationIsComplete`: examples in `spoiled` | a mishap costs no other example |
| a report and the predictions of another run (`evaluation.py:551`) | `ComparisonIsPaired`: once an evaluation was killed or raised, whether a report is of the predictions beside it | what is compared is the same decisions |
| new weights under an old manifest, layers without matrices (`adapter.py:209`, `:231`) | `AdapterIsWhole`: bundles whose digest is wrong, which the code never compares | a bundle with the right digest loads whole in both backends |
| profile files the manifest does not list (`release.py:109`) | `VerifiedReleaseIsServed`: the ids such files bring | every other id is served as listed |

## 8. Running the checks

```
tlc -workers 2 -config MCBoundedScheduler_safety.cfg MCBoundedScheduler
tlapm BoundedSchedulerProofs.tla
```

and likewise for each pair of `module` and `cfg` in `PROJECT.json`.  The longest runs
(`evaluation_resume`, `dataset_splits`, `candidate_release`) take a minute or two.
