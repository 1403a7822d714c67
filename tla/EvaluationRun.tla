----------------------------- MODULE EvaluationRun -----------------------------
(***************************************************************************)
(* jah.evaluation.run_evaluation: a split is evaluated one request at a    *)
(* time, each answered request is appended to the predictions file, and at *)
(* the end the file is rewritten from memory and a report of it written.   *)
(* A run that was interrupted is continued with --resume, possibly with    *)
(* another selection of examples or after the model configuration changed. *)
(*                                                                         *)
(* A prediction row is the decision it belongs to and the configuration it *)
(* was made with; metrics, being functions of the rows, are the rows.      *)
(***************************************************************************)
EXTENDS Integers, FiniteSets, SequencesExt, Subsequences, JsonLines

CONSTANTS
  Dataset,      \* the examples of the suite, in order
  Questions,    \* the questions of each example's request, in order
  Selections,   \* what split, --workload, --max-examples and quarantine leave
  Configs,      \* contents the model configuration file takes
  NoReport,     \* a report file that is missing or does not parse
  MaxStarts, MaxMishaps, MaxUpgrades   \* bounds on the runs of the model

Examples == Range(Dataset)

ASSUME EvaluationAssumption ==
  /\ Dataset \in Seq(Examples) /\ IsInjective(Dataset)
  /\ DOMAIN Questions = Examples
  /\ \A e \in Examples : /\ Questions[e] \in Seq(Range(Questions[e])) \ {<<>>}
                         /\ IsInjective(Questions[e])
  /\ Selections \subseteq (SUBSET Examples) \ {{}}
  /\ {MaxStarts, MaxMishaps, MaxUpgrades} \subseteq Nat

VARIABLES
  config,       \* the model configuration file
  predictions,  \* the predictions file
  report,       \* the report file
  pc,           \* the command
  selected, model, saved, todo, rows, buffer,   \* its locals
  spoiled,      \* not in the code: examples a torn or glued line left in part
  starts, mishaps, upgrades   \* what has been used of the bounds

locals   == <<selected, model, saved, todo, rows>>
counters == <<starts, mishaps, upgrades>>
vars     == <<config, predictions, report, pc, locals, buffer, spoiled, counters>>

Decisions == {d \in [ex : Examples, q : UNION {Range(Questions[e]) : e \in Examples}] :
                d.q \in Range(Questions[d.ex])}
Rows      == {r \in [ex : Examples, q : {d.q : d \in Decisions}, config : Configs] :
                r.q \in Range(Questions[r.ex])}

Reports == [config : Configs, selected : SUBSET Examples, rows : Seq(Rows)]

TypeOK ==
  /\ config \in Configs
  /\ predictions \in Files(Rows)
  /\ report \in Reports \cup {NoReport}
  /\ pc \in {"idle", "evaluating", "rewriting", "reporting", "closing", "done"}
  /\ selected \in SUBSET Examples
  /\ model \in Configs
  /\ saved \in SUBSET Examples
  /\ todo \in Seq(Examples)
  /\ rows \in Seq(Rows)
  /\ buffer \in Seq(Rows)
  /\ spoiled \in SUBSET Examples
  /\ starts \in 0..MaxStarts /\ mishaps \in 0..MaxMishaps /\ upgrades \in 0..MaxUpgrades
  /\ buffer # <<>> => /\ pc = "evaluating" /\ todo # <<>>
                      /\ \A i \in 1..Len(buffer) : buffer[i].ex = Head(todo)

Init ==
  /\ config \in Configs
  /\ predictions = EmptyFile
  /\ report = NoReport
  /\ pc = "idle"
  /\ selected = {} /\ model = config /\ saved = {} /\ todo = <<>>
  /\ rows = <<>> /\ buffer = <<>>
  /\ spoiled = {}
  /\ starts = 0 /\ mishaps = 0 /\ upgrades = 0

-----------------------------------------------------------------------------

InPart(s) == {e \in ExamplesOf(s) : \E q \in Range(Questions[e]) :
                \A i \in 1..Len(s) : s[i].ex = e => s[i].q # q}

(* The selected examples that have no row yet: one row is enough for a     *)
(* request to be taken as answered.                                        *)
RepeatedTodo(S, existing) == Where(Dataset, S)

ImpatientTodo(S, existing) ==
  Where(Dataset, {e \in S : Len(existing) < Cardinality(S)})

Todo(S, existing) == Where(Dataset, S \ ExamplesOf(existing))

(* The handle is opened with "a" when there is something to resume, with   *)
(* "w" when there is not.                                                  *)
Truncated(existing) == EmptyFile

Opened(existing) == IF existing = <<>> THEN EmptyFile ELSE predictions

Start(S, resume) ==
  LET existing == IF resume THEN predictions.rows ELSE <<>> IN
  /\ pc \in {"idle", "done"} /\ starts < MaxStarts
  /\ starts' = starts + 1
  /\ pc' = "evaluating"
  /\ selected' = S
  /\ model' = config
  /\ saved' = ExamplesOf(existing)
  /\ rows' = Where(existing, {r \in Rows : r.ex \in S})
  /\ todo' = Todo(S, existing)
  /\ predictions' = Opened(existing)
  /\ spoiled' = IF Opened(existing) = EmptyFile THEN {} ELSE spoiled
  /\ UNCHANGED <<config, report, buffer, mishaps, upgrades>>

(* engine.evaluate answers all questions of the request or raises; each    *)
(* answer is recorded and its row buffered.                                *)
Record ==
  LET e == Head(todo) IN
  /\ pc = "evaluating" /\ todo # <<>>
  /\ Len(buffer) < Len(Questions[e])
  /\ LET row == [ex |-> e, q |-> Questions[e][Len(buffer) + 1], config |-> model] IN
       /\ rows' = Append(rows, row)
       /\ buffer' = Append(buffer, row)
  /\ UNCHANGED <<config, predictions, report, pc, selected, model, saved, todo, spoiled, counters>>

StickyFlush ==
  /\ pc = "evaluating" /\ todo # <<>>
  /\ Len(buffer) = Len(Questions[Head(todo)])
  /\ predictions' = Flushed(predictions, buffer)
  /\ todo' = Tail(todo)
  /\ spoiled' = IF predictions.end = "closed" THEN spoiled ELSE spoiled \cup InPart(predictions'.rows)
  /\ UNCHANGED <<config, report, pc, selected, model, saved, rows, buffer, counters>>

Flush ==                                \* pred_handle.flush(), after each request
  /\ pc = "evaluating" /\ todo # <<>>
  /\ Len(buffer) = Len(Questions[Head(todo)])
  /\ predictions' = Flushed(predictions, buffer)
  /\ buffer' = <<>>
  /\ todo' = Tail(todo)
  /\ spoiled' = IF predictions.end = "closed" THEN spoiled ELSE spoiled \cup InPart(predictions'.rows)
  /\ UNCHANGED <<config, report, pc, selected, model, saved, rows, counters>>

(* The file is opened with "w" and written again from memory ...           *)
BeginRewrite ==
  /\ pc = "evaluating" /\ todo = <<>>
  /\ pc' = "rewriting"
  /\ predictions' = EmptyFile
  /\ UNCHANGED <<config, report, locals, buffer, spoiled, counters>>

AppendingRewrite ==
  /\ pc = "rewriting"
  /\ pc' = "reporting"
  /\ predictions' = Flushed(predictions, Where(rows, {r \in Rows : r.ex \notin saved}))
  /\ UNCHANGED <<config, report, locals, buffer, spoiled, counters>>

EndRewrite ==
  /\ pc = "rewriting"
  /\ pc' = "reporting"
  /\ predictions' = Flushed(predictions, rows)
  /\ UNCHANGED <<config, report, locals, buffer, spoiled, counters>>

BeginReport ==                          \* ... and so is the report
  /\ pc = "reporting"
  /\ pc' = "closing"
  /\ report' = NoReport
  /\ UNCHANGED <<config, predictions, locals, buffer, spoiled, counters>>

EndReport ==
  /\ pc = "closing"
  /\ pc' = "done"
  /\ report' = [config |-> model, selected |-> selected, rows |-> rows]
  /\ UNCHANGED <<config, predictions, locals, buffer, spoiled, counters>>

(* The process is killed, or an exception closes its handle and ends it.   *)
Die ==
  /\ pc \notin {"idle", "done"} /\ mishaps < MaxMishaps
  /\ mishaps' = mishaps + 1
  /\ pc' = "idle"
  /\ predictions' \in IF pc = "rewriting" THEN Survivors(predictions, rows)
                                          ELSE Survivors(predictions, buffer)
  /\ buffer' = <<>>
  /\ spoiled' = spoiled \cup InPart(predictions'.rows)
  /\ UNCHANGED <<config, report, locals, starts, upgrades>>

Upgrade ==                              \* the operator edits the configuration
  /\ upgrades < MaxUpgrades
  /\ upgrades' = upgrades + 1
  /\ config' \in Configs \ {config}
  /\ UNCHANGED <<predictions, report, pc, locals, buffer, spoiled, starts, mishaps>>

Next == \/ \E S \in Selections, resume \in BOOLEAN : Start(S, resume)
        \/ Record \/ Flush \/ BeginRewrite \/ EndRewrite \/ BeginReport \/ EndReport
        \/ Die \/ Upgrade

Spec == Init /\ [][Next]_vars

-----------------------------------------------------------------------------
(* Correctness.                                                            *)

(* The predictions file never holds a decision twice, in whatever order    *)
(* runs are killed, resumed and started anew: compare_reports and          *)
(* _load_prediction_index (line 535) refuse a file that does.              *)
DecisionsAreDistinct == Distinct(predictions.rows)

(* A finished run has answered every question of every selected example,   *)
(* and no other, except where a torn or glued line left an example in part *)
(* (such an example is taken as answered, line 348).                       *)
SuiteIsCovered ==
  pc = "done" =>
    /\ ExamplesOf(report.rows) \subseteq selected
    /\ \A e \in selected \ spoiled : \A q \in Range(Questions[e]) :
         \E r \in Range(report.rows) : r.ex = e /\ r.q = q

(* However often runs are killed and resumed, they repeat no decision and  *)
(* skip none.                                                              *)
EachDecisionOnce == DecisionsAreDistinct /\ SuiteIsCovered

(* The report of a finished run describes the file beside it row by row,   *)
(* although resumed rows went through memory and torn ones were dropped.   *)
ReportDescribesFile ==
  pc = "done" => predictions = [rows |-> report.rows, end |-> "closed"]

(* A step loses one saved row at most, the one a torn line is glued to:    *)
(* only a fresh run and the last rewriting empty the file.                 *)
LosesOneRow ==
  [][\/ \E S \in SUBSET Examples : Start(S, FALSE)
     \/ BeginRewrite
     \/ Len(predictions'.rows) >= Len(predictions.rows) - 1]_vars
================================================================================
