--------------------------- MODULE PairedComparison ---------------------------
(***************************************************************************)
(* evaluation.compare_reports: an evaluation of the direct backend and one *)
(* of the generative backend, each with its predictions and its report,    *)
(* are compared and gated.  How an evaluation works is in EvaluationRun;   *)
(* here it is a command that leaves a prefix of its predictions beside an  *)
(* older report when it is killed or raises.  The figures are a choice.    *)
(***************************************************************************)
EXTENDS ArtifactStore, FiniteSets

CONSTANTS
  Selections,      \* what is evaluated: dataset, split and model, and the decisions, numbered
  GroupOf,         \* the workload and primitive of a decision
  Calibrations     \* the gates of calibrated groups, as an evaluation may find them

ASSUME SelectionAssumption ==
  \A s \in Selections : IsFiniteSet(s.decisions) /\ \A d \in s.decisions : GroupOf[d] # "all"

RowsFile == [direct |-> "direct_rows", generative |-> "generative_rows"]

Sides == DOMAIN RowsFile

(* The path of a gate in its document, its name, and its value.            *)
GateOf(part, name, passed) == [part |-> part, name |-> name, passed |-> passed]

Groups(decisions) == {GroupOf[d] : d \in decisions}

Predictions(decisions) == [kind |-> "predictions", stamp |-> Stamp, decisions |-> decisions]

(* An answer of the generative backend is never calibrated.                *)
EvaluationReport(side, s, calibration) ==
  [kind |-> "evaluation", stamp |-> Stamp, backend |-> side, about |-> s.about,
   groups |-> Groups(s.decisions), rows |-> Predictions(s.decisions),
   gates |-> IF side = "direct" THEN {GateOf(g, c.name, c.passed) : g \in Groups(s.decisions), c \in calibration}
             ELSE {}]

(* Request by request, then once more as a whole.                          *)
Incremental(file, decisions) ==
  [i \in 1..Cardinality(decisions) + 1 |->
     [file |-> file, doc |-> Predictions({d \in decisions : Cardinality({e \in decisions : e <= d}) < i})]]

EvaluateOne(side) ==
  \E s \in Selections, calibration \in Calibrations :
    Do("evaluate", Incremental(RowsFile[side], s.decisions)
         \o Overwritten(RowsFile[side], Predictions(s.decisions))
         \o Overwritten(side, EvaluationReport(side, s, calibration)))

(* The reports are read first, then the predictions.                       *)
ReportsPair ==
  /\ \A side \in Sides : Has(side, "evaluation") /\ disk[side].backend = side
  /\ disk["direct"].about = disk["generative"].about

LooseRowsPair ==
  \A side \in Sides : Has(RowsFile[side], "predictions")

RowsPair ==
  /\ \A side \in Sides : Has(RowsFile[side], "predictions")
  /\ disk["direct_rows"].decisions = disk["generative_rows"].decisions

MetricsPair == disk["direct"].groups = disk["generative"].groups

(* The gate of a selective decision is copied, and not among those that    *)
(* all have to pass.                                                       *)
AllPass(gates) == \A g \in gates : g.name = "selective" \/ g.passed

CompareReports ==
  IF ReportsPair /\ RowsPair /\ MetricsPair
  THEN \E good \in [disk["direct"].groups \cup {"latency"} -> BOOLEAN] :
         LET gates == disk["direct"].gates \cup {GateOf(g, "gate", good[g]) : g \in DOMAIN good}
         IN  Do("compare", Overwritten("comparison",
               [kind |-> "comparison", stamp |-> Stamp, decisions |-> Cardinality(disk["direct_rows"].decisions),
                gates |-> gates \cup {GateOf("all", "gate", AllPass(gates))},
                from |-> [f \in Sides \cup {RowsFile[side] : side \in Sides} |-> disk[f]]]))   \* from: not in the code
  ELSE Ask("compare")

ComparisonStep == (\E side \in Sides : EvaluateOne(side)) \/ CompareReports
-----------------------------------------------------------------------------
(* A comparison is of two evaluations of one selection, one by each        *)
(* backend, decision by decision; its rows are all of them, and those its  *)
(* reports were made from, unless an evaluation was killed or raised; and  *)
(* it passes only if no calibration of the direct report had failed.       *)
ComparisonIsPaired ==
  Has("comparison", "comparison") =>
    LET comparison == disk["comparison"]
        from == comparison.from
    IN  /\ \A side \in Sides : from[side].backend = side /\ from[side].about = from["direct"].about
        /\ \A side \in Sides :
             /\ Cardinality(from[RowsFile[side]].decisions) = comparison.decisions
             /\ from[RowsFile[side]].decisions = from["direct_rows"].decisions
             /\ mishaps = 0 => from[RowsFile[side]] = from[side].rows
        /\ GateOf("all", "gate", TRUE) \in comparison.gates =>
             \A g \in from["direct"].gates : g.passed \/ g.name # "calibration"
=============================================================================
