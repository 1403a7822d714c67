---------------------------- MODULE EvidenceReport ----------------------------
(***************************************************************************)
(* report.py and compat.py.  jah-report renders every gate recorded in the *)
(* JSON artifacts into EVIDENCE.md and checks the file against them.  The  *)
(* compatibility check, which runs the model over its dataset, is one of   *)
(* the commands that record a gate.  A rendering is the set of the gates   *)
(* of each artifact with the fields that identify it; wording is left out, *)
(* and of the metrics what counts is whether there are any.                *)
(***************************************************************************)
EXTENDS EquivalenceGate, PairedComparison

CONSTANT Artifacts      \* the JSON files below artifacts/

VARIABLE checked        \* the outcome of the last command, if it was jah-report check

(* ------------------------------- compat.py ----------------------------- *)
(* A label mass below the minimum, or a frozen dataset that has changed,   *)
(* raises before anything is written.                                      *)
CompatReport(gates) == [kind |-> "compat", stamp |-> Stamp, gates |-> gates]

CompatFails == Ask("compat")

TokenizerOnly == Do("compat", Overwritten("compat", CompatReport({})))

Feasibility(accurate, ahead) == GateOf(0, "feasibility", accurate /\ ahead)

Compat == \E accurate, ahead \in BOOLEAN :
  Do("compat", Overwritten("compat_rows", [kind |-> "compat_rows", stamp |-> Stamp])
       \o Overwritten("compat", CompatReport({Feasibility(accurate, ahead)})))

(* ------------------------------- report.py ----------------------------- *)
TopLevelGates(doc) ==
  CASE doc.kind = "equivalence" -> {GateOf(0, "passed", doc.passed)}
    [] doc.kind = "comparison" -> {g \in doc.gates : g.part = "all"}
    [] OTHER -> {}

(* collect_gates walks the whole document: part is 0 for the document of   *)
(* the equivalence check as a whole and i for its i-th request.            *)
Gates(doc) ==
  CASE doc.kind = "equivalence" ->
         {GateOf(0, "passed", doc.passed), GateOf(0, "memory", doc.memory)}
           \cup {GateOf(0, g, doc.summary[g]) : g \in DOMAIN doc.summary}
           \cup {GateOf(i, g, doc.requests[i][g]) : i \in DOMAIN doc.requests, g \in DOMAIN doc.summary}
    [] doc.kind \in {"compat", "comparison", "evaluation"} -> doc.gates
    [] OTHER -> {}

(* collect_metrics: the others that have metrics have gates too.           *)
HasMetrics(doc) == doc.kind = "evaluation"

(* One that does not parse stops the command, and so does finding none.    *)
ArtifactsLoad == /\ \A f \in Artifacts : ~Has(f, "torn")
                 /\ \E f \in Artifacts : ~Has(f, "absent")

Shown == {f \in Artifacts : Gates(disk[f]) # {} \/ HasMetrics(disk[f])}

Rendering == [f \in Shown |-> [stamp |-> disk[f].stamp, gates |-> Gates(disk[f])]]

Evidence == [kind |-> "evidence", shown |-> Rendering]

Generate == IF ArtifactsLoad THEN Do("report", Overwritten("evidence", Evidence)) ELSE Ask("report")

Matches == ArtifactsLoad /\ disk["evidence"] = Evidence

Check == Ask("report") /\ checked' = IF Matches THEN "matches" ELSE "raised"

EvidenceStep ==
  \/ checked' = "none" /\ (CompatFails \/ TokenizerOnly \/ Compat \/ Generate)
  \/ Check
-----------------------------------------------------------------------------
(* While the check stands, every artifact is readable, each that has gates *)
(* is shown as it is now, and a gate that failed anywhere in it, in one    *)
(* request only, is shown to have failed.                                  *)
CheckedEvidenceIsCurrent ==
  checked = "matches" =>
    LET shown == disk["evidence"].shown IN
    /\ \A f \in Artifacts : ~Has(f, "torn")
    /\ \A f \in DOMAIN shown : ~Has(f, "absent") /\ shown[f].stamp = disk[f].stamp
    /\ \A f \in {"compat", "comparison", "direct"} : ~Has(f, "absent") =>
         \A g \in disk[f].gates : f \in DOMAIN shown /\ g \in shown[f].gates
    /\ Has("equivalence", "equivalence") =>
         LET requests == disk["equivalence"].requests IN
         \A i \in DOMAIN requests : \A g \in DOMAIN requests[i] :
           ~requests[i][g] => GateOf(i, g, FALSE) \in shown["equivalence"].gates
=============================================================================
