--------------------------- MODULE CandidateRelease ---------------------------
(***************************************************************************)
(* A candidate on its way from training to release: jah-train, the         *)
(* compatibility and equivalence checks, jah-eval run and compare,         *)
(* jah-report and the release functions, called one after the other in any *)
(* order, and killed at any moment, over one set of files.                 *)
(***************************************************************************)
EXTENDS EvidenceReport, ReleaseBundle

Produced == {"weights", "manifest", "training", "equivalence", "rows", "compat", "compat_rows",
             "evidence", "release", "direct", "direct_rows", "generative", "generative_rows", "comparison"}

Kept == {"lock", "evaluation", "model"} \cup Listed

ASSUME CandidateAssumption ==
  /\ Files = Produced \cup Kept
  /\ Listed \cap (Produced \cup {"lock", "evaluation", "model"}) = {}
  /\ {"equivalence", "compat", "direct", "comparison"} \subseteq Artifacts
  /\ Artifacts \subseteq Produced \ {"release"}

CONSTANT Provided      \* the profiles there are from the start

cvars == <<store, process, gate, checked, verdict>>

CandidateInit ==
  /\ disk = [f \in Files |-> IF f \in Produced \/ f \in Listed \ Provided THEN Absent
                             ELSE IF f \in Listed THEN [kind |-> "profile", id |-> f, stamp |-> 0]
                             ELSE [kind |-> f, stamp |-> 0]]
  /\ command = "none" /\ writes = <<>> /\ left \in Budgets /\ commands = 0 /\ mishaps = 0
  /\ TrainingInit /\ GateInit
  /\ checked = "none" /\ verdict = "none"

(* What was checked are the artifacts of the time.                         *)
Train == TrainingStep /\ checked' = "none" /\ UNCHANGED <<gate, verdict>>

CheckEquivalence == EquivalenceStep /\ checked' = "none" /\ UNCHANGED <<process, verdict>>

Measure == ComparisonStep /\ checked' = "none" /\ UNCHANGED <<process, gate, verdict>>

Evidences == EvidenceStep /\ UNCHANGED <<process, gate, verdict>>

Release == ReleaseStep /\ UNCHANGED <<process, gate, checked>>

Proceed == Write /\ UNCHANGED <<process, gate, checked, verdict>>

Crash == Die /\ ProcessEnds /\ GateEnds /\ UNCHANGED <<checked, verdict>>

CandidateNext == Train \/ CheckEquivalence \/ Measure \/ Evidences \/ Release \/ Proceed \/ Crash

CandidateSpec == CandidateInit /\ [][CandidateNext]_cvars
-----------------------------------------------------------------------------
CandidateTypeOK ==
  /\ DOMAIN disk = Files
  /\ \A i \in DOMAIN writes : writes[i].file \in Files
  /\ command \in {"none", "train", "equivalence"} /\ (writes # <<>> => command = "none")
  /\ (command = "train") = (sample # {}) /\ at \in 1..Len(order) + 1 /\ epoch \in 0..Epochs
  /\ command # "equivalence" => compared = <<>>
  /\ checked \in {"none", "matches", "raised"} /\ verdict \in {"none", "valid", "invalid", "raised"}
=============================================================================
