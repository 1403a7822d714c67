------------------------------ MODULE QualityLoop ------------------------------
(***************************************************************************)
(* What is done with the predictions an evaluation leaves: jah.review      *)
(* audits the wrong ones with a reviewer model and a control sample of the *)
(* right ones, a later evaluation leaves out the examples whose labels the *)
(* audit put in doubt, and jah.drift compares the accepted predictions     *)
(* with the bounds of a calibration profile.                               *)
(*                                                                         *)
(* The commands share only files: they may run at the same time, and each  *)
(* sees a file as another one left it, or is just writing it.              *)
(***************************************************************************)
EXTENDS EvaluationRun

CONSTANTS
  Correct, Accepted,     \* by configuration, the decisions it gets right and accepts
  AuditLimit,            \* --max-audits, 0 when it is not given
  MinControl,            \* 10 in the code
  DisputePercent,        \* --max-control-dispute-rate, 15 in the code
  Breach(_, _),          \* the upper bound for so many errors in so many exceeds the target
  Near(_, _),            \* ... or comes near it
  Dropped(_, _),         \* the coverage is 5% below the profile's
  Idle, NoArtifact, NoCheck,
  MaxReviews             \* bound on the audits and drift checks of the model

ASSUME QualityAssumption ==
  /\ {Correct, Accepted} \subseteq [Configs -> SUBSET Decisions]
  /\ {AuditLimit, DisputePercent, MaxReviews} \subseteq Nat
  /\ MinControl \in Nat \ {0}

VARIABLES
  audit,        \* the audit that is running: its errors and its control sample
  artifact,     \* artifacts/review/audit.json: the decisions in quarantine
  heard,        \* not in the code: was there a control row for it, and one that was judged
  drift,        \* the result of the last drift check, and whether there was cause
  reviews

loopVars == <<audit, artifact, heard, drift, reviews>>
allVars  == <<vars, loopVars>>

DecisionOf(r) == [ex |-> r.ex, q |-> r.q]
Right(r)      == DecisionOf(r) \in Correct[r.config]

LoopTypeOK ==
  /\ TypeOK
  /\ audit \in {Idle} \cup [errors : SUBSET Rows, control : SUBSET Rows]
  /\ artifact \in {NoArtifact} \cup SUBSET Decisions
  /\ heard \in {"none", "silent", "judged"}
  /\ drift \in {NoCheck} \cup [recalibrate : BOOLEAN, cause : BOOLEAN]
  /\ reviews \in 0..MaxReviews
  /\ audit # Idle => \A r \in audit.errors : ~Right(r) /\ \A s \in audit.control : Right(s)

LoopInit == Init /\ audit = Idle /\ artifact = NoArtifact /\ heard = "none" /\ drift = NoCheck /\ reviews = 0

-----------------------------------------------------------------------------
(* jah-review audit.                                                       *)

Taken(errors) ==                        \* disagreements[: args.max_audits]
  IF AuditLimit # 0 /\ AuditLimit < Len(errors) THEN SubSeq(errors, 1, AuditLimit) ELSE errors

(* run_audit reads the predictions, every line of which has to decode, and *)
(* draws its control sample.                                               *)
BeginAudit ==
  LET errors     == Taken(Where(predictions.rows, {r \in Rows : ~Right(r)}))
      agreements == {r \in Range(predictions.rows) : Right(r)}
      size       == Min({Cardinality(agreements), Max({MinControl, Len(errors) \div 2})})
  IN /\ audit = Idle /\ reviews < MaxReviews
     /\ predictions.end # "cut"
     /\ \E control \in kSubset(size, agreements) :
          audit' = [errors |-> Range(errors), control |-> control]
     /\ reviews' = reviews + 1
     /\ UNCHANGED <<vars, artifact, heard, drift>>

(* The reviewer is asked about every row; a query that fails counts as     *)
(* "unclear".  Recommendations stand unless it disputes too much of the    *)
(* control sample.                                                         *)
Quarantine(recommended, disputed) ==
  IF 100 * Cardinality(disputed) <= DisputePercent * Cardinality(audit.control)
  THEN {DecisionOf(r) : r \in recommended} ELSE {}

Heard(answered) ==
  IF audit.control = {} THEN "none" ELSE IF answered = {} THEN "silent" ELSE "judged"

AllVerdicts ==
  \E recommended \in SUBSET (audit.errors \cup audit.control), answered \in SUBSET audit.control :
    /\ artifact' = Quarantine(recommended, recommended \cap answered)
    /\ heard' = Heard(answered)

Verdicts ==
  \E recommended \in SUBSET audit.errors, answered \in SUBSET audit.control :
  \E disputed \in SUBSET answered :
    /\ artifact' = Quarantine(recommended, disputed)
    /\ heard' = Heard(answered)

EndAudit ==
  /\ audit # Idle
  /\ Verdicts
  /\ audit' = Idle
  /\ UNCHANGED <<vars, drift, reviews>>

(* A reply whose confidence is no number, or the end of the process, loses *)
(* the audit.                                                              *)
LoseAudit ==
  /\ audit # Idle
  /\ audit' = Idle
  /\ UNCHANGED <<vars, artifact, heard, drift, reviews>>

-----------------------------------------------------------------------------
(* jah-eval run --exclude-reviewed-quarantine: one doubtful question takes *)
(* its whole example out; nothing is left out when there is no artifact.   *)
Excluded == IF artifact = NoArtifact THEN {} ELSE {d.ex : d \in artifact}

StartExcluding(S, resume) ==
  /\ S \ Excluded # {}
  /\ Start(S \ Excluded, resume)
  /\ UNCHANGED loopVars

-----------------------------------------------------------------------------
(* jah-eval drift.                                                         *)

(* A line of the predictions file, with the fields drift.py asks for.      *)
Line(r) ==
  [right |-> Right(r),
   answer |-> [disposition |-> IF DecisionOf(r) \in Accepted[r.config] THEN "accept" ELSE "review"]]

Disposition(line) == IF "disposition" \in DOMAIN line THEN line.disposition ELSE "absent"

(* check_prediction_drift: two critical alerts, and two warnings that have *)
(* to come together.                                                       *)
Alarm(accepted, all) ==
  LET errors == Len(SelectSeq(accepted, LAMBDA l : ~l.right))
  IN \/ accepted # <<>> /\ Breach(errors, Len(accepted))
     \/ 2 * Len(accepted) < all
     \/ accepted # <<>> /\ Near(errors, Len(accepted)) /\ Dropped(Len(accepted), all)

Lines == [i \in 1..Len(predictions.rows) |-> Line(predictions.rows[i])]

AcceptedLines == SelectSeq(Lines, LAMBDA l : Disposition(l) = "accept")

TrulyAccepted == SelectSeq(Lines, LAMBDA l : l.answer.disposition = "accept")

DriftCheck ==
  /\ predictions.end # "cut" /\ predictions.rows # <<>>
  /\ reviews < MaxReviews
  /\ reviews' = reviews + 1
  /\ drift' = [recalibrate |-> Alarm(AcceptedLines, Len(Lines)),
               cause |-> pc # "done" \/ Alarm(TrulyAccepted, Len(Lines))]
  /\ UNCHANGED <<vars, audit, artifact, heard>>

-----------------------------------------------------------------------------
Evaluation == Next /\ UNCHANGED loopVars

LoopNext ==
  \/ Evaluation
  \/ BeginAudit \/ EndAudit \/ LoseAudit
  \/ \E S \in Selections, resume \in BOOLEAN : StartExcluding(S, resume)
  \/ DriftCheck

LoopSpec == LoopInit /\ [][LoopNext]_allVars

-----------------------------------------------------------------------------
(* Correctness.                                                            *)

(* A label is quarantined only for a decision some model got wrong: the    *)
(* control sample, which holds right answers, is never quarantined, nor is *)
(* anything of a suite that every model answers right.                     *)
OnlyErrorsAreQuarantined ==
  artifact # NoArtifact =>
    \A d \in artifact : \E c \in Configs : d \notin Correct[c]

(* The control arm is not optional: recommendations are not applied when   *)
(* there were right predictions to control the reviewer on and it judged   *)
(* none of them, because every such query failed.                          *)
QuarantineIsControlled == artifact \notin {NoArtifact, {}} => heard # "silent"

(* The drift check clears the predictions of a recalibrated model that     *)
(* were accepted often enough and with few enough errors.                  *)
HealthyIsCleared == drift # NoCheck /\ drift.recalibrate => drift.cause
================================================================================
