--------------------------- MODULE ReferenceScoring ---------------------------
(***************************************************************************)
(* What the decision engine promises for one request after another: either *)
(* an error, or at one stroke an answer to every question, each read from  *)
(* that question's own complete prompt, and for a choice scored in both    *)
(* orders from the two prompts (ADR-02: one full prompt per question is    *)
(* the correctness reference).  Batches, padding, prefix caches and the    *)
(* order of the work do not exist here.                                    *)
(***************************************************************************)
EXTENDS DecisionPrompts

CONSTANT Requests

VARIABLES asked, outcome

rvars == <<asked, outcome>>

Nothing == <<>>

(* The prompts one question is scored on.                                  *)
Passes(r, q) == IF r.passes = 2 /\ q.primitive = "choice" THEN {0, 1} ELSE {0}

ReferenceReadings(r, q, o) ==
  {LET c == Compiled(r, q, pass) IN Reading(c.prompt, c.options, o) :
     pass \in Passes(r, q)}

ReferenceAnswers(r) ==
  [i \in DOMAIN r.questions |->
     LET q == r.questions[i] IN
     [id |-> q.id,
      readings |-> [o \in {q.options[j] : j \in DOMAIN q.options} |->
                      ReferenceReadings(r, q, o)]]]

RInit == asked = Nothing /\ outcome = Nothing

RAsk == /\ asked = Nothing \/ outcome # Nothing
        /\ \E r \in Requests : asked' = <<r>>
        /\ outcome' = Nothing

RAnswer == /\ asked # Nothing /\ outcome = Nothing
           /\ outcome' = <<"response", ReferenceAnswers(asked[1])>>
           /\ UNCHANGED asked

RRefuse == /\ asked # Nothing /\ outcome = Nothing
           /\ \E e \in {"unavailable", "value_error"} : outcome' = <<e>>
           /\ UNCHANGED asked

RNext == RAsk \/ RAnswer \/ RRefuse

RSpec == RInit /\ [][RNext]_rvars
=============================================================================
