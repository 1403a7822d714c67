--------------------------- MODULE DecisionPrompts ---------------------------
(***************************************************************************)
(* What compiler.py makes of a question.  A prompt is a sequence of        *)
(* tokens, and a token a pair of what it is and of whose: the system text, *)
(* one few-shot example of the question, the state, the question, one per  *)
(* option in the order in which they are printed, and the answer boundary. *)
(* Labels are positions: the i-th printed option has the i-th letter.      *)
(***************************************************************************)
EXTENDS Subsequences, SequencesExt

CONSTANT MaximumInputTokens

ASSUME PromptAssumption == MaximumInputTokens \in Nat

System == <<"system", "">>
State == <<"state", "">>
Boundary == <<"answer", "">>
Pad == <<"pad", "">>

Primitives == {"boolean", "choice", "score"}

(* Pass 1 rotates the options of a choice by one; the two values of a      *)
(* boolean and the ordered levels of a score stay as they are.             *)
PrintedOptions(q, pass) ==
  IF pass = 1 /\ q.primitive = "choice"
  THEN Append(Tail(q.options), Head(q.options))
  ELSE q.options

(* compile_request for one question.  Exemplars, which the caller or the   *)
(* configuration supplies for the questions in r.shots, come before the    *)
(* state, and only the first pass is given them.                           *)
Compiled(r, q, pass) ==
  LET printed == PrintedOptions(q, pass)
      example == IF pass = 0 /\ q.id \in r.shots THEN <<<<"example", q.id>>>> ELSE <<>>
  IN  [id |-> q.id, primitive |-> q.primitive, options |-> printed,
       prompt |-> <<System>> \o example \o <<State, <<"question", q.id>>>>
                    \o [i \in DOMAIN printed |-> <<"option", printed[i]>>]
                    \o <<Boundary>>]

Fits(c) == Len(c.prompt) <= MaximumInputTokens

CompiledPass(r, pass) ==
  [i \in DOMAIN r.questions |-> Compiled(r, r.questions[i], pass)]

(* The questions a pass scores: all, and then once more the choices.       *)
Scored(r, pass) ==
  LET all == CompiledPass(r, pass)
  IN  Where(all, {all[i] : i \in {j \in DOMAIN all : pass = 0 \/ all[j].primitive = "choice"}})

(* prefix_cache: everything up to the end of the state.                    *)
PrefixLength(c) == CHOOSE i \in DOMAIN c.prompt : c.prompt[i] = State

Prefix(c) == SubSeq(c.prompt, 1, PrefixLength(c))

SuffixAfter(c, n) == SubSeq(c.prompt, n + 1, Len(c.prompt))

SharesPrefix(cs) == \A i \in DOMAIN cs : IsPrefix(Prefix(cs[1]), cs[i].prompt)

(* What the model is asked when an option's logit is read: everything it   *)
(* has seen, and the letter whose logit is taken.                          *)
Reading(seen, options, o) ==
  [seen |-> seen, label |-> CHOOSE i \in DOMAIN options : options[i] = o]
=============================================================================
