--------------------------- MODULE MCDecisionEngine ---------------------------
(***************************************************************************)
(* Requests of three questions: two choices of different length, so that   *)
(* prompts are padded and rotations differ, and a boolean or a score       *)
(* between them, which the second pass leaves out.                         *)
(***************************************************************************)
EXTENDS DecisionEngine

route == [id |-> "route", primitive |-> "choice", options |-> <<"billing", "technical", "other">>]
urgent == [id |-> "urgent", primitive |-> "boolean", options |-> <<"false", "true">>]
tone == [id |-> "tone", primitive |-> "choice", options |-> <<"calm", "angry">>]
quality == [id |-> "quality", primitive |-> "score", options |-> <<"low", "high">>]
verbose == [id |-> "verbose", primitive |-> "choice", options |-> <<"a", "b", "c", "d", "e">>]

MCMaximumInputTokens == 8

Lists == {<<route, urgent, tone>>, <<quality, tone>>, <<urgent>>, <<tone, verbose>>}

Ask(questions, passes, shots) ==
  [questions |-> questions, passes |-> passes, shots |-> shots, profile |-> "routing"]

MCRequests == {Ask(qs, passes, {}) : qs \in Lists, passes \in {1, 2}}
                \cup {Ask(<<route, urgent, tone>>, 2, {"tone"})}

Configured(sequential, linear, prefix, profile) ==
  [forceSequential |-> sequential, linearAttention |-> linear, prefixCache |-> prefix,
   microbatch |-> 2, profile |-> profile]

Routing == [id |-> "routing", proven |-> TRUE, current |-> TRUE, primitive |-> "choice",
            cardinalities |-> 3..3, reviewOnly |-> FALSE, limited |-> TRUE]

MCEngines == {Configured(TRUE, FALSE, TRUE, Routing), Configured(FALSE, TRUE, TRUE, Routing),
              Configured(FALSE, FALSE, TRUE, Routing), Configured(FALSE, FALSE, FALSE, Routing),
              Configured(TRUE, FALSE, TRUE, [Routing EXCEPT !.proven = FALSE]),
              Configured(TRUE, FALSE, TRUE, [Routing EXCEPT !.reviewOnly = TRUE]),
              Configured(TRUE, FALSE, TRUE, [Routing EXCEPT !.limited = FALSE])}
=============================================================================
