-------------------------- MODULE MCDecisionService --------------------------
(***************************************************************************)
(* Three callers, one place in the queue: one works, one waits, one is     *)
(* refused, or takes over from a caller that gave up.                      *)
(***************************************************************************)
EXTENDS DecisionService

CONSTANTS c1, c2, c3

MCCallers == {c1, c2, c3}

route == [id |-> "route", primitive |-> "choice", options |-> <<"billing", "technical">>]
tone == [id |-> "tone", primitive |-> "choice", options |-> <<"calm", "angry">>]
verbose == [id |-> "verbose", primitive |-> "choice", options |-> <<"a", "b", "c", "d">>]

MCMaximumInputTokens == 7

Ask(questions, passes) ==
  [questions |-> questions, passes |-> passes, shots |-> {}, profile |-> "none"]

MCRequests == {Ask(<<route, tone>>, 1), Ask(<<tone>>, 2), Ask(<<verbose>>, 1)}

MCEngines == {[forceSequential |-> FALSE, linearAttention |-> FALSE, prefixCache |-> TRUE, microbatch |-> 2,
               profile |-> [id |-> "routing", proven |-> FALSE, current |-> TRUE, primitive |-> "choice",
                            cardinalities |-> {2}, reviewOnly |-> TRUE, limited |-> FALSE]]}
=============================================================================
