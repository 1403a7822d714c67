-------------------------- MODULE MCCandidateRelease --------------------------
(***************************************************************************)
(* Three examples in windows of two, so that the last window is short; one *)
(* has two questions, one has none to learn from.  Two configurations of   *)
(* the adapter that share a layer but not the rank.                        *)
(***************************************************************************)
EXTENDS CandidateRelease

Question(labelled, tokens, offered) == [labelled |-> labelled, tokens |-> tokens, offered |-> offered]
Fine == Question(TRUE, 3, TRUE)

MCTrainable == {"e1", "e2", "e3"}
MCWorkload  == [e \in MCTrainable |-> "w"]
MCQuestions == [e \in MCTrainable |->
  CASE e = "e1" -> <<Fine, Question(TRUE, 9, TRUE)>>
    [] e = "e2" -> <<Question(TRUE, 3, FALSE), Fine, Fine>>
    [] e = "e3" -> <<Question(FALSE, 3, TRUE)>>]

MCConfigs  == {[targets |-> {"q"}, rank |-> 4], [targets |-> {"q", "v"}, rank |-> 8]}
MCTargeted == [t \in {"q", "v"} |-> IF t = "q" THEN {"layer1.q", "layer2.q"} ELSE {"layer2.v"}]

MCRegression == <<{"a", "b"}, {"c", "d"}>>
Comparison(agrees, close, flips, tie) == [agrees |-> agrees, close |-> close, flips |-> flips, tie |-> tie]
MCComparisons == {Comparison(TRUE, TRUE, TRUE, TRUE), Comparison(TRUE, TRUE, FALSE, FALSE), Comparison(FALSE, FALSE, FALSE, TRUE)}
MCReserved == {2, 3}

\* the second selection is the first under --limit, the third of another dataset
MCSelections == {[about |-> "dev", decisions |-> {1, 2}], [about |-> "dev", decisions |-> {1}],
                 [about |-> "new", decisions |-> {1, 2, 3}], [about |-> "dev", decisions |-> {1, 2, 3}]}
MCGroupOf == <<"g1", "g1", "g2">>
Calibration(calibrated, selective) ==
  {[name |-> "calibration", passed |-> calibrated], [name |-> "selective", passed |-> selective]}
MCCalibrations == {{}, Calibration(TRUE, FALSE), Calibration(FALSE, TRUE)}

MCKinds == {"train", "equivalence", "evaluate", "compare", "compat", "report", "edit", "release"}
Budget(allowed) == [k \in MCKinds |-> IF k \in DOMAIN allowed THEN allowed[k] ELSE 0]
MCBudgets == {Budget([train |-> 2, report |-> 1]),
              Budget([train |-> 1, equivalence |-> 1]),
              Budget([equivalence |-> 1, compat |-> 1, report |-> 3]),
              Budget([compat |-> 2, report |-> 3]),
              Budget([evaluate |-> 3, compare |-> 2]),
              Budget([evaluate |-> 2, compare |-> 1, report |-> 2]),
              Budget([edit |-> 2, release |-> 3])}

MCProfileFiles == <<"p1", "p2">>
MCProvided     == {"p1"}
MCFiles     == Produced \cup Kept
MCArtifacts == {"manifest", "training", "equivalence", "compat", "direct", "generative", "comparison"}
=============================================================================
