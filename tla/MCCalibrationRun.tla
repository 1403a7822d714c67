--------------------------- MODULE MCCalibrationRun ---------------------------
EXTENDS CalibrationRun

CONSTANTS e1, e2, e3, q1, q2, w1, w2, support, c1, c2, c3

MCDataset   == <<e1, e2, e3>>
MCQuestions == (e1 :> <<q1, q2>>) @@ (e2 :> <<q1>>) @@ (e3 :> <<q1>>)
MCWorkloadOf == (e1 :> w1) @@ (e2 :> w1) @@ (e3 :> w2)

(* c3 is c1 with another prompt; c2 is another model.                      *)
MCBackboneOf == [c \in Configs |-> IF c = c2 THEN "other" ELSE "first"]

Symmetry == Permutations(Configs \ {c2})
================================================================================
