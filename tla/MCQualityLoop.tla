----------------------------- MODULE MCQualityLoop -----------------------------
EXTENDS QualityLoop

CONSTANTS e1, e2, e3, q1, q2, c1, c2

MCDataset    == <<e1, e2, e3>>
MCQuestions  == (e1 :> <<q1, q2>>) @@ (e2 :> <<q1>>) @@ (e3 :> <<q1>>)
MCSelections == {{e1, e2, e3}, {e1, e2}, {e2, e3}}

(* Both models get an easy decision right and a hard one wrong, and each   *)
(* one that the other does not.                                            *)
MCCorrect  == (c1 :> {[ex |-> e1, q |-> q1], [ex |-> e2, q |-> q1], [ex |-> e3, q |-> q1]})
                @@ (c2 :> {[ex |-> e1, q |-> q1], [ex |-> e1, q |-> q2], [ex |-> e3, q |-> q1]})
MCAccepted == MCCorrect

MCBreach(errors, n)  == errors > 0
MCNear(errors, n)    == n < 3
MCDropped(n, all)    == n < all
================================================================================
