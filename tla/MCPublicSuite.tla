----------------------------- MODULE MCPublicSuite -----------------------------
EXTENDS PublicSuite

MCPinned == <<"archive">>

(* Three rows of the sentences of two documents, and a query.              *)
MCPrimitives == <<"boolean", "boolean", "boolean", "choice">>

(* "long" and "cut" are similar, "cut" and "brief" are, "long" and "brief" *)
(* are not; a text of less than five words has no shingle.                 *)
MCGrams == [t \in {"long", "cut", "brief", "short"} |->
              CASE t = "long"  -> 1..4
                [] t = "cut"   -> 2..4
                [] t = "brief" -> 2..3
                [] OTHER       -> {}]

MCSources == {"doc1", "doc2", "query"}

MCInputs ==
  {f \in [1..4 -> [source : MCSources, text : DOMAIN MCGrams, upstream : {"train", "dev", "test"}]] :
     /\ f[1].source = "doc1"
     /\ \A i \in 1..3 : f[i].source # "query"
     /\ f[4].source = "query" /\ f[4].text \in {"long", "short"}
     /\ \E g \in {<<"train", "train", "train", "train">>, <<"train", "train", "test", "train">>,
                  <<"train", "dev", "train", "train">>, <<"dev", "test", "test", "train">>} :
          \A i \in 1..4 : f[i].upstream = g[i]}

(* The hash depends on the seed and on every name of the component.        *)
MCBucket(seed, names) ==
  LET k == Cardinality(names) + (IF <<"cluster", 1>> \in names THEN 1 ELSE 0) + seed
  IN CASE k % 4 = 0 -> "train" [] k % 4 = 1 -> "locked_test"
       [] k % 4 = 2 -> "calibration" [] OTHER -> "development"
================================================================================
