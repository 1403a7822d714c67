---------------------------- MODULE AdapterBundle ----------------------------
(***************************************************************************)
(* A directory with an adapter as the two backends load it.  The manifest  *)
(* says which layers are wrapped and at which rank, the weights file has   *)
(* the matrices; a wrapped layer without matrices there keeps its initial  *)
(* ones, which change nothing.  The digest of the weights is not compared. *)
(***************************************************************************)
EXTENDS TrainingRun

(* A load that raised, and a model without wrapped layers.                 *)
Refused == [kind |-> "refused"]
Plain   == [kind |-> "loaded", layers |-> {}, adapted |-> {}]

KeepsShape(weights, c) == weights.rank \in {1, c.rank}    \* copy_ broadcasts

DefaultLoadInto(c, weights) ==
  IF Injected(c) \cap weights.layers # {} /\ ~KeepsShape(weights, c) THEN Refused
  ELSE [kind |-> "loaded", layers |-> UNION {Targeted[t] : t \in DOMAIN Targeted},
        adapted |-> weights.layers, training |-> weights.stamp]

LoadInto(c, weights) ==
  IF Injected(c) \cap weights.layers # {} /\ ~KeepsShape(weights, c) THEN Refused
  ELSE [kind |-> "loaded", layers |-> Injected(c), adapted |-> weights.layers \cap Injected(c),
        training |-> weights.stamp]

(* Either file missing or unreadable raises.                               *)
LoadBundle ==
  IF Has("manifest", "manifest") /\ Has("weights", "weights")
  THEN LoadInto(disk["manifest"].config, disk["weights"]) ELSE Refused

DirectLoad == LoadBundle

(* The scalar head goes on without the adapter when there is no manifest.  *)
ScalarHeadLoad == IF Has("manifest", "absent") THEN Plain ELSE LoadBundle

Loads == {DirectLoad, ScalarHeadLoad}

Vouched == Has("manifest", "manifest") /\ disk["manifest"].digest = disk["weights"]

(* A bundle whose digest is right loads, in either backend, and adapts     *)
(* every layer the configuration names; and unless a training was killed,  *)
(* the bundle is that of the training that the report is about.            *)
AdapterIsWhole ==
  /\ Vouched => \A load \in Loads :
       /\ load.kind = "loaded"
       /\ load.layers = Injected(disk["manifest"].config) /\ load.adapted = load.layers
  /\ mishaps = 0 /\ writes = <<>> =>
       \/ \A f \in {"weights", "manifest", "training"} : Has(f, "absent")
       \/ Vouched /\ disk["training"].stamp = disk["weights"].stamp
=============================================================================
