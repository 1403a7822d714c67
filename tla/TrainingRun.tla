----------------------------- MODULE TrainingRun -----------------------------
(***************************************************************************)
(* training/train.py: train_adapter takes its sample of the training       *)
(* split, shuffles it in every epoch, adds up gradients over a window of   *)
(* examples, and applies them at the window's end.  An out of memory error *)
(* throws away what the window has so far, and the step with it when it    *)
(* strikes at the window's last example.  Tensors are left out: a gradient *)
(* is the set of the questions it was computed from.                       *)
(***************************************************************************)
EXTENDS ArtifactStore, FiniteSets

CONSTANTS
  Trainable,       \* the examples of the training split, of the workload asked for
  Workload,        \* of each example
  Questions,       \* of each example, as compiled
  MaxInputTokens, MaxSamples,    \* MaxSamples is 0 for None
  Epochs, Accumulation,
  Configs,         \* LoRA configurations: the layers to adapt, and the rank
  Targeted         \* the linear layers of the model that a target names

ASSUME TrainingAssumption ==
  /\ IsFiniteSet(Trainable) /\ \A e \in Trainable : IsFiniteSet(DOMAIN Questions[e])
  /\ {MaxInputTokens, MaxSamples} \subseteq Nat
  /\ {Epochs, Accumulation} \subseteq Nat \ {0}

VARIABLES
  config, sample,       \* of this training
  order, epoch, at,     \* shuffled, the epoch, and idx + 1
  learnt,               \* how many questions of the example are through
  grads, accumulated,   \* the gradients, and accumulated_loss
  history,              \* loss_history, with the gradients of each step
  failures              \* not in the code: where in this epoch memory ran out

process == <<config, sample, order, epoch, at, learnt, grads, accumulated, history, failures>>
tvars   == <<store, process>>

TrainingInit ==
  /\ config = <<>> /\ sample = {} /\ order = <<>> /\ epoch = 0 /\ at = 1 /\ learnt = 0
  /\ grads = {} /\ accumulated = {} /\ history = <<>> /\ failures = {}

(* The process ends, or is killed.                                         *)
ProcessEnds ==
  /\ config' = <<>> /\ sample' = {} /\ order' = <<>> /\ epoch' = 0 /\ at' = 1 /\ learnt' = 0
  /\ grads' = {} /\ accumulated' = {} /\ history' = <<>> /\ failures' = {}

-----------------------------------------------------------------------------
(* The sample: everything, as many of each workload, or so many of the one.*)
Of(w) == {e \in Trainable : Workload[e] = w}

Workloads == {Workload[e] : e \in Trainable}

Samples ==
  IF MaxSamples = 0 \/ MaxSamples >= Cardinality(Trainable) THEN {Trainable}
  ELSE LET share == MaxSamples \div Cardinality(Workloads)
       IN  {s \in SUBSET Trainable : \A w \in Workloads :
              \/ Cardinality(s \cap Of(w)) = share
              \/ Cardinality(Of(w)) < share /\ Of(w) \subseteq s}

Orders(s) == {o \in [1..Cardinality(s) -> s] : \A e \in s : \E i \in DOMAIN o : o[i] = e}

(* inject_lora                                                             *)
Injected(c) == UNION {Targeted[t] : t \in c.targets}

BeginTraining(c) ==
  /\ Begin("train", "train")
  /\ Injected(c) # {}                  \* the optimizer refuses no parameters
  /\ \E s \in Samples \ {{}} : sample' = s
  /\ config' = c
  /\ UNCHANGED <<disk, writes, mishaps, order, epoch, at, learnt, grads, accumulated, history, failures>>

Learnable(q) == q.labelled /\ q.tokens <= MaxInputTokens /\ q.offered

Usable(e) == Cardinality({i \in DOMAIN Questions[e] : Learnable(Questions[e][i])})

EpochOver == at > Len(order)

StartEpoch ==
  /\ Goes("train") /\ EpochOver /\ epoch < Epochs
  /\ \E o \in Orders(sample) : order' = o
  /\ epoch' = epoch + 1 /\ at' = 1 /\ learnt' = 0 /\ failures' = {}
  /\ grads' = {} /\ accumulated' = {}
  /\ UNCHANGED <<config, sample, history>>

Piece(p, k) == [epoch |-> epoch, at |-> p, question |-> k]

Unlearnt == ~EpochOver /\ learnt < Usable(order[at])

(* One forward and one backward pass.                                      *)
Learn ==
  /\ Goes("train") /\ Unlearnt
  /\ learnt' = learnt + 1
  /\ grads' = grads \cup {Piece(at, learnt + 1)}
  /\ accumulated' = accumulated \cup {Piece(at, learnt + 1)}
  /\ UNCHANGED <<config, sample, order, epoch, at, history, failures>>

NextExample == at' = at + 1 /\ learnt' = 0

ForgetfulOutOfMemory ==
  /\ Goes("train") /\ Unlearnt
  /\ grads' = {} /\ failures' = failures \cup {at}
  /\ NextExample
  /\ UNCHANGED <<config, sample, order, epoch, history, accumulated>>

(* The handler continues with the next example, also past a step.          *)
OutOfMemory ==
  /\ Goes("train") /\ Unlearnt
  /\ grads' = {} /\ accumulated' = {} /\ failures' = failures \cup {at}
  /\ NextExample
  /\ UNCHANGED <<config, sample, order, epoch, history>>

WholeWindowsOnly == at % Accumulation = 0

Due == at % Accumulation = 0 \/ at = Len(order)

EndExample ==
  /\ Goes("train") /\ ~EpochOver /\ ~Unlearnt
  /\ IF Due
     THEN /\ history' = Append(history, [epoch |-> epoch, at |-> at, applied |-> grads, loss |-> accumulated])
          /\ grads' = {} /\ accumulated' = {}
     ELSE UNCHANGED <<history, grads, accumulated>>
  /\ NextExample
  /\ UNCHANGED <<config, sample, order, epoch, failures>>

(* export_adapter writes the weights, then the manifest with their digest; *)
(* the digest stands for what it was made from.                            *)
Weights  == [kind |-> "weights", stamp |-> Stamp, layers |-> Injected(config), rank |-> config.rank]
Manifest == [kind |-> "manifest", digest |-> Weights, config |-> config]
Report   == [kind |-> "training", stamp |-> Stamp, steps |-> Len(history), samples |-> Cardinality(sample)]

Export ==
  /\ EpochOver /\ epoch = Epochs
  /\ Ends("train", Overwritten("weights", Weights) \o Overwritten("manifest", Manifest)
                     \o Overwritten("training", Report))
  /\ ProcessEnds

TrainingStep == \/ \E c \in Configs : BeginTraining(c)
                \/ StartEpoch \/ Learn \/ OutOfMemory \/ EndExample \/ Export
-----------------------------------------------------------------------------
(* The window of an example up to it, and where the window ends.           *)
Window(p) == (((p - 1) \div Accumulation) * Accumulation + 1)..p

WindowEnd(p) == LET last == ((p - 1) \div Accumulation + 1) * Accumulation
                IN  IF last < Len(order) THEN last ELSE Len(order)

Fell(from, to) == failures \cap (from..to) # {}

Pieces(p) == {Piece(p, k) : k \in 1..Usable(order[p])}

Surviving(p) == UNION {Pieces(i) : i \in {j \in Window(p) : ~Fell(j, p)}}

(* A step applies what its own window of its own epoch has computed since  *)
(* memory last ran out, every question of it once, and reports the loss of *)
(* just these questions.                                                   *)
StepsAreWhole ==
  \A i \in DOMAIN history : history[i].epoch = epoch =>
    history[i].applied = Surviving(history[i].at) /\ history[i].loss = history[i].applied

(* An epoch leaves out no question but for want of memory at or after it   *)
(* in its window.                                                          *)
LossesStayInWindow ==
  command = "train" /\ EpochOver =>
    \A p \in DOMAIN order :
      \/ Fell(p, WindowEnd(p))
      \/ \E i \in DOMAIN history : history[i].epoch = epoch /\ Pieces(p) \subseteq history[i].applied
=============================================================================
