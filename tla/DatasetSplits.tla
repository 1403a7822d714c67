----------------------------- MODULE DatasetSplits -----------------------------
(***************************************************************************)
(* jah.m1_dataset: examples that share a source or a near-duplicate        *)
(* cluster, directly or through others, form a component, and a component  *)
(* is assigned to one split as a whole.                                    *)
(*                                                                         *)
(* An example is a record of the fields that decide its split: its id, its *)
(* source group, its cluster, the primitive of its question, the upstream  *)
(* split it comes from, the split it is fixed to and the holdout mark.     *)
(***************************************************************************)
EXTENDS Naturals, FiniteSets, SequencesExt

CONSTANTS
  Bucket(_, _),       \* _ordinary_split: a hash of the seed and an identity
  None,               \* no upstream split, or no fixed split
  RequiredPrimitives,
  MinimumDecisions

Splits == {"train", "development", "calibration", "locked_test", "task_holdout"}

ASSUME SplitsAssumption ==
  /\ None \notin Splits
  /\ MinimumDecisions \in Nat

-----------------------------------------------------------------------------
(* Union-find, as the function from each node to its root: the classes of  *)
(* the nodes S become one class, whose root is r.                          *)
Joined(root, S, r) == [x \in DOMAIN root |-> IF \E y \in S : root[x] = root[y] THEN r ELSE root[x]]

SourceName(e)  == <<"source", e.source>>
ClusterName(e) == <<"cluster", e.cluster>>
NamesOf(C)     == UNION {{SourceName(e), ClusterName(e)} : e \in C}

ClusterComponents(examples) ==
  {{e \in Range(examples) : e.cluster = c} : c \in {e.cluster : e \in Range(examples)}}

(* The roots once the first i examples have been joined.                   *)
JoinedBy(root, e) == Joined(root, {SourceName(e), ClusterName(e)}, root[ClusterName(e)])

SourceRoots(examples) ==
  LET roots[i \in 0..Len(examples)] ==
        IF i = 0 THEN [n \in NamesOf(Range(examples)) |-> n] ELSE JoinedBy(roots[i - 1], examples[i])
  IN roots

SourceComponents(examples) ==
  LET root == SourceRoots(examples)[Len(examples)]
  IN {{e \in Range(examples) : root[SourceName(e)] = r} : r \in Range(root)} \ {{}}

-----------------------------------------------------------------------------
(* split_assignments raises for a component that lies on both sides of a   *)
(* boundary ...                                                            *)
Conflicting(C) ==
  \/ Cardinality({e.fixed : e \in C}) # 1
  \/ Cardinality({e.upstream : e \in C} \ {None}) > 1
  \/ Cardinality({e.holdout : e \in C}) # 1
  \/ \E e \in C : e.holdout /\ e.fixed \notin {None, "task_holdout"}

(* ... and puts the others where they are fixed, or where the hash of the  *)
(* names of all their sources and clusters falls.                          *)
SplitOf(C, seed) ==
  LET e == CHOOSE x \in C : TRUE IN
  IF e.fixed # None THEN e.fixed
  ELSE IF e.holdout THEN "task_holdout"
  ELSE Bucket(seed, NamesOf(C))

Raises(examples) == \E C \in SourceComponents(examples) : Conflicting(C)

Assigned(examples, seed) ==
  UNION {{<<e.id, SplitOf(C, seed)>> : e \in C} : C \in SourceComponents(examples)}

(* The readiness gate of validate_m1_suite, for requests of one question.  *)
Ready(examples) ==
  /\ Len(examples) >= MinimumDecisions
  /\ \A p \in RequiredPrimitives : \E e \in Range(examples) : e.primitive = p

(* load_m1_dataset refuses two rows of one id.                             *)
Loads(examples) == \A i, j \in 1..Len(examples) : examples[i].id = examples[j].id => i = j
================================================================================
