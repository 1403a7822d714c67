------------------------------ MODULE PublicSuite ------------------------------
(***************************************************************************)
(* jah.public_data.build: pinned files are downloaded into a cache, their  *)
(* rows imported, near duplicates clustered, components that cross an      *)
(* upstream boundary quarantined, and the rest split and written to        *)
(* suite.jsonl, followed by the split manifest and the import report.      *)
(* Evaluation and training read suite.jsonl whenever they are started.     *)
(*                                                                         *)
(* A decision text is the set of its five-word shingles, numbered in the   *)
(* order of their hashes; two rows of one text are exact duplicates.  Rows *)
(* are numbered in the order of their ids.                                 *)
(***************************************************************************)
EXTENDS DatasetSplits, Subsequences, JsonLines

CONSTANTS
  Pinned,       \* the input files, in the order of the configuration
  Primitives,   \* the primitive of each row's question
  Sources, Grams, Inputs,       \* source groups, shingles of each text, contents
  Seeds, BuildSeed,             \* seeds given to the consumers, and the build's
  ThresholdNum, ThresholdDen,   \* the similarity threshold, 0.9 in the code
  Nothing,                      \* a JSON file that is missing or does not parse
  MaxBuilds, MaxMishaps         \* bounds on the runs of the model

Ids   == 1..Len(Primitives)
Texts == DOMAIN Grams
Rows  == [source : Sources, text : Texts, upstream : {"train", "dev", "test"}]

AllNames == ({"source"} \X Sources) \cup ({"cluster"} \X Ids)

ASSUME PublicAssumption ==
  /\ Pinned \in Seq(Range(Pinned)) /\ IsInjective(Pinned)
  /\ Primitives \in Seq(Range(Primitives))
  /\ Inputs \subseteq [Ids -> Rows]
  /\ \A t \in Texts : Grams[t] \subseteq Nat /\ IsFiniteSet(Grams[t])
  /\ BuildSeed \in Seeds
  /\ \A seed \in Seeds : \A names \in SUBSET AllNames : Bucket(seed, names) \in Splits \ {"task_holdout"}
  /\ {ThresholdNum, ThresholdDen} \subseteq Nat \ {0} /\ ThresholdNum <= ThresholdDen
  /\ {MaxBuilds, MaxMishaps} \subseteq Nat

VARIABLES
  input,      \* what the pinned files hold
  cache,      \* evals/cache/public, file by file
  pc, todo,   \* the build, and the files it still has to fetch or verify
  clustered, retained, examples,   \* its locals
  suite, manifest, report,         \* the files it writes
  uses,       \* not in the code: the splits rows were used in by the consumers
  builds, mishaps

locals == <<clustered, retained, examples>>
files  == <<suite, manifest, report>>
vars   == <<input, cache, pc, todo, locals, files, uses, builds, mishaps>>

-----------------------------------------------------------------------------
(* Import.                                                                 *)

UnfixedDev(upstream) == IF upstream = "test" THEN "locked_test" ELSE None

Fixed(upstream) ==                      \* the boundaries of dev and test are kept
  IF upstream = "test" THEN "locked_test"
  ELSE IF upstream = "dev" THEN "development" ELSE None

Example(i, row) ==
  [id |-> i, source |-> row.source, cluster |-> i, primitive |-> Primitives[i],
   upstream |-> row.upstream, fixed |-> Fixed(row.upstream), holdout |-> FALSE]

(* Near duplicates: two texts of Jaccard similarity at or over the         *)
(* threshold have a shingle in common among the first few of each, so that *)
(* only the rows an index holds under those are compared.  The code's      *)
(* comparison of their lengths only anticipates that of their similarity.  *)
CeilingOf(n) == (ThresholdNum * n + ThresholdDen - 1) \div ThresholdDen

ShortPrefix(g) ==
  {x \in g : Cardinality({y \in g : y <= x}) <= Cardinality(g) - CeilingOf(Cardinality(g))}

Prefix(g) ==
  {x \in g : Cardinality({y \in g : y <= x}) <= Cardinality(g) - CeilingOf(Cardinality(g)) + 1}

Similar(g, h) ==
  /\ g # {} /\ h # {}
  /\ ThresholdDen * Cardinality(g \cap h) >= ThresholdNum * Cardinality(g \cup h)

(* One iteration of cluster_duplicates: "kept" are the rows that are not   *)
(* exact duplicates of an earlier one.                                     *)
ClusterRow(rows, state, i) ==
  LET text(j) == rows[j].text
      twins   == {j \in state.kept : text(j) = text(i)}
      near    == {j \in state.kept : /\ Prefix(Grams[text(i)]) \cap Prefix(Grams[text(j)]) # {}
                                     /\ Similar(Grams[text(i)], Grams[text(j)])}
      same    == IF twins # {} THEN twins ELSE near
      joined  == {i} \cup same
  IN [root |-> Joined(state.root, joined, Min({state.root[j] : j \in joined})),
      kept |-> IF twins # {} THEN state.kept ELSE state.kept \cup {i}]

(* The state after each row, in the order of the rows.                     *)
Clustering(rows) ==
  LET state[i \in 0..Len(Primitives)] ==
        IF i = 0 THEN [root |-> [j \in Ids |-> j], kept |-> {}]
                 ELSE ClusterRow(rows, state[i - 1], i)
  IN state

Clusters(rows) == Clustering(rows)[Len(Primitives)].root

Clustered(rows) ==
  LET cluster == Clusters(rows)
  IN [i \in Ids |-> [Example(i, rows[i]) EXCEPT !.cluster = cluster[i]]]

(* quarantine_boundary_conflicts drops whole components.                   *)
Crosses(C) == Cardinality({<<e.upstream, e.fixed>> : e \in C}) > 1

RetainedByCluster(s) == Where(s, UNION {C \in ClusterComponents(s) : ~Crosses(C)})

Retained(s) == Where(s, UNION {C \in SourceComponents(s) : ~Crosses(C)})

(* The rows as they are written carry the split they were assigned.        *)
Unmarked(s) == s

Marked(s) ==
  LET assigned == Assigned(s, BuildSeed) IN
  [i \in 1..Len(s) |->
     [s[i] EXCEPT !.fixed = CHOOSE x \in Splits : <<s[i].id, x>> \in assigned]]

-----------------------------------------------------------------------------
ExampleRecords ==
  [id : Ids, source : Sources, cluster : Ids, primitive : Range(Primitives),
   upstream : {"train", "dev", "test"}, fixed : Splits \cup {None}, holdout : BOOLEAN]

TypeOK ==
  /\ input \in Inputs
  /\ cache \in [Range(Pinned) -> {"missing", "cut", "whole"}]
  /\ pc \in {"idle", "fetching", "storing", "importing", "splitting", "opening",
             "writing", "describing", "reporting", "done"}
  /\ todo \in Seq(Range(Pinned))
  /\ {clustered, retained, examples} \subseteq Seq(ExampleRecords)
  /\ suite \in Files(ExampleRecords)
  /\ manifest \in {Nothing} \cup SUBSET (Ids \X Splits)
  /\ report \in {Nothing} \cup SUBSET (Ids \X Splits)
  /\ uses \subseteq Ids \X Splits
  /\ builds \in 0..MaxBuilds /\ mishaps \in 0..MaxMishaps
  /\ pc \notin {"idle", "fetching", "storing"} => \A f \in Range(Pinned) : cache[f] = "whole"

Init ==
  /\ input \in Inputs
  /\ cache = [f \in Range(Pinned) |-> "missing"]
  /\ pc = "idle" /\ todo = <<>>
  /\ clustered = <<>> /\ retained = <<>> /\ examples = <<>>
  /\ suite = EmptyFile /\ manifest = Nothing /\ report = Nothing
  /\ uses = {}
  /\ builds = 0 /\ mishaps = 0

Begin ==
  /\ pc \in {"idle", "done"} /\ builds < MaxBuilds
  /\ builds' = builds + 1
  /\ pc' = "fetching" /\ todo' = Pinned
  /\ UNCHANGED <<input, cache, locals, files, uses, mishaps>>

(* A missing file is downloaded, its checksum taken before it is stored.   *)
Download ==
  /\ pc = "fetching" /\ todo # <<>> /\ cache[Head(todo)] = "missing"
  /\ pc' = "storing"
  /\ cache' = [cache EXCEPT ![Head(todo)] = "cut"]
  /\ UNCHANGED <<input, todo, locals, files, uses, builds, mishaps>>

Store ==
  /\ pc = "storing"
  /\ pc' = "fetching"
  /\ cache' = [cache EXCEPT ![Head(todo)] = "whole"]
  /\ UNCHANGED <<input, todo, locals, files, uses, builds, mishaps>>

(* A cached file is verified every time; a mismatch ends the build.        *)
TrustedCache ==
  /\ pc = "fetching" /\ todo # <<>> /\ cache[Head(todo)] # "missing"
  /\ todo' = Tail(todo)
  /\ pc' = IF Tail(todo) = <<>> THEN "importing" ELSE "fetching"
  /\ UNCHANGED <<input, cache, locals, files, uses, builds, mishaps>>

Verify ==
  /\ pc = "fetching" /\ todo # <<>> /\ cache[Head(todo)] # "missing"
  /\ IF cache[Head(todo)] = "whole"
     THEN /\ todo' = Tail(todo)
          /\ pc' = IF Tail(todo) = <<>> THEN "importing" ELSE "fetching"
     ELSE pc' = "idle" /\ UNCHANGED todo
  /\ UNCHANGED <<input, cache, locals, files, uses, builds, mishaps>>

Import ==                 \* cluster_duplicates, then quarantine_boundary_conflicts
  /\ pc = "importing"
  /\ pc' = "splitting"
  /\ clustered' = Clustered(input)
  /\ retained' = Retained(clustered')
  /\ UNCHANGED <<input, cache, todo, examples, files, uses, builds, mishaps>>

Split ==                                \* split_assignments, validate_m1_suite
  /\ pc = "splitting"
  /\ IF Raises(retained) \/ ~Ready(retained)
     THEN pc' = "idle" /\ UNCHANGED examples
     ELSE pc' = "opening" /\ examples' = Marked(retained)
  /\ UNCHANGED <<input, cache, todo, clustered, retained, files, uses, builds, mishaps>>

Open ==                                 \* open("w") empties the file
  /\ pc = "opening"
  /\ pc' = "writing"
  /\ suite' = EmptyFile
  /\ UNCHANGED <<input, cache, todo, locals, manifest, report, uses, builds, mishaps>>

(* The buffer is written out whenever it is full, in the middle of a row   *)
(* or not.                                                                 *)
Spill ==
  /\ pc = "writing" /\ suite = EmptyFile
  /\ suite' \in Survivors(EmptyFile, examples) \ {EmptyFile}
  /\ UNCHANGED <<input, cache, pc, todo, locals, manifest, report, uses, builds, mishaps>>

Close ==
  /\ pc = "writing"
  /\ pc' = "describing"
  /\ suite' = Flushed(EmptyFile, examples)
  /\ UNCHANGED <<input, cache, todo, locals, manifest, report, uses, builds, mishaps>>

DescribeImported ==
  /\ pc = "describing"
  /\ pc' = "reporting"
  /\ manifest' = Assigned(clustered, BuildSeed)
  /\ UNCHANGED <<input, cache, todo, locals, suite, report, uses, builds, mishaps>>

Describe ==                             \* build_split_manifest, of the rows written
  /\ pc = "describing"
  /\ pc' = "reporting"
  /\ manifest' = Assigned(examples, BuildSeed)
  /\ UNCHANGED <<input, cache, todo, locals, suite, report, uses, builds, mishaps>>

Report ==                               \* the import report, with its hashes
  /\ pc = "reporting"
  /\ pc' = "done"
  /\ report' = manifest
  /\ UNCHANGED <<input, cache, todo, locals, suite, manifest, uses, builds, mishaps>>

(* The network fails, the disk is full or the process is killed; write_text*)
(* leaves what it was writing in part.                                     *)
Die ==
  /\ pc \notin {"idle", "done"} /\ mishaps < MaxMishaps
  /\ mishaps' = mishaps + 1
  /\ pc' = "idle"
  /\ manifest' \in IF pc = "describing" THEN {manifest, Nothing} ELSE {manifest}
  /\ report' \in IF pc = "reporting" THEN {report, Nothing} ELSE {report}
  /\ UNCHANGED <<input, cache, todo, locals, suite, uses, builds>>

Discard(f) ==                           \* the operator removes a file that was refused
  /\ pc = "idle" /\ cache[f] = "cut"
  /\ cache' = [cache EXCEPT ![f] = "missing"]
  /\ UNCHANGED <<input, pc, todo, locals, files, uses, builds, mishaps>>

-----------------------------------------------------------------------------
(* The consumers build the split manifest of the file they find.           *)

Loadable == suite.end # "cut" /\ Loads(suite.rows)

Evaluate(seed) ==                       \* jah-eval, for whichever split
  /\ Loadable /\ Ready(suite.rows) /\ ~Raises(suite.rows)
  /\ uses' = uses \cup Assigned(suite.rows, seed)
  /\ UNCHANGED <<input, cache, pc, todo, locals, files, builds, mishaps>>

Train(seed) ==                          \* jah-train, which does not ask for readiness
  /\ Loadable /\ ~Raises(suite.rows)
  /\ uses' = uses \cup {u \in Assigned(suite.rows, seed) : u[2] = "train"}
  /\ UNCHANGED <<input, cache, pc, todo, locals, files, builds, mishaps>>

Next ==
  \/ Begin \/ Download \/ Store \/ Verify \/ Import \/ Split
  \/ Open \/ Spill \/ Close \/ Describe \/ Report \/ Die
  \/ \E f \in Range(Pinned) : Discard(f)
  \/ \E seed \in Seeds : Evaluate(seed) \/ Train(seed)

Spec == Init /\ [][Next]_vars

-----------------------------------------------------------------------------
(* Correctness, against the relations the rows themselves are in.          *)

SameText(i, j) ==
  \/ input[i].text = input[j].text
  \/ Similar(Grams[input[i].text], Grams[input[j].text])

(* The pairs that are connected by way of the first rows.                  *)
Pairs == Ids \X Ids

Through(R, k) == R \cup {p \in Pairs : <<p[1], k>> \in R /\ <<k, p[2]>> \in R}

Paths(R) ==
  LET paths[k \in 0..Len(Primitives)] == IF k = 0 THEN R ELSE Through(paths[k - 1], k)
  IN paths

Closure(R) == Paths(R)[Len(Primitives)]

SimilarRows == Closure({p \in Pairs : SameText(p[1], p[2])})
RelatedRows ==
  Closure({p \in Pairs : SameText(p[1], p[2]) \/ input[p[1]].source = input[p[2]].source})

(* cluster_duplicates finds every pair at or over the threshold although   *)
(* it compares only rows that share a shingle of their prefixes (line 272),*)
(* and names a cluster after its first row, whatever the order of merging. *)
ClustersAreExact ==
  LET similar == SimilarRows IN
  pc = "splitting" =>
    \A e \in Range(clustered) : e.cluster = Min({j \in Ids : <<e.id, j>> \in similar})

(* A row is dropped exactly when it is related, through sources and near   *)
(* duplicates and other rows, to one from another upstream split.          *)
QuarantineIsExact ==
  LET related == RelatedRows IN
  pc = "splitting" =>
    \A e \in Range(clustered) :
      e \in Range(retained) <=> \A j \in Ids : <<e.id, j>> \in related => input[j].upstream = e.upstream

(* What is quarantined is decided on exactly the duplicates there are.     *)
DuplicatesAreExact == ClustersAreExact /\ QuarantineIsExact

(* Related rows are never used in two splits, and no row in two: not by    *)
(* two commands given different seeds, nor when one of them read a suite   *)
(* that a killed build had left in part.                                   *)
RelatedStayTogether ==
  LET related == RelatedRows IN
  \A u, v \in uses : <<u[1], v[1]>> \in related => u[2] = v[2]

(* Nothing related to an upstream dev or test row is ever used in another  *)
(* split than that row's, above all not for training or calibration.       *)
HeldOutStaysOut ==
  LET related == RelatedRows IN
  \A u \in uses : \A j \in Ids :
    <<u[1], j>> \in related /\ input[j].upstream # "train"
      => u[2] = IF input[j].upstream = "test" THEN "locked_test" ELSE "development"

(* No split leaks into another one, nor an upstream one into any.          *)
SplitsDoNotLeak == RelatedStayTogether /\ HeldOutStaysOut

(* A completed build leaves a suite that its consumers accept and split as *)
(* the manifest and the report say, whatever their seed.                   *)
BuiltSuiteIsUsable ==
  pc = "done" =>
    /\ Loadable /\ Ready(suite.rows) /\ ~Raises(suite.rows)
    /\ \A seed \in Seeds : Assigned(suite.rows, seed) = manifest
    /\ report = manifest
================================================================================
