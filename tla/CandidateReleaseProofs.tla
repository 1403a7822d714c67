------------------------ MODULE CandidateReleaseProofs ------------------------
(***************************************************************************)
(* For any suites, samples, budgets and verdicts of the gates, and for any *)
(* number of commands and kills: what a training applies, what an adapter  *)
(* bundle, a gate, a comparison and the evidence say, and what the service *)
(* loads after a verification that found the release valid.                *)
(***************************************************************************)
EXTENDS CandidateRelease, FiniteSetTheorems, SequenceTheorems, WellFoundedInduction, TLAPS

(* The documents a file has or is about to get.                            *)
Written(ws, f) == {ws[i].doc : i \in {j \in DOMAIN ws : ws[j].file = f}}

Docs(f) == {disk[f]} \cup Written(writes, f)

(* Sequences of writes to some of the files.                               *)
WritesTo(fs, ws) == \E ds : ws \in Seq([file : fs, doc : ds])

(* What the verification of a release looks at.                            *)
Released == {"release", "lock"} \cup Listed

Quiet == Files \ Released

StoreOK ==
  /\ disk = [f \in Files |-> disk[f]]
  /\ WritesTo(Files, writes)

(* A set of natural numbers has a least element.                           *)
LEMMA LeastElement ==
  ASSUME NEW S \in SUBSET Nat, S # {}
  PROVE  \E x \in S : \A y \in S : x <= y
<1>1. PICK x \in S : \A y \in S : <<y, x>> \notin OpToRel(<, Nat)
  BY NatLessThanWellFounded, WFMin, Zenon
<1>2. ASSUME NEW y \in S
      PROVE  x <= y
  <2>1. y \in Nat /\ x \in Nat
    OBVIOUS
  <2>2. ~(y < x)
    BY <1>1, <2>1 DEF OpToRel
  <2> QED
    BY <2>1, <2>2
<1> QED
  BY <1>2

(* The registry finds the last readable file of every id there is.         *)
LEMMA LastIsListed ==
  ASSUME NEW id \in DOMAIN Registry
  PROVE  LastOf(id) \in Sound
<1> DEFINE n == Len(ProfileFiles)
           Bears(i) == ProfileFiles[i] \in Sound /\ disk[ProfileFiles[i]].id = id
           S == {m \in Nat : m <= n /\ n - m \in 1..n /\ Bears(n - m)}
<1>1. n \in Nat /\ DOMAIN ProfileFiles = 1..n
  BY ReleaseAssumption
<1>2. PICK f \in Sound : disk[f].id = id
  BY DEF Registry
<1>3. PICK i \in 1..n : ProfileFiles[i] = f
  BY <1>1, <1>2 DEF Sound, Listed
<1>4. n - i \in S
  <2>1. n - (n - i) = i /\ n - i \in Nat /\ n - i <= n
    BY <1>1
  <2> QED
    BY <2>1, <1>2, <1>3
<1>5. PICK x \in S : \A y \in S : x <= y
  BY <1>4, LeastElement
<1> DEFINE l == n - x
<1>6. l \in 1..n /\ Bears(l)
  BY <1>1
<1>7. ASSUME NEW j \in 1..n, j > l, ProfileFiles[j] \in Sound, disk[ProfileFiles[j]].id = id
      PROVE  FALSE
  <2>1. n - (n - j) = j /\ n - j \in Nat /\ n - j <= n
    BY <1>1
  <2>2. n - j \in S
    BY <2>1, <1>7
  <2>3. x <= n - j
    BY <1>5, <2>2
  <2> QED
    BY <2>3, <1>1, <1>7
<1>8. \E k \in DOMAIN ProfileFiles :
         /\ ProfileFiles[k] \in Sound /\ disk[ProfileFiles[k]].id = id
         /\ \A j \in DOMAIN ProfileFiles : j > k /\ ProfileFiles[j] \in Sound => disk[ProfileFiles[j]].id # id
  BY <1>1, <1>6, <1>7
<1> QED
  BY <1>8 DEF LastOf

-----------------------------------------------------------------------------
(* ------------------------ sequences of writes -------------------------- *)
LEMMA SeqElements ==
  ASSUME NEW S, NEW s \in Seq(S)
  PROVE  DOMAIN s = 1..Len(s) /\ Len(s) \in Nat /\ \A i \in 1..Len(s) : s[i] \in S
OBVIOUS

(* Sequences over a set are sequences over a greater one.                  *)
LEMMA SeqWidens ==
  ASSUME NEW S, NEW T, S \subseteq T, NEW s \in Seq(S)
  PROVE  s \in Seq(T)
<1>1. \A i \in 1..Len(s) : s[i] \in T
  BY SeqElements
<1> QED
  BY <1>1

(* The files of the writes, one by one.                                    *)
LEMMA FilesOfWrites ==
  ASSUME NEW fs, NEW ws, WritesTo(fs, ws)
  PROVE  /\ \A i \in DOMAIN ws : ws[i].file \in fs
         /\ DOMAIN ws = 1..Len(ws) /\ Len(ws) \in Nat
<1>1. PICK ds : ws \in Seq([file : fs, doc : ds])
  BY DEF WritesTo
<1>2. DOMAIN ws = 1..Len(ws) /\ Len(ws) \in Nat /\ \A i \in 1..Len(ws) : ws[i] \in [file : fs, doc : ds]
  BY <1>1, SeqElements, Zenon
<1> QED
  BY <1>2

(* Writes to some files are writes to more of them.                        *)
LEMMA MoreFiles ==
  ASSUME NEW fs, NEW gs, fs \subseteq gs, NEW ws, WritesTo(fs, ws)
  PROVE  WritesTo(gs, ws)
<1>1. PICK ds : ws \in Seq([file : fs, doc : ds])
  BY DEF WritesTo
<1>2. [file : fs, doc : ds] \subseteq [file : gs, doc : ds]
  OBVIOUS
<1>3. ws \in Seq([file : gs, doc : ds])
  BY <1>1, <1>2, SeqWidens, Zenon
<1> QED
  BY <1>3 DEF WritesTo

(* Writes after writes are writes.                                         *)
LEMMA WritesJoin ==
  ASSUME NEW fs, NEW s, NEW t, WritesTo(fs, s), WritesTo(fs, t)
  PROVE  WritesTo(fs, s \o t)
<1>1. PICK ds : s \in Seq([file : fs, doc : ds])
  BY DEF WritesTo
<1>2. PICK es : t \in Seq([file : fs, doc : es])
  BY DEF WritesTo
<1> DEFINE both == [file : fs, doc : ds \cup es]
<1>3. [file : fs, doc : ds] \subseteq both /\ [file : fs, doc : es] \subseteq both
  OBVIOUS
<1> HIDE DEF both
<1>4. s \in Seq(both) /\ t \in Seq(both)
  BY <1>1, <1>2, <1>3, SeqWidens, Zenon
<1>5. s \o t \in Seq(both)
  BY <1>4
<1> QED
  BY <1>5 DEF WritesTo, both

(* A file written at once is one write.                                    *)
LEMMA WriteAtOnce ==
  ASSUME NEW f, NEW doc, NEW fs, f \in fs
  PROVE  WritesTo(fs, AtOnce(f, doc))
<1>1. [file |-> f, doc |-> doc] \in [file : fs, doc : {doc}]
  OBVIOUS
<1>2. AtOnce(f, doc) \in Seq([file : fs, doc : {doc}])
  BY <1>1 DEF AtOnce
<1> QED
  BY <1>2 DEF WritesTo

(* A file written over is emptied and written.                             *)
LEMMA WriteOver ==
  ASSUME NEW f, NEW doc, NEW fs, f \in fs
  PROVE  WritesTo(fs, Overwritten(f, doc))
BY WriteAtOnce, WritesJoin DEF Overwritten

(* A file that grows is written again and again.                           *)
LEMMA WriteIncrements ==
  ASSUME NEW f, NEW fs, f \in fs, NEW decisions, Cardinality(decisions) \in Nat
  PROVE  WritesTo(fs, Incremental(f, decisions))
<1> DEFINE upto(i) == Predictions({d \in decisions : Cardinality({e \in decisions : e <= d}) < i})
           n == Cardinality(decisions) + 1
           ds == {upto(i) : i \in 1..n}
<1>1. n \in Nat
  OBVIOUS
<1>2. Incremental(f, decisions) = [i \in 1..n |-> [file |-> f, doc |-> upto(i)]]
  BY DEF Incremental
<1>3. \A i \in 1..n : [file |-> f, doc |-> upto(i)] \in [file : fs, doc : ds]
  OBVIOUS
<1>4. Incremental(f, decisions) \in Seq([file : fs, doc : ds])
  <2> HIDE DEF upto, n, ds
  <2> QED
    BY <1>1, <1>2, <1>3
<1> QED
  BY <1>4 DEF WritesTo

(* A document is on disk, or about to be written, because it was before or *)
(* because this step hands it over.                                        *)
LEMMA DocsStay ==
  ASSUME StoreOK, NEW f \in Files,
         Write \/ (disk' = disk /\ (writes' = writes \/ writes' = <<>>))
  PROVE  Docs(f)' \subseteq Docs(f)
<1>1. CASE disk' = disk /\ writes' = writes
  BY <1>1 DEF Docs, Written
<1>2. CASE disk' = disk /\ writes' = <<>>
  BY <1>2 DEF Docs, Written
<1>3. CASE Write
  <2>1. /\ \A i \in DOMAIN writes : writes[i].file \in Files
        /\ DOMAIN writes = 1..Len(writes) /\ Len(writes) \in Nat
    BY FilesOfWrites DEF StoreOK
  <2>2. PICK ds : writes \in Seq(ds)
    BY DEF StoreOK, WritesTo
  <2>3. writes # <<>> /\ Len(writes) >= 1
    <3>1. writes # <<>>
      BY <1>3, Zenon DEF Write
    <3>2. Len(writes) # 0
      BY <2>2, <3>1, EmptySeq
    <3> QED
      BY <2>1, <3>1, <3>2
  <2>4. /\ DOMAIN writes' = 1..Len(writes) - 1
        /\ \A i \in 1..Len(writes) - 1 : writes'[i] = writes[i + 1]
    BY <1>3, <2>2, <2>3 DEF Write
  <2>5. disk'[f] = IF f = writes[1].file THEN writes[1].doc ELSE disk[f]
    BY <1>3 DEF Write, StoreOK
  <2>6. 1 \in DOMAIN writes /\ \A i \in 1..Len(writes) - 1 : i + 1 \in DOMAIN writes
    BY <2>1, <2>3
  <2>7. disk'[f] \in Docs(f)
    BY <2>5, <2>6 DEF Docs, Written
  <2>8. ASSUME NEW i \in DOMAIN writes', writes'[i].file = f
        PROVE  writes'[i].doc \in Docs(f)
    BY <2>4, <2>6, <2>8 DEF Docs, Written
  <2> QED
    BY <2>7, <2>8 DEF Docs, Written
<1> QED
  BY <1>1, <1>2, <1>3

(* Writes to other files bring this one no document.                       *)
LEMMA DocsElsewhere ==
  ASSUME disk' = disk, NEW fs, WritesTo(fs, writes'), NEW f, f \notin fs
  PROVE  Docs(f)' \subseteq Docs(f)
<1>1. \A i \in DOMAIN writes' : writes'[i].file \in fs
  BY FilesOfWrites
<1> QED
  BY <1>1 DEF Docs, Written

(* The document of a single write.                                         *)
LEMMA WrittenAtOnce ==
  ASSUME NEW f, NEW doc
  PROVE  Written(AtOnce(f, doc), f) \subseteq {doc}
BY DEF Written, AtOnce

(* The documents of writes after writes.                                   *)
LEMMA WrittenJoined ==
  ASSUME NEW fs, NEW s, NEW t, WritesTo(fs, s), WritesTo(fs, t), NEW f
  PROVE  Written(s \o t, f) \subseteq Written(s, f) \cup Written(t, f)
<1>1. PICK ds : s \in Seq([file : fs, doc : ds])
  BY DEF WritesTo
<1>2. PICK es : t \in Seq([file : fs, doc : es])
  BY DEF WritesTo
<1> SUFFICES ASSUME NEW i \in DOMAIN (s \o t), (s \o t)[i].file = f
             PROVE  (s \o t)[i].doc \in Written(s, f) \cup Written(t, f)
  BY DEF Written
<1> DEFINE S == [file : fs, doc : ds]
           T == [file : fs, doc : es]
<1> HIDE DEF S, T
<1>3. s \in Seq(S) /\ t \in Seq(T)
  BY <1>1, <1>2 DEF S, T
<1>4. \/ i \in DOMAIN s /\ (s \o t)[i] = s[i]
      \/ i - Len(s) \in DOMAIN t /\ (s \o t)[i] = t[i - Len(s)]
  <2>1. /\ DOMAIN s = 1..Len(s) /\ Len(s) \in Nat
        /\ DOMAIN t = 1..Len(t) /\ Len(t) \in Nat
        /\ DOMAIN (s \o t) = 1..Len(s) + Len(t)
    BY <1>3
  <2>2. CASE i <= Len(s)
    BY <1>3, <2>1, <2>2
  <2>3. CASE i > Len(s)
    BY <1>3, <2>1, <2>3
  <2> QED
    BY <2>1, <2>2, <2>3
<1> QED
  BY <1>4 DEF Written

(* The documents of writing over a file.                                   *)
LEMMA WrittenOver ==
  ASSUME NEW f, NEW doc
  PROVE  Written(Overwritten(f, doc), f) \subseteq {Torn, doc}
<1>1. WritesTo({f}, AtOnce(f, Torn)) /\ WritesTo({f}, AtOnce(f, doc))
  BY WriteAtOnce
<1>2. Written(Overwritten(f, doc), f) \subseteq Written(AtOnce(f, Torn), f) \cup Written(AtOnce(f, doc), f)
  BY <1>1, WrittenJoined DEF Overwritten
<1> QED
  BY <1>2, WrittenAtOnce

-----------------------------------------------------------------------------
(* ----------------------------- the release ----------------------------- *)
ManifestOf(profiles, lock, model, evaluation, self) ==
  [kind |-> "release", self |-> self,
   pins |-> [profiles |-> profiles, lock |-> lock, model |-> model, evaluation |-> evaluation]]

Manifested(doc) == doc.kind = "release" =>
  \E profiles, lock, model, evaluation, self :
    doc = ManifestOf(profiles, lock, model, evaluation, self) /\ DOMAIN profiles \subseteq Listed

Matched ==
  LET pins == disk["release"].pins
  IN  disk["release"].kind = "release" /\ LockMatches(pins) /\ ProfilesMatch(pins) /\ disk["release"].self = pins

Verified ==
  verdict = "valid" => Matched /\ \A i \in DOMAIN writes : writes[i].file \notin Released

ReleaseInv == StoreOK /\ (\A d \in Docs("release") : Manifested(d)) /\ Verified

(* Files that match their pins are what the service loads.                 *)
LEMMA MatchedIsServed ==
  ASSUME Manifested(disk["release"]), Verified
  PROVE  VerifiedReleaseIsServed
<1> SUFFICES ASSUME verdict = "valid"
             PROVE  VerifiedReleaseIsServed
  BY DEF VerifiedReleaseIsServed
<1> DEFINE pins == disk["release"].pins
           pinned == {pins.profiles[f] : f \in DOMAIN pins.profiles}
           unlisted == {disk[f] : f \in Listed \ DOMAIN pins.profiles}
<1>1. Matched
  BY DEF Verified
<1>2. DOMAIN pins.profiles \subseteq Listed
  <2>1. disk["release"].kind = "release"
    BY <1>1 DEF Matched
  <2>2. PICK profiles, lock, model, evaluation, self :
          /\ disk["release"] = ManifestOf(profiles, lock, model, evaluation, self)
          /\ DOMAIN profiles \subseteq Listed
    BY <2>1 DEF Manifested
  <2>3. pins.profiles = profiles
    BY <2>2 DEF ManifestOf
  <2> QED
    BY <2>2, <2>3
<1>3. ASSUME NEW id \in DOMAIN Registry
      PROVE  Registry[id] \in pinned \cup unlisted
  <2>1. LastOf(id) \in Sound
    BY LastIsListed
  <2>2. Registry[id] = disk[LastOf(id)] /\ LastOf(id) \in Listed
    BY <2>1 DEF Registry, Sound
  <2>3. CASE LastOf(id) \in DOMAIN pins.profiles
    BY <1>1, <2>2, <2>3 DEF Matched, ProfilesMatch
  <2> QED
    BY <2>2, <2>3
<1>4. ASSUME NEW p \in pinned, p.kind = "profile"
      PROVE  p.id \in DOMAIN Registry
  <2>1. PICK f \in DOMAIN pins.profiles : p = pins.profiles[f]
    OBVIOUS
  <2>2. p = disk[f] /\ f \in Sound
    BY <1>1, <1>2, <1>4, <2>1 DEF Matched, ProfilesMatch, Sound, Has
  <2> QED
    BY <2>2 DEF Registry
<1>5. disk["lock"] = pins.lock /\ disk["release"].pins = disk["release"].self
  BY <1>1 DEF Matched, LockMatches
<1> QED
  BY <1>3, <1>4, <1>5 DEF VerifiedReleaseIsServed

(* The files a verification looks at, and those other commands write.      *)
LEMMA FilesKnown ==
  /\ {"lock", "evaluation", "model"} \cup Listed \subseteq Files \ {"release"}
  /\ Released \subseteq Files
  /\ \A f \in Produced \ {"release"} : f \in Quiet
BY CandidateAssumption DEF Produced, Kept, Released, Quiet

(* Steps that leave the files alone, or are about to write to others.      *)
LEMMA StandStill ==
  ASSUME ReleaseInv, UNCHANGED <<disk, writes>>, verdict' \in {verdict, "none"}
  PROVE  ReleaseInv'
<1>1. StoreOK'
  BY DEF ReleaseInv, StoreOK
<1>2. \A d \in Docs("release")' : Manifested(d)
  BY DEF ReleaseInv, Docs
<1>3. Verified'
  <2>1. CASE verdict' = verdict
    BY <2>1 DEF ReleaseInv, Verified, Matched, LockMatches, ProfilesMatch, Has
  <2>2. CASE verdict' = "none"
    BY <2>2 DEF Verified
  <2> QED
    BY <2>1, <2>2
<1> QED
  BY <1>1, <1>2, <1>3 DEF ReleaseInv

(* A command that writes none of the release's files keeps the invariant.  *)
LEMMA WritesElsewhere ==
  ASSUME ReleaseInv, disk' = disk, WritesTo(Quiet, writes'), verdict' = verdict
  PROVE  ReleaseInv'
<1>1. StoreOK'
  <2>1. WritesTo(Files, writes')
    BY MoreFiles DEF Quiet
  <2> QED
    BY <2>1 DEF ReleaseInv, StoreOK
<1>2. \A d \in Docs("release")' : Manifested(d)
  <2>1. Docs("release")' \subseteq Docs("release")
    BY DocsElsewhere DEF Quiet, Released
  <2> QED
    BY <2>1 DEF ReleaseInv
<1>3. Verified'
  <2>1. \A i \in DOMAIN writes' : writes'[i].file \in Quiet
    BY FilesOfWrites
  <2> QED
    BY <2>1 DEF ReleaseInv, Verified, Matched, LockMatches, ProfilesMatch, Has, Quiet
<1> QED
  BY <1>1, <1>2, <1>3 DEF ReleaseInv

(* Steps after which nothing is verified any more.                         *)
LEMMA Unverified ==
  ASSUME ReleaseInv, disk' = disk, WritesTo(Files, writes'), verdict' = "none",
         \A d \in Written(writes', "release") : Manifested(d)
  PROVE  ReleaseInv'
<1>1. StoreOK' /\ Verified'
  BY DEF ReleaseInv, StoreOK, Verified
<1>2. \A d \in Docs("release")' : Manifested(d)
  BY DEF ReleaseInv, Docs, Written
<1> QED
  BY <1>1, <1>2 DEF ReleaseInv

(* The training writes none of them.                                       *)
LEMMA TrainKeeps ==
  ASSUME ReleaseInv, Train
  PROVE  ReleaseInv'
<1>1. CASE \E c \in Configs : BeginTraining(c)
  BY <1>1, StandStill DEF Train, BeginTraining
<1>2. CASE StartEpoch \/ Learn \/ OutOfMemory \/ EndExample
  BY <1>2, StandStill DEF Train, StartEpoch, Learn, OutOfMemory, EndExample, Goes, store
<1>3. CASE Export
  <2>1. /\ disk' = disk /\ verdict' = verdict
        /\ writes' = Overwritten("weights", Weights) \o Overwritten("manifest", Manifest)
                       \o Overwritten("training", Report)
    BY <1>3 DEF Train, Export, Ends, EndBy
  <2>2. {"weights", "manifest", "training"} \subseteq Quiet
    BY FilesKnown DEF Produced
  <2>3. WritesTo(Quiet, writes')
    BY <2>1, <2>2, WriteOver, WritesJoin
  <2> QED
    BY <2>1, <2>3, WritesElsewhere
<1> QED
  BY <1>1, <1>2, <1>3 DEF Train, TrainingStep

(* The check of equivalence writes none of them.                           *)
LEMMA CheckEquivalenceKeeps ==
  ASSUME ReleaseInv, CheckEquivalence
  PROVE  ReleaseInv'
<1>1. CASE BeginEquivalence \/ CompareRequest
  BY <1>1, StandStill DEF CheckEquivalence, BeginEquivalence, CompareRequest, Goes, store
<1>2. CASE EquivalenceFails
  <2>1. disk' = disk /\ verdict' = verdict /\ writes' = <<>>
    BY <1>2 DEF CheckEquivalence, EquivalenceFails, Ends, EndBy
  <2>2. WritesTo(Quiet, writes')
    BY <2>1 DEF WritesTo
  <2> QED
    BY <2>1, <2>2, WritesElsewhere
<1>3. CASE EndEquivalence
  <2>1. /\ disk' = disk /\ verdict' = verdict
        /\ writes' = Overwritten("equivalence", EquivalenceReport) \o Overwritten("rows", EquivalenceRows)
    BY <1>3 DEF CheckEquivalence, EndEquivalence, Ends, EndBy
  <2>2. {"equivalence", "rows"} \subseteq Quiet
    BY FilesKnown DEF Produced
  <2>3. WritesTo(Quiet, writes')
    BY <2>1, <2>2, WriteOver, WritesJoin
  <2> QED
    BY <2>1, <2>3, WritesElsewhere
<1> QED
  BY <1>1, <1>2, <1>3 DEF CheckEquivalence, EquivalenceStep

(* Evaluations and comparisons write none of them.                         *)
LEMMA MeasureKeeps ==
  ASSUME ReleaseInv, Measure
  PROVE  ReleaseInv'
<1>1. CASE \E side \in Sides : EvaluateOne(side)
  <2>1. PICK side \in Sides, s \in Selections, calibration \in Calibrations :
          Do("evaluate", Incremental(RowsFile[side], s.decisions)
               \o Overwritten(RowsFile[side], Predictions(s.decisions))
               \o Overwritten(side, EvaluationReport(side, s, calibration)))
    BY <1>1 DEF EvaluateOne
  <2>2. side \in Quiet /\ RowsFile[side] \in Quiet
    BY FilesKnown DEF Sides, RowsFile, Produced
  <2>3. Cardinality(s.decisions) \in Nat
    BY SelectionAssumption, FS_CardinalityType
  <2>4. /\ WritesTo(Quiet, Incremental(RowsFile[side], s.decisions))
        /\ WritesTo(Quiet, Overwritten(RowsFile[side], Predictions(s.decisions)))
        /\ WritesTo(Quiet, Overwritten(side, EvaluationReport(side, s, calibration)))
    BY <2>2, <2>3, WriteIncrements, WriteOver
  <2>5. WritesTo(Quiet, writes') /\ disk' = disk /\ verdict' = verdict
    BY <2>1, <2>4, WritesJoin DEF Do, Measure
  <2> QED
    BY <2>5, WritesElsewhere
<1>2. CASE CompareReports
  <2>1. CASE Ask("compare")
    BY <2>1, StandStill DEF Measure, Ask
  <2>2. CASE \E doc : Do("compare", Overwritten("comparison", doc))
    <3>1. "comparison" \in Quiet
      BY FilesKnown DEF Produced
    <3> QED
      BY <2>2, <3>1, WriteOver, WritesElsewhere DEF Measure, Do
  <2> QED
    BY <1>2, <2>1, <2>2 DEF CompareReports
<1> QED
  BY <1>1, <1>2 DEF Measure, ComparisonStep

(* The evidence is none of them.                                           *)
LEMMA EvidencesKeeps ==
  ASSUME ReleaseInv, Evidences
  PROVE  ReleaseInv'
<1>1. CASE CompatFails \/ Check \/ Ask("report")
  BY <1>1, StandStill DEF Evidences, CompatFails, Check, Ask
<1>2. ASSUME TokenizerOnly \/ Compat \/ Do("report", Overwritten("evidence", Evidence))
      PROVE  ReleaseInv'
  <2>1. {"compat", "compat_rows", "evidence"} \subseteq Quiet
    BY FilesKnown DEF Produced
  <2>2. WritesTo(Quiet, writes') /\ disk' = disk
    BY <1>2, <2>1, WriteOver, WritesJoin DEF TokenizerOnly, Compat, Do
  <2> QED
    BY <2>2, WritesElsewhere DEF Evidences
<1> QED
  BY <1>1, <1>2 DEF Evidences, EvidenceStep, Generate

(* The build and the edits end the verdict; the verification finds what    *)
(* it says.                                                                *)
LEMMA ReleaseKeeps ==
  ASSUME ReleaseInv, Release
  PROVE  ReleaseInv'
<1>1. CASE verdict' = "none" /\ Replace
  <2>1. PICK f \in {"lock", "evaluation", "model"} \cup Listed : \E doc : Do("edit", Overwritten(f, doc))
    BY <1>1 DEF Replace
  <2>2. WritesTo({f}, writes') /\ WritesTo(Files, writes') /\ disk' = disk
    BY <2>1, FilesKnown, WriteOver DEF Do
  <2>3. Written(writes', "release") = {}
    BY <2>2, FilesOfWrites, FilesKnown DEF Written
  <2> QED
    BY <1>1, <2>2, <2>3, Unverified
<1>2. CASE verdict' = "none" /\ Withdraw
  <2>1. PICK f \in Listed : Do("edit", AtOnce(f, Absent))
    BY <1>2 DEF Withdraw
  <2>2. WritesTo({f}, writes') /\ WritesTo(Files, writes') /\ disk' = disk
    BY <2>1, FilesKnown, WriteAtOnce DEF Do
  <2>3. Written(writes', "release") = {}
    BY <2>2, FilesOfWrites, FilesKnown DEF Written
  <2> QED
    BY <1>2, <2>2, <2>3, Unverified
<1>3. CASE verdict' = "none" /\ Correct
  <2> DEFINE doc == [disk["release"] EXCEPT !.pins.evaluation = Absent]
  <2>1. /\ disk' = disk /\ WritesTo(Files, writes')
        /\ Written(writes', "release") \subseteq {doc}
    BY <1>3, FilesKnown, WriteAtOnce, WrittenAtOnce DEF Correct, Do, Released
  <2>2. PICK profiles, lock, model, evaluation, self :
          /\ disk["release"] = ManifestOf(profiles, lock, model, evaluation, self)
          /\ DOMAIN profiles \subseteq Listed
    BY <1>3 DEF ReleaseInv, Docs, Manifested, Correct, Has
  <2>3. doc = ManifestOf(profiles, lock, model, Absent, self)
    BY <2>2 DEF ManifestOf
  <2>4. Manifested(doc)
    <3> HIDE DEF doc
    <3> QED
      BY <2>2, <2>3, Zenon DEF Manifested
  <2> QED
    BY <1>3, <2>1, <2>4, Unverified
<1>4. ASSUME NEW r \in BOOLEAN, verdict' = "none", BuildRelease(r)
      PROVE  ReleaseInv'
  <2>1. CASE BuildReadable
    <3> DEFINE doc == [kind |-> "release", pins |-> Pins(r), self |-> Pins(r)]
    <3>1. /\ disk' = disk /\ WritesTo(Files, writes')
          /\ Written(writes', "release") \subseteq {Torn, doc}
      BY <1>4, <2>1, FilesKnown, WriteOver, WrittenOver DEF BuildRelease, Do, Released
    <3>2. Manifested(doc)
      <4>1. doc = ManifestOf(Pins(r).profiles, Pins(r).lock, Pins(r).model, Pins(r).evaluation, Pins(r))
        BY DEF ManifestOf, Pins
      <4>2. DOMAIN Pins(r).profiles \subseteq Listed
        BY DEF Pins, Present
      <4> HIDE DEF doc
      <4> QED
        BY <4>1, <4>2, Zenon DEF Manifested
    <3>3. Manifested(Torn)
      BY DEF Manifested, Torn
    <3> QED
      BY <1>4, <3>1, <3>2, <3>3, Unverified
  <2>2. CASE ~BuildReadable
    BY <1>4, <2>2, StandStill DEF BuildRelease, Ask
  <2> QED
    BY <2>1, <2>2
<1>5. CASE Verify
  <2>1. UNCHANGED <<disk, writes>> /\ writes = <<>>
    BY <1>5 DEF Verify, Ask, Begin
  <2>2. verdict' = "valid" => Matched
    BY <1>5 DEF Verify, Matched, Has
  <2>3. Verified'
    BY <2>1, <2>2 DEF Verified, Matched, LockMatches, ProfilesMatch, Has
  <2>4. StoreOK' /\ \A d \in Docs("release")' : Manifested(d)
    BY <2>1 DEF ReleaseInv, StoreOK, Docs
  <2> QED
    BY <2>3, <2>4 DEF ReleaseInv
<1> QED
  BY <1>1, <1>2, <1>3, <1>4, <1>5 DEF Release, ReleaseStep

(* Writing what was handed over keeps the invariant.                       *)
LEMMA ProceedKeeps ==
  ASSUME ReleaseInv, Proceed
  PROVE  ReleaseInv'
<1>1. Write /\ verdict' = verdict
  BY DEF Proceed
<1>2. PICK ds : writes \in Seq([file : Files, doc : ds])
  BY DEF ReleaseInv, StoreOK, WritesTo
<1> DEFINE W == [file : Files, doc : ds]
<1>3. /\ writes' \in Seq(W) /\ 1 \in DOMAIN writes
      /\ \A i \in DOMAIN writes' : i + 1 \in DOMAIN writes /\ writes'[i] = writes[i + 1]
  <2> HIDE DEF W
  <2>1. writes \in Seq(W)
    BY <1>2 DEF W
  <2>2. writes # <<>> /\ writes' = Tail(writes)
    BY <1>1, Zenon DEF Write
  <2>3. Len(writes) \in Nat \ {0} /\ DOMAIN writes = 1..Len(writes)
    BY <2>1, <2>2, EmptySeq
  <2>4. /\ writes' \in Seq(W) /\ Len(writes') = Len(writes) - 1
        /\ \A i \in 1..Len(writes) - 1 : writes'[i] = writes[i + 1]
    BY <2>1, <2>2, <2>3
  <2> QED
    BY <2>3, <2>4
<1>4. StoreOK'
  BY <1>1, <1>3 DEF ReleaseInv, StoreOK, Write, WritesTo
<1>5. \A d \in Docs("release")' : Manifested(d)
  <2>1. StoreOK /\ "release" \in Files
    BY FilesKnown DEF ReleaseInv, Released
  <2>2. Docs("release")' \subseteq Docs("release")
    BY <1>1, <2>1, DocsStay DEF Docs, Written, Write, StoreOK
  <2> QED
    BY <2>1, <2>2 DEF ReleaseInv
<1>6. Verified'
  <2> SUFFICES ASSUME verdict' = "valid"
               PROVE  Matched' /\ \A i \in DOMAIN writes' : writes'[i].file \notin Released
    BY DEF Verified
  <2>1. Matched /\ \A i \in DOMAIN writes : writes[i].file \notin Released
    BY <1>1 DEF ReleaseInv, Verified
  <2>2. \A f \in Released : disk'[f] = disk[f]
    BY <1>1, <1>3, <2>1, FilesKnown DEF ReleaseInv, StoreOK, Write
  <2>3. DOMAIN disk["release"].pins.profiles \subseteq Released
    BY <2>1 DEF ReleaseInv, Docs, Manifested, ManifestOf, Matched, Released
  <2>4. Matched'
    BY <2>1, <2>2, <2>3 DEF Matched, LockMatches, ProfilesMatch, Has, Released
  <2> QED
    BY <1>3, <2>1, <2>4
<1> QED
  BY <1>4, <1>5, <1>6 DEF ReleaseInv

(* A kill only takes writes away.                                          *)
LEMMA CrashKeeps ==
  ASSUME ReleaseInv, Crash
  PROVE  ReleaseInv'
<1>1. disk' = disk /\ writes' = <<>> /\ verdict' = verdict
  BY DEF Crash, Die, EndBy
<1>2. WritesTo(Quiet, writes')
  BY <1>1 DEF WritesTo
<1> QED
  BY <1>1, <1>2, WritesElsewhere

(* Nothing is released at first.                                           *)
LEMMA InitReleased ==
  ASSUME CandidateInit
  PROVE  ReleaseInv
<1>1. /\ disk = [f \in Files |-> disk[f]] /\ disk["release"] = Absent
      /\ writes = <<>> /\ verdict = "none"
  BY FilesKnown DEF CandidateInit, Produced, Released
<1>2. WritesTo(Files, writes)
  BY <1>1 DEF WritesTo
<1>3. Docs("release") = {Absent} /\ Manifested(Absent)
  <2>1. DOMAIN writes = {}
    BY <1>1
  <2>2. Docs("release") = {Absent}
    BY <1>1, <2>1 DEF Docs, Written
  <2> QED
    BY <2>2 DEF Manifested, Absent
<1> QED
  BY <1>1, <1>2, <1>3 DEF ReleaseInv, StoreOK, Verified

(* Whatever the profiles and the files beside the manifest, and whichever  *)
(* commands have run and been killed: what the service would load after a  *)
(* verification that found the bundle valid is what the manifest pins.     *)
THEOREM ReleaseIsServed == CandidateSpec => []VerifiedReleaseIsServed
<1>1. CandidateInit => ReleaseInv
  BY InitReleased
<1>2. ReleaseInv /\ [CandidateNext]_cvars => ReleaseInv'
  <2> SUFFICES ASSUME ReleaseInv, [CandidateNext]_cvars
               PROVE  ReleaseInv'
    OBVIOUS
  <2>1. CASE UNCHANGED cvars
    BY <2>1, StandStill DEF cvars, store
  <2>2. CASE CandidateNext
    BY <2>2, TrainKeeps, CheckEquivalenceKeeps, MeasureKeeps, EvidencesKeeps, ReleaseKeeps,
       ProceedKeeps, CrashKeeps DEF CandidateNext
  <2> QED
    BY <2>1, <2>2
<1>3. ReleaseInv => VerifiedReleaseIsServed
  BY MatchedIsServed DEF ReleaseInv, Docs
<1> QED
  BY <1>1, <1>2, <1>3, PTL DEF CandidateSpec

-----------------------------------------------------------------------------
(* ----------------------------- the commands ---------------------------- *)
StoreTypeOK ==
  /\ StoreOK
  /\ commands \in Nat /\ mishaps \in Nat
  /\ command \in {"none", "train", "equivalence"} /\ (writes # <<>> => command = "none")

ProcessOK ==
  /\ IsFiniteSet(sample) /\ sample \subseteq Trainable /\ (command = "train" <=> sample # {})
  /\ order = <<>> \/ order \in [1..Cardinality(sample) -> sample]
  /\ at \in 1..Len(order) + 1 /\ epoch \in 0..Epochs /\ learnt \in Nat

(* What is there between two trainings, and two checks of equivalence.     *)
IdleOK ==
  /\ command # "train" => order = <<>> /\ history = <<>>
  /\ command # "equivalence" => compared = <<>>

OutcomesOK == checked \in {"none", "matches", "raised"} /\ verdict \in {"none", "valid", "invalid", "raised"}

BaseInv == StoreTypeOK /\ ProcessOK /\ IdleOK /\ OutcomesOK

(* The shuffled order is a sequence of examples.                           *)
LEMMA OrderLength ==
  ASSUME ProcessOK
  PROVE  Len(order) \in Nat /\ DOMAIN order = 1..Len(order) /\ \A i \in 1..Len(order) : order[i] \in Trainable
<1>1. CASE order = <<>>
  BY <1>1
<1>2. CASE order \in [1..Cardinality(sample) -> sample]
  <2>1. Cardinality(sample) \in Nat
    BY FS_CardinalityType DEF ProcessOK
  <2>2. order \in Seq(sample)
    BY <1>2, <2>1
  <2> QED
    BY <2>2, SeqElements DEF ProcessOK
<1> QED
  BY <1>1, <1>2 DEF ProcessOK

(* The usable questions of an example are counted.                         *)
LEMMA LearnableCount ==
  ASSUME NEW e \in Trainable
  PROVE  Usable(e) \in Nat
<1>1. IsFiniteSet(DOMAIN Questions[e])
  BY TrainingAssumption
<1>2. IsFiniteSet({i \in DOMAIN Questions[e] : Learnable(Questions[e][i])})
  BY <1>1, FS_Subset
<1> QED
  BY <1>2, FS_CardinalityType DEF Usable

(* What a command begins with and ends by.                                 *)
LEMMA Begun ==
  ASSUME StoreTypeOK, NEW kind, NEW name \in {"none", "train", "equivalence"}, Begin(kind, name),
         UNCHANGED <<disk, writes, mishaps>>
  PROVE  StoreTypeOK' /\ command' = name
<1>1. StoreOK'
  BY DEF StoreTypeOK, StoreOK
<1> QED
  BY <1>1 DEF StoreTypeOK, Begin

(* Handing over writes to known files keeps the types.                     *)
LEMMA Handed ==
  ASSUME StoreTypeOK, NEW fs, fs \subseteq Files, WritesTo(fs, writes'), command' = "none", disk' = disk,
         commands' \in {commands, commands + 1}, mishaps' \in {mishaps, mishaps + 1}
  PROVE  StoreTypeOK'
<1>1. StoreOK'
  BY MoreFiles DEF StoreTypeOK, StoreOK
<1> QED
  BY <1>1 DEF StoreTypeOK

(* No writes are writes to any files.                                      *)
LEMMA Unwritten ==
  ASSUME NEW fs
  PROVE  WritesTo(fs, <<>>)
BY DEF WritesTo

(* The steps of a training keep the types.                                 *)
LEMMA TrainTyped ==
  ASSUME BaseInv, Train
  PROVE  BaseInv'
<1>0. Len(order) \in Nat
  BY OrderLength DEF BaseInv
<1>1. ASSUME NEW c \in Configs, BeginTraining(c)
      PROVE  BaseInv'
  <2>1. StoreTypeOK' /\ command' = "train" /\ command = "none"
    BY <1>1, Begun DEF BaseInv, BeginTraining, Begin
  <2>2. PICK s \in Samples \ {{}} : sample' = s
    BY <1>1 DEF BeginTraining
  <2>3. s \subseteq Trainable
    BY <2>2 DEF Samples
  <2>4. IsFiniteSet(s)
    BY <2>3, TrainingAssumption, FS_Subset
  <2>5. ProcessOK'
    BY <1>1, <2>1, <2>2, <2>3, <2>4 DEF BaseInv, ProcessOK, IdleOK, BeginTraining
  <2>6. IdleOK' /\ OutcomesOK'
    BY <1>1, <2>1 DEF BaseInv, IdleOK, OutcomesOK, BeginTraining, Train, gate
  <2> QED
    BY <2>1, <2>5, <2>6 DEF BaseInv
<1>2. ASSUME StartEpoch \/ Learn \/ OutOfMemory \/ EndExample
      PROVE  BaseInv'
  <2>1. UNCHANGED <<store, gate, verdict, sample>> /\ checked' = "none" /\ command = "train"
    BY <1>2 DEF Train, StartEpoch, Learn, OutOfMemory, EndExample, Goes
  <2>2. StoreTypeOK' /\ OutcomesOK'
    BY <2>1 DEF BaseInv, StoreTypeOK, StoreOK, OutcomesOK, store
  <2>3. IdleOK'
    BY <2>1 DEF BaseInv, IdleOK, store, gate
  <2>4. ProcessOK'
    <3>1. CASE StartEpoch
      <4>1. PICK o \in Orders(sample) : order' = o
        BY <3>1 DEF StartEpoch
      <4>2. Cardinality(sample) \in Nat
        BY FS_CardinalityType DEF BaseInv, ProcessOK
      <4>3. Len(order') \in Nat /\ order' \in [1..Cardinality(sample) -> sample]
        <5>1. order' \in [1..Cardinality(sample) -> sample]
          BY <4>1 DEF Orders
        <5>2. order' \in Seq(sample)
          BY <4>2, <5>1
        <5> QED
          BY <5>1, <5>2
      <4>4. epoch' \in 0..Epochs /\ at' = 1 /\ learnt' = 0
        BY <3>1, TrainingAssumption DEF StartEpoch, BaseInv, ProcessOK
      <4> QED
        BY <2>1, <4>3, <4>4 DEF BaseInv, ProcessOK, store
    <3>2. CASE Learn
      BY <1>0, <2>1, <3>2 DEF BaseInv, ProcessOK, Learn, store
    <3>3. CASE OutOfMemory \/ EndExample
      <4>1. at <= Len(order) /\ UNCHANGED <<order, epoch>> /\ at' = at + 1 /\ learnt' = 0
        BY <1>0, <3>3 DEF BaseInv, ProcessOK, OutOfMemory, EndExample, NextExample, Unlearnt, EpochOver
      <4> QED
        BY <1>0, <2>1, <4>1 DEF BaseInv, ProcessOK, store
    <3> QED
      BY <1>2, <3>1, <3>2, <3>3
  <2> QED
    BY <2>2, <2>3, <2>4 DEF BaseInv
<1>3. CASE Export
  <2>1. /\ disk' = disk /\ writes' = Overwritten("weights", Weights) \o Overwritten("manifest", Manifest)
                       \o Overwritten("training", Report)
        /\ command' = "none" /\ UNCHANGED <<commands, mishaps>> /\ command = "train"
    BY <1>3 DEF Export, Ends, EndBy
  <2>2. {"weights", "manifest", "training"} \subseteq Files
    BY CandidateAssumption DEF Produced
  <2>3. WritesTo(Files, writes')
    BY <2>1, <2>2, WriteOver, WritesJoin
  <2>4. StoreTypeOK'
    BY <2>1, <2>3, Handed DEF BaseInv
  <2>5. sample' = {} /\ order' = <<>> /\ at' = 1 /\ epoch' = 0 /\ history' = <<>> /\ learnt' = 0
    BY <1>3 DEF Export, ProcessEnds
  <2>6. ProcessOK'
    BY <2>1, <2>5, TrainingAssumption, FS_EmptySet DEF ProcessOK
  <2>7. IdleOK' /\ OutcomesOK'
    BY <1>3, <2>1, <2>5 DEF BaseInv, IdleOK, OutcomesOK, Train, gate
  <2> QED
    BY <2>4, <2>6, <2>7 DEF BaseInv
<1> QED
  BY <1>1, <1>2, <1>3 DEF Train, TrainingStep

(* Steps in which no training goes on.                                     *)
LEMMA ProcessStands ==
  ASSUME ProcessOK, UNCHANGED process, command' = "train" <=> command = "train"
  PROVE  ProcessOK'
BY DEF ProcessOK, process

(* The steps of a check of equivalence keep the types.                     *)
LEMMA CheckEquivalenceTyped ==
  ASSUME BaseInv, CheckEquivalence
  PROVE  BaseInv'
<1>0. UNCHANGED process /\ OutcomesOK'
  BY DEF CheckEquivalence, BaseInv, OutcomesOK
<1>1. CASE BeginEquivalence
  <2>1. StoreTypeOK' /\ command' = "equivalence" /\ command = "none" /\ compared' = compared
    BY <1>1, Begun DEF BaseInv, BeginEquivalence, Begin
  <2> QED
    BY <1>0, <2>1, ProcessStands DEF BaseInv, IdleOK, process
<1>2. CASE CompareRequest
  <2>1. UNCHANGED store /\ command = "equivalence"
    BY <1>2 DEF CompareRequest, Goes
  <2>2. StoreTypeOK'
    BY <2>1 DEF BaseInv, StoreTypeOK, StoreOK, store
  <2>3. command' = command
    BY <2>1 DEF store
  <2> QED
    BY <1>0, <2>1, <2>2, <2>3, ProcessStands DEF BaseInv, IdleOK, process
<1>3. CASE EquivalenceFails \/ EndEquivalence
  <2>1. /\ disk' = disk /\ command' = "none" /\ UNCHANGED <<commands, mishaps>> /\ command = "equivalence"
        /\ compared' = <<>>
        /\ \/ writes' = <<>>
           \/ writes' = Overwritten("equivalence", EquivalenceReport) \o Overwritten("rows", EquivalenceRows)
    BY <1>3 DEF EquivalenceFails, EndEquivalence, Ends, EndBy, GateEnds
  <2>2. {"equivalence", "rows"} \subseteq Files
    BY CandidateAssumption DEF Produced
  <2>3. WritesTo(Files, writes')
    BY <2>1, <2>2, WriteOver, WritesJoin, Unwritten
  <2>4. StoreTypeOK'
    BY <2>1, <2>3, Handed DEF BaseInv
  <2>5. ProcessOK'
    BY <1>0, <2>1, ProcessStands DEF BaseInv
  <2> QED
    BY <1>0, <2>1, <2>4, <2>5 DEF BaseInv, IdleOK, process
<1> QED
  BY <1>1, <1>2, <1>3 DEF CheckEquivalence, EquivalenceStep

(* Commands that have nothing to do but to hand over what they write.      *)
LEMMA DoneTyped ==
  ASSUME BaseInv, NEW kind, Begin(kind, "none"), UNCHANGED <<disk, mishaps, process, gate>>,
         WritesTo(Files, writes'), OutcomesOK'
  PROVE  BaseInv'
<1>1. command = "none" /\ command' = "none" /\ commands' = commands + 1
  BY DEF Begin
<1>2. StoreTypeOK'
  BY <1>1, Handed DEF BaseInv
<1>3. ProcessOK'
  BY <1>1, ProcessStands DEF BaseInv
<1> QED
  BY <1>1, <1>2, <1>3 DEF BaseInv, IdleOK, process, gate

(* A command of one step keeps the types.                                  *)
LEMMA AskedTyped ==
  ASSUME BaseInv, NEW kind, Ask(kind), UNCHANGED <<process, gate>>, OutcomesOK'
  PROVE  BaseInv'
<1>1. WritesTo(Files, writes')
  BY DEF BaseInv, StoreTypeOK, StoreOK, Ask
<1> QED
  BY <1>1, DoneTyped DEF Ask

(* Evaluations and comparisons keep the types.                             *)
LEMMA MeasureTyped ==
  ASSUME BaseInv, Measure
  PROVE  BaseInv'
<1>0. UNCHANGED <<process, gate>> /\ OutcomesOK'
  BY DEF Measure, BaseInv, OutcomesOK
<1>1. CASE \E side \in Sides : EvaluateOne(side)
  <2>1. PICK side \in Sides, s \in Selections, calibration \in Calibrations :
          Do("evaluate", Incremental(RowsFile[side], s.decisions)
               \o Overwritten(RowsFile[side], Predictions(s.decisions))
               \o Overwritten(side, EvaluationReport(side, s, calibration)))
    BY <1>1 DEF EvaluateOne
  <2>2. side \in Files /\ RowsFile[side] \in Files
    BY CandidateAssumption DEF Sides, RowsFile, Produced
  <2>3. Cardinality(s.decisions) \in Nat
    BY SelectionAssumption, FS_CardinalityType
  <2>4. /\ WritesTo(Files, Incremental(RowsFile[side], s.decisions))
        /\ WritesTo(Files, Overwritten(RowsFile[side], Predictions(s.decisions)))
        /\ WritesTo(Files, Overwritten(side, EvaluationReport(side, s, calibration)))
    BY <2>2, <2>3, WriteIncrements, WriteOver
  <2>5. WritesTo(Files, writes') /\ UNCHANGED <<disk, mishaps>> /\ Begin("evaluate", "none")
    BY <2>1, <2>4, WritesJoin DEF Do
  <2> QED
    BY <1>0, <2>5, DoneTyped
<1>2. CASE CompareReports
  <2>1. CASE Ask("compare")
    BY <1>0, <2>1, AskedTyped
  <2>2. CASE \E doc : Do("compare", Overwritten("comparison", doc))
    <3>1. "comparison" \in Files
      BY CandidateAssumption DEF Produced
    <3>2. WritesTo(Files, writes') /\ UNCHANGED <<disk, mishaps>> /\ Begin("compare", "none")
      BY <2>2, <3>1, WriteOver DEF Do
    <3> QED
      BY <1>0, <3>2, DoneTyped
  <2> QED
    BY <1>2, <2>1, <2>2 DEF CompareReports
<1> QED
  BY <1>1, <1>2 DEF Measure, ComparisonStep

(* The commands about the evidence keep the types.                         *)
LEMMA EvidencesTyped ==
  ASSUME BaseInv, Evidences
  PROVE  BaseInv'
<1>0. UNCHANGED <<process, gate>> /\ OutcomesOK'
  BY DEF Evidences, EvidenceStep, Check, BaseInv, OutcomesOK
<1>1. CASE CompatFails \/ Check \/ Ask("report")
  BY <1>0, <1>1, AskedTyped DEF CompatFails, Check
<1>2. ASSUME TokenizerOnly \/ Compat \/ Do("report", Overwritten("evidence", Evidence))
      PROVE  BaseInv'
  <2>1. {"compat", "compat_rows", "evidence"} \subseteq Files
    BY CandidateAssumption DEF Produced
  <2>2. WritesTo(Files, writes') /\ UNCHANGED <<disk, mishaps>> /\ \E kind : Begin(kind, "none")
    BY <1>2, <2>1, WriteOver, WritesJoin DEF TokenizerOnly, Compat, Do
  <2> QED
    BY <1>0, <2>2, DoneTyped
<1> QED
  BY <1>1, <1>2 DEF Evidences, EvidenceStep, Generate

(* The commands and edits about the release keep the types.                *)
LEMMA ReleaseTyped ==
  ASSUME BaseInv, Release
  PROVE  BaseInv'
<1>0. UNCHANGED <<process, gate>> /\ OutcomesOK'
  BY DEF Release, ReleaseStep, Verify, BaseInv, OutcomesOK
<1>1. CASE Verify \/ Ask("release")
  BY <1>0, <1>1, AskedTyped DEF Verify
<1>2. ASSUME \E f \in Files : \E doc : Do("edit", Overwritten(f, doc)) \/ Do("edit", AtOnce(f, doc))
                                  \/ Do("release", Overwritten(f, doc))
      PROVE  BaseInv'
  <2>1. WritesTo(Files, writes') /\ UNCHANGED <<disk, mishaps>> /\ \E kind : Begin(kind, "none")
    BY <1>2, WriteOver, WriteAtOnce DEF Do
  <2> QED
    BY <1>0, <2>1, DoneTyped
<1>3. Listed \cup {"lock", "evaluation", "model", "release"} \subseteq Files
  BY FilesKnown DEF Released
<1>4. ASSUME Replace \/ Withdraw \/ Correct
      PROVE  BaseInv'
  BY <1>2, <1>3, <1>4 DEF Replace, Withdraw, Correct
<1>5. ASSUME NEW r \in BOOLEAN, BuildRelease(r)
      PROVE  BaseInv'
  BY <1>1, <1>2, <1>3, <1>5 DEF BuildRelease
<1> QED
  BY <1>1, <1>4, <1>5 DEF Release, ReleaseStep

(* Writing keeps the types.                                                *)
LEMMA ProceedTyped ==
  ASSUME BaseInv, Proceed
  PROVE  BaseInv'
<1>0. Write /\ UNCHANGED <<process, gate, checked, verdict, command, commands, mishaps>> /\ command = "none"
  BY Zenon DEF Proceed, Write, BaseInv, StoreTypeOK
<1>1. PICK ds : writes \in Seq([file : Files, doc : ds])
  BY DEF BaseInv, StoreTypeOK, StoreOK, WritesTo
<1> DEFINE W == [file : Files, doc : ds]
<1>2. writes' \in Seq(W)
  <2> HIDE DEF W
  <2>1. writes \in Seq(W) /\ writes # <<>> /\ writes' = Tail(writes)
    BY <1>0, <1>1, Zenon DEF Write, W
  <2> QED
    BY <2>1
<1>3. StoreOK'
  BY <1>0, <1>2 DEF BaseInv, StoreTypeOK, StoreOK, Write, WritesTo
<1>4. StoreTypeOK'
  BY <1>0, <1>3 DEF BaseInv, StoreTypeOK
<1>5. ProcessOK'
  BY <1>0, ProcessStands DEF BaseInv
<1> QED
  BY <1>0, <1>4, <1>5 DEF BaseInv, IdleOK, OutcomesOK, process, gate

(* A kill keeps the types and leaves no command.                           *)
LEMMA CrashTyped ==
  ASSUME BaseInv, Crash
  PROVE  BaseInv'
<1>1. /\ disk' = disk /\ writes' = <<>> /\ command' = "none" /\ commands' = commands /\ mishaps' = mishaps + 1
      /\ sample' = {} /\ order' = <<>> /\ at' = 1 /\ epoch' = 0 /\ history' = <<>> /\ learnt' = 0 /\ compared' = <<>>
      /\ UNCHANGED <<checked, verdict>>
  BY DEF Crash, Die, EndBy, ProcessEnds, GateEnds
<1>2. StoreTypeOK'
  BY <1>1, Handed, Unwritten DEF BaseInv
<1>3. ProcessOK'
  BY <1>1, TrainingAssumption, FS_EmptySet DEF ProcessOK
<1> QED
  BY <1>1, <1>2, <1>3 DEF BaseInv, IdleOK, OutcomesOK

(* Every step keeps the types.                                             *)
LEMMA BaseStep ==
  ASSUME BaseInv, [CandidateNext]_cvars
  PROVE  BaseInv'
<1>1. CASE UNCHANGED cvars
  <2>1. UNCHANGED <<store, process, gate, checked, verdict>>
    BY <1>1 DEF cvars
  <2>2. StoreTypeOK' /\ ProcessOK'
    BY <2>1 DEF BaseInv, StoreTypeOK, StoreOK, ProcessOK, store, process
  <2> QED
    BY <2>1, <2>2 DEF BaseInv, IdleOK, OutcomesOK, store, process, gate
<1>2. CASE CandidateNext
  BY <1>2, TrainTyped, CheckEquivalenceTyped, MeasureTyped, EvidencesTyped, ReleaseTyped,
     ProceedTyped, CrashTyped DEF CandidateNext
<1> QED
  BY <1>1, <1>2

(* The types hold at first.                                                *)
LEMMA BaseInitially ==
  ASSUME CandidateInit
  PROVE  BaseInv
<1>1. StoreOK
  BY InitReleased DEF ReleaseInv
<1>2. ProcessOK
  BY TrainingAssumption, FS_EmptySet DEF CandidateInit, TrainingInit, ProcessOK
<1> QED
  BY <1>1, <1>2 DEF CandidateInit, TrainingInit, GateInit, BaseInv, StoreTypeOK, IdleOK, OutcomesOK

(* The files, the commands' states and their outcomes are what the model   *)
(* says they can be; a command that is being written down is no longer at  *)
(* work, and a training works on a sample just as long as it runs.         *)
THEOREM CandidateIsTyped == CandidateSpec => []CandidateTypeOK
<1>1. CandidateInit => BaseInv
  BY BaseInitially
<1>2. BaseInv /\ [CandidateNext]_cvars => BaseInv'
  BY BaseStep
<1>3. BaseInv => CandidateTypeOK
  <2> SUFFICES ASSUME BaseInv
               PROVE  CandidateTypeOK
    OBVIOUS
  <2>1. DOMAIN disk = Files /\ \A i \in DOMAIN writes : writes[i].file \in Files
    BY FilesOfWrites DEF BaseInv, StoreTypeOK, StoreOK
  <2> QED
    BY <2>1 DEF BaseInv, StoreTypeOK, ProcessOK, IdleOK, OutcomesOK, CandidateTypeOK
<1> QED
  BY <1>1, <1>2, <1>3, PTL DEF CandidateSpec

-----------------------------------------------------------------------------
(* --------------------------- the training run -------------------------- *)
LEMMA Division ==
  ASSUME NEW n \in Nat, NEW a \in Nat \ {0}
  PROVE  /\ n \div a \in Nat /\ a * (n \div a) <= n /\ n < a * (n \div a) + a
         /\ n % a = 0 <=> n = a * (n \div a)
<1>1. n \div a \in Int /\ n \div a >= 0
  OBVIOUS
<1>2. a * (n \div a) <= n /\ n < a * (n \div a) + a
  OBVIOUS
<1>3. n % a = 0 <=> n = a * (n \div a)
  OBVIOUS
<1> QED
  BY <1>1, <1>2, <1>3

(* A quotient is known by its remainder.                                   *)
LEMMA Quotient ==
  ASSUME NEW n \in Nat, NEW a \in Nat \ {0}, NEW t \in Nat, a * t <= n, n < a * t + a
  PROVE  n \div a = t
<1> DEFINE q == n \div a
<1>1. q \in Nat /\ a * q <= n /\ n < a * q + a
  BY Division
<1> HIDE DEF q
<1>2. ASSUME NEW i \in Nat, NEW j \in Nat, i < j
      PROVE  a * i + a <= a * j
  <2>1. a * (i + 1) <= a * j
    BY <1>2
  <2>2. a * (i + 1) = a * i + a
    OBVIOUS
  <2> QED
    BY <2>1, <2>2
<1>3. ~(q < t)
  BY <1>1, <1>2
<1>4. ~(t < q)
  BY <1>1, <1>2
<1>5. q = t
  BY <1>1, <1>3, <1>4
<1> QED
  BY <1>5 DEF q

(* The window of the next example is a new one, or has one example more.   *)
LEMMA WindowGrows ==
  ASSUME NEW p \in Nat \ {0}
  PROVE  /\ p % Accumulation = 0 => Window(p + 1) = {p + 1}
         /\ p % Accumulation # 0 => Window(p + 1) = Window(p) \cup {p + 1}
         /\ p \in Window(p) /\ Window(p) \subseteq 1..p
<1> DEFINE a == Accumulation
           q == p \div a
           k == (p - 1) \div a
<1>0. a \in Nat \ {0} /\ p - 1 \in Nat /\ p + 1 - 1 = p
  BY TrainingAssumption
<1>1. q \in Nat /\ a * q <= p /\ p < a * q + a /\ (p % a = 0 <=> p = a * q)
  BY <1>0, Division
<1>2. k \in Nat /\ a * k <= p - 1 /\ p - 1 < a * k + a
  BY <1>0, Division
<1>3. q * a = a * q /\ k * a = a * k /\ a * q \in Nat /\ a * k \in Nat
  BY <1>0, <1>1, <1>2
<1>4. p % a # 0 => k = q
  <2>1. p % a # 0 => a * q <= p - 1
    BY <1>0, <1>1, <1>3
  <2>2. p - 1 < a * q + a
    BY <1>0, <1>1, <1>3
  <2> QED
    BY <2>1, <2>2, <1>0, <1>1, Quotient
<1>5. Window(p) = (a * k + 1)..p /\ Window(p + 1) = (a * q + 1)..(p + 1)
  BY <1>0, <1>3 DEF Window
<1> HIDE DEF a, q, k
<1>6. p % a = 0 => Window(p + 1) = {p + 1}
  BY <1>1, <1>5
<1>7. p % a # 0 => Window(p + 1) = Window(p) \cup {p + 1}
  <2>1. ASSUME p % a # 0
        PROVE  (a * q + 1)..(p + 1) = ((a * q + 1)..p) \cup {p + 1}
    BY <1>1, <1>3
  <2> QED
    BY <2>1, <1>4, <1>5
<1>8. p \in Window(p) /\ Window(p) \subseteq 1..p
  BY <1>2, <1>3, <1>5
<1> QED
  BY <1>6, <1>7, <1>8 DEF a

(* A window ends no earlier than at its examples.                          *)
LEMMA WindowsEndLater ==
  ASSUME Len(order) \in Nat, NEW q \in 1..Len(order), NEW p \in Window(q)
  PROVE  WindowEnd(p) \in Nat /\ q <= WindowEnd(p)
<1> DEFINE a == Accumulation
           k == (q - 1) \div a
<1>0. a \in Nat \ {0} /\ q - 1 \in Nat
  BY TrainingAssumption
<1>1. k \in Nat /\ a * k <= q - 1 /\ q - 1 < a * k + a
  BY <1>0, Division
<1>2. k * a = a * k /\ a * k \in Nat /\ (k + 1) * a = a * k + a
  BY <1>0, <1>1
<1>3. p \in (a * k + 1)..q
  BY <1>2 DEF Window
<1>4. (p - 1) \div a = k
  <2>1. p - 1 \in Nat /\ a * k <= p - 1 /\ p - 1 < a * k + a
    BY <1>0, <1>1, <1>2, <1>3
  <2> HIDE DEF a, k
  <2> QED
    BY <2>1, <1>0, <1>1, Quotient
<1>5. WindowEnd(p) = IF a * k + a < Len(order) THEN a * k + a ELSE Len(order)
  <2> HIDE DEF k
  <2> QED
    BY <1>2, <1>4 DEF WindowEnd
<1> HIDE DEF a, k
<1> QED
  BY <1>0, <1>1, <1>2, <1>5

(* What has been learnt since the window began, or memory ran out in it.   *)
Fresh(p) == {j \in Window(p) : ~Fell(j, p)}

Earlier == UNION {Pieces(j) : j \in Fresh(at) \ {at}}

Underway == {Piece(at, k) : k \in 1..learnt}

Gathered == Earlier \cup Underway

FailuresOK == failures \subseteq 1..at - 1

GatheringOK == ~EpochOver => learnt <= Usable(order[at]) /\ grads = Gathered /\ accumulated = Gathered

HistoryOK ==
  /\ \E S : history \in Seq(S)
  /\ \A i \in DOMAIN history :
       /\ history[i].epoch \in 0..epoch
       /\ history[i].epoch = epoch =>
            /\ history[i].at \in 1..at - 1
            /\ history[i].applied = Surviving(history[i].at) /\ history[i].loss = history[i].applied

Applied(p) == \E i \in DOMAIN history : history[i].epoch = epoch /\ Pieces(p) \subseteq history[i].applied

(* Every example so far is through, was lost, or is in the open window.    *)
AccountedOK ==
  \A p \in 1..at - 1 : Fell(p, WindowEnd(p)) \/ Applied(p) \/ (~EpochOver /\ p \in Window(at))

TrainingInv == FailuresOK /\ GatheringOK /\ HistoryOK /\ AccountedOK

(* A training that is over has nothing to account for.                     *)
LEMMA NothingTrained ==
  ASSUME ProcessEnds
  PROVE  TrainingInv'
<1>1. at' = 1 /\ order' = <<>> /\ history' = <<>> /\ failures' = {}
  BY DEF ProcessEnds
<1>2. FailuresOK' /\ HistoryOK' /\ AccountedOK'
  BY <1>1 DEF FailuresOK, HistoryOK, AccountedOK
<1>3. EpochOver'
  BY <1>1 DEF EpochOver
<1> QED
  BY <1>2, <1>3 DEF TrainingInv, GatheringOK

(* An epoch begins with nothing behind it.                                 *)
LEMMA EpochStarts ==
  ASSUME BaseInv, TrainingInv, BaseInv', StartEpoch
  PROVE  TrainingInv'
<1>1. at' = 1 /\ learnt' = 0 /\ failures' = {} /\ grads' = {} /\ accumulated' = {} /\ epoch' = epoch + 1
      /\ history' = history
  BY DEF StartEpoch
<1>2. epoch \in Nat
  BY DEF BaseInv, ProcessOK
<1>3. FailuresOK' /\ AccountedOK'
  BY <1>1 DEF FailuresOK, AccountedOK
<1>4. HistoryOK'
  <2>1. \A i \in DOMAIN history : history[i].epoch \in 0..epoch + 1 /\ history[i].epoch # epoch + 1
    BY <1>2 DEF TrainingInv, HistoryOK
  <2> QED
    BY <1>1, <1>2, <2>1 DEF TrainingInv, HistoryOK
<1>5. GatheringOK'
  <2> SUFFICES ASSUME ~EpochOver'
               PROVE  learnt' <= Usable(order'[at']) /\ grads' = Gathered' /\ accumulated' = Gathered'
    BY DEF GatheringOK
  <2>1. Len(order') \in Nat /\ \A i \in 1..Len(order') : order'[i] \in Trainable
    <3>1. order' \in [1..Cardinality(sample) -> sample] /\ sample \subseteq Trainable
      BY DEF StartEpoch, Orders, BaseInv, ProcessOK
    <3>2. Cardinality(sample) \in Nat
      BY FS_CardinalityType DEF BaseInv, ProcessOK
    <3>3. order' \in Seq(sample)
      BY <3>1, <3>2
    <3> QED
      BY <3>1, <3>3, SeqElements
  <2>2. order'[1] \in Trainable
    BY <1>1, <2>1 DEF EpochOver
  <2>3. Usable(order'[1]) \in Nat
    BY <2>2, LearnableCount
  <2>4. Window(1) \ {1} = {}
    BY WindowGrows
  <2>5. Gathered' = {}
    BY <1>1, <2>4 DEF Gathered, Earlier, Underway, Fresh
  <2> QED
    BY <1>1, <2>3, <2>5
<1> QED
  BY <1>3, <1>4, <1>5 DEF TrainingInv

(* While no step is taken and no epoch starts, the history stays as good.  *)
LEMMA HistoryStands ==
  ASSUME BaseInv, HistoryOK, UNCHANGED <<history, epoch, order>>, at' \in {at, at + 1},
         failures' \in {failures, failures \cup {at}}
  PROVE  HistoryOK'
<1>1. at \in Nat
  BY OrderLength DEF BaseInv, ProcessOK
<1>2. ASSUME NEW p \in 1..at - 1
      PROVE  Surviving(p)' = Surviving(p)
  <2>1. \A j \in Window(p) : Fell(j, p)' = Fell(j, p)
    BY <1>1 DEF Fell
  <2>2. \A j \in Window(p) : Pieces(j)' = Pieces(j)
    BY DEF Pieces, Piece
  <2> QED
    BY <2>1, <2>2 DEF Surviving
<1>3. 1..at - 1 \subseteq 1..at' - 1
  <2>1. CASE at' = at
    BY <2>1
  <2>2. CASE at' = at + 1
    BY <1>1, <2>2
  <2> QED
    BY <2>1, <2>2
<1>4. ASSUME NEW i \in DOMAIN history, history[i].epoch = epoch
      PROVE  /\ history[i].at \in 1..at' - 1
             /\ history[i].applied = Surviving(history[i].at)'
             /\ history[i].loss = history[i].applied
  <2>1. /\ history[i].at \in 1..at - 1 /\ history[i].applied = Surviving(history[i].at)
        /\ history[i].loss = history[i].applied
    BY <1>4 DEF HistoryOK
  <2>2. Surviving(history[i].at)' = Surviving(history[i].at)
    BY <1>2, <2>1
  <2> QED
    BY <1>3, <2>1, <2>2
<1> QED
  BY <1>4 DEF HistoryOK

(* A gradient joins those of its window.                                   *)
LEMMA QuestionLearnt ==
  ASSUME BaseInv, TrainingInv, Learn
  PROVE  TrainingInv'
<1>0. /\ at \in 1..Len(order) /\ Len(order) \in Nat /\ learnt \in Nat /\ Usable(order[at]) \in Nat
      /\ learnt < Usable(order[at])
  <2>1. Len(order) \in Nat /\ \A i \in 1..Len(order) : order[i] \in Trainable
    BY OrderLength DEF BaseInv
  <2>2. ~EpochOver /\ learnt < Usable(order[at]) /\ at \in 1..Len(order) + 1 /\ learnt \in Nat
    BY DEF Learn, Unlearnt, BaseInv, ProcessOK
  <2>3. at \in 1..Len(order)
    BY <2>1, <2>2 DEF EpochOver
  <2> QED
    BY <2>1, <2>2, <2>3, LearnableCount
<1>1. UNCHANGED <<order, epoch, at, history, failures>> /\ learnt' = learnt + 1
  BY DEF Learn
<1>2. FailuresOK' /\ AccountedOK'
  BY <1>1 DEF TrainingInv, FailuresOK, AccountedOK, Fell, WindowEnd, Applied, Pieces, Piece, EpochOver
<1>3. HistoryOK'
  BY <1>1, HistoryStands DEF TrainingInv
<1>4. GatheringOK'
  <2>1. grads = Gathered /\ accumulated = Gathered
    BY DEF TrainingInv, GatheringOK, Learn, Unlearnt
  <2>2. Gathered' = Gathered \cup {Piece(at, learnt + 1)}
    <3>1. \A j \in Window(at) : Fell(j, at)' = Fell(j, at) /\ Pieces(j)' = Pieces(j)
      BY <1>1 DEF Fell, Pieces, Piece
    <3>2. Earlier' = Earlier
      BY <1>1, <3>1 DEF Earlier, Fresh
    <3>3. Underway' = Underway \cup {Piece(at, learnt + 1)}
      <4>1. 1..learnt' = (1..learnt) \cup {learnt + 1}
        BY <1>0, <1>1
      <4> QED
        BY <1>1, <4>1 DEF Underway, Piece
    <3> QED
      BY <3>2, <3>3 DEF Gathered
  <2>3. grads' = Gathered' /\ accumulated' = Gathered'
    BY <2>1, <2>2 DEF Learn
  <2>4. learnt' <= Usable(order[at])
    BY <1>0, <1>1
  <2> QED
    BY <1>1, <2>3, <2>4 DEF GatheringOK
<1> QED
  BY <1>2, <1>3, <1>4 DEF TrainingInv

(* An example is behind when no example is left, or another one is next.   *)
LEMMA NextLearnable ==
  ASSUME BaseInv, BaseInv', order' = order, NextExample, ~EpochOver', grads' = {}, accumulated' = {},
         Gathered' = {}
  PROVE  GatheringOK'
<1>1. Len(order) \in Nat /\ \A i \in 1..Len(order) : order[i] \in Trainable
  BY OrderLength DEF BaseInv
<1>2. at' \in 1..Len(order)
  BY <1>1 DEF BaseInv, ProcessOK, EpochOver
<1>3. Usable(order'[at']) \in Nat /\ learnt' = 0
  BY <1>1, <1>2, LearnableCount DEF NextExample
<1> QED
  BY <1>3 DEF GatheringOK

(* What memory took is known, and the window goes on without it.           *)
LEMMA MemoryRanOut ==
  ASSUME BaseInv, TrainingInv, BaseInv', OutOfMemory
  PROVE  TrainingInv'
<1>0. at \in 1..Len(order) /\ Len(order) \in Nat
  <2>1. Len(order) \in Nat
    BY OrderLength DEF BaseInv
  <2> QED
    BY <2>1 DEF OutOfMemory, Unlearnt, EpochOver, BaseInv, ProcessOK
<1>1. /\ UNCHANGED <<order, epoch, history>> /\ failures' = failures \cup {at} /\ at' = at + 1 /\ learnt' = 0
      /\ grads' = {} /\ accumulated' = {}
  BY DEF OutOfMemory, NextExample
<1>2. FailuresOK'
  BY <1>0, <1>1 DEF TrainingInv, FailuresOK
<1>3. HistoryOK'
  BY <1>1, HistoryStands DEF TrainingInv
<1>4. Window(at + 1) \subseteq 1..at + 1 /\ Window(at + 1) \subseteq Window(at) \cup {at + 1}
      /\ at \in Window(at) /\ Window(at) \subseteq 1..at
  BY <1>0, WindowGrows
<1>5. AccountedOK'
  <2> SUFFICES ASSUME NEW p \in 1..at
               PROVE  Fell(p, WindowEnd(p))' \/ Applied(p)' \/ (~EpochOver' /\ p \in Window(at'))
    BY <1>0, <1>1 DEF AccountedOK
  <2>1. WindowEnd(p)' = WindowEnd(p) /\ Applied(p)' = Applied(p)
    BY <1>1 DEF WindowEnd, Applied, Pieces, Piece
  <2>2. CASE p \in Window(at)
    <3>1. WindowEnd(p) \in Nat /\ at <= WindowEnd(p)
      BY <1>0, <2>2, WindowsEndLater
    <3>2. at \in p..WindowEnd(p)
      BY <1>0, <3>1
    <3> QED
      BY <1>1, <2>1, <3>2 DEF Fell
  <2>3. CASE p \notin Window(at)
    <3>1. p \in 1..at - 1
      BY <1>0, <1>4, <2>3
    <3>2. Fell(p, WindowEnd(p)) \/ Applied(p)
      BY <2>3, <3>1 DEF TrainingInv, AccountedOK
    <3> QED
      BY <1>1, <2>1, <3>2 DEF Fell
  <2> QED
    BY <2>2, <2>3
<1>6. GatheringOK'
  <2>1. Gathered' = {}
    <3>1. \A j \in Window(at + 1) : j # at + 1 => at \in j..(at + 1)
      BY <1>0, <1>4
    <3>2. Fresh(at)' \subseteq {at + 1}
      BY <1>1, <3>1 DEF Fresh, Fell
    <3>3. Underway' = {}
      BY <1>1 DEF Underway
    <3> QED
      BY <1>1, <3>2, <3>3 DEF Gathered, Earlier
  <2> QED
    BY <1>1, <2>1, NextLearnable DEF OutOfMemory, GatheringOK
<1> QED
  BY <1>2, <1>3, <1>5, <1>6 DEF TrainingInv

(* An example that is through is in the open window, or was applied with   *)
(* it.                                                                     *)
LEMMA ExampleDone ==
  ASSUME BaseInv, TrainingInv, BaseInv', EndExample
  PROVE  TrainingInv'
<1>0. at \in 1..Len(order) /\ Len(order) \in Nat /\ \A i \in 1..Len(order) : order[i] \in Trainable
  <2>1. Len(order) \in Nat /\ \A i \in 1..Len(order) : order[i] \in Trainable
    BY OrderLength DEF BaseInv
  <2> QED
    BY <2>1 DEF EndExample, EpochOver, BaseInv, ProcessOK
<1>1. /\ UNCHANGED <<order, epoch, failures>> /\ at' = at + 1 /\ learnt' = 0
      /\ IF Due
         THEN /\ history' = Append(history, [epoch |-> epoch, at |-> at, applied |-> grads, loss |-> accumulated])
              /\ grads' = {} /\ accumulated' = {}
         ELSE UNCHANGED <<history, grads, accumulated>>
  BY DEF EndExample, NextExample
<1>2. /\ at % Accumulation = 0 => Window(at + 1) = {at + 1}
      /\ at % Accumulation # 0 => Window(at + 1) = Window(at) \cup {at + 1}
      /\ at \in Window(at) /\ Window(at) \subseteq 1..at
  BY <1>0, WindowGrows
<1>3. failures \subseteq 1..at - 1 /\ failures' \subseteq 1..at' - 1
  BY <1>0, <1>1 DEF TrainingInv, FailuresOK
<1>4. grads = Surviving(at) /\ accumulated = Surviving(at)
  <2>1. grads = Gathered /\ accumulated = Gathered /\ learnt = Usable(order[at])
    <3>1. ~EpochOver /\ ~(learnt < Usable(order[at])) /\ learnt <= Usable(order[at])
      BY DEF EndExample, Unlearnt, TrainingInv, GatheringOK
    <3>2. Usable(order[at]) \in Nat /\ learnt \in Nat
      BY <1>0, LearnableCount DEF BaseInv, ProcessOK
    <3> QED
      BY <3>1, <3>2 DEF TrainingInv, GatheringOK
  <2>2. at \in Fresh(at)
    BY <1>0, <1>2, <1>3 DEF Fresh, Fell
  <2>3. Underway = Pieces(at)
    BY <2>1 DEF Underway, Pieces
  <2>4. Surviving(at) = UNION {Pieces(j) : j \in Fresh(at)}
    BY DEF Surviving, Fresh
  <2>5. Gathered = Surviving(at)
    BY <2>2, <2>3, <2>4 DEF Gathered, Earlier
  <2> QED
    BY <2>1, <2>5
<1>5. ASSUME NEW p
      PROVE  Surviving(p)' = Surviving(p) /\ Pieces(p)' = Pieces(p)
  BY <1>1 DEF Surviving, Pieces, Piece, Fell
<1>6. HistoryOK'
  <2>1. CASE ~Due
    BY <1>1, <2>1, HistoryStands DEF TrainingInv
  <2>2. CASE Due
    <3> DEFINE step == [epoch |-> epoch, at |-> at, applied |-> grads, loss |-> accumulated]
    <3>1. history' = Append(history, step)
      BY <1>1, <2>2
    <3>2. PICK S : history \in Seq(S)
      BY DEF TrainingInv, HistoryOK
    <3>3. history \in Seq(S \cup {step}) /\ history' \in Seq(S \cup {step})
      <4> HIDE DEF step
      <4>1. history \in Seq(S \cup {step})
        BY <3>2, SeqWidens, Zenon
      <4> QED
        BY <3>1, <4>1
    <3>4. /\ DOMAIN history' = 1..Len(history) + 1 /\ Len(history) \in Nat /\ DOMAIN history = 1..Len(history)
          /\ history'[Len(history) + 1] = step
          /\ \A i \in DOMAIN history : history'[i] = history[i]
      <4> HIDE DEF step
      <4> QED
        BY <3>1, <3>3
    <3>5. ASSUME NEW i \in DOMAIN history'
          PROVE  /\ history'[i].epoch \in 0..epoch
                 /\ history'[i].epoch = epoch =>
                      /\ history'[i].at \in 1..at
                      /\ history'[i].applied = Surviving(history'[i].at)
                      /\ history'[i].loss = history'[i].applied
      <4>1. CASE i \in DOMAIN history
        BY <1>0, <3>4, <4>1 DEF TrainingInv, HistoryOK
      <4>2. CASE i = Len(history) + 1
        <5>1. history'[i] = step
          BY <3>4, <4>2
        <5>2. /\ history'[i].epoch = epoch /\ history'[i].at = at /\ history'[i].applied = grads
              /\ history'[i].loss = accumulated
          BY <5>1
        <5>3. epoch \in 0..epoch
          BY DEF BaseInv, ProcessOK
        <5> QED
          BY <1>0, <1>4, <5>2, <5>3
      <4> QED
        BY <3>4, <4>1, <4>2
    <3>6. at' - 1 = at /\ epoch' = epoch
      BY <1>0, <1>1
    <3>7. ASSUME NEW i \in DOMAIN history'
          PROVE  Surviving(history[i].at)' = Surviving(history'[i].at)
      BY <1>1 DEF Surviving, Pieces, Piece, Fell
    <3>8. (\A i \in DOMAIN history :
             /\ history[i].epoch \in 0..epoch
             /\ history[i].epoch = epoch =>
                  /\ history[i].at \in 1..at - 1
                  /\ history[i].applied = Surviving(history[i].at)
                  /\ history[i].loss = history[i].applied)'
      BY <3>5, <3>6, <3>7
    <3>9. (\E U : history \in Seq(U))'
      BY <3>3
    <3> QED
      BY <3>8, <3>9 DEF HistoryOK
  <2> QED
    BY <2>1, <2>2
<1>7. ASSUME NEW p, Applied(p)
      PROVE  Applied(p)'
  <2>1. CASE ~Due
    BY <1>1, <1>5, <1>7, <2>1 DEF Applied
  <2>2. CASE Due
    <3>1. \A i \in DOMAIN history : i \in DOMAIN history' /\ history'[i] = history[i]
      BY <1>1, <2>2 DEF TrainingInv, HistoryOK
    <3> QED
      BY <1>1, <1>5, <1>7, <3>1 DEF Applied
  <2> QED
    BY <2>1, <2>2
<1>8. AccountedOK'
  <2> SUFFICES ASSUME NEW p \in 1..at
               PROVE  Fell(p, WindowEnd(p))' \/ Applied(p)' \/ (~EpochOver' /\ p \in Window(at'))
    BY <1>0, <1>1 DEF AccountedOK
  <2>1. Fell(p, WindowEnd(p))' = Fell(p, WindowEnd(p))
    BY <1>1 DEF Fell, WindowEnd
  <2>2. CASE p \notin Window(at)
    <3>1. p \in 1..at - 1
      BY <1>0, <1>2, <2>2
    <3>2. Fell(p, WindowEnd(p)) \/ Applied(p)
      BY <2>2, <3>1 DEF TrainingInv, AccountedOK
    <3> QED
      BY <1>7, <2>1, <3>2
  <2>3. CASE p \in Window(at) /\ ~Due
    <3>1. at % Accumulation # 0 /\ at # Len(order)
      BY <2>3 DEF Due
    <3>2. ~EpochOver' /\ p \in Window(at')
      BY <1>0, <1>1, <1>2, <2>3, <3>1 DEF EpochOver
    <3> QED
      BY <3>2
  <2>4. CASE p \in Window(at) /\ Due /\ Fell(p, at)
    <3>1. WindowEnd(p) \in Nat /\ at <= WindowEnd(p)
      BY <1>0, <2>4, WindowsEndLater
    <3>2. p..at \subseteq p..WindowEnd(p)
      BY <1>0, <3>1
    <3> QED
      BY <2>1, <2>4, <3>2 DEF Fell
  <2>5. CASE p \in Window(at) /\ Due /\ ~Fell(p, at)
    <3>1. Pieces(p) \subseteq grads
      BY <1>4, <2>5 DEF Surviving
    <3>2. PICK S : history \in Seq(S)
      BY DEF TrainingInv, HistoryOK
    <3>3. PICK i \in DOMAIN history' : history'[i] = [epoch |-> epoch, at |-> at, applied |-> grads, loss |-> accumulated]
      <4> DEFINE step == [epoch |-> epoch, at |-> at, applied |-> grads, loss |-> accumulated]
      <4>1. history' = Append(history, step)
        BY <1>1, <2>5
      <4> HIDE DEF step
      <4>2. Len(history) + 1 \in DOMAIN history' /\ history'[Len(history) + 1] = step
        BY <3>2, <4>1
      <4> QED
        BY <4>2 DEF step
    <3>4. history'[i].epoch = epoch' /\ history'[i].applied = grads
      BY <1>1, <3>3
    <3> QED
      BY <1>5, <3>1, <3>4 DEF Applied
  <2> QED
    BY <2>2, <2>3, <2>4, <2>5
<1>9. GatheringOK'
  <2> SUFFICES ASSUME ~EpochOver'
               PROVE  GatheringOK'
    BY DEF GatheringOK
  <2>1. Underway' = {}
    BY <1>1 DEF Underway
  <2>2. at # Len(order)
    BY <1>0, <1>1 DEF EpochOver
  <2>3. CASE Due
    <3>1. Window(at + 1) = {at + 1}
      BY <1>2, <2>2, <2>3 DEF Due
    <3>2. Gathered' = {}
      BY <1>1, <2>1, <3>1 DEF Gathered, Earlier, Fresh
    <3> QED
      BY <1>1, <2>3, <3>2, NextLearnable DEF EndExample
  <2>4. CASE ~Due
    <3>1. Window(at + 1) = Window(at) \cup {at + 1}
      BY <1>2, <2>4 DEF Due
    <3>2. \A j \in Window(at) : failures \cap (j..at + 1) = failures \cap (j..at)
      BY <1>0, <1>2, <1>3
    <3>3. at + 1 \notin Window(at)
      BY <1>0, <1>2
    <3>4. Fresh(at)' \ {at + 1} = Fresh(at)
      BY <1>1, <3>1, <3>2, <3>3 DEF Fresh, Fell
    <3>5. Earlier' = UNION {Pieces(j) : j \in Fresh(at)}
      BY <1>1, <1>5, <3>4 DEF Earlier
    <3>6. Gathered' = Surviving(at)
      BY <2>1, <3>5 DEF Gathered, Surviving, Fresh
    <3>7. grads' = Gathered' /\ accumulated' = Gathered'
      BY <1>1, <1>4, <2>4, <3>6
    <3>8. at' \in 1..Len(order) /\ learnt' = 0 /\ order' = order
      BY <1>0, <1>1, <2>2
    <3>9. Usable(order'[at']) \in Nat
      BY <1>0, <3>8, LearnableCount
    <3> QED
      BY <3>7, <3>8, <3>9 DEF GatheringOK
  <2> QED
    BY <2>3, <2>4
<1> QED
  BY <1>3, <1>6, <1>8, <1>9 DEF TrainingInv, FailuresOK

(* Other commands leave the training alone.                                *)
LEMMA TrainingStands ==
  ASSUME TrainingInv, UNCHANGED <<order, epoch, at, learnt, grads, accumulated, history, failures>>
  PROVE  TrainingInv'
<1>1. FailuresOK' /\ EpochOver' = EpochOver
  BY DEF TrainingInv, FailuresOK, EpochOver
<1>2. GatheringOK'
  BY <1>1 DEF TrainingInv, GatheringOK, Gathered, Earlier, Underway, Fresh, Fell, Pieces, Piece
<1>3. HistoryOK'
  <2>1. ASSUME NEW i \in DOMAIN history
        PROVE  Surviving(history[i].at)' = Surviving(history[i].at)
    BY DEF Surviving, Fell, Pieces, Piece
  <2>2. (\A i \in DOMAIN history :
           /\ history[i].epoch \in 0..epoch
           /\ history[i].epoch = epoch =>
                /\ history[i].at \in 1..at - 1
                /\ history[i].applied = Surviving(history[i].at)
                /\ history[i].loss = history[i].applied)'
    BY <2>1 DEF TrainingInv, HistoryOK
  <2>3. (\E S : history \in Seq(S))'
    BY DEF TrainingInv, HistoryOK
  <2> QED
    BY <2>2, <2>3 DEF HistoryOK
<1>4. AccountedOK'
  BY <1>1 DEF TrainingInv, AccountedOK, Fell, WindowEnd, Applied, Pieces, Piece
<1> QED
  BY <1>1, <1>2, <1>3, <1>4 DEF TrainingInv

(* Every step keeps the invariant of the training.                         *)
LEMMA TrainingKept ==
  ASSUME BaseInv, TrainingInv, BaseInv', [CandidateNext]_cvars
  PROVE  TrainingInv'
<1>1. CASE UNCHANGED process
  BY <1>1, TrainingStands DEF process
<1>2. CASE Crash
  BY <1>2, NothingTrained DEF Crash
<1>3. CASE Train
  <2>1. CASE \E c \in Configs : BeginTraining(c)
    BY <2>1, TrainingStands, <1>3 DEF BeginTraining, BaseInv, IdleOK
  <2>2. CASE StartEpoch \/ Learn \/ OutOfMemory \/ EndExample
    BY <2>2, EpochStarts, QuestionLearnt, MemoryRanOut, ExampleDone
  <2>3. CASE Export
    BY <2>3, NothingTrained DEF Export
  <2> QED
    BY <1>3, <2>1, <2>2, <2>3 DEF Train, TrainingStep
<1> QED
  BY <1>1, <1>2, <1>3 DEF CandidateNext, CheckEquivalence, Measure, Evidences, Release, Proceed, cvars

(* It holds at first.                                                      *)
LEMMA NothingTrainedYet ==
  ASSUME CandidateInit
  PROVE  TrainingInv
<1>1. at = 1 /\ order = <<>> /\ history = <<>> /\ failures = {}
  BY DEF CandidateInit, TrainingInit
<1>2. FailuresOK /\ HistoryOK /\ AccountedOK
  BY <1>1 DEF FailuresOK, HistoryOK, AccountedOK
<1>3. EpochOver
  BY <1>1 DEF EpochOver
<1> QED
  BY <1>2, <1>3 DEF TrainingInv, GatheringOK

(* It holds for ever.                                                      *)
LEMMA TrainingIsInvariant == CandidateSpec => [](BaseInv /\ TrainingInv)
<1>1. CandidateInit => BaseInv /\ TrainingInv
  BY BaseInitially, NothingTrainedYet
<1>2. BaseInv /\ TrainingInv /\ [CandidateNext]_cvars => (BaseInv /\ TrainingInv)'
  BY BaseStep, TrainingKept
<1> QED
  BY <1>1, <1>2, PTL DEF CandidateSpec

(* Whatever the sample, the windows and the examples at which memory runs  *)
(* out: a step of the optimizer applies just the gradients its own window  *)
(* has computed since then, and the loss it reports is theirs.             *)
THEOREM WindowsAreApplied == CandidateSpec => []StepsAreWhole
<1>1. BaseInv /\ TrainingInv => StepsAreWhole
  BY DEF TrainingInv, HistoryOK, StepsAreWhole
<1> QED
  BY <1>1, TrainingIsInvariant, PTL

(* And an example whose questions are not in a step of its epoch by the    *)
(* epoch's end was lost to memory that ran out at or after it in its own   *)
(* window.                                                                 *)
THEOREM OnlyMemoryLosesExamples == CandidateSpec => []LossesStayInWindow
<1>1. BaseInv /\ TrainingInv => LossesStayInWindow
  <2> SUFFICES ASSUME BaseInv, TrainingInv, EpochOver, NEW p \in DOMAIN order
               PROVE  Fell(p, WindowEnd(p)) \/ Applied(p)
    BY DEF LossesStayInWindow, Applied
  <2>1. Len(order) \in Nat /\ DOMAIN order = 1..Len(order)
    BY OrderLength DEF BaseInv
  <2>2. p \in 1..at - 1
    BY <2>1 DEF EpochOver, BaseInv, ProcessOK
  <2> QED
    BY <2>2 DEF TrainingInv, AccountedOK
<1> QED
  BY <1>1, TrainingIsInvariant, PTL

-----------------------------------------------------------------------------
(* -------------------------- what a step does --------------------------- *)
(* What the gates and the bundle are about.                                *)
Bundle == {"weights", "manifest", "training"}

Evaluated == {"direct", "generative", "direct_rows", "generative_rows"}

Gated == {"equivalence", "rows"}

Others == Files \ (Bundle \cup Evaluated \cup Gated \cup {"comparison", "compat"})

(* A check of equivalence begins with a stamp of its own.                  *)
Ticks ==
  \/ commands' = commands /\ (command' = "equivalence" => command = "equivalence")
  \/ commands' = commands + 1

Waits == UNCHANGED <<disk, writes, mishaps>> /\ Ticks

Hands(fs) ==
  /\ writes = <<>> /\ UNCHANGED <<disk, mishaps>> /\ Ticks
  /\ command' # "equivalence" /\ WritesTo(fs, writes')

Dies == disk' = disk /\ writes' = <<>> /\ mishaps' = mishaps + 1 /\ command' = "none" /\ commands' = commands

CompatWrites == \E doc, rows : doc.kind = "compat" /\
  \/ writes' = Overwritten("compat", doc)
  \/ writes' = Overwritten("compat_rows", rows) \o Overwritten("compat", doc)

StepKind ==
  \/ Waits
  \/ Write /\ UNCHANGED <<command, commands, mishaps>>
  \/ Dies
  \/ Hands(Others)
  \/ Hands(Bundle) /\ Export
  \/ Hands(Gated) /\ EndEquivalence
  \/ \E side \in Sides : Hands({side, RowsFile[side]}) /\ EvaluateOne(side)
  \/ Hands({"comparison"}) /\ CompareReports /\ ReportsPair /\ RowsPair /\ MetricsPair
  \/ Hands({"compat_rows", "compat"}) /\ CompatWrites

(* A command that only asks writes nothing.                                *)
LEMMA AskWaits ==
  ASSUME NEW kind, Ask(kind)
  PROVE  StepKind
BY DEF Ask, Begin, StepKind, Waits, Ticks

(* A command of one step hands over its writes.                            *)
LEMMA DoHands ==
  ASSUME NEW kind, NEW fs, NEW ws, Do(kind, ws), WritesTo(fs, ws)
  PROVE  Hands(fs)
BY DEF Do, Begin, Hands, Ticks

(* What the training does to the files.                                    *)
LEMMA TrainDoes ==
  ASSUME BaseInv, Train
  PROVE  StepKind
<1>1. CASE \E c \in Configs : BeginTraining(c)
  BY <1>1 DEF BeginTraining, Begin, StepKind, Waits, Ticks
<1>2. CASE StartEpoch \/ Learn \/ OutOfMemory \/ EndExample
  <2>1. UNCHANGED store
    BY <1>2 DEF StartEpoch, Learn, OutOfMemory, EndExample, Goes
  <2> QED
    BY <2>1 DEF store, StepKind, Waits, Ticks
<1>3. CASE Export
  <2>1. WritesTo(Bundle, writes')
    <3>1. {"weights", "manifest", "training"} \subseteq Bundle
      BY DEF Bundle
    <3> QED
      BY <1>3, <3>1, WriteOver, WritesJoin DEF Export, Ends, EndBy
  <2>2. writes = <<>>
    BY <1>3 DEF Export, Ends, BaseInv, StoreTypeOK
  <2> QED
    BY <1>3, <2>1, <2>2 DEF Export, Ends, EndBy, StepKind, Hands, Ticks
<1> QED
  BY <1>1, <1>2, <1>3 DEF Train, TrainingStep

(* What the check of equivalence does to the files.                        *)
LEMMA CheckEquivalenceDoes ==
  ASSUME BaseInv, CheckEquivalence
  PROVE  StepKind
<1>1. CASE BeginEquivalence
  BY <1>1 DEF BeginEquivalence, Begin, StepKind, Waits, Ticks
<1>2. CASE CompareRequest
  BY <1>2 DEF CompareRequest, Goes, store, StepKind, Waits, Ticks
<1>3. CASE EquivalenceFails
  <2>1. writes = <<>> /\ writes' = <<>> /\ WritesTo(Others, writes')
    BY <1>3, Unwritten DEF EquivalenceFails, Ends, EndBy, BaseInv, StoreTypeOK
  <2> QED
    BY <1>3, <2>1 DEF EquivalenceFails, Ends, EndBy, StepKind, Hands, Ticks
<1>4. CASE EndEquivalence
  <2>1. WritesTo(Gated, writes')
    <3>1. {"equivalence", "rows"} \subseteq Gated
      BY DEF Gated
    <3> QED
      BY <1>4, <3>1, WriteOver, WritesJoin DEF EndEquivalence, Ends, EndBy
  <2>2. writes = <<>>
    BY <1>4 DEF EndEquivalence, Ends, BaseInv, StoreTypeOK
  <2> QED
    BY <1>4, <2>1, <2>2 DEF EndEquivalence, Ends, EndBy, StepKind, Hands, Ticks
<1> QED
  BY <1>1, <1>2, <1>3, <1>4 DEF CheckEquivalence, EquivalenceStep

(* What evaluations and comparisons do to the files.                       *)
LEMMA MeasureDoes ==
  ASSUME BaseInv, Measure
  PROVE  StepKind
<1>1. ASSUME NEW side \in Sides, EvaluateOne(side)
      PROVE  StepKind
  <2>1. PICK s \in Selections, calibration \in Calibrations :
          Do("evaluate", Incremental(RowsFile[side], s.decisions)
               \o Overwritten(RowsFile[side], Predictions(s.decisions))
               \o Overwritten(side, EvaluationReport(side, s, calibration)))
    BY <1>1 DEF EvaluateOne
  <2> DEFINE fs == {side, RowsFile[side]}
  <2>2. Cardinality(s.decisions) \in Nat
    BY SelectionAssumption, FS_CardinalityType
  <2>3. side \in fs /\ RowsFile[side] \in fs
    OBVIOUS
  <2> HIDE DEF fs
  <2>4. /\ WritesTo(fs, Incremental(RowsFile[side], s.decisions))
        /\ WritesTo(fs, Overwritten(RowsFile[side], Predictions(s.decisions)))
        /\ WritesTo(fs, Overwritten(side, EvaluationReport(side, s, calibration)))
    BY <2>2, <2>3, WriteIncrements, WriteOver
  <2>5. WritesTo(fs, Incremental(RowsFile[side], s.decisions)
               \o Overwritten(RowsFile[side], Predictions(s.decisions))
               \o Overwritten(side, EvaluationReport(side, s, calibration)))
    BY <2>4, WritesJoin
  <2>6. Hands(fs)
    BY <2>1, <2>5, DoHands
  <2> QED
    BY <1>1, <2>6 DEF StepKind, fs
<1>2. CASE CompareReports
  <2>1. CASE ~(ReportsPair /\ RowsPair /\ MetricsPair)
    BY <1>2, <2>1, AskWaits DEF CompareReports
  <2>2. CASE ReportsPair /\ RowsPair /\ MetricsPair
    <3>1. PICK doc : Do("compare", Overwritten("comparison", doc))
      BY <1>2, <2>2 DEF CompareReports
    <3>2. WritesTo({"comparison"}, Overwritten("comparison", doc))
      BY WriteOver
    <3>3. Hands({"comparison"})
      BY <3>1, <3>2, DoHands
    <3> QED
      BY <1>2, <2>2, <3>3 DEF StepKind
  <2> QED
    BY <2>1, <2>2
<1> QED
  BY <1>1, <1>2 DEF Measure, ComparisonStep

(* What the commands about the evidence do to the files.                   *)
LEMMA EvidencesDoes ==
  ASSUME BaseInv, Evidences
  PROVE  StepKind
<1>1. CASE CompatFails \/ Check \/ Ask("report")
  BY <1>1, AskWaits DEF CompatFails, Check
<1>2. CASE TokenizerOnly
  <2>1. Do("compat", Overwritten("compat", CompatReport({})))
    BY <1>2 DEF TokenizerOnly
  <2>2. WritesTo({"compat_rows", "compat"}, Overwritten("compat", CompatReport({})))
    BY WriteOver
  <2>3. Hands({"compat_rows", "compat"})
    BY <2>1, <2>2, DoHands
  <2>4. CompatWrites
    BY <2>1 DEF Do, CompatWrites, CompatReport
  <2> QED
    BY <2>3, <2>4 DEF StepKind
<1>3. CASE Compat
  <2> DEFINE rows == [kind |-> "compat_rows", stamp |-> Stamp]
  <2>1. PICK doc : doc.kind = "compat" /\ Do("compat", Overwritten("compat_rows", rows) \o Overwritten("compat", doc))
    BY <1>3 DEF Compat, CompatReport
  <2>2. WritesTo({"compat_rows", "compat"}, Overwritten("compat_rows", rows) \o Overwritten("compat", doc))
    BY WriteOver, WritesJoin
  <2>3. Hands({"compat_rows", "compat"})
    BY <2>1, <2>2, DoHands
  <2>4. CompatWrites
    BY <2>1 DEF Do, CompatWrites
  <2> QED
    BY <2>3, <2>4 DEF StepKind
<1>4. CASE Do("report", Overwritten("evidence", Evidence))
  <2>1. "evidence" \in Others
    BY CandidateAssumption DEF Produced, Others, Bundle, Evaluated, Gated
  <2>2. Hands(Others)
    BY <1>4, <2>1, WriteOver, DoHands
  <2> QED
    BY <2>2 DEF StepKind
<1> QED
  BY <1>1, <1>2, <1>3, <1>4 DEF Evidences, EvidenceStep, Generate

(* What the release and the edits do to the files.                         *)
LEMMA ReleaseDoes ==
  ASSUME BaseInv, Release
  PROVE  StepKind
<1>1. CASE Verify \/ Ask("release")
  BY <1>1, AskWaits DEF Verify
<1>2. Listed \cup {"lock", "evaluation", "model", "release"} \subseteq Others
  BY CandidateAssumption DEF Produced, Kept, Others, Bundle, Evaluated, Gated
<1>3. ASSUME NEW f \in Others, NEW doc, NEW kind, Do(kind, Overwritten(f, doc)) \/ Do(kind, AtOnce(f, doc))
      PROVE  StepKind
  BY <1>3, WriteOver, WriteAtOnce, DoHands DEF StepKind
<1>4. CASE Replace \/ Withdraw \/ Correct
  BY <1>2, <1>3, <1>4 DEF Replace, Withdraw, Correct
<1>5. ASSUME NEW r \in BOOLEAN, BuildRelease(r)
      PROVE  StepKind
  BY <1>1, <1>2, <1>3, <1>5 DEF BuildRelease
<1> QED
  BY <1>1, <1>4, <1>5 DEF Release, ReleaseStep

(* Every step is of one of these kinds.                                    *)
LEMMA StepsAreKnown ==
  ASSUME BaseInv, [CandidateNext]_cvars
  PROVE  StepKind
<1>1. CASE UNCHANGED cvars
  BY <1>1 DEF cvars, store, StepKind, Waits, Ticks
<1>2. CASE Proceed
  BY <1>2 DEF Proceed, Write, StepKind
<1>3. CASE Crash
  BY <1>3 DEF Crash, Die, EndBy, StepKind, Dies
<1> QED
  BY <1>1, <1>2, <1>3, TrainDoes, CheckEquivalenceDoes, MeasureDoes, EvidencesDoes, ReleaseDoes DEF CandidateNext

-----------------------------------------------------------------------------
(* --------------------------- sound documents --------------------------- *)
(* What each document says is right in itself, on disk or about to be.     *)
SoundManifest(d) ==
  d.digest = [kind |-> "weights", stamp |-> d.digest.stamp, layers |-> Injected(d.config), rank |-> d.config.rank]

Verdicts == [argmax : BOOLEAN, deviation : BOOLEAN, policy : BOOLEAN]

SoundGate(d) ==
  /\ d.passed = (d.memory /\ \A i \in DOMAIN d.requests : Passed(d.requests[i]))
  /\ d.summary \in Verdicts /\ \A i \in DOMAIN d.requests : d.requests[i] \in Verdicts

SoundEvaluation(d) == "all" \notin d.groups /\ \A g \in d.gates : g.part # "all"

SoundComparison(d) ==
  /\ \A side \in Sides : d.from[side].backend = side /\ d.from[side].about = d.from["direct"].about
  /\ \A side \in Sides :
       /\ Cardinality(d.from[RowsFile[side]].decisions) = d.decisions
       /\ d.from[RowsFile[side]].decisions = d.from["direct_rows"].decisions
  /\ GateOf("all", "gate", TRUE) \in d.gates =>
       \A g \in d.from["direct"].gates : g.passed \/ g.name # "calibration"

MayHold(d, kind) == d.kind \in {"absent", "torn", kind}

Fits(f, d) ==
  /\ f = "manifest" => (d.kind = "manifest" => SoundManifest(d))
  /\ f = "equivalence" => MayHold(d, "equivalence") /\ (d.kind = "equivalence" => SoundGate(d))
  /\ f \in Sides => MayHold(d, "evaluation") /\ (d.kind = "evaluation" => SoundEvaluation(d))
  /\ f = "comparison" => MayHold(d, "comparison") /\ (d.kind = "comparison" => SoundComparison(d))
  /\ f = "compat" => MayHold(d, "compat")

WritesFit(ws) == \A i \in DOMAIN ws : Fits(ws[i].file, ws[i].doc)

DocsFit == (\A f \in Files : Fits(f, disk[f])) /\ WritesFit(writes)

(* A torn or missing file claims nothing.                                  *)
LEMMA TornFits ==
  ASSUME NEW f
  PROVE  Fits(f, Torn) /\ Fits(f, Absent)
BY DEF Fits, MayHold, Torn, Absent

(* Writes that fit, one list after the other, fit.                         *)
LEMMA JoinFits ==
  ASSUME NEW fs, NEW s, NEW t, WritesTo(fs, s), WritesTo(fs, t), WritesFit(s), WritesFit(t)
  PROVE  WritesFit(s \o t)
<1> SUFFICES ASSUME NEW i \in DOMAIN (s \o t)
             PROVE  Fits((s \o t)[i].file, (s \o t)[i].doc)
  BY DEF WritesFit
<1>1. PICK ds : s \in Seq([file : fs, doc : ds])
  BY DEF WritesTo
<1>2. PICK es : t \in Seq([file : fs, doc : es])
  BY DEF WritesTo
<1> DEFINE S == [file : fs, doc : ds]
           T == [file : fs, doc : es]
<1> HIDE DEF S, T
<1>3. s \in Seq(S) /\ t \in Seq(T)
  BY <1>1, <1>2 DEF S, T
<1>4. /\ DOMAIN s = 1..Len(s) /\ Len(s) \in Nat
      /\ DOMAIN t = 1..Len(t) /\ Len(t) \in Nat
      /\ DOMAIN (s \o t) = 1..Len(s) + Len(t)
  BY <1>3
<1>5. CASE i <= Len(s)
  <2>1. i \in DOMAIN s /\ (s \o t)[i] = s[i]
    BY <1>3, <1>4, <1>5
  <2> QED
    BY <2>1 DEF WritesFit
<1>6. CASE i > Len(s)
  <2>1. i - Len(s) \in DOMAIN t /\ (s \o t)[i] = t[i - Len(s)]
    BY <1>3, <1>4, <1>6
  <2> QED
    BY <2>1 DEF WritesFit
<1> QED
  BY <1>4, <1>5, <1>6

(* Writing over a file with what fits it fits.                             *)
LEMMA OverFits ==
  ASSUME NEW f, NEW doc, Fits(f, doc)
  PROVE  WritesFit(Overwritten(f, doc))
<1>1. WritesFit(AtOnce(f, Torn)) /\ WritesFit(AtOnce(f, doc))
  BY TornFits DEF WritesFit, AtOnce
<1>2. f \in {f}
  OBVIOUS
<1>3. WritesTo({f}, AtOnce(f, Torn)) /\ WritesTo({f}, AtOnce(f, doc))
  BY <1>2, WriteAtOnce
<1> QED
  BY <1>1, <1>3, JoinFits DEF Overwritten

Checked == Sides \cup {"manifest", "equivalence", "comparison", "compat"}

(* Nothing is asked of the other files.                                    *)
LEMMA UncheckedFits ==
  ASSUME NEW fs, fs \cap Checked = {}, NEW ws, WritesTo(fs, ws)
  PROVE  WritesFit(ws)
<1>1. \A i \in DOMAIN ws : ws[i].file \notin Checked
  BY FilesOfWrites
<1> QED
  BY <1>1 DEF WritesFit, Fits, Checked

(* What a training exports fits.                                           *)
LEMMA ExportFits ==
  ASSUME Export
  PROVE  WritesFit(writes')
<1>1. Fits("manifest", Manifest)
  BY DEF Fits, MayHold, SoundManifest, Manifest, Weights, Sides, RowsFile
<1>2. WritesFit(Overwritten("manifest", Manifest))
  BY <1>1, OverFits
<1>3. Fits("weights", Weights) /\ Fits("training", Report)
  BY DEF Fits, Sides, RowsFile
<1>4. WritesFit(Overwritten("weights", Weights)) /\ WritesFit(Overwritten("training", Report))
  BY <1>3, OverFits
<1>5. {"weights", "manifest", "training"} \subseteq Bundle
  BY DEF Bundle
<1>6. /\ WritesTo(Bundle, Overwritten("weights", Weights)) /\ WritesTo(Bundle, Overwritten("manifest", Manifest))
      /\ WritesTo(Bundle, Overwritten("training", Report))
  BY <1>5, WriteOver
<1>7. WritesTo(Bundle, Overwritten("weights", Weights) \o Overwritten("manifest", Manifest))
      /\ WritesFit(Overwritten("weights", Weights) \o Overwritten("manifest", Manifest))
  BY <1>2, <1>4, <1>6, WritesJoin, JoinFits
<1>8. WritesFit(Overwritten("weights", Weights) \o Overwritten("manifest", Manifest) \o Overwritten("training", Report))
  BY <1>4, <1>6, <1>7, JoinFits
<1> QED
  BY <1>8 DEF Export, Ends, EndBy

(* The whole passes just when every request does.                          *)
LEMMA RequestsMakeTheWhole ==
  Passed(Summary(Everything)) <=> \A i \in DOMAIN compared : Passed(Summary(Seen(compared[i])))
<1>1. ASSUME NEW seen
      PROVE  Passed(Summary(seen)) <=> \A c \in seen : c.agrees /\ c.close /\ ~c.flips
  <2>1. DOMAIN Summary(seen) = {"argmax", "deviation", "policy"}
    BY DEF Summary
  <2>2. /\ Summary(seen)["argmax"] = (\A c \in seen : c.agrees)
        /\ Summary(seen)["deviation"] = (\A c \in seen : c.close)
        /\ Summary(seen)["policy"] = (\A c \in seen : ~c.flips)
    BY DEF Summary
  <2> QED
    BY <2>1, <2>2 DEF Passed
<1> QED
  BY <1>1 DEF Everything

(* The report of an equivalence check fits.                                *)
LEMMA GateFits ==
  ASSUME EndEquivalence
  PROVE  WritesFit(writes')
<1>1. \A seen : Summary(seen) \in Verdicts
  BY DEF Summary, Verdicts
<1>2. EquivalenceReport.requests = [i \in DOMAIN compared |-> Summary(Seen(compared[i]))]
      /\ EquivalenceReport.summary = Summary(Everything) /\ EquivalenceReport.kind = "equivalence"
      /\ EquivalenceReport.memory = MemoryFits /\ EquivalenceReport.passed = (Passed(Summary(Everything)) /\ MemoryFits)
  BY DEF EquivalenceReport
<1>3. SoundGate(EquivalenceReport)
  BY <1>1, <1>2, RequestsMakeTheWhole DEF SoundGate
<1>4. Fits("equivalence", EquivalenceReport)
  BY <1>2, <1>3 DEF Fits, MayHold, Sides, RowsFile
<1>5. Fits("rows", EquivalenceRows)
  BY DEF Fits, Sides, RowsFile
<1>6. WritesFit(Overwritten("equivalence", EquivalenceReport)) /\ WritesFit(Overwritten("rows", EquivalenceRows))
  BY <1>4, <1>5, OverFits
<1>7. {"equivalence", "rows"} \subseteq Gated
  BY DEF Gated
<1>8. WritesTo(Gated, Overwritten("equivalence", EquivalenceReport)) /\ WritesTo(Gated, Overwritten("rows", EquivalenceRows))
  BY <1>7, WriteOver
<1> QED
  BY <1>6, <1>8, JoinFits DEF EndEquivalence, Ends, EndBy

(* What an evaluation writes fits.                                         *)
LEMMA EvaluationFits ==
  ASSUME NEW side \in Sides, EvaluateOne(side)
  PROVE  WritesFit(writes')
<1>1. PICK s \in Selections, calibration \in Calibrations :
        writes' = Incremental(RowsFile[side], s.decisions)
               \o Overwritten(RowsFile[side], Predictions(s.decisions))
               \o Overwritten(side, EvaluationReport(side, s, calibration))
  BY DEF EvaluateOne, Do
<1> DEFINE fs == {side, RowsFile[side]}
           rows == {RowsFile[side]}
           first == Incremental(RowsFile[side], s.decisions) \o Overwritten(RowsFile[side], Predictions(s.decisions))
           report == EvaluationReport(side, s, calibration)
<1>2. Cardinality(s.decisions) \in Nat
  BY SelectionAssumption, FS_CardinalityType
<1>3. WritesTo(rows, Incremental(RowsFile[side], s.decisions)) /\ WritesTo(rows, Overwritten(RowsFile[side], Predictions(s.decisions)))
  <2>1. RowsFile[side] \in rows
    OBVIOUS
  <2> HIDE DEF rows
  <2> QED
    BY <1>2, <2>1, WriteIncrements, WriteOver
<1>4. WritesTo(rows, first)
  BY <1>3, WritesJoin
<1>5. rows \cap Checked = {}
  BY DEF Sides, RowsFile, Checked
<1>6. WritesFit(first)
  <2> HIDE DEF rows, first
  <2> QED
    BY <1>4, <1>5, UncheckedFits
<1>7. SoundEvaluation(report)
  <2>1. report.groups = Groups(s.decisions) /\ "all" \notin Groups(s.decisions)
    BY SelectionAssumption DEF EvaluationReport, Groups
  <2>2. \A g \in report.gates : g.part \in Groups(s.decisions)
    BY DEF EvaluationReport, GateOf
  <2> QED
    BY <2>1, <2>2 DEF SoundEvaluation
<1>8. report.kind = "evaluation"
  BY DEF EvaluationReport
<1>9. Fits(side, report)
  <2> HIDE DEF report
  <2> QED
    BY <1>7, <1>8 DEF Fits, MayHold, Sides, RowsFile
<1>10. WritesFit(Overwritten(side, report))
  BY <1>9, OverFits
<1>11. WritesTo(fs, Overwritten(side, report)) /\ WritesTo(fs, first)
  <2>1. rows \subseteq fs /\ side \in fs
    OBVIOUS
  <2> HIDE DEF rows, fs, first, report
  <2> QED
    BY <1>4, <2>1, MoreFiles, WriteOver
<1> QED
  <2> HIDE DEF rows, fs
  <2> QED
    BY <1>1, <1>6, <1>10, <1>11, JoinFits

(* A comparison of documents that fit fits.                                *)
LEMMA ComparisonFits ==
  ASSUME BaseInv, DocsFit, CompareReports, ReportsPair, RowsPair, MetricsPair
  PROVE  WritesFit(writes')
<1>1. PICK good \in [disk["direct"].groups \cup {"latency"} -> BOOLEAN] :
         LET gates == disk["direct"].gates \cup {GateOf(g, "gate", good[g]) : g \in DOMAIN good}
         IN  Do("compare", Overwritten("comparison",
               [kind |-> "comparison", stamp |-> Stamp, decisions |-> Cardinality(disk["direct_rows"].decisions),
                gates |-> gates \cup {GateOf("all", "gate", AllPass(gates))},
                from |-> [f \in Sides \cup {RowsFile[side] : side \in Sides} |-> disk[f]]]))
  BY DEF CompareReports
<1> DEFINE gates == disk["direct"].gates \cup {GateOf(g, "gate", good[g]) : g \in DOMAIN good}
           froms == [f \in Sides \cup {RowsFile[side] : side \in Sides} |-> disk[f]]
           all == gates \cup {GateOf("all", "gate", AllPass(gates))}
           n == Cardinality(disk["direct_rows"].decisions)
           doc == [kind |-> "comparison", stamp |-> Stamp, decisions |-> n, gates |-> all, from |-> froms]
<1>2. writes' = Overwritten("comparison", doc)
  BY <1>1 DEF Do
<1>3. Sides = {"direct", "generative"} /\ RowsFile["direct"] = "direct_rows" /\ RowsFile["generative"] = "generative_rows"
  BY DEF Sides, RowsFile
<1>4. /\ froms["direct"] = disk["direct"] /\ froms["generative"] = disk["generative"]
      /\ froms["direct_rows"] = disk["direct_rows"] /\ froms["generative_rows"] = disk["generative_rows"]
  BY <1>3
<1>5. SoundEvaluation(disk["direct"])
  <2>1. "direct" \in Files
    BY CandidateAssumption DEF Produced
  <2> QED
    BY <1>3, <2>1 DEF DocsFit, Fits, ReportsPair, Has
<1>6. ASSUME GateOf("all", "gate", TRUE) \in all
      PROVE  \A g \in disk["direct"].gates : g.passed \/ g.name # "calibration"
  <2>1. GateOf("all", "gate", TRUE) \notin gates
    <3>1. "all" \notin DOMAIN good
      BY <1>5 DEF SoundEvaluation
    <3>2. \A g : GateOf(g, "gate", good[g]).part = g
      BY DEF GateOf
    <3>3. GateOf("all", "gate", TRUE).part = "all"
      BY DEF GateOf
    <3>4. GateOf("all", "gate", TRUE) \notin disk["direct"].gates
      BY <1>5, <3>3 DEF SoundEvaluation
    <3>5. ASSUME NEW g \in DOMAIN good, GateOf("all", "gate", TRUE) = GateOf(g, "gate", good[g])
          PROVE  FALSE
      BY <3>1, <3>2, <3>3, <3>5
    <3> QED
      BY <3>4, <3>5
  <2>2. GateOf("all", "gate", TRUE) = GateOf("all", "gate", AllPass(gates))
    BY <1>6, <2>1
  <2>3. AllPass(gates)
    <3>1. GateOf("all", "gate", TRUE).passed = TRUE /\ GateOf("all", "gate", AllPass(gates)).passed = AllPass(gates)
      BY DEF GateOf
    <3> HIDE DEF gates
    <3> QED
      BY <2>2, <3>1
  <2>4. \A g \in gates : g.name = "selective" \/ g.passed
    BY <2>3 DEF AllPass
  <2> QED
    BY <2>4
<1>7. doc.kind = "comparison" /\ doc.from = froms /\ doc.gates = all /\ doc.decisions = n
  OBVIOUS
<1>8. SoundComparison(doc)
  <2> HIDE DEF doc, froms, all
  <2>1. \A side \in Sides : doc.from[side].backend = side /\ doc.from[side].about = doc.from["direct"].about
    BY <1>3, <1>4, <1>7 DEF ReportsPair
  <2>2. \A side \in Sides :
          /\ Cardinality(doc.from[RowsFile[side]].decisions) = doc.decisions
          /\ doc.from[RowsFile[side]].decisions = doc.from["direct_rows"].decisions
    BY <1>3, <1>4, <1>7 DEF RowsPair
  <2>3. GateOf("all", "gate", TRUE) \in doc.gates =>
          \A g \in doc.from["direct"].gates : g.passed \/ g.name # "calibration"
    BY <1>4, <1>6, <1>7
  <2> QED
    BY <2>1, <2>2, <2>3 DEF SoundComparison
<1>9. Fits("comparison", doc)
  <2> HIDE DEF doc
  <2> QED
    BY <1>3, <1>7, <1>8 DEF Fits, MayHold
<1> QED
  <2> HIDE DEF doc
  <2> QED
    BY <1>2, <1>9, OverFits

(* What the compatibility check writes fits.                               *)
LEMMA CompatFits ==
  ASSUME CompatWrites
  PROVE  WritesFit(writes')
<1>1. PICK doc, rows : doc.kind = "compat" /\
        \/ writes' = Overwritten("compat", doc)
        \/ writes' = Overwritten("compat_rows", rows) \o Overwritten("compat", doc)
  BY DEF CompatWrites
<1>2. Fits("compat", doc) /\ Fits("compat_rows", rows)
  BY <1>1 DEF Fits, MayHold, Sides, RowsFile
<1>3. WritesFit(Overwritten("compat", doc)) /\ WritesFit(Overwritten("compat_rows", rows))
  BY <1>2, OverFits
<1> DEFINE fs == {"compat_rows", "compat"}
<1>4. "compat" \in fs /\ "compat_rows" \in fs
  OBVIOUS
<1> HIDE DEF fs
<1>5. WritesTo(fs, Overwritten("compat", doc)) /\ WritesTo(fs, Overwritten("compat_rows", rows))
  BY <1>4, WriteOver
<1> QED
  BY <1>1, <1>3, <1>5, JoinFits

(* Every step keeps the documents as they should be.                       *)
LEMMA DocsStayFit ==
  ASSUME BaseInv, DocsFit, StepKind
  PROVE  DocsFit'
<1>1. CASE Waits
  BY <1>1 DEF Waits, DocsFit
<1>2. CASE Dies
  <2>1. DOMAIN writes' = {}
    BY <1>2 DEF Dies
  <2> QED
    BY <1>2, <2>1 DEF Dies, DocsFit, WritesFit
<1>3. CASE Write
  <2>1. PICK ds : writes \in Seq(ds)
    BY DEF BaseInv, StoreTypeOK, StoreOK, WritesTo
  <2>2. writes # <<>> /\ writes' = Tail(writes)
    BY <1>3, Zenon DEF Write
  <2>3. Len(writes) \in Nat \ {0} /\ DOMAIN writes = 1..Len(writes)
    BY <2>1, <2>2, EmptySeq
  <2>4. /\ DOMAIN writes' = 1..Len(writes) - 1
        /\ \A i \in 1..Len(writes) - 1 : i + 1 \in DOMAIN writes /\ writes'[i] = writes[i + 1]
    BY <2>1, <2>2, <2>3
  <2>5. WritesFit(writes')
    BY <2>4 DEF DocsFit, WritesFit
  <2>6. Fits(writes[1].file, writes[1].doc)
    BY <2>3 DEF DocsFit, WritesFit
  <2>7. \A f \in Files : disk'[f] = IF f = writes[1].file THEN writes[1].doc ELSE disk[f]
    BY <1>3 DEF Write, BaseInv, StoreTypeOK, StoreOK
  <2> QED
    BY <2>5, <2>6, <2>7 DEF DocsFit
<1>4. ASSUME disk' = disk, WritesFit(writes')
      PROVE  DocsFit'
  BY <1>4 DEF DocsFit
<1>5. CASE Hands(Others)
  <2>1. Others \cap Checked = {}
    BY DEF Others, Checked, Bundle, Evaluated, Gated, Sides, RowsFile
  <2> QED
    BY <1>4, <1>5, <2>1, UncheckedFits DEF Hands
<1>6. CASE Hands(Bundle) /\ Export
  BY <1>4, <1>6, ExportFits DEF Hands
<1>7. CASE Hands(Gated) /\ EndEquivalence
  BY <1>4, <1>7, GateFits DEF Hands
<1>8. CASE \E side \in Sides : Hands({side, RowsFile[side]}) /\ EvaluateOne(side)
  BY <1>4, <1>8, EvaluationFits DEF Hands
<1>9. CASE Hands({"comparison"}) /\ CompareReports /\ ReportsPair /\ RowsPair /\ MetricsPair
  BY <1>4, <1>9, ComparisonFits DEF Hands
<1>10. CASE Hands({"compat_rows", "compat"}) /\ CompatWrites
  BY <1>4, <1>10, CompatFits DEF Hands
<1> QED
  BY <1>1, <1>2, <1>3, <1>5, <1>6, <1>7, <1>8, <1>9, <1>10 DEF StepKind

(* They are so at first.                                                   *)
LEMMA DocsFitInitially ==
  ASSUME CandidateInit
  PROVE  DocsFit
<1>1. writes = <<>> /\ DOMAIN writes = {}
  BY DEF CandidateInit
<1>2. Checked \subseteq Produced
  BY DEF Checked, Produced, Sides, RowsFile
<1>3. ASSUME NEW f \in Files
      PROVE  Fits(f, disk[f])
  <2>1. CASE f \in Checked
    BY <1>2, <2>1, TornFits DEF CandidateInit
  <2>2. CASE f \notin Checked
    BY <2>2 DEF Fits, Checked
  <2> QED
    BY <2>1, <2>2
<1> QED
  BY <1>1, <1>3 DEF DocsFit, WritesFit

-----------------------------------------------------------------------------
(* ----------------------- reports and their rows ------------------------ *)
BornOut(report, kept) ==
  /\ report.decisions = Cardinality(Total(kept.rows))
  /\ report.passed => \A d \in Total(kept.rows) :
       LET c == kept.rows[d[1]][d[2]] IN c.agrees /\ c.close /\ ~c.flips

(* A check of equivalence has a stamp that no document has yet.            *)
StampedOK ==
  \A f \in Gated : \A d \in Docs(f) : d.kind = f =>
    d.stamp \in 0..commands /\ (command = "equivalence" => d.stamp # commands)

PairsOK ==
  \A r \in Docs("equivalence"), k \in Docs("rows") :
    r.kind = "equivalence" /\ k.kind = "rows" /\ k.stamp = r.stamp => BornOut(r, k)

RowsInv == StampedOK /\ PairsOK

(* The rows of an equivalence check bear out its report.                   *)
LEMMA RowsBearOut == BornOut(EquivalenceReport, EquivalenceRows)
<1> DEFINE r == EquivalenceReport
           k == EquivalenceRows
<1>1. /\ r.decisions = Cardinality(Total(compared)) /\ k.rows = compared
      /\ r.passed = (Passed(Summary(Everything)) /\ MemoryFits)
  BY DEF EquivalenceReport, EquivalenceRows
<1>2. ASSUME Passed(Summary(Everything)), NEW d \in Total(compared)
      PROVE  compared[d[1]][d[2]].agrees /\ compared[d[1]][d[2]].close /\ ~compared[d[1]][d[2]].flips
  <2>1. PICK i \in DOMAIN compared : \E q \in DOMAIN compared[i] : d = <<i, q>>
    BY DEF Total
  <2>2. compared[d[1]][d[2]] \in Everything
    BY <2>1 DEF Everything, Seen
  <2>3. DOMAIN Summary(Everything) = {"argmax", "deviation", "policy"}
    BY DEF Summary
  <2>4. /\ Summary(Everything)["argmax"] = (\A c \in Everything : c.agrees)
        /\ Summary(Everything)["deviation"] = (\A c \in Everything : c.close)
        /\ Summary(Everything)["policy"] = (\A c \in Everything : ~c.flips)
    BY DEF Summary
  <2> QED
    BY <1>2, <2>2, <2>3, <2>4 DEF Passed
<1> HIDE DEF r, k
<1>3. BornOut(r, k)
  BY <1>1, <1>2 DEF BornOut
<1> QED
  BY <1>3 DEF r, k

(* A step that adds no report and no rows leaves no new pairs.             *)
LEMMA FewerDocs ==
  ASSUME RowsInv, \A f \in Gated : Docs(f)' \subseteq Docs(f), Ticks, commands \in Nat
  PROVE  RowsInv'
<1>1. StampedOK'
  <2> SUFFICES ASSUME NEW f \in Gated, NEW d \in Docs(f)', d.kind = f
               PROVE  d.stamp \in 0..commands' /\ (command' = "equivalence" => d.stamp # commands')
    BY DEF StampedOK
  <2>1. d.stamp \in 0..commands /\ (command = "equivalence" => d.stamp # commands)
    BY DEF RowsInv, StampedOK
  <2>2. CASE commands' = commands /\ (command' = "equivalence" => command = "equivalence")
    BY <2>1, <2>2
  <2>3. CASE commands' = commands + 1
    BY <2>1, <2>3
  <2> QED
    BY <2>2, <2>3 DEF Ticks
<1>2. PairsOK'
  <2>1. Docs("equivalence")' \subseteq Docs("equivalence") /\ Docs("rows")' \subseteq Docs("rows")
    BY DEF Gated
  <2> QED
    BY <2>1 DEF RowsInv, PairsOK
<1> QED
  BY <1>1, <1>2 DEF RowsInv

(* Every step keeps reports and rows of one stamp together.                *)
LEMMA RowsKept ==
  ASSUME BaseInv, RowsInv, StepKind
  PROVE  RowsInv'
<1>0. StoreOK /\ commands \in Nat /\ Gated \subseteq Files
  BY CandidateAssumption DEF BaseInv, StoreTypeOK, Gated, Produced
<1>1. CASE Waits
  BY <1>0, <1>1, DocsStay, FewerDocs DEF Waits
<1>2. CASE Dies
  BY <1>0, <1>2, DocsStay, FewerDocs DEF Dies, Ticks
<1>3. CASE Write /\ UNCHANGED <<command, commands, mishaps>>
  BY <1>0, <1>3, DocsStay, FewerDocs DEF Ticks
<1>4. ASSUME NEW fs, Hands(fs), fs \cap Gated = {}
      PROVE  RowsInv'
  <2>1. \A f \in Gated : Docs(f)' \subseteq Docs(f)
    BY <1>4, DocsElsewhere DEF Hands
  <2> QED
    BY <1>0, <1>4, <2>1, FewerDocs DEF Hands
<1>5. CASE Hands(Others)
  BY <1>4, <1>5 DEF Others
<1>6. CASE Hands(Bundle)
  BY <1>4, <1>6 DEF Bundle, Gated
<1>7. CASE \E side \in Sides : Hands({side, RowsFile[side]})
  BY <1>4, <1>7 DEF Gated, Sides, RowsFile
<1>8. CASE Hands({"comparison"}) \/ Hands({"compat_rows", "compat"})
  BY <1>4, <1>8 DEF Gated
<1>9. CASE Hands(Gated) /\ EndEquivalence
  <2> DEFINE r == EquivalenceReport
             k == EquivalenceRows
  <2>1. /\ disk' = disk /\ command = "equivalence" /\ command' = "none" /\ commands' = commands
        /\ writes' = Overwritten("equivalence", r) \o Overwritten("rows", k)
    BY <1>9 DEF Hands, EndEquivalence, Ends, EndBy
  <2>2. r.kind = "equivalence" /\ r.stamp = commands /\ k.kind = "rows" /\ k.stamp = commands
    BY DEF EquivalenceReport, EquivalenceRows, Stamp
  <2>3. BornOut(r, k)
    BY RowsBearOut
  <2> HIDE DEF r, k
  <2>4. WritesTo({"equivalence"}, Overwritten("equivalence", r)) /\ WritesTo({"rows"}, Overwritten("rows", k))
    BY WriteOver
  <2>5. WritesTo(Gated, Overwritten("equivalence", r)) /\ WritesTo(Gated, Overwritten("rows", k))
    BY <2>4, MoreFiles DEF Gated
  <2>6. Written(Overwritten("rows", k), "equivalence") = {} /\ Written(Overwritten("equivalence", r), "rows") = {}
    BY <2>4, FilesOfWrites DEF Written
  <2>7. Written(writes', "equivalence") \subseteq {Torn, r} /\ Written(writes', "rows") \subseteq {Torn, k}
    BY <2>1, <2>5, <2>6, WrittenJoined, WrittenOver
  <2>8. Docs("equivalence")' \subseteq Docs("equivalence") \cup {Torn, r} /\ Docs("rows")' \subseteq Docs("rows") \cup {Torn, k}
    BY <2>1, <2>7 DEF Docs
  <2>9. Torn.kind # "equivalence" /\ Torn.kind # "rows"
    BY DEF Torn
  <2>10. /\ \A d \in Docs("equivalence") : d.kind = "equivalence" => d.stamp \in 0..commands /\ d.stamp # commands
         /\ \A d \in Docs("rows") : d.kind = "rows" => d.stamp \in 0..commands /\ d.stamp # commands
    BY <2>1 DEF RowsInv, StampedOK, Gated
  <2>11. StampedOK'
    BY <1>0, <2>1, <2>2, <2>8, <2>9, <2>10 DEF StampedOK, Gated
  <2>12. PairsOK'
    <3> SUFFICES ASSUME NEW a \in Docs("equivalence")', NEW b \in Docs("rows")',
                        a.kind = "equivalence", b.kind = "rows", b.stamp = a.stamp
                 PROVE  BornOut(a, b)
      BY DEF PairsOK
    <3>1. CASE a \in Docs("equivalence") /\ b \in Docs("rows")
      BY <3>1 DEF RowsInv, PairsOK
    <3>2. CASE a = r /\ b = k
      BY <2>3, <3>2
    <3>3. CASE a = r /\ b \in Docs("rows")
      BY <2>2, <2>10, <3>3
    <3>4. CASE a \in Docs("equivalence") /\ b = k
      BY <2>2, <2>10, <3>4
    <3> QED
      BY <2>8, <2>9, <3>1, <3>2, <3>3, <3>4
  <2> QED
    BY <2>11, <2>12 DEF RowsInv
<1> QED
  BY <1>1, <1>2, <1>3, <1>5, <1>6, <1>7, <1>8, <1>9 DEF StepKind

(* There are none at first.                                                *)
LEMMA RowsInitially ==
  ASSUME CandidateInit
  PROVE  RowsInv
<1>1. writes = <<>> /\ DOMAIN writes = {}
  BY DEF CandidateInit
<1>2. disk["equivalence"] = Absent /\ disk["rows"] = Absent
  BY CandidateAssumption DEF CandidateInit, Produced
<1>3. Docs("equivalence") = {Absent} /\ Docs("rows") = {Absent}
  BY <1>1, <1>2 DEF Docs, Written
<1> QED
  BY <1>3 DEF RowsInv, StampedOK, PairsOK, Gated, Absent
-----------------------------------------------------------------------------
(* -------------------- what will be there in the end -------------------- *)
Writers(ws, f) == {i \in DOMAIN ws : ws[i].file = f}

(* What a file holds when everything that is still to do is done.          *)
Settled(d, ws, f) ==
  IF Writers(ws, f) = {} THEN d[f]
  ELSE ws[CHOOSE i \in Writers(ws, f) : \A j \in Writers(ws, f) : j <= i].doc

(* A set of positions has a greatest element.                              *)
LEMMA GreatestElement ==
  ASSUME NEW n \in Nat, NEW S \in SUBSET (1..n), S # {}
  PROVE  \E i \in S : \A j \in S : j <= i
<1> DEFINE T == {m \in Nat : \E i \in S : m = n - i}
<1>1. T # {}
  <2>1. PICK i \in S : TRUE
    OBVIOUS
  <2>2. n - i \in Nat
    BY <2>1
  <2> QED
    BY <2>2
<1>2. PICK x \in T : \A y \in T : x <= y
  <2>1. T \in SUBSET Nat
    OBVIOUS
  <2> HIDE DEF T
  <2> QED
    BY <1>1, <2>1, LeastElement
<1>3. PICK i \in S : x = n - i
  OBVIOUS
<1>4. ASSUME NEW j \in S
      PROVE  j <= i
  <2>1. n - j \in T
    OBVIOUS
  <2>2. x <= n - j
    BY <1>2, <2>1
  <2> QED
    BY <1>3, <2>2
<1> QED
  BY <1>4

(* What a file will hold is what its last write says.                      *)
LEMMA LastWriter ==
  ASSUME NEW d, NEW fs, NEW ws, WritesTo(fs, ws), NEW f, NEW i \in Writers(ws, f),
         \A j \in Writers(ws, f) : j <= i
  PROVE  Settled(d, ws, f) = ws[i].doc
<1>1. DOMAIN ws = 1..Len(ws) /\ Len(ws) \in Nat
  BY FilesOfWrites
<1>2. Writers(ws, f) \subseteq Nat
  BY <1>1 DEF Writers
<1> DEFINE last == CHOOSE k \in Writers(ws, f) : \A j \in Writers(ws, f) : j <= k
<1>3. last \in Writers(ws, f) /\ \A j \in Writers(ws, f) : j <= last
  OBVIOUS
<1>4. last = i
  <2> HIDE DEF last
  <2>1. last <= i /\ i <= last /\ last \in Nat /\ i \in Nat
    BY <1>2, <1>3
  <2> QED
    BY <2>1
<1> QED
  BY <1>4 DEF Settled

(* Writes to other files leave it as it is.                                *)
LEMMA SettledAway ==
  ASSUME NEW d, NEW fs, NEW ws, WritesTo(fs, ws), NEW f, f \notin fs
  PROVE  Settled(d, ws, f) = d[f]
<1>1. Writers(ws, f) = {}
  BY FilesOfWrites DEF Writers
<1> QED
  BY <1>1 DEF Settled

(* With nothing to write it is what it will be.                            *)
LEMMA SettledNow ==
  ASSUME NEW d, NEW f
  PROVE  Settled(d, <<>>, f) = d[f]
BY DEF Settled, Writers

Joins(u, s, t) == u = s \o t

(* The writes to a file in a list after another.                           *)
LEMMA JoinedWriters ==
  ASSUME NEW fs, NEW s, NEW t, WritesTo(fs, s), WritesTo(fs, t), NEW u, Joins(u, s, t), NEW f
  PROVE  /\ Len(s) \in Nat /\ DOMAIN s = 1..Len(s) /\ DOMAIN t = 1..Len(t) /\ Len(t) \in Nat
         /\ \A i \in Writers(s, f) : i \in Writers(u, f) /\ u[i] = s[i]
         /\ \A i \in Writers(t, f) : Len(s) + i \in Writers(u, f) /\ u[Len(s) + i] = t[i]
         /\ \A i \in Writers(u, f) : i \in Writers(s, f) \/ (i > Len(s) /\ i - Len(s) \in Writers(t, f))
<1>1. PICK ds : s \in Seq([file : fs, doc : ds])
  BY DEF WritesTo
<1>2. PICK es : t \in Seq([file : fs, doc : es])
  BY DEF WritesTo
<1> DEFINE S == [file : fs, doc : ds]
           T == [file : fs, doc : es]
<1> HIDE DEF S, T
<1>3. s \in Seq(S) /\ t \in Seq(T)
  BY <1>1, <1>2 DEF S, T
<1>4. /\ DOMAIN s = 1..Len(s) /\ Len(s) \in Nat
      /\ DOMAIN t = 1..Len(t) /\ Len(t) \in Nat
      /\ DOMAIN u = 1..Len(s) + Len(t)
  BY <1>3 DEF Joins
<1>5. \A i \in 1..Len(s) : u[i] = s[i]
  BY <1>3 DEF Joins
<1>6. \A i \in 1..Len(t) : u[Len(s) + i] = t[i]
  BY <1>3 DEF Joins
<1>7. \A i \in 1..Len(t) : Len(s) + i \in 1..Len(s) + Len(t)
  BY <1>4
<1>8. ASSUME NEW i \in 1..Len(s) + Len(t), i > Len(s)
      PROVE  i - Len(s) \in 1..Len(t) /\ u[i] = t[i - Len(s)]
  <2>1. i - Len(s) \in 1..Len(t) /\ Len(s) + (i - Len(s)) = i
    BY <1>4, <1>8
  <2> QED
    BY <1>6, <2>1
<1>9. ASSUME NEW i \in Writers(u, f)
      PROVE  i \in Writers(s, f) \/ (i > Len(s) /\ i - Len(s) \in Writers(t, f))
  <2>1. i \in 1..Len(s) + Len(t) /\ u[i].file = f
    BY <1>4 DEF Writers
  <2>2. CASE i > Len(s)
    BY <1>4, <1>8, <2>1, <2>2 DEF Writers
  <2>3. CASE ~(i > Len(s))
    <3>1. i \in 1..Len(s)
      BY <1>4, <2>1, <2>3
    <3> QED
      BY <1>4, <1>5, <2>1, <3>1 DEF Writers
  <2> QED
    BY <2>2, <2>3
<1>10. ASSUME NEW i \in Writers(s, f)
       PROVE  i \in Writers(u, f) /\ u[i] = s[i]
  <2>1. i \in 1..Len(s) /\ i \in 1..Len(s) + Len(t) /\ s[i].file = f
    BY <1>4 DEF Writers
  <2> QED
    BY <1>4, <1>5, <2>1 DEF Writers
<1>11. ASSUME NEW i \in Writers(t, f)
       PROVE  Len(s) + i \in Writers(u, f) /\ u[Len(s) + i] = t[i]
  <2>1. i \in 1..Len(t) /\ t[i].file = f
    BY <1>4 DEF Writers
  <2> QED
    BY <1>4, <1>6, <1>7, <2>1 DEF Writers
<1> QED
  BY <1>4, <1>9, <1>10, <1>11

(* If the second list writes it, that decides.                             *)
LEMMA SettledBy ==
  ASSUME NEW d, NEW fs, NEW s, NEW t, WritesTo(fs, s), WritesTo(fs, t), NEW u, Joins(u, s, t), NEW f, Writers(t, f) # {}
  PROVE  Settled(d, u, f) = Settled(d, t, f)
<1>1. /\ Len(s) \in Nat /\ DOMAIN s = 1..Len(s) /\ DOMAIN t = 1..Len(t) /\ Len(t) \in Nat
      /\ \A i \in Writers(t, f) : Len(s) + i \in Writers(u, f) /\ u[Len(s) + i] = t[i]
      /\ \A i \in Writers(u, f) : i \in Writers(s, f) \/ (i > Len(s) /\ i - Len(s) \in Writers(t, f))
  BY JoinedWriters
<1>2. Writers(t, f) \in SUBSET (1..Len(t)) /\ Writers(s, f) \subseteq 1..Len(s)
  BY <1>1 DEF Writers
<1>3. PICK i \in Writers(t, f) : \A j \in Writers(t, f) : j <= i
  BY <1>1, <1>2, GreatestElement
<1>4. Settled(d, t, f) = t[i].doc
  BY <1>3, LastWriter
<1>5. \A j \in Writers(u, f) : j <= Len(s) + i
  <2> SUFFICES ASSUME NEW j \in Writers(u, f)
               PROVE  j <= Len(s) + i
    OBVIOUS
  <2>1. CASE j \in Writers(s, f)
    BY <1>1, <1>2, <1>3, <2>1
  <2>2. CASE j > Len(s) /\ j - Len(s) \in Writers(t, f)
    <3>1. j - Len(s) <= i /\ j - Len(s) \in Nat /\ i \in Nat
      BY <1>2, <1>3, <2>2
    <3>2. j \in Nat
      <4>1. WritesTo(fs, u)
        BY WritesJoin DEF Joins
      <4>2. DOMAIN u = 1..Len(u) /\ Len(u) \in Nat
        BY <4>1, FilesOfWrites
      <4> QED
        BY <4>2 DEF Writers
    <3> QED
      BY <1>1, <3>1, <3>2
  <2> QED
    BY <1>1, <2>1, <2>2
<1>6. Len(s) + i \in Writers(u, f) /\ u[Len(s) + i] = t[i]
  BY <1>1
<1>7. WritesTo(fs, u)
  BY WritesJoin DEF Joins
<1>8. Settled(d, u, f) = u[Len(s) + i].doc
  BY <1>5, <1>6, <1>7, LastWriter
<1> QED
  BY <1>4, <1>6, <1>8

(* If not, the first does.                                                 *)
LEMMA SettledBefore ==
  ASSUME NEW d, NEW fs, NEW s, NEW t, WritesTo(fs, s), WritesTo(fs, t), NEW u, Joins(u, s, t), NEW f, Writers(t, f) = {}
  PROVE  Settled(d, u, f) = Settled(d, s, f)
<1>1. /\ Len(s) \in Nat /\ DOMAIN s = 1..Len(s)
      /\ \A i \in Writers(s, f) : i \in Writers(u, f) /\ u[i] = s[i]
      /\ \A i \in Writers(u, f) : i \in Writers(s, f) \/ (i > Len(s) /\ i - Len(s) \in Writers(t, f))
  BY JoinedWriters
<1>2. Writers(u, f) = Writers(s, f)
  BY <1>1
<1>3. CASE Writers(s, f) = {}
  BY <1>2, <1>3 DEF Settled
<1>4. CASE Writers(s, f) # {}
  <2>1. Writers(s, f) \in SUBSET (1..Len(s))
    BY <1>1 DEF Writers
  <2>2. PICK i \in Writers(s, f) : \A j \in Writers(s, f) : j <= i
    BY <1>1, <1>4, <2>1, GreatestElement
  <2>3. Settled(d, s, f) = s[i].doc
    BY <2>2, LastWriter
  <2>4. WritesTo(fs, u)
    BY WritesJoin DEF Joins
  <2>5. i \in Writers(u, f) /\ \A j \in Writers(u, f) : j <= i
    BY <1>2, <2>2
  <2>6. Settled(d, u, f) = u[i].doc
    BY <2>4, <2>5, LastWriter
  <2> QED
    BY <1>1, <2>2, <2>3, <2>6
<1> QED
  BY <1>3, <1>4

(* The last of the writes to a file counts.                                *)
LEMMA SettledOver ==
  ASSUME NEW d, NEW f, NEW doc
  PROVE  /\ Settled(d, Overwritten(f, doc), f) = doc
         /\ Writers(Overwritten(f, doc), f) # {}
<1> DEFINE s == AtOnce(f, Torn)
           t == AtOnce(f, doc)
<1>1. WritesTo({f}, s) /\ WritesTo({f}, t)
  BY WriteAtOnce
<1>2. Writers(t, f) = {1} /\ t[1].doc = doc
  BY DEF Writers, AtOnce
<1> HIDE DEF s, t
<1>3. Settled(d, t, f) = doc
  <2>1. 1 \in Writers(t, f) /\ \A j \in Writers(t, f) : j <= 1
    BY <1>2
  <2> QED
    BY <1>1, <1>2, <2>1, LastWriter
<1> DEFINE u == s \o t
<1>4. Joins(u, s, t)
  BY DEF Joins
<1> HIDE DEF u
<1>5. Settled(d, u, f) = Settled(d, t, f)
  BY <1>1, <1>2, <1>4, SettledBy
<1>6. Writers(u, f) # {}
  <2>1. \A i \in Writers(t, f) : Len(s) + i \in Writers(u, f)
    BY <1>1, <1>4, JoinedWriters
  <2> QED
    BY <1>2, <2>1
<1> QED
  BY <1>3, <1>5, <1>6 DEF Overwritten, s, t, u

(* Writing what is pending does not change what a file will hold in the    *)
(* end.                                                                    *)
LEMMA SettledStays ==
  ASSUME StoreOK, Write, NEW f \in Files
  PROVE  Settled(disk', writes', f) = Settled(disk, writes, f)
<1>1. PICK ds : writes \in Seq([file : Files, doc : ds])
  BY DEF StoreOK, WritesTo
<1> DEFINE W == [file : Files, doc : ds]
<1>2. /\ writes' \in Seq(W) /\ Len(writes) \in Nat \ {0} /\ DOMAIN writes = 1..Len(writes)
      /\ DOMAIN writes' = 1..Len(writes) - 1
      /\ \A i \in 1..Len(writes) - 1 : writes'[i] = writes[i + 1]
  <2> HIDE DEF W
  <2>1. writes \in Seq(W)
    BY <1>1 DEF W
  <2>2. writes # <<>> /\ writes' = Tail(writes)
    BY Zenon DEF Write
  <2>3. Len(writes) \in Nat \ {0} /\ DOMAIN writes = 1..Len(writes)
    BY <2>1, <2>2, EmptySeq
  <2> QED
    BY <2>1, <2>2, <2>3
<1>3. WritesTo(Files, writes) /\ WritesTo(Files, writes')
  BY <1>1, <1>2 DEF WritesTo
<1>4. Writers(writes', f) = {i \in 1..Len(writes) - 1 : i + 1 \in Writers(writes, f)}
  BY <1>2 DEF Writers
<1>5. disk'[f] = IF f = writes[1].file THEN writes[1].doc ELSE disk[f]
  BY DEF Write, StoreOK
<1>6. CASE Writers(writes, f) = {}
  <2>1. Writers(writes', f) = {} /\ writes[1].file # f
    BY <1>2, <1>4, <1>6 DEF Writers
  <2> QED
    BY <1>5, <1>6, <2>1 DEF Settled
<1>7. CASE Writers(writes, f) # {}
  <2>1. Writers(writes, f) \in SUBSET (1..Len(writes))
    BY <1>2 DEF Writers
  <2>2. PICK i \in Writers(writes, f) : \A j \in Writers(writes, f) : j <= i
    BY <1>2, <1>7, <2>1, GreatestElement
  <2>3. Settled(disk, writes, f) = writes[i].doc
    BY <1>3, <2>2, LastWriter
  <2>4. CASE i = 1
    <3>1. Writers(writes', f) = {}
      <4> SUFFICES ASSUME NEW k \in 1..Len(writes) - 1, k + 1 \in Writers(writes, f)
                   PROVE  FALSE
        BY <1>4
      <4>1. k + 1 <= 1
        BY <2>2, <2>4
      <4> QED
        BY <4>1, <1>2
    <3>2. writes[1].file = f
      BY <2>2, <2>4 DEF Writers
    <3> QED
      BY <1>5, <2>3, <2>4, <3>1, <3>2 DEF Settled
  <2>5. CASE i # 1
    <3>1. i - 1 \in 1..Len(writes) - 1 /\ (i - 1) + 1 = i
      BY <1>2, <2>1, <2>2, <2>5
    <3>2. i - 1 \in Writers(writes', f) /\ writes'[i - 1] = writes[i]
      BY <1>2, <1>4, <2>2, <3>1
    <3>3. \A j \in Writers(writes', f) : j <= i - 1
      <4> SUFFICES ASSUME NEW j \in 1..Len(writes) - 1, j + 1 \in Writers(writes, f)
                   PROVE  j <= i - 1
        BY <1>4
      <4>1. j + 1 <= i
        BY <2>2
      <4> QED
        BY <4>1, <2>1, <1>2
    <3>4. Settled(disk', writes', f) = writes'[i - 1].doc
      BY <1>3, <3>2, <3>3, LastWriter
    <3> QED
      BY <2>3, <3>2, <3>4
  <2> QED
    BY <2>4, <2>5
<1> QED
  BY <1>6, <1>7

-----------------------------------------------------------------------------
InTurn(ws, s, t, r) == ws = s \o t \o r

(* Three files written one after the other, and two with the first of them *)
(* written in two ways.                                                    *)
LEMMA ThreeSettled ==
  ASSUME NEW d, NEW f, NEW g, NEW h, f # g, f # h, g # h, NEW a, NEW b, NEW c,
         NEW ws, InTurn(ws, Overwritten(f, a), Overwritten(g, b), Overwritten(h, c))
  PROVE  Settled(d, ws, f) = a /\ Settled(d, ws, g) = b /\ Settled(d, ws, h) = c
<1> DEFINE fs == {f, g, h}
           s == Overwritten(f, a)
           t == Overwritten(g, b)
           r == Overwritten(h, c)
           st == s \o t
           str == st \o r
<1>1. f \in fs /\ g \in fs /\ h \in fs
  OBVIOUS
<1> HIDE DEF fs
<1>2. WritesTo(fs, s) /\ WritesTo(fs, t) /\ WritesTo(fs, r)
  BY <1>1, WriteOver
<1>3. WritesTo({g}, t) /\ WritesTo({h}, r)
  BY WriteOver
<1>4. Writers(t, f) = {} /\ Writers(r, f) = {} /\ Writers(r, g) = {}
  BY <1>3, FilesOfWrites DEF Writers
<1>5. /\ Settled(d, s, f) = a /\ Settled(d, t, g) = b /\ Settled(d, r, h) = c
      /\ Writers(t, g) # {} /\ Writers(r, h) # {}
  <2>1. \A x, e : Settled(d, Overwritten(x, e), x) = e /\ Writers(Overwritten(x, e), x) # {}
    BY SettledOver
  <2> QED
    BY <2>1
<1>6. ws = str
  BY DEF InTurn
<1> HIDE DEF s, t, r
<1>7. Joins(st, s, t) /\ WritesTo(fs, st)
  BY <1>2, WritesJoin DEF Joins
<1> HIDE DEF st
<1>8. Joins(str, st, r)
  BY DEF Joins
<1> HIDE DEF str
<1>9. Settled(d, st, f) = a /\ Settled(d, st, g) = b
  BY <1>2, <1>4, <1>5, <1>7, SettledBy, SettledBefore
<1>10. Settled(d, str, f) = a /\ Settled(d, str, g) = b /\ Settled(d, str, h) = c
  BY <1>2, <1>4, <1>5, <1>7, <1>8, <1>9, SettledBy, SettledBefore
<1> QED
  BY <1>6, <1>10

(* What two files written one after the other will hold.                   *)
LEMMA TwoSettled ==
  ASSUME NEW d, NEW f, NEW h, f # h, NEW i, WritesTo({f}, i), NEW a, NEW c,
         NEW ws, InTurn(ws, i, Overwritten(f, a), Overwritten(h, c))
  PROVE  Settled(d, ws, f) = a /\ Settled(d, ws, h) = c
<1> DEFINE fs == {f, h}
           t == Overwritten(f, a)
           r == Overwritten(h, c)
           st == i \o t
           str == st \o r
<1>1. f \in fs /\ h \in fs /\ {f} \subseteq fs
  OBVIOUS
<1> HIDE DEF fs
<1>2. WritesTo(fs, i) /\ WritesTo(fs, t) /\ WritesTo(fs, r)
  BY <1>1, WriteOver, MoreFiles
<1>3. WritesTo({h}, r)
  BY WriteOver
<1>4. Writers(r, f) = {}
  BY <1>3, FilesOfWrites DEF Writers
<1>5. /\ Settled(d, t, f) = a /\ Settled(d, r, h) = c
      /\ Writers(t, f) # {} /\ Writers(r, h) # {}
  <2>1. \A x, e : Settled(d, Overwritten(x, e), x) = e /\ Writers(Overwritten(x, e), x) # {}
    BY SettledOver
  <2> QED
    BY <2>1
<1>6. ws = str
  BY DEF InTurn
<1> HIDE DEF t, r
<1>7. Joins(st, i, t) /\ WritesTo(fs, st)
  BY <1>2, WritesJoin DEF Joins
<1> HIDE DEF st
<1>8. Joins(str, st, r)
  BY DEF Joins
<1> HIDE DEF str
<1>9. Settled(d, st, f) = a
  BY <1>2, <1>5, <1>7, SettledBy
<1>10. Settled(d, str, f) = a /\ Settled(d, str, h) = c
  BY <1>2, <1>4, <1>5, <1>7, <1>8, <1>9, SettledBy, SettledBefore
<1> QED
  BY <1>6, <1>10

Rest(f) == Settled(disk, writes, f)

BundleOK ==
  \/ \A f \in Bundle : Rest(f).kind = "absent"
  \/ /\ Rest("manifest").kind = "manifest" /\ Rest("manifest").digest = Rest("weights")
     /\ Rest("training").stamp = Rest("weights").stamp

SidesOK ==
  \A side \in Sides : Rest(side).kind = "evaluation" => Rest(RowsFile[side]) = Rest(side).rows

FromOK ==
  \A d \in Docs("comparison") : d.kind = "comparison" =>
    \A side \in Sides : d.from[RowsFile[side]] = d.from[side].rows

(* As long as no command is killed, a command's files belong together      *)
(* once they are all written.                                              *)
TogetherInv == mishaps = 0 => BundleOK /\ SidesOK /\ FromOK

Tracked == Bundle \cup Evaluated

(* The files that belong together are files of the store.                  *)
LEMMA TrackedKnown ==
  /\ Tracked \subseteq Files /\ Bundle \subseteq Tracked /\ {"weights", "manifest", "training"} \subseteq Tracked
  /\ "comparison" \in Files
  /\ \A side \in Sides : side \in Tracked /\ RowsFile[side] \in Tracked
BY CandidateAssumption DEF Tracked, Bundle, Evaluated, Produced, Sides, RowsFile

(* A command leaves the files it does not write as they were to become.    *)
LEMMA RestUntouched ==
  ASSUME NEW fs, Hands(fs), NEW f, f \notin fs
  PROVE  Rest(f)' = Rest(f)
<1>1. Settled(disk', writes', f) = disk'[f] /\ Settled(disk, writes, f) = disk[f]
  BY SettledAway, SettledNow DEF Hands
<1> QED
  BY <1>1 DEF Rest, Hands

(* Steps that leave these files alone keep them together.                  *)
LEMMA AllTogether ==
  ASSUME TogetherInv, mishaps' = mishaps, \A f \in Tracked : Rest(f)' = Rest(f),
         Docs("comparison")' \subseteq Docs("comparison")
  PROVE  TogetherInv'
<1> SUFFICES ASSUME mishaps' = 0
             PROVE  BundleOK' /\ SidesOK' /\ FromOK'
  BY DEF TogetherInv
<1>1. BundleOK' /\ SidesOK'
  <2>1. \A side \in Sides : Rest(side)' = Rest(side) /\ Rest(RowsFile[side])' = Rest(RowsFile[side])
    BY TrackedKnown
  <2>2. SidesOK'
    BY <2>1 DEF TogetherInv, SidesOK
  <2> QED
    BY <2>2, TrackedKnown DEF TogetherInv, BundleOK
<1>2. FromOK'
  BY DEF TogetherInv, FromOK
<1> QED
  BY <1>1, <1>2

(* A training hands over a bundle that belongs together.                   *)
LEMMA BundleTogether ==
  ASSUME TogetherInv, Hands(Bundle), Export
  PROVE  TogetherInv'
<1>1. writes' = Overwritten("weights", Weights) \o Overwritten("manifest", Manifest) \o Overwritten("training", Report)
  BY DEF Export, Ends, EndBy
<1>2. Rest("weights")' = Weights /\ Rest("manifest")' = Manifest /\ Rest("training")' = Report
  <2>1. InTurn(writes', Overwritten("weights", Weights), Overwritten("manifest", Manifest), Overwritten("training", Report))
    BY <1>1 DEF InTurn
  <2>2. "weights" # "manifest" /\ "weights" # "training" /\ "manifest" # "training"
    OBVIOUS
  <2>3. /\ Settled(disk', writes', "weights") = Weights /\ Settled(disk', writes', "manifest") = Manifest
        /\ Settled(disk', writes', "training") = Report
    BY <2>1, <2>2, ThreeSettled
  <2> QED
    BY <2>3 DEF Rest
<1>3. BundleOK'
  BY <1>2 DEF BundleOK, Manifest, Report, Weights
<1>4. \A f \in Evaluated : Rest(f)' = Rest(f)
  BY RestUntouched DEF Bundle, Evaluated
<1>5. mishaps = 0 => SidesOK'
  <2>1. \A side \in Sides : Rest(side)' = Rest(side) /\ Rest(RowsFile[side])' = Rest(RowsFile[side])
    BY <1>4 DEF Evaluated, Sides, RowsFile
  <2> QED
    BY <2>1 DEF TogetherInv, SidesOK
<1>6. Docs("comparison")' \subseteq Docs("comparison")
  BY DocsElsewhere DEF Hands, Bundle
<1>7. mishaps = 0 => FromOK'
  BY <1>6 DEF TogetherInv, FromOK
<1> QED
  BY <1>3, <1>5, <1>7 DEF TogetherInv, Hands

(* An evaluation hands over a report and its rows.                         *)
LEMMA EvaluationTogether ==
  ASSUME TogetherInv, NEW side \in Sides, Hands({side, RowsFile[side]}), EvaluateOne(side)
  PROVE  TogetherInv'
<1>1. PICK s \in Selections, calibration \in Calibrations :
        writes' = Incremental(RowsFile[side], s.decisions)
               \o Overwritten(RowsFile[side], Predictions(s.decisions))
               \o Overwritten(side, EvaluationReport(side, s, calibration))
  BY DEF EvaluateOne, Do
<1>2. WritesTo({RowsFile[side]}, Incremental(RowsFile[side], s.decisions))
  <2>1. Cardinality(s.decisions) \in Nat
    BY SelectionAssumption, FS_CardinalityType
  <2> QED
    BY <2>1, WriteIncrements
<1>3. RowsFile[side] # side
  BY DEF Sides, RowsFile
<1> DEFINE kept == Predictions(s.decisions)
           report == EvaluationReport(side, s, calibration)
<1>4. report.rows = kept
  BY DEF EvaluationReport
<1>5. Rest(RowsFile[side])' = kept /\ Rest(side)' = report
  <2> HIDE DEF kept, report
  <2>1. InTurn(writes', Incremental(RowsFile[side], s.decisions), Overwritten(RowsFile[side], kept), Overwritten(side, report))
    BY <1>1 DEF kept, report, InTurn
  <2>2. Settled(disk', writes', RowsFile[side]) = kept /\ Settled(disk', writes', side) = report
    BY <1>2, <1>3, <2>1, TwoSettled
  <2> QED
    BY <2>2 DEF Rest
<1>6. \A f \in Tracked \ {side, RowsFile[side]} : Rest(f)' = Rest(f)
  BY RestUntouched
<1>7. mishaps = 0 => BundleOK'
  <2>1. Bundle \subseteq Tracked \ {side, RowsFile[side]}
    BY DEF Tracked, Bundle, Sides, RowsFile
  <2>2. {"weights", "manifest", "training"} \subseteq Bundle
    BY DEF Bundle
  <2> QED
    BY <1>6, <2>1, <2>2 DEF TogetherInv, BundleOK
<1>8. mishaps = 0 => SidesOK'
  <2> SUFFICES ASSUME mishaps = 0, NEW other \in Sides, Rest(other)'.kind = "evaluation"
               PROVE  Rest(RowsFile[other])' = Rest(other)'.rows
    BY DEF SidesOK
  <2>1. CASE other = side
    BY <1>4, <1>5, <2>1
  <2>2. CASE other # side
    <3>1. other \in Tracked \ {side, RowsFile[side]} /\ RowsFile[other] \in Tracked \ {side, RowsFile[side]}
      BY <2>2 DEF Tracked, Evaluated, Sides, RowsFile
    <3> QED
      BY <1>6, <3>1 DEF TogetherInv, SidesOK
  <2> QED
    BY <2>1, <2>2
<1>9. Docs("comparison")' \subseteq Docs("comparison")
  BY DocsElsewhere DEF Hands, Sides, RowsFile
<1>10. mishaps = 0 => FromOK'
  BY <1>9 DEF TogetherInv, FromOK
<1> QED
  BY <1>7, <1>8, <1>10 DEF TogetherInv, Hands

(* A comparison is of reports beside their rows.                           *)
LEMMA ComparisonTogether ==
  ASSUME TogetherInv, Hands({"comparison"}), CompareReports, ReportsPair, RowsPair, MetricsPair
  PROVE  TogetherInv'
<1> SUFFICES ASSUME mishaps = 0
             PROVE  BundleOK' /\ SidesOK' /\ FromOK'
  BY DEF TogetherInv, Hands
<1>1. \A f \in Tracked : Rest(f)' = Rest(f)
  BY RestUntouched DEF Tracked, Bundle, Evaluated
<1>2. BundleOK' /\ SidesOK'
  <2>1. \A side \in Sides : Rest(side)' = Rest(side) /\ Rest(RowsFile[side])' = Rest(RowsFile[side])
    BY <1>1, TrackedKnown
  <2>2. SidesOK'
    BY <2>1 DEF TogetherInv, SidesOK
  <2> QED
    BY <1>1, <2>2, TrackedKnown DEF TogetherInv, BundleOK
<1>3. PICK doc : /\ writes' = Overwritten("comparison", doc)
                 /\ doc.from = [f \in Sides \cup {RowsFile[side] : side \in Sides} |-> disk[f]]
  <2>1. PICK good : 
          LET gates == disk["direct"].gates \cup {GateOf(g, "gate", good[g]) : g \in DOMAIN good}
          IN  Do("compare", Overwritten("comparison",
                [kind |-> "comparison", stamp |-> Stamp, decisions |-> Cardinality(disk["direct_rows"].decisions),
                 gates |-> gates \cup {GateOf("all", "gate", AllPass(gates))},
                 from |-> [f \in Sides \cup {RowsFile[side] : side \in Sides} |-> disk[f]]]))
    BY DEF CompareReports
  <2> DEFINE gates == disk["direct"].gates \cup {GateOf(g, "gate", good[g]) : g \in DOMAIN good}
             all == gates \cup {GateOf("all", "gate", AllPass(gates))}
             n == Cardinality(disk["direct_rows"].decisions)
             froms == [f \in Sides \cup {RowsFile[side] : side \in Sides} |-> disk[f]]
             doc == [kind |-> "comparison", stamp |-> Stamp, decisions |-> n, gates |-> all, from |-> froms]
  <2>2. writes' = Overwritten("comparison", doc)
    BY <2>1 DEF Do
  <2>3. doc.from = froms
    OBVIOUS
  <2> HIDE DEF doc
  <2> QED
    BY <2>2, <2>3
<1>4. \A side \in Sides : doc.from[RowsFile[side]] = doc.from[side].rows
  <2> SUFFICES ASSUME NEW side \in Sides
               PROVE  doc.from[RowsFile[side]] = doc.from[side].rows
    OBVIOUS
  <2>1. Rest(side) = disk[side] /\ Rest(RowsFile[side]) = disk[RowsFile[side]]
    BY SettledNow DEF Rest, Hands
  <2>2. disk[side].kind = "evaluation"
    BY DEF ReportsPair, Has
  <2>3. disk[RowsFile[side]] = disk[side].rows
    BY <2>1, <2>2 DEF TogetherInv, SidesOK
  <2> QED
    BY <1>3, <2>3
<1>5. Docs("comparison")' \subseteq Docs("comparison") \cup {Torn, doc}
  <2>1. Written(writes', "comparison") \subseteq {Torn, doc}
    BY <1>3, WrittenOver
  <2> QED
    BY <2>1 DEF Docs, Hands
<1>6. FromOK'
  <2>1. Torn.kind # "comparison"
    BY DEF Torn
  <2> QED
    BY <1>4, <1>5, <2>1 DEF TogetherInv, FromOK
<1> QED
  BY <1>2, <1>6

(* Every step keeps what belongs together, unless it is a kill.            *)
LEMMA StaysTogether ==
  ASSUME BaseInv, TogetherInv, StepKind
  PROVE  TogetherInv'
<1>0. StoreOK /\ mishaps \in Nat /\ "comparison" \in Files /\ Tracked \subseteq Files
  BY TrackedKnown DEF BaseInv, StoreTypeOK
<1>1. CASE Waits
  <2>1. \A f \in Tracked : Rest(f)' = Rest(f)
    BY <1>1 DEF Waits, Rest
  <2>2. Docs("comparison")' \subseteq Docs("comparison")
    BY <1>1 DEF Waits, Docs
  <2> QED
    BY <1>1, <2>1, <2>2, AllTogether DEF Waits
<1>2. CASE Dies
  BY <1>0, <1>2 DEF Dies, TogetherInv
<1>3. CASE Write /\ UNCHANGED <<command, commands, mishaps>>
  <2>1. \A f \in Tracked : Rest(f)' = Rest(f)
    BY <1>0, <1>3, SettledStays DEF Rest
  <2>2. Docs("comparison")' \subseteq Docs("comparison")
    BY <1>0, <1>3, DocsStay
  <2> QED
    BY <1>3, <2>1, <2>2, AllTogether
<1>4. ASSUME NEW fs, Hands(fs), fs \cap (Tracked \cup {"comparison"}) = {}
      PROVE  TogetherInv'
  <2>1. \A f \in Tracked : Rest(f)' = Rest(f)
    BY <1>4, RestUntouched
  <2>2. Docs("comparison")' \subseteq Docs("comparison")
    BY <1>4, DocsElsewhere DEF Hands
  <2> QED
    BY <1>4, <2>1, <2>2, AllTogether DEF Hands
<1>5. CASE Hands(Others)
  BY <1>4, <1>5 DEF Others, Tracked
<1>6. CASE Hands(Gated)
  BY <1>4, <1>6 DEF Gated, Tracked, Bundle, Evaluated
<1>7. CASE Hands({"compat_rows", "compat"})
  BY <1>4, <1>7 DEF Tracked, Bundle, Evaluated
<1> QED
  BY <1>1, <1>2, <1>3, <1>5, <1>6, <1>7, BundleTogether, EvaluationTogether, ComparisonTogether DEF StepKind

(* Nothing is apart at first.                                              *)
LEMMA TogetherInitially ==
  ASSUME CandidateInit
  PROVE  TogetherInv
<1>1. writes = <<>> /\ DOMAIN writes = {}
  BY DEF CandidateInit
<1>2. \A f \in Tracked \cup {"comparison"} : disk[f] = Absent
  BY CandidateAssumption DEF CandidateInit, Produced, Tracked, Bundle, Evaluated
<1>3. \A f \in Tracked : Rest(f) = Absent
  BY <1>1, <1>2, SettledNow DEF Rest
<1>4. Docs("comparison") = {Absent}
  BY <1>1, <1>2 DEF Docs, Written
<1>5. Absent.kind = "absent"
  BY DEF Absent
<1> QED
  BY <1>3, <1>4, <1>5, TrackedKnown DEF TogetherInv, BundleOK, SidesOK, FromOK

-----------------------------------------------------------------------------
(* --------------------------- checked evidence -------------------------- *)
Looked == Artifacts \cup {"evidence"}

CheckedOK == checked = "matches" => Matches /\ \A i \in DOMAIN writes : writes[i].file \notin Looked

(* The gates of each kind of document.                                     *)
LEMMA GatesOf ==
  ASSUME NEW d
  PROVE  /\ d.kind \notin {"equivalence", "compat", "comparison", "evaluation"} => Gates(d) = {}
         /\ d.kind \in {"compat", "comparison", "evaluation"} => Gates(d) = d.gates
         /\ d.kind = "equivalence" =>
              {GateOf(i, g, d.requests[i][g]) : i \in DOMAIN d.requests, g \in DOMAIN d.summary} \subseteq Gates(d)
BY DEF Gates

(* The evidence matches as long as the files it looks at do not change.    *)
LEMMA MatchesStands ==
  ASSUME \A f \in Looked : disk'[f] = disk[f], Matches
  PROVE  Matches'
<1>1. ArtifactsLoad'
  BY DEF Looked, Matches, ArtifactsLoad, Has
<1>2. Shown' = Shown
  BY DEF Looked, Shown
<1>3. Rendering' = Rendering
  BY <1>2 DEF Looked, Rendering, Shown
<1> QED
  BY <1>1, <1>3 DEF Looked, Matches, Evidence

(* The files it looks at are none of the release's.                        *)
LEMMA LookedAt ==
  /\ Looked \subseteq Files
  /\ Looked \cap ({"release", "lock", "evaluation", "model"} \cup Listed) = {}
  /\ {"equivalence", "compat", "direct", "comparison"} \subseteq Artifacts
BY CandidateAssumption DEF Looked, Produced

(* The release and the edits write no other files.                         *)
LEMMA ReleaseTouches ==
  ASSUME Release
  PROVE  disk' = disk /\ (writes' = writes \/ WritesTo({"release", "lock", "evaluation", "model"} \cup Listed, writes'))
<1> DEFINE fs == {"release", "lock", "evaluation", "model"} \cup Listed
<1>1. {"release", "lock", "evaluation", "model"} \subseteq fs /\ Listed \subseteq fs
  OBVIOUS
<1> HIDE DEF fs
<1>2. ASSUME Verify
      PROVE  disk' = disk /\ writes' = writes
  BY <1>2 DEF Verify, Ask
<1>3. ASSUME \E f \in fs : \E kind, doc : Do(kind, Overwritten(f, doc)) \/ Do(kind, AtOnce(f, doc))
      PROVE  disk' = disk /\ WritesTo(fs, writes')
  BY <1>3, WriteOver, WriteAtOnce DEF Do
<1>4. ASSUME Replace \/ Withdraw \/ Correct
      PROVE  disk' = disk /\ WritesTo(fs, writes')
  BY <1>1, <1>3, <1>4 DEF Replace, Withdraw, Correct
<1>5. ASSUME NEW r \in BOOLEAN, BuildRelease(r)
      PROVE  disk' = disk /\ (writes' = writes \/ WritesTo(fs, writes'))
  <2>1. CASE BuildReadable
    BY <1>1, <1>3, <1>5, <2>1 DEF BuildRelease
  <2>2. CASE ~BuildReadable
    BY <1>5, <2>2 DEF BuildRelease, Ask
  <2> QED
    BY <2>1, <2>2
<1>6. disk' = disk /\ (writes' = writes \/ WritesTo(fs, writes'))
  BY <1>2, <1>4, <1>5 DEF Release, ReleaseStep
<1> QED
  BY <1>6 DEF fs

(* While a check stands, nothing done or pending changes what it looked    *)
(* at.                                                                     *)
LEMMA CheckStands ==
  ASSUME BaseInv, CheckedOK, [CandidateNext]_cvars
  PROVE  CheckedOK'
<1>1. ASSUME disk' = disk, checked' = checked, writes' = writes \/ \A i \in DOMAIN writes' : writes'[i].file \notin Looked
      PROVE  CheckedOK'
  <2> SUFFICES ASSUME checked = "matches"
               PROVE  Matches' /\ \A i \in DOMAIN writes' : writes'[i].file \notin Looked
    BY <1>1 DEF CheckedOK
  <2>1. Matches /\ \A i \in DOMAIN writes : writes[i].file \notin Looked
    BY DEF CheckedOK
  <2> QED
    BY <1>1, <2>1, MatchesStands
<1>2. CASE UNCHANGED cvars
  BY <1>1, <1>2 DEF cvars, store
<1>3. CASE Train \/ CheckEquivalence \/ Measure
  BY <1>3 DEF Train, CheckEquivalence, Measure, CheckedOK
<1>4. CASE Evidences
  <2>1. CASE checked' = "none"
    BY <2>1 DEF CheckedOK
  <2>2. CASE Check
    <3>1. disk' = disk /\ writes' = writes /\ DOMAIN writes = {} /\ (checked' = "matches" => Matches)
      BY <2>2 DEF Check, Ask, Begin
    <3> QED
      BY <3>1, MatchesStands DEF CheckedOK
  <2> QED
    BY <1>4, <2>1, <2>2 DEF Evidences, EvidenceStep
<1>5. CASE Release
  <2>1. disk' = disk /\ checked' = checked
    BY <1>5, ReleaseTouches DEF Release
  <2>2. CASE writes' = writes
    BY <1>1, <2>1, <2>2
  <2>3. CASE WritesTo({"release", "lock", "evaluation", "model"} \cup Listed, writes')
    <3>1. \A i \in DOMAIN writes' : writes'[i].file \in {"release", "lock", "evaluation", "model"} \cup Listed
      BY <2>3, FilesOfWrites
    <3>2. \A i \in DOMAIN writes' : writes'[i].file \notin Looked
      BY <3>1, LookedAt
    <3> QED
      BY <1>1, <2>1, <3>2
  <2> QED
    BY <1>5, <2>2, <2>3, ReleaseTouches
<1>6. CASE Crash
  <2>1. disk' = disk /\ checked' = checked /\ DOMAIN writes' = {}
    BY <1>6 DEF Crash, Die, EndBy
  <2> QED
    BY <1>1, <2>1
<1>7. CASE Proceed
  <2> SUFFICES ASSUME checked = "matches"
               PROVE  Matches' /\ \A i \in DOMAIN writes' : writes'[i].file \notin Looked
    BY <1>7 DEF Proceed, CheckedOK
  <2>1. Matches /\ \A i \in DOMAIN writes : writes[i].file \notin Looked
    BY DEF CheckedOK
  <2>2. PICK ds : writes \in Seq(ds)
    BY DEF BaseInv, StoreTypeOK, StoreOK, WritesTo
  <2>3. writes # <<>> /\ writes' = Tail(writes)
    BY <1>7, Zenon DEF Proceed, Write
  <2>4. Len(writes) \in Nat \ {0} /\ DOMAIN writes = 1..Len(writes)
    BY <2>2, <2>3, EmptySeq
  <2>5. /\ DOMAIN writes' = 1..Len(writes) - 1
        /\ \A i \in 1..Len(writes) - 1 : i + 1 \in DOMAIN writes /\ writes'[i] = writes[i + 1]
    BY <2>2, <2>3, <2>4
  <2>6. \A f \in Looked : disk'[f] = disk[f]
    <3>1. writes[1].file \notin Looked
      BY <2>1, <2>4
    <3> QED
      BY <1>7, <3>1, LookedAt DEF Proceed, Write, BaseInv, StoreTypeOK, StoreOK
  <2> QED
    BY <2>1, <2>5, <2>6, MatchesStands
<1> QED
  BY <1>2, <1>3, <1>4, <1>5, <1>6, <1>7 DEF CandidateNext

-----------------------------------------------------------------------------
(* ---------------------------- the candidate ---------------------------- *)
CandidateInv == BaseInv /\ DocsFit /\ RowsInv /\ TogetherInv /\ CheckedOK

(* All of these hold at first.                                             *)
LEMMA CandidateBegins ==
  ASSUME CandidateInit
  PROVE  CandidateInv
BY BaseInitially, DocsFitInitially, RowsInitially, TogetherInitially
   DEF CandidateInv, CheckedOK, CandidateInit

(* Every step keeps them.                                                  *)
LEMMA CandidateGoesOn ==
  ASSUME CandidateInv, [CandidateNext]_cvars
  PROVE  CandidateInv'
<1>1. StepKind
  BY StepsAreKnown DEF CandidateInv
<1> QED
  BY <1>1, BaseStep, DocsStayFit, RowsKept, StaysTogether, CheckStands DEF CandidateInv

(* They hold for ever.                                                     *)
LEMMA CandidateIsInvariant == CandidateSpec => []CandidateInv
<1>1. CandidateInit => CandidateInv
  BY CandidateBegins
<1>2. CandidateInv /\ [CandidateNext]_cvars => CandidateInv'
  BY CandidateGoesOn
<1> QED
  BY <1>1, <1>2, PTL DEF CandidateSpec

(* A bundle whose digest is right loads in either backend and adapts every *)
(* layer that its configuration names; and unless a command was killed it  *)
(* is the bundle of the training that the report is about.                 *)
THEOREM VouchedAdapterLoads == CandidateSpec => []AdapterIsWhole
<1>1. CandidateInv => AdapterIsWhole
  <2> SUFFICES ASSUME CandidateInv
               PROVE  AdapterIsWhole
    OBVIOUS
  <2>1. ASSUME Vouched, NEW load \in Loads
        PROVE  /\ load.kind = "loaded"
               /\ load.layers = Injected(disk["manifest"].config) /\ load.adapted = load.layers
    <3> DEFINE m == disk["manifest"]
               w == disk["weights"]
               layers == Injected(m.config)
    <3>1. m.kind = "manifest" /\ m.digest = w
      BY <2>1 DEF Vouched, Has
    <3>2. w = [kind |-> "weights", stamp |-> w.stamp, layers |-> layers, rank |-> m.config.rank]
      <4>1. "manifest" \in Files
        BY CandidateAssumption DEF Produced
      <4>2. SoundManifest(m)
        BY <3>1, <4>1 DEF CandidateInv, DocsFit, Fits
      <4> QED
        BY <3>1, <4>2 DEF SoundManifest
    <3> HIDE DEF m, w, layers
    <3>3. w.kind = "weights" /\ w.layers = layers /\ w.rank = m.config.rank
      BY <3>2
    <3>4. load = LoadInto(m.config, w)
      BY <2>1, <3>1, <3>3 DEF Loads, DirectLoad, ScalarHeadLoad, LoadBundle, Has, m, w
    <3>5. LoadInto(m.config, w) = [kind |-> "loaded", layers |-> Injected(m.config),
                                   adapted |-> w.layers \cap Injected(m.config), training |-> w.stamp]
      BY <3>3 DEF LoadInto, KeepsShape
    <3>6. Injected(m.config) = layers
      BY DEF layers
    <3> QED
      BY <3>3, <3>4, <3>5, <3>6 DEF m
  <2>2. ASSUME mishaps = 0, writes = <<>>
        PROVE  \/ \A f \in {"weights", "manifest", "training"} : Has(f, "absent")
               \/ Vouched /\ disk["training"].stamp = disk["weights"].stamp
    <3>1. \A f : Rest(f) = disk[f]
      BY <2>2, SettledNow DEF Rest
    <3>2. BundleOK
      BY <2>2 DEF CandidateInv, TogetherInv
    <3> QED
      BY <3>1, <3>2 DEF BundleOK, Bundle, Vouched, Has
  <2> QED
    BY <2>1, <2>2 DEF AdapterIsWhole
<1> QED
  BY <1>1, CandidateIsInvariant, PTL

(* Whatever the questions and however the decisions compare: a report of   *)
(* the equivalence check passes just when each request and the memory do,  *)
(* and rows of the same run bear it out decision by decision.              *)
THEOREM GateIsBorneOut == CandidateSpec => []EquivalenceIsEarned
<1>1. CandidateInv => EquivalenceIsEarned
  <2> SUFFICES ASSUME CandidateInv, Has("equivalence", "equivalence")
               PROVE  /\ disk["equivalence"].passed = (disk["equivalence"].memory /\
                           \A i \in DOMAIN disk["equivalence"].requests : Passed(disk["equivalence"].requests[i]))
                      /\ Has("rows", "rows") /\ disk["rows"].stamp = disk["equivalence"].stamp =>
                           BornOut(disk["equivalence"], disk["rows"])
    BY DEF EquivalenceIsEarned, BornOut
  <2>1. "equivalence" \in Files
    BY CandidateAssumption DEF Produced
  <2>2. SoundGate(disk["equivalence"])
    BY <2>1 DEF CandidateInv, DocsFit, Fits, Has
  <2>3. disk["equivalence"] \in Docs("equivalence") /\ disk["rows"] \in Docs("rows")
    BY DEF Docs
  <2> QED
    BY <2>2, <2>3 DEF SoundGate, CandidateInv, RowsInv, PairsOK, Has
<1> QED
  BY <1>1, CandidateIsInvariant, PTL

(* Whatever was evaluated and in whatever order: a comparison is of two    *)
(* evaluations of one selection, one by each backend, decision by          *)
(* decision, and passes only if no calibration of the direct one failed.   *)
THEOREM ComparesLikeWithLike == CandidateSpec => []ComparisonIsPaired
<1>1. CandidateInv => ComparisonIsPaired
  <2> SUFFICES ASSUME CandidateInv, Has("comparison", "comparison")
               PROVE  ComparisonIsPaired
    BY DEF ComparisonIsPaired
  <2> DEFINE d == disk["comparison"]
  <2>1. "comparison" \in Files
    BY CandidateAssumption DEF Produced
  <2>2. SoundComparison(d) /\ d \in Docs("comparison")
    BY <2>1 DEF CandidateInv, DocsFit, Fits, Has, Docs
  <2>3. ASSUME mishaps = 0, NEW side \in Sides
        PROVE  d.from[RowsFile[side]] = d.from[side].rows
    BY <2>2, <2>3 DEF CandidateInv, TogetherInv, FromOK, Has
  <2> QED
    BY <2>2, <2>3 DEF SoundComparison, ComparisonIsPaired
<1> QED
  BY <1>1, CandidateIsInvariant, PTL

(* While a check of the evidence stands, it shows every artifact that has  *)
(* gates as it is now, and every gate that failed in it as failed.         *)
THEOREM EvidenceIsCurrent == CandidateSpec => []CheckedEvidenceIsCurrent
<1>1. CandidateInv => CheckedEvidenceIsCurrent
  <2> SUFFICES ASSUME CandidateInv, checked = "matches"
               PROVE  CheckedEvidenceIsCurrent
    BY DEF CheckedEvidenceIsCurrent
  <2> DEFINE shown == disk["evidence"].shown
  <2>1. ArtifactsLoad /\ shown = Rendering
    BY DEF CandidateInv, CheckedOK, Matches, Evidence
  <2> HIDE DEF shown
  <2>2. DOMAIN shown = Shown /\ \A f \in Shown : shown[f].stamp = disk[f].stamp /\ shown[f].gates = Gates(disk[f])
    BY <2>1 DEF Rendering
  <2>3. \A f \in Artifacts : ~Has(f, "torn")
    BY <2>1 DEF ArtifactsLoad
  <2>4. ASSUME NEW f \in Shown
        PROVE  ~Has(f, "absent") /\ shown[f].stamp = disk[f].stamp
    <3>1. Gates(disk[f]) # {} \/ HasMetrics(disk[f])
      BY DEF Shown
    <3>2. CASE disk[f].kind = "absent"
      BY <3>1, <3>2, GatesOf DEF HasMetrics
    <3> QED
      BY <2>2, <3>2 DEF Has
  <2>5. ASSUME NEW f \in {"compat", "comparison", "direct"}, ~Has(f, "absent"), NEW g \in disk[f].gates
        PROVE  f \in Shown /\ g \in shown[f].gates
    <3>1. f \in Artifacts /\ f \in Files
      BY LookedAt DEF Looked
    <3>2. disk[f].kind # "torn" /\ disk[f].kind # "absent"
      BY <2>3, <2>5, <3>1 DEF Has
    <3>3. disk[f].kind \in {"compat", "comparison", "evaluation"}
      BY <3>1, <3>2 DEF CandidateInv, DocsFit, Fits, MayHold, Sides, RowsFile
    <3>4. Gates(disk[f]) = disk[f].gates
      BY <3>3, GatesOf
    <3>5. f \in Shown
      BY <3>1, <3>4, <2>5 DEF Shown
    <3> QED
      BY <2>2, <3>4, <3>5
  <2>6. ASSUME Has("equivalence", "equivalence"), NEW i \in DOMAIN disk["equivalence"].requests,
               NEW g \in DOMAIN disk["equivalence"].requests[i], ~disk["equivalence"].requests[i][g]
        PROVE  GateOf(i, g, FALSE) \in shown["equivalence"].gates
    <3> DEFINE d == disk["equivalence"]
    <3>1. "equivalence" \in Artifacts /\ "equivalence" \in Files
      BY LookedAt DEF Looked
    <3>2. SoundGate(d)
      BY <2>6, <3>1 DEF CandidateInv, DocsFit, Fits, Has
    <3>3. d.requests[i] \in Verdicts /\ d.summary \in Verdicts
      BY <2>6, <3>2 DEF SoundGate
    <3>4. g \in DOMAIN d.summary /\ d.requests[i][g] = FALSE
      <4>1. DOMAIN d.requests[i] = DOMAIN d.summary /\ d.requests[i][g] \in BOOLEAN
        BY <2>6, <3>3 DEF Verdicts
      <4> QED
        BY <2>6, <4>1
    <3>5. GateOf(i, g, d.requests[i][g]) \in Gates(d)
      BY <2>6, <3>4, GatesOf DEF Has
    <3>6. "equivalence" \in Shown
      BY <3>1, <3>5 DEF Shown
    <3> QED
      BY <2>2, <3>4, <3>5, <3>6
  <2> QED
    BY <2>2, <2>3, <2>4, <2>5, <2>6 DEF CheckedEvidenceIsCurrent, shown
<1> QED
  BY <1>1, CandidateIsInvariant, PTL
=============================================================================
