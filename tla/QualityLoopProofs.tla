--------------------------- MODULE QualityLoopProofs ---------------------------
(***************************************************************************)
(* Proofs about evaluations that are killed and resumed, and about the     *)
(* audits of what they leave, for every suite, every selection and any     *)
(* number of runs, kills and upgrades.                                     *)
(***************************************************************************)
EXTENDS QualityLoop, JsonLinesLemmas

-----------------------------------------------------------------------------
(* The inductive invariant.                                                *)

Answered(rs, e) == \A q \in Range(Questions[e]) : \E i \in 1..Len(rs) : rs[i].ex = e /\ rs[i].q = q

(* The file repeats nothing, and what it has in part is known to be.       *)
FileOK(f, sp) == Distinct(f.rows) /\ InPart(f.rows) \subseteq sp

(* Neither does the memory of a run, which covers what is no longer to do. *)
MemoryOK(rs, sel, sp, td) ==
  /\ Distinct(rs)
  /\ ExamplesOf(rs) \subseteq sel
  /\ \A e \in sel \ sp : (\A i \in 1..Len(td) : td[i] # e) => Answered(rs, e)

(* An example is to do once, and the file knows nothing of it.             *)
TodoOK(td, sel, f) ==
  /\ \A i, j \in 1..Len(td) : td[i] = td[j] => i = j
  /\ \A i \in 1..Len(td) : td[i] \in sel /\ td[i] \notin ExamplesOf(f.rows)

(* The buffer holds the first answers about the example that is next to    *)
(* do, and the memory holds no other answers about what is to do.          *)
BufferOK(bf, rs, td, md) ==
  /\ td # <<>> => Len(bf) <= Len(Questions[td[1]])
  /\ \A k \in 1..Len(bf) : /\ bf[k] = [ex |-> td[1], q |-> Questions[td[1]][k], config |-> md]
                           /\ \E j \in 1..Len(rs) : rs[j] = bf[k]
  /\ \A j \in 1..Len(rs), i \in 1..Len(td) :
       rs[j].ex = td[i] => i = 1 /\ \E k \in 1..Len(bf) : rs[j] = bf[k]

WrittenOK ==
  /\ pc \in {"rewriting", "reporting", "closing", "done"} => todo = <<>>
  /\ pc = "rewriting" => predictions = EmptyFile
  /\ pc \in {"reporting", "closing", "done"} => predictions = [rows |-> rows, end |-> "closed"]
  /\ pc = "done" => report.rows = rows

EvaluationInv ==
  /\ TypeOK
  /\ FileOK(predictions, spoiled)
  /\ pc # "idle" => MemoryOK(rows, selected, spoiled, todo)
  /\ pc = "evaluating" => TodoOK(todo, selected, predictions) /\ BufferOK(buffer, rows, todo, model)
  /\ WrittenOK

LoopInv == EvaluationInv /\ LoopTypeOK /\ OnlyErrorsAreQuarantined

-----------------------------------------------------------------------------
(* The operators.                                                          *)

(* A row is an answer of some model to a question of its example.          *)
LEMMA RowParts ==
  ASSUME NEW r \in Rows
  PROVE  /\ r.ex \in Examples /\ r.config \in Configs /\ r.q \in Range(Questions[r.ex])
         /\ DecisionOf(r) \in Decisions
BY DEF Rows, Decisions, DecisionOf

(* The answer to a question of an example is a row.                        *)
LEMMA AnswerIsRow ==
  ASSUME NEW e \in Examples, NEW k \in 1..Len(Questions[e]), NEW md \in Configs
  PROVE  /\ [ex |-> e, q |-> Questions[e][k], config |-> md] \in Rows
         /\ DOMAIN Questions[e] = 1..Len(Questions[e])
<1>1. Questions[e] \in Seq(Range(Questions[e])) \ {<<>>}
  BY EvaluationAssumption
<1>2. DOMAIN Questions[e] = 1..Len(Questions[e])
  BY <1>1
<1>3. Questions[e][k] \in Range(Questions[e])
  BY <1>2 DEF Range
<1> DEFINE d == [ex |-> e, q |-> Questions[e][k]]
<1>4. d \in Decisions /\ d.q = Questions[e][k]
  BY <1>3 DEF Decisions
<1> QED
  BY <1>2, <1>3, <1>4 DEF Rows

(* The questions of an example are at positions of their own, at least     *)
(* one.                                                                    *)
LEMMA QuestionsArePositions ==
  ASSUME NEW e \in Examples
  PROVE  /\ Len(Questions[e]) \in Nat \ {0}
         /\ \A q \in Range(Questions[e]) : \E k \in 1..Len(Questions[e]) : q = Questions[e][k]
         /\ \A k, l \in 1..Len(Questions[e]) : Questions[e][k] = Questions[e][l] => k = l
<1>1. Questions[e] \in Seq(Range(Questions[e])) \ {<<>>} /\ IsInjective(Questions[e])
  BY EvaluationAssumption
<1>2. DOMAIN Questions[e] = 1..Len(Questions[e]) /\ Len(Questions[e]) \in Nat \ {0}
  BY <1>1
<1> QED
  BY <1>1, <1>2 DEF Range, IsInjective

(* An empty file repeats nothing and has nothing in part.                  *)
LEMMA EmptyFileIsOK ==
  ASSUME NEW sp
  PROVE  FileOK(EmptyFile, sp)
BY DEF FileOK, EmptyFile, Distinct, InPart, ExamplesOf

(* What is selected to do are the selected examples of the dataset, each   *)
(* once.                                                                   *)
LEMMA TodoReads ==
  ASSUME NEW T
  PROVE  LET t == Where(Dataset, T) IN
         /\ t \in Seq(Examples)
         /\ \A k \in 1..Len(t) : t[k] \in T
         /\ \A k, l \in 1..Len(t) : t[k] = t[l] => k = l
         /\ \A e \in Examples \cap T : \E k \in 1..Len(t) : t[k] = e
<1> DEFINE t == Where(Dataset, T)
           at(k) == Nth(Positions(Dataset, T), k)
<1>0. Dataset \in Seq(Examples) /\ DOMAIN Dataset = 1..Len(Dataset)
  BY EvaluationAssumption
<1>1. /\ t \in Seq(Examples)
      /\ \A k \in 1..Len(t) : at(k) \in 1..Len(Dataset) /\ t[k] = Dataset[at(k)] /\ t[k] \in T
      /\ \A k, l \in 1..Len(t) : k < l => at(k) < at(l)
      /\ \A i \in 1..Len(Dataset) : Dataset[i] \in T => \E k \in 1..Len(t) : at(k) = i
  BY <1>0, WhereReads
<1> HIDE DEF t, at
<1>2. ASSUME NEW k \in 1..Len(t), NEW l \in 1..Len(t), t[k] = t[l]
      PROVE  k = l
  <2>1. at(k) = at(l)
    BY <1>0, <1>1, <1>2, EvaluationAssumption DEF IsInjective
  <2>2. at(k) \in Int /\ at(l) \in Int /\ k \in Int /\ l \in Int
    BY <1>1
  <2>3. ~(at(k) < at(l)) /\ ~(at(l) < at(k))
    BY <2>1, <2>2
  <2>4. ~(k < l) /\ ~(l < k)
    BY <1>1, <2>3
  <2> QED
    BY <2>2, <2>4
<1>3. ASSUME NEW e \in Examples \cap T
      PROVE  \E k \in 1..Len(t) : t[k] = e
  <2>1. PICK i \in 1..Len(Dataset) : Dataset[i] = e
    BY <1>0 DEF Examples, Range
  <2>2. PICK k \in 1..Len(t) : at(k) = i
    BY <1>1, <2>1
  <2> QED
    BY <1>1, <2>1, <2>2
<1> QED
  BY <1>1, <1>2, <1>3 DEF t

(* What is buffered is new to the file.                                    *)
LEMMA BufferIsNew ==
  ASSUME EvaluationInv
  PROVE  /\ Distinct(buffer)
         /\ \A k \in 1..Len(predictions.rows), l \in 1..Len(buffer) :
              ~(predictions.rows[k].ex = buffer[l].ex /\ predictions.rows[k].q = buffer[l].q)
<1>1. CASE buffer = <<>>
  BY <1>1 DEF Distinct
<1>2. CASE buffer # <<>>
  <2>1. pc = "evaluating" /\ todo # <<>> /\ todo \in Seq(Examples) /\ buffer \in Seq(Rows) /\ model \in Configs
    BY <1>2 DEF EvaluationInv, TypeOK
  <2>2. 1 \in 1..Len(todo) /\ todo[1] \in Examples
    BY <2>1
  <2>3. /\ Len(buffer) <= Len(Questions[todo[1]])
        /\ \A k \in 1..Len(buffer) : buffer[k] = [ex |-> todo[1], q |-> Questions[todo[1]][k], config |-> model]
        /\ todo[1] \notin ExamplesOf(predictions.rows)
    BY <2>1, <2>2 DEF EvaluationInv, TodoOK, BufferOK
  <2>4. Len(buffer) \in Nat /\ Len(Questions[todo[1]]) \in Nat
    BY <2>1, <2>2, QuestionsArePositions
  <2>5. \A k \in 1..Len(buffer) : k \in 1..Len(Questions[todo[1]]) /\ buffer[k].ex = todo[1] /\ buffer[k].q = Questions[todo[1]][k]
    <3> TAKE k \in 1..Len(buffer)
    <3>1. buffer[k] = [ex |-> todo[1], q |-> Questions[todo[1]][k], config |-> model]
      BY <2>3
    <3>2. buffer[k].ex = todo[1] /\ buffer[k].q = Questions[todo[1]][k]
      BY <3>1
    <3> QED
      BY <2>3, <2>4, <3>2
  <2>6. Distinct(buffer)
    BY <2>2, <2>5, QuestionsArePositions DEF Distinct
  <2> QED
    BY <2>3, <2>5, <2>6 DEF ExamplesOf
<1> QED
  BY <1>1, <1>2

-----------------------------------------------------------------------------
(* The steps of an evaluation keep the invariant.                          *)

(* A run begins with the rows it resumes, and with only what they leave    *)
(* to do.                                                                  *)
LEMMA StartKeeps ==
  ASSUME EvaluationInv, NEW S \in SUBSET Examples, NEW resume \in BOOLEAN, Start(S, resume)
  PROVE  EvaluationInv'
<1> DEFINE ex == IF resume THEN predictions.rows ELSE <<>>
<1>1. /\ predictions \in Files(Rows) /\ predictions.rows \in Seq(Rows)
      /\ buffer = <<>> /\ spoiled \in SUBSET Examples /\ config \in Configs
      /\ Distinct(predictions.rows) /\ InPart(predictions.rows) \subseteq spoiled
  <2>1. TypeOK /\ FileOK(predictions, spoiled) /\ pc \in {"idle", "done"}
    BY DEF EvaluationInv, Start
  <2> QED
    BY <2>1, FileParts DEF TypeOK, FileOK
<1>2. ex \in Seq(Rows) /\ Distinct(ex)
  BY <1>1 DEF Distinct
<1>3. /\ pc' = "evaluating" /\ selected' = S /\ model' = config /\ saved' = ExamplesOf(ex)
      /\ rows' = Where(ex, {r \in Rows : r.ex \in S})
      /\ todo' = Where(Dataset, S \ ExamplesOf(ex))
      /\ predictions' = IF ex = <<>> THEN EmptyFile ELSE predictions
      /\ spoiled' = IF predictions' = EmptyFile THEN {} ELSE spoiled
      /\ config' = config /\ report' = report /\ buffer' = buffer /\ starts < MaxStarts
      /\ starts' = starts + 1 /\ mishaps' = mishaps /\ upgrades' = upgrades
  BY Zenon DEF Start, Todo, Opened
<1> HIDE DEF ex
<1>4. predictions' \in Files(Rows) /\ predictions'.rows = ex /\ spoiled' \in SUBSET Examples
  <2>1. CASE ex = <<>>
    BY <1>1, <1>3, <2>1, RewrittenReads DEF EmptyFile
  <2>2. CASE ex # <<>>
    BY <1>1, <1>3, <2>2 DEF ex
  <2> QED
    BY <2>1, <2>2
<1>5. FileOK(predictions', spoiled')
  <2>1. CASE predictions' = EmptyFile
    BY <2>1, EmptyFileIsOK
  <2>2. CASE predictions' # EmptyFile
    <3>1. predictions' = predictions /\ spoiled' = spoiled
      BY <1>3, <2>2
    <3> QED
      BY <1>1, <3>1 DEF FileOK
  <2> QED
    BY <2>1, <2>2
<1>6. InPart(ex) \subseteq spoiled'
  BY <1>4, <1>5 DEF FileOK
<1>7. /\ todo' \in Seq(Examples)
      /\ \A k \in 1..Len(todo') : todo'[k] \in S /\ todo'[k] \notin ExamplesOf(ex)
      /\ \A k, l \in 1..Len(todo') : todo'[k] = todo'[l] => k = l
      /\ \A e \in S \ ExamplesOf(ex) : \E k \in 1..Len(todo') : todo'[k] = e
  <2> DEFINE t == Where(Dataset, S \ ExamplesOf(ex))
  <2>1. /\ t \in Seq(Examples)
        /\ \A k \in 1..Len(t) : t[k] \in S \ ExamplesOf(ex)
        /\ \A k, l \in 1..Len(t) : t[k] = t[l] => k = l
        /\ \A e \in Examples \cap (S \ ExamplesOf(ex)) : \E k \in 1..Len(t) : t[k] = e
    BY TodoReads
  <2>2. todo' = t
    BY <1>3
  <2> HIDE DEF t
  <2> QED
    BY <2>1, <2>2
<1>8. /\ rows' \in Seq(Rows) /\ Distinct(rows')
      /\ \A k \in 1..Len(rows') : rows'[k].ex \in S /\ rows'[k].ex \in ExamplesOf(ex)
      /\ \A i \in 1..Len(ex) : ex[i].ex \in S => \E k \in 1..Len(rows') : rows'[k] = ex[i]
  <2> DEFINE T == {r \in Rows : r.ex \in S}
             t == Where(ex, T)
  <2> HIDE DEF T
  <2>1. /\ t \in Seq(Rows \cap T)
        /\ \A k \in 1..Len(t) : t[k] \in T /\ \E i \in 1..Len(ex) : t[k] = ex[i]
        /\ \A i \in 1..Len(ex) : ex[i] \in T => \E k \in 1..Len(t) : t[k] = ex[i]
    BY <1>2, WhereElements
  <2>2. t \in Seq(Rows)
    BY <1>2, WhereReads
  <2>3. Distinct(t)
    BY <1>2, WhereIsDistinct
  <2>4. rows' = t
    BY <1>3 DEF T
  <2>5. \A i \in 1..Len(ex) : ex[i] \in Rows
    BY <1>2
  <2> HIDE DEF t
  <2> QED
    BY <2>1, <2>2, <2>3, <2>4, <2>5 DEF ExamplesOf, T
<1>9. MemoryOK(rows', selected', spoiled', todo')
  <2>1. ExamplesOf(rows') \subseteq S
    BY <1>8 DEF ExamplesOf
  <2>2. ASSUME NEW e \in S \ spoiled', \A i \in 1..Len(todo') : todo'[i] # e
        PROVE  Answered(rows', e)
    <3>1. e \in ExamplesOf(ex) /\ e \notin InPart(ex)
      BY <1>6, <1>7, <2>2
    <3>2. ASSUME NEW q \in Range(Questions[e])
          PROVE  \E i \in 1..Len(rows') : rows'[i].ex = e /\ rows'[i].q = q
      <4>1. PICK i \in 1..Len(ex) : ex[i].ex = e /\ ex[i].q = q
        BY <3>1 DEF InPart
      <4>2. PICK k \in 1..Len(rows') : rows'[k] = ex[i]
        BY <1>8, <4>1
      <4> QED
        BY <4>1, <4>2
    <3> QED
      BY <3>2 DEF Answered
  <2> QED
    BY <1>3, <1>8, <2>1, <2>2 DEF MemoryOK
<1>10. TodoOK(todo', selected', predictions')
  BY <1>3, <1>4, <1>7 DEF TodoOK
<1>11. BufferOK(buffer', rows', todo', model')
  <2>1. buffer' = <<>> /\ Len(buffer') = 0
    BY <1>1, <1>3
  <2>2. todo' # <<>> => 0 <= Len(Questions[todo'[1]])
    <3>1. todo' # <<>> => todo'[1] \in Examples
      BY <1>7
    <3> QED
      BY <3>1, QuestionsArePositions
  <2> QED
    BY <1>7, <1>8, <2>1, <2>2 DEF BufferOK
<1>12. TypeOK'
  <2>1. saved' \in SUBSET Examples
    <3>1. \A i \in 1..Len(ex) : ex[i] \in Rows
      BY <1>2
    <3> QED
      BY <1>3, <3>1, RowParts DEF ExamplesOf
  <2>2. starts' \in 0..MaxStarts
    <3>1. starts \in 0..MaxStarts
      BY DEF EvaluationInv, TypeOK
    <3>2. MaxStarts \in Nat
      BY EvaluationAssumption
    <3> QED
      BY <1>3, <3>1, <3>2
  <2> QED
    BY <1>1, <1>3, <1>4, <1>7, <1>8, <2>1, <2>2 DEF EvaluationInv, TypeOK
<1>13. WrittenOK'
  BY <1>3 DEF WrittenOK
<1> QED
  BY <1>5, <1>9, <1>10, <1>11, <1>12, <1>13 DEF EvaluationInv

(* Answering a question keeps the invariant.                               *)
LEMMA RecordKeeps ==
  ASSUME EvaluationInv, Record
  PROVE  EvaluationInv'
<1> DEFINE e == todo[1]
           k == Len(buffer) + 1
           row == [ex |-> e, q |-> Questions[e][k], config |-> model]
<1>1. /\ rows \in Seq(Rows) /\ buffer \in Seq(Rows) /\ todo \in Seq(Examples) /\ model \in Configs
      /\ pc = "evaluating" /\ todo # <<>> /\ Len(buffer) < Len(Questions[Head(todo)])
      /\ MemoryOK(rows, selected, spoiled, todo) /\ TodoOK(todo, selected, predictions)
      /\ BufferOK(buffer, rows, todo, model)
  BY DEF EvaluationInv, TypeOK, Record
<1>2. Head(todo) = e /\ e \in Examples /\ 1 \in 1..Len(todo) /\ Len(todo) \in Nat
  BY <1>1
<1>3. k \in 1..Len(Questions[e]) /\ Len(buffer) \in Nat /\ Len(rows) \in Nat
  BY <1>1, <1>2, QuestionsArePositions
<1>4. row \in Rows /\ row.ex = e /\ row.q = Questions[e][k]
  BY <1>1, <1>2, <1>3, AnswerIsRow
<1>5. /\ rows' = Append(rows, row) /\ buffer' = Append(buffer, row)
      /\ UNCHANGED <<config, predictions, report, pc, selected, model, saved, todo, spoiled, starts, mishaps, upgrades>>
  BY <1>2 DEF Record, counters
<1> HIDE DEF e, k, row
<1>6. /\ rows' \in Seq(Rows) /\ Len(rows') = Len(rows) + 1 /\ rows'[Len(rows) + 1] = row
      /\ \A i \in 1..Len(rows) : rows'[i] = rows[i]
  <2> DEFINE t == Append(rows, row)
  <2>1. /\ t \in Seq(Rows) /\ Len(t) = Len(rows) + 1 /\ t[Len(rows) + 1] = row
        /\ \A i \in 1..Len(rows) : t[i] = rows[i]
    BY <1>1, <1>4, AppendReads
  <2> HIDE DEF t
  <2> QED
    BY <1>5, <2>1 DEF t
<1>7. /\ buffer' \in Seq(Rows) /\ Len(buffer') = Len(buffer) + 1 /\ buffer'[Len(buffer) + 1] = row
      /\ \A i \in 1..Len(buffer) : buffer'[i] = buffer[i]
  <2> DEFINE t == Append(buffer, row)
  <2>1. /\ t \in Seq(Rows) /\ Len(t) = Len(buffer) + 1 /\ t[Len(buffer) + 1] = row
        /\ \A i \in 1..Len(buffer) : t[i] = buffer[i]
    BY <1>1, <1>4, AppendReads
  <2> HIDE DEF t
  <2> QED
    BY <1>5, <2>1 DEF t
<1>8. \A j \in 1..Len(rows) : ~(rows[j].ex = e /\ rows[j].q = Questions[e][k])
  <2> SUFFICES ASSUME NEW j \in 1..Len(rows), rows[j].ex = e, rows[j].q = Questions[e][k]
               PROVE  FALSE
    OBVIOUS
  <2>1. PICK l \in 1..Len(buffer) : rows[j] = buffer[l]
    BY <1>1, <1>2 DEF BufferOK, e
  <2>2. buffer[l] = [ex |-> todo[1], q |-> Questions[todo[1]][l], config |-> model]
    BY <1>1 DEF BufferOK
  <2>3. rows[j].q = Questions[e][l]
    BY <2>1, <2>2 DEF e
  <2>4. l \in 1..Len(Questions[e]) /\ l # k
    BY <1>1, <1>2, <1>3, QuestionsArePositions DEF k
  <2> QED
    BY <1>2, <1>3, <2>3, <2>4, QuestionsArePositions
<1>9. MemoryOK(rows', selected', spoiled', todo')
  <2>1. \A i \in 1..Len(rows') : i \in 1..Len(rows) \/ i = Len(rows) + 1
    BY <1>3, <1>6
  <2>2. Distinct(rows')
    <3>1. Distinct(rows)
      BY <1>1 DEF MemoryOK
    <3> QED
      BY <1>4, <1>6, <1>8, <2>1, <3>1 DEF Distinct
  <2>3. ExamplesOf(rows') \subseteq selected
    <3>1. ExamplesOf(rows) \subseteq selected /\ e \in selected
      BY <1>1, <1>2 DEF MemoryOK, TodoOK, e
    <3> QED
      BY <1>4, <1>6, <2>1, <3>1 DEF ExamplesOf
  <2>4. ASSUME NEW x, Answered(rows, x)
        PROVE  Answered(rows', x)
    <3>1. \A i \in 1..Len(rows) : i \in 1..Len(rows') /\ rows'[i] = rows[i]
      BY <1>3, <1>6
    <3> QED
      BY <2>4, <3>1 DEF Answered
  <2> QED
    BY <1>1, <1>5, <2>2, <2>3, <2>4 DEF MemoryOK
<1>10. BufferOK(buffer', rows', todo', model')
  <2>1. Len(buffer') <= Len(Questions[todo[1]])
    BY <1>3, <1>7 DEF k, e
  <2>2. \A i \in 1..Len(buffer') : i \in 1..Len(buffer) \/ i = Len(buffer) + 1
    BY <1>3, <1>7
  <2>3. \A i \in 1..Len(rows') : i \in 1..Len(rows) \/ i = Len(rows) + 1
    BY <1>3, <1>6
  <2>4. /\ \A i \in 1..Len(buffer) : i \in 1..Len(buffer')
        /\ \A i \in 1..Len(rows) : i \in 1..Len(rows')
        /\ Len(buffer) + 1 \in 1..Len(buffer') /\ Len(rows) + 1 \in 1..Len(rows')
    BY <1>3, <1>6, <1>7
  <2>5. ASSUME NEW l \in 1..Len(buffer')
        PROVE  /\ buffer'[l] = [ex |-> todo[1], q |-> Questions[todo[1]][l], config |-> model]
               /\ \E j \in 1..Len(rows') : rows'[j] = buffer'[l]
    <3>1. CASE l \in 1..Len(buffer)
      <4>1. buffer[l] = [ex |-> todo[1], q |-> Questions[todo[1]][l], config |-> model]
        BY <1>1, <3>1 DEF BufferOK
      <4>2. PICK j \in 1..Len(rows) : rows[j] = buffer[l]
        BY <1>1, <3>1 DEF BufferOK
      <4> QED
        BY <1>6, <1>7, <2>4, <3>1, <4>1, <4>2
    <3>2. CASE l = Len(buffer) + 1
      <4>1. buffer'[l] = row /\ rows'[Len(rows) + 1] = row
        BY <1>6, <1>7, <3>2
      <4>2. row = [ex |-> todo[1], q |-> Questions[todo[1]][l], config |-> model]
        BY <3>2 DEF row, e, k
      <4> QED
        BY <2>4, <4>1, <4>2
    <3> QED
      BY <2>2, <3>1, <3>2
  <2>6. ASSUME NEW j \in 1..Len(rows'), NEW i \in 1..Len(todo), rows'[j].ex = todo[i]
        PROVE  i = 1 /\ \E l \in 1..Len(buffer') : rows'[j] = buffer'[l]
    <3>1. CASE j \in 1..Len(rows)
      <4>1. rows[j].ex = todo[i]
        BY <1>6, <2>6, <3>1
      <4>2. i = 1 /\ \E l \in 1..Len(buffer) : rows[j] = buffer[l]
        BY <1>1, <3>1, <4>1 DEF BufferOK
      <4> QED
        BY <1>6, <1>7, <2>4, <3>1, <4>2
    <3>2. CASE j = Len(rows) + 1
      <4>1. rows'[j] = row /\ buffer'[Len(buffer) + 1] = row
        BY <1>6, <1>7, <3>2
      <4>2. todo[i] = todo[1]
        BY <1>4, <2>6, <4>1 DEF e
      <4>3. i = 1
        BY <1>1, <1>2, <4>2 DEF TodoOK
      <4> QED
        BY <2>4, <4>1, <4>3
    <3> QED
      BY <2>3, <3>1, <3>2
  <2> QED
    BY <1>5, <2>1, <2>5, <2>6 DEF BufferOK
<1>11. TypeOK'
  <2>1. \A i \in 1..Len(buffer') : buffer'[i].ex = Head(todo)
    <3>1. \A i \in 1..Len(buffer) : buffer[i].ex = Head(todo)
      BY <1>1 DEF EvaluationInv, TypeOK
    <3>2. \A i \in 1..Len(buffer') : i \in 1..Len(buffer) \/ i = Len(buffer) + 1
      BY <1>3, <1>7
    <3> QED
      BY <1>2, <1>4, <1>7, <3>1, <3>2
  <2> QED
    BY <1>1, <1>5, <1>6, <1>7, <2>1 DEF EvaluationInv, TypeOK
<1>12. FileOK(predictions', spoiled') /\ TodoOK(todo', selected', predictions') /\ WrittenOK'
  BY <1>1, <1>5 DEF EvaluationInv, WrittenOK
<1> QED
  BY <1>9, <1>10, <1>11, <1>12 DEF EvaluationInv

(* What a whole request adds to a closed file leaves nothing in part.      *)
LEMMA WholeRequestFits ==
  ASSUME NEW s \in Seq(Rows), NEW b \in Seq(Rows), NEW e \in Examples,
         \A k \in 1..Len(b) : b[k].ex = e,
         \A k \in 1..Len(Questions[e]) : k \in 1..Len(b) /\ b[k].q = Questions[e][k]
  PROVE  InPart(s \o b) \subseteq InPart(s)
<1> DEFINE t == s \o b
<1>1. /\ t \in Seq(Rows) /\ Len(s) \in Nat /\ Len(b) \in Nat /\ Len(t) = Len(s) + Len(b)
      /\ \A i \in 1..Len(s) : t[i] = s[i]
      /\ \A i \in 1..Len(b) : t[Len(s) + i] = b[i]
  BY ConcatReads
<1> HIDE DEF t
<1>2. \A i \in 1..Len(s) : i \in 1..Len(t)
  BY <1>1
<1>3. \A i \in 1..Len(b) : Len(s) + i \in 1..Len(t)
  BY <1>1
<1> SUFFICES ASSUME NEW x \in InPart(t)
             PROVE  x \in InPart(s)
  BY DEF t
<1>4. PICK q \in Range(Questions[x]) : \A i \in 1..Len(t) : t[i].ex = x => t[i].q # q
  BY DEF InPart
<1>5. x # e
  <2>0. \A p \in Range(Questions[e]) : \E k \in 1..Len(Questions[e]) : p = Questions[e][k]
    BY QuestionsArePositions
  <2> SUFFICES ASSUME x = e
               PROVE  FALSE
    OBVIOUS
  <2>1. PICK k \in 1..Len(Questions[e]) : q = Questions[e][k]
    <3>1. q \in Range(Questions[e])
      BY <1>4
    <3> QED
      BY <2>0, <3>1
  <2>2. b[k].ex = e /\ b[k].q = q /\ t[Len(s) + k] = b[k] /\ Len(s) + k \in 1..Len(t)
    BY <1>1, <1>3, <2>1
  <2> QED
    BY <1>4, <2>2
<1>6. PICK i \in 1..Len(t) : t[i].ex = x
  BY DEF InPart, ExamplesOf
<1>7. i \in 1..Len(s)
  <2> SUFFICES ASSUME i \notin 1..Len(s)
               PROVE  FALSE
    OBVIOUS
  <2>1. i - Len(s) \in 1..Len(b) /\ Len(s) + (i - Len(s)) = i
    BY <1>1
  <2>2. t[i] = b[i - Len(s)] /\ b[i - Len(s)].ex = e
    BY <1>1, <2>1
  <2> QED
    BY <1>5, <1>6, <2>2
<1>8. x \in ExamplesOf(s)
  BY <1>1, <1>6, <1>7 DEF ExamplesOf
<1>9. \A l \in 1..Len(s) : s[l].ex = x => s[l].q # q
  BY <1>1, <1>2, <1>4
<1> QED
  BY <1>4, <1>8, <1>9 DEF InPart

(* Writing the buffer keeps the invariant and costs one row at most.       *)
LEMMA FlushKeeps ==
  ASSUME EvaluationInv, Flush
  PROVE  /\ EvaluationInv'
         /\ Len(predictions'.rows) >= Len(predictions.rows) - 1
<1> DEFINE e == todo[1]
           s == predictions.rows
           t == predictions'.rows
<1>1. /\ rows \in Seq(Rows) /\ buffer \in Seq(Rows) /\ todo \in Seq(Examples) /\ model \in Configs
      /\ predictions \in Files(Rows) /\ spoiled \in SUBSET Examples
      /\ pc = "evaluating" /\ todo # <<>> /\ Len(buffer) = Len(Questions[Head(todo)])
      /\ MemoryOK(rows, selected, spoiled, todo) /\ TodoOK(todo, selected, predictions)
      /\ BufferOK(buffer, rows, todo, model) /\ FileOK(predictions, spoiled)
  BY DEF EvaluationInv, TypeOK, Flush
<1>2. Head(todo) = e /\ e \in Examples /\ 1 \in 1..Len(todo) /\ Len(todo) \in Nat \ {0}
  BY <1>1
<1>3. /\ predictions' = Flushed(predictions, buffer) /\ buffer' = <<>> /\ todo' = Tail(todo)
      /\ spoiled' = IF predictions.end = "closed" THEN spoiled ELSE spoiled \cup InPart(predictions'.rows)
      /\ UNCHANGED <<config, report, pc, selected, model, saved, rows, starts, mishaps, upgrades>>
  BY DEF Flush, counters
<1>4. /\ predictions' \in Files(Rows)
      /\ \E m, j \in Nat : Continues(t, s, m, buffer, j)
      /\ predictions.end = "closed" => t = s \o buffer
  <2> DEFINE g == Flushed(predictions, buffer)
  <2>1. /\ g \in Files(Rows)
        /\ \E m, j \in Nat : Continues(g.rows, s, m, buffer, j) /\ j + (Len(g.rows) - m) = Len(buffer)
        /\ predictions.end = "closed" => g.rows = s \o buffer
    BY <1>1, FlushedReads
  <2> HIDE DEF g
  <2> QED
    BY <1>3, <2>1 DEF g
<1>5. s \in Seq(Rows) /\ t \in Seq(Rows) /\ Len(s) \in Nat /\ Len(t) \in Nat
  BY <1>1, <1>4, FileParts
<1>6. PICK m \in Nat, j \in Nat : Continues(t, s, m, buffer, j)
  BY <1>4
<1>7. /\ \A k \in 1..Len(buffer) : buffer[k].ex = e
      /\ \A k \in 1..Len(Questions[e]) : k \in 1..Len(buffer) /\ buffer[k].q = Questions[e][k]
  <2>1. \A k \in 1..Len(buffer) : buffer[k].ex = e /\ buffer[k].q = Questions[e][k]
    <3> TAKE k \in 1..Len(buffer)
    <3>1. buffer[k] = [ex |-> todo[1], q |-> Questions[todo[1]][k], config |-> model]
      BY <1>1 DEF BufferOK
    <3> QED
      BY <3>1
  <2>2. Len(buffer) = Len(Questions[e])
    BY <1>1, <1>2
  <2> QED
    BY <2>1, <2>2
<1> HIDE DEF e, s, t
<1>8. FileOK(predictions', spoiled')
  <2>1. Distinct(t)
    <3>1. /\ Distinct(buffer)
          /\ \A k \in 1..Len(s), l \in 1..Len(buffer) : ~(s[k].ex = buffer[l].ex /\ s[k].q = buffer[l].q)
      BY BufferIsNew DEF s
    <3>2. Distinct(s)
      BY <1>1 DEF FileOK, s
    <3> QED
      BY <1>1, <1>5, <1>6, <3>1, <3>2, ContinuedIsDistinct
  <2>2. InPart(t) \subseteq spoiled'
    <3>1. CASE predictions.end = "closed"
      <4>1. t = s \o buffer /\ spoiled' = spoiled
        BY <1>3, <1>4, <3>1
      <4>2. InPart(s) \subseteq spoiled
        BY <1>1 DEF FileOK, s
      <4>3. InPart(s \o buffer) \subseteq InPart(s)
        BY <1>1, <1>2, <1>5, <1>7, WholeRequestFits
      <4> QED
        BY <4>1, <4>2, <4>3
    <3>2. CASE predictions.end # "closed"
      BY <1>3, <3>2 DEF t
    <3> QED
      BY <3>1, <3>2
  <2> QED
    BY <2>1, <2>2 DEF FileOK, t
<1>9. spoiled \subseteq spoiled' /\ spoiled' \in SUBSET Examples
  <2>1. InPart(t) \subseteq Examples
    <3>1. \A i \in 1..Len(t) : t[i] \in Rows
      BY <1>5
    <3> QED
      BY <3>1, RowParts DEF InPart, ExamplesOf
  <2> QED
    BY <1>1, <1>3, <2>1 DEF t
<1>10. /\ todo' \in Seq(Examples) /\ Len(todo') = Len(todo) - 1
       /\ \A i \in 1..Len(todo') : todo'[i] = todo[i + 1] /\ i + 1 \in 1..Len(todo) /\ i + 1 # 1
  BY <1>1, <1>2, <1>3, RestReads
<1>11. ExamplesOf(t) \subseteq ExamplesOf(s) \cup {e}
  <2>1. ExamplesOf(t) \subseteq ExamplesOf(s) \cup ExamplesOf(buffer)
    BY <1>1, <1>5, <1>6, ContinuedExamples
  <2>2. ExamplesOf(buffer) \subseteq {e}
    BY <1>7 DEF ExamplesOf
  <2> QED
    BY <2>1, <2>2
<1>12. \A i \in 1..Len(todo') : todo'[i] # e
  <2> TAKE i \in 1..Len(todo')
  <2>1. todo'[i] = todo[i + 1] /\ i + 1 \in 1..Len(todo) /\ i + 1 # 1
    BY <1>10
  <2> QED
    BY <1>1, <1>2, <2>1 DEF TodoOK, e
<1>13. TodoOK(todo', selected', predictions')
  <2>1. ASSUME NEW i \in 1..Len(todo')
        PROVE  todo'[i] \in selected /\ todo'[i] \notin ExamplesOf(t)
    <3>1. todo[i + 1] \in selected /\ todo[i + 1] \notin ExamplesOf(s)
      BY <1>1, <1>10 DEF TodoOK, s
    <3> QED
      BY <1>10, <1>11, <1>12, <3>1
  <2>2. ASSUME NEW i \in 1..Len(todo'), NEW l \in 1..Len(todo'), todo'[i] = todo'[l]
        PROVE  i = l
    <3>1. i + 1 = l + 1
      BY <1>1, <1>10, <2>2 DEF TodoOK
    <3> QED
      BY <3>1
  <2> QED
    BY <1>3, <2>1, <2>2 DEF TodoOK, t
<1>14. BufferOK(buffer', rows', todo', model')
  <2>1. buffer' = <<>> /\ Len(buffer') = 0
    BY <1>3
  <2>2. todo' # <<>> => 0 <= Len(Questions[todo'[1]])
    <3>1. todo' # <<>> => todo'[1] \in Examples
      BY <1>10
    <3> QED
      BY <3>1, QuestionsArePositions
  <2>3. ASSUME NEW i \in 1..Len(todo'), NEW l \in 1..Len(rows), rows[l].ex = todo'[i]
        PROVE  FALSE
    <3>1. rows[l].ex = todo[i + 1] /\ i + 1 \in 1..Len(todo) /\ i + 1 # 1
      BY <1>10, <2>3
    <3> QED
      BY <1>1, <3>1 DEF BufferOK
  <2> QED
    BY <1>3, <2>1, <2>2, <2>3 DEF BufferOK
<1>15. MemoryOK(rows', selected', spoiled', todo')
  <2>1. ASSUME NEW x \in selected \ spoiled', \A i \in 1..Len(todo') : todo'[i] # x
        PROVE  Answered(rows, x)
    <3>1. CASE x = e
      <4>1. ASSUME NEW q \in Range(Questions[e])
            PROVE  \E i \in 1..Len(rows) : rows[i].ex = e /\ rows[i].q = q
        <5>0. \A p \in Range(Questions[e]) : \E k \in 1..Len(Questions[e]) : p = Questions[e][k]
          BY <1>2, QuestionsArePositions
        <5>1. PICK k \in 1..Len(Questions[e]) : q = Questions[e][k]
          BY <5>0
        <5>2. k \in 1..Len(buffer) /\ buffer[k].ex = e /\ buffer[k].q = q
          BY <1>7, <5>1
        <5> QED
          BY <1>1, <5>2 DEF BufferOK
      <4> QED
        BY <3>1, <4>1 DEF Answered
    <3>2. CASE x # e
      <4>1. ASSUME NEW i \in 1..Len(todo)
            PROVE  todo[i] # x
        <5>1. CASE i = 1
          BY <3>2, <5>1 DEF e
        <5>2. CASE i # 1
          <6>1. i - 1 \in 1..Len(todo') /\ (i - 1) + 1 = i
            BY <1>2, <1>10, <5>2
          <6> QED
            BY <1>10, <2>1, <6>1
        <5> QED
          BY <5>1, <5>2
      <4> QED
        BY <1>1, <1>9, <2>1, <4>1 DEF MemoryOK
    <3> QED
      BY <3>1, <3>2
  <2> QED
    BY <1>1, <1>3, <2>1 DEF MemoryOK
<1>16. TypeOK'
  <2>1. buffer' \in Seq(Rows) /\ buffer' = <<>>
    BY <1>3
  <2> QED
    BY <1>1, <1>3, <1>4, <1>9, <1>10, <2>1 DEF EvaluationInv, TypeOK
<1>17. WrittenOK'
  BY <1>1, <1>3 DEF WrittenOK
<1>18. Len(t) >= Len(s) - 1
  BY <1>5, <1>6 DEF Continues
<1> QED
  BY <1>8, <1>13, <1>14, <1>15, <1>16, <1>17, <1>18 DEF EvaluationInv, s, t

(* Emptying the file for the rewriting keeps the invariant: the memory     *)
(* has all of it.                                                          *)
LEMMA BeginRewriteKeeps ==
  ASSUME EvaluationInv, BeginRewrite
  PROVE  EvaluationInv'
<1>1. /\ pc = "evaluating" /\ todo = <<>> /\ pc' = "rewriting" /\ predictions' = EmptyFile
      /\ UNCHANGED <<config, report, selected, model, saved, todo, rows, buffer, spoiled, starts, mishaps, upgrades>>
  BY DEF BeginRewrite, locals, counters
<1>2. FileOK(predictions', spoiled') /\ predictions' \in Files(Rows)
  <2>1. EmptyFile \in Files(Rows)
    BY DEF EmptyFile, Files, Ends
  <2> QED
    BY <1>1, <2>1, EmptyFileIsOK
<1>3. MemoryOK(rows', selected', spoiled', todo')
  BY <1>1 DEF EvaluationInv
<1>4. TypeOK'
  BY <1>1, <1>2 DEF EvaluationInv, TypeOK
<1>5. WrittenOK'
  BY <1>1 DEF WrittenOK
<1> QED
  BY <1>1, <1>2, <1>3, <1>4, <1>5 DEF EvaluationInv

(* The rewritten file is the memory.                                       *)
LEMMA EndRewriteKeeps ==
  ASSUME EvaluationInv, EndRewrite
  PROVE  /\ EvaluationInv'
         /\ Len(predictions'.rows) >= Len(predictions.rows) - 1
<1>1. /\ pc = "rewriting" /\ pc' = "reporting" /\ predictions' = Flushed(predictions, rows)
      /\ UNCHANGED <<config, report, selected, model, saved, todo, rows, buffer, spoiled, starts, mishaps, upgrades>>
  BY DEF EndRewrite, locals, counters
<1>2. /\ todo = <<>> /\ predictions = EmptyFile /\ rows \in Seq(Rows)
      /\ MemoryOK(rows, selected, spoiled, todo) /\ TypeOK
  BY <1>1 DEF EvaluationInv, WrittenOK, TypeOK
<1>3. predictions' = [rows |-> rows, end |-> "closed"]
  BY <1>1, <1>2, RewrittenReads
<1>4. predictions'.rows = rows /\ predictions' \in Files(Rows)
  BY <1>2, <1>3 DEF Files, Ends
<1>5. FileOK(predictions', spoiled')
  <2>1. InPart(rows) \subseteq spoiled
    <3> SUFFICES ASSUME NEW x \in InPart(rows), x \notin spoiled
                 PROVE  FALSE
      OBVIOUS
    <3>1. x \in selected
      BY <1>2 DEF InPart, MemoryOK
    <3>2. Answered(rows, x)
      BY <1>2, <3>1 DEF MemoryOK
    <3> QED
      BY <3>2 DEF InPart, Answered
  <2> QED
    BY <1>1, <1>2, <1>4, <2>1 DEF FileOK, MemoryOK
<1>6. TypeOK'
  BY <1>1, <1>2, <1>4 DEF TypeOK
<1>7. WrittenOK'
  BY <1>1, <1>2, <1>3 DEF WrittenOK
<1>8. MemoryOK(rows', selected', spoiled', todo')
  BY <1>1, <1>2
<1>9. Len(rows) >= Len(predictions.rows) - 1
  BY <1>2 DEF EmptyFile
<1> QED
  BY <1>1, <1>4, <1>5, <1>6, <1>7, <1>8, <1>9 DEF EvaluationInv

(* The report is written of the memory, which is the file.                 *)
LEMMA ReportingKeeps ==
  ASSUME EvaluationInv, BeginReport \/ EndReport
  PROVE  EvaluationInv'
<1>1. /\ UNCHANGED <<config, predictions, selected, model, saved, todo, rows, buffer, spoiled, starts, mishaps, upgrades>>
      /\ \/ pc = "reporting" /\ pc' = "closing" /\ report' = NoReport
         \/ pc = "closing" /\ pc' = "done" /\ report' = [config |-> model, selected |-> selected, rows |-> rows]
  BY DEF BeginReport, EndReport, locals, counters
<1>2. TypeOK
  BY DEF EvaluationInv
<1>3. report' \in Reports \cup {NoReport} /\ (pc' = "done" => report'.rows = rows)
  BY <1>1, <1>2 DEF TypeOK, Reports
<1>4. TypeOK'
  BY <1>1, <1>2, <1>3 DEF TypeOK
<1>5. WrittenOK'
  BY <1>1, <1>3 DEF EvaluationInv, WrittenOK
<1>6. FileOK(predictions', spoiled') /\ MemoryOK(rows', selected', spoiled', todo')
  BY <1>1 DEF EvaluationInv
<1> QED
  BY <1>1, <1>4, <1>5, <1>6 DEF EvaluationInv

(* A kill keeps the invariant and costs one row at most.                   *)
LEMMA DieKeeps ==
  ASSUME EvaluationInv, Die
  PROVE  /\ EvaluationInv'
         /\ Len(predictions'.rows) >= Len(predictions.rows) - 1
<1> DEFINE b == IF pc = "rewriting" THEN rows ELSE buffer
           s == predictions.rows
           t == predictions'.rows
<1>1. /\ pc' = "idle" /\ predictions' \in Survivors(predictions, b) /\ buffer' = <<>>
      /\ spoiled' = spoiled \cup InPart(predictions'.rows) /\ mishaps < MaxMishaps /\ mishaps' = mishaps + 1
      /\ UNCHANGED <<config, report, selected, model, saved, todo, rows, starts, upgrades>>
  BY DEF Die, locals
<1>2. TypeOK /\ FileOK(predictions, spoiled) /\ predictions \in Files(Rows) /\ b \in Seq(Rows)
  BY DEF EvaluationInv, TypeOK
<1>3. /\ Distinct(b)
      /\ \A k \in 1..Len(s), l \in 1..Len(b) : ~(s[k].ex = b[l].ex /\ s[k].q = b[l].q)
  <2>1. CASE pc = "rewriting"
    <3>1. Distinct(rows) /\ predictions.rows = <<>>
      BY <2>1 DEF EvaluationInv, WrittenOK, MemoryOK, EmptyFile
    <3> QED
      BY <2>1, <3>1
  <2>2. CASE pc # "rewriting"
    BY <2>2, BufferIsNew
  <2> QED
    BY <2>1, <2>2
<1> HIDE DEF b
<1>4. predictions' \in Files(Rows) /\ \E m, j \in Nat : Continues(t, s, m, b, j)
  BY <1>1, <1>2, SurvivorsRead
<1>5. s \in Seq(Rows) /\ t \in Seq(Rows) /\ Len(s) \in Nat /\ Len(t) \in Nat
  BY <1>2, <1>4, FileParts
<1>6. PICK m \in Nat, j \in Nat : Continues(t, s, m, b, j)
  BY <1>4
<1> HIDE DEF s, t
<1>7. Distinct(t)
  BY <1>2, <1>3, <1>5, <1>6, ContinuedIsDistinct DEF FileOK, s
<1>8. FileOK(predictions', spoiled')
  BY <1>1, <1>7 DEF FileOK, t
<1>9. spoiled' \in SUBSET Examples
  <2>1. InPart(t) \subseteq Examples
    <3>1. \A i \in 1..Len(t) : t[i] \in Rows
      BY <1>5
    <3> QED
      BY <3>1, RowParts DEF InPart, ExamplesOf
  <2> QED
    BY <1>1, <1>2, <2>1 DEF t, TypeOK
<1>10. mishaps' \in 0..MaxMishaps
  <2>1. mishaps \in 0..MaxMishaps /\ MaxMishaps \in Nat
    BY <1>2, EvaluationAssumption DEF TypeOK
  <2> QED
    BY <1>1, <2>1
<1>11. buffer' \in Seq(Rows)
  BY <1>1
<1>12. TypeOK'
  BY <1>1, <1>2, <1>4, <1>9, <1>10, <1>11 DEF TypeOK
<1>13. WrittenOK'
  BY <1>1 DEF WrittenOK
<1>14. Len(t) >= Len(s) - 1
  BY <1>5, <1>6 DEF Continues
<1> QED
  BY <1>1, <1>8, <1>12, <1>13, <1>14 DEF EvaluationInv, s, t

(* Another model changes no file.                                          *)
LEMMA UpgradeKeeps ==
  ASSUME EvaluationInv, Upgrade
  PROVE  EvaluationInv'
<1>1. /\ upgrades < MaxUpgrades /\ upgrades' = upgrades + 1 /\ config' \in Configs
      /\ UNCHANGED <<predictions, report, pc, selected, model, saved, todo, rows, buffer, spoiled, starts, mishaps>>
  BY DEF Upgrade, locals
<1>2. TypeOK /\ upgrades \in 0..MaxUpgrades /\ MaxUpgrades \in Nat
  BY EvaluationAssumption DEF EvaluationInv, TypeOK
<1>3. upgrades' \in 0..MaxUpgrades
  BY <1>1, <1>2
<1>4. TypeOK'
  BY <1>1, <1>2, <1>3 DEF TypeOK
<1>5. WrittenOK'
  BY <1>1 DEF EvaluationInv, WrittenOK
<1>6. /\ FileOK(predictions', spoiled')
      /\ pc' # "idle" => MemoryOK(rows', selected', spoiled', todo')
      /\ pc' = "evaluating" => TodoOK(todo', selected', predictions') /\ BufferOK(buffer', rows', todo', model')
  BY <1>1 DEF EvaluationInv
<1> QED
  BY <1>4, <1>5, <1>6 DEF EvaluationInv

(* Steps of the readers change nothing the invariant is about.             *)
LEMMA StutterKeeps ==
  ASSUME EvaluationInv, UNCHANGED vars
  PROVE  EvaluationInv'
<1>1. UNCHANGED <<config, predictions, report, pc, selected, model, saved, todo, rows, buffer, spoiled, starts, mishaps, upgrades>>
  BY DEF vars, locals, counters
<1>2. TypeOK'
  BY <1>1 DEF EvaluationInv, TypeOK
<1>3. WrittenOK'
  BY <1>1 DEF EvaluationInv, WrittenOK
<1>4. /\ FileOK(predictions', spoiled')
      /\ pc' # "idle" => MemoryOK(rows', selected', spoiled', todo')
      /\ pc' = "evaluating" => TodoOK(todo', selected', predictions') /\ BufferOK(buffer', rows', todo', model')
  BY <1>1 DEF EvaluationInv
<1> QED
  BY <1>2, <1>3, <1>4 DEF EvaluationInv

-----------------------------------------------------------------------------
(* The loop with its readers.                                              *)

(* What can be selected are examples.                                      *)
LEMMA SelectionsAreExamples ==
  ASSUME NEW S \in Selections
  PROVE  S \in SUBSET Examples
BY EvaluationAssumption

(* The loop begins in the invariant.                                       *)
LEMMA InitiallyInv == LoopInit => LoopInv
<1> SUFFICES ASSUME LoopInit
             PROVE  LoopInv
  OBVIOUS
<1>1. EmptyFile \in Files(Rows)
  BY DEF EmptyFile, Files, Ends
<1>2. <<>> \in Seq(Rows) /\ <<>> \in Seq(Examples) /\ {} \in SUBSET Examples
  OBVIOUS
<1>3. 0 \in 0..MaxStarts /\ 0 \in 0..MaxMishaps /\ 0 \in 0..MaxUpgrades /\ 0 \in 0..MaxReviews
  BY EvaluationAssumption, QualityAssumption
<1>4. TypeOK
  BY <1>1, <1>2, <1>3 DEF LoopInit, Init, TypeOK
<1>5. FileOK(predictions, spoiled) /\ WrittenOK /\ pc = "idle"
  BY EmptyFileIsOK DEF LoopInit, Init, WrittenOK
<1>6. EvaluationInv
  BY <1>4, <1>5 DEF EvaluationInv
<1>7. LoopTypeOK /\ OnlyErrorsAreQuarantined
  BY <1>3, <1>4 DEF LoopInit, LoopTypeOK, OnlyErrorsAreQuarantined
<1> QED
  BY <1>6, <1>7 DEF LoopInv

(* Each step of the loop is one of an evaluation or leaves it alone.       *)
LEMMA EvaluationKeeps ==
  ASSUME EvaluationInv, [LoopNext]_allVars
  PROVE  EvaluationInv'
<1>1. ASSUME NEW S \in Selections, NEW resume \in BOOLEAN, Start(S, resume)
      PROVE  EvaluationInv'
  BY <1>1, SelectionsAreExamples, StartKeeps
<1>2. ASSUME NEW S \in Selections, NEW resume \in BOOLEAN, StartExcluding(S, resume)
      PROVE  EvaluationInv'
  <2>1. S \ Excluded \in SUBSET Examples /\ Start(S \ Excluded, resume)
    BY <1>2, SelectionsAreExamples DEF StartExcluding
  <2> QED
    BY <2>1, StartKeeps
<1>3. ASSUME Next
      PROVE  EvaluationInv'
  BY <1>1, <1>3, RecordKeeps, FlushKeeps, BeginRewriteKeeps, EndRewriteKeeps, ReportingKeeps, DieKeeps, UpgradeKeeps
  DEF Next
<1>4. CASE UNCHANGED vars
  BY <1>4, StutterKeeps
<1>5. BeginAudit \/ EndAudit \/ LoseAudit \/ DriftCheck \/ UNCHANGED allVars => UNCHANGED vars
  BY DEF BeginAudit, EndAudit, LoseAudit, DriftCheck, allVars
<1> QED
  BY <1>2, <1>3, <1>4, <1>5 DEF LoopNext, Evaluation

(* The rows an audit takes are rows it was given.                          *)
LEMMA TakenReads ==
  ASSUME NEW S, NEW s \in Seq(S)
  PROVE  Taken(s) \in Seq(S) /\ Range(Taken(s)) \subseteq S
<1>1. AuditLimit \in Nat
  BY QualityAssumption
<1>2. Taken(s) \in Seq(S)
  <2>1. CASE AuditLimit # 0 /\ AuditLimit < Len(s)
    <3>1. SubSeq(s, 1, AuditLimit) \in Seq(S)
      BY <1>1, <2>1
    <3> QED
      BY <2>1, <3>1 DEF Taken
  <2>2. CASE ~(AuditLimit # 0 /\ AuditLimit < Len(s))
    BY <2>2 DEF Taken
  <2> QED
    BY <2>1, <2>2
<1> HIDE DEF Taken
<1> QED
  BY <1>2 DEF Range

(* An audit takes wrong rows for errors and right ones for control.        *)
LEMMA BeginAuditReads ==
  ASSUME TypeOK, BeginAudit
  PROVE  /\ audit' \in [errors : SUBSET Rows, control : SUBSET Rows]
         /\ \A r \in audit'.errors : ~Right(r)
         /\ \A r \in audit'.control : Right(r)
<1> DEFINE T == {r \in Rows : ~Right(r)}
           W == Where(predictions.rows, T)
           agreements == {r \in Range(predictions.rows) : Right(r)}
<1>1. predictions.rows \in Seq(Rows)
  <2>1. predictions \in Files(Rows)
    BY DEF TypeOK
  <2> QED
    BY <2>1, FileParts
<1>2. W \in Seq(Rows \cap T)
  <2> HIDE DEF T
  <2> QED
    BY <1>1, WhereElements
<1>3. Range(predictions.rows) \subseteq Rows
  BY <1>1 DEF Range
<1>4. \E control \in SUBSET agreements : audit' = [errors |-> Range(Taken(W)), control |-> control]
  BY DEF BeginAudit, kSubset
<1>5. PICK control \in SUBSET agreements : audit' = [errors |-> Range(Taken(W)), control |-> control]
  BY <1>4
<1> HIDE DEF W
<1>6. Range(Taken(W)) \subseteq Rows \cap T
  BY <1>2, TakenReads
<1> QED
  BY <1>3, <1>5, <1>6

(* What an audit puts in quarantine was wrong for some model.              *)
LEMMA EndAuditReads ==
  ASSUME LoopTypeOK, EndAudit
  PROVE  /\ artifact' \in SUBSET Decisions
         /\ \A d \in artifact' : \E c \in Configs : d \notin Correct[c]
         /\ heard' \in {"none", "silent", "judged"}
<1>1. /\ audit \in [errors : SUBSET Rows, control : SUBSET Rows]
      /\ \A r \in audit.errors : ~Right(r)
  BY DEF EndAudit, LoopTypeOK
<1>2. PICK recommended \in SUBSET audit.errors, answered \in SUBSET audit.control, disputed \in SUBSET audit.control :
        artifact' = Quarantine(recommended, disputed) /\ heard' = Heard(answered)
  <2>1. \E recommended \in SUBSET audit.errors, answered \in SUBSET audit.control :
        \E disputed \in SUBSET answered :
          artifact' = Quarantine(recommended, disputed) /\ heard' = Heard(answered)
    BY DEF EndAudit, Verdicts
  <2> QED
    BY <2>1
<1>3. artifact' \subseteq {DecisionOf(r) : r \in recommended}
  BY <1>2 DEF Quarantine
<1>4. ASSUME NEW d \in artifact'
      PROVE  d \in Decisions /\ \E c \in Configs : d \notin Correct[c]
  <2>1. PICK r \in audit.errors : d = DecisionOf(r)
    BY <1>3
  <2>2. r \in Rows /\ ~Right(r)
    BY <1>1, <2>1
  <2>3. r.config \in Configs /\ DecisionOf(r) \in Decisions
    BY <2>2, RowParts
  <2> QED
    BY <2>1, <2>2, <2>3 DEF Right
<1>5. heard' \in {"none", "silent", "judged"}
  BY <1>2 DEF Heard
<1> QED
  BY <1>4, <1>5

(* Every step keeps the invariant.                                         *)
LEMMA LoopKeeps ==
  ASSUME LoopInv, [LoopNext]_allVars
  PROVE  LoopInv'
<1>1. EvaluationInv' /\ TypeOK' /\ TypeOK
  BY EvaluationKeeps DEF LoopInv, EvaluationInv
<1>2. LoopTypeOK /\ OnlyErrorsAreQuarantined /\ reviews \in 0..MaxReviews /\ MaxReviews \in Nat
  BY QualityAssumption DEF LoopInv, LoopTypeOK
<1> SUFFICES LoopTypeOK' /\ OnlyErrorsAreQuarantined'
  BY <1>1 DEF LoopInv
<1>3. CASE BeginAudit
  <2>1. UNCHANGED <<artifact, heard, drift>> /\ reviews < MaxReviews /\ reviews' = reviews + 1
    BY <1>3 DEF BeginAudit
  <2>2. /\ audit' \in [errors : SUBSET Rows, control : SUBSET Rows]
        /\ \A r \in audit'.errors : ~Right(r)
        /\ \A r \in audit'.control : Right(r)
    BY <1>1, <1>3, BeginAuditReads
  <2>3. reviews' \in 0..MaxReviews
    BY <1>2, <2>1
  <2> QED
    BY <1>1, <1>2, <2>1, <2>2, <2>3 DEF LoopTypeOK, OnlyErrorsAreQuarantined, Right, DecisionOf
<1>4. CASE EndAudit
  <2>1. UNCHANGED <<drift, reviews>> /\ audit' = Idle
    BY <1>4 DEF EndAudit
  <2>2. /\ artifact' \in SUBSET Decisions
        /\ \A d \in artifact' : \E c \in Configs : d \notin Correct[c]
        /\ heard' \in {"none", "silent", "judged"}
    BY <1>2, <1>4, EndAuditReads
  <2> QED
    BY <1>1, <1>2, <2>1, <2>2 DEF LoopTypeOK, OnlyErrorsAreQuarantined
<1>5. CASE LoseAudit
  <2>1. UNCHANGED <<artifact, heard, drift, reviews>> /\ audit' = Idle
    BY <1>5 DEF LoseAudit
  <2> QED
    BY <1>1, <1>2, <2>1 DEF LoopTypeOK, OnlyErrorsAreQuarantined
<1>6. CASE DriftCheck
  <2>1. /\ UNCHANGED <<audit, artifact, heard>> /\ reviews < MaxReviews /\ reviews' = reviews + 1
        /\ drift' = [recalibrate |-> Alarm(AcceptedLines, Len(Lines)),
                     cause |-> pc # "done" \/ Alarm(TrulyAccepted, Len(Lines))]
    BY <1>6 DEF DriftCheck
  <2>2. Alarm(AcceptedLines, Len(Lines)) \in BOOLEAN /\ (pc # "done" \/ Alarm(TrulyAccepted, Len(Lines))) \in BOOLEAN
    BY DEF Alarm
  <2>3. drift' \in [recalibrate : BOOLEAN, cause : BOOLEAN]
    BY <2>1, <2>2, Zenon
  <2>4. reviews' \in 0..MaxReviews
    BY <1>2, <2>1
  <2> QED
    BY <1>1, <1>2, <2>1, <2>3, <2>4 DEF LoopTypeOK, OnlyErrorsAreQuarantined, Right, DecisionOf
<1>7. CASE UNCHANGED loopVars
  BY <1>1, <1>2, <1>7 DEF LoopTypeOK, OnlyErrorsAreQuarantined, Right, DecisionOf, loopVars
<1>8. CASE \E S \in Selections, resume \in BOOLEAN : StartExcluding(S, resume)
  BY <1>7, <1>8 DEF StartExcluding
<1>9. CASE UNCHANGED allVars
  BY <1>7, <1>9 DEF allVars
<1> QED
  BY <1>3, <1>4, <1>5, <1>6, <1>7, <1>8, <1>9 DEF LoopNext, Evaluation

(* No row is lost but the one a torn line is glued to.                     *)
LEMMA StepsLoseOneRow ==
  ASSUME LoopInv, [LoopNext]_allVars
  PROVE  [\/ \E S \in SUBSET Examples : Start(S, FALSE)
          \/ BeginRewrite
          \/ Len(predictions'.rows) >= Len(predictions.rows) - 1]_vars
<1>1. EvaluationInv /\ predictions \in Files(Rows)
  BY DEF LoopInv, EvaluationInv, TypeOK
<1>2. Len(predictions.rows) \in Nat
  BY <1>1, FileParts
<1>3. ASSUME predictions' = predictions
      PROVE  Len(predictions'.rows) >= Len(predictions.rows) - 1
  BY <1>2, <1>3
<1>4. ASSUME NEW S \in SUBSET Examples, Start(S, TRUE)
      PROVE  Len(predictions'.rows) >= Len(predictions.rows) - 1
  <2>1. predictions' = IF predictions.rows = <<>> THEN EmptyFile ELSE predictions
    BY <1>4, Zenon DEF Start, Opened
  <2>2. CASE predictions.rows = <<>>
    <3>1. predictions'.rows = <<>>
      BY <2>1, <2>2 DEF EmptyFile
    <3> QED
      BY <2>2, <3>1
  <2>3. CASE predictions.rows # <<>>
    BY <1>3, <2>1, <2>3
  <2> QED
    BY <2>2, <2>3
<1>5. ASSUME NEW S \in SUBSET Examples, NEW resume \in BOOLEAN, Start(S, resume)
      PROVE  Start(S, FALSE) \/ Len(predictions'.rows) >= Len(predictions.rows) - 1
  BY <1>4, <1>5
<1>6. CASE Next
  <2>1. Record \/ BeginReport \/ EndReport \/ Upgrade => predictions' = predictions
    BY DEF Record, BeginReport, EndReport, Upgrade
  <2>2. ASSUME NEW S \in Selections, NEW resume \in BOOLEAN, Start(S, resume)
        PROVE  Start(S, FALSE) \/ Len(predictions'.rows) >= Len(predictions.rows) - 1
    BY <1>5, <2>2, SelectionsAreExamples
  <2>3. ASSUME Flush \/ EndRewrite \/ Die
        PROVE  Len(predictions'.rows) >= Len(predictions.rows) - 1
    BY <1>1, <2>3, FlushKeeps, EndRewriteKeeps, DieKeeps
  <2> QED
    BY <1>3, <1>6, <2>1, <2>2, <2>3, SelectionsAreExamples DEF Next
<1>7. CASE \E S \in Selections, resume \in BOOLEAN : StartExcluding(S, resume)
  <2>1. PICK S \in Selections, resume \in BOOLEAN : StartExcluding(S, resume)
    BY <1>7
  <2>2. S \ Excluded \in SUBSET Examples /\ Start(S \ Excluded, resume)
    BY <2>1, SelectionsAreExamples DEF StartExcluding
  <2> QED
    BY <1>5, <2>2
<1>8. BeginAudit \/ EndAudit \/ LoseAudit \/ DriftCheck \/ UNCHANGED allVars => UNCHANGED vars
  BY DEF BeginAudit, EndAudit, LoseAudit, DriftCheck, allVars
<1> QED
  BY <1>6, <1>7, <1>8 DEF LoopNext, Evaluation

-----------------------------------------------------------------------------
(* The theorems.                                                           *)

(* The invariant holds for ever.                                           *)
LEMMA LoopIsInvariant == LoopSpec => []LoopInv
<1>1. LoopInit => LoopInv
  BY InitiallyInv
<1>2. LoopInv /\ [LoopNext]_allVars => LoopInv'
  BY LoopKeeps
<1> QED
  BY <1>1, <1>2, PTL DEF LoopSpec

(* The variables of the loop keep their types; the buffer holds answers    *)
(* about one example only, the one that is next to do, and is empty        *)
(* outside the loop over the examples; an audit asks about errors only.    *)
THEOREM LoopIsTyped == LoopSpec => []LoopTypeOK
<1>1. LoopInv => LoopTypeOK
  BY DEF LoopInv
<1> QED
  BY <1>1, LoopIsInvariant, PTL

(* In whatever order runs are killed, resumed with another selection or    *)
(* another model, or started anew, the predictions file of run_evaluation  *)
(* holds no decision twice, and a finished run has answered every question *)
(* of every selected example that no torn line had left in part.           *)
THEOREM DecisionsAreMadeOnce == LoopSpec => []EachDecisionOnce
<1>1. LoopInv => EachDecisionOnce
  <2> SUFFICES ASSUME LoopInv
               PROVE  EachDecisionOnce
    OBVIOUS
  <2>1. EvaluationInv
    BY DEF LoopInv
  <2>2. DecisionsAreDistinct
    BY <2>1 DEF EvaluationInv, FileOK, DecisionsAreDistinct
  <2>3. ASSUME pc = "done"
        PROVE  /\ ExamplesOf(report.rows) \subseteq selected
               /\ \A e \in selected \ spoiled : \A q \in Range(Questions[e]) :
                    \E r \in Range(report.rows) : r.ex = e /\ r.q = q
    <3>1. /\ MemoryOK(rows, selected, spoiled, todo) /\ todo = <<>> /\ report.rows = rows
          /\ rows \in Seq(Rows)
      BY <2>1, <2>3 DEF EvaluationInv, WrittenOK, TypeOK
    <3>2. \A i \in 1..Len(todo) : FALSE
      BY <3>1
    <3>3. \A e \in selected \ spoiled : Answered(rows, e)
      BY <3>1, <3>2 DEF MemoryOK
    <3>4. \A i \in 1..Len(rows) : rows[i] \in Range(rows)
      BY <3>1 DEF Range
    <3> QED
      BY <3>1, <3>3, <3>4 DEF MemoryOK, Answered
  <2> QED
    BY <2>2, <2>3 DEF EachDecisionOnce, SuiteIsCovered
<1> QED
  BY <1>1, LoopIsInvariant, PTL

(* The report of a finished run is about the file beside it, row by row.   *)
THEOREM ReportsDescribeTheirFile == LoopSpec => []ReportDescribesFile
<1>1. LoopInv => ReportDescribesFile
  BY DEF LoopInv, EvaluationInv, WrittenOK, ReportDescribesFile
<1> QED
  BY <1>1, LoopIsInvariant, PTL

(* Whatever an audit of whatever state of the file ends with, a decision   *)
(* in quarantine is one that some model got wrong.                         *)
THEOREM QuarantineHoldsErrors == LoopSpec => []OnlyErrorsAreQuarantined
<1>1. LoopInv => OnlyErrorsAreQuarantined
  BY DEF LoopInv
<1> QED
  BY <1>1, LoopIsInvariant, PTL

(* A step of an evaluation, also one that dies with lines half-written,    *)
(* takes one row at most from the predictions file, unless it is a run     *)
(* without --resume or the last rewriting, which empty it.                 *)
THEOREM OneRowIsLostAtMost == LoopSpec => LosesOneRow
<1>1. LoopInv /\ [LoopNext]_allVars =>
        [\/ \E S \in SUBSET Examples : Start(S, FALSE)
         \/ BeginRewrite
         \/ Len(predictions'.rows) >= Len(predictions.rows) - 1]_vars
  BY StepsLoseOneRow
<1> QED
  BY <1>1, LoopIsInvariant, PTL DEF LoopSpec, LosesOneRow
================================================================================
