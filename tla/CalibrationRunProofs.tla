------------------------- MODULE CalibrationRunProofs -------------------------
(***************************************************************************)
(* Proofs about calibrations that are killed, started again and taken over *)
(* by a service, for every calibration split, every choice of workloads    *)
(* and any number of processes, kills and upgrades.                        *)
(***************************************************************************)
EXTENDS CalibrationRun, JsonLinesLemmas

-----------------------------------------------------------------------------
(* The operators.                                                          *)

(* Asking every question of an example measures it.                        *)
LEMMA MeasurementOfQuestion ==
  ASSUME NEW e \in Examples, NEW k \in 1..Len(Questions[e]), NEW c \in Configs
  PROVE  /\ [ex |-> e, q |-> Questions[e][k], config |-> c] \in Measurements
         /\ Questions[e][k] \in Range(Questions[e])
<1>1. Questions[e] \in Seq(Range(Questions[e])) \ {<<>>}
  BY CalibrationAssumption
<1>2. DOMAIN Questions[e] = 1..Len(Questions[e])
  BY <1>1
<1>3. Questions[e][k] \in Range(Questions[e])
  BY <1>2 DEF Range
<1> DEFINE asked == UNION {Range(Questions[x]) : x \in Examples}
<1>4. Questions[e][k] \in asked
  BY <1>3
<1> HIDE DEF asked
<1>5. [ex |-> e, q |-> Questions[e][k], config |-> c] \in [ex : Examples, q : asked, config : Configs]
  BY <1>4
<1> QED
  BY <1>3, <1>5 DEF Measurements, asked

(* The questions of an example are its positions.                          *)
LEMMA QuestionsArePositions ==
  ASSUME NEW e \in Examples
  PROVE  /\ Len(Questions[e]) \in Nat \ {0}
         /\ \A q \in Range(Questions[e]) : \E k \in 1..Len(Questions[e]) : q = Questions[e][k]
         /\ \A k, l \in 1..Len(Questions[e]) : Questions[e][k] = Questions[e][l] => k = l
<1>1. Questions[e] \in Seq(Range(Questions[e])) \ {<<>>} /\ IsInjective(Questions[e])
  BY CalibrationAssumption
<1>2. DOMAIN Questions[e] = 1..Len(Questions[e]) /\ Len(Questions[e]) \in Nat \ {0}
  BY <1>1
<1> QED
  BY <1>1, <1>2 DEF Range, IsInjective

(* The examples to do are those asked for, each once.                      *)
LEMMA TodoReads ==
  ASSUME NEW T
  PROVE  LET t == Where(Dataset, T) IN
         /\ t \in Seq(Examples)
         /\ \A k \in 1..Len(t) : t[k] \in T
         /\ \A k, l \in 1..Len(t) : t[k] = t[l] => k = l
         /\ \A e \in Examples \cap T : \E k \in 1..Len(t) : t[k] = e
<1> DEFINE t == Where(Dataset, T)
           at(k) == Nth(Positions(Dataset, T), k)
<1>0. Dataset \in Seq(Examples) /\ DOMAIN Dataset = 1..Len(Dataset)
  BY CalibrationAssumption
<1>1. /\ t \in Seq(Examples)
      /\ \A k \in 1..Len(t) : at(k) \in 1..Len(Dataset) /\ t[k] = Dataset[at(k)] /\ t[k] \in T
      /\ \A k, l \in 1..Len(t) : k < l => at(k) < at(l)
      /\ \A i \in 1..Len(Dataset) : Dataset[i] \in T => \E k \in 1..Len(t) : at(k) = i
  BY <1>0, WhereReads
<1> HIDE DEF t, at
<1>2. ASSUME NEW k \in 1..Len(t), NEW l \in 1..Len(t), t[k] = t[l]
      PROVE  k = l
  <2>1. at(k) = at(l)
    BY <1>0, <1>1, <1>2, CalibrationAssumption DEF IsInjective
  <2>2. at(k) \in Int /\ at(l) \in Int /\ k \in Int /\ l \in Int
    BY <1>1
  <2>3. ~(at(k) < at(l)) /\ ~(at(l) < at(k))
    BY <2>1, <2>2
  <2>4. ~(k < l) /\ ~(l < k)
    BY <1>1, <2>3
  <2> QED
    BY <2>2, <2>4
<1>3. ASSUME NEW e \in Examples \cap T
      PROVE  \E k \in 1..Len(t) : t[k] = e
  <2>1. PICK i \in 1..Len(Dataset) : Dataset[i] = e
    BY <1>0 DEF Examples, Range
  <2>2. PICK k \in 1..Len(t) : at(k) = i
    BY <1>1, <2>1
  <2> QED
    BY <1>1, <2>1, <2>2
<1> QED
  BY <1>1, <1>2, <1>3 DEF t

(* The rows about some workloads are those among the rows that are.        *)
LEMMA AboutReads ==
  ASSUME NEW s \in Seq(Measurements), NEW W
  PROVE  LET t == About(s, W) IN
         /\ t \in Seq(Measurements)
         /\ \A k \in 1..Len(t) : WorkloadOf[t[k].ex] \in W /\ \E i \in 1..Len(s) : t[k] = s[i]
         /\ \A i \in 1..Len(s) : WorkloadOf[s[i].ex] \in W => \E k \in 1..Len(t) : t[k] = s[i]
         /\ Distinct(s) => Distinct(t)
<1> DEFINE T == {m \in Measurements : WorkloadOf[m.ex] \in W}
           t == Where(s, T)
<1> HIDE DEF T
<1>1. /\ t \in Seq(Measurements \cap T)
      /\ \A k \in 1..Len(t) : t[k] \in T /\ \E i \in 1..Len(s) : t[k] = s[i]
      /\ \A i \in 1..Len(s) : s[i] \in T => \E k \in 1..Len(t) : t[k] = s[i]
  BY WhereElements
<1>2. t \in Seq(Measurements)
  BY WhereReads
<1>3. Distinct(s) => Distinct(t)
  BY WhereIsDistinct
<1>4. \A i \in 1..Len(s) : s[i] \in Measurements
  OBVIOUS
<1>5. About(s, W) = t
  BY DEF About, T
<1> HIDE DEF t
<1>6. /\ \A k \in 1..Len(t) : WorkloadOf[t[k].ex] \in W /\ \E i \in 1..Len(s) : t[k] = s[i]
      /\ \A i \in 1..Len(s) : WorkloadOf[s[i].ex] \in W => \E k \in 1..Len(t) : t[k] = s[i]
  BY <1>1, <1>4 DEF T
<1> QED
  BY <1>2, <1>3, <1>5, <1>6

(* What the rows of a file are about are examples.                         *)
LEMMA InPartIsExamples ==
  ASSUME NEW s \in Seq(Measurements)
  PROVE  ExamplesOf(s) \subseteq Examples /\ InPart(s) \subseteq Examples
<1>1. \A i \in 1..Len(s) : s[i] \in Measurements
  OBVIOUS
<1>2. \A m \in Measurements : m.ex \in Examples
  BY DEF Measurements
<1> QED
  BY <1>1, <1>2 DEF InPart, ExamplesOf

(* A profile whose writing was cut short.                                  *)
Cut(p) == [p EXCEPT !.metrics = "none", !.whole = FALSE]

(* What a profile says when it is written.                                 *)
LEMMA FittedReads ==
  ASSUME NEW r \in Runs, model[r] \in Configs, data[r] \in Seq(Measurements),
         NEW w \in Workloads, NEW met \in SUBSET Gates
  PROVE  LET p == Fitted(r, w, met) IN
         /\ p \in Profile /\ p # NoProfile
         /\ p.config = model[r] /\ p.samples = About(data[r], {w}) /\ p.whole = TRUE
         /\ p.metrics = "passing" => Len(p.samples) >= MinAccepted
         /\ Cut(p) \in Profile
         /\ Cut(p).config = p.config
         /\ Cut(p).samples = p.samples
         /\ Cut(p).metrics = "none"
<1> DEFINE samples == About(data[r], {w})
           accepts == "selective" \in met /\ w # SupportRouting /\ Len(samples) >= MinAccepted
           passes  == accepts /\ "calibration" \in met
           p == [config  |-> model[r],
                 samples |-> samples,
                 policy  |-> IF accepts THEN "threshold" ELSE "review_only",
                 metrics |-> IF samples = <<>> THEN "none" ELSE IF passes THEN "passing" ELSE "failing",
                 whole   |-> TRUE]
<1>1. samples \in Seq(Measurements)
  BY AboutReads
<1>2. Fitted(r, w, met) = p
  BY DEF Fitted
<1> HIDE DEF samples
<1>3. p \in Profile
  BY <1>1 DEF Profile, Policies
<1>4. p # NoProfile
  BY <1>3, CalibrationAssumption
<1>5. p.metrics = "passing" => accepts
  OBVIOUS
<1>6. Cut(p) \in Profile
  BY <1>1 DEF Profile, Policies, Cut
<1>7. /\ p.config = model[r] /\ p.samples = samples /\ p.whole = TRUE
      /\ Cut(p).config = model[r]
      /\ Cut(p).samples = samples
      /\ Cut(p).metrics = "none"
  BY DEF Cut
<1> HIDE DEF p
<1> QED
  BY <1>2, <1>3, <1>4, <1>5, <1>6, <1>7 DEF samples

-----------------------------------------------------------------------------
(* Types.                                                                  *)

(* The types hold at first.                                                *)
LEMMA InitTyped == Init => TypeOK
<1> SUFFICES ASSUME Init
             PROVE  TypeOK
  OBVIOUS
<1>1. EmptyFile \in Files(Measurements)
  BY DEF EmptyFile, Files, Ends
<1>2. NoEntries \in Registries
  BY DEF NoEntries, Registries
<1>3. Down \in [status : {"down", "loading", "ready", "not_ready"}, config : Configs, loaded : Registries]
  BY <1>2 DEF Init, Down
<1>4. /\ pc \in [Runs -> Phases \cup Workloads] /\ only \in [Runs -> SUBSET Workloads]
      /\ model \in [Runs -> Configs] /\ todo \in [Runs -> Seq(Examples)]
      /\ buffer \in [Runs -> Seq(Measurements)] /\ data \in [Runs -> Seq(Measurements)]
      /\ pending \in [Runs -> SUBSET Workloads] /\ created \in [Runs -> SUBSET Workloads]
  BY <1>2 DEF Init, Phases
<1>5. \A r \in Runs : buffer[r] = <<>>
  BY DEF Init
<1> QED
  BY <1>1, <1>2, <1>3, <1>4, <1>5, CalibrationAssumption DEF Init, TypeOK

(* A process without measurements in its buffer.                           *)
Unbuffered(bf, p, td) ==
  bf # <<>> => p = "scoring" /\ td # <<>> /\ \A i \in 1..Len(bf) : bf[i].ex = Head(td)

(* A process that starts keeps the types.                                  *)
LEMMA StartTyped ==
  ASSUME TypeOK, NEW r \in Runs, NEW W \in SUBSET Workloads, Start(r, W)
  PROVE  TypeOK'
<1>1. /\ ~Started(r) /\ starts < MaxStarts /\ starts' = starts + 1
      /\ pc' = [pc EXCEPT ![r] = "scoring"] /\ only' = [only EXCEPT ![r] = W]
      /\ model' = [model EXCEPT ![r] = config] /\ data' = [data EXCEPT ![r] = CachedData(W)]
      /\ todo' = [todo EXCEPT ![r] = Todo(W)] /\ cache' = cache
      /\ UNCHANGED <<config, profiles, summary, buffer, pending, created, service, spoiled, mishaps, upgrades>>
  BY DEF Start, OpenedCache
<1>2. CachedData(W) \in Seq(Measurements)
  <2>1. cache.rows \in Seq(Measurements)
    BY FileParts DEF TypeOK
  <2> QED
    BY <2>1, AboutReads DEF CachedData
<1>3. Todo(W) \in Seq(Examples)
  BY TodoReads DEF Todo
<1>4. starts' \in 0..MaxStarts
  BY <1>1, CalibrationAssumption DEF TypeOK
<1>5. /\ pc' \in [Runs -> Phases \cup Workloads] /\ only' \in [Runs -> SUBSET Workloads]
      /\ model' \in [Runs -> Configs] /\ todo' \in [Runs -> Seq(Examples)]
      /\ data' \in [Runs -> Seq(Measurements)]
  BY <1>1, <1>2, <1>3 DEF TypeOK, Phases
<1>6. ASSUME NEW x \in Runs
      PROVE  Unbuffered(buffer'[x], pc'[x], todo'[x])
  <2>1. Unbuffered(buffer[x], pc[x], todo[x])
    BY DEF TypeOK, Unbuffered
  <2>2. CASE x = r
    BY <1>1, <2>1, <2>2 DEF Started, Unbuffered
  <2>3. CASE x # r
    BY <1>1, <2>1, <2>3 DEF TypeOK
  <2> QED
    BY <2>2, <2>3
<1> QED
  BY <1>1, <1>4, <1>5, <1>6 DEF TypeOK, Unbuffered

(* A measurement is about the example next to do.                          *)
LEMMA ScoreTyped ==
  ASSUME TypeOK, NEW r \in Runs, Score(r)
  PROVE  TypeOK'
<1> DEFINE e == Head(todo[r])
           m == [ex |-> e, q |-> Questions[e][Len(buffer[r]) + 1], config |-> model[r]]
<1>1. /\ pc[r] = "scoring" /\ todo[r] # <<>> /\ Len(buffer[r]) < Len(Questions[e])
      /\ buffer' = [buffer EXCEPT ![r] = Append(buffer[r], m)]
      /\ data' = [data EXCEPT ![r] = Append(data[r], m)]
      /\ UNCHANGED <<config, cache, profiles, summary, pc, only, model, todo, pending, created,
                     service, spoiled, starts, mishaps, upgrades>>
  BY DEF Score, files, counters
<1>2. e \in Examples /\ m \in Measurements
  <2>1. e \in Examples
    BY <1>1, RestReads DEF TypeOK
  <2>2. Len(buffer[r]) \in Nat /\ Len(Questions[e]) \in Nat /\ model[r] \in Configs
    BY <2>1, QuestionsArePositions DEF TypeOK
  <2>3. Len(buffer[r]) + 1 \in 1..Len(Questions[e])
    BY <1>1, <2>2
  <2> HIDE DEF e
  <2> QED
    BY <2>1, <2>2, <2>3, MeasurementOfQuestion
<1>3. m.ex = e
  OBVIOUS
<1> HIDE DEF m
<1>4. /\ buffer' \in [Runs -> Seq(Measurements)] /\ data' \in [Runs -> Seq(Measurements)]
  BY <1>1, <1>2 DEF TypeOK
<1>5. ASSUME NEW x \in Runs
      PROVE  Unbuffered(buffer'[x], pc'[x], todo'[x])
  <2>1. Unbuffered(buffer[x], pc[x], todo[x]) /\ buffer[x] \in Seq(Measurements)
    BY DEF TypeOK, Unbuffered
  <2>2. CASE x = r
    <3>1. buffer'[x] = Append(buffer[x], m) /\ pc'[x] = "scoring" /\ todo'[x] = todo[x] /\ todo[x] # <<>>
      BY <1>1, <2>2 DEF TypeOK
    <3>2. \A i \in 1..Len(buffer[x]) : buffer[x][i].ex = Head(todo[x])
      BY <2>1 DEF Unbuffered
    <3>3. \A i \in 1..Len(Append(buffer[x], m)) : Append(buffer[x], m)[i].ex = Head(todo[x])
      BY <1>2, <1>3, <2>1, <2>2, <3>2
    <3> QED
      BY <3>1, <3>3 DEF Unbuffered
  <2>3. CASE x # r
    BY <1>1, <2>1, <2>3 DEF TypeOK
  <2> QED
    BY <2>2, <2>3
<1> QED
  BY <1>1, <1>4, <1>5 DEF TypeOK, Unbuffered

(* A flush keeps the types and empties the buffer.                         *)
LEMMA FlushTyped ==
  ASSUME TypeOK, NEW r \in Runs, Flush(r)
  PROVE  TypeOK'
<1>1. /\ pc[r] = "scoring" /\ todo[r] # <<>>
      /\ cache' = Flushed(cache, buffer[r])
      /\ buffer' = [buffer EXCEPT ![r] = <<>>] /\ todo' = [todo EXCEPT ![r] = Tail(todo[r])]
      /\ spoiled' = IF cache.end = "closed" THEN spoiled ELSE spoiled \cup InPart(cache'.rows)
      /\ UNCHANGED <<config, profiles, summary, pc, only, model, data, pending, created, service,
                     starts, mishaps, upgrades>>
  BY DEF Flush, counters
<1>2. cache' \in Files(Measurements)
  BY <1>1, FlushedReads DEF TypeOK
<1>3. spoiled' \in SUBSET Examples
  <2>1. cache'.rows \in Seq(Measurements)
    BY <1>2, FileParts
  <2>2. InPart(cache'.rows) \subseteq Examples
    BY <2>1, InPartIsExamples
  <2> QED
    BY <1>1, <2>2 DEF TypeOK
<1>4. buffer' \in [Runs -> Seq(Measurements)] /\ todo' \in [Runs -> Seq(Examples)]
  <2>1. Tail(todo[r]) \in Seq(Examples)
    BY <1>1, RestReads DEF TypeOK
  <2> QED
    BY <1>1, <2>1 DEF TypeOK
<1>5. \A x \in Runs : Unbuffered(buffer'[x], pc'[x], todo'[x])
  BY <1>1 DEF TypeOK, Unbuffered
<1> QED
  BY <1>1, <1>2, <1>3, <1>4, <1>5 DEF TypeOK, Unbuffered

(* The steps from the end of scoring to the summary keep the types.        *)
LEMMA FittingTyped ==
  ASSUME TypeOK, NEW r \in Runs,
         Scored(r) \/ (\E w \in Workloads : BeginProfile(r, w)) \/ BeginSummary(r) \/ EndSummary(r)
  PROVE  TypeOK'
<1>1. CASE Scored(r)
  <2>1. Fits(r) \in SUBSET Workloads
    BY DEF TypeOK, Fits
  <2>2. /\ pc' = [pc EXCEPT ![r] = "fitting"] /\ created' = [created EXCEPT ![r] = summary]
        /\ pending' = [pending EXCEPT ![r] = Fits(r)] /\ todo[r] = <<>>
        /\ UNCHANGED <<config, cache, profiles, summary, only, model, todo, buffer, data, service, spoiled,
                       starts, mishaps, upgrades>>
    BY <1>1 DEF Scored, files, counters
  <2>3. \A x \in Runs : Unbuffered(buffer'[x], pc'[x], todo'[x])
    BY <2>2 DEF TypeOK, Unbuffered
  <2>4. /\ pc' \in [Runs -> Phases \cup Workloads] /\ created' \in [Runs -> SUBSET Workloads]
        /\ pending' \in [Runs -> SUBSET Workloads]
    BY <2>1, <2>2 DEF TypeOK, Phases
  <2> QED
    BY <2>2, <2>3, <2>4 DEF TypeOK, Unbuffered
<1>2. ASSUME NEW w \in Workloads, BeginProfile(r, w)
      PROVE  TypeOK'
  <2>1. /\ pc[r] = "fitting" /\ pc' = [pc EXCEPT ![r] = w] /\ profiles' = [profiles EXCEPT ![w] = NoProfile]
        /\ UNCHANGED <<config, cache, summary, only, model, todo, buffer, data, pending, created, service,
                       spoiled, starts, mishaps, upgrades>>
    BY <1>2 DEF BeginProfile, locals, counters
  <2>2. \A x \in Runs : Unbuffered(buffer'[x], pc'[x], todo'[x])
    BY <2>1 DEF TypeOK, Unbuffered
  <2>3. pc' \in [Runs -> Phases \cup Workloads] /\ profiles' \in Registries
    BY <2>1 DEF TypeOK, Registries
  <2> QED
    BY <2>1, <2>2, <2>3 DEF TypeOK, Unbuffered
<1>3. CASE BeginSummary(r) \/ EndSummary(r)
  <2>1. /\ pc[r] \in {"fitting", "closing"}
        /\ pc' = [pc EXCEPT ![r] = "closing"] \/ pc' = [pc EXCEPT ![r] = "done"]
        /\ summary' = {} \/ summary' = created[r]
        /\ UNCHANGED <<config, cache, profiles, only, model, todo, buffer, data, pending, created, service,
                       spoiled, starts, mishaps, upgrades>>
    BY <1>3 DEF BeginSummary, EndSummary, locals, counters
  <2>2. \A x \in Runs : Unbuffered(buffer'[x], pc'[x], todo'[x])
    BY <2>1 DEF TypeOK, Unbuffered
  <2>3. pc' \in [Runs -> Phases \cup Workloads]
    BY <2>1 DEF TypeOK, Phases
  <2>4. summary' \subseteq Workloads
    BY <2>1 DEF TypeOK
  <2> QED
    BY <2>1, <2>2, <2>3, <2>4 DEF TypeOK, Unbuffered
<1> QED
  BY <1>1, <1>2, <1>3

(* What fitting writes is a profile.                                       *)
LEMMA EndProfileTyped ==
  ASSUME TypeOK, NEW r \in Runs, NEW w \in Workloads, EndProfile(r, w)
  PROVE  TypeOK'
<1>1. PICK met \in SUBSET Gates : profiles' = [profiles EXCEPT ![w] = Fitted(r, w, met)]
  BY DEF EndProfile
<1> DEFINE p == Fitted(r, w, met)
<1>2. p \in Profile
  BY FittedReads DEF TypeOK
<1> HIDE DEF p
<1>3. /\ pc[r] = w /\ pc' = [pc EXCEPT ![r] = "fitting"] /\ pending' = [pending EXCEPT ![r] = pending[r] \ {w}]
      /\ created' = [created EXCEPT ![r] = created[r] \cup {w}]
      /\ UNCHANGED <<config, cache, summary, only, model, todo, buffer, data, service, spoiled,
                     starts, mishaps, upgrades>>
  BY DEF EndProfile, counters
<1>4. profiles' \in Registries
  BY <1>1, <1>2 DEF TypeOK, Registries, p
<1>5. created' \in [Runs -> SUBSET Workloads]
  BY <1>3 DEF TypeOK
<1>6. pc' \in [Runs -> Phases \cup Workloads] /\ pending' \in [Runs -> SUBSET Workloads]
  BY <1>3 DEF TypeOK, Phases
<1>7. \A x \in Runs : Unbuffered(buffer'[x], pc'[x], todo'[x])
  <2>1. w # "scoring"
    BY CalibrationAssumption DEF Phases
  <2> QED
    BY <1>3, <2>1 DEF TypeOK, Unbuffered
<1> QED
  BY <1>3, <1>4, <1>5, <1>6, <1>7 DEF TypeOK, Unbuffered

(* What is on the disk once a process has died.                            *)
LEMMA DieDoes ==
  ASSUME TypeOK, NEW r \in Runs, Die(r)
  PROVE  /\ cache' \in Files(Measurements)
         /\ \E m, j \in Nat : Continues(cache'.rows, cache.rows, m, buffer[r], j)
         /\ \/ profiles' = profiles
            \/ \E p \in Profile :
                 /\ pc[r] \in Workloads /\ profiles' = [profiles EXCEPT ![pc[r]] = p]
                 /\ p.config = model[r] /\ p.samples = About(data[r], {pc[r]})
                 /\ p.metrics = "passing" => p.whole /\ Len(p.samples) >= MinAccepted
<1>1. cache' \in Survivors(cache, buffer[r]) /\ cache \in Files(Measurements) /\ buffer[r] \in Seq(Measurements)
  BY DEF Die, TypeOK
<1>2. cache' \in Files(Measurements) /\ \E m, j \in Nat : Continues(cache'.rows, cache.rows, m, buffer[r], j)
  BY <1>1, SurvivorsRead
<1>3. ASSUME profiles' # profiles
      PROVE  \E p \in Profile :
               /\ pc[r] \in Workloads /\ profiles' = [profiles EXCEPT ![pc[r]] = p]
               /\ p.config = model[r] /\ p.samples = About(data[r], {pc[r]})
               /\ p.metrics = "passing" => p.whole /\ Len(p.samples) >= MinAccepted
  <2>1. pc[r] \in Workloads
    BY <1>3 DEF Die
  <2>2. PICK met \in SUBSET Gates, all \in BOOLEAN :
          profiles' = [profiles EXCEPT ![pc[r]] =
            IF all THEN Fitted(r, pc[r], met)
                   ELSE [Fitted(r, pc[r], met) EXCEPT !.metrics = "none", !.whole = FALSE]]
    BY <1>3, Zenon DEF Die
  <2> DEFINE f == Fitted(r, pc[r], met)
             g == Cut(f)
             p == IF all THEN f ELSE g
  <2>3. /\ f \in Profile /\ f.config = model[r] /\ f.samples = About(data[r], {pc[r]}) /\ f.whole = TRUE
        /\ f.metrics = "passing" => Len(f.samples) >= MinAccepted
        /\ g \in Profile /\ g.config = f.config /\ g.samples = f.samples /\ g.metrics = "none"
    <3>1. model[r] \in Configs /\ data[r] \in Seq(Measurements)
      BY DEF TypeOK
    <3> QED
      BY <2>1, <3>1, FittedReads
  <2>4. profiles' = [profiles EXCEPT ![pc[r]] = p]
    BY <2>2 DEF Cut
  <2> HIDE DEF f, g
  <2>5. /\ p \in Profile /\ p.config = model[r] /\ p.samples = About(data[r], {pc[r]})
        /\ p.metrics = "passing" => p.whole /\ Len(p.samples) >= MinAccepted
    BY <2>3
  <2> HIDE DEF p
  <2> QED
    BY <2>1, <2>4, <2>5
<1> QED
  BY <1>2, <1>3

(* A kill keeps the types.                                                 *)
LEMMA DieTyped ==
  ASSUME TypeOK, NEW r \in Runs, Die(r)
  PROVE  TypeOK'
<1>1. /\ mishaps < MaxMishaps /\ mishaps' = mishaps + 1 /\ pc' = [pc EXCEPT ![r] = "idle"]
      /\ buffer' = [buffer EXCEPT ![r] = <<>>] /\ spoiled' = spoiled \cup InPart(cache'.rows)
      /\ UNCHANGED <<config, summary, only, model, todo, data, pending, created, service, starts, upgrades>>
  BY DEF Die
<1>2. /\ cache' \in Files(Measurements)
      /\ profiles' = profiles \/ \E p \in Profile : pc[r] \in Workloads /\ profiles' = [profiles EXCEPT ![pc[r]] = p]
  BY DieDoes
<1>3. profiles' \in Registries
  BY <1>2 DEF TypeOK, Registries
<1>4. spoiled' \in SUBSET Examples
  <2>1. cache'.rows \in Seq(Measurements)
    BY <1>2, FileParts
  <2> QED
    BY <1>1, <2>1, InPartIsExamples DEF TypeOK
<1>5. mishaps' \in 0..MaxMishaps
  BY <1>1, CalibrationAssumption DEF TypeOK
<1>6. /\ pc' \in [Runs -> Phases \cup Workloads] /\ buffer' \in [Runs -> Seq(Measurements)]
      /\ \A x \in Runs : Unbuffered(buffer'[x], pc'[x], todo'[x])
  BY <1>1 DEF TypeOK, Phases, Unbuffered
<1> QED
  BY <1>1, <1>2, <1>3, <1>4, <1>5, <1>6 DEF TypeOK, Unbuffered

(* An upgrade keeps the types.                                             *)
LEMMA UpgradeTyped ==
  ASSUME TypeOK, Upgrade
  PROVE  TypeOK'
<1>1. /\ upgrades < MaxUpgrades /\ upgrades' = upgrades + 1 /\ config' \in Configs
      /\ cache' = cache \/ cache' = EmptyFile
      /\ UNCHANGED <<profiles, summary, pc, only, model, todo, buffer, data, pending, created, service,
                     spoiled, starts, mishaps>>
  BY DEF Upgrade, locals
<1>2. EmptyFile \in Files(Measurements)
  BY DEF EmptyFile, Files, Ends
<1>3. cache' \in Files(Measurements)
  BY <1>1, <1>2 DEF TypeOK
<1>4. upgrades' \in 0..MaxUpgrades
  BY <1>1, CalibrationAssumption DEF TypeOK
<1> QED
  BY <1>1, <1>3, <1>4 DEF TypeOK

(* What the service does to itself.                                        *)
Serving == Launch \/ LoadRegistry \/ Shutdown

(* A service takes what profiles there are, or none, and changes no file.  *)
LEMMA ServingDoes ==
  ASSUME TypeOK, Serving
  PROVE  /\ UNCHANGED <<config, cache, profiles, summary, pc, only, model, todo, buffer, data, pending,
                        created, spoiled, starts, mishaps, upgrades>>
         /\ service' \in [status : {"down", "loading", "ready", "not_ready"}, config : Configs, loaded : Registries]
         /\ service'.loaded \in {NoEntries, profiles, service.loaded}
<1> DEFINE S == [status : {"down", "loading", "ready", "not_ready"}, config : Configs, loaded : Registries]
<1>1. NoEntries \in Registries
  BY DEF NoEntries, Registries
<1>2. CASE Launch
  <2>1. service' = [status |-> "loading", config |-> config, loaded |-> NoEntries]
    BY <1>2 DEF Launch
  <2> QED
    BY <1>1, <1>2, <2>1 DEF TypeOK, Launch, files, locals, counters
<1>3. CASE Shutdown
  <2>1. service' = [status |-> "down", config |-> config, loaded |-> NoEntries]
    BY <1>3 DEF Shutdown, Down
  <2> QED
    BY <1>1, <1>3, <2>1 DEF TypeOK, Shutdown, files, locals, counters
<1>4. CASE LoadRegistry
  <2>1. \/ service' = [service EXCEPT !.status = "ready", !.loaded = profiles]
        \/ service' = [service EXCEPT !.status = "not_ready"]
    BY <1>4, Zenon DEF LoadRegistry
  <2>2. service \in S /\ profiles \in Registries
    BY DEF TypeOK
  <2>3. service' \in S /\ service'.loaded \in {profiles, service.loaded}
    BY <2>1, <2>2
  <2> QED
    BY <1>4, <2>3 DEF LoadRegistry, files, locals, counters
<1> QED
  BY <1>2, <1>3, <1>4 DEF Serving

(* The steps of a process, and of everything else.                         *)
LEMMA StepsOf ==
  ASSUME NEW r \in Runs, Step(r)
  PROVE  \/ \E W \in SUBSET Workloads : Start(r, W)
         \/ Score(r) \/ Flush(r) \/ Scored(r)
         \/ \E w \in Workloads : BeginProfile(r, w) \/ EndProfile(r, w)
         \/ BeginSummary(r) \/ EndSummary(r)
         \/ Die(r)
<1>1. \A W \in {Workloads} \cup {{w} : w \in Workloads} : W \in SUBSET Workloads
  OBVIOUS
<1> QED
  BY <1>1 DEF Step

(* A step of a process leaves the others alone.                            *)
LEMMA OthersStay ==
  ASSUME TypeOK, NEW r \in Runs, Step(r), NEW x \in Runs, x # r
  PROVE  /\ pc'[x] = pc[x] /\ only'[x] = only[x] /\ model'[x] = model[x] /\ todo'[x] = todo[x]
         /\ buffer'[x] = buffer[x] /\ data'[x] = data[x] /\ pending'[x] = pending[x] /\ created'[x] = created[x]
<1>1. CASE \E W \in SUBSET Workloads : Start(r, W)
  BY <1>1 DEF Start, TypeOK
<1>2. CASE Score(r)
  BY <1>2 DEF Score, TypeOK
<1>3. CASE Flush(r)
  BY <1>3 DEF Flush, TypeOK
<1>4. CASE Scored(r)
  BY <1>4 DEF Scored, TypeOK
<1>5. CASE \E w \in Workloads : BeginProfile(r, w)
  BY <1>5 DEF BeginProfile, locals, TypeOK
<1>6. CASE \E w \in Workloads : EndProfile(r, w)
  BY <1>6 DEF EndProfile, TypeOK
<1>7. CASE BeginSummary(r) \/ EndSummary(r)
  BY <1>7 DEF BeginSummary, EndSummary, locals, TypeOK
<1>8. CASE Die(r)
  BY <1>8 DEF Die, TypeOK
<1> QED
  BY <1>1, <1>2, <1>3, <1>4, <1>5, <1>6, <1>7, <1>8, StepsOf

(* Every step keeps the types.                                             *)
LEMMA TypeStep ==
  ASSUME TypeOK, [Next]_vars
  PROVE  TypeOK'
<1>1. ASSUME NEW r \in Runs, Step(r)
      PROVE  TypeOK'
  BY <1>1, StepsOf, StartTyped, ScoreTyped, FlushTyped, FittingTyped, EndProfileTyped, DieTyped
<1>2. CASE Serving
  BY <1>2, ServingDoes DEF TypeOK
<1>3. CASE UNCHANGED vars
  BY <1>3 DEF TypeOK, vars, files, locals, counters
<1> QED
  BY <1>1, <1>2, <1>3, UpgradeTyped DEF Next, Serving

(* The files and the processes keep their types, however many calibrations *)
(* run side by side; a process holds measurements back only about the      *)
(* example that is next to do, and none once it has scored or died.        *)
THEOREM CalibrationIsTyped == Spec => []TypeOK
<1>1. TypeOK /\ [Next]_vars => TypeOK'
  BY TypeStep
<1> QED
  BY <1>1, InitTyped, PTL DEF Spec

-----------------------------------------------------------------------------
(* The cache.                                                              *)

(* A flush continues the cache with the buffer.                            *)
LEMMA FlushDoes ==
  ASSUME TypeOK, NEW r \in Runs, Flush(r)
  PROVE  \E m, j \in Nat : Continues(cache'.rows, cache.rows, m, buffer[r], j)
<1>1. cache \in Files(Measurements) /\ buffer[r] \in Seq(Measurements) /\ cache' = Flushed(cache, buffer[r])
  BY DEF TypeOK, Flush
<1> QED
  BY <1>1, FlushedReads

(* Only an upgrade changes the cache otherwise than by continuing it.      *)
LEMMA CacheIsContinued ==
  ASSUME TypeOK, [Next]_vars
  PROVE  \/ Upgrade
         \/ cache' = cache
         \/ \E r \in Runs, m, j \in Nat : Continues(cache'.rows, cache.rows, m, buffer[r], j)
<1>1. ASSUME NEW r \in Runs, Step(r)
      PROVE  cache' = cache \/ \E m, j \in Nat : Continues(cache'.rows, cache.rows, m, buffer[r], j)
  <2>1. Flush(r) \/ Die(r) => \E m, j \in Nat : Continues(cache'.rows, cache.rows, m, buffer[r], j)
    BY FlushDoes, DieDoes
  <2>2. (\E W \in SUBSET Workloads : Start(r, W)) => cache' = cache
    BY DEF Start, OpenedCache
  <2>3. (\E w \in Workloads : BeginProfile(r, w) \/ EndProfile(r, w)) => cache' = cache
    BY DEF BeginProfile, EndProfile
  <2>4. Score(r) \/ Scored(r) \/ BeginSummary(r) \/ EndSummary(r) => cache' = cache
    BY DEF Score, Scored, BeginSummary, EndSummary, files
  <2> QED
    BY <1>1, <2>1, <2>2, <2>3, <2>4, StepsOf
<1>2. Serving => cache' = cache
  BY ServingDoes
<1>3. UNCHANGED vars => cache' = cache
  BY DEF vars, files
<1> QED
  BY <1>1, <1>2, <1>3 DEF Next, Serving

(* Whatever the processes do side by side and wherever they are killed: a  *)
(* step takes one row at most from the cache, the one a torn line is glued *)
(* to, unless the operator deletes the cache.                              *)
THEOREM CacheLosesOneRowAtMost == Spec => LosesOneRow
<1>1. TypeOK /\ [Next]_vars => [Upgrade \/ Len(cache'.rows) >= Len(cache.rows) - 1]_vars
  <2> SUFFICES ASSUME TypeOK, [Next]_vars, ~Upgrade
               PROVE  Len(cache'.rows) >= Len(cache.rows) - 1
    OBVIOUS
  <2>1. Len(cache.rows) \in Nat /\ Len(cache'.rows) \in Nat
    <3>1. cache \in Files(Measurements) /\ cache' \in Files(Measurements)
      BY TypeStep DEF TypeOK
    <3> QED
      BY <3>1, FileParts
  <2>2. ASSUME cache' # cache
        PROVE  Len(cache'.rows) >= Len(cache.rows) - 1
    <3>1. PICK r \in Runs, m \in Nat, j \in Nat : Continues(cache'.rows, cache.rows, m, buffer[r], j)
      BY <2>2, CacheIsContinued
    <3> QED
      BY <2>1, <3>1 DEF Continues
  <2> QED
    BY <2>1, <2>2
<1> QED
  BY <1>1, CalibrationIsTyped, PTL DEF Spec, LosesOneRow

-----------------------------------------------------------------------------
(* Where the evidence comes from.                                          *)

Of(ms, c) == \A i \in 1..Len(ms) : ms[i].config = c

OwnEvidence(ps) == \A w \in Workloads : ps[w] # NoProfile => Of(ps[w].samples, ps[w].config)

(* With a cache that is deleted on an upgrade, everything at work is about *)
(* the model that is configured, and a profile about the one it names.     *)
EvidenceInv ==
  /\ Of(cache.rows, config)
  /\ \A r \in Runs : /\ Of(buffer[r], config)
                     /\ Started(r) => model[r] = config /\ Of(data[r], config)
  /\ OwnEvidence(profiles) /\ OwnEvidence(service.loaded)

(* A file continued with measurements of one model is of that model if it  *)
(* was.                                                                    *)
LEMMA ContinuedIsOf ==
  ASSUME NEW S, NEW s \in Seq(S), NEW b \in Seq(S), NEW t \in Seq(S),
         NEW m \in Nat, NEW j \in Nat, Continues(t, s, m, b, j), NEW c, Of(s, c), Of(b, c)
  PROVE  Of(t, c)
<1>1. \A i \in 1..Len(t) : (\E k \in 1..Len(s) : t[i] = s[k]) \/ (\E k \in 1..Len(b) : t[i] = b[k])
  BY ContinuedRows
<1> QED
  BY <1>1 DEF Of

(* So is what is taken out of it for some workloads.                       *)
LEMMA AboutIsOf ==
  ASSUME NEW s \in Seq(Measurements), NEW W, NEW c, Of(s, c)
  PROVE  Of(About(s, W), c)
<1> DEFINE t == About(s, W)
<1>1. \A k \in 1..Len(t) : \E i \in 1..Len(s) : t[k] = s[i]
  BY AboutReads
<1> HIDE DEF t
<1>2. Of(t, c)
  BY <1>1 DEF Of
<1> QED
  BY <1>2 DEF t

(* There is no evidence at first.                                          *)
LEMMA EvidenceBegins ==
  ASSUME Init
  PROVE  EvidenceInv
BY DEF Init, EvidenceInv, Of, OwnEvidence, EmptyFile, Started, Down, NoEntries

(* A step of a process measures with the model that is configured.         *)
LEMMA EvidenceStep ==
  ASSUME TypeOK, EvidenceInv, FreshCache, NEW r \in Runs, Step(r)
  PROVE  EvidenceInv'
<1>0. TypeOK'
  BY TypeStep DEF Next
<1>1. /\ cache.rows \in Seq(Measurements) /\ cache'.rows \in Seq(Measurements)
      /\ buffer[r] \in Seq(Measurements) /\ data[r] \in Seq(Measurements)
      /\ Of(cache.rows, config) /\ Of(buffer[r], config)
      /\ Started(r) => model[r] = config /\ Of(data[r], config)
  BY <1>0, FileParts DEF TypeOK, EvidenceInv
<1>2. config' = config /\ service' = service
  BY StepsOf DEF Start, Score, Flush, Scored, BeginProfile, EndProfile, BeginSummary, EndSummary, Die, files
<1>3. Of(cache'.rows, config)
  <2>1. cache' = cache \/ \E m, j \in Nat : Continues(cache'.rows, cache.rows, m, buffer[r], j)
    <3>1. Flush(r) \/ Die(r) => \E m, j \in Nat : Continues(cache'.rows, cache.rows, m, buffer[r], j)
      BY FlushDoes, DieDoes
    <3> QED
      BY <3>1, StepsOf DEF Start, OpenedCache, Score, Scored, BeginProfile, EndProfile, BeginSummary, EndSummary, files
  <2> QED
    BY <1>1, <2>1, ContinuedIsOf
<1>4. ASSUME NEW x \in Runs
      PROVE  /\ Of(buffer'[x], config)
             /\ (Started(x))' => model'[x] = config /\ Of(data'[x], config)
  <2>0. Of(buffer[x], config) /\ (Started(x) => model[x] = config /\ Of(data[x], config))
    BY DEF EvidenceInv
  <2>1. CASE x # r
    <3>1. buffer'[x] = buffer[x] /\ pc'[x] = pc[x] /\ model'[x] = model[x] /\ data'[x] = data[x]
      BY <2>1, OthersStay
    <3> QED
      BY <2>0, <3>1 DEF Started
  <2>2. CASE x = r /\ \E W \in SUBSET Workloads : Start(r, W)
    <3>1. PICK W \in SUBSET Workloads : Start(r, W)
      BY <2>2
    <3>2. buffer'[r] = buffer[r] /\ model'[r] = config /\ data'[r] = CachedData(W)
      BY <3>1 DEF Start, TypeOK
    <3>3. Of(CachedData(W), config)
      BY <1>1, AboutIsOf DEF CachedData
    <3> QED
      BY <2>0, <2>2, <3>2, <3>3
  <2>3. CASE x = r /\ Score(r)
    <3> DEFINE m == [ex |-> Head(todo[r]), q |-> Questions[Head(todo[r])][Len(buffer[r]) + 1], config |-> model[r]]
    <3>1. buffer'[r] = Append(buffer[r], m) /\ data'[r] = Append(data[r], m) /\ Started(r) /\ model'[r] = model[r]
      BY <2>3 DEF Score, TypeOK, Started
    <3>2. m.config = config
      BY <1>1, <3>1
    <3> HIDE DEF m
    <3>3. \A s \in Seq(Measurements) : Of(s, config) => Of(Append(s, m), config)
      <4> SUFFICES ASSUME NEW s \in Seq(Measurements), Of(s, config), NEW i \in 1..Len(Append(s, m))
                   PROVE  Append(s, m)[i].config = config
        BY DEF Of
      <4>1. CASE i = Len(s) + 1
        BY <3>2, <4>1
      <4>2. CASE i \in 1..Len(s)
        BY <4>2 DEF Of
      <4> QED
        BY <4>1, <4>2
    <3> QED
      BY <1>1, <2>3, <3>1, <3>3
  <2>4. CASE x = r /\ Flush(r)
    <3>1. buffer'[r] = <<>> /\ pc'[r] = pc[r] /\ model'[r] = model[r] /\ data'[r] = data[r]
      BY <2>4 DEF Flush, TypeOK
    <3> QED
      BY <2>0, <2>4, <3>1 DEF Of, Started
  <2>5. CASE x = r /\ Die(r)
    <3>1. buffer'[r] = <<>> /\ pc'[r] = "idle"
      BY <2>5 DEF Die, TypeOK
    <3> QED
      BY <2>5, <3>1 DEF Of, Started
  <2>6. CASE /\ x = r
             /\ \/ Scored(r) \/ BeginSummary(r) \/ EndSummary(r)
                \/ \E w \in Workloads : BeginProfile(r, w) \/ EndProfile(r, w)
    <3>1. buffer'[r] = buffer[r] /\ model'[r] = model[r] /\ data'[r] = data[r]
      BY <2>6 DEF Scored, BeginProfile, EndProfile, BeginSummary, EndSummary, locals
    <3>2. Started(r)
      BY <2>6, CalibrationAssumption DEF Scored, BeginProfile, EndProfile, BeginSummary, EndSummary, Started, Phases
    <3> QED
      BY <2>0, <2>6, <3>1, <3>2
  <2> QED
    BY <2>1, <2>2, <2>3, <2>4, <2>5, <2>6, StepsOf
<1>5. OwnEvidence(profiles')
  <2>0. OwnEvidence(profiles) /\ profiles \in Registries
    BY DEF EvidenceInv, TypeOK
  <2>1. ASSUME NEW w \in Workloads, profiles' = [profiles EXCEPT ![w] = NoProfile]
        PROVE  OwnEvidence(profiles')
    BY <2>0, <2>1 DEF OwnEvidence, Registries
  <2>2. ASSUME NEW w \in Workloads, NEW p, profiles' = [profiles EXCEPT ![w] = p],
               Started(r), p.config = model[r], p.samples = About(data[r], {w})
        PROVE  OwnEvidence(profiles')
    <3>1. Of(p.samples, p.config)
      BY <1>1, <2>2, AboutIsOf
    <3> QED
      BY <2>0, <2>2, <3>1 DEF OwnEvidence, Registries
  <2>3. ASSUME Die(r)
        PROVE  OwnEvidence(profiles')
    <3>1. Started(r)
      BY <2>3 DEF Die
    <3> QED
      BY <2>0, <2>2, <2>3, <3>1, DieDoes
  <2>4. ASSUME NEW w \in Workloads, EndProfile(r, w)
        PROVE  OwnEvidence(profiles')
    <3>1. PICK met \in SUBSET Gates : profiles' = [profiles EXCEPT ![w] = Fitted(r, w, met)]
      BY <2>4 DEF EndProfile
    <3>2. Started(r)
      BY <2>4, CalibrationAssumption DEF EndProfile, Started, Phases
    <3>3. model[r] \in Configs /\ data[r] \in Seq(Measurements)
      BY DEF TypeOK
    <3>4. Fitted(r, w, met).config = model[r] /\ Fitted(r, w, met).samples = About(data[r], {w})
      BY <3>3, FittedReads
    <3> QED
      BY <2>2, <3>1, <3>2, <3>4
  <2>5. ASSUME NEW w \in Workloads, BeginProfile(r, w)
        PROVE  OwnEvidence(profiles')
    BY <2>1, <2>5 DEF BeginProfile
  <2>6. ASSUME profiles' = profiles
        PROVE  OwnEvidence(profiles')
    BY <2>0, <2>6
  <2> QED
    BY <2>3, <2>4, <2>5, <2>6, StepsOf DEF Start, Score, Flush, Scored, BeginSummary, EndSummary, files
<1>6. (\A x \in Runs : /\ Of(buffer[x], config)
                       /\ Started(x) => model[x] = config /\ Of(data[x], config))'
  BY <1>2, <1>4
<1> QED
  BY <1>2, <1>3, <1>5, <1>6 DEF EvidenceInv

(* No step mixes the evidence of two models: an upgrade deletes the        *)
(* cache, and a service takes profiles as they are.                        *)
LEMMA EvidenceGoesOn ==
  ASSUME TypeOK, EvidenceInv, FreshCache, [Next]_vars
  PROVE  EvidenceInv'
<1>1. CASE Upgrade
  <2>1. /\ \A r \in Runs : ~Started(r)
        /\ cache' = EmptyFile
        /\ UNCHANGED <<profiles, pc, model, buffer, data, service>>
    BY <1>1 DEF Upgrade, locals
  <2>2. \A r \in Runs : buffer[r] = <<>>
    <3>1. \A r \in Runs : pc[r] # "scoring"
      BY <2>1 DEF Started
    <3> QED
      BY <3>1 DEF TypeOK
  <2>3. cache'.rows = <<>>
    BY <2>1 DEF EmptyFile
  <2>4. (\A r \in Runs : /\ Of(buffer[r], config)
                         /\ Started(r) => model[r] = config /\ Of(data[r], config))'
    BY <2>1, <2>2 DEF Of, Started
  <2> QED
    BY <2>1, <2>3, <2>4 DEF EvidenceInv, Of
<1>2. CASE Serving
  <2>1. /\ UNCHANGED <<config, cache, profiles, pc, model, buffer, data>>
        /\ service'.loaded \in {NoEntries, profiles, service.loaded}
    BY <1>2, ServingDoes
  <2>2. OwnEvidence(NoEntries)
    BY DEF OwnEvidence, NoEntries
  <2>3. OwnEvidence(service'.loaded)
    BY <2>1, <2>2 DEF EvidenceInv
  <2> QED
    BY <2>1, <2>3 DEF EvidenceInv, Started
<1>3. CASE UNCHANGED vars
  BY <1>3 DEF vars, files, locals, EvidenceInv, Started
<1> QED
  BY <1>1, <1>2, <1>3, EvidenceStep DEF Next, Serving

(* If the cache is deleted on every upgrade, what the service accepts it   *)
(* accepts on evidence measured with the model it serves, however many     *)
(* calibrations run side by side and wherever they are killed.             *)
THEOREM EvidenceIsOfServedModel ==
  ASSUME FreshCache
  PROVE  Spec => []EvidenceFromServedModel
<1>1. Init => TypeOK /\ EvidenceInv
  BY InitTyped, EvidenceBegins
<1>2. TypeOK /\ EvidenceInv /\ [Next]_vars => (TypeOK /\ EvidenceInv)'
  BY TypeStep, EvidenceGoesOn
<1>3. TypeOK /\ EvidenceInv => EvidenceFromServedModel
  <2> SUFFICES ASSUME EvidenceInv, NEW w \in Workloads, Accepts(w), TypeOK,
                      NEW m \in Range(service.loaded[w].samples)
               PROVE  m.config = service.config
    BY DEF EvidenceFromServedModel
  <2> DEFINE p == service.loaded[w]
  <2>1. p # NoProfile /\ p.config = service.config
    BY DEF Accepts, Compatible
  <2>2. p \in Profile
    BY <2>1 DEF TypeOK, Registries
  <2>3. p.samples \in Seq(Measurements)
    BY <2>2 DEF Profile
  <2>4. Of(p.samples, p.config)
    BY <2>1 DEF EvidenceInv, OwnEvidence
  <2> HIDE DEF p
  <2>5. PICK i \in 1..Len(p.samples) : m = p.samples[i]
    BY <2>3 DEF Range, p
  <2> QED
    BY <2>1, <2>4, <2>5 DEF Of
<1> QED
  BY <1>1, <1>2, <1>3, PTL DEF Spec

-----------------------------------------------------------------------------
(* A scored split.                                                         *)

Answered(ms, e) == \A q \in Range(Questions[e]) : \E i \in 1..Len(ms) : ms[i].ex = e /\ ms[i].q = q

(* The cache repeats nothing, and what it has in part is known to be.      *)
CacheOK(f, sp) == Distinct(f.rows) /\ InPart(f.rows) \subseteq sp

(* Neither do the data of a process, which cover what is no longer to do.  *)
DataOK(ms, sel, sp, td) ==
  /\ Distinct(ms)
  /\ \A e \in sel \ sp : (\A i \in 1..Len(td) : td[i] # e) => Answered(ms, e)

(* An example is to do once, and the cache knows nothing of it.            *)
TodoOK(td, f) ==
  /\ \A i, j \in 1..Len(td) : td[i] = td[j] => i = j
  /\ \A i \in 1..Len(td) : td[i] \notin ExamplesOf(f.rows)

(* The buffer holds the first measurements of the example that is next to  *)
(* do, and the data hold no others of what is to do.                       *)
BufferOK(bf, ms, td) ==
  /\ td # <<>> => Len(bf) <= Len(Questions[td[1]])
  /\ \A k \in 1..Len(bf) : /\ bf[k].ex = td[1] /\ bf[k].q = Questions[td[1]][k]
                           /\ \E j \in 1..Len(ms) : ms[j] = bf[k]
  /\ \A j \in 1..Len(ms), i \in 1..Len(td) :
       ms[j].ex = td[i] => i = 1 /\ \E k \in 1..Len(bf) : ms[j] = bf[k]

(* A process that begins reads what the cache has and is to do the rest.   *)
LEMMA DataAtStart ==
  ASSUME NEW f, NEW sp, f.rows \in Seq(Measurements), CacheOK(f, sp), NEW W
  PROVE  LET ms == About(f.rows, W)
             td == Where(Dataset, ExamplesIn(W) \ ExamplesOf(f.rows))
         IN  DataOK(ms, ExamplesIn(W), sp, td) /\ TodoOK(td, f) /\ BufferOK(<<>>, ms, td)
<1> DEFINE ms == About(f.rows, W)
           td == Where(Dataset, ExamplesIn(W) \ ExamplesOf(f.rows))
<1>1. /\ td \in Seq(Examples)
      /\ \A k \in 1..Len(td) : td[k] \in ExamplesIn(W) \ ExamplesOf(f.rows)
      /\ \A k, l \in 1..Len(td) : td[k] = td[l] => k = l
      /\ \A e \in Examples \cap (ExamplesIn(W) \ ExamplesOf(f.rows)) : \E k \in 1..Len(td) : td[k] = e
  BY TodoReads
<1>2. Distinct(f.rows) /\ InPart(f.rows) \subseteq sp
  BY DEF CacheOK
<1>3. /\ ms \in Seq(Measurements)
      /\ \A k \in 1..Len(ms) : \E i \in 1..Len(f.rows) : ms[k] = f.rows[i]
      /\ \A i \in 1..Len(f.rows) : WorkloadOf[f.rows[i].ex] \in W => \E k \in 1..Len(ms) : ms[k] = f.rows[i]
      /\ Distinct(ms)
  BY <1>2, AboutReads
<1> HIDE DEF ms, td
<1>4. ASSUME NEW e \in ExamplesIn(W) \ sp, \A i \in 1..Len(td) : td[i] # e
      PROVE  Answered(ms, e)
  <2>1. e \in Examples /\ WorkloadOf[e] \in W
    BY DEF ExamplesIn
  <2>2. e \in ExamplesOf(f.rows) /\ e \notin InPart(f.rows)
    BY <1>1, <1>2, <1>4, <2>1
  <2>3. ASSUME NEW q \in Range(Questions[e])
        PROVE  \E i \in 1..Len(ms) : ms[i].ex = e /\ ms[i].q = q
    <3>1. PICK i \in 1..Len(f.rows) : f.rows[i].ex = e /\ f.rows[i].q = q
      BY <2>2 DEF InPart
    <3>2. PICK k \in 1..Len(ms) : ms[k] = f.rows[i]
      BY <1>3, <2>1, <3>1
    <3> QED
      BY <3>1, <3>2
  <2> QED
    BY <2>3 DEF Answered
<1>5. ASSUME NEW j \in 1..Len(ms), NEW i \in 1..Len(td), ms[j].ex = td[i]
      PROVE  FALSE
  <2>1. ms[j].ex \in ExamplesOf(f.rows)
    BY <1>3 DEF ExamplesOf
  <2> QED
    BY <1>1, <1>5, <2>1
<1>6. td # <<>> => 0 <= Len(Questions[td[1]])
  <2>1. td # <<>> => td[1] \in Examples
    BY <1>1
  <2> QED
    BY <2>1, QuestionsArePositions
<1>7. DataOK(ms, ExamplesIn(W), sp, td)
  BY <1>3, <1>4 DEF DataOK
<1>8. TodoOK(td, f)
  BY <1>1 DEF TodoOK
<1>9. BufferOK(<<>>, ms, td)
  BY <1>5, <1>6 DEF BufferOK
<1> QED
  BY <1>7, <1>8, <1>9 DEF ms, td

(* The next question of the example that is next to do is a new decision.  *)
LEMMA DataAtScore ==
  ASSUME NEW ms \in Seq(Measurements), NEW bf \in Seq(Measurements), NEW td \in Seq(Examples), td # <<>>,
         NEW sel, NEW sp, NEW f,
         DataOK(ms, sel, sp, td), TodoOK(td, f), BufferOK(bf, ms, td),
         Len(bf) < Len(Questions[td[1]]),
         NEW m \in Measurements, m.ex = td[1], m.q = Questions[td[1]][Len(bf) + 1]
  PROVE  DataOK(Append(ms, m), sel, sp, td) /\ BufferOK(Append(bf, m), Append(ms, m), td)
<1> DEFINE e == td[1]
           k == Len(bf) + 1
           rs == Append(ms, m)
           cs == Append(bf, m)
<1>1. e \in Examples /\ 1 \in 1..Len(td) /\ Len(td) \in Nat
  OBVIOUS
<1>2. k \in 1..Len(Questions[e]) /\ Len(bf) \in Nat /\ Len(ms) \in Nat /\ Len(Questions[e]) \in Nat
  BY <1>1, QuestionsArePositions
<1>3. /\ rs \in Seq(Measurements) /\ Len(rs) = Len(ms) + 1 /\ rs[Len(ms) + 1] = m
      /\ \A i \in 1..Len(ms) : rs[i] = ms[i]
  BY AppendReads
<1>4. /\ cs \in Seq(Measurements) /\ Len(cs) = Len(bf) + 1 /\ cs[Len(bf) + 1] = m
      /\ \A i \in 1..Len(bf) : cs[i] = bf[i]
  BY AppendReads
<1>5. m.ex = e /\ m.q = Questions[e][k]
  OBVIOUS
<1> HIDE DEF e, k, rs, cs
<1>6. \A j \in 1..Len(ms) : ~(ms[j].ex = e /\ ms[j].q = Questions[e][k])
  <2> SUFFICES ASSUME NEW j \in 1..Len(ms), ms[j].ex = e, ms[j].q = Questions[e][k]
               PROVE  FALSE
    OBVIOUS
  <2>1. PICK l \in 1..Len(bf) : ms[j] = bf[l]
    BY <1>1 DEF BufferOK, e
  <2>2. ms[j].q = Questions[e][l]
    BY <2>1 DEF BufferOK, e
  <2>3. l \in 1..Len(Questions[e]) /\ l # k
    BY <1>2 DEF k
  <2>4. Questions[e][k] = Questions[e][l] => k = l
    BY <1>1, <1>2, <2>3, QuestionsArePositions
  <2> QED
    BY <2>2, <2>3, <2>4
<1>7. /\ \A i \in 1..Len(rs) : i \in 1..Len(ms) \/ i = Len(ms) + 1
      /\ \A i \in 1..Len(cs) : i \in 1..Len(bf) \/ i = Len(bf) + 1
      /\ \A i \in 1..Len(ms) : i \in 1..Len(rs)
      /\ \A i \in 1..Len(bf) : i \in 1..Len(cs)
      /\ Len(ms) + 1 \in 1..Len(rs) /\ Len(bf) + 1 \in 1..Len(cs)
  BY <1>2, <1>3, <1>4
<1>8. DataOK(rs, sel, sp, td)
  <2>1. Distinct(rs)
    <3> SUFFICES ASSUME NEW i \in 1..Len(rs), NEW j \in 1..Len(rs), rs[i].ex = rs[j].ex, rs[i].q = rs[j].q
                 PROVE  i = j
      BY DEF Distinct
    <3>1. CASE i \in 1..Len(ms) /\ j \in 1..Len(ms)
      <4>1. rs[i] = ms[i] /\ rs[j] = ms[j]
        BY <1>3, <3>1
      <4> QED
        BY <3>1, <4>1 DEF DataOK, Distinct
    <3>2. CASE i \in 1..Len(ms) /\ j = Len(ms) + 1
      <4>1. rs[i] = ms[i] /\ rs[j] = m
        BY <1>3, <3>2
      <4> QED
        BY <1>5, <1>6, <3>2, <4>1
    <3>3. CASE i = Len(ms) + 1 /\ j \in 1..Len(ms)
      <4>1. rs[i] = m /\ rs[j] = ms[j]
        BY <1>3, <3>3
      <4> QED
        BY <1>5, <1>6, <3>3, <4>1
    <3> QED
      BY <1>7, <3>1, <3>2, <3>3
  <2>2. ASSUME NEW x, Answered(ms, x)
        PROVE  Answered(rs, x)
    BY <1>3, <1>7, <2>2 DEF Answered
  <2> QED
    BY <2>1, <2>2 DEF DataOK
<1>9. BufferOK(cs, rs, td)
  <2>1. Len(cs) <= Len(Questions[td[1]])
    BY <1>2, <1>4 DEF k, e
  <2>2. ASSUME NEW l \in 1..Len(cs)
        PROVE  cs[l].ex = td[1] /\ cs[l].q = Questions[td[1]][l] /\ \E j \in 1..Len(rs) : rs[j] = cs[l]
    <3>1. CASE l \in 1..Len(bf)
      <4>1. cs[l] = bf[l] /\ bf[l].ex = td[1] /\ bf[l].q = Questions[td[1]][l]
        BY <1>4, <3>1 DEF BufferOK
      <4>2. PICK j \in 1..Len(ms) : ms[j] = bf[l]
        BY <3>1 DEF BufferOK
      <4> QED
        BY <1>3, <1>7, <4>1, <4>2
    <3>2. CASE l = Len(bf) + 1
      BY <1>3, <1>4, <1>7, <3>2
    <3> QED
      BY <1>7, <3>1, <3>2
  <2>3. ASSUME NEW j \in 1..Len(rs), NEW i \in 1..Len(td), rs[j].ex = td[i]
        PROVE  i = 1 /\ \E l \in 1..Len(cs) : rs[j] = cs[l]
    <3>1. CASE j \in 1..Len(ms)
      <4>1. ms[j].ex = td[i] /\ rs[j] = ms[j]
        BY <1>3, <2>3, <3>1
      <4>2. i = 1 /\ \E l \in 1..Len(bf) : ms[j] = bf[l]
        BY <3>1, <4>1 DEF BufferOK
      <4> QED
        BY <1>4, <1>7, <4>1, <4>2
    <3>2. CASE j = Len(ms) + 1
      <4>1. rs[j] = m /\ cs[Len(bf) + 1] = m
        BY <1>3, <1>4, <3>2
      <4>2. i = 1
        BY <1>1, <1>5, <2>3, <4>1 DEF TodoOK, e
      <4> QED
        BY <1>7, <4>1, <4>2
    <3> QED
      BY <1>7, <3>1, <3>2
  <2> QED
    BY <2>1, <2>2, <2>3 DEF BufferOK
<1> QED
  BY <1>8, <1>9 DEF rs, cs

(* What is buffered is new to the cache.                                   *)
NewTo(bf, f) ==
  \A k \in 1..Len(f.rows), l \in 1..Len(bf) : ~(f.rows[k].ex = bf[l].ex /\ f.rows[k].q = bf[l].q)

(* What is held back is new to the file: it is about an example still to   *)
(* do.                                                                     *)
LEMMA BufferIsNew ==
  ASSUME NEW ms, NEW bf \in Seq(Measurements), NEW td \in Seq(Examples), td # <<>>, NEW f,
         TodoOK(td, f), BufferOK(bf, ms, td)
  PROVE  Distinct(bf) /\ NewTo(bf, f)
<1>1. 1 \in 1..Len(td) /\ td[1] \in Examples
  OBVIOUS
<1>2. Len(bf) \in Nat /\ Len(Questions[td[1]]) \in Nat /\ Len(bf) <= Len(Questions[td[1]])
  BY <1>1, QuestionsArePositions DEF BufferOK
<1>3. \A k \in 1..Len(bf) : k \in 1..Len(Questions[td[1]]) /\ bf[k].ex = td[1] /\ bf[k].q = Questions[td[1]][k]
  BY <1>2 DEF BufferOK
<1>4. Distinct(bf)
  BY <1>1, <1>3, QuestionsArePositions DEF Distinct
<1>5. td[1] \notin ExamplesOf(f.rows)
  BY <1>1 DEF TodoOK
<1> QED
  BY <1>3, <1>4, <1>5 DEF ExamplesOf, NewTo

(* What all questions of an example add to a cache leaves nothing in part. *)
LEMMA WholeExampleFits ==
  ASSUME NEW s \in Seq(Measurements), NEW b \in Seq(Measurements), NEW e \in Examples,
         \A k \in 1..Len(b) : b[k].ex = e,
         \A k \in 1..Len(Questions[e]) : k \in 1..Len(b) /\ b[k].q = Questions[e][k]
  PROVE  InPart(s \o b) \subseteq InPart(s)
<1> DEFINE t == s \o b
<1>1. /\ t \in Seq(Measurements) /\ Len(s) \in Nat /\ Len(b) \in Nat /\ Len(t) = Len(s) + Len(b)
      /\ \A i \in 1..Len(s) : t[i] = s[i]
      /\ \A i \in 1..Len(b) : t[Len(s) + i] = b[i]
  BY ConcatReads
<1> HIDE DEF t
<1>2. \A i \in 1..Len(s) : i \in 1..Len(t)
  BY <1>1
<1>3. \A i \in 1..Len(b) : Len(s) + i \in 1..Len(t)
  BY <1>1
<1> SUFFICES ASSUME NEW x \in InPart(t)
             PROVE  x \in InPart(s)
  BY DEF t
<1>4. PICK q \in Range(Questions[x]) : \A i \in 1..Len(t) : t[i].ex = x => t[i].q # q
  BY DEF InPart
<1>5. x # e
  <2>0. \A p \in Range(Questions[e]) : \E k \in 1..Len(Questions[e]) : p = Questions[e][k]
    BY QuestionsArePositions
  <2> SUFFICES ASSUME x = e
               PROVE  FALSE
    OBVIOUS
  <2>1. PICK k \in 1..Len(Questions[e]) : q = Questions[e][k]
    <3>1. q \in Range(Questions[e])
      BY <1>4
    <3> QED
      BY <2>0, <3>1
  <2>2. b[k].ex = e /\ b[k].q = q /\ t[Len(s) + k] = b[k] /\ Len(s) + k \in 1..Len(t)
    BY <1>1, <1>3, <2>1
  <2> QED
    BY <1>4, <2>2
<1>6. PICK i \in 1..Len(t) : t[i].ex = x
  BY DEF InPart, ExamplesOf
<1>7. i \in 1..Len(s)
  <2> SUFFICES ASSUME i \notin 1..Len(s)
               PROVE  FALSE
    OBVIOUS
  <2>1. i - Len(s) \in 1..Len(b) /\ Len(s) + (i - Len(s)) = i
    BY <1>1
  <2>2. t[i] = b[i - Len(s)] /\ b[i - Len(s)].ex = e
    BY <1>1, <2>1
  <2> QED
    BY <1>5, <1>6, <2>2
<1>8. x \in ExamplesOf(s)
  BY <1>1, <1>6, <1>7 DEF ExamplesOf
<1>9. \A l \in 1..Len(s) : s[l].ex = x => s[l].q # q
  BY <1>1, <1>2, <1>4
<1> QED
  BY <1>4, <1>8, <1>9 DEF InPart

(* An example that is scored is no longer to do.                           *)
LEMMA DataAtFlush ==
  ASSUME NEW ms \in Seq(Measurements), NEW bf \in Seq(Measurements), NEW td \in Seq(Examples), td # <<>>,
         NEW sel, NEW sp, NEW more, sp \subseteq more, NEW f, NEW g,
         DataOK(ms, sel, sp, td), TodoOK(td, f), BufferOK(bf, ms, td),
         Len(bf) = Len(Questions[td[1]]),
         ExamplesOf(g.rows) \subseteq ExamplesOf(f.rows) \cup {td[1]}
  PROVE  DataOK(ms, sel, more, Tail(td)) /\ TodoOK(Tail(td), g) /\ BufferOK(<<>>, ms, Tail(td))
<1> DEFINE e == td[1]
           t == Tail(td)
<1>1. e \in Examples /\ 1 \in 1..Len(td) /\ Len(td) \in Nat \ {0}
  OBVIOUS
<1>2. /\ t \in Seq(Examples) /\ Len(t) = Len(td) - 1
      /\ \A i \in 1..Len(t) : t[i] = td[i + 1] /\ i + 1 \in 1..Len(td) /\ i + 1 # 1
  BY <1>1, RestReads
<1> HIDE DEF t
<1>3. \A i \in 1..Len(t) : t[i] # e
  BY <1>1, <1>2 DEF TodoOK
<1>4. TodoOK(t, g)
  <2>1. ASSUME NEW i \in 1..Len(t)
        PROVE  t[i] \notin ExamplesOf(g.rows)
    <3>1. td[i + 1] \notin ExamplesOf(f.rows)
      BY <1>2 DEF TodoOK
    <3> QED
      BY <1>2, <1>3, <3>1
  <2>2. ASSUME NEW i \in 1..Len(t), NEW l \in 1..Len(t), t[i] = t[l]
        PROVE  i = l
    <3>1. i + 1 = l + 1
      BY <1>2, <2>2 DEF TodoOK
    <3> QED
      BY <3>1
  <2> QED
    BY <2>1, <2>2 DEF TodoOK
<1>5. BufferOK(<<>>, ms, t)
  <2>1. t # <<>> => 0 <= Len(Questions[t[1]])
    <3>1. t # <<>> => t[1] \in Examples
      BY <1>2
    <3> QED
      BY <3>1, QuestionsArePositions
  <2>2. ASSUME NEW i \in 1..Len(t), NEW l \in 1..Len(ms), ms[l].ex = t[i]
        PROVE  FALSE
    <3>1. ms[l].ex = td[i + 1] /\ i + 1 \in 1..Len(td) /\ i + 1 # 1
      BY <1>2, <2>2
    <3> QED
      BY <3>1 DEF BufferOK
  <2> QED
    BY <2>1, <2>2 DEF BufferOK
<1>6. ASSUME NEW x \in sel \ more, \A i \in 1..Len(t) : t[i] # x
      PROVE  Answered(ms, x)
  <2>1. CASE x = e
    <3>1. ASSUME NEW q \in Range(Questions[e])
          PROVE  \E i \in 1..Len(ms) : ms[i].ex = e /\ ms[i].q = q
      <4>0. \A p \in Range(Questions[e]) : \E k \in 1..Len(Questions[e]) : p = Questions[e][k]
        BY <1>1, QuestionsArePositions
      <4>1. PICK k \in 1..Len(Questions[e]) : q = Questions[e][k]
        BY <4>0
      <4>2. k \in 1..Len(bf) /\ bf[k].ex = e /\ bf[k].q = q
        BY <4>1 DEF BufferOK
      <4> QED
        BY <4>2 DEF BufferOK
    <3> QED
      BY <2>1, <3>1 DEF Answered
  <2>2. CASE x # e
    <3>1. ASSUME NEW i \in 1..Len(td)
          PROVE  td[i] # x
      <4>1. CASE i = 1
        BY <2>2, <4>1
      <4>2. CASE i # 1
        <5>1. i - 1 \in 1..Len(t) /\ (i - 1) + 1 = i
          BY <1>1, <1>2, <4>2
        <5> QED
          BY <1>2, <1>6, <5>1
      <4> QED
        BY <4>1, <4>2
    <3> QED
      BY <1>6, <3>1 DEF DataOK
  <2> QED
    BY <2>1, <2>2
<1>7. DataOK(ms, sel, more, t)
  BY <1>6 DEF DataOK
<1> QED
  BY <1>4, <1>5, <1>7 DEF t

-----------------------------------------------------------------------------
(* Calibrations that do not overlap.                                       *)

(* The operator starts a calibration only when no other is under way.      *)
OneAtATime == \A r, s \in Runs : Started(r) /\ Started(s) => r = s

RunOK(r) ==
  /\ DataOK(data[r], ExamplesIn(only[r]), spoiled, todo[r])
  /\ IF pc[r] = "scoring" THEN TodoOK(todo[r], cache) /\ BufferOK(buffer[r], data[r], todo[r])
                          ELSE todo[r] = <<>>

(* A profile counts no decision twice, and passed if it is whole and has   *)
(* enough of them.                                                         *)
Sound(p) ==
  /\ Distinct(p.samples)
  /\ p.metrics = "passing" => p.whole /\ Len(p.samples) >= MinAccepted

SoundProfiles(ps) == \A w \in Workloads : ps[w] # NoProfile => Sound(ps[w])

ScoringInv ==
  /\ CacheOK(cache, spoiled)
  /\ \A r \in Runs : Started(r) => RunOK(r)
  /\ SoundProfiles(profiles) /\ SoundProfiles(service.loaded)

(* An empty cache has nothing in part.                                     *)
LEMMA NothingInPart ==
  ASSUME NEW sp
  PROVE  CacheOK(EmptyFile, sp)
BY DEF CacheOK, EmptyFile, Distinct, InPart, ExamplesOf

(* The scoring invariant holds at first.                                   *)
LEMMA ScoringBegins ==
  ASSUME Init
  PROVE  ScoringInv
BY NothingInPart DEF Init, ScoringInv, SoundProfiles, Started, Down, NoEntries

(* While a process takes a step, no other is at work afterwards.           *)
LEMMA OthersRest ==
  ASSUME TypeOK, OneAtATime, OneAtATime', NEW r \in Runs, Step(r), NEW x \in Runs, x # r
  PROVE  ~(Started(x))'
<1>1. pc'[x] = pc[x]
  BY OthersStay
<1>2. CASE Started(r)
  BY <1>1, <1>2 DEF OneAtATime, Started
<1>3. CASE ~Started(r)
  <2>1. \E W \in SUBSET Workloads : Start(r, W)
    <3>1. Score(r) \/ Flush(r) \/ Scored(r) \/ BeginSummary(r) \/ EndSummary(r) \/ Die(r) => Started(r)
      BY DEF Score, Flush, Scored, BeginSummary, EndSummary, Die, Started
    <3>2. (\E w \in Workloads : BeginProfile(r, w) \/ EndProfile(r, w)) => Started(r)
      BY CalibrationAssumption DEF BeginProfile, EndProfile, Started, Phases
    <3> QED
      BY <1>3, <3>1, <3>2, StepsOf
  <2>2. pc'[r] = "scoring"
    BY <2>1 DEF Start, TypeOK
  <2> QED
    BY <2>2 DEF OneAtATime, Started
<1> QED
  BY <1>2, <1>3

(* A process starts with what the cache has and with the rest to do.       *)
LEMMA StartScores ==
  ASSUME TypeOK, ScoringInv, NEW r \in Runs, NEW W \in SUBSET Workloads, Start(r, W)
  PROVE  CacheOK(cache', spoiled') /\ RunOK(r)'
<1>1. cache.rows \in Seq(Measurements) /\ buffer[r] = <<>>
  <2>1. pc[r] # "scoring"
    BY DEF Start, Started
  <2> QED
    BY <2>1, FileParts DEF TypeOK
<1>2. CacheOK(cache, spoiled)
  BY DEF ScoringInv
<1> DEFINE ms == About(cache.rows, W)
           td == Where(Dataset, ExamplesIn(W) \ ExamplesOf(cache.rows))
<1>3. DataOK(ms, ExamplesIn(W), spoiled, td) /\ TodoOK(td, cache) /\ BufferOK(<<>>, ms, td)
  BY <1>1, <1>2, DataAtStart
<1>4. /\ pc'[r] = "scoring" /\ only'[r] = W /\ data'[r] = ms /\ todo'[r] = td /\ buffer'[r] = <<>>
      /\ cache' = cache /\ spoiled' = spoiled
  BY <1>1 DEF Start, TypeOK, OpenedCache, CachedData, Todo, Known
<1> HIDE DEF ms, td
<1> QED
  BY <1>2, <1>3, <1>4 DEF RunOK

(* A measurement is new to what the process has.                           *)
LEMMA ScoreScores ==
  ASSUME TypeOK, ScoringInv, NEW r \in Runs, Score(r)
  PROVE  CacheOK(cache', spoiled') /\ RunOK(r)'
<1> DEFINE m == [ex |-> todo[r][1], q |-> Questions[todo[r][1]][Len(buffer[r]) + 1], config |-> model[r]]
<1>1. /\ pc[r] = "scoring" /\ todo[r] # <<>> /\ todo[r] \in Seq(Examples) /\ Head(todo[r]) = todo[r][1]
      /\ data[r] \in Seq(Measurements) /\ buffer[r] \in Seq(Measurements) /\ model[r] \in Configs
      /\ Len(buffer[r]) < Len(Questions[todo[r][1]])
  BY RestReads DEF Score, TypeOK
<1>2. m \in Measurements
  <2>1. todo[r][1] \in Examples /\ Len(buffer[r]) \in Nat
    BY <1>1
  <2>2. Len(Questions[todo[r][1]]) \in Nat
    BY <2>1, QuestionsArePositions
  <2>3. Len(buffer[r]) + 1 \in 1..Len(Questions[todo[r][1]])
    BY <1>1, <2>1, <2>2
  <2> QED
    BY <1>1, <2>1, <2>3, MeasurementOfQuestion
<1>3. m.ex = todo[r][1] /\ m.q = Questions[todo[r][1]][Len(buffer[r]) + 1]
  OBVIOUS
<1>4. /\ data'[r] = Append(data[r], m) /\ buffer'[r] = Append(buffer[r], m)
      /\ UNCHANGED <<cache, pc, only, todo, spoiled>>
  BY <1>1 DEF Score, TypeOK, files
<1> HIDE DEF m
<1>5. /\ DataOK(data[r], ExamplesIn(only[r]), spoiled, todo[r]) /\ TodoOK(todo[r], cache)
      /\ BufferOK(buffer[r], data[r], todo[r]) /\ CacheOK(cache, spoiled)
  BY <1>1 DEF ScoringInv, RunOK, Started
<1>6. /\ DataOK(Append(data[r], m), ExamplesIn(only[r]), spoiled, todo[r])
      /\ BufferOK(Append(buffer[r], m), Append(data[r], m), todo[r])
  BY <1>1, <1>2, <1>3, <1>5, DataAtScore
<1> QED
  BY <1>1, <1>4, <1>5, <1>6 DEF RunOK

(* A flush puts nothing into the cache that was there.                     *)
LEMMA FlushScores ==
  ASSUME TypeOK, ScoringInv, NEW r \in Runs, Flush(r)
  PROVE  CacheOK(cache', spoiled') /\ RunOK(r)'
<1> DEFINE b == buffer[r]
           td == todo[r]
           e == todo[r][1]
           s == cache.rows
           t == cache'.rows
<1>1. /\ pc[r] = "scoring" /\ td # <<>> /\ td \in Seq(Examples) /\ Head(td) = e
      /\ data[r] \in Seq(Measurements) /\ b \in Seq(Measurements) /\ cache \in Files(Measurements)
      /\ Len(b) = Len(Questions[e])
  BY RestReads DEF Flush, TypeOK
<1>2. /\ cache' = Flushed(cache, b) /\ buffer'[r] = <<>> /\ todo'[r] = Tail(td)
      /\ spoiled' = IF cache.end = "closed" THEN spoiled ELSE spoiled \cup InPart(t)
      /\ UNCHANGED <<pc, only, data>>
  BY DEF Flush, TypeOK
<1>3. /\ cache' \in Files(Measurements)
      /\ \E m, j \in Nat : Continues(t, s, m, b, j)
      /\ cache.end = "closed" => t = s \o b
  <2> DEFINE g == Flushed(cache, b)
  <2>1. /\ g \in Files(Measurements)
        /\ \E m, j \in Nat : Continues(g.rows, s, m, b, j) /\ j + (Len(g.rows) - m) = Len(b)
        /\ cache.end = "closed" => g.rows = s \o b
    BY <1>1, FlushedReads
  <2> HIDE DEF g
  <2> QED
    BY <1>2, <2>1 DEF g
<1>4. s \in Seq(Measurements) /\ t \in Seq(Measurements)
  BY <1>1, <1>3, FileParts
<1>5. PICK m \in Nat, j \in Nat : Continues(t, s, m, b, j)
  BY <1>3
<1>6. /\ DataOK(data[r], ExamplesIn(only[r]), spoiled, td) /\ TodoOK(td, cache)
      /\ BufferOK(b, data[r], td) /\ CacheOK(cache, spoiled)
  BY <1>1 DEF ScoringInv, RunOK, Started
<1> HIDE DEF b, td, s, t
<1>7. /\ \A k \in 1..Len(b) : b[k].ex = e
      /\ \A k \in 1..Len(Questions[e]) : k \in 1..Len(b) /\ b[k].q = Questions[e][k]
  BY <1>1, <1>6 DEF BufferOK, td
<1>8. CacheOK(cache', spoiled')
  <2>1. Distinct(t)
    <3>0. Distinct(b) /\ NewTo(b, cache)
      BY <1>1, <1>6, BufferIsNew
    <3>1. \A k \in 1..Len(s), l \in 1..Len(b) : ~(s[k].ex = b[l].ex /\ s[k].q = b[l].q)
      BY <3>0 DEF s, NewTo
    <3>2. Distinct(s)
      BY <1>6 DEF CacheOK, s
    <3> QED
      BY <1>1, <1>4, <1>5, <3>0, <3>1, <3>2, ContinuedIsDistinct
  <2>2. InPart(t) \subseteq spoiled'
    <3>1. CASE cache.end = "closed"
      <4>1. t = s \o b /\ spoiled' = spoiled
        BY <1>2, <1>3, <3>1
      <4>2. InPart(s) \subseteq spoiled
        BY <1>6 DEF CacheOK, s
      <4>3. e \in Examples
        BY <1>1 DEF td
      <4>4. InPart(s \o b) \subseteq InPart(s)
        BY <1>1, <1>4, <1>7, <4>3, WholeExampleFits
      <4> QED
        BY <4>1, <4>2, <4>4
    <3>2. CASE cache.end # "closed"
      BY <1>2, <3>2
    <3> QED
      BY <3>1, <3>2
  <2> QED
    BY <2>1, <2>2 DEF CacheOK, t
<1>9. ExamplesOf(t) \subseteq ExamplesOf(s) \cup {e}
  <2>1. ExamplesOf(t) \subseteq ExamplesOf(s) \cup ExamplesOf(b)
    BY <1>1, <1>4, <1>5, ContinuedExamples
  <2>2. ExamplesOf(b) \subseteq {e}
    BY <1>7 DEF ExamplesOf
  <2> QED
    BY <2>1, <2>2
<1>10. spoiled \subseteq spoiled'
  BY <1>2
<1>11. ExamplesOf(cache'.rows) \subseteq ExamplesOf(cache.rows) \cup {td[1]} /\ Len(b) = Len(Questions[td[1]])
  BY <1>1, <1>9 DEF s, t, td
<1>12. /\ DataOK(data[r], ExamplesIn(only[r]), spoiled', Tail(td)) /\ TodoOK(Tail(td), cache')
       /\ BufferOK(<<>>, data[r], Tail(td))
  BY <1>1, <1>6, <1>10, <1>11, DataAtFlush
<1> QED
  BY <1>1, <1>2, <1>8, <1>12 DEF RunOK

(* A kill leaves a cache that repeats nothing, and what is in part is      *)
(* known.                                                                  *)
LEMMA DieScores ==
  ASSUME TypeOK, ScoringInv, NEW r \in Runs, Die(r)
  PROVE  CacheOK(cache', spoiled') /\ ~(Started(r))'
<1> DEFINE b == buffer[r]
           s == cache.rows
           t == cache'.rows
<1>1. pc'[r] = "idle" /\ spoiled' = spoiled \cup InPart(t) /\ Started(r)
  BY DEF Die, TypeOK
<1>2. cache \in Files(Measurements) /\ cache' \in Files(Measurements) /\ b \in Seq(Measurements)
  BY DieDoes DEF TypeOK
<1>3. s \in Seq(Measurements) /\ t \in Seq(Measurements)
  BY <1>2, FileParts
<1>4. PICK m \in Nat, j \in Nat : Continues(t, s, m, b, j)
  BY DieDoes
<1>5. Distinct(s)
  BY DEF ScoringInv, CacheOK
<1>6. /\ Distinct(b)
      /\ \A k \in 1..Len(s), l \in 1..Len(b) : ~(s[k].ex = b[l].ex /\ s[k].q = b[l].q)
  <2>1. CASE b = <<>>
    BY <2>1 DEF Distinct
  <2>2. CASE b # <<>>
    <3>1. pc[r] = "scoring" /\ todo[r] # <<>> /\ todo[r] \in Seq(Examples)
      BY <2>2 DEF TypeOK
    <3>2. TodoOK(todo[r], cache) /\ BufferOK(b, data[r], todo[r])
      BY <1>1, <3>1 DEF ScoringInv, RunOK
    <3>3. Distinct(b) /\ NewTo(b, cache)
      BY <1>2, <3>1, <3>2, BufferIsNew
    <3> QED
      BY <3>3 DEF NewTo
  <2> QED
    BY <2>1, <2>2
<1> HIDE DEF b, s, t
<1>7. Distinct(t)
  BY <1>2, <1>3, <1>4, <1>5, <1>6, ContinuedIsDistinct
<1> QED
  BY <1>1, <1>7 DEF CacheOK, Started, t

(* Fitting neither scores nor touches the cache.                           *)
LEMMA FittingScores ==
  ASSUME TypeOK, ScoringInv, NEW r \in Runs,
         \/ Scored(r) \/ BeginSummary(r) \/ EndSummary(r)
         \/ \E w \in Workloads : BeginProfile(r, w) \/ EndProfile(r, w)
  PROVE  CacheOK(cache', spoiled') /\ RunOK(r)'
<1>1. UNCHANGED <<cache, spoiled, only, data, todo, buffer>>
  BY DEF Scored, BeginSummary, EndSummary, BeginProfile, EndProfile, files, locals
<1>2. Started(r) /\ pc'[r] # "scoring" /\ todo[r] = <<>>
  <2>1. CASE Scored(r)
    BY <2>1 DEF Scored, Started, TypeOK
  <2>2. ASSUME pc[r] \in {"fitting", "closing"} \cup Workloads, pc'[r] \in {"fitting", "closing", "done"} \cup Workloads
        PROVE  Started(r) /\ pc'[r] # "scoring" /\ todo[r] = <<>>
    <3>1. Started(r) /\ pc[r] # "scoring" /\ pc'[r] # "scoring"
      BY <2>2, CalibrationAssumption DEF Started, Phases
    <3> QED
      BY <3>1 DEF ScoringInv, RunOK
  <2>3. BeginSummary(r) \/ EndSummary(r) \/ (\E w \in Workloads : BeginProfile(r, w) \/ EndProfile(r, w)) =>
          pc[r] \in {"fitting", "closing"} \cup Workloads /\ pc'[r] \in {"fitting", "closing", "done"} \cup Workloads
    BY DEF BeginSummary, EndSummary, BeginProfile, EndProfile, TypeOK
  <2> QED
    BY <2>1, <2>2, <2>3
<1> QED
  BY <1>1, <1>2 DEF ScoringInv, RunOK

(* What a process writes is sound.                                         *)
LEMMA ProfilesStaySound ==
  ASSUME TypeOK, ScoringInv, NEW r \in Runs, Step(r)
  PROVE  SoundProfiles(profiles')
<1>0. SoundProfiles(profiles) /\ profiles \in Registries
  BY DEF ScoringInv, TypeOK
<1>1. ASSUME NEW w \in Workloads, NEW p, profiles' = [profiles EXCEPT ![w] = p],
             Started(r), p.samples = About(data[r], {w}),
             p.metrics = "passing" => p.whole /\ Len(p.samples) >= MinAccepted
      PROVE  SoundProfiles(profiles')
  <2>1. Distinct(data[r]) /\ data[r] \in Seq(Measurements)
    BY <1>1 DEF ScoringInv, RunOK, DataOK, TypeOK
  <2>2. Distinct(About(data[r], {w}))
    BY <2>1, AboutReads
  <2>3. Sound(p)
    BY <1>1, <2>2 DEF Sound
  <2> QED
    BY <1>0, <1>1, <2>3 DEF SoundProfiles, Registries
<1>2. ASSUME Die(r)
      PROVE  SoundProfiles(profiles')
  <2>1. Started(r)
    BY <1>2 DEF Die
  <2>2. CASE profiles' = profiles
    BY <1>0, <2>2
  <2>3. CASE profiles' # profiles
    <3>1. PICK p \in Profile :
            /\ pc[r] \in Workloads /\ profiles' = [profiles EXCEPT ![pc[r]] = p]
            /\ p.config = model[r] /\ p.samples = About(data[r], {pc[r]})
            /\ p.metrics = "passing" => p.whole /\ Len(p.samples) >= MinAccepted
      BY <1>2, <2>3, DieDoes
    <3> QED
      BY <1>1, <2>1, <3>1
  <2> QED
    BY <2>2, <2>3
<1>3. ASSUME NEW w \in Workloads, EndProfile(r, w)
      PROVE  SoundProfiles(profiles')
  <2>1. PICK met \in SUBSET Gates : profiles' = [profiles EXCEPT ![w] = Fitted(r, w, met)]
    BY <1>3 DEF EndProfile
  <2>2. Started(r)
    BY <1>3, CalibrationAssumption DEF EndProfile, Started, Phases
  <2> DEFINE p == Fitted(r, w, met)
  <2>3. p.samples = About(data[r], {w}) /\ p.whole /\ (p.metrics = "passing" => Len(p.samples) >= MinAccepted)
    <3>1. model[r] \in Configs /\ data[r] \in Seq(Measurements)
      BY DEF TypeOK
    <3> QED
      BY <3>1, FittedReads
  <2> HIDE DEF p
  <2>4. profiles' = [profiles EXCEPT ![w] = p]
    BY <2>1 DEF p
  <2> QED
    BY <1>1, <2>2, <2>3, <2>4
<1>4. ASSUME NEW w \in Workloads, BeginProfile(r, w)
      PROVE  SoundProfiles(profiles')
  BY <1>0, <1>4 DEF BeginProfile, SoundProfiles, Registries
<1>5. ASSUME profiles' = profiles
      PROVE  SoundProfiles(profiles')
  BY <1>0, <1>5
<1> QED
  BY <1>2, <1>3, <1>4, <1>5, StepsOf DEF Start, Score, Flush, Scored, BeginSummary, EndSummary, files

(* While calibrations do not overlap, every step keeps the scoring         *)
(* invariant.                                                              *)
LEMMA ScoringGoesOn ==
  ASSUME TypeOK, OneAtATime, OneAtATime', ScoringInv, [Next]_vars
  PROVE  ScoringInv'
<1>1. ASSUME NEW r \in Runs, Step(r)
      PROVE  ScoringInv'
  <2>1. CacheOK(cache', spoiled') /\ ((Started(r))' => RunOK(r)')
    BY <1>1, StepsOf, StartScores, ScoreScores, FlushScores, DieScores, FittingScores
  <2>2. \A x \in Runs : x # r => ~(Started(x))'
    BY <1>1, OthersRest
  <2>3. service' = service
    BY <1>1, StepsOf DEF Start, Score, Flush, Scored, BeginProfile, EndProfile, BeginSummary, EndSummary, Die
  <2>4. SoundProfiles(profiles')
    BY <1>1, ProfilesStaySound
  <2>5. (\A x \in Runs : Started(x) => RunOK(x))'
    BY <2>1, <2>2
  <2> QED
    BY <2>1, <2>3, <2>4, <2>5 DEF ScoringInv
<1>2. CASE Upgrade
  <2>1. /\ UNCHANGED <<profiles, pc, only, todo, buffer, data, service, spoiled>>
        /\ \/ cache' = cache
           \/ cache' = EmptyFile /\ \A r \in Runs : ~Started(r)
    BY <1>2 DEF Upgrade, locals
  <2>2. CacheOK(cache', spoiled')
    BY <2>1, NothingInPart DEF ScoringInv
  <2>3. (\A r \in Runs : Started(r) => RunOK(r))'
    BY <2>1 DEF ScoringInv, Started, RunOK
  <2> QED
    BY <2>1, <2>2, <2>3 DEF ScoringInv
<1>3. CASE Serving
  <2>1. /\ UNCHANGED <<cache, profiles, pc, only, todo, buffer, data, spoiled>>
        /\ service'.loaded \in {NoEntries, profiles, service.loaded}
    BY <1>3, ServingDoes
  <2>2. SoundProfiles(NoEntries)
    BY DEF SoundProfiles, NoEntries
  <2>3. SoundProfiles(service'.loaded)
    BY <2>1, <2>2 DEF ScoringInv
  <2> QED
    BY <2>1, <2>3 DEF ScoringInv, Started, RunOK
<1>4. CASE UNCHANGED vars
  BY <1>4 DEF vars, files, locals, ScoringInv, Started, RunOK
<1> QED
  BY <1>1, <1>2, <1>3, <1>4 DEF Next, Serving

(* Where nothing counts twice, there are as many decisions as counts.      *)
LEMMA DistinctAreCounted ==
  ASSUME NEW s \in Seq(Measurements), Distinct(s)
  PROVE  Cardinality({<<m.ex, m.q>> : m \in Range(s)}) = Len(s)
<1> DEFINE D == {<<m.ex, m.q>> : m \in Range(s)}
           f == [i \in 1..Len(s) |-> <<s[i].ex, s[i].q>>]
<1>1. Len(s) \in Nat /\ DOMAIN s = 1..Len(s)
  OBVIOUS
<1>2. f \in Bijection(1..Len(s), D)
  <2>1. \A i \in 1..Len(s) : f[i] \in D
    BY <1>1 DEF Range
  <2>2. \A i, j \in 1..Len(s) : f[i] = f[j] => i = j
    BY DEF Distinct
  <2>3. \A d \in D : \E i \in 1..Len(s) : f[i] = d
    BY <1>1 DEF Range
  <2>4. f \in [1..Len(s) -> D]
    BY <2>1
  <2> HIDE DEF D, f
  <2>5. DOMAIN f = 1..Len(s)
    BY <2>4
  <2>6. IsInjective(f)
    BY <2>2, <2>5 DEF IsInjective
  <2> QED
    BY <2>3, <2>4, <2>6 DEF Bijection, Injection, Surjection
<1>3. ExistsBijection(1..Len(s), D)
  BY <1>2 DEF ExistsBijection
<1> HIDE DEF D, f
<1>4. Cardinality(D) = Len(s)
  BY <1>1, <1>3, FS_CountingElements
<1> QED
  BY <1>4 DEF D

(* If calibrations never overlap, it holds for ever.                       *)
LEMMA ScoringIsInvariant == Spec /\ []OneAtATime => [](TypeOK /\ ScoringInv)
<1>1. Init => TypeOK /\ ScoringInv
  BY InitTyped, ScoringBegins
<1>2. TypeOK /\ ScoringInv /\ OneAtATime /\ OneAtATime' /\ [Next]_vars => (TypeOK /\ ScoringInv)'
  BY TypeStep, ScoringGoesOn
<1> QED
  BY <1>1, <1>2, PTL DEF Spec

(* As long as calibrations do not overlap, however often each is killed    *)
(* and started again: no profile counts a decision twice, and what the     *)
(* service accepts rests on a profile that was written to its end and      *)
(* certified by enough distinct decisions.                                 *)
THEOREM AcceptsOnEvidence == Spec /\ []OneAtATime => []AcceptedOnEvidence
<1>1. TypeOK /\ ScoringInv => AcceptedOnEvidence
  <2> SUFFICES ASSUME TypeOK, ScoringInv
               PROVE  AcceptedOnEvidence
    OBVIOUS
  <2>1. SamplesAreDistinct
    BY DEF ScoringInv, SoundProfiles, Sound, SamplesAreDistinct, Samples
  <2>2. ASSUME NEW w \in Workloads, Accepts(w)
        PROVE  /\ service.loaded[w].whole
               /\ Cardinality({<<m.ex, m.q>> : m \in Range(service.loaded[w].samples)}) >= MinAccepted
    <3> DEFINE p == service.loaded[w]
    <3>1. p # NoProfile /\ p.metrics = "passing"
      BY <2>2 DEF Accepts, HasValidatedEvidence
    <3>2. p \in Profile
      BY <3>1 DEF TypeOK, Registries
    <3>3. p.samples \in Seq(Measurements)
      BY <3>2 DEF Profile
    <3>4. Sound(p)
      BY <3>1 DEF ScoringInv, SoundProfiles
    <3> HIDE DEF p
    <3>5. p.whole /\ Len(p.samples) >= MinAccepted /\ Distinct(p.samples)
      BY <3>1, <3>4 DEF Sound
    <3>6. Cardinality({<<m.ex, m.q>> : m \in Range(p.samples)}) = Len(p.samples)
      BY <3>3, <3>5, DistinctAreCounted
    <3> QED
      BY <3>5, <3>6 DEF p
  <2> QED
    BY <2>1, <2>2 DEF AcceptedOnEvidence, CertifiedBySamples, CutProfilesNeverAccept
<1> QED
  BY <1>1, ScoringIsInvariant, PTL

-----------------------------------------------------------------------------
(* One calibration after the other.                                        *)

(* A profile written from complete data.                                   *)
Current(p, c, e, sp) ==
  p # NoProfile /\ p.whole /\ p.config = c /\ (e \notin sp => Answered(p.samples, e))

Fitting(r) == pc[r] \notin {"idle", "scoring"}

(* The workloads a process has fitted have such a profile, and are in what *)
(* it will list; before it closes, it has fitted all of its own.           *)
FittedOK(r) ==
  /\ \A e \in Examples : WorkloadOf[e] \in only[r] \ pending[r] =>
       /\ Current(profiles[WorkloadOf[e]], model[r], e, spoiled)
       /\ WorkloadOf[e] \in created[r]
  /\ pc[r] \in {"closing", "done"} => pending[r] = {}

FittedInv == \A r \in Runs : Fitting(r) => FittedOK(r)

(* What a process writes is complete, if its data are.                     *)
LEMMA FittedIsCurrent ==
  ASSUME TypeOK, NEW r \in Runs, NEW e \in Examples, NEW met \in SUBSET Gates,
         DataOK(data[r], ExamplesIn(only[r]), spoiled, <<>>), WorkloadOf[e] \in only[r]
  PROVE  Current(Fitted(r, WorkloadOf[e], met), model[r], e, spoiled)
<1> DEFINE w == WorkloadOf[e]
           p == Fitted(r, w, met)
           ms == data[r]
           t == About(ms, {w})
<1>1. w \in Workloads /\ ms \in Seq(Measurements) /\ model[r] \in Configs
  BY CalibrationAssumption DEF TypeOK
<1>2. p # NoProfile /\ p.whole /\ p.config = model[r] /\ p.samples = t
  BY <1>1, FittedReads
<1>3. \A i \in 1..Len(ms) : WorkloadOf[ms[i].ex] \in {w} => \E k \in 1..Len(t) : t[k] = ms[i]
  BY <1>1, AboutReads
<1>4. ASSUME e \notin spoiled
      PROVE  Answered(t, e)
  <2>1. e \in ExamplesIn(only[r])
    BY DEF ExamplesIn
  <2>2. Answered(ms, e)
    BY <1>4, <2>1 DEF DataOK
  <2> HIDE DEF t, ms
  <2>3. ASSUME NEW q \in Range(Questions[e])
        PROVE  \E k \in 1..Len(t) : t[k].ex = e /\ t[k].q = q
    <3>1. PICK i \in 1..Len(ms) : ms[i].ex = e /\ ms[i].q = q
      BY <2>2 DEF Answered
    <3>2. PICK k \in 1..Len(t) : t[k] = ms[i]
      BY <1>3, <3>1
    <3> QED
      BY <3>1, <3>2
  <2> QED
    BY <2>3 DEF Answered
<1> HIDE DEF p, t
<1> QED
  BY <1>2, <1>4 DEF Current, p

(* What a process has fitted stays whole, current and complete while it    *)
(* runs.                                                                   *)
LEMMA FittedGoesOn ==
  ASSUME TypeOK, ScoringInv, NEW r \in Runs, Fitting(r) => FittedOK(r), Step(r)
  PROVE  (Fitting(r) => FittedOK(r))'
<1>1. CASE (\E W \in SUBSET Workloads : Start(r, W)) \/ Score(r) \/ Flush(r) \/ Die(r)
  <2>1. pc'[r] \in {"idle", "scoring"}
    BY <1>1 DEF Start, Score, Flush, Die, TypeOK
  <2> QED
    BY <2>1 DEF Fitting
<1>2. CASE Scored(r)
  <2>1. pending'[r] = Fits(r) /\ only' = only /\ pc'[r] = "fitting"
    BY <1>2 DEF Scored, TypeOK
  <2>2. \A e \in Examples : WorkloadOf[e] \notin only[r] \ Fits(r)
    BY DEF Fits
  <2> QED
    BY <2>1, <2>2 DEF FittedOK
<1>3. ASSUME NEW w \in Workloads, BeginProfile(r, w)
      PROVE  FittedOK(r)'
  <2>1. /\ pc[r] = "fitting" /\ pc'[r] = w /\ w \in NextToFit(r)
        /\ profiles' = [profiles EXCEPT ![w] = NoProfile]
        /\ UNCHANGED <<only, model, pending, created, spoiled>>
    BY <1>3 DEF BeginProfile, TypeOK, locals
  <2>2. FittedOK(r)
    BY <2>1 DEF Fitting
  <2>3. w \notin {"closing", "done"}
    BY CalibrationAssumption DEF Phases
  <2>4. ASSUME NEW e \in Examples, WorkloadOf[e] \in only[r] \ pending[r]
        PROVE  profiles'[WorkloadOf[e]] = profiles[WorkloadOf[e]]
    <3>1. WorkloadOf[e] \in created[r]
      BY <2>2, <2>4 DEF FittedOK
    <3>2. w # WorkloadOf[e]
      BY <2>1, <2>4, <3>1 DEF NextToFit
    <3> QED
      BY <2>1, <3>2 DEF TypeOK, Registries
  <2> QED
    BY <2>1, <2>2, <2>3, <2>4 DEF FittedOK
<1>4. ASSUME NEW w \in Workloads, EndProfile(r, w)
      PROVE  FittedOK(r)'
  <2>1. PICK met \in SUBSET Gates : profiles' = [profiles EXCEPT ![w] = Fitted(r, w, met)]
    BY <1>4 DEF EndProfile
  <2>2. /\ pc[r] = w /\ pc'[r] = "fitting" /\ pending'[r] = pending[r] \ {w}
        /\ created'[r] = created[r] \cup {w}
        /\ UNCHANGED <<only, model, spoiled>>
    BY <1>4 DEF EndProfile, TypeOK
  <2>3. Started(r) /\ Fitting(r) /\ pc[r] # "scoring"
    BY <2>2, CalibrationAssumption DEF Started, Fitting, Phases
  <2>4. FittedOK(r)
    BY <2>3
  <2>5. DataOK(data[r], ExamplesIn(only[r]), spoiled, <<>>)
    BY <2>3 DEF ScoringInv, RunOK
  <2>6. ASSUME NEW e \in Examples, WorkloadOf[e] \in only[r] \ (pending[r] \ {w})
        PROVE  /\ Current(profiles'[WorkloadOf[e]], model[r], e, spoiled)
               /\ WorkloadOf[e] \in created'[r]
    <3>1. CASE WorkloadOf[e] = w
      <4>1. Current(Fitted(r, w, met), model[r], e, spoiled)
        BY <2>5, <2>6, <3>1, FittedIsCurrent
      <4>2. profiles'[w] = Fitted(r, w, met)
        BY <2>1 DEF TypeOK, Registries
      <4> QED
        BY <2>2, <3>1, <4>1, <4>2
    <3>2. CASE WorkloadOf[e] # w
      <4>1. profiles'[WorkloadOf[e]] = profiles[WorkloadOf[e]]
        BY <2>1, <3>2, CalibrationAssumption DEF TypeOK, Registries
      <4> QED
        BY <2>2, <2>4, <2>6, <3>2, <4>1 DEF FittedOK
    <3> QED
      BY <3>1, <3>2
  <2> QED
    BY <2>2, <2>6 DEF FittedOK
<1>5. CASE BeginSummary(r) \/ EndSummary(r)
  <2>1. /\ UNCHANGED <<profiles, only, model, pending, created, spoiled>>
        /\ pc[r] \in {"fitting", "closing"}
    BY <1>5 DEF BeginSummary, EndSummary, locals
  <2>2. FittedOK(r)
    BY <2>1 DEF Fitting
  <2>3. pending[r] = {}
    <3>1. CASE BeginSummary(r)
      BY <3>1 DEF BeginSummary, NextToFit
    <3>2. CASE EndSummary(r)
      BY <2>2, <3>2 DEF EndSummary, FittedOK
    <3> QED
      BY <1>5, <3>1, <3>2
  <2> QED
    BY <2>1, <2>2, <2>3 DEF FittedOK
<1> QED
  BY <1>1, <1>2, <1>3, <1>4, <1>5, StepsOf

(* When one calibration follows the other, each complete one leaves, for   *)
(* every workload it has examples of, a profile that is whole, of the      *)
(* model it ran, and with every decision of the split but for examples of  *)
(* which a kill once left a part in the cache; whatever was killed, cut    *)
(* short or calibrated for another model before.                           *)
THEOREM RecalibrationMakesUp ==
  ASSUME \A r, s \in Runs : r = s
  PROVE  Spec => []RecalibrationIsComplete
<1>1. OneAtATime
  BY DEF OneAtATime
<1>2. Init => FittedInv
  BY DEF Init, FittedInv, Fitting
<1>3. ASSUME TypeOK, ScoringInv, FittedInv, [Next]_vars
      PROVE  FittedInv'
  <2>1. ASSUME NEW r \in Runs, Step(r)
        PROVE  FittedInv'
    <3>1. (Fitting(r) => FittedOK(r))'
      BY <1>3, <2>1, FittedGoesOn DEF FittedInv
    <3> QED
      BY <3>1 DEF FittedInv
  <2>2. ASSUME UNCHANGED <<profiles, pc, only, model, pending, created, spoiled>>
        PROVE  FittedInv'
    BY <1>3, <2>2 DEF FittedInv, Fitting, FittedOK
  <2> QED
    BY <1>3, <2>1, <2>2, ServingDoes DEF Next, Serving, Upgrade, locals, vars, files
<1>4. ASSUME TypeOK, FittedInv
      PROVE  RecalibrationIsComplete
  <2>1. ASSUME NEW r \in Runs, NEW e \in Examples, Recalibrated(r)
        PROVE  Current(profiles[WorkloadOf[e]], config, e, spoiled)
    <3>1. FittedOK(r) /\ pending[r] = {} /\ model[r] = config /\ WorkloadOf[e] \in only[r]
      BY <1>4, <2>1, CalibrationAssumption DEF FittedInv, Fitting, FittedOK, Recalibrated
    <3> QED
      BY <3>1 DEF FittedOK
  <2>2. ProfilesAreCurrent
    BY <2>1 DEF Current, ProfilesAreCurrent
  <2>3. ASSUME NEW r \in Runs, NEW e \in Examples, Recalibrated(r), e \notin spoiled,
               NEW q \in Range(Questions[e])
        PROVE  \E m \in Range(Samples(WorkloadOf[e])) : m.ex = e /\ m.q = q
    <3> DEFINE t == Samples(WorkloadOf[e])
    <3>1. Current(profiles[WorkloadOf[e]], config, e, spoiled)
      BY <2>1, <2>3
    <3>2. Answered(t, e) /\ profiles[WorkloadOf[e]] # NoProfile
      BY <2>3, <3>1 DEF Current, Samples
    <3>3. profiles[WorkloadOf[e]] \in Profile
      BY <1>4, <3>2, CalibrationAssumption DEF TypeOK, Registries
    <3>4. t \in Seq(Measurements)
      BY <3>3 DEF Profile, Samples
    <3> HIDE DEF t
    <3>5. PICK i \in 1..Len(t) : t[i].ex = e /\ t[i].q = q
      BY <2>3, <3>2 DEF Answered
    <3>6. t[i] \in Range(t)
      BY <3>4, <3>5 DEF Range
    <3> QED
      BY <3>5, <3>6 DEF t
  <2>4. SamplesAreComplete
    BY <2>3 DEF SamplesAreComplete
  <2> QED
    BY <2>2, <2>4 DEF RecalibrationIsComplete
<1>5. TypeOK /\ ScoringInv /\ FittedInv /\ [Next]_vars => FittedInv'
  BY <1>3
<1>6. TypeOK /\ FittedInv => RecalibrationIsComplete
  BY <1>4
<1>7. Spec => []OneAtATime
  <2>1. Init => OneAtATime
    BY <1>1
  <2>2. OneAtATime /\ [Next]_vars => OneAtATime'
    BY DEF OneAtATime
  <2> QED
    BY <2>1, <2>2, PTL DEF Spec
<1> QED
  BY <1>2, <1>5, <1>6, <1>7, ScoringIsInvariant, PTL DEF Spec

=============================================================================
