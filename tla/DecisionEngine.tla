---------------------------- MODULE DecisionEngine ----------------------------
(***************************************************************************)
(* DecisionEngine.evaluate_detailed over the direct-logit backend: compile *)
(* a request, score it one prompt at a time, in microbatches or over a     *)
(* cached prefix, score the choices once more in the rotated order, and    *)
(* assemble the answers.  Numbers are left out but for what decides        *)
(* control: whether a logit is finite, whether the confidence reaches the  *)
(* policy's threshold, and whether the two orders differ beyond its limit. *)
(***************************************************************************)
EXTENDS DecisionPrompts, FiniteSets

CONSTANTS
  Requests,   \* what may be asked
  Engines     \* the configurations of the process: EngineConfig and the model's kind

(* What schemas.py lets in: one or two passes, at least one question, each *)
(* with an identifier of its own (the questions are a dict), and each with *)
(* at least two options that differ.                                       *)
ASSUME RequestAssumption ==
  \A r \in Requests :
    /\ r.passes \in {1, 2}
    /\ r.questions \in Seq(Range(r.questions)) /\ r.questions # <<>>
    /\ \A i, j \in DOMAIN r.questions : r.questions[i].id = r.questions[j].id => i = j
    /\ \A i \in DOMAIN r.questions :
         LET options == r.questions[i].options IN
         /\ r.questions[i].primitive \in Primitives
         /\ options \in Seq(Range(options)) /\ Len(options) >= 2
         /\ \A j, k \in DOMAIN options : options[j] = options[k] => j = k

(* EngineConfig checks nothing of it but that it is an int.                *)
ASSUME EngineAssumption == \A e \in Engines : e.microbatch \in Int

VARIABLES
  engine,     \* the configuration in force
  request,    \* what is being evaluated, in a one-element sequence, or nothing
  phase,      \* "idle", "compile", "score", "assemble", "over"
  pass,       \* 0, or 1 while the choices are scored in the rotated order
  compiled,   \* for each pass, its compiled questions
  measured,   \* for each pass, the measurements so far, in their order
  cache,      \* prefix_out.past_key_values: the tokens it stands for
  answers,    \* the answers assembled so far
  reply       \* "none", "response", "unavailable" or "value_error"

evars == <<engine, request, phase, pass, compiled, measured, cache, answers, reply>>

NoPass == [p \in {0, 1} |-> <<>>]

Asked == request[1]

Init == /\ engine \in Engines
        /\ request = <<>> /\ phase = "idle" /\ pass = 0
        /\ compiled = NoPass /\ measured = NoPass
        /\ cache = <<>> /\ answers = <<>> /\ reply = "none"

Begin(r) ==
  /\ phase \in {"idle", "over"}
  /\ request' = <<r>> /\ phase' = "compile" /\ pass' = 0
  /\ compiled' = NoPass /\ measured' = NoPass
  /\ cache' = <<>> /\ answers' = <<>> /\ reply' = "none"
  /\ UNCHANGED engine

(* The call ends with an exception; what it had is dropped.                *)
Raise(e) == /\ phase' = "over" /\ reply' = e /\ answers' = <<>> /\ cache' = <<>>
            /\ UNCHANGED <<engine, request, pass, compiled, measured>>

(* ------------------------------ compiling ------------------------------ *)
Compile ==
  /\ phase = "compile"
  /\ \A i \in DOMAIN CompiledPass(Asked, pass) : Fits(CompiledPass(Asked, pass)[i])
  /\ compiled' = [compiled EXCEPT ![pass] = Scored(Asked, pass)]
  /\ phase' = "score"
  /\ UNCHANGED <<engine, request, pass, measured, cache, answers, reply>>

(* A prompt is too long, or a letter is not one stable token behind it, on *)
(* which only the tokenizer decides: any compilation may fail.  The first  *)
(* pass is compiled outside the try, so its ValueError goes out as it is.  *)
CompileFails ==
  /\ phase = "compile"
  /\ Raise(IF pass = 0 THEN "value_error" ELSE "unavailable")

(* ------------------------------- scoring ------------------------------- *)
Todo == SubSeq(compiled[pass], Len(measured[pass]) + 1, Len(compiled[pass]))

Scoring == phase = "score" /\ Todo # <<>>

Batched == ~engine.forceSequential /\ Len(compiled[pass]) > 1

OneByOne == ~Batched \/ engine.linearAttention

ByPrefix == ~OneByOne /\ engine.prefixCache /\ SharesPrefix(compiled[pass])

ByMicrobatch == ~OneByOne /\ ~ByPrefix

Measurement(c, seen, finite) == [options |-> c.options, seen |-> seen, finite |-> finite]

Measure(ms) ==
  /\ measured' = [measured EXCEPT ![pass] = @ \o ms]
  /\ UNCHANGED <<engine, request, phase, pass, compiled, answers, reply>>

ScoreOne ==
  /\ Scoring /\ OneByOne
  /\ \E finite \in BOOLEAN : Measure(<<Measurement(Todo[1], Todo[1].prompt, finite)>>)
  /\ UNCHANGED cache

(* The shared prefix goes through the model once.                          *)
Prefill ==
  /\ Scoring /\ ByPrefix /\ cache = <<>>
  /\ cache' = Prefix(Todo[1])
  /\ UNCHANGED <<engine, request, phase, pass, compiled, measured, answers, reply>>

SharedScoreBranch ==
  /\ Scoring /\ ByPrefix /\ cache # <<>>
  /\ LET branch == cache \o SuffixAfter(Todo[1], PrefixLength(compiled[pass][1]))
     IN  /\ \E finite \in BOOLEAN : Measure(<<Measurement(Todo[1], branch, finite)>>)
         /\ cache' = branch

(* The model appends what it is given to the cache it is given; each       *)
(* question gets a copy.                                                   *)
ScoreBranch ==
  /\ Scoring /\ ByPrefix /\ cache # <<>>
  /\ LET branch == cache \o SuffixAfter(Todo[1], PrefixLength(compiled[pass][1]))
     IN  \E finite \in BOOLEAN : Measure(<<Measurement(Todo[1], branch, finite)>>)
  /\ UNCHANGED cache

(* The rows of a microbatch are padded on the right to the longest; the    *)
(* logits of a row are taken at its last token that is not padding.        *)
Padded(c, width) == c.prompt \o [i \in 1..(width - Len(c.prompt)) |-> Pad]

LastUnpadded(row) == SubSeq(row, 1, Cardinality({i \in DOMAIN row : row[i] # Pad}))

Longest(cs) == CHOOSE n \in {Len(cs[i].prompt) : i \in DOMAIN cs} :
                 \A i \in DOMAIN cs : Len(cs[i].prompt) <= n

Microbatch == SubSeq(Todo, 1, IF engine.microbatch < Len(Todo) THEN engine.microbatch
                                                               ELSE Len(Todo))

ScoreMicrobatch ==
  /\ Scoring /\ ByMicrobatch
  /\ \E finite \in [DOMAIN Microbatch -> BOOLEAN] :
       Measure([i \in DOMAIN Microbatch |->
                  Measurement(Microbatch[i],
                              LastUnpadded(Padded(Microbatch[i], Longest(Microbatch))),
                              finite[i])])
  /\ UNCHANGED cache

(* Anything the backend raises ends the request as a whole.                *)
ScoreFails == Scoring /\ Raise("unavailable")

EagerEndPass ==
  /\ phase = "score" /\ Todo = <<>>
  /\ cache' = <<>>
  /\ IF pass = 0 THEN pass' = 1 /\ phase' = "compile" ELSE pass' = pass /\ phase' = "assemble"
  /\ UNCHANGED <<engine, request, compiled, measured, answers, reply>>

EmptyHandedEndPass ==
  /\ phase = "score" /\ Todo = <<>> /\ measured[pass] # <<>>
  /\ cache' = <<>>
  /\ IF pass = 0 /\ Asked.passes = 2
     THEN pass' = 1 /\ phase' = "compile"
     ELSE pass' = pass /\ phase' = "assemble"
  /\ UNCHANGED <<engine, request, compiled, measured, answers, reply>>

EndPass ==
  /\ phase = "score" /\ Todo = <<>>
  /\ cache' = <<>>
  /\ IF pass = 0 /\ Asked.passes = 2
     THEN pass' = 1 /\ phase' = "compile"
     ELSE pass' = pass /\ phase' = "assemble"
  /\ UNCHANGED <<engine, request, compiled, measured, answers, reply>>

(* ------------------------------ assembling ----------------------------- *)
Validated(c) ==
  LET profile == engine.profile IN
  /\ Asked.profile = profile.id
  /\ profile.proven /\ profile.current
  /\ profile.primitive = c.primitive
  /\ Len(c.options) \in profile.cardinalities

(* measurement_r1_by_id                                                    *)
Rotated(c) == {measured[1][j] : j \in {k \in DOMAIN compiled[1] : compiled[1][k].id = c.id}}

Pair(i) == {measured[0][i]} \cup Rotated(compiled[0][i])

PositionalAligned(ms, c) ==
  [o \in {c.options[j] : j \in DOMAIN c.options} |->
     {Reading(m.seen, c.options, o) : m \in ms}]

(* Logits are aligned by option id, whatever letter an option had.         *)
Aligned(ms, c) ==
  [o \in {c.options[j] : j \in DOMAIN c.options} |->
     {Reading(m.seen, m.options, o) : m \in ms}]

ConfidentDisposition(c, swing, confident) ==
  IF Validated(c) /\ ~engine.profile.reviewOnly /\ confident THEN "accept" ELSE "review"

(* evaluate_acceptance: swing says whether the two orders were compared,   *)
(* and then whether they differ beyond the limit of the policy, if it has  *)
(* one.                                                                    *)
Disposition(c, swing, confident) ==
  IF Validated(c) /\ ~engine.profile.reviewOnly /\ swing # "beyond" /\ confident
  THEN "accept" ELSE "review"

Swings(c) == CASE Rotated(c) = {} -> {"none"}
               [] engine.profile.limited -> {"within", "beyond"}
               [] OTHER -> {"within"}

Assembling == phase = "assemble" /\ Len(answers) < Len(compiled[0])

AnswerNext ==
  /\ Assembling
  /\ LET i == Len(answers) + 1
         c == compiled[0][i]
     IN  /\ \A m \in Pair(i) : m.finite
         /\ \E swing \in Swings(c), confident \in BOOLEAN :
              answers' = Append(answers,
                [id |-> c.id, readings |-> Aligned(Pair(i), c), swing |-> swing,
                 status |-> IF Validated(c) THEN "validated" ELSE "uncalibrated",
                 disposition |-> Disposition(c, swing, confident)])
  /\ UNCHANGED <<engine, request, phase, pass, compiled, measured, cache, reply>>

(* A probability that is no number is refused by the answer's schema, as a *)
(* ValidationError, which is a ValueError.                                 *)
AnswerRefused ==
  /\ Assembling
  /\ \E m \in Pair(Len(answers) + 1) : ~m.finite
  /\ Raise("value_error")

Respond ==
  /\ phase = "assemble" /\ Len(answers) = Len(compiled[0])
  /\ phase' = "over" /\ reply' = "response"
  /\ UNCHANGED <<engine, request, pass, compiled, measured, cache, answers>>

Work == \/ Compile \/ CompileFails
        \/ ScoreOne \/ Prefill \/ ScoreBranch \/ ScoreMicrobatch \/ ScoreFails
        \/ EndPass \/ AnswerNext \/ AnswerRefused \/ Respond

Next == Work \/ \E r \in Requests : Begin(r)

Spec == Init /\ [][Next]_evars /\ WF_evars(Work)
-----------------------------------------------------------------------------
TypeOK ==
  /\ engine \in Engines
  /\ request \in {<<>>} \cup {<<r>> : r \in Requests}
  /\ phase \in {"idle", "compile", "score", "assemble", "over"}
  /\ pass \in {0, 1} /\ (phase # "idle" => pass < Asked.passes)
  /\ \A p \in {0, 1} : /\ Len(measured[p]) <= Len(compiled[p])
                        /\ p > pass => compiled[p] = <<>>
  /\ Len(answers) <= Len(compiled[0])
  /\ reply \in {"none", "response", "unavailable", "value_error"}
  /\ (phase = "over") = (reply # "none")

(* The cached prefix of a pass stays what it was computed from: no         *)
(* question's suffix gets into what the other questions are scored on      *)
(* (JEV_AT_HOME_SPEC.md, ADR-03: each branch must own its mutable cache).  *)
BranchesAreIsolated ==
  cache # <<>> => \A i \in DOMAIN compiled[pass] : cache = SubSeq(compiled[pass][i].prompt, 1, Len(cache))

(* A decision that the two orders of a limited policy disagree about, or   *)
(* that no profile with evidence for just this kind of question covers, is *)
(* left to review, whatever else the request contains.                     *)
DoubtfulIsReviewed ==
  \A i \in DOMAIN answers : answers[i].disposition = "accept" =>
    /\ answers[i].status = "validated" /\ answers[i].swing # "beyond"
    /\ LET q == Asked.questions[i] IN
         /\ q.id = answers[i].id
         /\ engine.profile.primitive = q.primitive
         /\ Len(q.options) \in engine.profile.cardinalities
         /\ (Asked.passes = 2 /\ q.primitive = "choice") =>
               Cardinality(UNION {answers[i].readings[o] : o \in DOMAIN answers[i].readings})
                 > Len(q.options)

(* Whatever path scores the questions, the reply is the reference's.       *)
Told == IF phase # "over" THEN <<>>
        ELSE IF reply # "response" THEN <<reply>>
        ELSE <<reply, [i \in DOMAIN answers |-> [id |-> answers[i].id, readings |-> answers[i].readings]]>>

Reference == INSTANCE ReferenceScoring WITH asked <- request, outcome <- Told

ScoresLikeReference == Reference!RSpec

(* Every call of the engine ends.                                          *)
EveryCallEnds == (phase = "compile") ~> (phase = "over")
=============================================================================
