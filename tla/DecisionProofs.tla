---------------------------- MODULE DecisionProofs ----------------------------
(***************************************************************************)
(* Theorems about the decision engine and the service around it, for every *)
(* request the schemas let in, every configuration, every number of        *)
(* callers: what a question is scored on, whichever path scores it.        *)
(***************************************************************************)
EXTENDS DecisionService, SubsequenceLemmas

-----------------------------------------------------------------------------
(* Prompts.                                                                *)

Questions == UNION {Range(r.questions) : r \in Requests}
Ids == {q.id : q \in Questions}
Options == UNION {Range(q.options) : q \in Questions}
Tokens == {"system", "state", "answer", "question", "option", "example"}
            \X ({""} \cup Ids \cup Options)
CompiledQuestions == [id : Ids, primitive : Primitives, options : Seq(Options), prompt : Seq(Tokens)]

(* The padding is no token of a prompt.                                    *)
LEMMA TokensAreNotPadding ==
  Pad \notin Tokens /\ System \in Tokens /\ State \in Tokens /\ Boundary \in Tokens
BY DEF Tokens, Pad, System, State, Boundary

(* What the schemas promise of one question of a request.                  *)
LEMMA QuestionsAreWellFormed ==
  ASSUME NEW r \in Requests
  PROVE  /\ r.passes \in {1, 2}
         /\ r.questions \in Seq(Questions) /\ Len(r.questions) \in Nat \ {0}
         /\ DOMAIN r.questions = 1..Len(r.questions)
         /\ \A i, j \in 1..Len(r.questions) : r.questions[i].id = r.questions[j].id => i = j
         /\ \A i \in 1..Len(r.questions) :
              LET q == r.questions[i] IN
              /\ q.id \in Ids /\ q.primitive \in Primitives
              /\ q.options \in Seq(Options) /\ Len(q.options) >= 2
              /\ DOMAIN q.options = 1..Len(q.options)
              /\ \A j, k \in 1..Len(q.options) : q.options[j] = q.options[k] => j = k
<1>1. /\ r.passes \in {1, 2}
      /\ r.questions \in Seq(Range(r.questions)) /\ r.questions # <<>>
      /\ \A i, j \in DOMAIN r.questions : r.questions[i].id = r.questions[j].id => i = j
      /\ \A i \in DOMAIN r.questions :
           LET options == r.questions[i].options IN
           /\ r.questions[i].primitive \in Primitives
           /\ options \in Seq(Range(options)) /\ Len(options) >= 2
           /\ \A j, k \in DOMAIN options : options[j] = options[k] => j = k
  BY RequestAssumption
<1>2. Range(r.questions) \subseteq Questions
  BY DEF Questions
<1>3. r.questions \in Seq(Questions) /\ Len(r.questions) \in Nat \ {0}
  BY <1>1, <1>2, SeqMonotonic, EmptySeq
<1>4. DOMAIN r.questions = 1..Len(r.questions)
  BY <1>3
<1>5. ASSUME NEW i \in 1..Len(r.questions)
      PROVE  LET q == r.questions[i] IN
              /\ q.id \in Ids /\ q.primitive \in Primitives
              /\ q.options \in Seq(Options) /\ Len(q.options) >= 2
              /\ DOMAIN q.options = 1..Len(q.options)
              /\ \A j, k \in 1..Len(q.options) : q.options[j] = q.options[k] => j = k
  <2> DEFINE q == r.questions[i]
  <2>1. q \in Questions
    BY <1>3, ElementOfSeq
  <2>2. q.id \in Ids /\ Range(q.options) \subseteq Options
    BY <2>1 DEF Ids, Options
  <2>3. q.options \in Seq(Range(q.options))
    BY <1>1, <1>4
  <2>4. q.options \in Seq(Options)
    BY <2>2, <2>3, SeqMonotonic
  <2>5. DOMAIN q.options = 1..Len(q.options)
    BY <2>4
  <2> QED
    BY <1>1, <1>4, <2>2, <2>4, <2>5
<1> QED
  BY <1>1, <1>3, <1>4, <1>5

(* The options that are printed are the question's, in another order: one  *)
(* that ends with another option when they are rotated.                    *)
LEMMA PrintedOptionsAreTheOptions ==
  ASSUME NEW q, q.options \in Seq(Options), Len(q.options) >= 2, NEW p \in {0, 1}
  PROVE  LET printed == PrintedOptions(q, p)
             n == Len(q.options)
         IN  /\ printed \in Seq(Options) /\ Len(printed) = n
             /\ {printed[i] : i \in 1..n} = {q.options[i] : i \in 1..n}
             /\ printed[n] = IF p = 1 /\ q.primitive = "choice" THEN q.options[1] ELSE q.options[n]
<1> DEFINE s == q.options
           n == Len(s)
           printed == PrintedOptions(q, p)
<1>1. CASE ~(p = 1 /\ q.primitive = "choice")
  BY <1>1 DEF PrintedOptions
<1>2. CASE p = 1 /\ q.primitive = "choice"
  <2>1. printed = Append(Tail(s), Head(s))
    BY <1>2 DEF PrintedOptions
  <2>2. n \in Nat /\ n >= 2 /\ s # <<>>
    OBVIOUS
  <2>3. /\ Head(s) \in Options /\ Tail(s) \in Seq(Options) /\ Len(Tail(s)) = n - 1
        /\ \A i \in 1..Len(Tail(s)) : Tail(s)[i] = s[i + 1]
    BY <2>2, HeadTailProperties
  <2>4. Head(s) = s[1]
    OBVIOUS
  <2>5. /\ printed \in Seq(Options) /\ Len(printed) = n
        /\ \A i \in 1..(n - 1) : printed[i] = s[i + 1]
        /\ printed[n] = s[1]
    BY <2>1, <2>2, <2>3, <2>4, AppendProperties
  <2>6. ASSUME NEW i \in 1..n
        PROVE  \E j \in 1..n : printed[j] = s[i]
    <3>1. CASE i = 1
      BY <2>2, <2>5, <3>1
    <3>2. CASE i # 1
      <4>1. i - 1 \in 1..(n - 1) /\ i - 1 \in 1..n /\ printed[i - 1] = s[i]
        BY <2>2, <2>5, <3>2
      <4> QED
        BY <4>1
    <3> QED
      BY <3>1, <3>2
  <2>7. ASSUME NEW i \in 1..n
        PROVE  \E j \in 1..n : printed[i] = s[j]
    <3>1. CASE i = n
      BY <2>2, <2>5, <3>1
    <3>2. CASE i # n
      <4>1. i + 1 \in 1..n /\ printed[i] = s[i + 1]
        BY <2>2, <2>5, <3>2
      <4> QED
        BY <4>1
    <3> QED
      BY <3>1, <3>2
  <2>8. {printed[i] : i \in 1..n} \subseteq {s[i] : i \in 1..n}
    <3> SUFFICES ASSUME NEW x \in {printed[i] : i \in 1..n}
                 PROVE  x \in {s[i] : i \in 1..n}
      BY Zenon
    <3>1. PICK i \in 1..n : x = printed[i]
      BY Zenon
    <3>2. \E j \in 1..n : printed[i] = s[j]
      BY <2>7
    <3> QED
      BY <3>1, <3>2, Zenon
  <2>9. {s[i] : i \in 1..n} \subseteq {printed[i] : i \in 1..n}
    <3> SUFFICES ASSUME NEW x \in {s[i] : i \in 1..n}
                 PROVE  x \in {printed[i] : i \in 1..n}
      BY Zenon
    <3>1. PICK i \in 1..n : x = s[i]
      BY Zenon
    <3>2. \E j \in 1..n : printed[j] = s[i]
      BY <2>6
    <3> QED
      BY <3>1, <3>2, Zenon
  <2> QED
    BY <1>2, <2>5, <2>8, <2>9
<1> QED
  BY <1>1, <1>2

(* Where the parts of a prompt made of four are found again.               *)
LEMMA PartsOfAPrompt ==
  ASSUME NEW S, NEW a \in Seq(S), NEW b \in Seq(S), NEW o \in Seq(S), NEW d \in Seq(S),
         Len(b) >= 1, Len(o) >= 1, NEW prompt, prompt = a \o b \o o \o d
  PROVE  /\ prompt \in Seq(S) /\ Len(prompt) = Len(a) + Len(b) + Len(o) + Len(d)
         /\ prompt[Len(a) + 1] = b[1]
         /\ prompt[Len(a) + Len(b) + Len(o)] = o[Len(o)]
<1>1. Len(a) \in Nat /\ Len(b) \in Nat /\ Len(o) \in Nat /\ Len(d) \in Nat
  BY LenProperties
<1> DEFINE ab == a \o b
           abo == ab \o o
           t == abo \o d
<1>2. /\ ab \in Seq(S) /\ Len(ab) = Len(a) + Len(b)
      /\ \A i \in 1..Len(b) : ab[Len(a) + i] = b[i]
  BY ConcatReads
<1>3. ab[Len(a) + 1] = b[1]
  BY <1>1, <1>2
<1> HIDE DEF ab
<1>4. /\ abo \in Seq(S) /\ Len(abo) = Len(ab) + Len(o)
      /\ \A i \in 1..Len(ab) : abo[i] = ab[i]
      /\ \A i \in 1..Len(o) : abo[Len(ab) + i] = o[i]
  <2>1. ab \in Seq(S)
    BY <1>2
  <2> QED
    BY <2>1, ConcatReads
<1>5. abo[Len(a) + 1] = b[1] /\ abo[Len(a) + Len(b) + Len(o)] = o[Len(o)]
  <2>1. Len(a) + 1 \in 1..Len(ab) /\ Len(o) \in 1..Len(o)
    BY <1>1, <1>2
  <2> QED
    BY <1>2, <1>3, <1>4, <2>1
<1> HIDE DEF abo
<1>6. /\ t \in Seq(S) /\ Len(t) = Len(abo) + Len(d)
      /\ \A i \in 1..Len(abo) : t[i] = abo[i]
  <2>1. abo \in Seq(S)
    BY <1>4
  <2> QED
    BY <2>1, ConcatReads
<1> HIDE DEF t
<1>7. Len(a) + 1 \in 1..Len(abo) /\ Len(a) + Len(b) + Len(o) \in 1..Len(abo)
  BY <1>1, <1>2, <1>4
<1>8. /\ t \in Seq(S) /\ Len(t) = Len(a) + Len(b) + Len(o) + Len(d)
      /\ t[Len(a) + 1] = b[1]
      /\ t[Len(a) + Len(b) + Len(o)] = o[Len(o)]
  BY <1>2, <1>4, <1>5, <1>6, <1>7
<1>9. prompt = t
  BY DEF t, abo, ab
<1> QED
  BY <1>8, <1>9, Zenon

(* A prompt is made of tokens, none of them padding, has the state in it,  *)
(* and has the option that is printed last before its answer boundary.     *)
LEMMA CompiledPrompt ==
  ASSUME NEW r \in Requests, NEW i \in 1..Len(r.questions), NEW p \in {0, 1}
  PROVE  LET q == r.questions[i]
             c == Compiled(r, q, p)
             t == c.prompt
         IN  /\ c \in CompiledQuestions
             /\ c.id = q.id /\ c.primitive = q.primitive /\ c.options = PrintedOptions(q, p)
             /\ \E k \in 1..Len(t) : t[k] = State
             /\ t[Len(t) - 1] = <<"option", PrintedOptions(q, p)[Len(q.options)]>>
<1> DEFINE q == r.questions[i]
           n == Len(q.options)
           printed == PrintedOptions(q, p)
           example == IF p = 0 /\ q.id \in r.shots THEN <<<<"example", q.id>>>> ELSE <<>>
           a == <<System>> \o example
           b == <<State, <<"question", q.id>>>>
           o == [j \in DOMAIN printed |-> <<"option", printed[j]>>]
           d == <<Boundary>>
           t == a \o b \o o \o d
           c == Compiled(r, q, p)
<1>1. q.id \in Ids /\ q.primitive \in Primitives /\ q.options \in Seq(Options) /\ n >= 2
  BY QuestionsAreWellFormed
<1>2. printed \in Seq(Options) /\ Len(printed) = n /\ DOMAIN printed = 1..n /\ n \in Nat
  BY <1>1, PrintedOptionsAreTheOptions
<1>3. /\ System \in Tokens /\ State \in Tokens /\ Boundary \in Tokens
      /\ <<"question", q.id>> \in Tokens /\ <<"example", q.id>> \in Tokens
      /\ \A x \in Options : <<"option", x>> \in Tokens
  BY <1>1, TokensAreNotPadding DEF Tokens
<1>4. a \in Seq(Tokens) /\ Len(a) \in Nat
  <2>1. example \in Seq(Tokens)
    BY <1>3
  <2>2. <<System>> \in Seq(Tokens)
    BY <1>3
  <2>3. a \in Seq(Tokens)
    BY <2>1, <2>2, ConcatProperties
  <2> QED
    BY <2>3, LenProperties
<1>5. b \in Seq(Tokens) /\ Len(b) = 2 /\ b[1] = State
  BY <1>3
<1>6. o \in Seq(Tokens) /\ Len(o) = n /\ o[n] = <<"option", printed[n]>>
  <2>1. \A j \in 1..n : printed[j] \in Options
    BY <1>2
  <2>2. o = [j \in 1..n |-> <<"option", printed[j]>>]
    BY <1>2
  <2> HIDE DEF printed
  <2>3. o \in [1..n -> Tokens]
    BY <2>1, <2>2, <1>3
  <2>4. o \in Seq(Tokens) /\ Len(o) = n
    BY <2>3, <1>2
  <2> QED
    BY <2>2, <2>4, <1>1, <1>2
<1>7. d \in Seq(Tokens) /\ Len(d) = 1
  BY <1>3
<1> HIDE DEF a, b, o, d, printed
<1>8. /\ t \in Seq(Tokens) /\ Len(t) = Len(a) + Len(b) + Len(o) + Len(d)
      /\ t[Len(a) + 1] = b[1]
      /\ t[Len(a) + Len(b) + Len(o)] = o[Len(o)]
  <2>1. Len(b) >= 1 /\ Len(o) >= 1
    BY <1>1, <1>5, <1>6
  <2>2. a \in Seq(Tokens) /\ b \in Seq(Tokens) /\ o \in Seq(Tokens) /\ d \in Seq(Tokens)
    BY <1>4, <1>5, <1>6, <1>7
  <2>3. t = a \o b \o o \o d
    OBVIOUS
  <2> HIDE DEF t
  <2> QED
    BY <2>1, <2>2, <2>3, PartsOfAPrompt
<1> HIDE DEF t
<1>9. (\E k \in 1..Len(t) : t[k] = State) /\ t[Len(t) - 1] = <<"option", printed[n]>>
  <2>1. Len(b) = 2 /\ Len(o) = n /\ Len(d) = 1 /\ Len(a) \in Nat /\ n \in Nat
    BY <1>2, <1>4, <1>5, <1>6, <1>7
  <2>2. Len(t) = Len(a) + 2 + n + 1
    BY <1>8, <2>1
  <2> HIDE DEF n
  <2>3. \A x, y \in Nat : x + 1 \in 1..(x + 2 + y + 1)
    OBVIOUS
  <2>4. Len(a) + 1 \in 1..Len(t)
    BY <2>1, <2>2, <2>3, Zenon
  <2>5. Len(t) - 1 = Len(a) + 2 + n
    <3>1. \A z : \A x, y \in Nat : z = x + 2 + y + 1 => z - 1 = x + 2 + y
      OBVIOUS
    <3> QED
      BY <2>1, <2>2, <3>1, Zenon
  <2>6. t[Len(a) + 2 + n] = <<"option", printed[n]>>
    BY <1>6, <1>8, <2>1, Zenon
  <2> QED
    BY <1>5, <1>8, <2>4, <2>5, <2>6, Zenon
<1>10. c = [id |-> q.id, primitive |-> q.primitive, options |-> printed, prompt |-> t]
  BY DEF Compiled, t, a, b, o, d, printed
<1>11. c \in CompiledQuestions
  BY <1>1, <1>2, <1>8, <1>10 DEF CompiledQuestions
<1> QED
  BY <1>9, <1>10, <1>11 DEF printed

(* What compiling keeps of a question.                                     *)
LEMMA CompiledFields ==
  ASSUME NEW r, NEW q, NEW p
  PROVE  /\ Compiled(r, q, p).id = q.id /\ Compiled(r, q, p).primitive = q.primitive
         /\ Compiled(r, q, p).options = PrintedOptions(q, p)
BY DEF Compiled

(* A pass compiles each question of the request.                           *)
LEMMA CompiledPassReads ==
  ASSUME NEW r \in Requests, NEW p \in {0, 1}
  PROVE  /\ CompiledPass(r, p) \in Seq(CompiledQuestions)
         /\ Len(CompiledPass(r, p)) = Len(r.questions)
         /\ \A i \in 1..Len(r.questions) : CompiledPass(r, p)[i] = Compiled(r, r.questions[i], p)
<1> DEFINE n == Len(r.questions)
<1>1. DOMAIN r.questions = 1..n /\ n \in Nat
  BY QuestionsAreWellFormed
<1>2. \A i \in 1..n : Compiled(r, r.questions[i], p) \in CompiledQuestions
  BY CompiledPrompt
<1>3. CompiledPass(r, p) = [i \in 1..n |-> Compiled(r, r.questions[i], p)]
  BY <1>1 DEF CompiledPass
<1> HIDE DEF n
<1>4. CompiledPass(r, p) \in [1..n -> CompiledQuestions]
  BY <1>2, <1>3
<1> QED
  BY <1>1, <1>3, <1>4 DEF n

(* The first pass scores every question, the second every choice and       *)
(* nothing else.                                                           *)
LEMMA ScoredReads ==
  ASSUME NEW r \in Requests
  PROVE  /\ Scored(r, 0) = CompiledPass(r, 0)
         /\ Scored(r, 1) \in Seq(CompiledQuestions)
         /\ \A k \in 1..Len(Scored(r, 1)) : \E i \in 1..Len(r.questions) :
              r.questions[i].primitive = "choice" /\ Scored(r, 1)[k] = Compiled(r, r.questions[i], 1)
         /\ \A i \in 1..Len(r.questions) : r.questions[i].primitive = "choice" =>
              \E k \in 1..Len(Scored(r, 1)) : Scored(r, 1)[k] = Compiled(r, r.questions[i], 1)
<1> DEFINE n == Len(r.questions)
           all(p) == CompiledPass(r, p)
           kept(p) == {all(p)[i] : i \in {j \in DOMAIN all(p) : p = 0 \/ all(p)[j].primitive = "choice"}}
<1>1. \A p \in {0, 1} : /\ all(p) \in Seq(CompiledQuestions) /\ Len(all(p)) = n /\ DOMAIN all(p) = 1..n
                        /\ \A i \in 1..n : all(p)[i] = Compiled(r, r.questions[i], p)
  BY CompiledPassReads
<1>2. \A p : Scored(r, p) = Where(all(p), kept(p))
  BY DEF Scored
<1>3. \A i \in 1..Len(all(0)) : all(0)[i] \in kept(0)
  BY <1>1
<1>4. \A x : x \in kept(1) <=> \E i \in 1..n : x = all(1)[i] /\ all(1)[i].primitive = "choice"
  <2>1. \A i \in 1..n : all(1)[i].primitive = r.questions[i].primitive
    BY <1>1, CompiledFields
  <2> QED
    BY <1>1
<1> HIDE DEF all, kept, n
<1>5. Scored(r, 0) = all(0)
  <2>1. all(0) \in Seq(CompiledQuestions)
    BY <1>1
  <2>2. Where(all(0), kept(0)) = all(0)
    BY <2>1, <1>3, WhereKeepsAll, Zenon
  <2> QED
    BY <1>2, <2>2, Zenon
<1> DEFINE t == Where(all(1), kept(1))
<1>6. /\ t \in Seq(CompiledQuestions \cap kept(1))
      /\ \A k \in 1..Len(t) : t[k] \in kept(1)
      /\ \A i \in 1..Len(all(1)) : all(1)[i] \in kept(1) => \E k \in 1..Len(t) : t[k] = all(1)[i]
  <2> DEFINE s == all(1)
             T == kept(1)
  <2>1. s \in Seq(CompiledQuestions)
    BY <1>1
  <2> HIDE DEF s, T
  <2>2. /\ Where(s, T) \in Seq(CompiledQuestions \cap T)
        /\ \A k \in 1..Len(Where(s, T)) : Where(s, T)[k] \in T
        /\ \A i \in 1..Len(s) : s[i] \in T => \E k \in 1..Len(Where(s, T)) : Where(s, T)[k] = s[i]
    BY <2>1, WhereElements
  <2> QED
    BY <2>2, Zenon DEF s, T
<1>7. Scored(r, 1) = t
  BY <1>2, Zenon
<1> HIDE DEF t
<1>8. t \in Seq(CompiledQuestions)
  BY <1>6, SeqMonotonic
<1>9. ASSUME NEW k \in 1..Len(t)
      PROVE  \E i \in 1..n : r.questions[i].primitive = "choice" /\ t[k] = Compiled(r, r.questions[i], 1)
  <2>1. t[k] \in kept(1)
    BY <1>6, Zenon
  <2>2. PICK i \in 1..n : t[k] = all(1)[i] /\ all(1)[i].primitive = "choice"
    BY <1>4, <2>1, Zenon
  <2>3. t[k] = Compiled(r, r.questions[i], 1)
    BY <1>1, <2>2
  <2> QED
    BY <2>2, <2>3, CompiledFields
<1>10. ASSUME NEW i \in 1..n, r.questions[i].primitive = "choice"
       PROVE  \E k \in 1..Len(t) : t[k] = Compiled(r, r.questions[i], 1)
  <2>1. all(1)[i] = Compiled(r, r.questions[i], 1) /\ i \in 1..Len(all(1))
    BY <1>1
  <2>4. all(1)[i].primitive = "choice"
    BY <1>10, <2>1, CompiledFields
  <2>2. all(1)[i] \in kept(1)
    BY <1>4, <2>4, Zenon
  <2>3. \E k \in 1..Len(t) : t[k] = all(1)[i]
    BY <1>6, <2>1, <2>2, Zenon
  <2> QED
    BY <2>1, <2>3, Zenon
<1> QED
  BY <1>5, <1>7, <1>8, <1>9, <1>10, Zenon DEF all, n

(* What a pass scores are compiled questions, each of which shows the      *)
(* state.                                                                  *)
LEMMA ScoredIsTyped ==
  ASSUME NEW r \in Requests, NEW p \in {0, 1}
  PROVE  /\ Scored(r, p) \in Seq(CompiledQuestions)
         /\ \A k \in 1..Len(Scored(r, p)) : \E i \in 1..Len(Scored(r, p)[k].prompt) :
              Scored(r, p)[k].prompt[i] = State
<1>1. Scored(r, p) \in Seq(CompiledQuestions)
  BY ScoredReads, CompiledPassReads
<1>2. \A k \in 1..Len(Scored(r, p)) : \E i \in 1..Len(r.questions) :
         Scored(r, p)[k] = Compiled(r, r.questions[i], p)
  BY ScoredReads, CompiledPassReads
<1>3. ASSUME NEW k \in 1..Len(Scored(r, p))
      PROVE  \E i \in 1..Len(Scored(r, p)[k].prompt) : Scored(r, p)[k].prompt[i] = State
  <2>1. PICK i \in 1..Len(r.questions) : Scored(r, p)[k] = Compiled(r, r.questions[i], p)
    BY <1>2
  <2>2. \E j \in 1..Len(Compiled(r, r.questions[i], p).prompt) : Compiled(r, r.questions[i], p).prompt[j] = State
    BY CompiledPrompt, Zenon
  <2> QED
    BY <2>1, <2>2, Zenon
<1> QED
  BY <1>1, <1>3

(* A pass scores nothing but what it has compiled.                         *)
LEMMA ScoredIsCompiled ==
  ASSUME NEW r \in Requests, NEW p \in {0, 1}, NEW k \in 1..Len(Scored(r, p))
  PROVE  \E i \in DOMAIN CompiledPass(r, p) : Scored(r, p)[k] = CompiledPass(r, p)[i]
<1>1. DOMAIN CompiledPass(r, p) = 1..Len(r.questions)
  BY CompiledPassReads
<1>2. \E i \in 1..Len(r.questions) : Scored(r, p)[k] = Compiled(r, r.questions[i], p)
  BY ScoredReads, CompiledPassReads
<1> QED
  BY <1>1, <1>2, CompiledPassReads

(* The same, of a single one.                                              *)
LEMMA ScoredPrompts ==
  ASSUME NEW r \in Requests, NEW p \in {0, 1}, NEW k \in 1..Len(Scored(r, p)), NEW c, c = Scored(r, p)[k]
  PROVE  c \in CompiledQuestions /\ c.prompt \in Seq(Tokens) /\ \E i \in 1..Len(c.prompt) : c.prompt[i] = State
<1>1. c \in CompiledQuestions
  BY ScoredIsTyped, ElementOfSeq
<1>2. \E i \in 1..Len(c.prompt) : c.prompt[i] = State
  BY ScoredIsTyped
<1> QED
  BY <1>1, <1>2 DEF CompiledQuestions

-----------------------------------------------------------------------------
(* The paths.  Whatever a branch or a padded row is made of, the model has *)
(* seen the question's own complete prompt.                                *)

(* The prefix of a prompt ends with its state.                             *)
LEMMA PrefixReads ==
  ASSUME NEW c, c.prompt \in Seq(Tokens), \E i \in 1..Len(c.prompt) : c.prompt[i] = State
  PROVE  /\ PrefixLength(c) \in 1..Len(c.prompt)
         /\ Prefix(c) \in Seq(Tokens) /\ Len(Prefix(c)) = PrefixLength(c) /\ Prefix(c) # <<>>
<1>1. DOMAIN c.prompt = 1..Len(c.prompt) /\ Len(c.prompt) \in Nat
  OBVIOUS
<1>2. PrefixLength(c) \in 1..Len(c.prompt)
  BY <1>1 DEF PrefixLength
<1> DEFINE n == PrefixLength(c)
<1> HIDE DEF n
<1>3. \A i \in 1..n : c.prompt[i] \in Tokens
  BY <1>1, <1>2 DEF n
<1>4. SubSeq(c.prompt, 1, n) \in Seq(Tokens) /\ Len(SubSeq(c.prompt, 1, n)) = n
  BY <1>1, <1>2, <1>3, SubSeqProperties DEF n
<1> QED
  BY <1>1, <1>2, <1>4 DEF Prefix, n

(* A suffix behind a prefix it shares is the whole prompt.                 *)
LEMMA BranchIsPrompt ==
  ASSUME NEW c, c.prompt \in Seq(Tokens), \E i \in 1..Len(c.prompt) : c.prompt[i] = State,
         NEW d, d.prompt \in Seq(Tokens), IsPrefix(Prefix(c), d.prompt)
  PROVE  /\ Prefix(c) \o SuffixAfter(d, PrefixLength(c)) = d.prompt
         /\ Prefix(c) = SubSeq(d.prompt, 1, Len(Prefix(c)))
<1> DEFINE n == PrefixLength(c)
           s == Prefix(c)
           t == d.prompt
<1>1. n \in Nat /\ n >= 1 /\ s \in Seq(Tokens) /\ Len(s) = n /\ Len(t) \in Nat
  BY PrefixReads
<1> HIDE DEF n, s
<1>2. n <= Len(t) /\ SubSeq(s, 1, n) = SubSeq(t, 1, n)
  BY <1>1 DEF IsPrefix, n, s
<1>3. SubSeq(s, 1, n) = s
  BY <1>1, SubSeqFull
<1>4. SubSeq(t, 1, n) \o SubSeq(t, n + 1, Len(t)) = t
  <2>1. SubSeq(t, 1, n) \o SubSeq(t, n + 1, Len(t)) = SubSeq(t, 1, Len(t))
    BY <1>1, <1>2, ConcatAdjacentSubSeq
  <2>2. SubSeq(t, 1, Len(t)) = t
    BY SubSeqFull
  <2> QED
    BY <2>1, <2>2
<1> QED
  BY <1>1, <1>2, <1>3, <1>4 DEF SuffixAfter, n, s

(* A padded prompt is read at its own last token.                          *)
LEMMA UnpaddedIsPrompt ==
  ASSUME NEW c, c.prompt \in Seq(Tokens), NEW width \in Int
  PROVE  LastUnpadded(Padded(c, width)) = c.prompt
<1> DEFINE t == c.prompt
           n == Len(t)
           pads == [i \in 1..(width - n) |-> Pad]
           row == t \o pads
<1>1. n \in Nat /\ DOMAIN t = 1..n /\ t \in Seq(Tokens \cup {Pad}) /\ \A i \in 1..n : t[i] \in Tokens
  OBVIOUS
<1>2. pads \in Seq(Tokens \cup {Pad})
  <2>1. CASE width - n \in Nat
    BY <2>1
  <2>2. CASE width - n \notin Nat
    <3>1. 1..(width - n) = {}
      BY <1>1, <2>2
    <3> QED
      BY <3>1
  <2> QED
    BY <2>1, <2>2
<1>3. \A i \in 1..Len(pads) : pads[i] = Pad
  <2>1. DOMAIN pads = 1..Len(pads)
    BY <1>2, LenProperties
  <2> QED
    BY <2>1
<1> HIDE DEF pads, t
<1>4. /\ row \in Seq(Tokens \cup {Pad}) /\ Len(row) = n + Len(pads) /\ Len(pads) \in Nat
      /\ \A i \in 1..n : row[i] = t[i]
      /\ \A i \in 1..Len(pads) : row[n + i] = pads[i]
  BY <1>1, <1>2, ConcatReads
<1> HIDE DEF row, n
<1>5. {i \in DOMAIN row : row[i] # Pad} = 1..n
  <2>1. DOMAIN row = 1..(n + Len(pads))
    BY <1>4
  <2>2. \A i \in 1..n : row[i] # Pad /\ i \in DOMAIN row
    BY <1>1, <1>4, <2>1, TokensAreNotPadding
  <2>3. \A i \in DOMAIN row : i \notin 1..n => row[i] = Pad
    <3> TAKE i \in DOMAIN row
    <3> HAVE i \notin 1..n
    <3>1. i - n \in 1..Len(pads) /\ n + (i - n) = i
      BY <1>1, <1>4, <2>1
    <3>2. row[n + (i - n)] = pads[i - n]
      BY <1>4, <3>1
    <3> QED
      BY <1>3, <3>1, <3>2
  <2> QED
    BY <2>2, <2>3
<1>6. Cardinality(1..n) = n
  BY <1>1, FS_Interval
<1>7. SubSeq(row, 1, n) = t
  <2>1. \A i \in 1..n : row[i] \in Tokens
    BY <1>1, <1>4
  <2>2. /\ SubSeq(row, 1, n) \in Seq(Tokens) /\ Len(SubSeq(row, 1, n)) = n
        /\ \A i \in 1..n : SubSeq(row, 1, n)[i] = row[i]
    BY <1>1, <2>1, SubSeqProperties
  <2> QED
    BY <1>1, <1>4, <2>2, SeqEqual DEF t, n
<1> QED
  BY <1>5, <1>6, <1>7 DEF LastUnpadded, Padded, row, pads, t, n

-----------------------------------------------------------------------------
(* The inductive invariant of the engine.                                  *)

Measurements == [options : Seq(Options), seen : Seq(Tokens), finite : BOOLEAN]

Concluded == phase = "assemble" \/ reply = "response"

(* What of a pass has been compiled.                                       *)
IsCompiled(p) == p < pass \/ (p = pass /\ (phase = "score" \/ Concluded))

CallInv ==
  /\ engine \in Engines
  /\ phase \in {"idle", "compile", "score", "assemble", "over"}
  /\ pass \in {0, 1}
  /\ reply \in {"none", "response", "unavailable", "value_error"}
  /\ (phase = "over") = (reply # "none")
  /\ IF phase = "idle" THEN request = <<>> /\ pass = 0
                       ELSE \E r \in Requests : request = <<r>>
  /\ pass = 1 => Asked.passes = 2
  /\ Concluded => pass = Asked.passes - 1

PassesInv ==
  /\ compiled \in [{0, 1} -> Seq(CompiledQuestions)]
  /\ measured \in [{0, 1} -> Seq(Measurements)]
  /\ \A p \in {0, 1} :
       /\ IsCompiled(p) => compiled[p] = Scored(Asked, p)
       /\ p > pass \/ phase = "idle" \/ (p = pass /\ phase = "compile") =>
            compiled[p] = <<>> /\ measured[p] = <<>>
       /\ p < pass \/ (p = pass /\ Concluded) => Len(measured[p]) = Len(compiled[p])

(* Every measurement is of its question's own prompt.                      *)
MeasuredInv ==
  \A p \in {0, 1} :
    /\ Len(measured[p]) <= Len(compiled[p])
    /\ \A i \in 1..Len(measured[p]) : /\ measured[p][i].seen = compiled[p][i].prompt
                                      /\ measured[p][i].options = compiled[p][i].options

(* The prefix is computed before anything is scored on it, and stays.      *)
CacheInv ==
  /\ cache # <<>> => /\ phase = "score" /\ Len(compiled[pass]) > 1 /\ SharesPrefix(compiled[pass])
                     /\ cache = Prefix(compiled[pass][1])
  /\ phase = "score" /\ ByPrefix /\ cache = <<>> => measured[pass] = <<>>

(* An answer to question q: read from the prompts of q, and accepted only  *)
(* on the evidence of a profile for its kind and number of options.        *)
Answers(profile, r, q, a) ==
  /\ a.id = q.id
  /\ a.readings = [o \in {q.options[j] : j \in DOMAIN q.options} |-> Reference!ReferenceReadings(r, q, o)]
  /\ a.disposition = "accept" => /\ a.status = "validated" /\ a.swing # "beyond"
                                 /\ profile.primitive = q.primitive
                                 /\ Len(q.options) \in profile.cardinalities

AnswersInv ==
  /\ answers \in Seq(Range(answers))
  /\ answers # <<>> => Concluded
  /\ Len(answers) <= Len(compiled[0])
  /\ reply = "response" => Len(answers) = Len(compiled[0])
  /\ \A i \in 1..Len(answers) : Answers(engine.profile, Asked, Asked.questions[i], answers[i])

(* Nothing that does not fit is scored.                                    *)
FitsInv == \A p \in {0, 1} : \A k \in 1..Len(compiled[p]) : Fits(compiled[p][k])

EngineInv == CallInv /\ PassesInv /\ MeasuredInv /\ CacheInv /\ AnswersInv /\ FitsInv

(* The engine begins in the invariant.                                     *)
LEMMA EngineInitially == Init => EngineInv
<1> SUFFICES ASSUME Init PROVE EngineInv
  OBVIOUS
<1>1. compiled = [p \in {0, 1} |-> <<>>] /\ measured = [p \in {0, 1} |-> <<>>] /\ phase = "idle" /\ reply = "none"
  BY DEF Init, NoPass
<1>2. CallInv
  BY DEF Init, CallInv, Concluded
<1>3. PassesInv
  BY <1>1 DEF Init, PassesInv, IsCompiled, Concluded
<1>4. MeasuredInv
  BY <1>1 DEF MeasuredInv
<1>5. CacheInv
  BY DEF Init, CacheInv
<1>6. AnswersInv
  BY <1>1 DEF Init, AnswersInv, Concluded
<1>7. FitsInv
  BY <1>1 DEF FitsInv
<1> QED
  BY <1>2, <1>3, <1>4, <1>5, <1>6, <1>7 DEF EngineInv

(* A call begins in the invariant.                                         *)
LEMMA BeginPreserves ==
  ASSUME EngineInv, NEW r \in Requests, Begin(r)
  PROVE  EngineInv'
<1>1. /\ compiled' = [p \in {0, 1} |-> <<>>] /\ measured' = [p \in {0, 1} |-> <<>>]
      /\ phase' = "compile" /\ pass' = 0 /\ reply' = "none" /\ request' = <<r>>
  BY DEF Begin, NoPass
<1>2. CallInv'
  BY <1>1 DEF Begin, EngineInv, CallInv, Concluded
<1>3. PassesInv'
  BY <1>1 DEF PassesInv, IsCompiled, Concluded
<1>4. MeasuredInv'
  BY <1>1 DEF MeasuredInv
<1>5. CacheInv'
  BY DEF Begin, CacheInv
<1>6. AnswersInv'
  BY <1>1 DEF Begin, AnswersInv, Concluded
<1>7. FitsInv'
  BY <1>1 DEF FitsInv
<1> QED
  BY <1>2, <1>3, <1>4, <1>5, <1>6, <1>7 DEF EngineInv

(* A call that fails, at whatever stage, has no answers.                   *)
LEMMA RaisePreserves ==
  ASSUME EngineInv, phase \in {"compile", "score", "assemble"},
         NEW e \in {"unavailable", "value_error"}, Raise(e)
  PROVE  EngineInv'
<1>1. /\ phase' = "over" /\ reply' = e /\ answers' = <<>> /\ cache' = <<>>
      /\ UNCHANGED <<engine, request, pass, compiled, measured>>
  BY DEF Raise
<1>2. CallInv'
  BY <1>1 DEF EngineInv, CallInv, Concluded, Asked
<1>3. PassesInv'
  BY <1>1 DEF EngineInv, PassesInv, IsCompiled, Concluded, CallInv, Asked
<1>4. MeasuredInv'
  BY <1>1 DEF EngineInv, MeasuredInv
<1>5. CacheInv'
  BY <1>1 DEF CacheInv
<1>6. AnswersInv'
  <2>1. Len(compiled[0]) \in Nat
    BY DEF EngineInv, PassesInv
  <2> QED
    BY <1>1, <2>1 DEF AnswersInv, Concluded
<1>7. FitsInv'
  BY <1>1 DEF EngineInv, FitsInv
<1> QED
  BY <1>2, <1>3, <1>4, <1>5, <1>6, <1>7 DEF EngineInv

(* Compiling a pass keeps the invariant.                                   *)
LEMMA CompilePreserves ==
  ASSUME EngineInv, Compile
  PROVE  EngineInv'
<1>1. /\ phase = "compile" /\ phase' = "score" /\ compiled' = [compiled EXCEPT ![pass] = Scored(Asked, pass)]
      /\ UNCHANGED <<engine, request, pass, measured, cache, answers, reply>>
  BY DEF Compile
<1>2. /\ pass \in {0, 1} /\ reply = "none" /\ Asked \in Requests
      /\ answers = <<>> /\ cache = <<>>
  BY <1>1 DEF EngineInv, CallInv, AnswersInv, CacheInv, Concluded, Asked
<1>3. Scored(Asked, pass) \in Seq(CompiledQuestions)
  BY <1>2, ScoredIsTyped
<1>4. CallInv'
  BY <1>1, <1>2 DEF EngineInv, CallInv, Concluded, Asked
<1>5. PassesInv'
  BY <1>1, <1>2, <1>3 DEF EngineInv, PassesInv, IsCompiled, Concluded, Asked
<1>6. MeasuredInv'
  <2>1. measured[pass] = <<>> /\ Len(Scored(Asked, pass)) \in Nat
    BY <1>1, <1>2, <1>3 DEF EngineInv, PassesInv
  <2> QED
    BY <1>1, <1>2, <2>1 DEF EngineInv, PassesInv, MeasuredInv
<1>7. CacheInv'
  BY <1>1, <1>2 DEF EngineInv, PassesInv, CacheInv
<1>8. AnswersInv'
  <2>1. Len(compiled'[0]) \in Nat
    BY <1>5 DEF PassesInv
  <2> QED
    BY <1>1, <1>2, <2>1 DEF AnswersInv
<1>9. FitsInv'
  <2>1. \A k \in 1..Len(Scored(Asked, pass)) : Fits(Scored(Asked, pass)[k])
    BY <1>2, ScoredIsCompiled DEF Compile
  <2> QED
    BY <1>1, <1>2, <2>1 DEF EngineInv, PassesInv, FitsInv
<1> QED
  BY <1>4, <1>5, <1>6, <1>7, <1>8, <1>9 DEF EngineInv

(* While a pass is scored, what is left of it is the tail of its compiled  *)
(* questions.                                                              *)
LEMMA TodoReads ==
  ASSUME EngineInv, phase = "score"
  PROVE  LET cs == compiled[pass]
             done == Len(measured[pass])
         IN  /\ pass \in {0, 1} /\ Asked \in Requests /\ reply = "none" /\ answers = <<>>
             /\ cs = Scored(Asked, pass) /\ cs \in Seq(CompiledQuestions) /\ Len(cs) \in Nat
             /\ measured[pass] \in Seq(Measurements) /\ done \in Nat /\ done <= Len(cs)
             /\ Todo \in Seq(CompiledQuestions) /\ Len(Todo) = Len(cs) - done
             /\ \A i \in 1..Len(Todo) : done + i \in 1..Len(cs) /\ Todo[i] = cs[done + i]
             /\ Todo # <<>> => Len(Todo) >= 1 /\ done + 1 \in 1..Len(cs)
<1> DEFINE cs == compiled[pass]
           done == Len(measured[pass])
<1>1. pass \in {0, 1} /\ Asked \in Requests /\ reply = "none" /\ answers = <<>>
  BY DEF EngineInv, CallInv, AnswersInv, Concluded, Asked
<1>2. cs = Scored(Asked, pass)
  BY <1>1 DEF EngineInv, PassesInv, IsCompiled
<1>3. cs \in Seq(CompiledQuestions) /\ measured[pass] \in Seq(Measurements)
  BY <1>1 DEF EngineInv, PassesInv
<1>4. done \in Nat /\ Len(cs) \in Nat /\ done <= Len(cs)
  BY <1>1, <1>3 DEF EngineInv, MeasuredInv
<1>5. Todo = SubSeq(cs, done + 1, Len(cs))
  BY DEF Todo
<1> HIDE DEF cs, done
<1>6. \A i \in (done + 1)..Len(cs) : cs[i] \in CompiledQuestions
  BY <1>3, <1>4
<1>7. /\ SubSeq(cs, done + 1, Len(cs)) \in Seq(CompiledQuestions)
      /\ Len(SubSeq(cs, done + 1, Len(cs))) = IF done + 1 <= Len(cs) THEN Len(cs) - (done + 1) + 1 ELSE 0
      /\ \A i \in 1..(Len(cs) - (done + 1) + 1) : SubSeq(cs, done + 1, Len(cs))[i] = cs[done + 1 + i - 1]
  BY <1>4, <1>6, SubSeqProperties
<1>8. Todo \in Seq(CompiledQuestions) /\ Len(Todo) = Len(cs) - done
  BY <1>4, <1>5, <1>7
<1>9. ASSUME NEW i \in 1..Len(Todo)
      PROVE  done + i \in 1..Len(cs) /\ Todo[i] = cs[done + i]
  <2>1. done + i \in 1..Len(cs) /\ i \in 1..(Len(cs) - (done + 1) + 1) /\ done + 1 + i - 1 = done + i
    BY <1>4, <1>8
  <2> QED
    BY <1>5, <1>7, <2>1
<1>10. Todo # <<>> => Len(Todo) >= 1 /\ done + 1 \in 1..Len(cs)
  <2>1. Todo # <<>> => Len(Todo) \in Nat \ {0}
    BY <1>8, EmptySeq
  <2> QED
    BY <1>4, <1>8, <2>1
<1> QED
  BY <1>1, <1>2, <1>3, <1>4, <1>8, <1>9, <1>10 DEF cs, done

(* Measurements that are of the next questions' own prompts keep what      *)
(* holds of the call.                                                      *)
LEMMA MeasurePreserves ==
  ASSUME EngineInv, phase = "score", NEW ms \in Seq(Measurements), Measure(ms),
         Len(ms) <= Len(Todo),
         \A i \in 1..Len(ms) : ms[i].seen = Todo[i].prompt /\ ms[i].options = Todo[i].options
  PROVE  CallInv' /\ PassesInv' /\ MeasuredInv' /\ AnswersInv' /\ FitsInv'
<1> DEFINE cs == compiled[pass]
           before == measured[pass]
           done == Len(before)
<1>1. /\ pass \in {0, 1} /\ Asked \in Requests /\ reply = "none" /\ answers = <<>>
      /\ cs \in Seq(CompiledQuestions) /\ Len(cs) \in Nat
      /\ before \in Seq(Measurements) /\ done \in Nat
      /\ Len(Todo) = Len(cs) - done
      /\ \A i \in 1..Len(Todo) : Todo[i] = cs[done + i]
  BY TodoReads
<1>2. /\ measured' = [measured EXCEPT ![pass] = before \o ms]
      /\ UNCHANGED <<engine, request, phase, pass, compiled, answers, reply>>
  BY DEF Measure
<1>3. /\ before \o ms \in Seq(Measurements) /\ Len(before \o ms) = done + Len(ms) /\ Len(ms) \in Nat
      /\ \A i \in 1..done : (before \o ms)[i] = before[i]
      /\ \A i \in 1..Len(ms) : (before \o ms)[done + i] = ms[i]
  <2>1. before \in Seq(Measurements)
    BY <1>1
  <2> HIDE DEF before
  <2> QED
    BY <2>1, ConcatReads
<1> DEFINE after == before \o ms
<1>4. measured' = [measured EXCEPT ![pass] = after]
  BY <1>2
<1>5. CallInv'
  BY <1>1, <1>2 DEF EngineInv, CallInv, Concluded, Asked
<1>6. PassesInv'
  <2>1. after \in Seq(Measurements)
    BY <1>3
  <2> HIDE DEF after
  <2> QED
    BY <1>1, <1>2, <1>4, <2>1 DEF EngineInv, PassesInv, IsCompiled, Concluded, Asked
<1>7. MeasuredInv'
  <2> HIDE DEF after
  <2>1. \A p \in {0, 1} : p # pass => measured'[p] = measured[p]
    BY <1>1, <1>4 DEF EngineInv, PassesInv
  <2>2. measured'[pass] = after
    BY <1>1, <1>4 DEF EngineInv, PassesInv
  <2>3. ASSUME NEW p \in {0, 1}, p # pass
        PROVE  /\ Len(measured'[p]) <= Len(compiled'[p])
               /\ \A i \in 1..Len(measured'[p]) : /\ measured'[p][i].seen = compiled'[p][i].prompt
                                                  /\ measured'[p][i].options = compiled'[p][i].options
    BY <1>2, <2>1, <2>3 DEF EngineInv, MeasuredInv
  <2>4. Len(after) <= Len(cs) /\ Len(after) = done + Len(ms)
    BY <1>1, <1>3 DEF after
  <2>5. ASSUME NEW i \in 1..Len(after)
        PROVE  after[i].seen = cs[i].prompt /\ after[i].options = cs[i].options
    <3>1. CASE i <= done
      <4>1. i \in 1..done /\ after[i] = before[i]
        BY <1>1, <1>3, <2>4, <3>1 DEF after
      <4> QED
        BY <1>1, <4>1 DEF EngineInv, MeasuredInv
    <3>2. CASE ~(i <= done)
      <4>1. i - done \in 1..Len(ms) /\ done + (i - done) = i /\ i - done \in 1..Len(Todo)
        BY <1>1, <1>3, <2>4, <3>2
      <4>2. after[done + (i - done)] = ms[i - done] /\ Todo[i - done] = cs[done + (i - done)]
        BY <1>1, <1>3, <4>1 DEF after
      <4>3. ms[i - done].seen = Todo[i - done].prompt /\ ms[i - done].options = Todo[i - done].options
        BY <4>1
      <4> QED
        BY <4>1, <4>2, <4>3
    <3> QED
      BY <3>1, <3>2
  <2>6. compiled' = compiled /\ pass' = pass
    BY <1>2
  <2> QED
    BY <2>2, <2>3, <2>4, <2>5, <2>6 DEF MeasuredInv
<1>8. AnswersInv'
  BY <1>1, <1>2 DEF EngineInv, AnswersInv, Concluded, Answers, Asked
<1>9. FitsInv'
  BY <1>2 DEF EngineInv, FitsInv
<1> QED
  BY <1>5, <1>6, <1>7, <1>8, <1>9

(* It is enough that what is measured next has seen the prompt of the      *)
(* next question.                                                          *)
LEMMA NextIsMeasured ==
  ASSUME EngineInv, Scoring, NEW finite \in BOOLEAN, NEW seen, seen = Todo[1].prompt,
         Measure(<<Measurement(Todo[1], seen, finite)>>)
  PROVE  CallInv' /\ PassesInv' /\ MeasuredInv' /\ AnswersInv' /\ FitsInv'
<1> DEFINE m == Measurement(Todo[1], seen, finite)
           ms == <<m>>
<1>1. phase = "score" /\ Todo \in Seq(CompiledQuestions) /\ Len(Todo) >= 1 /\ Len(Todo) \in Nat
  BY TodoReads DEF Scoring
<1>2. Todo[1] \in CompiledQuestions
  BY <1>1
<1>3. m \in Measurements /\ m.seen = Todo[1].prompt /\ m.options = Todo[1].options
  BY <1>2 DEF Measurement, Measurements, CompiledQuestions
<1> HIDE DEF m
<1>4. ms \in Seq(Measurements) /\ Len(ms) = 1 /\ ms[1] = m
  BY <1>3
<1>5. Measure(ms)
  BY DEF m
<1> HIDE DEF ms
<1>6. Len(ms) <= Len(Todo) /\ \A i \in 1..Len(ms) : ms[i].seen = Todo[i].prompt /\ ms[i].options = Todo[i].options
  BY <1>1, <1>3, <1>4
<1> QED
  BY <1>1, <1>4, <1>5, <1>6, MeasurePreserves

(* Scoring a prompt by itself keeps the invariant.                         *)
LEMMA ScoreOnePreserves ==
  ASSUME EngineInv, ScoreOne
  PROVE  EngineInv'
<1>1. PICK finite \in BOOLEAN : Measure(<<Measurement(Todo[1], Todo[1].prompt, finite)>>)
  BY DEF ScoreOne
<1>2. CallInv' /\ PassesInv' /\ MeasuredInv' /\ AnswersInv' /\ FitsInv'
  BY <1>1, NextIsMeasured DEF ScoreOne
<1>3. CacheInv'
  <2>1. ~ByPrefix'
    BY <1>1 DEF ScoreOne, Measure, ByPrefix, OneByOne, Batched
  <2> QED
    BY <1>1, <2>1 DEF ScoreOne, Measure, EngineInv, CacheInv
<1> QED
  BY <1>2, <1>3 DEF EngineInv

(* The shared prefix is computed before its branches are scored.           *)
LEMMA PrefillPreserves ==
  ASSUME EngineInv, Prefill
  PROVE  EngineInv'
<1>1. /\ phase = "score" /\ ByPrefix /\ cache = <<>> /\ cache' = Prefix(Todo[1])
      /\ UNCHANGED <<engine, request, phase, pass, compiled, measured, answers, reply>>
  BY DEF Prefill, Scoring
<1>2. CallInv' /\ PassesInv' /\ MeasuredInv' /\ AnswersInv' /\ FitsInv'
  <2>1. CallInv' /\ PassesInv' /\ MeasuredInv' /\ FitsInv'
    BY <1>1 DEF EngineInv, CallInv, PassesInv, IsCompiled, MeasuredInv, FitsInv, Concluded, Asked
  <2>2. AnswersInv'
    BY <1>1 DEF EngineInv, AnswersInv, Concluded, Asked
  <2> QED
    BY <2>1, <2>2
<1> DEFINE cs == compiled[pass]
<1>3. Len(cs) > 1 /\ SharesPrefix(cs)
  BY <1>1 DEF ByPrefix, OneByOne, Batched
<1>4. Prefix(Todo[1]) = Prefix(cs[1]) /\ Prefix(cs[1]) # <<>>
  <2>1. Len(measured[pass]) = 0
    BY <1>1 DEF EngineInv, CacheInv
  <2>2. /\ pass \in {0, 1} /\ Asked \in Requests /\ cs = Scored(Asked, pass)
        /\ Len(Todo) = Len(cs) - 0 /\ \A i \in 1..Len(Todo) : Todo[i] = cs[0 + i]
    BY <1>1, <2>1, TodoReads
  <2>3. 1 \in 1..Len(cs)
    BY <1>1, <1>3, TodoReads
  <2>4. Todo[1] = cs[1]
    BY <2>2, <2>3
  <2>5. cs[1].prompt \in Seq(Tokens) /\ \E i \in 1..Len(cs[1].prompt) : cs[1].prompt[i] = State
    BY <2>2, <2>3, ScoredPrompts
  <2> QED
    BY <2>4, <2>5, PrefixReads
<1> QED
  BY <1>1, <1>2, <1>3, <1>4 DEF EngineInv, CacheInv

(* Scoring a branch on the shared prefix keeps the invariant.              *)
LEMMA ScoreBranchPreserves ==
  ASSUME EngineInv, ScoreBranch
  PROVE  EngineInv'
<1> DEFINE cs == compiled[pass]
           branch == cache \o SuffixAfter(Todo[1], PrefixLength(cs[1]))
<1>1. PICK finite \in BOOLEAN : Measure(<<Measurement(Todo[1], branch, finite)>>)
  BY DEF ScoreBranch
<1>2. phase = "score" /\ Scoring /\ cache # <<>> /\ cache' = cache
  BY DEF ScoreBranch, Scoring
<1>3. Len(cs) > 1 /\ SharesPrefix(cs) /\ cache = Prefix(cs[1])
  BY <1>2 DEF EngineInv, CacheInv
<1>4. PICK k \in 1..Len(cs) : Todo[1] = cs[k]
  BY <1>2, TodoReads DEF Scoring
<1>5. pass \in {0, 1} /\ Asked \in Requests /\ cs = Scored(Asked, pass) /\ 1 \in 1..Len(cs) /\ DOMAIN cs = 1..Len(cs)
  BY <1>2, <1>3, TodoReads
<1> DEFINE c == cs[1]
           d == cs[k]
<1>6. /\ c.prompt \in Seq(Tokens) /\ \E i \in 1..Len(c.prompt) : c.prompt[i] = State
      /\ d.prompt \in Seq(Tokens)
  BY <1>5, ScoredPrompts
<1>7. IsPrefix(Prefix(c), d.prompt)
  BY <1>3, <1>5 DEF SharesPrefix
<1> HIDE DEF c, d
<1>8. Prefix(c) \o SuffixAfter(d, PrefixLength(c)) = d.prompt
  BY <1>6, <1>7, BranchIsPrompt
<1>9. branch = Todo[1].prompt
  BY <1>3, <1>4, <1>8 DEF c, d
<1> HIDE DEF branch
<1>10. CallInv' /\ PassesInv' /\ MeasuredInv' /\ AnswersInv' /\ FitsInv'
  BY <1>1, <1>2, <1>9, NextIsMeasured
<1>11. CacheInv'
  BY <1>1, <1>2 DEF Measure, EngineInv, CacheInv
<1> QED
  BY <1>10, <1>11 DEF EngineInv

(* A set of natural numbers up to a bound has a greatest element.          *)
LEMMA GreatestNatural ==
  ASSUME NEW b \in Nat, NEW S \in SUBSET (0..b), S # {}
  PROVE  \E x \in S : \A y \in S : y <= x
<1> DEFINE R == {n \in Nat : b - n \in S}
<1>1. R # {}
  <2>1. PICK x \in S : TRUE
    OBVIOUS
  <2>2. b - x \in Nat /\ b - (b - x) = x
    OBVIOUS
  <2> QED
    BY <2>2
<1>2. PICK m \in R : \A n \in R : m <= n
  BY <1>1, LeastNatural
<1>3. ASSUME NEW y \in S
      PROVE  y <= b - m
  <2>1. b - y \in R
    OBVIOUS
  <2>2. m <= b - y
    BY <1>2, <2>1
  <2> QED
    BY <2>2
<1> QED
  BY <1>3

(* The length to which a microbatch is padded is a number.                 *)
LEMMA LongestIsALength ==
  ASSUME NEW cs \in Seq(CompiledQuestions), Len(cs) >= 1, \A i \in 1..Len(cs) : Fits(cs[i])
  PROVE  Longest(cs) \in Int
<1> DEFINE S == {Len(cs[i].prompt) : i \in DOMAIN cs}
<1>1. DOMAIN cs = 1..Len(cs) /\ 1 \in 1..Len(cs)
  OBVIOUS
<1>2. \A i \in DOMAIN cs : Len(cs[i].prompt) \in 0..MaximumInputTokens
  <2> TAKE i \in DOMAIN cs
  <2>1. cs[i] \in CompiledQuestions
    BY <1>1
  <2>2. Len(cs[i].prompt) \in Nat
    BY <2>1 DEF CompiledQuestions
  <2> QED
    BY <1>1, <2>2, PromptAssumption DEF Fits
<1>3. S \in SUBSET (0..MaximumInputTokens) /\ S # {}
  BY <1>1, <1>2
<1> HIDE DEF S
<1>4. \E x \in S : \A y \in S : y <= x
  BY <1>3, GreatestNatural, PromptAssumption
<1>5. \E x \in S : \A i \in DOMAIN cs : Len(cs[i].prompt) <= x
  BY <1>4 DEF S
<1>6. Longest(cs) = CHOOSE x \in S : \A i \in DOMAIN cs : Len(cs[i].prompt) <= x
  BY Zenon DEF Longest, S
<1>7. Longest(cs) \in S
  BY <1>5, <1>6, Zenon
<1>8. \A x \in S : x \in Int
  BY <1>3
<1> QED
  BY <1>7, <1>8, Zenon

(* A microbatch is the next questions, in their order, and they fit.       *)
LEMMA MicrobatchReads ==
  ASSUME EngineInv, phase = "score"
  PROVE  /\ Microbatch \in Seq(CompiledQuestions) /\ Len(Microbatch) \in Nat
         /\ DOMAIN Microbatch = 1..Len(Microbatch) /\ Len(Microbatch) <= Len(Todo)
         /\ \A i \in 1..Len(Microbatch) : i \in 1..Len(Todo) /\ Microbatch[i] = Todo[i] /\ Fits(Microbatch[i])
<1> DEFINE m == IF engine.microbatch < Len(Todo) THEN engine.microbatch ELSE Len(Todo)
<1>1. Todo \in Seq(CompiledQuestions) /\ Len(Todo) \in Nat
  BY TodoReads
<1>2. engine.microbatch \in Int
  BY EngineAssumption DEF EngineInv, CallInv
<1>3. m \in Int /\ m <= Len(Todo)
  BY <1>1, <1>2
<1>4. Microbatch = SubSeq(Todo, 1, m)
  BY DEF Microbatch
<1> HIDE DEF m
<1>5. \A i \in 1..m : Todo[i] \in CompiledQuestions
  BY <1>1, <1>3
<1>6. /\ SubSeq(Todo, 1, m) \in Seq(CompiledQuestions)
      /\ Len(SubSeq(Todo, 1, m)) = IF 1 <= m THEN m - 1 + 1 ELSE 0
      /\ \A i \in 1..(m - 1 + 1) : SubSeq(Todo, 1, m)[i] = Todo[1 + i - 1]
  BY <1>3, <1>5, SubSeqProperties
<1>7. /\ Microbatch \in Seq(CompiledQuestions) /\ Len(Microbatch) \in Nat
      /\ DOMAIN Microbatch = 1..Len(Microbatch) /\ Len(Microbatch) <= Len(Todo)
  BY <1>1, <1>3, <1>4, <1>6
<1>8. ASSUME NEW i \in 1..Len(Microbatch)
      PROVE  i \in 1..Len(Todo) /\ Microbatch[i] = Todo[i] /\ Fits(Microbatch[i])
  <2>1. i \in 1..m /\ i \in 1..(m - 1 + 1) /\ 1 + i - 1 = i /\ i \in 1..Len(Todo)
    BY <1>3, <1>4, <1>6, <1>7
  <2>2. Microbatch[i] = Todo[i]
    BY <1>4, <1>6, <2>1
  <2>3. PICK k \in 1..Len(compiled[pass]) : Todo[i] = compiled[pass][k]
    BY <2>1, TodoReads
  <2>4. Fits(compiled[pass][k])
    BY TodoReads DEF EngineInv, FitsInv
  <2> QED
    BY <2>1, <2>2, <2>3, <2>4
<1> QED
  BY <1>7, <1>8

(* Scoring a microbatch keeps the invariant.                               *)
LEMMA ScoreMicrobatchPreserves ==
  ASSUME EngineInv, ScoreMicrobatch
  PROVE  EngineInv'
<1> DEFINE seen(i) == LastUnpadded(Padded(Microbatch[i], Longest(Microbatch)))
<1>1. PICK finite \in [DOMAIN Microbatch -> BOOLEAN] :
         Measure([i \in DOMAIN Microbatch |-> Measurement(Microbatch[i], seen(i), finite[i])])
  BY DEF ScoreMicrobatch
<1> DEFINE n == Len(Microbatch)
           ms == [i \in DOMAIN Microbatch |-> Measurement(Microbatch[i], seen(i), finite[i])]
<1>2. phase = "score" /\ ~ByPrefix /\ cache' = cache
  BY DEF ScoreMicrobatch, Scoring, ByMicrobatch
<1>3. /\ Microbatch \in Seq(CompiledQuestions) /\ n \in Nat /\ DOMAIN Microbatch = 1..n /\ n <= Len(Todo)
      /\ \A i \in 1..n : i \in 1..Len(Todo) /\ Microbatch[i] = Todo[i] /\ Fits(Microbatch[i])
  BY <1>2, MicrobatchReads
<1>4. ASSUME NEW i \in 1..n
      PROVE  Microbatch[i] \in CompiledQuestions /\ seen(i) = Microbatch[i].prompt
  <2>1. Microbatch[i] \in CompiledQuestions
    BY <1>3
  <2>2. Microbatch[i].prompt \in Seq(Tokens)
    BY <2>1 DEF CompiledQuestions
  <2>3. Longest(Microbatch) \in Int
    BY <1>3, LongestIsALength
  <2> QED
    BY <2>1, <2>2, <2>3, UnpaddedIsPrompt
<1> HIDE DEF seen
<1>5. ASSUME NEW i \in 1..n
      PROVE  /\ Measurement(Microbatch[i], seen(i), finite[i]) \in Measurements
             /\ Measurement(Microbatch[i], seen(i), finite[i]).seen = Todo[i].prompt
             /\ Measurement(Microbatch[i], seen(i), finite[i]).options = Todo[i].options
  BY <1>3, <1>4 DEF Measurement, Measurements, CompiledQuestions
<1>6. ms = [i \in 1..n |-> Measurement(Microbatch[i], seen(i), finite[i])]
  BY <1>3
<1>7. Measure(ms)
  BY <1>1
<1> HIDE DEF ms, n
<1>8. ms \in [1..n -> Measurements]
  BY <1>5, <1>6
<1>9. ms \in Seq(Measurements) /\ Len(ms) = n
  BY <1>3, <1>8
<1>10. \A i \in 1..Len(ms) : ms[i].seen = Todo[i].prompt /\ ms[i].options = Todo[i].options
  BY <1>5, <1>6, <1>9
<1>11. CallInv' /\ PassesInv' /\ MeasuredInv' /\ AnswersInv' /\ FitsInv'
  BY <1>2, <1>3, <1>7, <1>9, <1>10, MeasurePreserves
<1>12. CacheInv'
  <2>1. ~ByPrefix'
    BY <1>2, <1>7 DEF Measure, ByPrefix, OneByOne, Batched
  <2> QED
    BY <1>2, <1>7, <2>1 DEF Measure, EngineInv, CacheInv
<1> QED
  BY <1>11, <1>12 DEF EngineInv

(* A pass ends when all of its questions are measured.                     *)
LEMMA EndPassPreserves ==
  ASSUME EngineInv, EndPass
  PROVE  EngineInv'
<1>1. /\ phase = "score" /\ Todo = <<>> /\ cache' = <<>>
      /\ UNCHANGED <<engine, request, compiled, measured, answers, reply>>
      /\ IF pass = 0 /\ Asked.passes = 2 THEN pass' = 1 /\ phase' = "compile"
                                        ELSE pass' = pass /\ phase' = "assemble"
  BY DEF EndPass
<1>2. /\ pass \in {0, 1} /\ Asked \in Requests /\ reply = "none" /\ answers = <<>>
      /\ Len(measured[pass]) = Len(compiled[pass])
  <2>1. Len(Todo) = 0
    BY <1>1
  <2> QED
    BY <1>1, <2>1, TodoReads
<1>3. Asked.passes \in {1, 2}
  BY <1>2, QuestionsAreWellFormed
<1>4. CallInv'
  BY <1>1, <1>2, <1>3 DEF EngineInv, CallInv, Concluded, Asked
<1>5. PassesInv'
  BY <1>1, <1>2, <1>3 DEF EngineInv, CallInv, PassesInv, IsCompiled, Concluded, Asked
<1>6. MeasuredInv' /\ FitsInv'
  BY <1>1 DEF EngineInv, MeasuredInv, FitsInv
<1>7. CacheInv'
  BY <1>1 DEF CacheInv
<1>8. AnswersInv'
  BY <1>1, <1>2 DEF EngineInv, AnswersInv, Concluded, Answers, Asked
<1> QED
  BY <1>4, <1>5, <1>6, <1>7, <1>8 DEF EngineInv

-----------------------------------------------------------------------------
(* Assembling.                                                             *)

(* What the reference reads of an option.                                  *)
LEMMA ReferenceReads ==
  ASSUME NEW r, NEW q, NEW o
  PROVE  Reference!ReferenceReadings(r, q, o)
           = {Reading(Compiled(r, q, p).prompt, Compiled(r, q, p).options, o) : p \in Reference!Passes(r, q)}
<1>1. \A p : Reference!Compiled(r, q, p) = Compiled(r, q, p)
  BY DEF Reference!Compiled, Compiled, Reference!PrintedOptions, PrintedOptions, Reference!System, System,
         Reference!State, State, Reference!Boundary, Boundary
<1>2. \A seen, options : Reference!Reading(seen, options, o) = Reading(seen, options, o)
  BY DEF Reference!Reading, Reading
<1> QED
  BY <1>1, <1>2 DEF Reference!ReferenceReadings

(* The measurements an answer is assembled from are of its question's      *)
(* prompts: of all of them, and of nothing else.                           *)
LEMMA PairReads ==
  ASSUME EngineInv, phase = "assemble", NEW i \in 1..Len(compiled[0])
  PROVE  LET q == Asked.questions[i]
         IN  /\ Asked \in Requests /\ i \in 1..Len(Asked.questions)
             /\ compiled[0][i] = Compiled(Asked, q, 0)
             /\ \A m \in Pair(i) : \E p \in Reference!Passes(Asked, q) :
                  m.seen = Compiled(Asked, q, p).prompt /\ m.options = Compiled(Asked, q, p).options
             /\ \A p \in Reference!Passes(Asked, q) : \E m \in Pair(i) :
                  m.seen = Compiled(Asked, q, p).prompt /\ m.options = Compiled(Asked, q, p).options
<1> DEFINE q == Asked.questions[i]
           c == compiled[0][i]
           Of(m, p) == m.seen = Compiled(Asked, q, p).prompt /\ m.options = Compiled(Asked, q, p).options
<1>1. /\ pass \in {0, 1} /\ Asked \in Requests /\ Concluded /\ pass = Asked.passes - 1
      /\ Asked.passes \in {1, 2}
  BY QuestionsAreWellFormed DEF EngineInv, CallInv, Concluded, Asked
<1>2. /\ compiled[0] = Scored(Asked, 0) /\ compiled[0] \in Seq(CompiledQuestions)
      /\ Len(measured[0]) = Len(compiled[0])
  BY <1>1 DEF EngineInv, PassesInv, IsCompiled
<1>3. i \in 1..Len(Asked.questions) /\ c = Compiled(Asked, q, 0)
  BY <1>1, <1>2, ScoredReads, CompiledPassReads
<1>4. Of(measured[0][i], 0)
  BY <1>2, <1>3 DEF EngineInv, MeasuredInv
<1>5. c.id = q.id
  BY <1>3, CompiledFields
<1>6. CASE Asked.passes = 1
  <2>1. compiled[1] = <<>>
    BY <1>1, <1>6 DEF EngineInv, PassesInv
  <2>2. Pair(i) = {measured[0][i]}
    BY <2>1 DEF Pair, Rotated
  <2>3. Reference!Passes(Asked, q) = {0}
    BY <1>6 DEF Reference!Passes
  <2> HIDE DEF q
  <2> QED
    BY <1>1, <1>3, <1>4, <2>2, <2>3 DEF q
<1>7. CASE Asked.passes = 2
  <2>1. /\ compiled[1] = Scored(Asked, 1) /\ Len(measured[1]) = Len(compiled[1])
        /\ compiled[1] \in Seq(CompiledQuestions) /\ measured[1] \in Seq(Measurements)
    BY <1>1, <1>7 DEF EngineInv, PassesInv, IsCompiled
  <2>2. DOMAIN compiled[1] = 1..Len(compiled[1])
    BY <2>1
  <2>3. ASSUME NEW k \in 1..Len(compiled[1]), compiled[1][k].id = c.id
        PROVE  q.primitive = "choice" /\ Of(measured[1][k], 1)
    <3>1. PICK l \in 1..Len(Asked.questions) :
             Asked.questions[l].primitive = "choice" /\ compiled[1][k] = Compiled(Asked, Asked.questions[l], 1)
      BY <1>1, <2>1, ScoredReads
    <3>2. Asked.questions[l].id = Asked.questions[i].id
      BY <1>5, <2>3, <3>1, CompiledFields
    <3>3. l = i
      BY <1>1, <1>3, <3>2, QuestionsAreWellFormed
    <3>4. measured[1][k].seen = compiled[1][k].prompt /\ measured[1][k].options = compiled[1][k].options
      BY <2>1 DEF EngineInv, MeasuredInv
    <3> QED
      BY <3>1, <3>3, <3>4
  <2>4. ASSUME q.primitive = "choice"
        PROVE  \E m \in Rotated(c) : Of(m, 1)
    <3>1. PICK k \in 1..Len(compiled[1]) : compiled[1][k] = Compiled(Asked, q, 1)
      BY <1>1, <1>3, <2>1, <2>4, ScoredReads
    <3>2. compiled[1][k].id = c.id
      BY <1>5, <3>1, CompiledFields
    <3>3. measured[1][k] \in Rotated(c)
      BY <2>2, <3>2 DEF Rotated
    <3> QED
      BY <2>3, <3>2, <3>3
  <2>5. \A m \in Rotated(c) : q.primitive = "choice" /\ Of(m, 1)
    BY <2>2, <2>3 DEF Rotated
  <2>6. Reference!Passes(Asked, q) = IF q.primitive = "choice" THEN {0, 1} ELSE {0}
    BY <1>7 DEF Reference!Passes
  <2>7. Pair(i) = {measured[0][i]} \cup Rotated(c)
    BY DEF Pair
  <2> HIDE DEF Of, c
  <2>8. \A m \in Pair(i) : \E p \in Reference!Passes(Asked, q) : Of(m, p)
    BY <1>4, <2>5, <2>6, <2>7
  <2>9. \A p \in Reference!Passes(Asked, q) : \E m \in Pair(i) : Of(m, p)
    BY <1>4, <2>4, <2>6, <2>7
  <2> QED
    BY <1>1, <1>3, <2>8, <2>9 DEF Of, c
<1> QED
  BY <1>1, <1>6, <1>7

(* What the two passes say of an option, brought together, is what the     *)
(* reference reads of it.                                                  *)
LEMMA AlignedReads ==
  ASSUME EngineInv, phase = "assemble", NEW i \in 1..Len(compiled[0])
  PROVE  LET q == Asked.questions[i]
         IN  Aligned(Pair(i), compiled[0][i])
               = [o \in {q.options[j] : j \in DOMAIN q.options} |-> Reference!ReferenceReadings(Asked, q, o)]
<1> DEFINE q == Asked.questions[i]
           c == compiled[0][i]
           passes == Reference!Passes(Asked, q)
           Of(m, p) == m.seen = Compiled(Asked, q, p).prompt /\ m.options = Compiled(Asked, q, p).options
<1>1. /\ c = Compiled(Asked, q, 0)
      /\ \A m \in Pair(i) : \E p \in passes : Of(m, p)
      /\ \A p \in passes : \E m \in Pair(i) : Of(m, p)
  BY PairReads
<1>2. c.options = q.options
  BY <1>1, CompiledFields DEF PrintedOptions
<1>3. ASSUME NEW o
      PROVE  {Reading(m.seen, m.options, o) : m \in Pair(i)} = Reference!ReferenceReadings(Asked, q, o)
  <2> DEFINE at(p) == Reading(Compiled(Asked, q, p).prompt, Compiled(Asked, q, p).options, o)
             of(m) == Reading(m.seen, m.options, o)
  <2>1. \A m, p : Of(m, p) => of(m) = at(p)
    OBVIOUS
  <2> HIDE DEF Of, at, of, passes
  <2>2. {of(m) : m \in Pair(i)} = {at(p) : p \in passes}
    BY <1>1, <2>1
  <2> QED
    BY <2>2, ReferenceReads DEF at, of, passes
<1> HIDE DEF q, c, passes, Of
<1> QED
  BY <1>2, <1>3 DEF Aligned, q, c

(* An answer is read from the question's own measurements.                 *)
LEMMA AnswerNextPreserves ==
  ASSUME EngineInv, AnswerNext
  PROVE  EngineInv'
<1> DEFINE i == Len(answers) + 1
           c == compiled[0][i]
           q == Asked.questions[i]
           answer(swing, confident) ==
             [id |-> c.id, readings |-> Aligned(Pair(i), c), swing |-> swing,
              status |-> IF Validated(c) THEN "validated" ELSE "uncalibrated",
              disposition |-> Disposition(c, swing, confident)]
<1>1. /\ phase = "assemble" /\ Len(answers) < Len(compiled[0])
      /\ UNCHANGED <<engine, request, phase, pass, compiled, measured, cache, reply>>
      /\ \E swing \in Swings(c), confident \in BOOLEAN : answers' = Append(answers, answer(swing, confident))
  BY Zenon DEF AnswerNext, Assembling
<1>2. PICK swing \in Swings(c), confident \in BOOLEAN : answers' = Append(answers, answer(swing, confident))
  BY <1>1, Zenon
<1> DEFINE a == answer(swing, confident)
<1>3. answers \in Seq(Range(answers)) /\ Len(answers) \in Nat /\ Len(compiled[0]) \in Nat /\ i \in 1..Len(compiled[0])
  BY <1>1 DEF EngineInv, AnswersInv, PassesInv
<1>4. c = Compiled(Asked, q, 0) /\ c.options = q.options /\ c.id = q.id /\ c.primitive = q.primitive
  BY <1>1, <1>3, PairReads, CompiledFields DEF PrintedOptions
<1>5. Aligned(Pair(i), c) = [o \in {q.options[j] : j \in DOMAIN q.options} |-> Reference!ReferenceReadings(Asked, q, o)]
  BY <1>1, <1>3, AlignedReads
<1>6. a.disposition = "accept" => Validated(c) /\ swing # "beyond"
  BY DEF Disposition
<1>7. Validated(c) => engine.profile.primitive = q.primitive /\ Len(q.options) \in engine.profile.cardinalities
  BY <1>4 DEF Validated
<1>8. /\ a.id = c.id /\ a.readings = Aligned(Pair(i), c) /\ a.swing = swing
      /\ Validated(c) => a.status = "validated"
  OBVIOUS
<1> HIDE DEF a, c, q
<1>9. Answers(engine.profile, Asked, q, a)
  BY <1>4, <1>5, <1>6, <1>7, <1>8 DEF Answers
<1>10. CallInv' /\ PassesInv' /\ MeasuredInv' /\ CacheInv' /\ FitsInv'
  BY <1>1 DEF EngineInv, CallInv, PassesInv, IsCompiled, MeasuredInv, CacheInv, FitsInv, Concluded, Asked,
              ByPrefix, OneByOne, Batched
<1>11. answers' = Append(answers, a)
  BY <1>2 DEF a, c, q
<1>12. /\ answers' \in Seq(Range(answers) \cup {a}) /\ Len(answers') = Len(answers) + 1
       /\ \A j \in 1..Len(answers) : answers'[j] = answers[j]
       /\ answers'[Len(answers) + 1] = a
  <2>1. answers \in Seq(Range(answers) \cup {a})
    BY <1>3, SeqMonotonic
  <2> QED
    BY <1>11, <2>1, AppendProperties
<1>13. answers' \in Seq(Range(answers'))
  BY <1>12, SeqOfRange
<1>14. ASSUME NEW j \in 1..Len(answers')
       PROVE  Answers(engine.profile, Asked, Asked.questions[j], answers'[j])
  <2>1. CASE j \in 1..Len(answers)
    BY <1>12, <2>1 DEF EngineInv, AnswersInv
  <2>2. CASE j \notin 1..Len(answers)
    <3>1. j = i
      BY <1>3, <1>12, <2>2
    <3> QED
      BY <1>9, <1>12, <3>1 DEF q
  <2> QED
    BY <2>1, <2>2
<1>15. AnswersInv'
  <2>1. Asked' = Asked /\ compiled' = compiled /\ engine' = engine /\ phase' = phase /\ reply' = reply
    BY <1>1 DEF Asked
  <2>2. reply # "response"
    BY <1>1 DEF EngineInv, CallInv
  <2>3. Len(answers') <= Len(compiled[0])
    BY <1>1, <1>3, <1>12
  <2>4. \A j \in 1..Len(answers') : Answers(engine'.profile, Asked', Asked'.questions[j], answers'[j])
    BY <1>14, <2>1
  <2> QED
    BY <1>1, <1>13, <2>1, <2>2, <2>3, <2>4 DEF AnswersInv, Concluded
<1> QED
  BY <1>10, <1>15 DEF EngineInv

(* The response has an answer to every question.                           *)
LEMMA RespondPreserves ==
  ASSUME EngineInv, Respond
  PROVE  EngineInv'
<1>1. /\ phase = "assemble" /\ Len(answers) = Len(compiled[0]) /\ phase' = "over" /\ reply' = "response"
      /\ UNCHANGED <<engine, request, pass, compiled, measured, cache, answers>>
  BY DEF Respond
<1>2. cache = <<>>
  BY <1>1 DEF EngineInv, CacheInv
<1>3. CallInv' /\ PassesInv' /\ MeasuredInv' /\ FitsInv'
  BY <1>1 DEF EngineInv, CallInv, PassesInv, IsCompiled, MeasuredInv, FitsInv, Concluded, Asked
<1>4. CacheInv'
  BY <1>1, <1>2 DEF CacheInv
<1>5. AnswersInv'
  BY <1>1 DEF EngineInv, AnswersInv, Concluded, Asked
<1> QED
  BY <1>3, <1>4, <1>5 DEF EngineInv

-----------------------------------------------------------------------------
(* The engine's theorems.                                                  *)

(* Whatever the engine does keeps the invariant.                           *)
LEMMA WorkPreserves ==
  ASSUME EngineInv, Work
  PROVE  EngineInv'
<1>1. CASE CompileFails
  <2>1. phase = "compile" /\ Raise(IF pass = 0 THEN "value_error" ELSE "unavailable")
    BY <1>1 DEF CompileFails
  <2> QED
    BY <2>1, RaisePreserves
<1>2. CASE ScoreFails
  BY <1>2, RaisePreserves DEF ScoreFails, Scoring
<1>3. CASE AnswerRefused
  BY <1>3, RaisePreserves DEF AnswerRefused, Assembling
<1> QED
  BY <1>1, <1>2, <1>3, CompilePreserves, ScoreOnePreserves, PrefillPreserves, ScoreBranchPreserves,
     ScoreMicrobatchPreserves, EndPassPreserves, AnswerNextPreserves, RespondPreserves DEF Work

(* So does leaving it alone.                                               *)
LEMMA StutterPreserves ==
  ASSUME EngineInv, UNCHANGED evars
  PROVE  EngineInv'
<1>1. CallInv' /\ PassesInv' /\ MeasuredInv' /\ FitsInv'
  BY DEF evars, EngineInv, CallInv, PassesInv, IsCompiled, MeasuredInv, FitsInv, Concluded, Asked
<1>2. AnswersInv'
  BY DEF evars, EngineInv, AnswersInv, Concluded, Asked
<1>3. CacheInv'
  BY DEF evars, EngineInv, CacheInv, ByPrefix, OneByOne, Batched
<1> QED
  BY <1>1, <1>2, <1>3 DEF EngineInv

(* The invariant holds for ever.                                           *)
LEMMA EngineInvariance == Spec => []EngineInv
<1>1. ASSUME EngineInv, [Next]_evars PROVE EngineInv'
  BY <1>1, WorkPreserves, BeginPreserves, StutterPreserves DEF Next
<1> QED
  BY <1>1, EngineInitially, PTL DEF Spec

(* The state of the engine is always of its type: a pass is not begun      *)
(* before the one before it, and never more is measured than compiled or   *)
(* answered than asked.                                                    *)
THEOREM EngineIsTyped == Spec => []TypeOK
<1>1. ASSUME EngineInv PROVE TypeOK
  <2>1. request \in {<<>>} \cup {<<r>> : r \in Requests}
    BY <1>1 DEF EngineInv, CallInv
  <2>2. phase # "idle" => pass < Asked.passes
    <3>1. phase # "idle" => Asked \in Requests
      BY <1>1 DEF EngineInv, CallInv, Asked
    <3>2. phase # "idle" => Asked.passes \in {1, 2}
      BY <3>1, QuestionsAreWellFormed
    <3> QED
      BY <1>1, <3>2 DEF EngineInv, CallInv
  <2> QED
    BY <1>1, <2>1, <2>2 DEF TypeOK, EngineInv, CallInv, PassesInv, MeasuredInv, AnswersInv
<1> QED
  BY <1>1, EngineInvariance, PTL

(* The prefix that the branches of a pass share remains the prefix of each *)
(* of its prompts, however many have been scored on it.                    *)
THEOREM CacheIsNotWrittenInto == Spec => []BranchesAreIsolated
<1>1. ASSUME EngineInv PROVE BranchesAreIsolated
  <2> SUFFICES ASSUME cache # <<>>, NEW i \in DOMAIN compiled[pass]
               PROVE  cache = SubSeq(compiled[pass][i].prompt, 1, Len(cache))
    BY DEF BranchesAreIsolated
  <2> DEFINE cs == compiled[pass]
  <2>1. phase = "score" /\ Len(cs) > 1 /\ SharesPrefix(cs) /\ cache = Prefix(cs[1])
    BY <1>1 DEF EngineInv, CacheInv
  <2>2. pass \in {0, 1} /\ Asked \in Requests /\ cs = Scored(Asked, pass) /\ DOMAIN cs = 1..Len(cs) /\ 1 \in 1..Len(cs)
    BY <1>1, <2>1, TodoReads
  <2> DEFINE c == cs[1]
             d == cs[i]
  <2>3. /\ c.prompt \in Seq(Tokens) /\ \E j \in 1..Len(c.prompt) : c.prompt[j] = State
        /\ d.prompt \in Seq(Tokens)
    BY <2>2, ScoredPrompts
  <2>4. IsPrefix(Prefix(c), d.prompt)
    BY <2>1 DEF SharesPrefix
  <2> HIDE DEF c, d
  <2>5. Prefix(c) = SubSeq(d.prompt, 1, Len(Prefix(c)))
    BY <2>3, <2>4, BranchIsPrompt
  <2> QED
    BY <2>1, <2>5 DEF c, d
<1> QED
  BY <1>1, EngineInvariance, PTL

-----------------------------------------------------------------------------
(* The refinement.                                                         *)

(* The engine begins as the reference does.                                *)
LEMMA InitRefines == Init => Reference!RInit
BY DEF Init, Reference!RInit, Reference!Nothing, Told

(* The answers of a complete response are those of the reference.          *)
LEMMA ResponseIsTheReferences ==
  ASSUME EngineInv, Concluded, Len(answers) = Len(compiled[0])
  PROVE  [i \in DOMAIN answers |-> [id |-> answers[i].id, readings |-> answers[i].readings]]
           = Reference!ReferenceAnswers(Asked)
<1>1. Asked \in Requests /\ pass \in {0, 1}
  BY DEF EngineInv, CallInv, Concluded, Asked
<1>2. compiled[0] = Scored(Asked, 0)
  BY <1>1 DEF EngineInv, PassesInv, IsCompiled, Concluded
<1>3. Len(answers) = Len(Asked.questions)
  BY <1>1, <1>2, ScoredReads, CompiledPassReads DEF EngineInv, AnswersInv
<1>4. DOMAIN answers = 1..Len(answers)
  BY DEF EngineInv, AnswersInv
<1>5. DOMAIN Asked.questions = 1..Len(answers)
  BY <1>1, <1>3, QuestionsAreWellFormed
<1>6. ASSUME NEW i \in 1..Len(answers)
      PROVE  LET q == Asked.questions[i]
             IN  /\ answers[i].id = q.id
                 /\ answers[i].readings = [o \in {q.options[j] : j \in DOMAIN q.options} |-> Reference!ReferenceReadings(Asked, q, o)]
  BY DEF EngineInv, AnswersInv, Answers
<1> QED
  BY <1>4, <1>5, <1>6 DEF Reference!ReferenceAnswers

(* Every step of the engine is a step of the reference, or changes         *)
(* nothing it knows of.                                                    *)
LEMMA StepRefines ==
  ASSUME EngineInv, [Next]_evars
  PROVE  [Reference!RNext]_Reference!rvars
<1>1. ASSUME NEW e \in {"unavailable", "value_error"}, phase # "over", phase # "idle", Raise(e)
      PROVE  Reference!RRefuse
  <2>1. request # <<>>
    <3>1. \E r \in Requests : request = <<r>>
      BY <1>1 DEF EngineInv, CallInv
    <3> QED
      BY <3>1
  <2>2. Told = <<>> /\ Told' = <<e>> /\ request' = request
    BY <1>1 DEF Raise, Told
  <2> QED
    BY <2>1, <2>2 DEF Reference!RRefuse, Reference!Nothing
<1>2. ASSUME phase # "over", phase' # "over", UNCHANGED request
      PROVE  UNCHANGED Reference!rvars
  BY <1>2 DEF Told, Reference!rvars
<1>3. CASE UNCHANGED evars
  BY <1>3 DEF evars, Told, Reference!rvars
<1>4. ASSUME NEW r \in Requests, Begin(r)
      PROVE  Reference!RAsk
  <2>1. request' = <<r>> /\ Told' = <<>>
    BY <1>4 DEF Begin, Told
  <2>2. request = <<>> \/ Told # <<>>
    BY <1>4 DEF Begin, EngineInv, CallInv, Told
  <2> QED
    BY <2>1, <2>2 DEF Reference!RAsk, Reference!Nothing
<1>5. CASE CompileFails
  <2>1. phase = "compile" /\ Raise(IF pass = 0 THEN "value_error" ELSE "unavailable")
    BY <1>5 DEF CompileFails
  <2> QED
    BY <2>1, <1>1 DEF Reference!RNext
<1>6. CASE ScoreFails
  BY <1>1, <1>6 DEF ScoreFails, Scoring, Reference!RNext
<1>7. CASE AnswerRefused
  BY <1>1, <1>7 DEF AnswerRefused, Assembling, Reference!RNext
<1>8. CASE Compile \/ ScoreOne \/ Prefill \/ ScoreBranch \/ ScoreMicrobatch \/ EndPass \/ AnswerNext
  <2>1. phase # "over" /\ phase' # "over" /\ UNCHANGED request
    BY <1>8 DEF Compile, ScoreOne, Prefill, ScoreBranch, ScoreMicrobatch, EndPass, AnswerNext, Assembling, Scoring, Measure
  <2> QED
    BY <1>2, <2>1
<1>9. CASE Respond
  <2>1. /\ phase = "assemble" /\ phase' = "over" /\ reply' = "response"
        /\ Len(answers) = Len(compiled[0]) /\ UNCHANGED <<request, answers>>
    BY <1>9 DEF Respond
  <2>2. [i \in DOMAIN answers |-> [id |-> answers[i].id, readings |-> answers[i].readings]]
          = Reference!ReferenceAnswers(Asked)
    BY <2>1, ResponseIsTheReferences DEF Concluded
  <2>3. Told = <<>> /\ Told' = <<"response", Reference!ReferenceAnswers(request[1])>>
    BY <2>1, <2>2 DEF Told, Asked
  <2>4. request # <<>>
    BY <2>1 DEF EngineInv, CallInv
  <2> QED
    BY <2>1, <2>3, <2>4 DEF Reference!RAnswer, Reference!RNext, Reference!Nothing
<1> QED
  BY <1>3, <1>4, <1>5, <1>6, <1>7, <1>8, <1>9 DEF Next, Work, Reference!RNext

(* Whatever path scores the questions of a request, in whatever portions,  *)
(* whether the engine fails on the way or not, what the caller is told is  *)
(* what the reference would say: each step of the engine is a step of      *)
(* ReferenceScoring or none of it.                                         *)
THEOREM EngineScoresLikeReference == Spec => ScoresLikeReference
BY InitRefines, StepRefines, EngineInvariance, PTL DEF Spec, ScoresLikeReference, Reference!RSpec

-----------------------------------------------------------------------------
(* Review.                                                                 *)

(* The two orders of a choice are two prompts.                             *)
LEMMA OrdersDiffer ==
  ASSUME NEW r \in Requests, NEW i \in 1..Len(r.questions), r.questions[i].primitive = "choice"
  PROVE  Compiled(r, r.questions[i], 0).prompt # Compiled(r, r.questions[i], 1).prompt
<1> DEFINE q == r.questions[i]
           n == Len(q.options)
           last(p) == PrintedOptions(q, p)[n]
           t(p) == Compiled(r, q, p).prompt
<1>1. /\ q.options \in Seq(Options) /\ n >= 2
      /\ \A j, k \in 1..n : q.options[j] = q.options[k] => j = k
  BY QuestionsAreWellFormed
<1>2. last(0) = q.options[n] /\ last(1) = q.options[1]
  BY <1>1, PrintedOptionsAreTheOptions
<1>3. q.options[n] # q.options[1]
  BY <1>1
<1>4. \A p \in {0, 1} : t(p)[Len(t(p)) - 1] = <<"option", last(p)>>
  BY CompiledPrompt
<1> HIDE DEF t, last, q
<1>5. t(0) # t(1)
  BY <1>2, <1>3, <1>4
<1> QED
  BY <1>5 DEF t, q

(* The values at n positions are finitely many, and n if they differ.      *)
LEMMA ImageOfInterval ==
  ASSUME NEW n \in Nat, NEW T, NEW f \in [1..n -> T], T = {f[j] : j \in 1..n}
  PROVE  /\ IsFiniteSet(T)
         /\ (\A j, k \in 1..n : f[j] = f[k] => j = k) => Cardinality(T) = n
<1>1. IsFiniteSet(1..n) /\ Cardinality(1..n) = n
  BY FS_Interval
<1>2. f \in Surjection(1..n, T)
  BY DEF Surjection
<1>3. (\A j, k \in 1..n : f[j] = f[k] => j = k) => f \in Injection(1..n, T)
  BY DEF Injection, IsInjective
<1> QED
  BY <1>1, <1>2, <1>3, FS_Surjection

(* The readings of one order are as many as the options, and those of both *)
(* are more.                                                               *)
LEMMA ReadingsOfTwoOrders ==
  ASSUME NEW r \in Requests, NEW i \in 1..Len(r.questions),
         r.questions[i].primitive = "choice", r.passes = 2
  PROVE  LET q == r.questions[i]
             options == {q.options[j] : j \in DOMAIN q.options}
         IN  Cardinality(UNION {Reference!ReferenceReadings(r, q, o) : o \in options}) > Len(q.options)
<1> DEFINE q == r.questions[i]
           n == Len(q.options)
           options == {q.options[j] : j \in DOMAIN q.options}
           c(p) == Compiled(r, q, p)
           all == UNION {Reference!ReferenceReadings(r, q, o) : o \in options}
           read(p, o) == Reading(c(p).prompt, c(p).options, o)
<1>1. /\ q.options \in Seq(Options) /\ n >= 2 /\ n \in Nat /\ DOMAIN q.options = 1..n
      /\ \A j, k \in 1..n : q.options[j] = q.options[k] => j = k
  <2>1. /\ q.options \in Seq(Options) /\ n >= 2 /\ DOMAIN q.options = 1..n
        /\ \A j, k \in 1..n : q.options[j] = q.options[k] => j = k
    BY QuestionsAreWellFormed, Zenon
  <2>2. n \in Nat
    BY <2>1
  <2> QED
    BY <2>1, <2>2, Zenon
<1>2. c(0).options = q.options
  BY CompiledFields DEF PrintedOptions
<1>3. c(0).prompt # c(1).prompt
  BY OrdersDiffer
<1>4. \A o : Reference!ReferenceReadings(r, q, o) = {read(0, o), read(1, o)}
  <2>1. Reference!Passes(r, q) = {0, 1}
    BY DEF Reference!Passes
  <2> HIDE DEF q
  <2>2. \A o : Reference!ReferenceReadings(r, q, o) = {read(p, o) : p \in {0, 1}}
    BY <2>1, ReferenceReads
  <2> QED
    BY <2>2
<1>5. \A j \in 1..n : q.options[j] \in options
  BY <1>1
<1> HIDE DEF read, options
<1> DEFINE firsts == {read(0, q.options[j]) : j \in 1..n}
           seconds == {read(1, q.options[j]) : j \in 1..n}
<1>7. all = firsts \cup seconds
  <2>1. options = {q.options[j] : j \in 1..n}
    BY <1>1 DEF options
  <2> HIDE DEF q, n
  <2>2. ASSUME NEW x
        PROVE  x \in all <=> \E j \in 1..n : x = read(0, q.options[j]) \/ x = read(1, q.options[j])
    <3>1. x \in all <=> \E o \in options : x \in Reference!ReferenceReadings(r, q, o)
      OBVIOUS
    <3>2. (\E o \in options : x \in Reference!ReferenceReadings(r, q, o))
            <=> \E o \in options : x = read(0, o) \/ x = read(1, o)
      BY <1>4
    <3>3. (\E o \in options : x = read(0, o) \/ x = read(1, o))
            <=> \E j \in 1..n : x = read(0, q.options[j]) \/ x = read(1, q.options[j])
      BY <2>1
    <3> QED
      BY <3>1, <3>2, <3>3, Zenon
  <2> HIDE DEF all
  <2> QED
    BY <2>2
<1>8. \A j \in 1..n : read(0, q.options[j]).seen = c(0).prompt /\ read(0, q.options[j]).label = j
  BY <1>1, <1>2 DEF read, Reading
<1>9. \A o : read(1, o).seen = c(1).prompt
  BY DEF read, Reading
<1>10. read(1, q.options[1]) \notin firsts
  BY <1>3, <1>8, <1>9
<1> HIDE DEF n, q, c
<1>11. IsFiniteSet(firsts) /\ Cardinality(firsts) = n
  <2> DEFINE f == [j \in 1..n |-> read(0, q.options[j])]
  <2>1. f \in [1..n -> firsts] /\ firsts = {f[j] : j \in 1..n}
    OBVIOUS
  <2>2. \A j, k \in 1..n : f[j] = f[k] => j = k
    BY <1>8
  <2> HIDE DEF f, firsts
  <2> QED
    BY <1>1, <2>1, <2>2, ImageOfInterval
<1>12. IsFiniteSet(seconds)
  <2> DEFINE f == [j \in 1..n |-> read(1, q.options[j])]
  <2>1. f \in [1..n -> seconds] /\ seconds = {f[j] : j \in 1..n}
    OBVIOUS
  <2> HIDE DEF f, seconds
  <2> QED
    BY <1>1, <2>1, ImageOfInterval
<1> HIDE DEF firsts, seconds, all
<1>13. IsFiniteSet(all)
  BY <1>7, <1>11, <1>12, FS_Union
<1> DEFINE more == firsts \cup {read(1, q.options[1])}
<1>14. more \in SUBSET all
  <2>1. 1 \in 1..n
    BY <1>1
  <2> QED
    BY <1>7, <2>1 DEF seconds
<1>15. Cardinality(more) = n + 1
  BY <1>10, <1>11, FS_AddElement
<1> HIDE DEF more
<1>16. Cardinality(more) <= Cardinality(all) /\ Cardinality(all) \in Nat
  BY <1>13, <1>14, FS_Subset, FS_CardinalityType
<1>17. Cardinality(all) > n
  BY <1>1, <1>15, <1>16
<1> QED
  BY <1>17 DEF all, n, q, options

(* An accepted answer is one that a profile with evidence for just this    *)
(* kind of question covers, that the two orders did not pull apart beyond  *)
(* the limit, and that, where they were asked for, both orders were read   *)
(* for.                                                                    *)
THEOREM AcceptanceIsEarned == Spec => []DoubtfulIsReviewed
<1>1. ASSUME EngineInv PROVE DoubtfulIsReviewed
  <2> SUFFICES ASSUME NEW i \in DOMAIN answers, answers[i].disposition = "accept"
               PROVE  /\ answers[i].status = "validated" /\ answers[i].swing # "beyond"
                      /\ LET q == Asked.questions[i] IN
                           /\ q.id = answers[i].id
                           /\ engine.profile.primitive = q.primitive
                           /\ Len(q.options) \in engine.profile.cardinalities
                           /\ (Asked.passes = 2 /\ q.primitive = "choice") =>
                                Cardinality(UNION {answers[i].readings[o] : o \in DOMAIN answers[i].readings})
                                  > Len(q.options)
    BY DEF DoubtfulIsReviewed
  <2> DEFINE q == Asked.questions[i]
             options == {q.options[j] : j \in DOMAIN q.options}
             readings == answers[i].readings
  <2>1. i \in 1..Len(answers) /\ Len(answers) \in Nat /\ answers # <<>>
    BY <1>1 DEF EngineInv, AnswersInv
  <2>2. Concluded /\ Asked \in Requests /\ pass \in {0, 1}
    BY <1>1, <2>1 DEF EngineInv, CallInv, AnswersInv, Concluded, Asked
  <2>3. compiled[0] = Scored(Asked, 0)
    BY <1>1, <2>2 DEF EngineInv, PassesInv, IsCompiled
  <2>4. i \in 1..Len(Asked.questions)
    <3>1. Len(compiled[0]) = Len(Asked.questions) /\ Len(Asked.questions) \in Nat
      BY <2>2, <2>3, ScoredReads, CompiledPassReads, QuestionsAreWellFormed
    <3>2. Len(answers) <= Len(compiled[0])
      BY <1>1 DEF EngineInv, AnswersInv
    <3> QED
      BY <2>1, <3>1, <3>2
  <2>5. /\ answers[i].id = q.id /\ answers[i].status = "validated" /\ answers[i].swing # "beyond"
        /\ engine.profile.primitive = q.primitive /\ Len(q.options) \in engine.profile.cardinalities
        /\ readings = [o \in options |-> Reference!ReferenceReadings(Asked, q, o)]
    BY <1>1, <2>1 DEF EngineInv, AnswersInv, Answers
  <2>6. ASSUME Asked.passes = 2, q.primitive = "choice"
        PROVE  Cardinality(UNION {readings[o] : o \in DOMAIN readings}) > Len(q.options)
    <3>1. Cardinality(UNION {Reference!ReferenceReadings(Asked, q, o) : o \in options}) > Len(q.options)
      BY <2>2, <2>4, <2>6, ReadingsOfTwoOrders
    <3> HIDE DEF q, options, readings
    <3>2. {readings[o] : o \in DOMAIN readings} = {Reference!ReferenceReadings(Asked, q, o) : o \in options}
      BY <2>5
    <3> QED
      BY <3>1, <3>2
  <2> QED
    BY <2>5, <2>6
<1> QED
  BY <1>1, EngineInvariance, PTL

-----------------------------------------------------------------------------
(* The service.                                                            *)

(* The engine is evaluating what the caller whose thread has it posted.    *)
WorkerInv ==
  \/ worker = {} /\ phase = "idle"
  \/ \E c \in Callers : worker = {c} /\ request = <<posted[c]>> /\ phase # "idle"

ServiceInv ==
  /\ EngineInv /\ WorkerInv /\ OwnAnswers
  /\ posted \in [Callers -> Requests]
  /\ http = [c \in Callers |-> http[c]] /\ body = [c \in Callers |-> body[c]]

(* The engine works on one call until it is over.                          *)
LEMMA WorkKeepsTheCall ==
  ASSUME EngineInv, Work
  PROVE  phase # "idle" /\ phase' # "idle" /\ request' = request
BY DEF Work, Compile, CompileFails, ScoreOne, Prefill, ScoreBranch, ScoreMicrobatch, ScoreFails, EndPass,
       AnswerNext, AnswerRefused, Respond, Raise, Scoring, Measure, Assembling

(* An engine without a call is in the invariant.                           *)
LEMMA IdlePreserves ==
  ASSUME EngineInv, Idle
  PROVE  EngineInv'
<1>1. /\ compiled' = [p \in {0, 1} |-> <<>>] /\ measured' = [p \in {0, 1} |-> <<>>] /\ engine' = engine
      /\ phase' = "idle" /\ pass' = 0 /\ reply' = "none" /\ request' = <<>> /\ cache' = <<>> /\ answers' = <<>>
  BY DEF Idle, NoPass
<1>2. CallInv'
  BY <1>1 DEF EngineInv, CallInv, Concluded
<1>3. PassesInv'
  BY <1>1 DEF PassesInv, IsCompiled, Concluded
<1>4. MeasuredInv' /\ FitsInv'
  BY <1>1 DEF MeasuredInv, FitsInv
<1>5. CacheInv'
  BY <1>1 DEF CacheInv
<1>6. AnswersInv'
  BY <1>1 DEF AnswersInv, Concluded
<1> QED
  BY <1>2, <1>3, <1>4, <1>5, <1>6 DEF EngineInv

(* What a handler sends back when the engine's call is over.               *)
LEMMA ReturnedIsOwn ==
  ASSUME EngineInv, phase = "over", NEW r, request = <<r>>
  PROVE  IF Status(reply) = 200
         THEN [i \in DOMAIN answers |-> [id |-> answers[i].id, readings |-> answers[i].readings]]
                = Reference!ReferenceAnswers(r)
         ELSE answers = <<>>
<1>1. reply \in {"response", "unavailable", "value_error"} /\ Asked = r
  BY DEF EngineInv, CallInv, Asked
<1>2. CASE reply = "response"
  BY <1>1, <1>2, ResponseIsTheReferences DEF EngineInv, AnswersInv, Concluded, Status
<1>3. CASE reply # "response"
  <2>1. answers = <<>>
    BY <1>3 DEF EngineInv, AnswersInv, Concluded
  <2>2. Status(reply) # 200
    BY <1>1, <1>3 DEF Status
  <2> QED
    BY <2>1, <2>2
<1> QED
  BY <1>2, <1>3

(* The service begins in the invariant.                                    *)
LEMMA ServiceInitially == ServiceInit => ServiceInv
BY EngineInitially DEF ServiceInit, ServiceInv, Init, WorkerInv, OwnAnswers

(* Every step of the service keeps the invariant.                          *)
LEMMA ServicePreserves ==
  ASSUME ServiceInv, [ServiceNext]_svars
  PROVE  ServiceInv'
<1>0. EngineInv /\ WorkerInv /\ OwnAnswers
  BY DEF ServiceInv
<1>1. CASE UNCHANGED <<evars, posted, worker, http, body>>
  <2>1. EngineInv'
    BY <1>0, <1>1, StutterPreserves
  <2> QED
    BY <1>1, <2>1 DEF ServiceInv, WorkerInv, OwnAnswers, evars
<1>2. CASE EngineWorks
  <2>1. EngineInv' /\ phase # "idle" /\ phase' # "idle" /\ request' = request
    BY <1>0, <1>2, WorkPreserves, WorkKeepsTheCall DEF EngineWorks
  <2> QED
    BY <1>2, <2>1 DEF EngineWorks, ServiceInv, WorkerInv, OwnAnswers
<1>3. ASSUME NEW c \in Callers, http[c] = 0, NEW status \in Int, status # 200, Answered(c, status),
             UNCHANGED <<evars, posted, worker, body>>
      PROVE  ServiceInv'
  <2>1. EngineInv'
    BY <1>0, <1>3, StutterPreserves
  <2>2. body[c] = <<>>
    BY <1>3 DEF ServiceInv, OwnAnswers
  <2> QED
    BY <1>3, <2>1, <2>2 DEF Answered, ServiceInv, WorkerInv, OwnAnswers, evars
<1>4. ASSUME NEW c \in Callers, Admit(c)
      PROVE  ServiceInv'
  <2>1. UNCHANGED <<app, posted, http, body>>
    BY <1>4 DEF Admit
  <2>2. CASE Begin(posted[c]) /\ worker' = {c}
    <3>1. posted[c] \in Requests
      BY DEF ServiceInv
    <3>2. EngineInv' /\ request' = <<posted[c]>> /\ phase' # "idle"
      BY <1>0, <2>2, <3>1, BeginPreserves DEF Begin
    <3> QED
      BY <2>1, <2>2, <3>2 DEF ServiceInv, WorkerInv, OwnAnswers
  <2>3. CASE UNCHANGED <<evars, worker>>
    BY <1>1, <2>1, <2>3
  <2> QED
    BY <1>4, <2>2, <2>3 DEF Admit
<1>5. ASSUME NEW c \in Callers, Return(c)
      PROVE  ServiceInv'
  <2>1. /\ http[c] = 0 /\ worker = {c} /\ phase = "over" /\ worker' = {} /\ Idle /\ UNCHANGED posted
        /\ http' = [http EXCEPT ![c] = Status(reply)] /\ body' = [body EXCEPT ![c] = answers]
    BY <1>5 DEF Return, Serving, Answered
  <2>2. request = <<posted[c]>>
    BY <1>0, <2>1 DEF WorkerInv
  <2>3. IF Status(reply) = 200
        THEN [i \in DOMAIN answers |-> [id |-> answers[i].id, readings |-> answers[i].readings]]
               = Reference!ReferenceAnswers(posted[c])
        ELSE answers = <<>>
    BY <1>0, <2>1, <2>2, ReturnedIsOwn
  <2>4. EngineInv' /\ phase' = "idle"
    BY <1>0, <2>1, IdlePreserves DEF Idle
  <2>5. OwnAnswers'
    <3> SUFFICES ASSUME NEW d \in Callers
                 PROVE  IF http'[d] = 200
                        THEN [i \in DOMAIN body'[d] |-> [id |-> body'[d][i].id, readings |-> body'[d][i].readings]]
                               = Reference!ReferenceAnswers(posted'[d])
                        ELSE body'[d] = <<>>
      BY DEF OwnAnswers
    <3>1. CASE d = c
      <4>1. http'[d] = Status(reply) /\ body'[d] = answers /\ posted'[d] = posted[c]
        BY <2>1, <3>1 DEF ServiceInv
      <4> QED
        BY <2>3, <4>1
    <3>2. CASE d # c
      <4>1. http'[d] = http[d] /\ body'[d] = body[d] /\ posted'[d] = posted[d]
        BY <2>1, <3>2 DEF ServiceInv
      <4> QED
        BY <1>0, <4>1 DEF OwnAnswers
    <3> QED
      BY <3>1, <3>2
  <2> QED
    BY <2>1, <2>4, <2>5 DEF ServiceInv, WorkerInv
<1>6. ASSUME NEW c \in Callers, Reclaim(c)
      PROVE  ServiceInv'
  <2>1. EngineInv' /\ phase' = "idle" /\ worker' = {} /\ UNCHANGED <<posted, http, body>>
    BY <1>0, <1>6, IdlePreserves DEF Reclaim, Idle
  <2> QED
    BY <2>1 DEF ServiceInv, WorkerInv, OwnAnswers
<1>7. ASSUME NEW c \in Callers, NotReady(c) \/ Refuse(c) \/ Expire(c)
      PROVE  ServiceInv'
  <2>1. PICK status \in {503, 429, 504, 499} : Answered(c, status)
    BY <1>7 DEF NotReady, Refuse, Expire
  <2>2. http[c] = 0 /\ UNCHANGED <<evars, posted, worker, body>>
    BY <1>7 DEF NotReady, Refuse, Expire, Serving
  <2> QED
    BY <1>3, <2>1, <2>2
<1>8. CASE Startup
  BY <1>1, <1>8 DEF Startup
<1>9. CASE UNCHANGED svars
  BY <1>1, <1>9 DEF svars
<1> QED
  BY <1>2, <1>4, <1>5, <1>6, <1>7, <1>8, <1>9 DEF ServiceNext, Handle

(* Every caller that is told 200 is told the answers to its own questions, *)
(* read from its own prompts, and every other caller is told none.         *)
THEOREM CallersGetTheirOwn == ServiceSpec => []OwnAnswers
<1>1. ServiceInv => OwnAnswers
  BY DEF ServiceInv
<1> QED
  BY <1>1, ServiceInitially, ServicePreserves, PTL DEF ServiceSpec

(* Whoever has been answered is not answered again.                        *)
THEOREM NobodyIsAnsweredTwice == ServiceSpec => AnsweredOnce
<1> DEFINE Once == \A c \in Callers : http[c] # 0 => http'[c] = http[c] /\ body'[c] = body[c]
<1>1. ASSUME ServiceInv, [ServiceNext]_svars PROVE [Once]_svars
  <2> SUFFICES ASSUME ServiceNext PROVE Once
    BY <1>1
  <2>1. CASE UNCHANGED <<http, body>>
    BY <2>1
  <2>2. ASSUME NEW c \in Callers, http[c] = 0, NEW status, http' = [http EXCEPT ![c] = status],
               body' = body \/ body' = [body EXCEPT ![c] = answers]
        PROVE  Once
    BY <1>1, <2>2 DEF ServiceInv
  <2> HIDE DEF Once
  <2>3. CASE Startup \/ EngineWorks
    BY <2>1, <2>3 DEF Startup, EngineWorks
  <2>4. ASSUME NEW c \in Callers, Handle(c)
        PROVE  Once
    <3>1. CASE Admit(c) \/ Reclaim(c)
      BY <2>1, <3>1 DEF Admit, Reclaim
    <3>2. CASE NotReady(c) \/ Refuse(c) \/ Expire(c) \/ Return(c)
      BY <2>2, <3>2 DEF NotReady, Refuse, Expire, Return, Serving, Answered
    <3> QED
      BY <2>4, <3>1, <3>2 DEF Handle
  <2> QED
    BY <2>3, <2>4 DEF ServiceNext
<1> QED
  BY <1>1, ServiceInitially, ServicePreserves, PTL DEF ServiceSpec, AnsweredOnce

-----------------------------------------------------------------------------
(* The service as a client of the scheduler.                               *)

(* Whoever has the engine is who is at work, and nobody shares it.         *)
OneWorks ==
  /\ place = [c \in Callers |-> place[c]]
  /\ worker = Scheduler!Held("work")
  /\ worker = {} \/ \E c \in Callers : worker = {c}

(* The scheduler's promise counts as everybody does.                       *)
LEMMA CardinalitiesAgree == \A S : Scheduler!Cardinality(S) = Cardinality(S)
BY DEF Scheduler!Cardinality, Cardinality

(* Where one is at work, there is no place for another.                    *)
LEMMA OneAtWork ==
  ASSUME OneWorks, Scheduler!Cardinality(Scheduler!Held("work")) < MaximumConcurrency
  PROVE  worker = {} /\ Scheduler!Held("work") = {}
<1>1. ASSUME NEW c \in Callers, worker = {c}
      PROVE  FALSE
  <2>1. Scheduler!Cardinality({c}) = 1
    BY FS_Singleton, CardinalitiesAgree
  <2> QED
    BY <1>1, <2>1 DEF OneWorks, MaximumConcurrency
<1> QED
  BY <1>1 DEF OneWorks

(* A caller moves, and if it comes to work or leaves it, so does the       *)
(* thread that has the engine.                                             *)
LEMMA MoveKeepsOne ==
  ASSUME OneWorks, NEW c \in Callers, NEW to,
         place' = [place EXCEPT ![c] = to],
         IF to = "work" THEN worker \in {{}, {c}} /\ worker' = {c} ELSE worker' = worker \ {c}
  PROVE  OneWorks'
<1>1. place' = [d \in Callers |-> IF d = c THEN to ELSE place[d]]
  BY DEF OneWorks
<1>2. Scheduler!Held("work")' = IF to = "work" THEN Scheduler!Held("work") \cup {c}
                                               ELSE Scheduler!Held("work") \ {c}
  BY <1>1 DEF Scheduler!Held
<1> QED
  BY <1>1, <1>2 DEF OneWorks

(* At first nobody is at work.                                             *)
LEMMA OneWorksInitially == ServiceInit => OneWorks
BY DEF ServiceInit, Scheduler!AInit, OneWorks, Scheduler!Held

(* What a handler does is a step of the scheduler's promise, or none.      *)
LEMMA HandleIsAllowed ==
  ASSUME OneWorks, NEW c \in Callers, Handle(c)
  PROVE  OneWorks' /\ [Scheduler!ANext]_(Scheduler!avars)
<1>1. CASE NotReady(c)
  BY <1>1 DEF NotReady, OneWorks, Scheduler!Held, Scheduler!avars
<1>2. CASE Refuse(c)
  <2>1. Scheduler!ANext
    BY <1>2 DEF Refuse, Scheduler!ANext
  <2> QED
    BY <1>2, <2>1 DEF Refuse, Scheduler!ARefuse, OneWorks, Scheduler!Held
<1>3. CASE Admit(c)
  <2>1. Scheduler!ANext
    BY <1>3 DEF Admit, Scheduler!ANext
  <2>2. PICK to \in {"queue", "work"} :
          /\ to = "work" => Scheduler!Cardinality(Scheduler!Held("work")) < MaximumConcurrency
          /\ place[c] \in {"outside", "queue"} /\ place' = [place EXCEPT ![c] = to]
    <3>1. CASE Scheduler!AEnter(c)
      BY <3>1 DEF Scheduler!AEnter
    <3>2. CASE Scheduler!AStart(c)
      BY <3>2 DEF Scheduler!AStart
    <3> QED
      BY <1>3, <3>1, <3>2 DEF Admit
  <2>3. place'[c] = to /\ c \notin worker
    BY <2>2 DEF OneWorks, Scheduler!Held
  <2>4. CASE to = "work"
    BY <1>3, <2>2, <2>3, <2>4, OneAtWork, MoveKeepsOne, <2>1 DEF Admit
  <2>5. CASE to = "queue"
    <3>1. worker' = worker \ {c}
      BY <1>3, <2>3, <2>5 DEF Admit
    <3> QED
      BY <2>1, <2>2, <2>5, <3>1, MoveKeepsOne
  <2> QED
    BY <2>4, <2>5
<1>4. CASE Return(c)
  <2>1. Scheduler!ANext
    BY <1>4 DEF Return, Scheduler!ANext
  <2>2. place' = [place EXCEPT ![c] = "outside"] /\ worker' = worker \ {c}
    BY <1>4 DEF Return, Scheduler!AAnswer
  <2> QED
    BY <2>1, <2>2, MoveKeepsOne
<1>5. CASE Expire(c)
  <2>1. Scheduler!ANext
    BY <1>5 DEF Expire, Scheduler!ANext
  <2>2. CASE place' = place
    BY <1>5, <2>1, <2>2 DEF Expire, OneWorks, Scheduler!Held
  <2>3. CASE place[c] = "queue" /\ place' = [place EXCEPT ![c] = "outside"]
    <3>1. worker' = worker \ {c}
      BY <1>5, <2>3 DEF Expire, OneWorks, Scheduler!Held
    <3> QED
      BY <2>1, <2>3, <3>1, MoveKeepsOne
  <2>4. place' = place \/ (place[c] = "queue" /\ place' = [place EXCEPT ![c] = "outside"])
    BY <1>5 DEF Expire, Scheduler!ATooLate, Scheduler!AGiveUp, OneWorks
  <2> QED
    BY <2>2, <2>3, <2>4
<1>6. CASE Reclaim(c)
  <2>1. Scheduler!ANext
    BY <1>6 DEF Reclaim, Scheduler!ANext
  <2>2. place' = [place EXCEPT ![c] = "outside"] /\ worker' = worker \ {c}
    BY <1>6 DEF Reclaim, Scheduler!AReclaim
  <2> QED
    BY <2>1, <2>2, MoveKeepsOne
<1> QED
  BY <1>1, <1>2, <1>3, <1>4, <1>5, <1>6 DEF Handle

(* So is every step of the service, and the engine stays with who is at    *)
(* work.                                                                   *)
LEMMA ServiceIsAllowed ==
  ASSUME OneWorks, [ServiceNext]_svars
  PROVE  OneWorks' /\ [Scheduler!ANext]_(Scheduler!avars)
<1>1. CASE UNCHANGED <<place, result, worker>>
  BY <1>1 DEF OneWorks, Scheduler!Held, Scheduler!avars
<1>2. CASE \E c \in Callers : Handle(c)
  BY <1>2, HandleIsAllowed
<1> QED
  BY <1>1, <1>2 DEF ServiceNext, Startup, EngineWorks, svars

(* One thread at most uses the engine, also after its caller has given up, *)
(* so that one copy of the engine's variables is enough (service.py gives  *)
(* the scheduler a concurrency of one).                                    *)
THEOREM EngineIsNotShared == ServiceSpec => [](worker = Scheduler!Held("work") /\ Cardinality(worker) <= 1)
<1>1. ASSUME OneWorks PROVE worker = Scheduler!Held("work") /\ Cardinality(worker) <= 1
  <2>1. Cardinality({}) = 0 /\ \A c \in Callers : Cardinality({c}) = 1
    BY FS_EmptySet, FS_Singleton
  <2> QED
    BY <1>1, <2>1 DEF OneWorks
<1> QED
  BY <1>1, OneWorksInitially, ServiceIsAllowed, PTL DEF ServiceSpec

(* Every behaviour of the service is one the scheduler's promise allows:   *)
(* the handler takes no place and gives none back but through it.          *)
THEOREM ServiceKeepsThePromise == ServiceSpec => Scheduler!ASpec
<1>1. ServiceInit => Scheduler!AInit
  BY DEF ServiceInit
<1> QED
  BY <1>1, OneWorksInitially, ServiceIsAllowed, PTL DEF ServiceSpec, Scheduler!ASpec
=============================================================================
