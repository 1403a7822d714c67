--------------------------- MODULE PublicSuiteProofs ---------------------------
(***************************************************************************)
(* The public suite, for any threshold, any texts, any number of rows and  *)
(* any seeds: the duplicates are found, the components are kept apart, and *)
(* what is used of a suite is what the one build there can be made of it,  *)
(* in whatever part a killed build has left the file.                      *)
(***************************************************************************)
EXTENDS PublicSuite, JsonLinesLemmas, WellFoundedInduction

-----------------------------------------------------------------------------
(* The prefix filter.                                                      *)

(* The least number of shingles that two similar texts share.              *)
LEMMA CeilingBound ==
  ASSUME NEW n \in Nat, NEW c \in Nat, ThresholdDen * c >= ThresholdNum * n
  PROVE  CeilingOf(n) \in Int /\ CeilingOf(n) <= c
<1> DEFINE N == ThresholdNum * n
           D == ThresholdDen
           q == (N + D - 1) \div D
<1>1. D \in Nat \ {0} /\ ThresholdNum \in Nat \ {0} /\ N \in Nat /\ D * c >= N
  BY PublicAssumption
<1> HIDE DEF N, D
<1>2. q \in Int /\ D * q <= N + D - 1
  BY <1>1
<1>3. ASSUME q >= c + 1
      PROVE  FALSE
  <2> HIDE DEF q
  <2>1. D * q >= D * (c + 1)
    BY <1>1, <1>2, <1>3
  <2>2. D * (c + 1) = D * c + D
    BY <1>1
  <2>3. D * q \in Int /\ D * c \in Int
    BY <1>1, <1>2
  <2> QED
    BY <1>1, <1>2, <2>1, <2>2, <2>3
<1>4. q <= c
  BY <1>2, <1>3
<1> QED
  BY <1>2, <1>4 DEF CeilingOf, N, D, q

(* Up to the first shingle they share, a text has no more shingles than    *)
(* its prefix has room for.                                                *)
LEMMA FirstIsInPrefix ==
  ASSUME NEW g \in SUBSET Nat, IsFiniteSet(g), NEW c \in SUBSET g,
         ThresholdDen * Cardinality(c) >= ThresholdNum * Cardinality(g),
         NEW x \in c, \A y \in c : x <= y
  PROVE  x \in Prefix(g)
<1> DEFINE below == {y \in g : y <= x}
<1>1. /\ Cardinality(g) \in Nat /\ Cardinality(c) \in Nat /\ IsFiniteSet(c)
      /\ Cardinality(below) \in Nat /\ IsFiniteSet(below)
  <2>1. below \in SUBSET g
    OBVIOUS
  <2> QED
    BY <2>1, FS_Subset, FS_CardinalityType
<1>2. CeilingOf(Cardinality(g)) \in Int /\ CeilingOf(Cardinality(g)) <= Cardinality(c)
  BY <1>1, CeilingBound
<1>3. below \cap c = {x}
  <2>1. ASSUME NEW y \in below \cap c
        PROVE  y = x
    <3>1. y \in Nat /\ x \in Nat /\ y <= x /\ x <= y
      OBVIOUS
    <3> QED
      BY <3>1
  <2>2. x \in below
    OBVIOUS
  <2> QED
    BY <2>1, <2>2
<1>4. Cardinality(below \cup c) = Cardinality(below) + Cardinality(c) - 1
  <2>1. Cardinality(below \cap c) = 1
    BY <1>3, FS_Singleton
  <2> HIDE DEF below
  <2> QED
    BY <1>1, <2>1, FS_Union
<1>5. Cardinality(below \cup c) \in Nat /\ Cardinality(below \cup c) <= Cardinality(g)
  <2>1. below \cup c \in SUBSET g
    OBVIOUS
  <2> QED
    BY <2>1, FS_Subset, FS_CardinalityType
<1>6. Cardinality(below) <= Cardinality(g) - CeilingOf(Cardinality(g)) + 1
  <2> HIDE DEF below
  <2> QED
    BY <1>1, <1>2, <1>4, <1>5
<1> QED
  BY <1>6 DEF Prefix

(* cluster_duplicates compares only the rows that share a shingle of their *)
(* prefixes (public_data.py, lines 272-279), and no pair at or over the    *)
(* threshold escapes it.                                                   *)
THEOREM PrefixFilterIsComplete ==
  ASSUME NEW g \in SUBSET Nat, IsFiniteSet(g), NEW h \in SUBSET Nat, IsFiniteSet(h),
         Similar(g, h)
  PROVE  Prefix(g) \cap Prefix(h) # {}
<1> DEFINE common == g \cap h
           all == g \cup h
<1>1. /\ Cardinality(common) \in Nat /\ IsFiniteSet(common)
      /\ Cardinality(all) \in Nat /\ IsFiniteSet(all)
      /\ Cardinality(g) \in Nat /\ Cardinality(h) \in Nat
  BY FS_Intersection, FS_Union, FS_CardinalityType
<1>2. ThresholdDen \in Nat \ {0} /\ ThresholdNum \in Nat \ {0}
  BY PublicAssumption
<1>3. ThresholdDen * Cardinality(common) >= ThresholdNum * Cardinality(all)
  BY DEF Similar
<1>4. /\ Cardinality(g) <= Cardinality(all) /\ Cardinality(h) <= Cardinality(all)
      /\ Cardinality(all) # 0
  <2>1. g \in SUBSET all /\ h \in SUBSET all /\ all # {}
    BY DEF Similar
  <2> HIDE DEF all
  <2> QED
    BY <1>1, <2>1, FS_Subset, FS_EmptySet
<1>5. ASSUME NEW n \in Nat, n <= Cardinality(all)
      PROVE  ThresholdDen * Cardinality(common) >= ThresholdNum * n
  <2> HIDE DEF all, common
  <2>1. ThresholdNum * n <= ThresholdNum * Cardinality(all)
    BY <1>1, <1>2, <1>5
  <2>2. /\ ThresholdNum * n \in Int /\ ThresholdNum * Cardinality(all) \in Int
        /\ ThresholdDen * Cardinality(common) \in Int
    BY <1>1, <1>2
  <2> QED
    BY <1>3, <2>1, <2>2
<1>6. common # {}
  <2> SUFFICES ASSUME common = {} PROVE FALSE
    OBVIOUS
  <2>1. Cardinality(common) = 0
    BY FS_EmptySet
  <2>2. Cardinality(all) >= 1
    BY <1>1, <1>4
  <2> HIDE DEF all, common
  <2>3. ThresholdDen * Cardinality(common) >= ThresholdNum * 1
    BY <1>5, <2>2
  <2> QED
    BY <1>2, <2>1, <2>3
<1>7. PICK x \in common : \A y \in common : x <= y
  BY <1>6, LeastNatural
<1>8. x \in Prefix(g)
  <2>1. common \in SUBSET g
    OBVIOUS
  <2> HIDE DEF common
  <2> QED
    BY <1>1, <1>4, <1>5, <1>7, <2>1, FirstIsInPrefix
<1>9. x \in Prefix(h)
  <2>1. common \in SUBSET h
    OBVIOUS
  <2> HIDE DEF common
  <2> QED
    BY <1>1, <1>4, <1>5, <1>7, <2>1, FirstIsInPrefix
<1> QED
  BY <1>8, <1>9

-----------------------------------------------------------------------------
(* Recursion and induction, by the least number principle.                 *)

(* Induction up to n, for a set of naturals.                               *)
LEMMA UpTo ==
  ASSUME NEW n \in Nat, NEW T \in SUBSET (0..n), 0 \in T, \A k \in 1..n : k - 1 \in T => k \in T
  PROVE  T = 0..n
<1> SUFFICES ASSUME T # 0..n
             PROVE  FALSE
  OBVIOUS
<1> DEFINE B == (0..n) \ T
<1>1. B \in SUBSET Nat /\ B # {}
  <2>1. \A k \in B : k \in Nat
    OBVIOUS
  <2>2. PICK k \in 0..n : k \notin T
    OBVIOUS
  <2> QED
    BY <2>1, <2>2
<1> HIDE DEF B
<1>2. PICK k \in B : \A l \in B : k <= l
  BY <1>1, LeastNatural
<1> USE DEF B
<1>3. k \in 1..n /\ k - 1 \notin B /\ k - 1 \in 0..n
  BY <1>2
<1> QED
  BY <1>2, <1>3

(* What holds at 0 and passes from each number to the next holds up to n.  *)
LEMMA StaysIn ==
  ASSUME NEW n \in Nat, NEW S, NEW g, g[0] \in S, \A k \in 1..n : g[k - 1] \in S => g[k] \in S
  PROVE  \A k \in 0..n : g[k] \in S
<1> DEFINE T == {k \in 0..n : g[k] \in S}
<1>1. 0 \in T /\ T \in SUBSET (0..n)
  OBVIOUS
<1>2. \A k \in 1..n : k - 1 \in T => k \in T
  OBVIOUS
<1> HIDE DEF T
<1>3. T = 0..n
  BY <1>1, <1>2, UpTo
<1> QED
  BY <1>3 DEF T

(* A recursion over an interval defines a function.                        *)
Unfolds(g, n, S, base, f) == g \in [0..n -> S] /\ g[0] = base /\ \A i \in 1..n : g[i] = f[<<g[i - 1], i>>]

(* A function of the numbers up to n is defined by its first value and by  *)
(* each next one.                                                          *)
LEMMA Recursion ==
  ASSUME NEW n \in Nat, NEW S, NEW base \in S, NEW f \in [S \X (1..n) -> S]
  PROVE  \E g : Unfolds(g, n, S, base, f)
<1> DEFINE T == {k \in 0..n : \E g \in [0..k -> S] : g[0] = base /\ \A i \in 1..k : g[i] = f[<<g[i - 1], i>>]}
<1>1. 0 \in T
  <2> DEFINE g == [i \in 0..0 |-> base]
  <2>1. g \in [0..0 -> S] /\ g[0] = base
    OBVIOUS
  <2> HIDE DEF g
  <2> QED
    BY <2>1
<1>2. ASSUME NEW k \in 1..n, k - 1 \in T
      PROVE  k \in T
  <2>1. PICK g \in [0..(k - 1) -> S] : g[0] = base /\ \A i \in 1..(k - 1) : g[i] = f[<<g[i - 1], i>>]
    BY <1>2
  <2> DEFINE h == [i \in 0..k |-> IF i = k THEN f[<<g[k - 1], k>>] ELSE g[i]]
  <2>2. f[<<g[k - 1], k>>] \in S
    <3>1. <<g[k - 1], k>> \in S \X (1..n)
      OBVIOUS
    <3> QED
      BY <3>1
  <2>3. h \in [0..k -> S]
    BY <2>2
  <2>4. /\ h[k] = f[<<g[k - 1], k>>]
        /\ \A i \in 0..(k - 1) : h[i] = g[i]
    OBVIOUS
  <2> HIDE DEF h
  <2>5. h[0] = base /\ \A i \in 1..k : h[i] = f[<<h[i - 1], i>>]
    <3>1. ASSUME NEW i \in 1..k
          PROVE  h[i] = f[<<h[i - 1], i>>]
      <4>1. CASE i = k
        BY <2>4, <4>1
      <4>2. CASE i # k
        BY <2>1, <2>4, <4>2
      <4> QED
        BY <4>1, <4>2
    <3> QED
      BY <2>1, <2>4, <3>1
  <2> QED
    BY <2>3, <2>5
<1> HIDE DEF T
<1>3. T = 0..n
  BY <1>1, <1>2, UpTo DEF T
<1>4. n \in T
  BY <1>3
<1> QED
  BY <1>4 DEF T, Unfolds

(* One step of the closure, pair by pair.                                  *)
LEMMA ThroughReads ==
  ASSUME NEW Q \in SUBSET Pairs, NEW k \in Ids
  PROVE  /\ Through(Q, k) \in SUBSET Pairs
         /\ \A i, j \in Ids : <<i, j>> \in Through(Q, k) <=> <<i, j>> \in Q \/ (<<i, k>> \in Q /\ <<k, j>> \in Q)
BY DEF Through, Pairs

(* The recursion of Paths, as equations.                                   *)
LEMMA PathsRead ==
  ASSUME NEW R \in SUBSET Pairs
  PROVE  LET g == Paths(R)
             n == Len(Primitives)
         IN  /\ g \in [0..n -> SUBSET Pairs]
             /\ g[0] = R
             /\ \A k \in 1..n : g[k] = Through(g[k - 1], k)
<1> DEFINE n == Len(Primitives)
           S == SUBSET Pairs
           f == [p \in S \X (1..n) |-> Through(p[1], p[2])]
           g == Paths(R)
<1>1. n \in Nat /\ R \in S /\ 1..n = Ids
  BY PublicAssumption DEF Ids
<1>2. f \in [S \X (1..n) -> S]
  <2>1. ASSUME NEW p \in S \X (1..n)
        PROVE  Through(p[1], p[2]) \in S
    <3>1. p[1] \in S /\ p[2] \in Ids
      BY <1>1
    <3> QED
      BY <3>1, ThroughReads
  <2> HIDE DEF S
  <2> QED
    BY <2>1
<1>3. \A Q \in S, k \in 1..n : f[<<Q, k>>] = Through(Q, k)
  <2> HIDE DEF S
  <2> QED
    OBVIOUS
<1> HIDE DEF S, f, n
<1>4. PICK h : Unfolds(h, n, S, R, f)
  BY <1>1, <1>2, Recursion
<1>4a. h \in [0..n -> S] /\ h[0] = R /\ \A i \in 1..n : h[i] = f[<<h[i - 1], i>>]
  BY <1>4 DEF Unfolds
<1>5. \A i \in 1..n : h[i] = Through(h[i - 1], i)
  <2> TAKE i \in 1..n
  <2>1. i - 1 \in 0..n
    BY <1>1
  <2>2. h[i - 1] \in S
    BY <1>4a, <2>1
  <2> QED
    BY <1>3, <1>4a, <2>2
<1>6. h = [k \in 0..n |-> IF k = 0 THEN R ELSE Through(h[k - 1], k)]
  BY <1>1, <1>4a, <1>5
<1>7. g = CHOOSE p : p = [k \in 0..n |-> IF k = 0 THEN R ELSE Through(p[k - 1], k)]
  BY DEF Paths, n
<1>8. g = [k \in 0..n |-> IF k = 0 THEN R ELSE Through(g[k - 1], k)]
  <2> HIDE DEF g
  <2> QED
  BY <1>6, <1>7
<1> HIDE DEF g
<1>9. DOMAIN g = 0..n /\ g[0] = R /\ \A k \in 1..n : g[k] = Through(g[k - 1], k)
  BY <1>1, <1>8
<1>10. \A k \in 1..n : g[k - 1] \in S => g[k] \in S
  <2> TAKE k \in 1..n
  <2>1. ASSUME NEW Q \in S
        PROVE  Through(Q, k) \in S
    BY <1>1, <2>1, ThroughReads DEF S
  <2> QED
    BY <1>9, <2>1
<1>11. \A k \in 0..n : g[k] \in S
  BY <1>1, <1>9, <1>10, StaysIn
<1>12. g \in [0..n -> S]
  BY <1>8, <1>9, <1>11
<1> QED
  BY <1>9, <1>12 DEF n, S, g

-----------------------------------------------------------------------------
(* Closures.                                                               *)

(* A set of rows that no pair of R leaves.                                 *)
Closed(X, R) == \A a \in X, b \in Ids : <<a, b>> \in R => b \in X

(* What is connected is what every closed set keeps together.              *)
LEMMA ClosureReads ==
  ASSUME NEW R \in SUBSET Pairs, \A i \in Ids : <<i, i>> \in R, NEW i \in Ids, NEW j \in Ids
  PROVE  <<i, j>> \in Closure(R) <=> \A X \in SUBSET Ids : Closed(X, R) /\ i \in X => j \in X
<1> DEFINE n == Len(Primitives)
           g == Paths(R)
<1>1. n \in Nat /\ 1..n = Ids
  BY PublicAssumption DEF Ids
<1>2. g \in [0..n -> SUBSET Pairs] /\ g[0] = R
  BY PathsRead
<1>3. \A k \in 1..n : g[k] = Through(g[k - 1], k)
  BY PathsRead
<1>4. Closure(R) = g[n]
  BY DEF Closure
<1> HIDE DEF g, n
<1>5. \A k \in 1..n : /\ g[k - 1] \in SUBSET Pairs
                      /\ \A x, y \in Ids : <<x, y>> \in g[k] <=>
                           <<x, y>> \in g[k - 1] \/ (<<x, k>> \in g[k - 1] /\ <<k, y>> \in g[k - 1])
  <2> TAKE k \in 1..n
  <2>1. g[k - 1] \in SUBSET Pairs
    BY <1>1, <1>2
  <2>2. k \in Ids /\ g[k] = Through(g[k - 1], k)
    BY <1>1, <1>3
  <2> DEFINE Q == g[k - 1]
  <2>3. Q \in SUBSET Pairs
    BY <2>1
  <2> HIDE DEF Q
  <2>4. \A x, y \in Ids : <<x, y>> \in Through(Q, k) <=> <<x, y>> \in Q \/ (<<x, k>> \in Q /\ <<k, y>> \in Q)
    BY <2>2, <2>3, ThroughReads
  <2> QED
    BY <2>1, <2>2, <2>4 DEF Q
<1>6. ASSUME NEW X \in SUBSET Ids, Closed(X, R), i \in X, <<i, j>> \in g[n]
      PROVE  j \in X
  <2> DEFINE T == {k \in 0..n : \A x, y \in Ids : <<x, y>> \in g[k] /\ x \in X => y \in X}
  <2>1. T \in SUBSET (0..n) /\ 0 \in T
    BY <1>1, <1>2, <1>6 DEF Closed
  <2>2. ASSUME NEW k \in 1..n, k - 1 \in T
        PROVE  k \in T
    <3>1. \A x, y \in Ids : <<x, y>> \in g[k - 1] /\ x \in X => y \in X
      BY <2>2
    <3>2. k \in Ids
      BY <1>1
    <3>3. \A x, y \in Ids : <<x, y>> \in g[k] =>
            <<x, y>> \in g[k - 1] \/ (<<x, k>> \in g[k - 1] /\ <<k, y>> \in g[k - 1])
      BY <1>5
    <3>4. \A x, y \in Ids : <<x, y>> \in g[k] /\ x \in X => y \in X
      BY <3>1, <3>2, <3>3
    <3> QED
      BY <1>1, <3>4
  <2> HIDE DEF T
  <2>3. T = 0..n
    BY <1>1, <2>1, <2>2, UpTo
  <2>4. n \in T
    BY <1>1, <2>3
  <2> QED
    BY <1>6, <2>4 DEF T
<1>7. \A x, y \in Ids : <<x, y>> \in R => <<x, y>> \in g[n]
  <2> DEFINE T == {k \in 0..n : \A x, y \in Ids : <<x, y>> \in R => <<x, y>> \in g[k]}
  <2>1. T \in SUBSET (0..n) /\ 0 \in T
    BY <1>1, <1>2
  <2>2. ASSUME NEW k \in 1..n, k - 1 \in T
        PROVE  k \in T
    <3>1. \A x, y \in Ids : <<x, y>> \in R => <<x, y>> \in g[k - 1]
      BY <2>2
    <3>2. \A x, y \in Ids : <<x, y>> \in g[k - 1] => <<x, y>> \in g[k]
      BY <1>5
    <3> QED
      BY <1>1, <3>1, <3>2
  <2> HIDE DEF T
  <2>3. T = 0..n
    BY <1>1, <2>1, <2>2, UpTo
  <2>4. n \in T
    BY <1>1, <2>3
  <2> QED
    BY <2>4 DEF T
<1>8. \A x, y, m \in Ids : <<x, m>> \in g[n] /\ <<m, y>> \in g[n] => <<x, y>> \in g[n]
  <2> DEFINE Short(h, k) == \A x, y \in Ids, m \in 1..k : <<x, m>> \in h /\ <<m, y>> \in h => <<x, y>> \in h
             T == {k \in 0..n : Short(g[k], k)}
  <2>1. T \in SUBSET (0..n) /\ 0 \in T
    BY <1>1
  <2>2. ASSUME NEW k \in 1..n, k - 1 \in T
        PROVE  k \in T
    <3>1. ASSUME NEW x \in Ids, NEW y \in Ids, NEW m \in 1..k, <<x, m>> \in g[k], <<m, y>> \in g[k]
          PROVE  <<x, y>> \in g[k]
      <4>0. m \in Ids /\ k \in Ids
        BY <1>1
      <4>1. \A u, v \in Ids : <<u, v>> \in g[k] <=>
              <<u, v>> \in g[k - 1] \/ (<<u, k>> \in g[k - 1] /\ <<k, v>> \in g[k - 1])
        BY <1>5
      <4>2. CASE m = k
        <5>1. <<x, k>> \in g[k - 1] /\ <<k, y>> \in g[k - 1]
          BY <3>1, <4>0, <4>1, <4>2
        <5> QED
          BY <4>1, <5>1
      <4>3. CASE m # k
        <5>1. m \in 1..(k - 1)
          BY <1>1, <4>3
        <5>2. \A u, v \in Ids : <<u, m>> \in g[k - 1] /\ <<m, v>> \in g[k - 1] => <<u, v>> \in g[k - 1]
          BY <2>2, <5>1
        <5> QED
          BY <3>1, <4>0, <4>1, <5>2
      <4> QED
        BY <4>2, <4>3
    <3> QED
      BY <1>1, <3>1
  <2> HIDE DEF T
  <2>3. T = 0..n
    BY <1>1, <2>1, <2>2, UpTo
  <2>4. n \in T
    BY <1>1, <2>3
  <2> QED
    BY <1>1, <2>4 DEF T
<1>9. ASSUME \A X \in SUBSET Ids : Closed(X, R) /\ i \in X => j \in X
      PROVE  <<i, j>> \in g[n]
  <2> DEFINE X == {y \in Ids : <<i, y>> \in g[n]}
  <2>1. Closed(X, R)
    BY <1>7, <1>8 DEF Closed
  <2>2. i \in X
    BY <1>7
  <2>3. X \in SUBSET Ids
    OBVIOUS
  <2> HIDE DEF X
  <2>4. j \in X
    BY <1>9, <2>1, <2>2, <2>3
  <2> QED
    BY <2>4 DEF X
<1> QED
  BY <1>4, <1>6, <1>9

-----------------------------------------------------------------------------
(* Union-find.                                                             *)

Meets(root, x, J) == \E y \in J : root[x] = root[y]

(* A step makes one class of those it joins, and leaves the others alone.  *)
Joins(new, root, N, J, y) ==
  /\ new \in [N -> N]
  /\ \A x \in N : new[x] = IF Meets(root, x, J) THEN root[y] ELSE root[x]
  /\ \A x \in J : Meets(root, x, J)
  /\ \A x, z \in N : new[x] = new[z] <=>
       root[x] = root[z] \/ (Meets(root, x, J) /\ Meets(root, z, J))

(* Joined joins.                                                           *)
LEMMA JoinReads ==
  ASSUME NEW N, NEW root, root \in [N -> N], NEW J, \A x \in J : x \in N, NEW y, y \in J
  PROVE  Joins(Joined(root, J, root[y]), root, N, J, y)
<1> DEFINE new == Joined(root, J, root[y])
<1>1. new \in [N -> N]
  BY DEF Joined
<1>2. \A x \in N : new[x] = IF Meets(root, x, J) THEN root[y] ELSE root[x]
  BY DEF Joined, Meets
<1> HIDE DEF new
<1>3. \A x \in J : Meets(root, x, J)
  BY DEF Meets
<1>4. \A x, z \in N : root[x] = root[z] => (Meets(root, x, J) <=> Meets(root, z, J))
  BY DEF Meets
<1>5. \A x \in N : root[x] = root[y] => Meets(root, x, J)
  BY DEF Meets
<1>6. \A x, z \in N : new[x] = new[z] <=>
        root[x] = root[z] \/ (Meets(root, x, J) /\ Meets(root, z, J))
  BY <1>2, <1>4, <1>5
<1> QED
  BY <1>1, <1>2, <1>3, <1>6 DEF new, Joins

-----------------------------------------------------------------------------
(* Components.                                                             *)

(* An example has a name for its source and one for its cluster.           *)
LEMMA NamesRead ==
  ASSUME NEW E, NEW e \in E
  PROVE  SourceName(e) \in NamesOf(E) /\ ClusterName(e) \in NamesOf(E)
BY DEF NamesOf

(* Names are told apart by what they name.                                 *)
LEMMA NamesDiffer ==
  ASSUME NEW d, NEW e
  PROVE  /\ SourceName(d) # ClusterName(e)
         /\ SourceName(d) = SourceName(e) <=> d.source = e.source
         /\ ClusterName(d) = ClusterName(e) <=> d.cluster = e.cluster
BY DEF SourceName, ClusterName

(* The recursion of SourceRoots, as equations.                             *)
LEMMA SourceRootsRead ==
  ASSUME NEW S, NEW s \in Seq(S)
  PROVE  LET g == SourceRoots(s)
             n == Len(s)
             N == NamesOf(Range(s))
         IN  /\ g \in [0..n -> [N -> N]]
             /\ g[0] = [x \in N |-> x]
             /\ \A k \in 1..n : g[k] = JoinedBy(g[k - 1], s[k])
<1> DEFINE n == Len(s)
           N == NamesOf(Range(s))
           St == [N -> N]
           base == [x \in N |-> x]
           f == [p \in St \X (1..n) |-> JoinedBy(p[1], s[p[2]])]
           g == SourceRoots(s)
<1>1. n \in Nat /\ base \in St /\ \A k \in 1..n : s[k] \in Range(s)
  BY DEF Range
<1>2. ASSUME NEW root \in St, NEW k \in 1..n
      PROVE  JoinedBy(root, s[k]) \in St
  <2> DEFINE J == {SourceName(s[k]), ClusterName(s[k])}
             y == ClusterName(s[k])
             new == JoinedBy(root, s[k])
  <2>1. (\A x \in J : x \in N) /\ y \in J
    BY <1>1, NamesRead
  <2>2. new = Joined(root, J, root[y])
    BY DEF JoinedBy
  <2> HIDE DEF N, J, y, new
  <2>3. Joins(new, root, N, J, y)
    BY <2>1, <2>2, JoinReads
  <2>4. new \in [N -> N]
    BY <2>3 DEF Joins
  <2> QED
    BY <2>4 DEF new
<1> HIDE DEF St
<1>3. f \in [St \X (1..n) -> St]
  BY <1>2
<1>4. \A root \in St, k \in 1..n : f[<<root, k>>] = JoinedBy(root, s[k])
  OBVIOUS
<1> HIDE DEF f, n, base
<1>5. PICK h : Unfolds(h, n, St, base, f)
  BY <1>1, <1>3, Recursion
<1>6. h \in [0..n -> St] /\ h[0] = base /\ \A i \in 1..n : h[i] = f[<<h[i - 1], i>>]
  BY <1>5 DEF Unfolds
<1>7. \A i \in 1..n : h[i] = JoinedBy(h[i - 1], s[i])
  <2> TAKE i \in 1..n
  <2>1. i - 1 \in 0..n
    BY <1>1
  <2>2. h[i - 1] \in St
    BY <1>6, <2>1
  <2> QED
    BY <1>4, <1>6, <2>2
<1>8. h = [k \in 0..n |-> IF k = 0 THEN base ELSE JoinedBy(h[k - 1], s[k])]
  BY <1>1, <1>6, <1>7
<1>9. g = CHOOSE p : p = [k \in 0..n |-> IF k = 0 THEN base ELSE JoinedBy(p[k - 1], s[k])]
  BY DEF SourceRoots, n, base
<1>10. g = [k \in 0..n |-> IF k = 0 THEN base ELSE JoinedBy(g[k - 1], s[k])]
  <2> HIDE DEF g
  <2> QED
    BY <1>8, <1>9
<1> HIDE DEF g
<1>11. DOMAIN g = 0..n /\ g[0] = base /\ \A k \in 1..n : g[k] = JoinedBy(g[k - 1], s[k])
  BY <1>1, <1>10
<1>12. \A k \in 1..n : g[k - 1] \in St => g[k] \in St
  BY <1>2, <1>11
<1>13. \A k \in 0..n : g[k] \in St
  BY <1>1, <1>11, <1>12, StaysIn
<1>14. g \in [0..n -> St]
  BY <1>10, <1>11, <1>13
<1> QED
  BY <1>11, <1>14 DEF n, N, St, g, base

(* A set of examples that shares no source and no cluster with others.     *)
Whole(X, E) == \A a \in X, b \in E : a.source = b.source \/ a.cluster = b.cluster => b \in X

(* No such set separates the two.                                          *)
Linked(E, d, e) == \A X \in SUBSET E : Whole(X, E) => (d \in X <=> e \in X)

LinkedTo(E, e) == {d \in E : Linked(E, d, e)}

(* Two examples have the same root just when no set of whole components    *)
(* has only one of them.                                                   *)
LEMMA RootsLink ==
  ASSUME NEW S, NEW s \in Seq(S), NEW d \in Range(s), NEW e \in Range(s)
  PROVE  LET root == SourceRoots(s)[Len(s)]
         IN  root[SourceName(d)] = root[SourceName(e)] <=> Linked(Range(s), d, e)
<1> DEFINE E == Range(s)
           n == Len(s)
           N == NamesOf(E)
           g == SourceRoots(s)
<1>1. g \in [0..n -> [N -> N]] /\ g[0] = [x \in N |-> x] /\ \A k \in 1..n : g[k] = JoinedBy(g[k - 1], s[k])
  BY SourceRootsRead
<1>2. n \in Nat /\ (\A k \in 1..n : s[k] \in E) /\ \A x \in E : \E k \in 1..n : s[k] = x
  BY DEF Range
<1>3. \A x \in E : SourceName(x) \in N /\ ClusterName(x) \in N
  BY NamesRead
<1> HIDE DEF E, n, N, g
<1>4. ASSUME NEW k \in 1..n
      PROVE  /\ g[k - 1] \in [N -> N]
             /\ SourceName(s[k]) \in N /\ ClusterName(s[k]) \in N
             /\ LET J == {SourceName(s[k]), ClusterName(s[k])}
                IN  \A x, z \in N : g[k][x] = g[k][z] <=>
                      g[k - 1][x] = g[k - 1][z] \/ (Meets(g[k - 1], x, J) /\ Meets(g[k - 1], z, J))
  <2> DEFINE root == g[k - 1]
             J == {SourceName(s[k]), ClusterName(s[k])}
             y == ClusterName(s[k])
  <2>1. root \in [N -> N]
    BY <1>1, <1>2
  <2>2. (\A x \in J : x \in N) /\ y \in J /\ SourceName(s[k]) \in N /\ y \in N
    BY <1>2, <1>3
  <2>3. g[k] = Joined(root, J, root[y])
    BY <1>1 DEF JoinedBy
  <2> DEFINE new == g[k]
  <2> HIDE DEF root, J, y, new
  <2>3a. new = Joined(root, J, root[y])
    BY <2>3 DEF new
  <2>3b. Joins(new, root, N, J, y)
    BY <2>1, <2>2, <2>3a, JoinReads
  <2>4. \A x, z \in N : new[x] = new[z] <=> root[x] = root[z] \/ (Meets(root, x, J) /\ Meets(root, z, J))
    BY <2>3b DEF Joins
  <2> QED
    BY <2>1, <2>2, <2>4 DEF root, J, y, new
(* What is joined stays joined.                                            *)
<1>5. \A x \in E : g[n][SourceName(x)] = g[n][ClusterName(x)]
  <2> DEFINE T == {k \in 0..n : \A i \in 1..k : g[k][SourceName(s[i])] = g[k][ClusterName(s[i])]}
  <2>1. T \in SUBSET (0..n) /\ 0 \in T
    BY <1>2
  <2>2. ASSUME NEW k \in 1..n, k - 1 \in T
        PROVE  k \in T
    <3> DEFINE J == {SourceName(s[k]), ClusterName(s[k])}
    <3>1. \A x, z \in N : g[k][x] = g[k][z] <=>
            g[k - 1][x] = g[k - 1][z] \/ (Meets(g[k - 1], x, J) /\ Meets(g[k - 1], z, J))
      BY <1>4
    <3>2. Meets(g[k - 1], SourceName(s[k]), J) /\ Meets(g[k - 1], ClusterName(s[k]), J)
      BY DEF Meets
    <3> HIDE DEF J
    <3>3. \A i \in 1..(k - 1) : g[k - 1][SourceName(s[i])] = g[k - 1][ClusterName(s[i])]
      BY <2>2
    <3>4. \A i \in 1..k : SourceName(s[i]) \in N /\ ClusterName(s[i]) \in N
      BY <1>2, <1>3
    <3>5. ASSUME NEW i \in 1..k
          PROVE  g[k][SourceName(s[i])] = g[k][ClusterName(s[i])]
      <4>1. CASE i = k
        BY <3>1, <3>2, <3>4, <4>1
      <4>2. CASE i # k
        <5>1. i \in 1..(k - 1)
          BY <4>2
        <5> QED
          BY <3>1, <3>3, <3>4, <5>1
      <4> QED
        BY <4>1, <4>2
    <3> QED
      BY <1>2, <3>5
  <2> HIDE DEF T
  <2>3. T = 0..n
    BY <1>2, <2>1, <2>2, UpTo
  <2>4. n \in T
    BY <1>2, <2>3
  <2> QED
    BY <1>2, <2>4 DEF T
(* Nothing else is.                                                        *)
<1>6. ASSUME NEW Y \in SUBSET N, \A x \in E : SourceName(x) \in Y <=> ClusterName(x) \in Y,
             NEW u \in N, NEW v \in N, g[n][u] = g[n][v], u \in Y
      PROVE  v \in Y
  <2> DEFINE T == {k \in 0..n : \A x, z \in N : g[k][x] = g[k][z] /\ x \in Y => z \in Y}
  <2>1. T \in SUBSET (0..n) /\ 0 \in T
    BY <1>1, <1>2
  <2>2. ASSUME NEW k \in 1..n, k - 1 \in T
        PROVE  k \in T
    <3> DEFINE J == {SourceName(s[k]), ClusterName(s[k])}
    <3>1. \A x, z \in N : g[k][x] = g[k][z] <=>
            g[k - 1][x] = g[k - 1][z] \/ (Meets(g[k - 1], x, J) /\ Meets(g[k - 1], z, J))
      BY <1>4
    <3>2. \A x, z \in N : g[k - 1][x] = g[k - 1][z] /\ x \in Y => z \in Y
      BY <2>2
    <3>3. J \in SUBSET N /\ \A x, z \in J : x \in Y => z \in Y
      BY <1>2, <1>3, <1>6
    <3> HIDE DEF J
    <3>4. ASSUME NEW x \in N, NEW z \in N, g[k][x] = g[k][z], x \in Y
          PROVE  z \in Y
      <4>1. CASE g[k - 1][x] = g[k - 1][z]
        BY <3>2, <3>4, <4>1
      <4>2. CASE Meets(g[k - 1], x, J) /\ Meets(g[k - 1], z, J)
        <5>1. PICK a \in J, b \in J : g[k - 1][x] = g[k - 1][a] /\ g[k - 1][z] = g[k - 1][b]
          BY <4>2 DEF Meets
        <5>2. a \in N /\ b \in N
          BY <3>3
        <5>3. a \in Y
          BY <3>2, <3>4, <5>1, <5>2
        <5>4. b \in Y
          BY <3>3, <5>3
        <5> QED
          BY <3>2, <5>1, <5>2, <5>4
      <4> QED
        BY <3>1, <3>4, <4>1, <4>2
    <3> QED
      BY <3>4
  <2> HIDE DEF T
  <2>3. T = 0..n
    BY <1>2, <2>1, <2>2, UpTo
  <2>4. n \in T
    BY <1>2, <2>3
  <2> QED
    BY <1>6, <2>4 DEF T
<1>7. d \in E /\ e \in E
  BY DEF E
<1>8. ASSUME g[n][SourceName(d)] = g[n][SourceName(e)], NEW X \in SUBSET E, Whole(X, E)
      PROVE  d \in X <=> e \in X
  <2> DEFINE Y == {y \in N : \E x \in X : y = SourceName(x) \/ y = ClusterName(x)}
  <2>1. \A x \in E : /\ SourceName(x) \in Y <=> x \in X
                     /\ ClusterName(x) \in Y <=> x \in X
    BY <1>3, <1>8, NamesDiffer DEF Whole
  <2>2. Y \in SUBSET N
    OBVIOUS
  <2> HIDE DEF Y
  <2>3. SourceName(d) \in N /\ SourceName(e) \in N /\ \A x \in E : SourceName(x) \in Y <=> ClusterName(x) \in Y
    BY <1>3, <1>7, <2>1
  <2>4. SourceName(d) \in Y <=> SourceName(e) \in Y
    BY <1>6, <1>8, <2>2, <2>3
  <2> QED
    BY <1>7, <2>1, <2>4
<1>9. ASSUME Linked(E, d, e)
      PROVE  g[n][SourceName(d)] = g[n][SourceName(e)]
  <2> DEFINE X == {x \in E : g[n][SourceName(x)] = g[n][SourceName(d)]}
  <2>1. Whole(X, E)
    <3> SUFFICES ASSUME NEW a \in X, NEW b \in E, a.source = b.source \/ a.cluster = b.cluster
                 PROVE  b \in X
      BY DEF Whole
    <3>1. a \in E /\ g[n][SourceName(a)] = g[n][SourceName(d)]
      OBVIOUS
    <3>2. SourceName(a) = SourceName(b) \/ ClusterName(a) = ClusterName(b)
      BY NamesDiffer
    <3>3. g[n][SourceName(b)] = g[n][SourceName(a)]
      BY <1>5, <3>1, <3>2
    <3> QED
      BY <3>1, <3>3
  <2>2. d \in X /\ X \in SUBSET E
    BY <1>7
  <2> HIDE DEF X
  <2>3. e \in X
    BY <1>9, <2>1, <2>2 DEF Linked
  <2> QED
    BY <2>3 DEF X
<1>10. g[n][SourceName(d)] = g[n][SourceName(e)] <=> Linked(E, d, e)
  BY <1>8, <1>9 DEF Linked
<1> QED
  BY <1>10 DEF E, n, g

(* The components are the classes of linked examples.                      *)
LEMMA ComponentsAreLinked ==
  ASSUME NEW S, NEW s \in Seq(S)
  PROVE  SourceComponents(s) = {LinkedTo(Range(s), e) : e \in Range(s)}
<1> DEFINE E == Range(s)
           N == NamesOf(E)
           root == SourceRoots(s)[Len(s)]
           Of(r) == {d \in E : root[SourceName(d)] = r}
<1>1. root \in [N -> N]
  <2>1. Len(s) \in 0..Len(s)
    OBVIOUS
  <2> QED
    BY <2>1, SourceRootsRead
<1>2. \A d, e \in E : root[SourceName(d)] = root[SourceName(e)] <=> Linked(E, d, e)
  BY RootsLink
<1>3. SourceComponents(s) = {Of(r) : r \in Range(root)} \ {{}}
  BY DEF SourceComponents
<1>4. \A x \in E : SourceName(x) \in N
  BY NamesRead
<1>5. Range(root) = {root[x] : x \in N}
  BY <1>1 DEF Range
<1> HIDE DEF E, N, root
<1>6. \A e \in E : Of(root[SourceName(e)]) = LinkedTo(E, e)
  BY <1>2 DEF LinkedTo
<1>7. \A e \in E : e \in LinkedTo(E, e)
  BY DEF LinkedTo, Linked
<1>8. ASSUME NEW C \in SourceComponents(s)
      PROVE  \E e \in E : C = LinkedTo(E, e)
  <2>1. PICK r \in Range(root) : C = Of(r) /\ C # {}
    BY <1>3
  <2>2. PICK e \in E : root[SourceName(e)] = r
    BY <2>1
  <2> QED
    BY <1>6, <2>1, <2>2
<1>9. ASSUME NEW e \in E
      PROVE  LinkedTo(E, e) \in SourceComponents(s)
  <2>1. root[SourceName(e)] \in Range(root)
    BY <1>4, <1>5
  <2>2. LinkedTo(E, e) = Of(root[SourceName(e)]) /\ LinkedTo(E, e) # {}
    BY <1>6, <1>7
  <2> QED
    BY <1>3, <2>1, <2>2
<1>10. SourceComponents(s) = {LinkedTo(E, e) : e \in E}
  BY <1>8, <1>9
<1> QED
  BY <1>10 DEF E

-----------------------------------------------------------------------------
(* Clusters.                                                               *)

States == [root : [Ids -> Ids], kept : SUBSET Ids]

Alike(rows, i, j) == rows[i].text = rows[j].text \/ Similar(Grams[rows[i].text], Grams[rows[j].text])

(* Being alike is symmetric, and rows that are alike without being twins   *)
(* are found by the index.                                                 *)
LEMMA AlikeReads ==
  ASSUME NEW rows \in [Ids -> Rows], NEW i \in Ids, NEW j \in Ids
  PROVE  /\ Alike(rows, i, i) /\ (Alike(rows, i, j) <=> Alike(rows, j, i))
         /\ rows[i].text # rows[j].text /\ Alike(rows, i, j) =>
              /\ Prefix(Grams[rows[i].text]) \cap Prefix(Grams[rows[j].text]) # {}
              /\ Similar(Grams[rows[i].text], Grams[rows[j].text])
<1>1. \A g, h : Similar(g, h) => Similar(h, g)
  <2> SUFFICES ASSUME NEW g, NEW h, Similar(g, h)
               PROVE  Similar(h, g)
    OBVIOUS
  <2>1. g \cap h = h \cap g /\ g \cup h = h \cup g
    OBVIOUS
  <2> QED
    BY <2>1, Zenon DEF Similar
<1>2. rows[i].text \in Texts /\ rows[j].text \in Texts
  BY DEF Rows
<1>3. \A t \in Texts : Grams[t] \in SUBSET Nat /\ IsFiniteSet(Grams[t])
  BY PublicAssumption
<1>4. \A t, u \in Texts : Similar(Grams[t], Grams[u]) => Prefix(Grams[t]) \cap Prefix(Grams[u]) # {}
  <2> SUFFICES ASSUME NEW t \in Texts, NEW u \in Texts, Similar(Grams[t], Grams[u])
               PROVE  Prefix(Grams[t]) \cap Prefix(Grams[u]) # {}
    OBVIOUS
  <2> DEFINE g == Grams[t]
             h == Grams[u]
  <2>1. g \in SUBSET Nat /\ IsFiniteSet(g) /\ h \in SUBSET Nat /\ IsFiniteSet(h) /\ Similar(g, h)
    BY <1>3
  <2> HIDE DEF g, h
  <2>2. Prefix(g) \cap Prefix(h) # {}
    BY <2>1, PrefixFilterIsComplete
  <2> QED
    BY <2>2 DEF g, h
<1> QED
  BY <1>1, <1>2, <1>4 DEF Alike

(* Every class is named after its least row.                               *)
Lowest(root) == \A x \in Ids : root[x] <= x /\ root[root[x]] = root[x]

(* What one row does to the clusters.                                      *)
RowJoins(rows, st, i, new, J, y) ==
  /\ y \in J /\ i \in J /\ J \subseteq {i} \cup st.kept
  /\ new.root = Joined(st.root, J, st.root[y])
  /\ \A j \in J : st.root[y] <= st.root[j]
  /\ \A j \in J : Alike(rows, i, j)
  /\ \/ /\ new.kept = st.kept \cup {i}
        /\ \A j \in st.kept : Alike(rows, i, j) => j \in J
     \/ /\ new.kept = st.kept
        /\ \E t \in st.kept \cap J : rows[t].text = rows[i].text
        /\ \A j \in st.kept : rows[j].text = rows[i].text => j \in J

(* One iteration of cluster_duplicates joins the row at hand with rows it  *)
(* is alike, and either with all kept rows it is alike or with its twins.  *)
LEMMA ClusterRowReads ==
  ASSUME NEW rows \in [Ids -> Rows], NEW st \in States, NEW i \in Ids
  PROVE  /\ ClusterRow(rows, st, i) \in States
         /\ \E J \in SUBSET Ids, y \in Ids : RowJoins(rows, st, i, ClusterRow(rows, st, i), J, y)
<1> DEFINE text(j) == rows[j].text
           twins == {j \in st.kept : text(j) = text(i)}
           near  == {j \in st.kept : /\ Prefix(Grams[text(i)]) \cap Prefix(Grams[text(j)]) # {}
                                     /\ Similar(Grams[text(i)], Grams[text(j)])}
           same  == IF twins # {} THEN twins ELSE near
           J     == {i} \cup same
           R     == {st.root[j] : j \in J}
           new   == ClusterRow(rows, st, i)
<1>1. new = [root |-> Joined(st.root, J, Min(R)), kept |-> IF twins # {} THEN st.kept ELSE st.kept \cup {i}]
  BY DEF ClusterRow
<1>2. st.root \in [Ids -> Ids] /\ st.kept \in SUBSET Ids
  BY DEF States
<1>3. J \in SUBSET Ids /\ i \in J /\ J \subseteq {i} \cup st.kept
  BY <1>2
<1>4. \A j \in J : Alike(rows, i, j)
  <2>1. \A j \in same : text(i) = text(j) \/ Similar(Grams[text(i)], Grams[text(j)])
    OBVIOUS
  <2> QED
    BY <2>1 DEF Alike
<1>5. twins = {} => \A j \in st.kept : Alike(rows, i, j) => j \in J
  <2> SUFFICES ASSUME twins = {}, NEW j \in st.kept, Alike(rows, i, j)
               PROVE  j \in near
    OBVIOUS
  <2>1. text(j) # text(i) /\ j \in Ids
    BY <1>2
  <2> QED
    BY <2>1, AlikeReads
<1>6. twins # {} => /\ \E t \in st.kept \cap J : rows[t].text = rows[i].text
                    /\ \A j \in st.kept : rows[j].text = rows[i].text => j \in J
  OBVIOUS
<1>7. new.kept = IF twins # {} THEN st.kept ELSE st.kept \cup {i}
  BY <1>1
<1>8. new.root = Joined(st.root, J, Min(R))
  BY <1>1
<1> DEFINE two == twins # {}
<1> HIDE DEF J, new, two
<1>9. R \in SUBSET Nat /\ R # {}
  BY <1>2, <1>3 DEF Ids
<1>10. PICK m \in R : \A x \in R : m <= x
  BY <1>9, LeastNatural
<1>11. Min(R) \in R /\ \A x \in R : Min(R) <= x
  BY <1>10 DEF Min
<1>12. PICK y \in J : Min(R) = st.root[y]
  BY <1>11
<1>13. \A j \in J : st.root[y] <= st.root[j]
  BY <1>11, <1>12
<1>14. new \in States
  <2> DEFINE root == st.root
             joined == Joined(root, J, root[y])
  <2>1. Joins(joined, root, Ids, J, y)
    <3> HIDE DEF root
    <3>1. root \in [Ids -> Ids] /\ y \in J /\ \A x \in J : x \in Ids
      BY <1>2, <1>3, <1>12 DEF root
    <3> QED
      BY <3>1, JoinReads
  <2>2. new.root \in [Ids -> Ids]
    BY <1>8, <1>12, <2>1 DEF Joins
  <2>3. new.kept \in SUBSET Ids
    BY <1>2, <1>7
  <2>4. new = [root |-> new.root, kept |-> new.kept]
    BY <1>1 DEF new
  <2> QED
    BY <2>2, <2>3, <2>4 DEF States
<1>15. RowJoins(rows, st, i, new, J, y)
  <2>1. \/ /\ new.kept = st.kept \cup {i}
           /\ \A j \in st.kept : Alike(rows, i, j) => j \in J
        \/ /\ new.kept = st.kept
           /\ \E t \in st.kept \cap J : rows[t].text = rows[i].text
           /\ \A j \in st.kept : rows[j].text = rows[i].text => j \in J
    BY <1>5, <1>6, <1>7 DEF two
  <2> QED
    BY <1>3, <1>4, <1>8, <1>12, <1>13, <2>1 DEF RowJoins
<1> QED
  BY <1>3, <1>12, <1>14, <1>15 DEF new

(* The recursion of Clustering, as equations.                              *)
LEMMA ClusteringRead ==
  ASSUME NEW rows \in [Ids -> Rows]
  PROVE  LET g == Clustering(rows)
             n == Len(Primitives)
         IN  /\ \A k \in 0..n : g[k] \in States
             /\ g[0] = [root |-> [j \in Ids |-> j], kept |-> {}]
             /\ \A k \in 1..n : g[k] = ClusterRow(rows, g[k - 1], k)
<1> DEFINE n == Len(Primitives)
           St == States
           base == [root |-> [j \in Ids |-> j], kept |-> {}]
           f == [p \in St \X (1..n) |-> ClusterRow(rows, p[1], p[2])]
           g == Clustering(rows)
<1>1. n \in Nat /\ base \in St /\ \A k \in 1..n : k \in Ids
  BY PublicAssumption DEF Ids, States
<1>2. ASSUME NEW st \in St, NEW k \in 1..n
      PROVE  ClusterRow(rows, st, k) \in St
  BY <1>1, ClusterRowReads
<1> HIDE DEF St
<1>3. f \in [St \X (1..n) -> St]
  BY <1>2
<1>4. \A st \in St, k \in 1..n : f[<<st, k>>] = ClusterRow(rows, st, k)
  OBVIOUS
<1> HIDE DEF f, n, base
<1>5. PICK h : Unfolds(h, n, St, base, f)
  BY <1>1, <1>3, Recursion
<1>6. h \in [0..n -> St] /\ h[0] = base /\ \A i \in 1..n : h[i] = f[<<h[i - 1], i>>]
  BY <1>5 DEF Unfolds
<1>7. \A i \in 1..n : h[i] = ClusterRow(rows, h[i - 1], i)
  <2> TAKE i \in 1..n
  <2>1. i - 1 \in 0..n
    BY <1>1
  <2>2. h[i - 1] \in St
    BY <1>6, <2>1
  <2> QED
    BY <1>4, <1>6, <2>2
<1>8. h = [k \in 0..n |-> IF k = 0 THEN base ELSE ClusterRow(rows, h[k - 1], k)]
  BY <1>1, <1>6, <1>7
<1>9. g = CHOOSE p : p = [k \in 0..n |-> IF k = 0 THEN base ELSE ClusterRow(rows, p[k - 1], k)]
  BY DEF Clustering, n, base
<1>10. g = [k \in 0..n |-> IF k = 0 THEN base ELSE ClusterRow(rows, g[k - 1], k)]
  <2> HIDE DEF g
  <2> QED
    BY <1>8, <1>9
<1> HIDE DEF g
<1>11. g[0] = base /\ \A k \in 1..n : g[k] = ClusterRow(rows, g[k - 1], k)
  BY <1>1, <1>10
<1>12. \A k \in 1..n : g[k - 1] \in St => g[k] \in St
  BY <1>2, <1>11
<1>13. \A k \in 0..n : g[k] \in St
  BY <1>1, <1>11, <1>12, StaysIn
<1> QED
  BY <1>11, <1>13 DEF n, St, g, base

(* A set of rows no other row is alike a member of.                        *)
ClosedAlike(rows, X) == \A a \in X, b \in Ids : Alike(rows, a, b) => b \in X

(* What is known of the clusters of the first k rows.                      *)
ClusterInv(rows, st, k) ==
  /\ st \in States /\ Lowest(st.root) /\ \A j \in st.kept : j <= k
  /\ \A j \in Ids : j <= k => \E t \in st.kept : rows[t].text = rows[j].text /\ st.root[t] = st.root[j]
  /\ \A i, j \in Ids : i <= k /\ j <= k /\ Alike(rows, i, j) => st.root[i] = st.root[j]
  /\ \A X \in SUBSET Ids : ClosedAlike(rows, X) =>
       \A i, j \in Ids : st.root[i] = st.root[j] /\ i \in X => j \in X

(* A join under the least root keeps classes named after their least row.  *)
LEMMA LowestStays ==
  ASSUME NEW root \in [Ids -> Ids], Lowest(root), NEW J \in SUBSET Ids, NEW y \in J,
         \A j \in J : root[y] <= root[j], NEW new, Joins(new, root, Ids, J, y)
  PROVE  Lowest(new)
<1>0. \A x \in Ids : x \in Nat /\ root[x] \in Ids
  BY DEF Ids
<1> SUFFICES ASSUME NEW x \in Ids
             PROVE  new[x] <= x /\ new[new[x]] = new[x]
  BY DEF Lowest
<1>1. /\ new[x] = IF Meets(root, x, J) THEN root[y] ELSE root[x]
      /\ new[root[x]] = IF Meets(root, root[x], J) THEN root[y] ELSE root[root[x]]
      /\ new[root[y]] = IF Meets(root, root[y], J) THEN root[y] ELSE root[root[y]]
  BY <1>0 DEF Joins
<1>2. root[root[x]] = root[x] /\ root[root[y]] = root[y] /\ root[x] <= x
  BY DEF Lowest
<1>3. Meets(root, root[x], J) <=> Meets(root, x, J)
  BY <1>2 DEF Meets
<1>4. Meets(root, root[y], J)
  BY <1>2 DEF Meets
<1>5. Meets(root, x, J) => root[y] <= x
  <2> SUFFICES ASSUME Meets(root, x, J)
               PROVE  root[y] <= x
    OBVIOUS
  <2>1. PICK j \in J : root[x] = root[j]
    BY DEF Meets
  <2>2. root[y] <= root[x]
    BY <2>1
  <2> QED
    BY <1>0, <1>2, <2>2
<1> QED
  BY <1>1, <1>2, <1>3, <1>4, <1>5

(* A row that is dropped as a twin leaves a kept one of the same text to   *)
(* speak for it, so that rows to come are compared with all texts so far.  *)
LEMMA ClusterStep ==
  ASSUME NEW rows \in [Ids -> Rows], NEW st, NEW k \in Ids, ClusterInv(rows, st, k - 1)
  PROVE  ClusterInv(rows, ClusterRow(rows, st, k), k)
<1> DEFINE new == ClusterRow(rows, st, k)
<1>0. k \in Nat /\ \A j \in Ids : j \in Nat
  BY DEF Ids
<1>1. st \in States /\ st.root \in [Ids -> Ids] /\ st.kept \in SUBSET Ids /\ Lowest(st.root)
  BY DEF ClusterInv, States
<1>2. new \in States /\ \E J \in SUBSET Ids, y \in Ids : RowJoins(rows, st, k, new, J, y)
  BY <1>1, ClusterRowReads
<1> HIDE DEF new
<1>3. PICK J \in SUBSET Ids, y \in Ids : RowJoins(rows, st, k, new, J, y)
  BY <1>2
<1> DEFINE root == st.root
           after == new.root
<1>4. y \in J /\ k \in J /\ after = Joined(root, J, root[y]) /\ \A j \in J : root[y] <= root[j]
  BY <1>3 DEF RowJoins
<1>5. root \in [Ids -> Ids] /\ Lowest(root)
  BY <1>1
<1> HIDE DEF root, after
<1>6. Joins(after, root, Ids, J, y)
  BY <1>4, <1>5, JoinReads
<1>7. \A x, z \in Ids : after[x] = after[z] <=> root[x] = root[z] \/ (Meets(root, x, J) /\ Meets(root, z, J))
  BY <1>6 DEF Joins
<1>8. \A j \in J : j \in Ids /\ Meets(root, j, J)
  BY <1>6 DEF Joins
<1>9. Lowest(after)
  BY <1>4, <1>5, <1>6, LowestStays
<1>10. \A j \in new.kept : j <= k
  <2>1. \A j \in st.kept : j <= k - 1 /\ j \in Nat
    BY <1>0, <1>1 DEF ClusterInv
  <2>2. \A j \in new.kept : j \in st.kept \/ j = k
    BY <1>3 DEF RowJoins
  <2> QED
    BY <1>0, <2>1, <2>2
<1>11. st.kept \subseteq new.kept
  BY <1>3 DEF RowJoins
<1>12. \A x, z \in Ids : root[x] = root[z] => after[x] = after[z]
  BY <1>7
<1>13. \A x, z \in J : after[x] = after[z]
  BY <1>7, <1>8
<1>14. ASSUME NEW j \in Ids, j <= k
       PROVE  \E t \in new.kept : rows[t].text = rows[j].text /\ after[t] = after[j]
  <2>1. CASE j = k
    <3>1. CASE new.kept = st.kept \cup {k}
      BY <2>1, <3>1
    <3>2. CASE \E t \in st.kept \cap J : rows[t].text = rows[k].text
      BY <1>4, <1>11, <1>13, <2>1, <3>2
    <3> QED
      BY <1>3, <3>1, <3>2 DEF RowJoins
  <2>2. CASE j # k
    <3>1. j <= k - 1
      BY <1>0, <1>14, <2>2
    <3>2. PICK t \in st.kept : rows[t].text = rows[j].text /\ root[t] = root[j]
      BY <3>1 DEF ClusterInv, root
    <3>3. t \in Ids /\ t \in new.kept
      BY <1>1, <1>11
    <3> QED
      BY <1>12, <3>2, <3>3
  <2> QED
    BY <2>1, <2>2
(* The row at hand is in the cluster of every row before it that is alike. *)
<1>15. ASSUME NEW j \in Ids, j <= k - 1, Alike(rows, k, j)
       PROVE  after[k] = after[j]
  <2>1. PICK t \in st.kept : rows[t].text = rows[j].text /\ root[t] = root[j]
    BY <1>15 DEF ClusterInv, root
  <2>2. t \in Ids
    BY <1>1
  <2>3. Alike(rows, k, t)
    BY <1>15, <2>1 DEF Alike
  <2>4. CASE t \in J
    <3>1. after[t] = after[k] /\ after[t] = after[j]
      BY <1>4, <1>12, <1>13, <2>1, <2>2, <2>4
    <3> QED
      BY <3>1
  <2>5. CASE t \notin J
    <3>1. PICK u \in st.kept \cap J : rows[u].text = rows[k].text
      BY <1>3, <2>3, <2>5 DEF RowJoins
    <3>2. u \in Ids /\ u <= k - 1
      BY <1>1 DEF ClusterInv
    <3>3. Alike(rows, u, j)
      BY <1>15, <3>1 DEF Alike
    <3>4. root[u] = root[j]
      BY <1>15, <3>2, <3>3 DEF ClusterInv, root
    <3>5. after[u] = after[k] /\ after[u] = after[j]
      BY <1>4, <1>12, <1>13, <3>1, <3>2, <3>4
    <3> QED
      BY <3>5
  <2> QED
    BY <2>4, <2>5
<1>16. ASSUME NEW i \in Ids, NEW j \in Ids, i <= k, j <= k, Alike(rows, i, j)
       PROVE  after[i] = after[j]
  <2>1. Alike(rows, j, i)
    BY <1>16, AlikeReads
  <2>2. CASE i = k /\ j = k
    BY <2>2
  <2>3. CASE i = k /\ j # k
    BY <1>0, <1>15, <1>16, <2>3
  <2>4. CASE i # k /\ j = k
    BY <1>0, <1>15, <1>16, <2>1, <2>4
  <2>5. CASE i # k /\ j # k
    <3>1. i <= k - 1 /\ j <= k - 1
      BY <1>0, <1>16, <2>5
    <3>2. root[i] = root[j]
      BY <1>16, <3>1 DEF ClusterInv, root
    <3> QED
      BY <1>12, <3>2
  <2> QED
    BY <2>2, <2>3, <2>4, <2>5
<1>17. ASSUME NEW X \in SUBSET Ids, ClosedAlike(rows, X), NEW i \in Ids, NEW j \in Ids, after[i] = after[j], i \in X
       PROVE  j \in X
  <2>1. \A a, b \in Ids : root[a] = root[b] /\ a \in X => b \in X
    BY <1>17 DEF ClusterInv, root
  <2>2. CASE root[i] = root[j]
    BY <1>17, <2>1, <2>2
  <2>3. CASE Meets(root, i, J) /\ Meets(root, j, J)
    <3>1. PICK a \in J, b \in J : root[i] = root[a] /\ root[j] = root[b]
      BY <2>3 DEF Meets
    <3>2. Alike(rows, k, a) /\ Alike(rows, k, b) /\ a \in Ids /\ b \in Ids
      BY <1>3 DEF RowJoins
    <3>3. a \in X
      BY <1>17, <2>1, <3>1, <3>2
    <3>4. k \in X
      <4>1. Alike(rows, a, k)
        BY <3>2, AlikeReads
      <4> QED
        BY <1>17, <3>3, <4>1 DEF ClosedAlike
    <3>5. b \in X
      BY <1>17, <3>2, <3>4 DEF ClosedAlike
    <3> QED
      BY <2>1, <3>1, <3>2, <3>5
  <2> QED
    BY <1>7, <1>17, <2>2, <2>3
<1>18. new \in States
  BY <1>2
<1>19. ClusterInv(rows, new, k)
  BY <1>9, <1>10, <1>14, <1>16, <1>17, <1>18 DEF ClusterInv, after
<1> QED
  BY <1>19 DEF new

(* Two rows are in one cluster just when no set that is closed under       *)
(* duplication has only one of them; the cluster is named after the first. *)
LEMMA ClustersLink ==
  ASSUME NEW rows \in [Ids -> Rows]
  PROVE  LET root == Clusters(rows) IN
         /\ root \in [Ids -> Ids] /\ Lowest(root)
         /\ \A i, j \in Ids : Alike(rows, i, j) => root[i] = root[j]
         /\ \A X \in SUBSET Ids : ClosedAlike(rows, X) =>
              \A i, j \in Ids : root[i] = root[j] /\ i \in X => j \in X
<1> DEFINE n == Len(Primitives)
           g == Clustering(rows)
<1>1. n \in Nat /\ 1..n = Ids
  BY PublicAssumption DEF Ids
<1>2. /\ \A k \in 0..n : g[k] \in States
      /\ g[0] = [root |-> [j \in Ids |-> j], kept |-> {}]
      /\ \A k \in 1..n : g[k] = ClusterRow(rows, g[k - 1], k)
  BY ClusteringRead
<1>3. Clusters(rows) = g[n].root
  BY DEF Clusters
<1> HIDE DEF g, n
<1> DEFINE T == {k \in 0..n : ClusterInv(rows, g[k], k)}
<1>4. 0 \in T /\ T \in SUBSET (0..n)
  <2>1. g[0].root = [j \in Ids |-> j] /\ g[0].kept = {} /\ g[0] \in States
    BY <1>1, <1>2
  <2>2. \A j \in Ids : ~(j <= 0) /\ j <= j
    BY DEF Ids
  <2>3. Lowest(g[0].root)
    BY <2>1, <2>2 DEF Lowest
  <2>4. ClusterInv(rows, g[0], 0)
    BY <2>1, <2>2, <2>3 DEF ClusterInv
  <2> QED
    BY <1>1, <2>4
<1>5. ASSUME NEW k \in 1..n, k - 1 \in T
      PROVE  k \in T
  <2>1. k \in Ids /\ ClusterInv(rows, g[k - 1], k - 1) /\ g[k] = ClusterRow(rows, g[k - 1], k)
    BY <1>1, <1>2, <1>5
  <2>2. ClusterInv(rows, g[k], k)
    BY <2>1, ClusterStep
  <2> QED
    BY <1>1, <2>2
<1> HIDE DEF T
<1>6. T = 0..n
  BY <1>1, <1>4, <1>5, UpTo
<1>7. n \in T
  BY <1>1, <1>6
<1>8. ClusterInv(rows, g[n], n)
  BY <1>7 DEF T
<1>9. \A j \in Ids : j <= n
  BY <1>1
<1> QED
  BY <1>3, <1>8, <1>9 DEF ClusterInv, States

-----------------------------------------------------------------------------
(* Counting what is uniform.                                               *)

(* A finite set has one element just when all are the same.                *)
LEMMA OneOrMore ==
  ASSUME NEW T, IsFiniteSet(T), NEW x \in T
  PROVE  /\ Cardinality(T) > 1 <=> \E y \in T : y # x
         /\ Cardinality(T) = 1 <=> \A y \in T : y = x
<1>1. Cardinality(T) \in Nat /\ Cardinality(T) # 0
  BY FS_CardinalityType, FS_EmptySet
<1>2. ASSUME \A y \in T : y = x
      PROVE  Cardinality(T) = 1
  <2>1. T = {x}
    BY <1>2
  <2> QED
    BY <2>1, FS_Singleton
<1>3. ASSUME NEW y \in T, y # x
      PROVE  Cardinality(T) > 1
  <2>1. {x} \subseteq T /\ {x} # T
    BY <1>3
  <2>2. Cardinality({x}) = 1
    BY FS_Singleton
  <2>3. Cardinality({x}) <= Cardinality(T) /\ Cardinality({x}) # Cardinality(T)
    BY <2>1, FS_Subset
  <2> QED
    BY <1>1, <2>2, <2>3
<1> QED
  BY <1>1, <1>2, <1>3

(* The fields of finitely many examples are finitely many.                 *)
LEMMA ImageIsFinite ==
  ASSUME NEW C, IsFiniteSet(C)
  PROVE  /\ IsFiniteSet({<<e.upstream, e.fixed>> : e \in C})
         /\ IsFiniteSet({e.fixed : e \in C}) /\ IsFiniteSet({e.upstream : e \in C})
         /\ IsFiniteSet({e.holdout : e \in C})
<1>1. IsFiniteSet({<<e.upstream, e.fixed>> : e \in C})
  <2> DEFINE f == [e \in C |-> <<e.upstream, e.fixed>>]
  <2>1. f \in Surjection(C, {<<e.upstream, e.fixed>> : e \in C})
    BY DEF Surjection
  <2> QED
    BY <2>1, FS_Surjection
<1>2. IsFiniteSet({e.fixed : e \in C})
  <2> DEFINE f == [e \in C |-> e.fixed]
  <2>1. f \in Surjection(C, {e.fixed : e \in C})
    BY DEF Surjection
  <2> QED
    BY <2>1, FS_Surjection
<1>3. IsFiniteSet({e.upstream : e \in C})
  <2> DEFINE f == [e \in C |-> e.upstream]
  <2>1. f \in Surjection(C, {e.upstream : e \in C})
    BY DEF Surjection
  <2> QED
    BY <2>1, FS_Surjection
<1>4. IsFiniteSet({e.holdout : e \in C})
  <2> DEFINE f == [e \in C |-> e.holdout]
  <2>1. f \in Surjection(C, {e.holdout : e \in C})
    BY DEF Surjection
  <2> QED
    BY <2>1, FS_Surjection
<1> QED
  BY <1>1, <1>2, <1>3, <1>4

(* A sequence has finitely many elements.                                  *)
LEMMA RangeIsFinite ==
  ASSUME NEW S, NEW s \in Seq(S)
  PROVE  IsFiniteSet(Range(s))
<1>1. IsFiniteSet(1..Len(s))
  BY FS_Interval
<1>2. s \in Surjection(1..Len(s), Range(s))
  BY DEF Range, Surjection
<1> QED
  BY <1>1, <1>2, FS_Surjection

(* Being linked is an equivalence, and its classes are the components.     *)
LEMMA LinkedIsEquivalence ==
  ASSUME NEW E, NEW c, NEW d, NEW e
  PROVE  /\ Linked(E, d, d) /\ (Linked(E, d, e) <=> Linked(E, e, d))
         /\ Linked(E, c, d) /\ Linked(E, d, e) => Linked(E, c, e)
         /\ Linked(E, d, e) => LinkedTo(E, d) = LinkedTo(E, e)
         /\ d \in E => d \in LinkedTo(E, d)
<1>1. Linked(E, d, d) /\ (Linked(E, d, e) <=> Linked(E, e, d))
  BY DEF Linked
<1>2. \A x, y, z : Linked(E, x, y) /\ Linked(E, y, z) => Linked(E, x, z)
  BY DEF Linked
<1>3. \A x, y : Linked(E, x, y) <=> Linked(E, y, x)
  BY DEF Linked
<1>4. Linked(E, d, e) => LinkedTo(E, d) = LinkedTo(E, e)
  BY <1>2, <1>3 DEF LinkedTo
<1> QED
  BY <1>1, <1>2, <1>4 DEF LinkedTo

(* Examples that share a source or a cluster are linked.                   *)
LEMMA SharingLinks ==
  ASSUME NEW E, NEW d \in E, NEW e \in E, d.source = e.source \/ d.cluster = e.cluster
  PROVE  Linked(E, d, e)
BY DEF Linked, Whole

(* A component does not cross when its examples come from one upstream     *)
(* split and are fixed to one.                                             *)
LEMMA CrossesReads ==
  ASSUME NEW S, NEW s \in Seq(S), NEW e \in Range(s)
  PROVE  Crosses(LinkedTo(Range(s), e)) <=>
           \E d \in Range(s) : Linked(Range(s), d, e) /\ (d.upstream # e.upstream \/ d.fixed # e.fixed)
<1> DEFINE C == LinkedTo(Range(s), e)
           T == {<<d.upstream, d.fixed>> : d \in C}
           x == <<e.upstream, e.fixed>>
<1>1. C \in SUBSET Range(s) /\ e \in C
  BY LinkedIsEquivalence DEF LinkedTo
<1>2. IsFiniteSet(T) /\ x \in T
  <2>1. IsFiniteSet(C)
    BY <1>1, RangeIsFinite, FS_Subset
  <2> HIDE DEF C
  <2> QED
    BY <1>1, <2>1, ImageIsFinite
<1>3. Cardinality(T) > 1 <=> \E y \in T : y # x
  <2> HIDE DEF T, x
  <2> QED
    BY <1>2, OneOrMore
<1>4. (\E y \in T : y # x) <=> \E d \in C : d.upstream # e.upstream \/ d.fixed # e.fixed
  <2> HIDE DEF C
  <2>1. \A d \in C : <<d.upstream, d.fixed>> # x <=> d.upstream # e.upstream \/ d.fixed # e.fixed
    OBVIOUS
  <2>2. (\E y \in T : y # x) <=> \E d \in C : <<d.upstream, d.fixed>> # x
    OBVIOUS
  <2> QED
    BY <2>1, <2>2
<1>5. Crosses(C) <=> Cardinality(T) > 1
  BY DEF Crosses
<1> HIDE DEF T
<1> QED
  BY <1>3, <1>4, <1>5 DEF LinkedTo

(* What is retained: the examples whose component does not cross.          *)
LEMMA RetainedReads ==
  ASSUME NEW S, NEW s \in Seq(S)
  PROVE  /\ Retained(s) \in Seq(S)
         /\ \A e : e \in Range(Retained(s)) <=> e \in Range(s) /\ ~Crosses(LinkedTo(Range(s), e))
<1> DEFINE E == Range(s)
           T == UNION {C \in SourceComponents(s) : ~Crosses(C)}
           t == Where(s, T)
<1>1. Retained(s) = t
  BY DEF Retained
<1>2. SourceComponents(s) = {LinkedTo(E, e) : e \in E}
  BY ComponentsAreLinked
<1>3. ASSUME NEW e
      PROVE  e \in T <=> e \in E /\ ~Crosses(LinkedTo(E, e))
  <2> HIDE DEF E
  <2>1. ASSUME e \in T
        PROVE  e \in E /\ ~Crosses(LinkedTo(E, e))
    <3>1. PICK d \in E : e \in LinkedTo(E, d) /\ ~Crosses(LinkedTo(E, d))
      BY <1>2, <2>1
    <3>2. e \in E /\ Linked(E, e, d)
      BY <3>1 DEF LinkedTo
    <3>3. LinkedTo(E, e) = LinkedTo(E, d)
      BY <3>2, LinkedIsEquivalence
    <3> QED
      BY <3>1, <3>2, <3>3
  <2>2. ASSUME e \in E, ~Crosses(LinkedTo(E, e))
        PROVE  e \in T
    <3>1. e \in LinkedTo(E, e)
      BY <2>2, LinkedIsEquivalence
    <3> QED
      BY <1>2, <2>2, <3>1
  <2> QED
    BY <2>1, <2>2
<1> HIDE DEF T
<1>4. /\ t \in Seq(S \cap T)
      /\ \A k \in 1..Len(t) : t[k] \in T /\ \E i \in 1..Len(s) : t[k] = s[i]
      /\ \A i \in 1..Len(s) : s[i] \in T => \E k \in 1..Len(t) : t[k] = s[i]
  BY WhereElements
<1>5. t \in Seq(S)
  BY WhereReads
<1> HIDE DEF t
<1>6. Range(t) = {t[k] : k \in 1..Len(t)} /\ E = {s[i] : i \in 1..Len(s)}
  BY <1>5 DEF Range
<1>7. ASSUME NEW e
      PROVE  e \in Range(t) <=> e \in E /\ e \in T
  <2> HIDE DEF E
  <2>1. ASSUME e \in Range(t)
        PROVE  e \in E /\ e \in T
    BY <1>4, <1>6, <2>1
  <2>2. ASSUME e \in E, e \in T
        PROVE  e \in Range(t)
    <3>1. PICK i \in 1..Len(s) : e = s[i]
      BY <1>6, <2>2
    <3>2. PICK k \in 1..Len(t) : t[k] = s[i]
      BY <1>4, <2>2, <3>1
    <3> QED
      BY <1>6, <3>1, <3>2
  <2> QED
    BY <2>1, <2>2
<1> QED
  BY <1>1, <1>3, <1>5, <1>7

(* The rows as they were clustered.                                        *)
LEMMA ClusteredReads ==
  ASSUME NEW rows \in [Ids -> Rows]
  PROVE  LET c == Clustered(rows) IN
         /\ c \in Seq(ExampleRecords) /\ Len(c) = Len(Primitives)
         /\ Range(c) = {c[i] : i \in Ids}
         /\ \A i \in Ids : /\ c[i].id = i /\ c[i].source = rows[i].source
                           /\ c[i].cluster = Clusters(rows)[i] /\ c[i].upstream = rows[i].upstream
                           /\ c[i].fixed = Fixed(rows[i].upstream) /\ c[i].holdout = FALSE
<1> DEFINE cluster == Clusters(rows)
           x(i) == [id |-> i, source |-> rows[i].source, cluster |-> cluster[i], primitive |-> Primitives[i],
                    upstream |-> rows[i].upstream, fixed |-> Fixed(rows[i].upstream), holdout |-> FALSE]
           c == Clustered(rows)
<1>1. Len(Primitives) \in Nat /\ Ids = 1..Len(Primitives) /\ \A i \in Ids : Primitives[i] \in Range(Primitives)
  BY PublicAssumption DEF Ids, Range
<1>2. cluster \in [Ids -> Ids]
  BY ClustersLink
<1> HIDE DEF cluster
<1>3. c = [i \in Ids |-> x(i)]
  <2>1. c = [i \in Ids |-> [Example(i, rows[i]) EXCEPT !.cluster = cluster[i]]]
    BY DEF Clustered, cluster
  <2>2. ASSUME NEW i \in Ids
        PROVE  [Example(i, rows[i]) EXCEPT !.cluster = cluster[i]] = x(i)
    <3>1. \A p, q, r, u, v, w : [[id |-> i, source |-> p, cluster |-> i, primitive |-> q,
                                  upstream |-> r, fixed |-> u, holdout |-> v] EXCEPT !.cluster = w]
                               = [id |-> i, source |-> p, cluster |-> w, primitive |-> q,
                                  upstream |-> r, fixed |-> u, holdout |-> v]
      OBVIOUS
    <3>2. PICK v : v = FALSE
      OBVIOUS
    <3>3. Example(i, rows[i]) = [id |-> i, source |-> rows[i].source, cluster |-> i, primitive |-> Primitives[i],
                                 upstream |-> rows[i].upstream, fixed |-> Fixed(rows[i].upstream), holdout |-> v]
      BY <3>2 DEF Example
    <3>4. x(i) = [id |-> i, source |-> rows[i].source, cluster |-> cluster[i], primitive |-> Primitives[i],
                  upstream |-> rows[i].upstream, fixed |-> Fixed(rows[i].upstream), holdout |-> v]
      BY <3>2
    <3> HIDE DEF x
    <3> QED
      BY <3>1, <3>3, <3>4
  <2> HIDE DEF x, c
  <2> QED
    BY <2>1, <2>2
<1>4. \A i \in Ids : x(i) \in ExampleRecords
  <2> TAKE i \in Ids
  <2>1. rows[i].source \in Sources /\ rows[i].upstream \in {"train", "dev", "test"}
    BY DEF Rows
  <2>2. Fixed(rows[i].upstream) \in Splits \cup {None}
    BY DEF Fixed, Splits
  <2> QED
    BY <1>1, <1>2, <2>1, <2>2 DEF ExampleRecords
<1>5. \A i \in Ids : /\ x(i).id = i /\ x(i).source = rows[i].source
                     /\ x(i).cluster = cluster[i] /\ x(i).upstream = rows[i].upstream
                     /\ x(i).fixed = Fixed(rows[i].upstream) /\ x(i).holdout = FALSE
  OBVIOUS
<1> HIDE DEF x, c
<1>6. c \in Seq(ExampleRecords) /\ Len(c) = Len(Primitives) /\ DOMAIN c = Ids
  BY <1>1, <1>3, <1>4
<1>7. Range(c) = {c[i] : i \in Ids}
  BY <1>6 DEF Range
<1> QED
  BY <1>3, <1>5, <1>6, <1>7 DEF c, cluster

-----------------------------------------------------------------------------
(* The clusters and the components of the rows, as relations of rows.      *)

(* Rows are connected by similar texts just when they are in one cluster.  *)
LEMMA SimilarAreClustered ==
  ASSUME input \in [Ids -> Rows], NEW i \in Ids, NEW j \in Ids
  PROVE  <<i, j>> \in SimilarRows <=> Clusters(input)[i] = Clusters(input)[j]
<1> DEFINE R == {p \in Pairs : SameText(p[1], p[2])}
           root == Clusters(input)
<1>1. \A a, b \in Ids : <<a, b>> \in R <=> Alike(input, a, b)
  BY DEF Pairs, SameText, Alike
<1>2. R \in SUBSET Pairs
  OBVIOUS
<1>3. SimilarRows = Closure(R)
  BY DEF SimilarRows
<1>4. /\ root \in [Ids -> Ids]
      /\ \A a, b \in Ids : Alike(input, a, b) => root[a] = root[b]
      /\ \A X \in SUBSET Ids : ClosedAlike(input, X) => \A a, b \in Ids : root[a] = root[b] /\ a \in X => b \in X
  BY ClustersLink
<1> HIDE DEF R, root
<1>5. \A a \in Ids : <<a, a>> \in R
  BY <1>1, AlikeReads
<1>6. <<i, j>> \in Closure(R) <=> \A X \in SUBSET Ids : Closed(X, R) /\ i \in X => j \in X
  BY <1>2, <1>5, ClosureReads
<1>7. \A X \in SUBSET Ids : Closed(X, R) <=> ClosedAlike(input, X)
  BY <1>1 DEF Closed, ClosedAlike
<1>8. ASSUME <<i, j>> \in Closure(R)
      PROVE  root[i] = root[j]
  <2> DEFINE X == {x \in Ids : root[x] = root[i]}
  <2>1. Closed(X, R) /\ i \in X /\ X \in SUBSET Ids
    BY <1>1, <1>4 DEF Closed
  <2> HIDE DEF X
  <2>2. j \in X
    BY <1>6, <1>8, <2>1
  <2> QED
    BY <2>2 DEF X
<1>9. root[i] = root[j] => <<i, j>> \in Closure(R)
  BY <1>4, <1>6, <1>7
<1> QED
  BY <1>3, <1>8, <1>9 DEF root

(* Rows are connected by texts and sources just when their examples are    *)
(* linked by clusters and sources.                                         *)
LEMMA RelatedAreLinked ==
  ASSUME input \in [Ids -> Rows], NEW i \in Ids, NEW j \in Ids
  PROVE  LET c == Clustered(input)
         IN  <<i, j>> \in RelatedRows <=> Linked(Range(c), c[i], c[j])
<1> DEFINE R == {p \in Pairs : SameText(p[1], p[2]) \/ input[p[1]].source = input[p[2]].source}
           root == Clusters(input)
           c == Clustered(input)
           E == Range(c)
<1>1. \A a, b \in Ids : <<a, b>> \in R <=> Alike(input, a, b) \/ input[a].source = input[b].source
  BY DEF Pairs, SameText, Alike
<1>2. R \in SUBSET Pairs
  OBVIOUS
<1>3. RelatedRows = Closure(R)
  BY DEF RelatedRows
<1>4. /\ root \in [Ids -> Ids]
      /\ \A a, b \in Ids : Alike(input, a, b) => root[a] = root[b]
      /\ \A X \in SUBSET Ids : ClosedAlike(input, X) => \A a, b \in Ids : root[a] = root[b] /\ a \in X => b \in X
  BY ClustersLink
<1>4a. /\ E = {c[a] : a \in Ids}
       /\ \A a \in Ids : c[a].id = a /\ c[a].source = input[a].source /\ c[a].cluster = root[a]
  BY ClusteredReads
<1> HIDE DEF R, root, c, E
<1>5. \A a \in Ids : <<a, a>> \in R
  BY <1>1
<1>6. <<i, j>> \in Closure(R) <=> \A X \in SUBSET Ids : Closed(X, R) /\ i \in X => j \in X
  BY <1>2, <1>5, ClosureReads
<1>7. ASSUME NEW X \in SUBSET Ids, Closed(X, R)
      PROVE  ClosedAlike(input, X)
  BY <1>1, <1>7 DEF Closed, ClosedAlike
<1>8. ASSUME <<i, j>> \in Closure(R), NEW Y \in SUBSET E, Whole(Y, E)
      PROVE  c[i] \in Y <=> c[j] \in Y
  <2> DEFINE X == {x \in Ids : c[x] \in Y}
             Z == {x \in Ids : c[x] \notin Y}
  <2>1. \A a, b \in Ids : <<a, b>> \in R => c[a].source = c[b].source \/ c[a].cluster = c[b].cluster
    BY <1>1, <1>4, <1>4a
  <2>2. \A a, b \in Ids : <<a, b>> \in R => (c[a] \in Y <=> c[b] \in Y)
    BY <1>4a, <1>8, <2>1 DEF Whole
  <2>3. Closed(X, R) /\ X \in SUBSET Ids /\ Closed(Z, R) /\ Z \in SUBSET Ids
    BY <2>2 DEF Closed
  <2>4. (i \in X => j \in X) /\ (i \in Z => j \in Z)
    <3> HIDE DEF X, Z
    <3> QED
      BY <1>6, <1>8, <2>3
  <2> QED
    BY <2>4
<1>9. ASSUME Linked(E, c[i], c[j]), NEW X \in SUBSET Ids, Closed(X, R), i \in X
      PROVE  j \in X
  <2> DEFINE Y == {c[x] : x \in X}
  <2>1. Whole(Y, E)
    <3> SUFFICES ASSUME NEW a \in Y, NEW b \in E, a.source = b.source \/ a.cluster = b.cluster
                 PROVE  b \in Y
      BY DEF Whole
    <3>1. PICK x \in X, y \in Ids : a = c[x] /\ b = c[y]
      BY <1>4a
    <3>2. x \in Ids
      OBVIOUS
    <3>3. input[x].source = input[y].source \/ root[x] = root[y]
      BY <1>4a, <3>1, <3>2
    <3>4. input[x].source = input[y].source => y \in X
      BY <1>1, <1>9, <3>2 DEF Closed
    <3>5. root[x] = root[y] => y \in X
      BY <1>4, <1>7, <1>9, <3>2
    <3> QED
      BY <3>1, <3>3, <3>4, <3>5
  <2>2. Y \in SUBSET E /\ c[i] \in Y
    BY <1>4a, <1>9
  <2>3. c[j] \in Y
    <3> HIDE DEF Y
    <3> QED
      BY <1>9, <2>1, <2>2 DEF Linked
  <2>4. PICK x \in X : c[j] = c[x]
    BY <2>3
  <2>5. j = x
    BY <1>4a, <2>4
  <2> QED
    BY <2>5
<1>10. <<i, j>> \in Closure(R) <=> Linked(E, c[i], c[j])
  <2>1. <<i, j>> \in Closure(R) => Linked(E, c[i], c[j])
    BY <1>8 DEF Linked
  <2>2. Linked(E, c[i], c[j]) => <<i, j>> \in Closure(R)
    BY <1>6, <1>9
  <2> QED
    BY <2>1, <2>2
<1> QED
  BY <1>3, <1>10 DEF c, E

(* Clusters are the classes of connected texts, named after the first row. *)
LEMMA ClustersExact ==
  ASSUME input \in [Ids -> Rows], clustered = Clustered(input)
  PROVE  ClustersAreExact
<1> DEFINE root == Clusters(input)
<1>1. SUFFICES ASSUME NEW e \in Range(clustered)
               PROVE  e.cluster = Min({j \in Ids : <<e.id, j>> \in SimilarRows})
  BY DEF ClustersAreExact
<1>2. PICK i \in Ids : e = clustered[i]
  <2>1. Range(Clustered(input)) = {Clustered(input)[i] : i \in Ids}
    BY ClusteredReads
  <2> QED
    BY <1>1, <2>1
<1>3. e.id = i /\ e.cluster = root[i]
  <2>1. Clustered(input)[i].id = i /\ Clustered(input)[i].cluster = Clusters(input)[i]
    BY ClusteredReads
  <2> QED
    BY <1>2, <2>1
<1>4. root \in [Ids -> Ids] /\ Lowest(root)
  BY ClustersLink
<1>5. \A j \in Ids : <<i, j>> \in SimilarRows <=> root[i] = root[j]
  BY SimilarAreClustered
<1> DEFINE S == {j \in Ids : <<i, j>> \in SimilarRows}
<1> HIDE DEF root
<1>6. root[i] \in S /\ \A y \in S : root[i] <= y
  BY <1>4, <1>5 DEF Lowest
<1>7. \A y \in S : y \in Nat
  BY DEF Ids
<1>8. S = {j \in Ids : <<e.id, j>> \in SimilarRows}
  BY <1>3
<1> HIDE DEF S
<1>9. Min(S) = root[i]
  <2>1. Min(S) \in S /\ \A y \in S : Min(S) <= y
    BY <1>6 DEF Min
  <2>2. Min(S) <= root[i] /\ root[i] <= Min(S) /\ Min(S) \in Nat /\ root[i] \in Nat
    BY <1>6, <1>7, <2>1
  <2> QED
    BY <2>2
<1> QED
  BY <1>3, <1>8, <1>9

(* A row is retained just when all it is related to is from its upstream   *)
(* split.                                                                  *)
LEMMA QuarantineExact ==
  ASSUME input \in [Ids -> Rows], clustered = Clustered(input), retained = Retained(clustered)
  PROVE  QuarantineIsExact
<1> DEFINE c == clustered
           E == Range(c)
<1>1. SUFFICES ASSUME NEW e \in E
               PROVE  e \in Range(retained) <=>
                        \A j \in Ids : <<e.id, j>> \in RelatedRows => input[j].upstream = e.upstream
  BY DEF QuarantineIsExact
<1>2. /\ c \in Seq(ExampleRecords) /\ E = {c[i] : i \in Ids}
      /\ \A i \in Ids : c[i].id = i /\ c[i].upstream = input[i].upstream /\ c[i].fixed = Fixed(input[i].upstream)
  <2> DEFINE a == Clustered(input)
  <2>1. /\ a \in Seq(ExampleRecords) /\ Range(a) = {a[i] : i \in Ids}
        /\ \A i \in Ids : a[i].id = i /\ a[i].upstream = input[i].upstream /\ a[i].fixed = Fixed(input[i].upstream)
    BY ClusteredReads
  <2> HIDE DEF a
  <2>2. c = a
    BY DEF a
  <2> QED
    BY <2>1, <2>2
<1>3. PICK i \in Ids : e = c[i]
  BY <1>1, <1>2
<1>4. e \in Range(retained) <=> ~Crosses(LinkedTo(E, e))
  BY <1>1, <1>2, RetainedReads
<1>5. Crosses(LinkedTo(E, e)) <=> \E d \in E : Linked(E, d, e) /\ (d.upstream # e.upstream \/ d.fixed # e.fixed)
  BY <1>1, <1>2, CrossesReads
<1>6. \A j \in Ids : <<i, j>> \in RelatedRows <=> Linked(E, c[i], c[j])
  BY RelatedAreLinked
<1> HIDE DEF E, c
<1>7. \A j \in Ids : <<i, j>> \in RelatedRows <=> Linked(E, c[j], e)
  BY <1>3, <1>6, LinkedIsEquivalence
<1>8. \A j \in Ids : c[j].upstream # e.upstream \/ c[j].fixed # e.fixed <=> input[j].upstream # e.upstream
  BY <1>2, <1>3
<1>9. Crosses(LinkedTo(E, e)) <=> \E j \in Ids : <<i, j>> \in RelatedRows /\ input[j].upstream # e.upstream
  <2>1. ASSUME NEW d \in E, Linked(E, d, e), d.upstream # e.upstream \/ d.fixed # e.fixed
        PROVE  \E j \in Ids : <<i, j>> \in RelatedRows /\ input[j].upstream # e.upstream
    <3>1. PICK j \in Ids : d = c[j]
      BY <1>2
    <3> QED
      BY <1>7, <1>8, <2>1, <3>1
  <2>2. ASSUME NEW j \in Ids, <<i, j>> \in RelatedRows, input[j].upstream # e.upstream
        PROVE  c[j] \in E /\ Linked(E, c[j], e) /\ (c[j].upstream # e.upstream \/ c[j].fixed # e.fixed)
    BY <1>2, <1>7, <1>8, <2>2
  <2> QED
    BY <1>5, <2>1, <2>2
<1> QED
  BY <1>2, <1>3, <1>4, <1>9

-----------------------------------------------------------------------------
(* What is assigned.                                                       *)

(* In a suite that does not raise, a component is fixed as a whole.        *)
LEMMA ConflictFree ==
  ASSUME NEW S, NEW s \in Seq(S), ~Raises(s), NEW d \in Range(s), NEW e \in Range(s), Linked(Range(s), d, e)
  PROVE  d.fixed = e.fixed /\ d.holdout = e.holdout
<1> DEFINE C == LinkedTo(Range(s), e)
           F == {x.fixed : x \in C}
           H == {x.holdout : x \in C}
<1>1. C \in SourceComponents(s)
  BY ComponentsAreLinked
<1>2. ~Conflicting(C)
  BY <1>1 DEF Raises
<1>3. Cardinality(F) = 1 /\ Cardinality(H) = 1
  BY <1>2 DEF Conflicting
<1>4. d \in C /\ e \in C /\ C \in SUBSET Range(s)
  BY LinkedIsEquivalence DEF LinkedTo
<1>5. IsFiniteSet(F) /\ IsFiniteSet(H)
  <2>1. IsFiniteSet(C)
    BY <1>4, RangeIsFinite, FS_Subset
  <2> HIDE DEF C
  <2> QED
    BY <2>1, ImageIsFinite
<1>6. e.fixed \in F /\ d.fixed \in F /\ e.holdout \in H /\ d.holdout \in H
  BY <1>4
<1> DEFINE f == e.fixed
           h == e.holdout
<1> HIDE DEF F, H, f, h
<1>7. f \in F /\ h \in H
  BY <1>6 DEF f, h
<1>8. (\A y \in F : y = f) /\ (\A y \in H : y = h)
  BY <1>3, <1>5, <1>7, OneOrMore
<1> QED
  BY <1>6, <1>8 DEF f, h

(* Any example of a component decides its split.                           *)
LEMMA SplitReads ==
  ASSUME NEW S, NEW s \in Seq(S), ~Raises(s), NEW e \in Range(s), NEW seed
  PROVE  LET C == LinkedTo(Range(s), e)
         IN  SplitOf(C, seed) = IF e.fixed # None THEN e.fixed
                                ELSE IF e.holdout THEN "task_holdout" ELSE Bucket(seed, NamesOf(C))
<1> DEFINE C == LinkedTo(Range(s), e)
           x == CHOOSE y \in C : TRUE
<1>1. x \in C
  BY LinkedIsEquivalence
<1>2. x \in Range(s) /\ Linked(Range(s), x, e)
  BY <1>1 DEF LinkedTo
<1>3. x.fixed = e.fixed /\ x.holdout = e.holdout
  BY <1>2, ConflictFree
<1>4. SplitOf(C, seed) = IF x.fixed # None THEN x.fixed
                         ELSE IF x.holdout THEN "task_holdout" ELSE Bucket(seed, NamesOf(C))
  BY DEF SplitOf
<1> HIDE DEF C, x
<1> QED
  BY <1>3, <1>4 DEF C

(* Each example is assigned the split of its component.                    *)
LEMMA AssignedReads ==
  ASSUME NEW S, NEW s \in Seq(S), NEW seed
  PROVE  Assigned(s, seed) = {<<e.id, SplitOf(LinkedTo(Range(s), e), seed)>> : e \in Range(s)}
<1> DEFINE E == Range(s)
           of(C) == {<<e.id, SplitOf(C, seed)>> : e \in C}
           A == {<<e.id, SplitOf(LinkedTo(E, e), seed)>> : e \in E}
<1>1. Assigned(s, seed) = UNION {of(C) : C \in SourceComponents(s)}
  BY DEF Assigned
<1>2. SourceComponents(s) = {LinkedTo(E, e) : e \in E}
  BY ComponentsAreLinked
<1>3. ASSUME NEW C \in SourceComponents(s), NEW e \in C
      PROVE  e \in E /\ C = LinkedTo(E, e)
  <2>1. PICK d \in E : C = LinkedTo(E, d)
    BY <1>2
  <2>2. e \in E /\ Linked(E, e, d)
    BY <2>1 DEF LinkedTo
  <2> QED
    BY <2>1, <2>2, LinkedIsEquivalence
<1>4. \A e \in E : e \in LinkedTo(E, e)
  BY LinkedIsEquivalence
<1> HIDE DEF E
<1>5. ASSUME NEW C \in SourceComponents(s), NEW u \in of(C)
      PROVE  u \in A
  <2>1. PICK e \in C : u = <<e.id, SplitOf(C, seed)>>
    OBVIOUS
  <2>2. e \in E /\ C = LinkedTo(E, e)
    BY <1>3
  <2> QED
    BY <2>1, <2>2
<1>6. ASSUME NEW e \in E
      PROVE  \E C \in SourceComponents(s) : <<e.id, SplitOf(LinkedTo(E, e), seed)>> \in of(C)
  BY <1>2, <1>4
<1>7. Assigned(s, seed) = A
  <2>1. \A u \in Assigned(s, seed) : u \in A
    BY <1>1, <1>5
  <2>2. \A u \in A : u \in Assigned(s, seed)
    BY <1>1, <1>6
  <2> QED
    BY <2>1, <2>2
<1> QED
  BY <1>7 DEF E

(* A suite whose rows carry their splits is split as they say.             *)
LEMMA FixedAreAssigned ==
  ASSUME NEW S, NEW s \in Seq(S), ~Raises(s), \A e \in Range(s) : e.fixed # None, NEW seed
  PROVE  Assigned(s, seed) = {<<e.id, e.fixed>> : e \in Range(s)}
<1>1. Assigned(s, seed) = {<<e.id, SplitOf(LinkedTo(Range(s), e), seed)>> : e \in Range(s)}
  BY AssignedReads
<1>2. \A e \in Range(s) : SplitOf(LinkedTo(Range(s), e), seed) = e.fixed
  BY SplitReads
<1> QED
  BY <1>1, <1>2

-----------------------------------------------------------------------------
(* What is retained.                                                       *)

(* A whole set keeps the components it has.                                *)
LEMMA WholeStays ==
  ASSUME NEW E, NEW T \in SUBSET E, Whole(T, E), NEW e \in T
  PROVE  /\ \A d \in T : Linked(T, d, e) <=> Linked(E, d, e)
         /\ LinkedTo(T, e) = LinkedTo(E, e)
<1>1. ASSUME NEW d \in T, Linked(E, d, e)
      PROVE  Linked(T, d, e)
  <2> SUFFICES ASSUME NEW X \in SUBSET T, Whole(X, T)
               PROVE  d \in X <=> e \in X
    BY DEF Linked
  <2>1. Whole(X, E) /\ X \in SUBSET E
    BY DEF Whole
  <2> QED
    BY <1>1, <2>1 DEF Linked
<1>2. ASSUME NEW d \in T, Linked(T, d, e)
      PROVE  Linked(E, d, e)
  <2> SUFFICES ASSUME NEW X \in SUBSET E, Whole(X, E)
               PROVE  d \in X <=> e \in X
    BY DEF Linked
  <2> DEFINE Y == X \cap T
  <2>1. Whole(Y, T) /\ Y \in SUBSET T
    BY DEF Whole
  <2>2. d \in Y <=> e \in Y
    <3> HIDE DEF Y
    <3> QED
      BY <1>2, <2>1 DEF Linked
  <2> QED
    BY <2>2
<1>3. \A d \in E : Linked(E, d, e) => d \in T
  BY DEF Linked
<1>4. LinkedTo(T, e) = LinkedTo(E, e)
  BY <1>1, <1>2, <1>3 DEF LinkedTo
<1> QED
  BY <1>1, <1>2, <1>4

(* What a retained row is linked to is retained, comes from the same       *)
(* upstream split and is fixed to the same.                                *)
LEMMA RetainedIsWhole ==
  ASSUME NEW S, NEW s \in Seq(S)
  PROVE  LET E == Range(s)
             T == Range(Retained(s))
         IN  /\ T \in SUBSET E /\ Whole(T, E)
             /\ \A e \in T, d \in E : Linked(E, d, e) => d \in T /\ d.upstream = e.upstream /\ d.fixed = e.fixed
<1> DEFINE E == Range(s)
           T == Range(Retained(s))
<1>1. \A e : e \in T <=> e \in E /\ ~Crosses(LinkedTo(E, e))
  BY RetainedReads
<1>2. \A e \in E : Crosses(LinkedTo(E, e)) <=>
        \E d \in E : Linked(E, d, e) /\ (d.upstream # e.upstream \/ d.fixed # e.fixed)
  BY CrossesReads
<1> HIDE DEF E, T
<1>3. ASSUME NEW e \in T, NEW d \in E, Linked(E, d, e)
      PROVE  d \in T /\ d.upstream = e.upstream /\ d.fixed = e.fixed
  <2>1. LinkedTo(E, d) = LinkedTo(E, e)
    BY <1>3, LinkedIsEquivalence
  <2> QED
    BY <1>1, <1>2, <1>3, <2>1
<1>4. Whole(T, E)
  <2> SUFFICES ASSUME NEW a \in T, NEW b \in E, a.source = b.source \/ a.cluster = b.cluster
               PROVE  b \in T
    BY DEF Whole
  <2>1. a \in E
    BY <1>1
  <2>2. Linked(E, b, a)
    BY <2>1, SharingLinks
  <2> QED
    BY <1>3, <2>2
<1> QED
  BY <1>1, <1>3, <1>4 DEF E, T

(* Quarantine leaves ids distinct.                                         *)
LEMMA RetainedLoads ==
  ASSUME NEW S, NEW s \in Seq(S), Loads(s)
  PROVE  Loads(Retained(s))
<1> DEFINE T == UNION {C \in SourceComponents(s) : ~Crosses(C)}
           t == Where(s, T)
           at(k) == Nth(Positions(s, T), k)
<1>1. Retained(s) = t
  BY DEF Retained
<1>2. /\ t \in Seq(S)
      /\ \A k \in 1..Len(t) : at(k) \in 1..Len(s) /\ t[k] = s[at(k)] /\ t[k] \in T
      /\ \A k, l \in 1..Len(t) : k < l => at(k) < at(l)
  BY WhereReads
<1> HIDE DEF t, at, T
<1>3. Loads(t)
  <2> SUFFICES ASSUME NEW k \in 1..Len(t), NEW l \in 1..Len(t), t[k].id = t[l].id
               PROVE  k = l
    BY DEF Loads
  <2>1. at(k) = at(l)
    BY <1>2 DEF Loads
  <2>2. k \in Int /\ l \in Int /\ at(k) \in Int
    BY <1>2
  <2> QED
    BY <1>2, <2>1, <2>2
<1> QED
  BY <1>1, <1>3

-----------------------------------------------------------------------------
(* What is written.                                                        *)

(* The names of examples are those the hash is defined for.                *)
LEMMA NamesAreKnown ==
  ASSUME NEW C, \A e \in C : e \in ExampleRecords
  PROVE  NamesOf(C) \in SUBSET AllNames
<1>1. ASSUME NEW e \in C
      PROVE  SourceName(e) \in AllNames /\ ClusterName(e) \in AllNames
  <2>1. e.source \in Sources /\ e.cluster \in Ids
    BY DEF ExampleRecords
  <2> QED
    BY <2>1 DEF AllNames, SourceName, ClusterName
<1> QED
  BY <1>1 DEF NamesOf

(* The split of a row's component.                                         *)
SplitFor(s, e) == SplitOf(LinkedTo(Range(s), e), BuildSeed)

(* Every component has a split.                                            *)
LEMMA SplitIsOrdinary ==
  ASSUME NEW s \in Seq(ExampleRecords), ~Raises(s), \A e \in Range(s) : ~e.holdout, NEW e \in Range(s)
  PROVE  SplitFor(s, e) \in Splits
<1> DEFINE C == LinkedTo(Range(s), e)
<1>1. e \in ExampleRecords /\ \A d \in C : d \in ExampleRecords
  BY DEF Range, LinkedTo
<1>2. NamesOf(C) \in SUBSET AllNames
  BY <1>1, NamesAreKnown
<1>3. Bucket(BuildSeed, NamesOf(C)) \in Splits
  <2> HIDE DEF C
  <2> QED
    BY <1>2, PublicAssumption
<1>4. e.fixed # None => e.fixed \in Splits
  BY <1>1 DEF ExampleRecords
<1>5. SplitOf(C, BuildSeed) = IF e.fixed # None THEN e.fixed
                              ELSE IF e.holdout THEN "task_holdout" ELSE Bucket(BuildSeed, NamesOf(C))
  BY SplitReads
<1> HIDE DEF C
<1>6. SplitOf(C, BuildSeed) \in Splits
  BY <1>3, <1>4, <1>5
<1> QED
  BY <1>6 DEF C, SplitFor

(* Marking leaves everything but the split as it was.                      *)
Resembles(d, e) ==
  /\ d.id = e.id /\ d.source = e.source /\ d.cluster = e.cluster /\ d.primitive = e.primitive
  /\ d.upstream = e.upstream /\ d.holdout = e.holdout

(* Marking replaces the split of each row by the one it is assigned: ids   *)
(* are distinct, so that the choice by id finds it.                        *)
LEMMA MarkedReads ==
  ASSUME NEW s \in Seq(ExampleRecords), ~Raises(s), \A e \in Range(s) : ~e.holdout, Loads(s)
  PROVE  LET m == Marked(s)
         IN  /\ m \in Seq(ExampleRecords) /\ Len(m) = Len(s)
             /\ \A i \in 1..Len(s) : Resembles(m[i], s[i]) /\ m[i].fixed = SplitFor(s, s[i]) /\ m[i].fixed \in Splits
<1> DEFINE assigned == Assigned(s, BuildSeed)
           fix(i) == CHOOSE x \in Splits : <<s[i].id, x>> \in assigned
           m == Marked(s)
           n == Len(s)
<1>1. n \in Nat /\ \A i \in 1..n : s[i] \in Range(s) /\ s[i] \in ExampleRecords
  BY DEF Range
<1>2. assigned = {<<e.id, SplitFor(s, e)>> : e \in Range(s)}
  BY AssignedReads DEF SplitFor
<1>3. \A e \in Range(s) : \E i \in 1..n : e = s[i]
  BY DEF Range
<1>4. \A e \in Range(s) : SplitFor(s, e) \in Splits
  BY SplitIsOrdinary
<1>5. m = [i \in 1..n |-> [s[i] EXCEPT !.fixed = fix(i)]]
  BY DEF Marked
<1> HIDE DEF assigned
<1>6. ASSUME NEW i \in 1..n
      PROVE  fix(i) = SplitFor(s, s[i])
  <2>1. <<s[i].id, SplitFor(s, s[i])>> \in assigned /\ SplitFor(s, s[i]) \in Splits
    BY <1>1, <1>2, <1>4
  <2>2. ASSUME NEW x, <<s[i].id, x>> \in assigned
        PROVE  x = SplitFor(s, s[i])
    <3>1. PICK e \in Range(s) : <<s[i].id, x>> = <<e.id, SplitFor(s, e)>>
      BY <1>2, <2>2
    <3>2. PICK j \in 1..n : e = s[j]
      BY <1>3
    <3>3. i = j
      BY <3>1, <3>2 DEF Loads
    <3> QED
      BY <3>1, <3>2, <3>3
  <2>3. fix(i) \in Splits /\ <<s[i].id, fix(i)>> \in assigned
    BY <2>1
  <2> QED
    BY <2>2, <2>3
<1> HIDE DEF fix, m, n
<1>7. ASSUME NEW i \in 1..n
      PROVE  /\ m[i] \in ExampleRecords
             /\ Resembles(m[i], s[i]) /\ m[i].fixed = fix(i) /\ m[i].fixed \in Splits
  <2> DEFINE e == s[i]
             x == fix(i)
  <2>1. e \in ExampleRecords /\ x \in Splits
    BY <1>1, <1>4, <1>6
  <2>2. m[i] = [e EXCEPT !.fixed = x]
    BY <1>5
  <2> HIDE DEF e, x
  <2>3. m[i] \in ExampleRecords /\ m[i].fixed = x
    BY <2>1, <2>2 DEF ExampleRecords
  <2>4. Resembles(m[i], e)
    BY <2>1, <2>2 DEF ExampleRecords, Resembles
  <2> QED
    BY <2>1, <2>3, <2>4 DEF e, x
<1>8. m \in Seq(ExampleRecords) /\ Len(m) = n
  <2>1. m = [i \in 1..n |-> m[i]]
    BY <1>5
  <2>2. m \in [1..n -> ExampleRecords]
    BY <1>7, <2>1
  <2> QED
    BY <1>1, <2>2
<1> QED
  BY <1>6, <1>7, <1>8 DEF m, n

(* Two sequences that share sources and clusters position by position have *)
(* the same components.                                                    *)
LEMMA ShapeLinks ==
  ASSUME NEW S, NEW s \in Seq(S), NEW R, NEW t \in Seq(R), Len(t) = Len(s),
         \A i \in 1..Len(s) : t[i].source = s[i].source /\ t[i].cluster = s[i].cluster,
         \A i, j \in 1..Len(s) : t[i] = t[j] => i = j,
         NEW i \in 1..Len(s), NEW j \in 1..Len(s), Linked(Range(t), t[i], t[j])
  PROVE  Linked(Range(s), s[i], s[j])
<1> DEFINE n == Len(s)
<1>1. Range(s) = {s[k] : k \in 1..n} /\ Range(t) = {t[k] : k \in 1..n}
  BY DEF Range
<1> SUFFICES ASSUME NEW X \in SUBSET Range(s), Whole(X, Range(s))
             PROVE  s[i] \in X <=> s[j] \in X
  BY DEF Linked
<1> DEFINE Y == {t[k] : k \in {l \in 1..n : s[l] \in X}}
<1>2. \A k \in 1..n : t[k] \in Y <=> s[k] \in X
  OBVIOUS
<1>3. Y \in SUBSET Range(t)
  BY <1>1
<1> HIDE DEF Y
<1>4. Whole(Y, Range(t))
  <2> SUFFICES ASSUME NEW k \in 1..n, NEW l \in 1..n, t[k] \in Y,
                      t[k].source = t[l].source \/ t[k].cluster = t[l].cluster
               PROVE  t[l] \in Y
    BY <1>1, <1>3 DEF Whole
  <2>1. s[k] \in X /\ s[l] \in Range(s)
    BY <1>1, <1>2
  <2>2. s[k].source = s[l].source \/ s[k].cluster = s[l].cluster
    OBVIOUS
  <2>3. s[l] \in X
    BY <2>1, <2>2 DEF Whole
  <2> QED
    BY <1>2, <2>3
<1>5. t[i] \in Y <=> t[j] \in Y
  BY <1>3, <1>4 DEF Linked
<1> QED
  BY <1>2, <1>5

-----------------------------------------------------------------------------
(* The rows of a build that goes through.                                  *)

(* The build goes through both gates.                                      *)
Good(rows)  == ~Raises(Retained(Clustered(rows))) /\ Ready(Retained(Clustered(rows)))
Final(rows) == Marked(Retained(Clustered(rows)))
FinalRows(rows) == IF Good(rows) THEN Range(Final(rows)) ELSE {}

(* A component whose examples agree does not conflict.                     *)
LEMMA UniformIsFree ==
  ASSUME NEW C, IsFiniteSet(C), NEW e \in C, ~e.holdout,
         \A d \in C : d.fixed = e.fixed /\ d.upstream = e.upstream /\ d.holdout = e.holdout
  PROVE  ~Conflicting(C)
<1> DEFINE F == {d.fixed : d \in C}
           U == {d.upstream : d \in C} \ {None}
           H == {d.holdout : d \in C}
           f == e.fixed
           u == e.upstream
           h == e.holdout
<1>1. IsFiniteSet(F) /\ IsFiniteSet(U) /\ IsFiniteSet(H)
  <2>1. IsFiniteSet(F) /\ IsFiniteSet({d.upstream : d \in C}) /\ IsFiniteSet(H)
    BY ImageIsFinite
  <2> QED
    BY <2>1, FS_Subset
<1>2. f \in F /\ h \in H
  OBVIOUS
<1>3. (\A y \in F : y = f) /\ (\A y \in U : y = u) /\ (\A y \in H : y = h)
  OBVIOUS
<1>4. ~\E d \in C : d.holdout /\ d.fixed \notin {None, "task_holdout"}
  OBVIOUS
<1>5. Conflicting(C) <=> \/ Cardinality(F) # 1 \/ Cardinality(U) > 1 \/ Cardinality(H) # 1
                         \/ \E d \in C : d.holdout /\ d.fixed \notin {None, "task_holdout"}
  BY DEF Conflicting
<1> HIDE DEF F, U, H, f, u, h
<1>6. Cardinality(F) = 1 /\ Cardinality(H) = 1
  BY <1>1, <1>2, <1>3, OneOrMore
<1>7. ~(Cardinality(U) > 1)
  <2>1. CASE u \in U
    BY <1>1, <1>3, <2>1, OneOrMore
  <2>2. CASE u \notin U
    <3>1. U = {}
      BY <1>3, <2>2
    <3> QED
      BY <3>1, FS_EmptySet
  <2> QED
    BY <2>1, <2>2
<1> QED
  BY <1>4, <1>5, <1>6, <1>7

(* The rows have distinct ids and none is held out as a task.              *)
LEMMA ClusteredLoads ==
  ASSUME NEW rows \in [Ids -> Rows]
  PROVE  Loads(Clustered(rows)) /\ \A e \in Range(Clustered(rows)) : ~e.holdout
<1> DEFINE c == Clustered(rows)
<1>1. /\ Len(c) = Len(Primitives) /\ Range(c) = {c[i] : i \in Ids}
      /\ \A i \in Ids : c[i].id = i /\ c[i].holdout = FALSE
  BY ClusteredReads
<1> HIDE DEF c
<1>2. Loads(c) /\ \A e \in Range(c) : ~e.holdout
  BY <1>1 DEF Loads, Ids
<1> QED
  BY <1>2 DEF c

(* Each row that is written is one that was retained, with the split of    *)
(* its component.                                                          *)
FinalFrom(m, t) ==
  /\ Len(m) = Len(t)
  /\ \A i \in 1..Len(t) : Resembles(m[i], t[i]) /\ m[i].fixed = SplitFor(t, t[i]) /\ m[i].fixed \in Splits

(* What goes through the gates, and what is written of it.                 *)
LEMMA FinalReads ==
  ASSUME NEW rows \in [Ids -> Rows], Good(rows)
  PROVE  LET t == Retained(Clustered(rows))
             m == Final(rows)
         IN  /\ t \in Seq(ExampleRecords) /\ Loads(t) /\ (\A e \in Range(t) : ~e.holdout) /\ ~Raises(t) /\ Ready(t)
             /\ m \in Seq(ExampleRecords) /\ FinalFrom(m, t)
<1> DEFINE c == Clustered(rows)
           t == Retained(c)
           m == Final(rows)
<1>1. c \in Seq(ExampleRecords)
  BY ClusteredReads
<1>2. Loads(c) /\ \A e \in Range(c) : ~e.holdout
  BY ClusteredLoads
<1>3. ~Raises(t) /\ Ready(t) /\ m = Marked(t)
  BY DEF Good, Final
<1> HIDE DEF c, m
<1>4. t \in Seq(ExampleRecords) /\ Loads(t)
  BY <1>1, <1>2, RetainedReads, RetainedLoads
<1>5. \A e \in Range(t) : ~e.holdout
  BY <1>1, <1>2, RetainedReads
<1> HIDE DEF t
<1>6. m \in Seq(ExampleRecords) /\ FinalFrom(m, t)
  <2> DEFINE p == Marked(t)
  <2>1. /\ p \in Seq(ExampleRecords) /\ Len(p) = Len(t)
        /\ \A i \in 1..Len(t) : Resembles(p[i], t[i]) /\ p[i].fixed = SplitFor(t, t[i]) /\ p[i].fixed \in Splits
    BY <1>3, <1>4, <1>5, MarkedReads
  <2> QED
    BY <1>3, <2>1, Zenon DEF FinalFrom
<1> QED
  BY <1>3, <1>4, <1>5, <1>6 DEF c, t, m

(* The rows that are written load, are ready and do not raise: a component *)
(* of the marked rows is one of the retained rows, so that it is marked    *)
(* with one split and comes from one upstream split.                       *)
LEMMA FinalIsUsable ==
  ASSUME NEW rows \in [Ids -> Rows], Good(rows)
  PROVE  LET m == Final(rows)
         IN  /\ m \in Seq(ExampleRecords) /\ Loads(m) /\ Ready(m) /\ ~Raises(m)
             /\ \A e \in Range(m) : e.fixed \in Splits
<1> DEFINE c == Clustered(rows)
           t == Retained(c)
           m == Final(rows)
           n == Len(t)
           E == Range(c)
           T == Range(t)
           M == Range(m)
<1>1. /\ t \in Seq(ExampleRecords) /\ Loads(t) /\ (\A e \in T : ~e.holdout) /\ ~Raises(t) /\ Ready(t)
      /\ m \in Seq(ExampleRecords) /\ FinalFrom(m, t)
  BY FinalReads
<1>2. /\ T \in SUBSET E /\ Whole(T, E)
      /\ \A e \in T, d \in E : Linked(E, d, e) => d \in T /\ d.upstream = e.upstream /\ d.fixed = e.fixed
  <2>1. c \in Seq(ExampleRecords)
    BY ClusteredReads
  <2> HIDE DEF c
  <2> QED
    BY <2>1, RetainedIsWhole
<1>3. T = {t[i] : i \in 1..n} /\ M = {m[i] : i \in 1..n}
  BY <1>1 DEF Range, FinalFrom
<1>4. IsFiniteSet(M)
  BY <1>1, RangeIsFinite
<1>5. SourceComponents(m) = {LinkedTo(M, e) : e \in M}
  BY <1>1, ComponentsAreLinked
<1> HIDE DEF c, t, m, n, E, T, M
<1>6. Len(m) = n /\ \A i \in 1..n : Resembles(m[i], t[i]) /\ m[i].fixed = SplitFor(t, t[i]) /\ m[i].fixed \in Splits
  BY <1>1 DEF FinalFrom, n
<1>7. Loads(m)
  BY <1>1, <1>6 DEF Loads, Resembles, n
<1>8. Ready(m)
  <2>1. \A p : (\E e \in T : e.primitive = p) => \E e \in M : e.primitive = p
    BY <1>3, <1>6 DEF Resembles
  <2>2. Len(t) = Len(m)
    BY <1>6 DEF n
  <2> QED
    BY <1>1, <2>1, <2>2 DEF Ready, T, M
<1>9. ASSUME NEW i \in 1..n, NEW j \in 1..n, Linked(M, m[i], m[j])
      PROVE  /\ m[i].fixed = m[j].fixed /\ m[i].upstream = m[j].upstream
             /\ m[i].holdout = m[j].holdout /\ ~m[j].holdout
  <2>1. Linked(T, t[i], t[j])
    <3>1. Len(m) = Len(t) /\ \A k \in 1..Len(t) : m[k].source = t[k].source /\ m[k].cluster = t[k].cluster
      BY <1>6 DEF Resembles, n
    <3>2. \A k, l \in 1..Len(t) : m[k] = m[l] => k = l
      BY <1>6, <1>7 DEF Loads, n
    <3>3. i \in 1..Len(t) /\ j \in 1..Len(t) /\ Linked(Range(m), m[i], m[j])
      BY <1>9 DEF n, M
    <3> QED
      BY <1>1, <3>1, <3>2, <3>3, ShapeLinks DEF T
  <2>2. t[i] \in T /\ t[j] \in T
    BY <1>3
  <2>3. t[i].upstream = t[j].upstream
    <3>1. Linked(E, t[i], t[j])
      BY <1>2, <2>1, <2>2, WholeStays
    <3> QED
      BY <1>2, <2>2, <3>1
  <2>4. SplitFor(t, t[i]) = SplitFor(t, t[j])
    <3>1. LinkedTo(T, t[i]) = LinkedTo(T, t[j])
      BY <2>1, LinkedIsEquivalence
    <3> QED
      BY <3>1 DEF SplitFor, T
  <2>5. t[i].holdout = t[j].holdout /\ ~t[j].holdout
    <3>1. t[i].holdout \in BOOLEAN /\ t[j].holdout \in BOOLEAN
      <4>1. t[i] \in ExampleRecords /\ t[j] \in ExampleRecords
        BY <1>1 DEF n
      <4> QED
        BY <4>1 DEF ExampleRecords
    <3> QED
      BY <1>1, <2>2, <3>1
  <2> QED
    BY <1>6, <2>3, <2>4, <2>5 DEF Resembles
<1>10. ~Raises(m)
  <2> SUFFICES ASSUME NEW C \in SourceComponents(m)
               PROVE  ~Conflicting(C)
    BY DEF Raises
  <2>1. PICK e \in M : C = LinkedTo(M, e)
    BY <1>5
  <2>2. e \in C /\ C \in SUBSET M /\ \A d \in C : Linked(M, d, e)
    BY <2>1, LinkedIsEquivalence DEF LinkedTo
  <2>3. IsFiniteSet(C)
    BY <1>4, <2>2, FS_Subset
  <2>4. \A d \in C : d.fixed = e.fixed /\ d.upstream = e.upstream /\ d.holdout = e.holdout /\ ~e.holdout
    BY <1>3, <1>9, <2>1, <2>2
  <2>5. ~e.holdout
    BY <2>2, <2>4
  <2> QED
    BY <2>2, <2>3, <2>4, <2>5, UniformIsFree
<1>11. \A e \in M : e.fixed \in Splits
  BY <1>3, <1>6
<1> QED
  BY <1>1, <1>7, <1>8, <1>10, <1>11 DEF m, M

(* Related rows that are written have one split; it is the upstream one,   *)
(* where a related row comes from dev or test.                             *)
LEMMA FinalKeepsApart ==
  ASSUME input \in [Ids -> Rows], NEW e \in FinalRows(input)
  PROVE  /\ e.id \in Ids /\ e.fixed \in Splits
         /\ \A d \in FinalRows(input) : <<e.id, d.id>> \in RelatedRows => e.fixed = d.fixed
         /\ \A j \in Ids : <<e.id, j>> \in RelatedRows /\ input[j].upstream # "train" =>
              e.fixed = IF input[j].upstream = "test" THEN "locked_test" ELSE "development"
<1> DEFINE c == Clustered(input)
           t == Retained(c)
           m == Final(input)
           n == Len(t)
           E == Range(c)
           T == Range(t)
           M == Range(m)
<1>0. Good(input) /\ FinalRows(input) = M
  BY DEF FinalRows
<1>1. /\ t \in Seq(ExampleRecords) /\ Loads(t) /\ (\A x \in T : ~x.holdout) /\ ~Raises(t)
      /\ m \in Seq(ExampleRecords) /\ FinalFrom(m, t)
  BY <1>0, FinalReads
<1>2. /\ c \in Seq(ExampleRecords) /\ E = {c[i] : i \in Ids}
      /\ \A i \in Ids : c[i].id = i /\ c[i].upstream = input[i].upstream /\ c[i].fixed = Fixed(input[i].upstream)
  BY ClusteredReads
<1>3. /\ T \in SUBSET E /\ Whole(T, E)
      /\ \A x \in T, d \in E : Linked(E, d, x) => d \in T /\ d.upstream = x.upstream /\ d.fixed = x.fixed
  <2>1. c \in Seq(ExampleRecords)
    BY <1>2
  <2> HIDE DEF c
  <2> QED
    BY <2>1, RetainedIsWhole
<1>4. T = {t[i] : i \in 1..n} /\ M = {m[i] : i \in 1..n}
  BY <1>1 DEF Range, FinalFrom
<1>5. \A i, j \in Ids : <<i, j>> \in RelatedRows <=> Linked(E, c[i], c[j])
  BY RelatedAreLinked
<1> HIDE DEF c, t, m, n, E, T, M
<1>6. \A i \in 1..n : Resembles(m[i], t[i]) /\ m[i].fixed = SplitFor(t, t[i]) /\ m[i].fixed \in Splits
  BY <1>1 DEF FinalFrom, n
<1>7. ASSUME NEW d \in M
      PROVE  d.id \in Ids /\ c[d.id] \in T /\ d.fixed = SplitFor(t, c[d.id]) /\ d.fixed \in Splits
  <2>1. PICK i \in 1..n : d = m[i]
    BY <1>4
  <2>2. PICK j \in Ids : t[i] = c[j]
    <3>1. t[i] \in E
      BY <1>3, <1>4
    <3> QED
      BY <1>2, <3>1
  <2>3. d.id = j
    BY <1>2, <1>6, <2>1, <2>2 DEF Resembles
  <2> QED
    BY <1>4, <1>6, <2>1, <2>2, <2>3
<1>8. e \in M
  BY <1>0
<1>9. ASSUME NEW d \in M, <<e.id, d.id>> \in RelatedRows
      PROVE  e.fixed = d.fixed
  <2>1. /\ e.id \in Ids /\ c[e.id] \in T /\ e.fixed = SplitFor(t, c[e.id])
        /\ d.id \in Ids /\ c[d.id] \in T /\ d.fixed = SplitFor(t, c[d.id])
    BY <1>7, <1>8
  <2>2. Linked(E, c[e.id], c[d.id])
    BY <1>5, <1>9, <2>1
  <2>3. Linked(T, c[e.id], c[d.id])
    BY <1>3, <2>1, <2>2, WholeStays
  <2>4. LinkedTo(T, c[e.id]) = LinkedTo(T, c[d.id])
    BY <2>3, LinkedIsEquivalence
  <2> QED
    BY <2>1, <2>4 DEF SplitFor, T
<1>10. ASSUME NEW j \in Ids, <<e.id, j>> \in RelatedRows, input[j].upstream # "train"
       PROVE  e.fixed = IF input[j].upstream = "test" THEN "locked_test" ELSE "development"
  <2> DEFINE x == c[e.id]
  <2>1. e.id \in Ids /\ x \in T /\ e.fixed = SplitFor(t, x)
    BY <1>7, <1>8
  <2>2. Linked(E, x, c[j])
    BY <1>5, <1>10, <2>1
  <2>3. c[j] \in E /\ Linked(E, c[j], x)
    BY <1>2, <2>2, LinkedIsEquivalence
  <2> HIDE DEF x
  <2>4. x.fixed = Fixed(input[j].upstream)
    BY <1>2, <1>3, <2>1, <2>3
  <2>5. input[j].upstream \in {"train", "dev", "test"}
    BY DEF Rows
  <2>6. x.fixed = IF input[j].upstream = "test" THEN "locked_test" ELSE "development"
    BY <1>10, <2>4, <2>5 DEF Fixed
  <2>7. x.fixed # None
    BY <2>6, SplitsAssumption DEF Splits
  <2>8. SplitOf(LinkedTo(Range(t), x), BuildSeed) = x.fixed
    BY <1>1, <2>1, <2>7, SplitReads DEF T
  <2> QED
    BY <2>1, <2>6, <2>8 DEF SplitFor
<1> QED
  BY <1>0, <1>7, <1>8, <1>9, <1>10

-----------------------------------------------------------------------------
(* The invariant.                                                          *)

(* The split each row of the suite is marked with.                         *)
Marks == {<<e.id, e.fixed>> : e \in FinalRows(input)}

(* Every pinned file is whole or still to be verified.                     *)
Fetching ==
  /\ input \in Inputs
  /\ cache \in [Range(Pinned) -> {"missing", "cut", "whole"}]
  /\ pc \in {"idle", "fetching", "storing", "importing", "splitting", "opening",
             "writing", "describing", "reporting", "done"}
  /\ todo \in Seq(Range(Pinned))
  /\ builds \in 0..MaxBuilds /\ mishaps \in 0..MaxMishaps
  /\ pc = "storing" => todo # <<>>
  /\ pc \in {"fetching", "storing"} => \A f \in Range(Pinned) : cache[f] = "whole" \/ f \in Range(todo)
  /\ pc \notin {"idle", "fetching", "storing"} => \A f \in Range(Pinned) : cache[f] = "whole"

(* The locals of a build are what it computes from the pinned files, and   *)
(* what it writes has gone through the gates.                              *)
Building ==
  /\ clustered \in {<<>>, Clustered(input)}
  /\ retained \in {<<>>, Retained(Clustered(input))}
  /\ pc = "splitting" => clustered = Clustered(input) /\ retained = Retained(Clustered(input))
  /\ examples = <<>> \/ (Good(input) /\ examples = Final(input))
  /\ pc \in {"opening", "writing", "describing", "reporting", "done"} => Good(input) /\ examples = Final(input)

(* The suite, however much of it there is, holds rows of the one build     *)
(* there can be, and what is used of them is what they are marked for.     *)
Written ==
  /\ suite \in Files(FinalRows(input))
  /\ pc \in {"describing", "reporting", "done"} => suite = [rows |-> examples, end |-> "closed"]
  /\ manifest \in {Nothing} \cup SUBSET Marks /\ report \in {Nothing} \cup SUBSET Marks
  /\ pc \in {"reporting", "done"} => manifest = Assigned(examples, BuildSeed)
  /\ pc = "done" => report = manifest
  /\ uses \subseteq Marks

SuiteInv == Fetching /\ Building /\ Written

(* The pinned files hold rows.                                             *)
LEMMA InputIsRows ==
  ASSUME Fetching
  PROVE  input \in [Ids -> Rows]
BY PublicAssumption DEF Fetching

(* The rows of a suite are examples, and each has a split.                 *)
LEMMA FinalRowsRead ==
  ASSUME input \in [Ids -> Rows]
  PROVE  /\ \A e \in FinalRows(input) : e \in ExampleRecords /\ e.fixed \in Splits /\ e.fixed # None
         /\ Marks \in SUBSET (Ids \X Splits)
<1>1. ASSUME NEW e \in FinalRows(input)
      PROVE  e \in ExampleRecords /\ e.fixed \in Splits /\ e.fixed # None
  <2>1. Good(input) /\ e \in Range(Final(input))
    BY DEF FinalRows
  <2>2. Final(input) \in Seq(ExampleRecords) /\ \A d \in Range(Final(input)) : d.fixed \in Splits
    BY <2>1, FinalIsUsable
  <2>3. \A d \in Range(Final(input)) : d \in ExampleRecords
    BY <2>2 DEF Range
  <2> QED
    BY <2>1, <2>2, <2>3, SplitsAssumption
<1>2. \A e \in FinalRows(input) : e.id \in Ids
  BY <1>1 DEF ExampleRecords
<1> QED
  BY <1>1, <1>2 DEF Marks

(* Whatever part of the suite is read, and whatever the seed.              *)
LEMMA ReadRows ==
  ASSUME input \in [Ids -> Rows], NEW s \in Seq(FinalRows(input)), ~Raises(s), NEW seed
  PROVE  Assigned(s, seed) = {<<e.id, e.fixed>> : e \in Range(s)} /\ Assigned(s, seed) \in SUBSET Marks
<1>1. \A e \in Range(s) : e \in FinalRows(input)
  BY DEF Range
<1>2. \A e \in Range(s) : e.fixed # None
  BY <1>1, FinalRowsRead
<1>3. Assigned(s, seed) = {<<e.id, e.fixed>> : e \in Range(s)}
  BY <1>2, FixedAreAssigned
<1> QED
  BY <1>1, <1>3 DEF Marks

(* The rows a build is about to write.                                     *)
LEMMA ExamplesRead ==
  ASSUME input \in [Ids -> Rows], Good(input), examples = Final(input)
  PROVE  /\ examples \in Seq(FinalRows(input)) /\ examples \in Seq(ExampleRecords)
         /\ Loads(examples) /\ Ready(examples) /\ ~Raises(examples)
         /\ \A seed : Assigned(examples, seed) = Marks
<1>1. /\ examples \in Seq(ExampleRecords) /\ Loads(examples) /\ Ready(examples) /\ ~Raises(examples)
      /\ \A e \in Range(examples) : e.fixed \in Splits
  <2> DEFINE m == Final(input)
  <2>1. /\ m \in Seq(ExampleRecords) /\ Loads(m) /\ Ready(m) /\ ~Raises(m)
        /\ \A e \in Range(m) : e.fixed \in Splits
    BY FinalIsUsable
  <2> HIDE DEF m
  <2>2. examples = m
    BY DEF m
  <2> QED
    BY <2>1, <2>2
<1>2. FinalRows(input) = Range(examples)
  BY DEF FinalRows
<1>3. examples \in Seq(FinalRows(input))
  <2>1. \A i \in 1..Len(examples) : examples[i] \in FinalRows(input)
    BY <1>1, <1>2 DEF Range
  <2> QED
    BY <1>1, <2>1
<1>4. ASSUME NEW seed
      PROVE  Assigned(examples, seed) = Marks
  BY <1>1, <1>2, <1>3, ReadRows DEF Marks
<1> QED
  BY <1>1, <1>3, <1>4

(* Before the first build.                                                 *)
LEMMA InitSuite ==
  ASSUME Init
  PROVE  SuiteInv
<1>1. Fetching
  BY PublicAssumption DEF Init, Fetching
<1>2. Building
  BY DEF Init, Building
<1>3. Written
  <2>1. EmptyFile \in Files(FinalRows(input))
    <3>1. <<>> \in Seq(FinalRows(input))
      OBVIOUS
    <3> QED
      BY <3>1, RewrittenReads
  <2> QED
    BY <2>1 DEF Init, Written
<1> QED
  BY <1>1, <1>2, <1>3 DEF SuiteInv

(* A file leaves the list only when it is whole.                           *)
LEMMA FetchingStays ==
  ASSUME Fetching, [Next]_vars
  PROVE  Fetching'
<1> USE DEF Fetching
<1>1. CASE UNCHANGED vars
  BY <1>1 DEF vars
<1>2. CASE Begin
  <2>1. Pinned \in Seq(Range(Pinned)) /\ builds' \in 0..MaxBuilds
    BY <1>2, PublicAssumption DEF Begin
  <2> QED
    BY <1>2, <2>1 DEF Begin
<1>3. CASE Download
  <2>1. Head(todo) \in Range(Pinned) /\ Head(todo) \in Range(todo)
    BY <1>3 DEF Download, Range
  <2>2. cache' \in [Range(Pinned) -> {"missing", "cut", "whole"}]
    BY <1>3, <2>1 DEF Download
  <2>3. \A f \in Range(Pinned) : cache'[f] = "whole" \/ f \in Range(todo)
    BY <1>3, <2>1 DEF Download
  <2> QED
    BY <1>3, <2>2, <2>3 DEF Download
<1>4. CASE Store
  <2>1. Head(todo) \in Range(Pinned)
    BY <1>4 DEF Store, Range
  <2>2. cache' \in [Range(Pinned) -> {"missing", "cut", "whole"}]
    BY <1>4, <2>1 DEF Store
  <2>3. \A f \in Range(Pinned) : cache'[f] = "whole" \/ f \in Range(todo)
    BY <1>4, <2>1 DEF Store
  <2> QED
    BY <1>4, <2>2, <2>3 DEF Store
<1>5. CASE Verify
  <2>1. CASE cache[Head(todo)] = "whole"
    <3>1. /\ todo # <<>> /\ todo' = Tail(todo) /\ cache' = cache /\ pc = "fetching"
          /\ pc' = IF Tail(todo) = <<>> THEN "importing" ELSE "fetching"
      BY <1>5, <2>1 DEF Verify
    <3>2. Tail(todo) \in Seq(Range(Pinned))
      BY <3>1
    <3>3. \A f \in Range(todo) : f = Head(todo) \/ f \in Range(Tail(todo))
      <4> DEFINE t == Tail(todo)
      <4>1. /\ Head(todo) = todo[1] /\ Len(todo) \in Nat \ {0} /\ t \in Seq(Range(Pinned)) /\ Len(t) = Len(todo) - 1
            /\ \A i \in 1..(Len(todo) - 1) : t[i] = todo[i + 1]
        BY <3>1, RestReads
      <4> HIDE DEF t
      <4>2. ASSUME NEW f \in Range(todo), f # Head(todo)
            PROVE  f \in Range(t)
        <5>1. PICK i \in 1..Len(todo) : f = todo[i]
          BY DEF Range
        <5>2. i - 1 \in 1..Len(t) /\ t[i - 1] = f
          BY <4>1, <4>2, <5>1
        <5> QED
          BY <4>1, <5>2 DEF Range
      <4> QED
        BY <4>2 DEF t
    <3>4. \A f \in Range(Pinned) : cache'[f] = "whole" \/ f \in Range(todo')
      BY <2>1, <3>1, <3>3
    <3>5. todo' = <<>> => Range(todo') = {}
      BY DEF Range
    <3> QED
      BY <1>5, <3>1, <3>2, <3>4, <3>5 DEF Verify
  <2>2. CASE cache[Head(todo)] # "whole"
    BY <1>5, <2>2 DEF Verify
  <2> QED
    BY <2>1, <2>2
<1>6. CASE Import
  BY <1>6 DEF Import
<1>7. CASE Split
  BY <1>7 DEF Split
<1>8. CASE Open \/ Spill \/ Close \/ Describe \/ Report
  BY <1>8 DEF Open, Spill, Close, Describe, Report, locals
<1>9. CASE Die
  <2>1. mishaps' \in 0..MaxMishaps
    BY <1>9, PublicAssumption DEF Die
  <2> QED
    BY <1>9, <2>1 DEF Die
<1>10. ASSUME NEW f \in Range(Pinned), Discard(f)
       PROVE  Fetching'
  BY <1>10 DEF Discard
<1>11. ASSUME NEW seed \in Seeds, Evaluate(seed) \/ Train(seed)
       PROVE  Fetching'
  BY <1>11 DEF Evaluate, Train
<1> QED
  BY <1>1, <1>2, <1>3, <1>4, <1>5, <1>6, <1>7, <1>8, <1>9, <1>10, <1>11 DEF Next

(* The pinned files do not change.                                         *)
LEMMA InputStays ==
  ASSUME [Next]_vars
  PROVE  input' = input
BY DEF Next, vars, Begin, Download, Store, Verify, Import, Split, Open, Spill, Close, Describe, Report, Die,
       Discard, Evaluate, Train

(* The locals are computed from the pinned files, and only what passed the *)
(* gates is written.                                                       *)
LEMMA BuildingStays ==
  ASSUME Fetching, Building, [Next]_vars
  PROVE  Building'
<1>1. input' = input
  BY InputStays
<1>2. CASE Import
  <2>1. /\ clustered' = Clustered(input) /\ retained' = Retained(Clustered(input)) /\ examples' = examples
        /\ pc' = "splitting"
    BY <1>2 DEF Import
  <2> QED
    BY <1>1, <2>1 DEF Building
<1>3. CASE Split
  <2>1. retained = Retained(Clustered(input)) /\ clustered' = clustered /\ retained' = retained /\ pc = "splitting"
    BY <1>3 DEF Split, Building
  <2>2. CASE Raises(retained) \/ ~Ready(retained)
    <3>1. pc' = "idle" /\ examples' = examples
      BY <1>3, <2>2 DEF Split
    <3> QED
      BY <1>1, <2>1, <3>1 DEF Building
  <2>3. CASE ~(Raises(retained) \/ ~Ready(retained))
    <3>1. pc' = "opening" /\ examples' = Marked(retained)
      BY <1>3, <2>3 DEF Split
    <3>2. Good(input) /\ examples' = Final(input)
      BY <2>1, <2>3, <3>1 DEF Good, Final
    <3> QED
      BY <1>1, <2>1, <3>1, <3>2 DEF Building
  <2> QED
    BY <2>2, <2>3
<1>4. CASE Begin \/ Download \/ Store \/ Verify \/ Die \/ (\E f \in Range(Pinned) : Discard(f))
  <2>1. pc' \in {"fetching", "storing", "importing", "idle"} /\ UNCHANGED locals
    BY <1>4 DEF Begin, Download, Store, Verify, Die, Discard
  <2> QED
    BY <1>1, <2>1 DEF Building, locals
<1>5. CASE Open \/ Spill \/ Close \/ Describe \/ Report
  <2>1. /\ pc \in {"opening", "writing", "describing", "reporting", "done"}
        /\ pc' \in {"opening", "writing", "describing", "reporting", "done"} /\ UNCHANGED locals
    BY <1>5 DEF Open, Spill, Close, Describe, Report
  <2> QED
    BY <1>1, <2>1 DEF Building, locals
<1>6. CASE UNCHANGED vars \/ \E seed \in Seeds : Evaluate(seed) \/ Train(seed)
  <2>1. pc' = pc /\ UNCHANGED locals
    BY <1>6 DEF vars, Evaluate, Train
  <2> QED
    BY <1>1, <2>1 DEF Building, locals
<1> QED
  BY <1>2, <1>3, <1>4, <1>5, <1>6 DEF Next

(* The files, and the uses of what a consumer finds in them at any moment. *)
LEMMA WrittenStays ==
  ASSUME SuiteInv, [Next]_vars
  PROVE  Written'
<1>1. input' = input /\ Marks' = Marks
  <2>1. input' = input
    BY InputStays
  <2> QED
    BY <2>1 DEF Marks
<1>2. input \in [Ids -> Rows]
  BY InputIsRows DEF SuiteInv
<1> DEFINE Late == pc \in {"opening", "writing", "describing", "reporting", "done"}
<1>3. Late => /\ examples \in Seq(FinalRows(input))
              /\ \A seed : Assigned(examples, seed) = Marks
  BY <1>2, ExamplesRead DEF SuiteInv, Building
<1>4. Written
  BY DEF SuiteInv
<1>5. CASE Begin \/ Download \/ Store \/ Verify \/ Import \/ Split \/ (\E f \in Range(Pinned) : Discard(f))
  <2>1. pc' \notin {"describing", "reporting", "done"} /\ UNCHANGED <<files, uses>>
    BY <1>5 DEF Begin, Download, Store, Verify, Import, Split, Discard
  <2> QED
    BY <1>1, <1>4, <2>1 DEF Written, files
<1>6. CASE Open
  <2>1. pc' = "writing" /\ suite' = EmptyFile /\ manifest' = manifest /\ report' = report /\ uses' = uses /\ Late
    BY <1>6 DEF Open
  <2>2. EmptyFile \in Files(FinalRows(input))
    BY <1>3, <2>1, RewrittenReads
  <2> QED
    BY <1>1, <1>4, <2>1, <2>2 DEF Written
<1>7. CASE Spill
  <2>1. /\ pc' = "writing" /\ suite' \in Survivors(EmptyFile, examples) /\ Late
        /\ manifest' = manifest /\ report' = report /\ uses' = uses
    BY <1>7 DEF Spill
  <2>2. EmptyFile \in Files(FinalRows(input))
    BY <1>3, <2>1, RewrittenReads
  <2>3. suite' \in Files(FinalRows(input))
    BY <1>3, <2>1, <2>2, SurvivorsRead
  <2> QED
    BY <1>1, <1>4, <2>1, <2>3 DEF Written
<1>8. CASE Close
  <2>1. /\ pc' = "describing" /\ suite' = Flushed(EmptyFile, examples) /\ Late
        /\ manifest' = manifest /\ report' = report /\ uses' = uses /\ examples' = examples
    BY <1>8 DEF Close, locals
  <2>2. suite' = [rows |-> examples, end |-> "closed"]
    BY <1>3, <2>1, RewrittenReads
  <2>3. suite' \in Files(FinalRows(input))
    BY <1>3, <2>1, <2>2 DEF Files, Ends
  <2> QED
    BY <1>1, <1>4, <2>1, <2>2, <2>3 DEF Written
<1>9. CASE Describe
  <2>1. /\ pc = "describing" /\ pc' = "reporting" /\ manifest' = Assigned(examples, BuildSeed) /\ Late
        /\ suite' = suite /\ report' = report /\ uses' = uses /\ examples' = examples
    BY <1>9 DEF Describe, locals
  <2>2. manifest' = Marks
    BY <1>3, <2>1
  <2> QED
    BY <1>1, <1>4, <2>1, <2>2 DEF Written
<1>10. CASE Report
  <2>1. /\ pc = "reporting" /\ pc' = "done" /\ report' = manifest /\ manifest' = manifest
        /\ suite' = suite /\ uses' = uses /\ examples' = examples
    BY <1>10 DEF Report, locals
  <2> QED
    BY <1>1, <1>4, <2>1 DEF Written
<1>11. CASE Die
  <2>1. /\ pc' = "idle" /\ manifest' \in {manifest, Nothing} /\ report' \in {report, Nothing}
        /\ suite' = suite /\ uses' = uses
    BY <1>11 DEF Die
  <2> QED
    BY <1>1, <1>4, <2>1 DEF Written
<1>12. ASSUME NEW seed \in Seeds, Evaluate(seed) \/ Train(seed)
       PROVE  Written'
  <2>1. ~Raises(suite.rows) /\ UNCHANGED <<pc, locals, files>>
    BY <1>12 DEF Evaluate, Train
  <2>2. suite.rows \in Seq(FinalRows(input))
    BY <1>4, FileParts DEF Written
  <2>3. Assigned(suite.rows, seed) \in SUBSET Marks
    BY <1>2, <2>1, <2>2, ReadRows
  <2>4. uses' \subseteq uses \cup Assigned(suite.rows, seed)
    BY <1>12 DEF Evaluate, Train
  <2> QED
    BY <1>1, <1>4, <2>1, <2>3, <2>4 DEF Written, locals, files
<1>13. CASE UNCHANGED vars
  BY <1>1, <1>4, <1>13 DEF Written, vars, files, locals
<1> QED
  BY <1>5, <1>6, <1>7, <1>8, <1>9, <1>10, <1>11, <1>12, <1>13 DEF Next

(* The invariant.                                                          *)
LEMMA SuiteIsBuilt == Spec => []SuiteInv
<1>1. Init => SuiteInv
  BY InitSuite
<1>2. SuiteInv /\ [Next]_vars => SuiteInv'
  BY FetchingStays, BuildingStays, WrittenStays DEF SuiteInv
<1> QED
  BY <1>1, <1>2, PTL DEF Spec

-----------------------------------------------------------------------------
(* The type invariant; above all, no build imports a file that is missing  *)
(* or cut (public_data.py, lines 40-52).                                   *)
THEOREM SuiteIsTyped == Spec => []TypeOK
<1>1. SuiteInv => TypeOK
  <2> SUFFICES ASSUME SuiteInv
               PROVE  TypeOK
    OBVIOUS
  <2>1. input \in [Ids -> Rows]
    BY InputIsRows DEF SuiteInv
  <2> DEFINE c == Clustered(input)
             t == Retained(c)
  <2>2. c \in Seq(ExampleRecords) /\ t \in Seq(ExampleRecords)
    <3>1. c \in Seq(ExampleRecords)
      BY <2>1, ClusteredReads
    <3> HIDE DEF c
    <3> QED
      BY <3>1, RetainedReads
  <2> HIDE DEF c, t
  <2>3. clustered \in {<<>>, c} /\ retained \in {<<>>, t}
    BY DEF SuiteInv, Building, c, t
  <2>4. examples \in Seq(ExampleRecords)
    <3>1. examples = <<>> \/ (Good(input) /\ examples = Final(input))
      BY DEF SuiteInv, Building
    <3>2. CASE examples = <<>>
      BY <3>2
    <3>3. CASE Good(input) /\ examples = Final(input)
      BY <2>1, <3>3, ExamplesRead
    <3> QED
      BY <3>1, <3>2, <3>3
  <2>5. {clustered, retained, examples} \subseteq Seq(ExampleRecords)
    <3> DEFINE Q == Seq(ExampleRecords)
    <3>1. <<>> \in Q
      OBVIOUS
    <3> HIDE DEF Q
    <3>2. c \in Q /\ t \in Q /\ examples \in Q
      BY <2>2, <2>4 DEF Q
    <3>3. clustered \in Q /\ retained \in Q
      BY <2>3, <3>1, <3>2
    <3> QED
      BY <3>2, <3>3 DEF Q
  <2>6. Marks \in SUBSET (Ids \X Splits) /\ \A e \in FinalRows(input) : e \in ExampleRecords
    BY <2>1, FinalRowsRead
  <2>7. suite \in Files(ExampleRecords)
    <3>1. suite \in Files(FinalRows(input))
      BY DEF SuiteInv, Written
    <3>2. suite.rows \in Seq(ExampleRecords)
      <4>1. suite.rows \in Seq(FinalRows(input))
        BY <3>1, FileParts
      <4> QED
        BY <2>6, <4>1
    <3> QED
      BY <3>1, <3>2 DEF Files
  <2> QED
    BY <2>5, <2>6, <2>7 DEF SuiteInv, Fetching, Written, TypeOK
<1> QED
  BY <1>1, SuiteIsBuilt, PTL

(* cluster_duplicates finds exactly the duplicates there are, through the  *)
(* index of prefixes and whatever the order of merging, and the quarantine *)
(* drops a row exactly when it is related to one of another upstream split *)
(* (public_data.py, lines 238-299).                                        *)
THEOREM DuplicatesAreFound == Spec => []DuplicatesAreExact
<1>1. SuiteInv => DuplicatesAreExact
  <2> SUFFICES ASSUME SuiteInv
               PROVE  DuplicatesAreExact
    OBVIOUS
  <2>1. CASE pc = "splitting"
    <3>1. input \in [Ids -> Rows] /\ clustered = Clustered(input) /\ retained = Retained(clustered)
      BY <2>1, InputIsRows DEF SuiteInv, Building
    <3> QED
      BY <3>1, ClustersExact, QuarantineExact DEF DuplicatesAreExact
  <2>2. CASE pc # "splitting"
    BY <2>2 DEF DuplicatesAreExact, ClustersAreExact, QuarantineIsExact
  <2> QED
    BY <2>1, <2>2
<1> QED
  BY <1>1, SuiteIsBuilt, PTL

(* No related rows are used in two splits and nothing related to a held-   *)
(* out row is used elsewhere, for any rows, any seeds, and any part of a   *)
(* suite that a killed build has left (m1_dataset.py, lines 157-215).      *)
THEOREM SplitsAreKeptApart == Spec => []SplitsDoNotLeak
<1>1. SuiteInv => SplitsDoNotLeak
  <2> SUFFICES ASSUME SuiteInv
               PROVE  SplitsDoNotLeak
    OBVIOUS
  <2>1. input \in [Ids -> Rows]
    BY InputIsRows DEF SuiteInv
  <2>2. \A u \in uses : \E e \in FinalRows(input) : u = <<e.id, e.fixed>>
    BY DEF SuiteInv, Written, Marks
  <2>3. ASSUME NEW u \in uses, NEW v \in uses, <<u[1], v[1]>> \in RelatedRows
        PROVE  u[2] = v[2]
    <3>1. PICK e \in FinalRows(input) : u = <<e.id, e.fixed>>
      BY <2>2
    <3>2. PICK d \in FinalRows(input) : v = <<d.id, d.fixed>>
      BY <2>2
    <3>3. <<e.id, d.id>> \in RelatedRows
      BY <2>3, <3>1, <3>2
    <3> QED
      BY <2>1, <3>1, <3>2, <3>3, FinalKeepsApart
  <2>4. ASSUME NEW u \in uses, NEW j \in Ids, <<u[1], j>> \in RelatedRows, input[j].upstream # "train"
        PROVE  u[2] = IF input[j].upstream = "test" THEN "locked_test" ELSE "development"
    <3>1. PICK e \in FinalRows(input) : u = <<e.id, e.fixed>>
      BY <2>2
    <3>2. <<e.id, j>> \in RelatedRows
      BY <2>4, <3>1
    <3> QED
      BY <2>1, <2>4, <3>1, <3>2, FinalKeepsApart
  <2> QED
    BY <2>3, <2>4 DEF SplitsDoNotLeak, RelatedStayTogether, HeldOutStaysOut
<1> QED
  BY <1>1, SuiteIsBuilt, PTL

(* A completed build leaves a suite its consumers accept and split as the  *)
(* manifest and the report say, whatever their seed (public_data.py, lines *)
(* 323-394).                                                               *)
THEOREM SuiteIsUsable == Spec => []BuiltSuiteIsUsable
<1>1. SuiteInv => BuiltSuiteIsUsable
  <2> SUFFICES ASSUME SuiteInv, pc = "done"
               PROVE  /\ Loadable /\ Ready(suite.rows) /\ ~Raises(suite.rows)
                      /\ \A seed \in Seeds : Assigned(suite.rows, seed) = manifest
                      /\ report = manifest
    BY DEF BuiltSuiteIsUsable
  <2>1. input \in [Ids -> Rows] /\ Good(input) /\ examples = Final(input)
    BY InputIsRows DEF SuiteInv, Building
  <2>2. /\ Loads(examples) /\ Ready(examples) /\ ~Raises(examples)
        /\ \A seed : Assigned(examples, seed) = Marks
    BY <2>1, ExamplesRead
  <2>3. suite.rows = examples /\ suite.end = "closed"
    BY DEF SuiteInv, Written
  <2>4. manifest = Assigned(examples, BuildSeed) /\ report = manifest
    BY DEF SuiteInv, Written
  <2> QED
    BY <2>2, <2>3, <2>4 DEF Loadable
<1> QED
  BY <1>1, SuiteIsBuilt, PTL
================================================================================
