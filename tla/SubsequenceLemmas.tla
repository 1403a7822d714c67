--------------------------- MODULE SubsequenceLemmas ---------------------------
(***************************************************************************)
(* What Where returns, for every sequence, and the principle of the least  *)
(* element, which stands in for induction.                                 *)
(***************************************************************************)
EXTENDS Subsequences, FiniteSetTheorems, SequenceTheorems, TLAPS

(* A set of natural numbers has a least element.                           *)
LEMMA LeastNatural ==
  ASSUME NEW S \in SUBSET Nat, S # {}
  PROVE  \E x \in S : \A y \in S : x <= y
<1>1. PICK x \in S : \A y \in S : <<y, x>> \notin OpToRel(<, Nat)
  BY NatLessThanWellFounded, WFMin, Zenon
<1>2. ASSUME NEW y \in S
      PROVE  x <= y
  <2>1. y \in Nat /\ x \in Nat
    OBVIOUS
  <2>2. ~(y < x)
    BY <1>1, <2>1 DEF OpToRel
  <2> QED
    BY <2>1, <2>2
<1> QED
  BY <1>2

(* A sequence is a function on its positions.                              *)
LEMMA SequenceElements ==
  ASSUME NEW S, NEW s \in Seq(S)
  PROVE  DOMAIN s = 1..Len(s) /\ Len(s) \in Nat /\ \A i \in 1..Len(s) : s[i] \in S
OBVIOUS

(* What a concatenation reads.                                             *)
LEMMA ConcatReads ==
  ASSUME NEW S, NEW s \in Seq(S), NEW t \in Seq(S)
  PROVE  /\ s \o t \in Seq(S)
         /\ Len(s) \in Nat /\ Len(t) \in Nat
         /\ Len(s \o t) = Len(s) + Len(t)
         /\ \A i \in 1..Len(s) : (s \o t)[i] = s[i]
         /\ \A i \in 1..Len(t) : (s \o t)[Len(s) + i] = t[i]
<1>1. Len(s) \in Nat /\ Len(t) \in Nat
  BY LenProperties
<1>2. ASSUME NEW i \in 1..Len(s)
      PROVE  (s \o t)[i] = s[i]
  BY <1>1, ConcatProperties
<1>3. ASSUME NEW i \in 1..Len(t)
      PROVE  (s \o t)[Len(s) + i] = t[i]
  <2>1. Len(s) + i \in 1..Len(s) + Len(t) /\ ~(Len(s) + i <= Len(s)) /\ Len(s) + i - Len(s) = i
    BY <1>1
  <2> QED
    BY <2>1, ConcatProperties
<1> QED
  BY <1>1, <1>2, <1>3, ConcatProperties

-----------------------------------------------------------------------------
(* Ranks in a set of positions.                                            *)

(* Ranks are natural numbers.                                              *)
LEMMA RankIsNatural ==
  ASSUME NEW n \in Nat, NEW I, \A l \in I : l \in 1..n, NEW i
  PROVE  IsFiniteSet({j \in I : j <= i}) /\ Rank(I, i) \in Nat
<1>1. {j \in I : j <= i} \in SUBSET (1..n)
  OBVIOUS
<1>2. IsFiniteSet(1..n)
  BY FS_Interval
<1>3. IsFiniteSet({j \in I : j <= i})
  BY <1>1, <1>2, FS_Subset
<1> QED
  BY <1>3, FS_CardinalityType DEF Rank

(* A later position has no smaller rank, and a kept one a greater rank.    *)
LEMMA RankGrows ==
  ASSUME NEW n \in Nat, NEW I, \A l \in I : l \in 1..n, NEW i \in Int, NEW j \in Int, i <= j
  PROVE  /\ Rank(I, i) <= Rank(I, j)
         /\ j \in I /\ i < j => Rank(I, i) < Rank(I, j)
<1> DEFINE upto(k) == {l \in I : l <= k}
<1>1. upto(i) \subseteq upto(j)
  OBVIOUS
<1>2. IsFiniteSet(upto(j))
  BY RankIsNatural
<1>3. Cardinality(upto(i)) <= Cardinality(upto(j)) /\ (Cardinality(upto(i)) = Cardinality(upto(j)) => upto(i) = upto(j))
  BY <1>1, <1>2, FS_Subset
<1>4. j \in I /\ i < j => j \in upto(j) /\ j \notin upto(i)
  OBVIOUS
<1>5. Rank(I, i) = Cardinality(upto(i)) /\ Rank(I, j) = Cardinality(upto(j)) /\ Rank(I, i) \in Nat /\ Rank(I, j) \in Nat
  BY RankIsNatural DEF Rank
<1> HIDE DEF upto
<1> QED
  BY <1>3, <1>4, <1>5

(* The rank counts the positions that are kept.                            *)
LEMMA RankSteps ==
  ASSUME NEW n \in Nat, NEW I, \A l \in I : l \in 1..n, NEW i \in Int
  PROVE  Rank(I, i) = Rank(I, i - 1) + (IF i \in I THEN 1 ELSE 0)
<1> DEFINE before == {l \in I : l <= i - 1}
<1>1. IsFiniteSet(before) /\ Rank(I, i - 1) = Cardinality(before) /\ Rank(I, i - 1) \in Nat
  BY RankIsNatural DEF Rank
<1>2. {l \in I : l <= i} = IF i \in I THEN before \cup {i} ELSE before
  OBVIOUS
<1>3. i \notin before
  OBVIOUS
<1>4. Cardinality(before \cup {i}) = Cardinality(before) + 1
  BY <1>1, <1>3, FS_AddElement
<1>5. Rank(I, i) = Cardinality(IF i \in I THEN before \cup {i} ELSE before)
  BY <1>2, Zenon DEF Rank
<1> HIDE DEF before
<1>6. CASE i \in I
  BY <1>1, <1>4, <1>5, <1>6
<1>7. CASE i \notin I
  BY <1>1, <1>5, <1>7
<1> QED
  BY <1>6, <1>7

(* The k-th position of I, and the rank of a position.                     *)
LEMMA NthHasRank ==
  ASSUME NEW n \in Nat, NEW I, \A l \in I : l \in 1..n, NEW k \in 1..Cardinality(I)
  PROVE  Nth(I, k) \in I /\ Rank(I, Nth(I, k)) = k
<1>1. Rank(I, n) = Cardinality(I) /\ Cardinality(I) \in Nat
  <2>1. {j \in I : j <= n} = I
    OBVIOUS
  <2> QED
    BY <2>1, RankIsNatural DEF Rank
<1>2. Rank(I, 0) = 0
  <2>1. {j \in I : j <= 0} = {}
    OBVIOUS
  <2> QED
    BY <2>1, FS_EmptySet DEF Rank
<1> DEFINE S == {j \in Nat : Rank(I, j) >= k}
<1>3. n \in S
  BY <1>1
<1>4. PICK x \in S : \A y \in S : x <= y
  BY <1>3, LeastNatural
<1>5. x # 0
  BY <1>2, <1>4
<1>6. x - 1 \in Nat /\ x - 1 \notin S
  BY <1>4, <1>5
<1>7. Rank(I, x - 1) < k /\ Rank(I, x) >= k /\ Rank(I, x) \in Nat /\ Rank(I, x - 1) \in Nat /\ k \in Nat
  <2>1. Rank(I, x) \in Nat /\ Rank(I, x - 1) \in Nat
    BY RankIsNatural
  <2>2. k \in Nat
    BY <1>1
  <2> QED
    BY <2>1, <2>2, <1>4, <1>6
<1>8. Rank(I, x) = Rank(I, x - 1) + (IF x \in I THEN 1 ELSE 0)
  BY <1>4, RankSteps
<1>9. x \in I /\ Rank(I, x) = k
  BY <1>7, <1>8
<1> QED
  BY <1>9 DEF Nth

(* A kept position is the one its rank says.                               *)
LEMMA RankOfKept ==
  ASSUME NEW n \in Nat, NEW I, \A l \in I : l \in 1..n, NEW i \in I
  PROVE  Rank(I, i) \in 1..Cardinality(I) /\ Nth(I, Rank(I, i)) = i
<1>1. Rank(I, n) = Cardinality(I)
  <2>1. {j \in I : j <= n} = I
    OBVIOUS
  <2> QED
    BY <2>1 DEF Rank
<1>2. Rank(I, i) \in 1..Cardinality(I)
  <2>1. Rank(I, i) = Rank(I, i - 1) + 1
    BY RankSteps
  <2>2. Rank(I, i) <= Rank(I, n)
    BY RankGrows
  <2>3. Rank(I, i) \in Nat /\ Rank(I, i - 1) \in Nat
    BY RankIsNatural
  <2> QED
    BY <1>1, <2>1, <2>2, <2>3
<1>3. Nth(I, Rank(I, i)) \in I /\ Rank(I, Nth(I, Rank(I, i))) = Rank(I, i)
  BY <1>2, NthHasRank
<1>4. \A j \in I : j # i => Rank(I, j) # Rank(I, i)
  <2> TAKE j \in I
  <2>1. i \in Int /\ j \in Int
    OBVIOUS
  <2>2. Rank(I, i) \in Nat /\ Rank(I, j) \in Nat
    BY RankIsNatural
  <2>3. j < i => Rank(I, j) < Rank(I, i)
    <3>1. j < i => j <= i
      BY <2>1
    <3> QED
      BY <2>1, <3>1, RankGrows
  <2>4. i < j => Rank(I, i) < Rank(I, j)
    <3>1. i < j => i <= j
      BY <2>1
    <3> QED
      BY <2>1, <3>1, RankGrows
  <2> QED
    BY <2>1, <2>2, <2>3, <2>4
<1> QED
  BY <1>2, <1>3, <1>4

-----------------------------------------------------------------------------
(* What Where returns.                                                     *)

(* Where(s, T) is s read at some positions, one after the other: all those *)
(* with an element of T.                                                   *)
LEMMA WhereReads ==
  ASSUME NEW S, NEW s \in Seq(S), NEW T
  PROVE  LET t == Where(s, T)
             at(k) == Nth(Positions(s, T), k)
         IN  /\ t \in Seq(S) /\ Len(t) = Cardinality(Positions(s, T))
             /\ \A k \in 1..Len(t) : at(k) \in 1..Len(s) /\ t[k] = s[at(k)] /\ t[k] \in T
             /\ \A k, l \in 1..Len(t) : k < l => at(k) < at(l)
             /\ \A i \in 1..Len(s) : s[i] \in T => \E k \in 1..Len(t) : at(k) = i
<1> DEFINE I == Positions(s, T)
           t == Where(s, T)
           n == Len(s)
<1>1. n \in Nat /\ \A i \in I : i \in 1..n /\ s[i] \in T /\ s[i] \in S
  BY SequenceElements DEF Positions
<1>2. \A i \in 1..n : s[i] \in T => i \in I
  BY SequenceElements DEF Positions
<1>3. Cardinality(I) \in Nat
  <2>1. I = {j \in I : j <= n}
    BY <1>1
  <2> HIDE DEF I
  <2> QED
    BY <1>1, <2>1, RankIsNatural DEF Rank
<1>4. t = [k \in 1..Cardinality(I) |-> s[Nth(I, k)]]
  BY DEF Where
<1> HIDE DEF I, t, n
<1>5. \A k \in 1..Cardinality(I) : Nth(I, k) \in I /\ Rank(I, Nth(I, k)) = k
  BY <1>1, NthHasRank
<1>6. t \in Seq(S) /\ Len(t) = Cardinality(I)
  BY <1>1, <1>3, <1>4, <1>5
<1>7. \A k \in 1..Cardinality(I) : Nth(I, k) \in 1..n /\ t[k] = s[Nth(I, k)] /\ t[k] \in T
  BY <1>1, <1>4, <1>5
<1>8. ASSUME NEW k \in 1..Cardinality(I), NEW l \in 1..Cardinality(I), k < l
      PROVE  Nth(I, k) < Nth(I, l)
  <2>1. Nth(I, k) \in Int /\ Nth(I, l) \in Int /\ k \in Int /\ l \in Int
    BY <1>1, <1>3, <1>5
  <2>2. Nth(I, l) <= Nth(I, k) => Rank(I, Nth(I, l)) <= Rank(I, Nth(I, k))
    BY <1>1, <2>1, RankGrows
  <2> QED
    BY <1>5, <1>8, <2>1, <2>2
<1>9. ASSUME NEW i \in 1..n, s[i] \in T
      PROVE  \E k \in 1..Cardinality(I) : Nth(I, k) = i
  BY <1>1, <1>2, <1>9, RankOfKept
<1> QED
  BY <1>6, <1>7, <1>8, <1>9 DEF I, t, n

(* The elements of Where(s, T) are those of s that are in T.               *)
LEMMA WhereElements ==
  ASSUME NEW S, NEW s \in Seq(S), NEW T
  PROVE  /\ Where(s, T) \in Seq(S \cap T)
         /\ \A k \in 1..Len(Where(s, T)) : Where(s, T)[k] \in T /\ \E i \in 1..Len(s) : Where(s, T)[k] = s[i]
         /\ \A i \in 1..Len(s) : s[i] \in T => \E k \in 1..Len(Where(s, T)) : Where(s, T)[k] = s[i]
<1> DEFINE t == Where(s, T)
           at(k) == Nth(Positions(s, T), k)
<1>1. /\ t \in Seq(S)
      /\ \A k \in 1..Len(t) : at(k) \in 1..Len(s) /\ t[k] = s[at(k)] /\ t[k] \in T
      /\ \A i \in 1..Len(s) : s[i] \in T => \E k \in 1..Len(t) : at(k) = i
  BY WhereReads
<1> HIDE DEF t, at
<1>2. t \in Seq(S \cap T)
  BY <1>1
<1>3. \A k \in 1..Len(t) : t[k] \in T /\ \E i \in 1..Len(s) : t[k] = s[i]
  BY <1>1
<1>4. ASSUME NEW i \in 1..Len(s), s[i] \in T
      PROVE  \E k \in 1..Len(t) : t[k] = s[i]
  <2>1. PICK k \in 1..Len(t) : at(k) = i
    BY <1>1, <1>4
  <2>2. t[k] = s[i]
    BY <1>1, <2>1
  <2> QED
    BY <2>2
<1> QED
  BY <1>2, <1>3, <1>4 DEF t

(* Nothing is left out of a sequence all of whose elements are in T.       *)
LEMMA WhereKeepsAll ==
  ASSUME NEW S, NEW s \in Seq(S), NEW T, \A i \in 1..Len(s) : s[i] \in T
  PROVE  Where(s, T) = s
<1> DEFINE n == Len(s)
           I == Positions(s, T)
<1>1. n \in Nat /\ DOMAIN s = 1..n
  OBVIOUS
<1>2. I = 1..n
  BY <1>1 DEF Positions
<1>3. Cardinality(I) = n
  BY <1>1, <1>2, FS_Interval
<1>4. ASSUME NEW i \in 1..n
      PROVE  Nth(I, i) = i
  <2>1. {j \in 1..n : j <= i} = 1..i
    OBVIOUS
  <2>2. Cardinality(1..i) = i
    BY FS_Interval
  <2>3. Rank(1..n, i) = i
    BY <2>1, <2>2, Zenon DEF Rank
  <2> HIDE DEF n
  <2>4. Nth(1..n, Rank(1..n, i)) = i
    BY <1>1, RankOfKept
  <2> QED
    BY <1>2, <2>3, <2>4, Zenon
<1>5. Where(s, T) = [k \in 1..n |-> s[k]]
  BY <1>3, <1>4 DEF Where
<1> QED
  BY <1>1, <1>5
=============================================================================
