----------------------------- MODULE Subsequences -----------------------------
(***************************************************************************)
(* The list comprehensions [x for x in s if ...] of the code, defined by   *)
(* the positions they keep: what they return can be reasoned about for     *)
(* every s, which SelectSeq, a recursion, does not allow.                  *)
(***************************************************************************)
EXTENDS Integers, Sequences, FiniteSets

Rank(I, i) == Cardinality({j \in I : j <= i})

Nth(I, k) == CHOOSE i \in I : Rank(I, i) = k

Positions(s, T) == {i \in DOMAIN s : s[i] \in T}

(* The elements of s that are in T, in their order.                        *)
Where(s, T) == [k \in 1..Cardinality(Positions(s, T)) |-> s[Nth(Positions(s, T), k)]]
=============================================================================
