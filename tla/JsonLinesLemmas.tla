---------------------------- MODULE JsonLinesLemmas ----------------------------
(***************************************************************************)
(* What is on the disk after rows were written to a JSON-lines file, in    *)
(* whole or cut off anywhere.                                              *)
(***************************************************************************)
EXTENDS JsonLines, SubsequenceLemmas

(* The rows t are the first m of s followed by consecutive rows of b, from *)
(* the one after the j-th; m is all of s but one row at most.              *)
Continues(t, s, m, b, j) ==
  /\ m \in 0..Len(s) /\ Len(s) <= m + 1
  /\ j \in Nat /\ m <= Len(t) /\ j + (Len(t) - m) <= Len(b)
  /\ \A i \in 1..m : t[i] = s[i]
  /\ \A i \in 1..(Len(t) - m) : t[m + i] = b[j + i]

(* The first k elements of a sequence.                                     *)
LEMMA FirstsRead ==
  ASSUME NEW S, NEW s \in Seq(S), NEW k \in 0..Len(s)
  PROVE  LET t == SubSeq(s, 1, k) IN t \in Seq(S) /\ Len(t) = k /\ \A i \in 1..k : t[i] = s[i]
OBVIOUS

(* The first element of a sequence, and the others.                        *)
LEMMA RestReads ==
  ASSUME NEW S, NEW s \in Seq(S), s # <<>>
  PROVE  /\ Head(s) = s[1] /\ Head(s) \in S
         /\ Len(s) \in Nat \ {0}
         /\ Tail(s) \in Seq(S) /\ Len(Tail(s)) = Len(s) - 1 /\ \A i \in 1..(Len(s) - 1) : Tail(s)[i] = s[i + 1]
OBVIOUS

(* A sequence with one element more.                                       *)
LEMMA AppendReads ==
  ASSUME NEW S, NEW s \in Seq(S), NEW x \in S
  PROVE  LET t == Append(s, x) IN
         /\ t \in Seq(S) /\ Len(s) \in Nat /\ Len(t) = Len(s) + 1 /\ t # <<>>
         /\ t[Len(s) + 1] = x /\ \A i \in 1..Len(s) : t[i] = s[i]
<1> DEFINE t == Append(s, x)
<1>1. /\ t \in Seq(S) /\ Len(s) \in Nat /\ Len(t) = Len(s) + 1
      /\ t[Len(s) + 1] = x /\ \A i \in 1..Len(s) : t[i] = s[i]
  OBVIOUS
<1> HIDE DEF t
<1>2. Len(t) # 0
  BY <1>1
<1>3. t # <<>>
  BY <1>1, <1>2
<1> QED
  BY <1>1, <1>3 DEF t

(* A file is its rows and the state of its last line.                      *)
LEMMA FileParts ==
  ASSUME NEW Row, NEW f \in Files(Row)
  PROVE  /\ f = [rows |-> f.rows, end |-> f.end]
         /\ f.rows \in Seq(Row) /\ f.end \in Ends /\ Len(f.rows) \in Nat
         /\ f.end = "whole" => Len(f.rows) >= 1
<1>1. f \in [rows : Seq(Row), end : Ends] /\ (f.end = "whole" => f.rows # <<>>)
  BY DEF Files
<1>2. f.rows \in Seq(Row)
  BY <1>1
<1>3. Len(f.rows) \in Nat /\ (f.rows # <<>> => Len(f.rows) >= 1)
  BY <1>2
<1> QED
  BY <1>1, <1>2, <1>3

(* The rows that stay when something is written to an unclosed line.       *)
Unglued(f) == IF f.end = "whole" THEN Len(f.rows) - 1 ELSE Len(f.rows)

(* A torn line costs one row at most.                                      *)
LEMMA UngluedIsMost ==
  ASSUME NEW Row, NEW f \in Files(Row)
  PROVE  Unglued(f) \in 0..Len(f.rows) /\ Len(f.rows) <= Unglued(f) + 1
BY FileParts DEF Unglued

(* A written row is the next, unless it is glued to the end or cut.        *)
LEMMA WriteReads ==
  ASSUME NEW Row, NEW f \in Files(Row), NEW row \in Row, NEW end \in Ends
  PROVE  LET g == Write(f, row, end) IN
         /\ g \in Files(Row) /\ (end = "closed" => g.end = "closed")
         /\ f.end = "closed" /\ end # "cut" => g.rows = Append(f.rows, row)
         /\ f.end = "closed" /\ end = "cut" => g.rows = f.rows
         /\ f.end # "closed" => g.rows = SubSeq(f.rows, 1, Unglued(f))
<1> DEFINE g == Write(f, row, end)
           n == Len(f.rows)
<1>1. f.rows \in Seq(Row) /\ f.end \in Ends /\ n \in Nat /\ (f.end = "whole" => n >= 1)
  BY FileParts
<1>2. CASE f.end = "closed" /\ end # "cut"
  <2>1. g = [rows |-> Append(f.rows, row), end |-> end]
    BY <1>2 DEF Write
  <2>2. Append(f.rows, row) \in Seq(Row) /\ Append(f.rows, row) # <<>>
    BY <1>1, AppendReads
  <2>3. g.rows = Append(f.rows, row) /\ g.end = end
    BY <2>1
  <2>4. g \in Files(Row)
    BY <2>1, <2>2, <2>3, <1>1 DEF Files
  <2> QED
    BY <1>2, <2>3, <2>4
<1>3. CASE f.end = "closed" /\ end = "cut"
  <2>1. g = [rows |-> f.rows, end |-> "cut"]
    BY <1>3 DEF Write
  <2> QED
    BY <1>1, <1>3, <2>1 DEF Files, Ends
<1>4. CASE f.end # "closed"
  <2> DEFINE m == Unglued(f)
             last == IF end = "closed" THEN "closed" ELSE "cut"
  <2>1. m \in 0..n /\ n <= m + 1
    BY UngluedIsMost
  <2>2. SubSeq(f.rows, 1, n) = f.rows
    BY <1>1
  <2>3. g = [rows |-> SubSeq(f.rows, 1, m), end |-> last]
    BY <1>4, <2>2 DEF Write, Unglued
  <2>4. SubSeq(f.rows, 1, m) \in Seq(Row)
    BY <1>1, <2>1
  <2> HIDE DEF m, g
  <2>5. g.rows = SubSeq(f.rows, 1, m) /\ g.end = last
    BY <2>3
  <2>6. g \in Files(Row)
    BY <2>3, <2>4, <2>5 DEF Files, Ends
  <2>7. g \in Files(Row) /\ (end = "closed" => g.end = "closed") /\ g.rows = SubSeq(f.rows, 1, m)
    BY <2>5, <2>6
  <2> QED
    BY <1>4, <2>7 DEF g, m
<1> QED
  BY <1>2, <1>3, <1>4

-----------------------------------------------------------------------------
(* Flushing.                                                               *)

(* What is flushed continues the file up to the end of the buffer, and     *)
(* exactly so if the last line was closed.                                 *)
LEMMA FlushedReads ==
  ASSUME NEW Row, NEW f \in Files(Row), NEW b \in Seq(Row)
  PROVE  LET g == Flushed(f, b) IN
         /\ g \in Files(Row)
         /\ \E m, j \in Nat : Continues(g.rows, f.rows, m, b, j) /\ j + (Len(g.rows) - m) = Len(b)
         /\ f.end = "closed" => g.rows = f.rows \o b
         /\ b # <<>> \/ f.end = "closed" => g.end = "closed"
<1> DEFINE g == Flushed(f, b)
           s == f.rows
<1>1. s \in Seq(Row) /\ f.end \in Ends /\ Len(s) \in Nat /\ Len(b) \in Nat
  BY FileParts
<1>2. CASE b = <<>>
  <2>1. g = f /\ Len(b) = 0
    BY <1>2 DEF Flushed
  <2>2. Continues(s, s, Len(s), b, 0)
    BY <1>1, <2>1 DEF Continues
  <2>3. 0 + (Len(s) - Len(s)) = Len(b)
    BY <1>1, <2>1
  <2>4. s \o b = s
    BY <1>1, <1>2
  <2> QED
    BY <1>1, <1>2, <2>1, <2>2, <2>3, <2>4
<1>3. CASE b # <<>>
  <2> DEFINE h == Write(f, Head(b), "closed")
             r == Tail(b)
  <2>1. /\ Head(b) = b[1] /\ Head(b) \in Row
        /\ Len(b) \in Nat \ {0}
        /\ r \in Seq(Row) /\ Len(r) = Len(b) - 1 /\ \A i \in 1..(Len(b) - 1) : r[i] = b[i + 1]
    BY <1>3, RestReads
  <2>2. /\ h \in Files(Row) /\ h.end = "closed"
        /\ f.end = "closed" => h.rows = Append(s, Head(b))
        /\ f.end # "closed" => h.rows = SubSeq(s, 1, Unglued(f))
    <3>1. "closed" \in Ends
      BY DEF Ends
    <3>2. /\ h \in Files(Row) /\ ("closed" = "closed" => h.end = "closed")
          /\ f.end = "closed" /\ "closed" # "cut" => h.rows = Append(f.rows, Head(b))
          /\ f.end # "closed" => h.rows = SubSeq(f.rows, 1, Unglued(f))
      BY <2>1, <3>1, WriteReads
    <3> QED
      BY <3>2
  <2>3. h.rows \in Seq(Row)
    BY <2>2, FileParts
  <2>4. g = [rows |-> h.rows \o r, end |-> "closed"]
    BY <1>3 DEF Flushed
  <2> DEFINE t == h.rows \o r
  <2> HIDE DEF h, r
  <2>5. /\ t \in Seq(Row) /\ Len(h.rows) \in Nat /\ Len(t) = Len(h.rows) + Len(r)
        /\ \A i \in 1..Len(h.rows) : t[i] = h.rows[i]
        /\ \A i \in 1..Len(r) : t[Len(h.rows) + i] = r[i]
    <3>1. r \in Seq(Row)
      BY <2>1
    <3> QED
      BY <2>3, <3>1, ConcatReads
  <2> HIDE DEF g
  <2>6. g = [rows |-> t, end |-> "closed"] /\ g.rows = t /\ g.end = "closed"
    <3>1. g = [rows |-> t, end |-> "closed"]
      BY <2>4
    <3> HIDE DEF t
    <3> QED
      BY <3>1
  <2> HIDE DEF t
  <2>7. g \in Files(Row)
    BY <2>5, <2>6 DEF Files, Ends
  <2>8. CASE f.end = "closed"
    <3>1. h.rows = Append(s, Head(b))
      BY <2>2, <2>8
    <3>2. Len(h.rows) = Len(s) + 1 /\ h.rows[Len(s) + 1] = Head(b) /\ \A i \in 1..Len(s) : h.rows[i] = s[i]
      BY <1>1, <2>1, <3>1
    <3>3. Len(t) = Len(s) + Len(b) /\ \A i \in 1..Len(s) : t[i] = s[i]
      BY <1>1, <2>1, <2>5, <3>2
    <3>4. ASSUME NEW i \in 1..Len(b)
          PROVE  t[Len(s) + i] = b[i]
      <4>1. CASE i = 1
        <5>1. Len(s) + 1 \in 1..Len(h.rows)
          BY <1>1, <3>2
        <5>2. t[Len(s) + 1] = h.rows[Len(s) + 1]
          BY <2>5, <5>1
        <5> QED
          BY <2>1, <3>2, <4>1, <5>2
      <4>2. CASE i # 1
        <5>1. i - 1 \in 1..Len(r) /\ Len(h.rows) + (i - 1) = Len(s) + i /\ (i - 1) + 1 = i
          BY <1>1, <2>1, <3>2, <4>2
        <5>2. t[Len(h.rows) + (i - 1)] = r[i - 1] /\ r[i - 1] = b[(i - 1) + 1]
          BY <2>1, <2>5, <5>1
        <5> QED
          BY <5>1, <5>2
      <4> QED
        BY <4>1, <4>2
    <3>5. Continues(t, s, Len(s), b, 0) /\ 0 + (Len(t) - Len(s)) = Len(b)
      BY <1>1, <3>3, <3>4 DEF Continues
    <3>6. t = s \o b
      <4> DEFINE u == s \o b
      <4>1. /\ u \in Seq(Row) /\ Len(u) = Len(s) + Len(b)
            /\ \A i \in 1..Len(s) : u[i] = s[i]
            /\ \A i \in 1..Len(b) : u[Len(s) + i] = b[i]
        BY <1>1, ConcatReads
      <4> HIDE DEF u
      <4>2. ASSUME NEW i \in 1..Len(t)
            PROVE  t[i] = u[i]
        <5>1. CASE i \in 1..Len(s)
          BY <3>3, <4>1, <5>1
        <5>2. CASE i \notin 1..Len(s)
          <6>1. i - Len(s) \in 1..Len(b) /\ Len(s) + (i - Len(s)) = i
            BY <1>1, <3>3, <5>2
          <6> QED
            BY <3>4, <4>1, <6>1
        <5> QED
          BY <5>1, <5>2
      <4>3. Len(t) = Len(u)
        BY <3>3, <4>1
      <4>4. t = u
        BY <2>5, <4>1, <4>2, <4>3, SeqEqual
      <4> QED
        BY <4>4 DEF u
    <3> QED
      <4>1. g.rows = s \o b
        BY <2>6, <3>6
      <4>2. \E m, j \in Nat : Continues(g.rows, s, m, b, j) /\ j + (Len(g.rows) - m) = Len(b)
        BY <1>1, <2>6, <3>5, Zenon
      <4> QED
        BY <2>6, <2>7, <2>8, <4>1, <4>2 DEF g
  <2>9. CASE f.end # "closed"
    <3> DEFINE m == Unglued(f)
    <3>1. m \in 0..Len(s) /\ Len(s) <= m + 1 /\ h.rows = SubSeq(s, 1, m)
      BY <2>2, <2>9, UngluedIsMost
    <3> HIDE DEF m
    <3>2. Len(h.rows) = m /\ \A i \in 1..m : h.rows[i] = s[i]
      BY <1>1, <3>1, FirstsRead
    <3>3. m \in Nat /\ Len(t) = m + (Len(b) - 1)
      BY <1>1, <2>1, <2>5, <3>2
    <3>4. \A i \in 1..(Len(t) - m) : t[m + i] = b[1 + i]
      BY <1>1, <2>1, <2>5, <3>2, <3>3
    <3>5. Continues(t, s, m, b, 1) /\ 1 + (Len(t) - m) = Len(b)
      BY <1>1, <2>1, <2>5, <3>1, <3>2, <3>3, <3>4 DEF Continues
    <3> QED
      <4>1. \E l, j \in Nat : Continues(g.rows, s, l, b, j) /\ j + (Len(g.rows) - l) = Len(b)
        <5>1. m \in Nat /\ 1 \in Nat
          BY <3>3
        <5> QED
          BY <2>6, <3>5, <5>1, Zenon
      <4> QED
        BY <2>6, <2>7, <2>9, <4>1 DEF g
  <2> QED
    BY <2>8, <2>9 DEF g
<1> QED
  BY <1>2, <1>3

(* What is rewritten from nothing is what was given to be written.         *)
LEMMA RewrittenReads ==
  ASSUME NEW Row, NEW b \in Seq(Row)
  PROVE  /\ EmptyFile \in Files(Row)
         /\ Flushed(EmptyFile, b) = [rows |-> b, end |-> "closed"]
<1>1. EmptyFile \in Files(Row) /\ EmptyFile.rows = <<>> /\ EmptyFile.end = "closed"
  BY DEF EmptyFile, Files, Ends
<1> DEFINE g == Flushed(EmptyFile, b)
<1>2. g \in Files(Row) /\ g.rows = EmptyFile.rows \o b /\ g.end = "closed"
  BY <1>1, FlushedReads
<1>3. g = [rows |-> g.rows, end |-> g.end]
  BY <1>2, FileParts
<1>4. <<>> \o b = b
  OBVIOUS
<1> QED
  BY <1>1, <1>2, <1>3, <1>4

(* The process may die with rows in its buffer: what is on the disk then   *)
(* continues the file by some of them.                                     *)
LEMMA SurvivorsRead ==
  ASSUME NEW Row, NEW f \in Files(Row), NEW b \in Seq(Row), NEW g \in Survivors(f, b)
  PROVE  g \in Files(Row) /\ \E m, j \in Nat : Continues(g.rows, f.rows, m, b, j)
<1> DEFINE s == f.rows
<1>1. s \in Seq(Row) /\ f.end \in Ends /\ Len(s) \in Nat /\ Len(b) \in Nat
  BY FileParts
<1>2. ASSUME NEW k \in 0..Len(b)
      PROVE  LET h == Flushed(f, SubSeq(b, 1, k)) IN
             /\ h \in Files(Row)
             /\ \E m, j \in Nat : Continues(h.rows, s, m, b, j) /\ j + (Len(h.rows) - m) = k
             /\ k # 0 => h.end = "closed"
             /\ k = 0 => h = f
  <2> DEFINE c == SubSeq(b, 1, k)
             h == Flushed(f, c)
  <2>1. c \in Seq(Row) /\ Len(c) = k /\ \A i \in 1..k : c[i] = b[i]
    BY FirstsRead
  <2>2. k # 0 => c # <<>>
    BY <2>1
  <2>3. k = 0 => c = <<>>
    BY <2>1
  <2> HIDE DEF c
  <2>4. /\ h \in Files(Row)
        /\ \E m, j \in Nat : Continues(h.rows, s, m, c, j) /\ j + (Len(h.rows) - m) = Len(c)
        /\ c # <<>> => h.end = "closed"
    BY <2>1, FlushedReads
  <2>5. k = 0 => h = f
    BY <2>3 DEF Flushed
  <2> HIDE DEF h
  <2>6. PICK m \in Nat, j \in Nat : Continues(h.rows, s, m, c, j) /\ j + (Len(h.rows) - m) = Len(c)
    BY <2>4
  <2>7. h.rows \in Seq(Row) /\ Len(h.rows) \in Nat
    BY <2>4, FileParts
  <2>8. Continues(h.rows, s, m, b, j)
    <3>1. \A i \in 1..(Len(h.rows) - m) : j + i \in 1..k
      BY <2>1, <2>6, <2>7 DEF Continues
    <3>2. j + (Len(h.rows) - m) <= Len(b)
      BY <1>1, <2>1, <2>6
    <3> QED
      BY <2>1, <2>6, <3>1, <3>2 DEF Continues
  <2> QED
    BY <2>1, <2>2, <2>4, <2>5, <2>6, <2>8 DEF h, c
<1>3. CASE \E k \in 0..Len(b) : g = Flushed(f, SubSeq(b, 1, k))
  BY <1>2, <1>3
<1>4. CASE \E k \in 1..Len(b), end \in {"whole", "cut"} : g = Write(Flushed(f, SubSeq(b, 1, k - 1)), b[k], end)
  <2>1. PICK k \in 1..Len(b), end \in {"whole", "cut"} : g = Write(Flushed(f, SubSeq(b, 1, k - 1)), b[k], end)
    BY <1>4
  <2> DEFINE h == Flushed(f, SubSeq(b, 1, k - 1))
  <2>2. k - 1 \in 0..Len(b) /\ b[k] \in Row /\ end \in Ends /\ k \in Nat
    BY <1>1, <2>1 DEF Ends
  <2>3. /\ h \in Files(Row)
        /\ \E m, j \in Nat : Continues(h.rows, s, m, b, j) /\ j + (Len(h.rows) - m) = k - 1
        /\ k - 1 # 0 => h.end = "closed"
        /\ k - 1 = 0 => h = f
    BY <1>2, <2>2
  <2>4. g = Write(h, b[k], end)
    BY <2>1
  <2> HIDE DEF h
  <2>5. /\ g \in Files(Row)
        /\ h.end = "closed" /\ end # "cut" => g.rows = Append(h.rows, b[k])
        /\ h.end = "closed" /\ end = "cut" => g.rows = h.rows
        /\ h.end # "closed" => g.rows = SubSeq(h.rows, 1, Unglued(h))
    <3> DEFINE w == Write(h, b[k], end)
    <3>1. /\ w \in Files(Row)
          /\ h.end = "closed" /\ end # "cut" => w.rows = Append(h.rows, b[k])
          /\ h.end = "closed" /\ end = "cut" => w.rows = h.rows
          /\ h.end # "closed" => w.rows = SubSeq(h.rows, 1, Unglued(h))
      <4>1. h \in Files(Row)
        BY <2>3
      <4> QED
        BY <2>2, <4>1, WriteReads
    <3> QED
      BY <2>4, <3>1, Zenon
  <2>6. PICK m \in Nat, j \in Nat : Continues(h.rows, s, m, b, j) /\ j + (Len(h.rows) - m) = k - 1
    BY <2>3
  <2>7. h.rows \in Seq(Row) /\ Len(h.rows) \in Nat
    BY <2>3, FileParts
  <2>8. CASE h.end = "closed" /\ end # "cut"
    <3> DEFINE t == Append(h.rows, b[k])
    <3>1. /\ g.rows = t /\ Len(t) = Len(h.rows) + 1 /\ t[Len(h.rows) + 1] = b[k]
          /\ \A i \in 1..Len(h.rows) : t[i] = h.rows[i]
      BY <2>2, <2>5, <2>7, <2>8
    <3> HIDE DEF t
    <3>2. m <= Len(h.rows) /\ m \in 0..Len(s) /\ Len(s) <= m + 1 /\ (\A i \in 1..m : h.rows[i] = s[i])
          /\ \A i \in 1..(Len(h.rows) - m) : h.rows[m + i] = b[j + i]
      BY <2>6 DEF Continues
    <3>3. \A i \in 1..m : t[i] = s[i]
      BY <2>7, <3>1, <3>2
    <3>4. ASSUME NEW i \in 1..(Len(t) - m)
          PROVE  t[m + i] = b[j + i]
      <4>1. CASE i \in 1..(Len(h.rows) - m)
        <5>1. m + i \in 1..Len(h.rows)
          BY <2>7, <3>2, <4>1
        <5> QED
          BY <3>1, <3>2, <4>1, <5>1
      <4>2. CASE i \notin 1..(Len(h.rows) - m)
        <5>1. m + i = Len(h.rows) + 1 /\ j + i = k
          <6>1. Len(t) - m = (Len(h.rows) - m) + 1 /\ Len(h.rows) - m \in Nat
            BY <2>7, <3>1, <3>2, <2>6
          <6>2. i = (Len(h.rows) - m) + 1
            BY <4>2, <6>1
          <6> QED
            BY <2>2, <2>6, <2>7, <6>2
        <5> QED
          BY <3>1, <5>1
      <4> QED
        BY <4>1, <4>2
    <3>5. m <= Len(t) /\ j + (Len(t) - m) <= Len(b)
      BY <1>1, <2>2, <2>6, <2>7, <3>1, <3>2
    <3>6. Continues(t, s, m, b, j)
      BY <3>2, <3>3, <3>4, <3>5 DEF Continues
    <3> QED
      BY <2>5, <3>1, <3>6
  <2>9. CASE h.end = "closed" /\ end = "cut"
    BY <2>5, <2>6, <2>9
  <2>10. CASE h.end # "closed"
    <3>1. h = f /\ k = 1
      BY <2>2, <2>3, <2>10
    <3> DEFINE l == Unglued(f)
    <3>2. l \in 0..Len(s) /\ Len(s) <= l + 1 /\ g.rows = SubSeq(s, 1, l)
      BY <2>5, <2>10, <3>1, UngluedIsMost
    <3> HIDE DEF l
    <3>3. Len(g.rows) = l /\ \A i \in 1..l : g.rows[i] = s[i]
      BY <1>1, <3>2, FirstsRead
    <3>4. l \in Nat /\ Continues(g.rows, s, l, b, 0)
      BY <1>1, <3>2, <3>3 DEF Continues
    <3> QED
      BY <2>5, <3>4
  <2> QED
    BY <2>8, <2>9, <2>10
<1> QED
  BY <1>3, <1>4 DEF Survivors

-----------------------------------------------------------------------------
(* The decisions of a continued file.                                      *)

(* A row of a continued file is the file's or the buffer's, and which.     *)
LEMMA ContinuesReads ==
  ASSUME NEW S, NEW s \in Seq(S), NEW b \in Seq(S), NEW t \in Seq(S),
         NEW m \in Nat, NEW j \in Nat, Continues(t, s, m, b, j), NEW i \in 1..Len(t)
  PROVE  /\ i <= m => i \in 1..Len(s) /\ t[i] = s[i]
         /\ i > m => j + (i - m) \in 1..Len(b) /\ t[i] = b[j + (i - m)]
<1>1. Len(t) \in Nat /\ Len(s) \in Nat /\ Len(b) \in Nat
  OBVIOUS
<1>2. m <= Len(s) /\ m <= Len(t) /\ j + (Len(t) - m) <= Len(b)
  BY DEF Continues
<1>3. ASSUME i <= m
      PROVE  i \in 1..Len(s) /\ t[i] = s[i]
  BY <1>1, <1>2, <1>3 DEF Continues
<1>4. ASSUME i > m
      PROVE  j + (i - m) \in 1..Len(b) /\ t[i] = b[j + (i - m)]
  <2>1. i - m \in 1..(Len(t) - m) /\ m + (i - m) = i
    BY <1>1, <1>2, <1>4
  <2>2. t[m + (i - m)] = b[j + (i - m)]
    BY <2>1 DEF Continues
  <2> QED
    BY <1>1, <1>2, <2>1, <2>2
<1> QED
  BY <1>3, <1>4

(* A file continued by rows it does not hold repeats nothing.              *)
LEMMA ContinuedIsDistinct ==
  ASSUME NEW S, NEW s \in Seq(S), NEW b \in Seq(S), NEW t \in Seq(S),
         NEW m \in Nat, NEW j \in Nat, Continues(t, s, m, b, j),
         Distinct(s), Distinct(b),
         \A k \in 1..Len(s), l \in 1..Len(b) : ~(s[k].ex = b[l].ex /\ s[k].q = b[l].q)
  PROVE  Distinct(t)
<1> SUFFICES ASSUME NEW k \in 1..Len(t), NEW l \in 1..Len(t), t[k].ex = t[l].ex, t[k].q = t[l].q
             PROVE  k = l
  BY DEF Distinct
<1>0. k \in Nat /\ l \in Nat
  OBVIOUS
<1>1. /\ k <= m => k \in 1..Len(s) /\ t[k] = s[k]
      /\ k > m => j + (k - m) \in 1..Len(b) /\ t[k] = b[j + (k - m)]
  BY ContinuesReads
<1>2. /\ l <= m => l \in 1..Len(s) /\ t[l] = s[l]
      /\ l > m => j + (l - m) \in 1..Len(b) /\ t[l] = b[j + (l - m)]
  BY ContinuesReads
<1>3. CASE k <= m /\ l <= m
  BY <1>1, <1>2, <1>3 DEF Distinct
<1>4. CASE k > m /\ l > m
  <2>1. j + (k - m) = j + (l - m)
    BY <1>1, <1>2, <1>4 DEF Distinct
  <2> QED
    BY <1>0, <2>1
<1>5. CASE k <= m /\ l > m
  BY <1>1, <1>2, <1>5
<1>6. CASE k > m /\ l <= m
  BY <1>1, <1>2, <1>6
<1> QED
  BY <1>0, <1>3, <1>4, <1>5, <1>6

(* The rows of a continued file are the file's or the buffer's.            *)
LEMMA ContinuedRows ==
  ASSUME NEW S, NEW s \in Seq(S), NEW b \in Seq(S), NEW t \in Seq(S),
         NEW m \in Nat, NEW j \in Nat, Continues(t, s, m, b, j)
  PROVE  \A i \in 1..Len(t) : (\E k \in 1..Len(s) : t[i] = s[k]) \/ (\E k \in 1..Len(b) : t[i] = b[k])
<1> TAKE i \in 1..Len(t)
<1>1. /\ i <= m => i \in 1..Len(s) /\ t[i] = s[i]
      /\ i > m => j + (i - m) \in 1..Len(b) /\ t[i] = b[j + (i - m)]
  BY ContinuesReads
<1>2. i <= m \/ i > m
  OBVIOUS
<1> QED
  BY <1>1, <1>2

(* The examples of a continued file are the file's or the buffer's.        *)
LEMMA ContinuedExamples ==
  ASSUME NEW S, NEW s \in Seq(S), NEW b \in Seq(S), NEW t \in Seq(S),
         NEW m \in Nat, NEW j \in Nat, Continues(t, s, m, b, j)
  PROVE  ExamplesOf(t) \subseteq ExamplesOf(s) \cup ExamplesOf(b)
<1> SUFFICES ASSUME NEW i \in 1..Len(t)
             PROVE  t[i].ex \in ExamplesOf(s) \cup ExamplesOf(b)
  BY DEF ExamplesOf
<1>1. /\ i <= m => i \in 1..Len(s) /\ t[i] = s[i]
      /\ i > m => j + (i - m) \in 1..Len(b) /\ t[i] = b[j + (i - m)]
  BY ContinuesReads
<1>2. i <= m \/ i > m
  OBVIOUS
<1> QED
  BY <1>1, <1>2 DEF ExamplesOf

(* A comprehension over rows repeats nothing that they do not repeat.      *)
LEMMA WhereIsDistinct ==
  ASSUME NEW S, NEW s \in Seq(S), Distinct(s), NEW T
  PROVE  Distinct(Where(s, T))
<1> DEFINE t == Where(s, T)
           at(k) == Nth(Positions(s, T), k)
<1>1. /\ t \in Seq(S)
      /\ \A k \in 1..Len(t) : at(k) \in 1..Len(s) /\ t[k] = s[at(k)]
      /\ \A k, l \in 1..Len(t) : k < l => at(k) < at(l)
  BY WhereReads
<1> HIDE DEF t, at
<1> SUFFICES ASSUME NEW k \in 1..Len(t), NEW l \in 1..Len(t), t[k].ex = t[l].ex, t[k].q = t[l].q
             PROVE  k = l
  BY DEF Distinct, t
<1>2. at(k) = at(l)
  BY <1>1 DEF Distinct
<1>3. at(k) \in Int /\ at(l) \in Int /\ k \in Int /\ l \in Int
  BY <1>1
<1>4. ~(at(k) < at(l)) /\ ~(at(l) < at(k))
  BY <1>2, <1>3
<1>5. ~(k < l) /\ ~(l < k)
  BY <1>1, <1>4
<1> QED
  BY <1>3, <1>5
=============================================================================
