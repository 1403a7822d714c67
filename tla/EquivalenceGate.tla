--------------------------- MODULE EquivalenceGate ---------------------------
(***************************************************************************)
(* equivalence.py: run_equivalence scores every regression request on the  *)
(* reference and on the optimized path and gates what it saw: for each     *)
(* request and over all decisions, and the memory both paths took.  A      *)
(* compared decision is whether the two paths choose alike, deviate within *)
(* the limit, dispose alike, and whether it is in the tie band.            *)
(***************************************************************************)
EXTENDS AdapterBundle

CONSTANTS
  Regression,         \* the questions of each request, in the order of the files
  Comparisons,        \* how a decision may compare
  Reserved,           \* what a measurement may say of the memory reserved
  MaximumReserved

ASSUME EquivalenceAssumption == Reserved \cup {MaximumReserved} \subseteq Nat

VARIABLES
  cuda, adapter,      \* the device, and whether an adapter was given
  compared,           \* the decisions of each request so far
  reference, optimized    \* the peaks of memory reserved so far

gate == <<cuda, adapter, compared, reference, optimized>>

GateInit == cuda = FALSE /\ adapter = FALSE /\ compared = <<>> /\ reference = 0 /\ optimized = 0

GateEnds == cuda' = FALSE /\ adapter' = FALSE /\ compared' = <<>> /\ reference' = 0 /\ optimized' = 0

(* load_regression_requests                                                *)
RegressionIsUsable == Regression # <<>> /\ \A i \in DOMAIN Regression : Cardinality(Regression[i]) >= 2

Backend(withAdapter) == IF withAdapter THEN DirectLoad ELSE Plain

BeginEquivalence ==
  /\ Begin("equivalence", "equivalence") /\ RegressionIsUsable
  /\ adapter' \in {a \in BOOLEAN : Backend(a).kind = "loaded"}
  /\ cuda' \in BOOLEAN
  /\ UNCHANGED <<disk, writes, mishaps, compared, reference, optimized>>

Bigger(a, b) == IF a > b THEN a ELSE b

CompareRequest ==
  /\ Goes("equivalence") /\ Len(compared) < Len(Regression)
  /\ \E rows \in [Regression[Len(compared) + 1] -> Comparisons] : compared' = Append(compared, rows)
  /\ \E r, o \in Reserved :
       /\ reference' = Bigger(reference, IF cuda THEN r ELSE 0)
       /\ optimized' = Bigger(optimized, IF cuda THEN o ELSE 0)
  /\ UNCHANGED <<cuda, adapter>>

LeakyEquivalenceFails == Ends("equivalence", <<>>) /\ UNCHANGED gate

(* The paths answer other questions or labels, the engine raises, memory   *)
(* runs out: nothing is written, and what an earlier run wrote stays.      *)
EquivalenceFails == Ends("equivalence", <<>>) /\ GateEnds

Seen(rows) == {rows[q] : q \in DOMAIN rows}

TieExemptSummary(seen) ==
  LET gated == {c \in seen : ~c.tie} IN
  [argmax |-> \A c \in gated : c.agrees, deviation |-> \A c \in gated : c.close,
   policy |-> \A c \in seen : ~c.flips]

(* The tie band is counted, and exempts nothing.                           *)
Summary(seen) ==
  [argmax |-> \A c \in seen : c.agrees, deviation |-> \A c \in seen : c.close,
   policy |-> \A c \in seen : ~c.flips]

Passed(summary) == \A g \in DOMAIN summary : summary[g]

MemoryFits == /\ cuda /\ 0 < reference /\ 0 < optimized
              /\ reference <= MaximumReserved /\ optimized <= MaximumReserved

Total(rows) == UNION {{<<i, q>> : q \in DOMAIN rows[i]} : i \in DOMAIN rows}

Everything == UNION {Seen(compared[i]) : i \in DOMAIN compared}

EquivalenceReport ==
  [kind |-> "equivalence", stamp |-> Stamp, decisions |-> Cardinality(Total(compared)),
   requests |-> [i \in DOMAIN compared |-> Summary(Seen(compared[i]))],
   summary |-> Summary(Everything), memory |-> MemoryFits,
   passed |-> Passed(Summary(Everything)) /\ MemoryFits]

EquivalenceRows == [kind |-> "rows", stamp |-> Stamp, rows |-> compared]

EndEquivalence ==
  /\ Len(compared) = Len(Regression)
  /\ Ends("equivalence", Overwritten("equivalence", EquivalenceReport)
                             \o Overwritten("rows", EquivalenceRows))
  /\ GateEnds

EquivalenceStep == BeginEquivalence \/ CompareRequest \/ EquivalenceFails \/ EndEquivalence
-----------------------------------------------------------------------------
(* The report passes just when the report of every single request passes   *)
(* and the memory does; and the rows beside it, if they are of its run,    *)
(* bear it out decision by decision, the near ties included.               *)
EquivalenceIsEarned ==
  Has("equivalence", "equivalence") =>
    LET report == disk["equivalence"]
        kept   == disk["rows"]
    IN  /\ report.passed = (report.memory /\ \A i \in DOMAIN report.requests : Passed(report.requests[i]))
        /\ Has("rows", "rows") /\ kept.stamp = report.stamp =>
             /\ report.decisions = Cardinality(Total(kept.rows))
             /\ report.passed => \A d \in Total(kept.rows) :
                  LET c == kept.rows[d[1]][d[2]] IN c.agrees /\ c.close /\ ~c.flips
=============================================================================
