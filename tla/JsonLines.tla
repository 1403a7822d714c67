------------------------------- MODULE JsonLines -------------------------------
(***************************************************************************)
(* A JSON-lines file that one loop appends to and another reads back with  *)
(* try: json.loads(line) except: continue.  The calibration cache and the  *)
(* resumable predictions file are both of this kind.                       *)
(*                                                                         *)
(* A line that does not decode is skipped by every reader, so the file is  *)
(* the sequence of its decodable rows and the state of its end:            *)
(*   "closed"  the last line ends in a newline, or there is no line;       *)
(*   "whole"   the last line decodes but lacks its newline;                *)
(*   "cut"     the last line is undecodable and lacks its newline.         *)
(* Whatever is appended to an unclosed line is glued to it, and a glued    *)
(* line does not decode.                                                   *)
(***************************************************************************)
EXTENDS Naturals, Sequences

Ends == {"closed", "whole", "cut"}

Files(Row) == {f \in [rows : Seq(Row), end : Ends] :
                 f.end = "whole" => f.rows # <<>>}

EmptyFile == [rows |-> <<>>, end |-> "closed"]

(* One row is written, and what reaches the disk stops at "end".           *)
Write(f, row, end) ==
  IF f.end = "closed" /\ end # "cut"
  THEN [rows |-> Append(f.rows, row), end |-> end]
  ELSE [rows |-> IF f.end = "whole" THEN SubSeq(f.rows, 1, Len(f.rows) - 1)
                                    ELSE f.rows,
        end  |-> IF end = "closed" THEN "closed" ELSE "cut"]

(* The buffered rows are written out by flush() or close(): only the first *)
(* can be glued to what was there.                                         *)
Flushed(f, buffer) ==
  IF buffer = <<>> THEN f
  ELSE [rows |-> Write(f, Head(buffer), "closed").rows \o Tail(buffer),
        end  |-> "closed"]

(* What may be on the disk once the process died with rows in its buffer:  *)
(* none of them, or all (an exception closes the handle), or any prefix of *)
(* the text (a kill between two write calls, a full disk).                 *)
Survivors(f, buffer) ==
  {Flushed(f, SubSeq(buffer, 1, k)) : k \in 0..Len(buffer)}
    \cup {Write(Flushed(f, SubSeq(buffer, 1, k - 1)), buffer[k], end) :
            k \in 1..Len(buffer), end \in {"whole", "cut"}}

-----------------------------------------------------------------------------
(* A row is about a question q of an example ex.                           *)

ExamplesOf(rows) == {rows[i].ex : i \in 1..Len(rows)}

Distinct(rows) ==
  \A i, j \in 1..Len(rows) : rows[i].ex = rows[j].ex /\ rows[i].q = rows[j].q => i = j
================================================================================
