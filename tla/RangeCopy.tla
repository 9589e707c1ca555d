----------------------------- MODULE RangeCopy ------------------------------
(***************************************************************************)
(* What one replay promises, without generators, counters or brokers: the  *)
(* records of a half-open range [lo, hi) of a growing log are passed one   *)
(* at a time in order; each is dropped or copied to the output, at least   *)
(* once and at most Copies times in a row; the copy is complete only when  *)
(* no record of the range is left, and may be given up at any moment.      *)
(* ReplayEngine implements it, stream by stream.                           *)
(***************************************************************************)
EXTENDS Integers, Sequences

CONSTANT Copies   \* how often a record that is passed once may be copied

VARIABLES
  lo, hi,     \* the range, fixed
  records,    \* offsets of the log that hold a record
  cursor,     \* every record of the range below it has been passed
  out,        \* offsets copied, in order
  phase       \* "waiting", "copying", "complete" or "over"

vars == <<lo, hi, records, cursor, out, phase>>

Left == {r \in records : cursor <= r /\ r < hi}
First(r) == r \in Left /\ \A q \in Left : r <= q

\* The output after record r was dropped or copied.
After(r) == {out \o [i \in 1..n |-> r] : n \in 0..Copies}

Init ==
  /\ cursor = lo
  /\ out = << >>
  /\ phase = "waiting"

Start ==
  /\ phase = "waiting"
  /\ phase' = "copying"
  /\ UNCHANGED <<lo, hi, records, cursor, out>>

\* The first record left is copied or dropped; offsets without one are skipped.
Pass ==
  /\ phase = "copying" /\ phase' = phase
  /\ \E r \in records :
       /\ First(r)
       /\ cursor' = r + 1
       /\ out' \in After(r)
  /\ UNCHANGED <<lo, hi, records>>

\* The cursor moves over offsets that hold no record.
SkipHoles ==
  /\ phase = "copying" /\ phase' = phase
  /\ \E c \in {r \in records : r > cursor} :
       /\ \A q \in records : cursor <= q => c <= q
       /\ cursor' = c
  /\ UNCHANGED <<lo, hi, records, out>>

Complete ==
  /\ phase = "copying"
  /\ Left = {}
  /\ phase' = "complete"
  /\ UNCHANGED <<lo, hi, records, cursor, out>>

\* What has been passed no longer matters; what has been copied stays, and the
\* record at hand may just have been copied.
GiveUp ==
  /\ phase # "over"
  /\ phase' = "over"
  /\ cursor' = lo
  /\ \/ UNCHANGED out
     \/ phase = "copying" /\ \E r \in records : First(r) /\ out' \in After(r)
  /\ UNCHANGED <<lo, hi, records>>

\* The log grows at its end, above every range that is being copied.
Grow ==
  /\ records \subseteq records'
  /\ \A r \in records' \ records : phase \in {"copying", "complete"} => r >= hi
  /\ UNCHANGED <<lo, hi, cursor, out, phase>>

Next == Start \/ Pass \/ SkipHoles \/ Complete \/ GiveUp \/ Grow

Spec == Init /\ [][Next]_vars

=============================================================================
