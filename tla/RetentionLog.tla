---------------------------- MODULE RetentionLog ----------------------------
(***************************************************************************)
(* What one tier of a schema promises: a log of rows, one per interval of  *)
(* width IntervalNs, that keeps exactly the last SlotCount intervals.      *)
(* A row holds one value per column; a column nobody wrote in the row's    *)
(* interval is NaN.  Rows arrive in time order.                            *)
(*                                                                         *)
(* This is the specification the ring buffer of module RingBuffer is       *)
(* shown to implement.                                                     *)
(***************************************************************************)
EXTENDS Integers

CONSTANTS SlotCount, IntervalNs, Columns, NaN, Timestamps, Rows

VARIABLE log   \* a set of [time, row] records

IntervalOf(t) == t \div IntervalNs

(* The row of the interval t falls in, all NaN when there is none yet.     *)
RowAt(t) ==
  [c \in Columns |->
     IF \E p \in log : IntervalOf(p.time) = IntervalOf(t)
       THEN (CHOOSE p \in log : IntervalOf(p.time) = IntervalOf(t)).row[c]
       ELSE NaN]

(* The intervals that a log whose newest interval is that of t still keeps.*)
Retained(t) == {p \in log : IntervalOf(p.time) > IntervalOf(t) - SlotCount}

Init == log = {}

(* Entries are written at t: they go into the row of t's interval, which   *)
(* takes t as its time, and the intervals out of retention are dropped.    *)
Append(entries, t) ==
  /\ \A p \in log : p.time <= t
  /\ log' = {p \in Retained(t) : IntervalOf(p.time) # IntervalOf(t)}
            \cup {[time |-> t,
                   row  |-> [c \in Columns |->
                               IF c \in DOMAIN entries THEN entries[c] ELSE RowAt(t)[c]]]}

Next == \E t \in Timestamps \ {0}, entries \in Rows : Append(entries, t)

Spec == Init /\ [][Next]_log
=============================================================================
