------------------------------- MODULE RingOps -------------------------------
(***************************************************************************)
(* The slab file (rondo/src/slab.rs) and the ring buffer over it           *)
(* (rondo/src/ring.rs), as operators on a ring value.                      *)
(*                                                                         *)
(* A ring is a record of the slab's memory-mapped state (slot_count and    *)
(* interval_ns of the header, the write_cursor, the timestamp column and   *)
(* the value columns) and of has_wrapped, the one field that lives only in *)
(* the RingBuffer struct and is lost when the process ends.                *)
(*                                                                         *)
(* Timestamps are natural numbers and 0 is the code's own mark for "no     *)
(* timestamp": the content of a slot that was never written, and here also *)
(* the None of oldest_timestamp and newest_timestamp.  A slot holds one    *)
(* timestamp for ALL columns and one value per column; NaN is the value of *)
(* a cell that was never written.                                          *)
(***************************************************************************)
EXTENDS Integers, Sequences, FiniteSets

CONSTANT NaN      \* the f64 NaN sentinel

Slots(r) == 0 .. r.slot_count - 1

(* Every ring value over n slots of width interval.                        *)
RingType(n, interval, Columns, Values) ==
  [slot_count   : {n},
   interval_ns  : {interval},
   write_cursor : 0 .. n - 1,
   timestamps   : [0 .. n - 1 -> Nat],
   values       : [0 .. n - 1 -> [Columns -> Values \cup {NaN}]],
   has_wrapped  : BOOLEAN]

(* Slab::create, and RingBuffer::new on the fresh slab.                    *)
create(n, interval, Columns) ==
  [slot_count   |-> n,
   interval_ns  |-> interval,
   write_cursor |-> 0,
   timestamps   |-> [s \in 0 .. n - 1 |-> 0],
   values       |-> [s \in 0 .. n - 1 |-> [c \in Columns |-> NaN]],
   has_wrapped  |-> FALSE]

(* RingBuffer::new on a slab read back by Slab::open: has_wrapped is       *)
(* guessed from the slot after the cursor.                                 *)
ReopenForgetsWrap(r) == [r EXCEPT !.has_wrapped = FALSE]    \* mutant

reopen(r) ==
  LET next == IF r.write_cursor = 0 THEN 1 ELSE (r.write_cursor + 1) % r.slot_count
  IN  [r EXCEPT !.has_wrapped = next \in Slots(r) /\ r.timestamps[next] # 0]

-----------------------------------------------------------------------------
(* Writing.                                                                *)

SlotOffByOne(r, t) == (t \div r.interval_ns) % (r.slot_count - 1)    \* mutant

compute_slot(r, t) == (t \div r.interval_ns) % r.slot_count

(* Mutants of write_entries: the wrap is not noticed; a late write leaves  *)
(* the cursor alone.                                                       *)
WriteMissesWrap(r, entries, t) ==
  LET slot == compute_slot(r, t)
  IN  [r EXCEPT !.write_cursor = slot,
                !.timestamps[slot] = t,
                !.values[slot] = [c \in DOMAIN @ |->
                                    IF c \in DOMAIN entries THEN entries[c] ELSE @[c]]]

WriteKeepsCursor(r, entries, t) ==
  LET slot == compute_slot(r, t)
  IN  [r EXCEPT !.write_cursor = IF slot >= @ THEN slot ELSE @,
                !.has_wrapped = @ \/ slot < r.write_cursor,
                !.timestamps[slot] = t,
                !.values[slot] = [c \in DOMAIN @ |->
                                    IF c \in DOMAIN entries THEN entries[c] ELSE @[c]]]

(* The common effect of write and write_batch on accepted input.  entries  *)
(* maps the columns that are written to their values; the other columns of *)
(* the slot keep what they hold.  The stores into the slab file it is made *)
(* of are one step here: what is left when only some of them happen is     *)
(* unfinished, below.                                                      *)
write_entries(r, entries, t) ==
  LET slot    == compute_slot(r, t)
      wrapped == r.has_wrapped \/ slot < r.write_cursor
      row     == r.values[slot]
  IN  [slot_count   |-> r.slot_count,
       interval_ns  |-> r.interval_ns,
       write_cursor |-> IF wrapped \/ slot >= r.write_cursor THEN slot ELSE r.write_cursor,
       timestamps   |-> [r.timestamps EXCEPT ![slot] = t],
       values       |-> [r.values EXCEPT ![slot] =
                           [c \in DOMAIN row |->
                              IF c \in DOMAIN entries THEN entries[c] ELSE row[c]]],
       has_wrapped  |-> wrapped]

(* What a process that dies inside write or write_batch leaves in the slab *)
(* file: the timestamp is stored first, then the values, of which those in *)
(* stored were, and the cursor last.  A slot that held a row of an earlier *)
(* lap has its other values under the new time now.                        *)
unfinished(r, stored, t) ==
  LET slot == compute_slot(r, t)
      row  == r.values[slot]
  IN  [r EXCEPT !.timestamps[slot] = t,
                !.values[slot] = [c \in DOMAIN row |->
                                    IF c \in DOMAIN stored THEN stored[c] ELSE row[c]]]

(* RingBuffer::write of one column.                                        *)
write(r, column, v, t) == write_entries(r, [c \in {column} |-> v], t)

-----------------------------------------------------------------------------
(* Reading.                                                                *)

is_empty(r) == r.timestamps[r.write_cursor] = 0

newest_timestamp(r) == r.timestamps[r.write_cursor]

(* Mutant of IterationOrder: a wrapped ring is read from the cursor.       *)
OrderFromCursor(r) ==
  IF is_empty(r) THEN << >>
  ELSE IF r.has_wrapped
         THEN [k \in 1 .. r.slot_count |-> (r.write_cursor + k - 1) % r.slot_count]
         ELSE [k \in 1 .. r.write_cursor + 1 |-> k - 1]

(* The slots in the order the iterator visits them (RingIterator::new).    *)
IterationOrder(r) ==
  IF is_empty(r) THEN << >>
  ELSE IF r.has_wrapped
         THEN [k \in 1 .. r.slot_count |-> (r.write_cursor + k) % r.slot_count]
         ELSE [k \in 1 .. r.write_cursor + 1 |-> k - 1]

Point(r, column, slot) == <<r.timestamps[slot], r.values[slot][column]>>

(* The elements of a finite set of positions, in ascending order.          *)
Ascending(K) ==
  [n \in 1 .. Cardinality(K) |->
     CHOOSE k \in K : Cardinality(K \cap 1 .. k) = n]

(* The points RingBuffer::read yields for start <= timestamp < end.        *)
read(r, column, start, end) ==
  LET order  == IterationOrder(r)
      yields == {k \in DOMAIN order :
                   /\ r.timestamps[order[k]] \in start .. end - 1
                   /\ r.values[order[k]][column] # NaN}
      steps  == Ascending(yields)
  IN  [n \in DOMAIN steps |-> Point(r, column, order[steps[n]])]

(* The scan of oldest_timestamp: when wrapped, from the slot after the     *)
(* cursor all the way round; otherwise from slot 0 to the last slot.       *)
oldest_timestamp(r) ==
  LET from      == IF r.has_wrapped THEN r.write_cursor + 1 ELSE 0
      at(k)     == r.timestamps[(from + k) % r.slot_count]
      filled(k) == at(k) # 0 /\ \A j \in 0 .. k - 1 : at(j) = 0
  IN  IF is_empty(r) THEN 0
      ELSE at(CHOOSE k \in Slots(r) : filled(k))

(* Mutant of analyze_coverage: the wrong end of the range is tested.       *)
CoverageTestsEnd(r, start, end) ==
  LET oldest == oldest_timestamp(r)
      newest == newest_timestamp(r)
  IN  [fully_covered     |-> oldest # 0 /\ start >= oldest /\ end <= newest,
       may_be_incomplete |-> oldest = 0 \/ end > newest]

(* analyze_coverage of rondo/src/query.rs: what a query over [start, end)  *)
(* tells its caller about the data behind the answer.                      *)
analyze_coverage(r, start, end) ==
  LET oldest == oldest_timestamp(r)
      newest == newest_timestamp(r)
  IN  IF oldest = 0 \/ newest = 0
        THEN [fully_covered |-> FALSE, may_be_incomplete |-> TRUE]
        ELSE [fully_covered     |-> start >= oldest /\ end <= newest,
              may_be_incomplete |-> start < oldest]
=============================================================================
