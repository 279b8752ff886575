----------------------------- MODULE RingBuffer -----------------------------
(***************************************************************************)
(* One tier: a ring buffer over its slab file, driven by the calls of      *)
(* rondo/src/ring.rs.  The operations themselves are in RingOps.           *)
(*                                                                         *)
(* The writer is the environment.  Nothing in the code orders timestamps:  *)
(* Store::record takes the caller's, and consolidation writes its windows  *)
(* in hash order.  So Next allows any timestamp at any time, and the       *)
(* stronger promises are stated of stricter writers:                       *)
(*   Spec           any timestamps, any columns, restarts                  *)
(*   SessionSpec    the same, within the life of one process               *)
(*   CollectorSpec  timestamps that never go back, though intervals may be *)
(*                  skipped, whole rows (the first write of an interval    *)
(*                  covers every column: record_batch of all), restarts    *)
(* A restart comes between two calls.  What a process that dies inside one *)
(* leaves behind, a timestamp without its values, is in Consolidation.     *)
(***************************************************************************)
EXTENDS RingOps, SequencesExt

CONSTANTS
  SlotCount,    \* slots of the slab
  IntervalNs,   \* width of a slot
  Columns,      \* value columns (series) of the slab
  Values,       \* finite values a caller records
  Infinite,     \* an infinite f64, which every write path rejects
  Timestamps    \* the timestamps callers use, 0 (invalid) included

ASSUME RingAssumption ==
  /\ SlotCount \in Nat \ {0}
  /\ IntervalNs \in Nat \ {0}
  /\ Timestamps \subseteq Nat
  /\ NaN \notin Values
  /\ Infinite \notin Values \cup {NaN}

VARIABLES
  ring,       \* the slab and its RingBuffer
  last,       \* history: timestamp of the last accepted call, 0 before it
  recorded    \* history: every accepted <<column, timestamp, value>> but NaNs

vars == <<ring, last, recorded>>

Inputs == Values \cup {NaN, Infinite}

(* The argument of one call: the columns it writes and their values.       *)
Entries == UNION {[S -> Inputs] : S \in SUBSET Columns \ {{}}}

IntervalOf(t) == t \div IntervalNs

-----------------------------------------------------------------------------
Init ==
  /\ ring = create(SlotCount, IntervalNs, Columns)
  /\ last = 0
  /\ recorded = {}

Accepted(entries, t) ==
  /\ last' = t
  /\ recorded' = recorded \cup {<<c, t, entries[c]>> :
                               c \in {x \in DOMAIN entries : entries[x] # NaN}}

(* Mutants: write without its test for infinite values, and write_batch    *)
(* without its test for timestamp 0 or taking NaN to mean "no entry".      *)
WriteUnchecked(c, v, t) ==
  t # 0 /\ ring' = write(ring, c, v, t) /\ Accepted([x \in {c} |-> v], t)

BatchAtZero(entries, t) ==
  /\ \A c \in DOMAIN entries : entries[c] # Infinite
  /\ ring' = write_entries(ring, entries, t)
  /\ Accepted(entries, t)

BatchSkipsNaN(entries, t) ==
  /\ t # 0
  /\ \A c \in DOMAIN entries : entries[c] # Infinite
  /\ ring' = write_entries(ring, [c \in {x \in DOMAIN entries : entries[x] # NaN} |-> entries[c]], t)
  /\ Accepted(entries, t)

(* RingBuffer::write.  An infinite value or timestamp 0 is an early return *)
(* that leaves everything as it was.                                       *)
Write(c, v, t) ==
  /\ v # Infinite
  /\ t # 0
  /\ ring' = write(ring, c, v, t)
  /\ Accepted([x \in {c} |-> v], t)

(* RingBuffer::write_batch: every entry is validated before any is written *)
(* and the timestamp is written once.                                      *)
WriteBatch(entries, t) ==
  /\ t # 0
  /\ \A c \in DOMAIN entries : entries[c] # Infinite
  /\ ring' = write_entries(ring, entries, t)
  /\ Accepted(entries, t)

(* The process ends between two calls and the slab is opened again: the    *)
(* mapped state is kept, has_wrapped is guessed anew.                      *)
Reopen ==
  /\ ring' = reopen(ring)
  /\ UNCHANGED <<last, recorded>>

Call(entries, t) ==
  \/ WriteBatch(entries, t)
  \/ \E c \in Columns : DOMAIN entries = {c} /\ Write(c, entries[c], t)

-----------------------------------------------------------------------------
(* Writers.                                                                *)

SessionNext == \E t \in Timestamps, entries \in Entries : Call(entries, t)

Next == SessionNext \/ Reopen

(* The call brings a whole row, unless its interval already has one.       *)
FreshRow(entries, t) == DOMAIN entries = Columns \/ IntervalOf(t) = IntervalOf(last)

CollectorCall(entries, t) == t >= last /\ FreshRow(entries, t) /\ Call(entries, t)

CollectorNext ==
  \/ \E t \in Timestamps, entries \in Entries : CollectorCall(entries, t)
  \/ Reopen

Spec          == Init /\ [][Next]_vars
SessionSpec   == Init /\ [][SessionNext]_vars
CollectorSpec == Init /\ [][CollectorNext]_vars

-----------------------------------------------------------------------------
(* Properties of every writer.                                             *)

TypeOK ==
  /\ ring \in RingType(SlotCount, IntervalNs, Columns, Values)
  /\ last \in Timestamps \cup {0}
  /\ recorded \subseteq Columns \X Timestamps \X Values

(* A slot only ever holds timestamps that compute_slot sends to it, so two *)
(* slots never answer for the same interval; a slot without timestamp has  *)
(* no values.                                                              *)
SlotHome ==
  \A s \in Slots(ring) :
    IF ring.timestamps[s] = 0
      THEN \A c \in Columns : ring.values[s][c] = NaN
      ELSE compute_slot(ring, ring.timestamps[s]) = s

(* Whatever the order of the calls and between which the process restarted,*)
(* is_empty is false once a slot was written, and newest_timestamp is      *)
(* the timestamp of the last accepted call (docs/storage-format.md: the    *)
(* cursor "tracks the most recently written slot").                        *)
NewestIsLastCall ==
  /\ newest_timestamp(ring) = last
  /\ is_empty(ring) => \A s \in Slots(ring) : ring.timestamps[s] = 0

(* Within a session a read visits every slot that holds a row: no point    *)
(* the slab holds is invisible to read (ring.rs, RingIterator::new).       *)
NoHiddenSlot ==
  \A s \in Slots(ring) :
    ring.timestamps[s] # 0 => s \in ToSet(IterationOrder(ring))

-----------------------------------------------------------------------------
(* Properties of stricter writers.                                         *)

(* A read of everything the ring holds.                                    *)
ReadAll(r, c) == read(r, c, 0, 1 + Max({r.timestamps[s] : s \in Slots(r)}))

(* The comment at the cursor update of ring.rs: the cursor points to the   *)
(* slot with the highest timestamp.                                        *)
CursorAtHighest ==
  \A s \in Slots(ring) : ring.timestamps[s] <= newest_timestamp(ring)

(* The doc of RingBuffer::read: points come in chronological order.        *)
Chronological ==
  \A c \in Columns :
    LET points == ReadAll(ring, c)
    IN  \A i, j \in DOMAIN points : i < j => points[i][1] < points[j][1]

(* Every point a read returns was recorded for that column in the interval *)
(* of the timestamp it carries: no value of an earlier lap comes back      *)
(* under a later time (docs/REPO_SETUP.md, "Ring buffer never reads stale  *)
(* data after wraparound").                                                *)
NoStaleRead ==
  \A c \in Columns : \A p \in ToSet(ReadAll(ring, c)) :
    \E e \in recorded : e[1] = c /\ e[3] = p[2] /\ IntervalOf(e[2]) = IntervalOf(p[1])

(* Opening the slab again does not change what a reader gets.              *)
ReopenKeepsReads ==
  \A c \in Columns : ReadAll(reopen(ring), c) = ReadAll(ring, c)

(* ... except that the wrap of a ring whose slot after the cursor was      *)
(* never written goes unnoticed: the guess of RingBuffer::new errs in no   *)
(* other way.                                                              *)
ReopenErrsOnlyBeforeFullLap ==
  ReopenKeepsReads \/
  (ring.has_wrapped /\ ring.timestamps[(ring.write_cursor + 1) % SlotCount] = 0)

-----------------------------------------------------------------------------
(* The ring of a collector implements the retention log.  The rows of the  *)
(* log are the slots whose interval is among the last SlotCount ones: a    *)
(* slot the writer skipped may hold an older row beside them.              *)
Logged ==
  {[time |-> ring.timestamps[s], row |-> ring.values[s]] :
     s \in {x \in Slots(ring) :
              /\ ring.timestamps[x] # 0
              /\ IntervalOf(ring.timestamps[x]) > IntervalOf(last) - SlotCount}}

Log == INSTANCE RetentionLog WITH log <- Logged, Rows <- Entries

(* What the log's append does to it is what write and write_batch do to    *)
(* the ring, and a restart does nothing.                                   *)
RingImplementsLog == Log!Spec

(* Intervals in which something was recorded.                              *)
Recorded == {IntervalOf(e[2]) : e \in recorded}

(* Every interval from the first to the last recorded one has a record,    *)
(* and the first is the start of a lap, so that a ring that has wrapped is *)
(* full and a restart finds out.                                           *)
Gapless ==
  recorded # {} =>
    /\ Recorded = Min(Recorded) .. IntervalOf(last)
    /\ Min(Recorded) % SlotCount = 0

(* A collector without gaps gets exactly the retained points of the range  *)
(* from every query, oldest first, over restarts.                          *)
ReadIsLog ==
  Gapless =>
    \A c \in Columns, start \in Timestamps, end \in Timestamps :
      start < end =>
        LET points == read(ring, c, start, end)
        IN  /\ ToSet(points) = {<<p.time, p.row[c]>> : p \in {q \in Logged :
                                  q.time \in start .. end - 1 /\ q.row[c] # NaN}}
            /\ \A i, j \in DOMAIN points : i < j => points[i][1] < points[j][1]

(* query.rs, analyze_coverage: an answer to such a collector that is not   *)
(* marked may_be_incomplete misses no interval of its range in which       *)
(* something was recorded.                                                 *)
CoverageHonest ==
  Gapless =>
    \A start \in Timestamps, end \in Timestamps :
      (start < end /\ ~analyze_coverage(ring, start, end).may_be_incomplete) =>
        \A e \in recorded :
          e[2] \in start .. end - 1 =>
            \E s \in Slots(ring) : IntervalOf(ring.timestamps[s]) = IntervalOf(e[2])
=============================================================================
