----------------------------- MODULE RingProofs -----------------------------
(***************************************************************************)
(* Proofs about module RingBuffer, for every slot count, interval width,   *)
(* set of columns and set of timestamps.                                   *)
(***************************************************************************)
EXTENDS RingBuffer, RingOpsProofs

-----------------------------------------------------------------------------
(* What one call does.                                                     *)

(* The ring values of this slab.                                           *)
RT == RingType(SlotCount, IntervalNs, Columns, Values)

(* The facts of RingOpsProofs, for the rings of this slab.                 *)
LEMMA RingFields ==
  ASSUME NEW r \in RT
  PROVE  /\ r.slot_count = SlotCount /\ r.interval_ns = IntervalNs
         /\ r.write_cursor \in 0 .. SlotCount - 1
         /\ r.timestamps \in [0 .. SlotCount - 1 -> Nat]
         /\ r.values \in [0 .. SlotCount - 1 -> [Columns -> Values \cup {NaN}]]
         /\ r.has_wrapped \in BOOLEAN
         /\ Slots(r) = 0 .. SlotCount - 1
  BY DEF RT, RingType, Slots

(* reopen only guesses has_wrapped anew.                                   *)
LEMMA ReopenFacts ==
  ASSUME NEW r \in RT
  PROVE  /\ reopen(r) \in RT
         /\ reopen(r).write_cursor = r.write_cursor
         /\ reopen(r).timestamps = r.timestamps
         /\ reopen(r).values = r.values
  BY ReopenShape DEF RT

(* An accepted call, write or write_batch, is write_entries on the ring.   *)
LEMMA CallFacts ==
  ASSUME NEW t \in Timestamps, NEW entries \in Entries, Call(entries, t)
  PROVE  /\ t \in Nat \ {0}
         /\ last' = t
         /\ ring' = write_entries(ring, entries, t)
         /\ recorded' = recorded \cup {<<c, t, entries[c]>> :
                           c \in {x \in DOMAIN entries : entries[x] # NaN}}
         /\ DOMAIN entries \subseteq Columns
         /\ \A c \in DOMAIN entries : entries[c] \in Values \cup {NaN}
  <1>1. PICK S \in SUBSET Columns : entries \in [S -> Inputs]
    BY DEF Entries
  <1>2. CASE WriteBatch(entries, t)
    BY <1>1, <1>2, RingAssumption DEF WriteBatch, Accepted, Inputs
  <1>3. CASE \E c \in Columns : DOMAIN entries = {c} /\ Write(c, entries[c], t)
    <2> PICK c \in Columns : DOMAIN entries = {c} /\ Write(c, entries[c], t)
      BY <1>3
    <2>1. entries = [x \in {c} |-> entries[c]]
      BY <1>1
    <2>2. /\ ring' = write_entries(ring, entries, t)
          /\ Accepted(entries, t)
          /\ t # 0 /\ entries[c] # Infinite
      BY <2>1 DEF Write, write
    <2> QED BY <1>1, <2>2, RingAssumption DEF Accepted, Inputs
  <1> QED BY <1>2, <1>3 DEF Call

-----------------------------------------------------------------------------
(* The invariant of every writer, restarts included.                       *)

(* The conjunction that a step preserves; its parts need each other: where *)
(* a call goes follows from the type, and what newest_timestamp reads from *)
(* where calls went.                                                       *)
SlabInv == TypeOK /\ SlotHome /\ NewestIsLastCall

(* Slab::create sets it up.                                                *)
LEMMA InitSlabInv == Init => SlabInv
  <1> SUFFICES ASSUME Init PROVE SlabInv
    OBVIOUS
  <1>1. ring = [slot_count |-> SlotCount, interval_ns |-> IntervalNs,
                write_cursor |-> 0,
                timestamps |-> [s \in 0 .. SlotCount - 1 |-> 0],
                values |-> [s \in 0 .. SlotCount - 1 |-> [c \in Columns |-> NaN]],
                has_wrapped |-> FALSE]
        /\ last = 0 /\ recorded = {}
    BY DEF Init, create
  <1>2. 0 \in 0 .. SlotCount - 1
    BY RingAssumption
  <1>3. TypeOK
    BY <1>1, <1>2 DEF TypeOK, RingType
  <1>4. SlotHome
    BY <1>1 DEF SlotHome, Slots
  <1>5. NewestIsLastCall
    BY <1>1, <1>2 DEF NewestIsLastCall, newest_timestamp, is_empty, Slots
  <1> QED BY <1>3, <1>4, <1>5 DEF SlabInv

(* What the invariants need to know of a step that calls write.            *)
LEMMA CallEffect ==
  ASSUME TypeOK, NEW t \in Timestamps, NEW entries \in Entries, Call(entries, t)
  PROVE  \E s \in 0 .. SlotCount - 1 :
           /\ s = (t \div IntervalNs) % SlotCount
           /\ t \in Nat \ {0} /\ last' = t
           /\ ring \in RT /\ ring' \in RT
           /\ ring'.write_cursor = s
           /\ ring'.timestamps = [ring.timestamps EXCEPT ![s] = t]
           /\ ring'.values = [ring.values EXCEPT ![s] =
                [c \in Columns |-> IF c \in DOMAIN entries
                                     THEN entries[c] ELSE ring.values[s][c]]]
           /\ ring'.has_wrapped <=> (ring.has_wrapped \/ s < ring.write_cursor)
  <1>1. ring \in RT
    BY DEF TypeOK, RT
  <1>2. /\ t \in Nat \ {0} /\ last' = t
        /\ ring' = write_entries(ring, entries, t)
        /\ \A c \in DOMAIN entries : entries[c] \in Values \cup {NaN}
    BY CallFacts
  <1>3. /\ compute_slot(ring, t) \in 0 .. SlotCount - 1
        /\ compute_slot(ring, t) = (t \div IntervalNs) % SlotCount
    BY <1>1, <1>2, ComputedSlot, RingAssumption DEF RT
  <1>4. LET w == write_entries(ring, entries, t)
            s == compute_slot(ring, t)
        IN  /\ w \in RT
            /\ w.write_cursor = s
            /\ w.timestamps = [ring.timestamps EXCEPT ![s] = t]
            /\ w.values = [ring.values EXCEPT ![s] =
                 [c \in Columns |-> IF c \in DOMAIN entries
                                      THEN entries[c] ELSE ring.values[s][c]]]
            /\ w.has_wrapped <=> (ring.has_wrapped \/ s < ring.write_cursor)
    BY <1>1, <1>2, WriteShape, RingAssumption DEF RT
  <1> QED BY <1>1, <1>2, <1>3, <1>4

(* write and write_batch keep it.                                          *)
LEMMA CallSlabInv ==
  ASSUME SlabInv, NEW t \in Timestamps, NEW entries \in Entries, Call(entries, t)
  PROVE  SlabInv'
  <1> USE DEF SlabInv
  <1>1. PICK s \in 0 .. SlotCount - 1 :
           /\ s = (t \div IntervalNs) % SlotCount
           /\ t \in Nat \ {0} /\ last' = t
           /\ ring \in RT /\ ring' \in RT
           /\ ring'.write_cursor = s
           /\ ring'.timestamps = [ring.timestamps EXCEPT ![s] = t]
           /\ ring'.values = [ring.values EXCEPT ![s] =
                [c \in Columns |-> IF c \in DOMAIN entries
                                     THEN entries[c] ELSE ring.values[s][c]]]
    BY CallEffect
  <1>2. TypeOK'
    <2>1. recorded' \subseteq Columns \X Timestamps \X Values
      BY CallFacts DEF TypeOK
    <2> QED BY <1>1, <2>1 DEF TypeOK, RT
  <1>3. SlotHome'
    <2> SUFFICES ASSUME NEW x \in 0 .. SlotCount - 1
                 PROVE  IF ring'.timestamps[x] = 0
                          THEN \A c \in Columns : ring'.values[x][c] = NaN
                          ELSE compute_slot(ring', ring'.timestamps[x]) = x
      BY <1>1, RingFields DEF SlotHome
    <2>1. CASE x = s
      BY <1>1, <2>1, RingFields DEF compute_slot
    <2>2. CASE x # s
      <3>1. ring'.timestamps[x] = ring.timestamps[x] /\ ring'.values[x] = ring.values[x]
        BY <1>1, <2>2, RingFields
      <3>2. compute_slot(ring', ring.timestamps[x]) = compute_slot(ring, ring.timestamps[x])
        BY <1>1, RingFields DEF compute_slot
      <3>3. x \in Slots(ring)
        BY <1>1, RingFields
      <3>4. IF ring.timestamps[x] = 0
              THEN \A c \in Columns : ring.values[x][c] = NaN
              ELSE compute_slot(ring, ring.timestamps[x]) = x
        BY <3>3 DEF SlotHome
      <3> QED BY <3>1, <3>2, <3>4
    <2> QED BY <2>1, <2>2
  <1>4. NewestIsLastCall'
    BY <1>1, RingFields, ZenonT(60) DEF NewestIsLastCall, newest_timestamp, is_empty
  <1> QED BY <1>2, <1>3, <1>4

(* Closing and opening the slab keeps it.                                  *)
LEMMA ReopenSlabInv ==
  ASSUME SlabInv, Reopen
  PROVE  SlabInv'
  <1> USE DEF SlabInv
  <1>1. /\ ring \in RT /\ ring' \in RT
        /\ ring'.write_cursor = ring.write_cursor
        /\ ring'.timestamps = ring.timestamps
        /\ ring'.values = ring.values
        /\ last' = last /\ recorded' = recorded
    BY ReopenFacts DEF Reopen, TypeOK, RT
  <1>2. TypeOK'
    BY <1>1 DEF TypeOK, RT
  <1>3. SlotHome'
    BY <1>1, RingFields DEF SlotHome, compute_slot
  <1>4. NewestIsLastCall'
    BY <1>1, RingFields DEF NewestIsLastCall, newest_timestamp, is_empty
  <1> QED BY <1>2, <1>3, <1>4

(* It is about the variables alone.                                        *)
LEMMA StutterSlabInv ==
  ASSUME SlabInv, UNCHANGED vars
  PROVE  SlabInv'
  BY DEF SlabInv, vars, TypeOK, SlotHome, NewestIsLastCall, compute_slot,
         newest_timestamp, is_empty, Slots

(* Whatever the callers write and in whatever order, restarts included:    *)
(* the slab is well formed, every filled slot holds a timestamp of its     *)
(* own, and newest_timestamp is the timestamp of the last accepted call.   *)
THEOREM SlabInvariant == Spec => [](TypeOK /\ SlotHome /\ NewestIsLastCall)
  <1>1. SlabInv /\ [Next]_vars => SlabInv'
    BY CallSlabInv, ReopenSlabInv, StutterSlabInv DEF Next, SessionNext
  <1> QED BY InitSlabInv, <1>1, PTL DEF Spec, SlabInv

(* The slab and the histories keep their types, whatever is recorded: in   *)
(* particular no infinite value and no timestamp 0 gets into a slab.       *)
THEOREM SlabTypes == Spec => []TypeOK
  <1>1. TypeOK /\ SlotHome /\ NewestIsLastCall => TypeOK
    OBVIOUS
  <1> QED BY SlabInvariant, <1>1, PTL

(* No slot ever answers for an interval of another slot, and no value is   *)
(* left in a slot without timestamp.                                       *)
THEOREM SlotsKeepHome == Spec => []SlotHome
  <1>1. TypeOK /\ SlotHome /\ NewestIsLastCall => SlotHome
    OBVIOUS
  <1> QED BY SlabInvariant, <1>1, PTL

-----------------------------------------------------------------------------
(* One session: no slot above the cursor is filled before the first wrap.  *)

(* What NoHiddenSlot needs to be inductive: has_wrapped is set before a    *)
(* slot above the cursor can be left behind filled.                        *)
HighSlotsEmpty ==
  ~ring.has_wrapped =>
    \A s \in Slots(ring) : s > ring.write_cursor => ring.timestamps[s] = 0

(* With it the iterator of read comes past every filled slot.              *)
LEMMA VisitsFilledSlots ==
  ASSUME SlabInv, HighSlotsEmpty
  PROVE  NoHiddenSlot
  <1>1. ring \in RT
    BY DEF SlabInv, TypeOK, RT
  <1> SUFFICES ASSUME NEW s \in 0 .. SlotCount - 1, ring.timestamps[s] # 0
               PROVE  \E k \in DOMAIN IterationOrder(ring) : IterationOrder(ring)[k] = s
    BY <1>1, RingFields DEF NoHiddenSlot, ToSet
  <1>2. ~is_empty(ring)
    BY <1>1, RingFields DEF SlabInv, NewestIsLastCall
  <1>3. CASE ring.has_wrapped
    <2>1. IterationOrder(ring) =
            [k \in 1 .. SlotCount |-> (ring.write_cursor + k) % SlotCount]
      BY <1>1, <1>2, <1>3, RingFields DEF IterationOrder
    <2>2. PICK k \in 1 .. SlotCount : (ring.write_cursor + k) % SlotCount = s
      BY <1>1, RingFields, FullLap, RingAssumption
    <2> QED BY <2>1, <2>2
  <1>4. CASE ~ring.has_wrapped
    <2>1. IterationOrder(ring) = [k \in 1 .. ring.write_cursor + 1 |-> k - 1]
      BY <1>2, <1>4 DEF IterationOrder
    <2>2. s <= ring.write_cursor
      <3>1. s \in Slots(ring) /\ ring.write_cursor \in 0 .. SlotCount - 1
        BY <1>1, RingFields
      <3>2. ~(s > ring.write_cursor)
        BY <1>4, <3>1 DEF HighSlotsEmpty
      <3> QED BY <3>1, <3>2
    <2>3. s + 1 \in 1 .. ring.write_cursor + 1 /\ (s + 1) - 1 = s
      BY <1>1, <2>2, RingFields
    <2> QED BY <2>1, <2>3
  <1> QED BY <1>3, <1>4

(* write and write_batch keep it, whatever their timestamps.               *)
LEMMA CallHighSlots ==
  ASSUME SlabInv, HighSlotsEmpty,
         NEW t \in Timestamps, NEW entries \in Entries, Call(entries, t)
  PROVE  HighSlotsEmpty'
  <1>1. PICK s \in 0 .. SlotCount - 1 :
           /\ ring \in RT /\ ring' \in RT
           /\ ring'.write_cursor = s
           /\ ring'.timestamps = [ring.timestamps EXCEPT ![s] = t]
           /\ ring'.has_wrapped <=> (ring.has_wrapped \/ s < ring.write_cursor)
    BY CallEffect DEF SlabInv
  <1> SUFFICES ASSUME ~ring'.has_wrapped, NEW x \in 0 .. SlotCount - 1, x > s
               PROVE  ring'.timestamps[x] = 0
    BY <1>1, RingFields DEF HighSlotsEmpty
  <1>2. x > ring.write_cursor /\ ~ring.has_wrapped
    BY <1>1, RingFields
  <1>3. ring.timestamps[x] = 0
    BY <1>1, <1>2, RingFields DEF HighSlotsEmpty
  <1> QED BY <1>1, <1>3, RingFields

(* In one process no row of the slab is invisible to a reader, whatever    *)
(* the order of the writes.                                                *)
THEOREM NoHiddenSlots == SessionSpec => []NoHiddenSlot
  <1> DEFINE Inv == SlabInv /\ HighSlotsEmpty
  <1>1. Init => Inv
    <2>1. Init => HighSlotsEmpty
      BY DEF Init, create, HighSlotsEmpty, Slots
    <2> QED BY <2>1, InitSlabInv
  <1>2. Inv /\ [SessionNext]_vars => Inv'
    <2>1. ASSUME Inv, SessionNext PROVE Inv'
      BY <2>1, CallSlabInv, CallHighSlots DEF SessionNext
    <2>2. ASSUME Inv, UNCHANGED vars PROVE Inv'
      BY <2>2, StutterSlabInv DEF vars, HighSlotsEmpty, Slots
    <2> QED BY <2>1, <2>2
  <1>3. Inv => NoHiddenSlot
    BY VisitsFilledSlots
  <1> QED BY <1>1, <1>2, <1>3, PTL DEF SessionSpec

-----------------------------------------------------------------------------
(* One session: what a restart can get wrong.                              *)

(* A ring of a single slot never wraps, as no slot is below its cursor.    *)
SingleSlotUnwrapped == SlotCount = 1 => ~ring.has_wrapped

(* When the guess of RingBuffer::new disagrees with the has_wrapped of the *)
(* session, the ring had wrapped and the slot after the cursor is empty,   *)
(* or the iteration comes out the same: the cursor is on the last slot.    *)
LEMMA ReopenOrder ==
  ASSUME SlabInv, HighSlotsEmpty, SingleSlotUnwrapped,
         ~(ring.has_wrapped /\ ring.timestamps[(ring.write_cursor + 1) % SlotCount] = 0)
  PROVE  IterationOrder(reopen(ring)) = IterationOrder(ring)
  <1> DEFINE n == SlotCount
             w == ring.write_cursor
             next == IF w = 0 THEN 1 ELSE (w + 1) % n
             r == reopen(ring)
  <1>1. /\ ring \in RT /\ r \in RT
        /\ r.write_cursor = w /\ r.timestamps = ring.timestamps
    BY ReopenFacts DEF SlabInv, TypeOK, RT
  <1>2. n \in Nat \ {0} /\ w \in 0 .. n - 1 /\ ring.slot_count = n /\ r.slot_count = n
    BY <1>1, RingFields, RingAssumption
  <1>3. r.has_wrapped <=> next \in 0 .. n - 1 /\ ring.timestamps[next] # 0
    BY <1>1, <1>2, RingFields DEF reopen, RT, RingType
  <1>4. is_empty(r) <=> is_empty(ring)
    BY <1>1 DEF is_empty
  <1>5. w + 1 < n => (w + 1) % n = w + 1
    <2>1. ASSUME w + 1 < n PROVE w + 1 \in 0 .. n - 1
      BY <1>2, <2>1
    <2> QED BY <1>2, <2>1, ModSmall
  <1>6. w + 1 = n => (w + 1) % n = 0
    <2>1. 0 \in 0 .. n - 1 /\ 0 + n = n
      BY <1>2
    <2>2. (0 + n) % n = 0
      BY <1>2, <2>1, ModSmall
    <2> QED BY <2>1, <2>2
  <1>7. w + 1 < n \/ w + 1 = n
    BY <1>2
  <1>8. CASE r.has_wrapped /\ ~ring.has_wrapped
    <2>1. next = 0 /\ w + 1 = n
      <3>1. \A x \in 0 .. n - 1 : x > w => ring.timestamps[x] = 0
        BY <1>1, <1>8, RingFields DEF HighSlotsEmpty
      <3>2. next \in 0 .. n - 1 /\ ~(next > w)
        BY <1>3, <1>8, <3>1
      <3> QED BY <1>2, <1>5, <1>6, <1>7, <3>2
    <2>2. \A k \in 1 .. n : (w + k) % n = k - 1
      <3> TAKE k \in 1 .. n
      <3>1. w + k = (k - 1) + n /\ k - 1 \in 0 .. n - 1
        BY <1>2, <2>1
      <3>2. ((k - 1) + n) % n = k - 1
        BY <1>2, <3>1, ModSmall
      <3> QED BY <3>1, <3>2
    <2>3. [k \in 1 .. n |-> (w + k) % n] = [k \in 1 .. w + 1 |-> k - 1]
      BY <2>1, <2>2
    <2> QED BY <1>1, <1>2, <1>4, <1>8, <2>3 DEF IterationOrder
  <1>9. CASE ~r.has_wrapped /\ ring.has_wrapped
    <2>1. n # 1
      BY <1>9 DEF SingleSlotUnwrapped
    <2>2. next = (w + 1) % n
      BY <1>2, <1>5, <1>7, <2>1
    <2>3. next \in 0 .. n - 1
      BY <1>2, <1>5, <1>6, <1>7, <2>2
    <2> QED BY <1>3, <1>9, <2>2, <2>3
  <1>10. CASE r.has_wrapped <=> ring.has_wrapped
    BY <1>1, <1>2, <1>4, <1>10 DEF IterationOrder
  <1> QED BY <1>8, <1>9, <1>10

(* With the same iteration a read returns the same points.                 *)
LEMMA SameOrderSameReads ==
  ASSUME ring \in RT, IterationOrder(reopen(ring)) = IterationOrder(ring)
  PROVE  ReopenKeepsReads
  <1>1. /\ reopen(ring).timestamps = ring.timestamps /\ reopen(ring).values = ring.values
        /\ Slots(reopen(ring)) = Slots(ring)
    BY ReopenFacts, RingFields
  <1>2. \A c, start, end : read(reopen(ring), c, start, end) = read(ring, c, start, end)
    BY <1>1 DEF read, Point
  <1> QED BY <1>1, <1>2 DEF ReopenKeepsReads, ReadAll

(* In one process the guess at the next start errs in one way only: a ring *)
(* that has wrapped and whose slot after the cursor was never written is   *)
(* taken for one that has not.                                             *)
THEOREM ReopenErrsInOneWay == SessionSpec => []ReopenErrsOnlyBeforeFullLap
  <1> DEFINE Inv == SlabInv /\ HighSlotsEmpty /\ SingleSlotUnwrapped
  <1>1. Init => Inv
    <2>1. Init => HighSlotsEmpty /\ SingleSlotUnwrapped
      BY DEF Init, create, HighSlotsEmpty, SingleSlotUnwrapped, Slots
    <2> QED BY <2>1, InitSlabInv
  <1>2. Inv /\ [SessionNext]_vars => Inv'
    <2>1. ASSUME Inv, NEW t \in Timestamps, NEW entries \in Entries, Call(entries, t)
          PROVE  Inv'
      <3>1. PICK s \in 0 .. SlotCount - 1 :
               /\ ring \in RT /\ ring' \in RT
               /\ ring'.has_wrapped <=> (ring.has_wrapped \/ s < ring.write_cursor)
        BY <2>1, CallEffect DEF SlabInv
      <3>2. SingleSlotUnwrapped'
        BY <2>1, <3>1, RingFields DEF SingleSlotUnwrapped
      <3> QED BY <2>1, <3>2, CallSlabInv, CallHighSlots
    <2>2. ASSUME Inv, UNCHANGED vars PROVE Inv'
      BY <2>2, StutterSlabInv DEF vars, HighSlotsEmpty, SingleSlotUnwrapped, Slots
    <2> QED BY <2>1, <2>2 DEF SessionNext
  <1>3. Inv => ReopenErrsOnlyBeforeFullLap
    BY ReopenOrder, SameOrderSameReads DEF ReopenErrsOnlyBeforeFullLap, SlabInv, TypeOK, RT
  <1> QED BY <1>1, <1>2, <1>3, PTL DEF SessionSpec

-----------------------------------------------------------------------------
(* Monotone collectors: the ring implements the retention log.             *)

(* A call that does not go back in time leaves the cursor on the slot with *)
(* the highest timestamp.                                                  *)
LEMMA CallCursor ==
  ASSUME SlabInv, CursorAtHighest,
         NEW t \in Timestamps, NEW entries \in Entries, Call(entries, t), t >= last
  PROVE  CursorAtHighest'
  <1>1. PICK s \in 0 .. SlotCount - 1 :
           /\ t \in Nat \ {0} /\ last' = t
           /\ ring \in RT /\ ring' \in RT
           /\ ring'.write_cursor = s
           /\ ring'.timestamps = [ring.timestamps EXCEPT ![s] = t]
    BY CallEffect DEF SlabInv
  <1>2. last \in Nat /\ newest_timestamp(ring) = last
    <2>1. last \in Timestamps \cup {0}
      BY DEF SlabInv, TypeOK
    <2>2. newest_timestamp(ring) = last
      BY DEF SlabInv, NewestIsLastCall
    <2> QED BY <2>1, <2>2, RingAssumption
  <1>3. newest_timestamp(ring') = t
    BY <1>1, RingFields DEF newest_timestamp
  <1> SUFFICES ASSUME NEW x \in 0 .. SlotCount - 1
               PROVE  ring'.timestamps[x] <= t
    BY <1>1, <1>3, RingFields DEF CursorAtHighest
  <1>4. CASE x = s
    <2>1. ring'.timestamps[s] = t
      BY <1>1, RingFields
    <2> QED BY <1>1, <1>4, <2>1
  <1>5. CASE x # s
    <2>1. ring'.timestamps[x] = ring.timestamps[x] /\ ring.timestamps[x] \in Nat
      BY <1>1, <1>5, RingFields
    <2>2. ring.timestamps[x] <= last
      BY <1>1, <1>2, RingFields DEF CursorAtHighest
    <2> QED BY <1>1, <1>2, <2>1, <2>2
  <1> QED BY <1>4, <1>5

(* A writer whose clock never goes back keeps the cursor on the slot with  *)
(* the highest timestamp, over restarts too.                               *)
THEOREM CursorTheorem == CollectorSpec => []CursorAtHighest
  <1> DEFINE Inv == SlabInv /\ CursorAtHighest
  <1>1. Init => Inv
    <2>1. Init => CursorAtHighest
      <3> SUFFICES ASSUME Init PROVE CursorAtHighest
        OBVIOUS
      <3>1. 0 \in 0 .. SlotCount - 1
        BY RingAssumption
      <3> QED BY <3>1 DEF Init, create, CursorAtHighest, newest_timestamp, Slots
    <2> QED BY <2>1, InitSlabInv
  <1>2. Inv /\ [CollectorNext]_vars => Inv'
    <2>1. ASSUME Inv, NEW t \in Timestamps, NEW entries \in Entries,
                 CollectorCall(entries, t)
          PROVE  Inv'
      BY <2>1, CallSlabInv, CallCursor DEF CollectorCall
    <2>2. ASSUME Inv, Reopen PROVE Inv'
      <3>1. /\ ring \in RT /\ ring' \in RT
            /\ ring'.write_cursor = ring.write_cursor
            /\ ring'.timestamps = ring.timestamps
        BY <2>2, ReopenFacts, ReopenSlabInv DEF Reopen, SlabInv, TypeOK, RT
      <3>2. CursorAtHighest'
        BY <2>2, <3>1, RingFields DEF CursorAtHighest, newest_timestamp
      <3> QED BY <2>2, <3>2, ReopenSlabInv
    <2>3. ASSUME Inv, UNCHANGED vars PROVE Inv'
      BY <2>3, StutterSlabInv DEF vars, CursorAtHighest, newest_timestamp, Slots
    <2> QED BY <2>1, <2>2, <2>3 DEF CollectorNext
  <1> QED BY <1>1, <1>2, PTL DEF CollectorSpec

(* The row slot x holds, as the log sees it.                               *)
RowOf(r, x) == [time |-> r.timestamps[x], row |-> r.values[x]]

(* Membership in the log, slot by slot.                                    *)
LEMMA LoggedMember ==
  ASSUME ring \in RT
  PROVE  \A p : p \in Logged <=>
           \E x \in 0 .. SlotCount - 1 :
             /\ p = RowOf(ring, x)
             /\ ring.timestamps[x] # 0
             /\ IntervalOf(ring.timestamps[x]) > IntervalOf(last) - SlotCount
  BY RingFields DEF Logged, RowOf

(* What is known of the slots before a collector's call at t into slot s.  *)
LEMMA BeforeCall ==
  ASSUME SlabInv, CursorAtHighest, NEW t \in Nat, t >= last, NEW x \in 0 .. SlotCount - 1,
         ring.timestamps[x] # 0
  PROVE  /\ ring.timestamps[x] \in Nat /\ ring.timestamps[x] <= last /\ last \in Nat
         /\ IntervalOf(ring.timestamps[x]) \in Nat
         /\ IntervalOf(last) \in Nat /\ IntervalOf(t) \in Nat
         /\ IntervalOf(ring.timestamps[x]) <= IntervalOf(last)
         /\ IntervalOf(last) <= IntervalOf(t)
         /\ IntervalOf(ring.timestamps[x]) % SlotCount = x
  <1>1. ring \in RT
    BY DEF SlabInv, TypeOK, RT
  <1>2. last \in Nat
    BY RingAssumption DEF SlabInv, TypeOK
  <1>3. newest_timestamp(ring) = last
    BY DEF SlabInv, NewestIsLastCall
  <1>4. x \in Slots(ring) /\ ring.timestamps[x] \in Nat
    BY <1>1, RingFields
  <1>5. ring.timestamps[x] <= last
    BY <1>3, <1>4 DEF CursorAtHighest
  <1>6. compute_slot(ring, ring.timestamps[x]) = x
    BY <1>4 DEF SlabInv, SlotHome
  <1>7. IntervalOf(ring.timestamps[x]) % SlotCount = x
    BY <1>1, <1>6, RingFields DEF compute_slot, IntervalOf
  <1>8. /\ IntervalOf(ring.timestamps[x]) \in Nat
        /\ IntervalOf(last) \in Nat /\ IntervalOf(t) \in Nat
    BY <1>2, <1>4, DivNat, RingAssumption DEF IntervalOf
  <1>9. IntervalOf(ring.timestamps[x]) <= IntervalOf(last)
    BY <1>2, <1>4, <1>5, DivMonotone, RingAssumption DEF IntervalOf
  <1>10. IntervalOf(last) <= IntervalOf(t)
    BY <1>2, DivMonotone, RingAssumption DEF IntervalOf
  <1> QED BY <1>2, <1>4, <1>5, <1>7, <1>8, <1>9, <1>10

(* A column the call leaves alone reads in the ring what it reads in the   *)
(* log: the slot was written in the same interval, or not at all.          *)
LEMMA UntouchedColumn ==
  ASSUME SlabInv, CursorAtHighest,
         NEW t \in Timestamps, NEW entries \in Entries, CollectorCall(entries, t),
         NEW c \in Columns, c \notin DOMAIN entries,
         NEW s \in 0 .. SlotCount - 1, s = (t \div IntervalNs) % SlotCount
  PROVE  Log!RowAt(t)[c] = ring.values[s][c]
  <1>1. /\ ring \in RT /\ t \in Nat /\ t >= last /\ last \in Nat
    BY RingAssumption DEF SlabInv, TypeOK, RT, CollectorCall
  <1>2. IntervalOf(t) = IntervalOf(last)
    BY DEF CollectorCall, FreshRow
  <1>3. CASE last = 0
    <2>1. \A x \in 0 .. SlotCount - 1 : ring.timestamps[x] = 0
      BY <1>1, <1>3, RingFields DEF SlabInv, NewestIsLastCall, newest_timestamp, is_empty
    <2>2. Logged = {}
      BY <1>1, <2>1, LoggedMember
    <2>3. Log!RowAt(t)[c] = NaN
      BY <2>2 DEF Log!RowAt
    <2>4. ring.values[s][c] = NaN
      BY <1>1, <2>1, RingFields DEF SlabInv, SlotHome
    <2> QED BY <2>3, <2>4
  <1>4. CASE last # 0
    <2>1. ring.timestamps[ring.write_cursor] = last /\ ring.write_cursor \in 0 .. SlotCount - 1
      BY <1>1, RingFields DEF SlabInv, NewestIsLastCall, newest_timestamp
    <2>2. ring.write_cursor = s
      BY <1>1, <1>2, <1>4, <2>1, BeforeCall DEF IntervalOf
    <2>3. RowOf(ring, s) \in Logged
      <3>1. IntervalOf(last) > IntervalOf(last) - SlotCount
        BY <1>1, DivNat, RingAssumption DEF IntervalOf
      <3> QED BY <1>1, <1>4, <2>1, <2>2, <3>1, LoggedMember
    <2>4. ASSUME NEW p \in Logged, Log!IntervalOf(p.time) = Log!IntervalOf(t)
          PROVE  p = RowOf(ring, s)
      <3>1. PICK x \in 0 .. SlotCount - 1 : p = RowOf(ring, x) /\ ring.timestamps[x] # 0
        BY <1>1, LoggedMember
      <3>2. IntervalOf(ring.timestamps[x]) = IntervalOf(t)
        BY <2>4, <3>1 DEF RowOf, IntervalOf, Log!IntervalOf
      <3>3. IntervalOf(ring.timestamps[x]) % SlotCount = x
        BY <1>1, <3>1, BeforeCall
      <3>4. x = s
        BY <3>2, <3>3 DEF IntervalOf
      <3> QED BY <3>1, <3>4
    <2>5. Log!IntervalOf(RowOf(ring, s).time) = Log!IntervalOf(t)
      BY <1>2, <2>1, <2>2 DEF RowOf, IntervalOf, Log!IntervalOf
    <2>6. (CHOOSE p \in Logged : Log!IntervalOf(p.time) = Log!IntervalOf(t)) = RowOf(ring, s)
      BY <2>3, <2>4, <2>5
    <2>7. Log!RowAt(t)[c] = RowOf(ring, s).row[c]
      BY <2>3, <2>5, <2>6 DEF Log!RowAt
    <2> QED BY <2>7 DEF RowOf
  <1> QED BY <1>3, <1>4

(* A collector's call is an append to the log.                             *)
LEMMA CallAppends ==
  ASSUME SlabInv, CursorAtHighest,
         NEW t \in Timestamps, NEW entries \in Entries, CollectorCall(entries, t)
  PROVE  Log!Append(entries, t)
  <1>1. PICK s \in 0 .. SlotCount - 1 :
           /\ s = (t \div IntervalNs) % SlotCount
           /\ t \in Nat \ {0} /\ last' = t
           /\ ring \in RT /\ ring' \in RT
           /\ ring'.timestamps = [ring.timestamps EXCEPT ![s] = t]
           /\ ring'.values = [ring.values EXCEPT ![s] =
                [c \in Columns |-> IF c \in DOMAIN entries
                                     THEN entries[c] ELSE ring.values[s][c]]]
    BY CallEffect DEF SlabInv, CollectorCall
  <1>2. t >= last
    BY DEF CollectorCall
  <1> DEFINE New == [time |-> t,
                     row  |-> [c \in Columns |->
                                 IF c \in DOMAIN entries THEN entries[c]
                                 ELSE Log!RowAt(t)[c]]]
             Kept == {p \in Log!Retained(t) : Log!IntervalOf(p.time) # Log!IntervalOf(t)}
  <1>3. \A p \in Logged : p.time <= t
    <2> TAKE p \in Logged
    <2>1. PICK x \in 0 .. SlotCount - 1 : p = RowOf(ring, x) /\ ring.timestamps[x] # 0
      BY <1>1, LoggedMember
    <2>2. /\ ring.timestamps[x] \in Nat /\ ring.timestamps[x] <= last /\ last \in Nat
      BY <1>1, <1>2, <2>1, BeforeCall
    <2>3. p.time = ring.timestamps[x]
      BY <2>1 DEF RowOf
    <2> QED BY <1>1, <1>2, <2>2, <2>3
  <1>4. RowOf(ring', s) = New
    <2>1. [c \in Columns |-> IF c \in DOMAIN entries THEN entries[c] ELSE Log!RowAt(t)[c]]
          = [c \in Columns |-> IF c \in DOMAIN entries THEN entries[c] ELSE ring.values[s][c]]
      BY <1>1, UntouchedColumn
    <2>2. ring'.timestamps[s] = t
      BY <1>1, RingFields
    <2>3. ring'.values[s] = [c \in Columns |-> IF c \in DOMAIN entries
                                                THEN entries[c] ELSE ring.values[s][c]]
      BY <1>1, RingFields
    <2> QED BY <2>1, <2>2, <2>3 DEF RowOf
  <1>5. ASSUME NEW x \in 0 .. SlotCount - 1, x # s
        PROVE  RowOf(ring', x) = RowOf(ring, x) /\ ring'.timestamps[x] = ring.timestamps[x]
    BY <1>1, <1>5, RingFields DEF RowOf
  <1>6. IntervalOf(t) \in Nat /\ IntervalOf(t) > IntervalOf(t) - SlotCount
    BY <1>1, DivNat, RingAssumption DEF IntervalOf
  <1>7. \A p : p \in Logged' <=>
          \E x \in 0 .. SlotCount - 1 :
            /\ p = RowOf(ring', x)
            /\ ring'.timestamps[x] # 0
            /\ IntervalOf(ring'.timestamps[x]) > IntervalOf(t) - SlotCount
    BY <1>1, RingFields DEF Logged, RowOf
  <1>8. ASSUME NEW p \in Logged' PROVE p \in Kept \cup {New}
    <2>1. PICK x \in 0 .. SlotCount - 1 :
            /\ p = RowOf(ring', x)
            /\ ring'.timestamps[x] # 0
            /\ IntervalOf(ring'.timestamps[x]) > IntervalOf(t) - SlotCount
      BY <1>7, <1>8
    <2>2. CASE x = s
      BY <1>4, <2>1, <2>2
    <2>3. CASE x # s
      <3>1. /\ p = RowOf(ring, x) /\ ring.timestamps[x] # 0
            /\ IntervalOf(ring.timestamps[x]) > IntervalOf(t) - SlotCount
        BY <1>5, <2>1, <2>3
      <3>2. /\ IntervalOf(ring.timestamps[x]) \in Nat
            /\ IntervalOf(last) \in Nat /\ IntervalOf(last) <= IntervalOf(t)
            /\ IntervalOf(ring.timestamps[x]) % SlotCount = x
        BY <1>1, <1>2, <3>1, BeforeCall
      <3>3. IntervalOf(ring.timestamps[x]) > IntervalOf(last) - SlotCount
        BY <1>6, <3>1, <3>2, RingAssumption
      <3>4. p \in Logged
        BY <1>1, <3>1, <3>3, LoggedMember
      <3>5. IntervalOf(ring.timestamps[x]) # IntervalOf(t)
        BY <1>1, <2>3, <3>2 DEF IntervalOf
      <3>6. p.time = ring.timestamps[x]
        BY <3>1 DEF RowOf
      <3> QED BY <3>1, <3>4, <3>5, <3>6 DEF Log!Retained, Log!IntervalOf, IntervalOf
    <2> QED BY <2>2, <2>3
  <1>9. ASSUME NEW p \in Kept PROVE p \in Logged'
    <2>1. /\ p \in Logged
          /\ IntervalOf(p.time) > IntervalOf(t) - SlotCount
          /\ IntervalOf(p.time) # IntervalOf(t)
      BY <1>9 DEF Log!Retained, Log!IntervalOf, IntervalOf
    <2>2. PICK x \in 0 .. SlotCount - 1 : p = RowOf(ring, x) /\ ring.timestamps[x] # 0
      BY <1>1, <2>1, LoggedMember
    <2>3. p.time = ring.timestamps[x]
      BY <2>2 DEF RowOf
    <2>4. /\ IntervalOf(ring.timestamps[x]) \in Nat
          /\ IntervalOf(last) \in Nat
          /\ IntervalOf(ring.timestamps[x]) <= IntervalOf(last)
          /\ IntervalOf(last) <= IntervalOf(t)
          /\ IntervalOf(ring.timestamps[x]) % SlotCount = x
      BY <1>1, <1>2, <2>2, BeforeCall
    <2>5. x # s
      <3> SUFFICES ASSUME x = s PROVE FALSE
        OBVIOUS
      <3>1. IntervalOf(ring.timestamps[x]) % SlotCount = IntervalOf(t) % SlotCount
        BY <1>1, <2>4 DEF IntervalOf
      <3>2. IntervalOf(ring.timestamps[x]) < IntervalOf(t)
        BY <1>6, <2>1, <2>3, <2>4
      <3>3. IntervalOf(ring.timestamps[x]) + SlotCount <= IntervalOf(t)
        BY <1>6, <2>4, <3>1, <3>2, ModDistinct, RingAssumption
      <3> QED BY <1>6, <2>1, <2>3, <2>4, <3>3, RingAssumption
    <2> QED BY <1>5, <1>7, <2>1, <2>2, <2>3, <2>5
  <1>10. New \in Logged'
    <2>1. ring'.timestamps[s] = t
      BY <1>1, RingFields
    <2> QED BY <1>1, <1>4, <1>6, <1>7, <2>1
  <1>11. Logged' = Kept \cup {New}
    BY <1>8, <1>9, <1>10
  <1> QED BY <1>3, <1>11 DEF Log!Append

(* The ring of a monotone collector implements the retention log: exactly  *)
(* the rows of the last SlotCount intervals are held, each with the        *)
(* values recorded in its interval, and a restart loses none of them.      *)
THEOREM RingRefinesLog == CollectorSpec => RingImplementsLog
  <1> DEFINE Inv == SlabInv /\ CursorAtHighest
  <1>1. Init => Log!Init
    <2> SUFFICES ASSUME Init PROVE Logged = {}
      BY DEF Log!Init
    <2>1. ring \in RT
      BY InitSlabInv DEF SlabInv, TypeOK, RT
    <2>2. \A x \in 0 .. SlotCount - 1 : ring.timestamps[x] = 0
      BY DEF Init, create
    <2> QED BY <2>1, <2>2, LoggedMember
  <1>2. Inv /\ [CollectorNext]_vars => [Log!Next]_Logged
    <2>1. ASSUME Inv, NEW t \in Timestamps, NEW entries \in Entries,
                 CollectorCall(entries, t)
          PROVE  Log!Next
      <3>1. t # 0
        BY <2>1, CallFacts DEF CollectorCall
      <3> QED BY <2>1, <3>1, CallAppends DEF Log!Next
    <2>2. ASSUME Inv, Reopen PROVE Logged' = Logged
      <3>1. /\ ring \in RT /\ ring' \in RT
            /\ ring'.timestamps = ring.timestamps /\ ring'.values = ring.values
            /\ last' = last
        BY <2>2, ReopenFacts DEF Reopen, SlabInv, TypeOK, RT
      <3> QED BY <3>1, RingFields DEF Logged
    <2>3. ASSUME UNCHANGED vars PROVE Logged' = Logged
      BY <2>3 DEF vars, Logged, Slots, IntervalOf
    <2> QED BY <2>1, <2>2, <2>3 DEF CollectorNext
  <1>3. CollectorSpec => []Inv
    <2>1. CollectorSpec => []SlabInv
      <3>1. SlabInv /\ [CollectorNext]_vars => SlabInv'
        BY CallSlabInv, ReopenSlabInv, StutterSlabInv DEF CollectorNext, CollectorCall
      <3> QED BY InitSlabInv, <3>1, PTL DEF CollectorSpec
    <2> QED BY <2>1, CursorTheorem, PTL
  <1> QED BY <1>1, <1>2, <1>3, PTL DEF CollectorSpec, RingImplementsLog, Log!Spec
-----------------------------------------------------------------------------
(* Monotone collectors: no stale value is read.                            *)

(* What NoStaleRead needs to be inductive: it is true of every cell of the *)
(* slab, read or not.                                                      *)
CellsFresh ==
  \A s \in Slots(ring), c \in Columns :
    ring.values[s][c] # NaN =>
      \E e \in recorded : /\ e[1] = c /\ e[3] = ring.values[s][c]
                         /\ IntervalOf(e[2]) = IntervalOf(ring.timestamps[s])

(* A collector's call keeps it: a cell that the call does not write and    *)
(* that moves to a new timestamp stays in its interval.                    *)
LEMMA CallCellsFresh ==
  ASSUME SlabInv, CellsFresh,
         NEW t \in Timestamps, NEW entries \in Entries, CollectorCall(entries, t)
  PROVE  CellsFresh'
  <1>1. PICK s \in 0 .. SlotCount - 1 :
           /\ s = (t \div IntervalNs) % SlotCount
           /\ t \in Nat \ {0}
           /\ ring \in RT /\ ring' \in RT
           /\ ring'.timestamps = [ring.timestamps EXCEPT ![s] = t]
           /\ ring'.values = [ring.values EXCEPT ![s] =
                [c \in Columns |-> IF c \in DOMAIN entries
                                     THEN entries[c] ELSE ring.values[s][c]]]
    BY CallEffect DEF SlabInv, CollectorCall
  <1>2. recorded' = recorded \cup {<<c, t, entries[c]>> :
                           c \in {x \in DOMAIN entries : entries[x] # NaN}}
    BY CallFacts DEF CollectorCall
  <1> SUFFICES ASSUME NEW x \in 0 .. SlotCount - 1, NEW c \in Columns,
                      ring'.values[x][c] # NaN
               PROVE  \E e \in recorded' :
                        /\ e[1] = c /\ e[3] = ring'.values[x][c]
                        /\ IntervalOf(e[2]) = IntervalOf(ring'.timestamps[x])
    <2>1. Slots(ring)' = 0 .. SlotCount - 1
      BY <1>1, RingFields DEF Slots
    <2> QED BY <2>1 DEF CellsFresh, IntervalOf
  <1>3. ASSUME ring.values[x][c] # NaN
        PROVE  \E e \in recorded : /\ e[1] = c /\ e[3] = ring.values[x][c]
                                  /\ IntervalOf(e[2]) = IntervalOf(ring.timestamps[x])
    BY <1>1, <1>3, RingFields, ZenonT(60) DEF CellsFresh
  <1> DEFINE row == [d \in Columns |-> IF d \in DOMAIN entries
                                         THEN entries[d] ELSE ring.values[s][d]]
  <1>4. ring'.values[s] = row /\ ring'.timestamps[s] = t
    BY <1>1, RingFields
  <1>5. CASE x # s
    <2>1. ring'.values[x] = ring.values[x] /\ ring'.timestamps[x] = ring.timestamps[x]
      BY <1>1, <1>5, RingFields
    <2>2. ring.values[x][c] # NaN
      BY <2>1
    <2> QED BY <1>2, <1>3, <2>1, <2>2
  <1>6. CASE x = s /\ c \in DOMAIN entries
    <2>1. ring'.values[x][c] = entries[c] /\ ring'.timestamps[x] = t
      BY <1>6, <1>4
    <2>2. <<c, t, entries[c]>> \in recorded'
      BY <1>2, <1>6, <2>1
    <2> QED BY <2>1, <2>2
  <1>7. CASE x = s /\ c \notin DOMAIN entries
    <2>1. ring'.values[x][c] = ring.values[x][c] /\ ring'.timestamps[x] = t
      BY <1>7, <1>4
    <2>2. IntervalOf(t) = IntervalOf(last)
      BY <1>7 DEF CollectorCall, FreshRow
    <2>3. last \in Nat /\ ring.timestamps[ring.write_cursor] = last
          /\ ring.write_cursor \in 0 .. SlotCount - 1
      BY <1>1, RingFields, RingAssumption
         DEF SlabInv, TypeOK, NewestIsLastCall, newest_timestamp
    <2>4. last # 0
      BY <1>1, <2>1, <2>3, RingFields DEF SlabInv, NewestIsLastCall, is_empty, SlotHome
    <2>5. ring.write_cursor = x
      <3>1. compute_slot(ring, last) = ring.write_cursor
        BY <1>1, <2>3, <2>4, RingFields, ZenonT(60) DEF SlabInv, SlotHome
      <3> QED BY <1>1, <1>7, <2>2, <3>1, RingFields DEF compute_slot, IntervalOf
    <2>6. IntervalOf(ring.timestamps[x]) = IntervalOf(ring'.timestamps[x])
      BY <2>1, <2>2, <2>3, <2>5
    <2> QED BY <1>2, <1>3, <2>1, <2>6
  <1> QED BY <1>5, <1>6, <1>7

(* Every point a read returns to a collector was recorded for its column,  *)
(* in the interval of the timestamp it carries, over laps and restarts.    *)
THEOREM ReadsAreFresh == CollectorSpec => []NoStaleRead
  <1> DEFINE Inv == SlabInv /\ CellsFresh
  <1>1. Init => Inv
    <2>1. Init => CellsFresh
      BY DEF Init, create, CellsFresh, Slots
    <2> QED BY <2>1, InitSlabInv
  <1>2. Inv /\ [CollectorNext]_vars => Inv'
    <2>1. ASSUME Inv, NEW t \in Timestamps, NEW entries \in Entries,
                 CollectorCall(entries, t)
          PROVE  Inv'
      BY <2>1, CallSlabInv, CallCellsFresh DEF CollectorCall
    <2>2. ASSUME Inv, Reopen PROVE Inv'
      <3>1. /\ ring \in RT /\ ring' \in RT
            /\ ring'.timestamps = ring.timestamps /\ ring'.values = ring.values
            /\ recorded' = recorded
        BY <2>2, ReopenFacts DEF Reopen, SlabInv, TypeOK, RT
      <3>2. CellsFresh'
        BY <2>2, <3>1, RingFields DEF CellsFresh, IntervalOf
      <3> QED BY <2>2, <3>2, ReopenSlabInv
    <2>3. ASSUME Inv, UNCHANGED vars PROVE Inv'
      BY <2>3, StutterSlabInv DEF vars, CellsFresh, Slots, IntervalOf
    <2> QED BY <2>1, <2>2, <2>3 DEF CollectorNext
  <1>3. Inv => NoStaleRead
    <2> SUFFICES ASSUME Inv, NEW c \in Columns, NEW p \in ToSet(ReadAll(ring, c))
                 PROVE  \E e \in recorded : /\ e[1] = c /\ e[3] = p[2]
                                           /\ IntervalOf(e[2]) = IntervalOf(p[1])
      BY DEF NoStaleRead
    <2>1. ring \in RT
      BY DEF SlabInv, TypeOK, RT
    <2>2. PICK end : p \in ToSet(read(ring, c, 0, end))
      BY DEF ReadAll
    <2>3. PICK k \in DOMAIN read(ring, c, 0, end) : p = read(ring, c, 0, end)[k]
      BY <2>2 DEF ToSet
    <2>4. PICK s \in 0 .. SlotCount - 1 :
            /\ read(ring, c, 0, end)[k] = <<ring.timestamps[s], ring.values[s][c]>>
            /\ ring.values[s][c] # NaN
      BY <2>1, ReadSound, RingAssumption DEF RT
    <2>5. p[1] = ring.timestamps[s] /\ p[2] = ring.values[s][c]
      BY <2>3, <2>4
    <2>6. s \in Slots(ring)
      BY <2>1, RingFields
    <2> QED BY <2>4, <2>5, <2>6 DEF CellsFresh
  <1> QED BY <1>1, <1>2, <1>3, PTL DEF CollectorSpec
-----------------------------------------------------------------------------
(* Monotone collectors: a query knows what it has lost.                    *)

(* A recorded interval is only ever replaced in its slot by a later one.   *)
NewestOfSlot ==
  \A e \in recorded :
    /\ e[2] <= last
    /\ \E s \in 0 .. SlotCount - 1 :
         /\ s = IntervalOf(e[2]) % SlotCount
         /\ IntervalOf(e[2]) <= IntervalOf(ring.timestamps[s])

(* A collector's call keeps it, because its clock does not go back.        *)
LEMMA CallNewestOfSlot ==
  ASSUME SlabInv, NewestOfSlot,
         NEW t \in Timestamps, NEW entries \in Entries, CollectorCall(entries, t)
  PROVE  NewestOfSlot'
  <1>1. PICK s \in 0 .. SlotCount - 1 :
           /\ s = (t \div IntervalNs) % SlotCount
           /\ t \in Nat \ {0} /\ last' = t
           /\ ring \in RT /\ ring' \in RT
           /\ ring'.timestamps = [ring.timestamps EXCEPT ![s] = t]
    BY CallEffect DEF SlabInv, CollectorCall
  <1>2. recorded' = recorded \cup {<<c, t, entries[c]>> :
                           c \in {x \in DOMAIN entries : entries[x] # NaN}}
    BY CallFacts DEF CollectorCall
  <1>3. last \in Nat /\ last <= t /\ IntervalNs \in Nat \ {0} /\ SlotCount \in Nat \ {0}
    BY RingAssumption DEF SlabInv, TypeOK, CollectorCall
  <1>4. ring'.timestamps[s] = t
    BY <1>1, RingFields
  <1> SUFFICES ASSUME NEW e \in recorded'
               PROVE  /\ e[2] <= t
                      /\ \E x \in 0 .. SlotCount - 1 :
                           /\ x = IntervalOf(e[2]) % SlotCount
                           /\ IntervalOf(e[2]) <= IntervalOf(ring'.timestamps[x])
    BY <1>1 DEF NewestOfSlot, IntervalOf
  <1>5. CASE e[2] = t
    <2>1. IntervalOf(t) \in Nat /\ s = IntervalOf(t) % SlotCount
      BY <1>1, <1>3, DivNat DEF IntervalOf
    <2> QED BY <1>1, <1>4, <1>5, <2>1
  <1>6. CASE e[2] # t
    <2>1. e \in recorded /\ e[2] \in Nat
      <3>1. e \in recorded
        BY <1>2, <1>6
      <3> QED BY <3>1, RingAssumption DEF SlabInv, TypeOK
    <2>2. PICK x \in 0 .. SlotCount - 1 :
            /\ x = IntervalOf(e[2]) % SlotCount
            /\ IntervalOf(e[2]) <= IntervalOf(ring.timestamps[x])
      BY <2>1 DEF NewestOfSlot
    <2>3. e[2] <= last
      BY <2>1 DEF NewestOfSlot
    <2>4. CASE x = s
      <3>1. IntervalOf(e[2]) <= IntervalOf(t)
        <4>1. e[2] <= t
          BY <1>1, <1>3, <2>1, <2>3
        <4> QED BY <1>1, <1>3, <2>1, <4>1, DivMonotone DEF IntervalOf
      <3> QED BY <1>1, <1>3, <1>4, <2>1, <2>2, <2>3, <2>4, <3>1
    <2>5. CASE x # s
      <3>1. ring'.timestamps[x] = ring.timestamps[x]
        BY <1>1, <2>5, RingFields
      <3> QED BY <1>1, <1>3, <2>1, <2>2, <2>3, <3>1
    <2> QED BY <2>4, <2>5
  <1> QED BY <1>5, <1>6

(* The least interval with a record, where there is one.                   *)
LEMMA FirstRecorded ==
  ASSUME SlabInv, recorded # {}
  PROVE  Min(Recorded) \in Recorded /\ Recorded \in SUBSET Nat
  <1>1. \A e \in recorded : e[2] \in Nat
    BY RingAssumption DEF SlabInv, TypeOK
  <1>2. \A e \in recorded : IntervalOf(e[2]) \in Nat
    BY <1>1, DivNat, RingAssumption DEF IntervalOf
  <1>3. Recorded \in SUBSET Nat /\ Recorded # {}
    BY <1>2 DEF Recorded
  <1> HIDE DEF Recorded
  <1>4. \E x \in Recorded : \A y \in Recorded : x <= y
    BY <1>3, LeastNat
  <1>5. Min(Recorded) \in Recorded
    BY <1>4 DEF Min
  <1> QED BY <1>3, <1>5

(* Without gaps, a ring that lost a record has no row of that age left, so *)
(* the oldest row tells.                                                   *)
LEMMA OldestTells ==
  ASSUME SlabInv, CursorAtHighest, NewestOfSlot, Gapless,
         NEW e \in recorded, NEW x \in 0 .. SlotCount - 1,
         ring.timestamps[x] # 0, ring.timestamps[x] <= e[2]
  PROVE  \E s \in Slots(ring) : IntervalOf(ring.timestamps[s]) = IntervalOf(e[2])
  <1> DEFINE n == SlotCount
             k == IntervalOf(e[2])
             i == IntervalOf(last)
             ts == ring.timestamps
  <1>1. /\ ring \in RT /\ n \in Nat \ {0} /\ IntervalNs \in Nat \ {0} /\ last \in Nat
        /\ e[2] \in Nat /\ Slots(ring) = 0 .. n - 1
    <2>1. ring \in RT /\ last \in Nat
      BY RingAssumption DEF SlabInv, TypeOK, RT
    <2>2. \A f \in recorded : f[2] \in Nat
      BY RingAssumption DEF SlabInv, TypeOK
    <2> QED BY <2>1, <2>2, RingFields, RingAssumption
  <1>2. \A s \in 0 .. n - 1 : ts[s] \in Nat /\ ts[s] <= last
    <2>1. ts \in [0 .. n - 1 -> Nat]
      BY <1>1, RingFields
    <2> QED BY <1>1, <2>1 DEF CursorAtHighest, SlabInv, NewestIsLastCall
  <1>3. /\ k \in Nat /\ i \in Nat /\ k <= i
        /\ \A s \in 0 .. n - 1 : IntervalOf(ts[s]) \in Nat /\ IntervalOf(ts[s]) <= i
    <2>1. e[2] <= last
      BY DEF NewestOfSlot
    <2>2. \A a \in Nat : a \div IntervalNs \in Nat
      BY <1>1, DivNat
    <2>3. \A a \in Nat : a <= last => a \div IntervalNs <= last \div IntervalNs
      BY <1>1, DivMonotone
    <2> QED BY <1>1, <1>2, <2>1, <2>2, <2>3 DEF IntervalOf
  <1>4. \A s \in 0 .. n - 1 : ts[s] # 0 => IntervalOf(ts[s]) % n = s
    BY <1>1, RingFields DEF SlabInv, SlotHome, compute_slot, IntervalOf
  <1>5. PICK s \in 0 .. n - 1 : s = k % n /\ k <= IntervalOf(ts[s])
    BY DEF NewestOfSlot
  <1>6. ASSUME IntervalOf(ts[s]) # k PROVE k + n <= i
    <2> DEFINE j == IntervalOf(ts[s])
    <2>1. j \in Nat /\ k < j /\ j <= i
      BY <1>3, <1>5, <1>6
    <2>2. ts[s] # 0
      <3>1. 0 \div IntervalNs = 0
        BY <1>1
      <3> QED BY <1>3, <2>1, <3>1 DEF IntervalOf
    <2>3. j % n = k % n
      BY <1>4, <1>5, <2>2
    <2> HIDE DEF j, k
    <2>4. k + n <= j
      BY <1>1, <1>3, <2>1, <2>3, ModDistinct
    <2> QED BY <1>1, <1>3, <2>1, <2>4
  <1>7. ASSUME k + n <= i PROVE FALSE
    <2> DEFINE old == IntervalOf(ts[x])
    <2>1. old \in Nat /\ old <= k /\ old % n = x
      <3>1. old \in Nat /\ old % n = x
        BY <1>3, <1>4
      <3>2. old <= k
        BY <1>1, <1>2, DivMonotone DEF IntervalOf
      <3> QED BY <3>1, <3>2
    <2> HIDE DEF old, k, i
    <2>2. PICK q \in Nat : k < q /\ q <= k + n /\ q % n = old % n
      BY <1>1, <1>3, <2>1, NextInSlot
    <2>3. q \in Recorded
      <3>1. /\ Recorded = Min(Recorded) .. i
            /\ Min(Recorded) \in Nat /\ Recorded \in SUBSET Nat
        BY FirstRecorded DEF Gapless, i
      <3>2. k \in Recorded
        BY DEF Recorded, k
      <3> QED BY <1>1, <1>3, <1>7, <2>2, <3>1, <3>2
    <2>4. PICK f \in recorded : IntervalOf(f[2]) = q
      BY <2>3 DEF Recorded
    <2>5. q <= IntervalOf(ts[x])
      BY <2>1, <2>2, <2>4 DEF NewestOfSlot
    <2> QED BY <1>3, <2>1, <2>2, <2>5 DEF old
  <1> QED BY <1>1, <1>5, <1>6, <1>7

(* A query of a collector without gaps that is not marked incomplete has   *)
(* every interval of its range in which something was recorded, over any   *)
(* number of laps and restarts: analyze_coverage may trust the oldest      *)
(* timestamp.                                                              *)
THEOREM CoverageStaysHonest == CollectorSpec => []CoverageHonest
  <1> DEFINE Inv == SlabInv /\ NewestOfSlot
  <1>1. Init => Inv
    <2>1. Init => NewestOfSlot
      BY DEF Init, NewestOfSlot
    <2> QED BY <2>1, InitSlabInv
  <1>2. Inv /\ [CollectorNext]_vars => Inv'
    <2>1. ASSUME Inv, NEW t \in Timestamps, NEW entries \in Entries,
                 CollectorCall(entries, t)
          PROVE  Inv'
      BY <2>1, CallSlabInv, CallNewestOfSlot DEF CollectorCall
    <2>2. ASSUME Inv, Reopen PROVE Inv'
      <3>1. /\ ring'.timestamps = ring.timestamps
            /\ recorded' = recorded /\ last' = last
        BY <2>2, ReopenFacts DEF Reopen, SlabInv, TypeOK, RT
      <3>2. NewestOfSlot'
        BY <2>2, <3>1 DEF NewestOfSlot, IntervalOf
      <3> QED BY <2>2, <3>2, ReopenSlabInv
    <2>3. ASSUME Inv, UNCHANGED vars PROVE Inv'
      BY <2>3, StutterSlabInv DEF vars, NewestOfSlot, IntervalOf
    <2> QED BY <2>1, <2>2, <2>3 DEF CollectorNext
  <1>3. Inv /\ CursorAtHighest => CoverageHonest
    <2> SUFFICES ASSUME Inv, CursorAtHighest, Gapless,
                        NEW start \in Timestamps, NEW end \in Timestamps, start < end,
                        ~analyze_coverage(ring, start, end).may_be_incomplete,
                        NEW e \in recorded, e[2] \in start .. end - 1
                 PROVE  \E s \in Slots(ring) : IntervalOf(ring.timestamps[s]) = IntervalOf(e[2])
      BY DEF CoverageHonest
    <2>1. /\ ring \in RT /\ start \in Nat /\ end \in Nat /\ SlotCount \in Nat \ {0}
      BY RingAssumption DEF SlabInv, TypeOK, RT
    <2>2. newest_timestamp(ring) # 0 /\ ~(start < oldest_timestamp(ring))
      BY DEF analyze_coverage
    <2>3. ~is_empty(ring)
      BY <2>2 DEF newest_timestamp, is_empty
    <2>4. PICK k \in 0 .. SlotCount - 1 :
            /\ oldest_timestamp(ring) = ring.timestamps[ScanSlot(ring, k)]
            /\ ring.timestamps[ScanSlot(ring, k)] # 0
      BY <2>1, <2>3, OldestShape DEF RT
    <2>5. \A j \in 0 .. SlotCount - 1 : ScanSlot(ring, j) \in 0 .. SlotCount - 1
      BY <2>1, ScanFacts DEF RT
    <2> DEFINE x == ScanSlot(ring, k)
    <2>6. x \in 0 .. SlotCount - 1 /\ ring.timestamps[x] \in Nat
      BY <2>1, <2>5, RingFields
    <2> HIDE DEF x
    <2>7. ring.timestamps[x] # 0 /\ ring.timestamps[x] <= e[2]
      BY <2>1, <2>2, <2>4, <2>6 DEF x
    <2> QED BY <2>6, <2>7, OldestTells
  <1> QED BY <1>1, <1>2, <1>3, CursorTheorem, PTL DEF CollectorSpec

-----------------------------------------------------------------------------
(* Collectors without gaps: a read is the log.                             *)

(* One lap later comes the same slot.                                      *)
LEMMA LapLater ==
  ASSUME NEW n \in Nat \ {0}, NEW a \in Nat, NEW b, b = a + n
  PROVE  b \in Nat /\ b % n = a % n
  <1>1. PICK q \in Nat : a < q /\ q <= a + n /\ q % n = a % n
    BY NextInSlot
  <1>2. a + n <= q
    BY <1>1, ModDistinct
  <1>3. q = b
    BY <1>1, <1>2
  <1> QED BY <1>1, <1>3

(* Recording began in interval m, the first of a lap, and has left none    *)
(* out since, but for the interval that the collector is in.               *)
FromLap(m) ==
  /\ m % SlotCount = 0
  /\ m \in Recorded /\ \A k \in Recorded : m <= k
  /\ \A k \in Nat : m <= k /\ k < IntervalOf(last) => k \in Recorded

(* What ReadIsLog needs to be inductive: such a ring has noticed that it   *)
(* has wrapped, or found out at the last start.                            *)
WrapKnown ==
  \A m \in Nat :
    FromLap(m) /\ ~ring.has_wrapped /\ SlotCount > 1 => IntervalOf(last) < m + SlotCount

(* Where the collector is, as far as the ring shows it.                    *)
LEMMA Position ==
  ASSUME SlabInv
  PROVE  /\ ring \in RT /\ SlotCount \in Nat \ {0} /\ IntervalNs \in Nat \ {0}
         /\ last \in Nat /\ IntervalOf(last) \in Nat
         /\ last # 0 => ring.write_cursor = IntervalOf(last) % SlotCount
  <1>1. /\ ring \in RT /\ SlotCount \in Nat \ {0} /\ IntervalNs \in Nat \ {0} /\ last \in Nat
    BY RingAssumption DEF SlabInv, TypeOK, RT
  <1>2. IntervalOf(last) \in Nat
    BY <1>1, DivNat DEF IntervalOf
  <1>3. last = ring.timestamps[ring.write_cursor] /\ ring.write_cursor \in Slots(ring)
    BY <1>1, RingFields DEF SlabInv, NewestIsLastCall, newest_timestamp
  <1>4. last # 0 => compute_slot(ring, last) = ring.write_cursor
    BY <1>3 DEF SlabInv, SlotHome
  <1>5. compute_slot(ring, last) = IntervalOf(last) % SlotCount
    BY <1>1, RingFields DEF compute_slot, IntervalOf
  <1> QED BY <1>1, <1>2, <1>4, <1>5

(* No recorded interval is ahead of the collector.                         *)
LEMMA RecordedBehind ==
  ASSUME SlabInv, NewestOfSlot, NEW k \in Recorded
  PROVE  k \in Nat /\ k <= IntervalOf(last)
  <1>1. PICK e \in recorded : k = IntervalOf(e[2])
    BY DEF Recorded
  <1>2. e[2] \in Nat /\ e[2] <= last
    <2>1. \A f \in recorded : f[2] \in Nat
      BY RingAssumption DEF SlabInv, TypeOK
    <2> QED BY <2>1 DEF NewestOfSlot
  <1>3. e[2] \div IntervalNs \in Nat /\ e[2] \div IntervalNs <= last \div IntervalNs
    BY <1>2, Position, DivNat, DivMonotone
  <1> QED BY <1>1, <1>3 DEF IntervalOf

(* In the first lap the collector is as many slots from slot 0 as          *)
(* intervals from the first one.                                           *)
LEMMA FirstLap ==
  ASSUME NEW n \in Nat \ {0}, NEW m \in Nat, NEW i \in Nat, m % n = 0, m <= i, i < m + n
  PROVE  i = m + (i % n)
  <1>1. m + Behind(m, i, n) = i
    BY SlotsBehind
  <1>2. i % n \in 0 .. n - 1
    BY ModRange
  <1>3. Behind(m, i, n) = i % n
    BY <1>2 DEF Behind, Back
  <1> QED BY <1>1, <1>3

(* A call keeps it: leaving the first lap goes from the last slot to slot  *)
(* 0, and write notices.                                                   *)
LEMMA CallWrapKnown ==
  ASSUME SlabInv, NewestOfSlot, WrapKnown,
         NEW t \in Timestamps, NEW entries \in Entries, CollectorCall(entries, t)
  PROVE  WrapKnown'
  <1> DEFINE n == SlotCount
             i == IntervalOf(last)
             j == IntervalOf(t)
  <1>1. PICK s \in 0 .. SlotCount - 1 :
           /\ s = (t \div IntervalNs) % SlotCount
           /\ t \in Nat \ {0} /\ last' = t
           /\ ring'.has_wrapped <=> (ring.has_wrapped \/ s < ring.write_cursor)
    BY CallEffect DEF SlabInv, CollectorCall
  <1>2. n \in Nat \ {0} /\ i \in Nat /\ last \in Nat
    BY Position
  <1>3. j \in Nat /\ i <= j /\ s = j % n
    BY <1>1, Position, DivNat, DivMonotone DEF IntervalOf, CollectorCall
  <1>4. Recorded \subseteq Recorded' /\ \A k \in Recorded' : k \in Recorded \/ k = j
    <2>1. recorded' = recorded \cup {<<c, t, entries[c]>> :
                           c \in {x \in DOMAIN entries : entries[x] # NaN}}
      BY CallFacts DEF CollectorCall
    <2>2. \A e \in recorded' : e \in recorded \/ e[2] = t
      BY <2>1
    <2> QED BY <2>1, <2>2 DEF Recorded, IntervalOf
  <1> SUFFICES ASSUME NEW m \in Nat, FromLap(m)', ~ring'.has_wrapped, n > 1
               PROVE  j < m + n
    BY <1>1 DEF WrapKnown, IntervalOf
  <1>5. /\ m % n = 0 /\ m \in Recorded' /\ \A k \in Recorded' : m <= k
        /\ \A k \in Nat : m <= k /\ k < j => k \in Recorded'
    BY <1>1 DEF FromLap, IntervalOf
  <1> HIDE DEF n, i, j
  <1>6. CASE m \notin Recorded
    <2>1. m = j
      BY <1>4, <1>5, <1>6
    <2> QED BY <1>2, <2>1
  <1>7. CASE m \in Recorded
    <2>1. \A k \in Recorded : k \in Nat /\ k <= i
      BY RecordedBehind DEF i
    <2>2. ASSUME NEW k \in Nat, m <= k, k < j PROVE k \in Recorded
      BY <1>4, <1>5, <2>2, <1>3
    <2>3. FromLap(m)
      <3>1. \A k \in Nat : m <= k /\ k < i => k \in Recorded
        BY <1>2, <1>3, <2>2
      <3> QED BY <1>4, <1>5, <1>7, <3>1 DEF FromLap, n, i
    <2>4. i < m + n /\ m <= i
      BY <1>1, <1>7, <2>1, <2>3 DEF WrapKnown, n, i
    <2>5. j <= i + 1
      <3> SUFFICES ASSUME i + 1 < j PROVE FALSE
        BY <1>2, <1>3
      <3>1. i + 1 \in Recorded
        BY <1>2, <2>2, <2>4
      <3> QED BY <1>2, <2>1, <3>1
    <2>6. ASSUME j = m + n PROVE FALSE
      <3>1. j = i + 1 /\ i = m + (i % n) /\ i % n \in 0 .. n - 1
        <4>1. j = i + 1
          BY <1>2, <2>4, <2>5, <2>6
        <4>2. i = m + (i % n)
          BY <1>2, <1>5, <2>4, FirstLap
        <4>3. i % n \in 0 .. n - 1
          BY <1>2, ModRange
        <4> QED BY <4>1, <4>2, <4>3
      <3>2. (i % n) + 1 = n
        BY <1>2, <2>6, <3>1
      <3>3. j % n = 0
        BY <1>2, <3>1, <3>2, NextSlot
      <3>4. last # 0
        <4> SUFFICES ASSUME last = 0 PROVE FALSE
          OBVIOUS
        <4>1. i = 0
          BY Position DEF i, IntervalOf
        <4> QED BY <1>2, <3>1, <2>4, <2>6, <4>1
      <3>5. ring.write_cursor = i % n
        BY <3>4, Position DEF n, i
      <3> QED BY <1>1, <1>2, <1>3, <3>1, <3>2, <3>3, <3>5
    <2> QED BY <1>2, <1>3, <2>4, <2>5, <2>6
  <1> QED BY <1>6, <1>7

(* So does a restart: after the first lap the slot that RingBuffer::new    *)
(* looks at is filled.                                                     *)
LEMMA ReopenWrapKnown ==
  ASSUME SlabInv, NewestOfSlot, WrapKnown, Reopen
  PROVE  WrapKnown'
  <1> DEFINE n == SlotCount
             i == IntervalOf(last)
             w == ring.write_cursor
             next == IF w = 0 THEN 1 ELSE (w + 1) % n
  <1>1. /\ ring \in RT /\ n \in Nat \ {0} /\ i \in Nat /\ last \in Nat
        /\ w \in 0 .. n - 1 /\ ring.timestamps \in [0 .. n - 1 -> Nat]
        /\ last # 0 => w = i % n
    BY Position, RingFields
  <1>2. /\ last' = last /\ recorded' = recorded
        /\ ring'.has_wrapped <=> (next \in 0 .. n - 1 /\ ring.timestamps[next] # 0)
    <2>1. ring.slot_count = n /\ Slots(ring) = 0 .. n - 1
      BY <1>1, RingFields
    <2>2. ring' = reopen(ring) /\ UNCHANGED <<last, recorded>>
      BY DEF Reopen
    <2>3. reopen(ring).has_wrapped <=> (next \in 0 .. n - 1 /\ ring.timestamps[next] # 0)
      BY <1>1, <2>1 DEF reopen, RT, RingType
    <2> QED BY <2>2, <2>3
  <1> SUFFICES ASSUME NEW m \in Nat, FromLap(m), ~ring'.has_wrapped, n > 1, ~(i < m + n)
               PROVE  FALSE
    BY <1>2 DEF WrapKnown, FromLap, Recorded, IntervalOf
  <1>3. m + n <= i /\ 0 < i
    BY <1>1
  <1>4. last # 0
    <2>1. 0 \div IntervalNs = 0
      BY Position
    <2> QED BY <1>3, <2>1 DEF IntervalOf
  <1>5. next \in 0 .. n - 1 /\ next = (i + 1) % n
    <2>1. w = i % n /\ (i + 1) % n = IF (i % n) + 1 = n THEN 0 ELSE (i % n) + 1
      BY <1>1, <1>4, NextSlot
    <2>2. next = IF w + 1 = n THEN 0 ELSE w + 1
      <3> HIDE DEF n, w
      <3>1. PICK x \in Nat : x = w + 1
        BY <1>1
      <3>2. x < n + n /\ x <= n
        BY <1>1, <3>1
      <3>3. x % n = IF x < n THEN x ELSE x - n
        BY <1>1, <3>2, LapOver
      <3>4. (w + 1) % n = IF w + 1 = n THEN 0 ELSE w + 1
        BY <1>1, <3>1, <3>2, <3>3
      <3> QED BY <1>1, <3>4
    <2> HIDE DEF n, w, i, next
    <2>3. next = (i + 1) % n
      BY <2>1, <2>2
    <2>4. next \in 0 .. n - 1
      BY <1>1, <2>2
    <2> QED BY <2>3, <2>4
  <1>6. PICK k \in Nat : k + n = i + 1
    <2>1. i + 1 - n \in Nat /\ (i + 1 - n) + n = i + 1
      BY <1>1, <1>3
    <2> QED BY <2>1
  <1>7. m <= k /\ k < i /\ 0 < k
    BY <1>1, <1>3, <1>6
  <1>8. k % n = next
    BY <1>1, <1>5, <1>6, LapLater
  <1> HIDE DEF n, i, w, next
  <1>9. k \in Recorded
    BY <1>7 DEF FromLap, i
  <1>10. PICK e \in recorded : k = IntervalOf(e[2])
    BY <1>9 DEF Recorded
  <1>11. k <= IntervalOf(ring.timestamps[next])
    BY <1>8, <1>10 DEF NewestOfSlot, n
  <1>12. ring.timestamps[next] = 0
    BY <1>2, <1>5
  <1>13. 0 \div IntervalNs = 0
    BY Position
  <1> QED BY <1>7, <1>11, <1>12, <1>13 DEF IntervalOf

(* Without gaps a slot that has a value for a column holds one of the last *)
(* SlotCount intervals, no older than the first recorded one.              *)
LEMMA FilledSlot ==
  ASSUME SlabInv, CursorAtHighest, NewestOfSlot, CellsFresh, NEW m \in Nat, FromLap(m),
         IntervalOf(last) \in Recorded,
         NEW c \in Columns, NEW x \in 0 .. SlotCount - 1, ring.values[x][c] # NaN
  PROVE  /\ ring.timestamps[x] \in Nat \ {0} /\ IntervalOf(ring.timestamps[x]) \in Nat
         /\ IntervalOf(ring.timestamps[x]) % SlotCount = x
         /\ m <= IntervalOf(ring.timestamps[x]) /\ IntervalOf(ring.timestamps[x]) <= IntervalOf(last)
         /\ IntervalOf(last) < IntervalOf(ring.timestamps[x]) + SlotCount
  <1> DEFINE n == SlotCount
             k == IntervalOf(ring.timestamps[x])
             i == IntervalOf(last)
  <1>1. x \in Slots(ring) /\ ring \in RT /\ n \in Nat \ {0} /\ i \in Nat /\ last \in Nat
    BY Position, RingFields
  <1>2. ring.timestamps[x] \in Nat \ {0}
    BY <1>1, RingFields DEF SlabInv, SlotHome
  <1>3. k \in Nat /\ k <= i /\ k % n = x
    BY <1>2, Position, BeforeCall
  <1>4. PICK e \in recorded : IntervalOf(e[2]) = k
    BY <1>1 DEF CellsFresh
  <1>5. k \in Recorded
    BY <1>4 DEF Recorded
  <1>6. m <= k
    BY <1>5 DEF FromLap
  <1> HIDE DEF n, k, i
  <1>7. ASSUME k + n <= i PROVE FALSE
    <2>1. PICK q \in Nat : q = k + n
      BY <1>1, <1>3
    <2>2. q % n = x
      BY <1>1, <1>3, <2>1, LapLater
    <2>3. q \in Recorded
      <3>1. m <= q /\ (q < i \/ q = i)
        BY <1>1, <1>3, <1>6, <1>7, <2>1
      <3> QED BY <3>1 DEF FromLap, i
    <2>4. PICK f \in recorded : IntervalOf(f[2]) = q
      BY <2>3 DEF Recorded
    <2>5. q <= k
      BY <2>2, <2>4 DEF NewestOfSlot, n, k
    <2> QED BY <1>1, <1>3, <2>1, <2>5
  <1>8. i < k + n
    BY <1>1, <1>3, <1>7
  <1> QED BY <1>2, <1>3, <1>6, <1>8 DEF n, k, i

(* Within one lap, how far an interval is behind shows in the slots.       *)
LEMMA SlotsTell ==
  ASSUME NEW n \in Nat \ {0}, NEW a \in Nat, NEW b \in Nat, a <= b, b < a + n
  PROVE  a + Back(a % n, b % n, n) = b
  BY SlotsBehind DEF Behind

(* The iterator comes past that slot.                                      *)
LEMMA FilledVisited ==
  ASSUME SlabInv, CursorAtHighest, NewestOfSlot, CellsFresh, WrapKnown, NEW m \in Nat, FromLap(m),
         IntervalOf(last) \in Recorded,
         NEW c \in Columns, NEW x \in 0 .. SlotCount - 1, ring.values[x][c] # NaN
  PROVE  ~is_empty(ring) /\ (ring.has_wrapped \/ x <= ring.write_cursor)
  <1> DEFINE n == SlotCount
             k == IntervalOf(ring.timestamps[x])
             i == IntervalOf(last)
             w == ring.write_cursor
  <1>1. /\ ring.timestamps[x] \in Nat \ {0} /\ k \in Nat /\ k % n = x
        /\ m <= k /\ k <= i /\ i < k + n
    BY FilledSlot
  <1>2. ring \in RT /\ n \in Nat \ {0} /\ i \in Nat /\ last \in Nat /\ w \in 0 .. n - 1 /\ x \in Slots(ring)
    BY Position, RingFields
  <1>3. ~is_empty(ring)
    BY <1>1, <1>2 DEF SlabInv, NewestIsLastCall
  <1>4. last # 0
    BY <1>3 DEF is_empty, SlabInv, NewestIsLastCall, newest_timestamp
  <1>5. w = i % n
    BY <1>4, Position
  <1>6. ASSUME ~ring.has_wrapped, w < x PROVE FALSE
    <2>1. n > 1
      BY <1>2, <1>6
    <2>2. i < m + n /\ m % n = 0
      BY <1>6, <2>1 DEF WrapKnown, FromLap
    <2> HIDE DEF n, k, i, w
    <2>3. i = m + w
      <3>1. m <= i
        BY <1>1, <1>2
      <3>2. i = m + (i % n)
        BY <1>2, <2>2, <3>1, FirstLap
      <3> QED BY <1>5, <3>2
    <2>4. k = m + x
      <3>1. k < m + n
        BY <1>1, <1>2, <2>2
      <3> QED BY <1>1, <1>2, <2>2, <3>1, FirstLap
    <2> QED BY <1>1, <1>2, <1>6, <2>3, <2>4
  <1> QED BY <1>2, <1>3, <1>6

(* Of two slots that the iterator comes past, the later one is newer.      *)
LEMMA VisitedInOrder ==
  ASSUME SlabInv, CursorAtHighest, NewestOfSlot, CellsFresh, NEW m \in Nat, FromLap(m),
         IntervalOf(last) \in Recorded, NEW c \in Columns,
         NEW p \in DOMAIN IterationOrder(ring), NEW q \in DOMAIN IterationOrder(ring), p < q,
         ring.values[IterationOrder(ring)[p]][c] # NaN, ring.values[IterationOrder(ring)[q]][c] # NaN
  PROVE  ring.timestamps[IterationOrder(ring)[p]] < ring.timestamps[IterationOrder(ring)[q]]
  <1> DEFINE n == SlotCount
             i == IntervalOf(last)
             w == ring.write_cursor
             order == IterationOrder(ring)
             x == order[p]
             y == order[q]
             a == IntervalOf(ring.timestamps[x])
             b == IntervalOf(ring.timestamps[y])
  <1>1. ring \in RT /\ n \in Nat \ {0} /\ i \in Nat /\ last \in Nat /\ w \in 0 .. n - 1
    BY Position, RingFields
  <1>2. PICK len \in 0 .. n :
           /\ order \in [1 .. len -> 0 .. n - 1]
           /\ len = IF is_empty(ring) THEN 0 ELSE IF ring.has_wrapped THEN n ELSE w + 1
           /\ \A h \in 1 .. len : order[h] = IF ring.has_wrapped THEN (w + h) % n ELSE h - 1
    <2>1. ring \in RingType(n, IntervalNs, Columns, Values)
      BY <1>1 DEF RT
    <2>2. \E len \in 0 .. n : Visits(ring, n, len)
      BY <1>1, <2>1, OrderFacts
    <2> QED BY <2>2 DEF Visits
  <1>3. /\ p \in 1 .. len /\ q \in 1 .. len /\ ~is_empty(ring)
        /\ x \in 0 .. n - 1 /\ y \in 0 .. n - 1
    BY <1>1, <1>2
  <1>4. /\ a \in Nat /\ a % n = x /\ a <= i /\ i < a + n /\ ring.timestamps[x] \in Nat
    BY <1>3, FilledSlot
  <1>5. /\ b \in Nat /\ b % n = y /\ b <= i /\ i < b + n /\ ring.timestamps[y] \in Nat
    BY <1>3, FilledSlot
  <1>6. w = i % n
    <2>1. last # 0
      BY <1>3 DEF is_empty, SlabInv, NewestIsLastCall, newest_timestamp
    <2> QED BY <2>1, Position
  <1>7. x = (IF ring.has_wrapped THEN (w + p) % n ELSE p - 1) /\ y = (IF ring.has_wrapped THEN (w + q) % n ELSE q - 1)
    BY <1>2, <1>3
  <1> HIDE DEF n, i, w, order, x, y, a, b
  <1>8. a + Back(x, w, n) = i /\ b + Back(y, w, n) = i
    BY <1>1, <1>4, <1>5, <1>6, SlotsTell
  <1>9. Back(x, w, n) \in Nat /\ Back(y, w, n) \in Nat /\ Back(y, w, n) < Back(x, w, n)
    <2>1. CASE ~ring.has_wrapped
      <3>1. x = p - 1 /\ y = q - 1 /\ q <= w + 1 /\ p \in Nat /\ q \in Nat
        BY <1>1, <1>2, <1>3, <1>7, <2>1
      <3> QED BY <1>1, <1>3, <3>1 DEF Back
    <2>2. CASE ring.has_wrapped
      <3>1. \A h \in 1 .. n : (w + h) % n = IF w + h < n THEN w + h ELSE w + h - n
        <4> SUFFICES ASSUME NEW h \in 1 .. n PROVE (w + h) % n = IF w + h < n THEN w + h ELSE w + h - n
          OBVIOUS
        <4> DEFINE z == w + h
        <4>1. z \in Nat /\ z < n + n
          BY <1>1
        <4> HIDE DEF z
        <4>2. z % n = IF z < n THEN z ELSE z - n
          BY <1>1, <4>1, LapOver
        <4> QED BY <1>1, <4>2 DEF z
      <3>2. p \in 1 .. n /\ q \in 1 .. n
        BY <1>2, <1>3, <2>2
      <3>3. /\ x = IF w + p < n THEN w + p ELSE w + p - n
            /\ y = IF w + q < n THEN w + q ELSE w + q - n
        BY <1>7, <2>2, <3>1, <3>2
      <3>4. Back(x, w, n) = n - p /\ Back(y, w, n) = n - q
        BY <1>1, <3>2, <3>3 DEF Back
      <3> QED BY <1>1, <3>2, <3>4
    <2> QED BY <2>1, <2>2
  <1>10. a < b
    BY <1>4, <1>5, <1>8, <1>9
  <1>11. ~(ring.timestamps[y] <= ring.timestamps[x])
    <2> SUFFICES ASSUME ring.timestamps[y] <= ring.timestamps[x] PROVE FALSE
      OBVIOUS
    <2>1. b <= a
      BY <1>4, <1>5, Position, DivMonotone DEF a, b, IntervalOf
    <2> QED BY <1>4, <1>5, <1>10, <2>1
  <1>12. ring.timestamps[x] < ring.timestamps[y]
    BY <1>4, <1>5, <1>11
  <1> QED BY <1>12 DEF x, y, order

(* The retained points of a range.                                         *)
Retained(c, start, end) ==
  {<<p.time, p.row[c]>> : p \in {q \in Logged : q.time \in start .. end - 1 /\ q.row[c] # NaN}}

(* They are what the slots hold in that range.                             *)
LEMMA RetainedMember ==
  ASSUME ring \in RT, NEW c, NEW start, NEW end, NEW v
  PROVE  v \in Retained(c, start, end) <=>
           \E x \in 0 .. SlotCount - 1 :
             /\ v = <<ring.timestamps[x], ring.values[x][c]>>
             /\ ring.timestamps[x] # 0 /\ IntervalOf(ring.timestamps[x]) > IntervalOf(last) - SlotCount
             /\ ring.timestamps[x] \in start .. end - 1 /\ ring.values[x][c] # NaN
  <1>1. \A x : RowOf(ring, x).time = ring.timestamps[x] /\ RowOf(ring, x).row = ring.values[x]
    BY DEF RowOf
  <1>2. ASSUME v \in Retained(c, start, end)
        PROVE  \E x \in 0 .. SlotCount - 1 :
             /\ v = <<ring.timestamps[x], ring.values[x][c]>>
             /\ ring.timestamps[x] # 0 /\ IntervalOf(ring.timestamps[x]) > IntervalOf(last) - SlotCount
             /\ ring.timestamps[x] \in start .. end - 1 /\ ring.values[x][c] # NaN
    <2>1. PICK p \in Logged : v = <<p.time, p.row[c]>> /\ p.time \in start .. end - 1 /\ p.row[c] # NaN
      BY <1>2 DEF Retained
    <2>2. PICK x \in 0 .. SlotCount - 1 :
             /\ p = RowOf(ring, x) /\ ring.timestamps[x] # 0
             /\ IntervalOf(ring.timestamps[x]) > IntervalOf(last) - SlotCount
      BY LoggedMember
    <2> QED BY <1>1, <2>1, <2>2
  <1>3. ASSUME NEW x \in 0 .. SlotCount - 1,
               v = <<ring.timestamps[x], ring.values[x][c]>>,
               ring.timestamps[x] # 0, IntervalOf(ring.timestamps[x]) > IntervalOf(last) - SlotCount,
               ring.timestamps[x] \in start .. end - 1, ring.values[x][c] # NaN
        PROVE  v \in Retained(c, start, end)
    <2>1. RowOf(ring, x) \in Logged
      BY <1>3, LoggedMember
    <2> QED BY <1>1, <1>3, <2>1 DEF Retained
  <1> QED BY <1>2, <1>3

(* A read of a collector without gaps returns the retained points of its   *)
(* range and no others, oldest first, over any number of laps and          *)
(* restarts (RingBuffer::read, RingIterator::new and the guess of          *)
(* RingBuffer::new).                                                       *)
THEOREM ReadsAreTheLog == CollectorSpec => []ReadIsLog
  <1> DEFINE Inv == SlabInv /\ NewestOfSlot /\ CellsFresh /\ WrapKnown
  <1>1. Init => Inv
    <2>1. Init => NewestOfSlot /\ CellsFresh
      BY DEF Init, create, NewestOfSlot, CellsFresh, Slots
    <2>2. Init => WrapKnown
      BY DEF Init, WrapKnown, FromLap, Recorded
    <2> QED BY <2>1, <2>2, InitSlabInv
  <1>2. Inv /\ [CollectorNext]_vars => Inv'
    <2>1. ASSUME Inv, NEW t \in Timestamps, NEW entries \in Entries, CollectorCall(entries, t)
          PROVE  Inv'
      BY <2>1, CallSlabInv, CallNewestOfSlot, CallCellsFresh, CallWrapKnown DEF CollectorCall
    <2>2. ASSUME Inv, Reopen PROVE Inv'
      <3>1. /\ ring \in RT /\ ring' \in RT
            /\ ring'.timestamps = ring.timestamps /\ ring'.values = ring.values
            /\ recorded' = recorded /\ last' = last
        BY <2>2, ReopenFacts DEF Reopen, SlabInv, TypeOK, RT
      <3>2. CellsFresh' /\ NewestOfSlot'
        BY <2>2, <3>1, RingFields DEF CellsFresh, NewestOfSlot, IntervalOf
      <3> QED BY <2>2, <3>2, ReopenSlabInv, ReopenWrapKnown
    <2>3. ASSUME Inv, UNCHANGED vars PROVE Inv'
      <3>1. CellsFresh' /\ NewestOfSlot'
        BY <2>3 DEF vars, CellsFresh, NewestOfSlot, Slots, IntervalOf
      <3>2. WrapKnown'
        BY <2>3 DEF vars, WrapKnown, FromLap, Recorded, IntervalOf
      <3> QED BY <2>3, <3>1, <3>2, StutterSlabInv
    <2> QED BY <2>1, <2>2, <2>3 DEF CollectorNext
  <1>3. Inv /\ CursorAtHighest => ReadIsLog
    <2> SUFFICES ASSUME Inv, CursorAtHighest, Gapless, NEW c \in Columns,
                        NEW start \in Timestamps, NEW end \in Timestamps
                 PROVE  /\ ToSet(read(ring, c, start, end)) = Retained(c, start, end)
                        /\ \A i, j \in DOMAIN read(ring, c, start, end) :
                             i < j => read(ring, c, start, end)[i][1] < read(ring, c, start, end)[j][1]
      BY DEF ReadIsLog, Retained
    <2> DEFINE points == read(ring, c, start, end)
    <2>1. ring \in RT /\ SlotCount \in Nat \ {0} /\ last \in Nat /\ IntervalOf(last) \in Nat /\ Slots(ring) = 0 .. SlotCount - 1
      BY Position, RingFields
    <2>2. ASSUME NEW x \in 0 .. SlotCount - 1, ring.values[x][c] # NaN
          PROVE  \E m \in Nat : FromLap(m) /\ IntervalOf(last) \in Recorded
      <3>1. recorded # {}
        BY <2>1, <2>2 DEF CellsFresh
      <3>2. Min(Recorded) \in Nat /\ Recorded = Min(Recorded) .. IntervalOf(last) /\ Min(Recorded) % SlotCount = 0
            /\ Min(Recorded) \in Recorded
        BY <3>1, FirstRecorded DEF Gapless
      <3>3. FromLap(Min(Recorded)) /\ IntervalOf(last) \in Recorded
        <4> DEFINE f == Min(Recorded)
        <4> HIDE DEF f
        <4>1. f \in Nat /\ Recorded = f .. IntervalOf(last) /\ f % SlotCount = 0 /\ f \in Recorded
          BY <3>2 DEF f
        <4>2. FromLap(f) /\ IntervalOf(last) \in Recorded
          BY <2>1, <4>1 DEF FromLap
        <4> QED BY <4>2 DEF f
      <3> QED BY <3>2, <3>3
    <2>3. ASSUME NEW v \in ToSet(points) PROVE v \in Retained(c, start, end)
      <3>1. PICK k \in DOMAIN points : v = points[k]
        BY DEF ToSet
      <3>2. PICK x \in 0 .. SlotCount - 1 :
              /\ points[k] = <<ring.timestamps[x], ring.values[x][c]>>
              /\ ring.timestamps[x] \in start .. end - 1
              /\ ring.values[x][c] # NaN
        <4>1. ring \in RingType(SlotCount, IntervalNs, Columns, Values)
          BY <2>1 DEF RT
        <4>2. k \in DOMAIN read(ring, c, start, end)
          OBVIOUS
        <4> QED BY <2>1, <4>1, <4>2, ReadSound, SMTT(60)
      <3>3. PICK m \in Nat : FromLap(m) /\ IntervalOf(last) \in Recorded
        BY <2>2, <3>2
      <3>4. /\ ring.timestamps[x] # 0 /\ IntervalOf(ring.timestamps[x]) \in Nat
            /\ IntervalOf(last) < IntervalOf(ring.timestamps[x]) + SlotCount
        BY <3>2, <3>3, FilledSlot
      <3>5. IntervalOf(ring.timestamps[x]) > IntervalOf(last) - SlotCount
        BY <2>1, <3>4
      <3> HIDE DEF points
      <3> QED BY <2>1, <3>1, <3>2, <3>4, <3>5, RetainedMember
    <2>4. ASSUME NEW v \in Retained(c, start, end) PROVE v \in ToSet(points)
      <3>1. PICK x \in 0 .. SlotCount - 1 :
             /\ v = <<ring.timestamps[x], ring.values[x][c]>>
             /\ ring.timestamps[x] \in start .. end - 1 /\ ring.values[x][c] # NaN
        BY <2>1, RetainedMember
      <3>2. PICK m \in Nat : FromLap(m) /\ IntervalOf(last) \in Recorded
        BY <2>2, <3>1
      <3>3. ~is_empty(ring) /\ (ring.has_wrapped \/ x <= ring.write_cursor)
        BY <3>1, <3>2, FilledVisited
      <3>4. Yields(ring, c, start, end, x)
        BY <2>1, <3>1, <3>3, ReadComplete DEF RT
      <3>5. PICK k \in DOMAIN points : points[k] = v
        BY <3>1, <3>4 DEF Yields, Point
      <3> HIDE DEF points
      <3> QED BY <3>5 DEF ToSet
    <2>5. ASSUME NEW i \in DOMAIN points, NEW j \in DOMAIN points, i < j
          PROVE  points[i][1] < points[j][1]
      <3>1. PICK len \in Nat : \E at \in [1 .. len -> DOMAIN IterationOrder(ring)] :
               ReadAt(points, ring, c, start, end, len, at)
        BY <2>1, ReadFacts DEF RT
      <3>2. PICK at \in [1 .. len -> DOMAIN IterationOrder(ring)] : ReadAt(points, ring, c, start, end, len, at)
        BY <3>1
      <3> DEFINE x == IterationOrder(ring)[at[i]]
                 y == IterationOrder(ring)[at[j]]
      <3> HIDE DEF points
      <3>3. i \in 1 .. len /\ j \in 1 .. len
        BY <3>2 DEF ReadAt
      <3>4. /\ points[i] = Point(ring, c, x) /\ ring.values[x][c] # NaN
            /\ points[j] = Point(ring, c, y) /\ ring.values[y][c] # NaN
            /\ at[i] < at[j]
        BY <2>5, <3>2, <3>3 DEF ReadAt
      <3>5. at[i] \in DOMAIN IterationOrder(ring) /\ at[j] \in DOMAIN IterationOrder(ring)
        BY <3>2, <3>3
      <3>6. x \in 0 .. SlotCount - 1
        BY <2>1, <3>5, OrderFacts DEF Visits, RT
      <3>7. PICK m \in Nat : FromLap(m) /\ IntervalOf(last) \in Recorded
        BY <2>2, <3>4, <3>6
      <3>8. ring.timestamps[x] < ring.timestamps[y]
        BY <3>4, <3>5, <3>7, VisitedInOrder
      <3> HIDE DEF x, y
      <3>9. points[i][1] = ring.timestamps[x] /\ points[j][1] = ring.timestamps[y]
        BY <3>4 DEF Point
      <3> QED BY <3>8, <3>9
    <2> HIDE DEF points
    <2>6. ToSet(points) = Retained(c, start, end)
      BY <2>3, <2>4
    <2> QED BY <2>5, <2>6 DEF points
  <1> QED BY <1>1, <1>2, <1>3, CursorTheorem, PTL DEF CollectorSpec
=============================================================================
