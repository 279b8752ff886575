---------------------------- MODULE ExportProofs ----------------------------
(***************************************************************************)
(* Proofs about the incremental export, for tiers of any size, any number  *)
(* of series, retries, failures and crashes.                               *)
(***************************************************************************)
EXTENDS Export, RingOpsProofs

-----------------------------------------------------------------------------
(* The ring that a caller without gaps fills.                              *)

RT == RingType(SlotCount, IntervalNs, Columns, Timestamps)

IntervalOf(t) == t \div IntervalNs

(* How many intervals before the newest row slot s was written.            *)
Age(s) ==
  IF s <= ring.write_cursor THEN ring.write_cursor - s
                            ELSE ring.write_cursor - s + SlotCount

(* The slots that have been written.                                       *)
Filled(s) == s <= ring.write_cursor \/ ring.has_wrapped

(* The rows of the last intervals lie one after the other behind the       *)
(* cursor, back to the first one ever or to a full lap, and a sample is    *)
(* the time of its row.                                                    *)
RowsInv ==
  /\ ring \in RT
  /\ last \in Timestamps \cup {0}
  /\ \A s \in 0 .. SlotCount - 1 : ring.timestamps[s] \in Timestamps \cup {0}
  /\ last = 0 => /\ ring.write_cursor = 0 /\ ~ring.has_wrapped
                 /\ \A s \in 0 .. SlotCount - 1 : ring.timestamps[s] = 0
  /\ last # 0 => /\ ring.timestamps[ring.write_cursor] = last
                 /\ IntervalOf(last) % SlotCount = ring.write_cursor
                 /\ \A s \in 0 .. SlotCount - 1 :
                      IF Filled(s)
                        THEN /\ ring.timestamps[s] # 0
                             /\ IntervalOf(ring.timestamps[s]) = IntervalOf(last) - Age(s)
                        ELSE ring.timestamps[s] = 0
  /\ \A s \in 0 .. SlotCount - 1, c \in Columns :
       ring.values[s][c] = IF ring.timestamps[s] = 0 THEN NaN ELSE ring.timestamps[s]

(* The times of the rows the slab holds.                                   *)
Held(r) == {r.timestamps[s] : s \in 0 .. SlotCount - 1} \ {0}

(* A new row goes into the slot after the cursor.                          *)
LEMMA RowsRecord ==
  ASSUME RowsInv, RecordRow
  PROVE  /\ RowsInv' /\ last < last' /\ last' \in Timestamps
         /\ Held(ring') \subseteq Held(ring) \cup {last'}
  <1>1. PICK t \in Timestamps :
          /\ t > last
          /\ last # 0 => IntervalOf(t) = IntervalOf(last) + 1
          /\ last = 0 => compute_slot(ring, t) = 0
          /\ ring' = write_entries(ring, [c \in Columns |-> t], t)
          /\ last' = t
    BY DEF RecordRow, Record, IntervalOf
  <1> DEFINE n == SlotCount
             w == ring.write_cursor
             s0 == compute_slot(ring, t)
             e == [c \in Columns |-> t]
             row == [c \in Columns |-> IF c \in DOMAIN e THEN e[c] ELSE ring.values[s0][c]]
  <1>2. /\ n \in Nat \ {0} /\ IntervalNs \in Nat \ {0}
        /\ t \in Nat \ {0} /\ last \in Nat
        /\ ring \in RingType(n, IntervalNs, Columns, Timestamps)
    BY <1>1, ExportAssumption DEF RowsInv, RT
  <1>3. /\ w \in 0 .. n - 1 /\ ring.has_wrapped \in BOOLEAN
        /\ ring.timestamps \in [0 .. n - 1 -> Nat]
        /\ ring.values \in [0 .. n - 1 -> [Columns -> Timestamps \cup {NaN}]]
    BY <1>2 DEF RingType
  <1>4. s0 = IntervalOf(t) % n /\ s0 \in 0 .. n - 1
    BY <1>2, ComputedSlot DEF IntervalOf
  <1>5. /\ ring' \in RT
        /\ ring'.write_cursor = s0
        /\ ring'.timestamps = [ring.timestamps EXCEPT ![s0] = t]
        /\ ring'.values = [ring.values EXCEPT ![s0] = row]
        /\ ring'.has_wrapped <=> (ring.has_wrapped \/ s0 < w)
    <2>1. \A c \in DOMAIN e : e[c] \in Timestamps \cup {NaN}
      OBVIOUS
    <2> HIDE DEF e
    <2> DEFINE new == write_entries(ring, e, t)
    <2>2. ring' = new
      BY <1>1 DEF e
    <2>3. /\ new \in RingType(n, IntervalNs, Columns, Timestamps)
          /\ new.write_cursor = s0
          /\ new.timestamps = [ring.timestamps EXCEPT ![s0] = t]
          /\ new.values = [ring.values EXCEPT ![s0] = row]
          /\ new.has_wrapped <=> (ring.has_wrapped \/ s0 < w)
      BY <1>2, <2>1, WriteShape
    <2> QED BY <2>2, <2>3 DEF RT
  <1>6. \A c \in Columns : row[c] = t
    OBVIOUS
  <1> HIDE DEF s0, e, row
  <1>7. /\ ring'.timestamps[s0] = t /\ ring'.values[s0] = row
        /\ \A s \in 0 .. n - 1 : s # s0 => /\ ring'.timestamps[s] = ring.timestamps[s]
                                         /\ ring'.values[s] = ring.values[s]
    BY <1>3, <1>4, <1>5, ZenonT(60)
  <1>8. IntervalOf(last) \in Nat /\ IntervalOf(t) \in Nat
    BY <1>2, DivNat DEF IntervalOf
  <1>9. \A s \in 0 .. n - 1 :
          IF Filled(s)'
            THEN /\ ring'.timestamps[s] # 0
                 /\ IntervalOf(ring'.timestamps[s]) = IntervalOf(t) - Age(s)'
            ELSE ring'.timestamps[s] = 0
    <2> TAKE s \in 0 .. n - 1
    <2>1. CASE last = 0
      <3>1. s0 = 0 /\ w = 0 /\ ~ring.has_wrapped /\ ring.timestamps[s] = 0
        BY <1>1, <2>1 DEF RowsInv, s0
      <3>2. CASE s = s0
        <4>1. Filled(s)' /\ Age(s)' = 0
          BY <1>3, <1>4, <1>5, <3>2 DEF Filled, Age
        <4>2. ring'.timestamps[s] = t
          BY <1>7, <3>2
        <4> QED BY <1>2, <1>8, <4>1, <4>2
      <3>3. CASE s # s0
        BY <1>5, <1>7, <3>1, <3>3 DEF Filled, Age
      <3> QED BY <3>2, <3>3
    <2>2. CASE last # 0
      <3>1. /\ IntervalOf(t) = IntervalOf(last) + 1 /\ IntervalOf(last) % n = w
        BY <1>1, <2>2 DEF RowsInv
      <3>2. s0 = IF w + 1 = n THEN 0 ELSE w + 1
        <4> DEFINE a == IntervalOf(last)
                   b == IntervalOf(t)
        <4>1. a \in Nat /\ b = a + 1 /\ a % n = w /\ s0 = b % n /\ n \in Nat \ {0}
          BY <1>2, <1>4, <1>8, <3>1
        <4> HIDE DEF a, b, n
        <4>2. b % n = IF (a % n) + 1 = n THEN 0 ELSE (a % n) + 1
          BY <4>1, NextSlot
        <4> QED BY <4>1, <4>2
      <3>3. CASE s = s0
        <4>1. Filled(s)' /\ Age(s)' = 0
          BY <1>3, <1>4, <1>5, <3>3 DEF Filled, Age
        <4>2. ring'.timestamps[s] = t
          BY <1>7, <3>3
        <4> QED BY <1>2, <1>8, <4>1, <4>2
      <3>4. CASE s # s0
        <4>1. ring'.timestamps[s] = ring.timestamps[s]
          BY <1>7, <3>4
        <4>2. IF Filled(s)
                THEN /\ ring.timestamps[s] # 0
                     /\ IntervalOf(ring.timestamps[s]) = IntervalOf(last) - Age(s)
                ELSE ring.timestamps[s] = 0
          BY <2>2 DEF RowsInv
        <4>3. Filled(s)' <=> Filled(s)
          BY <1>2, <1>3, <1>4, <1>5, <3>2, <3>4 DEF Filled
        <4>4. Filled(s) => Age(s)' = Age(s) + 1 /\ Age(s) \in Nat
          <5>1. Age(s)' = IF s <= s0 THEN s0 - s ELSE s0 - s + n
            BY <1>5 DEF Age
          <5>2. Age(s) = IF s <= w THEN w - s ELSE w - s + n
            BY DEF Age
          <5>3. s \in 0 .. n - 1 /\ n \in Nat \ {0} /\ w \in 0 .. n - 1
            BY <1>2, <1>3
          <5> QED BY <3>2, <3>4, <5>1, <5>2, <5>3
        <4> QED BY <1>8, <3>1, <4>1, <4>2, <4>3, <4>4
      <3> QED BY <3>3, <3>4
    <2> QED BY <2>1, <2>2
  <1>10. \A s \in 0 .. n - 1, c \in Columns :
           ring'.values[s][c] = IF ring'.timestamps[s] = 0 THEN NaN ELSE ring'.timestamps[s]
    BY <1>2, <1>6, <1>7 DEF RowsInv
  <1>11. \A s \in 0 .. n - 1 : ring'.timestamps[s] \in Timestamps \cup {0}
    BY <1>7 DEF RowsInv
  <1>12. RowsInv'
    BY <1>1, <1>2, <1>4, <1>5, <1>7, <1>9, <1>10, <1>11 DEF RowsInv
  <1>13. Held(ring') \subseteq Held(ring) \cup {t}
    BY <1>7 DEF Held
  <1> QED BY <1>1, <1>2, <1>12, <1>13

(* Opening the slab again guesses right.                                   *)
LEMMA RowsReopen ==
  ASSUME RowsInv, ring' = reopen(ring), last' = last
  PROVE  RowsInv' /\ Held(ring') = Held(ring)
  <1> DEFINE n == SlotCount
             w == ring.write_cursor
             next == IF w = 0 THEN 1 ELSE (w + 1) % n
  <1>1. n \in Nat \ {0} /\ ring \in RT /\ w \in 0 .. n - 1 /\ ring.slot_count = n
        /\ Slots(ring) = 0 .. n - 1 /\ ring.has_wrapped \in BOOLEAN
    BY ExportAssumption DEF RowsInv, RT, RingType, Slots
  <1>2. /\ ring' \in RT /\ ring'.write_cursor = w
        /\ ring'.timestamps = ring.timestamps /\ ring'.values = ring.values
    BY <1>1, ReopenShape DEF RT
  <1>3. ring'.has_wrapped <=> next \in 0 .. n - 1 /\ ring.timestamps[next] # 0
    BY <1>1 DEF reopen, RT, RingType
  <1>4. ASSUME last = 0 PROVE RowsInv'
    <2>1. /\ w = 0 /\ \A s \in 0 .. n - 1 : ring.timestamps[s] = 0
      BY <1>4 DEF RowsInv
    <2>2. ~ring'.has_wrapped
      BY <1>3, <2>1
    <2> QED BY <1>2, <1>4, <2>1, <2>2 DEF RowsInv
  <1>5. ASSUME last # 0 PROVE RowsInv'
    <2>1. ASSUME NEW s \in 0 .. n - 1
          PROVE  /\ Filled(s)' <=> Filled(s)
                 /\ Age(s)' = Age(s)
      <3>1. \A x \in 0 .. n - 1 : ring.timestamps[x] # 0 <=> Filled(x)
        BY <1>5 DEF RowsInv
      <3>2. next = IF w = 0 THEN 1 ELSE IF w + 1 = n THEN 0 ELSE w + 1
        <4>1. w % n = w /\ w \in Nat
          BY <1>1, ModSmall
        <4> DEFINE b == w + 1
        <4>2. b = w + 1
          OBVIOUS
        <4> HIDE DEF b, n, w
        <4>3. b % n = IF (w % n) + 1 = n THEN 0 ELSE (w % n) + 1
          BY <1>1, <4>1, <4>2, NextSlot
        <4> QED BY <4>1, <4>2, <4>3
      <3>3. Filled(s)' <=> s <= w \/ ring'.has_wrapped
        BY <1>2 DEF Filled
      <3>4. ring'.has_wrapped <=> next \in 0 .. n - 1 /\ Filled(next)
        BY <1>3, <3>1
      <3>5. Filled(s)' <=> Filled(s)
        BY <1>1, <3>2, <3>3, <3>4 DEF Filled
      <3> QED BY <1>2, <3>5 DEF Age
    <2>2. \A s \in 0 .. n - 1 :
            IF Filled(s)'
              THEN /\ ring'.timestamps[s] # 0
                   /\ IntervalOf(ring'.timestamps[s]) = IntervalOf(last) - Age(s)'
              ELSE ring'.timestamps[s] = 0
      BY <1>2, <1>5, <2>1 DEF RowsInv
    <2> QED BY <1>2, <1>5, <2>2 DEF RowsInv
  <1>6. Held(ring') = Held(ring)
    BY <1>2 DEF Held
  <1> QED BY <1>4, <1>5, <1>6
-----------------------------------------------------------------------------
(* What a drain reads from such a ring.                                    *)

(* The iteration visits the written slots from the oldest to the newest.   *)
LEMMA VisitFacts ==
  ASSUME RowsInv, last # 0
  PROVE  \E m \in 1 .. SlotCount :
           /\ IterationOrder(ring) \in [1 .. m -> 0 .. SlotCount - 1]
           /\ \A k \in 1 .. m : /\ Filled(IterationOrder(ring)[k])
                                /\ Age(IterationOrder(ring)[k]) = m - k
           /\ \A s \in 0 .. SlotCount - 1 :
                Filled(s) => \E k \in 1 .. m : IterationOrder(ring)[k] = s
           /\ IterationOrder(ring)[1] = IF ring.has_wrapped THEN (ring.write_cursor + 1) % SlotCount
                                                            ELSE 0
  <1> DEFINE n == SlotCount
             w == ring.write_cursor
             order == IterationOrder(ring)
             m == IF ring.has_wrapped THEN n ELSE w + 1
  <1>1. n \in Nat \ {0} /\ ring \in RingType(n, IntervalNs, Columns, Timestamps)
        /\ w \in 0 .. n - 1 /\ ring.has_wrapped \in BOOLEAN
    BY ExportAssumption DEF RowsInv, RT, RingType
  <1>2. ~is_empty(ring)
    BY DEF RowsInv, is_empty
  <1>3. m \in 1 .. n
    BY <1>1
  <1>4. /\ order \in [1 .. m -> 0 .. n - 1]
        /\ \A k \in 1 .. m : order[k] = IF ring.has_wrapped THEN (w + k) % n ELSE k - 1
    BY <1>1, <1>2, OrderFacts DEF Visits
  <1> HIDE DEF order
  <1>5. ASSUME NEW k \in 1 .. m
        PROVE  /\ Filled(order[k]) /\ Age(order[k]) = m - k
    <2>1. CASE ring.has_wrapped
      <3> DEFINE x == w + k
      <3>1. x = w + k /\ x \in Nat /\ x < n + n /\ k \in 1 .. n
        BY <1>1, <2>1
      <3> HIDE DEF x
      <3>2. order[k] = x % n
        BY <1>4, <2>1, <3>1
      <3>3. order[k] = IF x < n THEN x ELSE x - n
        BY <1>1, <3>1, <3>2, LapOver
      <3>4. Filled(order[k])
        BY <2>1 DEF Filled
      <3>5. Age(order[k]) = n - k
        BY <1>1, <3>1, <3>3 DEF Age
      <3> QED BY <2>1, <3>4, <3>5
    <2>2. CASE ~ring.has_wrapped
      BY <1>1, <1>4, <2>2 DEF Filled, Age
    <2> QED BY <2>1, <2>2
  <1>6. ASSUME NEW s \in 0 .. n - 1, Filled(s)
        PROVE  \E k \in 1 .. m : order[k] = s
    <2>1. CASE ring.has_wrapped
      <3>1. \E k \in 1 .. n : (w + k) % n = s
        BY <1>1, FullLap
      <3> QED BY <1>4, <2>1, <3>1
    <2>2. CASE ~ring.has_wrapped
      <3>1. s + 1 \in 1 .. m /\ (s + 1) - 1 = s
        BY <1>1, <1>6, <2>2 DEF Filled
      <3> QED BY <1>4, <2>2, <3>1
    <2> QED BY <2>1, <2>2
  <1>7. order[1] = IF ring.has_wrapped THEN (w + 1) % n ELSE 0
    <2>1. 1 \in 1 .. m
      BY <1>3
    <2> QED BY <1>4, <2>1
  <1> HIDE DEF m
  <1> QED BY <1>3, <1>4, <1>5, <1>6, <1>7 DEF order

(* Interval and age are numbers, and earlier intervals are earlier times.  *)
LEMMA AgeFacts ==
  ASSUME RowsInv, last # 0
  PROVE  /\ IntervalOf(last) \in Nat
         /\ \A s \in 0 .. SlotCount - 1 :
              /\ ring.timestamps[s] \in Nat
              /\ Filled(s) <=> ring.timestamps[s] # 0
              /\ Age(s) \in Nat
              /\ Age(s) = 0 => s = ring.write_cursor
         /\ \A s, x \in 0 .. SlotCount - 1 :
              Filled(s) /\ Filled(x) /\ Age(s) > Age(x) => ring.timestamps[s] < ring.timestamps[x]
  <1> DEFINE n == SlotCount
             w == ring.write_cursor
             ts == ring.timestamps
  <1>1. n \in Nat \ {0} /\ IntervalNs \in Nat \ {0} /\ w \in 0 .. n - 1
        /\ ts \in [0 .. n - 1 -> Nat] /\ last \in Nat
    BY ExportAssumption DEF RowsInv, RT, RingType
  <1>2. IntervalOf(last) \in Nat
    BY <1>1, DivNat DEF IntervalOf
  <1>3. \A s \in 0 .. n - 1 : /\ ts[s] \in Nat
                              /\ Age(s) \in Nat
                              /\ Age(s) = 0 => s = w
    BY <1>1, SMTT(30) DEF Age
  <1>4. \A s \in 0 .. n - 1 : /\ Filled(s) <=> ts[s] # 0
                              /\ Filled(s) => IntervalOf(ts[s]) = IntervalOf(last) - Age(s)
    BY DEF RowsInv
  <1>5. ASSUME NEW s \in 0 .. n - 1, NEW x \in 0 .. n - 1,
               Filled(s), Filled(x), Age(s) > Age(x)
        PROVE  ts[s] < ts[x]
    <2>1. ts[s] \in Nat /\ ts[x] \in Nat /\ Age(s) \in Nat /\ Age(x) \in Nat
      BY <1>3
    <2>2. IntervalOf(ts[s]) < IntervalOf(ts[x])
      BY <1>2, <1>4, <1>5, <2>1
    <2>3. IntervalOf(ts[s]) \in Nat /\ IntervalOf(ts[x]) \in Nat
      BY <1>1, <2>1, DivNat DEF IntervalOf
    <2>4. ts[x] <= ts[s] => IntervalOf(ts[x]) <= IntervalOf(ts[s])
      BY <1>1, <2>1, DivMonotone DEF IntervalOf
    <2> QED BY <2>1, <2>2, <2>3, <2>4
  <1> QED BY <1>2, <1>3, <1>4, <1>5

(* The rows held are times callers recorded with, up to the last one, and  *)
(* the samples in the slab are those times.                                *)
LEMMA HeldFacts ==
  ASSUME RowsInv
  PROVE  /\ Held(ring) \subseteq Timestamps
         /\ \A v \in Held(ring) : v \in Nat /\ v <= last
         /\ \A s \in 0 .. SlotCount - 1, c \in Columns :
              ring.values[s][c] # NaN => ring.values[s][c] \in Held(ring)
  <1>1. Held(ring) \subseteq Timestamps
    BY DEF RowsInv, Held
  <1>2. ASSUME NEW v \in Held(ring) PROVE v \in Nat /\ v <= last
    <2>1. PICK s \in 0 .. SlotCount - 1 : v = ring.timestamps[s] /\ v # 0
      BY DEF Held
    <2>2. last # 0
      BY <2>1 DEF RowsInv
    <2>3. /\ ring.write_cursor \in 0 .. SlotCount - 1 /\ last \in Nat
          /\ ring.timestamps[ring.write_cursor] = last
      BY <2>2, ExportAssumption DEF RowsInv, RT, RingType
    <2>4. /\ v \in Nat /\ Filled(s) /\ Age(s) \in Nat
          /\ Age(s) = 0 => s = ring.write_cursor
      BY <2>1, <2>2, AgeFacts
    <2>5. Filled(ring.write_cursor) /\ Age(ring.write_cursor) = 0
      BY <2>3 DEF Filled, Age
    <2>6. Age(s) > 0 => v < last
      BY <2>1, <2>2, <2>3, <2>4, <2>5, AgeFacts
    <2> QED BY <2>1, <2>3, <2>4, <2>6
  <1>3. \A s \in 0 .. SlotCount - 1, c \in Columns :
          ring.values[s][c] # NaN => ring.values[s][c] \in Held(ring)
    BY DEF RowsInv, Held
  <1> QED BY <1>1, <1>2, <1>3

(* The first row of the iteration is the oldest one.                       *)
LEMMA OldestFacts ==
  ASSUME RowsInv, last # 0
  PROVE  /\ oldest_timestamp(ring) = ring.timestamps[IterationOrder(ring)[1]]
         /\ oldest_timestamp(ring) \in Held(ring)
         /\ newest_timestamp(ring) = last
  <1> DEFINE n == SlotCount
             w == ring.write_cursor
             from == IF ring.has_wrapped THEN w + 1 ELSE 0
             at(k) == ring.timestamps[(from + k) % n]
             filled(k) == at(k) # 0 /\ \A j \in 0 .. k - 1 : at(j) = 0
  <1>1. n \in Nat \ {0} /\ w \in 0 .. n - 1 /\ ring.slot_count = n
    BY ExportAssumption DEF RowsInv, RT, RingType
  <1>2. ~is_empty(ring)
    BY DEF RowsInv, is_empty
  <1>3. oldest_timestamp(ring) = at(CHOOSE k \in 0 .. n - 1 : filled(k))
    BY <1>1, <1>2 DEF oldest_timestamp, Slots
  <1>4. PICK m \in 1 .. n :
          /\ IterationOrder(ring) \in [1 .. m -> 0 .. n - 1]
          /\ \A k \in 1 .. m : Filled(IterationOrder(ring)[k])
          /\ IterationOrder(ring)[1] = IF ring.has_wrapped THEN (w + 1) % n ELSE 0
    BY VisitFacts
  <1>5. from + 0 = from /\ from \in Nat
    BY <1>1
  <1>6. (from + 0) % n = IterationOrder(ring)[1]
    <2>1. 0 % n = 0
      BY <1>1, ModSmall
    <2> QED BY <1>4, <1>5, <2>1
  <1>7. IterationOrder(ring)[1] \in 0 .. n - 1 /\ Filled(IterationOrder(ring)[1])
    BY <1>1, <1>4
  <1>8. at(0) = ring.timestamps[IterationOrder(ring)[1]] /\ at(0) # 0
    BY <1>6, <1>7, AgeFacts
  <1> HIDE DEF at
  <1>9. filled(0) /\ 0 \in 0 .. n - 1
    BY <1>1, <1>8
  <1>10. \A k \in 0 .. n - 1 : filled(k) => k = 0
    BY <1>1, <1>8
  <1> HIDE DEF filled
  <1>11. (CHOOSE k \in 0 .. n - 1 : filled(k)) = 0
    BY <1>9, <1>10
  <1>12. oldest_timestamp(ring) = at(0)
    BY <1>3, <1>11
  <1>13. at(0) \in Held(ring)
    BY <1>7, <1>8 DEF Held
  <1>14. newest_timestamp(ring) = last
    BY DEF RowsInv, newest_timestamp
  <1> QED BY <1>8, <1>12, <1>13, <1>14

(* What drain_series promises: the rows after the cursor, in time order.   *)
NewRows(D, after) ==
  /\ D \in Seq(Timestamps \X Timestamps)
  /\ \A k \in 1 .. Len(D) : /\ D[k][1] = D[k][2] /\ D[k][2] \in Held(ring)
                            /\ D[k][2] > after
  /\ \A j, k \in 1 .. Len(D) : j < k => D[j][1] < D[k][1]
  /\ \A v \in Held(ring) : v > after => \E k \in 1 .. Len(D) : D[k][2] = v

(* drain_series keeps that promise.                                        *)
LEMMA DrainFacts ==
  ASSUME RowsInv, NEW c \in Columns, cursor[c] \in Nat
  PROVE  NewRows(drain_series(c), cursor[c])
  <1> DEFINE n == SlotCount
             D == drain_series(c)
             order == IterationOrder(ring)
             ts == ring.timestamps
             start == IF cursor[c] = 0 THEN oldest_timestamp(ring) ELSE cursor[c] + 1
  <1>1. n \in Nat \ {0} /\ ring \in RingType(n, IntervalNs, Columns, Timestamps)
        /\ last \in Nat /\ ts \in [0 .. n - 1 -> Nat] /\ Timestamps \subseteq Nat \ {0}
    BY ExportAssumption DEF RowsInv, RT, RingType
  <1>2. ASSUME D = << >>, \A v \in Held(ring) : ~(v > cursor[c])
        PROVE  NewRows(D, cursor[c])
    <2>1. Len(D) = 0 /\ D \in Seq(Timestamps \X Timestamps)
      BY <1>2
    <2> HIDE DEF D
    <2> QED BY <1>2, <2>1 DEF NewRows
  <1>3. CASE last = 0
    <2>1. is_empty(ring)
      BY <1>1, <1>3 DEF RowsInv, is_empty, RingType
    <2>2. D = << >>
      BY <2>1 DEF drain_series, oldest_timestamp
    <2>3. Held(ring) = {}
      BY <1>3 DEF RowsInv, Held
    <2> QED BY <1>2, <2>2, <2>3
  <1>4. CASE last # 0
    <2>1. /\ oldest_timestamp(ring) = ts[order[1]]
          /\ oldest_timestamp(ring) \in Held(ring)
          /\ newest_timestamp(ring) = last
      BY <1>4, OldestFacts
    <2>2. oldest_timestamp(ring) \in 1 .. last
      BY <1>1, <2>1, HeldFacts DEF Held
    <2>3. D = IF start > last THEN << >> ELSE read(ring, c, start, last + 1)
      BY <1>4, <2>1, <2>2 DEF drain_series
    <2>4. start \in Nat
      BY <2>2
    <2>5. PICK len \in 1 .. n :
            /\ order \in [1 .. len -> 0 .. n - 1]
            /\ \A k \in 1 .. len : Filled(order[k]) /\ Age(order[k]) = len - k
            /\ \A s \in 0 .. n - 1 : Filled(s) => \E k \in 1 .. len : order[k] = s
      BY <1>4, VisitFacts
    <2>6. \A j, k \in 1 .. len : j < k => ts[order[j]] < ts[order[k]]
      <3> TAKE j, k \in 1 .. len
      <3> HAVE j < k
      <3>1. len - j > len - k
        BY <1>1
      <3>2. order[j] \in 0 .. n - 1 /\ order[k] \in 0 .. n - 1
        BY <2>5
      <3>3. Filled(order[j]) /\ Filled(order[k]) /\ Age(order[j]) > Age(order[k])
        BY <2>5, <3>1
      <3> QED BY <1>4, <3>2, <3>3, AgeFacts
    <2>7. \A k \in 1 .. len : /\ ts[order[k]] \in Held(ring)
                              /\ ring.values[order[k]][c] = ts[order[k]]
                              /\ ring.values[order[k]][c] # NaN
      <3> TAKE k \in 1 .. len
      <3>1. order[k] \in 0 .. n - 1 /\ ts[order[k]] # 0
        BY <1>4, <2>5, AgeFacts
      <3>2. ring.values[order[k]][c] = ts[order[k]]
        BY <3>1 DEF RowsInv
      <3>3. ts[order[k]] \in Held(ring)
        BY <3>1 DEF Held
      <3> QED BY <3>2, <3>3, HeldFacts, ExportAssumption
    <2>8. \A v \in Held(ring) : \E k \in 1 .. len : ts[order[k]] = v
      <3> TAKE v \in Held(ring)
      <3>1. PICK s \in 0 .. n - 1 : v = ts[s] /\ v # 0
        BY DEF Held
      <3>2. Filled(s)
        BY <1>4, <3>1, AgeFacts
      <3> QED BY <2>5, <3>1, <3>2
    <2>9. \A v \in Held(ring) : v > cursor[c] <=> v \in start .. last
      <3> TAKE v \in Held(ring)
      <3>1. v \in 1 .. last
        BY <1>1, HeldFacts
      <3>2. PICK k \in 1 .. len : ts[order[k]] = v
        BY <2>8
      <3>3. ts[order[1]] <= v
        <4>1. CASE k = 1
          BY <3>1, <3>2, <4>1
        <4>2. CASE k # 1
          <5>1. 1 \in 1 .. len /\ 1 < k
            BY <1>1, <4>2
          <5>2. ts[order[1]] < v
            BY <2>6, <3>2, <5>1
          <5> QED BY <2>1, <2>2, <3>1, <5>2
        <4> QED BY <4>1, <4>2
      <3> QED BY <1>1, <2>1, <2>2, <3>1, <3>3
    <2>10. CASE start > last
      <3>1. D = << >>
        BY <2>3, <2>10
      <3>2. \A v \in Held(ring) : ~(v > cursor[c])
        BY <1>1, <2>4, <2>9, <2>10
      <3> QED BY <1>2, <3>1, <3>2
    <2>11. CASE ~(start > last)
      <3>1. D = read(ring, c, start, last + 1)
        BY <2>3, <2>11
      <3> DEFINE after == last + 1
      <3>2. start .. after - 1 = start .. last
        BY <1>1
      <3>3. DOMAIN order = 1 .. len
        BY <2>5
      <3> HIDE DEF D, after, start, order, ts
      <3>4. PICK m \in Nat : \E at \in [1 .. m -> 1 .. len] :
              ReadAt(D, ring, c, start, after, m, at)
        <4>1. D = read(ring, c, start, after)
          BY <3>1 DEF after
        <4>2. \E m \in Nat : \E at \in [1 .. m -> DOMAIN IterationOrder(ring)] :
                ReadAt(read(ring, c, start, after), ring, c, start, after, m, at)
          BY <1>1, ReadFacts
        <4> QED BY <3>3, <4>1, <4>2 DEF order
      <3>5. PICK at \in [1 .. m -> 1 .. len] : ReadAt(D, ring, c, start, after, m, at)
        BY <3>4
      <3>6. /\ DOMAIN D = 1 .. m /\ D = [i \in 1 .. m |-> D[i]]
            /\ \A i \in 1 .. m : /\ D[i] = Point(ring, c, order[at[i]])
                                  /\ ts[order[at[i]]] \in start .. after - 1
            /\ \A i, j \in 1 .. m : i < j => at[i] < at[j]
            /\ \A k \in 1 .. len :
                 ts[order[k]] \in start .. after - 1 /\ ring.values[order[k]][c] # NaN
                 => \E i \in 1 .. m : at[i] = k
        BY <3>3, <3>5 DEF ReadAt, order, ts
      <3>7. ASSUME NEW i \in 1 .. m
            PROVE  /\ at[i] \in 1 .. len
                   /\ D[i] = <<ts[order[at[i]]], ts[order[at[i]]]>>
                   /\ ts[order[at[i]]] \in Held(ring) /\ ts[order[at[i]]] \in Timestamps
                   /\ ts[order[at[i]]] > cursor[c]
        <4>1. at[i] \in 1 .. len
          BY <3>5
        <4>2. D[i] = <<ts[order[at[i]]], ring.values[order[at[i]]][c]>>
          BY <3>6 DEF Point, ts
        <4>3. ts[order[at[i]]] \in start .. last
          BY <3>2, <3>6
        <4> QED BY <2>7, <2>9, <4>1, <4>2, <4>3, HeldFacts
      <3>8. D \in [1 .. m -> Timestamps \X Timestamps]
        <4>1. ASSUME NEW i \in 1 .. m PROVE D[i] \in Timestamps \X Timestamps
          <5> DEFINE u == ts[order[at[i]]]
          <5>1. D[i] = <<u, u>> /\ u \in Timestamps
            BY <3>7
          <5> HIDE DEF u
          <5> QED BY <5>1
        <4> QED BY <3>6, <4>1
      <3>9. D \in Seq(Timestamps \X Timestamps) /\ Len(D) = m
        BY <3>8
      <3>10. \A i, j \in 1 .. m : i < j => D[i][1] < D[j][1]
        BY <2>6, <3>6, <3>7
      <3>11. \A v \in Held(ring) : v > cursor[c] => \E i \in 1 .. m : D[i][2] = v
        <4> TAKE v \in Held(ring)
        <4> HAVE v > cursor[c]
        <4>1. PICK k \in 1 .. len : ts[order[k]] = v
          BY <2>8
        <4>2. ts[order[k]] \in start .. after - 1 /\ ring.values[order[k]][c] # NaN
          BY <2>7, <2>9, <3>2, <4>1
        <4>3. PICK i \in 1 .. m : at[i] = k
          BY <3>6, <4>2
        <4>4. D[i] = <<v, v>>
          BY <3>7, <4>1, <4>3
        <4> QED BY <4>4
      <3>12. \A k \in 1 .. m : D[k][1] = D[k][2] /\ D[k][2] \in Held(ring) /\ D[k][2] > cursor[c]
        BY <3>7
      <3>13. NewRows(D, cursor[c])
        BY <3>9, <3>10, <3>11, <3>12 DEF NewRows
      <3> QED BY <3>13 DEF D
    <2> QED BY <2>10, <2>11
  <1> QED BY <1>3, <1>4

-----------------------------------------------------------------------------
(* The inductive invariant of the export.                                  *)

(* The points of one column in a request: in time order, each the sample   *)
(* of its own time.                                                        *)
Batch(P) ==
  /\ P \in Seq(Timestamps \X Timestamps)
  /\ \A k \in 1 .. Len(P) : P[k][1] = P[k][2]
  /\ \A j, k \in 1 .. Len(P) : j < k => P[j][1] < P[k][1]

JobInv ==
  /\ job.at \in {"sleeping", "pushing", "saving", "dead"}
  /\ job.at = "pushing" =>
       /\ job = [at |-> "pushing", exports |-> job.exports, attempt |-> job.attempt]
       /\ job.attempt \in Nat
       /\ DOMAIN job.exports \subseteq Columns
       /\ \A c \in DOMAIN job.exports : Batch(job.exports[c])

Cursors == [Columns -> Timestamps \cup {0}]

(* The saved cursor is never ahead of the one in memory, nor that one of   *)
(* the recordings.                                                         *)
CursorInv ==
  /\ cursor \in Cursors
  /\ cursorFile \in Cursors \cup {EmptyFile}
  /\ \A c \in Columns : cursor[c] <= last
  /\ cursorFile # EmptyFile => \A c \in Columns : cursorFile[c] <= cursor[c]
  /\ job.at = "dead" => cursorFile = EmptyFile
  /\ crashes \in Nat

(* What was drained is behind the cursor, and so is what was delivered     *)
(* until a crash takes the cursor back.                                    *)
HistoryInv ==
  /\ drained \subseteq Columns \X Timestamps
  /\ delivered \subseteq Columns \X Timestamps
  /\ dropped \subseteq Columns \X Timestamps
  /\ \A x \in drained : x[2] <= cursor[x[1]]
  /\ crashes = 0 => \A x \in delivered : x[2] <= cursor[x[1]]

(* What is being pushed lies between the saved cursor and the one in       *)
(* memory, after everything drained before.                                *)
FlightInv ==
  job.at = "pushing" =>
    \A x \in Samples(job.exports) :
      /\ x \in Columns \X Timestamps
      /\ x[2] <= cursor[x[1]]
      /\ \A y \in drained : y[1] = x[1] => y[2] < x[2]
      /\ cursorFile # EmptyFile => x[2] > cursorFile[x[1]]
      /\ crashes = 0 /\ job.attempt = 0 => x \notin delivered

(* Every row the slab holds at or before a cursor is accounted for: behind *)
(* the cursor in memory it may still be on its way.                        *)
CoverInv ==
  /\ job.at # "dead" =>
       \A c \in Columns, v \in Held(ring) :
         v <= cursor[c] => \/ <<c, v>> \in delivered \cup dropped
                           \/ job.at = "pushing" /\ <<c, v>> \in Samples(job.exports)
  /\ cursorFile # EmptyFile =>
       \A c \in Columns, v \in Held(ring) :
         v <= cursorFile[c] => <<c, v>> \in delivered \cup dropped

ExportInv == RowsInv /\ JobInv /\ CursorInv /\ HistoryInv /\ FlightInv /\ CoverInv

(* The numbers the invariant compares.                                     *)
LEMMA Numbers ==
  ASSUME ExportInv
  PROVE  /\ last \in Nat /\ Timestamps \subseteq Nat \ {0}
         /\ \A c \in Columns : cursor[c] \in Nat
         /\ cursorFile # EmptyFile => \A c \in Columns : cursorFile[c] \in Nat
         /\ \A v \in Held(ring) : v \in Timestamps /\ v \in Nat /\ v <= last
  <1>1. last \in Nat /\ Timestamps \subseteq Nat \ {0}
    <2>1. RowsInv
      BY DEF ExportInv
    <2>2. last \in Timestamps \cup {0}
      BY <2>1, Zenon DEF RowsInv
    <2>3. Timestamps \subseteq Nat \ {0}
      BY ExportAssumption
    <2> QED BY <2>2, <2>3
  <1>2. cursor \in Cursors /\ cursorFile \in Cursors \cup {EmptyFile}
    BY DEF ExportInv, CursorInv
  <1>3. \A f \in Cursors : \A c \in Columns : f[c] \in Nat
    <2> TAKE f \in Cursors
    <2> TAKE c \in Columns
    <2>1. f[c] \in Timestamps \cup {0}
      BY DEF Cursors
    <2>2. CASE f[c] = 0
      BY <2>2
    <2>3. CASE f[c] \in Timestamps
      BY <1>1, <2>3
    <2> QED BY <2>1, <2>2, <2>3
  <1>4. \A v \in Held(ring) : v \in Timestamps /\ v \in Nat /\ v <= last
    BY HeldFacts DEF ExportInv
  <1> QED BY <1>1, <1>2, <1>3, <1>4

(* A row that is recorded is later than every cursor.                      *)
LEMMA RecordInv ==
  ASSUME ExportInv, RecordRow
  PROVE  ExportInv'
  <1>1. /\ RowsInv' /\ last < last' /\ last' \in Timestamps
        /\ Held(ring') \subseteq Held(ring) \cup {last'}
    BY RowsRecord DEF ExportInv
  <1>2. UNCHANGED <<cursor, cursorFile, job, drained, delivered, dropped, crashes>>
    BY DEF RecordRow, Record
  <1>3. /\ last \in Nat /\ last' \in Nat
        /\ \A c \in Columns : cursor[c] \in Nat /\ cursor[c] <= last
        /\ cursorFile # EmptyFile =>
             \A c \in Columns : cursorFile[c] \in Nat /\ cursorFile[c] <= cursor[c]
    BY <1>1, Numbers DEF ExportInv, CursorInv
  <1>4. JobInv' /\ HistoryInv' /\ FlightInv'
    BY <1>2 DEF ExportInv, JobInv, HistoryInv, FlightInv
  <1>5. CursorInv'
    BY <1>1, <1>2, <1>3 DEF ExportInv, CursorInv
  <1>6. CoverInv'
    <2>1. ASSUME NEW c \in Columns, NEW v \in Held(ring'), v <= cursor[c]
          PROVE  v \in Held(ring)
      BY <1>1, <1>3, <2>1
    <2>2. cursorFile # EmptyFile =>
            \A c \in Columns, v \in Held(ring') : v <= cursorFile[c] => v \in Held(ring)
      BY <1>1, <1>3
    <2> QED BY <1>2, <2>1, <2>2 DEF ExportInv, CoverInv
  <1> QED BY <1>1, <1>4, <1>5, <1>6 DEF ExportInv

(* A sample of a request is a point of one of its columns.                 *)
LEMMA SampleFacts ==
  ASSUME NEW E
  PROVE  /\ \A x \in Samples(E) : \E c \in DOMAIN E : \E k \in DOMAIN E[c] :
              x = <<c, E[c][k][2]>>
         /\ \A c \in DOMAIN E : \A k \in DOMAIN E[c] : <<c, E[c][k][2]>> \in Samples(E)
  BY DEF Samples

(* A drain takes exactly the rows after the cursor and moves the cursor to *)
(* the last of them.                                                       *)
LEMMA DrainInv ==
  ASSUME ExportInv, Drain
  PROVE  ExportInv'
  <1> DEFINE E == drain_tier
             new(c) == IF c \in DOMAIN E THEN LastOf(E[c]) ELSE cursor[c]
  <1>1. /\ job = Sleeping
        /\ cursor' = [c \in Columns |-> new(c)]
        /\ job' = [at |-> "pushing", exports |-> E, attempt |-> 0]
        /\ UNCHANGED <<ring, last, cursorFile, drained, delivered, dropped, crashes>>
    BY DEF Drain
  <1>2. /\ last \in Nat /\ Timestamps \subseteq Nat \ {0}
        /\ \A c \in Columns : cursor[c] \in Nat /\ cursor[c] <= last
        /\ cursorFile # EmptyFile =>
             \A c \in Columns : cursorFile[c] \in Nat /\ cursorFile[c] <= cursor[c]
        /\ \A v \in Held(ring) : v \in Timestamps /\ v \in Nat /\ v <= last
    BY Numbers DEF ExportInv, CursorInv
  <1>3. \A c \in Columns : NewRows(drain_series(c), cursor[c])
    BY <1>2, DrainFacts DEF ExportInv
  <1>4. /\ DOMAIN E \subseteq Columns
        /\ \A c \in DOMAIN E : E[c] = drain_series(c) /\ E[c] # << >>
        /\ \A c \in Columns : c \notin DOMAIN E => drain_series(c) = << >>
    BY DEF drain_tier
  <1> HIDE DEF E
  <1>5. \A c \in DOMAIN E : /\ Batch(E[c]) /\ Len(E[c]) \in Nat \ {0}
                            /\ DOMAIN E[c] = 1 .. Len(E[c])
                            /\ \A k \in 1 .. Len(E[c]) : /\ E[c][k] \in Timestamps \X Timestamps
                                                         /\ E[c][k][2] \in Held(ring)
                                                         /\ E[c][k][2] > cursor[c]
    <2> TAKE c \in DOMAIN E
    <2>1. NewRows(E[c], cursor[c]) /\ E[c] # << >>
      BY <1>3, <1>4
    <2>2. E[c] \in Seq(Timestamps \X Timestamps)
      BY <2>1 DEF NewRows
    <2>3. Len(E[c]) \in Nat \ {0} /\ DOMAIN E[c] = 1 .. Len(E[c])
      BY <2>1, <2>2
    <2>4. \A k \in 1 .. Len(E[c]) : E[c][k] \in Timestamps \X Timestamps
      BY <2>2
    <2> QED BY <2>1, <2>3, <2>4 DEF NewRows, Batch
  <1>6. ASSUME NEW c \in Columns
        PROVE  /\ cursor'[c] = new(c)
               /\ new(c) \in Timestamps \cup {0} /\ new(c) \in Nat /\ new(c) <= last
               /\ cursor[c] <= new(c)
               /\ c \in DOMAIN E => \A k \in 1 .. Len(E[c]) : E[c][k][2] <= new(c)
    <2>1. cursor'[c] = new(c)
      BY <1>1
    <2>2. CASE c \notin DOMAIN E
      <3>1. new(c) = cursor[c] /\ cursor[c] \in Timestamps \cup {0}
        BY <2>2 DEF ExportInv, CursorInv, Cursors
      <3> QED BY <1>2, <2>1, <2>2, <3>1
    <2>3. CASE c \in DOMAIN E
      <3> DEFINE P == E[c]
                 m == Len(P)
      <3>1. /\ m \in Nat \ {0} /\ m \in 1 .. m /\ Batch(P)
            /\ P[m] \in Timestamps \X Timestamps
            /\ P[m][2] \in Held(ring) /\ P[m][2] > cursor[c]
        BY <1>5, <2>3
      <3>2. new(c) = P[m][1] /\ P[m][1] = P[m][2]
        BY <2>3, <3>1 DEF LastOf, Batch
      <3>3. \A k \in 1 .. m : P[k][2] <= P[m][2]
        <4> TAKE k \in 1 .. m
        <4>1. P[k][1] = P[k][2] /\ (k < m => P[k][1] < P[m][1])
          BY <3>1 DEF Batch
        <4>2. P[k][2] \in Nat /\ P[m][2] \in Nat
          BY <1>2, <1>5, <2>3, <3>1
        <4>3. CASE k = m
          BY <4>2, <4>3
        <4>4. CASE k < m
          BY <3>2, <4>1, <4>2, <4>4
        <4> QED BY <3>1, <4>3, <4>4
      <3> QED BY <1>2, <2>1, <2>3, <3>1, <3>2, <3>3
    <2> QED BY <2>2, <2>3
  <1>7. ASSUME NEW x \in Samples(E)
        PROVE  /\ x \in Columns \X Timestamps /\ x[1] \in Columns /\ x[2] \in Timestamps
               /\ x[2] <= new(x[1]) /\ x[2] > cursor[x[1]]
    <2>1. PICK c \in DOMAIN E : \E k \in DOMAIN E[c] : x = <<c, E[c][k][2]>>
      BY SampleFacts
    <2>2. PICK k \in 1 .. Len(E[c]) : x = <<c, E[c][k][2]>>
      BY <1>5, <2>1
    <2>3. c \in Columns /\ x[1] = c /\ x[2] = E[c][k][2]
      BY <1>4, <2>2
    <2>4. E[c][k][2] \in Timestamps /\ E[c][k][2] > cursor[c] /\ E[c][k][2] <= new(c)
      BY <1>2, <1>5, <1>6, <2>3
    <2> QED BY <2>2, <2>3, <2>4
  <1>8. job'.at = "pushing" /\ job'.exports = E /\ job'.attempt = 0 /\ job.at = "sleeping"
    BY <1>1 DEF Sleeping
  <1>9. RowsInv'
    BY <1>1 DEF ExportInv, RowsInv, Filled, Age
  <1>10. JobInv'
    BY <1>1, <1>4, <1>5, <1>8 DEF JobInv
  <1>11. cursor' \in Cursors
    BY <1>1, <1>6 DEF Cursors
  <1> HIDE DEF new
  <1>12. CursorInv'
    <2>1. cursorFile # EmptyFile => \A c \in Columns : cursorFile[c] <= new(c)
      BY <1>2, <1>6
    <2> QED BY <1>1, <1>6, <1>8, <1>11, <2>1 DEF ExportInv, CursorInv
  <1>13. HistoryInv'
    <2>1. ASSUME NEW x \in Columns \X Timestamps, x[2] <= cursor[x[1]]
          PROVE  x[2] <= cursor'[x[1]]
      <3>1. x[1] \in Columns /\ x[2] \in Nat
        BY <1>2
      <3> QED BY <1>2, <1>6, <2>1, <3>1
    <2> QED BY <1>1, <2>1 DEF ExportInv, HistoryInv
  <1>14. FlightInv'
    <2> SUFFICES ASSUME NEW x \in Samples(E)
                 PROVE  /\ x \in Columns \X Timestamps
                        /\ x[2] <= cursor'[x[1]]
                        /\ \A y \in drained : y[1] = x[1] => y[2] < x[2]
                        /\ cursorFile # EmptyFile => x[2] > cursorFile[x[1]]
                        /\ crashes = 0 => x \notin delivered
      BY <1>1, <1>8 DEF FlightInv
    <2>1. x[1] \in Columns /\ x[2] \in Nat /\ cursor[x[1]] \in Nat /\ x[2] > cursor[x[1]]
      BY <1>2, <1>7
    <2>2. ASSUME NEW y \in drained, y[1] = x[1] PROVE y[2] < x[2]
      <3>1. y[2] \in Nat /\ y[2] <= cursor[y[1]]
        BY <1>2 DEF ExportInv, HistoryInv
      <3> QED BY <2>1, <2>2, <3>1
    <2>3. crashes = 0 => x \notin delivered
      BY <2>1 DEF ExportInv, HistoryInv
    <2>4. cursorFile # EmptyFile => x[2] > cursorFile[x[1]]
      BY <1>2, <2>1
    <2> QED BY <1>6, <1>7, <2>2, <2>3, <2>4
  <1>15. CoverInv'
    <2>1. ASSUME NEW c \in Columns, NEW v \in Held(ring), v <= cursor'[c]
          PROVE  \/ <<c, v>> \in delivered \cup dropped
                 \/ <<c, v>> \in Samples(E)
      <3>1. CASE v <= cursor[c]
        BY <1>8, <3>1 DEF ExportInv, CoverInv
      <3>2. CASE v > cursor[c]
        <4>1. \E k \in 1 .. Len(drain_series(c)) : drain_series(c)[k][2] = v
          BY <1>3, <3>2 DEF NewRows
        <4>2. c \in DOMAIN E
          BY <1>4, <4>1
        <4>3. PICK k \in DOMAIN E[c] : E[c][k][2] = v
          BY <1>4, <1>5, <4>1, <4>2
        <4> QED BY <4>2, <4>3, SampleFacts
      <3> QED BY <1>2, <3>1, <3>2
    <2> QED BY <1>1, <1>8, <2>1 DEF ExportInv, CoverInv
  <1> QED BY <1>9, <1>10, <1>12, <1>13, <1>14, <1>15 DEF ExportInv

(* A step that leaves the ring alone leaves its invariant alone.           *)
LEMMA RowsKept ==
  ASSUME RowsInv, UNCHANGED <<ring, last>>
  PROVE  RowsInv' /\ Held(ring') = Held(ring)
  BY DEF RowsInv, Filled, Age, Held

(* What is accepted was drained, and lies behind the cursor.               *)
LEMMA SucceedInv ==
  ASSUME ExportInv, AttemptSucceeds
  PROVE  ExportInv'
  <1> DEFINE S == Samples(job.exports)
  <1>1. /\ job.at = "pushing" /\ job'.at = "saving"
        /\ delivered' = delivered \cup S /\ drained' = drained \cup S
        /\ UNCHANGED <<ring, last, cursor, cursorFile, dropped, crashes>>
    BY DEF AttemptSucceeds, Accept
  <1>2. \A x \in S : x \in Columns \X Timestamps /\ x[2] <= cursor[x[1]]
    BY <1>1 DEF ExportInv, FlightInv
  <1>3. \A c \in Columns, v \in Held(ring) :
          v <= cursor[c] => <<c, v>> \in delivered \cup dropped \cup S
    BY <1>1 DEF ExportInv, CoverInv
  <1> HIDE DEF S
  <1>4. RowsInv' /\ Held(ring') = Held(ring)
    BY <1>1, RowsKept DEF ExportInv
  <1>5. JobInv' /\ CursorInv' /\ FlightInv'
    BY <1>1 DEF ExportInv, JobInv, CursorInv, FlightInv
  <1>6. HistoryInv'
    BY <1>1, <1>2 DEF ExportInv, HistoryInv
  <1>7. CoverInv'
    BY <1>1, <1>3, <1>4 DEF ExportInv, CoverInv
  <1> QED BY <1>4, <1>5, <1>6, <1>7 DEF ExportInv

(* After a failed attempt the request stays what it is, or its samples are *)
(* reported lost; the remote end may have taken them.                      *)
LEMMA FailInv ==
  ASSUME ExportInv, AttemptFails
  PROVE  ExportInv'
  <1> DEFINE S == Samples(job.exports)
  <1>1. /\ job.at = "pushing"
        /\ delivered' = delivered \cup S \/ delivered' = delivered
        /\ UNCHANGED <<ring, last, cursor, cursorFile, crashes>>
    BY DEF AttemptFails, Accept
  <1>2. \A x \in S : x \in Columns \X Timestamps /\ x[2] <= cursor[x[1]]
    BY <1>1 DEF ExportInv, FlightInv
  <1>3. \A c \in Columns, v \in Held(ring) :
          v <= cursor[c] => <<c, v>> \in delivered \cup dropped \cup S
    BY <1>1 DEF ExportInv, CoverInv
  <1>4. RowsInv' /\ Held(ring') = Held(ring)
    BY <1>1, RowsKept DEF ExportInv
  <1>5. CASE job.attempt < MaxRetries
    <2>1. job' = [job EXCEPT !.attempt = job.attempt + 1] /\ UNCHANGED <<drained, dropped>>
      BY <1>5 DEF AttemptFails
    <2>2. /\ job = [at |-> "pushing", exports |-> job.exports, attempt |-> job.attempt]
          /\ job.attempt \in Nat
      BY <1>1 DEF ExportInv, JobInv
    <2>3. job' = [at |-> "pushing", exports |-> job.exports, attempt |-> job.attempt + 1]
      BY <2>1, <2>2
    <2>4. /\ job'.at = "pushing" /\ job'.exports = job.exports
          /\ job'.attempt = job.attempt + 1 /\ job'.attempt \in Nat \ {0}
      BY <2>2, <2>3
    <2>5. JobInv'
      BY <1>1, <2>3, <2>4 DEF ExportInv, JobInv
    <2>6. CursorInv'
      BY <1>1, <2>4 DEF ExportInv, CursorInv
    <2>7. HistoryInv'
      <3> HIDE DEF S
      <3> QED BY <1>1, <1>2, <2>1 DEF ExportInv, HistoryInv
    <2>8. FlightInv'
      BY <1>1, <2>1, <2>4 DEF ExportInv, FlightInv
    <2>9. CoverInv'
      <3>1. delivered \subseteq delivered'
        BY <1>1
      <3> QED BY <1>1, <1>3, <1>4, <2>1, <2>4, <3>1 DEF ExportInv, CoverInv
    <2> QED BY <1>4, <2>5, <2>6, <2>7, <2>8, <2>9 DEF ExportInv
  <1>6. CASE ~(job.attempt < MaxRetries)
    <2>1. /\ job'.at = "sleeping"
          /\ drained' = drained \cup S /\ dropped' = dropped \cup S
      BY <1>6 DEF AttemptFails, Sleeping
    <2> HIDE DEF S
    <2>2. JobInv' /\ CursorInv' /\ FlightInv'
      BY <1>1, <2>1 DEF ExportInv, JobInv, CursorInv, FlightInv
    <2>3. HistoryInv'
      BY <1>1, <1>2, <2>1 DEF ExportInv, HistoryInv
    <2>4. CoverInv'
      <3>1. delivered \subseteq delivered'
        BY <1>1
      <3> QED BY <1>1, <1>3, <1>4, <2>1, <3>1 DEF ExportInv, CoverInv
    <2> QED BY <1>4, <2>2, <2>3, <2>4 DEF ExportInv
  <1> QED BY <1>5, <1>6

(* A save writes the cursor in memory, which is covered when nothing is on *)
(* its way; a save that fails leaves the old cursor or nothing readable.   *)
LEMMA SaveInv ==
  ASSUME ExportInv, Save
  PROVE  ExportInv'
  <1>1. /\ job.at = "saving" /\ job'.at = "sleeping"
        /\ cursorFile' \in {cursor, cursorFile, EmptyFile}
        /\ UNCHANGED <<ring, last, cursor, drained, delivered, dropped, crashes>>
    BY DEF Save, SaveCursor, SaveFails, Sleeping
  <1>2. RowsInv' /\ Held(ring') = Held(ring)
    BY <1>1, RowsKept DEF ExportInv
  <1>3. JobInv' /\ HistoryInv' /\ FlightInv'
    BY <1>1 DEF ExportInv, JobInv, HistoryInv, FlightInv
  <1>4. \A c \in Columns : cursor[c] \in Nat
    BY Numbers
  <1>5. CursorInv'
    BY <1>1, <1>4 DEF ExportInv, CursorInv
  <1>6. CoverInv'
    BY <1>1, <1>2 DEF ExportInv, CoverInv
  <1> QED BY <1>2, <1>3, <1>5, <1>6 DEF ExportInv

(* A restart takes the cursor back to the saved one, behind which          *)
(* everything is settled; without a readable file there is no export.      *)
LEMMA CrashInv ==
  ASSUME ExportInv, Crash
  PROVE  ExportInv'
  <1>1. /\ crashes' = crashes + 1 /\ ring' = reopen(ring) /\ drained' = {}
        /\ cursorFile' = cursorFile \/ cursorFile' = EmptyFile
             \/ (job.at = "saving" /\ cursorFile' = cursor)
        /\ \/ cursorFile' = EmptyFile /\ job'.at = "dead" /\ cursor' = cursor
           \/ cursorFile' # EmptyFile /\ job'.at = "sleeping" /\ cursor' = cursorFile'
        /\ UNCHANGED <<last, delivered, dropped>>
    BY DEF Crash, Dead, Sleeping
  <1>2. RowsInv' /\ Held(ring') = Held(ring)
    BY <1>1, RowsReopen DEF ExportInv
  <1>3. JobInv' /\ FlightInv'
    BY <1>1 DEF JobInv, FlightInv
  <1>4. crashes \in Nat
    BY DEF ExportInv, CursorInv
  <1>5. HistoryInv'
    BY <1>1, <1>4 DEF ExportInv, HistoryInv
  <1>6. /\ last \in Nat /\ \A c \in Columns : cursor[c] \in Nat
        /\ cursorFile # EmptyFile => \A c \in Columns : cursorFile[c] \in Nat
    BY Numbers
  <1>7. cursor' \in Cursors /\ \A c \in Columns : cursor'[c] \in Nat /\ cursor'[c] <= last
    BY <1>1, <1>6 DEF ExportInv, CursorInv
  <1>8. CursorInv'
    BY <1>1, <1>4, <1>7 DEF ExportInv, CursorInv
  <1>9. CoverInv'
    <2>1. cursorFile' # EmptyFile =>
            \A c \in Columns, v \in Held(ring) :
              v <= cursorFile'[c] => <<c, v>> \in delivered \cup dropped
      BY <1>1 DEF ExportInv, CoverInv
    <2> QED BY <1>1, <1>2, <2>1 DEF CoverInv
  <1> QED BY <1>2, <1>3, <1>5, <1>8, <1>9 DEF ExportInv

(* It holds at the start.                                                  *)
LEMMA StartInv ==
  ASSUME Init
  PROVE  ExportInv
  <1>1. ring \in RT
    BY CreateShape, ExportAssumption DEF Init, RT
  <1>2. /\ ring.write_cursor = 0 /\ ~ring.has_wrapped
        /\ \A s \in 0 .. SlotCount - 1 : /\ ring.timestamps[s] = 0
                                         /\ \A c \in Columns : ring.values[s][c] = NaN
    BY DEF Init, create
  <1>3. RowsInv
    BY <1>1, <1>2 DEF Init, RowsInv
  <1>4. Held(ring) = {}
    BY <1>2 DEF Held
  <1>5. JobInv /\ HistoryInv /\ FlightInv
    BY DEF Init, JobInv, HistoryInv, FlightInv, Sleeping
  <1>6. CursorInv
    BY DEF Init, CursorInv, Cursors, Sleeping
  <1>7. CoverInv
    BY <1>4 DEF CoverInv
  <1> QED BY <1>3, <1>5, <1>6, <1>7 DEF ExportInv

(* The export keeps its invariant: what the drain, the push and the save   *)
(* do under crashes and lost answers.                                      *)
THEOREM ExportInvariant == Spec => []ExportInv
  <1>1. Init => ExportInv
    BY StartInv
  <1>2. ExportInv /\ [Next]_vars => ExportInv'
    <2> SUFFICES ASSUME ExportInv, [Next]_vars PROVE ExportInv'
      OBVIOUS
    <2>1. CASE RecordRow
      BY <2>1, RecordInv
    <2>2. CASE Drain
      BY <2>2, DrainInv
    <2>3. CASE Push
      BY <2>3, SucceedInv, FailInv DEF Push
    <2>4. CASE Save
      BY <2>4, SaveInv
    <2>5. CASE Crash
      BY <2>5, CrashInv
    <2>6. CASE UNCHANGED vars
      <3>1. RowsInv' /\ Held(ring') = Held(ring)
        BY <2>6, RowsKept DEF ExportInv, vars
      <3> QED BY <2>6, <3>1 DEF ExportInv, vars, JobInv, CursorInv, HistoryInv,
                                FlightInv, CoverInv
    <2> QED BY <2>1, <2>2, <2>3, <2>4, <2>5, <2>6 DEF Next, ExportStep
  <1> QED BY <1>1, <1>2, PTL DEF Spec

(* The state of the export always has its type.                            *)
THEOREM ExportTypes == Spec => []TypeOK
  <1>1. ExportInv => TypeOK
    <2> SUFFICES ASSUME ExportInv PROVE TypeOK
      OBVIOUS
    <2>1. /\ ring \in RingType(SlotCount, IntervalNs, Columns, Timestamps)
          /\ last \in Timestamps \cup {0}
      BY DEF ExportInv, RowsInv, RT
    <2>2. /\ cursor \in [Columns -> Timestamps \cup {0}]
          /\ cursorFile \in [Columns -> Timestamps \cup {0}] \cup {EmptyFile}
      BY DEF ExportInv, CursorInv, Cursors
    <2>3. job.at \in {"sleeping", "pushing", "saving", "dead"}
      BY DEF ExportInv, JobInv
    <2>4. drained \cup delivered \cup dropped \subseteq Columns \X Timestamps
      BY DEF ExportInv, HistoryInv
    <2> QED BY <2>1, <2>2, <2>3, <2>4 DEF TypeOK
  <1> QED BY <1>1, ExportInvariant, PTL

(* The remote end is never sent a sample out of order: what a drain        *)
(* returns for a column ascends and is later than everything this process  *)
(* drained for it, whatever pushes failed in between.                      *)
THEOREM DrainsStayInOrder == Spec => []DrainsAscend
  <1>1. ExportInv => DrainsAscend
    <2> SUFFICES ASSUME ExportInv, job.at = "pushing",
                        NEW c \in DOMAIN job.exports, NEW k \in DOMAIN job.exports[c]
                 PROVE  LET P == job.exports[c]
                        IN  /\ \A j \in 1 .. k - 1 : P[j][1] < P[k][1]
                            /\ \A x \in drained : x[1] = c => x[2] < P[k][1]
      BY DEF DrainsAscend
    <2> DEFINE P == job.exports[c]
               x0 == <<c, P[k][2]>>
    <2>1. Batch(P)
      BY DEF ExportInv, JobInv
    <2>2. Len(P) \in Nat /\ k \in 1 .. Len(P)
      BY <2>1 DEF Batch
    <2>3. P[k][1] = P[k][2] /\ \A j \in 1 .. k - 1 : P[j][1] < P[k][1]
      BY <2>1, <2>2 DEF Batch
    <2>4. x0 \in Samples(job.exports)
      BY SampleFacts
    <2>5. \A x \in drained : x[1] = x0[1] => x[2] < x0[2]
      <3> HIDE DEF x0
      <3> QED BY <2>4 DEF ExportInv, FlightInv
    <2>6. \A x \in drained : x[1] = c => x[2] < P[k][1]
      BY <2>3, <2>5
    <2> QED BY <2>3, <2>6
  <1> QED BY <1>1, ExportInvariant, PTL

(* The saved cursor is never ahead of what was sent: every sample the slab *)
(* holds at or before it has reached the remote end or was part of a push  *)
(* whose failure was reported, over any number of crashes.                 *)
THEOREM SavedCursorIsHonest == Spec => []NothingLeftBehind
  <1>1. ExportInv => NothingLeftBehind
    <2> SUFFICES ASSUME ExportInv, cursorFile # EmptyFile,
                        NEW c \in Columns, NEW s \in Slots(ring),
                        ring.values[s][c] # NaN, ring.values[s][c] <= cursorFile[c]
                 PROVE  <<c, ring.values[s][c]>> \in delivered \cup dropped
      BY DEF NothingLeftBehind
    <2>1. s \in 0 .. SlotCount - 1
      BY DEF ExportInv, RowsInv, RT, RingType, Slots
    <2>2. ring.values[s][c] \in Held(ring)
      BY <2>1, HeldFacts DEF ExportInv
    <2> QED BY <2>2 DEF ExportInv, CoverInv
  <1> QED BY <1>1, ExportInvariant, PTL

(* What the saved cursor covers is never sent a second time: a sample goes *)
(* to the remote end again only as a retry or after a crash, and then only *)
(* when it is later than the saved cursor.                                 *)
THEOREM SavedIsNotResent == Spec => []ResendsOnlyUnsaved
  <1>1. ExportInv => ResendsOnlyUnsaved
    <2> SUFFICES ASSUME ExportInv, job.at = "pushing",
                        NEW x \in Samples(job.exports) \cap delivered
                 PROVE  /\ job.attempt > 0 \/ crashes > 0
                        /\ cursorFile = EmptyFile \/ x[2] > cursorFile[x[1]]
      BY DEF ResendsOnlyUnsaved
    <2>1. job.attempt \in Nat /\ crashes \in Nat
      BY DEF ExportInv, JobInv, CursorInv
    <2>2. ~(crashes = 0 /\ job.attempt = 0)
      BY DEF ExportInv, FlightInv
    <2>3. cursorFile # EmptyFile => x[2] > cursorFile[x[1]]
      BY DEF ExportInv, FlightInv
    <2> QED BY <2>1, <2>2, <2>3
  <1> QED BY <1>1, ExportInvariant, PTL
=============================================================================
