------------------------- MODULE ConsolidationProofs -------------------------
(***************************************************************************)
(* Proofs about consolidation, for any tiers, pairs, timestamps, failures  *)
(* and crashes.                                                            *)
(***************************************************************************)
EXTENDS Consolidation, RingOpsProofs

(* The values of ring r.                                                   *)
RT(r) == RingType(SlotCount[r], IntervalNs[r], Columns, SUBSET Timestamps)

(* The window writes a pair has to do, and the states of a call.           *)
WindowWrites ==
  [window : Nat, column : Columns, value : SUBSET Timestamps, times : SUBSET Nat]

Cursors == [PairIds -> Nat]

PairJobs ==
  [at : {"pair"}, pair : PairIds, cursors : Cursors,
   todo : SUBSET WindowWrites, open : Nat, ops : Nat]

SaveJobs == [at : {"save"}, cursors : Cursors]

Shape ==
  /\ DOMAIN rings = RingIds
  /\ \A r \in RingIds : rings[r] \in RT(r)
  /\ cursorFile \in Cursors \cup {EmptyFile}
  /\ job \in {Idle} \cup PairJobs \cup SaveJobs
  /\ crashes \in 0 .. MaxCrashes

-----------------------------------------------------------------------------
(* Tier pairs.                                                             *)

(* A pair is two rings, the second wider than the first, in one schema.    *)
LEMMA PairFacts ==
  ASSUME NEW i \in PairIds
  PROVE  /\ Src(i) \in RingIds /\ Dst(i) \in RingIds /\ Src(i) # Dst(i)
         /\ Dst(i)[1] = Src(i)[1] /\ Dst(i) \notin Roots
         /\ IntervalNs[Src(i)] \in Nat \ {0} /\ IntervalNs[Dst(i)] \in Nat \ {0}
         /\ SlotCount[Src(i)] \in Nat \ {0} /\ SlotCount[Dst(i)] \in Nat \ {0}
  <1>1. Pairs[i] \in RingIds \X RingIds
    BY ConsolidationAssumption DEF PairIds
  <1>2. /\ Pairs[i][2] = <<Pairs[i][1][1], Pairs[i][1][2] + 1>>
        /\ IntervalNs[Pairs[i][1]] < IntervalNs[Pairs[i][2]]
    BY ConsolidationAssumption, SMTT(30) DEF PairIds
  <1>3. Src(i) \in RingIds /\ Dst(i) \in RingIds
    BY <1>1 DEF Src, Dst
  <1>4. /\ IntervalNs[Src(i)] \in Nat \ {0} /\ IntervalNs[Dst(i)] \in Nat \ {0}
        /\ SlotCount[Src(i)] \in Nat \ {0} /\ SlotCount[Dst(i)] \in Nat \ {0}
    BY <1>3, ConsolidationAssumption
  <1>5. Src(i) # Dst(i)
    BY <1>2, <1>4 DEF Src, Dst
  <1>6. Src(i)[2] \in Nat
    BY <1>3, ConsolidationAssumption
  <1>7. Dst(i)[1] = Src(i)[1] /\ Dst(i)[2] = Src(i)[2] + 1
    BY <1>2 DEF Src, Dst
  <1> QED BY <1>3, <1>4, <1>5, <1>6, <1>7 DEF Roots

(* A ring is the destination of one pair.                                  *)
LEMMA OneSource ==
  ASSUME NEW i \in PairIds, NEW j \in PairIds, Dst(i) = Dst(j)
  PROVE  i = j
  <1>1. /\ Pairs[i] \in RingIds \X RingIds /\ Pairs[j] \in RingIds \X RingIds
        /\ i \in DOMAIN Pairs /\ j \in DOMAIN Pairs
    <2>1. Pairs \in Seq(RingIds \X RingIds)
      BY ConsolidationAssumption
    <2> HIDE DEF PairIds
    <2>2. PairIds = DOMAIN Pairs
      BY <2>1 DEF PairIds
    <2> QED BY <2>1, <2>2
  <1>2. \A k \in DOMAIN Pairs : Pairs[k][2] = <<Pairs[k][1][1], Pairs[k][1][2] + 1>>
    BY ConsolidationAssumption
  <1>3. /\ Pairs[i][1] \in Nat \X Nat /\ Pairs[j][1] \in Nat \X Nat
        /\ Pairs[i] = <<Pairs[i][1], Pairs[i][2]>> /\ Pairs[j] = <<Pairs[j][1], Pairs[j][2]>>
    <2>1. RingIds \subseteq Nat \X Nat
      BY ConsolidationAssumption
    <2> QED BY <1>1, <2>1
  <1>4. Pairs[i][2] = Pairs[j][2]
    BY DEF Dst
  <1>5. Pairs[i][1] = Pairs[j][1]
    BY <1>1, <1>2, <1>3, <1>4
  <1>6. Pairs[i] = Pairs[j]
    BY <1>3, <1>4, <1>5
  <1> QED BY <1>1, <1>6, ConsolidationAssumption

(* A store that consolidates has a first pair.                             *)
LEMMA FirstPair == 1 \in PairIds /\ Len(Pairs) \in Nat
  <1>1. Pairs \in Seq(RingIds \X RingIds) /\ Pairs # << >>
    BY ConsolidationAssumption
  <1> QED BY <1>1 DEF PairIds

(* A window starts at a multiple of its width, and holds what it is for.   *)
LEMMA WindowFacts ==
  ASSUME NEW i \in PairIds, NEW t \in Nat
  PROVE  /\ WindowStart(i, t) \in Nat
         /\ WindowStart(i, t) <= t /\ t < WindowStart(i, t) + IntervalNs[Dst(i)]
  <1> DEFINE d == IntervalNs[Dst(i)]
             q == t \div d
             m == t % d
  <1>1. d \in Nat \ {0}
    BY PairFacts
  <1>2. q \in Nat
    BY <1>1, DivNat
  <1>3. m \in 0 .. d - 1
    BY <1>1, ModRange
  <1>4. t = d * q + m
    BY <1>1, DivMod
  <1>5. WindowStart(i, t) = q * d
    BY DEF WindowStart
  <1> HIDE DEF d, q, m
  <1>6. q * d = d * q /\ d * q \in Nat
    BY <1>1, <1>2
  <1> QED BY <1>1, <1>3, <1>4, <1>5, <1>6 DEF d

(* A time is in the range of what is new for the pair.                     *)
InRange(i, last, t) == t \in NewRange(i, last).start .. NewRange(i, last).end - 1

(* What a pair has to write: windows of points of the source ring that lie *)
(* after the cursor.                                                       *)
LEMMA WindowsFacts ==
  ASSUME NEW i \in PairIds, NEW last \in Nat, rings[Src(i)] \in RT(Src(i)),
         NEW x \in Windows(i, last)
  PROVE  /\ x \in WindowWrites
         /\ newest_timestamp(rings[Src(i)]) >= last
         /\ \E t \in Nat : x.window = WindowStart(i, t)
         /\ \A u \in x.value : \E s \in 0 .. SlotCount[Src(i)] - 1 :
              /\ u \in rings[Src(i)].values[s][x.column]
              /\ WindowStart(i, rings[Src(i)].timestamps[s]) = x.window
              /\ InRange(i, last, rings[Src(i)].timestamps[s])
         /\ x.value # {}
  <1> DEFINE r == rings[Src(i)]
             n == SlotCount[Src(i)]
             range == NewRange(i, last)
             got(c) == read(r, c, range.start, range.end)
             points(c) == NewPoints(i, c, range)
             of(c, w) == {p \in points(c) : WindowStart(i, p[1]) = w}
  <1>1. /\ n \in Nat \ {0} /\ IntervalNs[Src(i)] \in Nat \ {0}
        /\ r \in RingType(n, IntervalNs[Src(i)], Columns, SUBSET Timestamps)
    BY PairFacts DEF RT
  <1>2. /\ r.timestamps \in [0 .. n - 1 -> Nat] /\ r.write_cursor \in 0 .. n - 1
        /\ r.values \in [0 .. n - 1 -> [Columns -> SUBSET Timestamps]]
        /\ r.interval_ns = IntervalNs[Src(i)]
    <2>1. (SUBSET Timestamps) \cup {NaN} = SUBSET Timestamps
      BY ConsolidationAssumption
    <2> QED BY <1>1, <2>1 DEF RingType
  <1>3. PICK c \in Columns : x \in ColumnWindows(i, c, points(c))
    BY DEF Windows
  <1>4. PICK w \in {WindowStart(i, p[1]) : p \in points(c)} :
           x = [window |-> w, column |-> c,
                value  |-> UNION {p[2] : p \in of(c, w)},
                times  |-> {p[1] : p \in of(c, w)}]
    BY <1>3 DEF ColumnWindows
  <1>5. /\ ~(range.start >= range.end)
         /\ points(c) = {got(c)[k] : k \in DOMAIN got(c)}
    <2>1. points(c) # {}
      BY <1>4
    <2> QED BY <2>1 DEF NewPoints
  <1>6. \A p \in points(c) : \E s \in 0 .. n - 1 :
          /\ p = <<r.timestamps[s], r.values[s][c]>> /\ r.values[s][c] # NaN
          /\ InRange(i, last, r.timestamps[s])
    <2> SUFFICES ASSUME NEW k \in DOMAIN got(c)
                 PROVE  \E s \in 0 .. n - 1 :
                          /\ got(c)[k] = <<r.timestamps[s], r.values[s][c]>> /\ r.values[s][c] # NaN
                          /\ r.timestamps[s] \in range.start .. range.end - 1
      BY <1>5 DEF InRange
    <2> QED BY <1>1, ReadSound
  <1>7. newest_timestamp(r) >= last
    <2>1. newest_timestamp(r) \in Nat
      BY <1>2 DEF newest_timestamp
    <2>2. CASE last = 0
      BY <2>1, <2>2
    <2>3. CASE last # 0
      <3>1. range.start = last + IntervalNs[Src(i)]
        BY <1>2, <2>3 DEF NewRange
      <3>2. range.end = IF newest_timestamp(r) = 0 THEN 0 ELSE newest_timestamp(r) + 1
        BY DEF NewRange
      <3> QED BY <1>1, <1>5, <2>1, <3>1, <3>2
    <2> QED BY <2>2, <2>3
  <1> HIDE DEF points, r, n
  <1>8. \A p \in points(c) : p[1] \in Nat /\ p[2] \in SUBSET Timestamps
    <2> TAKE p \in points(c)
    <2>1. PICK s \in 0 .. n - 1 : p = <<r.timestamps[s], r.values[s][c]>>
      BY <1>6
    <2>2. r.timestamps[s] \in Nat /\ r.values[s] \in [Columns -> SUBSET Timestamps]
      BY <1>2
    <2>3. p[1] = r.timestamps[s] /\ p[2] = r.values[s][c]
      BY <2>1
    <2> QED BY <2>2, <2>3
  <1>9. \E t \in Nat : w = WindowStart(i, t)
    BY <1>8
  <1>10. w \in Nat
    BY <1>9, WindowFacts
  <1>11. (UNION {p[2] : p \in of(c, w)}) \in SUBSET Timestamps
    BY <1>8
  <1>12. {p[1] : p \in of(c, w)} \in SUBSET Nat
    BY <1>8
  <1>13. \A u \in UNION {p[2] : p \in of(c, w)} : \E s \in 0 .. n - 1 :
              /\ u \in r.values[s][c] /\ WindowStart(i, r.timestamps[s]) = w
              /\ InRange(i, last, r.timestamps[s])
    <2> TAKE u \in UNION {p[2] : p \in of(c, w)}
    <2>1. PICK p \in points(c) : u \in p[2] /\ WindowStart(i, p[1]) = w
      OBVIOUS
    <2> QED BY <1>6, <2>1
  <1>16. (UNION {p[2] : p \in of(c, w)}) # {}
    <2>1. PICK p \in points(c) : WindowStart(i, p[1]) = w
      OBVIOUS
    <2>2. PICK s \in 0 .. n - 1 :
            p = <<r.timestamps[s], r.values[s][c]>> /\ r.values[s][c] # NaN
      BY <1>6
    <2>3. p[2] # {}
      BY <2>2, ConsolidationAssumption
    <2>4. p \in of(c, w)
      BY <2>1
    <2> QED BY <2>3, <2>4
  <1> HIDE DEF of
  <1>14. x \in WindowWrites
    BY <1>4, <1>10, <1>11, <1>12 DEF WindowWrites
  <1>15. x.value = UNION {p[2] : p \in of(c, w)} /\ x.window = w /\ x.column = c
    BY <1>4
  <1> QED BY <1>7, <1>9, <1>13, <1>14, <1>15, <1>16 DEF r, n
-----------------------------------------------------------------------------
(* The steps of a call.                                                    *)

(* Column c of slot s got value v at time t, and nothing else changed.     *)
Wrote(new, old, s, c, v, t) ==
  /\ new.write_cursor = s
  /\ new.timestamps[s] = t
  /\ \A d \in Columns : new.values[s][d] = IF d = c THEN v ELSE old.values[s][d]
  /\ \A x \in Slots(old) \ {s} :
       new.timestamps[x] = old.timestamps[x] /\ new.values[x] = old.values[x]
  /\ new.has_wrapped <=> (old.has_wrapped \/ s < old.write_cursor)

(* The slot of a time in ring q.                                           *)
SlotOf(q, t) == (t \div IntervalNs[q]) % SlotCount[q]

(* RingBuffer::write of one column of ring q.                              *)
LEMMA OneWrite ==
  ASSUME NEW q \in RingIds, NEW r \in RT(q), NEW c \in Columns,
         NEW v \in SUBSET Timestamps, NEW t \in Nat
  PROVE  /\ SlotOf(q, t) \in Slots(r)
         /\ write(r, c, v, t) \in RT(q)
         /\ Wrote(write(r, c, v, t), r, SlotOf(q, t), c, v, t)
  <1> DEFINE n == SlotCount[q]
             d == IntervalNs[q]
             V == SUBSET Timestamps
             e == [x \in {c} |-> v]
             s == compute_slot(r, t)
             w == write_entries(r, e, t)
             row == [x \in Columns |-> IF x \in DOMAIN e THEN e[x] ELSE r.values[s][x]]
  <1>1. n \in Nat \ {0} /\ d \in Nat \ {0} /\ r \in RingType(n, d, Columns, V)
    BY ConsolidationAssumption DEF RT
  <1>2. s = SlotOf(q, t) /\ s \in 0 .. n - 1
    BY <1>1, ComputedSlot DEF SlotOf
  <1>3. \A x \in DOMAIN e : e[x] \in V \cup {NaN}
    OBVIOUS
  <1>4. /\ w \in RingType(n, d, Columns, V)
        /\ w.write_cursor = s
        /\ w.timestamps = [r.timestamps EXCEPT ![s] = t]
        /\ w.values = [r.values EXCEPT ![s] = row]
        /\ w.has_wrapped <=> (r.has_wrapped \/ s < r.write_cursor)
    <2> HIDE DEF n, d, V, e
    <2> QED BY <1>1, <1>3, WriteShape
  <1>5. \A x \in Columns : row[x] = IF x = c THEN v ELSE r.values[s][x]
    OBVIOUS
  <1>6. write(r, c, v, t) = w
    BY DEF write
  <1>7. /\ r.timestamps \in [0 .. n - 1 -> Nat]
        /\ r.values \in [0 .. n - 1 -> [Columns -> V \cup {NaN}]]
        /\ Slots(r) = 0 .. n - 1
    BY <1>1 DEF RingType, Slots
  <1> HIDE DEF s, w, e, row, n, V
  <1>8. Wrote(w, r, s, c, v, t)
    <2>1. w.timestamps[s] = t /\ w.values[s] = row
      BY <1>2, <1>4, <1>7, ZenonT(60)
    <2>2. \A x \in Slots(r) \ {s} : w.timestamps[x] = r.timestamps[x] /\ w.values[x] = r.values[x]
      BY <1>2, <1>4, <1>7
    <2> QED BY <1>4, <1>5, <2>1, <2>2 DEF Wrote
  <1> QED BY <1>2, <1>4, <1>6, <1>7, <1>8 DEF RT, n, V

(* A call that enters a pair.                                              *)
LEMMA EnterFacts ==
  ASSUME Shape, NEW i \in PairIds, NEW cs \in Cursors
  PROVE  /\ Enter(i, cs) \in PairJobs
         /\ Enter(i, cs).pair = i /\ Enter(i, cs).cursors = cs
         /\ Enter(i, cs).todo = Windows(i, cs[i]) /\ Enter(i, cs).ops = 0
         /\ Enter(i, cs).todo # {} => newest_timestamp(rings[Src(i)]) >= cs[i]
  <1>1. cs[i] \in Nat /\ rings[Src(i)] \in RT(Src(i))
    BY PairFacts DEF Shape, Cursors
  <1>2. \A x \in Windows(i, cs[i]) :
          x \in WindowWrites /\ newest_timestamp(rings[Src(i)]) >= cs[i]
    BY <1>1, WindowsFacts
  <1>3. Windows(i, cs[i]) \in SUBSET WindowWrites
    BY <1>2
  <1>4. Enter(i, cs) = [at |-> "pair", pair |-> i, cursors |-> cs,
                        todo |-> Windows(i, cs[i]), open |-> 0, ops |-> 0]
    BY DEF Enter
  <1> QED BY <1>2, <1>3, <1>4 DEF PairJobs

(* Which job is which.                                                     *)
LEMMA JobFacts ==
  ASSUME Shape
  PROVE  /\ job = Idle <=> job.at = "idle"
         /\ job.at = "pair" <=> job \in PairJobs
         /\ job.at = "save" <=> job \in SaveJobs
         /\ job # Idle => job.cursors \in Cursors
         /\ job.at \in {"idle", "pair", "save"}
  BY DEF Shape, Idle, PairJobs, SaveJobs

(* The cursors a call works with are never behind the saved ones, and what *)
(* is left to write, or was written, is evidence that the source ring has  *)
(* something newer than the pair's cursor.                                 *)
CursorInv ==
  /\ job # Idle /\ cursorFile # EmptyFile =>
       \A i \in PairIds : job.cursors[i] >= cursorFile[i]
  /\ job.at = "pair" /\ (job.todo # {} \/ job.ops > 0) =>
       newest_timestamp(rings[Src(job.pair)]) >= job.cursors[job.pair]

CallInv == Shape /\ CursorInv

(* Store::record.                                                          *)
LEMMA RecordEffect ==
  ASSUME Shape, NEW r \in Roots, NEW c \in Columns, NEW t \in Timestamps, Record(r, c, t)
  PROVE  /\ DOMAIN rings' = RingIds
         /\ \A q \in RingIds : rings'[q] \in RT(q)
         /\ \A q \in RingIds : q # r => rings'[q] = rings[q]
         /\ SlotOf(r, t) \in Slots(rings[r])
         /\ Wrote(rings'[r], rings[r], SlotOf(r, t), c, {t}, t)
  <1>1. r \in RingIds /\ rings[r] \in RT(r) /\ t \in Nat /\ {t} \in SUBSET Timestamps
    BY ConsolidationAssumption DEF Roots, Shape
  <1>2. rings' = [rings EXCEPT ![r] = write(rings[r], c, {t}, t)]
    BY DEF Record
  <1>3. /\ DOMAIN rings' = RingIds /\ rings'[r] = write(rings[r], c, {t}, t)
        /\ \A q \in RingIds : q # r => rings'[q] = rings[q]
    BY <1>1, <1>2 DEF Shape
  <1>4. /\ write(rings[r], c, {t}, t) \in RT(r)
        /\ SlotOf(r, t) \in Slots(rings[r])
        /\ Wrote(write(rings[r], c, {t}, t), rings[r], SlotOf(r, t), c, {t}, t)
    BY <1>1, OneWrite
  <1>5. \A q \in RingIds : rings'[q] \in RT(q)
    BY <1>3, <1>4 DEF Shape
  <1> QED BY <1>3, <1>4, <1>5

(* One window write.                                                       *)
LEMMA WriteEffect ==
  ASSUME Shape, WriteWindow
  PROVE  \E x \in job.todo :
           LET q == Dst(job.pair)
           IN  /\ job \in PairJobs /\ x \in WindowWrites /\ x.window # 0
               /\ DOMAIN rings' = RingIds
               /\ \A p \in RingIds : rings'[p] \in RT(p)
               /\ \A p \in RingIds : p # q => rings'[p] = rings[p]
               /\ SlotOf(q, x.window) \in Slots(rings[q])
               /\ Wrote(rings'[q], rings[q], SlotOf(q, x.window), x.column, x.value, x.window)
               /\ job' \in PairJobs
               /\ job'.pair = job.pair /\ job'.cursors = job.cursors
               /\ job'.todo = job.todo \ {x}
               /\ consumed' = [consumed EXCEPT ![job.pair][x.column] = @ \cup x.times]
               /\ cursorFile' = cursorFile /\ crashes' = crashes /\ recorded' = recorded
  <1>1. job \in PairJobs
    BY JobFacts DEF WriteWindow
  <1>2. PICK x \in job.todo :
          /\ x.window # 0
          /\ rings' = [rings EXCEPT ![Dst(job.pair)] =
                         write(rings[Dst(job.pair)], x.column, x.value, x.window)]
          /\ job' = [job EXCEPT !.todo = @ \ {x}, !.open = x.window, !.ops = @ + 1]
          /\ consumed' = [consumed EXCEPT ![job.pair][x.column] = @ \cup x.times]
          /\ cursorFile' = cursorFile /\ crashes' = crashes /\ recorded' = recorded
    BY DEF WriteWindow, Refused
  <1>3. job.pair \in PairIds /\ x \in WindowWrites /\ job.ops \in Nat
        /\ job.cursors \in Cursors /\ job.todo \in SUBSET WindowWrites
    BY <1>1 DEF PairJobs
  <1> DEFINE q == Dst(job.pair)
             w == write(rings[q], x.column, x.value, x.window)
  <1>4. q \in RingIds /\ rings[q] \in RT(q)
    BY <1>3, PairFacts DEF Shape
  <1>5. x.column \in Columns /\ x.value \in SUBSET Timestamps /\ x.window \in Nat
    BY <1>3 DEF WindowWrites
  <1>6. /\ SlotOf(q, x.window) \in Slots(rings[q]) /\ w \in RT(q)
        /\ Wrote(w, rings[q], SlotOf(q, x.window), x.column, x.value, x.window)
    BY <1>4, <1>5, OneWrite
  <1>7. job' = [at |-> "pair", pair |-> job.pair, cursors |-> job.cursors,
                todo |-> job.todo \ {x}, open |-> x.window, ops |-> job.ops + 1]
    <2>1. /\ job = [at |-> job.at, pair |-> job.pair, cursors |-> job.cursors,
                   todo |-> job.todo, open |-> job.open, ops |-> job.ops]
          /\ job.at = "pair"
      BY <1>1 DEF PairJobs
    <2> QED BY <1>2, <2>1
  <1>8. job' \in PairJobs /\ job'.pair = job.pair /\ job'.cursors = job.cursors
        /\ job'.todo = job.todo \ {x}
    BY <1>3, <1>5, <1>7 DEF PairJobs
  <1>9. rings' = [rings EXCEPT ![q] = w]
    BY <1>2
  <1> HIDE DEF q, w
  <1>10. /\ DOMAIN rings' = RingIds /\ rings'[q] = w
         /\ \A p \in RingIds : p # q => rings'[p] = rings[p]
    BY <1>4, <1>9 DEF Shape
  <1>11. \A p \in RingIds : rings'[p] \in RT(p)
    BY <1>6, <1>10 DEF Shape
  <1> QED BY <1>1, <1>2, <1>3, <1>6, <1>8, <1>10, <1>11 DEF q

(* A pair is done.                                                         *)
LEMMA FinishEffect ==
  ASSUME CallInv, FinishPair
  PROVE  \E cs \in Cursors :
           /\ job \in PairJobs /\ job.todo = {}
           /\ \A i \in PairIds : cs[i] >= job.cursors[i]
           /\ cs = IF job.ops > 0
                     THEN [job.cursors EXCEPT ![job.pair] = newest_timestamp(rings[Src(job.pair)])]
                     ELSE job.cursors
           /\ \/ /\ job.pair + 1 \in PairIds /\ job' = Enter(job.pair + 1, cs)
              \/ job' = [at |-> "save", cursors |-> cs]
           /\ rings' = rings /\ cursorFile' = cursorFile /\ crashes' = crashes
           /\ recorded' = recorded /\ consumed' = consumed
  <1> DEFINE i == job.pair
             new == newest_timestamp(rings[Src(i)])
             cs == IF job.ops > 0 THEN [job.cursors EXCEPT ![i] = new] ELSE job.cursors
  <1>1. job \in PairJobs
    BY JobFacts DEF FinishPair, CallInv
  <1>2. i \in PairIds /\ job.cursors \in Cursors /\ job.at = "pair" /\ job.ops \in Nat
    BY <1>1 DEF PairJobs
  <1>3. new \in Nat
    <2>1. rings[Src(i)] \in RT(Src(i))
      BY <1>2, PairFacts DEF CallInv, Shape
    <2> QED BY <2>1 DEF RT, RingType, newest_timestamp
  <1>4. job.ops > 0 => new >= job.cursors[i]
    BY <1>2 DEF CallInv, CursorInv
  <1> HIDE DEF new
  <1>5. cs \in Cursors /\ \A j \in PairIds : cs[j] >= job.cursors[j]
    BY <1>2, <1>3, <1>4 DEF Cursors
  <1>6. /\ job.todo = {}
        /\ job' = IF i < Len(Pairs) THEN Enter(i + 1, cs) ELSE [at |-> "save", cursors |-> cs]
        /\ rings' = rings /\ cursorFile' = cursorFile /\ crashes' = crashes
        /\ recorded' = recorded /\ consumed' = consumed
    BY DEF FinishPair, new
  <1>7. i < Len(Pairs) => i + 1 \in PairIds
    BY <1>2, FirstPair DEF PairIds
  <1> HIDE DEF cs
  <1>8. \/ i + 1 \in PairIds /\ job' = Enter(i + 1, cs)
        \/ job' = [at |-> "save", cursors |-> cs]
    BY <1>6, <1>7
  <1> QED BY <1>1, <1>5, <1>6, <1>8 DEF cs, new

(* A crash.                                                                *)
LEMMA CrashEffect ==
  ASSUME Shape, Crash
  PROVE  /\ DOMAIN rings' = RingIds
         /\ \A q \in RingIds : /\ rings'[q] \in RT(q)
                               /\ rings'[q].write_cursor = rings[q].write_cursor
                               /\ rings'[q].timestamps = rings[q].timestamps
                               /\ rings'[q].values = rings[q].values
         /\ job' = Idle /\ crashes' \in 0 .. MaxCrashes
         /\ recorded' = recorded /\ consumed' = consumed
         /\ cursorFile' \in {cursorFile, EmptyFile} \/ (job \in SaveJobs /\ cursorFile' = job.cursors)
  <1>1. \A q \in RingIds : rings'[q] = reopen(rings[q]) /\ rings[q] \in RT(q)
    BY DEF Crash, Shape
  <1>5. \A q \in RingIds : \A r \in RT(q) : /\ reopen(r) \in RT(q)
                                          /\ reopen(r).write_cursor = r.write_cursor
                                          /\ reopen(r).timestamps = r.timestamps
                                          /\ reopen(r).values = r.values
    BY ReopenShape DEF RT
  <1>2. \A q \in RingIds : /\ rings'[q] \in RT(q)
                           /\ rings'[q].write_cursor = rings[q].write_cursor
                           /\ rings'[q].timestamps = rings[q].timestamps
                           /\ rings'[q].values = rings[q].values
    BY <1>1, <1>5
  <1>3. crashes' \in 0 .. MaxCrashes
    BY ConsolidationAssumption DEF Crash, Shape
  <1>4. cursorFile' \in {cursorFile, EmptyFile} \/ (job \in SaveJobs /\ cursorFile' = job.cursors)
    BY JobFacts DEF Crash
  <1> QED BY <1>2, <1>3, <1>4 DEF Crash

(* Slot s got time t, and column c of it, perhaps, a value; now it holds   *)
(* left.                                                                   *)
Torn(new, old, s, c, left, t) ==
  /\ new.timestamps[s] = t
  /\ new.values[s][c] = left
  /\ \A x \in Slots(old) \ {s} :
       new.timestamps[x] = old.timestamps[x] /\ new.values[x] = old.values[x]

(* A write of column c that was not finished.                              *)
TornOff(new, q, old, c, t) ==
  /\ compute_slot(new, t) = SlotOf(q, t)
  /\ SlotOf(q, t) \in Slots(old)
  /\ new \in RT(q)
  /\ new.values[SlotOf(q, t)][c] \in SUBSET Timestamps
  /\ Torn(new, old, SlotOf(q, t), c, new.values[SlotOf(q, t)][c], t)

(* What may have been stored of value v: nothing, or v.                    *)
Parts(c, v) == {[d \in {} |-> v], [d \in {c} |-> v]}

LEMMA OneTear ==
  ASSUME NEW q \in RingIds, NEW r \in RT(q), NEW c \in Columns, NEW v \in SUBSET Timestamps,
         NEW t \in Nat, NEW stored \in Parts(c, v)
  PROVE  TornOff(unfinished(r, stored, t), q, r, c, t)
  <1> DEFINE n == SlotCount[q]
             d == IntervalNs[q]
             V == SUBSET Timestamps
             s == compute_slot(r, t)
             row == [x \in DOMAIN r.values[s] |->
                       IF x \in DOMAIN stored THEN stored[x] ELSE r.values[s][x]]
             u == unfinished(r, stored, t)
  <1>1. n \in Nat \ {0} /\ d \in Nat \ {0} /\ r \in RingType(n, d, Columns, V)
    BY ConsolidationAssumption DEF RT
  <1>2. s = SlotOf(q, t) /\ s \in 0 .. n - 1
    BY <1>1, ComputedSlot DEF SlotOf
  <1>3. NaN \in V
    BY ConsolidationAssumption
  <1>4. \A x \in DOMAIN stored : stored[x] \in V
    BY DEF Parts
  <1>5. /\ r.timestamps \in [0 .. n - 1 -> Nat]
        /\ r.values \in [0 .. n - 1 -> [Columns -> V \cup {NaN}]]
        /\ Slots(r) = 0 .. n - 1
    BY <1>1 DEF RingType, Slots
  <1> HIDE DEF V, s, n, d
  <1>6. r.values[s] \in [Columns -> V]
    <2>1. V \cup {NaN} = V
      BY <1>3
    <2>2. r.values \in [0 .. n - 1 -> [Columns -> V]]
      BY <1>5, <2>1
    <2> QED BY <1>2, <2>2
  <1>7. row \in [Columns -> V]
    <2>1. DOMAIN r.values[s] = Columns /\ \A x \in Columns : r.values[s][x] \in V
      BY <1>6
    <2>2. row = [x \in Columns |-> IF x \in DOMAIN stored THEN stored[x] ELSE r.values[s][x]]
      BY <2>1
    <2> HIDE DEF row
    <2>3. \A x \in Columns :
            (IF x \in DOMAIN stored THEN stored[x] ELSE r.values[s][x]) \in V
      BY <1>4, <2>1
    <2> QED BY <2>2, <2>3
  <1>8. u = [r EXCEPT !.timestamps[s] = t, !.values[s] = row]
    BY DEF unfinished, s
  <1> HIDE DEF s, row, u, n, d
  <1>9. [r.timestamps EXCEPT ![s] = t] \in [0 .. n - 1 -> Nat]
    BY <1>2, <1>5
  <1>10. [r.values EXCEPT ![s] = row] \in [0 .. n - 1 -> [Columns -> V \cup {NaN}]]
    BY <1>2, <1>5, <1>7
  <1>81. u = [r EXCEPT !.timestamps = [r.timestamps EXCEPT ![s] = t],
                       !.values = [r.values EXCEPT ![s] = row]]
    BY <1>1, <1>8 DEF RingType
  <1>11. /\ u \in RingType(n, d, Columns, V)
         /\ u.slot_count = r.slot_count /\ u.interval_ns = r.interval_ns
         /\ u.timestamps = [r.timestamps EXCEPT ![s] = t]
         /\ u.values = [r.values EXCEPT ![s] = row]
    BY <1>1, <1>81, <1>9, <1>10 DEF RingType
  <1>12. /\ u.timestamps[s] = t /\ u.values[s] = row
         /\ \A x \in Slots(r) \ {s} : u.timestamps[x] = r.timestamps[x] /\ u.values[x] = r.values[x]
    BY <1>2, <1>5, <1>11
  <1>13. compute_slot(u, t) = s
    BY <1>11 DEF compute_slot, s
  <1>14. u.values[s][c] \in V
    BY <1>7, <1>12
  <1> QED BY <1>2, <1>5, <1>11, <1>12, <1>13, <1>14 DEF TornOff, Torn, RT, u, V, n, d

(* A crash inside a write.                                                 *)
DiedWriting(r, c, v, t) ==
  \E left \in SUBSET Timestamps :
    /\ \A q \in RingIds : q # r => /\ rings'[q].write_cursor = rings[q].write_cursor
                                  /\ rings'[q].timestamps = rings[q].timestamps
                                  /\ rings'[q].values = rings[q].values
    /\ SlotOf(r, t) \in Slots(rings[r])
    /\ Torn(rings'[r], rings[r], SlotOf(r, t), c, left, t)
    /\ strays' = [strays EXCEPT ![<<r[1], 0>>][c] = @ \cup (left \X {t})]

LEMMA DieEffect ==
  ASSUME Shape, NEW r \in RingIds, NEW c \in Columns, NEW v \in SUBSET Timestamps,
         NEW t \in Nat, DieInside(r, c, v, t)
  PROVE  /\ DOMAIN rings' = RingIds
         /\ \A q \in RingIds : rings'[q] \in RT(q)
         /\ DiedWriting(r, c, v, t)
         /\ job' = Idle /\ crashes' \in 0 .. MaxCrashes /\ cursorFile' = cursorFile
         /\ recorded' = recorded /\ consumed' = consumed
  <1> DEFINE s == SlotOf(r, t)
  <1>1. PICK stored \in Parts(c, v) :
          LET torn == unfinished(rings[r], stored, t)
          IN  /\ rings' = [q \in RingIds |-> reopen(IF q = r THEN torn ELSE rings[q])]
              /\ strays' = [strays EXCEPT ![<<r[1], 0>>][c] =
                              @ \cup (torn.values[compute_slot(torn, t)][c] \X {t})]
    BY DEF DieInside, Parts
  <1>0. /\ crashes < MaxCrashes /\ crashes' = crashes + 1
        /\ job' = Idle /\ cursorFile' = cursorFile /\ recorded' = recorded /\ consumed' = consumed
    BY DEF DieInside
  <1> DEFINE torn == unfinished(rings[r], stored, t)
             left == torn.values[s][c]
  <1>2. rings[r] \in RT(r)
    BY DEF Shape
  <1>3. /\ compute_slot(torn, t) = s /\ s \in Slots(rings[r]) /\ torn \in RT(r)
        /\ left \in SUBSET Timestamps /\ Torn(torn, rings[r], s, c, left, t)
    <2>1. TornOff(unfinished(rings[r], stored, t), r, rings[r], c, t)
      BY <1>2, OneTear
    <2> QED BY <2>1 DEF TornOff
  <1>4. /\ rings' = [q \in RingIds |-> reopen(IF q = r THEN torn ELSE rings[q])]
        /\ strays' = [strays EXCEPT ![<<r[1], 0>>][c] = @ \cup (left \X {t})]
    BY <1>1, <1>3
  <1> HIDE DEF torn, left, s
  <1>5. /\ DOMAIN rings' = RingIds /\ rings'[r] = reopen(torn)
        /\ \A q \in RingIds : q # r => rings'[q] = reopen(rings[q])
    BY <1>4
  <1>6. \A q \in RingIds : \A x \in RT(q) : /\ reopen(x) \in RT(q)
                                          /\ reopen(x).write_cursor = x.write_cursor
                                          /\ reopen(x).timestamps = x.timestamps
                                          /\ reopen(x).values = x.values
    BY ReopenShape DEF RT
  <1>7. \A q \in RingIds : rings'[q] \in RT(q)
    BY <1>3, <1>5, <1>6 DEF Shape
  <1>8. \A q \in RingIds : q # r => /\ rings'[q].write_cursor = rings[q].write_cursor
                                  /\ rings'[q].timestamps = rings[q].timestamps
                                  /\ rings'[q].values = rings[q].values
    BY <1>5, <1>6 DEF Shape
  <1>9. Torn(rings'[r], rings[r], s, c, left, t)
    <2>1. rings'[r].timestamps = torn.timestamps /\ rings'[r].values = torn.values
      BY <1>3, <1>5, <1>6
    <2> QED BY <1>3, <2>1 DEF Torn
  <1>10. DiedWriting(r, c, v, t)
    BY <1>3, <1>4, <1>8, <1>9 DEF DiedWriting, s
  <1>11. crashes' \in 0 .. MaxCrashes
    <2>1. crashes \in 0 .. MaxCrashes /\ MaxCrashes \in Nat
      BY ConsolidationAssumption DEF Shape
    <2> QED BY <1>0, <2>1
  <1> QED BY <1>0, <1>5, <1>7, <1>10, <1>11
-----------------------------------------------------------------------------
(* Every step keeps the shape of the state and the cursors.                *)

(* A fresh store.                                                          *)
LEMMA InitCallInv == Init => CallInv
  <1> SUFFICES ASSUME Init PROVE CallInv
    OBVIOUS
  <1>1. \A r \in RingIds : rings[r] \in RT(r)
    BY CreateShape, ConsolidationAssumption DEF Init, RT
  <1>2. Shape
    BY <1>1, ConsolidationAssumption DEF Init, Shape, Cursors
  <1>3. CursorInv
    BY DEF Init, CursorInv, Idle
  <1> QED BY <1>2, <1>3 DEF CallInv

(* Record: a caller has the store to itself.                               *)
LEMMA RecordKeeps ==
  ASSUME CallInv, NEW r \in Roots, NEW c \in Columns, NEW t \in Timestamps, Record(r, c, t)
  PROVE  CallInv'
  <1>1. DOMAIN rings' = RingIds /\ \A q \in RingIds : rings'[q] \in RT(q)
    BY RecordEffect DEF CallInv
  <1>2. job = Idle /\ job' = job /\ cursorFile' = cursorFile /\ crashes' = crashes
    BY DEF Record
  <1>3. Shape'
    BY <1>1, <1>2 DEF Shape, CallInv, RT
  <1>4. CursorInv'
    BY <1>2 DEF CursorInv, Idle
  <1> QED BY <1>3, <1>4 DEF CallInv

(* A call begins with the cursors of the file.                             *)
LEMMA StartKeeps ==
  ASSUME CallInv, StartConsolidation
  PROVE  CallInv'
  <1>1. /\ cursorFile # EmptyFile /\ job' = Enter(1, cursorFile)
        /\ rings' = rings /\ cursorFile' = cursorFile /\ crashes' = crashes
    BY DEF StartConsolidation
  <1>2. cursorFile \in Cursors
    BY <1>1 DEF CallInv, Shape
  <1>3. /\ job' \in PairJobs /\ job'.pair = 1 /\ job'.cursors = cursorFile /\ job'.ops = 0
        /\ job'.todo # {} => newest_timestamp(rings[Src(1)]) >= cursorFile[1]
    BY <1>1, <1>2, EnterFacts, FirstPair DEF CallInv
  <1>4. Shape'
    BY <1>1, <1>3 DEF CallInv, Shape, RT
  <1>5. \A i \in PairIds : job'.cursors[i] >= cursorFile[i]
    BY <1>2, <1>3 DEF Cursors
  <1>6. CursorInv'
    BY <1>1, <1>3, <1>5 DEF CursorInv
  <1> QED BY <1>4, <1>6 DEF CallInv

(* A window write leaves the source ring of its pair alone.                *)
LEMMA WriteKeeps ==
  ASSUME CallInv, WriteWindow
  PROVE  CallInv'
  <1>1. PICK x \in job.todo :
          /\ job \in PairJobs
          /\ DOMAIN rings' = RingIds
          /\ \A p \in RingIds : rings'[p] \in RT(p)
          /\ \A p \in RingIds : p # Dst(job.pair) => rings'[p] = rings[p]
          /\ job' \in PairJobs
          /\ job'.pair = job.pair /\ job'.cursors = job.cursors
          /\ cursorFile' = cursorFile /\ crashes' = crashes
    BY WriteEffect DEF CallInv
  <1>2. job.pair \in PairIds /\ job.at = "pair" /\ job # Idle
    BY <1>1 DEF PairJobs, Idle
  <1>3. rings'[Src(job.pair)] = rings[Src(job.pair)]
    BY <1>1, <1>2, PairFacts
  <1>4. newest_timestamp(rings[Src(job.pair)]) >= job.cursors[job.pair]
    BY <1>1, <1>2 DEF CallInv, CursorInv
  <1>5. Shape'
    BY <1>1 DEF CallInv, Shape, RT
  <1>6. CursorInv'
    BY <1>1, <1>2, <1>3, <1>4 DEF CallInv, CursorInv
  <1> QED BY <1>5, <1>6 DEF CallInv

(* The cursor of a finished pair only moves forward.                       *)
LEMMA FinishKeeps ==
  ASSUME CallInv, FinishPair
  PROVE  CallInv'
  <1>1. PICK cs \in Cursors :
          /\ job \in PairJobs
          /\ \A i \in PairIds : cs[i] >= job.cursors[i]
          /\ \/ /\ job.pair + 1 \in PairIds /\ job' = Enter(job.pair + 1, cs)
             \/ job' = [at |-> "save", cursors |-> cs]
          /\ rings' = rings /\ cursorFile' = cursorFile /\ crashes' = crashes
    BY FinishEffect
  <1>2. job # Idle /\ job.cursors \in Cursors
    BY <1>1 DEF PairJobs, Idle
  <1>3. cursorFile # EmptyFile => \A i \in PairIds : cs[i] >= cursorFile[i]
    BY <1>1, <1>2 DEF CallInv, Shape, CursorInv, Cursors
  <1>4. CASE job.pair + 1 \in PairIds /\ job' = Enter(job.pair + 1, cs)
    <2>1. /\ job' \in PairJobs /\ job'.pair = job.pair + 1 /\ job'.cursors = cs /\ job'.ops = 0
          /\ job'.todo # {} => newest_timestamp(rings[Src(job.pair + 1)]) >= cs[job.pair + 1]
      BY <1>4, EnterFacts DEF CallInv
    <2>2. Shape'
      BY <1>1, <2>1 DEF CallInv, Shape, RT
    <2>3. CursorInv'
      BY <1>1, <1>3, <2>1 DEF CursorInv
    <2> QED BY <2>2, <2>3 DEF CallInv
  <1>5. CASE job' = [at |-> "save", cursors |-> cs]
    <2>1. job' \in SaveJobs /\ job'.cursors = cs /\ job'.at = "save"
      BY <1>5 DEF SaveJobs
    <2>2. Shape'
      BY <1>1, <2>1 DEF CallInv, Shape, RT
    <2>3. CursorInv'
      BY <1>1, <1>3, <2>1 DEF CursorInv
    <2> QED BY <2>2, <2>3 DEF CallInv
  <1> QED BY <1>1, <1>4, <1>5

(* The call ends, with or without its cursors saved.                       *)
LEMMA EndKeeps ==
  ASSUME CallInv, SaveCursors \/ SaveFails \/ Fail
  PROVE  CallInv'
  <1>1. job' = Idle /\ rings' = rings /\ crashes' = crashes
    BY DEF SaveCursors, SaveFails, Fail
  <1>2. cursorFile' \in Cursors \cup {EmptyFile}
    <2>1. CASE SaveCursors
      BY <2>1, JobFacts DEF SaveCursors, CallInv, SaveJobs
    <2> QED BY <2>1 DEF SaveFails, Fail, CallInv, Shape
  <1>3. Shape'
    BY <1>1, <1>2 DEF CallInv, Shape, RT
  <1>4. CursorInv'
    BY <1>1 DEF CursorInv, Idle
  <1> QED BY <1>3, <1>4 DEF CallInv

(* A crash at any point.                                                   *)
LEMMA CrashKeeps ==
  ASSUME CallInv, Crash
  PROVE  CallInv'
  <1>1. /\ DOMAIN rings' = RingIds /\ \A q \in RingIds : rings'[q] \in RT(q)
        /\ job' = Idle /\ crashes' \in 0 .. MaxCrashes
        /\ cursorFile' \in {cursorFile, EmptyFile} \/ (job \in SaveJobs /\ cursorFile' = job.cursors)
    BY CrashEffect DEF CallInv
  <1>2. cursorFile' \in Cursors \cup {EmptyFile}
    BY <1>1 DEF CallInv, Shape, SaveJobs
  <1>3. Shape'
    BY <1>1, <1>2 DEF Shape, RT
  <1>4. CursorInv'
    BY <1>1 DEF CursorInv, Idle
  <1> QED BY <1>3, <1>4 DEF CallInv

(* Where a write was not finished: at a recording or at a window of the    *)
(* pair in progress.                                                       *)
LEMMA DieFacts ==
  ASSUME Shape, DieInRecord \/ DieInWindow
  PROVE  \E r \in RingIds, c \in Columns, v \in SUBSET Timestamps, t \in Nat :
           /\ DieInside(r, c, v, t)
           /\ \/ r \in Roots /\ v = {t} /\ t \in Timestamps
              \/ /\ job.at = "pair" /\ job.pair \in PairIds /\ r = Dst(job.pair)
                 /\ \E x \in job.todo : x.column = c /\ x.value = v /\ x.window = t
  <1>1. CASE DieInRecord
    <2>1. PICK r \in Roots, c \in Columns, t \in Timestamps : DieInside(r, c, {t}, t)
      BY <1>1 DEF DieInRecord
    <2>2. r \in RingIds /\ t \in Nat /\ {t} \in SUBSET Timestamps
      BY ConsolidationAssumption DEF Roots
    <2> QED BY <2>1, <2>2
  <1>2. CASE DieInWindow
    <2>1. job.at = "pair" /\ job \in PairJobs
      BY <1>2, JobFacts DEF DieInWindow
    <2>2. PICK x \in job.todo : DieInside(Dst(job.pair), x.column, x.value, x.window)
      BY <1>2 DEF DieInWindow
    <2>3. job.pair \in PairIds /\ x \in WindowWrites
      BY <2>1 DEF PairJobs
    <2>4. /\ Dst(job.pair) \in RingIds /\ x.column \in Columns
          /\ x.value \in SUBSET Timestamps /\ x.window \in Nat
      BY <2>3, PairFacts DEF WindowWrites
    <2> QED BY <2>1, <2>2, <2>3, <2>4
  <1> QED BY <1>1, <1>2

(* A crash inside a write.                                                 *)
LEMMA DieKeeps ==
  ASSUME CallInv, DieInRecord \/ DieInWindow
  PROVE  CallInv'
  <1>1. PICK r \in RingIds, c \in Columns, v \in SUBSET Timestamps, t \in Nat :
          DieInside(r, c, v, t)
    BY DieFacts DEF CallInv
  <1>2. /\ DOMAIN rings' = RingIds /\ \A q \in RingIds : rings'[q] \in RT(q)
        /\ job' = Idle /\ crashes' \in 0 .. MaxCrashes /\ cursorFile' = cursorFile
    BY <1>1, DieEffect DEF CallInv
  <1>3. Shape'
    BY <1>2 DEF Shape, CallInv, RT
  <1>4. CursorInv'
    BY <1>2 DEF CursorInv, Idle
  <1> QED BY <1>3, <1>4 DEF CallInv

(* All steps together.                                                     *)
LEMMA StepKeeps == CallInv /\ [TornNext]_vars => CallInv'
  <1> SUFFICES ASSUME CallInv, [TornNext]_vars PROVE CallInv'
    OBVIOUS
  <1>1. CASE UNCHANGED vars
    BY <1>1 DEF vars, CallInv, Shape, CursorInv, RT, newest_timestamp
  <1> QED BY <1>1, RecordKeeps, StartKeeps, WriteKeeps, FinishKeeps, EndKeeps, CrashKeeps, DieKeeps
          DEF TornNext, Next, RecordInOrder, ConsolidationStep

(* The rings, the cursor file and the state of a call keep their types,    *)
(* wherever a call fails and wherever the process dies.                    *)
THEOREM ConsolidationTypes == TornSpec => []TypeOK
  <1>1. CallInv => TypeOK
    BY JobFacts DEF CallInv, Shape, TypeOK, RT, Cursors
  <1> QED BY InitCallInv, StepKeeps, <1>1, PTL DEF TornSpec

(* What a step may do to a saved cursor.                                   *)
LEMMA CursorStep ==
  ASSUME CallInv, TornNext
  PROVE  (cursorFile # EmptyFile /\ cursorFile' # EmptyFile) =>
           \A i \in PairIds : cursorFile'[i] >= cursorFile[i]
  <1> SUFFICES ASSUME cursorFile # EmptyFile, cursorFile' # EmptyFile
               PROVE  \A i \in PairIds : cursorFile'[i] >= cursorFile[i]
    OBVIOUS
  <1>1. CASE cursorFile' = cursorFile
    BY <1>1 DEF CallInv, Shape, Cursors
  <1>2. CASE job \in SaveJobs /\ cursorFile' = job.cursors
    BY <1>2 DEF CallInv, CursorInv, SaveJobs, Idle
  <1>3. cursorFile' = cursorFile \/ (job \in SaveJobs /\ cursorFile' = job.cursors)
    <2>1. CASE Crash
      BY <2>1, CrashEffect DEF CallInv
    <2>2. CASE SaveCursors
      BY <2>2, JobFacts DEF CallInv, SaveCursors
    <2>3. CASE SaveFails
      BY <2>3 DEF SaveFails
    <2>4. CASE DieInRecord \/ DieInWindow
      <3>1. PICK r \in RingIds, c \in Columns, v \in SUBSET Timestamps, t \in Nat :
              DieInside(r, c, v, t)
        BY <2>4, DieFacts DEF CallInv
      <3> QED BY <3>1 DEF DieInside
    <2> QED BY <2>1, <2>2, <2>3, <2>4
            DEF TornNext, Next, RecordInOrder, Record, StartConsolidation, ConsolidationStep,
                WriteWindow, FinishPair, Fail
  <1> QED BY <1>1, <1>2, <1>3

(* A saved cursor never moves back, although the newest timestamp of a     *)
(* consolidated tier, from which the next pair's cursor is taken, does.    *)
THEOREM CursorsNeverBack == TornSpec => CursorsAdvance
  <1>1. CallInv /\ [TornNext]_vars =>
          [(cursorFile # EmptyFile /\ cursorFile' # EmptyFile) =>
             \A i \in PairIds : cursorFile'[i] >= cursorFile[i]]_cursorFile
    BY CursorStep DEF vars
  <1> QED BY InitCallInv, StepKeeps, <1>1, PTL DEF TornSpec, CursorsAdvance
-----------------------------------------------------------------------------
(* No window is mixed with another.                                        *)

(* Where it holds: the stores of one series (a write of one column gives   *)
(* the old values of the others its own time, so with more the writers     *)
(* would have to bring whole rows), and of tiers above the second whose    *)
(* widths are multiples of the width below.                                *)
OneColumn == \A c, d \in Columns : c = d

TiersNest == \A i \in PairIds : Src(i) \notin Roots => IntervalNs[Dst(i)] % IntervalNs[Src(i)] = 0

(* The ring of the first tier behind ring r.                               *)
RootOf(r) == <<r[1], 0>>

(* A point u of a cell counts for time p: it was recorded at p, or a       *)
(* process that died left it under p (lost).                               *)
StandsAt(u, p, raw, lost) == (u = p /\ u \in raw) \/ <<u, p>> \in lost

(* A cell of ring r with timestamp t and value v, raw being the points     *)
(* recorded for its column and lost what dying processes left in it: the   *)
(* points of a first-tier cell count for its timestamp; a cell of a higher *)
(* tier has the start of a window as timestamp, and points of that window. *)
CellFiled(r, raw, lost, t, v) ==
  /\ \A u \in v : \E p \in t .. t + IntervalNs[r] - 1 : StandsAt(u, p, raw, lost)
  /\ r \in Roots => \A u \in v : StandsAt(u, t, raw, lost)
  /\ r \notin Roots => t % IntervalNs[r] = 0

RingsFiled ==
  \A r \in RingIds : \A s \in 0 .. SlotCount[r] - 1, c \in Columns :
    CellFiled(r, recorded[RootOf(r)][c], strays[RootOf(r)][c],
              rings[r].timestamps[s], rings[r].values[s][c])

(* The same of the windows that are still to be written.                   *)
TodoFiled ==
  job.at = "pair" =>
    \A x \in job.todo :
      CellFiled(Dst(job.pair), recorded[RootOf(Dst(job.pair))][x.column],
                strays[RootOf(Dst(job.pair))][x.column], x.window, x.value)

Histories ==
  /\ recorded \in [Roots -> [Columns -> SUBSET Timestamps]]
  /\ strays \in [Roots -> [Columns -> SUBSET (Timestamps \X Nat)]]

FiledInv == CallInv /\ Histories /\ RingsFiled /\ TodoFiled

(* A cell stays filed when the histories grow.                             *)
LEMMA CellGrows ==
  ASSUME NEW r, NEW t, NEW v, NEW raw, NEW lost, NEW raw2, NEW lost2,
         raw \subseteq raw2, lost \subseteq lost2, CellFiled(r, raw, lost, t, v)
  PROVE  CellFiled(r, raw2, lost2, t, v)
  <1>1. \A u, q : StandsAt(u, q, raw, lost) => StandsAt(u, q, raw2, lost2)
    BY DEF StandsAt
  <1> QED BY <1>1 DEF CellFiled

(* The first tier of a ring's schema is a ring callers record into.        *)
LEMMA RootFacts ==
  ASSUME NEW r \in RingIds
  PROVE  /\ RootOf(r) \in Roots
         /\ r \in Roots => RootOf(r) = r
  <1>1. r \in Nat \X Nat /\ <<r[1], 0>> \in RingIds
    BY ConsolidationAssumption
  <1> QED BY <1>1 DEF Roots, RootOf

(* A point of a source cell counts for a time of the window the cell is    *)
(* consolidated into.                                                      *)
LEMMA CellInWindow ==
  ASSUME TiersNest, NEW i \in PairIds, NEW t \in Nat, NEW raw, NEW lost, NEW v,
         CellFiled(Src(i), raw, lost, t, v), NEW u \in v
  PROVE  \E p \in WindowStart(i, t) .. WindowStart(i, t) + IntervalNs[Dst(i)] - 1 :
           StandsAt(u, p, raw, lost)
  <1> DEFINE a == IntervalNs[Src(i)]
             b == IntervalNs[Dst(i)]
             w == WindowStart(i, t)
  <1>1. a \in Nat \ {0} /\ b \in Nat \ {0}
    BY PairFacts
  <1>2. w \in Nat /\ w <= t /\ t < w + b
    BY WindowFacts
  <1>3. CASE Src(i) \in Roots
    <2>1. StandsAt(u, t, raw, lost)
      BY <1>3 DEF CellFiled
    <2> HIDE DEF w, b, a
    <2>2. t \in w .. w + b - 1
      BY <1>1, <1>2
    <2> QED BY <2>1, <2>2 DEF w, b
  <1>4. CASE Src(i) \notin Roots
    <2>0. PICK p \in t .. t + a - 1 : StandsAt(u, p, raw, lost)
      BY DEF CellFiled
    <2>1. t % a = 0 /\ b % a = 0
      BY <1>4 DEF CellFiled, TiersNest
    <2> DEFINE j == t \div a
               k == b \div a
               q == t \div b
    <2>2. j \in Nat /\ k \in Nat /\ q \in Nat
      BY <1>1, DivNat
    <2>3. t = a * j + (t % a)
      BY <1>1, DivMod
    <2>4. b = a * k + (b % a)
      BY <1>1, DivMod
    <2>5. w = q * b
      BY DEF WindowStart
    <2> HIDE DEF j, k, q, w, a, b
    <2>6. t = a * j /\ b = a * k /\ a * j \in Nat /\ a * k \in Nat
      BY <1>1, <2>1, <2>2, <2>3, <2>4
    <2>7. q * (a * k) + a * k = a * (q * k + k)
      BY <1>1, <2>2
    <2>8. q * k + k \in Nat
      BY <2>2
    <2>9. a * j < a * (q * k + k)
      BY <1>2, <2>5, <2>6, <2>7
    <2>10. a * j + a <= a * (q * k + k)
      BY <1>1, <2>2, <2>8, <2>9, MultipleGap
    <2>11. t + a <= w + b
      BY <2>5, <2>6, <2>7, <2>10
    <2>12. p \in w .. w + b - 1
      BY <1>1, <1>2, <2>0, <2>11
    <2> QED BY <2>0, <2>12 DEF w, b
  <1> QED BY <1>3, <1>4

(* What a pair has to write is filed under the right window when its       *)
(* source ring is filed right.                                             *)
LEMMA WindowsAreFiled ==
  ASSUME TiersNest, FiledInv, NEW i \in PairIds, NEW last \in Nat, NEW x \in Windows(i, last)
  PROVE  CellFiled(Dst(i), recorded[RootOf(Dst(i))][x.column],
                   strays[RootOf(Dst(i))][x.column], x.window, x.value)
  <1>1. Src(i) \in RingIds /\ rings[Src(i)] \in RT(Src(i)) /\ Dst(i) \notin Roots
        /\ IntervalNs[Dst(i)] \in Nat \ {0}
    BY PairFacts DEF FiledInv, CallInv, Shape
  <1>2. /\ x \in WindowWrites
        /\ \E t \in Nat : x.window = WindowStart(i, t)
        /\ \A u \in x.value : \E s \in 0 .. SlotCount[Src(i)] - 1 :
             /\ u \in rings[Src(i)].values[s][x.column]
             /\ WindowStart(i, rings[Src(i)].timestamps[s]) = x.window
    BY <1>1, WindowsFacts
  <1>3. x.column \in Columns
    BY <1>2 DEF WindowWrites
  <1> DEFINE raw == recorded[RootOf(Src(i))][x.column]
             lost == strays[RootOf(Src(i))][x.column]
  <1>4. ASSUME NEW u \in x.value
        PROVE  \E p \in x.window .. x.window + IntervalNs[Dst(i)] - 1 : StandsAt(u, p, raw, lost)
    <2>1. PICK s \in 0 .. SlotCount[Src(i)] - 1 :
            /\ u \in rings[Src(i)].values[s][x.column]
            /\ WindowStart(i, rings[Src(i)].timestamps[s]) = x.window
      BY <1>2
    <2>2. CellFiled(Src(i), raw, lost,
                    rings[Src(i)].timestamps[s], rings[Src(i)].values[s][x.column])
      BY <1>1, <1>3 DEF FiledInv, RingsFiled
    <2>3. rings[Src(i)].timestamps[s] \in Nat
      BY <1>1 DEF RT, RingType
    <2> HIDE DEF raw, lost
    <2>4. \E p \in WindowStart(i, rings[Src(i)].timestamps[s]) ..
                    WindowStart(i, rings[Src(i)].timestamps[s]) + IntervalNs[Dst(i)] - 1 :
            StandsAt(u, p, raw, lost)
      BY <2>1, <2>2, <2>3, CellInWindow
    <2> QED BY <2>1, <2>4
  <1>5. x.window % IntervalNs[Dst(i)] = 0
    <2>1. PICK t \in Nat : x.window = WindowStart(i, t)
      BY <1>2
    <2> DEFINE b == IntervalNs[Dst(i)]
               q == t \div b
    <2>2. q \in Nat /\ b \in Nat \ {0}
      BY <1>1, DivNat
    <2>3. x.window = q * b
      BY <2>1 DEF WindowStart
    <2> HIDE DEF b, q
    <2>4. x.window = b * q
      BY <2>2, <2>3
    <2>5. (b * q) % b = 0
      BY <2>2, MultipleMod
    <2> QED BY <2>4, <2>5 DEF b
  <1>6. RootOf(Src(i)) = RootOf(Dst(i))
    BY PairFacts DEF RootOf
  <1> QED BY <1>1, <1>4, <1>5, <1>6 DEF CellFiled

(* After a write, finished or not, that leaves a cell filed right, the     *)
(* ring is filed right.                                                    *)
LEMMA TornFiled ==
  ASSUME OneColumn, NEW r \in RingIds, NEW old \in RT(r), NEW new, NEW c \in Columns,
         NEW raw, NEW lost, NEW v, NEW t, NEW s \in Slots(old), Torn(new, old, s, c, v, t),
         CellFiled(r, raw[c], lost[c], t, v),
         \A x \in 0 .. SlotCount[r] - 1, d \in Columns :
           CellFiled(r, raw[d], lost[d], old.timestamps[x], old.values[x][d])
  PROVE  \A x \in 0 .. SlotCount[r] - 1, d \in Columns :
           CellFiled(r, raw[d], lost[d], new.timestamps[x], new.values[x][d])
  <1> TAKE x \in 0 .. SlotCount[r] - 1, d \in Columns
  <1>1. d = c
    BY DEF OneColumn
  <1>2. Slots(old) = 0 .. SlotCount[r] - 1
    BY DEF RT, RingType, Slots
  <1>3. CASE x = s
    <2>1. new.timestamps[x] = t /\ new.values[x][d] = v
      BY <1>1, <1>3 DEF Torn
    <2> QED BY <1>1, <2>1
  <1>4. CASE x # s
    <2>1. new.timestamps[x] = old.timestamps[x] /\ new.values[x] = old.values[x]
      BY <1>2, <1>4 DEF Torn
    <2> QED BY <2>1
  <1> QED BY <1>3, <1>4

LEMMA WroteTorn ==
  ASSUME NEW new, NEW old, NEW s, NEW c \in Columns, NEW v, NEW t, Wrote(new, old, s, c, v, t)
  PROVE  Torn(new, old, s, c, v, t)
  BY DEF Wrote, Torn

(* The hypotheses go along with the invariant.                             *)
FiledAll == OneColumn /\ TiersNest /\ FiledInv

(* A step that puts cell v at time t into ring r, with histories that grow *)
(* so that the cell is filed right.                                        *)
LEMMA RingsStayFiled ==
  ASSUME FiledAll, NEW r \in RingIds, NEW c \in Columns, NEW v, NEW t, Histories',
         \A q \in Roots, d \in Columns : /\ recorded[q][d] \subseteq recorded'[q][d]
                                        /\ strays[q][d] \subseteq strays'[q][d],
         \A q \in RingIds : q # r => /\ rings'[q].timestamps = rings[q].timestamps
                                     /\ rings'[q].values = rings[q].values,
         SlotOf(r, t) \in Slots(rings[r]),
         Torn(rings'[r], rings[r], SlotOf(r, t), c, v, t),
         CellFiled(r, recorded'[RootOf(r)][c], strays'[RootOf(r)][c], t, v)
  PROVE  RingsFiled'
  <1>1. Shape /\ RingsFiled /\ OneColumn
    BY DEF FiledAll, FiledInv, CallInv
  <1>2. ASSUME NEW q \in RingIds, NEW s \in 0 .. SlotCount[q] - 1, NEW d \in Columns
        PROVE  CellFiled(q, recorded'[RootOf(q)][d], strays'[RootOf(q)][d],
                         rings[q].timestamps[s], rings[q].values[s][d])
    <2>1. CellFiled(q, recorded[RootOf(q)][d], strays[RootOf(q)][d],
                    rings[q].timestamps[s], rings[q].values[s][d])
      BY <1>1 DEF RingsFiled
    <2>2. /\ recorded[RootOf(q)][d] \subseteq recorded'[RootOf(q)][d]
          /\ strays[RootOf(q)][d] \subseteq strays'[RootOf(q)][d]
      BY RootFacts
    <2> QED BY <2>1, <2>2, CellGrows
  <1> SUFFICES ASSUME NEW q \in RingIds
               PROVE  \A s \in 0 .. SlotCount[q] - 1, d \in Columns :
                        CellFiled(q, recorded'[RootOf(q)][d], strays'[RootOf(q)][d],
                                  rings'[q].timestamps[s], rings'[q].values[s][d])
    BY DEF RingsFiled
  <1>3. CASE q # r
    BY <1>2, <1>3
  <1>4. CASE q = r
    <2> DEFINE raw  == recorded'[RootOf(r)]
               lost == strays'[RootOf(r)]
               slot == SlotOf(r, t)
    <2>1. \A s \in 0 .. SlotCount[r] - 1, d \in Columns :
            CellFiled(r, raw[d], lost[d], rings[r].timestamps[s], rings[r].values[s][d])
      BY <1>2
    <2>2. CellFiled(r, raw[c], lost[c], t, v) /\ rings[r] \in RT(r)
          /\ slot \in Slots(rings[r]) /\ Torn(rings'[r], rings[r], slot, c, v, t)
      BY <1>1 DEF Shape
    <2> HIDE DEF raw, lost, slot
    <2>3. \A s \in 0 .. SlotCount[r] - 1, d \in Columns :
            CellFiled(r, raw[d], lost[d], rings'[r].timestamps[s], rings'[r].values[s][d])
      BY <1>1, <2>1, <2>2, TornFiled
    <2> QED BY <1>4, <2>3 DEF raw, lost
  <1> QED BY <1>3, <1>4

(* Entering a pair.                                                        *)
LEMMA EnterFiled ==
  ASSUME FiledAll, NEW i \in PairIds, NEW cs \in Cursors,
         job' = Enter(i, cs), recorded' = recorded, strays' = strays
  PROVE  TodoFiled'
  <1>1. job'.pair = i /\ job'.todo = Windows(i, cs[i])
    BY EnterFacts DEF FiledAll, FiledInv, CallInv
  <1>2. cs[i] \in Nat
    BY DEF Cursors
  <1>3. \A x \in Windows(i, cs[i]) :
          CellFiled(Dst(i), recorded[RootOf(Dst(i))][x.column],
                    strays[RootOf(Dst(i))][x.column], x.window, x.value)
    BY <1>2, WindowsAreFiled DEF FiledAll
  <1> QED BY <1>1, <1>3 DEF TodoFiled

(* Record keeps the rings filed right.                                     *)
LEMMA RecordFiled ==
  ASSUME FiledAll, NEW r \in Roots, NEW c \in Columns, NEW t \in Timestamps, Record(r, c, t)
  PROVE  FiledInv'
  <1>1. CallInv /\ Shape /\ Histories
    BY DEF FiledAll, FiledInv, CallInv
  <1>2. job' = Idle /\ recorded' = [recorded EXCEPT ![r][c] = @ \cup {t}] /\ strays' = strays
    BY DEF Record
  <1>3. /\ \A q \in RingIds : q # r => rings'[q] = rings[q]
        /\ SlotOf(r, t) \in Slots(rings[r])
        /\ Wrote(rings'[r], rings[r], SlotOf(r, t), c, {t}, t)
    BY <1>1, RecordEffect
  <1>4. r \in RingIds /\ t \in Nat /\ IntervalNs[r] \in Nat \ {0} /\ RootOf(r) = r
    BY <1>1, RootFacts, ConsolidationAssumption DEF Roots
  <1>5. /\ Histories'
        /\ t \in recorded'[r][c]
        /\ \A q \in Roots, d \in Columns : /\ recorded[q][d] \subseteq recorded'[q][d]
                                          /\ strays[q][d] \subseteq strays'[q][d]
    BY <1>1, <1>2 DEF Histories
  <1>6. CellFiled(r, recorded'[RootOf(r)][c], strays'[RootOf(r)][c], t, {t})
    BY <1>4, <1>5 DEF CellFiled, StandsAt
  <1>7. Torn(rings'[r], rings[r], SlotOf(r, t), c, {t}, t)
    BY <1>3, WroteTorn
  <1>8. RingsFiled'
    BY <1>3, <1>4, <1>5, <1>6, <1>7, RingsStayFiled
  <1>9. CallInv'
    BY <1>1, RecordKeeps
  <1> QED BY <1>2, <1>5, <1>8, <1>9 DEF FiledInv, TodoFiled, Idle

(* A window write keeps them so.                                           *)
LEMMA WriteFiled ==
  ASSUME FiledAll, WriteWindow
  PROVE  FiledInv'
  <1>1. CallInv /\ Shape /\ TodoFiled /\ Histories
    BY DEF FiledAll, FiledInv, CallInv
  <1> DEFINE q == Dst(job.pair)
  <1>2. PICK x \in job.todo :
          /\ job \in PairJobs /\ x \in WindowWrites
          /\ \A p \in RingIds : p # q => rings'[p] = rings[p]
          /\ SlotOf(q, x.window) \in Slots(rings[q])
          /\ Wrote(rings'[q], rings[q], SlotOf(q, x.window), x.column, x.value, x.window)
          /\ job' \in PairJobs /\ job'.pair = job.pair /\ job'.todo = job.todo \ {x}
          /\ recorded' = recorded
    BY <1>1, WriteEffect
  <1>3. job.pair \in PairIds /\ job.at = "pair" /\ x.column \in Columns
    BY <1>2 DEF PairJobs, WindowWrites
  <1>4. q \in RingIds /\ strays' = strays
    BY <1>1, <1>3, PairFacts DEF WriteWindow
  <1>5. CellFiled(q, recorded[RootOf(q)][x.column], strays[RootOf(q)][x.column], x.window, x.value)
    BY <1>1, <1>3 DEF TodoFiled
  <1>6. TodoFiled'
    BY <1>1, <1>2, <1>3, <1>4 DEF TodoFiled
  <1> HIDE DEF q
  <1>7. Torn(rings'[q], rings[q], SlotOf(q, x.window), x.column, x.value, x.window)
    BY <1>2, <1>3, WroteTorn
  <1>8. Histories'
    BY <1>1, <1>2, <1>4 DEF Histories
  <1>9. RingsFiled'
    BY <1>2, <1>3, <1>4, <1>5, <1>7, <1>8, RingsStayFiled
  <1>10. CallInv'
    BY <1>1, WriteKeeps
  <1> QED BY <1>6, <1>8, <1>9, <1>10 DEF FiledInv

(* So does a process that dies inside a write: what it leaves in the cell  *)
(* is added to the strays.                                                 *)
LEMMA DieFiled ==
  ASSUME FiledAll, DieInRecord \/ DieInWindow
  PROVE  FiledInv'
  <1>1. CallInv /\ Shape /\ TodoFiled /\ Histories
    BY DEF FiledAll, FiledInv, CallInv
  <1>2. PICK r \in RingIds, c \in Columns, v \in SUBSET Timestamps, t \in Nat :
          /\ DieInside(r, c, v, t)
          /\ \/ r \in Roots
             \/ /\ job.at = "pair" /\ job.pair \in PairIds /\ r = Dst(job.pair)
                /\ \E x \in job.todo : x.column = c /\ x.value = v /\ x.window = t
    BY <1>1, DieFacts
  <1>3. DiedWriting(r, c, v, t) /\ job' = Idle /\ recorded' = recorded
    BY <1>1, <1>2, DieEffect
  <1>4. PICK left \in SUBSET Timestamps :
          /\ \A q \in RingIds : q # r => /\ rings'[q].timestamps = rings[q].timestamps
                                        /\ rings'[q].values = rings[q].values
          /\ SlotOf(r, t) \in Slots(rings[r])
          /\ Torn(rings'[r], rings[r], SlotOf(r, t), c, left, t)
          /\ strays' = [strays EXCEPT ![RootOf(r)][c] = @ \cup (left \X {t})]
    BY <1>3 DEF DiedWriting, RootOf
  <1>5. RootOf(r) \in Roots /\ IntervalNs[r] \in Nat \ {0}
    BY RootFacts, ConsolidationAssumption
  <1>6. /\ Histories'
        /\ \A u \in left : <<u, t>> \in strays'[RootOf(r)][c]
        /\ \A q \in Roots, d \in Columns : /\ recorded[q][d] \subseteq recorded'[q][d]
                                          /\ strays[q][d] \subseteq strays'[q][d]
    <2>1. left \X {t} \in SUBSET (Timestamps \X Nat)
      OBVIOUS
    <2>2. \A u \in left : <<u, t>> \in left \X {t}
      OBVIOUS
    <2> DEFINE more == left \X {t}
               root == RootOf(r)
    <2>3. strays' = [strays EXCEPT ![root][c] = @ \cup more]
      BY <1>4
    <2>4. root \in Roots /\ more \in SUBSET (Timestamps \X Nat)
      BY <1>5, <2>1
    <2> HIDE DEF more, root
    <2>5. strays \in [Roots -> [Columns -> SUBSET (Timestamps \X Nat)]]
      BY <1>1 DEF Histories
    <2>6. /\ strays' \in [Roots -> [Columns -> SUBSET (Timestamps \X Nat)]]
          /\ more \subseteq strays'[root][c]
          /\ \A q \in Roots, d \in Columns : strays[q][d] \subseteq strays'[q][d]
      BY <2>3, <2>4, <2>5
    <2> QED BY <1>1, <1>3, <2>2, <2>6 DEF Histories, more, root
  <1>7. r \notin Roots => t % IntervalNs[r] = 0
    BY <1>1, <1>2 DEF TodoFiled, CellFiled
  <1>8. CellFiled(r, recorded'[RootOf(r)][c], strays'[RootOf(r)][c], t, left)
    <2>1. t \in t .. t + IntervalNs[r] - 1
      BY <1>5
    <2> QED BY <1>6, <1>7, <2>1 DEF CellFiled, StandsAt
  <1>9. RingsFiled'
    BY <1>4, <1>6, <1>8, RingsStayFiled
  <1>10. CallInv'
    BY <1>1, DieKeeps
  <1> QED BY <1>3, <1>6, <1>9, <1>10 DEF FiledInv, TodoFiled, Idle

(* And the steps that write to no ring.                                    *)
LEMMA QuietFiled ==
  ASSUME FiledAll, StartConsolidation \/ FinishPair \/ SaveCursors \/ SaveFails \/ Fail \/ Crash
  PROVE  FiledInv'
  <1>1. CallInv /\ Shape /\ RingsFiled /\ Histories
    BY DEF FiledAll, FiledInv, CallInv
  <1>2. recorded' = recorded /\ strays' = strays
    BY DEF StartConsolidation, FinishPair, SaveCursors, SaveFails, Fail, Crash
  <1>3. RingsFiled'
    <2>1. \A q \in RingIds : /\ rings'[q].timestamps = rings[q].timestamps
                             /\ rings'[q].values = rings[q].values
      <3>1. CASE Crash
        BY <1>1, <3>1, CrashEffect
      <3> QED BY <3>1 DEF StartConsolidation, FinishPair, SaveCursors, SaveFails, Fail
    <2> QED BY <1>1, <1>2, <2>1 DEF RingsFiled
  <1>4. TodoFiled'
    <2>1. CASE StartConsolidation
      <3>1. cursorFile \in Cursors /\ job' = Enter(1, cursorFile)
        BY <1>1, <2>1 DEF StartConsolidation, Shape
      <3> QED BY <1>2, <3>1, FirstPair, EnterFiled
    <2>2. CASE FinishPair
      <3>1. PICK cs \in Cursors :
              \/ /\ job.pair + 1 \in PairIds /\ job' = Enter(job.pair + 1, cs)
              \/ job' = [at |-> "save", cursors |-> cs]
        BY <1>1, <2>2, FinishEffect
      <3>2. CASE job' = [at |-> "save", cursors |-> cs]
        BY <3>2 DEF TodoFiled
      <3> QED BY <1>2, <3>1, <3>2, EnterFiled
    <2>3. CASE job' = Idle
      BY <2>3 DEF TodoFiled, Idle
    <2> QED BY <2>1, <2>2, <2>3 DEF SaveCursors, SaveFails, Fail, Crash
  <1>5. CallInv'
    BY <1>1, StartKeeps, FinishKeeps, EndKeeps, CrashKeeps
  <1> QED BY <1>1, <1>2, <1>3, <1>4, <1>5 DEF FiledInv, Histories

(* A fresh store is filed right.                                           *)
LEMMA FiledInit == OneColumn /\ TiersNest /\ Init => FiledAll
  <1> SUFFICES ASSUME Init PROVE FiledInv
    BY DEF FiledAll
  <1>1. \A r \in RingIds : \A s \in 0 .. SlotCount[r] - 1, c \in Columns :
          rings[r].timestamps[s] = 0 /\ rings[r].values[s][c] = {}
    BY ConsolidationAssumption DEF Init, create
  <1>2. \A r \in RingIds : 0 % IntervalNs[r] = 0
    <2> TAKE r \in RingIds
    <2>1. IntervalNs[r] \in Nat \ {0}
      BY ConsolidationAssumption
    <2>2. 0 \in 0 .. IntervalNs[r] - 1
      BY <2>1
    <2> QED BY <2>1, <2>2, ModSmall
  <1>3. RingsFiled
    BY <1>1, <1>2 DEF RingsFiled, CellFiled
  <1> QED BY <1>3, InitCallInv DEF Init, FiledInv, Histories, TodoFiled, Idle

(* All steps keep it so.                                                   *)
LEMMA FiledStep == FiledAll /\ [TornNext]_vars => FiledAll'
  <1> SUFFICES ASSUME FiledAll, [TornNext]_vars PROVE FiledInv'
    BY DEF FiledAll, OneColumn, TiersNest, Src, Dst, PairIds, Roots
  <1>1. CASE UNCHANGED vars
    <2>1. CallInv'
      BY <1>1, StepKeeps DEF FiledAll, FiledInv
    <2> QED BY <1>1, <2>1 DEF vars, FiledAll, FiledInv, Histories, RingsFiled, TodoFiled
  <1> QED BY <1>1, RecordFiled, WriteFiled, DieFiled, QuietFiled
          DEF TornNext, Next, RecordInOrder, ConsolidationStep

(* A consolidated value never mixes windows, in any tier: with one series  *)
(* and tiers that nest, what is stored under the start of a window was     *)
(* recorded in that window, whatever order the windows were written in and *)
(* wherever calls failed or the process died, between two writes or inside *)
(* one - but for what a process that died inside a write left in its cell. *)
THEOREM WindowsStaySound == OneColumn /\ TiersNest /\ TornSpec => []WindowsSound
  <1>1. FiledAll => WindowsSound
    <2> SUFFICES ASSUME FiledAll, NEW i \in PairIds, NEW x \in Cells(Dst(i)),
                        NEW u \in rings[Dst(i)].values[x[1]][x[2]]
                 PROVE  \/ u \in RecordedIn(Dst(i), x[2], rings[Dst(i)].timestamps[x[1]])
                        \/ u \in StraysIn(Dst(i), x[2], rings[Dst(i)].timestamps[x[1]])
      BY DEF WindowsSound
    <2>1. Dst(i) \in RingIds /\ rings[Dst(i)] \in RT(Dst(i))
      BY PairFacts DEF FiledAll, FiledInv, CallInv, Shape
    <2>2. x[1] \in 0 .. SlotCount[Dst(i)] - 1 /\ x[2] \in Columns
      BY <2>1 DEF Cells, Slots, RT, RingType
    <2> DEFINE w == rings[Dst(i)].timestamps[x[1]]
               raw == recorded[RootOf(Dst(i))][x[2]]
               lost == strays[RootOf(Dst(i))][x[2]]
    <2>3. CellFiled(Dst(i), raw, lost, w, rings[Dst(i)].values[x[1]][x[2]])
      BY <2>1, <2>2 DEF FiledAll, FiledInv, RingsFiled
    <2>4. PICK p \in w .. w + IntervalNs[Dst(i)] - 1 : StandsAt(u, p, raw, lost)
      BY <2>3 DEF CellFiled
    <2>5. CASE u = p /\ u \in raw
      BY <2>4, <2>5 DEF RecordedIn, RootOf
    <2>6. CASE <<u, p>> \in lost
      <3>1. <<u, p>>[1] = u /\ <<u, p>>[2] = p
        OBVIOUS
      <3>2. <<u, p>> \in {y \in lost : y[2] \in w .. w + IntervalNs[Dst(i)] - 1}
        BY <2>4, <2>6, <3>1
      <3> QED BY <3>1, <3>2 DEF StraysIn, RootOf
    <2> QED BY <2>4, <2>5, <2>6 DEF StandsAt
  <1> QED BY FiledInit, FiledStep, <1>1, PTL DEF TornSpec

-----------------------------------------------------------------------------
(* When the process dies only between two writes, nothing is left in any   *)
(* cell, and every cell holds points of its own window.                    *)
NoStrays == strays = [r \in Roots |-> [c \in Columns |-> {}]]

CellSound(r, raw, t, v) ==
  /\ \A u \in v : u \in raw /\ u \in t .. t + IntervalNs[r] - 1
  /\ r \in Roots => \A u \in v : u = t
  /\ r \notin Roots => t % IntervalNs[r] = 0

RingsSound ==
  \A r \in RingIds : \A s \in 0 .. SlotCount[r] - 1, c \in Columns :
    CellSound(r, recorded[RootOf(r)][c], rings[r].timestamps[s], rings[r].values[s][c])

TodoSound ==
  job.at = "pair" =>
    \A x \in job.todo :
      CellSound(Dst(job.pair), recorded[RootOf(Dst(job.pair))][x.column], x.window, x.value)

SoundInv ==
  /\ CallInv
  /\ recorded \in [Roots -> [Columns -> SUBSET Timestamps]]
  /\ NoStrays
  /\ RingsSound
  /\ TodoSound

LEMMA CellSame ==
  ASSUME NEW r, NEW raw, NEW t, NEW v
  PROVE  CellFiled(r, raw, {}, t, v) <=> CellSound(r, raw, t, v)
  <1>1. \A u, p : StandsAt(u, p, raw, {}) <=> u = p /\ u \in raw
    BY DEF StandsAt
  <1> QED BY <1>1 DEF CellFiled, CellSound

LEMMA SoundSame == SoundInv <=> FiledInv /\ NoStrays
  <1>1. NoStrays => strays \in [Roots -> [Columns -> SUBSET (Timestamps \X Nat)]]
    BY DEF NoStrays
  <1>2. ASSUME NoStrays, NEW r \in RingIds, NEW c \in Columns
        PROVE  strays[RootOf(r)][c] = {}
    BY <1>2, RootFacts DEF NoStrays
  <1>3. NoStrays => (RingsFiled <=> RingsSound)
    BY <1>2, CellSame DEF RingsFiled, RingsSound
  <1>4. ASSUME NoStrays, CallInv
        PROVE  TodoFiled <=> TodoSound
    <2> SUFFICES ASSUME job.at = "pair"
                 PROVE  TodoFiled <=> TodoSound
      BY DEF TodoFiled, TodoSound
    <2>1. job \in PairJobs
      BY <1>4, JobFacts DEF CallInv
    <2>2. Dst(job.pair) \in RingIds /\ \A x \in job.todo : x.column \in Columns
      BY <2>1, PairFacts DEF PairJobs, WindowWrites
    <2>3. \A x \in job.todo : strays[RootOf(Dst(job.pair))][x.column] = {}
      BY <1>2, <1>4, <2>2
    <2> QED BY <2>3, CellSame DEF TodoFiled, TodoSound
  <1> QED BY <1>1, <1>3, <1>4 DEF SoundInv, FiledInv, Histories

(* What a pair has to write is sound when its source ring is.              *)
LEMMA WindowsAreSound ==
  ASSUME TiersNest, SoundInv, NEW i \in PairIds, NEW last \in Nat, NEW x \in Windows(i, last)
  PROVE  CellSound(Dst(i), recorded[RootOf(Dst(i))][x.column], x.window, x.value)
  <1>1. FiledInv /\ NoStrays
    BY SoundSame
  <1>2. Src(i) \in RingIds /\ rings[Src(i)] \in RT(Src(i)) /\ Dst(i) \in RingIds
    BY PairFacts DEF SoundInv, CallInv, Shape
  <1>3. x.column \in Columns
    BY <1>2, WindowsFacts DEF WindowWrites
  <1>4. strays[RootOf(Dst(i))][x.column] = {}
    BY <1>1, <1>2, <1>3, RootFacts DEF NoStrays
  <1> QED BY <1>1, <1>4, WindowsAreFiled, CellSame

(* The hypotheses go along with the invariant.                             *)
NestedInv == OneColumn /\ TiersNest /\ SoundInv

(* A fresh store is sound.                                                 *)
LEMMA NestedInit == OneColumn /\ TiersNest /\ Init => NestedInv
  BY FiledInit, SoundSame DEF FiledAll, NestedInv, Init, NoStrays

(* All steps but a crash inside a write keep it so.                        *)
LEMMA NestedStep == NestedInv /\ [Next]_vars => NestedInv'
  <1> SUFFICES ASSUME NestedInv, [Next]_vars PROVE NestedInv'
    OBVIOUS
  <1>1. FiledAll /\ NoStrays
    BY SoundSame DEF NestedInv, FiledAll
  <1>2. strays' = strays
    BY DEF vars, Next, RecordInOrder, Record, StartConsolidation, ConsolidationStep,
           WriteWindow, FinishPair, SaveCursors, SaveFails, Fail, Crash
  <1>3. FiledAll'
    BY <1>1, FiledStep DEF TornNext
  <1>4. NoStrays'
    BY <1>1, <1>2 DEF NoStrays, Roots
  <1>5. SoundInv' <=> (FiledInv' /\ NoStrays')
    BY SoundSame, PTL
  <1> QED BY <1>3, <1>4, <1>5 DEF FiledAll, NestedInv

-----------------------------------------------------------------------------
(* No point is skipped.                                                    *)

(* Where it holds: the stores of one series whose timestamps are multiples *)
(* of the first tier's interval.  Otherwise the next call, which begins    *)
(* one interval after the cursor, leaves out a point just after it, and a  *)
(* point that another series records at the cursor.                        *)
RootsAligned == \A r \in Roots : \A t \in Timestamps : t % IntervalNs[r] = 0

(* No restart can hide a point of ring r.                                  *)
Known(r) == crashes = 0 \/ OneLap(r)

(* What is in a first-tier ring: points at the home of their time, with a  *)
(* value, the newest at the cursor, and, before the first restart, nothing *)
(* above the cursor of a ring that has not wrapped.                        *)
RootInv(r) ==
  /\ AtHome(rings[r], SlotCount[r], IntervalNs[r])
  /\ \A s \in Slots(rings[r]) :
       /\ rings[r].timestamps[s] \in Timestamps \cup {0}
       /\ rings[r].timestamps[s] # 0 => \A c \in Columns : rings[r].values[s][c] # NaN
  /\ \A c \in Columns : \A t \in recorded[r][c] : t <= newest_timestamp(rings[r])
  /\ newest_timestamp(rings[r]) # 0 =>
       \E c \in Columns : newest_timestamp(rings[r]) \in recorded[r][c]
  /\ crashes = 0 /\ ~rings[r].has_wrapped =>
       \A s \in Slots(rings[r]) : s > rings[r].write_cursor => rings[r].timestamps[s] = 0

(* Cursors that are not ahead of the source ring, and at or before which   *)
(* every retained point was written.                                       *)
CursorsKept(cs) ==
  \A i \in PairIds : Src(i) \in Roots =>
    /\ cs[i] <= newest_timestamp(rings[Src(i)])
    /\ cs[i] % IntervalNs[Src(i)] = 0

Covered(cs) ==
  \A i \in PairIds : Src(i) \in Roots /\ Known(Src(i)) =>
    \A c \in Columns : \A t \in Retained(Src(i), c) : t <= cs[i] => t \in consumed[i][c]

Good(cs) == CursorsKept(cs) /\ Covered(cs)

(* The points after the cursor of the pair in progress are written or      *)
(* among the windows to write.                                             *)
TodoCovers ==
  job.at = "pair" /\ Src(job.pair) \in Roots /\ Known(Src(job.pair)) =>
    \A c \in Columns : \A t \in Retained(Src(job.pair), c) :
      t > job.cursors[job.pair] =>
        \/ t \in consumed[job.pair][c]
        \/ \E x \in job.todo : x.column = c /\ t \in x.times

SkipInv ==
  /\ CallInv
  /\ recorded \in [Roots -> [Columns -> SUBSET Timestamps]]
  /\ consumed \in [PairIds -> [Columns -> SUBSET Nat]]
  /\ \A r \in Roots : RootInv(r)
  /\ cursorFile # EmptyFile => Good(cursorFile)
  /\ job # Idle => Good(job.cursors)
  /\ TodoCovers

(* The numbers of a first-tier ring.                                       *)
LEMMA RootShape ==
  ASSUME Shape, NEW r \in Roots
  PROVE  /\ r \in RingIds /\ SlotCount[r] \in Nat \ {0} /\ IntervalNs[r] \in Nat \ {0}
         /\ rings[r] \in RingType(SlotCount[r], IntervalNs[r], Columns, SUBSET Timestamps)
         /\ rings[r].write_cursor \in 0 .. SlotCount[r] - 1
         /\ rings[r].timestamps \in [0 .. SlotCount[r] - 1 -> Nat]
         /\ Slots(rings[r]) = 0 .. SlotCount[r] - 1
         /\ rings[r].interval_ns = IntervalNs[r] /\ rings[r].has_wrapped \in BOOLEAN
         /\ newest_timestamp(rings[r]) = rings[r].timestamps[rings[r].write_cursor]
         /\ newest_timestamp(rings[r]) \in Nat
  <1>1. r \in RingIds /\ SlotCount[r] \in Nat \ {0} /\ IntervalNs[r] \in Nat \ {0}
    BY ConsolidationAssumption DEF Roots
  <1>2. rings[r] \in RingType(SlotCount[r], IntervalNs[r], Columns, SUBSET Timestamps)
    BY <1>1 DEF Shape, RT
  <1>3. /\ rings[r].write_cursor \in 0 .. SlotCount[r] - 1
        /\ rings[r].timestamps \in [0 .. SlotCount[r] - 1 -> Nat]
        /\ rings[r].slot_count = SlotCount[r]
        /\ rings[r].interval_ns = IntervalNs[r] /\ rings[r].has_wrapped \in BOOLEAN
    BY <1>2 DEF RingType
  <1>4. newest_timestamp(rings[r]) = rings[r].timestamps[rings[r].write_cursor]
    BY DEF newest_timestamp
  <1> QED BY <1>1, <1>2, <1>3, <1>4 DEF Slots

(* An iteration over the ring reaches every retained point.                *)
LEMMA RetainedReached ==
  ASSUME Shape, recorded \in [Roots -> [Columns -> SUBSET Timestamps]],
         NEW r \in Roots, RootInv(r), Known(r), NEW c \in Columns, NEW t \in Retained(r, c)
  PROVE  /\ t \in Timestamps /\ t \in Nat \ {0} /\ t <= newest_timestamp(rings[r])
         /\ \E s \in 0 .. SlotCount[r] - 1 :
              /\ rings[r].timestamps[s] = t
              /\ Reached(rings[r], s, SlotCount[r], IntervalNs[r])
  <1> DEFINE q == rings[r]
             n == SlotCount[r]
             d == IntervalNs[r]
             w == q.write_cursor
             newest == newest_timestamp(q)
             lap(x) == x \div (d * n)
  <1>1. /\ n \in Nat \ {0} /\ d \in Nat \ {0} /\ w \in 0 .. n - 1
        /\ q.timestamps \in [0 .. n - 1 -> Nat] /\ Slots(q) = 0 .. n - 1
        /\ newest = q.timestamps[w] /\ newest \in Nat
        /\ q.has_wrapped \in BOOLEAN
    BY RootShape
  <1>2. t \in recorded[r][c] /\ t \in Timestamps /\ t \in Nat \ {0}
    <2>1. t \in recorded[r][c]
      BY DEF Retained
    <2>2. recorded[r][c] \subseteq Timestamps
      OBVIOUS
    <2>3. Timestamps \subseteq Nat \ {0}
      BY ConsolidationAssumption
    <2> QED BY <2>1, <2>2, <2>3
  <1>3. PICK s \in 0 .. n - 1 : q.timestamps[s] = t
    BY <1>1 DEF Retained
  <1>4. t <= newest
    BY <1>2 DEF RootInv
  <1>5. newest \div d < (t \div d) + n
    <2>1. newest \div d \in Nat /\ t \div d \in Nat
      BY <1>1, <1>2, DivNat
    <2>2. t \div d > (newest \div d) - n
      BY DEF Retained
    <2> QED BY <1>1, <2>1, <2>2
  <1>6. /\ (t \div d) % n = s /\ (newest \div d) % n = w
    <2>1. AtHome(q, n, d)
      BY DEF RootInv
    <2>2. q.timestamps[s] = t /\ t # 0
      BY <1>2, <1>3
    <2>3. q.timestamps[w] = newest /\ newest # 0
      BY <1>1, <1>2, <1>4
    <2> HIDE DEF q, n, d, w, newest
    <2>4. (t \div d) % n = s
      BY <2>1, <2>2 DEF AtHome
    <2>5. (newest \div d) % n = w
      BY <1>1, <2>1, <2>3 DEF AtHome
    <2> QED BY <2>4, <2>5
  <1>7. q.has_wrapped \/ s <= w
    <2>1. CASE crashes = 0
      BY <1>1, <1>2, <1>3, <2>1, SMTT(30) DEF RootInv
    <2>2. CASE OneLap(r)
      <3>1. PICK e \in Columns : newest \in recorded[r][e]
        BY <1>1, <1>2, <1>4 DEF RootInv
      <3>2. lap(t) = lap(newest)
        BY <1>2, <2>2, <3>1, ZenonT(60) DEF OneLap
      <3> DEFINE a == t \div d
                 b == newest \div d
      <3>3. a \in Nat /\ b \in Nat /\ a <= b
        BY <1>1, <1>2, <1>4, DivNat, DivMonotone
      <3>4. a \div n = b \div n
        BY <1>1, <1>2, <3>2, LapOfInterval
      <3>5. a % n = s /\ b % n = w
        BY <1>6
      <3> HIDE DEF a, b, n
      <3>6. a = n * (a \div n) + s /\ b = n * (a \div n) + w
        BY <1>1, <3>3, <3>4, <3>5, DivMod
      <3>7. n * (a \div n) \in Nat
        <4>1. a \div n \in Nat
          BY <1>1, <3>3, DivNat
        <4> QED BY <1>1, <4>1
      <3> DEFINE p == n * (a \div n)
      <3> HIDE DEF p
      <3>8. a = p + s /\ b = p + w /\ p \in Nat
        BY <3>6, <3>7 DEF p
      <3>9. s <= w
        BY <1>1, <3>3, <3>8
      <3> QED BY <3>9
    <2> QED BY <2>1, <2>2 DEF Known
  <1> QED BY <1>2, <1>3, <1>4, <1>5, <1>7 DEF Reached

(* A call that enters a pair reads every retained point after the cursor.  *)
LEMMA RetainedRead ==
  ASSUME RootsAligned, Shape, recorded \in [Roots -> [Columns -> SUBSET Timestamps]],
         NEW i \in PairIds, Src(i) \in Roots, RootInv(Src(i)), Known(Src(i)),
         NEW last \in Nat, last % IntervalNs[Src(i)] = 0,
         NEW c \in Columns, NEW t \in Retained(Src(i), c), t > last
  PROVE  \E s \in 0 .. SlotCount[Src(i)] - 1 :
           /\ rings[Src(i)].timestamps[s] = t /\ rings[Src(i)].values[s][c] # NaN
           /\ Point(rings[Src(i)], c, s) \in NewPoints(i, c, NewRange(i, last))
  <1> DEFINE r == Src(i)
             q == rings[r]
             n == SlotCount[r]
             d == IntervalNs[r]
             range == NewRange(i, last)
             points == NewPoints(i, c, range)
  <1>1. /\ n \in Nat \ {0} /\ d \in Nat \ {0}
        /\ q \in RingType(n, d, Columns, SUBSET Timestamps)
        /\ Slots(q) = 0 .. n - 1 /\ q.interval_ns = d
        /\ newest_timestamp(q) = q.timestamps[q.write_cursor]
        /\ newest_timestamp(q) \in Nat
    BY RootShape
  <1>2. /\ t \in Timestamps /\ t \in Nat \ {0} /\ t <= newest_timestamp(q)
        /\ \E s \in 0 .. n - 1 : q.timestamps[s] = t /\ Reached(q, s, n, d)
    BY RetainedReached
  <1>3. PICK s \in 0 .. n - 1 : q.timestamps[s] = t /\ Reached(q, s, n, d)
    BY <1>2
  <1> DEFINE p == Point(q, c, s)
  <1>4. AtHome(q, n, d) /\ q.values[s][c] # NaN
    BY <1>1, <1>2, <1>3 DEF RootInv
  <1>5. /\ range.start = IF last = 0 THEN oldest_timestamp(q) ELSE last + d
        /\ range.end = newest_timestamp(q) + 1
    BY <1>1, <1>2 DEF NewRange
  <1>6. range.start \in Nat /\ range.start <= t
    <2>1. CASE last = 0
      <3>1. oldest_timestamp(q) \in Nat /\ oldest_timestamp(q) <= q.timestamps[s]
        <4> HIDE DEF q, n, d
        <4> QED BY <1>1, <1>3, <1>4, OldestBefore
      <3> QED BY <1>3, <1>5, <2>1, <3>1
    <2>2. CASE last # 0
      <3> DEFINE a == last \div d
                 b == t \div d
      <3>1. t % d = 0
        BY <1>2 DEF RootsAligned
      <3>2. a \in Nat /\ b \in Nat /\ last = d * a + (last % d) /\ t = d * b + (t % d)
        BY <1>1, <1>2, DivNat, DivMod
      <3> HIDE DEF a, b, d
      <3>3. d * a \in Nat /\ d * b \in Nat
        BY <1>1, <3>2
      <3>4. last = d * a /\ t = d * b
        BY <3>1, <3>2, <3>3 DEF d
      <3>5. d * a + d <= d * b
        BY <1>1, <3>2, <3>4, MultipleGap
      <3> QED BY <1>1, <1>5, <2>2, <3>4, <3>5
    <2> QED BY <2>1, <2>2
  <1>7. t \in range.start .. range.end - 1 /\ ~(range.start >= range.end)
    BY <1>1, <1>2, <1>5, <1>6
  <1>8. p \in points
    <2>1. ~is_empty(q)
      BY <1>1, <1>2 DEF is_empty
    <2>2. q.has_wrapped \/ s <= q.write_cursor
      BY <1>3 DEF Reached
    <2>3. \E k \in DOMAIN read(q, c, range.start, range.end) :
            read(q, c, range.start, range.end)[k] = p
      <3> DEFINE lo == range.start
                 hi == range.end
      <3>1. q.timestamps[s] \in lo .. hi - 1
        BY <1>3, <1>7
      <3> HIDE DEF q, n, d, lo, hi
      <3>2. Yields(q, c, lo, hi, s)
        BY <1>1, <1>4, <2>1, <2>2, <3>1, ReadComplete
      <3> QED BY <3>2 DEF lo, hi, Yields
    <2> HIDE DEF p, range
    <2> QED BY <1>7, <2>3 DEF NewPoints
  <1> QED BY <1>3, <1>4, <1>8

(* So it has the point among its windows.                                  *)
LEMMA WindowsCover ==
  ASSUME RootsAligned, Shape, recorded \in [Roots -> [Columns -> SUBSET Timestamps]],
         NEW i \in PairIds, Src(i) \in Roots, RootInv(Src(i)), Known(Src(i)),
         NEW last \in Nat, last % IntervalNs[Src(i)] = 0,
         NEW c \in Columns, NEW t \in Retained(Src(i), c), t > last
  PROVE  \E x \in Windows(i, last) : x.column = c /\ t \in x.times
  <1> DEFINE points == NewPoints(i, c, NewRange(i, last))
             w == WindowStart(i, t)
             of(v) == {z \in points : WindowStart(i, z[1]) = v}
             x == [window |-> w, column |-> c,
                   value  |-> UNION {z[2] : z \in of(w)},
                   times  |-> {z[1] : z \in of(w)}]
  <1>1. PICK s \in 0 .. SlotCount[Src(i)] - 1 :
          rings[Src(i)].timestamps[s] = t /\ Point(rings[Src(i)], c, s) \in points
    BY RetainedRead
  <1> DEFINE p == Point(rings[Src(i)], c, s)
  <1>8. p \in points /\ p[1] = t
    BY <1>1 DEF Point
  <1> HIDE DEF points, p
  <1>9. x \in ColumnWindows(i, c, points) /\ x.column = c /\ t \in x.times
    <2>1. p \in of(w) /\ w \in {WindowStart(i, z[1]) : z \in points}
      BY <1>8
    <2>2. t \in {z[1] : z \in of(w)}
      BY <1>8, <2>1
    <2> HIDE DEF w
    <2> QED BY <2>1, <2>2 DEF ColumnWindows
  <1>10. x \in Windows(i, last)
    <2> HIDE DEF x
    <2> QED BY <1>9 DEF Windows, points
  <1> QED BY <1>9, <1>10

(* A step that records nothing.                                            *)
RootsQuiet ==
  /\ \A r \in Roots :
       /\ rings'[r].slot_count = rings[r].slot_count
       /\ rings'[r].write_cursor = rings[r].write_cursor
       /\ rings'[r].timestamps = rings[r].timestamps
       /\ rings'[r].values = rings[r].values
       /\ crashes' = 0 => rings'[r].has_wrapped = rings[r].has_wrapped
  /\ crashes' = 0 => crashes = 0
  /\ recorded' = recorded
  /\ \A i \in PairIds, c \in Columns : consumed[i][c] \subseteq consumed'[i][c]

LEMMA QuietRoots ==
  ASSUME RootsQuiet, NEW r \in Roots
  PROVE  /\ newest_timestamp(rings'[r]) = newest_timestamp(rings[r])
         /\ Slots(rings'[r]) = Slots(rings[r])
         /\ \A c \in Columns : Retained(r, c)' = Retained(r, c)
         /\ Known(r)' => Known(r)
  <1>1. /\ newest_timestamp(rings'[r]) = newest_timestamp(rings[r])
        /\ Slots(rings'[r]) = Slots(rings[r])
    BY DEF RootsQuiet, newest_timestamp, Slots
  <1>2. rings'[r].timestamps = rings[r].timestamps /\ recorded' = recorded
    BY DEF RootsQuiet
  <1>3. \A c \in Columns : Retained(r, c)' = Retained(r, c)
    BY <1>1, <1>2 DEF Retained
  <1>4. Known(r)' => Known(r)
    BY DEF RootsQuiet, Known, OneLap
  <1> QED BY <1>1, <1>3, <1>4

LEMMA QuietInv ==
  ASSUME RootsQuiet, NEW r \in Roots, RootInv(r)
  PROVE  RootInv(r)'
  <1>1. /\ newest_timestamp(rings'[r]) = newest_timestamp(rings[r])
        /\ Slots(rings'[r]) = Slots(rings[r])
    BY QuietRoots
  <1>2. /\ rings'[r].timestamps = rings[r].timestamps /\ rings'[r].values = rings[r].values
        /\ rings'[r].write_cursor = rings[r].write_cursor
        /\ recorded' = recorded
    BY DEF RootsQuiet
  <1>3. crashes' = 0 => crashes = 0 /\ rings'[r].has_wrapped = rings[r].has_wrapped
    BY DEF RootsQuiet
  <1>4. AtHome(rings'[r], SlotCount[r], IntervalNs[r])
    BY <1>1, <1>2 DEF AtHome, RootInv
  <1> QED BY <1>1, <1>2, <1>3, <1>4 DEF RootInv

LEMMA QuietGood ==
  ASSUME RootsQuiet, NEW cs \in Cursors, Good(cs)
  PROVE  Good(cs)'
  <1>1. CursorsKept(cs)'
    BY QuietRoots DEF Good, CursorsKept
  <1>2. Covered(cs)'
    <2> SUFFICES ASSUME NEW i \in PairIds, Src(i) \in Roots, Known(Src(i))',
                        NEW c \in Columns, NEW t \in Retained(Src(i), c)', t <= cs[i]
                 PROVE  t \in consumed'[i][c]
      BY DEF Covered
    <2>1. Known(Src(i)) /\ t \in Retained(Src(i), c)
      BY QuietRoots
    <2>2. t \in consumed[i][c]
      BY <2>1 DEF Good, Covered
    <2> QED BY <2>2 DEF RootsQuiet
  <1> QED BY <1>1, <1>2 DEF Good

(* A call that enters a pair.                                              *)
LEMMA EnterCovers ==
  ASSUME RootsAligned, SkipInv, RootsQuiet, rings' = rings,
         NEW i \in PairIds, NEW cs \in Cursors, Good(cs), job' = Enter(i, cs)
  PROVE  TodoCovers'
  <1>1. Shape /\ recorded \in [Roots -> [Columns -> SUBSET Timestamps]]
    BY DEF SkipInv, CallInv
  <1>2. job'.pair = i /\ job'.cursors = cs /\ job'.todo = Windows(i, cs[i])
    BY <1>1, EnterFacts
  <1> SUFFICES ASSUME Src(i) \in Roots, Known(Src(i))', NEW c \in Columns,
                      NEW t \in Retained(Src(i), c)', t > cs[i]
               PROVE  \E x \in Windows(i, cs[i]) : x.column = c /\ t \in x.times
    BY <1>2 DEF TodoCovers
  <1>3. Known(Src(i)) /\ t \in Retained(Src(i), c)
    BY QuietRoots
  <1>4. RootInv(Src(i)) /\ cs[i] \in Nat /\ cs[i] % IntervalNs[Src(i)] = 0
    BY DEF SkipInv, Good, CursorsKept, Cursors
  <1> QED BY <1>1, <1>3, <1>4, WindowsCover

AlignedInv == OneColumn /\ RootsAligned /\ SkipInv

(* The beginning of a call, and the end of a pair.                         *)
LEMMA StartCovers ==
  ASSUME AlignedInv, StartConsolidation
  PROVE  SkipInv'
  <1>1. SkipInv /\ RootsAligned /\ CallInv /\ Shape
    BY DEF AlignedInv, SkipInv, CallInv
  <1>2. /\ cursorFile # EmptyFile /\ job' = Enter(1, cursorFile) /\ cursorFile' = cursorFile
        /\ rings' = rings /\ crashes' = crashes /\ recorded' = recorded /\ consumed' = consumed
    BY DEF StartConsolidation
  <1>3. PICK cs \in Cursors : cs = cursorFile
    BY <1>1, <1>2 DEF Shape
  <1>4. Good(cs)
    BY <1>1, <1>2, <1>3 DEF SkipInv
  <1>5. RootsQuiet
    BY <1>2 DEF RootsQuiet
  <1>6. job' = Enter(1, cs) /\ job'.cursors = cs /\ cursorFile' = cs
    BY <1>1, <1>2, <1>3, FirstPair, EnterFacts
  <1>7. TodoCovers'
    BY <1>1, <1>2, <1>4, <1>5, <1>6, FirstPair, EnterCovers
  <1>8. Good(cs)'
    BY <1>4, <1>5, QuietGood
  <1>9. Good(cursorFile)' /\ Good(job.cursors)'
    BY <1>6, <1>8 DEF Good, CursorsKept, Covered
  <1>10. \A r \in Roots : RootInv(r)'
    BY <1>1, <1>5, QuietInv DEF SkipInv
  <1>11. CallInv'
    BY <1>1, StartKeeps
  <1> QED BY <1>1, <1>2, <1>7, <1>9, <1>10, <1>11 DEF SkipInv

LEMMA FinishCovers ==
  ASSUME AlignedInv, FinishPair
  PROVE  SkipInv'
  <1>1. SkipInv /\ RootsAligned /\ CallInv /\ Shape
    BY DEF AlignedInv, SkipInv, CallInv
  <1> DEFINE i == job.pair
             newest == newest_timestamp(rings[Src(i)])
  <1>2. PICK cs \in Cursors :
          /\ job \in PairJobs /\ job.todo = {}
          /\ cs = IF job.ops > 0 THEN [job.cursors EXCEPT ![i] = newest] ELSE job.cursors
          /\ \/ /\ i + 1 \in PairIds /\ job' = Enter(i + 1, cs)
             \/ job' = [at |-> "save", cursors |-> cs]
          /\ rings' = rings /\ cursorFile' = cursorFile /\ crashes' = crashes
          /\ recorded' = recorded /\ consumed' = consumed
    BY <1>1, FinishEffect
  <1>3. /\ i \in PairIds /\ job.cursors \in Cursors /\ job.at = "pair" /\ Good(job.cursors)
    <2>1. i \in PairIds /\ job.cursors \in Cursors /\ job.at = "pair"
      BY <1>2 DEF PairJobs
    <2>2. job # Idle
      BY <2>1 DEF Idle
    <2> QED BY <1>1, <2>1, <2>2 DEF SkipInv
  <1>4. cs[i] \in {newest, job.cursors[i]}
        /\ \A j \in PairIds : j # i => cs[j] = job.cursors[j]
    BY <1>2, <1>3 DEF Cursors
  <1>5. CursorsKept(cs)
    <2> SUFFICES ASSUME NEW j \in PairIds, Src(j) \in Roots
                 PROVE  /\ cs[j] <= newest_timestamp(rings[Src(j)])
                        /\ cs[j] % IntervalNs[Src(j)] = 0
      BY DEF CursorsKept
    <2>1. CASE cs[j] = job.cursors[j]
      BY <1>3, <2>1 DEF Good, CursorsKept
    <2>2. CASE j = i /\ cs[j] = newest
      <3>1. RootInv(Src(j)) /\ IntervalNs[Src(j)] \in Nat \ {0} /\ newest \in Nat
            /\ newest = rings[Src(j)].timestamps[rings[Src(j)].write_cursor]
            /\ rings[Src(j)].write_cursor \in Slots(rings[Src(j)])
        BY <1>1, <2>2, RootShape DEF SkipInv
      <3>2. newest \in Timestamps \cup {0}
        BY <3>1 DEF RootInv
      <3>3. newest \in Timestamps => newest % IntervalNs[Src(j)] = 0
        BY <1>1 DEF RootsAligned
      <3>4. 0 % IntervalNs[Src(j)] = 0
        <4>1. 0 \in 0 .. IntervalNs[Src(j)] - 1
          BY <3>1
        <4> QED BY <3>1, <4>1, ModSmall
      <3> QED BY <2>2, <3>1, <3>2, <3>3, <3>4
    <2> QED BY <1>4, <2>1, <2>2
  <1>6. Covered(cs)
    <2> SUFFICES ASSUME NEW j \in PairIds, Src(j) \in Roots, Known(Src(j)),
                        NEW c \in Columns, NEW t \in Retained(Src(j), c), t <= cs[j]
                 PROVE  t \in consumed[j][c]
      BY DEF Covered
    <2>1. t <= job.cursors[j] => t \in consumed[j][c]
      BY <1>3 DEF Good, Covered
    <2>2. CASE j # i
      BY <1>4, <2>1, <2>2
    <2>3. CASE j = i /\ ~(t <= job.cursors[j])
      <3>1. t \in Nat /\ job.cursors[j] \in Nat
        <4>1. recorded[Src(j)][c] \subseteq Timestamps /\ t \in recorded[Src(j)][c]
          BY <1>1 DEF SkipInv, Retained
        <4> QED BY <1>3, <4>1, ConsolidationAssumption DEF Cursors
      <3>2. t > job.cursors[i]
        BY <2>3, <3>1
      <3>3. TodoCovers
        BY <1>1 DEF SkipInv
      <3> QED BY <1>2, <1>3, <2>3, <3>2, <3>3 DEF TodoCovers
    <2> QED BY <2>1, <2>2, <2>3
  <1>7. Good(cs) /\ RootsQuiet
    BY <1>2, <1>5, <1>6 DEF Good, RootsQuiet
  <1>8. Good(cs)' /\ \A r \in Roots : RootInv(r)'
    BY <1>1, <1>7, QuietGood, QuietInv DEF SkipInv
  <1>9. job'.cursors = cs /\ TodoCovers'
    <2>1. CASE job' = [at |-> "save", cursors |-> cs]
      BY <2>1 DEF TodoCovers
    <2>2. CASE i + 1 \in PairIds /\ job' = Enter(i + 1, cs)
      BY <1>1, <1>2, <1>7, <2>2, EnterFacts, EnterCovers
    <2> QED BY <1>2, <2>1, <2>2
  <1>10. cursorFile' # EmptyFile => Good(cursorFile)'
    <2> SUFFICES ASSUME cursorFile # EmptyFile PROVE Good(cursorFile)'
      BY <1>2
    <2>1. PICK file \in Cursors : file = cursorFile
      BY <1>1 DEF Shape
    <2>2. Good(file)'
      BY <1>1, <1>7, <2>1, QuietGood DEF SkipInv
    <2> QED BY <1>2, <2>1, <2>2 DEF Good, CursorsKept, Covered
  <1>11. Good(job.cursors)'
    BY <1>8, <1>9 DEF Good, CursorsKept, Covered
  <1>12. CallInv'
    BY <1>1, FinishKeeps
  <1> QED BY <1>1, <1>2, <1>8, <1>9, <1>10, <1>11, <1>12 DEF SkipInv

(* One window write.                                                       *)
LEMMA WriteCovers ==
  ASSUME AlignedInv, WriteWindow
  PROVE  SkipInv'
  <1>1. /\ SkipInv /\ CallInv /\ Shape /\ TodoCovers
        /\ consumed \in [PairIds -> [Columns -> SUBSET Nat]]
    BY DEF AlignedInv, SkipInv, CallInv
  <1>0. PICK i : i = job.pair
    OBVIOUS
  <1>2. PICK x \in job.todo :
          /\ job \in PairJobs /\ x \in WindowWrites
          /\ \A p \in RingIds : p # Dst(i) => rings'[p] = rings[p]
          /\ job' \in PairJobs /\ job'.pair = i /\ job'.cursors = job.cursors
          /\ job'.todo = job.todo \ {x}
          /\ consumed' = [consumed EXCEPT ![i][x.column] = @ \cup x.times]
          /\ cursorFile' = cursorFile /\ crashes' = crashes /\ recorded' = recorded
    BY <1>0, <1>1, WriteEffect
  <1>3. /\ i \in PairIds /\ job.cursors \in Cursors /\ job.at = "pair" /\ job # Idle
        /\ x.column \in Columns /\ x.times \in SUBSET Nat
    BY <1>0, <1>2 DEF PairJobs, WindowWrites, Idle
  <1>4. /\ consumed' \in [PairIds -> [Columns -> SUBSET Nat]]
        /\ x.times \subseteq consumed'[i][x.column]
        /\ \A j \in PairIds, c \in Columns : consumed[j][c] \subseteq consumed'[j][c]
    BY <1>1, <1>2, <1>3
  <1>5. RootsQuiet
    <2>1. \A r \in Roots : rings'[r] = rings[r]
      BY <1>2, <1>3, PairFacts DEF Roots
    <2> QED BY <1>2, <1>4, <2>1 DEF RootsQuiet
  <1>6. TodoCovers'
    <2> SUFFICES ASSUME Src(i) \in Roots, Known(Src(i))', NEW c \in Columns,
                        NEW t \in Retained(Src(i), c)', t > job.cursors[i]
                 PROVE  \/ t \in consumed'[i][c]
                        \/ \E y \in job'.todo : y.column = c /\ t \in y.times
      BY <1>0, <1>2 DEF TodoCovers
    <2>1. Known(Src(i)) /\ t \in Retained(Src(i), c)
      BY <1>5, QuietRoots
    <2>2. \/ t \in consumed[i][c]
          \/ \E y \in job.todo : y.column = c /\ t \in y.times
      BY <1>0, <1>1, <1>3, <2>1 DEF TodoCovers
    <2>3. CASE t \in consumed[i][c]
      BY <1>3, <1>4, <2>3
    <2>4. CASE \E y \in job.todo : y.column = c /\ t \in y.times
      <3>1. PICK y \in job.todo : y.column = c /\ t \in y.times
        BY <2>4
      <3>2. CASE y = x
        BY <1>4, <3>1, <3>2
      <3>3. CASE y # x
        BY <1>2, <3>1, <3>3
      <3> QED BY <3>2, <3>3
    <2> QED BY <2>2, <2>3, <2>4
  <1>7. Good(job.cursors)'
    <2>1. PICK cs \in Cursors : cs = job.cursors
      BY <1>3
    <2>2. Good(cs)'
      BY <1>1, <1>3, <1>5, <2>1, QuietGood DEF SkipInv
    <2> QED BY <1>2, <2>1, <2>2 DEF Good, CursorsKept, Covered
  <1>8. cursorFile' # EmptyFile => Good(cursorFile)'
    <2> SUFFICES ASSUME cursorFile # EmptyFile PROVE Good(cursorFile)'
      BY <1>2
    <2>1. PICK file \in Cursors : file = cursorFile
      BY <1>1 DEF Shape
    <2>2. Good(file)'
      BY <1>1, <1>5, <2>1, QuietGood DEF SkipInv
    <2> QED BY <1>2, <2>1, <2>2 DEF Good, CursorsKept, Covered
  <1>9. \A r \in Roots : RootInv(r)'
    BY <1>1, <1>5, QuietInv DEF SkipInv
  <1>10. CallInv'
    BY <1>1, WriteKeeps
  <1> QED BY <1>1, <1>2, <1>4, <1>6, <1>7, <1>8, <1>9, <1>10 DEF SkipInv

(* The end of a call, whether it succeeds, fails or the process dies.      *)
LEMMA EndCovers ==
  ASSUME AlignedInv, SaveCursors \/ SaveFails \/ Fail \/ Crash
  PROVE  SkipInv'
  <1>1. SkipInv /\ CallInv /\ Shape
    BY DEF AlignedInv, SkipInv, CallInv
  <1>2. /\ job' = Idle /\ recorded' = recorded /\ consumed' = consumed
        /\ \/ cursorFile' \in {cursorFile, EmptyFile}
           \/ job \in SaveJobs /\ cursorFile' = job.cursors
    <2>1. CASE Crash
      BY <1>1, <2>1, CrashEffect
    <2>2. CASE SaveCursors \/ SaveFails \/ Fail
      BY <1>1, <2>2, JobFacts DEF SaveCursors, SaveFails, Fail
    <2> QED BY <2>1, <2>2
  <1>3. RootsQuiet
    <2>1. CASE Crash
      <3>1. \A r \in Roots : r \in RingIds
        BY DEF Roots
      <3>2. \A r \in Roots : /\ rings'[r].write_cursor = rings[r].write_cursor
                             /\ rings'[r].timestamps = rings[r].timestamps
                             /\ rings'[r].values = rings[r].values
        BY <1>1, <2>1, <3>1, CrashEffect
      <3>3. \A r \in Roots : rings'[r].slot_count = rings[r].slot_count
        <4> TAKE r \in Roots
        <4>1. rings'[r] \in RT(r) /\ rings[r] \in RT(r)
          BY <1>1, <2>1, <3>1, CrashEffect DEF Shape
        <4> QED BY <4>1 DEF RT, RingType
      <3>4. crashes' # 0
        <4>1. crashes \in Nat /\ crashes' = crashes + 1
          BY <1>1, <2>1 DEF Crash, Shape
        <4> QED BY <4>1
      <3> QED BY <1>2, <3>2, <3>3, <3>4 DEF RootsQuiet
    <2>2. CASE SaveCursors \/ SaveFails \/ Fail
      BY <2>2 DEF SaveCursors, SaveFails, Fail, RootsQuiet
    <2> QED BY <2>1, <2>2
  <1>4. cursorFile' # EmptyFile => Good(cursorFile)'
    <2> SUFFICES ASSUME cursorFile' # EmptyFile PROVE Good(cursorFile)'
      OBVIOUS
    <2>1. \/ cursorFile' = cursorFile /\ cursorFile \in Cursors /\ Good(cursorFile)
          \/ cursorFile' = job.cursors /\ job.cursors \in Cursors /\ Good(job.cursors)
      <3>1. job \in SaveJobs => job # Idle /\ job.cursors \in Cursors
        BY DEF SaveJobs, Idle
      <3> QED BY <1>1, <1>2, <3>1 DEF SkipInv, Shape
    <2>2. PICK file \in Cursors : file = cursorFile' /\ Good(file)
      BY <2>1
    <2>3. Good(file)'
      BY <1>3, <2>2, QuietGood
    <2> QED BY <2>2, <2>3 DEF Good, CursorsKept, Covered
  <1>5. \A r \in Roots : RootInv(r)'
    BY <1>1, <1>3, QuietInv DEF SkipInv
  <1>6. CallInv'
    BY <1>1, EndKeeps, CrashKeeps
  <1>7. TodoCovers'
    BY <1>2 DEF TodoCovers, Idle
  <1> QED BY <1>1, <1>2, <1>4, <1>5, <1>6, <1>7 DEF SkipInv

(* A recording in time order is the newest.                                *)
LEMMA RecordNewest ==
  ASSUME AlignedInv, NEW r \in Roots, NEW c \in Columns, NEW t \in Timestamps,
         \A d \in Columns : \A u \in recorded[r][d] : u <= t,
         t \notin recorded[r][c], Record(r, c, t)
  PROVE  /\ t \in Nat \ {0} /\ newest_timestamp(rings[r]) < t
         /\ newest_timestamp(rings'[r]) = t
  <1> DEFINE newest == newest_timestamp(rings[r])
  <1>1. /\ CallInv /\ Shape /\ OneColumn /\ RootInv(r)
    BY DEF AlignedInv, SkipInv, CallInv
  <1>2. newest \in Nat
    BY <1>1, RootShape
  <1>3. newest_timestamp(rings'[r]) = t
    <2>1. Wrote(rings'[r], rings[r], SlotOf(r, t), c, {t}, t)
      BY <1>1, RecordEffect
    <2> QED BY <2>1 DEF Wrote, newest_timestamp
  <1>4. t \in Nat \ {0}
    BY ConsolidationAssumption
  <1>5. newest # 0 => newest \in recorded[r][c]
    BY <1>1 DEF RootInv, OneColumn
  <1>6. newest # 0 => newest <= t /\ newest # t
    BY <1>5
  <1> QED BY <1>2, <1>3, <1>4, <1>6

(* A recording in time order.                                              *)
LEMMA RecordCovers ==
  ASSUME AlignedInv, NEW r \in Roots, NEW c \in Columns, NEW t \in Timestamps,
         \A d \in Columns : \A u \in recorded[r][d] : u <= t,
         t \notin recorded[r][c], Record(r, c, t)
  PROVE  SkipInv'
  <1> DEFINE old == rings[r]
             new == rings'[r]
             n == SlotCount[r]
             w == IntervalNs[r]
             s0 == SlotOf(r, t)
             newest == newest_timestamp(old)
  <1>1. /\ SkipInv /\ CallInv /\ Shape /\ OneColumn /\ RootInv(r)
        /\ recorded \in [Roots -> [Columns -> SUBSET Timestamps]]
    BY DEF AlignedInv, SkipInv, CallInv
  <1>2. /\ job = Idle /\ job' = Idle /\ cursorFile' = cursorFile /\ crashes' = crashes
        /\ consumed' = consumed /\ recorded' = [recorded EXCEPT ![r][c] = @ \cup {t}]
    BY DEF Record
  <1>3. /\ \A q \in RingIds : q # r => rings'[q] = rings[q]
        /\ s0 \in Slots(old) /\ Wrote(new, old, s0, c, {t}, t)
    BY <1>1, RecordEffect
  <1>4. CallInv' /\ Shape'
    BY <1>1, RecordKeeps DEF CallInv
  <1>5. /\ r \in RingIds /\ n \in Nat \ {0} /\ w \in Nat \ {0}
        /\ old.write_cursor \in 0 .. n - 1 /\ old.timestamps \in [0 .. n - 1 -> Nat]
        /\ Slots(old) = 0 .. n - 1 /\ newest = old.timestamps[old.write_cursor] /\ newest \in Nat
    BY <1>1, RootShape
  <1>6. Slots(new) = 0 .. n - 1 /\ newest_timestamp(new) = t
    <2>1. new \in RT(r)
      BY <1>4, <1>5 DEF Shape
    <2>2. Slots(new) = 0 .. n - 1
      BY <2>1 DEF RT, RingType, Slots
    <2> QED BY <1>3, <2>2 DEF Wrote, newest_timestamp
  <1>7. /\ recorded' \in [Roots -> [Columns -> SUBSET Timestamps]]
        /\ recorded'[r][c] = recorded[r][c] \cup {t}
        /\ \A q \in Roots, d \in Columns : q # r \/ d # c => recorded'[q][d] = recorded[q][d]
    BY <1>1, <1>2
  <1>8. \A d \in Columns : d = c
    BY <1>1 DEF OneColumn
  <1>9. t \in Nat \ {0} /\ newest < t
    BY RecordNewest
  <1>10. /\ new.timestamps[s0] = t /\ new.write_cursor = s0 /\ new.values[s0][c] = {t}
         /\ \A x \in 0 .. n - 1 : x # s0 => /\ new.timestamps[x] = old.timestamps[x]
                                            /\ new.values[x] = old.values[x]
         /\ new.has_wrapped <=> (old.has_wrapped \/ s0 < old.write_cursor)
    BY <1>3, <1>5 DEF Wrote
  <1> HIDE DEF old, new, n, w, newest
  <1>11. RootInv(r)'
    <2>1. AtHome(new, n, w)
      <3> SUFFICES ASSUME NEW x \in 0 .. n - 1, new.timestamps[x] # 0
                   PROVE  new.timestamps[x] <= t /\ (new.timestamps[x] \div w) % n = x
        BY <1>6 DEF AtHome
      <3>1. CASE x = s0
        BY <1>9, <1>10, <3>1 DEF SlotOf, n, w
      <3>2. CASE x # s0
        <4>1. AtHome(old, n, w)
          BY <1>1 DEF RootInv, old, n, w
        <4>2. new.timestamps[x] = old.timestamps[x]
          BY <1>10, <3>2
        <4>3. old.timestamps[x] <= newest /\ (old.timestamps[x] \div w) % n = x
          BY <4>1, <4>2 DEF AtHome, newest
        <4>4. old.timestamps[x] \in Nat
          BY <1>5
        <4> QED BY <1>5, <1>9, <4>2, <4>3, <4>4
      <3> QED BY <3>1, <3>2
    <2>2. ASSUME NEW x \in 0 .. n - 1
          PROVE  /\ new.timestamps[x] \in Timestamps \cup {0}
                 /\ new.timestamps[x] # 0 => \A d \in Columns : new.values[x][d] # NaN
      <3>1. CASE x = s0
        <4>1. {t} # NaN
          BY ConsolidationAssumption
        <4>2. \A d \in Columns : new.values[x][d] = {t}
          BY <1>8, <1>10, <3>1
        <4> QED BY <1>10, <3>1, <4>1, <4>2
      <3>2. CASE x # s0
        <4>1. /\ old.timestamps[x] \in Timestamps \cup {0}
              /\ old.timestamps[x] # 0 => \A d \in Columns : old.values[x][d] # NaN
          BY <1>1, <1>5 DEF RootInv, old
        <4> QED BY <1>10, <3>2, <4>1
      <3> QED BY <3>1, <3>2
    <2>3. \A d \in Columns : \A u \in recorded'[r][d] : u <= t
      BY <1>7, <1>8, <1>9
    <2>4. \E d \in Columns : t \in recorded'[r][d]
      BY <1>7
    <2>5. ASSUME crashes = 0, ~new.has_wrapped, NEW x \in 0 .. n - 1, x > s0
          PROVE  new.timestamps[x] = 0
      <3>1. ~old.has_wrapped /\ ~(s0 < old.write_cursor)
        BY <1>10, <2>5
      <3>2. x > old.write_cursor /\ x # s0
        BY <1>3, <1>5, <2>5, <3>1
      <3>3. old.timestamps[x] = 0
        BY <1>1, <1>5, <2>5, <3>1, <3>2 DEF RootInv, old
      <3> QED BY <1>10, <3>2, <3>3
    <2> QED BY <1>2, <1>6, <1>10, <2>1, <2>2, <2>3, <2>4, <2>5 DEF RootInv, new, n, w
  <1>12. ASSUME NEW q \in Roots, q # r
         PROVE  /\ rings'[q] = rings[q] /\ recorded'[q] = recorded[q]
    <2>1. q \in RingIds
      BY DEF Roots
    <2> QED BY <1>1, <1>2, <1>3, <1>12, <2>1
  <1>13. \A q \in Roots : RootInv(q)'
    <2> SUFFICES ASSUME NEW q \in Roots, q # r PROVE RootInv(q)'
      BY <1>11
    <2>1. RootInv(q)
      BY <1>1 DEF SkipInv
    <2> QED BY <1>2, <1>12, <2>1 DEF RootInv
  <1>14. \A q \in Roots : Known(q)' => Known(q)
    <2> TAKE q \in Roots
    <2>1. \A d \in Columns : recorded[q][d] \subseteq recorded'[q][d]
      BY <1>7
    <2> QED BY <1>2, <2>1 DEF Known, OneLap
  <1>15. \A d \in Columns : \A u \in Retained(r, d)' : u = t \/ u \in Retained(r, d)
    <2> SUFFICES ASSUME NEW d \in Columns, NEW u \in Retained(r, d)', u # t
                 PROVE  u \in Retained(r, d)
      OBVIOUS
    <2>1. /\ u \in recorded'[r][d]
          /\ \E x \in 0 .. n - 1 : new.timestamps[x] = u
          /\ u \div w > (t \div w) - n
      BY <1>6 DEF Retained, new, n, w
    <2>2. u \in recorded[r][d]
      BY <1>7, <1>8, <2>1
    <2>3. \E x \in 0 .. n - 1 : old.timestamps[x] = u
      BY <1>10, <2>1
    <2>4. u \div w > (newest \div w) - n
      <3>1. newest \div w <= t \div w
        BY <1>5, <1>9, DivMonotone
      <3>2. u \in Nat /\ newest \div w \in Nat /\ t \div w \in Nat
        BY <1>5, <1>9, <2>3, DivNat
      <3>3. u \div w \in Nat
        BY <1>5, <3>2, DivNat
      <3> QED BY <1>5, <2>1, <3>1, <3>2, <3>3
    <2> QED BY <1>5, <2>2, <2>3, <2>4 DEF Retained, old, n, w, newest
  <1>16. cursorFile' # EmptyFile => Good(cursorFile)'
    <2> SUFFICES ASSUME cursorFile # EmptyFile PROVE Good(cursorFile)'
      BY <1>2
    <2>1. PICK cs \in Cursors : cs = cursorFile
      BY <1>1 DEF Shape
    <2>2. Good(cs)
      BY <1>1, <2>1 DEF SkipInv
    <2>3. ASSUME NEW i \in PairIds, Src(i) = r
          PROVE  cs[i] \in Nat /\ cs[i] <= newest /\ cs[i] % w = 0
      BY <2>2, <2>3 DEF Good, CursorsKept, Cursors, old, newest, w
    <2>4. CursorsKept(cs)'
      <3> SUFFICES ASSUME NEW i \in PairIds, Src(i) \in Roots
                   PROVE  /\ cs[i] <= newest_timestamp(rings'[Src(i)])
                          /\ cs[i] % IntervalNs[Src(i)] = 0
        BY DEF CursorsKept
      <3>1. CASE Src(i) = r
        BY <1>5, <1>6, <1>9, <2>3, <3>1 DEF new, w
      <3>2. CASE Src(i) # r
        BY <1>12, <2>2, <3>2 DEF Good, CursorsKept
      <3> QED BY <3>1, <3>2
    <2>5. Covered(cs)'
      <3> SUFFICES ASSUME NEW i \in PairIds, Src(i) \in Roots, Known(Src(i))',
                          NEW d \in Columns, NEW u \in Retained(Src(i), d)', u <= cs[i]
                   PROVE  u \in consumed[i][d]
        BY <1>2 DEF Covered
      <3>1. Known(Src(i))
        BY <1>14
      <3>2. u \in Retained(Src(i), d)
        <4>1. CASE Src(i) # r
          BY <1>12, <4>1 DEF Retained
        <4>2. CASE Src(i) = r
          <5>1. u # t
            BY <1>5, <1>9, <2>3, <4>2
          <5>2. u \in Retained(r, d)'
            BY <4>2
          <5> QED BY <1>15, <4>2, <5>1, <5>2
        <4> QED BY <4>1, <4>2
      <3> QED BY <2>2, <3>1, <3>2 DEF Good, Covered
    <2>6. Good(cs)'
      BY <2>4, <2>5 DEF Good
    <2> QED BY <1>2, <2>1, <2>6 DEF Good, CursorsKept, Covered
  <1>17. consumed' \in [PairIds -> [Columns -> SUBSET Nat]]
    BY <1>1, <1>2 DEF SkipInv
  <1>18. TodoCovers' /\ ~(job' # Idle)
    BY <1>2 DEF TodoCovers, Idle
  <1> QED BY <1>4, <1>7, <1>13, <1>16, <1>17, <1>18 DEF SkipInv

(* A fresh store has skipped nothing.                                      *)
LEMMA AlignedInit == OneColumn /\ RootsAligned /\ Init => AlignedInv
  <1> SUFFICES ASSUME Init PROVE SkipInv
    BY DEF AlignedInv
  <1>1. CallInv /\ Shape
    BY InitCallInv DEF CallInv
  <1>2. ASSUME NEW r \in Roots
        PROVE  /\ \A s \in 0 .. SlotCount[r] - 1 : rings[r].timestamps[s] = 0
               /\ newest_timestamp(rings[r]) = 0
               /\ \A c \in Columns : recorded[r][c] = {}
    <2>1. r \in RingIds /\ SlotCount[r] \in Nat \ {0}
      BY <1>1, RootShape
    <2>2. rings[r] = create(SlotCount[r], IntervalNs[r], Columns)
      BY <2>1 DEF Init
    <2>3. \A s \in 0 .. SlotCount[r] - 1 : rings[r].timestamps[s] = 0
      BY <2>2 DEF create
    <2>4. newest_timestamp(rings[r]) = 0
      BY <1>1, <2>3, RootShape
    <2> QED BY <2>3, <2>4 DEF Init
  <1>3. ASSUME NEW r \in Roots PROVE RootInv(r)
    <2>1. Slots(rings[r]) = 0 .. SlotCount[r] - 1
      BY <1>1, RootShape
    <2> QED BY <1>2, <2>1 DEF RootInv, AtHome
  <1>4. CursorsKept(cursorFile)
    <2> SUFFICES ASSUME NEW i \in PairIds, Src(i) \in Roots
                 PROVE  /\ 0 <= newest_timestamp(rings[Src(i)])
                        /\ 0 % IntervalNs[Src(i)] = 0
      BY DEF CursorsKept, Init
    <2>1. IntervalNs[Src(i)] \in Nat \ {0} /\ 0 \in 0 .. IntervalNs[Src(i)] - 1
      BY PairFacts
    <2> QED BY <1>2, <2>1, ModSmall
  <1>5. Covered(cursorFile)
    BY <1>2 DEF Covered, Retained
  <1> QED BY <1>1, <1>3, <1>4, <1>5 DEF Init, SkipInv, Good, TodoCovers, Idle

(* All steps keep it so.                                                   *)
LEMMA AlignedStep == AlignedInv /\ [Next]_vars => AlignedInv'
  <1> SUFFICES ASSUME AlignedInv, [Next]_vars PROVE SkipInv'
    BY DEF AlignedInv, OneColumn, RootsAligned, Roots
  <1>1. CASE UNCHANGED vars
    <2>1. CallInv'
      BY <1>1, StepKeeps DEF AlignedInv, SkipInv
    <2>2. /\ rings' = rings /\ cursorFile' = cursorFile /\ job' = job /\ crashes' = crashes
          /\ recorded' = recorded /\ consumed' = consumed
      BY <1>1 DEF vars
    <2>3. SkipInv
      BY DEF AlignedInv
    <2> QED BY <2>1, <2>2, <2>3 DEF SkipInv, RootInv, Good, CursorsKept, Covered, TodoCovers,
                                    Known, OneLap, Retained
  <1>2. CASE RecordInOrder
    BY <1>2, RecordCovers DEF RecordInOrder, InTimeOrder
  <1>3. CASE StartConsolidation
    BY <1>3, StartCovers
  <1>4. CASE ConsolidationStep
    BY <1>4, WriteCovers, FinishCovers, EndCovers DEF ConsolidationStep
  <1>5. CASE Crash
    BY <1>5, EndCovers
  <1> QED BY <1>1, <1>2, <1>3, <1>4, <1>5 DEF Next

(* No point is skipped, with one series and timestamps on the grid of the  *)
(* first tier: a point within retention at or before the saved cursor took *)
(* part in a window write, however often the ring lapped between the       *)
(* calls, wherever calls failed, and over restarts unless the restart of a *)
(* ring that had wrapped hid it.                                           *)
THEOREM PointsNeverSkipped == OneColumn /\ RootsAligned /\ Spec => []NoPointSkipped
  <1>1. AlignedInv => NoPointSkipped
    BY DEF AlignedInv, SkipInv, Good, Covered, Known, NoPointSkipped
  <1> QED BY AlignedInit, AlignedStep, <1>1, PTL DEF Spec

-----------------------------------------------------------------------------
(* Windows are complete.                                                   *)

(* Where it holds: in stores of two tiers.  With three, hash order lets    *)
(* the call read a middle tier up to a window that is not its newest.      *)
TwoTiers == \A i \in PairIds : Src(i) \in Roots

(* A point at t closes a window of the second tier of pair i.              *)
EndsWindow(i, t) == (t + IntervalNs[Src(i)]) % IntervalNs[Dst(i)] = 0

(* What is in window w of pair i, if anything, is all of the points raw    *)
(* that lie in it; and the window is closed, newest being the newest point *)
(* of the source.                                                          *)
FullCell(i, raw, newest, w, v) ==
  v # {} =>
    /\ w + IntervalNs[Dst(i)] <= newest + IntervalNs[Src(i)]
    /\ \A t \in raw : t \in w .. w + IntervalNs[Dst(i)] - 1 => t \in v

Newest(i) == newest_timestamp(rings[Src(i)])

CellsFull ==
  \A i \in PairIds : \A s \in 0 .. SlotCount[Dst(i)] - 1, c \in Columns :
    FullCell(i, recorded[Src(i)][c], Newest(i),
             rings[Dst(i)].timestamps[s], rings[Dst(i)].values[s][c])

TodoFull ==
  job.at = "pair" =>
    \A x \in job.todo :
      FullCell(job.pair, recorded[Src(job.pair)][x.column], Newest(job.pair), x.window, x.value)

(* The cursors are at the ends of windows.                                 *)
BoundaryCursors(cs) == \A i \in PairIds : cs[i] = 0 \/ EndsWindow(i, cs[i])

(* What a call found when it began holds while it works.                   *)
StillInTime == job.at = "pair" => KeepsUp /\ \A i \in PairIds : EndsWindow(i, Newest(i))

BoundaryInv ==
  /\ CellsFull
  /\ TodoFull
  /\ StillInTime
  /\ cursorFile # EmptyFile => BoundaryCursors(cursorFile)
  /\ job # Idle => cursorFile # EmptyFile /\ BoundaryCursors(job.cursors)

FullInv == TwoTiers /\ NestedInv /\ AlignedInv /\ BoundaryInv

(* Multiples of d are d apart.                                             *)
LEMMA MultiplesApart ==
  ASSUME NEW d \in Nat \ {0}, NEW a \in Nat, NEW b \in Nat, a % d = 0, b % d = 0, a < b
  PROVE  a + d <= b
  <1> DEFINE j == a \div d
             k == b \div d
  <1>1. j \in Nat /\ k \in Nat /\ a = d * j + (a % d) /\ b = d * k + (b % d)
    BY DivNat, DivMod
  <1> HIDE DEF j, k
  <1>2. d * j \in Nat /\ d * k \in Nat
    BY <1>1
  <1>3. a = d * j /\ b = d * k
    BY <1>1, <1>2
  <1> QED BY <1>1, <1>3, MultipleGap

(* The window of a time is the multiple of the width at or before it.      *)
LEMMA WindowUnique ==
  ASSUME NEW i \in PairIds, NEW t \in Nat, NEW w \in Nat, w % IntervalNs[Dst(i)] = 0,
         w <= t, t < w + IntervalNs[Dst(i)]
  PROVE  WindowStart(i, t) = w
  <1> DEFINE d == IntervalNs[Dst(i)]
             z == WindowStart(i, t)
             q == t \div d
  <1>1. d \in Nat \ {0}
    BY PairFacts
  <1>2. z \in Nat /\ z <= t /\ t < z + d
    BY WindowFacts
  <1>3. z % d = 0
    <2>1. q \in Nat
      BY <1>1, DivNat
    <2>2. z = q * d
      BY DEF WindowStart
    <2> HIDE DEF q, d, z
    <2>3. z = d * q /\ (d * q) % d = 0
      BY <1>1, <2>1, <2>2, MultipleMod
    <2> QED BY <2>3
  <1>4. w % d = 0 /\ t < w + d
    OBVIOUS
  <1> HIDE DEF d, z
  <1>5. z < w => z + d <= w
    BY <1>1, <1>2, <1>3, <1>4, MultiplesApart
  <1>6. w < z => w + d <= z
    BY <1>1, <1>2, <1>3, <1>4, MultiplesApart
  <1>7. z = w
    BY <1>1, <1>2, <1>4, <1>5, <1>6
  <1> QED BY <1>7 DEF z

(* A window to write takes the value of every point that was read for it.  *)
LEMMA WindowsTake ==
  ASSUME NEW i \in PairIds, NEW last \in Nat, NEW x \in Windows(i, last),
         NEW p \in NewPoints(i, x.column, NewRange(i, last)), WindowStart(i, p[1]) = x.window
  PROVE  p[2] \subseteq x.value
  <1> DEFINE points(c) == NewPoints(i, c, NewRange(i, last))
             of(c, w) == {z \in points(c) : WindowStart(i, z[1]) = w}
  <1>1. PICK c \in Columns : x \in ColumnWindows(i, c, points(c))
    BY DEF Windows
  <1> HIDE DEF points
  <1>2. PICK w \in {WindowStart(i, z[1]) : z \in points(c)} :
           x = [window |-> w, column |-> c,
                value  |-> UNION {z[2] : z \in of(c, w)},
                times  |-> {z[1] : z \in of(c, w)}]
    BY <1>1 DEF ColumnWindows
  <1>3. x.value = UNION {z[2] : z \in of(c, w)} /\ x.window = w /\ x.column = c
    BY <1>2
  <1>4. p \in of(c, w)
    BY <1>3 DEF points
  <1> QED BY <1>3, <1>4

(* The point of a cell of the first tier.                                  *)
LEMMA RootCell ==
  ASSUME SoundInv, NEW r \in Roots, NEW s \in 0 .. SlotCount[r] - 1, NEW c \in Columns,
         NEW u \in rings[r].values[s][c]
  PROVE  u = rings[r].timestamps[s] /\ u \in recorded[r][c] /\ u \in Nat \ {0}
  <1>1. r \in RingIds /\ RootOf(r) = r
    BY RootFacts DEF Roots
  <1>2. CellSound(r, recorded[r][c], rings[r].timestamps[s], rings[r].values[s][c])
    BY <1>1 DEF SoundInv, RingsSound
  <1>3. recorded[r][c] \subseteq Timestamps
    BY DEF SoundInv
  <1>4. Timestamps \subseteq Nat \ {0}
    BY ConsolidationAssumption
  <1> QED BY <1>2, <1>3, <1>4 DEF CellSound

(* Where the windows of a pair start and end, when the cursor and the      *)
(* newest point are at ends of windows.                                    *)
LEMMA WindowsClosed ==
  ASSUME TwoTiers, SoundInv, SkipInv, TiersNest,
         NEW i \in PairIds, EndsWindow(i, Newest(i)),
         NEW last \in Nat, last = 0 \/ EndsWindow(i, last),
         NEW x \in Windows(i, last)
  PROVE  /\ x.window \in Nat /\ x.column \in Columns /\ x.window % IntervalNs[Dst(i)] = 0
         /\ x.window + IntervalNs[Dst(i)] <= Newest(i) + IntervalNs[Src(i)]
         /\ last = 0 \/ last + IntervalNs[Src(i)] <= x.window
  <1> DEFINE a == IntervalNs[Src(i)]
             d == IntervalNs[Dst(i)]
             w == x.window
             newest == Newest(i)
             q == rings[Src(i)]
  <1>1. /\ a \in Nat \ {0} /\ d \in Nat \ {0} /\ Src(i) \in Roots /\ Dst(i) \notin Roots
        /\ Src(i) \in RingIds /\ q \in RT(Src(i)) /\ Shape /\ RootInv(Src(i))
    BY PairFacts DEF TwoTiers, SkipInv, CallInv, Shape
  <1>2. /\ x \in WindowWrites /\ x.value # {}
        /\ \A u \in x.value : \E s \in 0 .. SlotCount[Src(i)] - 1 :
             /\ u \in q.values[s][x.column]
             /\ WindowStart(i, q.timestamps[s]) = w
             /\ InRange(i, last, q.timestamps[s])
    BY <1>1, WindowsFacts
  <1>3. w \in Nat /\ x.column \in Columns
    BY <1>2 DEF WindowWrites
  <1>4. CellSound(Dst(i), recorded[RootOf(Dst(i))][x.column], w, x.value)
    BY WindowsAreSound
  <1>5. w % d = 0
    BY <1>1, <1>4 DEF CellSound
  <1>6. PICK u \in x.value : TRUE
    BY <1>2
  <1>7. PICK s \in 0 .. SlotCount[Src(i)] - 1 :
          u \in q.values[s][x.column] /\ WindowStart(i, q.timestamps[s]) = w
          /\ InRange(i, last, q.timestamps[s])
    BY <1>2, <1>6
  <1>8. u = q.timestamps[s] /\ u \in Nat \ {0}
    BY <1>1, <1>3, <1>7, RootCell
  <1>9. w <= u /\ u < w + d
    BY <1>7, <1>8, WindowFacts
  <1>10. newest \in Nat /\ q.interval_ns = a
    BY <1>1, RootShape DEF Newest
  <1>11. u <= newest /\ (last # 0 => last + a <= u)
    <2>1. NewRange(i, last).end = IF newest = 0 THEN 0 ELSE newest + 1
      BY DEF NewRange, Newest
    <2>2. last # 0 => NewRange(i, last).start = last + a
      BY <1>10 DEF NewRange
    <2>3. u \in NewRange(i, last).start .. NewRange(i, last).end - 1
      BY <1>7, <1>8 DEF InRange
    <2> HIDE DEF newest, a
    <2> QED BY <1>1, <1>8, <1>10, <2>1, <2>2, <2>3
  <1>12. (newest + a) % d = 0 /\ (last # 0 => (last + a) % d = 0)
    BY DEF EndsWindow
  <1> HIDE DEF a, d, w, newest, q
  <1>13. u <= newest
    BY <1>8, <1>10, <1>11
  <1>14. w + d <= newest + a
    <2> DEFINE e == newest + a
    <2>1. e \in Nat /\ e % d = 0 /\ w < e
      BY <1>1, <1>3, <1>8, <1>9, <1>10, <1>12, <1>13
    <2> HIDE DEF e
    <2>2. w + d <= e
      BY <1>1, <1>3, <1>5, <2>1, MultiplesApart
    <2> QED BY <2>2 DEF e
  <1>15. last = 0 \/ last + a <= w
    <2> SUFFICES ASSUME last # 0 PROVE last + a <= w
      OBVIOUS
    <2> DEFINE e == last + a
    <2>1. e \in Nat /\ e % d = 0 /\ e <= u
      BY <1>1, <1>8, <1>11, <1>12
    <2> HIDE DEF e
    <2>2. w < e => w + d <= e
      BY <1>1, <1>3, <1>5, <2>1, MultiplesApart
    <2>3. e <= w
      BY <1>1, <1>3, <1>8, <1>9, <2>1, <2>2
    <2> QED BY <2>3 DEF e
  <1> QED BY <1>3, <1>5, <1>14, <1>15 DEF a, d, w, newest

(* A pair that is entered at the end of a window, before the source has    *)
(* lost a point after the cursor, has whole windows to write.              *)
LEMMA WindowsAreFull ==
  ASSUME TwoTiers, TiersNest, RootsAligned, SoundInv, SkipInv, cursorFile # EmptyFile, KeepsUp,
         NEW i \in PairIds, EndsWindow(i, Newest(i)),
         NEW last \in Nat, last = 0 \/ EndsWindow(i, last), last % IntervalNs[Src(i)] = 0,
         last >= cursorFile[i],
         NEW x \in Windows(i, last)
  PROVE  FullCell(i, recorded[Src(i)][x.column], Newest(i), x.window, x.value)
  <1> DEFINE a == IntervalNs[Src(i)]
             d == IntervalNs[Dst(i)]
             w == x.window
             c == x.column
             q == rings[Src(i)]
  <1>1. /\ w \in Nat /\ c \in Columns /\ w % d = 0
        /\ w + d <= Newest(i) + a
        /\ last = 0 \/ last + a <= w
    BY WindowsClosed
  <1>2. /\ a \in Nat \ {0} /\ d \in Nat \ {0} /\ Src(i) \in Roots
        /\ Shape /\ RootInv(Src(i))
        /\ recorded \in [Roots -> [Columns -> SUBSET Timestamps]]
    BY PairFacts DEF TwoTiers, SkipInv, CallInv
  <1>3. ASSUME NEW t \in recorded[Src(i)][c], t \in w .. w + d - 1
        PROVE  t \in x.value
    <2>1. t \in Nat \ {0}
      <3>1. recorded[Src(i)][c] \subseteq Timestamps
        BY <1>1, <1>2
      <3> QED BY <1>3, <3>1, ConsolidationAssumption
    <2>2. w <= t /\ t < w + d
      <3> HIDE DEF w, d
      <3> QED BY <1>1, <1>2, <1>3, <2>1
    <2>3. t > last
      <3> HIDE DEF w, d, a
      <3> QED BY <1>1, <1>2, <2>1, <2>2
    <2>4. cursorFile[i] \in Nat
      BY <1>2 DEF Shape, Cursors
    <2>5. t > cursorFile[i]
      BY <2>1, <2>3, <2>4
    <2>6. t \in Retained(Src(i), c) /\ Known(Src(i))
      BY <1>1, <1>2, <1>3, <2>5 DEF KeepsUp, Known
    <2> HIDE DEF c
    <2>7. PICK s \in 0 .. SlotCount[Src(i)] - 1 :
            /\ q.timestamps[s] = t /\ q.values[s][c] # NaN
            /\ Point(q, c, s) \in NewPoints(i, c, NewRange(i, last))
      BY <1>1, <1>2, <2>3, <2>6, RetainedRead
    <2>8. PICK u : u \in q.values[s][c]
      BY <2>7, ConsolidationAssumption
    <2>9. u = t
      BY <1>1, <1>2, <2>7, <2>8, RootCell
    <2> DEFINE p == Point(q, c, s)
    <2>10. p[1] = t /\ p[2] = q.values[s][c]
      BY <2>7 DEF Point
    <2> HIDE DEF p
    <2>11. WindowStart(i, p[1]) = x.window
      <3> HIDE DEF q
      <3> QED BY <1>1, <2>1, <2>2, <2>10, WindowUnique
    <2>12. p \in NewPoints(i, x.column, NewRange(i, last))
      BY <2>7 DEF p, c
    <2>13. p[2] \subseteq x.value
      BY <2>11, <2>12, WindowsTake
    <2> QED BY <2>8, <2>9, <2>10, <2>13
  <1> QED BY <1>1, <1>3 DEF FullCell

(* A call that enters a pair.                                              *)
LEMMA EnterFull ==
  ASSUME FullInv, cursorFile # EmptyFile, KeepsUp, \A j \in PairIds : EndsWindow(j, Newest(j)),
         NEW i \in PairIds, NEW cs \in Cursors, BoundaryCursors(cs), CursorsKept(cs),
         \A j \in PairIds : cs[j] >= cursorFile[j],
         job' = Enter(i, cs), rings' = rings, recorded' = recorded
  PROVE  TodoFull'
  <1>1. /\ TwoTiers /\ TiersNest /\ RootsAligned /\ SoundInv /\ SkipInv /\ Shape
    BY DEF FullInv, NestedInv, AlignedInv, SoundInv, CallInv
  <1>2. job'.pair = i /\ job'.todo = Windows(i, cs[i])
    BY <1>1, EnterFacts
  <1>3. cs[i] \in Nat /\ (cs[i] = 0 \/ EndsWindow(i, cs[i])) /\ cs[i] >= cursorFile[i]
        /\ cs[i] % IntervalNs[Src(i)] = 0
    BY <1>1 DEF Cursors, BoundaryCursors, CursorsKept, TwoTiers
  <1>4. \A x \in Windows(i, cs[i]) :
          FullCell(i, recorded[Src(i)][x.column], Newest(i), x.window, x.value)
    BY <1>1, <1>3, WindowsAreFull
  <1> QED BY <1>2, <1>4 DEF TodoFull, Newest

(* The parts of the hypotheses that the steps need.                        *)
LEMMA FullFacts ==
  ASSUME FullInv
  PROVE  /\ TwoTiers /\ OneColumn /\ TiersNest /\ RootsAligned
         /\ SoundInv /\ SkipInv /\ CallInv /\ Shape
         /\ CellsFull /\ TodoFull /\ StillInTime
  BY DEF FullInv, NestedInv, AlignedInv, BoundaryInv, SoundInv, CallInv

(* A new point is after every window that was written.                     *)
LEMMA RecordFull ==
  ASSUME FullInv, NEW r \in Roots, NEW c \in Columns, NEW t \in Timestamps,
         \A d \in Columns : \A u \in recorded[r][d] : u <= t,
         t \notin recorded[r][c], Record(r, c, t)
  PROVE  BoundaryInv'
  <1>1. /\ TwoTiers /\ OneColumn /\ RootsAligned /\ Shape /\ CellsFull /\ SkipInv /\ AlignedInv
        /\ recorded \in [Roots -> [Columns -> SUBSET Timestamps]]
    BY FullFacts DEF SkipInv, FullInv
  <1>2. /\ job = Idle /\ job' = Idle /\ cursorFile' = cursorFile
        /\ recorded' = [recorded EXCEPT ![r][c] = @ \cup {t}]
    BY DEF Record
  <1>3. \A q \in RingIds : q # r => rings'[q] = rings[q]
    BY <1>1, RecordEffect
  <1>4. /\ t \in Nat \ {0} /\ newest_timestamp(rings[r]) < t /\ newest_timestamp(rings'[r]) = t
    BY <1>1, RecordNewest
  <1>5. CellsFull'
    <2> SUFFICES ASSUME NEW i \in PairIds, NEW s \in 0 .. SlotCount[Dst(i)] - 1, NEW e \in Columns
                 PROVE  FullCell(i, recorded'[Src(i)][e], newest_timestamp(rings'[Src(i)]),
                                 rings'[Dst(i)].timestamps[s], rings'[Dst(i)].values[s][e])
      BY DEF CellsFull, Newest
    <2> DEFINE a == IntervalNs[Src(i)]
               d == IntervalNs[Dst(i)]
               newest == newest_timestamp(rings[Src(i)])
               w == rings[Dst(i)].timestamps[s]
               v == rings[Dst(i)].values[s][e]
    <2>1. /\ Src(i) \in Roots /\ Src(i) \in RingIds /\ Dst(i) \in RingIds /\ Dst(i) # r
          /\ a \in Nat \ {0} /\ d \in Nat \ {0}
      BY <1>1, PairFacts DEF TwoTiers
    <2>2. rings'[Dst(i)] = rings[Dst(i)]
      BY <1>3, <2>1
    <2>3. FullCell(i, recorded[Src(i)][e], newest, w, v)
      BY <1>1 DEF CellsFull, Newest
    <2>4. CASE Src(i) # r
      <3>1. recorded'[Src(i)] = recorded[Src(i)] /\ rings'[Src(i)] = rings[Src(i)]
        BY <1>1, <1>2, <1>3, <2>1, <2>4
      <3> QED BY <2>2, <2>3, <3>1
    <2>5. CASE Src(i) = r
      <3>1. \A u \in recorded'[Src(i)][e] : u = t \/ u \in recorded[Src(i)][e]
        BY <1>1, <1>2, <2>5
      <3>2. newest \in Nat /\ w \in Nat /\ RootInv(Src(i))
        <4>1. rings[Dst(i)] \in RT(Dst(i))
          BY <1>1, <2>1 DEF Shape
        <4> QED BY <1>1, <2>1, <4>1, RootShape DEF SkipInv, RT, RingType
      <3>3. newest + a <= t
        <4>1. newest % a = 0 /\ t % a = 0
          <5>1. newest \in Timestamps \cup {0}
            BY <1>1, <2>1, <3>2, RootShape DEF RootInv
          <5>2. 0 % a = 0
            <6>1. 0 \in 0 .. a - 1
              BY <2>1
            <6> QED BY <2>1, <6>1, ModSmall
          <5> QED BY <1>1, <2>5, <5>1, <5>2 DEF RootsAligned
        <4>2. newest < t
          BY <1>4, <2>5
        <4> HIDE DEF newest, a
        <4> QED BY <1>4, <2>1, <3>2, <4>1, <4>2, MultiplesApart
      <3>4. newest_timestamp(rings'[Src(i)]) = t
        BY <1>4, <2>5
      <3>5. FullCell(i, recorded'[Src(i)][e], t, w, v)
        <4> SUFFICES ASSUME v # {}
                     PROVE  /\ w + d <= t + a
                            /\ \A u \in recorded'[Src(i)][e] : u \in w .. w + d - 1 => u \in v
          BY DEF FullCell
        <4>1. /\ w + d <= newest + a
              /\ \A u \in recorded[Src(i)][e] : u \in w .. w + d - 1 => u \in v
          BY <2>3 DEF FullCell
        <4> HIDE DEF a, d, newest, w, v
        <4>2. w + d <= t + a /\ ~(t \in w .. w + d - 1)
          BY <1>4, <2>1, <3>2, <3>3, <4>1
        <4> QED BY <3>1, <4>1, <4>2
      <3> QED BY <2>2, <3>4, <3>5
    <2> QED BY <2>4, <2>5
  <1>6. cursorFile' # EmptyFile => BoundaryCursors(cursorFile)'
    BY <1>2 DEF FullInv, BoundaryInv, BoundaryCursors, EndsWindow
  <1>7. job'.at # "pair"
    BY <1>2 DEF Idle
  <1> QED BY <1>2, <1>5, <1>6, <1>7 DEF BoundaryInv, TodoFull, StillInTime

(* A window write.                                                         *)
LEMMA WriteFull ==
  ASSUME FullInv, WriteWindow
  PROVE  BoundaryInv'
  <1>1. TwoTiers /\ OneColumn /\ Shape /\ CellsFull /\ TodoFull /\ StillInTime
    BY FullFacts
  <1>0. PICK i : i = job.pair
    OBVIOUS
  <1>2. PICK x \in job.todo :
          /\ job \in PairJobs /\ x \in WindowWrites
          /\ \A p \in RingIds : p # Dst(i) => rings'[p] = rings[p]
          /\ SlotOf(Dst(i), x.window) \in Slots(rings[Dst(i)])
          /\ Wrote(rings'[Dst(i)], rings[Dst(i)], SlotOf(Dst(i), x.window),
                   x.column, x.value, x.window)
          /\ job' \in PairJobs /\ job'.pair = i /\ job'.cursors = job.cursors
          /\ job'.todo = job.todo \ {x}
          /\ cursorFile' = cursorFile /\ crashes' = crashes /\ recorded' = recorded
    BY <1>0, <1>1, WriteEffect
  <1>3. /\ i \in PairIds /\ job.at = "pair" /\ job # Idle /\ x.column \in Columns
        /\ job'.at = "pair" /\ job' # Idle
    BY <1>0, <1>2 DEF PairJobs, WindowWrites, Idle
  <1>4. \A r \in Roots : rings'[r] = rings[r]
    BY <1>2, <1>3, PairFacts DEF Roots
  <1>5. \A j \in PairIds : Newest(j)' = Newest(j)
    BY <1>1, <1>4 DEF TwoTiers, Newest
  <1>6. CellsFull'
    <2> SUFFICES ASSUME NEW j \in PairIds, NEW s \in 0 .. SlotCount[Dst(j)] - 1, NEW e \in Columns
                 PROVE  FullCell(j, recorded[Src(j)][e], Newest(j),
                                 rings'[Dst(j)].timestamps[s], rings'[Dst(j)].values[s][e])
      BY <1>2, <1>5 DEF CellsFull
    <2>1. FullCell(j, recorded[Src(j)][e], Newest(j),
                   rings[Dst(j)].timestamps[s], rings[Dst(j)].values[s][e])
      BY <1>1 DEF CellsFull
    <2>2. Dst(j) \in RingIds
      BY PairFacts
    <2>3. CASE j # i
      <3>1. Dst(j) # Dst(i)
        BY <1>3, <2>3, OneSource
      <3> QED BY <1>2, <2>1, <2>2, <3>1
    <2>4. CASE j = i
      <3>1. s \in Slots(rings[Dst(j)]) /\ e = x.column
        <4>1. rings[Dst(j)] \in RT(Dst(j))
          BY <1>1, <2>2 DEF Shape
        <4> QED BY <1>1, <1>3, <4>1 DEF RT, RingType, Slots, OneColumn
      <3>2. CASE s = SlotOf(Dst(i), x.window)
        <4>1. rings'[Dst(j)].timestamps[s] = x.window /\ rings'[Dst(j)].values[s][e] = x.value
          BY <1>2, <1>3, <2>4, <3>1, <3>2 DEF Wrote
        <4>2. FullCell(i, recorded[Src(i)][x.column], Newest(i), x.window, x.value)
          BY <1>0, <1>1, <1>2, <1>3 DEF TodoFull
        <4> QED BY <2>4, <3>1, <4>1, <4>2
      <3>3. CASE s # SlotOf(Dst(i), x.window)
        <4>1. /\ rings'[Dst(j)].timestamps[s] = rings[Dst(j)].timestamps[s]
              /\ rings'[Dst(j)].values[s] = rings[Dst(j)].values[s]
          BY <1>2, <2>4, <3>1, <3>3 DEF Wrote
        <4> QED BY <2>1, <4>1
      <3> QED BY <3>2, <3>3
    <2> QED BY <2>3, <2>4
  <1>7. TodoFull'
    BY <1>0, <1>1, <1>2, <1>3, <1>5 DEF TodoFull
  <1>8. StillInTime'
    <2>1. KeepsUp'
      <3>1. KeepsUp
        BY <1>1, <1>3 DEF StillInTime
      <3> QED BY <1>1, <1>2, <1>4, <3>1 DEF KeepsUp, TwoTiers, OneLap, Retained
    <2>2. \A j \in PairIds : EndsWindow(j, Newest(j))
      BY <1>1, <1>3 DEF StillInTime
    <2> QED BY <1>5, <2>1, <2>2 DEF StillInTime, EndsWindow
  <1>9. /\ cursorFile # EmptyFile /\ BoundaryCursors(cursorFile) /\ BoundaryCursors(job.cursors)
    BY <1>3 DEF FullInv, BoundaryInv
  <1> QED BY <1>2, <1>3, <1>6, <1>7, <1>8, <1>9 DEF BoundaryInv, BoundaryCursors, EndsWindow

(* The beginning of a call.                                                *)
LEMMA StartFull ==
  ASSUME FullInv, StartConsolidation, ClosesWindows, KeepsUp
  PROVE  BoundaryInv'
  <1>1. TwoTiers /\ Shape /\ CellsFull /\ SkipInv
    BY FullFacts
  <1>2. /\ cursorFile # EmptyFile /\ job' = Enter(1, cursorFile) /\ cursorFile' = cursorFile
        /\ rings' = rings /\ crashes' = crashes /\ recorded' = recorded
    BY DEF StartConsolidation
  <1>3. PICK cs \in Cursors : cs = cursorFile
    BY <1>1, <1>2 DEF Shape
  <1>4. BoundaryCursors(cs) /\ CursorsKept(cs) /\ \A j \in PairIds : cs[j] >= cursorFile[j]
    BY <1>1, <1>2, <1>3 DEF FullInv, BoundaryInv, SkipInv, Good, Cursors
  <1>5. \A j \in PairIds : EndsWindow(j, Newest(j))
    BY <1>1 DEF ClosesWindows, TwoTiers, EndsWindow, Newest
  <1>6. job' = Enter(1, cs) /\ job'.cursors = cs
    BY <1>1, <1>2, <1>3, FirstPair, EnterFacts
  <1>7. TodoFull'
    BY <1>2, <1>4, <1>5, <1>6, FirstPair, EnterFull
  <1>8. CellsFull'
    BY <1>1, <1>2 DEF CellsFull, Newest
  <1>9. StillInTime'
    BY <1>2, <1>5 DEF StillInTime, EndsWindow, Newest, KeepsUp, OneLap, Retained
  <1> QED BY <1>2, <1>3, <1>4, <1>6, <1>7, <1>8, <1>9 DEF BoundaryInv, BoundaryCursors, EndsWindow

(* A pair is done: its cursor is at the newest point, which ends a window. *)
LEMMA FinishFull ==
  ASSUME FullInv, FinishPair
  PROVE  BoundaryInv'
  <1>1. TwoTiers /\ Shape /\ CellsFull /\ SkipInv /\ CallInv /\ StillInTime /\ AlignedInv
    BY FullFacts DEF FullInv
  <1>0. PICK i : i = job.pair
    OBVIOUS
  <1>2. PICK cs \in Cursors :
          /\ job \in PairJobs
          /\ \A j \in PairIds : cs[j] >= job.cursors[j]
          /\ cs = IF job.ops > 0 THEN [job.cursors EXCEPT ![i] = Newest(i)] ELSE job.cursors
          /\ \/ /\ i + 1 \in PairIds /\ job' = Enter(i + 1, cs)
             \/ job' = [at |-> "save", cursors |-> cs]
          /\ rings' = rings /\ cursorFile' = cursorFile /\ crashes' = crashes
          /\ recorded' = recorded
    BY <1>0, <1>1, FinishEffect DEF Newest
  <1>3. /\ i \in PairIds /\ job.at = "pair" /\ job # Idle /\ job.cursors \in Cursors
    BY <1>0, <1>2 DEF PairJobs, Idle
  <1>4. /\ cursorFile # EmptyFile /\ BoundaryCursors(cursorFile) /\ BoundaryCursors(job.cursors)
        /\ KeepsUp /\ \A j \in PairIds : EndsWindow(j, Newest(j))
    BY <1>1, <1>3 DEF FullInv, BoundaryInv, StillInTime
  <1>5. BoundaryCursors(cs)
    <2> SUFFICES ASSUME NEW j \in PairIds PROVE cs[j] = 0 \/ EndsWindow(j, cs[j])
      BY DEF BoundaryCursors
    <2>1. cs[j] = job.cursors[j] \/ (j = i /\ cs[j] = Newest(i))
      BY <1>2, <1>3 DEF Cursors
    <2> QED BY <1>4, <2>1 DEF BoundaryCursors
  <1>6. job'.cursors = cs /\ job' # Idle
    <2>1. CASE job' = [at |-> "save", cursors |-> cs]
      BY <2>1 DEF Idle
    <2>2. CASE i + 1 \in PairIds /\ job' = Enter(i + 1, cs)
      <3>1. job' \in PairJobs /\ job'.cursors = cs
        BY <1>1, <2>2, EnterFacts
      <3> QED BY <3>1 DEF PairJobs, Idle
    <2> QED BY <1>2, <2>1, <2>2
  <1>7. CursorsKept(cs)
    <2>1. SkipInv'
      BY <1>1, FinishCovers
    <2> QED BY <1>2, <1>6, <2>1 DEF SkipInv, Good, CursorsKept
  <1>8. \A j \in PairIds : cs[j] >= cursorFile[j]
    BY <1>1, <1>2, <1>3, <1>4 DEF CallInv, CursorInv, Shape, Cursors
  <1>9. TodoFull'
    <2>1. CASE job' = [at |-> "save", cursors |-> cs]
      BY <2>1 DEF TodoFull
    <2>2. CASE i + 1 \in PairIds /\ job' = Enter(i + 1, cs)
      BY <1>2, <1>4, <1>5, <1>7, <1>8, <2>2, EnterFull
    <2> QED BY <1>2, <2>1, <2>2
  <1>10. CellsFull'
    BY <1>1, <1>2 DEF CellsFull, Newest
  <1>11. StillInTime'
    BY <1>2, <1>4 DEF StillInTime, EndsWindow, Newest, KeepsUp, OneLap, Retained
  <1> QED BY <1>2, <1>4, <1>5, <1>6, <1>9, <1>10, <1>11 DEF BoundaryInv, BoundaryCursors, EndsWindow

(* The end of a call.                                                      *)
LEMMA EndFull ==
  ASSUME FullInv, SaveCursors \/ SaveFails \/ Fail \/ Crash
  PROVE  BoundaryInv'
  <1>1. TwoTiers /\ Shape /\ CellsFull
    BY FullFacts
  <1>2. /\ job' = Idle /\ recorded' = recorded
        /\ \A q \in RingIds : /\ rings'[q].write_cursor = rings[q].write_cursor
                              /\ rings'[q].timestamps = rings[q].timestamps
                              /\ rings'[q].values = rings[q].values
        /\ \/ cursorFile' \in {cursorFile, EmptyFile}
           \/ job \in SaveJobs /\ cursorFile' = job.cursors
    <2>1. CASE Crash
      BY <1>1, <2>1, CrashEffect
    <2>2. CASE SaveCursors \/ SaveFails \/ Fail
      BY <1>1, <2>2, JobFacts DEF SaveCursors, SaveFails, Fail
    <2> QED BY <2>1, <2>2
  <1>3. CellsFull'
    <2>1. \A i \in PairIds : Src(i) \in RingIds /\ Dst(i) \in RingIds
      BY PairFacts
    <2> QED BY <1>1, <1>2, <2>1 DEF CellsFull, Newest, newest_timestamp
  <1>4. cursorFile' # EmptyFile => BoundaryCursors(cursorFile)'
    <2>1. job \in SaveJobs => job # Idle
      BY DEF SaveJobs, Idle
    <2> QED BY <1>2, <2>1 DEF FullInv, BoundaryInv, BoundaryCursors, EndsWindow
  <1> QED BY <1>2, <1>3, <1>4 DEF BoundaryInv, TodoFull, StillInTime, Idle

(* A fresh store.                                                          *)
LEMMA FullInit == TwoTiers /\ OneColumn /\ RootsAligned /\ Init => FullInv
  <1> SUFFICES ASSUME TwoTiers, OneColumn, RootsAligned, Init
               PROVE  FullInv
    OBVIOUS
  <1>1. NestedInv /\ AlignedInv
    BY NestedInit, AlignedInit DEF TwoTiers, TiersNest
  <1>2. CellsFull
    <2>1. \A i \in PairIds : \A s \in 0 .. SlotCount[Dst(i)] - 1, c \in Columns :
            rings[Dst(i)].values[s][c] = {}
      <3> SUFFICES ASSUME NEW i \in PairIds
                   PROVE  \A s \in 0 .. SlotCount[Dst(i)] - 1, c \in Columns :
                            rings[Dst(i)].values[s][c] = {}
        OBVIOUS
      <3>1. rings[Dst(i)] = create(SlotCount[Dst(i)], IntervalNs[Dst(i)], Columns)
        BY PairFacts DEF Init
      <3> QED BY <3>1, ConsolidationAssumption DEF create
    <2> QED BY <2>1 DEF CellsFull, FullCell
  <1>3. BoundaryCursors(cursorFile)
    BY DEF Init, BoundaryCursors
  <1> QED BY <1>1, <1>2, <1>3 DEF FullInv, BoundaryInv, Init, Idle, TodoFull, StillInTime

(* All steps of callers that keep to the ends of windows.                  *)
LEMMA FullStep == FullInv /\ [BoundaryNext]_vars => FullInv'
  <1> SUFFICES ASSUME FullInv, [BoundaryNext]_vars
               PROVE  FullInv'
    OBVIOUS
  <1>1. [Next]_vars
    BY DEF BoundaryNext, Next
  <1>2. NestedInv' /\ AlignedInv'
    BY <1>1, NestedStep, AlignedStep DEF FullInv
  <1>3. TwoTiers'
    BY DEF FullInv, TwoTiers, PairIds, Src, Roots
  <1>4. BoundaryInv'
    <2>1. CASE UNCHANGED vars
      <3>1. /\ rings' = rings /\ cursorFile' = cursorFile /\ job' = job /\ crashes' = crashes
            /\ recorded' = recorded
        BY <2>1 DEF vars
      <3>2. BoundaryInv
        BY DEF FullInv
      <3> QED BY <3>1, <3>2 DEF BoundaryInv, CellsFull, TodoFull, StillInTime, BoundaryCursors,
                                EndsWindow, Newest, KeepsUp, OneLap, Retained
    <2>2. CASE RecordInOrder
      BY <2>2, RecordFull DEF RecordInOrder, InTimeOrder
    <2>3. CASE StartConsolidation /\ ClosesWindows /\ KeepsUp
      BY <2>3, StartFull
    <2>4. CASE ConsolidationStep
      BY <2>4, WriteFull, FinishFull, EndFull DEF ConsolidationStep
    <2>5. CASE Crash
      BY <2>5, EndFull
    <2> QED BY <2>1, <2>2, <2>3, <2>4, <2>5 DEF BoundaryNext
  <1> QED BY <1>2, <1>3, <1>4 DEF FullInv

(* With one series on the grid of the first tier, in stores of two tiers,  *)
(* and callers that consolidate at the ends of windows before the first    *)
(* tier loses a point, whatever is stored for a window is the aggregate of *)
(* all points recorded in it, however often both rings lap, whatever order *)
(* the windows are written in and wherever calls fail or the process dies. *)
THEOREM WindowsStayComplete ==
  TwoTiers /\ OneColumn /\ RootsAligned /\ BoundarySpec => []WindowsComplete
  <1>1. FullInv => WindowsComplete
    <2> SUFFICES ASSUME FullInv, NEW i \in PairIds, NEW x \in Cells(Dst(i))
                 PROVE  rings[Dst(i)].values[x[1]][x[2]] =
                          RecordedIn(Dst(i), x[2], rings[Dst(i)].timestamps[x[1]])
      BY DEF WindowsComplete
    <2> DEFINE v == rings[Dst(i)].values[x[1]][x[2]]
               w == rings[Dst(i)].timestamps[x[1]]
               raw == recorded[RootOf(Dst(i))][x[2]]
    <2>1. /\ Dst(i) \in RingIds /\ rings[Dst(i)] \in RT(Dst(i)) /\ CellsFull
          /\ Src(i) \in Roots /\ Src(i) \in RingIds /\ Dst(i)[1] = Src(i)[1]
      BY FullFacts, PairFacts DEF Shape, TwoTiers
    <2>2. x[1] \in 0 .. SlotCount[Dst(i)] - 1 /\ x[2] \in Columns /\ v # {}
      BY <2>1, ConsolidationAssumption DEF Cells, Slots, RT, RingType
    <2>3. CellSound(Dst(i), raw, w, v)
      BY <2>1, <2>2, FullFacts DEF SoundInv, RingsSound
    <2>4. RootOf(Dst(i)) = Src(i)
      BY <2>1, RootFacts DEF RootOf
    <2>5. FullCell(i, raw, Newest(i), w, v)
      BY <2>1, <2>2, <2>4 DEF CellsFull
    <2>6. RecordedIn(Dst(i), x[2], w) = {t \in raw : t \in w .. w + IntervalNs[Dst(i)] - 1}
      BY DEF RecordedIn, RootOf
    <2> HIDE DEF v, w, raw
    <2>7. v = RecordedIn(Dst(i), x[2], w)
      BY <2>2, <2>3, <2>5, <2>6 DEF CellSound, FullCell
    <2> QED BY <2>7 DEF v, w
  <1> QED BY FullInit, FullStep, <1>1, PTL DEF BoundarySpec
=============================================================================
