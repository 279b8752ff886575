----------------------------- MODULE QueryProofs -----------------------------
(***************************************************************************)
(* Proof that an answer that is not called incomplete is complete          *)
(* (CompleteUnlessFlagged), for any tiers, slots, widths, timestamps,      *)
(* failures and crashes.  The invariant follows a point: from the call     *)
(* that consumed it, its window is in its slot of the second tier with the *)
(* point in it.  What remains is whether a read gets that far: a ring that *)
(* has not wrapped, as its owner or as a start sees it, is read up to its  *)
(* cursor only, and the windows of a call are written in any order.        *)
(***************************************************************************)
EXTENDS Query, ConsolidationProofs

-----------------------------------------------------------------------------
(* The invariant.                                                          *)

(* Point t is in slot s of ring q, in column c and under the time w.       *)
Holds(q, s, c, w, t) == q.timestamps[s] = w /\ t \in q.values[s][c]

(* Window w of pair i is at or before the one that ends with the cursor.   *)
Before(i, last, w) == w + IntervalNs[Dst(i)] <= last + IntervalNs[Src(i)]

(* Every point of a window of pair i that was written is in its slot; so   *)
(* is every point of the first tier that is still there.                   *)
ConsumedKept ==
  \A i \in PairIds, c \in Columns : \A t \in consumed[i][c] :
    /\ t \in recorded[Src(i)][c]
    /\ WindowStart(i, t) # 0
    /\ Fits(Dst(i), c) => Holds(rings[Dst(i)], SlotOf(Dst(i), t), c, WindowStart(i, t), t)

RootsKept ==
  \A r \in Roots, c \in Columns : Fits(r, c) =>
    \A t \in recorded[r][c] : Holds(rings[r], SlotOf(r, t), c, t, t)

(* A filled slot of a second tier has a value, and its time belongs there. *)
CellsHome ==
  \A i \in PairIds : \A s \in 0 .. SlotCount[Dst(i)] - 1 :
    rings[Dst(i)].timestamps[s] # 0 =>
      /\ SlotOf(Dst(i), rings[Dst(i)].timestamps[s]) = s
      /\ \E c \in Columns : rings[Dst(i)].values[s][c] # {}
      /\ newest_timestamp(rings[Dst(i)]) # 0

(* A window to write is after the cursor and has the points read for it.   *)
TodoRight ==
  job.at = "pair" => \A x \in job.todo :
    /\ x.value # {}
    /\ ~Before(job.pair, job.cursors[job.pair], x.window)
    /\ \A t \in x.times : t \in x.value /\ WindowStart(job.pair, t) = x.window

(* Before a ring has wrapped, what lies above its cursor is from an        *)
(* earlier call, or will be written again by this one, which then moves    *)
(* the cursor there.                                                       *)
Ahead ==
  job.at = "pair" /\ ~rings[Dst(job.pair)].has_wrapped =>
    \A s \in 0 .. SlotCount[Dst(job.pair)] - 1 :
      LET w == rings[Dst(job.pair)].timestamps[s]
      IN  s > rings[Dst(job.pair)].write_cursor /\ w # 0 =>
            \/ Before(job.pair, job.cursors[job.pair], w)
            \/ \E x \in job.todo : x.window = w

Dense(i) == \A c \in Columns : Fits(Dst(i), c) /\ NoEmptyWindow(Dst(i), c)

(* What lies above the cursor of ring q, which has not wrapped, is not     *)
(* newer than what is at the cursor, as far as calls are completed.        *)
NoneHidden(i, q, last) ==
  ~q.has_wrapped =>
    \A s \in 0 .. SlotCount[Dst(i)] - 1 :
      s > q.write_cursor /\ q.timestamps[s] # 0 /\ Before(i, last, q.timestamps[s]) =>
        q.timestamps[s] < newest_timestamp(q)

AllConsumed(cs) ==
  \A i \in PairIds, c \in Columns : \A t \in recorded[Src(i)][c] :
    t <= cs[i] => t \in consumed[i][c]

AllShown(cs) == \A i \in PairIds : Dense(i) => NoneHidden(i, rings[Dst(i)], cs[i])

(* Every point up to the cursors is in its window, and its window can be   *)
(* read.                                                                   *)
Current(cs) == AllConsumed(cs) /\ AllShown(cs)

QueryInv ==
  /\ ConsumedKept
  /\ RootsKept
  /\ CellsHome
  /\ TodoRight
  /\ Ahead
  /\ cursorFile # EmptyFile => Current(cursorFile)
  /\ job # Idle => Current(job.cursors)

AnswerInv == FullInv /\ QueryInv

-----------------------------------------------------------------------------
(* Windows and slots.                                                      *)

Apart(a, b, p, q) == b + p = a + q

(* Within a lap, slots are as far apart as intervals.                      *)
LEMMA SameLap ==
  ASSUME NEW n \in Nat \ {0}, NEW a \in Nat, NEW b \in Nat, a <= b, b < a + n,
         NEW p, NEW q, p = a % n, q = b % n, p <= q
  PROVE  Apart(a, b, p, q)
  <1> DEFINE j == a \div n
             k == b \div n
  <1>1. j \in Nat /\ k \in Nat /\ a = n * j + p /\ b = n * k + q
    BY DivNat, DivMod
  <1>2. p \in Nat /\ q \in Nat /\ p < n /\ q < n
    BY ModRange
  <1> HIDE DEF j, k
  <1>3. n * j \in Nat /\ n * k \in Nat
    BY <1>1
  <1>4. ~(n * j < n * k)
    <2> SUFFICES ASSUME n * j < n * k PROVE FALSE
      OBVIOUS
    <2>1. n * j + n <= n * k
      BY <1>1, MultipleGap
    <2> QED BY <1>1, <1>2, <1>3, <2>1
  <1>5. ~(n * k < n * j)
    <2> SUFFICES ASSUME n * k < n * j PROVE FALSE
      OBVIOUS
    <2>1. n * k + n <= n * j
      BY <1>1, MultipleGap
    <2> QED BY <1>1, <1>2, <1>3, <2>1
  <1> QED BY <1>1, <1>2, <1>3, <1>4, <1>5 DEF Apart

(* A number that many intervals on is that many slots on, if there are.    *)
LEMMA StepInLap ==
  ASSUME NEW n \in Nat \ {0}, NEW a \in Nat, NEW b \in Nat,
         NEW q \in 0 .. n - 1, a <= b, b + (a % n) = a + q
  PROVE  b % n = q
  <1> DEFINE j == a \div n
             p == a % n
  <1>1. j \in Nat /\ p \in 0 .. n - 1 /\ a = n * j + p
    BY DivNat, ModRange, DivMod
  <1> HIDE DEF j
  <1>2. n * j \in Nat
    BY <1>1
  <1>3. b + p = a + q
    OBVIOUS
  <1> HIDE DEF p
  <1>4. b = n * j + q
    BY <1>1, <1>2, <1>3
  <1>5. b % n = q
    <2> DEFINE z == n * j + q
    <2>1. z \in Nat /\ z % n = q
      BY <1>1, RemainderUnique
    <2>2. b = z
      BY <1>4
    <2> HIDE DEF z
    <2> QED BY <2>1, <2>2
  <1> QED BY <1>5

(* A window is in the slot of its points.                                  *)
LEMMA WindowIndex ==
  ASSUME NEW i \in PairIds, NEW t \in Nat
  PROVE  /\ WindowStart(i, t) \div IntervalNs[Dst(i)] = t \div IntervalNs[Dst(i)]
         /\ SlotOf(Dst(i), WindowStart(i, t)) = SlotOf(Dst(i), t)
         /\ WindowStart(i, t) % IntervalNs[Dst(i)] = 0
  <1> DEFINE d == IntervalNs[Dst(i)]
             q == t \div d
             z == WindowStart(i, t)
             k == z \div d
  <1>1. d \in Nat \ {0} /\ q \in Nat /\ z \in Nat /\ k \in Nat
    BY PairFacts, WindowFacts, DivNat
  <1>2. z = q * d
    BY DEF WindowStart
  <1>3. z = d * k + (z % d)
    BY <1>1, DivMod
  <1> HIDE DEF q, d, k, z
  <1>4. z = d * q /\ (d * q) % d = 0 /\ d * q \in Nat
    BY <1>1, <1>2, MultipleMod
  <1>5. z = d * k /\ d * k \in Nat
    BY <1>1, <1>3, <1>4
  <1>6. q = k
    <2>1. ~(q < k)
      <3> SUFFICES ASSUME q < k PROVE FALSE
        OBVIOUS
      <3> QED BY <1>1, <1>4, <1>5
    <2>2. ~(k < q)
      <3> SUFFICES ASSUME k < q PROVE FALSE
        OBVIOUS
      <3> QED BY <1>1, <1>4, <1>5
    <2> QED BY <1>1, <2>1, <2>2
  <1> QED BY <1>4, <1>6 DEF q, d, k, z, SlotOf

(* The first tier of a pair's schema, in a store of two tiers.             *)
LEMMA PairRoot ==
  ASSUME TwoTiers, NEW i \in PairIds
  PROVE  /\ Src(i) \in Roots /\ <<Dst(i)[1], 0>> = Src(i)
  <1>1. /\ Src(i) \in Roots /\ Src(i) \in RingIds /\ Dst(i)[1] = Src(i)[1]
    BY PairFacts DEF TwoTiers
  <1> QED BY <1>1, RootFacts DEF RootOf

(* The numbers of a second-tier ring.                                      *)
LEMMA DstShape ==
  ASSUME Shape, NEW i \in PairIds
  PROVE  /\ Dst(i) \in RingIds /\ rings[Dst(i)] \in RT(Dst(i))
         /\ SlotCount[Dst(i)] \in Nat \ {0} /\ IntervalNs[Dst(i)] \in Nat \ {0}
         /\ rings[Dst(i)].write_cursor \in 0 .. SlotCount[Dst(i)] - 1
         /\ rings[Dst(i)].timestamps \in [0 .. SlotCount[Dst(i)] - 1 -> Nat]
         /\ Slots(rings[Dst(i)]) = 0 .. SlotCount[Dst(i)] - 1
         /\ newest_timestamp(rings[Dst(i)]) = rings[Dst(i)].timestamps[rings[Dst(i)].write_cursor]
         /\ newest_timestamp(rings[Dst(i)]) \in Nat
  <1>1. /\ Dst(i) \in RingIds /\ rings[Dst(i)] \in RT(Dst(i))
        /\ SlotCount[Dst(i)] \in Nat \ {0} /\ IntervalNs[Dst(i)] \in Nat \ {0}
    BY PairFacts DEF Shape
  <1>2. /\ rings[Dst(i)].write_cursor \in 0 .. SlotCount[Dst(i)] - 1
        /\ rings[Dst(i)].timestamps \in [0 .. SlotCount[Dst(i)] - 1 -> Nat]
        /\ rings[Dst(i)].slot_count = SlotCount[Dst(i)]
    BY <1>1 DEF RT, RingType
  <1> QED BY <1>1, <1>2 DEF newest_timestamp, Slots

(* A filled slot of a second tier: a window of recorded points, at home.   *)
LEMMA CellFacts ==
  ASSUME TwoTiers, SoundInv, CellsHome, NEW i \in PairIds,
         NEW s \in 0 .. SlotCount[Dst(i)] - 1, rings[Dst(i)].timestamps[s] # 0
  PROVE  /\ rings[Dst(i)].timestamps[s] % IntervalNs[Dst(i)] = 0
         /\ SlotOf(Dst(i), rings[Dst(i)].timestamps[s]) = s
         /\ newest_timestamp(rings[Dst(i)]) # 0
         /\ \E c \in Columns : \E u \in recorded[Src(i)][c] :
              /\ u \in Nat \ {0} /\ WindowStart(i, u) = rings[Dst(i)].timestamps[s]
              /\ u \div IntervalNs[Dst(i)] = rings[Dst(i)].timestamps[s] \div IntervalNs[Dst(i)]
              /\ u \in rings[Dst(i)].values[s][c]
  <1> DEFINE d == IntervalNs[Dst(i)]
             w == rings[Dst(i)].timestamps[s]
  <1>1. /\ Dst(i) \in RingIds /\ Dst(i) \notin Roots /\ d \in Nat \ {0} /\ w \in Nat
        /\ Src(i) \in Roots /\ <<Dst(i)[1], 0>> = Src(i)
    BY PairFacts, PairRoot, DstShape DEF SoundInv, CallInv
  <1>2. /\ SlotOf(Dst(i), w) = s /\ newest_timestamp(rings[Dst(i)]) # 0
        /\ \E c \in Columns : rings[Dst(i)].values[s][c] # {}
    BY DEF CellsHome
  <1>2a. PICK c \in Columns : \E u : u \in rings[Dst(i)].values[s][c]
    BY <1>2
  <1>3. PICK u : u \in rings[Dst(i)].values[s][c]
    BY <1>2a
  <1>4. CellSound(Dst(i), recorded[Src(i)][c], w, rings[Dst(i)].values[s][c])
    BY <1>1 DEF SoundInv, RingsSound, RootOf
  <1>5. u \in recorded[Src(i)][c] /\ u \in w .. w + d - 1 /\ w % d = 0
    BY <1>1, <1>3, <1>4 DEF CellSound
  <1>6. recorded[Src(i)][c] \subseteq Nat \ {0}
    <2>1. recorded[Src(i)][c] \subseteq Timestamps
      BY <1>1 DEF SoundInv
    <2> QED BY <2>1, ConsolidationAssumption
  <1>7. u \in Nat \ {0} /\ w <= u /\ u < w + d
    <2> HIDE DEF w, d
    <2> QED BY <1>1, <1>5, <1>6
  <1>8. WindowStart(i, u) = w
    BY <1>1, <1>5, <1>7, WindowUnique
  <1>9. u \div d = w \div d
    BY <1>7, <1>8, WindowIndex
  <1> QED BY <1>2, <1>3, <1>5, <1>7, <1>8, <1>9

(* In a ring whose windows fit, slots in order hold windows as far apart.  *)
LEMMA WindowsInLap ==
  ASSUME TwoTiers, OneColumn, SoundInv, CellsHome, NEW i \in PairIds, Dense(i),
         NEW x \in 0 .. SlotCount[Dst(i)] - 1, NEW y \in 0 .. SlotCount[Dst(i)] - 1, x <= y,
         rings[Dst(i)].timestamps[x] # 0, rings[Dst(i)].timestamps[y] # 0,
         rings[Dst(i)].timestamps[x] <= rings[Dst(i)].timestamps[y]
  PROVE  (rings[Dst(i)].timestamps[y] \div IntervalNs[Dst(i)]) + x =
         (rings[Dst(i)].timestamps[x] \div IntervalNs[Dst(i)]) + y
  <1> DEFINE d == IntervalNs[Dst(i)]
             n == SlotCount[Dst(i)]
             a == rings[Dst(i)].timestamps[x] \div d
             b == rings[Dst(i)].timestamps[y] \div d
  <1>1. /\ n \in Nat \ {0} /\ d \in Nat \ {0}
        /\ rings[Dst(i)].timestamps[x] \in Nat /\ rings[Dst(i)].timestamps[y] \in Nat
        /\ <<Dst(i)[1], 0>> = Src(i)
    BY DstShape, PairRoot DEF SoundInv, CallInv
  <1>2. a \in Nat /\ b \in Nat /\ a <= b
    BY <1>1, DivNat, DivMonotone
  <1>3. PICK c \in Columns : \E u \in recorded[Src(i)][c] : u \div d = a
    BY CellFacts
  <1>4. PICK e \in Columns : \E v \in recorded[Src(i)][e] : v \div d = b
    BY CellFacts
  <1>5. \E v \in recorded[Src(i)][c] : v \div d = b
    BY <1>4 DEF OneColumn
  <1>6. b < a + n
    BY <1>1, <1>3, <1>4, <1>5 DEF Dense, Fits
  <1>7. x = a % n /\ y = b % n
    BY CellFacts DEF SlotOf
  <1> HIDE DEF a, b, n
  <1>8. Apart(a, b, x, y)
    BY <1>1, <1>2, <1>6, <1>7, SameLap
  <1> QED BY <1>8 DEF a, b, Apart

(* Between a window at or below the cursor and a later one above it there  *)
(* is one right above the cursor, if calls have got that far.              *)
LEMMA NextFilled ==
  ASSUME FullInv, CellsHome, ConsumedKept, NEW i \in PairIds, Dense(i),
         NEW cs \in Cursors, AllConsumed(cs), BoundaryCursors(cs), CursorsKept(cs),
         NEW x \in 0 .. SlotCount[Dst(i)] - 1, NEW y \in 0 .. SlotCount[Dst(i)] - 1,
         NEW k \in 0 .. SlotCount[Dst(i)] - 1, x <= k, k < y,
         rings[Dst(i)].timestamps[x] # 0, rings[Dst(i)].timestamps[y] # 0,
         rings[Dst(i)].timestamps[x] <= rings[Dst(i)].timestamps[y],
         Before(i, cs[i], rings[Dst(i)].timestamps[y])
  PROVE  rings[Dst(i)].timestamps[k + 1] # 0
  <1> DEFINE d == IntervalNs[Dst(i)]
             e == IntervalNs[Src(i)]
             n == SlotCount[Dst(i)]
             w == rings[Dst(i)].timestamps[y]
             a == rings[Dst(i)].timestamps[x] \div d
             b == w \div d
             m == a + (k + 1 - x)
             last == cs[i]
  <1>1. /\ TwoTiers /\ OneColumn /\ SoundInv /\ SkipInv /\ RootsAligned /\ Shape
    BY FullFacts
  <1>2. /\ n \in Nat \ {0} /\ d \in Nat \ {0} /\ w \in Nat
        /\ rings[Dst(i)].timestamps[x] \in Nat
        /\ <<Dst(i)[1], 0>> = Src(i) /\ Src(i) \in Roots
        /\ e \in Nat \ {0} /\ last \in Nat
    BY <1>1, DstShape, PairRoot, PairFacts DEF Cursors
  <1>3. a \in Nat /\ b \in Nat
    BY <1>2, DivNat
  <1>4. x <= y
    OBVIOUS
  <1>5. b + x = a + y
    BY <1>1, <1>4, WindowsInLap
  <1>6. m \in Nat /\ a <= m /\ m <= b /\ m + x = a + (k + 1) /\ k + 1 \in 0 .. n - 1
    <2> HIDE DEF a, b
    <2> QED BY <1>2, <1>3, <1>5
  <1>7. a % n = x
    BY <1>1, CellFacts DEF SlotOf
  <1>8. m % n = k + 1
    <2> DEFINE q == k + 1
    <2>1. q \in 0 .. n - 1 /\ m + (a % n) = a + q
      BY <1>6, <1>7
    <2> HIDE DEF m, a, n, q
    <2>2. m % n = q
      BY <1>2, <1>3, <1>6, <2>1, StepInLap
    <2> QED BY <2>2 DEF q
  <1> HIDE DEF m
  <1>9. PICK c \in Columns : \E u \in recorded[Src(i)][c] : u \div d = a
    BY <1>1, CellFacts
  <1>10. PICK g \in Columns : \E v \in recorded[Src(i)][g] : v \div d = b
    BY <1>1, CellFacts
  <1>11. \E v \in recorded[Src(i)][c] : v \div d = b
    BY <1>1, <1>10 DEF OneColumn
  <1>12. m \in a .. b
    BY <1>3, <1>6
  <1>13. PICK t \in recorded[Src(i)][c] : t \div d = m
    BY <1>2, <1>9, <1>10, <1>11, <1>12 DEF Dense, NoEmptyWindow
  <1>14. t \in Timestamps /\ t \in Nat \ {0}
    BY <1>1, <1>2, ConsolidationAssumption DEF SkipInv
  <1>15. WindowStart(i, t) <= w
    <2>1. WindowStart(i, t) = m * d
      BY <1>13 DEF WindowStart
    <2>2. w = d * b
      <3>1. w % d = 0
        BY <1>1, CellFacts
      <3>2. w = d * b + (w % d)
        BY <1>2, DivMod
      <3> HIDE DEF w, b, d
      <3>3. d * b \in Nat
        BY <1>2, <1>3
      <3> QED BY <3>1, <3>2, <3>3
    <2> HIDE DEF w, b, d
    <2>3. m * d <= b * d /\ b * d = d * b
      BY <1>2, <1>3, <1>6
    <2> QED BY <2>1, <2>2, <2>3
  <1>16. t <= last
    <2>1. WindowStart(i, t) \in Nat /\ t < WindowStart(i, t) + d
      BY <1>14, WindowFacts
    <2>2. w + d <= last + e
      BY DEF Before
    <2>3. t % e = 0 /\ last % e = 0
      BY <1>1, <1>2, <1>14 DEF RootsAligned, CursorsKept
    <2> HIDE DEF w, d, e, last
    <2>4. last < t => last + e <= t
      BY <1>2, <1>14, <2>3, MultiplesApart
    <2> QED BY <1>2, <1>14, <1>15, <2>1, <2>2, <2>4
  <1>17. t \in consumed[i][c]
    BY <1>16 DEF AllConsumed
  <1>18. /\ rings[Dst(i)].timestamps[SlotOf(Dst(i), t)] = WindowStart(i, t)
         /\ WindowStart(i, t) # 0
    BY <1>17 DEF ConsumedKept, Holds, Dense
  <1>19. SlotOf(Dst(i), t) = k + 1
    BY <1>8, <1>13 DEF SlotOf
  <1> QED BY <1>18, <1>19

(* A window above the cursor and one at or below it that is not later:     *)
(* then what is at the cursor is not later than the first.                 *)
LEMMA CursorNotLater ==
  ASSUME TwoTiers, OneColumn, SoundInv, CellsHome, NEW i \in PairIds, Dense(i),
         NEW x \in 0 .. SlotCount[Dst(i)] - 1, NEW y \in 0 .. SlotCount[Dst(i)] - 1,
         NEW k \in 0 .. SlotCount[Dst(i)] - 1, x <= k, k < y,
         rings[Dst(i)].timestamps[x] # 0, rings[Dst(i)].timestamps[y] # 0,
         rings[Dst(i)].timestamps[x] <= rings[Dst(i)].timestamps[y]
  PROVE  rings[Dst(i)].timestamps[k] <= rings[Dst(i)].timestamps[y]
  <1> DEFINE d == IntervalNs[Dst(i)]
             T(s) == rings[Dst(i)].timestamps[s]
  <1>1. /\ d \in Nat \ {0} /\ \A s \in 0 .. SlotCount[Dst(i)] - 1 : T(s) \in Nat
        /\ SlotCount[Dst(i)] \in Nat
    BY DstShape DEF SoundInv, CallInv
  <1> SUFFICES ASSUME T(k) > T(y) PROVE FALSE
    BY <1>1
  <1>2. x <= y /\ T(k) # 0 /\ T(x) <= T(k)
    BY <1>1
  <1>3. (T(y) \div d) + x = (T(x) \div d) + y
    BY <1>2, WindowsInLap
  <1>4. (T(k) \div d) + x = (T(x) \div d) + k
    BY <1>2, WindowsInLap
  <1>5. T(y) \div d <= T(k) \div d
    BY <1>1, DivMonotone
  <1>6. T(x) \div d \in Nat /\ T(y) \div d \in Nat /\ T(k) \div d \in Nat
    BY <1>1, DivNat
  <1> HIDE DEF T, d
  <1> QED BY <1>1, <1>3, <1>4, <1>5, <1>6

(* The points a window to write was read from are in its value.            *)
LEMMA WindowTimes ==
  ASSUME TwoTiers, SoundInv, NEW i \in PairIds, NEW last \in Nat,
         NEW x \in Windows(i, last), NEW t \in x.times
  PROVE  t \in x.value /\ WindowStart(i, t) = x.window
  <1> DEFINE r == rings[Src(i)]
             n == SlotCount[Src(i)]
             range == NewRange(i, last)
             got(c) == read(r, c, range.start, range.end)
             points(c) == NewPoints(i, c, range)
             of(c, w) == {p \in points(c) : WindowStart(i, p[1]) = w}
  <1>1. /\ n \in Nat \ {0} /\ Src(i) \in Roots
        /\ r \in RingType(n, IntervalNs[Src(i)], Columns, SUBSET Timestamps)
    BY PairFacts DEF RT, TwoTiers, SoundInv, CallInv, Shape
  <1>2. PICK c \in Columns : x \in ColumnWindows(i, c, points(c))
    BY DEF Windows
  <1>3. PICK w \in {WindowStart(i, p[1]) : p \in points(c)} :
           x = [window |-> w, column |-> c,
                value  |-> UNION {p[2] : p \in of(c, w)},
                times  |-> {p[1] : p \in of(c, w)}]
    BY <1>2 DEF ColumnWindows
  <1>4. points(c) = {got(c)[k] : k \in DOMAIN got(c)}
    <2>1. points(c) # {}
      BY <1>3
    <2> QED BY <2>1 DEF NewPoints
  <1>5. \A p \in points(c) : \E s \in 0 .. n - 1 :
          p = <<r.timestamps[s], r.values[s][c]>> /\ r.values[s][c] # NaN
    <2> SUFFICES ASSUME NEW k \in DOMAIN got(c)
                 PROVE  \E s \in 0 .. n - 1 :
                          got(c)[k] = <<r.timestamps[s], r.values[s][c]>> /\ r.values[s][c] # NaN
      BY <1>4
    <2> QED BY <1>1, ReadSound
  <1> HIDE DEF points
  <1>6. x.value = UNION {p[2] : p \in of(c, w)} /\ x.times = {p[1] : p \in of(c, w)}
        /\ x.window = w
    BY <1>3
  <1>7. PICK p \in of(c, w) : p[1] = t
    BY <1>6
  <1>8. PICK s \in 0 .. n - 1 :
          p = <<r.timestamps[s], r.values[s][c]>> /\ r.values[s][c] # NaN
    BY <1>5, <1>7
  <1>9. PICK u : u \in r.values[s][c]
    BY <1>8, ConsolidationAssumption
  <1>10. u = r.timestamps[s]
    BY <1>1, <1>9, RootCell
  <1>11. p[1] = r.timestamps[s] /\ p[2] = r.values[s][c]
    BY <1>8
  <1>12. t \in p[2]
    BY <1>7, <1>9, <1>10, <1>11
  <1> QED BY <1>6, <1>7, <1>12

(* A window of pair i that is not before the cursor holds later points.    *)
LEMMA AfterCursor ==
  ASSUME NEW i \in PairIds, NEW last \in Nat, last = 0 \/ EndsWindow(i, last),
         NEW t \in Nat \ {0}, ~Before(i, last, WindowStart(i, t))
  PROVE  t > last
  <1> DEFINE a == IntervalNs[Src(i)]
             d == IntervalNs[Dst(i)]
             w == WindowStart(i, t)
             e == last + a
  <1>1. /\ a \in Nat \ {0} /\ d \in Nat \ {0} /\ w \in Nat /\ w <= t /\ w % d = 0
        /\ e \in Nat
    <2>1. a \in Nat \ {0} /\ d \in Nat \ {0}
      BY PairFacts
    <2>2. w \in Nat /\ w <= t
      BY WindowFacts
    <2>3. w % d = 0
      BY WindowIndex
    <2> QED BY <2>1, <2>2, <2>3
  <1>2. ~(w + d <= e)
    BY DEF Before
  <1>3. last # 0 => e % d = 0
    BY DEF EndsWindow
  <1> HIDE DEF w, d, e
  <1>4. last # 0 => ~(w < e)
    BY <1>1, <1>2, <1>3, MultiplesApart
  <1> HIDE DEF a
  <1> QED BY <1>1, <1>4 DEF e

-----------------------------------------------------------------------------
(* Every step keeps the invariant.                                         *)

(* A pair is entered with what is to write right, and whatever a call has  *)
(* not finished among it.                                                  *)
LEMMA EnterRight ==
  ASSUME FullInv, CellsHome, cursorFile # EmptyFile, KeepsUp,
         \A j \in PairIds : EndsWindow(j, Newest(j)),
         NEW i \in PairIds, NEW cs \in Cursors, BoundaryCursors(cs), CursorsKept(cs),
         \A j \in PairIds : cs[j] >= cursorFile[j],
         job' = Enter(i, cs), rings' = rings
  PROVE  TodoRight' /\ Ahead'
  <1>1. /\ TwoTiers /\ TiersNest /\ RootsAligned /\ SoundInv /\ SkipInv /\ Shape
        /\ Src(i) \in Roots /\ RootInv(Src(i))
        /\ recorded \in [Roots -> [Columns -> SUBSET Timestamps]]
    BY FullFacts DEF SkipInv, TwoTiers
  <1>2. job'.pair = i /\ job'.todo = Windows(i, cs[i]) /\ job'.cursors = cs
    BY <1>1, EnterFacts
  <1>3. PICK last \in Nat : last = cs[i]
    BY DEF Cursors
  <1>4. /\ last = 0 \/ EndsWindow(i, last)
        /\ last >= cursorFile[i] /\ last % IntervalNs[Src(i)] = 0
        /\ cursorFile[i] \in Nat
    BY <1>1, <1>3 DEF Cursors, BoundaryCursors, CursorsKept, Shape
  <1>5. ASSUME NEW x \in Windows(i, last)
        PROVE  /\ x.value # {}
               /\ ~Before(i, last, x.window)
               /\ \A t \in x.times : t \in x.value /\ WindowStart(i, t) = x.window
    <2>1. \A t \in x.times : t \in x.value /\ WindowStart(i, t) = x.window
      BY <1>1, WindowTimes
    <2>2. x.window \in Nat /\ (last = 0 \/ last + IntervalNs[Src(i)] <= x.window)
      BY <1>1, <1>4, WindowsClosed
    <2>3. /\ IntervalNs[Src(i)] \in Nat \ {0} /\ IntervalNs[Dst(i)] \in Nat \ {0}
          /\ IntervalNs[Src(i)] < IntervalNs[Dst(i)]
      <3>1. IntervalNs[Pairs[i][1]] < IntervalNs[Pairs[i][2]]
        BY ConsolidationAssumption, SMTT(30) DEF PairIds
      <3> QED BY <3>1, PairFacts DEF Src, Dst
    <2>4. ~Before(i, last, x.window)
      BY <2>2, <2>3 DEF Before
    <2>5. x.value # {}
      BY <1>1, WindowsFacts, PairFacts DEF Shape
    <2> QED BY <2>1, <2>4, <2>5
  <1>6. TodoRight'
    BY <1>2, <1>3, <1>5 DEF TodoRight, Before
  <1>7. ASSUME NEW s \in 0 .. SlotCount[Dst(i)] - 1, rings[Dst(i)].timestamps[s] # 0,
               ~Before(i, last, rings[Dst(i)].timestamps[s])
        PROVE  \E x \in Windows(i, last) : x.window = rings[Dst(i)].timestamps[s]
    <2>1. PICK c \in Columns :
            \E u \in recorded[Src(i)][c] :
              u \in Nat \ {0} /\ WindowStart(i, u) = rings[Dst(i)].timestamps[s]
      BY <1>1, <1>7, CellFacts
    <2>2. PICK u \in recorded[Src(i)][c] :
            u \in Nat \ {0} /\ WindowStart(i, u) = rings[Dst(i)].timestamps[s]
      BY <2>1
    <2>3. u > last
      BY <1>4, <1>7, <2>2, AfterCursor
    <2>4. u > cursorFile[i]
      BY <1>4, <2>2, <2>3
    <2>5. u \in Retained(Src(i), c) /\ Known(Src(i))
      BY <1>1, <2>2, <2>4 DEF KeepsUp, Known
    <2>6. PICK x \in Windows(i, last) : x.column = c /\ u \in x.times
      BY <1>1, <1>4, <2>3, <2>5, WindowsCover
    <2> QED BY <1>5, <2>2, <2>6
  <1>8. Ahead'
    BY <1>2, <1>3, <1>7 DEF Ahead, Before
  <1> QED BY <1>6, <1>8

(* A step that neither records nor writes a window.                        *)
CellsQuiet ==
  /\ \A q \in RingIds : /\ rings'[q].write_cursor = rings[q].write_cursor
                        /\ rings'[q].timestamps = rings[q].timestamps
                        /\ rings'[q].values = rings[q].values
  /\ recorded' = recorded /\ consumed' = consumed

(* It keeps what it leaves alone.                                          *)
LEMMA QuietCells ==
  ASSUME ConsumedKept, RootsKept, CellsHome, CellsQuiet
  PROVE  ConsumedKept' /\ RootsKept' /\ CellsHome'
  <1>1. \A i \in PairIds : Dst(i) \in RingIds
    BY PairFacts
  <1>2. ConsumedKept'
    BY <1>1 DEF ConsumedKept, CellsQuiet, Fits, Holds
  <1>3. RootsKept'
    BY DEF RootsKept, CellsQuiet, Fits, Holds, Roots
  <1>4. CellsHome'
    BY <1>1 DEF CellsHome, CellsQuiet, newest_timestamp
  <1> QED BY <1>2, <1>3, <1>4

(* Cursors that do not go back show no less.                               *)
LEMMA EarlierShown ==
  ASSUME NEW i \in PairIds, NEW q, NEW a \in Nat, NEW b \in Nat, a <= b, NoneHidden(i, q, b),
         \A s \in 0 .. SlotCount[Dst(i)] - 1 : q.timestamps[s] \in Nat
  PROVE  NoneHidden(i, q, a)
  <1>1. IntervalNs[Src(i)] \in Nat /\ IntervalNs[Dst(i)] \in Nat
    BY PairFacts
  <1>2. \A s \in 0 .. SlotCount[Dst(i)] - 1 :
          Before(i, a, q.timestamps[s]) => Before(i, b, q.timestamps[s])
    BY <1>1 DEF Before
  <1> QED BY <1>2 DEF NoneHidden

(* The same cursors are current after a step that leaves the rings alone.  *)
LEMMA QuietCurrent ==
  ASSUME CellsQuiet, rings' = rings, NEW cs, Current(cs)
  PROVE  Current(cs)'
  <1>1. rings' = rings /\ recorded' = recorded /\ consumed' = consumed
    BY DEF CellsQuiet
  <1>2. AllConsumed(cs)'
    BY <1>1 DEF Current, AllConsumed
  <1>3. \A i \in PairIds : Dense(i)' => Dense(i)
    BY <1>1 DEF Dense, Fits, NoEmptyWindow
  <1>4. AllShown(cs)'
    BY <1>1, <1>3 DEF Current, AllShown, NoneHidden, Before
  <1> QED BY <1>2, <1>4 DEF Current

(* The beginning of a call.                                                *)
LEMMA StartRight ==
  ASSUME AnswerInv, StartConsolidation, ClosesWindows, KeepsUp
  PROVE  QueryInv'
  <1>1. TwoTiers /\ Shape /\ SkipInv /\ FullInv /\ QueryInv
    BY FullFacts DEF AnswerInv
  <1>2. /\ cursorFile # EmptyFile /\ job' = Enter(1, cursorFile) /\ cursorFile' = cursorFile
        /\ rings' = rings /\ recorded' = recorded /\ consumed' = consumed
    BY DEF StartConsolidation
  <1>3. PICK cs \in Cursors : cs = cursorFile
    BY <1>1, <1>2 DEF Shape
  <1>4. BoundaryCursors(cs) /\ CursorsKept(cs) /\ \A j \in PairIds : cs[j] >= cursorFile[j]
    BY <1>1, <1>2, <1>3 DEF FullInv, BoundaryInv, SkipInv, Good, Cursors
  <1>5. \A j \in PairIds : EndsWindow(j, Newest(j))
    BY <1>1 DEF ClosesWindows, TwoTiers, EndsWindow, Newest
  <1>6. job' = Enter(1, cs) /\ job'.cursors = cs
    BY <1>1, <1>2, <1>3, FirstPair, EnterFacts
  <1>7. TodoRight' /\ Ahead'
    BY <1>1, <1>2, <1>4, <1>5, <1>6, FirstPair, EnterRight DEF QueryInv
  <1>8. CellsQuiet
    BY <1>2 DEF CellsQuiet
  <1>9. ConsumedKept' /\ RootsKept' /\ CellsHome'
    BY <1>1, <1>8, QuietCells DEF QueryInv
  <1>10. Current(cs)'
    BY <1>1, <1>2, <1>3, <1>8, QuietCurrent DEF QueryInv
  <1>11. Current(cursorFile)' /\ Current(job.cursors)'
    BY <1>2, <1>3, <1>6, <1>10 DEF Current, AllConsumed, AllShown
  <1> QED BY <1>7, <1>9, <1>11 DEF QueryInv

(* A pair is done: all its points are consumed, and nothing newer than the *)
(* window at the cursor is above it.                                       *)
LEMMA FinishCurrent ==
  ASSUME AnswerInv, job \in PairJobs, job.todo = {}, NEW cs \in Cursors, NEW i \in PairIds,
         i = job.pair, \A j \in PairIds : cs[j] = job.cursors[j] \/ (j = i /\ cs[j] = Newest(i))
  PROVE  Current(cs)
  <1>1. /\ TwoTiers /\ Shape /\ SkipInv /\ CallInv /\ StillInTime /\ QueryInv
        /\ recorded \in [Roots -> [Columns -> SUBSET Timestamps]]
    BY FullFacts DEF AnswerInv, SkipInv
  <1>2. job.at = "pair" /\ job # Idle /\ job.cursors \in Cursors
    BY DEF PairJobs, Idle
  <1>3. /\ KeepsUp /\ cursorFile # EmptyFile /\ cursorFile \in Cursors /\ Src(i) \in Roots
        /\ Current(job.cursors)
    BY <1>1, <1>2 DEF StillInTime, AnswerInv, FullInv, BoundaryInv, Shape, TwoTiers, QueryInv
  <1>4. AllConsumed(cs)
    <2> SUFFICES ASSUME NEW j \in PairIds, NEW c \in Columns, NEW t \in recorded[Src(j)][c],
                        t <= cs[j], t \notin consumed[j][c]
                 PROVE  FALSE
      BY DEF AllConsumed
    <2>1. ~(t <= job.cursors[j])
      BY <1>3 DEF Current, AllConsumed
    <2>2. j = i
      BY <2>1
    <2>3. t \in Nat
      <3>1. recorded[Src(i)][c] \subseteq Timestamps
        BY <1>1, <1>3
      <3> QED BY <2>2, <3>1, ConsolidationAssumption
    <2>4. t > job.cursors[i] /\ t > cursorFile[i]
      <3>1. job.cursors[i] \in Nat /\ cursorFile[i] \in Nat /\ job.cursors[i] >= cursorFile[i]
        BY <1>1, <1>2, <1>3 DEF CallInv, CursorInv, Cursors
      <3> QED BY <2>1, <2>2, <2>3, <3>1
    <2>5. t \in Retained(Src(i), c) /\ Known(Src(i))
      BY <1>3, <2>2, <2>4 DEF KeepsUp, Known
    <2> QED BY <1>1, <1>2, <1>3, <2>2, <2>4, <2>5 DEF SkipInv, TodoCovers
  <1>5. AllShown(cs)
    <2> SUFFICES ASSUME NEW j \in PairIds, Dense(j)
                 PROVE  NoneHidden(j, rings[Dst(j)], cs[j])
      BY DEF AllShown
    <2>1. NoneHidden(j, rings[Dst(j)], job.cursors[j])
      BY <1>3 DEF Current, AllShown
    <2>2. CASE j = i
      <3>1. \A s \in 0 .. SlotCount[Dst(i)] - 1 :
              /\ ~rings[Dst(i)].has_wrapped
              /\ s > rings[Dst(i)].write_cursor /\ rings[Dst(i)].timestamps[s] # 0
              => Before(i, job.cursors[i], rings[Dst(i)].timestamps[s])
        BY <1>1, <1>2 DEF QueryInv, Ahead
      <3> QED BY <2>1, <2>2, <3>1 DEF NoneHidden
    <2> QED BY <2>1, <2>2
  <1> QED BY <1>4, <1>5 DEF Current

(* The end of a pair.                                                      *)
LEMMA FinishRight ==
  ASSUME AnswerInv, FinishPair
  PROVE  QueryInv'
  <1>1. TwoTiers /\ Shape /\ SkipInv /\ CallInv /\ StillInTime /\ AlignedInv /\ FullInv /\ QueryInv
    BY FullFacts DEF AnswerInv, FullInv
  <1>0. PICK i : i = job.pair
    OBVIOUS
  <1>2. PICK cs \in Cursors :
          /\ job \in PairJobs /\ job.todo = {}
          /\ \A j \in PairIds : cs[j] >= job.cursors[j]
          /\ cs = IF job.ops > 0 THEN [job.cursors EXCEPT ![i] = Newest(i)] ELSE job.cursors
          /\ \/ /\ i + 1 \in PairIds /\ job' = Enter(i + 1, cs)
             \/ job' = [at |-> "save", cursors |-> cs]
          /\ rings' = rings /\ cursorFile' = cursorFile
          /\ recorded' = recorded /\ consumed' = consumed
    BY <1>0, <1>1, FinishEffect DEF Newest
  <1>3. /\ i \in PairIds /\ job.at = "pair" /\ job # Idle /\ job.cursors \in Cursors
    BY <1>0, <1>2 DEF PairJobs, Idle
  <1>4. /\ cursorFile # EmptyFile /\ cursorFile \in Cursors
        /\ KeepsUp /\ \A j \in PairIds : EndsWindow(j, Newest(j))
    BY <1>1, <1>3 DEF FullInv, BoundaryInv, StillInTime, Shape
  <1>5. job'.cursors = cs /\ job' # Idle
    <2>1. CASE job' = [at |-> "save", cursors |-> cs]
      BY <2>1 DEF Idle
    <2>2. CASE i + 1 \in PairIds /\ job' = Enter(i + 1, cs)
      <3>1. job' \in PairJobs /\ job'.cursors = cs
        BY <1>1, <2>2, EnterFacts
      <3> QED BY <3>1 DEF PairJobs, Idle
    <2> QED BY <1>2, <2>1, <2>2
  <1>6. CursorsKept(cs) /\ BoundaryCursors(cs)
    <2>1. SkipInv' /\ BoundaryInv'
      BY <1>1, FinishCovers, FinishFull
    <2>2. CursorsKept(job.cursors)' /\ BoundaryCursors(job.cursors)'
      BY <1>5, <2>1 DEF SkipInv, Good, BoundaryInv
    <2> QED BY <1>2, <1>5, <2>2 DEF CursorsKept, BoundaryCursors, EndsWindow
  <1>7. \A j \in PairIds : cs[j] >= cursorFile[j]
    BY <1>1, <1>2, <1>3, <1>4 DEF CallInv, CursorInv, Cursors
  <1>8. TodoRight' /\ Ahead'
    <2>1. CASE job' = [at |-> "save", cursors |-> cs]
      BY <2>1 DEF TodoRight, Ahead
    <2>2. CASE i + 1 \in PairIds /\ job' = Enter(i + 1, cs)
      BY <1>1, <1>2, <1>4, <1>6, <1>7, <2>2, EnterRight DEF QueryInv
    <2> QED BY <1>2, <2>1, <2>2
  <1>9. CellsQuiet
    BY <1>2 DEF CellsQuiet
  <1>10. ConsumedKept' /\ RootsKept' /\ CellsHome'
    BY <1>1, <1>9, QuietCells DEF QueryInv
  <1>11. Current(cs)'
    <2>1. \A j \in PairIds : cs[j] = job.cursors[j] \/ (j = i /\ cs[j] = Newest(i))
      BY <1>2, <1>3 DEF Cursors
    <2>2. Current(cs)
      BY <1>0, <1>2, <1>3, <2>1, FinishCurrent
    <2> QED BY <1>2, <1>9, <2>2, QuietCurrent
  <1>12. Current(cursorFile)'
    <2>1. PICK f \in Cursors : f = cursorFile
      BY <1>4
    <2>2. Current(f)'
      BY <1>1, <1>2, <1>4, <1>9, <2>1, QuietCurrent DEF QueryInv
    <2> QED BY <1>2, <2>1, <2>2 DEF Current, AllConsumed, AllShown
  <1>13. Current(job.cursors)'
    BY <1>5, <1>11 DEF Current, AllConsumed, AllShown
  <1> QED BY <1>8, <1>10, <1>12, <1>13 DEF QueryInv

(* A start sees that the ring has wrapped if the slot after the cursor is  *)
(* filled.                                                                 *)
LEMMA ReopenSees ==
  ASSUME Shape, NEW q \in RingIds,
         rings[q].write_cursor + 1 \in 0 .. SlotCount[q] - 1,
         rings[q].timestamps[rings[q].write_cursor + 1] # 0
  PROVE  reopen(rings[q]).has_wrapped
  <1> DEFINE r == rings[q]
             k == r.write_cursor
             n == SlotCount[q]
             b == k + 1
  <1>1. n \in Nat \ {0} /\ k \in 0 .. n - 1 /\ r.slot_count = n /\ Slots(r) = 0 .. n - 1
    BY ConsolidationAssumption DEF Shape, RT, RingType, Slots
  <1>2. b \in 0 .. n - 1 /\ (k + 1) % n = b
    <2>1. b \in 0 .. n - 1
      OBVIOUS
    <2> HIDE DEF b, n
    <2>2. b % n = b
      BY <1>1, <2>1, ModSmall
    <2> QED BY <2>1, <2>2 DEF b
  <1>3. r.timestamps[b] # 0
    OBVIOUS
  <1>4. (IF k = 0 THEN 1 ELSE (k + 1) % r.slot_count) = b
    <2>1. k = 0 => b = 1
      OBVIOUS
    <2> HIDE DEF k, n, b, r
    <2> QED BY <1>1, <1>2, <2>1
  <1>5. reopen(r).has_wrapped = (b \in Slots(r) /\ r.timestamps[b] # 0)
    BY <1>4 DEF reopen
  <1> HIDE DEF b, n, r
  <1>6. reopen(r).has_wrapped
    BY <1>1, <1>2, <1>3, <1>5
  <1> QED BY <1>6 DEF r

(* So it hides no window at or before the cursors.                         *)
LEMMA CrashShows ==
  ASSUME AnswerInv, Crash, NEW cs \in Cursors,
         AllConsumed(cs), BoundaryCursors(cs), CursorsKept(cs)
  PROVE  AllShown(cs)'
  <1>1. /\ TwoTiers /\ OneColumn /\ SoundInv /\ Shape /\ FullInv /\ CellsHome /\ ConsumedKept
    BY FullFacts DEF AnswerInv, QueryInv
  <1>2. recorded' = recorded
    BY DEF Crash
  <1>3. \A i \in PairIds : Dense(i)' => Dense(i)
    BY <1>2 DEF Dense, Fits, NoEmptyWindow
  <1>4. ASSUME NEW i \in PairIds, Dense(i)
        PROVE  NoneHidden(i, rings'[Dst(i)], cs[i])
    <2> DEFINE q == rings[Dst(i)]
               k == q.write_cursor
               n == SlotCount[Dst(i)]
    <2>1. /\ Dst(i) \in RingIds /\ n \in Nat \ {0} /\ k \in 0 .. n - 1
          /\ q.timestamps \in [0 .. n - 1 -> Nat]
          /\ newest_timestamp(q) = q.timestamps[k]
      BY <1>1, DstShape
    <2>2. /\ rings'[Dst(i)] = reopen(q)
          /\ rings'[Dst(i)].write_cursor = k /\ rings'[Dst(i)].timestamps = q.timestamps
      BY <1>1, <2>1, CrashEffect DEF Crash
    <2>3. newest_timestamp(rings'[Dst(i)]) = newest_timestamp(q)
      BY <2>2 DEF newest_timestamp
    <2> SUFFICES ASSUME ~reopen(q).has_wrapped, NEW s \in 0 .. n - 1, s > k,
                        q.timestamps[s] # 0, Before(i, cs[i], q.timestamps[s]),
                        ~(q.timestamps[s] < newest_timestamp(q))
                 PROVE  FALSE
      BY <2>2, <2>3 DEF NoneHidden
    <2>4. q.timestamps[k] # 0 /\ q.timestamps[k] <= q.timestamps[s]
      BY <2>1, SMTT(30) DEF CellsHome, QueryInv, AnswerInv
    <2>5. q.timestamps[k + 1] # 0
      <3>1. /\ k \in 0 .. SlotCount[Dst(i)] - 1 /\ s \in 0 .. SlotCount[Dst(i)] - 1
            /\ k <= k /\ k < s
            /\ rings[Dst(i)].timestamps[k] # 0 /\ rings[Dst(i)].timestamps[s] # 0
            /\ rings[Dst(i)].timestamps[k] <= rings[Dst(i)].timestamps[s]
            /\ Before(i, cs[i], rings[Dst(i)].timestamps[s])
        BY <2>1, <2>4
      <3> HIDE DEF k
      <3> QED BY <1>1, <1>4, <3>1, NextFilled, ZenonT(60)
    <2>6. k + 1 \in 0 .. n - 1
      BY <2>1
    <2>7. reopen(q).has_wrapped
      BY <1>1, <2>1, <2>5, <2>6, ReopenSees
    <2> QED BY <2>7
  <1>5. \A i \in PairIds : Dense(i)' => NoneHidden(i, rings'[Dst(i)], cs[i])
    BY <1>3, <1>4
  <1> QED BY <1>5 DEF AllShown, NoneHidden, Before

(* The end of a call.                                                      *)
LEMMA EndRight ==
  ASSUME AnswerInv, SaveCursors \/ SaveFails \/ Fail \/ Crash
  PROVE  QueryInv'
  <1>1. TwoTiers /\ Shape /\ SkipInv /\ FullInv /\ QueryInv
    BY FullFacts DEF AnswerInv
  <1>2. /\ job' = Idle /\ recorded' = recorded /\ consumed' = consumed
        /\ \A q \in RingIds : /\ rings'[q].write_cursor = rings[q].write_cursor
                              /\ rings'[q].timestamps = rings[q].timestamps
                              /\ rings'[q].values = rings[q].values
        /\ rings' = rings \/ Crash
        /\ \/ cursorFile' \in {cursorFile, EmptyFile}
           \/ job \in SaveJobs /\ cursorFile' = job.cursors
    <2>1. CASE Crash
      BY <1>1, <2>1, CrashEffect
    <2>2. CASE SaveCursors \/ SaveFails \/ Fail
      BY <1>1, <2>2, JobFacts DEF SaveCursors, SaveFails, Fail
    <2> QED BY <2>1, <2>2
  <1>3. CellsQuiet
    BY <1>2 DEF CellsQuiet
  <1>4. ConsumedKept' /\ RootsKept' /\ CellsHome'
    BY <1>1, <1>3, QuietCells DEF QueryInv
  <1>5. TodoRight' /\ Ahead'
    BY <1>2 DEF TodoRight, Ahead, Idle
  <1>6. ASSUME cursorFile' # EmptyFile
        PROVE  Current(cursorFile)'
    <2>1. PICK cs \in Cursors :
            /\ cs = cursorFile' /\ Current(cs) /\ BoundaryCursors(cs) /\ CursorsKept(cs)
      <3>1. CASE cursorFile' = cursorFile
        BY <1>1, <1>6, <3>1 DEF Shape, QueryInv, FullInv, BoundaryInv, SkipInv, Good
      <3>2. CASE job \in SaveJobs /\ cursorFile' = job.cursors
        <4>1. job # Idle /\ job.cursors \in Cursors
          BY <3>2 DEF SaveJobs, Idle
        <4> QED BY <1>1, <3>2, <4>1 DEF QueryInv, FullInv, BoundaryInv, SkipInv, Good
      <3> QED BY <1>2, <1>6, <3>1, <3>2
    <2>2. Current(cs)'
      <3>1. CASE rings' = rings
        BY <1>3, <2>1, <3>1, QuietCurrent
      <3>2. CASE Crash
        <4>1. AllShown(cs)'
          BY <2>1, <3>2, CrashShows DEF Current
        <4>2. AllConsumed(cs)'
          BY <1>2, <2>1 DEF Current, AllConsumed
        <4> QED BY <4>1, <4>2 DEF Current
      <3> QED BY <1>2, <3>1, <3>2
    <2>3. AllConsumed(cursorFile)' /\ AllShown(cursorFile)'
      BY <2>1, <2>2 DEF Current, AllConsumed, AllShown
    <2> QED BY <2>3 DEF Current
  <1> QED BY <1>2, <1>4, <1>5, <1>6 DEF QueryInv

(* Two points in one slot of a ring they fit into are in one window.       *)
LEMMA SameSlotSameWindow ==
  ASSUME TwoTiers, recorded \in [Roots -> [Columns -> SUBSET Timestamps]],
         NEW i \in PairIds, NEW c \in Columns, Fits(Dst(i), c),
         NEW t \in recorded[Src(i)][c], NEW u \in recorded[Src(i)][c],
         SlotOf(Dst(i), t) = SlotOf(Dst(i), u)
  PROVE  WindowStart(i, t) = WindowStart(i, u)
  <1> DEFINE d == IntervalNs[Dst(i)]
             n == SlotCount[Dst(i)]
             a == t \div d
             b == u \div d
  <1>1. /\ n \in Nat \ {0} /\ d \in Nat \ {0} /\ <<Dst(i)[1], 0>> = Src(i) /\ Src(i) \in Roots
    BY PairFacts, PairRoot
  <1>2. t \in Nat /\ u \in Nat
    <2>1. recorded[Src(i)][c] \subseteq Timestamps
      BY <1>1
    <2> QED BY <2>1, ConsolidationAssumption
  <1>3. a \in Nat /\ b \in Nat
    BY <1>1, <1>2, DivNat
  <1>4. a < b + n /\ b < a + n
    BY <1>1 DEF Fits
  <1>5. a % n = b % n
    BY DEF SlotOf
  <1> HIDE DEF a, b, n
  <1>6. a < b => a + n <= b
    BY <1>1, <1>3, <1>5, ModDistinct
  <1>7. b < a => b + n <= a
    BY <1>1, <1>3, <1>5, ModDistinct
  <1>8. a = b
    BY <1>1, <1>3, <1>4, <1>6, <1>7
  <1> QED BY <1>8 DEF a, b, WindowStart

(* A window to write: a later window, of points that were recorded, all of *)
(* those recorded in it.                                                   *)
LEMMA TodoFacts ==
  ASSUME AnswerInv, job \in PairJobs, NEW i \in PairIds, i = job.pair,
         NEW x \in job.todo
  PROVE  /\ x \in WindowWrites /\ x.window \in Nat /\ x.window % IntervalNs[Dst(i)] = 0
         /\ x.value # {} /\ ~Before(i, job.cursors[i], x.window)
         /\ \A t \in x.times : t \in x.value /\ WindowStart(i, t) = x.window
         /\ \A u \in x.value : u \in recorded[Src(i)][x.column] /\ u \in Nat
                               /\ WindowStart(i, u) = x.window
         /\ \A u \in recorded[Src(i)][x.column] : WindowStart(i, u) = x.window => u \in x.value
  <1> DEFINE d == IntervalNs[Dst(i)]
             w == x.window
             raw == recorded[Src(i)][x.column]
  <1>1. /\ TwoTiers /\ SoundInv /\ TodoFull /\ QueryInv /\ job.at = "pair"
        /\ x \in WindowWrites
    BY FullFacts DEF AnswerInv, PairJobs
  <1>2. /\ w \in Nat /\ x.column \in Columns /\ d \in Nat \ {0} /\ Src(i) \in Roots
        /\ Dst(i) \notin Roots /\ RootOf(Dst(i)) = Src(i)
    BY <1>1, PairFacts, PairRoot DEF WindowWrites, RootOf
  <1>3. /\ x.value # {} /\ ~Before(i, job.cursors[i], w)
        /\ \A t \in x.times : t \in x.value /\ WindowStart(i, t) = w
    BY <1>1 DEF QueryInv, TodoRight
  <1>4. CellSound(Dst(i), raw, w, x.value)
    BY <1>1, <1>2 DEF SoundInv, TodoSound
  <1>5. raw \subseteq Nat
    <2>1. raw \subseteq Timestamps
      BY <1>1, <1>2 DEF SoundInv
    <2> QED BY <2>1, ConsolidationAssumption
  <1>6. \A u \in x.value : u \in raw /\ u \in w .. w + d - 1
    BY <1>4 DEF CellSound
  <1>7. w % d = 0
    BY <1>2, <1>4 DEF CellSound
  <1>8. ASSUME NEW u \in x.value
        PROVE  u \in Nat /\ WindowStart(i, u) = w
    <2>1. u \in Nat /\ w <= u /\ u < w + d
      <3> HIDE DEF w, d, raw
      <3> QED BY <1>2, <1>5, <1>6
    <2> QED BY <1>2, <1>7, <2>1, WindowUnique
  <1>9. ASSUME NEW u \in raw, WindowStart(i, u) = w
        PROVE  u \in x.value
    <2>1. u \in Nat /\ w <= u /\ u < w + d
      BY <1>5, <1>9, WindowFacts
    <2>2. u \in w .. w + d - 1
      <3> HIDE DEF w, d
      <3> QED BY <1>2, <2>1
    <2>3. FullCell(i, raw, Newest(i), w, x.value)
      BY <1>1 DEF TodoFull
    <2> QED BY <1>3, <2>2, <2>3 DEF FullCell
  <1> QED BY <1>1, <1>2, <1>3, <1>6, <1>7, <1>8, <1>9

(* A window write.                                                         *)
LEMMA WriteRight ==
  ASSUME AnswerInv, WriteWindow
  PROVE  QueryInv'
  <1>1. /\ TwoTiers /\ OneColumn /\ Shape /\ SoundInv /\ SkipInv /\ CallInv /\ QueryInv
        /\ recorded \in [Roots -> [Columns -> SUBSET Timestamps]]
        /\ consumed \in [PairIds -> [Columns -> SUBSET Nat]]
    BY FullFacts DEF AnswerInv, SkipInv
  <1>0. PICK i : i = job.pair
    OBVIOUS
  <1>2. PICK x \in job.todo :
          /\ job \in PairJobs /\ x \in WindowWrites /\ x.window # 0
          /\ \A p \in RingIds : p # Dst(i) => rings'[p] = rings[p]
          /\ SlotOf(Dst(i), x.window) \in Slots(rings[Dst(i)])
          /\ Wrote(rings'[Dst(i)], rings[Dst(i)], SlotOf(Dst(i), x.window),
                   x.column, x.value, x.window)
          /\ job' \in PairJobs /\ job'.pair = i /\ job'.cursors = job.cursors
          /\ job'.todo = job.todo \ {x}
          /\ consumed' = [consumed EXCEPT ![i][x.column] = @ \cup x.times]
          /\ cursorFile' = cursorFile /\ recorded' = recorded
    BY <1>0, <1>1, WriteEffect
  <1>3. /\ i \in PairIds /\ job.at = "pair" /\ job # Idle /\ x.column \in Columns
        /\ job'.at = "pair" /\ job' # Idle /\ job.cursors \in Cursors /\ x.window \in Nat
    BY <1>0, <1>2 DEF PairJobs, WindowWrites, Idle
  <1> DEFINE old == rings[Dst(i)]
             new == rings'[Dst(i)]
             n == SlotCount[Dst(i)]
             s0 == SlotOf(Dst(i), x.window)
  <1>4. /\ \A r \in Roots : rings'[r] = rings[r]
        /\ \A j \in PairIds : j # i => rings'[Dst(j)] = rings[Dst(j)]
    BY <1>2, <1>3, PairFacts, OneSource DEF Roots
  <1>5. /\ x.window % IntervalNs[Dst(i)] = 0
        /\ x.value # {} /\ ~Before(i, job.cursors[i], x.window)
        /\ \A t \in x.times : t \in x.value /\ WindowStart(i, t) = x.window
        /\ \A u \in x.value : u \in recorded[Src(i)][x.column] /\ u \in Nat
                              /\ WindowStart(i, u) = x.window
        /\ \A u \in recorded[Src(i)][x.column] : WindowStart(i, u) = x.window => u \in x.value
    BY <1>0, <1>2, <1>3, TodoFacts
  <1>6. /\ s0 \in 0 .. n - 1 /\ old.write_cursor \in 0 .. n - 1 /\ n \in Nat \ {0}
        /\ old.timestamps \in [0 .. n - 1 -> Nat]
        /\ new.write_cursor = s0 /\ new.timestamps[s0] = x.window
        /\ new.values[s0][x.column] = x.value
        /\ \A s \in 0 .. n - 1 : s # s0 =>
             new.timestamps[s] = old.timestamps[s] /\ new.values[s] = old.values[s]
        /\ new.has_wrapped <=> (old.has_wrapped \/ s0 < old.write_cursor)
        /\ newest_timestamp(new) = x.window
    <2>1. /\ Slots(old) = 0 .. n - 1 /\ old.write_cursor \in 0 .. n - 1 /\ n \in Nat \ {0}
          /\ old.timestamps \in [0 .. n - 1 -> Nat]
      BY <1>1, <1>3, DstShape
    <2> QED BY <1>2, <1>3, <2>1 DEF Wrote, newest_timestamp
  <1>7. \A c \in Columns : c = x.column
    BY <1>1, <1>3 DEF OneColumn
  <1>8. /\ consumed'[i][x.column] = consumed[i][x.column] \cup x.times
        /\ \A j \in PairIds, c \in Columns : j # i => consumed'[j][c] = consumed[j][c]
    BY <1>1, <1>2, <1>3
  <1> HIDE DEF old, new, n
  <1>9. TodoRight'
    BY <1>0, <1>1, <1>2, <1>3 DEF QueryInv, TodoRight, Before
  <1>10. Ahead'
    <2> SUFFICES ASSUME ~new.has_wrapped, NEW s \in 0 .. n - 1, s > s0, new.timestamps[s] # 0
                 PROVE  \/ Before(i, job.cursors[i], new.timestamps[s])
                        \/ \E y \in job.todo \ {x} : y.window = new.timestamps[s]
      BY <1>2, <1>6 DEF Ahead, Before, new, n
    <2>1. s # s0 /\ ~old.has_wrapped /\ s > old.write_cursor
      BY <1>6
    <2>2. new.timestamps[s] = old.timestamps[s]
      BY <1>6, <2>1
    <2>3. \/ Before(i, job.cursors[i], old.timestamps[s])
          \/ \E y \in job.todo : y.window = old.timestamps[s]
      BY <1>0, <1>1, <1>3, <2>1, <2>2 DEF QueryInv, Ahead, old, n
    <2>4. old.timestamps[s] # x.window
      <3>1. SlotOf(Dst(i), old.timestamps[s]) = s
        BY <1>1, <1>3, <2>2 DEF QueryInv, CellsHome, old, n
      <3> QED BY <2>1, <3>1
    <2> QED BY <2>2, <2>3, <2>4
  <1>11. ConsumedKept'
    <2> SUFFICES ASSUME NEW j \in PairIds, NEW c \in Columns, NEW t \in consumed'[j][c]
                 PROVE  /\ t \in recorded[Src(j)][c]
                        /\ WindowStart(j, t) # 0
                        /\ Fits(Dst(j), c) =>
                             Holds(rings'[Dst(j)], SlotOf(Dst(j), t), c, WindowStart(j, t), t)
      BY <1>2 DEF ConsumedKept, Fits
    <2>1. ConsumedKept
      BY <1>1 DEF QueryInv
    <2>2. CASE j # i
      <3>1. t \in consumed[j][c] /\ rings'[Dst(j)] = rings[Dst(j)]
        BY <1>4, <1>8, <2>2
      <3> QED BY <2>1, <3>1 DEF ConsumedKept
    <2>3. CASE j = i /\ t \in x.times
      <3>1. c = x.column /\ t \in x.value /\ WindowStart(i, t) = x.window
            /\ t \in recorded[Src(i)][c] /\ t \in Nat
        BY <1>5, <1>7, <2>3
      <3>2. SlotOf(Dst(i), t) = s0
        BY <1>3, <3>1, WindowIndex
      <3> QED BY <1>2, <1>6, <2>3, <3>1, <3>2 DEF Holds, new
    <2>4. CASE j = i /\ t \notin x.times
      <3>1. t \in consumed[i][c] /\ c = x.column
        BY <1>7, <1>8, <2>4
      <3>2. t \in recorded[Src(i)][c] /\ WindowStart(i, t) # 0
        BY <1>3, <2>1, <3>1 DEF ConsumedKept
      <3>3. ASSUME Fits(Dst(i), c)
            PROVE  Holds(new, SlotOf(Dst(i), t), c, WindowStart(i, t), t)
        <4>1. Holds(old, SlotOf(Dst(i), t), c, WindowStart(i, t), t)
          BY <1>3, <2>1, <3>1, <3>3 DEF ConsumedKept, old
        <4>2. SlotOf(Dst(i), t) \in 0 .. n - 1
          <5>1. t \in Nat
            BY <1>1, <1>3, <3>1
          <5> QED BY <1>3, <1>6, <5>1, PairFacts, DivNat, ModRange DEF SlotOf, n
        <4>3. CASE SlotOf(Dst(i), t) # s0
          BY <1>6, <4>1, <4>2, <4>3 DEF Holds
        <4>4. CASE SlotOf(Dst(i), t) = s0
          <5>1. PICK u \in x.value : TRUE
            BY <1>5
          <5>2. u \in recorded[Src(i)][c] /\ u \in Nat /\ WindowStart(i, u) = x.window
            BY <1>5, <3>1
          <5>3. SlotOf(Dst(i), u) = s0
            BY <1>3, <5>2, WindowIndex
          <5>4. WindowStart(i, t) = x.window
            BY <1>1, <1>3, <3>2, <3>3, <4>4, <5>2, <5>3, SameSlotSameWindow
          <5>5. t \in x.value
            BY <1>5, <3>1, <3>2, <5>4
          <5> QED BY <1>6, <3>1, <4>4, <5>4, <5>5 DEF Holds
        <4> QED BY <4>3, <4>4
      <3> QED BY <2>4, <3>2, <3>3 DEF new
    <2> QED BY <2>2, <2>3, <2>4
  <1>12. RootsKept'
    BY <1>1, <1>2, <1>4 DEF QueryInv, RootsKept, Fits, Holds, Roots
  <1>13. CellsHome'
    <2>0. CellsHome
      BY <1>1 DEF QueryInv
    <2> SUFFICES ASSUME NEW j \in PairIds, NEW s \in 0 .. SlotCount[Dst(j)] - 1,
                        rings'[Dst(j)].timestamps[s] # 0
                 PROVE  /\ SlotOf(Dst(j), rings'[Dst(j)].timestamps[s]) = s
                        /\ \E c \in Columns : rings'[Dst(j)].values[s][c] # {}
                        /\ newest_timestamp(rings'[Dst(j)]) # 0
      BY DEF CellsHome
    <2>1. CASE j # i
      <3>1. rings'[Dst(j)] = rings[Dst(j)]
        BY <1>4, <2>1
      <3> QED BY <2>0, <3>1 DEF CellsHome
    <2>2. CASE j = i /\ s = s0
      BY <1>2, <1>3, <1>5, <1>6, <2>2 DEF new
    <2>3. CASE j = i /\ s # s0
      <3>1. s \in 0 .. n - 1 /\ new.timestamps[s] = old.timestamps[s]
            /\ new.values[s] = old.values[s] /\ old.timestamps[s] # 0
        BY <1>6, <2>3 DEF new, n
      <3>2. SlotOf(Dst(i), old.timestamps[s]) = s /\ \E c \in Columns : old.values[s][c] # {}
        BY <1>3, <2>0, <3>1 DEF CellsHome, old, n
      <3> QED BY <1>2, <1>6, <2>3, <3>1, <3>2 DEF new
    <2> QED BY <2>1, <2>2, <2>3
  <1>14. Current(job.cursors) /\ Current(cursorFile) /\ cursorFile # EmptyFile
         /\ cursorFile \in Cursors /\ \A j \in PairIds : cursorFile[j] <= job.cursors[j]
    <2>1. cursorFile # EmptyFile
      BY <1>3 DEF AnswerInv, FullInv, BoundaryInv
    <2>2. cursorFile \in Cursors
      BY <1>1, <2>1 DEF Shape
    <2> QED BY <1>1, <1>3, <2>1, <2>2 DEF QueryInv, CallInv, CursorInv, Cursors
  <1>15. ASSUME NEW j \in PairIds, Dense(j)
         PROVE  NoneHidden(j, rings'[Dst(j)], job.cursors[j])
    <2>1. NoneHidden(j, rings[Dst(j)], job.cursors[j])
      BY <1>14, <1>15 DEF Current, AllShown
    <2>2. CASE j # i
      BY <1>4, <2>1, <2>2
    <2>3. CASE j = i
      <3>1. \A s \in 0 .. n - 1 :
              /\ s > s0 /\ new.timestamps[s] # 0 /\ Before(i, job.cursors[i], new.timestamps[s])
              => new.timestamps[s] < x.window
        <4> SUFFICES ASSUME NEW s \in 0 .. n - 1, s > s0,
                            Before(i, job.cursors[i], new.timestamps[s])
                     PROVE  new.timestamps[s] < x.window
          OBVIOUS
        <4>1. new.timestamps[s] \in Nat
          BY <1>6
        <4>2. /\ IntervalNs[Dst(i)] \in Nat /\ IntervalNs[Src(i)] \in Nat
              /\ job.cursors[i] \in Nat
          BY <1>3, PairFacts DEF Cursors
        <4> QED BY <1>3, <1>5, <4>1, <4>2 DEF Before
      <3> QED BY <1>6, <2>3, <3>1 DEF NoneHidden, new, n
    <2> QED BY <2>2, <2>3
  <1>16. \A j \in PairIds : Dense(j)' => Dense(j)
    BY <1>2 DEF Dense, Fits, NoEmptyWindow
  <1>17. \A j \in PairIds, c \in Columns : consumed[j][c] \subseteq consumed'[j][c]
    BY <1>7, <1>8
  <1>18. Current(job.cursors)'
    <2>1. AllConsumed(job.cursors)'
      BY <1>2, <1>14, <1>17 DEF Current, AllConsumed
    <2>2. AllShown(job.cursors)'
      BY <1>2, <1>15, <1>16 DEF AllShown, NoneHidden, Before
    <2> QED BY <2>1, <2>2 DEF Current
  <1>19. Current(cursorFile)'
    <2>1. AllConsumed(cursorFile)'
      BY <1>2, <1>14, <1>17 DEF Current, AllConsumed
    <2>2. ASSUME NEW j \in PairIds, Dense(j)
          PROVE  NoneHidden(j, rings'[Dst(j)], cursorFile[j])
      <3>1. NoneHidden(j, rings'[Dst(j)], job.cursors[j])
        BY <1>15, <2>2
      <3>2. cursorFile[j] \in Nat /\ job.cursors[j] \in Nat /\ cursorFile[j] <= job.cursors[j]
        BY <1>3, <1>14 DEF Cursors
      <3>3. \A s \in 0 .. SlotCount[Dst(j)] - 1 : rings'[Dst(j)].timestamps[s] \in Nat
        <4>1. CASE j # i
          BY <1>1, <1>4, <4>1, DstShape
        <4>2. CASE j = i
          BY <1>3, <1>6, <4>2 DEF new, n
        <4> QED BY <4>1, <4>2
      <3> QED BY <3>1, <3>2, <3>3, EarlierShown
    <2>3. AllShown(cursorFile)'
      BY <1>2, <1>16, <2>2 DEF AllShown, NoneHidden, Before
    <2> QED BY <2>1, <2>3 DEF Current
  <1> QED BY <1>9, <1>10, <1>11, <1>12, <1>13, <1>18, <1>19 DEF QueryInv

(* A recording leaves the windows alone, and overwrites no point of a ring *)
(* they all fit into.                                                      *)
LEMMA RecordKeepsRoots ==
  ASSUME AnswerInv, NEW r \in Roots, NEW c \in Columns, NEW t \in Timestamps,
         \A d \in Columns : \A u \in recorded[r][d] : u <= t,
         t \notin recorded[r][c], Record(r, c, t)
  PROVE  RootsKept'
  <1> DEFINE old == rings[r]
             new == rings'[r]
             n == SlotCount[r]
             w == IntervalNs[r]
             s0 == SlotOf(r, t)
  <1>1. /\ OneColumn /\ Shape /\ RootsAligned /\ RootsKept
        /\ recorded \in [Roots -> [Columns -> SUBSET Timestamps]]
    BY FullFacts DEF AnswerInv, SkipInv, QueryInv
  <1>2. /\ recorded' = [recorded EXCEPT ![r][c] = @ \cup {t}]
        /\ recorded'[r][c] = recorded[r][c] \cup {t}
        /\ \A q \in Roots : q # r => recorded'[q] = recorded[q]
    BY <1>1 DEF Record
  <1>3. /\ \A q \in RingIds : q # r => rings'[q] = rings[q]
        /\ s0 \in Slots(old) /\ Wrote(new, old, s0, c, {t}, t)
    BY <1>1, RecordEffect
  <1>4. /\ r \in RingIds /\ n \in Nat \ {0} /\ w \in Nat \ {0} /\ Slots(old) = 0 .. n - 1
    BY <1>1, RootShape
  <1>5. /\ new.timestamps[s0] = t /\ new.values[s0][c] = {t}
        /\ \A x \in 0 .. n - 1 : x # s0 => /\ new.timestamps[x] = old.timestamps[x]
                                           /\ new.values[x] = old.values[x]
    BY <1>3, <1>4 DEF Wrote
  <1>6. \A q \in Roots : <<q[1], 0>> = q
    BY RootFacts DEF RootOf, Roots
  <1> HIDE DEF old, new, n, w
  <1>7. ASSUME NEW q \in Roots, NEW d \in Columns, Fits(q, d)', NEW u \in recorded'[q][d]
        PROVE  Holds(rings'[q], SlotOf(q, u), d, u, u)
    <2>1. CASE q # r
      <3>1. rings'[q] = rings[q] /\ recorded'[q] = recorded[q] /\ <<q[1], 0>> = q
        BY <1>2, <1>3, <1>6, <2>1 DEF Roots
      <3>2. Fits(q, d)
        BY <1>7, <3>1 DEF Fits
      <3> QED BY <1>1, <1>7, <3>1, <3>2 DEF RootsKept
    <2>2. CASE q = r /\ u = t
      <3>1. d = c
        BY <1>1 DEF OneColumn
      <3> QED BY <1>5, <2>2, <3>1 DEF Holds, new
    <2>3. CASE q = r /\ u # t
      <3> DEFINE a == u \div w
                 b == t \div w
      <3>1. d = c /\ u \in recorded[r][c]
        BY <1>1, <1>2, <1>7, <2>3 DEF OneColumn
      <3>2. Fits(r, c) /\ b < a + n
        <4>1. recorded'[r][c] = recorded[r][c] \cup {t} /\ <<r[1], 0>> = r
          BY <1>2, <1>6
        <4>2. Fits(r, c)' /\ u \in recorded'[r][c] /\ t \in recorded'[r][c]
          BY <1>7, <2>3, <3>1, <4>1
        <4> QED BY <4>1, <4>2 DEF Fits, w, n
      <3>3. Holds(old, SlotOf(r, u), c, u, u)
        BY <1>1, <3>1, <3>2 DEF RootsKept, old
      <3>4. u \in Timestamps /\ u < t /\ u \in Nat /\ t \in Nat
        <4>1. u \in Timestamps
          BY <1>1, <3>1
        <4>2. u \in Nat /\ t \in Nat
          BY <4>1, ConsolidationAssumption
        <4> QED BY <2>3, <3>1, <4>1, <4>2
      <3>5. a \in Nat /\ b \in Nat /\ a <= b
        BY <1>4, <3>4, DivNat, DivMonotone
      <3>6. SlotOf(r, u) = a % n /\ s0 = b % n /\ SlotOf(r, u) \in 0 .. n - 1
        BY <1>4, <3>5, ModRange DEF SlotOf, n, w
      <3>7. a # b
        <4>1. u % w = 0 /\ t % w = 0
          BY <1>1, <3>4 DEF RootsAligned, w
        <4>2. u = w * a + (u % w) /\ t = w * b + (t % w)
          BY <1>4, <3>4, DivMod
        <4> HIDE DEF a, b
        <4> QED BY <3>4, <4>1, <4>2
      <3> HIDE DEF a, b
      <3>8. SlotOf(r, u) # s0
        <4> SUFFICES ASSUME SlotOf(r, u) = s0 PROVE FALSE
          OBVIOUS
        <4>1. a % n = b % n
          BY <3>6
        <4>2. a < b
          BY <3>5, <3>7
        <4>3. a + n <= b
          BY <1>4, <3>5, <4>1, <4>2, ModDistinct
        <4> QED BY <1>4, <3>2, <3>5, <4>3
      <3> QED BY <1>5, <2>3, <3>1, <3>3, <3>6, <3>8 DEF Holds, new
    <2> QED BY <2>1, <2>2, <2>3
  <1> QED BY <1>7 DEF RootsKept, Roots

(* A recording.                                                            *)
LEMMA RecordRight ==
  ASSUME AnswerInv, NEW r \in Roots, NEW c \in Columns, NEW t \in Timestamps,
         \A d \in Columns : \A u \in recorded[r][d] : u <= t,
         t \notin recorded[r][c], Record(r, c, t)
  PROVE  QueryInv'
  <1>1. /\ TwoTiers /\ OneColumn /\ Shape /\ SkipInv /\ QueryInv /\ AlignedInv
        /\ recorded \in [Roots -> [Columns -> SUBSET Timestamps]]
    BY FullFacts DEF AnswerInv, FullInv, SkipInv
  <1>2. /\ job = Idle /\ job' = Idle /\ cursorFile' = cursorFile /\ consumed' = consumed
        /\ recorded' = [recorded EXCEPT ![r][c] = @ \cup {t}]
    BY DEF Record
  <1>3. \A i \in PairIds : rings'[Dst(i)] = rings[Dst(i)]
    BY <1>1, RecordEffect, PairFacts
  <1>4. \A q \in Roots, d \in Columns :
          /\ recorded[q][d] \subseteq recorded'[q][d]
          /\ \A u \in recorded'[q][d] : u \in recorded[q][d] \/ (q = r /\ u = t)
    BY <1>1, <1>2
  <1>5. \A i \in PairIds : Src(i) \in Roots /\ <<Dst(i)[1], 0>> = Src(i)
    BY <1>1, PairRoot
  <1>6. ASSUME NEW i \in PairIds, NEW d \in Columns, Fits(Dst(i), d)'
        PROVE  Fits(Dst(i), d)
    BY <1>4, <1>5, <1>6 DEF Fits
  <1>7. ConsumedKept'
    <2>1. ConsumedKept
      BY <1>1 DEF QueryInv
    <2> SUFFICES ASSUME NEW i \in PairIds, NEW d \in Columns, NEW u \in consumed[i][d]
                 PROVE  /\ u \in recorded'[Src(i)][d]
                        /\ WindowStart(i, u) # 0
                        /\ Fits(Dst(i), d)' =>
                             Holds(rings'[Dst(i)], SlotOf(Dst(i), u), d, WindowStart(i, u), u)
      BY <1>2 DEF ConsumedKept
    <2>2. /\ u \in recorded[Src(i)][d] /\ WindowStart(i, u) # 0
          /\ Fits(Dst(i), d) => Holds(rings[Dst(i)], SlotOf(Dst(i), u), d, WindowStart(i, u), u)
      BY <2>1 DEF ConsumedKept
    <2>3. u \in recorded'[Src(i)][d]
      BY <1>4, <1>5, <2>2
    <2> QED BY <1>3, <1>6, <2>2, <2>3
  <1>8. RootsKept'
    BY RecordKeepsRoots
  <1>9. CellsHome'
    BY <1>1, <1>3 DEF QueryInv, CellsHome
  <1>10. TodoRight' /\ Ahead'
    BY <1>2 DEF TodoRight, Ahead, Idle
  <1>11. ASSUME NEW i \in PairIds, Dense(i)'
         PROVE  Dense(i)
    <2> SUFFICES ASSUME NEW d \in Columns, NEW x \in recorded[Src(i)][d],
                        NEW y \in recorded[Src(i)][d],
                        NEW k \in x \div IntervalNs[Dst(i)] .. y \div IntervalNs[Dst(i)]
                 PROVE  \E v \in recorded[Src(i)][d] : v \div IntervalNs[Dst(i)] = k
      BY <1>5, <1>6, <1>11 DEF Dense, NoEmptyWindow
    <2>1. NoEmptyWindow(Dst(i), d)'
      BY <1>11 DEF Dense
    <2>2. PICK v \in recorded'[Src(i)][d] : v \div IntervalNs[Dst(i)] = k
      <3>1. x \in recorded'[Src(i)][d] /\ y \in recorded'[Src(i)][d]
        BY <1>4, <1>5
      <3> QED BY <1>5, <2>1, <3>1 DEF NoEmptyWindow
    <2>3. CASE v \in recorded[Src(i)][d]
      BY <2>2, <2>3
    <2>4. CASE Src(i) = r /\ v = t
      <3>1. y <= t /\ x \in Nat /\ y \in Nat /\ t \in Nat
        <4>1. recorded[Src(i)][d] \subseteq Timestamps
          BY <1>1, <1>5
        <4> QED BY <2>4, <4>1, ConsolidationAssumption
      <3>2. IntervalNs[Dst(i)] \in Nat \ {0}
        BY PairFacts
      <3>3. y \div IntervalNs[Dst(i)] <= t \div IntervalNs[Dst(i)]
        BY <3>1, <3>2, DivMonotone
      <3>4. /\ y \div IntervalNs[Dst(i)] \in Nat /\ t \div IntervalNs[Dst(i)] \in Nat
            /\ x \div IntervalNs[Dst(i)] \in Nat
        BY <3>1, <3>2, DivNat
      <3>5. y \div IntervalNs[Dst(i)] = k
        BY <2>2, <2>4, <3>3, <3>4
      <3> QED BY <3>5
    <2> QED BY <1>4, <1>5, <2>2, <2>3, <2>4
  <1>12. ASSUME cursorFile # EmptyFile
         PROVE  Current(cursorFile)'
    <2>1. Current(cursorFile) /\ cursorFile \in Cursors /\ CursorsKept(cursorFile)
      BY <1>1, <1>12 DEF QueryInv, SkipInv, Good, Shape
    <2>2. AllConsumed(cursorFile)'
      <3> SUFFICES ASSUME NEW i \in PairIds, NEW d \in Columns, NEW u \in recorded'[Src(i)][d],
                          u <= cursorFile[i]
                   PROVE  u \in consumed[i][d]
        BY <1>2 DEF AllConsumed
      <3>1. ~(Src(i) = r /\ u = t)
        <4>1. t \in Nat \ {0} /\ newest_timestamp(rings[r]) < t
          BY <1>1, RecordNewest
        <4>2. newest_timestamp(rings[r]) \in Nat
          BY <1>1, RootShape
        <4>3. Src(i) = r => cursorFile[i] \in Nat /\ cursorFile[i] <= newest_timestamp(rings[r])
          BY <2>1 DEF CursorsKept, Cursors
        <4> QED BY <4>1, <4>2, <4>3
      <3>2. u \in recorded[Src(i)][d]
        BY <1>4, <1>5, <3>1
      <3> QED BY <2>1, <3>2 DEF Current, AllConsumed
    <2>3. AllShown(cursorFile)'
      BY <1>2, <1>3, <1>11, <2>1 DEF Current, AllShown, NoneHidden, Before
    <2> QED BY <2>2, <2>3 DEF Current
  <1> QED BY <1>2, <1>7, <1>8, <1>9, <1>10, <1>12 DEF QueryInv

(* A fresh store.                                                          *)
LEMMA AnswerInit == TwoTiers /\ OneColumn /\ RootsAligned /\ Init => AnswerInv
  <1> SUFFICES ASSUME TwoTiers, OneColumn, RootsAligned, Init
               PROVE  QueryInv
    BY FullInit DEF AnswerInv
  <1>1. \A r \in Roots, c \in Columns : recorded[r][c] = {}
    BY DEF Init
  <1>2. \A i \in PairIds, c \in Columns : consumed[i][c] = {} /\ recorded[Src(i)][c] = {}
    BY <1>1 DEF Init, TwoTiers
  <1>3. \A i \in PairIds : \A s \in 0 .. SlotCount[Dst(i)] - 1 : rings[Dst(i)].timestamps[s] = 0
    <2> SUFFICES ASSUME NEW i \in PairIds
                 PROVE  \A s \in 0 .. SlotCount[Dst(i)] - 1 : rings[Dst(i)].timestamps[s] = 0
      OBVIOUS
    <2>1. rings[Dst(i)] = create(SlotCount[Dst(i)], IntervalNs[Dst(i)], Columns)
      BY PairFacts DEF Init
    <2> QED BY <2>1 DEF create
  <1>4. ConsumedKept /\ RootsKept /\ CellsHome
    BY <1>1, <1>2, <1>3 DEF ConsumedKept, RootsKept, CellsHome
  <1>5. job = Idle /\ TodoRight /\ Ahead
    BY DEF Init, Idle, TodoRight, Ahead
  <1>6. Current(cursorFile)
    BY <1>2, <1>3 DEF Current, AllConsumed, AllShown, NoneHidden
  <1> QED BY <1>4, <1>5, <1>6 DEF QueryInv

(* All steps of callers that keep to the ends of windows.                  *)
LEMMA AnswerStep == AnswerInv /\ [BoundaryNext]_vars => AnswerInv'
  <1> SUFFICES ASSUME AnswerInv, [BoundaryNext]_vars
               PROVE  QueryInv'
    BY FullStep DEF AnswerInv
  <1>1. CASE UNCHANGED vars
    <2>1. /\ rings' = rings /\ cursorFile' = cursorFile /\ job' = job
          /\ recorded' = recorded /\ consumed' = consumed
      BY <1>1 DEF vars
    <2>2. QueryInv
      BY DEF AnswerInv
    <2>3. ConsumedKept' /\ RootsKept' /\ CellsHome'
      BY <2>1, <2>2, QuietCells DEF QueryInv, CellsQuiet
    <2>4. TodoRight' /\ Ahead'
      BY <2>1, <2>2 DEF QueryInv, TodoRight, Ahead, Before
    <2>5. \A i \in PairIds : Dense(i)' => Dense(i)
      BY <2>1 DEF Dense, Fits, NoEmptyWindow
    <2>6. ASSUME cursorFile # EmptyFile PROVE Current(cursorFile)'
      BY <2>1, <2>2, <2>5, <2>6 DEF QueryInv, Current, AllConsumed, AllShown, NoneHidden, Before
    <2>7. ASSUME job # Idle PROVE Current(job.cursors)'
      BY <2>1, <2>2, <2>5, <2>7 DEF QueryInv, Current, AllConsumed, AllShown, NoneHidden, Before
    <2> QED BY <2>1, <2>3, <2>4, <2>6, <2>7 DEF QueryInv
  <1>2. CASE RecordInOrder
    BY <1>2, RecordRight DEF RecordInOrder, InTimeOrder
  <1>3. CASE StartConsolidation /\ ClosesWindows /\ KeepsUp
    BY <1>3, StartRight
  <1>4. CASE ConsolidationStep
    BY <1>4, WriteRight, FinishRight, EndRight DEF ConsolidationStep
  <1>5. CASE Crash
    BY <1>5, EndRight
  <1> QED BY <1>1, <1>2, <1>3, <1>4, <1>5 DEF BoundaryNext

-----------------------------------------------------------------------------
(* What an answer has.                                                     *)

(* What a caller sees of ring r: the tool the ring as a start finds it,    *)
(* the owner, between two calls, its own.                                  *)
Seen(r, q) == q = reopen(rings[r]) \/ (q = rings[r] /\ job = Idle)

(* Either has the slots of the ring.                                       *)
LEMMA SeenFacts ==
  ASSUME Shape, NEW r \in RingIds, NEW q, Seen(r, q)
  PROVE  /\ q \in RT(r) /\ SlotCount[r] \in Nat \ {0} /\ IntervalNs[r] \in Nat \ {0}
         /\ q.write_cursor = rings[r].write_cursor /\ q.timestamps = rings[r].timestamps
         /\ q.values = rings[r].values
         /\ q.write_cursor \in 0 .. SlotCount[r] - 1
         /\ q.timestamps \in [0 .. SlotCount[r] - 1 -> Nat]
         /\ newest_timestamp(q) = q.timestamps[q.write_cursor]
         /\ newest_timestamp(q) = newest_timestamp(rings[r])
  <1>1. rings[r] \in RT(r) /\ SlotCount[r] \in Nat \ {0} /\ IntervalNs[r] \in Nat \ {0}
    BY ConsolidationAssumption DEF Shape
  <1>2. /\ q \in RT(r)
        /\ q.write_cursor = rings[r].write_cursor /\ q.timestamps = rings[r].timestamps
        /\ q.values = rings[r].values
    BY <1>1, ReopenShape DEF Seen, RT
  <1>3. q.write_cursor \in 0 .. SlotCount[r] - 1 /\ q.timestamps \in [0 .. SlotCount[r] - 1 -> Nat]
    BY <1>2 DEF RT, RingType
  <1> QED BY <1>1, <1>2, <1>3 DEF newest_timestamp

(* The oldest point of ring q is in slot x, at or below its cursor.        *)
OldestIn(q, x) ==
  /\ x <= q.write_cursor
  /\ oldest_timestamp(q) = q.timestamps[x] /\ q.timestamps[x] # 0

(* So it is in a ring that has not wrapped.                                *)
LEMMA OldestBelow ==
  ASSUME NEW n \in Nat \ {0}, NEW width, NEW cols, NEW vals,
         NEW q \in RingType(n, width, cols, vals), ~is_empty(q), ~q.has_wrapped
  PROVE  \E x \in 0 .. n - 1 : OldestIn(q, x)
  <1>1. q.slot_count = n /\ q.write_cursor \in 0 .. n - 1
    BY DEF RingType
  <1>2. ASSUME NEW k \in 0 .. n - 1 PROVE ScanSlot(q, k) = k
    <2>1. k % n = k
      BY ModSmall
    <2>2. 0 + k = k
      OBVIOUS
    <2> QED BY <1>1, <2>1, <2>2 DEF ScanSlot
  <1>3. PICK x \in 0 .. n - 1 :
          /\ oldest_timestamp(q) = q.timestamps[ScanSlot(q, x)]
          /\ q.timestamps[ScanSlot(q, x)] # 0
          /\ \A j \in 0 .. x - 1 : q.timestamps[ScanSlot(q, j)] = 0
    BY OldestShape
  <1>4. x <= q.write_cursor
    <2> SUFFICES ASSUME q.write_cursor < x PROVE FALSE
      BY <1>1
    <2>1. q.write_cursor \in 0 .. x - 1
      BY <1>1
    <2>2. q.timestamps[q.write_cursor] = 0
      BY <1>1, <1>2, <1>3, <2>1
    <2> QED BY <2>2 DEF is_empty
  <1> QED BY <1>2, <1>3, <1>4 DEF OldestIn

(* The point at t is in the answer of a read.                              *)
InAnswer(q, c, start, end, t) ==
  \E k \in DOMAIN read(q, c, start, end) : t \in read(q, c, start, end)[k][2]

(* Every point of a completed window in the range is in an answer from a   *)
(* second tier.                                                            *)
LEMMA WindowsAnswered ==
  ASSUME AnswerInv, cursorFile # EmptyFile, NEW i \in PairIds, NEW c \in Columns, Dense(i),
         NEW q, Seen(Dst(i), q), NEW start \in Nat, NEW end \in Nat,
         newest_timestamp(q) # 0, ~(start < oldest_timestamp(q)),
         NEW t \in recorded[Src(i)][c], t <= cursorFile[i],
         WindowStart(i, t) \in start .. end - 1
  PROVE  InAnswer(q, c, start, end, t)
  <1> DEFINE r == Dst(i)
             n == SlotCount[r]
             d == IntervalNs[r]
             e == IntervalNs[Src(i)]
             w == WindowStart(i, t)
             s == SlotOf(r, t)
             k == rings[r].write_cursor
             T == rings[r].timestamps
  <1>1. /\ TwoTiers /\ OneColumn /\ SoundInv /\ SkipInv /\ FullInv /\ Shape /\ QueryInv
        /\ CellsHome /\ ConsumedKept /\ Current(cursorFile) /\ BoundaryCursors(cursorFile)
        /\ CursorsKept(cursorFile) /\ cursorFile \in Cursors
    BY FullFacts DEF AnswerInv, QueryInv, FullInv, BoundaryInv, SkipInv, Good, Shape
  <1>2. /\ r \in RingIds /\ n \in Nat \ {0} /\ d \in Nat \ {0} /\ e \in Nat \ {0}
        /\ Src(i) \in Roots
    BY <1>1, PairFacts DEF TwoTiers
  <1>3. t \in Nat \ {0}
    <2>1. recorded[Src(i)][c] \subseteq Timestamps
      BY <1>1, <1>2 DEF SkipInv
    <2> QED BY <2>1, ConsolidationAssumption
  <1>4. s \in 0 .. n - 1 /\ w \in Nat /\ w <= t
    <2>1. t \div d \in Nat
      BY <1>2, <1>3, DivNat
    <2> QED BY <1>2, <1>3, <2>1, WindowFacts, ModRange DEF SlotOf
  <1>5. /\ q \in RT(r) /\ q.write_cursor = k /\ q.timestamps = T /\ q.values = rings[r].values
        /\ k \in 0 .. n - 1 /\ T \in [0 .. n - 1 -> Nat]
        /\ newest_timestamp(q) = T[k] /\ newest_timestamp(rings[r]) = T[k] /\ T[k] # 0
    <2>1. Shape /\ r \in RingIds /\ Seen(r, q)
      BY <1>1, <1>2
    <2>2. /\ q \in RT(r) /\ q.write_cursor = k /\ q.timestamps = T /\ q.values = rings[r].values
          /\ q.write_cursor \in 0 .. n - 1 /\ q.timestamps \in [0 .. n - 1 -> Nat]
          /\ newest_timestamp(q) = q.timestamps[q.write_cursor]
          /\ newest_timestamp(q) = newest_timestamp(rings[r])
      BY <2>1, SeenFacts, ZenonT(60)
    <2> HIDE DEF k, T, n
    <2> QED BY <2>2
  <1>6. /\ T[s] = w /\ t \in rings[r].values[s][c] /\ w # 0
    <2>1. t \in consumed[i][c]
      BY <1>1 DEF Current, AllConsumed
    <2> QED BY <1>1, <2>1 DEF ConsumedKept, Holds, Dense
  <1>7. Before(i, cursorFile[i], w)
    <2> DEFINE f == cursorFile[i]
               g == f + e
    <2>1. f \in Nat /\ f # 0 /\ w <= f /\ g \in Nat
      BY <1>1, <1>2, <1>3, <1>4 DEF Cursors
    <2>2. g % d = 0 /\ w % d = 0
      BY <1>1, <1>3, <2>1, WindowIndex DEF BoundaryCursors, EndsWindow
    <2>3. w < g
      BY <1>2, <1>4, <2>1
    <2> HIDE DEF f, g, w, d
    <2>4. w + d <= g
      BY <1>2, <1>4, <2>1, <2>2, <2>3, MultiplesApart
    <2> QED BY <2>4 DEF Before, f, g, d
  <1> HIDE DEF s, w, k, T, n
  <1>8. q.has_wrapped \/ s <= q.write_cursor
    <2> SUFFICES ASSUME ~q.has_wrapped, k < s PROVE FALSE
      BY <1>4, <1>5
    <2>1. PICK x \in 0 .. n - 1 : x <= k /\ oldest_timestamp(q) = T[x] /\ T[x] # 0
      <3>1. q \in RingType(n, IntervalNs[r], Columns, SUBSET Timestamps)
        BY <1>5 DEF RT, n
      <3>2. ~is_empty(q)
        BY <1>5 DEF is_empty
      <3>3. n \in Nat \ {0}
        BY <1>2 DEF n
      <3>4. \E x \in 0 .. n - 1 : OldestIn(q, x)
        BY <3>1, <3>2, <3>3, OldestBelow
      <3> QED BY <1>5, <3>4 DEF OldestIn
    <2>2. T[x] <= T[s]
      <3>1. T[x] \in Nat /\ T[x] <= start /\ start <= w
        BY <1>5, <2>1 DEF w
      <3> QED BY <1>4, <1>6, <3>1
    <2>3. /\ x \in 0 .. SlotCount[Dst(i)] - 1 /\ s \in 0 .. SlotCount[Dst(i)] - 1
          /\ k \in 0 .. SlotCount[Dst(i)] - 1 /\ x <= k /\ k < s
          /\ rings[Dst(i)].timestamps[x] # 0 /\ rings[Dst(i)].timestamps[s] # 0
          /\ rings[Dst(i)].timestamps[x] <= rings[Dst(i)].timestamps[s]
          /\ Before(i, cursorFile[i], rings[Dst(i)].timestamps[s])
      BY <1>4, <1>5, <1>6, <1>7, <2>1, <2>2 DEF T, n
    <2>4. CASE q = rings[r] /\ job = Idle
      <3>1. rings[Dst(i)].timestamps[k] <= rings[Dst(i)].timestamps[s]
        BY <1>1, <2>3, CursorNotLater, ZenonT(60)
      <3>2. NoneHidden(i, rings[r], cursorFile[i])
        BY <1>1 DEF Current, AllShown
      <3>3. T[s] < T[k]
        BY <1>5, <2>3, <2>4, <3>2 DEF NoneHidden, T, k
      <3>4. T[s] \in Nat /\ T[k] \in Nat
        BY <1>4, <1>5
      <3> QED BY <3>1, <3>3, <3>4 DEF T
    <2>5. CASE q = reopen(rings[r])
      <3>1. PICK cs \in Cursors : cs = cursorFile
        BY <1>1
      <3>2. AllConsumed(cs) /\ BoundaryCursors(cs) /\ CursorsKept(cs)
            /\ Before(i, cs[i], rings[Dst(i)].timestamps[s])
        BY <1>1, <2>3, <3>1 DEF Current
      <3>3. rings[Dst(i)].timestamps[k + 1] # 0
        BY <1>1, <2>3, <3>2, NextFilled, ZenonT(60)
      <3>4. k + 1 \in 0 .. SlotCount[r] - 1
        <4>1. n \in Nat /\ k \in 0 .. n - 1 /\ s \in 0 .. n - 1 /\ k < s
          BY <1>2, <1>4, <1>5 DEF n
        <4>2. k + 1 \in 0 .. n - 1
          BY <4>1
        <4> QED BY <4>2 DEF n
      <3>5. reopen(rings[r]).has_wrapped
        BY <1>1, <1>2, <3>3, <3>4, ReopenSees DEF k
      <3> QED BY <2>5, <3>5
    <2> QED BY <2>4, <2>5 DEF Seen
  <1>9. Yields(q, c, start, end, s)
    <2>1. q \in RingType(n, IntervalNs[r], Columns, SUBSET Timestamps)
      BY <1>5 DEF RT, n
    <2>2. ~is_empty(q)
      BY <1>5 DEF is_empty
    <2>3. q.timestamps[s] \in start .. end - 1
      BY <1>5, <1>6 DEF w
    <2>4. q.values[s][c] # NaN
      BY <1>5, <1>6, ConsolidationAssumption
    <2> QED BY <1>2, <1>4, <1>8, <2>1, <2>2, <2>3, <2>4, ReadComplete
  <1>10. Point(q, c, s)[2] = rings[r].values[s][c]
    BY <1>5 DEF Point
  <1> QED BY <1>6, <1>9, <1>10 DEF Yields, InAnswer

(* So is every recorded point of the range in an answer from a first tier. *)
LEMMA PointsAnswered ==
  ASSUME AnswerInv, NEW r \in Roots, NEW c \in Columns, Fits(r, c),
         NEW q, Seen(r, q), NEW start \in Nat, NEW end \in Nat,
         newest_timestamp(q) # 0, ~(start < oldest_timestamp(q)),
         NEW t \in recorded[r][c], t \in start .. end - 1
  PROVE  InAnswer(q, c, start, end, t)
  <1> DEFINE n == SlotCount[r]
             d == IntervalNs[r]
             s == SlotOf(r, t)
             k == rings[r].write_cursor
             T == rings[r].timestamps
  <1>1. /\ OneColumn /\ SoundInv /\ SkipInv /\ Shape /\ RootInv(r) /\ RootsKept
        /\ r \in RingIds /\ n \in Nat \ {0} /\ d \in Nat \ {0} /\ <<r[1], 0>> = r
        /\ Slots(rings[r]) = 0 .. n - 1
    <2>1. OneColumn /\ SoundInv /\ SkipInv /\ Shape /\ RootInv(r) /\ RootsKept
      BY FullFacts DEF AnswerInv, QueryInv, SkipInv
    <2>2. /\ r \in RingIds /\ n \in Nat \ {0} /\ d \in Nat \ {0} /\ <<r[1], 0>> = r
          /\ Slots(rings[r]) = 0 .. n - 1
      BY <2>1, RootShape, RootFacts DEF RootOf
    <2> QED BY <2>1, <2>2
  <1>2. recorded[r][c] \subseteq Nat \ {0}
    <2>1. recorded[r][c] \subseteq Timestamps
      BY <1>1 DEF SkipInv
    <2> QED BY <2>1, ConsolidationAssumption
  <1>3. s \in 0 .. n - 1 /\ t \in Nat \ {0} /\ t \div d \in Nat
    <2>1. t \in Nat \ {0} /\ t \div d \in Nat
      BY <1>1, <1>2, DivNat
    <2> QED BY <1>1, <2>1, ModRange DEF SlotOf
  <1>4. /\ q \in RT(r) /\ q.write_cursor = k /\ q.timestamps = T /\ q.values = rings[r].values
        /\ k \in 0 .. n - 1 /\ T \in [0 .. n - 1 -> Nat]
        /\ newest_timestamp(q) = T[k] /\ newest_timestamp(rings[r]) = T[k] /\ T[k] # 0
    <2>1. Shape /\ r \in RingIds /\ Seen(r, q)
      BY <1>1
    <2>2. /\ q \in RT(r) /\ q.write_cursor = k /\ q.timestamps = T /\ q.values = rings[r].values
          /\ q.write_cursor \in 0 .. n - 1 /\ q.timestamps \in [0 .. n - 1 -> Nat]
          /\ newest_timestamp(q) = q.timestamps[q.write_cursor]
          /\ newest_timestamp(q) = newest_timestamp(rings[r])
      BY <2>1, SeenFacts, ZenonT(60)
    <2> HIDE DEF k, T, n
    <2> QED BY <2>2
  <1>5. T[s] = t /\ t \in rings[r].values[s][c]
    BY <1>1 DEF RootsKept, Holds
  <1> HIDE DEF s, k, T, n, d
  <1>6. q.has_wrapped \/ s <= q.write_cursor
    <2> SUFFICES ASSUME ~q.has_wrapped, k < s PROVE FALSE
      BY <1>3, <1>4
    <2>1. PICK x \in 0 .. n - 1 : x <= k /\ oldest_timestamp(q) = T[x] /\ T[x] # 0
      <3>1. q \in RingType(n, d, Columns, SUBSET Timestamps)
        BY <1>4 DEF RT, n, d
      <3>2. ~is_empty(q)
        BY <1>4 DEF is_empty
      <3>3. n \in Nat \ {0}
        BY <1>1 DEF n
      <3>4. \E x \in 0 .. n - 1 : OldestIn(q, x)
        BY <3>1, <3>2, <3>3, OldestBelow
      <3> QED BY <1>4, <3>4 DEF OldestIn
    <2> DEFINE a == T[x] \div d
               b == t \div d
               m == T[k] \div d
    <2>2. T[x] \in recorded[r][c]
      <3>1. rings[r].values[x][c] # NaN
        BY <1>1, <2>1 DEF RootInv, T
      <3>2. PICK u : u \in rings[r].values[x][c]
        BY <3>1, ConsolidationAssumption
      <3>3. x \in 0 .. SlotCount[r] - 1
        BY DEF n
      <3>4. u = rings[r].timestamps[x] /\ u \in recorded[r][c]
        BY <1>1, <3>2, <3>3, RootCell
      <3> QED BY <3>4 DEF T
    <2>3. T[k] \in recorded[r][c]
      BY <1>1, <1>4 DEF RootInv, OneColumn
    <2>4. /\ T[x] \in Nat /\ T[k] \in Nat /\ T[x] <= t /\ t <= T[k]
      <3>1. T[x] \in Nat /\ T[k] \in Nat
        BY <1>4
      <3>2. T[x] <= t
        BY <1>3, <2>1, <3>1
      <3>3. t <= T[k]
        BY <1>1, <1>4 DEF RootInv
      <3> QED BY <3>1, <3>2, <3>3
    <2>5. a \in Nat /\ b \in Nat /\ m \in Nat /\ a <= b /\ b <= m
      BY <1>1, <1>3, <2>4, DivNat, DivMonotone DEF d
    <2>6. m < a + n
      BY <1>1, <2>2, <2>3 DEF Fits, d, n
    <2>7. x = a % n /\ k = m % n /\ s = b % n
      <3>1. AtHome(rings[r], n, d)
        BY <1>1 DEF RootInv, n, d
      <3> QED BY <1>4, <2>1, <3>1 DEF AtHome, SlotOf, s, T, n, d
    <2> HIDE DEF a, b, m
    <2>8. Apart(a, m, x, k)
      <3>1. a <= m /\ x <= k
        BY <2>1, <2>5
      <3> QED BY <1>1, <2>5, <2>6, <2>7, <3>1, SameLap DEF n
    <2>9. Apart(a, b, x, s)
      <3>1. x <= s
        BY <1>3, <1>4, <2>1
      <3>2. b < a + n
        BY <1>1, <2>5, <2>6 DEF n
      <3> QED BY <1>1, <2>5, <2>7, <3>1, <3>2, SameLap DEF n
    <2> QED BY <1>3, <1>4, <2>1, <2>5, <2>8, <2>9 DEF Apart
  <1>7. Yields(q, c, start, end, s)
    <2>1. q \in RingType(n, d, Columns, SUBSET Timestamps)
      BY <1>4 DEF RT, n, d
    <2>2. ~is_empty(q)
      BY <1>4 DEF is_empty
    <2>3. q.timestamps[s] \in start .. end - 1
      BY <1>4, <1>5
    <2>4. q.values[s][c] # NaN
      BY <1>4, <1>5, ConsolidationAssumption
    <2> QED BY <1>1, <1>3, <1>6, <2>1, <2>2, <2>3, <2>4, ReadComplete DEF n
  <1>8. Point(q, c, s)[2] = rings[r].values[s][c]
    BY <1>4 DEF Point
  <1> QED BY <1>5, <1>7, <1>8 DEF Yields, InAnswer

(* A schema of such a store has one tier, or a second one that a pair      *)
(* writes.                                                                 *)
LEMMA TiersOfSchema ==
  ASSUME TwoTiers, NEW s \in Schemas
  PROVE  /\ <<s, 0>> \in Roots /\ Tiers(s) \in {1, 2}
         /\ Tiers(s) = 2 => \E i \in PairIds : Dst(i) = <<s, 1>>
  <1> DEFINE S == {r \in RingIds : r[1] = s}
             a == <<s, 0>>
             b == <<s, 1>>
  <1>1. PICK r0 \in RingIds : r0[1] = s
    BY DEF Schemas
  <1>2. a \in RingIds /\ a \in Roots /\ a \in S
    BY <1>1, ConsolidationAssumption DEF Roots
  <1>3. ASSUME NEW r \in S
        PROVE  r = a \/ (r = b /\ \E i \in PairIds : Dst(i) = r)
    <2>1. r \in Nat \X Nat /\ r = <<s, r[2]>>
      <3>1. r \in RingIds /\ r[1] = s
        OBVIOUS
      <3> QED BY <3>1, ConsolidationAssumption
    <2>2. CASE r[2] = 0
      BY <2>1, <2>2
    <2>3. CASE r[2] # 0
      <3>1. PICK i \in DOMAIN Pairs : Pairs[i][2] = r
        BY <2>3, ConsolidationAssumption
      <3>2. i \in PairIds
        <4>1. Pairs \in Seq(RingIds \X RingIds)
          BY ConsolidationAssumption
        <4> QED BY <3>1, <4>1 DEF PairIds
      <3>3. Dst(i) = r
        BY <3>1 DEF Dst
      <3>4. Src(i) \in Roots
        BY <3>2 DEF TwoTiers
      <3>5. Dst(i)[2] = Src(i)[2] + 1
        <4>1. Pairs[i][2] = <<Pairs[i][1][1], Pairs[i][1][2] + 1>>
          BY <3>1, ConsolidationAssumption
        <4> QED BY <4>1 DEF Src, Dst
      <3>6. r[2] = 1
        BY <3>3, <3>4, <3>5 DEF Roots
      <3> QED BY <2>1, <3>2, <3>3, <3>6
    <2> QED BY <2>2, <2>3
  <1>4. a # b
    OBVIOUS
  <1>5. Tiers(s) = Cardinality(S)
    BY DEF Tiers
  <1> HIDE DEF S, a, b
  <1>6. CASE b \in S
    <2>1. S = {a} \cup {b} /\ b \notin {a}
      BY <1>2, <1>3, <1>4, <1>6
    <2>2. IsFiniteSet({a}) /\ Cardinality({a}) = 1
      BY FS_Singleton
    <2>3. Cardinality({a} \cup {b}) = 2
      <3> DEFINE one == {a}
      <3>1. IsFiniteSet(one) /\ Cardinality(one) = 1 /\ b \notin one
        BY <2>1, <2>2
      <3> HIDE DEF one
      <3>2. Cardinality(one \cup {b}) = IF b \in one THEN Cardinality(one) ELSE Cardinality(one) + 1
        BY <3>1, FS_AddElement
      <3>3. Cardinality(one \cup {b}) = 2
        BY <3>1, <3>2
      <3> QED BY <3>3 DEF one
    <2>4. \E i \in PairIds : Dst(i) = b
      BY <1>3, <1>4, <1>6
    <2> QED BY <1>2, <1>5, <2>1, <2>3, <2>4 DEF a, b
  <1>7. CASE b \notin S
    <2>1. S = {a}
      BY <1>2, <1>3, <1>7
    <2>2. Cardinality({a}) = 1
      BY FS_Singleton
    <2> QED BY <1>2, <1>5, <2>1, <2>2 DEF a
  <1> QED BY <1>6, <1>7

(* The answer to a query of tier k that reads ring q.                      *)
FromRing(answer, q, c, k, start, end) ==
  answer = QueryResult(read(q, c, start, end), k,
                       <<oldest_timestamp(q), newest_timestamp(q)>>, <<start, end>>,
                       analyze_coverage(q, start, end).may_be_incomplete)

(* A query that is not refused is such an answer.                          *)
LEMMA QueryShape ==
  ASSUME TwoTiers, NEW s \in Schemas, NEW view, NEW c, NEW k \in Nat,
         NEW start \in Nat, NEW end \in Nat,
         "error" \notin DOMAIN query(view, s, c, k, start, end)
  PROVE  /\ k \in {0, 1} /\ k < Tiers(s)
         /\ FromRing(query(view, s, c, k, start, end), view[<<s, k>>], c, k, start, end)
  <1>1. Tiers(s) \in {1, 2}
    BY TiersOfSchema
  <1>2. \A why : "error" \in DOMAIN Error(why)
    BY DEF Error
  <1>3. ~(k >= Tiers(s)) /\ ~(start >= end)
    BY <1>2 DEF query
  <1>4. FromRing(query(view, s, c, k, start, end), view[<<s, k>>], c, k, start, end)
    BY <1>3 DEF query, FromRing
  <1> QED BY <1>1, <1>3, <1>4

(* query_auto asks one of the tiers.                                       *)
LEMMA AutoShape ==
  ASSUME TwoTiers, NEW s \in Schemas, NEW view, NEW c, NEW start \in Nat, NEW end \in Nat,
         "error" \notin DOMAIN query_auto(view, s, c, start, end)
  PROVE  \E k \in {0, 1} :
           /\ k < Tiers(s)
           /\ FromRing(query_auto(view, s, c, start, end), view[<<s, k>>], c, k, start, end)
  <1> DEFINE k == SelectTier(view, s, start, end)
  <1>1. k \in Nat
    <2> DEFINE tiers == 0 .. Tiers(s) - 1
               covers == {x \in tiers : analyze_coverage(view[<<s, x>>], start, end).fully_covered}
               filled == {x \in tiers : /\ oldest_timestamp(view[<<s, x>>]) # 0
                                        /\ newest_timestamp(view[<<s, x>>]) # 0}
               first  == CHOOSE x \in covers : \A y \in covers : x <= y
               last   == CHOOSE x \in filled : \A y \in filled : y <= x
    <2>1. Tiers(s) \in {1, 2}
      BY TiersOfSchema
    <2>2. \A x \in tiers : x \in {0, 1}
      BY <2>1
    <2>3. k = IF covers # {} THEN first ELSE IF filled # {} THEN last ELSE 0
      BY DEF SelectTier
    <2>4. \A x \in covers : x \in {0, 1}
      BY <2>2
    <2>5. \A x \in filled : x \in {0, 1}
      BY <2>2
    <2> HIDE DEF covers, filled, k
    <2>6. covers # {} => \E x \in covers : \A y \in covers : x <= y
      <3>1. CASE 0 \in covers
        BY <2>4, <3>1
      <3>2. CASE 0 \notin covers
        <4>1. \A x \in covers : x = 1
          BY <2>4, <3>2
        <4> QED BY <4>1
      <3> QED BY <3>1, <3>2
    <2>7. filled # {} => \E x \in filled : \A y \in filled : y <= x
      <3>1. CASE 1 \in filled
        BY <2>5, <3>1
      <3>2. CASE 1 \notin filled
        <4>1. \A x \in filled : x = 0
          BY <2>5, <3>2
        <4> QED BY <4>1
      <3> QED BY <3>1, <3>2
    <2>8. covers # {} => first \in covers
      BY <2>6
    <2>9. filled # {} => last \in filled
      BY <2>7
    <2> HIDE DEF first, last
    <2> QED BY <2>3, <2>4, <2>5, <2>8, <2>9
  <1> HIDE DEF k
  <1>2. ~(start >= end)
    <2>1. "error" \in DOMAIN Error("InvalidTimeRange")
      BY DEF Error
    <2> QED BY <2>1 DEF query_auto
  <1>3. query_auto(view, s, c, start, end) = query(view, s, c, k, start, end)
    BY <1>2 DEF query_auto, k
  <1>4. "error" \notin DOMAIN query(view, s, c, k, start, end)
    BY <1>3
  <1>5. /\ k \in {0, 1} /\ k < Tiers(s)
        /\ FromRing(query(view, s, c, k, start, end), view[<<s, k>>], c, k, start, end)
    BY <1>1, <1>4, QueryShape
  <1> QED BY <1>3, <1>5

(* An answer is from one ring, as its owner or as a start of the process   *)
(* sees it.                                                                *)
LEMMA AnswerShape ==
  ASSUME TwoTiers, NEW s \in Schemas, NEW c \in Columns, NEW answer \in Answers(s, c)
  PROVE  \E k \in {0, 1} : \E start \in Nat, end \in Nat : \E q :
           k < Tiers(s) /\ Seen(<<s, k>>, q) /\ FromRing(answer, q, c, k, start, end)
  <1>1. "error" \notin DOMAIN answer
    BY DEF Answers
  <1>2. \A x \in Times : x \in Nat
    BY QueryAssumption DEF Times
  <1>3. Tiers(s) \in {1, 2}
    BY TiersOfSchema
  <1>4. \A k \in {0, 1} : k < Tiers(s) => <<s, k>> \in RingIds
    <2>1. <<s, 0>> \in RingIds
      BY TiersOfSchema DEF Roots
    <2>2. Tiers(s) = 2 => <<s, 1>> \in RingIds
      BY TiersOfSchema, PairFacts
    <2> QED BY <1>3, <2>1, <2>2
  <1>5. ASSUME NEW k \in {0, 1}, k < Tiers(s)
        PROVE  Seen(<<s, k>>, ToolView[<<s, k>>])
    BY <1>4, <1>5 DEF Seen, ToolView
  <1>6. CASE \E tier \in {AutoTier} \cup 0 .. Tiers(s), range \in Times \cup {Forever}, now \in Times :
               answer = cmd_query(s, c, tier, range, now)
    <2>1. PICK tier \in {AutoTier} \cup 0 .. Tiers(s), range \in Times \cup {Forever}, now \in Times :
            answer = cmd_query(s, c, tier, range, now)
      BY <1>6
    <2>2. range \in Nat /\ now \in Nat
      BY <1>2, QueryAssumption
    <2>3. PICK start \in Nat, end \in Nat :
            answer = IF tier = AutoTier THEN query_auto(ToolView, s, c, start, end)
                                        ELSE query(ToolView, s, c, tier, start, end)
      <3> DEFINE b == IF range = Forever \/ range > now THEN 0 ELSE now - range
                 e == IF range = Forever THEN Forever ELSE now
      <3>1. b \in Nat /\ e \in Nat
        BY <2>2, QueryAssumption
      <3>2. answer = IF tier = AutoTier THEN query_auto(ToolView, s, c, b, e)
                                        ELSE query(ToolView, s, c, tier, b, e)
        BY <2>1 DEF cmd_query
      <3> QED BY <3>1, <3>2
    <2>4. CASE tier = AutoTier
      <3>1. answer = query_auto(ToolView, s, c, start, end)
        BY <2>3, <2>4
      <3>2. "error" \notin DOMAIN query_auto(ToolView, s, c, start, end)
        BY <1>1, <3>1
      <3>3. PICK k \in {0, 1} :
              k < Tiers(s) /\ FromRing(query_auto(ToolView, s, c, start, end),
                                       ToolView[<<s, k>>], c, k, start, end)
        BY <3>2, AutoShape
      <3> QED BY <1>5, <3>1, <3>3
    <2>5. CASE tier # AutoTier
      <3>1. answer = query(ToolView, s, c, tier, start, end) /\ tier \in Nat
        BY <1>3, <2>3, <2>5
      <3>2. "error" \notin DOMAIN query(ToolView, s, c, tier, start, end)
        BY <1>1, <3>1
      <3>3. /\ tier \in {0, 1} /\ tier < Tiers(s)
            /\ FromRing(query(ToolView, s, c, tier, start, end),
                        ToolView[<<s, tier>>], c, tier, start, end)
        BY <3>1, <3>2, QueryShape
      <3> QED BY <1>5, <3>1, <3>3
    <2> QED BY <2>4, <2>5
  <1>7. CASE job = Idle /\ \E start \in Times, end \in Times :
               answer = query_auto(rings, s, c, start, end)
    <2>1. PICK start \in Times, end \in Times : answer = query_auto(rings, s, c, start, end)
      BY <1>7
    <2>2. start \in Nat /\ end \in Nat
      BY <1>2
    <2>3. "error" \notin DOMAIN query_auto(rings, s, c, start, end)
      BY <1>1, <2>1
    <2>4. PICK k \in {0, 1} :
            k < Tiers(s) /\ FromRing(query_auto(rings, s, c, start, end),
                                     rings[<<s, k>>], c, k, start, end)
      BY <2>2, <2>3, AutoShape
    <2>5. Seen(<<s, k>>, rings[<<s, k>>])
      BY <1>7 DEF Seen
    <2> QED BY <2>1, <2>2, <2>4, <2>5
  <1>8. CASE job = Idle /\ \E start \in Times : answer = handle_query(s, c, start, Forever)
    <2>1. PICK start \in Times : answer = query(rings, s, c, 0, start, Forever)
      BY <1>8 DEF handle_query
    <2>2. start \in Nat /\ Forever \in Nat
      BY <1>2, QueryAssumption
    <2>3. "error" \notin DOMAIN query(rings, s, c, 0, start, Forever)
      BY <1>1, <2>1
    <2>4. 0 < Tiers(s) /\ FromRing(query(rings, s, c, 0, start, Forever),
                                   rings[<<s, 0>>], c, 0, start, Forever)
      BY <2>2, <2>3, QueryShape
    <2>5. Seen(<<s, 0>>, rings[<<s, 0>>])
      BY <1>8 DEF Seen
    <2> QED BY <2>1, <2>2, <2>4, <2>5
  <1> QED BY <1>6, <1>7, <1>8 DEF Answers

(* With one series on the grid of the first tier, in stores of two tiers,  *)
(* and callers that consolidate at the ends of windows before the first    *)
(* tier loses a point: an answer that is not called incomplete has every   *)
(* point recorded in its range and consolidated by a completed call,       *)
(* whichever tier it is from, whether the owner or another process asks,   *)
(* at any point of a call and after any crash - as long as the windows fit *)
(* the tier and none between two others is empty.                          *)
THEOREM AnswersAreComplete ==
  TwoTiers /\ OneColumn /\ RootsAligned /\ BoundarySpec => []CompleteUnlessFlagged
  <1>1. AnswerInv => CompleteUnlessFlagged
    <2> SUFFICES ASSUME AnswerInv, cursorFile # EmptyFile, NEW s \in Schemas, NEW c \in Columns,
                        NEW answer \in Answers(s, c), ~answer.may_be_incomplete,
                        Fits(<<s, answer.tier_used>>, c),
                        answer.tier_used > 0 => NoEmptyWindow(<<s, answer.tier_used>>, c),
                        NEW t \in Due(s, c, answer)
                 PROVE  t \in Represented(answer)
      BY DEF CompleteUnlessFlagged
    <2>1. TwoTiers /\ OneColumn /\ RootsAligned /\ Shape /\ SkipInv
      BY FullFacts DEF AnswerInv
    <2>2. PICK k \in {0, 1}, start \in Nat, end \in Nat :
            \E q : k < Tiers(s) /\ Seen(<<s, k>>, q) /\ FromRing(answer, q, c, k, start, end)
      BY <2>1, AnswerShape
    <2>3. PICK q : k < Tiers(s) /\ Seen(<<s, k>>, q) /\ FromRing(answer, q, c, k, start, end)
      BY <2>2
    <2>4. /\ answer.tier_used = k /\ answer.requested_range[1] = start
          /\ answer.requested_range[2] = end /\ answer.points = read(q, c, start, end)
          /\ answer.may_be_incomplete = analyze_coverage(q, start, end).may_be_incomplete
      BY <2>3 DEF FromRing, QueryResult
    <2>5. newest_timestamp(q) # 0 /\ ~(start < oldest_timestamp(q))
      BY <2>4 DEF analyze_coverage
    <2>6. InAnswer(q, c, start, end, t) => t \in Represented(answer)
      BY <2>4 DEF InAnswer, Represented
    <2>7. <<s, 0>> \in Roots /\ Tiers(s) \in {1, 2}
      BY <2>1, TiersOfSchema
    <2>8. CASE k = 0
      <3> DEFINE r == <<s, 0>>
                 w == IntervalNs[r]
      <3>1. t \in recorded[r][c] /\ (t \div w) * w \in start .. end - 1
        BY <2>4, <2>8 DEF Due
      <3>2. t \in Timestamps /\ t \in Nat
        <4>1. recorded[r][c] \subseteq Timestamps
          BY <2>1, <2>7 DEF SkipInv
        <4> QED BY <3>1, <4>1, ConsolidationAssumption
      <3>3. (t \div w) * w = t
        <4> DEFINE j == t \div w
        <4>1. w \in Nat \ {0} /\ t % w = 0
          BY <2>1, <2>7, <3>2, RootShape DEF RootsAligned
        <4>2. j \in Nat /\ t = w * j + (t % w)
          BY <3>2, <4>1, DivNat, DivMod
        <4> HIDE DEF w, j
        <4>3. t = j * w
          BY <3>2, <4>1, <4>2
        <4> QED BY <4>3 DEF j
      <3>4. Fits(r, c) /\ Seen(r, q)
        BY <2>3, <2>4, <2>8
      <3>5. t \in start .. end - 1
        BY <3>1, <3>3
      <3> HIDE DEF r
      <3>6. InAnswer(q, c, start, end, t)
        BY <2>5, <2>7, <3>1, <3>4, <3>5, PointsAnswered DEF r
      <3> QED BY <2>6, <3>6
    <2>9. CASE k = 1
      <3>1. PICK i \in PairIds : Dst(i) = <<s, 1>>
        BY <2>1, <2>3, <2>7, <2>9, TiersOfSchema
      <3>2. <<s, 0>> = Src(i)
        <4>1. <<Dst(i)[1], 0>> = Src(i)
          BY <2>1, PairRoot
        <4> QED BY <3>1, <4>1
      <3>3. {cursorFile[j] : j \in {x \in PairIds : Dst(x) = <<s, 1>>}} = {cursorFile[i]}
        <4>1. {x \in PairIds : Dst(x) = <<s, 1>>} = {i}
          BY <3>1, OneSource
        <4> QED BY <4>1
      <3>4. /\ t \in recorded[Src(i)][c] /\ t <= cursorFile[i]
            /\ WindowStart(i, t) \in start .. end - 1
        BY <2>4, <2>9, <3>1, <3>2, <3>3 DEF Due, WindowStart
      <3>5. Dense(i)
        BY <2>1, <2>4, <2>9, <3>1 DEF Dense, OneColumn
      <3>6. Seen(Dst(i), q)
        BY <2>3, <2>9, <3>1
      <3>7. InAnswer(q, c, start, end, t)
        BY <2>5, <3>4, <3>5, <3>6, WindowsAnswered
      <3> QED BY <2>6, <3>7
    <2> QED BY <2>8, <2>9
  <1> QED BY AnswerInit, AnswerStep, <1>1, PTL DEF BoundarySpec
=============================================================================
