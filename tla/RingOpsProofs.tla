---------------------------- MODULE RingOpsProofs ----------------------------
(***************************************************************************)
(* Facts about the operators of RingOps, for rings of any size: where a    *)
(* call goes, what it leaves of a ring, which slots an iteration visits    *)
(* and which points a read returns.  The proofs about the specifications   *)
(* that use rings rest on them.                                            *)
(***************************************************************************)
EXTENDS RingOps, FiniteSetTheorems, WellFoundedInduction, TLAPS

-----------------------------------------------------------------------------
(* Arithmetic of slots.                                                    *)

(* The interval of a timestamp is a natural number.                        *)
LEMMA DivNat ==
  ASSUME NEW a \in Nat, NEW d \in Nat \ {0}
  PROVE  a \div d \in Nat
  OBVIOUS

(* A remainder names a slot of the slab.                                   *)
LEMMA ModRange ==
  ASSUME NEW a \in Nat, NEW n \in Nat \ {0}
  PROVE  a % n \in 0 .. n - 1
  OBVIOUS

(* Quotient and remainder determine the number.                            *)
LEMMA DivMod ==
  ASSUME NEW a \in Nat, NEW n \in Nat \ {0}
  PROVE  a = n * (a \div n) + (a % n)
  OBVIOUS

(* A slot, and the slot one lap later, is that slot.                       *)
LEMMA ModSmall ==
  ASSUME NEW n \in Nat \ {0}, NEW a \in 0 .. n - 1
  PROVE  a % n = a /\ (a + n) % n = a
  OBVIOUS

(* Two different intervals of one slot are at least one lap apart.         *)
LEMMA ModDistinct ==
  ASSUME NEW n \in Nat \ {0}, NEW a \in Nat, NEW b \in Nat, a % n = b % n, a < b
  PROVE  a + n <= b
  <1> DEFINE qa == a \div n
             qb == b \div n
             m  == a % n
  <1>1. /\ qa \in Nat /\ qb \in Nat /\ m \in Nat
        /\ a = n * qa + m /\ b = n * qb + m
    <2>1. qa \in Nat /\ qb \in Nat
      BY DivNat
    <2>2. m \in 0 .. n - 1
      BY ModRange
    <2>3. a = n * qa + m
      BY DivMod
    <2>4. b = n * qb + (b % n)
      BY DivMod
    <2> QED BY <2>1, <2>2, <2>3, <2>4
  <1> HIDE DEF qa, qb, m
  <1>2. qa + 1 <= qb
    <2>1. CASE qb <= qa
      <3>1. n * qb <= n * qa
        BY <1>1, <2>1
      <3> QED BY <1>1, <3>1
    <2> QED BY <1>1, <2>1
  <1>3. PICK k \in Nat : qb = qa + 1 + k
    <2>1. qb - qa - 1 \in Nat /\ qb = qa + 1 + (qb - qa - 1)
      BY <1>1, <1>2
    <2> QED BY <2>1
  <1>4. n * qb = n * qa + n + n * k /\ n * k \in Nat /\ n * qa \in Nat
    BY <1>1, <1>3
  <1> QED BY <1>1, <1>4

(* A multiple below another one is below it by the whole width.            *)
LEMMA MultipleGap ==
  ASSUME NEW d \in Nat \ {0}, NEW a \in Nat, NEW b \in Nat, d * a < d * b
  PROVE  d * a + d <= d * b
  <1>1. CASE b <= a
    <2>1. PICK k \in Nat : a = b + k
      <3>1. a - b \in Nat /\ a = b + (a - b)
        BY <1>1
      <3> QED BY <3>1
    <2>2. d * a = d * b + d * k /\ d * k \in Nat /\ d * b \in Nat
      BY <2>1
    <2> QED BY <2>2
  <1>2. CASE a < b
    <2>1. PICK k \in Nat : b = a + 1 + k
      <3>1. b - a - 1 \in Nat /\ b = a + 1 + (b - a - 1)
        BY <1>2
      <3> QED BY <3>1
    <2>2. d * b = d * a + d + d * k /\ d * k \in Nat /\ d * a \in Nat
      BY <2>1
    <2> QED BY <2>2
  <1> QED BY <1>1, <1>2

(* A multiple of the width leaves no remainder.                            *)
LEMMA MultipleMod ==
  ASSUME NEW d \in Nat \ {0}, NEW q \in Nat
  PROVE  (d * q) % d = 0
  <1> DEFINE p == d * q
             e == p \div d
             m == p % d
  <1>1. p \in Nat
    OBVIOUS
  <1>2. e \in Nat /\ m \in 0 .. d - 1 /\ p = d * e + m
    BY <1>1, DivNat, ModRange, DivMod
  <1>3. d * q = d * e + m
    BY <1>2
  <1> HIDE DEF e, m, p
  <1>4. d * e \in Nat /\ d * q \in Nat
    BY <1>2
  <1>5. m = 0
    <2>1. CASE d * e < d * q
      <3>1. d * e + d <= d * q
        BY <1>2, <2>1, MultipleGap
      <3> QED BY <1>2, <1>3, <1>4, <3>1
    <2> QED BY <1>2, <1>3, <1>4, <2>1
  <1> QED BY <1>5 DEF m, p

(* Later timestamps are in later intervals.                                *)
LEMMA DivMonotone ==
  ASSUME NEW a \in Nat, NEW b \in Nat, NEW d \in Nat \ {0}, a <= b
  PROVE  a \div d <= b \div d
  <1> DEFINE qa == a \div d
             qb == b \div d
             ra == a % d
             rb == b % d
  <1>1. qa \in Nat /\ qb \in Nat /\ ra \in 0 .. d - 1 /\ rb \in 0 .. d - 1
    BY DivNat, ModRange
  <1>2. a = d * qa + ra
    BY DivMod
  <1>3. b = d * qb + rb
    BY DivMod
  <1> HIDE DEF qa, qb, ra, rb
  <1>4. CASE qb + 1 <= qa
    <2>1. PICK k \in Nat : qa = qb + 1 + k
      <3>1. qa - qb - 1 \in Nat /\ qa = qb + 1 + (qa - qb - 1)
        BY <1>1, <1>4
      <3> QED BY <3>1
    <2>2. d * qa = d * qb + d + d * k /\ d * k \in Nat /\ d * qb \in Nat
      BY <1>1, <2>1
    <2> QED BY <1>1, <1>2, <1>3, <2>2
  <1> QED BY <1>1, <1>4 DEF qa, qb

(* The slot after a slot.                                                  *)
LEMMA NextSlot ==
  ASSUME NEW n \in Nat \ {0}, NEW a \in Nat, NEW b, b = a + 1
  PROVE  b % n = IF (a % n) + 1 = n THEN 0 ELSE (a % n) + 1
  <1> DEFINE m == a % n
             q == a \div n
  <1>1. m \in 0 .. n - 1 /\ q \in Nat
    BY ModRange, DivNat
  <1>2. a = n * q + m
    BY DivMod
  <1>5. b = a + 1 /\ b \in Nat
    OBVIOUS
  <1> DEFINE mb == b % n
             qb == b \div n
  <1>3. mb \in 0 .. n - 1 /\ qb \in Nat
    BY <1>5, ModRange, DivNat
  <1>4. b = n * qb + mb
    BY <1>5, DivMod
  <1> HIDE DEF m, q, mb, qb
  <1>6. n * q \in Nat /\ n * qb \in Nat /\ n * (q + 1) = n * q + n
    BY <1>1, <1>3
  <1>7. CASE n * q < n * qb
    <2>1. n * q + n <= n * qb
      BY <1>1, <1>3, <1>7, MultipleGap
    <2>2. mb = 0 /\ m + 1 = n
      BY <1>1, <1>2, <1>3, <1>4, <1>5, <1>6, <2>1
    <2> QED BY <2>2 DEF m, mb
  <1>8. CASE n * qb < n * q
    <2>1. n * qb + n <= n * q
      BY <1>1, <1>3, <1>8, MultipleGap
    <2> QED BY <1>1, <1>2, <1>3, <1>4, <1>5, <1>6, <2>1
  <1>9. CASE n * q = n * qb
    <2>1. mb = m + 1 /\ m + 1 # n
      BY <1>1, <1>2, <1>3, <1>4, <1>5, <1>6, <1>9
    <2> QED BY <2>1 DEF m, mb
  <1> QED BY <1>6, <1>7, <1>8, <1>9

(* A slot number that runs at most one lap over.                           *)
LEMMA LapOver ==
  ASSUME NEW n \in Nat \ {0}, NEW x \in Nat, x < n + n
  PROVE  x % n = IF x < n THEN x ELSE x - n
  <1>1. CASE x < n
    BY <1>1, ModSmall
  <1>2. CASE ~(x < n)
    <2> DEFINE a == x - n
    <2>1. a \in 0 .. n - 1 /\ x = a + n
      BY <1>2
    <2> HIDE DEF a
    <2>2. (a + n) % n = a
      BY <2>1, ModSmall
    <2>3. x % n = a
      BY <2>1, <2>2
    <2> QED BY <1>2, <2>1, <2>3
  <1> QED BY <1>1, <1>2

(* A number is a lap count and a slot in one way only.                     *)
LEMMA RemainderUnique ==
  ASSUME NEW n \in Nat \ {0}, NEW q \in Nat, NEW m \in 0 .. n - 1, NEW x, x = n * q + m
  PROVE  x \in Nat /\ x % n = m
  <1> DEFINE q2 == x \div n
             m2 == x % n
  <1>1. x \in Nat
    OBVIOUS
  <1>2. q2 \in Nat /\ m2 \in 0 .. n - 1 /\ x = n * q2 + m2
    BY <1>1, DivNat, ModRange, DivMod
  <1> HIDE DEF q2, m2
  <1> DEFINE a == n * q
             b == n * q2
  <1>3. a \in Nat /\ b \in Nat /\ a + m = b + m2
    BY <1>2
  <1>4. ~(a < b)
    <2>1. a < b => a + n <= b
      BY <1>2, MultipleGap
    <2> HIDE DEF a, b
    <2> QED BY <1>2, <1>3, <2>1
  <1>5. ~(b < a)
    <2>1. b < a => b + n <= a
      BY <1>2, MultipleGap
    <2> HIDE DEF a, b
    <2> QED BY <1>2, <1>3, <2>1
  <1> HIDE DEF a, b
  <1>6. m = m2
    BY <1>2, <1>3, <1>4, <1>5
  <1> QED BY <1>1, <1>6 DEF m2

(* Every slot comes round within one lap.                                  *)
LEMMA NextInSlot ==
  ASSUME NEW n \in Nat \ {0}, NEW a \in Nat, NEW b \in Nat
  PROVE  \E q \in Nat : a < q /\ q <= a + n /\ q % n = b % n
  <1> DEFINE laps == a \div n
             ma == a % n
             mb == b % n
  <1>1. laps \in Nat /\ ma \in 0 .. n - 1 /\ mb \in 0 .. n - 1 /\ a = n * laps + ma
    BY DivNat, ModRange, DivMod
  <1> HIDE DEF laps, ma, mb
  <1>2. CASE ma < mb
    <2> DEFINE q == n * laps + mb
    <2>1. q \in Nat /\ q % n = mb
      BY <1>1, RemainderUnique
    <2>2. n * laps \in Nat
      BY <1>1
    <2>3. a < q /\ q <= a + n
      BY <1>1, <1>2, <2>2
    <2> QED BY <2>1, <2>3 DEF mb
  <1>3. CASE ~(ma < mb)
    <2> DEFINE next == laps + 1
               q == n * next + mb
    <2>1. next \in Nat
      BY <1>1
    <2>2. n * laps \in Nat /\ n * next = n * laps + n
      BY <1>1
    <2> HIDE DEF next
    <2>3. q \in Nat /\ q % n = mb
      BY <1>1, <2>1, RemainderUnique
    <2>4. a < q /\ q <= a + n
      BY <1>1, <1>3, <2>2
    <2> QED BY <2>3, <2>4 DEF mb
  <1> QED BY <1>2, <1>3

(* Of some naturals one is the least.                                      *)
LEMMA LeastNat ==
  ASSUME NEW S \in SUBSET Nat, S # {}
  PROVE  \E s \in S : \A o \in S : s <= o
  <1>1. IsWellFoundedOn(OpToRel(<, Nat), Nat)
    BY NatLessThanWellFounded
  <1>2. PICK s \in S : \A o \in S : <<o, s>> \notin OpToRel(<, Nat)
    <2> HIDE DEF OpToRel
    <2> QED BY <1>1, WFMin
  <1>3. ASSUME NEW o \in S PROVE s <= o
    <2>1. s \in Nat /\ o \in Nat
      OBVIOUS
    <2>2. o < s => <<o, s>> \in OpToRel(<, Nat)
      BY <2>1, Zenon DEF OpToRel
    <2>3. ~(o < s)
      BY <1>2, <2>2, Zenon
    <2> QED BY <2>1, <2>3
  <1> QED BY <1>2, <1>3

(* An iteration that starts after the cursor comes past every slot.        *)
LEMMA FullLap ==
  ASSUME NEW n \in Nat \ {0}, NEW cursor \in 0 .. n - 1, NEW s \in 0 .. n - 1
  PROVE  \E k \in 1 .. n : (cursor + k) % n = s
  <1>1. CASE s > cursor
    <2>1. s - cursor \in 1 .. n /\ cursor + (s - cursor) = s
      BY <1>1
    <2>2. s % n = s
      BY ModSmall
    <2> QED BY <2>1, <2>2
  <1>2. CASE s <= cursor
    <2>1. s + n - cursor \in 1 .. n /\ cursor + (s + n - cursor) = s + n
      BY <1>2
    <2>2. (s + n) % n = s
      BY ModSmall
    <2> QED BY <2>1, <2>2
  <1> QED BY <1>1, <1>2

-----------------------------------------------------------------------------
(* What the calls leave of a ring.                                         *)

(* The fields of a ring.                                                   *)
LEMMA RingShape ==
  ASSUME NEW n, NEW width, NEW cols, NEW vals, NEW r \in RingType(n, width, cols, vals)
  PROVE  /\ r.slot_count = n /\ r.interval_ns = width
         /\ r.write_cursor \in 0 .. n - 1
         /\ r.timestamps \in [0 .. n - 1 -> Nat]
         /\ r.values \in [0 .. n - 1 -> [cols -> vals \cup {NaN}]]
         /\ r.has_wrapped \in BOOLEAN
         /\ Slots(r) = 0 .. n - 1
  BY DEF RingType, Slots

(* A fresh slab.                                                           *)
LEMMA CreateShape ==
  ASSUME NEW n \in Nat \ {0}, NEW width, NEW cols, NEW vals
  PROVE  create(n, width, cols) \in RingType(n, width, cols, vals)
  BY DEF create, RingType

(* compute_slot always names a slot of the slab.                           *)
LEMMA ComputedSlot ==
  ASSUME NEW n \in Nat \ {0}, NEW width \in Nat \ {0}, NEW cols, NEW vals,
         NEW r \in RingType(n, width, cols, vals), NEW t \in Nat
  PROVE  /\ compute_slot(r, t) = (t \div width) % n
         /\ compute_slot(r, t) \in 0 .. n - 1
  <1>1. compute_slot(r, t) = (t \div width) % n
    BY DEF compute_slot, RingType
  <1> QED BY <1>1, DivNat, ModRange

(* The fields of a ring after a call: the cursor always moves to the slot  *)
(* of the call.                                                            *)
LEMMA WriteShape ==
  ASSUME NEW n \in Nat \ {0}, NEW width \in Nat \ {0}, NEW cols, NEW vals,
         NEW r \in RingType(n, width, cols, vals), NEW t \in Nat, NEW entries,
         \A c \in DOMAIN entries : entries[c] \in vals \cup {NaN}
  PROVE  LET s == compute_slot(r, t)
             w == write_entries(r, entries, t)
         IN  /\ w \in RingType(n, width, cols, vals)
             /\ w.write_cursor = s
             /\ w.timestamps = [r.timestamps EXCEPT ![s] = t]
             /\ w.values = [r.values EXCEPT ![s] =
                              [c \in cols |-> IF c \in DOMAIN entries
                                                 THEN entries[c] ELSE r.values[s][c]]]
             /\ w.has_wrapped <=> (r.has_wrapped \/ s < r.write_cursor)
  <1> DEFINE s == compute_slot(r, t)
             w == write_entries(r, entries, t)
             row == [c \in cols |-> IF c \in DOMAIN entries
                                       THEN entries[c] ELSE r.values[s][c]]
             wrapped == r.has_wrapped \/ s < r.write_cursor
  <1>1. s \in 0 .. n - 1
    BY ComputedSlot
  <1>2. /\ r.slot_count = n /\ r.interval_ns = width
        /\ r.write_cursor \in 0 .. n - 1
        /\ r.timestamps \in [0 .. n - 1 -> Nat]
        /\ r.values \in [0 .. n - 1 -> [cols -> vals \cup {NaN}]]
        /\ r.has_wrapped \in BOOLEAN
    BY DEF RingType
  <1>3. row \in [cols -> vals \cup {NaN}]
    <2>1. r.values[s] \in [cols -> vals \cup {NaN}]
      BY <1>1, <1>2
    <2>2. ASSUME NEW c \in cols
          PROVE  (IF c \in DOMAIN entries THEN entries[c] ELSE r.values[s][c])
                    \in vals \cup {NaN}
      BY <2>1
    <2> QED BY <2>2
  <1>4. w = [slot_count |-> n, interval_ns |-> width,
             write_cursor |-> s,
             timestamps |-> [r.timestamps EXCEPT ![s] = t],
             values |-> [r.values EXCEPT ![s] = row],
             has_wrapped |-> wrapped]
    <2>1. DOMAIN r.values[s] = cols
      BY <1>1, <1>2
    <2>2. wrapped \/ s >= r.write_cursor
      BY <1>1, <1>2
    <2> QED BY <1>2, <2>1, <2>2 DEF write_entries
  <1>5. /\ [r.timestamps EXCEPT ![s] = t] \in [0 .. n - 1 -> Nat]
        /\ [r.values EXCEPT ![s] = row] \in [0 .. n - 1 -> [cols -> vals \cup {NaN}]]
        /\ wrapped \in BOOLEAN
    BY <1>1, <1>2, <1>3
  <1> HIDE DEF s, w, row, wrapped
  <1>6. w \in RingType(n, width, cols, vals)
    BY <1>1, <1>4, <1>5 DEF RingType
  <1>7. /\ w.write_cursor = s
        /\ w.timestamps = [r.timestamps EXCEPT ![s] = t]
        /\ w.values = [r.values EXCEPT ![s] = row]
        /\ w.has_wrapped = wrapped
    BY <1>4
  <1> QED BY <1>6, <1>7 DEF s, w, row, wrapped

(* reopen only guesses has_wrapped anew.                                   *)
LEMMA ReopenShape ==
  ASSUME NEW n, NEW width, NEW cols, NEW vals, NEW r \in RingType(n, width, cols, vals)
  PROVE  /\ reopen(r) \in RingType(n, width, cols, vals)
         /\ reopen(r).write_cursor = r.write_cursor
         /\ reopen(r).timestamps = r.timestamps
         /\ reopen(r).values = r.values
  BY DEF reopen, RingType

-----------------------------------------------------------------------------
(* What a read returns.                                                    *)

(* The positions Ascending lists are those of the set, each once and in    *)
(* ascending order.                                                        *)
LEMMA AscendingFacts ==
  ASSUME NEW n \in Nat, NEW K \in SUBSET (1 .. n)
  PROVE  /\ Cardinality(K) \in Nat
         /\ Ascending(K) \in [1 .. Cardinality(K) -> K]
         /\ \A i, j \in 1 .. Cardinality(K) : i < j => Ascending(K)[i] < Ascending(K)[j]
         /\ \A k \in K : \E i \in 1 .. Cardinality(K) : Ascending(K)[i] = k
  <1> DEFINE m == Cardinality(K)
             upto(k) == K \cap 1 .. k
             rank == [k \in K |-> Cardinality(upto(k))]
  <1>1. IsFiniteSet(K)
    <2>1. IsFiniteSet(1 .. n)
      BY FS_Interval
    <2> QED BY <2>1, FS_Subset
  <1>2. m \in Nat
    BY <1>1, FS_CardinalityType
  <1>3. ASSUME NEW k \in K PROVE rank[k] \in 1 .. m
    <2>1. IsFiniteSet(upto(k)) /\ Cardinality(upto(k)) <= m
      BY <1>1, FS_Subset
    <2>2. k \in upto(k)
      OBVIOUS
    <2>3. Cardinality(upto(k)) # 0
      BY <2>1, <2>2, FS_EmptySet
    <2>4. Cardinality(upto(k)) \in Nat
      BY <2>1, FS_CardinalityType
    <2> QED BY <1>2, <2>1, <2>3, <2>4
  <1>4. ASSUME NEW j \in K, NEW k \in K, j < k PROVE rank[j] < rank[k]
    <2>1. upto(j) \in SUBSET upto(k) /\ upto(j) # upto(k)
      <3>1. k \in upto(k) /\ k \notin upto(j)
        BY <1>4
      <3>2. upto(j) \subseteq upto(k)
        BY <1>4
      <3> QED BY <3>1, <3>2
    <2>2. IsFiniteSet(upto(k))
      BY <1>1, FS_Subset
    <2>3. Cardinality(upto(j)) <= Cardinality(upto(k)) /\ Cardinality(upto(j)) # Cardinality(upto(k))
      BY <2>1, <2>2, FS_Subset
    <2>4. rank[j] \in Nat /\ rank[k] \in Nat
      BY <1>2, <1>3
    <2> HIDE DEF upto
    <2> QED BY <2>3, <2>4
  <1> HIDE DEF rank, upto
  <1>5. rank \in Injection(K, 1 .. m)
    <2>1. rank \in [K -> 1 .. m]
      BY <1>3 DEF rank
    <2>2. ASSUME NEW j \in K, NEW k \in K, rank[j] = rank[k] PROVE j = k
      <3>1. rank[j] \in Nat /\ rank[k] \in Nat
        BY <1>2, <1>3
      <3> QED BY <1>4, <2>2, <3>1
    <2> QED BY <2>1, <2>2 DEF Injection, IsInjective
  <1>6. rank \in Surjection(K, 1 .. m)
    <2>1. IsFiniteSet(1 .. m) /\ Cardinality(1 .. m) = m
      BY <1>2, FS_Interval
    <2> QED BY <1>5, <2>1, FS_Injection
  <1>7. ASSUME NEW i \in 1 .. m
        PROVE  Ascending(K)[i] \in K /\ rank[Ascending(K)[i]] = i
    <2>1. \E k \in K : Cardinality(upto(k)) = i
      BY <1>6 DEF Surjection, rank
    <2>2. Ascending(K)[i] = CHOOSE k \in K : Cardinality(upto(k)) = i
      BY DEF Ascending, upto
    <2>3. Ascending(K)[i] \in K /\ Cardinality(upto(Ascending(K)[i])) = i
      BY <2>1, <2>2
    <2> QED BY <2>3 DEF rank
  <1>8. Ascending(K) \in [1 .. m -> K]
    BY <1>7 DEF Ascending
  <1>9. ASSUME NEW i \in 1 .. m, NEW j \in 1 .. m, i < j
         PROVE  Ascending(K)[i] < Ascending(K)[j]
    <2> DEFINE a == Ascending(K)[i]
               b == Ascending(K)[j]
    <2>1. a \in K /\ b \in K /\ rank[a] = i /\ rank[b] = j
      BY <1>7
    <2> HIDE DEF a, b
    <2>2. ~(b < a) /\ b # a
      BY <1>4, <1>9, <2>1
    <2>3. a < b
      BY <2>1, <2>2
    <2> QED BY <2>3 DEF a, b
  <1>10. ASSUME NEW k \in K PROVE \E i \in 1 .. m : Ascending(K)[i] = k
    <2>1. rank[k] \in 1 .. m
      BY <1>3
    <2>2. rank[Ascending(K)[rank[k]]] = rank[k] /\ Ascending(K)[rank[k]] \in K
      BY <1>7, <2>1
    <2>3. Ascending(K)[rank[k]] = k
      BY <1>5, <2>2 DEF Injection, IsInjective
    <2> QED BY <2>1, <2>3
  <1> QED BY <1>2, <1>8, <1>9, <1>10

(* The slots an iteration visits, m of the n there are: each of a wrapped  *)
(* ring, those up to the cursor otherwise, none of an empty one.           *)
Visits(r, n, m) ==
  /\ IterationOrder(r) \in [1 .. m -> 0 .. n - 1]
  /\ m = IF is_empty(r) THEN 0 ELSE IF r.has_wrapped THEN n ELSE r.write_cursor + 1
  /\ \A k \in 1 .. m :
       IterationOrder(r)[k] = IF r.has_wrapped THEN (r.write_cursor + k) % n ELSE k - 1

(* Every iteration is like that.                                           *)
LEMMA OrderFacts ==
  ASSUME NEW n \in Nat \ {0}, NEW width, NEW cols, NEW vals,
         NEW r \in RingType(n, width, cols, vals)
  PROVE  \E m \in 0 .. n : Visits(r, n, m)
  <1> DEFINE m == IF is_empty(r) THEN 0 ELSE IF r.has_wrapped THEN n ELSE r.write_cursor + 1
  <1>1. r.slot_count = n /\ r.write_cursor \in 0 .. n - 1
    BY DEF RingType
  <1>2. m \in 0 .. n
    BY <1>1
  <1>3. CASE is_empty(r)
    <2>1. IterationOrder(r) = << >> /\ m = 0
      BY <1>3 DEF IterationOrder
    <2>2. << >> \in [1 .. 0 -> 0 .. n - 1]
      OBVIOUS
    <2> QED BY <1>2, <1>3, <2>1, <2>2 DEF Visits
  <1>4. CASE ~is_empty(r) /\ r.has_wrapped
    <2>1. IterationOrder(r) = [k \in 1 .. n |-> (r.write_cursor + k) % n] /\ m = n
      BY <1>1, <1>4 DEF IterationOrder
    <2>2. \A k \in 1 .. n : (r.write_cursor + k) % n \in 0 .. n - 1
      <3> TAKE k \in 1 .. n
      <3>1. r.write_cursor + k \in Nat
        BY <1>1
      <3> QED BY <3>1, ModRange
    <2> QED BY <1>2, <1>4, <2>1, <2>2 DEF Visits
  <1>5. CASE ~is_empty(r) /\ ~r.has_wrapped
    <2>1. IterationOrder(r) = [k \in 1 .. r.write_cursor + 1 |-> k - 1] /\ m = r.write_cursor + 1
      BY <1>5 DEF IterationOrder
    <2>2. \A k \in 1 .. r.write_cursor + 1 : k - 1 \in 0 .. n - 1
      BY <1>1
    <2> QED BY <1>2, <1>5, <2>1, <2>2 DEF Visits
  <1> QED BY <1>3, <1>4, <1>5

(* The points of out are those of the visited slots at[1], at[2], ...,     *)
(* which are the ones that have a value for the column and a timestamp in  *)
(* the range: all of them, each once, in the order of the visit.           *)
ReadAt(out, r, c, start, end, m, at) ==
  /\ DOMAIN out = 1 .. m /\ out \in [1 .. m -> {Point(r, c, s) : s \in Slots(r)}]
  /\ \A i \in 1 .. m :
       LET s == IterationOrder(r)[at[i]]
       IN  /\ out[i] = Point(r, c, s)
           /\ r.timestamps[s] \in start .. end - 1
           /\ r.values[s][c] # NaN
  /\ \A i, j \in 1 .. m : i < j => at[i] < at[j]
  /\ \A k \in DOMAIN IterationOrder(r) :
       LET s == IterationOrder(r)[k]
       IN  r.timestamps[s] \in start .. end - 1 /\ r.values[s][c] # NaN
             => \E i \in 1 .. m : at[i] = k

(* What a read returns.                                                    *)
LEMMA ReadFacts ==
  ASSUME NEW n \in Nat \ {0}, NEW width, NEW cols, NEW vals,
         NEW r \in RingType(n, width, cols, vals), NEW c, NEW start, NEW end
  PROVE  \E m \in Nat : \E at \in [1 .. m -> DOMAIN IterationOrder(r)] :
           ReadAt(read(r, c, start, end), r, c, start, end, m, at)
  <1> DEFINE out == read(r, c, start, end)
             order == IterationOrder(r)
             yields == {k \in DOMAIN order :
                          /\ r.timestamps[order[k]] \in start .. end - 1
                          /\ r.values[order[k]][c] # NaN}
             at == Ascending(yields)
             m == Cardinality(yields)
  <1>1. PICK len \in Nat : DOMAIN order = 1 .. len
    BY OrderFacts DEF Visits
  <1>2. yields \in SUBSET (1 .. len)
    BY <1>1
  <1> HIDE DEF yields
  <1>3. /\ m \in Nat /\ at \in [1 .. m -> yields]
        /\ \A i, j \in 1 .. m : i < j => at[i] < at[j]
        /\ \A k \in yields : \E i \in 1 .. m : at[i] = k
    BY <1>1, <1>2, AscendingFacts
  <1>4. out = [i \in DOMAIN at |-> Point(r, c, order[at[i]])]
    BY DEF read, yields
  <1>5. DOMAIN at = 1 .. m
    BY <1>3
  <1>6. Slots(r) = 0 .. n - 1
    BY DEF RingType, Slots
  <1>7. \A k \in DOMAIN order : order[k] \in Slots(r)
    BY <1>6, OrderFacts DEF Visits
  <1> HIDE DEF at, m, order, out
  <1>8. at \in [1 .. m -> DOMAIN order]
    BY <1>3 DEF yields
  <1>9. \A i \in 1 .. m : /\ r.timestamps[order[at[i]]] \in start .. end - 1
                         /\ r.values[order[at[i]]][c] # NaN
    BY <1>3 DEF yields
  <1>10. \A k \in DOMAIN order :
           r.timestamps[order[k]] \in start .. end - 1 /\ r.values[order[k]][c] # NaN
             => \E i \in 1 .. m : at[i] = k
    BY <1>3 DEF yields
  <1>11. \A i \in 1 .. m : Point(r, c, order[at[i]]) \in {Point(r, c, s) : s \in Slots(r)}
    BY <1>7, <1>8
  <1>12. out \in [1 .. m -> {Point(r, c, s) : s \in Slots(r)}] /\ DOMAIN out = 1 .. m
    BY <1>4, <1>5, <1>11
  <1>13. \A i \in 1 .. m : out[i] = Point(r, c, order[at[i]])
    BY <1>4, <1>5
  <1>14. ReadAt(out, r, c, start, end, m, at)
    BY <1>3, <1>9, <1>10, <1>12, <1>13 DEF ReadAt, order
  <1> QED BY <1>3, <1>8, <1>14 DEF out, order

(* Every point of a read comes from a slot of the ring.                    *)
LEMMA ReadSound ==
  ASSUME NEW n \in Nat \ {0}, NEW width, NEW cols, NEW vals,
         NEW r \in RingType(n, width, cols, vals), NEW c, NEW start, NEW end,
         NEW k \in DOMAIN read(r, c, start, end)
  PROVE  \E s \in 0 .. n - 1 :
           /\ read(r, c, start, end)[k] = <<r.timestamps[s], r.values[s][c]>>
           /\ r.timestamps[s] \in start .. end - 1
           /\ r.values[s][c] # NaN
  <1> DEFINE out == read(r, c, start, end)
  <1>1. PICK m \in Nat : \E at \in [1 .. m -> DOMAIN IterationOrder(r)] :
           ReadAt(out, r, c, start, end, m, at)
    BY ReadFacts
  <1>2. PICK at \in [1 .. m -> DOMAIN IterationOrder(r)] :
           ReadAt(out, r, c, start, end, m, at)
    BY <1>1
  <1> DEFINE s == IterationOrder(r)[at[k]]
  <1>3. k \in 1 .. m
    BY <1>2 DEF ReadAt
  <1>4. /\ out[k] = Point(r, c, s)
        /\ r.timestamps[s] \in start .. end - 1
        /\ r.values[s][c] # NaN
    BY <1>2, <1>3 DEF ReadAt
  <1>5. at[k] \in DOMAIN IterationOrder(r)
    BY <1>2, <1>3
  <1>6. s \in 0 .. n - 1
    BY <1>5, OrderFacts DEF Visits
  <1> QED BY <1>4, <1>6 DEF Point

(* The slot oldest_timestamp looks at in its step k.                       *)
ScanSlot(r, k) == ((IF r.has_wrapped THEN r.write_cursor + 1 ELSE 0) + k) % r.slot_count

(* The scan looks at slots of the slab only, and at each of them.          *)
LEMMA ScanFacts ==
  ASSUME NEW n \in Nat \ {0}, NEW width, NEW cols, NEW vals,
         NEW r \in RingType(n, width, cols, vals)
  PROVE  /\ \A k \in 0 .. n - 1 : ScanSlot(r, k) \in 0 .. n - 1
         /\ \A s \in 0 .. n - 1 : \E k \in 0 .. n - 1 : ScanSlot(r, k) = s
  <1> DEFINE from == IF r.has_wrapped THEN r.write_cursor + 1 ELSE 0
  <1>1. r.slot_count = n /\ r.write_cursor \in 0 .. n - 1 /\ from \in 0 .. n
    BY DEF RingType
  <1>2. \A k : ScanSlot(r, k) = (from + k) % n
    BY <1>1 DEF ScanSlot
  <1>3. ASSUME NEW k \in 0 .. n - 1 PROVE (from + k) % n \in 0 .. n - 1
    <2>1. from + k \in Nat
      BY <1>1
    <2> QED BY <2>1, ModRange
  <1>4. ASSUME NEW s \in 0 .. n - 1 PROVE \E k \in 0 .. n - 1 : (from + k) % n = s
    <2> HIDE DEF from
    <2>1. CASE s >= from
      <3>1. s - from \in 0 .. n - 1 /\ from + (s - from) = s
        BY <1>1, <2>1
      <3>2. s % n = s
        BY ModSmall
      <3> QED BY <3>1, <3>2
    <2>2. CASE s < from
      <3>1. (s + n) - from \in 0 .. n - 1 /\ from + ((s + n) - from) = s + n
        BY <1>1, <2>2
      <3>2. (s + n) % n = s
        BY ModSmall
      <3> QED BY <3>1, <3>2
    <2> QED BY <1>1, <2>1, <2>2
  <1> QED BY <1>2, <1>3, <1>4

(* oldest_timestamp of a ring with data is the first timestamp its scan    *)
(* finds.                                                                  *)
LEMMA OldestShape ==
  ASSUME NEW n \in Nat \ {0}, NEW width, NEW cols, NEW vals,
         NEW r \in RingType(n, width, cols, vals), ~is_empty(r)
  PROVE  \E k \in 0 .. n - 1 :
           /\ oldest_timestamp(r) = r.timestamps[ScanSlot(r, k)]
           /\ r.timestamps[ScanSlot(r, k)] # 0
           /\ \A j \in 0 .. k - 1 : r.timestamps[ScanSlot(r, j)] = 0
  <1> DEFINE at(k) == r.timestamps[ScanSlot(r, k)]
             filled(k) == at(k) # 0 /\ \A j \in 0 .. k - 1 : at(j) = 0
             K == {k \in 0 .. n - 1 : at(k) # 0}
  <1>1. r.slot_count = n /\ r.write_cursor \in 0 .. n - 1 /\ Slots(r) = 0 .. n - 1
    BY DEF RingType, Slots
  <1>2. oldest_timestamp(r) = at(CHOOSE k \in 0 .. n - 1 : filled(k))
    BY <1>1 DEF oldest_timestamp, ScanSlot
  <1>3. PICK k \in K : \A o \in K : k <= o
    <2>1. \A s \in 0 .. n - 1 : \E x \in 0 .. n - 1 : ScanSlot(r, x) = s
      BY ScanFacts
    <2>2. PICK x \in 0 .. n - 1 : at(x) # 0
      BY <1>1, <2>1 DEF is_empty
    <2> HIDE DEF at
    <2>3. K \in SUBSET Nat /\ K # {}
      BY <2>2
    <2> HIDE DEF K
    <2> QED BY <2>3, LeastNat
  <1> HIDE DEF at
  <1>5. filled(k) /\ k \in 0 .. n - 1
    BY <1>3
  <1> HIDE DEF filled
  <1>6. \E j \in 0 .. n - 1 : filled(j)
    BY <1>5
  <1> DEFINE found == CHOOSE j \in 0 .. n - 1 : filled(j)
  <1>7. found \in 0 .. n - 1 /\ filled(found)
    BY <1>6
  <1> HIDE DEF found
  <1>8. /\ at(found) # 0 /\ \A j \in 0 .. found - 1 : at(j) = 0
    BY <1>7 DEF filled
  <1> QED BY <1>2, <1>7, <1>8 DEF at, found

(* How far slot o lies behind slot w, and interval a behind b, as far as   *)
(* their slots tell.                                                       *)
Back(o, w, n) == IF o <= w THEN w - o ELSE w - o + n

Behind(a, b, n) == Back(a % n, b % n, n)

(* It is the least their distance can be, and the distance itself within   *)
(* one lap.                                                                *)
LEMMA SlotsBehind ==
  ASSUME NEW n \in Nat \ {0}, NEW a \in Nat, NEW b \in Nat, a <= b
  PROVE  /\ Behind(a, b, n) \in 0 .. n - 1
         /\ a + Behind(a, b, n) <= b
         /\ b < a + n => a + Behind(a, b, n) = b
  <1> DEFINE qa == a \div n
             qb == b \div n
             ma == a % n
             mb == b % n
             pa == n * qa
             pb == n * qb
             h == Behind(a, b, n)
  <1>1. /\ qa \in Nat /\ ma \in 0 .. n - 1 /\ a = pa + ma
        /\ qb \in Nat /\ mb \in 0 .. n - 1 /\ b = pb + mb
    BY DivNat, ModRange, DivMod
  <1>2. pa \in Nat /\ pb \in Nat
    BY <1>1
  <1>3. qa <= qb
    BY DivMonotone
  <1>4. h = IF ma <= mb THEN mb - ma ELSE mb - ma + n
    BY DEF Behind, Back
  <1> DEFINE k == qb - qa
             pk == n * k
  <1>5. k \in Nat
    BY <1>1, <1>3
  <1>6. pb = pa + pk /\ pk \in Nat
    <2>1. qb = qa + k
      BY <1>1
    <2> HIDE DEF qa, qb, k
    <2> QED BY <1>1, <1>5, <2>1
  <1>7. pk = 0 \/ pk = n \/ pk >= n + n
    <2> HIDE DEF k
    <2>1. CASE k = 0
      BY <2>1
    <2>2. CASE k = 1
      BY <2>2
    <2>3. CASE k >= 2
      <3>1. PICK j \in Nat : k = 2 + j
        <4>1. k - 2 \in Nat /\ k = 2 + (k - 2)
          BY <1>5, <2>3
        <4> QED BY <4>1
      <3>2. n * k = n + n + n * j /\ n * j \in Nat
        BY <3>1
      <3> QED BY <3>2
    <2> QED BY <1>5, <2>1, <2>2, <2>3
  <1> HIDE DEF pa, pb, pk, ma, mb, qa, qb, k, h
  <1>8. h \in 0 .. n - 1 /\ a + h <= b /\ (b < a + n => a + h = b)
    BY <1>1, <1>2, <1>4, <1>6, <1>7
  <1> QED BY <1>8 DEF h

(* Intervals and laps: the lap of a time is the lap of its interval.       *)
LEMMA LapOfInterval ==
  ASSUME NEW width \in Nat \ {0}, NEW n \in Nat \ {0}, NEW t \in Nat
  PROVE  t \div (width * n) = (t \div width) \div n
  <1> DEFINE a == t \div width
             ra == t % width
             q == a \div n
             m == a % n
             lap == width * n
             x == width * m + ra
             q2 == t \div lap
             m2 == t % lap
  <1>1. a \in Nat /\ ra \in 0 .. width - 1 /\ t = width * a + ra
    BY DivNat, ModRange, DivMod
  <1>2. q \in Nat /\ m \in 0 .. n - 1 /\ a = n * q + m
    <2> HIDE DEF a
    <2> QED BY <1>1, DivNat, ModRange, DivMod
  <1>3. lap \in Nat \ {0}
    OBVIOUS
  <1>4. q2 \in Nat /\ m2 \in 0 .. lap - 1 /\ t = lap * q2 + m2
    <2> HIDE DEF lap
    <2> QED BY <1>3, DivNat, ModRange, DivMod
  <1> HIDE DEF a, ra, q, m, q2, m2
  <1>5. t = lap * q + x
    <2>1. width * a = width * (n * q) + width * m
      BY <1>2
    <2>2. width * (n * q) = lap * q
      BY <1>2
    <2>3. width * m \in Nat /\ lap * q \in Nat
      BY <1>2, <1>3
    <2> DEFINE u == width * m
               v == lap * q
    <2>4. width * a = v + u /\ u \in Nat /\ v \in Nat
      BY <2>1, <2>2, <2>3
    <2>5. t = (v + u) + ra
      BY <1>1, <2>4
    <2> HIDE DEF u, v
    <2>6. (v + u) + ra = v + (u + ra)
      BY <1>1, <2>4
    <2> QED BY <2>5, <2>6 DEF u, v
  <1>6. x \in 0 .. lap - 1
    <2>1. PICK j \in Nat : n = m + 1 + j
      <3>1. n - 1 - m \in Nat /\ n = m + 1 + (n - 1 - m)
        BY <1>2
      <3> QED BY <3>1
    <2>2. m \in Nat
      BY <1>2
    <2>3. width * n = width * m + width + width * j
      BY <2>1, <2>2
    <2>4. width * m \in Nat /\ width * j \in Nat
      BY <2>1, <2>2
    <2> QED BY <1>1, <2>3, <2>4
  <1> HIDE DEF lap, x
  <1> DEFINE y == lap * q
             z == lap * q2
  <1>7. y \in Nat /\ z \in Nat /\ y + x = z + m2
    BY <1>2, <1>3, <1>4, <1>5
  <1>8. y < z => y + lap <= z
    BY <1>2, <1>3, <1>4, MultipleGap
  <1>9. z < y => z + lap <= y
    BY <1>2, <1>3, <1>4, MultipleGap
  <1> HIDE DEF y, z
  <1>10. y = z
    BY <1>3, <1>4, <1>6, <1>7, <1>8, <1>9
  <1>11. q = q2
    <2>1. q < q2 => lap * q < lap * q2
      <3> SUFFICES ASSUME q < q2 PROVE lap * q < lap * q2
        OBVIOUS
      <3>1. PICK j \in Nat : q2 = q + 1 + j
        <4>1. q2 - q - 1 \in Nat /\ q2 = q + 1 + (q2 - q - 1)
          BY <1>2, <1>4
        <4> QED BY <4>1
      <3>2. lap * q2 = lap * q + lap + lap * j /\ lap * j \in Nat
        BY <1>2, <1>3, <3>1
      <3> QED BY <1>2, <1>3, <3>2
    <2>2. q2 < q => lap * q2 < lap * q
      <3> SUFFICES ASSUME q2 < q PROVE lap * q2 < lap * q
        OBVIOUS
      <3>1. PICK j \in Nat : q = q2 + 1 + j
        <4>1. q - q2 - 1 \in Nat /\ q = q2 + 1 + (q - q2 - 1)
          BY <1>2, <1>4
        <4> QED BY <4>1
      <3>2. lap * q = lap * q2 + lap + lap * j /\ lap * j \in Nat
        BY <1>4, <1>3, <3>1
      <3> QED BY <1>3, <1>4, <3>2
    <2>3. lap * q = lap * q2
      BY <1>10 DEF y, z
    <2> QED BY <1>2, <1>3, <1>4, <2>1, <2>2, <2>3
  <1> QED BY <1>11 DEF q, q2, a, lap

(* A read returns the point of slot s.                                     *)
Yields(r, c, start, end, s) ==
  \E k \in DOMAIN read(r, c, start, end) : read(r, c, start, end)[k] = Point(r, c, s)

(* A read finds every point of its range in a slot that the iteration      *)
(* reaches.                                                                *)
LEMMA ReadComplete ==
  ASSUME NEW n \in Nat \ {0}, NEW width, NEW cols, NEW vals,
         NEW r \in RingType(n, width, cols, vals), ~is_empty(r),
         NEW c, NEW start, NEW end, NEW s \in 0 .. n - 1,
         r.has_wrapped \/ s <= r.write_cursor,
         r.timestamps[s] \in start .. end - 1, r.values[s][c] # NaN
  PROVE  Yields(r, c, start, end, s)
  <1> DEFINE out == read(r, c, start, end)
             order == IterationOrder(r)
  <1>1. PICK m \in Nat : \E at \in [1 .. m -> DOMAIN order] :
           ReadAt(out, r, c, start, end, m, at)
    BY ReadFacts
  <1>2. PICK at \in [1 .. m -> DOMAIN order] : ReadAt(out, r, c, start, end, m, at)
    BY <1>1
  <1>3. r.write_cursor \in 0 .. n - 1
    BY DEF RingType
  <1>4. \E k \in DOMAIN order : order[k] = s
    <2>0. PICK l \in 0 .. n : Visits(r, n, l)
      BY OrderFacts
    <2>1. /\ order \in [1 .. l -> 0 .. n - 1]
          /\ l = IF is_empty(r) THEN 0 ELSE IF r.has_wrapped THEN n ELSE r.write_cursor + 1
          /\ \A k \in 1 .. l :
               order[k] = IF r.has_wrapped THEN (r.write_cursor + k) % n ELSE k - 1
      BY <2>0 DEF Visits
    <2> HIDE DEF order
    <2>2. CASE r.has_wrapped
      <3>1. PICK k \in 1 .. n : (r.write_cursor + k) % n = s
        BY <1>3, FullLap
      <3> QED BY <2>1, <2>2, <3>1
    <2>3. CASE ~r.has_wrapped
      <3>1. s + 1 \in 1 .. r.write_cursor + 1 /\ (s + 1) - 1 = s
        BY <1>3, <2>3
      <3> QED BY <2>1, <2>3, <3>1
    <2> QED BY <2>2, <2>3
  <1>5. PICK k \in DOMAIN order : order[k] = s
    BY <1>4
  <1>6. PICK i \in 1 .. m : at[i] = k
    BY <1>2, <1>5 DEF ReadAt
  <1>7. i \in DOMAIN out /\ out[i] = Point(r, c, s)
    BY <1>2, <1>5, <1>6 DEF ReadAt
  <1> QED BY <1>7 DEF Yields

(* How far the slot at position k of a scan lies behind the cursor.        *)
LEMMA ScanBehind ==
  ASSUME NEW n \in Nat \ {0}, NEW w \in 0 .. n - 1, NEW k \in 0 .. n - 1,
         NEW o, o = (w + 1 + k) % n
  PROVE  Back(o, w, n) = n - 1 - k
  <1> DEFINE x == w + 1 + k
  <1>1. x \in Nat /\ x < n + n
    OBVIOUS
  <1> HIDE DEF x
  <1>2. x % n = IF x < n THEN x ELSE x - n
    BY <1>1, LapOver
  <1>3. o = IF x < n THEN x ELSE x - n
    BY <1>2 DEF x
  <1> QED BY <1>3 DEF x, Back

(* Every filled slot is the home of its time, and none is after the newest.*)
AtHome(r, n, width) ==
  \A x \in 0 .. n - 1 : r.timestamps[x] # 0 =>
    r.timestamps[x] <= newest_timestamp(r) /\ (r.timestamps[x] \div width) % n = x

(* Slot s is filled, within the last lap, and reached by an iteration.     *)
Reached(r, s, n, width) ==
  /\ r.timestamps[s] # 0
  /\ r.has_wrapped \/ s <= r.write_cursor
  /\ newest_timestamp(r) \div width < (r.timestamps[s] \div width) + n

(* The slot that the scan of oldest_timestamp finds first is not newer     *)
(* than a slot of the last lap that an iteration reaches.                  *)
LEMMA OldestBefore ==
  ASSUME NEW n \in Nat \ {0}, NEW width \in Nat \ {0}, NEW cols, NEW vals,
         NEW r \in RingType(n, width, cols, vals), NEW s \in 0 .. n - 1,
         AtHome(r, n, width), Reached(r, s, n, width)
  PROVE  oldest_timestamp(r) \in Nat \ {0} /\ oldest_timestamp(r) <= r.timestamps[s]
  <1> DEFINE w == r.write_cursor
             ts == r.timestamps
             iv(x) == ts[x] \div width
  <1>1. /\ r.slot_count = n /\ w \in 0 .. n - 1 /\ ts \in [0 .. n - 1 -> Nat]
        /\ r.has_wrapped \in BOOLEAN
    BY DEF RingType
  <1>2. \A x \in 0 .. n - 1 : ts[x] \in Nat /\ iv(x) \in Nat
    BY <1>1, DivNat
  <1>3. newest_timestamp(r) = ts[w] /\ ts[w] # 0 /\ ~is_empty(r)
    <2>1. newest_timestamp(r) = ts[w]
      BY DEF newest_timestamp
    <2>2. ts[s] # 0 /\ ts[s] <= ts[w] /\ ts[s] \in Nat
      BY <1>2, <2>1 DEF AtHome, Reached
    <2> QED BY <1>1, <1>2, <2>1, <2>2, SMTT(30) DEF is_empty
  <1>4. PICK k \in 0 .. n - 1 : /\ oldest_timestamp(r) = ts[ScanSlot(r, k)]
                                /\ ts[ScanSlot(r, k)] # 0
                                /\ \A j \in 0 .. k - 1 : ts[ScanSlot(r, j)] = 0
    BY <1>3, OldestShape
  <1>5. PICK j \in 0 .. n - 1 : ScanSlot(r, j) = s
    BY ScanFacts
  <1> DEFINE o == ScanSlot(r, k)
  <1>6. o \in 0 .. n - 1 /\ k <= j
    <2>1. o \in 0 .. n - 1
      BY ScanFacts
    <2>2. ~(j \in 0 .. k - 1)
      BY <1>4, <1>5 DEF Reached
    <2> QED BY <2>1, <2>2
  <1>7. CASE j = k
    BY <1>2, <1>4, <1>5, <1>6, <1>7
  <1>8. CASE j # k
    <2> DEFINE b == iv(w)
               ho == Behind(iv(o), b, n)
               hs == Behind(iv(s), b, n)
    <2>1. /\ iv(o) \in Nat /\ iv(s) \in Nat /\ b \in Nat /\ iv(o) <= b /\ iv(s) <= b
          /\ iv(o) % n = o /\ iv(s) % n = s /\ b % n = w /\ b < iv(s) + n
      <3>1. /\ ts[o] \in Nat /\ ts[s] \in Nat /\ ts[w] \in Nat
            /\ ts[o] <= ts[w] /\ ts[s] <= ts[w]
        BY <1>1, <1>2, <1>3, <1>4, <1>6 DEF AtHome, Reached
      <3>2. iv(o) <= b /\ iv(s) <= b
        BY <3>1, DivMonotone
      <3>3. iv(o) % n = o /\ iv(s) % n = s /\ b % n = w /\ b < iv(s) + n
        BY <1>1, <1>3, <1>4, <1>6 DEF AtHome, Reached
      <3> QED BY <1>1, <1>2, <1>6, <3>2, <3>3
    <2>2. ho = Back(o, w, n) /\ hs = Back(s, w, n)
      BY <2>1 DEF Behind
    <2> HIDE DEF o
    <2>3. hs < ho
      <3>1. CASE r.has_wrapped
        <4>1. o = (w + 1 + k) % n /\ s = (w + 1 + j) % n
          BY <1>1, <1>5, <3>1 DEF ScanSlot, o
        <4>2. ho = n - 1 - k /\ hs = n - 1 - j
          <5> HIDE DEF w, ho, hs
          <5>1. w \in 0 .. n - 1
            BY <1>1
          <5>2. Back(o, w, n) = n - 1 - k
            BY <4>1, <5>1, ScanBehind
          <5>3. Back(s, w, n) = n - 1 - j
            BY <4>1, <5>1, ScanBehind
          <5> QED BY <2>2, <5>2, <5>3
        <4> HIDE DEF ho, hs
        <4> QED BY <1>6, <1>8, <4>2
      <3>2. CASE ~r.has_wrapped
        <4>1. o = k /\ s = j
          <5>1. ScanSlot(r, k) = (0 + k) % n /\ ScanSlot(r, j) = (0 + j) % n
            BY <1>1, <3>2 DEF ScanSlot
          <5>2. 0 + k = k /\ 0 + j = j
            OBVIOUS
          <5> QED BY <1>5, <5>1, <5>2, ModSmall DEF o
        <4> HIDE DEF w, ho, hs
        <4>2. s <= w
          BY <3>2 DEF w, Reached
        <4> QED BY <1>1, <1>6, <1>8, <2>2, <4>1, <4>2 DEF Back
      <3> QED BY <1>1, <3>1, <3>2
    <2>4. iv(o) + ho <= b /\ iv(s) + hs = b /\ ho \in 0 .. n - 1 /\ hs \in 0 .. n - 1
      <3> HIDE DEF b, iv
      <3> QED BY <2>1, SlotsBehind
    <2>5. iv(o) < iv(s)
      <3> HIDE DEF b, iv, ho, hs
      <3> QED BY <2>1, <2>3, <2>4
    <2>6. ts[o] < ts[s]
      <3>1. ts[o] \in Nat /\ ts[s] \in Nat
        BY <1>2, <1>6
      <3>2. ts[s] <= ts[o] => iv(s) <= iv(o)
        BY <3>1, DivMonotone
      <3> QED BY <2>1, <2>5, <3>1, <3>2
    <2> QED BY <1>2, <1>4, <1>6, <2>6 DEF o
  <1> QED BY <1>7, <1>8
=============================================================================
