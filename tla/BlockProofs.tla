---------------------------- MODULE BlockProofs ----------------------------
(***************************************************************************)
(* Proofs about the virtio block device, for queues of any size, indices   *)
(* of any width the queue size divides, any number of requests in flight   *)
(* and any interleaving of requests, notifications, interrupts and resets. *)
(***************************************************************************)
EXTENDS VirtioBlock, FiniteSetTheorems, TLAPS

(* The arithmetic of remainders is that of the slots of a slab.            *)
Arith == INSTANCE RingOpsProofs WITH NaN <- None

-----------------------------------------------------------------------------
(* Indices that wrap.                                                      *)

Idx == 0 .. IdxMod - 1

(* The sizes: the index space holds every request and is a whole number of *)
(* laps of the queue.                                                      *)
LEMMA Sizes ==
  /\ Num \in Nat \ {0} /\ IdxMod \in Nat \ {0}
  /\ IsFiniteSet(Heads) /\ Cardinality(Heads) \in Nat
  /\ Cardinality(Heads) <= Num /\ Cardinality(Heads) < IdxMod
  <1>1. Num \in Nat \ {0} /\ IdxMod \in Nat /\ IdxMod % Num = 0
    BY BlockAssumption
  <1>2. IsFiniteSet(0 .. Num - 1) /\ Cardinality(0 .. Num - 1) = Num
    <2>1. 0 \in Int /\ Num - 1 \in Int /\ ~(0 > Num - 1) /\ (Num - 1) - 0 + 1 = Num
      BY <1>1
    <2> QED BY <2>1, FS_Interval
  <1>3. IsFiniteSet(Heads) /\ Cardinality(Heads) <= Num
    <2>1. Heads \in SUBSET (0 .. Num - 1)
      BY BlockAssumption
    <2> QED BY <1>2, <2>1, FS_Subset
  <1>4. Cardinality(Heads) \in Nat
    BY <1>3, FS_CardinalityType
  <1>5. IdxMod \in Nat \ {0} /\ Cardinality(Heads) < IdxMod
    BY <1>1, <1>4, BlockAssumption
  <1> QED BY <1>1, <1>3, <1>4, <1>5

(* An index a few steps on.                                                *)
LEMMA Wraps ==
  ASSUME NEW a \in Idx, NEW i \in Idx
  PROVE  (a + i) % IdxMod = IF a + i < IdxMod THEN a + i ELSE a + i - IdxMod
  <1> DEFINE x == a + i
  <1>1. IdxMod \in Nat \ {0} /\ x \in Nat /\ x < IdxMod + IdxMod
    BY Sizes DEF Idx
  <1>2. x = a + i /\ a \in Nat /\ i \in Nat
    BY DEF Idx
  <1> HIDE DEF x
  <1>3. x % IdxMod = IF x < IdxMod THEN x ELSE x - IdxMod
    BY <1>1, Arith!LapOver
  <1> QED BY <1>1, <1>2, <1>3

(* The index after an index.                                               *)
LEMMA NextWraps ==
  ASSUME NEW a \in Idx
  PROVE  NextIdx(a) \in Idx /\ NextIdx(a) = IF a + 1 = IdxMod THEN 0 ELSE a + 1
  <1> DEFINE x == a + 1
  <1>1. IdxMod \in Nat \ {0} /\ x \in Nat /\ x < IdxMod + IdxMod /\ x <= IdxMod
    BY Sizes DEF Idx
  <1>2. x = a + 1
    OBVIOUS
  <1> HIDE DEF x
  <1>3. x % IdxMod = IF x < IdxMod THEN x ELSE x - IdxMod
    BY <1>1, Arith!LapOver
  <1>4. NextIdx(a) = x % IdxMod
    BY <1>2 DEF NextIdx
  <1> QED BY <1>1, <1>2, <1>3, <1>4 DEF Idx

(* How far one index is ahead of another.                                  *)
LEMMA CountWraps ==
  ASSUME NEW a \in Idx, NEW b \in Idx
  PROVE  Count(a, b) \in Idx /\ Count(a, b) = IF a <= b THEN b - a ELSE b - a + IdxMod
  <1>1. IdxMod \in Nat \ {0}
    BY Sizes
  <1>2. CASE a <= b
    <2> DEFINE x == b - a
    <2>1. x \in 0 .. IdxMod - 1
      BY <1>1, <1>2 DEF Idx
    <2> HIDE DEF x
    <2>2. x % IdxMod = x
      BY <1>1, <2>1, Arith!ModSmall
    <2> QED BY <1>2, <2>1, <2>2 DEF Count, x, Idx
  <1>3. CASE ~(a <= b)
    <2> DEFINE x == b - a + IdxMod
    <2>1. x \in 0 .. IdxMod - 1 /\ b - a = x - IdxMod
      BY <1>1, <1>3 DEF Idx
    <2> HIDE DEF x
    <2>2. (x - IdxMod) % IdxMod = x
      BY <1>1, <2>1
    <2>3. Count(a, b) = x
      BY <2>1, <2>2 DEF Count
    <2> QED BY <1>3, <2>1, <2>3 DEF x, Idx
  <1> QED BY <1>2, <1>3

(* The wrap of an index does not change the slot.                          *)
LEMMA LapsAside ==
  ASSUME NEW x \in Nat
  PROVE  (x + IdxMod) % Num = x % Num
  <1> DEFINE n == Num
             d == IdxMod
             y == x + d
  <1>1. n \in Nat \ {0} /\ d \in Nat /\ d % n = 0 /\ y = x + d /\ y \in Nat
    BY Sizes, BlockAssumption
  <1> HIDE DEF n, d, y
  <1> DEFINE laps == d \div n
  <1>2. laps \in Nat /\ d = n * laps
    <2>1. d = n * laps + (d % n) /\ laps \in Nat
      BY <1>1, Arith!DivNat, Arith!DivMod
    <2> HIDE DEF laps
    <2> QED BY <1>1, <2>1
  <1> HIDE DEF laps
  <1> DEFINE mx == x % n
             my == y % n
             qx == x \div n
             qy == y \div n
  <1>3. mx \in 0 .. n - 1 /\ qx \in Nat /\ x = n * qx + mx
    BY <1>1, Arith!ModRange, Arith!DivNat, Arith!DivMod
  <1>4. my \in 0 .. n - 1 /\ qy \in Nat /\ y = n * qy + my
    BY <1>1, Arith!ModRange, Arith!DivNat, Arith!DivMod
  <1> HIDE DEF mx, my, qx, qy
  <1> DEFINE p == qx + laps
  <1>5. p \in Nat /\ n * p = n * qx + n * laps /\ n * p \in Nat /\ n * qy \in Nat
        /\ n * qx \in Nat /\ n * laps \in Nat
    BY <1>1, <1>2, <1>3, <1>4
  <1>6. n * p + mx = n * qy + my
    BY <1>1, <1>2, <1>3, <1>4, <1>5
  <1> HIDE DEF p
  <1>7. ~(n * p < n * qy)
    <2> SUFFICES ASSUME n * p < n * qy PROVE FALSE
      OBVIOUS
    <2>1. n * p + n <= n * qy
      BY <1>1, <1>4, <1>5, Arith!MultipleGap
    <2> QED BY <1>1, <1>3, <1>4, <1>5, <1>6, <2>1
  <1>8. ~(n * qy < n * p)
    <2> SUFFICES ASSUME n * qy < n * p PROVE FALSE
      OBVIOUS
    <2>1. n * qy + n <= n * p
      BY <1>1, <1>4, <1>5, Arith!MultipleGap
    <2> QED BY <1>1, <1>3, <1>4, <1>5, <1>6, <2>1
  <1>9. mx = my
    BY <1>1, <1>3, <1>4, <1>5, <1>6, <1>7, <1>8
  <1>10. y % n = x % n
    BY <1>9 DEF mx, my
  <1> QED BY <1>10 DEF y, n, d

(* Indices less than a lap of the queue apart have different slots.        *)
LEMMA SlotsApart ==
  ASSUME NEW a \in Idx, NEW i \in Idx, NEW j \in Idx, i < j, j - i < Num
  PROVE  ((a + i) % IdxMod) % Num # ((a + j) % IdxMod) % Num
  <1>1. Num \in Nat \ {0} /\ IdxMod \in Nat \ {0}
    BY Sizes
  <1>2. IdxMod % Num = 0
    BY BlockAssumption
  <1>3. ASSUME NEW k \in Idx
        PROVE  ((a + k) % IdxMod) % Num = (a + k) % Num
    <2> DEFINE y == a + k
               x == (a + k) % IdxMod
    <2>1. y \in Nat /\ y = a + k /\ a \in Nat /\ k \in Nat
      BY <1>1 DEF Idx
    <2>2. x = IF a + k < IdxMod THEN a + k ELSE a + k - IdxMod
      BY <1>1, <2>1, Wraps
    <2>3. x = (a + k) % IdxMod
      OBVIOUS
    <2> HIDE DEF x, y
    <2>4. CASE y < IdxMod
      BY <2>1, <2>2, <2>3, <2>4
    <2>5. CASE ~(y < IdxMod)
      <3>1. x \in Nat /\ y = x + IdxMod
        BY <1>1, <2>1, <2>2, <2>5
      <3>2. (x + IdxMod) % Num = x % Num
        BY <3>1, LapsAside
      <3>3. y % Num = x % Num
        BY <3>1, <3>2
      <3> QED BY <2>1, <2>3, <3>3
    <2> QED BY <2>4, <2>5
  <1> DEFINE p == a + i
             q == a + j
  <1>4. p \in Nat /\ q \in Nat /\ p < q /\ ~(p + Num <= q)
    BY <1>1 DEF Idx
  <1> HIDE DEF p, q
  <1>5. p % Num # q % Num
    BY <1>1, <1>4, Arith!ModDistinct
  <1> QED BY <1>3, <1>5 DEF p, q

-----------------------------------------------------------------------------
(* The entries of a ring between two indices.                              *)

(* The entry i places after index a.                                       *)
At(r, a, i) == r.ring[((a + i) % IdxMod) % Num]

(* No entry occurs twice.                                                  *)
Once(r, a, b) ==
  \A i, j \in 0 .. Count(a, b) - 1 : At(r, a, i) = At(r, a, j) => i = j

(* The entries, one by one.                                                *)
LEMMA EntryFacts ==
  ASSUME NEW r, NEW a \in Idx, NEW b \in Idx
  PROVE  /\ Count(a, b) \in Nat /\ Count(a, b) < IdxMod /\ IdxMod \in Nat
         /\ \A i \in 0 .. Count(a, b) - 1 : At(r, a, i) \in Entries(r, a, b)
         /\ \A h \in Entries(r, a, b) : \E i \in 0 .. Count(a, b) - 1 : h = At(r, a, i)
         /\ Entries(r, a, b) = {} <=> a = b
  <1>1. /\ Count(a, b) \in Idx /\ IdxMod \in Nat
        /\ Count(a, b) = IF a <= b THEN b - a ELSE b - a + IdxMod
    BY CountWraps, Sizes
  <1>2. Count(a, b) \in Nat /\ Count(a, b) < IdxMod /\ (Count(a, b) = 0 <=> a = b)
    BY <1>1 DEF Idx
  <1>3. Entries(r, a, b) = {At(r, a, i) : i \in 0 .. Count(a, b) - 1}
    BY DEF Entries, At
  <1>4. (0 .. Count(a, b) - 1) = {} <=> Count(a, b) = 0
    BY <1>2
  <1> QED BY <1>1, <1>2, <1>3, <1>4

(* There are as many as the indices are apart.                             *)
LEMMA EntriesCard ==
  ASSUME NEW r, NEW a \in Idx, NEW b \in Idx, Once(r, a, b)
  PROVE  IsFiniteSet(Entries(r, a, b)) /\ Cardinality(Entries(r, a, b)) = Count(a, b)
  <1> DEFINE n == Count(a, b)
             T == Entries(r, a, b)
             f == [i \in 0 .. n - 1 |-> At(r, a, i)]
  <1>1. /\ n \in Nat /\ \A i \in 0 .. n - 1 : At(r, a, i) \in T
        /\ \A h \in T : \E i \in 0 .. n - 1 : h = At(r, a, i)
    BY EntryFacts
  <1>2. IsFiniteSet(0 .. n - 1) /\ Cardinality(0 .. n - 1) = n
    <2>1. 0 \in Int /\ n - 1 \in Int /\ (IF 0 > n - 1 THEN 0 ELSE (n - 1) - 0 + 1) = n
      BY <1>1
    <2> HIDE DEF n
    <2> QED BY <2>1, FS_Interval
  <1>3. \A i, j \in 0 .. n - 1 : At(r, a, i) = At(r, a, j) => i = j
    BY DEF Once
  <1> HIDE DEF n, T
  <1>4. f \in Surjection(0 .. n - 1, T)
    BY <1>1 DEF Surjection
  <1>5. f \in Injection(0 .. n - 1, T)
    BY <1>1, <1>3 DEF Injection, IsInjective
  <1>6. IsFiniteSet(T) /\ Cardinality(T) = n
    BY <1>2, <1>4, <1>5, FS_Surjection
  <1> QED BY <1>6 DEF n, T

(* A request that is not in a ring finds room there: there are at most as  *)
(* many entries as chains, and that is no more than the queue has slots.   *)
LEMMA Room ==
  ASSUME NEW r, NEW a \in Idx, NEW b \in Idx, Once(r, a, b),
         Entries(r, a, b) \subseteq Heads, NEW h \in Heads, h \notin Entries(r, a, b)
  PROVE  Count(a, b) < Num /\ Count(a, b) + 1 < IdxMod
  <1> DEFINE T == Entries(r, a, b)
  <1>1. IsFiniteSet(T) /\ Cardinality(T) = Count(a, b)
    BY EntriesCard
  <1>2. IsFiniteSet(T \cup {h}) /\ Cardinality(T \cup {h}) = Cardinality(T) + 1
    BY <1>1, FS_AddElement
  <1>3. Cardinality(T \cup {h}) <= Cardinality(Heads)
    <2>1. (T \cup {h}) \in SUBSET Heads
      OBVIOUS
    <2> QED BY <2>1, Sizes, FS_Subset
  <1>4. Count(a, b) \in Nat
    BY EntryFacts
  <1> HIDE DEF T
  <1>5. Count(a, b) + 1 <= Cardinality(Heads)
    BY <1>1, <1>2, <1>3
  <1> QED BY <1>4, <1>5, Sizes

(* Adding an entry behind the last one, with the index moving on.          *)
LEMMA PushEntry ==
  ASSUME NEW r \in RingType, NEW a \in Idx, NEW h \in Heads,
         Count(a, r.idx) < Num, Count(a, r.idx) + 1 < IdxMod,
         NEW s, s = [idx |-> NextIdx(r.idx), ring |-> [r.ring EXCEPT ![r.idx % Num] = h]]
  PROVE  /\ s \in RingType
         /\ Entries(s, a, s.idx) = Entries(r, a, r.idx) \cup {h}
         /\ Once(r, a, r.idx) /\ h \notin Entries(r, a, r.idx) => Once(s, a, s.idx)
  <1> DEFINE b == r.idx
             n == Count(a, b)
  <1>1. /\ Num \in Nat \ {0} /\ IdxMod \in Nat \ {0} /\ b \in Idx
        /\ r.ring \in [0 .. Num - 1 -> Heads \cup {0}]
        /\ a \in Nat /\ a < IdxMod /\ b \in Nat /\ b < IdxMod
        /\ n < Num /\ n + 1 < IdxMod
    BY Sizes DEF RingType, Idx
  <1>2. /\ s.idx = NextIdx(b) /\ s.ring = [r.ring EXCEPT ![b % Num] = h]
        /\ s = [idx |-> s.idx, ring |-> s.ring]
    OBVIOUS
  <1>3. n = Count(a, b)
    OBVIOUS
  <1> HIDE DEF n, b
  <1>4. b % Num \in 0 .. Num - 1
    BY <1>1, Arith!ModRange
  <1>5. /\ NextIdx(b) \in Idx /\ NextIdx(b) = IF b + 1 = IdxMod THEN 0 ELSE b + 1
    BY <1>1, NextWraps
  <1>6. /\ s.ring[b % Num] = h
        /\ \A x \in 0 .. Num - 1 : x # b % Num => s.ring[x] = r.ring[x]
        /\ s.ring \in [0 .. Num - 1 -> Heads \cup {0}]
    BY <1>2, <1>1, <1>4
  <1>7. s \in RingType
    BY <1>2, <1>5, <1>6 DEF RingType, Idx
  <1>8. n \in Idx /\ n \in Nat /\ n = IF a <= b THEN b - a ELSE b - a + IdxMod
    <2>1. n \in Idx /\ n = IF a <= b THEN b - a ELSE b - a + IdxMod
      BY <1>3, <1>1, CountWraps
    <2>2. \A x \in Idx : x \in Nat
      BY DEF Idx
    <2> QED BY <2>1, <2>2
  <1>9. Count(a, NextIdx(b)) = n + 1
    <2> DEFINE c == NextIdx(b)
    <2>1. c \in Idx /\ c = IF b + 1 = IdxMod THEN 0 ELSE b + 1
      BY <1>5
    <2> HIDE DEF c
    <2>2. Count(a, c) = IF a <= c THEN c - a ELSE c - a + IdxMod
      BY <2>1, CountWraps
    <2>3. Count(a, c) = n + 1
      BY <1>1, <1>8, <2>1, <2>2
    <2> QED BY <2>3 DEF c
  <1>10. (a + n) % IdxMod = b
    <2>1. (a + n) % IdxMod = IF a + n < IdxMod THEN a + n ELSE a + n - IdxMod
      BY <1>8, Wraps
    <2> QED BY <1>1, <1>8, <2>1
  <1>11. ASSUME NEW i \in 0 .. n - 1
        PROVE  At(s, a, i) = At(r, a, i)
    <2>1. i \in Idx /\ i \in Nat /\ i < n /\ n - i < Num
      BY <1>1, <1>8, SMTT(30) DEF Idx
    <2>2. ((a + i) % IdxMod) % Num # b % Num
      BY <1>8, <1>10, <2>1, SlotsApart
    <2>3. ((a + i) % IdxMod) % Num \in 0 .. Num - 1
      <3>1. (a + i) % IdxMod \in Nat
        <4>1. a + i \in Nat
          BY <1>1, <2>1
        <4> QED BY <1>1, <4>1, Arith!ModRange
      <3> QED BY <1>1, <3>1, Arith!ModRange
    <2> QED BY <1>6, <2>2, <2>3 DEF At
  <1>12. At(s, a, n) = h
    BY <1>6, <1>10 DEF At
  <1>13. n \in Nat /\ 0 .. (n + 1) - 1 = (0 .. n - 1) \cup {n}
    BY <1>1, <1>8 DEF Idx
  <1>14. /\ Entries(r, a, b) = {At(r, a, i) : i \in 0 .. n - 1}
         /\ Entries(s, a, s.idx) = {At(s, a, i) : i \in 0 .. (n + 1) - 1}
    BY <1>2, <1>3, <1>9 DEF Entries, At
  <1>15. Entries(s, a, s.idx) = Entries(r, a, b) \cup {h}
    BY <1>11, <1>12, <1>13, <1>14
  <1>16. ASSUME Once(r, a, b), h \notin Entries(r, a, b)
         PROVE  Once(s, a, s.idx)
    <2> SUFFICES ASSUME NEW i \in (0 .. n - 1) \cup {n}, NEW j \in (0 .. n - 1) \cup {n},
                        At(s, a, i) = At(s, a, j)
                 PROVE  i = j
      BY <1>2, <1>9, <1>13 DEF Once
    <2>1. CASE i \in 0 .. n - 1 /\ j \in 0 .. n - 1
      BY <1>3, <1>11, <1>16, <2>1 DEF Once
    <2>2. CASE i = n /\ j \in 0 .. n - 1
      BY <1>11, <1>12, <1>14, <1>16, <2>2
    <2>3. CASE i \in 0 .. n - 1 /\ j = n
      BY <1>11, <1>12, <1>14, <1>16, <2>3
    <2> QED BY <2>1, <2>2, <2>3
  <1> QED BY <1>7, <1>15, <1>16 DEF b

(* Taking the first entry.                                                 *)
LEMMA PopEntry ==
  ASSUME NEW r \in RingType, NEW a \in Idx, a # r.idx, Once(r, a, r.idx)
  PROVE  /\ NextIdx(a) \in Idx
         /\ r.ring[a % Num] \in Entries(r, a, r.idx)
         /\ Entries(r, NextIdx(a), r.idx) = Entries(r, a, r.idx) \ {r.ring[a % Num]}
         /\ Once(r, NextIdx(a), r.idx)
  <1> DEFINE b == r.idx
             n == Count(a, b)
             c == NextIdx(a)
             h == r.ring[a % Num]
  <1>1. Num \in Nat \ {0} /\ IdxMod \in Nat \ {0} /\ b \in Idx
    BY Sizes DEF RingType, Idx
  <1>2. c \in Idx /\ c = IF a + 1 = IdxMod THEN 0 ELSE a + 1
    BY NextWraps
  <1>3. n \in Idx /\ n = IF a <= b THEN b - a ELSE b - a + IdxMod
    BY <1>1, CountWraps
  <1>4. Count(c, b) = IF c <= b THEN b - c ELSE b - c + IdxMod
    BY <1>1, <1>2, CountWraps
  <1>5. n \in Nat \ {0} /\ Count(c, b) = n - 1
    BY <1>1, <1>2, <1>3, <1>4 DEF Idx
  <1>6. At(r, a, 0) = h
    <2>1. 0 \in Idx /\ a \in Nat /\ a < IdxMod
      BY <1>1 DEF Idx
    <2>2. (a + 0) % IdxMod = a
      BY <1>1, <2>1, Wraps
    <2> QED BY <2>2 DEF At
  <1>7. ASSUME NEW i \in 0 .. n - 2
        PROVE  At(r, c, i) = At(r, a, i + 1)
    <2>1. i \in Idx /\ i + 1 \in Idx /\ i \in Nat /\ a \in Nat /\ c \in Nat
      BY <1>1, <1>2, <1>3 DEF Idx
    <2>2. (c + i) % IdxMod = IF c + i < IdxMod THEN c + i ELSE c + i - IdxMod
      BY <1>2, <2>1, Wraps
    <2> DEFINE j == i + 1
    <2>3. j = i + 1 /\ j \in Idx
      BY <2>1
    <2> HIDE DEF j
    <2>4. (a + j) % IdxMod = IF a + j < IdxMod THEN a + j ELSE a + j - IdxMod
      BY <2>3, Wraps
    <2>5. (c + i) % IdxMod = (a + j) % IdxMod
      BY <1>1, <1>2, <2>1, <2>2, <2>3, <2>4 DEF Idx
    <2>6. At(r, c, i) = At(r, a, j)
      BY <2>5 DEF At
    <2> QED BY <2>3, <2>6
  <1>8. /\ Entries(r, a, b) = {At(r, a, i) : i \in 0 .. n - 1}
        /\ Entries(r, c, b) = {At(r, c, i) : i \in 0 .. n - 2}
    <2>1. Count(c, b) - 1 = n - 2
      BY <1>5
    <2> QED BY <2>1 DEF Entries, At
  <1>9. \A i, j \in 0 .. n - 1 : At(r, a, i) = At(r, a, j) => i = j
    BY DEF Once
  <1> HIDE DEF n, b, c, h
  <1>10. h \in Entries(r, a, b)
    <2>1. 0 \in 0 .. n - 1
      BY <1>5
    <2> QED BY <1>6, <1>8, <2>1
  <1>11. ASSUME NEW x \in Entries(r, c, b)
         PROVE  x \in Entries(r, a, b) /\ x # h
    <2>1. PICK i \in 0 .. n - 2 : x = At(r, c, i)
      BY <1>8
    <2>2. x = At(r, a, i + 1) /\ i + 1 \in 0 .. n - 1 /\ 0 \in 0 .. n - 1 /\ i + 1 # 0
      BY <1>5, <1>7, <2>1
    <2>3. At(r, a, i + 1) # At(r, a, 0)
      BY <1>9, <2>2
    <2> QED BY <1>6, <1>8, <2>2, <2>3
  <1>12. ASSUME NEW x \in Entries(r, a, b), x # h
         PROVE  x \in Entries(r, c, b)
    <2>1. PICK i \in 0 .. n - 1 : x = At(r, a, i)
      BY <1>8
    <2>2. i # 0
      BY <1>6, <1>12, <2>1
    <2> DEFINE j == i - 1
    <2>3. j \in 0 .. n - 2 /\ j + 1 = i
      BY <1>5, <2>2
    <2> HIDE DEF j
    <2>4. x = At(r, c, j)
      BY <1>7, <2>1, <2>3
    <2> QED BY <1>8, <2>3, <2>4
  <1>13. Once(r, c, b)
    <2> SUFFICES ASSUME NEW i \in 0 .. n - 2, NEW j \in 0 .. n - 2,
                        At(r, c, i) = At(r, c, j)
                 PROVE  i = j
      <3>1. Count(c, b) - 1 = n - 2
        BY <1>5
      <3> QED BY <3>1 DEF Once
    <2>1. At(r, a, i + 1) = At(r, a, j + 1) /\ i + 1 \in 0 .. n - 1 /\ j + 1 \in 0 .. n - 1
      BY <1>5, <1>7
    <2>2. i + 1 = j + 1
      BY <1>9, <2>1
    <2> QED BY <2>2
  <1>14. Entries(r, c, b) = Entries(r, a, b) \ {h}
    BY <1>11, <1>12
  <1> QED BY <1>2, <1>10, <1>13, <1>14 DEF b, c, h

-----------------------------------------------------------------------------
(* The inductive invariant.                                                *)

Live == driver.setup = "live"

(* How far the driver's setup is and what may run then: the device works,  *)
(* and the handler acknowledges, only between setup and reset.             *)
SetupInv ==
  /\ driver.kick => Live
  /\ exit.running => /\ Live /\ driver.handler = "idle"
                     /\ queue.num = Num /\ exit.avail_idx = avail.idx
  /\ ~Live => /\ queue.last_avail_idx = 0 /\ interrupt_status = 0
              /\ driver.handler \in {"idle", "asking"}
              /\ \A h \in Heads : request[h] = None /\ answer[h] = NoAnswer
  /\ driver.setup = "placed" => avail.idx = 0 /\ used.idx = 0 /\ driver.last_used = 0

(* The requests in flight are in the rings, each once.                     *)
RingsInv ==
  Live => /\ Once(avail, queue.last_avail_idx, avail.idx)
          /\ Once(used, driver.last_used, used.idx)
          /\ Waiting \cup Returned = {h \in Heads : request[h] # None}
          /\ Waiting \cap Returned = {}

(* Answers are those of the requests in flight.                            *)
AnswerInv ==
  /\ \A h \in Heads : request[h] = None => answer[h] = NoAnswer
  /\ AnswersFresh

(* A call that has completed nothing yet found what was returned before it *)
(* announced already.                                                      *)
IrqInv ==
  /\ NoLostInterrupt
  /\ Live /\ exit.running /\ ~exit.completed /\ Returned # {} =>
       interrupt_status = 1 /\ irq

BlockInv == TypeOK /\ SetupInv /\ RingsInv /\ AnswerInv /\ IrqInv

(* The fields that index the rings.                                        *)
LEMMA Indices ==
  ASSUME TypeOK
  PROVE  /\ queue.last_avail_idx \in Idx /\ driver.last_used \in Idx
         /\ avail \in RingType /\ used \in RingType
         /\ avail.idx \in Idx /\ used.idx \in Idx
         /\ NoAnswer \in [byte : {"ok", "ioerr", "unsupp", None}, used_len : 0 .. 1 + Segments]
         /\ None \notin Types
  BY BlockAssumption DEF TypeOK, RingType, Idx, NoAnswer, None

(* It holds at the start.                                                  *)
LEMMA BlockStart ==
  ASSUME Init
  PROVE  BlockInv
  <1>1. 0 \in Idx /\ NoAnswer \in [byte : {"ok", "ioerr", "unsupp", None}, used_len : 0 .. 1 + Segments]
    BY Sizes, BlockAssumption DEF Idx, NoAnswer
  <1>2. Ring \in RingType
    BY <1>1 DEF Ring, RingType, Idx
  <1>3. TypeOK
    BY <1>1, <1>2 DEF Init, TypeOK, VirtQueue, Idx
  <1>4. ~Live /\ ~exit.running
    BY DEF Init, Live, Guest
  <1>5. SetupInv
    BY <1>4 DEF Init, SetupInv, VirtQueue, Live
  <1>6. RingsInv /\ AnswerInv /\ IrqInv
    BY <1>4 DEF Init, RingsInv, AnswerInv, AnswersFresh, IrqInv, NoLostInterrupt, Live
  <1> QED BY <1>3, <1>5, <1>6 DEF BlockInv

(* The setup of the device, up to the queue being ready with empty rings.  *)
LEMMA SetupStep ==
  ASSUME BlockInv, Setup
  PROVE  BlockInv'
  <1>1. TypeOK /\ SetupInv
    BY DEF BlockInv
  <1>2. /\ exit = Guest /\ exit' = exit /\ ~Live /\ driver.handler = "idle"
        /\ UNCHANGED <<interrupt_status, request, answer, irq, resets>>
    BY DEF Setup, WriteStatus, WriteQueueNum, WriteQueueAddresses, WriteQueueReady,
           InProcess, Live, memory
  <1>3. /\ driver' \in [setup : {"acknowledged", "sized", "placed", "live"},
                        last_used : Idx, kick : BOOLEAN,
                        handler : {"idle", "asking", "acking", "reaping"}]
        /\ driver'.handler = "idle" /\ driver'.kick = driver.kick
        /\ driver'.setup = "placed" => avail'.idx = 0 /\ used'.idx = 0 /\ driver'.last_used = 0
        /\ driver'.setup = "live" =>
             /\ driver.setup = "placed" /\ UNCHANGED <<avail, used>>
             /\ driver'.last_used = driver.last_used
        /\ queue' \in [num : {0, Num}, ready : BOOLEAN, placed : BOOLEAN, last_avail_idx : Idx]
        /\ queue'.last_avail_idx = queue.last_avail_idx
        /\ status' \in BOOLEAN
        /\ avail' \in RingType /\ used' \in RingType
    <2>1. driver \in [setup : {"found", "acknowledged", "sized", "placed", "live"},
                      last_used : Idx, kick : BOOLEAN,
                      handler : {"idle", "asking", "acking", "reaping"}]
          /\ queue \in [num : {0, Num}, ready : BOOLEAN, placed : BOOLEAN, last_avail_idx : Idx]
          /\ status \in BOOLEAN /\ avail \in RingType /\ used \in RingType
      BY <1>1 DEF TypeOK, Idx
    <2>2. 0 \in Idx
      BY Sizes DEF Idx
    <2>3. Ring \in RingType /\ Ring.idx = 0
      BY <2>2 DEF Ring, RingType, Idx
    <2>4. CASE WriteStatus
      BY <1>2, <2>1, <2>4 DEF WriteStatus, memory
    <2>5. CASE WriteQueueNum
      <3>1. Smaller(Num, QUEUE_MAX_SIZE) = Num
        BY BlockAssumption DEF Smaller
      <3> QED BY <1>2, <2>1, <2>5, <3>1 DEF WriteQueueNum, memory
    <2>6. CASE WriteQueueAddresses
      <3>1. driver' = [setup |-> "placed", last_used |-> 0, kick |-> driver.kick, handler |-> driver.handler]
        BY <2>1, <2>6 DEF WriteQueueAddresses
      <3>2. queue' = [num |-> queue.num, ready |-> queue.ready, placed |-> TRUE,
                      last_avail_idx |-> queue.last_avail_idx]
        BY <2>1, <2>6 DEF WriteQueueAddresses
      <3> QED BY <1>2, <2>1, <2>2, <2>3, <2>6, <3>1, <3>2 DEF WriteQueueAddresses
    <2>7. CASE WriteQueueReady
      BY <1>2, <2>1, <2>7 DEF WriteQueueReady, memory
    <2> QED BY <2>4, <2>5, <2>6, <2>7 DEF Setup
  <1> HIDE DEF Setup
  <1>4. TypeOK'
    BY <1>1, <1>2, <1>3 DEF TypeOK, Idx
  <1>5. ~exit.running
    BY <1>2 DEF Guest
  <1>6. SetupInv'
    BY <1>1, <1>2, <1>3, <1>5 DEF SetupInv, Live
  <1>7. Live' => Waiting' = {} /\ Returned' = {} /\ Once(avail, queue.last_avail_idx, avail.idx)'
                 /\ Once(used, driver.last_used, used.idx)'
    <2> SUFFICES ASSUME Live' PROVE Waiting' = {} /\ Returned' = {}
                   /\ Once(avail, queue.last_avail_idx, avail.idx)'
                   /\ Once(used, driver.last_used, used.idx)'
      OBVIOUS
    <2>1. /\ queue'.last_avail_idx = 0 /\ avail'.idx = 0
          /\ driver'.last_used = 0 /\ used'.idx = 0
      BY <1>1, <1>2, <1>3 DEF SetupInv, Live
    <2>2. 0 \in Idx
      BY Sizes DEF Idx
    <2>3. Count(0, 0) = 0
      BY <2>2, CountWraps
    <2>4. \A r : Entries(r, 0, 0) = {} /\ Once(r, 0, 0)
      BY <2>3 DEF Entries, Once
    <2> QED BY <2>1, <2>4 DEF Waiting, Returned
  <1>8. \A h \in Heads : request'[h] = None /\ answer'[h] = NoAnswer
    BY <1>1, <1>2 DEF SetupInv
  <1>9. RingsInv'
    BY <1>7, <1>8 DEF RingsInv
  <1>10. AnswerInv' /\ IrqInv'
    BY <1>7, <1>8 DEF AnswerInv, AnswersFresh, IrqInv, NoLostInterrupt, Live
  <1> QED BY <1>4, <1>6, <1>9, <1>10 DEF BlockInv

(* The types of the two records that most steps change.                    *)
QueueType == [num : {0, Num}, ready : BOOLEAN, placed : BOOLEAN, last_avail_idx : Idx]

DriverType ==
  [setup : {"found", "acknowledged", "sized", "placed", "live"},
   last_used : Idx, kick : BOOLEAN, handler : {"idle", "asking", "acking", "reaping"}]

(* A step that touches neither the rings nor the requests.                 *)
LEMMA RingsKept ==
  ASSUME RingsInv, AnswerInv, UNCHANGED memory,
         queue'.last_avail_idx = queue.last_avail_idx,
         driver'.last_used = driver.last_used, driver'.setup = driver.setup
  PROVE  /\ RingsInv' /\ AnswerInv'
         /\ Waiting' = Waiting /\ Returned' = Returned /\ Live' = Live
  <1>1. Waiting' = Waiting /\ Returned' = Returned /\ Live' = Live
    BY DEF Waiting, Returned, Live, memory
  <1>2. RingsInv'
    BY <1>1 DEF RingsInv, memory
  <1>3. AnswerInv'
    BY <1>1 DEF AnswerInv, AnswersFresh, memory
  <1> QED BY <1>1, <1>2, <1>3

(* A reset empties everything but the rings, which setup empties before    *)
(* the device looks at them again.                                         *)
LEMMA ResetStep ==
  ASSUME BlockInv, Reset
  PROVE  BlockInv'
  <1>1. TypeOK /\ SetupInv
    BY DEF BlockInv
  <1>2. /\ exit = Guest /\ exit' = exit /\ driver.handler = "idle"
        /\ status' = FALSE /\ queue' = VirtQueue /\ interrupt_status' = 0
        /\ request' = [h \in Heads |-> None] /\ answer' = [h \in Heads |-> NoAnswer]
        /\ driver' = [driver EXCEPT !.setup = "found", !.kick = FALSE]
        /\ UNCHANGED <<avail, used, irq>>
    BY DEF Reset, InProcess
  <1>3. driver \in DriverType
    BY <1>1 DEF TypeOK, DriverType, Idx
  <1>4. driver' = [setup |-> "found", last_used |-> driver.last_used, kick |-> FALSE,
                   handler |-> driver.handler]
    BY <1>2, <1>3 DEF DriverType
  <1>5. driver' \in DriverType /\ driver'.setup = "found" /\ ~driver'.kick
        /\ driver'.handler = "idle"
    BY <1>2, <1>3, <1>4 DEF DriverType
  <1>6. ~Live' /\ ~exit'.running /\ VirtQueue \in QueueType /\ VirtQueue.last_avail_idx = 0
    BY <1>2, <1>5, Sizes DEF Live, Guest, VirtQueue, QueueType, Idx
  <1>7. TypeOK'
    BY <1>1, <1>2, <1>5, <1>6, Indices DEF TypeOK, DriverType, QueueType, Idx
  <1>8. SetupInv'
    BY <1>2, <1>5, <1>6 DEF SetupInv
  <1>9. RingsInv' /\ AnswerInv' /\ IrqInv'
    BY <1>2, <1>6 DEF RingsInv, AnswerInv, AnswersFresh, IrqInv, NoLostInterrupt, Live
  <1> QED BY <1>7, <1>8, <1>9 DEF BlockInv

(* A new request joins the ones that wait.                                 *)
LEMMA SubmitStep ==
  ASSUME BlockInv, NEW h \in Heads, NEW type \in Types, Submit(h, type)
  PROVE  BlockInv'
  <1>1. TypeOK /\ SetupInv /\ RingsInv /\ AnswerInv /\ IrqInv
    BY DEF BlockInv
  <1> DEFINE a == queue.last_avail_idx
  <1>2. /\ exit = Guest /\ exit' = exit /\ Live /\ driver.handler = "idle"
        /\ request[h] = None /\ request' = [request EXCEPT ![h] = type]
        /\ avail' = [idx |-> NextIdx(avail.idx), ring |-> [avail.ring EXCEPT ![avail.idx % Num] = h]]
        /\ driver' = [driver EXCEPT !.kick = TRUE]
        /\ UNCHANGED <<status, queue, interrupt_status, used, answer, irq>>
    BY DEF Submit, InProcess, Live, device
  <1>3. driver \in DriverType /\ request \in [Heads -> Types \cup {None}]
    BY <1>1 DEF TypeOK, DriverType, Idx
  <1>4. /\ driver' \in DriverType /\ driver'.setup = driver.setup /\ driver'.kick
        /\ driver'.last_used = driver.last_used /\ driver'.handler = "idle"
    BY <1>2, <1>3 DEF DriverType
  <1>5. a \in Idx /\ avail \in RingType /\ avail.idx \in Idx /\ None \notin Types
    BY <1>1, Indices
  <1>6. /\ Once(avail, a, avail.idx) /\ Waiting \cup Returned = {x \in Heads : request[x] # None}
        /\ Waiting \cap Returned = {} /\ Once(used, driver.last_used, used.idx)
    BY <1>1, <1>2 DEF RingsInv
  <1>7. h \notin Waiting /\ h \notin Returned /\ Waiting \subseteq Heads
    BY <1>2, <1>6
  <1>8. Count(a, avail.idx) < Num /\ Count(a, avail.idx) + 1 < IdxMod
    BY <1>5, <1>6, <1>7, Room DEF Waiting
  <1>9. /\ avail' \in RingType
        /\ Entries(avail', a, avail'.idx) = Entries(avail, a, avail.idx) \cup {h}
        /\ Once(avail', a, avail'.idx)
    <2> DEFINE s == avail'
    <2>1. s = [idx |-> NextIdx(avail.idx), ring |-> [avail.ring EXCEPT ![avail.idx % Num] = h]]
      BY <1>2
    <2>2. h \notin Entries(avail, a, avail.idx)
      BY <1>7 DEF Waiting
    <2> HIDE DEF s, a
    <2>3. /\ s \in RingType
          /\ Entries(s, a, s.idx) = Entries(avail, a, avail.idx) \cup {h}
          /\ Once(s, a, s.idx)
      BY <1>5, <1>6, <1>8, <2>1, <2>2, PushEntry
    <2> QED BY <2>3 DEF s
  <1>10. Waiting' = Waiting \cup {h} /\ Returned' = Returned /\ Live'
    BY <1>2, <1>4, <1>9 DEF Waiting, Returned, Live
  <1>11. /\ request' \in [Heads -> Types \cup {None}] /\ request'[h] = type
         /\ \A x \in Heads : x # h => request'[x] = request[x]
    BY <1>2, <1>3
  <1>12. TypeOK'
    BY <1>1, <1>2, <1>4, <1>9, <1>11 DEF TypeOK, DriverType, Idx
  <1>13. ~exit.running
    BY <1>2 DEF Guest
  <1>14. SetupInv'
    BY <1>2, <1>4, <1>10, <1>13 DEF SetupInv, Live
  <1>15. RingsInv'
    <2>1. {x \in Heads : request'[x] # None} = {x \in Heads : request[x] # None} \cup {h}
      BY <1>5, <1>11
    <2>2. Waiting' \cap Returned' = {}
      BY <1>6, <1>7, <1>10
    <2>3. Waiting' \cup Returned' = {x \in Heads : request'[x] # None}
      BY <1>6, <1>10, <2>1
    <2> QED BY <1>2, <1>4, <1>6, <1>9, <2>2, <2>3 DEF RingsInv
  <1>16. AnswerInv'
    <2>1. answer[h] = NoAnswer
      BY <1>1, <1>2 DEF AnswerInv
    <2>2. \A x \in Heads : request'[x] = None => answer'[x] = NoAnswer
      BY <1>1, <1>2, <1>5, <1>11 DEF AnswerInv
    <2>3. \A x \in Returned : x \in Heads /\ request'[x] = request[x]
      BY <1>6, <1>7, <1>11
    <2>4. AnswersFresh'
      BY <1>1, <1>2, <1>10, <2>1, <2>3 DEF AnswerInv, AnswersFresh, Live
    <2> QED BY <2>2, <2>4 DEF AnswerInv
  <1>17. IrqInv'
    BY <1>1, <1>2, <1>4, <1>10, <1>13 DEF IrqInv, NoLostInterrupt, Live
  <1> QED BY <1>12, <1>14, <1>15, <1>16, <1>17 DEF BlockInv

(* A notification starts the device on what waits; what was returned       *)
(* before is announced by an interrupt that is still pending.              *)
LEMMA NotifyStep ==
  ASSUME BlockInv, Notify
  PROVE  BlockInv'
  <1>1. TypeOK /\ SetupInv /\ RingsInv /\ AnswerInv /\ IrqInv
    BY DEF BlockInv
  <1>2. /\ exit = Guest /\ driver.handler = "idle" /\ driver.kick
        /\ driver' = [driver EXCEPT !.kick = FALSE]
        /\ exit' = IF queue.ready /\ queue.num # 0
                     THEN [running |-> TRUE, avail_idx |-> avail.idx, completed |-> FALSE] ELSE Guest
        /\ UNCHANGED <<status, queue, interrupt_status, irq>> /\ UNCHANGED memory
    BY DEF Notify, InProcess, device
  <1>3. driver \in DriverType /\ queue \in QueueType
    BY <1>1 DEF TypeOK, DriverType, QueueType, Idx
  <1>4. /\ driver' \in DriverType /\ driver'.setup = driver.setup /\ ~driver'.kick
        /\ driver'.last_used = driver.last_used /\ driver'.handler = "idle"
    BY <1>2, <1>3 DEF DriverType
  <1>5. Live /\ ~exit.running
    BY <1>1, <1>2 DEF SetupInv, Guest
  <1>6. RingsInv' /\ AnswerInv' /\ Returned' = Returned /\ Live'
    BY <1>1, <1>2, <1>4, <1>5, RingsKept
  <1>7. /\ exit' \in {Guest} \cup [running : {TRUE}, avail_idx : Idx, completed : BOOLEAN]
        /\ exit'.running => /\ exit'.avail_idx = avail.idx /\ ~exit'.completed
                            /\ queue.num = Num
    BY <1>1, <1>2, <1>3, Indices DEF Guest, QueueType
  <1>8. TypeOK'
    BY <1>1, <1>2, <1>4, <1>7 DEF TypeOK, DriverType, Idx, memory
  <1>9. SetupInv'
    BY <1>2, <1>4, <1>6, <1>7 DEF SetupInv, Live, memory
  <1>10. Returned # {} => interrupt_status = 1 /\ irq
    BY <1>1, <1>2, <1>5 DEF IrqInv, NoLostInterrupt, Live
  <1>11. IrqInv'
    BY <1>2, <1>6, <1>10 DEF IrqInv, NoLostInterrupt, Live
  <1> QED BY <1>6, <1>8, <1>9, <1>11 DEF BlockInv

(* What serving a request puts into its answer: "unsupported" exactly for  *)
(* a type the device does not know, and all the data of a read that is     *)
(* reported as successful.                                                 *)
LEMMA Outcomes ==
  ASSUME NEW type \in Types, NEW o \in process_request(type)
  PROVE  /\ o \in [byte : {"ok", "ioerr", "unsupp", None}, used_len : 0 .. 1 + Segments]
         /\ o # NoAnswer
         /\ (o.byte = "unsupp") = (type = "get_id")
         /\ (type = "in" /\ o.byte = "ok") => o.used_len = 1 + Segments
  <1>1. Segments \in Nat \ {0} /\ type \in {"in", "out", "flush", "get_id"}
    BY BlockAssumption
  <1>2. ASSUME NEW t \in Transfers
        PROVE  /\ t.byte \in {"ok", "ioerr"} /\ t.bytes \in 0 .. Segments
               /\ t.byte = "ok" => t.bytes = Segments
    BY <1>1 DEF Transfers
  <1>3. CASE type = "in"
    <2>1. o \in {[byte |-> t.byte, used_len |-> 1 + t.bytes] : t \in Transfers}
      BY <1>3 DEF process_request
    <2>2. PICK t \in Transfers : o = [byte |-> t.byte, used_len |-> 1 + t.bytes]
      BY <2>1
    <2>3. /\ o = [byte |-> o.byte, used_len |-> o.used_len] /\ o.byte \in {"ok", "ioerr"}
          /\ o.used_len \in 1 .. 1 + Segments
          /\ o.byte = "ok" => o.used_len = 1 + Segments
      BY <1>1, <1>2, <2>2
    <2>4. o \in [byte : {"ok", "ioerr", "unsupp", None}, used_len : 0 .. 1 + Segments]
      BY <1>1, <2>3
    <2> QED BY <1>3, <2>3, <2>4 DEF NoAnswer, None
  <1>4. CASE type = "out"
    <2>1. o \in {[byte |-> t.byte, used_len |-> 1] : t \in Transfers}
      BY <1>4 DEF process_request
    <2>2. PICK t \in Transfers : o = [byte |-> t.byte, used_len |-> 1]
      BY <2>1
    <2>3. o.byte \in {"ok", "ioerr"} /\ o.used_len = 1 /\ o = [byte |-> o.byte, used_len |-> 1]
      BY <1>2, <2>2
    <2>4. o \in [byte : {"ok", "ioerr", "unsupp", None}, used_len : 0 .. 1 + Segments]
      BY <1>1, <2>3
    <2> QED BY <1>4, <2>3, <2>4 DEF NoAnswer, None
  <1>5. CASE type = "flush"
    <2>1. o \in {[byte |-> t.byte, used_len |-> 1] : t \in handle_flush}
      BY <1>5 DEF process_request
    <2>2. PICK t \in handle_flush : o = [byte |-> t.byte, used_len |-> 1]
      BY <2>1
    <2>3. o.byte \in {"ok", "ioerr"} /\ o.used_len = 1 /\ o = [byte |-> o.byte, used_len |-> 1]
      BY <2>2 DEF handle_flush
    <2>4. o \in [byte : {"ok", "ioerr", "unsupp", None}, used_len : 0 .. 1 + Segments]
      BY <1>1, <2>3
    <2> QED BY <1>5, <2>3, <2>4 DEF NoAnswer, None
  <1>6. CASE type = "get_id"
    <2>1. o \in {[byte |-> "unsupp", used_len |-> 1]}
      BY <1>6 DEF process_request
    <2>2. o = [byte |-> "unsupp", used_len |-> 1]
      BY <2>1
    <2>3. o.byte = "unsupp" /\ o.used_len = 1
      BY <2>2
    <2>4. o \in [byte : {"ok", "ioerr", "unsupp", None}, used_len : 0 .. 1 + Segments]
      BY <1>1, <2>2
    <2> QED BY <1>6, <2>3, <2>4 DEF NoAnswer, None
  <1> QED BY <1>1, <1>3, <1>4, <1>5, <1>6

(* Serving a request takes it from the available ring to the used ring,    *)
(* with an answer.                                                         *)
LEMMA ServeStep ==
  ASSUME BlockInv, ServeRequest
  PROVE  BlockInv'
  <1>1. TypeOK /\ SetupInv /\ RingsInv /\ AnswerInv /\ IrqInv
    BY DEF BlockInv
  <1> DEFINE a == queue.last_avail_idx
             l == driver.last_used
             head == avail.ring[a % Num]
  <1>2. exit.running /\ a # avail.idx /\ Live /\ queue.num = Num /\ driver.handler = "idle"
    BY <1>1 DEF ServeRequest, SetupInv
  <1>3. /\ a \in Idx /\ avail \in RingType /\ avail.idx \in Idx
        /\ l \in Idx /\ used \in RingType /\ used.idx \in Idx
    BY <1>1, Indices
  <1>4. /\ Once(avail, a, avail.idx) /\ Once(used, l, used.idx)
        /\ Waiting \cup Returned = {x \in Heads : request[x] # None}
        /\ Waiting \cap Returned = {}
    BY <1>1, <1>2 DEF RingsInv
  <1>5. /\ NextIdx(a) \in Idx /\ head \in Waiting
        /\ Entries(avail, NextIdx(a), avail.idx) = Waiting \ {head}
        /\ Once(avail, NextIdx(a), avail.idx)
    BY <1>2, <1>3, <1>4, PopEntry DEF Waiting
  <1>6. head \in Heads /\ head < Num /\ request[head] \in Types /\ head \notin Returned
        /\ Returned \subseteq Heads
    <2>1. head \in Heads /\ request[head] # None /\ head \notin Returned /\ Returned \subseteq Heads
      BY <1>4, <1>5
    <2>2. request[head] \in Types
      BY <1>1, <2>1 DEF TypeOK
    <2>3. \A x \in Heads : x < Num
      BY BlockAssumption
    <2> QED BY <2>1, <2>2, <2>3
  <1>7. PICK o \in process_request(request[head]) :
          /\ answer' = [answer EXCEPT ![head] = o]
          /\ exit' = [exit EXCEPT !.completed = TRUE]
          /\ used' = [idx |-> NextIdx(used.idx), ring |-> [used.ring EXCEPT ![used.idx % Num] = head]]
          /\ queue' = [queue EXCEPT !.last_avail_idx = NextIdx(queue.last_avail_idx)]
          /\ UNCHANGED <<status, interrupt_status, avail, request, driver, irq>>
    BY <1>2, <1>6 DEF ServeRequest
  <1> HIDE DEF head
  <1>8. /\ o \in [byte : {"ok", "ioerr", "unsupp", None}, used_len : 0 .. 1 + Segments]
        /\ o # NoAnswer /\ (o.byte = "unsupp") = (request[head] = "get_id")
        /\ (request[head] = "in" /\ o.byte = "ok") => o.used_len = 1 + Segments
    <2> DEFINE type == request[head]
    <2>1. type \in Types /\ o \in process_request(type)
      BY <1>6
    <2> HIDE DEF type
    <2>2. /\ o \in [byte : {"ok", "ioerr", "unsupp", None}, used_len : 0 .. 1 + Segments]
          /\ o # NoAnswer /\ (o.byte = "unsupp") = (type = "get_id")
          /\ (type = "in" /\ o.byte = "ok") => o.used_len = 1 + Segments
      BY <2>1, Outcomes
    <2> QED BY <2>2 DEF type
  <1>9. queue \in QueueType /\ exit \in [running : {TRUE}, avail_idx : Idx, completed : BOOLEAN]
        /\ answer \in [Heads -> [byte : {"ok", "ioerr", "unsupp", None}, used_len : 0 .. 1 + Segments]]
    <2>1. exit # Guest
      BY <1>2 DEF Guest
    <2>2. exit \in {Guest} \cup [running : {TRUE}, avail_idx : Idx, completed : BOOLEAN]
      BY <1>1 DEF TypeOK, Idx
    <2>3. queue \in QueueType
          /\ answer \in [Heads -> [byte : {"ok", "ioerr", "unsupp", None}, used_len : 0 .. 1 + Segments]]
      BY <1>1 DEF TypeOK, QueueType, Idx
    <2> QED BY <2>1, <2>2, <2>3
  <1>10. /\ queue' \in QueueType /\ queue'.last_avail_idx = NextIdx(a) /\ queue'.num = Num
         /\ exit' \in [running : {TRUE}, avail_idx : Idx, completed : BOOLEAN]
         /\ exit'.running /\ exit'.completed /\ exit'.avail_idx = exit.avail_idx
    BY <1>2, <1>5, <1>7, <1>9 DEF QueueType
  <1>11. /\ answer' \in [Heads -> [byte : {"ok", "ioerr", "unsupp", None}, used_len : 0 .. 1 + Segments]]
         /\ answer'[head] = o /\ \A x \in Heads : x # head => answer'[x] = answer[x]
    BY <1>6, <1>7, <1>8, <1>9
  <1>12. /\ used' \in RingType
         /\ Entries(used', l, used'.idx) = Returned \cup {head}
         /\ Once(used', l, used'.idx)
    <2> DEFINE s == used'
    <2>1. s = [idx |-> NextIdx(used.idx), ring |-> [used.ring EXCEPT ![used.idx % Num] = head]]
      BY <1>7
    <2>2. head \notin Entries(used, l, used.idx) /\ Entries(used, l, used.idx) \subseteq Heads
      BY <1>6 DEF Returned
    <2> HIDE DEF s, l
    <2>3. Count(l, used.idx) < Num /\ Count(l, used.idx) + 1 < IdxMod
      BY <1>3, <1>4, <1>6, <2>2, Room
    <2>4. /\ s \in RingType
          /\ Entries(s, l, s.idx) = Entries(used, l, used.idx) \cup {head}
          /\ Once(s, l, s.idx)
      BY <1>3, <1>4, <1>6, <2>1, <2>2, <2>3, PushEntry
    <2> QED BY <2>4 DEF s, l, Returned
  <1>13. Waiting' = Waiting \ {head} /\ Returned' = Returned \cup {head} /\ Live'
    BY <1>2, <1>5, <1>7, <1>10, <1>12 DEF Waiting, Returned, Live
  <1>14. TypeOK'
    BY <1>1, <1>7, <1>10, <1>11, <1>12 DEF TypeOK, QueueType, Idx
  <1>15. SetupInv'
    BY <1>1, <1>2, <1>7, <1>10, <1>13 DEF SetupInv, Live
  <1>16. RingsInv'
    <2>1. Waiting' \cup Returned' = {x \in Heads : request'[x] # None} /\ Waiting' \cap Returned' = {}
      BY <1>4, <1>5, <1>7, <1>13
    <2>2. Once(avail, a, avail.idx)' /\ Once(used, l, used.idx)'
      BY <1>5, <1>7, <1>10, <1>12
    <2> QED BY <2>1, <2>2 DEF RingsInv
  <1>17. AnswerInv'
    <2>1. \A x \in Heads : request'[x] = None => answer'[x] = NoAnswer
      <3>1. request[head] # None
        BY <1>6, <1>1, Indices
      <3> QED BY <1>1, <1>7, <1>11, <3>1 DEF AnswerInv
    <2>2. ASSUME NEW x \in Returned'
          PROVE  /\ answer'[x] # NoAnswer
                 /\ (answer'[x].byte = "unsupp") = (request'[x] = "get_id")
                 /\ (request'[x] = "in" /\ answer'[x].byte = "ok") =>
                      answer'[x].used_len = 1 + Segments
      <3>1. CASE x = head
        BY <1>7, <1>8, <1>11, <3>1
      <3>2. CASE x # head
        <4>1. x \in Returned /\ answer'[x] = answer[x] /\ request'[x] = request[x]
          BY <1>6, <1>7, <1>11, <1>13, <2>2, <3>2
        <4> QED BY <1>1, <1>2, <4>1 DEF AnswerInv, AnswersFresh, Live
      <3> QED BY <3>1, <3>2
    <2>3. ASSUME NEW x \in Waiting' PROVE answer'[x] = NoAnswer
      <3>1. x \in Waiting /\ x \in Heads /\ x # head
        BY <1>4, <1>13, <2>3
      <3> QED BY <1>1, <1>2, <1>11, <3>1 DEF AnswerInv, AnswersFresh, Live
    <2> QED BY <2>1, <2>2, <2>3 DEF AnswerInv, AnswersFresh
  <1>18. IrqInv'
    BY <1>10 DEF IrqInv, NoLostInterrupt
  <1> QED BY <1>14, <1>15, <1>16, <1>17, <1>18 DEF BlockInv

(* The end of a call announces what it completed; without any, what was    *)
(* returned before is announced already.                                   *)
LEMMA FinishStep ==
  ASSUME BlockInv, FinishQueue
  PROVE  BlockInv'
  <1>1. TypeOK /\ SetupInv /\ RingsInv /\ AnswerInv /\ IrqInv
    BY DEF BlockInv
  <1>2. /\ exit.running /\ exit' = Guest
        /\ interrupt_status' = IF exit.completed THEN 1 ELSE interrupt_status
        /\ irq' = (irq \/ exit.completed)
        /\ UNCHANGED <<status, queue, driver>> /\ UNCHANGED memory
    BY DEF FinishQueue
  <1>3. Live /\ ~exit'.running /\ exit.completed \in BOOLEAN
    <2>1. Live /\ ~exit'.running /\ exit # Guest
      BY <1>1, <1>2 DEF SetupInv, Guest
    <2>2. exit \in [running : {TRUE}, avail_idx : Idx, completed : BOOLEAN]
      BY <1>1, <2>1 DEF TypeOK, Idx
    <2> QED BY <2>1, <2>2
  <1>4. RingsInv' /\ AnswerInv' /\ Returned' = Returned /\ Live'
    BY <1>1, <1>2, <1>3, RingsKept
  <1>5. TypeOK'
    BY <1>1, <1>2, <1>3 DEF TypeOK, memory
  <1>6. SetupInv'
    BY <1>1, <1>2, <1>3, <1>4 DEF SetupInv, Live, memory
  <1>7. IrqInv'
    <2>1. CASE exit.completed
      BY <1>2, <1>3, <1>4, <2>1 DEF IrqInv, NoLostInterrupt
    <2>2. CASE ~exit.completed
      <3>1. Returned # {} => interrupt_status = 1 /\ irq
        BY <1>1, <1>2, <1>3, <2>2 DEF IrqInv
      <3> QED BY <1>2, <1>3, <1>4, <2>2, <3>1 DEF IrqInv, NoLostInterrupt
    <2> QED BY <2>1, <2>2
  <1> QED BY <1>4, <1>5, <1>6, <1>7 DEF BlockInv

(* The handler up to the acknowledgement: a register that reads 0 means    *)
(* that nothing was returned, and whoever acknowledges takes the entries.  *)
LEMMA HandlerStep ==
  ASSUME BlockInv, Interrupt \/ ReadInterruptStatus \/ InterruptAck
  PROVE  BlockInv'
  <1>1. TypeOK /\ SetupInv /\ RingsInv /\ AnswerInv /\ IrqInv
    BY DEF BlockInv
  <1>2. /\ exit = Guest /\ UNCHANGED <<status, queue, exit>> /\ UNCHANGED memory
        /\ \/ /\ driver.handler = "idle" /\ irq /\ irq' = FALSE
              /\ driver' = [driver EXCEPT !.handler = "asking"]
              /\ interrupt_status' = interrupt_status
           \/ /\ driver.handler = "asking" /\ irq' = irq
              /\ driver' = [driver EXCEPT !.handler = IF interrupt_status = 0 THEN "idle" ELSE "acking"]
              /\ interrupt_status' = interrupt_status
           \/ /\ driver.handler = "acking" /\ irq' = irq
              /\ driver' = [driver EXCEPT !.handler = "reaping"]
              /\ interrupt_status' = 0
    BY DEF Interrupt, ReadInterruptStatus, InterruptAck, InProcess, device
  <1>3. driver \in DriverType /\ interrupt_status \in {0, 1} /\ irq \in BOOLEAN
    BY <1>1 DEF TypeOK, DriverType, Idx
  <1>4. /\ driver' \in DriverType /\ driver'.setup = driver.setup
        /\ driver'.last_used = driver.last_used /\ driver'.kick = driver.kick
        /\ \/ /\ driver.handler = "idle" /\ irq /\ driver'.handler = "asking"
              /\ interrupt_status' = interrupt_status
           \/ /\ driver.handler = "asking" /\ irq' = irq /\ interrupt_status' = interrupt_status
              /\ driver'.handler = IF interrupt_status = 0 THEN "idle" ELSE "acking"
           \/ /\ driver.handler = "acking" /\ driver'.handler = "reaping"
              /\ interrupt_status' = 0
    BY <1>2, <1>3 DEF DriverType
  <1>5. irq' \in BOOLEAN /\ interrupt_status' \in {0, 1}
    BY <1>2, <1>3
  <1>6. RingsInv' /\ AnswerInv' /\ Returned' = Returned /\ (Live' <=> Live)
    BY <1>1, <1>2, <1>4, RingsKept
  <1>7. TypeOK'
    BY <1>1, <1>2, <1>4, <1>5 DEF TypeOK, DriverType, Idx, memory
  <1>8. ~exit.running
    BY <1>2 DEF Guest
  <1>9. SetupInv'
    BY <1>1, <1>2, <1>4, <1>6, <1>8 DEF SetupInv, Live, memory
  <1>10. IrqInv'
    <2> SUFFICES ASSUME Live, Returned # {} PROVE NoLostInterrupt'
      BY <1>2, <1>4, <1>6, <1>8 DEF IrqInv, NoLostInterrupt, Live
    <2>1. \/ driver.handler = "reaping"
          \/ interrupt_status = 1 /\ (irq \/ driver.handler \in {"asking", "acking"})
      BY <1>1, <1>8 DEF IrqInv, NoLostInterrupt, Live
    <2> QED BY <1>4, <2>1 DEF NoLostInterrupt
  <1> QED BY <1>6, <1>7, <1>9, <1>10 DEF BlockInv

(* The handler takes a returned request, or finds none left.               *)
LEMMA ReapStep ==
  ASSUME BlockInv, Reap
  PROVE  BlockInv'
  <1>1. TypeOK /\ SetupInv /\ RingsInv /\ AnswerInv /\ IrqInv
    BY DEF BlockInv
  <1> DEFINE l == driver.last_used
             head == used.ring[l % Num]
  <1>2. /\ exit = Guest /\ driver.handler = "reaping"
        /\ UNCHANGED <<status, queue, interrupt_status, exit, avail, used, irq>>
    BY DEF Reap, device
  <1>3. Live /\ ~exit.running /\ driver \in DriverType
    BY <1>1, <1>2 DEF SetupInv, Guest, TypeOK, DriverType, Idx
  <1>4. l \in Idx /\ used \in RingType /\ used.idx \in Idx
    BY <1>1, Indices
  <1>5. CASE l = used.idx
    <2>1. driver' = [driver EXCEPT !.handler = "idle"] /\ UNCHANGED <<request, answer>>
      BY <1>5 DEF Reap
    <2>2. /\ driver' \in DriverType /\ driver'.setup = driver.setup
          /\ driver'.last_used = driver.last_used /\ driver'.kick = driver.kick
          /\ driver'.handler = "idle"
      BY <1>3, <2>1 DEF DriverType
    <2>3. RingsInv' /\ AnswerInv' /\ Returned' = Returned /\ Live'
      BY <1>1, <1>2, <1>3, <2>1, <2>2, RingsKept DEF memory
    <2>4. Returned = {}
      BY <1>4, <1>5, EntryFacts, ZenonT(60) DEF Returned
    <2>5. TypeOK'
      BY <1>1, <1>2, <2>1, <2>2 DEF TypeOK, DriverType, Idx
    <2>6. SetupInv'
      BY <1>1, <1>2, <1>3, <2>1, <2>2, <2>3 DEF SetupInv, Live
    <2>7. IrqInv'
      BY <2>3, <2>4 DEF IrqInv, NoLostInterrupt
    <2> QED BY <2>3, <2>5, <2>6, <2>7 DEF BlockInv
  <1>6. CASE l # used.idx
    <2>1. /\ driver' = [driver EXCEPT !.last_used = NextIdx(driver.last_used)]
          /\ request' = [request EXCEPT ![head] = None]
          /\ answer' = [answer EXCEPT ![head] = NoAnswer]
      BY <1>6 DEF Reap
    <2>2. /\ Once(avail, queue.last_avail_idx, avail.idx) /\ Once(used, l, used.idx)
          /\ Waiting \cup Returned = {x \in Heads : request[x] # None}
          /\ Waiting \cap Returned = {}
      BY <1>1, <1>3 DEF RingsInv
    <2>3. /\ NextIdx(l) \in Idx /\ head \in Returned
          /\ Entries(used, NextIdx(l), used.idx) = Returned \ {head}
          /\ Once(used, NextIdx(l), used.idx)
      BY <1>4, <1>6, <2>2, PopEntry DEF Returned
    <2>4. /\ driver' \in DriverType /\ driver'.setup = driver.setup
          /\ driver'.last_used = NextIdx(l) /\ driver'.kick = driver.kick
          /\ driver'.handler = "reaping"
      BY <1>2, <1>3, <2>1, <2>3 DEF DriverType
    <2> HIDE DEF head
    <2>5. head \in Heads /\ head \notin Waiting
      BY <2>2, <2>3
    <2>6. /\ request' \in [Heads -> Types \cup {None}] /\ request'[head] = None
          /\ answer' \in [Heads -> [byte : {"ok", "ioerr", "unsupp", None}, used_len : 0 .. 1 + Segments]]
          /\ answer'[head] = NoAnswer
          /\ \A x \in Heads : x # head => request'[x] = request[x] /\ answer'[x] = answer[x]
      BY <1>1, <2>1, <2>5, Indices DEF TypeOK
    <2>7. Waiting' = Waiting /\ Returned' = Returned \ {head} /\ Live'
      BY <1>2, <1>3, <2>3, <2>4 DEF Waiting, Returned, Live
    <2>8. TypeOK'
      BY <1>1, <1>2, <2>4, <2>6 DEF TypeOK, DriverType, Idx
    <2>9. SetupInv'
      BY <1>1, <1>2, <1>3, <2>4, <2>7 DEF SetupInv, Live
    <2>10. RingsInv'
      <3>1. Waiting' \cup Returned' = {x \in Heads : request'[x] # None} /\ Waiting' \cap Returned' = {}
        BY <2>2, <2>5, <2>6, <2>7
      <3>2. Once(avail, queue.last_avail_idx, avail.idx)' /\ Once(used, driver.last_used, used.idx)'
        BY <1>2, <2>2, <2>3, <2>4
      <3> QED BY <3>1, <3>2 DEF RingsInv
    <2>11. AnswerInv'
      <3>1. \A x \in Heads : request'[x] = None => answer'[x] = NoAnswer
        BY <1>1, <2>6 DEF AnswerInv
      <3>2. \A x \in Returned' : /\ x \in Returned /\ x \in Heads
                                 /\ request'[x] = request[x] /\ answer'[x] = answer[x]
        BY <2>2, <2>6, <2>7
      <3>3. \A x \in Waiting' : x \in Waiting /\ answer'[x] = answer[x]
        BY <2>2, <2>5, <2>6, <2>7
      <3>4. AnswersFresh'
        BY <1>1, <1>3, <3>2, <3>3 DEF AnswerInv, AnswersFresh, Live
      <3> QED BY <3>1, <3>4 DEF AnswerInv
    <2>12. IrqInv'
      BY <1>2, <1>3, <2>4 DEF IrqInv, NoLostInterrupt
    <2> QED BY <2>8, <2>9, <2>10, <2>11, <2>12 DEF BlockInv
  <1> QED BY <1>5, <1>6

(* Every step keeps the invariant.                                         *)
THEOREM BlockInvariant == Spec => []BlockInv
  <1>1. Init => BlockInv
    BY BlockStart
  <1>2. BlockInv /\ [Next]_vars => BlockInv'
    <2> SUFFICES ASSUME BlockInv, [Next]_vars PROVE BlockInv'
      OBVIOUS
    <2>1. CASE Setup
      BY <2>1, SetupStep
    <2>2. CASE Reset
      BY <2>2, ResetStep
    <2>3. CASE Serve
      BY <2>3, NotifyStep, ServeStep, FinishStep DEF Serve
    <2>4. CASE Handler
      BY <2>4, HandlerStep, ReapStep DEF Handler
    <2>5. CASE \E h \in Heads, type \in Types : Submit(h, type)
      BY <2>5, SubmitStep
    <2>6. CASE UNCHANGED vars
      <3>1. UNCHANGED memory /\ UNCHANGED <<status, queue, interrupt_status, exit, driver, irq>>
        BY <2>6 DEF vars, device
      <3>2. RingsInv' /\ AnswerInv' /\ Returned' = Returned /\ (Live' <=> Live)
        BY <3>1, RingsKept DEF BlockInv
      <3>3. TypeOK'
        <4>1. /\ avail' = avail /\ used' = used /\ request' = request /\ answer' = answer
          BY <3>1 DEF memory
        <4>2. /\ status' = status /\ queue' = queue /\ driver' = driver /\ irq' = irq
              /\ interrupt_status' = interrupt_status /\ exit' = exit
          BY <3>1
        <4>3. TypeOK
          BY DEF BlockInv
        <4>4. (status \in BOOLEAN)' /\ (irq \in BOOLEAN)'
          BY <4>2, <4>3, Zenon DEF TypeOK
        <4> QED BY <4>1, <4>2, <4>3, <4>4, ZenonT(60) DEF TypeOK
      <3>4. SetupInv'
        BY <3>1, <3>2, Zenon DEF BlockInv, SetupInv, memory
      <3>5. IrqInv'
        BY <3>1, <3>2, Zenon DEF BlockInv, IrqInv, NoLostInterrupt
      <3> QED BY <3>2, <3>3, <3>4, <3>5 DEF BlockInv
    <2> QED BY <2>1, <2>2, <2>3, <2>4, <2>5, <2>6 DEF Next
  <1> QED BY <1>1, <1>2, PTL DEF Spec

(* The state of device, rings and driver always has its type: the indices  *)
(* stay in their range however often they wrap.                            *)
THEOREM BlockTypes == Spec => []TypeOK
  <1>1. BlockInv => TypeOK
    BY DEF BlockInv
  <1> QED BY <1>1, BlockInvariant, PTL

(* Every request in flight is exactly once in one of the two rings: none   *)
(* is lost, served twice or overwritten by process_queue, whatever wraps,  *)
(* fails or is reset.                                                      *)
THEOREM RequestsAreOnce == Spec => []EachOnce
  <1>1. BlockInv => EachOnce
    <2> SUFFICES ASSUME BlockInv, Live PROVE EachOnce
      BY DEF EachOnce, Live
    <2>1. /\ queue.last_avail_idx \in Idx /\ driver.last_used \in Idx
          /\ avail.idx \in Idx /\ used.idx \in Idx
      BY Indices DEF BlockInv
    <2>2. /\ Once(avail, queue.last_avail_idx, avail.idx)
          /\ Once(used, driver.last_used, used.idx)
          /\ Waiting \cup Returned = {h \in Heads : request[h] # None}
          /\ Waiting \cap Returned = {}
      BY DEF BlockInv, RingsInv
    <2>3. Cardinality(Waiting) = Count(queue.last_avail_idx, avail.idx)
      BY <2>1, <2>2, EntriesCard DEF Waiting
    <2>4. Cardinality(Returned) = Count(driver.last_used, used.idx)
      BY <2>1, <2>2, EntriesCard DEF Returned
    <2> QED BY <2>2, <2>3, <2>4 DEF EachOnce
  <1> QED BY <1>1, BlockInvariant, PTL

(* A request comes back with the answer process_request gave to it and not *)
(* one of an earlier request at the same head.                             *)
THEOREM AnswersStayFresh == Spec => []AnswersFresh
  <1>1. BlockInv => AnswersFresh
    BY DEF BlockInv, AnswerInv
  <1> QED BY <1>1, BlockInvariant, PTL

(* What is returned is on its way to the driver: stale and merged          *)
(* interrupts lose nothing.                                                *)
THEOREM InterruptsArrive == Spec => []NoLostInterrupt
  <1>1. BlockInv => NoLostInterrupt
    BY DEF BlockInv, IrqInv
  <1> QED BY <1>1, BlockInvariant, PTL
=============================================================================
