---------------------------- MODULE Consolidation ----------------------------
(***************************************************************************)
(* Consolidation of a store's tiers (rondo/src/consolidate.rs, called by   *)
(* Store::consolidate): for each adjacent pair of tiers, the points of the *)
(* source ring since the pair's cursor are grouped into the windows of the *)
(* destination ring, the windows are written, and at the very end the      *)
(* cursors of all pairs are saved to consolidation_cursors.json.           *)
(*                                                                         *)
(* A call holds the store exclusively, so no point is recorded during it,  *)
(* but it is many ring writes followed by the rewrite of one small file,   *)
(* and the process can die between any two of them (Crash) and inside one  *)
(* (DieInRecord, DieInWindow): a ring write is a store of the timestamp,   *)
(* one of the value and one of the cursor into the mapped file.            *)
(*                                                                         *)
(* The value of a cell is the SET of raw timestamps that went into it: a   *)
(* raw point recorded at t has the value {t}, and a consolidation function *)
(* applied to several values gives their union.  So a cell tells which     *)
(* points were aggregated, whatever the function computes of them; the     *)
(* value of a cell without data, NaN, is the empty set.                    *)
(***************************************************************************)
EXTENDS RingOps

CONSTANTS
  RingIds,        \* all rings of the store, as <<schema, tier>>
  Columns,        \* value columns of every ring (0 .. max_series - 1)
  SlotCount,      \* [RingIds -> slots]
  IntervalNs,     \* [RingIds -> width of a slot]
  Pairs,          \* the <<source, destination>> rings in processing order
  Unconfigured,   \* destination rings without a consolidation function
  Summing,        \* destination rings whose function adds up the values:
                  \* Sum, or Average in the second tier
  Timestamps,     \* timestamps callers record with
  Huge,           \* those recorded with more than half of f64::MAX
  MaxCrashes      \* bound on the crashes of a behaviour

ASSUME ConsolidationAssumption ==
  /\ NaN = {}
  /\ RingIds \subseteq Nat \X Nat
  /\ \A r \in RingIds :
       /\ <<r[1], 0>> \in RingIds
       /\ SlotCount[r] \in Nat \ {0} /\ IntervalNs[r] \in Nat \ {0}
  /\ Pairs \in Seq(RingIds \X RingIds) /\ Pairs # << >>
  /\ \A i \in DOMAIN Pairs :
       /\ Pairs[i][2] = <<Pairs[i][1][1], Pairs[i][1][2] + 1>>
       /\ IntervalNs[Pairs[i][1]] < IntervalNs[Pairs[i][2]]
  /\ \A i, j \in DOMAIN Pairs : Pairs[i] = Pairs[j] => i = j
  /\ \A r \in RingIds : r[2] # 0 => \E i \in DOMAIN Pairs : Pairs[i][2] = r
  /\ Timestamps \subseteq Nat \ {0}
  /\ MaxCrashes \in Nat

VARIABLES
  rings,       \* the rings, indexed by RingIds
  cursorFile,  \* what consolidation_cursors.json holds
  job,         \* the call of consolidate in progress
  crashes,     \* number of crashes so far
  recorded,    \* history: raw timestamps recorded, per ring and column
  consumed,    \* history: source timestamps read by a completed window
               \* write, per pair and column
  strays       \* history: what a process that died inside a write left in
               \* the cell of the write: pairs <<point, time of the write>>,
               \* per first-tier ring and column

vars == <<rings, cursorFile, job, crashes, recorded, consumed, strays>>

PairIds == 1 .. Len(Pairs)
Src(i)  == Pairs[i][1]
Dst(i)  == Pairs[i][2]

(* Rings that callers record into: the first tier of each schema.          *)
Roots == {r \in RingIds : r[2] = 0}

Idle == [at |-> "idle"]

(* A cursor file that was truncated and not written: it does not parse.    *)
EmptyFile == << >>

-----------------------------------------------------------------------------
(* What one tier pair has to do.                                           *)

(* Mutants of NewRange: the newest point is left out; the destination's    *)
(* interval is added to the cursor.                                        *)
RangeEndsAtNewest(i, last) ==
  LET src == rings[Src(i)]
  IN  [start |-> IF last = 0 THEN oldest_timestamp(src) ELSE last + src.interval_ns,
       end   |-> newest_timestamp(src)]

RangeSkipsWindow(i, last) ==
  LET src == rings[Src(i)]
  IN  [start |-> IF last = 0 THEN oldest_timestamp(src) ELSE last + IntervalNs[Dst(i)],
       end   |-> IF newest_timestamp(src) = 0 THEN 0 ELSE newest_timestamp(src) + 1]

(* The half-open range of source timestamps that are new for the pair.     *)
NewRange(i, last) ==
  LET src    == rings[Src(i)]
      newest == newest_timestamp(src)
  IN  [start |-> IF last = 0 THEN oldest_timestamp(src) ELSE last + src.interval_ns,
       end   |-> IF newest = 0 THEN 0 ELSE newest + 1]

NearestWindow(i, t) ==    \* mutant of WindowStart: rounds to the nearest
  ((t + IntervalNs[Dst(i)] \div 2) \div IntervalNs[Dst(i)]) * IntervalNs[Dst(i)]

WindowStart(i, t) == (t \div IntervalNs[Dst(i)]) * IntervalNs[Dst(i)]

(* The points of column c of the source ring in the range, none if it is   *)
(* empty.                                                                  *)
NewPoints(i, c, range) ==
  LET out == read(rings[Src(i)], c, range.start, range.end)
  IN  IF range.start >= range.end THEN {} ELSE {out[k] : k \in DOMAIN out}

(* What is to be written for the points of a column: for each window, the  *)
(* union of the values of its points.                                      *)
ColumnWindows(i, c, points) ==
  LET of(w) == {p \in points : WindowStart(i, p[1]) = w}
  IN  {[window |-> w, column |-> c,
        value  |-> UNION {p[2] : p \in of(w)},
        times  |-> {p[1] : p \in of(w)}] : w \in {WindowStart(i, p[1]) : p \in points}}

(* The windows of the pair, for every column with points.                  *)
Windows(i, last) ==
  UNION {UNION {ColumnWindows(i, c, points) : points \in {NewPoints(i, c, range)}} :
           c \in Columns, range \in {NewRange(i, last)}}

(* consolidate_tier_pair has begun for pair i.                             *)
Enter(i, cursors) ==
  [at |-> "pair", pair |-> i, cursors |-> cursors,
   todo |-> Windows(i, cursors[i]), open |-> 0, ops |-> 0]

(* ConsolidationFn::apply of the values of a window.  What it computes of  *)
(* them is left out, except that the sum of two huge ones is infinite.     *)
Infinite(i, value) == Dst(i) \in Summing /\ Cardinality(value \cap Huge) > 1

(* RingBuffer::write refuses a timestamp of 0 and a value that is not      *)
(* finite.                                                                 *)
Refused(x) == x.window = 0 \/ Infinite(job.pair, x.value)

-----------------------------------------------------------------------------
Init ==
  /\ rings = [r \in RingIds |-> create(SlotCount[r], IntervalNs[r], Columns)]
  /\ cursorFile = [i \in PairIds |-> 0]
  /\ job = Idle
  /\ crashes = 0
  /\ recorded = [r \in Roots |-> [c \in Columns |-> {}]]
  /\ consumed = [i \in PairIds |-> [c \in Columns |-> {}]]
  /\ strays = [r \in Roots |-> [c \in Columns |-> {}]]

(* Store::record into the first tier.                                      *)
Record(r, c, t) ==
  /\ job = Idle
  /\ rings' = [rings EXCEPT ![r] = write(@, c, {t}, t)]
  /\ recorded' = [recorded EXCEPT ![r][c] = @ \cup {t}]
  /\ UNCHANGED <<cursorFile, job, crashes, consumed, strays>>

(* ConsolidationEngine::new loads the cursors, a missing file or a missing *)
(* entry standing for 0, and consolidate enters the first pair.  A file    *)
(* that does not parse makes the call fail before it does anything.        *)
StartConsolidation ==
  /\ job = Idle
  /\ cursorFile # EmptyFile
  /\ job' = Enter(1, cursorFile)
  /\ UNCHANGED <<rings, cursorFile, crashes, recorded, consumed, strays>>

(* One dest_ring.write.  The windows are the values of a HashMap, and so   *)
(* are the columns of a window: any window may be next, and the columns of *)
(* one window are written in any order before the next is begun.           *)
Turn(x) == \A y \in job.todo : y.window = job.open => x.window = job.open

WriteWindow ==
  /\ job.at = "pair"
  /\ Dst(job.pair) \notin Unconfigured
  /\ \E x \in job.todo :
       /\ Turn(x)
       /\ ~Refused(x)
       /\ rings' = [rings EXCEPT ![Dst(job.pair)] = write(@, x.column, x.value, x.window)]
       /\ job' = [job EXCEPT !.todo = @ \ {x}, !.open = x.window, !.ops = @ + 1]
       /\ consumed' = [consumed EXCEPT ![job.pair][x.column] = @ \cup x.times]
  /\ UNCHANGED <<cursorFile, crashes, recorded, strays>>

(* Mutant of FinishPair: a pair without new windows loses its cursor.      *)
FinishForgets ==
  /\ job.at = "pair"
  /\ Dst(job.pair) \notin Unconfigured
  /\ job.todo = {}
  /\ LET i       == job.pair
         cursors == [job.cursors EXCEPT ![i] =
                       IF job.ops > 0 THEN newest_timestamp(rings[Src(i)]) ELSE 0]
     IN  job' = IF i < Len(Pairs) THEN Enter(i + 1, cursors)
                ELSE [at |-> "save", cursors |-> cursors]
  /\ UNCHANGED <<rings, cursorFile, crashes, recorded, consumed, strays>>

(* The pair is done: its cursor moves to the newest source timestamp if    *)
(* something was written, and the next pair begins.                        *)
FinishPair ==
  /\ job.at = "pair"
  /\ Dst(job.pair) \notin Unconfigured
  /\ job.todo = {}
  /\ LET i       == job.pair
         cursors == IF job.ops > 0
                      THEN [job.cursors EXCEPT ![i] = newest_timestamp(rings[Src(i)])]
                      ELSE job.cursors
     IN  job' = IF i < Len(Pairs) THEN Enter(i + 1, cursors)
                ELSE [at |-> "save", cursors |-> cursors]
  /\ UNCHANGED <<rings, cursorFile, crashes, recorded, consumed, strays>>

(* Mutant of SaveCursors: only the entry of the last pair is kept.         *)
SaveLastPair ==
  /\ job.at = "save"
  /\ cursorFile' = [i \in {Len(Pairs)} |-> job.cursors[i]]
  /\ job' = Idle
  /\ UNCHANGED <<rings, crashes, recorded, consumed, strays>>

(* save_cursors.                                                           *)
SaveCursors ==
  /\ job.at = "save"
  /\ cursorFile' = job.cursors
  /\ job' = Idle
  /\ UNCHANGED <<rings, crashes, recorded, consumed, strays>>

(* The save fails, perhaps after the file was truncated, and so does the   *)
(* call.                                                                   *)
SaveFails ==
  /\ job.at = "save"
  /\ cursorFile' \in {cursorFile, EmptyFile}
  /\ job' = Idle
  /\ UNCHANGED <<rings, crashes, recorded, consumed, strays>>

FailAdvances ==    \* mutant of Fail: the pair is given up, with its points
  /\ job.at = "pair"
  /\ \/ Dst(job.pair) \in Unconfigured
     \/ \E x \in job.todo : Turn(x) /\ Refused(x)
  /\ job' = Idle
  /\ cursorFile' = [job.cursors EXCEPT ![job.pair] = newest_timestamp(rings[Src(job.pair)])]
  /\ UNCHANGED <<rings, crashes, recorded, consumed, strays>>

(* An error returns from consolidate at once: the windows written so far   *)
(* stay, no cursor is saved.  A tier without a consolidation function      *)
(* fails, and so does a write that is refused.                             *)
Fail ==
  /\ job.at = "pair"
  /\ \/ Dst(job.pair) \in Unconfigured
     \/ \E x \in job.todo : Turn(x) /\ Refused(x)
  /\ job' = Idle
  /\ UNCHANGED <<rings, cursorFile, crashes, recorded, consumed, strays>>

(* The process dies between two ring writes, or in the rewrite of the      *)
(* cursor file, and the store is opened again.  fs::write truncates the    *)
(* file before it writes the new content.                                  *)
Crash ==
  /\ crashes < MaxCrashes
  /\ crashes' = crashes + 1
  /\ rings' = [r \in RingIds |-> reopen(rings[r])]
  /\ job' = Idle
  /\ cursorFile' \in IF job.at = "save" THEN {cursorFile, EmptyFile, job.cursors}
                                        ELSE {cursorFile}
  /\ UNCHANGED <<recorded, consumed, strays>>

(* The process dies inside the write of v into column c of ring r for time *)
(* t, after the timestamp was stored or after the value was too, and the   *)
(* store is opened again.                                                  *)
DieInside(r, c, v, t) ==
  /\ crashes < MaxCrashes
  /\ crashes' = crashes + 1
  /\ job' = Idle
  /\ \E stored \in {[d \in {} |-> v], [d \in {c} |-> v]} :
       LET torn == unfinished(rings[r], stored, t)
           left == torn.values[compute_slot(torn, t)][c]
       IN  /\ rings' = [q \in RingIds |-> reopen(IF q = r THEN torn ELSE rings[q])]
           /\ strays' = [strays EXCEPT ![<<r[1], 0>>][c] = @ \cup (left \X {t})]
  /\ UNCHANGED <<cursorFile, recorded, consumed>>

(* It dies inside the dest_ring.write of a window.                         *)
DieInWindow ==
  /\ job.at = "pair"
  /\ Dst(job.pair) \notin Unconfigured
  /\ \E x \in job.todo :
       /\ Turn(x)
       /\ ~Refused(x)
       /\ DieInside(Dst(job.pair), x.column, x.value, x.window)

ConsolidationStep == WriteWindow \/ FinishPair \/ SaveCursors \/ SaveFails \/ Fail

-----------------------------------------------------------------------------
(* Callers.  Recording is in time order, and later than what a process     *)
(* that died had begun to record.  Next consolidates at any time, as the   *)
(* demo's one-second maintenance tick does; BoundaryNext only when the     *)
(* newest point of every ring with raw data closes the windows above it,   *)
(* and before the ring loses a point that was not consolidated.            *)

InTimeOrder(r, c, t) ==
  /\ \A d \in Columns : \A u \in recorded[r][d] : u <= t
  /\ \A s \in Slots(rings[r]) :
       \/ rings[r].timestamps[s] < t
       \/ rings[r].timestamps[s] = t /\ \E d \in Columns : t \in recorded[r][d]
  /\ t \notin recorded[r][c]

RecordInOrder ==
  \E r \in Roots, c \in Columns, t \in Timestamps : InTimeOrder(r, c, t) /\ Record(r, c, t)

(* The process dies inside the write of a recording.                       *)
DieInRecord ==
  \E r \in Roots, c \in Columns, t \in Timestamps :
    /\ job = Idle
    /\ InTimeOrder(r, c, t)
    /\ DieInside(r, c, {t}, t)

Next == RecordInOrder \/ StartConsolidation \/ ConsolidationStep \/ Crash

TornNext == Next \/ DieInRecord \/ DieInWindow

ClosesWindows ==
  \A r \in Roots, i \in PairIds :
    (newest_timestamp(rings[r]) + IntervalNs[r]) % IntervalNs[Dst(i)] = 0

(* The points of ring r are of one lap: no restart can hide any of them.   *)
OneLap(r) ==
  \A c, d \in Columns : \A t \in recorded[r][c], u \in recorded[r][d] :
    t \div (IntervalNs[r] * SlotCount[r]) = u \div (IntervalNs[r] * SlotCount[r])

(* The points of r that are within its retention, whether or not the slot  *)
(* of an older one was skipped by the writer and still holds it.           *)
Retained(r, c) ==
  {t \in recorded[r][c] :
     /\ \E s \in Slots(rings[r]) : rings[r].timestamps[s] = t
     /\ t \div IntervalNs[r] > newest_timestamp(rings[r]) \div IntervalNs[r] - SlotCount[r]}

KeepsUp ==
  \A i \in PairIds : Src(i) \in Roots =>
    /\ crashes = 0 \/ OneLap(Src(i))
    /\ \A c \in Columns : \A t \in recorded[Src(i)][c] :
         t > cursorFile[i] => t \in Retained(Src(i), c)

BoundaryNext ==
  \/ RecordInOrder
  \/ StartConsolidation /\ ClosesWindows /\ KeepsUp
  \/ ConsolidationStep
  \/ Crash

(* TornSpec has the crashes inside a ring write.  The others have only     *)
(* those between two: a time without its value, or over a point of an      *)
(* earlier lap, loses points that the properties about them count on.      *)
TornSpec     == Init /\ [][TornNext]_vars
Spec         == Init /\ [][Next]_vars
BoundarySpec == Init /\ [][BoundaryNext]_vars

(* The maintenance thread calls consolidate again and again, and a call    *)
(* that runs makes progress.                                               *)
FairSpec == Spec /\ WF_vars(StartConsolidation) /\ WF_vars(ConsolidationStep)

-----------------------------------------------------------------------------
(* Properties.                                                             *)

TypeOK ==
  /\ \A r \in RingIds :
       rings[r] \in RingType(SlotCount[r], IntervalNs[r], Columns, SUBSET Timestamps)
  /\ cursorFile \in [PairIds -> Nat] \cup {EmptyFile}
  /\ job.at \in {"idle", "pair", "save"}
  /\ job # Idle => job.cursors \in [PairIds -> Nat]
  /\ crashes \in 0 .. MaxCrashes

(* The raw timestamps recorded in the window of ring r that starts at w.   *)
RecordedIn(r, c, w) ==
  {t \in recorded[<<r[1], 0>>][c] : t \in w .. w + IntervalNs[r] - 1}

(* The filled cells of a destination ring.                                 *)
Cells(r) ==
  {x \in Slots(rings[r]) \X Columns : rings[r].values[x[1]][x[2]] # NaN}

(* What dying processes left in a cell under a time of that window.        *)
StraysIn(r, c, w) ==
  {x[1] : x \in {y \in strays[<<r[1], 0>>][c] : y[2] \in w .. w + IntervalNs[r] - 1}}

(* A consolidated value never mixes windows, in any tier: what is          *)
(* aggregated under the start of a window was recorded in that window,     *)
(* whatever the order of the writes and wherever a call failed or the      *)
(* process died - but for the value a process that died inside a write     *)
(* had left under a time of that window (ring.rs, write): by storing the   *)
(* timestamp only, the value of an earlier lap of the slot.                *)
WindowsSound ==
  \A i \in PairIds : \A x \in Cells(Dst(i)) :
    LET r == Dst(i)
        w == rings[r].timestamps[x[1]]
    IN  rings[r].values[x[1]][x[2]] \subseteq RecordedIn(r, x[2], w) \cup StraysIn(r, x[2], w)

(* Every window at or before the saved cursor holds the aggregate of ALL   *)
(* the points recorded in it (store.rs, consolidate: "Apply the            *)
(* destination tier's consolidation function to each window"), over        *)
(* crashes between two ring writes.                                        *)
WindowsComplete ==
  (job = Idle /\ cursorFile # EmptyFile) =>
    \A i \in PairIds : \A x \in Cells(Dst(i)) :
      LET r == Dst(i)
          w == rings[r].timestamps[x[1]]
      IN  w + IntervalNs[r] <= cursorFile[i] + IntervalNs[Src(i)] =>
            rings[r].values[x[1]][x[2]] = RecordedIn(r, x[2], w)

(* No point is skipped: a retained point recorded at or before the saved   *)
(* cursor took part in a window write, however often the source ring       *)
(* lapped between two calls, and over restarts unless the restart of a     *)
(* ring that had wrapped hid it (RingOps, reopen).                         *)
NoPointSkipped ==
  (job = Idle /\ cursorFile # EmptyFile) =>
    \A i \in PairIds, c \in Columns :
      (Src(i) \in Roots /\ (crashes = 0 \/ OneLap(Src(i)))) =>
        \A t \in Retained(Src(i), c) : t <= cursorFile[i] => t \in consumed[i][c]

(* A saved cursor never moves back, although the newest timestamp of a     *)
(* consolidated tier does when its windows are written out of order.       *)
CursorsAdvance ==
  [][(cursorFile # EmptyFile /\ cursorFile' # EmptyFile) =>
       \A i \in PairIds : cursorFile'[i] >= cursorFile[i]]_cursorFile

(* A window of pair i that every call will try to write and be refused,    *)
(* until the source ring has lapped its points.                            *)
Blocked(i) ==
  \E x \in Windows(i, cursorFile[i]) : x.window = 0 \/ Infinite(i, x.value)

(* Every point of a pair that precedes the unconfigured ones is eventually *)
(* consolidated, over crashes and although every call fails at a later     *)
(* pair and saves no cursor (module doc of consolidate.rs: the cursors are *)
(* persisted "to ensure resumption after restart") - unless a crash or a   *)
(* failed save leaves a truncated cursor file, then no call begins, or a   *)
(* window up to that pair cannot be written, then no call gets past it.    *)
EventuallyConsolidated ==
  \A i \in PairIds, c \in Columns, t \in Timestamps :
    (Src(i) \in Roots /\ \A j \in 1 .. i : Dst(j) \notin Unconfigured) =>
      (t \in recorded[Src(i)][c] ~>
         (t \in consumed[i][c] \/ cursorFile = EmptyFile \/ \E j \in 1 .. i : Blocked(j)))
=============================================================================
