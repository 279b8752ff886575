------------------------------- MODULE Export -------------------------------
(***************************************************************************)
(* Incremental export: the drain of tier 0 (rondo/src/export.rs and        *)
(* Store::drain), the push of what was drained with its retries            *)
(* (rondo/src/remote_write.rs) and the thread of the demo VMM that does    *)
(* both every ten seconds (export_loop in rondo-demo-vmm/src/vcpu.rs).     *)
(*                                                                         *)
(* The thread keeps the metrics lock from the drain to the end of the last *)
(* attempt, so nothing is recorded meanwhile, and releases it before it    *)
(* saves the cursor.  Points carry the time of their recording as value,   *)
(* so a sample is known wherever it turns up: <<column, value>>.           *)
(* A recording is one step; a process that dies inside one is in module    *)
(* Consolidation.                                                          *)
(***************************************************************************)
EXTENDS RingOps

CONSTANTS
  SlotCount, IntervalNs,   \* tier 0 of the schema that is exported
  Columns,                 \* its registered series
  Timestamps,              \* timestamps callers record with
  MaxRetries,              \* RemoteWriteConfig::max_retries
  MaxCrashes               \* bound on the crashes of a behaviour

ASSUME ExportAssumption ==
  /\ SlotCount \in Nat \ {0} /\ IntervalNs \in Nat \ {0}
  /\ Timestamps \subseteq Nat \ {0}
  /\ NaN \notin Timestamps
  /\ MaxRetries \in Nat /\ MaxCrashes \in Nat

VARIABLES
  ring,        \* tier 0
  last,        \* time of the last recording
  cursor,      \* ExportCursor in memory: last exported time per column, 0 = none
  cursorFile,  \* cursor_prometheus.json
  job,         \* where export_loop is
  drained,     \* history: samples this process has drained and tried to push
  delivered,   \* history: samples the remote end has accepted
  dropped,     \* history: samples of a push that failed
  crashes

vars == <<ring, last, cursor, cursorFile, job, drained, delivered, dropped, crashes>>

Sleeping == [at |-> "sleeping"]

(* export_loop has returned: the cursor file could not be loaded.          *)
Dead == [at |-> "dead"]

(* A truncated file, which does not parse.                                 *)
EmptyFile == << >>

(* Mutant of LastOf: the position after the last point.                    *)
PastLast(points) == points[Len(points)][1] + 1

LastOf(points) == points[Len(points)][1]

(* The samples in what was drained, per column a sequence of points.       *)
Samples(exports) ==
  UNION {{<<c, exports[c][k][2]>> : k \in DOMAIN exports[c]} : c \in DOMAIN exports}

-----------------------------------------------------------------------------
(* Mutant of drain_series: the last exported point is read again.          *)
DrainFromLast(c) ==
  LET oldest == oldest_timestamp(ring)
      newest == newest_timestamp(ring)
      start  == IF cursor[c] = 0 THEN oldest ELSE cursor[c]
  IN  IF oldest = 0 \/ newest = 0 \/ start > newest THEN << >>
      ELSE read(ring, c, start, newest + 1)

DrainUpToNewest(c) ==    \* mutant: the newest point is left out
  LET start == IF cursor[c] = 0 THEN oldest_timestamp(ring) ELSE cursor[c] + 1
  IN  IF start >= newest_timestamp(ring) THEN << >>
      ELSE read(ring, c, start, newest_timestamp(ring))

(* What drain_series returns for one column.                               *)
drain_series(c) ==
  LET oldest == oldest_timestamp(ring)
      newest == newest_timestamp(ring)
      start  == IF cursor[c] = 0 THEN oldest ELSE cursor[c] + 1
  IN  IF oldest = 0 \/ newest = 0 \/ start > newest THEN << >>
      ELSE read(ring, c, start, newest + 1)

(* The columns with new points.                                            *)
drain_tier == [c \in {x \in Columns : drain_series(x) # << >>} |-> drain_series(c)]

-----------------------------------------------------------------------------
Init ==
  /\ ring = create(SlotCount, IntervalNs, Columns)
  /\ last = 0
  /\ cursor = [c \in Columns |-> 0]
  /\ cursorFile = [c \in Columns |-> 0]
  /\ job = Sleeping
  /\ drained = {} /\ delivered = {} /\ dropped = {}
  /\ crashes = 0

(* Another thread records, under the lock, a row of the given columns.     *)
Record(cols, t) ==
  /\ job.at # "pushing"
  /\ ring' = write_entries(ring, [c \in cols |-> t], t)
  /\ last' = t
  /\ UNCHANGED <<cursor, cursorFile, job, drained, delivered, dropped, crashes>>

(* export_loop takes the lock and drains.  The cursor of a column moves in *)
(* memory as soon as its points are read.  Without new data the loop goes  *)
(* back to sleep.                                                          *)
Drain ==
  /\ job = Sleeping
  /\ \E exports \in {drain_tier} :
       /\ DOMAIN exports # {}
       /\ cursor' = [c \in Columns |->
                       IF c \in DOMAIN exports THEN LastOf(exports[c]) ELSE cursor[c]]
       /\ job' = [at |-> "pushing", exports |-> exports, attempt |-> 0]
  /\ UNCHANGED <<ring, last, cursorFile, drained, delivered, dropped, crashes>>

(* The remote end takes the samples of the request in hand.                *)
Accept == delivered' = delivered \cup Samples(job.exports)

(* One attempt of send_with_retry gets a success status.  The lock is      *)
(* released, and the cursor is to be saved.                                *)
AttemptSucceeds ==
  /\ job.at = "pushing"
  /\ Accept
  /\ drained' = drained \cup Samples(job.exports)
  /\ job' = [at |-> "saving"]
  /\ UNCHANGED <<ring, last, cursor, cursorFile, dropped, crashes>>

(* Mutant of AttemptFails: after the last retry the cursor is saved anyway *)
(* and the loss goes unreported.                                           *)
GiveUpSilently ==
  /\ job.at = "pushing"
  /\ UNCHANGED delivered
  /\ job' = IF job.attempt < MaxRetries THEN [job EXCEPT !.attempt = @ + 1]
                                        ELSE [at |-> "saving"]
  /\ drained' = IF job.attempt < MaxRetries THEN drained
                                            ELSE drained \cup Samples(job.exports)
  /\ UNCHANGED <<ring, last, cursor, cursorFile, dropped, crashes>>

(* One attempt fails: an error status, a refused connection, or a timeout  *)
(* after the remote end took the request.  After the last retry the error  *)
(* is logged and the loop sleeps again; the cursor in memory stays where   *)
(* the drain put it and is not saved.                                      *)
AttemptFails ==
  /\ job.at = "pushing"
  /\ Accept \/ UNCHANGED delivered
  /\ IF job.attempt < MaxRetries
       THEN /\ job' = [job EXCEPT !.attempt = @ + 1]
            /\ UNCHANGED <<drained, dropped>>
       ELSE /\ job' = Sleeping
            /\ drained' = drained \cup Samples(job.exports)
            /\ dropped' = dropped \cup Samples(job.exports)
  /\ UNCHANGED <<ring, last, cursor, cursorFile, crashes>>

(* ExportCursor::save.                                                     *)
SaveCursor ==
  /\ job.at = "saving"
  /\ cursorFile' = cursor
  /\ job' = Sleeping
  /\ UNCHANGED <<ring, last, cursor, drained, delivered, dropped, crashes>>

(* The save fails, perhaps after the file was truncated: it is logged and  *)
(* the loop goes on with the cursor in memory.                             *)
SaveFails ==
  /\ job.at = "saving"
  /\ cursorFile' \in {cursorFile, EmptyFile}
  /\ job' = Sleeping
  /\ UNCHANGED <<ring, last, cursor, drained, delivered, dropped, crashes>>

RestartForgets ==    \* mutant of Crash: the new process starts without a cursor
  /\ crashes < MaxCrashes
  /\ crashes' = crashes + 1
  /\ ring' = reopen(ring)
  /\ job' = Sleeping
  /\ cursor' = [c \in Columns |-> 0]
  /\ drained' = {}
  /\ UNCHANGED <<last, cursorFile, delivered, dropped>>

(* The process dies, but not inside the write of a row, and starts again.  *)
(* A crash in the middle of the save may leave the truncated file;         *)
(* load_or_new then fails and ends the loop.                               *)
Crash ==
  /\ crashes < MaxCrashes
  /\ crashes' = crashes + 1
  /\ ring' = reopen(ring)
  /\ cursorFile' \in IF job.at = "saving" THEN {cursorFile, EmptyFile, cursor}
                                          ELSE {cursorFile}
  /\ IF cursorFile' = EmptyFile
       THEN job' = Dead /\ UNCHANGED cursor
       ELSE job' = Sleeping /\ cursor' = cursorFile'
  /\ drained' = {}
  /\ UNCHANGED <<last, delivered, dropped>>

Push == AttemptSucceeds \/ AttemptFails
Save == SaveCursor \/ SaveFails
ExportStep == Drain \/ Push \/ Save

-----------------------------------------------------------------------------
(* Callers: one whole row per interval without gaps, the first in slot 0:  *)
(* then a ring that has wrapped is full, and reopen guesses right.         *)
RecordRow ==
  \E t \in Timestamps :
    /\ t > last
    /\ last # 0 => t \div IntervalNs = last \div IntervalNs + 1
    /\ last = 0 => compute_slot(ring, t) = 0
    /\ Record(Columns, t)

Next == RecordRow \/ ExportStep \/ Crash

Spec == Init /\ [][Next]_vars

(* The export thread wakes up again and again, and a push takes finitely   *)
(* many attempts, each ended by the client's timeout at the latest.        *)
FairSpec == Spec /\ WF_vars(Drain) /\ WF_vars(Push) /\ WF_vars(Save)

-----------------------------------------------------------------------------
(* Properties.                                                             *)

TypeOK ==
  /\ ring \in RingType(SlotCount, IntervalNs, Columns, Timestamps)
  /\ last \in Timestamps \cup {0}
  /\ cursor \in [Columns -> Timestamps \cup {0}]
  /\ cursorFile \in [Columns -> Timestamps \cup {0}] \cup {EmptyFile}
  /\ job.at \in {"sleeping", "pushing", "saving", "dead"}
  /\ drained \cup delivered \cup dropped \subseteq Columns \X Timestamps

(* What a drain returns for a column comes in time order (export.rs,       *)
(* SeriesExport: "ordered by timestamp") and is all later than anything    *)
(* the same process drained for it before, pushes that failed included.    *)
(* That is of drains, not of what the remote end gets: the retry of an     *)
(* attempt whose answer was lost, and the drain of the next process after  *)
(* a crash before the save, send older samples than it has already taken   *)
(* (ResendsOnlyUnsaved).                                                   *)
DrainsAscend ==
  job.at = "pushing" =>
    \A c \in DOMAIN job.exports :
      LET points == job.exports[c]
      IN  \A k \in DOMAIN points :
            /\ \A j \in 1 .. k - 1 : points[j][1] < points[k][1]
            /\ \A x \in drained : x[1] = c => x[2] < points[k][1]

(* Every sample the slab still holds at or before the saved cursor has     *)
(* reached the remote end, or was part of a push whose failure was         *)
(* reported: neither a crash nor an ambiguous answer puts the file ahead   *)
(* of what was sent (export.rs, drain_series: "Returns all data points     *)
(* newer than the cursor position").                                       *)
NothingLeftBehind ==
  cursorFile # EmptyFile =>
    \A c \in Columns, s \in Slots(ring) :
      LET v == ring.values[s][c]
      IN  (v # NaN /\ v <= cursorFile[c]) => <<c, v>> \in delivered \cup dropped

(* The remote end gets a sample again only when an attempt is repeated or  *)
(* a process died with the cursor unsaved: what the saved cursor covers is *)
(* never sent a second time, over any number of restarts.                  *)
ResendsOnlyUnsaved ==
  job.at = "pushing" =>
    \A x \in Samples(job.exports) \cap delivered :
      /\ job.attempt > 0 \/ crashes > 0
      /\ cursorFile = EmptyFile \/ x[2] > cursorFile[x[1]]

(* Every row that is recorded is eventually delivered, reported as a       *)
(* failed push, or overwritten by a later lap, over crashes at any step -  *)
(* unless a crash leaves a truncated cursor file, which ends export_loop.  *)
EventuallySettled ==
  \A c \in Columns, t \in Timestamps :
    (\E s \in Slots(ring) : ring.values[s][c] = t)
      ~> \/ <<c, t>> \in delivered \cup dropped
         \/ \A s \in Slots(ring) : ring.values[s][c] # t
         \/ job = Dead
=============================================================================
