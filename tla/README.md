# A TLA+ model of rondo

rondo is an embedded round-robin time-series store: fixed-size slab files, one
ring of slots per tier, values that are consolidated from finer to coarser
tiers, and an incremental export. `rondo-demo-vmm` is a small KVM monitor that
records its own metrics in such a store. This directory models the parts of
both where the order of events, crashes and wrap-arounds matter, checks them
with TLC on small instances, and proves with TLAPS, for rings, stores, queues
and memories of any size, most of the safety properties those runs check.

## The system

| Component | State | Operations | What makes it correct |
|---|---|---|---|
| Slab and ring (`slab.rs`, `ring.rs`) | timestamps and value columns per slot, write cursor in the file; `has_wrapped` in memory | create, open, write, write_batch, read, oldest/newest | slots hold only their own intervals; reads see what was recorded, in order, and nothing stale; a restart changes nothing |
| Queries (`query.rs`, `store.rs`) | none | analyze_coverage, query, query_auto | an answer that is not marked incomplete misses nothing; the finest tier that has the range answers |
| Consolidation (`consolidate.rs`) | cursors per tier pair, in memory and in a JSON file | consolidate | every window holds the aggregate of its own points, all of them; no point is skipped; cursors advance |
| Export (`export.rs`, `remote_write.rs`, `export_loop`) | export cursor in memory and in a file, push in progress | drain, push with retries, save | nothing is passed over without being delivered or reported; the drains of a process ascend |
| Series registry (`series.rs`) | series map, counters per schema, index file | register, sync_to_slabs, save, load | a handle keeps its meaning for ever |
| Store directory (`store.rs`) | the files of the store | open (create_new, open_existing), register, record, record_batch | an interrupted operation leaves a store that opens |
| Schema configuration (`schema.rs`) | the configuration of a process, the hashes in `meta.json` | validate, slot_count, stable_hash, matches, duration_serde | a store is only ever opened with the layout and routing it was made with |
| Virtio block device (`devices/block.rs`) | registers, place in the available ring, the two rings in guest memory | register writes, process_queue, reset | every request answered once, with an interrupt |
| Boot of the demo (`vmm.rs`, `vcpu.rs`) | guest memory, boot parameters, registers | Vmm::new, step by step | nothing in guest memory is overwritten; registers and parameters point at what was written |
| Threads of the demo (`vcpu.rs`, `metrics.rs`, `api.rs`) | the metrics store behind one mutex, the count of halt checks | vCPU loop, maintenance, export, HTTP API | timestamps in order, the guest is never kept for ever, a halted guest is noticed |
| `rondo-cli`, `main.rs` | a second process on the same files | rebuild the schemas, open, select, query, print | it sees what the owner has |

How they interact: callers write tier 0 rows through the store; `consolidate`
reads a tier's ring and writes the next one's; `drain` reads tier 0 behind a
cursor of its own; all of them see a ring through its cursor and its
`has_wrapped` flag, so an error there spreads. In the demo four threads share
the store through a mutex, which the export thread keeps during its push.

What is hard to test: writers whose timestamps skip intervals, go back or touch
only some columns; a restart of a ring in its first laps; consolidation in the
middle of a window; hash order; crashes between two stores of a write, between two
files or inside the rewrite of one; a second process that opens the files meanwhile; another configuration
for an old store; answers lost after the other side acted; index wrap-around;
four threads, one of which waits for the network with the lock in its hand.
`PROJECT.json` lists these hazards with the lines where they bite.

## Modules

| Module | Models | Used by |
|---|---|---|
| `RingOps` | the ring's operations as operators on a ring record | `RingBuffer`, `Consolidation`, `Export` |
| `RingBuffer` | one ring and its callers | `MCRing`, `RingProofs` |
| `RetentionLog` | the abstract log of the last `SlotCount` intervals | refinement target of `RingBuffer` |
| `Consolidation` | rings of all tiers, the engine, its cursor file, crashes | `Query` |
| `Query` | the range queries and the choice of a tier, over the rings of `Consolidation` | `MCConsolidation` |
| `Export` | tier 0, the export thread, the remote end, crashes | `MCExport` |
| `Store` | the directory, `Store::open`, the registry | `ConfiguredStore` |
| `Schema`, `Labels`, `SlabLayout` | operators: configuration, names and labels, offsets in a slab file | `ConfiguredStore` |
| `ConfiguredStore` | `Store` with configurations, labels, slab headers and the command line tool | `MCStore` |
| `VirtioBlock` | the device, its rings and its driver | `MCVirtioBlock` |
| `Boot` | `Vmm::new` | `Vmm` |
| `Vmm` | `Vmm::run`, the four threads, the guest | `MCVmm` |
| `RingOpsProofs` | lemmas: arithmetic of slots, and what the operators of `RingOps` do to a ring | the proofs about rings and `BlockProofs` |
| `RingProofs`, `ConsolidationProofs`, `QueryProofs`, `ExportProofs`, `ConfiguredStoreProofs`, `BlockProofs`, `VmmProofs` | the theorems about the module of that name (`ConfiguredStoreProofs` also about `Store`, `VmmProofs` about `Boot`) | |

**Ring.** A ring record has `timestamps`, `values`, `write_cursor` (the slab
file) and `has_wrapped` (memory). `write_entries` is `write_batch`, and `write`
is the same for one column; 0 is the timestamp of an empty slot and `NaN` the
value of an empty cell, as in the file. `reopen` is the guess of
`RingBuffer::new`. `read` walks `IterationOrder` as `RingIterator` does. Calls
with timestamp 0 or an infinite value are rejected before they change anything.
The environment decides on the timestamps; the code accepts any, so the weakest
specification does too, and stronger properties are stated of stricter callers:
`SessionSpec` (no restart) and `CollectorSpec` (time order and whole rows, with
gaps and restarts). `Gapless` tells the histories of a collector without gaps.
A call is one step and a restart comes between two; `unfinished` is what a process
leaves in the slab that dies inside a call, which stores the timestamp, the values
and the cursor one after the other (`ring.rs:167`, `ring.rs:237`). `Consolidation`
uses it.

**Consolidation.** A value in a consolidated tier is the *set of raw
timestamps* it was computed from: this tells a complete aggregate from a partial
or mixed one for every consolidation function. One call is a sequence of steps:
entering a pair, writing one column of one window (the windows in any order, as
`HashMap` iterates), finishing the pair, saving the cursors. A pair fails where
the code returns an error (no consolidation function; a window at time 0,
which `write` rejects), and a crash can happen between any two steps and inside
the rewrite of the cursor file. In `TornSpec` it can also come inside a ring write,
of a recording (`DieInRecord`) or of a window (`DieInWindow`), after the timestamp or
after the value; what then stands in the cell of the write is remembered in the
history `strays`. The other specifications have only the crashes between two
writes; why is under Limits. `BoundarySpec` restricts the caller to calls at
window boundaries. Points are recorded in time order throughout. A save may
fail and leave the file truncated, like a crash. Of the values only this is
kept: the sum of two `Huge` ones is infinite, and `write` refuses it, in a
destination whose function sums.

**Query.** `query` and `query_auto` change nothing, so they are operators of the
rings; their answers are records with the fields of `QueryResult`, and their
callers give the arguments: `handle_query` of the HTTP API asks tier 0 up to
`u64::MAX`, `cmd_query` of the tool asks any tier of the rings as a process sees
them that has just opened the files (`ToolView`), in any state of a call of
`consolidate`.

**Export.** A sample's value is the time of its recording, so it is known
wherever it turns up. The push is a sequence of attempts; a failed one may have
been accepted by the remote end. The metrics lock is held from the drain to the
last attempt (no recording in between), not during the save. A recording is one
step, so no crash falls inside the write of a row. A failed save is
only logged; a crash or a failure in it may leave an empty file, which ends the
export thread at the next start. Callers record one row per interval, the first
in slot 0. `drain_tier` is the drain of a whole tier.

**Store.** Files are missing, truncated/bad, unfilled (a slab with its header
but zeros behind it) or good. `create_new` is one action per file; `register` is
three (registry and counters; slab directories; index file), with a crash or a
failed write in between. `sync_to_slabs` numbers the slabs as the code does.

**ConfiguredStore.** Durations are numbers of nanoseconds; `as u64` is `% U64`,
and the f64 seconds of `meta.json` are exact below `F64Exact` and rounded to
`F64Grain` above. A hash is the record of what is hashed, so two configurations
with one hash agree in it. Strings are numbers in the order of the strings, 0 the
empty one and 1 the reserved `__name__`; labels are sequences of pairs. The
actions of `Store` run under the configuration of the process; `COpen` adds the
comparison with `meta.json`, `CRegister` the validation and the sorted key. The
tool opens the store between any two steps of its owner and may meet the
truncated index of a rewrite.

**VirtioBlock.** One MMIO exit at a time; `process_queue` is a step for the
notification, one per request and one for its end. The driver is external and
well behaved. Transfers stop at the first data descriptor that fails. An
interrupt that is pending stays pending over a reset.

**Boot.** One action per step of `Vmm::new`, each of which may fail. Addresses are
in units of 16 bytes; `ram` maps each region that was written to where it is,
`params` and `regs` hold the fields that point into it. The loader and guest
memory are external: the kernel goes to `HIMEM_START` if it fits, `write` drops
what is behind the end of memory, `write_obj` fails.

**Vmm.** A thread is a record with a program counter; its actions lie between two
points where another thread can come in, which are the lock, the clock and the
network. Of the store the model keeps the newest timestamp, which every record
overwrites. The vCPU thread reads the clock under the lock, the maintenance
thread before it. The guest is external: it runs with interrupts enabled or
disabled and may halt for good with interrupts disabled; then only the timer's
`EINTR` returns from `KVM_RUN`. The check that follows may fail to read the registers,
which counts as not halted (`RegsUnread`). The end of the loop ends the process in the middle of
whatever the others do: the crash of `Consolidation` and `Export`.

## Runs

Passing runs:

| Run | Callers | Shows |
|---|---|---|
| `ring_session` | any timestamps in any order, one process | `SlotHome`; `NewestIsLastCall`; `NoHiddenSlot`; a reopen at any point errs only before the first full lap |
| `ring_collector` | time order, whole rows, gaps, restarts | the ring implements `RetentionLog`; no stale value; cursor at the highest timestamp; without gaps, every range query is exactly the retained points and coverage is honest |
| `cons_sound` | three tiers, small rings, calls at any time, failed saves, a crash between two ring writes or inside one | windows are never mixed, but for what a write that was not finished left in its cell; no retained point before a saved cursor is left out; cursors never go back |
| `cons_boundary` | calls at window boundaries that keep up with a first tier that laps, gaps, window 0 rejected, two crashes between ring writes | every window up to the cursor is complete; every answer a caller can get, of any tier and range, is marked incomplete or has all that was consolidated |
| `cons_failures` | two schemas, the second always failing, sums that overflow in the first, a crash between ring writes | the first schema's points are all consolidated eventually, although no call ever saves a cursor, unless a window stands in the way that `write` refuses |
| `export` | gapless rows, failing pushes and saves, lost answers, two crashes, but not inside a row's write | drains of one process ascend; the saved cursor never passes a held sample that was neither delivered nor reported; what it covers is never sent again; every row is delivered, reported or overwritten |
| `store` | two schemas, one full, eight configurations, labels in any order, two crashes, a failed save, the tool | handles, geometry and routing are kept (`HandlesKept`, `SchemasKept`); series stay distinct on the wire; cells do not overlap; the tool agrees with its owner and is refused only where the owner would be; `open` ends with an open store unless a file was left torn |
| `block` | any order of requests, interrupts, errors, a reset | each request is in one ring once, answers are fresh, no interrupt is lost, every request is answered |
| `vmm` | sizes of memory, kernel, initramfs and command line; all interleavings of four threads, the guest and an HTTP client | the boot image is intact; only the maintenance thread sets the newest time back; the vCPU gets the lock unless a client does not read its answer; a halted guest ends the program unless its registers cannot be read |

Runs that end in a counterexample show where the code does something else than
a comment or a document of the repository says; each has its entry under
`findings` with the quotation.

| Run | Counterexample |
|---|---|
| `cons_midwindow` | a call in the middle of a window: the next one overwrites the aggregate with the rest, although `store.rs:768` asks for a call every second |
| `query_realtime` | a range that includes the newest point is covered by no tier, and `query_auto` answers it from the coarsest tier with data, although tier 0 has all of it (`store.rs:664`) |
| `store_directory` | `sync_to_slabs` takes the slab of tier 0 for that of schema 0: ids of a larger schema are written behind the directory of a smaller one, over its timestamps (`slab.rs:655`) |

### Limits of the passing properties

The stricter callers and the side conditions of the passing runs are there
because the code does not promise more; these are the counterexamples that
exploring the modules without them gave:

* `NoStaleRead` needs whole rows: a write of one column gives the value an
  earlier lap left in another column the new time (`ring.rs:167`, against
  `docs/REPO_SETUP.md:505`). The demo's VMM does record single series.
* `CursorAtHighest` needs time order: a late write moves the cursor
  (`ring.rs:172`, against the comment above it).
* `ReadIsLog` and `CoverageHonest` need a gapless history: a writer that skips an
  interval leaves the row of an older lap between newer ones, and `read` returns
  points out of order (`ring.rs:254` promises chronological order);
  `oldest_timestamp` may be such a leftover, and a query that lost points then
  reports a complete answer.
* `ReopenErrsOnlyBeforeFullLap` names the one case where a restart hides rows: a
  ring that wrapped although the slot after its cursor was never written. A
  drain or a consolidation after such a restart passes the hidden rows, hence
  `OneLap` in `NoPointSkipped` and the aligned first row in `Export`.
* `WindowsSound` excepts the value that a process that died inside a write left
  behind. `write` stores the timestamp first (`ring.rs:167`), then the value
  (`ring.rs:168`), then the cursor (`ring.rs:173`). If it ends after the first, a slot
  that was in use has the value of an earlier lap under the new time; a query
  returns it as a point of that time, and the next call aggregates it in a window
  it does not belong to. Nothing marks such a slot.
* Crashes inside a write break other properties, so `BoundarySpec` and `FairSpec` of
  `Consolidation` have none; nor have `RingBuffer` and `Export`, about which nothing is
  shown for them. The old point of the slot is gone without a lap: its window is aggregated without it
  (`WindowsComplete`). In a ring of five slots, a process dies in the write of 5,
  the first of the ring, then 8 and 11 are recorded: slot 2, after the cursor, is
  empty, so the tool takes the ring for not wrapped and stops at 11 in slot 1, and
  as the row of 5 that has no value counts as the oldest, its answer without 8 is
  not marked (`CompleteUnlessFlagged`). In a ring in its first lap a timestamp left
  in the slot after the cursor is taken for the oldest of a ring that has wrapped:
  it is later than the newest, and no call finds anything to consolidate until the
  next recording (`EventuallyConsolidated`).
* `WindowsComplete` needs calls at window boundaries that come before the first tier
  loses a point, and two tiers. A window of which a point is gone, by a lap or
  hidden by a restart, is aggregated from the rest without a sign (`KeepsUp`).
  With three tiers, hash order lets the last pair process half a window
  (`consolidate.rs:489`).
* `NoPointSkipped` needs timestamps that are multiples of the source interval:
  the next call starts a whole interval after the cursor (`consolidate.rs:374`).
* `EventuallyConsolidated` and `EventuallySettled` except a truncated cursor
  file: both files are rewritten in place, and neither loop recovers from one
  that does not parse. `EventuallyConsolidated` also excepts pairs behind a
  window that `write` refuses (time 0, an infinite sum): every call fails there
  until the source ring has lapped the points.
* `CompleteUnlessFlagged` needs a tier that holds the windows of all points ever
  recorded (`Fits`): a call that writes more windows than slots writes them in hash
  order, and an older window may replace a newer one (`consolidate.rs:489`). So it
  says nothing of the answers of a tier that has lapped, nor of a leftover row of
  an older lap that is taken for the oldest; tier 0 may lap when another answers. Of a consolidated tier it also needs that no
  window between two points is without data. Points 6, 7 and 11 under windows of
  two: if hash order writes window 10 before window 6, the slot after the cursor
  is the empty one of window 8, so a process that opens the store now takes the
  ring for not wrapped and stops at window 6; an answer over 6 to 11 lacks window
  10 and is not marked, against "True if some data might be missing"
  (`query.rs:230`).
* `Export` has no at-most-once property: a retry after a lost answer delivers
  twice (`docs/BENCHMARK_PLAN.md:85` says otherwise), and with partial rows a
  drained sample can get a later time and be drained again.
* `OpensUnlessTorn` excepts a store without all of its slabs: `open` decides by the
  existence of the directory, which `create_new` makes first (`store.rs:202`), so a
  crash while a store is created leaves one that never opens again, against
  `docs/REPO_SETUP.md:496`. It does not ask that slabs are filled: a crash in the
  last `Slab::create` leaves zeros where NaN belongs, and the store opens.
* The slab of tier t lists the series of schema t, whichever schema it belongs to;
  `store.rs:392` says all tier slabs of the matching schema. The schema hash in a slab's header is not
  compared on open either; `SchemasKept` holds by the hashes in `meta.json`.
* `ToolOpensGood` excepts durations too long for f64 seconds, and
  `SchemaAssumption` takes slot counts as the code does: a retention of more than
  2^64 ns wraps and may give no slot at all.
* `WireLabelsDistinct` excepts labels with one key twice, which `validate_labels`
  accepts, external labels with a key of the series or one key twice, and an
  external `__name__`: `export.rs` checks none of these.
* `record_batch` over two schemas is not atomic: groups before a rejected one stay
  written.
* The API's query by name and the tool's by selector take whichever matching
  series the registry's map yields first (`api.rs:126`).
* `GuestResumes` excepts a client that does not read: `handle_info` and `handle_query`
  answer under the lock, and only a read timeout is set (`api.rs:37`).
* `HaltDetected` excepts a KVM that keeps failing to give the registers: each failure
  starts the count again (`vcpu.rs:242`). It has no converse: three timer ticks that all find the guest in a
  critical section, without an exit between them, end the program.
* `BehindOnlyByMaintenance` takes the wall clock not to be set back.
* `BootImageIntact` excepts an initramfs that does not fit: it is cut off without an
  error and announced in full (`vmm.rs:295`). The page tables map one GiB, so an
  initramfs above it is not mapped at entry. Memory above 3328 MiB lies over
  the MMIO window of the disk, which the model does not look at. Offsets in a
  slab with an odd `max_series` are not aligned to 8 bytes, contrary to the SAFETY
  comments of `slab.rs`; alignment is not modelled.

### Bounds

Rings have three slots and intervals of width 1 or 2: with three slots a ring
can be not wrapped, wrapped but not full, and full, and width 2 tells a
timestamp from its interval. Times run over two to three laps, so a slot is
written at least twice. `ring_collector` has two columns because columns
interfere through their common timestamp (width 1 keeps it small); the others
have one. `cons_sound` has three tiers with rings that lap while consolidation
is behind, and points at 4 to 8 and 10, so that an interval can be skipped and a
process that dies inside a write leaves the value of an earlier lap; the other consolidation runs have two. In `cons_boundary` the first has
five slots and the second three, for points at 1 and 5 to 11: the first tier
laps, points may be left out, so that windows stay empty and a call writes
several of them, and the window of time 1 starts at 0, so that the rejected
write happens. Each of its side conditions (`ClosesWindows`, `KeepsUp`, `Fits`,
`NoEmptyWindow`) is needed at these bounds: without it TLC finds a
counterexample. The first tier of `cons_failures` loses nothing, so that every
point has to arrive. Two crashes allow a crash during the recovery from the
first. The store has two schemas of
different capacity, keys for both, for either and for none, and one key more
than the first schema holds, so that capacity, order of matching and rejection
all happen; one key in two orders of its labels, one with a label twice, and
requests that are refused; the configurations offered differ from the first in
one point each. Its numbers (`U64`, `F64Exact`) are small stand-ins; the durations
of the run are below both, as those of real stores are. `vmm` has the code's
threshold of 3, one retry, one request per notification and three clock values,
so that a lock can be held over a tick in which someone else records; its sizes
end inside and on a page, at the end of memory and behind it. The block device's queue has 8 slots and two chains in flight, and
its indices wrap at 8; one reset.

Deadlock is off where time runs out (`Timestamps` is finite), the store may stay
closed or the program ends; the block device never stops and is checked for deadlock.

### Fairness

* `Consolidation!FairSpec`: weak fairness of starting a call and of its steps.
  `maintenance_loop` calls `consolidate` every second for ever, and a call is
  sequential code.
* `Export!FairSpec`: weak fairness of the drain, the push and the save.
  `export_loop` wakes every ten seconds; each attempt ends with the client's
  timeout and their number is bounded.
* `CSpec` of `ConfiguredStore`: weak fairness of the steps of `create_new` and of
  opening with the configuration the store was made with: sequential code that a
  program runs at its start. Registering, closing and the tool are not fair.
* `VmmSpec`: weak fairness of what a thread does while it holds the lock, of the
  timer and of the end of the process; a push attempt ends with the client's
  timeout. Strong fairness of the vCPU's lock only: the other threads sleep or
  wait for a connection between two uses of the mutex, and a release wakes a
  waiter. The guest, the clock, the sleeps and the client's reading are not fair.
* `VirtioBlock!FairSpec`: weak fairness of notification, service and handler.
  MMIO exits are synchronous; that the guest takes interrupts and notifies is
  the driver's part.

## Proofs

Every theorem holds for all values of the constants that satisfy the assumption
of its module; TLC evaluates those assumptions in the runs. Further hypotheses
stand in the theorem and are explained here. In each case the property alone is
not inductive; what had to be added says why the code is right.

**Ring** (`RingProofs`): any slot count, interval width, columns, timestamps and
values.

* `SlabInvariant`, `SlabTypes`, `SlotsKeepHome`: `Spec => [](TypeOK /\ SlotHome /\
  NewestIsLastCall)`. The three together are inductive. The argument rests on
  `CallEffect`, which describes the ring after a call by slots.
* `NoHiddenSlots`: `SessionSpec => []NoHiddenSlot`. The strengthening is
  `HighSlotsEmpty`: while `has_wrapped` is false nothing above the cursor was
  ever written; once it is true the iterator makes a full lap (`FullLap`).
* `ReopenErrsInOneWay`: the guess of `RingBuffer::new` gives the iteration the
  process had, except in the one case the property names. Besides
  `HighSlotsEmpty` it needs `SingleSlotUnwrapped`: a ring of one slot never
  counts as wrapped.
* `CursorTheorem`: `CollectorSpec => []CursorAtHighest`, over gaps and restarts.
* `RingRefinesLog`: `CollectorSpec => RingImplementsLog`. The mapping `Logged`
  takes the slots whose interval is among the last `SlotCount`. A call maps to
  an append (`CallAppends`): two intervals in one slot are a lap apart
  (`ModDistinct`), so what is overwritten is out of retention; in a column the
  call does not touch, the row must already be of this interval
  (`UntouchedColumn`), which is where the collector's whole first row is
  needed. A restart and a rejected call map to stutters.
* `ReadsAreFresh`: `CollectorSpec => []NoStaleRead`. `CellsFresh` says it of every
  cell, read or not; `ReadSound` that a read returns nothing but cells.
* `CoverageStaysHonest`: `CollectorSpec => []CoverageHonest`. `NewestOfSlot`: a
  recorded interval is replaced in its slot only by a later one. If an interval
  was lost and the history has no gaps, each slot has since been written by an
  interval after it (`NextInSlot`), so the oldest timestamp is later than the
  lost one and `analyze_coverage` notices.
* `ReadsAreTheLog`: `CollectorSpec => []ReadIsLog`, order included. To `NewestOfSlot`
  and `CellsFresh` it adds `WrapKnown`: in a history without gaps that begins with a
  lap, a ring that does not know that it has wrapped is in its first lap, over
  restarts too, for after the first lap every slot is filled and the guess is
  right. So the iteration covers the log, and a step of the iteration is a step
  in time (`RingOpsProofs` has the lemmas about `read` and the order of its points).

**Consolidation** (`ConsolidationProofs`): any schemas, tiers, widths, slot counts,
crashes, with calls at any time.

* `ConsolidationTypes`, and `CursorsNeverBack`: `TornSpec => CursorsAdvance`, with crashes
  inside a ring write. A call's
  cursors are at or after the saved ones; and if a pair has something to write,
  its source has something newer than its cursor, which is what keeps the cursor
  from following a destination whose newest timestamp went back.
* `WindowsStaySound`: `OneColumn /\ TiersNest /\ TornSpec => []WindowsSound`. The
  invariant says of every cell, and of every window a call still has to write,
  that each of its values stands at a time of the window its timestamp starts
  (`CellFiled`): it was recorded then, or a write that was not finished left it
  under that time (`StandsAt`). A value left in a slot that is consolidated later
  moves on with the time it was left under, not with its own, which is why
  `strays` has pairs. The theorems below are of `Spec`, where nothing is left
  (`NoStrays`) and the same invariant says that a cell has only points of its
  own window (`CellSound`).
  `OneColumn`: a write of one column gives the old values of the others its own
  time, so with several series the callers would have to bring whole rows.
  `TiersNest`: above the second tier the width is a multiple of the one below;
  the code does not demand it, and otherwise a window is split over two.
* `PointsNeverSkipped`: `OneColumn /\ RootsAligned /\ Spec => []NoPointSkipped`, over
  crashes between two ring writes (`cons_sound` checks it over those inside one as
  well), and once the process has died of rings in their first lap (`OneLap`). The
  invariant `SkipInv` says it of the cursors of a call as well as of the saved
  ones, and of the pair in progress that a retained point after its cursor was
  written or is among the windows to write (`TodoCovers`). When a pair is entered
  that is `WindowsCover`: the range starts at or before every retained point,
  because `oldest_timestamp` does (`OldestBefore`; `SlotsBehind` compares intervals
  by their slots) or because the next multiple of the interval after the cursor
  does; and the iteration reaches its slot (`RetainedReached`: before a restart
  nothing is above the cursor of a ring that has not wrapped, and after one the
  points of one lap are at or below it). Both hypotheses are needed: a call begins
  one interval after the cursor, so it leaves out a point that lies less than an
  interval after it, and a point that a second series records at the cursor.
* `WindowsStayComplete`: `TwoTiers /\ OneColumn /\ RootsAligned /\ BoundarySpec =>
  []WindowsComplete`. The property speaks of the windows at or before the saved
  cursor and of a store between two calls; what is inductive is stronger
  (`CellsFull`): every filled cell, at any time, has all that was recorded in its
  window, and its window is closed, so that no later point belongs to it. It
  takes the same of the windows a call still has to write (`TodoFull`), cursors
  that end windows, and `StillInTime`: what the caller saw to when the call began
  holds until it ends. A closed window has all its points in the range of the
  next call because that range starts at the end of a window, and none of them
  was lost because of `KeepsUp`. The hypotheses are those limits of the code that
  are listed above: two tiers, one series, points on the grid of the first tier.

**Queries** (`QueryProofs`): as for `WindowsStayComplete`, with any ranges asked for.

* `AnswersAreComplete`: `TwoTiers /\ OneColumn /\ RootsAligned /\ BoundarySpec =>
  []CompleteUnlessFlagged`. Three things have to come together. A point that a
  window write consumed is still in that window's slot (`ConsumedKept`), because the
  windows fit and a window is only ever written again with all its points
  (`TodoFull`). Every point up to a cursor was consumed (`AllConsumed`), because
  `KeepsUp` keeps it within retention until then. And a read gets to its slot. A
  ring that has wrapped is read all round; one that has not is read up to its
  cursor, and the windows of a call come in hash order, so a call can leave
  filled slots above the cursor. For the owner `NoneHidden` says that what a
  finished call left there is older than the window at the cursor; during a call,
  that it is older than the cursors or will be written again (`Ahead`). If there
  are no empty windows, slots in order hold windows as far apart (`WindowsInLap`), so
  such a window is also older than the oldest point `analyze_coverage` compares
  with, and an answer that should have it is flagged (`CursorNotLater`). For
  the tool, which opens the ring in the middle of a call, the cursor may be at
  any of the call's windows; but then the slot after it is filled (`NextFilled`),
  which is what the guess of `RingBuffer::new` looks at (`ReopenSees`). The
  assumption of `Consolidation` that every later tier is some pair's destination
  is the loop over adjacent tiers in `consolidate.rs:293`: without it there would be
  a tier that no cursor speaks of.

**Export** (`ExportProofs`): any slot count, width, columns, retries and crashes, for
the gapless rows that `RecordRow` brings.

* `ExportTypes`, `DrainsStayInOrder`, `SavedCursorIsHonest`, `SavedIsNotResent`.
  `RowsInv` gives the exact contents of such a ring: the slot that is `k` slots
  behind the cursor holds the row `k` intervals before the last, or nothing; so a
  drain returns the rows after the cursor, all and in order (`DrainFacts`). On
  top of it: the saved cursor is never ahead of the one in memory, what is being
  pushed lies between the two and after all that was drained (`FlightInv`), and
  each row behind the cursor in memory was delivered, reported or is in the push
  (`CoverInv`).

**Registry and store** (`ConfiguredStoreProofs`). Of `Store` alone, for any keys,
schemas, capacities, crashes and failed saves:

* `HandlesForever`: `Spec => []HandlesKept`. `HandlesKept` speaks of an open
  store only; the inductive `HandlesInv` ties the handles that were returned to
  the index file (`index = "good"` implies the saved registry has them, a
  missing index that there are none) and to the registry of the process in every
  phase of `register`, and says of both registries that columns are below their
  counter, counters below capacity, and columns distinct (`Sound`).
  `RegisterSound` is the step of the allocation; `SchemaFound`, that the first
  matching schema exists, uses the well-foundedness of `<` on the naturals.

With any set of configurations offered to `open`:

* `ConfiguredImplementsStore`: `CSpec => Spec`, so `ConfiguredHandlesForever`.
* `ConfiguredTypes`, `SchemasStayKept`, `ToolStaysInAgreement`,
  `ToolOpensGoodStores`. The configuration of a process always has the hashes of
  the one that made the store (`ConfigFits`), a slab has that one's header or
  none, every series is in the schema that takes its labels first; and the
  registry in use extends the index, which extends what the tool read.
* `WireLabelsStayDistinct`: `CSpec => []WireLabelsDistinct`. `KeysInv`: every series in
  the registry of the process or in the index passed `validate_labels`. The rest
  is about `build_labels`: sorting by keys that are distinct gives a sequence in
  strict order, which its members determine, so two series with the same labels
  on the wire have the same name and, as neither has a label `__name__` of its own,
  the same labels.
* `LayoutApart`: the cells of a slab and its directory never share a byte and are
  inside the file, for every slot count and number of series. The one fact that
  is not linear, that the columns before column d end where it begins, is
  `ColumnsBefore`. `SlabCellsApart` is `CellsApart` of every slab of the store.

**Block device** (`BlockProofs`): any queue size, number of chains, segments and
resets; indices of any width that is a multiple of the queue size and exceeds
the number of chains in flight: the indices of virtio have 16 bits and queue
sizes are powers of two, so the first holds, and `QUEUE_MAX_SIZE` is far below.

* `BlockInvariant` gives `BlockTypes`, `RequestsAreOnce`, `AnswersStayFresh`,
  `InterruptsArrive`. Between two indices each chain occurs at one position
  (`Once`); pushing and popping keep this over the wrap because no more chains than
  the queue has slots are in flight (`Room`, `PushEntry`, `PopEntry`), and the
  number of entries between two indices, taken modulo the index width, is their
  cardinality (`EntriesCard`). The interrupt part needs that a `process_queue` that has
  completed nothing so far found earlier entries already announced (`IrqInv`).

**Demo VMM** (`VmmProofs`): any clock, retries, thresholds, sizes.

* `MutexProtectsStore`: `VmmSpec => []VmmTypeOK`, the mutual exclusion included, and
  `OnlyMaintenanceBehind`: with `newest <= highest <= clock` and a remembered time
  not ahead of the clock.
* `BootLayoutSound`: `SizesFit /\ VmmSpec => []BootImageIntact`. `SizesFit` is what
  the fixed addresses of `vmm.rs` and `vcpu.rs` presuppose and nothing checks: at
  most 4 GiB, a kernel inside the first mapped GiB, an initramfs length of 32
  bits, a command line that ends below the top of low memory. The run's
  sizes satisfy it (`InstanceFits`). The invariant lists the regions after each
  step of `Vmm::new`; a step that does not fail bounds the sizes by the memory.

Only model-checked, and why:

* everything under fairness (`EventuallyConsolidated`, `EventuallySettled`,
  `OpensUnlessTorn`, `EventuallyAnswered`, `GuestResumes`, `HaltDetected`):
  liveness and `ENABLED` are out of the prover's reach.

## Not modelled

* The bytes: header fields, JSON, protobuf and snappy, the contents of the disk,
  page tables and descriptors, HTTP, the output formats of the tool and its `info`
  and `bench`.
* f64 arithmetic, except that sums overflow and that durations are rounded.
* Power failure: a crash ends the process, and what it wrote to a mapped or open
  file is there afterwards.
* A crash inside a ring write in `RingBuffer`, `Export`, `BoundarySpec` with the queries,
  and `FairSpec` of `Consolidation`; the tool reading between the stores of one record.
* `record_batch` over several schemas, which of the metrics an exit is recorded in,
  feature negotiation and configuration space of the block device, the consoles.
* `error.rs`, which has no state; `examples/`, which call the store like any caller.

## Plan

1. Done: ring, retention log, consolidation, queries, export, store, registry and
   configuration, block device, boot and threads of the demo; proofs about all of
   them.
2. Next proofs: the completeness of windows and answers for several series, when
   callers bring whole rows with `record_batch`. (The demo records single series.)
  The completeness of windows over crashes inside a write, of windows that lost no
  point to one.
3. The retention log could get the entries of a call as its input, so that the
   refinement also ties values to calls.
