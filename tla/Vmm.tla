--------------------------------- MODULE Vmm ---------------------------------
(***************************************************************************)
(* The running demo VMM: Vmm::run, the vCPU loop, the maintenance and the  *)
(* export thread (vcpu.rs), the HTTP server (api.rs) and the VmMetrics     *)
(* behind one mutex that all four share (metrics.rs).                      *)
(*                                                                         *)
(* Of the metrics store the tier 0 slab's newest timestamp is kept, which  *)
(* every record overwrites with its own (ring.rs, see RingBuffer).  The    *)
(* three or so records of one call have one timestamp and are one step.    *)
(* The clock is the host's wall clock, taken not to be set back.  When the *)
(* vCPU loop returns the process ends, whatever the other threads are      *)
(* doing: for them that is the crash of Consolidation and Export.          *)
(***************************************************************************)
EXTENDS Boot

CONSTANTS
  HALT_CONSECUTIVE_THRESHOLD,  \* 3 in the code
  max_retries,                 \* of RemoteWriteConfig, 3 in the code
  MaxIo,                       \* bound on the requests one notification completes
  MaxClock                     \* bound on the clock

Threads == {"vcpu", "maint", "export", "api"}

ASSUME VmmAssumption ==
  /\ None \notin Threads
  /\ HALT_CONSECUTIVE_THRESHOLD \in Nat \ {0}
  /\ max_retries \in Nat /\ MaxIo \in Nat /\ MaxClock \in Nat \ {0}

VARIABLES
  lock,      \* the thread that holds the metrics mutex, or None
  clock,     \* timestamp_ns
  newest,    \* newest timestamp of the tier 0 slab
  highest,   \* the highest timestamp recorded so far
  writer,    \* the thread that recorded last
  guest,     \* what the guest is doing: "on" with interrupts enabled,
             \* "masked" with interrupts disabled, "halted" for ever so
  vcpu,      \* pc of the loop; todo: records due for this exit;
             \* halts: consecutive_halt_checks
  maint,     \* pc of maintenance_loop; ts: the time it has read
  export,    \* pc of export_loop; attempt of send_with_retry
  api        \* pc of run_api_server; client: whether the client reads

store   == <<newest, highest, writer>>
threads == <<lock, clock, store, guest, vcpu, maint, export, api>>
vars    == <<boot, threads>>

(* No thread of the process is there.                                      *)
Off(v, m, e, a) ==
  /\ v = [pc |-> "off", todo |-> 0, halts |-> 0]
  /\ m = [pc |-> "off", ts |-> 0]
  /\ e = [pc |-> "off", attempt |-> 0]
  /\ a = [pc |-> "off", client |-> "reads"]

VmmInit ==
  /\ BootInit
  /\ Off(vcpu, maint, export, api)
  /\ lock = None /\ clock = 1
  /\ newest = 0 /\ highest = 0 /\ writer = None
  /\ guest = "masked"

(* Vmm::run: the threads are spawned, the export thread only with an       *)
(* endpoint, and the vCPU loop runs.  A spawn that fails ends the program. *)
(* What only the boot needed is forgotten.                                 *)
Run ==
  /\ step = "ready"
  /\ \/ /\ step' = "running"
        /\ cli' = [disk |-> cli.disk, remote_write |-> cli.remote_write]
        /\ ram' = Empty /\ params' = Empty /\ regs' = Empty
        /\ vcpu'   = [vcpu EXCEPT !.pc = "kvm"]
        /\ maint'  = [maint EXCEPT !.pc = "sleep"]
        /\ export' = [export EXCEPT !.pc = IF cli.remote_write THEN "load" ELSE "off"]
        /\ api'    = [api EXCEPT !.pc = "bind"]
        /\ UNCHANGED <<lock, clock, store, guest>>
     \/ fail /\ UNCHANGED threads

Running == step = "running"

Tick ==
  /\ Running
  /\ clock < MaxClock
  /\ clock' = clock + 1
  /\ UNCHANGED <<boot, lock, store, guest, vcpu, maint, export, api>>

(* Mutex::lock and the drop of the guard.                                  *)
Lock(thread) == lock = None /\ lock' = thread
Unlock == lock' = None

(* Store::record at time ts.                                               *)
record(thread, ts) ==
  /\ newest' = ts
  /\ highest' = IF ts > highest THEN ts ELSE highest
  /\ writer' = thread

-----------------------------------------------------------------------------
(* The guest, external, and the vCPU loop.  The guest executes only while  *)
(* the loop is in KVM_RUN.  It starts with interrupts disabled.            *)

InGuest == Running /\ vcpu.pc = "kvm"

GuestStep ==
  /\ InGuest
  /\ guest # "halted"
  /\ \/ guest = "masked" /\ guest' \in {"on", "halted"}
     \/ guest = "on"     /\ guest' = "masked"
  /\ UNCHANGED <<boot, lock, clock, store, vcpu, maint, export, api>>

(* An exit of KVM_RUN: a sign of life, and records that are due.           *)
Exit(records) ==
  /\ InGuest
  /\ guest # "halted"
  /\ vcpu' = [pc |-> "lock", todo |-> records, halts |-> 0]
  /\ UNCHANGED <<boot, lock, clock, store, guest, maint, export, api>>

(* handle_io_out and handle_io_in: the console, and a few ports whose      *)
(* answers, a bit that flips at each read included, only the guest sees.   *)
IoExit == Exit(1)

(* An access to the registers of the disk (see VirtioBlock) or to nothing. *)
(* A write may complete requests, each of which is recorded before the     *)
(* exit itself.                                                            *)
MmioExit == \E completed \in 0 .. IF cli.disk THEN MaxIo ELSE 0 : Exit(completed + 1)

(* VcpuExit::Hlt and all others.                                           *)
OtherExit == Exit(1)

(* VcpuExit::Shutdown: recorded, then the loop returns.                    *)
ShutdownExit == Exit(0)

VcpuLock ==
  /\ Running
  /\ vcpu.pc = "lock"
  /\ Lock("vcpu")
  /\ vcpu' = [vcpu EXCEPT !.pc = "record"]
  /\ UNCHANGED <<boot, clock, store, guest, maint, export, api>>

(* More records are due, or none, or the guest has shut down.              *)
AfterRecord ==
  [vcpu EXCEPT !.pc = IF vcpu.todo = 0 THEN "return" ELSE IF vcpu.todo = 1 THEN "kvm" ELSE "lock",
               !.todo = IF vcpu.todo = 0 THEN 0 ELSE @ - 1]

(* Mutant of VcpuRecord: as if the time had been read before the lock was  *)
(* asked for.                                                              *)
RecordEarlierTime ==
  /\ Running
  /\ vcpu.pc = "record"
  /\ \E ts \in {clock, clock - 1} : record("vcpu", ts)
  /\ Unlock
  /\ vcpu' = AfterRecord
  /\ UNCHANGED <<boot, clock, guest, maint, export, api>>

(* record_blk_io for each completed request, then record_exit: the time is *)
(* read under the lock.                                                    *)
VcpuRecord ==
  /\ Running
  /\ vcpu.pc = "record"
  /\ record("vcpu", clock)
  /\ Unlock
  /\ vcpu' = AfterRecord
  /\ UNCHANGED <<boot, clock, guest, maint, export, api>>

is_guest_halted == guest # "on"

(* Mutant of Eintr: an interrupted KVM_RUN counts as a sign of life.       *)
EintrResets ==
  /\ InGuest
  /\ vcpu' = [vcpu EXCEPT !.halts = IF is_guest_halted THEN 1 ELSE 0]
  /\ UNCHANGED <<boot, lock, clock, store, guest, maint, export, api>>

(* The SIGALRM of every second interrupts KVM_RUN: EINTR.                  *)
Eintr ==
  /\ InGuest
  /\ LET halts == IF is_guest_halted THEN vcpu.halts + 1 ELSE 0
     IN  vcpu' = [vcpu EXCEPT !.halts = halts,
                              !.pc = IF halts >= HALT_CONSECUTIVE_THRESHOLD THEN "return" ELSE @]
  /\ UNCHANGED <<boot, lock, clock, store, guest, maint, export, api>>

(* The same when the registers cannot be read: that counts as a guest that *)
(* is not halted.                                                          *)
RegsUnread ==
  /\ InGuest
  /\ vcpu' = [vcpu EXCEPT !.halts = 0]
  /\ UNCHANGED <<boot, lock, clock, store, guest, maint, export, api>>

(* Any other error of KVM_RUN.                                             *)
KvmError ==
  /\ InGuest
  /\ vcpu' = [vcpu EXCEPT !.pc = "return"]
  /\ UNCHANGED <<boot, lock, clock, store, guest, maint, export, api>>

(* The loop has returned: run_vmm and main return too, and the process     *)
(* ends.  Only the store is left of it.                                    *)
Quit ==
  /\ Running
  /\ vcpu.pc = "return"
  /\ step' = "ended"
  /\ Off(vcpu', maint', export', api')
  /\ lock' = None
  /\ UNCHANGED <<cli, ram, params, regs, clock, store, guest>>

-----------------------------------------------------------------------------
(* maintenance_loop: the time is read first, then the lock is asked for.   *)

MaintWake ==
  /\ Running
  /\ maint.pc = "sleep"
  /\ maint' = [pc |-> "lock", ts |-> clock]
  /\ UNCHANGED <<boot, lock, clock, store, guest, vcpu, export, api>>

MaintLock ==
  /\ Running
  /\ maint.pc = "lock"
  /\ Lock("maint")
  /\ maint' = [maint EXCEPT !.pc = "record"]
  /\ UNCHANGED <<boot, clock, store, guest, vcpu, export, api>>

(* record_process_stats; then consolidate, with or without an error.       *)
MaintRecord ==
  /\ Running
  /\ maint.pc = "record"
  /\ record("maint", maint.ts)
  /\ maint' = [pc |-> "consolidate", ts |-> 0]
  /\ UNCHANGED <<boot, lock, clock, guest, vcpu, export, api>>

MaintConsolidate ==
  /\ Running
  /\ maint.pc = "consolidate"
  /\ Unlock
  /\ maint' = [maint EXCEPT !.pc = "sleep"]
  /\ UNCHANGED <<boot, clock, store, guest, vcpu, export, api>>

-----------------------------------------------------------------------------
(* export_loop: drain and push under the lock, save after it.              *)

(* ExportCursor::load_or_new; without a cursor the thread ends.            *)
ExportLoad ==
  /\ Running
  /\ export.pc = "load"
  /\ export' \in {[export EXCEPT !.pc = "sleep"], [export EXCEPT !.pc = "off"]}
  /\ UNCHANGED <<boot, lock, clock, store, guest, vcpu, maint, api>>

ExportWake ==
  /\ Running
  /\ export.pc = "sleep"
  /\ export' = [export EXCEPT !.pc = "lock"]
  /\ UNCHANGED <<boot, lock, clock, store, guest, vcpu, maint, api>>

ExportLock ==
  /\ Running
  /\ export.pc = "lock"
  /\ Lock("export")
  /\ export' = [export EXCEPT !.pc = "drain"]
  /\ UNCHANGED <<boot, clock, store, guest, vcpu, maint, api>>

(* Mutant of ExportDrain: the lock is kept over the next sleep.            *)
DrainKeepsLock ==
  /\ Running
  /\ export.pc = "drain"
  /\ \/ export' = [export EXCEPT !.pc = "sleep"]
     \/ export' = [pc |-> "push", attempt |-> 0]
  /\ UNCHANGED <<boot, lock, clock, store, guest, vcpu, maint, api>>

(* Nothing new, or an error: the lock is released.                         *)
ExportDrain ==
  /\ Running
  /\ export.pc = "drain"
  /\ \/ Unlock /\ export' = [export EXCEPT !.pc = "sleep"]
     \/ UNCHANGED lock /\ export' = [pc |-> "push", attempt |-> 0]
  /\ UNCHANGED <<boot, clock, store, guest, vcpu, maint, api>>

(* Mutant of PushAttempt: the last failure starts over.                    *)
RetryForever ==
  /\ Running
  /\ export.pc = "push"
  /\ \/ Unlock /\ export' = [pc |-> "save", attempt |-> 0]
     \/ UNCHANGED lock /\ export' = [export EXCEPT !.attempt = (@ + 1) % (max_retries + 1)]
  /\ UNCHANGED <<boot, clock, store, guest, vcpu, maint, api>>

(* One attempt of send_with_retry: accepted, refused or timed out; after   *)
(* the last one the push fails and the lock is released.                   *)
PushAttempt ==
  /\ Running
  /\ export.pc = "push"
  /\ \/ Unlock /\ export' = [pc |-> "save", attempt |-> 0]
     \/ IF export.attempt < max_retries
          THEN UNCHANGED lock /\ export' = [export EXCEPT !.attempt = @ + 1]
          ELSE Unlock /\ export' = [pc |-> "sleep", attempt |-> 0]
  /\ UNCHANGED <<boot, clock, store, guest, vcpu, maint, api>>

ExportSave ==
  /\ Running
  /\ export.pc = "save"
  /\ export' = [export EXCEPT !.pc = "sleep"]
  /\ UNCHANGED <<boot, lock, clock, store, guest, vcpu, maint, api>>

-----------------------------------------------------------------------------
(* run_api_server: one connection after the other, in one thread.          *)

ApiBind ==
  /\ Running
  /\ api.pc = "bind"
  /\ api' \in {[api EXCEPT !.pc = "accept"], [api EXCEPT !.pc = "off"]}
  /\ UNCHANGED <<boot, lock, clock, store, guest, vcpu, maint, export>>

(* A connection; its client reads the answer, or lets it wait, in which    *)
(* case the write blocks once the socket's buffers are full.               *)
ApiAccept ==
  /\ Running
  /\ api.pc = "accept"
  /\ api' \in [pc : {"request"}, client : {"reads", "waits"}]
  /\ UNCHANGED <<boot, lock, clock, store, guest, vcpu, maint, export>>

(* handle_request: reading ends with the request or with the timeout.      *)
(* info and query go for the lock, everything else is answered without.    *)
ApiRequest ==
  /\ Running
  /\ api.pc = "request"
  /\ api' \in {[api EXCEPT !.pc = pc] : pc \in {"accept", "send", "lock"}}
  /\ UNCHANGED <<boot, lock, clock, store, guest, vcpu, maint, export>>

ApiLock ==
  /\ Running
  /\ api.pc = "lock"
  /\ Lock("api")
  /\ api' = [api EXCEPT !.pc = "send"]
  /\ UNCHANGED <<boot, clock, store, guest, vcpu, maint, export>>

(* send_response, for handle_info and handle_query still under the lock.   *)
(* No write timeout is set.  A query that fails is dropped unanswered.     *)
ApiSend ==
  /\ Running
  /\ api.pc = "send"
  /\ api.client = "reads"
  /\ lock' = IF lock = "api" THEN None ELSE lock
  /\ api' = [api EXCEPT !.pc = "accept"]
  /\ UNCHANGED <<boot, clock, store, guest, vcpu, maint, export>>

(* External: the client reads at last.                                     *)
ClientReads ==
  /\ Running
  /\ api.client = "waits"
  /\ api' = [api EXCEPT !.client = "reads"]
  /\ UNCHANGED <<boot, lock, clock, store, guest, vcpu, maint, export>>

-----------------------------------------------------------------------------

VcpuNext ==
  \/ VcpuLock \/ VcpuRecord \/ Eintr \/ RegsUnread \/ GuestStep \/ KvmError \/ Quit
  \/ IoExit \/ MmioExit \/ OtherExit \/ ShutdownExit
MaintNext  == MaintWake \/ MaintLock \/ MaintRecord \/ MaintConsolidate
ExportNext == ExportLoad \/ ExportWake \/ ExportLock \/ ExportDrain \/ PushAttempt \/ ExportSave
ApiNext    == ApiBind \/ ApiAccept \/ ApiRequest \/ ApiLock \/ ApiSend \/ ClientReads

VmmNext == (BootNext /\ UNCHANGED threads) \/ Run \/ Tick
           \/ VcpuNext \/ MaintNext \/ ExportNext \/ ApiNext


(* A thread that is not waiting for anyone goes on; an attempt to push     *)
(* ends, by the client's timeout of 30 s at the latest; the timer fires    *)
(* every second.  The mutex wakes a waiter at every release, and the       *)
(* others sleep or wait for a connection before they ask for it again, so  *)
(* the vCPU thread gets the lock if it is free again and again.  Nothing   *)
(* makes the client read.                                                  *)
VmmSpec ==
  /\ VmmInit /\ [][VmmNext]_vars
  /\ WF_vars(VcpuRecord) /\ WF_vars(Eintr) /\ WF_vars(Quit) /\ SF_vars(VcpuLock)
  /\ WF_vars(MaintRecord) /\ WF_vars(MaintConsolidate)
  /\ WF_vars(ExportDrain) /\ WF_vars(PushAttempt) /\ WF_vars(ApiSend)

-----------------------------------------------------------------------------
(* Properties.                                                             *)

(* The types, and that the mutex protects what it is meant to: a thread    *)
(* between its lock and its unlock is the one that holds it.               *)
VmmTypeOK ==
  /\ step \in {"create", "kernel", "initramfs", "params", "tables", "vcpu", "metrics", "disk", "ready",
               "running", "ended", "failed"}
  /\ clock \in 1 .. MaxClock
  /\ newest \in 0 .. MaxClock /\ highest \in 0 .. MaxClock
  /\ guest \in {"on", "masked", "halted"}
  /\ vcpu \in [pc : {"off", "kvm", "lock", "record", "return"}, todo : 0 .. MaxIo + 1,
               halts : 0 .. HALT_CONSECUTIVE_THRESHOLD]
  /\ maint \in [pc : {"off", "sleep", "lock", "record", "consolidate"}, ts : 0 .. MaxClock]
  /\ export \in [pc : {"off", "load", "sleep", "lock", "drain", "push", "save"},
                 attempt : 0 .. max_retries]
  /\ api \in [pc : {"off", "bind", "accept", "request", "lock", "send"}, client : {"reads", "waits"}]
  /\ step = "running" =>
       /\ (lock = "vcpu") = (vcpu.pc = "record")
       /\ (lock = "maint") = (maint.pc \in {"record", "consolidate"})
       /\ (lock = "export") = (export.pc \in {"drain", "push"})
       /\ lock = "api" => api.pc = "send"

(* The newest timestamp of the store falls behind what has been recorded   *)
(* only through the maintenance thread, which reads the clock before it    *)
(* waits for the lock; the next record of the vCPU repairs it, since       *)
(* record_exit and record_blk_io read the clock under the lock.            *)
BehindOnlyByMaintenance == newest < highest => writer = "maint"

(* A vCPU that waits to record an exit gets on with the guest, however the *)
(* other threads come in between and however often the endpoint fails:     *)
(* only a client that does not read its answer can keep it, because        *)
(* handle_info and handle_query write to the client under the lock.        *)
GuestResumes == vcpu.pc = "lock" ~> (vcpu.pc # "lock" \/ (lock = "api" /\ api.client = "waits"))

(* A guest that halts with interrupts disabled is noticed, and the program *)
(* ends, although KVM_RUN itself never returns (run_vcpu_loop) - if KVM    *)
(* does not keep failing to give the registers, which is taken for a guest *)
(* that is not halted and starts the count again (is_guest_halted).        *)
HaltDetected == <>[][~RegsUnread]_vars => ((Running /\ guest = "halted") ~> ~Running)
=============================================================================
