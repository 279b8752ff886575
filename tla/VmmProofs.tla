------------------------------ MODULE VmmProofs ------------------------------
(***************************************************************************)
(* Proofs about the demo VMM for any sizes, any number of steps and any    *)
(* interleaving of its four threads: the mutex protects the metrics store, *)
(* only the maintenance thread puts the store's newest timestamp back, and *)
(* the boot regions do not overlap.                                        *)
(***************************************************************************)
EXTENDS Vmm, TLAPS

(* The inductive invariant of the threads.  Beyond the types and the mutex *)
(* it says that nothing runs and nothing is locked before Vmm::run and     *)
(* after the end, that a loop that has not returned has counted fewer      *)
(* halts than the threshold, and that no recorded or remembered time is    *)
(* ahead of the clock.                                                     *)
ThreadsInv ==
  /\ VmmTypeOK
  /\ step # "running" => lock = None /\ Off(vcpu, maint, export, api)
  /\ vcpu.pc # "return" => vcpu.halts < HALT_CONSECUTIVE_THRESHOLD
  /\ newest <= highest /\ highest <= clock /\ maint.ts <= clock
  /\ newest < highest => writer = "maint"

(* The mutex is free before the threads are spawned.                       *)
LEMMA ThreadsInit == VmmInit => ThreadsInv
  BY VmmAssumption, BootAssumption DEF Threads, VmmInit, BootInit, Off, ThreadsInv, VmmTypeOK

(* Booting does not touch the threads.                                     *)
LEMMA BootKeepsThreads == ThreadsInv /\ BootNext /\ UNCHANGED threads => ThreadsInv'
<1> SUFFICES ASSUME ThreadsInv, BootNext, UNCHANGED threads PROVE ThreadsInv'
  OBVIOUS
<1>1. step # "running" /\ step' \in {"kernel", "initramfs", "params", "tables", "vcpu", "metrics",
                                     "disk", "ready", "failed"}
  BY DEF BootNext, CreateVm, LoadKernel, load_initramfs, setup_boot_params, SetupTables, SetupVcpu,
         OpenMetrics, OpenDisk, fail
<1> QED
  BY <1>1 DEF ThreadsInv, VmmTypeOK, threads, store, Off

(* The vCPU loop keeps the invariant.                                      *)
LEMMA VcpuKeeps == ThreadsInv /\ VcpuNext => ThreadsInv'
<1> SUFFICES ASSUME ThreadsInv, VcpuNext PROVE ThreadsInv'
  OBVIOUS
<1> USE VmmAssumption, BootAssumption DEF Threads, ThreadsInv, VmmTypeOK, store, boot, Running, InGuest, Off
<1>1. CASE VcpuLock
  BY <1>1 DEF VcpuLock, Lock
<1>2. CASE VcpuRecord
  <2>1. /\ vcpu' \in [pc : {"kvm", "lock", "return"}, todo : 0 .. MaxIo + 1,
                      halts : 0 .. HALT_CONSECUTIVE_THRESHOLD]
        /\ vcpu'.halts < HALT_CONSECUTIVE_THRESHOLD
    <3> DEFINE pc == IF vcpu.todo = 0 THEN "return" ELSE IF vcpu.todo = 1 THEN "kvm" ELSE "lock"
               todo == IF vcpu.todo = 0 THEN 0 ELSE vcpu.todo - 1
    <3>1. vcpu' = [vcpu EXCEPT !.pc = pc, !.todo = todo]
      BY <1>2 DEF VcpuRecord, AfterRecord
    <3>2. pc \in {"kvm", "lock", "return"} /\ todo \in 0 .. MaxIo + 1
      OBVIOUS
    <3>3. vcpu.halts < HALT_CONSECUTIVE_THRESHOLD
      BY <1>2 DEF VcpuRecord
    <3> HIDE DEF pc, todo
    <3> QED
      BY <3>1, <3>2, <3>3
  <2>2. newest' = clock /\ highest' = clock /\ writer' = "vcpu" /\ lock' = None
    BY <1>2 DEF VcpuRecord, record, Unlock
  <2> QED
    BY <1>2, <2>1, <2>2 DEF VcpuRecord
<1>3. CASE Eintr
  <2> DEFINE halts == IF is_guest_halted THEN vcpu.halts + 1 ELSE 0
             pc == IF halts >= HALT_CONSECUTIVE_THRESHOLD THEN "return" ELSE vcpu.pc
  <2>1. vcpu' = [vcpu EXCEPT !.halts = halts, !.pc = pc]
    BY <1>3 DEF Eintr
  <2>2. vcpu.pc = "kvm" /\ vcpu.halts < HALT_CONSECUTIVE_THRESHOLD
    BY <1>3 DEF Eintr
  <2>3. /\ halts \in 0 .. HALT_CONSECUTIVE_THRESHOLD /\ pc \in {"kvm", "return"}
        /\ pc # "return" => halts < HALT_CONSECUTIVE_THRESHOLD
    BY <2>2
  <2> HIDE DEF halts, pc
  <2>4. vcpu'.pc = pc /\ vcpu'.halts = halts /\ vcpu'.todo = vcpu.todo
    BY <2>1
  <2> QED
    <3>1. vcpu' \in [pc : {"kvm", "return"}, todo : 0 .. MaxIo + 1,
                     halts : 0 .. HALT_CONSECUTIVE_THRESHOLD]
      BY <2>1, <2>3
    <3> QED
      BY <1>3, <2>2, <2>3, <2>4, <3>1 DEF Eintr
<1>4. CASE GuestStep \/ RegsUnread
  BY <1>4 DEF GuestStep, RegsUnread
<1>5. CASE KvmError
  BY <1>5 DEF KvmError
<1>6. CASE Quit
  BY <1>6 DEF Quit
<1>7. ASSUME NEW n \in 0 .. MaxIo + 1, Exit(n) PROVE ThreadsInv'
  BY <1>7 DEF Exit
<1>8. CASE IoExit \/ MmioExit \/ OtherExit \/ ShutdownExit
  <2>1. PICK n \in 0 .. MaxIo + 1 : Exit(n)
    <3>1. 0 \in 0 .. MaxIo + 1 /\ 1 \in 0 .. MaxIo + 1
      OBVIOUS
    <3>2. \A c \in 0 .. (IF cli.disk THEN MaxIo ELSE 0) : c + 1 \in 0 .. MaxIo + 1
      OBVIOUS
    <3> QED
      BY <1>8, <3>1, <3>2 DEF IoExit, MmioExit, OtherExit, ShutdownExit
  <2> QED
    BY <1>7, <2>1
<1> QED
  BY <1>1, <1>2, <1>3, <1>4, <1>5, <1>6, <1>8 DEF VcpuNext

(* The maintenance thread keeps it, although it records an earlier time.   *)
LEMMA MaintKeeps == ThreadsInv /\ MaintNext => ThreadsInv'
<1> SUFFICES ASSUME ThreadsInv, MaintNext PROVE ThreadsInv'
  OBVIOUS
<1> USE VmmAssumption, BootAssumption DEF Threads, ThreadsInv, VmmTypeOK, store, boot, Running, Off
<1>1. CASE MaintWake
  BY <1>1 DEF MaintWake
<1>2. CASE MaintLock
  BY <1>2 DEF MaintLock, Lock
<1>3. CASE MaintRecord
  BY <1>3 DEF MaintRecord, record
<1>4. CASE MaintConsolidate
  BY <1>4 DEF MaintConsolidate, Unlock
<1> QED
  BY <1>1, <1>2, <1>3, <1>4 DEF MaintNext

(* The export thread keeps it, whatever the endpoint does.                 *)
LEMMA ExportKeeps == ThreadsInv /\ ExportNext => ThreadsInv'
<1> SUFFICES ASSUME ThreadsInv, ExportNext PROVE ThreadsInv'
  OBVIOUS
<1> USE VmmAssumption, BootAssumption DEF Threads, ThreadsInv, VmmTypeOK, store, boot, Running, Off, Unlock
<1>1. CASE ExportLoad \/ ExportWake \/ ExportSave
  BY <1>1 DEF ExportLoad, ExportWake, ExportSave
<1>2. CASE ExportLock
  BY <1>2 DEF ExportLock, Lock
<1>3. CASE ExportDrain
  BY <1>3 DEF ExportDrain
<1>4. CASE PushAttempt
  BY <1>4 DEF PushAttempt
<1> QED
  BY <1>1, <1>2, <1>3, <1>4 DEF ExportNext

(* So does the HTTP server.                                                *)
LEMMA ApiKeeps == ThreadsInv /\ ApiNext => ThreadsInv'
<1> SUFFICES ASSUME ThreadsInv, ApiNext PROVE ThreadsInv'
  OBVIOUS
<1> USE VmmAssumption, BootAssumption DEF Threads, ThreadsInv, VmmTypeOK, store, boot, Running, Off
<1>1. CASE ApiBind \/ ApiAccept \/ ApiRequest \/ ClientReads
  BY <1>1 DEF ApiBind, ApiAccept, ApiRequest, ClientReads
<1>2. CASE ApiLock
  BY <1>2 DEF ApiLock, Lock
<1>3. CASE ApiSend
  BY <1>3 DEF ApiSend
<1> QED
  BY <1>1, <1>2, <1>3 DEF ApiNext

(* Every step of the program keeps the invariant.                          *)
LEMMA ThreadsStep == ThreadsInv /\ [VmmNext]_vars => ThreadsInv'
<1> SUFFICES ASSUME ThreadsInv, [VmmNext]_vars PROVE ThreadsInv'
  OBVIOUS
<1>1. CASE Run
  BY <1>1, VmmAssumption DEF Threads, Run, fail, ThreadsInv, VmmTypeOK, threads, store, Off
<1>2. CASE Tick
  BY <1>2, VmmAssumption DEF Tick, Running, ThreadsInv, VmmTypeOK, boot, store, Off
<1>3. CASE UNCHANGED vars
  BY <1>3 DEF ThreadsInv, VmmTypeOK, vars, boot, threads, store, Off
<1> QED
  BY <1>1, <1>2, <1>3, BootKeepsThreads, VcpuKeeps, MaintKeeps, ExportKeeps, ApiKeeps DEF VmmNext

(* Hence it always holds.                                                  *)
LEMMA ThreadsAlways == VmmSpec => []ThreadsInv
  BY ThreadsInit, ThreadsStep, PTL DEF VmmSpec

(* A thread of the VMM that is between its lock and its unlock is the one  *)
(* that holds the metrics mutex, so no two of run_vcpu_loop,               *)
(* maintenance_loop, export_loop and the HTTP handlers are in the store at *)
(* the same time.                                                          *)
THEOREM MutexProtectsStore == VmmSpec => []VmmTypeOK
<1>1. ThreadsInv => VmmTypeOK
  BY DEF ThreadsInv
<1> QED
  BY <1>1, ThreadsAlways, PTL

(* Only the maintenance thread, which reads the clock before it waits for  *)
(* the lock, can leave the newest timestamp behind the highest one         *)
(* recorded: maintenance_loop and record_exit, for any waiting times.      *)
THEOREM OnlyMaintenanceBehind == VmmSpec => []BehindOnlyByMaintenance
<1>1. ThreadsInv => BehindOnlyByMaintenance
  BY DEF ThreadsInv, BehindOnlyByMaintenance
<1> QED
  BY <1>1, ThreadsAlways, PTL

-----------------------------------------------------------------------------
(* What the options are while the VM is set up.                            *)
CliFits ==
  /\ cli.memory_mib \in Nat /\ cli.memory_mib <= 4096
  /\ cli.kernel \in Nat /\ cli.kernel > \h20 /\ HIMEM_START + cli.kernel <= 512 * 2 * MiB
  /\ cli.initramfs # None => cli.initramfs \in Nat /\ cli.initramfs < FourGiB
  /\ cli.cmdline \in Nat
  /\ CMDLINE_ADDR + cli.cmdline + (IF step = "create" THEN DiskParam ELSE 0) + 1 <= \h9FC0

KernelEnd  == HIMEM_START + cli.kernel
AfterKernel == ((KernelEnd + Page - 1) \div Page) * Page

(* Where each region is, once it has been written.                         *)
Place ==
  [kernel      |-> <<HIMEM_START, KernelEnd>>,
   initramfs   |-> Written(AfterKernel, cli.initramfs),
   cmdline     |-> <<CMDLINE_ADDR, CMDLINE_ADDR + cli.cmdline + 1>>,
   boot_params |-> <<BOOT_PARAMS_ADDR, BOOT_PARAMS_ADDR + Page>>,
   pml4        |-> <<PML4_ADDR, PML4_ADDR + Page>>,
   pdpt        |-> <<PDPT_ADDR, PDPT_ADDR + Page>>,
   pd          |-> <<PD_ADDR, PD_ADDR + Page>>,
   gdt         |-> <<GDT_ADDR, GDT_ADDR + 2>>]

Early(s, names) == s \in {"create", "kernel"} \cup names

(* The regions written before the step s.                                  *)
RegionsAt(s) ==
  (IF Early(s, {}) THEN {} ELSE {"kernel"})
    \cup (IF Early(s, {"initramfs"}) \/ cli.initramfs = None THEN {} ELSE {"initramfs"})
    \cup (IF Early(s, {"initramfs", "params"}) THEN {} ELSE {"cmdline", "boot_params"})
    \cup (IF Early(s, {"initramfs", "params", "tables"}) THEN {} ELSE {"pml4", "pdpt", "pd", "gdt"})

(* The inductive invariant of the boot: what has been written so far, and  *)
(* where.  That the boot succeeds so far bounds the sizes by the memory.   *)
BootInv ==
  step \notin {"running", "ended", "failed"} =>
    /\ CliFits
    /\ DOMAIN ram = RegionsAt(step)
    /\ \A r \in DOMAIN ram : ram[r] = Place[r]
    /\ "kernel" \in DOMAIN ram => KernelEnd <= mem_size
    /\ "initramfs" \in DOMAIN ram =>
         /\ AfterKernel < mem_size
         /\ "ramdisk_image" \in DOMAIN params /\ "ramdisk_size" \in DOMAIN params
         /\ params.ramdisk_image = AfterKernel /\ params.ramdisk_size = cli.initramfs
    /\ "cmdline" \in DOMAIN ram =>
         /\ "e820_ram" \in DOMAIN params
         /\ params.e820_ram = MemoryMap
    /\ step \in {"metrics", "disk", "ready"} =>
         regs = [cr3 |-> PML4_ADDR, gdt |-> GDT_ADDR, rip |-> HIMEM_START + \h20,
                 rsp |-> BOOT_STACK_ADDR, rsi |-> BOOT_PARAMS_ADDR]

(* The page boundary above the kernel is above it, and a page at most.     *)
LEMMA AfterKernelFacts ==
  ASSUME CliFits
  PROVE  /\ mem_size \in Nat /\ mem_size <= FourGiB /\ KernelEnd \in Nat /\ AfterKernel \in Nat
         /\ KernelEnd <= AfterKernel
         /\ AfterKernel < mem_size => AfterKernel % FourGiB = AfterKernel
         /\ cli.initramfs # None => cli.initramfs % FourGiB = cli.initramfs
<1>1. mem_size \in Nat /\ mem_size <= FourGiB
  BY DEF CliFits, mem_size, MiB, FourGiB
<1>2. KernelEnd \in Nat
  BY DEF KernelEnd, HIMEM_START, CliFits
<1>3. AfterKernel \in Nat /\ KernelEnd <= AfterKernel
  BY <1>2 DEF AfterKernel, Page
<1>4. \A a \in Nat : a < FourGiB => a % FourGiB = a
  BY DEF FourGiB
<1>5. cli.initramfs # None => cli.initramfs % FourGiB = cli.initramfs
  BY <1>4 DEF CliFits
<1>6. AfterKernel < mem_size => AfterKernel % FourGiB = AfterKernel
  <2>1. AfterKernel < mem_size => AfterKernel < FourGiB
    BY <1>1, <1>3 DEF FourGiB
  <2> QED
    BY <1>3, <1>4, <2>1
<1> QED
  BY <1>1, <1>2, <1>3, <1>5, <1>6

(* Nothing has been written when Vmm::new begins.                          *)
LEMMA BootInvInit == SizesFit /\ BootInit => BootInv
<1> SUFFICES ASSUME SizesFit, BootInit PROVE BootInv
  OBVIOUS
<1>1. CliFits
  <2>1. /\ cli.memory_mib \in Memories /\ cli.kernel \in Kernels
        /\ cli.initramfs \in Initramfses /\ cli.cmdline \in Cmdlines
    BY DEF BootInit, VmmConfig
  <2>2. /\ cli.memory_mib \in Nat /\ cli.kernel \in Nat \ {0} /\ cli.cmdline \in Nat
        /\ cli.initramfs # None => cli.initramfs \in Nat
    BY <2>1, BootAssumption
  <2>3. CMDLINE_ADDR + cli.cmdline + DiskParam + 1 <= \h9FC0
    BY <2>1 DEF SizesFit
  <2>4. step = "create"
    BY DEF BootInit
  <2> QED
    BY <2>1, <2>2, <2>3, <2>4 DEF SizesFit, CliFits
<1> QED
  BY <1>1 DEF BootInit, BootInv, RegionsAt, Early, Empty

(* Every step of the boot keeps the invariant.                             *)
LEMMA BootInvStep == BootInv /\ BootNext => BootInv'
<1> SUFFICES ASSUME BootInv, BootNext PROVE BootInv'
  OBVIOUS
<1>1. CASE fail
  BY <1>1 DEF fail, BootInv
<1>2. ASSUME UNCHANGED <<cli, ram, params, regs>>,
             <<step, step'>> \in {<<"metrics", "disk">>, <<"disk", "ready">>}
      PROVE  BootInv'
  <2>1. CliFits /\ RegionsAt(step)' = RegionsAt(step) /\ CliFits'
    BY <1>2 DEF BootInv, RegionsAt, Early, CliFits
  <2>2. /\ Place' = Place /\ KernelEnd' = KernelEnd /\ AfterKernel' = AfterKernel /\ mem_size' = mem_size
        /\ MemoryMap' = MemoryMap
    BY <1>2 DEF Place, KernelEnd, AfterKernel, mem_size, Written, MemoryMap
  <2> QED
    BY <1>2, <2>1, <2>2 DEF BootInv
<1>3. CASE CreateVm
  <2>1. SUFFICES ASSUME step' = "kernel",
                        cli' = [cli EXCEPT !.cmdline = IF cli.disk THEN @ + DiskParam ELSE @],
                        UNCHANGED <<ram, params, regs>>
                 PROVE  BootInv'
    BY <1>1, <1>3 DEF CreateVm
  <2>2. CliFits /\ step = "create" /\ DOMAIN ram = {}
    BY <1>3 DEF CreateVm, BootInv, RegionsAt, Early
  <2>3. /\ cli'.memory_mib = cli.memory_mib /\ cli'.kernel = cli.kernel /\ cli'.initramfs = cli.initramfs
        /\ cli'.cmdline \in {cli.cmdline, cli.cmdline + DiskParam}
    BY <2>1
  <2>4. CliFits'
    BY <2>1, <2>2, <2>3, SMTT(30) DEF CliFits, DiskParam, CMDLINE_ADDR
  <2> QED
    BY <2>1, <2>2, <2>4 DEF BootInv, RegionsAt, Early
<1>4. CASE LoadKernel
  <2>1. SUFFICES ASSUME Holds(HIMEM_START, cli.kernel), step' = "initramfs",
                        ram' = [kernel |-> <<HIMEM_START, HIMEM_START + cli.kernel>>],
                        UNCHANGED <<cli, params, regs>>
                 PROVE  BootInv'
    BY <1>1, <1>4 DEF LoadKernel
  <2>2. CliFits /\ CliFits'
    BY <1>4, <2>1 DEF LoadKernel, BootInv, CliFits
  <2>3. DOMAIN ram' = {"kernel"} /\ RegionsAt(step)' = {"kernel"}
    BY <2>1 DEF RegionsAt, Early
  <2>4. ram'["kernel"] = Place'["kernel"] /\ KernelEnd' <= mem_size'
    BY <2>1 DEF Place, KernelEnd, Holds, mem_size
  <2> QED
    BY <2>1, <2>2, <2>3, <2>4 DEF BootInv
<1>5. CASE load_initramfs
  <2>1. step = "initramfs" /\ CliFits /\ DOMAIN ram = {"kernel"} /\ ram["kernel"] = <<HIMEM_START, KernelEnd>>
    BY <1>5 DEF load_initramfs, BootInv, RegionsAt, Early, Place
  <2>2. AboveKernel = AfterKernel
    BY <2>1 DEF AboveKernel, AfterKernel
  <2>3. ASSUME UNCHANGED cli PROVE /\ Place' = Place /\ KernelEnd' = KernelEnd
                                   /\ AfterKernel' = AfterKernel /\ mem_size' = mem_size
                                   /\ MemoryMap' = MemoryMap
    BY <2>3 DEF Place, KernelEnd, AfterKernel, mem_size, Written, MemoryMap
  <2>4. CASE /\ cli.initramfs = None
             /\ step' = "params" /\ UNCHANGED <<cli, ram, params, regs>>
    <3>1. RegionsAt(step)' = {"kernel"} /\ CliFits'
      BY <2>1, <2>4 DEF RegionsAt, Early, CliFits
    <3> QED
      BY <2>1, <2>3, <2>4, <3>1 DEF BootInv
  <2>5. CASE /\ cli.initramfs # None /\ Accepts(AboveKernel)
             /\ ram' = With([initramfs |-> Written(AboveKernel, cli.initramfs)], ram)
             /\ params' = [ramdisk_image |-> AboveKernel % FourGiB, ramdisk_size |-> cli.initramfs % FourGiB]
             /\ step' = "params" /\ UNCHANGED <<cli, regs>>
    <3>1. RegionsAt(step)' = {"kernel", "initramfs"} /\ CliFits'
      BY <2>1, <2>5 DEF RegionsAt, Early, CliFits
    <3>2. /\ DOMAIN ram' = {"kernel", "initramfs"}
          /\ ram'["kernel"] = ram["kernel"]
          /\ ram'["initramfs"] = Written(AboveKernel, cli.initramfs)
      <4> DEFINE new == [initramfs |-> Written(AboveKernel, cli.initramfs)]
      <4>1. DOMAIN new = {"initramfs"} /\ new["initramfs"] = Written(AboveKernel, cli.initramfs)
        OBVIOUS
      <4>2. ram' = With(new, ram)
        BY <2>5
      <4> HIDE DEF new
      <4> QED
        BY <2>1, <4>1, <4>2 DEF With
    <3>3. \A r \in DOMAIN ram' : ram'[r] = Place[r]
      BY <2>1, <2>2, <3>2 DEF Place
    <3>4. AfterKernel < mem_size
      BY <2>2, <2>5 DEF Accepts
    <3>5. params'.ramdisk_image = AfterKernel /\ params'.ramdisk_size = cli.initramfs
      BY <2>1, <2>2, <2>5, <3>4, AfterKernelFacts
    <3>6. KernelEnd <= mem_size
      BY <2>1, <2>3 DEF BootInv
    <3>7. DOMAIN params' = {"ramdisk_image", "ramdisk_size"}
      BY <2>5
    <3>8. UNCHANGED <<Place, KernelEnd, AfterKernel, mem_size, MemoryMap>>
      BY <2>3, <2>5
    <3>9. step' = "params" /\ cli' = cli
      BY <2>5
    <3> QED
      BY <3>1, <3>2, <3>3, <3>4, <3>5, <3>6, <3>7, <3>8, <3>9 DEF BootInv
  <2> QED
    BY <1>1, <1>5, <2>4, <2>5 DEF load_initramfs
<1>6. CASE setup_boot_params
  <2>1. SUFFICES ASSUME Accepts(CMDLINE_ADDR + cli.cmdline), step' = "tables",
                        ram' = With([cmdline     |-> <<CMDLINE_ADDR, CMDLINE_ADDR + cli.cmdline + 1>>,
                                     boot_params |-> Written(BOOT_PARAMS_ADDR, Page)], ram),
                        params' = With([cmd_line_ptr |-> CMDLINE_ADDR,
                                        e820_ram |-> MemoryMap], params),
                        UNCHANGED <<cli, regs>>
                 PROVE  BootInv'
    BY <1>1, <1>6 DEF setup_boot_params
  <2>2. /\ step = "params" /\ CliFits /\ DOMAIN ram = RegionsAt("params")
        /\ \A r \in DOMAIN ram : ram[r] = Place[r]
        /\ "kernel" \in DOMAIN ram
    BY <1>6 DEF setup_boot_params, BootInv, RegionsAt, Early
  <2>3. UNCHANGED <<Place, KernelEnd, AfterKernel, mem_size, MemoryMap>> /\ CliFits'
    BY <2>1, <2>2 DEF Place, KernelEnd, AfterKernel, mem_size, Written, CliFits, MemoryMap
  <2>4. KernelEnd <= mem_size
    BY <2>2 DEF BootInv
  <2>5. Written(BOOT_PARAMS_ADDR, Page) = <<BOOT_PARAMS_ADDR, BOOT_PARAMS_ADDR + Page>>
    BY <2>2, <2>4, AfterKernelFacts DEF Written, BOOT_PARAMS_ADDR, Page, KernelEnd, HIMEM_START, CliFits
  <2>6. RegionsAt(step)' = RegionsAt("params") \cup {"cmdline", "boot_params"}
    BY <2>1 DEF RegionsAt, Early
  <2>7. "cmdline" \notin DOMAIN ram /\ "boot_params" \notin DOMAIN ram
    BY <2>2 DEF RegionsAt, Early
  <2>8. /\ DOMAIN ram' = DOMAIN ram \cup {"cmdline", "boot_params"}
        /\ \A r \in DOMAIN ram : ram'[r] = ram[r]
        /\ ram'["cmdline"] = <<CMDLINE_ADDR, CMDLINE_ADDR + cli.cmdline + 1>>
        /\ ram'["boot_params"] = Written(BOOT_PARAMS_ADDR, Page)
    <3> DEFINE new == [cmdline     |-> <<CMDLINE_ADDR, CMDLINE_ADDR + cli.cmdline + 1>>,
                       boot_params |-> Written(BOOT_PARAMS_ADDR, Page)]
    <3>1. /\ DOMAIN new = {"cmdline", "boot_params"}
          /\ new["cmdline"] = <<CMDLINE_ADDR, CMDLINE_ADDR + cli.cmdline + 1>>
          /\ new["boot_params"] = Written(BOOT_PARAMS_ADDR, Page)
      OBVIOUS
    <3>2. ram' = With(new, ram)
      BY <2>1
    <3> HIDE DEF new
    <3> QED
      BY <2>7, <3>1, <3>2 DEF With
  <2>9. \A r \in DOMAIN ram' : ram'[r] = Place[r]
    BY <2>2, <2>5, <2>8 DEF Place
  <2>10. /\ DOMAIN params' = DOMAIN params \cup {"cmd_line_ptr", "e820_ram"}
         /\ \A f \in DOMAIN params \ {"cmd_line_ptr", "e820_ram"} : params'[f] = params[f]
         /\ params'["e820_ram"] = MemoryMap
    <3> DEFINE new == [cmd_line_ptr |-> CMDLINE_ADDR, e820_ram |-> MemoryMap]
    <3>1. DOMAIN new = {"cmd_line_ptr", "e820_ram"} /\ new["e820_ram"] = MemoryMap
      OBVIOUS
    <3>2. params' = With(new, params)
      BY <2>1
    <3> HIDE DEF new
    <3> QED
      BY <3>1, <3>2 DEF With
  <2>11. "initramfs" \in DOMAIN ram' => "initramfs" \in DOMAIN ram
    BY <2>8
  <2>12. "initramfs" \in DOMAIN ram' =>
           /\ AfterKernel < mem_size
           /\ "ramdisk_image" \in DOMAIN params' /\ "ramdisk_size" \in DOMAIN params'
           /\ params'["ramdisk_image"] = AfterKernel /\ params'["ramdisk_size"] = cli.initramfs
    BY <2>2, <2>10, <2>11 DEF BootInv
  <2>13. "e820_ram" \in DOMAIN params'
    BY <2>10
  <2> QED
    <3>1. MemoryMap' = MemoryMap
      BY <2>3
    <3>2. DOMAIN ram' = RegionsAt(step)' /\ step' = "tables" /\ cli' = cli
      BY <2>1, <2>2, <2>6, <2>8
    <3>3. params'["e820_ram"] = MemoryMap'
      BY <2>10, <3>1
    <3> QED
      BY <2>3, <2>4, <2>9, <2>12, <2>13, <3>2, <3>3 DEF BootInv
<1>7. CASE SetupTables
  <2>1. SUFFICES ASSUME step' = "vcpu",
                        ram' = With([pml4 |-> <<PML4_ADDR, PML4_ADDR + Page>>,
                                     pdpt |-> <<PDPT_ADDR, PDPT_ADDR + Page>>,
                                     pd   |-> <<PD_ADDR, PD_ADDR + Page>>,
                                     gdt  |-> <<GDT_ADDR, GDT_ADDR + 2>>], ram),
                        UNCHANGED <<cli, params, regs>>
                 PROVE  BootInv'
    BY <1>1, <1>7 DEF SetupTables
  <2>2. /\ step = "tables" /\ CliFits /\ DOMAIN ram = RegionsAt("tables")
        /\ \A r \in DOMAIN ram : ram[r] = Place[r]
        /\ "kernel" \in DOMAIN ram /\ "cmdline" \in DOMAIN ram
    BY <1>7 DEF SetupTables, BootInv, RegionsAt, Early
  <2>3. UNCHANGED <<Place, KernelEnd, AfterKernel, mem_size, MemoryMap>> /\ CliFits'
    BY <2>1, <2>2 DEF Place, KernelEnd, AfterKernel, mem_size, Written, CliFits, MemoryMap
  <2>4. RegionsAt(step)' = RegionsAt("tables") \cup {"pml4", "pdpt", "pd", "gdt"}
    BY <2>1 DEF RegionsAt, Early
  <2>5. DOMAIN ram \cap {"pml4", "pdpt", "pd", "gdt"} = {}
    BY <2>2 DEF RegionsAt, Early
  <2>6. /\ DOMAIN ram' = DOMAIN ram \cup {"pml4", "pdpt", "pd", "gdt"}
        /\ \A r \in DOMAIN ram : ram'[r] = ram[r]
        /\ \A r \in {"pml4", "pdpt", "pd", "gdt"} : ram'[r] = Place[r]
    <3> DEFINE new == [pml4 |-> <<PML4_ADDR, PML4_ADDR + Page>>,
                       pdpt |-> <<PDPT_ADDR, PDPT_ADDR + Page>>,
                       pd   |-> <<PD_ADDR, PD_ADDR + Page>>,
                       gdt  |-> <<GDT_ADDR, GDT_ADDR + 2>>]
    <3>1. /\ DOMAIN new = {"pml4", "pdpt", "pd", "gdt"}
          /\ new["pml4"] = Place["pml4"] /\ new["pdpt"] = Place["pdpt"]
          /\ new["pd"] = Place["pd"] /\ new["gdt"] = Place["gdt"]
      BY DEF Place
    <3>2. ram' = With(new, ram)
      BY <2>1
    <3> HIDE DEF new
    <3> QED
      BY <2>5, <3>1, <3>2 DEF With
  <2>7. \A r \in DOMAIN ram' : ram'[r] = Place[r]
    BY <2>2, <2>6
  <2> QED
    BY <2>1, <2>2, <2>3, <2>4, <2>6, <2>7 DEF BootInv
<1>8. CASE SetupVcpu
  <2>1. SUFFICES ASSUME step' = "metrics",
                        regs' = [cr3 |-> PML4_ADDR, gdt |-> GDT_ADDR, rip |-> ram["kernel"][1] + \h20,
                                 rsp |-> BOOT_STACK_ADDR, rsi |-> BOOT_PARAMS_ADDR],
                        UNCHANGED <<cli, ram, params>>
                 PROVE  BootInv'
    BY <1>1, <1>8 DEF SetupVcpu
  <2>2. /\ step = "vcpu" /\ CliFits /\ DOMAIN ram = RegionsAt("vcpu")
        /\ "kernel" \in DOMAIN ram /\ ram["kernel"] = Place["kernel"]
    BY <1>8 DEF SetupVcpu, BootInv, RegionsAt, Early
  <2>3. UNCHANGED <<Place, KernelEnd, AfterKernel, mem_size, MemoryMap>> /\ CliFits'
    BY <2>1, <2>2 DEF Place, KernelEnd, AfterKernel, mem_size, Written, CliFits, MemoryMap
  <2>4. RegionsAt(step)' = RegionsAt("vcpu") /\ ram["kernel"][1] = HIMEM_START
    BY <2>1, <2>2 DEF RegionsAt, Early, Place
  <2> QED
    BY <2>1, <2>2, <2>3, <2>4 DEF BootInv
<1>9. CASE OpenMetrics \/ OpenDisk
  BY <1>1, <1>2, <1>9 DEF OpenMetrics, OpenDisk
<1> QED
  BY <1>3, <1>4, <1>5, <1>6, <1>7, <1>8, <1>9 DEF BootNext

(* The threads leave what the boot has set up alone, up to Vmm::run.       *)
LEMMA BootInvVmm == BootInv /\ [VmmNext]_vars => BootInv'
<1> SUFFICES ASSUME BootInv, [VmmNext]_vars PROVE BootInv'
  OBVIOUS
<1>1. CASE BootNext
  BY <1>1, BootInvStep
<1>2. CASE step' \in {"running", "ended", "failed"}
  BY <1>2 DEF BootInv
<1>3. CASE UNCHANGED boot
  <2>1. UNCHANGED <<step, cli, ram, params, regs>>
    BY <1>3 DEF boot
  <2>2. UNCHANGED <<Place, KernelEnd, AfterKernel, mem_size, MemoryMap, RegionsAt(step), CliFits>>
    BY <2>1 DEF Place, KernelEnd, AfterKernel, mem_size, Written, MemoryMap, RegionsAt, Early, CliFits
  <2> QED
    BY <2>1, <2>2 DEF BootInv
<1>4. VcpuNext => UNCHANGED boot \/ step' = "ended"
  BY DEF VcpuNext, VcpuLock, VcpuRecord, Eintr, RegsUnread, GuestStep, KvmError, Quit, IoExit,
         MmioExit, OtherExit, ShutdownExit, Exit
<1>5. MaintNext \/ ExportNext \/ ApiNext \/ Tick => UNCHANGED boot
  BY DEF MaintNext, MaintWake, MaintLock, MaintRecord, MaintConsolidate, Tick, ExportNext,
         ExportLoad, ExportWake, ExportLock, ExportDrain, PushAttempt, ExportSave, ApiNext,
         ApiBind, ApiAccept, ApiRequest, ApiLock, ApiSend, ClientReads
<1>6. Run => step' \in {"running", "failed"}
  BY DEF Run, fail
<1> QED
  BY <1>1, <1>2, <1>3, <1>4, <1>5, <1>6 DEF VmmNext, vars

(* The places of the regions, in the order of their addresses.             *)
LEMMA PlacesApart ==
  ASSUME CliFits, KernelEnd <= mem_size, step = "ready",
         NEW a \in DOMAIN Place, a = "initramfs" => cli.initramfs # None /\ AfterKernel < mem_size
  PROVE  /\ \E e \in MemoryMap : Within(Place[a], e)
         /\ a # "initramfs" => Within(Place[a], Mapped)
         /\ Disjoint(Place[a], <<BOOT_PARAMS_ADDR + Page, BOOT_STACK_ADDR>>)
         /\ \A b \in DOMAIN Place :
              (a # b /\ (b = "initramfs" => cli.initramfs # None /\ AfterKernel < mem_size)) =>
                Disjoint(Place[a], Place[b])
<1> DEFINE image == Written(AfterKernel, cli.initramfs)
<1>1. /\ mem_size \in Nat /\ KernelEnd \in Nat /\ AfterKernel \in Nat
      /\ KernelEnd <= AfterKernel /\ KernelEnd > HIMEM_START /\ KernelEnd <= 67108864
      /\ cli.cmdline \in Nat /\ CMDLINE_ADDR + cli.cmdline + 1 <= \h9FC0
  BY AfterKernelFacts DEF CliFits, KernelEnd, HIMEM_START, MiB, CMDLINE_ADDR
<1>2. (cli.initramfs # None /\ AfterKernel < mem_size) =>
        image[1] = AfterKernel /\ image[2] \in AfterKernel .. mem_size
  BY <1>1 DEF Written, CliFits
<1>3. /\ Place["kernel"] = <<HIMEM_START, KernelEnd>>
      /\ Place["initramfs"] = image
      /\ Place["cmdline"] = <<CMDLINE_ADDR, CMDLINE_ADDR + cli.cmdline + 1>>
      /\ Place["boot_params"] = <<BOOT_PARAMS_ADDR, BOOT_PARAMS_ADDR + Page>>
      /\ Place["pml4"] = <<PML4_ADDR, PML4_ADDR + Page>>
      /\ Place["pdpt"] = <<PDPT_ADDR, PDPT_ADDR + Page>>
      /\ Place["pd"] = <<PD_ADDR, PD_ADDR + Page>>
      /\ Place["gdt"] = <<GDT_ADDR, GDT_ADDR + 2>>
      /\ DOMAIN Place = {"kernel", "initramfs", "cmdline", "boot_params", "pml4", "pdpt", "pd", "gdt"}
  BY DEF Place
<1> HIDE DEF image
<1> USE DEF HIMEM_START, CMDLINE_ADDR, BOOT_PARAMS_ADDR, PML4_ADDR, PDPT_ADDR, PD_ADDR, GDT_ADDR,
            BOOT_STACK_ADDR, Page
<1>4. \E e \in MemoryMap : Within(Place[a], e)
  <2>1. CASE a \in {"kernel", "initramfs"}
    <3>1. Within(Place[a], <<HIMEM_START, mem_size>>)
      BY <1>1, <1>2, <1>3, <2>1 DEF Within
    <3> QED
      BY <3>1 DEF MemoryMap
  <2>2. CASE a \notin {"kernel", "initramfs"}
    <3>1. Within(Place[a], <<0, \h9FC0>>)
      BY <1>1, <1>3, <2>2 DEF Within
    <3> QED
      BY <3>1 DEF MemoryMap
  <2> QED
    BY <2>1, <2>2
<1>5. a # "initramfs" => Within(Place[a], Mapped)
  BY <1>1, <1>3 DEF Within, Mapped, MiB
<1>6. Disjoint(Place[a], <<BOOT_PARAMS_ADDR + Page, BOOT_STACK_ADDR>>)
  BY <1>1, <1>2, <1>3 DEF Disjoint
<1>7. ASSUME NEW b \in DOMAIN Place, a # b,
             b = "initramfs" => cli.initramfs # None /\ AfterKernel < mem_size
      PROVE  Disjoint(Place[a], Place[b])
  BY <1>1, <1>2, <1>3, <1>7 DEF Disjoint
<1> QED
  BY <1>4, <1>5, <1>6, <1>7

(* When the guest is started its memory is as BootImageIntact says, for    *)
(* every memory, kernel, initramfs and command line of a size the layout   *)
(* of vmm.rs is meant for (SizesFit): Vmm::new, setup_boot_params,         *)
(* setup_page_tables and load_initramfs put no region over another.        *)
THEOREM BootLayoutSound == SizesFit /\ VmmSpec => []BootImageIntact
<1>1. BootInv => BootImageIntact
  <2> SUFFICES ASSUME BootInv, step = "ready" PROVE BootImageIntact
    BY DEF BootImageIntact
  <2>1. /\ CliFits /\ KernelEnd <= mem_size
        /\ DOMAIN ram = {"kernel", "cmdline", "boot_params", "pml4", "pdpt", "pd", "gdt"}
                          \cup (IF cli.initramfs = None THEN {} ELSE {"initramfs"})
        /\ \A r \in DOMAIN ram : ram[r] = Place[r]
    BY DEF BootInv, RegionsAt, Early
  <2>2. /\ "initramfs" \in DOMAIN ram =>
             /\ cli.initramfs # None /\ AfterKernel < mem_size
             /\ params.ramdisk_image = AfterKernel /\ params.ramdisk_size = cli.initramfs
        /\ params.e820_ram = MemoryMap
        /\ regs = [cr3 |-> PML4_ADDR, gdt |-> GDT_ADDR, rip |-> HIMEM_START + \h20,
                   rsp |-> BOOT_STACK_ADDR, rsi |-> BOOT_PARAMS_ADDR]
    BY <2>1 DEF BootInv
  <2>3. DOMAIN ram \subseteq DOMAIN Place
    BY <2>1 DEF Place
  <2>4. /\ \A a, b \in DOMAIN ram : a # b => Disjoint(ram[a], ram[b])
        /\ \A a \in DOMAIN ram : \E e \in params.e820_ram : Within(ram[a], e)
        /\ \A a \in DOMAIN ram \ {"initramfs"} : Within(ram[a], Mapped)
        /\ \A a \in DOMAIN ram : Disjoint(ram[a], <<BOOT_PARAMS_ADDR + Page, BOOT_STACK_ADDR>>)
    BY <2>1, <2>2, <2>3, PlacesApart
  <2>5. /\ ram["kernel"] = <<HIMEM_START, KernelEnd>>
        /\ ram["pml4"] = <<PML4_ADDR, PML4_ADDR + Page>>
        /\ ram["gdt"] = <<GDT_ADDR, GDT_ADDR + 2>>
        /\ ram["boot_params"] = <<BOOT_PARAMS_ADDR, BOOT_PARAMS_ADDR + Page>>
        /\ "initramfs" \in DOMAIN ram => ram["initramfs"] = Written(AfterKernel, cli.initramfs)
    BY <2>1 DEF Place
  <2>6. regs.rip \in ram["kernel"][1] .. ram["kernel"][2] - 1
    BY <2>1, <2>2, <2>5, AfterKernelFacts DEF KernelEnd, HIMEM_START, CliFits
  <2>7. LET image == params.ramdisk_image
            named == <<image, image + params.ramdisk_size>>
        IN  ("initramfs" \in DOMAIN ram /\ named[2] <= mem_size) => named = ram["initramfs"]
    BY <2>1, <2>2, <2>5, AfterKernelFacts DEF Written, CliFits
  <2> QED
    BY <2>2, <2>4, <2>5, <2>6, <2>7 DEF BootImageIntact
<1>2. SizesFit /\ VmmInit => BootInv
  BY BootInvInit DEF VmmInit
<1> QED
  BY <1>1, <1>2, BootInvVmm, PTL DEF VmmSpec
=============================================================================
