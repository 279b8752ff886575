-------------------------------- MODULE Boot --------------------------------
(***************************************************************************)
(* The demo VMM up to the first instruction of the guest (Vmm::new of      *)
(* vmm.rs with the setup functions of vcpu.rs): what is written where into *)
(* guest memory, and the registers the vCPU starts with.                   *)
(*                                                                         *)
(* Addresses and sizes are in units of 16 bytes, rounded up.  Of what is   *)
(* written only the place is kept.  Every step may fail, which ends the    *)
(* program (run_vmm, main).                                                *)
(***************************************************************************)
EXTENDS Integers, FiniteSets

CONSTANTS
  Memories,     \* --memory-mib
  Kernels,      \* sizes of the kernel image
  Initramfses,  \* sizes of the initramfs; None is no initramfs
  Cmdlines,     \* sizes of the command line
  None

ASSUME BootAssumption ==
  /\ Memories \subseteq Nat /\ Kernels \subseteq Nat \ {0}
  /\ Initramfses \subseteq Nat \cup {None} /\ Cmdlines \subseteq Nat
  /\ None \notin Nat

VARIABLES
  step,     \* the step of Vmm::new that comes next, "ready", or "failed"
  cli,      \* the command line options
  ram,      \* region -> <<first, end>>, what has been written so far
  params,   \* the fields of boot_params that describe memory
  regs      \* the registers of the vCPU

boot == <<step, cli, ram, params, regs>>

MiB == \h10000
FourGiB == \h10000000   \* where 32-bit addresses and lengths wrap
Page == 256

BOOT_PARAMS_ADDR == \h700
CMDLINE_ADDR     == \h2000
HIMEM_START      == \h10000
GDT_ADDR         == \h50
BOOT_STACK_ADDR  == \h8FF
PML4_ADDR        == \h900
PDPT_ADDR        == \hA00
PD_ADDR          == \hB00

(* CMDLINE_PARAM of block.rs, "virtio_mmio.device=...", and a space.       *)
DiskParam == 3

Empty == [r \in {} |-> 0]

(* f with the fields of the record r, which come first.                    *)
With(r, f) == [x \in DOMAIN r \cup DOMAIN f |-> IF x \in DOMAIN r THEN r[x] ELSE f[x]]

VmmConfig == [memory_mib : Memories, kernel : Kernels, initramfs : Initramfses,
              cmdline : Cmdlines, disk : BOOLEAN, remote_write : BOOLEAN]

BootInit ==
  /\ step = "create"
  /\ cli \in VmmConfig
  /\ ram = Empty /\ params = Empty /\ regs = Empty

mem_size == cli.memory_mib * MiB

(* External, vm-memory.  write accepts any address inside memory and drops *)
(* what does not fit behind it; write_obj accepts what fits.               *)
Accepts(addr) == addr < mem_size
Written(addr, size) == <<addr, IF addr + size > mem_size THEN mem_size ELSE addr + size>>

(* write_obj accepts what fits.                                            *)
Holds(addr, size) == addr + size <= mem_size

fail == step' = "failed" /\ UNCHANGED <<cli, ram, params, regs>>

(* The part of Vmm::new before the kernel is loaded: KVM, the VM, its      *)
(* memory from address 0, the interrupt chip and the vCPU with its CPUID.  *)
(* The announcement of a disk has been added to the command line.          *)
CreateVm ==
  /\ step = "create"
  /\ \/ /\ mem_size > 0
        /\ step' = "kernel"
        /\ cli' = [cli EXCEPT !.cmdline = IF cli.disk THEN @ + DiskParam ELSE @]
        /\ UNCHANGED <<ram, params, regs>>
     \/ fail

(* BzImage::load is external: the image goes to HIMEM_START if it fits.    *)
LoadKernel ==
  /\ step = "kernel"
  /\ \/ /\ Holds(HIMEM_START, cli.kernel)
        /\ step' = "initramfs"
        /\ ram' = [kernel |-> <<HIMEM_START, HIMEM_START + cli.kernel>>]
        /\ UNCHANGED <<cli, params, regs>>
     \/ fail

(* Mutant of AboveKernel: rounded down.                                    *)
BelowKernelEnd == (ram["kernel"][2] \div Page) * Page

(* The first page boundary at or above kernel_end.                         *)
AboveKernel == ((ram["kernel"][2] + Page - 1) \div Page) * Page

(* load_initramfs.  Its address and length are cut to 32 bits, and a part  *)
(* that does not fit into memory is dropped without an error.              *)
load_initramfs ==
  /\ step = "initramfs"
  /\ \/ /\ IF cli.initramfs = None
             THEN UNCHANGED <<ram, params>>
             ELSE /\ Accepts(AboveKernel)
                  /\ ram' = With([initramfs |-> Written(AboveKernel, cli.initramfs)], ram)
                  /\ params' = [ramdisk_image |-> AboveKernel % FourGiB,
                                ramdisk_size  |-> cli.initramfs % FourGiB]
        /\ step' = "params"
        /\ UNCHANGED <<cli, regs>>
     \/ fail

(* The entries of type 1 of the memory map, which are usable RAM.          *)
MemoryMap == {<<0, \h9FC0>>, <<HIMEM_START, mem_size>>}

(* setup_boot_params: the command line with its NUL, the zero page and the *)
(* memory map.                                                             *)
setup_boot_params ==
  /\ step = "params"
  /\ \/ /\ Accepts(CMDLINE_ADDR + cli.cmdline)
        /\ step' = "tables"
        /\ ram' = With([cmdline     |-> <<CMDLINE_ADDR, CMDLINE_ADDR + cli.cmdline + 1>>,
                       boot_params |-> Written(BOOT_PARAMS_ADDR, Page)], ram)
        /\ params' = With([cmd_line_ptr |-> CMDLINE_ADDR,
                          e820_ram |-> MemoryMap], params)
        /\ UNCHANGED <<cli, regs>>
     \/ fail

(* setup_page_tables and setup_gdt: one entry of the PML4 and one of the   *)
(* PDPT, 512 entries that map the first GiB to itself, three descriptors.  *)
SetupTables ==
  /\ step = "tables"
  /\ \/ /\ Holds(PD_ADDR, Page)
        /\ step' = "vcpu"
        /\ ram' = With([pml4 |-> <<PML4_ADDR, PML4_ADDR + Page>>,
                       pdpt |-> <<PDPT_ADDR, PDPT_ADDR + Page>>,
                       pd   |-> <<PD_ADDR, PD_ADDR + Page>>,
                       gdt  |-> <<GDT_ADDR, GDT_ADDR + 2>>], ram)
        /\ UNCHANGED <<cli, params, regs>>
     \/ fail

(* setup_sregs, setup_regs and setup_fpu.  The entry point is 0x200 above  *)
(* the start of the kernel.                                                *)
SetupVcpu ==
  /\ step = "vcpu"
  /\ \/ /\ step' = "metrics"
        /\ regs' = [cr3 |-> PML4_ADDR, gdt |-> GDT_ADDR, rip |-> ram["kernel"][1] + \h20,
                    rsp |-> BOOT_STACK_ADDR, rsi |-> BOOT_PARAMS_ADDR]
        /\ UNCHANGED <<cli, ram, params>>
     \/ fail

(* VmMetrics::open: a store with one schema that takes every label, and    *)
(* the sixteen series the VMM records (see ConfiguredStore).               *)
OpenMetrics ==
  /\ step = "metrics"
  /\ \/ step' = "disk" /\ UNCHANGED <<cli, ram, params, regs>>
     \/ fail

(* VirtioBlock::new, if there is a disk.                                   *)
OpenDisk ==
  /\ step = "disk"
  /\ \/ step' = "ready" /\ UNCHANGED <<cli, ram, params, regs>>
     \/ cli.disk /\ fail

BootNext == CreateVm \/ LoadKernel \/ load_initramfs \/ setup_boot_params
            \/ SetupTables \/ SetupVcpu \/ OpenMetrics \/ OpenDisk

-----------------------------------------------------------------------------
(* Properties.                                                             *)

Disjoint(a, b) == a[2] <= b[1] \/ b[2] <= a[1]
Within(a, b)   == b[1] <= a[1] /\ a[2] <= b[2]

(* What the page tables map.                                               *)
Mapped == <<0, 512 * 2 * MiB>>

(* The sizes for which the boot layout is meant: memory of at most the     *)
(* 4 GiB that a 32-bit ramdisk_image can name, a kernel that reaches past  *)
(* its 64-bit entry point and ends inside the first GiB that               *)
(* setup_page_tables maps, an initramfs whose size fits ramdisk_size, and  *)
(* a command line that ends below 0x9FC00, where the low entry of the      *)
(* memory map ends.  Nothing in Vmm::new checks them.                      *)
SizesFit ==
  /\ \A m \in Memories : m <= 4096
  /\ \A k \in Kernels : k > \h20 /\ HIMEM_START + k <= 512 * 2 * MiB
  /\ \A i \in Initramfses \ {None} : i < FourGiB
  /\ \A c \in Cmdlines : CMDLINE_ADDR + c + DiskParam + 1 <= \h9FC0

(* When the guest is started, no region of its memory has been written     *)
(* over by a later one, whatever the sizes of kernel, initramfs and        *)
(* command line; each lies in RAM the memory map offers; the registers     *)
(* point at the regions they are meant for, all of them mapped; the boot   *)
(* stack has room above the zero page; and the boot parameters name the    *)
(* initramfs as it was written, unless it does not fit into memory         *)
(* (Vmm::new).                                                             *)
BootImageIntact ==
  step = "ready" =>
    /\ \A a, b \in DOMAIN ram : a # b => Disjoint(ram[a], ram[b])
    /\ \A a \in DOMAIN ram : \E e \in params.e820_ram : Within(ram[a], e)
    /\ \A a \in DOMAIN ram \ {"initramfs"} : Within(ram[a], Mapped)
    /\ regs.rip \in ram["kernel"][1] .. ram["kernel"][2] - 1
    /\ regs.cr3 = ram["pml4"][1] /\ regs.gdt = ram["gdt"][1] /\ regs.rsi = ram["boot_params"][1]
    /\ \A a \in DOMAIN ram : Disjoint(ram[a], <<ram["boot_params"][2], regs.rsp>>)
    /\ LET image == params.ramdisk_image
           named == <<image, image + params.ramdisk_size>>
       IN  ("initramfs" \in DOMAIN ram /\ named[2] <= mem_size) => named = ram["initramfs"]
=============================================================================
