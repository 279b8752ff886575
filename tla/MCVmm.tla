------------------------------- MODULE MCVmm -------------------------------
(* Kernels that end inside a page and on a page boundary, an initramfs     *)
(* that fills memory to its last page, one larger than memory, and a       *)
(* memory that ends below, at and far above the kernel's place.            *)
EXTENDS Vmm

ASSUME InstanceFits == SizesFit

SomeMemories    == {0, 1, 2, 128, 4096}
SomeKernels     == {\h100, \h1234, \h1300, \h40000}
SomeInitramfses == {None, 0, 1, MiB - \h1300, \h1300000}
SomeCmdlines    == {0, 1, \h2000}
=============================================================================
