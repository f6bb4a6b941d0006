------------------------------ MODULE KernelMemory ------------------------------
(***************************************************************************)
(* memory_init of kernel/main.c: the page allocator and the kernel heap    *)
(* are set up over the same physical memory.  The heap either takes        *)
(* everything from _heap_start to 1 MB below the end of memory, or, when   *)
(* that is 512 MB or more, only the 8 MB the linker script gives it.       *)
(* All addresses are in pages; the memory map is one available region.     *)
(***************************************************************************)
EXTENDS PmmScan

CONSTANTS LowPages,     \* the first 1 MB
          HeapStart,    \* _heap_start, inside the kernel image
          KernelEnd,    \* _heap_end = _kernel_phys_end
          TopReserve,   \* the 1 MB memory_init leaves at the top
          HeapLimit     \* 512 MB

ASSUME KernelMemoryAssumption ==
    /\ LowPages \in Nat /\ HeapStart \in Nat /\ KernelEnd \in Nat
    /\ LowPages <= HeapStart /\ HeapStart < KernelEnd /\ KernelEnd <= TotalPages
    /\ TopReserve \in Nat /\ HeapLimit \in Nat

(* The areas pmm_init takes back: the first 1 MB and the kernel image,     *)
(* which holds the bitmap.                                                  *)
Reserved_TextOnly == 0..HeapStart - 1

Reserved == 0..KernelEnd - 1

BootInit == InitWith(Page, Reserved)

(* The region malloc_init is given; the size is unsigned, so a heap that   *)
(* would end below its start is over the limit.                            *)
HeapPages ==
    LET size == TotalPages - TopReserve - HeapStart
    IN IF 0 < size /\ size < HeapLimit
       THEN HeapStart..HeapStart + size - 1
       ELSE HeapStart..KernelEnd - 1

BootSpec == BootInit /\ [][Next]_vars

-----------------------------------------------------------------------------
(* No page of the kernel heap is ever handed out by the page allocator,    *)
(* whose callers overwrite what they get (pmm.c:52, main.c:125-139).        *)
HeapUntouched == [][returned' \cap HeapPages = {}]_vars

=============================================================================
