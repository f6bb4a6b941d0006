------------------------------- MODULE Paging -------------------------------
(***************************************************************************)
(* The kernel's page tables (kernel/paging.c) under the growth of the heap *)
(* (heap_expand of kernel/mm/heap.c) and the page allocator's other users. *)
(*                                                                         *)
(* boot32.asm maps all memory onto itself with large pages: entries of the *)
(* third level that cover ENTRIES frames each.  A frame holds ENTRIES      *)
(* words, and a table is a frame like any other.  Addresses are page       *)
(* numbers, the same for a frame and for its own virtual page.             *)
(***************************************************************************)
EXTENDS Integers, FiniteSets, FiniteSetsExt

CONSTANTS
    ENTRIES,     \* entries of a table, 512 in the code
    Memory,      \* frames of the machine
    HeapFirst,   \* _heap_start
    HeapLast,    \* the last page of the heap malloc_init is given
    MaxPages,    \* bound on the pages of a growth
    MaxGrowths   \* bound on the growths of the heap

\* The bitmap of pmm.c covers 512 GB, all in the first half of the tables.  link.ld puts
\* the tables (.data) before the heap, with the bitmap's 64 MB of .bss, many large pages,
\* between them.
ASSUME PagingAssumption ==
    /\ ENTRIES \in Nat /\ ENTRIES >= 2
    /\ HeapFirst \in Nat /\ HeapLast \in Nat /\ HeapFirst <= HeapLast
    /\ Memory \in Nat /\ HeapLast < Memory /\ Memory <= ENTRIES * ENTRIES * ENTRIES
    /\ 2 + (2 * ENTRIES) < HeapFirst /\ 3 * ENTRIES < HeapLast
    /\ MaxPages \in Nat \ {0}

VARIABLES
    mem,         \* frame -> index -> word
    free_frames, \* frames pmm_alloc_page may hand out
    heap_end,    \* heap_end_virt
    backing,     \* frames allocated for the growth of the heap
    granted,     \* frames the page allocator's other users hold
    growths

pagingVars == <<mem, free_frames, heap_end, backing, granted, growths>>

PhysFrames == 0..(Memory - 1)
TableIndex == 0..(ENTRIES - 1)
NotPresent == [present |-> FALSE, huge |-> FALSE, frame |-> 0]
Points(frame) == [present |-> TRUE, huge |-> FALSE, frame |-> frame]
Large(frame) == [present |-> TRUE, huge |-> TRUE, frame |-> frame]

\* PML4_INDEX is PageIndex(3, v), PT_INDEX is PageIndex(0, v).
PageIndex(level, v) ==
    (v \div (CASE level = 3 -> ENTRIES * ENTRIES * ENTRIES [] level = 2 -> ENTRIES * ENTRIES
               [] level = 1 -> ENTRIES [] level = 0 -> 1)) % ENTRIES

\* pml4_table in frame 0 with its two entries, pdp_table0 and pdp_table1, then pd_tables0
\* and pd_tables1, of large pages.  The second half starts at 128 GB, a quarter of the
\* 512 GB of the first.
Pdpt(half) == 1 + half
Pd(half, j) == 3 + (half * ENTRIES) + j
TableFrames == 0..(2 + (2 * ENTRIES))
Base(half) == half * ENTRIES * ((ENTRIES * ENTRIES) \div 4)
boot_tables ==
    [f \in PhysFrames |-> [n \in TableIndex |->
        IF f = 0 THEN (IF n < 2 THEN Points(Pdpt(n)) ELSE NotPresent)
        ELSE IF f \in {Pdpt(0), Pdpt(1)} THEN Points(Pd(f - 1, n))
        ELSE IF f \in TableFrames
        THEN LET half == (f - 3) \div ENTRIES
                 j == (f - 3) % ENTRIES
             IN  Large(Base(half) + (((j * ENTRIES) + n) * ENTRIES))
        ELSE NotPresent]]

PagingInit ==
    /\ mem = boot_tables
    /\ free_frames = PhysFrames \ (TableFrames \cup 0..HeapLast)
    /\ heap_end = HeapLast + 1
    /\ backing = {} /\ granted = {} /\ growths = 0

-----------------------------------------------------------------------------
\* One level of the walk, on the memory and free frames s: an entry that is present is
\* followed, whatever its size bit says; a missing table is allocated.
get_next_level_Fresh(s, table, i) ==
    [mem |-> [s.mem EXCEPT ![Min(s.free_frames)] = [n \in TableIndex |-> NotPresent],
                           ![table][i] = Points(Min(s.free_frames))],
     free_frames |-> s.free_frames \ {Min(s.free_frames)}, next |-> Min(s.free_frames)]
get_next_level(s, table, i) ==
    IF s.mem[table][i].present THEN [s EXCEPT !.next = s.mem[table][i].frame]
    ELSE LET new == Min(s.free_frames)
         IN  [mem |-> [s.mem EXCEPT ![new] = [n \in TableIndex |-> NotPresent], ![table][i] = Points(new)],
              free_frames |-> s.free_frames \ {new}, next |-> new]

paging_map_page(s, v, frame) ==
    LET pdpt == get_next_level(s, 0, PageIndex(3, v))
        pdir == get_next_level(pdpt, pdpt.next, PageIndex(2, v))
        ptbl == get_next_level(pdir, pdir.next, PageIndex(1, v))
    IN  [ptbl EXCEPT !.mem[ptbl.next][PageIndex(0, v)] = Points(frame)]

\* The loop of heap_expand, over n pages from page v and frame phys.
MapRun(s, v, phys, n) ==
    LET mapped[i \in 0..n] ==
            IF i = 0 THEN s ELSE paging_map_page(mapped[i - 1], v + i - 1, phys + i - 1)
    IN  mapped[n]

\* The first of the runs of n free frames, and the memory once it is taken and cleared.
FreeRuns(n) == {f \in free_frames : f..(f + n - 1) \subseteq free_frames}
pmm_alloc_range(run) ==
    [mem |-> [f \in PhysFrames |-> IF f \in run THEN [n \in TableIndex |-> NotPresent] ELSE mem[f]],
     free_frames |-> free_frames \ run, next |-> 0]

heap_expand(n) ==
    /\ growths < MaxGrowths /\ heap_end + n - 1 \in PhysFrames
    /\ growths' = growths + 1
    /\ IF FreeRuns(n) = {} THEN UNCHANGED <<mem, free_frames, heap_end, backing>>
       ELSE LET phys == Min(FreeRuns(n))
                run == phys..(phys + n - 1)
            IN  \E s \in {MapRun(pmm_alloc_range(run), heap_end, phys, n)} :
                    /\ mem' = s.mem /\ free_frames' = s.free_frames
                    /\ heap_end' = heap_end + n
                    /\ backing' = backing \cup run
    /\ UNCHANGED granted

\* Another user of the page allocator.
pmm_alloc_page ==
    /\ free_frames # {}
    /\ granted' = granted \cup {Min(free_frames)} /\ free_frames' = free_frames \ {Min(free_frames)}
    /\ UNCHANGED <<mem, heap_end, backing, growths>>

pmm_free_page ==
    /\ \E f \in granted : granted' = granted \ {f} /\ free_frames' = free_frames \cup {f}
    /\ UNCHANGED <<mem, heap_end, backing, growths>>

PagingNext == (\E n \in 1..MaxPages : heap_expand(n)) \/ pmm_alloc_page \/ pmm_free_page
PagingSpec == PagingInit /\ [][PagingNext]_pagingVars
-----------------------------------------------------------------------------
\* The frame the processor reaches: a large page ends the walk one level early.
Translate(v) ==
    LET pdpt == mem[0][PageIndex(3, v)].frame
        pdir == mem[pdpt][PageIndex(2, v)].frame
        pde == mem[pdir][PageIndex(1, v)]
    IN  IF pde.huge THEN pde.frame + PageIndex(0, v) ELSE mem[pde.frame][PageIndex(0, v)].frame

\* The pages heap_expand adds lie in frames allocated for them: "Allocate physical pages",
\* "Identity mapping (virtual = physical)", "Map pages" (kernel/mm/heap.c).
GrowthIsBacked == \A v \in (HeapLast + 1)..(heap_end - 1) : Translate(v) \in backing

\* Growing the heap changes no translation: the kernel runs on tables that map its memory
\* onto itself, and an entry written into the heap's own frames is not one of them.
IdentityKept == \A v \in PhysFrames : Translate(v) = v
=============================================================================
