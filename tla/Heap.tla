--------------------------------- MODULE Heap ----------------------------------
(***************************************************************************)
(* The kernel heap of kernel/mm/heap.c: first-fit allocation from a        *)
(* doubly linked list of blocks, each a header followed by its payload,    *)
(* with splitting, coalescing and growth by whole pages.  A block is named *)
(* by the address of its header.  Sizes are in small units: Align and      *)
(* Header stand for 8 and 40 bytes.                                        *)
(***************************************************************************)
EXTENDS Integers, FiniteSets, FiniteSetsExt

CONSTANTS Align, Header, PageSize,
          StartSize,    \* heap_size given to malloc_init
          MaxHeap,      \* HEAP_MAX_SIZE
          Sizes,        \* sizes callers request
          Alignments,   \* alignments callers of malloc_aligned request
          PtrSize,      \* sizeof(void*), which malloc_aligned stores
          NULL

ASSUME HeapAssumption ==
    /\ Align \in Nat \ {0} /\ PageSize \in Nat \ {0} /\ PtrSize \in Nat
    /\ Header \in Nat \ {0} /\ Header % Align = 0
    /\ StartSize \in Nat /\ StartSize >= Header /\ StartSize % Align = 0
    /\ Sizes \subseteq Nat /\ Alignments \subseteq Nat \ {0}
    /\ MaxHeap \in Nat /\ StartSize <= MaxHeap
    /\ NULL \notin Nat

VARIABLES hdr,          \* the headers in the list: address -> fields
          heap_tail,
          heap_end,     \* heap_end_virt; the heap starts at address 0
          owned,        \* what callers hold: header -> [size, aligned]
          panicked

heapVars == <<hdr, heap_tail, heap_end, owned, panicked>>

Block == [size : Nat, free : BOOLEAN, prev : Nat \cup {NULL}, next : Nat \cup {NULL}]

HeapTypeOK ==
    /\ DOMAIN hdr \subseteq 0..MaxHeap /\ \A h \in DOMAIN hdr : hdr[h] \in Block
    /\ heap_tail \in Nat
    /\ heap_end \in 0..MaxHeap
    /\ DOMAIN owned \subseteq Nat
    /\ panicked \in BOOLEAN

AlignUp(n) == ((n + Align - 1) \div Align) * Align
MinSplit == Header + Align

(* A heap is the record of the three globals; operations map heaps to heaps. *)
Globals == [hdr |-> hdr, tail |-> heap_tail, end |-> heap_end]
Put(f, a, v) == [x \in DOMAIN f \cup {a} |-> IF x = a THEN v ELSE f[x]]
Drop(f, a) == [x \in DOMAIN f \ {a} |-> f[x]]
SetPrev(f, a, p) == IF a = NULL THEN f ELSE [f EXCEPT ![a].prev = p]
SetNext(f, a, n) == IF a = NULL THEN f ELSE [f EXCEPT ![a].next = n]

-----------------------------------------------------------------------------
(* malloc_init *)
HeapInit ==
    /\ hdr = [h \in {0} |-> [size |-> StartSize - Header, free |-> TRUE,
                             prev |-> NULL, next |-> NULL]]
    /\ heap_tail = 0
    /\ heap_end = StartSize
    /\ owned = <<>>
    /\ panicked = FALSE

(* find_fit: the blocks are linked in address order, so the first is the lowest. *)
Fits(H, n) == {h \in DOMAIN H.hdr : H.hdr[h].free /\ H.hdr[h].size >= n}
FindFit(H, n) == Min(Fits(H, n))

(* split_block *)
SplitBlock(H, h, n) ==
    LET b == H.hdr[h]
        new == h + Header + n
        rest == [size |-> b.size - n - Header, free |-> TRUE,
                 prev |-> h, next |-> b.next]
    IN IF b.size < n + MinSplit THEN H
       ELSE [H EXCEPT
               !.hdr = Put([SetPrev(H.hdr, b.next, new) EXCEPT
                              ![h].size = n, ![h].next = new], new, rest),
               !.tail = IF H.tail = h THEN new ELSE H.tail]

(* coalesce: h absorbs its successor, then its predecessor absorbs h. *)
Absorb(H, h) ==
    LET n == H.hdr[h].next
    IN [H EXCEPT
          !.hdr = Drop([SetPrev(H.hdr, H.hdr[n].next, h) EXCEPT
                          ![h].size = @ + Header + H.hdr[n].size,
                          ![h].next = H.hdr[n].next], n),
          !.tail = IF H.tail = n THEN h ELSE H.tail]

Coalesce_AnyNext(H, h) ==
    LET n == H.hdr[h].next
        p == H.hdr[h].prev
        K == IF n # NULL THEN Absorb(H, h) ELSE H
    IN IF p # NULL /\ K.hdr[p].free THEN Absorb(K, p) ELSE K

Coalesce(H, h) ==
    LET n == H.hdr[h].next
        p == H.hdr[h].prev
        K == IF n # NULL /\ H.hdr[n].free THEN Absorb(H, h) ELSE H
    IN IF p # NULL /\ K.hdr[p].free THEN Absorb(K, p) ELSE K

(* heap_expand: whole pages at heap_end, linked as a free block after the tail. *)
ExpandSize(n) == ((AlignUp(n + Header) + PageSize - 1) \div PageSize) * PageSize

Expand(H, n) ==
    LET new == H.end
        block == [size |-> ExpandSize(n) - Header, free |-> TRUE,
                  prev |-> H.tail, next |-> NULL]
    IN [hdr |-> Put(SetNext(H.hdr, H.tail, new), new, block),
        tail |-> new, end |-> H.end + ExpandSize(n)]

CanExpand(H, n) == H.end + ExpandSize(n) <= MaxHeap

(* The block malloc takes, split and marked. *)
Take(H, n) ==
    LET h == FindFit(H, n)
    IN [heap |-> [SplitBlock(H, h, n) EXCEPT !.hdr[h].free = FALSE], at |-> h]

(* malloc of an aligned size, from the heap as it is or after one          *)
(* expansion, which works when the page allocator has the pages.           *)
Malloc(n) ==
    IF Fits(Globals, n) # {} THEN Take(Globals, n) ELSE Take(Expand(Globals, n), n)

MallocWorks(n, pages) == Fits(Globals, n) # {} \/ (pages /\ CanExpand(Globals, n))

Release(H, h) == Coalesce([H EXCEPT !.hdr[h].free = TRUE], h)

Become(H) == hdr' = H.hdr /\ heap_tail' = H.tail /\ heap_end' = H.end

(* panic: the machine stops. *)
Panic == panicked' = TRUE /\ UNCHANGED <<hdr, heap_tail, heap_end, owned>>

-----------------------------------------------------------------------------
(* malloc; calloc is malloc of the product followed by a fill. *)
MallocCall(n, pages) ==
    /\ n > 0 /\ MallocWorks(AlignUp(n), pages)
    /\ LET r == Malloc(AlignUp(n))
       IN Become(r.heap) /\ owned' = Put(owned, r.at, [size |-> n, aligned |-> NULL])
    /\ UNCHANGED panicked

MallocPanics(n, pages) == n > 0 /\ ~MallocWorks(AlignUp(n), pages) /\ Panic

(* malloc_aligned: room for the pointer and for the alignment; the caller  *)
(* gets the aligned address, the original one is stored before it.         *)
AlignedSize(n, a) == n + a - 1 + PtrSize

AlignTo(x, a) == ((x + a - 1) \div a) * a

AlignedCall(n, a, pages) ==
    LET total == AlignUp(AlignedSize(n, a))
    IN /\ MallocWorks(total, pages)
       /\ LET r == Malloc(total)
          IN /\ Become(r.heap)
             /\ owned' = Put(owned, r.at,
                   [size |-> n, aligned |-> AlignTo(r.at + Header + PtrSize, a)])
       /\ UNCHANGED panicked

AlignedPanics(n, a, pages) ==
    ~MallocWorks(AlignUp(AlignedSize(n, a)), pages) /\ Panic

(* free and free_aligned, of a pointer the caller holds. *)
FreeCall(h) ==
    /\ Become(Release(Globals, h))
    /\ owned' = Drop(owned, h)
    /\ UNCHANGED panicked

(* realloc: shrink in place, or move to a new block and free the old one. *)
ReallocShrinks(h, n) ==
    /\ n > 0 /\ AlignUp(n) <= hdr[h].size
    /\ Become(SplitBlock(Globals, h, AlignUp(n)))
    /\ owned' = [owned EXCEPT ![h].size = n]
    /\ UNCHANGED panicked

ReallocMoves(h, n, pages) ==
    /\ AlignUp(n) > hdr[h].size /\ MallocWorks(AlignUp(n), pages)
    /\ LET r == Malloc(AlignUp(n))
       IN /\ Become(Release(r.heap, h))
          /\ owned' = Put(Drop(owned, h), r.at, [size |-> n, aligned |-> NULL])
    /\ UNCHANGED panicked

ReallocPanics(h, n, pages) ==
    AlignUp(n) > hdr[h].size /\ ~MallocWorks(AlignUp(n), pages) /\ Panic

Plain == {h \in DOMAIN owned : owned[h].aligned = NULL}

HeapNext ==
    /\ ~panicked
    /\ \/ \E h \in DOMAIN owned : FreeCall(h)
       \/ \E n \in Sizes :
             \/ \E h \in Plain : ReallocShrinks(h, n)
             \/ \E pages \in BOOLEAN :
                   \/ MallocCall(n, pages)
                   \/ MallocPanics(n, pages)
                   \/ \E h \in Plain : ReallocMoves(h, n, pages) \/ ReallocPanics(h, n, pages)
                   \/ \E a \in Alignments :
                         AlignedCall(n, a, pages) \/ AlignedPanics(n, a, pages)

HeapSpec == HeapInit /\ [][HeapNext]_heapVars

-----------------------------------------------------------------------------
(* The list tiles the heap: every block ends where its successor starts    *)
(* and the last one at heap_end, prev undoes next, and heap_tail is the    *)
(* last block.  After any mix of splits, merges and growth no byte is lost *)
(* and no two blocks overlap (heap.c:61-109, 152-194).                     *)
Tiling ==
    /\ 0 \in DOMAIN hdr /\ hdr[0].prev = NULL
    /\ \A h \in DOMAIN hdr :
         LET after == h + Header + hdr[h].size
         IN /\ after = heap_end => hdr[h].next = NULL /\ heap_tail = h
            /\ after # heap_end =>
                  /\ hdr[h].next = after
                  /\ after \in DOMAIN hdr /\ hdr[after].prev = h

(* The blocks in use are the ones callers hold, and each still has room    *)
(* for what its caller asked: other callers' malloc, realloc and free      *)
(* neither shrink nor recycle it (heap.c:199-271).                          *)
OwnedIntact ==
    /\ DOMAIN owned = {h \in DOMAIN hdr : ~hdr[h].free}
    /\ \A h \in DOMAIN owned : hdr[h].size >= owned[h].size

(* An aligned allocation and the pointer stored before it lie inside the   *)
(* block that backs them (heap.c:329-344).                                 *)
AlignedInside ==
    \A h \in DOMAIN owned \ Plain :
        /\ owned[h].aligned - PtrSize >= h + Header
        /\ owned[h].aligned + owned[h].size <= h + Header + hdr[h].size

(* One expansion always makes room for the request, so malloc's retry loop *)
(* never runs into its limit of ten attempts (heap.c:204-216).             *)
OneExpansionSuffices ==
    \A n \in {AlignUp(m) : m \in Sizes} : Fits(Expand(Globals, n), n) # {}

(* Whatever mix of malloc, realloc, malloc_aligned and free the callers    *)
(* choose, the heap has all of the above at once (heap.c:61-344).          *)
HeapSound ==
    HeapTypeOK /\ Tiling /\ OwnedIntact /\ AlignedInside /\ OneExpansionSuffices
=============================================================================
