---------------------------------- MODULE Pmm ----------------------------------
(***************************************************************************)
(* The physical page allocator of kernel/mm/pmm.c: a bitmap with one bit   *)
(* per page, first-fit allocation of one page, of a range and of an        *)
(* aligned range, and a count of the used pages.                           *)
(*                                                                         *)
(* Pages are named by their index.  The address the allocator returns is   *)
(* base_addr + page_idx * PAGE_SIZE, where the product is computed in 32    *)
(* bits; in units of pages it is page_idx % AddrPages.  The searches are    *)
(* stated by their result; module PmmScan has the loops.  All operations   *)
(* are called with the single kernel instance, one at a time.              *)
(***************************************************************************)
EXTENDS Integers, FiniteSets

CONSTANTS TotalPages,   \* total_pages
          ByteBits,     \* pages per bitmap byte, 8 in the code
          AddrPages,    \* 2^32 / PAGE_SIZE, the pages a 32-bit offset reaches
          MaxCount      \* bound: largest page_count callers ask for

ASSUME PmmAssumption ==
    /\ TotalPages \in Nat \ {0}
    /\ ByteBits \in Nat \ {0}
    /\ AddrPages \in Nat \ {0}
    /\ MaxCount \in Nat

Page == 0..TotalPages - 1
BitmapBytes == (TotalPages + ByteBits - 1) \div ByteBits
Bit == 0..BitmapBytes * ByteBits - 1
Padding == Bit \ Page       \* bits of the last byte that stand for no page

VARIABLES bitmap,           \* the bits that are set
          used_pages,
          granted,          \* pages callers own: returned and not freed since
          returned          \* the pages the last call handed out

vars == <<bitmap, used_pages, granted, returned>>

TypeOK ==
    /\ bitmap \subseteq Bit
    /\ used_pages \in Int
    /\ granted \subseteq Page
    /\ returned \subseteq Page

Free == Page \ bitmap
PageAt(p) == p % AddrPages  \* the page whose address is returned for index p
Run(s, n) == s..s + n - 1

-----------------------------------------------------------------------------
(* pmm_init: everything is used, then the pages that lie wholly in an      *)
(* available region become free, then the reserved areas are taken again.  *)
InitWith(available, reserved) ==
    /\ bitmap = (Bit \ available) \cup reserved
    /\ used_pages = TotalPages - Cardinality(available)
                      + Cardinality(available \cap reserved)
    /\ granted = {}
    /\ returned = {}

Init == \E available, reserved \in SUBSET Page : InitWith(available, reserved)

(* What a successful allocation of the free pages S does (pmm_mark_range). *)
Grant(S) ==
    /\ bitmap' = bitmap \cup S
    /\ used_pages' = used_pages + Cardinality(S)
    /\ returned' = {PageAt(p) : p \in S}
    /\ granted' = granted \cup {PageAt(p) : p \in S}

Fail == returned' = {} /\ UNCHANGED <<used_pages, granted>>

Lowest(S) == CHOOSE p \in S : \A q \in S : p <= q

AllocPage_NoMark ==
    /\ Free # {}
    /\ returned' = {PageAt(Lowest(Free))}
    /\ granted' = granted \cup returned'
    /\ UNCHANGED <<bitmap, used_pages>>

(* pmm_alloc_page *)
AllocPage == Free # {} /\ Grant({Lowest(Free)})

(* The scan that finds no page has set the padding bits it met. *)
AllocPageFails ==
    /\ Free = {}
    /\ bitmap' = bitmap \cup Padding
    /\ Fail

(* pmm_find_continuous_pages: the lowest run of n free pages. *)
Runs(n) == {s \in Page : Run(s, n) \subseteq Free}

(* pmm_alloc_range *)
AllocRange(n) ==
    /\ n > 0 /\ Runs(n) # {}
    /\ Grant(Run(Lowest(Runs(n)), n))

AllocRangeFails(n) ==
    /\ n = 0 \/ Runs(n) = {}
    /\ Fail
    /\ UNCHANGED bitmap

(* pmm_alloc_aligned_range: the run starts at a multiple of a, a power of 2. *)
AlignedRuns(n, a) == {s \in Runs(n) : s % a = 0}

AllocAligned(n, a) ==
    /\ n > 0 /\ AlignedRuns(n, a) # {}
    /\ Grant(Run(Lowest(AlignedRuns(n, a)), n))

AllocAlignedFails(n, a) ==
    /\ n = 0 \/ AlignedRuns(n, a) = {}
    /\ Fail
    /\ UNCHANGED bitmap

-----------------------------------------------------------------------------
(* Callers free what they own; they may also free a page that is free      *)
(* already, or pass an address below base_addr or beyond the last page,    *)
(* which the code ignores.                                                  *)
Freeable == granted \cup Free

FreePage_Uncounted(p) ==
    /\ bitmap' = bitmap \ {p}
    /\ used_pages' = used_pages - 1
    /\ granted' = granted \ {p}
    /\ returned' = {}

(* pmm_free_page *)
FreePage(p) ==
    /\ bitmap' = bitmap \ {p}
    /\ used_pages' = used_pages - Cardinality({p} \cap bitmap)
    /\ granted' = granted \ {p}
    /\ returned' = {}

(* pmm_free_range: the part of the run that is under management. *)
FreeRange(s, n) ==
    /\ Run(s, n) \cap Page \subseteq Freeable
    /\ bitmap' = bitmap \ (Run(s, n) \cap Page)
    /\ used_pages' = used_pages - Cardinality(Run(s, n) \cap Page \cap bitmap)
    /\ granted' = granted \ Run(s, n)
    /\ returned' = {}

Outside == returned' = {} /\ UNCHANGED <<bitmap, used_pages, granted>>

Next ==
    \/ AllocPage
    \/ AllocPageFails
    \/ \E n \in 0..MaxCount :
          \/ AllocRange(n)
          \/ AllocRangeFails(n)
          \/ \E a \in {1, 2, 4} : AllocAligned(n, a) \/ AllocAlignedFails(n, a)
          \/ \E s \in Page : FreeRange(s, n)
    \/ \E p \in Freeable : FreePage(p)
    \/ Outside

Spec == Init /\ [][Next]_vars

-----------------------------------------------------------------------------
(* used_pages is the number of pages whose bit is set, whatever sequence   *)
(* of allocations, frees, double frees and truncated range frees came      *)
(* before, so pmm_get_free_pages is right (pmm.h:35-37).                    *)
Accounting == used_pages = Cardinality(bitmap \cap Page)

(* No call hands out the address of a page that another caller still owns, *)
(* for every size the bitmap is said to manage (pmm.c:10, 172, 185, 288).   *)
NoDoubleGrant == [][returned' \cap granted = {}]_vars

=============================================================================
