-------------------------------- MODULE PmmScan --------------------------------
(***************************************************************************)
(* The loops of kernel/mm/pmm.c over the bitmap, page by page, with their  *)
(* local variables, and the results module Pmm states for them.            *)
(***************************************************************************)
EXTENDS Pmm

None == -1

(* Byte of the bitmap that is 0xFF: the loops skip it. *)
Byte(p) == p \div ByteBits
Bits(b) == b * ByteBits..b * ByteBits + ByteBits - 1
Full(b) == Bits(b) \subseteq bitmap

(* pmm_alloc_page: the first byte that is not 0xFF, its first clear bit.   *)
(* PageScan[b] is what the loop returns from byte b on.                    *)
PageScan ==
    LET at[b \in 0..BitmapBytes] ==
          IF b = BitmapBytes THEN None
          ELSE IF Full(b) \/ Lowest(Bits(b) \ bitmap) >= TotalPages THEN at[b + 1]
          ELSE Lowest(Bits(b) \ bitmap)
    IN at

ScanPage == PageScan[0]

(* pmm_find_continuous_pages: what the loop does with page q, and its      *)
(* local variables before page p.                                          *)
RunStart == [continuous |-> 0, start |-> 0, found |-> None]
Counted(n, s, q) ==
    LET start == IF s.continuous = 0 THEN q ELSE s.start
    IN [continuous |-> s.continuous + 1, start |-> start,
        found |-> IF s.continuous + 1 = n THEN start ELSE None]

RunStep_NoReset(n, s, q) ==
    IF s.found # None THEN s
    ELSE IF Full(Byte(q)) THEN [s EXCEPT !.continuous = 0]
    ELSE IF q \in bitmap THEN s
    ELSE Counted(n, s, q)

RunStep(n, s, q) ==
    IF s.found # None THEN s
    ELSE IF Full(Byte(q)) \/ q \in bitmap THEN [s EXCEPT !.continuous = 0]
    ELSE Counted(n, s, q)

RunScan(n) ==
    LET at[p \in 0..TotalPages] ==
          IF p = 0 THEN RunStart ELSE RunStep(n, at[p - 1], p - 1)
    IN at

ScanRun(n) == IF n = 0 \/ n > TotalPages THEN None ELSE RunScan(n)[TotalPages].found

(* pmm_alloc_aligned_range: a run may begin only at an aligned page; in is *)
(* in_aligned.                                                             *)
AlignedStart == [run |-> RunStart, in |-> FALSE]

AlignedStep(n, a, s, q) ==
    IF s.run.found # None THEN s
    ELSE IF ~Full(Byte(q)) /\ ~s.in /\ q % a # 0 THEN s
    ELSE IF Full(Byte(q)) \/ q \in bitmap
    THEN [run |-> [s.run EXCEPT !.continuous = 0], in |-> FALSE]
    ELSE [run |-> Counted(n, s.run, q), in |-> TRUE]

AlignedScan(n, a) ==
    LET at[p \in 0..TotalPages] ==
          IF p = 0 THEN AlignedStart ELSE AlignedStep(n, a, at[p - 1], p - 1)
    IN at

ScanAligned(n, a) == IF n = 0 THEN None ELSE AlignedScan(n, a)[TotalPages].run.found

LowestOrNone(S) == IF S = {} THEN None ELSE Lowest(S)

-----------------------------------------------------------------------------
(* On every reachable bitmap the loops find what module Pmm says: the      *)
(* lowest free page, the lowest run of free pages and the lowest aligned   *)
(* run, also where a run crosses bytes, follows a skipped byte or ends at  *)
(* the last page, and for a request larger than the memory                 *)
(* (pmm.c:162-191, 216-253, 338-373).                                      *)
ScanFindsLowest ==
    /\ ScanPage = LowestOrNone(Free)
    /\ \A n \in 1..TotalPages + 1 : ScanRun(n) = LowestOrNone(Runs(n))
    /\ \A n \in 1..TotalPages + 1, a \in {1, 2, 4, 8} :
         ScanAligned(n, a) = LowestOrNone(AlignedRuns(n, a))

=============================================================================
