------------------------------- MODULE PmmProofs -------------------------------
(***************************************************************************)
(* Proofs about modules Pmm, PmmScan and KernelMemory, for every memory    *)
(* size and every request size: the bitmap loops find what module Pmm says *)
(* they find, and, when the 32-bit page offset reaches every page, the     *)
(* allocator counts right and hands out no page twice and no page of the   *)
(* kernel heap.                                                            *)
(***************************************************************************)
EXTENDS KernelMemory, FiniteSetTheorems, WellFoundedInduction, TLAPS

(* The page offset of every page fits in 32 bits: at most 4 GiB.           *)
Addressable == TotalPages <= AddrPages

(* An owned page is marked used: what keeps it from being granted again.   *)
GrantedMarked == granted \subseteq bitmap

IndInv == TypeOK /\ Accounting /\ GrantedMarked

-----------------------------------------------------------------------------
(* The pages under management, and any set of them, are finitely many.     *)
LEMMA PagesFinite == IsFiniteSet(Page) /\ \A S \in SUBSET Page : IsFiniteSet(S)
  <1>1. IsFiniteSet(Page)
    BY PmmAssumption, FS_Interval DEF Page
  <1> QED
    BY <1>1, FS_Subset

(* The first-fit choice of a nonempty set is its least member.             *)
LEMMA LeastMember ==
  ASSUME NEW S \in SUBSET Nat, S # {}
  PROVE  Lowest(S) \in S /\ \A y \in S : Lowest(S) <= y
  <1>1. PICK x \in S : \A y \in S : <<y, x>> \notin OpToRel(<, Nat)
    BY NatLessThanWellFounded, WFMin
  <1>2. ASSUME NEW y \in S PROVE x <= y
    <2>1. ~ (y < x)
      BY <1>1, Zenon DEF OpToRel
    <2> QED
      BY <2>1
  <1> QED
    BY <1>2, Zenon DEF Lowest

(* There is only one least member.                                         *)
LEMMA LowestIs ==
  ASSUME NEW S \in SUBSET Nat, NEW m \in S, \A y \in S : m <= y
  PROVE  Lowest(S) = m
  <1>1. Lowest(S) \in S /\ Lowest(S) <= m
    BY LeastMember
  <1>2. m <= Lowest(S) /\ m \in Nat /\ Lowest(S) \in Nat
    BY <1>1, Zenon
  <1> QED
    BY <1>1, <1>2

(* Of a set of pages, it is one of them.                                   *)
LEMMA LowestMember == ASSUME NEW S \in SUBSET Page, S # {} PROVE Lowest(S) \in S
  <1>1. S \in SUBSET Nat
    BY DEF Page
  <1> QED
    BY <1>1, LeastMember

(* A page that fits in 32 bits is returned by its own address.             *)
LEMMA OwnAddress == ASSUME Addressable, NEW p \in Page PROVE PageAt(p) = p
  <1>1. p \in 0..AddrPages - 1
    BY PmmAssumption DEF Addressable, Page
  <1> QED
    BY <1>1, PmmAssumption DEF PageAt

(* Granting free pages keeps the invariant and touches no owned page.      *)
LEMMA GrantSafe ==
  ASSUME Addressable, IndInv, NEW S \in SUBSET Free, Grant(S)
  PROVE  IndInv' /\ returned' \cap granted = {}
  <1>1. S \subseteq Page /\ S \cap bitmap = {}
    BY DEF Free
  <1>2. returned' = S
    <2>1. \A p \in S : PageAt(p) = p
      BY <1>1, OwnAddress
    <2> QED
      BY <2>1 DEF Grant
  <1>3. granted' = granted \cup S /\ bitmap' = bitmap \cup S
    BY <1>2 DEF Grant
  <1>4. Page \subseteq Bit
    BY PmmAssumption DEF Page, Bit, BitmapBytes
  <1>5. IsFiniteSet(bitmap \cap Page) /\ IsFiniteSet(S)
    BY <1>1, PagesFinite
  <1>6. Cardinality(S) \in Nat /\ Cardinality(bitmap \cap Page) \in Nat
    BY <1>5, FS_CardinalityType
  <1>7. TypeOK'
    BY <1>1, <1>2, <1>3, <1>4, <1>6 DEF IndInv, TypeOK, Grant
  <1>8. Accounting'
    <2>1. bitmap' \cap Page = (bitmap \cap Page) \cup S
      BY <1>1, <1>3
    <2>2. (bitmap \cap Page) \cap S = {}
      BY <1>1
    <2>3. Cardinality((bitmap \cap Page) \cup S)
            = Cardinality(bitmap \cap Page) + Cardinality(S)
                - Cardinality((bitmap \cap Page) \cap S)
      BY <1>5, FS_Union
    <2>4. Cardinality((bitmap \cap Page) \cap S) = 0
      BY <2>2, FS_EmptySet
    <2>5. Cardinality(bitmap' \cap Page) = Cardinality(bitmap \cap Page) + Cardinality(S)
      <3>1. Cardinality((bitmap \cap Page) \cup S)
              = Cardinality(bitmap \cap Page) + Cardinality(S)
        BY <1>6, <2>3, <2>4
      <3> QED
        BY <2>1, <3>1
    <2>6. used_pages = Cardinality(bitmap \cap Page)
      BY DEF IndInv, Accounting
    <2>7. used_pages' = used_pages + Cardinality(S)
      BY DEF Grant
    <2> QED
      BY <2>5, <2>6, <2>7 DEF Accounting
  <1>9. GrantedMarked'
    BY <1>3 DEF IndInv, GrantedMarked
  <1> QED
    BY <1>1, <1>2, <1>7, <1>8, <1>9 DEF IndInv, GrantedMarked

(* Clearing the bits of the pages S, owned or free, keeps the invariant.   *)
LEMMA ReleaseSafe ==
  ASSUME IndInv, NEW S \in SUBSET Page,
         bitmap' = bitmap \ S,
         used_pages' = used_pages - Cardinality(S \cap bitmap),
         granted' = granted \ S,
         returned' = {}
  PROVE  IndInv' /\ returned' \cap granted = {}
  <1>1. IsFiniteSet(bitmap \cap Page) /\ IsFiniteSet(S) /\ IsFiniteSet(S \cap bitmap)
    BY PagesFinite, FS_Subset
  <1>2. /\ Cardinality(bitmap \cap Page) \in Nat
        /\ Cardinality(S \cap bitmap) \in Nat
    BY <1>1, FS_CardinalityType
  <1>3. Accounting'
    <2>1. bitmap' \cap Page = (bitmap \cap Page) \ (S \cap bitmap)
      OBVIOUS
    <2>2. (bitmap \cap Page) \cap (S \cap bitmap) = S \cap bitmap
      OBVIOUS
    <2>3. Cardinality((bitmap \cap Page) \ (S \cap bitmap))
            = Cardinality(bitmap \cap Page)
                - Cardinality((bitmap \cap Page) \cap (S \cap bitmap))
      BY <1>1, FS_Difference, Zenon
    <2> QED
      BY <1>2, <2>1, <2>2, <2>3, Zenon DEF IndInv, Accounting
  <1>4. TypeOK' /\ GrantedMarked'
    BY <1>2 DEF IndInv, TypeOK, GrantedMarked
  <1> QED
    BY <1>3, <1>4 DEF IndInv

(* A call that hands out nothing and at most sets padding bits.            *)
LEMMA FailSafe ==
  ASSUME IndInv, Fail, bitmap' = bitmap \/ bitmap' = bitmap \cup Padding
  PROVE  IndInv' /\ returned' \cap granted = {}
  <1>1. bitmap' \cap Page = bitmap \cap Page
    BY DEF Padding
  <1> QED
    BY <1>1, Zenon DEF IndInv, Fail, TypeOK, Accounting, GrantedMarked, Padding

-----------------------------------------------------------------------------
(* pmm_init establishes the invariant, whatever the memory map.            *)
LEMMA InitEstablishes == Init => IndInv
  <1> SUFFICES ASSUME NEW A \in SUBSET Page, NEW R \in SUBSET Page, InitWith(A, R)
               PROVE  IndInv
    BY DEF Init
  <1>1. Page \subseteq Bit
    BY PmmAssumption DEF Page, Bit, BitmapBytes
  <1>2. IsFiniteSet(Page) /\ IsFiniteSet(A) /\ IsFiniteSet(R)
    BY PagesFinite
  <1>3. IsFiniteSet(A \cap R) /\ IsFiniteSet(A \ R)
    BY <1>2, FS_Subset
  <1>4. bitmap \cap Page = Page \ (A \ R)
    BY <1>1 DEF InitWith
  <1>5. Cardinality(Page) = TotalPages
    BY PmmAssumption, FS_Interval DEF Page
  <1>6. Cardinality(A \ R) = Cardinality(A) - Cardinality(A \cap R)
    BY <1>2, FS_Difference, Zenon
  <1>7. Cardinality(Page \ (A \ R)) = Cardinality(Page) - Cardinality(Page \cap (A \ R))
    BY <1>2, FS_Difference, Zenon
  <1>8. Page \cap (A \ R) = A \ R
    OBVIOUS
  <1>9. /\ Cardinality(A) \in Nat
        /\ Cardinality(A \cap R) \in Nat
    BY <1>2, <1>3, FS_CardinalityType
  <1>10. Accounting
    <2>1. Cardinality(bitmap \cap Page) = Cardinality(Page) - Cardinality(A \ R)
      BY <1>4, <1>7, <1>8
    <2>2. Cardinality(bitmap \cap Page)
            = TotalPages - (Cardinality(A) - Cardinality(A \cap R))
      BY <1>5, <1>6, <2>1
    <2>3. used_pages = TotalPages - Cardinality(A) + Cardinality(A \cap R)
      BY DEF InitWith
    <2>4. TotalPages - (Cardinality(A) - Cardinality(A \cap R))
            = TotalPages - Cardinality(A) + Cardinality(A \cap R)
      BY <1>9, PmmAssumption
    <2> QED
      BY <2>2, <2>3, <2>4 DEF Accounting
  <1>11. TypeOK /\ GrantedMarked
    BY <1>1, <1>9, PmmAssumption DEF InitWith, TypeOK, GrantedMarked
  <1> QED
    BY <1>10, <1>11 DEF IndInv

(* Every call keeps the invariant and hands out no owned page.             *)
LEMMA NextSafe ==
  ASSUME Addressable, IndInv, Next
  PROVE  IndInv' /\ returned' \cap granted = {}
  <1>1. CASE AllocPage
    <2>1. Free \in SUBSET Page /\ Lowest(Free) \in Free
      BY <1>1, LowestMember DEF AllocPage, Free
    <2> QED
      BY <1>1, <2>1, GrantSafe DEF AllocPage
  <1>2. CASE AllocPageFails
    BY <1>2, FailSafe DEF AllocPageFails
  <1>3. ASSUME NEW n \in 0..MaxCount, AllocRange(n) \/ AllocRangeFails(n)
        PROVE  IndInv' /\ returned' \cap granted = {}
    <2>1. CASE AllocRange(n)
      <3>1. Runs(n) \in SUBSET Page /\ Lowest(Runs(n)) \in Runs(n)
        BY <2>1, LowestMember DEF AllocRange, Runs
      <3>2. Run(Lowest(Runs(n)), n) \subseteq Free
        BY <3>1 DEF Runs
      <3> QED
        BY <2>1, <3>2, GrantSafe DEF AllocRange
    <2>2. CASE AllocRangeFails(n)
      BY <2>2, FailSafe DEF AllocRangeFails
    <2> QED
      BY <1>3, <2>1, <2>2
  <1>4. ASSUME NEW n \in 0..MaxCount, NEW a \in {1, 2, 4},
               AllocAligned(n, a) \/ AllocAlignedFails(n, a)
        PROVE  IndInv' /\ returned' \cap granted = {}
    <2>1. CASE AllocAligned(n, a)
      <3>1. /\ AlignedRuns(n, a) \in SUBSET Page
            /\ Lowest(AlignedRuns(n, a)) \in AlignedRuns(n, a)
        BY <2>1, LowestMember DEF AllocAligned, AlignedRuns, Runs
      <3>2. Run(Lowest(AlignedRuns(n, a)), n) \subseteq Free
        BY <3>1 DEF AlignedRuns, Runs
      <3> QED
        BY <2>1, <3>2, GrantSafe DEF AllocAligned
    <2>2. CASE AllocAlignedFails(n, a)
      BY <2>2, FailSafe DEF AllocAlignedFails
    <2> QED
      BY <1>4, <2>1, <2>2
  <1>5. ASSUME NEW n \in 0..MaxCount, NEW s \in Page, FreeRange(s, n)
        PROVE  IndInv' /\ returned' \cap granted = {}
    <2> DEFINE S == Run(s, n) \cap Page
    <2>1. granted' = granted \ S
      BY <1>5 DEF FreeRange, IndInv, TypeOK
    <2>2. /\ bitmap' = bitmap \ S
          /\ used_pages' = used_pages - Cardinality(S \cap bitmap)
          /\ returned' = {}
      BY <1>5 DEF FreeRange
    <2>3. S \in SUBSET Page
      OBVIOUS
    <2> QED
      BY <2>1, <2>2, <2>3, ReleaseSafe, Zenon
  <1>6. ASSUME NEW p \in Freeable, FreePage(p)
        PROVE  IndInv' /\ returned' \cap granted = {}
    <2>1. {p} \in SUBSET Page
      BY DEF Freeable, Free, IndInv, TypeOK
    <2> QED
      BY <1>6, <2>1, ReleaseSafe, Zenon DEF FreePage
  <1>7. CASE Outside
    BY <1>7, FailSafe DEF Outside, Fail
  <1> QED
    BY <1>1, <1>2, <1>3, <1>4, <1>5, <1>6, <1>7 DEF Next

(* The inductive invariant holds throughout.                               *)
THEOREM Invariance == Addressable /\ Spec => []IndInv
  <1>1. Addressable /\ Init => IndInv
    BY InitEstablishes
  <1>2. Addressable /\ IndInv /\ [Next]_vars => IndInv'
    <2> SUFFICES ASSUME Addressable, IndInv, [Next]_vars PROVE IndInv'
      OBVIOUS
    <2>1. CASE Next
      BY <2>1, NextSafe
    <2>2. CASE UNCHANGED vars
      BY <2>2 DEF vars, IndInv, TypeOK, Accounting, GrantedMarked
    <2> QED
      BY <2>1, <2>2
  <1>3. CASE Addressable
    BY <1>1, <1>2, <1>3, PTL DEF Spec
  <1> QED
    BY <1>3

(* used_pages counts the used pages after every sequence of calls          *)
(* (pmm_alloc_page, pmm_alloc_range, pmm_free_page, pmm_free_range).        *)
THEOREM PagesAccounted == Addressable /\ Spec => []Accounting
  <1>1. IndInv => Accounting
    BY DEF IndInv
  <1> QED
    BY <1>1, Invariance, PTL

(* No allocation returns a page that a caller still owns, at any memory    *)
(* size up to the 32-bit reach of the page offset.                         *)
THEOREM NeverGrantedTwice == Addressable /\ Spec => NoDoubleGrant
  <1>1. Addressable /\ IndInv /\ [Next]_vars => [returned' \cap granted = {}]_vars
    BY NextSafe
  <1>2. CASE Addressable
    BY <1>1, <1>2, Invariance, PTL DEF Spec, NoDoubleGrant
  <1> QED
    BY <1>2

-----------------------------------------------------------------------------
(* The loops over the bitmap. *)

(* The states of a loop of N rounds that makes each state from the one     *)
(* before it.                                                              *)
Loops(St, s0, G, N) ==
    {f \in [0..N -> St] : f[0] = s0 /\ \A p \in 1..N : f[p] = G[<<p - 1, f[p - 1]>>]}

(* Every loop has such states.                                             *)
LEMMA LoopStates ==
  ASSUME NEW St, NEW s0 \in St, NEW G \in [Nat \X St -> St], NEW N \in Nat
  PROVE  Loops(St, s0, G, N) # {}
  <1> DEFINE Good(f, n) == /\ f \in [0..n -> St] /\ f[0] = s0
                           /\ \A p \in 1..n : f[p] = G[<<p - 1, f[p - 1]>>]
             Bad == {n \in Nat : \A f : ~Good(f, n)}
  <1>1. 0 \notin Bad
    <2>1. Good([p \in 0..0 |-> s0], 0)
      OBVIOUS
    <2> QED
      BY <2>1, Zenon
  <1>2. ASSUME NEW n \in Nat, n \notin Bad PROVE n + 1 \notin Bad
    <2>1. PICK f : Good(f, n)
      BY <1>2
    <2> DEFINE g == [p \in 0..(n + 1) |-> IF p = n + 1 THEN G[<<n, f[n]>>] ELSE f[p]]
    <2>2. G[<<n, f[n]>>] \in St
      BY <2>1
    <2>3. g \in [0..(n + 1) -> St] /\ g[0] = s0
      BY <2>1, <2>2
    <2>4. ASSUME NEW p \in 1..(n + 1) PROVE g[p] = G[<<p - 1, g[p - 1]>>]
      <3>1. p - 1 \in 0..n /\ g[p - 1] = f[p - 1]
        OBVIOUS
      <3>2. CASE p = n + 1
        <4>1. g[p] = G[<<n, f[n]>>] /\ p - 1 = n
          BY <3>2
        <4> QED
          BY <3>1, <4>1, Zenon
      <3>3. CASE p \in 1..n
        BY <2>1, <3>1, <3>3
      <3> QED
        BY <3>2, <3>3
    <2> HIDE DEF g
    <2>5. Good(g, n + 1)
      BY <2>3, <2>4
    <2> QED
      BY <2>5
  <1>3. Bad = {}
    <2> SUFFICES ASSUME Bad # {} PROVE FALSE
      OBVIOUS
    <2> DEFINE x == Lowest(Bad)
    <2>0. Bad \subseteq Nat
      OBVIOUS
    <2> HIDE DEF Bad
    <2>1. x \in Bad /\ \A y \in Bad : x <= y
      BY <2>0, LeastMember
    <2> HIDE DEF x
    <2>2. x \in Nat /\ x # 0
      BY <1>1, <2>0, <2>1
    <2>3. x - 1 \in Nat /\ x - 1 \notin Bad
      BY <2>1, <2>2
    <2>4. (x - 1) + 1 \notin Bad
      BY <1>2, <2>3
    <2> QED
      BY <2>1, <2>2, <2>4
  <1>4. PICK f : Good(f, N)
    <2>1. N \notin Bad
      BY <1>3, Zenon
    <2> HIDE DEF Good
    <2> QED
      BY <2>1, Zenon
  <1>5. f \in Loops(St, s0, G, N)
    BY <1>4 DEF Loops
  <1> QED
    BY <1>5

RunStates == [continuous : Nat, start : Nat, found : Nat \cup {None}]

(* The local variables of pmm_find_continuous_pages before each page.      *)
LEMMA RunScanLoop ==
  ASSUME NEW n
  PROVE  /\ RunScan(n)[0] = RunStart
         /\ \A p \in 1..TotalPages : RunScan(n)[p] = RunStep(n, RunScan(n)[p - 1], p - 1)
  <1> DEFINE E(f) == f = [p \in 0..TotalPages |->
                            IF p = 0 THEN RunStart ELSE RunStep(n, f[p - 1], p - 1)]
             G == [x \in Nat \X RunStates |-> RunStep(n, x[2], x[1])]
  <1>1. ASSUME NEW q \in Nat, NEW s \in RunStates PROVE RunStep(n, s, q) \in RunStates
    BY DEF RunStep, Counted, RunStates, None
  <1>2. /\ G \in [Nat \X RunStates -> RunStates]
        /\ \A q \in Nat, s \in RunStates : G[<<q, s>>] = RunStep(n, s, q)
    BY <1>1
  <1>3. RunStart \in RunStates /\ TotalPages \in Nat
    BY PmmAssumption DEF RunStart, RunStates
  <1> HIDE DEF G
  <1>4. PICK f \in [0..TotalPages -> RunStates] :
          f[0] = RunStart /\ \A p \in 1..TotalPages : f[p] = G[<<p - 1, f[p - 1]>>]
    <2>1. Loops(RunStates, RunStart, G, TotalPages) # {}
      BY <1>2, <1>3, LoopStates
    <2> QED
      BY <2>1 DEF Loops
  <1>5. E(f)
    <2>1. ASSUME NEW p \in 0..TotalPages
          PROVE  f[p] = IF p = 0 THEN RunStart ELSE RunStep(n, f[p - 1], p - 1)
      <3>1. CASE p = 0
        BY <1>4, <3>1
      <3>2. CASE p # 0
        <4>1. p \in 1..TotalPages /\ p - 1 \in 0..TotalPages /\ p - 1 \in Nat
          BY <1>3, <3>2
        <4>2. f[p] = G[<<p - 1, f[p - 1]>>] /\ f[p - 1] \in RunStates
          BY <1>4, <4>1
        <4> QED
          BY <1>2, <3>2, <4>1, <4>2, Zenon
      <3> QED
        BY <3>1, <3>2
    <2> QED
      BY <1>4, <2>1
  <1>6. RunScan(n) = CHOOSE g : E(g)
    BY DEF RunScan
  <1>7. E(RunScan(n))
    BY <1>5, <1>6, Zenon
  <1> QED
    BY <1>3, <1>7

(* What holds from the start of a loop and is kept by each round holds at  *)
(* its end.                                                                *)
LEMMA AtTheEnd ==
  ASSUME NEW N \in Nat, NEW S, 0 \in S, \A p \in 0..N - 1 : p \in S => p + 1 \in S
  PROVE  N \in S
  <1> DEFINE Bad == {p \in 0..N : p \notin S}
  <1>1. Bad = {}
    <2> SUFFICES ASSUME Bad # {} PROVE FALSE
      OBVIOUS
    <2> DEFINE x == Lowest(Bad)
    <2>1. x \in Bad /\ \A y \in Bad : x <= y
      BY LeastMember
    <2> HIDE DEF x
    <2>2. x \in 1..N
      BY <2>1
    <2>3. x - 1 \in 0..N - 1 /\ x - 1 \in S
      BY <2>1, <2>2
    <2>4. (x - 1) + 1 \in S
      BY <2>3
    <2> QED
      BY <2>1, <2>2, <2>4
  <1> QED
    BY <1>1

(* The loops skip only bytes whose pages are all used.                     *)
LEMMA FullIsUsed == ASSUME NEW q \in Nat, Full(Byte(q)) PROVE q \in bitmap
  <1>1. ByteBits \in Nat /\ ByteBits > 0
    BY PmmAssumption
  <1>2. q \in Bits(q \div ByteBits)
    BY <1>1, SMTT(30) DEF Bits
  <1> QED
    BY <1>2 DEF Full, Byte

(* The loop before page p: it has found the lowest aligned run, or it has  *)
(* counted the free pages that end just below p, begun at an aligned page, *)
(* and no aligned run begins below them.                                   *)
Found(n, a, s) ==
    s.found \in AlignedRuns(n, a) /\ \A r \in AlignedRuns(n, a) : s.found <= r

Counting(n, a, s, p) ==
    /\ s.continuous < n /\ s.continuous <= p
    /\ s.continuous > 0 => s.start = p - s.continuous /\ s.start % a = 0
    /\ p - s.continuous..p - 1 \subseteq Free
    /\ \A r \in AlignedRuns(n, a) : p - s.continuous <= r

RunOK(n, a, s, p) ==
    /\ s \in RunStates
    /\ s.found # None => Found(n, a, s)
    /\ s.found = None => Counting(n, a, s, p)

(* A used page ends the count.                                             *)
LEMMA UsedEnds ==
  ASSUME NEW n \in Nat \ {0}, NEW a \in Nat \ {0}, NEW p \in Page, p \in bitmap,
         NEW s, RunOK(n, a, s, p), s.found = None
  PROVE  RunOK(n, a, [s EXCEPT !.continuous = 0], p + 1)
  <1> DEFINE t == [s EXCEPT !.continuous = 0]
  <1>1. s \in RunStates /\ Counting(n, a, s, p) /\ p \in Nat
    BY DEF RunOK, Page
  <1>2. t \in RunStates /\ t.found = None /\ t.continuous = 0
    BY <1>1 DEF RunStates
  <1>3. ASSUME NEW r \in AlignedRuns(n, a) PROVE p + 1 <= r
    <2>1. r \in Page /\ Run(r, n) \subseteq Free /\ p - s.continuous <= r
      BY <1>1 DEF Counting, AlignedRuns, Runs
    <2>2. p \notin Run(r, n)
      BY <2>1 DEF Free
    <2>3. s.continuous \in Nat /\ s.continuous < n /\ r \in Nat
      BY <1>1, <2>1 DEF Counting, RunStates, Page
    <2> QED
      BY <1>1, <2>1, <2>2, <2>3 DEF Run
  <1> HIDE DEF t
  <1>4. Counting(n, a, t, p + 1)
    BY <1>1, <1>2, <1>3 DEF Counting
  <1>5. RunOK(n, a, t, p + 1)
    BY <1>2, <1>4 DEF RunOK
  <1> QED
    BY <1>5 DEF t

(* A free page adds to it, or completes the run.                           *)
LEMMA FreeCounts ==
  ASSUME NEW n \in Nat \ {0}, NEW a \in Nat \ {0}, NEW p \in Page, p \notin bitmap,
         NEW s, RunOK(n, a, s, p), s.found = None, s.continuous = 0 => p % a = 0
  PROVE  RunOK(n, a, Counted(n, s, p), p + 1)
  <1> DEFINE t == Counted(n, s, p)
             first == IF s.continuous = 0 THEN p ELSE s.start
             c == s.continuous
  <1>1. s \in RunStates /\ Counting(n, a, s, p) /\ p \in Nat /\ p < TotalPages
    BY PmmAssumption DEF RunOK, Page
  <1>2. c \in Nat /\ c < n /\ c <= p
    BY <1>1 DEF RunStates, Counting
  <1>3. first = p - c /\ first % a = 0
    BY <1>1, <1>2 DEF Counting
  <1>4. /\ t.continuous = c + 1 /\ t.start = first
        /\ t.found = IF c + 1 = n THEN first ELSE None
        /\ t = [continuous |-> c + 1, start |-> first,
                found |-> IF c + 1 = n THEN first ELSE None]
    BY DEF Counted
  <1>5. t \in RunStates
    <2> HIDE DEF c, first, t
    <2>1. c + 1 \in Nat /\ first \in Nat
      <3>1. first = p - c
        BY <1>3
      <3> QED
        BY <1>1, <1>2, <3>1
    <2>2. (IF c + 1 = n THEN first ELSE None) \in Nat \cup {None}
      BY <2>1
    <2> QED
      BY <1>4, <2>1, <2>2 DEF RunStates
  <1>6. p - c..p \subseteq Free
    <2>1. p - c..p - 1 \subseteq Free /\ p \in Free
      BY <1>1 DEF Counting, Free
    <2> QED
      BY <1>1, <1>2, <2>1
  <1>7. \A r \in AlignedRuns(n, a) : p - c <= r
    BY <1>1 DEF Counting
  <1>8. t.continuous = c + 1 /\ t.start = p - c /\ (p - c) % a = 0
        /\ t.found = IF c + 1 = n THEN p - c ELSE None
    BY <1>3, <1>4
  <1> HIDE DEF t, first, c
  <1>9. CASE c + 1 = n
    <2>1. p - c \in Page /\ Run(p - c, n) \subseteq Free
      BY <1>1, <1>2, <1>6, <1>9, PmmAssumption DEF Page, Run
    <2>2. t.found = p - c /\ p - c \in AlignedRuns(n, a) /\ p - c # None
      BY <1>1, <1>2, <1>8, <1>9, <2>1 DEF AlignedRuns, Runs, None
    <2>3. RunOK(n, a, t, p + 1)
      BY <1>5, <1>7, <2>2 DEF RunOK, Found
    <2> QED
      BY <2>3 DEF t
  <1>10. CASE c + 1 # n
    <2>1. t.found = None
      BY <1>8, <1>10
    <2>2. (p + 1) - t.continuous = p - c /\ (p + 1) - 1 = p
          /\ t.continuous < n /\ t.continuous <= p + 1
      BY <1>1, <1>2, <1>8, <1>10
    <2>3. Counting(n, a, t, p + 1)
      BY <1>6, <1>7, <1>8, <2>2 DEF Counting
    <2>4. RunOK(n, a, t, p + 1)
      BY <1>5, <2>1, <2>3 DEF RunOK
    <2> QED
      BY <2>4 DEF t
  <1> QED
    BY <1>9, <1>10

(* What the loop has found after the last page is the lowest run, if any.  *)
LEMMA FoundAtEnd ==
  ASSUME NEW n \in Nat \ {0}, NEW a \in Nat \ {0}, NEW s, RunOK(n, a, s, TotalPages)
  PROVE  s.found = LowestOrNone(AlignedRuns(n, a))
  <1>1. TotalPages \in Nat /\ TotalPages > 0
    BY PmmAssumption
  <1> DEFINE R == AlignedRuns(n, a)
  <1>2. R \in SUBSET Nat
    BY DEF AlignedRuns, Runs, Page
  <1>3. CASE s.found # None
    <2>1. s.found \in R /\ \A r \in R : s.found <= r
      BY <1>3 DEF RunOK, Found
    <2>2. s.found = Lowest(R)
      BY <1>2, <2>1, LowestIs
    <2> QED
      BY <2>1, <2>2 DEF LowestOrNone
  <1>4. CASE s.found = None
    <2>1. Counting(n, a, s, TotalPages) /\ s \in RunStates
      BY <1>4 DEF RunOK
    <2>2. ASSUME NEW r \in R PROVE FALSE
      <3>1. /\ r \in Nat /\ r < TotalPages /\ Run(r, n) \subseteq Free
            /\ TotalPages - s.continuous <= r
        BY <1>1, <2>1 DEF Counting, AlignedRuns, Runs, Page
      <3>2. s.continuous \in Nat /\ s.continuous < n
        BY <2>1 DEF Counting, RunStates
      <3>3. TotalPages \in Run(r, n)
        BY <1>1, <3>1, <3>2 DEF Run
      <3> QED
        BY <1>1, <3>1, <3>3 DEF Free, Page
    <2> QED
      BY <1>4, <2>2 DEF LowestOrNone
  <1> QED
    BY <1>3, <1>4

(* Every page is a multiple of one: the plain search.                      *)
LEMMA RunsAreAligned == \A n : Runs(n) = AlignedRuns(n, 1)
  <1>1. \A s \in Page : s % 1 = 0
    BY DEF Page
  <1> QED
    BY <1>1 DEF AlignedRuns, Runs

(* pmm_find_continuous_pages finds the lowest run of n free pages.         *)
LEMMA RunFindsLowest ==
  ASSUME NEW n \in Nat \ {0} PROVE ScanRun(n) = LowestOrNone(Runs(n))
  <1>1. TotalPages \in Nat /\ TotalPages > 0
    BY PmmAssumption
  <1>2. CASE n > TotalPages
    <2>1. ASSUME NEW s \in Runs(n) PROVE FALSE
      <3>1. s \in Nat /\ s < TotalPages /\ Run(s, n) \subseteq Free
        BY <1>1 DEF Runs, Page
      <3>2. TotalPages \in Run(s, n)
        BY <1>1, <1>2, <3>1 DEF Run
      <3> QED
        BY <1>1, <3>1, <3>2 DEF Free, Page
    <2> QED
      BY <1>2, <2>1 DEF ScanRun, LowestOrNone
  <1>3. CASE ~ (n > TotalPages)
    <2> DEFINE L == RunScan(n)
               S == {p \in 0..TotalPages : RunOK(n, 1, L[p], p)}
    <2>1. 0 \in S
      <3>1. RunStart \in RunStates /\ RunStart.found = None /\ RunStart.continuous = 0
        BY DEF RunStart, RunStates
      <3>2. Counting(n, 1, RunStart, 0)
        BY <3>1 DEF Counting, AlignedRuns, Runs, Page
      <3>3. RunOK(n, 1, RunStart, 0)
        BY <3>1, <3>2 DEF RunOK
      <3> QED
        BY <1>1, <3>3, RunScanLoop
    <2>2. ASSUME NEW p \in 0..TotalPages - 1, p \in S PROVE p + 1 \in S
      <3>1. p \in Page /\ p \in Nat /\ p + 1 \in 1..TotalPages /\ (p + 1) - 1 = p
        BY <1>1 DEF Page
      <3>2. L[p + 1] = RunStep(n, L[(p + 1) - 1], (p + 1) - 1)
        BY <3>1, RunScanLoop
      <3>3. L[p + 1] = RunStep(n, L[p], p)
        BY <3>1, <3>2, Zenon
      <3>4. RunOK(n, 1, L[p], p)
        BY <2>2
      <3> HIDE DEF L
      <3>5. RunOK(n, 1, L[p + 1], p + 1)
        <4>1. CASE L[p].found # None
          <5>1. L[p + 1] = L[p]
            BY <3>3, <4>1 DEF RunStep
          <5> QED
            BY <3>4, <4>1, <5>1 DEF RunOK
        <4>2. CASE L[p].found = None /\ p \in bitmap
          <5>1. L[p + 1] = [L[p] EXCEPT !.continuous = 0]
            BY <3>3, <4>2 DEF RunStep
          <5>2. RunOK(n, 1, [L[p] EXCEPT !.continuous = 0], p + 1)
            BY <3>1, <3>4, <4>2, UsedEnds
          <5> QED
            BY <5>1, <5>2, Zenon
        <4>3. CASE L[p].found = None /\ p \notin bitmap
          <5>1. ~Full(Byte(p)) /\ p % 1 = 0
            BY <3>1, <4>3, FullIsUsed
          <5>2. L[p + 1] = Counted(n, L[p], p)
            BY <3>3, <4>3, <5>1 DEF RunStep
          <5>3. RunOK(n, 1, Counted(n, L[p], p), p + 1)
            BY <3>1, <3>4, <4>3, <5>1, FreeCounts
          <5> QED
            BY <5>2, <5>3, Zenon
        <4> QED
          BY <4>1, <4>2, <4>3
      <3> QED
        BY <1>1, <3>1, <3>5
    <2> HIDE DEF S
    <2>3. TotalPages \in S
      BY <1>1, <2>1, <2>2, AtTheEnd
    <2>4. RunOK(n, 1, L[TotalPages], TotalPages)
      BY <2>3 DEF S
    <2>5. L[TotalPages].found = LowestOrNone(AlignedRuns(n, 1))
      BY <2>4, FoundAtEnd
    <2>6. ScanRun(n) = L[TotalPages].found
      BY <1>1, <1>3 DEF ScanRun
    <2> QED
      BY <2>5, <2>6, RunsAreAligned
  <1> QED
    BY <1>2, <1>3

-----------------------------------------------------------------------------
(* The search for an aligned run: in_aligned tells whether it counts.      *)
AlignedStates == [run : RunStates, in : BOOLEAN]

AlignedOK(n, a, s, p) ==
    /\ RunOK(n, a, s.run, p)
    /\ s.run.found = None => (s.in <=> s.run.continuous > 0)

(* The local variables of pmm_alloc_aligned_range before each page.        *)
LEMMA AlignedScanLoop ==
  ASSUME NEW n, NEW a \in Nat \ {0}
  PROVE  /\ AlignedScan(n, a)[0] = AlignedStart
         /\ \A p \in 1..TotalPages :
              AlignedScan(n, a)[p] = AlignedStep(n, a, AlignedScan(n, a)[p - 1], p - 1)
  <1> DEFINE E(f) == f = [p \in 0..TotalPages |->
                            IF p = 0 THEN AlignedStart ELSE AlignedStep(n, a, f[p - 1], p - 1)]
             G == [x \in Nat \X AlignedStates |-> AlignedStep(n, a, x[2], x[1])]
  <1>1. ASSUME NEW q \in Nat, NEW s \in AlignedStates
        PROVE  AlignedStep(n, a, s, q) \in AlignedStates
    <2>1. s.run \in RunStates /\ s.in \in BOOLEAN
      BY DEF AlignedStates
    <2>2. [s.run EXCEPT !.continuous = 0] \in RunStates /\ Counted(n, s.run, q) \in RunStates
      BY <2>1 DEF Counted, RunStates
    <2> QED
      BY <2>1, <2>2 DEF AlignedStep, AlignedStates
  <1>2. /\ G \in [Nat \X AlignedStates -> AlignedStates]
        /\ \A q \in Nat, s \in AlignedStates : G[<<q, s>>] = AlignedStep(n, a, s, q)
    BY <1>1
  <1>3. AlignedStart \in AlignedStates /\ TotalPages \in Nat
    BY PmmAssumption DEF AlignedStart, AlignedStates, RunStart, RunStates
  <1> HIDE DEF G
  <1>4. PICK f \in [0..TotalPages -> AlignedStates] :
          f[0] = AlignedStart /\ \A p \in 1..TotalPages : f[p] = G[<<p - 1, f[p - 1]>>]
    <2>1. Loops(AlignedStates, AlignedStart, G, TotalPages) # {}
      BY <1>2, <1>3, LoopStates, Zenon
    <2> QED
      BY <2>1 DEF Loops
  <1>5. E(f)
    <2>1. ASSUME NEW p \in 0..TotalPages
          PROVE  f[p] = IF p = 0 THEN AlignedStart ELSE AlignedStep(n, a, f[p - 1], p - 1)
      <3>1. CASE p = 0
        BY <1>4, <3>1
      <3>2. CASE p # 0
        <4>1. p \in 1..TotalPages /\ p - 1 \in 0..TotalPages /\ p - 1 \in Nat
          BY <1>3, <3>2
        <4>2. f[p] = G[<<p - 1, f[p - 1]>>] /\ f[p - 1] \in AlignedStates
          BY <1>4, <4>1
        <4> QED
          BY <1>2, <3>2, <4>1, <4>2, Zenon
      <3> QED
        BY <3>1, <3>2
    <2> QED
      BY <1>4, <2>1
  <1>6. AlignedScan(n, a) = CHOOSE g : E(g)
    BY DEF AlignedScan
  <1>7. E(AlignedScan(n, a))
    BY <1>5, <1>6, Zenon
  <1> QED
    BY <1>3, <1>7

(* pmm_alloc_aligned_range finds the lowest aligned run of n free pages.   *)
LEMMA AlignedFindsLowest ==
  ASSUME NEW n \in Nat \ {0}, NEW a \in Nat \ {0}
  PROVE  ScanAligned(n, a) = LowestOrNone(AlignedRuns(n, a))
  <1>1. TotalPages \in Nat /\ TotalPages > 0
    BY PmmAssumption
  <1> DEFINE L == AlignedScan(n, a)
             S == {p \in 0..TotalPages : AlignedOK(n, a, L[p], p)}
  <1>2. 0 \in S
    <2>1. /\ RunStart \in RunStates /\ RunStart.found = None /\ RunStart.continuous = 0
          /\ AlignedStart.run = RunStart /\ AlignedStart.in = FALSE
      BY DEF RunStart, RunStates, AlignedStart
    <2>2. Counting(n, a, RunStart, 0)
      BY <2>1 DEF Counting, AlignedRuns, Runs, Page
    <2>3. RunOK(n, a, RunStart, 0)
      BY <2>1, <2>2 DEF RunOK
    <2>4. AlignedOK(n, a, AlignedStart, 0)
      BY <2>1, <2>3 DEF AlignedOK
    <2> QED
      BY <1>1, <2>4, AlignedScanLoop
  <1>3. ASSUME NEW p \in 0..TotalPages - 1, p \in S PROVE p + 1 \in S
    <2> DEFINE s == L[p]
               t == L[p + 1]
    <2>1. p \in Page /\ p \in Nat /\ p + 1 \in 1..TotalPages /\ (p + 1) - 1 = p
      BY <1>1 DEF Page
    <2>2. L[p + 1] = AlignedStep(n, a, L[(p + 1) - 1], (p + 1) - 1)
      BY <2>1, AlignedScanLoop
    <2>3. t = AlignedStep(n, a, s, p)
      BY <2>1, <2>2, Zenon
    <2>4. AlignedOK(n, a, s, p)
      BY <1>3
    <2> HIDE DEF L, s, t
    <2>5. /\ RunOK(n, a, s.run, p)
          /\ s.run.found = None => (s.in <=> s.run.continuous > 0)
          /\ s.run.found = None => s.run.continuous \in Nat
      BY <2>4 DEF AlignedOK, RunOK, RunStates
    <2>6. AlignedOK(n, a, t, p + 1)
      <3>1. CASE s.run.found # None
        <4>1. t = s
          BY <2>3, <3>1 DEF AlignedStep
        <4> QED
          BY <2>5, <3>1, <4>1, Zenon DEF AlignedOK, RunOK
      <3>2. CASE s.run.found = None /\ p \in bitmap /\ (Full(Byte(p)) \/ s.in \/ p % a = 0)
        <4>1. t = [run |-> [s.run EXCEPT !.continuous = 0], in |-> FALSE]
          BY <2>3, <3>2 DEF AlignedStep
        <4>2. RunOK(n, a, [s.run EXCEPT !.continuous = 0], p + 1)
          BY <2>1, <2>5, <3>2, UsedEnds
        <4>3. [s.run EXCEPT !.continuous = 0].continuous = 0
          BY <2>5 DEF RunOK, RunStates
        <4>4. t.run = [s.run EXCEPT !.continuous = 0] /\ t.in = FALSE
          BY <4>1
        <4>5. RunOK(n, a, t.run, p + 1) /\ t.run.continuous = 0 /\ t.in = FALSE
          BY <4>2, <4>3, <4>4, Zenon
        <4> QED
          BY <4>5 DEF AlignedOK
      <3>3. CASE s.run.found = None /\ ~Full(Byte(p)) /\ ~s.in /\ p % a # 0
        <4>1. t = s
          BY <2>3, <3>3 DEF AlignedStep
        <4>2. s.run.continuous = 0 /\ s.run \in RunStates /\ Counting(n, a, s.run, p)
          BY <2>5, <3>3 DEF RunOK
        <4>3. ASSUME NEW r \in AlignedRuns(n, a) PROVE p + 1 <= r
          <5>1. p <= r /\ r % a = 0 /\ r \in Nat
            BY <2>1, <4>2 DEF Counting, AlignedRuns, Runs, Page
          <5> QED
            BY <2>1, <3>3, <5>1
        <4>4. Counting(n, a, s.run, p + 1)
          BY <2>1, <4>2, <4>3 DEF Counting
        <4>5. RunOK(n, a, s.run, p + 1)
          BY <3>3, <4>2, <4>4 DEF RunOK
        <4> QED
          BY <2>5, <4>1, <4>5, Zenon DEF AlignedOK
      <3>4. CASE s.run.found = None /\ p \notin bitmap /\ (s.in \/ p % a = 0)
        <4>1. ~Full(Byte(p))
          BY <2>1, <3>4, FullIsUsed
        <4>2. t = [run |-> Counted(n, s.run, p), in |-> TRUE]
          BY <2>3, <3>4, <4>1 DEF AlignedStep
        <4>3. s.run.continuous = 0 => p % a = 0
          BY <2>5, <3>4
        <4>4. RunOK(n, a, Counted(n, s.run, p), p + 1)
          BY <2>1, <2>5, <3>4, <4>3, FreeCounts
        <4>5. Counted(n, s.run, p).continuous > 0
          BY <2>5, <3>4 DEF Counted
        <4>6. t.run = Counted(n, s.run, p) /\ t.in = TRUE
          BY <4>2
        <4>7. RunOK(n, a, t.run, p + 1) /\ t.run.continuous > 0 /\ t.in = TRUE
          BY <4>4, <4>5, <4>6, Zenon
        <4> QED
          BY <4>7 DEF AlignedOK
      <3>5. Full(Byte(p)) => p \in bitmap
        BY <2>1, FullIsUsed
      <3> QED
        BY <3>1, <3>2, <3>3, <3>4, <3>5
    <2> QED
      BY <1>1, <2>1, <2>6 DEF t
  <1> HIDE DEF S
  <1>4. TotalPages \in S
    BY <1>1, <1>2, <1>3, AtTheEnd
  <1>5. RunOK(n, a, L[TotalPages].run, TotalPages)
    BY <1>4 DEF S, AlignedOK
  <1>6. L[TotalPages].run.found = LowestOrNone(AlignedRuns(n, a))
    BY <1>5, FoundAtEnd
  <1> QED
    BY <1>6 DEF ScanAligned

-----------------------------------------------------------------------------
(* The search for one page, byte by byte. *)

(* The free pages from byte b on.                                          *)
FreeFrom(b) == {p \in Free : b * ByteBits <= p}

PageStep(b, next) ==
    IF b = BitmapBytes THEN None
    ELSE IF Full(b) \/ Lowest(Bits(b) \ bitmap) >= TotalPages THEN next
    ELSE Lowest(Bits(b) \ bitmap)

(* The bytes of the bitmap have a bit for every page.                      *)
LEMMA BytesCover == BitmapBytes \in Nat /\ TotalPages <= BitmapBytes * ByteBits
  <1>1. TotalPages \in Nat /\ ByteBits \in Nat /\ ByteBits > 0
    BY PmmAssumption
  <1> DEFINE x == TotalPages + ByteBits - 1
  <1>2. x \in Nat /\ TotalPages = x - ByteBits + 1
    BY <1>1
  <1> HIDE DEF x
  <1>3. x \div ByteBits \in Nat /\ x - ByteBits + 1 <= (x \div ByteBits) * ByteBits
    BY <1>1, <1>2, SMTT(30)
  <1> QED
    BY <1>2, <1>3 DEF BitmapBytes, x

(* From each byte on, the lowest free page is what the round of that byte  *)
(* returns when the rest of the loop returns the lowest of the rest.       *)
LEMMA PageRound ==
  ASSUME NEW b \in 0..BitmapBytes
  PROVE  LowestOrNone(FreeFrom(b)) = PageStep(b, LowestOrNone(FreeFrom(b + 1)))
  <1>1. /\ TotalPages \in Nat /\ ByteBits \in Nat /\ ByteBits > 0
        /\ BitmapBytes \in Nat /\ TotalPages <= BitmapBytes * ByteBits
    BY PmmAssumption, BytesCover
  <1>2. FreeFrom(b) \in SUBSET Nat /\ \A p \in Free : p \in Nat /\ p < TotalPages
    BY <1>1 DEF FreeFrom, Free, Page
  <1>3. CASE b = BitmapBytes
    <2>1. FreeFrom(b) = {}
      BY <1>1, <1>2, <1>3 DEF FreeFrom
    <2> QED
      BY <1>3, <2>1 DEF PageStep, LowestOrNone
  <1>4. CASE b # BitmapBytes
    <2> DEFINE lo == b * ByteBits
               C == Bits(b) \ bitmap
    <2>1. b \in Nat /\ lo \in Nat /\ (b + 1) * ByteBits = lo + ByteBits
      BY <1>1
    <2>2. Bits(b) = lo..lo + ByteBits - 1 /\ FreeFrom(b) = {p \in Free : lo <= p}
      BY DEF Bits, FreeFrom
    <2>3. FreeFrom(b + 1) = {p \in Free : lo + ByteBits <= p}
      BY <2>1 DEF FreeFrom
    <2> HIDE DEF lo
    <2>4. C \in SUBSET Nat
      BY <1>1, <2>1, <2>2
    <2>5. ASSUME NEW p \in FreeFrom(b) PROVE p \in C \/ p \in FreeFrom(b + 1)
      BY <1>1, <1>2, <2>1, <2>2, <2>3 DEF Free
    <2>6. FreeFrom(b + 1) \subseteq FreeFrom(b)
      BY <1>1, <1>2, <2>1, <2>2, <2>3
    <2>7. CASE Full(b) \/ Lowest(C) >= TotalPages
      <3>1. ASSUME NEW p \in C PROVE p \notin Free
        <4>1. CASE Full(b)
          BY <4>1 DEF Full
        <4>2. CASE Lowest(C) >= TotalPages
          <5>1. Lowest(C) <= p /\ Lowest(C) \in Nat /\ p \in Nat
            BY <2>4, LeastMember
          <5> QED
            BY <1>1, <1>2, <4>2, <5>1
        <4> QED
          BY <2>7, <4>1, <4>2
      <3>2. FreeFrom(b) = FreeFrom(b + 1)
        BY <2>2, <2>5, <2>6, <3>1
      <3> QED
        BY <1>4, <2>7, <3>2 DEF PageStep
    <2>8. CASE ~Full(b) /\ ~(Lowest(C) >= TotalPages)
      <3>1. C # {}
        BY <2>8 DEF Full
      <3>2. Lowest(C) \in C /\ \A y \in C : Lowest(C) <= y
        BY <2>4, <3>1, LeastMember
      <3> DEFINE m == Lowest(C)
      <3>3. m \in Nat /\ lo <= m /\ m < lo + ByteBits /\ m < TotalPages /\ m \notin bitmap
        BY <1>1, <2>1, <2>2, <2>4, <2>8, <3>2
      <3>4. m \in FreeFrom(b)
        BY <1>1, <2>2, <3>3 DEF Free, Page
      <3>5. ASSUME NEW p \in FreeFrom(b) PROVE m <= p
        <4>1. CASE p \in C
          BY <3>2, <4>1
        <4>2. CASE p \in FreeFrom(b + 1)
          <5>1. lo + ByteBits <= p /\ p \in Nat
            BY <1>2, <2>3, <4>2
          <5> HIDE DEF m
          <5> QED
            BY <1>1, <2>1, <3>3, <5>1
        <4> QED
          BY <2>5, <4>1, <4>2
      <3>6. Lowest(FreeFrom(b)) = m
        BY <1>2, <3>4, <3>5, LowestIs, Zenon
      <3>7. LowestOrNone(FreeFrom(b)) = m
        BY <3>4, <3>6, Zenon DEF LowestOrNone
      <3> QED
        BY <1>4, <2>8, <3>7 DEF PageStep
    <2> QED
      BY <2>7, <2>8
  <1> QED
    BY <1>3, <1>4

(* pmm_alloc_page finds the lowest free page.                              *)
LEMMA PageFindsLowest == ScanPage = LowestOrNone(Free)
  <1> DEFINE N == BitmapBytes
             E(f) == f = [b \in 0..N |->
                            IF b = N THEN None
                            ELSE IF Full(b) \/ Lowest(Bits(b) \ bitmap) >= TotalPages
                            THEN f[b + 1]
                            ELSE Lowest(Bits(b) \ bitmap)]
             h == [b \in 0..N |-> LowestOrNone(FreeFrom(b))]
             S == {k \in 0..N : PageScan[N - k] = h[N - k]}
  <1>1. N \in Nat
    BY BytesCover
  <1>2. E(h)
    <2>1. ASSUME NEW b \in 0..N
          PROVE  h[b] = IF b = N THEN None
                        ELSE IF Full(b) \/ Lowest(Bits(b) \ bitmap) >= TotalPages
                        THEN h[b + 1]
                        ELSE Lowest(Bits(b) \ bitmap)
      <3>1. LowestOrNone(FreeFrom(b)) = PageStep(b, LowestOrNone(FreeFrom(b + 1)))
        BY PageRound
      <3>2. h[b] = LowestOrNone(FreeFrom(b))
        OBVIOUS
      <3>3. CASE b = N
        BY <3>1, <3>2, <3>3 DEF PageStep
      <3>4. CASE b # N
        <4>1. b + 1 \in 0..N
          BY <1>1, <3>4
        <4>2. h[b + 1] = LowestOrNone(FreeFrom(b + 1))
          BY <4>1
        <4> QED
          BY <3>1, <3>2, <3>4, <4>2, Zenon DEF PageStep
      <3> QED
        BY <3>3, <3>4
    <2> QED
      BY <2>1, Zenon
  <1>3. PageScan = CHOOSE g : E(g)
    BY DEF PageScan
  <1>4. E(PageScan)
    BY <1>2, <1>3, Zenon
  <1> DEFINE P == PageScan
  <1>5. \A b \in 0..N : P[b] = PageStep(b, P[b + 1])
    BY <1>4, Zenon DEF PageStep
  <1>6. \A b \in 0..N : h[b] = PageStep(b, h[b + 1])
    BY <1>2, Zenon DEF PageStep
  <1> HIDE DEF h, P, N
  <1>7. 0 \in S
    <2>1. N - 0 = N /\ N \in 0..N
      BY <1>1
    <2>2. P[N] = None /\ h[N] = None
      BY <1>5, <1>6, <2>1, Zenon DEF PageStep, N
    <2> QED
      BY <1>1, <2>1, <2>2 DEF P
  <1>8. ASSUME NEW k \in 0..N - 1, k \in S PROVE k + 1 \in S
    <2> DEFINE b == N - (k + 1)
    <2>1. b \in 0..N /\ b + 1 = N - k /\ k + 1 \in 0..N
      BY <1>1
    <2>2. P[b + 1] = h[b + 1]
      BY <1>8, <2>1 DEF P
    <2> HIDE DEF b
    <2>3. P[b] = h[b]
      BY <1>5, <1>6, <2>1, <2>2
    <2> QED
      BY <2>1, <2>3 DEF b, P
  <1> HIDE DEF S
  <1>9. N \in S
    BY <1>1, <1>7, <1>8, AtTheEnd
  <1>10. PageScan[0] = h[0]
    BY <1>1, <1>9 DEF S
  <1>11. h[0] = LowestOrNone(FreeFrom(0))
    BY <1>1 DEF h
  <1>12. FreeFrom(0) = Free
    BY PmmAssumption DEF FreeFrom, Free, Page
  <1> QED
    BY <1>10, <1>11, <1>12 DEF ScanPage

(* The loops of pmm_alloc_page, pmm_find_continuous_pages and              *)
(* pmm_alloc_aligned_range find what module Pmm says, whatever the bitmap, *)
(* for every memory size and every number of bits in a byte.               *)
THEOREM ScansFindLowest == BootSpec => []ScanFindsLowest
  <1>1. ScanFindsLowest
    <2>1. \A n \in 1..TotalPages + 1 : n \in Nat \ {0}
      BY PmmAssumption
    <2>2. \A a \in {1, 2, 4, 8} : a \in Nat \ {0}
      OBVIOUS
    <2> QED
      BY <2>1, <2>2, PageFindsLowest, RunFindsLowest, AlignedFindsLowest
      DEF ScanFindsLowest
  <1> QED
    BY <1>1, PTL

-----------------------------------------------------------------------------
(* The memory left for the heap is 512 MB or more, or none: memory_init    *)
(* gives the heap only the pages of the kernel image.                      *)
HeapInImage == TotalPages - TopReserve - HeapStart \notin 1..HeapLimit - 1

(* What pmm_init took back stays used, and no caller ever owns it.         *)
ReservedKept == Reserved \subseteq bitmap /\ granted \cap Reserved = {}

(* An allocation of free pages keeps it, and returns none of its pages.    *)
LEMMA GrantSpares ==
  ASSUME Addressable, ReservedKept, NEW S \in SUBSET Free, Grant(S)
  PROVE  ReservedKept' /\ returned' \cap Reserved = {}
  <1>1. {PageAt(p) : p \in S} = S
    BY OwnAddress DEF Free
  <1>2. S \cap Reserved = {}
    BY DEF ReservedKept, Free
  <1>3. Reserved' = Reserved
    BY DEF Reserved
  <1> QED
    BY <1>1, <1>2, <1>3 DEF ReservedKept, Grant

(* So does every call.                                                     *)
LEMMA NextSpares ==
  ASSUME Addressable, ReservedKept, Next
  PROVE  ReservedKept' /\ returned' \cap Reserved = {}
  <1>1. Freeable \cap Reserved = {} /\ Reserved' = Reserved
    BY Zenon DEF ReservedKept, Freeable, Free, Reserved
  <1>2. CASE AllocPage
    <2>1. {Lowest(Free)} \in SUBSET Free
      BY <1>2, LowestMember DEF AllocPage, Free
    <2> QED
      BY <1>2, <2>1, GrantSpares DEF AllocPage
  <1>3. ASSUME NEW n \in 0..MaxCount, AllocRange(n)
        PROVE  ReservedKept' /\ returned' \cap Reserved = {}
    <2>1. Lowest(Runs(n)) \in Runs(n)
      BY <1>3, LowestMember DEF AllocRange, Runs
    <2>2. Run(Lowest(Runs(n)), n) \in SUBSET Free
      BY <2>1 DEF Runs
    <2> QED
      BY <1>3, <2>2, GrantSpares DEF AllocRange
  <1>4. ASSUME NEW n \in 0..MaxCount, NEW a \in {1, 2, 4}, AllocAligned(n, a)
        PROVE  ReservedKept' /\ returned' \cap Reserved = {}
    <2>1. Lowest(AlignedRuns(n, a)) \in AlignedRuns(n, a)
      BY <1>4, LowestMember, Zenon DEF AllocAligned, AlignedRuns, Runs
    <2>2. Run(Lowest(AlignedRuns(n, a)), n) \in SUBSET Free
      BY <2>1 DEF AlignedRuns, Runs
    <2> QED
      BY <1>4, <2>2, GrantSpares DEF AllocAligned
  <1>5. ASSUME Fail, bitmap \subseteq bitmap'
        PROVE  ReservedKept' /\ returned' \cap Reserved = {}
    BY <1>1, <1>5 DEF ReservedKept, Fail
  <1>6. ASSUME NEW n \in 0..MaxCount, NEW s \in Page, FreeRange(s, n)
        PROVE  ReservedKept' /\ returned' \cap Reserved = {}
    <2>1. bitmap \cap Reserved \subseteq bitmap' /\ granted' \subseteq granted /\ returned' = {}
      BY <1>1, <1>6 DEF FreeRange
    <2> QED
      BY <1>1, <2>1 DEF ReservedKept
  <1>7. ASSUME NEW p \in Freeable, FreePage(p)
        PROVE  ReservedKept' /\ returned' \cap Reserved = {}
    <2>1. bitmap \cap Reserved \subseteq bitmap' /\ granted' \subseteq granted /\ returned' = {}
      BY <1>1, <1>7 DEF FreePage
    <2> QED
      BY <1>1, <2>1 DEF ReservedKept
  <1>8. CASE Outside
    BY <1>1, <1>8 DEF Outside, ReservedKept
  <1>9. CASE AllocPageFails
    BY <1>5, <1>9 DEF AllocPageFails
  <1>10. ASSUME NEW n \in 0..MaxCount,
                AllocRangeFails(n) \/ \E a \in {1, 2, 4} : AllocAlignedFails(n, a)
         PROVE  ReservedKept' /\ returned' \cap Reserved = {}
    BY <1>5, <1>10 DEF AllocRangeFails, AllocAlignedFails
  <1> QED
    BY <1>2, <1>3, <1>4, <1>6, <1>7, <1>8, <1>9, <1>10 DEF Next

(* Where the heap is the part of the kernel image that the linker script   *)
(* gives it, the page allocator never hands out a page of it.              *)
THEOREM HeapStaysUntouched ==
  Addressable /\ HeapInImage /\ BootSpec => HeapUntouched
  <1>1. BootInit => ReservedKept
    BY DEF BootInit, InitWith, ReservedKept
  <1>2. Addressable /\ ReservedKept /\ [Next]_vars => ReservedKept'
    <2>1. ASSUME ReservedKept, UNCHANGED vars PROVE ReservedKept'
      BY <2>1 DEF ReservedKept, Reserved, vars
    <2> QED
      BY <2>1, NextSpares
  <1>3. HeapInImage => HeapPages \subseteq Reserved /\ HeapPages' = HeapPages
    BY PmmAssumption, KernelMemoryAssumption DEF HeapInImage, HeapPages, Reserved
  <1>4. Addressable /\ HeapInImage /\ ReservedKept /\ [Next]_vars
          => [returned' \cap HeapPages = {}]_vars
    BY <1>3, NextSpares
  <1>5. CASE Addressable /\ HeapInImage
    BY <1>1, <1>2, <1>4, <1>5, PTL DEF BootSpec, HeapUntouched
  <1> QED
    BY <1>5
===============================================================================
