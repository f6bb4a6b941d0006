------------------------------ MODULE HeapProofs ------------------------------
(***************************************************************************)
(* The kernel heap is sound for every header, page and heap size, every    *)
(* alignment and every sequence of malloc, realloc, malloc_aligned and     *)
(* free.                                                                   *)
(***************************************************************************)
EXTENDS Heap, WellFoundedInduction, TLAPS

(* Where the block at h ends.                                              *)
After(f, h) == h + Header + f[h].size

(* What the list of blocks has to keep.  Tiling says that each block is    *)
(* followed by its successor; the steps that merge and split also need     *)
(* that each block but the first follows its predecessor, that the tail is *)
(* in the list, and that no header lies inside another block.              *)
Listed(f) == DOMAIN f \subseteq Nat /\ \A h \in DOMAIN f : f[h] \in Block

Forward(f, tail, end) ==
    \A h \in DOMAIN f :
      /\ After(f, h) <= end
      /\ After(f, h) = end => f[h].next = NULL /\ tail = h
      /\ After(f, h) # end =>
           /\ f[h].next = After(f, h)
           /\ After(f, h) \in DOMAIN f /\ f[After(f, h)].prev = h

Backward(f) ==
    /\ 0 \in DOMAIN f
    /\ \A h \in DOMAIN f :
         IF h = 0 THEN f[h].prev = NULL
         ELSE f[h].prev \in DOMAIN f /\ After(f, f[h].prev) = h

Disjoint(f) == \A g, h \in DOMAIN f : g < h => After(f, g) <= h

ListOK(f, tail, end) ==
    /\ Listed(f) /\ tail \in DOMAIN f /\ end \in Nat /\ After(f, tail) = end
    /\ Forward(f, tail, end) /\ Backward(f) /\ Disjoint(f)

HeapOK(H) ==
    /\ H = [hdr |-> H.hdr, tail |-> H.tail, end |-> H.end]
    /\ ListOK(H.hdr, H.tail, H.end)

Used(H) == {h \in DOMAIN H.hdr : ~H.hdr[h].free}

(* Callers hold the used blocks, each with room for what was asked and,    *)
(* for an aligned allocation, for the pointer stored before it.            *)
Owner == [size : Nat, aligned : Nat \cup {NULL}]

Room(h, size, o) ==
    /\ size >= o.size
    /\ o.aligned # NULL => /\ o.aligned - PtrSize >= h + Header
                           /\ o.aligned + o.size <= h + Header + size

Owned(H, o) ==
    DOMAIN o = Used(H) /\ \A h \in Used(H) : o[h] \in Owner /\ Room(h, H.hdr[h].size, o[h])

HeapInv ==
    /\ HeapOK(Globals) /\ heap_end <= MaxHeap /\ Owned(Globals, owned)
    /\ panicked \in BOOLEAN

-----------------------------------------------------------------------------
(* The list under the three changes made to it. *)

(* F is f with the block h split after n bytes, with the block h merged    *)
(* with its successor n, or with a block of s bytes added at e.            *)
SplitAt(F, f, h, n, new) ==
    /\ DOMAIN F = DOMAIN f \cup {new}
    /\ F[new] = [size |-> f[h].size - n - Header, free |-> TRUE, prev |-> h, next |-> f[h].next]
    /\ \A g \in DOMAIN f \ {new} :
         F[g] = [size |-> IF g = h THEN n ELSE f[g].size, free |-> f[g].free,
                 prev |-> IF g = f[h].next THEN new ELSE f[g].prev,
                 next |-> IF g = h THEN new ELSE f[g].next]

MergedAt(F, f, h, n) ==
    /\ DOMAIN F = DOMAIN f \ {n}
    /\ \A g \in DOMAIN f \ {n} :
         F[g] = [size |-> IF g = h THEN f[h].size + Header + f[n].size ELSE f[g].size,
                 free |-> f[g].free,
                 prev |-> IF g = f[n].next THEN h ELSE f[g].prev,
                 next |-> IF g = h THEN f[n].next ELSE f[g].next]

GrownAt(F, f, t, e, s) ==
    /\ DOMAIN F = DOMAIN f \cup {e}
    /\ F[e] = [size |-> s - Header, free |-> TRUE, prev |-> t, next |-> NULL]
    /\ \A g \in DOMAIN f \ {e} :
         F[g] = [size |-> f[g].size, free |-> f[g].free, prev |-> f[g].prev,
                 next |-> IF g = t THEN e ELSE f[g].next]

(* F is f with one link of the block a replaced, if there is such a block. *)
WithPrev(F, f, a, p) ==
    /\ DOMAIN F = DOMAIN f
    /\ \A g \in DOMAIN f :
         F[g] = [size |-> f[g].size, free |-> f[g].free,
                 prev |-> IF g = a THEN p ELSE f[g].prev, next |-> f[g].next]

WithNext(F, f, a, n) ==
    /\ DOMAIN F = DOMAIN f
    /\ \A g \in DOMAIN f :
         F[g] = [size |-> f[g].size, free |-> f[g].free,
                 prev |-> f[g].prev, next |-> IF g = a THEN n ELSE f[g].next]

(* A block's end is past its start.                                        *)
LEMMA AfterType ==
  ASSUME NEW f, Listed(f), NEW h \in DOMAIN f
  PROVE  /\ h \in Nat /\ f[h].size \in Nat /\ After(f, h) \in Nat /\ h < After(f, h)
         /\ f[h].free \in BOOLEAN /\ f[h] \in Block
  BY HeapAssumption DEF Listed, Block, After

(* No two blocks end at the same place or have the same successor.         *)
LEMMA NextUnique ==
  ASSUME NEW f, NEW t, NEW e, ListOK(f, t, e), NEW g \in DOMAIN f, NEW h \in DOMAIN f, g # h
  PROVE  After(f, g) # After(f, h) /\ f[g].next # f[h].next
  <1>1. /\ g \in Nat /\ h \in Nat /\ After(f, g) \in Nat /\ After(f, h) \in Nat
        /\ g < After(f, g) /\ h < After(f, h)
    BY AfterType DEF ListOK
  <1>2. After(f, g) # After(f, h)
    BY <1>1 DEF ListOK, Disjoint
  <1> QED
    BY <1>1, <1>2, HeapAssumption DEF ListOK, Forward

(* split_block: the first part keeps the block's place, the rest becomes a *)
(* block of its own behind it.                                             *)
LEMMA SplitList ==
  ASSUME NEW f, NEW t, NEW e, ListOK(f, t, e), NEW h \in DOMAIN f, NEW n \in Nat,
         f[h].size >= n + MinSplit,
         NEW new, new = h + Header + n,
         NEW F, SplitAt(F, f, h, n, new)
  PROVE  new \notin DOMAIN f /\ ListOK(F, IF t = h THEN new ELSE t, e)
  <1> DEFINE T == IF t = h THEN new ELSE t
  <1>0. /\ DOMAIN F = DOMAIN f \cup {new}
        /\ F[new] = [size |-> f[h].size - n - Header, free |-> TRUE, prev |-> h,
                     next |-> f[h].next]
        /\ \A g \in DOMAIN f \ {new} :
             F[g] = [size |-> IF g = h THEN n ELSE f[g].size, free |-> f[g].free,
                     prev |-> IF g = f[h].next THEN new ELSE f[g].prev,
                     next |-> IF g = h THEN new ELSE f[g].next]
    BY Zenon DEF SplitAt
  <1> USE <1>0
  <1>1. /\ h \in Nat /\ f[h].size \in Nat /\ new \in Nat /\ h < new /\ new < After(f, h)
        /\ f[h].size - n - Header \in Nat
    BY AfterType, HeapAssumption DEF ListOK, MinSplit, After
  <1>2. new \notin DOMAIN f
    BY <1>1, AfterType DEF ListOK, Disjoint
  <1>3. /\ DOMAIN f \subseteq Nat /\ \A g \in DOMAIN f : f[g] \in Block
    BY DEF ListOK, Listed
  <1>4. Listed(F)
    <2>1. F[new] \in Block
      BY <1>1, <1>3 DEF Block
    <2>2. ASSUME NEW g \in DOMAIN f PROVE F[g] \in Block
      BY <1>1, <1>2, <1>3 DEF Block
    <2> QED
      BY <1>1, <1>3, <2>1, <2>2 DEF Listed
  <1>5. /\ After(F, new) = After(f, h) /\ After(F, h) = new
        /\ \A g \in DOMAIN f \ {h} : After(F, g) = After(f, g) /\ F[g].next = f[g].next
        /\ \A g \in DOMAIN f : F[g].prev = IF g = f[h].next THEN new ELSE f[g].prev
        /\ F[new].prev = h /\ F[new].next = f[h].next /\ F[h].next = new
    BY <1>1, <1>2, <1>3, HeapAssumption DEF After, Block
  <1> HIDE DEF T
  <1>6. ASSUME NEW g \in DOMAIN f, g # h PROVE After(f, g) # After(f, h) /\ f[g].next # f[h].next
    BY <1>6, NextUnique
  <1>7. /\ After(f, h) = e => f[h].next = NULL /\ t = h
        /\ After(f, h) # e => /\ f[h].next = After(f, h) /\ f[h].next \in DOMAIN f
                              /\ f[h].next # 0
        /\ After(f, h) <= e /\ e \in Nat
    BY <1>1, AfterType DEF ListOK, Forward
  <1>8. Forward(F, T, e)
    <2>1. ASSUME NEW g \in DOMAIN F
          PROVE  /\ After(F, g) <= e
                 /\ After(F, g) = e => F[g].next = NULL /\ T = g
                 /\ After(F, g) # e =>
                      /\ F[g].next = After(F, g)
                      /\ After(F, g) \in DOMAIN F /\ F[After(F, g)].prev = g
      <3>1. CASE g = new
        BY <1>5, <1>7, <3>1 DEF T
      <3>2. CASE g = h
        BY <1>1, <1>5, <1>7, AfterType, <3>2 DEF ListOK
      <3>3. CASE g \in DOMAIN f \ {h}
        <4>1. /\ After(f, g) <= e
              /\ After(f, g) = e => f[g].next = NULL /\ t = g
              /\ After(f, g) # e =>
                      /\ f[g].next = After(f, g)
                      /\ After(f, g) \in DOMAIN f /\ f[After(f, g)].prev = g
          BY <3>3 DEF ListOK, Forward
        <4> QED
          BY <1>5, <1>6, <3>3, <4>1 DEF T
      <3> QED
        BY <3>1, <3>2, <3>3
    <2> QED
      BY <2>1 DEF Forward
  <1>9. Backward(F)
    <2>1. 0 \in DOMAIN F /\ F[0].prev = NULL
      BY <1>1, <1>5, <1>7, HeapAssumption DEF ListOK, Backward
    <2>2. ASSUME NEW g \in DOMAIN F, g # 0 PROVE F[g].prev \in DOMAIN F /\ After(F, F[g].prev) = g
      <3>1. CASE g = new
        BY <1>5, <3>1
      <3>2. CASE g \in DOMAIN f /\ g = f[h].next
        BY <1>1, <1>3, <1>5, <1>7, <3>2, HeapAssumption
      <3>3. CASE g \in DOMAIN f /\ g # f[h].next
        <4>1. F[g].prev = f[g].prev /\ f[g].prev \in DOMAIN f /\ After(f, f[g].prev) = g
          BY <1>5, <2>2, <3>3 DEF ListOK, Backward
        <4>2. f[g].prev # h
          <5>1. After(f, g) <= e /\ g < After(f, g) /\ After(f, g) \in Nat /\ g \in Nat
            BY <3>3, AfterType DEF ListOK, Forward
          <5> QED
            BY <1>7, <3>3, <4>1, <5>1
        <4> QED
          BY <1>5, <4>1, <4>2
      <3> QED
        BY <3>1, <3>2, <3>3
    <2> QED
      BY <2>1, <2>2 DEF Backward
  <1>10. Disjoint(F)
    <2>1. \A g, k \in DOMAIN f : g < k => After(f, g) <= k
      BY DEF ListOK, Disjoint
    <2>2. \A g \in DOMAIN f : g \in Nat /\ After(f, g) \in Nat /\ g < After(f, g)
      BY AfterType DEF ListOK
    <2> QED
      BY <1>1, <1>5, <2>1, <2>2 DEF Disjoint
  <1>11. T \in DOMAIN F /\ After(F, T) = e
    BY <1>5 DEF T, ListOK
  <1> QED
    BY <1>2, <1>4, <1>7, <1>8, <1>9, <1>10, <1>11 DEF ListOK, T

(* coalesce: a block takes in its successor.                               *)
LEMMA MergeList ==
  ASSUME NEW f, NEW t, NEW e, ListOK(f, t, e), NEW h \in DOMAIN f,
         NEW n, n = f[h].next, n # NULL,
         NEW F, MergedAt(F, f, h, n)
  PROVE  n \in DOMAIN f /\ n # h /\ ListOK(F, IF t = n THEN h ELSE t, e)
  <1> DEFINE T == IF t = n THEN h ELSE t
  <1>0. /\ DOMAIN F = DOMAIN f \ {n}
        /\ \A g \in DOMAIN f \ {n} :
             F[g] = [size |-> IF g = h THEN f[h].size + Header + f[n].size ELSE f[g].size,
                     free |-> f[g].free,
                     prev |-> IF g = f[n].next THEN h ELSE f[g].prev,
                     next |-> IF g = h THEN f[n].next ELSE f[g].next]
    BY Zenon DEF MergedAt
  <1> USE <1>0
  <1>1. /\ DOMAIN f \subseteq Nat /\ e \in Nat
        /\ \A g \in DOMAIN f : /\ g \in Nat /\ f[g].size \in Nat /\ After(f, g) \in Nat
                               /\ g < After(f, g) /\ f[g] \in Block
    BY AfterType DEF ListOK, Listed
  <1>2. /\ \A g \in DOMAIN f :
             /\ After(f, g) <= e
             /\ After(f, g) = e => f[g].next = NULL /\ t = g
             /\ After(f, g) # e =>
                  /\ f[g].next = After(f, g)
                  /\ After(f, g) \in DOMAIN f /\ f[After(f, g)].prev = g
    BY DEF ListOK, Forward
  <1>3. n = After(f, h) /\ n \in DOMAIN f /\ n # h /\ n # 0 /\ h # f[n].next /\ n # f[n].next
    BY <1>1, <1>2, HeapAssumption
  <1>4. Listed(F)
    <2>1. ASSUME NEW g \in DOMAIN F PROVE F[g] \in Block
      BY <1>1, <1>3, HeapAssumption DEF Block
    <2> QED
      BY <1>1, <2>1 DEF Listed
  <1>5. /\ h \in DOMAIN F /\ After(F, h) = After(f, n) /\ F[h].next = f[n].next
        /\ \A g \in DOMAIN F \ {h} : After(F, g) = After(f, g) /\ F[g].next = f[g].next
        /\ \A g \in DOMAIN F : F[g].prev = IF g = f[n].next THEN h ELSE f[g].prev
    BY <1>1, <1>3, HeapAssumption DEF After
  <1>6. \A g \in DOMAIN f : /\ g # n => After(f, g) # After(f, n) /\ f[g].next # f[n].next
                            /\ g # h => After(f, g) # n /\ f[g].next # n
    <2>1. ASSUME NEW g \in DOMAIN f, g # n
          PROVE  After(f, g) # After(f, n) /\ f[g].next # f[n].next
      BY <1>3, <2>1, NextUnique
    <2>2. ASSUME NEW g \in DOMAIN f, g # h PROVE After(f, g) # n /\ f[g].next # n
      <3>1. After(f, g) # After(f, h) /\ f[g].next # f[h].next
        BY <2>2, NextUnique
      <3> QED
        BY <1>3, <3>1
    <2> QED
      BY <2>1, <2>2
  <1> HIDE DEF T
  <1>7. Forward(F, T, e)
    <2>1. ASSUME NEW g \in DOMAIN F
          PROVE  /\ After(F, g) <= e
                 /\ After(F, g) = e => F[g].next = NULL /\ T = g
                 /\ After(F, g) # e =>
                      /\ F[g].next = After(F, g)
                      /\ After(F, g) \in DOMAIN F /\ F[After(F, g)].prev = g
      <3>1. CASE g = h
        BY <1>1, <1>2, <1>3, <1>5, <3>1 DEF T
      <3>2. CASE g # h
        <4>1. g \in DOMAIN f /\ g # n /\ After(F, g) = After(f, g) /\ F[g].next = f[g].next
          BY <1>5, <3>2
        <4>2. After(f, g) # e => After(f, g) \in DOMAIN F /\ F[After(f, g)].prev = g
          <5> SUFFICES ASSUME After(f, g) # e
                       PROVE  After(f, g) \in DOMAIN F /\ F[After(f, g)].prev = g
            BY Zenon
          <5>1. f[g].next = After(f, g) /\ After(f, g) \in DOMAIN f /\ f[After(f, g)].prev = g
            BY <1>2, <4>1
          <5>2. After(f, g) # n /\ After(f, g) # f[n].next
            BY <1>6, <3>2, <4>1, <5>1
          <5>3. After(f, g) \in DOMAIN f \ {n}
            BY <5>1, <5>2
          <5>4. After(f, g) \in DOMAIN F
            BY <5>3
          <5>5. F[After(f, g)].prev = f[After(f, g)].prev
            BY <1>5, <5>2, <5>4
          <5> QED
            BY <5>1, <5>4, <5>5
        <4> QED
          BY <1>2, <4>1, <4>2 DEF T
      <3> QED
        BY <3>1, <3>2
    <2> QED
      BY <2>1 DEF Forward
  <1>8. Backward(F)
    <2>1. 0 \in DOMAIN F /\ F[0].prev = NULL
      <3>1. 0 \in DOMAIN f /\ f[0].prev = NULL
        BY DEF ListOK, Backward
      <3>2. f[n].next # 0
        BY <1>1, <1>2, <1>3, HeapAssumption
      <3> QED
        BY <1>3, <1>5, <3>1, <3>2
    <2>2. ASSUME NEW g \in DOMAIN F, g # 0 PROVE F[g].prev \in DOMAIN F /\ After(F, F[g].prev) = g
      <3>1. CASE g = f[n].next
        BY <1>1, <1>2, <1>3, <1>5, <2>2, <3>1, HeapAssumption
      <3>2. CASE g # f[n].next
        <4>1. F[g].prev = f[g].prev /\ f[g].prev \in DOMAIN f /\ After(f, f[g].prev) = g
          BY <1>5, <2>2, <3>2, Zenon DEF ListOK, Backward
        <4>2. f[g].prev # n
          BY <1>1, <1>2, <1>3, <2>2, <3>2, <4>1
        <4>3. f[g].prev # h
          BY <1>3, <2>2, <4>1
        <4> QED
          BY <1>5, <4>1, <4>2, <4>3
      <3> QED
        BY <3>1, <3>2, Zenon
    <2> QED
      BY <2>1, <2>2, Zenon DEF Backward
  <1>9. Disjoint(F)
    <2>1. \A g, k \in DOMAIN f : g < k => After(f, g) <= k
      BY DEF ListOK, Disjoint
    <2>2. ASSUME NEW k \in DOMAIN F, h < k PROVE After(f, n) <= k
      BY <1>1, <1>3, <2>1, <2>2
    <2> QED
      BY <1>5, <2>1, <2>2 DEF Disjoint
  <1>10. T \in DOMAIN F /\ After(F, T) = e
    <2>1. t \in DOMAIN f /\ After(f, t) = e
      BY DEF ListOK
    <2>2. t # h
      BY <1>1, <1>2, <1>3, <2>1
    <2> QED
      BY <1>5, <2>1, <2>2 DEF T
  <1> QED
    BY <1>1, <1>3, <1>4, <1>7, <1>8, <1>9, <1>10 DEF ListOK, T

(* heap_expand: a block behind the last one.                               *)
LEMMA GrowList ==
  ASSUME NEW f, NEW t, NEW e, ListOK(f, t, e), NEW s \in Nat, s >= Header,
         NEW F, GrownAt(F, f, t, e, s)
  PROVE  e \notin DOMAIN f /\ ListOK(F, e, e + s)
  <1>0. /\ DOMAIN F = DOMAIN f \cup {e}
        /\ F[e] = [size |-> s - Header, free |-> TRUE, prev |-> t, next |-> NULL]
        /\ \A g \in DOMAIN f \ {e} :
             F[g] = [size |-> f[g].size, free |-> f[g].free, prev |-> f[g].prev,
                     next |-> IF g = t THEN e ELSE f[g].next]
    BY Zenon DEF GrownAt
  <1> USE <1>0
  <1>1. /\ DOMAIN f \subseteq Nat /\ e \in Nat /\ t \in DOMAIN f /\ After(f, t) = e
        /\ \A g \in DOMAIN f : /\ g \in Nat /\ f[g].size \in Nat /\ After(f, g) \in Nat
                               /\ g < After(f, g) /\ f[g] \in Block
    BY AfterType, Zenon DEF ListOK, Listed
  <1>2. /\ \A g \in DOMAIN f :
             /\ After(f, g) <= e
             /\ After(f, g) = e => f[g].next = NULL /\ t = g
             /\ After(f, g) # e =>
                  /\ f[g].next = After(f, g)
                  /\ After(f, g) \in DOMAIN f /\ f[After(f, g)].prev = g
    BY DEF ListOK, Forward
  <1>3. e \notin DOMAIN f /\ s > 0 /\ e + s \in Nat
    BY <1>1, <1>2, HeapAssumption
  <1>4. Listed(F)
    <2>1. F[e] \in Block
      BY <1>1, HeapAssumption DEF Block
    <2>2. ASSUME NEW g \in DOMAIN f PROVE F[g] \in Block
      BY <1>1, <1>3 DEF Block
    <2> QED
      BY <1>1, <2>1, <2>2, Zenon DEF Listed
  <1>5. /\ After(F, e) = e + s /\ F[e].next = NULL /\ F[e].prev = t
        /\ \A g \in DOMAIN f : /\ After(F, g) = After(f, g) /\ F[g].prev = f[g].prev
                               /\ F[g].next = IF g = t THEN e ELSE f[g].next
    BY <1>1, <1>3, HeapAssumption DEF After
  <1>6. Forward(F, e, e + s)
    <2>1. ASSUME NEW g \in DOMAIN F
          PROVE  /\ After(F, g) <= e + s
                 /\ After(F, g) = e + s => F[g].next = NULL /\ e = g
                 /\ After(F, g) # e + s =>
                      /\ F[g].next = After(F, g)
                      /\ After(F, g) \in DOMAIN F /\ F[After(F, g)].prev = g
      <3>1. CASE g = e
        BY <1>1, <1>3, <1>5, <3>1
      <3>2. CASE g = t
        BY <1>1, <1>3, <1>5, <3>2
      <3>3. CASE g \in DOMAIN f /\ g # t
        BY <1>1, <1>2, <1>3, <1>5, <3>3
      <3> QED
        BY <3>1, <3>2, <3>3, Zenon
    <2> QED
      BY <2>1 DEF Forward
  <1>7. Backward(F)
    BY <1>1, <1>3, <1>5 DEF ListOK, Backward
  <1>8. Disjoint(F)
    <2>1. \A g, k \in DOMAIN f : g < k => After(f, g) <= k
      BY Zenon DEF ListOK, Disjoint
    <2> QED
      <3>1. ASSUME NEW g \in DOMAIN F, NEW k \in DOMAIN F, g < k PROVE After(F, g) <= k
        <4>1. CASE g \in DOMAIN f /\ k \in DOMAIN f
          BY <1>5, <2>1, <3>1, <4>1, Zenon
        <4>2. CASE g \in DOMAIN f /\ k = e
          BY <1>2, <1>5, <4>2, Zenon
        <4>3. CASE g = e
          BY <1>1, <1>2, <1>5, <3>1, <4>3
        <4>4. g \in DOMAIN f \/ g = e
          BY <1>0, Zenon
        <4>5. k \in DOMAIN f \/ k = e
          BY <1>0, Zenon
        <4> HIDE <1>0
        <4> QED
          BY <4>1, <4>2, <4>3, <4>4, <4>5, Zenon
      <3> QED
        BY <3>1, Zenon DEF Disjoint
  <1> QED
    BY <1>1, <1>3, <1>4, <1>5, <1>6, <1>7, <1>8 DEF ListOK

(* What ties the blocks together is their sizes and links.                 *)
LEMMA SameLinks ==
  ASSUME NEW f, NEW t, NEW e, ListOK(f, t, e), NEW F, Listed(F), DOMAIN F = DOMAIN f,
         \A g \in DOMAIN f : /\ F[g].size = f[g].size /\ F[g].prev = f[g].prev
                             /\ F[g].next = f[g].next
  PROVE  ListOK(F, t, e)
  <1>1. \A g \in DOMAIN f : After(F, g) = After(f, g)
    BY DEF After
  <1>2. Forward(F, t, e)
    BY <1>1 DEF ListOK, Forward
  <1>3. Backward(F) /\ Disjoint(F)
    BY <1>1 DEF ListOK, Backward, Disjoint
  <1> QED
    BY <1>1, <1>2, <1>3 DEF ListOK

(* Marking a block free or used moves nothing.                             *)
LEMMA MarkList ==
  ASSUME NEW f, NEW t, NEW e, ListOK(f, t, e), NEW h \in DOMAIN f, NEW b \in BOOLEAN
  PROVE  LET F == [f EXCEPT ![h].free = b]
         IN  /\ ListOK(F, t, e) /\ DOMAIN F = DOMAIN f /\ F[h].free = b
             /\ \A g \in DOMAIN f : F[g].size = f[g].size /\ (g # h => F[g] = f[g])
  <1> DEFINE F == [f EXCEPT ![h].free = b]
  <1>1. DOMAIN f \subseteq Nat /\ \A g \in DOMAIN f : f[g] \in Block
    BY DEF ListOK, Listed
  <1>2. /\ DOMAIN F = DOMAIN f /\ F[h].free = b /\ F[h] \in Block
        /\ \A g \in DOMAIN f : /\ F[g].size = f[g].size /\ F[g].prev = f[g].prev
                               /\ F[g].next = f[g].next /\ (g # h => F[g] = f[g])
    BY <1>1 DEF Block
  <1> HIDE DEF F
  <1>3. Listed(F)
    BY <1>1, <1>2 DEF Listed
  <1>4. ListOK(F, t, e)
    BY <1>2, <1>3, SameLinks
  <1> QED
    BY <1>2, <1>4 DEF F

-----------------------------------------------------------------------------
(* The operations on a heap. *)

(* A block written through a link: the fields that are not named stay.     *)
LEMMA SetPrevAt ==
  ASSUME NEW f, Listed(f), NEW a, NEW p
  PROVE  WithPrev(SetPrev(f, a, p), f, a, p)
  <1>1. ASSUME NEW g \in DOMAIN f
        PROVE  f[g] = [size |-> f[g].size, free |-> f[g].free,
                       prev |-> f[g].prev, next |-> f[g].next]
               /\ g # NULL
    BY <1>1, HeapAssumption DEF Listed, Block
  <1>2. CASE a = NULL
    BY <1>1, <1>2 DEF SetPrev, WithPrev
  <1>3. CASE a # NULL
    BY <1>1, <1>3 DEF SetPrev, WithPrev
  <1> QED
    BY <1>2, <1>3

(* SetNext changes one field of one header.                                *)
LEMMA SetNextAt ==
  ASSUME NEW f, Listed(f), NEW a, NEW n
  PROVE  WithNext(SetNext(f, a, n), f, a, n)
  <1>1. ASSUME NEW g \in DOMAIN f
        PROVE  f[g] = [size |-> f[g].size, free |-> f[g].free,
                       prev |-> f[g].prev, next |-> f[g].next]
               /\ g # NULL
    BY <1>1, HeapAssumption DEF Listed, Block
  <1>2. CASE a = NULL
    BY <1>1, <1>2 DEF SetNext, WithNext
  <1>3. CASE a # NULL
    BY <1>1, <1>3 DEF SetNext, WithNext
  <1> QED
    BY <1>2, <1>3

(* A new size and successor change two fields of one header.               *)
LEMMA ResizeAt ==
  ASSUME NEW f, NEW h \in DOMAIN f, NEW s, NEW n,
         f[h] = [size |-> f[h].size, free |-> f[h].free, prev |-> f[h].prev, next |-> f[h].next]
  PROVE  LET F == [f EXCEPT ![h].size = s, ![h].next = n]
         IN  /\ DOMAIN F = DOMAIN f /\ \A g \in DOMAIN f \ {h} : F[g] = f[g]
             /\ F[h] = [size |-> s, free |-> f[h].free, prev |-> f[h].prev, next |-> n]
  <1> DEFINE F == [f EXCEPT ![h].size = s, ![h].next = n]
             G == [f EXCEPT ![h].size = s]
  <1>1. /\ DOMAIN G = DOMAIN f /\ \A g \in DOMAIN f \ {h} : G[g] = f[g]
        /\ G[h] = [size |-> s, free |-> f[h].free, prev |-> f[h].prev, next |-> f[h].next]
    OBVIOUS
  <1>2. F = [G EXCEPT ![h].next = n]
    OBVIOUS
  <1> HIDE DEF G
  <1>3. DOMAIN F = DOMAIN f /\ \A g \in DOMAIN f \ {h} : F[g] = f[g]
    BY <1>1, <1>2
  <1>4. F[h] = [G[h] EXCEPT !.next = n]
    BY <1>1, <1>2
  <1> QED
    BY <1>1, <1>3, <1>4

(* split_block keeps every block, and the one it splits has room for what  *)
(* is asked; what it adds is free.                                         *)
LEMMA SplitOK ==
  ASSUME NEW H, HeapOK(H), NEW h \in DOMAIN H.hdr, NEW n \in Nat, n <= H.hdr[h].size,
         NEW K, K = SplitBlock(H, h, n)
  PROVE  /\ HeapOK(K) /\ K.end = H.end /\ DOMAIN H.hdr \subseteq DOMAIN K.hdr
         /\ K.hdr[h].size >= n
         /\ \A g \in DOMAIN H.hdr : /\ K.hdr[g].free = H.hdr[g].free
                                    /\ g # h => K.hdr[g].size = H.hdr[g].size
         /\ \A g \in DOMAIN K.hdr \ DOMAIN H.hdr : K.hdr[g].free
  <1> DEFINE f == H.hdr
             b == f[h]
             new == h + Header + n
             rest == [size |-> b.size - n - Header, free |-> TRUE, prev |-> h, next |-> b.next]
             f1 == SetPrev(f, b.next, new)
             f2 == [f1 EXCEPT ![h].size = n, ![h].next = new]
             F == Put(f2, new, rest)
             T == IF H.tail = h THEN new ELSE H.tail
  <1>1. Listed(f) /\ ListOK(f, H.tail, H.end)
    BY DEF HeapOK, ListOK
  <1>2. CASE b.size < n + MinSplit
    BY <1>2, AfterType, <1>1 DEF SplitBlock
  <1>3. CASE ~(b.size < n + MinSplit)
    <2>1. K = [hdr |-> F, tail |-> T, end |-> H.end]
      BY <1>3, Zenon DEF SplitBlock, HeapOK
    <2>2. WithPrev(f1, f, b.next, new)
      BY <1>1, SetPrevAt, Zenon
    <2> HIDE DEF f1
    <2>3. /\ DOMAIN f2 = DOMAIN f
          /\ \A g \in DOMAIN f :
              f2[g] = [size |-> IF g = h THEN n ELSE f[g].size, free |-> f[g].free,
                       prev |-> IF g = b.next THEN new ELSE f[g].prev,
                       next |-> IF g = h THEN new ELSE f[g].next]
      <3>1. /\ DOMAIN f2 = DOMAIN f1 /\ \A g \in DOMAIN f1 \ {h} : f2[g] = f1[g]
            /\ f2[h] = [size |-> n, free |-> b.free,
                        prev |-> IF h = b.next THEN new ELSE b.prev, next |-> new]
        <4>1. h \in DOMAIN f1 /\ f1[h] = [size |-> b.size, free |-> b.free,
                prev |-> IF h = b.next THEN new ELSE b.prev, next |-> b.next]
          BY <2>2, Zenon DEF WithPrev
        <4>2. f1[h] = [size |-> f1[h].size, free |-> f1[h].free, prev |-> f1[h].prev,
                       next |-> f1[h].next]
              /\ f1[h].free = b.free /\ f1[h].prev = IF h = b.next THEN new ELSE b.prev
          BY <4>1
        <4>3. /\ DOMAIN f2 = DOMAIN f1 /\ \A g \in DOMAIN f1 \ {h} : f2[g] = f1[g]
              /\ f2[h] = [size |-> n, free |-> f1[h].free, prev |-> f1[h].prev, next |-> new]
          BY <4>1, <4>2, ResizeAt, Zenon
        <4> HIDE DEF f2
        <4> QED
          BY <4>2, <4>3, Zenon
      <3> HIDE DEF f2
      <3> QED
        BY <2>2, <3>1, Zenon DEF WithPrev
    <2> HIDE DEF f2
    <2>4. SplitAt(F, f, h, n, new)
      BY <2>3, Zenon DEF Put, SplitAt
    <2> HIDE DEF F
    <2>5. b.size >= n + MinSplit
      BY <1>1, <1>3, AfterType, HeapAssumption, SMTT(30) DEF MinSplit
    <2>6. new \notin DOMAIN f /\ ListOK(F, T, H.end)
      BY <1>1, <2>4, <2>5, SplitList, Zenon
    <2> QED
      BY <2>1, <2>4, <2>6 DEF HeapOK, SplitAt
  <1> QED
    BY <1>2, <1>3, Zenon

(* A block that absorbs its free successor keeps its place, and no other   *)
(* block changes.                                                          *)
LEMMA AbsorbOK ==
  ASSUME NEW H, HeapOK(H), NEW h \in DOMAIN H.hdr, H.hdr[h].next # NULL,
         NEW K, K = Absorb(H, h)
  PROVE  /\ HeapOK(K) /\ K.end = H.end
         /\ H.hdr[h].next \in DOMAIN H.hdr \ {h} /\ DOMAIN K.hdr = DOMAIN H.hdr \ {H.hdr[h].next}
         /\ \A g \in DOMAIN K.hdr : /\ K.hdr[g].free = H.hdr[g].free
                                    /\ g # h => K.hdr[g].size = H.hdr[g].size
         /\ K.hdr[h].prev = H.hdr[h].prev
  <1> DEFINE f == H.hdr
             n == f[h].next
             f1 == SetPrev(f, f[n].next, h)
             f2 == [f1 EXCEPT ![h].size = @ + Header + f[n].size, ![h].next = f[n].next]
             F == Drop(f2, n)
             T == IF H.tail = n THEN h ELSE H.tail
  <1>1. Listed(f) /\ ListOK(f, H.tail, H.end)
    BY DEF HeapOK, ListOK
  <1>2. K = [hdr |-> F, tail |-> T, end |-> H.end]
    BY ZenonT(60) DEF Absorb, HeapOK
  <1>3. WithPrev(f1, f, f[n].next, h)
    BY <1>1, SetPrevAt, Zenon
  <1> HIDE DEF f1
  <1>4. /\ DOMAIN f2 = DOMAIN f
        /\ \A g \in DOMAIN f :
             f2[g] = [size |-> IF g = h THEN f[h].size + Header + f[n].size ELSE f[g].size,
                      free |-> f[g].free, prev |-> IF g = f[n].next THEN h ELSE f[g].prev,
                      next |-> IF g = h THEN f[n].next ELSE f[g].next]
    <2>1. h \in DOMAIN f1 /\ f1[h] = [size |-> f[h].size, free |-> f[h].free,
            prev |-> IF h = f[n].next THEN h ELSE f[h].prev, next |-> f[h].next]
      BY <1>3, Zenon DEF WithPrev
    <2> HIDE DEF n
    <2>2. /\ f1[h] = [size |-> f1[h].size, free |-> f1[h].free, prev |-> f1[h].prev,
                      next |-> f1[h].next]
          /\ f1[h].free = f[h].free /\ f1[h].prev = IF h = f[n].next THEN h ELSE f[h].prev
          /\ f1[h].size = f[h].size
      BY <2>1
    <2>3. /\ DOMAIN f2 = DOMAIN f1 /\ \A g \in DOMAIN f1 \ {h} : f2[g] = f1[g]
          /\ f2[h] = [size |-> f1[h].size + Header + f[n].size, free |-> f1[h].free,
                      prev |-> f1[h].prev, next |-> f[n].next]
      BY <2>1, <2>2, ResizeAt, ZenonT(60)
    <2> HIDE DEF f2
    <2>4. DOMAIN f2 = DOMAIN f /\ \A g \in DOMAIN f \ {h} : f2[g] = f1[g]
      BY <1>3, <2>3, Zenon DEF WithPrev
    <2>5. f2[h] = [size |-> f[h].size + Header + f[n].size, free |-> f[h].free,
                   prev |-> IF h = f[n].next THEN h ELSE f[h].prev, next |-> f[n].next]
      BY <2>2, <2>3, Zenon
    <2> QED
      BY <1>3, <2>4, <2>5, Zenon DEF WithPrev
  <1> HIDE DEF f2
  <1>5. MergedAt(F, f, h, n)
    BY <1>4, Zenon DEF Drop, MergedAt
  <1> HIDE DEF F
  <1>6. n \in DOMAIN f /\ n # h /\ ListOK(F, T, H.end)
    BY <1>1, <1>5, MergeList, Zenon
  <1>7. h # f[n].next
    <2>1. \A g \in DOMAIN f : /\ f[g].next = NULL \/ f[g].next = After(f, g)
                              /\ g \in Nat /\ g < After(f, g) /\ After(f, g) \in Nat
      BY <1>1, AfterType, Zenon DEF ListOK, Forward
    <2>2. h \in Nat /\ n \in Nat /\ h < n
      BY <2>1, Zenon
    <2>3. f[n].next = NULL \/ (f[n].next \in Nat /\ n < f[n].next)
      BY <1>6, <2>1, Zenon
    <2> HIDE DEF n
    <2> QED
      BY <2>2, <2>3, HeapAssumption
  <1>8. K.hdr = F /\ K.end = H.end /\ HeapOK(K)
    BY <1>2, <1>6 DEF HeapOK
  <1>9. /\ \A g \in DOMAIN F : F[g].free = f[g].free /\ (g # h => F[g].size = f[g].size)
        /\ F[h].prev = f[h].prev
    <2> HIDE DEF n, f
    <2>1. ASSUME NEW g \in DOMAIN F
          PROVE  F[g].free = f[g].free /\ (g # h => F[g].size = f[g].size)
      <3>1. F[g] = [size |-> IF g = h THEN f[h].size + Header + f[n].size ELSE f[g].size,
                    free |-> f[g].free, prev |-> IF g = f[n].next THEN h ELSE f[g].prev,
                    next |-> IF g = h THEN f[n].next ELSE f[g].next]
        BY <1>5, <2>1, Zenon DEF MergedAt
      <3> QED
        BY <3>1
    <2>2. F[h].prev = f[h].prev
      <3>1. h \in DOMAIN f \ {n}
        BY <1>6 DEF f
      <3>2. F[h].prev = IF h = f[n].next THEN h ELSE f[h].prev
        BY <1>5, <3>1 DEF MergedAt
      <3> QED
        BY <1>7, <3>2
    <2> QED
      BY <2>1, <2>2
  <1> QED
    BY <1>5, <1>6, <1>8, <1>9, Zenon DEF MergedAt

(* The used blocks of H, except those of S, are the used blocks of K, with *)
(* their sizes.                                                            *)
Keeps(H, K, S) ==
    /\ HeapOK(K) /\ K.end = H.end /\ Used(K) = Used(H) \ S
    /\ \A g \in Used(K) : K.hdr[g].size = H.hdr[g].size

(* coalesce: a free block that absorbs its free successor disturbs no used *)
(* block.                                                                  *)
LEMMA MergeOK ==
  ASSUME NEW H, HeapOK(H), NEW h \in DOMAIN H.hdr, H.hdr[h].free,
         H.hdr[h].next # NULL, H.hdr[H.hdr[h].next].free, NEW K, K = Absorb(H, h)
  PROVE  Keeps(H, K, {}) /\ h \in DOMAIN K.hdr /\ K.hdr[h].free /\ K.hdr[h].prev = H.hdr[h].prev
  <1> DEFINE n == H.hdr[h].next
  <1>1. /\ HeapOK(K) /\ K.end = H.end
        /\ n \in DOMAIN H.hdr \ {h} /\ DOMAIN K.hdr = DOMAIN H.hdr \ {n}
        /\ \A g \in DOMAIN K.hdr : /\ K.hdr[g].free = H.hdr[g].free
                                   /\ g # h => K.hdr[g].size = H.hdr[g].size
        /\ K.hdr[h].prev = H.hdr[h].prev
    BY AbsorbOK
  <1> QED
    BY <1>1, ZenonT(60) DEF Keeps, Used

(* Marking a block changes the headers only.                               *)
LEMMA MarkedHeap ==
  ASSUME NEW H, HeapOK(H), NEW h, NEW b
  PROVE  [H EXCEPT !.hdr[h].free = b]
           = [hdr |-> [H.hdr EXCEPT ![h].free = b], tail |-> H.tail, end |-> H.end]
  <1> DEFINE f == H.hdr
             t == H.tail
             e == H.end
  <1>1. H = [hdr |-> f, tail |-> t, end |-> e]
    BY DEF HeapOK
  <1> HIDE DEF f, t, e
  <1>2. [H EXCEPT !.hdr[h].free = b] = [hdr |-> [f EXCEPT ![h].free = b], tail |-> t, end |-> e]
    BY <1>1
  <1> QED
    BY <1>2 DEF f, t, e

(* free: the block is free, every other used block stays as it is, and the *)
(* free neighbours become one block.                                       *)
LEMMA ReleaseOK ==
  ASSUME NEW H, HeapOK(H), NEW h \in Used(H), NEW K, K = Release(H, h)
  PROVE  Keeps(H, K, {h})
  <1> DEFINE G == [H EXCEPT !.hdr[h].free = TRUE]
             F == [H.hdr EXCEPT ![h].free = TRUE]
             n == G.hdr[h].next
             p == G.hdr[h].prev
             M == IF n # NULL /\ G.hdr[n].free THEN Absorb(G, h) ELSE G
  <1>1. h \in DOMAIN H.hdr
    BY DEF Used
  <1>2. G = [hdr |-> F, tail |-> H.tail, end |-> H.end]
    BY MarkedHeap, Zenon
  <1>3. /\ ListOK(F, H.tail, H.end) /\ DOMAIN F = DOMAIN H.hdr /\ F[h].free = TRUE
        /\ \A g \in DOMAIN H.hdr : /\ F[g].size = H.hdr[g].size
                                   /\ g # h => F[g] = H.hdr[g]
    <2>1. ListOK(H.hdr, H.tail, H.end)
      BY DEF HeapOK
    <2> QED
      BY <1>1, <2>1, MarkList, ZenonT(60)
  <1> HIDE DEF F
  <1>4. Keeps(H, G, {h}) /\ h \in DOMAIN G.hdr /\ G.hdr[h].free
    BY <1>1, <1>2, <1>3, Zenon DEF Keeps, HeapOK, Used
  <1> HIDE DEF G
  <1>5. /\ Keeps(G, M, {}) /\ h \in DOMAIN M.hdr /\ M.hdr[h].free /\ M.hdr[h].prev = p
    <2>1. CASE n # NULL /\ G.hdr[n].free
      <3>1. HeapOK(G)
        BY <1>4, Zenon DEF Keeps
      <3>2. M = Absorb(G, h)
        BY <2>1, Zenon
      <3> HIDE DEF M
      <3> QED
        BY <1>4, <2>1, <3>1, <3>2, MergeOK, Zenon
    <2>2. CASE ~(n # NULL /\ G.hdr[n].free)
      BY <1>4, <2>2, Zenon DEF Keeps, Used
    <2> QED
      BY <2>1, <2>2, Zenon
  <1>6. K = IF p # NULL /\ M.hdr[p].free THEN Absorb(M, p) ELSE M
    BY Zenon DEF Release, Coalesce, G
  <1> HIDE DEF M
  <1>7. Keeps(M, K, {})
    <2>1. CASE p # NULL /\ M.hdr[p].free
      <3> DEFINE f == M.hdr
      <3>1. ListOK(f, M.tail, M.end)
        BY <1>5, Zenon DEF Keeps, HeapOK
      <3>2. p \in DOMAIN f /\ After(f, p) = h
        BY <1>5, <2>1, <3>1, Zenon DEF ListOK, Backward
      <3>3. /\ h < After(f, h) /\ After(f, h) <= M.end
            /\ h \in Nat /\ M.end \in Nat /\ After(f, h) \in Nat
        BY <1>5, <3>1, AfterType, Zenon DEF ListOK, Forward
      <3>4. After(f, p) # M.end /\ h # NULL
        BY <3>2, <3>3, HeapAssumption
      <3>5. f[p].next = h
        BY <3>1, <3>2, <3>4, Zenon DEF ListOK, Forward
      <3>6. HeapOK(M) /\ K = Absorb(M, p)
        BY <1>5, <1>6, <2>1, Zenon DEF Keeps
      <3> HIDE DEF p
      <3> QED
        BY <1>5, <2>1, <3>2, <3>4, <3>5, <3>6, MergeOK, Zenon
    <2>2. CASE ~(p # NULL /\ M.hdr[p].free)
      BY <1>5, <1>6, <2>2, Zenon DEF Keeps
    <2> QED
      BY <2>1, <2>2, Zenon
  <1>8. Used(K) = Used(H) \ {h} /\ K.end = H.end
    BY <1>4, <1>5, <1>7, Zenon DEF Keeps
  <1> QED
    BY <1>4, <1>5, <1>7, <1>8 DEF Keeps

-----------------------------------------------------------------------------
(* Sizes. *)

(* Rounding up to a multiple stays within one multiple of the number.      *)
LEMMA RoundUp ==
  ASSUME NEW x \in Nat, NEW a \in Nat \ {0}
  PROVE  ((x + a - 1) \div a) * a \in x..(x + a - 1)
  <1> DEFINE q == (x + a - 1) \div a
  <1>1. q \in Nat
    OBVIOUS
  <1>2. a * q <= x + a - 1 /\ x + a - 1 < a * q + a
    OBVIOUS
  <1>3. q * a = a * q /\ a * q \in Nat
    BY <1>1
  <1> HIDE DEF q
  <1>4. q * a \in x..(x + a - 1)
    BY <1>1, <1>2, <1>3
  <1> QED
    BY <1>4 DEF q

(* ALIGN_UP gives a size no smaller than the one asked.                    *)
LEMMA AlignUpType == ASSUME NEW n \in Nat PROVE AlignUp(n) \in Nat /\ n <= AlignUp(n)
  BY RoundUp, HeapAssumption DEF AlignUp

(* heap_expand adds room for a header and the request.                     *)
LEMMA ExpandSizeType ==
  ASSUME NEW n \in Nat PROVE ExpandSize(n) \in Nat /\ n + Header <= ExpandSize(n)
  <1>1. n + Header \in Nat
    BY HeapAssumption
  <1>2. AlignUp(n + Header) \in Nat /\ n + Header <= AlignUp(n + Header)
    BY <1>1, AlignUpType
  <1>3. ExpandSize(n) \in AlignUp(n + Header)..(AlignUp(n + Header) + PageSize - 1)
    BY <1>2, RoundUp, HeapAssumption, Zenon DEF ExpandSize
  <1> QED
    BY <1>1, <1>2, <1>3, HeapAssumption

(* heap_expand: a free block with room for the request, and no other       *)
(* block changes.                                                          *)
LEMMA ExpandOK ==
  ASSUME NEW H, HeapOK(H), NEW n \in Nat, NEW K, K = Expand(H, n)
  PROVE  /\ HeapOK(K) /\ K.end = H.end + ExpandSize(n) /\ Used(K) = Used(H)
         /\ \A g \in Used(K) : K.hdr[g].size = H.hdr[g].size
         /\ Fits(K, n) # {}
  <1> DEFINE f == H.hdr
             e == H.end
             s == ExpandSize(n)
             block == [size |-> s - Header, free |-> TRUE, prev |-> H.tail, next |-> NULL]
             f1 == SetNext(f, H.tail, e)
             F == Put(f1, e, block)
  <1>1. Listed(f) /\ ListOK(f, H.tail, e)
    BY DEF HeapOK, ListOK
  <1>2. K = [hdr |-> F, tail |-> e, end |-> e + s]
    BY DEF Expand
  <1>3. WithNext(f1, f, H.tail, e)
    BY <1>1, SetNextAt, Zenon
  <1> HIDE DEF f1
  <1>4. GrownAt(F, f, H.tail, e, s)
    BY <1>3, Zenon DEF Put, WithNext, GrownAt
  <1> HIDE DEF F
  <1>5. s \in Nat /\ n + Header <= s /\ s >= Header
    BY ExpandSizeType, HeapAssumption, SMTT(30)
  <1> HIDE DEF s
  <1>6. e \notin DOMAIN f /\ ListOK(F, e, e + s)
    BY <1>1, <1>4, <1>5, GrowList, Zenon
  <1>7. e \in Fits(K, n)
    <2>1. s - Header >= n
      BY <1>5, HeapAssumption
    <2>2. e \in DOMAIN F /\ F[e] = block
      BY <1>4, Zenon DEF GrownAt
    <2>3. F[e].free = TRUE /\ F[e].size = s - Header
      BY <2>2
    <2>4. K.hdr = F
      BY <1>2
    <2> QED
      BY <2>1, <2>2, <2>3, <2>4, Zenon DEF Fits
  <1>8. HeapOK(K) /\ K.end = e + s
    BY <1>2, <1>6 DEF HeapOK
  <1>9. \A g \in DOMAIN f : F[g].size = f[g].size /\ F[g].free = f[g].free
    <2>1. ASSUME NEW g \in DOMAIN f PROVE F[g].size = f[g].size /\ F[g].free = f[g].free
      <3>1. g \in DOMAIN f \ {e}
        BY <1>6
      <3>2. F[g] = [size |-> f[g].size, free |-> f[g].free, prev |-> f[g].prev,
                    next |-> IF g = H.tail THEN e ELSE f[g].next]
        BY <1>4, <3>1, Zenon DEF GrownAt
      <3> QED
        BY <3>2
    <2> QED
      BY <2>1
  <1>10. F[e].free = TRUE
    <2>1. F[e] = block
      BY <1>4, Zenon DEF GrownAt
    <2> QED
      BY <2>1
  <1>11. Used(K) = Used(H) /\ \A g \in Used(K) : K.hdr[g].size = H.hdr[g].size
    BY <1>2, <1>4, <1>9, <1>10 DEF Used, GrownAt
  <1> QED
    BY <1>7, <1>8, <1>11 DEF s

(* A nonempty set of natural numbers has a least member.                   *)
LEMMA MinMember == ASSUME NEW S \in SUBSET Nat, S # {} PROVE Min(S) \in S
  <1>1. PICK x \in S : \A y \in S : <<y, x>> \notin OpToRel(<, Nat)
    BY NatLessThanWellFounded, WFMin, Zenon
  <1>2. ASSUME NEW y \in S PROVE x <= y
    <2>1. ~ (y < x)
      BY <1>1, Zenon DEF OpToRel
    <2> QED
      BY <2>1
  <1> QED
    BY <1>2, Zenon DEF Min

(* The caller of an operation that takes one more block.                   *)
Takes(H, r, n) ==
    /\ HeapOK(r.heap)
    /\ r.at \notin Used(H) /\ Used(r.heap) = Used(H) \cup {r.at}
    /\ \A g \in Used(H) : r.heap.hdr[g].size = H.hdr[g].size
    /\ r.heap.hdr[r.at].size >= n /\ r.at \in Nat /\ r.heap.hdr[r.at].size \in Nat

(* find_fit, split_block and the mark: a free block becomes a used one     *)
(* with room for the request, and no used block changes.                   *)
LEMMA TakeOK ==
  ASSUME NEW H, HeapOK(H), NEW n \in Nat, Fits(H, n) # {}, NEW r, r = Take(H, n)
  PROVE  Takes(H, r, n) /\ r.heap.end = H.end
  <1> DEFINE h == FindFit(H, n)
             S == SplitBlock(H, h, n)
             F == [S.hdr EXCEPT ![h].free = FALSE]
  <1>1. DOMAIN H.hdr \subseteq Nat /\ \A g \in DOMAIN H.hdr : H.hdr[g] \in Block
    BY Zenon DEF HeapOK, ListOK, Listed
  <1>2. h \in Fits(H, n)
    <2>1. Fits(H, n) \in SUBSET Nat
      BY <1>1 DEF Fits
    <2> QED
      BY <2>1, MinMember DEF FindFit
  <1>3. h \in DOMAIN H.hdr /\ H.hdr[h].free /\ H.hdr[h].size >= n /\ H.hdr[h].size \in Nat
    BY <1>1, <1>2 DEF Fits, Block
  <1>4. r.at = h /\ r.heap = [S EXCEPT !.hdr[h].free = FALSE]
    BY SMTT(30) DEF Take
  <1> HIDE DEF h
  <1>5. /\ HeapOK(S) /\ S.end = H.end /\ DOMAIN H.hdr \subseteq DOMAIN S.hdr
        /\ S.hdr[h].size >= n
        /\ \A g \in DOMAIN H.hdr : /\ S.hdr[g].free = H.hdr[g].free
                                   /\ g # h => S.hdr[g].size = H.hdr[g].size
        /\ \A g \in DOMAIN S.hdr \ DOMAIN H.hdr : S.hdr[g].free
    <2>1. n <= H.hdr[h].size
      BY <1>3, Zenon
    <2> QED
      BY <1>3, <2>1, SplitOK, Zenon
  <1> HIDE DEF S
  <1>6. r.heap = [hdr |-> F, tail |-> S.tail, end |-> S.end]
    <2>1. HeapOK(S)
      BY <1>5, Zenon
    <2>2. [S EXCEPT !.hdr[h].free = FALSE]
             = [hdr |-> [S.hdr EXCEPT ![h].free = FALSE], tail |-> S.tail, end |-> S.end]
      BY <2>1, MarkedHeap, Zenon
    <2> QED
      BY <1>4, <2>2, Zenon
  <1>7. /\ ListOK(F, S.tail, S.end) /\ DOMAIN F = DOMAIN S.hdr /\ F[h].free = FALSE
        /\ \A g \in DOMAIN S.hdr : F[g].size = S.hdr[g].size /\ (g # h => F[g] = S.hdr[g])
    <2>1. ListOK(S.hdr, S.tail, S.end) /\ h \in DOMAIN S.hdr
      BY <1>3, <1>5, Zenon DEF HeapOK
    <2> QED
      BY <2>1, MarkList, ZenonT(60)
  <1> HIDE DEF F
  <1>8. HeapOK(r.heap) /\ r.heap.hdr = F /\ r.heap.end = H.end
    BY <1>5, <1>6, <1>7, SMTT(30) DEF HeapOK
  <1>9. h \in DOMAIN F /\ F[h].size >= n /\ F[h].size \in Nat /\ h \in Nat /\ h \notin Used(H)
    BY <1>1, <1>3, <1>5, <1>7, AfterType, Zenon DEF ListOK, Used
  <1>10. Used(r.heap) = Used(H) \cup {h}
    <2>1. DOMAIN F = DOMAIN S.hdr /\ DOMAIN H.hdr \subseteq DOMAIN F
      BY <1>5, <1>7, Zenon
    <2>2. \A g \in DOMAIN H.hdr \ {h} : F[g].free = H.hdr[g].free
      BY <1>5, <1>7, Zenon
    <2>3. \A g \in DOMAIN F \ DOMAIN H.hdr : F[g].free
      BY <1>3, <1>5, <1>7, Zenon
    <2>4. h \in DOMAIN H.hdr /\ F[h].free = FALSE
      BY <1>3, <1>7, Zenon
    <2> QED
      BY <1>8, <2>1, <2>2, <2>3, <2>4, ZenonT(60) DEF Used
  <1>11. \A g \in Used(H) : F[g].size = H.hdr[g].size
    BY <1>3, <1>5, <1>7, Zenon DEF Used
  <1> QED
    BY <1>4, <1>8, <1>9, <1>10, <1>11, Zenon DEF Takes

(* malloc, with its one expansion.                                         *)
LEMMA MallocOK ==
  ASSUME HeapInv, NEW n \in Nat, NEW pages \in BOOLEAN, MallocWorks(n, pages)
  PROVE  Takes(Globals, Malloc(n), n) /\ Malloc(n).heap.end <= MaxHeap
  <1>1. HeapOK(Globals) /\ Globals.end <= MaxHeap
    BY DEF HeapInv, Globals
  <1>2. CASE Fits(Globals, n) # {}
    BY <1>1, <1>2, TakeOK, SMTT(30) DEF Malloc
  <1>3. CASE Fits(Globals, n) = {}
    <2> DEFINE K == Expand(Globals, n)
    <2>1. /\ HeapOK(K) /\ K.end = Globals.end + ExpandSize(n) /\ Used(K) = Used(Globals)
          /\ \A g \in Used(K) : K.hdr[g].size = Globals.hdr[g].size
          /\ Fits(K, n) # {}
      BY <1>1, ExpandOK, Zenon
    <2>2. K.end <= MaxHeap
      BY <1>3, <2>1 DEF MallocWorks, CanExpand
    <2>3. Malloc(n) = Take(K, n)
      BY <1>3 DEF Malloc
    <2> HIDE DEF K
    <2>4. Takes(K, Malloc(n), n) /\ Malloc(n).heap.end = K.end
      BY <2>1, <2>3, TakeOK, Zenon
    <2> QED
      BY <2>1, <2>2, <2>4, Zenon DEF Takes
  <1> QED
    BY <1>2, <1>3, Zenon

-----------------------------------------------------------------------------
(* The calls. *)

(* The caller that takes a block becomes its owner.                        *)
LEMMA OwnMore ==
  ASSUME NEW H, NEW o, Owned(H, o), NEW r, NEW n, Takes(H, r, n),
         NEW v \in Owner, Room(r.at, r.heap.hdr[r.at].size, v)
  PROVE  Owned(r.heap, Put(o, r.at, v))
  <1> DEFINE P == Put(o, r.at, v)
  <1>1. DOMAIN P = Used(r.heap) /\ P[r.at] = v /\ \A g \in Used(H) : P[g] = o[g]
    BY Zenon DEF Owned, Takes, Put
  <1> HIDE DEF P
  <1> QED
    BY <1>1, Zenon DEF Owned, Takes, P

(* The caller that frees a block owns it no more.                          *)
LEMMA OwnLess ==
  ASSUME NEW H, NEW o, Owned(H, o), NEW h \in Used(H), NEW K, Keeps(H, K, {h})
  PROVE  Owned(K, Drop(o, h))
  <1> DEFINE P == Drop(o, h)
  <1>1. DOMAIN P = Used(K) /\ \A g \in Used(K) : P[g] = o[g] /\ g \in Used(H)
    BY Zenon DEF Owned, Keeps, Drop
  <1> HIDE DEF P
  <1> QED
    BY <1>1, Zenon DEF Owned, Keeps, P

(* The heap that an action becomes.                                        *)
LEMMA BecomeOK ==
  ASSUME NEW K, HeapOK(K), K.end <= MaxHeap, Become(K), Owned(K, owned'), panicked' = FALSE
  PROVE  HeapInv'
  <1>1. Globals' = K /\ heap_end' = K.end
    <2>1. Globals' = [hdr |-> K.hdr, tail |-> K.tail, end |-> K.end]
      BY DEF Become, Globals
    <2>2. K = [hdr |-> K.hdr, tail |-> K.tail, end |-> K.end]
      BY DEF HeapOK
    <2> QED
      BY <2>1, <2>2, Zenon DEF Become
  <1>2. HeapOK(Globals)' /\ Owned(Globals, owned)'
    BY <1>1
  <1> QED
    BY <1>1, <1>2, Zenon DEF HeapInv

(* malloc.                                                                 *)
LEMMA MallocStep ==
  ASSUME HeapInv, ~panicked, NEW n \in Sizes, NEW pages \in BOOLEAN, MallocCall(n, pages)
  PROVE  HeapInv'
  <1> DEFINE r == Malloc(AlignUp(n))
             v == [size |-> n, aligned |-> NULL]
  <1>1. n \in Nat /\ AlignUp(n) \in Nat /\ n <= AlignUp(n)
    BY HeapAssumption, AlignUpType
  <1>2. Takes(Globals, r, AlignUp(n)) /\ r.heap.end <= MaxHeap
    BY <1>1, MallocOK, Zenon DEF MallocCall
  <1>3. Become(r.heap) /\ owned' = Put(owned, r.at, v) /\ panicked' = FALSE
    BY DEF MallocCall, HeapInv
  <1> HIDE DEF r
  <1>4. v \in Owner /\ Room(r.at, r.heap.hdr[r.at].size, v)
    BY <1>1, <1>2, SMTT(30) DEF Takes, Owner, Room
  <1> HIDE DEF v
  <1>5. Owned(r.heap, owned')
    BY <1>2, <1>3, <1>4, OwnMore, Zenon DEF HeapInv
  <1> QED
    BY <1>2, <1>3, <1>5, BecomeOK, Zenon DEF Takes

(* malloc_aligned: the aligned address, the pointer before it and the      *)
(* payload all lie inside the block.                                       *)
LEMMA AlignedStep ==
  ASSUME HeapInv, ~panicked, NEW n \in Sizes, NEW a \in Alignments, NEW pages \in BOOLEAN,
         AlignedCall(n, a, pages)
  PROVE  HeapInv'
  <1> DEFINE total == AlignUp(AlignedSize(n, a))
             r == Malloc(total)
             x == r.at + Header + PtrSize
             v == [size |-> n, aligned |-> AlignTo(x, a)]
  <1>1. /\ n \in Nat /\ a \in Nat \ {0} /\ AlignedSize(n, a) \in Nat
        /\ AlignedSize(n, a) = n + a - 1 + PtrSize
    BY HeapAssumption DEF AlignedSize
  <1>2. total \in Nat /\ AlignedSize(n, a) <= total
    BY <1>1, AlignUpType, SMTT(30)
  <1>3. Takes(Globals, r, total) /\ r.heap.end <= MaxHeap
    BY <1>2, MallocOK, Zenon DEF AlignedCall
  <1>4. Become(r.heap) /\ owned' = Put(owned, r.at, v) /\ panicked' = FALSE
    BY Zenon DEF AlignedCall, HeapInv
  <1> HIDE DEF r, total
  <1>5. x \in Nat /\ r.at \in Nat
    BY <1>3, HeapAssumption DEF Takes
  <1>6. AlignTo(x, a) \in x..(x + a - 1)
    BY <1>1, <1>5, RoundUp, Zenon DEF AlignTo
  <1>7. v \in Owner
    BY <1>1, <1>5, <1>6, SMTT(30) DEF Owner
  <1>8. Room(r.at, r.heap.hdr[r.at].size, v)
    <2> DEFINE k == r.heap.hdr[r.at].size
               y == AlignTo(x, a)
               b == r.at
    <2>1. k \in Nat /\ k >= total
      BY <1>3, Zenon DEF Takes
    <2> HIDE DEF k, y, b
    <2>2. k >= n /\ y - PtrSize >= b + Header /\ y + n <= b + Header + k
      BY <1>1, <1>2, <1>5, <1>6, <2>1, HeapAssumption DEF y, b
    <2> QED
      BY <2>2, Zenon DEF Room, k, y, b
  <1> HIDE DEF v
  <1>9. Owned(r.heap, owned')
    BY <1>3, <1>4, <1>7, <1>8, OwnMore, Zenon DEF HeapInv
  <1> QED
    BY <1>3, <1>4, <1>9, BecomeOK, Zenon DEF Takes

(* free and free_aligned.                                                  *)
LEMMA FreeStep ==
  ASSUME HeapInv, ~panicked, NEW h \in DOMAIN owned, FreeCall(h)
  PROVE  HeapInv'
  <1> DEFINE K == Release(Globals, h)
  <1>1. h \in Used(Globals) /\ HeapOK(Globals) /\ Globals.end <= MaxHeap
    BY Zenon DEF HeapInv, Owned, Globals
  <1>2. Keeps(Globals, K, {h})
    BY <1>1, ReleaseOK
  <1>3. Become(K) /\ owned' = Drop(owned, h) /\ panicked' = FALSE
    BY DEF FreeCall, HeapInv
  <1> HIDE DEF K
  <1>4. Owned(K, owned')
    BY <1>1, <1>2, <1>3, OwnLess DEF HeapInv
  <1> QED
    BY <1>1, <1>2, <1>3, <1>4, BecomeOK, ZenonT(60) DEF Keeps

(* realloc to a size that fits: the block is split in place.               *)
LEMMA ShrinkStep ==
  ASSUME HeapInv, ~panicked, NEW n \in Sizes, NEW h \in Plain, ReallocShrinks(h, n)
  PROVE  HeapInv'
  <1> DEFINE K == SplitBlock(Globals, h, AlignUp(n))
             P == [owned EXCEPT ![h].size = n]
  <1>1. n \in Nat /\ AlignUp(n) \in Nat /\ n <= AlignUp(n)
    BY HeapAssumption, AlignUpType, Zenon
  <1>2. /\ h \in Used(Globals) /\ h \in DOMAIN hdr /\ HeapOK(Globals) /\ Globals.end <= MaxHeap
        /\ Globals.hdr = hdr /\ owned[h].aligned = NULL /\ AlignUp(n) <= hdr[h].size
    BY SMTT(30) DEF HeapInv, Owned, Globals, Plain, Used, ReallocShrinks
  <1>3. /\ HeapOK(K) /\ K.end = Globals.end /\ DOMAIN hdr \subseteq DOMAIN K.hdr
        /\ K.hdr[h].size >= AlignUp(n)
        /\ \A g \in DOMAIN hdr : /\ K.hdr[g].free = hdr[g].free
                                 /\ g # h => K.hdr[g].size = hdr[g].size
        /\ \A g \in DOMAIN K.hdr \ DOMAIN hdr : K.hdr[g].free
    <2>1. h \in DOMAIN Globals.hdr /\ AlignUp(n) <= Globals.hdr[h].size
      BY <1>2, Zenon
    <2>2. /\ HeapOK(K) /\ K.end = Globals.end /\ DOMAIN Globals.hdr \subseteq DOMAIN K.hdr
          /\ K.hdr[h].size >= AlignUp(n)
          /\ \A g \in DOMAIN Globals.hdr : /\ K.hdr[g].free = Globals.hdr[g].free
                                           /\ g # h => K.hdr[g].size = Globals.hdr[g].size
          /\ \A g \in DOMAIN K.hdr \ DOMAIN Globals.hdr : K.hdr[g].free
      BY <1>1, <1>2, <2>1, SplitOK, Zenon
    <2> HIDE DEF K
    <2> QED
      BY <1>2, <2>2, Zenon
  <1>4. Become(K) /\ owned' = P /\ panicked' = FALSE
    BY SMTT(30) DEF ReallocShrinks, HeapInv
  <1> HIDE DEF K
  <1>5. Used(K) = Used(Globals)
    BY <1>2, <1>3, Zenon DEF Used
  <1>6. /\ DOMAIN P = DOMAIN owned /\ \A g \in DOMAIN owned \ {h} : P[g] = owned[g]
        /\ P[h] = [size |-> n, aligned |-> NULL]
    BY <1>2, SMTT(30) DEF HeapInv, Owned, Owner
  <1> HIDE DEF P
  <1>7. P[h] \in Owner /\ Room(h, K.hdr[h].size, P[h])
    <2>1. K.hdr[h].size \in Nat
      BY <1>2, <1>3, AfterType, Zenon DEF HeapOK, ListOK
    <2> QED
      <3>1. P[h].size = n /\ P[h].aligned = NULL /\ P[h] \in Owner
        BY <1>1, <1>6 DEF Owner
      <3>2. K.hdr[h].size >= n
        <4> DEFINE k == K.hdr[h].size
        <4>1. k \in Nat /\ k >= AlignUp(n)
          BY <1>3, <2>1, Zenon
        <4> HIDE DEF k
        <4>2. k >= n
          BY <1>1, <4>1
        <4> QED
          BY <4>2 DEF k
      <3> QED
        BY <3>1, <3>2, Zenon DEF Room
  <1>8. Owned(K, P)
    BY <1>2, <1>3, <1>5, <1>6, <1>7, ZenonT(60) DEF HeapInv, Owned, Used
  <1> QED
    BY <1>2, <1>3, <1>4, <1>8, BecomeOK, Zenon

(* realloc to a larger size: a new block is taken before the old one is    *)
(* freed.                                                                  *)
LEMMA MoveStep ==
  ASSUME HeapInv, ~panicked, NEW n \in Sizes, NEW h \in Plain, NEW pages \in BOOLEAN,
         ReallocMoves(h, n, pages)
  PROVE  HeapInv'
  <1> DEFINE r == Malloc(AlignUp(n))
             K == Release(r.heap, h)
             v == [size |-> n, aligned |-> NULL]
  <1>1. n \in Nat /\ AlignUp(n) \in Nat /\ n <= AlignUp(n)
    BY HeapAssumption, AlignUpType, Zenon
  <1>2. Takes(Globals, r, AlignUp(n)) /\ r.heap.end <= MaxHeap
    BY <1>1, MallocOK, Zenon DEF ReallocMoves
  <1>3. Become(K) /\ owned' = Put(Drop(owned, h), r.at, v) /\ panicked' = FALSE
    BY Zenon DEF ReallocMoves, HeapInv
  <1> HIDE DEF r
  <1>4. v \in Owner /\ Room(r.at, r.heap.hdr[r.at].size, v)
    BY <1>1, <1>2, SMTT(30) DEF Takes, Owner, Room
  <1> HIDE DEF v
  <1>5. Owned(r.heap, Put(owned, r.at, v))
    BY <1>2, <1>4, OwnMore, Zenon DEF HeapInv
  <1>6. h \in Used(Globals) /\ h \in Used(r.heap) /\ h # r.at /\ HeapOK(r.heap)
    BY <1>2, Zenon DEF HeapInv, Owned, Plain, Takes
  <1>7. Keeps(r.heap, K, {h})
    BY <1>6, ReleaseOK
  <1> HIDE DEF K
  <1>8. Owned(K, Drop(Put(owned, r.at, v), h))
    BY <1>5, <1>6, <1>7, OwnLess
  <1>9. Drop(Put(owned, r.at, v), h) = Put(Drop(owned, h), r.at, v)
    BY <1>6, Zenon DEF Drop, Put
  <1>10. Owned(K, owned')
    BY <1>3, <1>8, <1>9, SMTT(30)
  <1> QED
    BY <1>2, <1>3, <1>7, <1>10, BecomeOK, Zenon DEF Keeps

(* An allocation that cannot be served stops the machine and changes       *)
(* nothing.                                                                *)
LEMMA PanicStep == ASSUME HeapInv, Panic PROVE HeapInv'
  BY Zenon DEF HeapInv, Panic, Globals, HeapOK, Owned, Used

(* malloc_init leaves one free block that fills the heap.                  *)
LEMMA HeapStarts == HeapInit => HeapInv
  <1> SUFFICES ASSUME HeapInit PROVE HeapInv
    OBVIOUS
  <1>1. /\ DOMAIN hdr = {0} /\ StartSize - Header \in Nat
        /\ hdr[0] = [size |-> StartSize - Header, free |-> TRUE, prev |-> NULL, next |-> NULL]
    BY HeapAssumption DEF HeapInit
  <1>2. hdr[0] \in Block /\ After(hdr, 0) = StartSize
    BY <1>1, HeapAssumption DEF Block, After
  <1>3. ListOK(hdr, 0, StartSize)
    <2>1. Listed(hdr)
      <3>1. DOMAIN hdr = {0}
        BY <1>1, Zenon
      <3> QED
        BY <1>2, <3>1 DEF Listed
    <2>2. Forward(hdr, 0, StartSize)
      <3>1. After(hdr, 0) = StartSize /\ hdr[0].next = NULL /\ StartSize \in Nat
        BY <1>1, <1>2, HeapAssumption
      <3>2. ASSUME NEW h \in DOMAIN hdr PROVE h = 0
        BY <1>1, Zenon
      <3> QED
        BY <3>1, <3>2 DEF Forward
    <2>3. Backward(hdr) /\ Disjoint(hdr)
      BY <1>1 DEF Backward, Disjoint
    <2> QED
      BY <1>1, <1>2, <2>1, <2>2, <2>3, HeapAssumption, Zenon DEF ListOK
  <1>4. HeapOK(Globals)
    BY <1>3, Zenon DEF HeapOK, Globals, HeapInit
  <1>5. Used(Globals) = {} /\ DOMAIN owned = {}
    BY <1>1 DEF Used, Globals, HeapInit
  <1> QED
    BY <1>4, <1>5, HeapAssumption, Zenon DEF HeapInv, Owned, HeapInit

(* Every reachable state of the heap satisfies the inductive invariant.    *)
THEOREM HeapInvariance == HeapSpec => []HeapInv
  <1>1. HeapInv /\ [HeapNext]_heapVars => HeapInv'
    <2> SUFFICES ASSUME HeapInv, [HeapNext]_heapVars PROVE HeapInv'
      BY SMTT(30)
    <2>1. CASE UNCHANGED heapVars
      BY <2>1, Zenon DEF heapVars, HeapInv, Globals, HeapOK, Owned, Used
    <2>2. CASE HeapNext
      BY <2>2, FreeStep, ShrinkStep, MallocStep, MoveStep, AlignedStep, PanicStep, Zenon
      DEF HeapNext, MallocPanics, ReallocPanics, AlignedPanics
    <2> QED
      BY <2>1, <2>2
  <1> QED
    BY <1>1, HeapStarts, PTL DEF HeapSpec

(* Whatever mix of malloc, realloc, malloc_aligned and free the callers    *)
(* choose, the blocks tile the heap, the used ones are those callers hold, *)
(* with room for what they asked, and one expansion is always enough       *)
(* (heap_expand, split_block, coalesce, malloc, free, realloc).            *)
THEOREM HeapIsSound == HeapSpec => []HeapSound
  <1>1. HeapInv => HeapSound
    <2> SUFFICES ASSUME HeapInv PROVE HeapSound
      OBVIOUS
    <2>1. ListOK(hdr, heap_tail, heap_end) /\ HeapOK(Globals)
      BY Zenon DEF HeapInv, HeapOK, Globals
    <2>2. Listed(hdr) /\ heap_end \in Nat /\ heap_end <= MaxHeap /\ heap_tail \in Nat
      BY <2>1 DEF HeapInv, ListOK, Listed
    <2>3. Used(Globals) = {h \in DOMAIN hdr : ~hdr[h].free}
      BY DEF Used, Globals
    <2>4. HeapTypeOK
      <3>1. DOMAIN hdr \subseteq 0..MaxHeap
        <4>1. ASSUME NEW h \in DOMAIN hdr PROVE h \in 0..MaxHeap
          <5>1. h \in Nat /\ After(hdr, h) \in Nat /\ h < After(hdr, h) /\ After(hdr, h) <= heap_end
            BY <2>1, <2>2, AfterType, Zenon DEF ListOK, Forward
          <5> QED
            BY <2>2, <5>1, HeapAssumption, SMTT(30)
        <4> QED
          BY <4>1
      <3> QED
        BY <2>2, <2>3, <3>1, HeapAssumption DEF HeapTypeOK, Listed, HeapInv, Owned
    <2>5. Tiling
      BY <2>1, <2>2, Zenon DEF ListOK, Forward, Backward, After, Tiling
    <2>6. OwnedIntact
      BY <2>3, Zenon DEF HeapInv, Owned, Room, OwnedIntact, Globals
    <2>7. AlignedInside
      BY <2>3, Zenon DEF HeapInv, Owned, Room, AlignedInside, Plain, Globals
    <2>8. OneExpansionSuffices
      <3>1. ASSUME NEW m \in Sizes PROVE Fits(Expand(Globals, AlignUp(m)), AlignUp(m)) # {}
        <4>1. AlignUp(m) \in Nat
          BY HeapAssumption, AlignUpType
        <4> QED
          BY <2>1, <4>1, ExpandOK, Zenon
      <3> QED
        BY <3>1, Zenon DEF OneExpansionSuffices
    <2> QED
      BY <2>4, <2>5, <2>6, <2>7, <2>8 DEF HeapSound
  <1> QED
    BY <1>1, HeapInvariance, PTL
===============================================================================
