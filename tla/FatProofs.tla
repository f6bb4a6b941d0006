------------------------------- MODULE FatProofs -------------------------------
(***************************************************************************)
(* Proofs about module Fat32, for every geometry of the volume and every   *)
(* set of names and texts: the dirty flag of the driver is reliable, and   *)
(* its search for a free cluster finds one whenever there is one.          *)
(***************************************************************************)
EXTENDS Fat32, FiniteSetTheorems, WellFoundedInduction, TLAPS

FatFields ==
    {"fat", "free_count", "next_free", "dirty", "diskFat", "diskFree", "diskNext", "disk"}

(* What a directory slot may hold.                                         *)
FatSlot ==
    {Zero, Deleted, Text, Lfn(TRUE), Lfn(FALSE)} \cup
    [kind : {"file", "dir"}, name : {Render[n] : n \in Name} \cup {".", ".."},
     first : {0} \cup Cluster, size : Nat]

FatBuffer == [1..Slots -> FatSlot]

(* The flag of volume v is reliable.                                       *)
FatClean(v) ==
    ~v.dirty => v.diskFat = v.fat /\ v.diskFree = v.free_count /\ v.diskNext = v.next_free

(* The inductive invariant, of a volume: its types, which decide where the *)
(* loops of fat32_write stop, and the flag.                                *)
FatOK(v) ==
    /\ v = [f \in FatFields |-> v[f]]
    /\ v.fat \in [Cluster -> {FREE, EOC} \cup Cluster]
    /\ v.free_count \in 0..(Word - 1)
    /\ v.dirty \in BOOLEAN
    /\ v.disk \in [OnDisk -> FatBuffer]
    /\ FatClean(v)

FatInv == FatOK(vol)

-----------------------------------------------------------------------------
(* Sets and sequences. *)

(* The least member of a nonempty set of numbers.                          *)
LEMMA FatLeast ==
  ASSUME NEW S \in SUBSET Nat, S # {}
  PROVE  Min(S) \in S /\ \A y \in S : Min(S) <= y
  <1>1. PICK x \in S : \A y \in S : <<y, x>> \notin OpToRel(<, Nat)
    BY NatLessThanWellFounded, WFMin, Zenon
  <1>2. ASSUME NEW y \in S PROVE x <= y
    <2>1. ~ (y < x)
      BY <1>1, Zenon DEF OpToRel
    <2> QED
      BY <2>1
  <1> QED
    BY <1>2, Zenon DEF Min

(* A set of numbers without 0 that has no first number after one that is   *)
(* not in it is empty: what is true at the start of a loop and kept by     *)
(* every round is always true.                                             *)
LEMMA FatNoFirst ==
  ASSUME NEW Bad \in SUBSET Nat, 0 \notin Bad,
         \A n \in Nat : n \notin Bad => n + 1 \notin Bad
  PROVE  Bad = {}
  <1> SUFFICES ASSUME Bad # {} PROVE FALSE
    OBVIOUS
  <1>1. PICK x \in Bad : \A y \in Bad : x <= y
    BY FatLeast, Zenon
  <1>2. x - 1 \in Nat /\ x - 1 \notin Bad
    BY <1>1
  <1>3. (x - 1) + 1 \notin Bad
    BY <1>2
  <1> QED
    BY <1>1, <1>3

(* The part of seq before the indices I.                                   *)
Cut(seq, I) == IF I = {} THEN seq ELSE SubSeq(seq, 1, Min(I) - 1)

(* None of them is in it.                                                  *)
LEMMA CutBefore ==
  ASSUME NEW S, NEW seq \in Seq(S), NEW I \in SUBSET (1..Len(seq))
  PROVE  /\ Cut(seq, I) \in Seq(S)
         /\ \A i \in 1..Len(Cut(seq, I)) :
               i \in 1..Len(seq) /\ i \notin I /\ Cut(seq, I)[i] = seq[i]
  <1> DEFINE r == Cut(seq, I)
  <1>1. CASE I = {}
    BY <1>1 DEF Cut
  <1>2. CASE I # {}
    <2>1. I \in SUBSET Nat
      OBVIOUS
    <2>2. PICK k \in 1..Len(seq) : k = Min(I) /\ \A y \in I : k <= y
      BY <1>2, <2>1, FatLeast, Zenon
    <2>3. r = SubSeq(seq, 1, k - 1)
      BY <1>2, <2>2, Zenon DEF Cut
    <2>4. r \in Seq(S) /\ Len(r) = k - 1 /\ \A i \in 1..(k - 1) : r[i] = seq[i]
      BY <2>2, <2>3
    <2> QED
      BY <2>2, <2>4
  <1> QED
    BY <1>1, <1>2

-----------------------------------------------------------------------------
(* Chains and scans. *)

(* The values a loop over the chain from c meets, in the first n rounds.   *)
IsWalk(g, fat, c, n) ==
    g = [k \in 1..n |-> IF k = 1 THEN c ELSE fat32_next_cluster(fat, g[k - 1])]

(* There are such values, whatever the table holds.                        *)
LEMMA WalkExists == ASSUME NEW fat, NEW c, NEW n \in Nat PROVE \E g : IsWalk(g, fat, c, n)
  <1> DEFINE Bad == {m \in Nat : \A g : ~IsWalk(g, fat, c, m)}
  <1>1. 0 \notin Bad
    <2>1. IsWalk([k \in 1..0 |-> c], fat, c, 0)
      BY DEF IsWalk
    <2> QED
      BY <2>1
  <1>2. ASSUME NEW m \in Nat, m \notin Bad PROVE m + 1 \notin Bad
    <2>1. PICK g : IsWalk(g, fat, c, m)
      BY <1>2
    <2> DEFINE new == IF m = 0 THEN c ELSE fat32_next_cluster(fat, g[m])
               h == [k \in 1..(m + 1) |-> IF k = m + 1 THEN new ELSE g[k]]
    <2>2. ASSUME NEW k \in 1..(m + 1)
          PROVE  h[k] = IF k = 1 THEN c ELSE fat32_next_cluster(fat, h[k - 1])
      <3>1. CASE k = m + 1 /\ m = 0
        BY <3>1
      <3>2. CASE k = m + 1 /\ m # 0
        <4>1. h[k] = fat32_next_cluster(fat, g[m]) /\ h[k - 1] = g[m]
          BY <3>2
        <4> QED
          BY <3>2, <4>1
      <3>3. CASE k # m + 1
        <4>1. k \in 1..m /\ h[k] = g[k] /\ (k # 1 => h[k - 1] = g[k - 1])
          BY <3>3
        <4>2. g[k] = IF k = 1 THEN c ELSE fat32_next_cluster(fat, g[k - 1])
          BY <2>1, <4>1 DEF IsWalk
        <4> QED
          BY <4>1, <4>2
      <3> QED
        BY <3>1, <3>2, <3>3
    <2>3. h = [k \in 1..(m + 1) |-> h[k]]
      OBVIOUS
    <2> HIDE DEF h
    <2>4. IsWalk(h, fat, c, m + 1)
      BY <2>2, <2>3, Zenon DEF IsWalk
    <2> QED
      BY <2>4
  <1> HIDE DEF Bad
  <1>3. Bad \in SUBSET Nat
    BY DEF Bad
  <1>4. Bad = {}
    BY <1>1, <1>2, <1>3, FatNoFirst
  <1> QED
    BY <1>4 DEF Bad

(* The clusters of a chain are clusters of the table.                      *)
LEMMA ChainClusters == ASSUME NEW fat, NEW c PROVE Chain(fat, c) \in Seq(Cluster)
  <1> DEFINE walk == CHOOSE g : IsWalk(g, fat, c, FatEntries)
             I == {i \in 1..Len(walk) : walk[i] \notin Cluster}
             r == Chain(fat, c)
  <1>1. IsWalk(walk, fat, c, FatEntries)
    <2>1. \E g : IsWalk(g, fat, c, FatEntries)
      BY WalkExists, GeometryAssumption, Zenon
    <2> QED
      BY <2>1, Zenon
  <1>2. r = Cut(walk, I)
    BY DEF Chain, Before, Cut, IsWalk
  <1> HIDE DEF walk, r
  <1> DEFINE S == {walk[i] : i \in 1..FatEntries}
  <1>3. walk = [i \in 1..FatEntries |-> walk[i]]
    BY <1>1 DEF IsWalk
  <1>4. walk \in [1..FatEntries -> S]
    BY <1>3
  <1> HIDE DEF S, I
  <1>5. walk \in Seq(S)
    BY <1>4, GeometryAssumption
  <1>6. I \in SUBSET (1..Len(walk))
    BY DEF I
  <1>7. /\ r \in Seq(S)
        /\ \A i \in 1..Len(r) : i \in 1..Len(walk) /\ i \notin I /\ r[i] = walk[i]
    BY <1>2, <1>5, <1>6, CutBefore
  <1>8. \A i \in 1..Len(r) : r[i] \in Cluster
    BY <1>7 DEF I
  <1>9. r \in Seq(Cluster)
    BY <1>7, <1>8
  <1> QED
    BY <1>9 DEF r

(* Those of a directory that are read are on the device.                   *)
LEMMA ReadableOnDisk == ASSUME NEW v, NEW d PROVE Readable(v, d) \in Seq(OnDisk)
  <1> DEFINE cs == Chain(v.fat, d)
             I == {i \in 1..Len(cs) : cs[i] \notin OnDisk}
             r == Readable(v, d)
  <1>1. r = Cut(cs, I)
    BY DEF Readable, Before, Cut
  <1>2. cs \in Seq(Cluster)
    BY ChainClusters
  <1> HIDE DEF cs, r, I
  <1>3. I \in SUBSET (1..Len(cs))
    BY DEF I
  <1>4. /\ r \in Seq(Cluster)
        /\ \A i \in 1..Len(r) : i \in 1..Len(cs) /\ i \notin I /\ r[i] = cs[i]
    BY <1>1, <1>2, <1>3, CutBefore
  <1>5. \A i \in 1..Len(r) : r[i] \in OnDisk
    BY <1>4 DEF I
  <1>6. r \in Seq(OnDisk)
    BY <1>4, <1>5
  <1> QED
    BY <1>6 DEF r

FatPlaces == OnDisk \X (1..Slots)

(* The cluster of the k-th slot of n clusters of s slots each.             *)
LEMMA SlotCluster ==
  ASSUME NEW n \in Nat, NEW s \in Nat \ {0}, NEW k \in 1..(n * s)
  PROVE  1 + ((k - 1) \div s) \in 1..n /\ 1 + ((k - 1) % s) \in 1..s
  <1> DEFINE q == (k - 1) \div s
             m == (k - 1) % s
  <1>1. k - 1 \in Nat /\ n * s \in Nat /\ k - 1 < n * s
    OBVIOUS
  <1>2. q \in Int /\ m \in 0..(s - 1) /\ k - 1 = s * q + m
    BY <1>1
  <1> HIDE DEF q, m
  <1>3. q >= 0
    <2> SUFFICES ASSUME q <= -1 PROVE FALSE
      BY <1>2
    <2>1. s * q <= s * (-1)
      BY <1>2
    <2> QED
      BY <1>1, <1>2, <2>1
  <1>4. q < n
    <2> SUFFICES ASSUME q >= n PROVE FALSE
      BY <1>2
    <2>1. s * q >= s * n
      BY <1>2
    <2>2. s * n = n * s
      OBVIOUS
    <2> QED
      BY <1>1, <1>2, <2>1, <2>2
  <1> QED
    BY <1>2, <1>3, <1>4 DEF q, m

(* A scan meets slots of clusters on the device.                           *)
LEMMA ScanPlaces == ASSUME NEW v, NEW d PROVE Scan(v, d) \in Seq(FatPlaces)
  <1> DEFINE cs == Readable(v, d)
  <1>1. cs \in Seq(OnDisk)
    BY ReadableOnDisk
  <1> HIDE DEF cs
  <1>2. Len(cs) \in Nat /\ Slots \in Nat \ {0}
    BY <1>1, GeometryAssumption
  <1>3. Len(cs) * Slots \in Nat
    BY <1>2
  <1>4. ASSUME NEW k \in 1..(Len(cs) * Slots)
        PROVE  <<cs[1 + ((k - 1) \div Slots)], 1 + ((k - 1) % Slots)>> \in FatPlaces
    <2>1. 1 + ((k - 1) \div Slots) \in 1..Len(cs) /\ 1 + ((k - 1) % Slots) \in 1..Slots
      BY <1>2, SlotCluster
    <2>2. cs[1 + ((k - 1) \div Slots)] \in OnDisk
      BY <1>1, <2>1
    <2> QED
      BY <2>1, <2>2 DEF FatPlaces
  <1>5. SlotsOf(cs) \in [1..(Len(cs) * Slots) -> FatPlaces]
    BY <1>4 DEF SlotsOf
  <1>6. SlotsOf(cs) \in Seq(FatPlaces)
    BY <1>3, <1>5
  <1> QED
    BY <1>6 DEF Scan, cs

(* And so does what a scan for a name looks at.                            *)
LEMMA VisiblePlaces == ASSUME NEW v, NEW d PROVE Visible(v, d) \in Seq(FatPlaces)
  <1> DEFINE ps == Scan(v, d)
             I == {i \in 1..Len(ps) : FatPlace(v, ps[i]) = Zero}
  <1>1. Visible(v, d) = Cut(ps, I)
    BY DEF Visible, Before, Cut
  <1>2. ps \in Seq(FatPlaces)
    BY ScanPlaces
  <1> HIDE DEF ps, I
  <1>3. I \in SUBSET (1..Len(ps))
    BY DEF I
  <1> QED
    BY <1>1, <1>2, <1>3, CutBefore

(* The member of a sequence at the first index in I is a member at such an *)
(* index.                                                                  *)
LEMMA FirstMember ==
  ASSUME NEW S, NEW seq \in Seq(S), NEW I \in SUBSET (1..Len(seq)), I # {}
  PROVE  Min(I) \in I /\ seq[Min(I)] \in S
  <1>1. I \in SUBSET Nat
    OBVIOUS
  <1>2. Min(I) \in I
    BY <1>1, FatLeast
  <1>3. \A k \in 1..Len(seq) : seq[k] \in S
    OBVIOUS
  <1> QED
    BY <1>2, <1>3, Zenon

(* A name that is found is an entry on the device.                         *)
LEMMA LookupFinds ==
  ASSUME NEW v, NEW d, NEW name, fat32_lookup(v, d, name) # None
  PROVE  /\ fat32_lookup(v, d, name) \in FatPlaces
         /\ IsEntry(FatPlace(v, fat32_lookup(v, d, name)))
  <1> DEFINE ps == Visible(v, d)
             I == {i \in 1..Len(ps) : IsEntry(FatPlace(v, ps[i])) /\ FatPlace(v, ps[i]).name = name}
  <1>1. fat32_lookup(v, d, name) = IF I = {} THEN None ELSE ps[Min(I)]
    BY DEF fat32_lookup, First
  <1>2. ps \in Seq(FatPlaces)
    BY VisiblePlaces
  <1> HIDE DEF ps, I
  <1>3. I \in SUBSET (1..Len(ps))
    BY DEF I
  <1>4. I # {} /\ fat32_lookup(v, d, name) = ps[Min(I)]
    BY <1>1
  <1>5. Min(I) \in I /\ ps[Min(I)] \in FatPlaces
    BY <1>2, <1>3, <1>4, FirstMember
  <1>6. IsEntry(FatPlace(v, ps[Min(I)]))
    BY <1>5 DEF I
  <1> QED
    BY <1>4, <1>5, <1>6

(* A free slot that is found is on the device.                             *)
LEMMA FreeSlotFinds ==
  ASSUME NEW v, NEW d, FreeSlot(v, d) # None
  PROVE  FreeSlot(v, d) \in FatPlaces
  <1> DEFINE ps == Scan(v, d)
             I == {i \in 1..Len(ps) : ~Occupied(FatPlace(v, ps[i]))}
  <1>1. FreeSlot(v, d) = IF I = {} THEN None ELSE ps[Min(I)]
    BY DEF FreeSlot, First
  <1>2. ps \in Seq(FatPlaces)
    BY ScanPlaces
  <1> HIDE DEF ps, I
  <1>3. I \in SUBSET (1..Len(ps))
    BY DEF I
  <1>4. I # {} /\ FreeSlot(v, d) = ps[Min(I)]
    BY <1>1
  <1>5. ps[Min(I)] \in FatPlaces
    BY <1>2, <1>3, <1>4, FirstMember
  <1> QED
    BY <1>4, <1>5

-----------------------------------------------------------------------------
(* The search for a free cluster. *)

(* The step at which the search comes to cluster c.                        *)
LEMMA CandidateIs ==
  ASSUME NEW v
  PROVE  /\ \A i \in 0..(FatEntries - 3) : Candidate(v, i) \in Cluster
         /\ \A c \in Cluster : \E i \in 0..(FatEntries - 3) : Candidate(v, i) = c
  <1> DEFINE start == IF v.next_free \in Cluster THEN v.next_free ELSE 2
  <1>1. start \in Cluster
    BY GeometryAssumption DEF Cluster
  <1>2. \A i : Candidate(v, i) = IF start + i >= FatEntries
                                 THEN 2 + ((start + i) - FatEntries) ELSE start + i
    BY DEF Candidate
  <1> HIDE DEF start
  <1>3. ASSUME NEW i \in 0..(FatEntries - 3) PROVE Candidate(v, i) \in Cluster
    BY <1>1, <1>2, GeometryAssumption DEF Cluster
  <1>4. ASSUME NEW c \in Cluster
        PROVE  \E i \in 0..(FatEntries - 3) : Candidate(v, i) = c
    <2> DEFINE j == IF c >= start THEN c - start ELSE (c + FatEntries) - (start + 2)
    <2>1. j \in 0..(FatEntries - 3)
      BY <1>1, GeometryAssumption DEF Cluster
    <2>2. Candidate(v, j) = c
      BY <1>1, <1>2, GeometryAssumption DEF Cluster
    <2> HIDE DEF j
    <2> QED
      BY <2>1, <2>2
  <1> QED
    BY <1>3, <1>4

(* It takes a free cluster, or finds none in the whole table.              *)
LEMMA AllocFinds ==
  ASSUME NEW v
  PROVE  \/ /\ fat32_alloc_cluster(v) = [vol |-> v, got |-> 0]
            /\ \A c \in Cluster : v.fat[c] # FREE
         \/ \E c \in Cluster : v.fat[c] = FREE /\ fat32_alloc_cluster(v) = Taken(v, c)
  <1>1. CASE Free(v) = {}
    <2>1. fat32_alloc_cluster(v) = [vol |-> v, got |-> 0]
      BY <1>1 DEF fat32_alloc_cluster
    <2>2. \A i \in 0..(FatEntries - 3) : v.fat[Candidate(v, i)] # FREE
      BY <1>1 DEF Free
    <2>3. \A c \in Cluster : v.fat[c] # FREE
      BY <2>2, CandidateIs
    <2> QED
      BY <2>1, <2>3
  <1>2. CASE Free(v) # {}
    <2>1. Free(v) \in SUBSET Nat
      BY DEF Free
    <2>2. Min(Free(v)) \in Free(v)
      BY <1>2, <2>1, FatLeast
    <2> DEFINE c == Candidate(v, Min(Free(v)))
    <2>3. c \in Cluster /\ v.fat[c] = FREE
      BY <2>2, CandidateIs, Zenon DEF Free
    <2>4. fat32_alloc_cluster(v) = Taken(v, c)
      BY <1>2 DEF fat32_alloc_cluster
    <2> QED
      BY <2>3, <2>4
  <1> QED
    BY <1>1, <1>2

-----------------------------------------------------------------------------
(* The steps of the driver keep the invariant. *)

(* A change of the data clusters alone.                                    *)
LEMMA DataStep ==
  ASSUME NEW v, FatOK(v), NEW b \in [OnDisk -> FatBuffer]
  PROVE  FatOK([v EXCEPT !.disk = b]) /\ [v EXCEPT !.disk = b].disk = b
  BY DEF FatOK, FatFields, FatClean

(* A change of the driver's memory that sets the flag.                     *)
LEMMA DirtyStep ==
  ASSUME NEW v, FatOK(v), NEW c, NEW e \in {FREE, EOC} \cup Cluster, v.dirty
  PROVE  FatOK([v EXCEPT !.fat[c] = e]) /\ [v EXCEPT !.fat[c] = e].disk = v.disk
                                        /\ [v EXCEPT !.fat[c] = e].dirty
  <1> DEFINE w == [v EXCEPT !.fat[c] = e]
  <1>1. w = [f \in FatFields |-> w[f]] /\ w.fat = [v.fat EXCEPT ![c] = e]
        /\ w.free_count = v.free_count /\ w.dirty = v.dirty /\ w.disk = v.disk
    BY DEF FatOK, FatFields
  <1> HIDE DEF w
  <1>2. w.fat \in [Cluster -> {FREE, EOC} \cup Cluster]
    BY <1>1 DEF FatOK
  <1>3. FatOK(w) /\ w.disk = v.disk /\ w.dirty
    BY <1>1, <1>2 DEF FatOK, FatClean
  <1> QED
    BY <1>3 DEF w

(* fat32_alloc_cluster: what it takes is a cluster, and the flag is set.   *)
LEMMA AllocStep ==
  ASSUME NEW v, FatOK(v)
  PROVE  LET a == fat32_alloc_cluster(v)
         IN  /\ FatOK(a.vol) /\ a.vol.disk = v.disk
             /\ a.got \in {0} \cup Cluster
             /\ a.got # 0 => a.vol.dirty
  <1> DEFINE a == fat32_alloc_cluster(v)
  <1>1. CASE a = [vol |-> v, got |-> 0]
    BY <1>1
  <1>2. CASE \E c \in Cluster : a = Taken(v, c)
    <2>1. PICK c \in Cluster : a = Taken(v, c)
      BY <1>2
    <2> DEFINE w == Take(v, c)
    <2>2. a.vol = w /\ a.got = c
      BY <2>1 DEF Taken
    <2>3. w = [f \in FatFields |-> w[f]] /\ w.fat = [v.fat EXCEPT ![c] = EOC]
          /\ w.free_count = (v.free_count + Word - 1) % Word /\ w.dirty = TRUE
          /\ w.disk = v.disk
      BY Zenon DEF Take, FatOK, FatFields
    <2> HIDE DEF w
    <2>4. w.fat \in [Cluster -> {FREE, EOC} \cup Cluster]
      BY <2>3 DEF FatOK
    <2>5. w.free_count \in 0..(Word - 1)
      BY <2>3, GeometryAssumption DEF FatOK
    <2>6. FatOK(w)
      BY <2>3, <2>4, <2>5, Zenon DEF FatOK, FatClean
    <2> HIDE DEF a
    <2>7. FatOK(a.vol) /\ a.vol.disk = v.disk /\ a.got \in {0} \cup Cluster /\ a.vol.dirty
      BY <2>2, <2>3, <2>6, Zenon
    <2> QED
      BY <2>7 DEF a
  <1> QED
    BY <1>1, <1>2, AllocFinds

(* fat32_free_cluster_chain: if it frees nothing, nothing is changed.      *)
LEMMA ReleaseStep ==
  ASSUME NEW v, FatOK(v), NEW c
  PROVE  FatOK(fat32_free_cluster_chain(v, c))
  <1> DEFINE freed == Range(Chain(v.fat, c))
             w == Release(v, freed)
  <1>1. freed \subseteq Cluster
    BY ChainClusters DEF Range
  <1> HIDE DEF freed
  <1>2. IsFiniteSet(freed)
    <2>1. 2 \in Int /\ FatEntries - 1 \in Int
      BY GeometryAssumption
    <2>2. IsFiniteSet(Cluster)
      BY <2>1, FS_Interval DEF Cluster
    <2> QED
      BY <1>1, <2>2, FS_Subset
  <1>3. Cardinality(freed) \in Nat /\ (freed = {} => Cardinality(freed) = 0)
    BY <1>2, FS_CardinalityType, FS_EmptySet
  <1>4. /\ w = [f \in FatFields |-> w[f]]
        /\ w.fat = [x \in Cluster |-> IF x \in freed THEN FREE ELSE v.fat[x]]
        /\ w.free_count = (v.free_count + Cardinality(freed)) % Word
        /\ w.dirty = (v.dirty \/ freed # {})
        /\ w.disk = Forget(v.disk, freed)
        /\ w.next_free = v.next_free /\ w.diskFat = v.diskFat
        /\ w.diskFree = v.diskFree /\ w.diskNext = v.diskNext
    BY Zenon DEF Release, FatOK, FatFields
  <1> HIDE DEF w
  <1>5. w.fat \in [Cluster -> {FREE, EOC} \cup Cluster]
    BY <1>4, ZenonT(120) DEF FatOK
  <1>6. w.free_count \in 0..(Word - 1)
    BY <1>3, <1>4, GeometryAssumption DEF FatOK
  <1>7. w.disk \in [OnDisk -> FatBuffer]
    <2>1. Blank \in FatBuffer
      BY DEF Blank, FatBuffer, FatSlot
    <2> QED
      BY <1>4, <2>1 DEF Forget, FatOK
  <1>8. FatClean(w)
    <2>1. CASE freed = {}
      <3>1. w.fat = v.fat
        BY <1>4, <2>1, Zenon DEF FatOK
      <3>2. w.free_count = v.free_count
        <4>1. v.free_count \in 0..(Word - 1) /\ w.free_count = (v.free_count + 0) % Word
          BY <1>3, <1>4, <2>1 DEF FatOK
        <4> QED
          BY <4>1, GeometryAssumption
      <3> QED
        BY <1>4, <2>1, <3>1, <3>2 DEF FatOK, FatClean
    <2>2. CASE freed # {}
      BY <1>4, <2>2, Zenon DEF FatClean
    <2> QED
      BY <2>1, <2>2
  <1>9. w.dirty \in BOOLEAN
    BY <1>4, Zenon
  <1>10. FatOK(w)
    BY <1>4, <1>5, <1>6, <1>7, <1>8, <1>9 DEF FatOK
  <1> QED
    BY <1>10 DEF fat32_free_cluster_chain, w, freed

(* fat32_write_cluster, of a buffer of directory slots.                    *)
LEMMA WriteStep ==
  ASSUME NEW v, FatOK(v), NEW c, NEW buf \in FatBuffer
  PROVE  LET w == fat32_write_cluster(v, c, buf)
         IN  /\ FatOK(w) /\ w.dirty = v.dirty
             /\ c \in OnDisk => w.disk = [v.disk EXCEPT ![c] = buf]
  <1>1. CASE c \notin OnDisk
    BY <1>1 DEF fat32_write_cluster
  <1>2. CASE c \in OnDisk
    <2> DEFINE b == [v.disk EXCEPT ![c] = buf]
               w == fat32_write_cluster(v, c, buf)
    <2>1. b \in [OnDisk -> FatBuffer]
      BY Zenon DEF FatOK
    <2>2. w = [v EXCEPT !.disk = b]
      BY <1>2 DEF fat32_write_cluster, FatOK, FatFields
    <2> HIDE DEF b, w
    <2>3. FatOK(w) /\ w.disk = b
      BY <2>1, <2>2, DataStep
    <2>4. w.dirty = v.dirty
      BY <2>2 DEF FatOK, FatFields
    <2> QED
      BY <2>3, <2>4 DEF b, w
  <1> QED
    BY <1>1, <1>2, Zenon

(* What a function of the driver returns for a file: a place on the device *)
(* holds its entry.                                                        *)
FileAt(r) ==
    /\ FatOK(r.vol)
    /\ r.pos[1] \in OnDisk => r.pos \in FatPlaces /\ IsEntry(FatPlace(r.vol, r.pos))

(* A failure is such a result.                                             *)
LEMMA FailIs == ASSUME NEW v, FatOK(v) PROVE FileAt(Fail(v)) /\ Fail(v).vol = v
  BY DEF FileAt, Fail, None, OnDisk

(* An entry has a size and a first cluster.                                *)
LEMMA EntryIs ==
  ASSUME NEW v, FatOK(v), NEW p \in FatPlaces, IsEntry(FatPlace(v, p))
  PROVE  FatPlace(v, p).size \in Nat /\ FatPlace(v, p).first \in {0} \cup Cluster
  <1>1. FatPlace(v, p) \in FatSlot
    BY ZenonT(60) DEF FatPlace, FatOK, FatBuffer, FatPlaces
  <1> HIDE DEF FatPlace
  <1> QED
    BY <1>1 DEF FatSlot, IsEntry, Zero, Deleted, Text, Lfn

(* A place for a new entry: a slot of a cluster of the table.              *)
PlaceAt(r) == FatOK(r.vol) /\ (r.ok => r.pos \in Cluster \X (1..Slots))

(* Buffers of directory slots.                                             *)
LEMMA BlankIs == Blank \in FatBuffer /\ Data \in FatBuffer
  BY DEF Blank, Data, FatBuffer, FatSlot

(* Extending the directory keeps the invariant.                            *)
LEMMA ExtendStep ==
  ASSUME NEW v, FatOK(v), NEW last
  PROVE  PlaceAt(Extend(v, last, fat32_alloc_cluster(v)))
  <1> DEFINE a == fat32_alloc_cluster(v)
  <1>1. FatOK(a.vol) /\ a.got \in {0} \cup Cluster /\ (a.got # 0 => a.vol.dirty)
    BY AllocStep
  <1> SUFFICES PlaceAt(Extend(v, last, a))
    OBVIOUS
  <1> HIDE DEF a
  <1>2. CASE a.got = 0
    BY <1>2 DEF Extend, Fail, PlaceAt
  <1>3. CASE a.got # 0
    <2> DEFINE w == [a.vol EXCEPT !.fat[last] = a.got]
    <2>1. FatOK(w)
      BY <1>1, <1>3, DirtyStep, Zenon
    <2> HIDE DEF w
    <2> DEFINE x == fat32_write_cluster(w, a.got, Blank)
    <2>2. FatOK(x)
      BY <2>1, WriteStep, BlankIs, Zenon
    <2> HIDE DEF x
    <2>3. Extend(v, last, a) = Done(x, <<a.got, 1>>)
      BY <1>3 DEF Extend, w, x
    <2>4. <<a.got, 1>> \in Cluster \X (1..Slots)
      BY <1>1, <1>3, GeometryAssumption
    <2> QED
      BY <2>2, <2>3, <2>4 DEF Done, PlaceAt
  <1> QED
    BY <1>2, <1>3

(* And so does the search for a place.                                     *)
LEMMA PlaceStep == ASSUME NEW v, FatOK(v), NEW d PROVE PlaceAt(Place(v, d))
  <1>1. CASE FreeSlot(v, d) # None
    <2>1. FreeSlot(v, d) \in Cluster \X (1..Slots)
      BY <1>1, FreeSlotFinds, GeometryAssumption DEF FatPlaces, OnDisk, Cluster
    <2>2. Place(v, d) = Done(v, FreeSlot(v, d))
      BY <1>1 DEF Place
    <2> QED
      BY <2>1, <2>2 DEF Done, PlaceAt
  <1>2. CASE FreeSlot(v, d) = None /\ Readable(v, d) # Chain(v.fat, d)
    BY <1>2 DEF Place, Fail, PlaceAt
  <1>3. CASE FreeSlot(v, d) = None /\ Readable(v, d) = Chain(v.fat, d)
    BY <1>3, ExtendStep DEF Place
  <1> QED
    BY <1>1, <1>2, <1>3

(* The buffer with a new entry in it.                                      *)
LEMMA WithEntryIs ==
  ASSUME NEW buf \in FatBuffer, NEW name \in Name, NEW i \in 1..Slots,
         i + LfnSlots[name] <= Slots, NEW e \in FatSlot
  PROVE  /\ WithEntry(buf, i, name, e) \in FatBuffer
         /\ i + LfnSlots[name] \in 1..Slots
         /\ WithEntry(buf, i, name, e)[i + LfnSlots[name]] = e
  <1>1. LfnSlots[name] \in Nat /\ Slots \in Nat
    BY GeometryAssumption
  <1>2. \A j : Lfn(j = i) \in FatSlot
    BY DEF Lfn, FatSlot
  <1>3. i + LfnSlots[name] \in 1..Slots
    BY <1>1
  <1> DEFINE n == LfnSlots[name]
             At(j) == CASE j = i + n -> e
                        [] j \in i..(i + n - 1) -> Lfn(j = i)
                        [] OTHER -> buf[j]
  <1>4. ASSUME NEW j \in 1..Slots PROVE At(j) \in FatSlot
    <2>1. buf[j] \in FatSlot
      BY DEF FatBuffer
    <2> HIDE DEF n
    <2>2. CASE j = i + n
      <3>1. j \notin i..(i + n - 1)
        BY <1>1, <2>2 DEF n
      <3> QED
        BY <2>2, <3>1
    <2>3. CASE j # i + n /\ j \in i..(i + n - 1)
      BY <1>2, <2>3
    <2>4. CASE j # i + n /\ j \notin i..(i + n - 1)
      BY <2>1, <2>4
    <2> QED
      BY <2>2, <2>3, <2>4
  <1>5. At(i + n) = e
    <2>1. i + n \notin i..(i + n - 1)
      BY <1>1
    <2> QED
      BY <2>1
  <1>6. WithEntry(buf, i, name, e) = [j \in 1..Slots |-> At(j)]
    BY DEF WithEntry
  <1> HIDE DEF At
  <1> QED
    BY <1>3, <1>4, <1>5, <1>6 DEF FatBuffer

(* What a directory slot gets.                                             *)
LEMMA EntrySlot ==
  ASSUME NEW kind \in {"file", "dir"}, NEW name \in {Render[n] : n \in Name} \cup {".", ".."},
         NEW first \in {0} \cup Cluster
  PROVE  Entry(kind, name, first) \in FatSlot /\ IsEntry(Entry(kind, name, first))
  BY Zenon DEF Entry, FatSlot, IsEntry

(* The new entry, in its place.                                            *)
LEMMA EnterStep ==
  ASSUME NEW w, FatOK(w), NEW place, PlaceAt(place), place.ok, NEW name \in Name,
         place.pos[2] + LfnSlots[name] <= Slots,
         NEW mode \in {"file", "dir"}, NEW first \in {0} \cup Cluster
  PROVE  FileAt(Enter(w, place, name, mode, first))
  <1> DEFINE c == place.pos[1]
             i == place.pos[2]
             e == Entry(mode, Render[name], first)
             buf == WithEntry(Buffer(place.vol, c), i, name, e)
             x == fat32_write_cluster(w, c, buf)
             pos == <<c, i + LfnSlots[name]>>
  <1>1. c \in Cluster /\ i \in 1..Slots
    BY DEF PlaceAt
  <1>2. e \in FatSlot /\ IsEntry(e)
    BY EntrySlot, Zenon
  <1>3. Buffer(place.vol, c) \in FatBuffer
    BY BlankIs, Zenon DEF Buffer, PlaceAt, FatOK
  <1>4. Enter(w, place, name, mode, first) = Done(x, pos)
    BY Zenon DEF Enter
  <1>5. /\ buf \in FatBuffer /\ i + LfnSlots[name] \in 1..Slots
        /\ buf[i + LfnSlots[name]] = e
    BY <1>1, <1>2, <1>3, WithEntryIs, ZenonT(60)
  <1> HIDE DEF buf, e, c, i
  <1>6. FatOK(x) /\ (c \in OnDisk => x.disk = [w.disk EXCEPT ![c] = buf])
    <2>1. buf \in FatBuffer
      BY <1>5
    <2> QED
      BY <2>1, WriteStep
  <1> HIDE DEF x
  <1>7. ASSUME c \in OnDisk PROVE pos \in FatPlaces /\ FatPlace(x, pos) = e
    <2>1. x.disk[c] = buf
      BY <1>6, <1>7, ZenonT(60) DEF FatOK
    <2>2. pos \in FatPlaces
      BY <1>5, <1>7, Zenon DEF FatPlaces
    <2> QED
      BY <1>5, <2>1, <2>2, Zenon DEF FatPlace
  <1>8. FileAt(Done(x, pos))
    <2>1. Done(x, pos).vol = x /\ Done(x, pos).pos = pos /\ pos[1] = c
      BY ZenonT(60) DEF Done
    <2> QED
      BY <1>2, <1>6, <1>7, <2>1, Zenon DEF FileAt
  <1> QED
    BY <1>4, <1>8

(* A directory: its cluster, then its entry.                               *)
LEMMA EnterDirStep ==
  ASSUME NEW place, PlaceAt(place), place.ok, NEW d \in {0} \cup Cluster, NEW name \in Name,
         place.pos[2] + LfnSlots[name] <= Slots
  PROVE  FileAt(EnterDir(place, d, name, fat32_alloc_cluster(place.vol)))
  <1> DEFINE a == fat32_alloc_cluster(place.vol)
  <1>1. FatOK(place.vol)
    BY DEF PlaceAt
  <1>2. FatOK(a.vol) /\ a.got \in {0} \cup Cluster
    BY <1>1, AllocStep
  <1> SUFFICES FileAt(EnterDir(place, d, name, a))
    OBVIOUS
  <1> HIDE DEF a
  <1>3. CASE a.got = 0
    BY <1>1, <1>3, FailIs DEF EnterDir
  <1>4. CASE a.got # 0
    <2> DEFINE buf == DotEntries(a.got, d)
               w == fat32_write_cluster(a.vol, a.got, buf)
    <2>1. Entry("dir", ".", a.got) \in FatSlot /\ Entry("dir", "..", d) \in FatSlot
      BY <1>2, EntrySlot, Zenon
    <2>2. Zero \in FatSlot
      BY DEF FatSlot
    <2>3. buf \in FatBuffer
      BY <2>1, <2>2 DEF DotEntries, FatBuffer
    <2> HIDE DEF buf
    <2>4. FatOK(w)
      BY <1>2, <2>3, WriteStep, Zenon
    <2>5. EnterDir(place, d, name, a) = Enter(w, place, name, "dir", a.got)
      BY <1>4, Zenon DEF EnterDir, buf
    <2> HIDE DEF w
    <2>6. FileAt(Enter(w, place, name, "dir", a.got))
      BY <1>2, <2>4, EnterStep, Zenon
    <2> QED
      BY <2>5, <2>6, Zenon
  <1> QED
    BY <1>3, <1>4

(* fat32_create.                                                           *)
LEMMA CreateStep ==
  ASSUME NEW v, FatOK(v), NEW d \in {0} \cup Cluster, NEW name \in Name,
         NEW mode \in {"file", "dir"}
  PROVE  FileAt(fat32_create(v, d, name, mode))
  <1> DEFINE place == Place(v, d)
  <1>1. PlaceAt(place)
    BY PlaceStep
  <1> HIDE DEF place
  <1>2. FatOK(place.vol)
    BY <1>1 DEF PlaceAt
  <1>3. FileAt(CreateAt(place, d, name, mode))
    <2>1. CASE ~place.ok \/ place.pos[2] + LfnSlots[name] > Slots
      BY <1>2, <2>1, FailIs, Zenon DEF CreateAt
    <2>2. CASE place.ok /\ ~ (place.pos[2] + LfnSlots[name] > Slots)
      <3>1. place.pos[2] + LfnSlots[name] <= Slots
        BY <1>1, <2>2, GeometryAssumption DEF PlaceAt
      <3>2. FileAt(Enter(place.vol, place, name, "file", 0))
        BY <1>1, <1>2, <2>2, <3>1, EnterStep, Zenon
      <3>3. FileAt(EnterDir(place, d, name, fat32_alloc_cluster(place.vol)))
        BY <1>1, <2>2, <3>1, EnterDirStep, Zenon
      <3> QED
        BY <2>2, <3>2, <3>3, Zenon DEF CreateAt
    <2> QED
      BY <2>1, <2>2
  <1>4. CASE fat32_lookup(v, d, name) # None
    BY <1>4, FailIs, Zenon DEF fat32_create
  <1>5. CASE fat32_lookup(v, d, name) = None
    BY <1>3, <1>5, Zenon DEF fat32_create, place
  <1> QED
    BY <1>4, <1>5, Zenon

(* fat32_unlink.                                                           *)
LEMMA UnlinkStep ==
  ASSUME NEW v, FatOK(v), NEW d, NEW name
  PROVE  FatOK(fat32_unlink(v, d, name).vol)
  <1> DEFINE p == fat32_lookup(v, d, name)
             w == fat32_free_cluster_chain(v, FatPlace(v, p).first)
             buf == Erase(v.disk[p[1]], p[2])
  <1>1. CASE p = None
    BY <1>1, Zenon DEF fat32_unlink, UnlinkAt, Fail
  <1>2. CASE p # None
    <2>1. p \in FatPlaces
      BY <1>2, LookupFinds
    <2>2. fat32_unlink(v, d, name).vol = fat32_write_cluster(w, p[1], buf)
      BY <1>2, Zenon DEF fat32_unlink, UnlinkAt, Done
    <2>3. FatOK(w)
      BY ReleaseStep
    <2> HIDE DEF p, w
    <2>4. v.disk[p[1]] \in FatBuffer
      BY <2>1 DEF FatPlaces, FatOK
    <2>5. Deleted \in FatSlot
      BY DEF FatSlot
    <2>6. buf \in FatBuffer
      BY <2>4, <2>5, Zenon DEF Erase, FatBuffer
    <2> HIDE DEF buf
    <2>7. FatOK(fat32_write_cluster(w, p[1], buf))
      BY <2>3, <2>6, WriteStep, Zenon
    <2> QED
      BY <2>2, <2>7
  <1> QED
    BY <1>1, <1>2

-----------------------------------------------------------------------------
(* fat32_write. *)

WriteFields == {"vol", "first", "cluster", "ok", "clusters"}

(* The local variables of fat32_write.                                     *)
WriteAt(s) == s = [f \in WriteFields |-> s[f]] /\ FatOK(s.vol) /\ s.ok \in BOOLEAN

(* A round of its first or of its second loop.                             *)
WriteRound(skip, s) ==
    IF skip THEN SkipStep(s, fat32_alloc_cluster(s.vol))
    ELSE CollectStep(s, fat32_alloc_cluster(s.vol))

(* A round of the first loop keeps the invariant.                          *)
LEMMA SkipKeeps ==
  ASSUME NEW s, WriteAt(s)
  PROVE  WriteAt(SkipStep(s, fat32_alloc_cluster(s.vol)))
  <1> DEFINE a == fat32_alloc_cluster(s.vol)
  <1>1. FatOK(a.vol)
    BY AllocStep, Zenon DEF WriteAt
  <1> SUFFICES WriteAt(SkipStep(s, a))
    OBVIOUS
  <1> HIDE DEF a
  <1>2. CASE ~s.ok
    <2>1. SkipStep(s, a) = s
      BY <1>2 DEF SkipStep
    <2> QED
      BY <2>1
  <1>3. CASE s.ok /\ s.cluster \in Cluster
    <2> DEFINE n == fat32_next_cluster(s.vol.fat, s.cluster)
    <2>1. SkipStep(s, a) = [s EXCEPT !.cluster = n]
      BY <1>3 DEF SkipStep
    <2> HIDE DEF n
    <2> QED
      BY <2>1 DEF WriteAt, WriteFields
  <1>4. CASE s.ok /\ s.cluster \notin Cluster /\ s.first = 0 /\ a.got # 0
    <2>1. SkipStep(s, a) = [s EXCEPT !.vol = a.vol, !.first = a.got, !.cluster = a.got]
      BY <1>4, Zenon DEF SkipStep
    <2> QED
      BY <1>1, <2>1, Zenon DEF WriteAt, WriteFields
  <1>5. CASE s.ok /\ s.cluster \notin Cluster /\ ~ (s.first = 0 /\ a.got # 0)
    <2>1. SkipStep(s, a) = [s EXCEPT !.ok = FALSE]
      BY <1>5 DEF SkipStep
    <2> QED
      BY <2>1, Zenon DEF WriteAt, WriteFields
  <1> QED
    BY <1>2, <1>3, <1>4, <1>5, Zenon

(* A round of the second loop keeps it: the new cluster is linked when the *)
(* flag is already set.                                                    *)
LEMMA CollectKeeps ==
  ASSUME NEW s, WriteAt(s)
  PROVE  WriteAt(CollectStep(s, fat32_alloc_cluster(s.vol)))
  <1> DEFINE a == fat32_alloc_cluster(s.vol)
  <1>1. FatOK(a.vol) /\ a.got \in {0} \cup Cluster /\ (a.got # 0 => a.vol.dirty)
    BY AllocStep, Zenon DEF WriteAt
  <1> SUFFICES WriteAt(CollectStep(s, a))
    OBVIOUS
  <1> HIDE DEF a
  <1>2. CASE ~s.ok
    <2>1. CollectStep(s, a) = s
      BY <1>2 DEF CollectStep
    <2> QED
      BY <2>1
  <1>3. CASE s.ok /\ s.cluster \in Cluster
    <2> DEFINE n == fat32_next_cluster(s.vol.fat, s.cluster)
               t == Append(s.clusters, s.cluster)
    <2>1. CollectStep(s, a) = [s EXCEPT !.cluster = n, !.clusters = t]
      BY <1>3 DEF CollectStep, WriteAt, WriteFields
    <2> HIDE DEF n, t
    <2> QED
      BY <2>1, Zenon DEF WriteAt, WriteFields
  <1>4. CASE s.ok /\ s.cluster \notin Cluster /\ a.got = 0
    <2>1. CollectStep(s, a) = [s EXCEPT !.ok = FALSE]
      BY <1>4 DEF CollectStep
    <2> QED
      BY <2>1, Zenon DEF WriteAt, WriteFields
  <1>5. CASE s.ok /\ s.cluster \notin Cluster /\ a.got # 0
    <2> DEFINE last == s.clusters[Len(s.clusters)]
               w == IF s.clusters = <<>> THEN a.vol ELSE [a.vol EXCEPT !.fat[last] = a.got]
               f == IF s.clusters = <<>> /\ s.first = 0 THEN a.got ELSE s.first
               t == Append(s.clusters, a.got)
    <2>1. FatOK(w)
      <3>1. FatOK([a.vol EXCEPT !.fat[last] = a.got])
        BY <1>1, <1>5, DirtyStep, Zenon
      <3> QED
        BY <1>1, <3>1, Zenon
    <2>2. CollectStep(s, a) = [s EXCEPT !.vol = w, !.first = f, !.cluster = a.got, !.clusters = t]
      BY <1>5, Zenon DEF CollectStep, WriteAt, WriteFields
    <2> HIDE DEF w, f, t
    <2> QED
      BY <2>1, <2>2, Zenon DEF WriteAt, WriteFields
  <1> QED
    BY <1>2, <1>3, <1>4, <1>5

(* So does a round of either loop.                                         *)
LEMMA RoundKeeps ==
  ASSUME NEW skip \in BOOLEAN, NEW s, WriteAt(s) PROVE WriteAt(WriteRound(skip, s))
  BY SkipKeeps, CollectKeeps, Zenon DEF WriteRound

(* The local variables before each of the first n rounds.                  *)
IsLoop(g, skip, s0, n) ==
    g = [k \in 0..n |-> IF k = 0 THEN s0 ELSE WriteRound(skip, g[k - 1])]

(* There are such values.                                                  *)
LEMMA LoopExists ==
  ASSUME NEW skip, NEW s0, NEW n \in Nat PROVE \E g : IsLoop(g, skip, s0, n)
  <1> DEFINE Bad == {m \in Nat : \A g : ~IsLoop(g, skip, s0, m)}
  <1>1. 0 \notin Bad
    <2>1. IsLoop([k \in 0..0 |-> s0], skip, s0, 0)
      BY DEF IsLoop
    <2> QED
      BY <2>1
  <1>2. ASSUME NEW m \in Nat, m \notin Bad PROVE m + 1 \notin Bad
    <2>1. PICK g : IsLoop(g, skip, s0, m)
      BY <1>2
    <2> DEFINE new == WriteRound(skip, g[m])
               h == [k \in 0..(m + 1) |-> IF k = m + 1 THEN new ELSE g[k]]
    <2>2. ASSUME NEW k \in 0..(m + 1)
          PROVE  h[k] = IF k = 0 THEN s0 ELSE WriteRound(skip, h[k - 1])
      <3>1. CASE k = m + 1
        <4>1. h[k] = WriteRound(skip, g[m]) /\ h[k - 1] = g[m] /\ k # 0
          BY <3>1
        <4> QED
          BY <4>1, Zenon
      <3>2. CASE k # m + 1
        <4>1. k \in 0..m /\ h[k] = g[k] /\ (k # 0 => h[k - 1] = g[k - 1])
          BY <3>2
        <4>2. g[k] = IF k = 0 THEN s0 ELSE WriteRound(skip, g[k - 1])
          BY <2>1, <4>1, Zenon DEF IsLoop
        <4> QED
          BY <4>1, <4>2, Zenon
      <3> QED
        BY <3>1, <3>2, Zenon
    <2>3. h = [k \in 0..(m + 1) |-> h[k]]
      OBVIOUS
    <2> HIDE DEF h
    <2>4. IsLoop(h, skip, s0, m + 1)
      BY <2>2, <2>3, Zenon DEF IsLoop
    <2> QED
      BY <2>4
  <1> HIDE DEF Bad
  <1>3. Bad \in SUBSET Nat
    BY DEF Bad
  <1>4. Bad = {}
    BY <1>1, <1>2, <1>3, FatNoFirst
  <1> QED
    BY <1>4 DEF Bad

(* The invariant holds after the loop if it holds before it.               *)
LEMMA LoopKeeps ==
  ASSUME NEW skip \in BOOLEAN, NEW s0, WriteAt(s0), NEW n \in Nat,
         NEW g, IsLoop(g, skip, s0, n)
  PROVE  WriteAt(g[n])
  <1> DEFINE Bad == {m \in Nat : m <= n /\ ~WriteAt(g[m])}
  <1>1. 0 \notin Bad
    BY DEF IsLoop
  <1>2. ASSUME NEW m \in Nat, m \notin Bad PROVE m + 1 \notin Bad
    <2> SUFFICES ASSUME m + 1 <= n PROVE WriteAt(g[m + 1])
      BY Zenon
    <2>1. WriteAt(g[m])
      BY <1>2
    <2>2. m + 1 \in 0..n /\ m + 1 # 0 /\ (m + 1) - 1 = m
      OBVIOUS
    <2>3. g[m + 1] = WriteRound(skip, g[m])
      BY <2>2 DEF IsLoop
    <2> QED
      BY <2>1, <2>3, RoundKeeps
  <1> HIDE DEF Bad
  <1>3. Bad \in SUBSET Nat
    BY DEF Bad
  <1>4. Bad = {}
    BY <1>1, <1>2, <1>3, FatNoFirst
  <1> QED
    BY <1>4 DEF Bad

(* The first loop, from any file.                                          *)
LEMMA SkipToKeeps ==
  ASSUME NEW v, FatOK(v), NEW first, NEW idx \in Nat
  PROVE  WriteAt(SkipTo(v, first, idx))
  <1> DEFINE s0 == [vol |-> v, first |-> first, cluster |-> first, ok |-> TRUE,
                    clusters |-> <<>>]
             E(g) == g = [k \in 0..idx |->
                            IF k = 0 THEN s0
                            ELSE SkipStep(g[k - 1], fat32_alloc_cluster(g[k - 1].vol))]
             W == CHOOSE g : E(g)
  <1>1. SkipTo(v, first, idx) = W[idx]
    BY DEF SkipTo
  <1>2. WriteAt(s0)
    BY DEF WriteAt, WriteFields
  <1> HIDE DEF s0
  <1>3. \A g : IsLoop(g, TRUE, s0, idx) <=> E(g)
    BY DEF IsLoop, WriteRound
  <1>4. \E g : E(g)
    BY <1>3, LoopExists, Zenon
  <1> HIDE DEF E
  <1>5. E(W)
    BY <1>4, Zenon
  <1> HIDE DEF W
  <1>6. IsLoop(W, TRUE, s0, idx)
    BY <1>3, <1>5, Zenon
  <1>7. WriteAt(W[idx])
    BY <1>2, <1>6, LoopKeeps, Zenon
  <1> QED
    BY <1>1, <1>7, Zenon

(* The second loop.                                                        *)
LEMMA CollectAllKeeps ==
  ASSUME NEW s, WriteAt(s), NEW needed \in Nat
  PROVE  WriteAt(Collect(s, needed))
  <1> DEFINE E(g) == g = [c \in 0..needed |->
                            IF c = 0 THEN s
                            ELSE CollectStep(g[c - 1], fat32_alloc_cluster(g[c - 1].vol))]
             W == CHOOSE g : E(g)
  <1>1. Collect(s, needed) = W[needed]
    BY Zenon DEF Collect
  <1>2. \A g : IsLoop(g, FALSE, s, needed) <=> E(g)
    BY DEF IsLoop, WriteRound
  <1>3. \E g : E(g)
    BY <1>2, LoopExists, Zenon
  <1> HIDE DEF E
  <1>4. E(W)
    BY <1>3, Zenon
  <1> HIDE DEF W
  <1>5. IsLoop(W, FALSE, s, needed)
    BY <1>2, <1>4, Zenon
  <1>6. WriteAt(W[needed])
    BY <1>5, LoopKeeps, Zenon
  <1> QED
    BY <1>1, <1>6, Zenon

(* A new size in a slot leaves it a slot.                                  *)
LEMMA SizeSlot ==
  ASSUME NEW s \in FatSlot, NEW end \in Nat PROVE [s EXCEPT !.size = end] \in FatSlot
  <1>1. CASE s \in {Zero, Deleted, Text, Lfn(TRUE), Lfn(FALSE)}
    <2>1. [s EXCEPT !.size = end] = s
      BY <1>1 DEF Zero, Deleted, Text, Lfn
    <2> QED
      BY <2>1, Zenon
  <1>2. CASE s \notin {Zero, Deleted, Text, Lfn(TRUE), Lfn(FALSE)}
    BY <1>2, Zenon DEF FatSlot
  <1> QED
    BY <1>1, <1>2, Zenon

(* The data and the size keep the invariant.                               *)
LEMMA StoreKeeps ==
  ASSUME NEW s, WriteAt(s), NEW pos, NEW end \in Nat,
         pos[1] \in OnDisk => pos \in FatPlaces
  PROVE  FatOK(Store(s, pos, end).vol)
  <1> DEFINE v == s.vol
             cs == Range(s.clusters)
             b == [c \in OnDisk |-> IF c \in cs THEN Data ELSE v.disk[c]]
             w == PutData(v, cs)
  <1>1. FatOK(v)
    BY DEF WriteAt
  <1>2. CASE ~s.ok
    BY <1>1, <1>2 DEF Store, Fail
  <1>3. CASE s.ok
    <2>1. Store(s, pos, end).vol = PutSize(w, pos, end)
      BY <1>3, Zenon DEF Store, Done
    <2> HIDE DEF v, cs
    <2>2. b \in [OnDisk -> FatBuffer]
      BY <1>1, BlankIs DEF FatOK
    <2>3. w = [v EXCEPT !.disk = b]
      BY <1>1 DEF PutData, FatOK, FatFields
    <2> HIDE DEF b, w
    <2>4. FatOK(w)
      BY <1>1, <2>2, <2>3, DataStep
    <2>5. CASE PutSize(w, pos, end) = w
      BY <2>1, <2>4, <2>5, Zenon
    <2>6. CASE /\ pos[1] \in OnDisk
               /\ PutSize(w, pos, end) = [w EXCEPT !.disk[pos[1]][pos[2]].size = end]
      <3>1. PICK c \in OnDisk, i \in 1..Slots : c = pos[1] /\ i = pos[2]
        BY <2>6, ZenonT(60) DEF FatPlaces
      <3> DEFINE x == [w.disk[c][i] EXCEPT !.size = end]
                 y == [w.disk[c] EXCEPT ![i] = x]
                 z == [w.disk EXCEPT ![c] = y]
      <3>2. w.disk[c] \in FatBuffer /\ w.disk[c][i] \in FatSlot
        BY <2>4, Zenon DEF FatOK, FatBuffer
      <3>3. x \in FatSlot
        BY <3>2, SizeSlot
      <3>4. [w EXCEPT !.disk[c][i].size = end] = [w EXCEPT !.disk = z]
        BY <2>4, <3>2 DEF FatOK, FatFields, FatBuffer
      <3> HIDE DEF x
      <3>5. y \in FatBuffer
        BY <3>2, <3>3 DEF FatBuffer
      <3> HIDE DEF y
      <3>6. z \in [OnDisk -> FatBuffer]
        BY <2>4, <3>5 DEF FatOK
      <3> HIDE DEF z
      <3>7. FatOK([w EXCEPT !.disk = z])
        BY <2>4, <3>6, DataStep, SMTT(30)
      <3> QED
        BY <2>1, <2>6, <3>1, <3>4, <3>7, Zenon
    <2>7. \/ PutSize(w, pos, end) = w
          \/ /\ pos[1] \in OnDisk
             /\ PutSize(w, pos, end) = [w EXCEPT !.disk[pos[1]][pos[2]].size = end]
      BY Zenon DEF PutSize
    <2> QED
      BY <2>5, <2>6, <2>7, Zenon
  <1> QED
    BY <1>2, <1>3 DEF WriteAt

(* The last cluster of the text is not before the first.                   *)
LEMMA QuotientGrows ==
  ASSUME NEW a \in Nat, NEW b \in Nat, a <= b, NEW s \in Nat \ {0}
  PROVE  a \div s \in Nat /\ b \div s \in Nat /\ a \div s <= b \div s
  <1> DEFINE p == a \div s
             q == b \div s
  <1>1. p \in Nat /\ q \in Nat
    OBVIOUS
  <1>2. s * p <= a /\ b < s * q + s
    OBVIOUS
  <1> HIDE DEF p, q
  <1>3. p <= q
    <2> SUFFICES ASSUME p >= q + 1 PROVE FALSE
      BY <1>1
    <2>1. s * p >= s * (q + 1) /\ s * (q + 1) = s * q + s
      BY <1>1
    <2> QED
      BY <1>1, <1>2, <2>1
  <1> QED
    BY <1>1, <1>3 DEF p, q

(* fat32_write, on the file that was opened.                               *)
LEMMA WriteKeeps ==
  ASSUME NEW v, FatOK(v), NEW pos, pos[1] \in OnDisk => pos \in FatPlaces,
         NEW offset \in Nat, NEW len \in Nat \ {0}
  PROVE  FatOK(fat32_write(v, pos, offset, len).vol)
  <1> DEFINE idx == offset \div ClusterSize
             needed == (offset + len - 1) \div ClusterSize - idx + 1
             first == IF pos[1] \in OnDisk THEN FatPlace(v, pos).first ELSE 0
             s == Collect(SkipTo(v, first, idx), needed)
  <1>1. idx \in Nat /\ needed \in Nat
    <2>1. offset <= offset + len - 1 /\ offset + len - 1 \in Nat
      OBVIOUS
    <2>2. ClusterSize \in Nat \ {0}
      BY GeometryAssumption
    <2>3. /\ idx \in Nat /\ (offset + len - 1) \div ClusterSize \in Nat
          /\ idx <= (offset + len - 1) \div ClusterSize
      BY <2>1, <2>2, QuotientGrows
    <2> HIDE DEF idx
    <2> QED
      BY <2>3
  <1>2. fat32_write(v, pos, offset, len) = Store(s, pos, offset + len)
    BY DEF fat32_write
  <1> HIDE DEF idx, needed, first
  <1>3. WriteAt(s)
    BY <1>1, SkipToKeeps, CollectAllKeeps
  <1> HIDE DEF s
  <1>4. offset + len \in Nat
    OBVIOUS
  <1> QED
    BY <1>2, <1>3, <1>4, StoreKeeps

(* fat32_sync.                                                             *)
LEMMA SyncKeeps == ASSUME NEW v, FatOK(v) PROVE FatOK(fat32_sync(v))
  <1>1. CASE ~v.dirty
    BY <1>1 DEF fat32_sync
  <1>2. CASE v.dirty
    <2> DEFINE w == fat32_sync(v)
    <2>1. w = [v EXCEPT !.diskFat = v.fat, !.diskFree = v.free_count,
                        !.diskNext = v.next_free, !.dirty = FALSE]
      BY <1>2 DEF fat32_sync
    <2> QED
      BY <2>1, ZenonT(60) DEF FatOK, FatFields, FatClean
  <1> QED
    BY <1>1, <1>2

-----------------------------------------------------------------------------
(* The commands. *)

(* The directory of a path is 0 or a cluster.                              *)
LEMMA ResolveIs ==
  ASSUME NEW v, FatOK(v), NEW path
  PROVE  vfs_resolve_path(v, path).first \in {0} \cup Cluster
  <1> DEFINE p == fat32_lookup(v, RootCluster, path.dir)
  <1>1. RootCluster \in Cluster
    BY GeometryAssumption DEF RootCluster, Cluster
  <1>2. p # None => FatPlace(v, p).first \in {0} \cup Cluster
    BY LookupFinds, EntryIs
  <1> HIDE DEF p
  <1>3. DirAt(v, p).first \in {0} \cup Cluster
    BY <1>2 DEF DirAt
  <1> QED
    BY <1>1, <1>3, Zenon DEF vfs_resolve_path, p

(* vfs_create.                                                             *)
LEMMA VfsCreateKeeps ==
  ASSUME NEW v, FatOK(v), NEW path \in Path, NEW mode \in {"file", "dir"}
  PROVE  FatOK(vfs_create(v, path, mode).vol)
  <1> DEFINE parent == vfs_resolve_path(v, path)
  <1>1. parent.first \in {0} \cup Cluster /\ path.name \in Name
    BY ResolveIs, Zenon DEF Path
  <1>2. vfs_create(v, path, mode) = IF parent.mode # "dir" THEN Fail(v)
                                    ELSE fat32_create(v, parent.first, path.name, mode)
    BY DEF vfs_create
  <1> HIDE DEF parent
  <1>3. FatOK(fat32_create(v, parent.first, path.name, mode).vol)
    BY <1>1, CreateStep, Zenon DEF FileAt
  <1>4. FatOK(Fail(v).vol)
    BY FailIs
  <1> QED
    BY <1>2, <1>3, <1>4

(* vfs_unlink.                                                             *)
LEMMA VfsUnlinkKeeps ==
  ASSUME NEW v, FatOK(v), NEW path
  PROVE  FatOK(vfs_unlink(v, path).vol)
  <1> DEFINE parent == vfs_resolve_path(v, path)
  <1>1. vfs_unlink(v, path) = IF parent.mode = "none" THEN Fail(v)
                              ELSE fat32_unlink(v, parent.first, path.name)
    BY DEF vfs_unlink
  <1> HIDE DEF parent
  <1>2. FatOK(fat32_unlink(v, parent.first, path.name).vol)
    BY UnlinkStep
  <1>3. FatOK(Fail(v).vol)
    BY FailIs
  <1> QED
    BY <1>1, <1>2, <1>3

(* vfs_open.                                                               *)
LEMMA VfsOpenKeeps ==
  ASSUME NEW v, FatOK(v), NEW path \in Path
  PROVE  FileAt(vfs_open(v, path))
  <1> DEFINE parent == vfs_resolve_path(v, path)
             p == fat32_lookup(v, parent.first, path.name)
             r == fat32_create(v, parent.first, path.name, "file")
  <1>1. parent.first \in {0} \cup Cluster /\ path.name \in Name
    BY ResolveIs, Zenon DEF Path
  <1>2. vfs_open(v, path) = IF parent.mode = "none" THEN Fail(v)
                            ELSE IF p # None THEN Done(v, p) ELSE r
    BY Zenon DEF vfs_open, OpenIn
  <1> HIDE DEF parent
  <1>3. FileAt(Fail(v))
    BY FailIs
  <1>4. FileAt(r)
    BY <1>1, CreateStep, Zenon
  <1>5. p # None => FileAt(Done(v, p))
    <2>1. p # None => p \in FatPlaces /\ IsEntry(FatPlace(v, p))
      BY LookupFinds
    <2> HIDE DEF p
    <2> QED
      BY <2>1, Zenon DEF Done, FileAt
  <1> HIDE DEF p, r
  <1> QED
    BY <1>2, <1>3, <1>4, <1>5

(* vfs_open, vfs_write and vfs_close.                                      *)
LEMMA WriteFileKeeps ==
  ASSUME FatInv, NEW path \in Path, NEW len \in TextSize, NEW append \in BOOLEAN,
         WriteFile(path, len, append)
  PROVE  FatInv'
  <1> DEFINE open == vfs_open(vol, path)
             pos == IF append /\ open.pos[1] \in OnDisk
                    THEN FatPlace(open.vol, open.pos).size ELSE 0
             done == fat32_write(open.vol, open.pos, pos, len)
  <1>1. FileAt(open)
    BY VfsOpenKeeps, SMTT(30) DEF FatInv
  <1>2. vol' = IF open.ok THEN Closed(done) ELSE open.vol
    BY Zenon DEF WriteFile, WriteOpened
  <1> HIDE DEF open
  <1>3. FatOK(open.vol)
    BY <1>1 DEF FileAt
  <1>4. len \in Nat \ {0}
    BY GeometryAssumption
  <1>5. pos \in Nat
    BY <1>1, EntryIs, Zenon DEF FileAt
  <1>6. open.pos[1] \in OnDisk => open.pos \in FatPlaces
    BY <1>1, Zenon DEF FileAt
  <1> HIDE DEF pos
  <1>7. FatOK(done.vol)
    BY <1>3, <1>4, <1>5, <1>6, WriteKeeps
  <1> HIDE DEF done
  <1>8. FatOK(Closed(done))
    BY <1>7, SyncKeeps, Zenon DEF Closed, vfs_close
  <1> QED
    BY <1>2, <1>3, <1>8 DEF FatInv

(* Every command keeps the invariant.                                      *)
LEMMA CommandKeeps == FatInv /\ [FatNext]_vol => FatInv'
  <1> SUFFICES ASSUME FatInv, [FatNext]_vol PROVE FatInv'
    BY ZenonT(60)
  <1>1. CASE UNCHANGED vol
    BY <1>1 DEF FatInv
  <1>2. ASSUME NEW path \in Path, cmd_touch(path) PROVE FatInv'
    BY <1>2, VfsCreateKeeps DEF FatInv, cmd_touch
  <1>3. ASSUME NEW path \in Path, cmd_mkdir(path) PROVE FatInv'
    BY <1>3, VfsCreateKeeps DEF FatInv, cmd_mkdir, vfs_mkdir
  <1>4. ASSUME NEW path \in Path, cmd_rm(path) PROVE FatInv'
    BY <1>4, VfsUnlinkKeeps DEF FatInv, cmd_rm
  <1>5. ASSUME NEW path \in Path, NEW len \in TextSize, cmd_write(path, len) PROVE FatInv'
    BY <1>5, WriteFileKeeps, Zenon DEF cmd_write
  <1>6. ASSUME NEW path \in Path, NEW len \in TextSize, cmd_echo(path, len) PROVE FatInv'
    BY <1>6, WriteFileKeeps, Zenon DEF cmd_echo
  <1> QED
    BY <1>1, <1>2, <1>3, <1>4, <1>5, <1>6 DEF FatNext

(* A volume as fat32_format leaves it.                                     *)
LEMMA FormattedIs == FatOK(Formatted)
  <1> DEFINE f == Formatted
             b == [c \in OnDisk |-> IF c = RootCluster THEN DotEntries(2, 2) ELSE Blank]
             t == [c \in Cluster |-> IF c = RootCluster THEN EOC ELSE FREE]
  <1>1. /\ f = [x \in FatFields |-> f[x]]
        /\ f.fat = t /\ f.diskFat = t
        /\ f.free_count = LastOnDisk - 1 /\ f.diskFree = LastOnDisk - 1
        /\ f.next_free = RootCluster + 1 /\ f.diskNext = RootCluster + 1
        /\ f.dirty = FALSE /\ f.disk = b
    BY Zenon DEF Formatted, FatFields
  <1> HIDE DEF f
  <1>2. DotEntries(2, 2) \in FatBuffer
    <2>1. 2 \in {0} \cup Cluster
      BY GeometryAssumption DEF Cluster
    <2>2. Entry("dir", ".", 2) \in FatSlot /\ Entry("dir", "..", 2) \in FatSlot
      BY <2>1, EntrySlot
    <2>3. Zero \in FatSlot
      BY DEF FatSlot
    <2> QED
      BY <2>2, <2>3 DEF DotEntries, FatBuffer
  <1>3. b \in [OnDisk -> FatBuffer]
    BY <1>2, BlankIs
  <1>4. t \in [Cluster -> {FREE, EOC} \cup Cluster]
    OBVIOUS
  <1>5. LastOnDisk - 1 \in 0..(Word - 1)
    BY GeometryAssumption
  <1> HIDE DEF b, t
  <1>6. FatOK(f)
    BY <1>1, <1>3, <1>4, <1>5, Zenon DEF FatOK, FatClean
  <1> QED
    BY <1>6 DEF f

(* A volume with a file another system has put there.                      *)
LEMMA ImportedIs ==
  ASSUME NEW name \in Name, Render[name] = name PROVE FatOK(Imported(name))
  <1> DEFINE f == Formatted
             g == Imported(name)
             t == [f.fat EXCEPT ![3] = 4, ![4] = EOC]
             e == [Entry("file", name, 3) EXCEPT !.size = ClusterSize + 1]
             b == [f.disk EXCEPT ![3] = Data, ![4] = Data, ![2][3] = e]
  <1>1. FatOK(f)
    BY FormattedIs
  <1>2. f.dirty = FALSE
    BY Zenon DEF Formatted
  <1>0. g = [f EXCEPT !.fat = t, !.diskFat = t,
                      !.free_count = LastOnDisk - 4, !.diskFree = LastOnDisk - 4,
                      !.next_free = 5, !.diskNext = 5,
                      !.disk[3] = Data, !.disk[4] = Data, !.disk[2][3] = e]
    BY Zenon DEF Imported
  <1> HIDE DEF f, g, t, e
  <1>3. /\ g = [x \in FatFields |-> g[x]]
        /\ g.fat = t /\ g.diskFat = t
        /\ g.free_count = LastOnDisk - 4 /\ g.diskFree = LastOnDisk - 4
        /\ g.next_free = 5 /\ g.diskNext = 5
        /\ g.dirty = FALSE /\ g.disk = b
    <2>1. g.fat = t /\ g.diskFat = t /\ g.free_count = LastOnDisk - 4
      BY <1>0, <1>1 DEF FatOK, FatFields
    <2>2. g.diskFree = LastOnDisk - 4 /\ g.next_free = 5 /\ g.diskNext = 5 /\ g.dirty = FALSE
      BY <1>0, <1>1, <1>2 DEF FatOK, FatFields
    <2>3. g = [x \in FatFields |-> g[x]]
      <3> DEFINE h == [f EXCEPT !.fat = t, !.diskFat = t,
                                !.free_count = LastOnDisk - 4, !.diskFree = LastOnDisk - 4,
                                !.next_free = 5, !.diskNext = 5]
      <3>1. h = [x \in FatFields |-> h[x]]
        BY <1>1, Zenon DEF FatOK, FatFields
      <3>2. g = [h EXCEPT !.disk[3] = Data, !.disk[4] = Data, !.disk[2][3] = e]
        BY <1>0
      <3> HIDE DEF h
      <3> QED
        BY <3>1, <3>2, ZenonT(120) DEF FatFields
    <2>4. g.disk = b
      BY <1>0, <1>1 DEF FatOK, FatFields
    <2> QED
      BY <2>1, <2>2, <2>3, <2>4
  <1>4. 3 \in {0} \cup Cluster /\ 4 \in {FREE, EOC} \cup Cluster
    BY GeometryAssumption DEF Cluster
  <1>5. t \in [Cluster -> {FREE, EOC} \cup Cluster]
    BY <1>1, <1>4, Zenon DEF FatOK, t
  <1>6. e \in FatSlot
    <2>1. Entry("file", name, 3) \in FatSlot
      BY <1>4, EntrySlot, Zenon
    <2>2. ClusterSize + 1 \in Nat
      BY GeometryAssumption
    <2> QED
      BY <2>1, <2>2, SizeSlot DEF e
  <1>7. b \in [OnDisk -> FatBuffer]
    BY <1>1, <1>6, BlankIs, Zenon DEF FatOK, FatBuffer
  <1>8. LastOnDisk - 4 \in 0..(Word - 1)
    BY GeometryAssumption
  <1> HIDE DEF b
  <1>9. FatOK(g)
    BY <1>3, <1>5, <1>7, <1>8, Zenon DEF FatOK, FatClean
  <1> QED
    BY <1>9, Zenon DEF g

(* The invariant holds of every volume the commands work on: its fields    *)
(* have their types, and the dirty flag of fat32_sync is reliable.         *)
THEOREM FatInvariance == FatSpec => []FatInv
  <1>1. FatInit => FatInv
    BY FormattedIs, ImportedIs DEF FatInit, FatInv
  <1> QED
    BY <1>1, CommandKeeps, PTL DEF FatSpec

(* When fat32_sync or fat32_unmount would skip the write, the FAT and the  *)
(* FSInfo sector on the device are the ones in memory: for every size of   *)
(* the table, of the device and of the commands' texts, also when a        *)
(* command fails half way (module Fat32).                                  *)
THEOREM DirtyFlagReliable == FatSpec => []CleanMeansOnDisk
  <1>1. FatInv => CleanMeansOnDisk
    BY Zenon DEF FatInv, FatOK, FatClean, CleanMeansOnDisk
  <1> QED
    BY <1>1, FatInvariance, PTL

(* The search of fat32_alloc_cluster, which starts at the hint and wraps,  *)
(* gives up only when no cluster of the table is free, whatever the hint.  *)
THEOREM SearchIsComplete == FatSpec => []AllocComplete
  <1>1. AllocComplete
    <2> DEFINE a == fat32_alloc_cluster(vol)
    <2>1. CASE a = [vol |-> vol, got |-> 0] /\ \A c \in Cluster : vol.fat[c] # FREE
      BY <2>1 DEF AllocComplete
    <2>2. CASE \E c \in Cluster : vol.fat[c] = FREE /\ a = Taken(vol, c)
      <3>1. PICK c \in Cluster : vol.fat[c] = FREE /\ a = Taken(vol, c)
        BY <2>2
      <3>2. a.got = c /\ c # 0
        BY <3>1, GeometryAssumption DEF Taken, Cluster
      <3> QED
        BY <3>1, <3>2 DEF AllocComplete
    <2> QED
      BY <2>1, <2>2, AllocFinds
  <1> QED
    BY <1>1, PTL
=============================================================================
