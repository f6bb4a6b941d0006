----------------------------- MODULE TaskRingProofs -----------------------------
(***************************************************************************)
(* The pointers of the task ring (module TaskRing) implement the list of   *)
(* module TaskList, for any number of task structures.                     *)
(***************************************************************************)
EXTENDS TaskRing, FiniteSetTheorems, WellFoundedInduction, TLAPS

(* The pointers nx close the L distinct tasks s into a ring whose tail is  *)
(* s[L].                                                                   *)
RingOf(s, L, nx, tail) ==
    /\ L \in Nat \ {0} /\ s \in [1..L -> Task]
    /\ \A i, j \in 1..L : s[i] = s[j] => i = j
    /\ \A i \in 1..L - 1 : nx[s[i]] = s[i + 1]
    /\ nx[s[L]] = s[1]
    /\ tail = s[L]

(* The inductive invariant: the pointers are such a ring.                  *)
RingInv ==
    /\ next \in [Task -> Task \cup {NoTask}] /\ task_ring \in Task
    /\ \E L \in Nat \ {0} : \E s \in [1..L -> Task] : RingOf(s, L, next, task_ring)

(* The walk over given pointers.                                           *)
VisitOf(nx, tail) ==
    LET at[i \in 1..MaxTask + 2] == IF i = 1 THEN nx[tail] ELSE nx[at[i - 1]]
    IN at

LengthOf(visit) ==
    LET back == {i \in 2..MaxTask + 2 : visit[i] = visit[1]}
    IN (CHOOSE i \in back : \A j \in back : i <= j) - 1

WalkOf(nx, tail) ==
    [i \in 1..LengthOf(VisitOf(nx, tail)) |-> VisitOf(nx, tail)[i]]

(* Walk is the walk over the pointers of the current state, and Walk' over *)
(* those of the next one.                                                  *)
LEMMA WalkAsFunction ==
  /\ Walk = WalkOf(next, task_ring) /\ Walk' = WalkOf(next', task_ring')
  /\ WalkLength = LengthOf(VisitOf(next, task_ring))
  <1>1. Visit = VisitOf(next, task_ring) /\ Visit' = VisitOf(next', task_ring')
    BY DEF Visit, VisitOf
  <1>2. WalkLength = LengthOf(Visit) /\ WalkLength' = LengthOf(Visit')
    BY DEF WalkLength, LengthOf
  <1> QED
    BY <1>1, <1>2 DEF Walk, WalkOf

(* What holds from the start of a loop and is kept by each round holds at  *)
(* its end.                                                                *)
LEMMA AtTheEnd ==
  ASSUME NEW N \in Nat, NEW S, 0 \in S, \A p \in 0..N - 1 : p \in S => p + 1 \in S
  PROVE  \A p \in 0..N : p \in S
  <1> DEFINE Bad == {p \in 0..N : p \notin S}
  <1>1. Bad = {}
    <2> SUFFICES ASSUME Bad # {} PROVE FALSE
      OBVIOUS
    <2> Bad \in SUBSET Nat
      OBVIOUS
    <2>1. PICK x \in Bad : \A y \in Bad : <<y, x>> \notin OpToRel(<, Nat)
      <3> HIDE DEF Bad
      <3> QED
        BY NatLessThanWellFounded, WFMin
    <2>2. x \in 1..N
      OBVIOUS
    <2>3. x - 1 \in 0..N - 1 /\ x - 1 < x /\ x \in Nat /\ x - 1 \in Nat
      BY <2>2
    <2>4. x - 1 \notin Bad
      BY <2>1, <2>3, Zenon DEF OpToRel
    <2>5. (x - 1) + 1 \in S
      BY <2>3, <2>4
    <2> QED
      BY <2>2, <2>5
  <1> QED
    BY <1>1

(* Distinct tasks are no more than there are.                              *)
LEMMA RingIsShort ==
  ASSUME NEW s, NEW L, NEW nx, NEW tail, RingOf(s, L, nx, tail)
  PROVE  L <= MaxTask + 1
  <1>1. MaxTask \in Nat /\ L \in Nat \ {0}
    BY TaskRingAssumption DEF RingOf
  <1>2. /\ IsFiniteSet(1..L) /\ Cardinality(1..L) = L
        /\ IsFiniteSet(Task) /\ Cardinality(Task) = MaxTask + 1
    BY <1>1, FS_Interval DEF Task
  <1>3. s \in [1..L -> Task] /\ \A i, j \in 1..L : s[i] = s[j] => i = j
    BY DEF RingOf
  <1>4. ~ (Cardinality(Task) < Cardinality(1..L))
    <2> SUFFICES ASSUME Cardinality(Task) < Cardinality(1..L) PROVE FALSE
      OBVIOUS
    <2>1. \E i, j \in 1..L : i # j /\ s[i] = s[j]
      BY <1>2, <1>3, FS_PigeonHole, ZenonT(60)
    <2> QED
      BY <1>3, <2>1
  <1> QED
    BY <1>1, <1>2, <1>4

(* Member i of a ring of L, counted round and round.                       *)
Place(i, L) == ((i - 1) % L) + 1

(* The places go up by one and start again after the last.                 *)
LEMMA PlaceSteps ==
  ASSUME NEW L \in Nat \ {0}, NEW i \in Nat \ {0}
  PROVE  /\ Place(i, L) \in 1..L
         /\ Place(i, L) < L => Place(i + 1, L) = Place(i, L) + 1
         /\ Place(i, L) = L => Place(i + 1, L) = 1
         /\ i <= L => Place(i, L) = i
         /\ Place(L + 1, L) = 1
  BY SMTT(30) DEF Place

(* The walk goes round the ring.                                           *)
LEMMA VisitGoesRound ==
  ASSUME NEW s, NEW L, NEW nx, NEW tail, RingOf(s, L, nx, tail)
  PROVE  \A i \in 1..MaxTask + 2 : VisitOf(nx, tail)[i] = s[Place(i, L)]
  <1> DEFINE N == MaxTask + 2
             E(f) == f = [i \in 1..N |-> IF i = 1 THEN nx[tail] ELSE nx[f[i - 1]]]
             h == [i \in 1..N |-> s[Place(i, L)]]
             V == VisitOf(nx, tail)
             S == {k \in 0..N - 1 : V[k + 1] = h[k + 1]}
  <1>1. N \in Nat /\ N - 1 \in Nat /\ L \in Nat \ {0}
    BY TaskRingAssumption DEF RingOf
  <1>2. \A k \in 1..L : nx[s[k]] = IF k < L THEN s[k + 1] ELSE s[1]
    BY <1>1 DEF RingOf
  <1>3. nx[tail] = s[1]
    BY DEF RingOf
  <1>4. ASSUME NEW i \in 1..N PROVE h[i] = IF i = 1 THEN nx[tail] ELSE nx[h[i - 1]]
    <2>1. CASE i = 1
      <3>1. Place(1, L) = 1
        BY <1>1, PlaceSteps
      <3> QED
        BY <1>3, <2>1, <3>1
    <2>2. CASE i # 1
      <3>1. i - 1 \in 1..N /\ i - 1 \in Nat \ {0} /\ (i - 1) + 1 = i
        BY <1>1, <2>2
      <3>2. /\ Place(i - 1, L) \in 1..L
            /\ Place(i - 1, L) < L => Place((i - 1) + 1, L) = Place(i - 1, L) + 1
            /\ Place(i - 1, L) = L => Place((i - 1) + 1, L) = 1
        BY <1>1, <3>1, PlaceSteps
      <3>3. nx[s[Place(i - 1, L)]] = s[Place(i, L)]
        BY <1>1, <1>2, <3>1, <3>2
      <3>4. h[i] = s[Place(i, L)] /\ h[i - 1] = s[Place(i - 1, L)]
        BY <3>1
      <3> QED
        BY <2>2, <3>3, <3>4
    <2> QED
      BY <2>1, <2>2
  <1>5. E(h)
    BY <1>4
  <1>6. V = CHOOSE g : E(g)
    BY DEF VisitOf
  <1>7. E(V)
    BY <1>5, <1>6, Zenon
  <1> HIDE DEF V
  <1>8. \A i \in 1..N : V[i] = IF i = 1 THEN nx[tail] ELSE nx[V[i - 1]]
    BY <1>7, Zenon
  <1> HIDE DEF h, N
  <1>9. 0 \in S
    BY <1>1, <1>4, <1>8
  <1>10. ASSUME NEW k \in 0..(N - 1) - 1, k \in S PROVE k + 1 \in S
    <2>1. k + 1 \in 0..N - 1 /\ (k + 1) + 1 \in 1..N /\ (k + 1) + 1 # 1
          /\ ((k + 1) + 1) - 1 = k + 1
      BY <1>1
    <2>2. V[k + 1] = h[k + 1]
      BY <1>10
    <2>3. V[(k + 1) + 1] = nx[V[k + 1]] /\ h[(k + 1) + 1] = nx[h[k + 1]]
      BY <1>4, <1>8, <2>1
    <2> QED
      BY <2>1, <2>2, <2>3
  <1> HIDE DEF S
  <1>11. \A k \in 0..N - 1 : k \in S
    BY <1>1, <1>9, <1>10, AtTheEnd
  <1>12. ASSUME NEW i \in 1..N PROVE V[i] = h[i]
    <2>1. i - 1 \in 0..N - 1 /\ (i - 1) + 1 = i
      BY <1>1
    <2>2. i - 1 \in S
      BY <1>11, <2>1
    <2> QED
      BY <2>1, <2>2 DEF S
  <1> QED
    BY <1>12 DEF h, V, N

(* It is back at its start after L members, so the walk is the ring.       *)
LEMMA WalkIsRing ==
  ASSUME NEW s, NEW L, NEW nx, NEW tail, RingOf(s, L, nx, tail)
  PROVE  LengthOf(VisitOf(nx, tail)) = L /\ WalkOf(nx, tail) = s
  <1> DEFINE V == VisitOf(nx, tail)
             back == {i \in 2..MaxTask + 2 : V[i] = V[1]}
  <1>1. /\ MaxTask \in Nat /\ L \in Nat \ {0} /\ L <= MaxTask + 1
        /\ s \in [1..L -> Task] /\ \A i, j \in 1..L : s[i] = s[j] => i = j
    BY TaskRingAssumption, RingIsShort, Zenon DEF RingOf
  <1>2. \A i \in 1..MaxTask + 2 : V[i] = s[Place(i, L)]
    BY VisitGoesRound
  <1> HIDE DEF V
  <1>3. \A i \in 1..L : V[i] = s[i]
    <2> TAKE i \in 1..L
    <2>1. i \in Nat \ {0} /\ i <= L /\ i \in 1..MaxTask + 2
      BY <1>1
    <2>2. Place(i, L) = i
      BY <1>1, <2>1, PlaceSteps
    <2> QED
      BY <1>2, <2>1, <2>2
  <1>4. L + 1 \in back
    <2>1. L + 1 \in 2..MaxTask + 2 /\ 1 \in 1..L
      BY <1>1
    <2>2. Place(L + 1, L) = 1
      BY <1>1, PlaceSteps
    <2> QED
      BY <1>2, <1>3, <2>1, <2>2
  <1>5. ASSUME NEW i \in back PROVE L + 1 <= i
    <2>1. CASE i <= L
      <3>1. i \in 1..L /\ 1 \in 1..L /\ i # 1 /\ V[i] = V[1]
        BY <1>1, <2>1
      <3> QED
        BY <1>1, <1>3, <3>1
    <2> QED
      BY <1>1, <2>1
  <1>6. LengthOf(V) = (CHOOSE i \in back : \A j \in back : i <= j) - 1
    BY DEF LengthOf
  <1>7. (CHOOSE i \in back : \A j \in back : i <= j) = L + 1
    <2> DEFINE c == CHOOSE i \in back : \A j \in back : i <= j
    <2>1. c \in back /\ \A j \in back : c <= j
      BY <1>4, <1>5, Zenon
    <2> HIDE DEF c
    <2>2. c <= L + 1 /\ L + 1 <= c /\ c \in Nat
      BY <1>1, <1>4, <1>5, <2>1
    <2>3. c = L + 1
      BY <1>1, <2>2
    <2> QED
      BY <2>3 DEF c
  <1>8. LengthOf(V) = L
    <2>1. LengthOf(V) = (L + 1) - 1
      BY <1>6, <1>7, Zenon
    <2> QED
      BY <1>1, <2>1
  <1>9. WalkOf(nx, tail) = [i \in 1..L |-> V[i]]
    BY <1>8 DEF WalkOf, V
  <1> QED
    BY <1>1, <1>3, <1>8, <1>9 DEF V

(* In every reachable state Walk is the ring.                              *)
LEMMA RingOfWalk ==
  ASSUME RingInv
  PROVE  /\ RingOf(Walk, WalkLength, next, task_ring)
         /\ Walk \in Seq(Task) /\ Len(Walk) = WalkLength
         /\ Members = List!Linked
  <1>1. PICK L \in Nat \ {0} : \E s \in [1..L -> Task] : RingOf(s, L, next, task_ring)
    BY DEF RingInv
  <1>2. PICK s \in [1..L -> Task] : RingOf(s, L, next, task_ring)
    BY <1>1
  <1>3. Walk = s /\ WalkLength = L
    BY <1>2, WalkIsRing, WalkAsFunction
  <1>4. s \in Seq(Task) /\ Len(s) = L
    OBVIOUS
  <1>5. Members = {s[i] : i \in 1..L} /\ List!Linked = {s[i] : i \in 1..Len(s)}
    BY <1>3 DEF Members, List!Linked
  <1> QED
    BY <1>2, <1>3, <1>4, <1>5

(* The next state's Walk is any ring its pointers form.                    *)
LEMMA NextWalk ==
  ASSUME NEW s, NEW L, RingOf(s, L, next', task_ring'),
         next' \in [Task -> Task \cup {NoTask}]
  PROVE  RingInv' /\ Walk' = s
  <1>1. L \in Nat \ {0} /\ s \in [1..L -> Task] /\ task_ring' \in Task
    BY DEF RingOf
  <1>2. Walk' = s
    BY WalkIsRing, WalkAsFunction
  <1>3. RingInv'
    BY <1>1 DEF RingInv
  <1> QED
    BY <1>2, <1>3

(* task_create: the new task becomes the tail.                             *)
LEMMA InsertAppends ==
  ASSUME RingInv, NEW t \in Task, Insert(t)
  PROVE  RingInv' /\ List!ListInsert(t)
  <1> DEFINE s == Walk
             L == WalkLength
             u == Append(s, t)
  <1>1. /\ RingOf(s, L, next, task_ring) /\ s \in Seq(Task) /\ Len(s) = L
        /\ Members = List!Linked /\ Members = {s[i] : i \in 1..L}
    BY RingOfWalk DEF Members
  <1>2. /\ next \in [Task -> Task \cup {NoTask}] /\ task_ring \in Task
        /\ t \notin Members /\ task_ring' = t
        /\ next' = [next EXCEPT ![t] = next[task_ring], ![task_ring] = t]
    BY DEF RingInv, Insert
  <1> HIDE DEF s, L
  <1>3. /\ L \in Nat \ {0} /\ s \in [1..L -> Task]
        /\ \A i, j \in 1..L : s[i] = s[j] => i = j
        /\ \A i \in 1..L - 1 : next[s[i]] = s[i + 1]
        /\ next[s[L]] = s[1] /\ task_ring = s[L]
    BY <1>1 DEF RingOf
  <1>4. /\ u \in [1..L + 1 -> Task] /\ u[L + 1] = t
        /\ \A i \in 1..L : u[i] = s[i] /\ s[i] # t
    <2>1. u \in Seq(Task) /\ Len(u) = L + 1 /\ u[L + 1] = t /\ \A i \in 1..L : u[i] = s[i]
      BY <1>1, <1>3
    <2> HIDE DEF u
    <2>2. u \in [1..L + 1 -> Task]
      BY <2>1
    <2> QED
      BY <1>1, <1>2, <2>1, <2>2
  <1> HIDE DEF u
  <1>5. next' \in [Task -> Task \cup {NoTask}]
    BY <1>2, <1>3
  <1>6. /\ next'[t] = s[1] /\ next'[s[L]] = t
        /\ \A i \in 1..L - 1 : next'[s[i]] = s[i + 1]
    <2>1. t # task_ring /\ s[L] \in Task
      BY <1>2, <1>3, <1>4
    <2>2. next'[t] = s[1] /\ next'[s[L]] = t
      BY <1>2, <1>3, <2>1
    <2>3. ASSUME NEW i \in 1..L - 1 PROVE next'[s[i]] = s[i + 1]
      <3>1. i \in 1..L /\ L \in 1..L /\ i # L
        BY <1>3
      <3>2. s[i] \in Task /\ s[i] # t /\ s[i] # task_ring
        BY <1>3, <1>4, <3>1
      <3>3. next'[s[i]] = next[s[i]]
        BY <1>2, <3>2
      <3> QED
        BY <1>3, <3>3
    <2> QED
      BY <2>2, <2>3
  <1>7. RingOf(u, L + 1, next', task_ring')
    <2>1. ASSUME NEW i \in 1..L + 1, NEW j \in 1..L + 1, u[i] = u[j] PROVE i = j
      <3>1. CASE i \in 1..L /\ j \in 1..L
        BY <1>3, <1>4, <2>1, <3>1
      <3>2. CASE ~ (i \in 1..L /\ j \in 1..L)
        BY <1>3, <1>4, <2>1, <3>2
      <3> QED
        BY <3>1, <3>2
    <2>2. ASSUME NEW i \in 1..(L + 1) - 1 PROVE next'[u[i]] = u[i + 1]
      <3>1. i \in 1..L
        BY <1>3
      <3>2. CASE i = L
        BY <1>3, <1>4, <1>6, <3>1, <3>2
      <3>3. CASE i # L
        <4>1. i \in 1..L - 1 /\ i + 1 \in 1..L
          BY <1>3, <3>1, <3>3
        <4> QED
          BY <1>4, <1>6, <3>1, <4>1
      <3> QED
        BY <3>2, <3>3
    <2>3. next'[u[L + 1]] = u[1] /\ task_ring' = u[L + 1] /\ L + 1 \in Nat \ {0}
      BY <1>2, <1>3, <1>4, <1>6
    <2> QED
      BY <1>4, <2>1, <2>2, <2>3 DEF RingOf
  <1>8. RingInv' /\ Walk' = u
    BY <1>5, <1>7, NextWalk
  <1>9. t \notin List!Linked /\ Walk' = Append(Walk, t)
    BY <1>1, <1>2, <1>8 DEF u, s
  <1> QED
    BY <1>8, <1>9 DEF List!ListInsert

(* unlink_from_ring of the last member: init_task takes its place.         *)
LEMMA UnlinkLastRemoves ==
  ASSUME RingInv, NEW t \in Task, UnlinkLast(t)
  PROVE  RingInv' /\ List!ListRemove(t)
  <1> DEFINE s == Walk
             L == WalkLength
             u == <<InitTask>>
  <1>1. /\ RingOf(s, L, next, task_ring) /\ s \in Seq(Task) /\ Len(s) = L
    BY RingOfWalk
  <1>2. /\ next \in [Task -> Task \cup {NoTask}] /\ InitTask \in Task
        /\ next[task_ring] = task_ring /\ task_ring = t /\ task_ring' = InitTask
        /\ next' = [next EXCEPT ![InitTask] = InitTask]
    BY TaskRingAssumption DEF RingInv, UnlinkLast, Task, InitTask
  <1> HIDE DEF s, L
  <1>3. L = 1 /\ s[1] = t
    <2>1. /\ L \in Nat \ {0} /\ next[s[L]] = s[1] /\ task_ring = s[L]
          /\ \A i, j \in 1..L : s[i] = s[j] => i = j
      BY <1>1 DEF RingOf
    <2>2. 1 \in 1..L /\ L \in 1..L /\ s[L] = s[1] /\ s[L] = t
      BY <1>2, <2>1
    <2> QED
      BY <2>1, <2>2, Zenon
  <1>4. next' \in [Task -> Task \cup {NoTask}] /\ next'[InitTask] = InitTask
    BY <1>2
  <1>5. RingOf(u, 1, next', task_ring')
    <2>1. u \in [1..1 -> Task] /\ u[1] = InitTask
      BY <1>2
    <2> HIDE DEF u
    <2>2. 1 \in Nat \ {0} /\ 1..1 = {1} /\ 1..1 - 1 = {}
      OBVIOUS
    <2>3. next'[u[1]] = u[1] /\ task_ring' = u[1]
      BY <1>2, <1>4, <2>1
    <2> QED
      BY <2>1, <2>2, <2>3 DEF RingOf
  <1>6. RingInv' /\ Walk' = u
    BY <1>4, <1>5, NextWalk
  <1>7. t \in List!Linked /\ Len(Walk) = 1
    BY <1>1, <1>3 DEF List!Linked, s
  <1>8. List!WithoutPosition(List!Position(t)) = u
    BY <1>7 DEF List!WithoutPosition, List!InitTask, InitTask
  <1> QED
    BY <1>6, <1>7, <1>8 DEF List!ListRemove

(* unlink_from_ring of one of several members: the others keep their order. *)
LEMMA UnlinkOneRemoves ==
  ASSUME RingInv, NEW t \in Task, UnlinkOne(t)
  PROVE  RingInv' /\ List!ListRemove(t)
  <1> DEFINE s == Walk
             L == WalkLength
             k == CHOOSE i \in 1..L : s[i] = t
             before == IF k = 1 THEN s[L] ELSE s[k - 1]
             u == [i \in 1..L - 1 |-> IF i < k THEN s[i] ELSE s[i + 1]]
  <1>1. /\ RingOf(s, L, next, task_ring) /\ s \in Seq(Task) /\ Len(s) = L
        /\ Members = List!Linked /\ Members = {s[i] : i \in 1..L}
    BY RingOfWalk DEF Members
  <1>2. /\ next \in [Task -> Task \cup {NoTask}]
        /\ next[task_ring] # task_ring /\ t \in Members
        /\ next' = [next EXCEPT ![Predecessor(t)] = next[t]]
        /\ task_ring' = IF task_ring = t THEN Predecessor(t) ELSE task_ring
    BY DEF RingInv, UnlinkOne
  <1>3. List!Position(t) = k
    BY <1>1 DEF List!Position
  <1>4. /\ L \in Nat \ {0} /\ s \in [1..L -> Task]
        /\ \A i, j \in 1..L : s[i] = s[j] => i = j
        /\ \A i \in 1..L - 1 : next[s[i]] = s[i + 1]
        /\ next[s[L]] = s[1] /\ task_ring = s[L]
    BY <1>1 DEF RingOf
  <1>5. Predecessor(t) = before
    BY <1>4 DEF Predecessor
  <1>6. k \in 1..L /\ s[k] = t
    BY <1>1, <1>2, Zenon
  <1>7. List!WithoutPosition(k) = u /\ L > 1
    <2>1. L > 1
      BY <1>2, <1>4
    <2> QED
      BY <1>1, <2>1 DEF List!WithoutPosition
  <1> HIDE DEF s, L, k
  <1>8. before \in Task /\ next[t] \in Task
    BY <1>4, <1>6
  <1>9. next' \in [Task -> Task \cup {NoTask}]
    BY <1>2, <1>5, <1>8
  <1>10. /\ next'[before] = next[t]
         /\ \A i \in 1..L : s[i] # before => next'[s[i]] = next[s[i]]
    BY <1>2, <1>4, <1>5, <1>8
  <1>11. /\ u \in [1..L - 1 -> Task]
         /\ \A i \in 1..L - 1 : u[i] = IF i < k THEN s[i] ELSE s[i + 1]
    BY <1>4, <1>6
  <1> HIDE DEF u, before
  <1>12. RingOf(u, L - 1, next', task_ring')
    <2>1. ASSUME NEW i \in 1..L - 1, NEW j \in 1..L - 1, u[i] = u[j] PROVE i = j
      BY <1>4, <1>6, <1>11, <2>1, SMTT(30)
    <2>2. ASSUME NEW i \in 1..(L - 1) - 1 PROVE next'[u[i]] = u[i + 1]
      <3>1. /\ i \in 1..L - 1 /\ i + 1 \in 1..L - 1 /\ i + 1 \in 1..L /\ (i + 1) + 1 \in 1..L
            /\ i \in 1..L /\ L \in 1..L /\ i + 1 # L
        BY <1>4
      <3>2. CASE i + 1 < k
        <4>1. u[i] = s[i] /\ u[i + 1] = s[i + 1] /\ before = s[k - 1] /\ k - 1 \in 1..L
              /\ k - 1 # i
          BY <1>4, <1>6, <1>11, <3>1, <3>2 DEF before
        <4>2. s[i] # before
          BY <1>4, <3>1, <4>1
        <4> QED
          BY <1>4, <1>10, <3>1, <4>1, <4>2, SMTT(30)
      <3>3. CASE i + 1 = k
        <4>1. u[i] = s[i] /\ u[i + 1] = s[(i + 1) + 1] /\ before = s[i]
          BY <1>4, <1>6, <1>11, <3>1, <3>3 DEF before
        <4>2. next[t] = s[(i + 1) + 1]
          BY <1>4, <1>6, <3>1, <3>3
        <4> QED
          BY <1>10, <4>1, <4>2
      <3>4. CASE i + 1 > k
        <4>1. u[i] = s[i + 1] /\ u[i + 1] = s[(i + 1) + 1]
          BY <1>4, <1>6, <1>11, <3>1, <3>4
        <4>2. s[i + 1] # before
          BY <1>4, <1>6, <3>1, <3>4 DEF before
        <4>3. next[s[i + 1]] = s[(i + 1) + 1]
          BY <1>4, <3>1
        <4> QED
          BY <1>10, <3>1, <4>1, <4>2, <4>3
      <3> QED
        BY <1>6, <3>1, <3>2, <3>3, <3>4
    <2>3. next'[u[L - 1]] = u[1] /\ task_ring' = u[L - 1]
      <3>1. L - 1 \in 1..L - 1 /\ 1 \in 1..L - 1 /\ L - 1 \in 1..L /\ L \in 1..L /\ (L - 1) + 1 = L
        BY <1>4, <1>7
      <3>2. CASE k = L
        <4>1. u[L - 1] = s[L - 1] /\ u[1] = s[1] /\ before = s[L - 1] /\ task_ring = t
          BY <1>4, <1>6, <1>7, <1>11, <3>1, <3>2 DEF before
        <4>2. next[t] = s[1]
          BY <1>4, <1>6, <3>2
        <4> QED
          BY <1>2, <1>5, <1>10, <4>1, <4>2
      <3>3. CASE k # L /\ k = 1
        <4>1. u[L - 1] = s[L] /\ u[1] = s[2] /\ before = s[L] /\ task_ring # t
          BY <1>4, <1>6, <1>7, <1>11, <3>1, <3>3 DEF before
        <4>2. next[t] = s[2]
          BY <1>4, <1>6, <1>7, <3>3
        <4> QED
          BY <1>2, <1>4, <1>10, <4>1, <4>2
      <3>4. CASE k # L /\ k # 1
        <4>1. u[L - 1] = s[L] /\ u[1] = s[1] /\ before = s[k - 1] /\ task_ring # t
              /\ k - 1 \in 1..L /\ k - 1 # L
          BY <1>4, <1>6, <1>7, <1>11, <3>1, <3>4 DEF before
        <4>2. s[L] # before
          BY <1>4, <3>1, <4>1
        <4> QED
          BY <1>2, <1>4, <1>10, <3>1, <4>1, <4>2
      <3> QED
        BY <3>2, <3>3, <3>4
    <2>4. L - 1 \in Nat \ {0}
      BY <1>4, <1>7
    <2> QED
      BY <1>11, <2>1, <2>2, <2>3, <2>4 DEF RingOf
  <1>13. RingInv' /\ Walk' = u
    BY <1>9, <1>12, NextWalk
  <1> QED
    BY <1>1, <1>2, <1>3, <1>7, <1>13 DEF List!ListRemove

(* scheduler_init: init_task alone.                                        *)
LEMMA RingStarts == RingInit => RingInv /\ List!ListInit
  <1> SUFFICES ASSUME RingInit PROVE RingInv /\ List!ListInit
    OBVIOUS
  <1> DEFINE u == <<InitTask>>
  <1>1. InitTask \in Task
    BY TaskRingAssumption DEF Task, InitTask
  <1>2. /\ next \in [Task -> Task \cup {NoTask}] /\ next[InitTask] = InitTask
        /\ task_ring = InitTask
    BY <1>1 DEF RingInit
  <1>3. u \in [1..1 -> Task] /\ u[1] = InitTask
    BY <1>1
  <1> HIDE DEF u
  <1>4. RingOf(u, 1, next, task_ring)
    <2>1. 1 \in Nat \ {0} /\ 1..1 = {1} /\ 1..1 - 1 = {}
      OBVIOUS
    <2>2. next[u[1]] = u[1] /\ task_ring = u[1]
      BY <1>2, <1>3
    <2> QED
      BY <1>3, <2>1, <2>2 DEF RingOf
  <1>5. RingInv
    <2>1. \E s \in [1..1 -> Task] : RingOf(s, 1, next, task_ring)
      BY <1>3, <1>4
    <2>2. \E L \in Nat \ {0} : \E s \in [1..L -> Task] : RingOf(s, L, next, task_ring)
      <3>1. 1 \in Nat \ {0}
        OBVIOUS
      <3> QED
        BY <2>1, <3>1, Zenon
    <2> QED
      BY <1>1, <1>2, <2>2 DEF RingInv
  <1>6. Walk = u
    BY <1>4, WalkIsRing, WalkAsFunction
  <1> QED
    BY <1>5, <1>6 DEF u, List!ListInit, List!InitTask, InitTask

(* Every step keeps the ring and is a step of the list, or leaves it.      *)
LEMMA RingStep ==
  ASSUME RingInv, [RingNext]_ringVars
  PROVE  RingInv' /\ [List!ListNext]_Walk
  <1>1. ASSUME UNCHANGED ringVars PROVE RingInv' /\ Walk' = Walk
    BY <1>1, WalkAsFunction DEF RingInv, RingOf, ringVars
  <1>2. ASSUME NEW t \in Task, Insert(t) \/ UnlinkLast(t) \/ UnlinkOne(t)
        PROVE  RingInv' /\ List!ListNext
    <2>1. t \in List!Task
      BY DEF List!Task, Task
    <2> QED
      BY <1>2, <2>1, InsertAppends, UnlinkLastRemoves, UnlinkOneRemoves DEF List!ListNext
  <1> QED
    BY <1>1, <1>2 DEF RingNext, UnlinkNothing

(* The pointer code of task_create, utask_create and unlink_from_ring      *)
(* implements the list, for any number of task structures.                 *)
THEOREM RingImplementsList == TaskRingSpec => ImplementsList
  <1>1. RingInv /\ [RingNext]_ringVars => RingInv' /\ [List!ListNext]_Walk
    BY RingStep
  <1> QED
    BY <1>1, RingStarts, PTL DEF TaskRingSpec, ImplementsList, List!ListSpec
===============================================================================
