--------------------------- MODULE SchedulerLemmas ---------------------------
(***************************************************************************)
(* The inductive invariant of module Scheduler, what its list operations   *)
(* do, and the actions that create tasks, unlink zombies, free or bury     *)
(* tasks (reap_zombies, task_exit, task_stop, kill_all_tasks and           *)
(* emergency_terminate_all) and tick the timer.                            *)
(***************************************************************************)
EXTENDS Scheduler, WellFoundedInduction, TLAPS

(* The workload the theorems are about: no kernel thread passes the pid of *)
(* init_task to task_stop (none does in the kernel), and, by the choice of *)
(* Spec, the shell's kill command is not used.                             *)
InitNotStopped == 0 \notin Stoppable

(* The members of the list are distinct. *)
Distinct == \A i, j \in 1..Len(ring) : ring[i] = ring[j] => i = j

(* The current task is a member, or it has exited and halts, waiting for   *)
(* the timer, with a next pointer into the list.                           *)
CurrentOK ==
    \/ current = NULL
    \/ current \in Linked
    \/ current \in zombies /\ pc[current] = "halt" /\ stale[current] \in Linked

(* init_task is always linked and runnable, and no operation may free it. *)
InitOK ==
    /\ InitTask \in Linked
    /\ state[InitTask] \in {"READY", "RUNNING"}
    /\ pid[InitTask] = 0
    /\ InitTask \notin zombies
    /\ \A t \in Task : InitTask \notin Held(t)

(* Structures that malloc has not returned yet occur nowhere. *)
FreshOK ==
    \A t \in Task : t >= fresh =>
        /\ t \notin Linked \cup zombies \cup freed
        /\ state[t] = "none"
        /\ \A u \in Task : t \notin Held(u)

(* What a task that is in the middle of an operation relies on. *)
LocalOK ==
    \A t \in Task :
        /\ pc[t] \in {"c_pid", "u_pid"} => state[slot[t]] = "none"
        /\ pc[t] = "reap_free" => slot[t] \in zl[t] /\ slot[t] \notin Linked
        /\ op[t] = "stop" /\ pc[t] \in {"reap", "reap_free"} => reg[t] # 0
        /\ op[t] = "killall" => t = InitTask
        /\ pc[t] \notin {"reap", "reap_free"} => zl[t] = {}

(* While init_task is in kill_all_tasks it is alone on the CPU. *)
KillOK ==
    KillingAll(InitTask) =>
        /\ current \in {NULL, InitTask}
        /\ zombies = {}
        /\ \A t \in Linked \ {InitTask} : t \in zl[InitTask] /\ state[t] = "ZOMBIE"

IndInv ==
    /\ TypeOK /\ Distinct /\ OneOwner /\ CurrentOK /\ InitOK /\ FreshOK
    /\ LocalOK /\ KillOK /\ ~frozen

-----------------------------------------------------------------------------
(* Lemmas about the list. *)

(* A set of naturals that is not empty has a least element. *)
LEMMA LeastElement ==
    ASSUME NEW S, S \subseteq Nat, S # {}
    PROVE  \E i \in S : \A j \in S : i <= j
<1>1. PICK i \in S : \A j \in S : ~ (<<j, i>> \in OpToRel(<, Nat))
  BY Zenon, NatLessThanWellFounded, WFMin
<1>2. ASSUME NEW j \in S PROVE i <= j
  <2>1. ~ (j < i)
    BY Zenon, <1>1 DEF OpToRel
  <2> QED
    BY <2>1
<1> QED
  BY <1>2

(* A member has a position. *)
LEMMA PositionOfMember ==
    ASSUME NEW t \in Linked
    PROVE  Position(t) \in 1..Len(ring) /\ ring[Position(t)] = t
<1>1. \E i \in 1..Len(ring) : ring[i] = t
  BY DEF Linked
<1> QED
  BY <1>1 DEF Position

(* Successors are members. *)
LEMMA SuccessorLinked ==
    ASSUME ring \in Seq(Task), ring # <<>>, NEW t \in Linked
    PROVE  Successor(t) \in Linked
<1>1. Position(t) \in 1..Len(ring) /\ Len(ring) \in Nat \ {0}
  BY PositionOfMember
<1>2. (Position(t) % Len(ring)) + 1 \in 1..Len(ring)
  BY <1>1
<1> QED
  BY <1>2 DEF Successor, Linked

(* Removing a member that is not init_task removes exactly that member. *)
LEMMA Removal ==
    ASSUME ring \in Seq(Task), ring # <<>>, Distinct,
           InitTask \in Linked, NEW t \in Linked, t # InitTask,
           ring' = WithoutPosition(Position(t))
    PROVE  /\ ring' \in Seq(Task) /\ ring' # <<>>
           /\ Distinct'
           /\ Linked' = Linked \ {t}
           /\ Successor(t) \in Linked \ {t}
<1> DEFINE k == Position(t)
           n == Len(ring)
<1>1. k \in 1..n /\ ring[k] = t /\ n \in Nat
  BY PositionOfMember
<1>2. PICK m \in 1..n : ring[m] = InitTask
  BY DEF Linked
<1>3. n > 1
  BY <1>1, <1>2
<1>4. ring' = [i \in 1..n - 1 |-> IF i < k THEN ring[i] ELSE ring[i + 1]]
  BY <1>3 DEF WithoutPosition
<1>5. \A i \in 1..n : ring[i] \in Task
  OBVIOUS
<1>6. ring' \in Seq(Task) /\ Len(ring') = n - 1 /\ ring' # <<>>
  <2>1. ring' \in [1..n - 1 -> Task]
    BY <1>1, <1>4, <1>5
  <2>2. n - 1 \in Nat /\ n - 1 > 0
    BY <1>3, <1>1
  <2> HIDE DEF n
  <2> QED
    BY <2>1, <2>2
<1>7. Distinct'
  <2> SUFFICES ASSUME NEW i \in 1..n - 1, NEW j \in 1..n - 1, ring'[i] = ring'[j]
               PROVE  i = j
    BY <1>6 DEF Distinct
  <2> DEFINE a == IF i < k THEN i ELSE i + 1
             b == IF j < k THEN j ELSE j + 1
  <2>1. ring'[i] = ring[a]
    BY <1>4
  <2>2. ring'[j] = ring[b]
    BY <1>4
  <2>3. a \in 1..n /\ b \in 1..n
    BY <1>1
  <2>4. a = b
    <3> HIDE DEF a, b
    <3> QED BY Zenon, <2>1, <2>2, <2>3 DEF Distinct
  <2> QED
    BY <2>4, <1>1
<1>8. Linked' = Linked \ {t}
  <2>1. ASSUME NEW x \in Linked' PROVE x \in Linked /\ x # t
    <3>1. PICK i \in 1..n - 1 : x = ring'[i]
      BY <1>6 DEF Linked
    <3>2. x = ring[IF i < k THEN i ELSE i + 1]
      BY <3>1, <1>4
    <3>3. (IF i < k THEN i ELSE i + 1) \in 1..n /\ (IF i < k THEN i ELSE i + 1) # k
      BY <1>1
    <3> QED
      BY <3>2, <3>3, <1>1, Zenon DEF Linked, Distinct
  <2>2. ASSUME NEW x \in Linked, x # t PROVE x \in Linked'
    <3>1. PICK i \in 1..n : x = ring[i]
      BY DEF Linked
    <3>2. i # k
      BY <3>1, <2>2, <1>1
    <3>3. CASE i < k
      <4>1. i \in 1..n - 1 /\ ring'[i] = x
        BY <3>1, <3>3, <1>1, <1>4
      <4> QED
        BY <4>1, <1>6, Zenon DEF Linked
    <3>4. CASE i > k
      <4>1. i - 1 \in 1..n - 1 /\ ~(i - 1 < k) /\ (i - 1) + 1 = i
        BY <3>4, <1>1
      <4>2. ring'[i - 1] = x
        BY <4>1, <3>1, <1>4
      <4> QED
        BY <4>1, <4>2, <1>6 DEF Linked
    <3> QED
      BY <3>2, <3>3, <3>4, <1>1
  <2> QED
    BY <2>1, <2>2
<1>9. Successor(t) \in Linked /\ Successor(t) # t
  <2>1. (k % n) + 1 \in 1..n /\ (k % n) + 1 # k
    <3>1. CASE k = n
      <4>1. k % n = 0
        BY <3>1, <1>1, <1>3
      <4> QED
        BY <4>1, <3>1, <1>3, <1>1
    <3>2. CASE k < n
      <4>1. k % n = k
        BY <3>2, <1>1
      <4> QED
        BY <4>1, <3>2, <1>1
    <3> QED
      BY <3>1, <3>2, <1>1
  <2> QED
    BY <2>1, <1>1, Zenon DEF Successor, Linked, Distinct
<1> QED
  BY <1>6, <1>7, <1>8, <1>9

(* Inserting a task that is not a member adds exactly that task. *)
LEMMA Insertion ==
    ASSUME ring \in Seq(Task), ring # <<>>, Distinct,
           NEW t \in Task, t \notin Linked, ring' = Append(ring, t)
    PROVE  /\ ring' \in Seq(Task) /\ ring' # <<>>
           /\ Distinct'
           /\ Linked' = Linked \cup {t}
<1> DEFINE n == Len(ring)
<1>1. /\ ring' \in Seq(Task) /\ Len(ring') = n + 1 /\ n \in Nat
      /\ ring'[n + 1] = t
      /\ \A i \in 1..n : ring'[i] = ring[i]
  OBVIOUS
<1>2. Distinct'
  BY <1>1 DEF Distinct, Linked
<1>3. Linked' = Linked \cup {t}
  <2>1. Linked' \subseteq Linked \cup {t}
    BY <1>1 DEF Linked
  <2>2. Linked \subseteq Linked'
    BY <1>1 DEF Linked
  <2>3. t \in Linked'
    BY <1>1 DEF Linked
  <2> QED
    BY <2>1, <2>2, <2>3
<1> QED
  BY <1>1, <1>2, <1>3

(* pick_next returns a runnable member when init_task is one. *)
LEMMA PickNextFindsOne ==
    ASSUME ring \in Seq(Task), ring # <<>>, NEW st,
           InitTask \in Linked, Runnable(st, InitTask), NextOf(current) \in Linked
    PROVE  PickNext(st) \in Linked /\ Runnable(st, PickNext(st))
<1> DEFINE n == Len(ring)
           s == NextOf(current)
           k == Position(s)
           walk == RingFrom(s)
           hits == {i \in 1..n : Runnable(st, walk[i])}
           least == CHOOSE i \in hits : \A j \in hits : i <= j
<1>1. n \in Nat \ {0} /\ k \in 1..n
  BY PositionOfMember
<1>2. PICK m \in 1..n : ring[m] = InitTask
  BY DEF Linked
<1>3. \A i \in 1..n :
         walk[i] = IF k + i - 1 <= n THEN ring[k + i - 1] ELSE ring[k + i - 1 - n]
  BY DEF RingFrom
<1>4. \A i \in 1..n : walk[i] \in Linked
  <2> TAKE i \in 1..n
  <2>1. IF k + i - 1 <= n THEN k + i - 1 \in 1..n ELSE k + i - 1 - n \in 1..n
    BY <1>1
  <2> QED
    BY <2>1, <1>3, Zenon DEF Linked
<1>5. \E i \in 1..n : walk[i] = InitTask
  <2>1. CASE m >= k
    <3>1. m - k + 1 \in 1..n /\ k + (m - k + 1) - 1 = m
      BY <2>1, <1>1
    <3> QED
      BY <3>1, <1>2, <1>3
  <2>2. CASE m < k
    <3>1. /\ m - k + 1 + n \in 1..n
          /\ ~(k + (m - k + 1 + n) - 1 <= n)
          /\ k + (m - k + 1 + n) - 1 - n = m
      BY <2>2, <1>1
    <3> QED
      BY <3>1, <1>2, <1>3
  <2> QED
    BY <2>1, <2>2, <1>1
<1>6. hits # {} /\ hits \subseteq Nat
  BY <1>5, <1>1
<1>7. least \in hits
  <2>1. \E i \in hits : \A j \in hits : i <= j
    <3> HIDE DEF hits
    <3> QED BY Zenon, <1>6, LeastElement
  <2> QED
    BY <2>1, Zenon
<1>8. PickNext(st) = walk[least]
  BY <1>6 DEF PickNext, FirstRunnable
<1> QED
  BY <1>4, <1>7, <1>8

-----------------------------------------------------------------------------
(* The invariant is inductive. *)


(* The code of a task runs only while the task is a member of the list. *)
LEMMA RunnerLinked ==
    ASSUME IndInv, NEW t \in Task, NEW l, l # "halt", At(t, l)
    PROVE  /\ t \in Linked /\ pc[t] = l
           /\ current = NULL => t = InitTask
           /\ current # NULL => current = t
           /\ KillingAll(InitTask) => t = InitTask
<1>1. t = Runner /\ pc[t] = l
  BY DEF At
<1> QED
  BY <1>1 DEF Runner, IndInv, CurrentOK, InitOK, KillOK, InitTask, Task

(* The state after scheduler_init.                                         *)
LEMMA InitIndInv == Init => IndInv
<1> SUFFICES ASSUME Init PROVE IndInv
  OBVIOUS
<1>1. ring = <<InitTask>> /\ Len(ring) = 1 /\ InitTask \in Task
  BY SchedulerAssumption DEF Init, InitTask, Task
<1>2. Linked = {InitTask}
  BY <1>1 DEF Linked
<1>3. \A t \in Task : Held(t) = {}
  BY DEF Init, Held, Creating
<1>4. TypeOK
  <2>1. ring \in Seq(Task) /\ ring # <<>>
    BY <1>1
  <2>2. /\ fresh \in 1..MaxTask + 1 /\ preempt \in 0..Quantum - 1
        /\ next_pid \in Nat
    BY SchedulerAssumption DEF Init
  <2>3. /\ stale \in [Task -> Task] /\ slot \in [Task -> Task]
        /\ pid \in [Task -> Nat] /\ reg \in [Task -> Nat]
        /\ zl \in [Task -> SUBSET Task]
    BY <1>1 DEF Init
  <2> QED
    BY Zenon, <2>1, <2>2, <2>3 DEF Init, TypeOK, Label, Operation
<1>5. Distinct
  BY <1>1 DEF Distinct
<1>6. OneOwner
  BY <1>2, <1>3 DEF Init, OneOwner
<1>7. CurrentOK /\ InitOK
  BY <1>1, <1>2, <1>3 DEF Init, CurrentOK, InitOK
<1>8. FreshOK
  BY <1>1, <1>2, <1>3 DEF Init, FreshOK, InitTask, Task
<1>9. LocalOK /\ KillOK
  BY SchedulerAssumption DEF Init, LocalOK, KillOK, KillingAll, InitTask, Task
<1> QED
  BY <1>4, <1>5, <1>6, <1>7, <1>8, <1>9 DEF IndInv, Init

(* Members are tasks; NULL is not one. *)
LEMMA LinkedTasks ==
    ASSUME IndInv PROVE Linked \subseteq Task /\ InitTask \in Task /\ NULL \notin Task
<1>1. Linked \subseteq Task
  BY SMTT(60) DEF IndInv, TypeOK, Linked
<1>2. InitTask \in Task
  BY SchedulerAssumption DEF InitTask, Task
<1>3. NULL \notin Task
  BY SchedulerAssumption DEF Task
<1> QED
  BY <1>1, <1>2, <1>3

(* A step that only moves a task's control point, and not into the middle  *)
(* of an operation.                                                         *)
LEMMA MoveInd ==
    ASSUME IndInv, NEW t \in Task, t \in Linked,
           pc[t] \in {"run", "c_lock", "u_lock", "reap"}, zl[t] = {}, ~KillingAll(t),
           NEW l \in {"run", "c_lock", "u_lock"}, pc' = [pc EXCEPT ![t] = l],
           UNCHANGED <<tasks, fresh, next_pid, preempt, frozen, op, zl, slot, reg>>,
           lockK' \in BOOLEAN, lockU' \in BOOLEAN
    PROVE  IndInv'
<1> /\ TypeOK /\ Distinct /\ OneOwner /\ CurrentOK /\ InitOK /\ FreshOK
    /\ LocalOK /\ KillOK /\ ~frozen
  BY Zenon DEF IndInv
<1>1. Linked' = Linked
  BY DEF Linked, tasks
<1>2. \A u \in Task : Held(u)' = Held(u)
  BY Zenon DEF Held, Creating, TypeOK
<1>3. \A u \in Task : KillingAll(u)' = KillingAll(u)
  BY Zenon DEF KillingAll, TypeOK
<1>4. TypeOK'
  BY Zenon DEF TypeOK, tasks, Label
<1>5. Distinct'
  BY ZenonT(20) DEF Distinct, tasks
<1>6. OneOwner'
  BY <1>1, <1>2, <1>3, Zenon DEF OneOwner, tasks
<1>7. CurrentOK'
  BY <1>1, Zenon DEF CurrentOK, tasks, TypeOK
<1>8. InitOK' /\ FreshOK'
  BY ZenonT(60), <1>1, <1>2 DEF InitOK, FreshOK, tasks
<1>9. LocalOK'
  BY <1>1, ZenonT(60) DEF LocalOK, tasks, TypeOK
<1>10. KillOK'
  <2>1. InitTask \in Task
    BY LinkedTasks, Zenon
  <2> QED
    BY ZenonT(30), <2>1, <1>1, <1>3 DEF KillOK, tasks
<1> QED
  BY <1>4, <1>5, <1>6, <1>7, <1>8, <1>9, <1>10 DEF IndInv

(* task_create and utask_create once they have their lock: a fresh structure *)
(* belongs to the creating task.                                             *)
LEMMA AllocateInd ==
    ASSUME IndInv, NEW t \in Task, t \in Linked,
           pc[t] \in {"c_lock", "u_lock"}, KillingAll(InitTask) => t = InitTask,
           fresh <= MaxTask,
           NEW l \in {"c_pid", "u_pid"}, pc' = [pc EXCEPT ![t] = l],
           slot' = [slot EXCEPT ![t] = fresh], fresh' = fresh + 1,
           reg' = [reg EXCEPT ![t] = next_pid],
           UNCHANGED <<tasks, next_pid, preempt, frozen, op, zl>>,
           lockK' \in BOOLEAN, lockU' \in BOOLEAN
    PROVE  IndInv'
<1> /\ TypeOK /\ Distinct /\ OneOwner /\ CurrentOK /\ InitOK /\ FreshOK
    /\ LocalOK /\ KillOK /\ ~frozen
  BY Zenon DEF IndInv
<1>1. Linked' = Linked
  BY DEF Linked, tasks
<1>2. /\ Held(t) = zl[t] /\ Held(t)' = Held(t) \cup {fresh}
      /\ \A u \in Task \ {t} : Held(u)' = Held(u)
  BY Zenon DEF Held, Creating, TypeOK
<1>3. \A u \in Task : KillingAll(u)' = KillingAll(u)
  BY Zenon DEF KillingAll, TypeOK
<1>4. /\ fresh \in Task /\ fresh # InitTask
      /\ fresh \notin Linked \cup zombies \cup freed /\ state[fresh] = "none"
      /\ \A u \in Task : fresh \notin Held(u)
  <2>1. fresh \in Task /\ fresh # InitTask /\ fresh >= fresh
    BY DEF TypeOK, Task, InitTask
  <2> QED
    BY <2>1 DEF FreshOK
<1>5. TypeOK'
  <2>1. /\ fresh' \in 1..MaxTask + 1 /\ pc' \in [Task -> Label]
        /\ slot' \in [Task -> Task] /\ reg' \in [Task -> Nat]
    BY SMTT(60), SchedulerAssumption, <1>4 DEF TypeOK, Label, Creating
  <2> QED
    BY Zenon, <2>1 DEF TypeOK, tasks
<1>6. Distinct'
  BY Zenon DEF Distinct, tasks
<1>7. OneOwner'
  BY <1>1, <1>2, <1>3, <1>4 DEF OneOwner, KillingAll, tasks
<1>8. CurrentOK'
  BY <1>1, Zenon DEF CurrentOK, tasks, TypeOK
<1>9. InitOK'
  BY <1>1, <1>2, <1>4 DEF InitOK, tasks
<1>10. FreshOK'
  <2>1. \A u \in Task : u >= fresh' => u >= fresh /\ u # fresh
    BY DEF TypeOK, Task
  <2> QED
    BY <2>1, <1>1, <1>2 DEF FreshOK, tasks
<1>11. LocalOK'
  BY SMTT(60), <1>1, <1>4 DEF LocalOK, tasks, TypeOK
<1>12. KillOK'
  <2>1. InitTask \in Task
    BY LinkedTasks
  <2> QED
    BY ZenonT(30), <2>1, <1>1, <1>3 DEF KillOK, tasks
<1> QED
  BY <1>5, <1>6, <1>7, <1>8, <1>9, <1>10, <1>11, <1>12 DEF IndInv

(* The structure is filled in. *)
LEMMA StorePidInd ==
    ASSUME IndInv, NEW t \in Task, t \in Linked,
           pc[t] \in {"c_pid", "u_pid"}, StorePid(t),
           NEW l \in {"c_link", "u_link"}, pc' = [pc EXCEPT ![t] = l],
           UNCHANGED <<ring, stale, current, zombies, freed, fresh, lockK, lockU,
                       preempt, frozen, op, zl, slot, reg>>
    PROVE  IndInv'
<1>0. Linked \subseteq Task /\ InitTask \in Task /\ NULL \notin Task
  BY LinkedTasks, Zenon
<1> /\ TypeOK /\ Distinct /\ OneOwner /\ CurrentOK /\ InitOK /\ FreshOK
    /\ LocalOK /\ KillOK /\ ~frozen
  BY DEF IndInv
<1> DEFINE s == slot[t]
<1>1. Linked' = Linked
  BY DEF Linked
<1>2. \A u \in Task : Held(u)' = Held(u)
  BY Zenon DEF Held, Creating, TypeOK
<1>3. \A u \in Task : KillingAll(u)' = KillingAll(u) /\ ~KillingAll(t)
  BY Zenon DEF KillingAll, TypeOK
<1>4. s \in Task /\ s \in Held(t) /\ s \notin Linked /\ s # InitTask /\ ~(s >= fresh)
  BY ZenonT(20), <1>3 DEF TypeOK, Held, Creating, OneOwner, InitOK, FreshOK
<1>5. TypeOK'
  <2>1. /\ next_pid' \in Nat /\ pid' \in [Task -> Nat]
        /\ state' \in [Task -> {"none", "RUNNING", "READY", "ZOMBIE"}]
        /\ pc' \in [Task -> Label]
    BY SMTT(60), <1>4 DEF TypeOK, StorePid, Label, Creating
  <2> QED
    BY Zenon, <2>1 DEF TypeOK
<1>6. Distinct'
  BY Zenon DEF Distinct
<1>7. OneOwner'
  BY <1>1, <1>2, <1>3 DEF OneOwner
<1>8. CurrentOK'
  BY <1>1, Zenon DEF CurrentOK, TypeOK
<1>9. InitOK'
  BY <1>1, <1>2, <1>4, SMTT(30) DEF InitOK, StorePid, TypeOK, Task, InitTask
<1>10. FreshOK'
  <2>1. \A u \in Task \ {s} : state'[u] = state[u]
    BY Zenon DEF StorePid, TypeOK
  <2>2. fresh' = fresh /\ zombies' = zombies /\ freed' = freed
    BY Zenon
  <2> HIDE DEF s
  <2> QED
    BY <1>1, <1>2, <1>4, <2>1, <2>2, ZenonT(60) DEF FreshOK
<1>11. LocalOK'
  <2> SUFFICES ASSUME NEW u \in Task PROVE
        /\ pc'[u] \in {"c_pid", "u_pid"} => state'[slot[u]] = "none"
        /\ pc'[u] = "reap_free" => slot[u] \in zl[u] /\ slot[u] \notin Linked
        /\ op[u] = "stop" /\ pc'[u] \in {"reap", "reap_free"} => reg[u] # 0
        /\ op[u] = "killall" => u = InitTask
        /\ pc'[u] \notin {"reap", "reap_free"} => zl[u] = {}
    BY ZenonT(20), <1>1 DEF LocalOK
  <2>1. CASE u = t
    BY Zenon, <2>1 DEF LocalOK, TypeOK
  <2>2. CASE u # t
    <3>1. pc'[u] = pc[u]
      BY <2>2, Zenon DEF TypeOK
    <3>2. pc[u] \in {"c_pid", "u_pid"} => slot[u] # s
      BY ZenonT(20), <2>2, <1>4 DEF OneOwner, Held, Creating
    <3> QED
      BY Zenon, <3>1, <3>2, <1>4 DEF LocalOK, StorePid, TypeOK
  <2> QED
    BY ZenonT(20), <2>1, <2>2
<1>12. KillOK'
  <2>1. \A u \in Linked : state'[u] = state[u]
    BY <1>4, <1>0, Zenon DEF StorePid, TypeOK
  <2> QED
    BY Zenon, <2>1, <1>1, <1>3, <1>0 DEF KillOK
<1> QED
  BY <1>5, <1>6, <1>7, <1>8, <1>9, <1>10, <1>11, <1>12, Zenon DEF IndInv

(* The new structure enters the list. *)
LEMMA LinkInd ==
    ASSUME IndInv, NEW t \in Task, t \in Linked,
           pc[t] \in {"c_link", "u_link"}, KillingAll(InitTask) => t = InitTask,
           ring' = Append(ring, slot[t]), pc' = [pc EXCEPT ![t] = "run"],
           UNCHANGED <<stale, state, pid, current, zombies, freed, fresh, next_pid,
                       preempt, frozen, op, zl, slot, reg>>,
           lockK' \in BOOLEAN, lockU' \in BOOLEAN
    PROVE  IndInv'
<1>0. Linked \subseteq Task /\ InitTask \in Task /\ NULL \notin Task
  BY LinkedTasks, Zenon
<1> /\ TypeOK /\ Distinct /\ OneOwner /\ CurrentOK /\ InitOK /\ FreshOK
    /\ LocalOK /\ KillOK /\ ~frozen
  BY DEF IndInv
<1> DEFINE s == slot[t]
<1>1. /\ Held(t) = zl[t] \cup {s} /\ Held(t)' = zl[t]
      /\ \A u \in Task \ {t} : Held(u)' = Held(u)
  BY Zenon DEF Held, Creating, TypeOK
<1>2. \A u \in Task : KillingAll(u)' = KillingAll(u) /\ ~KillingAll(t)
  BY Zenon DEF KillingAll, TypeOK
<1>3. ~KillingAll(InitTask)
  BY <1>2
<1>4. \A u \in Task : ~KillingAll(u)
  BY Zenon, <1>3 DEF KillingAll, LocalOK
<1>5. s \in Task /\ s \in Held(t) /\ s \notin Linked /\ s # InitTask /\ ~(s >= fresh)
  BY <1>1, <1>2, Zenon DEF TypeOK, OneOwner, InitOK, FreshOK
<1>6. /\ ring' \in Seq(Task) /\ ring' # <<>> /\ Distinct'
      /\ Linked' = Linked \cup {s}
  BY Zenon, <1>5, Insertion DEF TypeOK
<1>7. TypeOK'
  BY Zenon, <1>6 DEF TypeOK, Label
<1>8. zl[t] = {}
  BY ZenonT(20) DEF LocalOK
<1>9. OneOwner'
  <2>1. s \notin zombies \cup freed /\ \A u \in Task \ {t} : s \notin Held(u)
    BY Zenon, <1>5 DEF OneOwner
  <2>2. \A u \in Task : Held(u)' \subseteq Held(u) /\ s \notin Held(u)'
    <3> HIDE DEF s
    <3> QED
      BY Zenon, <1>1, <1>8, <2>1
  <2>3. Linked' \cap (zombies' \cup freed') = {} /\ zombies' \cap freed' = {}
    BY ZenonT(60), <1>6, <2>1 DEF OneOwner
  <2>4. ASSUME NEW u \in Task
        PROVE  /\ Held(u)' \cap (zombies' \cup freed') = {}
               /\ KillingAll(u)' \/ Held(u)' \cap Linked' = {}
               /\ \A v \in Task \ {u} : Held(u)' \cap Held(v)' = {}
    <3> HIDE DEF s
    <3>1. /\ Held(u) \cap (zombies \cup freed) = {} /\ Held(u) \cap Linked = {}
          /\ \A v \in Task \ {u} : Held(u) \cap Held(v) = {}
      BY Zenon, <1>4 DEF OneOwner
    <3> QED
      BY ZenonT(60), <3>1, <2>2, <1>6
  <2> QED
    BY Zenon, <2>3, <2>4 DEF OneOwner
<1>10. CurrentOK'
  BY <1>6, Zenon DEF CurrentOK, TypeOK
<1>11. InitOK' /\ FreshOK'
  <2>1. \A u \in Task : Held(u)' \subseteq Held(u)
    BY Zenon, <1>1
  <2>2. InitOK'
    BY Zenon, <1>0, <1>6, <2>1 DEF InitOK
  <2>3. FreshOK'
    <3> HIDE DEF s
    <3> QED
      BY ZenonT(30), <1>5, <1>6, <2>1 DEF FreshOK
  <2> QED
    BY <2>2, <2>3
<1>12. LocalOK'
  <2>1. \A u \in Task \ {t} : s \notin zl[u]
    BY <1>5, ZenonT(60) DEF OneOwner, Held
  <2> QED
    BY ZenonT(60), <2>1, <1>6, <1>8 DEF LocalOK, TypeOK
<1>13. KillOK'
  BY Zenon, <1>2, <1>3, <1>0 DEF KillOK
<1> QED
  BY Zenon, <1>6, <1>7, <1>9, <1>10, <1>11, <1>12, <1>13 DEF IndInv

(* utask_create gives the structure back. *)
LEMMA UCreateFailInd ==
    ASSUME IndInv, NEW t \in Task, UCreateFail(t) PROVE IndInv'
<1>0. Linked \subseteq Task /\ InitTask \in Task /\ NULL \notin Task
  BY LinkedTasks, ZenonT(60)
<1> /\ TypeOK /\ Distinct /\ OneOwner /\ CurrentOK /\ InitOK /\ FreshOK
    /\ LocalOK /\ KillOK /\ ~frozen
  BY DEF IndInv
<1> DEFINE s == slot[t]
<1>1. /\ t \in Linked /\ pc[t] = "u_link"
      /\ freed' = freed \cup {s} /\ pc' = [pc EXCEPT ![t] = "run"]
      /\ UNCHANGED <<ring, stale, state, pid, current, zombies, creation, preempt,
                     frozen, op, zl, slot, reg>>
  BY RunnerLinked DEF UCreateFail, Goto
<1>2. /\ Held(t) = zl[t] \cup {s} /\ Held(t)' = {} /\ zl[t] = {}
      /\ \A u \in Task \ {t} : Held(u)' = Held(u)
  <2>1. zl[t] = {}
    BY <1>1, Zenon DEF LocalOK
  <2>2. pc'[t] = "run" /\ \A u \in Task \ {t} : pc'[u] = pc[u]
    BY <1>1, Zenon DEF TypeOK
  <2> QED
    BY Zenon, <1>1, <2>1, <2>2 DEF Held, Creating
<1>3. \A u \in Task : KillingAll(u)' = KillingAll(u) /\ ~KillingAll(t)
  BY <1>1, Zenon DEF KillingAll, TypeOK
<1>4. /\ s \in Task /\ s \in Held(t) /\ s \notin Linked /\ s # InitTask
      /\ ~(s >= fresh)
  BY <1>2, <1>3, Zenon DEF TypeOK, OneOwner, InitOK, FreshOK
<1>5. Linked' = Linked
  BY Zenon, <1>1 DEF Linked
<1>6. TypeOK'
  BY <1>1, <1>4, Zenon DEF TypeOK, Label, creation
<1>7. Distinct'
  BY <1>1, Zenon DEF Distinct
<1>8. OneOwner'
  BY <1>1, <1>2, <1>3, <1>4, <1>5 DEF OneOwner
<1>9. CurrentOK'
  BY <1>1, <1>5, Zenon DEF CurrentOK, TypeOK
<1>10. InitOK' /\ FreshOK'
  <2>1. \A u \in Task : Held(u)' \subseteq Held(u)
    BY <1>2, Zenon
  <2>2. InitOK'
    BY Zenon, <1>1, <1>5, <2>1 DEF InitOK
  <2>3. FreshOK'
    BY <1>1, <1>4, <1>5, <2>1, Zenon DEF FreshOK, creation
  <2> QED
    BY <2>2, <2>3, SMTT(30)
<1>11. LocalOK'
  BY <1>1, <1>2, <1>5, ZenonT(60) DEF LocalOK, TypeOK
<1>12. KillOK'
  BY ZenonT(20), <1>1, <1>3, <1>5, <1>0 DEF KillOK
<1> QED
  BY <1>1, <1>6, <1>7, <1>8, <1>9, <1>10, <1>11, <1>12, Zenon DEF IndInv

-----------------------------------------------------------------------------
(* reap_zombies up to the point where a zombie is freed.                   *)

(* reap_zombies detaches the zombie list. *)
LEMMA ReapCallInd ==
    ASSUME IndInv, NEW t \in Task, NEW o \in {"exit", "stop", "alive"}, NEW p \in Nat,
           o = "stop" => p # 0, ReapCall(t, o, p)
    PROVE  IndInv'
<1>0. Linked \subseteq Task /\ InitTask \in Task /\ NULL \notin Task
  BY LinkedTasks, ZenonT(60)
<1> /\ TypeOK /\ Distinct /\ OneOwner /\ CurrentOK /\ InitOK /\ FreshOK
    /\ LocalOK /\ KillOK /\ ~frozen
  BY DEF IndInv
<1>1. /\ t \in Linked /\ pc[t] = "run" /\ (KillingAll(InitTask) => t = InitTask)
      /\ pc' = [pc EXCEPT ![t] = "reap"] /\ op' = [op EXCEPT ![t] = o]
      /\ reg' = [reg EXCEPT ![t] = p] /\ zl' = [zl EXCEPT ![t] = zombies]
      /\ zombies' = {}
      /\ UNCHANGED <<ring, stale, state, pid, current, freed, creation, preempt,
                     frozen, slot>>
      /\ current # NULL => current = t
  BY RunnerLinked, Zenon DEF ReapCall, Goto
<1>2. /\ Held(t)' = zombies
      /\ \A u \in Task \ {t} : Held(u)' = Held(u)
  BY <1>1, Zenon DEF Held, Creating, TypeOK
<1>3. \A u \in Task : ~KillingAll(u)' /\ ~KillingAll(u)
  BY <1>1, ZenonT(60) DEF KillingAll, TypeOK, LocalOK
<1>4. Linked' = Linked
  BY <1>1, Zenon DEF Linked
<1>5. TypeOK'
  BY <1>1, Zenon DEF TypeOK, Label, Operation, creation
<1>6. Distinct'
  BY <1>1, Zenon DEF Distinct
<1>7. OneOwner'
  BY <1>1, <1>2, <1>3, <1>4, SMTT(30) DEF OneOwner
<1>8. CurrentOK'
  BY <1>1, <1>4, Zenon DEF CurrentOK
<1>9. InitOK' /\ FreshOK'
  BY <1>1, <1>2, <1>4, SMTT(30) DEF InitOK, FreshOK, creation
<1>10. LocalOK'
  BY SMTT(60), <1>1, <1>4 DEF LocalOK, TypeOK
<1>11. KillOK'
  BY <1>3, <1>0, Zenon DEF KillOK
<1> QED
  BY <1>1, <1>5, <1>6, <1>7, <1>8, <1>9, <1>10, <1>11, Zenon DEF IndInv

(* Unlinking a task other than init_task, whatever else the step does. *)
LEMMA UnlinkEffect ==
    ASSUME IndInv, NEW z \in Task, z # InitTask, Unlink(z)
    PROVE  /\ ring' \in Seq(Task) /\ ring' # <<>> /\ Distinct'
           /\ Linked' = Linked \ {z} /\ stale' \in [Task -> Task]
           /\ \A u \in Task \ {z} : stale'[u] = stale[u]
           /\ z \in Linked => stale'[z] \in Linked'
<1>0. Linked \subseteq Task /\ InitTask \in Task /\ NULL \notin Task
  BY LinkedTasks, SMTT(30)
<1>1. CASE z \in Linked
  <2>1. ring' = WithoutPosition(Position(z)) /\ stale' = [stale EXCEPT ![z] = Successor(z)]
    BY <1>1, Zenon DEF Unlink
  <2>2. /\ ring' \in Seq(Task) /\ ring' # <<>> /\ Distinct'
        /\ Linked' = Linked \ {z} /\ Successor(z) \in Linked \ {z}
    BY <1>1, <2>1, Removal, Zenon DEF IndInv, TypeOK, InitOK
  <2> QED
    BY <2>1, <2>2, <1>0, Zenon DEF IndInv, TypeOK
<1>2. CASE z \notin Linked
  BY <1>2 DEF Unlink, IndInv, TypeOK, Distinct, Linked
<1> QED
  BY <1>1, <1>2, Zenon

(* reap_zombies unlinks one of its zombies. *)
LEMMA ReapUnlinkInd ==
    ASSUME IndInv, NEW t \in Task, ReapUnlink(t) PROVE IndInv'
<1>0. Linked \subseteq Task /\ InitTask \in Task /\ NULL \notin Task
  BY LinkedTasks, Zenon
<1> /\ TypeOK /\ Distinct /\ OneOwner /\ CurrentOK /\ InitOK /\ FreshOK
    /\ LocalOK /\ KillOK /\ ~frozen
  BY DEF IndInv
<1>1. PICK z \in zl[t] : Unlink(z) /\ slot' = [slot EXCEPT ![t] = z]
  BY ZenonT(40) DEF ReapUnlink
<1>2. /\ t \in Linked /\ pc[t] = "reap" /\ (KillingAll(InitTask) => t = InitTask)
      /\ pc' = [pc EXCEPT ![t] = "reap_free"]
      /\ UNCHANGED <<state, pid, current, zombies, freed, creation, preempt,
                     frozen, op, zl, reg>>
      /\ current # NULL => current = t
      /\ current = NULL => t = InitTask
  BY RunnerLinked, Zenon DEF ReapUnlink, Goto
<1>3. z \in Task /\ z # InitTask /\ z \in Held(t)
  BY Zenon DEF TypeOK, Held, InitOK
<1>4. \A u \in Task : Held(u)' = Held(u)
  BY <1>1, <1>2, Zenon DEF Held, Creating, TypeOK
<1>5. \A u \in Task : KillingAll(u)' = KillingAll(u)
  BY SMTT(60), <1>2 DEF KillingAll, TypeOK
<1>6. /\ ring' \in Seq(Task) /\ ring' # <<>> /\ Distinct'
      /\ Linked' = Linked \ {z} /\ stale' \in [Task -> Task]
  BY <1>1, <1>3, UnlinkEffect, Zenon
<1>7. z # t
  <2>1. CASE KillingAll(t)
    BY <2>1, <1>3, Zenon DEF KillingAll, LocalOK
  <2>2. CASE ~KillingAll(t)
    BY <2>2, <1>2, <1>3, Zenon DEF OneOwner
  <2> QED
    BY <2>1, <2>2, Zenon
<1>8. TypeOK'
  BY ZenonT(40), <1>1, <1>2, <1>3, <1>6 DEF TypeOK, Label, creation
<1>9. OneOwner'
  BY <1>2, <1>4, <1>5, <1>6, ZenonT(60) DEF OneOwner
<1>10. CurrentOK'
  BY Zenon, <1>2, <1>6, <1>7 DEF CurrentOK
<1>11. InitOK' /\ FreshOK'
  <2>1. InitOK'
    BY <1>2, <1>3, <1>4, <1>6, ZenonT(40) DEF InitOK
  <2>2. FreshOK'
    BY <1>2, <1>4, <1>6, Zenon DEF FreshOK, creation
  <2> QED
    BY <2>1, <2>2, Zenon
<1>12. LocalOK'
  BY ZenonT(60), <1>1, <1>2, <1>6 DEF LocalOK, TypeOK
<1>13. KillOK'
  BY Zenon, <1>2, <1>5, <1>6, <1>0 DEF KillOK
<1> QED
  BY Zenon, <1>2, <1>6, <1>8, <1>9, <1>10, <1>11, <1>12, <1>13 DEF IndInv

-----------------------------------------------------------------------------

(* reap_zombies frees it. *)
LEMMA ReapFreeInd ==
    ASSUME IndInv, NEW t \in Task, ReapFree(t) PROVE IndInv'
<1>0. Linked \subseteq Task /\ InitTask \in Task /\ NULL \notin Task
  BY LinkedTasks, Zenon
<1> /\ TypeOK /\ Distinct /\ OneOwner /\ CurrentOK /\ InitOK /\ FreshOK
    /\ LocalOK /\ KillOK /\ ~frozen
  BY DEF IndInv
<1> DEFINE z == slot[t]
<1>1. /\ t \in Linked /\ pc[t] = "reap_free"
      /\ freed' = freed \cup ({z} \ {InitTask})
      /\ zl' = [zl EXCEPT ![t] = @ \ {z}]
      /\ pc' = [pc EXCEPT ![t] = "reap"]
      /\ UNCHANGED <<ring, stale, state, pid, current, zombies, creation, preempt,
                     frozen, op, slot, reg>>
      /\ current # NULL => current = t
  BY RunnerLinked DEF ReapFree, Goto, Free
<1>2. z \in Task /\ z \in zl[t] /\ z \notin Linked /\ z \in Held(t)
  BY <1>1 DEF TypeOK, Held, LocalOK
<1>3. /\ Held(t)' = Held(t) \ {z}
      /\ \A u \in Task \ {t} : Held(u)' = Held(u)
  BY <1>1 DEF Held, Creating, TypeOK
<1>4. \A u \in Task : KillingAll(u)' = KillingAll(u)
  BY <1>1 DEF KillingAll, TypeOK
<1>5. Linked' = Linked
  BY <1>1 DEF Linked
<1>6. z # InitTask /\ ~(z >= fresh)
  BY <1>2 DEF InitOK, FreshOK
<1>7. TypeOK'
  BY <1>1, <1>2, Zenon DEF TypeOK, Label, creation
<1>8. Distinct'
  BY <1>1 DEF Distinct
<1>9. OneOwner'
  <2>1. z \notin zombies /\ \A u \in Task \ {t} : z \notin Held(u)
    BY Zenon, <1>2 DEF OneOwner
  <2>2. \A u \in Task : Held(u)' \subseteq Held(u) /\ z \notin Held(u)'
    <3> HIDE DEF z
    <3> QED
      BY Zenon, <1>3, <2>1
  <2>3. freed' \subseteq freed \cup {z} /\ zombies' = zombies
    BY Zenon, <1>1
  <2>4. Linked' \cap (zombies' \cup freed') = {} /\ zombies' \cap freed' = {}
    BY ZenonT(60), <1>2, <1>5, <2>1, <2>3 DEF OneOwner
  <2>5. ASSUME NEW u \in Task
        PROVE  /\ Held(u)' \cap (zombies' \cup freed') = {}
               /\ KillingAll(u)' \/ Held(u)' \cap Linked' = {}
               /\ \A v \in Task \ {u} : Held(u)' \cap Held(v)' = {}
    <3> HIDE DEF z
    <3>1. /\ Held(u) \cap (zombies \cup freed) = {}
          /\ KillingAll(u) \/ Held(u) \cap Linked = {}
          /\ \A v \in Task \ {u} : Held(u) \cap Held(v) = {}
      BY Zenon DEF OneOwner
    <3>2. Held(u)' \cap (zombies' \cup freed') = {}
      BY ZenonT(30), <3>1, <2>2, <2>3
    <3> QED
      BY ZenonT(30), <3>1, <3>2, <2>2, <1>4, <1>5
  <2> QED
    BY Zenon, <2>4, <2>5 DEF OneOwner
<1>10. CurrentOK'
  BY <1>1, <1>5, Zenon DEF CurrentOK
<1>11. InitOK' /\ FreshOK'
  BY <1>1, <1>3, <1>5, <1>6 DEF InitOK, FreshOK, creation
<1>12. LocalOK'
  BY <1>1, <1>5, ZenonT(60) DEF LocalOK, TypeOK
<1>13. KillOK'
  <2>1. KillingAll(InitTask) => \A u \in Linked \ {InitTask} : u \in zl'[InitTask]
    BY <1>1, <1>2, <1>0, Zenon DEF KillOK, TypeOK
  <2> QED
    BY Zenon, <2>1, <1>1, <1>4, <1>5, <1>0 DEF KillOK
<1> QED
  BY <1>1, <1>7, <1>8, <1>9, <1>10, <1>11, <1>12, <1>13 DEF IndInv

(* A task other than init_task exits or stops itself. *)
LEMMA BuryInd ==
    ASSUME IndInv, NEW t \in Task, t \in Linked, current = t, t # InitTask,
           pc[t] = "reap", zl[t] = {}, Bury(t),
           UNCHANGED <<pid, current, freed, creation, preempt, frozen, op, zl,
                       slot, reg>>
    PROVE  IndInv'
<1>0. Linked \subseteq Task /\ InitTask \in Task /\ NULL \notin Task
  BY LinkedTasks, Zenon
<1> /\ TypeOK /\ Distinct /\ OneOwner /\ CurrentOK /\ InitOK /\ FreshOK
    /\ LocalOK /\ KillOK /\ ~frozen
  BY ZenonT(20) DEF IndInv
<1>1. /\ state' = [state EXCEPT ![t] = "ZOMBIE"] /\ zombies' = zombies \cup {t}
      /\ Unlink(t) /\ pc' = [pc EXCEPT ![t] = "halt"]
  BY DEF Bury, Goto
<1>2. /\ ring' \in Seq(Task) /\ ring' # <<>> /\ Distinct'
      /\ Linked' = Linked \ {t} /\ stale' \in [Task -> Task]
      /\ stale'[t] \in Linked'
  BY <1>1, UnlinkEffect
<1>3. Held(t)' = {} /\ Held(t) = {} /\ \A u \in Task \ {t} : Held(u)' = Held(u)
  BY <1>1 DEF Held, Creating, TypeOK
<1>4. \A u \in Task : ~KillingAll(u) /\ ~KillingAll(u)'
  <2>1. t # NULL
    BY <1>0
  <2>2. ~KillingAll(InitTask)
    BY <2>1 DEF KillOK
  <2>3. KillingAll(InitTask)' = KillingAll(InitTask)
    BY <1>1 DEF KillingAll, TypeOK
  <2> QED
    BY <2>2, <2>3, Zenon DEF KillingAll, LocalOK
<1>5. t \notin freed /\ ~(t >= fresh) /\ \A u \in Task : t \notin Held(u)
  BY <1>4 DEF OneOwner, FreshOK
<1>6. TypeOK'
  BY Zenon, <1>1, <1>2 DEF TypeOK, Label, creation
<1>7. OneOwner'
  BY SMTT(60), <1>1, <1>2, <1>3, <1>4, <1>5 DEF OneOwner
<1>8. CurrentOK'
  BY <1>1, <1>2, Zenon DEF CurrentOK, TypeOK
<1>9. InitOK' /\ FreshOK'
  <2>1. InitOK'
    <3>1. state'[InitTask] = state[InitTask]
      BY <1>0, <1>1, Zenon DEF TypeOK
    <3>2. \A u \in Task : Held(u)' \subseteq Held(u)
      BY ZenonT(20), <1>3
    <3> QED
      BY ZenonT(20), <1>1, <1>2, <3>1, <3>2 DEF InitOK
  <2>2. \A u \in Task : u >= fresh => u # t
    BY <1>5
  <2>3. \A u \in Task \ {t} : state'[u] = state[u]
    BY <1>1, Zenon DEF TypeOK
  <2>4. FreshOK'
    <3>1. fresh' = fresh /\ freed' = freed /\ zombies' \subseteq zombies \cup {t}
      BY Zenon, <1>1 DEF creation
    <3>2. Linked' \subseteq Linked /\ \A u \in Task : Held(u)' \subseteq Held(u)
      BY Zenon, <1>2, <1>3
    <3> QED
      BY ZenonT(30), <2>2, <2>3, <3>1, <3>2 DEF FreshOK
  <2> QED
    BY <2>1, <2>4
<1>10. LocalOK'
  <2>1. \A u \in Task : pc[u] \in {"c_pid", "u_pid"} => slot[u] # t
    BY ZenonT(20), <1>5 DEF Held, Creating
  <2> QED
    BY ZenonT(60), <2>1, <1>1, <1>2 DEF LocalOK, TypeOK
<1>11. KillOK'
  BY <1>4, <1>0, Zenon DEF KillOK
<1> QED
  BY ZenonT(20), <1>2, <1>6, <1>7, <1>8, <1>9, <1>10, <1>11 DEF IndInv

(* task_stop finds a member that carries the pid it looks for. *)
LEMMA FoundMember ==
    ASSUME NEW p, Match(p) # {}, ring \in Seq(Task)
    PROVE  Found(p) \in Linked /\ pid[Found(p)] = p
<1>1. Match(p) \subseteq Nat
  BY DEF Match
<1>2. \E i \in Match(p) : \A j \in Match(p) : i <= j
  BY <1>1, LeastElement
<1> DEFINE least == CHOOSE i \in Match(p) : \A j \in Match(p) : i <= j
<1>3. least \in Match(p)
  BY <1>2
<1> QED
  BY Zenon, <1>3 DEF Found, Match, Linked

(* task_stop takes another task out of the list. *)
LEMMA StopOtherInd ==
    ASSUME IndInv, NEW t \in Task, StopOther(t) PROVE IndInv'
<1>0. Linked \subseteq Task /\ InitTask \in Task /\ NULL \notin Task
  BY LinkedTasks, Zenon
<1> /\ TypeOK /\ Distinct /\ OneOwner /\ CurrentOK /\ InitOK /\ FreshOK
    /\ LocalOK /\ KillOK /\ ~frozen
  BY DEF IndInv
<1> DEFINE z == Found(reg[t])
<1>1. /\ t \in Linked /\ pc[t] = "reap" /\ (KillingAll(InitTask) => t = InitTask)
      /\ zl[t] = {} /\ op[t] = "stop" /\ Match(reg[t]) # {} /\ z # current
      /\ Unlink(z) /\ slot' = [slot EXCEPT ![t] = z]
      /\ pc' = [pc EXCEPT ![t] = "stop_free"]
      /\ UNCHANGED <<state, pid, current, zombies, freed, creation, preempt,
                     frozen, op, zl, reg>>
      /\ current # NULL => current = t
  BY ZenonT(20), RunnerLinked DEF StopOther, Reaped, Goto
<1>2. z \in Linked /\ z \in Task /\ z # InitTask
  BY SMTT(60), <1>1, FoundMember, <1>0 DEF TypeOK, LocalOK, InitOK
<1>3. /\ ring' \in Seq(Task) /\ ring' # <<>> /\ Distinct'
      /\ Linked' = Linked \ {z} /\ stale' \in [Task -> Task]
  <2> HIDE DEF z
  <2> QED BY ZenonT(20), <1>1, <1>2, UnlinkEffect
<1> HIDE DEF z
<1>4. /\ Held(t) = {} /\ Held(t)' = {z}
      /\ \A u \in Task \ {t} : Held(u)' = Held(u)
  BY <1>1, <1>2, Zenon DEF Held, Creating, TypeOK
<1>5. \A u \in Task : ~KillingAll(u) /\ ~KillingAll(u)'
  BY SMTT(60), <1>1 DEF KillingAll, LocalOK, TypeOK
<1>6. z \notin zombies \cup freed /\ ~(z >= fresh) /\ \A u \in Task : z \notin Held(u)
  BY <1>2, <1>5 DEF OneOwner, FreshOK
<1>7. TypeOK'
  BY Zenon, <1>1, <1>2, <1>3 DEF TypeOK, Label, creation
<1>8. OneOwner'
  <2>1. Linked' \cap (zombies' \cup freed') = {} /\ zombies' \cap freed' = {}
    BY Zenon, <1>1, <1>3 DEF OneOwner
  <2>2. ASSUME NEW u \in Task
        PROVE  /\ Held(u)' \cap (zombies' \cup freed') = {}
               /\ Held(u)' \cap Linked' = {}
               /\ \A v \in Task \ {u} : Held(u)' \cap Held(v)' = {}
    <3>1. /\ Held(u) \cap (zombies \cup freed) = {} /\ Held(u) \cap Linked = {}
          /\ \A v \in Task \ {u} : Held(u) \cap Held(v) = {}
      BY Zenon, <1>5 DEF OneOwner
    <3>2. CASE u = t
      BY ZenonT(60), <3>2, <1>1, <1>3, <1>4, <1>6
    <3>3. CASE u # t
      <4>1. Held(u)' = Held(u) /\ zombies' = zombies /\ freed' = freed
        BY Zenon, <3>3, <1>1, <1>4
      <4>2. \A v \in Task : Held(v)' \subseteq Held(v) \cup {z}
        BY Zenon, <1>4
      <4>3. z \notin Held(u) /\ Linked' \subseteq Linked
        BY Zenon, <1>3, <1>6
      <4> QED
        BY ZenonT(60), <3>1, <4>1, <4>2, <4>3
    <3> QED
      BY <3>2, <3>3
  <2> QED
    BY Zenon, <2>1, <2>2 DEF OneOwner
<1>9. CurrentOK'
  BY ZenonT(20), <1>1, <1>3 DEF CurrentOK
<1>10. InitOK' /\ FreshOK'
  <2>1. \A u \in Task : Held(u)' \subseteq Held(u) \cup {z}
    BY Zenon, <1>4
  <2>2. InitOK'
    BY ZenonT(30), <1>0, <1>1, <1>2, <1>3, <2>1 DEF InitOK
  <2>3. fresh' = fresh
    BY <1>1, Zenon DEF creation
  <2>4. FreshOK'
    BY ZenonT(30), <1>1, <1>3, <1>6, <2>1, <2>3 DEF FreshOK
  <2> QED
    BY <2>2, <2>4
<1>11. LocalOK'
  BY ZenonT(60), <1>1, <1>3 DEF LocalOK, TypeOK
<1>12. KillOK'
  BY ZenonT(20), <1>5, <1>0 DEF KillOK
<1> QED
  BY ZenonT(20), <1>1, <1>3, <1>7, <1>8, <1>9, <1>10, <1>11, <1>12 DEF IndInv

(* ... and frees it with interrupts enabled. *)
LEMMA StopFreeInd ==
    ASSUME IndInv, NEW t \in Task, StopFree(t) PROVE IndInv'
<1>0. Linked \subseteq Task /\ InitTask \in Task /\ NULL \notin Task
  BY LinkedTasks, Zenon
<1> /\ TypeOK /\ Distinct /\ OneOwner /\ CurrentOK /\ InitOK /\ FreshOK
    /\ LocalOK /\ KillOK /\ ~frozen
  BY DEF IndInv
<1> DEFINE z == slot[t]
<1>1. /\ t \in Linked /\ pc[t] = "stop_free"
      /\ freed' = freed \cup ({z} \ {InitTask})
      /\ pc' = [pc EXCEPT ![t] = "run"]
      /\ UNCHANGED <<ring, stale, state, pid, current, zombies, creation, preempt,
                     frozen, op, zl, slot, reg>>
      /\ current # NULL => current = t
  BY RunnerLinked DEF StopFree, Goto, Free
<1>2. \A u \in Task : KillingAll(u)' = KillingAll(u) /\ ~KillingAll(t)
  BY <1>1, Zenon DEF KillingAll, TypeOK
<1>3. /\ Held(t) = {z} /\ Held(t)' = {} /\ zl[t] = {}
      /\ \A u \in Task \ {t} : Held(u)' = Held(u)
  <2>1. zl[t] = {}
    BY ZenonT(20), <1>1 DEF LocalOK
  <2>2. Held(t) = {z}
    BY <2>1, <1>1 DEF Held
  <2>3. Held(t)' = {}
    BY <2>1, <1>1, Zenon DEF Held, Creating, TypeOK
  <2>4. \A u \in Task \ {t} : Held(u)' = Held(u)
    BY <1>1, Zenon DEF Held, TypeOK
  <2> QED
    BY <2>1, <2>2, <2>3, <2>4
<1>4. z \in Task /\ z \notin Linked /\ z # InitTask /\ ~(z >= fresh)
  BY <1>2, <1>3, Zenon DEF TypeOK, OneOwner, InitOK, FreshOK
<1>5. Linked' = Linked
  BY ZenonT(20), <1>1 DEF Linked
<1>6. TypeOK'
  BY <1>1, <1>4, Zenon DEF TypeOK, Label, creation
<1>7. Distinct'
  BY <1>1, Zenon DEF Distinct
<1>8. OneOwner'
  BY SMTT(60), <1>1, <1>2, <1>3, <1>4, <1>5 DEF OneOwner
<1>9. CurrentOK'
  BY <1>1, <1>5, Zenon DEF CurrentOK
<1>10. InitOK' /\ FreshOK'
  BY SMTT(60), <1>1, <1>3, <1>4, <1>5 DEF InitOK, FreshOK, creation
<1>11. LocalOK'
  BY <1>1, <1>3, <1>5, ZenonT(60) DEF LocalOK, TypeOK
<1>12. KillOK'
  BY ZenonT(20), <1>1, <1>2, <1>5, <1>0 DEF KillOK
<1> QED
  BY <1>1, <1>6, <1>7, <1>8, <1>9, <1>10, <1>11, <1>12 DEF IndInv

(* kill_all_tasks turns every other member into a zombie and detaches all. *)
LEMMA KillAllCallInd ==
    ASSUME IndInv, NEW t \in Task, KillAllCall(t) PROVE IndInv'
<1>0. Linked \subseteq Task /\ InitTask \in Task /\ NULL \notin Task
  BY LinkedTasks, Zenon
<1> /\ TypeOK /\ Distinct /\ OneOwner /\ CurrentOK /\ InitOK /\ FreshOK
    /\ LocalOK /\ KillOK /\ ~frozen
  BY DEF IndInv
<1>1. /\ t = InitTask /\ pc[t] = "run"
      /\ state' = [u \in Task |-> IF u \in Linked \ {InitTask}
                                  THEN "ZOMBIE" ELSE state[u]]
      /\ zl' = [zl EXCEPT ![t] = zombies \cup (Linked \ {InitTask})]
      /\ zombies' = {} /\ op' = [op EXCEPT ![t] = "killall"]
      /\ pc' = [pc EXCEPT ![t] = "reap"]
      /\ UNCHANGED <<ring, stale, pid, current, freed, creation, preempt, frozen,
                     slot, reg>>
      /\ current # NULL => current = t
  BY RunnerLinked DEF KillAllCall, Goto
<1>2. Linked' = Linked
  BY ZenonT(20), <1>1 DEF Linked
<1>3. /\ Held(t)' = zombies \cup (Linked \ {InitTask})
      /\ \A u \in Task \ {t} : Held(u)' = Held(u)
  BY <1>1, ZenonT(60) DEF Held, Creating, TypeOK
<1>4. /\ \A u \in Task : ~KillingAll(u)
      /\ \A u \in Task \ {t} : ~KillingAll(u)'
      /\ KillingAll(t)'
  BY ZenonT(60), <1>1 DEF KillingAll, LocalOK, TypeOK
<1>5. TypeOK'
  BY <1>1, <1>0, Zenon DEF TypeOK, Label, Operation, creation
<1>6. Distinct'
  BY <1>1, Zenon DEF Distinct
<1>7. OneOwner'
  BY <1>1, <1>2, <1>3, <1>4 DEF OneOwner
<1>8. CurrentOK'
  BY <1>1, <1>2, Zenon DEF CurrentOK, InitOK
<1>9. InitOK'
  BY ZenonT(20), <1>1, <1>2, <1>3, <1>0 DEF InitOK
<1>10. FreshOK'
  BY ZenonT(60), <1>1, <1>2, <1>3 DEF FreshOK, creation
<1>11. LocalOK'
  <2>1. \A u \in Task \ {t} : pc[u] \in {"c_pid", "u_pid"} => slot[u] \notin Linked
    BY ZenonT(20), <1>4 DEF OneOwner, Held, Creating
  <2> QED
    BY ZenonT(60), <2>1, <1>1, <1>2 DEF LocalOK, TypeOK
<1>12. KillOK'
  BY <1>1, <1>2, <1>0, Zenon DEF KillOK, TypeOK
<1> QED
  BY <1>1, <1>5, <1>6, <1>7, <1>8, <1>9, <1>10, <1>11, <1>12, Zenon DEF IndInv

(* A step after which init_task is the current and only member. *)
LEMMA AloneInd ==
    ASSUME IndInv, pc[InitTask] = "run" \/ (pc[InitTask] = "reap" /\ zl[InitTask] = {}),
           ring' = <<InitTask>>, current' = InitTask,
           state' = [state EXCEPT ![InitTask] = "RUNNING"],
           pc' = [pc EXCEPT ![InitTask] = "run"],
           freed' = freed \cup (Linked \ {InitTask}), zombies' = {},
           pc[InitTask] = "reap" => Linked = {InitTask},
           UNCHANGED <<stale, pid, creation, preempt, frozen, op, zl, slot, reg>>
    PROVE  IndInv'
<1>0. Linked \subseteq Task /\ InitTask \in Task /\ NULL \notin Task
  BY ZenonT(60), LinkedTasks
<1> /\ TypeOK /\ Distinct /\ OneOwner /\ CurrentOK /\ InitOK /\ FreshOK
    /\ LocalOK /\ KillOK /\ ~frozen
  BY Zenon DEF IndInv
<1>1. /\ InitTask \in Task /\ Linked \subseteq Task
      /\ ring' \in Seq(Task) /\ Len(ring') = 1 /\ ring'[1] = InitTask
  BY <1>0
<1>2. Linked' = {InitTask} /\ Distinct'
  BY <1>1 DEF Linked, Distinct
<1>3. \A u \in Task : Held(u)' = Held(u)
  BY <1>1, Zenon DEF Held, Creating, TypeOK
<1>4. \A u \in Task : u # InitTask => ~KillingAll(u)
  BY ZenonT(20) DEF KillingAll, LocalOK
<1>5. \A u \in Task : ~KillingAll(u)'
  BY <1>1, <1>4 DEF KillingAll, TypeOK
<1>6. zl[InitTask] = {} /\ Held(InitTask) = {}
  BY ZenonT(20), <1>1 DEF LocalOK, Held, Creating
<1>7. TypeOK'
  BY <1>1, Zenon DEF TypeOK, Label, creation
<1>8. OneOwner'
  BY <1>2, <1>3, <1>4, <1>5, <1>6 DEF OneOwner, InitOK
<1>9. CurrentOK' /\ InitOK'
  BY <1>1, <1>2, <1>3, ZenonT(60) DEF CurrentOK, InitOK, TypeOK
<1>10. FreshOK'
  BY SMTT(60), <1>1, <1>2, <1>3 DEF FreshOK, creation, TypeOK, InitTask, InitOK
<1>11. LocalOK'
  <2>1. \A u \in Task : slot[u] = InitTask => pc[u] \notin {"c_pid", "u_pid"}
    BY ZenonT(20) DEF InitOK, Held, Creating
  <2>2. \A u \in Task : pc[u] = "reap_free" => slot[u] # InitTask
    BY Zenon DEF InitOK, Held, LocalOK
  <2> QED
    BY <2>1, <2>2, <1>1, <1>2, <1>6, ZenonT(60) DEF LocalOK, TypeOK
<1>12. KillOK'
  BY ZenonT(20), <1>5, <1>1 DEF KillOK
<1> QED
  BY Zenon, <1>1, <1>2, <1>7, <1>8, <1>9, <1>10, <1>11, <1>12 DEF IndInv

(* kill_all_tasks once the zombies it made are reaped.                     *)
LEMMA KillAllInd ==
    ASSUME IndInv, NEW t \in Task, KillAll(t) PROVE IndInv'
<1> /\ TypeOK /\ Distinct /\ OneOwner /\ CurrentOK /\ InitOK /\ FreshOK
    /\ LocalOK /\ KillOK /\ ~frozen
  BY DEF IndInv
<1>1. /\ pc[t] = "reap" /\ zl[t] = {} /\ op[t] = "killall"
      /\ current' = InitTask /\ state' = [state EXCEPT ![InitTask] = "RUNNING"]
      /\ ring' = IF pid[ring[Len(ring)]] # 0 THEN <<InitTask>> ELSE ring
      /\ pc' = [pc EXCEPT ![t] = "run"]
      /\ UNCHANGED <<stale, pid, zombies, freed, creation, preempt, frozen, op,
                     zl, slot, reg>>
  BY Zenon DEF KillAll, Reaped, At, Goto
<1>2. t = InitTask
  BY <1>1, Zenon DEF LocalOK
<1>3. zombies = {} /\ Linked = {InitTask}
  BY <1>1, <1>2, Zenon DEF KillOK, KillingAll, InitOK
<1>4. Len(ring) = 1 /\ ring[1] = InitTask
  <2>0. ring \in Seq(Task) /\ ring # <<>>
    BY DEF TypeOK
  <2>1. Len(ring) \in Nat /\ Len(ring) >= 1
    BY <2>0
  <2>2. \A i \in 1..Len(ring) : ring[i] = InitTask
    <3>1. \A i \in 1..Len(ring) : ring[i] \in Linked
      BY Zenon DEF Linked
    <3> QED
      BY <3>1, <1>3
  <2>3. ~(Len(ring) > 1)
    <3> SUFFICES ASSUME Len(ring) > 1 PROVE FALSE
      OBVIOUS
    <3>1. 1 \in 1..Len(ring) /\ 2 \in 1..Len(ring) /\ 1 # 2
      BY <2>1
    <3> QED
      BY <3>1, <2>2 DEF Distinct
  <2>4. Len(ring) = 1 /\ 1 \in 1..Len(ring)
    <3>1. \A n \in Nat : n >= 1 /\ ~(n > 1) => n = 1 /\ 1 \in 1..n
      OBVIOUS
    <3> QED
      BY <2>1, <2>3, <3>1, Zenon
  <2> QED
    BY <2>2, <2>4
<1>5. ring = <<InitTask>>
  BY <1>4 DEF TypeOK
<1>6. ring' = <<InitTask>>
  BY ZenonT(20), <1>1, <1>5
<1> QED
  BY ZenonT(40), <1>1, <1>2, <1>3, <1>6, AloneInd DEF IndInv

(* emergency_terminate_all: init alone is left.                            *)
LEMMA EmergencyInd ==
    ASSUME IndInv, NEW t \in Task, EmergencyTerminateAll(t) PROVE IndInv'
<1>1. /\ t = InitTask /\ pc[t] = "run"
      /\ freed' = freed \cup (Linked \ {InitTask}) /\ ring' = <<InitTask>>
      /\ current' = InitTask /\ state' = [state EXCEPT ![InitTask] = "RUNNING"]
      /\ zombies' = {}
      /\ UNCHANGED <<stale, pid, creation, preempt, frozen, control>>
  BY Zenon DEF EmergencyTerminateAll, At
<1>2. pc' = [pc EXCEPT ![InitTask] = "run"]
  BY <1>1, Zenon DEF IndInv, TypeOK, control
<1> QED
  BY Zenon, <1>1, <1>2, AloneInd DEF control

-----------------------------------------------------------------------------
(* A reschedule gives the CPU to a runnable member of the list. *)
LEMMA TickSwitchEffect ==
    ASSUME IndInv, TickSwitch
    PROVE  /\ current' \in Linked
           /\ state' \in [Task -> {"none", "RUNNING", "READY", "ZOMBIE"}]
           /\ state[current'] \in {"READY", "RUNNING"}
           /\ \A u \in Task :
                 \/ state'[u] = state[u]
                 \/ state[u] \in {"READY", "RUNNING"} /\ state'[u] \in {"READY", "RUNNING"}
<1>0. Linked \subseteq Task /\ InitTask \in Task /\ NULL \notin Task
  BY LinkedTasks
<1> /\ TypeOK /\ Distinct /\ OneOwner /\ CurrentOK /\ InitOK /\ FreshOK
    /\ LocalOK /\ KillOK /\ ~frozen
  BY DEF IndInv
<1> DEFINE saved == IF state[current] = "RUNNING"
                    THEN [state EXCEPT ![current] = "READY"] ELSE state
           next == PickNext(saved)
           chosen == IF next # NULL THEN next ELSE current
<1>1. current \in Task /\ current' = chosen /\ state' = [saved EXCEPT ![chosen] = "RUNNING"]
  BY Zenon DEF TickSwitch, TypeOK
<1>2. NextOf(current) \in Linked
  BY <1>1, SuccessorLinked, Zenon DEF NextOf, CurrentOK, TypeOK, TickSwitch
<1>3. /\ saved \in [Task -> {"none", "RUNNING", "READY", "ZOMBIE"}]
      /\ \A u \in Task :
            \/ saved[u] = state[u]
            \/ state[u] \in {"READY", "RUNNING"} /\ saved[u] \in {"READY", "RUNNING"}
  BY <1>1, Zenon DEF TypeOK
<1>4. Runnable(saved, InitTask)
  BY Zenon, <1>3, <1>0 DEF InitOK, Runnable
<1> HIDE DEF saved
<1>5. next \in Linked /\ Runnable(saved, next)
  BY <1>2, <1>4, PickNextFindsOne, Zenon DEF InitOK, TypeOK
<1>6. next \in Task /\ next # NULL
  BY <1>5, <1>0, Zenon
<1>7. chosen = next
  BY <1>6
<1> HIDE DEF next, chosen
<1>8. current' \in Linked /\ current' \in Task /\ Runnable(saved, current')
  BY <1>1, <1>5, <1>6, <1>7
<1>9. state' = [saved EXCEPT ![current'] = "RUNNING"]
  BY <1>1
<1> QED
  BY <1>3, <1>8, <1>9 DEF Runnable

(* schedule_from_isr at the end of a quantum.                              *)
LEMMA TickSwitchInd == ASSUME IndInv, TickSwitch PROVE IndInv'
<1>0. Linked \subseteq Task /\ InitTask \in Task /\ NULL \notin Task
  BY LinkedTasks, Zenon
<1> /\ TypeOK /\ Distinct /\ OneOwner /\ CurrentOK /\ InitOK /\ FreshOK
    /\ LocalOK /\ KillOK /\ ~frozen
  BY DEF IndInv
<1>1. /\ preempt' = 0
      /\ UNCHANGED <<ring, stale, pid, zombies, freed, creation, frozen, control>>
  BY DEF TickSwitch
<1>2. /\ current' \in Linked
      /\ state' \in [Task -> {"none", "RUNNING", "READY", "ZOMBIE"}]
      /\ state[current'] \in {"READY", "RUNNING"}
      /\ \A u \in Task :
            \/ state'[u] = state[u]
            \/ state[u] \in {"READY", "RUNNING"} /\ state'[u] \in {"READY", "RUNNING"}
  BY TickSwitchEffect
<1>3. Linked' = Linked
  BY <1>1, Zenon DEF Linked
<1>4. \A u \in Task : Held(u)' = Held(u) /\ KillingAll(u)' = KillingAll(u)
  BY <1>1, Zenon DEF Held, KillingAll, control
<1>5. TypeOK'
  <2>1. preempt' \in 0..Quantum - 1
    BY SchedulerAssumption, <1>1
  <2> QED
    BY ZenonT(30), <2>1, <1>1, <1>2, <1>0 DEF TypeOK, control, creation
<1>6. Distinct'
  BY <1>1 DEF Distinct
<1>7. OneOwner'
  BY <1>1, <1>3, <1>4, Zenon DEF OneOwner
<1>8. CurrentOK'
  BY <1>2, <1>3, Zenon DEF CurrentOK
<1>9. InitOK' /\ FreshOK'
  BY <1>1, <1>2, <1>3, <1>4, <1>0 DEF InitOK, FreshOK, creation
<1>10. LocalOK'
  <2>1. \A u \in Task : slot[u] \in Task
    BY Zenon DEF TypeOK
  <2>2. \A u \in Task : state[u] = "none" => state'[u] = "none"
    BY <1>2, SMTT(30)
  <2> QED
    BY Zenon, <1>1, <1>3, <2>1, <2>2 DEF LocalOK, control
<1>11. KillOK'
  BY <1>1, <1>2, <1>3, <1>4, <1>0 DEF KillOK, control
<1> QED
  BY <1>1, <1>5, <1>6, <1>7, <1>8, <1>9, <1>10, <1>11 DEF IndInv

(* A step that at most counts a timer interrupt. *)
LEMMA CountInd ==
    ASSUME IndInv, preempt' \in 0..Quantum - 1,
           UNCHANGED <<tasks, creation, frozen, control>>
    PROVE  IndInv'
<1>0. Linked \subseteq Task /\ InitTask \in Task /\ NULL \notin Task
  BY LinkedTasks, Zenon
<1> /\ TypeOK /\ Distinct /\ OneOwner /\ CurrentOK /\ InitOK /\ FreshOK
    /\ LocalOK /\ KillOK /\ ~frozen
  BY DEF IndInv
<1>1. UNCHANGED <<ring, stale, state, pid, current, zombies, freed>>
  BY DEF tasks
<1>2. UNCHANGED <<fresh, next_pid, lockK, lockU>>
  BY DEF creation
<1>3. UNCHANGED <<pc, op, zl, slot, reg>>
  BY DEF control
<1>4. Linked' = Linked
  BY <1>1 DEF Linked
<1>5. \A u \in Task : Held(u)' = Held(u) /\ KillingAll(u)' = KillingAll(u)
  BY <1>3 DEF Held, KillingAll
<1>6. TypeOK'
  BY <1>1, <1>2, <1>3, Zenon DEF TypeOK
<1>7. Distinct' /\ CurrentOK'
  BY ZenonT(60), <1>1, <1>3, <1>4 DEF Distinct, CurrentOK
<1>8. OneOwner'
  BY <1>1, <1>4, <1>5, Zenon DEF OneOwner
<1>9. InitOK' /\ FreshOK'
  BY <1>1, <1>2, <1>4, <1>5, Zenon DEF InitOK, FreshOK
<1>10. LocalOK'
  BY <1>1, <1>3, <1>4, Zenon DEF LocalOK
<1>11. KillOK'
  BY <1>0, <1>1, <1>3, <1>4, <1>5, Zenon DEF KillOK
<1> QED
  BY <1>6, <1>7, <1>8, <1>9, <1>10, <1>11, Zenon DEF IndInv

(* Every timer tick.                                                       *)
LEMMA TickInd == ASSUME IndInv, Tick PROVE IndInv'
<1>0. Linked \subseteq Task /\ InitTask \in Task /\ NULL \notin Task
  BY LinkedTasks
<1>1. CASE TickCount
  <2>1. preempt' \in 0..Quantum - 1 /\ UNCHANGED <<tasks, creation, frozen, control>>
    BY SchedulerAssumption, <1>1 DEF TickCount, IndInv, TypeOK
  <2> QED
    BY <2>1, CountInd
<1>2. CASE TickAdopt
  <2> USE DEF IndInv
  <2>1. /\ preempt' = 0 /\ current' = InitTask
        /\ state' = [state EXCEPT ![InitTask] = "RUNNING"]
        /\ UNCHANGED <<ring, stale, pid, zombies, freed, creation, frozen, control>>
    BY <1>2, Zenon DEF TickAdopt
  <2>2. Linked' = Linked /\ \A u \in Task : Held(u)' = Held(u) /\ KillingAll(u)' = KillingAll(u)
    BY <2>1, Zenon DEF Linked, Held, KillingAll, control
  <2>3. TypeOK'
    BY SchedulerAssumption, <2>1, <1>0 DEF TypeOK, creation, control
  <2>4. Distinct' /\ CurrentOK'
    BY ZenonT(60), <2>1, <2>2 DEF Distinct, CurrentOK, InitOK
  <2>5. OneOwner' /\ InitOK'
    BY <2>1, <2>2, <1>0, SMTT(30) DEF OneOwner, InitOK, TypeOK
  <2>6. FreshOK'
    <3>1. \A u \in Task : u >= fresh => u # InitTask
      BY Zenon DEF FreshOK, InitOK
    <3>2. \A u \in Task : u >= fresh => state'[u] = state[u]
      BY <2>1, <3>1, Zenon DEF TypeOK
    <3>3. fresh' = fresh /\ zombies' = zombies /\ freed' = freed
      BY <2>1, Zenon DEF creation
    <3> QED
      BY <2>2, <3>2, <3>3, Zenon DEF FreshOK
  <2>7. LocalOK'
    <3>1. \A u \in Task : pc[u] \in {"c_pid", "u_pid"} => slot[u] # InitTask
      BY Zenon DEF InitOK, Held, Creating
    <3> QED
      BY <3>1, <2>1, <2>2, Zenon DEF LocalOK, TypeOK, control
  <2>8. KillOK'
    BY <2>1, <2>2, <1>0, Zenon DEF KillOK, TypeOK, control
  <2> QED
    BY <2>1, <2>3, <2>4, <2>5, <2>6, <2>7, <2>8, Zenon
<1>3. CASE TickSwitch
  BY <1>3, TickSwitchInd, Zenon
<1> QED
  BY <1>1, <1>2, <1>3, Zenon DEF Tick

=============================================================================
