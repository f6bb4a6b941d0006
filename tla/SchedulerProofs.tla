--------------------------- MODULE SchedulerProofs ---------------------------
(***************************************************************************)
(* Proofs about module Scheduler, for every number of tasks and every      *)
(* quantum: as long as nobody stops init_task and the shell's kill command *)
(* is not used, the scheduler never touches a freed task, no task          *)
(* structure has two owners, and a zombie never runs again; and as long as *)
(* no user task is created, task_create gives every task a pid of its own. *)
(***************************************************************************)
EXTENDS SchedulerLemmas

(* Every step of a task, and so every step, preserves the invariant. *)

(* task_create.                                                            *)
LEMMA CreateInd == ASSUME IndInv, NEW t \in Task, Create(t) PROVE IndInv'
<1>1. CASE CreateCall(t)
  <2>1. t \in Linked /\ pc[t] = "run"
    BY <1>1, RunnerLinked, Zenon DEF CreateCall
  <2>2. zl[t] = {} /\ ~KillingAll(t)
    BY <2>1 DEF IndInv, LocalOK, KillingAll
  <2> QED
    BY Zenon, <1>1, <2>1, <2>2, MoveInd DEF CreateCall, Goto, creation, IndInv, TypeOK
<1>2. CASE CreateLock(t)
  BY Zenon, <1>2, RunnerLinked, AllocateInd DEF CreateLock, Goto, IndInv, TypeOK
<1>3. CASE CreatePid(t)
  BY Zenon, <1>3, RunnerLinked, StorePidInd DEF CreatePid, Goto
<1>4. CASE CreateLink(t)
  BY Zenon, <1>4, RunnerLinked, LinkInd DEF CreateLink, Goto, IndInv, TypeOK
<1> QED
  BY <1>1, <1>2, <1>3, <1>4 DEF Create

(* utask_create.                                                           *)
LEMMA UCreateInd == ASSUME IndInv, NEW t \in Task, UCreate(t) PROVE IndInv'
<1>1. CASE UCreateCall(t)
  <2>1. t \in Linked /\ pc[t] = "run"
    BY <1>1, RunnerLinked, Zenon DEF UCreateCall
  <2>2. zl[t] = {} /\ ~KillingAll(t)
    BY <2>1 DEF IndInv, LocalOK, KillingAll
  <2> QED
    BY Zenon, <1>1, <2>1, <2>2, MoveInd DEF UCreateCall, Goto, creation, IndInv, TypeOK
<1>2. CASE UCreateLock(t)
  BY Zenon, <1>2, RunnerLinked, AllocateInd DEF UCreateLock, Goto, IndInv, TypeOK
<1>3. CASE UCreateNoMemory(t)
  <2>1. t \in Linked /\ pc[t] = "u_lock"
    BY <1>3, RunnerLinked, Zenon DEF UCreateNoMemory
  <2>2. zl[t] = {} /\ ~KillingAll(t)
    BY <2>1 DEF IndInv, LocalOK, KillingAll
  <2> QED
    BY Zenon, <1>3, <2>1, <2>2, MoveInd DEF UCreateNoMemory, Goto, IndInv, TypeOK
<1>4. CASE UCreatePid(t)
  BY Zenon, <1>4, RunnerLinked, StorePidInd DEF UCreatePid, Goto
<1>5. CASE UCreateFail(t)
  BY <1>5, UCreateFailInd
<1>6. CASE UCreateLink(t)
  BY Zenon, <1>6, RunnerLinked, LinkInd DEF UCreateLink, Goto, creation, IndInv, TypeOK
<1> QED
  BY <1>1, <1>2, <1>3, <1>4, <1>5, <1>6, Zenon DEF UCreate

(* A task that has reaped and is about to finish its operation. *)
LEMMA ReapedRunner ==
    ASSUME IndInv, NEW t \in Task, NEW o, Reaped(t, o)
    PROVE  /\ t \in Linked /\ pc[t] = "reap" /\ zl[t] = {} /\ op[t] = o
           /\ current = NULL => t = InitTask
           /\ current # NULL => current = t
<1>1. At(t, "reap") /\ zl[t] = {} /\ op[t] = o
  BY DEF Reaped
<1> QED
  BY <1>1, RunnerLinked, Zenon

(* It returns to its caller. *)
LEMMA ReturnInd ==
    ASSUME IndInv, NEW t \in Task, NEW o, o # "killall", Reaped(t, o),
           pc' = [pc EXCEPT ![t] = "run"],
           UNCHANGED <<tasks, creation, preempt, frozen, op, zl, slot, reg>>
    PROVE  IndInv'
<1>1. t \in Linked /\ pc[t] = "reap" /\ zl[t] = {} /\ ~KillingAll(t)
  BY Zenon, ReapedRunner DEF KillingAll
<1>2. fresh' = fresh /\ next_pid' = next_pid /\ lockK' \in BOOLEAN /\ lockU' \in BOOLEAN
  BY Zenon DEF creation, IndInv, TypeOK
<1>3. UNCHANGED <<tasks, fresh, next_pid, preempt, frozen, op, zl, slot, reg>>
  BY <1>2
<1> QED
  BY Zenon, <1>1, <1>2, <1>3, MoveInd

(* task_exit, with the zombies it reaps first.                             *)
LEMMA LeaveInd == ASSUME IndInv, NEW t \in Task, Leave(t) PROVE IndInv'
<1>1. CASE ExitCall(t)
  BY <1>1, ReapCallInd DEF ExitCall
<1>2. CASE Exit(t)
  <2>1. t \in Linked /\ pc[t] = "reap" /\ zl[t] = {} /\ op[t] = "exit"
        /\ (current = NULL => t = InitTask) /\ (current # NULL => current = t)
    BY Zenon, <1>2, ReapedRunner DEF Exit
  <2>2. CASE t = InitTask
    <3>1. /\ Reaped(t, "exit") /\ pc' = [pc EXCEPT ![t] = "run"]
          /\ UNCHANGED <<tasks, creation, preempt, frozen, op, zl, slot, reg>>
      BY <1>2, <2>2 DEF Exit, Goto, tasks
    <3> QED
      BY Zenon, <3>1, ReturnInd
  <2>3. CASE t # InitTask
    BY <1>2, <2>1, <2>3, BuryInd DEF Exit
  <2> QED
    BY <2>2, <2>3
<1> QED
  BY <1>1, <1>2 DEF Leave

(* task_stop, of a task by another or by itself.                           *)
LEMMA StopInd ==
    ASSUME IndInv, InitNotStopped, NEW t \in Task, Stop(t) PROVE IndInv'
<1>0. Linked \subseteq Task /\ InitTask \in Task /\ NULL \notin Task
  BY LinkedTasks
<1>1. CASE StopCall(t)
  <2>1. PICK p \in Stoppable : ReapCall(t, "stop", p)
    BY <1>1 DEF StopCall
  <2>2. p \in Nat /\ p # 0
    BY SchedulerAssumption DEF InitNotStopped
  <2> QED
    BY <2>1, <2>2, ReapCallInd
<1>2. CASE StopNotFound(t)
  BY Zenon, <1>2, ReturnInd DEF StopNotFound, Goto
<1>3. CASE StopSelf(t)
  <2>1. /\ t \in Linked /\ pc[t] = "reap" /\ zl[t] = {} /\ op[t] = "stop"
        /\ current # NULL => current = t
        /\ Match(reg[t]) # {} /\ Found(reg[t]) = current
    BY <1>3, ReapedRunner, Zenon DEF StopSelf
  <2>2. current \in Linked /\ pid[current] = reg[t]
    BY <2>1, FoundMember DEF IndInv, TypeOK
  <2>3. current = t
    BY <2>1, <2>2, <1>0
  <2>4. reg[t] # 0 /\ pid[InitTask] = 0
    BY ZenonT(20), <2>1 DEF IndInv, LocalOK, InitOK
  <2>5. t # InitTask
    BY <2>2, <2>3, <2>4
  <2> QED
    BY <1>3, <2>1, <2>3, <2>5, BuryInd DEF StopSelf
<1>4. CASE StopOther(t)
  BY <1>4, StopOtherInd
<1>5. CASE StopFree(t)
  BY <1>5, StopFreeInd
<1> QED
  BY <1>1, <1>2, <1>3, <1>4, <1>5 DEF Stop

(* task_is_alive, with the zombies it reaps first.                         *)
LEMMA IsAliveInd == ASSUME IndInv, NEW t \in Task, IsAlive(t) PROVE IndInv'
<1>1. CASE AliveCall(t)
  BY <1>1, ReapCallInd DEF AliveCall
<1>2. CASE Alive(t)
  BY Zenon, <1>2, ReturnInd DEF Alive, Goto
<1> QED
  BY <1>1, <1>2 DEF IsAlive

(* Every step of the scheduler keeps the invariant.                        *)
LEMMA NextInd == ASSUME IndInv, InitNotStopped, [Next]_vars PROVE IndInv'
<1>1. CASE Tick
  BY <1>1, TickInd
<1>2. ASSUME NEW t \in Task, Step(t) PROVE IndInv'
  <2>1. CASE Create(t)
    BY <2>1, CreateInd, Zenon
  <2>2. CASE UCreate(t)
    BY <2>2, UCreateInd
  <2>3. CASE Reap(t)
    BY <2>3, ReapUnlinkInd, ReapFreeInd DEF Reap
  <2>4. CASE Leave(t)
    BY <2>4, LeaveInd
  <2>5. CASE Stop(t)
    BY <2>5, StopInd
  <2>6. CASE IsAlive(t)
    BY <2>6, IsAliveInd
  <2>7. CASE TerminateAll(t)
    BY <2>7, KillAllCallInd, KillAllInd, EmergencyInd DEF TerminateAll
  <2> QED
    BY <1>2, <2>1, <2>2, <2>3, <2>4, <2>5, <2>6, <2>7 DEF Step
<1>3. CASE UNCHANGED vars
  <2>1. UNCHANGED <<tasks, creation, frozen, control>> /\ preempt' \in 0..Quantum - 1
    BY <1>3 DEF vars, IndInv, TypeOK
  <2> QED
    BY <2>1, CountInd
<1> QED
  BY <1>1, <1>2, <1>3, Zenon DEF Next

(* As long as nobody stops init_task, the invariant holds in every         *)
(* reachable state.                                                        *)
THEOREM Invariance == ASSUME InitNotStopped PROVE Spec => []IndInv
<1>1. Init => IndInv
  BY InitIndInv
<1>2. IndInv /\ [Next]_vars => IndInv'
  BY NextInd
<1> QED
  BY <1>1, <1>2, PTL DEF Spec

(* Every variable of the scheduler (the globals of sched.c and the locals of *)
(* its functions) keeps its type.                                          *)
THEOREM TypeCorrect == ASSUME InitNotStopped PROVE Spec => []TypeOK
<1>1. IndInv => TypeOK
  BY DEF IndInv
<1> QED
  BY <1>1, Invariance, PTL

(* Every structure the timer interrupt dereferences is allocated, for any  *)
(* number of tasks that create, exit, stop and reap each other.            *)
THEOREM ScheduleSafe == ASSUME InitNotStopped PROVE Spec => []NoFreedTaskScheduled
<1>1. IndInv => NoFreedTaskScheduled
  <2> SUFFICES ASSUME IndInv PROVE NoFreedTaskScheduled
    OBVIOUS
  <2>1. current # NULL => current \notin freed /\ NextOf(current) \in Linked
    <3> SUFFICES ASSUME current # NULL
                 PROVE  current \notin freed /\ NextOf(current) \in Linked
      OBVIOUS
    <3>1. CASE current \in Linked
      BY <3>1, SuccessorLinked, Zenon DEF NextOf, IndInv, TypeOK, OneOwner
    <3>2. CASE current \notin Linked
      BY Zenon, <3>2 DEF NextOf, IndInv, CurrentOK, OneOwner
    <3> QED
      BY <3>1, <3>2
  <2> QED
    BY <2>1 DEF NoFreedTaskScheduled, IndInv, OneOwner
<1> QED
  BY <1>1, Invariance, PTL

(* No task structure is freed twice, or linked after it was freed. *)
THEOREM Ownership == ASSUME InitNotStopped PROVE Spec => []OneOwner
<1>1. IndInv => OneOwner
  BY DEF IndInv
<1> QED
  BY <1>1, Invariance, PTL

(* A task that has become a zombie stays one: no reschedule runs it again. *)
THEOREM ZombiesStay == ASSUME InitNotStopped PROVE Spec => ZombieStays
<1> DEFINE Stays == \A u \in Task : state[u] = "ZOMBIE" => state'[u] = "ZOMBIE"
<1>1. ASSUME IndInv, Next PROVE Stays
  <2> USE <1>1 DEF IndInv
  <2>1. CASE Tick
    <3>1. CASE TickCount
      BY <3>1, Zenon DEF TickCount, tasks
    <3>2. CASE TickAdopt
      BY <3>2, Zenon DEF TickAdopt, InitOK, TypeOK
    <3>3. CASE TickSwitch
      BY <3>3, TickSwitchEffect, Zenon
    <3> QED
      BY <2>1, <3>1, <3>2, <3>3 DEF Tick
  <2>2. ASSUME NEW t \in Task, Step(t) PROVE Stays
    <3>1. CASE Create(t)
      <4>1. CASE CreatePid(t)
        <5>1. pc[t] = "c_pid" /\ StorePid(t)
          BY <4>1, Zenon DEF CreatePid, At
        <5>2. state[slot[t]] = "none"
          BY Zenon, <5>1 DEF LocalOK
        <5> QED
          BY ZenonT(20), <5>1, <5>2 DEF StorePid, TypeOK
      <4> QED
        BY <3>1, <4>1, ZenonT(60) DEF Create, CreateCall, CreateLock, CreateLink, tasks
    <3>2. CASE UCreate(t)
      <4>1. CASE UCreatePid(t)
        <5>1. pc[t] = "u_pid" /\ StorePid(t)
          BY <4>1, Zenon DEF UCreatePid, At
        <5>2. state[slot[t]] = "none"
          BY Zenon, <5>1 DEF LocalOK
        <5> QED
          BY <5>1, <5>2, Zenon DEF StorePid, TypeOK
      <4> QED
        BY ZenonT(20), <3>2, <4>1 DEF UCreate, UCreateCall, UCreateLock, UCreateNoMemory,
                          UCreateFail, UCreateLink, tasks
    <3>3. CASE Reap(t)
      BY <3>3, Zenon DEF Reap, ReapUnlink, ReapFree
    <3>4. CASE Leave(t)
      BY ZenonT(20), <3>4 DEF Leave, ExitCall, ReapCall, Exit, Bury, TypeOK
    <3>5. CASE Stop(t)
      BY ZenonT(20), <3>5 DEF Stop, StopCall, ReapCall, StopNotFound, StopSelf, StopOther,
                  StopFree, Bury, TypeOK, tasks
    <3>6. CASE IsAlive(t)
      BY <3>6, Zenon DEF IsAlive, AliveCall, ReapCall, Alive, tasks
    <3>7. CASE TerminateAll(t)
      BY SMTT(60), <3>7 DEF TerminateAll, KillAllCall, KillAll, EmergencyTerminateAll,
                  InitOK, TypeOK
    <3> QED
      BY Zenon, <2>2, <3>1, <3>2, <3>3, <3>4, <3>5, <3>6, <3>7 DEF Step
  <2> QED
    BY <1>1, <2>1, <2>2 DEF Next
<1>2. IndInv /\ [Next]_vars
        => [\A t \in Task : state[t] = "ZOMBIE" => state'[t] = "ZOMBIE"]_vars
  BY <1>1, Zenon
<1> QED
  BY <1>2, Invariance, PTL DEF Spec, ZombieStays

-----------------------------------------------------------------------------
(* Pids.  The lock of task_create makes the read and the store of next_pid  *)
(* one step for every other creator, as long as utask_create, which takes a *)
(* different lock, is not used.                                             *)

KernelOnly == InitNotStopped /\ ~UserTasks

Counting == {"c_pid", "c_link"}

PidInv ==
    /\ next_pid >= 1
    /\ \A t \in Linked : state[t] # "none"
    /\ \A t \in Task :
          /\ pc[t] \notin {"u_lock", "u_pid", "u_link"}
          /\ pc[t] = "c_link" => state[slot[t]] # "none"
          /\ state[t] # "none" /\ t # InitTask => pid[t] >= 1 /\ pid[t] < next_pid
          /\ pc[t] = "c_pid" => reg[t] = next_pid
          /\ pc[t] \in Counting => lockK
          /\ \A u \in Task : pc[t] \in Counting /\ pc[u] \in Counting => t = u
    /\ PidsUnique

(* Steps that create nothing keep the pid invariant. *)
LEMMA PidFrame ==
    ASSUME IndInv, PidInv, Linked' \subseteq Linked,
           UNCHANGED <<next_pid, lockK, pid>>,
           \A u \in Task : state'[u] = "none" <=> state[u] = "none",
           \A u \in Task :
              \/ /\ pc'[u] = pc[u]
                 /\ pc[u] \in Counting => reg'[u] = reg[u] /\ slot'[u] = slot[u]
              \/ pc'[u] \notin Counting \cup {"u_lock", "u_pid", "u_link"}
    PROVE  PidInv'
<1>0. Linked \subseteq Task /\ InitTask \in Task /\ NULL \notin Task
  BY LinkedTasks, Zenon
<1>1. Linked \subseteq Task /\ \A u \in Task : slot[u] \in Task
  BY <1>0, Zenon DEF IndInv, TypeOK
<1>2. PidsUnique'
  BY Zenon DEF PidInv, PidsUnique
<1>3. \A t \in Linked' : state'[t] # "none"
  BY <1>1 DEF PidInv
<1>4. \A t \in Task :
          /\ pc'[t] \notin {"u_lock", "u_pid", "u_link"}
          /\ pc'[t] = "c_link" => state'[slot'[t]] # "none"
          /\ state'[t] # "none" /\ t # InitTask => pid'[t] >= 1 /\ pid'[t] < next_pid'
          /\ pc'[t] = "c_pid" => reg'[t] = next_pid'
          /\ pc'[t] \in Counting => lockK'
          /\ \A u \in Task : pc'[t] \in Counting /\ pc'[u] \in Counting => t = u
  BY <1>1 DEF PidInv, Counting
<1> QED
  BY <1>2, <1>3, <1>4, Zenon DEF PidInv

(* The running task is filled in. *)
LEMMA RunnerFilled ==
    ASSUME IndInv, PidInv, NEW t \in Task, NEW l, l # "halt", At(t, l)
    PROVE  state[t] # "none"
BY RunnerLinked, Zenon DEF PidInv

(* schedule_from_isr gives out no pid.                                     *)
LEMMA PidTick == ASSUME IndInv, PidInv, Tick PROVE PidInv'
<1> /\ TypeOK /\ Distinct /\ OneOwner /\ CurrentOK /\ InitOK /\ FreshOK
    /\ LocalOK /\ KillOK /\ ~frozen
  BY DEF IndInv
<1>1. UNCHANGED <<ring, next_pid, lockK, pid, pc, reg, slot>>
  BY Zenon DEF Tick, TickCount, TickAdopt, TickSwitch, tasks, creation, control
<1>2. Linked' = Linked
  BY <1>1 DEF Linked
<1>3. \A u \in Task : state'[u] = "none" <=> state[u] = "none"
  <2>1. CASE TickCount
    BY <2>1, Zenon DEF TickCount, tasks
  <2>2. CASE TickAdopt
    BY <2>2, Zenon DEF TickAdopt, InitOK, TypeOK
  <2>3. CASE TickSwitch
    BY <2>3, TickSwitchEffect
  <2> QED
    BY <2>1, <2>2, <2>3 DEF Tick
<1> QED
  BY <1>1, <1>2, <1>3, PidFrame

(* A new kernel task gets the next pid.                                    *)
LEMMA PidCreate == ASSUME IndInv, PidInv, NEW t \in Task, Create(t) PROVE PidInv'
<1>0. Linked \subseteq Task /\ InitTask \in Task /\ NULL \notin Task
  BY LinkedTasks
<1> /\ TypeOK /\ Distinct /\ OneOwner /\ CurrentOK /\ InitOK /\ FreshOK
    /\ LocalOK /\ KillOK /\ ~frozen
  BY DEF IndInv
<1>1. CASE CreateCall(t)
  <2>1. Linked' = Linked
    BY <1>1, Zenon DEF CreateCall, tasks, Linked
  <2> QED
    BY <1>1, <2>1, PidFrame, Zenon DEF CreateCall, Goto, tasks, creation, Counting, TypeOK
<1>2. CASE CreateLock(t)
  <2>1. /\ ~lockK /\ lockK' /\ reg' = [reg EXCEPT ![t] = next_pid]
        /\ pc' = [pc EXCEPT ![t] = "c_pid"] /\ slot' = [slot EXCEPT ![t] = fresh]
        /\ UNCHANGED <<ring, next_pid, pid, state>>
    BY <1>2, Zenon DEF CreateLock, Goto, tasks
  <2>2. \A u \in Task : pc[u] \notin Counting
    BY <2>1, Zenon DEF PidInv
  <2>3. Linked' = Linked
    BY <2>1 DEF Linked
  <2> QED
    BY <2>1, <2>2, <2>3, ZenonT(60) DEF PidInv, PidsUnique, Counting, TypeOK
<1>3. CASE CreatePid(t)
  <2> DEFINE s == slot[t]
  <2>1. /\ pc[t] = "c_pid" /\ next_pid' = reg[t] + 1
        /\ pid' = [pid EXCEPT ![s] = reg[t]]
        /\ state' = [state EXCEPT ![s] = "READY"]
        /\ pc' = [pc EXCEPT ![t] = "c_link"] /\ UNCHANGED <<ring, lockK, reg, slot>>
    BY <1>3, Zenon DEF CreatePid, StorePid, At, Goto
  <2>2. reg[t] = next_pid /\ next_pid \in Nat /\ next_pid >= 1
    BY <2>1, Zenon DEF PidInv, TypeOK
  <2>3. s \in Task /\ s # InitTask
    BY <2>1, Zenon DEF TypeOK, InitOK, Held, Creating
  <2>4. \A u \in Task : pid[u] \in Nat /\ (u # s => pid'[u] = pid[u] /\ state'[u] = state[u])
    BY <2>1, Zenon DEF TypeOK
  <2>5. pid'[s] = next_pid /\ next_pid' = next_pid + 1 /\ state'[s] = "READY"
    BY <2>1, <2>2, <2>3, Zenon DEF TypeOK
  <2>6. \A u \in Task : state[u] # "none" => pid[u] < next_pid
    <3>1. \A u \in Task \ {InitTask} : state[u] # "none" => pid[u] < next_pid
      BY Zenon DEF PidInv
    <3>2. pid[InitTask] = 0
      BY Zenon DEF InitOK
    <3> QED
      BY <2>2, <3>1, <3>2
  <2>7. PidsUnique'
    <3> SUFFICES ASSUME NEW u \in Task, NEW v \in Task, state'[u] # "none",
                        state'[v] # "none", u # v
                 PROVE  pid'[u] # pid'[v]
      BY Zenon DEF PidsUnique
    <3>0. \A x \in Nat : x < next_pid => x # next_pid
      BY <2>2
    <3>1. CASE u = s
      BY <3>0, <3>1, <2>4, <2>5, <2>6, Zenon
    <3>2. CASE v = s
      BY <3>0, <3>2, <2>4, <2>5, <2>6, Zenon
    <3>3. CASE u # s /\ v # s
      <4>1. state[u] # "none" /\ state[v] # "none" /\ pid'[u] = pid[u] /\ pid'[v] = pid[v]
        BY <3>3, <2>4, Zenon
      <4> QED
        BY <4>1, Zenon DEF PidInv, PidsUnique
    <3> QED
      BY <3>1, <3>2, <3>3, Zenon
  <2>8. \A u \in Task : u # t => pc'[u] = pc[u] /\ pc[u] \notin Counting
    BY <2>1, Zenon DEF PidInv, Counting, TypeOK
  <2>9. pc'[t] = "c_link"
    BY <2>1, Zenon DEF TypeOK
  <2>10. \A u \in Task : state'[u] # "none" /\ u # InitTask
                            => pid'[u] >= 1 /\ pid'[u] < next_pid'
    <3>1. \A u \in Task : state[u] # "none" /\ u # InitTask
                             => pid[u] >= 1 /\ pid[u] < next_pid
      BY Zenon DEF PidInv
    <3>2. next_pid' = next_pid + 1 /\ next_pid \in Nat /\ pid \in [Task -> Nat]
      BY <2>2, <2>5, Zenon DEF TypeOK
    <3> SUFFICES ASSUME NEW u \in Task, state'[u] # "none", u # InitTask
                 PROVE  pid'[u] >= 1 /\ pid'[u] < next_pid'
      BY Zenon
    <3>3. CASE u = s
      BY <2>2, <2>5, <3>3
    <3>4. CASE u # s
      <4>1. pid'[u] = pid[u] /\ pid[u] \in Nat /\ pid[u] >= 1 /\ pid[u] < next_pid
        BY <2>4, <3>1, <3>4, Zenon
      <4> QED
        BY <3>2, <4>1
    <3> QED
      BY <3>3, <3>4, Zenon
  <2>11. \A u \in Linked' : state'[u] # "none"
    <3>1. Linked' = Linked
      BY <2>1, Zenon DEF Linked
    <3> QED
      BY <3>1, <2>4, <2>5, <1>0, Zenon DEF PidInv
  <2> QED
    <3>1. next_pid' >= 1
      BY <2>2, <2>5
    <3>2. \A u \in Task : u # t => pc'[u] \notin Counting
      BY <2>8, Zenon
    <3>3. /\ lockK' = lockK /\ lockK = TRUE /\ slot' = slot
          /\ \A u \in Task : pc[u] \notin {"u_lock", "u_pid", "u_link"}
      BY <2>1, Zenon DEF PidInv, Counting
    <3> QED
      BY <2>5, <2>7, <2>8, <2>9, <2>10, <2>11, <3>1, <3>2, <3>3, Zenon DEF PidInv, Counting
<1>4. CASE CreateLink(t)
  <2>1. /\ pc[t] = "c_link" /\ pc' = [pc EXCEPT ![t] = "run"]
        /\ ring' = Append(ring, slot[t])
        /\ UNCHANGED <<next_pid, pid, state, reg>>
    BY <1>4, Zenon DEF CreateLink, Goto, At
  <2>2. \A u \in Task : pc'[u] \notin Counting
    BY <2>1, Zenon DEF PidInv, Counting, TypeOK
  <2>3. slot[t] \in Task /\ slot[t] \notin Linked
    BY Zenon, <2>1 DEF TypeOK, OneOwner, Held, Creating, KillingAll
  <2>4. Linked' = Linked \cup {slot[t]}
    BY <2>1, <2>3, Insertion, Zenon DEF TypeOK
  <2>5. \A u \in Linked' : state'[u] # "none"
    BY ZenonT(20), <2>1, <2>4 DEF PidInv
  <2> QED
    BY <2>1, <2>2, <2>5, ZenonT(60) DEF PidInv, PidsUnique, Counting, TypeOK
<1> QED
  BY <1>1, <1>2, <1>3, <1>4 DEF Create

(* The steps of a task that create nothing. *)
LEMMA PidOthers ==
    ASSUME IndInv, PidInv, InitNotStopped, NEW t \in Task,
           Reap(t) \/ Leave(t) \/ Stop(t) \/ IsAlive(t) \/ TerminateAll(t)
    PROVE  PidInv'
<1>0. Linked \subseteq Task /\ InitTask \in Task /\ NULL \notin Task
  BY LinkedTasks, Zenon
<1> /\ TypeOK /\ Distinct /\ OneOwner /\ CurrentOK /\ InitOK /\ FreshOK
    /\ LocalOK /\ KillOK /\ ~frozen
  BY DEF IndInv
<1>1. UNCHANGED <<next_pid, lockK, pid>>
  BY ZenonT(20) DEF Reap, ReapUnlink, ReapFree, Leave, ExitCall, ReapCall, Exit, Stop,
         StopCall, StopNotFound, StopSelf, StopOther, StopFree, IsAlive,
         AliveCall, Alive, TerminateAll, KillAllCall, KillAll,
         EmergencyTerminateAll, tasks, creation
<1>2. /\ \A u \in Task \ {t} : pc'[u] = pc[u] /\ reg'[u] = reg[u] /\ slot'[u] = slot[u]
      /\ pc'[t] \notin Counting \cup {"u_lock", "u_pid", "u_link"}
  <2> DEFINE After == {"run", "reap", "reap_free", "stop_free", "halt"}
  <2>1. /\ (pc' = pc /\ pc[t] = "run") \/ \E l \in After : pc' = [pc EXCEPT ![t] = l]
        /\ reg' = reg \/ \E p : reg' = [reg EXCEPT ![t] = p]
        /\ slot' = slot \/ \E s : slot' = [slot EXCEPT ![t] = s]
    <3>1. CASE Reap(t)
      BY <3>1, Zenon DEF Reap, ReapUnlink, ReapFree, Goto
    <3>2. CASE Leave(t)
      BY <3>2, Zenon DEF Leave, ExitCall, ReapCall, Exit, Bury, Goto
    <3>3. CASE Stop(t)
      <4>1. CASE StopCall(t) \/ StopNotFound(t) \/ StopFree(t)
        BY <4>1, Zenon DEF StopCall, ReapCall, StopNotFound, StopFree, Goto
      <4>2. CASE StopSelf(t) \/ StopOther(t)
        BY <4>2, Zenon DEF StopSelf, StopOther, Bury, Goto
      <4> QED
        BY <3>3, <4>1, <4>2, Zenon DEF Stop
    <3>4. CASE IsAlive(t)
      BY <3>4, Zenon DEF IsAlive, AliveCall, ReapCall, Alive, Goto
    <3>5. CASE TerminateAll(t)
      BY <3>5, Zenon DEF TerminateAll, KillAllCall, KillAll, EmergencyTerminateAll, control,
                         Goto, At
    <3> QED
      BY <3>1, <3>2, <3>3, <3>4, <3>5, Zenon
  <2>2. DOMAIN pc = Task
    BY Zenon DEF TypeOK
  <2>3. \A u \in Task \ {t} : pc'[u] = pc[u] /\ reg'[u] = reg[u] /\ slot'[u] = slot[u]
    BY <2>1, <2>2, Zenon DEF TypeOK
  <2>4. pc'[t] \in After
    BY <2>1, <2>2, Zenon
  <2> QED
    BY <2>3, <2>4, Zenon DEF Counting
<1>3. pc'[t] \notin Counting \cup {"u_lock", "u_pid", "u_link"}
  BY Zenon, <1>2
<1>4. Linked' \subseteq Linked /\ \A u \in Task : state'[u] = "none" <=> state[u] = "none"
  <2>1. CASE Reap(t)
    <3>1. CASE ReapUnlink(t)
      <4>1. PICK z \in zl[t] : Unlink(z)
        BY ZenonT(20), <3>1 DEF ReapUnlink
      <4>2. z \in Task /\ z # InitTask
        BY Zenon DEF TypeOK, InitOK, Held
      <4> QED
        BY ZenonT(60), <3>1, <4>1, <4>2, UnlinkEffect DEF ReapUnlink
    <3>2. CASE ReapFree(t)
      BY ZenonT(20), <3>2 DEF ReapFree, Linked
    <3> QED
      BY Zenon, <2>1, <3>1, <3>2 DEF Reap
  <2>2. CASE Leave(t)
    <3>1. CASE ExitCall(t)
      BY Zenon, <3>1 DEF ExitCall, ReapCall, Linked
    <3>2. CASE Exit(t) /\ t = InitTask
      BY Zenon, <3>2 DEF Exit, Linked
    <3>3. CASE Exit(t) /\ t # InitTask
      <4>1. Unlink(t) /\ state' = [state EXCEPT ![t] = "ZOMBIE"]
        BY <3>3, Zenon DEF Exit, Bury
      <4>2. state[t] # "none"
        BY <3>3, RunnerFilled, Zenon DEF Exit, Reaped
      <4> QED
        <5>1. Linked' \subseteq Linked
          BY <3>3, <4>1, UnlinkEffect, Zenon
        <5> QED
          BY <4>1, <4>2, <5>1, Zenon DEF TypeOK
    <3> QED
      BY ZenonT(20), <2>2, <3>1, <3>2, <3>3 DEF Leave
  <2>3. CASE Stop(t)
    <3>1. CASE StopCall(t) \/ StopNotFound(t) \/ StopFree(t)
      BY ZenonT(20), <3>1 DEF StopCall, ReapCall, StopNotFound, StopFree, tasks, Linked
    <3>2. ASSUME Reaped(t, "stop"), Match(reg[t]) # {}
          PROVE  Found(reg[t]) \in Linked /\ Found(reg[t]) # InitTask
      <4>1. reg[t] # 0
        BY <3>2, Zenon DEF LocalOK, Reaped, At
      <4>2. Found(reg[t]) \in Linked /\ pid[Found(reg[t])] = reg[t]
        BY <3>2, FoundMember, Zenon DEF TypeOK
      <4> QED
        BY <4>1, <4>2, Zenon DEF InitOK
    <3>3. CASE StopSelf(t)
      <4>1. /\ Reaped(t, "stop") /\ Match(reg[t]) # {} /\ Found(reg[t]) = current
            /\ Unlink(t) /\ state' = [state EXCEPT ![t] = "ZOMBIE"]
        BY <3>3, Zenon DEF StopSelf, Bury
      <4>2. state[t] # "none" /\ (current # NULL => current = t)
        BY ZenonT(20), <4>1, RunnerFilled, RunnerLinked DEF Reaped
      <4>3. current # NULL /\ current # InitTask
        BY <4>1, <3>2, <1>0, Zenon
      <4> QED
        <5>1. t # InitTask
          BY <4>2, <4>3, Zenon
        <5>2. Linked' \subseteq Linked
          BY <4>1, <5>1, UnlinkEffect, Zenon
        <5> QED
          BY <4>1, <4>2, <5>2, Zenon DEF TypeOK
    <3>4. CASE StopOther(t)
      <4> DEFINE z == Found(reg[t])
      <4>1. Reaped(t, "stop") /\ Match(reg[t]) # {} /\ Unlink(z) /\ state' = state
        BY Zenon, <3>4 DEF StopOther
      <4>2. z \in Linked /\ z \in Task /\ z # InitTask
        BY Zenon, <4>1, <3>2, <1>0
      <4> HIDE DEF z
      <4>3. Linked' \subseteq Linked
        BY ZenonT(60), <4>1, <4>2, UnlinkEffect
      <4> QED
        BY Zenon, <4>1, <4>3
    <3> QED
      BY <2>3, <3>1, <3>3, <3>4, Zenon DEF Stop
  <2>4. CASE IsAlive(t)
    BY Zenon, <2>4 DEF IsAlive, AliveCall, ReapCall, Alive, tasks, Linked
  <2>5. CASE TerminateAll(t)
    <3>1. CASE KillAllCall(t)
      <4>1. Linked' = Linked
        BY ZenonT(20), <3>1 DEF KillAllCall, Linked
      <4> QED
        BY ZenonT(20), <3>1, <4>1, <1>0 DEF KillAllCall, PidInv
    <3>2. CASE KillAll(t) \/ EmergencyTerminateAll(t)
      <4>1. ring' \in {ring, <<InitTask>>} /\ state' = [state EXCEPT ![InitTask] = "RUNNING"]
        BY ZenonT(20), <3>2 DEF KillAll, EmergencyTerminateAll
      <4>2. ring' = ring => Linked' = Linked
        BY ZenonT(20) DEF Linked
      <4>3. ring' = <<InitTask>> => Linked' = {InitTask}
        BY DEF Linked
      <4> QED
        BY ZenonT(20), <4>1, <4>2, <4>3 DEF InitOK, TypeOK
    <3> QED
      BY ZenonT(20), <2>5, <3>1, <3>2 DEF TerminateAll
  <2> QED
    BY ZenonT(20), <2>1, <2>2, <2>3, <2>4, <2>5
<1> QED
  BY ZenonT(20), <1>1, <1>2, <1>3, <1>4, PidFrame

(* Every step keeps the pids distinct.                                     *)
LEMMA PidInd == ASSUME IndInv, PidInv, KernelOnly, [Next]_vars PROVE PidInv'
<1>1. ASSUME NEW t \in Task, Step(t) PROVE PidInv'
  <2>1. ~UCreate(t)
    BY ZenonT(20) DEF UCreate, UCreateCall, UCreateLock, UCreateNoMemory, UCreatePid,
           UCreateFail, UCreateLink, At, PidInv, KernelOnly
  <2> QED
    BY <1>1, <2>1, PidCreate, PidOthers, Zenon DEF Step, KernelOnly
<1>2. CASE UNCHANGED vars
  <2>1. UNCHANGED <<ring, next_pid, lockK, pid, state, pc, reg, slot>>
    BY <1>2, Zenon DEF vars, tasks, creation, control
  <2>2. Linked' = Linked
    BY <2>1, Zenon DEF Linked
  <2> QED
    BY <2>1, <2>2, PidFrame, Zenon
<1> QED
  BY <1>1, <1>2, PidTick DEF Next

(* No two kernel threads ever carry the same pid. *)
THEOREM PidsStayUnique == ASSUME KernelOnly PROVE Spec => []PidsUnique
<1>1. Init => PidInv
  <2> SUFFICES ASSUME Init PROVE PidInv
    OBVIOUS
  <2>1. Linked = {InitTask}
    BY DEF Init, Linked
  <2> QED
    <3>1. next_pid >= 1
      BY DEF Init
    <3>2. \A u \in Task : pc[u] = "run" /\ (state[u] # "none" <=> u = InitTask)
      BY Zenon DEF Init
    <3>3. InitTask \in Task
      BY SchedulerAssumption DEF InitTask, Task
    <3> QED
      BY <2>1, <3>1, <3>2, <3>3, Zenon DEF PidInv, PidsUnique, Counting
<1>2. IndInv /\ PidInv /\ [Next]_vars => PidInv'
  BY PidInd
<1>3. PidInv => PidsUnique
  BY Zenon DEF PidInv
<1>4. Spec => []IndInv
  BY Invariance DEF KernelOnly
<1> QED
  BY <1>1, <1>2, <1>3, <1>4, PTL DEF Spec
==============================================================================
