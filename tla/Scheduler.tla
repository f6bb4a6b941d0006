------------------------------ MODULE Scheduler ------------------------------
(***************************************************************************)
(* The preemptive round-robin scheduler of kernel/sched.c, driven by the   *)
(* timer interrupt (kernel/time/timer.c, timer_isr.asm) and by the shell's *)
(* kill command, which runs inside the keyboard interrupt.                 *)
(*                                                                         *)
(* One CPU.  A task's kernel code runs between interrupts; every section   *)
(* the code encloses in cli()/sti() is one step, and a timer interrupt may *)
(* fall between any two steps.  Timer and keyboard vectors (32 and 33)     *)
(* share an APIC priority class, so the timer cannot interrupt a keyboard  *)
(* handler before its EOI: a shell command is one step.                    *)
(*                                                                         *)
(* A task is named by its task_t structure (0 is the static init_task);    *)
(* the pid it carries is data, because two structures can carry the same.  *)
(* The circular list is the sequence of its members from task_ring->next   *)
(* to task_ring; module TaskRing shows the pointer code implements it.     *)
(* A freed structure is never handed out again, so that its use is visible. *)
(*                                                                         *)
(* A definition Foo_Variant is Foo with one plausible mistake; it serves   *)
(* to show that a property notices the mistake, never in the model itself. *)
(***************************************************************************)
EXTENDS TaskList, FiniteSets

CONSTANTS Quantum,    \* timer interrupts per reschedule, 10 in the code
          Stoppable,  \* pids kernel threads pass to task_stop
          ShellKill,  \* pids typed after the shell's kill command
          Exits,      \* tasks that call task_exit
          UserTasks,  \* whether utask_create is called
          Shutdown,   \* whether init calls kill_all_tasks, emergency_terminate_all
          NULL

ASSUME SchedulerAssumption ==
    /\ MaxTask \in Nat
    /\ Quantum \in Nat \ {0}
    /\ Stoppable \subseteq Nat
    /\ ShellKill \subseteq Nat
    /\ Exits \subseteq 0..MaxTask
    /\ UserTasks \in BOOLEAN
    /\ Shutdown \in BOOLEAN
    /\ NULL \notin Nat

VARIABLES
    stale,      \* the next pointer an unlinked task keeps
    state,      \* task_t.state; "none" before the structure is filled in
    pid,        \* task_t.pid
    current,
    zombies,    \* the tasks on zombie_list
    freed,      \* the task structures (and kernel stacks) given back
    fresh,      \* the next structure malloc returns
    next_pid,
    lockK,      \* sched_lock of task_create
    lockU,      \* sched_lock of utask_create
    preempt,    \* preempt_counter of timer_apic_handler
    frozen,     \* a keyboard handler that never reaches its EOI
    pc,         \* where each task's kernel code is
    op,         \* the operation a task in reap_zombies will go on with
    zl,         \* the zombies a task in reap_zombies has detached
    slot,       \* the structure a task is creating or about to free
    reg         \* the next_pid a creating task has read, or task_stop's pid

tasks == <<ring, stale, state, pid, current, zombies, freed>>
creation == <<fresh, next_pid, lockK, lockU>>
control == <<pc, op, zl, slot, reg>>
vars == <<tasks, creation, preempt, frozen, control>>

Creating == {"c_pid", "c_link", "u_pid", "u_link"}
Label == {"run", "c_lock", "u_lock", "reap", "reap_free", "stop_free", "halt"}
             \cup Creating
Operation == {"none", "exit", "stop", "alive", "killall"}

TypeOK ==
    /\ ring \in Seq(Task) /\ ring # <<>>
    /\ stale \in [Task -> Task]
    /\ state \in [Task -> {"none", "RUNNING", "READY", "ZOMBIE"}]
    /\ pid \in [Task -> Nat]
    /\ current \in Task \cup {NULL}
    /\ zombies \subseteq Task /\ freed \subseteq Task
    /\ fresh \in 1..MaxTask + 1 /\ next_pid \in Nat
    /\ lockK \in BOOLEAN /\ lockU \in BOOLEAN
    /\ preempt \in 0..Quantum - 1 /\ frozen \in BOOLEAN
    /\ pc \in [Task -> Label] /\ op \in [Task -> Operation]
    /\ zl \in [Task -> SUBSET Task]
    /\ slot \in [Task -> Task] /\ reg \in [Task -> Nat]

-----------------------------------------------------------------------------
(* The circular list: an unlinked task keeps its last next pointer. *)

NextOf(t) == IF t \in Linked THEN Successor(t) ELSE stale[t]

Unlink_SelfLink(t) ==
    IF t \in Linked
    THEN /\ ring' = WithoutPosition(Position(t))
         /\ stale' = [stale EXCEPT ![t] = t]
    ELSE UNCHANGED <<ring, stale>>

Unlink(t) ==
    IF t \in Linked
    THEN /\ ring' = WithoutPosition(Position(t))
         /\ stale' = [stale EXCEPT ![t] = Successor(t)]
    ELSE UNCHANGED <<ring, stale>>

(* pick_next: from the successor of current, the first runnable task. *)
Runnable(st, t) == st[t] \in {"READY", "RUNNING"}

RingFrom(t) ==
    [i \in 1..Len(ring) |->
        IF Position(t) + i - 1 <= Len(ring)
        THEN ring[Position(t) + i - 1]
        ELSE ring[Position(t) + i - 1 - Len(ring)]]

FirstRunnable(st, walk, n) ==
    LET hits == {i \in 1..n : Runnable(st, walk[i])}
    IN IF hits = {} THEN NULL
       ELSE walk[CHOOSE i \in hits : \A j \in hits : i <= j]

(* A walk that starts at an unlinked task follows the pointers it finds and *)
(* ends when it is back at its start.                                       *)
StaleWalk(t) ==
    LET walk[i \in 1..MaxTask + 2] == IF i = 1 THEN t ELSE NextOf(walk[i - 1])
    IN walk

StaleLength(t) ==
    LET walk == StaleWalk(t)
        back == {i \in 2..MaxTask + 2 : walk[i] = t}
    IN IF back = {} THEN MaxTask + 2
       ELSE (CHOOSE i \in back : \A j \in back : i <= j) - 1

PickNext_FromCurrent(st) ==
    IF current \in Linked
    THEN FirstRunnable(st, RingFrom(current), Len(ring))
    ELSE FirstRunnable(st, StaleWalk(current), StaleLength(current))

PickNext(st) ==
    LET start == NextOf(current)
    IN IF start \in Linked
       THEN FirstRunnable(st, RingFrom(start), Len(ring))
       ELSE FirstRunnable(st, StaleWalk(start), StaleLength(start))

-----------------------------------------------------------------------------
(* The timer interrupt. *)

TickCount_Late ==
    /\ ~frozen
    /\ preempt + 1 <= Quantum
    /\ preempt' = preempt + 1
    /\ UNCHANGED <<tasks, creation, frozen, control>>

(* timer_apic_handler below the preemption threshold: no reschedule. *)
TickCount ==
    /\ ~frozen
    /\ preempt + 1 < Quantum
    /\ preempt' = preempt + 1
    /\ UNCHANGED <<tasks, creation, frozen, control>>

(* schedule_from_isr before any task is current: adopt init_task. *)
TickAdopt ==
    /\ ~frozen
    /\ preempt + 1 >= Quantum
    /\ preempt' = 0
    /\ current = NULL
    /\ current' = InitTask
    /\ state' = [state EXCEPT ![InitTask] = "RUNNING"]
    /\ UNCHANGED <<ring, stale, pid, zombies, freed, creation, frozen, control>>

TickSwitch_SavesZombie ==
    /\ ~frozen
    /\ preempt + 1 >= Quantum
    /\ preempt' = 0
    /\ current # NULL
    /\ LET saved == [state EXCEPT ![current] = "READY"]
           next == PickNext(saved)
           chosen == IF next # NULL THEN next ELSE current
       IN /\ current' = chosen
          /\ state' = [saved EXCEPT ![chosen] = "RUNNING"]
    /\ UNCHANGED <<ring, stale, pid, zombies, freed, creation, frozen, control>>

(* schedule_from_isr: save current, pick the next task, mark it RUNNING. *)
TickSwitch ==
    /\ ~frozen
    /\ preempt + 1 >= Quantum
    /\ preempt' = 0
    /\ current # NULL
    /\ LET saved == IF state[current] = "RUNNING"
                    THEN [state EXCEPT ![current] = "READY"] ELSE state
           next == PickNext(saved)
           chosen == IF next # NULL THEN next ELSE current
       IN /\ current' = chosen
          /\ state' = [saved EXCEPT ![chosen] = "RUNNING"]
    /\ UNCHANGED <<ring, stale, pid, zombies, freed, creation, frozen, control>>

Tick == TickCount \/ TickAdopt \/ TickSwitch

-----------------------------------------------------------------------------
(* What the running task's kernel code does between interrupts. *)

(* Before the first reschedule current is NULL and the boot code runs. *)
Runner == IF current = NULL THEN InitTask ELSE current

At(t, label) == ~frozen /\ t = Runner /\ pc[t] = label
Goto(t, label) == pc' = [pc EXCEPT ![t] = label]

(* Bound: no more calls than there are structures left to allocate. *)
CanCreate ==
    fresh + Cardinality({t \in Task : pc[t] \in {"c_lock", "u_lock"}}) <= MaxTask

(* task_create: its lock, then the structure and a read of next_pid. *)
CreateCall(t) ==
    /\ At(t, "run") /\ CanCreate
    /\ Goto(t, "c_lock")
    /\ UNCHANGED <<tasks, creation, preempt, frozen, op, zl, slot, reg>>

CreateLock_NoWait(t) ==
    /\ At(t, "c_lock") /\ fresh <= MaxTask
    /\ lockK' = TRUE
    /\ slot' = [slot EXCEPT ![t] = fresh] /\ fresh' = fresh + 1
    /\ reg' = [reg EXCEPT ![t] = next_pid]
    /\ Goto(t, "c_pid")
    /\ UNCHANGED <<tasks, next_pid, lockU, preempt, frozen, op, zl>>

CreateLock(t) ==
    /\ At(t, "c_lock") /\ ~lockK /\ fresh <= MaxTask
    /\ lockK' = TRUE
    /\ slot' = [slot EXCEPT ![t] = fresh] /\ fresh' = fresh + 1
    /\ reg' = [reg EXCEPT ![t] = next_pid]
    /\ Goto(t, "c_pid")
    /\ UNCHANGED <<tasks, next_pid, lockU, preempt, frozen, op, zl>>

(* t->pid = next_pid++: the store of the incremented value. *)
StorePid(t) ==
    /\ next_pid' = reg[t] + 1
    /\ pid' = [pid EXCEPT ![slot[t]] = reg[t]]
    /\ state' = [state EXCEPT ![slot[t]] = "READY"]

CreatePid(t) ==
    /\ At(t, "c_pid")
    /\ StorePid(t)
    /\ Goto(t, "c_link")
    /\ UNCHANGED <<ring, stale, current, zombies, freed, fresh, lockK, lockU,
                   preempt, frozen, op, zl, slot, reg>>

CreateLink_KeepsLock(t) ==
    /\ At(t, "c_link")
    /\ ring' = Append(ring, slot[t])
    /\ Goto(t, "run")
    /\ UNCHANGED <<stale, state, pid, current, zombies, freed, creation,
                   preempt, frozen, op, zl, slot, reg>>

(* Insert as the new tail under cli()/sti(), then release the lock. *)
CreateLink(t) ==
    /\ At(t, "c_link")
    /\ ring' = Append(ring, slot[t])
    /\ lockK' = FALSE
    /\ Goto(t, "run")
    /\ UNCHANGED <<stale, state, pid, current, zombies, freed, fresh, next_pid,
                   lockU, preempt, frozen, op, zl, slot, reg>>

(* utask_create takes a lock of its own and returns without releasing it. *)
UCreateCall(t) ==
    /\ UserTasks
    /\ At(t, "run") /\ CanCreate
    /\ Goto(t, "u_lock")
    /\ UNCHANGED <<tasks, creation, preempt, frozen, op, zl, slot, reg>>

UCreateLock(t) ==
    /\ At(t, "u_lock") /\ ~lockU /\ fresh <= MaxTask
    /\ lockU' = TRUE
    /\ slot' = [slot EXCEPT ![t] = fresh] /\ fresh' = fresh + 1
    /\ reg' = [reg EXCEPT ![t] = next_pid]
    /\ Goto(t, "u_pid")
    /\ UNCHANGED <<tasks, next_pid, lockK, preempt, frozen, op, zl>>

(* No memory for the structure or the stack: 0 is returned. *)
UCreateNoMemory(t) ==
    /\ At(t, "u_lock") /\ ~lockU
    /\ lockU' = TRUE
    /\ Goto(t, "run")
    /\ UNCHANGED <<tasks, fresh, next_pid, lockK, preempt, frozen, op, zl, slot,
                   reg>>

UCreatePid(t) ==
    /\ At(t, "u_pid")
    /\ StorePid(t)
    /\ Goto(t, "u_link")
    /\ UNCHANGED <<ring, stale, current, zombies, freed, fresh, lockK, lockU,
                   preempt, frozen, op, zl, slot, reg>>

(* No page table: the structure is freed and 0 returned. *)
UCreateFail(t) ==
    /\ At(t, "u_link")
    /\ freed' = freed \cup {slot[t]}
    /\ Goto(t, "run")
    /\ UNCHANGED <<ring, stale, state, pid, current, zombies, creation, preempt,
                   frozen, op, zl, slot, reg>>

UCreateLink(t) ==
    /\ At(t, "u_link")
    /\ ring' = Append(ring, slot[t])
    /\ Goto(t, "run")
    /\ UNCHANGED <<stale, state, pid, current, zombies, freed, creation,
                   preempt, frozen, op, zl, slot, reg>>

ReapCall_KeepsList(t, o, p) ==
    /\ At(t, "run")
    /\ Goto(t, "reap")
    /\ op' = [op EXCEPT ![t] = o]
    /\ reg' = [reg EXCEPT ![t] = p]
    /\ zl' = [zl EXCEPT ![t] = zombies]
    /\ UNCHANGED <<tasks, creation, preempt, frozen, slot>>

(* task_exit, task_stop(p) and task_is_alive(p) first call reap_zombies,   *)
(* which detaches the whole zombie list.                                   *)
ReapCall(t, o, p) ==
    /\ At(t, "run")
    /\ Goto(t, "reap")
    /\ op' = [op EXCEPT ![t] = o]
    /\ reg' = [reg EXCEPT ![t] = p]
    /\ zl' = [zl EXCEPT ![t] = zombies]
    /\ zombies' = {}
    /\ UNCHANGED <<ring, stale, state, pid, current, freed, creation, preempt,
                   frozen, slot>>

ExitCall(t) == t \in Exits /\ ReapCall(t, "exit", 0)
StopCall(t) == \E p \in Stoppable : ReapCall(t, "stop", p)
AliveCall(t) == ReapCall(t, "alive", 0)

(* The loop of reap_zombies: unlink one zombie, then free it. *)
ReapUnlink(t) ==
    /\ At(t, "reap")
    /\ \E z \in zl[t] :
          /\ Unlink(z)
          /\ slot' = [slot EXCEPT ![t] = z]
    /\ Goto(t, "reap_free")
    /\ UNCHANGED <<state, pid, current, zombies, freed, creation, preempt,
                   frozen, op, zl, reg>>

(* free_task_resources does nothing to the static init_task. *)
Free(t) == freed' = freed \cup ({t} \ {InitTask})

ReapFree(t) ==
    /\ At(t, "reap_free")
    /\ Free(slot[t])
    /\ zl' = [zl EXCEPT ![t] = @ \ {slot[t]}]
    /\ Goto(t, "reap")
    /\ UNCHANGED <<ring, stale, state, pid, current, zombies, creation, preempt,
                   frozen, op, slot, reg>>

Reaped(t, o) == At(t, "reap") /\ zl[t] = {} /\ op[t] = o

(* The running task becomes a zombie, leaves the list and halts. *)
Bury(t) ==
    /\ state' = [state EXCEPT ![t] = "ZOMBIE"]
    /\ zombies' = zombies \cup {t}
    /\ Unlink(t)
    /\ Goto(t, "halt")

(* task_exit after reaping; init_task returns to its caller. *)
Exit(t) ==
    /\ Reaped(t, "exit")
    /\ IF t = InitTask
       THEN Goto(t, "run") /\ UNCHANGED <<ring, stale, state, zombies>>
       ELSE Bury(t)
    /\ UNCHANGED <<pid, current, freed, creation, preempt, frozen, op, zl,
                   slot, reg>>

(* The walk of task_stop: the first member, from the head, with the pid. *)
Match(p) == {i \in 1..Len(ring) : pid[ring[i]] = p}
Found(p) == ring[CHOOSE i \in Match(p) : \A j \in Match(p) : i <= j]

StopNotFound(t) ==
    /\ Reaped(t, "stop") /\ Match(reg[t]) = {}
    /\ Goto(t, "run")
    /\ UNCHANGED <<tasks, creation, preempt, frozen, op, zl, slot, reg>>

StopSelf(t) ==
    /\ Reaped(t, "stop") /\ Match(reg[t]) # {} /\ Found(reg[t]) = current
    /\ Bury(t)
    /\ UNCHANGED <<pid, current, freed, creation, preempt, frozen, op, zl,
                   slot, reg>>

StopOther(t) ==
    /\ Reaped(t, "stop") /\ Match(reg[t]) # {} /\ Found(reg[t]) # current
    /\ Unlink(Found(reg[t]))
    /\ slot' = [slot EXCEPT ![t] = Found(reg[t])]
    /\ Goto(t, "stop_free")
    /\ UNCHANGED <<state, pid, current, zombies, freed, creation, preempt,
                   frozen, op, zl, reg>>

(* Interrupts are enabled again when the stopped task is freed. *)
StopFree(t) ==
    /\ At(t, "stop_free")
    /\ Free(slot[t])
    /\ Goto(t, "run")
    /\ UNCHANGED <<ring, stale, state, pid, current, zombies, creation, preempt,
                   frozen, op, zl, slot, reg>>

Alive(t) ==
    /\ Reaped(t, "alive")
    /\ Goto(t, "run")
    /\ UNCHANGED <<tasks, creation, preempt, frozen, op, zl, slot, reg>>

(* kill_all_tasks, called by init: every other member becomes a zombie, and *)
(* reap_zombies, which enables interrupts, empties the list.                *)
KillAllCall(t) ==
    /\ Shutdown /\ t = InitTask /\ At(t, "run")
    /\ state' = [u \in Task |-> IF u \in Linked \ {InitTask}
                                THEN "ZOMBIE" ELSE state[u]]
    /\ zl' = [zl EXCEPT ![t] = zombies \cup (Linked \ {InitTask})]
    /\ zombies' = {}
    /\ op' = [op EXCEPT ![t] = "killall"]
    /\ Goto(t, "reap")
    /\ UNCHANGED <<ring, stale, pid, current, freed, creation, preempt, frozen,
                   slot, reg>>

KillAll(t) ==
    /\ Reaped(t, "killall")
    /\ current' = InitTask
    /\ state' = [state EXCEPT ![InitTask] = "RUNNING"]
    /\ ring' = IF pid[ring[Len(ring)]] # 0 THEN <<InitTask>> ELSE ring
    /\ Goto(t, "run")
    /\ UNCHANGED <<stale, pid, zombies, freed, creation, preempt, frozen, op,
                   zl, slot, reg>>

(* emergency_terminate_all, called by init: one cli()/sti() section. *)
EmergencyTerminateAll(t) ==
    /\ Shutdown /\ t = InitTask /\ At(t, "run")
    /\ freed' = freed \cup (Linked \ {InitTask})
    /\ ring' = <<InitTask>>
    /\ current' = InitTask
    /\ state' = [state EXCEPT ![InitTask] = "RUNNING"]
    /\ zombies' = {}
    /\ UNCHANGED <<stale, pid, creation, preempt, frozen, control>>

-----------------------------------------------------------------------------
(* The shell's kill command: cmd_kill and the whole of task_stop, inside    *)
(* the keyboard interrupt that read the Enter key, on the stack of current. *)
(* No zombie is a member of the list by then, except an init_task that is   *)
(* its only member and that unlink_from_ring leaves in place.               *)
ShellReaped == freed \cup (zombies \ {InitTask})

ShellNotFound(p) ==
    /\ ~frozen /\ Match(p) = {}
    /\ freed' = ShellReaped /\ zombies' = {}
    /\ UNCHANGED <<ring, stale, state, pid, current, creation, preempt, frozen,
                   control>>

ShellStopOther(p) ==
    /\ ~frozen /\ Match(p) # {} /\ Found(p) # current
    /\ Unlink(Found(p))
    /\ freed' = ShellReaped \cup ({Found(p)} \ {InitTask})
    /\ zombies' = {}
    /\ UNCHANGED <<state, pid, current, creation, preempt, frozen, control>>

(* The handler halts in task_stop's loop and never sends its EOI. *)
ShellStopCurrent(p) ==
    /\ ~frozen /\ Match(p) # {} /\ Found(p) = current
    /\ state' = [state EXCEPT ![current] = "ZOMBIE"]
    /\ Unlink(current)
    /\ freed' = ShellReaped /\ zombies' = {current}
    /\ frozen' = TRUE
    /\ UNCHANGED <<pid, current, creation, preempt, control>>

Shell == \E p \in ShellKill :
            ShellNotFound(p) \/ ShellStopOther(p) \/ ShellStopCurrent(p)

-----------------------------------------------------------------------------
Init ==
    /\ ring = <<InitTask>>
    /\ stale = [t \in Task |-> InitTask]
    /\ state = [t \in Task |-> IF t = InitTask THEN "RUNNING" ELSE "none"]
    /\ pid = [t \in Task |-> 0]
    /\ current = NULL
    /\ zombies = {} /\ freed = {}
    /\ fresh = 1 /\ next_pid = 1
    /\ lockK = FALSE /\ lockU = FALSE
    /\ preempt = 0 /\ frozen = FALSE
    /\ pc = [t \in Task |-> "run"] /\ op = [t \in Task |-> "none"]
    /\ zl = [t \in Task |-> {}]
    /\ slot = [t \in Task |-> InitTask] /\ reg = [t \in Task |-> 0]

Create(t) == CreateCall(t) \/ CreateLock(t) \/ CreatePid(t) \/ CreateLink(t)
UCreate(t) == \/ UCreateCall(t) \/ UCreateLock(t) \/ UCreateNoMemory(t)
              \/ UCreatePid(t) \/ UCreateFail(t) \/ UCreateLink(t)
Reap(t) == ReapUnlink(t) \/ ReapFree(t)
Leave(t) == ExitCall(t) \/ Exit(t)
Stop(t) == \/ StopCall(t) \/ StopNotFound(t) \/ StopSelf(t) \/ StopOther(t)
           \/ StopFree(t)
IsAlive(t) == AliveCall(t) \/ Alive(t)
TerminateAll(t) == KillAllCall(t) \/ KillAll(t) \/ EmergencyTerminateAll(t)

Step(t) == \/ Create(t) \/ UCreate(t) \/ Reap(t) \/ Leave(t) \/ Stop(t)
           \/ IsAlive(t) \/ TerminateAll(t)

Next == Tick \/ \E t \in Task : Step(t)

Spec == Init /\ [][Next]_vars

(* With the shell's kill command. *)
ShellSpec == Init /\ [][Next \/ Shell]_vars

(* The timer keeps interrupting. *)
TimerFairness == WF_vars(Tick)

(* A task that is given the CPU again and again executes the straight-line  *)
(* code of task_create and takes a lock it finds free.                      *)
CreateFairness ==
    \A t \in Task : SF_vars(CreateLock(t)) /\ SF_vars(CreatePid(t) \/ CreateLink(t))

TimerSpec == Spec /\ TimerFairness
CreateSpec == TimerSpec /\ CreateFairness

-----------------------------------------------------------------------------
(* Properties. *)

(* Everything schedule_from_isr and pick_next dereference is allocated: the *)
(* current task, its successor, and every member of the list, at every      *)
(* point where a timer interrupt may fall (sched.c:234-294).                *)
NoFreedTaskScheduled ==
    /\ Linked \cap freed = {}
    /\ current # NULL => current \notin freed /\ NextOf(current) \in Linked

(* What a task's kernel code alone may free or link: the zombies it has      *)
(* detached, the task it is stopping, the structure it is creating.          *)
Held(t) ==
    zl[t] \cup (IF pc[t] \in Creating \cup {"stop_free"} THEN {slot[t]} ELSE {})

KillingAll(t) == op[t] = "killall" /\ pc[t] \in {"reap", "reap_free"}

(* A task structure has one owner: the list, zombie_list, one task that is  *)
(* creating, stopping or reaping it, or the heap.  So none is freed twice or *)
(* linked after it was freed, however reap_zombies, task_stop and task_exit *)
(* of several tasks interleave.  (kill_all_tasks detaches tasks that are     *)
(* still linked, and reap_zombies unlinks them.)                             *)
OneOwner ==
    /\ Linked \cap (zombies \cup freed) = {}
    /\ zombies \cap freed = {}
    /\ \A t \in Task :
          /\ Held(t) \cap (zombies \cup freed) = {}
          /\ KillingAll(t) \/ Held(t) \cap Linked = {}
          /\ \A u \in Task \ {t} : Held(t) \cap Held(u) = {}

(* No two tasks carry the same pid, although next_pid++ is a read and a     *)
(* later store, and a timer interrupt may separate them (sched.c:191).      *)
PidsUnique ==
    \A t, u \in Task :
        state[t] # "none" /\ state[u] # "none" /\ t # u => pid[t] # pid[u]

(* A zombie never runs again: no reschedule makes it READY or RUNNING       *)
(* (sched.c:275-289).                                                       *)
ZombieStays ==
    [][\A t \in Task : state[t] = "ZOMBIE" => state'[t] = "ZOMBIE"]_vars

(* Round robin starves nobody: a READY member of the list is given the CPU  *)
(* or leaves the list (sched.c:232).                                        *)
NoStarvation ==
    \A t \in Task :
        (t \in Linked /\ state[t] = "READY") ~> (current = t \/ t \notin Linked)

(* A task that has exited gives up the CPU: the next pointer it keeps leads *)
(* pick_next back into the list (sched.c:239, 467-488).                     *)
ZombieYields ==
    \A t \in Task :
        (current = t /\ state[t] = "ZOMBIE") ~> (current # t)

(* A task waiting for the lock of task_create gets it (sched.c:172).        *)
CreateLockGranted == \A t \in Task : pc[t] = "c_lock" ~> pc[t] # "c_lock"

=============================================================================
