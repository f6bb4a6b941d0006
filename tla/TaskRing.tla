------------------------------- MODULE TaskRing -------------------------------
(***************************************************************************)
(* The circular list of kernel/sched.c as the code keeps it: a next pointer *)
(* in every task structure and task_ring, which points at the tail.         *)
(* Insertion and removal are cli()/sti() sections, one step each.  The task *)
(* that is inserted or removed is arbitrary: a structure whose memory was   *)
(* freed and allocated again comes back with whatever next it is given.     *)
(***************************************************************************)
EXTENDS Integers, Sequences

CONSTANTS MaxTask, NoTask

ASSUME TaskRingAssumption == MaxTask \in Nat

InitTask == 0
Task == 0..MaxTask

VARIABLES next,       \* task_t.next, kept by a task that is unlinked
          task_ring   \* the tail

ringVars == <<next, task_ring>>

(* The members the do-while loops of the code visit: from task_ring->next, *)
(* following next, until the walk is back at task_ring->next.              *)
Visit ==
    LET at[i \in 1..MaxTask + 2] == IF i = 1 THEN next[task_ring] ELSE next[at[i - 1]]
    IN at

WalkLength ==
    LET back == {i \in 2..MaxTask + 2 : Visit[i] = Visit[1]}
    IN (CHOOSE i \in back : \A j \in back : i <= j) - 1

Walk == [i \in 1..WalkLength |-> Visit[i]]
Members == {Walk[i] : i \in 1..WalkLength}

(* task_create and utask_create: the new task becomes the tail. *)
Insert(t) ==
    /\ t \notin Members
    /\ next' = [next EXCEPT ![t] = next[task_ring], ![task_ring] = t]
    /\ task_ring' = t

(* unlink_from_ring of the only member, which is not init_task. *)
UnlinkLast(t) ==
    /\ next[task_ring] = task_ring /\ task_ring = t /\ t # InitTask
    /\ task_ring' = InitTask
    /\ next' = [next EXCEPT ![InitTask] = InitTask]

(* unlink_from_ring of one of several members: the loop finds it with its  *)
(* predecessor, which for the head is the tail.                            *)
Predecessor(t) ==
    LET at == CHOOSE i \in 1..WalkLength : Walk[i] = t
    IN IF at = 1 THEN task_ring ELSE Walk[at - 1]

UnlinkOne_TailKept(t) ==
    /\ next[task_ring] # task_ring /\ t \in Members
    /\ next' = [next EXCEPT ![Predecessor(t)] = next[t]]
    /\ UNCHANGED task_ring

UnlinkOne(t) ==
    /\ next[task_ring] # task_ring /\ t \in Members
    /\ next' = [next EXCEPT ![Predecessor(t)] = next[t]]
    /\ task_ring' = IF task_ring = t THEN Predecessor(t) ELSE task_ring

(* A task that is not a member, or init_task alone, stays as it is. *)
UnlinkNothing(t) ==
    /\ t \notin Members \/ Members = {InitTask}
    /\ UNCHANGED ringVars

RingInit ==
    /\ next = [t \in Task |-> IF t = InitTask THEN InitTask ELSE NoTask]
    /\ task_ring = InitTask

RingNext == \E t \in Task :
            \/ Insert(t) \/ UnlinkLast(t) \/ UnlinkOne(t) \/ UnlinkNothing(t)

TaskRingSpec == RingInit /\ [][RingNext]_ringVars

-----------------------------------------------------------------------------
(* The list the pointers stand for. *)
List == INSTANCE TaskList WITH ring <- Walk

(* The pointer code of task_create, utask_create and unlink_from_ring       *)
(* implements the list: every step appends at the tail, removes exactly one *)
(* member in place, or changes nothing (sched.c:216-226, 306-340).          *)
ImplementsList == List!ListSpec

=============================================================================
