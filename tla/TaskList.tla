------------------------------- MODULE TaskList -------------------------------
(***************************************************************************)
(* What the circular task list of kernel/sched.c promises: a round-robin   *)
(* queue of tasks that grows at its tail, loses any member on request, and *)
(* never becomes empty because init_task takes the place of the last one.  *)
(* The scheduler is written over this list; module TaskRing shows that the *)
(* pointer manipulations of the code implement it.                         *)
(***************************************************************************)
EXTENDS Integers, Sequences

CONSTANT MaxTask      \* bound: task structures besides init_task

InitTask == 0
Task == 0..MaxTask

VARIABLE ring         \* members from task_ring->next (head) to task_ring (tail)

Linked == {ring[i] : i \in 1..Len(ring)}
Position(t) == CHOOSE i \in 1..Len(ring) : ring[i] = t
Successor(t) == ring[(Position(t) % Len(ring)) + 1]

WithoutPosition(k) ==
    IF Len(ring) = 1
    THEN <<InitTask>>
    ELSE [i \in 1..Len(ring) - 1 |-> IF i < k THEN ring[i] ELSE ring[i + 1]]

ListInit == ring = <<InitTask>>

ListInsert(t) ==
    /\ t \notin Linked
    /\ ring' = Append(ring, t)

ListRemove(t) ==
    /\ t \in Linked
    /\ ring' = WithoutPosition(Position(t))

ListNext == \E t \in Task : ListInsert(t) \/ ListRemove(t)

ListSpec == ListInit /\ [][ListNext]_ring

=============================================================================
