------------------------------- MODULE CharQueue -------------------------------
(***************************************************************************)
(* What the keyboard buffer promises: a first-in first-out queue of at     *)
(* most Capacity characters that refuses a character when it is full.      *)
(***************************************************************************)
EXTENDS Integers, Sequences

CONSTANTS Char, Capacity

VARIABLE queue

QueueInit == queue = <<>>

Accept(c) == Len(queue) < Capacity /\ queue' = Append(queue, c)

Deliver == queue # <<>> /\ queue' = Tail(queue)

QueueNext == Deliver \/ \E c \in Char : Accept(c)

QueueSpec == QueueInit /\ [][QueueNext]_queue

=============================================================================
