-------------------------------- MODULE KbdRing --------------------------------
(***************************************************************************)
(* The ring buffer of drivers/ps2kbd/ps2kbd.c between the keyboard         *)
(* interrupt and the readers of characters.  Both operations run with      *)
(* interrupts disabled (irq_save_flags), so each is one step; can_type is  *)
(* never cleared anywhere in the kernel.                                   *)
(***************************************************************************)
EXTENDS Integers, Sequences

CONSTANTS Char,
          NUL,          \* the character 0, which fills the static buffer
          Size          \* KBD_BUF_SIZE

ASSUME RingAssumption == Size \in Nat \ {0} /\ NUL \in Char

VARIABLES kbd_buf, kbd_head, kbd_tail

ring == <<kbd_buf, kbd_head, kbd_tail>>

Slot == 0..Size - 1

RingTypeOK ==
    /\ kbd_buf \in [Slot -> Char]
    /\ kbd_head \in Slot
    /\ kbd_tail \in Slot

(* (i + 1) % KBD_BUF_SIZE, and the same for a sum below 2 * Size. *)
Wrap(i) == IF i >= Size THEN i - Size ELSE i

RingInit ==
    /\ kbd_buf = [s \in Slot |-> NUL]
    /\ kbd_head = 0
    /\ kbd_tail = 0

RingEmpty == kbd_head = kbd_tail
RingFull == Wrap(kbd_head + 1) = kbd_tail

Push_Overwrites(c) ==
    /\ kbd_buf' = [kbd_buf EXCEPT ![kbd_head] = c]
    /\ kbd_head' = Wrap(kbd_head + 1)
    /\ UNCHANGED kbd_tail

(* kbd_buffer_push: a full buffer loses the character. *)
Push(c) ==
    \/ /\ ~RingFull
       /\ kbd_buf' = [kbd_buf EXCEPT ![kbd_head] = c]
       /\ kbd_head' = Wrap(kbd_head + 1)
       /\ UNCHANGED kbd_tail
    \/ RingFull /\ UNCHANGED ring

(* kbd_getchar takes the character kbd_buf[kbd_tail]. *)
Pop ==
    /\ ~RingEmpty
    /\ kbd_tail' = Wrap(kbd_tail + 1)
    /\ UNCHANGED <<kbd_buf, kbd_head>>

RingNext == Pop \/ \E c \in Char : Push(c)

RingSpec == RingInit /\ [][RingNext]_ring

-----------------------------------------------------------------------------
(* The characters in the buffer, oldest first. *)
Count == IF kbd_head >= kbd_tail THEN kbd_head - kbd_tail
                                 ELSE kbd_head + Size - kbd_tail
Contents == [i \in 1..Count |-> kbd_buf[Wrap(kbd_tail + i - 1)]]

Queue == INSTANCE CharQueue WITH queue <- Contents, Capacity <- Size - 1

(* The ring is a queue of Size - 1 characters: none is reordered,          *)
(* duplicated or overwritten when the indices wrap, and one is lost only   *)
(* when the buffer is full (ps2kbd.c:240-260, 294-315).                    *)
ImplementsQueue == Queue!QueueSpec

=============================================================================
