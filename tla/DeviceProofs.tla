----------------------------- MODULE DeviceProofs -----------------------------
(***************************************************************************)
(* Proofs about the drivers.  For every buffer size, the keyboard ring     *)
(* implements a bounded queue, alone and under the keyboard and its        *)
(* readers, the line editor keeps a well-formed line, and a command that   *)
(* asked gives the prompt back (modules KbdRing and Console).  For every   *)
(* size of a disk, of a chunk and of a request, the two disk drivers do    *)
(* what they report: IdeSound and AhciSound are invariants (modules Ide    *)
(* and Ahci).                                                              *)
(***************************************************************************)
EXTENDS Console, Ahci, Ide, WellFoundedInduction, TLAPS

-----------------------------------------------------------------------------
(* Sequences. *)

(* A member of a sequence.                                                 *)
LEMMA MemberOf == ASSUME NEW S, NEW s \in Seq(S), NEW n \in 1..Len(s) PROVE s[n] \in S
  OBVIOUS

(* Two sequences with the same members.                                    *)
LEMMA SameSeq ==
  ASSUME NEW S, NEW s \in Seq(S), NEW t \in Seq(S),
         Len(s) = Len(t), \A i \in 1..Len(s) : s[i] = t[i]
  PROVE  s = t
  OBVIOUS

(* The tail of a sequence that is not empty.                               *)
LEMMA TailIs ==
  ASSUME NEW S, NEW s \in Seq(S), s # <<>>
  PROVE  /\ Tail(s) \in Seq(S) /\ Len(Tail(s)) = Len(s) - 1
         /\ \A i \in 1..Len(Tail(s)) : Tail(s)[i] = s[i + 1]
  OBVIOUS

-----------------------------------------------------------------------------
(* The ring. *)

(* Every operation keeps the indices inside the buffer.                    *)
LEMMA TypeStep == RingTypeOK /\ [RingNext]_ring => RingTypeOK'
  <1> SUFFICES ASSUME RingTypeOK, [RingNext]_ring PROVE RingTypeOK'
    OBVIOUS
  <1>1. ASSUME NEW c \in Char, Push(c) PROVE RingTypeOK'
    BY <1>1, RingAssumption DEF RingTypeOK, Push, RingFull, Wrap, Slot, ring
  <1>2. CASE Pop
    BY <1>2, RingAssumption DEF RingTypeOK, Pop, Wrap, Slot
  <1>3. CASE UNCHANGED ring
    BY <1>3 DEF RingTypeOK, ring
  <1> QED
    BY <1>1, <1>2, <1>3 DEF RingNext

(* The contents are a sequence of fewer than Size characters.              *)
LEMMA ContentsType ==
  ASSUME RingTypeOK
  PROVE  /\ Count \in 0..Size - 1
         /\ Contents \in Seq(Char)
         /\ Len(Contents) = Count
         /\ DOMAIN Contents = 1..Count
         /\ \A i \in 1..Count : Contents[i] = kbd_buf[Wrap(kbd_tail + i - 1)]
  <1>1. Count \in 0..Size - 1
    BY RingAssumption DEF RingTypeOK, Count, Slot
  <1>2. ASSUME NEW i \in 1..Count PROVE kbd_buf[Wrap(kbd_tail + i - 1)] \in Char
    <2>1. Wrap(kbd_tail + i - 1) \in Slot
      BY <1>1, RingAssumption DEF RingTypeOK, Wrap, Slot
    <2> QED
      BY <2>1 DEF RingTypeOK
  <1>3. Contents \in Seq(Char)
    BY <1>1, <1>2 DEF Contents
  <1> QED
    BY <1>1, <1>3 DEF Contents

(* A push onto a buffer with room appends its character.                   *)
LEMMA PushAppends ==
  ASSUME RingTypeOK, RingTypeOK', NEW c \in Char, Push(c), ~RingFull
  PROVE  /\ Len(Contents) < Size - 1
         /\ Contents' = Append(Contents, c)
  <1>1. /\ kbd_buf' = [kbd_buf EXCEPT ![kbd_head] = c]
        /\ kbd_head' = Wrap(kbd_head + 1)
        /\ kbd_tail' = kbd_tail
    BY DEF Push
  <1>2. Count' = Count + 1 /\ Count < Size - 1
    BY <1>1, RingAssumption DEF RingTypeOK, RingFull, Count, Wrap, Slot
  <1>3. Contents' = [i \in 1..Count' |-> kbd_buf'[Wrap(kbd_tail' + i - 1)]]
    BY DEF Contents, Wrap
  <1>4. Wrap(kbd_tail + Count) = kbd_head
    BY RingAssumption DEF RingTypeOK, Count, Wrap, Slot
  <1>5. ASSUME NEW i \in 1..Count
        PROVE  Wrap(kbd_tail + i - 1) # kbd_head /\ Wrap(kbd_tail + i - 1) \in Slot
    BY <1>2, RingAssumption DEF RingTypeOK, Count, Wrap, Slot
  <1>6. ASSUME NEW i \in 1..Count + 1
        PROVE  kbd_buf'[Wrap(kbd_tail + i - 1)] = Append(Contents, c)[i]
    <2>1. CASE i \in 1..Count
      <3>1. kbd_buf'[Wrap(kbd_tail + i - 1)] = kbd_buf[Wrap(kbd_tail + i - 1)]
        BY <1>1, <1>5, <2>1 DEF RingTypeOK
      <3>2. Append(Contents, c)[i] = Contents[i]
        BY <2>1, ContentsType
      <3> QED
        BY <2>1, <3>1, <3>2, ContentsType
    <2>2. CASE i = Count + 1
      <3>1. Wrap(kbd_tail + i - 1) = kbd_head
        <4>1. kbd_tail + i - 1 = kbd_tail + Count
          BY <2>2, ContentsType DEF RingTypeOK, Slot
        <4> QED
          BY <1>4, <4>1
      <3>2. kbd_buf'[kbd_head] = c
        BY <1>1 DEF RingTypeOK
      <3>3. Append(Contents, c)[i] = c
        BY <2>2, ContentsType
      <3> QED
        BY <3>1, <3>2, <3>3
    <2>3. i \in 1..Count \/ i = Count + 1
      BY ContentsType
    <2> QED
      BY <2>1, <2>2, <2>3, Zenon
  <1>7. /\ Append(Contents, c) \in Seq(Char)
        /\ Len(Append(Contents, c)) = Count + 1
    BY ContentsType
  <1> DEFINE F == [i \in 1..Count + 1 |-> kbd_buf'[Wrap(kbd_tail + i - 1)]]
  <1>8. Contents' = F
    BY <1>1, <1>2, <1>3
  <1>9. /\ F \in Seq(Char) /\ Len(F) = Count + 1
        /\ \A i \in 1..Count + 1 : F[i] = Append(Contents, c)[i]
    <2>1. \A i \in 1..Count + 1 : Append(Contents, c)[i] \in Char
      BY <1>7, MemberOf
    <2>2. Count + 1 \in Nat
      BY ContentsType
    <2>3. \A i \in 1..Count + 1 : F[i] = Append(Contents, c)[i]
      BY <1>6, Zenon
    <2>4. F \in [1..Count + 1 -> Char]
      BY <1>6, <2>1, Zenon
    <2>5. F \in Seq(Char) /\ Len(F) = Count + 1
      <3> HIDE DEF F
      <3> QED
        BY <2>2, <2>4
    <2> QED
      BY <2>3, <2>5, Zenon
  <1>10. F = Append(Contents, c)
    <2> HIDE DEF F
    <2> QED
      BY <1>7, <1>9, SameSeq
  <1> QED
    BY <1>2, <1>8, <1>10, ContentsType

(* Taking a character removes the oldest one.                              *)
LEMMA PopTakesHead ==
  ASSUME RingTypeOK, RingTypeOK', Pop
  PROVE  Contents # <<>> /\ Contents' = Tail(Contents)
  <1>1. /\ kbd_buf' = kbd_buf
        /\ kbd_head' = kbd_head
        /\ kbd_tail' = Wrap(kbd_tail + 1)
    BY DEF Pop
  <1>2. Count' = Count - 1 /\ Count > 0
    BY <1>1, RingAssumption DEF Pop, RingEmpty, RingTypeOK, Count, Wrap, Slot
  <1>3. Contents # <<>>
    BY <1>2, ContentsType
  <1>4. Contents' = [i \in 1..Count - 1 |-> kbd_buf[Wrap(Wrap(kbd_tail + 1) + i - 1)]]
    BY <1>1, <1>2 DEF Contents, Wrap
  <1>5. ASSUME NEW i \in 1..Count - 1
        PROVE  Wrap(Wrap(kbd_tail + 1) + i - 1) = Wrap(kbd_tail + (i + 1) - 1)
    BY ContentsType, RingAssumption DEF RingTypeOK, Wrap, Slot
  <1>6. ASSUME NEW i \in 1..Count - 1
        PROVE  kbd_buf[Wrap(Wrap(kbd_tail + 1) + i - 1)] = Contents[i + 1]
    <2>1. i + 1 \in 1..Count
      BY ContentsType
    <2> QED
      BY <1>5, <2>1, ContentsType
  <1> DEFINE F == [i \in 1..Count - 1 |-> kbd_buf[Wrap(Wrap(kbd_tail + 1) + i - 1)]]
  <1>7. /\ Tail(Contents) \in Seq(Char)
        /\ Len(Tail(Contents)) = Count - 1
        /\ \A i \in 1..Count - 1 : Tail(Contents)[i] = Contents[i + 1]
    BY <1>3, ContentsType, TailIs
  <1>8. F \in Seq(Char) /\ Len(F) = Count - 1 /\ \A i \in 1..Count - 1 : F[i] = Tail(Contents)[i]
    <2>1. Count - 1 \in Nat
      BY <1>2, ContentsType
    <2>2. \A i \in 1..Count - 1 : Contents[i + 1] \in Char
      BY ContentsType
    <2>3. \A i \in 1..Count - 1 : F[i] = Tail(Contents)[i]
      BY <1>6, <1>7
    <2>4. F \in [1..Count - 1 -> Char]
      BY <1>6, <2>2
    <2>5. F \in Seq(Char) /\ Len(F) = Count - 1
      <3> HIDE DEF F
      <3> QED
        BY <2>1, <2>4
    <2> QED
      BY <2>3, <2>5, Zenon
  <1>9. F = Tail(Contents)
    <2> HIDE DEF F
    <2> QED
      BY <1>7, <1>8, SameSeq
  <1> QED
    BY <1>3, <1>4, <1>9

(* The buffer starts empty.                                                *)
LEMMA RingStarts == RingInit => RingTypeOK /\ Queue!QueueInit
  <1> SUFFICES ASSUME RingInit PROVE RingTypeOK /\ Contents = <<>>
    BY DEF Queue!QueueInit
  <1>1. RingTypeOK
    BY RingAssumption DEF RingInit, RingTypeOK, Slot
  <1>2. Count = 0
    BY DEF RingInit, Count
  <1> QED
    BY <1>1, <1>2, ContentsType

(* Each step of the ring is a step of the queue, or changes nothing in it. *)
LEMMA RingStep ==
  ASSUME RingTypeOK, RingTypeOK', [RingNext]_ring
  PROVE  [Queue!QueueNext]_Contents
  <1>1. ASSUME NEW c \in Char, Push(c) PROVE [Queue!QueueNext]_Contents
    <2>1. CASE ~RingFull
      BY <1>1, <2>1, PushAppends DEF Queue!QueueNext, Queue!Accept
    <2>2. CASE RingFull
      <3>1. UNCHANGED ring
        BY <1>1, <2>2 DEF Push
      <3> QED
        BY <3>1 DEF ring, Contents, Count, Wrap
    <2> QED
      BY <2>1, <2>2
  <1>2. CASE Pop
    BY <1>2, PopTakesHead DEF Queue!QueueNext, Queue!Deliver
  <1>3. CASE UNCHANGED ring
    BY <1>3 DEF ring, Contents, Count, Wrap
  <1> QED
    BY <1>1, <1>2, <1>3 DEF RingNext

(* The ring buffer between keyboard_handler and kbd_getchar is a queue of  *)
(* Size - 1 characters, whatever the buffer size.                          *)
THEOREM RingIsQueue == RingSpec => ImplementsQueue
  <1>1. RingTypeOK /\ RingTypeOK' /\ [RingNext]_ring => [Queue!QueueNext]_Contents
    BY RingStep
  <1> QED
    BY <1>1, RingStarts, TypeStep, PTL DEF RingSpec, ImplementsQueue, Queue!QueueSpec

-----------------------------------------------------------------------------
(* The keyboard interrupt, the line editor and the readers. *)

(* While terminal_input waits, the prompt it will restore is an enabled    *)
(* one and its buffer has room; before the prompt is first enabled there   *)
(* is no line.                                                             *)
ConsoleInv ==
    /\ LineWellFormed
    /\ asking => old_prompt /\ ~prompt_enabled /\ Len(answer) < AnswerSize - 1
    /\ ~prompt_enabled /\ ~asking => input_pos = 0

(* Every key has a character that the ring and the editor accept.          *)
LEMMA AsciiType ==
  ASSUME NEW key \in Keys
  PROVE  Ascii(key) \in Printable \cup {"NL", "BS"} /\ Ascii(key) \in Char
  <1>1. key \in KeyCodes
    BY ConsoleAssumption
  <1>2. Ascii(key) \in Printable \cup {"NL", "BS"}
    BY <1>1 DEF KeyCodes, Ascii, Printable
  <1> QED
    BY <1>2, ConsoleAssumption

(* An empty line is well formed.                                           *)
LEMMA Emptied ==
  ASSUME ConsoleTypeOK', input_buffer' = EmptyLine, input_pos' = 0, cursor_pos' = 0
  PROVE  LineWellFormed'
  BY ConsoleAssumption DEF LineWellFormed, EmptyLine

(* The console after boot: nothing typed, the prompt enabled.              *)
LEMMA ConsoleStarts == ConsoleInit => ConsoleInv
  <1> SUFFICES ASSUME ConsoleInit PROVE ConsoleInv
    OBVIOUS
  <1>1. LineSize \in Nat \ {0} /\ 0 < AnswerSize - 1 /\ NUL \notin Printable
    BY ConsoleAssumption DEF Word
  <1>2. RingTypeOK
    BY RingStarts DEF ConsoleInit
  <1>3. ConsoleTypeOK
    BY <1>1, <1>2, RingAssumption DEF ConsoleInit, ConsoleTypeOK, EmptyLine
  <1> QED
    BY <1>1, <1>3 DEF ConsoleInit, ConsoleInv, LineWellFormed, EmptyLine

(* The line editor, on any character of a key.                             *)
LEMMA LineEdited ==
  ASSUME ConsoleInv, prompt_enabled, ~asking,
         NEW c \in Printable \cup {"NL", "BS"}, HandleInput(c)
  PROVE  ConsoleInv'
  <1>1. /\ LineSize \in 1..64 /\ AnswerSize \in Nat \ {0, 1} /\ NUL \notin Printable
        /\ Printable \subseteq Char
    BY ConsoleAssumption, Zenon DEF Word
  <1>2. UNCHANGED <<ring, modifiers>>
    BY DEF HandleInput
  <1>3. RingTypeOK' /\ shift_down' \in BOOLEAN /\ caps_lock' \in BOOLEAN /\ ctrl_down' \in BOOLEAN
    BY <1>2 DEF ring, modifiers, RingTypeOK, ConsoleInv, LineWellFormed, ConsoleTypeOK
  <1> DEFINE Lines == [0..LineSize - 1 -> Char]
  <1>4. /\ input_buffer \in Lines /\ input_pos \in 0..LineSize - 1 /\ cursor_pos = input_pos
        /\ \A i \in 0..LineSize - 1 : input_buffer[i] \in Printable <=> i < input_pos
        /\ \A i \in 0..LineSize - 1 : i >= input_pos => input_buffer[i] = NUL
    BY DEF ConsoleInv, LineWellFormed, ConsoleTypeOK
  <1>5. ASSUME UNCHANGED <<prompt_enabled, question>>,
               input_buffer' \in Lines, input_pos' \in 0..LineSize - 1, cursor_pos' = input_pos',
               \A i \in 0..LineSize - 1 : input_buffer'[i] \in Printable <=> i < input_pos',
               \A i \in 0..LineSize - 1 : i >= input_pos' => input_buffer'[i] = NUL
        PROVE  ConsoleInv'
    BY <1>1, <1>3, <1>5 DEF ConsoleInv, LineWellFormed, ConsoleTypeOK, question
  <1>6. EmptyLine \in Lines /\ \A i \in 0..LineSize - 1 : EmptyLine[i] = NUL
    BY RingAssumption DEF EmptyLine
  <1>7. ASSUME ClearLine, UNCHANGED <<prompt_enabled, question>> PROVE ConsoleInv'
    BY <1>1, <1>5, <1>6, <1>7 DEF ClearLine
  <1>8. ASSUME UNCHANGED <<prompt_enabled, question>>, UNCHANGED line PROVE ConsoleInv'
    BY <1>4, <1>5, <1>8 DEF line
  <1>9. ASSUME NEW end \in Ends, RunCommand(end) PROVE ConsoleInv'
    <2>1. CASE end = "returns"
      BY <1>7, <1>9, <2>1 DEF RunCommand
    <2>2. CASE end = "usage"
      BY <1>8, <1>9, <2>2 DEF RunCommand
    <2>3. CASE end = "asks"
      <3>1. /\ asking' = TRUE /\ old_prompt' = TRUE /\ prompt_enabled' = FALSE /\ answer' = <<>>
            /\ UNCHANGED line
        BY <1>9, <2>3 DEF RunCommand, ConsoleInv, LineWellFormed, ConsoleTypeOK
      <3>2. <<>> \in Seq(Char) /\ Len(<<>>) = 0
        OBVIOUS
      <3>3. ConsoleTypeOK'
        <4>1. input_buffer' = input_buffer /\ input_pos' = input_pos /\ cursor_pos' = cursor_pos
          BY <3>1, Zenon DEF line
        <4>2. answer' \in Seq(Char) /\ Len(answer') < AnswerSize
          BY <1>1, <3>1, <3>2
        <4>3. cursor_pos' \in 0..LineSize
          BY <1>1, <1>4, <4>1
        <4> QED
          BY <1>3, <1>4, <3>1, <4>1, <4>2, <4>3, Zenon DEF ConsoleTypeOK
      <3>4. LineWellFormed'
        BY <1>4, <3>1, <3>3 DEF LineWellFormed, line
      <3> QED
        BY <1>1, <3>1, <3>2, <3>4 DEF ConsoleInv
    <2> QED
      BY <2>1, <2>2, <2>3, ConsoleAssumption
  <1>10. CASE EraseBefore
    <2>1. CASE cursor_pos > 0
      <3>1. (input_pos - 1) % 64 = input_pos - 1 /\ input_pos - 1 \in 0..LineSize - 1
        BY <1>1, <1>4, <2>1
      <3>2. /\ input_pos' = input_pos - 1 /\ cursor_pos' = input_pos - 1
            /\ input_buffer' = [i \in 0..LineSize - 1 |->
                  IF i = input_pos - 1 THEN NUL
                  ELSE IF i >= input_pos - 1 /\ i < input_pos - 1
                  THEN input_buffer[i + 1] ELSE input_buffer[i]]
            /\ UNCHANGED <<prompt_enabled, question>>
        BY <1>4, <1>10, <2>1, <3>1 DEF EraseBefore, Word
      <3>3. input_buffer' =
              [i \in 0..LineSize - 1 |-> IF i = input_pos - 1 THEN NUL ELSE input_buffer[i]]
        BY <1>1, <1>4, <3>2
      <3> QED
        <4>1. input_buffer' \in Lines
          BY <1>4, <3>3, RingAssumption
        <4>2. \A i \in 0..LineSize - 1 : input_buffer'[i] \in Printable <=> i < input_pos'
          BY <1>1, <1>4, <3>1, <3>2, <3>3
        <4>3. \A i \in 0..LineSize - 1 : i >= input_pos' => input_buffer'[i] = NUL
          BY <1>1, <1>4, <3>1, <3>2, <3>3
        <4> QED
          BY <1>5, <3>1, <3>2, <4>1, <4>2, <4>3
    <2>2. CASE ~(cursor_pos > 0)
      BY <1>8, <1>10, <2>2 DEF EraseBefore
    <2> QED
      BY <2>1, <2>2
  <1>11. CASE EraseAt
    BY <1>4, <1>8, <1>11 DEF EraseAt
  <1>12. ASSUME c \in Printable, Insert(c) PROVE ConsoleInv'
    <2>1. CASE input_pos < LineSize - 1
      <3>1. /\ input_pos' = input_pos + 1 /\ cursor_pos' = input_pos + 1
            /\ input_buffer' = [i \in 0..LineSize - 1 |->
                  IF i = input_pos + 1 THEN NUL
                  ELSE IF i = input_pos THEN c
                  ELSE IF i > input_pos /\ i <= input_pos THEN input_buffer[i - 1]
                  ELSE input_buffer[i]]
            /\ UNCHANGED <<prompt_enabled, question>>
        BY <1>4, <1>12, <2>1, Zenon DEF Insert
      <3>2. input_buffer' = [i \in 0..LineSize - 1 |->
              IF i = input_pos + 1 THEN NUL ELSE IF i = input_pos THEN c ELSE input_buffer[i]]
        BY <1>1, <1>4, <3>1
      <3> QED
        BY <1>1, <1>4, <1>5, <1>12, <2>1, <3>1, <3>2, RingAssumption
    <2>2. CASE ~(input_pos < LineSize - 1)
      BY <1>8, <1>12, <2>2 DEF Insert
    <2> QED
      BY <2>1, <2>2
  <1> QED
    BY <1>7, <1>9, <1>10, <1>11, <1>12, Zenon DEF HandleInput, EmptyCommand

(* The modifier keys and the ring are apart from the line and the prompt.  *)
LEMMA Apart ==
  ASSUME ConsoleInv, RingTypeOK', shift_down' \in BOOLEAN, caps_lock' \in BOOLEAN,
         ctrl_down' \in BOOLEAN, UNCHANGED <<prompt_enabled, line, question>>
  PROVE  ConsoleInv'
  BY DEF ConsoleInv, LineWellFormed, ConsoleTypeOK, line, question

(* A push of a character keeps the console's invariant.                    *)
LEMMA Pushed ==
  ASSUME ConsoleInv, NEW c \in Char, Push(c),
         UNCHANGED <<modifiers, prompt_enabled, line, question>>
  PROVE  ConsoleInv'
  <1>1. RingTypeOK'
    BY TypeStep DEF RingNext, ConsoleInv, LineWellFormed, ConsoleTypeOK
  <1> QED
    BY <1>1, Apart, Zenon DEF ConsoleInv, LineWellFormed, ConsoleTypeOK, modifiers

(* keyboard_handler, whatever key arrives: the line stays within its       *)
(* buffer and a question keeps the old prompt.                             *)
LEMMA KeyHandled == ASSUME ConsoleInv, Keyboard PROVE ConsoleInv'
  <1>1. ASSUME NEW r \in BOOLEAN, Control(r) \/ Shift(r) PROVE ConsoleInv'
    <2>1. RingTypeOK' /\ UNCHANGED <<prompt_enabled, line, question>>
      BY <1>1 DEF Control, Shift, ConsoleInv, LineWellFormed, ConsoleTypeOK, RingTypeOK, ring
    <2>2. shift_down' \in BOOLEAN /\ caps_lock' \in BOOLEAN /\ ctrl_down' \in BOOLEAN
      BY <1>1, Zenon DEF Control, Shift, ConsoleInv, LineWellFormed, ConsoleTypeOK
    <2> QED
      BY <2>1, <2>2, Apart
  <1>2. CASE ControlC
    <2>1. ETX \in Char
      BY ConsoleAssumption
    <2> QED
      BY <1>2, <2>1, Pushed DEF ControlC
  <1>3. CASE CapsLock
    <2>1. RingTypeOK' /\ UNCHANGED <<prompt_enabled, line, question>>
      BY <1>3 DEF CapsLock, ConsoleInv, LineWellFormed, ConsoleTypeOK, RingTypeOK, ring
    <2>2. shift_down' \in BOOLEAN /\ caps_lock' \in BOOLEAN /\ ctrl_down' \in BOOLEAN
      BY <1>3, Zenon DEF CapsLock, ConsoleInv, LineWellFormed, ConsoleTypeOK
    <2> QED
      BY <2>1, <2>2, Apart
  <1>4. ASSUME NEW key \in Keys, Press(key) PROVE ConsoleInv'
    BY <1>4, AsciiType, LineEdited, Pushed DEF Press, Delivered
  <1> QED
    BY <1>1, <1>2, <1>3, <1>4 DEF Keyboard

(* enable_prompt keeps the invariant.                                      *)
LEMMA PromptEnabled == ASSUME ConsoleInv, EnablePrompt PROVE ConsoleInv'
  <1>1. LineSize \in Nat \ {0} /\ NUL \notin Printable
    BY ConsoleAssumption DEF Word
  <1>2. input_pos = 0 /\ cursor_pos = 0
    BY DEF EnablePrompt, Delivered, ConsoleInv, LineWellFormed
  <1> QED
    <2>1. /\ prompt_enabled' = TRUE /\ input_buffer' = EmptyLine /\ input_pos' = 0
          /\ cursor_pos' = 0 /\ UNCHANGED <<ring, modifiers, question>> /\ asking' = FALSE
      BY <1>2 DEF EnablePrompt, Delivered, question, ConsoleInv, LineWellFormed, ConsoleTypeOK
    <2>2. ConsoleTypeOK'
      BY <1>1, <2>1, RingAssumption
      DEF ConsoleInv, LineWellFormed, ConsoleTypeOK, RingTypeOK, ring, modifiers, question,
          EmptyLine
    <2> QED
      BY <2>1, <2>2, Emptied DEF ConsoleInv

(* One turn of terminal_input: the answer stays inside its buffer, and at  *)
(* its end the prompt is what it was.                                      *)
LEMMA Turned == ASSUME ConsoleInv, InputTurn PROVE ConsoleInv' /\ (~asking' => prompt_enabled')
  <1> DEFINE c == kbd_buf[kbd_tail]
             typed == CASE c = "BS" /\ answer # <<>> -> SubSeq(answer, 1, Len(answer) - 1)
                        [] c \in Printable -> Append(answer, c)
                        [] OTHER -> answer
  <1>1. /\ asking /\ old_prompt = TRUE /\ prompt_enabled = FALSE /\ answer \in Seq(Char)
        /\ Len(answer) < AnswerSize - 1 /\ AnswerSize \in Nat \ {0, 1}
        /\ LineSize \in Nat \ {0} /\ NUL \notin Printable
    <2>1. LineSize \in Nat \ {0} /\ NUL \notin Printable /\ AnswerSize \in Nat \ {0, 1}
      BY ConsoleAssumption DEF Word
    <2>2. asking /\ old_prompt = TRUE /\ prompt_enabled = FALSE
      BY DEF InputTurn, ConsoleInv, LineWellFormed, ConsoleTypeOK
    <2> QED
      BY <2>1, <2>2 DEF ConsoleInv, LineWellFormed, ConsoleTypeOK
  <1>2. RingTypeOK'
    BY TypeStep DEF RingNext, InputTurn, ConsoleInv, LineWellFormed, ConsoleTypeOK
  <1>3. c \in Char
    BY DEF ConsoleInv, LineWellFormed, ConsoleTypeOK, RingTypeOK
  <1>4. typed \in Seq(Char) /\ Len(typed) <= AnswerSize - 1
    <2>1. CASE c = "BS" /\ answer # <<>>
      <3>1. typed = SubSeq(answer, 1, Len(answer) - 1)
        BY <2>1 DEF Printable
      <3>2. Len(answer) \in Nat /\ Len(answer) > 0
        BY <1>1, <2>1
      <3> QED
        BY <1>1, <3>1, <3>2
    <2>2. CASE ~(c = "BS" /\ answer # <<>>) /\ c \in Printable
      <3>1. typed = Append(answer, c)
        BY <2>2 DEF Printable
      <3> QED
        BY <1>1, <1>3, <3>1
    <2>3. CASE ~(c = "BS" /\ answer # <<>>) /\ c \notin Printable
      <3>1. typed = answer
        BY <2>3
      <3> QED
        BY <1>1, <3>1
    <2> QED
      BY <2>1, <2>2, <2>3
  <1>5. /\ answer' = typed /\ UNCHANGED modifiers
        /\ IF c = "NL" \/ Len(typed) = AnswerSize - 1
           THEN EndInput
           ELSE UNCHANGED <<asking, old_prompt, prompt_enabled, line>>
    BY Zenon DEF InputTurn
  <1> HIDE DEF typed, c
  <1>6. Len(typed) \in Nat
    BY <1>4
  <1>7. CASE c = "NL" \/ Len(typed) = AnswerSize - 1
    <2>1. /\ asking' = FALSE /\ prompt_enabled' = TRUE /\ old_prompt' = TRUE
          /\ input_buffer' = EmptyLine /\ input_pos' = 0 /\ cursor_pos' = 0
      BY <1>1, <1>5, <1>7, Zenon DEF EndInput, ClearLine
    <2>2. ConsoleTypeOK'
      BY <1>1, <1>2, <1>4, <1>5, <1>6, <2>1, RingAssumption, SMTT(30)
      DEF ConsoleInv, LineWellFormed, ConsoleTypeOK, modifiers, EmptyLine
    <2> QED
      BY <2>1, <2>2, Emptied DEF ConsoleInv
  <1>8. CASE ~(c = "NL" \/ Len(typed) = AnswerSize - 1)
    <2>1. Len(typed) < AnswerSize - 1 /\ UNCHANGED <<asking, old_prompt, prompt_enabled, line>>
      BY <1>1, <1>4, <1>5, <1>6, <1>8, SMTT(30)
    <2>2. ConsoleTypeOK'
      BY <1>1, <1>2, <1>4, <1>5, <1>6, <2>1
      DEF ConsoleInv, LineWellFormed, ConsoleTypeOK, modifiers, line
    <2> QED
      BY <1>1, <1>5, <2>1, <2>2, Zenon DEF ConsoleInv, LineWellFormed, line
  <1> QED
    BY <1>7, <1>8

(* Every step of the console keeps the invariant.                          *)
LEMMA ConsoleStep == ConsoleInv /\ [ConsoleNext]_consoleVars => ConsoleInv'
  <1> SUFFICES ASSUME ConsoleInv, [ConsoleNext]_consoleVars PROVE ConsoleInv'
    BY SMTT(30)
  <1>1. CASE UNCHANGED consoleVars
    BY <1>1, Zenon DEF consoleVars, ConsoleInv, LineWellFormed, ConsoleTypeOK, RingTypeOK, ring,
                modifiers, line, question
  <1> QED
    BY <1>1, KeyHandled, PromptEnabled, Turned DEF ConsoleNext

(* The line being edited is well formed whatever keys are pressed and      *)
(* however commands end: both indices are together and inside the buffer,  *)
(* and zeros follow the line (terminal_handle_input).                      *)
THEOREM LineStaysWellFormed == ConsoleSpec => []LineWellFormed
  <1>1. ConsoleInv => LineWellFormed
    BY DEF ConsoleInv
  <1> QED
    BY <1>1, ConsoleStarts, ConsoleStep, PTL DEF ConsoleSpec

(* A command that asked gives the prompt back when its answer is there     *)
(* (terminal_input).                                                       *)
THEOREM PromptComesBack == ConsoleSpec => PromptBack
  <1>1. ConsoleInv /\ [ConsoleNext]_consoleVars
           => [asking /\ ~asking' => prompt_enabled']_consoleVars
    <2> SUFFICES ASSUME ConsoleInv, ConsoleNext, asking, ~asking' PROVE prompt_enabled'
      OBVIOUS
    <2>1. ~Keyboard /\ ~EnablePrompt
      BY DEF Keyboard, Control, Shift, ControlC, CapsLock, Press, EnablePrompt, Delivered
    <2> QED
      BY <2>1, Turned DEF ConsoleNext
  <1> QED
    BY <1>1, ConsoleStarts, ConsoleStep, PTL DEF ConsoleSpec, PromptBack

(* The ring is still that queue when the keyboard interrupt fills it and   *)
(* terminal_input empties it: nothing else in either touches its indices.  *)
THEOREM ConsoleKeepsQueue == ConsoleSpec => ImplementsQueue
  <1>1. (ConsoleInv => RingTypeOK) /\ (ConsoleInv' => RingTypeOK')
    BY Zenon DEF ConsoleInv, LineWellFormed, ConsoleTypeOK
  <1>2. ASSUME [ConsoleNext]_consoleVars PROVE [RingNext]_ring
    <2>1. CASE UNCHANGED consoleVars
      BY <2>1 DEF consoleVars
    <2>2. CASE Keyboard
      <3>1. ASSUME NEW r \in BOOLEAN, Control(r) \/ Shift(r) PROVE UNCHANGED ring
        BY <3>1 DEF Control, Shift
      <3>2. CASE ControlC
        BY <3>2, ConsoleAssumption DEF ControlC, RingNext
      <3>3. CASE CapsLock
        BY <3>3 DEF CapsLock
      <3>4. ASSUME NEW key \in Keys, Press(key) PROVE [RingNext]_ring
        BY <3>4, AsciiType DEF Press, HandleInput, RingNext
      <3> QED
        BY <2>2, <3>1, <3>2, <3>3, <3>4 DEF Keyboard
    <2>3. CASE EnablePrompt
      BY <2>3 DEF EnablePrompt
    <2>4. CASE InputTurn
      BY <2>4 DEF InputTurn, RingNext
    <2> QED
      BY <1>2, <2>1, <2>2, <2>3, <2>4 DEF ConsoleNext
  <1>3. ConsoleInv /\ ConsoleInv' /\ [ConsoleNext]_consoleVars => [Queue!QueueNext]_Contents
    BY <1>1, <1>2, RingStep
  <1>4. ConsoleInit => Queue!QueueInit
    BY RingStarts DEF ConsoleInit
  <1> QED
    BY <1>3, <1>4, ConsoleStarts, ConsoleStep, PTL
    DEF ConsoleSpec, ImplementsQueue, Queue!QueueSpec

-----------------------------------------------------------------------------
(* IDE. *)

(* Pairs of a sector of the buffer and a sector of the disk.               *)
Moves == SUBSET (Nat \X Nat)

Transfers ==
    [op : {"none", "read", "write", "flush"}, arg : Nat, lba : Nat, user : Nat,
     count : Nat, rem : Nat, s : Nat, moved : Moves,
     ret : {"ok", "invalid", "running", "error"}]

IdeTypeOK ==
    /\ drive \in [type : {"none", "ata", "atapi"}, total : Nat, lba48 : BOOLEAN]
    /\ xfer \in Transfers

(* Only a disk has sectors, and no more of them than its addresses name.   *)
DriveOK ==
    /\ drive.type # "ata" => drive.total = 0
    /\ drive.lba48 \/ drive.total <= LBA28

(* The first n sectors of a request for sector a on, and a set of moves    *)
(* that has no sector among those gone.                                    *)
Sectors(a, n) == {<<k, a + k>> : k \in 0..(n - 1)}
Kept(moved, gone) == \A m \in moved : m[2] \notin gone

(* The sector loop, between two sectors.  A transfer of one chunk is still *)
(* at the sectors its caller named: user_buf and lba advance at the end.   *)
LoopOK ==
    xfer.rem > 0 =>
      /\ xfer.ret = "running" /\ xfer.op \in {"read", "write"} /\ drive.type = "ata"
      /\ xfer.s < Chunk(xfer) /\ xfer.rem <= xfer.count
      /\ xfer.count <= MAX_PER_OP =>
           /\ xfer.rem = xfer.count /\ xfer.lba = xfer.arg /\ xfer.user = 0
           /\ xfer.arg + xfer.count <= drive.total
           /\ xfer.moved = Sectors(xfer.arg, xfer.s)

(* After the loop: a flush is still to come, or the call has returned.     *)
EndOK ==
    /\ xfer.op = "flush" => xfer.rem = 0 /\ xfer.ret = "running"
    /\ xfer.rem = 0 /\ xfer.op # "none" /\ xfer.ret \in {"running", "ok"}
         /\ xfer.count <= MAX_PER_OP =>
           xfer.moved = Sectors(xfer.arg, xfer.count)
    /\ drive.type # "ata" => xfer.moved = {} /\ xfer.rem = 0 /\ xfer.op = "none"

(* No sector of a write that has not failed is lost, and none of a write   *)
(* that returned is left in the cache.                                      *)
CacheOK ==
    /\ xfer.op \in {"write", "flush"} /\ xfer.ret \in {"running", "ok"} =>
         Kept(xfer.moved, lost)
    /\ xfer.op = "write" /\ xfer.ret = "ok" => cached = {}

IdeInv == IdeTypeOK /\ DriveOK /\ LoopOK /\ EndOK /\ CacheOK

(* A sector of the disk is named to the drive by its own number.           *)
LEMMA AddressExact ==
    ASSUME IdeTypeOK, DriveOK, NEW lba \in Nat, lba < drive.total
    PROVE  Addressed(lba) = lba
<1>1. lba < LBA28 => lba % LBA28 = lba
  BY IdeAssumption, SMTT(30)
<1> QED
  BY <1>1, IdeAssumption DEF Addressed, IdeTypeOK, Transfers, DriveOK

(* No sector, and one sector more.                                         *)
LEMMA NoSectors == ASSUME NEW a PROVE Sectors(a, 0) = {}
<1>1. 0..(0 - 1) = {}
  OBVIOUS
<1> QED
  BY <1>1, Zenon DEF Sectors

LEMMA NextSector ==
    ASSUME NEW a \in Nat, NEW n \in Nat
    PROVE  Sectors(a, n) \cup {<<n, a + n>>} = Sectors(a, n + 1)
<1>1. 0..((n + 1) - 1) = (0..(n - 1)) \cup {n}
  OBVIOUS
<1> QED
  BY <1>1, Zenon DEF Sectors

(* Before ide_init no drive is known and nothing is pending.               *)
LEMMA IdeInitInv == ASSUME IdeInit PROVE IdeInv
<1>1. /\ drive = [type |-> "none", total |-> 0, lba48 |-> FALSE] /\ xfer = NoXfer
  BY Zenon DEF IdeInit
<1>2. IdeTypeOK /\ DriveOK
  BY <1>1, IdeAssumption DEF IdeTypeOK, Transfers, DriveOK, NoXfer, Moves
<1>3. ~(xfer.rem > 0) /\ xfer.rem = 0 /\ xfer.op = "none" /\ xfer.moved = {}
  BY <1>1 DEF NoXfer
<1> QED
  BY <1>2, <1>3, Zenon DEF IdeInv, LoopOK, EndOK, CacheOK

(* ide_init with ide_identify, for every kind of drive it may find.        *)
LEMMA IdeInitialise ==
    ASSUME IdeInv, NEW t \in {"ata", "atapi"}, NEW b \in BOOLEAN, ide_init(t, b)
    PROVE  IdeInv'
<1>1. drive.type = "none" /\ xfer' = xfer /\ cached' = cached /\ lost' = lost
  BY Zenon DEF ide_init
<1>2. IdeTypeOK' /\ DriveOK'
  BY <1>1, IdeAssumption DEF ide_init, IdeInv, IdeTypeOK, DriveOK
<1>3. ~(xfer'.rem > 0) /\ xfer'.rem = 0 /\ xfer'.op = "none" /\ xfer'.moved = {}
  BY <1>1 DEF IdeInv, EndOK
<1> QED
  BY <1>2, <1>3, Zenon DEF IdeInv, LoopOK, EndOK, CacheOK

(* A request of ide_read_sectors or ide_write_sectors begins, with its     *)
(* sectors checked against the drive.                                      *)
LEMMA IdeTransfer ==
    ASSUME IdeInv, NEW op \in {"read", "write"}, NEW l \in 0..IdeTotal, NEW c \in IdeCounts,
           ide_transfer(op, l, c)
    PROVE  IdeInv'
<1>1. l \in Nat /\ c \in Nat /\ c > 0
  BY IdeAssumption
<1>2. drive' = drive /\ DriveOK'
  BY DEF ide_transfer, IdeInv, DriveOK
<1>3. CASE l + c > drive.total
  <2>1. xfer' = [NoXfer EXCEPT !.ret = "invalid"]
    BY <1>3, Zenon DEF ide_transfer
  <2>2. IdeTypeOK'
    BY <1>2, <2>1 DEF IdeInv, IdeTypeOK, Transfers, NoXfer, Moves
  <2>3. ~(xfer'.rem > 0) /\ xfer'.rem = 0 /\ xfer'.op = "none" /\ xfer'.moved = {}
    BY <2>1 DEF NoXfer
  <2> QED
    BY <1>2, <2>2, <2>3, Zenon DEF IdeInv, LoopOK, EndOK, CacheOK
<1>4. CASE ~(l + c > drive.total)
  <2>1. xfer' = [op |-> op, arg |-> l, lba |-> l, user |-> 0, count |-> c,
                 rem |-> c, s |-> 0, moved |-> {}, ret |-> "running"]
    BY <1>4, Zenon DEF ide_transfer
  <2>2. drive.type = "ata" /\ l + c <= drive.total
    BY <1>1, <1>4 DEF IdeInv, IdeTypeOK, DriveOK
  <2>3. IdeTypeOK'
    BY <1>1, <1>2, <2>1, Zenon DEF IdeInv, IdeTypeOK, Transfers, Moves
  <2>4. /\ xfer'.op = op /\ xfer'.arg = l /\ xfer'.lba = l /\ xfer'.user = 0 /\ xfer'.count = c
        /\ xfer'.rem = c /\ xfer'.s = 0 /\ xfer'.moved = {} /\ xfer'.ret = "running"
    BY <2>1, Zenon
  <2>5. /\ ~(xfer'.rem = 0) /\ xfer'.s < Chunk(xfer') /\ xfer'.rem <= xfer'.count
        /\ xfer'.arg + xfer'.count <= drive'.total
    BY <1>1, <1>2, <2>2, <2>4, IdeAssumption DEF Chunk
  <2>6. LoopOK'
    BY <1>2, <2>2, <2>4, <2>5, NoSectors, Zenon DEF LoopOK
  <2>7. EndOK' /\ CacheOK'
    BY <1>2, <2>2, <2>4, <2>5, Zenon DEF EndOK, CacheOK, Kept
  <2> QED
    BY <1>2, <2>3, <2>6, <2>7, Zenon DEF IdeInv
<1> QED
  BY <1>3, <1>4

(* A sector that fails ends the request; what was already moved stays in   *)
(* place.                                                                  *)
LEMMA IdeFails == ASSUME IdeInv, ide_sector_failed PROVE IdeInv'
<1>1. /\ xfer.rem > 0 /\ xfer' = [xfer EXCEPT !.rem = 0, !.ret = "error"]
      /\ drive' = drive /\ cached' = cached /\ lost' = lost
  BY Zenon DEF ide_sector_failed
<1>2. IdeTypeOK' /\ DriveOK'
  BY <1>1, Zenon DEF IdeInv, IdeTypeOK, Transfers, DriveOK
<1>3. xfer.op # "flush" /\ drive.type = "ata"
  BY <1>1, Zenon DEF IdeInv, LoopOK
<1>4. ~(xfer'.rem > 0) /\ xfer'.ret = "error" /\ xfer'.op = xfer.op
  BY <1>1 DEF IdeInv, IdeTypeOK, Transfers
<1> QED
  BY <1>1, <1>2, <1>3, <1>4, Zenon DEF IdeInv, LoopOK, EndOK, CacheOK

(* ide_flush_cache brings the written sectors to the medium, or fails and  *)
(* leaves them in the cache.                                               *)
LEMMA IdeFlush == ASSUME IdeInv, NEW ok \in BOOLEAN, ide_flush_cache(ok) PROVE IdeInv'
<1>1. /\ xfer.op = "flush" /\ drive' = drive /\ lost' = lost
      /\ xfer' = [xfer EXCEPT !.op = "write", !.ret = IF ok THEN "ok" ELSE "error"]
      /\ cached' = IF ok THEN {} ELSE cached
  BY Zenon DEF ide_flush_cache
<1>2. IdeTypeOK' /\ DriveOK'
  BY <1>1, Zenon DEF IdeInv, IdeTypeOK, Transfers, DriveOK
<1>3. xfer.rem = 0 /\ xfer.ret = "running" /\ drive.type = "ata"
  BY <1>1, Zenon DEF IdeInv, EndOK
<1>4. /\ xfer'.rem = xfer.rem /\ xfer'.op = "write" /\ xfer'.moved = xfer.moved
      /\ xfer'.arg = xfer.arg /\ xfer'.count = xfer.count
      /\ xfer'.ret = "ok" => cached' = {}
  BY <1>1 DEF IdeInv, IdeTypeOK, Transfers
<1>5. EndOK'
  BY <1>1, <1>3, <1>4, Zenon DEF IdeInv, EndOK
<1>6. CacheOK'
  BY <1>1, <1>3, <1>4, Zenon DEF IdeInv, CacheOK
<1>7. LoopOK'
  BY <1>3, <1>4 DEF LoopOK
<1> QED
  BY <1>2, <1>5, <1>6, <1>7, Zenon DEF IdeInv

(* A power loss empties the cache and ends the request.                    *)
LEMMA IdePower == ASSUME IdeInv, IdePowerLoss PROVE IdeInv'
<1>1. drive' = drive /\ cached' = {} /\ lost' = lost \cup cached /\ DriveOK'
  BY Zenon DEF IdePowerLoss, IdeInv, DriveOK
<1>2. xfer.op = "write" /\ xfer.ret = "ok" => lost' = lost
  BY <1>1, Zenon DEF IdeInv, CacheOK
<1>3. CASE xfer.ret = "running"
  <2>1. xfer' = [NoXfer EXCEPT !.ret = "error"]
    BY <1>3, Zenon DEF IdePowerLoss
  <2>2. /\ ~(xfer'.rem > 0) /\ xfer'.rem = 0 /\ xfer'.op = "none" /\ xfer'.moved = {}
        /\ xfer' \in Transfers
    BY <2>1 DEF NoXfer, Transfers, Moves
  <2> QED
    BY <1>1, <1>2, <2>2, Zenon DEF IdeInv, IdeTypeOK, LoopOK, EndOK, CacheOK
<1>4. CASE xfer.ret # "running"
  <2>1. xfer' = xfer
    BY <1>4, Zenon DEF IdePowerLoss
  <2> QED
    BY <1>1, <1>2, <1>4, <2>1, Zenon DEF IdeInv, IdeTypeOK, LoopOK, EndOK, CacheOK
<1> QED
  BY <1>3, <1>4, Zenon

(* The last sector of the only chunk of a transfer completes it: what has  *)
(* moved is the whole request.                                             *)
LEMMA IdeDone == ASSUME IdeInv, ide_sector_done PROVE IdeInv'
<1> DEFINE d == Dest(xfer)
           a == Addressed(CurLba(xfer))
           c == Chunk(xfer)
           m == xfer.moved \cup {<<d, a>>}
<1>1. /\ xfer.ret = "running" /\ xfer.op \in {"read", "write"} /\ drive.type = "ata"
      /\ xfer.s < c /\ xfer.rem > 0 /\ c \in Nat /\ c <= xfer.rem /\ c > 0
      /\ c = xfer.rem \/ c = MAX_PER_OP
      /\ xfer.rem <= xfer.count
  BY IdeAssumption DEF IdeInv, IdeTypeOK, Transfers, LoopOK, ide_sector_done, Chunk
<1>2. drive' = drive /\ DriveOK'
  BY DEF ide_sector_done, IdeInv, DriveOK
<1>3. d \in Nat /\ CurLba(xfer) \in Nat /\ a \in Nat
  <2>1. d \in Nat /\ CurLba(xfer) \in Nat
    BY <1>1 DEF IdeInv, IdeTypeOK, Transfers, Dest, CurLba
  <2>2. CurLba(xfer) % LBA28 \in Nat
    BY <2>1, IdeAssumption
  <2> QED
    BY <2>1, <2>2 DEF Addressed
<1>4. ASSUME xfer.count <= MAX_PER_OP
      PROVE  m = Sectors(xfer.arg, xfer.s + 1) /\ c = xfer.count
  <2>1. /\ xfer.rem = xfer.count /\ xfer.lba = xfer.arg /\ xfer.user = 0
        /\ xfer.arg + xfer.count <= drive.total
        /\ xfer.moved = Sectors(xfer.arg, xfer.s)
    BY <1>1, <1>4, Zenon DEF IdeInv, LoopOK
  <2>2. d = xfer.s /\ CurLba(xfer) = xfer.arg + xfer.s /\ xfer.arg + xfer.s < drive.total
    BY <1>1, <2>1 DEF Dest, CurLba, IdeInv, IdeTypeOK, Transfers
  <2>3. a = xfer.arg + xfer.s
    BY <1>3, <2>2, AddressExact, Zenon DEF IdeInv
  <2>4. xfer.arg \in Nat /\ xfer.s \in Nat
    BY Zenon DEF IdeInv, IdeTypeOK, Transfers
  <2>5. c = xfer.count
    BY <1>1, <1>4, <2>1, IdeAssumption DEF IdeInv, IdeTypeOK, Transfers
  <2> QED
    BY <2>1, <2>2, <2>3, <2>4, <2>5, NextSector, Zenon
<1>5. m \in Moves
  BY <1>3 DEF IdeInv, IdeTypeOK, Transfers, Moves
<1>6. ASSUME xfer.op = "write" PROVE Kept(m, lost')
  <2>1. lost' = lost \ {a}
    BY <1>6, SMTT(30) DEF ide_sector_done
  <2>2. Kept(xfer.moved, lost)
    BY <1>1, <1>6, Zenon DEF IdeInv, CacheOK
  <2>3. <<d, a>>[2] = a
    BY Zenon
  <2> QED
    BY <2>1, <2>2, <2>3, Zenon DEF Kept
<1> HIDE DEF d, a, c, m
<1>7. CASE xfer.s + 1 < c
  <2>1. xfer' = [xfer EXCEPT !.moved = m, !.s = xfer.s + 1]
    <3> DEFINE y == [xfer EXCEPT !.moved = m, !.s = xfer.s + 1]
    <3>1. y.s = xfer.s + 1 /\ y.rem = xfer.rem
      BY DEF IdeInv, IdeTypeOK, Transfers
    <3>2. AfterSector(xfer) = y
      BY <1>7, <3>1 DEF AfterSector, d, a, c, m
    <3> QED
      BY <1>1, <3>1, <3>2, Zenon DEF ide_sector_done
  <2>2. IdeTypeOK'
    <3>1. xfer.s + 1 \in Nat /\ xfer \in Transfers
      BY DEF IdeInv, IdeTypeOK, Transfers
    <3>2. [xfer EXCEPT !.moved = m, !.s = xfer.s + 1] \in Transfers
      BY <1>5, <3>1, Zenon DEF Transfers
    <3> QED
      BY <1>2, <2>1, <3>2 DEF IdeInv, IdeTypeOK, Transfers
  <2>3. /\ xfer'.rem = xfer.rem /\ xfer'.count = xfer.count /\ xfer'.op = xfer.op
        /\ xfer'.ret = xfer.ret /\ xfer'.s = xfer.s + 1 /\ xfer'.lba = xfer.lba
        /\ xfer'.arg = xfer.arg /\ xfer'.user = xfer.user /\ xfer'.moved = m
    BY <2>1 DEF IdeInv, IdeTypeOK, Transfers
  <2>4. Chunk(xfer)' = c
    BY <2>3, Zenon DEF Chunk, c
  <2>5. ~(xfer'.rem = 0)
    BY <1>1, <2>3
  <2>6. LoopOK'
    BY <1>1, <1>2, <1>4, <1>7, <2>3, <2>4, Zenon DEF IdeInv, LoopOK
  <2>7. EndOK'
    BY <1>1, <1>2, <2>3, <2>5, Zenon DEF EndOK
  <2>8. CacheOK'
    BY <1>1, <1>6, <2>3, Zenon DEF CacheOK
  <2> QED
    BY <1>2, <2>2, <2>6, <2>7, <2>8 DEF IdeInv
<1>8. CASE ~(xfer.s + 1 < c)
  <2> DEFINE y == [xfer EXCEPT !.moved = m, !.s = 0, !.user = xfer.user + c,
                               !.lba = xfer.lba + c, !.rem = xfer.rem - c]
  <2>1. AfterSector(xfer) = y
    <3> DEFINE z == [xfer EXCEPT !.moved = m, !.s = xfer.s + 1]
    <3>1. z.s = xfer.s + 1 /\ z.user = xfer.user /\ z.lba = xfer.lba /\ z.rem = xfer.rem
      BY DEF IdeInv, IdeTypeOK, Transfers
    <3>2. AfterSector(xfer) =
            [z EXCEPT !.s = 0, !.user = z.user + c, !.lba = z.lba + c, !.rem = z.rem - c]
      BY <1>8, <3>1 DEF AfterSector, d, a, c, m
    <3> QED
      BY <3>1, <3>2, Zenon DEF IdeInv, IdeTypeOK, Transfers
  <2>2. /\ y.op = xfer.op /\ y.rem = xfer.rem - c /\ y.count = xfer.count /\ y.s = 0
        /\ y.ret = "running" /\ y.moved = m /\ y.arg = xfer.arg
        /\ y \in Transfers
    <3>1. /\ xfer.user + c \in Nat /\ xfer.lba + c \in Nat /\ xfer.rem - c \in Nat
          /\ xfer \in Transfers
      BY <1>1 DEF IdeInv, IdeTypeOK, Transfers
    <3> QED
      BY <1>1, <1>5, <3>1, Zenon DEF Transfers
  <2>3. xfer.s + 1 = c
    BY <1>1, <1>8 DEF IdeInv, IdeTypeOK, Transfers
  <2>4. xfer' = IF y.rem > 0 THEN y
                ELSE IF y.op = "write" THEN [y EXCEPT !.op = "flush"]
                ELSE [y EXCEPT !.ret = "ok"]
    BY <2>1 DEF ide_sector_done
  <2> HIDE DEF y
  <2>5. CASE y.rem > 0
    <3>0. xfer.rem \in Nat /\ xfer.count \in Nat /\ y.rem \in Nat /\ xfer' = y
      BY <2>2, <2>4, <2>5, Zenon DEF IdeInv, IdeTypeOK, Transfers
    <3>1. xfer' = y /\ xfer.count > MAX_PER_OP
      <4>1. xfer.count <= MAX_PER_OP => c = xfer.count
        BY <1>4, Zenon
      <4>2. xfer.rem - c > 0
        BY <2>2, <2>5, Zenon
      <4> QED
        BY <1>1, <3>0, <4>1, <4>2, IdeAssumption
    <3>2. IdeTypeOK' /\ Chunk(xfer') > 0 /\ y.rem <= y.count
      <4>1. IdeTypeOK'
        BY <1>2, <2>2, <3>0, Zenon DEF IdeInv, IdeTypeOK
      <4>2. Chunk(y) > 0 /\ y.rem <= xfer.count
        BY <1>1, <2>2, <2>5, <3>0, IdeAssumption DEF Chunk
      <4> QED
        BY <2>2, <3>0, <4>1, <4>2, Zenon
    <3>3. /\ xfer'.rem > 0 /\ xfer'.op = xfer.op /\ xfer'.ret = "running" /\ xfer'.s = 0
          /\ xfer'.moved = m /\ xfer'.count = xfer.count /\ xfer'.rem <= xfer'.count
      BY <2>2, <2>5, <3>1, <3>2, Zenon
    <3>4. ~(xfer'.count <= MAX_PER_OP) /\ ~(xfer'.rem = 0) /\ xfer'.s < Chunk(xfer')
      <4>1. ~(xfer.count <= MAX_PER_OP) /\ ~(y.rem = 0) /\ 0 < Chunk(xfer')
        BY <2>5, <3>0, <3>1, <3>2, IdeAssumption
      <4> QED
        BY <3>0, <3>3, <4>1, Zenon
    <3>5. LoopOK'
      BY <1>1, <1>2, <3>3, <3>4, Zenon DEF LoopOK
    <3>6. EndOK'
      BY <1>1, <1>2, <3>3, <3>4, Zenon DEF EndOK
    <3>7. CacheOK'
      BY <1>1, <1>6, <3>3, Zenon DEF CacheOK
    <3> QED
      BY <1>2, <3>2, <3>5, <3>6, <3>7, Zenon DEF IdeInv
  <2>6. CASE ~(y.rem > 0)
    <3>1. /\ xfer'.rem = 0 /\ xfer'.moved = m /\ xfer'.arg = xfer.arg
          /\ xfer'.count = xfer.count /\ IdeTypeOK'
          /\ \/ xfer.op = "write" /\ xfer'.op = "flush" /\ xfer'.ret = "running"
             \/ xfer.op = "read" /\ xfer'.op = "read" /\ xfer'.ret = "ok"
      BY <1>1, <1>2, <2>2, <2>4, <2>6 DEF IdeInv, IdeTypeOK, Transfers
    <3>2. ~(xfer'.rem > 0)
      BY <3>1
    <3>3. EndOK'
      BY <1>1, <1>2, <1>4, <2>3, <3>1, Zenon DEF EndOK
    <3>4. CacheOK' /\ LoopOK'
      BY <1>6, <3>1, <3>2, Zenon DEF CacheOK, LoopOK
    <3> QED
      BY <1>2, <3>1, <3>3, <3>4, Zenon DEF IdeInv
  <2> QED
    BY <2>5, <2>6, Zenon
<1> QED
  BY <1>7, <1>8

(* IDE: every reachable state satisfies the inductive invariant.           *)
THEOREM IdeInvariance == IdeSpec => []IdeInv
<1>1. IdeInv /\ [IdeNext]_ideVars => IdeInv'
  <2> SUFFICES ASSUME IdeInv, [IdeNext]_ideVars PROVE IdeInv'
    BY Zenon
  <2>1. CASE UNCHANGED ideVars
    BY <2>1, Zenon DEF ideVars, IdeInv, IdeTypeOK, DriveOK, LoopOK, EndOK, CacheOK, Chunk
  <2> QED
    BY <2>1, IdeInitialise, IdeTransfer, IdeDone, IdeFails, IdeFlush, IdePower, Zenon DEF IdeNext
<1> QED
  BY <1>1, IdeInitInv, PTL DEF IdeSpec

(* IDE: a transfer of one chunk that returned OK moved exactly the sectors *)
(* it was asked for, a write that returned OK is on the platter, and an    *)
(* ATAPI drive takes none, whatever the chunk, the disk and the requests   *)
(* (ide_read_sectors, ide_write_sectors, ide_flush_cache).                 *)
THEOREM IdeIsSound == IdeSpec => []IdeSound
<1>1. IdeInv => IdeSound
  <2> SUFFICES ASSUME IdeInv PROVE IdeSound
    BY SMTT(30)
  <2>1. IdeTransferExact
    <3>1. xfer.rem = 0 \/ xfer.rem > 0
      BY DEF IdeInv, IdeTypeOK, Transfers
    <3>2. CASE xfer.rem > 0
      BY <3>2, Zenon DEF IdeInv, LoopOK, IdeTransferExact
    <3>3. CASE xfer.rem = 0
      BY <3>3, Zenon DEF IdeInv, EndOK, Sectors, IdeTransferExact
    <3> QED
      BY <3>1, <3>2, <3>3
  <2>2. IdeWriteDurable
    BY Zenon DEF IdeInv, CacheOK, Kept, IdeWriteDurable
  <2>3. AtapiTakesNoTransfer
    BY Zenon DEF IdeInv, EndOK, AtapiTakesNoTransfer
  <2> QED
    BY <2>1, <2>2, <2>3 DEF IdeSound
<1> QED
  BY <1>1, IdeInvariance, PTL

-----------------------------------------------------------------------------
(* AHCI. *)

(* What the controller may hold: a DMA buffer for some of the slots.       *)
Commands == UNION {[S -> SlotIds] : S \in SUBSET SlotIds}

Ports ==
    [pc : {"absent", "identify", "idle", "access", "wait"}, lock : BOOLEAN, sem : BOOLEAN,
     held : SUBSET SlotIds, total : Nat, tick : Nat, until : Nat]

Controllers ==
    [ci : Commands, on : BOOLEAN, tfes : BOOLEAN, hung : BOOLEAN, strayed : BOOLEAN]

Requests ==
    [op : {"none", "read", "write"}, ctx : {"irq", "kmain"}, lba : Nat, count : Nat,
     off : Nat, rem : Nat, n : Nat, slot : SlotIds \cup {NoSlot}, buf : SlotIds \cup {NoSlot},
     moved : Moves, ret : {-1, 0, 1}]

AhciTypeOK ==
    /\ port \in Ports
    /\ hba \in Controllers
    /\ req \in Requests

InRequest == port.pc \in {"access", "wait"}

(* The locks: the port lock for one command, one buffer for one request.   *)
LocksOK ==
    /\ ~port.sem
    /\ port.lock <=> port.pc = "wait"
    /\ port.held = IF InRequest THEN {req.buf} ELSE {}
    /\ InRequest => req.buf \in SlotIds

(* The controller has at most the command the driver is waiting for, and   *)
(* that command names the buffer of the request.                           *)
CommandOK ==
    /\ port.pc \notin {"identify", "wait"} => Busy = {}
    /\ port.pc = "wait" => \A s \in Busy : s = req.slot /\ hba.ci[s] = req.buf
    /\ ~hba.strayed

(* What is left of a request stays inside the caller's buffer.             *)
ProgressOK ==
    /\ InRequest => req.rem > 0 /\ req.off + req.rem <= req.count
    /\ port.pc = "wait" => req.n \in 1..req.rem

AhciInv == AhciTypeOK /\ LocksOK /\ CommandOK /\ ProgressOK /\ AhciMovesInPlace

(* A nonempty set of natural numbers has a least member.                   *)
LEMMA MinMember ==
  ASSUME NEW S \in SUBSET Nat, S # {} PROVE Min(S) \in S /\ \A y \in S : Min(S) <= y
<1>1. PICK x \in S : \A y \in S : <<y, x>> \notin OpToRel(<, Nat)
  BY NatLessThanWellFounded, WFMin, Zenon
<1>2. ASSUME NEW y \in S PROVE x <= y
  <2>1. ~ (y < x)
    BY <1>1, Zenon DEF OpToRel
  <2> QED
    BY <2>1
<1> QED
  BY <1>2, Zenon DEF Min

(* The rounded-up quotient of a sector count is at least 1 and at most the *)
(* count: a request never runs past the buffer of its caller.              *)
LEMMA RemainingBound ==
    ASSUME NEW c \in Nat \ {0} PROVE RemainingSectors(c) \in 1..c
<1> DEFINE S == SECTOR_SIZE
           q == (c + S - 1) \div S
<1>1. S \in Nat \ {0} /\ q \in Nat
  BY AhciAssumption
<1>2. S * q <= c + S - 1 /\ c + S - 1 < S * q + S
  BY <1>1
<1> HIDE DEF S, q
<1>3. q >= 1
  <2>1. q = 0 => S * q = 0
    BY <1>1
  <2> QED
    BY <1>1, <1>2, <2>1
<1>4. q <= c
  <2>1. q > c => S * q >= S * (c + 1)
    BY <1>1
  <2>2. S * (c + 1) >= c + S
    BY <1>1
  <2>3. S * q \in Nat /\ S * (c + 1) \in Nat
    BY <1>1
  <2> QED
    BY <1>1, <1>2, <2>1, <2>2, <2>3
<1> QED
  BY <1>1, <1>3, <1>4 DEF RemainingSectors, S, q

(* Before ahci_init no port is ready and no command is outstanding.        *)
LEMMA AhciInitInv == AhciInit => AhciInv
<1> SUFFICES ASSUME AhciInit PROVE AhciInv
  OBVIOUS
<1>1. <<>> \in Commands /\ DOMAIN <<>> = {}
  <2>1. <<>> \in [{} -> SlotIds]
    OBVIOUS
  <2> QED
    BY <2>1 DEF Commands
<1>2. {} \in Moves
  BY DEF Moves
<1>3. AhciTypeOK
  BY <1>1, <1>2, Zenon DEF AhciInit, AhciTypeOK, Controllers, Ports, Requests, IdleReq
<1> QED
  BY <1>1, <1>3, Zenon DEF AhciInit, AhciInv, LocksOK, CommandOK, ProgressOK, AhciMovesInPlace,
                    InRequest, Busy, IdleReq

(* Stopping the port leaves the controller without commands.               *)
LEMMA Stopped ==
    ASSUME AhciTypeOK, NEW h, h = ahci_stop_cmd(hba)
    PROVE  /\ h \in Controllers
           /\ DOMAIN h.ci = {} /\ h.strayed = hba.strayed
<1>1. <<>> \in Commands /\ DOMAIN <<>> = {}
  <2>1. <<>> \in [{} -> SlotIds]
    OBVIOUS
  <2> QED
    BY <2>1, Zenon DEF Commands
<1> QED
  BY <1>1, Zenon DEF AhciTypeOK, Controllers, ahci_stop_cmd

(* Issuing a command adds one slot to those in the controller.             *)
LEMMA Started ==
    ASSUME AhciTypeOK, NEW s \in SlotIds, NEW b \in SlotIds, NEW h, h = ahci_start_cmd(hba, s, b)
    PROVE  /\ h \in Controllers
           /\ DOMAIN h.ci = Busy \cup {s} /\ h.ci[s] = b /\ h.strayed = hba.strayed
<1>1. PICK S \in SUBSET SlotIds : hba.ci \in [S -> SlotIds]
  BY Zenon DEF AhciTypeOK, Controllers, Commands
<1>2. WithCommand(hba.ci, s, b) \in [S \cup {s} -> SlotIds]
  <2>1. DOMAIN hba.ci = S /\ \A x \in S : hba.ci[x] \in SlotIds
    BY <1>1, Zenon
  <2>2. \A x \in S \cup {s} : (IF x = s THEN b ELSE hba.ci[x]) \in SlotIds
    BY <2>1, Zenon
  <2> QED
    BY <2>1, <2>2, Zenon DEF WithCommand
<1>3. WithCommand(hba.ci, s, b) \in Commands
  BY <1>2, Zenon DEF Commands
<1>4. h.ci = WithCommand(hba.ci, s, b) /\ h.strayed = hba.strayed
  BY DEF AhciTypeOK, Controllers, ahci_start_cmd
<1> QED
  BY <1>3, <1>4, Zenon DEF AhciTypeOK, Controllers, ahci_start_cmd, WithCommand, Busy

(* ahci_port_init, which issues IDENTIFY as the first command.             *)
LEMMA PortInit ==
    ASSUME AhciInv, NEW g \in BOOLEAN, NEW t \in 0..(WRAP - 1), ahci_port_init(g, t)
    PROVE  AhciInv'
<1> DEFINE h == ahci_start_cmd(hba, 0, 0)
<1>1. 0 \in SlotIds /\ t \in Nat /\ t + COMMAND_MS \in Nat
  BY AhciAssumption, SMTT(30) DEF SlotIds
<1>2. /\ h \in Controllers
      /\ h.strayed = hba.strayed
  BY <1>1, Started DEF AhciInv
<1> HIDE DEF h
<1>3. /\ port.pc = "absent" /\ req' = req /\ hba' = [h EXCEPT !.hung = g]
      /\ port' = [port EXCEPT !.pc = "identify", !.tick = t, !.until = t + COMMAND_MS]
  BY DEF ahci_port_init, h
<1>4. /\ port'.pc = "identify" /\ port'.lock = port.lock /\ port'.sem = port.sem
      /\ port'.held = port.held /\ hba'.strayed = hba.strayed
  BY <1>2, <1>3 DEF AhciInv, AhciTypeOK, Controllers, Ports
<1>5. AhciTypeOK'
  BY <1>1, <1>2, <1>3, Zenon DEF AhciInv, AhciTypeOK, Controllers, Ports
<1> QED
  BY <1>3, <1>4, <1>5 DEF AhciInv, LocksOK, CommandOK, ProgressOK,
                            AhciMovesInPlace, InRequest

(* ahci_port_identify, answered or not: the port is stopped and idle.      *)
LEMMA PortIdentify == ASSUME AhciInv, ahci_port_identify PROVE AhciInv'
<1>1. /\ hba' \in Controllers
      /\ Busy' = {} /\ hba'.strayed = hba.strayed
  BY Stopped DEF AhciInv, ahci_port_identify, Busy
<1>2. /\ port.pc = "identify" /\ req' = req
      /\ port'.pc = "idle" /\ port'.lock = port.lock /\ port'.sem = port.sem
      /\ port'.held = port.held /\ port' \in Ports
  BY AhciAssumption, Zenon DEF AhciInv, AhciTypeOK, Ports, ahci_port_identify
<1> QED
  BY <1>1, <1>2, Zenon DEF AhciInv, AhciTypeOK, LocksOK, CommandOK, ProgressOK,
                            AhciMovesInPlace, InRequest

(* ahci_port_read and ahci_port_write up to their loop: nothing has moved  *)
(* yet.                                                                    *)
LEMMA PortRequest ==
    ASSUME AhciInv, NEW op \in {"read", "write"}, NEW ctx \in {"irq", "kmain"}, NEW l \in {0, 1},
           NEW c \in AhciCounts, ahci_port_request(op, ctx, l, c)
    PROVE  AhciInv'
<1>1. port.pc = "idle" /\ hba' = hba
  BY DEF ahci_port_request
<1>2. {} \in Moves
  BY DEF Moves
<1>3. CASE l + c > port.total \/ SlotIds \ port.held = {}
  <2>1. req' = [IdleReq EXCEPT !.ret = -1] /\ port' = port
    BY <1>3 DEF ahci_port_request
  <2>2. req' \in Requests /\ req'.moved = {}
    BY <1>2, <2>1 DEF IdleReq, Requests
  <2> QED
    BY <1>1, <2>1, <2>2, Zenon
    DEF AhciInv, AhciTypeOK, LocksOK, CommandOK, ProgressOK,
                            AhciMovesInPlace, InRequest, Busy
<1>4. CASE ~(l + c > port.total \/ SlotIds \ port.held = {})
  <2> DEFINE b == Min(SlotIds \ port.held)
  <2>1. b \in SlotIds
    <3>1. SlotIds \ port.held \in SUBSET Nat
      BY DEF SlotIds
    <3> QED
      BY <1>4, <3>1, MinMember, Zenon
  <2> HIDE DEF b
  <2>2. /\ port' = [port EXCEPT !.pc = "access", !.held = port.held \cup {b},
                                !.until = port.tick + READY_MS]
        /\ req' = [op |-> op, ctx |-> ctx, lba |-> l, count |-> c, off |-> 0,
                   rem |-> RemainingSectors(c), n |-> 0, slot |-> NoSlot,
                   buf |-> b, moved |-> {}, ret |-> 1]
    BY <1>4 DEF ahci_port_request, b
  <2>3. RemainingSectors(c) \in 1..c /\ c \in Nat
    BY AhciAssumption, RemainingBound
  <2>4. req' \in Requests
    BY <1>2, <2>1, <2>2, <2>3 DEF Requests
  <2>5. port' \in Ports /\ port'.held = {b} /\ port'.lock = FALSE /\ port'.sem = FALSE
        /\ port'.pc = "access"
    <3>1. port.held = {} /\ port.lock = FALSE /\ port.sem = FALSE /\ port.tick \in Nat
      BY <1>1, Zenon DEF AhciInv, AhciTypeOK, Ports, LocksOK, InRequest
    <3>2. port.tick + READY_MS \in Nat
      BY <3>1, AhciAssumption
    <3> QED
      BY <2>1, <2>2, <3>1, <3>2, Zenon DEF AhciInv, AhciTypeOK, Ports
  <2>6. /\ req'.rem > 0 /\ req'.off + req'.rem <= req'.count
        /\ req'.buf = b /\ req'.moved = {}
    BY <2>2, <2>3
  <2> QED
    BY <1>1, <2>1, <2>4, <2>5, <2>6, Zenon
    DEF AhciInv, AhciTypeOK, LocksOK, CommandOK, ProgressOK,
                            AhciMovesInPlace, InRequest, Busy
<1> QED
  BY <1>3, <1>4, Zenon

(* A failed request gives its buffer back, and keeps what it has moved.    *)
LEMMA Failed ==
    ASSUME AhciInv, InRequest, NEW p \in Ports, ~p.lock, p.held = port.held, p.sem = port.sem,
           Fail(p),
           hba' \in Controllers,
           Busy' = {}, hba'.strayed = hba.strayed
    PROVE  AhciInv'
<1>1. /\ port'.pc = "idle" /\ port'.lock = FALSE /\ port'.sem = FALSE /\ port'.held = {}
      /\ port' \in Ports
  <2>1. p.held \ {req.buf} = {} /\ p.lock = FALSE
    BY Zenon DEF AhciInv, LocksOK, Ports
  <2> QED
    BY <2>1, Zenon DEF Fail, ahci_release_buffer, Ports
<1>2. /\ req' \in Requests /\ req'.moved = req.moved /\ req'.lba = req.lba
      /\ req'.count = req.count
  BY DEF Fail, AhciInv, AhciTypeOK, Requests
<1> QED
  BY <1>1, <1>2, ZenonT(60) DEF AhciInv, AhciTypeOK, LocksOK, CommandOK, ProgressOK,
                            AhciMovesInPlace, InRequest

(* ahci_port_access issues the next command of a request, or refuses it.   *)
LEMMA PortAccess == ASSUME AhciInv, NEW r \in BOOLEAN, ahci_port_access(r) PROVE AhciInv'
<1> DEFINE s == ahci_find_cmd_slot
<1>1. port.pc = "access" /\ ~port.lock /\ InRequest /\ Busy = {}
  BY DEF ahci_port_access, InRequest, AhciInv, CommandOK
<1>2. CASE s = NoSlot \/ ~r
  <2>1. Fail(port) /\ hba' = hba
    BY <1>2 DEF ahci_port_access
  <2> QED
    BY <1>1, <2>1, Failed, Zenon DEF AhciInv, AhciTypeOK, Busy
<1>3. CASE s # NoSlot /\ r
  <2>1. s \in SlotIds
    <3>1. SlotIds \ Busy \in SUBSET Nat
      BY DEF SlotIds
    <3> QED
      BY <1>3, <3>1, MinMember, Zenon DEF ahci_find_cmd_slot
  <2> DEFINE k == Min({CHUNK, req.rem})
  <2>2. k \in 1..req.rem
    <3>1. CHUNK \in Nat \ {0} /\ req.rem \in Nat \ {0}
      <4>1. req.rem > 0 /\ req.rem \in Nat
        BY <1>1, Zenon DEF AhciInv, AhciTypeOK, Requests, ProgressOK
      <4> QED
        BY <4>1, AhciAssumption
    <3> QED
      BY <3>1, MinMember
  <2> HIDE DEF k
  <2>3. /\ port' = [ahci_port_lock(port) EXCEPT !.pc = "wait", !.until = port.tick + COMMAND_MS]
        /\ req' = [req EXCEPT !.slot = s, !.n = k]
        /\ hba' = ahci_start_cmd(hba, s, req.buf)
    BY <1>3 DEF ahci_port_access, k
  <2> HIDE DEF s
  <2>4. req.buf \in SlotIds /\ port.tick + COMMAND_MS \in Nat /\ k \in Nat
    <3>1. req.buf \in SlotIds /\ port.tick \in Nat /\ req.rem \in Nat
      BY <1>1, Zenon DEF AhciInv, AhciTypeOK, Ports, Requests, LocksOK
    <3> QED
      BY <2>2, <3>1, AhciAssumption
  <2>5. /\ hba' \in Controllers
        /\ Busy' = {s} /\ hba'.ci[s] = req.buf /\ hba'.strayed = hba.strayed
    BY <1>1, <2>1, <2>3, <2>4, Started DEF AhciInv, Busy
  <2>6. /\ port' \in Ports /\ port'.pc = "wait" /\ port'.lock = TRUE /\ port'.sem = port.sem
        /\ port'.held = port.held
    BY <2>3, <2>4, Zenon DEF AhciInv, AhciTypeOK, Ports, ahci_port_lock
  <2>7. /\ req' \in Requests /\ req'.slot = s /\ req'.n = k /\ req'.buf = req.buf
        /\ req'.rem = req.rem /\ req'.off = req.off /\ req'.count = req.count
        /\ req'.lba = req.lba /\ req'.moved = req.moved
    BY <2>1, <2>3, <2>4, Zenon DEF AhciInv, AhciTypeOK, Requests
  <2> QED
    BY <1>1, <2>2, <2>5, <2>6, <2>7, Zenon
    DEF AhciInv, AhciTypeOK, LocksOK, CommandOK, ProgressOK,
                            AhciMovesInPlace, InRequest
<1> QED
  BY <1>2, <1>3

(* A command that fails or times out ends the request.                     *)
LEMMA CommandFails == ASSUME AhciInv, ahci_command_failed PROVE AhciInv'
<1> DEFINE p == [port EXCEPT !.lock = FALSE]
<1>1. p \in Ports /\ ~p.lock /\ p.held = port.held /\ p.sem = port.sem
  BY Zenon DEF AhciInv, AhciTypeOK, Ports
<1>2. /\ hba' \in Controllers
      /\ Busy' = {} /\ hba'.strayed = hba.strayed
  BY Stopped DEF AhciInv, ahci_command_failed, Busy
<1> QED
  BY <1>1, <1>2, Failed, Zenon DEF ahci_command_failed, InRequest

(* A command that is done in time moves its sectors to their own places.   *)
LEMMA CommandDone == ASSUME AhciInv, ahci_command_done PROVE AhciInv'
<1>1. port.pc = "wait" /\ InRequest
  BY DEF ahci_command_done, InRequest
<1>2. /\ req \in Requests /\ req.rem \in Nat /\ req.off \in Nat /\ req.count \in Nat
      /\ req.lba \in Nat /\ req.n \in 1..req.rem /\ req.off + req.rem <= req.count
      /\ req.moved \in Moves
  BY <1>1 DEF AhciInv, AhciTypeOK, Requests, ProgressOK
<1>3. /\ hba' \in Controllers
      /\ Busy' = {} /\ hba'.strayed = hba.strayed
  BY Stopped, SMTT(30) DEF AhciInv, ahci_command_done, Busy
<1> DEFINE m == req.moved \cup Copied
<1>4. m \in Moves /\ \A x \in m : x[2] = req.lba + x[1] /\ x[1] < req.count
  <2>1. \A x \in Copied : x \in Nat \X Nat /\ x[2] = req.lba + x[1] /\ x[1] < req.count
    <3> TAKE x \in Copied
    <3>1. PICK i \in 0..(req.n - 1) : x = <<req.off + i, req.lba + req.off + i>>
      BY Zenon DEF Copied
    <3>2. x[1] = req.off + i /\ x[2] = req.lba + req.off + i
      BY <3>1, Zenon
    <3>3. /\ req.off + i \in Nat /\ req.lba + req.off + i \in Nat
          /\ req.lba + req.off + i = req.lba + (req.off + i) /\ req.off + i < req.count
      BY <1>2
    <3> QED
      BY <3>1, <3>2, <3>3, Zenon
  <2> QED
    BY <1>2, <2>1, Zenon DEF Moves, AhciInv, AhciMovesInPlace
<1> HIDE DEF m
<1>5. req' = [req EXCEPT !.moved = m, !.off = req.off + req.n, !.rem = req.rem - req.n,
                         !.ret = IF req.rem = req.n THEN 0 ELSE 1]
  BY DEF ahci_command_done, m
<1>6. /\ req.off + req.n \in Nat /\ req.rem - req.n \in Nat
      /\ (req.off + req.n) + (req.rem - req.n) <= req.count
  BY <1>2
<1>7. /\ req' \in Requests /\ req'.moved = m /\ req'.lba = req.lba /\ req'.count = req.count
      /\ req'.off = req.off + req.n /\ req'.rem = req.rem - req.n /\ req'.buf = req.buf
  BY <1>2, <1>4, <1>5, <1>6, Zenon DEF Requests
<1>8. port.sem = FALSE /\ port.held = {req.buf} /\ req.buf \in SlotIds
  BY <1>1, Zenon DEF AhciInv, AhciTypeOK, Ports, LocksOK
<1>9. port'.sem = FALSE /\ port'.lock = FALSE /\ port' \in Ports
      /\ \/ port'.pc = "idle" /\ port'.held = {}
         \/ port'.pc = "access" /\ port'.held = {req.buf} /\ req.rem # req.n
  <2> DEFINE p == [port EXCEPT !.lock = FALSE]
  <2>1. p \in Ports /\ p.lock = FALSE /\ p.sem = FALSE /\ p.held = {req.buf}
    BY <1>8, Zenon DEF AhciInv, AhciTypeOK, Ports
  <2>2. port' = IF req.rem = req.n THEN [ahci_release_buffer(p, req.buf) EXCEPT !.pc = "idle"]
                ELSE [p EXCEPT !.pc = "access", !.until = port.tick + READY_MS]
    BY DEF ahci_command_done
  <2>3. port.tick + READY_MS \in Nat /\ {req.buf} \ {req.buf} = {}
    BY AhciAssumption DEF AhciInv, AhciTypeOK, Ports
  <2> HIDE DEF p
  <2>4. CASE req.rem = req.n
    BY <2>1, <2>2, <2>3, <2>4, Zenon DEF ahci_release_buffer, Ports
  <2>5. CASE req.rem # req.n
    BY <2>1, <2>2, <2>3, <2>5, Zenon DEF Ports
  <2> QED
    BY <2>4, <2>5, Zenon
<1>10. AhciTypeOK' /\ LocksOK' /\ AhciMovesInPlace'
  BY <1>3, <1>4, <1>7, <1>8, <1>9, ZenonT(60) DEF AhciTypeOK, LocksOK, AhciMovesInPlace, InRequest
<1>11. CommandOK'
  BY <1>3, <1>9, Zenon DEF AhciInv, CommandOK
<1>12. ProgressOK'
  <2>1. port'.pc # "wait" /\ (port'.pc = "access" => req.rem # req.n)
    BY <1>9, Zenon
  <2>2. req.rem # req.n => req.rem - req.n > 0
    BY <1>2
  <2>3. port'.pc = "access" => req'.rem > 0 /\ req'.off + req'.rem <= req'.count
    BY <1>6, <1>7, <2>1, <2>2, Zenon
  <2> QED
    BY <2>1, <2>3, Zenon DEF ProgressOK, InRequest
<1> QED
  BY <1>10, <1>11, <1>12 DEF AhciInv

(* The controller ends a command only for the call that waits for it.      *)
LEMMA Completes == ASSUME AhciInv, NEW ok \in BOOLEAN, HbaCompletes(ok) PROVE AhciInv'
<1>1. PICK s \in Busy :
        hba' = [hba EXCEPT !.ci = Without(hba.ci, s), !.tfes = ~ok,
                  !.strayed = hba.strayed \/ (~(port.pc = "identify") /\
                                 ~(port.pc = "wait" /\ req.slot = s /\ req.buf = hba.ci[s]))]
  BY Zenon DEF HbaCompletes
<1>2. port' = port /\ req' = req
  BY SMTT(30) DEF HbaCompletes
<1>3. hba.strayed = FALSE /\ (port.pc = "identify" \/ (port.pc = "wait" /\ req.slot = s
                                                        /\ req.buf = hba.ci[s]))
  BY Zenon DEF AhciInv, AhciTypeOK, Controllers, CommandOK
<1>4. PICK S \in SUBSET SlotIds : hba.ci \in [S -> SlotIds]
  BY Zenon DEF AhciInv, AhciTypeOK, Controllers, Commands
<1>5. Without(hba.ci, s) \in [S \ {s} -> SlotIds]
  <2>1. DOMAIN hba.ci = S /\ \A x \in S \ {s} : hba.ci[x] \in SlotIds
    BY <1>4, Zenon
  <2> QED
    BY <2>1, Zenon DEF Without
<1>6. Without(hba.ci, s) \in Commands
  BY <1>5, Zenon DEF Commands
<1>7. hba'.ci = Without(hba.ci, s) /\ hba'.strayed = FALSE /\ hba' \in Controllers
  BY <1>1, <1>3, <1>6, Zenon DEF AhciInv, AhciTypeOK, Controllers
<1>8. Busy' \subseteq Busy /\ \A x \in Busy' : hba'.ci[x] = hba.ci[x]
  BY <1>4, <1>5, <1>7, Zenon DEF Busy, Without
<1> QED
  BY <1>2, <1>7, <1>8, Zenon
  DEF AhciInv, AhciTypeOK, LocksOK, CommandOK, ProgressOK,
                            AhciMovesInPlace, InRequest

(* The device stops answering, or answers again.                           *)
LEMMA Hangs == ASSUME AhciInv, NEW g \in BOOLEAN, HbaHangs(g) PROVE AhciInv'
<1>1. /\ hba' \in Controllers /\ hba'.ci = hba.ci /\ hba'.strayed = hba.strayed
      /\ port' = port /\ req' = req
  BY DEF HbaHangs, AhciInv, AhciTypeOK, Controllers
<1> QED
  BY <1>1, Zenon
  DEF AhciInv, AhciTypeOK, LocksOK, CommandOK, ProgressOK,
                            AhciMovesInPlace, InRequest, Busy

(* A timer tick, which may wrap the counter the deadline is taken from.    *)
LEMMA Ticks == ASSUME AhciInv, AhciTick PROVE AhciInv'
<1>1. (port.tick + 1) % WRAP \in Nat
  BY AhciAssumption DEF AhciInv, AhciTypeOK, Ports
<1>2. port' = [port EXCEPT !.tick = (port.tick + 1) % WRAP] /\ hba' = hba /\ req' = req
  BY DEF AhciTick
<1>3. /\ port' \in Ports /\ port'.pc = port.pc /\ port'.lock = port.lock
      /\ port'.sem = port.sem /\ port'.held = port.held
  BY <1>1, <1>2, SMTT(30) DEF AhciInv, AhciTypeOK, Ports
<1> QED
  BY <1>2, <1>3
  DEF AhciInv, AhciTypeOK, LocksOK, CommandOK, ProgressOK,
                            AhciMovesInPlace, InRequest, Busy

(* AHCI: every reachable state satisfies the inductive invariant.          *)
THEOREM AhciInvariance == AhciSpec => []AhciInv
<1>1. AhciInv /\ [AhciNext]_ahciVars => AhciInv'
  <2> SUFFICES ASSUME AhciInv, [AhciNext]_ahciVars PROVE AhciInv'
    BY Zenon
  <2>1. CASE UNCHANGED ahciVars
    BY <2>1, Zenon DEF ahciVars, AhciInv, AhciTypeOK, LocksOK, CommandOK, ProgressOK,
                AhciMovesInPlace, InRequest, Busy
  <2>2. CASE AhciDriver
    BY <2>2, PortIdentify, PortAccess, CommandFails, CommandDone, ZenonT(60) DEF AhciDriver
  <2> QED
    BY <2>1, <2>2, PortInit, PortRequest, Completes, Hangs, Ticks, Zenon DEF AhciNext
<1> QED
  BY <1>1, AhciInitInv, PTL DEF AhciSpec

(* AHCI: whatever the controller does and however long it takes, the port  *)
(* is left unlocked with its buffers free, no command outlives the call    *)
(* that issued it, and a request moves each sector to its own place inside *)
(* the caller's buffer (ahci_port_access, ahci_port_read, ahci_port_write).*)
THEOREM AhciIsSound == AhciSpec => []AhciSound
<1>1. AhciInv => AhciSound
  BY Zenon DEF AhciInv, AhciTypeOK, LocksOK, CommandOK, InRequest, AhciSound, AhciLocksReleased,
         AhciOneCommand, NoStrayDma, AhciIdle
<1> QED
  BY <1>1, AhciInvariance, PTL
===============================================================================
