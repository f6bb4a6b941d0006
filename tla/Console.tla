-------------------------------- MODULE Console --------------------------------
(***************************************************************************)
(* Keyboard input: keyboard_handler (drivers/ps2kbd/ps2kbd.c), which runs  *)
(* in the keyboard interrupt, the prompt's line editor and command call    *)
(* terminal_handle_input (kernel/cmd.c), which it calls, and the blocking  *)
(* reader terminal_input (kernel/terminal.c).  A command runs inside the   *)
(* interrupt; no further keyboard interrupt is delivered before ioapic_eoi *)
(* at its end.                                                             *)
(*                                                                         *)
(* prompt_enabled and mode = TERM_MODE_PROMPT change together, and are one *)
(* variable here.  What a command does is abstracted to how it ends: it    *)
(* returns, it returns early from terminal_handle_input ("part" without a  *)
(* subcommand), or it asks the user with terminal_input first.             *)
(***************************************************************************)
EXTENDS KbdRing

CONSTANTS Keys,         \* the keys pressed
          LineSize,     \* sizeof(input_buffer)
          AnswerSize,   \* sizeof(buffer) in terminal_input
          Ends          \* how commands end: subset of {"returns", "usage", "asks"}

(* The keys that stand for the others, and their printable characters.     *)
KeyCodes == {"KEY_C", "KEY_S", "KEY_1", "KEY_ENTER", "KEY_BACKSPACE"}
Printable == {"c", "C", "s", "S", "1", "!"}

(* Ctrl+C, 0x03. *)
ETX == "ETX"

(* 2^32 scaled down: input_pos is a u32. *)
Word == 64

(* Both buffers hold a character and the zero after it, and the line's     *)
(* index fits in its type.                                                 *)
ASSUME ConsoleAssumption ==
    /\ LineSize \in 1..Word /\ AnswerSize \in Nat \ {0, 1}
    /\ Ends \subseteq {"returns", "usage", "asks"}
    /\ Keys \subseteq KeyCodes
    /\ Printable \cup {"NL", "BS", ETX} \subseteq Char \ {NUL}

VARIABLES shift_down, caps_lock, ctrl_down,
          prompt_enabled,
          input_buffer, input_pos, cursor_pos,
          asking,       \* terminal_input is waiting, inside the interrupt
          old_prompt,   \* its old_prompt_enabled
          answer        \* buffer[0 .. pos - 1] of terminal_input

modifiers == <<shift_down, caps_lock, ctrl_down>>
line == <<input_buffer, input_pos, cursor_pos>>
question == <<asking, old_prompt, answer>>
consoleVars == <<ring, modifiers, prompt_enabled, line, question>>

EmptyLine == [i \in 0..LineSize - 1 |-> NUL]

ConsoleTypeOK ==
    /\ RingTypeOK
    /\ shift_down \in BOOLEAN /\ caps_lock \in BOOLEAN /\ ctrl_down \in BOOLEAN
    /\ prompt_enabled \in BOOLEAN
    /\ input_buffer \in [0..LineSize - 1 -> Char]
    /\ input_pos \in 0..LineSize - 1
    /\ cursor_pos \in 0..LineSize
    /\ asking \in BOOLEAN /\ old_prompt \in BOOLEAN
    /\ answer \in Seq(Char) /\ Len(answer) < AnswerSize

-----------------------------------------------------------------------------
(* get_ascii_char on those keys: letters, a key with a shifted character,  *)
(* Enter and Backspace.  NUL: no character.                                *)
Ascii(key) ==
    LET upper == shift_down # caps_lock
    IN CASE key = "KEY_C" -> IF upper THEN "C" ELSE "c"
         [] key = "KEY_S" -> IF upper THEN "S" ELSE "s"
         [] key = "KEY_1" -> IF shift_down THEN "!" ELSE "1"
         [] key = "KEY_ENTER" -> "NL"
         [] key = "KEY_BACKSPACE" -> "BS"
         [] OTHER -> NUL

(* The character that equals KEY_DELETE, scan code 0x53. *)
KeyDelete == "S"

ConsoleInit ==
    /\ RingInit
    /\ shift_down = FALSE /\ caps_lock = FALSE /\ ctrl_down = FALSE
    /\ prompt_enabled = FALSE
    /\ input_buffer = EmptyLine /\ input_pos = 0 /\ cursor_pos = 0
    /\ asking = FALSE /\ old_prompt = FALSE /\ answer = <<>>

-----------------------------------------------------------------------------
(* terminal_handle_input, one action per kind of character. *)
ClearLine_KeepsCursor ==
    /\ input_buffer' = EmptyLine
    /\ input_pos' = 0
    /\ UNCHANGED cursor_pos

ClearLine == input_buffer' = EmptyLine /\ input_pos' = 0 /\ cursor_pos' = 0

(* Enter with a command in the line; terminal_input is entered when the    *)
(* command asks, and the interrupt does not end.                           *)
RunCommand(end) ==
    /\ input_pos > 0
    /\ CASE end = "returns" -> ClearLine /\ UNCHANGED <<prompt_enabled, question>>
         [] end = "usage" -> UNCHANGED <<line, prompt_enabled, question>>
         [] end = "asks" -> /\ asking' = TRUE
                            /\ old_prompt' = prompt_enabled
                            /\ prompt_enabled' = FALSE
                            /\ answer' = <<>>
                            /\ UNCHANGED line

EmptyCommand == input_pos = 0 /\ ClearLine /\ UNCHANGED <<prompt_enabled, question>>

EraseBefore ==
    /\ IF cursor_pos > 0
       THEN /\ input_buffer' = [i \in 0..LineSize - 1 |->
                  IF i = input_pos - 1 THEN NUL
                  ELSE IF i >= cursor_pos - 1 /\ i < input_pos - 1
                  THEN input_buffer[i + 1] ELSE input_buffer[i]]
            /\ input_pos' = (input_pos - 1) % Word
            /\ cursor_pos' = cursor_pos - 1
       ELSE UNCHANGED line
    /\ UNCHANGED <<prompt_enabled, question>>

EraseAt ==
    /\ IF cursor_pos < input_pos
       THEN /\ input_buffer' = [i \in 0..LineSize - 1 |->
                  IF i = input_pos - 1 THEN NUL
                  ELSE IF i >= cursor_pos /\ i < input_pos - 1
                  THEN input_buffer[i + 1] ELSE input_buffer[i]]
            /\ input_pos' = (input_pos - 1) % Word
            /\ UNCHANGED cursor_pos
       ELSE UNCHANGED line
    /\ UNCHANGED <<prompt_enabled, question>>

Insert(c) ==
    /\ IF input_pos < LineSize - 1
       THEN /\ input_buffer' = [i \in 0..LineSize - 1 |->
                  IF i = input_pos + 1 THEN NUL
                  ELSE IF i = cursor_pos THEN c
                  ELSE IF i > cursor_pos /\ i <= input_pos THEN input_buffer[i - 1]
                  ELSE input_buffer[i]]
            /\ input_pos' = input_pos + 1
            /\ cursor_pos' = cursor_pos + 1
       ELSE UNCHANGED line
    /\ UNCHANGED <<prompt_enabled, question>>

HandleInput(c) ==
    /\ UNCHANGED <<ring, modifiers>>
    /\ \/ c = "NL" /\ (EmptyCommand \/ \E end \in Ends : RunCommand(end))
       \/ c = "BS" /\ EraseBefore
       \/ c = KeyDelete /\ EraseAt
       \/ c \in Printable \ {KeyDelete} /\ Insert(c)

-----------------------------------------------------------------------------
(* keyboard_handler.  Nothing interrupts it, and it ends with the EOI      *)
(* unless a command is still asking.                                       *)
Delivered == ~asking

Control(released) ==
    /\ Delivered
    /\ ctrl_down' = ~released
    /\ UNCHANGED <<ring, shift_down, caps_lock, prompt_enabled, line, question>>

ControlC ==
    /\ Delivered /\ ctrl_down
    /\ Push(ETX)
    /\ UNCHANGED <<modifiers, prompt_enabled, line, question>>

Shift(released) ==
    /\ Delivered
    /\ shift_down' = ~released
    /\ UNCHANGED <<ring, caps_lock, ctrl_down, prompt_enabled, line, question>>

CapsLock ==
    /\ Delivered
    /\ caps_lock' = ~caps_lock
    /\ UNCHANGED <<ring, shift_down, ctrl_down, prompt_enabled, line, question>>

(* A key with a character: to the line editor when the prompt is enabled,  *)
(* else to the ring.                                                        *)
Press(key) ==
    /\ Delivered
    /\ ~(ctrl_down /\ key = "KEY_C")
    /\ \/ prompt_enabled /\ HandleInput(Ascii(key))
       \/ /\ ~prompt_enabled
          /\ Push(Ascii(key))
          /\ UNCHANGED <<modifiers, prompt_enabled, line, question>>

Keyboard ==
    \/ \E released \in BOOLEAN : Control(released) \/ Shift(released)
    \/ ControlC
    \/ CapsLock
    \/ \E key \in Keys : Press(key)

-----------------------------------------------------------------------------
(* kmain: terminal_enable_prompt(true), once, when the boot is over. *)
EnablePrompt ==
    /\ Delivered /\ ~prompt_enabled
    /\ prompt_enabled' = TRUE
    /\ input_buffer' = EmptyLine /\ input_pos' = 0
    /\ UNCHANGED <<ring, modifiers, cursor_pos, question>>

(* One turn of terminal_input's loop.  When it ends, the prompt is         *)
(* restored, the command returns, and terminal_handle_input clears the     *)
(* line.                                                                    *)
EndInput_KeepsPrompt ==
    /\ asking' = FALSE
    /\ ClearLine
    /\ UNCHANGED <<prompt_enabled, old_prompt>>

EndInput ==
    /\ asking' = FALSE
    /\ prompt_enabled' = old_prompt
    /\ ClearLine
    /\ UNCHANGED old_prompt

InputTurn ==
    /\ asking
    /\ Pop
    /\ LET c == kbd_buf[kbd_tail]
           typed == CASE c = "BS" /\ answer # <<>> -> SubSeq(answer, 1, Len(answer) - 1)
                      [] c \in Printable -> Append(answer, c)
                      [] OTHER -> answer
       IN /\ answer' = typed
          /\ IF c = "NL" \/ Len(typed) = AnswerSize - 1
             THEN EndInput
             ELSE UNCHANGED <<asking, old_prompt, prompt_enabled, line>>
    /\ UNCHANGED modifiers

ConsoleNext == Keyboard \/ EnablePrompt \/ InputTurn

ConsoleSpec == ConsoleInit /\ [][ConsoleNext]_consoleVars

(* The kernel keeps running, and the user keeps typing and pressing Enter: *)
(* strong fairness, since a key does nothing in some states in between.    *)
ConsoleFairness ==
    /\ WF_consoleVars(EnablePrompt)
    /\ WF_consoleVars(InputTurn)
    /\ \A key \in Keys : SF_consoleVars(Press(key))

ConsoleFairSpec == ConsoleSpec /\ ConsoleFairness

-----------------------------------------------------------------------------
(* The editor's two indices stay together and inside the buffer, and the   *)
(* buffer holds exactly the line: characters up to input_pos, zeros from   *)
(* there on, so parse_command and every snprintf of it stop at its end     *)
(* (cmd.c:75-253).                                                          *)
LineWellFormed ==
    /\ ConsoleTypeOK
    /\ cursor_pos = input_pos
    /\ \A i \in 0..LineSize - 1 : input_buffer[i] \in Printable <=> i < input_pos
    /\ \A i \in 0..LineSize - 1 : i >= input_pos => input_buffer[i] = NUL

(* When a command that asked has its answer, the prompt is enabled as it   *)
(* was before (terminal.c:773-823).                                        *)
PromptBack == [][asking /\ ~asking' => prompt_enabled']_consoleVars

(* A command that asks gets its answer (terminal.c:768-823).               *)
AnswerArrives == asking ~> ~asking

=============================================================================
