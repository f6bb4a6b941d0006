----------------------------- MODULE Scrollback -----------------------------
(***************************************************************************)
(* The terminal's output (kernel/terminal.c): the list of lines it keeps,  *)
(* the view of them it draws, the character output of /dev/stdout, and the *)
(* error list every warning and error is copied into (kernel/errlist.c).   *)
(*                                                                         *)
(* A text is its length.  A line of the list is a record: the serial       *)
(* number of the message it came from, its place in that message, its      *)
(* length, its kind (which fixes its colour).  The screen is drawn in the  *)
(* back buffer row by row and copied to the front by fb_swap_buffers; a    *)
(* row shows nothing, one part of a line, the prompt, or what putchar      *)
(* typed.  Row Rows is the strip below the last full row.                  *)
(***************************************************************************)
EXTENDS Naturals, Sequences, SequencesExt

CONSTANTS
    Rows,        \* fb_get_height() / (FONT_HEIGHT + 2)
    MaxChars,    \* (fb_get_width() - SCROLLBAR_WIDTH - 4) / FONT_WIDTH
    MaxBuffer,   \* DEFAULT_MAX_LINES
    LineCap,     \* sizeof(line_buffer) - 1
    MaxErr,      \* ERRLIST_MAX_ENTRIES
    Messages,    \* the messages printed: [kind, lens], one length per line
    MaxSerial    \* bound: messages printed in a behaviour

ASSUME ScreenAssumption == Rows \in Nat \ {0, 1} /\ MaxChars \in Nat \ {0}

VARIABLES
    lines,          \* lines_head .. lines_tail
    scroll_offset,
    auto_scroll,
    current_line,   \* <<serial, place>> of a line, or <<>> for NULL
    visible_lines,
    prompt,         \* prompt_enabled /\ mode = TERM_MODE_PROMPT
    cursor,         \* [x |-> cursor_x, y |-> cursor_y]
    line_pos,       \* characters in line_buffer
    back,           \* the back buffer
    front,          \* the screen
    errlist,        \* g_errlist.entries: the serial of each message and is_error
    serial,         \* messages printed so far
    cleared         \* value of serial when the error list was last emptied

scrollVars == <<lines, scroll_offset, auto_scroll, current_line, visible_lines, prompt,
                cursor, line_pos, back, front, errlist, serial, cleared>>

Blank == [shows |-> "blank"]
PromptRow == [shows |-> "prompt"]
Typed == [shows |-> "typed"]
Row(line, part) == [shows |-> "part", of |-> <<line.serial, line.place>>, part |-> part]

\* How many rows a text takes; an empty one takes none.
term_line_parts(line) == (line.len + MaxChars - 1) \div MaxChars

\* All parts of all lines, from the oldest on.
Parts(ls) ==
    FlattenSeq([i \in 1..Len(ls) |->
                   [p \in 1..term_line_parts(ls[i]) |-> Row(ls[i], p - 1)]])

term_calc_visible_lines(shown) == IF shown THEN Rows - 1 ELSE Rows

\* The part drawn first: the offset from the top when scrolled, else the last screenful.
StartPart_Lines(ls, offset, vis) ==
    IF offset > 0 THEN offset
    ELSE IF Len(ls) > vis THEN Len(ls) - vis ELSE 0
StartPart(ls, offset, vis) ==
    IF offset > 0 THEN offset
    ELSE IF Len(Parts(ls)) > vis THEN Len(Parts(ls)) - vis ELSE 0

\* What terminal_refresh draws on a cleared back buffer.
Drawn(ls, offset, shown) ==
    LET vis == term_calc_visible_lines(shown)
        parts == Parts(ls)
        start == StartPart(ls, offset, vis)
    IN  [r \in 0..Rows |->
            IF r < vis /\ start + r < Len(parts) THEN parts[start + r + 1]
            ELSE IF r = vis /\ shown THEN PromptRow
            ELSE Blank]

terminal_refresh(ls, offset, shown) ==
    /\ visible_lines' = term_calc_visible_lines(shown)
    /\ back' = Drawn(ls, offset, shown)
    /\ front' = back'

terminal_update_prompt_line(bk) ==
    /\ back' = [bk EXCEPT ![visible_lines] = PromptRow]
    /\ front' = back'

\* The list after term_add_line of every line of new, trimmed to MaxBuffer lines.
Appended(ls, new) ==
    LET all == ls \o new
    IN  SubSeq(all, (IF Len(all) > MaxBuffer THEN Len(all) - MaxBuffer ELSE 0) + 1, Len(all))

\* term_add_line for every line of new: the list, and current_line when it follows the output.
term_add_line(new) ==
    /\ lines' = Appended(lines, new)
    /\ current_line' = IF new # <<>> /\ auto_scroll /\ scroll_offset = 0
                       THEN <<Last(new).serial, Last(new).place>> ELSE current_line

ScrollInit ==
    /\ lines = <<>>
    /\ scroll_offset = 0
    /\ auto_scroll = TRUE
    /\ current_line = <<>>
    /\ prompt = FALSE
    /\ visible_lines = term_calc_visible_lines(FALSE)
    /\ cursor = [x |-> 0, y |-> 0]
    /\ line_pos = 0
    /\ back = [r \in 0..Rows |-> Blank]
    /\ front = back
    /\ errlist = <<>>
    /\ serial = 0
    /\ cleared = 0

\* The lines of a message; malloc may fail for any of them, which loses that line alone.
LinesOf(m, kept) ==
    LET all == [i \in 1..Len(m.lens) |->
                   [serial |-> serial + 1, place |-> i, len |-> m.lens[i], kind |-> m.kind]]
    IN  SelectSeq(all, LAMBDA line : line.place \in kept)

errlist_add(m) ==
    errlist' = IF m.kind \in {"warn", "error"} /\ Len(errlist) < MaxErr
               THEN Append(errlist, [serial |-> serial + 1, is_error |-> m.kind = "error"])
               ELSE errlist

\* terminal_print and its coloured forms; warnings and errors go to the error list first.
terminal_print(m, kept) ==
    /\ serial < MaxSerial
    /\ serial' = serial + 1
    /\ errlist_add(m)
    /\ term_add_line(LinesOf(m, kept))
    /\ terminal_refresh(lines', scroll_offset, prompt)
    /\ UNCHANGED <<scroll_offset, auto_scroll, prompt, cursor, line_pos, cleared>>

\* errlist_clear, errlist_clear_by_subsystem, errlist_clear_by_code: every entry is
\* "TERMINAL" with code 0, so a filter removes all of them or none; each prints a line.
ErrlistClear(matches) ==
    /\ serial < MaxSerial
    /\ serial' = serial + 1
    /\ errlist' = IF matches THEN <<>> ELSE errlist
    /\ cleared' = IF matches THEN serial ELSE cleared
    /\ term_add_line(LinesOf([kind |-> "plain", lens |-> <<1>>], {1}))
    /\ terminal_refresh(lines', scroll_offset, prompt)
    /\ UNCHANGED <<scroll_offset, auto_scroll, prompt, cursor, line_pos>>

\* The lines of the errlist command: every entry, the errors or warnings alone, the last n.
\* Pieces printed without a newline and a lone newline become lines of their own.
errlist_show_all ==
    <<1>> \o IF errlist = <<>> THEN <<1>>
             ELSE FlattenSeq([i \in 1..Len(errlist) |-> <<1, 1, 1, 0>>])
errlist_show_only(errors) ==
    LET picked == SelectSeq(errlist, LAMBDA e : e.is_error = errors)
    IN  IF picked = <<>> THEN <<1>> ELSE [i \in 1..Len(picked) |-> 1]
errlist_show_last(n) ==
    <<1>> \o FlattenSeq([i \in 1..(IF n > Len(errlist) THEN Len(errlist) ELSE n) |-> <<1, 0>>])

ErrlistShow(lens) ==
    /\ serial < MaxSerial
    /\ serial' = serial + 1
    /\ term_add_line(LinesOf([kind |-> "info", lens |-> lens], 1..Len(lens)))
    /\ terminal_refresh(lines', scroll_offset, prompt)
    /\ UNCHANGED <<scroll_offset, auto_scroll, prompt, cursor, line_pos, errlist, cleared>>

terminal_enable_prompt ==
    /\ ~prompt
    /\ prompt' = TRUE
    /\ terminal_refresh(lines, scroll_offset, TRUE)
    /\ UNCHANGED <<lines, scroll_offset, auto_scroll, current_line, cursor, line_pos,
                   errlist, serial, cleared>>

\* The clear command: the list is freed and the output area emptied without a refresh.
terminal_clear_screen ==
    /\ prompt
    /\ lines' = <<>>
    /\ scroll_offset' = 0
    /\ current_line' = <<>>
    /\ terminal_update_prompt_line([r \in 0..Rows |-> IF r < visible_lines THEN Blank ELSE back[r]])
    /\ UNCHANGED <<auto_scroll, visible_lines, prompt, cursor, line_pos, errlist, serial, cleared>>

\* terminal_scroll_up(1), as putchar calls it on a list of n lines: the new offset.
terminal_scroll_up(n) ==
    IF n <= visible_lines THEN scroll_offset
    ELSE IF scroll_offset + 1 > n - visible_lines THEN n - visible_lines
    ELSE scroll_offset + 1

\* '\n': what print_nn left in line_buffer becomes a line; at the bottom the view scrolls.
putchar_newline ==
    LET held == [serial |-> serial + 1, place |-> 0, len |-> line_pos, kind |-> "plain"]
        max_y == IF prompt THEN visible_lines - 1 ELSE visible_lines
        bottom == cursor.y + 1 >= max_y
    IN  /\ line_pos > 0 => serial < MaxSerial
        /\ serial' = IF line_pos > 0 THEN serial + 1 ELSE serial
        /\ term_add_line(IF line_pos > 0 THEN <<held>> ELSE <<>>)
        /\ line_pos' = 0
        /\ scroll_offset' = IF bottom THEN terminal_scroll_up(Len(lines')) ELSE scroll_offset
        /\ auto_scroll' = IF bottom /\ Len(lines') > visible_lines
                          THEN scroll_offset' = 0 ELSE auto_scroll
        /\ cursor' = [x |-> 0, y |-> IF bottom THEN max_y - 1 ELSE cursor.y + 1]
        /\ terminal_refresh(lines', scroll_offset', prompt)
        /\ UNCHANGED <<prompt, errlist, cleared>>

\* '\b': one cell back, blanked in the back buffer.
putchar_backspace ==
    /\ cursor.x > 0
    /\ cursor' = [cursor EXCEPT !.x = @ - 1]
    /\ back' = [back EXCEPT ![cursor.y] = Typed]
    /\ UNCHANGED <<lines, scroll_offset, auto_scroll, current_line, visible_lines, prompt,
                   line_pos, front, errlist, serial, cleared>>

\* A printable character: drawn in the back buffer, and a newline when the row is full.
putchar_symbol ==
    IF cursor.x + 1 >= MaxChars THEN putchar_newline
    ELSE /\ cursor' = [cursor EXCEPT !.x = @ + 1]
         /\ back' = [back EXCEPT ![cursor.y] = Typed]
         /\ UNCHANGED <<lines, scroll_offset, auto_scroll, current_line, visible_lines, prompt,
                        line_pos, front, errlist, serial, cleared>>

\* print_nn: text without a newline, held in line_buffer while it fits, drawn at the cursor.
terminal_print_nn(n) ==
    /\ line_pos' = IF line_pos + n < LineCap THEN line_pos + n ELSE line_pos
    /\ cursor' = [cursor EXCEPT !.x = @ + n]
    /\ back' = [back EXCEPT ![cursor.y] = Typed]

\* The crypto self-test prints the name of each test this way and the result after it.
SelfTestName ==
    /\ cursor.x < MaxChars
    /\ terminal_print_nn(1)
    /\ UNCHANGED <<lines, scroll_offset, auto_scroll, current_line, visible_lines, prompt,
                   front, errlist, serial, cleared>>

\* A whole terminal_input call: the prompt is off while it asks, so the view has one row
\* more; afterwards the prompt line is drawn with the row count of that view.
terminal_input(asks, n) ==
    LET blank(k) == [serial |-> serial + 1, place |-> k, len |-> 0, kind |-> "plain"]
        held == line_pos + asks + n
    IN  /\ prompt
        /\ serial < MaxSerial
        /\ serial' = serial + 1
        /\ term_add_line(<<blank(1), blank(2)>>)
        /\ visible_lines' = Rows
        /\ cursor' = [x |-> asks + n, y |-> Rows - 1]
        /\ line_pos' = IF line_pos + asks < LineCap
                       THEN IF held < LineCap THEN held ELSE line_pos + asks
                       ELSE line_pos
        /\ back' = [Drawn(lines', scroll_offset, FALSE) EXCEPT ![Rows] = PromptRow]
        /\ front' = back'
        /\ UNCHANGED <<scroll_offset, auto_scroll, prompt, errlist, cleared>>

\* A key at the prompt redraws the prompt line alone.
KeyAtPrompt ==
    /\ prompt
    /\ terminal_update_prompt_line(back)
    /\ UNCHANGED <<lines, scroll_offset, auto_scroll, current_line, visible_lines, prompt,
                   cursor, line_pos, errlist, serial, cleared>>

ScrollNext ==
    \/ \E m \in Messages : \E kept \in SUBSET (1..Len(m.lens)) : terminal_print(m, kept)
    \/ \E matches \in BOOLEAN : ErrlistClear(matches)
    \/ \E lens \in {errlist_show_all, errlist_show_only(TRUE), errlist_show_only(FALSE),
                    errlist_show_last(1)} : ErrlistShow(lens)
    \/ terminal_enable_prompt
    \/ terminal_clear_screen
    \/ putchar_newline
    \/ putchar_backspace
    \/ putchar_symbol
    \/ SelfTestName
    \/ terminal_input(1, 1)
    \/ KeyAtPrompt

\* term_draw_scrollbar: where the slider of a bar H pixels high is drawn.
term_draw_scrollbar(total, vis, offset, H) ==
    LET height == IF (H * vis) \div total < 10 THEN 10 ELSE (H * vis) \div total
        range == total - vis
        current == IF offset > range THEN 0 ELSE range - offset
        y == ((H - height) * current) \div range
    IN  [top |-> IF y + height > H THEN H - height ELSE y, height |-> height]

-----------------------------------------------------------------------------
\* Each row of the output area shows the row of the current list that belongs there: while
\* the view is not scrolled back the last parts of the last lines, none missing and none
\* twice, whatever was printed, trimmed, cleared or asked in between.  Only a row that
\* putchar or print_nn typed on since the last refresh may differ.
LastPartsShown ==
    scroll_offset = 0 =>
        \A r \in 0..(visible_lines - 1) :
            LET n == Len(Parts(lines))
                i == IF n > visible_lines THEN n - visible_lines + r + 1 ELSE r + 1
            IN  front[r] \in {Typed, IF i <= n THEN Parts(lines)[i] ELSE Blank}

\* No row ever shows a line that has left the list.
NothingFreedShown ==
    \A r \in 0..Rows : front[r].shows = "part" =>
        \E i \in 1..Len(lines) : front[r].of = <<lines[i].serial, lines[i].place>>

\* While the terminal follows its output the view is at the bottom and current_line is the
\* newest line; scrolled back, the offset leaves a full screen of lines below it.
FollowsOutput ==
    /\ auto_scroll =>
           /\ scroll_offset = 0
           /\ current_line = IF lines = <<>> THEN <<>>
                             ELSE <<Last(lines).serial, Last(lines).place>>
    /\ scroll_offset > 0 => scroll_offset + Rows - 1 <= Len(lines)

\* The prompt stays on the row below the output once a refresh followed the last question.
PromptShown == prompt /\ visible_lines < Rows => front[Rows - 1] = PromptRow

\* A warning or an error still in the scroll buffer is also in the error list, unless the
\* list was emptied after it or is full; the list holds each message once, in order, and
\* showing it on the terminal adds nothing to it.
RedIsListed ==
    /\ \A i \in 1..Len(lines) :
           lines[i].kind \in {"warn", "error"} /\ lines[i].serial > cleared =>
               Len(errlist) = MaxErr \/ \E k \in 1..Len(errlist) : errlist[k].serial = lines[i].serial
    /\ \A k \in 1..Len(errlist) :
           errlist[k].serial > IF k = 1 THEN cleared ELSE errlist[k - 1].serial
    /\ \A k \in 1..Len(errlist), i \in 1..Len(lines) :
           errlist[k].serial = lines[i].serial => lines[i].kind \in {"warn", "error"}

\* The slider lies on the screen, and touches its lower end exactly when the view is at
\* the bottom of a list longer than the screen.
SliderOnScreen ==
    \A H \in {10, 25, 60} :
        Len(lines) > visible_lines =>
            LET bar == term_draw_scrollbar(Len(lines), visible_lines, scroll_offset, H)
            IN  /\ bar.top + bar.height <= H
                /\ scroll_offset = 0 => bar.top + bar.height = H

\* The terminal shows what it holds: the six statements above.
ScreenSound ==
    /\ LastPartsShown /\ NothingFreedShown /\ FollowsOutput /\ PromptShown
    /\ RedIsListed /\ SliderOnScreen
=============================================================================
