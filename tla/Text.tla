-------------------------------- MODULE Text --------------------------------
(***************************************************************************)
(* The string library (libk/string.c) and the formatter (libk/vsnprintf.c),*)
(* which every other part of the kernel copies, searches and prints with.  *)
(*                                                                         *)
(* Memory is a function from addresses to bytes; a C string is the         *)
(* sequence of its characters before the 0.  The copying loops keep their  *)
(* structure, because their order decides what an overlapping copy reads:  *)
(* single bytes up to a word boundary, whole words, the bytes left over.   *)
(* The searching and comparing loops become the place where they stop.     *)
(* A format is the sequence of its directives.  Each call is one action    *)
(* that records its arguments and its result in call.                      *)
(***************************************************************************)
EXTENDS Integers, Sequences, SequencesExt, FiniteSetsExt

CONSTANTS
    W,         \* sizeof(unsigned long)
    Cells,     \* addresses 0..Cells-1
    Strings,   \* strings searched and compared, sequences of 1..9
    Formats,   \* formats printed
    BufSizes   \* sizes handed to vsnprintf

VARIABLES
    mem,    \* the bytes
    call,   \* the last call
    save,   \* what is left behind *saveptr, <<>> for NULL: <<string>>
    tokens  \* what strtok_r returned so far

textVars == <<mem, call, save, tokens>>

NUL == 0
Lowest(S) == IF S = {} THEN -1 ELSE Min(S)
Least(a, b) == IF a < b THEN a ELSE b

\* One load and one store of w bytes.
Move(m, d, s, w) == [i \in DOMAIN m |-> IF i \in d..(d + w - 1) THEN m[s + i - d] ELSE m[i]]

\* The widths of the accesses of a copy of n bytes with head bytes to the word boundary.
Widths(n, head) ==
    [i \in 1..head |-> 1] \o [i \in 1..((n - head) \div W) |-> W]
        \o [i \in 1..((n - head) % W) |-> 1]

Upward(m, d, s, widths) ==
    FoldLeft(LAMBDA at, w : [m |-> Move(at.m, at.d, at.s, w), d |-> at.d + w, s |-> at.s + w],
             [m |-> m, d |-> d, s |-> s], widths).m
Downward(m, d, s, widths) ==
    FoldLeft(LAMBDA at, w : [m |-> Move(at.m, at.d - w, at.s - w, w), d |-> at.d - w, s |-> at.s - w],
             [m |-> m, d |-> d, s |-> s], widths).m

\* rep movsb: upward, byte by byte.
memcpy(m, d, s, n) == Upward(m, d, s, [i \in 1..n |-> 1])

memmove_AlwaysUp(m, d, s, n) == Upward(m, d, s, Widths(n, Least(n, (W - (d % W)) % W)))
memmove(m, d, s, n) ==
    IF d < s THEN Upward(m, d, s, Widths(n, Least(n, (W - (d % W)) % W)))
    ELSE IF d > s THEN Downward(m, d + n, s + n, Widths(n, Least(n, (d + n) % W)))
    ELSE m

memset(m, d, c, n) ==
    FoldLeft(LAMBDA at, w : [m |-> [i \in DOMAIN m |-> IF i \in at.d..(at.d + w - 1) THEN c ELSE at.m[i]],
                             d |-> at.d + w],
             [m |-> m, d |-> d], Widths(n, Least(n, (W - (d % W)) % W))).m

-----------------------------------------------------------------------------
\* Strings.  Byte i (from 0) of a string, its terminator included.
At(s, i) == IF i < Len(s) THEN s[i + 1] ELSE NUL

\* The first byte where two strings differ or both end.
Stop(a, b) == Min({i \in 0..Len(a) : At(a, i) # At(b, i) \/ At(a, i) = NUL})
strcmp(a, b) == At(a, Stop(a, b)) - At(b, Stop(a, b))
strncmp(a, b, n) == IF Stop(a, b) < n THEN strcmp(a, b) ELSE 0
nameeq(a, b, n) ==
    LET stop == {i \in 0..(n - 1) : i <= Len(a) /\ i <= Len(b)
                                    /\ (At(a, i) # At(b, i) \/ At(a, i) = NUL)}
    IN  IF stop = {} \/ (At(a, Min(stop)) = NUL /\ At(b, Min(stop)) = NUL) THEN 1 ELSE 0
memcmp(a, b, n) ==
    LET i == Lowest({j \in 0..(n - 1) : a[j + 1] # b[j + 1]})
    IN  IF i = -1 THEN 0 ELSE a[i + 1] - b[i + 1]

strchr(s, c) == Lowest({i \in 0..Len(s) : At(s, i) = c})
strrchr(s, c) == IF c = NUL THEN Len(s) ELSE Max({-1} \cup {i \in 0..(Len(s) - 1) : At(s, i) = c})

\* The inner loop: how many bytes of the needle match at i.
Matched(h, i, n) == Min({Len(n)} \cup {j \in 0..(Len(n) - 1) : At(h, i + j) # At(n, j)})
memmem(h, n) ==
    IF Len(n) = 0 THEN 0
    ELSE IF Len(h) < Len(n) THEN -1
    ELSE Lowest({i \in 0..(Len(h) - Len(n)) : Matched(h, i, n) = Len(n)})
strstr(h, n) == memmem(h, n)

\* A buffer of n bytes after strncpy, and a string after strncat.
strncpy(s, n) == [i \in 1..n |-> At(s, i - 1)]
strncat(d, s, n) == d \o SubSeq(s, 1, Least(n, Len(s)))

\* strtok_r on the rest behind *saveptr: the token (<<>> for NULL) and the new rest.
strtok_r(rest, delim) ==
    LET skip == Min({Len(rest)} \cup {i \in 0..(Len(rest) - 1) : strchr(delim, At(rest, i)) = -1})
        from == SubSeq(rest, skip + 1, Len(rest))
        stop == Min({Len(from)} \cup {i \in 0..(Len(from) - 1) : strchr(delim, At(from, i)) # -1})
    IN  IF from = <<>> THEN [token |-> <<>>, save |-> <<>>]
        ELSE [token |-> SubSeq(from, 1, stop),
              save |-> IF stop < Len(from) THEN <<SubSeq(from, stop + 2, Len(from))>> ELSE <<>>]

\* atoi and atol on digits 1..9 after the blanks and the sign.
atoi(sign, digits) == sign * FoldLeft(LAMBDA r, d : r * 10 + d, 0, digits)

-----------------------------------------------------------------------------
\* The formatter.  A character is a string of length one.
Digit == <<"0", "1", "2", "3", "4", "5", "6", "7", "8", "9", "a", "b", "c", "d", "e", "f">>

\* The digits of num, most significant first (itoa_base and utoa reverse them in place).
itoa_base(num, base) ==
    LET digits[k \in 0..num] ==
            IF k < base THEN <<Digit[k + 1]>> ELSE Append(digits[k \div base], Digit[(k % base) + 1])
    IN  digits[num]

Fill(c, n) == [i \in 1..n |-> c]

\* out_num: the sign comes before the padding, whatever the padding is.
out_num(num, base, width, zero, negative) ==
    LET str == itoa_base(num, base)
        pad == width - (Len(str) + IF negative THEN 1 ELSE 0)
    IN  (IF negative THEN <<"-">> ELSE <<>>) \o Fill(IF zero THEN "0" ELSE " ", pad) \o str

\* %s and %c: padded on the side the flag asks for.
out_field(str, width, left) ==
    IF left THEN str \o Fill(" ", width - Len(str)) ELSE Fill(" ", width - Len(str)) \o str

\* %f of n thousandths: rounded to prec places, a carry goes to the integer part.
out_float(n, prec) ==
    LET scale == 10 ^ prec
        rounded == ((n % 1000) * scale + 500) \div 1000
        carry == rounded >= scale
        str == itoa_base(IF carry THEN 0 ELSE rounded, 10)
    IN  itoa_base((n \div 1000) + IF carry THEN 1 ELSE 0, 10)
            \o <<".">> \o Fill("0", prec - Len(str)) \o str

\* What one directive puts out; numbers ignore the flag '-', a negative one loses a column.
Piece(d) ==
    CASE d.spec = "lit" -> <<d.arg>>
      [] d.spec = "s" -> out_field(d.arg, d.width, d.left)
      [] d.spec = "c" -> out_field(<<d.arg>>, d.width, d.left)
      [] d.spec = "d" -> out_num(IF d.arg < 0 THEN -d.arg ELSE d.arg, 10,
                                 IF d.arg < 0 THEN d.width - 1 ELSE d.width, d.zero, d.arg < 0)
      [] d.spec = "u" -> out_num(d.arg, 10, d.width, d.zero, FALSE)
      [] d.spec = "x" -> out_num(d.arg, 16, d.width, d.zero, FALSE)
      [] d.spec = "p" -> <<"0", "x">> \o out_num(d.arg, 16, 16, TRUE, FALSE)
      [] d.spec = "f" -> out_float(d.arg, IF d.prec < 0 THEN 2 ELSE d.prec)
      [] d.spec = "%" -> <<"%">>
      [] OTHER -> <<"%", d.spec>>

\* out_char for every character of a piece: stored while it fits, counted always.
out_string(state, piece, size) ==
    [str |-> [i \in DOMAIN state.str |->
                 IF i > state.written /\ i <= state.written + Len(piece) /\ i <= size
                 THEN piece[i - state.written] ELSE state.str[i]],
     written |-> state.written + Len(piece)]

\* The whole call: directives until the buffer is full, then the terminating NUL.
vsnprintf(buf, size, fmt) ==
    LET done == FoldLeft(LAMBDA state, d : IF state.written < size
                                           THEN out_string(state, Piece(d), size) ELSE state,
                         [str |-> buf, written |-> 0], fmt)
    IN  IF size = 0 THEN [str |-> buf, written |-> 0]
        ELSE [done EXCEPT !.str[IF done.written < size THEN done.written + 1 ELSE size] = "NUL"]

-----------------------------------------------------------------------------
TextInit ==
    /\ mem = [i \in 0..(Cells - 1) |-> i]
    /\ call = [op |-> "none"]
    /\ save = <<>>
    /\ tokens = <<>>

Returned(rec) == call' = rec /\ UNCHANGED <<mem, save, tokens>>

\* Every copy and fill that stays inside the memory, on fresh memory.
Copies ==
    /\ call.op = "none"
    /\ \E d, s, n \in 0..Cells :
        /\ d + n <= Cells /\ s + n <= Cells
        /\ \/ /\ call' = [op |-> "memmove", d |-> d, s |-> s, n |-> n]
              /\ mem' = memmove(mem, d, s, n)
           \/ /\ d <= s \/ s + n <= d
              /\ call' = [op |-> "memcpy", d |-> d, s |-> s, n |-> n]
              /\ mem' = memcpy(mem, d, s, n)
           \/ /\ s = 0
              /\ call' = [op |-> "memset", d |-> d, n |-> n]
              /\ mem' = memset(mem, d, 99, n)
    /\ UNCHANGED <<save, tokens>>

Searches ==
    /\ call.op = "none"
    /\ \E a, b \in Strings :
        \/ Returned([op |-> "strstr", a |-> a, b |-> b, i |-> strstr(a, b)])
        \/ \E n \in 0..3 :
               Returned([op |-> "compare", a |-> a, b |-> b, n |-> n, whole |-> strcmp(a, b),
                         part |-> strncmp(a, b, n), same |-> nameeq(a, b, n),
                         bytes |-> memcmp(a, b, Least(Len(a), Len(b)))])
        \/ \E n \in 0..3 :
               Returned([op |-> "copy", a |-> a, b |-> b, n |-> n,
                         buf |-> strncpy(a, n), cat |-> strncat(a, b, n)])
        \/ \E c \in 0..2 : b = <<>> /\
               Returned([op |-> "strchr", a |-> a, c |-> c, i |-> strchr(a, c), j |-> strrchr(a, c)])

Numbers ==
    /\ call.op = "none"
    /\ \/ \E n \in 0..40, base \in {2, 10, 16} :
              Returned([op |-> "utoa", n |-> n, base |-> base, str |-> itoa_base(n, base)])
       \/ \E s \in Strings, sign \in {-1, 1} :
              Returned([op |-> "atoi", s |-> s, sign |-> sign, n |-> atoi(sign, s)])

Formatted ==
    /\ call.op = "none"
    /\ \E fmt \in Formats, size \in BufSizes :
           Returned([op |-> "printf", fmt |-> fmt, size |-> size,
                     got |-> vsnprintf(Fill("old", Max(BufSizes) + 1), size, fmt)])

\* strtok_r called until it returns NULL; the delimiters are the characters 1 and 2.
FirstToken ==
    /\ call.op = "none"
    /\ \E s \in Strings :
           LET r == strtok_r(s, <<1, 2>>)
           IN  /\ call' = [op |-> "strtok", s |-> s, done |-> r.token = <<>>]
               /\ save' = r.save
               /\ tokens' = IF r.token = <<>> THEN <<>> ELSE <<r.token>>
    /\ UNCHANGED mem
NextToken ==
    /\ call.op = "strtok" /\ ~call.done
    /\ LET r == IF save = <<>> THEN [token |-> <<>>, save |-> <<>>] ELSE strtok_r(save[1], <<1, 2>>)
       IN  /\ call' = [call EXCEPT !.done = r.token = <<>>]
           /\ save' = r.save
           /\ tokens' = IF r.token = <<>> THEN tokens ELSE Append(tokens, r.token)
    /\ UNCHANGED mem

TextNext == Copies \/ Searches \/ Numbers \/ Formatted \/ FirstToken \/ NextToken

-----------------------------------------------------------------------------
\* memmove leaves the destination holding what the source held before the call, whatever
\* the overlap and the alignment, memcpy does so when the destination is not inside the
\* source, memset fills exactly its range, and no other byte changes.
CopiesRight ==
    /\ call.op \in {"memmove", "memcpy"} =>
           mem = [i \in 0..(Cells - 1) |->
                     IF i \in call.d..(call.d + call.n - 1) THEN call.s + i - call.d ELSE i]
    /\ call.op = "memset" =>
           mem = [i \in 0..(Cells - 1) |-> IF i \in call.d..(call.d + call.n - 1) THEN 99 ELSE i]

\* The searches find the first (strrchr the last) occurrence and nothing else; strncmp,
\* strcmp and nameeq agree on which strings are equal.
SearchesRight ==
    /\ call.op = "strstr" =>
           LET at == {i \in 0..Len(call.a) : SubSeq(call.a, i + 1, Least(i + Len(call.b), Len(call.a))) = call.b}
           IN  call.i = Lowest(at)
    /\ call.op = "compare" =>
           /\ call.whole = 0 <=> call.a = call.b
           /\ call.part = 0 <=> call.same = 1
           /\ call.part = 0 <=> SubSeq(call.a, 1, Least(call.n, Len(call.a)))
                                  = SubSeq(call.b, 1, Least(call.n, Len(call.b)))
           /\ call.bytes = 0 <=> IsPrefix(call.a, call.b) \/ IsPrefix(call.b, call.a)
    /\ call.op = "copy" =>
           /\ Len(call.a) < call.n => call.buf[Len(call.a) + 1] = NUL
           /\ IsPrefix(SubSeq(call.buf, 1, Least(call.n, Len(call.a))), call.a)
           /\ Len(call.cat) = Len(call.a) + Least(call.n, Len(call.b))
    /\ call.op = "strchr" =>
           /\ call.i = -1 <=> call.j = -1
           /\ call.i # -1 => call.i <= call.j /\ At(call.a, call.i) = call.c /\ At(call.a, call.j) = call.c

\* The tokens are the longest delimiter-free runs of the string, in order: joined, they are
\* the string without its delimiters, and there is one per run.
TokensRight ==
    call.op = "strtok" /\ call.done =>
        /\ FlattenSeq(tokens) = SelectSeq(call.s, LAMBDA c : c \notin {1, 2})
        /\ Len(tokens) = Cardinality({i \in 1..Len(call.s) :
               call.s[i] \notin {1, 2} /\ (i = 1 \/ call.s[i - 1] \in {1, 2})})
        /\ save = <<>>

\* The digits name the number again, without leading zeros.
NumbersRight ==
    /\ call.op = "utoa" =>
           /\ call.n = FoldLeft(LAMBDA r, c : r * call.base + (CHOOSE v \in 0..15 : Digit[v + 1] = c),
                                0, call.str)
           /\ call.str[1] = "0" => call.n = 0
    /\ call.op = "atoi" /\ call.s # <<>> =>
           itoa_base(call.sign * call.n, 10) = [i \in 1..Len(call.s) |-> Digit[call.s[i] + 1]]

\* The field a C library would put out for a directive.
Field(d) ==
    CASE d.spec \in {"u", "d", "x"} ->
            LET str == itoa_base(IF d.arg < 0 THEN -d.arg ELSE d.arg, IF d.spec = "x" THEN 16 ELSE 10)
                sign == IF d.arg < 0 THEN <<"-">> ELSE <<>>
                pad == d.width - Len(sign \o str)
            IN  IF d.left THEN sign \o str \o Fill(" ", pad)
                ELSE IF d.zero THEN sign \o Fill("0", pad) \o str
                ELSE Fill(" ", pad) \o sign \o str
      [] OTHER -> Piece(d)
Ideal(fmt) == FlattenSeq([i \in 1..Len(fmt) |-> Field(fmt[i])])

\* A width is honoured as C promises, except left-aligned numbers and padded negative ones.
Honoured(d) == d.spec \in {"u", "d", "x"} => ~d.left /\ (d.arg >= 0 \/ d.width = 0)

\* vsnprintf never stores past the size it is given, always terminates the buffer, and the
\* buffer holds the longest prefix of the full text that fits; the value it returns is the
\* length of the text when the text fits, and at least the size when it does not.
FormatRight ==
    call.op = "printf" =>
        LET got == call.got
            full == Ideal(call.fmt)
            kept == Least(Len(full), call.size - 1)
        IN  /\ \A i \in (call.size + 1)..(Max(BufSizes) + 1) : got.str[i] = "old"
            /\ call.size = 0 => got.written = 0
            /\ call.size > 0 /\ (\A i \in 1..Len(call.fmt) : Honoured(call.fmt[i])) =>
                   /\ SubSeq(got.str, 1, kept) = SubSeq(full, 1, kept)
                   /\ got.str[kept + 1] = "NUL"
                   /\ IF Len(full) < call.size THEN got.written = Len(full)
                      ELSE got.written >= call.size

\* The string library and the formatter compute what their C names promise.
TextRight == CopiesRight /\ SearchesRight /\ TokensRight /\ NumbersRight /\ FormatRight
=============================================================================
