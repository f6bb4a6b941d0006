---------------------------- MODULE Framebuffer ----------------------------
(***************************************************************************)
(* The framebuffer (drivers/fb): the two buffers and the clip rectangle    *)
(* (fbbase.c), the drawing primitives (fbprim.c) and text (fbtextrender.c),*)
(* and the screen panic leaves (kernel/panic.c).                           *)
(*                                                                         *)
(* A buffer is a row of cells of 32 bits, pitch of them for each line of   *)
(* the screen; the boot header asks for 32 bits per pixel.  A figure is    *)
(* the set of pixels its loops visit, a call of a primitive a sequence of  *)
(* layers: such a set, its colour, and whether put_pixel_raw draws it,     *)
(* past the clip rectangle.                                                *)
(***************************************************************************)
EXTENDS Integers, Sequences, FiniteSets, SequencesExt, FiniteSetsExt

CONSTANTS
    FbModes,        \* the modes firmware may set: [width, height, pitch], in pixels
    FONT_WIDTH, FONT_HEIGHT,
    Glyphs,         \* character -> the pixels <<column, row>> that are lit
    FbClips,        \* clip rectangles callers may ask for: <<x1, y1, x2, y2>>
    FbCalls,        \* the calls of the primitives
    PanicText,      \* what panic prints
    MaxDraws        \* bound on the drawing calls

\* fb: g_fb and the two buffers; last: the last call, with what it found.
VARIABLES fb, last

fbVars == <<fb, last>>

NoBack == <<>>
NoCall == [fn |-> "none"]
Abs(n) == IF n < 0 THEN -n ELSE n

\* Division as C does it.
Quot(a, b) == IF (a < 0) # (b < 0) THEN -(Abs(a) \div Abs(b)) ELSE Abs(a) \div Abs(b)

-----------------------------------------------------------------------------
(* fbprim.c *)

RECURSIVE LineFrom(_, _, _, _, _)
LineFrom(p, q, d, s, err) ==
    IF p = q THEN {p}
    ELSE LET across == 2 * err > -d[2]
             down == 2 * err < d[1]
         IN  {p} \cup LineFrom(<<p[1] + IF across THEN s[1] ELSE 0,
                                 p[2] + IF down THEN s[2] ELSE 0>>, q, d, s,
                               err - (IF across THEN d[2] ELSE 0)
                                   + (IF down THEN d[1] ELSE 0))
Sign(a, b) == IF a < b THEN 1 ELSE -1
fb_draw_line(p, q) ==
    LET d == <<Abs(q[1] - p[1]), Abs(q[2] - p[2])>>
    IN  LineFrom(p, q, d, <<Sign(p[1], q[1]), Sign(p[2], q[2])>>, d[1] - d[2])

Shifted(p, x, y) == <<p[1] + x, p[2] + y>>
fb_draw_line_thick(p, q, thickness) ==
    LET flat == Abs(q[1] - p[1]) > Abs(q[2] - p[2])
        by(i) == i - thickness \div 2
    IN  IF thickness <= 1 THEN fb_draw_line(p, q)
        ELSE UNION {IF flat THEN fb_draw_line(Shifted(p, 0, by(i)), Shifted(q, 0, by(i)))
                    ELSE fb_draw_line(Shifted(p, by(i), 0), Shifted(q, by(i), 0)) :
                      i \in 0..(thickness - 1)}

fb_draw_rect(p, w, h) ==
    LET c == <<p, Shifted(p, w - 1, 0), Shifted(p, w - 1, h - 1), Shifted(p, 0, h - 1)>>
    IN  UNION {fb_draw_line(c[i], c[(i % 4) + 1]) : i \in 1..4}

\* Also for w = 0, which fb_fill_rounded_rect asks for: a line back to x - 1.
fb_fill_rect(p, w, h) ==
    UNION {fb_draw_line(Shifted(p, 0, i), Shifted(p, w - 1, i)) : i \in 0..(h - 1)}

\* The offsets of a corner's arc.
RECURSIVE CornerArc(_, _, _)
CornerArc(dx, dy, err) ==
    IF dx < dy THEN {}
    ELSE LET e == err + 2 * (dy + 1) + 1
         IN  {<<dx, dy>>, <<dy, dx>>} \cup
             IF e > 2 * dx THEN CornerArc(dx - 1, dy + 1, e - 2 * (dx - 1) - 2)
             ELSE CornerArc(dx, dy + 1, e)
AtMostHalf(radius, w, h) == Min({radius, w \div 2, h \div 2})
FourCorners(left, top, right, bottom, offsets) ==
    UNION {{<<left - o[1], top - o[2]>>, <<right + o[1], top - o[2]>>,
            <<left - o[1], bottom + o[2]>>, <<right + o[1], bottom + o[2]>>} : o \in offsets}
RoundedOutline(p, w, h, r) ==
    FourCorners(p[1] + r, p[2] + r, p[1] + w - r - 1, p[2] + h - r - 1, CornerArc(r, 0, 0))
    \cup fb_draw_line(Shifted(p, r, 0), Shifted(p, w - r - 1, 0))
    \cup fb_draw_line(Shifted(p, r, h - 1), Shifted(p, w - r - 1, h - 1))
    \cup fb_draw_line(Shifted(p, 0, r), Shifted(p, 0, h - r - 1))
    \cup fb_draw_line(Shifted(p, w - 1, r), Shifted(p, w - 1, h - r - 1))
fb_draw_rounded_rect(p, w, h, radius) ==
    IF radius = 0 THEN fb_draw_rect(p, w, h)
    ELSE RoundedOutline(p, w, h, AtMostHalf(radius, w, h))

\* Of a filled rounded rectangle the three rectangles respect the clip, the
\* corners do not.
RoundedCentre(p, w, h, r) ==
    fb_fill_rect(Shifted(p, r, 0), w - 2 * r, r)
    \cup fb_fill_rect(Shifted(p, r, h - r), w - 2 * r, r)
    \cup fb_fill_rect(Shifted(p, 0, r), w, h - 2 * r)
CornerReach(r, dy) == Max({dx \in 0..(r - 1) : dx * dx + dy * dy <= r * r})
RoundedCorners(p, w, h, r) ==
    LET offsets == UNION {{<<i, dy>>, <<dy, i>>} :
                            <<i, dy>> \in {o \in (0..(r - 1)) \X (0..(r - 1)) :
                                             o[1] < CornerReach(r, o[2])}}
    IN  FourCorners(p[1] + r - 1, p[2] + r - 1, p[1] + w - r, p[2] + h - r, offsets)

EightFold(c, x, y) ==
    {<<c[1] + a * x, c[2] + b * y>> : a \in {-1, 1}, b \in {-1, 1}}
    \cup {<<c[1] + a * y, c[2] + b * x>> : a \in {-1, 1}, b \in {-1, 1}}
RECURSIVE CircleFrom(_, _, _, _)
CircleFrom(c, x, y, f) ==
    IF x >= y THEN {}
    ELSE LET inward == f >= 0
             ny == IF inward THEN y - 1 ELSE y
         IN  EightFold(c, x + 1, ny)
             \cup CircleFrom(c, x + 1, ny,
                             f - (IF inward THEN 2 * ny ELSE 0) + 2 * (x + 1) + 1)
fb_draw_circle(c, r) ==
    {Shifted(c, 0, r), Shifted(c, 0, -r), Shifted(c, r, 0), Shifted(c, -r, 0)}
    \cup CircleFrom(c, 0, r, 1 - r)
fb_fill_circle(c, r) == UNION {fb_draw_circle(c, i) : i \in 0..r}

FourFold(c, x, y) == {<<c[1] + a * x, c[2] + b * y>> : a \in {-1, 1}, b \in {-1, 1}}
RECURSIVE LowerRegion(_, _, _, _, _, _)
LowerRegion(c, x, y, p, rx2, ry2) ==
    IF y < 0 THEN {}
    ELSE FourFold(c, x, y) \cup
         IF p > 0 THEN LowerRegion(c, x, y - 1, p - (2 * rx2 * (y - 1) + rx2), rx2, ry2)
         ELSE LowerRegion(c, x + 1, y - 1,
                          p + 2 * ry2 * (x + 1) - 2 * rx2 * (y - 1) + rx2, rx2, ry2)
RECURSIVE UpperRegion(_, _, _, _, _, _)
UpperRegion(c, x, y, p, rx2, ry2) ==
    IF ry2 * x >= rx2 * y
    THEN LowerRegion(c, x, y, ry2 * (x + 1) * (x + 1) + rx2 * (y - 1) * (y - 1) - rx2 * ry2,
                     rx2, ry2)
    ELSE FourFold(c, x, y) \cup
         IF p < 0 THEN UpperRegion(c, x + 1, y, p + 2 * ry2 * (x + 1) + ry2, rx2, ry2)
         ELSE UpperRegion(c, x + 1, y - 1,
                          p + 2 * ry2 * (x + 1) - 2 * rx2 * (y - 1) + ry2, rx2, ry2)
fb_draw_ellipse(c, rx, ry) ==
    IF rx = ry THEN fb_draw_circle(c, rx)
    ELSE UpperRegion(c, 0, ry, ry * ry - rx * rx * ry + (rx * rx) \div 4, rx * rx, ry * ry)

\* rx # ry; put_pixel_raw.
LineWidth(rx, ry, y) ==
    Max({n \in 0..rx : n * n * ry * ry + y * y * rx * rx <= rx * rx * ry * ry})
EllipseRows(c, rx, ry) ==
    UNION {{<<c[1] + x, c[2] - y>>, <<c[1] + x, c[2] + y>>} :
             <<x, y>> \in {o \in (-rx..rx) \X (0..ry) : Abs(o[1]) <= LineWidth(rx, ry, o[2])}}

fb_draw_triangle(a, b, c) == fb_draw_line(a, b) \cup fb_draw_line(b, c) \cup fb_draw_line(c, a)

\* The rows from y1 to y2 between two edges, each of which leaves its first
\* point at y1 and reaches its last at y2.
draw_horizontal_line(y, xs, xe) == {<<x, y>> : x \in Min({xs, xe})..Max({xs, xe})}
OnEdge(from, to, y, y1, y2) == from + Quot((to - from) * (y - y1), y2 - y1)
RowsBetween(y1, y2, left, right) ==
    UNION {draw_horizontal_line(y, OnEdge(left[1], left[2], y, y1, y2),
                                OnEdge(right[1], right[2], y, y1, y2)) : y \in y1..y2}
InOrder(a, b) == IF a[2] > b[2] THEN <<b, a>> ELSE <<a, b>>
ByHeight(a, b, c) ==
    LET u == InOrder(a, b)
        v == InOrder(u[1], c)
        w == InOrder(u[2], v[2])
    IN  <<v[1], w[1], w[2]>>
FillSorted(a, b, c) ==
    LET low == Min({a[1], b[1]})
        high == Max({a[1], b[1]})
        x4 == OnEdge(a[1], c[1], b[2], a[2], c[2])
    IN  IF a[2] = c[2] THEN {}
        ELSE IF a[2] = b[2] THEN RowsBetween(a[2], c[2], <<low, c[1]>>, <<high, c[1]>>)
        ELSE IF b[2] = c[2]
             THEN RowsBetween(a[2], c[2], <<a[1], Min({b[1], c[1]})>>, <<a[1], Max({b[1], c[1]})>>)
        ELSE RowsBetween(a[2], b[2], <<a[1], b[1]>>, <<a[1], x4>>)
             \cup RowsBetween(b[2], c[2], <<b[1], c[1]>>, <<x4, c[1]>>)
fb_fill_triangle(a, b, c) ==
    LET s == ByHeight(a, b, c) IN FillSorted(s[1], s[2], s[3])

Following(pts, i) == pts[(i % Len(pts)) + 1]
fb_draw_polygon(pts) ==
    IF Len(pts) < 3 THEN {}
    ELSE UNION {fb_draw_line(pts[i], Following(pts, i)) : i \in 1..Len(pts)}

\* The edges a row crosses, with where it crosses them, from left to right.
Crosses(a, b, y) == (a[2] <= y /\ b[2] > y) \/ (b[2] <= y /\ a[2] > y)
Crossing(a, b, y) == a[1] + Quot((y - a[2]) * (b[1] - a[1]), b[2] - a[2])
intersections(pts, y) ==
    LET edges == SelectSeq([i \in 1..Len(pts) |-> i], LAMBDA i : Crosses(pts[i], Following(pts, i), y))
    IN  SortSeq([k \in 1..Len(edges) |->
                   Crossing(pts[edges[k]], Following(pts, edges[k]), y)], <)
FilledRow(y, at) ==
    UNION {{<<x, y>> : x \in at[2 * k - 1]..at[2 * k]} : k \in 1..(Len(at) \div 2)}
fb_fill_polygon(pts) ==
    IF Len(pts) < 3 THEN {}
    ELSE LET ys == {pts[i][2] : i \in 1..Len(pts)}
         IN  UNION {FilledRow(y, intersections(pts, y)) : y \in Min(ys)..Max(ys)}

\* draw_os_logo skips the black pixels of the bitmap.
draw_os_logo(p, bitmap) == {Shifted(p, o[1], o[2]) : o \in bitmap}

-----------------------------------------------------------------------------
(* fbtextrender.c *)

GlyphCells == (0..(FONT_WIDTH - 1)) \X (0..(FONT_HEIGHT - 1))
Scaled(p, scale, cells) ==
    {<<p[1] + o[1] * scale + i, p[2] + o[2] * scale + j>> :
        o \in cells, i \in 0..(scale - 1), j \in 0..(scale - 1)}

\* Reduced, a pixel stands for a block and is lit when more than half of it is.
Block(o, shrink) == {q \in GlyphCells : q[1] \div shrink = o[1] /\ q[2] \div shrink = o[2]}
Blocks(shrink) == {<<q[1] \div shrink, q[2] \div shrink>> : q \in GlyphCells}
LitBlocks(glyph, shrink) ==
    {o \in Blocks(shrink) :
        Cardinality(Block(o, shrink) \cap glyph) > Cardinality(Block(o, shrink)) \div 2}

Layer(raw, colour, set) == [raw |-> raw, colour |-> colour, set |-> set]
fb_draw_char(c, p) ==
    <<Layer(TRUE, "ink", {Shifted(p, o[1], o[2]) : o \in Glyphs[c]}),
      Layer(TRUE, "paper", {Shifted(p, o[1], o[2]) : o \in GlyphCells \ Glyphs[c]})>>
fb_draw_char_scaled(c, p, scale) ==
    CASE scale > 0 -> <<Layer(TRUE, "ink", Scaled(p, scale, Glyphs[c])),
                        Layer(TRUE, "paper", Scaled(p, scale, GlyphCells \ Glyphs[c]))>>
      [] scale < 0 -> <<Layer(TRUE, "ink", Scaled(p, 1, LitBlocks(Glyphs[c], -scale))),
                        Layer(TRUE, "paper",
                              Scaled(p, 1, Blocks(-scale) \ LitBlocks(Glyphs[c], -scale)))>>
      [] scale = 0 -> <<>>

\* The line of a character, and its place on it.
Newlines(str, i) == {j \in 1..(i - 1) : str[j] = "NL"}
RowOf(str, i) == Cardinality(Newlines(str, i))
ColumnOf(str, i) == i - 1 - Max(Newlines(str, i) \cup {0})
LETTER_SPACING == 2
Advance(p, str, i, dx, dy) == Shifted(p, ColumnOf(str, i) * dx, RowOf(str, i) * dy)
fb_draw_string(str, p) ==
    FlattenSeq([i \in 1..Len(str) |->
        IF str[i] = "NL" THEN <<>>
        ELSE fb_draw_char(str[i], Advance(p, str, i, FONT_WIDTH + LETTER_SPACING, FONT_HEIGHT))])
fb_char_width_scaled(scale) ==
    IF scale > 0 THEN FONT_WIDTH * scale ELSE FONT_WIDTH \div (-scale)
char_height(scale) == IF scale > 0 THEN FONT_HEIGHT * scale ELSE FONT_HEIGHT \div (-scale)
fb_draw_string_scaled(str, p, scale) ==
    FlattenSeq([i \in 1..Len(str) |->
        IF str[i] = "NL" THEN <<>>
        ELSE fb_draw_char_scaled(str[i], Advance(p, str, i, fb_char_width_scaled(scale),
                                                 char_height(scale) + 2), scale)])
fb_draw_string_large(str, p, scale) ==
    FlattenSeq([i \in 1..Len(str) |->
        IF str[i] = "NL" THEN <<>>
        ELSE fb_draw_char_scaled(str[i], Advance(p, str, i, FONT_WIDTH * scale,
                                                 FONT_HEIGHT * scale), scale)])

\* What a call draws.
Figure(set) == <<Layer(FALSE, "ink", set)>>
Raw(set) == <<Layer(TRUE, "ink", set)>>
FilledRounded(p, w, h, radius) ==
    IF radius = 0 THEN Figure(fb_fill_rect(p, w, h))
    ELSE LET r == AtMostHalf(radius, w, h)
         IN  Figure(RoundedCentre(p, w, h, r)) \o Raw(RoundedCorners(p, w, h, r))
FilledEllipse(c, rx, ry) ==
    IF rx = 0 \/ ry = 0 THEN <<>>
    ELSE IF rx = ry THEN Figure(fb_fill_circle(c, rx))
    ELSE Raw(EllipseRows(c, rx, ry))
Layers(call) ==
    LET a == call.args
    IN  CASE call.fn = "line" -> Figure(fb_draw_line(a[1], a[2]))
          [] call.fn = "thick" -> Figure(fb_draw_line_thick(a[1], a[2], a[3]))
          [] call.fn = "rect" -> Figure(fb_draw_rect(a[1], a[2], a[3]))
          [] call.fn = "fill_rect" -> Figure(fb_fill_rect(a[1], a[2], a[3]))
          [] call.fn = "rounded" -> Figure(fb_draw_rounded_rect(a[1], a[2], a[3], a[4]))
          [] call.fn = "fill_rounded" -> FilledRounded(a[1], a[2], a[3], a[4])
          [] call.fn = "circle" -> Figure(fb_draw_circle(a[1], a[2]))
          [] call.fn = "fill_circle" -> Figure(fb_fill_circle(a[1], a[2]))
          [] call.fn = "ellipse" -> Figure(fb_draw_ellipse(a[1], a[2], a[3]))
          [] call.fn = "fill_ellipse" -> FilledEllipse(a[1], a[2], a[3])
          [] call.fn = "triangle" -> Figure(fb_draw_triangle(a[1], a[2], a[3]))
          [] call.fn = "fill_triangle" -> Figure(fb_fill_triangle(a[1], a[2], a[3]))
          [] call.fn = "polygon" -> Figure(fb_draw_polygon(a))
          [] call.fn = "fill_polygon" -> Figure(fb_fill_polygon(a))
          [] call.fn = "logo" -> Figure(draw_os_logo(a[1], a[2]))
          [] call.fn = "string" -> fb_draw_string(a[1], a[2])
          [] call.fn = "string_large" -> fb_draw_string_large(a[1], a[2], a[3])
          [] call.fn = "string_scaled" -> fb_draw_string_scaled(a[1], a[2], a[3])

-----------------------------------------------------------------------------
(* fbbase.c *)

framebuffer_t ==
    [initialized |-> FALSE, width |-> 0, height |-> 0, pitch |-> 0, clip |-> <<>>,
     back |-> NoBack, screen |-> <<>>, draws |-> 0, panic_running |-> FALSE]

\* clip is <<>> while clip_enabled is false.
OnScreen(f, p) == p[1] \in 0..(f.width - 1) /\ p[2] \in 0..(f.height - 1)
clip_coord(f, p) ==
    IF f.clip = <<>> THEN OnScreen(f, p)
    ELSE /\ f.clip[1] <= p[1] /\ p[1] < f.clip[3]
         /\ f.clip[2] <= p[2] /\ p[2] < f.clip[4]

\* The address of a pixel; the first cell is 1.
Address_Width(f, p) == p[2] * f.width + p[1] + 1
Address(f, p) == p[2] * f.pitch + p[1] + 1
WithColour(cells, at, colour) == [c \in DOMAIN cells |-> IF c \in at THEN colour ELSE cells[c]]
put_pixel_raw(f, set, colour) ==
    LET at == {Address(f, p) : p \in {q \in set : OnScreen(f, q)}}
    IN  IF f.back # NoBack THEN [f EXCEPT !.back = WithColour(@, at, colour)]
        ELSE [f EXCEPT !.screen = WithColour(@, at, colour)]
fb_put_pixel(f, set, colour) ==
    put_pixel_raw(f, {p \in set : clip_coord(f, p)}, colour)
Painted(f, layer) ==
    IF layer.raw THEN put_pixel_raw(f, layer.set, layer.colour)
    ELSE fb_put_pixel(f, layer.set, layer.colour)

\* fb_clear fills width * height cells in a row, whatever the pitch.
Cleared(f, colour) ==
    IF f.back # NoBack
    THEN [f EXCEPT !.back = WithColour(@, 1..(f.width * f.height), colour)]
    ELSE fb_put_pixel(f, fb_fill_rect(<<0, 0>>, f.width, f.height), colour)

Filled(m, colour) == [c \in 1..(m.height * m.pitch) |-> colour]

\* malloc may fail, and the kernel then draws on the screen itself.
framebuffer_init(m, got) ==
    /\ ~fb.initialized
    /\ fb' = Cleared([framebuffer_t EXCEPT
                        !.initialized = TRUE, !.width = m.width, !.height = m.height,
                        !.pitch = m.pitch, !.screen = Filled(m, "firmware"),
                        !.back = IF got THEN Filled(m, "black") ELSE NoBack], "black")
    /\ last' = [fn |-> "clear", colour |-> "black"]

Drawable == fb.initialized /\ ~fb.panic_running

fb_clear(colour) ==
    /\ Drawable
    /\ fb' = Cleared(fb, colour)
    /\ last' = [fn |-> IF fb.clip = <<>> THEN "clear" ELSE "clear_clip", colour |-> colour]

fb_clear_back ==
    /\ Drawable
    /\ fb' = IF fb.back = NoBack THEN fb
             ELSE [fb EXCEPT !.back = Filled(fb, "black")]
    /\ last' = NoCall

fb_swap_buffers ==
    /\ Drawable
    /\ fb' = IF fb.back = NoBack THEN fb ELSE [fb EXCEPT !.screen = fb.back]
    /\ last' = [fn |-> "swap"]

fb_set_clip(r) ==
    /\ Drawable
    /\ fb' = [fb EXCEPT !.clip = <<IF r[1] < 0 THEN 0 ELSE r[1], IF r[2] < 0 THEN 0 ELSE r[2],
                                   IF r[3] >= fb.width THEN fb.width ELSE r[3],
                                   IF r[4] >= fb.height THEN fb.height ELSE r[4]>>]
    /\ last' = NoCall

fb_reset_clip ==
    /\ Drawable
    /\ fb' = [fb EXCEPT !.clip = <<>>]
    /\ last' = NoCall

\* A call of a primitive.
Drawn(f, layers) == FoldLeft(Painted, f, layers)
Draw(call) ==
    /\ Drawable /\ fb.draws < MaxDraws
    /\ \E layers \in {Layers(call)} :
          /\ fb' = [Drawn(fb, layers) EXCEPT !.draws = @ + 1]
          /\ last' = [fn |-> "draw", of |-> call.fn, args |-> call.args,
                      layers |-> layers, before |-> fb]

\* panic draws and halts; a panic within panic only halts.
panic ==
    /\ Drawable
    /\ fb' = [Drawn(Cleared(fb, "red"), fb_draw_string(PanicText, <<1, 1>>))
                EXCEPT !.panic_running = TRUE]
    /\ last' = [fn |-> "panic"]

FbInit == fb = framebuffer_t /\ last = NoCall

FbNext ==
    \/ \E m \in FbModes, got \in BOOLEAN : framebuffer_init(m, got)
    \/ fb_clear("blue") \/ fb_clear_back \/ fb_swap_buffers
    \/ \E r \in FbClips : fb_set_clip(r)
    \/ fb_reset_clip
    \/ \E call \in FbCalls : Draw(call)
    \/ panic

-----------------------------------------------------------------------------
(* What the figures should be. *)

Box(p, w, h) == (p[1]..(p[1] + w - 1)) \X (p[2]..(p[2] + h - 1))
Mirrored(p, w, h, set) ==
    {<<2 * p[1] + w - 1 - q[1], q[2]>> : q \in set} = set
    /\ {<<q[1], 2 * p[2] + h - 1 - q[2]>> : q \in set} = set
Rows(set) == {q[2] : q \in set}
NoGaps(set) ==
    \A y \in Rows(set) :
        LET xs == {q[1] : q \in {r \in set : r[2] = y}} IN xs = Min(xs)..Max(xs)

\* One pixel for each step along the longer side, none more than half a pixel
\* away from the straight line.
LineRight(p, q, set) ==
    LET dx == q[1] - p[1]
        dy == q[2] - p[2]
        long == Max({Abs(dx), Abs(dy)})
    IN  /\ {p, q} \subseteq set /\ Cardinality(set) = long + 1
        /\ \A r \in set : 2 * Abs((r[1] - p[1]) * dy - (r[2] - p[2]) * dx) <= long

\* Strictly inside a polygon: an odd number of edges to the right of the point,
\* none through it.
Side(a, b, p) == (b[1] - a[1]) * (p[2] - a[2]) - (b[2] - a[2]) * (p[1] - a[1])
ToTheRight(a, b, p) == Crosses(a, b, p[2]) /\ (Side(a, b, p) > 0) = (b[2] > a[2])
Inside(pts, p) ==
    /\ \A i \in 1..Len(pts) : Side(pts[i], Following(pts, i), p) # 0
    /\ Cardinality({i \in 1..Len(pts) : ToTheRight(pts[i], Following(pts, i), p)}) % 2 = 1
Bounds(pts) ==
    LET xs == {pts[i][1] : i \in 1..Len(pts)}
        ys == {pts[i][2] : i \in 1..Len(pts)}
    IN  (Min(xs)..Max(xs)) \X (Min(ys)..Max(ys))
Missed(pts, set) == {p \in Bounds(pts) : Inside(pts, p)} \ set
FillRight(pts, set) == set \subseteq Bounds(pts) /\ Missed(pts, set) = {}

\* A triangle with corners at three heights is split at a rounded point: it may
\* miss the pixel next to its edge.
TriangleRight(pts, set) ==
    IF Cardinality({pts[i][2] : i \in 1..3}) < 3 THEN FillRight(pts, set)
    ELSE /\ set \subseteq Bounds(pts)
         /\ \A p \in Missed(pts, set) : Shifted(p, 1, 0) \in set \/ Shifted(p, -1, 0) \in set

CircleRight(c, r, set) ==
    /\ \A p \in set : Abs((p[1] - c[1]) * (p[1] - c[1]) + (p[2] - c[2]) * (p[2] - c[2]) - r * r) <= r
    /\ Rows(set) = (c[2] - r)..(c[2] + r)
EllipseRight(c, rx, ry, set) ==
    set = {p \in Box(Shifted(c, -rx, -ry), 2 * rx + 1, 2 * ry + 1) :
             (p[1] - c[1]) * (p[1] - c[1]) * ry * ry + (p[2] - c[2]) * (p[2] - c[2]) * rx * rx
                <= rx * rx * ry * ry}
RoundedRight(p, w, h, set) ==
    set \subseteq Box(p, w, h) /\ Mirrored(p, w, h, set) /\ Rows(set) = p[2]..(p[2] + h - 1)

FigureRight(of, a, layers) ==
    LET set == UNION {layers[i].set : i \in 1..Len(layers)}
    IN  CASE of = "line" -> LineRight(a[1], a[2], set)
          [] of = "rect" -> set = Box(a[1], a[2], a[3])
                                    \ Box(Shifted(a[1], 1, 1), a[2] - 2, a[3] - 2)
          [] of = "fill_rect" -> set = Box(a[1], a[2], a[3])
          [] of = "rounded" -> RoundedRight(a[1], a[2], a[3], set)
          [] of = "fill_rounded" -> RoundedRight(a[1], a[2], a[3], set) /\ NoGaps(set)
          [] of = "circle" -> CircleRight(a[1], a[2], set)
          [] of = "ellipse" -> RoundedRight(Shifted(a[1], -a[2], -a[3]), 2 * a[2] + 1,
                                            2 * a[3] + 1, set)
          [] of = "fill_ellipse" /\ a[2] # a[3] -> EllipseRight(a[1], a[2], a[3], set)
          [] of = "fill_triangle" -> TriangleRight(a, set)
          [] of = "fill_polygon" -> FillRight(a, set)
          [] of \in {"string", "string_large", "string_scaled"} ->
               \A i, j \in 1..Len(layers) : i # j => layers[i].set \cap layers[j].set = {}
          [] OTHER -> TRUE

\* The colour a cell should have after a drawing call: that of the last layer
\* with its pixel, if the layer is raw or the pixel in the clip rectangle.
Covering(f, layers, p) ==
    {i \in 1..Len(layers) : p \in layers[i].set /\ (layers[i].raw \/ clip_coord(f, p))}
Expected(f, layers, cells, c) ==
    LET p == <<(c - 1) % f.pitch, (c - 1) \div f.pitch>>
        is == IF p[1] < f.width THEN Covering(f, layers, p) ELSE {}
    IN  IF is = {} THEN cells[c] ELSE layers[Max(is)].colour
DrawnExactly(f, layers, cells, now) ==
    now = [c \in DOMAIN cells |-> Expected(f, layers, cells, c)]

PixelsOf(f) == Box(<<0, 0>>, f.width, f.height)
Target(f) == IF f.back = NoBack THEN f.screen ELSE f.back

\* A primitive draws the figure it is named for and nothing else: lines within
\* half a pixel, rectangles and ellipses exactly, no point inside a polygon missed,
\* no character over another.  (Thick lines, filled circles, which have holes, outlines
\* made of lines and the logo are taken as drawn.)  It changes only pixels on the screen,
\* and inside the clip rectangle if it draws by fb_put_pixel, in the back buffer if there
\* is one (drivers/fb).  fb_clear reaches every pixel when
\* lines have no padding, fb_swap_buffers shows the back buffer, and panic takes
\* the whole screen when it draws on the screen itself.
FbSound ==
    CASE last.fn = "draw" ->
           /\ FigureRight(last.of, last.args, last.layers)
           /\ DrawnExactly(last.before, last.layers, Target(last.before), Target(fb))
           /\ last.before.back # NoBack => fb.screen = last.before.screen
      [] last.fn = "clear" ->
           fb.pitch = fb.width \/ fb.back = NoBack =>
             \A p \in PixelsOf(fb) : Target(fb)[Address(fb, p)] = last.colour
      [] last.fn = "swap" -> fb.screen = Target(fb)
      [] last.fn = "panic" /\ fb.back = NoBack /\ fb.clip = <<>> ->
           \A p \in PixelsOf(fb) : fb.screen[Address(fb, p)] \in {"red", "ink", "paper"}
      [] OTHER -> TRUE
=============================================================================
