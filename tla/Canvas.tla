------------------------------- MODULE Canvas -------------------------------
(***************************************************************************)
(* struct canvas: what is on the client's screen as far as the server      *)
(* knows (front, buf[0]), what should be there (back, buf[1]), and how far *)
(* the flush has come that carries one over to the other, a buffer of      *)
(* bounded size at a time.                                                 *)
(***************************************************************************)
EXTENDS Utf8

CONSTANTS
    Chars,                  \* the code points drawn
    Styles, Plain, NoStyle, \* the styles, that of canvas_reset, and the zeroed one
    MoveBytes, StyleBytes,  \* the length of the escapes that move and that set a style
    BufferBytes             \* the size of the buffer of a flush

Nul   == 0
Space == 32
Bytes == [c \in Chars |-> Len(Encoded(c))]

ASSUME CanvasAssumption ==
    /\ Chars \subseteq 1 .. LastCode /\ Space \in Chars
    /\ Plain \in Styles /\ NoStyle \notin Styles
    /\ MoveBytes \in Nat \ {0} /\ StyleBytes \in Nat \ {0} /\ BufferBytes \in Nat

\* Any cell fits into an empty buffer.
ASSUME BufferAssumption ==
    \A c \in Chars : MoveBytes + StyleBytes + Bytes[c] <= BufferBytes

Cell(ch, style) == [ch |-> ch, style |-> style]

\* What can be in a cell: nothing, only where nothing was sent yet.
FrontCells == {Cell(ch, s) : ch \in Chars \cup {Nul}, s \in Styles}
BackCells  == {Cell(ch, s) : ch \in Chars, s \in Styles}

Size(c)  == c.w * c.h
Index(c, x, y) == x + y * c.w

-----------------------------------------------------------------------------
(* Creating and resizing. *)

NewCanvas(w, h) ==
    [w |-> w, h |-> h,
     front |-> [i \in 0 .. w * h - 1 |-> Cell(Nul, Plain)],
     back  |-> [i \in 0 .. w * h - 1 |-> Cell(Space, Plain)],
     index |-> 0, force |-> FALSE, flushed |-> NoStyle]

ForceNextFlush(c) == [c EXCEPT !.force = TRUE]

\* Mutant: the flush that was going on is continued on the new canvas.
ResizedOnTheWay(c, w, h) ==
    IF c.w = w /\ c.h = h THEN c
    ELSE [NewCanvas(w, h) EXCEPT !.index = IF c.index < w * h THEN c.index ELSE w * h]

\* canvas_resize.  Every row of the old canvas is copied to the same place, the
\* first row of the new one.
Resized(c, w, h) ==
    IF c.w = w /\ c.h = h THEN c
    ELSE LET new  == NewCanvas(w, h)
             kept == IF c.w > w THEN w ELSE c.w
         IN  ForceNextFlush([new EXCEPT !.back = [i \in DOMAIN @ |->
                 IF i < kept THEN c.back[i] ELSE @[i]]])

-----------------------------------------------------------------------------
(* Drawing.  All but canvas_erase and canvas_write begin the flush anew.    *)

\* An ink is a code point and the style it is drawn in.
Put(c, cells, ink) ==
    [c EXCEPT !.back = [i \in DOMAIN @ |-> IF i \in cells THEN Cell(ink[1], ink[2]) ELSE @[i]]]

Drawn(c, cells, ink) == [Put(c, cells, ink) EXCEPT !.index = 0]

Erased(c, style) == Put(c, DOMAIN c.back, <<Space, style>>)

\* A text of one character repeated.
Written(c, x, y, n, ink) == Put(c, {Index(c, x + i, y) : i \in 0 .. n - 1}, ink)

\* canvas_fill, and the blocks of characters that fill their rectangle.
FillCells(c, x, y, w, h) ==
    {Index(c, col, row) : col \in x .. x + w - 1, row \in y .. y + h - 1}

\* A block whose text may end before the rectangle is full.
BlockCells(c, x, y, w, h, n) ==
    {Index(c, x + (i % w), y + (i \div w)) : i \in 0 .. n - 1}

\* canvas_rect steps from the first to the last column, but for the first and
\* the last row.
RectCells(c, x, y, w, h) ==
    {i \in FillCells(c, x, y, w, h) :
        LET col == i % c.w  row == i \div c.w
        IN  row \in {y, y + h - 1} \/ (col - x) % (IF w = 1 THEN 1 ELSE w - 1) = 0}

(***************************************************************************)
(* canvas_line: Bresenham's algorithm, a step a cell.  Whether the row      *)
(* changes is decided after the column has.                                 *)
(***************************************************************************)
Magnitude(n) == IF n < 0 THEN -n ELSE n

LineStep(p, x1, y1, dx, dy, sx, sy) ==
    LET across == 2 * p.error >= dy
        down   == 2 * p.error <= dx
    IN  IF (across /\ p.x = x1) \/ (down /\ p.y = y1) THEN [p EXCEPT !.ended = TRUE]
        ELSE [x |-> IF across THEN p.x + sx ELSE p.x,
              y |-> IF down THEN p.y + sy ELSE p.y,
              error |-> p.error + (IF across THEN dy ELSE 0) + (IF down THEN dx ELSE 0),
              ended |-> FALSE]

LineCells(c, x0, y0, x1, y1) ==
    LET dx == Magnitude(x0 - x1)
        dy == -Magnitude(y0 - y1)
        at[n \in 0 .. dx - dy + 1] ==
            IF n = 0 THEN [x |-> x0, y |-> y0, error |-> dx + dy, ended |-> FALSE]
            ELSE LET p == at[n - 1] IN
                 IF p.ended \/ (p.x = x1 /\ p.y = y1) THEN p
                 ELSE LineStep(p, x1, y1, dx, dy,
                               IF x0 < x1 THEN 1 ELSE -1, IF y0 < y1 THEN 1 ELSE -1)
        points == {at[n] : n \in DOMAIN at}
    IN  {Index(c, p.x, p.y) : p \in {q \in points : ~q.ended}}

-----------------------------------------------------------------------------
(* Flushing. *)

Unsent(c, i) == c.force \/ c.front[i] # c.back[i]

\* Mutant: the cursor is not moved to the beginning of the next line.
MovesOnlyOver(p, i) == p.last + 1 # i

\* The cursor is where the next character belongs unless cells were skipped, or
\* the line ends, or the pass begins.
Moves(p, i) == p.last + 1 # i \/ i % p.c.w = 0

\* Mutant: a flush that did not fit begins anew.
FlushCellFromStart(p, i) ==
    IF MoveBytes + StyleBytes + Bytes[p.c.back[i].ch] > p.remaining
    THEN [p EXCEPT !.stopped = TRUE, !.more = TRUE, !.c.index = 0]
    ELSE [p EXCEPT !.remaining = @ - MoveBytes - StyleBytes - Bytes[p.c.back[i].ch],
                   !.c.front[i] = p.c.back[i], !.c.index = i + 1, !.more = TRUE,
                   !.out = @ \o <<[move |-> i], [char |-> p.c.back[i].ch, cell |-> i]>>]

\* Mutant: the style is set only where the cursor is moved.
FlushCellRestyled(p, i) ==
    LET next   == p.c.back[i]
        escape == IF ~Moves(p, i) THEN <<>>
                  ELSE <<[move |-> i]>> \o
                       (IF p.c.flushed = next.style THEN <<>> ELSE <<[style |-> next.style]>>)
        left   == p.remaining - Bytes[next.ch] -
                      (IF escape = <<>> THEN 0 ELSE MoveBytes + (Len(escape) - 1) * StyleBytes)
    IN  IF left < 0 THEN [p EXCEPT !.stopped = TRUE, !.more = TRUE, !.c.index = i]
        ELSE [p EXCEPT !.remaining = left, !.more = TRUE, !.last = i,
                       !.c = [@ EXCEPT !.front[i] = next, !.index = i + 1,
                                       !.flushed = IF Len(escape) = 2 THEN next.style ELSE @],
                       !.out = (@ \o escape) \o <<[char |-> next.ch, cell |-> i]>>]

(***************************************************************************)
(* One cell.  If a part of it does not fit, nothing of it is sent, but the *)
(* style that was already written counts as sent.                          *)
(***************************************************************************)
FlushCell(p, i) ==
    LET next  == p.c.back[i]
        move  == IF Moves(p, i) THEN MoveBytes ELSE 0
        style == IF p.c.flushed # next.style THEN StyleBytes ELSE 0
        left  == p.remaining - move - style
        stop  == [p EXCEPT !.stopped = TRUE, !.more = TRUE, !.c.index = i]
    IN  IF (move > 0 /\ move >= p.remaining) \/ (style > 0 /\ left <= 0) THEN stop
        ELSE IF Bytes[next.ch] > left THEN [stop EXCEPT !.c.flushed = next.style]
        ELSE [p EXCEPT
                !.remaining = left - Bytes[next.ch],
                !.c.flushed = next.style,
                !.c.front[i] = next,
                !.c.index = i + 1,
                !.last = i,
                !.more = TRUE,
                !.out = (@ \o (IF move > 0 THEN <<[move |-> i]>> ELSE <<>>))
                        \o (IF style > 0 THEN <<[style |-> next.style]>> ELSE <<>>)
                        \o <<[char |-> next.ch, cell |-> i]>>]

\* canvas_flush: the canvas after it, what it wrote, and whether it returns true.
Flushed(c) ==
    IF c.index = Size(c) THEN [c |-> [c EXCEPT !.force = FALSE], out |-> <<>>, more |-> FALSE]
    ELSE LET from == c.index
             upTo[i \in from - 1 .. Size(c) - 1] ==
                 IF i < from
                 THEN [c |-> c, last |-> from, remaining |-> BufferBytes,
                       out |-> <<>>, stopped |-> FALSE, more |-> FALSE]
                 ELSE LET p == upTo[i - 1] IN
                      IF p.stopped THEN p
                      ELSE IF p.remaining = 0 THEN [p EXCEPT !.stopped = TRUE, !.c.index = i]
                      ELSE IF Unsent(p.c, i) THEN FlushCell(p, i)
                      ELSE [p EXCEPT !.c.index = i + 1]
             p == upTo[Size(c) - 1]
         IN  [c |-> p.c, out |-> p.out, more |-> p.more]
=============================================================================
