------------------------------ MODULE Drawing -------------------------------
(***************************************************************************)
(* Where the screens draw, and the assertions of canvas.c that decide      *)
(* whether the process survives it: ASSERT aborts in every build, and with *)
(* it every session.  A canvas is its size here; texts are their lengths.  *)
(***************************************************************************)
EXTENDS Integers

COLUMNS == 80
ROWS    == 25
MaxSide == 200

\* The sizes parse_telnet_command gives a canvas.
Canvases == [w : COLUMNS .. MaxSide, h : ROWS .. MaxSide]

Left(c) == (c.w - COLUMNS) \div 2
Top(c)  == (c.h - ROWS) \div 2

-----------------------------------------------------------------------------
(* The assertions. *)

Area(c, x, y, w, h)     == x + w <= c.w /\ y + h <= c.h
Block(c, x, y, w, h, n) == Area(c, x, y, w, h) /\ n <= w * h
Cell(c, x, y)           == x < c.w /\ y < c.h
Line(c, x0, y0, x1, y1) == x0 <= c.w /\ x1 <= c.w /\ y0 <= c.h /\ y1 <= c.h

\* canvas_write compares the row with the width.
Text(c, x, y, n) == y + n <= c.w

\* A text that begins and ends in one row of the canvas.
InRow(c, x, y, n) == x + n <= c.w /\ y < c.h

-----------------------------------------------------------------------------
(* The screens: one conjunct for each call. *)

\* title_screen_update: the logo pans by dx and dy; the two lines with numbers
\* have the lengths n and m.
TitleTexts(c, T(_, _, _, _), n, m) ==
    LET x == Left(c)  y == Top(c) IN
    /\ T(c, x + 4, y + 12, n) /\ T(c, x + 4, y + 13, m) /\ T(c, x + 4, y + 14, 23)
    /\ T(c, x + 33, y + 17, 12) /\ T(c, x + 33, y + 19, 9)
    /\ T(c, x + 33, y + 21, 12) /\ T(c, x + 33, y + 23, 9)

Title(c, dx, dy, selection, n, m) ==
    LET x == Left(c)  y == Top(c) IN
    /\ Block(c, x + 7 + dx, y + 1 + dy, 65, 13, 13 * 65)
    /\ TitleTexts(c, Text, n, m)
    /\ Cell(c, x + 30, y + 17 + 2 * selection)

\* level_pit_screen_update: it draws in the corner, whatever the size.  dragger
\* is how far down the scrollbar's dragger is, and how long.
Pit(c, rows, n, dragger) ==
    /\ Block(c, 8, 0, 64, 5, 5 * 64) /\ Block(c, 12, 6, 55, 2, 2 * 55)
    /\ \A i \in 0 .. rows - 1 : Text(c, 12, 8 + i, n)
    /\ Area(c, 72, 8, 3, 16)
    /\ Cell(c, 73, 8) /\ Cell(c, 73, 9) /\ Cell(c, 73, 22) /\ Cell(c, 73, 23)
    /\ Area(c, 73, 10 + dragger.y, 1, dragger.h)

Clamped(n, low, high) == LET m == IF n < high THEN n ELSE high IN IF m > low THEN m ELSE low

\* draw_scrollbar, with the ids of the page's first and last level.
Dragger(first, last, max) ==
    LET y == (12 * first) \div max IN
    [y |-> y, h |-> Clamped((12 * last) \div max - y, 1, 12 - y)]

Bordered(c) == Left(c) >= 3 /\ Top(c) >= 4

\* The box that blinks over a game that is over, with a text of n characters.
Box(c, x, y, w, n) ==
    /\ Area(c, x, y, w + 2, 7) /\ Area(c, x + 1, y + 1, w, 5)
    /\ Text(c, x + 3, y + 3, n)

\* The border, the count of ticks (n characters) and the log (k characters, in
\* so many lines).
Border(c, lines, n, k) ==
    LET x == Left(c)  y == Top(c) IN
    /\ Line(c, x, y - 1, x + COLUMNS - 1, y - 1)
    /\ Line(c, x, y + ROWS, x + COLUMNS - 1, y + ROWS)
    /\ Line(c, x - 1, y, x - 1, y + ROWS - 1)
    /\ Line(c, x + COLUMNS, y, x + COLUMNS, y + ROWS - 1)
    /\ Cell(c, x - 1, y - 1) /\ Cell(c, x + COLUMNS, y + ROWS)
    /\ Text(c, x, y + ROWS + 1, n)
    /\ Block(c, x, y + ROWS + 2, COLUMNS, lines, k)

\* game_screen_update (2 lines of log) and replay_screen_update (3 lines).
Game(c, died, won, lines, n, k) ==
    LET x == Left(c)  y == Top(c) IN
    /\ Area(c, x, y, COLUMNS, ROWS)
    /\ \A i \in 0 .. COLUMNS - 1, j \in 0 .. ROWS - 1 : Cell(c, x + i, y + j)
    /\ died => Box(c, x + 29, y + 9, 20, 16)
    /\ won /\ ~died => Box(c, x + 26, y + 9, 27, 23)
    /\ Bordered(c) => Border(c, lines, n, k)
=============================================================================
