--------------------------- MODULE DrawingProofs ----------------------------
(***************************************************************************)
(* In which windows the screens can be drawn, out of all the sizes that a  *)
(* client can ask for.                                                     *)
(***************************************************************************)
EXTENDS Drawing, TLAPS

\* Half of what is left over is on each side.
LEMMA Centred ==
    ASSUME NEW c \in Canvases
    PROVE  /\ c.w \in Nat /\ c.h \in Nat /\ c.w >= 80 /\ c.h >= 25 /\ c.w <= 200 /\ c.h <= 200
           /\ Left(c) \in Nat /\ 2 * Left(c) + 80 <= c.w /\ c.w <= 2 * Left(c) + 81
           /\ Top(c) \in Nat /\ 2 * Top(c) + 25 <= c.h /\ c.h <= 2 * Top(c) + 26
BY DEF Canvases, COLUMNS, ROWS, MaxSide, Left, Top

\* Every text of the title stays in its row, whatever the window.
THEOREM TitleFits ==
    ASSUME NEW c \in Canvases, NEW n \in 0 .. 31, NEW m \in 0 .. 31
    PROVE  TitleTexts(c, InRow, n, m)
<1>1. c.w \in Nat /\ c.h \in Nat /\ Left(c) \in Nat /\ Top(c) \in Nat
    BY Centred
<1>2. 2 * Left(c) + 80 <= c.w /\ 2 * Top(c) + 25 <= c.h
    BY Centred
<1> HIDE DEF Left, Top
<1> QED
    BY <1>1, <1>2 DEF TitleTexts, InRow

\* The title aborts the server all the same, for the row of its longest text is
\* compared with the width: exactly in windows that are that much taller than
\* they are wide.
THEOREM TitleStands ==
    ASSUME NEW c \in Canvases, NEW dx \in {0, 1}, NEW dy \in {0, 1}, NEW selection \in 0 .. 3,
           NEW n \in 0 .. 24, NEW m \in 0 .. 24
    PROVE  Title(c, dx, dy, selection, n, m) <=> Top(c) + 37 <= c.w
<1>1. c.w \in Nat /\ c.h \in Nat /\ Left(c) \in Nat /\ Top(c) \in Nat
    BY Centred
<1>2. 2 * Left(c) + 80 <= c.w /\ 2 * Top(c) + 25 <= c.h
    BY Centred
<1>3. Block(c, Left(c) + 7 + dx, Top(c) + 1 + dy, 65, 13, 13 * 65)
    BY <1>1, <1>2 DEF Block, Area
<1>4. Cell(c, Left(c) + 30, Top(c) + 17 + 2 * selection)
    BY <1>1, <1>2 DEF Cell
<1>5. TitleTexts(c, Text, n, m) <=> Top(c) + 37 <= c.w
    BY <1>1 DEF TitleTexts, Text
<1> QED
    BY <1>3, <1>4, <1>5 DEF Title

\* The dragger stays within the scrollbar.
LEMMA DraggerFits ==
    ASSUME NEW first \in Nat, NEW last \in Nat, NEW max \in Nat \ {0}, first <= last, last <= max
    PROVE  /\ Dragger(first, last, max).y \in 0 .. 12
           /\ Dragger(first, last, max).h \in 1 .. 12
           /\ Dragger(first, last, max).y + Dragger(first, last, max).h <= 13
<1> DEFINE y == (12 * first) \div max
           z == (12 * last) \div max
<1>1. y \in 0 .. 12
    BY SMTT(30)
<1>2. z \in 0 .. 12
    BY SMTT(30)
<1>3. Dragger(first, last, max).y = y /\ Dragger(first, last, max).h = Clamped(z - y, 1, 12 - y)
    BY DEF Dragger
<1> HIDE DEF y, z
<1>4. Clamped(z - y, 1, 12 - y) \in 1 .. 12 /\ y + Clamped(z - y, 1, 12 - y) <= 13
    BY <1>1, <1>2 DEF Clamped
<1> QED
    BY <1>1, <1>3, <1>4

\* The level pit can be drawn in every window, with a full page of rows of up to
\* 57 characters (their usual length is 55).
THEOREM PitStands ==
    ASSUME NEW c \in Canvases, NEW rows \in 0 .. 16, NEW n \in 0 .. 57,
           NEW first \in Nat, NEW last \in Nat, NEW max \in Nat \ {0}, first <= last, last <= max
    PROVE  Pit(c, rows, n, Dragger(first, last, max))
<1> DEFINE d == Dragger(first, last, max)
<1>1. c.w \in Nat /\ c.h \in Nat /\ c.w >= 80 /\ c.h >= 25
    BY Centred
<1>2. d.y \in 0 .. 12 /\ d.h \in 1 .. 12 /\ d.y + d.h <= 13
    BY DraggerFits
<1> HIDE DEF d
<1>3. \A i \in 0 .. rows - 1 : Text(c, 12, 8 + i, n)
    BY <1>1 DEF Text
<1>4. Area(c, 73, 10 + d.y, 1, d.h)
    BY <1>1, <1>2, SMTT(30) DEF Area
<1> QED
    BY <1>1, <1>3, <1>4 DEF Pit, Block, Area, Cell, d

\* A play (or a replay of a log) can be drawn exactly if the box over a game
\* that is over is not too far down for the width, and if, where there is room
\* for the border, the count of ticks is not either, the log fits its lines and
\* the lines fit the window.
THEOREM GameStands ==
    ASSUME NEW c \in Canvases, NEW died \in BOOLEAN, NEW won \in BOOLEAN,
           NEW lines \in {2, 3}, NEW n \in Nat, NEW k \in Nat
    PROVE  Game(c, died, won, lines, n, k) <=>
             /\ died => Top(c) + 28 <= c.w
             /\ won /\ ~died => Top(c) + 35 <= c.w
             /\ Bordered(c) => /\ Top(c) + 26 + n <= c.w
                               /\ k <= 80 * lines
                               /\ lines = 3 => c.h # 33
<1>1. PICK x \in Nat, y \in Nat : x = Left(c) /\ y = Top(c)
    BY Centred
<1>2. PICK w \in Nat, h \in Nat : w = c.w /\ h = c.h
    BY Centred
<1>3. 2 * x + 80 <= w /\ 2 * y + 25 <= h /\ h <= 2 * y + 26
    BY <1>1, <1>2, Centred
<1>4. Bordered(c) <=> x >= 3 /\ y >= 4
    BY <1>1 DEF Bordered
<1>5. Area(c, x, y, 80, 25)
    BY <1>2, <1>3 DEF Area
<1>6. \A i \in 0 .. 80 - 1, j \in 0 .. 25 - 1 : Cell(c, x + i, y + j)
    BY <1>2, <1>3 DEF Cell
<1>7. Box(c, x + 29, y + 9, 20, 16) <=> y + 28 <= w
    BY <1>2, <1>3 DEF Box, Area, Text
<1>8. Box(c, x + 26, y + 9, 27, 23) <=> y + 35 <= w
    BY <1>2, <1>3 DEF Box, Area, Text
<1>9. ASSUME Bordered(c)
      PROVE  Border(c, lines, n, k) <=>
                 y + 26 + n <= w /\ k <= 80 * lines /\ (lines = 3 => h # 33)
    <2>1. x >= 3 /\ y >= 4
        BY <1>4, <1>9
    <2>2. /\ Line(c, x, y - 1, x + 80 - 1, y - 1)
          /\ Line(c, x, y + 25, x + 80 - 1, y + 25)
          /\ Line(c, x - 1, y, x - 1, y + 25 - 1)
          /\ Line(c, x + 80, y, x + 80, y + 25 - 1)
          /\ Cell(c, x - 1, y - 1) /\ Cell(c, x + 80, y + 25)
        BY <1>2, <1>3, <2>1 DEF Line, Cell
    <2>3. Text(c, x, y + 25 + 1, n) <=> y + 26 + n <= w
        BY <1>2 DEF Text
    <2>4. Block(c, x, y + 25 + 2, 80, lines, k) <=> k <= 80 * lines /\ (lines = 3 => h # 33)
        BY <1>2, <1>3, <2>1 DEF Block, Area
    <2> QED
        BY <1>1, <2>2, <2>3, <2>4 DEF Border, COLUMNS, ROWS
<1> QED
    BY <1>1, <1>2, <1>5, <1>6, <1>7, <1>8, <1>9 DEF Game, COLUMNS, ROWS

\* A play is safe in a window without room for the border that is not taller
\* than 114 rows, however long its log is.
THEOREM SmallWindowsStand ==
    ASSUME NEW c \in Canvases, ~Bordered(c), c.h <= 114,
           NEW died \in BOOLEAN, NEW won \in BOOLEAN, NEW n \in Nat, NEW k \in Nat
    PROVE  Game(c, died, won, 2, n, k)
<1>1. c.h \in Nat /\ c.w \in Nat /\ Top(c) \in Nat /\ 2 * Top(c) + 25 <= c.h /\ c.w >= 80
    BY Centred
<1>2. Top(c) + 35 <= c.w /\ Top(c) + 28 <= c.w
    BY <1>1
<1> QED
    BY <1>2, GameStands

\* "Draw a border around the game": in a window with room for it, a play whose
\* log is longer than two lines ends the server and every session.
THEOREM LongPlaysAbort ==
    ASSUME NEW c \in Canvases, Bordered(c), NEW died \in BOOLEAN, NEW won \in BOOLEAN,
           NEW n \in Nat, NEW k \in Nat, k > 160
    PROVE  ~Game(c, died, won, 2, n, k)
<1>1. ~(k <= 80 * 2) /\ 2 \in {2, 3}
    OBVIOUS
<1> QED
    BY <1>1, GameStands
=============================================================================
