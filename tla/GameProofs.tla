----------------------------- MODULE GameProofs -----------------------------
(***************************************************************************)
(* What no tick can do, on a field of any size and whatever rules meet.    *)
(*                                                                         *)
(* A pass applies a rule to one cell after the other, each to what the     *)
(* ones before have made of the field.  A context c holds what the tick    *)
(* started with; Reach(c) is the set of the works that any rules could     *)
(* have made of it by then: a wall that is gone was undermined in the      *)
(* field the tick read, an exit that is open without right is one the pass *)
(* has not come to (c.open), a win had an exit to walk into.  Every        *)
(* operator of GameRules leads from Reach(c) to Reach(c); so does a pass,  *)
(* by induction over its cells, and with it the tick.  The properties of   *)
(* Game follow, with one strengthening: the first tick of a play shuts     *)
(* every exit that the level's text had open (NoExitLeft).                 *)
(*                                                                         *)
(* That nothing is copied but by what copies it (CopiesHaveMakers) needs   *)
(* another argument, for a rule may write a second player, boulder or coin *)
(* before it blanks the first.  In a tick whose field has nothing that     *)
(* doubles a tile T, every T the tick began with keeps one place where it  *)
(* may be found, and every T is at one of those places (Tracked, Track):   *)
(* there are never more of them than places.  A boulder that was pushed    *)
(* aside may still be in the field the pass reads, so that it could fall   *)
(* once more from where it no longer is; Spot says of such a place why the *)
(* pass will not move it again: either its cell has been visited, or what  *)
(* is beneath it is still there (Aside).                                   *)
(***************************************************************************)
EXTENDS Game, SequenceTheorems, Induction

-----------------------------------------------------------------------------
(* What the rules may do. *)

Fields == [Rows -> [Cols -> Tiles]]

\* struct game in the course of a tick.
Works == [field : Fields, next : Fields, keys : SUBSET Dirs, win : BOOLEAN,
          die : BOOLEAN, noMoney : BOOLEAN, reverse : BOOLEAN, tired : {0, 1, 2},
          money : Nat, players : Nat, stray : SUBSET {"write", "crash"}]

\* What a tick started with, what it may bring about, and which exits are open.
Contexts == [field : Fields, keys : SUBSET Dirs, noMoney : BOOLEAN, win : BOOLEAN,
             stray : SUBSET {"write", "crash"}, open : [Rows -> [Cols -> BOOLEAN]]]

\* What may be gone from a wall's place.
Undermined(c, y, x) ==
    \/ TileAt(c, y + 1, x) = "x"
    \/ TileAt(c, y - 1, x) = ";" /\ TileAt(c, y - 2, x) \in {"O", "%"}
    \/ \E d \in {-1, 1} : /\ TileAt(c, y, x - d) = IF d = 1 THEN "]" ELSE "["
                          /\ TileAt(c, y + 1, x - d) \in {"O", Money}

\* A cell that something else may be put in.
Yielding(c, y, x) == \/ ~Inside(y, x)
                     \/ c.field[y][x] # "#"
                     \/ Undermined(c, y, x)

\* What w may have made of a cell: of the field that is read, only boulders go.
Faithful(c, w, y, x) ==
    /\ \/ w.field[y][x] = c.field[y][x]
       \/ c.field[y][x] = "O" /\ w.field[y][x] = " "
    /\ ~c.noMoney /\ w.next[y][x] = "E" => c.field[y][x] = "E" /\ c.open[y][x]
    /\ c.field[y][x] = "#" /\ w.next[y][x] # "#" => Undermined(c, y, x)

\* The works that rules may have made of c.
Reach(c) ==
    {w \in Works :
       /\ w.keys = c.keys /\ w.noMoney = c.noMoney
       /\ w.win => c.win
       /\ w.stray \subseteq c.stray
       /\ \A y \in Rows, x \in Cols : Faithful(c, w, y, x)}

\* The works within reach that show the rules the same field as w does.
Onward(c, w) == {v \in Reach(c) : v.field = w.field}

\* Put writes a tile where the walls let it, an exit only when the money is gone.
LEMMA PutReach ==
    ASSUME NEW c \in Contexts, NEW w \in Reach(c), NEW y \in Int, NEW x \in Int,
           NEW t \in Tiles, t # "E" \/ c.noMoney, Yielding(c, y, x)
    PROVE  Put(w, y, x, t) \in Onward(c, w)
<1> DEFINE v == Put(w, y, x, t)
<1>1. w \in Works /\ w.next \in Fields
  BY DEF Reach, Works
<1>2. v = [w EXCEPT !.next = [w.next EXCEPT ![y] = [w.next[y] EXCEPT ![x] = t]]]
  BY DEF Put
<1>3. [w.next EXCEPT ![y] = [w.next[y] EXCEPT ![x] = t]] \in Fields
  BY <1>1 DEF Fields
<1>4. v \in Works /\ v.field = w.field /\ v.keys = w.keys /\ v.noMoney = w.noMoney /\ v.win = w.win /\ v.stray = w.stray
      /\ v.next = [w.next EXCEPT ![y] = [w.next[y] EXCEPT ![x] = t]]
  BY <1>1, <1>2, <1>3 DEF Works
<1>5. \A i \in Rows, j \in Cols : v.next[i][j] = IF i = y /\ j = x THEN t ELSE w.next[i][j]
  BY <1>1, <1>4 DEF Fields
<1> HIDE DEF v
<1>6. ASSUME NEW i \in Rows, NEW j \in Cols PROVE Faithful(c, v, i, j)
  <2>1. Faithful(c, w, i, j)
    BY DEF Reach
  <2>2. CASE i = y /\ j = x
    <3>1. v.next[i][j] = t
      BY <1>5, <2>2
    <3>2. c.field[i][j] = "#" => Undermined(c, i, j)
      BY <2>2 DEF Yielding, Inside
    <3> QED BY <2>1, <3>1, <3>2, <1>4 DEF Faithful
  <2>3. CASE ~(i = y /\ j = x)
    <3>1. v.next[i][j] = w.next[i][j]
      BY <1>5, <2>3
    <3> QED BY <2>1, <3>1, <1>4 DEF Faithful
  <2> QED BY <2>2, <2>3
<1>7. v.keys = c.keys /\ v.noMoney = c.noMoney /\ (v.win => c.win) /\ v.stray \subseteq c.stray
  BY <1>4 DEF Reach
<1>8. v \in Reach(c)
  BY <1>4, <1>6, <1>7 DEF Reach
<1> QED BY <1>4, <1>8 DEF v, Onward

\* Everything but the cells may change freely.
LEMMA SameCells ==
    ASSUME NEW c \in Contexts, NEW w \in Reach(c), NEW v \in Works,
           v.field = w.field, v.next = w.next, v.keys = w.keys, v.noMoney = w.noMoney,
           v.win => c.win, v.stray \subseteq c.stray
    PROVE  v \in Onward(c, w)
<1>1. \A y \in Rows, x \in Cols : Faithful(c, v, y, x)
  <2> SUFFICES ASSUME NEW y \in Rows, NEW x \in Cols PROVE Faithful(c, v, y, x)
    OBVIOUS
  <2>1. Faithful(c, w, y, x)
    BY DEF Reach
  <2> QED BY <2>1 DEF Faithful
<1>2. v.keys = c.keys /\ v.noMoney = c.noMoney
  BY DEF Reach
<1> QED BY <1>1, <1>2 DEF Reach, Onward

\* Winning, dying, pulling the lever, resting and counting change no cell; what
\* a win and a stray access need, c must allow.
LEMMA FlagsReach ==
    ASSUME NEW c \in Contexts, NEW w \in Reach(c)
    PROVE  /\ c.win => [w EXCEPT !.win = TRUE] \in Onward(c, w)
           /\ [w EXCEPT !.die = TRUE] \in Onward(c, w)
           /\ [w EXCEPT !.reverse = TRUE] \in Onward(c, w)
           /\ \A t \in {0, 1, 2} : [w EXCEPT !.tired = t] \in Onward(c, w)
           /\ [w EXCEPT !.money = @ + 1] \in Onward(c, w)
           /\ [w EXCEPT !.players = @ + 1] \in Onward(c, w)
           /\ \A s \in c.stray : [w EXCEPT !.stray = @ \cup {s}] \in Onward(c, w)
<1>1. w \in Works /\ (w.win => c.win) /\ w.stray \subseteq c.stray
  BY DEF Reach
<1>2. c.stray \subseteq {"write", "crash"}
  BY DEF Contexts
<1>3. \A v : v \in Works /\ v.field = w.field /\ v.next = w.next /\ v.keys = w.keys /\ v.noMoney = w.noMoney
              /\ (v.win => c.win) /\ v.stray \subseteq c.stray => v \in Onward(c, w)
  BY SameCells
<1>4. c.win => [w EXCEPT !.win = TRUE] \in Onward(c, w)
  BY <1>1, <1>3 DEF Works
<1>5. [w EXCEPT !.die = TRUE] \in Onward(c, w)
  BY <1>1, <1>3 DEF Works
<1>6. [w EXCEPT !.reverse = TRUE] \in Onward(c, w)
  BY <1>1, <1>3 DEF Works
<1>7. \A t \in {0, 1, 2} : [w EXCEPT !.tired = t] \in Onward(c, w)
  BY <1>1, <1>3 DEF Works
<1>8. [w EXCEPT !.money = @ + 1] \in Onward(c, w)
  <2>1. w.money + 1 \in Nat BY <1>1 DEF Works
  <2> QED BY <1>1, <1>3, <2>1 DEF Works
<1>9. [w EXCEPT !.players = @ + 1] \in Onward(c, w)
  <2>1. w.players + 1 \in Nat BY <1>1 DEF Works
  <2> QED BY <1>1, <1>3, <2>1 DEF Works
<1>10. \A s \in c.stray : [w EXCEPT !.stray = @ \cup {s}] \in Onward(c, w)
  BY <1>1, <1>2, <1>3 DEF Works
<1> QED BY <1>4, <1>5, <1>6, <1>7, <1>8, <1>9, <1>10

\* What a rule finds in a cell is a tile, and beyond the field nothing.
LEMMA Kinds ==
    ASSUME NEW c \in Contexts, NEW w \in Reach(c), NEW y \in Int, NEW x \in Int
    PROVE  /\ TileAt(w, y, x) \in Tiles \/ TileAt(w, y, x) = None
           /\ TileAt(w, y, x) = None \/ Inside(y, x)
<1>0. w.field \in Fields
  BY DEF Reach, Works
<1> QED BY <1>0 DEF TileAt, Inside, Fields

\* A rule reads what the tick started with, but for boulders that have fallen.
LEMMA Reading ==
    ASSUME NEW c \in Contexts, NEW w \in Reach(c), NEW y \in Int, NEW x \in Int
    PROVE  /\ TileAt(w, y, x) = " " \/ TileAt(c, y, x) = TileAt(w, y, x)
           /\ TileAt(c, y, x) = "O" \/ TileAt(w, y, x) = TileAt(c, y, x)
<1>1. CASE Inside(y, x)
  <2>1. Faithful(c, w, y, x)
    BY <1>1 DEF Reach, Inside
  <2>2. TileAt(w, y, x) = w.field[y][x] /\ TileAt(c, y, x) = c.field[y][x]
    BY <1>1 DEF TileAt
  <2> QED BY <2>1, <2>2 DEF Faithful
<1>2. CASE ~Inside(y, x)
  BY <1>2 DEF TileAt
<1> QED BY <1>1, <1>2

\* Only a wall is in the way of everything: what is not one may give way.
LEMMA Free ==
    ASSUME NEW c \in Contexts, NEW w \in Reach(c), NEW y \in Int, NEW x \in Int
    PROVE  /\ TileAt(w, y, x) = "#" \/ Yielding(c, y, x)
           /\ Occupied(w, y, x) \/ Inside(y, x)
           /\ Occupied(w, y, x) \/ Yielding(c, y, x)
           /\ Occupied(w, y, x) \in BOOLEAN
<1>1. TileAt(w, y, x) = "#" \/ Yielding(c, y, x)
  <2>1. TileAt(c, y, x) = "#" \/ Yielding(c, y, x)
    BY DEF TileAt, Yielding
  <2>2. TileAt(w, y, x) = TileAt(c, y, x) \/ TileAt(c, y, x) = "O"
    BY Reading
  <2> QED BY <2>1, <2>2
<1>2. Occupied(w, y, x) \/ Inside(y, x)
  BY DEF Occupied
<1>3. Occupied(w, y, x) \/ TileAt(w, y, x) # "#"
  BY DEF Occupied, TileAt
<1>4. Occupied(w, y, x) \in BOOLEAN
  BY DEF Occupied
<1> QED BY <1>1, <1>2, <1>3, <1>4

\* Steps onward compose, and all of them show the same field.
LEMMA OnwardFacts ==
    ASSUME NEW c \in Contexts, NEW w \in Reach(c)
    PROVE  /\ w \in Onward(c, w)
           /\ \A v \in Onward(c, w) :
                /\ v \in Reach(c)
                /\ \A u \in Onward(c, v) : u \in Onward(c, w)
                /\ \A y, x : TileAt(v, y, x) = TileAt(w, y, x)
  BY DEF Onward, TileAt

\* c allows what its field may bring about: the two ways out of memory, and a win.
Fits(c) ==
    /\ \A x \in Cols : c.field[ROWS - 1][x] \in {";", "O"} => "write" \in c.stray
    /\ \A y \in Rows :
         /\ c.field[y][0] = "O"
         /\ \/ TileAt(c, y - 1, 0) = "I"
            \/ TileAt(c, y, 1) = "I" /\ TileAt(c, y + 1, 1) \in {"(", "<"}
         => "crash" \in c.stray
    /\ \A y \in Rows, x \in Cols : c.field[y][x] = "E" => c.win

\* Asking for the cell as a player does not bring the process down, or it may.
Steady(c, y, x) ==
    /\ x = 0 /\ TileAt(c, y, 0) = "O"
    /\ Inside(y, 1) /\ "right" \in c.keys /\ "left" \notin c.keys
    => "crash" \in c.stray

\* The arithmetic of the cells around a cell.
LEMMA Numbers ==
    /\ \A y \in Rows : /\ y \in Int /\ y + 1 \in Int /\ y - 1 \in Int /\ y + 2 \in Int /\ y - 2 \in Int
                       /\ (y + 2) - 1 = y + 1 /\ (y + 2) - 2 = y
                       /\ (y + 1) - 1 = y /\ (y - 1) + 1 = y
                       /\ y + 1 < ROWS => y + 1 \in Rows
                       /\ y + 2 < ROWS => y + 1 < ROWS /\ y + 2 \in Rows
                       /\ ~(y + 2 < ROWS) => y = ROWS - 1 \/ (y + 1 = ROWS - 1 /\ y + 1 < ROWS)
    /\ \A x \in Cols : /\ x \in Int /\ x + 1 \in Int /\ x - 1 \in Int
                       /\ (x + 1) - 1 = x /\ (x - 1) + 1 = x
                       /\ \A d \in Int : x - d = -1 /\ d \in {-1, 0, 1} => x = 0 /\ d = 1 /\ x + d = 1
  BY SizeAssumption DEF Rows, Cols

\* The catch under a pushed boulder is undermined by it (CatchBelow).
LEMMA CatchReach ==
    ASSUME NEW c \in Contexts, Fits(c), NEW w \in Reach(c), NEW y \in Rows, NEW x \in Cols,
           TileAt(c, y, x) = "O"
    PROVE  CatchBelow(w, y, x) \in Onward(c, w)
<1> DEFINE catch == IF y + 1 < ROWS THEN w.field[y + 1][x] ELSE w.next[0][x]
<1>1. CatchBelow(w, y, x) = IF catch # ";" THEN w
           ELSE IF y + 2 < ROWS THEN Put(w, y + 2, x, " ")
           ELSE [w EXCEPT !.stray = @ \cup {"write"}]
  BY DEF CatchBelow
<1>2. CASE catch = ";" /\ y + 2 < ROWS
  <2>1. y + 1 < ROWS /\ y + 1 \in Rows /\ y \in Int /\ x \in Int /\ y + 2 \in Int /\ (y + 2) - 1 = y + 1 /\ (y + 2) - 2 = y
    BY <1>2, Numbers, Zenon
  <2>2. w.field[y + 1][x] = ";" /\ Faithful(c, w, y + 1, x)
    BY <1>2, <2>1 DEF Reach
  <2>3. TileAt(c, y + 1, x) = ";"
    BY <2>1, <2>2 DEF TileAt, Inside, Faithful
  <2>4. Yielding(c, y + 2, x)
    BY <2>1, <2>3 DEF Yielding, Undermined
  <2>5. " " \in Tiles /\ " " # "E"
    BY DEF Tiles
  <2> HIDE DEF catch
  <2>6. Put(w, y + 2, x, " ") \in Onward(c, w)
    BY <2>1, <2>4, <2>5, PutReach
  <2> QED BY <1>1, <1>2, <2>6
<1>3. CASE catch = ";" /\ ~(y + 2 < ROWS)
  <2>1. "write" \in c.stray
    <3>1. CASE y + 1 < ROWS
      <4>0. y + 1 \in Rows /\ y # ROWS - 1
        BY <3>1, SizeAssumption DEF Rows
      <4>1. y + 1 \in Rows /\ y + 1 = ROWS - 1
        BY <1>3, <4>0, Numbers, Zenon
      <4>2. w.field[y + 1][x] = ";" /\ Faithful(c, w, y + 1, x)
        BY <1>3, <3>1, <4>1 DEF Reach
      <4>3. c.field[ROWS - 1][x] = ";"
        BY <4>1, <4>2 DEF Faithful
      <4> QED BY <4>3 DEF Fits
    <3>2. CASE ~(y + 1 < ROWS)
      <4>1. y = ROWS - 1
        BY <1>3, <3>2, Numbers, Zenon
      <4>2. c.field[y][x] = "O"
        BY DEF TileAt, Inside
      <4> QED BY <4>1, <4>2 DEF Fits
    <3> QED BY <3>1, <3>2
  <2>2. CatchBelow(w, y, x) = [w EXCEPT !.stray = @ \cup {"write"}]
    BY <1>1, <1>3
  <2> HIDE DEF catch
  <2> QED BY <2>1, <2>2, FlagsReach
<1>4. CASE catch # ";"
  BY <1>1, <1>4, OnwardFacts
<1> QED BY <1>2, <1>3, <1>4

\* Pushing a boulder (PushBoulder).
LEMMA PushBoulderReach ==
    ASSUME NEW c \in Contexts, Fits(c), NEW w \in Reach(c), NEW y \in Rows, NEW x \in Cols,
           TileAt(w, y, x) = "O", Steady(c, y, x)
    PROVE  PushBoulder(w, y, x).w \in Onward(c, w)
<1> DEFINE d == IF "left" \in w.keys THEN -1 ELSE IF "right" \in w.keys THEN 1 ELSE 0
           pushed == Move(w, y, x, y, x + d, "O")
           caught == CatchBelow(pushed, y, x)
<1>0. d \in Int /\ x + d \in Int /\ y \in Int /\ x \in Int /\ y + 1 \in Int
  BY DEF Rows, Cols
<1>1. PushBoulder(w, y, x) =
        IF d = 0 \/ ~Occupied(w, y + 1, x) \/ Occupied(w, y, x + d) THEN Answer(TRUE, w)
        ELSE IF x - d = -1 THEN Answer(TRUE, [w EXCEPT !.stray = @ \cup {"crash"}])
        ELSE IF RawTile(w, y, x - d) # "I" THEN Answer(TRUE, w)
        ELSE Answer(FALSE, [caught EXCEPT !.tired = IF @ = 0 THEN 1 ELSE @])
  BY DEF PushBoulder
<1>2. CASE d = 0 \/ ~Occupied(w, y + 1, x) \/ Occupied(w, y, x + d)
  BY <1>1, <1>2, OnwardFacts DEF Answer
<1>3. CASE d # 0 /\ ~Occupied(w, y, x + d) /\ x - d = -1
  <2>1. x = 0 /\ d = 1 /\ x + d = 1
    BY <1>3 DEF Cols
  <2>2. "right" \in w.keys /\ "left" \notin w.keys /\ w.keys = c.keys
    BY <2>1 DEF Reach
  <2>3. Inside(y, 1)
    <3>1. Inside(y, x + d)
      BY <1>3 DEF Occupied
    <3> HIDE DEF d, caught
    <3> QED BY <2>1, <3>1
  <2>4. TileAt(c, y, 0) = "O"
    <3> HIDE DEF d, pushed, caught
    <3>1. TileAt(c, y, x) = "O"
      BY <1>0, Reading
    <3> QED BY <2>1, <3>1, Zenon
  <2>5. "crash" \in c.stray
    BY <2>1, <2>2, <2>3, <2>4 DEF Steady
  <2>6. [w EXCEPT !.stray = @ \cup {"crash"}] \in Onward(c, w)
    BY <2>5, FlagsReach
  <2> HIDE DEF d, caught
  <2> QED BY <1>1, <1>2, <1>3, <2>6 DEF Answer
<1>4. CASE ~Occupied(w, y, x + d)
  <2> HIDE DEF d
  <2>1. Yielding(c, y, x + d) /\ Yielding(c, y, x) /\ TileAt(c, y, x) = "O"
    <3>1. TileAt(c, y, x) = "O"
      BY <1>0, Reading
    <3>2. Yielding(c, y, x + d)
      BY <1>0, <1>4, Reading, Free
    <3>3. Yielding(c, y, x)
      BY <1>0, Reading, Free
    <3> QED BY <3>1, <3>2, <3>3
  <2>2. pushed \in Onward(c, w)
    <3>1. "O" \in Tiles /\ " " \in Tiles /\ "O" # "E" /\ " " # "E"
      BY DEF Tiles
    <3>2. Put(w, y, x + d, "O") \in Onward(c, w)
      BY <1>0, <2>1, <3>1, PutReach
    <3>3. pushed \in Onward(c, Put(w, y, x + d, "O"))
      <4>1. Put(w, y, x + d, "O") \in Reach(c)
        BY <3>2, OnwardFacts
      <4> QED BY <1>0, <2>1, <3>1, <4>1, PutReach DEF Move
    <3> HIDE DEF pushed
    <3> QED BY <3>2, <3>3, OnwardFacts
  <2> HIDE DEF pushed
  <2>3. caught \in Onward(c, pushed) /\ pushed \in Reach(c)
    BY <2>1, <2>2, CatchReach, OnwardFacts
  <2> HIDE DEF caught
  <2>4. caught \in Reach(c) /\ caught.tired \in {0, 1, 2}
    BY <2>3, OnwardFacts DEF Reach, Works
  <2>5. [caught EXCEPT !.tired = IF @ = 0 THEN 1 ELSE @] \in Onward(c, caught)
    BY <2>4, FlagsReach
  <2>6. [caught EXCEPT !.tired = IF @ = 0 THEN 1 ELSE @] \in Onward(c, w)
    BY <2>2, <2>3, <2>5, OnwardFacts
  <2>7. w \in Onward(c, w)
    BY OnwardFacts
  <2> QED BY <1>1, <1>2, <1>3, <1>4, <2>6, <2>7 DEF Answer
<1> QED BY <1>2, <1>4

\* A tile moves where the walls let it.
LEMMA MoveReach ==
    ASSUME NEW c \in Contexts, NEW w \in Reach(c), NEW y \in Int, NEW x \in Int,
           NEW ty \in Int, NEW tx \in Int, NEW t \in Tiles, t # "E",
           Yielding(c, y, x), Yielding(c, ty, tx)
    PROVE  Move(w, y, x, ty, tx, t) \in Onward(c, w)
<1>1. Put(w, ty, tx, t) \in Onward(c, w)
  BY PutReach
<1>2. Put(w, ty, tx, t) \in Reach(c)
  BY <1>1, OnwardFacts
<1>3. " " \in Tiles /\ " " # "E"
  BY DEF Tiles
<1>4. Move(w, y, x, ty, tx, t) \in Onward(c, Put(w, ty, tx, t))
  BY <1>2, <1>3, PutReach DEF Move
<1> QED BY <1>1, <1>4, OnwardFacts

\* An answer of probe that a rule may rely on: it has done nothing out of reach,
\* and lets only into cells that yield.
Told(c, w, y, x, p) == p.w \in Onward(c, w) /\ (p.blocked \/ Yielding(c, y, x))

\* What probe answers when it has done no more than v.
LEMMA Answers ==
    ASSUME NEW c, NEW w, NEW y, NEW x, NEW v \in Onward(c, w)
    PROVE  /\ Told(c, w, y, x, Answer(TRUE, v))
           /\ Yielding(c, y, x) => Told(c, w, y, x, Answer(FALSE, v))
           /\ \A b \in BOOLEAN : b \/ Yielding(c, y, x) => Told(c, w, y, x, Answer(b, v))
<1>1. \A b \in BOOLEAN : Answer(b, v).w = v /\ (Answer(b, v).blocked <=> b)
  BY DEF Answer
<1>2. \A b \in BOOLEAN : b \/ Yielding(c, y, x) => Told(c, w, y, x, Answer(b, v))
  BY <1>1 DEF Told
<1> QED BY <1>2

\* Asking as a player: a win only at an exit that is there (ProbePlayer).
LEMMA ProbePlayerTold ==
    ASSUME NEW c \in Contexts, Fits(c), NEW w \in Reach(c), NEW y \in Int, NEW x \in Int,
           Steady(c, y, x)
    PROVE  Told(c, w, y, x, ProbePlayer(w, y, x))
<1> DEFINE ob == TileAt(w, y, x)
<1>1. /\ ob = "E" => ProbePlayer(w, y, x) = Answer(FALSE, [w EXCEPT !.win = TRUE])
      /\ ob = "O" => ProbePlayer(w, y, x) = PushBoulder(w, y, x)
  BY DEF ProbePlayer, Money, Walkers
<1>2. CASE ob = "E"
  <2>1. Inside(y, x) /\ Yielding(c, y, x) /\ TileAt(c, y, x) = "E"
    <3>1. "E" # None /\ "E" # "#" /\ "E" # " "
      BY DEF None
    <3> HIDE DEF ob
    <3>2. ob # None /\ ob # "#" /\ ob # " "
      BY <1>2, <3>1
    <3> USE DEF ob
    <3>3. Inside(y, x)
      BY <3>2, Kinds
    <3>4. Yielding(c, y, x)
      BY <3>2, Free
    <3>5. TileAt(c, y, x) = TileAt(w, y, x)
      BY <3>2, Reading
    <3> QED BY <1>2, <3>3, <3>4, <3>5
  <2>2. c.win
    BY <2>1 DEF Fits, Inside, TileAt
  <2>3. [w EXCEPT !.win = TRUE] \in Onward(c, w)
    BY <2>2, FlagsReach
  <2> HIDE DEF ob
  <2> QED BY <1>1, <1>2, <2>1, <2>3, Answers
<1>3. CASE ob = Money
  <2>1. Yielding(c, y, x)
    <3>1. Money # "#"
      BY DEF Money
    <3>2. TileAt(w, y, x) # "#"
      BY <1>3, <3>1
    <3> QED BY <3>2, Reading, Free
  <2>2. Put(w, y, x, " ") \in Onward(c, w)
    <3>1. " " \in Tiles /\ " " # "E"
      BY DEF Tiles
    <3> QED BY <2>1, <3>1, PutReach
  <2> HIDE DEF ob
  <2> USE DEF ob
  <2>3. ProbePlayer(w, y, x) = Answer(FALSE, Put(w, y, x, " "))
    BY <1>3 DEF ProbePlayer, Money, Walkers
  <2> QED BY <2>1, <2>2, <2>3, Answers
<1>4. CASE ob \in Walkers \cup {"%"}
  <2>1. [w EXCEPT !.die = TRUE] \in Onward(c, w)
    BY FlagsReach
  <2>2. ProbePlayer(w, y, x) = Answer(TRUE, [w EXCEPT !.die = TRUE])
    BY <1>4 DEF ProbePlayer, Money, Walkers
  <2> QED BY <2>1, <2>2, Answers
<1>5. CASE ob = "O"
  <2>1. Inside(y, x) /\ Yielding(c, y, x)
    <3>1. "O" # None /\ "O" # "#"
      BY DEF None
    <3> QED BY <1>5, <3>1, Kinds, Free
  <2>2. PushBoulder(w, y, x).w \in Onward(c, w)
    BY <1>5, <2>1, PushBoulderReach DEF Inside
  <2> HIDE DEF ob
  <2> QED BY <1>1, <1>5, <2>1, <2>2 DEF Told
<1>6. CASE ob \notin {"E", Money, "%", "O"} \cup Walkers
  <2>1. w \in Onward(c, w) /\ (Occupied(w, y, x) \/ Yielding(c, y, x))
                /\ Occupied(w, y, x) \in BOOLEAN
    BY OnwardFacts, Free
  <2>2. ProbePlayer(w, y, x) = Answer(Occupied(w, y, x), w)
    BY <1>6 DEF ProbePlayer
  <2> QED BY <2>1, <2>2, Answers
<1> QED BY <1>2, <1>3, <1>4, <1>5, <1>6

\* Asking as a walker (ProbeWalker).
LEMMA ProbeWalkerTold ==
    ASSUME NEW c \in Contexts, Fits(c), NEW w \in Reach(c), NEW y \in Int, NEW x \in Int,
           NEW ch
    PROVE  Told(c, w, y, x, ProbeWalker(w, y, x, ch))
<1> DEFINE ob == TileAt(w, y, x)
           d  == Ahead(ch)
           pushing == ob \in {"O", Money} /\ Occupied(w, y + 1, x) /\ ~Occupied(w, y, x + d)
<1>0. d \in Int /\ x + d \in Int
  BY DEF Ahead
<1>1. /\ ob = "I" => ProbeWalker(w, y, x, ch) = Answer(FALSE, [w EXCEPT !.die = TRUE])
      /\ pushing => ProbeWalker(w, y, x, ch) = Answer(FALSE, Put(w, y, x + d, ob))
      /\ ob # "I" /\ ~pushing => ProbeWalker(w, y, x, ch) = Answer(Occupied(w, y, x), w)
  BY DEF ProbeWalker, Money
<1>2. CASE ob = "I"
  <2>1. Yielding(c, y, x)
    <3>1. "I" # "#" OBVIOUS
    <3> QED BY <1>2, <3>1, Reading, Free
  <2>2. [w EXCEPT !.die = TRUE] \in Onward(c, w)
    BY FlagsReach
  <2> HIDE DEF ob, pushing
  <2> QED BY <1>1, <1>2, <2>1, <2>2, Answers
<1>3. CASE pushing
  <2>1. Yielding(c, y, x) /\ Yielding(c, y, x + d)
    <3>1. "O" # "#" /\ Money # "#"
      BY DEF Money
    <3> HIDE DEF d
    <3>2. ob # "#" /\ ~Occupied(w, y, x + d)
      BY <1>3, <3>1
    <3> HIDE DEF ob, pushing
    <3>3. Yielding(c, y, x + d)
      BY <1>0, <3>2, Reading, Free
    <3>4. Yielding(c, y, x)
      BY <3>2, Reading, Free DEF ob
    <3> QED BY <3>3, <3>4
  <2>2. ob \in Tiles /\ ob # "E"
    BY <1>3 DEF Tiles, Money
  <2>3. Put(w, y, x + d, ob) \in Onward(c, w)
    <3> HIDE DEF d, ob, pushing
    <3> QED BY <1>0, <2>1, <2>2, PutReach
  <2> HIDE DEF ob, pushing, d
  <2> QED BY <1>1, <1>3, <2>1, <2>3, Answers
<1>4. CASE ob # "I" /\ ~pushing
  <2>1. w \in Onward(c, w) /\ (Occupied(w, y, x) \/ Yielding(c, y, x))
                /\ Occupied(w, y, x) \in BOOLEAN
    BY OnwardFacts, Free
  <2> HIDE DEF ob, pushing, d
  <2> QED BY <1>1, <1>4, <2>1, Answers
<1> HIDE DEF ob, pushing
<1> QED BY <1>2, <1>3, <1>4

\* Asking as anything; what is carried as a player must be steady (Probe).
LEMMA ProbeTold ==
    ASSUME NEW c \in Contexts, Fits(c), NEW w \in Reach(c), NEW y \in Int, NEW x \in Int,
           NEW ch, ch = "I" => Steady(c, y, x)
    PROVE  Told(c, w, y, x, Probe(w, y, x, ch))
<1>1. CASE ch = "I"
  <2>1. Probe(w, y, x, ch) = ProbePlayer(w, y, x)
    BY <1>1 DEF Probe, Walkers
  <2> QED BY <1>1, <2>1, ProbePlayerTold
<1>2. CASE ch \in Walkers
  <2>1. Probe(w, y, x, ch) = ProbeWalker(w, y, x, ch)
    BY <1>2 DEF Probe, Walkers
  <2> QED BY <2>1, ProbeWalkerTold
<1>3. CASE ch \in {"<", ">"}
  <2>1. Probe(w, y, x, ch) = Answer(TileAt(w, y, x) # "I" /\ Occupied(w, y, x), w)
    BY <1>3 DEF Probe, Walkers
  <2>2. w \in Onward(c, w) /\ (Occupied(w, y, x) \/ Yielding(c, y, x)) /\ (TileAt(w, y, x) = "I" => Yielding(c, y, x))
    <3>1. "I" # "#" OBVIOUS
    <3> QED BY <3>1, OnwardFacts, Free
  <2> QED BY <2>1, <2>2, Answers
<1>4. CASE ch # "I" /\ ch \notin Walkers /\ ch \notin {"<", ">"}
  <2>1. Probe(w, y, x, ch) = Answer(Occupied(w, y, x), w)
    BY <1>4 DEF Probe
  <2>2. w \in Onward(c, w) /\ (Occupied(w, y, x) \/ Yielding(c, y, x))
                /\ Occupied(w, y, x) \in BOOLEAN
    BY OnwardFacts, Free
  <2> QED BY <2>1, <2>2, Answers
<1> QED BY <1>1, <1>2, <1>3, <1>4

\* A tile may do as it likes with the cell it is on.
LEMMA Own ==
    ASSUME NEW c \in Contexts, NEW w \in Reach(c), NEW y \in Rows, NEW x \in Cols,
           TileAt(w, y, x) # "#"
    PROVE  /\ y \in Int /\ x \in Int
           /\ Yielding(c, y, x)
           /\ w \in Reach(c)
           /\ Put(w, y, x, " ") \in Onward(c, w)
           /\ \A t \in Tiles : t = "E" \/ Put(w, y, x, t) \in Onward(c, w)
<1>1. y \in Int /\ x \in Int
  BY Numbers
<1>2. Yielding(c, y, x)
  BY <1>1, Free
<1>3. ASSUME NEW t \in Tiles, t # "E" PROVE Put(w, y, x, t) \in Onward(c, w)
  BY <1>1, <1>2, <1>3, PutReach
<1>4. " " \in Tiles /\ " " # "E"
  BY DEF Tiles
<1> QED BY <1>1, <1>2, <1>3, <1>4

\* What drops through a catch may fall on a wall (DropThrough).
LEMMA DropThroughReach ==
    ASSUME NEW c \in Contexts, NEW w \in Reach(c), NEW y \in Rows, NEW x \in Cols,
           NEW ch \in {"O", "%"}, TileAt(w, y, x) = ch, TileAt(w, y + 1, x) = ";"
    PROVE  DropThrough(w, y, x, ch) \in Onward(c, w)
<1>1. /\ y \in Int /\ x \in Int /\ y + 1 \in Int /\ y + 2 \in Int
      /\ (y + 2) - 1 = y + 1 /\ (y + 2) - 2 = y
  BY Numbers
<1>2. TileAt(w, y, x) # "#" /\ TileAt(w, y, x) # " "
  OBVIOUS
<1>3. Yielding(c, y, x) /\ Put(w, y, x, " ") \in Onward(c, w)
  BY <1>2, Own
<1>4. TileAt(c, y + 1, x) = ";" /\ TileAt(c, y, x) = ch
  <2>1. TileAt(w, y + 1, x) # " "
    OBVIOUS
  <2> QED BY <1>1, <1>2, <2>1, Reading
<1>5. Yielding(c, y + 2, x)
  BY <1>1, <1>4 DEF Yielding, Undermined
<1>6. ch \in Tiles /\ ch # "E"
  BY DEF Tiles
<1>7. Move(w, y, x, y + 2, x, ch) \in Onward(c, w)
  BY <1>1, <1>3, <1>5, <1>6, MoveReach
<1> QED BY <1>3, <1>7 DEF DropThrough

\* The '%' falls, also on a player (Percent).
LEMMA PercentReach ==
    ASSUME NEW c \in Contexts, NEW w \in Reach(c), NEW y \in Rows, NEW x \in Cols,
           TileAt(w, y, x) = "%"
    PROVE  Percent(w, y, x) \in Reach(c)
<1>1. /\ y \in Int /\ x \in Int /\ y + 1 \in Int
  BY Numbers
<1>2. Yielding(c, y, x)
  <2>1. TileAt(w, y, x) # "#"
    OBVIOUS
  <2> QED BY <2>1, Own
<1>3. "%" \in Tiles /\ "%" # "E"
  BY DEF Tiles
<1>4. CASE TileAt(w, y + 1, x) = ";" /\ w.next[y][x] = "%"
  <2>1. DropThrough(w, y, x, "%") \in Onward(c, w)
    BY <1>4, DropThroughReach
  <2> QED BY <1>4, <2>1, OnwardFacts DEF Percent
<1>5. CASE ~Occupied(w, y + 1, x) \/ TileAt(w, y + 1, x) = "I"
  <2>1. Yielding(c, y + 1, x)
    <3>1. TileAt(w, y + 1, x) = "I" => TileAt(w, y + 1, x) # "#"
      OBVIOUS
    <3> QED BY <1>1, <1>5, <3>1, Free
  <2>2. Move(w, y, x, y + 1, x, "%") \in Onward(c, w)
    BY <1>1, <1>2, <1>3, <2>1, MoveReach
  <2> QED BY <1>4, <1>5, <2>2, OnwardFacts DEF Percent
<1> QED BY <1>4, <1>5 DEF Percent

\* The one write to the field that is read: a boulder that falls is gone from it.
LEMMA BlankReach ==
    ASSUME NEW c \in Contexts, NEW w \in Reach(c), NEW y \in Rows, NEW x \in Cols,
           TileAt(c, y, x) = "O"
    PROVE  [w EXCEPT !.field[y][x] = " "] \in Reach(c)
<1> DEFINE v == [w EXCEPT !.field[y][x] = " "]
           f == [w.field EXCEPT ![y] = [w.field[y] EXCEPT ![x] = " "]]
<1>1. w \in Works /\ w.field \in Fields
  BY DEF Reach, Works
<1>2. v = [w EXCEPT !.field = f]
  OBVIOUS
<1>3. f \in Fields /\ \A i \in Rows, j \in Cols : f[i][j] = IF i = y /\ j = x THEN " " ELSE w.field[i][j]
  <2>1. " " \in Tiles
    BY DEF Tiles
  <2> QED BY <1>1, <2>1 DEF Fields
<1>4. /\ v \in Works /\ v.next = w.next /\ v.keys = w.keys /\ v.noMoney = w.noMoney
      /\ v.win = w.win /\ v.stray = w.stray /\ v.field = f
  <2> HIDE DEF v, f
  <2> QED BY <1>1, <1>2, <1>3 DEF Works
<1> HIDE DEF v, f
<1>5. \A i \in Rows, j \in Cols : v.field[i][j] = IF i = y /\ j = x THEN " " ELSE w.field[i][j]
  BY <1>3, <1>4
<1>6. ASSUME NEW i \in Rows, NEW j \in Cols PROVE Faithful(c, v, i, j)
  <2>1. Faithful(c, w, i, j)
    BY DEF Reach
  <2>2. CASE i = y /\ j = x
    <3>1. v.field[i][j] = " " /\ c.field[i][j] = "O"
      BY <1>5, <2>2 DEF TileAt, Inside
    <3> QED BY <2>1, <3>1, <1>4 DEF Faithful
  <2>3. CASE ~(i = y /\ j = x)
    <3>1. v.field[i][j] = w.field[i][j]
      BY <1>5, <2>3
    <3> QED BY <2>1, <3>1, <1>4 DEF Faithful
  <2> QED BY <2>2, <2>3
<1>7. v.keys = c.keys /\ v.noMoney = c.noMoney /\ (v.win => c.win) /\ v.stray \subseteq c.stray
  BY <1>4 DEF Reach
<1>8. v \in Reach(c)
  BY <1>4, <1>6, <1>7 DEF Reach
<1> QED BY <1>8 DEF v

\* A boulder falls or drops through a catch (Boulder).
LEMMA BoulderReach ==
    ASSUME NEW c \in Contexts, NEW w \in Reach(c), NEW y \in Rows, NEW x \in Cols,
           TileAt(w, y, x) = "O"
    PROVE  Boulder(w, y, x) \in Reach(c)
<1>1. /\ y \in Int /\ x \in Int /\ y + 1 \in Int
  BY Numbers
<1>2. Yielding(c, y, x)
  <2>1. TileAt(w, y, x) # "#"
    OBVIOUS
  <2> QED BY <2>1, Own
<1>3. "O" \in Tiles /\ "O" # "E"
  BY DEF Tiles
<1>4. CASE TileAt(w, y + 1, x) = ";" /\ w.next[y][x] = "O"
  <2>1. DropThrough(w, y, x, "O") \in Onward(c, w)
    BY <1>4, DropThroughReach
  <2> QED BY <1>4, <2>1, OnwardFacts DEF Boulder
<1>5. CASE ~Occupied(w, y + 1, x)
  <2>1. Yielding(c, y + 1, x)
    BY <1>1, <1>5, Free
  <2>2. Move(w, y, x, y + 1, x, "O") \in Reach(c)
    BY <1>1, <1>2, <1>3, <2>1, MoveReach, OnwardFacts
  <2>3. TileAt(c, y, x) = "O"
    BY <1>1, Reading
  <2>4. [Move(w, y, x, y + 1, x, "O") EXCEPT !.field[y][x] = " "] \in Reach(c)
    BY <2>2, <2>3, BlankReach
  <2> QED BY <1>4, <1>5, <2>4 DEF Boulder
<1> QED BY <1>4, <1>5 DEF Boulder

\* A coin is counted, and falls (Coin).
LEMMA CoinReach ==
    ASSUME NEW c \in Contexts, NEW w \in Reach(c), NEW y \in Rows, NEW x \in Cols,
           TileAt(w, y, x) = Money
    PROVE  Coin(w, y, x) \in Reach(c)
<1> DEFINE v == [w EXCEPT !.money = @ + 1]
<1>1. /\ y \in Int /\ x \in Int /\ y + 1 \in Int
  BY Numbers
<1>2. Money # "#" /\ Money \in Tiles /\ Money # "E"
  BY DEF Money, Tiles
<1>3. Yielding(c, y, x)
  BY <1>1, <1>2, Free
<1>4. v \in Onward(c, w)
  BY FlagsReach
<1>5. Coin(w, y, x) \in {v, Put(v, y, x, " ")} \/ (~Occupied(w, y + 1, x) /\ Coin(w, y, x) = Move(v, y, x, y + 1, x, Money))
  BY DEF Coin
<1> HIDE DEF v
<1>0. v \in Reach(c) /\ TileAt(v, y, x) # "#"
  BY <1>2, <1>4, OnwardFacts
<1>6. Put(v, y, x, " ") \in Reach(c)
  BY <1>0, Own, OnwardFacts
<1>7. CASE ~Occupied(w, y + 1, x)
  <2>1. Yielding(c, y + 1, x)
    BY <1>1, <1>7, Free
  <2>2. Move(v, y, x, y + 1, x, Money) \in Reach(c)
    BY <1>0, <1>1, <1>2, <1>3, <2>1, MoveReach, OnwardFacts
  <2> QED BY <1>0, <1>5, <1>6, <2>2
<1> QED BY <1>0, <1>5, <1>6, <1>7

\* A valve opens and shuts (Valve).
LEMMA ValveReach ==
    ASSUME NEW c \in Contexts, NEW w \in Reach(c), NEW y \in Rows, NEW x \in Cols,
           NEW ch, TileAt(w, y, x) # "#"
    PROVE  Valve(w, y, x, ch) \in Reach(c)
<1>1. Valve(w, y, x, ch) \in {w, Put(w, y, x, ";"), Put(w, y, x, "."), Put(w, y, x, ":")}
  BY DEF Valve
<1>2. {";", ".", ":"} \subseteq Tiles /\ "E" \notin {";", ".", ":"}
  BY DEF Tiles
<1>3. \A t \in {";", ".", ":"} : Put(w, y, x, t) \in Reach(c)
  BY <1>2, Own, OnwardFacts
<1> QED BY <1>1, <1>3

\* A fuse catches fire (Fuse).
LEMMA FuseReach ==
    ASSUME NEW c \in Contexts, NEW w \in Reach(c), NEW y \in Rows, NEW x \in Cols,
           TileAt(w, y, x) # "#"
    PROVE  Fuse(w, y, x) \in Reach(c)
<1>1. Fuse(w, y, x) \in {w, Put(w, y, x, "0")}
  BY DEF Fuse
<1>2. "0" \in Tiles /\ "0" # "E"
  BY DEF Tiles
<1>3. Put(w, y, x, "0") \in Reach(c)
  BY <1>2, Own, OnwardFacts
<1> QED BY <1>1, <1>3

\* A trolley follows its player (Trolley).
LEMMA TrolleyReach ==
    ASSUME NEW c \in Contexts, NEW w \in Reach(c), NEW y \in Rows, NEW x \in Cols,
           TileAt(w, y, x) # "#"
    PROVE  Trolley(w, y, x) \in Reach(c)
<1>1. /\ y \in Int /\ x \in Int /\ x - 1 \in Int /\ x + 1 \in Int /\ x + (-1) = x - 1
  BY Numbers
<1>2. "T" \in Tiles /\ "T" # "E"
  BY DEF Tiles
<1>3. Yielding(c, y, x)
  BY Own
<1>4. ASSUME NEW tx \in Int, ~Occupied(w, y, tx) PROVE Move(w, y, x, y, tx, "T") \in Reach(c)
  BY <1>1, <1>2, <1>3, <1>4, Free, MoveReach, OnwardFacts
<1>5. \/ Trolley(w, y, x) = w
      \/ Trolley(w, y, x) = Move(w, y, x, y, x - 1, "T") /\ ~Occupied(w, y, x - 1)
      \/ Trolley(w, y, x) = Move(w, y, x, y, x + 1, "T") /\ ~Occupied(w, y, x + 1)
  BY <1>1 DEF Trolley
<1> QED BY <1>1, <1>4, <1>5

\* A dispenser makes a boulder (Dispenser).
LEMMA DispenserReach ==
    ASSUME NEW c \in Contexts, NEW w \in Reach(c), NEW y \in Rows, NEW x \in Cols,
           NEW ch, TileAt(w, y, x) # "#"
    PROVE  Dispenser(w, y, x, ch) \in Reach(c)
<1>1. /\ y \in Int /\ x \in Int /\ y + 1 \in Int
  BY Numbers
<1>2. {"A", "O", Pipe} \subseteq Tiles /\ "E" \notin {"A", "O", Pipe}
  BY DEF Tiles, Pipe
<1>3. Put(w, y, x, "A") \in Reach(c) /\ Yielding(c, y, x)
  BY <1>2, Own, OnwardFacts
<1>4. ASSUME ~Occupied(w, y + 1, x) PROVE Put(Put(w, y + 1, x, "O"), y, x, Pipe) \in Reach(c)
  <2>1. Put(w, y + 1, x, "O") \in Reach(c)
    BY <1>1, <1>2, <1>4, Free, PutReach, OnwardFacts
  <2> QED BY <1>1, <1>2, <1>3, <2>1, PutReach, OnwardFacts
<1>5. \/ Dispenser(w, y, x, ch) \in {w, Put(w, y, x, "A")}
      \/ Dispenser(w, y, x, ch) = Put(Put(w, y + 1, x, "O"), y, x, Pipe) /\ ~Occupied(w, y + 1, x)
  BY DEF Dispenser
<1> QED BY <1>3, <1>4, <1>5

\* An eater takes whatever is above it, a wall too (Eater).
LEMMA EaterReach ==
    ASSUME NEW c \in Contexts, NEW w \in Reach(c), NEW y \in Rows, NEW x \in Cols,
           NEW ch \in {"x", "X"}, TileAt(w, y, x) = ch
    PROVE  Eater(w, y, x, ch) \in Reach(c)
<1>1. /\ y \in Int /\ x \in Int /\ y - 1 \in Int /\ (y - 1) + 1 = y
  BY Numbers
<1>2. {"x", "X", " "} \subseteq Tiles /\ "E" \notin {"x", "X", " "}
  BY DEF Tiles
<1>3. TileAt(w, y, x) # "#" /\ TileAt(w, y, x) # " "
  OBVIOUS
<1>4. Put(w, y, x, "x") \in Reach(c) /\ Yielding(c, y, x)
  BY <1>2, <1>3, Own, OnwardFacts
<1>5. ASSUME ch # "X" PROVE Put(Put(w, y - 1, x, " "), y, x, "X") \in Reach(c)
  <2>1. TileAt(c, y, x) = "x"
    BY <1>1, <1>3, <1>5, Reading
  <2>2. Yielding(c, y - 1, x)
    BY <1>1, <2>1 DEF Yielding, Undermined
  <2>3. Put(w, y - 1, x, " ") \in Reach(c)
    BY <1>1, <1>2, <2>2, PutReach, OnwardFacts
  <2> QED BY <1>1, <1>2, <1>4, <2>3, PutReach, OnwardFacts
<1>6. \/ Eater(w, y, x, ch) \in {w, Put(w, y, x, "x")}
      \/ Eater(w, y, x, ch) = Put(Put(w, y - 1, x, " "), y, x, "X") /\ ch # "X"
  BY DEF Eater
<1> QED BY <1>4, <1>5, <1>6

\* Painting the field: no wall is painted and no exit made (Replaced).
LEMMA ReplacedReach ==
    ASSUME NEW c \in Contexts, NEW w \in Reach(c), NEW paint, "#" \notin DOMAIN paint,
           \A t \in DOMAIN paint : paint[t] \in Tiles /\ paint[t] # "E"
    PROVE  Replaced(w, paint) \in Onward(c, w)
<1> DEFINE v == Replaced(w, paint)
           painted == [y \in Rows |-> [x \in Cols |->
                         IF w.field[y][x] \in DOMAIN paint THEN paint[w.field[y][x]] ELSE w.next[y][x]]]
<1>1. w \in Works /\ w.next \in Fields
  BY DEF Reach, Works
<1>2. v = [w EXCEPT !.next = painted]
  BY DEF Replaced
<1>3. painted \in Fields
  BY <1>1 DEF Fields
<1>4. \A i \in Rows, j \in Cols :
         painted[i][j] = IF w.field[i][j] \in DOMAIN paint THEN paint[w.field[i][j]] ELSE w.next[i][j]
  OBVIOUS
<1> HIDE DEF painted
<1>5. /\ v \in Works /\ v.field = w.field /\ v.keys = w.keys /\ v.noMoney = w.noMoney
      /\ v.win = w.win /\ v.stray = w.stray /\ v.next = painted
  BY <1>1, <1>2, <1>3 DEF Works
<1> HIDE DEF v
<1>6. ASSUME NEW i \in Rows, NEW j \in Cols PROVE Faithful(c, v, i, j)
  <2>1. Faithful(c, w, i, j)
    BY DEF Reach
  <2>2. CASE w.field[i][j] \in DOMAIN paint
    <3>1. v.next[i][j] # "E"
      BY <1>4, <1>5, <2>2
    <3>2. w.field[i][j] # "#"
      BY <2>2
    <3>3. c.field[i][j] # "#"
      BY <2>1, <3>2 DEF Faithful
    <3> QED BY <1>5, <2>1, <3>1, <3>3 DEF Faithful
  <2>3. CASE w.field[i][j] \notin DOMAIN paint
    <3>1. v.next[i][j] = w.next[i][j]
      BY <1>4, <1>5, <2>3
    <3> QED BY <1>5, <2>1, <3>1 DEF Faithful
  <2> QED BY <2>2, <2>3
<1>7. v.keys = c.keys /\ v.noMoney = c.noMoney /\ (v.win => c.win) /\ v.stray \subseteq c.stray
  BY <1>5 DEF Reach
<1>8. v \in Reach(c)
  BY <1>5, <1>6, <1>7 DEF Reach
<1> QED BY <1>5, <1>8 DEF v, Onward

\* A step aside, or up and aside (Walk).
LEMMA WalkReach ==
    ASSUME NEW c \in Contexts, Fits(c), NEW w \in Reach(c), NEW y \in Rows, NEW x \in Cols,
           NEW d \in {-1, 1}, Yielding(c, y, x), Steady(c, y, x + d), Steady(c, y - 1, x + d)
    PROVE  Walk(w, y, x, d) \in Reach(c)
<1> DEFINE p == ProbePlayer(w, y, x + d)
           v == p.w
           q == ProbePlayer(v, y - 1, x + d)
           u == q.w
<1>1. y \in Int /\ x \in Int /\ y - 1 \in Int /\ x + d \in Int
  BY DEF Rows, Cols
<1>2. "I" \in Tiles /\ "I" # "E"
  BY DEF Tiles
<1>3. Told(c, w, y, x + d, p)
  BY <1>1, ProbePlayerTold
<1>4. Walk(w, y, x, d) = IF ~p.blocked THEN Move(v, y, x, y, x + d, "I")
                         ELSE IF y = 0 THEN v
                         ELSE IF ~q.blocked THEN Move(u, y, x, y - 1, x + d, "I") ELSE u
  BY DEF Walk
<1> HIDE DEF p
<1>5. v \in Reach(c)
  BY <1>3, OnwardFacts DEF Told
<1> HIDE DEF v
<1>6. Told(c, v, y - 1, x + d, q)
  BY <1>1, <1>5, ProbePlayerTold
<1> HIDE DEF q
<1>7. u \in Reach(c)
  BY <1>5, <1>6, OnwardFacts DEF Told
<1> HIDE DEF u
<1>8. ASSUME ~p.blocked PROVE Move(v, y, x, y, x + d, "I") \in Reach(c)
  <2>1. Yielding(c, y, x + d)
    BY <1>3, <1>8 DEF Told
  <2> QED BY <1>1, <1>2, <1>5, <2>1, MoveReach, OnwardFacts
<1>9. ASSUME ~q.blocked PROVE Move(u, y, x, y - 1, x + d, "I") \in Reach(c)
  <2>1. Yielding(c, y - 1, x + d)
    BY <1>6, <1>9 DEF Told
  <2> QED BY <1>1, <1>2, <1>7, <2>1, MoveReach, OnwardFacts
<1> QED BY <1>4, <1>5, <1>7, <1>8, <1>9

\* Climbing a ladder or a rope (Climb).
LEMMA ClimbReach ==
    ASSUME NEW c \in Contexts, Fits(c), NEW w \in Reach(c), NEW y \in Rows, NEW x \in Cols,
           Yielding(c, y, x), Steady(c, y - 1, x), Steady(c, y - 2, x)
    PROVE  Climb(w, y, x) \in Reach(c)
<1> DEFINE p == ProbePlayer(w, y - 2, x)
           v == p.w
           q == ProbePlayer(w, y - 1, x)
           u == q.w
           ladder == Put(Put(Put(u, y + 1, x, " "), y, x, "\""), y - 1, x, "I")
<1>1. y \in Int /\ x \in Int /\ y - 1 \in Int /\ y - 2 \in Int /\ y + 1 \in Int
  BY Numbers
<1>2. {"I", " ", "\""} \subseteq Tiles /\ "E" \notin {"I", " ", "\""}
  BY DEF Tiles
<1>3. Told(c, w, y - 2, x, p) /\ Told(c, w, y - 1, x, q)
  BY <1>1, ProbePlayerTold
<1>4. \/ Climb(w, y, x) \in {w, u, v}
      \/ ~p.blocked /\ Climb(w, y, x) = Move(v, y, x, y - 2, x, "I")
      \/ ~q.blocked /\ TileAt(w, y + 1, x) = "\"" /\ Climb(w, y, x) = ladder
  BY DEF Climb
<1> HIDE DEF p, q
<1>5. v \in Reach(c) /\ u \in Reach(c)
  BY <1>3, OnwardFacts DEF Told
<1> HIDE DEF v, u
<1>6. ASSUME ~p.blocked PROVE Move(v, y, x, y - 2, x, "I") \in Reach(c)
  <2>1. Yielding(c, y - 2, x)
    BY <1>3, <1>6 DEF Told
  <2> QED BY <1>1, <1>2, <1>5, <2>1, MoveReach, OnwardFacts
<1>7. ASSUME ~q.blocked, TileAt(w, y + 1, x) = "\"" PROVE ladder \in Reach(c)
  <2>1. Yielding(c, y - 1, x)
    BY <1>3, <1>7 DEF Told
  <2>2. Yielding(c, y + 1, x)
    <3>1. TileAt(w, y + 1, x) # "#"
      BY <1>7
    <3> QED BY <1>1, <3>1, Free
  <2>3. Put(u, y + 1, x, " ") \in Reach(c)
    BY <1>1, <1>2, <1>5, <2>2, PutReach, OnwardFacts
  <2>4. Put(Put(u, y + 1, x, " "), y, x, "\"") \in Reach(c)
    BY <1>1, <1>2, <2>3, PutReach, OnwardFacts
  <2> QED BY <1>1, <1>2, <2>1, <2>4, PutReach, OnwardFacts
<1> HIDE DEF ladder
<1> QED BY <1>4, <1>5, <1>6, <1>7

\* Going down, or setting off what is below (Dig).
LEMMA DigReach ==
    ASSUME NEW c \in Contexts, Fits(c), NEW w \in Reach(c), NEW y \in Rows, NEW x \in Cols,
           Yielding(c, y, x), Steady(c, y + 2, x)
    PROVE  Dig(w, y, x) \in Reach(c)
<1> DEFINE p == ProbePlayer(w, y + 2, x)
           v == p.w
           hole == Put(Put(Put(w, y + 2, x, "\""), y + 1, x, "I"), y, x, " ")
           paint == [t \in {"@"} |-> "0"]
<1>1. y \in Int /\ x \in Int /\ y + 1 \in Int /\ y + 2 \in Int
  BY Numbers
<1>2. {"I", " ", "\"", "0"} \subseteq Tiles /\ "E" \notin {"I", " ", "\"", "0"}
  BY DEF Tiles
<1>3. Told(c, w, y + 2, x, p)
  BY <1>1, ProbePlayerTold
<1>4. \/ Dig(w, y, x) \in {w, v, Replaced(w, paint), [w EXCEPT !.reverse = TRUE]}
      \/ ~p.blocked /\ Dig(w, y, x) = Move(v, y, x, y + 2, x, "I")
      \/ ~Occupied(w, y + 2, x) /\ TileAt(w, y + 1, x) = "\"" /\ Dig(w, y, x) = hole
  BY DEF Dig, Lever
<1> HIDE DEF p
<1>5. v \in Reach(c)
  BY <1>3, OnwardFacts DEF Told
<1> HIDE DEF v
<1>6. ASSUME ~p.blocked PROVE Move(v, y, x, y + 2, x, "I") \in Reach(c)
  <2>1. Yielding(c, y + 2, x)
    BY <1>3, <1>6 DEF Told
  <2> QED BY <1>1, <1>2, <1>5, <2>1, MoveReach, OnwardFacts
<1>7. ASSUME ~Occupied(w, y + 2, x), TileAt(w, y + 1, x) = "\"" PROVE hole \in Reach(c)
  <2>1. Yielding(c, y + 2, x)
    BY <1>1, <1>7, Free
  <2>2. Yielding(c, y + 1, x)
    <3>1. TileAt(w, y + 1, x) # "#"
      BY <1>7
    <3> QED BY <1>1, <3>1, Free
  <2>3. Put(w, y + 2, x, "\"") \in Reach(c)
    BY <1>1, <1>2, <2>1, PutReach, OnwardFacts
  <2>4. Put(Put(w, y + 2, x, "\""), y + 1, x, "I") \in Reach(c)
    BY <1>1, <1>2, <2>2, <2>3, PutReach, OnwardFacts
  <2> QED BY <1>1, <1>2, <2>4, PutReach, OnwardFacts
<1>8. Replaced(w, paint) \in Reach(c)
  <2>1. "#" \notin DOMAIN paint /\ \A t \in DOMAIN paint : paint[t] \in Tiles /\ paint[t] # "E"
    BY <1>2
  <2> HIDE DEF paint
  <2> QED BY <2>1, ReplacedReach, OnwardFacts
<1>9. [w EXCEPT !.reverse = TRUE] \in Reach(c)
  BY FlagsReach, OnwardFacts
<1> HIDE DEF hole, paint
<1> QED BY <1>4, <1>5, <1>6, <1>7, <1>8, <1>9

\* The player falls, walks, climbs or digs (Player).
LEMMA PlayerReach ==
    ASSUME NEW c \in Contexts, Fits(c), NEW w \in Reach(c), NEW y \in Rows, NEW x \in Cols,
           TileAt(w, y, x) = "I"
    PROVE  Player(w, y, x) \in Reach(c)
<1> DEFINE w1 == [w EXCEPT !.players = @ + 1]
           fall == ProbePlayer(w1, y + 1, x)
           v == fall.w
<1>1. y \in Int /\ x \in Int /\ y - 1 \in Int /\ y + 1 \in Int /\ (y + 1) - 1 = y /\ x + 1 \in Int /\ x - 1 \in Int
      /\ x + (-1) = x - 1
  BY Numbers
<1>2. "I" \in Tiles /\ "I" # "E" /\ "I" # "#" /\ "I" # " "
  BY DEF Tiles
<1>3. Yielding(c, y, x) /\ TileAt(c, y, x) = "I"
  BY <1>1, <1>2, Own, Reading
<1>4. w1 \in Reach(c)
  BY FlagsReach, OnwardFacts
<1>5. Player(w, y, x) =
        IF ~fall.blocked THEN Move(v, y, x, y + 1, x, "I")
        ELSE IF TileAt(w, y + 1, x) \in {"(", ")"} \/ v.tired # 0 THEN v
        ELSE IF "left" \in w.keys /\ x > 0 THEN Walk(v, y, x, -1)
        ELSE IF "right" \in w.keys /\ x < COLUMNS - 1 THEN Walk(v, y, x, 1)
        ELSE IF "up" \in w.keys THEN Climb(v, y, x)
        ELSE IF "down" \in w.keys THEN Dig(v, y, x)
        ELSE v
  BY DEF Player
<1> HIDE DEF w1
<1>6. Steady(c, y + 1, x)
  <2> SUFFICES ASSUME x = 0, TileAt(c, y + 1, 0) = "O", Inside(y + 1, 1) PROVE "crash" \in c.stray
    BY DEF Steady
  <2>1. y + 1 \in Rows /\ c.field[y + 1][0] = "O"
    BY <1>3 DEF Inside, TileAt
  <2> QED BY <1>1, <1>3, <2>1 DEF Fits
<1>7. Told(c, w1, y + 1, x, fall)
  BY <1>1, <1>4, <1>6, ProbePlayerTold
<1> HIDE DEF fall
<1>8. v \in Reach(c)
  BY <1>4, <1>7, OnwardFacts DEF Told
<1> HIDE DEF v
<1>9. w.keys = c.keys
  BY DEF Reach
<1>10. CASE ~fall.blocked
  <2>1. Yielding(c, y + 1, x)
    BY <1>7, <1>10 DEF Told
  <2>2. Move(v, y, x, y + 1, x, "I") \in Reach(c)
    BY <1>1, <1>2, <1>3, <1>8, <2>1, MoveReach, OnwardFacts
  <2> QED BY <1>5, <1>10, <2>2
<1>11. ASSUME "left" \in w.keys, x > 0 PROVE Walk(v, y, x, -1) \in Reach(c)
  <2>1. Steady(c, y, x + (-1)) /\ Steady(c, y - 1, x + (-1))
    BY <1>9, <1>11 DEF Steady
  <2> QED BY <1>3, <1>8, <2>1, WalkReach
<1>12. Walk(v, y, x, 1) \in Reach(c)
  <2>1. x + 1 # 0
    BY DEF Cols
  <2>2. Steady(c, y, x + 1) /\ Steady(c, y - 1, x + 1)
    BY <2>1 DEF Steady
  <2> QED BY <1>3, <1>8, <2>2, WalkReach
<1>13. ASSUME ~("left" \in w.keys /\ x > 0), ~("right" \in w.keys /\ x < COLUMNS - 1)
       PROVE  Climb(v, y, x) \in Reach(c) /\ Dig(v, y, x) \in Reach(c)
  <2>1. ASSUME NEW ty PROVE Steady(c, ty, x)
    <3> SUFFICES ASSUME x = 0, Inside(ty, 1), "right" \in c.keys PROVE FALSE
      BY DEF Steady
    <3>1. 1 \in Cols
      BY DEF Inside
    <3>2. 0 < COLUMNS - 1
      BY <3>1, SizeAssumption DEF Cols
    <3> QED BY <1>9, <1>13, <3>2
  <2>2. Climb(v, y, x) \in Reach(c)
    BY <1>3, <1>8, <2>1, ClimbReach
  <2>3. Dig(v, y, x) \in Reach(c)
    BY <1>3, <1>8, <2>1, DigReach
  <2> QED BY <2>2, <2>3
<1> QED BY <1>5, <1>8, <1>10, <1>11, <1>12, <1>13

\* The exit opens once the money is gone, and is shut otherwise (Exit).
LEMMA ExitReach ==
    ASSUME NEW c \in Contexts, NEW w \in Reach(c), NEW y \in Rows, NEW x \in Cols,
           NEW ch \in {"e", "E"}, TileAt(w, y, x) = ch
    PROVE  /\ Exit(w, y, x, ch) \in Reach(c)
           /\ ch = "E" /\ ~c.noMoney => Exit(w, y, x, ch).next[y][x] = "e"
<1>1. y \in Int /\ x \in Int
  BY Numbers
<1>2. TileAt(w, y, x) # "#"
  OBVIOUS
<1>3. Yielding(c, y, x)
  BY <1>2, Own
<1>4. w.noMoney = c.noMoney /\ c.noMoney \in BOOLEAN /\ w.next \in Fields
  BY DEF Reach, Contexts, Works
<1>5. "e" \in Tiles /\ "E" \in Tiles /\ "e" # "E"
  BY DEF Tiles
<1>6. Put(w, y, x, "e") \in Reach(c)
  BY <1>2, <1>5, Own, OnwardFacts
<1>7. ASSUME c.noMoney PROVE Put(w, y, x, "E") \in Reach(c)
  BY <1>1, <1>3, <1>5, <1>7, PutReach, OnwardFacts
<1>8. CASE ch = "e"
  <2>1. c.noMoney => Exit(w, y, x, ch) = Put(w, y, x, "E")
    BY <1>4, <1>8 DEF Exit
  <2>2. ~c.noMoney => Exit(w, y, x, ch) = w
    BY <1>4, <1>8 DEF Exit
  <2> QED BY <1>5, <1>7, <1>8, <2>1, <2>2
<1>9. CASE ch = "E"
  <2>1. c.noMoney => Exit(w, y, x, ch) = w
    BY <1>4, <1>9 DEF Exit
  <2>2. ~c.noMoney => Exit(w, y, x, ch) = Put(w, y, x, "e")
    BY <1>4, <1>9 DEF Exit
  <2>3. Put(w, y, x, "e").next[y][x] = "e"
    <3>1. w \in Works
      BY DEF Reach
    <3>2. Put(w, y, x, "e").next = [w.next EXCEPT ![y] = [w.next[y] EXCEPT ![x] = "e"]]
      BY <3>1 DEF Put, Works
    <3> QED BY <1>4, <3>2 DEF Fields
  <2> QED BY <1>6, <2>1, <2>2, <2>3
<1> QED BY <1>8, <1>9

\* What stands on a platform is moved with it (Carry).
LEMMA CarryReach ==
    ASSUME NEW c \in Contexts, Fits(c), NEW w \in Reach(c), NEW y \in Rows, NEW x \in Cols,
           NEW d \in {-1, 1}, d = -1 => TileAt(c, y, x) \in {"(", "<"}
    PROVE  Carry(w, y, x, d) \in Reach(c)
<1> DEFINE ob == TileAt(w, y - 1, x)
           p  == Probe(w, y - 1, x + d, ob)
           v  == p.w
<1>1. y \in Int /\ x \in Int /\ y - 1 \in Int /\ x + d \in Int /\ (y - 1) + 1 = y /\ (x + d = 0 => x = 1 /\ d = -1)
  BY DEF Rows, Cols
<1>2. \/ Carry(w, y, x, d) \in {w, v}
      \/ /\ ob \in Loose /\ ~p.blocked
         /\ Carry(w, y, x, d) = Put(Put(v, y - 1, x, " "), y - 1, x + d, ob)
  BY DEF Carry
<1>3. ob = "I" => Steady(c, y - 1, x + d)
  <2> SUFFICES ASSUME ob = "I", x + d = 0, TileAt(c, y - 1, 0) = "O", Inside(y - 1, 1)
               PROVE  "crash" \in c.stray
    BY DEF Steady
  <2>1. x = 1 /\ TileAt(c, y, 1) \in {"(", "<"}
    BY <1>1
  <2>2. TileAt(c, y - 1, 1) = "I"
    <3>1. TileAt(w, y - 1, x) = "I" /\ TileAt(w, y - 1, x) # " "
      OBVIOUS
    <3>2. TileAt(c, y - 1, x) = "I"
      BY <1>1, <3>1, Reading
    <3> QED BY <2>1, <3>2
  <2>3. y - 1 \in Rows /\ 0 \in Cols
    BY SizeAssumption DEF Inside, Cols
  <2>4. c.field[y - 1][0] = "O"
    BY <2>3 DEF TileAt, Inside
  <2> HIDE DEF ob
  <2> QED BY <1>1, <2>1, <2>2, <2>3, <2>4 DEF Fits
<1>4. Told(c, w, y - 1, x + d, p)
  <2> HIDE DEF ob
  <2> QED BY <1>1, <1>3, ProbeTold
<1> HIDE DEF p
<1>5. v \in Reach(c)
  BY <1>4, OnwardFacts DEF Told
<1> HIDE DEF v
<1>6. ASSUME ob \in Loose, ~p.blocked PROVE Put(Put(v, y - 1, x, " "), y - 1, x + d, ob) \in Reach(c)
  <2>1. ob # "#" /\ ob \in Tiles /\ ob # "E" /\ " " \in Tiles /\ " " # "E"
    BY <1>6 DEF Loose, Money, Tiles, Walkers
  <2>2. Yielding(c, y - 1, x)
    BY <1>1, <2>1, Free
  <2>3. Yielding(c, y - 1, x + d)
    BY <1>4, <1>6 DEF Told
  <2> HIDE DEF ob
  <2>4. Put(v, y - 1, x, " ") \in Reach(c)
    BY <1>1, <1>5, <2>1, <2>2, PutReach, OnwardFacts
  <2> QED BY <1>1, <2>1, <2>3, <2>4, PutReach, OnwardFacts
<1> HIDE DEF ob
<1> QED BY <1>2, <1>5, <1>6

\* A belt carries what is on it (Belt).
LEMMA BeltReach ==
    ASSUME NEW c \in Contexts, Fits(c), NEW w \in Reach(c), NEW y \in Rows, NEW x \in Cols,
           NEW ch \in {"(", ")"}, TileAt(w, y, x) = ch
    PROVE  Belt(w, y, x, ch) \in Reach(c)
<1>1. Ahead(ch) \in {-1, 1} /\ (Ahead(ch) = -1 => ch = "(")
  <2>1. Ahead("(") = -1 /\ Ahead(")") = 1
    BY DEF Ahead
  <2> QED BY <2>1
<1>2. TileAt(c, y, x) = ch
  <2>1. y \in Int /\ x \in Int /\ TileAt(w, y, x) # " "
    BY Numbers
  <2> QED BY <2>1, Reading
<1> QED BY <1>1, <1>2, CarryReach DEF Belt

\* A platform moves with what is on it (Platform).
LEMMA PlatformReach ==
    ASSUME NEW c \in Contexts, Fits(c), NEW w \in Reach(c), NEW y \in Rows, NEW x \in Cols,
           NEW ch \in {"<", ">"}, TileAt(w, y, x) = ch
    PROVE  Platform(w, y, x, ch) \in Reach(c)
<1> DEFINE d == Ahead(ch)
           p == Probe(w, y, x + d, ch)
           moved == Put(Put(w, y, x, " "), y, x + d, ch)
<1>1. d \in {-1, 1} /\ (d = -1 => ch = "<")
  <2>1. Ahead("<") = -1 /\ Ahead(">") = 1
    BY DEF Ahead
  <2> QED BY <2>1
<1>2. y \in Int /\ x \in Int /\ x + d \in Int
  BY <1>1, Numbers DEF Cols
<1>3. TileAt(w, y, x) # "#" /\ TileAt(w, y, x) # " " /\ ch # "I" /\ ch \in Tiles /\ ch # "E"
  BY DEF Tiles
<1>4. TileAt(c, y, x) = ch
  BY <1>2, <1>3, Reading
<1>5. Platform(w, y, x, ch) = IF p.blocked THEN w ELSE Carry(moved, y, x, d)
  BY DEF Platform
<1> HIDE DEF d
<1>6. Told(c, w, y, x + d, p)
  BY <1>2, <1>3, ProbeTold
<1> HIDE DEF p
<1>7. ASSUME ~p.blocked PROVE Carry(moved, y, x, d) \in Reach(c)
  <2>1. Put(w, y, x, " ") \in Reach(c)
    BY <1>3, Own, OnwardFacts
  <2>2. Yielding(c, y, x + d)
    BY <1>6, <1>7 DEF Told
  <2>3. moved \in Reach(c)
    <3>1. moved \in Onward(c, Put(w, y, x, " "))
      BY <1>2, <1>3, <2>1, <2>2, PutReach
    <3> HIDE DEF moved
    <3> QED BY <2>1, <3>1, OnwardFacts
  <2> HIDE DEF moved
  <2> QED BY <1>1, <1>4, <2>3, CarryReach
<1> QED BY <1>5, <1>7

\* A walker that is let down once and not the second time has pushed what it
\* stands on.
LEMMA AskedTwice ==
    ASSUME NEW c \in Contexts, Fits(c), NEW w \in Reach(c), NEW y \in Int, NEW x \in Int, NEW ch,
           ~ProbeWalker(w, y, x, ch).blocked,
           ProbeWalker(ProbeWalker(w, y, x, ch).w, y, x, ch).blocked
    PROVE  TileAt(w, y, x) \in {"O", Money}
<1> DEFINE v == ProbeWalker(w, y, x, ch).w
<1>1. v \in Onward(c, w)
  BY ProbeWalkerTold DEF Told
<1>2. TileAt(v, y, x) = TileAt(w, y, x)
  <2> HIDE DEF v
  <2> QED BY <1>1, OnwardFacts
<1>3. CASE TileAt(w, y, x) = "I"
  <2>1. TileAt(v, y, x) = "I"
    BY <1>2, <1>3
  <2> HIDE DEF v
  <2>2. ProbeWalker(v, y, x, ch) = Answer(FALSE, [v EXCEPT !.die = TRUE])
    BY <2>1 DEF ProbeWalker, Money
  <2>3. ~ProbeWalker(v, y, x, ch).blocked
    BY <2>2 DEF Answer
  <2> QED BY <2>3 DEF v
<1>4. CASE TileAt(w, y, x) # "I" /\ TileAt(w, y, x) \notin {"O", Money}
  <2>1. ProbeWalker(w, y, x, ch) = Answer(Occupied(w, y, x), w)
    BY <1>4 DEF ProbeWalker
  <2>2. v = w
    BY <2>1 DEF Answer
  <2> QED BY <2>2
<1> QED BY <1>3, <1>4

\* Walkers turn, walk and fall; one that asks twice may take a wall (Walker).
LEMMA WalkerReach ==
    ASSUME NEW c \in Contexts, Fits(c), NEW w \in Reach(c), NEW y \in Rows, NEW x \in Cols,
           NEW ch \in Walkers, TileAt(w, y, x) = ch
    PROVE  Walker(w, y, x, ch) \in Reach(c)
<1> DEFINE heavy == ch \in {"[", "]"}
           d == Ahead(ch)
           ahead == ProbeWalker(w, y, x + d, ch)
           w1 == ahead.w
           below1 == IF ahead.blocked /\ heavy THEN ProbeWalker(w1, y + 1, x, ch) ELSE Answer(TRUE, w1)
           w2 == below1.w
           below2 == IF heavy THEN ProbeWalker(w2, y + 1, x, ch) ELSE Answer(TRUE, w2)
           w3 == below2.w
<1>1. d \in {-1, 1} /\ (heavy => ch = IF d = 1 THEN "]" ELSE "[")
  <2>1. Ahead("[") = -1 /\ Ahead("]") = 1 /\ Ahead("{") = -1 /\ Ahead("}") = 1
    BY DEF Ahead
  <2>2. ch \in {"[", "]", "{", "}"}
    BY DEF Walkers
  <2>3. d \in {-1, 1} /\ (ch = "[" => d = -1) /\ (ch = "]" => d = 1)
    BY <2>1, <2>2
  <2> HIDE DEF d
  <2> QED BY <2>3
<1>2. y \in Int /\ x \in Int /\ x + d \in Int /\ y + 1 \in Int /\ (x + d) - d = x
  BY <1>1, Numbers DEF Cols
<1>3. ch # "#" /\ ch # " " /\ ch \in Tiles /\ ch # "E" /\ " " \in Tiles /\ " " # "E"
      /\ Mirror[ch] \in Tiles /\ Mirror[ch] # "E"
  BY DEF Tiles, Walkers, Mirror
<1>4. Yielding(c, y, x) /\ TileAt(c, y, x) = ch
  BY <1>2, <1>3, Own, Reading
<1>5. \/ Walker(w, y, x, ch) = w
      \/ Walker(w, y, x, ch) = Put(w2, y, x, Mirror[ch])
      \/ ~below2.blocked /\ Walker(w, y, x, ch) = Put(Put(w3, y, x, " "), y + 1, x, ch)
      \/ /\ ~(ahead.blocked /\ below1.blocked) /\ below2.blocked
         /\ Walker(w, y, x, ch) = Put(Put(w3, y, x, " "), y, x + d, ch)
  BY DEF Walker
<1> HIDE DEF d
<1>6. Told(c, w, y, x + d, ahead)
  BY <1>2, ProbeWalkerTold
<1>7. w1 \in Onward(c, w) /\ w1 \in Reach(c)
  <2> HIDE DEF ahead
  <2> QED BY <1>6, OnwardFacts DEF Told
<1> HIDE DEF w1, ahead
<1>8. Told(c, w1, y + 1, x, below1)
  <2>1. Told(c, w1, y + 1, x, ProbeWalker(w1, y + 1, x, ch)) /\ Told(c, w1, y + 1, x, Answer(TRUE, w1))
    BY <1>2, <1>7, ProbeWalkerTold, Answers, OnwardFacts
  <2> QED BY <2>1
<1>9. w2 \in Onward(c, w1) /\ w2 \in Reach(c)
  <2> HIDE DEF below1
  <2> QED BY <1>7, <1>8, OnwardFacts DEF Told
<1>10. Told(c, w2, y + 1, x, below2)
  <2> HIDE DEF w2
  <2>1. Told(c, w2, y + 1, x, ProbeWalker(w2, y + 1, x, ch)) /\ Told(c, w2, y + 1, x, Answer(TRUE, w2))
    BY <1>2, <1>9, ProbeWalkerTold, Answers, OnwardFacts
  <2> QED BY <2>1
<1>11. w3 \in Reach(c)
  <2> HIDE DEF below2, w2
  <2> QED BY <1>9, <1>10, OnwardFacts DEF Told
<1>12. Put(w3, y, x, " ") \in Reach(c) /\ Put(w2, y, x, Mirror[ch]) \in Reach(c)
  <2> HIDE DEF w3, w2
  <2> QED BY <1>2, <1>3, <1>4, <1>9, <1>11, PutReach, OnwardFacts
<1>13. ASSUME ~below2.blocked PROVE Put(Put(w3, y, x, " "), y + 1, x, ch) \in Reach(c)
  <2> HIDE DEF w3, below2
  <2>1. Yielding(c, y + 1, x)
    BY <1>10, <1>13 DEF Told
  <2> QED BY <1>2, <1>3, <1>12, <2>1, PutReach, OnwardFacts
<1>14. ASSUME ~(ahead.blocked /\ below1.blocked), below2.blocked
       PROVE  Put(Put(w3, y, x, " "), y, x + d, ch) \in Reach(c)
  <2>1. Yielding(c, y, x + d)
    <3>1. CASE ~ahead.blocked
      BY <1>6, <3>1 DEF Told
    <3>2. CASE ahead.blocked
      <4>1. heavy /\ below1 = ProbeWalker(w1, y + 1, x, ch)
        <5>1. ~heavy => below1 = Answer(TRUE, w1)
          OBVIOUS
        <5>2. Answer(TRUE, w1).blocked
          BY DEF Answer
        <5> HIDE DEF heavy
        <5> QED BY <1>14, <3>2, <5>1, <5>2
      <4>2. below2 = ProbeWalker(ProbeWalker(w1, y + 1, x, ch).w, y + 1, x, ch)
        BY <4>1
      <4>3. TileAt(w1, y + 1, x) \in {"O", Money}
        <5> HIDE DEF below1, below2
        <5> QED BY <1>2, <1>7, <1>14, <3>2, <4>1, <4>2, AskedTwice
      <4> HIDE DEF heavy, below1, below2
      <4>4. TileAt(c, y + 1, x) \in {"O", Money}
        <5>1. TileAt(w1, y + 1, x) # " "
          BY <4>3 DEF Money
        <5> QED BY <1>2, <1>7, <4>3, <5>1, Reading
      <4>5. Undermined(c, y, x + d)
        BY <1>1, <1>2, <1>4, <4>1, <4>4 DEF Undermined
      <4> QED BY <4>5 DEF Yielding
    <3> QED BY <3>1, <3>2
  <2> HIDE DEF w3
  <2> QED BY <1>2, <1>3, <1>12, <2>1, PutReach, OnwardFacts
<1> HIDE DEF w3, w2, below1, below2
<1> QED BY <1>5, <1>12, <1>13, <1>14

\* Every rule of the first pass; an exit that is open without right is shut.
LEMMA FrameTileReach ==
    ASSUME NEW c \in Contexts, Fits(c), NEW w \in Reach(c), NEW y \in Rows, NEW x \in Cols
    PROVE  /\ FrameTile(w, y, x) \in Reach(c)
           /\ TileAt(c, y, x) = "E" /\ ~c.noMoney => FrameTile(w, y, x).next[y][x] = "e"
<1> DEFINE ch == w.field[y][x]
           v == FrameTile(w, y, x)
<1>1. y \in Int /\ x \in Int /\ TileAt(w, y, x) = ch
  BY Numbers DEF TileAt, Inside
<1>2. ASSUME ch # "#" PROVE \A t \in Tiles : t = "E" \/ Put(w, y, x, t) \in Reach(c)
  BY <1>1, <1>2, Own, OnwardFacts
<1>3. TileAt(c, y, x) = "E" => ch = "E"
  BY <1>1, Reading
<1>4. CASE ch \in Loose /\ y = ROWS - 1
  <2>1. v = Put(w, y, x, " ")
    BY <1>4 DEF FrameTile
  <2>2. ch # "#" /\ ch # "E" /\ " " \in Tiles /\ " " # "E"
    BY <1>4 DEF Loose, Money, Tiles
  <2> HIDE DEF v, ch
  <2> QED BY <1>2, <1>3, <2>1, <2>2 DEF v
<1>5. CASE ~(ch \in Loose /\ y = ROWS - 1)
  <2>1. CASE ch \in Digits
    <3>0. /\ ch \notin {"0", "%", "O", Money, "I", ":", ";", ".", "&", "?", "T", Pipe, "A", "x", "X", "e", "E"}
          /\ ch \notin {"(", ")"} /\ ch \notin {"<", ">"} /\ ch \notin Walkers
      BY <2>1 DEF Digits, Money, Pipe, Walkers
    <3>1. v = IF TileAt(w, y - 1, x) \notin {" ", None} THEN Put(w, y, x, OneLess[ch]) ELSE w
      BY <1>5, <2>1, <3>0 DEF FrameTile
    <3>2. ch # "#" /\ ch # "E" /\ OneLess[ch] \in Tiles /\ OneLess[ch] # "E"
      BY <2>1 DEF Digits, OneLess, Tiles
    <3> HIDE DEF v, ch
    <3> QED BY <1>2, <1>3, <3>1, <3>2 DEF v
  <2>2. CASE ch = "0"
    <3>1. v = Put(w, y, x, " ")
      BY <1>5, <2>2 DEF FrameTile, Digits, Money, Pipe, Walkers
    <3>2. ch # "#" /\ ch # "E" /\ " " \in Tiles /\ " " # "E"
      BY <2>2 DEF Tiles
    <3> HIDE DEF v, ch
    <3> QED BY <1>2, <1>3, <3>1, <3>2 DEF v
  <2>3. CASE ch = "%"
    <3>1. v = Percent(w, y, x)
      BY <1>5, <2>3 DEF FrameTile, Digits, Money, Pipe, Walkers
    <3>2. ch # "E"
      BY <2>3
    <3> HIDE DEF v, ch
    <3> QED BY <1>1, <1>3, <2>3, <3>1, <3>2, PercentReach DEF v
  <2>4. CASE ch = "O"
    <3>1. v = Boulder(w, y, x)
      BY <1>5, <2>4 DEF FrameTile, Digits, Money, Pipe, Walkers
    <3>2. ch # "E"
      BY <2>4
    <3> HIDE DEF v, ch
    <3> QED BY <1>1, <1>3, <2>4, <3>1, <3>2, BoulderReach DEF v
  <2>5. CASE ch = Money
    <3>1. v = Coin(w, y, x)
      BY <1>5, <2>5 DEF FrameTile, Digits, Money, Pipe, Walkers
    <3>2. ch # "E"
      BY <2>5 DEF Money
    <3> HIDE DEF v, ch
    <3> QED BY <1>1, <1>3, <2>5, <3>1, <3>2, CoinReach DEF v
  <2>6. CASE ch = "I"
    <3>1. v = Player(w, y, x)
      BY <1>5, <2>6 DEF FrameTile, Digits, Money, Pipe, Walkers
    <3>2. ch # "E"
      BY <2>6
    <3> HIDE DEF v, ch
    <3> QED BY <1>1, <1>3, <2>6, <3>1, <3>2, PlayerReach DEF v
  <2>7. CASE ch \in {":", ";", "."}
    <3>1. v = Valve(w, y, x, ch)
      BY <1>5, <2>7 DEF FrameTile, Digits, Money, Pipe, Walkers
    <3>2. ch # "E" /\ ch # "#"
      BY <2>7
    <3> HIDE DEF v, ch
    <3> QED BY <1>1, <1>3, <3>1, <3>2, ValveReach DEF v
  <2>8. CASE ch \in {"&", "?"}
    <3>1. v = Fuse(w, y, x)
      BY <1>5, <2>8 DEF FrameTile, Digits, Money, Pipe, Walkers
    <3>2. ch # "E" /\ ch # "#"
      BY <2>8
    <3> HIDE DEF v, ch
    <3> QED BY <1>1, <1>3, <3>1, <3>2, FuseReach DEF v
  <2>9. CASE ch = "T"
    <3>1. v = Trolley(w, y, x)
      BY <1>5, <2>9 DEF FrameTile, Digits, Money, Pipe, Walkers
    <3>2. ch # "E" /\ ch # "#"
      BY <2>9
    <3> HIDE DEF v, ch
    <3> QED BY <1>1, <1>3, <3>1, <3>2, TrolleyReach DEF v
  <2>10. CASE ch \in {Pipe, "A"}
    <3>1. v = Dispenser(w, y, x, ch)
      BY <1>5, <2>10 DEF FrameTile, Digits, Money, Pipe, Walkers
    <3>2. ch # "E" /\ ch # "#"
      BY <2>10 DEF Pipe
    <3> HIDE DEF v, ch
    <3> QED BY <1>1, <1>3, <3>1, <3>2, DispenserReach DEF v
  <2>11. CASE ch \in {"x", "X"}
    <3>1. v = Eater(w, y, x, ch)
      BY <1>5, <2>11 DEF FrameTile, Digits, Money, Pipe, Walkers
    <3>2. ch # "E"
      BY <2>11
    <3> HIDE DEF v, ch
    <3> QED BY <1>1, <1>3, <2>11, <3>1, <3>2, EaterReach DEF v
  <2>12. CASE ch \in {"e", "E"}
    <3>1. v = Exit(w, y, x, ch)
      BY <1>5, <2>12 DEF FrameTile, Digits, Money, Pipe, Walkers
    <3> HIDE DEF v, ch
    <3> QED BY <1>1, <1>3, <2>12, <3>1, ExitReach DEF v
  <2>13. CASE ch \in {"(", ")"}
    <3>1. v = Belt(w, y, x, ch)
      BY <1>5, <2>13 DEF FrameTile, Digits, Money, Pipe, Walkers
    <3>2. ch # "E"
      BY <2>13
    <3> HIDE DEF v, ch
    <3> QED BY <1>1, <1>3, <2>13, <3>1, <3>2, BeltReach DEF v
  <2>14. CASE ch \in {"<", ">"}
    <3>1. v = Platform(w, y, x, ch)
      BY <1>5, <2>14 DEF FrameTile, Digits, Money, Pipe, Walkers
    <3>2. ch # "E"
      BY <2>14
    <3> HIDE DEF v, ch
    <3> QED BY <1>1, <1>3, <2>14, <3>1, <3>2, PlatformReach DEF v
  <2>15. CASE ch \in Walkers
    <3>1. v = Walker(w, y, x, ch)
      BY <1>5, <2>15 DEF FrameTile, Digits, Money, Pipe, Walkers
    <3>2. ch # "E"
      BY <2>15 DEF Walkers
    <3> HIDE DEF v, ch
    <3> QED BY <1>1, <1>3, <2>15, <3>1, <3>2, WalkerReach DEF v
  <2>16. CASE /\ ch \notin Digits /\ ch \notin {"0", "%", "O", Money, "I", ":", ";", ".", "&", "?", "T", Pipe, "A", "x", "X", "e", "E"}
              /\ ch \notin {"(", ")", "<", ">"} /\ ch \notin Walkers
    <3>1. v = w
      BY <1>5, <2>16 DEF FrameTile
    <3>2. ch # "E"
      BY <2>16
    <3> HIDE DEF v, ch
    <3> QED BY <1>3, <3>1, <3>2 DEF v
  <2> HIDE DEF ch
  <2> QED BY <2>1, <2>2, <2>3, <2>4, <2>5, <2>6, <2>7, <2>8, <2>9, <2>10, <2>11, <2>12, <2>13, <2>14, <2>15, <2>16
<1> QED BY <1>4, <1>5

\* A copier copies what is above it, but no open exit (Copier).
LEMMA CopierReach ==
    ASSUME NEW c \in Contexts, Fits(c), NEW w \in Reach(c), NEW y \in Rows, NEW x \in Cols,
           c.noMoney \/ TileAt(c, y - 1, x) # "E"
    PROVE  Copier(w, y, x) \in Reach(c)
<1> DEFINE ob == TileAt(w, y - 1, x)
           p == Probe(w, y + 1, x, ob)
           v == p.w
<1>1. y \in Int /\ x \in Int /\ y - 1 \in Int /\ y + 1 \in Int
  BY Numbers
<1>2. \/ Copier(w, y, x) = w
      \/ /\ ob # "I" /\ ob # None
         /\ \/ Copier(w, y, x) = v
            \/ ~p.blocked /\ Copier(w, y, x) = Put(v, y + 1, x, ob)
  BY DEF Copier
<1>3. ASSUME ob # "I", ob # None PROVE v \in Reach(c) /\ (~p.blocked => Put(v, y + 1, x, ob) \in Reach(c))
  <2>1. ob \in Tiles /\ (c.noMoney \/ ob # "E")
    <3>1. c.noMoney \/ ob # "E"
      BY <1>1, Reading
    <3>2. ob \in Tiles
      BY <1>1, <1>3, Kinds
    <3> QED BY <3>1, <3>2
  <2> HIDE DEF ob
  <2>2. Told(c, w, y + 1, x, p)
    BY <1>1, <1>3, ProbeTold
  <2> HIDE DEF p
  <2>3. v \in Reach(c)
    BY <2>2, OnwardFacts DEF Told
  <2> HIDE DEF v
  <2>4. ASSUME ~p.blocked PROVE Put(v, y + 1, x, ob) \in Reach(c)
    <3>1. Yielding(c, y + 1, x)
      BY <2>2, <2>4 DEF Told
    <3> QED BY <1>1, <2>1, <2>3, <3>1, PutReach, OnwardFacts
  <2> QED BY <2>3, <2>4
<1> HIDE DEF ob, p, v
<1> QED BY <1>2, <1>3

\* A fish swims and turns (Fish).
LEMMA FishReach ==
    ASSUME NEW c \in Contexts, NEW w \in Reach(c), NEW y \in Rows, NEW x \in Cols,
           NEW ch \in {"b", "d"}, TileAt(w, y, x) = ch
    PROVE  Fish(w, y, x, ch) \in Reach(c)
<1> DEFINE d == Ahead(ch)
<1>1. d \in {-1, 1}
  <2>1. Ahead("b") = 1 /\ Ahead("d") = -1
    BY DEF Ahead
  <2> QED BY <2>1
<1>2. y \in Int /\ x \in Int /\ x + d \in Int
  BY <1>1, Numbers DEF Cols
<1>3. {"b", "d"} \subseteq Tiles /\ ch \in Tiles /\ ch # "E" /\ "E" \notin {"b", "d"} /\ ch # "#"
  BY DEF Tiles
<1>4. \/ Fish(w, y, x, ch) \in {Put(w, y, x, "b"), Put(w, y, x, "d")}
      \/ ~Occupied(w, y, x + d) /\ Fish(w, y, x, ch) = Put(Put(w, y, x, " "), y, x + d, ch)
  BY DEF Fish
<1> HIDE DEF d
<1>5. \A t \in {"b", "d"} : Put(w, y, x, t) \in Reach(c)
  BY <1>3, Own, OnwardFacts
<1>6. ASSUME ~Occupied(w, y, x + d) PROVE Put(Put(w, y, x, " "), y, x + d, ch) \in Reach(c)
  <2>1. Put(w, y, x, " ") \in Reach(c)
    BY <1>3, Own, OnwardFacts
  <2>2. Yielding(c, y, x + d)
    BY <1>2, <1>6, Free
  <2> QED BY <1>2, <1>3, <2>1, <2>2, PutReach, OnwardFacts
<1> QED BY <1>4, <1>5, <1>6

\* Every rule of the second pass.
LEMMA SlowTileReach ==
    ASSUME NEW c \in Contexts, Fits(c), NEW w \in Reach(c), NEW y \in Rows, NEW x \in Cols,
           c.noMoney \/ \A i \in Rows, j \in Cols : c.field[i][j] # "E"
    PROVE  SlowTile(w, y, x) \in Reach(c)
<1> DEFINE ch == w.field[y][x]
<1>1. TileAt(w, y, x) = ch
  BY DEF TileAt, Inside
<1>2. CASE ch = "="
  <2>1. SlowTile(w, y, x) = Copier(w, y, x)
    BY <1>2 DEF SlowTile
  <2>2. c.noMoney \/ TileAt(c, y - 1, x) # "E"
    BY DEF TileAt, Inside, None
  <2> QED BY <2>1, <2>2, CopierReach
<1>3. CASE ch \in {"b", "d"}
  <2>1. SlowTile(w, y, x) = Fish(w, y, x, ch)
    BY <1>3 DEF SlowTile
  <2> HIDE DEF ch
  <2> QED BY <1>1, <1>3, <2>1, FishReach
<1>4. CASE ch \notin {"=", "b", "d"}
  <2>1. SlowTile(w, y, x) = w
    BY <1>4 DEF SlowTile
  <2> QED BY <2>1
<1> QED BY <1>2, <1>3, <1>4

\* Quotient and remainder run through a rectangle.
LEMMA Places ==
    ASSUME NEW C \in Nat \ {0}, NEW R \in Nat
    PROVE  /\ \A m \in 0 .. R * C - 1 : m \div C \in 0 .. R - 1 /\ m % C \in 0 .. C - 1
           /\ \A i \in 0 .. R - 1, j \in 0 .. C - 1 :
                \E m \in 0 .. R * C - 1 : m \div C = i /\ m % C = j
<1>1. ASSUME NEW m \in 0 .. R * C - 1 PROVE m \div C \in 0 .. R - 1 /\ m % C \in 0 .. C - 1
  <2>1. m \in Nat /\ m < R * C
    <3>1. R * C \in Nat
      OBVIOUS
    <3> QED BY <3>1
  <2>2. m % C \in 0 .. C - 1 /\ m \div C \in Nat /\ m = C * (m \div C) + (m % C)
    BY <2>1
  <2>3. ASSUME NEW q \in Nat, NEW r \in Nat, C * q + r < R * C PROVE q < R
    <3> SUFFICES ASSUME q >= R PROVE FALSE
      OBVIOUS
    <3>1. C * q >= C * R
      OBVIOUS
    <3> QED BY <2>3, <3>1
  <2>4. m \div C < R
    <3>1. m % C \in Nat
      BY <2>2
    <3> QED BY <2>1, <2>2, <2>3, <3>1
  <2> QED BY <2>2, <2>4
<1>2. ASSUME NEW i \in 0 .. R - 1, NEW j \in 0 .. C - 1
      PROVE  \E m \in 0 .. R * C - 1 : m \div C = i /\ m % C = j
  <2>1. C * i <= C * (R - 1) /\ C * (R - 1) = R * C - C
    OBVIOUS
  <2>2. C * i \in Nat /\ R * C \in Nat
    OBVIOUS
  <2>3. C * i + j \in 0 .. R * C - 1
    BY <2>1, <2>2
  <2>4. (C * i + j) \div C = i /\ (C * i + j) % C = j
    OBVIOUS
  <2> QED BY <2>3, <2>4
<1> QED BY <1>1, <1>2

\* The passes visit every cell, and nothing else.
LEMMA Cells ==
    /\ ROWS * COLUMNS \in Nat
    /\ \A m \in 0 .. ROWS * COLUMNS - 1 : m \div COLUMNS \in Rows /\ m % COLUMNS \in Cols
    /\ \A y \in Rows, x \in Cols :
         \E m \in 0 .. ROWS * COLUMNS - 1 : m \div COLUMNS = y /\ m % COLUMNS = x
<1> DEFINE Claim(R, C) ==
             /\ R * C \in Nat
             /\ \A m \in 0 .. R * C - 1 : m \div C \in 0 .. R - 1 /\ m % C \in 0 .. C - 1
             /\ \A i \in 0 .. R - 1, j \in 0 .. C - 1 :
                  \E m \in 0 .. R * C - 1 : m \div C = i /\ m % C = j
<1>1. \A C \in Nat \ {0}, R \in Nat : Claim(R, C)
  <2> SUFFICES ASSUME NEW C \in Nat \ {0}, NEW R \in Nat PROVE Claim(R, C)
    OBVIOUS
  <2>1. R * C \in Nat
    OBVIOUS
  <2> QED BY <2>1, Places, Zenon
<1> HIDE DEF Claim
<1>2. Claim(ROWS, COLUMNS)
  BY <1>1, SizeAssumption
<1> QED BY <1>2 DEF Claim, Rows, Cols

\* Within reach of c, and of whatever has the same exits open as it.
LEMMA Narrow ==
    ASSUME NEW c \in Contexts, NEW b \in Contexts, b.field = c.field, b.keys = c.keys,
           b.noMoney = c.noMoney, b.win = c.win, b.stray = c.stray, NEW v \in Reach(c),
           \A y \in Rows, x \in Cols :
              ~c.noMoney /\ v.next[y][x] = "E" /\ c.open[y][x] => b.open[y][x]
    PROVE  v \in Reach(b)
<1>1. \A y, x : TileAt(b, y, x) = TileAt(c, y, x)
  BY DEF TileAt
<1>2. \A y, x : Undermined(b, y, x) <=> Undermined(c, y, x)
  BY <1>1 DEF Undermined
<1>3. ASSUME NEW y \in Rows, NEW x \in Cols PROVE Faithful(b, v, y, x)
  <2>1. Faithful(c, v, y, x)
    BY DEF Reach
  <2> QED BY <1>2, <2>1 DEF Faithful
<1>4. v \in Works /\ v.keys = b.keys /\ v.noMoney = b.noMoney /\ (v.win => b.win) /\ v.stray \subseteq b.stray
  BY DEF Reach
<1> QED BY <1>3, <1>4 DEF Reach

\* What is fit does not depend on the exits that are still open.
LEMMA FitsAlso ==
    ASSUME NEW c \in Contexts, NEW b \in Contexts, b.field = c.field, b.win = c.win,
           b.stray = c.stray, Fits(c)
    PROVE  Fits(b)
<1>1. \A y, x : TileAt(b, y, x) = TileAt(c, y, x)
  BY DEF TileAt
<1> QED BY <1>1 DEF Fits

\* A pass stays within reach, however many rules it applies; once the first one
\* has visited every cell, no exit is open without right.
LEMMA PassFrame ==
    ASSUME NEW c \in Contexts, Fits(c), NEW w \in Reach(c)
    PROVE  LET v == Pass(FrameTile, w)
           IN  /\ v \in Reach(c)
               /\ ~c.noMoney => \A y \in Rows, x \in Cols : v.next[y][x] # "E"
<1> DEFINE last == ROWS * COLUMNS
           Y(n) == (n - 1) \div COLUMNS
           X(n) == (n - 1) % COLUMNS
           Gone(n, y, x) == \E m \in 1 .. n : Y(m) = y /\ X(m) = x
           open(n) == [y \in Rows |-> [x \in Cols |-> c.open[y][x] /\ ~Gone(n, y, x)]]
           ctx(n) == [c EXCEPT !.open = open(n)]
           W == [n \in 0 .. last |-> Reach(ctx(n))]
           F == [n \in 0 .. last |-> [u \in Works |-> FrameTile(u, Y(n), X(n))]]
           Eq(g) == g = [n \in 0 .. last |-> IF n = 0 THEN w ELSE FrameTile(g[n - 1], Y(n), X(n))]
           upTo == CHOOSE g : Eq(g)
<1>0. last \in Nat
  BY SizeAssumption
<1>1. \A n \in 1 .. last : Y(n) \in Rows /\ X(n) \in Cols
  <2>1. ASSUME NEW n \in 1 .. last PROVE n - 1 \in 0 .. last - 1
    BY <1>0
  <2>2. \A m \in 0 .. last - 1 : m \div COLUMNS \in Rows /\ m % COLUMNS \in Cols
    BY Cells
  <2> QED BY <2>1, <2>2
<1>2. \A y \in Rows, x \in Cols : Gone(last, y, x)
  <2> SUFFICES ASSUME NEW y \in Rows, NEW x \in Cols PROVE Gone(last, y, x)
    OBVIOUS
  <2>1. PICK m \in 0 .. last - 1 : m \div COLUMNS = y /\ m % COLUMNS = x
    BY Cells
  <2>2. m + 1 \in 1 .. last /\ (m + 1) - 1 = m
    BY <1>0
  <2>3. Y(m + 1) = y /\ X(m + 1) = x
    BY <2>1, <2>2
  <2> QED BY <2>2, <2>3
<1>3. \A y, x : ~Gone(0, y, x)
  OBVIOUS
<1>4. \A n \in 1 .. last : \A y, x : Gone(n, y, x) => Gone(n - 1, y, x) \/ (Y(n) = y /\ X(n) = x)
  <2> SUFFICES ASSUME NEW n \in 1 .. last, NEW y, NEW x, NEW m \in 1 .. n, Y(m) = y, X(m) = x, m # n
               PROVE  Gone(n - 1, y, x)
    OBVIOUS
  <2>1. m \in 1 .. n - 1
    BY <1>0
  <2> QED BY <2>1
<1> HIDE DEF Gone
<1>5. \A n : /\ open(n) \in [Rows -> [Cols -> BOOLEAN]]
             /\ \A y \in Rows, x \in Cols : open(n)[y][x] <=> (c.open[y][x] /\ ~Gone(n, y, x))
  BY DEF Contexts
<1> HIDE DEF open
<1>6. \A n : /\ ctx(n) \in Contexts /\ ctx(n).field = c.field /\ ctx(n).keys = c.keys
             /\ ctx(n).noMoney = c.noMoney /\ ctx(n).win = c.win /\ ctx(n).stray = c.stray
             /\ ctx(n).open = open(n)
  BY <1>5 DEF Contexts
<1> HIDE DEF ctx
<1>7. \A n : Fits(ctx(n))
  BY <1>6, FitsAlso
<1>8. w \in W[0]
  <2>1. w \in Reach(ctx(0))
    BY <1>3, <1>5, <1>6, Narrow
  <2> QED BY <1>0, <2>1
<1>9. ASSUME NEW n \in 1 .. last, NEW u \in Reach(ctx(n - 1))
      PROVE  u \in Works /\ FrameTile(u, Y(n), X(n)) \in Reach(ctx(n))
  <2>1. Y(n) \in Rows /\ X(n) \in Cols
    BY <1>1
  <2> DEFINE v == FrameTile(u, Y(n), X(n))
  <2>2. /\ v \in Reach(ctx(n - 1))
        /\ TileAt(ctx(n - 1), Y(n), X(n)) = "E" /\ ~c.noMoney => v.next[Y(n)][X(n)] = "e"
    BY <1>6, <1>7, <2>1, FrameTileReach
  <2> HIDE DEF v
  <2>3. ASSUME NEW y \in Rows, NEW x \in Cols, ~c.noMoney, v.next[y][x] = "E", ctx(n - 1).open[y][x]
        PROVE  ctx(n).open[y][x]
    <3>1. c.open[y][x] /\ ~Gone(n - 1, y, x)
      BY <1>5, <1>6, <2>3
    <3>2. ~(Y(n) = y /\ X(n) = x)
      <4> SUFFICES ASSUME Y(n) = y, X(n) = x PROVE FALSE
        OBVIOUS
      <4>1. Faithful(ctx(n - 1), v, y, x)
        BY <2>2 DEF Reach
      <4>2. ctx(n - 1).field[y][x] = "E"
        BY <1>6, <2>3, <4>1 DEF Faithful
      <4>3. TileAt(ctx(n - 1), y, x) = "E"
        BY <4>2 DEF TileAt, Inside
      <4> HIDE DEF Y, X
      <4> QED BY <2>2, <2>3, <4>3
    <3>3. ~Gone(n, y, x)
      <4> HIDE DEF Y, X
      <4> QED BY <1>4, <3>1, <3>2
    <3> QED BY <1>5, <1>6, <3>1, <3>3
  <2>4. v \in Reach(ctx(n))
    <3>1. /\ ctx(n) \in Contexts /\ ctx(n).field = ctx(n - 1).field /\ ctx(n).keys = ctx(n - 1).keys
          /\ ctx(n).noMoney = ctx(n - 1).noMoney /\ ctx(n).win = ctx(n - 1).win
          /\ ctx(n).stray = ctx(n - 1).stray /\ ctx(n - 1) \in Contexts /\ ctx(n - 1).noMoney = c.noMoney
      BY <1>6
    <3> QED BY <2>2, <2>3, <3>1, Narrow
  <2>5. u \in Works
    BY DEF Reach
  <2> QED BY <2>4, <2>5 DEF v
<1> HIDE DEF Y, X
<1>10. PICK g : Eq(g)
  <2>1. \A i \in 1 .. last : \A u \in W[i - 1] : F[i][u] \in W[i]
    <3> SUFFICES ASSUME NEW i \in 1 .. last, NEW u \in W[i - 1] PROVE F[i][u] \in W[i]
      OBVIOUS
    <3>1. i \in 0 .. last /\ i - 1 \in 0 .. last
      BY <1>0
    <3>2. u \in Reach(ctx(i - 1))
      BY <3>1
    <3>3. F[i][u] = FrameTile(u, Y(i), X(i)) /\ FrameTile(u, Y(i), X(i)) \in Reach(ctx(i))
      BY <1>9, <3>1, <3>2
    <3> QED BY <3>1, <3>3
  <2>2. \A i \in 0 + 1 .. last : \A u \in W[i - 1] : F[i][u] \in W[i]
    <3>1. 0 + 1 = 1
      OBVIOUS
    <3> HIDE DEF W, F, last
    <3> QED BY <2>1, <3>1
  <2>6. 0 \in Int /\ last \in Int /\ 0 <= last
    BY <1>0
  <2> HIDE DEF W, F, last
  <2>7. PICK g : Recurses(g, 0, last, w, F, W)
    BY <1>8, <2>2, <2>6, RecursionExists, Zenon
  <2>3. /\ g = [i \in 0 .. last |-> IF i = 0 THEN w ELSE F[i][g[i - 1]]]
        /\ \A i \in 0 .. last : g[i] \in W[i]
    BY <2>7 DEF Recurses
  <2>4. ASSUME NEW i \in 0 .. last, i # 0 PROVE F[i][g[i - 1]] = FrameTile(g[i - 1], Y(i), X(i))
    <3>1. i - 1 \in 0 .. last /\ i \in 1 .. last
      BY <1>0, <2>4
    <3>2. g[i - 1] \in Reach(ctx(i - 1))
      BY <2>3, <3>1 DEF W
    <3> QED BY <1>9, <3>1, <3>2 DEF F
  <2>5. Eq(g)
    BY <2>3, <2>4
  <2> QED BY <2>5
<1>11. Eq(upTo)
  <2> HIDE DEF Eq
  <2> QED BY <1>10
<1>12. Pass(FrameTile, w) = upTo[last]
  BY DEF Pass, Y, X
<1> HIDE DEF upTo
<1>13. \A n \in 0 .. last : upTo[n] \in W[n]
  <2> DEFINE S == {n \in 0 .. last : upTo[n] \in W[n]}
  <2>1. 0 \in S
    BY <1>0, <1>8, <1>11
  <2>2. ASSUME NEW n \in 0 + 1 .. last, n - 1 \in S PROVE n \in S
    <3>1. n \in 1 .. last /\ n \in 0 .. last /\ n - 1 \in 0 .. last /\ n # 0
      BY <1>0
    <3>2. upTo[n - 1] \in Reach(ctx(n - 1))
      BY <2>2, <3>1
    <3>3. upTo[n] = FrameTile(upTo[n - 1], Y(n), X(n))
      BY <1>11, <3>1
    <3> QED BY <1>9, <3>1, <3>2, <3>3
  <2>4. 0 \in Int /\ last \in Int
    BY <1>0
  <2>5. \A n \in 0 + 1 .. last : n - 1 \in S => n \in S
    BY <2>2
  <2> HIDE DEF S, last
  <2>3. \A n \in 0 .. last : n \in S
    BY <2>1, <2>4, <2>5, IntervalInduction, Zenon
  <2> QED BY <2>3 DEF S
<1> DEFINE v == upTo[last]
<1>14. v \in Reach(ctx(last))
  BY <1>0, <1>13
<1> HIDE DEF v
<1>15. v \in Reach(c)
  BY <1>5, <1>6, <1>14, Narrow
<1>16. ASSUME ~c.noMoney, NEW y \in Rows, NEW x \in Cols PROVE v.next[y][x] # "E"
  <2>1. Faithful(ctx(last), v, y, x)
    BY <1>14 DEF Reach
  <2> QED BY <1>2, <1>5, <1>6, <1>16, <2>1 DEF Faithful
<1> QED BY <1>12, <1>15, <1>16 DEF v

\* The second pass stays within reach too, when no exit is there to be copied.
LEMMA PassSlow ==
    ASSUME NEW c \in Contexts, Fits(c), NEW w \in Reach(c),
           c.noMoney \/ \A i \in Rows, j \in Cols : c.field[i][j] # "E"
    PROVE  Pass(SlowTile, w) \in Reach(c)
<1> DEFINE last == ROWS * COLUMNS
           Y(n) == (n - 1) \div COLUMNS
           X(n) == (n - 1) % COLUMNS
           W == [n \in 0 .. last |-> Reach(c)]
           F == [n \in 0 .. last |-> [u \in Reach(c) |-> SlowTile(u, Y(n), X(n))]]
           Eq(g) == g = [n \in 0 .. last |-> IF n = 0 THEN w ELSE SlowTile(g[n - 1], Y(n), X(n))]
           upTo == CHOOSE g : Eq(g)
<1>0. last \in Nat
  BY SizeAssumption
<1>1. \A n \in 1 .. last : Y(n) \in Rows /\ X(n) \in Cols
  <2>1. ASSUME NEW n \in 1 .. last PROVE n - 1 \in 0 .. last - 1
    BY <1>0
  <2>2. \A m \in 0 .. last - 1 : m \div COLUMNS \in Rows /\ m % COLUMNS \in Cols
    BY Cells
  <2> QED BY <2>1, <2>2
<1> HIDE DEF Y, X
<1>2. ASSUME NEW n \in 1 .. last, NEW u \in Reach(c) PROVE SlowTile(u, Y(n), X(n)) \in Reach(c)
  BY <1>1, SlowTileReach
<1>3. PICK g : Eq(g)
  <2>1. \A i \in 1 .. last : \A u \in W[i - 1] : F[i][u] \in W[i]
    <3> SUFFICES ASSUME NEW i \in 1 .. last, NEW u \in W[i - 1] PROVE F[i][u] \in W[i]
      OBVIOUS
    <3>1. i \in 0 .. last /\ i - 1 \in 0 .. last
      BY <1>0
    <3>2. u \in Reach(c)
      BY <3>1
    <3> QED BY <1>2, <3>1, <3>2
  <2>2. \A i \in 0 + 1 .. last : \A u \in W[i - 1] : F[i][u] \in W[i]
    <3>1. 0 + 1 = 1
      OBVIOUS
    <3> HIDE DEF W, F, last
    <3> QED BY <2>1, <3>1
  <2>6. 0 \in Int /\ last \in Int /\ 0 <= last /\ w \in W[0]
    BY <1>0
  <2> HIDE DEF W, F, last
  <2>7. PICK g : Recurses(g, 0, last, w, F, W)
    BY <2>2, <2>6, RecursionExists, Zenon
  <2>3. /\ g = [i \in 0 .. last |-> IF i = 0 THEN w ELSE F[i][g[i - 1]]]
        /\ \A i \in 0 .. last : g[i] \in W[i]
    BY <2>7 DEF Recurses
  <2>4. ASSUME NEW i \in 0 .. last, i # 0 PROVE F[i][g[i - 1]] = SlowTile(g[i - 1], Y(i), X(i))
    <3>1. i - 1 \in 0 .. last
      BY <1>0, <2>4
    <3>2. g[i - 1] \in Reach(c)
      BY <2>3, <3>1 DEF W
    <3> QED BY <3>2 DEF F
  <2>5. Eq(g)
    BY <2>3, <2>4
  <2> QED BY <2>5
<1>4. Eq(upTo)
  <2> HIDE DEF Eq
  <2> QED BY <1>3
<1>5. Pass(SlowTile, w) = upTo[last]
  BY DEF Pass, Y, X
<1> HIDE DEF upTo
<1>6. \A n \in 0 .. last : upTo[n] \in Reach(c)
  <2> DEFINE S == {n \in 0 .. last : upTo[n] \in Reach(c)}
  <2>1. 0 \in S
    BY <1>0, <1>4
  <2>2. ASSUME NEW n \in 0 + 1 .. last, n - 1 \in S PROVE n \in S
    <3>1. n \in 1 .. last /\ n \in 0 .. last /\ n - 1 \in 0 .. last /\ n # 0
      BY <1>0
    <3>2. upTo[n] = SlowTile(upTo[n - 1], Y(n), X(n))
      BY <1>4, <3>1
    <3> QED BY <1>2, <2>2, <3>1, <3>2
  <2>4. 0 \in Int /\ last \in Int
    BY <1>0
  <2>5. \A n \in 0 + 1 .. last : n - 1 \in S => n \in S
    BY <2>2
  <2> HIDE DEF S, last
  <2>3. \A n \in 0 .. last : n \in S
    BY <2>1, <2>4, <2>5, IntervalInduction, Zenon
  <2> QED BY <2>3 DEF S
<1>7. last \in 0 .. last
  BY <1>0
<1> QED BY <1>5, <1>6, <1>7

-----------------------------------------------------------------------------
(* The tick. *)

\* The tiles that an argument about the rest of the field asks for.
Telling == {"E", "O", "I", "%", "(", "<", "[", "]", "x", ";", Money}

\* How a tick that starts with the field of w may leave the field's memory.
Astray(w) ==
    {s \in {"write"} : \E x \in Cols : w.field[ROWS - 1][x] \in {";", "O"}}
    \cup
    {s \in {"crash"} :
       \E y \in Rows : /\ w.field[y][0] = "O"
                       /\ \/ TileAt(w, y - 1, 0) = "I"
                          \/ TileAt(w, y, 1) = "I" /\ TileAt(w, y + 1, 1) \in {"(", "<"}}

\* What a tick may do to the work it starts with, once that is mirrored.
Begin(w) ==
    [field |-> Mirrored(w).field, keys |-> w.keys, noMoney |-> w.noMoney,
     win |-> w.win \/ \E y \in Rows, x \in Cols : w.field[y][x] = "E",
     stray |-> w.stray \cup Astray(Mirrored(w)),
     open |-> [y \in Rows |-> [x \in Cols |-> TRUE]]]

\* Mirroring blanks the tiles it mirrors, for this tick, and no others; neither
\* walls nor exits are among them.
LEMMA MirroredField ==
    ASSUME NEW w \in Works, w.next = w.field
    PROVE  /\ Mirrored(w) \in Works
           /\ \A y \in Rows, x \in Cols :
                /\ \A t \in Telling : Mirrored(w).field[y][x] = t => w.field[y][x] = t
                /\ \A t \in {"#", "E"} : w.field[y][x] = t => Mirrored(w).field[y][x] = t
                /\ Mirrored(w).next[y][x] \in {"E"} => Mirrored(w).field[y][x] \in {"E"}
                /\ Mirrored(w).field[y][x] \in {"#"} => Mirrored(w).next[y][x] \in {"#"}
           /\ Mirrored(w).keys = w.keys /\ Mirrored(w).noMoney = w.noMoney
           /\ Mirrored(w).win = w.win /\ Mirrored(w).stray = w.stray
<1>1. CASE ~w.reverse
  <2>1. Mirrored(w) = w
    BY <1>1 DEF Mirrored
  <2> QED BY <2>1
<1>2. CASE w.reverse
  <2> DEFINE n == [y \in Rows |-> [x \in Cols |->
                     IF w.field[y][x] \in DOMAIN Mirror THEN Mirror[w.field[y][x]] ELSE w.next[y][x]]]
             f == [y \in Rows |-> [x \in Cols |->
                     IF w.field[y][x] \in DOMAIN Mirror THEN " " ELSE w.field[y][x]]]
  <2>1. Mirrored(w) = [w EXCEPT !.next = n, !.field = f, !.reverse = FALSE]
    BY <1>2 DEF Mirrored, Replaced, Works
  <2>2. w.field \in Fields /\ w.next \in Fields
    BY DEF Works
  <2>3. DOMAIN Mirror = {"[", "]", "{", "}", "<", ">", "(", ")"}
    BY DEF Mirror, Walkers
  <2>4. \A t \in DOMAIN Mirror : Mirror[t] \in {"[", "]", "{", "}", "<", ">", "(", ")"}
    BY DEF Mirror, Walkers
  <2>5. {"[", "]", "{", "}", "<", ">", "(", ")", " "} \subseteq Tiles
    BY DEF Tiles, Walkers
  <2>6. f \in Fields /\ n \in Fields
    BY <2>2, <2>4, <2>5 DEF Fields
  <2>7. \A y \in Rows, x \in Cols :
          /\ f[y][x] = IF w.field[y][x] \in DOMAIN Mirror THEN " " ELSE w.field[y][x]
          /\ n[y][x] = IF w.field[y][x] \in DOMAIN Mirror THEN Mirror[w.field[y][x]] ELSE w.field[y][x]
    OBVIOUS
  <2> HIDE DEF f, n
  <2>8. /\ Mirrored(w) \in Works
        /\ Mirrored(w).field = f /\ Mirrored(w).next = n
        /\ Mirrored(w).keys = w.keys /\ Mirrored(w).noMoney = w.noMoney
        /\ Mirrored(w).win = w.win /\ Mirrored(w).stray = w.stray
    BY <2>1, <2>6 DEF Works
  <2> HIDE DEF Telling
  <2>9. ASSUME NEW y \in Rows, NEW x \in Cols
        PROVE  /\ \A t \in Telling : f[y][x] = t => w.field[y][x] = t
               /\ \A t \in {"#", "E"} : w.field[y][x] = t => f[y][x] = t
               /\ n[y][x] \in {"E"} => f[y][x] \in {"E"}
               /\ f[y][x] \in {"#"} => n[y][x] \in {"#"}
    <3>1. CASE w.field[y][x] \in DOMAIN Mirror
      <4>1. f[y][x] = " " /\ n[y][x] \in DOMAIN Mirror
        BY <3>1, <2>3, <2>4, <2>7
      <4>2. " " \notin Telling
        BY DEF Telling, Money
      <4> QED BY <3>1, <4>1, <4>2, <2>3
    <3>2. CASE w.field[y][x] \notin DOMAIN Mirror
      <4>1. f[y][x] = w.field[y][x] /\ n[y][x] = w.field[y][x]
        BY <3>2, <2>7
      <4> QED BY <4>1
    <3> QED BY <3>1, <3>2
  <2> QED BY <2>8, <2>9
<1>3. w.reverse \in BOOLEAN
  BY DEF Works
<1> QED BY <1>1, <1>2, <1>3

\* A tick starts within reach of what it may do.
LEMMA BeginReach ==
    ASSUME NEW w \in Works, w.next = w.field
    PROVE  /\ Begin(w) \in Contexts
           /\ Fits(Begin(w))
           /\ Mirrored(w) \in Reach(Begin(w))
<1> DEFINE m == Mirrored(w)
           c == Begin(w)
<1>1. m \in Works /\ m.keys = w.keys /\ m.noMoney = w.noMoney /\ m.win = w.win /\ m.stray = w.stray
  BY MirroredField
<1>2. \A y \in Rows, x \in Cols :
        /\ \A t \in Telling : m.field[y][x] = t => w.field[y][x] = t
        /\ m.next[y][x] \in {"E"} => m.field[y][x] \in {"E"}
        /\ m.field[y][x] \in {"#"} => m.next[y][x] \in {"#"}
  BY MirroredField
<1>3. /\ c.field = m.field /\ c.keys = w.keys /\ c.noMoney = w.noMoney
      /\ c.stray = w.stray \cup Astray(m)
      /\ c.open = [y \in Rows |-> [x \in Cols |-> TRUE]]
  BY DEF Begin
<1>8. c.win <=> (w.win \/ \E y \in Rows, x \in Cols : w.field[y][x] = "E")
  BY DEF Begin
<1>4. c \in Contexts
  <2>1. Astray(m) \subseteq {"write", "crash"}
    BY DEF Astray
  <2>2. w.stray \cup Astray(m) \subseteq {"write", "crash"}
    BY <2>1 DEF Works
  <2>3. [y \in Rows |-> [x \in Cols |-> TRUE]] \in [Rows -> [Cols -> BOOLEAN]]
    OBVIOUS
  <2>4. m.field \in Fields /\ w.keys \in SUBSET Dirs /\ w.noMoney \in BOOLEAN /\ w.win \in BOOLEAN
    BY <1>1 DEF Works
  <2> HIDE DEF m
  <2> QED BY <2>2, <2>3, <2>4 DEF Begin, Contexts, m
<1> HIDE DEF c, m
<1>5. Fits(c)
  <2>0. \A y, x : TileAt(c, y, x) = TileAt(m, y, x)
    BY <1>3 DEF TileAt
  <2>1. \A x \in Cols : c.field[ROWS - 1][x] \in {";", "O"} => "write" \in c.stray
    <3>1. (\E x \in Cols : m.field[ROWS - 1][x] \in {";", "O"}) => "write" \in Astray(m)
      BY DEF Astray
    <3> QED BY <1>3, <3>1
  <2>2. ASSUME NEW y \in Rows, c.field[y][0] = "O",
               \/ TileAt(c, y - 1, 0) = "I"
               \/ TileAt(c, y, 1) = "I" /\ TileAt(c, y + 1, 1) \in {"(", "<"}
        PROVE "crash" \in c.stray
    <3>0. /\ m.field[y][0] = "O"
          /\ \/ TileAt(m, y - 1, 0) = "I"
             \/ TileAt(m, y, 1) = "I" /\ TileAt(m, y + 1, 1) \in {"(", "<"}
      BY <1>3, <2>0, <2>2
    <3>1. "crash" \in Astray(m)
      BY <3>0 DEF Astray
    <3> QED BY <1>3, <3>1
  <2>3. \A y \in Rows, x \in Cols : c.field[y][x] = "E" => c.win
    <3>1. "E" \in Telling
      BY DEF Telling
    <3>2. \A y \in Rows, x \in Cols : m.field[y][x] = "E" => w.field[y][x] = "E"
      BY <1>2, <3>1
    <3> QED BY <1>3, <1>8, <3>2
  <2> QED BY <2>1, <2>2, <2>3 DEF Fits
<1>6. ASSUME NEW y \in Rows, NEW x \in Cols PROVE Faithful(c, m, y, x)
  <2>1. c.open[y][x]
    BY <1>3
  <2> QED BY <1>2, <1>3, <2>1 DEF Faithful
<1>7. m \in Reach(c)
  BY <1>1, <1>3, <1>6, <1>8 DEF Reach
<1> QED BY <1>4, <1>5, <1>7 DEF c, m

\* The count at the end of the first pass opens the exit, and no exit is open
\* where it did not.
LEMMA CountedReach ==
    ASSUME NEW c \in Contexts, Fits(c), NEW v \in Reach(c),
           ~c.noMoney => \A y \in Rows, x \in Cols : v.next[y][x] # "E"
    PROVE  \E b \in Contexts :
              /\ Fits(b) /\ Counted(v) \in Reach(b)
              /\ b.field = c.field /\ b.win = c.win /\ b.stray = c.stray
              /\ c.noMoney => b.noMoney
              /\ b.noMoney <=> Counted(v).noMoney
              /\ ~b.noMoney => \A y \in Rows, x \in Cols : Counted(v).next[y][x] # "E"
<1> DEFINE n == Counted(v)
           b == [c EXCEPT !.noMoney = n.noMoney]
<1>1. v \in Works /\ v.keys = c.keys /\ v.noMoney = c.noMoney /\ (v.win => c.win) /\ v.stray \subseteq c.stray
  BY DEF Reach
<1>2. /\ n \in Works /\ n.field = v.field /\ n.next = v.next /\ n.keys = v.keys
      /\ n.win = v.win /\ n.stray = v.stray /\ n.noMoney \in BOOLEAN /\ (v.noMoney => n.noMoney)
  BY <1>1 DEF Counted, Works
<1> HIDE DEF n
<1>3. /\ b \in Contexts /\ b.field = c.field /\ b.win = c.win /\ b.stray = c.stray
      /\ b.keys = c.keys /\ b.noMoney = n.noMoney
  BY <1>2 DEF Contexts
<1> HIDE DEF b
<1>4. Fits(b)
  BY <1>3, FitsAlso
<1>5. \A y, x : Undermined(b, y, x) <=> Undermined(c, y, x)
  <2>1. \A y, x : TileAt(b, y, x) = TileAt(c, y, x)
    BY <1>3 DEF TileAt
  <2> QED BY <2>1 DEF Undermined
<1>6. ~b.noMoney => \A y \in Rows, x \in Cols : n.next[y][x] # "E"
  BY <1>1, <1>2, <1>3
<1>7. ASSUME NEW y \in Rows, NEW x \in Cols PROVE Faithful(b, n, y, x)
  <2>1. Faithful(c, v, y, x)
    BY DEF Reach
  <2> QED BY <1>2, <1>3, <1>5, <1>6, <2>1 DEF Faithful
<1>8. n \in Reach(b)
  BY <1>1, <1>2, <1>3, <1>7 DEF Reach
<1>9. /\ Fits(b) /\ n \in Reach(b)
      /\ b.field = c.field /\ b.win = c.win /\ b.stray = c.stray
      /\ c.noMoney => b.noMoney
      /\ b.noMoney <=> n.noMoney
      /\ ~b.noMoney => \A y \in Rows, x \in Cols : n.next[y][x] # "E"
  BY <1>1, <1>2, <1>3, <1>4, <1>6, <1>8
<1> QED BY <1>3, <1>9 DEF n

\* A whole tick stays within reach of what it may do, whether or not the slow
\* tiles act in it, and leaves no exit open unless the money is gone.
LEMMA TickReach ==
    ASSUME NEW w \in Works, w.next = w.field, NEW slow \in BOOLEAN,
           slow /\ ~w.noMoney => \A y \in Rows, x \in Cols : w.field[y][x] # "E"
    PROVE  \E v \in Works :
             /\ v = LET f == Frame1(Mirrored(w)) IN IF slow THEN Frame8(f) ELSE f
             /\ v.win => w.win \/ \E y \in Rows, x \in Cols : w.field[y][x] = "E"
             /\ v.stray \subseteq w.stray \cup Astray(Mirrored(w))
             /\ w.noMoney => v.noMoney
             /\ ~v.noMoney => \A y \in Rows, x \in Cols : v.next[y][x] # "E"
             /\ \A y \in Rows, x \in Cols :
                  w.field[y][x] = "#" /\ v.next[y][x] # "#" => Undermined(Mirrored(w), y, x)
<1> DEFINE m == Mirrored(w)
           c == Begin(w)
           p == Pass(FrameTile, m)
           n == Counted(p)
           s == Pass(SlowTile, n)
<1>1. c \in Contexts /\ Fits(c) /\ m \in Reach(c)
  BY BeginReach
<1>2. /\ \A y \in Rows, x \in Cols :
           /\ \A t \in Telling : m.field[y][x] = t => w.field[y][x] = t
           /\ \A t \in {"#", "E"} : w.field[y][x] = t => m.field[y][x] = t
      /\ c.field = m.field /\ c.noMoney = w.noMoney
      /\ c.win <=> (w.win \/ \E y \in Rows, x \in Cols : w.field[y][x] = "E")
      /\ c.stray = w.stray \cup Astray(m)
  <2>1. \A y \in Rows, x \in Cols :
           /\ \A t \in Telling : m.field[y][x] = t => w.field[y][x] = t
           /\ \A t \in {"#", "E"} : w.field[y][x] = t => m.field[y][x] = t
    BY MirroredField
  <2>2. c.field = m.field /\ c.noMoney = w.noMoney /\ c.stray = w.stray \cup Astray(m)
    BY DEF Begin
  <2>3. c.win <=> (w.win \/ \E y \in Rows, x \in Cols : w.field[y][x] = "E")
    BY DEF Begin
  <2> QED BY <2>1, <2>2, <2>3
<1>3. Frame1(m) = n /\ Frame8(n) = s
  BY DEF Frame1, Frame8
<1> HIDE DEF m, c
<1>4. p \in Reach(c) /\ (~c.noMoney => \A y \in Rows, x \in Cols : p.next[y][x] # "E")
  BY <1>1, PassFrame
<1> HIDE DEF p
<1>5. PICK b \in Contexts :
        /\ Fits(b) /\ n \in Reach(b)
        /\ b.field = c.field /\ b.win = c.win /\ b.stray = c.stray
        /\ c.noMoney => b.noMoney
        /\ b.noMoney <=> n.noMoney
        /\ ~b.noMoney => \A y \in Rows, x \in Cols : n.next[y][x] # "E"
  BY <1>1, <1>4, CountedReach
<1> HIDE DEF n
<1>6. \A y, x : Undermined(b, y, x) <=> Undermined(m, y, x)
  <2>1. \A y, x : TileAt(b, y, x) = TileAt(m, y, x)
    BY <1>2, <1>5 DEF TileAt
  <2> QED BY <2>1 DEF Undermined
<1>7. ASSUME NEW v \in Reach(b), ~b.noMoney => \A y \in Rows, x \in Cols : v.next[y][x] # "E"
      PROVE  /\ v \in Works
             /\ v.win => w.win \/ \E y \in Rows, x \in Cols : w.field[y][x] = "E"
             /\ v.stray \subseteq w.stray \cup Astray(m)
             /\ w.noMoney => v.noMoney
             /\ ~v.noMoney => \A y \in Rows, x \in Cols : v.next[y][x] # "E"
             /\ \A y \in Rows, x \in Cols :
                  w.field[y][x] = "#" /\ v.next[y][x] # "#" => Undermined(m, y, x)
  <2>1. v \in Works /\ v.noMoney = b.noMoney /\ (v.win => b.win) /\ v.stray \subseteq b.stray
    BY DEF Reach
  <2>2. ASSUME NEW y \in Rows, NEW x \in Cols, w.field[y][x] = "#", v.next[y][x] # "#"
        PROVE  Undermined(m, y, x)
    <3>1. Faithful(b, v, y, x)
      BY DEF Reach
    <3>2. b.field[y][x] = "#"
      BY <1>2, <1>5, <2>2
    <3> QED BY <1>6, <2>2, <3>1, <3>2 DEF Faithful
  <2> QED BY <1>2, <1>5, <1>7, <2>1, <2>2
<1>8. CASE slow
  <2>1. b.noMoney \/ \A y \in Rows, x \in Cols : b.field[y][x] # "E"
    <3>1. "E" \in Telling
      BY DEF Telling
    <3>2. \A y \in Rows, x \in Cols : m.field[y][x] = "E" => w.field[y][x] = "E"
      BY <1>2, <3>1
    <3>3. c.noMoney \/ \A y \in Rows, x \in Cols : w.field[y][x] # "E"
      BY <1>2, <1>8
    <3> QED BY <1>2, <1>5, <3>2, <3>3
  <2>2. s \in Reach(b)
    BY <1>5, <2>1, PassSlow
  <2> HIDE DEF s
  <2>3. ~b.noMoney => \A y \in Rows, x \in Cols : s.next[y][x] # "E"
    <3> SUFFICES ASSUME ~b.noMoney, NEW y \in Rows, NEW x \in Cols PROVE s.next[y][x] # "E"
      OBVIOUS
    <3>1. Faithful(b, s, y, x)
      BY <2>2 DEF Reach
    <3> QED BY <2>1, <3>1 DEF Faithful
  <2>4. (LET f == Frame1(m) IN IF slow THEN Frame8(f) ELSE f) = s
    BY <1>3, <1>8
  <2> QED BY <1>7, <2>2, <2>3, <2>4 DEF m
<1>9. CASE ~slow
  <2>1. (LET f == Frame1(m) IN IF slow THEN Frame8(f) ELSE f) = n
    BY <1>3, <1>9
  <2> QED BY <1>5, <1>7, <2>1 DEF m
<1> QED BY <1>8, <1>9

-----------------------------------------------------------------------------
(* The level text. *)

Positions == [ok : BOOLEAN, row : Nat, col : Nat, field : Fields]

\* A text of tiles and line ends makes a field of tiles, whether it fits or not.
LEMMA ParseMakesAField ==
    ASSUME NEW f \in Fields, NEW text \in Seq(Tiles \cup {"LF", "CR"})
    PROVE  Parse(text, f) \in Positions
<1> DEFINE last == Len(text)
           Read(p, c) ==
               IF ~p.ok \/ c = "CR" THEN p
               ELSE IF c = "LF" THEN [p EXCEPT !.row = @ + 1, !.col = 0]
               ELSE IF ~Inside(p.row, p.col) THEN [p EXCEPT !.ok = FALSE]
               ELSE [p EXCEPT !.field[p.row][p.col] = c, !.col = @ + 1]
           first == [ok |-> TRUE, row |-> 0, col |-> 0, field |-> f]
           W == [n \in 0 .. last |-> Positions]
           F == [n \in 0 .. last |-> [p \in Positions |-> Read(p, text[n])]]
           Eq(g) == g = [n \in 0 .. last |-> IF n = 0 THEN first ELSE Read(g[n - 1], text[n])]
           after == CHOOSE g : Eq(g)
<1>0. last \in Nat /\ 0 \in Int /\ last \in Int /\ 0 <= last
  BY LenProperties
<1>1. first \in Positions
  BY DEF Positions
<1>2. ASSUME NEW p \in Positions, NEW n \in 1 .. last PROVE Read(p, text[n]) \in Positions
  <2>1. text[n] \in Tiles \cup {"LF", "CR"}
    BY ElementOfSeq
  <2>2. p.ok \in BOOLEAN /\ p.row \in Nat /\ p.col \in Nat /\ p.field \in Fields
    BY DEF Positions
  <2>6. p.row + 1 \in Nat /\ p.col + 1 \in Nat
    BY <2>2
  <2>3. [p EXCEPT !.row = @ + 1, !.col = 0] \in Positions
    BY <2>2, <2>6 DEF Positions
  <2>4. [p EXCEPT !.ok = FALSE] \in Positions
    BY <2>2 DEF Positions
  <2>5. ASSUME text[n] \in Tiles, Inside(p.row, p.col)
        PROVE  [p EXCEPT !.field[p.row][p.col] = text[n], !.col = @ + 1] \in Positions
    <3> DEFINE g == [p.field EXCEPT ![p.row] = [p.field[p.row] EXCEPT ![p.col] = text[n]]]
    <3>1. g \in Fields
      BY <2>2, <2>5 DEF Fields, Inside
    <3>2. [p EXCEPT !.field[p.row][p.col] = text[n], !.col = @ + 1]
          = [p EXCEPT !.field = g, !.col = p.col + 1]
      BY DEF Positions
    <3> HIDE DEF g
    <3> QED BY <2>2, <2>6, <3>1, <3>2 DEF Positions
  <2> QED BY <2>1, <2>3, <2>4, <2>5
<1> HIDE DEF Read, first
<1>3. PICK g : Eq(g)
  <2>1. \A i \in 0 + 1 .. last : \A p \in W[i - 1] : F[i][p] \in W[i]
    <3> SUFFICES ASSUME NEW i \in 0 + 1 .. last, NEW p \in W[i - 1] PROVE F[i][p] \in W[i]
      OBVIOUS
    <3>1. i \in 1 .. last /\ i \in 0 .. last /\ i - 1 \in 0 .. last
      BY <1>0
    <3>2. p \in Positions
      BY <3>1
    <3> QED BY <1>2, <3>1, <3>2
  <2>2. first \in W[0]
    BY <1>0, <1>1
  <2> HIDE DEF W, F, last
  <2>3. PICK g : Recurses(g, 0, last, first, F, W)
    BY <1>0, <2>1, <2>2, RecursionExists, Zenon
  <2>4. /\ g = [i \in 0 .. last |-> IF i = 0 THEN first ELSE F[i][g[i - 1]]]
        /\ \A i \in 0 .. last : g[i] \in W[i]
    BY <2>3 DEF Recurses
  <2>5. ASSUME NEW i \in 0 .. last, i # 0 PROVE F[i][g[i - 1]] = Read(g[i - 1], text[i])
    <3>1. i - 1 \in 0 .. last
      BY <1>0, <2>5
    <3>2. g[i - 1] \in Positions
      BY <2>4, <3>1 DEF W
    <3> QED BY <3>2 DEF F
  <2>6. Eq(g)
    BY <2>4, <2>5
  <2> QED BY <2>6
<1>4. Eq(after)
  <2> HIDE DEF Eq
  <2> QED BY <1>3
<1>5. Parse(text, f) = after[last]
  BY DEF Parse, Read, first
<1> HIDE DEF after
<1>6. \A n \in 0 .. last : after[n] \in Positions
  <2> DEFINE S == {n \in 0 .. last : after[n] \in Positions}
  <2>1. 0 \in S
    BY <1>0, <1>1, <1>4
  <2>2. ASSUME NEW n \in 0 + 1 .. last, n - 1 \in S PROVE n \in S
    <3>1. n \in 1 .. last /\ n \in 0 .. last /\ n - 1 \in 0 .. last /\ n # 0
      BY <1>0
    <3>2. after[n] = Read(after[n - 1], text[n])
      BY <1>4, <3>1
    <3> QED BY <1>2, <2>2, <3>1, <3>2
  <2>3. \A n \in 0 + 1 .. last : n - 1 \in S => n \in S
    BY <2>2
  <2> HIDE DEF S, last
  <2>4. \A n \in 0 .. last : n \in S
    BY <1>0, <2>1, <2>3, IntervalInduction, Zenon
  <2> QED BY <2>4 DEF S
<1>7. last \in 0 .. last
  BY <1>0
<1> QED BY <1>5, <1>6, <1>7

-----------------------------------------------------------------------------
(* The steps of a play. *)

\* Until the money is gone, no tick of a play leaves an exit open for the next.
NoExitLeft == status = "playing" /\ tick # 0 /\ ~noMoney =>
                \A y \in Rows, x \in Cols : field[y][x] # "E"

\* The inductive invariant.
IInv == TypeOK /\ ExitNeedsMoney /\ NoExitLeft

\* The zeroed struct.
LEMMA InitHolds == Init => IInv
<1> SUFFICES ASSUME Init PROVE IInv
  OBVIOUS
<1>1. Nul \in Tiles
  BY DEF Tiles
<1>2. field \in [Rows -> [Cols -> Tiles]]
  BY <1>1 DEF Init
<1>3. {win, die, noMoney, reverse} \subseteq BOOLEAN
  BY DEF Init
<1>4. tick \in 0 .. 9 /\ tired \in {0, 2} /\ stray \subseteq {"write", "crash"}
  BY DEF Init
<1>5. TypeOK
  BY <1>2, <1>3, <1>4 DEF Init, TypeOK
<1> QED BY <1>5 DEF Init, IInv, ExitNeedsMoney, NoExitLeft

\* A new play, whatever was played before.
LEMMA CreateHolds ==
    ASSUME IInv, NEW l \in DOMAIN Levels, Create(l)
    PROVE  IInv' /\ tick' = 0 /\ stray' = stray
<1> DEFINE p == Parse(Levels[l], field)
<1>1. p \in Positions
  <2>1. field \in Fields
    BY DEF IInv, TypeOK, Fields
  <2>2. Levels[l] \in Seq(Tiles \cup {"LF", "CR"})
    BY LevelsAssumption
  <2> QED BY <2>1, <2>2, ParseMakesAField
<1>2. /\ level' = l /\ field' = p.field /\ status' = IF p.ok THEN "playing" ELSE "rejected"
      /\ win' = FALSE /\ die' = FALSE /\ noMoney' = FALSE /\ tired' = 0 /\ tick' = 0
      /\ reverse' = reverse /\ stray' = stray
  BY DEF Create
<1> HIDE DEF p
<1>3. field' \in [Rows -> [Cols -> Tiles]] /\ status' \in {"new", "playing", "rejected"}
  BY <1>1, <1>2 DEF Positions, Fields
<1>4. TypeOK'
  <2>1. reverse \in BOOLEAN /\ stray \subseteq {"write", "crash"}
    BY DEF IInv, TypeOK
  <2>2. {win', die', noMoney', reverse'} \subseteq BOOLEAN
    BY <1>2, <2>1
  <2>3. tick' \in 0 .. 9 /\ tired' \in {0, 2} /\ stray' \subseteq {"write", "crash"}
    BY <1>2, <2>1
  <2> QED BY <1>2, <1>3, <2>2, <2>3 DEF TypeOK
<1> QED BY <1>2, <1>4 DEF IInv, ExitNeedsMoney, NoExitLeft

\* What is in a place when the tick starts with it there, mirrored or not.
LEMMA WorkShows ==
    ASSUME TypeOK, NEW keys \in SUBSET Dirs
    PROVE  /\ Work(keys) \in Works /\ Work(keys).next = Work(keys).field
           /\ Work(keys).field = field
           /\ \A t \in Telling : \A y, x :
                TileAt(Mirrored(Work(keys)), y, x) = t => Here(y, x) = t
<1> DEFINE w == Work(keys)
           m == Mirrored(w)
<1>1. /\ w.field = field /\ w.next = field /\ w \in Works
  BY DEF Work, Works, TypeOK, Fields
<1> HIDE DEF w
<1>2. \A y \in Rows, x \in Cols : \A t \in Telling : m.field[y][x] = t => w.field[y][x] = t
  BY <1>1, MirroredField
<1> HIDE DEF m
<1>3. None \notin Telling
  BY DEF None, Telling, Money
<1>4. ASSUME NEW t \in Telling, NEW y, NEW x, TileAt(m, y, x) = t PROVE Here(y, x) = t
  <2>1. Inside(y, x)
    BY <1>3, <1>4 DEF TileAt
  <2>2. m.field[y][x] = t
    BY <1>4, <2>1 DEF TileAt
  <2>3. w.field[y][x] = t
    BY <1>2, <2>1, <2>2 DEF Inside
  <2> QED BY <1>1, <2>1, <2>3 DEF Here
<1> QED BY <1>1, <1>4 DEF w, m

\* What a tick does, whatever meets in it: the facts every property rests on.
LEMMA UpdateReach ==
    ASSUME TypeOK, NoExitLeft, NEW keys \in Holds, Update(keys)
    PROVE  /\ field' \in Fields /\ win' \in BOOLEAN /\ die' \in BOOLEAN
           /\ noMoney' \in BOOLEAN /\ reverse' \in BOOLEAN /\ tired' \in {0, 2}
           /\ win' => \E y \in Rows, x \in Cols : field[y][x] = "E"
           /\ stray' \subseteq stray \cup Astray(Mirrored(Work(keys)))
           /\ noMoney => noMoney'
           /\ ~noMoney' => \A y \in Rows, x \in Cols : field'[y][x] # "E"
           /\ \A y \in Rows, x \in Cols :
                field[y][x] = "#" /\ field'[y][x] # "#" => Undermined(Mirrored(Work(keys)), y, x)
<1> DEFINE w == Work(keys)
           slow == tick % 8 = 7
<1>1. keys \in SUBSET Dirs
  BY HoldsAssumption
<1>2. w \in Works /\ w.next = w.field /\ w.field = field
  BY <1>1, WorkShows
<1>3. w.noMoney = noMoney /\ w.win = win /\ w.stray = stray /\ ~win /\ status = "playing"
  BY DEF Work, Update, Alive
<1>4. slow => tick # 0
  BY DEF TypeOK
<1>5. slow /\ ~w.noMoney => \A y \in Rows, x \in Cols : w.field[y][x] # "E"
  BY <1>2, <1>3, <1>4 DEF NoExitLeft
<1>6. slow \in BOOLEAN
  OBVIOUS
<1>7. PICK v \in Works :
        /\ v = LET f == Frame1(Mirrored(w)) IN IF slow THEN Frame8(f) ELSE f
        /\ v.win => w.win \/ \E y \in Rows, x \in Cols : w.field[y][x] = "E"
        /\ v.stray \subseteq w.stray \cup Astray(Mirrored(w))
        /\ w.noMoney => v.noMoney
        /\ ~v.noMoney => \A y \in Rows, x \in Cols : v.next[y][x] # "E"
        /\ \A y \in Rows, x \in Cols :
             w.field[y][x] = "#" /\ v.next[y][x] # "#" => Undermined(Mirrored(w), y, x)
  <2> HIDE DEF w, slow
  <2> QED BY <1>2, <1>5, <1>6, TickReach
<1>8. v = Ticked(keys)
  BY <1>7 DEF Ticked
<1>9. /\ field' = v.next /\ win' = v.win /\ die' = v.die /\ noMoney' = v.noMoney
      /\ reverse' = v.reverse /\ tired' = Rested(v.tired) /\ stray' = v.stray
  BY <1>8 DEF Update
<1>10. /\ v.next \in Fields /\ v.win \in BOOLEAN /\ v.die \in BOOLEAN /\ v.noMoney \in BOOLEAN
       /\ v.reverse \in BOOLEAN /\ Rested(v.tired) \in {0, 2}
  BY DEF Works, Rested
<1> HIDE DEF w
<1>11. win' => \E y \in Rows, x \in Cols : field[y][x] = "E"
  BY <1>2, <1>3, <1>7, <1>9
<1>12. stray' \subseteq stray \cup Astray(Mirrored(w)) /\ (noMoney => noMoney')
  BY <1>3, <1>7, <1>9
<1>13. ~noMoney' => \A y \in Rows, x \in Cols : field'[y][x] # "E"
  BY <1>7, <1>9
<1>14. \A y \in Rows, x \in Cols :
         field[y][x] = "#" /\ field'[y][x] # "#" => Undermined(Mirrored(w), y, x)
  BY <1>2, <1>7, <1>9
<1> QED BY <1>9, <1>10, <1>11, <1>12, <1>13, <1>14 DEF w

\* A tick keeps the invariant: what it proves of the exit, the next one needs.
LEMMA UpdateHolds ==
    ASSUME IInv, NEW keys \in Holds, Update(keys)
    PROVE  IInv'
<1>1. TypeOK /\ NoExitLeft /\ ExitNeedsMoney
  BY DEF IInv
<1>2. /\ field' \in Fields /\ win' \in BOOLEAN /\ die' \in BOOLEAN
      /\ noMoney' \in BOOLEAN /\ reverse' \in BOOLEAN /\ tired' \in {0, 2}
      /\ win' => \E y \in Rows, x \in Cols : field[y][x] = "E"
      /\ stray' \subseteq stray \cup Astray(Mirrored(Work(keys)))
      /\ noMoney => noMoney'
      /\ ~noMoney' => \A y \in Rows, x \in Cols : field'[y][x] # "E"
  BY <1>1, UpdateReach
<1>3. /\ tick' = IF tick = 9 THEN 2 ELSE tick + 1
      /\ level' = level /\ status' = status /\ status = "playing"
  BY DEF Update, Alive
<1>4. tick' \in 0 .. 9 /\ tick' # 0 /\ (tick = 0 => tick' = 1)
  BY <1>1, <1>3 DEF TypeOK
<1>5. TypeOK'
  <2>1. field' \in [Rows -> [Cols -> Tiles]]
    BY <1>2 DEF Fields
  <2>2. stray' \subseteq {"write", "crash"}
    BY <1>1, <1>2 DEF TypeOK, Astray
  <2>3. {win', die', noMoney', reverse'} \subseteq BOOLEAN
    BY <1>2
  <2>4. level' \in DOMAIN Levels /\ status' \in {"new", "playing", "rejected"}
    BY <1>1, <1>3 DEF TypeOK
  <2> QED BY <1>2, <1>4, <2>1, <2>2, <2>3, <2>4 DEF TypeOK
<1>6. ExitNeedsMoney'
  <2>1. win' => noMoney' \/ tick' = 1
    <3> SUFFICES ASSUME win', tick # 0 PROVE noMoney'
      BY <1>4
    <3>1. noMoney
      BY <1>1, <1>2, <1>3 DEF NoExitLeft
    <3> QED BY <1>2, <3>1
  <2> QED BY <1>4, <2>1 DEF ExitNeedsMoney
<1>7. NoExitLeft'
  <2>1. ~noMoney' => \A y \in Rows, x \in Cols : field'[y][x] # "E"
    BY <1>2
  <2> QED BY <2>1 DEF NoExitLeft
<1> QED BY <1>5, <1>6, <1>7 DEF IInv

\* Every step keeps the invariant.
LEMMA StepHolds == IInv /\ [Next]_vars => IInv'
<1> SUFFICES ASSUME IInv, [Next]_vars PROVE IInv'
  OBVIOUS
<1>1. CASE Start
  BY <1>1, CreateHolds DEF Start, IInv, TypeOK
<1>2. CASE Retry
  BY <1>2, CreateHolds DEF Retry, IInv, TypeOK
<1>3. CASE NextLevel
  BY <1>3, CreateHolds DEF NextLevel
<1>4. CASE \E keys \in Holds : Update(keys)
  BY <1>4, UpdateHolds
<1>5. CASE UNCHANGED vars
  BY <1>5 DEF IInv, TypeOK, ExitNeedsMoney, NoExitLeft, vars
<1> QED BY <1>1, <1>2, <1>3, <1>4, <1>5 DEF Next, GameOver, Stopped

\* The invariant holds throughout.
LEMMA Invariance == Spec => []IInv
<1> QED BY InitHolds, StepHolds, PTL DEF Spec

\* Whichever rules meet in a tick, on a field of any size and a text of any
\* tiles, it leaves a field of tiles, and a tired player tired for one tick.
THEOREM TypeCorrect == Spec => []TypeOK
<1>1. IInv => TypeOK
  BY DEF IInv
<1> QED BY <1>1, Invariance, PTL

\* Nobody wins a play before its money is gone, but in its first tick.
THEOREM ExitIsEarned == Spec => []ExitNeedsMoney
<1>1. IInv => ExitNeedsMoney
  BY DEF IInv
<1> QED BY <1>1, Invariance, PTL

\* What undermined a wall in the tick was there before it was mirrored.
LEMMA WallGoes ==
    ASSUME TypeOK, NEW keys \in SUBSET Dirs, NEW y \in Rows, NEW x \in Cols,
           Undermined(Mirrored(Work(keys)), y, x)
    PROVE  \/ Here(y + 1, x) = "x"
           \/ Here(y - 1, x) = ";" /\ Here(y - 2, x) \in {"O", "%"}
           \/ \E d \in {-1, 1} : /\ Here(y, x - d) = IF d = 1 THEN "]" ELSE "["
                                /\ Here(y + 1, x - d) \in {"O", Money}
<1> DEFINE m == Mirrored(Work(keys))
<1>1. \A t \in Telling : \A i, j : TileAt(m, i, j) = t => Here(i, j) = t
  BY WorkShows
<1> HIDE DEF m
<1>2. /\ "x" \in Telling /\ ";" \in Telling /\ "O" \in Telling /\ "%" \in Telling
      /\ "[" \in Telling /\ "]" \in Telling /\ Money \in Telling
  BY DEF Telling
<1>3. ASSUME NEW i, NEW j
      PROVE  /\ TileAt(m, i, j) = "x" => Here(i, j) = "x"
             /\ TileAt(m, i, j) = ";" => Here(i, j) = ";"
             /\ TileAt(m, i, j) = "]" => Here(i, j) = "]"
             /\ TileAt(m, i, j) = "[" => Here(i, j) = "["
             /\ TileAt(m, i, j) = "O" => Here(i, j) = "O"
             /\ TileAt(m, i, j) = "%" => Here(i, j) = "%"
             /\ TileAt(m, i, j) = Money => Here(i, j) = Money
  BY <1>1, <1>2
<1>4. Undermined(m, y, x)
  BY DEF m
<1>5. CASE TileAt(m, y + 1, x) = "x"
  BY <1>3, <1>5
<1>6. CASE TileAt(m, y - 1, x) = ";" /\ TileAt(m, y - 2, x) \in {"O", "%"}
  <2>1. Here(y - 1, x) = ";"
    BY <1>3, <1>6, Zenon
  <2>2. TileAt(m, y - 2, x) = "O" => Here(y - 2, x) = "O"
    BY <1>3, Zenon
  <2>3. TileAt(m, y - 2, x) = "%" => Here(y - 2, x) = "%"
    BY <1>3, Zenon
  <2> QED BY <1>6, <2>1, <2>2, <2>3
<1>7. ASSUME NEW d \in {-1, 1}, TileAt(m, y, x - d) = IF d = 1 THEN "]" ELSE "[",
             TileAt(m, y + 1, x - d) \in {"O", Money}
      PROVE  /\ Here(y, x - d) = IF d = 1 THEN "]" ELSE "["
             /\ Here(y + 1, x - d) \in {"O", Money}
  <2>1. TileAt(m, y + 1, x - d) = "O" => Here(y + 1, x - d) = "O"
    BY <1>3, Zenon
  <2>2. TileAt(m, y + 1, x - d) = Money => Here(y + 1, x - d) = Money
    BY <1>3, Zenon
  <2>3. TileAt(m, y, x - d) = "]" => Here(y, x - d) = "]"
    BY <1>3, Zenon
  <2>4. TileAt(m, y, x - d) = "[" => Here(y, x - d) = "["
    BY <1>3, Zenon
  <2> QED BY <1>7, <2>1, <2>2, <2>3, <2>4 DEF Money
<1> QED BY <1>4, <1>5, <1>6, <1>7 DEF Undermined

\* What led out of the field's memory was there before it was mirrored.
LEMMA Leaks ==
    ASSUME TypeOK, NEW keys \in SUBSET Dirs
    PROVE  /\ "crash" \in Astray(Mirrored(Work(keys))) =>
                \E y \in Rows : /\ field[y][0] = "O"
                                /\ \/ Here(y - 1, 0) = "I"
                                   \/ Here(y, 1) = "I" /\ Here(y + 1, 1) \in {"(", "<"}
           /\ "write" \in Astray(Mirrored(Work(keys))) =>
                \E x \in Cols : field[ROWS - 1][x] \in {";", "O"}
<1> DEFINE m == Mirrored(Work(keys))
<1>1. \A t \in Telling : \A i, j : TileAt(m, i, j) = t => Here(i, j) = t
  BY WorkShows
<1> HIDE DEF m
<1>2. /\ ";" \in Telling /\ "O" \in Telling /\ "I" \in Telling
      /\ "(" \in Telling /\ "<" \in Telling
  BY DEF Telling
<1>3. 0 \in Cols /\ ROWS - 1 \in Rows
  BY SizeAssumption DEF Rows, Cols
<1>4. ASSUME NEW t \in Telling, NEW y \in Rows, NEW x \in Cols, m.field[y][x] = t
      PROVE  field[y][x] = t
  <2>1. TileAt(m, y, x) = t
    BY <1>4 DEF TileAt, Inside
  <2>2. Here(y, x) = t
    BY <1>1, <2>1
  <2> QED BY <2>2 DEF Here, Inside
<1>5. ASSUME "crash" \in Astray(m)
      PROVE  \E y \in Rows : /\ field[y][0] = "O"
                             /\ \/ Here(y - 1, 0) = "I"
                                \/ Here(y, 1) = "I" /\ Here(y + 1, 1) \in {"(", "<"}
  <2>1. PICK y \in Rows : /\ m.field[y][0] = "O"
                          /\ \/ TileAt(m, y - 1, 0) = "I"
                             \/ TileAt(m, y, 1) = "I" /\ TileAt(m, y + 1, 1) \in {"(", "<"}
    BY <1>5 DEF Astray
  <2>2. field[y][0] = "O"
    BY <1>2, <1>3, <1>4, <2>1
  <2>3. TileAt(m, y - 1, 0) = "I" => Here(y - 1, 0) = "I"
    BY <1>1, <1>2
  <2>4. TileAt(m, y, 1) = "I" /\ TileAt(m, y + 1, 1) \in {"(", "<"}
        => Here(y, 1) = "I" /\ Here(y + 1, 1) \in {"(", "<"}
    BY <1>1, <1>2
  <2> QED BY <2>1, <2>2, <2>3, <2>4
<1>6. ASSUME "write" \in Astray(m)
      PROVE  \E x \in Cols : field[ROWS - 1][x] \in {";", "O"}
  <2>1. PICK x \in Cols : m.field[ROWS - 1][x] \in {";", "O"}
    BY <1>6 DEF Astray
  <2>2. field[ROWS - 1][x] \in {";", "O"}
    BY <1>2, <1>3, <1>4, <2>1
  <2> QED BY <2>2
<1> QED BY <1>5, <1>6 DEF m

\* Of all the rules, only an eater, a catch and a falling walker take a wall.
THEOREM WallsAreSafe == Spec => WallsStand
<1> DEFINE Stand ==
      Playing => \A y \in Rows, x \in Cols :
         field[y][x] = "#" /\ field'[y][x] # "#" =>
           \/ Here(y + 1, x) = "x"
           \/ Here(y - 1, x) = ";" /\ Here(y - 2, x) \in {"O", "%"}
           \/ \E d \in {-1, 1} : /\ Here(y, x - d) = IF d = 1 THEN "]" ELSE "["
                                /\ Here(y + 1, x - d) \in {"O", Money}
<1>1. ASSUME IInv, NEW keys \in Holds, Update(keys) PROVE Stand
  <2>1. keys \in SUBSET Dirs /\ TypeOK /\ NoExitLeft
    BY <1>1, HoldsAssumption DEF IInv
  <2>2. \A y \in Rows, x \in Cols :
          field[y][x] = "#" /\ field'[y][x] # "#" => Undermined(Mirrored(Work(keys)), y, x)
    BY <1>1, <2>1, UpdateReach
  <2> QED BY <2>1, <2>2, WallGoes
<1>2. ASSUME Start \/ Retry \/ NextLevel PROVE Stand
  <2>1. tick' = 0
    BY <1>2 DEF Start, Retry, NextLevel, Create
  <2> QED BY <2>1 DEF Playing
<1>3. IInv /\ [Next]_vars => [Stand]_vars
  <2> HIDE DEF Stand
  <2> QED BY <1>1, <1>2 DEF Next, GameOver, Stopped
<1> QED BY <1>3, Invariance, PTL DEF Spec, WallsStand

\* The two ways out of the field's memory, and where the field must have had what.
THEOREM OnlyItsEdgesLeak == Spec => FieldIsLeftAtItsEdges
<1> DEFINE Leak ==
      /\ "crash" \in stray' \ stray =>
            \E y \in Rows : /\ field[y][0] = "O"
                            /\ \/ Here(y - 1, 0) = "I"
                               \/ Here(y, 1) = "I" /\ Here(y + 1, 1) \in {"(", "<"}
      /\ "write" \in stray' \ stray => \E x \in Cols : field[ROWS - 1][x] \in {";", "O"}
<1>1. ASSUME IInv, NEW keys \in Holds, Update(keys) PROVE Leak
  <2>1. keys \in SUBSET Dirs /\ TypeOK /\ NoExitLeft
    BY <1>1, HoldsAssumption DEF IInv
  <2>2. stray' \subseteq stray \cup Astray(Mirrored(Work(keys)))
    BY <1>1, <2>1, UpdateReach
  <2>3. \A s \in stray' \ stray : s \in Astray(Mirrored(Work(keys)))
    BY <2>2
  <2> QED BY <2>1, <2>3, Leaks
<1>2. ASSUME Start \/ Retry \/ NextLevel PROVE Leak
  <2>1. stray' = stray
    BY <1>2 DEF Start, Retry, NextLevel, Create
  <2> QED BY <2>1
<1>3. IInv /\ [Next]_vars => [Leak]_vars
  <2> HIDE DEF Leak
  <2> QED BY <1>1, <1>2 DEF Next, GameOver, Stopped
<1> QED BY <1>3, Invariance, PTL DEF Spec, FieldIsLeftAtItsEdges

-----------------------------------------------------------------------------
(* What is doubled: the writes of a rule. *)

\* The tiles whose number is told of, and those an argument about them names.
Movables == {"I", "O", Money}
Blank    == " "
Hatch    == ";"
Belts    == {"(", ")"}

\* The works in which w's field is read, no T is where none was, and, for boulders, no
\* cell that is free in the field becomes free.
Calm(T, w) ==
    {v \in Works :
       /\ v.field = w.field /\ v.keys = w.keys
       /\ \A y \in Rows, x \in Cols :
            /\ v.next[y][x] = T => w.next[y][x] = T
            /\ (T = "O" /\ w.field[y][x] = Blank /\ v.next[y][x] = Blank) => w.next[y][x] = Blank}

\* The tiles named are different ones.
LEMMA Letters ==
    /\ Blank \in Tiles /\ Hatch \in Tiles /\ None \notin Tiles
    /\ \A T \in Movables : /\ T \in Tiles /\ T # Blank /\ T # Hatch /\ T # None /\ T \notin Belts
    /\ Money # "I" /\ Money # "O" /\ Blank # Hatch /\ Blank # None /\ Hatch # None
    /\ Blank \notin Belts /\ Hatch \notin Belts /\ None \notin Belts
  BY DEF Blank, Hatch, Tiles, Movables, Belts, None, Money, Pipe, Lever, Nul, Other, Digits, Walkers

\* What one write does.
LEMMA PutIs ==
    ASSUME NEW w \in Works, NEW y \in Int, NEW x \in Int, NEW t \in Tiles
    PROVE  /\ Put(w, y, x, t) \in Works
           /\ Put(w, y, x, t).field = w.field /\ Put(w, y, x, t).keys = w.keys
           /\ \A i \in Rows, j \in Cols :
                Put(w, y, x, t).next[i][j] = IF i = y /\ j = x THEN t ELSE w.next[i][j]
<1> DEFINE v == Put(w, y, x, t)
           f == [w.next EXCEPT ![y] = [w.next[y] EXCEPT ![x] = t]]
<1>1. w.next \in Fields
  BY DEF Works
<1>2. v = [w EXCEPT !.next = f]
  BY DEF Put
<1>3. f \in Fields /\ \A i \in Rows, j \in Cols : f[i][j] = IF i = y /\ j = x THEN t ELSE w.next[i][j]
  BY <1>1 DEF Fields
<1> HIDE DEF f, v
<1>4. v \in Works /\ v.field = w.field /\ v.keys = w.keys /\ v.next = f
  BY <1>2, <1>3 DEF Works
<1>5. \A i \in Rows, j \in Cols : v.next[i][j] = IF i = y /\ j = x THEN t ELSE w.next[i][j]
  BY <1>3, <1>4
<1> QED BY <1>4, <1>5 DEF v

\* v is w with one cell written.
Wrote(w, v, y, x, t) ==
    /\ v \in Works
    /\ v.field = w.field /\ v.keys = w.keys
    /\ \A i \in Rows, j \in Cols : v.next[i][j] = IF i = y /\ j = x THEN t ELSE w.next[i][j]

\* Writing a cell of Rows and Cols writes that cell only.
LEMMA PutWrites ==
    ASSUME NEW w \in Works, NEW y \in Int, NEW x \in Int, NEW t \in Tiles
    PROVE  Wrote(w, Put(w, y, x, t), y, x, t)
<1> DEFINE v == Put(w, y, x, t)
<1>1. /\ v \in Works
      /\ v.field = w.field /\ v.keys = w.keys
      /\ \A i \in Rows, j \in Cols : v.next[i][j] = IF i = y /\ j = x THEN t ELSE w.next[i][j]
  BY PutIs
<1> HIDE DEF v
<1> QED BY <1>1 DEF Wrote, v

\* Calm steps compose, and all of them show the same field.
LEMMA CalmComposes ==
    ASSUME NEW T, NEW w \in Works
    PROVE  /\ w \in Calm(T, w)
           /\ \A v \in Calm(T, w) :
                /\ v \in Works /\ v.field = w.field /\ v.keys = w.keys
                /\ \A u \in Calm(T, v) : u \in Calm(T, w)
                /\ \A y, x : TileAt(v, y, x) = TileAt(w, y, x)
<1>1. w \in Calm(T, w)
  BY DEF Calm
<1>2. ASSUME NEW v \in Calm(T, w), NEW u \in Calm(T, v) PROVE u \in Calm(T, w)
  BY DEF Calm
<1>3. \A v \in Calm(T, w) : v \in Works /\ v.field = w.field /\ v.keys = w.keys
  BY DEF Calm
<1>4. \A v \in Calm(T, w) : \A y, x : TileAt(v, y, x) = TileAt(w, y, x)
  BY <1>3 DEF TileAt
<1> QED BY <1>1, <1>2, <1>3, <1>4

\* A write is calm unless it writes a T, or frees a cell that is free in the field.
LEMMA PutCalm ==
    ASSUME NEW T, NEW w \in Works, NEW y \in Int, NEW x \in Int, NEW t \in Tiles,
           t # T, T # "O" \/ t # Blank \/ TileAt(w, y, x) # Blank
    PROVE  Put(w, y, x, t) \in Calm(T, w)
<1> DEFINE v == Put(w, y, x, t)
<1>1. /\ v \in Works
      /\ v.field = w.field /\ v.keys = w.keys
      /\ \A i \in Rows, j \in Cols : v.next[i][j] = IF i = y /\ j = x THEN t ELSE w.next[i][j]
  BY PutIs
<1> HIDE DEF v
<1>2. ASSUME NEW i \in Rows, NEW j \in Cols
      PROVE  /\ v.next[i][j] = T => w.next[i][j] = T
             /\ (T = "O" /\ w.field[i][j] = Blank /\ v.next[i][j] = Blank) => w.next[i][j] = Blank
  <2>1. CASE i = y /\ j = x
    <3>1. v.next[i][j] = t /\ TileAt(w, y, x) = w.field[i][j]
      BY <1>1, <2>1 DEF TileAt, Inside
    <3> QED BY <3>1
  <2>2. CASE ~(i = y /\ j = x)
    <3>1. v.next[i][j] = w.next[i][j]
      BY <1>1, <2>2
    <3> QED BY <3>1
  <2> QED BY <2>1, <2>2
<1>3. v \in Calm(T, w)
  BY <1>1, <1>2 DEF Calm
<1> QED BY <1>3 DEF v

\* Everything but the cells may change freely.
LEMMA FlagsCalm ==
    ASSUME NEW T, NEW w \in Works
    PROVE  /\ [w EXCEPT !.win = TRUE] \in Calm(T, w)
           /\ [w EXCEPT !.die = TRUE] \in Calm(T, w)
           /\ [w EXCEPT !.reverse = TRUE] \in Calm(T, w)
           /\ \A t \in {0, 1, 2} : [w EXCEPT !.tired = t] \in Calm(T, w)
           /\ [w EXCEPT !.money = @ + 1] \in Calm(T, w)
           /\ [w EXCEPT !.players = @ + 1] \in Calm(T, w)
           /\ \A s \in {"write", "crash"} : [w EXCEPT !.stray = @ \cup {s}] \in Calm(T, w)
<1>1. \A v : v \in Works /\ v.field = w.field /\ v.next = w.next /\ v.keys = w.keys => v \in Calm(T, w)
  BY DEF Calm
<1>2. [w EXCEPT !.win = TRUE] \in Calm(T, w)
  BY <1>1 DEF Works
<1>3. [w EXCEPT !.die = TRUE] \in Calm(T, w)
  BY <1>1 DEF Works
<1>4. [w EXCEPT !.reverse = TRUE] \in Calm(T, w)
  BY <1>1 DEF Works
<1>5. \A t \in {0, 1, 2} : [w EXCEPT !.tired = t] \in Calm(T, w)
  BY <1>1 DEF Works
<1>6. [w EXCEPT !.money = @ + 1] \in Calm(T, w)
  <2>1. w.money + 1 \in Nat BY DEF Works
  <2> QED BY <1>1, <2>1 DEF Works
<1>7. [w EXCEPT !.players = @ + 1] \in Calm(T, w)
  <2>1. w.players + 1 \in Nat BY DEF Works
  <2> QED BY <1>1, <2>1 DEF Works
<1>8. \A s \in {"write", "crash"} : [w EXCEPT !.stray = @ \cup {s}] \in Calm(T, w)
  BY <1>1 DEF Works
<1> QED BY <1>2, <1>3, <1>4, <1>5, <1>6, <1>7, <1>8

\* What a rule finds in a cell.
LEMMA Finds ==
    ASSUME NEW w \in Works, NEW y, NEW x
    PROVE  /\ TileAt(w, y, x) \in Tiles \/ TileAt(w, y, x) = None
           /\ TileAt(w, y, x) = None \/ Inside(y, x)
           /\ Inside(y, x) => TileAt(w, y, x) = w.field[y][x]
           /\ Occupied(w, y, x) <=> \/ ~Inside(y, x)
                                    \/ w.field[y][x] # Blank
                                    \/ w.next[y][x] # Blank
           /\ Occupied(w, y, x) \/ (Inside(y, x) /\ TileAt(w, y, x) = Blank)
           /\ Occupied(w, y, x) \in BOOLEAN
<1>1. /\ TileAt(w, y, x) \in Tiles \/ TileAt(w, y, x) = None
      /\ TileAt(w, y, x) = None \/ Inside(y, x)
      /\ Inside(y, x) => TileAt(w, y, x) = w.field[y][x]
  BY DEF TileAt, Inside, Fields, Works
<1>2. /\ Occupied(w, y, x) <=> \/ ~Inside(y, x)
                               \/ w.field[y][x] # Blank
                               \/ w.next[y][x] # Blank
      /\ Occupied(w, y, x) \in BOOLEAN
  BY DEF Occupied, Blank
<1> QED BY <1>1, <1>2

\* The cell of a rule, and the numbers of those around it.
LEMMA Around ==
    ASSUME NEW w \in Works, NEW y \in Rows, NEW x \in Cols
    PROVE  /\ y \in Int /\ y + 1 \in Int /\ y - 1 \in Int /\ y + 2 \in Int /\ y - 2 \in Int
           /\ x \in Int /\ x + 1 \in Int /\ x - 1 \in Int
           /\ TileAt(w, y, x) = w.field[y][x]
<1>1. TileAt(w, y, x) = w.field[y][x]
  BY DEF TileAt, Inside
<1> QED BY <1>1, Numbers

\* A tile that is not free may be moved, if it is not a T.
LEMMA MoveCalm ==
    ASSUME NEW T \in Movables, NEW w \in Works, NEW y \in Int, NEW x \in Int, NEW ty \in Int, NEW tx \in Int,
           NEW t \in Tiles, t # T, t # Blank, TileAt(w, y, x) # Blank
    PROVE  Move(w, y, x, ty, tx, t) \in Calm(T, w)
<1> DEFINE v == Put(w, ty, tx, t)
<1>1. v \in Calm(T, w)
  BY PutCalm
<1> HIDE DEF v
<1>2. v \in Works /\ TileAt(v, y, x) # Blank
  BY <1>1, CalmComposes
<1>3. Put(v, y, x, Blank) \in Calm(T, v)
  BY <1>2, Letters, PutCalm
<1>4. Put(v, y, x, Blank) \in Calm(T, w)
  BY <1>1, <1>3, CalmComposes
<1> QED BY <1>4 DEF Move, v, Blank

\* A tile may do as it likes with the cell it is on, but for putting a T there.
LEMMA OwnCalm ==
    ASSUME NEW T \in Movables, NEW w \in Works, NEW y \in Rows, NEW x \in Cols, w.field[y][x] # Blank
    PROVE  \A t \in Tiles : t = T \/ Put(w, y, x, t) \in Calm(T, w)
<1>1. y \in Int /\ x \in Int
  BY Numbers
<1>2. TileAt(w, y, x) # Blank
  BY Finds DEF Inside
<1> QED BY <1>1, <1>2, PutCalm

-----------------------------------------------------------------------------
(* What is doubled: the rules that double nothing. *)

\* A '%' falls or drops (Percent).
LEMMA PercentCalm ==
    ASSUME NEW T \in Movables, NEW w \in Works, NEW y \in Rows, NEW x \in Cols, w.field[y][x] = "%"
    PROVE  Percent(w, y, x) \in Calm(T, w)
<1>1. Percent(w, y, x) \in {w, Move(w, y, x, y + 1, x, "%"), Move(w, y, x, y + 2, x, "%"), Put(w, y, x, Blank)}
  BY DEF Percent, DropThrough, Blank
<1>2. "%" \in Tiles /\ "%" # T /\ "%" # Blank
  BY DEF Tiles, Movables, Blank, Money
<1>3. /\ Move(w, y, x, y + 1, x, "%") \in Calm(T, w)
      /\ Move(w, y, x, y + 2, x, "%") \in Calm(T, w)
  <2>1. y \in Int /\ x \in Int /\ y + 1 \in Int /\ y + 2 \in Int /\ TileAt(w, y, x) # Blank
    BY <1>2, Around
  <2> QED BY <1>2, <2>1, MoveCalm
<1>4. Put(w, y, x, Blank) \in Calm(T, w)
  BY <1>2, OwnCalm, Letters
<1> QED BY <1>1, <1>3, <1>4, CalmComposes

\* What a valve, a fuse, an exit or a trolley writes, and an eater.
LEMMA SmallCalm ==
    ASSUME NEW T \in Movables, NEW w \in Works, NEW y \in Rows, NEW x \in Cols, NEW ch,
           ch = w.field[y][x], ch # Blank
    PROVE  /\ Valve(w, y, x, ch) \in Calm(T, w)
           /\ Fuse(w, y, x) \in Calm(T, w)
           /\ Exit(w, y, x, ch) \in Calm(T, w)
           /\ Trolley(w, y, x) \in Calm(T, w)
           /\ Eater(w, y, x, ch) \in Calm(T, w)
<1>0. /\ {";", ".", ":", "0", "e", "E", "T", "x", "X"} \subseteq Tiles
      /\ \A t \in {";", ".", ":", "0", "e", "E", "T", "x", "X"} : t # T /\ t # Blank
  BY DEF Tiles, Movables, Blank, Money
<1>1. \A t \in {";", ".", ":", "0", "e", "E", "T", "x", "X"} : Put(w, y, x, t) \in Calm(T, w)
  BY <1>0, OwnCalm
<1>2. w \in Calm(T, w)
  BY CalmComposes
<1>3. Valve(w, y, x, ch) \in {w, Put(w, y, x, ";"), Put(w, y, x, "."), Put(w, y, x, ":")}
  BY DEF Valve
<1>4. Fuse(w, y, x) \in {w, Put(w, y, x, "0")}
  BY DEF Fuse
<1>5. Exit(w, y, x, ch) \in {w, Put(w, y, x, "e"), Put(w, y, x, "E")}
  BY DEF Exit
<1>6. Trolley(w, y, x) \in Calm(T, w)
  <2>1. Trolley(w, y, x) \in {w, Move(w, y, x, y, x - 1, "T"), Move(w, y, x, y, x + 1, "T")}
    BY DEF Trolley
  <2>2. y \in Int /\ x \in Int /\ x - 1 \in Int /\ x + 1 \in Int /\ TileAt(w, y, x) # Blank
    BY Around
  <2>3. Move(w, y, x, y, x - 1, "T") \in Calm(T, w) /\ Move(w, y, x, y, x + 1, "T") \in Calm(T, w)
    BY <1>0, <2>2, MoveCalm
  <2> QED BY <1>2, <2>1, <2>3
<1>7. Eater(w, y, x, ch) \in Calm(T, w)
  <2> DEFINE v == Put(w, y - 1, x, Blank)
  <2>1. CASE ch = "X" \/ TileAt(w, y - 1, x) \in {Blank, None}
    <3>1. Eater(w, y, x, ch) \in {w, Put(w, y, x, "x")}
      BY <2>1 DEF Eater, Blank
    <3> QED BY <1>1, <1>2, <3>1
  <2>2. CASE ch # "X" /\ TileAt(w, y - 1, x) \notin {Blank, None}
    <3>1. Eater(w, y, x, ch) = Put(v, y, x, "X")
      BY <2>2 DEF Eater, Blank
    <3>2. y - 1 \in Int /\ x \in Int
      BY Numbers
    <3>3. v \in Calm(T, w)
      BY <2>2, <3>2, Letters, PutCalm
    <3> HIDE DEF v
    <3>4. v \in Works /\ v.field[y][x] # Blank
      BY <3>3, CalmComposes
    <3>5. Put(v, y, x, "X") \in Calm(T, v)
      BY <1>0, <3>4, OwnCalm
    <3>6. Put(v, y, x, "X") \in Calm(T, w)
      BY <3>3, <3>5, CalmComposes
    <3> QED BY <3>1, <3>6
  <2> QED BY <2>1, <2>2
<1> QED BY <1>1, <1>2, <1>3, <1>4, <1>5, <1>6, <1>7

\* A dispenser makes boulders, and nothing else (Dispenser).
LEMMA DispenserCalm ==
    ASSUME NEW T \in Movables, NEW w \in Works, NEW y \in Rows, NEW x \in Cols, NEW ch,
           ch = w.field[y][x], ch # Blank, ch # "A" \/ T # "O"
    PROVE  Dispenser(w, y, x, ch) \in Calm(T, w)
<1> DEFINE v == Put(w, y + 1, x, "O")
<1>0. /\ {"A", Pipe, "O"} \subseteq Tiles /\ "A" # T /\ Pipe # T /\ "A" # Blank /\ "O" # Blank /\ Pipe # Blank
  BY DEF Tiles, Movables, Blank, Money, Pipe
<1>1. Dispenser(w, y, x, ch) \in {w, Put(w, y, x, "A")} \/ (ch = "A" /\ Dispenser(w, y, x, ch) = Put(v, y, x, Pipe))
  BY DEF Dispenser
<1>2. Put(w, y, x, "A") \in Calm(T, w) /\ w \in Calm(T, w)
  BY <1>0, OwnCalm, CalmComposes
<1>3. ASSUME ch = "A" PROVE Put(v, y, x, Pipe) \in Calm(T, w)
  <2>1. y + 1 \in Int /\ x \in Int
    BY Numbers
  <2>2. v \in Calm(T, w)
    BY <1>0, <1>3, <2>1, PutCalm
  <2> HIDE DEF v
  <2>3. v \in Works /\ v.field[y][x] # Blank
    BY <2>2, CalmComposes
  <2>4. Put(v, y, x, Pipe) \in Calm(T, v)
    BY <1>0, <2>3, OwnCalm
  <2> QED BY <2>2, <2>4, CalmComposes
<1> QED BY <1>1, <1>2, <1>3

-----------------------------------------------------------------------------
(* What is doubled: what asking does. *)

\* The works whose cells are as they were.
Same(w) == {v \in Works : v.field = w.field /\ v.next = w.next /\ v.keys = w.keys}

\* The way boulders are pushed.
KeyDir(keys) == IF "left" \in keys THEN -1 ELSE IF "right" \in keys THEN 1 ELSE 0

\* The works in which the boulder of a cell has been pushed.
Pushed(w, y, x) ==
    {v \in Works :
       /\ v.field = w.field /\ v.keys = w.keys
       /\ KeyDir(w.keys) \in {-1, 1}
       /\ TileAt(w, y, x) = "O"
       /\ Occupied(w, y + 1, x)
       /\ ~Occupied(w, y, x + KeyDir(w.keys))
       /\ Inside(y, x - KeyDir(w.keys)) => w.field[y][x - KeyDir(w.keys)] = "I"
       /\ \A i \in Rows, j \in Cols :
            v.next[i][j] = IF i = y /\ j = x + KeyDir(w.keys) THEN "O"
                           ELSE IF i = y /\ j = x THEN Blank
                           ELSE IF i = y + 2 /\ j = x /\ w.field[y + 1][x] = Hatch THEN Blank
                           ELSE w.next[i][j]}

\* Whatever has the cells as they were is calm, and stays so.
LEMMA SameCalm ==
    ASSUME NEW T, NEW w \in Works
    PROVE  /\ w \in Same(w)
           /\ \A v \in Same(w) : v \in Calm(T, w)
           /\ \A v \in Same(w) : \A u \in Same(v) : u \in Same(w)
           /\ \A s \in {"write", "crash"} : [w EXCEPT !.stray = @ \cup {s}] \in Same(w)
           /\ [w EXCEPT !.win = TRUE] \in Same(w)
           /\ [w EXCEPT !.die = TRUE] \in Same(w)
           /\ [w EXCEPT !.players = @ + 1] \in Same(w)
           /\ \A t \in {0, 1, 2} : [w EXCEPT !.tired = t] \in Same(w)
<1>1. \A v : v \in Works /\ v.field = w.field /\ v.next = w.next /\ v.keys = w.keys => v \in Same(w)
  BY DEF Same
<1>2. w \in Same(w) /\ \A v \in Same(w) : v \in Calm(T, w)
  BY DEF Same, Calm
<1>3. \A v \in Same(w) : \A u \in Same(v) : u \in Same(w)
  BY DEF Same
<1>4. \A s \in {"write", "crash"} : [w EXCEPT !.stray = @ \cup {s}] \in Same(w)
  BY <1>1 DEF Works
<1>5. [w EXCEPT !.win = TRUE] \in Same(w) /\ [w EXCEPT !.die = TRUE] \in Same(w)
  BY <1>1 DEF Works
<1>6. [w EXCEPT !.players = @ + 1] \in Same(w)
  <2>1. w.players + 1 \in Nat BY DEF Works
  <2> QED BY <1>1, <2>1 DEF Works
<1>7. \A t \in {0, 1, 2} : [w EXCEPT !.tired = t] \in Same(w)
  BY <1>1 DEF Works
<1> QED BY <1>2, <1>3, <1>4, <1>5, <1>6, <1>7

\* Pushing moves the boulder and may blank what is two rows down, or does
\* nothing to the field (PushBoulder, CatchBelow).
LEMMA PushingDoes ==
    ASSUME NEW w \in Works, NEW y \in Int, NEW x \in Int, TileAt(w, y, x) = "O"
    PROVE  LET p == PushBoulder(w, y, x)
           IN  \/ p.blocked = TRUE /\ p.w \in Same(w)
               \/ p.blocked = FALSE /\ p.w \in Pushed(w, y, x)
<1> DEFINE d == KeyDir(w.keys)
           m == Move(w, y, x, y, x + d, "O")
           c == CatchBelow(m, y, x)
           u == [c EXCEPT !.tired = IF @ = 0 THEN 1 ELSE @]
           p == PushBoulder(w, y, x)
<1>0. d \in {-1, 0, 1} /\ x + d \in Int /\ Inside(y, x) /\ y \in Rows /\ x \in Cols /\ w.field[y][x] = "O"
  <2>1. Inside(y, x)
    BY DEF TileAt, None
  <2> QED BY <2>1 DEF KeyDir, TileAt, Inside
<1>1. p = IF d = 0 \/ ~Occupied(w, y + 1, x) \/ Occupied(w, y, x + d) THEN Answer(TRUE, w)
          ELSE IF x - d = -1 THEN Answer(TRUE, [w EXCEPT !.stray = @ \cup {"crash"}])
          ELSE IF RawTile(w, y, x - d) # "I" THEN Answer(TRUE, w)
          ELSE Answer(FALSE, u)
  BY DEF PushBoulder, KeyDir
<1>2. \A b, v : Answer(b, v).blocked = b /\ Answer(b, v).w = v
  BY DEF Answer
<1> HIDE DEF d, p, u
<1>3. CASE p \in {Answer(TRUE, w), Answer(TRUE, [w EXCEPT !.stray = @ \cup {"crash"}])}
  <2>1. p.blocked = TRUE /\ p.w \in {w, [w EXCEPT !.stray = @ \cup {"crash"}]}
    BY <1>3 DEF Answer
  <2> QED BY <2>1, SameCalm DEF p
<1>4. CASE p \notin {Answer(TRUE, w), Answer(TRUE, [w EXCEPT !.stray = @ \cup {"crash"}])}
  <2>1. /\ d # 0 /\ Occupied(w, y + 1, x) /\ ~Occupied(w, y, x + d)
        /\ RawTile(w, y, x - d) = "I" /\ p = Answer(FALSE, u)
    BY <1>1, <1>4
  <2>2. Inside(y, x - d) => w.field[y][x - d] = "I"
    <3> SUFFICES ASSUME Inside(y, x - d) PROVE w.field[y][x - d] = "I"
      OBVIOUS
    <3>1. x - d < COLUMNS
      BY SizeAssumption DEF Inside, Cols
    <3> QED BY <2>1, <3>1 DEF RawTile, TileAt
  <2> DEFINE a == Put(w, y, x + d, "O")
  <2>3. /\ a \in Works
        /\ a.field = w.field /\ a.keys = w.keys
        /\ \A i \in Rows, j \in Cols : a.next[i][j] = IF i = y /\ j = x + d THEN "O" ELSE w.next[i][j]
    BY <1>0, PutIs, Letters DEF Movables
  <2>4. m = Put(a, y, x, Blank)
    BY DEF Move, Blank
  <2> HIDE DEF a, m
  <2>5. /\ m \in Works
        /\ m.field = a.field /\ m.keys = a.keys
        /\ \A i \in Rows, j \in Cols : m.next[i][j] = IF i = y /\ j = x THEN Blank ELSE a.next[i][j]
    BY <2>3, <2>4, PutIs, Letters
  <2> DEFINE catch == IF y + 1 < ROWS THEN m.field[y + 1][x] ELSE m.next[0][x]
  <2>6. c = IF catch # Hatch THEN m
            ELSE IF y + 2 < ROWS THEN Put(m, y + 2, x, Blank)
            ELSE [m EXCEPT !.stray = @ \cup {"write"}]
    BY DEF CatchBelow, Hatch, Blank
  <2> HIDE DEF c
  <2>7. /\ c \in Works /\ c.field = m.field /\ c.keys = m.keys
        /\ \A i \in Rows, j \in Cols :
             c.next[i][j] = IF i = y + 2 /\ j = x /\ m.field[y + 1][x] = Hatch THEN Blank ELSE m.next[i][j]
    <3>1. CASE catch = Hatch /\ y + 2 < ROWS
      <4>1. c = Put(m, y + 2, x, Blank)
        BY <2>6, <3>1
      <4>2. y + 1 < ROWS /\ y + 2 \in Int
        BY <3>1, SizeAssumption
      <4>3. /\ c \in Works
            /\ c.field = m.field /\ c.keys = m.keys
            /\ \A i \in Rows, j \in Cols : c.next[i][j] = IF i = y + 2 /\ j = x THEN Blank ELSE m.next[i][j]
        BY <2>5, <4>1, <4>2, PutIs, Letters
      <4> QED BY <3>1, <4>2, <4>3
    <3>2. CASE ~(catch = Hatch /\ y + 2 < ROWS)
      <4>1. c \in Same(m)
        <5>1. c \in {m, [m EXCEPT !.stray = @ \cup {"write"}]}
          BY <2>6, <3>2
        <5> HIDE DEF catch
        <5> QED BY <2>5, <5>1, SameCalm
      <4>2. \A i \in Rows : ~(i = y + 2 /\ m.field[y + 1][x] = Hatch)
        BY <3>2, <1>0, SizeAssumption DEF Rows
      <4> QED BY <4>1, <4>2 DEF Same
    <3> QED BY <3>1, <3>2
  <2>8. u \in Same(c)
    <3>1. c.tired \in {0, 1, 2}
      BY <2>7 DEF Works
    <3>2. u = [c EXCEPT !.tired = IF c.tired = 0 THEN 1 ELSE c.tired]
      BY DEF u
    <3>3. \A t \in {0, 1, 2} : [c EXCEPT !.tired = t] \in Same(c)
      BY <2>7, SameCalm
    <3> QED BY <3>1, <3>2, <3>3
  <2>9. /\ u \in Works /\ u.field = w.field /\ u.keys = w.keys
        /\ \A i \in Rows, j \in Cols :
             u.next[i][j] = IF i = y /\ j = x + d THEN "O"
                            ELSE IF i = y /\ j = x THEN Blank
                            ELSE IF i = y + 2 /\ j = x /\ w.field[y + 1][x] = Hatch THEN Blank
                            ELSE w.next[i][j]
    <3>1. u \in Works /\ u.field = w.field /\ u.keys = w.keys /\ u.next = c.next /\ m.field = w.field
      BY <2>3, <2>5, <2>7, <2>8 DEF Same
    <3>2. \A i \in Rows : i = y => i # y + 2
      BY <1>0
    <3>3. d # 0 => x # x + d
      BY <1>0
    <3> HIDE DEF catch
    <3> QED BY <2>1, <2>3, <2>5, <2>7, <3>1, <3>2, <3>3
  <2>10. u \in Pushed(w, y, x)
    BY <1>0, <2>1, <2>2, <2>9 DEF Pushed, d
  <2> QED BY <1>2, <2>1, <2>10 DEF p
<1> QED BY <1>3, <1>4

\* Pushing makes neither players nor coins.
LEMMA PushedCalm ==
    ASSUME NEW w \in Works, NEW y \in Int, NEW x \in Int, NEW v \in Pushed(w, y, x), NEW T \in {"I", Money}
    PROVE  v \in Calm(T, w)
<1>1. T # "O" /\ T # Blank
  BY Letters DEF Movables
<1>2. \A i \in Rows, j \in Cols : v.next[i][j] \in {"O", Blank, w.next[i][j]}
  BY DEF Pushed
<1>3. v \in Works /\ v.field = w.field /\ v.keys = w.keys
  BY DEF Pushed
<1> QED BY <1>1, <1>2, <1>3 DEF Calm

\* Pushing is told by the cells.
LEMMA SamePushed ==
    ASSUME NEW w \in Works, NEW u \in Same(w), NEW y \in Int, NEW x \in Int
    PROVE  \A v \in Pushed(u, y, x) : v \in Pushed(w, y, x)
<1>1. u.field = w.field /\ u.next = w.next /\ u.keys = w.keys
  BY DEF Same
<1>2. \A i, j : TileAt(u, i, j) = TileAt(w, i, j) /\ (Occupied(u, i, j) <=> Occupied(w, i, j))
  BY <1>1 DEF TileAt, Occupied
<1> QED BY <1>1, <1>2 DEF Pushed

\* What asking as a player does to the cells (ProbePlayer).
LEMMA AskingDoes ==
    ASSUME NEW w \in Works, NEW y \in Int, NEW x \in Int
    PROVE  LET p == ProbePlayer(w, y, x)
           IN  /\ p.blocked \in BOOLEAN
               /\ p.blocked => p.w \in Same(w)
               /\ p.w \in Calm("O", w) \/ p.w \in Pushed(w, y, x)
               /\ \A T \in {"I", Money} : p.w \in Calm(T, w)
               /\ TileAt(w, y, x) \in Belts => p.blocked
<1> DEFINE ob == TileAt(w, y, x)
           p == ProbePlayer(w, y, x)
<1>0. \A u \in Same(w) : \A T : u \in Calm(T, w)
  BY SameCalm
<1>1. CASE ob = "E"
  <2>1. p = Answer(FALSE, [w EXCEPT !.win = TRUE])
    BY <1>1 DEF ProbePlayer, Money, Walkers
  <2>2. p.blocked = FALSE /\ p.w = [w EXCEPT !.win = TRUE]
    BY <2>1 DEF Answer
  <2>3. p.w \in Same(w) /\ ob \notin Belts
    BY <1>1, <2>2, SameCalm DEF Belts
  <2> HIDE DEF p, ob
  <2> QED BY <1>0, <2>2, <2>3 DEF p, ob
<1>2. CASE ob = Money
  <2>1. p = Answer(FALSE, Put(w, y, x, Blank))
    BY <1>2 DEF ProbePlayer, Money, Walkers, Blank
  <2>2. p.blocked = FALSE /\ p.w = Put(w, y, x, Blank) /\ ob \notin Belts
    BY <1>2, <2>1 DEF Answer, Belts, Money
  <2>3. \A T \in Movables : Put(w, y, x, Blank) \in Calm(T, w)
    BY <1>2, Letters, PutCalm DEF Movables
  <2> HIDE DEF p, ob
  <2> QED BY <2>2, <2>3 DEF p, ob, Movables
<1>3. CASE ob \in Walkers \cup {"%"}
  <2>1. p = Answer(TRUE, [w EXCEPT !.die = TRUE])
    BY <1>3 DEF ProbePlayer, Money, Walkers
  <2>2. p.blocked = TRUE /\ p.w = [w EXCEPT !.die = TRUE]
    BY <2>1 DEF Answer
  <2>3. p.w \in Same(w)
    BY <2>2, SameCalm
  <2> HIDE DEF p, ob
  <2> QED BY <1>0, <2>2, <2>3 DEF p, ob
<1>4. CASE ob = "O"
  <2>1. p = PushBoulder(w, y, x)
    BY <1>4 DEF ProbePlayer, Money, Walkers
  <2>2. \/ p.blocked = TRUE /\ p.w \in Same(w)
        \/ p.blocked = FALSE /\ p.w \in Pushed(w, y, x)
    BY <1>4, <2>1, PushingDoes
  <2>3. ob \notin Belts
    BY <1>4 DEF Belts
  <2>4. \A T \in {"I", Money} : p.w \in Pushed(w, y, x) => p.w \in Calm(T, w)
    BY PushedCalm
  <2> HIDE DEF p, ob
  <2> QED BY <1>0, <2>2, <2>3, <2>4 DEF p, ob
<1>5. CASE ob \notin {"E", Money, "%", "O"} \cup Walkers
  <2>1. p = Answer(Occupied(w, y, x), w)
    BY <1>5 DEF ProbePlayer
  <2>2. p.blocked = Occupied(w, y, x) /\ p.w = w
    BY <2>1 DEF Answer
  <2>3. Occupied(w, y, x) \in BOOLEAN /\ (ob \in Belts => Occupied(w, y, x)) /\ w \in Same(w)
    BY Finds, Letters, SameCalm
  <2> HIDE DEF p, ob
  <2> QED BY <1>0, <2>2, <2>3 DEF p, ob
<1> HIDE DEF ob, p
<1> QED BY <1>1, <1>2, <1>3, <1>4, <1>5

-----------------------------------------------------------------------------
(* What is doubled: the player. *)

Rope == "\""

\* The works in which nothing is doubled.
Still(u) == {v \in Works : \A T \in Movables : v \in Calm(T, u)}

\* The works in which the player of a cell has left it, and may be somewhere else.
Strides(u, y, x) ==
    {v \in Works :
       /\ \A T \in {"O", Money} : v \in Calm(T, u)
       /\ \E ty, tx \in Int : \A i \in Rows, j \in Cols :
            v.next[i][j] = "I" => \/ i = ty /\ j = tx
                                  \/ ~(i = y /\ j = x) /\ u.next[i][j] = "I"}

\* The cells that the player of a cell may push from.
Near(keys, y, x, i, j) ==
    \/ i = y + 1 /\ j = x
    \/ i \in {y - 1, y} /\ j = x + 1
    \/ i \in {y - 1, y} /\ j = x - 1 /\ KeyDir(keys) = -1

\* The works in which that player has asked, and may have pushed a boulder.
Prodded(w, y, x) ==
    {u \in Works :
       /\ u \in Calm("I", w) /\ u \in Calm(Money, w)
       /\ \/ u \in Calm("O", w)
          \/ \E i \in Rows, j \in Cols : Near(w.keys, y, x, i, j) /\ u \in Pushed(w, i, j)}

\* The works in which that player has done as the keys say.
Went(w, y, x) ==
    {v \in Works : \E u \in Prodded(w, y, x) :
       v \in Still(u) \/ (v \in Strides(u, y, x) /\ TileAt(w, y + 1, x) \notin Belts)}

\* Three writes around the player's own cell, in the order the rules make them.
LEMMA Three ==
    ASSUME NEW u \in Works, NEW y \in Rows, NEW x \in Cols, u.field[y][x] = "I"
    PROVE  /\ TileAt(u, y + 1, x) = Rope =>
                Put(Put(Put(u, y + 1, x, Blank), y, x, Rope), y - 1, x, "I") \in Strides(u, y, x)
           /\ Put(Put(Put(u, y + 2, x, Rope), y + 1, x, "I"), y, x, Blank) \in Strides(u, y, x)
<1>0. /\ "I" \in Tiles /\ Blank \in Tiles /\ Rope \in Tiles /\ Rope # "I" /\ Blank # "I" /\ Rope # Blank
      /\ \A T \in {"O", Money} : "I" # T /\ Blank # T /\ Rope # T
  BY DEF Tiles, Rope, Blank, Movables, Money
<1>1. /\ y \in Int /\ y + 1 \in Int /\ y - 1 \in Int /\ y + 2 \in Int /\ x \in Int
      /\ TileAt(u, y, x) = "I"
  BY Around
<1>2. ASSUME TileAt(u, y + 1, x) = Rope
      PROVE  Put(Put(Put(u, y + 1, x, Blank), y, x, Rope), y - 1, x, "I") \in Strides(u, y, x)
  <2> DEFINE a == Put(u, y + 1, x, Blank)
             b == Put(a, y, x, Rope)
             c == Put(b, y - 1, x, "I")
  <2>10. Wrote(u, a, y + 1, x, Blank)
    BY <1>0, <1>1, PutWrites
  <2>1. /\ a \in Works
        /\ a.field = u.field /\ a.keys = u.keys
        /\ \A i \in Rows, j \in Cols : a.next[i][j] = IF i = y + 1 /\ j = x THEN Blank ELSE u.next[i][j]
    BY <2>10 DEF Wrote
  <2>2. \A T \in {"O", Money} : a \in Calm(T, u)
    BY <1>0, <1>1, <1>2, PutCalm
  <2> HIDE DEF a
  <2>30. Wrote(a, b, y, x, Rope)
    BY <1>0, <1>1, <2>1, PutWrites
  <2>3. /\ b \in Works
        /\ b.field = a.field /\ b.keys = a.keys
        /\ \A i \in Rows, j \in Cols : b.next[i][j] = IF i = y /\ j = x THEN Rope ELSE a.next[i][j]
    BY <2>30 DEF Wrote
  <2>4. \A T \in {"O", Money} : b \in Calm(T, a)
    BY <1>0, <1>1, <2>1, PutCalm
  <2> HIDE DEF b
  <2>50. Wrote(b, c, y - 1, x, "I")
    BY <1>0, <1>1, <2>3, PutWrites
  <2>5. /\ c \in Works
        /\ c.field = b.field /\ c.keys = b.keys
        /\ \A i \in Rows, j \in Cols : c.next[i][j] = IF i = y - 1 /\ j = x THEN "I" ELSE b.next[i][j]
    BY <2>50 DEF Wrote
  <2>6. \A T \in {"O", Money} : c \in Calm(T, b)
    BY <1>0, <1>1, <2>3, PutCalm
  <2> HIDE DEF c
  <2>7. \A T \in {"O", Money} : c \in Calm(T, u)
    <3> SUFFICES ASSUME NEW T \in {"O", Money} PROVE c \in Calm(T, u)
      OBVIOUS
    <3>1. b \in Calm(T, u)
      BY <2>2, <2>4, CalmComposes
    <3> QED BY <2>3, <2>6, <3>1, CalmComposes
  <2>8. \A i \in Rows, j \in Cols :
          c.next[i][j] = "I" => \/ i = y - 1 /\ j = x
                                \/ ~(i = y /\ j = x) /\ u.next[i][j] = "I"
    BY <1>0, <2>1, <2>3, <2>5
  <2>9. c \in Strides(u, y, x)
    BY <1>1, <2>5, <2>7, <2>8 DEF Strides
  <2> QED BY <2>9 DEF a, b, c
<1>3. Put(Put(Put(u, y + 2, x, Rope), y + 1, x, "I"), y, x, Blank) \in Strides(u, y, x)
  <2> DEFINE a == Put(u, y + 2, x, Rope)
             b == Put(a, y + 1, x, "I")
             c == Put(b, y, x, Blank)
  <2>10. Wrote(u, a, y + 2, x, Rope)
    BY <1>0, <1>1, PutWrites
  <2>1. /\ a \in Works
        /\ a.field = u.field /\ a.keys = u.keys
        /\ \A i \in Rows, j \in Cols : a.next[i][j] = IF i = y + 2 /\ j = x THEN Rope ELSE u.next[i][j]
    BY <2>10 DEF Wrote
  <2>2. \A T \in {"O", Money} : a \in Calm(T, u)
    BY <1>0, <1>1, PutCalm
  <2> HIDE DEF a
  <2>30. Wrote(a, b, y + 1, x, "I")
    BY <1>0, <1>1, <2>1, PutWrites
  <2>3. /\ b \in Works
        /\ b.field = a.field /\ b.keys = a.keys
        /\ \A i \in Rows, j \in Cols : b.next[i][j] = IF i = y + 1 /\ j = x THEN "I" ELSE a.next[i][j]
    BY <2>30 DEF Wrote
  <2>4. \A T \in {"O", Money} : b \in Calm(T, a)
    BY <1>0, <1>1, <2>1, PutCalm
  <2> HIDE DEF b
  <2>45. \A T \in {"O", Money} : b \in Calm(T, u)
    BY <2>2, <2>4, CalmComposes
  <2>46. TileAt(b, y, x) # Blank
    <3>1. b.field[y][x] = "I"
      BY <2>1, <2>3
    <3>2. TileAt(b, y, x) = b.field[y][x]
      BY <2>3, Around
    <3> QED BY <1>0, <3>1, <3>2
  <2>50. Wrote(b, c, y, x, Blank)
    BY <1>0, <1>1, <2>3, PutWrites
  <2>5. /\ c \in Works
        /\ c.field = b.field /\ c.keys = b.keys
        /\ \A i \in Rows, j \in Cols : c.next[i][j] = IF i = y /\ j = x THEN Blank ELSE b.next[i][j]
    BY <2>50 DEF Wrote
  <2>6. \A T \in {"O", Money} : c \in Calm(T, b)
    BY <1>0, <1>1, <2>3, <2>46, PutCalm
  <2> HIDE DEF c
  <2>7. \A T \in {"O", Money} : c \in Calm(T, u)
    <3> SUFFICES ASSUME NEW T \in {"O", Money} PROVE c \in Calm(T, u)
      OBVIOUS
    <3> QED BY <2>3, <2>6, <2>45, CalmComposes
  <2>8. \A i \in Rows, j \in Cols :
          c.next[i][j] = "I" => \/ i = y + 1 /\ j = x
                                \/ ~(i = y /\ j = x) /\ u.next[i][j] = "I"
    BY <1>0, <2>1, <2>3, <2>5
  <2>9. c \in Strides(u, y, x)
    BY <1>1, <2>5, <2>7, <2>8 DEF Strides
  <2> QED BY <2>9 DEF a, b, c
<1> QED BY <1>2, <1>3

\* One step of the player.
LEMMA Steps ==
    ASSUME NEW u \in Works, NEW y \in Rows, NEW x \in Cols, u.field[y][x] = "I",
           NEW ty \in Int, NEW tx \in Int
    PROVE  Move(u, y, x, ty, tx, "I") \in Strides(u, y, x)
<1> DEFINE a == Put(u, ty, tx, "I")
           b == Put(a, y, x, Blank)
<1>0. /\ "I" \in Tiles /\ Blank \in Tiles /\ Blank # "I"
      /\ \A T \in {"O", Money} : T \in Movables /\ "I" # T /\ Blank # T
  BY Letters DEF Movables
<1>1. y \in Int /\ x \in Int /\ TileAt(u, y, x) = "I"
  BY Around
<1>2. \A T \in {"O", Money} : Move(u, y, x, ty, tx, "I") \in Calm(T, u)
  BY <1>0, <1>1, MoveCalm
<1>3. /\ a \in Works
      /\ \A i \in Rows, j \in Cols : a.next[i][j] = IF i = ty /\ j = tx THEN "I" ELSE u.next[i][j]
  BY <1>0, PutIs
<1> HIDE DEF a
<1>4. /\ b \in Works
      /\ \A i \in Rows, j \in Cols : b.next[i][j] = IF i = y /\ j = x THEN Blank ELSE a.next[i][j]
  BY <1>0, <1>1, <1>3, PutIs
<1>5. Move(u, y, x, ty, tx, "I") = b
  BY DEF Move, Blank, a
<1> HIDE DEF b
<1>6. \A i \in Rows, j \in Cols :
          b.next[i][j] = "I" => \/ i = ty /\ j = tx
                                \/ ~(i = y /\ j = x) /\ u.next[i][j] = "I"
  BY <1>0, <1>3, <1>4
<1> QED BY <1>2, <1>4, <1>5, <1>6 DEF Strides

\* Asking where the player may push from.
LEMMA Prods ==
    ASSUME NEW w \in Works, NEW v \in Same(w), NEW y \in Rows, NEW x \in Cols,
           NEW i \in Int, NEW j \in Int,
           \/ Near(w.keys, y, x, i, j)
           \/ KeyDir(w.keys) = 0
           \/ j + KeyDir(w.keys) \notin Cols
    PROVE  LET p == ProbePlayer(v, i, j)
           IN  /\ p.blocked \in BOOLEAN
               /\ p.blocked => p.w \in Same(w)
               /\ p.w \in Prodded(w, y, x)
               /\ TileAt(w, i, j) \in Belts => p.blocked
<1> DEFINE p == ProbePlayer(v, i, j)
<1>0. /\ v \in Works /\ \A T : v \in Calm(T, w)
      /\ \A a, b : TileAt(v, a, b) = TileAt(w, a, b)
  BY SameCalm DEF Same, TileAt
<1>1. /\ p.blocked \in BOOLEAN
      /\ p.blocked => p.w \in Same(v)
      /\ p.w \in Calm("O", v) \/ p.w \in Pushed(v, i, j)
      /\ \A T \in {"I", Money} : p.w \in Calm(T, v)
      /\ TileAt(v, i, j) \in Belts => p.blocked
  BY <1>0, AskingDoes
<1> HIDE DEF p
<1>2. p.w \in Calm("I", w) /\ p.w \in Calm(Money, w) /\ p.w \in Works
  BY <1>0, <1>1, CalmComposes
<1>3. p.blocked => p.w \in Same(w)
  BY <1>1, SameCalm
<1>4. p.w \in Calm("O", v) => p.w \in Calm("O", w)
  BY <1>0, CalmComposes
<1>5. ASSUME p.w \in Pushed(v, i, j)
      PROVE  i \in Rows /\ j \in Cols /\ Near(w.keys, y, x, i, j) /\ p.w \in Pushed(w, i, j)
  <2>1. p.w \in Pushed(w, i, j)
    BY <1>5, SamePushed
  <2>2. TileAt(w, i, j) = "O" /\ ~Occupied(w, i, j + KeyDir(w.keys)) /\ KeyDir(w.keys) \in {-1, 1}
    BY <2>1 DEF Pushed
  <2>3. i \in Rows /\ j \in Cols
    BY <2>2 DEF TileAt, None, Inside
  <2>4. j + KeyDir(w.keys) \in Cols
    BY <2>2 DEF Occupied, Inside
  <2> QED BY <2>1, <2>2, <2>3, <2>4
<1>6. p.w \in Prodded(w, y, x)
  BY <1>1, <1>2, <1>4, <1>5 DEF Prodded
<1> QED BY <1>0, <1>1, <1>3, <1>6 DEF p

\* What the player may have become of a work that has only been asked of.
LEMMA Goes ==
    ASSUME NEW w \in Works, NEW y \in Rows, NEW x \in Cols, w.field[y][x] = "I",
           NEW u \in Prodded(w, y, x)
    PROVE  /\ u \in Works /\ u.field = w.field /\ u.keys = w.keys
           /\ u \in Went(w, y, x)
           /\ \A v \in Still(u) : v \in Went(w, y, x)
           /\ TileAt(w, y + 1, x) \notin Belts => \A v \in Strides(u, y, x) : v \in Went(w, y, x)
<1>1. u \in Works /\ u.field = w.field /\ u.keys = w.keys
  BY CalmComposes DEF Prodded
<1>2. u \in Still(u)
  BY <1>1, CalmComposes DEF Still
<1>3. \A v \in Still(u) : v \in Went(w, y, x)
  BY DEF Went, Still
<1>4. TileAt(w, y + 1, x) \notin Belts => \A v \in Strides(u, y, x) : v \in Went(w, y, x)
  BY DEF Went, Strides
<1> QED BY <1>1, <1>2, <1>3, <1>4

\* Walking (Walk).
LEMMA WalkGoes ==
    ASSUME NEW w \in Works, NEW u \in Same(w), NEW y \in Rows, NEW x \in Cols, w.field[y][x] = "I",
           TileAt(w, y + 1, x) \notin Belts,
           NEW d \in {-1, 1}, d = -1 => KeyDir(w.keys) = -1
    PROVE  Walk(u, y, x, d) \in Went(w, y, x)
<1> DEFINE p == ProbePlayer(u, y, x + d)
           q == ProbePlayer(p.w, y - 1, x + d)
<1>0. y \in Int /\ y - 1 \in Int /\ x + d \in Int
  BY Around
<1>1. Near(w.keys, y, x, y, x + d) /\ Near(w.keys, y, x, y - 1, x + d)
  BY <1>0, Around DEF Near
<1>2. p.blocked \in BOOLEAN /\ (p.blocked => p.w \in Same(w)) /\ p.w \in Prodded(w, y, x)
  BY <1>0, <1>1, Prods
<1>3. Walk(u, y, x, d) = IF ~p.blocked THEN Move(p.w, y, x, y, x + d, "I")
                         ELSE IF y = 0 THEN p.w
                         ELSE IF ~q.blocked THEN Move(q.w, y, x, y - 1, x + d, "I")
                         ELSE q.w
  BY DEF Walk
<1>4. p.blocked => q.w \in Prodded(w, y, x)
  <2> HIDE DEF p
  <2> QED BY <1>0, <1>1, <1>2, Prods
<1> HIDE DEF p, q
<1>5. p.w \in Went(w, y, x) /\ Move(p.w, y, x, y, x + d, "I") \in Went(w, y, x)
  <2>1. p.w \in Works /\ p.w.field[y][x] = "I"
    BY <1>2, Goes
  <2>2. Move(p.w, y, x, y, x + d, "I") \in Strides(p.w, y, x)
    BY <1>0, <2>1, Steps
  <2> QED BY <1>2, <2>2, Goes
<1>6. p.blocked => q.w \in Went(w, y, x) /\ Move(q.w, y, x, y - 1, x + d, "I") \in Went(w, y, x)
  <2> SUFFICES ASSUME p.blocked PROVE q.w \in Went(w, y, x) /\ Move(q.w, y, x, y - 1, x + d, "I") \in Went(w, y, x)
    OBVIOUS
  <2>1. q.w \in Works /\ q.w.field[y][x] = "I"
    BY <1>4, Goes
  <2>2. Move(q.w, y, x, y - 1, x + d, "I") \in Strides(q.w, y, x)
    BY <1>0, <2>1, Steps
  <2> QED BY <1>4, <2>2, Goes
<1> QED BY <1>2, <1>3, <1>5, <1>6

\* Climbing (Climb), when no boulder can be pushed.
LEMMA ClimbGoes ==
    ASSUME NEW w \in Works, NEW u \in Same(w), NEW y \in Rows, NEW x \in Cols, w.field[y][x] = "I",
           TileAt(w, y + 1, x) \notin Belts,
           KeyDir(w.keys) = 0 \/ x + KeyDir(w.keys) \notin Cols
    PROVE  Climb(u, y, x) \in Went(w, y, x)
<1> DEFINE p == ProbePlayer(u, y - 2, x)
           q == ProbePlayer(u, y - 1, x)
           v == Put(Put(Put(q.w, y + 1, x, Blank), y, x, Rope), y - 1, x, "I")
<1>0. y \in Int /\ y - 1 \in Int /\ y - 2 \in Int /\ x \in Int
  BY Around
<1>1. p.w \in Prodded(w, y, x)
  BY <1>0, Prods
<1>2. q.w \in Prodded(w, y, x)
  BY <1>0, Prods
<1>3. \/ Climb(u, y, x) \in {p.w, q.w, u, Move(p.w, y, x, y - 2, x, "I")}
      \/ Climb(u, y, x) = v /\ TileAt(u, y + 1, x) = Rope
  BY DEF Climb, Rope, Blank
<1>4. TileAt(u, y + 1, x) = TileAt(w, y + 1, x)
  BY DEF Same, TileAt
<1> HIDE DEF p, q
<1>5. Move(p.w, y, x, y - 2, x, "I") \in Went(w, y, x)
  <2>1. p.w \in Works /\ p.w.field[y][x] = "I"
    BY <1>1, Goes
  <2>2. Move(p.w, y, x, y - 2, x, "I") \in Strides(p.w, y, x)
    BY <1>0, <2>1, Steps
  <2> QED BY <1>1, <2>2, Goes
<1>6. p.w \in Went(w, y, x) /\ q.w \in Went(w, y, x)
  BY <1>1, <1>2, Goes
<1>7. TileAt(u, y + 1, x) = Rope => v \in Went(w, y, x)
  <2> SUFFICES ASSUME TileAt(u, y + 1, x) = Rope PROVE v \in Went(w, y, x)
    OBVIOUS
  <2>1. q.w \in Works /\ q.w.field = w.field /\ q.w.field[y][x] = "I"
    BY <1>2, Goes
  <2>2. TileAt(q.w, y + 1, x) = TileAt(w, y + 1, x)
    BY <2>1 DEF TileAt
  <2>3. v \in Strides(q.w, y, x)
    BY <1>4, <2>1, <2>2, Three
  <2> HIDE DEF v
  <2> QED BY <1>2, <2>3, Goes
<1>8. u \in Went(w, y, x)
  <2>1. u \in Prodded(w, y, x)
    BY SameCalm DEF Prodded, Same
  <2> QED BY <2>1, Goes
<1> HIDE DEF v
<1> QED BY <1>3, <1>5, <1>6, <1>7, <1>8

\* Setting off what explodes at once (Replaced).
LEMMA ReplacedStill ==
    ASSUME NEW u \in Works
    PROVE  Replaced(u, [c \in {"@"} |-> "0"]) \in Still(u)
<1> DEFINE n == [y \in Rows |-> [x \in Cols |-> IF u.field[y][x] = "@" THEN "0" ELSE u.next[y][x]]]
           v == Replaced(u, [c \in {"@"} |-> "0"])
<1>1. v = [u EXCEPT !.next = n]
  <2> DEFINE paint == [c \in {"@"} |-> "0"]
  <2>1. \A t : t \in DOMAIN paint <=> t = "@"
    OBVIOUS
  <2>2. paint["@"] = "0"
    OBVIOUS
  <2>3. u.next = u.next /\ [u EXCEPT !.next = u.next] = u
    BY DEF Works
  <2>4. v = [u EXCEPT !.next = [y \in Rows |-> [x \in Cols |->
               IF u.field[y][x] \in DOMAIN paint THEN paint[u.field[y][x]] ELSE u.next[y][x]]]]
    BY DEF Replaced
  <2>5. \A y \in Rows, x \in Cols :
          (IF u.field[y][x] \in DOMAIN paint THEN paint[u.field[y][x]] ELSE u.next[y][x])
          = (IF u.field[y][x] = "@" THEN "0" ELSE u.next[y][x])
    BY <2>1, <2>2
  <2> HIDE DEF paint
  <2> QED BY <2>4, <2>5
<1>2. "0" \in Tiles /\ \A T \in Movables : "0" # T
  BY DEF Tiles, Movables, Money
<1>3. "0" # Blank
  BY DEF Blank
<1>4. n \in Fields /\ \A y \in Rows, x \in Cols : n[y][x] \in {"0", u.next[y][x]}
  BY <1>2 DEF Fields, Works
<1> HIDE DEF n, v
<1>5. v \in Works /\ v.field = u.field /\ v.keys = u.keys /\ v.next = n
  BY <1>1, <1>4 DEF Works
<1>6. \A T \in Movables : v \in Calm(T, u)
  BY <1>2, <1>3, <1>4, <1>5 DEF Calm
<1> QED BY <1>5, <1>6 DEF Still, v

\* Digging, pulling a lever and the like (Dig), when no boulder can be pushed.
LEMMA DigGoes ==
    ASSUME NEW w \in Works, NEW u \in Same(w), NEW y \in Rows, NEW x \in Cols, w.field[y][x] = "I",
           TileAt(w, y + 1, x) \notin Belts,
           KeyDir(w.keys) = 0 \/ x + KeyDir(w.keys) \notin Cols
    PROVE  Dig(u, y, x) \in Went(w, y, x)
<1> DEFINE p == ProbePlayer(u, y + 2, x)
           v == Put(Put(Put(u, y + 2, x, Rope), y + 1, x, "I"), y, x, Blank)
           r == Replaced(u, [c \in {"@"} |-> "0"])
<1>0. y \in Int /\ y + 2 \in Int /\ x \in Int
  BY Around
<1>1. p.w \in Prodded(w, y, x)
  BY <1>0, Prods
<1>2. Dig(u, y, x) \in {p.w, u, v, r, [u EXCEPT !.reverse = TRUE], Move(p.w, y, x, y + 2, x, "I")}
  BY DEF Dig, Rope, Blank
<1> HIDE DEF p
<1>3. p.w \in Went(w, y, x) /\ Move(p.w, y, x, y + 2, x, "I") \in Went(w, y, x)
  <2>1. p.w \in Works /\ p.w.field[y][x] = "I"
    BY <1>1, Goes
  <2>2. Move(p.w, y, x, y + 2, x, "I") \in Strides(p.w, y, x)
    BY <1>0, <2>1, Steps
  <2> QED BY <1>1, <2>2, Goes
<1>4. u \in Prodded(w, y, x) /\ u \in Works
  BY SameCalm DEF Prodded, Same
<1>5. u \in Went(w, y, x) /\ u.field[y][x] = "I"
  BY <1>4, Goes
<1>6. v \in Went(w, y, x)
  <2>1. v \in Strides(u, y, x)
    BY <1>4, <1>5, Three
  <2> HIDE DEF v
  <2> QED BY <1>4, <2>1, Goes
<1>7. r \in Went(w, y, x)
  <2>1. r \in Still(u)
    BY <1>4, ReplacedStill
  <2> HIDE DEF r
  <2> QED BY <1>4, <2>1, Goes
<1>8. [u EXCEPT !.reverse = TRUE] \in Went(w, y, x)
  <2> DEFINE e == [u EXCEPT !.reverse = TRUE]
  <2>1. \A T \in Movables : e \in Calm(T, u)
    BY <1>4, FlagsCalm
  <2> HIDE DEF e
  <2>2. e \in Works
    BY <1>4, <2>1, CalmComposes DEF Movables
  <2>3. e \in Still(u)
    BY <2>1, <2>2 DEF Still
  <2>4. e \in Went(w, y, x)
    BY <1>4, <2>3, Goes
  <2> QED BY <2>4 DEF e
<1> HIDE DEF v, r
<1> QED BY <1>2, <1>3, <1>5, <1>6, <1>7, <1>8

\* The whole rule of the player (Player).
LEMMA PlayerGoes ==
    ASSUME NEW w \in Works, NEW y \in Rows, NEW x \in Cols, w.field[y][x] = "I"
    PROVE  Player(w, y, x) \in Went(w, y, x)
<1> DEFINE n    == [w EXCEPT !.players = @ + 1]
           fall == ProbePlayer(n, y + 1, x)
           v    == fall.w
<1>0. y \in Int /\ y + 1 \in Int /\ x \in Int /\ Near(w.keys, y, x, y + 1, x)
  BY Around DEF Near
<1>1. n \in Same(w)
  BY SameCalm
<1>2. Player(w, y, x) =
        IF ~fall.blocked THEN Move(v, y, x, y + 1, x, "I")
        ELSE IF TileAt(w, y + 1, x) \in Belts \/ v.tired # 0 THEN v
        ELSE IF "left" \in w.keys /\ x > 0 THEN Walk(v, y, x, -1)
        ELSE IF "right" \in w.keys /\ x < COLUMNS - 1 THEN Walk(v, y, x, 1)
        ELSE IF "up" \in w.keys THEN Climb(v, y, x)
        ELSE IF "down" \in w.keys THEN Dig(v, y, x)
        ELSE v
  BY DEF Player, Belts
<1> HIDE DEF n
<1>3. /\ fall.blocked \in BOOLEAN /\ (fall.blocked => v \in Same(w)) /\ v \in Prodded(w, y, x)
      /\ TileAt(w, y + 1, x) \in Belts => fall.blocked
  BY <1>0, <1>1, Prods
<1> HIDE DEF fall
<1>4. v \in Went(w, y, x)
  BY <1>3, Goes
<1>5. CASE ~fall.blocked
  <2>1. v \in Works /\ v.field[y][x] = "I"
    BY <1>3, Goes
  <2>2. Move(v, y, x, y + 1, x, "I") \in Strides(v, y, x)
    BY <1>0, <2>1, Steps
  <2>3. Move(v, y, x, y + 1, x, "I") \in Went(w, y, x)
    BY <1>3, <1>5, <2>2, Goes
  <2> QED BY <1>2, <1>5, <2>3
<1>6. CASE fall.blocked /\ TileAt(w, y + 1, x) \notin Belts
  <2>1. "left" \in w.keys => KeyDir(w.keys) = -1
    BY DEF KeyDir
  <2>2. "left" \in w.keys => Walk(v, y, x, -1) \in Went(w, y, x)
    BY <1>3, <1>6, <2>1, WalkGoes
  <2>3. Walk(v, y, x, 1) \in Went(w, y, x)
    BY <1>3, <1>6, WalkGoes
  <2>4. ~("left" \in w.keys /\ x > 0) /\ ~("right" \in w.keys /\ x < COLUMNS - 1)
        => KeyDir(w.keys) = 0 \/ x + KeyDir(w.keys) \notin Cols
    BY SizeAssumption DEF KeyDir, Cols
  <2>5. KeyDir(w.keys) = 0 \/ x + KeyDir(w.keys) \notin Cols
        => Climb(v, y, x) \in Went(w, y, x) /\ Dig(v, y, x) \in Went(w, y, x)
    BY <1>3, <1>6, ClimbGoes, DigGoes
  <2> HIDE DEF v
  <2> QED BY <1>2, <1>4, <1>6, <2>2, <2>3, <2>4, <2>5
<1>7. CASE fall.blocked /\ TileAt(w, y + 1, x) \in Belts
  BY <1>2, <1>4, <1>7
<1> QED BY <1>3, <1>5, <1>6, <1>7

-----------------------------------------------------------------------------
(* What is doubled: what is carried. *)

\* The works in which the T of a cell has left it, and may be somewhere else.
Ceded(T, w, y, x) ==
    {v \in Works :
       /\ v.field = w.field /\ v.keys = w.keys
       /\ \E ty, tx \in Int : \A i \in Rows, j \in Cols :
            v.next[i][j] = T => \/ i = ty /\ j = tx
                                \/ ~(i = y /\ j = x) /\ w.next[i][j] = T}

\* The works in which a boulder has been carried aside.
Carried(w, y, x, d) ==
    {v \in Works :
       /\ v.field = w.field /\ v.keys = w.keys
       /\ ~Occupied(w, y, x + d)
       /\ \A i \in Rows, j \in Cols :
            v.next[i][j] = IF i = y /\ j = x + d THEN "O"
                           ELSE IF i = y /\ j = x THEN Blank
                           ELSE w.next[i][j]}

\* Walkers push boulders and coins only (ProbeWalker).
LEMMA WalkerAsks ==
    ASSUME NEW w \in Works, NEW y \in Int, NEW x \in Int, NEW ch
    PROVE  LET p == ProbeWalker(w, y, x, ch)
           IN  p.blocked \in BOOLEAN /\ p.w \in Calm("I", w)
<1> DEFINE ob == TileAt(w, y, x)
           d  == Ahead(ch)
           p  == ProbeWalker(w, y, x, ch)
           pushing == ob \in {"O", Money} /\ Occupied(w, y + 1, x) /\ ~Occupied(w, y, x + d)
<1>0. d \in Int /\ x + d \in Int
  BY DEF Ahead
<1>1. /\ ob = "I" => p = Answer(FALSE, [w EXCEPT !.die = TRUE])
      /\ pushing => p = Answer(FALSE, Put(w, y, x + d, ob))
      /\ ob # "I" /\ ~pushing => p = Answer(Occupied(w, y, x), w)
  BY DEF ProbeWalker, Money
<1>2. \A b, v : Answer(b, v).blocked = b /\ Answer(b, v).w = v
  BY DEF Answer
<1>3. CASE ob = "I"
  <2>1. p.blocked = FALSE /\ p.w = [w EXCEPT !.die = TRUE]
    BY <1>1, <1>3 DEF Answer
  <2> HIDE DEF p
  <2> QED BY <2>1, FlagsCalm DEF p
<1>4. CASE pushing
  <2>1. ob \in Tiles /\ ob # "I"
    BY <1>4, Letters DEF Movables
  <2> HIDE DEF ob, d
  <2>2. Put(w, y, x + d, ob) \in Calm("I", w)
    BY <1>0, <2>1, PutCalm
  <2>3. p = Answer(FALSE, Put(w, y, x + d, ob))
    BY <1>1, <1>4
  <2> HIDE DEF p
  <2>4. p.blocked = FALSE /\ p.w = Put(w, y, x + d, ob)
    BY <2>3 DEF Answer
  <2> QED BY <2>2, <2>4 DEF p
<1>5. CASE ob # "I" /\ ~pushing
  <2>1. p = Answer(Occupied(w, y, x), w)
    BY <1>1, <1>5
  <2>2. p.blocked = Occupied(w, y, x) /\ p.w = w
    BY <2>1 DEF Answer
  <2>3. Occupied(w, y, x) \in BOOLEAN /\ w \in Calm("I", w)
    BY Finds, CalmComposes
  <2> HIDE DEF p
  <2> QED BY <2>2, <2>3 DEF p
<1> HIDE DEF ob, pushing, p
<1> QED BY <1>3, <1>4, <1>5

\* What p, asked as a ch, tells of a cell.
Asked(w, y, x, ch, p) ==
    /\ p.blocked \in BOOLEAN
    /\ p.w \in Calm("I", w)
    /\ ch \notin Walkers => p.w \in Calm(Money, w)
    /\ ch = "I" => p.w \in Calm("O", w) \/ p.w \in Pushed(w, y, x)
    /\ ch \notin Walkers \cup {"I"} => p.w = w
    /\ ch \notin Walkers \cup {"I", "<", ">"} => p.blocked = Occupied(w, y, x)

\* Asking as whatever is carried or copied (Probe).
LEMMA ProbeDoes ==
    ASSUME NEW w \in Works, NEW y \in Int, NEW x \in Int, NEW ch
    PROVE  Asked(w, y, x, ch, Probe(w, y, x, ch))
<1> DEFINE p == Probe(w, y, x, ch)
<1>0. /\ "I" \notin Walkers /\ Money # "I"
      /\ \A T : w \in Calm(T, w)
      /\ Occupied(w, y, x) \in BOOLEAN
  BY Finds, CalmComposes DEF Walkers, Money
<1>1. CASE ch = "I"
  <2>1. p = ProbePlayer(w, y, x)
    BY <1>1 DEF Probe, Walkers
  <2>2. /\ p.blocked \in BOOLEAN
        /\ p.w \in Calm("O", w) \/ p.w \in Pushed(w, y, x)
        /\ \A T \in {"I", Money} : p.w \in Calm(T, w)
    BY <2>1, AskingDoes
  <2> HIDE DEF p
  <2> QED BY <1>0, <1>1, <2>2 DEF p, Asked
<1>2. CASE ch \in Walkers
  <2>1. p = ProbeWalker(w, y, x, ch)
    BY <1>2 DEF Probe, Walkers
  <2>2. p.blocked \in BOOLEAN /\ p.w \in Calm("I", w)
    BY <2>1, WalkerAsks
  <2> HIDE DEF p
  <2> QED BY <1>0, <1>2, <2>2 DEF p, Asked
<1>3. CASE ch \in {"<", ">"}
  <2>1. p = Answer(TileAt(w, y, x) # "I" /\ Occupied(w, y, x), w)
    BY <1>3 DEF Probe, Walkers
  <2>2. p.blocked = (TileAt(w, y, x) # "I" /\ Occupied(w, y, x)) /\ p.w = w
    BY <2>1 DEF Answer
  <2>3. p.blocked \in BOOLEAN /\ p.w = w
    <3>1. CASE TileAt(w, y, x) = "I"
      BY <2>2, <3>1
    <3>2. CASE TileAt(w, y, x) # "I"
      <4> HIDE DEF p
      <4>1. p.blocked = Occupied(w, y, x)
        BY <1>0, <2>2, <3>2
      <4> QED BY <1>0, <2>2, <4>1
    <3> QED BY <3>1, <3>2
  <2>4. ch \notin Walkers /\ ch # "I"
    BY <1>3 DEF Walkers
  <2> HIDE DEF p
  <2> QED BY <1>0, <1>3, <2>3, <2>4 DEF p, Asked
<1>4. CASE ch # "I" /\ ch \notin Walkers /\ ch \notin {"<", ">"}
  <2>1. p = Answer(Occupied(w, y, x), w)
    BY <1>4 DEF Probe
  <2>2. p.blocked = Occupied(w, y, x) /\ p.w = w
    BY <2>1 DEF Answer
  <2> HIDE DEF p
  <2> QED BY <1>0, <1>4, <2>2 DEF p, Asked
<1> QED BY <1>1, <1>2, <1>3, <1>4

\* The two writes of what is carried.
LEMMA Carrying ==
    ASSUME NEW u \in Works, NEW y \in Int, NEW x \in Int, NEW z \in Int,
           NEW ob \in Tiles, ob # Blank, TileAt(u, y, x) = ob
    PROVE  LET v == Put(Put(u, y, x, Blank), y, z, ob)
           IN  /\ v \in Works
               /\ v.field = u.field /\ v.keys = u.keys
               /\ \A T \in Movables : T # ob => v \in Calm(T, u)
               /\ \A i \in Rows, j \in Cols :
                    v.next[i][j] = IF i = y /\ j = z THEN ob
                                   ELSE IF i = y /\ j = x THEN Blank
                                   ELSE u.next[i][j]
<1> DEFINE a == Put(u, y, x, Blank)
           v == Put(a, y, z, ob)
<1>1. Wrote(u, a, y, x, Blank)
  BY PutWrites, Letters
<1>2. \A T \in Movables : a \in Calm(T, u)
  BY PutCalm, Letters
<1> HIDE DEF a
<1>3. a \in Works
  BY <1>1 DEF Wrote
<1>4. Wrote(a, v, y, z, ob)
  BY <1>3, PutWrites
<1>5. \A T \in Movables : T # ob => v \in Calm(T, a)
  BY <1>3, PutCalm
<1> HIDE DEF v
<1>6. \A T \in Movables : T # ob => v \in Calm(T, u)
  BY <1>2, <1>5, CalmComposes
<1>7. v \in Works /\ v.field = u.field /\ v.keys = u.keys
  BY <1>1, <1>4 DEF Wrote
<1>8. \A i \in Rows, j \in Cols :
        v.next[i][j] = IF i = y /\ j = z THEN ob
                       ELSE IF i = y /\ j = x THEN Blank
                       ELSE u.next[i][j]
  BY <1>1, <1>4 DEF Wrote
<1> QED BY <1>6, <1>7, <1>8 DEF a, v

\* What stands on a platform (Carry).
LEMMA CarryDoes ==
    ASSUME NEW w \in Works, NEW y \in Int, NEW x \in Int, NEW d \in {-1, 1}
    PROVE  LET ob == TileAt(w, y - 1, x)
               v  == Carry(w, y, x, d)
           IN  /\ ob # "I" => v \in Calm("I", w)
               /\ ob = "I" => v \in Calm("I", w) \/ v \in Ceded("I", w, y - 1, x)
               /\ ob \notin Walkers => v \in Calm(Money, w) \/ (ob = Money /\ v \in Ceded(Money, w, y - 1, x))
               /\ ob \notin Walkers => \/ v \in Calm("O", w)
                                       \/ ob = "O" /\ v \in Carried(w, y - 1, x, d)
                                       \/ ob = "I" /\ \E u \in Pushed(w, y - 1, x + d) : v \in Calm("O", u)
<1> DEFINE ob == TileAt(w, y - 1, x)
           p  == Probe(w, y - 1, x + d, ob)
           c  == Put(Put(p.w, y - 1, x, Blank), y - 1, x + d, ob)
           v  == Carry(w, y, x, d)
<1>0. y - 1 \in Int /\ x + d \in Int
  OBVIOUS
<1>1. v = IF ob \notin Loose THEN w ELSE IF p.blocked THEN p.w ELSE c
  BY DEF Carry, Blank
<1>2. /\ p.blocked \in BOOLEAN
      /\ p.w \in Calm("I", w)
      /\ ob \notin Walkers => p.w \in Calm(Money, w)
      /\ ob = "I" => p.w \in Calm("O", w) \/ p.w \in Pushed(w, y - 1, x + d)
      /\ ob \notin Walkers \cup {"I"} => p.w = w
      /\ ob \notin Walkers \cup {"I", "<", ">"} => p.blocked = Occupied(w, y - 1, x + d)
  <2>1. Asked(w, y - 1, x + d, ob, p)
    BY <1>0, ProbeDoes
  <2> HIDE DEF ob, p
  <2> QED BY <2>1 DEF Asked
<1>3. ob \in Loose => ob \in Tiles /\ ob # Blank
  <2>1. \A t \in Loose : t \in Tiles /\ t # Blank
    BY DEF Loose, Tiles, Blank, Money, Walkers
  <2> HIDE DEF ob
  <2> QED BY <2>1
<1>4. p.w \in Works /\ p.w.field = w.field /\ p.w.keys = w.keys /\ TileAt(p.w, y - 1, x) = ob
  BY <1>2, CalmComposes
<1>5. \A T : w \in Calm(T, w)
  BY CalmComposes
<1>6. "I" \notin Walkers /\ Money # "I" /\ "O" # Money /\ "O" \notin Walkers \cup {"<", ">"}
  BY DEF Walkers, Money
<1> HIDE DEF ob, p
<1>7. ob \in Loose =>
       /\ c \in Works
       /\ c.field = w.field /\ c.keys = w.keys
       /\ \A T \in Movables : T # ob => c \in Calm(T, p.w)
       /\ \A i \in Rows, j \in Cols :
            c.next[i][j] = IF i = y - 1 /\ j = x + d THEN ob
                           ELSE IF i = y - 1 /\ j = x THEN Blank
                           ELSE p.w.next[i][j]
  BY <1>0, <1>3, <1>4, Carrying
<1> HIDE DEF c, v
<1>8. ob # "I" => v \in Calm("I", w)
  BY <1>1, <1>2, <1>4, <1>5, <1>7, CalmComposes DEF Movables
<1>9. ASSUME ob \in {"I", Money}, ob \in Loose, ~p.blocked, p.w \in Calm(ob, w)
      PROVE  c \in Ceded(ob, w, y - 1, x)
  <2>1. \A i \in Rows, j \in Cols :
          c.next[i][j] = ob => \/ i = y - 1 /\ j = x + d
                               \/ ~(i = y - 1 /\ j = x) /\ w.next[i][j] = ob
    <3> SUFFICES ASSUME NEW i \in Rows, NEW j \in Cols, c.next[i][j] = ob, ~(i = y - 1 /\ j = x + d)
                 PROVE  ~(i = y - 1 /\ j = x) /\ w.next[i][j] = ob
      OBVIOUS
    <3>1. c.next[i][j] = IF i = y - 1 /\ j = x THEN Blank ELSE p.w.next[i][j]
      BY <1>7, <1>9
    <3>2. ~(i = y - 1 /\ j = x) /\ p.w.next[i][j] = ob
      BY <1>3, <1>9, <3>1
    <3>3. p.w.next[i][j] = ob => w.next[i][j] = ob
      BY <1>9 DEF Calm
    <3> QED BY <3>2, <3>3
  <2> QED BY <1>0, <1>7, <1>9, <2>1 DEF Ceded
<1>10. ob = "I" => v \in Calm("I", w) \/ v \in Ceded("I", w, y - 1, x)
  BY <1>1, <1>2, <1>5, <1>9
<1>11. ob \notin Walkers => v \in Calm(Money, w) \/ (ob = Money /\ v \in Ceded(Money, w, y - 1, x))
  <2>1. ob \notin Walkers /\ ob # Money /\ ob \in Loose => c \in Calm(Money, w)
    BY <1>2, <1>7, CalmComposes DEF Movables
  <2> QED BY <1>1, <1>2, <1>5, <1>9, <2>1
<1>12. ob \notin Walkers => \/ v \in Calm("O", w)
                            \/ ob = "O" /\ v \in Carried(w, y - 1, x, d)
                            \/ ob = "I" /\ \E u \in Pushed(w, y - 1, x + d) : v \in Calm("O", u)
  <2>1. CASE ob \notin Loose
    BY <1>1, <1>5, <2>1
  <2>2. CASE ob = "O"
    <3>1. p.w = w /\ p.blocked = Occupied(w, y - 1, x + d)
      BY <1>2, <1>6, <2>2
    <3>2. ob \in Loose
      BY <2>2 DEF Loose
    <3>3. ~p.blocked => c \in Carried(w, y - 1, x, d)
      BY <1>7, <2>2, <3>1, <3>2 DEF Carried
    <3> QED BY <1>1, <1>5, <2>2, <3>1, <3>2, <3>3
  <2>3. CASE ob = "I"
    <3>1. ob \in Loose /\ v \in {p.w, c} /\ c \in Calm("O", p.w) /\ p.w \in Calm("O", p.w)
      BY <1>1, <1>2, <1>4, <1>7, <2>3, CalmComposes DEF Loose, Movables
    <3>2. p.w \in Calm("O", w) => v \in Calm("O", w)
      BY <3>1, CalmComposes
    <3> QED BY <1>2, <2>3, <3>1, <3>2
  <2>4. CASE ob \in Loose /\ ob \notin {"I", "O"} /\ ob \notin Walkers
    <3>1. p.w = w /\ c \in Calm("O", p.w)
      BY <1>2, <1>7, <2>4 DEF Movables
    <3> QED BY <1>1, <1>2, <1>5, <2>4, <3>1
  <2> QED BY <2>1, <2>2, <2>3, <2>4
<1> QED BY <1>8, <1>10, <1>11, <1>12 DEF ob, v

-----------------------------------------------------------------------------
(* What is doubled: the rules of the tiles that move. *)

\* Digits count down, and so do what they blow up (process_frame_1): what the
\* tiles do that leave the players, boulders and coins alone.
LEMMA RestCalm ==
    ASSUME NEW T \in Movables, NEW w \in Works, NEW y \in Rows, NEW x \in Cols,
           w.field[y][x] \notin {"O", Money, "I", "(", ")", "<", ">"} \cup Walkers,
           w.field[y][x] # "A" \/ T # "O"
    PROVE  FrameTile(w, y, x) \in Calm(T, w)
<1> DEFINE ch == w.field[y][x]
           v == FrameTile(w, y, x)
<1>0. w \in Calm(T, w)
  BY CalmComposes
<1>1. ASSUME ch # Blank PROVE \A t \in Tiles : t = T \/ Put(w, y, x, t) \in Calm(T, w)
  BY <1>1, OwnCalm
<1>2. CASE ch \in Loose /\ y = ROWS - 1
  <2>1. v = Put(w, y, x, Blank)
    BY <1>2 DEF FrameTile, Blank
  <2>2. ch # Blank
    BY <1>2 DEF Loose, Blank, Money
  <2> HIDE DEF v, ch
  <2> QED BY <1>1, <2>1, <2>2, Letters DEF v
<1>3. CASE ~(ch \in Loose /\ y = ROWS - 1)
  <2>1. CASE ch \in Digits
    <3>0. v = IF TileAt(w, y - 1, x) \notin {" ", None} THEN Put(w, y, x, OneLess[ch]) ELSE w
      BY <1>3, <2>1, ZenonT(60) DEF FrameTile, Digits, Money, Pipe, Walkers
    <3>1. v \in {w, Put(w, y, x, OneLess[ch])}
      BY <3>0
    <3>2. ch # Blank
      BY <2>1 DEF Digits, Blank
    <3>3. OneLess[ch] \in Tiles /\ OneLess[ch] # T
      <4>1. \A t \in Digits : OneLess[t] \in Digits \cup {"0"}
        BY DEF Digits, OneLess
      <4>2. \A t \in Digits \cup {"0"} : t \in Tiles /\ t \notin Movables
        BY DEF Digits, Tiles, Movables, Money
      <4> HIDE DEF ch
      <4> QED BY <2>1, <4>1, <4>2
    <3> HIDE DEF v, ch
    <3> QED BY <1>0, <1>1, <3>1, <3>2, <3>3 DEF v
  <2>2. CASE ch = "0"
    <3>1. v = Put(w, y, x, Blank)
      BY <1>3, <2>2 DEF FrameTile, Digits, Money, Pipe, Walkers, Blank
    <3>2. ch # Blank
      BY <2>2 DEF Blank
    <3> HIDE DEF v, ch
    <3> QED BY <1>1, <3>1, <3>2, Letters DEF v
  <2>3. CASE ch = "%"
    <3>1. v = Percent(w, y, x)
      BY <1>3, <2>3 DEF FrameTile, Digits, Money, Pipe, Walkers
    <3> HIDE DEF v
    <3> QED BY <2>3, <3>1, PercentCalm DEF v
  <2>4. CASE ch \in {":", ";", "."}
    <3>1. v = Valve(w, y, x, ch)
      BY <1>3, <2>4 DEF FrameTile, Digits, Money, Pipe, Walkers
    <3>2. ch # Blank
      BY <2>4 DEF Blank
    <3> HIDE DEF v
    <3> QED BY <3>1, <3>2, SmallCalm DEF v
  <2>5. CASE ch \in {"&", "?"}
    <3>1. v = Fuse(w, y, x)
      BY <1>3, <2>5 DEF FrameTile, Digits, Money, Pipe, Walkers
    <3>2. ch # Blank
      BY <2>5 DEF Blank
    <3> HIDE DEF v
    <3> QED BY <3>1, <3>2, SmallCalm DEF v
  <2>6. CASE ch = "T"
    <3>1. v = Trolley(w, y, x)
      BY <1>3, <2>6 DEF FrameTile, Digits, Money, Pipe, Walkers
    <3>2. ch # Blank
      BY <2>6 DEF Blank
    <3> HIDE DEF v
    <3> QED BY <3>1, <3>2, SmallCalm DEF v
  <2>7. CASE ch \in {Pipe, "A"}
    <3>1. v = Dispenser(w, y, x, ch)
      BY <1>3, <2>7 DEF FrameTile, Digits, Money, Pipe, Walkers
    <3>2. ch # Blank
      BY <2>7 DEF Blank, Pipe
    <3> HIDE DEF v
    <3> QED BY <3>1, <3>2, DispenserCalm DEF v
  <2>8. CASE ch \in {"x", "X"}
    <3>1. v = Eater(w, y, x, ch)
      BY <1>3, <2>8 DEF FrameTile, Digits, Money, Pipe, Walkers
    <3>2. ch # Blank
      BY <2>8 DEF Blank
    <3> HIDE DEF v
    <3> QED BY <3>1, <3>2, SmallCalm DEF v
  <2>9. CASE ch \in {"e", "E"}
    <3>1. v = Exit(w, y, x, ch)
      BY <1>3, <2>9 DEF FrameTile, Digits, Money, Pipe, Walkers
    <3>2. ch # Blank
      BY <2>9 DEF Blank
    <3> HIDE DEF v
    <3> QED BY <3>1, <3>2, SmallCalm DEF v
  <2>10. CASE /\ ch \notin Digits /\ ch \notin {"0", "%", ":", ";", ".", "&", "?", "T", Pipe, "A", "x", "X", "e", "E"}
              /\ ch \notin {"O", Money, "I", "(", ")", "<", ">"} \cup Walkers
    <3>1. v = w
      BY <1>3, <2>10 DEF FrameTile
    <3> QED BY <1>0, <3>1
  <2> HIDE DEF ch
  <2> QED BY <2>1, <2>2, <2>3, <2>4, <2>5, <2>6, <2>7, <2>8, <2>9, <2>10 DEF ch
<1> QED BY <1>2, <1>3

\* In the last row, what is loose goes (process_frame_1); elsewhere its rule applies.
LEMMA Ruled ==
    ASSUME NEW w \in Works, NEW y \in Rows, NEW x \in Cols
    PROVE  LET ch == w.field[y][x]
               v  == FrameTile(w, y, x)
               Its(u) == v = u \/ \A T \in Movables : v \in Calm(T, w)
           IN  /\ ch = "O" => Its(Boulder(w, y, x))
               /\ ch = Money => Its(Coin(w, y, x))
               /\ ch = "I" => Its(Player(w, y, x))
               /\ ch \in Belts => v = Belt(w, y, x, ch)
               /\ ch \in {"<", ">"} => v = Platform(w, y, x, ch)
               /\ ch \in Walkers => Its(Walker(w, y, x, ch))
<1> DEFINE ch == w.field[y][x]
           v  == FrameTile(w, y, x)
           Its(u) == v = u \/ \A T \in Movables : v \in Calm(T, w)
<1>1. CASE ch \in Loose /\ y = ROWS - 1
  <2>1. v = Put(w, y, x, Blank)
    BY <1>1 DEF FrameTile, Blank
  <2>2. ch # Blank /\ ch \notin Belts /\ ch \notin {"<", ">"}
    BY <1>1 DEF Loose, Blank, Money, Belts
  <2>3. \A T \in Movables : Put(w, y, x, Blank) \in Calm(T, w)
    BY <2>2, OwnCalm, Letters
  <2> HIDE DEF v
  <2> QED BY <2>1, <2>2, <2>3 DEF v
<1>2. CASE ~(ch \in Loose /\ y = ROWS - 1)
  <2>1. ch = "O" => v = Boulder(w, y, x)
    BY <1>2 DEF FrameTile, Digits, Money, Pipe, Walkers
  <2>2. ch = Money => v = Coin(w, y, x)
    BY <1>2 DEF FrameTile, Digits, Money, Pipe, Walkers
  <2>3. ch = "I" => v = Player(w, y, x)
    BY <1>2 DEF FrameTile, Digits, Money, Pipe, Walkers
  <2>4. ch \in Belts => v = Belt(w, y, x, ch)
    BY <1>2 DEF FrameTile, Digits, Money, Pipe, Walkers, Belts
  <2>5. ch \in {"<", ">"} => v = Platform(w, y, x, ch)
    BY <1>2 DEF FrameTile, Digits, Money, Pipe, Walkers
  <2>6. ch \in Walkers => v = Walker(w, y, x, ch)
    BY <1>2 DEF FrameTile, Digits, Money, Pipe, Walkers
  <2> HIDE DEF v
  <2> QED BY <2>1, <2>2, <2>3, <2>4, <2>5, <2>6 DEF v
<1> QED BY <1>1, <1>2

\* A walker leaves the players where they are (Walker).
LEMMA WalkerCalm ==
    ASSUME NEW w \in Works, NEW y \in Rows, NEW x \in Cols, NEW ch \in Walkers
    PROVE  Walker(w, y, x, ch) \in Calm("I", w)
<1> DEFINE heavy == ch \in {"[", "]"}
           d == Ahead(ch)
           ahead == ProbeWalker(w, y, x + d, ch)
           below1 == IF ahead.blocked /\ heavy THEN ProbeWalker(ahead.w, y + 1, x, ch)
                     ELSE Answer(TRUE, ahead.w)
           below2 == IF heavy THEN ProbeWalker(below1.w, y + 1, x, ch)
                     ELSE Answer(TRUE, below1.w)
           v == Walker(w, y, x, ch)
           C == Calm("I", w)
<1>0. /\ y \in Int /\ x \in Int /\ y + 1 \in Int /\ d \in Int /\ x + d \in Int
  <2>1. d \in {-1, 1}
    BY DEF Ahead
  <2> QED BY <2>1, Around
<1>1. \A b, u : Answer(b, u).w = u
  BY DEF Answer
<1>2. \A u \in C : \A a, b \in Int : ProbeWalker(u, a, b, ch).w \in C
  BY WalkerAsks, CalmComposes
<1>3. w \in C
  BY CalmComposes
<1>4. v \in {w, Put(below1.w, y, x, Mirror[ch]), Put(Put(below2.w, y, x, Blank), y + 1, x, ch),
             Put(Put(below2.w, y, x, Blank), y, x + d, ch)}
  BY DEF Walker, Blank
<1>5. /\ Mirror[ch] \in Tiles /\ Mirror[ch] # "I"
      /\ ch \in Tiles /\ ch # "I"
      /\ Blank \in Tiles /\ Blank # "I"
  <2>1. \A t \in Walkers : Mirror[t] \in Walkers /\ t \in Tiles /\ t # "I"
    BY DEF Walkers, Mirror, Tiles
  <2> QED BY <2>1, Letters DEF Movables
<1> HIDE DEF heavy, d, v
<1>6. ahead.w \in C
  BY <1>0, <1>2, <1>3
<1> HIDE DEF ahead
<1>7. below1.w \in C
  BY <1>0, <1>1, <1>2, <1>6
<1> HIDE DEF below1
<1>8. below2.w \in C
  BY <1>0, <1>1, <1>2, <1>7
<1> HIDE DEF below2
<1>9. \A u \in C : \A a, b \in Int : \A t \in Tiles : t # "I" => Put(u, a, b, t) \in C
  <2> SUFFICES ASSUME NEW u \in C, NEW a \in Int, NEW b \in Int, NEW t \in Tiles, t # "I"
               PROVE  Put(u, a, b, t) \in C
    OBVIOUS
  <2>1. u \in Works
    BY CalmComposes
  <2>2. Put(u, a, b, t) \in Calm("I", u)
    BY <2>1, PutCalm
  <2> QED BY <2>2, CalmComposes
<1> HIDE DEF C
<1>10. Put(below1.w, y, x, Mirror[ch]) \in C
  BY <1>0, <1>5, <1>7, <1>9
<1>11. Put(below2.w, y, x, Blank) \in C
  BY <1>0, <1>5, <1>8, <1>9
<1>12. \A a, b \in Int : Put(Put(below2.w, y, x, Blank), a, b, ch) \in C
  BY <1>5, <1>9, <1>11
<1>13. v \in C
  BY <1>0, <1>3, <1>4, <1>10, <1>12
<1> QED BY <1>13 DEF v, C

\* A platform takes no player with it who does not stand on it (Platform).
LEMMA PlatformCalm ==
    ASSUME NEW w \in Works, NEW y \in Rows, NEW x \in Cols, NEW ch \in {"<", ">"},
           w.field[y][x] = ch, TileAt(w, y - 1, x) # "I"
    PROVE  Platform(w, y, x, ch) \in Calm("I", w)
<1> DEFINE d == Ahead(ch)
           a == Put(w, y, x, Blank)
           b == Put(a, y, x + d, ch)
<1>0. /\ y \in Int /\ x \in Int /\ d \in {-1, 1} /\ x + d \in Int
  <2>1. d \in {-1, 1}
    BY DEF Ahead
  <2> QED BY <2>1, Around
<1>1. Platform(w, y, x, ch) \in {w, Carry(b, y, x, d)}
  BY DEF Platform, Blank
<1> HIDE DEF d
<1>2. ch \in Tiles /\ ch # "I" /\ "I" # "O" /\ Blank \in Tiles /\ Blank # "I"
  <2>1. \A t \in {"<", ">"} : t \in Tiles /\ t # "I"
    BY DEF Tiles
  <2> QED BY <2>1, Letters DEF Movables
<1>3. a \in Calm("I", w)
  BY <1>0, <1>2, PutCalm
<1>4. a \in Works
  BY <1>3, CalmComposes
<1> HIDE DEF a
<1>5. b \in Calm("I", a)
  BY <1>0, <1>2, <1>4, PutCalm
<1> HIDE DEF b
<1>6. b \in Calm("I", w) /\ b \in Works /\ TileAt(b, y - 1, x) # "I"
  BY <1>3, <1>5, CalmComposes
<1>7. Carry(b, y, x, d) \in Calm("I", b)
  BY <1>0, <1>6, CarryDoes
<1>8. Carry(b, y, x, d) \in Calm("I", w) /\ w \in Calm("I", w)
  BY <1>6, <1>7, CalmComposes
<1> QED BY <1>1, <1>8 DEF d, a, b

\* The works in which no T is where none was, and the field may have lost boulders.
Quiet(T, w) ==
    {v \in Works :
       /\ v.keys = w.keys
       /\ \A y \in Rows, x \in Cols :
            /\ v.field[y][x] = w.field[y][x] \/ (w.field[y][x] = "O" /\ v.field[y][x] = Blank)
            /\ v.next[y][x] = T => w.next[y][x] = T}

\* What is calm is quiet.
LEMMA CalmQuiet ==
    ASSUME NEW T, NEW w \in Works
    PROVE  \A v \in Calm(T, w) : v \in Quiet(T, w)
  BY DEF Calm, Quiet

\* The works in which the boulder of a cell has dropped through a catch.
Dropped(w, y, x) ==
    {v \in Works :
       /\ v.field = w.field /\ v.keys = w.keys
       /\ TileAt(w, y + 1, x) = Hatch
       /\ w.next[y][x] = "O"
       /\ \A i \in Rows, j \in Cols :
            v.next[i][j] = IF i = y /\ j = x THEN Blank
                           ELSE IF i = y + 2 /\ j = x THEN "O" ELSE w.next[i][j]}

\* The works in which it has fallen.
Fallen(w, y, x) ==
    {v \in Works :
       /\ v.keys = w.keys
       /\ ~Occupied(w, y + 1, x)
       /\ \A i \in Rows, j \in Cols :
            /\ v.field[i][j] = IF i = y /\ j = x THEN Blank ELSE w.field[i][j]
            /\ v.next[i][j] = IF i = y /\ j = x THEN Blank
                              ELSE IF i = y + 1 /\ j = x THEN "O" ELSE w.next[i][j]}

\* Boulders (Boulder).
LEMMA BoulderDoes ==
    ASSUME NEW w \in Works, NEW y \in Rows, NEW x \in Cols, w.field[y][x] = "O"
    PROVE  LET v == Boulder(w, y, x)
           IN  /\ \A T \in {"I", Money} : v \in Quiet(T, w)
               /\ v \in Calm("O", w) \/ v \in Dropped(w, y, x) \/ v \in Fallen(w, y, x)
<1> DEFINE m(r) == Put(Put(w, y + r, x, "O"), y, x, Blank)
           f == [m(1) EXCEPT !.field[y][x] = Blank]
           b == Put(w, y, x, Blank)
           v == Boulder(w, y, x)
           drops == TileAt(w, y + 1, x) = Hatch /\ w.next[y][x] = "O"
<1>0. /\ y \in Int /\ x \in Int /\ y + 1 \in Int /\ y + 2 \in Int
      /\ "O" \in Tiles /\ "O" # Blank /\ Blank \in Tiles /\ Blank # "O"
      /\ \A T \in {"I", Money} : T # "O" /\ T # Blank /\ T \in Movables
  BY Around, Letters DEF Movables
<1>1. v = IF drops THEN IF y < ROWS - 2 THEN m(2) ELSE b
          ELSE IF ~Occupied(w, y + 1, x) THEN f ELSE w
  BY DEF Boulder, DropThrough, Move, Blank, Hatch
<1>2. ASSUME NEW r \in {1, 2}
      PROVE  /\ m(r) \in Works
             /\ m(r).field = w.field /\ m(r).keys = w.keys
             /\ \A i \in Rows, j \in Cols :
                  m(r).next[i][j] = IF i = y /\ j = x THEN Blank
                                    ELSE IF i = y + r /\ j = x THEN "O" ELSE w.next[i][j]
  <2> DEFINE a == Put(w, y + r, x, "O")
             n == Put(a, y, x, Blank)
  <2>0. y + r \in Int
    BY <1>0
  <2>1. Wrote(w, a, y + r, x, "O")
    BY <1>0, <2>0, PutWrites
  <2> HIDE DEF a
  <2>2. Wrote(a, n, y, x, Blank)
    BY <1>0, <2>1, PutWrites DEF Wrote
  <2> HIDE DEF n
  <2>3. /\ n \in Works
        /\ n.field = w.field /\ n.keys = w.keys
        /\ \A i \in Rows, j \in Cols :
             n.next[i][j] = IF i = y /\ j = x THEN Blank
                            ELSE IF i = y + r /\ j = x THEN "O" ELSE w.next[i][j]
    BY <2>1, <2>2 DEF Wrote
  <2> QED BY <2>3 DEF n, a
<1>3. Wrote(w, b, y, x, Blank)
  BY <1>0, PutWrites
<1>4. b \in Calm("O", w)
  BY <1>0, Finds, PutCalm DEF Inside
<1> HIDE DEF b
<1>5. /\ f \in Works /\ f.keys = w.keys /\ f.next = m(1).next
      /\ \A i \in Rows, j \in Cols : f.field[i][j] = IF i = y /\ j = x THEN Blank ELSE w.field[i][j]
  <2> DEFINE u == m(1)
  <2>1. u \in Works /\ u.field = w.field /\ u.keys = w.keys
    BY <1>2
  <2> HIDE DEF m
  <2>2. u.field \in [Rows -> [Cols -> Tiles]]
    BY <2>1 DEF Works, Fields
  <2>3. f = [u EXCEPT !.field = [u.field EXCEPT ![y] = [u.field[y] EXCEPT ![x] = Blank]]]
    BY DEF f
  <2> DEFINE g == [u.field EXCEPT ![y] = [u.field[y] EXCEPT ![x] = Blank]]
  <2>4. g \in Fields /\ \A i \in Rows, j \in Cols : g[i][j] = IF i = y /\ j = x THEN Blank ELSE w.field[i][j]
    BY <1>0, <2>1, <2>2 DEF Fields
  <2> HIDE DEF g, u, f
  <2>5. f = [u EXCEPT !.field = g]
    BY <2>3 DEF g
  <2>6. f \in Works /\ f.keys = u.keys /\ f.next = u.next /\ f.field = g
    BY <2>1, <2>4, <2>5 DEF Works
  <2> QED BY <2>1, <2>4, <2>6 DEF u
<1> HIDE DEF f, v
<1>6. CASE drops /\ y < ROWS - 2
  <2> DEFINE u == m(2)
  <2>0. u = v
    BY <1>1, <1>6
  <2>1. /\ u \in Works
        /\ u.field = w.field /\ u.keys = w.keys
        /\ \A i \in Rows, j \in Cols :
             u.next[i][j] = IF i = y /\ j = x THEN Blank
                            ELSE IF i = y + 2 /\ j = x THEN "O" ELSE w.next[i][j]
    BY <1>2
  <2> HIDE DEF u, m
  <2>2. \A T \in {"I", Money} : u \in Quiet(T, w)
    BY <1>0, <2>1 DEF Quiet
  <2>3. u \in Dropped(w, y, x)
    BY <1>6, <2>1 DEF Dropped
  <2> QED BY <2>0, <2>2, <2>3 DEF v
<1>7. CASE drops /\ ~(y < ROWS - 2)
  <2>1. v = b
    BY <1>1, <1>7
  <2>2. \A T \in {"I", Money} : b \in Quiet(T, w)
    BY <1>0, <1>3 DEF Quiet, Wrote
  <2> QED BY <1>4, <2>1, <2>2 DEF v
<1>8. CASE ~drops /\ ~Occupied(w, y + 1, x)
  <2>1. v = f
    BY <1>1, <1>8
  <2>2. \A i \in Rows, j \in Cols :
             f.next[i][j] = IF i = y /\ j = x THEN Blank
                            ELSE IF i = y + 1 /\ j = x THEN "O" ELSE w.next[i][j]
    <3> DEFINE u == m(1)
    <3>1. \A i \in Rows, j \in Cols :
             u.next[i][j] = IF i = y /\ j = x THEN Blank
                            ELSE IF i = y + 1 /\ j = x THEN "O" ELSE w.next[i][j]
      BY <1>2
    <3>2. f.next = u.next
      BY <1>5
    <3> HIDE DEF u, m
    <3> QED BY <3>1, <3>2
  <2>3. \A T \in {"I", Money} : f \in Quiet(T, w)
    BY <1>0, <1>5, <2>2 DEF Quiet
  <2>4. f \in Fallen(w, y, x)
    BY <1>5, <1>8, <2>2 DEF Fallen
  <2> QED BY <2>1, <2>3, <2>4 DEF v
<1>9. CASE ~drops /\ Occupied(w, y + 1, x)
  <2>1. v = w
    BY <1>1, <1>9
  <2>2. \A T : w \in Calm(T, w) /\ w \in Quiet(T, w)
    BY CalmComposes, CalmQuiet
  <2> QED BY <2>1, <2>2 DEF v
<1> QED BY <1>6, <1>7, <1>8, <1>9 DEF v

\* Coins fall, are taken, or stay (Coin).
LEMMA CoinDoes ==
    ASSUME NEW w \in Works, NEW y \in Rows, NEW x \in Cols, w.field[y][x] = Money
    PROVE  LET v == Coin(w, y, x)
           IN  /\ \A T \in {"I", "O"} : v \in Calm(T, w)
               /\ \/ v \in Calm(Money, w)
                  \/ v \in Ceded(Money, w, y, x) /\ TileAt(w, y + 1, x) \notin Belts
<1> DEFINE c == [w EXCEPT !.money = @ + 1]
           a == Put(c, y + 1, x, Money)
           m == Put(a, y, x, Blank)
           b == Put(c, y, x, Blank)
           v == Coin(w, y, x)
<1>0. /\ y \in Int /\ x \in Int /\ y + 1 \in Int
      /\ Money \in Tiles /\ Money # Blank /\ Blank \in Tiles /\ Money # "I" /\ Money # "O"
      /\ Blank # "I" /\ Blank # "O" /\ Blank \notin Belts
      /\ Money \in Movables /\ "I" \in Movables /\ "O" \in Movables
  BY Around, Letters DEF Movables
<1>1. v \in {b, c} \/ (v = m /\ ~Occupied(w, y + 1, x))
  BY DEF Coin, Move, Blank, Occupied
<1>2. \A T : c \in Calm(T, w)
  BY FlagsCalm
<1>3. c \in Works /\ c.field = w.field /\ c.keys = w.keys /\ c.next = w.next
  BY <1>2, CalmComposes DEF Works
<1> HIDE DEF c
<1>4. TileAt(c, y, x) = Money
  BY <1>3 DEF TileAt, Inside
<1>5. \A T \in Movables : b \in Calm(T, w)
  <2>1. \A T \in Movables : b \in Calm(T, c)
    BY <1>0, <1>3, <1>4, Letters, PutCalm
  <2> QED BY <1>2, <2>1, CalmComposes
<1>6. \A T \in {"I", "O"} : a \in Calm(T, c)
  BY <1>0, <1>3, PutCalm
<1>7. Wrote(c, a, y + 1, x, Money)
  BY <1>0, <1>3, PutWrites
<1> HIDE DEF a
<1>8. a \in Works /\ TileAt(a, y, x) = Money
  BY <1>3, <1>7 DEF Wrote, TileAt, Inside
<1>9. \A T \in {"I", "O"} : m \in Calm(T, w)
  <2>1. \A T \in {"I", "O"} : m \in Calm(T, a)
    BY <1>0, <1>8, PutCalm
  <2> HIDE DEF m
  <2>2. \A T \in {"I", "O"} : m \in Calm(T, c)
    BY <1>3, <1>6, <2>1, CalmComposes
  <2> QED BY <1>2, <2>2, CalmComposes
<1>10. Wrote(a, m, y, x, Blank)
  BY <1>0, <1>8, PutWrites
<1> HIDE DEF m, b, v
<1>11. \A i \in Rows, j \in Cols :
         m.next[i][j] = Money => \/ i = y + 1 /\ j = x
                                 \/ ~(i = y /\ j = x) /\ w.next[i][j] = Money
  BY <1>0, <1>3, <1>7, <1>10 DEF Wrote
<1>12. m \in Ceded(Money, w, y, x)
  BY <1>0, <1>3, <1>7, <1>10, <1>11 DEF Wrote, Ceded
<1>13. ~Occupied(w, y + 1, x) => TileAt(w, y + 1, x) \notin Belts
  BY <1>0, Finds
<1> QED BY <1>0, <1>1, <1>2, <1>5, <1>9, <1>12, <1>13 DEF v

\* Copiers copy no players, and fish nothing (process_frame_8).
LEMMA SlowCalm ==
    ASSUME NEW T \in Movables, NEW w \in Works, NEW y \in Rows, NEW x \in Cols,
           T = "I" \/ w.field[y][x] # "="
    PROVE  SlowTile(w, y, x) \in Calm(T, w)
<1> DEFINE ch == w.field[y][x]
           v  == SlowTile(w, y, x)
<1>0. y \in Int /\ x \in Int /\ y + 1 \in Int /\ w \in Calm(T, w) /\ TileAt(w, y, x) = ch
  BY Around, CalmComposes
<1>1. CASE ch = "="
  <2> DEFINE ob == TileAt(w, y - 1, x)
             p  == Probe(w, y + 1, x, ob)
             b  == Put(p.w, y + 1, x, ob)
  <2>1. v = Copier(w, y, x)
    BY <1>1 DEF SlowTile
  <2>2. Copier(w, y, x) \in {w, p.w} \/ (Copier(w, y, x) = b /\ ob \notin {Blank, "I", None})
    BY DEF Copier, Blank
  <2>3. p.w \in Calm("I", w)
    <3>1. Asked(w, y + 1, x, ob, p)
      BY <1>0, ProbeDoes
    <3> QED BY <3>1 DEF Asked
  <2> HIDE DEF p, v
  <2>4. ob \notin {Blank, "I", None} => ob \in Tiles /\ ob # "I"
    BY Finds
  <2> HIDE DEF ob
  <2>5. p.w \in Works
    BY <2>3, CalmComposes
  <2>6. ob \notin {Blank, "I", None} => b \in Calm("I", p.w)
    BY <1>0, <2>4, <2>5, PutCalm
  <2>7. ob \notin {Blank, "I", None} => b \in Calm("I", w)
    BY <2>3, <2>6, CalmComposes
  <2>8. T = "I"
    BY <1>1
  <2> QED BY <1>0, <2>1, <2>2, <2>3, <2>7, <2>8 DEF v
<1>2. CASE ch \in {"b", "d"}
  <2> DEFINE d == Ahead(ch)
             t == IF ch = "d" THEN "b" ELSE "d"
             a == Put(w, y, x, Blank)
             b == Put(a, y, x + d, ch)
  <2>1. v = Fish(w, y, x, ch)
    BY <1>2 DEF SlowTile
  <2>2. Fish(w, y, x, ch) \in {Put(w, y, x, t), b}
    BY DEF Fish, Blank
  <2>3. d \in Int /\ x + d \in Int
    <3>1. d \in {-1, 1}
      BY DEF Ahead
    <3> QED BY <1>0, <3>1
  <2>4. ch \in Tiles /\ ch # T /\ t \in Tiles /\ t # T /\ ch # Blank
    <3>1. \A s \in {"b", "d"} : s \in Tiles /\ \A U \in Movables : s # U
      BY DEF Tiles, Movables, Money
    <3>2. ch \in {"b", "d"} /\ t \in {"b", "d"}
      BY <1>2
    <3>3. \A s \in {"b", "d"} : s # Blank
      BY DEF Blank
    <3> HIDE DEF ch, t
    <3> QED BY <3>1, <3>2, <3>3
  <2> HIDE DEF d, t, v
  <2>5. Put(w, y, x, t) \in Calm(T, w)
    BY <1>0, <2>4, PutCalm
  <2>6. a \in Calm(T, w)
    BY <1>0, <2>4, Letters, PutCalm
  <2>7. a \in Works
    BY <2>6, CalmComposes
  <2> HIDE DEF a, ch
  <2>8. b \in Calm(T, a)
    BY <1>0, <2>3, <2>4, <2>7, PutCalm
  <2> HIDE DEF b
  <2>9. b \in Calm(T, w)
    BY <2>6, <2>8, CalmComposes
  <2> QED BY <2>1, <2>2, <2>5, <2>9 DEF v
<1>3. CASE ch # "=" /\ ch \notin {"b", "d"}
  <2>1. v = w
    BY <1>3 DEF SlowTile
  <2> QED BY <1>0, <2>1
<1> QED BY <1>1, <1>2, <1>3

\* Nothing in the field doubles a T.
Sober(T, w) ==
    \A y \in Rows, x \in Cols :
       /\ T = "I" => w.field[y][x] \notin {"<", ">"} \/ TileAt(w, y - 1, x) # "I"
       /\ T # "I" => w.field[y][x] \notin {"=", "<", ">"} \cup Walkers
       /\ T = "O" => w.field[y][x] # "A"

\* v is w after one step in which the T of a cell, or of the cell above it, may move.
Simple(T, w, y, x, v) ==
    \/ v \in Quiet(T, w)
    \/ w.field[y][x] = T /\ TileAt(w, y + 1, x) \notin Belts /\ v \in Ceded(T, w, y, x)
    \/ w.field[y][x] \in Belts /\ TileAt(w, y - 1, x) = T /\ v \in Ceded(T, w, y - 1, x)

\* What any tile does to players and coins, when nothing doubles them.
LEMMA TileSimple ==
    ASSUME NEW T \in {"I", Money}, NEW w \in Works, Sober(T, w), NEW y \in Rows, NEW x \in Cols
    PROVE  Simple(T, w, y, x, FrameTile(w, y, x))
<1> DEFINE ch == w.field[y][x]
           v  == FrameTile(w, y, x)
           Its(u) == v = u \/ \A U \in Movables : v \in Calm(U, w)
<1>0. /\ T \in Movables /\ T # "O" /\ "I" # Money
      /\ \A u \in Calm(T, w) : u \in Quiet(T, w)
      /\ y \in Int /\ x \in Int
  BY CalmQuiet, Letters, Around DEF Movables
<1>1. /\ ch = "O" => Its(Boulder(w, y, x))
      /\ ch = Money => Its(Coin(w, y, x))
      /\ ch = "I" => Its(Player(w, y, x))
      /\ ch \in Belts => v = Belt(w, y, x, ch)
      /\ ch \in {"<", ">"} => v = Platform(w, y, x, ch)
      /\ ch \in Walkers => Its(Walker(w, y, x, ch))
  BY Ruled
<1>2. CASE ch \notin {"O", Money, "I", "(", ")", "<", ">"} \cup Walkers
  <2>1. v \in Calm(T, w)
    BY <1>0, <1>2, RestCalm
  <2> HIDE DEF v
  <2> QED BY <1>0, <2>1 DEF Simple, v
<1>4. v \in Calm(T, w) => Simple(T, w, y, x, v)
  <2> HIDE DEF v
  <2> QED BY <1>0 DEF Simple
<1>5. CASE ch = "O"
  <2>1. Boulder(w, y, x) \in Quiet(T, w)
    BY <1>5, BoulderDoes
  <2>2. v \in Quiet(T, w)
    BY <1>0, <1>1, <1>5, <2>1
  <2> HIDE DEF v
  <2> QED BY <2>2 DEF Simple, v
<1>6. CASE ch = Money
  <2>1. CASE \A U \in Movables : v \in Calm(U, w)
    BY <1>0, <1>4, <2>1
  <2>2. CASE v = Coin(w, y, x)
    <3>1. /\ \A U \in {"I", "O"} : Coin(w, y, x) \in Calm(U, w)
          /\ \/ Coin(w, y, x) \in Calm(Money, w)
             \/ Coin(w, y, x) \in Ceded(Money, w, y, x) /\ TileAt(w, y + 1, x) \notin Belts
      BY <1>6, CoinDoes
    <3>2. v \in Calm(T, w) \/ (T = Money /\ v \in Ceded(Money, w, y, x) /\ TileAt(w, y + 1, x) \notin Belts)
      BY <2>2, <3>1
    <3> HIDE DEF v
    <3>3. Simple(T, w, y, x, v)
      BY <1>0, <1>6, <3>2 DEF Simple
    <3> QED BY <3>3 DEF v
  <2> HIDE DEF v
  <2> QED BY <1>1, <1>6, <2>1, <2>2 DEF v
<1>7. CASE ch = "I"
  <2>1. CASE \A U \in Movables : v \in Calm(U, w)
    BY <1>0, <1>4, <2>1
  <2>2. CASE v = Player(w, y, x)
    <3>1. v \in Went(w, y, x)
      BY <1>7, <2>2, PlayerGoes
    <3> HIDE DEF v
    <3>2. PICK u \in Prodded(w, y, x) :
            v \in Still(u) \/ (v \in Strides(u, y, x) /\ TileAt(w, y + 1, x) \notin Belts)
      BY <3>1 DEF Went
    <3>3. u \in Works /\ u \in Calm(T, w) /\ u.field = w.field /\ u.keys = w.keys
      BY <3>2, CalmComposes DEF Prodded
    <3>4. v \in Works
      BY <3>1 DEF Went
    <3>5. v \in Still(u) => v \in Calm(T, w)
      BY <1>0, <3>3, CalmComposes DEF Still
    <3>6. T = Money /\ v \in Strides(u, y, x) => v \in Calm(T, w)
      BY <3>3, CalmComposes DEF Strides
    <3>7. T = "I" /\ v \in Strides(u, y, x) => v \in Ceded(T, w, y, x)
      <4> SUFFICES ASSUME T = "I", v \in Strides(u, y, x) PROVE v \in Ceded("I", w, y, x)
        OBVIOUS
      <4>1. PICK ty, tx \in Int : \A i \in Rows, j \in Cols :
              v.next[i][j] = "I" => \/ i = ty /\ j = tx
                                    \/ ~(i = y /\ j = x) /\ u.next[i][j] = "I"
        BY DEF Strides
      <4>2. \A i \in Rows, j \in Cols : u.next[i][j] = "I" => w.next[i][j] = "I"
        BY <3>3 DEF Calm
      <4>3. v.field = w.field /\ v.keys = w.keys
        <5>1. v \in Calm("O", u)
          BY DEF Strides
        <5> QED BY <3>3, <5>1 DEF Calm
      <4> QED BY <3>4, <4>1, <4>2, <4>3 DEF Ceded
    <3>8. Simple(T, w, y, x, v)
      BY <1>0, <1>7, <3>2, <3>5, <3>6, <3>7 DEF Simple
    <3> QED BY <3>8 DEF v
  <2> HIDE DEF v
  <2> QED BY <1>1, <1>7, <2>1, <2>2 DEF v
<1>8. CASE ch \in Belts
  <2> DEFINE d == Ahead(ch)
             ob == TileAt(w, y - 1, x)
             c == Carry(w, y, x, d)
  <2>1. v = c
    BY <1>1, <1>8 DEF Belt
  <2>2. d \in {-1, 1}
    BY DEF Ahead
  <2>3. /\ ob # "I" => c \in Calm("I", w)
        /\ ob = "I" => c \in Calm("I", w) \/ c \in Ceded("I", w, y - 1, x)
        /\ ob \notin Walkers => c \in Calm(Money, w) \/ (ob = Money /\ c \in Ceded(Money, w, y - 1, x))
    <3> HIDE DEF d
    <3> QED BY <1>0, <2>2, CarryDoes
  <2>4. T = Money => ob \notin Walkers
    <3>1. None \notin Walkers
      BY DEF None, Walkers
    <3> QED BY <1>0, <3>1 DEF Sober, TileAt, Inside
  <2> HIDE DEF c, v, ob
  <2>5. v \in Calm(T, w) \/ (ob = T /\ v \in Ceded(T, w, y - 1, x))
    BY <2>1, <2>3, <2>4
  <2>6. Simple(T, w, y, x, v)
    BY <1>0, <1>8, <2>5 DEF Simple, ob
  <2> QED BY <2>6 DEF v
<1>9. CASE ch \in {"<", ">"}
  <2>1. T = "I" /\ TileAt(w, y - 1, x) # "I"
    BY <1>0, <1>9 DEF Sober
  <2>2. v \in Calm("I", w)
    BY <1>1, <1>9, <2>1, PlatformCalm
  <2> QED BY <1>4, <2>1, <2>2
<1>10. CASE ch \in Walkers
  <2>1. T = "I"
    BY <1>10 DEF Sober
  <2>2. v \in Calm("I", w)
    <3>1. Walker(w, y, x, ch) \in Calm("I", w)
      BY <1>10, WalkerCalm
    <3> QED BY <1>0, <1>1, <1>10, <2>1, <3>1
  <2> QED BY <1>4, <2>1, <2>2
<1> HIDE DEF ch
<1> QED BY <1>2, <1>5, <1>6, <1>7, <1>8, <1>9, <1>10 DEF Belts

\* When, in the course of a pass, the rule of one cell may push the boulder of another.
Timely(keys, y, x, i, j) ==
    /\ i - 1 <= y /\ y <= i + 1
    /\ y = i - 1 => j <= x
    /\ y = i + 1 => x <= j - KeyDir(keys)

\* v is w after one step in which the boulder of a cell, or of one about it, may move.
Rolls(w, y, x, v) ==
    \/ v \in Calm("O", w)
    \/ w.field[y][x] = "O" /\ (v \in Dropped(w, y, x) \/ v \in Fallen(w, y, x))
    \/ \E i \in Rows, j \in Cols : Timely(w.keys, y, x, i, j) /\ \E u \in Pushed(w, i, j) : v \in Calm("O", u)
    \/ /\ w.field[y][x] \in Belts /\ TileAt(w, y - 1, x) = "O"
       /\ \E d \in {-1, 1} : v \in Carried(w, y - 1, x, d)

\* What any tile does to boulders, when nothing doubles them.
LEMMA TileRolls ==
    ASSUME NEW w \in Works, Sober("O", w), NEW y \in Rows, NEW x \in Cols
    PROVE  Rolls(w, y, x, FrameTile(w, y, x))
<1> DEFINE ch == w.field[y][x]
           v  == FrameTile(w, y, x)
           Its(u) == v = u \/ \A U \in Movables : v \in Calm(U, w)
<1>0. "O" \in Movables /\ y \in Int /\ x \in Int /\ "O" # "I" /\ "I" # Blank
  BY Letters, Around DEF Movables
<1>1. /\ ch = "O" => Its(Boulder(w, y, x))
      /\ ch = Money => Its(Coin(w, y, x))
      /\ ch = "I" => Its(Player(w, y, x))
      /\ ch \in Belts => v = Belt(w, y, x, ch)
  BY Ruled
<1>2. v \in Calm("O", w) => Rolls(w, y, x, v)
  <2> HIDE DEF v
  <2> QED BY DEF Rolls
<1>3. CASE ch \notin {"O", Money, "I", "(", ")", "<", ">"} \cup Walkers
  <2>1. ch # "A"
    BY DEF Sober
  <2>2. v \in Calm("O", w)
    BY <1>0, <1>3, <2>1, RestCalm
  <2> QED BY <1>2, <2>2
<1>4. ch \notin {"<", ">"} \cup Walkers
  BY <1>0 DEF Sober
<1>5. CASE ch = "O"
  <2>1. CASE \A U \in Movables : v \in Calm(U, w)
    BY <1>0, <1>2, <2>1
  <2>2. CASE v = Boulder(w, y, x)
    <3> DEFINE b == Boulder(w, y, x)
    <3>1. b \in Calm("O", w) \/ b \in Dropped(w, y, x) \/ b \in Fallen(w, y, x)
      BY <1>5, BoulderDoes
    <3> HIDE DEF b, v
    <3>2. Rolls(w, y, x, b)
      BY <1>5, <3>1 DEF Rolls
    <3> QED BY <2>2, <3>2 DEF b, v
  <2> HIDE DEF v
  <2> QED BY <1>1, <1>5, <2>1, <2>2 DEF v
<1>6. CASE ch = Money
  <2>1. Coin(w, y, x) \in Calm("O", w)
    BY <1>6, CoinDoes
  <2>2. v \in Calm("O", w)
    <3> HIDE DEF v
    <3> QED BY <1>0, <1>1, <1>6, <2>1
  <2> QED BY <1>2, <2>2
<1>7. CASE ch = "I"
  <2>1. CASE \A U \in Movables : v \in Calm(U, w)
    BY <1>0, <1>2, <2>1
  <2>2. CASE v = Player(w, y, x)
    <3>1. v \in Went(w, y, x)
      BY <1>7, <2>2, PlayerGoes
    <3> HIDE DEF v
    <3>2. PICK u \in Prodded(w, y, x) :
            v \in Still(u) \/ (v \in Strides(u, y, x) /\ TileAt(w, y + 1, x) \notin Belts)
      BY <3>1 DEF Went
    <3>3. v \in Calm("O", u)
      BY <1>0, <3>2 DEF Still, Strides
    <3>4. CASE u \in Calm("O", w)
      <4>1. v \in Calm("O", w)
        BY <3>3, <3>4, CalmComposes
      <4> QED BY <1>2, <4>1 DEF v
    <3>5. CASE \E i \in Rows, j \in Cols : Near(w.keys, y, x, i, j) /\ u \in Pushed(w, i, j)
      <4>1. PICK i \in Rows, j \in Cols : Near(w.keys, y, x, i, j) /\ u \in Pushed(w, i, j)
        BY <3>5
      <4>2. Timely(w.keys, y, x, i, j)
        <5>1. KeyDir(w.keys) \in {-1, 0, 1} /\ i \in Int /\ j \in Int
          BY Around DEF KeyDir
        <5> QED BY <1>0, <4>1, <5>1 DEF Near, Timely
      <4>3. Rolls(w, y, x, v)
        BY <3>3, <4>1, <4>2 DEF Rolls
      <4> QED BY <4>3 DEF v
    <3> QED BY <3>2, <3>4, <3>5 DEF Prodded
  <2> HIDE DEF v
  <2> QED BY <1>1, <1>7, <2>1, <2>2 DEF v
<1>8. CASE ch \in Belts
  <2> DEFINE d == Ahead(ch)
             ob == TileAt(w, y - 1, x)
             c == Carry(w, y, x, d)
  <2>1. v = c
    BY <1>1, <1>8 DEF Belt
  <2>2. d \in {-1, 1}
    BY DEF Ahead
  <2>3. ob \notin Walkers
    <3>1. None \notin Walkers
      BY DEF None, Walkers
    <3> QED BY <1>0, <3>1 DEF Sober, TileAt, Inside
  <2>4. \/ c \in Calm("O", w)
        \/ ob = "O" /\ c \in Carried(w, y - 1, x, d)
        \/ ob = "I" /\ \E u \in Pushed(w, y - 1, x + d) : c \in Calm("O", u)
    <3> HIDE DEF d
    <3> QED BY <1>0, <2>2, <2>3, CarryDoes
  <2> HIDE DEF c, v, d
  <2>5. ASSUME ob = "I", NEW u \in Pushed(w, y - 1, x + d)
        PROVE  /\ y - 1 \in Rows /\ x + d \in Cols
               /\ Timely(w.keys, y, x, y - 1, x + d)
    <3>1. TileAt(w, y - 1, x + d) = "O" /\ KeyDir(w.keys) \in {-1, 1}
          /\ ~Occupied(w, y - 1, x + d + KeyDir(w.keys))
      BY DEF Pushed
    <3>2. y - 1 \in Rows /\ x + d \in Cols /\ Inside(y - 1, x) /\ w.field[y - 1][x] = "I"
      BY <2>5, <3>1, Finds, Letters DEF Inside, Movables
    <3>3. Occupied(w, y - 1, x)
      BY <1>0, <3>2, Finds
    <3>4. x + d + KeyDir(w.keys) # x
      BY <3>1, <3>3
    <3> QED BY <1>0, <2>2, <3>1, <3>2, <3>4 DEF Timely
  <2>6. Rolls(w, y, x, c)
    <3>1. CASE c \in Calm("O", w)
      BY <3>1 DEF Rolls
    <3>2. CASE ob = "O" /\ c \in Carried(w, y - 1, x, d)
      BY <1>8, <2>2, <3>2 DEF Rolls
    <3>3. CASE ob = "I" /\ \E u \in Pushed(w, y - 1, x + d) : c \in Calm("O", u)
      BY <2>5, <3>3 DEF Rolls
    <3> QED BY <2>4, <3>1, <3>2, <3>3
  <2> QED BY <2>1, <2>6 DEF v
<1> HIDE DEF ch, v
<1> QED BY <1>3, <1>4, <1>5, <1>6, <1>7, <1>8 DEF v, Belts

-----------------------------------------------------------------------------
(* What is doubled: where every tile goes in a pass. *)

\* The cells before (y, x) in the order of a pass.
Left(y, x, i, j) == i < y \/ (i = y /\ j < x)

\* A boulder of (i, j) is out of it: aside lies one on a cell that is free in the field,
\* and either what is below (i, j) has been visited, or the boulder was pushed.
Aside(w, y, x, i, j) ==
    \E e \in {-1, 1} :
       /\ Inside(i, j + e) /\ w.field[i][j + e] = Blank /\ w.next[i][j + e] # Blank
       /\ \/ Left(y, x, i + 1, j)
          \/ /\ e = KeyDir(w.keys)
             /\ Left(y, x, i - 1, j)
             /\ Inside(i, j - e) => w.field[i][j - e] = "I"
             /\ \/ Left(y, x, i, j)
                \/ w.field[i][j] = "O" /\ w.next[i][j] # "O" /\ Occupied(w, i + 1, j)

\* When a pass has come to (y, x), l may be where the only T is that (i, j) had.
Spot(T, w, y, x, i, j, l) ==
    \/ l = <<i, j>>
    \/ /\ T # "O"
       /\ Left(y, x, i, j)
       /\ TileAt(w, i + 1, j) \in Belts => Left(y, x, i + 1, j)
    \/ /\ T = "O"
       /\ \/ w.field[i][j] = Blank
          \/ Left(y, x, i, j) /\ TileAt(w, i + 1, j) = Hatch /\ l = <<i + 2, j>>
          \/ Aside(w, y, x, i, j)

\* P holds the cells that had a T when the tick began, and loc tells where it is.
Tracked(T, P, w, y, x, loc) ==
    /\ P \subseteq Rows \X Cols
    /\ loc \in [P -> Int \X Int]
    /\ \A i \in Rows, j \in Cols :
         /\ w.field[i][j] = T => <<i, j>> \in P
         /\ <<i, j>> \in P => \/ w.field[i][j] = T
                              \/ T = "O" /\ w.field[i][j] = Blank
         /\ w.next[i][j] = T => \E p \in P : loc[p] = <<i, j>>
         /\ <<i, j>> \in P => Spot(T, w, y, x, i, j, loc[<<i, j>>])

Track(T, P, w, y, x) == w \in Works /\ Sober(T, w) /\ \E loc : Tracked(T, P, w, y, x, loc)

\* A pass only goes on.
LEMMA LeftOn ==
    ASSUME NEW y \in Int, NEW x \in Int
    PROVE  /\ \A i, j \in Int : Left(y, x, i, j) => Left(y, x + 1, i, j)
           /\ Left(y, x + 1, y, x) /\ ~Left(y, x, y, x) /\ ~Left(y, x, y + 1, x)
           /\ Left(y, x + 1, y - 1, x) /\ Left(y, x, y - 1, x)
  BY DEF Left

\* In v there is no T but those of w, without the one of (i, j), and one at l.
Relieved(T, w, v, loc, i, j, l) ==
    \A a \in Rows, b \in Cols :
      v.next[a][b] = T => \/ <<a, b>> = l
                          \/ <<a, b>> # loc[<<i, j>>] /\ w.next[a][b] = T

\* With the place of one tile changed to l, every T is accounted for.
Replaces(T, P, v, loc, i, j, l) ==
    LET new == [loc EXCEPT ![<<i, j>>] = l]
    IN  /\ new \in [P -> Int \X Int]
        /\ new[<<i, j>>] = l
        /\ \A p \in P : p # <<i, j>> => new[p] = loc[p]
        /\ \A a \in Rows, b \in Cols : v.next[a][b] = T => \E p \in P : new[p] = <<a, b>>

\* Where one tile goes, the others stay.
LEMMA Moves ==
    ASSUME NEW T, NEW P, NEW w, NEW v, NEW y, NEW x, NEW loc, Tracked(T, P, w, y, x, loc),
           NEW i \in Rows, NEW j \in Cols, <<i, j>> \in P, NEW l \in Int \X Int,
           Relieved(T, w, v, loc, i, j, l)
    PROVE  Replaces(T, P, v, loc, i, j, l)
<1> DEFINE new == [loc EXCEPT ![<<i, j>>] = l]
           q == <<i, j>>
<1>0. \A a \in Rows, b \in Cols :
        v.next[a][b] = T => <<a, b>> = l \/ (<<a, b>> # loc[<<i, j>>] /\ w.next[a][b] = T)
  BY DEF Relieved
<1>1. loc \in [P -> Int \X Int]
  BY DEF Tracked
<1>2. /\ new \in [P -> Int \X Int]
      /\ new[q] = l
      /\ \A p \in P : p # q => new[p] = loc[p]
  BY <1>1
<1>3. \A a \in Rows, b \in Cols : w.next[a][b] = T => \E p \in P : loc[p] = <<a, b>>
  BY DEF Tracked
<1> HIDE DEF new, q
<1>4. ASSUME NEW a \in Rows, NEW b \in Cols, v.next[a][b] = T PROVE \E p \in P : new[p] = <<a, b>>
  <2>1. CASE <<a, b>> = l
    BY <1>2, <2>1 DEF q
  <2>2. CASE <<a, b>> # loc[q] /\ w.next[a][b] = T
    <3>1. PICK p \in P : loc[p] = <<a, b>>
      BY <1>3, <2>2
    <3>2. p # q
      BY <2>2, <3>1
    <3> QED BY <1>2, <3>1, <3>2
  <2> QED BY <1>0, <1>4, <2>1, <2>2 DEF q
<1> QED BY <1>2, <1>4 DEF new, q, Replaces

\* What is sober stays so when boulders go from the field.
LEMMA SoberStays ==
    ASSUME NEW T \in Movables, NEW w \in Works, NEW v \in Works, Sober(T, w),
           \A i \in Rows, j \in Cols :
             v.field[i][j] = w.field[i][j] \/ (w.field[i][j] = "O" /\ v.field[i][j] = Blank)
    PROVE  /\ Sober(T, v)
           /\ \A i, j : /\ TileAt(v, i, j) \in Belts <=> TileAt(w, i, j) \in Belts
                        /\ TileAt(v, i, j) = Hatch <=> TileAt(w, i, j) = Hatch
<1>0. /\ Blank \notin {"=", "<", ">"} \cup Walkers /\ Blank # "A" /\ Blank # "I"
      /\ Blank \notin Belts /\ "O" \notin Belts /\ Blank # Hatch /\ "O" # Hatch
      /\ "O" \notin {"=", "<", ">"} \cup Walkers /\ "O" # "A" /\ "O" # "I"
  <2>1. Blank # "I" /\ "O" # "I" /\ Blank \notin Belts /\ "O" \notin Belts /\ Blank # Hatch /\ "O" # Hatch
    BY Letters DEF Movables
  <2>2. Blank \notin {"=", "<", ">"} \cup Walkers /\ Blank # "A"
    BY DEF Blank, Walkers
  <2>3. "O" \notin {"=", "<", ">"} \cup Walkers /\ "O" # "A"
    BY DEF Walkers
  <2> QED BY <2>1, <2>2, <2>3
<1>1. \A i, j : TileAt(v, i, j) = TileAt(w, i, j) \/ (TileAt(w, i, j) = "O" /\ TileAt(v, i, j) = Blank)
  BY DEF TileAt, Inside
<1>2. Sober(T, v)
  BY <1>0, <1>1 DEF Sober
<1>3. \A i, j : /\ TileAt(v, i, j) \in Belts <=> TileAt(w, i, j) \in Belts
                /\ TileAt(v, i, j) = Hatch <=> TileAt(w, i, j) = Hatch
  BY <1>0, <1>1
<1> QED BY <1>2, <1>3

\* Players and coins are tracked through every step.
LEMMA TrackSimple ==
    ASSUME NEW T \in {"I", Money}, NEW P, NEW y \in Rows, NEW x \in Cols, NEW w, Track(T, P, w, y, x)
    PROVE  Track(T, P, FrameTile(w, y, x), y, x + 1)
<1> DEFINE v == FrameTile(w, y, x)
<1>0. w \in Works /\ Sober(T, w) /\ T \in Movables /\ T # "O" /\ T # Blank
  BY Letters DEF Track, Movables
<1>1. PICK loc : Tracked(T, P, w, y, x, loc)
  BY DEF Track
<1>2. Simple(T, w, y, x, v)
  BY <1>0, TileSimple
<1> SUFFICES Track(T, P, v, y, x + 1)
  OBVIOUS
<1> HIDE DEF v
<1>3. y \in Int /\ x \in Int /\ y - 1 \in Int
  BY <1>0, Around
<1>4. P \subseteq Rows \X Cols /\ loc \in [P -> Int \X Int]
  BY <1>1 DEF Tracked
<1>5. \A i \in Rows, j \in Cols : i \in Int /\ j \in Int /\ i + 1 \in Int
  BY <1>0, Around
<1>6. ASSUME v \in Works, NEW new \in [P -> Int \X Int],
             \A i \in Rows, j \in Cols :
               v.field[i][j] = w.field[i][j] \/ (w.field[i][j] = "O" /\ v.field[i][j] = Blank),
             \A i \in Rows, j \in Cols : v.next[i][j] = T => \E p \in P : new[p] = <<i, j>>,
             \A i \in Rows, j \in Cols : <<i, j>> \in P =>
               \/ new[<<i, j>>] = loc[<<i, j>>]
               \/ Left(y, x + 1, i, j) /\ (TileAt(w, i + 1, j) \in Belts => Left(y, x + 1, i + 1, j))
      PROVE  Track(T, P, v, y, x + 1)
  <2>1. Sober(T, v) /\ \A i, j : TileAt(v, i, j) \in Belts <=> TileAt(w, i, j) \in Belts
    BY <1>0, <1>6, SoberStays
  <2>2. ASSUME NEW i \in Rows, NEW j \in Cols
        PROVE  /\ v.field[i][j] = T => <<i, j>> \in P
               /\ <<i, j>> \in P => v.field[i][j] = T
    BY <1>0, <1>1, <1>6, <2>2 DEF Tracked
  <2>3. ASSUME NEW i \in Rows, NEW j \in Cols, <<i, j>> \in P
        PROVE  Spot(T, v, y, x + 1, i, j, new[<<i, j>>])
    <3>1. Spot(T, w, y, x, i, j, loc[<<i, j>>])
      BY <1>1, <2>3 DEF Tracked
    <3>2. CASE new[<<i, j>>] = loc[<<i, j>>]
      <4>1. \A a, b \in Int : Left(y, x, a, b) => Left(y, x + 1, a, b)
        BY <1>3, LeftOn
      <4> QED BY <1>0, <1>5, <2>1, <3>1, <3>2, <4>1 DEF Spot
    <3>3. CASE Left(y, x + 1, i, j) /\ (TileAt(w, i + 1, j) \in Belts => Left(y, x + 1, i + 1, j))
      BY <1>0, <2>1, <3>3 DEF Spot
    <3> QED BY <1>6, <2>3, <3>2, <3>3
  <2>4. Tracked(T, P, v, y, x + 1, new)
    BY <1>0, <1>4, <1>6, <2>2, <2>3 DEF Tracked
  <2> QED BY <1>6, <2>1, <2>4 DEF Track
<1>7. CASE v \in Quiet(T, w)
  <2>1. \A i \in Rows, j \in Cols : v.next[i][j] = T => \E p \in P : loc[p] = <<i, j>>
    BY <1>1, <1>7 DEF Quiet, Tracked
  <2> QED BY <1>4, <1>6, <1>7, <2>1 DEF Quiet
<1>8. ASSUME NEW i \in Rows, NEW j \in Cols, w.field[i][j] = T, v \in Ceded(T, w, i, j),
             loc[<<i, j>>] = <<i, j>>, Left(y, x + 1, i, j),
             TileAt(w, i + 1, j) \in Belts => Left(y, x + 1, i + 1, j)
      PROVE  Track(T, P, v, y, x + 1)
  <2>1. <<i, j>> \in P
    BY <1>1, <1>8 DEF Tracked
  <2>2. PICK ty, tx \in Int : \A a \in Rows, b \in Cols :
              v.next[a][b] = T => \/ a = ty /\ b = tx
                                  \/ ~(a = i /\ b = j) /\ w.next[a][b] = T
    BY <1>8 DEF Ceded
  <2> DEFINE l == <<ty, tx>>
             new == [loc EXCEPT ![<<i, j>>] = l]
  <2>3. Relieved(T, w, v, loc, i, j, l)
    BY <1>8, <2>2 DEF Relieved
  <2>4. l \in Int \X Int
    OBVIOUS
  <2> HIDE DEF l
  <2>5. /\ new \in [P -> Int \X Int]
        /\ new[<<i, j>>] = l
        /\ \A p \in P : p # <<i, j>> => new[p] = loc[p]
        /\ \A a \in Rows, b \in Cols : v.next[a][b] = T => \E p \in P : new[p] = <<a, b>>
    <3>1. Replaces(T, P, v, loc, i, j, l)
      BY <1>1, <2>1, <2>3, <2>4, Moves
    <3> QED BY <3>1 DEF Replaces
  <2> HIDE DEF new
  <2>6. v \in Works /\ v.field = w.field
    BY <1>8 DEF Ceded
  <2>7. \A a \in Rows, b \in Cols : <<a, b>> \in P =>
               \/ new[<<a, b>>] = loc[<<a, b>>]
               \/ Left(y, x + 1, a, b) /\ (TileAt(w, a + 1, b) \in Belts => Left(y, x + 1, a + 1, b))
    <3> SUFFICES ASSUME NEW a \in Rows, NEW b \in Cols, <<a, b>> \in P, new[<<a, b>>] # loc[<<a, b>>]
                 PROVE  Left(y, x + 1, a, b) /\ (TileAt(w, a + 1, b) \in Belts => Left(y, x + 1, a + 1, b))
      OBVIOUS
    <3>1. a = i /\ b = j
      BY <2>5
    <3> QED BY <1>8, <3>1
  <2> QED BY <1>6, <2>5, <2>6, <2>7
<1>9. CASE w.field[y][x] = T /\ TileAt(w, y + 1, x) \notin Belts /\ v \in Ceded(T, w, y, x)
  <2>1. ~Left(y, x, y, x) /\ Left(y, x + 1, y, x)
    BY <1>3, LeftOn
  <2>2. Spot(T, w, y, x, y, x, loc[<<y, x>>])
    BY <1>1, <1>9 DEF Tracked
  <2>3. loc[<<y, x>>] = <<y, x>>
    BY <1>0, <2>1, <2>2 DEF Spot
  <2> QED BY <1>8, <1>9, <2>1, <2>3
<1>10. CASE w.field[y][x] \in Belts /\ TileAt(w, y - 1, x) = T /\ v \in Ceded(T, w, y - 1, x)
  <2>1. y - 1 \in Rows /\ w.field[y - 1][x] = T
    BY <1>0, <1>10, Letters, Finds DEF Inside
  <2>2. (y - 1) + 1 = y /\ TileAt(w, y, x) = w.field[y][x]
    BY <1>0, <1>3, Around
  <2>3. ~Left(y, x, y, x) /\ Left(y, x + 1, y, x) /\ Left(y, x + 1, y - 1, x)
    BY <1>3, LeftOn
  <2>4. Spot(T, w, y, x, y - 1, x, loc[<<y - 1, x>>])
    BY <1>1, <2>1 DEF Tracked
  <2>5. loc[<<y - 1, x>>] = <<y - 1, x>>
    BY <1>0, <1>10, <2>2, <2>3, <2>4 DEF Spot
  <2> QED BY <1>8, <1>10, <2>1, <2>2, <2>3, <2>5
<1> QED BY <1>2, <1>7, <1>9, <1>10 DEF Simple

-----------------------------------------------------------------------------
(* What is doubled: where boulders go in a pass. *)

\* Of the field of w, v may lack boulders.
Shows(w, v) ==
    /\ v \in Works
    /\ v.keys = w.keys
    /\ \A i \in Rows, j \in Cols :
         v.field[i][j] = w.field[i][j] \/ (w.field[i][j] = "O" /\ v.field[i][j] = Blank)

\* What says that a boulder of (i, j) is aside still says so in v.
Undisturbed(w, v, y, x, i, j) ==
    /\ \A e \in {-1, 1} :
         /\ Inside(i, j + e) /\ w.field[i][j + e] = Blank /\ w.next[i][j + e] # Blank
         /\ Left(y, x, i + 1, j) \/ (e = KeyDir(w.keys) /\ Left(y, x, i - 1, j))
         => v.next[i][j + e] # Blank
    /\ /\ w.field[i][j] = "O" /\ w.next[i][j] # "O" /\ Occupied(w, i + 1, j)
       /\ ~Left(y, x, i, j) /\ Left(y, x, i - 1, j)
       => v.field[i][j] = "O" /\ v.next[i][j] # "O" /\ Occupied(v, i + 1, j)

\* A place that was possible stays possible as the pass goes on.
LEMMA SpotOn ==
    ASSUME NEW T, NEW w, NEW y, NEW x, NEW s, NEW r, NEW i \in Int, NEW j \in Int, NEW l,
           \A a, b \in Int : Left(y, x, a, b) => Left(s, r, a, b), Spot(T, w, y, x, i, j, l)
    PROVE  Spot(T, w, s, r, i, j, l)
<1>0. i + 1 \in Int /\ i - 1 \in Int
  OBVIOUS
<1>1. Aside(w, y, x, i, j) => Aside(w, s, r, i, j)
  BY <1>0 DEF Aside
<1> QED BY <1>0, <1>1 DEF Spot

\* What is tracked stays tracked as the pass goes on.
LEMMA TrackOn ==
    ASSUME NEW T, NEW P, NEW w, NEW y, NEW x, NEW s, NEW r,
           \A a, b \in Int : Left(y, x, a, b) => Left(s, r, a, b), Track(T, P, w, y, x)
    PROVE  Track(T, P, w, s, r)
<1>1. PICK loc : Tracked(T, P, w, y, x, loc)
  BY DEF Track
<1>2. \A i \in Rows, j \in Cols : i \in Int /\ j \in Int
  BY Numbers
<1>3. \A i \in Rows, j \in Cols : <<i, j>> \in P => Spot(T, w, s, r, i, j, loc[<<i, j>>])
  <2> SUFFICES ASSUME NEW i \in Rows, NEW j \in Cols, <<i, j>> \in P
               PROVE  Spot(T, w, s, r, i, j, loc[<<i, j>>])
    OBVIOUS
  <2> DEFINE l == loc[<<i, j>>]
  <2>1. Spot(T, w, y, x, i, j, l)
    BY <1>1 DEF Tracked
  <2> HIDE DEF l
  <2>2. Spot(T, w, s, r, i, j, l)
    BY <1>2, <2>1, SpotOn
  <2> QED BY <2>2 DEF l
<1>4. Tracked(T, P, w, s, r, loc)
  BY <1>1, <1>3 DEF Tracked
<1> QED BY <1>4 DEF Track

\* A place that was possible stays possible when nothing disturbs it.
LEMMA SpotKept ==
    ASSUME NEW w \in Works, NEW v, NEW y, NEW x, NEW i \in Rows, NEW j \in Cols, NEW l,
           Sober("O", w), Shows(w, v), Undisturbed(w, v, y, x, i, j), Spot("O", w, y, x, i, j, l)
    PROVE  Spot("O", v, y, x, i, j, l)
<1>0. "O" \in Movables /\ "O" # "I" /\ Blank # "O" /\ v \in Works /\ v.keys = w.keys
  BY Letters DEF Movables, Shows
<1>1. \A a, b : TileAt(v, a, b) = Hatch <=> TileAt(w, a, b) = Hatch
  BY <1>0, SoberStays DEF Shows
<1>2. w.field[i][j] = Blank => v.field[i][j] = Blank
  BY <1>0 DEF Shows
<1>3. Aside(w, y, x, i, j) => Aside(v, y, x, i, j)
  <2> SUFFICES ASSUME NEW e \in {-1, 1},
                      Inside(i, j + e), w.field[i][j + e] = Blank, w.next[i][j + e] # Blank,
                      \/ Left(y, x, i + 1, j)
                      \/ /\ e = KeyDir(w.keys)
                         /\ Left(y, x, i - 1, j)
                         /\ Inside(i, j - e) => w.field[i][j - e] = "I"
                         /\ \/ Left(y, x, i, j)
                            \/ w.field[i][j] = "O" /\ w.next[i][j] # "O" /\ Occupied(w, i + 1, j)
               PROVE  Aside(v, y, x, i, j)
    BY DEF Aside
  <2>1. v.field[i][j + e] = Blank
    BY <1>0 DEF Shows, Inside
  <2>2. v.next[i][j + e] # Blank
    BY DEF Undisturbed
  <2>3. Inside(i, j - e) /\ w.field[i][j - e] = "I" => v.field[i][j - e] = "I"
    BY <1>0 DEF Shows, Inside
  <2>4. CASE Left(y, x, i + 1, j)
    BY <2>1, <2>2, <2>4 DEF Aside
  <2>5. CASE /\ e = KeyDir(w.keys)
             /\ Left(y, x, i - 1, j)
             /\ Inside(i, j - e) => w.field[i][j - e] = "I"
             /\ Left(y, x, i, j)
    BY <1>0, <2>1, <2>2, <2>3, <2>5 DEF Aside
  <2>6. CASE /\ e = KeyDir(w.keys)
             /\ Left(y, x, i - 1, j)
             /\ Inside(i, j - e) => w.field[i][j - e] = "I"
             /\ ~Left(y, x, i, j)
             /\ w.field[i][j] = "O" /\ w.next[i][j] # "O" /\ Occupied(w, i + 1, j)
    <3>1. v.field[i][j] = "O" /\ v.next[i][j] # "O" /\ Occupied(v, i + 1, j)
      BY <2>6 DEF Undisturbed
    <3> QED BY <1>0, <2>1, <2>2, <2>3, <2>6, <3>1 DEF Aside
  <2> QED BY <2>4, <2>5, <2>6
<1> QED BY <1>0, <1>1, <1>2, <1>3 DEF Spot

\* The place of one boulder changes, and those of the others are undisturbed.
LEMMA Rerouted ==
    ASSUME NEW P, NEW w, NEW v, NEW y \in Rows, NEW x \in Cols, NEW loc,
           w \in Works, Sober("O", w), Tracked("O", P, w, y, x, loc), Shows(w, v),
           NEW i \in Rows, NEW j \in Cols, <<i, j>> \in P, NEW l \in Int \X Int,
           Relieved("O", w, v, loc, i, j, l),
           \A a \in Rows, b \in Cols : <<a, b>> # <<i, j>> => Undisturbed(w, v, y, x, a, b),
           Spot("O", v, y, x + 1, i, j, l)
    PROVE  Track("O", P, v, y, x + 1)
<1> DEFINE new == [loc EXCEPT ![<<i, j>>] = l]
<1>1. Replaces("O", P, v, loc, i, j, l)
  BY Moves
<1>2. /\ new \in [P -> Int \X Int]
      /\ new[<<i, j>>] = l
      /\ \A p \in P : p # <<i, j>> => new[p] = loc[p]
      /\ \A a \in Rows, b \in Cols : v.next[a][b] = "O" => \E p \in P : new[p] = <<a, b>>
  BY <1>1 DEF Replaces
<1> HIDE DEF new
<1>3. "O" \in Movables /\ Blank # "O" /\ v \in Works /\ y \in Int /\ x \in Int
      /\ \A a \in Rows, b \in Cols : a \in Int /\ b \in Int
  BY Letters, Numbers DEF Movables, Shows
<1>4. Sober("O", v)
  BY <1>3, SoberStays DEF Shows
<1>5. ASSUME NEW a \in Rows, NEW b \in Cols, <<a, b>> \in P
      PROVE  Spot("O", v, y, x + 1, a, b, new[<<a, b>>])
  <2>1. CASE <<a, b>> = <<i, j>>
    BY <1>2, <2>1
  <2>2. CASE <<a, b>> # <<i, j>>
    <3> DEFINE k == loc[<<a, b>>]
    <3>1. new[<<a, b>>] = k
      BY <1>2, <1>5, <2>2
    <3>2. Spot("O", w, y, x, a, b, k)
      BY <1>5 DEF Tracked
    <3> HIDE DEF k
    <3>3. Undisturbed(w, v, y, x, a, b)
      BY <2>2
    <3>4. Spot("O", v, y, x, a, b, k)
      BY <3>2, <3>3, SpotKept
    <3>5. \A s, r \in Int : Left(y, x, s, r) => Left(y, x + 1, s, r)
      BY <1>3, LeftOn
    <3>6. Spot("O", v, y, x + 1, a, b, k)
      BY <1>3, <3>4, <3>5, SpotOn
    <3> QED BY <3>1, <3>6
  <2> QED BY <2>1, <2>2
<1>6. ASSUME NEW a \in Rows, NEW b \in Cols
      PROVE  /\ v.field[a][b] = "O" => <<a, b>> \in P
             /\ <<a, b>> \in P => v.field[a][b] = "O" \/ v.field[a][b] = Blank
  <2>1. /\ w.field[a][b] = "O" => <<a, b>> \in P
        /\ <<a, b>> \in P => w.field[a][b] = "O" \/ w.field[a][b] = Blank
    BY DEF Tracked
  <2> QED BY <1>3, <2>1 DEF Shows
<1>7. P \subseteq Rows \X Cols
  BY DEF Tracked
<1>8. Tracked("O", P, v, y, x + 1, new)
  BY <1>2, <1>5, <1>6, <1>7 DEF Tracked
<1> QED BY <1>3, <1>4, <1>8 DEF Track

\* Calm steps leave the boulders where they are.
LEMMA TrackCalm ==
    ASSUME NEW P, NEW w, NEW y, NEW x, Track("O", P, w, y, x), NEW v \in Calm("O", w)
    PROVE  Track("O", P, v, y, x)
<1>1. PICK loc : Tracked("O", P, w, y, x, loc)
  BY DEF Track
<1>2. w \in Works /\ Sober("O", w) /\ "O" \in Movables /\ Blank # "O"
  BY Letters DEF Track, Movables
<1>3. Shows(w, v) /\ v \in Works /\ v.field = w.field
  BY <1>2 DEF Calm, Shows
<1>4. Sober("O", v)
  BY <1>2, <1>3, SoberStays DEF Shows
<1>5. ASSUME NEW i \in Rows, NEW j \in Cols PROVE Undisturbed(w, v, y, x, i, j)
  <2>1. \A a, b : Inside(a, b) => /\ v.next[a][b] = "O" => w.next[a][b] = "O"
                                  /\ w.field[a][b] = Blank /\ v.next[a][b] = Blank => w.next[a][b] = Blank
    BY DEF Calm, Inside
  <2>2. Inside(i, j)
    BY DEF Inside
  <2>3. \A a, b : Occupied(w, a, b) => Occupied(v, a, b)
    <3> SUFFICES ASSUME NEW a, NEW b, Occupied(w, a, b) PROVE Occupied(v, a, b)
      OBVIOUS
    <3>1. /\ Occupied(w, a, b) => ~Inside(a, b) \/ w.field[a][b] # Blank \/ w.next[a][b] # Blank
          /\ ~Inside(a, b) \/ v.field[a][b] # Blank \/ v.next[a][b] # Blank => Occupied(v, a, b)
      BY <1>2, <1>3, Finds
    <3> QED BY <1>3, <2>1, <3>1
  <2> QED BY <1>3, <2>1, <2>2, <2>3 DEF Undisturbed
<1>6. ASSUME NEW i \in Rows, NEW j \in Cols, <<i, j>> \in P
      PROVE  Spot("O", v, y, x, i, j, loc[<<i, j>>])
  <2> DEFINE l == loc[<<i, j>>]
  <2>1. Spot("O", w, y, x, i, j, l)
    BY <1>1, <1>6 DEF Tracked
  <2>2. Undisturbed(w, v, y, x, i, j)
    BY <1>5
  <2> HIDE DEF l
  <2>3. Spot("O", v, y, x, i, j, l)
    BY <1>2, <1>3, <2>1, <2>2, SpotKept
  <2> QED BY <2>3 DEF l
<1>7. Tracked("O", P, v, y, x, loc)
  BY <1>1, <1>3, <1>6 DEF Tracked, Calm
<1> QED BY <1>3, <1>4, <1>7 DEF Track

\* A boulder of the cell that is visited is where it was, unless it has been moved.
LEMMA OwnSpot ==
    ASSUME NEW P, NEW w \in Works, NEW y \in Rows, NEW x \in Cols, NEW loc, Tracked("O", P, w, y, x, loc),
           w.field[y][x] = "O", w.next[y][x] = "O" \/ ~Occupied(w, y + 1, x)
    PROVE  <<y, x>> \in P /\ loc[<<y, x>>] = <<y, x>>
<1>1. <<y, x>> \in P /\ Spot("O", w, y, x, y, x, loc[<<y, x>>])
  BY DEF Tracked
<1>2. y \in Int /\ x \in Int /\ Blank # "O"
  BY Numbers, Letters DEF Movables
<1>3. ~Left(y, x, y, x) /\ ~Left(y, x, y + 1, x)
  BY <1>2, LeftOn
<1>4. ~Aside(w, y, x, y, x)
  BY <1>3 DEF Aside
<1> QED BY <1>1, <1>2, <1>3, <1>4 DEF Spot

\* A boulder drops through a catch.
LEMMA TrackDropped ==
    ASSUME NEW P, NEW w, NEW y \in Rows, NEW x \in Cols, Track("O", P, w, y, x),
           w.field[y][x] = "O", NEW v \in Dropped(w, y, x)
    PROVE  Track("O", P, v, y, x + 1)
<1>1. PICK loc : Tracked("O", P, w, y, x, loc)
  BY DEF Track
<1>2. w \in Works /\ Sober("O", w) /\ Blank # "O" /\ y \in Int /\ x \in Int /\ y + 2 \in Int
  BY Letters, Numbers DEF Track, Movables
<1>3. /\ v \in Works /\ v.field = w.field /\ v.keys = w.keys
      /\ TileAt(w, y + 1, x) = Hatch
      /\ w.next[y][x] = "O"
      /\ \A i \in Rows, j \in Cols :
            v.next[i][j] = IF i = y /\ j = x THEN Blank
                           ELSE IF i = y + 2 /\ j = x THEN "O" ELSE w.next[i][j]
  BY DEF Dropped
<1>4. <<y, x>> \in P /\ loc[<<y, x>>] = <<y, x>>
  <2>1. w \in Works
    BY <1>2
  <2>2. w.next[y][x] = "O" \/ ~Occupied(w, y + 1, x)
    BY <1>3
  <2> QED BY <1>1, <2>1, <2>2, OwnSpot
<1>5. Shows(w, v)
  BY <1>3 DEF Shows
<1> DEFINE l == <<y + 2, x>>
<1>6. l \in Int \X Int
  BY <1>2
<1>7. Relieved("O", w, v, loc, y, x, l)
  BY <1>2, <1>3, <1>4 DEF Relieved
<1>8. Spot("O", v, y, x + 1, y, x, l)
  <2>1. Left(y, x + 1, y, x) /\ TileAt(v, y + 1, x) = Hatch
    BY <1>2, <1>3, LeftOn DEF TileAt
  <2> QED BY <2>1 DEF Spot
<1>9. ASSUME NEW a \in Rows, NEW b \in Cols, <<a, b>> # <<y, x>> PROVE Undisturbed(w, v, y, x, a, b)
  <2>0. a \in Int /\ b \in Int
    BY Numbers
  <2>1. \A i, j : Inside(i, j) /\ w.field[i][j] = Blank /\ w.next[i][j] # Blank => v.next[i][j] # Blank
    BY <1>2, <1>3 DEF Inside
  <2>2. \A i, j : Occupied(w, i, j) => Occupied(v, i, j)
    <3> SUFFICES ASSUME NEW i, NEW j, Occupied(w, i, j) PROVE Occupied(v, i, j)
      OBVIOUS
    <3>1. /\ Occupied(w, i, j) => ~Inside(i, j) \/ w.field[i][j] # Blank \/ w.next[i][j] # Blank
          /\ ~Inside(i, j) \/ v.field[i][j] # Blank \/ v.next[i][j] # Blank => Occupied(v, i, j)
      BY <1>2, <1>3, Finds
    <3> QED BY <1>3, <2>1, <3>1
  <2>3. Left(y, x, a - 1, b) => a # y + 2
    BY <1>2, <2>0 DEF Left
  <2>4. v.next[a][b] = "O" => w.next[a][b] = "O" \/ a = y + 2
    BY <1>3, <1>2
  <2> QED BY <1>3, <2>1, <2>2, <2>3, <2>4 DEF Undisturbed
<1> HIDE DEF l
<1> QED BY <1>1, <1>2, <1>4, <1>5, <1>6, <1>7, <1>8, <1>9, Rerouted

\* A boulder falls.
LEMMA TrackFallen ==
    ASSUME NEW P, NEW w, NEW y \in Rows, NEW x \in Cols, Track("O", P, w, y, x),
           w.field[y][x] = "O", NEW v \in Fallen(w, y, x)
    PROVE  Track("O", P, v, y, x + 1)
<1>1. PICK loc : Tracked("O", P, w, y, x, loc)
  BY DEF Track
<1>2. w \in Works /\ Sober("O", w) /\ Blank # "O" /\ y \in Int /\ x \in Int /\ y + 1 \in Int
  BY Letters, Numbers DEF Track, Movables
<1>3. /\ v \in Works /\ v.keys = w.keys
      /\ ~Occupied(w, y + 1, x)
      /\ \A i \in Rows, j \in Cols :
            /\ v.field[i][j] = IF i = y /\ j = x THEN Blank ELSE w.field[i][j]
            /\ v.next[i][j] = IF i = y /\ j = x THEN Blank
                              ELSE IF i = y + 1 /\ j = x THEN "O" ELSE w.next[i][j]
  BY DEF Fallen
<1>4. <<y, x>> \in P /\ loc[<<y, x>>] = <<y, x>>
  <2>1. w \in Works
    BY <1>2
  <2>2. w.next[y][x] = "O" \/ ~Occupied(w, y + 1, x)
    BY <1>3
  <2> QED BY <1>1, <2>1, <2>2, OwnSpot
<1>5. Shows(w, v)
  BY <1>3 DEF Shows
<1> DEFINE l == <<y + 1, x>>
<1>6. l \in Int \X Int
  BY <1>2
<1>7. Relieved("O", w, v, loc, y, x, l)
  BY <1>2, <1>3, <1>4 DEF Relieved
<1>8. Spot("O", v, y, x + 1, y, x, l)
  BY <1>3 DEF Spot
<1>9. ASSUME NEW a \in Rows, NEW b \in Cols, <<a, b>> # <<y, x>> PROVE Undisturbed(w, v, y, x, a, b)
  <2>0. a \in Int /\ b \in Int
    BY Numbers
  <2>1. \A i, j : Inside(i, j) /\ w.field[i][j] = Blank /\ w.next[i][j] # Blank => v.next[i][j] # Blank
    BY <1>2, <1>3 DEF Inside
  <2>2. \A i, j : Occupied(w, i, j) /\ ~(i = y /\ j = x) => Occupied(v, i, j)
    <3> SUFFICES ASSUME NEW i, NEW j, Occupied(w, i, j), ~(i = y /\ j = x) PROVE Occupied(v, i, j)
      OBVIOUS
    <3>1. /\ Occupied(w, i, j) => ~Inside(i, j) \/ w.field[i][j] # Blank \/ w.next[i][j] # Blank
          /\ ~Inside(i, j) \/ v.field[i][j] # Blank \/ v.next[i][j] # Blank => Occupied(v, i, j)
      BY <1>2, <1>3, Finds
    <3>2. Inside(i, j) => v.field[i][j] = w.field[i][j]
      BY <1>3 DEF Inside
    <3> QED BY <2>1, <3>1, <3>2
  <2>3. a + 1 = y /\ b = x => Left(y, x, a, b)
    BY <1>2, <2>0 DEF Left
  <2>4. w.field[a][b] = "O" => v.field[a][b] = "O"
    BY <1>3, <2>0, <1>9
  <2>5. w.field[a][b] = "O" /\ v.next[a][b] = "O" => w.next[a][b] = "O"
    <3>1. a = y + 1 /\ b = x => w.field[a][b] # "O"
      BY <1>2, <1>3, Finds DEF Inside
    <3> QED BY <1>2, <1>3, <3>1
  <2> QED BY <1>3, <2>1, <2>2, <2>3, <2>4, <2>5 DEF Undisturbed
<1> HIDE DEF l
<1> QED BY <1>1, <1>2, <1>4, <1>5, <1>6, <1>7, <1>8, <1>9, Rerouted

\* A boulder is carried aside.
LEMMA TrackCarried ==
    ASSUME NEW P, NEW w, NEW y \in Rows, NEW x \in Cols, Track("O", P, w, y, x),
           w.field[y][x] \in Belts, TileAt(w, y - 1, x) = "O",
           NEW d \in {-1, 1}, NEW v \in Carried(w, y - 1, x, d)
    PROVE  Track("O", P, v, y, x + 1)
<1>1. PICK loc : Tracked("O", P, w, y, x, loc)
  BY DEF Track
<1> DEFINE h == y - 1
<1>2. /\ w \in Works /\ Sober("O", w) /\ Blank # "O" /\ Blank # "I" /\ Hatch \notin Belts
      /\ y \in Int /\ x \in Int /\ h \in Int /\ h + 1 = y /\ x + d \in Int /\ x + d # x
  BY Letters, Numbers DEF Track, Movables
<1>3. h \in Rows /\ w.field[h][x] = "O"
  BY <1>2, Finds, Letters DEF Inside, Movables
<1> HIDE DEF h
<1>4. /\ v \in Works /\ v.field = w.field /\ v.keys = w.keys
      /\ ~Occupied(w, h, x + d)
      /\ \A i \in Rows, j \in Cols :
            v.next[i][j] = IF i = h /\ j = x + d THEN "O"
                           ELSE IF i = h /\ j = x THEN Blank
                           ELSE w.next[i][j]
  BY DEF Carried, h
<1>5. Inside(h, x + d) /\ w.field[h][x + d] = Blank /\ w.next[h][x + d] = Blank
  BY <1>2, <1>4, Finds
<1>6. TileAt(w, h + 1, x) = w.field[y][x]
  BY <1>2 DEF TileAt, Inside
<1>7. <<h, x>> \in P /\ loc[<<h, x>>] = <<h, x>>
  <2>1. <<h, x>> \in P /\ Spot("O", w, y, x, h, x, loc[<<h, x>>])
    BY <1>1, <1>3 DEF Tracked
  <2>2. ~Left(y, x, h + 1, x)
    BY <1>2, LeftOn
  <2>3. ~Aside(w, y, x, h, x)
    <3> SUFFICES ASSUME NEW e \in {-1, 1}, w.next[h][x + e] # Blank,
                        Inside(h, x - e) => w.field[h][x - e] = "I"
                 PROVE  FALSE
      BY <2>2 DEF Aside
    <3>1. e # d
      BY <1>5
    <3>2. x - e = x + d
      BY <1>2, <3>1
    <3> QED BY <1>2, <1>5, <3>2
  <2> QED BY <1>2, <1>3, <1>6, <2>1, <2>3 DEF Spot
<1>8. Shows(w, v)
  BY <1>4 DEF Shows
<1> DEFINE l == <<h, x + d>>
<1>9. l \in Int \X Int
  BY <1>2
<1>10. Relieved("O", w, v, loc, h, x, l)
  BY <1>2, <1>4, <1>7 DEF Relieved
<1>11. Spot("O", v, y, x + 1, h, x, l)
  <2>1. Left(y, x + 1, h + 1, x)
    BY <1>2, LeftOn
  <2>2. v.next[h][x + d] = "O"
    BY <1>4, <1>5 DEF Inside
  <2>3. Aside(v, y, x + 1, h, x)
    BY <1>2, <1>4, <1>5, <2>1, <2>2 DEF Aside
  <2> QED BY <2>3 DEF Spot
<1>12. ASSUME NEW a \in Rows, NEW b \in Cols, <<a, b>> # <<h, x>> PROVE Undisturbed(w, v, y, x, a, b)
  <2>1. \A i, j : Inside(i, j) /\ w.field[i][j] = Blank /\ w.next[i][j] # Blank => v.next[i][j] # Blank
    BY <1>2, <1>3, <1>4 DEF Inside
  <2>2. \A i, j : Occupied(w, i, j) => Occupied(v, i, j)
    <3> SUFFICES ASSUME NEW i, NEW j, Occupied(w, i, j) PROVE Occupied(v, i, j)
      OBVIOUS
    <3>1. /\ Occupied(w, i, j) => ~Inside(i, j) \/ w.field[i][j] # Blank \/ w.next[i][j] # Blank
          /\ ~Inside(i, j) \/ v.field[i][j] # Blank \/ v.next[i][j] # Blank => Occupied(v, i, j)
      BY <1>2, <1>4, Finds
    <3> QED BY <1>4, <2>1, <3>1
  <2>3. w.field[a][b] = "O" /\ v.next[a][b] = "O" => w.next[a][b] = "O"
    BY <1>2, <1>4, <1>5
  <2> QED BY <1>4, <2>1, <2>2, <2>3 DEF Undisturbed
<1> HIDE DEF l
<1> QED BY <1>1, <1>2, <1>3, <1>7, <1>8, <1>9, <1>10, <1>11, <1>12, Rerouted

\* A boulder is pushed aside, by the rule of a cell that may.
LEMMA TrackPushed ==
    ASSUME NEW P, NEW w, NEW y \in Rows, NEW x \in Cols, Track("O", P, w, y, x),
           NEW i \in Rows, NEW j \in Cols, Timely(w.keys, y, x, i, j), NEW v \in Pushed(w, i, j)
    PROVE  Track("O", P, v, y, x + 1)
<1>1. PICK loc : Tracked("O", P, w, y, x, loc)
  BY DEF Track
<1> DEFINE d == KeyDir(w.keys)
<1>2. /\ w \in Works /\ Sober("O", w) /\ Blank # "O" /\ Blank # "I" /\ Hatch # "O"
      /\ y \in Int /\ x \in Int /\ i \in Int /\ j \in Int
  BY Letters, Numbers DEF Track, Movables
<1>3. /\ v \in Works /\ v.field = w.field /\ v.keys = w.keys
      /\ d \in {-1, 1}
      /\ TileAt(w, i, j) = "O"
      /\ Occupied(w, i + 1, j)
      /\ ~Occupied(w, i, j + d)
      /\ Inside(i, j - d) => w.field[i][j - d] = "I"
      /\ \A a \in Rows, b \in Cols :
            v.next[a][b] = IF a = i /\ b = j + d THEN "O"
                           ELSE IF a = i /\ b = j THEN Blank
                           ELSE IF a = i + 2 /\ b = j /\ w.field[i + 1][j] = Hatch THEN Blank
                           ELSE w.next[a][b]
  BY DEF Pushed
<1>4. /\ i - 1 <= y /\ y <= i + 1
      /\ y = i - 1 => j <= x
      /\ y = i + 1 => x <= j - d
  BY DEF Timely
<1>5. KeyDir(v.keys) = d
  BY <1>3
<1>6. w.field[i][j] = "O"
  BY <1>3 DEF TileAt, Inside
<1>7. Inside(i, j + d) /\ w.field[i][j + d] = Blank /\ w.next[i][j + d] = Blank
  BY <1>2, <1>3, Finds
<1>8. <<i, j>> \in P /\ Spot("O", w, y, x, i, j, loc[<<i, j>>])
  BY <1>1, <1>6 DEF Tracked
<1>9. ~Aside(w, y, x, i, j)
  <2> SUFFICES ASSUME NEW e \in {-1, 1}, Inside(i, j + e), w.field[i][j + e] = Blank, w.next[i][j + e] # Blank
               PROVE  FALSE
    BY DEF Aside
  <2>1. e # d
    BY <1>7
  <2>2. j + e = j - d
    BY <1>2, <1>3, <2>1
  <2> QED BY <1>2, <1>3, <2>2
<1> HIDE DEF d
<1>10. \/ loc[<<i, j>>] = <<i, j>>
       \/ w.field[i + 1][j] = Hatch /\ loc[<<i, j>>] = <<i + 2, j>>
  <2>1. TileAt(w, i + 1, j) = Hatch => w.field[i + 1][j] = Hatch
    <3>1. TileAt(w, i + 1, j) = Hatch => Inside(i + 1, j)
      BY <1>2, Finds, Letters
    <3> QED BY <3>1 DEF TileAt
  <2> QED BY <1>2, <1>6, <1>8, <1>9, <2>1 DEF Spot
<1>11. Shows(w, v)
  BY <1>3 DEF Shows
<1> DEFINE l == <<i, j + d>>
<1>12. l \in Int \X Int /\ j + d \in Int /\ j + d # j
  BY <1>2, <1>3
<1>13. Relieved("O", w, v, loc, i, j, l)
  <2> SUFFICES ASSUME NEW a \in Rows, NEW b \in Cols, v.next[a][b] = "O", ~(a = i /\ b = j + d)
               PROVE  <<a, b>> # loc[<<i, j>>] /\ w.next[a][b] = "O"
    BY DEF Relieved
  <2>1. /\ ~(a = i /\ b = j)
        /\ ~(a = i + 2 /\ b = j /\ w.field[i + 1][j] = Hatch)
        /\ w.next[a][b] = "O"
    BY <1>2, <1>3
  <2> QED BY <1>10, <2>1
<1>14. Spot("O", v, y, x + 1, i, j, l)
  <2>1. Left(y, x + 1, i - 1, j)
    BY <1>2, <1>4 DEF Left
  <2>2. v.next[i][j + d] = "O" /\ v.next[i][j] = Blank
    BY <1>2, <1>3, <1>7, <1>12 DEF Inside
  <2>3. Occupied(v, i + 1, j)
    <3>1. ~Inside(i + 1, j) \/ w.field[i + 1][j] # Blank \/ w.next[i + 1][j] # Blank
      BY <1>2, <1>3, Finds
    <3>2. Inside(i + 1, j) => v.next[i + 1][j] = w.next[i + 1][j]
      BY <1>2, <1>3 DEF Inside
    <3>3. ~Inside(i + 1, j) \/ v.field[i + 1][j] # Blank \/ v.next[i + 1][j] # Blank
      BY <1>3, <3>1, <3>2
    <3> QED BY <1>3, <3>3, Finds
  <2>4. Aside(v, y, x + 1, i, j)
    BY <1>2, <1>3, <1>5, <1>6, <1>7, <2>1, <2>2, <2>3 DEF Aside
  <2> QED BY <2>4 DEF Spot
<1>15. ASSUME NEW a \in Rows, NEW b \in Cols, <<a, b>> # <<i, j>> PROVE Undisturbed(w, v, y, x, a, b)
  <2>0. a \in Int /\ b \in Int
    BY Numbers
  <2>1. ASSUME NEW e \in {-1, 1},
               Inside(a, b + e), w.field[a][b + e] = Blank, w.next[a][b + e] # Blank,
               Left(y, x, a + 1, b) \/ (e = d /\ Left(y, x, a - 1, b))
        PROVE  v.next[a][b + e] # Blank
    <3>1. ~(a = i /\ b + e = j)
      BY <1>2, <1>6, <2>1
    <3>2. ~(a = i + 2 /\ b + e = j)
      BY <1>2, <1>3, <1>4, <2>0, <2>1 DEF Left
    <3> QED BY <1>2, <1>3, <2>1, <3>1, <3>2 DEF Inside
  <2>2. ASSUME w.field[a][b] = "O", Occupied(w, a + 1, b) PROVE Occupied(v, a + 1, b)
    <3>1. ~Inside(a + 1, b) \/ w.field[a + 1][b] # Blank \/ w.next[a + 1][b] # Blank
      BY <1>2, <2>2, Finds
    <3>2. a + 1 = i + 2 /\ b = j => w.field[i + 1][j] # Hatch
      <4>1. a + 1 = i + 2 => a = i + 1
        BY <1>2, <2>0
      <4> QED BY <1>2, <2>2, <4>1
    <3>3. a + 1 = i /\ b = j => w.field[a + 1][b] # Blank
      BY <1>2, <1>6
    <3>4. ~Inside(a + 1, b) \/ v.field[a + 1][b] # Blank \/ v.next[a + 1][b] # Blank
      BY <1>2, <1>3, <3>1, <3>2, <3>3 DEF Inside
    <3> QED BY <1>3, <3>4, Finds
  <2>3. w.field[a][b] = "O" /\ v.next[a][b] = "O" => w.next[a][b] = "O"
    BY <1>2, <1>3, <1>7
  <2> QED BY <1>3, <2>1, <2>2, <2>3 DEF Undisturbed, d
<1> HIDE DEF l
<1> QED BY <1>1, <1>2, <1>8, <1>11, <1>12, <1>13, <1>14, <1>15, Rerouted

\* Boulders are tracked through every step.
LEMMA TrackRolls ==
    ASSUME NEW P, NEW y \in Rows, NEW x \in Cols, NEW w, Track("O", P, w, y, x)
    PROVE  Track("O", P, FrameTile(w, y, x), y, x + 1)
<1> DEFINE v == FrameTile(w, y, x)
<1>1. w \in Works /\ Sober("O", w) /\ y \in Int /\ x \in Int
  BY Numbers DEF Track
<1>2. Rolls(w, y, x, v)
  BY <1>1, TileRolls
<1> SUFFICES Track("O", P, v, y, x + 1)
  OBVIOUS
<1> HIDE DEF v
<1>3. ASSUME v \in Calm("O", w) PROVE Track("O", P, v, y, x + 1)
  <2>1. Track("O", P, v, y, x)
    BY <1>3, TrackCalm
  <2>2. \A a, b \in Int : Left(y, x, a, b) => Left(y, x + 1, a, b)
    BY <1>1, LeftOn
  <2> QED BY <2>1, <2>2, TrackOn
<1>4. CASE w.field[y][x] = "O" /\ (v \in Dropped(w, y, x) \/ v \in Fallen(w, y, x))
  BY <1>4, TrackDropped, TrackFallen
<1>5. CASE \E i \in Rows, j \in Cols : Timely(w.keys, y, x, i, j) /\ \E u \in Pushed(w, i, j) : v \in Calm("O", u)
  <2>1. PICK i \in Rows, j \in Cols : Timely(w.keys, y, x, i, j) /\ \E u \in Pushed(w, i, j) : v \in Calm("O", u)
    BY <1>5
  <2>2. PICK u \in Pushed(w, i, j) : v \in Calm("O", u)
    BY <2>1
  <2>3. Track("O", P, u, y, x + 1)
    BY <2>1, TrackPushed
  <2> QED BY <2>2, <2>3, TrackCalm
<1>6. CASE /\ w.field[y][x] \in Belts /\ TileAt(w, y - 1, x) = "O"
           /\ \E d \in {-1, 1} : v \in Carried(w, y - 1, x, d)
  BY <1>6, TrackCarried
<1> QED BY <1>2, <1>3, <1>4, <1>5, <1>6 DEF Rolls

-----------------------------------------------------------------------------
(* What is doubled: passes and ticks. *)

\* The cell after a cell.
LEMMA Following ==
    ASSUME NEW C \in Nat \ {0}, NEW n \in Nat \ {0}
    PROVE  /\ (n - 1) \div C \in Int /\ (n - 1) % C \in Int
           /\ \A a, b \in Int : Left((n - 1) \div C, ((n - 1) % C) + 1, a, b) => Left(n \div C, n % C, a, b)
<1> DEFINE y == (n - 1) \div C
           x == (n - 1) % C
<1>1. n - 1 \in Nat
  OBVIOUS
<1>2. y \in Nat /\ x \in 0 .. C - 1 /\ n - 1 = C * y + x
  BY <1>1
<1> HIDE DEF y, x
<1>3. CASE x + 1 < C
  <2>1. \A r \in 0 .. C - 1 : (C * y + r) \div C = y /\ (C * y + r) % C = r
    BY <1>2
  <2>2. n = C * y + (x + 1)
    BY <1>2
  <2>3. n \div C = y /\ n % C = x + 1
    BY <1>2, <1>3, <2>1, <2>2
  <2> QED BY <1>2, <2>3 DEF y, x
<1>4. CASE x + 1 = C
  <2>1. \A z \in Nat : (C * z + 0) \div C = z /\ (C * z + 0) % C = 0
    OBVIOUS
  <2>2. n = C * (y + 1) + 0
    <3>1. C * (y + 1) = C * y + C
      BY <1>2
    <3> QED BY <1>2, <1>4, <3>1
  <2>3. n \div C = y + 1 /\ n % C = 0
    BY <1>2, <2>1, <2>2
  <2>4. \A a, b \in Int : Left(y, x + 1, a, b) => Left(y + 1, 0, a, b)
    BY <1>2 DEF Left
  <2> QED BY <1>2, <2>3, <2>4 DEF y, x
<1> QED BY <1>2, <1>3, <1>4

\* The first pass tracks every T to its end.
LEMMA PassTracks ==
    ASSUME NEW T \in Movables, NEW P, NEW w, Track(T, P, w, 0, 0)
    PROVE  \E y, x : Track(T, P, Pass(FrameTile, w), y, x)
<1> DEFINE last == ROWS * COLUMNS
           Y(n) == (n - 1) \div COLUMNS
           X(n) == (n - 1) % COLUMNS
           So(n) == {u \in Works : Track(T, P, u, n \div COLUMNS, n % COLUMNS)}
           W == [n \in 0 .. last |-> So(n)]
           F == [n \in 0 .. last |-> [u \in Works |-> FrameTile(u, Y(n), X(n))]]
           Eq(g) == g = [n \in 0 .. last |-> IF n = 0 THEN w ELSE FrameTile(g[n - 1], Y(n), X(n))]
           upTo == CHOOSE g : Eq(g)
<1>0. last \in Nat
  BY SizeAssumption
<1>1. \A n \in 1 .. last : Y(n) \in Rows /\ X(n) \in Cols
  <2>1. ASSUME NEW n \in 1 .. last PROVE n - 1 \in 0 .. last - 1
    BY <1>0
  <2>2. \A m \in 0 .. last - 1 : m \div COLUMNS \in Rows /\ m % COLUMNS \in Cols
    BY Cells
  <2> QED BY <2>1, <2>2
<1>2. ASSUME NEW n \in 1 .. last, NEW u \in So(n - 1) PROVE FrameTile(u, Y(n), X(n)) \in So(n)
  <2> DEFINE v == FrameTile(u, Y(n), X(n))
             y == Y(n)
             x == X(n)
  <2>1. Track(T, P, u, y, x)
    OBVIOUS
  <2>2. y \in Rows /\ x \in Cols
    BY <1>1
  <2>3. COLUMNS \in Nat \ {0} /\ n \in Nat \ {0}
    BY <1>0, SizeAssumption
  <2>4. \A a, b \in Int : Left(y, x + 1, a, b) => Left(n \div COLUMNS, n % COLUMNS, a, b)
    BY <2>3, Following
  <2> HIDE DEF y, x
  <2>5. Track(T, P, FrameTile(u, y, x), y, x + 1)
    BY <2>1, <2>2, TrackSimple, TrackRolls DEF Movables
  <2>6. Track(T, P, FrameTile(u, y, x), n \div COLUMNS, n % COLUMNS)
    BY <2>4, <2>5, TrackOn
  <2> QED BY <2>6 DEF y, x, Track
<1>3. w \in So(0)
  <2>1. 0 \div COLUMNS = 0 /\ 0 % COLUMNS = 0
    BY SizeAssumption
  <2> QED BY <2>1 DEF Track
<1>8. \A n : \A u \in So(n) : u \in Works
  OBVIOUS
<1> HIDE DEF Y, X, So
<1>4. PICK g : Eq(g) /\ \A n \in 0 .. last : g[n] \in So(n)
  <2>1. \A i \in 1 .. last : \A u \in W[i - 1] : F[i][u] \in W[i]
    <3> SUFFICES ASSUME NEW i \in 1 .. last, NEW u \in W[i - 1] PROVE F[i][u] \in W[i]
      OBVIOUS
    <3>1. i \in 0 .. last /\ i - 1 \in 0 .. last
      BY <1>0
    <3>2. u \in So(i - 1) /\ u \in Works
      BY <1>8, <3>1
    <3> QED BY <1>2, <3>1, <3>2
  <2>2. \A i \in 0 + 1 .. last : \A u \in W[i - 1] : F[i][u] \in W[i]
    <3>1. 0 + 1 = 1
      OBVIOUS
    <3> HIDE DEF W, F, last
    <3> QED BY <2>1, <3>1
  <2>6. 0 \in Int /\ last \in Int /\ 0 <= last /\ w \in W[0]
    BY <1>0, <1>3
  <2> HIDE DEF W, F, last
  <2>7. PICK g : Recurses(g, 0, last, w, F, W)
    BY <2>2, <2>6, RecursionExists, Zenon
  <2>3. /\ g = [i \in 0 .. last |-> IF i = 0 THEN w ELSE F[i][g[i - 1]]]
        /\ \A i \in 0 .. last : g[i] \in W[i]
    BY <2>7 DEF Recurses
  <2>4. ASSUME NEW i \in 0 .. last, i # 0 PROVE F[i][g[i - 1]] = FrameTile(g[i - 1], Y(i), X(i))
    <3>1. i - 1 \in 0 .. last
      BY <1>0, <2>4
    <3>2. g[i - 1] \in Works
      BY <1>8, <2>3, <3>1 DEF W
    <3> QED BY <3>2 DEF F
  <2>5. Eq(g)
    BY <2>3, <2>4
  <2> QED BY <2>3, <2>5 DEF W
<1>5. Eq(upTo)
  <2> HIDE DEF Eq
  <2> QED BY <1>4
<1>6. Pass(FrameTile, w) = upTo[last]
  BY DEF Pass, Y, X
<1> HIDE DEF upTo
<1>7. \A n \in 0 .. last : upTo[n] \in So(n)
  <2> DEFINE S == {n \in 0 .. last : upTo[n] \in So(n)}
  <2>1. 0 \in S
    BY <1>0, <1>3, <1>5
  <2>2. ASSUME NEW n \in 0 + 1 .. last, n - 1 \in S PROVE n \in S
    <3>1. n \in 1 .. last /\ n \in 0 .. last /\ n - 1 \in 0 .. last /\ n # 0
      BY <1>0
    <3>2. upTo[n] = FrameTile(upTo[n - 1], Y(n), X(n))
      BY <1>5, <3>1
    <3> QED BY <1>2, <2>2, <3>1, <3>2
  <2>4. 0 \in Int /\ last \in Int
    BY <1>0
  <2>5. \A n \in 0 + 1 .. last : n - 1 \in S => n \in S
    BY <2>2
  <2> HIDE DEF S, last
  <2>3. \A n \in 0 .. last : n \in S
    BY <2>1, <2>4, <2>5, IntervalInduction, Zenon
  <2> QED BY <2>3 DEF S
<1>9. upTo[last] \in So(last)
  BY <1>0, <1>7
<1> QED BY <1>6, <1>9 DEF So

\* The second pass makes no T, unless there is something to copy boulders or coins.
LEMMA PassCalm ==
    ASSUME NEW T \in Movables, NEW w \in Works,
           T = "I" \/ \A i \in Rows, j \in Cols : w.field[i][j] # "="
    PROVE  Pass(SlowTile, w) \in Calm(T, w)
<1> DEFINE last == ROWS * COLUMNS
           Y(n) == (n - 1) \div COLUMNS
           X(n) == (n - 1) % COLUMNS
           C == Calm(T, w)
           W == [n \in 0 .. last |-> C]
           F == [n \in 0 .. last |-> [u \in C |-> SlowTile(u, Y(n), X(n))]]
           Eq(g) == g = [n \in 0 .. last |-> IF n = 0 THEN w ELSE SlowTile(g[n - 1], Y(n), X(n))]
           upTo == CHOOSE g : Eq(g)
<1>0. last \in Nat
  BY SizeAssumption
<1>1. \A n \in 1 .. last : Y(n) \in Rows /\ X(n) \in Cols
  <2>1. ASSUME NEW n \in 1 .. last PROVE n - 1 \in 0 .. last - 1
    BY <1>0
  <2>2. \A m \in 0 .. last - 1 : m \div COLUMNS \in Rows /\ m % COLUMNS \in Cols
    BY Cells
  <2> QED BY <2>1, <2>2
<1> HIDE DEF Y, X
<1>2. ASSUME NEW n \in 1 .. last, NEW u \in C PROVE SlowTile(u, Y(n), X(n)) \in C
  <2>1. u \in Works /\ u.field = w.field
    BY CalmComposes
  <2>2. Y(n) \in Rows /\ X(n) \in Cols
    BY <1>1
  <2>3. SlowTile(u, Y(n), X(n)) \in Calm(T, u)
    BY <2>1, <2>2, SlowCalm
  <2> QED BY <2>3, CalmComposes
<1>8. w \in C
  BY CalmComposes
<1> HIDE DEF C
<1>3. PICK g : Eq(g)
  <2>1. \A i \in 1 .. last : \A u \in W[i - 1] : F[i][u] \in W[i]
    <3> SUFFICES ASSUME NEW i \in 1 .. last, NEW u \in W[i - 1] PROVE F[i][u] \in W[i]
      OBVIOUS
    <3>1. i \in 0 .. last /\ i - 1 \in 0 .. last
      BY <1>0
    <3>2. u \in C
      BY <3>1
    <3> QED BY <1>2, <3>1, <3>2
  <2>2. \A i \in 0 + 1 .. last : \A u \in W[i - 1] : F[i][u] \in W[i]
    <3>1. 0 + 1 = 1
      OBVIOUS
    <3> HIDE DEF W, F, last
    <3> QED BY <2>1, <3>1
  <2>6. 0 \in Int /\ last \in Int /\ 0 <= last /\ w \in W[0]
    BY <1>0, <1>8
  <2> HIDE DEF W, F, last
  <2>7. PICK g : Recurses(g, 0, last, w, F, W)
    BY <2>2, <2>6, RecursionExists, Zenon
  <2>3. /\ g = [i \in 0 .. last |-> IF i = 0 THEN w ELSE F[i][g[i - 1]]]
        /\ \A i \in 0 .. last : g[i] \in W[i]
    BY <2>7 DEF Recurses
  <2>4. ASSUME NEW i \in 0 .. last, i # 0 PROVE F[i][g[i - 1]] = SlowTile(g[i - 1], Y(i), X(i))
    <3>1. i - 1 \in 0 .. last
      BY <1>0, <2>4
    <3>2. g[i - 1] \in C
      BY <2>3, <3>1 DEF W
    <3> QED BY <3>2 DEF F
  <2>5. Eq(g)
    BY <2>3, <2>4
  <2> QED BY <2>5
<1>4. Eq(upTo)
  <2> HIDE DEF Eq
  <2> QED BY <1>3
<1>5. Pass(SlowTile, w) = upTo[last]
  BY DEF Pass, Y, X
<1> HIDE DEF upTo
<1>6. \A n \in 0 .. last : upTo[n] \in C
  <2> DEFINE S == {n \in 0 .. last : upTo[n] \in C}
  <2>1. 0 \in S
    BY <1>0, <1>4, <1>8
  <2>2. ASSUME NEW n \in 0 + 1 .. last, n - 1 \in S PROVE n \in S
    <3>1. n \in 1 .. last /\ n \in 0 .. last /\ n - 1 \in 0 .. last /\ n # 0
      BY <1>0
    <3>2. upTo[n] = SlowTile(upTo[n - 1], Y(n), X(n))
      BY <1>4, <3>1
    <3> QED BY <1>2, <2>2, <3>1, <3>2
  <2>4. 0 \in Int /\ last \in Int
    BY <1>0
  <2>5. \A n \in 0 + 1 .. last : n - 1 \in S => n \in S
    BY <2>2
  <2> HIDE DEF S, last
  <2>3. \A n \in 0 .. last : n \in S
    BY <2>1, <2>4, <2>5, IntervalInduction, Zenon
  <2> QED BY <2>3 DEF S
<1>7. last \in 0 .. last
  BY <1>0
<1> QED BY <1>5, <1>6, <1>7 DEF C

\* Mirroring leaves players, boulders and coins alone.
LEMMA MirroredKeeps ==
    ASSUME NEW w \in Works, w.next = w.field
    PROVE  /\ Mirrored(w) \in Works
           /\ \A y \in Rows, x \in Cols :
                /\ Mirrored(w).field[y][x] \in {w.field[y][x], Blank}
                /\ \A T \in Movables : /\ Mirrored(w).field[y][x] = T <=> w.field[y][x] = T
                                       /\ Mirrored(w).next[y][x] = T <=> w.field[y][x] = T
<1>1. CASE ~w.reverse
  <2>1. Mirrored(w) = w
    BY <1>1 DEF Mirrored
  <2> QED BY <2>1
<1>2. CASE w.reverse
  <2> DEFINE D == DOMAIN Mirror
             n == [y \in Rows |-> [x \in Cols |->
                     IF w.field[y][x] \in D THEN Mirror[w.field[y][x]] ELSE w.next[y][x]]]
             f == [y \in Rows |-> [x \in Cols |-> IF w.field[y][x] \in D THEN Blank ELSE w.field[y][x]]]
  <2>1. Mirrored(w) = [w EXCEPT !.next = n, !.field = f, !.reverse = FALSE]
    BY <1>2 DEF Mirrored, Replaced, Works, Blank
  <2>2. \A t \in D : Mirror[t] \in D /\ Mirror[t] \in Tiles
    BY DEF Mirror, Walkers, Tiles
  <2>3. \A t \in D : t \notin Movables
    BY DEF Mirror, Walkers, Movables, Money
  <2> HIDE DEF D
  <2>4. \A y \in Rows, x \in Cols :
          /\ f[y][x] = IF w.field[y][x] \in D THEN Blank ELSE w.field[y][x]
          /\ n[y][x] = IF w.field[y][x] \in D THEN Mirror[w.field[y][x]] ELSE w.field[y][x]
    OBVIOUS
  <2>5. f \in Fields /\ n \in Fields
    BY <2>2, Letters DEF Fields, Works
  <2> HIDE DEF f, n
  <2>6. Mirrored(w) \in Works /\ Mirrored(w).field = f /\ Mirrored(w).next = n
    BY <2>1, <2>5 DEF Works
  <2>7. ASSUME NEW y \in Rows, NEW x \in Cols
        PROVE  /\ f[y][x] \in {w.field[y][x], Blank}
               /\ \A T \in Movables : /\ f[y][x] = T <=> w.field[y][x] = T
                                      /\ n[y][x] = T <=> w.field[y][x] = T
    BY <2>2, <2>3, <2>4, Letters
  <2> QED BY <2>6, <2>7
<1>3. w.reverse \in BOOLEAN
  BY DEF Works
<1> QED BY <1>1, <1>2, <1>3

\* Nothing in the game's field, with nothing that copies, doubles a T.
Unmade(T) ==
    /\ T = "I" => \A y \in Rows, x \in Cols : field[y][x] \notin {"<", ">"} \/ Here(y - 1, x) # "I"
    /\ T = "O" => ~Has({"A", "=", "<", ">"} \cup Walkers)
    /\ T = Money => ~Has({"=", "<", ">"} \cup Walkers)

\* A tick starts with every T where it is.
LEMMA TrackBegins ==
    ASSUME TypeOK, NEW keys \in SUBSET Dirs, NEW T \in Movables, Unmade(T)
    PROVE  LET m == Mirrored(Work(keys))
           IN  /\ Track(T, {c \in Rows \X Cols : field[c[1]][c[2]] = T}, m, 0, 0)
               /\ T = "I" \/ \A y \in Rows, x \in Cols : m.field[y][x] # "="
<1> DEFINE w == Work(keys)
           m == Mirrored(w)
           P == {c \in Rows \X Cols : field[c[1]][c[2]] = T}
           loc == [p \in P |-> p]
<1>1. w \in Works /\ w.next = w.field /\ w.field = field
  BY WorkShows
<1> HIDE DEF w
<1>2. /\ m \in Works
      /\ \A y \in Rows, x \in Cols :
                /\ m.field[y][x] \in {w.field[y][x], Blank}
                /\ m.field[y][x] = T <=> w.field[y][x] = T
                /\ m.next[y][x] = T <=> w.field[y][x] = T
  BY <1>1, MirroredKeeps
<1>3. \A y \in Rows, x \in Cols : m.field[y][x] = "I" => field[y][x] = "I"
  BY <1>1, MirroredKeeps DEF Movables
<1> HIDE DEF m
<1>4. /\ Blank \notin {"<", ">"} \cup Walkers /\ Blank # "A" /\ Blank # "="
      /\ None # "I" /\ "I" # "O" /\ Money # "I" /\ Money # "O"
  <2>1. Blank \notin {"<", ">"} \cup Walkers /\ Blank # "A" /\ Blank # "="
    BY DEF Blank, Walkers
  <2>2. None # "I" /\ "I" # "O" /\ Money # "I" /\ Money # "O"
    BY Letters DEF Movables
  <2> QED BY <2>1, <2>2
<1>5. \A y \in Rows, x \in Cols : m.field[y][x] \in {field[y][x], Blank}
  BY <1>1, <1>2
<1>6. T \in {"I", "O", Money}
  BY DEF Movables
<1>7. ASSUME NEW y \in Rows, NEW x \in Cols, T # "I"
      PROVE  /\ m.field[y][x] # "="
             /\ m.field[y][x] \notin {"=", "<", ">"} \cup Walkers
             /\ T = "O" => m.field[y][x] # "A"
  <2>1. /\ field[y][x] # "="
        /\ field[y][x] \notin {"<", ">"} \cup Walkers
        /\ T = "O" => field[y][x] # "A"
    BY <1>6, <1>7 DEF Unmade, Has
  <2> QED BY <1>4, <1>5, <2>1
<1>8. ASSUME NEW y \in Rows, NEW x \in Cols, T = "I"
      PROVE  m.field[y][x] \notin {"<", ">"} \/ TileAt(m, y - 1, x) # "I"
  <2> SUFFICES ASSUME m.field[y][x] \in {"<", ">"}, TileAt(m, y - 1, x) = "I" PROVE FALSE
    OBVIOUS
  <2>1. field[y][x] \in {"<", ">"}
    BY <1>4, <1>5
  <2>2. Inside(y - 1, x) /\ m.field[y - 1][x] = "I"
    BY <1>4 DEF TileAt
  <2>3. Here(y - 1, x) = "I"
    BY <1>3, <2>2 DEF Here, Inside
  <2> QED BY <1>8, <2>1, <2>3 DEF Unmade
<1>9. Sober(T, m)
  BY <1>7, <1>8 DEF Sober
<1>10. \A y \in Rows, x \in Cols : <<y, x>> \in P <=> field[y][x] = T
  OBVIOUS
<1>11. P \subseteq Rows \X Cols
  OBVIOUS
<1> HIDE DEF P
<1>12. loc \in [P -> Int \X Int] /\ \A p \in P : loc[p] = p
  <2>1. \A i \in Rows, j \in Cols : i \in Int /\ j \in Int
    BY Numbers
  <2>2. \A p \in P : p \in Int \X Int
    BY <1>11, <2>1
  <2> QED BY <2>2
<1> HIDE DEF loc
<1>13. \A i \in Rows, j \in Cols : <<i, j>> \in P => Spot(T, m, 0, 0, i, j, loc[<<i, j>>])
  BY <1>12 DEF Spot
<1>14. Tracked(T, P, m, 0, 0, loc)
  BY <1>1, <1>2, <1>10, <1>11, <1>12, <1>13 DEF Tracked
<1>15. Track(T, P, m, 0, 0)
  BY <1>2, <1>9, <1>14 DEF Track
<1> QED BY <1>7, <1>15 DEF m, w, P

\* Counting keeps the field.
LEMMA CountedKeeps ==
    ASSUME NEW w \in Works
    PROVE  Counted(w) \in Works /\ Counted(w).field = w.field /\ Counted(w).next = w.next
  BY DEF Counted, Works

\* If every T of f has a place of its own among those of P, it has no more than P has.
LEMMA NoMore ==
    ASSUME NEW P \in SUBSET (Rows \X Cols), NEW loc \in [P -> Int \X Int], NEW f, NEW T,
           \A i \in Rows, j \in Cols : f[i][j] = T => \E p \in P : loc[p] = <<i, j>>
    PROVE  Count(f, T) <= Cardinality(P) /\ Cardinality(P) \in Nat /\ Count(f, T) \in Nat
<1> DEFINE S == {c \in Rows \X Cols : f[c[1]][c[2]] = T}
           maker == [c \in S |-> CHOOSE p \in P : loc[p] = c]
<1>1. IsFiniteSet(Rows \X Cols)
  <2>1. ROWS - 1 \in Int /\ COLUMNS - 1 \in Int
    BY SizeAssumption
  <2>2. IsFiniteSet(Rows) /\ IsFiniteSet(Cols)
    BY <2>1, FS_Interval DEF Rows, Cols
  <2> QED BY <2>2, FS_Product
<1>2. IsFiniteSet(P)
  BY <1>1, FS_Subset
<1>3. ASSUME NEW c \in S PROVE \E p \in P : loc[p] = c
  <2>1. PICK i \in Rows, j \in Cols : c = <<i, j>>
    OBVIOUS
  <2>2. f[i][j] = T
    BY <2>1
  <2> QED BY <2>1, <2>2
<1>4. S \subseteq Rows \X Cols
  OBVIOUS
<1> HIDE DEF S
<1>5. \A c \in S : maker[c] \in P /\ loc[maker[c]] = c
  BY <1>3
<1>6. maker \in [S -> P]
  BY <1>3
<1> HIDE DEF maker
<1>7. maker \in Injection(S, P)
  BY <1>5, <1>6 DEF Injection, IsInjective
<1>8. Cardinality(S) <= Cardinality(P)
  BY <1>2, <1>7, FS_Injection
<1>9. IsFiniteSet(S)
  BY <1>1, <1>4, FS_Subset
<1>10. Cardinality(P) \in Nat /\ Cardinality(S) \in Nat
  BY <1>2, <1>9, FS_CardinalityType
<1> QED BY <1>8, <1>10 DEF S, Count

\* A tick whose field has nothing that doubles a T ends with no more of them.
LEMMA TickMakesNone ==
    ASSUME TypeOK, NEW keys \in Holds, Update(keys), NEW T \in Movables, Unmade(T)
    PROVE  ~(Count(field', T) > Count(field, T))
<1> DEFINE m == Mirrored(Work(keys))
           P == {c \in Rows \X Cols : field[c[1]][c[2]] = T}
           p == Pass(FrameTile, m)
           n == Counted(p)
           s == Pass(SlowTile, n)
           v == Ticked(keys)
<1>1. keys \in SUBSET Dirs
  BY HoldsAssumption
<1>2. Track(T, P, m, 0, 0) /\ (T = "I" \/ \A y \in Rows, x \in Cols : m.field[y][x] # "=")
  BY <1>1, TrackBegins
<1>3. v \in {n, s} /\ field' = v.next
  BY DEF Ticked, Frame1, Frame8, Update
<1>4. Count(field, T) = Cardinality(P) /\ P \in SUBSET (Rows \X Cols)
  BY DEF Count
<1> HIDE DEF m, P, v
<1>5. PICK y, x, loc : p \in Works /\ Sober(T, p) /\ Tracked(T, P, p, y, x, loc)
  <2>1. PICK y, x : Track(T, P, p, y, x)
    BY <1>2, PassTracks
  <2> HIDE DEF p
  <2> QED BY <2>1 DEF Track
<1>6. T = "I" \/ \A i \in Rows, j \in Cols : p.field[i][j] # "="
  BY <1>5 DEF Sober
<1> HIDE DEF p
<1>7. n \in Works /\ n.field = p.field /\ n.next = p.next
  BY <1>5, CountedKeeps
<1> HIDE DEF n
<1>8. s \in Calm(T, n)
  BY <1>6, <1>7, PassCalm
<1> HIDE DEF s
<1>9. \A i \in Rows, j \in Cols : v.next[i][j] = T => p.next[i][j] = T
  BY <1>3, <1>7, <1>8 DEF Calm
<1>10. loc \in [P -> Int \X Int] /\ \A i \in Rows, j \in Cols : v.next[i][j] = T => \E q \in P : loc[q] = <<i, j>>
  BY <1>5, <1>9 DEF Tracked
<1>11. Count(v.next, T) <= Cardinality(P) /\ Cardinality(P) \in Nat /\ Count(v.next, T) \in Nat
  BY <1>4, <1>10, NoMore
<1> QED BY <1>3, <1>4, <1>11

\* Whatever is copied in a tick, something in the field copied it.
THEOREM CopiesAreMade == Spec => CopiesHaveMakers
<1> DEFINE Made ==
      Playing =>
         /\ Count(field', "I") > Count(field, "I") =>
              \E y \in Rows, x \in Cols : field[y][x] \in {"<", ">"} /\ Here(y - 1, x) = "I"
         /\ Count(field', "O") > Count(field, "O") => Has({"A", "=", "<", ">"} \cup Walkers)
         /\ Count(field', Money) > Count(field, Money) => Has({"=", "<", ">"} \cup Walkers)
<1>1. ASSUME IInv, NEW keys \in Holds, Update(keys) PROVE Made
  <2>1. \A T \in Movables : Unmade(T) => ~(Count(field', T) > Count(field, T))
    BY <1>1, TickMakesNone DEF IInv
  <2>2. "I" \in Movables /\ "O" \in Movables /\ Money \in Movables
        /\ Money # "I" /\ Money # "O" /\ "O" # "I"
    BY Letters DEF Movables
  <2>3. Count(field', "I") > Count(field, "I") =>
              \E y \in Rows, x \in Cols : field[y][x] \in {"<", ">"} /\ Here(y - 1, x) = "I"
    BY <2>1, <2>2 DEF Unmade
  <2>4. Count(field', "O") > Count(field, "O") => Has({"A", "=", "<", ">"} \cup Walkers)
    BY <2>1, <2>2 DEF Unmade
  <2>5. Count(field', Money) > Count(field, Money) => Has({"=", "<", ">"} \cup Walkers)
    BY <2>1, <2>2 DEF Unmade
  <2> QED BY <2>3, <2>4, <2>5
<1>2. ASSUME Start \/ Retry \/ NextLevel PROVE Made
  <2>1. tick' = 0
    BY <1>2 DEF Start, Retry, NextLevel, Create
  <2> QED BY <2>1 DEF Playing
<1>3. IInv /\ [Next]_vars => [Made]_vars
  <2> HIDE DEF Made
  <2> QED BY <1>1, <1>2 DEF Next, GameOver, Stopped
<1> QED BY <1>3, Invariance, PTL DEF Spec, CopiesHaveMakers
=============================================================================
