----------------------------- MODULE GameRules -----------------------------
(***************************************************************************)
(* What one tick does to the field (game.c): the rules of the tiles, as    *)
(* operators on a record w that stands for the part of struct game a tick  *)
(* works on:                                                               *)
(*   field, next           the field read and the field being built        *)
(*   keys                  the directions held in this tick                *)
(*   win, die, noMoney, reverse, tired                                     *)
(*   money, players        what the pass has counted so far                *)
(*   stray                 the ways in which it has left the field's memory *)
(* Tiles are named by their characters; the pound sign is Money, the       *)
(* broken bar Pipe, the back quote Lever, a cell no text ever set Nul, and *)
(* any code point that the rules do not name Other.                        *)
(***************************************************************************)
EXTENDS Integers

CONSTANTS ROWS, COLUMNS   \* size of the field (25 and 80)

ASSUME SizeAssumption == ROWS \in Nat \ {0} /\ COLUMNS \in Nat \ {0}

Money == "GBP"
Pipe  == "BAR"
Lever == "LVR"
Nul   == "NUL"
Other == "other"
None  == "none"     \* beyond the field: equal to no tile

Rows  == 0 .. ROWS - 1
Cols  == 0 .. COLUMNS - 1
Dirs  == {"left", "right", "up", "down"}

Digits  == {"1", "2", "3", "4", "5", "6", "7", "8", "9"}
OneLess == [d \in Digits |->
              CASE d = "1" -> "0" [] d = "2" -> "1" [] d = "3" -> "2"
                [] d = "4" -> "3" [] d = "5" -> "4" [] d = "6" -> "5"
                [] d = "7" -> "6" [] d = "8" -> "7" [] d = "9" -> "8"]
Walkers == {"[", "]", "{", "}"}
Loose   == {"I", "[", "]", "O", "%", Money}   \* what platforms carry
Mirror  == [c \in Walkers \cup {"<", ">", "(", ")"} |->
              CASE c = "{" -> "}" [] c = "}" -> "{" [] c = "[" -> "]"
                [] c = "]" -> "[" [] c = "<" -> ">" [] c = ">" -> "<"
                [] c = "(" -> ")" [] c = ")" -> "("]

Inside(y, x)    == y \in Rows /\ x \in Cols
TileAt(w, y, x) == IF Inside(y, x) THEN w.field[y][x] ELSE None
Put(w, y, x, c) == [w EXCEPT !.next[y][x] = c]
Move(w, y, x, ty, tx, c) == Put(Put(w, ty, tx, c), y, x, " ")

\* next_field, where the field has a tile of the paint's domain, is painted.
Replaced(w, paint) ==
    [w EXCEPT !.next = [y \in Rows |-> [x \in Cols |->
       IF w.field[y][x] \in DOMAIN paint THEN paint[w.field[y][x]] ELSE @[y][x]]]]

(***************************************************************************)
(* probe: may `ch` move to the cell?  Asking has effects: a player wins,   *)
(* dies, collects and pushes by it, a walker kills and pushes.  Coordinates *)
(* wrap around in the code, so that any cell beyond the field is blocked.  *)
(***************************************************************************)
Answer(b, w) == [blocked |-> b, w |-> w]

Occupied(w, y, x) == \/ ~Inside(y, x)
                     \/ w.field[y][x] # " "
                     \/ w.next[y][x] # " "

\* field[y][x] read without a check: one column to the right is the next row
\* (or the first of next_field), one to the left is far outside.
RawTile(w, y, x) ==
    IF x < COLUMNS THEN TileAt(w, y, x)
    ELSE IF y + 1 < ROWS THEN w.field[y + 1][0] ELSE w.next[0][0]

\* The boulder leaves a ';' behind: the cell two rows down is blanked, which
\* in the last two rows is memory behind next_field.
CatchBelow(w, y, x) ==
    LET catch == IF y + 1 < ROWS THEN w.field[y + 1][x] ELSE w.next[0][x] IN
    IF catch # ";" THEN w
    ELSE IF y + 2 < ROWS THEN Put(w, y + 2, x, " ")
    ELSE [w EXCEPT !.stray = @ \cup {"write"}]

\* Mutant: pushing looks at the right key first, unlike walking.
PushBoulderRightFirst(w, y, x) ==
    LET d == IF "right" \in w.keys THEN 1 ELSE IF "left" \in w.keys THEN -1 ELSE 0
    IN  IF d = 0 \/ ~Occupied(w, y + 1, x) \/ Occupied(w, y, x + d) THEN Answer(TRUE, w)
        ELSE IF x - d = -1 THEN Answer(TRUE, [w EXCEPT !.stray = @ \cup {"crash"}])
        ELSE IF RawTile(w, y, x - d) # "I" THEN Answer(TRUE, w)
        ELSE Answer(FALSE, [CatchBelow(Move(w, y, x, y, x + d, "O"), y, x) EXCEPT !.tired = 1])

PushBoulder(w, y, x) ==
    LET d == IF "left" \in w.keys THEN -1 ELSE IF "right" \in w.keys THEN 1 ELSE 0
    IN  IF d = 0 \/ ~Occupied(w, y + 1, x) \/ Occupied(w, y, x + d) THEN Answer(TRUE, w)
        ELSE IF x - d = -1 THEN Answer(TRUE, [w EXCEPT !.stray = @ \cup {"crash"}])
        ELSE IF RawTile(w, y, x - d) # "I" THEN Answer(TRUE, w)
        ELSE LET pushed == Move(w, y, x, y, x + d, "O")
             IN  Answer(FALSE, [CatchBelow(pushed, y, x) EXCEPT
                                  !.tired = IF @ = 0 THEN 1 ELSE @])

ProbePlayer(w, y, x) ==
    LET ob == TileAt(w, y, x) IN
    CASE ob = "E"   -> Answer(FALSE, [w EXCEPT !.win = TRUE])
      [] ob = Money -> Answer(FALSE, Put(w, y, x, " "))
      [] ob \in Walkers \cup {"%"} -> Answer(TRUE, [w EXCEPT !.die = TRUE])
      [] ob = "O"   -> PushBoulder(w, y, x)
      [] OTHER      -> Answer(Occupied(w, y, x), w)

Ahead(ch) == IF ch \in {"]", "}", ")", ">", "b"} THEN 1 ELSE -1

ProbeWalker(w, y, x, ch) ==
    LET ob == TileAt(w, y, x)
        d  == Ahead(ch)
    IN  CASE ob = "I" -> Answer(FALSE, [w EXCEPT !.die = TRUE])
          [] ob \in {"O", Money} /\ Occupied(w, y + 1, x) /\ ~Occupied(w, y, x + d)
                      -> Answer(FALSE, Put(w, y, x + d, ob))
          [] OTHER    -> Answer(Occupied(w, y, x), w)

Probe(w, y, x, ch) ==
    CASE ch = "I"         -> ProbePlayer(w, y, x)
      [] ch \in Walkers   -> ProbeWalker(w, y, x, ch)
      [] ch \in {"<", ">"} -> Answer(TileAt(w, y, x) # "I" /\ Occupied(w, y, x), w)
      [] OTHER            -> Answer(Occupied(w, y, x), w)

(***************************************************************************)
(* Tiles of process_frame_1.                                               *)
(***************************************************************************)
\* A boulder or a '%' that rests on a ';' drops through it, onto whatever is
\* two rows down.
DropThrough(w, y, x, ch) ==
    IF y < ROWS - 2 THEN Move(w, y, x, y + 2, x, ch) ELSE Put(w, y, x, " ")

Percent(w, y, x) ==
    IF TileAt(w, y + 1, x) = ";" /\ w.next[y][x] = "%" THEN DropThrough(w, y, x, "%")
    ELSE IF ~Occupied(w, y + 1, x) \/ TileAt(w, y + 1, x) = "I"
    THEN Move(w, y, x, y + 1, x, "%")
    ELSE w

Boulder(w, y, x) ==
    IF TileAt(w, y + 1, x) = ";" /\ w.next[y][x] = "O" THEN DropThrough(w, y, x, "O")
    ELSE IF ~Occupied(w, y + 1, x)
    THEN [Move(w, y, x, y + 1, x, "O") EXCEPT !.field[y][x] = " "]
    ELSE w

Coin(w, y, x) ==
    LET c == [w EXCEPT !.money = @ + 1] IN
    IF ~Occupied(w, y + 1, x) THEN Move(c, y, x, y + 1, x, Money)
    ELSE IF TileAt(w, y + 1, x) = "I" THEN Put(c, y, x, " ")
    ELSE c

Valve(w, y, x, ch) ==
    LET above == TileAt(w, y - 1, x) IN
    CASE ch = ":" /\ above \in {"O", "%"} -> Put(w, y, x, ";")
      [] ch = ":" /\ above \in {"X", "."} -> Put(w, y, x, ".")
      [] ch = ";" /\ above \notin {"O", "%", None} -> Put(w, y, x, ":")
      [] ch = "." -> Put(w, y, x, ":")
      [] OTHER -> w

Fuse(w, y, x) ==
    IF \E dy, dx \in {-1, 0, 1} : TileAt(w, y + dy, x + dx) = "0"
    THEN Put(w, y, x, "0") ELSE w

\* A 'T' follows the player who walks off it.
Trolley(w, y, x) ==
    LET Follows(d, key) == /\ key \in w.keys
                           /\ Inside(y, x + d)
                           /\ w.next[y - 1][x + d] = "I"
                           /\ ~Occupied(w, y, x + d)
    IN  IF TileAt(w, y - 1, x) # "I" THEN w
        ELSE IF Follows(-1, "left") THEN Move(w, y, x, y, x - 1, "T")
        ELSE IF Follows(1, "right") THEN Move(w, y, x, y, x + 1, "T")
        ELSE w

Dispenser(w, y, x, ch) ==
    LET above == TileAt(w, y - 1, x) IN
    CASE ch = Pipe /\ above = "." -> Put(w, y, x, "A")
      [] ch = "A" /\ above \in {":", "."} /\ ~Occupied(w, y + 1, x)
           -> Put(Put(w, y + 1, x, "O"), y, x, Pipe)
      [] OTHER -> w

\* Mutant: the cell above is not probed.
WalkUnprobed(w, y, x, d) ==
    LET p == ProbePlayer(w, y, x + d)
    IN  IF ~p.blocked THEN Move(p.w, y, x, y, x + d, "I")
        ELSE IF y = 0 THEN p.w
        ELSE Move(p.w, y, x, y - 1, x + d, "I")

\* What the player may do on the ground.  Walking tries the cell aside, then
\* the one above it.
Walk(w, y, x, d) ==
    LET p == ProbePlayer(w, y, x + d)
        q == ProbePlayer(p.w, y - 1, x + d)
    IN  IF ~p.blocked THEN Move(p.w, y, x, y, x + d, "I")
        ELSE IF y = 0 THEN p.w
        ELSE IF ~q.blocked THEN Move(q.w, y, x, y - 1, x + d, "I")
        ELSE q.w

\* Mutant: a player who climbs a ladder also stays below it.
ClimbTwice(w, y, x) ==
    LET p == ProbePlayer(w, y - 2, x)
    IN  IF TileAt(w, y - 1, x) = "-" /\ ~p.blocked THEN Put(p.w, y - 2, x, "I") ELSE p.w

Climb(w, y, x) ==
    LET p == ProbePlayer(w, y - 2, x)
        q == ProbePlayer(w, y - 1, x)
    IN  IF TileAt(w, y - 1, x) = "-"
        THEN IF ~p.blocked THEN Move(p.w, y, x, y - 2, x, "I") ELSE p.w
        ELSE IF y > 0 /\ TileAt(w, y + 1, x) = "\""
        THEN IF ~q.blocked
             THEN Put(Put(Put(q.w, y + 1, x, " "), y, x, "\""), y - 1, x, "I")
             ELSE q.w
        ELSE w

Dig(w, y, x) ==
    LET below == TileAt(w, y + 1, x)
        p == ProbePlayer(w, y + 2, x)
    IN  CASE below = "-" -> IF ~p.blocked THEN Move(p.w, y, x, y + 2, x, "I") ELSE p.w
          [] below = "\"" /\ ~Occupied(w, y + 2, x)
               -> Put(Put(Put(w, y + 2, x, "\""), y + 1, x, "I"), y, x, " ")
          [] below = "~" -> Replaced(w, [c \in {"@"} |-> "0"])
          [] below = Lever -> [w EXCEPT !.reverse = TRUE]
          [] OTHER -> w

Player(w, y, x) ==
    LET fall == ProbePlayer([w EXCEPT !.players = @ + 1], y + 1, x)
        v    == fall.w
    IN  IF ~fall.blocked THEN Move(v, y, x, y + 1, x, "I")
        ELSE IF TileAt(w, y + 1, x) \in {"(", ")"} \/ v.tired # 0 THEN v
        ELSE IF "left" \in w.keys /\ x > 0 THEN Walk(v, y, x, -1)
        ELSE IF "right" \in w.keys /\ x < COLUMNS - 1 THEN Walk(v, y, x, 1)
        ELSE IF "up" \in w.keys THEN Climb(v, y, x)
        ELSE IF "down" \in w.keys THEN Dig(v, y, x)
        ELSE v

Eater(w, y, x, ch) ==
    IF ch = "X" THEN Put(w, y, x, "x")
    ELSE IF TileAt(w, y - 1, x) \notin {" ", None}
    THEN Put(Put(w, y - 1, x, " "), y, x, "X")
    ELSE w

\* Mutant: an exit once open stays open.
ExitStaysOpen(w, y, x, ch) == IF ch = "e" /\ w.noMoney THEN Put(w, y, x, "E") ELSE w

\* The exit is open while no money is left.
Exit(w, y, x, ch) ==
    IF (ch = "e") = w.noMoney THEN Put(w, y, x, IF ch = "e" THEN "E" ELSE "e") ELSE w

\* What stands on a platform is moved with it, when its way is free.
Carry(w, y, x, d) ==
    LET ob == TileAt(w, y - 1, x)
        p  == Probe(w, y - 1, x + d, ob)
    IN  IF ob \notin Loose THEN w
        ELSE IF p.blocked THEN p.w
        ELSE Put(Put(p.w, y - 1, x, " "), y - 1, x + d, ob)

Belt(w, y, x, ch) == Carry(w, y, x, Ahead(ch))

Platform(w, y, x, ch) ==
    LET d == Ahead(ch) IN
    IF Probe(w, y, x + d, ch).blocked THEN w
    ELSE Carry(Put(Put(w, y, x, " "), y, x + d, ch), y, x, d)

\* '{' and '}' float; '[' and ']' fall, and ask twice before they do.
Walker(w, y, x, ch) ==
    LET heavy == ch \in {"[", "]"}
        d == Ahead(ch)
        ahead  == ProbeWalker(w, y, x + d, ch)
        below1 == IF ahead.blocked /\ heavy THEN ProbeWalker(ahead.w, y + 1, x, ch)
                  ELSE Answer(TRUE, ahead.w)
        below2 == IF heavy THEN ProbeWalker(below1.w, y + 1, x, ch)
                  ELSE Answer(TRUE, below1.w)
    IN  IF y = ROWS - 1 \/ (heavy /\ TileAt(w, y + 1, x) \in {"(", ")"}) THEN w
        ELSE IF ahead.blocked /\ below1.blocked THEN Put(below1.w, y, x, Mirror[ch])
        ELSE IF ~below2.blocked THEN Put(Put(below2.w, y, x, " "), y + 1, x, ch)
        ELSE Put(Put(below2.w, y, x, " "), y, x + d, ch)

FrameTile(w, y, x) ==
    LET ch == w.field[y][x] IN
    IF ch \in Loose /\ y = ROWS - 1 THEN Put(w, y, x, " ") ELSE
    CASE ch \in Digits -> IF TileAt(w, y - 1, x) \notin {" ", None}
                          THEN Put(w, y, x, OneLess[ch]) ELSE w
      [] ch = "0" -> Put(w, y, x, " ")
      [] ch = "%" -> Percent(w, y, x)
      [] ch = "O" -> Boulder(w, y, x)
      [] ch = Money -> Coin(w, y, x)
      [] ch = "I" -> Player(w, y, x)
      [] ch \in {":", ";", "."} -> Valve(w, y, x, ch)
      [] ch \in {"&", "?"} -> Fuse(w, y, x)
      [] ch = "T" -> Trolley(w, y, x)
      [] ch \in {Pipe, "A"} -> Dispenser(w, y, x, ch)
      [] ch \in {"x", "X"} -> Eater(w, y, x, ch)
      [] ch \in {"e", "E"} -> Exit(w, y, x, ch)
      [] ch \in {"(", ")"} -> Belt(w, y, x, ch)
      [] ch \in {"<", ">"} -> Platform(w, y, x, ch)
      [] ch \in Walkers -> Walker(w, y, x, ch)
      [] OTHER -> w

(***************************************************************************)
(* Tiles of process_frame_8, which runs in every eighth tick.              *)
(***************************************************************************)
Copier(w, y, x) ==
    LET ob == TileAt(w, y - 1, x)
        p  == Probe(w, y + 1, x, ob)
    IN  IF ob \in {" ", "I", None} THEN w
        ELSE IF p.blocked THEN p.w
        ELSE Put(p.w, y + 1, x, ob)

Fish(w, y, x, ch) ==
    LET d == Ahead(ch) IN
    IF Occupied(w, y, x + d) THEN Put(w, y, x, IF ch = "d" THEN "b" ELSE "d")
    ELSE Put(Put(w, y, x, " "), y, x + d, ch)

SlowTile(w, y, x) ==
    LET ch == w.field[y][x] IN
    CASE ch = "=" -> Copier(w, y, x)
      [] ch \in {"b", "d"} -> Fish(w, y, x, ch)
      [] OTHER -> w

(***************************************************************************)
(* A pass runs over the field row by row.                                  *)
(***************************************************************************)
Pass(Rule(_, _, _), w) ==
    LET upTo[n \in 0 .. ROWS * COLUMNS] ==
          IF n = 0 THEN w
          ELSE Rule(upTo[n - 1], (n - 1) \div COLUMNS, (n - 1) % COLUMNS)
    IN  upTo[ROWS * COLUMNS]

Counted(w) == [w EXCEPT !.noMoney = @ \/ w.money = 0, !.die = @ \/ w.players = 0]

Frame1(w) == Counted(Pass(FrameTile, w))

Frame8(w) == Pass(SlowTile, w)

\* swap, for the four pairs: the mirrored tiles do not act in this tick.
Mirrored(w) ==
    IF ~w.reverse THEN w
    ELSE [Replaced(w, Mirror) EXCEPT
            !.field = [y \in Rows |-> [x \in Cols |->
                         IF @[y][x] \in DOMAIN Mirror THEN " " ELSE @[y][x]]],
            !.reverse = FALSE]
============================================================================
