-------------------------------- MODULE Game --------------------------------
(***************************************************************************)
(* struct game through the calls the screens make: game_create_from_utf8   *)
(* for a new play, a retry or the following level, and game_update once    *)
(* per tick.  The struct is zeroed when its screen is made and then used   *)
(* again for every play.                                                   *)
(***************************************************************************)
EXTENDS GameRules, Sequences, FiniteSets

CONSTANTS
    Holds,    \* the sets of directions a tick may find held
    Levels    \* the level texts by number: sequences of tiles, "LF" and "CR"

ASSUME HoldsAssumption == Holds \subseteq SUBSET Dirs

VARIABLES
    level,      \* the number of the level being played
    status,     \* "new" | "playing" | "rejected" (the text did not fit)
    field, win, die, noMoney, reverse, tired,
    tick,       \* game.tick, modulo 8 from the tenth on: 9 is followed by 2, so
                \* that 0 and 1 mean no tick and the first tick of a play
    stray       \* how the passes have left the field's memory so far

vars == <<level, status, field, win, die, noMoney, reverse, tired, tick, stray>>

Tiles == {"I", "E", "e", "O", "%", "T", "x", "X", "=", "b", "d", "-", "\"", "~", "@",
          "(", ")", "<", ">", ":", ";", ".", "&", "?", "A", "0", "#", " ",
          Money, Pipe, Lever, Nul, Other} \cup Digits \cup Walkers

ASSUME LevelsAssumption ==
    \A l \in DOMAIN Levels : Levels[l] \in Seq(Tiles \cup {"LF", "CR"})

Init ==
    /\ level \in DOMAIN Levels
    /\ status = "new"
    /\ field = [y \in Rows |-> [x \in Cols |-> Nul]]
    /\ win = FALSE /\ die = FALSE /\ noMoney = FALSE /\ reverse = FALSE
    /\ tired = 0 /\ tick = 0
    /\ stray = {}

(***************************************************************************)
(* game_parse_and_validate_field writes the cells of the text over those   *)
(* that are there, up to the first that does not fit.                      *)
(***************************************************************************)
Parse(text, f) ==
    LET after[n \in 0 .. Len(text)] ==
          IF n = 0 THEN [ok |-> TRUE, row |-> 0, col |-> 0, field |-> f]
          ELSE LET p == after[n - 1] IN
               IF ~p.ok \/ text[n] = "CR" THEN p
               ELSE IF text[n] = "LF" THEN [p EXCEPT !.row = @ + 1, !.col = 0]
               ELSE IF ~Inside(p.row, p.col) THEN [p EXCEPT !.ok = FALSE]
               ELSE [p EXCEPT !.field[p.row][p.col] = text[n], !.col = @ + 1]
    IN  after[Len(text)]

\* game_create_from_utf8 resets everything but `reverse`.
Create(l) ==
    LET p == Parse(Levels[l], field) IN
    /\ level' = l
    /\ field' = p.field
    /\ status' = IF p.ok THEN "playing" ELSE "rejected"
    /\ win' = FALSE /\ die' = FALSE /\ noMoney' = FALSE
    /\ tired' = 0 /\ tick' = 0
    /\ UNCHANGED <<reverse, stray>>

Start     == status = "new" /\ Create(level)
Alive     == status = "playing" /\ "crash" \notin stray
Retry     == Alive /\ Create(level)
NextLevel == Alive /\ win /\ level + 1 \in DOMAIN Levels /\ Create(level + 1)

(***************************************************************************)
(* game_update.                                                            *)
(***************************************************************************)
Work(keys) ==
    [field |-> field, next |-> field, keys |-> keys, win |-> win, die |-> die,
     noMoney |-> noMoney, reverse |-> reverse, tired |-> tired,
     money |-> 0, players |-> 0, stray |-> stray]

Ticked(keys) ==
    LET w == Frame1(Mirrored(Work(keys))) IN
    IF tick % 8 = 7 THEN Frame8(w) ELSE w

\* Mutant: the player's rest is compared before it is counted.
RestedLate(t) == IF t = 0 \/ t > 2 THEN 0 ELSE t + 1

Rested(t) == IF t = 0 THEN 0 ELSE IF t + 1 > 2 THEN 0 ELSE t + 1

Update(keys) ==
    /\ Alive /\ ~win /\ ~die
    /\ \E w \in {Ticked(keys)} :
         /\ field' = w.next
         /\ win' = w.win /\ die' = w.die /\ noMoney' = w.noMoney /\ reverse' = w.reverse
         /\ tired' = Rested(w.tired)
         /\ stray' = w.stray
    /\ tick' = IF tick = 9 THEN 2 ELSE tick + 1
    /\ UNCHANGED <<level, status>>

\* The early return of a game that is over, and what follows a text that was
\* refused or a crash: nothing.
GameOver == Alive /\ (win \/ die) /\ UNCHANGED vars
Ended    == status = "rejected" \/ "crash" \in stray
Stopped  == Ended /\ UNCHANGED vars

Next ==
    \/ Start
    \/ Retry
    \/ NextLevel
    \/ \E keys \in Holds : Update(keys)
    \/ GameOver
    \/ Stopped

Spec == Init /\ [][Next]_vars

-----------------------------------------------------------------------------
(* Properties. *)

\* Every pass leaves a field of tiles that the rules know, whichever of them
\* met; a player who is tired has been so for exactly one more tick.
TypeOK ==
    /\ level \in DOMAIN Levels
    /\ status \in {"new", "playing", "rejected"}
    /\ field \in [Rows -> [Cols -> Tiles]]
    /\ {win, die, noMoney, reverse} \subseteq BOOLEAN
    /\ tired \in {0, 2}
    /\ tick \in 0 .. 9
    /\ stray \subseteq {"write", "crash"}

Count(f, tile) == Cardinality({c \in Rows \X Cols : f[c[1]][c[2]] = tile})
Here(y, x)     == IF Inside(y, x) THEN field[y][x] ELSE None
Has(tiles)     == \E y \in Rows, x \in Cols : field[y][x] \in tiles
Playing        == status = "playing" /\ tick' # 0

(***************************************************************************)
(* The exit opens only for players who left no money: but in the very      *)
(* first tick of a play, which may find an open exit in the level's text,  *)
(* a win comes after a tick of the same play that counted no money.        *)
(***************************************************************************)
ExitNeedsMoney ==
    /\ win => noMoney \/ tick = 1
    /\ tick = 0 => ~noMoney

(***************************************************************************)
(* The rules write a moved tile twice, where it was and where it goes, and *)
(* a tile that two rules move is there twice.  Players are doubled only by *)
(* a moving platform they stand on (it carries the player who walks);      *)
(* boulders and coins are made only by a dispenser or a copier, or doubled *)
(* by a moving platform or by a walker that pushes them and goes another   *)
(* way.                                                                    *)
(***************************************************************************)
CopiesHaveMakers ==
    [][Playing =>
         /\ Count(field', "I") > Count(field, "I") =>
              \E y \in Rows, x \in Cols : field[y][x] \in {"<", ">"} /\ Here(y - 1, x) = "I"
         /\ Count(field', "O") > Count(field, "O") => Has({"A", "=", "<", ">"} \cup Walkers)
         /\ Count(field', Money) > Count(field, Money) => Has({"=", "<", ">"} \cup Walkers)]_vars

\* A wall goes only if an eater is under it, a catch is on it that something
\* drops through or is pushed from, or a falling walker beside it faces it and
\* pushes what it stands on.
WallsStand ==
    [][Playing => \A y \in Rows, x \in Cols :
         field[y][x] = "#" /\ field'[y][x] # "#" =>
           \/ Here(y + 1, x) = "x"
           \/ Here(y - 1, x) = ";" /\ Here(y - 2, x) \in {"O", "%"}
           \/ \E d \in {-1, 1} : /\ Here(y, x - d) = IF d = 1 THEN "]" ELSE "["
                                /\ Here(y + 1, x - d) \in {"O", Money}]_vars

(***************************************************************************)
(* The passes read and write only the field, but for two places: a player  *)
(* on top of, or carried to, a boulder in the first column who is held to  *)
(* the right reads far outside and brings the process down; a boulder that *)
(* is pushed in the last two rows may leave a catch there and overwrites    *)
(* what follows next_field.                                                *)
(***************************************************************************)
FieldIsLeftAtItsEdges ==
    [][/\ "crash" \in stray' \ stray =>
            \E y \in Rows : /\ field[y][0] = "O"
                            /\ \/ Here(y - 1, 0) = "I"
                               \/ Here(y, 1) = "I" /\ Here(y + 1, 1) \in {"(", "<"}
       /\ "write" \in stray' \ stray => \E x \in Cols : field[ROWS - 1][x] \in {";", "O"}]_vars
=============================================================================
