------------------------------ MODULE Screens -------------------------------
(***************************************************************************)
(* One player's session above the terminal: the stack of screens that      *)
(* state_update drives (state.c), the title, game, level pit and replay    *)
(* screens (screens/*.c), the keys they share, and the attempts they       *)
(* record.                                                                 *)
(*                                                                         *)
(* Each action is one screen_update of the loop in state_update.  The game *)
(* field is abstract: a tick of play may win, kill, both or neither.  What *)
(* is drawn is left out, except where drawing can end the process.         *)
(***************************************************************************)
EXTENDS LevelPit, Sequences

CONSTANTS
    ClassicLevel,   \* the level of "classic mode" (166 in the code)
    MAX_SCREENS,    \* capacity of the screen stack (16 in the code)
    DbOutcomes,     \* can a query succeed, can it fail
    MaxKeys         \* bound: keys pressed between two ticks

ASSUME ScreensAssumption ==
    /\ ClassicLevel \in Nat
    /\ MAX_SCREENS \in Nat /\ MAX_SCREENS >= 3
    /\ DbOutcomes \subseteq BOOLEAN /\ TRUE \in DbOutcomes
    /\ MaxKeys \in Nat

VARIABLES
    stack,      \* state->screens, the top screen last
    keys,       \* the keyboard of the terminal
    phase,      \* between two ticks, inside one, or over
    wins,       \* levels with a "won" row in the attempt table
    inserted    \* the attempts the last step inserted (at most one)

vars == <<stack, keys, phase, wins, inserted>>

Keys == {"space", "enter", "up", "down", "Q", "R"}

\* "wild": the program has used memory it does not own.
Phases == {"idle", "updating", "ended", "wild"}
Over   == {"ended", "wild"}

-----------------------------------------------------------------------------
(* Screens.  A creation that fails returns NULL, which is pushed like any  *)
(* other screen.                                                           *)

NullScreen == [kind |-> "null"]

TitleScreen == [kind |-> "title", selection |-> 0]

PitScreen == [kind |-> "pit", window |-> InitialWindow]

Games == [kind : {"game"}, level : Levels, win : BOOLEAN, die : BOOLEAN,
          active : BOOLEAN, last : {"in_progress", "won", "died"}, recorded : BOOLEAN]

\* A fresh play.  `recorded` is history: has an attempt been inserted for it?
NewPlay(l) ==
    [kind |-> "game", level |-> l, win |-> FALSE, die |-> FALSE,
     active |-> FALSE, last |-> "in_progress", recorded |-> FALSE]

\* db_get_level_field_utf8 and game_create_from_utf8.
Loads(l, ok) == ok /\ l \in Levels

GameScreen(l, ok) == IF Loads(l, ok) THEN NewPlay(l) ELSE NullScreen

\* replay_screen_create: an attempt at level l, read back and prepared.
ReplayScreen(l, ok) ==
    IF Loads(l, ok) THEN [kind |-> "replay", level |-> l] ELSE NullScreen

-----------------------------------------------------------------------------
(* The stack.  num_screens is Len(stack). *)

Top == stack[Len(stack)]

TopIs(kind) == phase = "updating" /\ stack # <<>> /\ Top.kind = kind

Replaced(screen) == [stack EXCEPT ![Len(stack)] = screen]

\* state_push_screen
Push(base, screen) ==
    /\ stack' = IF Len(base) = MAX_SCREENS THEN base ELSE Append(base, screen)
    /\ keys' = IF Len(base) = MAX_SCREENS THEN keys ELSE {}

\* A screen's update returned true: the tick is over.
Done == phase' = "idle"

\* It returned false: the screen is popped and the one below is updated in the
\* same tick, with the keys still pressed.
Pop ==
    /\ stack' = SubSeq(stack, 1, Len(stack) - 1)
    /\ UNCHANGED <<keys, phase>>

-----------------------------------------------------------------------------
(* Between ticks. *)

Init ==
    /\ stack = <<TitleScreen>>
    /\ keys = {}
    /\ phase = "idle"
    /\ wins = {}
    /\ inserted = {}

\* terminal_parse notes a key.
PressKey(k) ==
    /\ phase = "idle"
    /\ k \notin keys /\ Cardinality(keys) < MaxKeys
    /\ keys' = keys \cup {k}
    /\ inserted' = {}
    /\ UNCHANGED <<stack, phase, wins>>

\* state_update finds that tick_ms have elapsed.
BeginTick ==
    /\ phase = "idle"
    /\ phase' = "updating"
    /\ inserted' = {}
    /\ UNCHANGED <<stack, keys, wins>>

\* The connection is lost between two ticks.
Disconnect ==
    /\ phase = "idle"
    /\ phase' = "ended"
    /\ inserted' = {}
    /\ UNCHANGED <<stack, keys, wins>>

\* Another session of the server wins a level.
OtherWins(l) ==
    /\ phase = "idle"
    /\ wins' = wins \cup {l}
    /\ inserted' = {}
    /\ UNCHANGED <<stack, keys, phase>>

-----------------------------------------------------------------------------
(* Inside a tick: the loop of state_update. *)

\* The top screen is NULL: the session is to be disconnected.
NullOnTop ==
    /\ TopIs("null")
    /\ phase' = "ended"
    /\ inserted' = {}
    /\ UNCHANGED <<stack, keys, wins>>

\* The stack is empty: state_peek_screen reads screens[-1], four bytes of
\* num_screens and four of padding that nothing initialised.
PeekEmpty ==
    /\ phase = "updating"
    /\ stack = <<>>
    /\ phase' \in Over
    /\ inserted' = {}
    /\ UNCHANGED <<stack, keys, wins>>

(* title_screen_update *)

Confirmed == keys \cap {"space", "enter"} # {}

TitleOpen ==
    /\ TopIs("title")
    /\ Confirmed
    /\ \/ /\ Top.selection = 0
          /\ \E ok \in DbOutcomes : Push(stack, GameScreen(ClassicLevel, ok))
       \/ /\ Top.selection = 1
          /\ Push(stack, PitScreen)
    /\ Done
    /\ inserted' = {}
    /\ UNCHANGED wins

TitleQuit ==
    /\ TopIs("title")
    /\ Confirmed /\ Top.selection = 3
    /\ Pop
    /\ inserted' = {}
    /\ UNCHANGED wins

\* "instructions" does nothing; otherwise the arrows move the selection.
TitleStay ==
    /\ TopIs("title")
    /\ \/ Confirmed /\ Top.selection = 2 /\ UNCHANGED stack
       \/ /\ ~Confirmed
          /\ stack' =
                IF "up" \in keys /\ Top.selection > 0
                THEN Replaced([Top EXCEPT !.selection = @ - 1])
                ELSE IF "down" \in keys /\ Top.selection < 3
                THEN Replaced([Top EXCEPT !.selection = @ + 1])
                ELSE stack
    /\ keys' = {}
    /\ Done
    /\ inserted' = {}
    /\ UNCHANGED wins

(* game_screen_update *)

\* should_record_attempt: something was played and the play is not over.
Legitimate(g) == g.active /\ ~(g.win \/ g.die)

\* db_insert_attempt, which may fail (and is then only logged).
Insert(g, state, ok) ==
    /\ inserted' = IF ok THEN {[level |-> g.level, state |-> state]} ELSE {}
    /\ wins' = IF ok /\ state = "won" THEN wins \cup {g.level} ELSE wins

NoInsert == inserted' = {} /\ UNCHANGED wins

\* One game_update of a play in progress; it reports the play as in progress
\* whatever happened in it.
PlayTick(g) ==
    {h \in Games : /\ h.level = g.level /\ h.recorded = g.recorded
                   /\ h.last = "in_progress"
                   /\ g.active => h.active}

\* Mutant: dying outranks winning.
VerdictDieFirst(g) == IF g.die THEN "died" ELSE IF g.win THEN "won" ELSE "in_progress"

\* What game_update reports of a play.
Verdict(g) == IF g.win THEN "won" ELSE IF g.die THEN "died" ELSE "in_progress"

\* R: the play that ends is recorded if it was a legitimate one, and the same
\* tick plays the first move of the new one.
GameRetry ==
    /\ TopIs("game")
    /\ "R" \in keys
    /\ \E ok \in DbOutcomes :
          IF Legitimate(Top) THEN Insert(Top, "retried", ok) ELSE NoInsert
    /\ \E ok \in DbOutcomes :
          \/ /\ Loads(Top.level, ok)
             /\ \E g \in PlayTick(NewPlay(Top.level)) : stack' = Replaced(g)
             /\ keys' = {}
             /\ Done
          \/ ~Loads(Top.level, ok) /\ Pop

\* Mutant: quitting closes nothing.
GameQuitStays ==
    /\ TopIs("game")
    /\ "Q" \in keys /\ "R" \notin keys
    /\ \E ok \in DbOutcomes :
          IF Legitimate(Top) THEN Insert(Top, "quit", ok) ELSE NoInsert
    /\ UNCHANGED <<stack, keys, phase>>

GameQuit ==
    /\ TopIs("game")
    /\ "Q" \in keys /\ "R" \notin keys
    /\ \E ok \in DbOutcomes :
          IF Legitimate(Top) THEN Insert(Top, "quit", ok) ELSE NoInsert
    /\ Pop

\* Mutant: the level number moves on although the level did not load.
GameContinueUnchecked ==
    /\ TopIs("game")
    /\ "space" \in keys /\ keys \cap {"R", "Q"} = {} /\ Top.win
    /\ NoInsert
    /\ stack' = Replaced(NewPlay(Top.level + 1))
    /\ keys' = {}
    /\ Done

\* Mutant: the next level opens on a screen of its own.
GameContinueOnTop ==
    /\ TopIs("game")
    /\ "space" \in keys /\ keys \cap {"R", "Q"} = {} /\ Top.win
    /\ NoInsert
    /\ \E ok \in DbOutcomes :
          \/ /\ Loads(Top.level + 1, ok)
             /\ \E g \in PlayTick(NewPlay(Top.level + 1)) : Push(stack, g)
             /\ Done
          \/ ~Loads(Top.level + 1, ok) /\ Pop

\* space on a won game: on to the level with the next number.
GameContinue ==
    /\ TopIs("game")
    /\ "space" \in keys /\ keys \cap {"R", "Q"} = {} /\ Top.win
    /\ NoInsert
    /\ \E ok \in DbOutcomes :
          \/ /\ Loads(Top.level + 1, ok)
             /\ \E g \in PlayTick(NewPlay(Top.level + 1)) : stack' = Replaced(g)
             /\ keys' = {}
             /\ Done
          \/ ~Loads(Top.level + 1, ok) /\ Pop

\* No key that ends the play: one more tick of it.
Played ==
    /\ TopIs("game")
    /\ keys \cap {"R", "Q"} = {} /\ ~("space" \in keys /\ Top.win)
    /\ keys' = {}
    /\ Done

GamePlay ==
    /\ Played
    /\ Verdict(Top) = "in_progress"
    /\ \E g \in PlayTick(Top) : stack' = Replaced(g)
    /\ NoInsert

\* Mutant: the outcome is recorded on every tick the game stays over.
GameOverAgain ==
    /\ Played
    /\ Verdict(Top) # "in_progress"
    /\ \E ok \in DbOutcomes : Insert(Top, Verdict(Top), ok)
    /\ stack' = Replaced([Top EXCEPT !.last = Verdict(Top), !.recorded = TRUE])

\* The first tick after the play was won or lost records it; later ones only
\* wait for a key.
GameOver ==
    /\ Played
    /\ Verdict(Top) # "in_progress"
    /\ \/ /\ Top.last = Verdict(Top)
          /\ UNCHANGED stack
          /\ NoInsert
       \/ /\ Top.last # Verdict(Top)
          /\ \E ok \in DbOutcomes : Insert(Top, Verdict(Top), ok)
          /\ stack' = Replaced([Top EXCEPT !.last = Verdict(Top), !.recorded = TRUE])

(* level_pit_screen_update *)

\* The rows one query returns: all of the page, or none when it fails.
Rows(w, ok) == IF ok THEN NumRows(w.top) ELSE 0

\* The id on the selected row, 0 if no row is.
Selected(w, rows) == IF w.index < rows THEN SelectedId(w.top, w.index) ELSE 0

\* db_get_level_bounds fails: the pit closes.
PitFails ==
    /\ TopIs("pit")
    /\ FALSE \in DbOutcomes
    /\ Pop
    /\ NoInsert

\* draw_scrollbar divides by the highest id.  When that is 0 the result is not
\* a number, and converting it to a row of the canvas may be anything.
PitScrollbarWild ==
    /\ TopIs("pit")
    /\ MaxLevel = 0
    /\ phase' = "wild"
    /\ UNCHANGED <<stack, keys>>
    /\ NoInsert

PitPlay ==
    /\ TopIs("pit")
    /\ Confirmed
    /\ \E okRows, ok \in DbOutcomes :
          stack' = IF Len(stack) = MAX_SCREENS THEN stack
                   ELSE Append(stack, GameScreen(Selected(Top.window, Rows(Top.window, okRows)), ok))
    /\ keys' = {}
    /\ Done
    /\ NoInsert

\* Mutant: the pit acts on a key and leaves it pressed.
PitMoveKeeps ==
    /\ TopIs("pit")
    /\ ~Confirmed
    /\ \E ok \in DbOutcomes :
          LET w == Top.window
          IN  \/ "up" \in keys /\ stack' = Replaced([Top EXCEPT !.window = UpKey(w)])
              \/ /\ "up" \notin keys /\ "down" \in keys
                 /\ stack' = Replaced([Top EXCEPT !.window = DownKey(w, Rows(w, ok))])
    /\ UNCHANGED keys
    /\ Done
    /\ NoInsert

\* db_get_previous_level answers 0 when it fails; the page then starts before
\* the first level.
PitMove ==
    /\ TopIs("pit")
    /\ ~Confirmed
    /\ \E ok \in DbOutcomes :
          LET w == Top.window
              up == IF ok \/ w.index > 0 \/ w.top <= MinLevel
                    THEN UpKey(w)
                    ELSE [w EXCEPT !.top = 0]
          IN  \/ "up" \in keys /\ stack' = Replaced([Top EXCEPT !.window = up])
              \/ /\ "up" \notin keys /\ "down" \in keys
                 /\ stack' = Replaced([Top EXCEPT !.window = DownKey(w, Rows(w, ok))])
    /\ keys' = {}
    /\ Done
    /\ NoInsert

PitQuit ==
    /\ TopIs("pit")
    /\ ~Confirmed /\ keys \cap {"up", "down"} = {} /\ "Q" \in keys
    /\ Pop
    /\ NoInsert

\* R: replay the best winning attempt at the selected level, if there is one.
\* With no rows the count of wins is read from uninitialised memory, but the
\* query for the best attempt decides.
PitReplay ==
    /\ TopIs("pit")
    /\ ~Confirmed /\ keys \cap {"up", "down", "Q"} = {} /\ "R" \in keys
    /\ \E okRows, ok, okCreate \in DbOutcomes :
          LET l == Selected(Top.window, Rows(Top.window, okRows))
          IN  stack' = IF ok /\ l \in wins /\ Len(stack) # MAX_SCREENS
                       THEN Append(stack, ReplayScreen(l, okCreate))
                       ELSE stack
    /\ keys' = {}
    /\ Done
    /\ NoInsert

PitIdle ==
    /\ TopIs("pit")
    /\ ~Confirmed /\ keys \cap {"up", "down", "Q", "R"} = {}
    /\ keys' = {}
    /\ Done
    /\ UNCHANGED stack
    /\ NoInsert

(* replay_screen_update *)

ReplayQuit ==
    /\ TopIs("replay")
    /\ "Q" \in keys
    /\ Pop
    /\ NoInsert

ReplayPlay ==
    /\ TopIs("replay")
    /\ "Q" \notin keys
    /\ keys' = {}
    /\ Done
    /\ UNCHANGED stack
    /\ NoInsert

-----------------------------------------------------------------------------
UpdateStep ==
    \/ NullOnTop \/ PeekEmpty
    \/ TitleOpen \/ TitleQuit \/ TitleStay
    \/ GameRetry \/ GameQuit \/ GameContinue \/ GamePlay \/ GameOver
    \/ PitFails \/ PitScrollbarWild \/ PitPlay \/ PitMove \/ PitQuit
    \/ PitReplay \/ PitIdle
    \/ ReplayQuit \/ ReplayPlay

Environment ==
    \/ \E k \in Keys : PressKey(k)
    \/ \E l \in Levels : OtherWins(l)
    \/ Disconnect

Finished == phase \in Over /\ UNCHANGED vars

Next == UpdateStep \/ BeginTick \/ Environment \/ Finished

Spec == Init /\ [][Next]_vars

\* The server thread carries on with a tick it has begun.
FairSpec == Spec /\ WF_vars(UpdateStep)

-----------------------------------------------------------------------------
(* Correctness properties. *)

Titles  == [kind : {"title"}, selection : 0..3]
Pits    == [kind : {"pit"}, window : [top : Nat, index : Nat]]
Replays == [kind : {"replay"}, level : Levels]

Attempts == [level : Levels, state : {"won", "died", "quit", "retried"}]

TypeOK ==
    /\ stack \in Seq(Titles \cup Pits \cup Games \cup Replays \cup {NullScreen})
    /\ keys \subseteq Keys
    /\ phase \in Phases
    /\ wins \subseteq Levels
    /\ inserted \subseteq Attempts

\* However screens push, pop and replace each other, the title lies at the
\* bottom, the pit only directly above it, a replay only on the pit, and
\* nothing on a NULL, a game or a replay.  So the stack never holds more than
\* three screens and state_push_screen never meets its limit (where it would
\* leak the screen and leave the keys pressed).
StackShape ==
    /\ Len(stack) <= 3
    /\ \A i \in 1..Len(stack) :
          /\ i = 1 <=> stack[i].kind = "title"
          /\ stack[i].kind = "pit" => i = 2
          /\ stack[i].kind = "replay" => i = 3
          /\ i = 3 => stack[2].kind = "pit"

\* A key press acts within one tick: whichever screens the loop of
\* state_update went through, no key survives into the next tick.
KeysConsumed == [][phase = "updating" /\ phase' = "idle" => keys' = {}]_vars

\* The pit's selection is always on a row it displays, so the level it opens is
\* a level of the table, whatever scrolling went before and whatever failed.
SelectionShown ==
    MaxLevel > 0 =>
        \A i \in 1..Len(stack) :
            stack[i].kind = "pit" =>
                LET w == stack[i].window IN w.index < NumRows(w.top)

\* The arrows walk the level table one level at a time, also where the page
\* scrolls under the selection: nothing is skipped, and no key moves the
\* selection the wrong way.  Only a query that fails makes it jump, and then
\* back to the first level.
PitWalksLevels ==
    [][(TopIs("pit") /\ Len(stack') = Len(stack)) =>
          LET old == SelectedId(Top.window.top, Top.window.index)
              new == SelectedId(Top'.window.top, Top'.window.index)
          IN  /\ new > old => "down" \in keys /\ ~\E l \in Levels : old < l /\ l < new
              /\ new < old =>
                    /\ "up" \in keys
                    /\ \/ ~\E l \in Levels : new < l /\ l < old
                       \/ FALSE \in DbOutcomes /\ new = MinLevel]_vars

\* An attempt is inserted at most once per play, for the level that was being
\* played, and says how that play stood when it was left: quit and retried
\* only if it was neither won nor lost.
AttemptsAreTruthful ==
    [][\A a \in inserted' :
          /\ Top.kind = "game" /\ ~Top.recorded
          /\ a.level = Top.level
          /\ a.state = "won" <=> Top.win
          /\ a.state = "died" <=> Top.die /\ ~Top.win]_vars

\* A play remembers an outcome only if the game really had it; a play that was
\* both won and lost in one tick counts as won.
LastStateIsHonest ==
    \A i \in 1..Len(stack) :
        stack[i].kind = "game" =>
            /\ stack[i].last = "won" => stack[i].win
            /\ stack[i].last = "died" => stack[i].die /\ ~stack[i].win
            /\ stack[i].recorded <=> stack[i].last # "in_progress"

\* Only winning attempts are replayed.
ReplaysAreWins ==
    \A i \in 1..Len(stack) : stack[i].kind = "replay" => stack[i].level \in wins

\* The loop of state_update ends: every update that returns false takes a
\* screen off the stack.
TickEnds == phase = "updating" ~> phase # "updating"

\* db.h calls num_wins the "Number of winning plays": a play that was won is
\* recorded before it is left.
WinningPlaysAreCounted ==
    [][(TopIs("game") /\ Top.win /\ ~Top.recorded) =>
          \E a \in inserted' : a.state = "won"]_vars
=============================================================================
