# Verification of sans-serif-bros

`ssb` is a Telnet platformer: one process, one thread, an SQLite file, and any
number of players who connect with a terminal. This directory holds TLA+ models
of the program, the TLC configurations that check them, and proofs checked by
TLAPS. Paths below are relative to `src/` (the repository); its C code is in
`src/src/`, so `server.c` is `src/src/server.c`.

    tlc -config Server_safety.cfg MCServer      # one run: <run>.cfg and the MC module
    tlapm ServerProofs.tla                      # the proofs of one component

## 1. Inventory of the system

| component | state it keeps | operations | talks to |
|---|---|---|---|
| server loop (`main.c`, `server.c`, `session.c`) | doubly linked list of sessions, `num_sessions`, `next_session_id`, listening socket, `running` | accept, serve each session (receive, update, flush, disconnect), shut down | sockets; `terminal_parse`, `state_update`, `terminal_flush` of each session |
| screen stack (`state.c`, `screen.c`) | up to 16 screens, tick clock | push, pop, peek, one tick | the top screen's `update`; shared keyboard |
| screens (`screens/*.c`) | title: selection; game: level, play, last state; pit: top id and index; replay: position in a log | one update per tick | keyboard, canvas, database, game |
| level pit window (`screens/levels.c`) | first id of the page, selected row | up, down | `db_get_metadata`, `db_get_previous_level`, bounds |
| database (`db.c`) | one file: version, level table, attempt table | open, migrate, load levels, query, insert, close | SQLite, the folder of levels |
| game rules (`game.c`) | 25 x 80 field, tick, win/die, input log | one tick | screens |
| input log (`game.c`, `screens/replay.c`, `db.c`) | run-length text | record, replay, convert | game, database |
| terminal (`terminal.c`) | keyboard, window size | parse Telnet and ANSI, flush | sockets, canvas |
| canvas (`canvas.c`) | two buffers of cells | draw, flush the difference | terminal |
| start-up, utilities, logging (`main.c`, `util.c`, `log.c`) | - | options, UTF-8, search, log lines | - |

**How they interact.** `run_server` calls `server_update` (which waits at most
1 ms for a connection and links at most one new session at the head of the list),
then walks the list. For each session it reads packets until none is left, calls
`state_update`, flushes, and unlinks the session if the client left or the player
quit. `state_update` does nothing unless 100 ms have passed; then it updates the
top screen, and while a screen's update returns false it pops it and updates the
one below, in the same tick and with the same keyboard. Screens push, replace and
pop each other, and read and write the database directly. All sessions share one
database connection.

**What is hard.** There are no threads, so the difficulty is elsewhere: clients
and signals act between any two calls; sessions are unlinked in the middle of a
walk over their list; a closed screen's keys reach the next screen; a play's
outcome is reported a tick after it happened; statements of a migration fail one
by one or are cut short by a kill, and most results are ignored; the rules of the
game build the next field in one pass from a field that some of them also change;
messages arrive cut anywhere and output is lost without a word, while each side
keeps its own idea of what the screen shows. `PROJECT.json` lists each hazard at
its line.

**What makes each component correct.** Server: no freed session is reachable, the
links are consistent, each walk serves every listed session once, clients that
left are reaped. Screens: the stack keeps its shape, no key press outlives its tick,
an attempt is recorded once and truthfully. Pit: the selection is always on a row
and walks the table level by level. Database: the committed file has the tables and
the logs of the version it claims, and opening it ends. Game: the rules
neither lose nor multiply what they should not, the exit asks for the money, and a
pass stays within the field. Input log: what is recorded, converted and replayed
is what was played. Terminal: keys and window sizes are understood wherever
packets are cut. Canvas: what is drawn is sent, in the right place, each flush
ends, and no screen draws outside.

## 2. Modules

| module | models | depends on |
|---|---|---|
| `SessionList` | abstract: an ordered list that is served in passes | - |
| `Server` | `run_server`, `server.c`, `session.c`, with the pointers | refines `SessionList` |
| `ServerProofs` | theorems about `Server` | `Server` |
| `LevelPit` | the window over the level table and the queries behind it (pure) | - |
| `Screens` | `state.c` and the four screens of one session | extends `LevelPit` |
| `ScreensProofs` | theorems about both | `LevelPit`, `Screens` |
| `Database` | what a database file holds, and when it is whole | - |
| `DatabaseFile` | abstract: upgrades and additions, seen through commits | extends `Database` |
| `Migration` | `db_create`, `migrate`, `load_levels`, closing, crashing | refines `DatabaseFile` |
| `MigrationProofs` | theorems about `Migration` | `Migration` |
| `GameRules` | one tick of the field: the rules of the tiles (pure) | - |
| `Game` | `struct game` from one play to the next | extends `GameRules` |
| `GameProofs` | theorems about every tick of every field | `Game` |
| `InputLog` | the recorder, the conversion and the replay of plays | - |
| `InputLogProofs` | theorems about every play, every old log and every buffer | `InputLog` |
| `Utf8` | `util.c`: encoding and decoding of code points (pure) | - |
| `Canvas` | `canvas.c`: drawing, resizing, flushing (pure) | extends `Utf8` |
| `Terminal` | `terminal_parse` (pure) | - |
| `Display` | a session between the client's keys and the client's screen | extends `Canvas`, `Terminal` |
| `DisplayProofs` | theorems about every canvas, message and buffer | `Display` |
| `Drawing` | where the screens draw, and the assertions of `canvas.c` (pure) | - |
| `DrawingProofs` | theorems about every window a client can ask for | `Drawing` |
| `Induction` | lemmas on induction, recursive functions and folds over sequences, for the proofs | - |
| `MC...` | instances of `Server`, `Screens`, `Migration`, `Game`, `InputLog` and `Display` for TLC | the above |

Definitions whose comment begins with "Mutant" are variants of the definition
below them with a plausible bug; nothing uses them. Putting one in place of the
original makes TLC report the property that `PROJECT.json` pairs it with, which
shows that the property depends on that code.

### Server

`next`, `prev`, `head`, `numSessions` are the C fields, `alloc` the structs that
are allocated, `cursor` the local variable `session` of the loop, `pc` the place
of the thread. The actions are the calls of the loop in their order:
`SelectTimeout`/`SelectReady`, `Accept`/`AcceptFails` (create, link and count in
one step, as nothing else can run in between), `BeginSession`/`EndPass`
(`server_next_session`), `ReceiveData`/`ReceiveEnd`, `Update`, `Flush` or
`FlushKilled`, `Retain`/`Retire` (with the "store the previous session" of
main.c:139), and `DestroyNext`/`DestroySession`/`DestroyDone`. Clients connect,
send, close and are reset between any two of them (`Client*`, external), and
SIGTERM arrives at any moment: `Sigterm` interrupts `select` if the thread is in
it (select then fails with EINTR and the loop ends), and otherwise changes nothing,
as `handle_signal` only looks for SIGKILL.

`Update` leaves open whether the session wants to stay: `Screens` decides that.
`FlushKilled` is SIGPIPE: `send` to a connection that was reset ends the process,
because nothing handles or blocks that signal. Whether the state of one session
is right is not the business of this module.

### Screens

One session between its keyboard and the database. A step is one `screen_update`
of the loop in `state_update`; `phase` is `updating` inside a tick. A screen is a
record; a screen whose creation failed is the NULL screen, which is pushed like
any other and ends the session when it is peeked. `Push` clears the keyboard,
`Pop` keeps it: that is how a Q in a game also closes the pit below it. The game
is abstract: a tick of play (`PlayTick`) may win, kill, both or neither, and
reports `in_progress`; the next one reports the outcome (`Verdict`), as the early
return of `game_update` does. `active` stands for `input_log_len > 5`. Each query
may fail where `DbOutcomes` has FALSE. `wins` are the levels with a winning row in
the attempt table (other sessions add to it), `inserted` what the last step
recorded. Where the code's behaviour is undefined, the outcome is a choice that
includes the phase `wild`: the peek below an empty stack (state.c:53) and a
scrollbar divided by zero (levels.c:41).

### Database, DatabaseFile, Migration

A level is its id, an attempt the encoding of its log: `old` (version 2), `new`
(version 3) or `garbled` (converted twice). `disk` is the committed file, `view`
what the connection sees, `txn` whether a transaction is open, `pc` the next SQL
statement. Every statement is a step; `NextStatement` is where the control flow
goes after success, `NextBatch` where it goes after `execute_many_statements`
gave its batch up, whose result `migrate` never looks at. SQLite
is external and modelled from its use: BEGIN fails inside a transaction, COMMIT
outside one, CREATE TABLE if the table exists, any other statement whenever
`Faults` allows it, leaving its transaction open (`keep`: for example SQLITE_BUSY)
or rolled back (`abort`: for example SQLITE_FULL). A crash or close drops `view`.
`db.c` looks at neither, so a rollback has two effects that the properties name
instead of assuming them away, by two history variables. `unmade` has the level table
while the first upgrade of a file was rolled back: the next batch finds no
transaction, and the file goes on to version 3 without that table. `misfiled` has the
attempts recorded into a file of version 2: the last COMMIT failed and left the
transaction open, the sanity check read version 3 inside it, and a later statement
rolled the whole conversion back under the open database. `DatabaseFile` allows both
as `UpgradeWithoutLevels` and `MisfileAttempt`.
Read-only statements of an open database are left out: they change nothing.

### GameRules, Game

A tick is a function from the work record `w` (the two fields, the keys, the
flags, the counts of the pass) to the record after it. `Pass` goes over the cells
in the code's order; `FrameTile` is the switch of `process_frame_1` and has one
operator per tile; `SlowTile` that of `process_frame_8`. `probe` is a question
with side effects, so the `Probe` operators return both the answer and the record,
and a caller that ignores the answer keeps the record. Whether a rule reads `field`
or `next_field` is the whole difficulty, and is kept for each of them. `stray`
records accesses outside the field: `"write"` where the code writes behind
`next_field`, `"crash"` where it reads `field[y][-1 as unsigned]`. `Game` is the
struct's life: `Create` is what `game_create_from_utf8` resets, which is neither
the field nor `reverse`; `Update` is `game_update` without the log. Its tick is
kept modulo 8 from the tenth on (9 is followed by 2), so that 0 is a play before its
first tick and 1 its first tick only. Two things of accesses outside the field are
left out: an index one behind a row's end, such as `field[y][COLUMNS]`, is another
cell of the struct and not counted as stray, and what a stray write overwrites is
not modelled.

### InputLog

Texts are sequences of digits and letters. `Record` is lines 542-568 of
`game.c`, with what `snprintf` truncates and what it returns; `ConvertNumber`,
`ConvertLetters` and `ConvertEnd` are the branches of `convert_input_log` with
their checks of the room left; `ReplayIdle`, `ReplayCount` and `ReplayLetter` those
of `replay_screen_update`. `Meaning` and `OldMeaning` are the reference: the inputs
a text stands for in the new and in the old format. `IsOldLog` says what the old
recorder left behind: idle ticks as counts that do not begin with nought, the other
inputs letter by letter, neither with more ticks than an int holds (`IsCount`, which
is why a count's text has at most `MaxDigits` digits).

### Utf8, Canvas, Terminal, Display

`Canvas` is `struct canvas` as a record: `front` is `buf[0]` (believed to be on the
client's screen), `back` is `buf[1]`. `Flushed` is one call of `canvas_flush` with
what it writes, as a sequence of cursor moves, styles and characters; the lengths
of the escapes are the constants `MoveBytes` and `StyleBytes`, those of the
characters come from `Utf8`. `Terminal` is the parser on bytes, and reads past the
end of a packet nowhere, as each of its guards counts what is left. It also says
what a telnet client sends (`IsMessage`, external, not part of the server): a
character, an arrow, an answer to an option, or the size of its window, with the
keys and the size each means. `MCDisplay` takes seven of these, and has TLC evaluate
that they are such (`MessagesAreProper`). `Display` puts
them into one pass of the serving loop: `Receive` takes whole messages and a part
of the next; `Tick`, the `Draw*` calls and `Drawing` are a screen's update, of
which the last call is one that restarts the flush, as on all four screens;
`PushScreen` is an update that ends with an erased canvas, the title's before it has
drawn, the pit's behind what it drew, so that its blank canvas is flushed; `Flush` is
the loop of main.c:132. An erase is in the style the screen has set, which for the pit
is not that of `canvas_reset`. The client's terminal (`Shown`, external) moves, changes
style and prints, and each of its cells has a character and a style; behind the last
column it prints nowhere that counts, and what it shows after a change of size is
unknown. A send may arrive in part (`Arrives`). `whole` says that a forced flush has
arrived so far; `styled`, that besides the client's style was at each buffer's end the
one `flush_state` says (`Believed`).

### Drawing

Each call of a screen that draws is a conjunct with the assertion the called
function makes; texts are their lengths. The module is pure, and its theorems are
about all 121 x 176 windows, which the parser can produce.

## 3. Runs

| run | specification and bounds | shows |
|---|---|---|
| `Server_safety` | 4 sessions (symmetric), no payload | `TypeOK`, `MemorySafe`, `DoublyLinked`, `NewestFirst`, `CountIsOpenSessions`; refinement of `SessionList` (`ListSpec`) |
| `Server_live` | 2 sessions, 2 packets each, fair | `ListedIsServed`, `LeaverIsReaped`, `ShutdownCompletes` |
| `Server_lost` | violation | `ExistingSessionsAreListed` |
| `Screens_safety` | levels {2, 4, 5, 7}, 3 rows per page, 2 keys per tick, failing queries | `TypeOK`, `StackShape`, `SelectionShown`, `LastStateIsHonest`, `KeysConsumed`, `AttemptsAreTruthful`, `PitWalksLevels` |
| `Screens_live` | level {0}, 2 keys, failing queries, fair | `TickEnds` |
| `Screens_unrecorded` | violation | `WinningPlaysAreCounted` |
| `Migration_safety` | versions 0..4, 3 attempts (one too long to convert), a folder of up to 4 files (one unreadable, two of one number), statements that fail, in an open transaction or one rolled back, kills; fair | `TypeOK`, `SchemaMatchesVersion`, `LogsMatchVersion`, `OpenIsUsable`; refinement of `DatabaseFile` (`FileSpec`); `OpeningEnds` |
| `Game_rules` | field of 4 x 5, 134 levels, no key, each key, and two at once | `TypeOK`, `ExitNeedsMoney`, `CopiesHaveMakers`, `WallsStand`, `FieldIsLeftAtItsEdges` |
| `InputLog_safety` | buffers of 6 bytes, counts to base 3, plays of 9 ticks, all old logs of 5 bytes | `TypeOK`, `LogsFitTheirBuffers`, `RecorderIsExact`, `ConversionKeepsThePlay`, `ReplayReadsTheOldFormat` |
| `InputLog_replay` | violation | `ReplayRepeatsThePlay` |
| `Display_safety` | windows of up to 3 x 3, 7 messages of which 2 are on the way, one draw a tick, one loss | `TypeOK`, `FlushesAreComplete`, `ForcedFlushRepairs`, `EveryFlushAdvances`, `CodePointsSurvive`, `PacketsAreUnderstood`, `BuffersPaintTheirCells` |
| `Display_misplaced` | violation: two draws a tick, no loss | `ClientSeesTheCanvas` |

**Bounds.** Four sessions give a list with a head, two in the middle and a tail,
and a removal of each while the pass stands before, at or after it; the pointer
properties only ever speak of a session and its neighbours, and are proved for
any number. Four levels on three-row pages make the page scroll both ways across
a gap; two keys in one tick give every priority between two branches of an
update. The capacity of the stack is the code's 16: the point is that it is never
met. Three attempts give an empty table, one row, and a conversion with rows
before and after the one that fails; version 4 stands for any future version. The
folder holds any of the files; two of one number make the second insert fail.
Level {0} makes the scrollbar divide by zero, so `Screens_live` also reaches the
undefined outcomes.

No rule of the game looks further than two rows or one column, so a field of four
rows and five columns has cells at an edge, next to one, and away from all of
them, for every rule; fourteen levels are drawn for the rules that need several
tiles, the other 120 put a player on a ledge in front of every tile that can be
walked into, above every tile that can be stood on. Two tiles without a player meet
only where these levels let them. The tick counts modulo 8, so
each level is played until its states repeat, with every order of the keys held.
Six bytes hold a log of up to six runs, or one of two digits and two more runs, so
that the buffer is met exactly, by one, and in the middle of a count; to base three
a play of nine ticks has counts of one, two and three digits. What is said of the
buffer's size is proved for every size.
A window of three columns and rows has a cell at the beginning, inside and at the
end of a line; six bytes hold a move, a style and a two-byte character and no more,
or two characters, so flushes end between any two cells and in the middle of each.
One two-byte character in one style is drawn on blanks in either of two, so that a
style is dropped with its character (canvas.c:148) and a loss may leave one behind.
Messages are bounded (`MaxWire`) and are sent while the client's screen is blank and
plain, which is what erasing leads to: a message changes only
the keyboard and the canvas, and a canvas whose content was not yet sent occurs
under a blank screen too. `MaxDraws` is one, which reaches any cell, area, line or
text; what several calls leave is what their ticks leave, as the canvas is only
read by the flush.

**Fairness.** `FairSpec` is weak fairness of one actor in each module: the server
thread (`ServerStep`), the loop of a tick that has begun (`UpdateStep`), the
opening of the database (`Opening`). All three are straight-line code of a single
thread that blocks nowhere for longer than `select`'s one millisecond, so the
operating system's scheduler gives exactly that. Nothing is assumed of players,
clients, signals, kills or faults. `LeaverIsReaped` and `ListedIsServed` count on
clients sending finitely many packets (`MaxSends`), since the receive loop
(main.c:122) goes on while data arrives. `Display` needs no
fairness: instead of saying that flushing ends, `EveryFlushAdvances` gives the
measure by which it does, in every state.

### Where the code does not do what it says

Each violation run checks one statement of the code's own comments.

- **Lost sessions** (`Server_lost`): removing the head sets `server->sessions` to
  NULL, so when the newest player leaves all others stop being served (server.c:140).
- **Unrecorded wins** (`Screens_unrecorded`): a key in the tick after the winning
  one (space, the natural key) leaves the play before it is recorded.
- **Replays** (`InputLog_replay`): a count is replayed as idle ticks before the
  letter (screens/replay.c:77), although the recorder and the conversion write it
  as ticks of that letter.
- **Misplaced cells** (`Display_misplaced`): if the first cell of a flush has not
  changed and the second has, no cursor move is sent (canvas.c:106). The forced
  flush of every hundredth tick of a play repairs the characters, and the colours
  but for those named below (`ForcedFlushRepairs`); the title and the pit have none.

Met while modelling and without a run of their own; the model of each has it as an
action or an outcome, or the theorem named says so:

- *Server.* The handler of SIGTERM tests for SIGKILL (main.c:25), so that SIGTERM
  changes nothing unless it interrupts `select` (`Sigterm`). Nothing enforces
  `MAX_SESSIONS` (`Accept`). SIGPIPE is not handled (`FlushKilled`).
- *Screens.* After the title is popped, `screens[-1]` is read (`PeekEmpty`). Space
  after the level before a gap closes the game (`GameContinue`). The pit without
  levels divides by zero (`PitScrollbarWild`).
- *Database.* Upgrades continue after one that failed; if SQLite rolled it back,
  version 3 is committed without the level table, and no later start repairs it
  (`unmade`). If the last COMMIT failed and a later statement is rolled back, attempts
  are recorded in the new encoding into a file of version 2, and the next start
  converts them again (`misfiled`). A kill before
  the levels are loaded loses them for good, as the version is committed already
  (`Crash`). The last COMMIT may fail unnoticed, leaving the database usable but
  nothing stored (`Commit`). A missing folder of levels stops the first start
  although the README calls it optional (`Check`).
- *Game.* A player on, or carried to, a boulder in the first column who holds the
  key to the right makes the server read far outside the field; a boulder pushed in
  the last rows overwrites what follows it (`FieldIsLeftAtItsEdges`). Cells that a
  shorter text leaves out, and a lever that was pulled last, survive into the next
  play (`Create`).
- *Input log.* The run that is going on is never written, so the winning move is
  not in the log of a win (`Store`); a play that begins with a key is logged with an
  idle tick before it (`Logged`); once the log is full, `input_log_len` may lie
  behind the buffer (`BuffersHold`), where the screen then writes a terminator
  (game.c:240 of `screens/`, which is not in the model).
- *Display.* A window size cut by the end of a packet may be read as keys: the
  width 81 is the letter Q, which closes a play (`Command`). A style counts as sent
  (canvas.c:142) when its two-byte character does not fit behind it and both are
  dropped (canvas.c:148); the next buffer begins without it, and its cells have the
  wrong colour although all of it arrives (`FlushCell`). A style lost on the way is
  not sent again by a forced flush either, as `canvas_force_next_flush` leaves
  `flush_state` as it is (`ForceNextFlush`). Resizing keeps only the first row
  (`Resized`), which the next erase hides.
- *Drawing.* An assertion of `canvas.c` aborts the server, and with it every
  session, when the log of a play in a bordered window is longer than two lines
  (`LongPlaysAbort`), when the window is tall and narrow (`TitleStands`,
  `GameStands`), and for every replay in a bordered window of 33 rows
  (`GameStands`).
- *Start-up.* The test of the port is inverted (main.c:212): `-s` without `-p` is
  refused, `-s` with another port is not.

## 4. Proofs

TLAPS proves the following for every value of the constants that satisfies the
modules' named assumptions. These say: the sessions are a finite set
(`SessionsAssumption`); the levels of the pit are a finite set of numbers and a page
has two rows or more (`Screens` asks for a stack of three at least); a file has one
number (`MigrationAssumption`); a field has a cell and the texts of the levels are
made of the tiles and line ends the parser knows (any other character is the tile
`Other`); the digits are none of the letters, and no play or old log counts further
than an int (`TicksAssumption`, `OldLogsAssumption`); a window has a column and a
row, messages are made of bytes, and the flush buffer holds a move, a style and one
character (`SidesAssumption`, `DisplayAssumption`, `BufferAssumption`). TLC evaluates
each of them on the instances above. One theorem, `PacketsRead`, assumes more of the
messages, and says so itself.

- `Induction`: every induction below is one of its lemmas. They speak of sets where
  a reader expects predicates (a set that has 0 and with each number the next has
  all of them), because a lemma about a set can be cited by name. From them follows
  that a function defined by recursion on an interval exists (`RecursionExists`), so
  that a recursive function of a model satisfies the equation that defines it, and
  that folding a reader over a sequence (`Folded`) goes symbol by symbol and splits
  wherever the sequence does (`FoldedSteps`, `FoldedConcat`).
- `ServerProofs`: `TypeCorrect`, `NoUseAfterFree`, `ListIntegrity`
  (`DoublyLinked /\ NewestFirst`), `OrderedList`, `CountCorrect`. `MemorySafe`
  alone is not inductive: freeing a session is safe because its neighbours' links are the
  inverse of its own, and no freed session has links into it. The inductive
  invariant `IInv` therefore joins the types, `DoublyLinked`, `MemorySafe`, the
  ordering by id (ids only grow, so a fresh session is newer than all) and the
  facts that tie `pc` to the cursor. It also covers the sessions lost behind a
  departing head, so the bug of `Server_lost` does not make memory unsafe.
  `ImplementsSessionList`: the server refines `SessionList`. The mapping follows the
  links from the head; `Follows(L)` says that L is what they lead through and
  `Pass(L, p)` that the walk stands at its p-th session, and each step of the server
  turns such an L and p into those of a step of the list, or leaves them.
- `ScreensProofs`: all the safety properties of `Screens_safety`, and
  `ReplaysShowWins`: only a level that was won is replayed. `UpKeyShown` and
  `DownKeyShown` say that the arrow keys leave the selection on a displayed row:
  between two ids the page starting at the lower one has at least one row more.
  `PitWalks` says that the row behind the selection moves by one level or stays at an
  end, by counting the levels before it (the row of a page holds the level with that
  many before it). `StackShape` needs to know that only the title lies at the bottom
  and that nothing is pushed on a game or replay; `AttemptsAreTruthful` follows from
  `LastStateIsHonest`, whose last conjunct links the history variable `recorded` to
  the state the code keeps.
- `MigrationProofs`: `TypeCorrect`, `SchemaIsComplete`, `LogsConvertOnce`,
  `OpenCorrect`, and `Refinement`: every step of `Migration` is a step of
  `DatabaseFile` or leaves the file as it is. None assumes anything of the faults: a
  statement may fail in either way, wherever it stands. The invariant says for each
  `pc` what `view` looks like (`Stage`): `pc` and the version advance together unless
  a batch was given up. One given up in one that stays
  open makes every later BEGIN fail, so the old version stays, and the file with it;
  given up in one that was rolled back, it leaves `view = disk`, and the next upgrade
  starts from there, without the level table if it was the first (`unmade`). While a
  transaction is open, `view` is an upgrade of `disk` (`InStep`). What an open database may lose
  to a rollback is the upgrade whose COMMIT failed; `misfiled` has what is recorded
  from then on.
- `GameProofs`: `TypeCorrect`, `ExitIsEarned` (`ExitNeedsMoney`), `WallsAreSafe`
  (`WallsStand`), `OnlyItsEdgesLeak` (`FieldIsLeftAtItsEdges`), `CopiesAreMade`
  (`CopiesHaveMakers`), for a field of any size and whichever rules meet in it. A context holds what a tick started with;
  `Reach` of it are the works that any rules may have made of that, and there is one
  lemma for each operator of `GameRules`: it leads from `Reach` to `Reach`. Induction
  over the cells carries that through a pass and so through a tick. `ExitNeedsMoney`
  is not inductive: what a tick needs of the one before is that it left no exit open
  while there was money (`NoExitLeft`), which every pass sees to when it has visited
  every cell. The last case of `WallsStand`, the wall that a falling walker may take,
  is one the proof cannot do without: `probe` pushes what the walker stands on even
  when its answer is not used.

  `CopiesAreMade` cannot be had by counting what each rule adds: most rules write a
  tile to its new cell before they blank the old one, and a boulder that is pushed
  aside stays in the field the pass reads. The proof tracks tiles instead. In a tick
  whose field has nothing that doubles a tile T (`Unmade`), every T the tick began with
  keeps one place where it can be, and every T of the field being made is at such a
  place (`Tracked`, `Track`). Most rules are `Calm`: they write no T, and free no cell
  that was free in the field and has been taken since. The others move one T from the
  cell they stand at (`Simple`, `Rolls`). `Spot` says which places are possible when the
  pass has come to a cell: where the T was, or, once its cell has been visited,
  elsewhere. A boulder may leave before that, pushed by a player or carried by a
  platform; then it must not fall from where it no longer is, and `Aside` says why it
  does not: what is beneath it has been visited, or lies there still. That this goes on
  being so when another rule moves another tile is `Undisturbed`. At the end of the pass
  the places are the image of the cells the Ts began in, so there are no more of them.

- `InputLogProofs`: `BuffersHold`; `TypeCorrect`, `RecordedExactly`
  (`RecorderIsExact`), `ConvertedExactly` (`ConversionKeepsThePlay`), `ReplayedAsOld`
  (`ReplayReadsTheOldFormat`). The meaning of a text is what folding a reader over it
  gives; that a count reads back as the number it was written for (`DigitsNumber`) is
  an induction over its digits, from the lowest. A run appended to a text in which no
  count waits for its letter adds its ticks to the meaning (`RunAppended`); a run cut
  off has lost its letter and adds nothing (`RunCut`); a count or a row of one letter
  taken from the head of an old log takes its ticks from the meaning (`OldNumber`,
  `OldLetters`). Beyond the properties the invariant needs, of the recorder, that the
  log ends with a letter while there is room; of the converter, that what it writes is
  the shortest text of what it means and ends with another input than the rest begins
  with, so that the text of the whole play is no shorter (`TextLengthGrows`), which
  is why a refusal is right; of both, that no count begins with nought.
- `DisplayProofs`: `TypeCorrect`, `FlushedInWhole` (`FlushesAreComplete`),
  `RepairedByForce` (`ForcedFlushRepairs`), `FlushesEnd` (`EveryFlushAdvances`),
  `BuffersPaint` (`BuffersPaintTheirCells`), and `CodeReadBack`, of which
  `CodesSurvive` (`CodePointsSurvive`) is what the run checks: every code point, not
  only the corners, is encoded as the RFC lays it out and read back. The rounds of the
  encoder and the decoder are followed one by one; that the high bits of the lead byte
  tell the number of bytes (`LeadTells`), and that a number split into sextets is what
  joining them gives (`BitsJoined`), are lemmas of their own. The parser keeps its
  types whatever the bytes of a packet are, and goes on with each step until all is
  read (`ParseInduction`). `PacketsRead` (`PacketsAreUnderstood`) assumes that the
  messages are some of those `Terminal` lists (`IsMessage`): every key but "[", every
  arrow, every answer and every window of less than 2^15 columns and rows. A packet
  joins pieces (`Joins`), each the whole of a message, the end of one that was cut
  (only the first: `WireIsSent`) or the beginning of either (only the last). In no message
  does an IAC stand alone (`Alone`): another byte is behind it, and this is SB only at
  the beginning of a size. So where the parser finds IAC SB a size begins in its place
  (`AnnouncedInPlace`), and it reads the numbers that were sent or, if they were cut,
  nothing. Of whole messages each is understood in its turn (`MessageTaken`, `Behind`);
  of a size the parser leaves IAC SE, and passes over these. A pass of the flush has, up to its
  place, made the front what the back is (`CarriedTo`), painted the client's screen if
  it is forced (`PaintedTo`) and put each character where it belongs (`PlacedTo`), by
  induction over the cells. The invariant says this of the flushes that are not over
  (`PassedIsCurrent`, `Repairing`), and that a forced flush begins at the first cell
  (`ForceBegins`), or it would not repair everything. For the colours it says that the
  client has the style the canvas believes while `styled` holds: each cell is then
  painted in its own style, as every change of style is written before the cell. That
  the hypothesis is needed shows at canvas.c:142, see above.
- `DrawingProofs`: no induction, but arithmetic over every window, which gives the
  exact conditions: `TitleFits` (no text leaves its row) and `TitleStands` (and yet
  the assertion, which compares the row with the width, fails in tall windows),
  `PitStands` (for rows of up to 57 characters, which levels with ids of up to seven
  digits have), `GameStands`, `SmallWindowsStand`, `LongPlaysAbort`.

Only model-checked: the liveness properties `ListedIsServed`, `LeaverIsReaped`,
`ShutdownCompletes`, `TickEnds`, `OpeningEnds` (the prover has no ENABLED). Every
other property of a passing run is a theorem.

## 5. Not modelled, and the plan

Not modelled because nothing the properties speak of depends on it: logging, the
build, the level files themselves, the fuzzers, the vendored test library, the
search in `util.c` (which nothing calls), the answers to negotiated options, colours
and wording.

Done: (1) `SessionList`, `Server` with proofs and refinement, (2) `LevelPit`,
`Screens` with proofs, (3) `Database`, `DatabaseFile`, `Migration` with proofs and
refinement, (4) `GameRules`, `Game` with proofs, (5) `InputLog` with proofs, (6)
`Utf8`, `Canvas`, `Terminal`, `Display` with proofs, (7) `Drawing` with proofs. What
is left:

8. `Startup`: the options, server_create, and the standalone loop, whose only
   difference from `Display` is that there is one session.
9. A composition of several sessions of `Screens` on one open database
   (`Migration`), where one session's wins change another's pit (`OtherWins` stands
   for it now).
