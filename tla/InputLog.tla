------------------------------ MODULE InputLog ------------------------------
(***************************************************************************)
(* The log of a play: game_update writes it as run lengths ("4L" is four   *)
(* ticks to the left), the third upgrade of the database converts logs     *)
(* that counted idle ticks only ("4L" is four idle ticks and one to the    *)
(* left), and the replay screen reads what was recorded or converted.      *)
(* A text is a sequence of digits (numbers) and of letters.                *)
(***************************************************************************)
EXTENDS Integers, Sequences, FiniteSets

CONSTANTS
    Limit,      \* INPUT_LOG_LEN, the size of the recorder's and converter's buffer
    Base,       \* ten: the base counts are written in
    MaxDigits,  \* how many digits a count can have
    Idle,       \* the letter of an idle tick
    Moves,      \* the letters of the four directions
    MaxTicks,   \* bound: the ticks of a play
    OldLogs     \* the logs that an old database holds

ASSUME LimitAssumption  == Limit \in Nat \ {0}
ASSUME DigitsAssumption == Base \in Nat /\ Base > 1 /\ MaxDigits \in Nat \ {0}
Letters == Moves \cup {Idle}
Digit   == 0 .. Base - 1

ASSUME LettersAssumption == Idle \notin Moves /\ Letters \cap Digit = {}

VARIABLES
    phase,      \* "playing" | "converting" | "refused" | "replaying" | "replayed"
    last,       \* game.last_input
    since,      \* game.ticks_since_input_started
    log,        \* game.input_log, up to its terminator
    len,        \* game.input_log_len
    text,       \* the log in the database (new_log while it is converted)
    rest,       \* what is still to be read: of the old log, or next_input
    idles,      \* remaining_idles of the replay
    played,     \* history: the inputs that were played, or that an old log means
    replayed    \* history: the inputs the replay has given to its game

recorder == <<last, since, log, len>>
vars     == <<phase, recorder, text, rest, idles, played, replayed>>

-----------------------------------------------------------------------------
(* Texts. *)

Times(c, n) == [i \in 1 .. n |-> c]
Least(a, b) == IF a < b THEN a ELSE b
Drop(s, n)  == SubSeq(s, n + 1, Len(s))

\* n without its last k digits.
Shifted(n, k) ==
    LET left[i \in 0 .. k] == IF i = 0 THEN n ELSE left[i - 1] \div Base IN left[k]

\* "%d" without its conversion to characters.
Width(n)  == Cardinality({k \in 1 .. MaxDigits - 1 : Shifted(n, k) > 0}) + 1
Digits(n) == [i \in 1 .. Width(n) |-> Shifted(n, Width(n) - i) % Base]

\* A count is an int: it has at most so many digits.
IsCount(n) == Shifted(n, MaxDigits) = 0

ASSUME TicksAssumption == MaxTicks \in Nat /\ IsCount(MaxTicks)

\* n ticks of one input as the new format has it.
Run(c, n) == IF n > 1 THEN Digits(n) \o <<c>> ELSE <<c>>

\* How many elements at the head of s are in S, and the number that its first
\* k digits make.
Leading(s, S)  == Cardinality({i \in 1 .. Len(s) : \A j \in 1 .. i : s[j] \in S})
Number(s, k)   ==
    LET value[i \in 0 .. k] == IF i = 0 THEN 0 ELSE Base * value[i - 1] + s[i] IN value[k]

\* No count begins with nought.
NoNoughtBegins(s) == \A i \in 1 .. Len(s) : s[i] = 0 => i > 1 /\ s[i - 1] \in Digit

\* What a log of the old format holds: idle ticks are counted, the others follow
\* each other; neither the counts nor the repetitions are more than an int holds.
IsOldLog(s) ==
    /\ s \in Seq(Digit \cup Moves) /\ NoNoughtBegins(s)
    /\ \A i \in 1 .. Len(s) :
         LET t == Drop(s, i - 1)
         IN  IsCount(Number(t, Leading(t, Digit))) /\ IsCount(Leading(t, {s[i]}))

ASSUME OldLogsAssumption == \A s \in OldLogs : IsOldLog(s)

\* The inputs a text stands for: in the new format a number is how often the
\* letter behind it is repeated, in the old one it is idle ticks of its own.
Meaning(s) ==
    LET upTo[i \in 0 .. Len(s)] ==
          IF i = 0 THEN [count |-> 0, inputs |-> <<>>]
          ELSE LET m == upTo[i - 1] IN
               IF s[i] \in Digit THEN [m EXCEPT !.count = Base * @ + s[i]]
               ELSE [count |-> 0,
                     inputs |-> m.inputs \o Times(s[i], IF m.count = 0 THEN 1 ELSE m.count)]
    IN  upTo[Len(s)].inputs

OldMeaning(s) ==
    LET upTo[i \in 0 .. Len(s)] ==
          IF i = 0 THEN [count |-> 0, inputs |-> <<>>]
          ELSE LET m == upTo[i - 1] IN
               IF s[i] \in Digit THEN [m EXCEPT !.count = Base * @ + s[i]]
               ELSE [count |-> 0, inputs |-> (m.inputs \o Times(Idle, m.count)) \o <<s[i]>>]
        all == upTo[Len(s)]
    IN  all.inputs \o Times(Idle, all.count)

-----------------------------------------------------------------------------
Fresh == last = Idle /\ since = 0 /\ log = <<>> /\ len = 0

Init ==
    /\ Fresh
    /\ text = <<>> /\ idles = 0 /\ replayed = <<>>
    /\ \/ phase = "playing" /\ rest = <<>> /\ played = <<>>
       \/ phase = "converting" /\ rest \in OldLogs /\ played = OldMeaning(rest)

(***************************************************************************)
(* The recorder: what a tick of a running game adds to the log is the run  *)
(* of inputs that this tick ends.  snprintf keeps within the buffer but    *)
(* returns the length it would have needed.                                *)
(***************************************************************************)
\* Mutant: a run of two ticks is written as one.
EndRunFromThree ==
    IF since > 2
    THEN log' = log \o SubSeq(Run(last, since), 1, Least(Len(Run(last, since)), Limit - len - 1))
         /\ len' = len + Len(Run(last, since))
    ELSE log' = Append(log, last) /\ len' = len + 1

EndRun ==
    LET run == Run(last, since) IN
    /\ log' = IF since > 1
              THEN log \o SubSeq(run, 1, Least(Len(run), Limit - len - 1))
              ELSE Append(log, last)
    /\ len' = len + Len(run)

\* Mutant: the run that begins has not lasted a tick yet.
RecordFromZero(input) ==
    IF input = last THEN since' = since + 1 /\ UNCHANGED <<last, log, len>>
    ELSE IF len < Limit THEN EndRun /\ last' = input /\ since' = 0
    ELSE UNCHANGED recorder

\* Mutant: the log is full one byte too late.
RecordWhenFull(input) ==
    IF input = last THEN since' = since + 1 /\ UNCHANGED <<last, log, len>>
    ELSE IF len <= Limit THEN EndRun /\ last' = input /\ since' = 1
    ELSE UNCHANGED recorder

Record(input) ==
    IF input = last THEN since' = since + 1 /\ UNCHANGED <<last, log, len>>
    ELSE IF len < Limit THEN EndRun /\ last' = input /\ since' = 1
    ELSE UNCHANGED recorder

\* game_update of a game that is not over.
Play(input) ==
    /\ phase = "playing" /\ Len(played) < MaxTicks
    /\ Record(input)
    /\ played' = Append(played, input)
    /\ UNCHANGED <<phase, text, rest, idles, replayed>>

\* game_create_from_utf8, for a retry or the next level.
Create ==
    /\ phase = "playing" /\ played # <<>>
    /\ last' = Idle /\ since' = 0 /\ log' = <<>> /\ len' = 0
    /\ played' = <<>>
    /\ UNCHANGED <<phase, text, rest, idles, replayed>>

\* The attempt is inserted as it stands; the run that is going on is not in it.
\* Somebody watches its replay.
Store ==
    /\ phase = "playing"
    /\ phase' = "replaying"
    /\ text' = log /\ rest' = log
    /\ UNCHANGED <<recorder, idles, played, replayed>>

(***************************************************************************)
(* convert_input_log, run by run.                                          *)
(***************************************************************************)
Converted(run, n) ==
    /\ phase = "converting"
    /\ IF Len(text) + (IF n = 1 THEN 0 ELSE Len(run)) < Limit
       THEN text' = text \o run /\ UNCHANGED phase
       ELSE phase' = "refused" /\ UNCHANGED text
    /\ UNCHANGED <<recorder, idles, played, replayed>>

ConvertNumber ==
    /\ rest # <<>> /\ rest[1] \in Digit
    /\ LET k == Leading(rest, Digit) IN
       /\ Converted(IF Number(rest, k) = 1 THEN <<Idle>> ELSE Digits(Number(rest, k)) \o <<Idle>>,
                    Number(rest, k))
       /\ rest' = Drop(rest, k)

\* Mutant: a repeated letter is written without its count.
ConvertLettersOnce ==
    /\ rest # <<>> /\ rest[1] \notin Digit
    /\ Converted(<<rest[1]>>, 1)
    /\ rest' = Drop(rest, Leading(rest, {rest[1]}))

ConvertLetters ==
    /\ rest # <<>> /\ rest[1] \notin Digit
    /\ LET k == Leading(rest, {rest[1]}) IN
       /\ Converted(Run(rest[1], k), k)
       /\ rest' = Drop(rest, k)

\* The converted log is terminated and written; somebody watches its replay.
ConvertEnd ==
    /\ phase = "converting" /\ rest = <<>>
    /\ IF Len(text) < Limit THEN phase' = "replaying" /\ rest' = text
       ELSE phase' = "refused" /\ UNCHANGED rest
    /\ UNCHANGED <<recorder, text, idles, played, replayed>>

(***************************************************************************)
(* replay_screen_update: the input of one tick.                            *)
(***************************************************************************)
Give(input) ==
    /\ phase = "replaying"
    /\ replayed' = Append(replayed, input)
    /\ UNCHANGED <<phase, recorder, text, played>>

ReplayIdle ==
    /\ idles > 0
    /\ idles' = idles - 1
    /\ Give(Idle)
    /\ UNCHANGED rest

\* Mutant: the tick that reads the count is not taken off it.
ReplayCountLate ==
    /\ idles = 0 /\ rest # <<>> /\ rest[1] \in Digit
    /\ LET k == Leading(rest, Digit) IN idles' = Number(rest, k) /\ rest' = Drop(rest, k)
    /\ Give(Idle)

ReplayCount ==
    /\ idles = 0 /\ rest # <<>> /\ rest[1] \in Digit
    /\ LET k == Leading(rest, Digit) IN idles' = Number(rest, k) - 1 /\ rest' = Drop(rest, k)
    /\ Give(Idle)

\* A letter that is no direction is logged as invalid, and gives an idle tick.
ReplayLetter ==
    /\ idles = 0 /\ rest # <<>> /\ rest[1] \notin Digit
    /\ rest' = Tail(rest)
    /\ Give(IF rest[1] \in Moves THEN rest[1] ELSE Idle)
    /\ UNCHANGED idles

\* From here on the replay's game is left to itself, with idle ticks.
ReplayOver ==
    /\ phase = "replaying" /\ idles = 0 /\ rest = <<>>
    /\ UNCHANGED vars

\* The migration failed: there is no replay.
Refused == phase = "refused" /\ UNCHANGED vars

Next ==
    \/ \E input \in Letters : Play(input)
    \/ Create \/ Store
    \/ ConvertNumber \/ ConvertLetters \/ ConvertEnd
    \/ ReplayIdle \/ ReplayCount \/ ReplayLetter \/ ReplayOver
    \/ Refused

Spec == Init /\ [][Next]_vars

-----------------------------------------------------------------------------
(* Properties. *)

\* What every tick and every run leaves the variables with; a run that has not
\* begun is that of a play that has not begun.
TypeOK ==
    /\ phase \in {"playing", "converting", "refused", "replaying"}
    /\ last \in Letters /\ since \in Nat /\ len \in Nat
    /\ {log, text, rest} \subseteq Seq(Digit \cup Letters)
    /\ {played, replayed} \subseteq Seq(Letters)
    /\ idles \in Nat
    /\ since = 0 => Fresh

\* However long and changeable a play is, the recorder and the converter write
\* within their buffers; input_log_len is the length of what is in the buffer
\* until the buffer is full, and at most one run past its end from then on.
LogsFitTheirBuffers ==
    /\ Len(log) <= Limit /\ Len(text) <= Limit
    /\ len <= Limit + MaxDigits
    /\ len < Limit => len = Len(log)

IsStart(s, t) == Len(s) <= Len(t) /\ s = SubSeq(t, 1, Len(s))

\* The first tick is compared with an idle tick that was never played: a play
\* that begins with a key is logged with an idle tick before it.
Logged == IF played = <<>> \/ played[1] = Idle THEN played ELSE <<Idle>> \o played

\* Until the buffer is full the log, with the run that is still going on, is
\* exactly the play; after that it is a beginning of the play, even where the
\* last run was cut off in the middle of its count.
RecorderIsExact ==
    phase = "playing" =>
        /\ IsStart(Meaning(log), Logged)
        /\ len < Limit => Meaning(log) \o Times(last, since) = Logged

\* The length of the shortest text for these inputs.
TextLength(inputs) ==
    LET run[i \in 0 .. Len(inputs)] ==
            IF i = 0 THEN 0
            ELSE IF i > 1 /\ inputs[i - 1] = inputs[i] THEN run[i - 1] + 1 ELSE 1
        upTo[i \in 0 .. Len(inputs)] ==
            IF i = 0 THEN 0
            ELSE upTo[i - 1] + (IF i < Len(inputs) /\ inputs[i] = inputs[i + 1] THEN 0
                                ELSE Len(Run(inputs[i], run[i])))
    IN  upTo[Len(inputs)]

\* The conversion of an old log loses and invents no input, gives the shortest
\* text, and is refused exactly when that text and its terminator do not fit.
ConversionKeepsThePlay ==
    /\ phase = "converting" => Meaning(text) \o OldMeaning(rest) = played
    /\ phase = "refused" => TextLength(played) >= Limit
    /\ phase = "replaying" /\ log = <<>> /\ text # <<>> =>
           Meaning(text) = played /\ Len(text) = TextLength(played) /\ Len(text) < Limit

\* The replay reads every text as the old format, whoever wrote it: it gives
\* its game the inputs the text had in that format, each once and in order.
ReplayReadsTheOldFormat ==
    phase = "replaying" =>
        (replayed \o Times(Idle, idles)) \o OldMeaning(rest) = OldMeaning(text)

\* A log is replayed as the inputs it was written for ("11L" is the text of
\* eleven ticks to the left, as the test of the conversion has it).
ReplayRepeatsThePlay ==
    phase = "replaying" /\ rest = <<>> /\ idles = 0 => replayed = Meaning(text)
=============================================================================
