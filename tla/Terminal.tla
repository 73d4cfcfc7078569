------------------------------ MODULE Terminal ------------------------------
(***************************************************************************)
(* terminal_parse: the keys that the bytes of one packet press, and the     *)
(* sizes they give the canvas.  The parser starts anew with every packet.  *)
(***************************************************************************)
EXTENDS Integers, Sequences

CONSTANTS
    COLUMNS, ROWS,  \* the field, the smallest window
    MaxSide         \* the most columns or rows of a window (200)

ASSUME SidesAssumption ==
    /\ COLUMNS \in Nat \ {0} /\ ROWS \in Nat \ {0} /\ MaxSide \in Nat
    /\ COLUMNS <= MaxSide /\ ROWS <= MaxSide

IAC == 255   Dont == 254   Will == 251   SB == 250   SE == 240
NAWS == 31   Escape == 27  Enter == 13   Blank == 32  Bracket == 91

\* The keys: characters by their capital, and four arrows.
Up == 256   Down == 257   Right == 258   Left == 259
Arrows  == Up .. Left
Letters == 65 .. 90
Numbers == 48 .. 57
AllKeys == Letters \cup Numbers \cup Arrows \cup {Escape, Enter, Blank}

-----------------------------------------------------------------------------
(* b is the packet, i a position in it; Rest counts the bytes from there. *)

Rest(b, i) == Len(b) - i + 1

\* Where a value byte at i really is, with n bytes at least from there: 255 is
\* doubled.  0 is nowhere.
ValueAt(b, i, n) ==
    IF b[i] # IAC THEN i
    ELSE IF Rest(b, i) >= n /\ b[i + 1] = IAC THEN i + 1
    ELSE 0

\* parse_escaped_u16
Parsed16(b, i) ==
    LET fail == [ok |-> FALSE, value |-> 0, next |-> i]
        hi   == ValueAt(b, i, 3)
        lo   == ValueAt(b, hi + 1, 2)
    IN  IF Rest(b, i) < 2 THEN fail
        ELSE IF hi = 0 THEN fail
        ELSE IF lo = 0 THEN fail
        ELSE [ok |-> TRUE, value |-> 256 * b[hi] + b[lo], next |-> lo + 1]

Clamp(n, low, high)  == IF n > high THEN high ELSE IF n < low THEN low ELSE n
Clamped(cols, rows)  == <<Clamp(cols, COLUMNS, MaxSide), Clamp(rows, ROWS, MaxSide)>>

\* t is [at |-> position, keys |-> keyboard, sizes |-> those of canvas_resize].
Skip(t, n) == [t EXCEPT !.at = @ + n]

\* Mutant: the size of the window is taken as it comes.
WindowUnclamped(b, t) ==
    LET cols == Parsed16(b, t.at + 3)
        rows == Parsed16(b, cols.next)
    IN  IF cols.ok /\ rows.ok
        THEN [t EXCEPT !.at = rows.next, !.sizes = Append(@, <<cols.value, rows.value>>)]
        ELSE Skip(t, 1)

\* Mutant: a size that was cut off is taken to be nought.
WindowCutIsZero(b, t) ==
    LET cols == Parsed16(b, t.at + 3)
        rows == Parsed16(b, cols.next)
    IN  [t EXCEPT !.at = IF rows.ok THEN rows.next ELSE @ + 1,
                  !.sizes = Append(@, Clamped(cols.value, rows.value))]

\* IAC SB NAWS columns rows; what follows is refused only if neither of its two
\* bytes is right.  The canvas is resized at once.
Window(b, t) ==
    LET cols == Parsed16(b, t.at + 3)
        rows == Parsed16(b, cols.next)
        wrong == /\ Rest(b, rows.next) >= 2
                 /\ b[rows.next] # IAC /\ b[rows.next + 1] # SE
    IN  IF ~cols.ok THEN Skip(t, 1)
        ELSE IF ~rows.ok THEN Skip(t, 1)
        ELSE IF wrong THEN Skip(t, 1)
        ELSE [t EXCEPT !.at = rows.next,
                       !.sizes = Append(@, Clamped(cols.value, rows.value))]

\* parse_telnet_command; what it does not know is passed over byte by byte.
Command(b, t) ==
    LET second == b[t.at + 1]
        left   == Rest(b, t.at)
    IN  IF second = IAC THEN Skip(t, 2)
        ELSE IF left >= 3 /\ second \in Will .. Dont THEN Skip(t, 3)
        ELSE IF left >= 5 /\ second = SB THEN (IF b[t.at + 2] = NAWS THEN Window(b, t) ELSE Skip(t, 1))
        ELSE Skip(t, 1)

Capital(ch) == IF ch \in 97 .. 122 THEN ch - 32 ELSE ch

Step(b, t) ==
    LET ch   == b[t.at]
        left == Rest(b, t.at)
    IN  IF ch = Escape /\ left >= 2
        THEN IF b[t.at + 1] = Bracket /\ left >= 3 /\ b[t.at + 2] \in 65 .. 68
             THEN [Skip(t, 3) EXCEPT !.keys = @ \cup {Up + b[t.at + 2] - 65}]
             ELSE Skip(t, 1)
        ELSE IF ch = IAC /\ left >= 2 THEN Command(b, t)
        ELSE Skip([t EXCEPT !.keys = @ \cup ({Capital(ch)} \cap AllKeys)], 1)

\* terminal_parse
Parse(b, pressed) ==
    LET upTo[n \in 0 .. Len(b)] ==
            IF n = 0 THEN [at |-> 1, keys |-> pressed, sizes |-> <<>>]
            ELSE LET t == upTo[n - 1] IN IF t.at > Len(b) THEN t ELSE Step(b, t)
    IN  upTo[Len(b)]
-----------------------------------------------------------------------------
(* What a telnet client sends: its bytes, the keys that were typed, and the *)
(* size its window has got.                                                *)

\* A character; "[" is left out, for behind an escape key it is another thing.
Typed  == 0 .. 254 \ {Bracket}
Key(b) == [bytes |-> <<b>>, keys |-> {Capital(b)} \cap AllKeys, size |-> <<>>]

Arrow(n) == [bytes |-> <<Escape, Bracket, 65 + n>>, keys |-> {Up + n}, size |-> <<>>]

\* What the client will and will not do.
Answer(verb, o) == [bytes |-> <<IAC, verb, o>>, keys |-> {}, size |-> <<>>]

\* The columns or rows of a window are less than 2^15.
Extent     == 0 .. 32767
Doubled(b) == IF b = IAC THEN <<IAC, IAC>> ELSE <<b>>
Sixteen(n) == <<n \div 256>> \o Doubled(n % 256)
NewSize(w, h) ==
    [bytes |-> <<IAC, SB, NAWS>> \o Sixteen(w) \o Sixteen(h) \o <<IAC, SE>>,
     keys |-> {}, size |-> <<w, h>>]

IsMessage(m) ==
    \/ \E b \in Typed : m = Key(b)
    \/ \E n \in 0 .. 3 : m = Arrow(n)
    \/ \E verb \in Will .. Dont, o \in 0 .. 254 : m = Answer(verb, o)
    \/ /\ Len(m.size) = 2 /\ m.size[1] \in Extent /\ m.size[2] \in Extent
       /\ m = NewSize(m.size[1], m.size[2])
=============================================================================
