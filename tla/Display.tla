------------------------------ MODULE Display -------------------------------
(***************************************************************************)
(* One pass of the serving loop over a session, between the client's keys  *)
(* and the client's screen: packets are parsed, the screen is updated if a *)
(* tick has gone by, and what has changed is sent, buffer by buffer.  What *)
(* the socket does not take is lost, and nobody is told.                   *)
(***************************************************************************)
EXTENDS Canvas, Terminal

CONSTANTS
    Messages,   \* what a client sends at once: records with the field bytes
    MaxWire,    \* bound: the messages on the way, sent while the screen is blank
    Inks,       \* what is drawn: code points with their style
    MaxDraws,   \* bound: the calls of a tick that draw
    MaxLosses   \* bound: the sends that fail or are cut short

ASSUME DisplayAssumption ==
    /\ MaxDraws \in Nat /\ MaxLosses \in Nat
    /\ Inks \subseteq Chars \X Styles
    /\ \A m \in Messages : m.bytes \in Seq(0 .. 255)

VARIABLES
    phase,      \* "receive" | "draw" | "flush"
    wire,       \* the messages on the way, the first perhaps without its beginning
    keyboard,   \* the keys that are pressed
    canvas,     \* struct canvas
    draws,      \* how many calls have drawn in this tick
    greeting,   \* whether the terminal's buffer holds the title screen's escapes
    client,     \* the client's terminal: its cells, where it writes, and its style
    losses,     \* history: how many sends have not been delivered in whole
    whole,      \* history: a forced flush has been delivered in whole so far,
    styled,     \* history: and no style escape was missing, before or in it
    behind      \* history: cells were changed after the flush had passed them

vars == <<phase, wire, keyboard, canvas, draws, greeting, client, losses, whole, styled, behind>>

Nowhere == -1
BlankScreen(c) == [i \in 0 .. Size(c) - 1 |-> Cell(Nul, NoStyle)]

Init ==
    /\ phase = "receive"
    /\ wire = <<>> /\ keyboard = {}
    /\ canvas = NewCanvas(COLUMNS, ROWS)
    /\ draws = 0 /\ greeting = TRUE
    /\ client = [cells |-> BlankScreen(canvas), at |-> Nowhere, style |-> NoStyle]
    /\ losses = 0 /\ whole = FALSE /\ styled = FALSE /\ behind = FALSE

-----------------------------------------------------------------------------
(* Receiving. *)

Send(m) ==
    /\ phase = "receive" /\ Len(wire) < MaxWire /\ keyboard = {}
    /\ \A i \in DOMAIN client.cells : client.cells[i] = Cell(Space, Plain)
    /\ wire' = Append(wire, m)
    /\ UNCHANGED <<phase, keyboard, canvas, draws, greeting, client, losses, whole, styled, behind>>

\* The bytes of the first n messages.
Joined(n) ==
    LET upTo[i \in 0 .. n] == IF i = 0 THEN <<>> ELSE upTo[i - 1] \o wire[i].bytes IN upTo[n]

ResizedBy(c, sizes) ==
    LET upTo[i \in 0 .. Len(sizes)] ==
            IF i = 0 THEN c ELSE Resized(upTo[i - 1], sizes[i][1], sizes[i][2])
    IN  upTo[Len(sizes)]

\* One round of the receive loop: a packet of n whole messages and k bytes of
\* the one behind them.  What a terminal keeps on its screen when its window
\* changes is not known.
Receive(n, k) ==
    LET packet == Joined(n) \o (IF k = 0 THEN <<>> ELSE SubSeq(wire[n + 1].bytes, 1, k))
        parsed == Parse(packet, keyboard)
        behindCut == SubSeq(wire, n + 1, Len(wire))
    IN  /\ phase = "receive" /\ n + k > 0
        /\ keyboard' = parsed.keys
        /\ canvas' = ResizedBy(canvas, parsed.sizes)
        /\ client' = IF canvas' = canvas THEN client
                     ELSE [client EXCEPT !.cells = BlankScreen(canvas'), !.at = Nowhere]
        /\ wire' = IF k = 0 THEN behindCut
                   ELSE <<[bytes |-> SubSeq(wire[n + 1].bytes, k + 1, Len(wire[n + 1].bytes))]>>
                        \o Tail(behindCut)
        /\ whole' = (whole /\ canvas' = canvas) /\ styled' = (styled /\ canvas' = canvas)
        /\ UNCHANGED <<phase, draws, greeting, losses, behind>>

-----------------------------------------------------------------------------
(* A tick of the screen.  (The rest of a message that was cut comes in time  *)
(* for it.)                                                                  *)

\* The client has the style the canvas takes it to have.
Believed(c, t) == c.flushed \in {NoStyle, t.style}

\* What a flush that begins will repair, if it arrives.
BeginFlush ==
    /\ phase' = "flush"
    /\ whole' = canvas'.force /\ styled' = (canvas'.force /\ Believed(canvas', client))

\* A screen that ends another, or opens one, erases what was drawn before it in
\* the same tick; a screen that opens another erases in the style it has set.
Erase(style) ==
    /\ phase = "draw" \/ (phase = "receive" /\ wire = <<>>)
    /\ keyboard' = {} /\ draws' = 0
    /\ canvas' = Erased(canvas, style)
    /\ behind' = (behind \/ canvas.index # 0)
    /\ UNCHANGED <<wire, greeting, client, losses>>

\* An update that draws begins by erasing the canvas,
Tick(style) == Erase(style) /\ phase' = "draw" /\ whole' = FALSE /\ styled' = FALSE

\* and one that opens another screen ends so: the title screen's before it has
\* drawn, the pit's behind what it drew.
PushScreen(style) == Erase(style) /\ BeginFlush

\* No tick has gone by.
NoTick ==
    /\ phase = "receive" /\ wire = <<>>
    /\ UNCHANGED <<wire, keyboard, canvas, draws, greeting, client, losses, behind>>
    /\ BeginFlush

DrawCells(cells, ink) ==
    /\ phase = "draw" /\ draws < MaxDraws
    /\ canvas' = Drawn(canvas, cells, ink)
    /\ draws' = draws + 1 /\ behind' = FALSE
    /\ UNCHANGED <<phase, wire, keyboard, greeting, client, losses, whole, styled>>

Xs == 0 .. canvas.w - 1
Ys == 0 .. canvas.h - 1

DrawPut(ink) ==
    \E x \in Xs, y \in Ys : DrawCells({Index(canvas, x, y)}, ink)

DrawFill(ink) ==
    \E x \in Xs, y \in Ys : \E w \in 1 .. canvas.w - x, h \in 1 .. canvas.h - y :
        DrawCells(FillCells(canvas, x, y, w, h), ink)

DrawBlock(ink) ==
    \E x \in Xs, y \in Ys : \E w \in 1 .. canvas.w - x, h \in 1 .. canvas.h - y :
        \E n \in 0 .. w * h : DrawCells(BlockCells(canvas, x, y, w, h, n), ink)

DrawRect(ink) ==
    \E x \in Xs, y \in Ys : \E w \in 1 .. canvas.w - x, h \in 1 .. canvas.h - y :
        DrawCells(RectCells(canvas, x, y, w, h), ink)

DrawLine(ink) ==
    \E x0, x1 \in Xs, y0, y1 \in Ys : DrawCells(LineCells(canvas, x0, y0, x1, y1), ink)

\* canvas_write leaves the flush where it is.  (A draw remains that does not.)
DrawText(ink) ==
    \E x \in Xs, y \in Ys : \E n \in 1 .. canvas.w - x :
        /\ phase = "draw" /\ draws < MaxDraws
        /\ canvas.index = 0 \/ draws + 1 < MaxDraws
        /\ canvas' = Written(canvas, x, y, n, ink)
        /\ draws' = draws + 1
        /\ behind' = (behind \/ canvas.index # 0)
        /\ UNCHANGED <<phase, wire, keyboard, greeting, client, losses, whole, styled>>

\* Every screen draws some block, cell or line; those of a play force the next
\* flush every hundredth tick.
Drawing(forced) ==
    /\ phase = "draw" /\ canvas.index = 0
    /\ canvas' = IF forced THEN ForceNextFlush(canvas) ELSE canvas
    /\ BeginFlush
    /\ draws' = 0
    /\ UNCHANGED <<wire, keyboard, greeting, client, losses, behind>>

-----------------------------------------------------------------------------
(* Flushing. *)

\* What the first n of the things that were sent do to the client's terminal.
\* Behind the last column it writes nowhere in particular.
Shown(t, sent, n) ==
    LET upTo[i \in 0 .. n] ==
          IF i = 0 THEN t
          ELSE LET u == upTo[i - 1]  s == sent[i] IN
               IF "move" \in DOMAIN s THEN [u EXCEPT !.at = s.move]
               ELSE IF "style" \in DOMAIN s THEN [u EXCEPT !.style = s.style]
               ELSE IF u.at = Nowhere THEN u
               ELSE [u EXCEPT !.cells[u.at] = Cell(s.char, u.style),
                              !.at = IF (u.at + 1) % canvas.w = 0 THEN Nowhere ELSE u.at + 1]
    IN  upTo[n]

\* What is sent arrives in whole, or in part as long as the bound allows.
Arrives(n, sent) ==
    \/ n = sent /\ UNCHANGED losses
    \/ n < sent /\ losses < MaxLosses /\ losses' = losses + 1

\* terminal_flush sends the terminal's own buffer first.
FlushGreeting ==
    /\ phase = "flush" /\ greeting
    /\ greeting' = FALSE
    /\ \E n \in {0, 1} :
          /\ Arrives(n, 1)
          /\ client' = IF n = 1 THEN [client EXCEPT !.style = Plain] ELSE client
    /\ UNCHANGED <<phase, wire, keyboard, canvas, draws, whole, behind>>
    /\ styled' = (styled /\ Believed(canvas, client'))

\* One round of the loop that flushes and sends; n of what it sends arrives.
FlushCanvas ==
    LET p == Flushed(canvas) IN
    /\ phase = "flush" /\ ~greeting
    /\ canvas' = p.c
    /\ \E n \in 0 .. Len(p.out) :
          /\ Arrives(n, Len(p.out))
          /\ client' = Shown(client, p.out, n)
          /\ whole' = (whole /\ n = Len(p.out))
          /\ styled' = (styled /\ n = Len(p.out) /\ Believed(canvas', client'))
    /\ phase' = IF p.more THEN "flush" ELSE "receive"
    /\ UNCHANGED <<wire, keyboard, draws, greeting, behind>>

Receiving == \E n \in 0 .. Len(wire) :
    \E k \in 0 .. (IF n < Len(wire) THEN Len(wire[n + 1].bytes) - 1 ELSE 0) : Receive(n, k)

Draw == \E ink \in Inks :
    DrawPut(ink) \/ DrawFill(ink) \/ DrawBlock(ink) \/ DrawRect(ink) \/ DrawLine(ink) \/ DrawText(ink)

Flush == FlushGreeting \/ FlushCanvas

Next ==
    \/ \E m \in Messages : Send(m)
    \/ Receiving
    \/ \E style \in Styles : Tick(style) \/ PushScreen(style)
    \/ NoTick
    \/ Draw
    \/ \E forced \in BOOLEAN : Drawing(forced)
    \/ Flush

Spec == Init /\ [][Next]_vars
-----------------------------------------------------------------------------
(* Properties. *)

\* Whatever a client sends, and however it is cut, the canvas is large enough
\* for the field and no larger than allowed, and its parts belong together.
TypeOK ==
    /\ phase \in {"receive", "draw", "flush"}
    /\ keyboard \subseteq AllKeys
    /\ canvas.w \in COLUMNS .. MaxSide /\ canvas.h \in ROWS .. MaxSide
    /\ canvas.index \in 0 .. Size(canvas)
    /\ canvas.front \in [0 .. Size(canvas) - 1 -> FrontCells]
    /\ canvas.back \in [0 .. Size(canvas) - 1 -> BackCells]
    /\ canvas.force \in BOOLEAN /\ canvas.flushed \in Styles \cup {NoStyle}
    /\ DOMAIN client.cells = DOMAIN canvas.front
    /\ draws \in 0 .. MaxDraws /\ losses \in 0 .. MaxLosses /\ {greeting, whole, styled, behind} \subseteq BOOLEAN

\* A packet of whole messages presses the keys that were typed and leaves the
\* canvas in the last size that was asked for, whatever stands next to what.
\* (An escape key is seen only at the end of a packet.)  A message that is cut by
\* the end of a packet may be lost or be taken for keys, but the canvas never
\* gets a size that nobody asked for.
PacketsAreUnderstood ==
    [][/\ <<canvas.w, canvas.h>> # <<canvas'.w, canvas'.h>> =>
            \E i \in 1 .. Len(wire) :
                /\ "size" \in DOMAIN wire[i] /\ wire[i].size # <<>>
                /\ <<canvas'.w, canvas'.h>> = Clamped(wire[i].size[1], wire[i].size[2])
       /\ \A n \in 1 .. Len(wire) :
            LET asked == {i \in 1 .. n : wire[i].size # <<>>}
                last  == wire[CHOOSE i \in asked : \A j \in asked : j <= i].size
            IN  (\A i \in 1 .. n : "keys" \in DOMAIN wire[i]) /\ wire' = SubSeq(wire, n + 1, Len(wire)) =>
                /\ keyboard' \ {Escape} = (keyboard \cup UNION {wire[i].keys : i \in 1 .. n}) \ {Escape}
                /\ <<canvas'.w, canvas'.h>> = IF asked = {} THEN <<canvas.w, canvas.h>>
                                              ELSE Clamped(last[1], last[2])]_vars

\* A buffer that begins by moving the cursor paints the cells it was written
\* for, in order and as far as it arrives, and no others; and the client is left
\* with the style of the last, if it had the style the canvas believed.
BuffersPaintTheirCells ==
    [][LET sent == Flushed(canvas).out IN
       phase = "flush" /\ ~greeting /\ sent # <<>> /\ "move" \in DOMAIN sent[1] =>
        \E n \in 0 .. Len(sent) :
        LET painted == {sent[j].cell : j \in {k \in 1 .. n : "cell" \in DOMAIN sent[k]}} IN
            /\ losses' = losses => n = Len(sent)
            /\ \A i \in DOMAIN client.cells :
                  IF i \in painted THEN client'.cells[i].ch = canvas'.front[i].ch
                  ELSE client'.cells[i] = client.cells[i]
            /\ client.style = canvas.flushed /\ losses' = losses =>
                  \E i \in painted : /\ client'.style = canvas'.front[i].style
                                     /\ \A j \in painted : j <= i]_vars

\* When the loop that flushes is over the canvas has been sent, but for what a
\* screen erased or wrote behind the flush without drawing after it.
FlushesAreComplete ==
    phase = "receive" /\ canvas.index = Size(canvas) /\ ~behind => canvas.front = canvas.back

\* A forced flush that arrives in whole puts the characters on the client's
\* screen right, whatever was lost or misplaced before it.  It puts the colours
\* right too unless a style escape is missing: one that was lost before it and
\* not followed by another (canvas_force_next_flush leaves flush_state as it is),
\* or one that canvas_flush drops with a character that does not fit into the
\* buffer, having counted it as sent (canvas.c:142).
ForcedFlushRepairs ==
    phase = "receive" /\ whole =>
        \A i \in DOMAIN client.cells :
            /\ client.cells[i].ch = canvas.front[i].ch
            /\ styled => client.cells[i].style = canvas.front[i].style

\* Every code point is sent as RFC 3629 says and would be read back as itself,
\* whatever follows it.
CodePointsSurvive ==
    greeting => \A c \in Chars \cup Corners :
        /\ Encoded(c) = Layout(c)
        /\ \A rest \in {<<>>} \cup {Encoded(d) : d \in Corners} :
              Decoded(Encoded(c) \o rest) = [code |-> c, size |-> Len(Encoded(c))]

\* The loop that flushes one session comes to its end, so that the others get
\* their turn: each of its rounds but the last sends at least one more cell.
EveryFlushAdvances ==
    phase = "flush" =>
        LET p == Flushed(canvas) IN p.more => p.c.index > canvas.index

\* "Move the cursor explicitly when the previous block wasn't changed or was on a
\* different line": if nothing is lost, the client sees what the canvas has.
ClientSeesTheCanvas ==
    phase = "receive" /\ canvas.index = Size(canvas) =>
        \A i \in DOMAIN client.cells : client.cells[i].ch = canvas.front[i].ch
=============================================================================
