--------------------------- MODULE DisplayProofs ----------------------------
(***************************************************************************)
(* What holds between a client's keys and its screen, for messages of any  *)
(* bytes, windows of any size and a flush buffer of any size.              *)
(*                                                                         *)
(* The parser, the calls that draw and the flush are recursive functions;  *)
(* what they return is proved by induction over the bytes, the sizes asked *)
(* for, or the cells.  A pass of the flush has, up to its place, made the  *)
(* front what the back is (CarriedTo), painted the client's screen if it   *)
(* is forced (PaintedTo), and put each character where it belongs          *)
(* (PlacedTo).  The invariant says the same of the flushes that are not    *)
(* over (PassedIsCurrent, Repairing), and that a forced flush begins at    *)
(* the first cell (ForceBegins), since else a part of the screen would not *)
(* be repaired.                                                            *)
(*                                                                         *)
(* What packets mean is said of the messages a telnet client sends: in     *)
(* none of them an IAC is left alone (Alone), so that a size is read only  *)
(* where one begins (AnnouncedInPlace); and of whole messages each is      *)
(* understood in its turn (MessageTaken, Behind).                          *)
(***************************************************************************)
EXTENDS Display, SequenceTheorems, Induction

-----------------------------------------------------------------------------
(* Bytes. *)

\* The stages of the encoding: what is left for the lead byte, the most that fits there, and
\* the bytes behind it; and the step from one to the next.
Parts == [code : Nat, max : Nat, tail : Seq(Int)]
First(code) == [code |-> code, max |-> 127, tail |-> <<>>]
Shorter(p, n) == IF p.code <= p.max THEN p
                 ELSE [code |-> p.code \div 64,
                       max  |-> p.max \div (IF n = 1 THEN 4 ELSE 2),
                       tail |-> <<128 + (p.code % 64)>> \o p.tail]
WithLead(p) == <<(256 - 2 * (p.max + 1)) + p.code>> \o p.tail

\* The encoding is three of these steps.
LEMMA EncodedByParts ==
    ASSUME NEW code \in Nat
    PROVE  LET last == Shorter(Shorter(Shorter(First(code), 1), 2), 3)
           IN  last \in Parts /\ Encoded(code) = WithLead(last)
<1> DEFINE W == [n \in 0 .. 3 |-> Parts]
           F == [n \in 0 .. 3 |-> [p \in Parts |-> Shorter(p, n)]]
           Eq(g) == g = [n \in 0 .. 3 |-> IF n = 0 THEN First(code) ELSE Shorter(g[n - 1], n)]
           upTo == CHOOSE g : Eq(g)
<1>1. First(code) \in Parts
  BY DEF First, Parts
<1>2. ASSUME NEW p \in Parts, NEW n \in 1 .. 3 PROVE Shorter(p, n) \in Parts
  <2>1. p.code \in Nat /\ p.max \in Nat /\ p.tail \in Seq(Int)
    BY DEF Parts
  <2>2. p.code \div 64 \in Nat /\ p.max \div (IF n = 1 THEN 4 ELSE 2) \in Nat /\ 128 + (p.code % 64) \in Int
    BY <2>1
  <2>3. <<128 + (p.code % 64)>> \o p.tail \in Seq(Int)
    BY <2>1, <2>2, ConcatProperties
  <2> QED BY <2>2, <2>3 DEF Shorter, Parts
<1>3. PICK g : Eq(g)
  <2>1. \A i \in 0 + 1 .. 3 : \A p \in W[i - 1] : F[i][p] \in W[i]
    BY <1>2
  <2>2. 0 \in Int /\ 3 \in Int /\ 0 <= 3 /\ First(code) \in W[0]
    BY <1>1
  <2> HIDE DEF W, F
  <2>3. PICK g : Recurses(g, 0, 3, First(code), F, W)
    BY <2>1, <2>2, RecursionExists, Zenon
  <2>4. /\ g = [i \in 0 .. 3 |-> IF i = 0 THEN First(code) ELSE F[i][g[i - 1]]]
        /\ \A i \in 0 .. 3 : g[i] \in W[i]
    BY <2>3 DEF Recurses
  <2>5. ASSUME NEW i \in 0 .. 3, i # 0 PROVE F[i][g[i - 1]] = Shorter(g[i - 1], i)
    <3>1. g[i - 1] \in Parts
      BY <2>4, <2>5 DEF W
    <3> QED BY <3>1 DEF F
  <2>6. Eq(g)
    BY <2>4, <2>5
  <2> QED BY <2>6
<1>4. Eq(upTo)
  <2> HIDE DEF Eq
  <2> QED BY <1>3
<1>5. Encoded(code) = WithLead(upTo[3])
  BY DEF Encoded, Shorter, First, WithLead
<1> HIDE DEF upTo
<1>6. upTo[3] = Shorter(Shorter(Shorter(First(code), 1), 2), 3)
  <2>1. upTo[0] = First(code) /\ upTo[1] = Shorter(upTo[0], 1) /\ upTo[2] = Shorter(upTo[1], 2)
        /\ upTo[3] = Shorter(upTo[2], 3)
    BY <1>4
  <2> QED BY <2>1
<1>7. Shorter(Shorter(Shorter(First(code), 1), 2), 3) \in Parts
  BY <1>1, <1>2
<1> QED BY <1>5, <1>6, <1>7

\* A code point is sent as at least one byte.
LEMMA EncodedHasBytes ==
    ASSUME NEW code \in Nat
    PROVE  Len(Encoded(code)) \in Nat \ {0}
<1> DEFINE p == Shorter(Shorter(Shorter(First(code), 1), 2), 3)
           lead == (256 - 2 * (p.max + 1)) + p.code
<1>1. p \in Parts /\ Encoded(code) = WithLead(p)
  BY EncodedByParts
<1> HIDE DEF p
<1>2. p.max \in Nat /\ p.code \in Nat /\ p.tail \in Seq(Int)
  BY <1>1 DEF Parts
<1>3. lead \in Int
  <2>1. \A m, k \in Nat : (256 - 2 * (m + 1)) + k \in Int
    OBVIOUS
  <2> QED BY <1>2, <2>1
<1>4. Encoded(code) = <<lead>> \o p.tail
  BY <1>1 DEF WithLead
<1> HIDE DEF lead
<1>5. <<lead>> \in Seq(Int) /\ Len(<<lead>>) = 1
  BY <1>3
<1>6. Len(Encoded(code)) = Len(<<lead>>) + Len(p.tail)
  BY <1>2, <1>4, <1>5, ConcatProperties
<1>7. Len(p.tail) \in Nat
  BY <1>2
<1> QED BY <1>5, <1>6, <1>7

\* A byte before the others.
LEMMA BytePrefixed ==
    ASSUME NEW a \in Int, NEW t \in Seq(Int), NEW u \in Seq(Int), Len(u) = Len(t) + 1, u[1] = a,
           \A i \in 1 .. Len(t) : u[i + 1] = t[i]
    PROVE  <<a>> \o t = u
<1> DEFINE s == <<a>> \o t
<1>1. <<a>> \in Seq(Int) /\ Len(<<a>>) = 1 /\ <<a>>[1] = a
  OBVIOUS
<1>2. /\ s \in Seq(Int) /\ Len(s) = 1 + Len(t)
      /\ \A i \in 1 .. 1 + Len(t) : s[i] = IF i <= 1 THEN <<a>>[i] ELSE t[i - 1]
  BY <1>1, ConcatProperties
<1> HIDE DEF s
<1>3. Len(t) \in Nat
  OBVIOUS
<1>4. ASSUME NEW i \in 1 .. 1 + Len(t) PROVE s[i] = u[i]
  <2>1. CASE i = 1
    BY <1>1, <1>2, <1>3, <2>1
  <2>2. CASE i # 1
    <3>1. i - 1 \in 1 .. Len(t) /\ ~(i <= 1) /\ (i - 1) + 1 = i
      BY <1>3, <2>2
    <3> QED BY <1>2, <3>1
  <2> QED BY <2>1, <2>2
<1>5. Len(s) = Len(u) /\ Len(s) = 1 + Len(t)
  BY <1>2, <1>3
<1>6. \A i \in 1 .. Len(s) : s[i] = u[i]
  BY <1>4, <1>5
<1>7. s = u
  BY <1>2, <1>5, <1>6, SeqEqual, Zenon
<1> QED BY <1>7 DEF s

\* A byte before none, one or two others.
LEMMA BytesPrefixed ==
    ASSUME NEW a \in Int, NEW b \in Int, NEW d \in Int
    PROVE  /\ <<a>> \o <<>> = <<a>>
           /\ <<a>> \o <<b>> = <<a, b>>
           /\ <<a>> \o <<b, d>> = <<a, b, d>>
<1>1. <<a>> \o <<>> = <<a>>
  <2>1. <<>> \in Seq(Int) /\ <<a>> \in Seq(Int) /\ Len(<<a>>) = Len(<<>>) + 1 /\ <<a>>[1] = a
    OBVIOUS
  <2>2. \A i \in 1 .. Len(<<>>) : <<a>>[i + 1] = <<>>[i]
    OBVIOUS
  <2> QED BY <2>1, <2>2, BytePrefixed, Zenon
<1>2. <<a>> \o <<b>> = <<a, b>>
  <2>1. <<b>> \in Seq(Int) /\ <<a, b>> \in Seq(Int) /\ Len(<<a, b>>) = Len(<<b>>) + 1 /\ <<a, b>>[1] = a
    OBVIOUS
  <2>2. \A i \in 1 .. Len(<<b>>) : <<a, b>>[i + 1] = <<b>>[i]
    OBVIOUS
  <2> QED BY <2>1, <2>2, BytePrefixed, Zenon
<1>3. <<a>> \o <<b, d>> = <<a, b, d>>
  <2>1. <<b, d>> \in Seq(Int) /\ <<a, b, d>> \in Seq(Int) /\ Len(<<a, b, d>>) = Len(<<b, d>>) + 1 /\ <<a, b, d>>[1] = a
    OBVIOUS
  <2>2. \A i \in 1 .. Len(<<b, d>>) : <<a, b, d>>[i + 1] = <<b, d>>[i]
    OBVIOUS
  <2> QED BY <2>1, <2>2, BytePrefixed, Zenon
<1> QED BY <1>1, <1>2, <1>3

\* A byte before three others.
LEMMA ThreeBytesPrefixed ==
    ASSUME NEW a \in Int, NEW b \in Int, NEW d \in Int, NEW e \in Int
    PROVE  <<a>> \o <<b, d, e>> = <<a, b, d, e>>
<1>1. <<b, d, e>> \in Seq(Int) /\ <<a, b, d, e>> \in Seq(Int) /\ Len(<<a, b, d, e>>) = Len(<<b, d, e>>) + 1 /\ <<a, b, d, e>>[1] = a
  OBVIOUS
<1>2. \A i \in 1 .. Len(<<b, d, e>>) : <<a, b, d, e>>[i + 1] = <<b, d, e>>[i]
  OBVIOUS
<1> QED BY <1>1, <1>2, BytePrefixed, Zenon

\* The bits of a code point that go into its last byte but k.
Six(c, k) == 128 + ((c \div (IF k = 0 THEN 1 ELSE IF k = 1 THEN 64 ELSE 4096)) % 64)

\* These bits, written out.
LEMMA SixIs ==
    ASSUME NEW c \in Nat
    PROVE  /\ Six(c, 0) = 128 + (c % 64) /\ Six(c, 0) \in Int
           /\ Six(c, 1) = 128 + ((c \div 64) % 64) /\ Six(c, 1) \in Int
           /\ Six(c, 2) = 128 + ((c \div 4096) % 64) /\ Six(c, 2) \in Int
<1>1. c \div 1 = c /\ c \div 64 \in Nat /\ c \div 4096 \in Nat
  BY SMT
<1>2. c % 64 \in Nat /\ (c \div 64) % 64 \in Nat /\ (c \div 4096) % 64 \in Nat
  BY SMT
<1> QED BY <1>1, <1>2, SMT DEF Six

\* Each length has its own lead byte, and six bits in every byte behind it.
LEMMA EncodedBytes ==
    ASSUME NEW c \in Nat
    PROVE  /\ c < 128               => Encoded(c) = <<c>>
           /\ 127 < c /\ c < 2048   => Encoded(c) = <<192 + (c \div 64), Six(c, 0)>>
           /\ 2047 < c /\ c < 65536 => Encoded(c) = <<224 + (c \div 4096), Six(c, 1), Six(c, 0)>>
           /\ 65535 < c             => Encoded(c) = <<240 + (c \div 262144), Six(c, 2), Six(c, 1), Six(c, 0)>>
<1> DEFINE p0 == First(c)
           p1 == Shorter(p0, 1)
           p2 == Shorter(p1, 2)
           p3 == Shorter(p2, 3)
           c1 == c \div 64
           c2 == c \div 4096
           c3 == c \div 262144
           six0 == Six(c, 0)
           six1 == Six(c, 1)
           six2 == Six(c, 2)
<1>1. Encoded(c) = WithLead(p3)
  BY EncodedByParts
<1>2. p0 = [code |-> c, max |-> 127, tail |-> <<>>]
  BY DEF First
<1>3. c1 \in Nat /\ c2 \in Nat /\ c3 \in Nat
  BY SMT
<1>4. c1 \div 64 = c2 /\ c2 \div 64 = c3 /\ 127 \div 4 = 31 /\ 31 \div 2 = 15 /\ 15 \div 2 = 7
  BY SMT
<1>5. six0 \in Int /\ six1 \in Int /\ six2 \in Int
  BY SixIs
<1>6. 128 + (c % 64) = six0 /\ 128 + (c1 % 64) = six1 /\ 128 + (c2 % 64) = six2
  <2>1. c \div 1 = c
    BY SMT
  <2> QED BY <2>1, SMT DEF Six
<1>7. /\ (c <= 127 <=> c < 128) /\ (c1 <= 31 <=> c < 2048) /\ (c2 <= 15 <=> c < 65536)
      /\ (c <= 127 => c < 2048) /\ (c < 2048 => c < 65536) /\ (127 < c <=> ~(c < 128))
      /\ (2047 < c <=> ~(c < 2048)) /\ (65535 < c <=> ~(c < 65536))
      /\ (c < 128 => c < 2048) /\ (c < 2048 => c < 65536)
  BY SMT
<1> DEFINE one == c < 128
           two == c < 2048
           three == c < 65536
<1>8. /\ c \div 64 = c1
      /\ (one => two) /\ (two => three) /\ (c <= 127 <=> one) /\ (c1 <= 31 <=> two) /\ (c2 <= 15 <=> three)
  BY <1>7, SMT
<1> HIDE DEF p0, p1, p2, p3, c1, c2, c3, six0, six1, six2, one, two, three
<1>9. one => p1 = p0
  BY <1>2, <1>8, SMT DEF Shorter, p1
<1>10. ~one => p1 = [code |-> c1, max |-> 31, tail |-> <<six0>>]
  <2> SUFFICES ASSUME ~one PROVE p1 = [code |-> c1, max |-> 31, tail |-> <<six0>>]
    OBVIOUS
  <2>1. p1 = [code |-> c1, max |-> 31, tail |-> <<six0>> \o <<>>]
    BY <1>2, <1>4, <1>6, <1>8, SMT DEF Shorter, p1
  <2> QED BY <1>5, <2>1, BytesPrefixed, Zenon
<1>11. one => p2 = p0
  BY <1>2, <1>8, <1>9, SMT DEF Shorter, p2
<1>12. two /\ ~one => p2 = p1
  BY <1>3, <1>8, <1>10, SMT DEF Shorter, p2
<1>13. ~two => p2 = [code |-> c2, max |-> 15, tail |-> <<six1, six0>>]
  <2> SUFFICES ASSUME ~two PROVE p2 = [code |-> c2, max |-> 15, tail |-> <<six1, six0>>]
    OBVIOUS
  <2>1. p1.code = c1 /\ p1.max = 31 /\ p1.tail = <<six0>> /\ ~(c1 <= 31)
    BY <1>8, <1>10
  <2>2. p2 = [code |-> p1.code \div 64, max |-> p1.max \div 2, tail |-> <<128 + (p1.code % 64)>> \o p1.tail]
    BY <2>1, SMT DEF Shorter, p2
  <2>3. p2 = [code |-> c1 \div 64, max |-> 31 \div 2, tail |-> <<128 + (c1 % 64)>> \o <<six0>>]
    BY <2>1, <2>2, Zenon
  <2>4. p2 = [code |-> c2, max |-> 15, tail |-> <<six1>> \o <<six0>>]
    BY <1>4, <1>6, <2>3, Zenon
  <2> QED BY <1>5, <2>4, BytesPrefixed, Zenon
<1>14. one => p3 = p0
  BY <1>2, <1>8, <1>11, SMT DEF Shorter, p3
<1>15. two /\ ~one => p3 = p1
  BY <1>3, <1>8, <1>10, <1>12, SMT DEF Shorter, p3
<1>16. three /\ ~two => p3 = p2
  BY <1>3, <1>8, <1>13, SMT DEF Shorter, p3
<1>17. ~three => p3 = [code |-> c3, max |-> 7, tail |-> <<six2, six1, six0>>]
  <2> SUFFICES ASSUME ~three PROVE p3 = [code |-> c3, max |-> 7, tail |-> <<six2, six1, six0>>]
    OBVIOUS
  <2>1. p2.code = c2 /\ p2.max = 15 /\ p2.tail = <<six1, six0>> /\ ~(c2 <= 15)
    BY <1>8, <1>13
  <2>2. p3 = [code |-> p2.code \div 64, max |-> p2.max \div 2, tail |-> <<128 + (p2.code % 64)>> \o p2.tail]
    BY <2>1, SMT DEF Shorter, p3
  <2>3. p3 = [code |-> c2 \div 64, max |-> 15 \div 2, tail |-> <<128 + (c2 % 64)>> \o <<six1, six0>>]
    BY <2>1, <2>2, Zenon
  <2>4. p3 = [code |-> c3, max |-> 7, tail |-> <<six2>> \o <<six1, six0>>]
    BY <1>4, <1>6, <2>3, Zenon
  <2> QED BY <1>5, <2>4, BytesPrefixed, Zenon
<1>18. /\ (256 - 2 * (127 + 1)) + c = c /\ c \in Int
       /\ (256 - 2 * (31 + 1)) + c1 = 192 + c1 /\ 192 + c1 \in Int
       /\ (256 - 2 * (15 + 1)) + c2 = 224 + c2 /\ 224 + c2 \in Int
       /\ (256 - 2 * (7 + 1)) + c3 = 240 + c3 /\ 240 + c3 \in Int
  BY <1>3, SMT
<1> DEFINE lead1 == 192 + c1
           lead2 == 224 + c2
           lead3 == 240 + c3
<1>19. one => Encoded(c) = <<c>>
  <2> SUFFICES ASSUME one PROVE Encoded(c) = <<c>>
    OBVIOUS
  <2>1. WithLead(p0) = <<c>> \o <<>>
    BY <1>2, <1>18, SMT DEF WithLead
  <2> QED BY <1>1, <1>14, <1>18, <2>1, BytesPrefixed, Zenon
<1>20. two /\ ~one => Encoded(c) = <<lead1, six0>>
  <2> SUFFICES ASSUME two, ~one PROVE Encoded(c) = <<lead1, six0>>
    OBVIOUS
  <2>1. p1.code = c1 /\ p1.max = 31 /\ p1.tail = <<six0>>
    BY <1>10
  <2>2. WithLead(p1) = <<lead1>> \o <<six0>> /\ lead1 \in Int
    BY <1>18, <2>1, Zenon DEF WithLead
  <2> HIDE DEF lead1
  <2> QED BY <1>1, <1>5, <1>15, <2>2, BytesPrefixed, Zenon
<1>21. three /\ ~two => Encoded(c) = <<lead2, six1, six0>>
  <2> SUFFICES ASSUME three, ~two PROVE Encoded(c) = <<lead2, six1, six0>>
    OBVIOUS
  <2>1. p2.code = c2 /\ p2.max = 15 /\ p2.tail = <<six1, six0>>
    BY <1>13
  <2>2. WithLead(p2) = <<lead2>> \o <<six1, six0>> /\ lead2 \in Int
    BY <1>18, <2>1, Zenon DEF WithLead
  <2> HIDE DEF lead2
  <2> QED BY <1>1, <1>5, <1>16, <2>2, BytesPrefixed, Zenon
<1>22. ~three => Encoded(c) = <<lead3, six2, six1, six0>>
  <2> SUFFICES ASSUME ~three PROVE Encoded(c) = <<lead3, six2, six1, six0>>
    OBVIOUS
  <2>1. p3.code = c3 /\ p3.max = 7 /\ p3.tail = <<six2, six1, six0>>
    BY <1>17
  <2>2. WithLead(p3) = <<lead3>> \o <<six2, six1, six0>> /\ lead3 \in Int
    BY <1>18, <2>1, Zenon DEF WithLead
  <2> HIDE DEF lead3
  <2> QED BY <1>1, <1>5, <2>2, ThreeBytesPrefixed, Zenon
<1> HIDE DEF lead1, lead2, lead3
<1>23. /\ one => Encoded(c) = <<c>>
       /\ two /\ ~one => Encoded(c) = <<lead1, six0>>
       /\ three /\ ~two => Encoded(c) = <<lead2, six1, six0>>
       /\ ~three => Encoded(c) = <<lead3, six2, six1, six0>>
  BY <1>19, <1>20, <1>21, <1>22
<1> QED BY <1>7, <1>23, SMT DEF one, two, three, lead1, lead2, lead3, c1, c2, c3, six0, six1, six2

\* The powers of two that stand for the bits of a byte.
LEMMA BitValues ==
    /\ 2 ^ (8 - 0) = 256
    /\ 2 ^ (8 - 1) = 128
    /\ 2 ^ (8 - 2) = 64
    /\ 2 ^ (8 - 3) = 32
    /\ 2 ^ (8 - 4) = 16
    /\ 2 ^ (8 - 5) = 8
    /\ 2 ^ (8 - 6) = 4
    /\ 2 ^ (8 - 7) = 2
    /\ 2 ^ (8 - 8) = 1
<1>1. 2 ^ (8 - 0) = 256
  <2>1. 8 - 0 = 8 /\ 2 ^ 8 = 256
    OBVIOUS
  <2> QED BY <2>1, Zenon
<1>2. 2 ^ (8 - 1) = 128
  <2>1. 8 - 1 = 7 /\ 2 ^ 7 = 128
    OBVIOUS
  <2> QED BY <2>1, Zenon
<1>3. 2 ^ (8 - 2) = 64
  <2>1. 8 - 2 = 6 /\ 2 ^ 6 = 64
    OBVIOUS
  <2> QED BY <2>1, Zenon
<1>4. 2 ^ (8 - 3) = 32
  <2>1. 8 - 3 = 5 /\ 2 ^ 5 = 32
    OBVIOUS
  <2> QED BY <2>1, Zenon
<1>5. 2 ^ (8 - 4) = 16
  <2>1. 8 - 4 = 4 /\ 2 ^ 4 = 16
    OBVIOUS
  <2> QED BY <2>1, Zenon
<1>6. 2 ^ (8 - 5) = 8
  <2>1. 8 - 5 = 3 /\ 2 ^ 3 = 8
    OBVIOUS
  <2> QED BY <2>1, Zenon
<1>7. 2 ^ (8 - 6) = 4
  <2>1. 8 - 6 = 2 /\ 2 ^ 2 = 4
    OBVIOUS
  <2> QED BY <2>1, Zenon
<1>8. 2 ^ (8 - 7) = 2
  <2>1. 8 - 7 = 1 /\ 2 ^ 1 = 2
    OBVIOUS
  <2> QED BY <2>1, Zenon
<1>9. 2 ^ (8 - 8) = 1
  <2>1. 8 - 8 = 0 /\ 2 ^ 0 = 1
    OBVIOUS
  <2> QED BY <2>1, Zenon
<1> QED BY <1>1, <1>2, <1>3, <1>4, <1>5, <1>6, <1>7, <1>8, <1>9

\* A lead byte tells the number of the bytes.
LEMMA LeadTells ==
    ASSUME NEW b \in 0 .. 255
    PROVE  /\ b < 128          => LeadingOnes(b) = 0
           /\ b \in 192 .. 223 => LeadingOnes(b) = 2
           /\ b \in 224 .. 239 => LeadingOnes(b) = 3
           /\ b \in 240 .. 247 => LeadingOnes(b) = 4
<1> DEFINE Enough(k) == b >= 256 - 2 ^ (8 - k)
           D == {k \in 1 .. 8 : Enough(k)}
<1>1. /\ Enough(1) <=> b >= 256 - 128
      /\ Enough(2) <=> b >= 256 - 64
      /\ Enough(3) <=> b >= 256 - 32
      /\ Enough(4) <=> b >= 256 - 16
      /\ Enough(5) <=> b >= 256 - 8
      /\ Enough(6) <=> b >= 256 - 4
      /\ Enough(7) <=> b >= 256 - 2
      /\ Enough(8) <=> b >= 256 - 1
  <2>1. Enough(1) <=> b >= 256 - 128
    <3>1. 2 ^ (8 - 1) = 128
      BY BitValues, Zenon
    <3> QED BY <3>1, Zenon
  <2>2. Enough(2) <=> b >= 256 - 64
    <3>1. 2 ^ (8 - 2) = 64
      BY BitValues, Zenon
    <3> QED BY <3>1, Zenon
  <2>3. Enough(3) <=> b >= 256 - 32
    <3>1. 2 ^ (8 - 3) = 32
      BY BitValues, Zenon
    <3> QED BY <3>1, Zenon
  <2>4. Enough(4) <=> b >= 256 - 16
    <3>1. 2 ^ (8 - 4) = 16
      BY BitValues, Zenon
    <3> QED BY <3>1, Zenon
  <2>5. Enough(5) <=> b >= 256 - 8
    <3>1. 2 ^ (8 - 5) = 8
      BY BitValues, Zenon
    <3> QED BY <3>1, Zenon
  <2>6. Enough(6) <=> b >= 256 - 4
    <3>1. 2 ^ (8 - 6) = 4
      BY BitValues, Zenon
    <3> QED BY <3>1, Zenon
  <2>7. Enough(7) <=> b >= 256 - 2
    <3>1. 2 ^ (8 - 7) = 2
      BY BitValues, Zenon
    <3> QED BY <3>1, Zenon
  <2>8. Enough(8) <=> b >= 256 - 1
    <3>1. 2 ^ (8 - 8) = 1
      BY BitValues, Zenon
    <3> QED BY <3>1, Zenon
  <2> HIDE DEF Enough
  <2> QED BY <2>1, <2>2, <2>3, <2>4, <2>5, <2>6, <2>7, <2>8
<1>2. LeadingOnes(b) = Cardinality(D)
  BY DEF LeadingOnes
<1> HIDE DEF Enough
<1>3. \A k \in 1 .. 8 : k = 1 \/ k = 2 \/ k = 3 \/ k = 4 \/ k = 5 \/ k = 6 \/ k = 7 \/ k = 8
  OBVIOUS
<1>4. ASSUME NEW n \in 0 .. 4, \A k \in 1 .. 8 : Enough(k) <=> k <= n PROVE LeadingOnes(b) = n
  <2>1. D = 1 .. n
    BY <1>4
  <2>2. 1 \in Int /\ n \in Int
    OBVIOUS
  <2>3. Cardinality(1 .. n) = IF 1 > n THEN 0 ELSE n - 1 + 1
    BY <2>2, FS_Interval, Zenon
  <2>4. Cardinality(1 .. n) = n
    BY <2>3
  <2> QED BY <1>2, <2>1, <2>4
<1>5. ASSUME b < 128 PROVE \A k \in 1 .. 8 : Enough(k) <=> k <= 0
  BY <1>1, <1>3, <1>5
<1>6. ASSUME b \in 192 .. 223 PROVE \A k \in 1 .. 8 : Enough(k) <=> k <= 2
  BY <1>1, <1>3, <1>6
<1>7. ASSUME b \in 224 .. 239 PROVE \A k \in 1 .. 8 : Enough(k) <=> k <= 3
  BY <1>1, <1>3, <1>7
<1>8. ASSUME b \in 240 .. 247 PROVE \A k \in 1 .. 8 : Enough(k) <=> k <= 4
  BY <1>1, <1>3, <1>8
<1> HIDE DEF D
<1> QED BY <1>4, <1>5, <1>6, <1>7, <1>8

\* What is read from so many bytes: the bits of the first, and six of each that follows.
Read(g, v, s, size) == g = [i \in 1 .. size |-> IF i = 1 THEN v ELSE 64 * g[i - 1] + (s[i] % 64)]

\* The bytes of a code point can be read one after the other.
LEMMA ReadExists ==
    ASSUME NEW s, NEW size \in 1 .. 4, NEW v \in Int, \A i \in 2 .. size : s[i] \in Int
    PROVE  \E g : Read(g, v, s, size)
<1> DEFINE W == [i \in 1 .. size |-> Int]
           F == [i \in 1 .. size |-> [m \in Int |-> 64 * m + (s[i] % 64)]]
<1>1. \A i \in 1 + 1 .. size : \A m \in W[i - 1] : F[i][m] \in W[i]
  <2> SUFFICES ASSUME NEW i \in 1 + 1 .. size, NEW m \in W[i - 1] PROVE F[i][m] \in W[i]
    OBVIOUS
  <2>1. i \in 2 .. size /\ i \in 1 .. size /\ i - 1 \in 1 .. size /\ m \in Int
    OBVIOUS
  <2>2. s[i] \in Int
    BY <2>1
  <2>3. \A b \in Int : 64 * m + (b % 64) \in Int
    BY <2>1
  <2>4. 64 * m + (s[i] % 64) \in Int
    BY <2>2, <2>3, Zenon
  <2>5. F[i][m] = 64 * m + (s[i] % 64) /\ W[i] = Int
    BY <2>1, Zenon
  <2> QED BY <2>4, <2>5, Zenon
<1>2. 1 \in Int /\ size \in Int /\ 1 <= size /\ v \in W[1]
  OBVIOUS
<1>3. \A i \in 1 .. size : W[i] = Int /\ F[i] = [m \in Int |-> 64 * m + (s[i] % 64)]
  BY Zenon
<1> HIDE DEF W, F
<1>4. PICK g : Recurses(g, 1, size, v, F, W)
  BY <1>1, <1>2, RecursionExists, Zenon
<1>5. g = [i \in 1 .. size |-> IF i = 1 THEN v ELSE F[i][g[i - 1]]]
  BY <1>4, Zenon DEF Recurses
<1>6. \A i \in 1 .. size : g[i] \in Int
  BY <1>3, <1>4, Zenon DEF Recurses
<1>7. ASSUME NEW i \in 1 .. size, i # 1 PROVE F[i][g[i - 1]] = 64 * g[i - 1] + (s[i] % 64)
  <2>1. i - 1 \in 1 .. size
    BY <1>7
  <2>2. g[i - 1] \in Int
    BY <1>6, <2>1, Zenon
  <2>3. F[i] = [m \in Int |-> 64 * m + (s[i] % 64)]
    BY <1>3, Zenon
  <2>4. [m \in Int |-> 64 * m + (s[i] % 64)][g[i - 1]] = 64 * g[i - 1] + (s[i] % 64)
    BY <2>2, Zenon
  <2> QED BY <2>3, <2>4, Zenon
<1>8. \A i \in 1 .. size : (IF i = 1 THEN v ELSE F[i][g[i - 1]]) = (IF i = 1 THEN v ELSE 64 * g[i - 1] + (s[i] % 64))
  BY <1>7, Zenon
<1>9. [i \in 1 .. size |-> IF i = 1 THEN v ELSE F[i][g[i - 1]]]
      = [i \in 1 .. size |-> IF i = 1 THEN v ELSE 64 * g[i - 1] + (s[i] % 64)]
  BY <1>8, Zenon
<1>10. Read(g, v, s, size)
  BY <1>5, <1>9, Zenon DEF Read
<1> QED BY <1>10

\* A text whose first byte tells size bytes, and the code point read from them.
Told(s) == LET ones == LeadingOnes(s[1]) IN IF ones < 2 THEN 1 ELSE IF ones > Len(s) THEN Len(s) ELSE ones
Lead(s) == s[1] % (2 ^ (8 - LeadingOnes(s[1])))
Reads(s, t, size) == \E g : /\ Decoded(s) = [code |-> g[size], size |-> size]
                            /\ g[1] = Lead(t)
                            /\ \A i \in 2 .. size : g[i] = 64 * g[i - 1] + (t[i] % 64)

\* utf8_decode reads as many bytes as the first one tells.
LEMMA DecodedIs ==
    ASSUME NEW s, Told(s) \in 1 .. 4, Lead(s) \in Int, \A i \in 2 .. Told(s) : s[i] \in Int
    PROVE  Reads(s, s, Told(s))
<1> DEFINE value == CHOOSE g : Read(g, Lead(s), s, Told(s))
<1>1. Decoded(s) = [code |-> value[Told(s)], size |-> Told(s)]
  BY Zenon DEF Decoded, Read, Lead, Told
<1>2. Read(value, Lead(s), s, Told(s))
  <2>1. \E g : Read(g, Lead(s), s, Told(s))
    BY ReadExists, Zenon
  <2> QED BY <2>1, Zenon
<1> HIDE DEF value
<1>3. \A i \in 1 .. Told(s) : value[i] = IF i = 1 THEN Lead(s) ELSE 64 * value[i - 1] + (s[i] % 64)
  BY <1>2, Zenon DEF Read
<1>4. 1 \in 1 .. Told(s) /\ \A i \in 2 .. Told(s) : i \in 1 .. Told(s) /\ i # 1
  <2>1. Told(s) \in Int /\ 1 <= Told(s)
    OBVIOUS
  <2> QED BY <2>1
<1>5. value[1] = Lead(s) /\ \A i \in 2 .. Told(s) : value[i] = 64 * value[i - 1] + (s[i] % 64)
  BY <1>3, <1>4, Zenon
<1> QED BY <1>1, <1>5, Zenon DEF Reads

\* The bytes of a text whose first tells their number are read whatever follows them.
LEMMA FirstBytesRead ==
    ASSUME NEW t \in Seq(Int), NEW rest \in Seq(Int), Len(t) \in 1 .. 4, Lead(t) \in Int,
           LeadingOnes(t[1]) = IF Len(t) = 1 THEN 0 ELSE Len(t)
    PROVE  Reads(t \o rest, t, Len(t))
<1> DEFINE s == t \o rest
           size == Len(t)
<1>1. /\ s \in Seq(Int) /\ Len(s) = size + Len(rest)
      /\ \A i \in 1 .. size + Len(rest) : s[i] = IF i <= size THEN t[i] ELSE rest[i - size]
  BY ConcatProperties, Zenon
<1>2. size \in Int /\ 1 <= size /\ Len(rest) \in Nat /\ size \in 1 .. 4
  OBVIOUS
<1>3. LeadingOnes(t[1]) = IF size = 1 THEN 0 ELSE size
  OBVIOUS
<1>4. \A i \in 1 .. size : t[i] \in Int
  OBVIOUS
<1> HIDE DEF s, size
<1>5. \A i \in 1 .. size : s[i] = t[i]
  BY <1>1, <1>2
<1>6. s[1] = t[1] /\ \A i \in 2 .. size : s[i] = t[i] /\ t[i] \in Int
  BY <1>2, <1>4, <1>5
<1>7. Told(s) = size
  <2> DEFINE ones == LeadingOnes(t[1])
  <2>1. Told(s) = IF ones < 2 THEN 1 ELSE IF ones > Len(s) THEN Len(s) ELSE ones
    BY <1>6, Zenon DEF Told
  <2>2. ones = IF size = 1 THEN 0 ELSE size
    BY <1>3
  <2> HIDE DEF ones
  <2> QED BY <1>1, <1>2, <2>1, <2>2
<1>8. Lead(s) = Lead(t)
  BY <1>6, Zenon DEF Lead
<1>9. Reads(s, s, Told(s))
  <2>1. Told(s) \in 1 .. 4 /\ Lead(s) \in Int /\ \A i \in 2 .. Told(s) : s[i] \in Int
    BY <1>2, <1>6, <1>7, <1>8, Zenon
  <2> QED BY <2>1, DecodedIs, Zenon
<1>10. Reads(s, t, size)
  <2>1. PICK g : /\ Decoded(s) = [code |-> g[size], size |-> size]
                 /\ g[1] = Lead(s)
                 /\ \A i \in 2 .. size : g[i] = 64 * g[i - 1] + (s[i] % 64)
    BY <1>7, <1>9, Zenon DEF Reads
  <2>2. \A i \in 2 .. size : g[i] = 64 * g[i - 1] + (t[i] % 64)
    <3> SUFFICES ASSUME NEW i \in 2 .. size PROVE g[i] = 64 * g[i - 1] + (t[i] % 64)
      OBVIOUS
    <3>1. g[i] = 64 * g[i - 1] + (s[i] % 64) /\ s[i] = t[i]
      BY <1>6, <2>1, Zenon
    <3> QED BY <3>1, Zenon
  <2> QED BY <1>8, <2>1, <2>2, Zenon DEF Reads
<1> QED BY <1>10 DEF s, size

\* The code points of at most 21 bits, which four bytes hold.
Fits(c) == c \in Nat /\ c < 2097152

\* The bits of a code point, taken apart and put together.
JoinsUp(c) ==
    /\ c < 128 => c \in 0 .. 255 /\ c % 256 = c
    /\ 127 < c /\ c < 2048 =>
         /\ 192 + (c \div 64) \in 192 .. 223
         /\ 64 * ((192 + (c \div 64)) % 64) + (Six(c, 0) % 64) = c
    /\ 2047 < c /\ c < 65536 =>
         /\ 224 + (c \div 4096) \in 224 .. 239
         /\ 64 * (64 * ((224 + (c \div 4096)) % 32) + (Six(c, 1) % 64)) + (Six(c, 0) % 64) = c
    /\ 65535 < c =>
         /\ 240 + (c \div 262144) \in 240 .. 247
         /\ 64 * (64 * (64 * ((240 + (c \div 262144)) % 16) + (Six(c, 2) % 64)) + (Six(c, 1) % 64))
            + (Six(c, 0) % 64) = c

\* The six bits of each byte, put behind one another, are the code point.
LEMMA BitsJoined ==
    ASSUME NEW c, Fits(c)
    PROVE  JoinsUp(c)
<1>0. c \in Nat /\ c < 2097152
  BY DEF Fits
<1> DEFINE x == c \div 64
           y == c \div 4096
           z == c \div 262144
<1>1. x \in Nat /\ y \in Nat /\ z \in Nat
  BY <1>0, SMT
<1>2. x \div 64 = y /\ y \div 64 = z
  BY <1>0, SMT
<1>3. Six(c, 0) % 64 = c % 64 /\ Six(c, 1) % 64 = x % 64 /\ Six(c, 2) % 64 = y % 64
  <2>1. \A b \in Nat : (128 + (b % 64)) % 64 = b % 64
    BY <1>0, SMT
  <2>2. Six(c, 0) = 128 + (c % 64) /\ Six(c, 1) = 128 + (x % 64) /\ Six(c, 2) = 128 + (y % 64)
    <3>1. c \div 1 = c
      BY <1>0, SMT
    <3> QED BY <3>1, <1>0, SMT DEF Six
  <2> HIDE DEF x, y, z
  <2> QED BY <1>0, <1>1, <2>1, <2>2, SMT
<1>4. c = 64 * x + (c % 64)
  BY <1>0, SMT
<1>5. (c < 128 => c % 256 = c) /\ (c < 2048 => x < 32) /\ (c < 65536 => y < 16) /\ z < 8
  BY <1>0, SMT
<1> HIDE DEF x, y, z
<1>6. x = 64 * y + (x % 64) /\ y = 64 * z + (y % 64)
  BY <1>0, <1>1, <1>2, SMT
<1>7. x < 32 => (192 + x) % 64 = x /\ 192 + x \in 192 .. 223
  BY <1>0, <1>1, SMT
<1>8. y < 16 => (224 + y) % 32 = y /\ 224 + y \in 224 .. 239
  BY <1>0, <1>1, SMT
<1>9. (240 + z) % 16 = z /\ 240 + z \in 240 .. 247
  BY <1>0, <1>1, <1>5, SMT
<1>10. c < 128 => c \in 0 .. 255 /\ c % 256 = c
  BY <1>0, <1>5, SMT
<1>11. c < 2048 => /\ 192 + x \in 192 .. 223
                   /\ 64 * ((192 + x) % 64) + (Six(c, 0) % 64) = c
  BY <1>0, <1>3, <1>4, <1>5, <1>7, SMT
<1>12. c < 65536 => /\ 224 + y \in 224 .. 239
                    /\ 64 * (64 * ((224 + y) % 32) + (Six(c, 1) % 64)) + (Six(c, 0) % 64) = c
  BY <1>0, <1>3, <1>4, <1>5, <1>6, <1>8, SMT
<1>13. /\ 240 + z \in 240 .. 247
       /\ 64 * (64 * (64 * ((240 + z) % 16) + (Six(c, 2) % 64)) + (Six(c, 1) % 64)) + (Six(c, 0) % 64) = c
  BY <1>0, <1>3, <1>4, <1>6, <1>9, SMT
<1> QED BY <1>0, <1>10, <1>11, <1>12, <1>13, SMT DEF JoinsUp, x, y, z

\* What is read of the bytes of one code point, by their number.
Bits(size, v, t) == IF size = 1 THEN v
                    ELSE IF size = 2 THEN 64 * v + (t[2] % 64)
                    ELSE IF size = 3 THEN 64 * (64 * v + (t[2] % 64)) + (t[3] % 64)
                    ELSE 64 * (64 * (64 * v + (t[2] % 64)) + (t[3] % 64)) + (t[4] % 64)

\* What is read from one to four bytes.
LEMMA ReadsBytes ==
    ASSUME NEW s, NEW t, NEW size \in 1 .. 4, Reads(s, t, size)
    PROVE  Decoded(s) = [code |-> Bits(size, Lead(t), t), size |-> size]
<1>1. PICK g : /\ Decoded(s) = [code |-> g[size], size |-> size]
               /\ g[1] = Lead(t)
               /\ \A i \in 2 .. size : g[i] = 64 * g[i - 1] + (t[i] % 64)
  BY Zenon DEF Reads
<1>2. ASSUME NEW k \in 2 .. 4, size >= k PROVE g[k] = 64 * g[k - 1] + (t[k] % 64)
  <2>1. k \in 2 .. size
    BY <1>2
  <2> QED BY <1>1, <2>1, Zenon
<1>3. 2 \in 2 .. 4 /\ 3 \in 2 .. 4 /\ 4 \in 2 .. 4 /\ 2 - 1 = 1 /\ 3 - 1 = 2 /\ 4 - 1 = 3
  OBVIOUS
<1>4. size >= 2 => g[2] = 64 * Lead(t) + (t[2] % 64)
  BY <1>1, <1>2, <1>3, Zenon
<1>5. size >= 3 => g[3] = 64 * g[2] + (t[3] % 64)
  BY <1>2, <1>3, Zenon
<1>6. size >= 4 => g[4] = 64 * g[3] + (t[4] % 64)
  BY <1>2, <1>3, Zenon
<1>7. /\ size = 1 \/ size = 2 \/ size = 3 \/ size = 4
      /\ size = 2 => size >= 2
      /\ size = 3 => size >= 2 /\ size >= 3
      /\ size = 4 => size >= 2 /\ size >= 3 /\ size >= 4
      /\ 2 # 1 /\ 3 # 1 /\ 3 # 2 /\ 4 # 1 /\ 4 # 2 /\ 4 # 3
  OBVIOUS
<1>8. size = 1 => g[size] = Bits(size, Lead(t), t)
  BY <1>1, Zenon DEF Bits
<1>9. size = 2 => g[size] = Bits(size, Lead(t), t)
  BY <1>4, <1>7, Zenon DEF Bits
<1>10. size = 3 => g[size] = Bits(size, Lead(t), t)
  BY <1>4, <1>5, <1>7, Zenon DEF Bits
<1>11. size = 4 => g[size] = Bits(size, Lead(t), t)
  BY <1>4, <1>5, <1>6, <1>7, Zenon DEF Bits
<1> QED BY <1>1, <1>7, <1>8, <1>9, <1>10, <1>11, Zenon

\* A code point is read back from its bytes, whatever follows them.
LEMMA ReadBack ==
    ASSUME NEW c, Fits(c), NEW rest \in Seq(Int)
    PROVE  Decoded(Encoded(c) \o rest) = [code |-> c, size |-> Len(Encoded(c))]
<1> DEFINE t == Encoded(c)
           Goal == Decoded(t \o rest) = [code |-> c, size |-> Len(t)]
           one == c < 128
           two == 127 < c /\ c < 2048
           three == 2047 < c /\ c < 65536
           four == 65535 < c
<1>1. c \in Nat
  BY DEF Fits
<1>2. one \/ two \/ three \/ four
  BY <1>1, SMT
<1>3. Six(c, 0) \in Int /\ Six(c, 1) \in Int /\ Six(c, 2) \in Int
  BY <1>1, SixIs
<1>4. /\ one   => t = <<c>>
      /\ two   => t = <<192 + (c \div 64), Six(c, 0)>>
      /\ three => t = <<224 + (c \div 4096), Six(c, 1), Six(c, 0)>>
      /\ four  => t = <<240 + (c \div 262144), Six(c, 2), Six(c, 1), Six(c, 0)>>
  BY <1>1, EncodedBytes, SMT
<1> DEFINE b2 == 192 + (c \div 64)
           b3 == 224 + (c \div 4096)
           b4 == 240 + (c \div 262144)
<1>5. /\ one   => c \in 0 .. 255 /\ c % 256 = c
      /\ two   => /\ b2 \in 192 .. 223
                  /\ 64 * (b2 % 64) + (Six(c, 0) % 64) = c
      /\ three => /\ b3 \in 224 .. 239
                  /\ 64 * (64 * (b3 % 32) + (Six(c, 1) % 64)) + (Six(c, 0) % 64) = c
      /\ four  => /\ b4 \in 240 .. 247
                  /\ 64 * (64 * (64 * (b4 % 16) + (Six(c, 2) % 64)) + (Six(c, 1) % 64)) + (Six(c, 0) % 64) = c
  <2>1. JoinsUp(c)
    BY BitsJoined, Zenon
  <2> QED BY <2>1, SMT DEF JoinsUp
<1>6. one => c < 128
  OBVIOUS
<1> HIDE DEF b2, b3, b4, one, two, three, four, t, Goal
<1>7. ASSUME Len(t) \in 1 .. 4, t \in Seq(Int), Lead(t) \in Int,
             LeadingOnes(t[1]) = IF Len(t) = 1 THEN 0 ELSE Len(t)
      PROVE  Reads(t \o rest, t, Len(t))
  BY <1>7, FirstBytesRead, Zenon
<1>8. ASSUME one PROVE Goal
  <2>1. t = <<c>>
    BY <1>4, <1>8
  <2>2. t \in Seq(Int) /\ Len(t) = 1 /\ t[1] = c
    BY <1>1, <2>1
  <2>3. LeadingOnes(c) = 0
    BY <1>5, <1>6, <1>8, LeadTells, Zenon
  <2>4. Lead(t) = c % (2 ^ (8 - 0))
    BY <2>2, <2>3, Zenon DEF Lead
  <2>5. Lead(t) = c
    BY <1>5, <1>8, <2>4, BitValues, Zenon
  <2>6. Len(t) \in 1 .. 4 /\ Lead(t) \in Int
    BY <1>1, <2>2, <2>5
  <2>7. Reads(t \o rest, t, Len(t))
    BY <1>7, <2>2, <2>3, <2>6, Zenon
  <2>8. Decoded(t \o rest) = [code |-> Bits(Len(t), Lead(t), t), size |-> Len(t)]
    BY <2>6, <2>7, ReadsBytes, Zenon
  <2>9. Bits(Len(t), Lead(t), t) = c
    BY <2>2, <2>5, Zenon DEF Bits
  <2> QED BY <2>8, <2>9, Zenon DEF Goal
<1>9. ASSUME two PROVE Goal
  <2> DEFINE v == b2 % 64
  <2>1. t = <<b2, Six(c, 0)>>
    BY <1>4, <1>9, SMT DEF b2
  <2>2. b2 \in 192 .. 223 /\ b2 \in 0 .. 255 /\ b2 \in Int /\ v \in Int
    <3>1. b2 \in 192 .. 223
      BY <1>5, <1>9
    <3> QED BY <3>1
  <2>3. t \in Seq(Int) /\ Len(t) = 2 /\ t[1] = b2 /\ t[2] = Six(c, 0)
    BY <1>3, <2>1, <2>2
  <2>4. LeadingOnes(b2) = 2
    BY <2>2, LeadTells, Zenon
  <2>5. Lead(t) = v
    BY <2>3, <2>4, BitValues, ZenonT(30) DEF Lead
  <2>6. 2 \in 1 .. 4 /\ 2 # 1
    OBVIOUS
  <2> HIDE DEF v
  <2>7. Reads(t \o rest, t, 2)
    BY <1>7, <2>2, <2>3, <2>4, <2>5, <2>6, Zenon
  <2>8. Decoded(t \o rest) = [code |-> Bits(2, v, t), size |-> 2]
    BY <2>5, <2>6, <2>7, ReadsBytes, Zenon
  <2>9. Bits(2, v, t) = 64 * v + (t[2] % 64)
    BY SMT DEF Bits
  <2>10. 64 * v + (t[2] % 64) = c
    BY <1>5, <1>9, <2>3, SMT DEF v
  <2> QED BY <2>3, <2>8, <2>9, <2>10, Zenon DEF Goal
<1>10. ASSUME three PROVE Goal
  <2> DEFINE v == b3 % 32
  <2>1. t = <<b3, Six(c, 1), Six(c, 0)>>
    BY <1>4, <1>10, SMT DEF b3
  <2>2. b3 \in 224 .. 239 /\ b3 \in 0 .. 255 /\ b3 \in Int /\ v \in Int
    <3>1. b3 \in 224 .. 239
      BY <1>5, <1>10
    <3> QED BY <3>1
  <2>3. t \in Seq(Int) /\ Len(t) = 3 /\ t[1] = b3 /\ t[2] = Six(c, 1) /\ t[3] = Six(c, 0)
    BY <1>3, <2>1, <2>2
  <2>4. LeadingOnes(b3) = 3
    BY <2>2, LeadTells, Zenon
  <2>5. Lead(t) = v
    BY <2>3, <2>4, BitValues, Zenon DEF Lead
  <2>6. 3 \in 1 .. 4 /\ 3 # 1
    OBVIOUS
  <2> HIDE DEF v
  <2>7. Reads(t \o rest, t, 3)
    BY <1>7, <2>2, <2>3, <2>4, <2>5, <2>6, Zenon
  <2>8. Decoded(t \o rest) = [code |-> Bits(3, v, t), size |-> 3]
    BY <2>5, <2>6, <2>7, ReadsBytes, Zenon
  <2>9. Bits(3, v, t) = 64 * (64 * v + (t[2] % 64)) + (t[3] % 64)
    BY SMT DEF Bits
  <2>10. 64 * (64 * v + (t[2] % 64)) + (t[3] % 64) = c
    BY <1>5, <1>10, <2>3, SMT DEF v
  <2> QED BY <2>3, <2>8, <2>9, <2>10, Zenon DEF Goal
<1>11. ASSUME four PROVE Goal
  <2> DEFINE v == b4 % 16
  <2>1. t = <<b4, Six(c, 2), Six(c, 1), Six(c, 0)>>
    BY <1>4, <1>11, SMT DEF b4
  <2>2. b4 \in 240 .. 247 /\ b4 \in 0 .. 255 /\ b4 \in Int /\ v \in Int
    <3>1. b4 \in 240 .. 247
      BY <1>5, <1>11
    <3> QED BY <3>1
  <2>3. t \in Seq(Int) /\ Len(t) = 4 /\ t[1] = b4 /\ t[2] = Six(c, 2) /\ t[3] = Six(c, 1) /\ t[4] = Six(c, 0)
    BY <1>3, <2>1, <2>2
  <2>4. LeadingOnes(b4) = 4
    BY <2>2, LeadTells, Zenon
  <2>5. Lead(t) = v
    BY <2>3, <2>4, BitValues, Zenon DEF Lead
  <2>6. 4 \in 1 .. 4 /\ 4 # 1
    OBVIOUS
  <2> HIDE DEF v
  <2>7. Reads(t \o rest, t, 4)
    BY <1>7, <2>2, <2>3, <2>4, <2>5, <2>6, Zenon
  <2>8. Decoded(t \o rest) = [code |-> Bits(4, v, t), size |-> 4]
    BY <2>5, <2>6, <2>7, ReadsBytes, Zenon
  <2>9. Bits(4, v, t) = 64 * (64 * (64 * v + (t[2] % 64)) + (t[3] % 64)) + (t[4] % 64)
    BY SMT DEF Bits
  <2>10. 64 * (64 * (64 * v + (t[2] % 64)) + (t[3] % 64)) + (t[4] % 64) = c
    BY <1>5, <1>11, <2>3, SMT DEF v
  <2> QED BY <2>3, <2>8, <2>9, <2>10, Zenon DEF Goal
<1>12. Goal
  BY <1>2, <1>8, <1>9, <1>10, <1>11, Zenon
<1> QED BY <1>12 DEF t, Goal

\* The encoding is the layout of RFC 3629.
LEMMA LaidOut ==
    ASSUME NEW c \in Nat
    PROVE  Encoded(c) = Layout(c)
<1> DEFINE six(k) == 128 + ((c \div 64 ^ k) % 64)
           lo2 == 128
           hi2 == 2047
           lo3 == 2048
           hi3 == 65535
           q1 == c < 128
           q2 == c \in lo2 .. hi2
           q3 == c \in lo3 .. hi3
           a1 == <<c>>
           a2 == <<192 + (c \div 64), Six(c, 0)>>
           a3 == <<224 + (c \div 4096), Six(c, 1), Six(c, 0)>>
           a4 == <<240 + (c \div 262144), Six(c, 2), Six(c, 1), Six(c, 0)>>
           l2 == <<192 + (c \div 64), six(0)>>
           l3 == <<224 + (c \div 4096), six(1), six(0)>>
           l4 == <<240 + (c \div 262144), six(2), six(1), six(0)>>
<1>1. 64 ^ 0 = 1 /\ 64 ^ 1 = 64 /\ 64 ^ 2 = 4096
  BY SMT
<1>2. Layout(c) = CASE q1 -> a1 [] q2 -> l2 [] q3 -> l3 [] OTHER -> l4
  BY SMT DEF Layout
<1>3. lo2 = 128 /\ hi2 = 2047 /\ lo3 = 2048 /\ hi3 = 65535
  BY SMT
<1> HIDE DEF lo2, hi2, lo3, hi3
<1>4. lo2 \in Int /\ hi2 \in Int /\ lo3 \in Int /\ hi3 \in Int
  BY <1>3, SMT
<1>5. (q2 <=> lo2 <= c /\ c <= hi2) /\ (q3 <=> lo3 <= c /\ c <= hi3)
  BY <1>4, SMT
<1>6. a2 = l2 /\ a3 = l3 /\ a4 = l4
  <2>1. six(0) = Six(c, 0) /\ six(1) = Six(c, 1) /\ six(2) = Six(c, 2)
    BY <1>1, SMT DEF Six
  <2> HIDE DEF six
  <2> QED BY <2>1, SMT
<1> HIDE DEF q2, q3
<1>7. /\ q1 => Encoded(c) = a1
      /\ q2 => Encoded(c) = a2
      /\ q3 => Encoded(c) = a3
      /\ ~q1 /\ ~q2 /\ ~q3 => Encoded(c) = a4
  <2>1. (q2 => 127 < c /\ c < 2048) /\ (q3 => 2047 < c /\ c < 65536) /\ (~q1 /\ ~q2 /\ ~q3 => 65535 < c)
    BY <1>3, <1>5, SMT
  <2>2. /\ c < 128               => Encoded(c) = a1
        /\ 127 < c /\ c < 2048   => Encoded(c) = a2
        /\ 2047 < c /\ c < 65536 => Encoded(c) = a3
        /\ 65535 < c             => Encoded(c) = a4
    BY EncodedBytes, SMT
  <2> HIDE DEF a1, a2, a3, a4
  <2> QED BY <2>1, <2>2, SMT
<1>8. ~(q1 /\ q2) /\ ~(q1 /\ q3) /\ ~(q2 /\ q3)
  BY <1>3, <1>5, SMT
<1> HIDE DEF q1, a1, a2, a3, a4, l2, l3, l4
<1>9. q1 => Layout(c) = a1
  BY <1>2, <1>8
<1>10. q2 => Layout(c) = l2
  BY <1>2, <1>8
<1>11. q3 => Layout(c) = l3
  BY <1>2, <1>8
<1>12. ~q1 /\ ~q2 /\ ~q3 => Layout(c) = l4
  BY <1>2
<1> QED BY <1>6, <1>7, <1>9, <1>10, <1>11, <1>12

\* The bytes of a code point are a sequence.
LEMMA EncodedIsText ==
    ASSUME NEW c \in Nat
    PROVE  Encoded(c) \in Seq(Int)
<1> DEFINE p == Shorter(Shorter(Shorter(First(c), 1), 2), 3)
           lead == (256 - 2 * (p.max + 1)) + p.code
<1>1. p \in Parts /\ Encoded(c) = WithLead(p)
  BY EncodedByParts
<1> HIDE DEF p
<1>2. p.max \in Nat /\ p.code \in Nat /\ p.tail \in Seq(Int)
  BY <1>1 DEF Parts
<1>3. lead \in Int
  <2>1. \A m, k \in Nat : (256 - 2 * (m + 1)) + k \in Int
    OBVIOUS
  <2> QED BY <1>2, <2>1
<1>4. Encoded(c) = <<lead>> \o p.tail
  BY <1>1 DEF WithLead
<1> HIDE DEF lead
<1> QED BY <1>2, <1>3, <1>4, ConcatProperties

\* A code point fits into four bytes.
LEMMA CodesFit == \A c \in 0 .. LastCode : c \in Nat /\ Fits(c)
<1>1. LastCode \in Nat /\ LastCode < 2097152
  BY SMT DEF LastCode
<1> QED BY <1>1, SMT DEF Fits

\* The code points where the number of bytes changes.
LEMMA CornersAreCodes == Corners \subseteq 0 .. LastCode
<1>1. LastCode \in Nat /\ 65536 <= LastCode
  BY SMT DEF LastCode
<1>2. \A c \in Corners : \/ c \in {0, 1, 163, LastCode} \/ \E n \in {128, 2048, 65536} : c = n - 1 \/ c = n
  BY SMT DEF Corners
<1> QED BY <1>1, <1>2, SMT
-----------------------------------------------------------------------------
(* The parser. *)

Byte  == 0 .. 255
Sides == (COLUMNS .. MaxSide) \X (ROWS .. MaxSide)

\* What the parser has made of a packet so far.
Parsers == [at : Nat \ {0}, keys : SUBSET AllKeys, sizes : Seq(Sides)]

\* Whatever a client asks for, it gets a window that is allowed.
LEMMA ClampedIsSide ==
    ASSUME NEW cols \in Int, NEW rows \in Int
    PROVE  Clamped(cols, rows) \in Sides
BY SidesAssumption DEF Clamped, Clamp, Sides

\* A value that was read is a number, and reading goes on behind it.
LEMMA Parsed16Type ==
    ASSUME NEW b \in Seq(Byte), NEW i \in Nat \ {0}
    PROVE  /\ Parsed16(b, i).ok \in BOOLEAN
           /\ Parsed16(b, i).value \in Int
           /\ Parsed16(b, i).next \in Nat \ {0}
<1> DEFINE hi == ValueAt(b, i, 3)
           lo == ValueAt(b, hi + 1, 2)
<1>1. CASE Rest(b, i) < 2 \/ hi = 0 \/ lo = 0
  <2>1. Parsed16(b, i) = [ok |-> FALSE, value |-> 0, next |-> i]
    BY <1>1 DEF Parsed16
  <2> QED BY <2>1
<1>2. CASE ~(Rest(b, i) < 2 \/ hi = 0 \/ lo = 0)
  <2>1. Parsed16(b, i) = [ok |-> TRUE, value |-> 256 * b[hi] + b[lo], next |-> lo + 1]
    BY <1>2 DEF Parsed16
  <2>2. Len(b) \in Nat /\ i + 1 <= Len(b)
    BY <1>2 DEF Rest
  <2>3. hi \in 1 .. Len(b) /\ hi + 1 \in 1 .. Len(b)
    BY <1>2, <2>2 DEF ValueAt, Rest
  <2>4. lo \in 1 .. Len(b)
    <3> HIDE DEF hi
    <3> QED BY <1>2, <2>2, <2>3 DEF ValueAt, Rest
  <2> HIDE DEF hi, lo
  <2>5. b[hi] \in Int /\ b[lo] \in Int
    <3>1. \A k \in 1 .. Len(b) : b[k] \in Byte
      OBVIOUS
    <3>2. Byte \subseteq Int
      BY DEF Byte
    <3> QED BY <2>3, <2>4, <3>1, <3>2
  <2> QED BY <2>1, <2>4, <2>5
<1> QED BY <1>1, <1>2

\* Passing over bytes does nothing else.
LEMMA SkipType ==
    ASSUME NEW t \in Parsers, NEW n \in Nat
    PROVE  Skip(t, n) \in Parsers
BY DEF Skip, Parsers

\* A window size that is announced is kept, in its bounds, or skipped.
LEMMA WindowType ==
    ASSUME NEW b \in Seq(Byte), NEW t \in Parsers
    PROVE  Window(b, t) \in Parsers
<1> DEFINE cols == Parsed16(b, t.at + 3)
           rows == Parsed16(b, cols.next)
<1>1. t.at + 3 \in Nat \ {0}
  BY DEF Parsers
<1>2. cols.value \in Int /\ cols.next \in Nat \ {0}
  BY <1>1, Parsed16Type
<1>3. rows.value \in Int /\ rows.next \in Nat \ {0}
  <2> HIDE DEF cols
  <2> QED BY <1>2, Parsed16Type
<1>4. Clamped(cols.value, rows.value) \in Sides
  BY <1>2, <1>3, ClampedIsSide
<1>5. \/ Window(b, t) = Skip(t, 1)
      \/ Window(b, t) = [t EXCEPT !.at = rows.next, !.sizes = Append(@, Clamped(cols.value, rows.value))]
  BY DEF Window
<1>6. [t EXCEPT !.at = rows.next, !.sizes = Append(@, Clamped(cols.value, rows.value))] \in Parsers
  <2> DEFINE side == Clamped(cols.value, rows.value)
             after == rows.next
  <2>1. side \in Sides /\ after \in Nat \ {0}
    BY <1>3, <1>4
  <2> HIDE DEF side, after
  <2>2. Append(t.sizes, side) \in Seq(Sides)
    BY <2>1, AppendProperties DEF Parsers
  <2>3. [t EXCEPT !.at = after, !.sizes = Append(@, side)] \in Parsers
    BY <2>1, <2>2 DEF Parsers
  <2> QED BY <2>3 DEF side, after
<1> HIDE DEF cols, rows
<1> QED BY <1>5, <1>6, SkipType

\* A Telnet command is skipped or announces a window size.
LEMMA CommandType ==
    ASSUME NEW b \in Seq(Byte), NEW t \in Parsers
    PROVE  Command(b, t) \in Parsers
<1>1. Command(b, t) \in {Skip(t, 1), Skip(t, 2), Skip(t, 3), Window(b, t)}
  BY DEF Command
<1> QED BY <1>1, SkipType, WindowType

\* One step of the parser presses keys that exist, and asks for windows that are allowed.
LEMMA StepType ==
    ASSUME NEW b \in Seq(Byte), NEW t \in Parsers, t.at <= Len(b)
    PROVE  Step(b, t) \in Parsers
<1> DEFINE ch == b[t.at]
           arrow == [Skip(t, 3) EXCEPT !.keys = @ \cup {Up + b[t.at + 2] - 65}]
           typed == Skip([t EXCEPT !.keys = @ \cup ({Capital(ch)} \cap AllKeys)], 1)
<1>1. \/ Step(b, t) = arrow /\ b[t.at + 2] \in 65 .. 68
      \/ Step(b, t) = Skip(t, 1)
      \/ Step(b, t) = Command(b, t)
      \/ Step(b, t) = typed
  BY DEF Step
<1>2. ASSUME b[t.at + 2] \in 65 .. 68 PROVE arrow \in Parsers
  <2>1. Up + b[t.at + 2] - 65 \in AllKeys
    BY <1>2 DEF AllKeys, Arrows, Up, Left
  <2>2. Skip(t, 3) \in Parsers
    BY SkipType
  <2> QED BY <2>1, <2>2 DEF Parsers
<1>3. typed \in Parsers
  <2>1. [t EXCEPT !.keys = @ \cup ({Capital(ch)} \cap AllKeys)] \in Parsers
    BY DEF Parsers
  <2> QED BY <2>1, SkipType
<1> HIDE DEF arrow, typed
<1> QED BY <1>1, <1>2, <1>3, SkipType, CommandType

\* The stages of parsing a packet.
Stages(g, b, pressed) ==
    /\ g[0] = [at |-> 1, keys |-> pressed, sizes |-> <<>>]
    /\ \A n \in 0 .. Len(b) : g[n] \in Parsers
    /\ \A n \in 1 .. Len(b) : g[n] = IF g[n - 1].at > Len(b) THEN g[n - 1] ELSE Step(b, g[n - 1])
    /\ Parse(b, pressed) = g[Len(b)]

\* terminal_parse goes through its stages.
LEMMA ParseStages ==
    ASSUME NEW b \in Seq(Byte), NEW pressed \in SUBSET AllKeys
    PROVE  \E g : Stages(g, b, pressed)
<1> DEFINE Next1(t) == IF t.at > Len(b) THEN t ELSE Step(b, t)
           last == Len(b)
           first == [at |-> 1, keys |-> pressed, sizes |-> <<>>]
           W == [n \in 0 .. last |-> Parsers]
           F == [n \in 0 .. last |-> [t \in Parsers |-> Next1(t)]]
           Eq(g) == g = [n \in 0 .. last |-> IF n = 0 THEN first ELSE Next1(g[n - 1])]
           upTo == CHOOSE g : Eq(g)
<1>1. first \in Parsers
  BY DEF Parsers
<1>2. last \in Nat
  OBVIOUS
<1>3. ASSUME NEW t \in Parsers PROVE Next1(t) \in Parsers
  <2>1. t.at \in Nat
    BY DEF Parsers
  <2> QED BY <1>2, <2>1, StepType
<1>4. Parse(b, pressed) = upTo[last]
  BY DEF Parse
<1>5. \A g : Stages(g, b, pressed) <=>
             /\ g[0] = first
             /\ \A n \in 0 .. last : g[n] \in Parsers
             /\ \A n \in 1 .. last : g[n] = Next1(g[n - 1])
             /\ Parse(b, pressed) = g[last]
  BY DEF Stages
<1> HIDE DEF last, first, Next1
<1>6. PICK g : Eq(g)
  <2>1. \A i \in 0 + 1 .. last : \A t \in W[i - 1] : F[i][t] \in W[i]
    BY <1>2, <1>3
  <2>2. 0 \in Int /\ last \in Int /\ 0 <= last /\ first \in W[0]
    BY <1>1, <1>2
  <2> HIDE DEF W, F
  <2>3. PICK g : Recurses(g, 0, last, first, F, W)
    BY <2>1, <2>2, RecursionExists, Zenon
  <2>4. /\ g = [i \in 0 .. last |-> IF i = 0 THEN first ELSE F[i][g[i - 1]]]
        /\ \A i \in 0 .. last : g[i] \in W[i]
    BY <2>3 DEF Recurses
  <2>5. \A n \in 0 .. last : g[n] \in Parsers
    BY <2>4 DEF W
  <2>6. ASSUME NEW i \in 0 .. last, i # 0 PROVE F[i][g[i - 1]] = Next1(g[i - 1])
    <3>1. g[i - 1] \in Parsers
      BY <1>2, <2>5, <2>6
    <3> QED BY <3>1 DEF F
  <2>7. Eq(g)
    BY <2>4, <2>6
  <2> QED BY <2>7
<1>7. Eq(upTo)
  <2> HIDE DEF Eq
  <2> QED BY <1>6
<1> HIDE DEF upTo
<1>8. \A n \in 0 .. last : upTo[n] \in Parsers
  <2> DEFINE S == {n \in 0 .. last : upTo[n] \in Parsers}
  <2>1. 0 \in S
    BY <1>1, <1>2, <1>7
  <2>2. \A n \in 0 + 1 .. last : n - 1 \in S => n \in S
    BY <1>2, <1>3, <1>7
  <2>3. 0 \in Int /\ last \in Int
    BY <1>2
  <2> HIDE DEF S
  <2>4. \A n \in 0 .. last : n \in S
    BY <2>1, <2>2, <2>3, IntervalInduction, Zenon
  <2> QED BY <2>4 DEF S
<1>9. upTo[0] = first /\ \A n \in 1 .. last : upTo[n] = Next1(upTo[n - 1])
  BY <1>2, <1>7
<1> QED BY <1>4, <1>5, <1>8, <1>9

\* A packet presses keys that exist, and gives the canvas sizes that are allowed.
LEMMA ParseType ==
    ASSUME NEW b \in Seq(Byte), NEW pressed \in SUBSET AllKeys
    PROVE  /\ Parse(b, pressed).keys \in SUBSET AllKeys
           /\ Parse(b, pressed).sizes \in Seq(Sides)
<1>1. PICK g : Stages(g, b, pressed)
  BY ParseStages
<1>2. Len(b) \in 0 .. Len(b)
  OBVIOUS
<1> QED BY <1>1, <1>2 DEF Stages, Parsers

\* A value that was read is in the packet, and takes two bytes or more.
LEMMA Parsed16Next ==
    ASSUME NEW b \in Seq(Byte), NEW i \in Nat \ {0}, Parsed16(b, i).ok
    PROVE  Parsed16(b, i).next >= i + 2
<1> DEFINE hi == ValueAt(b, i, 3)
           lo == ValueAt(b, hi + 1, 2)
<1>1. /\ ~(Rest(b, i) < 2) /\ hi # 0 /\ lo # 0
      /\ Parsed16(b, i).next = lo + 1
  BY DEF Parsed16
<1>2. hi \in Nat /\ hi >= i
  BY <1>1 DEF ValueAt
<1>3. lo >= hi + 1
  <2> HIDE DEF hi
  <2> QED BY <1>1, <1>2 DEF ValueAt
<1>4. lo \in Nat
  <2> HIDE DEF hi
  <2> QED BY <1>1, <1>2 DEF ValueAt
<1> HIDE DEF hi, lo
<1> QED BY <1>1, <1>2, <1>3, <1>4

\* Announcing a window at p, the values of its columns and rows.
ColsAt(b, p) == Parsed16(b, p + 3)
RowsAt(b, p) == Parsed16(b, ColsAt(b, p).next)

\* A step of the parser goes on, and gives the canvas no size but one that is announced.
LEMMA StepAdvances ==
    ASSUME NEW b \in Seq(Byte), NEW t \in Parsers, t.at <= Len(b)
    PROVE  /\ Step(b, t).at > t.at
           /\ \/ Step(b, t).sizes = t.sizes
              \/ /\ b[t.at] = IAC /\ b[t.at + 1] = SB /\ b[t.at + 2] = NAWS /\ t.at + 4 <= Len(b)
                 /\ ColsAt(b, t.at).ok /\ RowsAt(b, t.at).ok
                 /\ Step(b, t).sizes =
                      Append(t.sizes, Clamped(ColsAt(b, t.at).value, RowsAt(b, t.at).value))
<1> DEFINE ch == b[t.at]
           p == t.at
           cols == ColsAt(b, p)
           rows == RowsAt(b, p)
           arrow == [Skip(t, 3) EXCEPT !.keys = @ \cup {Up + b[t.at + 2] - 65}]
           typed == Skip([t EXCEPT !.keys = @ \cup ({Capital(ch)} \cap AllKeys)], 1)
           size == [t EXCEPT !.at = rows.next, !.sizes = Append(@, Clamped(cols.value, rows.value))]
<1>1. p \in Nat \ {0} /\ Len(b) \in Nat
  BY DEF Parsers
<1>2. \A n \in Nat : Skip(t, n).at = p + n /\ Skip(t, n).sizes = t.sizes
  BY DEF Skip, Parsers
<1>3. arrow.at = p + 3 /\ arrow.sizes = t.sizes
  BY DEF Skip, Parsers
<1>4. typed.at = p + 1 /\ typed.sizes = t.sizes
  BY DEF Skip, Parsers
<1>5. size.at = rows.next /\ size.sizes = Append(t.sizes, Clamped(cols.value, rows.value))
  <2> DEFINE side == Clamped(cols.value, rows.value)
             after == rows.next
  <2> HIDE DEF side, after
  <2>1. LET r == [t EXCEPT !.at = after, !.sizes = Append(@, side)]
        IN  r.at = after /\ r.sizes = Append(t.sizes, side)
    BY DEF Parsers
  <2> QED BY <2>1 DEF side, after
<1>6. Step(b, t) \in {arrow, typed, Skip(t, 1)} \/ (ch = IAC /\ Rest(b, p) >= 2 /\ Step(b, t) = Command(b, t))
  BY DEF Step
<1>7. Command(b, t) \in {Skip(t, 1), Skip(t, 2), Skip(t, 3)} \/
         (/\ b[p + 1] = SB /\ b[p + 2] = NAWS /\ Rest(b, p) >= 5
          /\ Command(b, t) = Window(b, t))
  BY DEF Command
<1>8. Window(b, t) = Skip(t, 1) \/ (cols.ok /\ rows.ok /\ Window(b, t) = size)
  BY DEF Window, ColsAt, RowsAt
<1>9. ASSUME cols.ok, rows.ok PROVE rows.next > p
  <2>1. cols.next \in Nat \ {0} /\ cols.next >= p + 3 + 2
    BY <1>1, <1>9, Parsed16Type, Parsed16Next DEF ColsAt
  <2>2. rows.next >= cols.next + 2 /\ rows.next \in Nat
    BY <1>9, <2>1, Parsed16Type, Parsed16Next DEF RowsAt
  <2> HIDE DEF cols, rows
  <2> QED BY <1>1, <2>1, <2>2
<1>10. Rest(b, p) >= 5 => p + 4 <= Len(b)
  BY <1>1 DEF Rest
<1> HIDE DEF arrow, typed, size, cols, rows, p
<1>11. CASE Step(b, t) \in {arrow, typed, Skip(t, 1), Skip(t, 2), Skip(t, 3)}
  <2>1. \A n \in {1, 2, 3} : Skip(t, n).at = p + n /\ Skip(t, n).sizes = t.sizes
    BY <1>2
  <2>2. PICK n \in {1, 2, 3} : Step(b, t).at = p + n /\ Step(b, t).sizes = t.sizes
    BY <1>3, <1>4, <1>11, <2>1
  <2> QED BY <1>1, <2>2 DEF p
<1>12. CASE /\ ch = IAC /\ b[p + 1] = SB /\ b[p + 2] = NAWS /\ Rest(b, p) >= 5
            /\ cols.ok /\ rows.ok /\ Step(b, t) = size
  BY <1>5, <1>9, <1>10, <1>12 DEF p, cols, rows
<1> QED BY <1>6, <1>7, <1>8, <1>11, <1>12

\* What holds at first and in every step of the parser holds at the end, when all is read.
LEMMA ParseInduction ==
    ASSUME NEW b \in Seq(Byte), NEW pressed \in SUBSET AllKeys, NEW S,
           [at |-> 1, keys |-> pressed, sizes |-> <<>>] \in S,
           \A t \in Parsers : t \in S /\ t.at <= Len(b) => Step(b, t) \in S
    PROVE  /\ Parse(b, pressed) \in S /\ Parse(b, pressed) \in Parsers
           /\ Parse(b, pressed).at > Len(b)
<1>1. PICK g : Stages(g, b, pressed)
  BY ParseStages
<1> DEFINE last == Len(b)
           Done(n) == g[n] \in S /\ (g[n].at > n \/ g[n].at > last)
           R == {n \in 0 .. last : Done(n)}
<1>2. last \in Nat
  OBVIOUS
<1>3. 0 \in R
  BY <1>1, <1>2 DEF Stages
<1>4. ASSUME NEW n \in 0 + 1 .. last, n - 1 \in R PROVE n \in R
  <2>1. g[n - 1] \in Parsers /\ n \in 1 .. last /\ Done(n - 1)
    BY <1>1, <1>2, <1>4 DEF Stages
  <2>2. g[n - 1].at \in Nat
    BY <2>1 DEF Parsers
  <2>3. CASE g[n - 1].at > last
    <3>1. g[n] = g[n - 1]
      BY <1>1, <2>1, <2>3 DEF Stages
    <3> QED BY <2>1, <2>3, <3>1
  <2>4. CASE g[n - 1].at <= last
    <3>1. g[n] = Step(b, g[n - 1])
      BY <1>1, <1>2, <2>1, <2>2, <2>4 DEF Stages
    <3>2. g[n].at > g[n - 1].at /\ g[n] \in S
      BY <2>1, <2>4, <3>1, StepAdvances
    <3>3. g[n] \in Parsers
      BY <1>1, <2>1 DEF Stages
    <3>4. g[n].at \in Nat
      BY <3>3 DEF Parsers
    <3>5. g[n].at > n
      BY <1>2, <2>1, <2>2, <2>4, <3>2, <3>4
    <3> QED BY <2>1, <3>2, <3>5
  <2> QED BY <1>2, <2>2, <2>3, <2>4
<1>5. 0 \in Int /\ last \in Int /\ last \in 0 .. last
  BY <1>2
<1> HIDE DEF R, last
<1>6. \A n \in 0 .. last : n \in R
  BY <1>3, <1>4, <1>5, IntervalInduction, Zenon
<1>7. Done(last)
  BY <1>5, <1>6 DEF R
<1>8. Parse(b, pressed) = g[last] /\ g[last] \in Parsers
  BY <1>1, <1>5 DEF Stages, last
<1> QED BY <1>7, <1>8 DEF last

-----------------------------------------------------------------------------
(* Packets. *)

\* What is on the way: messages, and what is left of one.
Packets == Messages \cup [bytes : Seq(Byte)]

\* A packet that is on the way is made of bytes.
LEMMA PacketsHaveBytes ==
    ASSUME NEW m \in Packets
    PROVE  m.bytes \in Seq(Byte)
BY DisplayAssumption DEF Packets, Byte

\* The first messages make a packet.
LEMMA JoinedType ==
    ASSUME wire \in Seq(Packets), NEW last \in 0 .. Len(wire)
    PROVE  Joined(last) \in Seq(Byte)
<1> DEFINE W == [n \in 0 .. last |-> Seq(Byte)]
           F == [n \in 0 .. last |-> [b \in Seq(Byte) |-> b \o wire[n].bytes]]
           Eq(g) == g = [n \in 0 .. last |-> IF n = 0 THEN <<>> ELSE g[n - 1] \o wire[n].bytes]
           upTo == CHOOSE g : Eq(g)
<1>1. last \in Nat
  OBVIOUS
<1>2. ASSUME NEW n \in 0 + 1 .. last, NEW b \in Seq(Byte) PROVE b \o wire[n].bytes \in Seq(Byte)
  <2>1. wire[n] \in Packets
    OBVIOUS
  <2>2. wire[n].bytes \in Seq(Byte)
    BY <2>1, PacketsHaveBytes
  <2> QED BY <2>2, ConcatProperties
<1>3. Joined(last) = upTo[last]
  BY DEF Joined
<1>4. PICK g : Eq(g)
  <2>1. \A i \in 0 + 1 .. last : \A b \in W[i - 1] : F[i][b] \in W[i]
    <3> SUFFICES ASSUME NEW i \in 0 + 1 .. last, NEW b \in W[i - 1] PROVE F[i][b] \in W[i]
      OBVIOUS
    <3>1. i \in 0 .. last /\ i - 1 \in 0 .. last
      BY <1>1
    <3>2. b \in Seq(Byte)
      BY <3>1
    <3>3. F[i][b] = b \o wire[i].bytes /\ W[i] = Seq(Byte)
      BY <3>1, <3>2
    <3> QED BY <1>2, <3>2, <3>3
  <2>2. 0 \in Int /\ last \in Int /\ 0 <= last
    BY <1>1
  <2>7. <<>> \in W[0]
    BY <1>1
  <2> HIDE DEF W, F
  <2>3. PICK g : Recurses(g, 0, last, <<>>, F, W)
    BY <2>1, <2>2, <2>7, RecursionExists, Zenon
  <2>4. /\ g = [i \in 0 .. last |-> IF i = 0 THEN <<>> ELSE F[i][g[i - 1]]]
        /\ \A i \in 0 .. last : g[i] \in W[i]
    BY <2>3 DEF Recurses
  <2>5. ASSUME NEW i \in 0 .. last, i # 0 PROVE F[i][g[i - 1]] = g[i - 1] \o wire[i].bytes
    <3>1. g[i - 1] \in Seq(Byte)
      BY <1>1, <2>4, <2>5 DEF W
    <3> QED BY <3>1 DEF F
  <2>6. Eq(g)
    BY <2>4, <2>5
  <2> QED BY <2>6
<1>5. Eq(upTo)
  <2> HIDE DEF Eq
  <2> QED BY <1>4
<1> HIDE DEF upTo
<1>6. \A n \in 0 .. last : upTo[n] \in Seq(Byte)
  <2> DEFINE S == {n \in 0 .. last : upTo[n] \in Seq(Byte)}
  <2>1. 0 \in S
    BY <1>1, <1>5
  <2>2. \A n \in 0 + 1 .. last : n - 1 \in S => n \in S
    BY <1>1, <1>2, <1>5
  <2>3. 0 \in Int /\ last \in Int
    BY <1>1
  <2> HIDE DEF S
  <2>4. \A n \in 0 .. last : n \in S
    BY <2>1, <2>2, <2>3, IntervalInduction, Zenon
  <2> QED BY <2>4 DEF S
<1> QED BY <1>1, <1>3, <1>6

-----------------------------------------------------------------------------
(* The canvas. *)

\* What is assumed of characters, styles and bytes, in the words the proofs need.
LEMMA Assumed ==
    /\ Space \in Chars /\ Chars \subseteq Nat
    /\ Plain \in Styles /\ NoStyle \notin Styles
    /\ MoveBytes \in Nat \ {0} /\ StyleBytes \in Nat \ {0} /\ BufferBytes \in Nat
    /\ \A ch \in Chars : Bytes[ch] \in Nat \ {0} /\ MoveBytes + StyleBytes + Bytes[ch] <= BufferBytes
<1>1. Chars \subseteq Nat
  BY CanvasAssumption
<1>2. \A ch \in Chars : Bytes[ch] \in Nat \ {0}
  BY <1>1, EncodedHasBytes DEF Bytes
<1>3. \A ch \in Chars : MoveBytes + StyleBytes + Bytes[ch] <= BufferBytes
  BY BufferAssumption
<1>4. Space \in Chars /\ Plain \in Styles /\ NoStyle \notin Styles
  BY CanvasAssumption
<1>5. MoveBytes \in Nat \ {0} /\ StyleBytes \in Nat \ {0} /\ BufferBytes \in Nat
  BY CanvasAssumption
<1> QED BY <1>1, <1>2, <1>3, <1>4, <1>5

Positions(w, h) == 0 .. w * h - 1

CanvasesOf(w, h) ==
    [w : {w}, h : {h},
     front : [Positions(w, h) -> FrontCells], back : [Positions(w, h) -> BackCells],
     index : 0 .. w * h, force : BOOLEAN, flushed : Styles \cup {NoStyle}]

Canvases == UNION {CanvasesOf(side[1], side[2]) : side \in Sides}

\* The number of the cells.
LEMMA CellsCount ==
    ASSUME NEW w \in Nat \ {0}, NEW h \in Nat \ {0}
    PROVE  w * h \in Nat /\ w * h >= w /\ w * h > 0
OBVIOUS

\* A window has at least one column and one row.
LEMMA SidesArePositive ==
    ASSUME NEW side \in Sides
    PROVE  side[1] \in Nat \ {0} /\ side[2] \in Nat \ {0}
BY SidesAssumption DEF Sides

\* The parts of a canvas.
LEMMA CanvasParts ==
    ASSUME NEW c \in Canvases
    PROVE  /\ c \in CanvasesOf(c.w, c.h) /\ <<c.w, c.h>> \in Sides
           /\ c.w \in COLUMNS .. MaxSide /\ c.h \in ROWS .. MaxSide
           /\ c.w \in Nat \ {0} /\ c.h \in Nat \ {0} /\ Size(c) = c.w * c.h
           /\ Size(c) \in Nat /\ Size(c) > 0 /\ c.index \in 0 .. Size(c)
           /\ c.front \in [Positions(c.w, c.h) -> FrontCells]
           /\ c.back \in [Positions(c.w, c.h) -> BackCells]
           /\ c.force \in BOOLEAN /\ c.flushed \in Styles \cup {NoStyle}
<1>1. PICK side \in Sides : c \in CanvasesOf(side[1], side[2])
  BY DEF Canvases
<1>2. c.w = side[1] /\ c.h = side[2]
  BY <1>1 DEF CanvasesOf
<1>3. side[1] \in Nat \ {0} /\ side[2] \in Nat \ {0}
  BY SidesArePositive
<1>4. side = <<c.w, c.h>> /\ side[1] \in COLUMNS .. MaxSide /\ side[2] \in ROWS .. MaxSide
  BY <1>2 DEF Sides
<1>5. Size(c) = c.w * c.h /\ Size(c) \in Nat /\ Size(c) > 0
  BY <1>2, <1>3, CellsCount DEF Size
<1>6. c \in CanvasesOf(c.w, c.h)
  BY <1>1, <1>2
<1>7. /\ c.index \in 0 .. Size(c)
      /\ c.front \in [Positions(c.w, c.h) -> FrontCells]
      /\ c.back \in [Positions(c.w, c.h) -> BackCells]
      /\ c.force \in BOOLEAN /\ c.flushed \in Styles \cup {NoStyle}
  BY <1>5, <1>6 DEF CanvasesOf
<1> QED BY <1>2, <1>3, <1>4, <1>5, <1>6, <1>7

\* A canvas of an allowed size is a canvas.
LEMMA CanvasWhole ==
    ASSUME NEW w, NEW h, <<w, h>> \in Sides, NEW c \in CanvasesOf(w, h)
    PROVE  c \in Canvases
BY DEF Canvases

\* A new canvas is one.
LEMMA NewCanvasType ==
    ASSUME NEW w, NEW h, <<w, h>> \in Sides
    PROVE  NewCanvas(w, h) \in CanvasesOf(w, h)
<1>1. w \in Nat \ {0} /\ h \in Nat \ {0}
  BY SidesAssumption DEF Sides
<1>2. w * h \in Nat
  BY <1>1
<1>3. Cell(Nul, Plain) \in FrontCells /\ Cell(Space, Plain) \in BackCells
  <2>1. Nul \in Chars \cup {Nul} /\ Plain \in Styles /\ Space \in Chars
    BY Assumed
  <2>2. Cell(Nul, Plain) \in FrontCells
    BY <2>1 DEF FrontCells
  <2>3. Cell(Space, Plain) \in BackCells
    BY <2>1 DEF BackCells
  <2> QED BY <2>2, <2>3
<1>4. 0 \in 0 .. w * h
  BY <1>2
<1> QED BY <1>3, <1>4 DEF NewCanvas, CanvasesOf, Positions

\* Drawing changes only what should be there.
LEMMA PutType ==
    ASSUME NEW c \in Canvases, NEW cells, NEW ink \in Chars \X Styles
    PROVE  /\ Put(c, cells, ink) \in CanvasesOf(c.w, c.h)
           /\ Put(c, cells, ink) \in Canvases
           /\ Put(c, cells, ink).w = c.w /\ Put(c, cells, ink).h = c.h
           /\ Put(c, cells, ink).index = c.index /\ Put(c, cells, ink).force = c.force
           /\ Put(c, cells, ink).front = c.front
<1> DEFINE back == [i \in DOMAIN c.back |-> IF i \in cells THEN Cell(ink[1], ink[2]) ELSE c.back[i]]
<1>1. c \in CanvasesOf(c.w, c.h) /\ <<c.w, c.h>> \in Sides
  BY CanvasParts
<1>2. c.back \in [Positions(c.w, c.h) -> BackCells]
  BY CanvasParts
<1>3. Cell(ink[1], ink[2]) \in BackCells
  BY DEF BackCells
<1>4. back \in [Positions(c.w, c.h) -> BackCells]
  BY <1>2, <1>3
<1>5. Put(c, cells, ink) = [c EXCEPT !.back = back]
  BY DEF Put
<1> HIDE DEF back
<1>6. Put(c, cells, ink) \in CanvasesOf(c.w, c.h)
  BY <1>1, <1>4, <1>5 DEF CanvasesOf
<1>7. Put(c, cells, ink) \in Canvases
  BY <1>1, <1>6, CanvasWhole
<1>8. /\ Put(c, cells, ink).w = c.w /\ Put(c, cells, ink).h = c.h
      /\ Put(c, cells, ink).index = c.index /\ Put(c, cells, ink).force = c.force
      /\ Put(c, cells, ink).front = c.front
  BY <1>1, <1>5 DEF CanvasesOf
<1> QED BY <1>6, <1>7, <1>8

\* What resizing leads to: the canvas as it was, or one that begins anew.
Renewed == {d \in Canvases : d.index = 0 /\ d.force /\ d.front = NewCanvas(d.w, d.h).front}

\* canvas_resize leaves the canvas alone or makes one that is sent from the beginning.
LEMMA ResizedType ==
    ASSUME NEW c \in Canvases, NEW w, NEW h, <<w, h>> \in Sides
    PROVE  Resized(c, w, h) \in {c} \cup Renewed
<1>1. CASE c.w = w /\ c.h = h
  BY <1>1 DEF Resized
<1>2. CASE ~(c.w = w /\ c.h = h)
  <2> DEFINE new == NewCanvas(w, h)
             kept == IF c.w > w THEN w ELSE c.w
             back == [i \in DOMAIN new.back |-> IF i < kept THEN c.back[i] ELSE new.back[i]]
             r == [[new EXCEPT !.back = back] EXCEPT !.force = TRUE]
  <2>1. Resized(c, w, h) = r
    BY <1>2 DEF Resized, ForceNextFlush
  <2>2. w \in Nat \ {0} /\ h \in Nat \ {0}
    BY SidesAssumption DEF Sides
  <2>3. new \in CanvasesOf(w, h)
    BY NewCanvasType
  <2>4. new.back \in [Positions(w, h) -> BackCells]
    <3> HIDE DEF new
    <3> QED BY <2>3 DEF CanvasesOf
  <2>5. /\ c.w \in Nat \ {0} /\ c.h \in Nat \ {0} /\ Size(c) = c.w * c.h
        /\ c.back \in [Positions(c.w, c.h) -> BackCells]
    BY CanvasParts
  <2>6. w * h \in Nat
    BY <2>2
  <2>7. ASSUME NEW i \in Positions(w, h), i < kept PROVE c.back[i] \in BackCells
    <3>1. i \in Nat /\ i < c.w
      BY <2>2, <2>5, <2>6, <2>7 DEF Positions
    <3>2. c.w * c.h \in Nat /\ c.w * c.h >= c.w
      BY <2>5, CellsCount
    <3>3. i \in Positions(c.w, c.h)
      BY <2>5, <3>1, <3>2 DEF Positions
    <3> QED BY <2>5, <3>3
  <2>8. back \in [Positions(w, h) -> BackCells]
    <3> HIDE DEF new, kept
    <3> QED BY <2>4, <2>7
  <2>9. new.index = 0 /\ new.w = w /\ new.h = h
    BY DEF NewCanvas
  <2> HIDE DEF new, back
  <2>10. r \in CanvasesOf(w, h)
    BY <2>3, <2>8 DEF CanvasesOf
  <2>11. r.index = 0 /\ r.force = TRUE /\ r.front = new.front /\ r.w = w /\ r.h = h
    BY <2>3, <2>9 DEF CanvasesOf
  <2>12. r.front = NewCanvas(r.w, r.h).front
    BY <2>11 DEF new
  <2> HIDE DEF r
  <2>13. r \in Canvases
    BY <2>10, CanvasWhole
  <2> QED BY <2>1, <2>11, <2>12, <2>13 DEF Renewed
<1> QED BY <1>1, <1>2

\* The canvas has the size that was given.
LEMMA ResizedSides ==
    ASSUME NEW c \in Canvases, NEW w, NEW h, <<w, h>> \in Sides
    PROVE  Resized(c, w, h).w = w /\ Resized(c, w, h).h = h
<1>1. CASE c.w = w /\ c.h = h
  BY <1>1 DEF Resized
<1>2. CASE ~(c.w = w /\ c.h = h)
  <2> DEFINE new == NewCanvas(w, h)
             kept == IF c.w > w THEN w ELSE c.w
             back == [i \in DOMAIN new.back |-> IF i < kept THEN c.back[i] ELSE new.back[i]]
             r == [[new EXCEPT !.back = back] EXCEPT !.force = TRUE]
  <2>1. Resized(c, w, h) = r
    BY <1>2 DEF Resized, ForceNextFlush
  <2>2. new \in CanvasesOf(w, h)
    BY NewCanvasType
  <2> HIDE DEF back, new
  <2>3. r.w = new.w /\ r.h = new.h
    BY <2>2 DEF CanvasesOf
  <2>4. new.w = w /\ new.h = h
    BY <2>2 DEF CanvasesOf
  <2> QED BY <2>1, <2>3, <2>4
<1> QED BY <1>1, <1>2

\* The canvases on the way through the sizes of a packet.
ResizedStages(g, c, sizes) ==
    /\ g[0] = c /\ ResizedBy(c, sizes) = g[Len(sizes)]
    /\ \A n \in 0 .. Len(sizes) : g[n] \in {c} \cup Renewed
    /\ \A n \in 1 .. Len(sizes) : g[n] = Resized(g[n - 1], sizes[n][1], sizes[n][2])

\* Each of them is as it was, or begins anew.
LEMMA ResizedInStages ==
    ASSUME NEW c \in Canvases, NEW sizes \in Seq(Sides)
    PROVE  \E g : ResizedStages(g, c, sizes)
<1> DEFINE last == Len(sizes)
           Kept == {c} \cup Renewed
           To(d, n) == Resized(d, sizes[n][1], sizes[n][2])
           W == [n \in 0 .. last |-> Kept]
           F == [n \in 0 .. last |-> [d \in Kept |-> To(d, n)]]
           Eq(g) == g = [n \in 0 .. last |-> IF n = 0 THEN c ELSE To(g[n - 1], n)]
           upTo == CHOOSE g : Eq(g)
<1>1. last \in Nat
  OBVIOUS
<1>2. ASSUME NEW n \in 0 + 1 .. last, NEW d \in Kept PROVE To(d, n) \in Kept
  <2>1. sizes[n] \in Sides
    OBVIOUS
  <2>2. <<sizes[n][1], sizes[n][2]>> \in Sides
    BY <2>1 DEF Sides
  <2>3. d \in Canvases
    BY DEF Renewed
  <2>4. To(d, n) \in {d} \cup Renewed
    BY <2>2, <2>3, ResizedType
  <2> QED BY <2>4
<1>3. ResizedBy(c, sizes) = upTo[last]
  BY DEF ResizedBy
<1>4. c \in Kept
  OBVIOUS
<1> HIDE DEF last, Kept, To
<1>5. PICK g : Eq(g)
  <2>1. \A i \in 0 + 1 .. last : \A d \in W[i - 1] : F[i][d] \in W[i]
    BY <1>1, <1>2
  <2>2. 0 \in Int /\ last \in Int /\ 0 <= last /\ c \in W[0]
    BY <1>1, <1>4
  <2> HIDE DEF W, F
  <2>3. PICK g : Recurses(g, 0, last, c, F, W)
    BY <2>1, <2>2, RecursionExists, Zenon
  <2>4. /\ g = [i \in 0 .. last |-> IF i = 0 THEN c ELSE F[i][g[i - 1]]]
        /\ \A i \in 0 .. last : g[i] \in W[i]
    BY <2>3 DEF Recurses
  <2>5. ASSUME NEW i \in 0 .. last, i # 0 PROVE F[i][g[i - 1]] = To(g[i - 1], i)
    <3>1. g[i - 1] \in Kept
      BY <1>1, <2>4, <2>5 DEF W
    <3> QED BY <3>1 DEF F
  <2>6. Eq(g)
    BY <2>4, <2>5
  <2> QED BY <2>6
<1>6. Eq(upTo)
  <2> HIDE DEF Eq
  <2> QED BY <1>5
<1> HIDE DEF upTo
<1>7. \A n \in 0 .. last : upTo[n] \in Kept
  <2> DEFINE S == {n \in 0 .. last : upTo[n] \in Kept}
  <2>1. 0 \in S
    BY <1>1, <1>4, <1>6
  <2>2. \A n \in 0 + 1 .. last : n - 1 \in S => n \in S
    BY <1>1, <1>2, <1>6
  <2>3. 0 \in Int /\ last \in Int
    BY <1>1
  <2> HIDE DEF S
  <2>4. \A n \in 0 .. last : n \in S
    BY <2>1, <2>2, <2>3, IntervalInduction, Zenon
  <2> QED BY <2>4 DEF S
<1>8. upTo[0] = c /\ \A n \in 1 .. last : upTo[n] = To(upTo[n - 1], n)
  BY <1>1, <1>6
<1>9. ResizedStages(upTo, c, sizes)
  BY <1>3, <1>7, <1>8 DEF ResizedStages, last, Kept, To
<1> QED BY <1>9

\* After a packet the canvas is as it was, or begins anew.
LEMMA ResizedByType ==
    ASSUME NEW c \in Canvases, NEW sizes \in Seq(Sides)
    PROVE  ResizedBy(c, sizes) \in {c} \cup Renewed
<1>1. PICK g : ResizedStages(g, c, sizes)
  BY ResizedInStages
<1>2. Len(sizes) \in 0 .. Len(sizes)
  OBVIOUS
<1> QED BY <1>1, <1>2 DEF ResizedStages

\* The last size is the one that stays.
LEMMA ResizedByLast ==
    ASSUME NEW c \in Canvases, NEW sizes \in Seq(Sides)
    PROVE  <<ResizedBy(c, sizes).w, ResizedBy(c, sizes).h>>
             = IF Len(sizes) = 0 THEN <<c.w, c.h>> ELSE sizes[Len(sizes)]
<1> DEFINE last == Len(sizes)
<1>1. PICK g : ResizedStages(g, c, sizes)
  BY ResizedInStages
<1>2. CASE last = 0
  <2>1. ResizedBy(c, sizes) = c
    BY <1>1, <1>2 DEF ResizedStages
  <2> QED BY <1>2, <2>1
<1>3. CASE last # 0
  <2>1. last \in Nat /\ last \in 1 .. last /\ last - 1 \in 0 .. last
    BY <1>3
  <2>2. sizes[last] \in Sides
    BY <2>1
  <2>3. PICK w \in COLUMNS .. MaxSide, h \in ROWS .. MaxSide : sizes[last] = <<w, h>>
    BY <2>2 DEF Sides
  <2>4. <<w, h>> \in Sides
    BY <2>2, <2>3
  <2>5. g[last - 1] \in Canvases
    BY <1>1, <2>1 DEF ResizedStages, Renewed
  <2>6. g[last] = Resized(g[last - 1], w, h)
    BY <1>1, <2>1, <2>3 DEF ResizedStages
  <2>7. ResizedBy(c, sizes) = g[last]
    BY <1>1 DEF ResizedStages
  <2>8. ResizedBy(c, sizes).w = w /\ ResizedBy(c, sizes).h = h
    BY <2>4, <2>5, <2>6, <2>7, ResizedSides
  <2> QED BY <1>3, <2>3, <2>8
<1> QED BY <1>2, <1>3

-----------------------------------------------------------------------------
(* One cell of a flush. *)

Sent == [move : Nat] \cup [style : Styles] \cup [char : Chars, cell : Nat]

Passes ==
    [c : Canvases, last : Nat, remaining : Nat, out : Seq(Sent), stopped : BOOLEAN, more : BOOLEAN]

\* What is sent for cell i.
MoveOf(p, i)  == IF Moves(p, i) THEN <<[move |-> i]>> ELSE <<>>
StyleOf(p, i) == IF p.c.flushed # p.c.back[i].style THEN <<[style |-> p.c.back[i].style]>> ELSE <<>>
CharOf(p, i)  == <<[char |-> p.c.back[i].ch, cell |-> i]>>

\* What is drawn in a cell can be what was sent of it.
LEMMA BackCellParts ==
    ASSUME NEW cell \in BackCells
    PROVE  /\ cell.ch \in Chars /\ cell.style \in Styles /\ cell \in FrontCells
           /\ cell = Cell(cell.ch, cell.style)
<1>1. PICK ch \in Chars, s \in Styles : cell = Cell(ch, s)
  BY DEF BackCells
<1>2. cell.ch = ch /\ cell.style = s
  BY <1>1 DEF Cell
<1>3. cell \in FrontCells
  BY <1>1 DEF FrontCells
<1> QED BY <1>1, <1>2, <1>3

\* What a cell is sent as: escapes and a character.
LEMMA PieceTypes ==
    ASSUME NEW p \in Passes, NEW i \in Nat, p.c.back[i] \in BackCells
    PROVE  MoveOf(p, i) \in Seq(Sent) /\ StyleOf(p, i) \in Seq(Sent) /\ CharOf(p, i) \in Seq(Sent)
<1>1. p.c.back[i].ch \in Chars /\ p.c.back[i].style \in Styles
  BY BackCellParts
<1>2. [move |-> i] \in Sent
  BY DEF Sent
<1>3. [style |-> p.c.back[i].style] \in Sent
  BY <1>1 DEF Sent
<1>4. [char |-> p.c.back[i].ch, cell |-> i] \in Sent
  BY <1>1 DEF Sent
<1> QED BY <1>2, <1>3, <1>4 DEF MoveOf, StyleOf, CharOf

\* A canvas with another place, another style or one cell more that was sent.
LEMMA CanvasEdited ==
    ASSUME NEW c \in Canvases, NEW index \in 0 .. Size(c), NEW style \in Styles \cup {NoStyle},
           NEW front \in [Positions(c.w, c.h) -> FrontCells]
    PROVE  /\ [c EXCEPT !.index = index] \in Canvases
           /\ [c EXCEPT !.index = index, !.flushed = style] \in Canvases
           /\ [c EXCEPT !.flushed = style, !.front = front, !.index = index] \in Canvases
<1>1. c \in CanvasesOf(c.w, c.h) /\ <<c.w, c.h>> \in Sides /\ Size(c) = c.w * c.h
  BY CanvasParts
<1>2. /\ [c EXCEPT !.index = index] \in CanvasesOf(c.w, c.h)
      /\ [c EXCEPT !.index = index, !.flushed = style] \in CanvasesOf(c.w, c.h)
      /\ [c EXCEPT !.flushed = style, !.front = front, !.index = index] \in CanvasesOf(c.w, c.h)
  BY <1>1 DEF CanvasesOf
<1> QED BY <1>1, <1>2, CanvasWhole

\* What a canvas has behind a stop: the place, and perhaps the style.
Halted(p, i, q) ==
    /\ q.stopped /\ q.more /\ q.out = p.out /\ q.last = p.last /\ q.remaining = p.remaining
    /\ q.c.index = i /\ q.c.front = p.c.front
    /\ q.c.w = p.c.w /\ q.c.h = p.c.h /\ q.c.back = p.c.back /\ q.c.force = p.c.force

\* What it has behind a cell that was sent.
CellSent(p, i, q) ==
    /\ q.stopped = p.stopped /\ q.more /\ q.last = i
    /\ q.out = ((p.out \o MoveOf(p, i)) \o StyleOf(p, i)) \o CharOf(p, i)
    /\ q.c.index = i + 1 /\ q.c.front = [p.c.front EXCEPT ![i] = p.c.back[i]]
    /\ q.c.w = p.c.w /\ q.c.h = p.c.h /\ q.c.back = p.c.back /\ q.c.force = p.c.force

\* A cell is sent as a whole or stops the pass, and it is sent if nothing was sent before it.
LEMMA FlushCellCases ==
    ASSUME NEW p \in Passes, NEW i \in Positions(p.c.w, p.c.h)
    PROVE  /\ FlushCell(p, i) \in Passes
           /\ \/ Halted(p, i, FlushCell(p, i))
              \/ CellSent(p, i, FlushCell(p, i)) /\ FlushCell(p, i).c.flushed = p.c.back[i].style
           /\ p.remaining = BufferBytes => CellSent(p, i, FlushCell(p, i))
<1> DEFINE next  == p.c.back[i]
           move  == IF Moves(p, i) THEN MoveBytes ELSE 0
           style == IF p.c.flushed # next.style THEN StyleBytes ELSE 0
           left  == p.remaining - move - style
           fails == (move > 0 /\ move >= p.remaining) \/ (style > 0 /\ left <= 0)
           big   == Bytes[next.ch] > left
           stopA == [p EXCEPT !.stopped = TRUE, !.more = TRUE, !.c.index = i]
           stopB == [stopA EXCEPT !.c.flushed = next.style]
           sent  == [p EXCEPT
                       !.remaining = left - Bytes[next.ch],
                       !.c.flushed = next.style,
                       !.c.front[i] = next,
                       !.c.index = i + 1,
                       !.last = i,
                       !.more = TRUE,
                       !.out = (@ \o (IF move > 0 THEN <<[move |-> i]>> ELSE <<>>))
                               \o (IF style > 0 THEN <<[style |-> next.style]>> ELSE <<>>)
                               \o <<[char |-> next.ch, cell |-> i]>>]
<1>1. FlushCell(p, i) = IF fails THEN stopA ELSE IF big THEN stopB ELSE sent
  BY DEF FlushCell
<1>2. /\ p.c \in Canvases /\ p.last \in Nat /\ p.remaining \in Nat /\ p.out \in Seq(Sent)
      /\ p.stopped \in BOOLEAN /\ p.more \in BOOLEAN
  BY DEF Passes
<1>3. /\ Size(p.c) = p.c.w * p.c.h /\ Size(p.c) \in Nat
      /\ p.c.back \in [Positions(p.c.w, p.c.h) -> BackCells]
      /\ p.c.front \in [Positions(p.c.w, p.c.h) -> FrontCells]
      /\ p.c \in CanvasesOf(p.c.w, p.c.h)
      /\ p.c.flushed \in Styles \cup {NoStyle}
  BY <1>2, CanvasParts
<1>4. i \in Nat /\ i \in 0 .. Size(p.c) /\ i + 1 \in 0 .. Size(p.c)
  BY <1>3 DEF Positions
<1>5. next \in BackCells /\ next.ch \in Chars /\ next.style \in Styles /\ next \in FrontCells
  BY <1>3, BackCellParts
<1>6. /\ MoveBytes \in Nat \ {0} /\ StyleBytes \in Nat \ {0} /\ BufferBytes \in Nat
      /\ Bytes[next.ch] \in Nat \ {0} /\ MoveBytes + StyleBytes + Bytes[next.ch] <= BufferBytes
  BY <1>5, Assumed
<1>7. /\ move \in Nat /\ style \in Nat /\ left \in Int
      /\ (move > 0) = Moves(p, i) /\ (style > 0) = (p.c.flushed # next.style)
  BY <1>2, <1>6 DEF Moves
<1>8. ~fails /\ ~big => left - Bytes[next.ch] \in Nat
  <2> HIDE DEF left
  <2> QED BY <1>6, <1>7
<1>9. p.remaining = BufferBytes => ~fails /\ ~big
  BY <1>2, <1>6
<1>10. /\ MoveOf(p, i) = IF move > 0 THEN <<[move |-> i]>> ELSE <<>>
       /\ StyleOf(p, i) = IF style > 0 THEN <<[style |-> next.style]>> ELSE <<>>
       /\ CharOf(p, i) = <<[char |-> next.ch, cell |-> i]>>
  <2> HIDE DEF move, style
  <2>1. MoveOf(p, i) = IF move > 0 THEN <<[move |-> i]>> ELSE <<>>
    BY <1>7 DEF MoveOf
  <2>2. StyleOf(p, i) = IF style > 0 THEN <<[style |-> next.style]>> ELSE <<>>
    BY <1>7 DEF StyleOf
  <2> QED BY <2>1, <2>2 DEF CharOf
<1> DEFINE bytes == left - Bytes[next.ch]
           out == ((p.out \o MoveOf(p, i)) \o StyleOf(p, i)) \o CharOf(p, i)
           front == [p.c.front EXCEPT ![i] = next]
           cA == [p.c EXCEPT !.index = i]
           cB == [p.c EXCEPT !.index = i, !.flushed = next.style]
           cC == [p.c EXCEPT !.flushed = next.style, !.front = front, !.index = i + 1]
<1>11. out \in Seq(Sent)
  BY <1>2, <1>4, <1>5, PieceTypes, ConcatProperties
<1>12. front \in [Positions(p.c.w, p.c.h) -> FrontCells]
  BY <1>3, <1>5
<1>13. cA \in Canvases /\ cB \in Canvases /\ cC \in Canvases
  <2> HIDE DEF front, next
  <2> QED BY <1>2, <1>4, <1>5, <1>12, CanvasEdited
<1>14. /\ stopA = [p EXCEPT !.stopped = TRUE, !.more = TRUE, !.c = cA]
       /\ stopB = [p EXCEPT !.stopped = TRUE, !.more = TRUE, !.c = cB]
  <2> HIDE DEF next
  <2> QED BY <1>3 DEF Passes, CanvasesOf
<1>15. sent = [p EXCEPT !.remaining = bytes, !.c = cC, !.last = i, !.more = TRUE, !.out = out]
  <2> HIDE DEF next, left, move, style
  <2> DEFINE to == [p EXCEPT !.remaining = bytes, !.c.flushed = next.style, !.c.front[i] = next,
                            !.c.index = i + 1, !.last = i, !.more = TRUE, !.out = out]
  <2>1. sent = to
    BY <1>10, Zenon
  <2> HIDE DEF sent, out, bytes
  <2>2. to = [p EXCEPT !.remaining = bytes, !.c = cC, !.last = i, !.more = TRUE, !.out = out]
    BY <1>3 DEF Passes, CanvasesOf
  <2> HIDE DEF to
  <2> QED BY <2>1, <2>2
<1> HIDE DEF stopA, stopB, sent, out, front, bytes, fails, big
<1>16. /\ cA.index = i /\ cA.front = p.c.front /\ cB.index = i /\ cB.front = p.c.front
       /\ cC.index = i + 1 /\ cC.front = front /\ cC.flushed = next.style
       /\ cA.w = p.c.w /\ cA.h = p.c.h /\ cA.back = p.c.back /\ cA.force = p.c.force
       /\ cB.w = p.c.w /\ cB.h = p.c.h /\ cB.back = p.c.back /\ cB.force = p.c.force
       /\ cC.w = p.c.w /\ cC.h = p.c.h /\ cC.back = p.c.back /\ cC.force = p.c.force
  <2> HIDE DEF next
  <2> QED BY <1>3 DEF CanvasesOf
<1> HIDE DEF cA, cB, cC
<1>17. stopA \in Passes /\ stopB \in Passes
  BY <1>2, <1>13, <1>14 DEF Passes
<1>18. ~fails /\ ~big => sent \in Passes
  BY <1>2, <1>4, <1>8, <1>11, <1>13, <1>15 DEF Passes, bytes
<1>19. Halted(p, i, stopA) /\ Halted(p, i, stopB)
  BY <1>14, <1>16 DEF Passes, Halted
<1>20. CellSent(p, i, sent) /\ sent.c.flushed = p.c.back[i].style
  BY <1>15, <1>16 DEF Passes, CellSent, out, front
<1> QED BY <1>1, <1>9, <1>17, <1>18, <1>19, <1>20

-----------------------------------------------------------------------------
(* The client's terminal. *)

ClientCells == {Cell(ch, s) : ch \in Chars \cup {Nul}, s \in Styles \cup {NoStyle}}
Clients(w, h) ==
    [cells : [Positions(w, h) -> ClientCells], at : Int, style : Styles \cup {NoStyle}]

\* A blank cell of no style is one.
LEMMA BlankIsCell == Cell(Nul, NoStyle) \in ClientCells
BY DEF ClientCells

\* What one thing that was sent does to it.
Painted(u, s) ==
    IF "move" \in DOMAIN s THEN [u EXCEPT !.at = s.move]
    ELSE IF "style" \in DOMAIN s THEN [u EXCEPT !.style = s.style]
    ELSE IF u.at = Nowhere THEN u
    ELSE [u EXCEPT !.cells[u.at] = Cell(s.char, u.style),
                   !.at = IF (u.at + 1) % canvas.w = 0 THEN Nowhere ELSE u.at + 1]

\* Whatever is sent is a move, a style, or a character.
LEMMA SentKinds ==
    ASSUME NEW s \in Sent
    PROVE  \/ DOMAIN s = {"move"} /\ s.move \in Nat
           \/ DOMAIN s = {"style"} /\ s.style \in Styles
           \/ DOMAIN s = {"char", "cell"} /\ s.char \in Chars
<1>1. CASE s \in [move : Nat]
  BY <1>1
<1>2. CASE s \in [style : Styles]
  BY <1>2
<1>3. CASE s \in [char : Chars, cell : Nat]
  BY <1>3
<1> QED BY <1>1, <1>2, <1>3 DEF Sent

\* A terminal that was sent something is still a terminal of its size.
LEMMA PaintedType ==
    ASSUME canvas \in Canvases, NEW u \in Clients(canvas.w, canvas.h), NEW s \in Sent
    PROVE  Painted(u, s) \in Clients(canvas.w, canvas.h)
<1>1. /\ u.cells \in [Positions(canvas.w, canvas.h) -> ClientCells]
      /\ u.at \in Int /\ u.style \in Styles \cup {NoStyle}
  BY DEF Clients
<1>2. CASE "move" \in DOMAIN s
  <2>1. s.move \in Int
    BY <1>2, SentKinds
  <2>2. Painted(u, s) = [u EXCEPT !.at = s.move]
    BY <1>2 DEF Painted
  <2> QED BY <2>1, <2>2 DEF Clients
<1>3. CASE "move" \notin DOMAIN s /\ "style" \in DOMAIN s
  <2>1. s.style \in Styles
    BY <1>3, SentKinds
  <2>2. Painted(u, s) = [u EXCEPT !.style = s.style]
    BY <1>3 DEF Painted
  <2> QED BY <2>1, <2>2 DEF Clients
<1>4. CASE "move" \notin DOMAIN s /\ "style" \notin DOMAIN s
  <2>1. s.char \in Chars
    BY <1>4, SentKinds
  <2> DEFINE cells == [u.cells EXCEPT ![u.at] = Cell(s.char, u.style)]
             at == IF (u.at + 1) % canvas.w = 0 THEN Nowhere ELSE u.at + 1
  <2>2. Painted(u, s) = IF u.at = Nowhere THEN u ELSE [u EXCEPT !.cells = cells, !.at = at]
    BY <1>4 DEF Painted
  <2>3. cells \in [Positions(canvas.w, canvas.h) -> ClientCells]
    <3>1. Cell(s.char, u.style) \in ClientCells
      BY <1>1, <2>1 DEF ClientCells
    <3> QED BY <1>1, <3>1
  <2>4. at \in Int
    BY <1>1 DEF Nowhere
  <2> HIDE DEF cells, at
  <2> QED BY <2>2, <2>3, <2>4 DEF Clients
<1> QED BY <1>2, <1>3, <1>4

\* What it shows is what it showed before the last thing that was sent, and that.
LEMMA ShownSteps ==
    ASSUME canvas \in Canvases, NEW t \in Clients(canvas.w, canvas.h), NEW sent \in Seq(Sent)
    PROVE  /\ \A n \in 0 .. Len(sent) : Shown(t, sent, n) \in Clients(canvas.w, canvas.h)
           /\ Shown(t, sent, 0) = t
           /\ \A n \in 1 .. Len(sent) : Shown(t, sent, n) = Painted(Shown(t, sent, n - 1), sent[n])
<1> DEFINE last == Len(sent)
           U == Clients(canvas.w, canvas.h)
           W == [i \in 0 .. last |-> U]
           F == [i \in 0 .. last |-> [u \in U |-> Painted(u, sent[i])]]
           Eq(g, n) == g = [i \in 0 .. n |-> IF i = 0 THEN t ELSE Painted(g[i - 1], sent[i])]
           upTo(n) == CHOOSE g : Eq(g, n)
<1>1. last \in Nat
  OBVIOUS
<1>2. \A n : Shown(t, sent, n) = upTo(n)[n]
  BY DEF Shown, Painted
<1>3. ASSUME NEW i \in 0 + 1 .. last, NEW u \in U PROVE Painted(u, sent[i]) \in U
  <2>1. sent[i] \in Sent
    OBVIOUS
  <2> QED BY <2>1, PaintedType
<1>4. t \in U
  OBVIOUS
<1> HIDE DEF last, U
<1>5. PICK g : Eq(g, last) /\ \A i \in 0 .. last : g[i] \in U
  <2>1. \A i \in 0 + 1 .. last : \A u \in W[i - 1] : F[i][u] \in W[i]
    BY <1>1, <1>3
  <2>2. 0 \in Int /\ last \in Int /\ 0 <= last /\ t \in W[0]
    BY <1>1, <1>4
  <2> HIDE DEF W, F
  <2>3. PICK g : Recurses(g, 0, last, t, F, W)
    BY <2>1, <2>2, RecursionExists, Zenon
  <2>4. /\ g = [i \in 0 .. last |-> IF i = 0 THEN t ELSE F[i][g[i - 1]]]
        /\ \A i \in 0 .. last : g[i] \in W[i]
    BY <2>3 DEF Recurses
  <2>5. \A i \in 0 .. last : g[i] \in U
    BY <2>4 DEF W
  <2>6. ASSUME NEW i \in 0 .. last, i # 0 PROVE F[i][g[i - 1]] = Painted(g[i - 1], sent[i])
    <3>1. g[i - 1] \in U
      BY <1>1, <2>5, <2>6
    <3> QED BY <3>1 DEF F
  <2>7. Eq(g, last)
    BY <2>4, <2>6
  <2> QED BY <2>5, <2>7
<1>6. ASSUME NEW n \in 0 .. last PROVE upTo(n)[n] = g[n]
  <2> DEFINE h == [i \in 0 .. n |-> g[i]]
  <2>1. Eq(h, n)
    <3>1. \A i \in 0 .. n : h[i] = IF i = 0 THEN t ELSE Painted(g[i - 1], sent[i])
      BY <1>1, <1>5
    <3>2. \A i \in 0 .. n : i # 0 => h[i - 1] = g[i - 1]
      BY <1>1
    <3> QED BY <3>1, <3>2
  <2> DEFINE f == upTo(n)
  <2>2. Eq(f, n)
    <3> HIDE DEF Eq, h
    <3> QED BY <2>1
  <2> HIDE DEF f
  <2> DEFINE S == {i \in 0 .. n : f[i] = g[i]}
  <2>3. 0 \in S
    BY <1>1, <1>5, <2>2
  <2>4. ASSUME NEW i \in 0 + 1 .. n, i - 1 \in S PROVE i \in S
    <3>1. f[i] = Painted(f[i - 1], sent[i]) /\ g[i] = Painted(g[i - 1], sent[i])
      BY <1>1, <1>5, <2>2
    <3> QED BY <2>4, <3>1
  <2>5. 0 \in Int /\ n \in Int /\ n \in 0 .. n
    BY <1>1
  <2> HIDE DEF S
  <2>6. \A i \in 0 .. n : i \in S
    BY <2>3, <2>4, <2>5, IntervalInduction, Zenon
  <2> QED BY <2>5, <2>6 DEF S, f
<1> HIDE DEF upTo
<1>7. \A n \in 0 .. last : Shown(t, sent, n) = g[n]
  BY <1>2, <1>6
<1>8. \A n \in 1 .. last : g[n] = Painted(g[n - 1], sent[n]) /\ n - 1 \in 0 .. last /\ n \in 0 .. last
  BY <1>1, <1>5
<1>9. g[0] = t /\ 0 \in 0 .. last
  BY <1>1, <1>5
<1>10. \A n \in 0 .. last : Shown(t, sent, n) \in U
  BY <1>5, <1>7
<1>11. Shown(t, sent, 0) = t
  BY <1>7, <1>9
<1>12. \A n \in 1 .. last : Shown(t, sent, n) = Painted(Shown(t, sent, n - 1), sent[n])
  BY <1>7, <1>8
<1> QED BY <1>10, <1>11, <1>12 DEF last, U

\* What it shows depends only on what was sent so far.
LEMMA ShownPrefix ==
    ASSUME canvas \in Canvases, NEW t \in Clients(canvas.w, canvas.h),
           NEW r \in Seq(Sent), NEW sent \in Seq(Sent), Len(sent) <= Len(r),
           \A n \in 1 .. Len(sent) : r[n] = sent[n]
    PROVE  \A n \in 0 .. Len(sent) : Shown(t, r, n) = Shown(t, sent, n)
<1> DEFINE last == Len(sent)
           S == {n \in 0 .. last : Shown(t, r, n) = Shown(t, sent, n)}
<1>1. last \in Nat /\ Len(r) \in Nat /\ last <= Len(r) /\ \A n \in 1 .. last : r[n] = sent[n]
  OBVIOUS
<1> HIDE DEF last
<1>2. 0 \in S
  BY <1>1, ShownSteps
<1>3. ASSUME NEW n \in 0 + 1 .. last, n - 1 \in S PROVE n \in S
  <2>1. n \in 1 .. Len(r) /\ n \in 1 .. last /\ n \in 0 .. last
    BY <1>1
  <2>2. Shown(t, r, n) = Painted(Shown(t, r, n - 1), r[n])
    BY <2>1, ShownSteps
  <2>3. Shown(t, sent, n) = Painted(Shown(t, sent, n - 1), sent[n])
    BY <2>1, ShownSteps DEF last
  <2> QED BY <1>1, <1>3, <2>1, <2>2, <2>3
<1>4. 0 \in Int /\ last \in Int
  BY <1>1
<1> HIDE DEF S
<1>5. \A n \in 0 .. last : n \in S
  BY <1>2, <1>3, <1>4, IntervalInduction, Zenon
<1> QED BY <1>5 DEF S, last

\* One thing more that is sent is one thing more that is painted.
LEMMA ShownAppend ==
    ASSUME canvas \in Canvases, NEW t \in Clients(canvas.w, canvas.h),
           NEW sent \in Seq(Sent), NEW s \in Sent
    PROVE  Shown(t, sent \o <<s>>, Len(sent \o <<s>>)) = Painted(Shown(t, sent, Len(sent)), s)
<1> DEFINE r == sent \o <<s>>
           last == Len(sent)
<1>1. last \in Nat /\ r \in Seq(Sent) /\ Len(r) = last + 1 /\ r[last + 1] = s
  BY ConcatProperties
<1>2. \A n \in 1 .. last : r[n] = sent[n]
  BY ConcatProperties
<1> HIDE DEF r
<1>3. \A n \in 0 .. last : Shown(t, r, n) = Shown(t, sent, n)
  BY <1>1, <1>2, ShownPrefix
<1> HIDE DEF last
<1>4. last \in 0 .. last /\ Len(r) \in 1 .. Len(r) /\ Len(r) - 1 = last
  BY <1>1
<1>5. Shown(t, r, Len(r)) = Painted(Shown(t, r, Len(r) - 1), r[Len(r)])
  BY <1>1, <1>4, ShownSteps
<1>6. Shown(t, r, Len(r)) = Painted(Shown(t, sent, last), s)
  BY <1>1, <1>3, <1>4, <1>5
<1> QED BY <1>6 DEF r, last

\* What the client sees when all that a pass has written arrives.
Seen(out) == Shown(client, out, Len(out))

\* So is one that was sent the whole of what a pass has written.
LEMMA SeenType ==
    ASSUME canvas \in Canvases, client \in Clients(canvas.w, canvas.h), NEW out \in Seq(Sent)
    PROVE  Seen(out) \in Clients(canvas.w, canvas.h)
<1>1. Len(out) \in 0 .. Len(out)
  OBVIOUS
<1> QED BY <1>1, ShownSteps DEF Seen

\* Behind column x of a line is the next, or no place that counts.
After(i) == IF (i + 1) % canvas.w = 0 THEN Nowhere ELSE i + 1

\* A cell that is sent is painted where it belongs, if the cursor is moved or was there.
LEMMA CellIsSeen ==
    ASSUME canvas \in Canvases, client \in Clients(canvas.w, canvas.h),
           NEW p \in Passes, NEW q \in Passes, NEW i \in Positions(canvas.w, canvas.h),
           i \in Nat, p.c.back[i] \in BackCells, CellSent(p, i, q),
           Moves(p, i) \/ Seen(p.out).at = i
    PROVE  /\ Seen(q.out).cells = [Seen(p.out).cells EXCEPT ![i] = Cell(p.c.back[i].ch, Seen(q.out).style)]
           /\ Seen(q.out).at = After(i)
           /\ Seen(q.out).style = IF p.c.flushed # p.c.back[i].style THEN p.c.back[i].style
                                  ELSE Seen(p.out).style
           /\ Shown(client, q.out, Len(q.out) - 1).at = i
<1> DEFINE o1 == p.out \o MoveOf(p, i)
           o2 == o1 \o StyleOf(p, i)
<1>1. p.out \in Seq(Sent) /\ MoveOf(p, i) \in Seq(Sent) /\ StyleOf(p, i) \in Seq(Sent)
  BY PieceTypes DEF Passes
<1>2. o1 \in Seq(Sent) /\ o2 \in Seq(Sent)
  BY <1>1, ConcatProperties
<1>3. p.c.back[i].ch \in Chars /\ p.c.back[i].style \in Styles
  BY BackCellParts
<1>4. q.out = o2 \o CharOf(p, i)
  BY DEF CellSent
<1>5. /\ Seen(p.out) \in Clients(canvas.w, canvas.h)
      /\ Seen(o1) \in Clients(canvas.w, canvas.h)
      /\ Seen(o2) \in Clients(canvas.w, canvas.h)
  <2> HIDE DEF o1, o2
  <2> QED BY <1>1, <1>2, SeenType
<1>6. Seen(o1).cells = Seen(p.out).cells /\ Seen(o1).at = i /\ Seen(o1).style = Seen(p.out).style
  <2>1. CASE Moves(p, i)
    <3>1. [move |-> i] \in Sent
      BY DEF Sent
    <3>2. o1 = p.out \o <<[move |-> i]>>
      BY <2>1 DEF MoveOf
    <3> HIDE DEF o1
    <3>3. Seen(o1) = Painted(Seen(p.out), [move |-> i])
      BY <1>1, <3>1, <3>2, ShownAppend DEF Seen
    <3>4. Painted(Seen(p.out), [move |-> i]) = [Seen(p.out) EXCEPT !.at = i]
      BY DEF Painted
    <3> QED BY <1>5, <3>3, <3>4 DEF Clients
  <2>2. CASE ~Moves(p, i)
    <3>1. o1 = p.out \o <<>>
      BY <2>2 DEF MoveOf
    <3>2. o1 = p.out
      BY <1>1, <3>1
    <3> QED BY <2>2, <3>2
  <2> QED BY <2>1, <2>2
<1>7. /\ Seen(o2).cells = Seen(o1).cells /\ Seen(o2).at = Seen(o1).at
      /\ Seen(o2).style = IF p.c.flushed # p.c.back[i].style THEN p.c.back[i].style ELSE Seen(o1).style
  <2> DEFINE s == [style |-> p.c.back[i].style]
  <2>1. CASE p.c.flushed # p.c.back[i].style
    <3>1. s \in Sent
      BY <1>3 DEF Sent
    <3>2. o2 = o1 \o <<s>>
      BY <2>1 DEF StyleOf
    <3>3. Painted(Seen(o1), s) = [Seen(o1) EXCEPT !.style = p.c.back[i].style]
      BY DEF Painted
    <3> HIDE DEF o1, o2, s
    <3>4. Seen(o2) = Painted(Seen(o1), s)
      BY <1>2, <3>1, <3>2, ShownAppend DEF Seen
    <3> QED BY <1>5, <2>1, <3>3, <3>4 DEF Clients
  <2>2. CASE ~(p.c.flushed # p.c.back[i].style)
    <3>1. o2 = o1 \o <<>>
      BY <2>2 DEF StyleOf
    <3> HIDE DEF o1, o2
    <3>2. o2 = o1
      BY <1>2, <3>1
    <3> QED BY <2>2, <3>2
  <2> QED BY <2>1, <2>2
<1> DEFINE s == [char |-> p.c.back[i].ch, cell |-> i]
           v == Seen(o2)
<1>8. s \in Sent
  BY <1>3 DEF Sent
<1>9. Seen(q.out) = Painted(v, s)
  <2>1. q.out = o2 \o <<s>>
    BY <1>4 DEF CharOf
  <2> HIDE DEF o2, s
  <2> QED BY <1>2, <1>8, <2>1, ShownAppend DEF Seen
<1>10. v \in Clients(canvas.w, canvas.h) /\ v.cells = Seen(p.out).cells /\ v.at = i
  BY <1>5, <1>6, <1>7
<1> HIDE DEF v
<1>11. v.at # Nowhere
  BY <1>10 DEF Nowhere
<1>12. Painted(v, s) = [v EXCEPT !.cells[v.at] = Cell(p.c.back[i].ch, v.style), !.at = After(v.at)]
  BY <1>11 DEF Painted, After
<1>13. /\ Painted(v, s).cells = [v.cells EXCEPT ![i] = Cell(p.c.back[i].ch, v.style)] /\ Painted(v, s).at = After(i)
       /\ Painted(v, s).style = v.style
  <2> HIDE DEF s
  <2> QED BY <1>10, <1>12 DEF Clients
<1>14. v.style = IF p.c.flushed # p.c.back[i].style THEN p.c.back[i].style ELSE Seen(p.out).style
  BY <1>6, <1>7 DEF v
<1>15. Shown(client, q.out, Len(q.out) - 1) = v
  <2>1. q.out = o2 \o <<s>>
    BY <1>4 DEF CharOf
  <2> HIDE DEF o2, s
  <2>2. /\ q.out \in Seq(Sent) /\ Len(q.out) - 1 = Len(o2) /\ Len(o2) <= Len(q.out)
        /\ Len(o2) \in 0 .. Len(o2) /\ \A n \in 1 .. Len(o2) : q.out[n] = o2[n]
    BY <1>2, <1>8, <2>1, ConcatProperties
  <2>3. \A n \in 0 .. Len(o2) : Shown(client, q.out, n) = Shown(client, o2, n)
    BY <1>2, <2>2, ShownPrefix
  <2> QED BY <2>2, <2>3 DEF v, Seen
<1> QED BY <1>9, <1>10, <1>13, <1>14, <1>15

-----------------------------------------------------------------------------
(* A pass of the flush, cell by cell. *)

\* What canvas_flush does with cell i.
Passed(p, i) ==
    IF p.stopped THEN p
    ELSE IF p.remaining = 0 THEN [p EXCEPT !.stopped = TRUE, !.c.index = i]
    ELSE IF Unsent(p.c, i) THEN FlushCell(p, i)
    ELSE [p EXCEPT !.c.index = i + 1]

\* Up to its place it has made the front what the back is; it stops nowhere before
\* the first cell is sent.
CarriedTo(i, p) ==
    /\ p.c.w = canvas.w /\ p.c.h = canvas.h
    /\ p.c.back = canvas.back /\ p.c.force = canvas.force
    /\ \A j \in Positions(canvas.w, canvas.h) :
          p.c.front[j] = IF j \in canvas.index .. p.c.index - 1 THEN canvas.back[j] ELSE canvas.front[j]
    /\ IF p.stopped THEN p.c.index \in canvas.index + 1 .. i ELSE p.c.index = i + 1
    /\ i < canvas.index => p.remaining = BufferBytes /\ p.last = canvas.index /\ p.out = <<>>
    /\ i >= canvas.index /\ canvas.force => p.more

\* A forced pass paints every cell up to its place, in its style if the client had the style the
\* canvas believed, and leaves the cursor behind the last.
PaintedTo(i, p) ==
    canvas.force =>
        /\ \A j \in Positions(canvas.w, canvas.h) :
              IF j \in canvas.index .. p.c.index - 1
              THEN /\ Seen(p.out).cells[j].ch = canvas.back[j].ch
                   /\ Believed(canvas, client) => Seen(p.out).cells[j].style = canvas.back[j].style
              ELSE Seen(p.out).cells[j] = client.cells[j]
        /\ ~p.stopped /\ i >= canvas.index => p.last = i /\ Seen(p.out).at = After(i)
        /\ ~p.stopped /\ Believed(canvas, client) => Believed(p.c, Seen(p.out))

\* One cell of the pass carries over and paints one cell more, or stops the pass.
LEMMA PassStep ==
    ASSUME canvas \in Canvases, client \in Clients(canvas.w, canvas.h),
           NEW i \in canvas.index .. Size(canvas) - 1,
           NEW p \in Passes, CarriedTo(i - 1, p), PaintedTo(i - 1, p)
    PROVE  Passed(p, i) \in Passes /\ CarriedTo(i, Passed(p, i)) /\ PaintedTo(i, Passed(p, i))
<1> DEFINE from == canvas.index
           P == Positions(canvas.w, canvas.h)
<1>1. /\ canvas.w \in Nat \ {0} /\ Size(canvas) = canvas.w * canvas.h /\ Size(canvas) \in Nat
      /\ from \in Nat /\ canvas.force \in BOOLEAN
      /\ canvas.front \in [P -> FrontCells] /\ canvas.back \in [P -> BackCells]
  <2>1. /\ canvas.w \in Nat \ {0} /\ Size(canvas) = canvas.w * canvas.h /\ Size(canvas) \in Nat
        /\ canvas.index \in 0 .. Size(canvas) /\ canvas.force \in BOOLEAN
    BY CanvasParts
  <2>2. canvas.front \in [P -> FrontCells] /\ canvas.back \in [P -> BackCells]
    BY CanvasParts
  <2> QED BY <2>1, <2>2
<1>2. i \in Nat /\ i \in P /\ from <= i
  BY <1>1 DEF Positions
<1>3. /\ p.c \in Canvases /\ p.last \in Nat /\ p.remaining \in Nat /\ p.out \in Seq(Sent)
      /\ p.stopped \in BOOLEAN /\ p.more \in BOOLEAN
  BY DEF Passes
<1>4. /\ p.c \in CanvasesOf(p.c.w, p.c.h) /\ p.c.w = canvas.w /\ p.c.h = canvas.h
      /\ Size(p.c) = canvas.w * canvas.h
      /\ p.c.front \in [P -> FrontCells] /\ p.c.back = canvas.back /\ p.c.force = canvas.force
      /\ p.c.flushed \in Styles \cup {NoStyle}
  BY <1>3, CanvasParts DEF CarriedTo
<1>5. Seen(p.out) \in Clients(canvas.w, canvas.h) /\ Seen(p.out).cells \in [P -> ClientCells]
  BY <1>3, SeenType DEF Clients
<1>6. i - 1 \in Int /\ (i - 1) + 1 = i /\ (i - 1 >= from) = (i > from) /\ (i - 1 < from) = (i = from)
  BY <1>1, <1>2
<1>7. BufferBytes \in Nat /\ BufferBytes > 0
  <2>1. Space \in Chars
    BY Assumed
  <2> QED BY <2>1, Assumed
<1>8. CASE p.stopped
  <2>1. Passed(p, i) = p
    BY <1>8 DEF Passed
  <2>2. p.c.index \in from + 1 .. i - 1
    BY <1>8 DEF CarriedTo
  <2>3. i - 1 >= from
    BY <1>1, <1>2, <2>2
  <2>4. p.c.index \in from + 1 .. i
    BY <1>1, <1>2, <2>2
  <2>5. canvas.force => p.more
    BY <2>3 DEF CarriedTo
  <2>6. ~(i < from)
    BY <1>1, <1>2
  <2>7. CarriedTo(i, p)
    BY <1>8, <2>4, <2>5, <2>6 DEF CarriedTo
  <2>8. PaintedTo(i, p)
    BY <1>8 DEF PaintedTo
  <2> QED BY <2>1, <2>7, <2>8
<1>9. CASE ~p.stopped
  <2>1. p.c.index = i
    BY <1>6, <1>9 DEF CarriedTo
  <2>2. i = from => p.remaining = BufferBytes /\ p.last = from /\ p.out = <<>>
    BY <1>6 DEF CarriedTo
  <2>3. i > from /\ canvas.force => p.more /\ p.last = i - 1 /\ Seen(p.out).at = After(i - 1)
    BY <1>6, <1>9 DEF CarriedTo, PaintedTo
  <2>4. \A j \in P : p.c.front[j] = IF j \in from .. i - 1 THEN canvas.back[j] ELSE canvas.front[j]
    BY <2>1 DEF CarriedTo
  <2>5. /\ canvas.force => \A j \in P :
              IF j \in from .. i - 1
              THEN /\ Seen(p.out).cells[j].ch = canvas.back[j].ch
                   /\ Believed(canvas, client) => Seen(p.out).cells[j].style = canvas.back[j].style
              ELSE Seen(p.out).cells[j] = client.cells[j]
        /\ canvas.force /\ Believed(canvas, client) => Believed(p.c, Seen(p.out))
    BY <1>9, <2>1 DEF PaintedTo
  <2>6. ASSUME NEW q \in Passes, Halted(p, i, q), i # from
        PROVE  CarriedTo(i, q) /\ PaintedTo(i, q)
    <3>1. i \in from + 1 .. i /\ i > from /\ ~(i < from)
      BY <1>1, <1>2, <2>6
    <3>2. CarriedTo(i, q)
      BY <1>4, <2>4, <2>6, <3>1 DEF CarriedTo, Halted
    <3>3. PaintedTo(i, q)
      BY <2>5, <2>6 DEF PaintedTo, Halted
    <3> QED BY <3>2, <3>3
  <2>7. ASSUME NEW q \in Passes, CellSent(p, i, q), q.c.flushed = p.c.back[i].style
        PROVE  CarriedTo(i, q) /\ PaintedTo(i, q)
    <3>1. /\ ~q.stopped /\ q.more /\ q.last = i /\ q.c.index = i + 1
          /\ q.c.front = [p.c.front EXCEPT ![i] = canvas.back[i]]
          /\ q.c.w = canvas.w /\ q.c.h = canvas.h /\ q.c.back = canvas.back /\ q.c.force = canvas.force
      BY <1>4, <1>9, <2>7 DEF CellSent
    <3>2. i \in from .. i /\ (i + 1) - 1 = i /\ ~(i < from)
      BY <1>1, <1>2
    <3>3. \A j \in P : (j \in from .. i) = (j = i \/ j \in from .. i - 1)
      BY <1>1, <1>2 DEF Positions
    <3>4. \A j \in P : q.c.front[j] = IF j \in from .. i THEN canvas.back[j] ELSE canvas.front[j]
      BY <1>2, <1>4, <2>4, <3>1, <3>3
    <3>5. CarriedTo(i, q)
      BY <3>1, <3>2, <3>4 DEF CarriedTo
    <3>6. ASSUME canvas.force
          PROVE  /\ Seen(q.out).cells = [Seen(p.out).cells EXCEPT ![i] = Cell(canvas.back[i].ch, Seen(q.out).style)]
                 /\ Seen(q.out).at = After(i)
                 /\ Believed(canvas, client) => Seen(q.out).style = canvas.back[i].style
      <4>1. Moves(p, i) \/ Seen(p.out).at = i
        <5>1. CASE i = from
          BY <1>1, <2>2, <5>1 DEF Moves
        <5>2. CASE i > from
          BY <1>2, <1>4, <2>3, <3>6, <5>2 DEF Moves, After
        <5> QED BY <1>1, <1>2, <5>1, <5>2
      <4>2. p.c.back[i] \in BackCells
        BY <1>1, <1>2, <1>4
      <4>3. /\ Seen(q.out).cells = [Seen(p.out).cells EXCEPT ![i] = Cell(p.c.back[i].ch, Seen(q.out).style)]
            /\ Seen(q.out).at = After(i)
            /\ Seen(q.out).style = IF p.c.flushed # p.c.back[i].style THEN p.c.back[i].style
                                   ELSE Seen(p.out).style
        BY <1>2, <2>7, <4>1, <4>2, CellIsSeen
      <4>4. p.c.back[i].style # NoStyle
        BY <4>2, BackCellParts, Assumed
      <4>5. Believed(canvas, client) => Seen(q.out).style = p.c.back[i].style
        BY <2>5, <3>6, <4>3, <4>4 DEF Believed
      <4> QED BY <1>4, <4>3, <4>5
    <3>7. PaintedTo(i, q)
      <4>1. SUFFICES ASSUME canvas.force PROVE
              /\ \A j \in P :
                    IF j \in from .. q.c.index - 1
                    THEN /\ Seen(q.out).cells[j].ch = canvas.back[j].ch
                         /\ Believed(canvas, client) => Seen(q.out).cells[j].style = canvas.back[j].style
                    ELSE Seen(q.out).cells[j] = client.cells[j]
              /\ q.last = i /\ Seen(q.out).at = After(i)
              /\ Believed(canvas, client) => Believed(q.c, Seen(q.out))
        BY DEF PaintedTo
      <4>2. \A j \in P : Seen(q.out).cells[j] = IF j = i THEN Cell(canvas.back[i].ch, Seen(q.out).style)
                                                 ELSE Seen(p.out).cells[j]
        BY <1>5, <3>6, <4>1
      <4>3. ASSUME NEW j \in P
            PROVE  IF j \in from .. i
                   THEN /\ Seen(q.out).cells[j].ch = canvas.back[j].ch
                        /\ Believed(canvas, client) => Seen(q.out).cells[j].style = canvas.back[j].style
                   ELSE Seen(q.out).cells[j] = client.cells[j]
        <5>1. CASE j = i
          BY <3>2, <3>6, <4>1, <4>2, <5>1 DEF Cell
        <5>2. CASE j # i
          BY <2>5, <3>3, <4>1, <4>2, <5>2
        <5> QED BY <5>1, <5>2
      <4>4. Believed(canvas, client) => Believed(q.c, Seen(q.out))
        BY <1>4, <2>7, <3>6, <4>1 DEF Believed
      <4> QED BY <3>1, <3>2, <3>6, <4>1, <4>3, <4>4
    <3> QED BY <3>5, <3>7
  <2>8. CASE p.remaining = 0
    <3> DEFINE q == [p EXCEPT !.stopped = TRUE, !.c.index = i]
    <3>1. i # from
      BY <1>7, <2>2, <2>8
    <3>2. i \in 0 .. Size(p.c)
      BY <1>1, <1>2, <1>4
    <3>3. [p.c EXCEPT !.index = i] \in Canvases
      BY <1>3, <1>4, <3>2, CanvasEdited
    <3>4. q = [p EXCEPT !.stopped = TRUE, !.c = [p.c EXCEPT !.index = i]]
      BY DEF Passes
    <3>5. q \in Passes
      BY <3>3, <3>4 DEF Passes
    <3>6. i > from
      BY <1>1, <1>2, <3>1
    <3>7. CarriedTo(i, q) /\ PaintedTo(i, q)
      <4>1. /\ q.stopped /\ q.more = p.more /\ q.out = p.out
            /\ q.c.index = i /\ q.c.front = p.c.front
            /\ q.c.w = canvas.w /\ q.c.h = canvas.h /\ q.c.back = canvas.back /\ q.c.force = canvas.force
        BY <1>4, <3>4 DEF Passes, CanvasesOf
      <4>2. i \in from + 1 .. i /\ ~(i < from)
        BY <1>1, <1>2, <3>6
      <4> HIDE DEF q
      <4>3. CarriedTo(i, q)
        BY <2>3, <2>4, <3>6, <4>1, <4>2 DEF CarriedTo
      <4>4. PaintedTo(i, q)
        BY <2>5, <4>1 DEF PaintedTo
      <4> QED BY <4>3, <4>4
    <3>8. Passed(p, i) = q
      BY <1>9, <2>8 DEF Passed
    <3> HIDE DEF q
    <3> QED BY <3>5, <3>7, <3>8
  <2>9. CASE p.remaining # 0 /\ Unsent(p.c, i)
    <3>1. Passed(p, i) = FlushCell(p, i)
      BY <1>9, <2>9 DEF Passed
    <3>2. i \in Positions(p.c.w, p.c.h)
      BY <1>2, <1>4
    <3>3. /\ FlushCell(p, i) \in Passes
          /\ \/ Halted(p, i, FlushCell(p, i))
             \/ CellSent(p, i, FlushCell(p, i)) /\ FlushCell(p, i).c.flushed = p.c.back[i].style
          /\ p.remaining = BufferBytes => ~Halted(p, i, FlushCell(p, i))
      <4>1. ~(CellSent(p, i, FlushCell(p, i)) /\ Halted(p, i, FlushCell(p, i)))
        BY <1>9 DEF Halted, CellSent
      <4> QED BY <3>2, <4>1, FlushCellCases
    <3>4. CASE CellSent(p, i, FlushCell(p, i)) /\ FlushCell(p, i).c.flushed = p.c.back[i].style
      BY <2>7, <3>1, <3>3, <3>4
    <3>5. CASE Halted(p, i, FlushCell(p, i))
      <4>1. i # from
        BY <2>2, <3>3, <3>5
      <4> QED BY <2>6, <3>1, <3>3, <3>5, <4>1
    <3> QED BY <3>3, <3>4, <3>5
  <2>10. CASE p.remaining # 0 /\ ~Unsent(p.c, i)
    <3> DEFINE q == [p EXCEPT !.c.index = i + 1]
    <3>1. ~canvas.force /\ p.c.front[i] = canvas.back[i]
      BY <1>4, <2>10 DEF Unsent
    <3>2. i + 1 \in 0 .. Size(p.c)
      BY <1>1, <1>2, <1>4
    <3>3. [p.c EXCEPT !.index = i + 1] \in Canvases
      BY <1>3, <1>4, <3>2, CanvasEdited
    <3>4. q = [p EXCEPT !.c = [p.c EXCEPT !.index = i + 1]]
      BY DEF Passes
    <3>5. q \in Passes
      BY <3>3, <3>4 DEF Passes
    <3>6. Passed(p, i) = q
      BY <1>9, <2>10 DEF Passed
    <3>7. /\ ~q.stopped /\ q.c.index = i + 1 /\ q.c.front = p.c.front
          /\ q.c.w = canvas.w /\ q.c.h = canvas.h /\ q.c.back = canvas.back /\ q.c.force = canvas.force
      BY <1>4, <1>9, <3>4 DEF Passes, CanvasesOf
    <3> HIDE DEF q
    <3>8. (i + 1) - 1 = i /\ ~(i < from)
      BY <1>1, <1>2
    <3>9. \A j \in P : (j \in from .. i) = (j = i \/ j \in from .. i - 1)
      BY <1>1, <1>2 DEF Positions
    <3>10. \A j \in P : q.c.front[j] = IF j \in from .. i THEN canvas.back[j] ELSE canvas.front[j]
      BY <1>2, <2>4, <3>1, <3>7, <3>9
    <3>11. CarriedTo(i, q)
      BY <3>1, <3>7, <3>8, <3>10 DEF CarriedTo
    <3>12. PaintedTo(i, q)
      BY <3>1 DEF PaintedTo
    <3> QED BY <3>5, <3>6, <3>11, <3>12
  <2> QED BY <2>8, <2>9, <2>10
<1> QED BY <1>3, <1>8, <1>9

\* The elements of two sequences that are joined.
LEMMA Concatenated ==
    ASSUME NEW S, NEW a \in Seq(S), NEW b \in Seq(S), NEW r, r = a \o b
    PROVE  /\ r \in Seq(S) /\ Len(r) = Len(a) + Len(b)
           /\ \A k \in 1 .. Len(r) : r[k] = IF k <= Len(a) THEN a[k] ELSE b[k - Len(a)]
BY ConcatProperties

\* What a pass has written when it has sent one cell more.
LEMMA CellSentSequence ==
    ASSUME NEW p \in Passes, NEW q \in Passes, NEW i \in Nat, p.c.back[i] \in BackCells, CellSent(p, i, q)
    PROVE  /\ Len(p.out) \in Nat /\ Len(q.out) \in Nat /\ Len(p.out) < Len(q.out)
           /\ \A k \in 1 .. Len(p.out) : q.out[k] = p.out[k]
           /\ \A k \in 1 .. Len(q.out) : k > Len(p.out) /\ "cell" \in DOMAIN q.out[k] => k = Len(q.out)
           /\ q.out[Len(q.out)] = [char |-> p.c.back[i].ch, cell |-> i]
           /\ p.out = <<>> /\ "move" \in DOMAIN q.out[1] => Moves(p, i)
<1> DEFINE o == p.out
           m == MoveOf(p, i)
           s == StyleOf(p, i)
           c == CharOf(p, i)
           o1 == o \o m
           o2 == o1 \o s
           o3 == o2 \o c
<1>1. o \in Seq(Sent) /\ m \in Seq(Sent) /\ s \in Seq(Sent) /\ c \in Seq(Sent)
  BY PieceTypes DEF Passes
<1>2. /\ Len(m) \in {0, 1} /\ Len(s) \in {0, 1} /\ Len(c) = 1
      /\ c[1] = [char |-> p.c.back[i].ch, cell |-> i]
      /\ \A k \in 1 .. Len(m) : "cell" \notin DOMAIN m[k] /\ Moves(p, i)
      /\ \A k \in 1 .. Len(s) : "cell" \notin DOMAIN s[k] /\ "move" \notin DOMAIN s[k]
      /\ "move" \notin DOMAIN c[1]
  <2>1. Len(m) \in {0, 1} /\ \A k \in 1 .. Len(m) : "cell" \notin DOMAIN m[k] /\ Moves(p, i)
    <3>1. CASE Moves(p, i)
      BY <3>1 DEF MoveOf
    <3>2. CASE ~Moves(p, i)
      BY <3>2 DEF MoveOf
    <3> QED BY <3>1, <3>2
  <2>2. Len(s) \in {0, 1} /\ \A k \in 1 .. Len(s) : "cell" \notin DOMAIN s[k] /\ "move" \notin DOMAIN s[k]
    <3>1. CASE p.c.flushed # p.c.back[i].style
      BY <3>1 DEF StyleOf
    <3>2. CASE ~(p.c.flushed # p.c.back[i].style)
      BY <3>2 DEF StyleOf
    <3> QED BY <3>1, <3>2
  <2>3. /\ Len(c) = 1 /\ c[1] = [char |-> p.c.back[i].ch, cell |-> i]
        /\ "move" \notin DOMAIN c[1]
    BY DEF CharOf
  <2> QED BY <2>1, <2>2, <2>3
<1>3. q.out = o3
  BY DEF CellSent
<1>16. o1 = o \o m /\ o2 = o1 \o s /\ o3 = o2 \o c
  OBVIOUS
<1> HIDE DEF o, m, s, c, o1, o2, o3
<1>4. /\ o1 \in Seq(Sent) /\ Len(o1) = Len(o) + Len(m)
      /\ \A k \in 1 .. Len(o1) : o1[k] = IF k <= Len(o) THEN o[k] ELSE m[k - Len(o)]
  BY <1>1, <1>16, Concatenated
<1>5. /\ o2 \in Seq(Sent) /\ Len(o2) = Len(o1) + Len(s)
      /\ \A k \in 1 .. Len(o2) : o2[k] = IF k <= Len(o1) THEN o1[k] ELSE s[k - Len(o1)]
  BY <1>1, <1>4, <1>16, Concatenated
<1>6. /\ o3 \in Seq(Sent) /\ Len(o3) = Len(o2) + Len(c)
      /\ \A k \in 1 .. Len(o3) : o3[k] = IF k <= Len(o2) THEN o2[k] ELSE c[k - Len(o2)]
  BY <1>1, <1>5, <1>16, Concatenated
<1>7. Len(o) \in Nat /\ Len(o1) \in Nat /\ Len(o2) \in Nat /\ Len(o3) \in Nat
  BY <1>1, <1>4, <1>5, <1>6
<1>8. Len(o) <= Len(o1) /\ Len(o1) <= Len(o2) /\ Len(o3) = Len(o2) + 1 /\ Len(o) < Len(o3)
  BY <1>2, <1>4, <1>5, <1>6, <1>7
<1>9. \A k \in 1 .. Len(o) : o3[k] = o[k]
  BY <1>4, <1>5, <1>6, <1>7, <1>8
<1>10. \A k \in Len(o) + 1 .. Len(o1) : "cell" \notin DOMAIN o3[k] /\ Moves(p, i)
  <2> SUFFICES ASSUME NEW k \in Len(o) + 1 .. Len(o1) PROVE "cell" \notin DOMAIN o3[k] /\ Moves(p, i)
    OBVIOUS
  <2>1. o3[k] = m[k - Len(o)] /\ k - Len(o) \in 1 .. Len(m)
    BY <1>2, <1>4, <1>5, <1>6, <1>7, <1>8
  <2> QED BY <1>2, <2>1
<1>11. \A k \in Len(o1) + 1 .. Len(o2) : "cell" \notin DOMAIN o3[k] /\ "move" \notin DOMAIN o3[k]
  <2> SUFFICES ASSUME NEW k \in Len(o1) + 1 .. Len(o2)
               PROVE  "cell" \notin DOMAIN o3[k] /\ "move" \notin DOMAIN o3[k]
    OBVIOUS
  <2>1. o3[k] = s[k - Len(o1)] /\ k - Len(o1) \in 1 .. Len(s)
    BY <1>2, <1>5, <1>6, <1>7, <1>8
  <2> QED BY <1>2, <2>1
<1>12. o3[Len(o3)] = c[1]
  BY <1>6, <1>7, <1>8
<1>13. ASSUME NEW k \in 1 .. Len(o3), k > Len(o), "cell" \in DOMAIN o3[k] PROVE k = Len(o3)
  <2>1. k \in Len(o) + 1 .. Len(o1) \/ k \in Len(o1) + 1 .. Len(o2) \/ k = Len(o3)
    BY <1>7, <1>8, <1>13
  <2> QED BY <1>10, <1>11, <1>13, <2>1
<1>14. ASSUME o = <<>>, "move" \in DOMAIN o3[1] PROVE Moves(p, i)
  <2>1. Len(o) = 0
    BY <1>14
  <2>2. 1 \in Len(o) + 1 .. Len(o1) \/ 1 \in Len(o1) + 1 .. Len(o2) \/ 1 = Len(o3)
    BY <1>7, <1>8, <2>1
  <2> QED BY <1>2, <1>10, <1>11, <1>12, <1>14, <2>2
<1>15. o3[Len(o3)] = [char |-> p.c.back[i].ch, cell |-> i]
  BY <1>2, <1>12
<1> QED BY <1>3, <1>7, <1>8, <1>9, <1>13, <1>14, <1>15 DEF o

\* If what it has written begins with a move, every character is painted where it belongs, and
\* the style the canvas believes the client to have is that of the last.
PlacedTo(p) ==
    /\ p.out # <<>> =>
          /\ p.last \in canvas.index .. p.c.index - 1
          /\ "cell" \in DOMAIN p.out[Len(p.out)] /\ p.out[Len(p.out)].cell = p.last
    /\ ~p.stopped => p.c.flushed = IF p.out = <<>> THEN canvas.flushed ELSE canvas.back[p.last].style
    /\ p.out # <<>> /\ "move" \in DOMAIN p.out[1] =>
          /\ \A k \in 1 .. Len(p.out) : "cell" \in DOMAIN p.out[k] =>
                /\ p.out[k].cell \in canvas.index .. p.last
                /\ p.out[k].char = canvas.back[p.out[k].cell].ch
                /\ Shown(client, p.out, k - 1).at = p.out[k].cell
          /\ Seen(p.out).at = After(p.last)
          /\ client.style = canvas.flushed => Seen(p.out).style = canvas.back[p.last].style

\* One cell of the pass leaves every character where it belongs.
LEMMA PlacedStep ==
    ASSUME canvas \in Canvases, client \in Clients(canvas.w, canvas.h),
           NEW i \in canvas.index .. Size(canvas) - 1,
           NEW p \in Passes, CarriedTo(i - 1, p), PlacedTo(p)
    PROVE  PlacedTo(Passed(p, i))
<1> DEFINE from == canvas.index
           P == Positions(canvas.w, canvas.h)
<1>1. /\ canvas.w \in Nat \ {0} /\ Size(canvas) = canvas.w * canvas.h /\ Size(canvas) \in Nat
      /\ from \in Nat
  <2>1. /\ canvas.w \in Nat \ {0} /\ Size(canvas) = canvas.w * canvas.h /\ Size(canvas) \in Nat
        /\ canvas.index \in 0 .. Size(canvas)
    BY CanvasParts
  <2> QED BY <2>1
<1>2. i \in Nat /\ i \in P /\ from <= i
  BY <1>1 DEF Positions
<1>3. /\ p.c \in Canvases /\ p.last \in Nat /\ p.out \in Seq(Sent) /\ p.stopped \in BOOLEAN
  BY DEF Passes
<1>4. /\ p.c.w = canvas.w /\ p.c.h = canvas.h /\ p.c.back = canvas.back
      /\ canvas.back \in [P -> BackCells] /\ p.c \in CanvasesOf(p.c.w, p.c.h)
  BY <1>3, CanvasParts DEF CarriedTo
<1>5. CASE p.stopped
  <2>1. Passed(p, i) = p
    BY <1>5 DEF Passed
  <2> QED BY <2>1
<1>6. CASE ~p.stopped
  <2>1. p.c.index = i
    BY <1>2, <1>6 DEF CarriedTo
  <2>2. ASSUME NEW q \in Passes, q.stopped, q.out = p.out, q.last = p.last, q.c.index = i
        PROVE  PlacedTo(q)
    <3>1. q.c.index = p.c.index
      BY <2>1, <2>2
    <3> QED BY <2>2, <3>1 DEF PlacedTo
  <2>3. ASSUME NEW q \in Passes, CellSent(p, i, q), q.c.flushed = p.c.back[i].style
        PROVE  PlacedTo(q)
    <3>1. /\ Len(p.out) \in Nat /\ Len(q.out) \in Nat /\ Len(p.out) < Len(q.out)
          /\ \A k \in 1 .. Len(p.out) : q.out[k] = p.out[k]
          /\ \A k \in 1 .. Len(q.out) : k > Len(p.out) /\ "cell" \in DOMAIN q.out[k] => k = Len(q.out)
          /\ q.out[Len(q.out)] = [char |-> p.c.back[i].ch, cell |-> i]
          /\ p.out = <<>> /\ "move" \in DOMAIN q.out[1] => Moves(p, i)
      <4>1. p.c.back[i] \in BackCells
        BY <1>2, <1>4
      <4> QED BY <1>2, <2>3, <4>1, CellSentSequence
    <3>2. /\ ~q.stopped /\ q.last = i /\ q.c.index = i + 1 /\ q.out \in Seq(Sent)
      BY <1>6, <2>3 DEF CellSent, Passes
    <3>3. q.out # <<>>
      BY <3>1
    <3>4. i \in from .. q.c.index - 1 /\ i \in from .. q.last
      BY <1>1, <1>2, <3>2
    <3>5. "cell" \in DOMAIN q.out[Len(q.out)] /\ q.out[Len(q.out)].cell = i
          /\ q.out[Len(q.out)].char = canvas.back[i].ch
      BY <1>4, <3>1
    <3>6. q.c.flushed = canvas.back[i].style
      BY <1>4, <2>3
    <3>7. ASSUME "move" \in DOMAIN q.out[1]
          PROVE  /\ \A k \in 1 .. Len(q.out) : "cell" \in DOMAIN q.out[k] =>
                       /\ q.out[k].cell \in from .. q.last
                       /\ q.out[k].char = canvas.back[q.out[k].cell].ch
                       /\ Shown(client, q.out, k - 1).at = q.out[k].cell
                 /\ Seen(q.out).at = After(q.last)
                 /\ client.style = canvas.flushed => Seen(q.out).style = canvas.back[q.last].style
      <4>1. p.out # <<>> => /\ "move" \in DOMAIN p.out[1] /\ Seen(p.out).at = After(p.last)
                            /\ p.last \in from .. i - 1
        <5>1. p.out # <<>> => 1 \in 1 .. Len(p.out)
          BY <1>3, <3>1
        <5>2. p.out # <<>> => q.out[1] = p.out[1]
          BY <3>1, <5>1
        <5> QED BY <2>1, <3>7, <5>2 DEF PlacedTo
      <4>2. Moves(p, i) \/ Seen(p.out).at = i
        <5>1. CASE p.out = <<>>
          BY <3>1, <3>7, <5>1
        <5>2. CASE p.out # <<>> /\ ~Moves(p, i)
          <6>1. p.last + 1 = i /\ i % canvas.w # 0
            BY <1>4, <5>2 DEF Moves
          <6>2. After(p.last) = i
            BY <6>1 DEF After
          <6> QED BY <4>1, <5>2, <6>2
        <5> QED BY <5>1, <5>2
      <4>3. p.c.back[i] \in BackCells
        BY <1>2, <1>4
      <4>4. /\ Seen(q.out).cells = [Seen(p.out).cells EXCEPT ![i] = Cell(p.c.back[i].ch, Seen(q.out).style)]
            /\ Seen(q.out).at = After(i)
            /\ Seen(q.out).style = IF p.c.flushed # p.c.back[i].style THEN p.c.back[i].style
                                   ELSE Seen(p.out).style
            /\ Shown(client, q.out, Len(q.out) - 1).at = i
        BY <1>2, <2>3, <4>2, <4>3, CellIsSeen
      <4>5. client.style = canvas.flushed => Seen(q.out).style = canvas.back[i].style
        <5>1. ASSUME client.style = canvas.flushed PROVE Seen(p.out).style = p.c.flushed
          <6>1. CASE p.out = <<>>
            <7>1. Seen(p.out) = client
              <8>1. <<>> \in Seq(Sent) /\ Len(<<>>) = 0
                OBVIOUS
              <8> QED BY <6>1, <8>1, ShownSteps DEF Seen
            <7>2. p.c.flushed = canvas.flushed
              BY <1>6, <6>1 DEF PlacedTo
            <7> QED BY <5>1, <7>1, <7>2
          <6>2. CASE p.out # <<>>
            BY <1>6, <4>1, <5>1, <6>2 DEF PlacedTo
          <6> QED BY <6>1, <6>2
        <5> QED BY <1>4, <4>4, <5>1
      <4>6. ASSUME NEW k \in 1 .. Len(q.out), "cell" \in DOMAIN q.out[k]
            PROVE  /\ q.out[k].cell \in from .. q.last
                   /\ q.out[k].char = canvas.back[q.out[k].cell].ch
                   /\ Shown(client, q.out, k - 1).at = q.out[k].cell
        <5>1. CASE k > Len(p.out)
          <6>1. k = Len(q.out)
            BY <3>1, <4>6, <5>1
          <6> QED BY <3>2, <3>4, <3>5, <4>4, <6>1
        <5>2. CASE ~(k > Len(p.out))
          <6>1. k \in 1 .. Len(p.out) /\ k - 1 \in 0 .. Len(p.out) /\ p.out # <<>>
            BY <3>1, <5>2
          <6>2. q.out[k] = p.out[k]
            BY <3>1, <6>1
          <6>3. Shown(client, q.out, k - 1) = Shown(client, p.out, k - 1)
            <7>1. Len(p.out) <= Len(q.out)
              BY <3>1
            <7>2. \A n \in 0 .. Len(p.out) : Shown(client, q.out, n) = Shown(client, p.out, n)
              BY <1>3, <3>1, <3>2, <7>1, ShownPrefix
            <7> QED BY <6>1, <7>2
          <6>4. /\ p.out[k].cell \in from .. p.last
                /\ p.out[k].char = canvas.back[p.out[k].cell].ch
                /\ Shown(client, p.out, k - 1).at = p.out[k].cell
            BY <4>1, <4>6, <6>1, <6>2 DEF PlacedTo
          <6>5. p.out[k].cell \in from .. q.last
            BY <1>1, <1>2, <3>2, <4>1, <6>1, <6>4
          <6> QED BY <6>2, <6>3, <6>4, <6>5
        <5> QED BY <5>1, <5>2
      <4> QED BY <3>2, <4>4, <4>5, <4>6
    <3> QED BY <3>2, <3>3, <3>4, <3>5, <3>6, <3>7 DEF PlacedTo
  <2>4. CASE p.remaining = 0
    <3> DEFINE q == [p EXCEPT !.stopped = TRUE, !.c.index = i]
    <3>1. i \in 0 .. Size(p.c)
      BY <1>1, <1>2, <1>4 DEF Size
    <3>2. [p.c EXCEPT !.index = i] \in Canvases
      <4>1. p.c.flushed \in Styles \cup {NoStyle} /\ p.c.front \in [Positions(p.c.w, p.c.h) -> FrontCells]
        BY <1>3, CanvasParts
      <4> QED BY <1>3, <3>1, <4>1, CanvasEdited
    <3>3. q = [p EXCEPT !.stopped = TRUE, !.c = [p.c EXCEPT !.index = i]]
      BY DEF Passes
    <3>4. q \in Passes
      BY <3>2, <3>3 DEF Passes
    <3>5. q.stopped /\ q.out = p.out /\ q.last = p.last /\ q.c.index = i
      BY <1>4, <3>3 DEF Passes, CanvasesOf
    <3>6. Passed(p, i) = q
      BY <1>6, <2>4 DEF Passed
    <3> HIDE DEF q
    <3> QED BY <2>2, <3>4, <3>5, <3>6
  <2>5. CASE p.remaining # 0 /\ Unsent(p.c, i)
    <3> DEFINE q == FlushCell(p, i)
    <3>1. Passed(p, i) = q
      BY <1>6, <2>5 DEF Passed
    <3>2. /\ q \in Passes
          /\ Halted(p, i, q) \/ (CellSent(p, i, q) /\ q.c.flushed = p.c.back[i].style)
      <4>1. i \in Positions(p.c.w, p.c.h)
        BY <1>2, <1>4
      <4> QED BY <4>1, FlushCellCases
    <3> HIDE DEF q
    <3>3. CASE Halted(p, i, q)
      BY <2>2, <3>1, <3>2, <3>3 DEF Halted
    <3>4. CASE CellSent(p, i, q) /\ q.c.flushed = p.c.back[i].style
      BY <2>3, <3>1, <3>2, <3>4
    <3> QED BY <3>2, <3>3, <3>4
  <2>6. CASE p.remaining # 0 /\ ~Unsent(p.c, i)
    <3> DEFINE q == [p EXCEPT !.c.index = i + 1]
    <3>1. q = [p EXCEPT !.c = [p.c EXCEPT !.index = i + 1]]
      BY DEF Passes
    <3>2. Passed(p, i) = q
      BY <1>6, <2>6 DEF Passed
    <3>3. /\ q.stopped = p.stopped /\ q.out = p.out /\ q.last = p.last /\ q.c.index = i + 1
          /\ q.c.flushed = p.c.flushed
      BY <1>4, <3>1 DEF Passes, CanvasesOf
    <3> HIDE DEF q
    <3>4. p.out # <<>> => p.last \in from .. q.c.index - 1
      <4>1. p.out # <<>> => p.last \in from .. i - 1
        BY <2>1 DEF PlacedTo
      <4> QED BY <1>1, <1>2, <3>3, <4>1
    <3>5. PlacedTo(q)
      BY <3>3, <3>4 DEF PlacedTo
    <3> QED BY <3>2, <3>5
  <2> QED BY <2>4, <2>5, <2>6
<1> QED BY <1>3, <1>5, <1>6

\* canvas_flush when there are cells left: the pass from its place to the last cell.
LEMMA FlushedType ==
    ASSUME canvas \in Canvases, client \in Clients(canvas.w, canvas.h), canvas.index # Size(canvas)
    PROVE  \E p \in Passes :
             /\ CarriedTo(Size(canvas) - 1, p) /\ PaintedTo(Size(canvas) - 1, p) /\ PlacedTo(p)
             /\ Flushed(canvas) = [c |-> p.c, out |-> p.out, more |-> p.more]
<1> DEFINE from == canvas.index
           start == from - 1
           last == Size(canvas) - 1
           Good(i, p) == p \in Passes /\ CarriedTo(i, p) /\ PaintedTo(i, p) /\ PlacedTo(p)
           first == [c |-> canvas, last |-> from, remaining |-> BufferBytes,
                     out |-> <<>>, stopped |-> FALSE, more |-> FALSE]
           W == [i \in start .. last |-> {p \in Passes : Good(i, p)}]
           F == [i \in start .. last |-> [p \in Passes |-> Passed(p, i)]]
           Eq(g) == g = [i \in start .. last |-> IF i < from THEN first ELSE Passed(g[i - 1], i)]
           upTo == CHOOSE g : Eq(g)
<1>1. Size(canvas) \in Nat /\ canvas.index \in 0 .. Size(canvas)
  BY CanvasParts
<1>2. start \in Int /\ last \in Int /\ start <= last /\ from \in Nat /\ from <= last
  BY <1>1
<1>3. Flushed(canvas) = [c |-> upTo[last].c, out |-> upTo[last].out, more |-> upTo[last].more]
  BY DEF Flushed, Passed
<1>4. Good(start, first)
  <2>1. first \in Passes
    <3>1. <<>> \in Seq(Sent) /\ BufferBytes \in Nat
      BY Assumed
    <3> QED BY <1>2, <3>1 DEF Passes
  <2>2. \A j : j \notin from .. from - 1
    BY <1>2
  <2>3. /\ start < from /\ ~(start >= from) /\ from = start + 1
    BY <1>2
  <2>4. CarriedTo(start, first)
    <3>1. /\ first.c = canvas /\ first.stopped = FALSE /\ first.remaining = BufferBytes
          /\ first.last = from /\ first.out = <<>>
      OBVIOUS
    <3> HIDE DEF first, start
    <3> QED BY <2>2, <2>3, <3>1 DEF CarriedTo
  <2>5. PaintedTo(start, first)
    <3>1. Seen(<<>>) = client
      <4>1. <<>> \in Seq(Sent) /\ Len(<<>>) = 0
        OBVIOUS
      <4> QED BY <4>1, ShownSteps DEF Seen
    <3>2. first.c = canvas /\ first.out = <<>>
      OBVIOUS
    <3> HIDE DEF first, start
    <3> QED BY <2>2, <2>3, <3>1, <3>2 DEF PaintedTo
  <2>6. PlacedTo(first)
    <3>1. first.c = canvas /\ first.out = <<>>
      OBVIOUS
    <3> HIDE DEF first
    <3> QED BY <3>1 DEF PlacedTo
  <2> QED BY <2>1, <2>4, <2>5, <2>6
<1>5. ASSUME NEW i \in start + 1 .. last, NEW p, Good(i - 1, p) PROVE Good(i, Passed(p, i))
  <2>1. i \in canvas.index .. Size(canvas) - 1
    BY <1>1
  <2>2. PlacedTo(Passed(p, i))
    BY <1>5, <2>1, PlacedStep
  <2> QED BY <1>5, <2>1, <2>2, PassStep
<1> HIDE DEF Good, first
<1>6. PICK g : Eq(g)
  <2>1. \A i \in start + 1 .. last : \A p \in W[i - 1] : F[i][p] \in W[i]
    <3> SUFFICES ASSUME NEW i \in start + 1 .. last, NEW p \in W[i - 1] PROVE F[i][p] \in W[i]
      OBVIOUS
    <3>1. i \in start .. last /\ i - 1 \in start .. last
      BY <1>2
    <3>2. p \in Passes /\ Good(i - 1, p)
      BY <3>1
    <3>3. Good(i, Passed(p, i))
      BY <1>5, <3>2
    <3>4. Passed(p, i) \in Passes
      BY <3>3 DEF Good
    <3>5. F[i][p] = Passed(p, i)
      BY <3>1, <3>2
    <3> QED BY <3>1, <3>3, <3>4, <3>5
  <2>2. first \in W[start]
    BY <1>2, <1>4 DEF Good
  <2>3. start \in Int /\ last \in Int /\ start <= last
    BY <1>2
  <2> HIDE DEF W, F, start, last
  <2>4. PICK g : Recurses(g, start, last, first, F, W)
    BY <2>1, <2>2, <2>3, RecursionExists, Zenon
  <2>5. /\ g = [i \in start .. last |-> IF i = start THEN first ELSE F[i][g[i - 1]]]
        /\ \A i \in start .. last : g[i] \in W[i]
    BY <2>4 DEF Recurses
  <2>6. ASSUME NEW i \in start .. last, ~(i < from)
        PROVE  i # start /\ F[i][g[i - 1]] = Passed(g[i - 1], i)
    <3>1. i # start /\ i - 1 \in start .. last
      BY <1>2, <2>6 DEF start, last
    <3>2. g[i - 1] \in Passes
      BY <2>5, <3>1 DEF W
    <3> QED BY <3>1, <3>2 DEF F
  <2>7. ASSUME NEW i \in start .. last, i < from PROVE i = start
    BY <1>2, <2>7 DEF start, last
  <2>8. Eq(g)
    BY <2>5, <2>6, <2>7
  <2> QED BY <2>8
<1>7. Eq(upTo)
  <2> HIDE DEF Eq
  <2> QED BY <1>6
<1> HIDE DEF upTo
<1>8. \A i \in start .. last : Good(i, upTo[i])
  <2> DEFINE S == {i \in start .. last : Good(i, upTo[i])}
  <2>1. start \in S
    BY <1>2, <1>4, <1>7
  <2>2. ASSUME NEW i \in start + 1 .. last, i - 1 \in S PROVE i \in S
    <3>1. i \in start .. last /\ ~(i < from)
      BY <1>2
    <3>2. upTo[i] = Passed(upTo[i - 1], i)
      BY <1>7, <3>1
    <3>3. Good(i - 1, upTo[i - 1])
      BY <2>2
    <3>4. Good(i, Passed(upTo[i - 1], i))
      BY <1>5, <3>3
    <3> QED BY <3>1, <3>2, <3>4
  <2> HIDE DEF S
  <2>3. start \in Int /\ last \in Int
    BY <1>2
  <2> HIDE DEF start, last
  <2>4. \A i \in start .. last : i \in S
    BY <2>1, <2>2, <2>3, IntervalInduction, Zenon
  <2> QED BY <2>4 DEF S
<1>9. Good(last, upTo[last])
  <2>1. last \in start .. last
    BY <1>2
  <2> QED BY <1>8, <2>1
<1> QED BY <1>3, <1>9 DEF Good

\* The cells of the characters among the first n things that were sent.
PaintedBy(out, n) == {out[m].cell : m \in {k \in 1 .. n : "cell" \in DOMAIN out[k]}}

\* What arrives of a buffer whose characters are where they belong paints their cells and no others.
LEMMA PaintedCells ==
    ASSUME canvas \in Canvases, client \in Clients(canvas.w, canvas.h), NEW out \in Seq(Sent),
           \A k \in 1 .. Len(out) : "cell" \in DOMAIN out[k] =>
              /\ out[k].cell \in Nat
              /\ out[k].char = canvas.back[out[k].cell].ch
              /\ Shown(client, out, k - 1).at = out[k].cell
    PROVE  \A n \in 0 .. Len(out) : \A j \in Positions(canvas.w, canvas.h) :
              IF j \in PaintedBy(out, n) THEN Shown(client, out, n).cells[j].ch = canvas.back[j].ch
              ELSE Shown(client, out, n).cells[j] = client.cells[j]
<1> DEFINE last == Len(out)
           P == Positions(canvas.w, canvas.h)
           As(n) == \A j \in P :
                       IF j \in PaintedBy(out, n) THEN Shown(client, out, n).cells[j].ch = canvas.back[j].ch
                       ELSE Shown(client, out, n).cells[j] = client.cells[j]
           S == {n \in 0 .. last : As(n)}
<1>1. last \in Nat
  OBVIOUS
<1>2. /\ \A n \in 0 .. last : Shown(client, out, n) \in Clients(canvas.w, canvas.h)
      /\ Shown(client, out, 0) = client
      /\ \A n \in 1 .. last : Shown(client, out, n) = Painted(Shown(client, out, n - 1), out[n])
  BY ShownSteps
<1>3. \A k \in 1 .. last : "cell" \in DOMAIN out[k] =>
         /\ out[k].cell \in Nat
         /\ out[k].char = canvas.back[out[k].cell].ch
         /\ Shown(client, out, k - 1).at = out[k].cell
  OBVIOUS
<1>4. \A k \in 1 .. last : out[k] \in Sent
  OBVIOUS
<1> HIDE DEF last
<1>5. 0 \in S
  <2>1. PaintedBy(out, 0) = {}
    BY DEF PaintedBy
  <2> QED BY <1>1, <1>2, <2>1
<1>6. ASSUME NEW n \in 0 + 1 .. last, n - 1 \in S PROVE n \in S
  <2> DEFINE u == Shown(client, out, n - 1)
             s == out[n]
  <2>1. n \in 1 .. last /\ n \in 0 .. last /\ n - 1 \in 0 .. last /\ 1 .. n = (1 .. n - 1) \cup {n}
    BY <1>1
  <2>2. As(n - 1)
    BY <1>6
  <2>3. Shown(client, out, n) = Painted(u, s) /\ u \in Clients(canvas.w, canvas.h) /\ s \in Sent
    BY <1>2, <1>4, <2>1
  <2>4. u.cells \in [P -> ClientCells]
    BY <2>3 DEF Clients
  <2>5. CASE "cell" \notin DOMAIN s
    <3>1. PaintedBy(out, n) = PaintedBy(out, n - 1)
      BY <2>1, <2>5 DEF PaintedBy
    <3>2. Painted(u, s).cells = u.cells
      <4>1. "move" \in DOMAIN s \/ "style" \in DOMAIN s
        BY <2>3, <2>5, SentKinds
      <4> HIDE DEF u, s
      <4>2. CASE "move" \in DOMAIN s
        BY <2>3, <4>2 DEF Painted, Clients
      <4>3. CASE "move" \notin DOMAIN s /\ "style" \in DOMAIN s
        BY <2>3, <4>3 DEF Painted, Clients
      <4> QED BY <4>1, <4>2, <4>3
    <3> HIDE DEF u, s
    <3>3. Shown(client, out, n).cells = u.cells
      BY <2>3, <3>2
    <3>4. As(n)
      BY <2>2, <3>1, <3>3 DEF u
    <3> QED BY <2>1, <3>4
  <2>6. CASE "cell" \in DOMAIN s
    <3>1. PaintedBy(out, n) = PaintedBy(out, n - 1) \cup {s.cell}
      BY <2>1, <2>6 DEF PaintedBy
    <3>2. u.at = s.cell /\ s.char = canvas.back[s.cell].ch /\ u.at # Nowhere
      <4>1. u.at = s.cell /\ s.char = canvas.back[s.cell].ch /\ s.cell \in Nat
        BY <1>3, <2>1, <2>6
      <4> QED BY <4>1 DEF Nowhere
    <3>3. "move" \notin DOMAIN s /\ "style" \notin DOMAIN s
      BY <2>3, <2>6, SentKinds
    <3> HIDE DEF u, s, P
    <3>4. Painted(u, s).cells = [u.cells EXCEPT ![s.cell] = Cell(s.char, u.style)]
      BY <2>3, <3>2, <3>3 DEF Painted, Clients
    <3>5. \A j \in P : Shown(client, out, n).cells[j] = IF j = s.cell THEN Cell(s.char, u.style) ELSE u.cells[j]
      BY <2>3, <2>4, <3>4
    <3>6. As(n)
      BY <2>2, <3>1, <3>2, <3>5 DEF u, Cell
    <3> QED BY <2>1, <3>6
  <2> QED BY <2>5, <2>6
<1>7. 0 \in Int /\ last \in Int
  BY <1>1
<1> HIDE DEF S
<1>8. \A n \in 0 .. last : n \in S
  BY <1>5, <1>6, <1>7, IntervalInduction, Zenon
<1> QED BY <1>8 DEF S, last

\* A canvas that is forced, or no longer.
LEMMA ForceSet ==
    ASSUME NEW c \in Canvases, NEW force \in BOOLEAN
    PROVE  /\ [c EXCEPT !.force = force] \in Canvases
           /\ [c EXCEPT !.force = force].force = force
           /\ [c EXCEPT !.force = force].w = c.w /\ [c EXCEPT !.force = force].h = c.h
           /\ [c EXCEPT !.force = force].index = c.index
           /\ [c EXCEPT !.force = force].front = c.front
           /\ [c EXCEPT !.force = force].back = c.back
<1>1. c \in CanvasesOf(c.w, c.h) /\ <<c.w, c.h>> \in Sides
  BY CanvasParts
<1>2. [c EXCEPT !.force = force] \in CanvasesOf(c.w, c.h)
  BY <1>1 DEF CanvasesOf
<1> QED BY <1>1, <1>2, CanvasWhole DEF CanvasesOf

\* What canvas_flush does, in the words the invariant needs.
LEMMA FlushedFacts ==
    ASSUME canvas \in Canvases, client \in Clients(canvas.w, canvas.h),
           NEW p, p = Flushed(canvas)
    PROVE  /\ p.c \in Canvases /\ p.out \in Seq(Sent) /\ p.more \in BOOLEAN
           /\ p.c.w = canvas.w /\ p.c.h = canvas.h
           /\ p.more => p.c.index > canvas.index /\ p.c.force = canvas.force
           /\ ~p.more => ~p.c.force
           /\ \A j \in Positions(canvas.w, canvas.h) : j < p.c.index =>
                 p.c.front[j] = IF j < canvas.index THEN canvas.front[j] ELSE p.c.back[j]
           /\ p.c.back = canvas.back
           /\ canvas.force /\ ~p.more => p.c.index = Size(canvas)
           /\ canvas.force => \A j \in Positions(canvas.w, canvas.h) : j < p.c.index =>
                 IF j < canvas.index THEN Seen(p.out).cells[j] = client.cells[j]
                 ELSE /\ Seen(p.out).cells[j].ch = p.c.front[j].ch
                      /\ Believed(canvas, client) => Seen(p.out).cells[j].style = p.c.front[j].style
<1> DEFINE P == Positions(canvas.w, canvas.h)
<1>1. /\ Size(canvas) = canvas.w * canvas.h /\ Size(canvas) \in Nat
      /\ canvas.index \in 0 .. Size(canvas) /\ canvas.force \in BOOLEAN
  BY CanvasParts
<1>2. \A j \in P : j \in Nat /\ j < Size(canvas)
  BY <1>1 DEF Positions
<1>3. CASE canvas.index = Size(canvas)
  <2>1. /\ p.c = [canvas EXCEPT !.force = FALSE] /\ p.out = <<>> /\ p.more = FALSE
    BY <1>3 DEF Flushed
  <2>2. /\ p.c \in Canvases /\ p.c.force = FALSE /\ p.c.w = canvas.w /\ p.c.h = canvas.h
        /\ p.c.index = canvas.index /\ p.c.front = canvas.front /\ p.c.back = canvas.back
    <3> DEFINE d == [canvas EXCEPT !.force = FALSE]
    <3>1. /\ d \in Canvases /\ d.force = FALSE /\ d.w = canvas.w /\ d.h = canvas.h
          /\ d.index = canvas.index /\ d.front = canvas.front /\ d.back = canvas.back
      BY ForceSet
    <3>2. p.c = d
      BY <2>1
    <3> HIDE DEF d
    <3> QED BY <3>1, <3>2
  <2>3. Seen(<<>>) = client
    <3>1. <<>> \in Seq(Sent) /\ Len(<<>>) = 0
      OBVIOUS
    <3> QED BY <3>1, ShownSteps DEF Seen
  <2>4. <<>> \in Seq(Sent)
    OBVIOUS
  <2> QED BY <1>2, <1>3, <2>1, <2>2, <2>3, <2>4
<1>4. CASE canvas.index # Size(canvas)
  <2> DEFINE last == Size(canvas) - 1
  <2>1. PICK r \in Passes : /\ CarriedTo(last, r) /\ PaintedTo(last, r)
                            /\ Flushed(canvas) = [c |-> r.c, out |-> r.out, more |-> r.more]
    BY <1>4, FlushedType
  <2>2. p.c = r.c /\ p.out = r.out /\ p.more = r.more
    BY <2>1
  <2>3. r.c \in Canvases /\ r.out \in Seq(Sent) /\ r.more \in BOOLEAN /\ r.stopped \in BOOLEAN
    BY DEF Passes
  <2>4. last \in Nat /\ last >= canvas.index /\ last + 1 = Size(canvas)
    BY <1>1, <1>4
  <2> HIDE DEF last
  <2>5. r.c.index \in Nat /\ r.c.index > canvas.index
    <3>1. CASE r.stopped
      <4>1. r.c.index \in canvas.index + 1 .. last
        BY <2>1, <3>1 DEF CarriedTo
      <4> QED BY <1>1, <4>1
    <3>2. CASE ~r.stopped
      <4>1. r.c.index = last + 1
        BY <2>1, <3>2 DEF CarriedTo
      <4> QED BY <1>1, <2>4, <4>1
    <3> QED BY <2>3, <3>1, <3>2
  <2>6. /\ r.c.w = canvas.w /\ r.c.h = canvas.h /\ r.c.back = canvas.back /\ r.c.force = canvas.force
        /\ canvas.force => r.more
    BY <2>1, <2>4 DEF CarriedTo
  <2>7. \A j \in P : j < r.c.index => (j \in canvas.index .. r.c.index - 1) = ~(j < canvas.index)
    BY <1>1, <1>2, <2>5
  <2>8. \A j \in P : j < r.c.index =>
           r.c.front[j] = IF j < canvas.index THEN canvas.front[j] ELSE canvas.back[j]
    BY <2>1, <2>7 DEF CarriedTo
  <2>9. canvas.force => \A j \in P : j < r.c.index =>
           IF j < canvas.index THEN Seen(r.out).cells[j] = client.cells[j]
           ELSE /\ Seen(r.out).cells[j].ch = canvas.back[j].ch
                /\ Believed(canvas, client) => Seen(r.out).cells[j].style = canvas.back[j].style
    BY <2>1, <2>7 DEF PaintedTo
  <2>10. canvas.force => \A j \in P : j < r.c.index =>
           IF j < canvas.index THEN Seen(r.out).cells[j] = client.cells[j]
           ELSE /\ Seen(r.out).cells[j].ch = r.c.front[j].ch
                /\ Believed(canvas, client) => Seen(r.out).cells[j].style = r.c.front[j].style
    BY <2>8, <2>9
  <2> HIDE DEF P
  <2> QED BY <1>1, <2>2, <2>3, <2>5, <2>6, <2>8, <2>10 DEF P
<1> QED BY <1>3, <1>4

-----------------------------------------------------------------------------
(* The invariant. *)

Types ==
    /\ phase \in {"receive", "draw", "flush"}
    /\ wire \in Seq(Packets) /\ keyboard \in SUBSET AllKeys
    /\ canvas \in Canvases /\ client \in Clients(canvas.w, canvas.h)
    /\ draws \in 0 .. MaxDraws /\ losses \in 0 .. MaxLosses
    /\ greeting \in BOOLEAN /\ whole \in BOOLEAN /\ styled \in BOOLEAN /\ behind \in BOOLEAN

\* What the flush has passed is up to date.
PassedIsCurrent ==
    ~behind => \A i \in Positions(canvas.w, canvas.h) :
                  i < canvas.index => canvas.front[i] = canvas.back[i]

\* A flush that will be forced begins at the first cell.
ForceBegins == phase # "flush" /\ canvas.force => canvas.index = 0

\* A cell of the client's screen that shows what the canvas has.
Shows(i) ==
    /\ client.cells[i].ch = canvas.front[i].ch
    /\ styled => client.cells[i].style = canvas.front[i].style

\* What a forced flush has passed is on the client's screen.
Repairing ==
    /\ phase = "flush" /\ whole =>
          canvas.force /\ \A i \in Positions(canvas.w, canvas.h) : i < canvas.index => Shows(i)
    /\ phase = "flush" /\ styled => Believed(canvas, client)

Repaired == phase = "receive" /\ whole => \A i \in Positions(canvas.w, canvas.h) : Shows(i)

IInv == Types /\ PassedIsCurrent /\ ForceBegins /\ Repairing /\ Repaired

\* A new session: a blank canvas of the default size, and a blank terminal.
LEMMA InitIInv ==
    ASSUME Init
    PROVE  IInv
<1>1. <<COLUMNS, ROWS>> \in Sides
  BY SidesAssumption DEF Sides
<1>2. canvas \in CanvasesOf(COLUMNS, ROWS)
  BY <1>1, NewCanvasType DEF Init
<1>3. canvas \in Canvases
  BY <1>1, <1>2, CanvasWhole
<1>4. /\ canvas.w = COLUMNS /\ canvas.h = ROWS /\ canvas.index = 0 /\ canvas.force = FALSE
  BY DEF Init, NewCanvas
<1>5. Size(canvas) = canvas.w * canvas.h
  BY DEF Size
<1>6. client \in Clients(canvas.w, canvas.h)
  <2>1. Cell(Nul, NoStyle) \in ClientCells
    BY BlankIsCell
  <2> QED BY <1>5, <2>1 DEF Init, Clients, BlankScreen, Positions, Nowhere
<1>7. draws \in 0 .. MaxDraws /\ losses \in 0 .. MaxLosses
  BY DisplayAssumption DEF Init
<1>8. wire \in Seq(Packets) /\ keyboard \in SUBSET AllKeys
  BY DEF Init
<1>9. Types
  BY <1>3, <1>6, <1>7, <1>8 DEF Init, Types
<1>10. \A i \in Positions(canvas.w, canvas.h) : ~(i < canvas.index)
  BY <1>4 DEF Positions
<1> QED BY <1>4, <1>9, <1>10 DEF Init, IInv, PassedIsCurrent, ForceBegins, Repairing, Repaired

\* The receive loop: messages come, and the window may change.
LEMMA ReceiveStep ==
    ASSUME IInv, NEW n \in 0 .. Len(wire),
           NEW k \in 0 .. (IF n < Len(wire) THEN Len(wire[n + 1].bytes) - 1 ELSE 0), Receive(n, k)
    PROVE  IInv'
<1> DEFINE part == IF k = 0 THEN <<>> ELSE SubSeq(wire[n + 1].bytes, 1, k)
           packet == Joined(n) \o part
           parsed == Parse(packet, keyboard)
           cut == SubSeq(wire, n + 1, Len(wire))
           left == [bytes |-> SubSeq(wire[n + 1].bytes, k + 1, Len(wire[n + 1].bytes))]
<1>1. Types
  BY DEF IInv
<1>2. wire \in Seq(Packets) /\ Len(wire) \in Nat /\ n \in Nat
  BY <1>1 DEF Types
<1>3. k \in Int
  BY DEF Receive
<1>4. ASSUME k # 0
      PROVE  /\ n < Len(wire) /\ n + 1 \in 1 .. Len(wire) /\ wire[n + 1] \in Packets
             /\ wire[n + 1].bytes \in Seq(Byte)
             /\ k \in 1 .. Len(wire[n + 1].bytes) - 1 /\ Len(wire[n + 1].bytes) \in Nat
  <2>1. n < Len(wire)
    BY <1>3, <1>4
  <2>2. n + 1 \in 1 .. Len(wire)
    BY <1>2, <2>1
  <2>3. wire[n + 1] \in Packets
    BY <1>2, <2>2
  <2>4. wire[n + 1].bytes \in Seq(Byte)
    BY <2>3, PacketsHaveBytes
  <2>5. Len(wire[n + 1].bytes) \in Nat
    BY <2>4
  <2>6. k \in 0 .. Len(wire[n + 1].bytes) - 1
    BY <2>1
  <2> QED BY <1>4, <2>1, <2>2, <2>3, <2>4, <2>5, <2>6
<1>5. part \in Seq(Byte)
  <2>1. CASE k = 0
    BY <2>1
  <2>2. CASE k # 0
    <3>1. \A i \in 1 .. k : wire[n + 1].bytes[i] \in Byte
      BY <1>4, <2>2
    <3>2. SubSeq(wire[n + 1].bytes, 1, k) \in Seq(Byte)
      BY <1>3, <3>1, SubSeqProperties
    <3> QED BY <2>2, <3>2
  <2> QED BY <2>1, <2>2
<1>6. Joined(n) \in Seq(Byte)
  BY <1>2, JoinedType
<1>7. packet \in Seq(Byte)
  <2> HIDE DEF part
  <2> QED BY <1>5, <1>6, ConcatProperties
<1> HIDE DEF part
<1>8. parsed.keys \in SUBSET AllKeys /\ parsed.sizes \in Seq(Sides)
  <2> HIDE DEF packet
  <2> QED BY <1>1, <1>7, ParseType DEF Types
<1>9. cut \in Seq(Packets)
  <2>1. \A i \in n + 1 .. Len(wire) : wire[i] \in Packets
    BY <1>2
  <2> QED BY <1>2, <2>1, SubSeqProperties
<1>10. wire' \in Seq(Packets)
  <2>1. CASE k = 0
    BY <1>9, <2>1 DEF Receive
  <2>2. CASE k # 0
    <3>1. \A i \in k + 1 .. Len(wire[n + 1].bytes) : wire[n + 1].bytes[i] \in Byte
      BY <1>4, <2>2
    <3>2. SubSeq(wire[n + 1].bytes, k + 1, Len(wire[n + 1].bytes)) \in Seq(Byte)
      <4> DEFINE b == wire[n + 1].bytes
      <4>1. k + 1 \in Int /\ Len(b) \in Int /\ \A i \in k + 1 .. Len(b) : b[i] \in Byte
        BY <1>3, <1>4, <2>2, <3>1
      <4> HIDE DEF b
      <4>2. SubSeq(b, k + 1, Len(b)) \in Seq(Byte)
        BY <4>1, SubSeqProperties
      <4> QED BY <4>2 DEF b
    <3>3. left \in Packets
      BY <3>2 DEF Packets
    <3>4. cut # <<>>
      <4>1. n + 1 \in Int /\ Len(wire) \in Int /\ n + 1 <= Len(wire)
        BY <1>2, <1>4, <2>2
      <4>2. \A i \in n + 1 .. Len(wire) : wire[i] \in Packets
        BY <1>2
      <4>3. Len(cut) = Len(wire) - (n + 1) + 1
        BY <4>1, <4>2, SubSeqProperties
      <4> HIDE DEF cut
      <4>4. Len(cut) > 0
        BY <4>1, <4>3
      <4> QED BY <4>4
    <3>5. wire' = <<left>> \o Tail(cut)
      BY <2>2 DEF Receive
    <3> HIDE DEF left, cut
    <3>6. Tail(cut) \in Seq(Packets) /\ <<left>> \in Seq(Packets)
      BY <1>9, <3>3, <3>4, HeadTailProperties
    <3> QED BY <3>5, <3>6, ConcatProperties
  <2> QED BY <2>1, <2>2
<1>11. /\ keyboard' = parsed.keys /\ canvas' = ResizedBy(canvas, parsed.sizes)
       /\ client' = IF canvas' = canvas THEN client
                    ELSE [client EXCEPT !.cells = BlankScreen(canvas'), !.at = Nowhere]
       /\ whole' = (whole /\ canvas' = canvas) /\ styled' = (styled /\ canvas' = canvas)
       /\ phase = "receive" /\ UNCHANGED <<phase, draws, greeting, losses, behind>>
  BY DEF Receive, part
<1> HIDE DEF packet, parsed, cut, left
<1>12. canvas' \in {canvas} \cup Renewed
  BY <1>1, <1>8, <1>11, ResizedByType DEF Types
<1>13. CASE canvas' = canvas
  <2>1. client' = client
    BY <1>11, <1>13
  <2>2. whole \in BOOLEAN /\ styled \in BOOLEAN
    BY <1>1 DEF Types
  <2>3. whole' = whole /\ styled' = styled
    BY <1>11, <1>13, <2>2
  <2>4. Types'
    BY <1>1, <1>8, <1>10, <1>11, <1>13, <2>1, <2>3 DEF Types
  <2>5. PassedIsCurrent' /\ ForceBegins' /\ Repairing' /\ Repaired'
    BY <1>11, <1>13, <2>1, <2>3 DEF IInv, PassedIsCurrent, ForceBegins, Repairing, Repaired, Shows
  <2> QED BY <2>4, <2>5 DEF IInv
<1>14. CASE canvas' # canvas
  <2> DEFINE c == canvas'
  <2>1. c \in Canvases /\ c.index = 0 /\ c.front = NewCanvas(c.w, c.h).front
    BY <1>12, <1>14 DEF Renewed
  <2>2. client' = [client EXCEPT !.cells = BlankScreen(c), !.at = Nowhere]
    BY <1>11, <1>14
  <2> HIDE DEF c
  <2>3. BlankScreen(c) = [i \in Positions(c.w, c.h) |-> Cell(Nul, NoStyle)]
    BY DEF BlankScreen, Positions, Size
  <2>4. client' \in Clients(c.w, c.h)
    <3>1. client.style \in Styles \cup {NoStyle} /\ client \in Clients(canvas.w, canvas.h)
      BY <1>1 DEF Types, Clients
    <3>2. Cell(Nul, NoStyle) \in ClientCells
      BY BlankIsCell
    <3>3. Nowhere \in Int
      BY DEF Nowhere
    <3> QED BY <2>2, <2>3, <3>1, <3>2, <3>3 DEF Clients
  <2>5. \A i \in Positions(c.w, c.h) : ~(i < c.index)
    BY <2>1 DEF Positions
  <2>6. whole' = FALSE /\ styled' = FALSE
    BY <1>11, <1>14
  <2>7. Types'
    BY <1>1, <1>8, <1>10, <1>11, <2>1, <2>4, <2>6 DEF Types, c
  <2>8. PassedIsCurrent' /\ ForceBegins'
    BY <2>1, <2>5 DEF PassedIsCurrent, ForceBegins, c
  <2>9. Repairing'
    BY <1>11 DEF Repairing
  <2>10. Repaired'
    BY <2>6 DEF Repaired
  <2> QED BY <2>7, <2>8, <2>9, <2>10 DEF IInv
<1> QED BY <1>13, <1>14

\* A flush that begins at the first cell if it is forced has passed nothing, and knows whether
\* the client has the style the canvas believes.
LEMMA BeginFlushStep ==
    ASSUME BeginFlush, canvas.force' => canvas.index' = 0, canvas.force' \in BOOLEAN,
           client' = client, \A i \in Positions(canvas.w, canvas.h)' : i \in Nat
    PROVE  /\ whole' \in BOOLEAN /\ styled' \in BOOLEAN
           /\ ForceBegins' /\ Repairing' /\ Repaired'
<1>1. phase' = "flush" /\ whole' = canvas.force' /\ styled' = (canvas.force' /\ Believed(canvas', client'))
  BY DEF BeginFlush
<1>2. whole' => \A i \in Positions(canvas.w, canvas.h)' : ~(i < canvas.index')
  BY <1>1
<1>3. Repairing'
  BY <1>1, <1>2 DEF Repairing
<1> QED BY <1>1, <1>3 DEF ForceBegins, Repaired

\* An update that begins by erasing the canvas, or that opens another screen.
LEMMA EraseStep ==
    ASSUME IInv, NEW style \in Styles, Erase(style),
           (phase' = "draw" /\ whole' = FALSE /\ styled' = FALSE) \/ BeginFlush
    PROVE  IInv'
<1>1. Types /\ PassedIsCurrent /\ ForceBegins
  BY DEF IInv
<1>2. canvas \in Canvases /\ canvas.index \in 0 .. Size(canvas) /\ Size(canvas) \in Nat /\ canvas.force \in BOOLEAN
  BY <1>1, CanvasParts DEF Types
<1>3. <<Space, style>> \in Chars \X Styles
  BY Assumed
<1>4. /\ canvas' = Put(canvas, DOMAIN canvas.back, <<Space, style>>)
      /\ phase # "flush" /\ keyboard' = {} /\ draws' = 0 /\ behind' = (behind \/ canvas.index # 0)
      /\ UNCHANGED <<wire, greeting, client, losses>>
  BY DEF Erase, Erased
<1>5. /\ canvas' \in Canvases /\ canvas'.w = canvas.w /\ canvas'.h = canvas.h
      /\ canvas'.index = canvas.index /\ canvas'.force = canvas.force /\ canvas'.front = canvas.front
  <2> HIDE DEF Space
  <2> QED BY <1>2, <1>3, <1>4, PutType
<1>6. \A i \in Positions(canvas.w, canvas.h) : i \in Nat
  BY <1>2, CanvasParts DEF Positions
<1>7. ~behind' => \A i \in Positions(canvas.w, canvas.h) : ~(i < canvas.index)
  <2>1. ~behind' => canvas.index = 0
    BY <1>1, <1>4
  <2> QED BY <1>6, <2>1
<1>8. PassedIsCurrent'
  BY <1>5, <1>7 DEF PassedIsCurrent
<1>9. canvas'.force => canvas'.index = 0
  BY <1>1, <1>4, <1>5 DEF ForceBegins
<1>10. /\ phase' \in {"draw", "flush"} /\ whole' \in BOOLEAN /\ styled' \in BOOLEAN
       /\ ForceBegins' /\ Repairing' /\ Repaired'
  <2>1. CASE phase' = "draw" /\ whole' = FALSE /\ styled' = FALSE
    BY <1>9, <2>1 DEF ForceBegins, Repairing, Repaired
  <2>2. CASE BeginFlush
    <3>1. client' = client /\ \A i \in Positions(canvas.w, canvas.h)' : i \in Nat
      BY <1>4, <1>5, <1>6
    <3>2. canvas'.force \in BOOLEAN
      BY <1>2, <1>5
    <3>3. phase' = "flush"
      BY <2>2 DEF BeginFlush
    <3> QED BY <1>9, <2>2, <3>1, <3>2, <3>3, BeginFlushStep
  <2> QED BY <2>1, <2>2
<1>11. Types'
  <2>1. 0 \in 0 .. MaxDraws
    BY DisplayAssumption
  <2> QED BY <1>1, <1>4, <1>5, <1>10, <2>1 DEF Types
<1> QED BY <1>8, <1>10, <1>11 DEF IInv

\* When no tick has gone by the flush goes on.
LEMMA NoTickStep ==
    ASSUME IInv, NoTick
    PROVE  IInv'
<1>1. Types /\ PassedIsCurrent /\ ForceBegins
  BY DEF IInv
<1>2. canvas \in Canvases /\ canvas.force \in BOOLEAN
  BY <1>1, CanvasParts DEF Types
<1>3. /\ phase = "receive" /\ phase' = "flush" /\ BeginFlush
      /\ UNCHANGED <<wire, keyboard, canvas, draws, greeting, client, losses, behind>>
  BY DEF NoTick, BeginFlush
<1>4. canvas.force' => canvas.index' = 0
  BY <1>1, <1>3 DEF ForceBegins
<1>5. \A i \in Positions(canvas.w, canvas.h)' : i \in Nat
  BY <1>2, <1>3, CanvasParts DEF Positions
<1>6. whole' \in BOOLEAN /\ styled' \in BOOLEAN /\ ForceBegins' /\ Repairing' /\ Repaired'
  BY <1>2, <1>3, <1>4, <1>5, BeginFlushStep
<1>7. Types'
  BY <1>1, <1>3, <1>6 DEF Types
<1>8. PassedIsCurrent'
  BY <1>1, <1>3 DEF PassedIsCurrent
<1> QED BY <1>6, <1>7, <1>8 DEF IInv

\* A call that draws begins the flush anew.
LEMMA DrawCellsStep ==
    ASSUME IInv, NEW cells, NEW ink \in Inks, DrawCells(cells, ink)
    PROVE  IInv'
<1>1. Types /\ draws \in 0 .. MaxDraws /\ MaxDraws \in Nat
  BY DisplayAssumption DEF IInv, Types
<1>2. ink \in Chars \X Styles
  BY DisplayAssumption
<1> DEFINE c == Put(canvas, cells, ink)
<1>3. /\ c \in Canvases /\ c.w = canvas.w /\ c.h = canvas.h /\ c.front = canvas.front /\ c.force = canvas.force
  BY <1>1, <1>2, PutType DEF Types
<1>4. canvas' = [c EXCEPT !.index = 0]
  BY DEF DrawCells, Drawn
<1> HIDE DEF c
<1>5. 0 \in 0 .. Size(c) /\ c \in CanvasesOf(c.w, c.h)
  <2>1. Size(c) \in Nat /\ c \in CanvasesOf(c.w, c.h)
    BY <1>3, CanvasParts
  <2> QED BY <2>1
<1>6. canvas' \in Canvases
  <2>1. c.flushed \in Styles \cup {NoStyle} /\ c.front \in [Positions(c.w, c.h) -> FrontCells]
    BY <1>3, CanvasParts
  <2> QED BY <1>3, <1>4, <1>5, <2>1, CanvasEdited
<1>7. canvas'.index = 0 /\ canvas'.w = canvas.w /\ canvas'.h = canvas.h
  BY <1>3, <1>4, <1>5 DEF CanvasesOf
<1>8. \A i \in Positions(canvas.w, canvas.h) : ~(i < 0)
  BY DEF Positions
<1>9. /\ phase = "draw" /\ phase' = "draw" /\ whole' = whole /\ styled' = styled /\ client' = client /\ draws < MaxDraws
      /\ draws' = draws + 1 /\ behind' = FALSE
      /\ wire' = wire /\ keyboard' = keyboard /\ greeting' = greeting /\ losses' = losses
  BY DEF DrawCells
<1>10. Types'
  <2>1. draws' \in 0 .. MaxDraws
    BY <1>1, <1>9
  <2> QED BY <1>1, <1>6, <1>7, <1>9, <2>1 DEF Types
<1>11. PassedIsCurrent' /\ ForceBegins' /\ Repairing' /\ Repaired'
  BY <1>7, <1>8, <1>9 DEF PassedIsCurrent, ForceBegins, Repairing, Repaired
<1> QED BY <1>10, <1>11 DEF IInv

\* A text leaves the flush where it is.
LEMMA DrawTextStep ==
    ASSUME IInv, NEW ink \in Inks, DrawText(ink)
    PROVE  IInv'
<1>1. /\ Types /\ PassedIsCurrent /\ ForceBegins
      /\ draws \in 0 .. MaxDraws /\ MaxDraws \in Nat /\ behind \in BOOLEAN
  BY DisplayAssumption DEF IInv, Types
<1>2. ink \in Chars \X Styles
  BY DisplayAssumption
<1>3. PICK cells : canvas' = Put(canvas, cells, ink)
  BY DEF DrawText, Written
<1>4. /\ canvas' \in Canvases /\ canvas'.w = canvas.w /\ canvas'.h = canvas.h
      /\ canvas'.index = canvas.index /\ canvas'.force = canvas.force /\ canvas'.front = canvas.front
  BY <1>1, <1>2, <1>3, PutType DEF Types
<1>5. /\ phase = "draw" /\ phase' = "draw" /\ whole' = whole /\ styled' = styled /\ client' = client /\ draws < MaxDraws
      /\ draws' = draws + 1 /\ behind' = (behind \/ canvas.index # 0)
      /\ wire' = wire /\ keyboard' = keyboard /\ greeting' = greeting /\ losses' = losses
  BY DEF DrawText
<1>6. Types'
  BY <1>1, <1>4, <1>5 DEF Types
<1>7. \A i \in Positions(canvas.w, canvas.h) : i \in Nat
  BY <1>1, CanvasParts DEF Positions, Types
<1>8. ~behind' => \A i \in Positions(canvas.w, canvas.h) : ~(i < canvas.index)
  <2>1. ~behind' => canvas.index = 0
    BY <1>1, <1>5
  <2> QED BY <1>7, <2>1
<1>9. PassedIsCurrent'
  BY <1>4, <1>8 DEF PassedIsCurrent
<1>10. ForceBegins' /\ Repairing' /\ Repaired'
  BY <1>1, <1>4, <1>5 DEF ForceBegins, Repairing, Repaired
<1> QED BY <1>6, <1>9, <1>10 DEF IInv

\* The last call of an update; a play may force the flush.
LEMMA DrawingStep ==
    ASSUME IInv, NEW forced \in BOOLEAN, Drawing(forced)
    PROVE  IInv'
<1>1. Types /\ PassedIsCurrent /\ MaxDraws \in Nat /\ canvas \in Canvases
  BY DisplayAssumption DEF IInv, Types
<1>2. /\ canvas' \in Canvases /\ canvas'.w = canvas.w /\ canvas'.h = canvas.h /\ canvas'.index = canvas.index
      /\ canvas'.front = canvas.front /\ canvas'.back = canvas.back /\ canvas'.force \in BOOLEAN
  <2>1. canvas.force \in BOOLEAN
    BY <1>1, CanvasParts
  <2>2. canvas' = canvas \/ canvas' = [canvas EXCEPT !.force = TRUE]
    BY DEF Drawing, ForceNextFlush
  <2>3. /\ [canvas EXCEPT !.force = TRUE] \in Canvases
        /\ [canvas EXCEPT !.force = TRUE].force = TRUE
        /\ [canvas EXCEPT !.force = TRUE].w = canvas.w /\ [canvas EXCEPT !.force = TRUE].h = canvas.h
        /\ [canvas EXCEPT !.force = TRUE].index = canvas.index
        /\ [canvas EXCEPT !.force = TRUE].front = canvas.front
        /\ [canvas EXCEPT !.force = TRUE].back = canvas.back
    BY <1>1, ForceSet
  <2>4. CASE canvas' = canvas
    BY <1>1, <2>1, <2>4
  <2>5. CASE canvas' = [canvas EXCEPT !.force = TRUE]
    BY <2>3, <2>5
  <2> QED BY <2>2, <2>4, <2>5
<1>3. /\ canvas.index = 0 /\ phase' = "flush" /\ BeginFlush /\ draws' = 0
      /\ wire' = wire /\ keyboard' = keyboard /\ greeting' = greeting /\ client' = client
      /\ losses' = losses /\ behind' = behind
  BY DEF Drawing, BeginFlush
<1>4. \A i \in Positions(canvas.w, canvas.h) : i \in Nat /\ ~(i < 0)
  BY <1>1, CanvasParts DEF Positions
<1>5. PassedIsCurrent'
  BY <1>2, <1>3, <1>4 DEF PassedIsCurrent
<1>6. whole' \in BOOLEAN /\ styled' \in BOOLEAN /\ ForceBegins' /\ Repairing' /\ Repaired'
  <2>1. /\ canvas'.force \in BOOLEAN /\ canvas'.index = 0 /\ client' = client
        /\ \A i \in Positions(canvas.w, canvas.h)' : i \in Nat
    BY <1>2, <1>3, <1>4
  <2> QED BY <1>3, <2>1, BeginFlushStep
<1>7. Types'
  <2>1. 0 \in 0 .. MaxDraws
    BY <1>1
  <2> QED BY <1>1, <1>2, <1>3, <1>6, <2>1 DEF Types
<1> QED BY <1>5, <1>6, <1>7 DEF IInv

\* The greeting sets the client to the plain style, if it arrives.
LEMMA FlushGreetingStep ==
    ASSUME IInv, FlushGreeting
    PROVE  IInv'
<1>1. Types /\ PassedIsCurrent /\ ForceBegins /\ Repairing /\ Repaired
  BY DEF IInv
<1>2. /\ phase' = phase /\ wire' = wire /\ keyboard' = keyboard /\ canvas' = canvas /\ draws' = draws
      /\ whole' = whole /\ behind' = behind /\ greeting' = FALSE
      /\ styled' = (styled /\ Believed(canvas', client'))
      /\ client' \in {client, [client EXCEPT !.style = Plain]}
  BY DEF FlushGreeting
<1>3. losses' \in 0 .. MaxLosses
  BY <1>1, DisplayAssumption DEF FlushGreeting, Arrives, Types
<1>4. client' \in Clients(canvas.w, canvas.h) /\ client'.cells = client.cells
  <2>1. Plain \in Styles \cup {NoStyle}
    BY Assumed
  <2> QED BY <1>1, <1>2, <2>1 DEF Types, Clients
<1>5. Types'
  BY <1>1, <1>2, <1>3, <1>4 DEF Types
<1>6. PassedIsCurrent' /\ ForceBegins' /\ Repairing' /\ Repaired'
  BY <1>1, <1>2, <1>4 DEF PassedIsCurrent, ForceBegins, Repairing, Repaired, Shows
<1> QED BY <1>5, <1>6 DEF IInv

\* One buffer of the flush; what arrives of it is painted.
LEMMA FlushCanvasStep ==
    ASSUME IInv, FlushCanvas
    PROVE  IInv'
<1> DEFINE p == Flushed(canvas)
           P == Positions(canvas.w, canvas.h)
<1>1. /\ Types /\ PassedIsCurrent /\ Repairing /\ canvas \in Canvases
      /\ client \in Clients(canvas.w, canvas.h) /\ whole \in BOOLEAN
  BY DEF IInv, Types
<1>2. /\ phase = "flush" /\ canvas' = p.c /\ phase' = (IF p.more THEN "flush" ELSE "receive")
      /\ wire' = wire /\ keyboard' = keyboard /\ draws' = draws /\ greeting' = greeting /\ behind' = behind
  BY DEF FlushCanvas
<1>3. PICK n \in 0 .. Len(p.out) :
         /\ Arrives(n, Len(p.out)) /\ client' = Shown(client, p.out, n)
         /\ whole' = (whole /\ n = Len(p.out))
         /\ styled' = (styled /\ n = Len(p.out) /\ Believed(canvas', client'))
  BY DEF FlushCanvas
<1>4. /\ p.c \in Canvases /\ p.out \in Seq(Sent) /\ p.more \in BOOLEAN
      /\ p.c.w = canvas.w /\ p.c.h = canvas.h
      /\ p.more => p.c.index > canvas.index /\ p.c.force = canvas.force
      /\ ~p.more => ~p.c.force
      /\ \A j \in P : j < p.c.index =>
            p.c.front[j] = IF j < canvas.index THEN canvas.front[j] ELSE p.c.back[j]
      /\ p.c.back = canvas.back
      /\ canvas.force /\ ~p.more => p.c.index = Size(canvas)
      /\ canvas.force => \A j \in P : j < p.c.index =>
            IF j < canvas.index THEN Seen(p.out).cells[j] = client.cells[j]
            ELSE /\ Seen(p.out).cells[j].ch = p.c.front[j].ch
                 /\ Believed(canvas, client) => Seen(p.out).cells[j].style = p.c.front[j].style
  <2> DEFINE q == Flushed(canvas)
  <2> HIDE DEF q
  <2>1. q = Flushed(canvas)
    BY DEF q
  <2> USE DEF q
  <2> QED BY <1>1, <2>1, FlushedFacts
<1> HIDE DEF p
<1>5. client' \in Clients(canvas'.w, canvas'.h)
  BY <1>1, <1>2, <1>3, <1>4, ShownSteps
<1>6. losses' \in 0 .. MaxLosses
  BY <1>1, <1>3, DisplayAssumption DEF Arrives, Types
<1>7. whole' \in BOOLEAN /\ styled' \in BOOLEAN
  BY <1>3
<1>8. Types'
  BY <1>1, <1>2, <1>4, <1>5, <1>6, <1>7 DEF Types
<1>9. PassedIsCurrent'
  BY <1>1, <1>2, <1>4 DEF PassedIsCurrent
<1>10. ForceBegins'
  BY <1>2, <1>4 DEF ForceBegins
<1>11. ASSUME whole'
       PROVE  canvas.force /\ \A j \in P : j < p.c.index => Shows(j)'
  <2>1. whole /\ client' = Seen(p.out)
    BY <1>1, <1>3, <1>11 DEF Seen
  <2>2. /\ canvas.force /\ \A j \in P : j < canvas.index => Shows(j)
        /\ styled => Believed(canvas, client)
    BY <1>1, <1>2, <2>1 DEF Repairing
  <2>3. styled' => styled
    BY <1>3
  <2>4. ASSUME NEW j \in P, j < p.c.index PROVE Shows(j)'
    <3>1. CASE j < canvas.index
      <4>1. Seen(p.out).cells[j] = client.cells[j] /\ p.c.front[j] = canvas.front[j]
        BY <1>4, <2>2, <2>4, <3>1
      <4> QED BY <1>2, <2>1, <2>2, <2>3, <3>1, <4>1 DEF Shows
    <3>2. CASE ~(j < canvas.index)
      BY <1>2, <1>4, <2>1, <2>2, <2>3, <2>4, <3>2 DEF Shows
    <3> QED BY <3>1, <3>2
  <2> QED BY <2>2, <2>4
<1>12. Repairing'
  BY <1>2, <1>3, <1>4, <1>11 DEF Repairing
<1>13. Repaired'
  <2>1. \A j \in P : j < Size(canvas)
    <3>1. Size(canvas) = canvas.w * canvas.h /\ Size(canvas) \in Nat
      BY <1>1, CanvasParts
    <3> QED BY <3>1 DEF Positions
  <2> QED BY <1>2, <1>4, <1>11, <2>1 DEF Repaired
<1> QED BY <1>8, <1>9, <1>10, <1>12, <1>13 DEF IInv

\* Every call but canvas_write draws some set of cells.
LEMMA DrawStep ==
    ASSUME IInv, NEW ink \in Inks,
           DrawPut(ink) \/ DrawFill(ink) \/ DrawBlock(ink) \/ DrawRect(ink) \/ DrawLine(ink) \/ DrawText(ink)
    PROVE  IInv'
<1>1. CASE DrawPut(ink)
  BY <1>1, DrawCellsStep DEF DrawPut
<1>2. CASE DrawFill(ink)
  BY <1>2, DrawCellsStep DEF DrawFill
<1>3. CASE DrawBlock(ink)
  BY <1>3, DrawCellsStep DEF DrawBlock
<1>4. CASE DrawRect(ink)
  BY <1>4, DrawCellsStep DEF DrawRect
<1>5. CASE DrawLine(ink)
  BY <1>5, DrawCellsStep DEF DrawLine
<1>6. CASE DrawText(ink)
  BY <1>6, DrawTextStep
<1> QED BY <1>1, <1>2, <1>3, <1>4, <1>5, <1>6

\* Stuttering changes nothing.
LEMMA StutterStep ==
    ASSUME IInv, UNCHANGED vars
    PROVE  IInv'
<1>1. /\ phase' = phase /\ wire' = wire /\ keyboard' = keyboard /\ canvas' = canvas /\ draws' = draws
      /\ greeting' = greeting /\ client' = client /\ losses' = losses /\ whole' = whole
      /\ styled' = styled /\ behind' = behind
  BY DEF vars
<1>2. Types'
  BY <1>1 DEF IInv, Types
<1> QED BY <1>1, <1>2 DEF IInv, PassedIsCurrent, ForceBegins, Repairing, Repaired, Shows

\* A message more is on the way.
LEMMA SendStep ==
    ASSUME IInv, NEW m \in Messages, Send(m)
    PROVE  IInv'
<1>1. wire' \in Seq(Packets)
  <2>1. wire \in Seq(Packets) /\ m \in Packets
    BY DEF IInv, Types, Packets
  <2> QED BY <2>1, AppendProperties DEF Send
<1>2. /\ phase' = phase /\ keyboard' = keyboard /\ canvas' = canvas /\ draws' = draws
      /\ greeting' = greeting /\ client' = client /\ losses' = losses /\ whole' = whole
      /\ styled' = styled /\ behind' = behind
  BY DEF Send
<1>3. Types'
  BY <1>1, <1>2 DEF IInv, Types
<1> QED BY <1>2, <1>3 DEF IInv, PassedIsCurrent, ForceBegins, Repairing, Repaired, Shows

\* Every step keeps the invariant.
LEMMA NextStep ==
    ASSUME IInv, [Next]_vars
    PROVE  IInv'
<1>1. ASSUME NEW m \in Messages, Send(m) PROVE IInv'
  BY <1>1, SendStep
<1>2. CASE Receiving
  BY <1>2, ReceiveStep DEF Receiving
<1>3. ASSUME NEW style \in Styles, Tick(style) PROVE IInv'
  BY <1>3, EraseStep DEF Tick
<1>4. ASSUME NEW style \in Styles, PushScreen(style) PROVE IInv'
  BY <1>4, EraseStep DEF PushScreen
<1>5. CASE NoTick
  BY <1>5, NoTickStep
<1>6. CASE Draw
  BY <1>6, DrawStep DEF Draw
<1>7. ASSUME NEW forced \in BOOLEAN, Drawing(forced) PROVE IInv'
  BY <1>7, DrawingStep
<1>8. CASE FlushGreeting
  BY <1>8, FlushGreetingStep
<1>9. CASE FlushCanvas
  BY <1>9, FlushCanvasStep
<1>10. CASE UNCHANGED vars
  BY <1>10, StutterStep
<1> QED BY <1>1, <1>2, <1>3, <1>4, <1>5, <1>6, <1>7, <1>8, <1>9, <1>10 DEF Next, Flush

\* The invariant holds whatever clients send and whatever the network loses.
THEOREM Invariant == Spec => []IInv
<1>1. Init => IInv
  BY InitIInv
<1>2. IInv /\ [Next]_vars => IInv'
  BY NextStep
<1> QED BY <1>1, <1>2, PTL DEF Spec

-----------------------------------------------------------------------------
(* The theorems. *)

\* Whatever clients send and however it is cut, the canvas is as large as allowed, its
\* buffers have its size and hold characters, and the place of the flush is in it: TypeOK,
\* for windows, messages and buffers of any size.
THEOREM TypeCorrect == Spec => []TypeOK
<1>1. IInv => TypeOK
  <2> SUFFICES ASSUME IInv PROVE TypeOK
    OBVIOUS
  <2>1. Types
    BY DEF IInv
  <2>2. canvas \in Canvases /\ client \in Clients(canvas.w, canvas.h)
    BY <2>1 DEF Types
  <2>3. /\ canvas.w \in COLUMNS .. MaxSide /\ canvas.h \in ROWS .. MaxSide
        /\ canvas.index \in 0 .. Size(canvas) /\ Size(canvas) = canvas.w * canvas.h
        /\ canvas.force \in BOOLEAN /\ canvas.flushed \in Styles \cup {NoStyle}
    BY <2>2, CanvasParts
  <2>4. /\ canvas.front \in [Positions(canvas.w, canvas.h) -> FrontCells]
        /\ canvas.back \in [Positions(canvas.w, canvas.h) -> BackCells]
    BY <2>2, CanvasParts
  <2>5. DOMAIN client.cells = DOMAIN canvas.front
    BY <2>2, <2>4 DEF Clients
  <2>6. Positions(canvas.w, canvas.h) = 0 .. Size(canvas) - 1
    BY <2>3 DEF Positions
  <2>7. /\ canvas.front \in [0 .. Size(canvas) - 1 -> FrontCells]
        /\ canvas.back \in [0 .. Size(canvas) - 1 -> BackCells]
    BY <2>4, <2>6
  <2>8. {greeting, whole, styled, behind} \subseteq BOOLEAN
    BY <2>1 DEF Types
  <2>9. /\ phase \in {"receive", "draw", "flush"} /\ keyboard \subseteq AllKeys
        /\ draws \in 0 .. MaxDraws /\ losses \in 0 .. MaxLosses
    BY <2>1 DEF Types
  <2> QED BY <2>3, <2>5, <2>7, <2>8, <2>9, Zenon DEF TypeOK
<1> QED BY <1>1, Invariant, PTL

\* When the loop that flushes is over, the canvas has been sent but for what a screen erased
\* or wrote behind the flush: FlushesAreComplete, for any canvas and any size of the buffer.
THEOREM FlushedInWhole == Spec => []FlushesAreComplete
<1>1. IInv => FlushesAreComplete
  <2> SUFFICES ASSUME IInv, canvas.index = Size(canvas), ~behind PROVE canvas.front = canvas.back
    BY DEF FlushesAreComplete
  <2>1. canvas \in Canvases /\ PassedIsCurrent
    BY DEF IInv, Types
  <2>2. Size(canvas) = canvas.w * canvas.h /\ Size(canvas) \in Nat
    BY <2>1, CanvasParts
  <2>3. \A i \in Positions(canvas.w, canvas.h) : canvas.front[i] = canvas.back[i]
    <3>1. \A i \in Positions(canvas.w, canvas.h) : i < canvas.index
      BY <2>2 DEF Positions
    <3> QED BY <2>1, <3>1 DEF PassedIsCurrent
  <2>4. /\ canvas.front \in [Positions(canvas.w, canvas.h) -> FrontCells]
        /\ canvas.back \in [Positions(canvas.w, canvas.h) -> BackCells]
    BY <2>1, CanvasParts
  <2> QED BY <2>3, <2>4
<1> QED BY <1>1, Invariant, PTL

\* A forced flush that arrives in whole puts the characters on the client's screen right, whatever
\* it showed before and wherever its cursor was, and the colours unless a style escape is missing,
\* lost before it or dropped by canvas_flush: ForcedFlushRepairs, for any canvas, buffer and losses.
THEOREM RepairedByForce == Spec => []ForcedFlushRepairs
<1>1. IInv => ForcedFlushRepairs
  <2> SUFFICES ASSUME IInv, phase = "receive", whole
               PROVE  \A i \in DOMAIN client.cells : Shows(i)
    BY DEF ForcedFlushRepairs, Shows
  <2>1. Repaired /\ client \in Clients(canvas.w, canvas.h)
    BY DEF IInv, Types
  <2> QED BY <2>1 DEF Repaired, Clients
<1> QED BY <1>1, Invariant, PTL

\* A round of the loop that flushes either is its last or comes further than the one before,
\* so that it ends after at most as many rounds as there are cells: EveryFlushAdvances.
THEOREM FlushesEnd == Spec => []EveryFlushAdvances
<1>1. IInv => EveryFlushAdvances
  <2> SUFFICES ASSUME IInv, Flushed(canvas).more PROVE Flushed(canvas).c.index > canvas.index
    BY DEF EveryFlushAdvances
  <2>1. canvas \in Canvases /\ client \in Clients(canvas.w, canvas.h)
    BY DEF IInv, Types
  <2> DEFINE p == Flushed(canvas)
  <2> HIDE DEF p
  <2>2. p = Flushed(canvas)
    BY DEF p
  <2>3. p.more => p.c.index > canvas.index
    BY <2>1, <2>2, FlushedFacts
  <2> QED BY <2>2, <2>3
<1> QED BY <1>1, Invariant, PTL

\* A buffer that is sent in one round of the loop.
LEMMA FlushPaints ==
    ASSUME IInv, FlushCanvas, Flushed(canvas).out # <<>>, "move" \in DOMAIN Flushed(canvas).out[1]
    PROVE  \E n \in 0 .. Len(Flushed(canvas).out) :
             /\ losses' = losses => n = Len(Flushed(canvas).out)
             /\ \A i \in DOMAIN client.cells :
                   IF i \in PaintedBy(Flushed(canvas).out, n) THEN client'.cells[i].ch = canvas'.front[i].ch
                   ELSE client'.cells[i] = client.cells[i]
             /\ client.style = canvas.flushed /\ losses' = losses =>
                   \E i \in PaintedBy(Flushed(canvas).out, n) :
                      /\ client'.style = canvas'.front[i].style
                      /\ \A j \in PaintedBy(Flushed(canvas).out, n) : j <= i
<1> DEFINE P == Positions(canvas.w, canvas.h)
           p == Flushed(canvas)
           out == p.out
<1>1. /\ canvas \in Canvases /\ client \in Clients(canvas.w, canvas.h) /\ losses \in Nat
  BY DisplayAssumption DEF IInv, Types
<1>2. canvas' = p.c
  BY DEF FlushCanvas
<1>3. PICK n \in 0 .. Len(out) : Arrives(n, Len(out)) /\ client' = Shown(client, out, n)
  BY SMTT(30) DEF FlushCanvas
<1>4. canvas.index # Size(canvas)
  BY DEF Flushed
<1>5. PICK r \in Passes : /\ CarriedTo(Size(canvas) - 1, r) /\ PlacedTo(r)
                          /\ p = [c |-> r.c, out |-> r.out, more |-> r.more]
  BY <1>1, <1>4, FlushedType
<1>6. p.c = r.c /\ out = r.out
  BY <1>5
<1>7. out # <<>> /\ "move" \in DOMAIN out[1]
  OBVIOUS
<1> HIDE DEF p, out
<1>8. /\ r.last \in canvas.index .. r.c.index - 1
      /\ "cell" \in DOMAIN out[Len(out)] /\ out[Len(out)].cell = r.last
      /\ \A k \in 1 .. Len(out) : "cell" \in DOMAIN out[k] =>
            /\ out[k].cell \in canvas.index .. r.last
            /\ out[k].char = canvas.back[out[k].cell].ch
            /\ Shown(client, out, k - 1).at = out[k].cell
      /\ client.style = canvas.flushed => Seen(out).style = canvas.back[r.last].style
  BY <1>5, <1>6, <1>7 DEF PlacedTo
<1>9. out \in Seq(Sent) /\ r.c \in Canvases
  BY <1>6 DEF Passes
<1>10. /\ canvas.index \in Nat /\ r.c.index \in Nat
  <2>1. /\ Size(canvas) \in Nat /\ canvas.index \in 0 .. Size(canvas)
        /\ Size(r.c) \in Nat /\ r.c.index \in 0 .. Size(r.c)
    BY <1>1, <1>9, CanvasParts
  <2> QED BY <2>1
<1>11. \A j \in P : j \in canvas.index .. r.c.index - 1 => r.c.front[j] = canvas.back[j]
  BY <1>5 DEF CarriedTo
<1>12. \A m \in 0 .. Len(out) : \A j \in PaintedBy(out, m) : j \in canvas.index .. r.last
  <2> SUFFICES ASSUME NEW m \in 0 .. Len(out), NEW k \in 1 .. m, "cell" \in DOMAIN out[k]
               PROVE  out[k].cell \in canvas.index .. r.last
    BY DEF PaintedBy
  <2>1. k \in 1 .. Len(out)
    BY <1>9
  <2> QED BY <1>8, <2>1
<1>13. \A j \in canvas.index .. r.last : j \in Nat /\ j \in canvas.index .. r.c.index - 1 /\ j <= r.last
  BY <1>8, <1>10
<1>14. losses' = losses => n = Len(out)
  BY <1>1, <1>3 DEF Arrives
<1>15. \A i \in P : IF i \in PaintedBy(out, n) THEN client'.cells[i].ch = canvas'.front[i].ch
                    ELSE client'.cells[i] = client.cells[i]
  <2>1. \A m \in 0 .. Len(out) : \A j \in Positions(canvas.w, canvas.h) :
           IF j \in PaintedBy(out, m) THEN Shown(client, out, m).cells[j].ch = canvas.back[j].ch
           ELSE Shown(client, out, m).cells[j] = client.cells[j]
    <3>1. \A k \in 1 .. Len(out) : "cell" \in DOMAIN out[k] =>
             /\ out[k].cell \in Nat
             /\ out[k].char = canvas.back[out[k].cell].ch
             /\ Shown(client, out, k - 1).at = out[k].cell
      BY <1>8, <1>13
    <3> QED BY <1>1, <1>9, <3>1, PaintedCells
  <2> QED BY <1>2, <1>3, <1>6, <1>11, <1>12, <1>13, <2>1
<1>16. ASSUME client.style = canvas.flushed, losses' = losses
       PROVE  \E i \in PaintedBy(out, n) : /\ client'.style = canvas'.front[i].style
                                           /\ \A j \in PaintedBy(out, n) : j <= i
  <2>1. Len(out) \in Nat /\ Len(out) \in 1 .. Len(out)
    BY <1>7, <1>9
  <2>2. n = Len(out) /\ client' = Seen(out)
    BY <1>3, <1>14, <1>16 DEF Seen
  <2>3. r.last \in PaintedBy(out, n)
    BY <1>8, <2>1, <2>2 DEF PaintedBy
  <2>4. r.last \in P
    <3>1. /\ r.c.w = canvas.w /\ r.c.h = canvas.h
      BY <1>5 DEF CarriedTo
    <3>2. Size(r.c) = r.c.w * r.c.h /\ r.c.index \in 0 .. Size(r.c) /\ Size(r.c) \in Nat
      BY <1>9, CanvasParts
    <3> QED BY <1>8, <1>10, <3>1, <3>2 DEF Positions
  <2>5. client'.style = canvas'.front[r.last].style
    BY <1>2, <1>6, <1>8, <1>11, <1>16, <2>2, <2>4
  <2>6. \A j \in PaintedBy(out, n) : j <= r.last
    BY <1>12, <1>13
  <2> QED BY <2>3, <2>5, <2>6
<1>17. DOMAIN client.cells = P
  BY <1>1 DEF Clients
<1> QED BY <1>3, <1>14, <1>15, <1>16, <1>17 DEF p, out

\* A buffer that begins by moving the cursor paints the cells it was written for, in order and
\* as far as it arrives, and leaves the client with the style the canvas believes it has:
\* BuffersPaintTheirCells, for any canvas and any size of the buffer.
THEOREM BuffersPaint == Spec => BuffersPaintTheirCells
<1> DEFINE PaintsItsCells ==
      LET sent == Flushed(canvas).out IN
       phase = "flush" /\ ~greeting /\ sent # <<>> /\ "move" \in DOMAIN sent[1] =>
        \E n \in 0 .. Len(sent) :
        LET painted == {sent[j].cell : j \in {k \in 1 .. n : "cell" \in DOMAIN sent[k]}} IN
            /\ losses' = losses => n = Len(sent)
            /\ \A i \in DOMAIN client.cells :
                  IF i \in painted THEN client'.cells[i].ch = canvas'.front[i].ch
                  ELSE client'.cells[i] = client.cells[i]
            /\ client.style = canvas.flushed /\ losses' = losses =>
                  \E i \in painted : /\ client'.style = canvas'.front[i].style
                                     /\ \A j \in painted : j <= i
<1>1. IInv /\ [Next]_vars => [PaintsItsCells]_vars
  <2> DEFINE out == Flushed(canvas).out
  <2> SUFFICES ASSUME IInv, Next, phase = "flush", ~greeting, out # <<>>, "move" \in DOMAIN out[1]
               PROVE  PaintsItsCells
    OBVIOUS
  <2>1. FlushCanvas
    BY DEF Next, Send, Receiving, Receive, Tick, PushScreen, Erase, BeginFlush, NoTick, Draw, DrawPut, DrawFill,
           DrawBlock, DrawRect, DrawLine, DrawText, DrawCells, Drawing, Flush, FlushGreeting
  <2> QED BY <2>1, FlushPaints DEF PaintedBy
<1>2. [][PaintsItsCells]_vars <=> BuffersPaintTheirCells
  BY DEF BuffersPaintTheirCells
<1> HIDE DEF PaintsItsCells
<1> QED BY <1>1, <1>2, Invariant, PTL DEF Spec

\* For every code point there is: utf8_encode lays it out as RFC 3629 says, and utf8_decode
\* reads it back from these bytes, all of them and no others, whatever follows them.
THEOREM CodeReadBack ==
    ASSUME NEW c \in 0 .. LastCode, NEW rest \in Seq(Int)
    PROVE  /\ Encoded(c) = Layout(c)
           /\ Decoded(Encoded(c) \o rest) = [code |-> c, size |-> Len(Encoded(c))]
<1>1. c \in Nat /\ Fits(c)
  BY CodesFit, Zenon
<1>2. Encoded(c) = Layout(c)
  BY <1>1, LaidOut, Zenon
<1>3. Decoded(Encoded(c) \o rest) = [code |-> c, size |-> Len(Encoded(c))]
  BY <1>1, ReadBack, Zenon
<1> QED BY <1>2, <1>3

\* The same of what the run checks: every character there is, and every code point at which
\* the number of bytes changes, is sent as RFC 3629 says and read back as itself, whatever
\* follows it: CodePointsSurvive.
THEOREM CodesSurvive == Spec => []CodePointsSurvive
<1>1. CodePointsSurvive
  <2> SUFFICES ASSUME NEW c \in Chars \cup Corners
               PROVE  /\ Encoded(c) = Layout(c)
                      /\ \A rest \in {<<>>} \cup {Encoded(d) : d \in Corners} :
                            Decoded(Encoded(c) \o rest) = [code |-> c, size |-> Len(Encoded(c))]
    BY Zenon DEF CodePointsSurvive
  <2>1. c \in 0 .. LastCode
    <3>1. Chars \subseteq 0 .. LastCode
      <4>1. Chars \subseteq 1 .. LastCode
        BY CanvasAssumption
      <4> QED BY <4>1
    <3> QED BY <3>1, CornersAreCodes, Zenon
  <2>2. \A d \in Corners : Encoded(d) \in Seq(Int)
    BY CornersAreCodes, CodesFit, EncodedIsText, Zenon
  <2>3. <<>> \in Seq(Int)
    OBVIOUS
  <2>4. \A rest \in {<<>>} \cup {Encoded(d) : d \in Corners} : rest \in Seq(Int)
    BY <2>2, <2>3, Zenon
  <2>5. Encoded(c) = Layout(c)
    BY <2>1, <2>3, CodeReadBack, Zenon
  <2>6. \A rest \in {<<>>} \cup {Encoded(d) : d \in Corners} :
            Decoded(Encoded(c) \o rest) = [code |-> c, size |-> Len(Encoded(c))]
    BY <2>1, <2>4, CodeReadBack, Zenon
  <2> QED BY <2>5, <2>6
<1> QED BY <1>1, PTL

-----------------------------------------------------------------------------
(* Messages, and the packets that are made of them. *)

\* g joins the first n of the pieces e, one after the other.
Joins(g, e, n) ==
    /\ g[0] = <<>>
    /\ \A i \in 0 .. n : g[i] \in Seq(Byte)
    /\ \A i \in 1 .. n : e[i] \in Seq(Byte) /\ g[i] = g[i - 1] \o e[i]

\* r is a and then b.
Follow(r, a, b) ==
    /\ r \in Seq(Byte) /\ Len(r) = Len(a) + Len(b)
    /\ \A k \in 1 .. Len(r) : r[k] = IF k <= Len(a) THEN a[k] ELSE b[k - Len(a)]

\* Bytes behind bytes.
LEMMA BytesFollow == \A a, b \in Seq(Byte) : Follow(a \o b, a, b)
<1> SUFFICES ASSUME NEW a \in Seq(Byte), NEW b \in Seq(Byte) PROVE Follow(a \o b, a, b)
  OBVIOUS
<1> DEFINE r == a \o b
<1>1. r = a \o b
  OBVIOUS
<1> HIDE DEF r
<1> QED BY <1>1, Concatenated DEF Follow

\* Where piece j ends in the whole, and how long it is.
End(g, j)  == Len(g[j])
Span(e, j) == Len(e[j])

\* One piece more.
LEMMA PieceJoined ==
    ASSUME NEW n \in Nat, NEW g, NEW e, Joins(g, e, n)
    PROVE  \A j \in 1 .. n :
              /\ End(g, j - 1) \in Nat /\ Span(e, j) \in Nat /\ End(g, j) = End(g, j - 1) + Span(e, j)
              /\ \A p \in 1 .. End(g, j - 1) : g[j][p] = g[j - 1][p]
              /\ \A q \in 1 .. Span(e, j) : g[j][End(g, j - 1) + q] = e[j][q]
<1> SUFFICES ASSUME NEW j \in 1 .. n
             PROVE  /\ End(g, j - 1) \in Nat /\ Span(e, j) \in Nat /\ End(g, j) = End(g, j - 1) + Span(e, j)
                    /\ \A p \in 1 .. End(g, j - 1) : g[j][p] = g[j - 1][p]
                    /\ \A q \in 1 .. Span(e, j) : g[j][End(g, j - 1) + q] = e[j][q]
  OBVIOUS
<1> DEFINE a == g[j - 1]  b == e[j]  r == g[j]
<1>1. j - 1 \in 0 .. n
  OBVIOUS
<1>2. a \in Seq(Byte) /\ b \in Seq(Byte) /\ r = a \o b
  BY <1>1 DEF Joins
<1> HIDE DEF a, b, r
<1>3. /\ Len(r) = Len(a) + Len(b)
      /\ \A k \in 1 .. Len(r) : r[k] = IF k <= Len(a) THEN a[k] ELSE b[k - Len(a)]
  BY <1>2, Concatenated
<1>4. Len(a) \in Nat /\ Len(b) \in Nat
  BY <1>2
<1>5. \A p \in 1 .. Len(a) : r[p] = a[p]
  BY <1>3, <1>4
<1>6. ASSUME NEW q \in 1 .. Len(b) PROVE r[Len(a) + q] = b[q]
  <2>1. Len(a) + q \in 1 .. Len(r) /\ ~(Len(a) + q <= Len(a)) /\ Len(a) + q - Len(a) = q
    BY <1>3, <1>4
  <2> QED BY <1>3, <2>1
<1> QED BY <1>3, <1>4, <1>5, <1>6 DEF a, b, r, End, Span

\* The ends are numbers.
LEMMA EndsType ==
    ASSUME NEW n \in Nat, NEW g, NEW e, Joins(g, e, n)
    PROVE  /\ \A i \in 0 .. n : End(g, i) \in Nat
           /\ End(g, 0) = 0
BY DEF Joins, End

\* What is joined already stays where it is.
LEMMA PiecesStay ==
    ASSUME NEW n \in Nat, NEW g, NEW e, Joins(g, e, n), NEW j \in 0 .. n
    PROVE  \A m \in j .. n : /\ End(g, j) <= End(g, m)
                             /\ \A p \in 1 .. End(g, j) : g[m][p] = g[j][p]
<1> DEFINE Stay(m) == End(g, j) <= End(g, m) /\ \A p \in 1 .. End(g, j) : g[m][p] = g[j][p]
           S == {m \in j .. n : Stay(m)}
<1>1. \A i \in 0 .. n : End(g, i) \in Nat
  BY EndsType
<1>2. j \in S
  BY <1>1
<1>3. ASSUME NEW m \in j + 1 .. n, m - 1 \in S PROVE m \in S
  <2>1. m \in 1 .. n /\ m - 1 \in 0 .. n /\ Stay(m - 1) /\ m \in j .. n
    BY <1>3
  <2>2. /\ Span(e, m) \in Nat /\ End(g, m) = End(g, m - 1) + Span(e, m)
        /\ \A p \in 1 .. End(g, m - 1) : g[m][p] = g[m - 1][p]
    BY <2>1, PieceJoined
  <2>3. End(g, j) \in Nat /\ End(g, m - 1) \in Nat
    BY <1>1, <2>1
  <2>4. Stay(m)
    BY <2>1, <2>2, <2>3
  <2> QED BY <2>1, <2>4
<1>4. j \in Int /\ n \in Int
  OBVIOUS
<1> HIDE DEF S
<1>5. \A m \in j .. n : m \in S
  BY <1>2, <1>3, <1>4, IntervalInduction, Zenon
<1> QED BY <1>5 DEF S

\* Where a piece lies in the whole.
LEMMA PiecesLie ==
    ASSUME NEW n \in Nat, NEW g, NEW e, Joins(g, e, n)
    PROVE  \A j \in 1 .. n :
              /\ End(g, j - 1) \in Nat /\ Span(e, j) \in Nat
              /\ End(g, j) = End(g, j - 1) + Span(e, j) /\ End(g, j) <= End(g, n)
              /\ \A q \in 1 .. Span(e, j) : g[n][End(g, j - 1) + q] = e[j][q]
<1> SUFFICES ASSUME NEW j \in 1 .. n
             PROVE  /\ End(g, j - 1) \in Nat /\ Span(e, j) \in Nat
                    /\ End(g, j) = End(g, j - 1) + Span(e, j) /\ End(g, j) <= End(g, n)
                    /\ \A q \in 1 .. Span(e, j) : g[n][End(g, j - 1) + q] = e[j][q]
  OBVIOUS
<1>1. /\ End(g, j - 1) \in Nat /\ Span(e, j) \in Nat /\ End(g, j) = End(g, j - 1) + Span(e, j)
      /\ \A q \in 1 .. Span(e, j) : g[j][End(g, j - 1) + q] = e[j][q]
  BY PieceJoined
<1>2. /\ End(g, j) <= End(g, n)
      /\ \A p \in 1 .. End(g, j) : g[n][p] = g[j][p]
  <2>1. j \in 0 .. n /\ n \in j .. n
    OBVIOUS
  <2> QED BY <2>1, PiecesStay
<1>3. ASSUME NEW q \in 1 .. Span(e, j) PROVE g[n][End(g, j - 1) + q] = e[j][q]
  <2>1. End(g, j - 1) + q \in 1 .. End(g, j)
    BY <1>1
  <2> QED BY <1>1, <1>2, <2>1
<1> QED BY <1>1, <1>2, <1>3

\* Every byte of the whole is one of a piece.
LEMMA PiecesCover ==
    ASSUME NEW n \in Nat, NEW g, NEW e, Joins(g, e, n)
    PROVE  \A p \in 1 .. End(g, n) : \E j \in 1 .. n : \E q \in 1 .. Span(e, j) : p = End(g, j - 1) + q
<1> DEFINE In(p) == \E j \in 1 .. n : \E q \in 1 .. Span(e, j) : p = End(g, j - 1) + q
           S == {m \in 0 .. n : \A p \in 1 .. End(g, m) : In(p)}
<1>1. 0 \in S
  BY EndsType
<1>2. ASSUME NEW m \in 0 + 1 .. n, m - 1 \in S PROVE m \in S
  <2>1. m \in 1 .. n /\ m \in 0 .. n /\ \A p \in 1 .. End(g, m - 1) : In(p)
    BY <1>2
  <2>2. End(g, m - 1) \in Nat /\ Span(e, m) \in Nat /\ End(g, m) = End(g, m - 1) + Span(e, m)
    BY <2>1, PieceJoined
  <2>3. ASSUME NEW p \in 1 .. End(g, m) PROVE In(p)
    <3>1. CASE p <= End(g, m - 1)
      <4>1. p \in 1 .. End(g, m - 1)
        BY <2>2, <3>1
      <4> HIDE DEF In
      <4> QED BY <2>1, <4>1
    <3>2. CASE ~(p <= End(g, m - 1))
      <4>1. p - End(g, m - 1) \in 1 .. Span(e, m) /\ p = End(g, m - 1) + (p - End(g, m - 1))
        BY <2>2, <3>2
      <4> QED BY <2>1, <4>1
    <3> QED BY <3>1, <3>2
  <2> HIDE DEF In
  <2> QED BY <2>1, <2>3
<1>3. 0 \in Int /\ n \in Int /\ n \in 0 .. n
  OBVIOUS
<1> HIDE DEF S, In
<1>4. \A m \in 0 .. n : m \in S
  BY <1>1, <1>2, <1>3, IntervalInduction, Zenon
<1>5. n \in S
  BY <1>3, <1>4
<1> QED BY <1>5 DEF S, In

\* A packet joins the messages that are there as a whole, and the beginning of the next.
LEMMA PacketJoins ==
    ASSUME wire \in Seq(Packets), NEW last \in 0 .. Len(wire), NEW part \in Seq(Byte)
    PROVE  \E g : /\ Joins(g, [i \in 1 .. last + 1 |-> IF i <= last THEN wire[i].bytes ELSE part], last + 1)
                  /\ g[last] = Joined(last) /\ g[last + 1] = Joined(last) \o part
<1> DEFINE W == [n \in 0 .. last |-> Seq(Byte)]
           F == [n \in 0 .. last |-> [b \in Seq(Byte) |-> b \o wire[n].bytes]]
           Eq(g) == g = [n \in 0 .. last |-> IF n = 0 THEN <<>> ELSE g[n - 1] \o wire[n].bytes]
           upTo == CHOOSE g : Eq(g)
           e == [i \in 1 .. last + 1 |-> IF i <= last THEN wire[i].bytes ELSE part]
           h == [i \in 0 .. last + 1 |-> IF i <= last THEN upTo[i] ELSE upTo[last] \o part]
<1>1. last \in Nat
  OBVIOUS
<1>2. \A n \in 1 .. last : wire[n].bytes \in Seq(Byte)
  <2>1. \A n \in 1 .. last : wire[n] \in Packets
    OBVIOUS
  <2> QED BY <2>1, PacketsHaveBytes
<1>3. \A n \in 1 .. last : \A b \in Seq(Byte) : b \o wire[n].bytes \in Seq(Byte)
  BY <1>2, ConcatProperties
<1>4. Joined(last) = upTo[last]
  BY DEF Joined
<1>5. PICK g : Eq(g)
  <2>1. \A i \in 0 + 1 .. last : \A b \in W[i - 1] : F[i][b] \in W[i]
    <3> SUFFICES ASSUME NEW i \in 0 + 1 .. last, NEW b \in W[i - 1] PROVE F[i][b] \in W[i]
      OBVIOUS
    <3>1. i \in 0 .. last /\ i - 1 \in 0 .. last /\ i \in 1 .. last
      BY <1>1
    <3>2. b \in Seq(Byte)
      BY <3>1
    <3>3. F[i][b] = b \o wire[i].bytes /\ W[i] = Seq(Byte)
      BY <3>1, <3>2
    <3> QED BY <1>3, <3>1, <3>2, <3>3
  <2>2. 0 \in Int /\ last \in Int /\ 0 <= last
    BY <1>1
  <2>7. <<>> \in W[0]
    BY <1>1
  <2> HIDE DEF W, F
  <2>3. PICK g : Recurses(g, 0, last, <<>>, F, W)
    BY <2>1, <2>2, <2>7, RecursionExists, Zenon
  <2>4. /\ g = [i \in 0 .. last |-> IF i = 0 THEN <<>> ELSE F[i][g[i - 1]]]
        /\ \A i \in 0 .. last : g[i] \in W[i]
    BY <2>3 DEF Recurses
  <2>5. ASSUME NEW i \in 0 .. last, i # 0 PROVE F[i][g[i - 1]] = g[i - 1] \o wire[i].bytes
    <3>1. g[i - 1] \in Seq(Byte)
      BY <1>1, <2>4, <2>5 DEF W
    <3> QED BY <3>1 DEF F
  <2>6. Eq(g)
    BY <2>4, <2>5
  <2> QED BY <2>6
<1>6. Eq(upTo)
  <2> HIDE DEF Eq
  <2> QED BY <1>5
<1> HIDE DEF upTo
<1>7. upTo[0] = <<>> /\ \A n \in 1 .. last : upTo[n] = upTo[n - 1] \o wire[n].bytes
  BY <1>1, <1>6
<1>8. \A n \in 0 .. last : upTo[n] \in Seq(Byte)
  <2> DEFINE S == {n \in 0 .. last : upTo[n] \in Seq(Byte)}
  <2>1. 0 \in S
    <3>1. <<>> \in Seq(Byte) /\ 0 \in 0 .. last
      BY <1>1
    <3> QED BY <1>7, <3>1
  <2>2. ASSUME NEW n \in 0 + 1 .. last, n - 1 \in S PROVE n \in S
    <3>1. n \in 1 .. last /\ n \in 0 .. last /\ upTo[n - 1] \in Seq(Byte)
      BY <1>1, <2>2
    <3>2. upTo[n - 1] \o wire[n].bytes \in Seq(Byte)
      BY <1>3, <3>1
    <3>3. upTo[n] = upTo[n - 1] \o wire[n].bytes
      BY <1>7, <3>1
    <3> QED BY <3>1, <3>2, <3>3
  <2>3. 0 \in Int /\ last \in Int
    BY <1>1
  <2> HIDE DEF S
  <2>4. \A n \in 0 .. last : n \in S
    BY <2>1, <2>2, <2>3, IntervalInduction, Zenon
  <2> QED BY <2>4 DEF S
<1>9. upTo[last] \in Seq(Byte) /\ upTo[last] \o part \in Seq(Byte)
  BY <1>1, <1>8, ConcatProperties
<1>10. h[0] = <<>> /\ h[last] = upTo[last] /\ h[last + 1] = upTo[last] \o part
  BY <1>1, <1>7
<1>11. \A i \in 0 .. last + 1 : h[i] \in Seq(Byte)
  BY <1>1, <1>8, <1>9
<1>12. ASSUME NEW i \in 1 .. last + 1 PROVE e[i] \in Seq(Byte) /\ h[i] = h[i - 1] \o e[i]
  <2>1. CASE i <= last
    <3>1. i \in 1 .. last /\ i \in 0 .. last + 1 /\ i - 1 \in 0 .. last + 1 /\ i - 1 <= last
      BY <1>1, <2>1
    <3>2. e[i] = wire[i].bytes /\ h[i] = upTo[i] /\ h[i - 1] = upTo[i - 1]
      BY <2>1, <3>1
    <3> QED BY <1>2, <1>7, <3>1, <3>2
  <2>2. CASE ~(i <= last)
    <3>1. i = last + 1 /\ i - 1 = last
      BY <1>1, <2>2
    <3>2. e[i] = part
      BY <2>2
    <3> QED BY <1>10, <3>1, <3>2
  <2> QED BY <2>1, <2>2
<1> HIDE DEF h, e
<1>13. Joins(h, e, last + 1)
  BY <1>10, <1>11, <1>12 DEF Joins
<1> QED BY <1>4, <1>10, <1>13 DEF e

\* The bytes that say how large a window is: a high one, and a low one that is doubled.
High(n) == n \div 256
Low(n)  == n % 256
Wide(n) == IF Low(n) = IAC THEN 3 ELSE 2

\* A size is sent high byte first.
LEMMA SixteenBytes ==
    ASSUME NEW n \in Extent
    PROVE  /\ High(n) \in 0 .. 127 /\ Low(n) \in Byte /\ n = 256 * High(n) + Low(n)
           /\ Wide(n) \in {2, 3}
           /\ Sixteen(n) \in Seq(Byte) /\ Len(Sixteen(n)) = Wide(n)
           /\ Sixteen(n)[1] = High(n) /\ Sixteen(n)[2] = Low(n)
           /\ Wide(n) = 3 => Low(n) = IAC /\ Sixteen(n)[3] = IAC
           /\ Wide(n) = 2 => Low(n) # IAC
           /\ High(n) # IAC /\ High(n) # SB
<1>1. \A i \in 0 .. 127 : i # IAC /\ i # SB
  BY DEF IAC, SB
<1>2. High(n) \in 0 .. 127 /\ Low(n) \in Byte /\ n = 256 * High(n) + Low(n)
  <2>1. n \in Nat /\ n <= 32767
    BY DEF Extent
  <2>2. n % 256 \in 0 .. 255 /\ n = 256 * (n \div 256) + (n % 256) /\ n \div 256 \in Int
    BY <2>1
  <2>3. n \div 256 \in 0 .. 127
    BY <2>1, <2>2
  <2> QED BY <2>2, <2>3 DEF High, Low, Byte
<1>3. High(n) # IAC /\ High(n) # SB
  BY <1>1, <1>2
<1>4. Sixteen(n) = <<High(n)>> \o Doubled(Low(n))
  BY DEF Sixteen, High, Low
<1>5. IAC \in Byte
  BY DEF IAC, Byte
<1>6. \A i \in 0 .. 127 : i \in Byte
  BY DEF Byte
<1>7. CASE Low(n) = IAC
  <2> DEFINE a == <<High(n)>>  b == <<IAC, IAC>>
  <2>1. a \in Seq(Byte) /\ b \in Seq(Byte) /\ Len(a) = 1 /\ Len(b) = 2
    BY <1>2, <1>5, <1>6
  <2>2. a[1] = High(n) /\ b[1] = IAC /\ b[2] = IAC
    OBVIOUS
  <2>3. Sixteen(n) = a \o b
    BY <1>4, <1>7 DEF Doubled
  <2> HIDE DEF a, b
  <2>4. /\ Sixteen(n) \in Seq(Byte) /\ Len(Sixteen(n)) = Len(a) + Len(b)
        /\ \A k \in 1 .. Len(Sixteen(n)) : Sixteen(n)[k] = IF k <= Len(a) THEN a[k] ELSE b[k - Len(a)]
    BY <2>1, <2>3, BytesFollow DEF Follow
  <2>5. Sixteen(n)[1] = a[1] /\ Sixteen(n)[2] = b[1] /\ Len(Sixteen(n)) = 3
    BY <2>1, <2>4
  <2>6. Sixteen(n)[3] = b[2]
    BY <2>1, <2>4
  <2>7. Wide(n) = 3 /\ Sixteen(n) \in Seq(Byte)
    BY <1>7, <2>4 DEF Wide
  <2> QED BY <1>2, <1>7, <1>3, <2>2, <2>5, <2>6, <2>7
<1>8. CASE Low(n) # IAC
  <2> DEFINE a == <<High(n)>>  b == <<Low(n)>>
  <2>1. a \in Seq(Byte) /\ b \in Seq(Byte) /\ Len(a) = 1 /\ Len(b) = 1
    BY <1>2, <1>6
  <2>2. a[1] = High(n) /\ b[1] = Low(n)
    OBVIOUS
  <2>3. Sixteen(n) = a \o b
    BY <1>4, <1>8 DEF Doubled
  <2> HIDE DEF a, b
  <2>4. /\ Sixteen(n) \in Seq(Byte) /\ Len(Sixteen(n)) = Len(a) + Len(b)
        /\ \A k \in 1 .. Len(Sixteen(n)) : Sixteen(n)[k] = IF k <= Len(a) THEN a[k] ELSE b[k - Len(a)]
    BY <2>1, <2>3, BytesFollow, SMTT(30) DEF Follow
  <2>5. Sixteen(n)[1] = a[1] /\ Sixteen(n)[2] = b[1] /\ Len(Sixteen(n)) = 2
    BY <2>1, <2>4
  <2>7. Wide(n) = 2 /\ Sixteen(n) \in Seq(Byte)
    BY <1>8, <2>4 DEF Wide
  <2> QED BY <1>2, <1>8, <1>3, <2>2, <2>5, <2>7
<1> QED BY <1>7, <1>8

\* s tells the size of a window.
SizeParts(s, w, h) ==
    /\ s \in Seq(Byte) /\ Len(s) = 5 + Wide(w) + Wide(h)
    /\ s[1] = IAC /\ s[2] = SB /\ s[3] = NAWS
    /\ \A q \in 1 .. Wide(w) : s[3 + q] = Sixteen(w)[q]
    /\ \A q \in 1 .. Wide(h) : s[3 + Wide(w) + q] = Sixteen(h)[q]
    /\ s[4 + Wide(w) + Wide(h)] = IAC /\ s[5 + Wide(w) + Wide(h)] = SE

\* So does the message.
LEMMA SizeBytes ==
    ASSUME NEW w \in Extent, NEW h \in Extent
    PROVE  SizeParts(NewSize(w, h).bytes, w, h)
<1> DEFINE s == NewSize(w, h).bytes
           a == <<IAC, SB, NAWS>>
           z == <<IAC, SE>>
           u == Sixteen(w)
           v == Sixteen(h)
           au == a \o u
           auv == au \o v
<1>1. s = auv \o z
  BY DEF NewSize
<1>2. a \in Seq(Byte) /\ z \in Seq(Byte) /\ Len(a) = 3 /\ Len(z) = 2
  BY DEF IAC, SB, NAWS, SE, Byte
<1>3. a[1] = IAC /\ a[2] = SB /\ a[3] = NAWS /\ z[1] = IAC /\ z[2] = SE
  OBVIOUS
<1>4. /\ u \in Seq(Byte) /\ v \in Seq(Byte) /\ Len(u) = Wide(w) /\ Len(v) = Wide(h)
      /\ Wide(w) \in {2, 3} /\ Wide(h) \in {2, 3}
  BY SixteenBytes
<1> HIDE DEF s, a, z, u, v, au, auv
<1>5. /\ au \in Seq(Byte) /\ Len(au) = 3 + Wide(w)
      /\ \A k \in 1 .. 3 + Wide(w) : au[k] = IF k <= 3 THEN a[k] ELSE u[k - 3]
  <2>1. /\ au \in Seq(Byte) /\ Len(au) = Len(a) + Len(u)
        /\ \A k \in 1 .. Len(au) : au[k] = IF k <= Len(a) THEN a[k] ELSE u[k - Len(a)]
    <3>1. au = a \o u
      BY DEF au
    <3> QED BY <1>2, <1>4, <3>1, BytesFollow DEF Follow
  <2> QED BY <1>2, <1>4, <2>1
<1>6. /\ auv \in Seq(Byte) /\ Len(auv) = 3 + Wide(w) + Wide(h)
      /\ \A k \in 1 .. 3 + Wide(w) + Wide(h) :
            auv[k] = IF k <= 3 + Wide(w) THEN au[k] ELSE v[k - (3 + Wide(w))]
  <2>1. /\ auv \in Seq(Byte) /\ Len(auv) = Len(au) + Len(v)
        /\ \A k \in 1 .. Len(auv) : auv[k] = IF k <= Len(au) THEN au[k] ELSE v[k - Len(au)]
    <3>1. auv = au \o v
      BY DEF auv
    <3> QED BY <1>4, <1>5, <3>1, BytesFollow DEF Follow
  <2> QED BY <1>4, <1>5, <2>1
<1>7. /\ s \in Seq(Byte) /\ Len(s) = 5 + Wide(w) + Wide(h)
      /\ \A k \in 1 .. 5 + Wide(w) + Wide(h) :
            s[k] = IF k <= 3 + Wide(w) + Wide(h) THEN auv[k] ELSE z[k - (3 + Wide(w) + Wide(h))]
  <2>1. /\ s \in Seq(Byte) /\ Len(s) = Len(auv) + Len(z)
        /\ \A k \in 1 .. Len(s) : s[k] = IF k <= Len(auv) THEN auv[k] ELSE z[k - Len(auv)]
    <3>1. Follow(auv \o z, auv, z)
      BY <1>2, <1>6, BytesFollow
    <3>2. Follow(s, auv, z)
      BY <1>1, <3>1
    <3> QED BY <3>2 DEF Follow
  <2> QED BY <1>2, <1>4, <1>6, <2>1
<1>8. s[1] = IAC /\ s[2] = SB /\ s[3] = NAWS
  <2>1. \A k \in 1 .. 3 : k \in 1 .. 3 + Wide(w) /\ k \in 1 .. 3 + Wide(w) + Wide(h)
                          /\ k \in 1 .. 5 + Wide(w) + Wide(h)
                          /\ k <= 3 + Wide(w) /\ k <= 3 + Wide(w) + Wide(h)
    BY <1>4
  <2>2. \A k \in 1 .. 3 : s[k] = a[k]
    BY <1>5, <1>6, <1>7, <2>1
  <2> QED BY <1>3, <2>2
<1>9. ASSUME NEW q \in 1 .. Wide(w) PROVE s[3 + q] = u[q]
  <2>1. /\ 3 + q \in 1 .. 3 + Wide(w) /\ 3 + q \in 1 .. 3 + Wide(w) + Wide(h)
        /\ 3 + q \in 1 .. 5 + Wide(w) + Wide(h)
        /\ 3 + q <= 3 + Wide(w) /\ 3 + q <= 3 + Wide(w) + Wide(h) /\ ~(3 + q <= 3) /\ 3 + q - 3 = q
    BY <1>4
  <2>2. s[3 + q] = auv[3 + q] /\ auv[3 + q] = au[3 + q] /\ au[3 + q] = u[3 + q - 3]
    BY <1>5, <1>6, <1>7, <2>1
  <2> QED BY <2>1, <2>2
<1>10. ASSUME NEW q \in 1 .. Wide(h) PROVE s[3 + Wide(w) + q] = v[q]
  <2> DEFINE k == 3 + Wide(w) + q
  <2>1. /\ k \in 1 .. 3 + Wide(w) + Wide(h) /\ k \in 1 .. 5 + Wide(w) + Wide(h)
        /\ ~(k <= 3 + Wide(w)) /\ k <= 3 + Wide(w) + Wide(h) /\ k - (3 + Wide(w)) = q
    BY <1>4
  <2> HIDE DEF k
  <2>2. s[k] = auv[k] /\ auv[k] = v[k - (3 + Wide(w))]
    BY <1>6, <1>7, <2>1, Zenon
  <2> QED BY <2>1, <2>2 DEF k
<1>11. s[4 + Wide(w) + Wide(h)] = IAC /\ s[5 + Wide(w) + Wide(h)] = SE
  <2> DEFINE m == 3 + Wide(w) + Wide(h)
  <2>1. /\ m \in Nat /\ 4 + Wide(w) + Wide(h) = m + 1 /\ 5 + Wide(w) + Wide(h) = m + 2
    BY <1>4
  <2>2. \A k \in 1 .. m + 2 : s[k] = IF k <= m THEN auv[k] ELSE z[k - m]
    BY <1>7, <2>1
  <2> HIDE DEF m
  <2>3. s[m + 1] = z[1] /\ s[m + 2] = z[2]
    BY <2>1, <2>2
  <2> QED BY <1>3, <2>1, <2>3
<1> QED BY <1>7, <1>8, <1>9, <1>10, <1>11 DEF SizeParts, s, u, v

\* From p on b is s, as far as it goes.
StandsAt(b, p, s) == \A q \in 1 .. Len(s) : p + q - 1 <= Len(b) => b[p + q - 1] = s[q]

\* A number is read as it was sent, if it is all there.
LEMMA Parsed16Reads ==
    ASSUME NEW b \in Seq(Byte), NEW i \in Nat \ {0}, NEW n \in Extent, StandsAt(b, i, Sixteen(n))
    PROVE  /\ Parsed16(b, i).ok <=> i + Wide(n) - 1 <= Len(b)
           /\ Parsed16(b, i).ok => Parsed16(b, i).value = n /\ Parsed16(b, i).next = i + Wide(n)
<1> DEFINE hi == ValueAt(b, i, 3)
           lo == ValueAt(b, hi + 1, 2)
           last == Len(b)
<1>1. last \in Nat
  OBVIOUS
<1>2. /\ High(n) \in 0 .. 127 /\ Low(n) \in Byte /\ n = 256 * High(n) + Low(n) /\ Wide(n) \in {2, 3}
      /\ Wide(n) = 3 => Low(n) = IAC
      /\ Wide(n) = 2 => Low(n) # IAC
  BY SixteenBytes
<1>3. /\ i <= last => b[i] = High(n)
      /\ i + 1 <= last => b[i + 1] = Low(n)
      /\ Wide(n) = 3 /\ i + 2 <= last => b[i + 2] = IAC
  <2>1. \A q \in 1 .. Wide(n) : i + q - 1 <= last => b[i + q - 1] = Sixteen(n)[q]
    BY SixteenBytes DEF StandsAt
  <2>2. Sixteen(n)[1] = High(n) /\ Sixteen(n)[2] = Low(n) /\ (Wide(n) = 3 => Sixteen(n)[3] = IAC)
    BY SixteenBytes
  <2>3. i + 1 - 1 = i /\ i + 2 - 1 = i + 1 /\ i + 3 - 1 = i + 2
    OBVIOUS
  <2> HIDE DEF last
  <2> QED BY <1>2, <2>1, <2>2, <2>3
<1>4. \A k : Rest(b, k) = last - k + 1
  BY DEF Rest
<1>5. Parsed16(b, i) = IF Rest(b, i) < 2 \/ hi = 0 \/ lo = 0 THEN [ok |-> FALSE, value |-> 0, next |-> i]
                       ELSE [ok |-> TRUE, value |-> 256 * b[hi] + b[lo], next |-> lo + 1]
  BY DEF Parsed16
<1> HIDE DEF last
<1>6. CASE i + 1 > last
  <2>1. Rest(b, i) < 2 /\ ~(i + Wide(n) - 1 <= last)
    BY <1>1, <1>2, <1>4, <1>6
  <2>2. ~Parsed16(b, i).ok
    BY <1>5, <2>1
  <2> QED BY <2>1, <2>2 DEF last
<1>7. CASE i + 1 <= last
  <2>1. hi = i
    <3>1. i <= last
      BY <1>1, <1>7
    <3>3. High(n) # IAC
      BY SixteenBytes
    <3>2. b[i] # IAC
      BY <1>3, <3>1, <3>3
    <3> QED BY <3>2 DEF ValueAt
  <2>2. lo = IF Low(n) # IAC THEN i + 1 ELSE IF i + 2 <= last THEN i + 2 ELSE 0
    <3>1. lo = ValueAt(b, i + 1, 2)
      BY <2>1
    <3>2. b[i + 1] = Low(n)
      BY <1>3, <1>7
    <3>3. i + 1 + 1 = i + 2 /\ (Rest(b, i + 1) >= 2 <=> i + 2 <= last)
      BY <1>1, <1>4
    <3> QED BY <1>2, <1>3, <3>1, <3>2, <3>3 DEF ValueAt
  <2>3. ~(Rest(b, i) < 2) /\ hi # 0 /\ b[hi] = High(n)
    BY <1>1, <1>3, <1>4, <1>7, <2>1
  <2> HIDE DEF hi, lo
  <2>4. CASE lo = 0
    <3>1. ~(i + Wide(n) - 1 <= last)
      BY <1>1, <1>2, <1>7, <2>2, <2>4
    <3>2. ~Parsed16(b, i).ok
      BY <1>5, <2>4
    <3> QED BY <3>1, <3>2 DEF last
  <2>5. CASE lo # 0
    <3>1. Parsed16(b, i) = [ok |-> TRUE, value |-> 256 * b[hi] + b[lo], next |-> lo + 1]
      BY <1>5, <2>3, <2>5
    <3>2. lo + 1 = i + Wide(n) /\ i + Wide(n) - 1 <= last /\ b[lo] = Low(n)
      BY <1>1, <1>2, <1>3, <1>7, <2>2, <2>5
    <3>3. Parsed16(b, i).ok /\ Parsed16(b, i).value = n /\ Parsed16(b, i).next = i + Wide(n)
      BY <1>2, <2>3, <3>1, <3>2
    <3> QED BY <3>2, <3>3 DEF last
  <2> QED BY <2>4, <2>5
<1> QED BY <1>1, <1>6, <1>7

\* A size that is announced is read as it was sent, if it is all there.
LEMMA SizeReads ==
    ASSUME NEW b \in Seq(Byte), NEW p \in Nat \ {0}, NEW w \in Extent, NEW h \in Extent,
           StandsAt(b, p, NewSize(w, h).bytes)
    PROVE  /\ ColsAt(b, p).ok /\ RowsAt(b, p).ok <=> p + 2 + Wide(w) + Wide(h) <= Len(b)
           /\ ColsAt(b, p).ok /\ RowsAt(b, p).ok =>
                 /\ ColsAt(b, p).value = w /\ RowsAt(b, p).value = h
                 /\ RowsAt(b, p).next = p + 3 + Wide(w) + Wide(h)
<1> DEFINE s == NewSize(w, h).bytes
           last == Len(b)
<1>1. last \in Nat /\ Wide(w) \in {2, 3} /\ Wide(h) \in {2, 3}
  BY SixteenBytes
<1>2. /\ Len(s) = 5 + Wide(w) + Wide(h)
      /\ \A q \in 1 .. Wide(w) : s[3 + q] = Sixteen(w)[q]
      /\ \A q \in 1 .. Wide(h) : s[3 + Wide(w) + q] = Sixteen(h)[q]
  BY SizeBytes DEF SizeParts
<1>3. \A q \in 1 .. 5 + Wide(w) + Wide(h) : p + q - 1 <= last => b[p + q - 1] = s[q]
  BY <1>2 DEF StandsAt
<1> HIDE DEF s, last
<1>4. StandsAt(b, p + 3, Sixteen(w))
  <2>1. ASSUME NEW q \in 1 .. Wide(w), p + 3 + q - 1 <= last PROVE b[p + 3 + q - 1] = Sixteen(w)[q]
    <3>1. 3 + q \in 1 .. 5 + Wide(w) + Wide(h) /\ p + (3 + q) - 1 = p + 3 + q - 1
      BY <1>1
    <3> QED BY <1>2, <1>3, <2>1, <3>1
  <2>2. Len(Sixteen(w)) = Wide(w)
    BY SixteenBytes
  <2> QED BY <2>1, <2>2 DEF StandsAt, last
<1>5. StandsAt(b, p + 3 + Wide(w), Sixteen(h))
  <2>1. ASSUME NEW q \in 1 .. Wide(h), p + 3 + Wide(w) + q - 1 <= last
        PROVE  b[p + 3 + Wide(w) + q - 1] = Sixteen(h)[q]
    <3>1. 3 + Wide(w) + q \in 1 .. 5 + Wide(w) + Wide(h)
          /\ p + (3 + Wide(w) + q) - 1 = p + 3 + Wide(w) + q - 1
      BY <1>1
    <3> QED BY <1>2, <1>3, <2>1, <3>1
  <2>2. Len(Sixteen(h)) = Wide(h)
    BY SixteenBytes
  <2> QED BY <2>1, <2>2 DEF StandsAt, last
<1>6. p + 3 \in Nat \ {0} /\ p + 3 + Wide(w) \in Nat \ {0}
  BY <1>1
<1>7. /\ ColsAt(b, p).ok <=> p + 3 + Wide(w) - 1 <= last
      /\ ColsAt(b, p).ok => ColsAt(b, p).value = w /\ ColsAt(b, p).next = p + 3 + Wide(w)
  BY <1>4, <1>6, Parsed16Reads DEF ColsAt, last
<1>8. ASSUME ColsAt(b, p).ok
      PROVE  /\ RowsAt(b, p).ok <=> p + 3 + Wide(w) + Wide(h) - 1 <= last
             /\ RowsAt(b, p).ok => RowsAt(b, p).value = h
                                   /\ RowsAt(b, p).next = p + 3 + Wide(w) + Wide(h)
  <2>1. RowsAt(b, p) = Parsed16(b, p + 3 + Wide(w))
    BY <1>7, <1>8 DEF RowsAt
  <2> QED BY <1>5, <1>6, <2>1, Parsed16Reads DEF last
<1>9. p + 2 + Wide(w) + Wide(h) <= last => p + 3 + Wide(w) - 1 <= last
  BY <1>1
<1>10. p + 2 + Wide(w) + Wide(h) = p + 3 + Wide(w) + Wide(h) - 1
  BY <1>1
<1> QED BY <1>7, <1>8, <1>9, <1>10 DEF last

\* The same, place by place.
LEMMA SizeLayout ==
    ASSUME NEW w \in Extent, NEW h \in Extent, NEW s, SizeParts(s, w, h)
    PROVE  /\ s[4] = High(w) /\ s[5] = Low(w) /\ (Wide(w) = 3 => s[6] = IAC)
           /\ s[4 + Wide(w)] = High(h) /\ s[5 + Wide(w)] = Low(h) /\ (Wide(h) = 3 => s[6 + Wide(w)] = IAC)
<1>1. /\ \A q \in 1 .. Wide(w) : s[3 + q] = Sixteen(w)[q]
      /\ \A q \in 1 .. Wide(h) : s[3 + Wide(w) + q] = Sixteen(h)[q]
  BY DEF SizeParts
<1>2. \A n \in {w, h} : /\ Wide(n) \in {2, 3}
                        /\ Sixteen(n)[1] = High(n) /\ Sixteen(n)[2] = Low(n)
                        /\ Wide(n) = 3 => Sixteen(n)[3] = IAC
  BY SixteenBytes
<1>3. /\ 1 \in 1 .. Wide(w) /\ 2 \in 1 .. Wide(w) /\ (Wide(w) = 3 => 3 \in 1 .. Wide(w))
      /\ 1 \in 1 .. Wide(h) /\ 2 \in 1 .. Wide(h) /\ (Wide(h) = 3 => 3 \in 1 .. Wide(h))
  BY <1>2
<1>4. /\ 3 + 1 = 4 /\ 3 + 2 = 5 /\ 3 + 3 = 6
      /\ 3 + Wide(w) + 1 = 4 + Wide(w) /\ 3 + Wide(w) + 2 = 5 + Wide(w) /\ 3 + Wide(w) + 3 = 6 + Wide(w)
  BY <1>2
<1>5. s[3 + 1] = High(w) /\ s[3 + 2] = Low(w) /\ (Wide(w) = 3 => s[3 + 3] = IAC)
  BY <1>1, <1>2, <1>3
<1>6. /\ s[3 + Wide(w) + 1] = High(h) /\ s[3 + Wide(w) + 2] = Low(h)
      /\ (Wide(h) = 3 => s[3 + Wide(w) + 3] = IAC)
  BY <1>1, <1>2, <1>3
<1> QED BY <1>4, <1>5, <1>6

\* No IAC is left alone: something stands behind it, and this is SB only where a window is
\* announced.
Announces(m) == \E w, h \in Extent : m = NewSize(w, h)
Alone(s) == \A q \in 1 .. Len(s) : s[q] = IAC => q < Len(s) /\ (s[q + 1] = SB => q = 1)

\* The message of a size announces it once.
LEMMA SizeAlone ==
    ASSUME NEW w \in Extent, NEW h \in Extent
    PROVE  Alone(NewSize(w, h).bytes)
<1> DEFINE s == NewSize(w, h).bytes
           a == Wide(w)
           c == Wide(h)
<1>1. /\ Len(s) = 5 + a + c
      /\ s[1] = IAC /\ s[2] = SB /\ s[3] = NAWS /\ s[4 + a + c] = IAC /\ s[5 + a + c] = SE
  BY SizeBytes DEF SizeParts
<1>2. /\ s[4] = High(w) /\ s[5] = Low(w) /\ (a = 3 => s[6] = IAC)
      /\ s[4 + a] = High(h) /\ s[5 + a] = Low(h) /\ (c = 3 => s[6 + a] = IAC)
  BY SizeBytes, SizeLayout
<1>3. /\ a \in {2, 3} /\ c \in {2, 3}
      /\ High(w) # IAC /\ High(w) # SB /\ High(h) # IAC /\ High(h) # SB
      /\ (a = 2 => Low(w) # IAC) /\ (c = 2 => Low(h) # IAC)
  BY SixteenBytes
<1>4. IAC # SB /\ IAC # NAWS /\ IAC # SE /\ SE # SB /\ NAWS # SB
  BY DEF IAC, SB, NAWS, SE
<1> HIDE DEF s, a, c
<1>5. \A q \in 1 .. 5 + a + c : s[q] = IAC => q < 5 + a + c /\ (s[q + 1] = SB => q = 1)
  <2>1. CASE a = 2 /\ c = 2
    <3>1. \A q \in 1 .. 9 : q \in {1, 2, 3, 4, 5, 6, 7, 8, 9}
      OBVIOUS
    <3>2. /\ s[1] = IAC /\ s[2] = SB /\ s[3] = NAWS /\ s[4] # IAC /\ s[5] # IAC
          /\ s[6] # IAC /\ s[7] # IAC /\ s[8] = IAC /\ s[9] = SE
      BY <1>1, <1>2, <1>3, <2>1
    <3>3. \A q \in {1, 2, 3, 4, 5, 6, 7, 8, 9} : s[q] = IAC => q < 9 /\ (s[q + 1] = SB => q = 1)
      BY <1>4, <3>2
    <3> QED BY <2>1, <3>1, <3>3
  <2>2. CASE a = 2 /\ c = 3
    <3>1. \A q \in 1 .. 10 : q \in {1, 2, 3, 4, 5, 6, 7, 8, 9, 10}
      OBVIOUS
    <3>2. /\ s[1] = IAC /\ s[2] = SB /\ s[3] = NAWS /\ s[4] # IAC /\ s[5] # IAC
          /\ s[6] # IAC /\ s[8] = IAC /\ s[9] = IAC /\ s[10] = SE
      BY <1>1, <1>2, <1>3, <2>2
    <3>3. \A q \in {1, 2, 3, 4, 5, 6, 7, 8, 9, 10} : s[q] = IAC => q < 10 /\ (s[q + 1] = SB => q = 1)
      BY <1>4, <3>2
    <3> QED BY <2>2, <3>1, <3>3
  <2>3. CASE a = 3 /\ c = 2
    <3>1. \A q \in 1 .. 10 : q \in {1, 2, 3, 4, 5, 6, 7, 8, 9, 10}
      OBVIOUS
    <3>2. /\ s[1] = IAC /\ s[2] = SB /\ s[3] = NAWS /\ s[4] # IAC /\ s[6] = IAC
          /\ s[7] # IAC /\ s[7] # SB /\ s[8] # IAC /\ s[9] = IAC /\ s[10] = SE
      BY <1>1, <1>2, <1>3, <2>3
    <3>3. \A q \in {1, 2, 3, 4, 5, 6, 7, 8, 9, 10} : s[q] = IAC => q < 10 /\ (s[q + 1] = SB => q = 1)
      BY <1>4, <3>2
    <3> QED BY <2>3, <3>1, <3>3
  <2>4. CASE a = 3 /\ c = 3
    <3>1. \A q \in 1 .. 11 : q \in {1, 2, 3, 4, 5, 6, 7, 8, 9, 10, 11}
      OBVIOUS
    <3>2. /\ s[1] = IAC /\ s[2] = SB /\ s[3] = NAWS /\ s[4] # IAC /\ s[6] = IAC
          /\ s[7] # IAC /\ s[7] # SB /\ s[9] = IAC /\ s[10] = IAC /\ s[11] = SE
      BY <1>1, <1>2, <1>3, <2>4
    <3>3. \A q \in {1, 2, 3, 4, 5, 6, 7, 8, 9, 10, 11} : s[q] = IAC => q < 11 /\ (s[q + 1] = SB => q = 1)
      BY <1>4, <3>2
    <3> QED BY <2>4, <3>1, <3>3
  <2> QED BY <1>3, <2>1, <2>2, <2>3, <2>4
<1> QED BY <1>1, <1>5 DEF Alone, s

\* What the parser needs to know of a message.
Sound(m) ==
    /\ DOMAIN m = {"bytes", "keys", "size"}
    /\ m.bytes \in Seq(Byte) /\ Len(m.bytes) >= 1 /\ m.bytes[1] # Bracket
    /\ Alone(m.bytes)
    /\ Announces(m) \/ \A q \in 1 .. Len(m.bytes) - 1 : ~(m.bytes[q] = IAC /\ m.bytes[q + 1] = SB)

\* Every message a client sends is so.
LEMMA MessagesAreSound ==
    ASSUME NEW m, IsMessage(m)
    PROVE  Sound(m)
<1>1. ASSUME NEW b \in Typed, m = Key(b) PROVE Sound(m)
  <2>1. b \in Byte /\ b # IAC /\ b # Bracket
    BY DEF Typed, Byte, IAC
  <2>2. m.bytes = <<b>> /\ DOMAIN m = {"bytes", "keys", "size"}
    BY <1>1 DEF Key
  <2>3. m.bytes \in Seq(Byte) /\ Len(m.bytes) = 1 /\ m.bytes[1] = b
    BY <2>1, <2>2
  <2>4. \A q \in 1 .. 1 : q = 1
    OBVIOUS
  <2>5. Alone(m.bytes)
    BY <2>1, <2>3, <2>4 DEF Alone
  <2>6. 1 .. Len(m.bytes) - 1 = {}
    BY <2>3
  <2> QED BY <2>1, <2>2, <2>3, <2>5, <2>6 DEF Sound
<1>2. ASSUME NEW n \in 0 .. 3, m = Arrow(n) PROVE Sound(m)
  <2>1. 65 + n \in Byte /\ Escape \in Byte /\ Bracket \in Byte
    BY DEF Byte, Escape, Bracket
  <2>2. 65 + n # IAC /\ Escape # IAC /\ Bracket # IAC /\ Escape # Bracket
    BY DEF IAC, Escape, Bracket
  <2>3. m.bytes = <<Escape, Bracket, 65 + n>> /\ DOMAIN m = {"bytes", "keys", "size"}
    BY <1>2 DEF Arrow
  <2>4. /\ m.bytes \in Seq(Byte) /\ Len(m.bytes) = 3
        /\ m.bytes[1] = Escape /\ m.bytes[2] = Bracket /\ m.bytes[3] = 65 + n
    BY <2>1, <2>3
  <2>5. \A q \in 1 .. 3 : q \in {1, 2, 3}
    OBVIOUS
  <2>6. \A q \in 1 .. 3 : m.bytes[q] # IAC
    BY <2>2, <2>4, <2>5
  <2>7. Alone(m.bytes)
    BY <2>4, <2>6 DEF Alone
  <2>8. \A q \in 1 .. Len(m.bytes) - 1 : m.bytes[q] # IAC
    BY <2>4, <2>6
  <2> QED BY <2>2, <2>3, <2>4, <2>7, <2>8 DEF Sound
<1>3. ASSUME NEW verb \in Will .. Dont, NEW o \in 0 .. 254, m = Answer(verb, o) PROVE Sound(m)
  <2>1. verb \in Byte /\ o \in Byte /\ IAC \in Byte
    BY DEF Byte, IAC, Will, Dont
  <2>2. verb # IAC /\ o # IAC /\ verb # SB /\ IAC # Bracket
    BY DEF IAC, Will, Dont, SB, Bracket
  <2>3. m.bytes = <<IAC, verb, o>> /\ DOMAIN m = {"bytes", "keys", "size"}
    BY <1>3 DEF Answer
  <2>4. /\ m.bytes \in Seq(Byte) /\ Len(m.bytes) = 3
        /\ m.bytes[1] = IAC /\ m.bytes[2] = verb /\ m.bytes[3] = o
    BY <2>1, <2>3
  <2>5. \A q \in 1 .. 3 : q \in {1, 2, 3}
    OBVIOUS
  <2>6. \A q \in 1 .. 3 : m.bytes[q] = IAC => q = 1
    BY <2>2, <2>4, <2>5
  <2>7. Alone(m.bytes)
    BY <2>4, <2>6 DEF Alone
  <2>8. \A q \in 1 .. Len(m.bytes) - 1 : ~(m.bytes[q] = IAC /\ m.bytes[q + 1] = SB)
    BY <2>2, <2>4, <2>6
  <2> QED BY <2>2, <2>3, <2>4, <2>7, <2>8 DEF Sound
<1>4. ASSUME m.size[1] \in Extent, m.size[2] \in Extent, m = NewSize(m.size[1], m.size[2]) PROVE Sound(m)
  <2> DEFINE w == m.size[1]
             h == m.size[2]
             s == NewSize(w, h).bytes
  <2> HIDE DEF w, h
  <2>1. w \in Extent /\ h \in Extent /\ m = NewSize(w, h)
    BY <1>4 DEF w, h
  <2>2. m.bytes = s /\ DOMAIN m = {"bytes", "keys", "size"}
    BY <2>1 DEF NewSize
  <2>3. Wide(w) \in {2, 3} /\ Wide(h) \in {2, 3}
    BY <2>1, SixteenBytes
  <2>4. s \in Seq(Byte) /\ Len(s) = 5 + Wide(w) + Wide(h) /\ s[1] = IAC
    BY <2>1, SizeBytes DEF SizeParts
  <2>5. Alone(s)
    BY <2>1, SizeAlone
  <2>6. Announces(m)
    BY <2>1 DEF Announces
  <2>7. IAC # Bracket
    BY DEF IAC, Bracket
  <2> HIDE DEF s
  <2>8. Len(s) >= 1
    BY <2>3, <2>4
  <2> QED BY <2>2, <2>4, <2>5, <2>6, <2>7, <2>8 DEF Sound
<1> QED BY <1>1, <1>2, <1>3, <1>4 DEF IsMessage

-----------------------------------------------------------------------------
(* What is on the way. *)

\* s is what stands in message m behind its first d bytes, or the beginning of that.
Within(s, m, d) ==
    /\ d \in Nat /\ d + Len(s) <= Len(m.bytes)
    /\ \A q \in 1 .. Len(s) : s[q] = m.bytes[d + q]

\* The rest of a message that was cut.
Remnant(r) ==
    /\ DOMAIN r = {"bytes"} /\ r.bytes \in Seq(Byte) /\ Len(r.bytes) >= 1
    /\ \E m \in Messages, d \in Nat \ {0} : Within(r.bytes, m, d) /\ d + Len(r.bytes) = Len(m.bytes)

\* Only the first packet can be without its beginning.
WireIsSent == \A i \in 1 .. Len(wire) : wire[i] \in Messages \/ (i = 1 /\ Remnant(wire[i]))

\* What the receive loop leaves on the way.
LEMMA WireReceived ==
    ASSUME Types, NEW n \in 0 .. Len(wire),
           NEW k \in 0 .. (IF n < Len(wire) THEN Len(wire[n + 1].bytes) - 1 ELSE 0), Receive(n, k)
    PROVE  /\ Len(wire') = Len(wire) - n
           /\ \A i \in 1 .. Len(wire) - n : (k = 0 \/ i > 1) => wire'[i] = wire[n + i]
           /\ k # 0 =>
                /\ n + 1 \in 1 .. Len(wire) /\ wire[n + 1].bytes \in Seq(Byte)
                /\ k \in 1 .. Len(wire[n + 1].bytes) - 1
                /\ wire'[1] = [bytes |-> SubSeq(wire[n + 1].bytes, k + 1, Len(wire[n + 1].bytes))]
<1> DEFINE cut == SubSeq(wire, n + 1, Len(wire))
           left == [bytes |-> SubSeq(wire[n + 1].bytes, k + 1, Len(wire[n + 1].bytes))]
<1>1. wire \in Seq(Packets) /\ Len(wire) \in Nat /\ n \in Nat /\ n <= Len(wire)
  BY DEF Types
<1>2. k \in Int
  BY DEF Receive
<1>3. /\ cut \in Seq(Packets) /\ Len(cut) = Len(wire) - n
      /\ \A i \in 1 .. Len(wire) - n : cut[i] = wire[n + i]
  <2>1. \A i \in n + 1 .. Len(wire) : wire[i] \in Packets
    BY <1>1
  <2>2. n + 1 \in Int /\ Len(wire) \in Int
    BY <1>1
  <2>3. /\ cut \in Seq(Packets)
        /\ Len(cut) = IF n + 1 <= Len(wire) THEN Len(wire) - (n + 1) + 1 ELSE 0
        /\ \A i \in 1 .. Len(wire) - (n + 1) + 1 : cut[i] = wire[n + 1 + i - 1]
    BY <2>1, <2>2, SubSeqProperties, SMTT(30)
  <2> HIDE DEF cut
  <2>4. Len(wire) - (n + 1) + 1 = Len(wire) - n
    BY <1>1
  <2>5. ASSUME NEW i \in 1 .. Len(wire) - n PROVE cut[i] = wire[n + i]
    <3>1. n + 1 + i - 1 = n + i
      BY <1>1
    <3>2. cut[i] = wire[n + 1 + i - 1]
      BY <2>3, <2>4
    <3> QED BY <3>1, <3>2
  <2>6. Len(cut) = Len(wire) - n
    BY <1>1, <2>3
  <2> QED BY <2>3, <2>5, <2>6
<1>4. CASE k = 0
  <2>1. wire' = cut
    BY <1>4 DEF Receive
  <2> HIDE DEF cut
  <2> QED BY <1>3, <1>4, <2>1
<1>5. CASE k # 0
  <2>1. n < Len(wire) /\ k \in 0 .. Len(wire[n + 1].bytes) - 1
    BY <1>2, <1>5
  <2>2. n + 1 \in 1 .. Len(wire)
    BY <1>1, <2>1
  <2>3. wire[n + 1].bytes \in Seq(Byte)
    <3>1. wire[n + 1] \in Packets
      BY <1>1, <2>2
    <3> QED BY <3>1, PacketsHaveBytes
  <2>4. Len(wire[n + 1].bytes) \in Nat
    BY <2>3
  <2>5. k \in 1 .. Len(wire[n + 1].bytes) - 1
    BY <1>5, <2>1, <2>4
  <2>6. wire' = <<left>> \o Tail(cut)
    BY <1>5 DEF Receive
  <2> HIDE DEF cut, left
  <2>7. /\ Tail(cut) \in Seq(Packets) /\ Len(Tail(cut)) = Len(cut) - 1
        /\ \A i \in 1 .. Len(Tail(cut)) : Tail(cut)[i] = cut[i + 1]
    <3>1. cut # <<>>
      BY <1>1, <1>3, <2>1
    <3> QED BY <1>3, <3>1, HeadTailProperties
  <2> DEFINE t == Tail(cut)
             S == Packets \cup {left}
  <2>8. t \in Seq(S) /\ <<left>> \in Seq(S)
    <3>1. left \in S
      OBVIOUS
    <3>2. \A x \in Packets : x \in S
      OBVIOUS
    <3>3. t \in Seq(Packets)
      BY <2>7
    <3> HIDE DEF S, t
    <3> QED BY <3>1, <3>2, <3>3
  <2>9. wire' = <<left>> \o t /\ Len(t) = Len(wire) - n - 1 /\ \A i \in 1 .. Len(t) : t[i] = cut[i + 1]
    BY <1>1, <1>3, <2>6, <2>7
  <2> HIDE DEF t, S
  <2>10. /\ Len(wire') = 1 + Len(t)
         /\ wire'[1] = left
         /\ \A i \in 2 .. Len(wire) - n : wire'[i] = t[i - 1]
    <3> DEFINE r == wire'  a == <<left>>
    <3>1. Len(a) = 1 /\ a[1] = left
      OBVIOUS
    <3>2. a \in Seq(S) /\ r = a \o t
      BY <2>8, <2>9
    <3>3. Len(t) \in Nat
      BY <2>8
    <3> HIDE DEF a, r
    <3>4. /\ Len(r) = Len(a) + Len(t)
          /\ \A i \in 1 .. Len(r) : r[i] = IF i <= Len(a) THEN a[i] ELSE t[i - Len(a)]
      BY <2>8, <3>2, Concatenated
    <3>5. r[1] = left
      BY <3>1, <3>3, <3>4
    <3>6. \A i \in 2 .. Len(wire) - n : r[i] = t[i - 1]
      BY <1>1, <2>9, <3>1, <3>3, <3>4
    <3> QED BY <3>1, <3>4, <3>5, <3>6 DEF r
  <2>11. ASSUME NEW i \in 1 .. Len(wire) - n, i > 1 PROVE wire'[i] = wire[n + i]
    <3>1. i \in 2 .. Len(wire) - n /\ i - 1 \in 1 .. Len(t) /\ i - 1 + 1 = i
      BY <1>1, <2>9, <2>11
    <3>2. wire'[i] = t[i - 1] /\ t[i - 1] = cut[i]
      BY <2>9, <2>10, <3>1
    <3> QED BY <1>3, <3>2
  <2>12. Len(wire') = Len(wire) - n
    BY <1>1, <2>9, <2>10
  <2> QED BY <1>5, <2>2, <2>3, <2>5, <2>10, <2>11, <2>12 DEF left
<1> QED BY <1>4, <1>5

\* The rest of a message, or of the rest of one.
LEMMA RestIsRemnant ==
    ASSUME NEW s \in Seq(Byte), NEW m \in Messages, NEW d \in Nat,
           Within(s, m, d), d + Len(s) = Len(m.bytes), NEW k \in 1 .. Len(s) - 1
    PROVE  Remnant([bytes |-> SubSeq(s, k + 1, Len(s))])
<1> DEFINE t == SubSeq(s, k + 1, Len(s))
           r == [bytes |-> t]
<1>1. Len(s) \in Nat /\ k \in Nat /\ k < Len(s) /\ k >= 1
  OBVIOUS
<1>2. \A i \in k + 1 .. Len(s) : s[i] \in Byte
  BY <1>1
<1>3. /\ t \in Seq(Byte) /\ Len(t) = Len(s) - k
      /\ \A i \in 1 .. Len(s) - k : t[i] = s[k + i]
  <2>1. k + 1 \in Int /\ Len(s) \in Int
    BY <1>1
  <2>2. /\ t \in Seq(Byte)
        /\ Len(t) = IF k + 1 <= Len(s) THEN Len(s) - (k + 1) + 1 ELSE 0
        /\ \A i \in 1 .. Len(s) - (k + 1) + 1 : t[i] = s[k + 1 + i - 1]
    BY <1>2, <2>1, SubSeqProperties
  <2> HIDE DEF t
  <2>3. \A i \in 1 .. Len(s) - k : t[i] = s[k + i]
    <3> SUFFICES ASSUME NEW i \in 1 .. Len(s) - k PROVE t[i] = s[k + i]
      OBVIOUS
    <3>1. k + 1 + i - 1 = k + i /\ i \in 1 .. Len(s) - (k + 1) + 1
      BY <1>1
    <3>2. t[i] = s[k + 1 + i - 1]
      BY <2>2, <3>1
    <3> QED BY <3>1, <3>2
  <2>4. Len(t) = Len(s) - k
    BY <1>1, <2>2
  <2> QED BY <2>2, <2>3, <2>4
<1> HIDE DEF t
<1>4. d + k \in Nat \ {0} /\ d + k + Len(t) = Len(m.bytes) /\ Len(t) >= 1
  <2>1. Len(t) = Len(s) - k
    BY <1>3
  <2>2. \A x, y, z \in Nat : z = x - y => d + y + z = d + x
    OBVIOUS
  <2>3. Len(t) \in Nat /\ Len(t) >= 1
    BY <1>1, <2>1
  <2>4. d + k + Len(t) = d + Len(s)
    BY <1>1, <2>1, <2>2, <2>3
  <2>5. d + k \in Nat \ {0}
    BY <1>1
  <2> QED BY <2>3, <2>4, <2>5
<1>5. ASSUME NEW q \in 1 .. Len(t) PROVE t[q] = m.bytes[d + k + q]
  <2>1. k + q \in 1 .. Len(s) /\ d + (k + q) = d + k + q /\ q \in 1 .. Len(s) - k
    BY <1>1, <1>3
  <2>2. s[k + q] = m.bytes[d + (k + q)]
    BY <2>1 DEF Within
  <2>3. t[q] = s[k + q]
    BY <1>3, <2>1
  <2> QED BY <2>1, <2>2, <2>3
<1>6. Within(t, m, d + k)
  BY <1>1, <1>3, <1>4, <1>5 DEF Within
<1>7. r.bytes = t /\ DOMAIN r = {"bytes"}
  OBVIOUS
<1>8. Remnant(r)
  <2> HIDE DEF r
  <2> QED BY <1>3, <1>4, <1>6, <1>7 DEF Remnant
<1> QED BY <1>8 DEF t

\* A packet on the way ends a message, and is the whole of it unless it is the first.
LEMMA PacketEndsMessage ==
    ASSUME WireIsSent, NEW i \in 1 .. Len(wire)
    PROVE  \E m \in Messages, d \in Nat :
              /\ Within(wire[i].bytes, m, d) /\ d + Len(wire[i].bytes) = Len(m.bytes)
              /\ d = 0 => wire[i] = m
<1>1. CASE wire[i] \in Messages
  <2> DEFINE m == wire[i]
  <2>1. m \in Messages /\ m.bytes \in Seq(0 .. 255)
    BY <1>1, DisplayAssumption
  <2>2. Len(m.bytes) \in Nat
    BY <2>1
  <2>3. Within(m.bytes, m, 0)
    <3> HIDE DEF m
    <3> QED BY <2>2 DEF Within
  <2>4. 0 + Len(m.bytes) = Len(m.bytes)
    BY <2>2
  <2> QED BY <2>1, <2>3, <2>4
<1>2. CASE wire[i] \notin Messages
  <2>1. Remnant(wire[i])
    BY <1>2 DEF WireIsSent
  <2>2. PICK m \in Messages, d \in Nat \ {0} :
           Within(wire[i].bytes, m, d) /\ d + Len(wire[i].bytes) = Len(m.bytes)
    BY <2>1 DEF Remnant
  <2> QED BY <2>2
<1> QED BY <1>1, <1>2

\* So it is in every step.
LEMMA WireStep ==
    ASSUME Types, WireIsSent, [Next]_vars
    PROVE  WireIsSent'
<1>1. wire \in Seq(Packets) /\ Len(wire) \in Nat
  BY DEF Types
<1>2. ASSUME NEW m \in Messages, Send(m) PROVE WireIsSent'
  <2>1. wire' = Append(wire, m)
    BY <1>2 DEF Send
  <2>2. m \in Packets
    BY DEF Packets
  <2>3. /\ Len(wire') = Len(wire) + 1
        /\ \A i \in 1 .. Len(wire) : wire'[i] = wire[i]
        /\ wire'[Len(wire) + 1] = m
    BY <1>1, <2>1, <2>2, AppendProperties
  <2>4. ASSUME NEW i \in 1 .. Len(wire') PROVE wire'[i] \in Messages \/ (i = 1 /\ Remnant(wire'[i]))
    <3>1. CASE i \in 1 .. Len(wire)
      BY <2>3, <3>1 DEF WireIsSent
    <3>2. CASE i = Len(wire) + 1
      BY <2>3, <3>2
    <3> QED BY <1>1, <2>3, <3>1, <3>2
  <2>5. \A i \in 1 .. Len(wire') : wire'[i] \in Messages \/ (i = 1 /\ Remnant(wire'[i]))
    BY <2>4
  <2> QED BY <2>5 DEF WireIsSent, Remnant, Within
<1>3. CASE Receiving
  <2>1. PICK n \in 0 .. Len(wire) :
          \E k \in 0 .. (IF n < Len(wire) THEN Len(wire[n + 1].bytes) - 1 ELSE 0) : Receive(n, k)
    BY <1>3 DEF Receiving
  <2>2. PICK k \in 0 .. (IF n < Len(wire) THEN Len(wire[n + 1].bytes) - 1 ELSE 0) : Receive(n, k)
    BY <2>1
  <2>3. /\ Len(wire') = Len(wire) - n
        /\ \A i \in 1 .. Len(wire) - n : (k = 0 \/ i > 1) => wire'[i] = wire[n + i]
        /\ k # 0 => /\ n + 1 \in 1 .. Len(wire) /\ wire[n + 1].bytes \in Seq(Byte)
                    /\ k \in 1 .. Len(wire[n + 1].bytes) - 1
                    /\ wire'[1] = [bytes |-> SubSeq(wire[n + 1].bytes, k + 1, Len(wire[n + 1].bytes))]
    BY <2>2, WireReceived
  <2>4. ASSUME NEW i \in 1 .. Len(wire') PROVE wire'[i] \in Messages \/ (i = 1 /\ Remnant(wire'[i]))
    <3>1. i \in 1 .. Len(wire) - n /\ n + i \in 1 .. Len(wire) /\ n \in Nat
      BY <1>1, <2>3
    <3>2. CASE k = 0 \/ i > 1
      <4>1. wire'[i] = wire[n + i]
        BY <2>3, <3>1, <3>2
      <4>2. wire[n + i] \in Messages \/ (n + i = 1 /\ Remnant(wire[n + i]))
        BY <3>1 DEF WireIsSent
      <4>3. n + i = 1 => i = 1
        BY <3>1
      <4> QED BY <4>1, <4>2, <4>3
    <3>3. CASE k # 0 /\ i = 1
      <4>1. PICK m \in Messages, d \in Nat :
               Within(wire[n + 1].bytes, m, d) /\ d + Len(wire[n + 1].bytes) = Len(m.bytes)
        BY <2>3, <3>3, PacketEndsMessage
      <4>2. Remnant(wire'[1])
        BY <2>3, <3>3, <4>1, RestIsRemnant
      <4> QED BY <3>3, <4>2
    <3> QED BY <3>1, <3>2, <3>3
  <2>5. \A i \in 1 .. Len(wire') : wire'[i] \in Messages \/ (i = 1 /\ Remnant(wire'[i]))
    BY <2>4
  <2> QED BY <2>5 DEF WireIsSent, Remnant, Within
<1>4. CASE wire' = wire
  BY <1>4 DEF WireIsSent, Remnant, Within
<1>5. [Next]_vars => (\E m \in Messages : Send(m)) \/ Receiving \/ wire' = wire
  BY DEF Next, vars, Tick, PushScreen, Erase, BeginFlush, NoTick, Draw, DrawPut, DrawFill, DrawBlock, DrawRect, DrawLine,
         DrawText, DrawCells, Drawing, Flush, FlushGreeting, FlushCanvas
<1> QED BY <1>2, <1>3, <1>4, <1>5

-----------------------------------------------------------------------------
(* Where sizes come from. *)

\* Each piece of a packet is part of a message: to its end unless it is the last, and from
\* the beginning only if that message is on the way.
Pieces(e, n) ==
    \A j \in 1 .. n : Len(e[j]) = 0 \/
        \E m \in Messages, d \in Nat : /\ Within(e[j], m, d)
                                       /\ j < n => d + Len(e[j]) = Len(m.bytes)
                                       /\ d = 0 => j \in 1 .. Len(wire) /\ wire[j] = m

\* Where a window is announced a message of that size begins.
LEMMA AnnouncedInPlace ==
    ASSUME NEW n \in Nat, NEW g, NEW e, Joins(g, e, n), Pieces(e, n), \A m \in Messages : IsMessage(m),
           NEW p \in 1 .. End(g, n), p + 1 <= End(g, n), g[n][p] = IAC, g[n][p + 1] = SB
    PROVE  \E j \in 1 .. Len(wire) : /\ wire[j] \in Messages /\ Announces(wire[j])
                                     /\ StandsAt(g[n], p, wire[j].bytes)
<1>1. PICK j \in 1 .. n : \E q \in 1 .. Span(e, j) : p = End(g, j - 1) + q
  BY PiecesCover
<1>2. PICK q \in 1 .. Span(e, j) : p = End(g, j - 1) + q
  BY <1>1
<1>3. /\ End(g, j - 1) \in Nat /\ Span(e, j) \in Nat
      /\ End(g, j) = End(g, j - 1) + Span(e, j) /\ End(g, j) <= End(g, n)
      /\ \A r \in 1 .. Span(e, j) : g[n][End(g, j - 1) + r] = e[j][r]
  BY PiecesLie
<1>4. Len(e[j]) # 0
  BY <1>2, <1>3 DEF Span
<1>5. PICK m \in Messages, d \in Nat : /\ Within(e[j], m, d)
                                       /\ j < n => d + Len(e[j]) = Len(m.bytes)
                                       /\ d = 0 => j \in 1 .. Len(wire) /\ wire[j] = m
  BY <1>4 DEF Pieces
<1>6. Sound(m)
  BY MessagesAreSound
<1>7. m.bytes \in Seq(Byte) /\ Len(m.bytes) \in Nat
  BY <1>6 DEF Sound
<1>8. d + Span(e, j) <= Len(m.bytes) /\ \A r \in 1 .. Span(e, j) : e[j][r] = m.bytes[d + r]
  BY <1>5 DEF Within, Span
<1>9. d + q \in 1 .. Len(m.bytes) /\ m.bytes[d + q] = IAC
  BY <1>2, <1>3, <1>7, <1>8, SMTT(30)
<1>10. d + q < Len(m.bytes) /\ (m.bytes[d + q + 1] = SB => d + q = 1)
  BY <1>6, <1>9 DEF Sound, Alone
<1>11. q # Span(e, j)
  <2> SUFFICES ASSUME q = Span(e, j) PROVE FALSE
    OBVIOUS
  <2>1. ~(j < n)
    <3> SUFFICES ASSUME j < n PROVE FALSE
      OBVIOUS
    <3>1. d + Span(e, j) = Len(m.bytes)
      BY <1>5 DEF Span
    <3> QED BY <1>3, <1>7, <1>10, <3>1
  <2>2. j = n
    BY <2>1
  <2>3. p = End(g, n)
    BY <1>2, <1>3, <2>2
  <2> QED BY <1>3, <2>3
<1>12. q + 1 \in 1 .. Span(e, j) /\ p + 1 = End(g, j - 1) + (q + 1) /\ d + (q + 1) = d + q + 1
  BY <1>2, <1>3, <1>11
<1>13. m.bytes[d + q + 1] = SB
  <2>1. m.bytes[d + (q + 1)] = e[j][q + 1]
    BY <1>8, <1>12, Zenon
  <2>2. g[n][End(g, j - 1) + (q + 1)] = e[j][q + 1]
    BY <1>3, <1>12, Zenon
  <2> QED BY <1>12, <2>1, <2>2, Zenon
<1>14. d = 0 /\ q = 1
  BY <1>10, <1>13
<1>15. wire[j] = m /\ j \in 1 .. Len(wire)
  BY <1>5, <1>14
<1>16. Announces(m)
  <2>1. 1 \in 1 .. Len(m.bytes) - 1 /\ m.bytes[1] = IAC /\ m.bytes[1 + 1] = SB
    BY <1>7, <1>9, <1>10, <1>13, <1>14
  <2> QED BY <1>6, <2>1 DEF Sound
<1>17. ASSUME NEW r \in 1 .. Len(m.bytes), p + r - 1 <= Len(g[n]) PROVE g[n][p + r - 1] = m.bytes[r]
  <2>1. p + r - 1 = End(g, j - 1) + r /\ d + r = r
    <3>1. r \in Nat /\ p = End(g, j - 1) + 1 /\ d = 0
      BY <1>2, <1>7, <1>14
    <3>2. \A x, y \in Nat : x + 1 + y - 1 = x + y
      OBVIOUS
    <3> QED BY <1>3, <3>1, <3>2
  <2>2. r <= Span(e, j)
    <3>1. CASE j < n
      BY <1>3, <1>5, <1>7, <1>14, <3>1 DEF Span
    <3>2. CASE ~(j < n)
      <4>1. j = n
        BY <3>2
      <4>2. End(g, j - 1) + r <= End(g, n)
        BY <1>17, <2>1 DEF End
      <4> QED BY <1>3, <4>1, <4>2
    <3> QED BY <3>1, <3>2
  <2>3. r \in 1 .. Span(e, j)
    BY <1>3, <2>2
  <2> QED BY <1>3, <1>8, <2>1, <2>3
<1>18. StandsAt(g[n], p, m.bytes)
  BY <1>17 DEF StandsAt
<1> QED BY <1>15, <1>16, <1>18

\* s is the size that message m gives the canvas.
Gives(m, s) == "size" \in DOMAIN m /\ m.size # <<>> /\ s = Clamped(m.size[1], m.size[2])

\* The message of a size says it.
LEMMA AnnouncedSize ==
    ASSUME NEW w \in Extent, NEW h \in Extent
    PROVE  Gives(NewSize(w, h), Clamped(w, h))
<1> DEFINE m == NewSize(w, h)
<1>1. "size" \in DOMAIN m /\ m.size = <<w, h>>
  BY DEF NewSize
<1>2. <<w, h>> # <<>> /\ <<w, h>>[1] = w /\ <<w, h>>[2] = h
  OBVIOUS
<1> HIDE DEF m
<1>3. Gives(m, Clamped(w, h))
  BY <1>1, <1>2 DEF Gives
<1> QED BY <1>3 DEF m

\* The parser gives the canvas no size but those that are on the way.
LEMMA OnlySizesOnTheWay ==
    ASSUME NEW n \in Nat, NEW g, NEW e, Joins(g, e, n), Pieces(e, n), \A m \in Messages : IsMessage(m),
           keyboard \in SUBSET AllKeys
    PROVE  \A i \in 1 .. Len(Parse(g[n], keyboard).sizes) :
              \E j \in 1 .. Len(wire) : Gives(wire[j], Parse(g[n], keyboard).sizes[i])
<1> DEFINE b == g[n]
           OnTheWay(s) == \E j \in 1 .. Len(wire) : Gives(wire[j], s)
           S == {t \in Parsers : \A i \in 1 .. Len(t.sizes) : OnTheWay(t.sizes[i])}
           first == [at |-> 1, keys |-> keyboard, sizes |-> <<>>]
<1>1. b \in Seq(Byte) /\ Len(b) = End(g, n)
  BY DEF Joins, End
<1>2. first \in S
  <2>1. first \in Parsers /\ Len(first.sizes) = 0
    BY DEF Parsers
  <2> HIDE DEF first, OnTheWay
  <2>2. 1 .. Len(first.sizes) = {}
    BY <2>1
  <2> QED BY <2>1, <2>2
<1>3. ASSUME NEW t \in Parsers, t \in S, t.at <= Len(b) PROVE Step(b, t) \in S
  <2> DEFINE u == Step(b, t)
             p == t.at
             cols == ColsAt(b, p)
             rows == RowsAt(b, p)
             size == Clamped(cols.value, rows.value)
  <2>1. p \in Nat \ {0} /\ t.sizes \in Seq(Sides)
    BY DEF Parsers
  <2>2. u \in Parsers
    <3> HIDE DEF b
    <3> QED BY <1>1, <1>3, StepType
  <2>3. \/ u.sizes = t.sizes
        \/ /\ b[p] = IAC /\ b[p + 1] = SB /\ b[p + 2] = NAWS /\ p + 4 <= Len(b)
           /\ cols.ok /\ rows.ok
           /\ u.sizes = Append(t.sizes, size)
    <3> HIDE DEF b
    <3> QED BY <1>1, <1>3, StepAdvances
  <2>4. \A i \in 1 .. Len(t.sizes) : OnTheWay(t.sizes[i])
    BY <1>3
  <2>5. CASE u.sizes = t.sizes
    <3> HIDE DEF u, OnTheWay
    <3> QED BY <2>2, <2>4, <2>5 DEF u
  <2>6. CASE /\ b[p] = IAC /\ b[p + 1] = SB /\ p + 4 <= Len(b)
             /\ cols.ok /\ rows.ok /\ u.sizes = Append(t.sizes, size)
    <3>1. Len(b) \in Nat
      BY <1>1
    <3>2. p \in 1 .. End(g, n) /\ p + 1 <= End(g, n)
      <4> HIDE DEF b, p
      <4> QED BY <1>1, <2>1, <2>6, <3>1
    <3>3. PICK j \in 1 .. Len(wire) : /\ wire[j] \in Messages /\ Announces(wire[j])
                                      /\ StandsAt(b, p, wire[j].bytes)
      <4> HIDE DEF p
      <4> QED BY <2>6, <3>2, AnnouncedInPlace
    <3>4. PICK w \in Extent, h \in Extent : wire[j] = NewSize(w, h)
      BY <3>3 DEF Announces
    <3>5. StandsAt(b, p, NewSize(w, h).bytes)
      BY <3>3, <3>4
    <3>6. cols.value = w /\ rows.value = h
      <4> HIDE DEF b, p
      <4>1. ColsAt(b, p).ok /\ RowsAt(b, p).ok
        BY <2>6
      <4> QED BY <1>1, <2>1, <3>5, <4>1, SizeReads
    <3>7. size = Clamped(w, h)
      <4> HIDE DEF cols, rows
      <4> QED BY <3>6
    <3>8. OnTheWay(size)
      <4> HIDE DEF size
      <4>1. Gives(wire[j], size)
        BY <3>4, <3>7, AnnouncedSize
      <4> QED BY <4>1
    <3>9. ASSUME NEW i \in 1 .. Len(u.sizes) PROVE OnTheWay(u.sizes[i])
      <4>1. size \in Sides
        <5>1. u.sizes \in Seq(Sides) /\ Len(u.sizes) = Len(t.sizes) + 1
          <6> HIDE DEF u, size
          <6>1. u.sizes \in Seq(Sides)
            BY <2>2, SMTT(30) DEF Parsers
          <6> QED BY <2>1, <2>6, <6>1
        <5>2. w \in Int /\ h \in Int
          BY DEF Extent
        <5> HIDE DEF size
        <5> QED BY <3>7, <5>2, ClampedIsSide
      <4> HIDE DEF u, size, OnTheWay
      <4>2. /\ Len(u.sizes) = Len(t.sizes) + 1 /\ u.sizes[Len(t.sizes) + 1] = size
            /\ \A r \in 1 .. Len(t.sizes) : u.sizes[r] = t.sizes[r]
        BY <2>1, <2>6, <4>1, AppendProperties
      <4>3. Len(t.sizes) \in Nat
        BY <2>1
      <4>4. CASE i = Len(t.sizes) + 1
        BY <3>8, <4>2, <4>4
      <4>5. CASE i # Len(t.sizes) + 1
        <5>1. i \in 1 .. Len(t.sizes)
          BY <4>2, <4>3, <4>5
        <5> QED BY <2>4, <4>2, <5>1
      <4> QED BY <4>4, <4>5
    <3> HIDE DEF u, OnTheWay
    <3> QED BY <2>2, <3>9 DEF u
  <2> QED BY <2>3, <2>5, <2>6
<1> HIDE DEF S, b
<1>4. Parse(b, keyboard) \in S
  BY <1>1, <1>2, <1>3, ParseInduction
<1> QED BY <1>4 DEF S, b

\* A packet is made of such pieces.
LEMMA PacketHasPieces ==
    ASSUME Types, WireIsSent, NEW n \in 0 .. Len(wire),
           NEW k \in 0 .. (IF n < Len(wire) THEN Len(wire[n + 1].bytes) - 1 ELSE 0), Receive(n, k)
    PROVE  \E g, e : /\ Joins(g, e, n + 1) /\ Pieces(e, n + 1)
                     /\ \A j \in 1 .. n : e[j] = wire[j].bytes
                     /\ k = 0 => Len(e[n + 1]) = 0
                     /\ keyboard' = Parse(g[n + 1], keyboard).keys
                     /\ canvas' = ResizedBy(canvas, Parse(g[n + 1], keyboard).sizes)
<1> DEFINE part == IF k = 0 THEN <<>> ELSE SubSeq(wire[n + 1].bytes, 1, k)
           e == [i \in 1 .. n + 1 |-> IF i <= n THEN wire[i].bytes ELSE part]
<1>1. wire \in Seq(Packets) /\ Len(wire) \in Nat /\ n \in Nat /\ n <= Len(wire)
  BY DEF Types
<1>2. k # 0 => /\ n + 1 \in 1 .. Len(wire) /\ wire[n + 1].bytes \in Seq(Byte)
               /\ k \in 1 .. Len(wire[n + 1].bytes) - 1
  BY WireReceived
<1>3. /\ part \in Seq(Byte)
      /\ k = 0 => Len(part) = 0
      /\ k # 0 => Len(part) = k /\ \A q \in 1 .. k : part[q] = wire[n + 1].bytes[q]
  <2>1. CASE k = 0
    BY <2>1
  <2>2. CASE k # 0
    <3> DEFINE b == wire[n + 1].bytes
               s == SubSeq(b, 1, k)
    <3>1. b \in Seq(Byte) /\ k \in 1 .. Len(b) - 1
      BY <1>2, <2>2
    <3> HIDE DEF b
    <3>2. Len(b) \in Nat
      BY <3>1
    <3>3. \A i \in 1 .. k : b[i] \in Byte
      BY <3>1, <3>2
    <3>4. 1 \in Int /\ k \in Int
      BY <3>1, <3>2
    <3>5. /\ s \in Seq(Byte) /\ Len(s) = IF 1 <= k THEN k - 1 + 1 ELSE 0
          /\ \A i \in 1 .. k - 1 + 1 : s[i] = b[1 + i - 1]
      BY <3>3, <3>4, SubSeqProperties
    <3> HIDE DEF s
    <3>6. Len(s) = k
      BY <3>1, <3>2, <3>5
    <3>7. ASSUME NEW q \in 1 .. k PROVE s[q] = b[q]
      <4>1. q \in 1 .. k - 1 + 1 /\ 1 + q - 1 = q
        BY <3>4
      <4>2. s[q] = b[1 + q - 1]
        BY <3>5, <4>1
      <4> QED BY <4>1, <4>2
    <3>8. part = s
      BY <2>2 DEF s, b
    <3> HIDE DEF part
    <3> QED BY <2>2, <3>5, <3>6, <3>7, <3>8 DEF b
  <2> QED BY <2>1, <2>2
<1>4. /\ keyboard' = Parse(Joined(n) \o part, keyboard).keys
      /\ canvas' = ResizedBy(canvas, Parse(Joined(n) \o part, keyboard).sizes)
  BY DEF Receive
<1> HIDE DEF part
<1>5. PICK g : Joins(g, e, n + 1) /\ g[n] = Joined(n) /\ g[n + 1] = Joined(n) \o part
  BY <1>1, <1>3, PacketJoins
<1>6. \A j \in 1 .. n : e[j] = wire[j].bytes
  BY <1>1
<1>7. e[n + 1] = part
  <2>1. n + 1 \in 1 .. n + 1 /\ ~(n + 1 <= n)
    BY <1>1
  <2> QED BY <2>1
<1> HIDE DEF e
<1>8. ASSUME NEW j \in 1 .. n + 1, Len(e[j]) # 0
      PROVE  \E m \in Messages, d \in Nat : /\ Within(e[j], m, d)
                                            /\ j < n + 1 => d + Len(e[j]) = Len(m.bytes)
                                            /\ d = 0 => j \in 1 .. Len(wire) /\ wire[j] = m
  <2>1. CASE j <= n
    <3>1. j \in 1 .. n /\ j \in 1 .. Len(wire)
      BY <1>1, <2>1
    <3>2. e[j] = wire[j].bytes
      BY <1>6, <3>1
    <3>3. PICK m \in Messages, d \in Nat :
              /\ Within(wire[j].bytes, m, d) /\ d + Len(wire[j].bytes) = Len(m.bytes)
              /\ d = 0 => wire[j] = m
      BY <3>1, PacketEndsMessage
    <3> QED BY <3>1, <3>2, <3>3
  <2>2. CASE ~(j <= n)
    <3>1. j = n + 1
      BY <1>1, <2>2
    <3>2. k # 0
      BY <1>3, <1>7, <1>8, <3>1
    <3>3. j \in 1 .. Len(wire) /\ Len(part) = k /\ \A q \in 1 .. k : part[q] = wire[j].bytes[q]
      BY <1>2, <1>3, <3>1, <3>2
    <3>4. wire[j].bytes \in Seq(Byte) /\ k \in 1 .. Len(wire[j].bytes) - 1
      BY <1>2, <3>1, <3>2
    <3>5. PICK m \in Messages, d \in Nat :
              /\ Within(wire[j].bytes, m, d) /\ d + Len(wire[j].bytes) = Len(m.bytes)
              /\ d = 0 => wire[j] = m
      BY <3>3, PacketEndsMessage
    <3>6. Len(wire[j].bytes) \in Nat /\ k \in Nat /\ k <= Len(wire[j].bytes)
      BY <3>4
    <3>7. Within(part, m, d)
      <4>1. d + Len(part) <= Len(m.bytes)
        <5>1. \A x, y \in Nat : x <= y => d + x <= d + y
          OBVIOUS
        <5> QED BY <3>3, <3>5, <3>6, <5>1
      <4>2. \A q \in 1 .. k : q \in 1 .. Len(wire[j].bytes)
        BY <3>6
      <4>3. \A q \in 1 .. Len(part) : part[q] = m.bytes[d + q]
        BY <3>3, <3>5, <4>2 DEF Within
      <4> QED BY <4>1, <4>3 DEF Within
    <3>8. ~(j < n + 1)
      BY <1>1, <3>1
    <3> QED BY <1>7, <3>1, <3>3, <3>5, <3>7, <3>8
  <2> QED BY <2>1, <2>2
<1>9. Pieces(e, n + 1)
  BY <1>8 DEF Pieces
<1> QED BY <1>3, <1>4, <1>5, <1>6, <1>7, <1>9

\* Only the receive loop changes the size of the canvas.
LEMMA SidesStay ==
    ASSUME IInv, Next, ~Receiving
    PROVE  canvas'.w = canvas.w /\ canvas'.h = canvas.h
<1>1. Types /\ canvas \in Canvases /\ client \in Clients(canvas.w, canvas.h)
  BY DEF IInv, Types
<1>2. \A cells : \A ink \in Inks :
         Put(canvas, cells, ink) \in Canvases /\ Put(canvas, cells, ink).w = canvas.w /\ Put(canvas, cells, ink).h = canvas.h
  <2>1. \A ink \in Inks : ink \in Chars \X Styles
    BY DisplayAssumption
  <2> QED BY <1>1, <2>1, PutType
<1>3. ASSUME NEW cells, NEW ink \in Inks, DrawCells(cells, ink)
      PROVE  canvas'.w = canvas.w /\ canvas'.h = canvas.h
  <2> DEFINE c == Put(canvas, cells, ink)
  <2>1. c \in Canvases /\ c.w = canvas.w /\ c.h = canvas.h
    BY <1>2
  <2>2. canvas' = [c EXCEPT !.index = 0]
    BY <1>3 DEF DrawCells, Drawn
  <2> HIDE DEF c
  <2>3. c \in CanvasesOf(c.w, c.h)
    BY <2>1, CanvasParts
  <2> QED BY <2>1, <2>2, <2>3 DEF CanvasesOf
<1>4. ASSUME NEW ink \in Inks, DrawText(ink) PROVE canvas'.w = canvas.w /\ canvas'.h = canvas.h
  <2>1. PICK cells : canvas' = Put(canvas, cells, ink)
    BY <1>4 DEF DrawText, Written
  <2> QED BY <1>2, <2>1
<1>5. CASE Draw
  BY <1>3, <1>4, <1>5 DEF Draw, DrawPut, DrawFill, DrawBlock, DrawRect, DrawLine
<1>6. ASSUME NEW style \in Styles, Erase(style) PROVE canvas'.w = canvas.w /\ canvas'.h = canvas.h
  <2>1. canvas' = Put(canvas, DOMAIN canvas.back, <<Space, style>>)
    BY <1>6 DEF Erase, Erased
  <2>2. <<Space, style>> \in Chars \X Styles
    BY Assumed
  <2> HIDE DEF Space
  <2> QED BY <1>1, <2>1, <2>2, PutType
<1>7. ASSUME NEW forced \in BOOLEAN, Drawing(forced) PROVE canvas'.w = canvas.w /\ canvas'.h = canvas.h
  <2>1. canvas' = canvas \/ canvas' = [canvas EXCEPT !.force = TRUE]
    BY <1>7 DEF Drawing, ForceNextFlush
  <2> QED BY <1>1, <2>1, ForceSet
<1>8. CASE FlushCanvas
  <2> DEFINE p == Flushed(canvas)
  <2>1. p = Flushed(canvas)
    OBVIOUS
  <2>2. canvas' = p.c
    BY <1>8 DEF FlushCanvas
  <2> HIDE DEF p
  <2>3. p.c.w = canvas.w /\ p.c.h = canvas.h
    BY <1>1, <2>1, FlushedFacts
  <2> QED BY <2>2, <2>3
<1>9. \/ Draw \/ (\E style \in Styles : Erase(style)) \/ (\E forced \in BOOLEAN : Drawing(forced))
      \/ FlushCanvas \/ canvas' = canvas
  BY DEF Next, Tick, PushScreen, Flush, FlushGreeting, NoTick, Send
<1> QED BY <1>5, <1>6, <1>7, <1>8, <1>9

\* A size is one that was asked for: by a message that is on the way.
LEMMA ResizesAreAsked ==
    ASSUME IInv, WireIsSent, \A m \in Messages : IsMessage(m), Next,
           <<canvas.w, canvas.h>> # <<canvas'.w, canvas'.h>>
    PROVE  \E i \in 1 .. Len(wire) : Gives(wire[i], <<canvas'.w, canvas'.h>>)
<1>1. Types /\ canvas \in Canvases /\ keyboard \in SUBSET AllKeys /\ wire \in Seq(Packets)
  BY DEF IInv, Types
<1>2. Receiving
  BY SidesStay
<1>3. PICK n \in 0 .. Len(wire) :
         \E k \in 0 .. (IF n < Len(wire) THEN Len(wire[n + 1].bytes) - 1 ELSE 0) : Receive(n, k)
  BY <1>2 DEF Receiving
<1>4. PICK k \in 0 .. (IF n < Len(wire) THEN Len(wire[n + 1].bytes) - 1 ELSE 0) : Receive(n, k)
  BY <1>3
<1>5. PICK g, e : /\ Joins(g, e, n + 1) /\ Pieces(e, n + 1)
                  /\ canvas' = ResizedBy(canvas, Parse(g[n + 1], keyboard).sizes)
  BY <1>1, <1>4, PacketHasPieces
<1>6. n + 1 \in Nat
  BY <1>1
<1> DEFINE sizes == Parse(g[n + 1], keyboard).sizes
<1>7. \A i \in 1 .. Len(sizes) : \E j \in 1 .. Len(wire) : Gives(wire[j], sizes[i])
  BY <1>1, <1>5, <1>6, OnlySizesOnTheWay
<1>8. sizes \in Seq(Sides)
  <2>1. g[n + 1] \in Seq(Byte)
    BY <1>5, <1>6 DEF Joins
  <2> QED BY <1>1, <2>1, ParseType
<1> HIDE DEF sizes
<1>9. <<canvas'.w, canvas'.h>> = IF Len(sizes) = 0 THEN <<canvas.w, canvas.h>> ELSE sizes[Len(sizes)]
  BY <1>1, <1>5, <1>8, ResizedByLast DEF sizes
<1>10. Len(sizes) \in 1 .. Len(sizes)
  <2>1. Len(sizes) # 0
    BY <1>9
  <2> QED BY <1>8, <2>1
<1>11. <<canvas'.w, canvas'.h>> = sizes[Len(sizes)]
  BY <1>9, <1>10
<1> QED BY <1>7, <1>10, <1>11

-----------------------------------------------------------------------------
(* Whole messages. *)

\* What the parser makes of message m at its place: all of it, but for the end of a size,
\* which it passes over later; the key it may not see is escape.
Taken(t, u, m) ==
    \/ /\ m.size = <<>> /\ u.at = t.at + Len(m.bytes) /\ u.sizes = t.sizes
       /\ u.keys \ {Escape} = (t.keys \cup m.keys) \ {Escape}
    \/ /\ Announces(m) /\ u.at = t.at + Len(m.bytes) - 2 /\ u.keys = t.keys /\ m.keys = {}
       /\ m.size # <<>> /\ u.sizes = Append(t.sizes, Clamped(m.size[1], m.size[2]))

\* All of s is in b at p.
AllAt(b, p, s) == p + Len(s) - 1 <= Len(b) /\ StandsAt(b, p, s)

\* Passing over bytes.
LEMMA SkipParts ==
    ASSUME NEW t \in Parsers, NEW n \in Nat
    PROVE  Skip(t, n).at = t.at + n /\ Skip(t, n).keys = t.keys /\ Skip(t, n).sizes = t.sizes
BY DEF Skip, Parsers

\* A key is pressed; but an escape key that is not the last byte is passed over.
LEMMA KeyTaken ==
    ASSUME NEW b \in Seq(Byte), NEW t \in Parsers, NEW c \in Typed, AllAt(b, t.at, Key(c).bytes),
           t.at + 1 <= Len(b) => b[t.at + 1] # Bracket
    PROVE  Taken(t, Step(b, t), Key(c))
<1> DEFINE m == Key(c)
           p == t.at
           u == Step(b, t)
           k == {Capital(c)} \cap AllKeys
<1>1. p \in Nat \ {0} /\ Len(b) \in Nat
  BY DEF Parsers
<1>2. m.bytes = <<c>> /\ m.keys = k /\ m.size = <<>>
  BY DEF Key
<1>3. Len(m.bytes) = 1 /\ m.bytes[1] = c
  BY <1>2
<1>4. p <= Len(b) /\ b[p] = c
  <2>1. p + 1 - 1 <= Len(b) /\ \A q \in 1 .. 1 : p + q - 1 <= Len(b) => b[p + q - 1] = m.bytes[q]
    BY <1>3 DEF AllAt, StandsAt
  <2>2. p + 1 - 1 = p /\ 1 \in 1 .. 1
    BY <1>1
  <2> QED BY <1>3, <2>1, <2>2
<1>5. c # IAC
  BY DEF Typed, IAC
<1>6. CASE c = Escape /\ Rest(b, p) >= 2
  <2>1. b[p + 1] # Bracket
    BY <1>1, <1>6 DEF Rest
  <2>2. u = Skip(t, 1)
    BY <1>4, <1>6, <2>1 DEF Step
  <2>3. k \subseteq {Escape}
    BY <1>6 DEF Capital, Escape
  <2> HIDE DEF u, k, m
  <2>4. u.at = p + 1 /\ u.keys = t.keys /\ u.sizes = t.sizes
    BY <2>2, SkipParts
  <2>5. u.keys \ {Escape} = (t.keys \cup k) \ {Escape}
    BY <2>3, <2>4
  <2> QED BY <1>2, <1>3, <2>4, <2>5 DEF Taken, u, m
<1>7. CASE ~(c = Escape /\ Rest(b, p) >= 2)
  <2>1. u = Skip([t EXCEPT !.keys = @ \cup k], 1)
    BY <1>4, <1>5, <1>7 DEF Step
  <2> HIDE DEF u, k, m
  <2>2. u.at = p + 1 /\ u.keys = t.keys \cup k /\ u.sizes = t.sizes
    BY <2>1 DEF Skip, Parsers
  <2> QED BY <1>2, <1>3, <2>2 DEF Taken, u, m
<1> QED BY <1>6, <1>7

\* An arrow is pressed.
LEMMA ArrowTaken ==
    ASSUME NEW b \in Seq(Byte), NEW t \in Parsers, NEW n \in 0 .. 3, AllAt(b, t.at, Arrow(n).bytes)
    PROVE  Taken(t, Step(b, t), Arrow(n))
<1> DEFINE m == Arrow(n)
           p == t.at
           u == Step(b, t)
<1>1. p \in Nat \ {0} /\ Len(b) \in Nat
  BY DEF Parsers
<1>2. m.bytes = <<Escape, Bracket, 65 + n>> /\ m.keys = {Up + n} /\ m.size = <<>>
  BY DEF Arrow
<1>3. Len(m.bytes) = 3 /\ m.bytes[1] = Escape /\ m.bytes[2] = Bracket /\ m.bytes[3] = 65 + n
  BY <1>2
<1>4. p + 2 <= Len(b) /\ b[p] = Escape /\ b[p + 1] = Bracket /\ b[p + 2] = 65 + n
  <2>1. p + 3 - 1 <= Len(b) /\ \A q \in 1 .. 3 : p + q - 1 <= Len(b) => b[p + q - 1] = m.bytes[q]
    BY <1>3 DEF AllAt, StandsAt
  <2>2. /\ p + 1 - 1 = p /\ p + 2 - 1 = p + 1 /\ p + 3 - 1 = p + 2
        /\ 1 \in 1 .. 3 /\ 2 \in 1 .. 3 /\ 3 \in 1 .. 3
    BY <1>1
  <2>3. p <= Len(b) /\ p + 1 <= Len(b) /\ p + 2 <= Len(b)
    BY <1>1, <2>1, <2>2
  <2> QED BY <1>3, <2>1, <2>2, <2>3
<1>5. Rest(b, p) >= 3 /\ Rest(b, p) >= 2
  BY <1>1, <1>4 DEF Rest
<1>6. b[p + 2] \in 65 .. 68 /\ Up + b[p + 2] - 65 = Up + n
  BY <1>4 DEF Up
<1>7. u = [Skip(t, 3) EXCEPT !.keys = @ \cup {Up + b[p + 2] - 65}]
  BY <1>4, <1>5, <1>6 DEF Step
<1>8. u = [Skip(t, 3) EXCEPT !.keys = @ \cup {Up + n}]
  BY <1>6, <1>7
<1> HIDE DEF u, m
<1>9. u.at = p + 3 /\ u.keys = t.keys \cup {Up + n} /\ u.sizes = t.sizes
  BY <1>8 DEF Skip, Parsers
<1>10. Taken(t, u, m)
  BY <1>2, <1>3, <1>9 DEF Taken
<1> QED BY <1>10 DEF u, m

\* An answer is passed over.
LEMMA AnswerTaken ==
    ASSUME NEW b \in Seq(Byte), NEW t \in Parsers, NEW verb \in Will .. Dont, NEW o \in 0 .. 254,
           AllAt(b, t.at, Answer(verb, o).bytes)
    PROVE  Taken(t, Step(b, t), Answer(verb, o))
<1> DEFINE m == Answer(verb, o)
           p == t.at
           u == Step(b, t)
<1>1. p \in Nat \ {0} /\ Len(b) \in Nat
  BY DEF Parsers
<1>2. m.bytes = <<IAC, verb, o>> /\ m.keys = {} /\ m.size = <<>>
  BY DEF Answer
<1>3. Len(m.bytes) = 3 /\ m.bytes[1] = IAC /\ m.bytes[2] = verb
  BY <1>2
<1>4. p + 2 <= Len(b) /\ b[p] = IAC /\ b[p + 1] = verb
  <2>1. p + 3 - 1 <= Len(b) /\ \A q \in 1 .. 3 : p + q - 1 <= Len(b) => b[p + q - 1] = m.bytes[q]
    BY <1>3 DEF AllAt, StandsAt
  <2>2. /\ p + 1 - 1 = p /\ p + 2 - 1 = p + 1 /\ p + 3 - 1 = p + 2
        /\ 1 \in 1 .. 3 /\ 2 \in 1 .. 3
    BY <1>1
  <2>3. p <= Len(b) /\ p + 1 <= Len(b)
    BY <1>1, <2>1, <2>2
  <2> QED BY <1>3, <2>1, <2>2, <2>3
<1>5. Rest(b, p) >= 3 /\ Rest(b, p) >= 2
  BY <1>1, <1>4 DEF Rest
<1>6. verb # IAC /\ IAC # Escape
  BY DEF Will, Dont, IAC, Escape
<1>7. u = Skip(t, 3)
  BY <1>4, <1>5, <1>6 DEF Step, Command
<1> HIDE DEF u, m
<1>8. u.at = p + 3 /\ u.keys = t.keys /\ u.sizes = t.sizes
  BY <1>7, SkipParts
<1>9. Taken(t, u, m)
  BY <1>2, <1>3, <1>8 DEF Taken
<1> QED BY <1>9 DEF u, m

\* A size is given to the canvas; its end is left.
LEMMA SizeTaken ==
    ASSUME NEW b \in Seq(Byte), NEW t \in Parsers, NEW w \in Extent, NEW h \in Extent,
           AllAt(b, t.at, NewSize(w, h).bytes)
    PROVE  Taken(t, Step(b, t), NewSize(w, h))
<1> DEFINE m == NewSize(w, h)
           s == m.bytes
           p == t.at
           u == Step(b, t)
           x == Wide(w)
           y == Wide(h)
           cols == ColsAt(b, p)
           rows == RowsAt(b, p)
<1>1. p \in Nat \ {0} /\ Len(b) \in Nat
  BY DEF Parsers
<1>2. /\ Len(s) = 5 + x + y
      /\ s[1] = IAC /\ s[2] = SB /\ s[3] = NAWS /\ s[4 + x + y] = IAC
  BY SizeBytes DEF SizeParts
<1>3. x \in {2, 3} /\ y \in {2, 3}
  BY SixteenBytes
<1>4. /\ m.keys = {} /\ m.size = <<w, h>> /\ Announces(m)
  BY DEF NewSize, Announces
<1>5. m.size # <<>> /\ m.size[1] = w /\ m.size[2] = h
  BY <1>4
<1>6. p + (5 + x + y) - 1 <= Len(b) /\ StandsAt(b, p, s)
  BY <1>2 DEF AllAt
<1>7. /\ cols.ok /\ rows.ok /\ cols.value = w /\ rows.value = h
      /\ rows.next = p + 3 + x + y
  <2>1. p + 2 + x + y <= Len(b)
    <3> HIDE DEF x, y, p
    <3> QED BY <1>1, <1>3, <1>6
  <2> HIDE DEF p
  <2> QED BY <1>1, <1>6, <2>1, SizeReads
<1> HIDE DEF s, x, y, u, m, cols, rows
<1>8. b[p] = IAC /\ b[p + 1] = SB /\ b[p + 2] = NAWS /\ b[p + 3 + x + y] = IAC
  <2>1. \A q \in 1 .. 5 + x + y : b[p + q - 1] = s[q]
    <3> SUFFICES ASSUME NEW q \in 1 .. 5 + x + y PROVE b[p + q - 1] = s[q]
      OBVIOUS
    <3>1. p + q - 1 <= Len(b)
      BY <1>1, <1>3, <1>6
    <3> QED BY <1>2, <1>6, <3>1 DEF StandsAt
  <2>2. /\ p + 1 - 1 = p /\ p + 2 - 1 = p + 1 /\ p + 3 - 1 = p + 2
        /\ p + (4 + x + y) - 1 = p + 3 + x + y
        /\ 1 \in 1 .. 5 + x + y /\ 2 \in 1 .. 5 + x + y /\ 3 \in 1 .. 5 + x + y
        /\ 4 + x + y \in 1 .. 5 + x + y
    BY <1>1, <1>3
  <2>3. b[p + 1 - 1] = s[1] /\ b[p + 2 - 1] = s[2] /\ b[p + 3 - 1] = s[3]
    BY <2>1, <2>2
  <2>4. b[p + (4 + x + y) - 1] = s[4 + x + y]
    BY <2>1, <2>2
  <2> QED BY <1>2, <2>2, <2>3, <2>4
<1>9. Rest(b, p) >= 5 /\ Rest(b, p) >= 2
  BY <1>1, <1>3, <1>6 DEF Rest
<1>10. IAC # Escape /\ SB # IAC /\ SB \notin Will .. Dont
  BY DEF IAC, Escape, SB, Will, Dont
<1>11. u = Window(b, t)
  BY <1>8, <1>9, <1>10 DEF Step, Command, u
<1>12. b[rows.next] = IAC
  BY <1>7, <1>8
<1>13. u = [t EXCEPT !.at = rows.next, !.sizes = Append(@, Clamped(cols.value, rows.value))]
  BY <1>7, <1>11, <1>12 DEF Window, cols, rows, ColsAt, RowsAt
<1>14. u.at = rows.next /\ u.keys = t.keys /\ u.sizes = Append(t.sizes, Clamped(w, h))
  <2> DEFINE size == Clamped(w, h)
  <2>1. u = [t EXCEPT !.at = rows.next, !.sizes = Append(@, size)]
    BY <1>7, <1>13
  <2> HIDE DEF size
  <2>2. u.at = rows.next /\ u.keys = t.keys /\ u.sizes = Append(t.sizes, size)
    BY <2>1 DEF Parsers
  <2> QED BY <2>2 DEF size
<1>15. Len(m.bytes) = 5 + x + y /\ u.at = p + (5 + x + y) - 2
  BY <1>1, <1>2, <1>3, <1>7, <1>14 DEF s
<1>16. Taken(t, u, m)
  BY <1>4, <1>5, <1>14, <1>15 DEF Taken
<1> QED BY <1>16 DEF u, m

\* So of every message, unless "[" follows.
LEMMA MessageTaken ==
    ASSUME NEW b \in Seq(Byte), NEW t \in Parsers, NEW m, IsMessage(m), AllAt(b, t.at, m.bytes),
           t.at + Len(m.bytes) <= Len(b) => b[t.at + Len(m.bytes)] # Bracket
    PROVE  Taken(t, Step(b, t), m)
<1>1. ASSUME NEW c \in Typed, m = Key(c) PROVE Taken(t, Step(b, t), m)
  <2>1. AllAt(b, t.at, Key(c).bytes)
    BY <1>1
  <2>2. Len(m.bytes) = 1
    BY <1>1 DEF Key
  <2>3. t.at + 1 <= Len(b) => b[t.at + 1] # Bracket
    BY <2>2
  <2>4. Taken(t, Step(b, t), Key(c))
    BY <2>1, <2>3, KeyTaken
  <2> QED BY <1>1, <2>4, Zenon
<1>2. ASSUME NEW n \in 0 .. 3, m = Arrow(n) PROVE Taken(t, Step(b, t), m)
  <2>1. AllAt(b, t.at, Arrow(n).bytes)
    BY <1>2
  <2>2. Taken(t, Step(b, t), Arrow(n))
    BY <2>1, ArrowTaken
  <2> QED BY <1>2, <2>2, Zenon
<1>3. ASSUME NEW verb \in Will .. Dont, NEW o \in 0 .. 254, m = Answer(verb, o) PROVE Taken(t, Step(b, t), m)
  <2>1. AllAt(b, t.at, Answer(verb, o).bytes)
    BY <1>3
  <2>2. Taken(t, Step(b, t), Answer(verb, o))
    BY <2>1, AnswerTaken
  <2> QED BY <1>3, <2>2, Zenon
<1>4. ASSUME m.size[1] \in Extent, m.size[2] \in Extent, m = NewSize(m.size[1], m.size[2])
      PROVE  Taken(t, Step(b, t), m)
  <2> DEFINE w == m.size[1]  h == m.size[2]
  <2>1. w \in Extent /\ h \in Extent /\ m = NewSize(w, h)
    BY <1>4
  <2> HIDE DEF w, h
  <2>2. AllAt(b, t.at, NewSize(w, h).bytes)
    BY <2>1
  <2>3. Taken(t, Step(b, t), NewSize(w, h))
    BY <2>1, <2>2, SizeTaken
  <2> QED BY <2>1, <2>3, Zenon
<1> QED BY <1>1, <1>2, <1>3, <1>4 DEF IsMessage

\* The end of a size is passed over.
LEMMA SizeEndTaken ==
    ASSUME NEW b \in Seq(Byte), NEW t \in Parsers, t.at <= Len(b)
    PROVE  /\ b[t.at] = IAC /\ t.at + 1 <= Len(b) /\ b[t.at + 1] = SE => Step(b, t) = Skip(t, 1)
           /\ b[t.at] = SE => Step(b, t).at = t.at + 1 /\ Step(b, t).keys = t.keys /\ Step(b, t).sizes = t.sizes
<1>1. t.at \in Nat \ {0} /\ Len(b) \in Nat
  BY DEF Parsers
<1>2. SE # Escape /\ SE # IAC /\ IAC # Escape /\ SE # SB /\ SE \notin Will .. Dont
  BY DEF SE, Escape, IAC, SB, Will, Dont
<1>3. {Capital(SE)} \cap AllKeys = {}
  BY DEF Capital, SE, AllKeys, Letters, Numbers, Arrows, Up, Left, Escape, Enter, Blank
<1>4. ASSUME b[t.at] = IAC, t.at + 1 <= Len(b), b[t.at + 1] = SE PROVE Step(b, t) = Skip(t, 1)
  <2>1. Rest(b, t.at) >= 2
    BY <1>1, <1>4 DEF Rest
  <2> QED BY <1>2, <1>4, <2>1 DEF Step, Command
<1>5. ASSUME b[t.at] = SE
      PROVE  Step(b, t).at = t.at + 1 /\ Step(b, t).keys = t.keys /\ Step(b, t).sizes = t.sizes
  <2> DEFINE k == {Capital(SE)} \cap AllKeys
             u == Step(b, t)
  <2>1. u = Skip([t EXCEPT !.keys = @ \cup k], 1)
    BY <1>2, <1>5 DEF Step
  <2>2. k = {}
    BY <1>3
  <2> HIDE DEF u, k
  <2>3. u.at = t.at + 1 /\ u.keys = t.keys \cup k /\ u.sizes = t.sizes
    BY <2>1 DEF Skip, Parsers
  <2> QED BY <2>2, <2>3 DEF u
<1> QED BY <1>4, <1>5

\* What the first j packets on the way press, and which of them are sizes.
Pressed(j) == keyboard \cup UNION {wire[i].keys : i \in 1 .. j}
Asked(j)   == {i \in 1 .. j : wire[i].size # <<>>}

\* The parser has understood them.
KeysUpTo(t, j) == t.keys \ {Escape} = Pressed(j) \ {Escape}
SizesUpTo(t, j) ==
    \/ Asked(j) = {} /\ Len(t.sizes) = 0
    \/ \E a \in Asked(j) : /\ \A i \in Asked(j) : i <= a
                           /\ Len(t.sizes) # 0
                           /\ t.sizes[Len(t.sizes)] = Clamped(wire[a].size[1], wire[a].size[2])

\* One more.
LEMMA OneMore ==
    ASSUME NEW j \in Nat, NEW t \in Parsers, NEW u,
           Taken(t, u, wire[j + 1]), KeysUpTo(t, j), SizesUpTo(t, j)
    PROVE  KeysUpTo(u, j + 1) /\ SizesUpTo(u, j + 1)
<1> DEFINE m == wire[j + 1]
           x == Clamped(m.size[1], m.size[2])
<1>1. Pressed(j + 1) = Pressed(j) \cup m.keys
  <2>1. \A i : i \in 1 .. j + 1 <=> i \in 1 .. j \/ i = j + 1
    OBVIOUS
  <2> QED BY <2>1 DEF Pressed
<1>2. \A i : i \in Asked(j + 1) <=> i \in Asked(j) \/ (i = j + 1 /\ m.size # <<>>)
  <2>1. \A i : i \in 1 .. j + 1 <=> i \in 1 .. j \/ i = j + 1
    OBVIOUS
  <2> QED BY <2>1 DEF Asked
<1>3. \A i \in Asked(j) : i <= j + 1
  BY DEF Asked
<1>4. t.sizes \in Seq(Sides)
  BY DEF Parsers
<1> HIDE DEF x, m
<1>5. CASE /\ m.size = <<>> /\ u.sizes = t.sizes
           /\ u.keys \ {Escape} = (t.keys \cup m.keys) \ {Escape}
  <2>1. KeysUpTo(u, j + 1)
    BY <1>1, <1>5 DEF KeysUpTo
  <2>2. Asked(j + 1) = Asked(j)
    BY <1>2, <1>5
  <2>3. SizesUpTo(u, j + 1)
    BY <1>5, <2>2 DEF SizesUpTo
  <2> QED BY <2>1, <2>3
<1>6. CASE m.size # <<>> /\ u.keys = t.keys /\ m.keys = {} /\ u.sizes = Append(t.sizes, x)
  <2>1. KeysUpTo(u, j + 1)
    BY <1>1, <1>6 DEF KeysUpTo
  <2>2. Len(u.sizes) = Len(t.sizes) + 1 /\ u.sizes[Len(t.sizes) + 1] = x
    <3> DEFINE S == Sides \cup {x}
    <3>1. \A y \in Sides : y \in S
      OBVIOUS
    <3>2. x \in S
      OBVIOUS
    <3> HIDE DEF S
    <3>3. t.sizes \in Seq(S)
      BY <1>4, <3>1
    <3> QED BY <1>6, <3>2, <3>3, AppendProperties
  <2>3. Len(t.sizes) \in Nat
    BY <1>4
  <2>4. Len(u.sizes) # 0 /\ u.sizes[Len(u.sizes)] = x
    BY <2>2, <2>3
  <2>5. j + 1 \in Asked(j + 1) /\ \A i \in Asked(j + 1) : i <= j + 1
    BY <1>2, <1>3, <1>6
  <2>6. x = Clamped(wire[j + 1].size[1], wire[j + 1].size[2])
    BY DEF x, m
  <2>7. SizesUpTo(u, j + 1)
    BY <2>4, <2>5, <2>6 DEF SizesUpTo
  <2> QED BY <2>1, <2>7
<1> QED BY <1>5, <1>6 DEF Taken, m, x

\* How the message of a size ends.
LEMMA SizeEnds ==
    ASSUME NEW b \in Seq(Byte), NEW p \in Nat \ {0}, NEW m, Announces(m), AllAt(b, p, m.bytes)
    PROVE  /\ Len(m.bytes) \in Nat /\ Len(m.bytes) >= 2
           /\ b[p + Len(m.bytes) - 2] = IAC /\ b[p + Len(m.bytes) - 1] = SE
<1>1. PICK w \in Extent, h \in Extent : m = NewSize(w, h)
  BY DEF Announces
<1> DEFINE s == m.bytes
           x == Wide(w)
           y == Wide(h)
           k == Len(s)
<1>2. k = 5 + x + y /\ s[4 + x + y] = IAC /\ s[5 + x + y] = SE
  BY <1>1, SizeBytes DEF SizeParts
<1>3. x \in {2, 3} /\ y \in {2, 3}
  BY SixteenBytes
<1>4. p + k - 1 <= Len(b) /\ \A q \in 1 .. k : p + q - 1 <= Len(b) => b[p + q - 1] = s[q]
  BY DEF AllAt, StandsAt
<1>5. Len(b) \in Nat
  OBVIOUS
<1> HIDE DEF s, x, y, k
<1>6. /\ k \in Nat /\ k >= 2 /\ k - 1 \in 1 .. k /\ k \in 1 .. k
      /\ s[k - 1] = IAC /\ s[k] = SE
  <2>1. k \in Nat /\ k - 1 = 4 + x + y
    BY <1>2, <1>3
  <2> QED BY <1>2, <1>3, <2>1
<1>7. b[p + (k - 1) - 1] = IAC /\ b[p + k - 1] = SE
  <2>1. p + (k - 1) - 1 <= Len(b)
    BY <1>4, <1>5, <1>6
  <2> QED BY <1>4, <1>6, <2>1
<1>8. p + (k - 1) - 1 = p + k - 2
  BY <1>6
<1> QED BY <1>6, <1>7, <1>8 DEF s, k

\* Where the messages lie in a packet of whole ones.
LEMMA MessagesLie ==
    ASSUME NEW n \in Nat, NEW g, NEW e, Joins(g, e, n + 1), Len(e[n + 1]) = 0,
           \A j \in 1 .. n : e[j] = wire[j].bytes
    PROVE  /\ g[n + 1] \in Seq(Byte) /\ End(g, 0) = 0 /\ End(g, n) = Len(g[n + 1])
           /\ \A j \in 0 .. n : End(g, j) \in Nat /\ End(g, j) <= End(g, n)
           /\ \A j \in 1 .. n : /\ End(g, j) = End(g, j - 1) + Len(wire[j].bytes)
                                /\ AllAt(g[n + 1], End(g, j - 1) + 1, wire[j].bytes)
<1> DEFINE b == g[n + 1]
<1>1. b \in Seq(Byte) /\ Len(b) = End(g, n + 1)
  BY DEF Joins, End
<1>2. n + 1 \in Nat /\ n + 1 \in 1 .. n + 1 /\ n + 1 - 1 = n
  OBVIOUS
<1>3. (\A i \in 0 .. n + 1 : End(g, i) \in Nat) /\ End(g, 0) = 0
  BY <1>2, EndsType
<1>4. \A j \in 1 .. n + 1 :
              /\ End(g, j - 1) \in Nat /\ Span(e, j) \in Nat
              /\ End(g, j) = End(g, j - 1) + Span(e, j) /\ End(g, j) <= End(g, n + 1)
              /\ \A q \in 1 .. Span(e, j) : b[End(g, j - 1) + q] = e[j][q]
  BY <1>2, PiecesLie
<1>5. End(g, n + 1) = End(g, n)
  <2>1. End(g, n + 1) = End(g, n + 1 - 1) + Span(e, n + 1) /\ Span(e, n + 1) = 0 /\ End(g, n) \in Nat
    BY <1>2, <1>3, <1>4 DEF Span
  <2> QED BY <1>2, <2>1
<1>6. \A j \in 0 .. n : End(g, j) \in Nat /\ End(g, j) <= End(g, n)
  <2> SUFFICES ASSUME NEW j \in 0 .. n PROVE End(g, j) \in Nat /\ End(g, j) <= End(g, n)
    OBVIOUS
  <2>1. j \in 0 .. n + 1 /\ (j = 0 \/ j \in 1 .. n + 1) /\ n \in 0 .. n + 1
    OBVIOUS
  <2>2. End(g, j) \in Nat /\ End(g, n) \in Nat
    BY <1>3, <2>1
  <2>3. CASE j = 0
    BY <1>3, <2>2, <2>3
  <2>4. CASE j \in 1 .. n + 1
    BY <1>4, <1>5, <2>2, <2>4
  <2> QED BY <2>1, <2>3, <2>4
<1>7. ASSUME NEW j \in 1 .. n
      PROVE  /\ End(g, j) = End(g, j - 1) + Len(wire[j].bytes)
             /\ AllAt(b, End(g, j - 1) + 1, wire[j].bytes)
  <2> DEFINE s == wire[j].bytes
             p == End(g, j - 1)
  <2>1. j \in 1 .. n + 1 /\ j \in 0 .. n
    OBVIOUS
  <2>2. e[j] = s /\ Span(e, j) = Len(s)
    BY DEF Span
  <2>3. /\ p \in Nat /\ Len(s) \in Nat /\ End(g, j) = p + Len(s)
        /\ \A q \in 1 .. Len(s) : b[p + q] = s[q]
    BY <1>4, <2>1, <2>2
  <2>4. End(g, j) <= Len(b)
    BY <1>1, <1>5, <1>6, <2>1
  <2> HIDE DEF s, p, b
  <2>5. p + 1 + Len(s) - 1 <= Len(b)
    <3>1. p + 1 + Len(s) - 1 = p + Len(s)
      BY <2>3
    <3> QED BY <2>3, <2>4, <3>1
  <2>6. ASSUME NEW q \in 1 .. Len(s) PROVE b[p + 1 + q - 1] = s[q]
    <3>1. p + 1 + q - 1 = p + q
      BY <2>3
    <3> QED BY <2>3, <3>1
  <2>7. AllAt(b, p + 1, s)
    BY <2>5, <2>6 DEF AllAt, StandsAt
  <2> QED BY <2>3, <2>7 DEF s, p
<1> QED BY <1>1, <1>3, <1>5, <1>6, <1>7

\* The parser is behind message j, or before the last bytes of a size.
Behind(g, t, j, r) ==
    /\ t.at = End(g, j) + 1 - r
    /\ r # 0 => j # 0 /\ Announces(wire[j])
    /\ KeysUpTo(t, j) /\ SizesUpTo(t, j)

\* A packet of whole messages is understood.
LEMMA WholeMessagesRead ==
    ASSUME NEW n \in Nat, NEW g, NEW e, Joins(g, e, n + 1), Len(e[n + 1]) = 0,
           \A j \in 1 .. n : e[j] = wire[j].bytes /\ IsMessage(wire[j]),
           keyboard \in SUBSET AllKeys
    PROVE  KeysUpTo(Parse(g[n + 1], keyboard), n) /\ SizesUpTo(Parse(g[n + 1], keyboard), n)
<1> DEFINE b == g[n + 1]
           first == [at |-> 1, keys |-> keyboard, sizes |-> <<>>]
           S == {t \in Parsers : \E j \in 0 .. n, r \in {0, 1, 2} : Behind(g, t, j, r)}
<1>1. /\ b \in Seq(Byte) /\ End(g, 0) = 0 /\ End(g, n) = Len(b)
      /\ \A j \in 0 .. n : End(g, j) \in Nat /\ End(g, j) <= End(g, n)
      /\ \A j \in 1 .. n : /\ End(g, j) = End(g, j - 1) + Len(wire[j].bytes)
                           /\ AllAt(b, End(g, j - 1) + 1, wire[j].bytes)
  BY MessagesLie
<1>2. \A j \in 1 .. n : IsMessage(wire[j]) /\ Sound(wire[j])
  BY MessagesAreSound
<1>3. \A j \in 1 .. n : Len(wire[j].bytes) \in Nat /\ Len(wire[j].bytes) >= 1 /\ wire[j].bytes[1] # Bracket
  BY <1>2 DEF Sound
<1> HIDE DEF b
<1>4. first \in S
  <2>1. first \in Parsers
    BY DEF Parsers
  <2>2. Pressed(0) = keyboard /\ Asked(0) = {}
    <3>1. 1 .. 0 = {}
      OBVIOUS
    <3> QED BY <3>1 DEF Pressed, Asked
  <2>3. KeysUpTo(first, 0) /\ SizesUpTo(first, 0)
    BY <2>2 DEF KeysUpTo, SizesUpTo
  <2>4. first.at = End(g, 0) + 1 - 0
    BY <1>1
  <2> HIDE DEF first
  <2>5. Behind(g, first, 0, 0)
    BY <2>3, <2>4 DEF Behind
  <2> QED BY <2>1, <2>5
<1>5. ASSUME NEW t \in Parsers, t \in S, t.at <= Len(b) PROVE Step(b, t) \in S
  <2> DEFINE u == Step(b, t)
  <2>1. u \in Parsers
    BY <1>1, <1>5, StepType
  <2>2. PICK j \in 0 .. n, r \in {0, 1, 2} : Behind(g, t, j, r)
    BY <1>5
  <2>3. End(g, j) \in Nat /\ j \in Nat
    BY <1>1
  <2>4. t.at \in Nat \ {0} /\ Len(b) \in Nat
    BY <1>1 DEF Parsers
  <2>5. t.at = End(g, j) + 1 - r /\ KeysUpTo(t, j) /\ SizesUpTo(t, j)
    BY <2>2 DEF Behind
  <2> HIDE DEF u
  <2>6. CASE r = 0
    <3> DEFINE m == wire[j + 1]
    <3>1. t.at = End(g, j) + 1
      BY <2>3, <2>5, <2>6
    <3>2. j # n
      BY <1>1, <1>5, <2>3, <3>1
    <3>3. j + 1 \in 1 .. n /\ j + 1 - 1 = j
      BY <3>2
    <3>4. End(g, j + 1) = End(g, j) + Len(m.bytes) /\ AllAt(b, t.at, m.bytes)
      BY <1>1, <3>1, <3>3
    <3>5. IsMessage(m) /\ Len(m.bytes) \in Nat
      BY <1>2, <1>3, <3>3
    <3>6. ASSUME t.at + Len(m.bytes) <= Len(b) PROVE b[t.at + Len(m.bytes)] # Bracket
      <4>1. t.at + Len(m.bytes) = End(g, j + 1) + 1
        BY <2>3, <3>1, <3>4, <3>5
      <4>2. End(g, j + 1) \in Nat /\ j + 1 # n
        BY <1>1, <2>3, <3>3, <3>4, <3>5, <3>6, <4>1
      <4>3. j + 1 + 1 \in 1 .. n /\ j + 1 + 1 - 1 = j + 1
        BY <3>3, <4>2
      <4>4. AllAt(b, End(g, j + 1) + 1, wire[j + 1 + 1].bytes)
        BY <1>1, <4>3
      <4>5. /\ Len(wire[j + 1 + 1].bytes) \in Nat /\ Len(wire[j + 1 + 1].bytes) >= 1
            /\ wire[j + 1 + 1].bytes[1] # Bracket
        BY <1>3, <4>3
      <4>6. 1 \in 1 .. Len(wire[j + 1 + 1].bytes) /\ End(g, j + 1) + 1 + 1 - 1 = End(g, j + 1) + 1
        BY <4>2, <4>5
      <4>7. b[End(g, j + 1) + 1 + 1 - 1] = wire[j + 1 + 1].bytes[1]
        BY <3>6, <4>1, <4>4, <4>6 DEF AllAt, StandsAt
      <4> QED BY <4>1, <4>5, <4>6, <4>7
    <3>7. Taken(t, u, m)
      BY <1>1, <3>4, <3>5, <3>6, MessageTaken DEF u
    <3>8. KeysUpTo(u, j + 1) /\ SizesUpTo(u, j + 1)
      BY <2>3, <2>5, <3>7, OneMore
    <3>9. j + 1 \in 0 .. n /\ j + 1 # 0
      BY <3>3
    <3>10. CASE u.at = t.at + Len(m.bytes)
      <4>1. u.at = End(g, j + 1) + 1 - 0
        BY <2>3, <3>1, <3>4, <3>5, <3>10
      <4>2. Behind(g, u, j + 1, 0)
        BY <3>8, <4>1 DEF Behind
      <4> QED BY <2>1, <3>9, <4>2 DEF u
    <3>11. CASE u.at = t.at + Len(m.bytes) - 2 /\ Announces(m)
      <4>1. u.at = End(g, j + 1) + 1 - 2
        BY <2>3, <3>1, <3>4, <3>5, <3>11
      <4>2. Behind(g, u, j + 1, 2)
        BY <3>8, <3>9, <3>11, <4>1 DEF Behind
      <4> QED BY <2>1, <3>9, <4>2 DEF u
    <3> QED BY <3>7, <3>10, <3>11 DEF Taken
  <2>7. CASE r # 0
    <3> DEFINE m == wire[j]
               p == End(g, j - 1) + 1
    <3>1. Announces(m) /\ j \in 1 .. n /\ j - 1 \in 0 .. n
      BY <2>2, <2>7 DEF Behind
    <3>2. End(g, j) = End(g, j - 1) + Len(m.bytes) /\ AllAt(b, p, m.bytes) /\ End(g, j - 1) \in Nat
      BY <1>1, <3>1
    <3>3. p \in Nat \ {0}
      BY <3>2
    <3>4. /\ Len(m.bytes) \in Nat /\ Len(m.bytes) >= 2
          /\ b[p + Len(m.bytes) - 2] = IAC /\ b[p + Len(m.bytes) - 1] = SE
      BY <1>1, <3>1, <3>2, <3>3, SizeEnds
    <3>5. p + Len(m.bytes) - 2 = End(g, j) - 1 /\ p + Len(m.bytes) - 1 = End(g, j)
      <4> DEFINE x == End(g, j - 1)
                 y == Len(m.bytes)
                 z == End(g, j)
      <4>1. x \in Nat /\ y \in Nat /\ z = x + y
        BY <3>2, <3>4
      <4> HIDE DEF x, y, z
      <4>2. x + 1 + y - 2 = z - 1 /\ x + 1 + y - 1 = z
        BY <4>1
      <4> QED BY <4>2, Zenon DEF x, y, z
    <3>6. b[End(g, j) - 1] = IAC /\ b[End(g, j)] = SE /\ End(g, j) <= Len(b)
      BY <1>1, <3>4, <3>5
    <3>7. CASE r = 2
      <4>1. t.at = End(g, j) - 1 /\ t.at + 1 = End(g, j)
        BY <2>3, <2>5, <3>7
      <4>2. b[t.at] = IAC /\ t.at + 1 <= Len(b) /\ b[t.at + 1] = SE
        BY <3>6, <4>1
      <4>3. u = Skip(t, 1)
        BY <1>1, <1>5, <4>2, SizeEndTaken DEF u
      <4>4. u.at = t.at + 1 /\ u.keys = t.keys /\ u.sizes = t.sizes
        BY <4>3, SkipParts
      <4>5. u.at = End(g, j) + 1 - 1
        BY <2>3, <4>1, <4>4
      <4>6. KeysUpTo(u, j) /\ SizesUpTo(u, j)
        BY <2>5, <4>4 DEF KeysUpTo, SizesUpTo
      <4>7. Behind(g, u, j, 1)
        BY <3>1, <4>5, <4>6 DEF Behind
      <4> QED BY <2>1, <4>7 DEF u
    <3>8. CASE r = 1
      <4>1. t.at = End(g, j)
        BY <2>3, <2>5, <3>8
      <4>2. b[t.at] = SE
        BY <3>6, <4>1
      <4>3. u.at = t.at + 1 /\ u.keys = t.keys /\ u.sizes = t.sizes
        BY <1>1, <1>5, <4>2, SizeEndTaken DEF u
      <4>4. u.at = End(g, j) + 1 - 0
        BY <2>3, <4>1, <4>3
      <4>5. KeysUpTo(u, j) /\ SizesUpTo(u, j)
        BY <2>5, <4>3 DEF KeysUpTo, SizesUpTo
      <4>6. Behind(g, u, j, 0)
        BY <4>4, <4>5 DEF Behind
      <4> QED BY <2>1, <4>6 DEF u
    <3> QED BY <2>7, <3>7, <3>8
  <2> QED BY <2>6, <2>7
<1> DEFINE end == Parse(b, keyboard)
<1>6. end \in S /\ end \in Parsers /\ end.at > Len(b)
  <2> HIDE DEF S
  <2> QED BY <1>1, <1>4, <1>5, ParseInduction
<1> HIDE DEF end
<1>7. PICK j \in 0 .. n, r \in {0, 1, 2} : Behind(g, end, j, r)
  BY <1>6
<1>8. j = n
  <2> SUFFICES ASSUME j # n PROVE FALSE
    OBVIOUS
  <2>1. j + 1 \in 1 .. n /\ j + 1 \in 0 .. n /\ j + 1 - 1 = j
    OBVIOUS
  <2>2. End(g, j + 1) = End(g, j) + Len(wire[j + 1].bytes) /\ End(g, j + 1) <= End(g, n)
    BY <1>1, <2>1
  <2>3. Len(wire[j + 1].bytes) \in Nat /\ Len(wire[j + 1].bytes) >= 1
    BY <1>3, <2>1
  <2>4. end.at = End(g, j) + 1 - r /\ End(g, j) \in Nat /\ End(g, n) \in Nat
    BY <1>1, <1>7 DEF Behind
  <2>5. Len(b) = End(g, n) /\ End(g, j + 1) \in Nat
    BY <1>1, <2>2, <2>3, <2>4
  <2>6. \A x, y, l, z \in Nat : y = x + l /\ y <= z /\ l >= 1 => ~(x + 1 - r > z)
    OBVIOUS
  <2>7. end.at > Len(b)
    BY <1>6
  <2> QED BY <2>2, <2>3, <2>4, <2>5, <2>6, <2>7, Zenon
<1> QED BY <1>7, <1>8 DEF Behind, end, b

\* When whole messages have gone, the receive loop has read them, and nothing of the next.
LEMMA WholeMessagesReceived ==
    ASSUME Types, WireIsSent, \A m \in Messages : IsMessage(m), Next,
           NEW n \in 1 .. Len(wire), \A i \in 1 .. n : "keys" \in DOMAIN wire[i],
           wire' = SubSeq(wire, n + 1, Len(wire))
    PROVE  /\ 0 \in 0 .. (IF n < Len(wire) THEN Len(wire[n + 1].bytes) - 1 ELSE 0) /\ Receive(n, 0)
           /\ \A i \in 1 .. n : IsMessage(wire[i])
<1>1. wire \in Seq(Packets) /\ Len(wire) \in Nat /\ n \in Nat /\ n >= 1 /\ n <= Len(wire)
  BY DEF Types
<1>2. \A m \in Messages : DOMAIN m = {"bytes", "keys", "size"}
  BY MessagesAreSound DEF Sound
<1>3. \A i \in 1 .. n : wire[i] \in Messages
  <2> SUFFICES ASSUME NEW i \in 1 .. n PROVE wire[i] \in Messages
    OBVIOUS
  <2>1. i \in 1 .. Len(wire) /\ "keys" \in DOMAIN wire[i]
    BY <1>1
  <2>2. "keys" \notin {"bytes"}
    OBVIOUS
  <2> QED BY <2>1, <2>2 DEF WireIsSent, Remnant
<1>4. /\ Len(wire') = Len(wire) - n
      /\ \A i \in 1 .. Len(wire) - n : wire'[i] = wire[n + i]
  <2> DEFINE cut == SubSeq(wire, n + 1, Len(wire))
  <2>1. \A i \in n + 1 .. Len(wire) : wire[i] \in Packets
    BY <1>1
  <2>2. n + 1 \in Int /\ Len(wire) \in Int
    BY <1>1
  <2>3. /\ Len(cut) = IF n + 1 <= Len(wire) THEN Len(wire) - (n + 1) + 1 ELSE 0
        /\ \A i \in 1 .. Len(wire) - (n + 1) + 1 : cut[i] = wire[n + 1 + i - 1]
    BY <2>1, <2>2, SubSeqProperties
  <2>4. wire' = cut
    OBVIOUS
  <2> HIDE DEF cut
  <2>5. ASSUME NEW i \in 1 .. Len(wire) - n PROVE wire'[i] = wire[n + i]
    <3>1. i \in 1 .. Len(wire) - (n + 1) + 1 /\ n + 1 + i - 1 = n + i
      BY <1>1
    <3>2. cut[i] = wire[n + 1 + i - 1]
      BY <2>3, <3>1
    <3> QED BY <2>4, <3>1, <3>2
  <2> QED BY <1>1, <2>3, <2>4, <2>5
<1>5. wire' # wire /\ wire # <<>>
  BY <1>1, <1>4
<1>6. ~ \E m \in Messages : Send(m)
  <2> SUFFICES ASSUME NEW m \in Messages, Send(m) PROVE FALSE
    OBVIOUS
  <2>1. wire' = Append(wire, m) /\ m \in Packets
    BY DEF Send, Packets
  <2>2. Len(wire') = Len(wire) + 1
    BY <1>1, <2>1, AppendProperties
  <2> QED BY <1>1, <1>4, <2>2
<1>7. Receiving
  <2>1. (\E m \in Messages : Send(m)) \/ Receiving \/ wire' = wire
    BY DEF Next, vars, Tick, PushScreen, Erase, BeginFlush, NoTick, Draw, DrawPut, DrawFill, DrawBlock, DrawRect, DrawLine,
           DrawText, DrawCells, Drawing, Flush, FlushGreeting, FlushCanvas
  <2> QED BY <1>5, <1>6, <2>1
<1>8. PICK a \in 0 .. Len(wire) :
         \E k \in 0 .. (IF a < Len(wire) THEN Len(wire[a + 1].bytes) - 1 ELSE 0) : Receive(a, k)
  BY <1>7 DEF Receiving
<1>9. PICK k \in 0 .. (IF a < Len(wire) THEN Len(wire[a + 1].bytes) - 1 ELSE 0) : Receive(a, k)
  BY <1>8
<1>10. /\ Len(wire') = Len(wire) - a
       /\ k # 0 =>
            /\ a + 1 \in 1 .. Len(wire)
            /\ wire'[1] = [bytes |-> SubSeq(wire[a + 1].bytes, k + 1, Len(wire[a + 1].bytes))]
  BY <1>9, WireReceived
<1>11. a = n
  BY <1>1, <1>4, <1>10
<1>12. k = 0
  <2> SUFFICES ASSUME k # 0 PROVE FALSE
    OBVIOUS
  <2>1. n + 1 \in 1 .. Len(wire) /\ 1 \in 1 .. Len(wire) - n /\ n + 1 # 1
    BY <1>1, <1>10, <1>11
  <2>2. wire'[1] = wire[n + 1] /\ wire[n + 1] \in Messages
    BY <1>4, <2>1 DEF WireIsSent
  <2>3. DOMAIN wire'[1] = {"bytes"}
    <3> DEFINE s == SubSeq(wire[a + 1].bytes, k + 1, Len(wire[a + 1].bytes))
    <3>1. wire'[1] = [bytes |-> s]
      BY <1>10
    <3> HIDE DEF s
    <3> QED BY <3>1
  <2>4. "keys" \in {"bytes", "keys", "size"} /\ "keys" \notin {"bytes"}
    OBVIOUS
  <2> QED BY <1>2, <2>2, <2>3, <2>4
<1> QED BY <1>3, <1>9, <1>11, <1>12

\* What a packet of whole messages does.
LEMMA WholeMessagesDo ==
    ASSUME IInv, WireIsSent, NEW n \in 1 .. Len(wire), \A i \in 1 .. n : IsMessage(wire[i]),
           0 \in 0 .. (IF n < Len(wire) THEN Len(wire[n + 1].bytes) - 1 ELSE 0), Receive(n, 0),
           NEW size, size = wire[CHOOSE i \in Asked(n) : \A j \in Asked(n) : j <= i].size
    PROVE  /\ keyboard' \ {Escape} = Pressed(n) \ {Escape}
           /\ <<canvas'.w, canvas'.h>> = IF Asked(n) = {} THEN <<canvas.w, canvas.h>>
                                         ELSE Clamped(size[1], size[2])
<1>1. Types /\ canvas \in Canvases /\ keyboard \in SUBSET AllKeys /\ wire \in Seq(Packets)
      /\ n \in 0 .. Len(wire) /\ n \in Nat /\ n + 1 \in Nat
  BY DEF IInv, Types
<1>2. PICK g, e : /\ Joins(g, e, n + 1)
                  /\ \A j \in 1 .. n : e[j] = wire[j].bytes
                  /\ Len(e[n + 1]) = 0
                  /\ keyboard' = Parse(g[n + 1], keyboard).keys
                  /\ canvas' = ResizedBy(canvas, Parse(g[n + 1], keyboard).sizes)
  BY <1>1, PacketHasPieces
<1> DEFINE t == Parse(g[n + 1], keyboard)
           a == CHOOSE i \in Asked(n) : \A j \in Asked(n) : j <= i
<1>3. KeysUpTo(t, n) /\ SizesUpTo(t, n)
  BY <1>1, <1>2, WholeMessagesRead
<1>4. t.sizes \in Seq(Sides)
  <2>1. g[n + 1] \in Seq(Byte)
    BY <1>1, <1>2 DEF Joins
  <2> QED BY <1>1, <2>1, ParseType
<1> HIDE DEF t
<1>5. keyboard' \ {Escape} = Pressed(n) \ {Escape}
  BY <1>2, <1>3 DEF KeysUpTo, t
<1>6. <<canvas'.w, canvas'.h>> = IF Len(t.sizes) = 0 THEN <<canvas.w, canvas.h>> ELSE t.sizes[Len(t.sizes)]
  BY <1>1, <1>2, <1>4, ResizedByLast DEF t
<1>7. CASE Asked(n) = {}
  <2>1. Len(t.sizes) = 0
    BY <1>3, <1>7 DEF SizesUpTo
  <2> QED BY <1>5, <1>6, <1>7, <2>1
<1>8. CASE Asked(n) # {}
  <2>1. PICK c \in Asked(n) : /\ \A i \in Asked(n) : i <= c
                              /\ Len(t.sizes) # 0
                              /\ t.sizes[Len(t.sizes)] = Clamped(wire[c].size[1], wire[c].size[2])
    BY <1>3, <1>8 DEF SizesUpTo
  <2>2. a \in Asked(n) /\ \A j \in Asked(n) : j <= a
    BY <2>1
  <2> HIDE DEF a
  <2>3. a <= c /\ c <= a /\ a \in Nat /\ c \in Nat
    BY <2>1, <2>2 DEF Asked
  <2>4. a = c
    BY <2>3
  <2>5. size = wire[c].size
    BY <2>4 DEF a
  <2>6. <<canvas'.w, canvas'.h>> = Clamped(size[1], size[2])
    BY <1>6, <2>1, <2>5
  <2> QED BY <1>5, <1>8, <2>6
<1> QED BY <1>7, <1>8

\* If the messages are such as a telnet client sends, those that are received as a whole press
\* the keys that were typed and leave the canvas in the last size that was asked for, and no
\* way of cutting them gives it another: PacketsAreUnderstood, for any such messages, a field
\* of any size and as many messages as may be on the way.
THEOREM PacketsRead ==
    ASSUME \A m \in Messages : IsMessage(m)
    PROVE  Spec => PacketsAreUnderstood
<1> DEFINE Understood ==
       /\ <<canvas.w, canvas.h>> # <<canvas'.w, canvas'.h>> =>
            \E i \in 1 .. Len(wire) :
                /\ "size" \in DOMAIN wire[i] /\ wire[i].size # <<>>
                /\ <<canvas'.w, canvas'.h>> = Clamped(wire[i].size[1], wire[i].size[2])
       /\ \A n \in 1 .. Len(wire) :
            LET asked == {i \in 1 .. n : wire[i].size # <<>>}
                last  == wire[CHOOSE i \in asked : \A j \in asked : j <= i].size
            IN  (\A i \in 1 .. n : "keys" \in DOMAIN wire[i]) /\ wire' = SubSeq(wire, n + 1, Len(wire)) =>
                /\ keyboard' \ {Escape} = (keyboard \cup UNION {wire[i].keys : i \in 1 .. n}) \ {Escape}
                /\ <<canvas'.w, canvas'.h>> = IF asked = {} THEN <<canvas.w, canvas.h>>
                                              ELSE Clamped(last[1], last[2])
<1>1. Init => WireIsSent
  <2> SUFFICES ASSUME Init PROVE WireIsSent
    OBVIOUS
  <2>1. 1 .. Len(wire) = {}
    BY DEF Init
  <2> QED BY <2>1 DEF WireIsSent
<1>2. IInv /\ WireIsSent /\ [Next]_vars => WireIsSent'
  BY WireStep DEF IInv
<1>3. IInv /\ WireIsSent /\ [Next]_vars => [Understood]_vars
  <2> SUFFICES ASSUME IInv, WireIsSent, Next PROVE Understood
    OBVIOUS
  <2>1. ASSUME <<canvas.w, canvas.h>> # <<canvas'.w, canvas'.h>>
        PROVE  \E i \in 1 .. Len(wire) :
                /\ "size" \in DOMAIN wire[i] /\ wire[i].size # <<>>
                /\ <<canvas'.w, canvas'.h>> = Clamped(wire[i].size[1], wire[i].size[2])
    BY <2>1, ResizesAreAsked DEF Gives
  <2>2. ASSUME NEW n \in 1 .. Len(wire), \A i \in 1 .. n : "keys" \in DOMAIN wire[i],
               wire' = SubSeq(wire, n + 1, Len(wire))
        PROVE  LET size == wire[CHOOSE i \in Asked(n) : \A j \in Asked(n) : j <= i].size
               IN  /\ keyboard' \ {Escape} = Pressed(n) \ {Escape}
                   /\ <<canvas'.w, canvas'.h>> = IF Asked(n) = {} THEN <<canvas.w, canvas.h>>
                                                 ELSE Clamped(size[1], size[2])
    <3> DEFINE size == wire[CHOOSE i \in Asked(n) : \A j \in Asked(n) : j <= i].size
    <3>1. Types
      BY DEF IInv
    <3>2. /\ 0 \in 0 .. (IF n < Len(wire) THEN Len(wire[n + 1].bytes) - 1 ELSE 0) /\ Receive(n, 0)
          /\ \A i \in 1 .. n : IsMessage(wire[i])
      BY <2>2, <3>1, WholeMessagesReceived
    <3>3. size = wire[CHOOSE i \in Asked(n) : \A j \in Asked(n) : j <= i].size
      OBVIOUS
    <3> HIDE DEF size
    <3>4. /\ keyboard' \ {Escape} = Pressed(n) \ {Escape}
          /\ <<canvas'.w, canvas'.h>> = IF Asked(n) = {} THEN <<canvas.w, canvas.h>>
                                        ELSE Clamped(size[1], size[2])
      BY <3>2, <3>3, WholeMessagesDo
    <3> QED BY <3>4 DEF size
  <2> QED BY <2>1, <2>2, Zenon DEF Asked, Pressed
<1>4. [][Understood]_vars <=> PacketsAreUnderstood
  BY DEF PacketsAreUnderstood
<1> HIDE DEF Understood
<1> QED BY <1>1, <1>2, <1>3, <1>4, Invariant, PTL DEF Spec
=============================================================================
