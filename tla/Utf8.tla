-------------------------------- MODULE Utf8 --------------------------------
(***************************************************************************)
(* utf8_encode and utf8_decode: levels are read with the one, and every     *)
(* cell is sent with the other.  A code point is a number, bytes are 0..255. *)
(***************************************************************************)
EXTENDS Integers, Sequences, FiniteSets

LastCode == 1114111

\* Mutant: the lead byte loses one bit each time, the first time too.
EncodedByOneBit(c) ==
    LET upTo[n \in 0 .. 3] ==
            IF n = 0 THEN [code |-> c, max |-> 127, tail |-> <<>>]
            ELSE LET p == upTo[n - 1] IN
                 IF p.code <= p.max THEN p
                 ELSE [code |-> p.code \div 64, max |-> p.max \div 2,
                       tail |-> <<128 + (p.code % 64)>> \o p.tail]
    IN  <<(256 - 2 * (upTo[3].max + 1)) + upTo[3].code>> \o upTo[3].tail

\* utf8_encode_partial: six bits go into each byte behind the first as long as the
\* rest does not fit the first, whose high bits count the bytes.
Encoded(c) ==
    LET upTo[n \in 0 .. 3] ==
            IF n = 0 THEN [code |-> c, max |-> 127, tail |-> <<>>]
            ELSE LET p == upTo[n - 1] IN
                 IF p.code <= p.max THEN p
                 ELSE [code |-> p.code \div 64,
                       max  |-> p.max \div (IF n = 1 THEN 4 ELSE 2),
                       tail |-> <<128 + (p.code % 64)>> \o p.tail]
        last == upTo[3]
    IN  <<(256 - 2 * (last.max + 1)) + last.code>> \o last.tail

\* utf8_decode: the number of leading ones is that of the bytes, and all the other
\* bits count; a text that ends before them gives what is there.
LeadingOnes(b) == Cardinality({k \in 1 .. 8 : b >= 256 - 2 ^ (8 - k)})

Decoded(s) ==
    LET ones == LeadingOnes(s[1])
        size == IF ones < 2 THEN 1 ELSE IF ones > Len(s) THEN Len(s) ELSE ones
        value[i \in 1 .. size] == IF i = 1 THEN s[1] % (2 ^ (8 - ones))
                                  ELSE 64 * value[i - 1] + (s[i] % 64)
    IN  [code |-> value[size], size |-> size]

-----------------------------------------------------------------------------
\* The bits of a code point in so many bytes, as RFC 3629 lays them out.
Layout(c) ==
    LET six(k) == 128 + ((c \div 64 ^ k) % 64)
    IN  CASE c < 128            -> <<c>>
          [] c \in 128 .. 2047   -> <<192 + (c \div 64), six(0)>>
          [] c \in 2048 .. 65535 -> <<224 + (c \div 4096), six(1), six(0)>>
          [] OTHER              -> <<240 + (c \div 262144), six(2), six(1), six(0)>>

\* Where the number of bytes changes.
Corners == {0, 1, 163, LastCode} \cup UNION {{n - 1, n} : n \in {128, 2048, 65536}}
=============================================================================
