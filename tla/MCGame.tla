------------------------------- MODULE MCGame -------------------------------
EXTENDS Game, SequencesExt

\* A level from its rows, for the eye: "$" is money, "|" a dispenser's pipe,
\* "!" a lever, "*" no tile of the rules, and "^" ends the line early.
Tile(s) == CASE s = "$" -> Money [] s = "|" -> Pipe [] s = "!" -> Lever
             [] s = "^" -> "CR" [] s = "*" -> Other [] OTHER -> s
Line(s) == [i \in 1 .. Len(s) |-> Tile(SubSeq(s, i, i))]
Text(rows) == FlattenSeq([i \in 1 .. Len(rows) |-> Line(rows[i]) \o <<"LF">>])

Made == <<
  Text(<<"I   e", "#O$##", "# ###", "#####">>),     \* push, collect, leave
  Text(<<"O    ", "#I E$", "#####", "     ">>),     \* an exit to close, both keys
  Text(<<" E  #", "I$ !#", "##<##", "## ##">>),     \* an open exit, a lever
  Text(<<"  I  ", " > < ", "$   O", "# ###">>),     \* platforms and a player
  Text(<<"   O%", "IO : ", "#;## ", "#####">>),     \* boulders and catches
  Text(<<"] O #", "O[ $#", "# O #", "O## O">>),     \* walkers that push
  Text(<<" I [$", "O (# ", "##O  ", "# ##-">>),     \* a boulder at the left edge
  Text(<<"I   %", "#   ]", "IO #d", "#; # ">>),     \* a catch at the lower edge
  Text(<<"Ix  #", "T##. ", "-: |I", "@~A #">>),     \* eaters, dispensers, fuses
  Text(<<"I b  ", "## $ ", "#  = ", "#0? 1">>),     \* the slow tiles
  Text(<<"   $ ", "-  I ", "I  - ", "#    ">>),     \* ladders
  Text(<<"{ I }", "b\"=O ", "1 ?@d", "#~#  ">>),    \* floating walkers
  Text(<<"I", "##^", "", " *#">>),                   \* a text with gaps
  Text(<<"I    ", "#####", "     ", "     ", " ">>)  \* a row too many
>>

\* A player on a ledge in front of any tile, which is above any other.
InFront == <<" ", "O", Money, "e", "<", "[", "]", "{", "%", "x">>
Beneath == <<" ", "#", "O", ";", "(", "<", "x", "-", "\"", "~", Lever, "1">>
Ledge(a, b) ==
    Text(<<"  @  ">>) \o Line(" I ") \o <<a, " ", "LF">>
    \o Line("## ") \o <<b, " ", "LF">> \o Line("#### ")
Ledges == [i \in 1 .. Len(InFront) * Len(Beneath) |->
             Ledge(InFront[((i - 1) % Len(InFront)) + 1], Beneath[((i - 1) \div Len(InFront)) + 1])]

MCLevels == SubSeq(Made \o Ledges, 1, Len(Made) + Len(Ledges))

MCHolds == {{}, {"left"}, {"right"}, {"up"}, {"down"}, {"left", "right"}}
=============================================================================
