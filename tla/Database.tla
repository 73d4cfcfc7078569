------------------------------ MODULE Database ------------------------------
(***************************************************************************)
(* What a database file of the program holds (db.c), and when it holds     *)
(* together.  Names, fields, times and everything else that no control     *)
(* decision looks at are left out: a level is its id, an attempt is the    *)
(* encoding of its input log.                                              *)
(***************************************************************************)
EXTENDS Integers

CONSTANTS
    Attempts,   \* the rows the attempt table can hold
    LevelIds    \* the rows the level table can hold

\* CURRENT_VERSION
Current == 3

Tables == {"level", "attempt"}

\* How the input log of an attempt is encoded: only idle runs counted (up to
\* version 2), all runs counted (since version 3), or neither of the two, which
\* is what comes of converting a log twice.
Encodings == {"none", "old", "new", "garbled"}

Databases == [version : Nat, tables : SUBSET Tables,
              levels : SUBSET LevelIds, logs : [Attempts -> Encodings]]

\* The tables a database of version v has.
Schema(v) ==
    IF v = 0 THEN {} ELSE IF v = 1 THEN {"level"} ELSE Tables

\* What a conversion makes of a log: convert_input_log takes what it is given
\* to be in the old encoding.
Converted(enc) ==
    CASE enc = "none" -> "none"
      [] enc = "old"  -> "new"
      [] OTHER        -> "garbled"

\* A database of version up to Current has the tables its version says, without
\* those that were lost.
SchemaMatches(d, lost) ==
    d.version <= Current => d.tables = Schema(d.version) \ lost

\* The logs of the attempts in S are in the encoding d's version says, and there
\* are no logs without a table.
LogsMatch(d, S) ==
    /\ \A a \in S :
          /\ d.version < Current => d.logs[a] \in {"none", "old"}
          /\ d.version = Current => d.logs[a] \in {"none", "new"}
    /\ "attempt" \notin d.tables => \A a \in Attempts : d.logs[a] = "none"

WellFormed(d) == SchemaMatches(d, {}) /\ LogsMatch(d, Attempts)
=============================================================================
