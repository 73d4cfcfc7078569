---------------------------- MODULE DatabaseFile ----------------------------
(***************************************************************************)
(* What the program promises about its database file (db.c), seen by       *)
(* somebody who only looks at committed data.  The version only grows, an  *)
(* upgrade takes everything in the file along and converts every log once, *)
(* and levels and attempts are only ever added.  Two promises one would    *)
(* expect are not kept when SQLite rolls back a transaction on its own: a  *)
(* file may be upgraded without ever getting its level table, and a file   *)
(* of version 2 may be given a log in the encoding of version 3.           *)
(***************************************************************************)
EXTENDS Database

VARIABLE disk   \* the committed contents of the file

-----------------------------------------------------------------------------
Init == disk \in Databases /\ WellFormed(disk)

UpgradeTo(v, T) ==
    /\ disk.version < v
    /\ disk' = [disk EXCEPT !.version = v, !.tables = T,
                            !.logs = IF v = Current THEN [a \in Attempts |-> Converted(@[a])]
                                     ELSE @]

\* A complete database of one version becomes one of a later version.
Upgrade ==
    /\ disk.tables = Schema(disk.version)
    /\ \E v \in 1 .. Current : UpgradeTo(v, Schema(v))

\* The first upgrade was rolled back and the later ones went on without it.
UpgradeWithoutLevels ==
    /\ "level" \notin disk.tables
    /\ \E v \in 2 .. Current : UpgradeTo(v, {"attempt"})

AddLevel ==
    /\ disk.version = Current /\ "level" \in disk.tables
    /\ \E l \in LevelIds \ disk.levels : disk' = [disk EXCEPT !.levels = @ \cup {l}]

AddLog ==
    \E a \in Attempts :
        /\ disk.logs[a] = "none"
        /\ disk' = [disk EXCEPT !.logs[a] = "new"]

AddAttempt == disk.version = Current /\ AddLog

\* The upgrade to version 3 was rolled back after the database had been opened.
MisfileAttempt == disk.version = 2 /\ AddLog

Next == Upgrade \/ UpgradeWithoutLevels \/ AddLevel \/ AddAttempt \/ MisfileAttempt

Spec == Init /\ [][Next]_disk
=============================================================================
