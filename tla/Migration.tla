------------------------------ MODULE Migration -----------------------------
(***************************************************************************)
(* Opening the database (db.c: db_create, migrate, load_levels), playing   *)
(* with it, and closing it or crashing, over and over on one file.         *)
(*                                                                         *)
(* Every SQL statement is a step of its own.  SQLite is external: the      *)
(* connection sees `view`, a statement outside a transaction is committed  *)
(* at once, a COMMIT is atomic, and what is not committed is gone when the *)
(* connection ends.  Any statement but BEGIN may fail; then it has no      *)
(* effect, and the transaction it was part of stays open ("keep", for      *)
(* example when another process has locked the file) or is rolled back     *)
(* ("abort", for example when the disk is full).                           *)
(***************************************************************************)
EXTENDS Database

CONSTANTS
    Oversized,          \* attempts whose converted input log exceeds INPUT_LOG_LEN
    Files,              \* files the levels folder may hold
    Unreadable,         \* files that fail validation or are badly named
    FileId,             \* the level id in a file's name
    Paths,              \* what the levels path may be: "none", "missing", "folder"
    InitialVersions,    \* versions of the file we may start from
    Faults,             \* how a statement may fail
    Crashes             \* may the process be killed

ASSUME MigrationAssumption ==
    /\ Oversized \subseteq Attempts
    /\ Unreadable \subseteq Files
    /\ FileId \in [Files -> LevelIds]
    /\ Paths \subseteq {"none", "missing", "folder"}
    /\ InitialVersions \subseteq Nat
    /\ Faults \subseteq {"keep", "abort"}
    /\ Crashes \in BOOLEAN

VARIABLES
    disk,       \* the committed contents of the file
    view,       \* what the connection sees of it
    txn,        \* is a transaction open
    pc,         \* the next statement of the program
    fresh,      \* should_load_levels
    path,       \* levels_path
    todo,       \* rows or files the loop at hand has yet to read
    unmade,     \* history: tables whose upgrade SQLite rolled back
    misfiled    \* history: attempts recorded before version 3 was reached

vars == <<disk, view, txn, pc, fresh, path, todo, unmade, misfiled>>

\* No connection.
NoView == [version |-> -1]

\* The statements of migrate, in order: three upgrades, then the rest.
Labels == {"read_version",
           "begin1", "create1", "version1", "commit1",
           "begin2", "create2", "version2", "commit2",
           "begin3", "convert", "version3", "commit3",
           "check", "load", "up", "down"}

-----------------------------------------------------------------------------
(* SQLite. *)

\* The statements of the first upgrade.
First == {"create1", "version1", "commit1"}

\* A statement that writes.
Write(d) ==
    /\ view' = d
    /\ disk' = IF txn THEN disk ELSE d
    /\ UNCHANGED <<txn, unmade>>

\* A statement that fails, and that leaves the transaction open or rolls it back.
Fails ==
    /\ \/ "keep" \in Faults /\ UNCHANGED <<txn, view, unmade>>
       \/ /\ "abort" \in Faults
          /\ txn' = FALSE /\ view' = disk
          /\ unmade' = IF pc \in First THEN {"level"} ELSE unmade
    /\ UNCHANGED disk

\* A statement that can only fail, and fails before it is run.
Refused == UNCHANGED <<disk, view, txn, unmade>>

\* Mutant: a database that could not be migrated stays open.
CloseNever ==
    /\ pc' = "down"
    /\ UNCHANGED <<view, disk, fresh, path, unmade, misfiled>>
    /\ txn' = FALSE /\ todo' = {}

\* sqlite3_close, or the end of the process.
Close ==
    /\ pc' = "down"
    /\ view' = NoView /\ txn' = FALSE /\ todo' = {}
    /\ UNCHANGED <<disk, fresh, path, unmade, misfiled>>

-----------------------------------------------------------------------------
(* The control flow of migrate.  execute_many_statements gives up a batch at *)
(* the first statement that fails, and the results of the first two batches  *)
(* and of the last are ignored, so the next batch runs all the same.         *)

NextStatement ==
    [begin1   |-> "create1",  create1 |-> "version1", version1 |-> "commit1",
     commit1  |-> "begin2",
     begin2   |-> "create2",  create2 |-> "version2", version2 |-> "commit2",
     commit2  |-> "begin3",
     begin3   |-> "convert",
     version3 |-> "commit3",  commit3 |-> "check"]

\* Mutant: a batch goes on after a statement that failed.
NextBatchGoesOn == NextStatement

NextBatch ==
    [begin1   |-> "begin2",   create1 |-> "begin2",   version1 |-> "begin2",
     commit1  |-> "begin2",
     begin2   |-> "begin3",   create2 |-> "begin3",   version2 |-> "begin3",
     commit2  |-> "begin3",
     begin3   |-> "convert",
     version3 |-> "check",    commit3 |-> "check"]

\* On to label l; the SELECT of the conversion finds its rows when it starts.
Goto(l) ==
    /\ pc' = l
    /\ todo' = IF l = "convert" /\ "attempt" \in view.tables
               THEN {a \in Attempts : view.logs[a] # "none"}
               ELSE {}
    /\ UNCHANGED <<fresh, path, misfiled>>

Ok     == Goto(NextStatement[pc])
GiveUp == Goto(NextBatch[pc])

-----------------------------------------------------------------------------
Init ==
    /\ disk \in {d \in [version : InitialVersions, tables : {{}, {"level"}, Tables},
                        levels : {{}}, logs : [Attempts -> {"none", "old", "new"}]] :
                    /\ WellFormed(d)
                    /\ d.version > Current => d.tables = Tables}
    /\ view = NoView /\ txn = FALSE
    /\ pc = "down" /\ fresh = FALSE /\ path = "none" /\ todo = {}
    /\ unmade = {} /\ misfiled = {}

\* db_create: sqlite3_open.
Start(p) ==
    /\ pc = "down"
    /\ pc' = "read_version"
    /\ view' = disk
    /\ path' = p /\ fresh' = FALSE
    /\ UNCHANGED <<disk, txn, todo, unmade, misfiled>>

\* The version decides where the switch of migrate is entered.
ReadVersion ==
    /\ pc = "read_version"
    /\ \/ /\ view.version <= Current
          /\ pc' = CASE view.version = 0 -> "begin1"
                     [] view.version = 1 -> "begin2"
                     [] view.version = 2 -> "begin3"
                     [] OTHER -> "up"
          /\ fresh' = (view.version = 0)
          /\ UNCHANGED <<disk, view, txn, path, todo, unmade, misfiled>>
       \/ (view.version > Current \/ Faults # {}) /\ Close

\* Mutant: the conversion of the input logs is not wrapped in a transaction.
BeginNotThird ==
    /\ pc \in {"begin1", "begin2", "begin3"}
    /\ \/ ~txn /\ txn' = (pc # "begin3") /\ Ok
       \/ txn /\ UNCHANGED txn /\ GiveUp
    /\ unmade' = IF pc = "begin1" THEN {} ELSE unmade
    /\ UNCHANGED <<disk, view>>

\* BEGIN; it fails inside a transaction.
Begin ==
    /\ pc \in {"begin1", "begin2", "begin3"}
    /\ \/ ~txn /\ txn' = TRUE /\ Ok
       \/ txn /\ UNCHANGED txn /\ GiveUp
    /\ unmade' = IF pc = "begin1" THEN {} ELSE unmade
    /\ UNCHANGED <<disk, view>>

\* CREATE TABLE; it fails if the table exists.
Create ==
    /\ pc \in {"create1", "create2"}
    /\ LET t == IF pc = "create1" THEN "level" ELSE "attempt"
       IN  \/ t \notin view.tables /\ Write([view EXCEPT !.tables = @ \cup {t}]) /\ Ok
           \/ t \in view.tables /\ Refused /\ GiveUp
           \/ Fails /\ GiveUp

\* PRAGMA user_version
SetVersion ==
    /\ pc \in {"version1", "version2", "version3"}
    /\ LET v == CASE pc = "version1" -> 1 [] pc = "version2" -> 2 [] OTHER -> 3
       IN  \/ Write([view EXCEPT !.version = v]) /\ Ok
           \/ Fails /\ GiveUp

\* COMMIT; it fails outside a transaction.
Commit ==
    /\ pc \in {"commit1", "commit2", "commit3"}
    /\ \/ txn /\ disk' = view /\ txn' = FALSE /\ UNCHANGED <<view, unmade>> /\ Ok
       \/ ~txn /\ Refused /\ GiveUp
       \/ Fails /\ GiveUp

(* migrate_2to3_input_logs *)

ConvertRow(a) ==
    /\ pc = "convert"
    /\ a \in todo \ Oversized
    /\ Write([view EXCEPT !.logs[a] = Converted(@)])
    /\ todo' = todo \ {a}
    /\ UNCHANGED <<pc, fresh, path, misfiled>>

ConvertEnds ==
    /\ pc = "convert"
    /\ "attempt" \in view.tables /\ todo = {}
    /\ Refused
    /\ Goto("version3")

\* Mutant: attempts that cannot be converted are dropped.
ConvertDrops ==
    /\ pc = "convert"
    /\ todo \cap Oversized # {}
    /\ Write([view EXCEPT !.logs = [a \in Attempts |-> IF a \in Oversized THEN "none" ELSE @[a]]])
    /\ todo' = todo \ Oversized
    /\ UNCHANGED <<pc, fresh, path, misfiled>>

\* No attempt table, a log that does not fit, or a statement that fails: ROLLBACK
\* and no database.
ConvertFails ==
    /\ pc = "convert"
    /\ \/ "attempt" \notin view.tables
       \/ todo \cap Oversized # {}
       \/ Faults # {}
    /\ Close

\* Mutant: nobody looks at the version that was reached.
CheckNothing ==
    /\ pc = "check"
    /\ \/ fresh /\ path = "folder" /\ pc' = "load" /\ todo' \in SUBSET Files
          /\ UNCHANGED <<disk, view, txn, fresh, path, unmade, misfiled>>
       \/ (~fresh \/ path = "none") /\ pc' = "up"
          /\ UNCHANGED <<disk, view, txn, fresh, path, todo, unmade, misfiled>>
       \/ ((fresh /\ path = "missing") \/ Faults # {}) /\ Close

\* Mutant: a migration that fell short is begun again.
CheckRestarts ==
    /\ pc = "check"
    /\ \/ view.version = Current /\ pc' = "up"
       \/ view.version # Current /\ pc' = "read_version"
    /\ UNCHANGED <<disk, view, txn, fresh, path, todo, unmade, misfiled>>

\* The sanity check, and opendir of the levels folder, whatever files it holds.
Check ==
    /\ pc = "check"
    /\ \/ /\ view.version = Current /\ fresh /\ path = "folder"
          /\ pc' = "load" /\ todo' \in SUBSET Files
          /\ UNCHANGED <<disk, view, txn, fresh, path, unmade, misfiled>>
       \/ /\ view.version = Current /\ (~fresh \/ path = "none")
          /\ pc' = "up"
          /\ UNCHANGED <<disk, view, txn, fresh, path, todo, unmade, misfiled>>
       \/ /\ \/ view.version # Current
             \/ fresh /\ path = "missing"
             \/ Faults # {}
          /\ Close

(* load_levels *)

\* One file, in the order readdir gives them.
LoadFile(f) ==
    /\ pc = "load"
    /\ f \in todo
    /\ todo' = todo \ {f}
    /\ \/ f \in Unreadable /\ Refused
       \/ /\ f \notin Unreadable /\ "level" \in view.tables /\ FileId[f] \notin view.levels
          /\ Write([view EXCEPT !.levels = @ \cup {FileId[f]}])
    /\ UNCHANGED <<pc, fresh, path, misfiled>>

LoadEnds ==
    /\ pc = "load"
    /\ "level" \in view.tables /\ todo = {}
    /\ pc' = "up"
    /\ UNCHANGED <<disk, view, txn, fresh, path, todo, unmade, misfiled>>

\* No level table, two files with one id, or a statement that fails.
LoadFails ==
    /\ pc = "load"
    /\ \/ "level" \notin view.tables
       \/ \E f \in todo \ Unreadable : FileId[f] \in view.levels
       \/ Faults # {}
    /\ Close

(* The database is open. *)

\* db_insert_attempt
RecordAttempt(a) ==
    /\ pc = "up"
    /\ "attempt" \in view.tables /\ view.logs[a] = "none"
    /\ Write([view EXCEPT !.logs[a] = "new"])
    /\ misfiled' = IF view.version < Current THEN misfiled \cup {a} ELSE misfiled
    /\ UNCHANGED <<pc, fresh, path, todo>>

RecordFails ==
    /\ pc = "up"
    /\ Fails
    /\ UNCHANGED <<pc, fresh, path, todo, misfiled>>

\* db_destroy: the VACUUM changes nothing anybody can see.
Exit == pc = "up" /\ Close

Crash == Crashes /\ pc # "down" /\ Close

-----------------------------------------------------------------------------
Opening ==
    \/ ReadVersion
    \/ Begin \/ Create \/ SetVersion \/ Commit
    \/ \E a \in Attempts : ConvertRow(a)
    \/ ConvertEnds \/ ConvertFails
    \/ Check
    \/ \E f \in Files : LoadFile(f)
    \/ LoadEnds \/ LoadFails

Using ==
    \/ \E a \in Attempts : RecordAttempt(a)
    \/ RecordFails

Next ==
    \/ \E p \in Paths : Start(p)
    \/ Opening \/ Using \/ Exit \/ Crash

Spec == Init /\ [][Next]_vars

\* The process runs.
FairSpec == Spec /\ WF_vars(Opening)

-----------------------------------------------------------------------------
(* Correctness properties. *)

TypeOK ==
    /\ disk \in Databases
    /\ view \in Databases \cup {NoView}
    /\ view = NoView <=> pc = "down"
    /\ txn \in BOOLEAN
    /\ pc \in Labels
    /\ fresh \in BOOLEAN
    /\ path \in {"none", "missing", "folder"}
    /\ todo \subseteq Attempts \cup Files
    /\ unmade \subseteq {"level"} /\ misfiled \subseteq Attempts

\* The committed file has exactly the tables of the version it claims, wherever
\* the upgrade fails or is killed, with one exception: when SQLite rolled back the
\* first upgrade, migrate goes on with the second, and the file reaches versions
\* 2 and 3 without the level table.
SchemaMatchesVersion == SchemaMatches(disk, unmade)

\* Every committed input log is in the encoding of the version the file claims:
\* however often the upgrade is begun, each log is converted exactly once.  The
\* logs excepted were recorded while the file said version 2, after the COMMIT of
\* the last upgrade had failed and a later statement had rolled the upgrade back;
\* the next start converts them although they need it no more.
LogsMatchVersion == LogsMatch(disk, Attempts \ misfiled)

\* A database that opens says version 3, has the tables but for a level table
\* whose upgrade was rolled back, and holds its logs in the encoding of version 3
\* but for misfiled ones; while it is open, only a rollback changes its version.
OpenIsUsable ==
    [][/\ pc # "up" /\ pc' = "up" =>
             /\ view'.version = Current /\ view'.tables = Tables \ unmade'
             /\ LogsMatch(view', Attempts \ misfiled')
       /\ pc = "up" /\ pc' = "up" =>
             view'.version = view.version \/ (txn /\ ~txn')]_vars

\* What is on the file changes only as DatabaseFile allows: upgrades that keep
\* every level and convert every log once, and additions.
File == INSTANCE DatabaseFile
FileSpec == File!Spec

\* Opening comes to an end, with or without a database, whatever fails.
OpeningEnds == pc = "read_version" ~> pc \in {"up", "down"}
=============================================================================
