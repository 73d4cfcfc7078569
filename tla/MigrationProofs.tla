--------------------------- MODULE MigrationProofs --------------------------
(***************************************************************************)
(* What holds of the database file for any levels folder, any attempts and *)
(* any pattern of failing statements, rollbacks and crashes: which tables  *)
(* and logs the file has at its version, and that every step of the        *)
(* program is a step of DatabaseFile.                                      *)
(*                                                                         *)
(* The invariant says, for every statement of migrate, how far what the    *)
(* connection sees is ahead of the file.  Its core is the two ways a batch *)
(* can fail.  A transaction it leaves open makes the next BEGIN fail, so   *)
(* that the upgrade it was meant for is not run, and either the conversion *)
(* misses its table and gives up, or the upgrades are committed together.  *)
(* A transaction SQLite rolls back lets the next upgrade begin on what the *)
(* file had before: the second goes on without the first, which is how the *)
(* level table gets lost, but the third cannot without the second.         *)
(***************************************************************************)
EXTENDS Migration, TLAPS

-----------------------------------------------------------------------------
(* What one statement writes. *)

\* A statement that creates tables changes only which tables there are.
LEMMA TablesEdit ==
    ASSUME NEW d \in Databases, NEW T \in SUBSET Tables
    PROVE  LET e == [d EXCEPT !.tables = T]
           IN  /\ e \in Databases /\ e.tables = T
               /\ e.version = d.version /\ e.levels = d.levels /\ e.logs = d.logs
BY DEF Databases

\* PRAGMA user_version = v changes only the version.
LEMMA VersionEdit ==
    ASSUME NEW d \in Databases, NEW v \in Nat
    PROVE  LET e == [d EXCEPT !.version = v]
           IN  /\ e \in Databases /\ e.version = v
               /\ e.tables = d.tables /\ e.levels = d.levels /\ e.logs = d.logs
BY DEF Databases

\* A level that is inserted changes only the set of levels.
LEMMA LevelEdit ==
    ASSUME NEW d \in Databases, NEW l \in LevelIds
    PROVE  LET e == [d EXCEPT !.levels = @ \cup {l}]
           IN  /\ e \in Databases
               /\ e.version = d.version /\ e.tables = d.tables /\ e.logs = d.logs
BY DEF Databases

\* An input log that is written changes only that log and its encoding.
LEMMA LogEdit ==
    ASSUME NEW d \in Databases, NEW a \in Attempts, NEW enc \in Encodings
    PROVE  LET e == [d EXCEPT !.logs[a] = enc]
           IN  /\ e \in Databases
               /\ e.version = d.version /\ e.tables = d.tables /\ e.levels = d.levels
               /\ \A b \in Attempts : e.logs[b] = IF b = a THEN enc ELSE d.logs[b]
BY DEF Databases

\* A closed connection sees no database: the value that stands for it is none.
LEMMA NoViewFact == NoView \notin Databases
<1>1. \A d \in Databases : d.version \in Nat  BY DEF Databases
<1>2. NoView.version = -1  BY DEF NoView
<1>3. QED  BY <1>1, <1>2

\* The conversion of a log leaves an encoding that exists, and leaves alone what
\* is not there.
LEMMA ConvertedFact ==
    ASSUME NEW enc \in Encodings
    PROVE  /\ Converted(enc) \in Encodings
           /\ Converted(enc) = "none" <=> enc = "none"
           /\ enc = "old" => Converted(enc) = "new"
BY DEF Converted, Encodings

-----------------------------------------------------------------------------
(* Types. *)

\* Going to the next label touches neither the database nor the path.
LEMMA GotoType ==
    ASSUME TypeOK, NEW l \in Labels, Goto(l)
    PROVE  /\ pc' = l /\ todo' \subseteq Attempts \cup Files
           /\ fresh' = fresh /\ path' = path /\ misfiled' = misfiled
BY DEF Goto

\* Closing the connection keeps the types.
LEMMA CloseType == TypeOK /\ Close => TypeOK'
BY NoViewFact DEF Close, TypeOK, Labels

\* A statement that fails leaves a database, perhaps an older one.
LEMMA FailsType ==
    ASSUME TypeOK, pc # "down", Fails
    PROVE  view' \in Databases /\ txn' \in BOOLEAN /\ disk' = disk /\ unmade' \subseteq {"level"}
BY NoViewFact DEF TypeOK, Fails

\* A statement that writes leaves databases, in the connection and on the disk.
LEMMA WriteType ==
    ASSUME TypeOK, NEW d \in Databases, Write(d)
    PROVE  /\ view' \in Databases /\ txn' \in BOOLEAN /\ disk' \in Databases
           /\ unmade' \subseteq {"level"}
BY DEF TypeOK, Write

\* Every statement of a batch is followed by one of the program.
LEMMA LabelsFact ==
    ASSUME pc \in DOMAIN NextStatement
    PROVE  /\ pc # "down"
           /\ NextStatement[pc] \in Labels /\ NextStatement[pc] # "down"
           /\ NextBatch[pc] \in Labels /\ NextBatch[pc] # "down"
BY DEF NextStatement, NextBatch, Labels

\* A statement of a batch keeps the types if what it writes is a database.
LEMMA BatchType ==
    ASSUME TypeOK, pc \in DOMAIN NextStatement, Ok \/ GiveUp,
           view' \in Databases, txn' \in BOOLEAN, disk' \in Databases,
           unmade' \subseteq {"level"}
    PROVE  TypeOK'
<1>1. PICK l \in Labels : l # "down" /\ Goto(l)
  BY LabelsFact DEF Ok, GiveUp
<1>2. QED  BY <1>1, GotoType, NoViewFact DEF TypeOK

\* The database a server starts with has its type.
LEMMA InitTypeOK == Init => TypeOK
<1> SUFFICES ASSUME Init PROVE TypeOK  OBVIOUS
<1>1. PICK d \in [version : InitialVersions, tables : {{}, {"level"}, Tables},
                  levels : {{}}, logs : [Attempts -> {"none", "old", "new"}]] : disk = d
  BY DEF Init
<1>2. d.logs \in [Attempts -> Encodings]  BY DEF Encodings
<1>3. disk \in Databases
  BY <1>1, <1>2, MigrationAssumption DEF Databases, Tables
<1>4. QED  BY <1>3 DEF Init, TypeOK, Labels

\* No statement, failure or crash leaves a state without its type.
LEMMA NextTypeOK == TypeOK /\ [Next]_vars => TypeOK'
<1> SUFFICES ASSUME TypeOK, [Next]_vars PROVE TypeOK'  OBVIOUS
<1>0. pc # "down" => view \in Databases /\ view.tables \subseteq Tables /\ view.logs \in [Attempts -> Encodings]
  BY DEF TypeOK, Databases
<1>1. ASSUME NEW p \in Paths, Start(p) PROVE TypeOK'
  BY <1>1, NoViewFact, MigrationAssumption DEF Start, TypeOK, Labels
<1>2. CASE ReadVersion
  BY <1>2, CloseType, NoViewFact DEF ReadVersion, TypeOK, Labels
<1>3. CASE Begin
  BY <1>3, <1>0, BatchType DEF Begin, NextStatement, TypeOK
<1>4. CASE Create
  <2>1. pc \in DOMAIN NextStatement /\ view \in Databases
    BY <1>0, <1>4 DEF Create, NextStatement
  <2>2. \A t \in {"level", "attempt"} : [view EXCEPT !.tables = @ \cup {t}] \in Databases
    <3>1. \A t \in {"level", "attempt"} : view.tables \cup {t} \in SUBSET Tables
      BY <1>0, <2>1 DEF Databases, Tables
    <3>2. QED  BY <2>1, <3>1, TablesEdit
  <2>3. CASE Fails /\ GiveUp  BY <2>1, <2>3, FailsType, LabelsFact, BatchType DEF TypeOK
  <2>4. CASE Refused /\ GiveUp  BY <2>1, <2>4, BatchType DEF Refused, TypeOK
  <2>5. ASSUME NEW t \in {"level", "attempt"}, Write([view EXCEPT !.tables = @ \cup {t}]), Ok
        PROVE  TypeOK'
    BY <2>1, <2>2, <2>5, WriteType, BatchType
  <2>6. QED  BY <1>4, <2>3, <2>4, <2>5 DEF Create
<1>5. CASE SetVersion
  <2>1. pc \in DOMAIN NextStatement /\ view \in Databases
    BY <1>0, <1>5 DEF SetVersion, NextStatement
  <2>2. CASE Fails /\ GiveUp  BY <2>1, <2>2, FailsType, LabelsFact, BatchType DEF TypeOK
  <2>3. ASSUME NEW v \in Nat, Write([view EXCEPT !.version = v]), Ok
        PROVE  TypeOK'
    BY <2>1, <2>3, VersionEdit, WriteType, BatchType
  <2>4. QED  BY <1>5, <2>2, <2>3 DEF SetVersion
<1>6. CASE Commit
  <2>1. pc \in DOMAIN NextStatement /\ view \in Databases
    BY <1>0, <1>6 DEF Commit, NextStatement
  <2>2. CASE Fails /\ GiveUp  BY <2>1, <2>2, FailsType, LabelsFact, BatchType DEF TypeOK
  <2>3. CASE Refused /\ GiveUp  BY <2>1, <2>3, BatchType DEF Refused, TypeOK
  <2>4. CASE disk' = view /\ txn' = FALSE /\ UNCHANGED <<view, unmade>> /\ Ok
    BY <2>1, <2>4, BatchType DEF TypeOK
  <2>5. QED  BY <1>6, <2>2, <2>3, <2>4 DEF Commit
<1>7. ASSUME NEW a \in Attempts, ConvertRow(a) PROVE TypeOK'
  <2>1. view \in Databases /\ view.logs[a] \in Encodings  BY <1>0, <1>7 DEF ConvertRow
  <2>2. [view EXCEPT !.logs[a] = Converted(@)] \in Databases
    BY <2>1, LogEdit, ConvertedFact
  <2>3. QED  BY <1>7, <2>2, WriteType, NoViewFact DEF ConvertRow, TypeOK
<1>8. CASE ConvertEnds
  BY <1>8, GotoType DEF ConvertEnds, Refused, TypeOK, Labels
<1>9. CASE ConvertFails \/ LoadFails \/ Exit \/ Crash
  BY <1>9, CloseType DEF ConvertFails, LoadFails, Exit, Crash
<1>10. CASE Check
  BY <1>10, CloseType DEF Check, TypeOK, Labels
<1>11. ASSUME NEW f \in Files, LoadFile(f) PROVE TypeOK'
  <2>1. [view EXCEPT !.levels = @ \cup {FileId[f]}] \in Databases
    BY <1>0, <1>11, LevelEdit, MigrationAssumption DEF LoadFile
  <2>2. QED  BY <1>11, <2>1, WriteType, NoViewFact DEF LoadFile, Refused, TypeOK
<1>12. CASE LoadEnds
  BY <1>12 DEF LoadEnds, TypeOK, Labels
<1>13. ASSUME NEW a \in Attempts, RecordAttempt(a) PROVE TypeOK'
  <2>1. [view EXCEPT !.logs[a] = "new"] \in Databases
    BY <1>0, <1>13, LogEdit DEF RecordAttempt, Encodings
  <2>2. QED  BY <1>13, <2>1, WriteType, NoViewFact DEF RecordAttempt, TypeOK
<1>14. CASE RecordFails
  BY <1>14, FailsType, NoViewFact DEF RecordFails, TypeOK
<1>15. CASE UNCHANGED vars
  BY <1>15 DEF vars, TypeOK
<1>16. QED
  BY <1>1, <1>2, <1>3, <1>4, <1>5, <1>6, <1>7, <1>8, <1>9, <1>10, <1>11, <1>12,
     <1>13, <1>14, <1>15 DEF Next, Opening, Using

(* The model's variables keep their types, whatever fails.                   *)
THEOREM TypeCorrect == Spec => []TypeOK
BY InitTypeOK, NextTypeOK, PTL DEF Spec

-----------------------------------------------------------------------------
(* The invariant.  Running a transaction, the connection is ahead of the     *)
(* file; otherwise it sees what the file holds.                              *)

Loading == {"load", "up"}

\* Before the conversion the logs are as the file has them.
Upgrading == {"begin1", "create1", "version1", "commit1",
              "begin2", "create2", "version2", "commit2", "begin3"}

InStep ==
    pc # "down" =>
       /\ ~txn => view = disk
       /\ txn => disk.version < Current
       /\ pc \notin Loading => view.levels = disk.levels
       /\ pc \in Upgrading => view.logs = disk.logs

\* The tables there are after one upgrade and after two, with those that SQLite
\* rolled back.
OneTable  == {"level"} \ unmade
TwoTables == Tables \ unmade

\* The logs of the attempts in S have been converted, the others have not.
LogsConverted(S) ==
    \A a \in Attempts :
        view.logs[a] = IF a \in S THEN Converted(disk.logs[a]) ELSE disk.logs[a]

\* What an open connection sees is in order.
InOrder == SchemaMatches(view, unmade) /\ LogsMatch(view, Attempts \ misfiled)

\* How far a transaction has got at each statement.
Stage ==
    /\ pc \in {"down", "read_version", "begin1"} => ~txn
    /\ pc = "begin1" => view.version = 0
    /\ pc \in First => txn /\ disk.version = 0 /\ unmade = {}
    /\ pc = "create1" => view.tables = {}
    /\ pc \in {"version1", "commit1"} => view.tables = {"level"}
    /\ pc = "commit1" => view.version = 1
    /\ pc = "begin2" =>
          IF txn THEN "attempt" \notin view.tables
          ELSE view.version < 2 /\ view.tables = OneTable
    /\ pc \in {"create2", "version2", "commit2"} => txn /\ disk.version < 2
    /\ pc = "create2" => view.tables = OneTable
    /\ pc \in {"version2", "commit2"} => view.tables = TwoTables
    /\ pc = "commit2" => view.version = 2
    /\ pc = "begin3" =>
          /\ txn \/ view.version < Current
          /\ "attempt" \in view.tables => view.tables = TwoTables
    /\ pc = "convert" =>
          /\ txn
          /\ IF "attempt" \in view.tables
             THEN view.tables = TwoTables /\ LogsConverted(Attempts \ todo)
             ELSE todo = {}
    /\ pc \in {"version3", "commit3"} =>
          txn /\ view.tables = TwoTables /\ LogsConverted(Attempts)
    /\ pc = "commit3" => view.version = Current
    /\ pc = "check" => (view.version = Current => InOrder)
    /\ pc = "load" => view.version = Current
    /\ pc = "up" => view.version = Current \/ (~txn /\ view.version < Current)
    /\ pc \in Loading => InOrder

IInv ==
    /\ TypeOK
    /\ SchemaMatchesVersion /\ LogsMatchVersion
    /\ InStep
    /\ Stage

\* Before anything is opened the invariant holds.
LEMMA InitIInv == Init => IInv
<1> SUFFICES ASSUME Init PROVE IInv  OBVIOUS
<1>1. TypeOK  BY InitTypeOK
<1>2. SchemaMatchesVersion /\ LogsMatchVersion
  <2>1. WellFormed(disk) /\ unmade = {} /\ misfiled = {}  BY DEF Init
  <2>2. QED
    BY <2>1 DEF WellFormed, SchemaMatches, LogsMatch, SchemaMatchesVersion, LogsMatchVersion
<1>3. InStep /\ Stage  BY DEF Init, InStep, Stage, Loading, First
<1>4. QED  BY <1>1, <1>2, <1>3 DEF IInv

(* What the file's version says of its tables and logs.                      *)
LEMMA DiskFact ==
    ASSUME IInv
    PROVE  /\ disk \in Databases /\ disk.version \in Nat
           /\ unmade \subseteq {"level"} /\ misfiled \subseteq Attempts
           /\ disk.version = 0 => disk.tables = {}
           /\ disk.version = 1 => disk.tables = OneTable
           /\ disk.version \in {2, 3} => disk.tables = TwoTables
           /\ disk.version < Current =>
                 \A a \in Attempts \ misfiled : disk.logs[a] \in {"none", "old"}
           /\ disk.version < 2 => \A a \in Attempts : disk.logs[a] = "none"
           /\ \A a \in Attempts : disk.logs[a] \in Encodings
<1>1. /\ disk \in Databases /\ disk.version \in Nat
      /\ unmade \subseteq {"level"} /\ misfiled \subseteq Attempts
      /\ disk.version <= Current => disk.tables = Schema(disk.version) \ unmade
      /\ LogsMatch(disk, Attempts \ misfiled)
      /\ \A a \in Attempts : disk.logs[a] \in Encodings
  BY DEF IInv, TypeOK, SchemaMatchesVersion, LogsMatchVersion, SchemaMatches, Databases
<1>2. /\ disk.version = 0 => disk.tables = {}
      /\ disk.version = 1 => disk.tables = OneTable
      /\ disk.version \in {2, 3} => disk.tables = TwoTables
  BY <1>1 DEF Schema, Current, OneTable, TwoTables
<1>3. disk.version < 2 => "attempt" \notin disk.tables
  BY <1>1, <1>2 DEF OneTable
<1>4. QED  BY <1>1, <1>2, <1>3 DEF LogsMatch

\* While a connection is open it sees a database.
LEMMA ViewFact ==
    ASSUME IInv, pc # "down"
    PROVE  /\ view \in Databases /\ view.version \in Nat /\ view.tables \subseteq Tables
           /\ \A a \in Attempts : view.logs[a] \in Encodings
BY DEF IInv, TypeOK, Databases

(* The file stays in order while nothing is committed; a rolled-back first   *)
(* upgrade makes no difference to a file of version 0.                       *)
LEMMA DiskKept ==
    ASSUME IInv, UNCHANGED <<disk, misfiled>>,
           UNCHANGED unmade \/ (disk.version = 0 /\ unmade' \subseteq {"level"})
    PROVE  SchemaMatchesVersion' /\ LogsMatchVersion'
<1>1. LogsMatchVersion'  BY DEF IInv, LogsMatchVersion, LogsMatch
<1>2. CASE UNCHANGED unmade
  BY <1>1, <1>2 DEF IInv, SchemaMatchesVersion, SchemaMatches
<1>3. CASE disk.version = 0 /\ unmade' \subseteq {"level"}
  BY <1>1, <1>3, DiskFact DEF SchemaMatchesVersion, SchemaMatches, Schema
<1>4. QED  BY <1>2, <1>3

(* Failing, a statement leaves everything as it is, or takes the connection  *)
(* back to the file.                                                         *)
LEMMA FailsFact ==
    ASSUME Fails
    PROVE  /\ UNCHANGED disk
           /\ \/ UNCHANGED <<view, txn, unmade>>
              \/ /\ view' = disk /\ ~txn'
                 /\ unmade' = IF pc \in First THEN {"level"} ELSE unmade
BY DEF Fails

(* Without a connection there is only the file.                              *)
LEMMA CloseIInv == IInv /\ Close => IInv'
<1> SUFFICES ASSUME IInv, Close PROVE IInv'  OBVIOUS
<1>1. TypeOK'  BY CloseType DEF IInv
<1>2. SchemaMatchesVersion' /\ LogsMatchVersion'  BY DiskKept DEF Close
<1>3. InStep' /\ Stage'  BY DEF Close, InStep, Stage, Loading, First
<1>4. QED  BY <1>1, <1>2, <1>3 DEF IInv

(* Two upgrades and the conversion make a database of version 3 in order.    *)
LEMMA InOrderFact ==
    ASSUME IInv, view.version = Current, view.tables = TwoTables,
           disk.version < Current, LogsConverted(Attempts)
    PROVE  InOrder
<1>1. \A a \in Attempts \ misfiled : view.logs[a] \in {"none", "new"}
  <2> TAKE a \in Attempts \ misfiled
  <2>1. disk.logs[a] \in {"none", "old"}  BY DiskFact
  <2>2. QED  BY <2>1 DEF LogsConverted, Converted
<1>2. "attempt" \in view.tables  BY DiskFact DEF TwoTables, Tables
<1>3. QED
  BY <1>1, <1>2, DiskFact
  DEF InOrder, SchemaMatches, LogsMatch, Schema, Current, TwoTables

(* The cursor of the conversion starts with every log there is.              *)
LEMMA CursorFact ==
    ASSUME view.logs = disk.logs, UNCHANGED <<disk, view>>,
           todo' = {a \in Attempts : view.logs[a] # "none"}
    PROVE  LogsConverted(Attempts \ todo)'
BY DEF LogsConverted, Converted

\* BEGIN keeps the invariant.
LEMMA BeginIInv == IInv /\ Begin => IInv'
<1> SUFFICES ASSUME IInv, Begin PROVE IInv'  OBVIOUS
<1>1. TypeOK'  BY NextTypeOK DEF IInv, Next, Opening
<1>2. /\ pc # "down" /\ view \in Databases /\ UNCHANGED <<disk, view, misfiled>>
      /\ unmade' = IF pc = "begin1" THEN {} ELSE unmade
  BY ViewFact DEF Begin, Ok, GiveUp, Goto
<1>3. CASE ~txn
  <2>1. view = disk /\ txn' = TRUE /\ Ok  BY <1>2, <1>3 DEF Begin, IInv, InStep
  <2>2. CASE pc = "begin1"
    <3>1. pc' = "create1" /\ disk.version = 0 /\ disk.tables = {}
      BY <2>1, <2>2, DiskFact DEF IInv, Stage, Ok, Goto, NextStatement
    <3>2. Stage' /\ InStep'
      BY <1>2, <2>1, <2>2, <3>1 DEF Stage, InStep, Loading, Current, First
    <3>3. SchemaMatchesVersion' /\ LogsMatchVersion'
      BY <1>2, <2>2, <3>1, DiskKept
    <3>4. QED  BY <1>1, <3>2, <3>3 DEF IInv
  <2>3. CASE pc = "begin2"
    <3>1. pc' = "create2" /\ disk.version < 2 /\ disk.tables = OneTable
      BY <1>3, <2>1, <2>3 DEF IInv, Stage, Ok, Goto, NextStatement
    <3>2. Stage' /\ InStep'
      BY <1>2, <2>1, <2>3, <3>1, DiskFact DEF Stage, InStep, Loading, Current, First, OneTable
    <3>3. SchemaMatchesVersion' /\ LogsMatchVersion'
      BY <1>2, <2>3, DiskKept
    <3>4. QED  BY <1>1, <3>2, <3>3 DEF IInv
  <2>4. CASE pc = "begin3"
    <3>1. /\ pc' = "convert" /\ disk.version < Current
          /\ "attempt" \in view.tables => view.tables = TwoTables
          /\ todo' = IF "attempt" \in view.tables
                     THEN {a \in Attempts : view.logs[a] # "none"} ELSE {}
      BY <1>3, <2>1, <2>4 DEF IInv, Stage, Ok, Goto, NextStatement
    <3>2. "attempt" \in view.tables => LogsConverted(Attempts \ todo)'
      BY <1>2, <2>1, <3>1, CursorFact
    <3>3. Stage' /\ InStep'
      BY <1>2, <2>1, <2>4, <3>1, <3>2
      DEF Stage, InStep, Loading, Upgrading, First, TwoTables
    <3>4. SchemaMatchesVersion' /\ LogsMatchVersion'
      BY <1>2, <2>4, DiskKept
    <3>5. QED  BY <1>1, <3>3, <3>4 DEF IInv
  <2>5. QED  BY <2>2, <2>3, <2>4 DEF Begin
<1>4. CASE txn
  <2>1. UNCHANGED txn /\ GiveUp /\ pc \in {"begin2", "begin3"} /\ UNCHANGED unmade
    BY <1>2, <1>4 DEF Begin, IInv, Stage
  <2>2. disk.version < Current /\ view.levels = disk.levels /\ view.logs = disk.logs
    BY <1>2, <1>4, <2>1 DEF IInv, InStep, Loading, Upgrading
  <2>3. SchemaMatchesVersion' /\ LogsMatchVersion'
    BY <1>2, <2>1, DiskKept
  <2>4. CASE pc = "begin2"
    <3>1. pc' = "begin3" /\ "attempt" \notin view.tables
      BY <1>4, <2>1, <2>4 DEF IInv, Stage, GiveUp, Goto, NextBatch
    <3>2. Stage' /\ InStep'
      BY <1>2, <1>4, <2>1, <2>2, <3>1 DEF Stage, InStep, Loading, First
    <3>3. QED  BY <1>1, <2>3, <3>2 DEF IInv
  <2>5. CASE pc = "begin3"
    <3>1. /\ pc' = "convert"
          /\ "attempt" \in view.tables => view.tables = TwoTables
          /\ todo' = IF "attempt" \in view.tables
                     THEN {a \in Attempts : view.logs[a] # "none"} ELSE {}
      BY <1>4, <2>1, <2>5 DEF IInv, Stage, GiveUp, Goto, NextBatch
    <3>2. "attempt" \in view.tables => LogsConverted(Attempts \ todo)'
      BY <1>2, <2>2, <3>1, CursorFact
    <3>3. Stage' /\ InStep'
      BY <1>2, <1>4, <2>1, <2>2, <3>1, <3>2
      DEF Stage, InStep, Loading, Upgrading, First, TwoTables
    <3>4. QED  BY <1>1, <2>3, <3>3 DEF IInv
  <2>6. QED  BY <2>1, <2>4, <2>5
<1>5. QED  BY <1>3, <1>4 DEF IInv, TypeOK

(* A statement of one of the first two upgrades that fails leaves the        *)
(* transaction for the next BEGIN to fail on, or begins the next upgrade on  *)
(* the file as it was.                                                       *)
LEMMA GiveUpIInv ==
    ASSUME IInv, TypeOK', GiveUp, Fails \/ Refused,
           pc \in First \cup {"create2", "version2", "commit2"}
    PROVE  IInv'
<1>1. /\ pc # "down" /\ txn /\ disk.version < Current
      /\ view.levels = disk.levels /\ view.logs = disk.logs
      /\ UNCHANGED misfiled
  BY DEF IInv, InStep, Stage, Loading, Upgrading, First, GiveUp, Goto
<1>2. /\ UNCHANGED disk
      /\ \/ UNCHANGED <<view, txn, unmade>>
         \/ /\ view' = disk /\ ~txn'
            /\ unmade' = IF pc \in First THEN {"level"} ELSE unmade
  BY FailsFact DEF Refused
<1>3. pc \in First => disk.version = 0 /\ pc' = "begin2" /\ "attempt" \notin view.tables
  BY DEF IInv, Stage, First, GiveUp, Goto, NextBatch
<1>4. pc \notin First =>
         /\ disk.version < 2 /\ pc' = "begin3"
         /\ "attempt" \in view.tables => view.tables = TwoTables
  BY DEF IInv, Stage, First, OneTable, GiveUp, Goto, NextBatch
<1>5. SchemaMatchesVersion' /\ LogsMatchVersion'
  BY <1>1, <1>2, <1>3, DiskKept
<1>6. InStep'
  BY <1>1, <1>2, <1>3, <1>4 DEF InStep, Loading
<1>7. CASE pc \in First
  <2>1. view' = disk => disk.tables = {"level"} \ {"level"} /\ disk.version < 2
    BY <1>3, <1>7, DiskFact
  <2>2. Stage'
    BY <1>1, <1>2, <1>3, <1>7, <2>1 DEF Stage, Loading, First, OneTable
  <2>3. QED  BY <1>5, <1>6, <2>2 DEF IInv
<1>8. CASE pc \notin First
  <2>1. "attempt" \notin disk.tables /\ disk.version < Current
    BY <1>1, <1>4, <1>8, DiskFact DEF OneTable
  <2>2. UNCHANGED unmade  BY <1>2, <1>8
  <2>3. Stage'
    BY <1>1, <1>2, <1>4, <1>8, <2>1, <2>2 DEF Stage, Loading, First, TwoTables
  <2>4. QED  BY <1>5, <1>6, <2>3 DEF IInv
<1>9. QED  BY <1>7, <1>8

\* The statements that create the tables keep the invariant.
LEMMA CreateIInv == IInv /\ Create => IInv'
<1> SUFFICES ASSUME IInv, Create PROVE IInv'  OBVIOUS
<1>1. TypeOK'  BY NextTypeOK DEF IInv, Next, Opening
<1>2. /\ pc \in {"create1", "create2"} /\ txn
      /\ disk.version < Current /\ view.levels = disk.levels /\ view.logs = disk.logs
  BY DEF Create, IInv, InStep, Stage, First, Loading, Upgrading
<1>3. CASE (Fails \/ Refused) /\ GiveUp
  BY <1>1, <1>2, <1>3, GiveUpIInv DEF First
<1>4. ASSUME NEW t \in Tables, t = IF pc = "create1" THEN "level" ELSE "attempt",
             Write([view EXCEPT !.tables = @ \cup {t}]), Ok
      PROVE  IInv'
  <2>1. view \in Databases /\ view.tables \subseteq Tables  BY <1>2, ViewFact
  <2>2. /\ UNCHANGED <<disk, txn, unmade, misfiled>>
        /\ view'.tables = view.tables \cup {t}
        /\ view'.version = view.version /\ view'.levels = view.levels
        /\ view'.logs = view.logs
    BY <1>2, <1>4, <2>1, TablesEdit DEF Write, Ok, Goto
  <2>3. SchemaMatchesVersion' /\ LogsMatchVersion'  BY <2>2, DiskKept
  <2>4. CASE pc = "create1"
    <3>1. pc' = "version1" /\ view.tables = {} /\ disk.version = 0 /\ unmade = {}
      BY <1>4, <2>4 DEF IInv, Stage, First, Ok, Goto, NextStatement
    <3>2. Stage' /\ InStep'
      BY <1>2, <1>4, <2>2, <2>4, <3>1 DEF Stage, InStep, Loading, First
    <3>3. QED  BY <1>1, <2>3, <3>2 DEF IInv
  <2>5. CASE pc = "create2"
    <3>1. pc' = "version2" /\ view.tables = OneTable /\ disk.version < 2
      BY <1>4, <2>5 DEF IInv, Stage, Ok, Goto, NextStatement
    <3>2. view'.tables = TwoTables'
      BY <1>4, <2>2, <2>5, <3>1, DiskFact DEF Tables, OneTable, TwoTables
    <3>3. Stage' /\ InStep'
      BY <1>2, <2>2, <3>1, <3>2 DEF Stage, InStep, Loading, First
    <3>4. QED  BY <1>1, <2>3, <3>3 DEF IInv
  <2>6. QED  BY <1>2, <2>4, <2>5
<1>5. QED  BY <1>2, <1>3, <1>4 DEF Create, Tables

\* The statements that set the version keep it.
LEMMA SetVersionIInv == IInv /\ SetVersion => IInv'
<1> SUFFICES ASSUME IInv, SetVersion PROVE IInv'  OBVIOUS
<1>1. TypeOK'  BY NextTypeOK DEF IInv, Next, Opening
<1>2. /\ pc \in {"version1", "version2", "version3"} /\ txn
      /\ disk.version < Current /\ view.levels = disk.levels
      /\ pc # "version3" => view.logs = disk.logs
  BY DEF SetVersion, IInv, InStep, Stage, First, Loading, Upgrading
<1>3. CASE Fails /\ GiveUp /\ pc # "version3"
  BY <1>1, <1>2, <1>3, GiveUpIInv DEF First
<1>4. CASE Fails /\ GiveUp /\ pc = "version3"
  <2>1. /\ pc' = "check" /\ view.tables = TwoTables /\ LogsConverted(Attempts)
        /\ UNCHANGED misfiled
    BY <1>4 DEF IInv, Stage, GiveUp, Goto, NextBatch
  <2>2. /\ UNCHANGED <<disk, unmade>>
        /\ UNCHANGED <<view, txn>> \/ (view' = disk /\ ~txn')
    BY <1>4, FailsFact DEF First
  <2>3. SchemaMatchesVersion' /\ LogsMatchVersion'  BY <2>1, <2>2, DiskKept
  <2>4. view'.version = Current => UNCHANGED view /\ InOrder
    <3>1. disk.version # Current  BY <1>2, DiskFact DEF Current
    <3>2. view.version = Current => InOrder  BY <1>2, <2>1, InOrderFact
    <3>3. QED  BY <2>2, <3>1, <3>2
  <2>5. InOrder /\ UNCHANGED <<view, unmade, misfiled>> => InOrder'
    BY DEF InOrder, SchemaMatches, LogsMatch
  <2>6. Stage' /\ InStep'
    BY <1>2, <2>1, <2>2, <2>4, <2>5 DEF Stage, InStep, Loading, Upgrading, First
  <2>7. QED  BY <1>1, <2>3, <2>6 DEF IInv
<1>5. ASSUME NEW v \in 1..3,
             v = CASE pc = "version1" -> 1 [] pc = "version2" -> 2 [] OTHER -> 3,
             Write([view EXCEPT !.version = v]), Ok
      PROVE  IInv'
  <2>1. view \in Databases  BY <1>2, ViewFact
  <2>2. /\ UNCHANGED <<disk, txn, unmade, misfiled>>
        /\ view'.version = v
        /\ view'.tables = view.tables /\ view'.levels = view.levels
        /\ view'.logs = view.logs
    BY <1>2, <1>5, <2>1, VersionEdit DEF Write, Ok, Goto
  <2>3. SchemaMatchesVersion' /\ LogsMatchVersion'  BY <2>2, DiskKept
  <2>4. CASE pc = "version1"
    <3>1. /\ pc' = "commit1" /\ view.tables = {"level"} /\ disk.version = 0 /\ v = 1
          /\ unmade = {}
      BY <1>5, <2>4 DEF IInv, Stage, First, Ok, Goto, NextStatement
    <3>2. Stage' /\ InStep'
      BY <1>2, <2>2, <2>4, <3>1 DEF Stage, InStep, First, Loading
    <3>3. QED  BY <1>1, <2>3, <3>2 DEF IInv
  <2>5. CASE pc = "version2"
    <3>1. pc' = "commit2" /\ view.tables = TwoTables /\ disk.version < 2 /\ v = 2
      BY <1>5, <2>5 DEF IInv, Stage, Ok, Goto, NextStatement
    <3>2. Stage' /\ InStep'
      BY <1>2, <2>2, <2>5, <3>1 DEF Stage, InStep, First, Loading, TwoTables
    <3>3. QED  BY <1>1, <2>3, <3>2 DEF IInv
  <2>6. CASE pc = "version3"
    <3>1. /\ pc' = "commit3" /\ view.tables = TwoTables /\ v = 3
          /\ LogsConverted(Attempts)
      BY <1>5, <2>6 DEF IInv, Stage, Ok, Goto, NextStatement
    <3>2. LogsConverted(Attempts)'  BY <2>2, <3>1 DEF LogsConverted
    <3>3. Stage' /\ InStep'
      BY <1>2, <2>2, <3>1, <3>2
      DEF Stage, InStep, First, Loading, Upgrading, TwoTables, Current
    <3>4. QED  BY <1>1, <2>3, <3>3 DEF IInv
  <2>7. QED  BY <1>2, <2>4, <2>5, <2>6
<1>6. QED  BY <1>2, <1>3, <1>4, <1>5 DEF SetVersion

(* What a COMMIT that succeeds writes.                                       *)
LEMMA CommitFact ==
    ASSUME IInv, pc \in {"commit1", "commit2", "commit3"}
    PROVE  /\ txn /\ disk.version < view.version
           /\ view \in Databases /\ disk \in Databases
           /\ view.levels = disk.levels
           /\ view.version \in 1 .. Current
           /\ pc = "commit1" => /\ view.version = 1 /\ view.tables = {"level"}
                                /\ unmade = {} /\ disk.version = 0
           /\ pc = "commit2" => view.version = 2 /\ view.tables = TwoTables
           /\ pc = "commit3" => view.version = Current /\ view.tables = TwoTables
           /\ IF pc = "commit3" THEN LogsConverted(Attempts) ELSE view.logs = disk.logs
           /\ InOrder
<1>1. /\ txn /\ disk.version < Current
      /\ view.levels = disk.levels
      /\ pc # "commit3" => view.logs = disk.logs
      /\ view \in Databases /\ disk \in Databases /\ disk.version \in Nat
      /\ unmade \subseteq {"level"}
  BY ViewFact, DiskFact DEF IInv, InStep, Stage, First, Loading, Upgrading
<1>2. CASE pc = "commit1"
  <2>1. disk.version = 0 /\ view.tables = {"level"} /\ view.version = 1 /\ unmade = {}
    BY <1>2 DEF IInv, Stage, First
  <2>2. \A a \in Attempts : view.logs[a] = "none"
    <3>1. view.logs = disk.logs /\ disk.version < 2  BY <1>1, <1>2, <2>1
    <3>2. QED  BY <3>1, DiskFact
  <2>3. InOrder
    BY <2>1, <2>2 DEF InOrder, SchemaMatches, LogsMatch, Schema, Current
  <2>4. QED  BY <1>1, <1>2, <2>1, <2>3 DEF Current
<1>3. CASE pc = "commit2"
  <2>1. disk.version < 2 /\ view.tables = TwoTables /\ view.version = 2
    BY <1>3 DEF IInv, Stage
  <2>2. \A a \in Attempts : view.logs[a] = "none"  BY <1>1, <1>3, <2>1, DiskFact
  <2>3. InOrder
    BY <2>1, <2>2 DEF InOrder, SchemaMatches, LogsMatch, Schema, Current, TwoTables
  <2>4. QED  BY <1>1, <1>3, <2>1, <2>3 DEF Current
<1>4. CASE pc = "commit3"
  <2>1. /\ view.tables = TwoTables /\ view.version = Current
        /\ LogsConverted(Attempts)
    BY <1>4 DEF IInv, Stage
  <2>2. InOrder  BY <1>1, <2>1, InOrderFact
  <2>3. QED  BY <1>1, <1>4, <2>1, <2>2 DEF Current
<1>5. QED  BY <1>2, <1>3, <1>4

\* COMMIT keeps it: what becomes durable is in order.
LEMMA CommitIInv == IInv /\ Commit => IInv'
<1> SUFFICES ASSUME IInv, Commit PROVE IInv'  OBVIOUS
<1>1. TypeOK'  BY NextTypeOK DEF IInv, Next, Opening
<1>2. /\ pc \in {"commit1", "commit2", "commit3"}
      /\ txn /\ view.levels = disk.levels /\ InOrder
      /\ pc # "commit3" => view.logs = disk.logs
      /\ pc = "commit1" => /\ view.tables = {"level"} /\ view.version = 1
                           /\ unmade = {}
      /\ pc = "commit2" => view.tables = TwoTables /\ view.version = 2
  BY CommitFact DEF Commit
<1>3. CASE disk' = view /\ txn' = FALSE /\ UNCHANGED <<view, unmade>> /\ Ok
  <2>1. /\ pc = "commit1" => pc' = "begin2"
        /\ pc = "commit2" => pc' = "begin3"
        /\ pc = "commit3" => pc' = "check"
        /\ UNCHANGED misfiled
    BY <1>3 DEF Ok, Goto, NextStatement
  <2>2. InOrder' /\ SchemaMatchesVersion' /\ LogsMatchVersion'
    BY <1>2, <1>3, <2>1
    DEF InOrder, SchemaMatchesVersion, LogsMatchVersion, SchemaMatches, LogsMatch
  <2>3. Stage'
    BY <1>2, <1>3, <2>1, <2>2
    DEF Stage, First, Loading, OneTable, TwoTables, Current
  <2>4. InStep'  BY <1>2, <1>3, <2>1 DEF InStep
  <2>5. QED  BY <1>1, <2>2, <2>3, <2>4 DEF IInv
<1>4. CASE Fails /\ GiveUp /\ pc # "commit3"
  BY <1>1, <1>2, <1>4, GiveUpIInv DEF First
<1>5. CASE Fails /\ GiveUp /\ pc = "commit3"
  <2>1. /\ pc' = "check" /\ UNCHANGED <<disk, unmade, misfiled>>
        /\ UNCHANGED <<view, txn>> \/ (view' = disk /\ ~txn')
        /\ disk.version < Current /\ disk.version \in Nat
    BY <1>2, <1>5, FailsFact, DiskFact DEF First, GiveUp, Goto, NextBatch, IInv, InStep
  <2>2. SchemaMatchesVersion' /\ LogsMatchVersion'  BY <2>1, DiskKept
  <2>3. InOrder /\ UNCHANGED <<view, unmade, misfiled>> => InOrder'
    BY DEF InOrder, SchemaMatches, LogsMatch
  <2>4. view'.version = Current => InOrder'
    <3>1. disk.version # Current  BY <2>1 DEF Current
    <3>2. QED  BY <1>2, <2>1, <2>3, <3>1
  <2>5. InStep'  BY <1>2, <2>1 DEF InStep, Loading, Upgrading
  <2>6. Stage'  BY <2>1, <2>4 DEF Stage, First, Loading
  <2>7. QED  BY <1>1, <2>2, <2>5, <2>6 DEF IInv
<1>6. QED  BY <1>2, <1>3, <1>4, <1>5 DEF Commit

\* The conversion of the logs, row by row, keeps it.
LEMMA ConvertIInv ==
    IInv /\ ((\E a \in Attempts : ConvertRow(a)) \/ ConvertEnds) => IInv'
<1> SUFFICES ASSUME IInv, (\E a \in Attempts : ConvertRow(a)) \/ ConvertEnds
             PROVE  IInv'
  OBVIOUS
<1>1. TypeOK'  BY NextTypeOK DEF IInv, Next, Opening
<1>2. /\ pc = "convert" /\ txn
      /\ disk.version < Current /\ view.levels = disk.levels
      /\ view \in Databases /\ \A a \in Attempts : view.logs[a] \in Encodings
      /\ IF "attempt" \in view.tables
         THEN view.tables = TwoTables /\ LogsConverted(Attempts \ todo)
         ELSE todo = {}
  BY ViewFact DEF ConvertRow, ConvertEnds, IInv, InStep, Stage, Loading
<1>3. CASE ConvertEnds
  <2>1. /\ UNCHANGED <<disk, view, txn, unmade, misfiled>> /\ pc' = "version3"
        /\ view.tables = TwoTables /\ LogsConverted(Attempts)
    BY <1>2, <1>3 DEF ConvertEnds, Refused, Goto, LogsConverted
  <2>2. LogsConverted(Attempts)'  BY <2>1 DEF LogsConverted
  <2>3. Stage' /\ InStep'
    BY <1>2, <2>1, <2>2 DEF Stage, InStep, First, Loading, Upgrading, TwoTables
  <2>4. QED  BY <1>1, <2>1, <2>3, DiskKept DEF IInv
<1>4. ASSUME NEW a \in Attempts, ConvertRow(a) PROVE IInv'
  <2> DEFINE enc == Converted(view.logs[a])
  <2>1. /\ a \in todo /\ todo' = todo \ {a} /\ pc' = pc /\ UNCHANGED misfiled
        /\ "attempt" \in view.tables
    BY <1>2, <1>4 DEF ConvertRow
  <2>2. enc \in Encodings  BY <1>2, ConvertedFact
  <2>3. view' = [view EXCEPT !.logs[a] = enc] /\ UNCHANGED <<disk, txn, unmade>>
    BY <1>2, <1>4 DEF ConvertRow, Write
  <2>4. view.logs[a] = disk.logs[a]  BY <1>2, <2>1 DEF LogsConverted
  <2>5. enc = Converted(disk.logs[a])  BY <2>4
  <2> HIDE DEF enc
  <2>6. /\ view'.tables = view.tables /\ view'.levels = view.levels
        /\ \A b \in Attempts : view'.logs[b] = IF b = a THEN enc ELSE view.logs[b]
    BY <1>2, <2>2, <2>3, LogEdit
  <2>7. LogsConverted(Attempts \ todo)'
    <3> SUFFICES ASSUME NEW b \in Attempts
                 PROVE  view'.logs[b] = IF b \in Attempts \ todo' THEN Converted(disk.logs[b])
                                        ELSE disk.logs[b]
      BY <2>3 DEF LogsConverted
    <3>1. CASE b = a  BY <2>1, <2>5, <2>6, <3>1
    <3>2. CASE b # a
      <4>1. view'.logs[b] = view.logs[b] /\ (b \in todo' <=> b \in todo)
        BY <2>1, <2>6, <3>2
      <4>2. QED  BY <1>2, <2>1, <4>1 DEF LogsConverted
    <3>3. QED  BY <3>1, <3>2
  <2>8. Stage' /\ InStep'
    BY <1>2, <2>1, <2>3, <2>6, <2>7
    DEF Stage, InStep, First, Loading, Upgrading, TwoTables
  <2>9. QED  BY <1>1, <2>1, <2>3, <2>8, DiskKept DEF IInv
<1>5. QED  BY <1>3, <1>4

(* What is in order stays so while nothing is written.                       *)
LEMMA InOrderKept ==
    ASSUME UNCHANGED <<view, unmade, misfiled>>, InOrder PROVE InOrder'
BY DEF InOrder, SchemaMatches, LogsMatch

\* The comparison with the current version keeps it.
LEMMA CheckIInv == IInv /\ Check => IInv'
<1> SUFFICES ASSUME IInv, Check PROVE IInv'  OBVIOUS
<1>1. TypeOK'  BY NextTypeOK DEF IInv, Next, Opening
<1>2. CASE Close  BY <1>2, CloseIInv
<1>3. CASE /\ view.version = Current /\ pc' \in Loading
           /\ UNCHANGED <<disk, view, txn, unmade, misfiled>>
  <2>1. InOrder' /\ pc = "check"
    BY <1>3, InOrderKept DEF Check, IInv, Stage
  <2>2. Stage' /\ InStep'
    BY <1>3, <2>1 DEF IInv, Stage, InStep, First, Loading, Upgrading, Current
  <2>3. QED  BY <1>1, <1>3, <2>2, DiskKept DEF IInv
<1>4. QED  BY <1>2, <1>3 DEF Check, Loading

(* A database of the current version stays in order with a level or an       *)
(* attempt more.                                                             *)
LEMMA GrownFact ==
    ASSUME IInv, InOrder, view.version = Current, UNCHANGED <<unmade, misfiled>>,
           view'.version = view.version, view'.tables = view.tables,
           \A a \in Attempts :
              \/ view'.logs[a] = view.logs[a]
              \/ view'.logs[a] = "new" /\ "attempt" \in view.tables
    PROVE  InOrder'
BY DEF InOrder, SchemaMatches, LogsMatch, Current

(* Writing to the open database of the current version.                      *)
LEMMA WriteIInv ==
    ASSUME IInv, TypeOK', pc \in Loading, UNCHANGED <<pc, misfiled>>, NEW d, Write(d),
           d.version = Current, InOrder'
    PROVE  IInv'
<1>1. /\ pc # "down" /\ view' = d /\ disk' = IF txn THEN disk ELSE d
      /\ UNCHANGED <<txn, unmade>>
  BY DEF Loading, Write
<1>2. SchemaMatchesVersion' /\ LogsMatchVersion'
  <2>1. CASE txn  BY <1>1, <2>1, DiskKept
  <2>2. CASE ~txn
    BY <1>1, <2>2
    DEF InOrder, SchemaMatchesVersion, LogsMatchVersion, SchemaMatches, LogsMatch
  <2>3. QED  BY <2>1, <2>2
<1>3. Stage'  BY <1>1 DEF Stage, First, Loading
<1>4. InStep'  BY <1>1 DEF IInv, InStep, Loading, Upgrading
<1>5. QED  BY <1>2, <1>3, <1>4 DEF IInv

(* Nothing but the program's place changes.                                  *)
LEMMA ReadIInv ==
    ASSUME IInv, TypeOK', pc \in Loading, pc' \in {pc, "up"},
           UNCHANGED <<disk, view, txn, unmade, misfiled>>
    PROVE  IInv'
<1>1. InOrder'  BY InOrderKept DEF IInv, Stage
<1>2. pc # "down" /\ (pc = "load" => view.version = Current)  BY DEF Loading, IInv, Stage
<1>3. Stage'
  BY <1>1, <1>2 DEF IInv, Stage, First, Loading
<1>4. InStep'  BY <1>2 DEF IInv, InStep, Loading, Upgrading
<1>5. QED  BY <1>3, <1>4, DiskKept DEF IInv

\* Loading the level files keeps it.
LEMMA LoadIInv ==
    IInv /\ ((\E f \in Files : LoadFile(f)) \/ LoadEnds) => IInv'
<1> SUFFICES ASSUME IInv, (\E f \in Files : LoadFile(f)) \/ LoadEnds PROVE IInv'
  OBVIOUS
<1>1. TypeOK'  BY NextTypeOK DEF IInv, Next, Opening
<1>2. pc = "load" /\ view \in Databases /\ view.version = Current /\ InOrder
  BY ViewFact DEF LoadFile, LoadEnds, IInv, Stage, Loading
<1>3. CASE LoadEnds
  BY <1>1, <1>2, <1>3, ReadIInv DEF LoadEnds, Loading
<1>4. ASSUME NEW f \in Files, LoadFile(f) PROVE IInv'
  <2>1. CASE Refused
    BY <1>1, <1>2, <1>4, <2>1, ReadIInv DEF LoadFile, Refused, Loading
  <2>2. CASE Write([view EXCEPT !.levels = @ \cup {FileId[f]}])
    <3> DEFINE d == [view EXCEPT !.levels = @ \cup {FileId[f]}]
    <3>1. d.version = view.version /\ d.tables = view.tables /\ d.logs = view.logs
      BY <1>2, LevelEdit, MigrationAssumption
    <3> HIDE DEF d
    <3>2. view' = d /\ UNCHANGED <<pc, unmade, misfiled>>
      BY <1>4, <2>2 DEF LoadFile, Write, d
    <3>3. InOrder'  BY <1>2, <3>1, <3>2, GrownFact
    <3>4. QED  BY <1>1, <1>2, <2>2, <3>1, <3>2, <3>3, WriteIInv DEF Loading, d
  <2>3. QED  BY <1>4, <2>1, <2>2 DEF LoadFile
<1>5. QED  BY <1>3, <1>4

(* A log that is written into a file of version 2 is a misfiled one.         *)
LEMMA MisfiledFact ==
    ASSUME IInv, pc = "up", view.version # Current, NEW a \in Attempts, RecordAttempt(a)
    PROVE  /\ IInv'
           /\ disk.version = 2 /\ disk.logs[a] = "none"
           /\ disk' = [disk EXCEPT !.logs[a] = "new"]
<1>1. TypeOK'  BY NextTypeOK DEF IInv, Next, Using
<1>2. /\ ~txn /\ view = disk /\ disk.version < Current
      /\ "attempt" \in disk.tables /\ disk.logs[a] = "none"
  BY DEF IInv, Stage, InStep, RecordAttempt
<1>3. /\ disk' = [disk EXCEPT !.logs[a] = "new"] /\ view' = disk'
      /\ UNCHANGED <<pc, txn, unmade>> /\ misfiled' = misfiled \cup {a}
  BY <1>2 DEF RecordAttempt, Write
<1>4. disk.version = 2
  BY <1>2, DiskFact DEF Current, OneTable
<1>5. /\ disk'.version = disk.version /\ disk'.tables = disk.tables
      /\ \A b \in Attempts : disk'.logs[b] = IF b = a THEN "new" ELSE disk.logs[b]
  BY <1>3, DiskFact, LogEdit DEF Encodings
<1>6. SchemaMatchesVersion'
  BY <1>3, <1>5 DEF IInv, SchemaMatchesVersion, SchemaMatches
<1>7. LogsMatchVersion'
  BY <1>2, <1>3, <1>5 DEF IInv, LogsMatchVersion, LogsMatch
<1>8. InOrder'
  BY <1>3, <1>6, <1>7
  DEF InOrder, SchemaMatchesVersion, LogsMatchVersion, SchemaMatches, LogsMatch
<1>9. Stage'
  BY <1>2, <1>3, <1>4, <1>5, <1>8 DEF Stage, First, Loading, Current
<1>10. InStep'  BY <1>2, <1>3 DEF InStep, Loading, Upgrading
<1>11. QED  BY <1>1, <1>2, <1>3, <1>4, <1>6, <1>7, <1>9, <1>10 DEF IInv

\* The statements of a running server keep it.
LEMMA UsingIInv == IInv /\ Using => IInv'
<1> SUFFICES ASSUME IInv, Using PROVE IInv'  OBVIOUS
<1>1. TypeOK'  BY NextTypeOK DEF IInv, Next
<1>2. pc = "up" /\ view \in Databases /\ InOrder
  BY ViewFact DEF Using, RecordAttempt, RecordFails, IInv, Stage, Loading
<1>3. CASE RecordFails
  <2>1. UNCHANGED <<pc, misfiled, unmade, disk>>
    BY <1>2, <1>3, FailsFact DEF RecordFails, First
  <2>2. CASE UNCHANGED <<view, txn>>
    BY <1>1, <1>2, <2>1, <2>2, ReadIInv DEF Loading
  <2>3. CASE view' = disk /\ ~txn'
    <3>1. disk.version < Current \/ (view = disk /\ ~txn)
      BY <1>2 DEF IInv, InStep
    <3>2. SchemaMatchesVersion' /\ LogsMatchVersion'  BY <2>1, DiskKept
    <3>3. InOrder'
      BY <2>1, <2>3, <3>2
      DEF InOrder, SchemaMatchesVersion, LogsMatchVersion, SchemaMatches, LogsMatch
    <3>4. view'.version = Current \/ view'.version < Current
      BY <1>2, <2>3, <3>1 DEF IInv, Stage
    <3>5. Stage' /\ InStep'
      BY <1>2, <2>1, <2>3, <3>3, <3>4 DEF Stage, InStep, First, Loading, Upgrading
    <3>6. QED  BY <1>1, <3>2, <3>5 DEF IInv
  <2>4. QED  BY <1>3, <2>2, <2>3, FailsFact DEF RecordFails
<1>4. ASSUME NEW a \in Attempts, RecordAttempt(a), view.version = Current PROVE IInv'
  <2> DEFINE d == [view EXCEPT !.logs[a] = "new"]
  <2>1. /\ d.version = view.version /\ d.tables = view.tables
        /\ \A b \in Attempts : d.logs[b] = view.logs[b] \/ d.logs[b] = "new"
    BY <1>2, LogEdit DEF Encodings
  <2>2. /\ Write(d) /\ view' = d /\ UNCHANGED <<pc, unmade, misfiled>>
        /\ "attempt" \in view.tables
    BY <1>4 DEF RecordAttempt, Write, Current
  <2> HIDE DEF d
  <2>3. InOrder'  BY <1>2, <1>4, <2>1, <2>2, GrownFact
  <2>4. QED  BY <1>1, <1>2, <1>4, <2>1, <2>2, <2>3, WriteIInv DEF Loading
<1>5. QED  BY <1>2, <1>3, <1>4, MisfiledFact DEF Using

\* Opening the file and reading its version keep it.
LEMMA EntryIInv ==
    IInv /\ ((\E p \in Paths : Start(p)) \/ ReadVersion) => IInv'
<1> SUFFICES ASSUME IInv, (\E p \in Paths : Start(p)) \/ ReadVersion PROVE IInv'
  OBVIOUS
<1>1. TypeOK'  BY NextTypeOK DEF IInv, Next, Opening
<1>2. ASSUME NEW p \in Paths, Start(p) PROVE IInv'
  <2>1. /\ pc' = "read_version" /\ view' = disk
        /\ UNCHANGED <<disk, txn, unmade, misfiled>> /\ ~txn
    BY <1>2 DEF Start, IInv, Stage
  <2>2. Stage'  BY <2>1 DEF Stage, First, Loading
  <2>3. InStep'  BY <2>1 DEF InStep
  <2>4. QED  BY <1>1, <2>1, <2>2, <2>3, DiskKept DEF IInv
<1>3. CASE ReadVersion /\ Close  BY <1>3, CloseIInv
<1>4. CASE ReadVersion /\ ~Close
  <2>1. /\ UNCHANGED <<disk, view, txn, unmade, misfiled>> /\ ~txn /\ view = disk
        /\ view.version <= Current /\ view.version \in Nat
        /\ pc' = CASE view.version = 0 -> "begin1"
                  [] view.version = 1 -> "begin2"
                  [] view.version = 2 -> "begin3"
                  [] OTHER -> "up"
    BY <1>4, ViewFact DEF ReadVersion, IInv, InStep, Stage
  <2>2. view.version \in {0, 1, 2, 3}  BY <2>1 DEF Current
  <2>3. InOrder'
    BY <2>1 DEF IInv, InOrder, SchemaMatchesVersion, LogsMatchVersion, SchemaMatches, LogsMatch
  <2>4. /\ view.version = 1 => view.tables = OneTable
        /\ view.version = 2 => view.tables = TwoTables
    BY <2>1, DiskFact
  <2>5. Stage'
    BY <2>1, <2>2, <2>3, <2>4 DEF Stage, First, Loading, Current, OneTable, TwoTables
  <2>6. InStep'  BY <2>1 DEF InStep
  <2>7. QED  BY <1>1, <2>1, <2>5, <2>6, DiskKept DEF IInv
<1>5. QED  BY <1>2, <1>3, <1>4

\* Every step keeps the invariant, failures, rollbacks and crashes included.
LEMMA NextIInv == IInv /\ [Next]_vars => IInv'
<1> SUFFICES ASSUME IInv, [Next]_vars PROVE IInv'  OBVIOUS
<1>1. CASE ConvertFails \/ LoadFails \/ Exit \/ Crash
  BY <1>1, CloseIInv DEF ConvertFails, LoadFails, Exit, Crash
<1>2. CASE UNCHANGED vars
  BY <1>2
  DEF vars, IInv, TypeOK, SchemaMatchesVersion, LogsMatchVersion, SchemaMatches, LogsMatch,
      InStep, Stage, InOrder, LogsConverted, OneTable, TwoTables
<1>3. QED
  BY <1>1, <1>2, BeginIInv, CreateIInv, SetVersionIInv, CommitIInv, ConvertIInv,
     CheckIInv, LoadIInv, UsingIInv, EntryIInv DEF Next, Opening

(* The file is ahead of nothing: the connection is, by a known part of the   *)
(* upgrade, whatever fails and however it is rolled back.                    *)
THEOREM Invariance == Spec => []IInv
<1>1. IInv /\ [Next]_vars => IInv'  BY NextIInv
<1>2. QED  BY <1>1, InitIInv, PTL DEF Spec

(* db.c never leaves a file whose tables are not those of its version, but   *)
(* for a level table whose upgrade SQLite rolled back.                       *)
THEOREM SchemaIsComplete == Spec => []SchemaMatchesVersion
<1>1. IInv => SchemaMatchesVersion  BY DEF IInv
<1>2. QED  BY <1>1, Invariance, PTL

(* migrate_2to3_input_logs converts every committed log exactly once, but    *)
(* for those recorded after the last upgrade was rolled back.                *)
THEOREM LogsConvertOnce == Spec => []LogsMatchVersion
<1>1. IInv => LogsMatchVersion  BY DEF IInv
<1>2. QED  BY <1>1, Invariance, PTL

\* A database is opened at the current version only.
LEMMA OpeningFact ==
    ASSUME IInv, [Next]_vars, pc # "up", pc' = "up"
    PROVE  view'.version = Current
<1>1. LoadEnds \/ Check \/ ReadVersion
  <2>1. ~(Begin \/ Create \/ SetVersion \/ Commit)
    <3>1. \A l \in DOMAIN NextStatement : NextStatement[l] # "up" /\ NextBatch[l] # "up"
      BY DEF NextStatement, NextBatch
    <3>2. ~((Ok \/ GiveUp) /\ pc \in DOMAIN NextStatement)
      BY <3>1 DEF Ok, GiveUp, Goto
    <3>3. QED  BY <3>2 DEF Begin, Create, SetVersion, Commit, NextStatement
  <2>2. QED
    BY <2>1 DEF Next, vars, Start, Opening, Goto, ConvertRow, ConvertEnds, ConvertFails,
                LoadFile, LoadFails, Using, RecordAttempt, RecordFails, Exit, Crash, Close
<1>2. CASE LoadEnds  BY <1>2 DEF LoadEnds, IInv, Stage
<1>3. CASE Check  BY <1>3 DEF Check, Close
<1>4. CASE ReadVersion
  <2>1. view.version \in Nat  BY <1>4, ViewFact DEF ReadVersion
  <2>2. QED  BY <1>4, <2>1 DEF ReadVersion, Close, Current
<1>5. QED  BY <1>1, <1>2, <1>3, <1>4

\* An open database keeps its version until its transaction is rolled back.
LEMMA OpenFact ==
    ASSUME IInv, [Next]_vars, pc = "up", pc' = "up"
    PROVE  view'.version = view.version \/ (txn /\ ~txn')
<1>1. Using \/ UNCHANGED vars
  BY DEF Next, Start, Opening, ReadVersion, Begin, Create, SetVersion, Commit, ConvertRow,
         ConvertEnds, ConvertFails, Check, LoadFile, LoadEnds, LoadFails, Exit, Crash, Close
<1>2. CASE UNCHANGED vars  BY <1>2 DEF vars
<1>3. ASSUME NEW a \in Attempts, RecordAttempt(a) PROVE view'.version = view.version
  BY <1>3, ViewFact, LogEdit DEF RecordAttempt, Write, Encodings
<1>4. CASE RecordFails
  <2>1. ~txn => view = disk  BY DEF IInv, InStep
  <2>2. txn \in BOOLEAN  BY DEF IInv, TypeOK
  <2>3. QED  BY <1>4, <2>1, <2>2, FailsFact DEF RecordFails
<1>5. QED  BY <1>1, <1>2, <1>3, <1>4 DEF Using

(* When db_create succeeds, the queries of db.c find their tables, but for a *)
(* level table that was rolled back, and logs in the encoding of version 3.  *)
THEOREM OpenCorrect == Spec => OpenIsUsable
<1>1. ASSUME IInv, IInv', [Next]_vars
      PROVE  /\ pc # "up" /\ pc' = "up" =>
                   /\ view'.version = Current /\ view'.tables = Tables \ unmade'
                   /\ LogsMatch(view', Attempts \ misfiled')
             /\ pc = "up" /\ pc' = "up" =>
                   view'.version = view.version \/ (txn /\ ~txn')
  <2>1. pc' = "up" => InOrder'  BY <1>1 DEF IInv, Stage, Loading
  <2>2. InOrder' /\ view'.version = Current =>
           view'.tables = Tables \ unmade' /\ LogsMatch(view', Attempts \ misfiled')
    BY DEF InOrder, SchemaMatches, LogsMatch, Schema, Current
  <2>3. QED  BY <1>1, <2>1, <2>2, OpeningFact, OpenFact
<1>2. IInv /\ IInv' /\ [Next]_vars =>
         [/\ pc # "up" /\ pc' = "up" =>
                /\ view'.version = Current /\ view'.tables = Tables \ unmade'
                /\ LogsMatch(view', Attempts \ misfiled')
          /\ pc = "up" /\ pc' = "up" =>
                view'.version = view.version \/ (txn /\ ~txn')]_vars
  BY <1>1
<1>3. QED  BY <1>2, Invariance, PTL DEF Spec, OpenIsUsable

-----------------------------------------------------------------------------
(* The program implements DatabaseFile. *)

\* The initial states are those of DatabaseFile.
LEMMA InitRefines == Init => File!Init
BY InitTypeOK DEF Init, TypeOK, File!Init, Databases, WellFormed, SchemaMatches, LogsMatch,
   Current, Schema, Tables, Encodings,
   File!Databases, File!WellFormed, File!SchemaMatches, File!LogsMatch,
   File!Current, File!Schema, File!Tables, File!Encodings

(* A database is its four fields.                                            *)
LEMMA FieldsFact ==
    ASSUME NEW d \in Databases, NEW e \in Databases, d.levels = e.levels
    PROVE  d = [e EXCEPT !.version = d.version, !.tables = d.tables, !.logs = d.logs]
BY DEF Databases

\* The abstract file knows the same tables, versions and encodings.
LEMMA FileFact ==
    /\ File!Current = Current /\ File!Tables = Tables
    /\ \A v : File!Schema(v) = Schema(v)
    /\ \A enc : File!Converted(enc) = Converted(enc)
BY DEF File!Current, Current, File!Tables, Tables, File!Schema, Schema,
       File!Converted, Converted

\* A COMMIT that succeeds is one of the upgrades of DatabaseFile.
LEMMA CommitRefines ==
    ASSUME IInv, pc \in {"commit1", "commit2", "commit3"}, disk' = view
    PROVE  File!Upgrade \/ File!UpgradeWithoutLevels
<1> DEFINE v == view.version
<1>1. /\ disk.version < v /\ v \in 1 .. Current
      /\ view \in Databases /\ disk \in Databases /\ view.levels = disk.levels
      /\ pc = "commit1" => v = 1 /\ view.tables = {"level"} /\ unmade = {} /\ disk.version = 0
      /\ pc = "commit2" => v = 2
      /\ pc = "commit3" => v = Current
      /\ pc \in {"commit2", "commit3"} => view.tables = TwoTables
      /\ IF pc = "commit3" THEN LogsConverted(Attempts) ELSE view.logs = disk.logs
      /\ unmade \subseteq {"level"}
      /\ disk.tables = Schema(disk.version) \ unmade
  <2>1. disk.version <= Current => disk.tables = Schema(disk.version) \ unmade
    BY DEF IInv, SchemaMatchesVersion, SchemaMatches
  <2>2. QED  BY <2>1, CommitFact, DiskFact DEF Current
<1>2. view.logs = IF v = Current THEN [a \in Attempts |-> Converted(disk.logs[a])]
                  ELSE disk.logs
  <2>1. v = Current <=> pc = "commit3"  BY <1>1 DEF Current
  <2>2. view.logs \in [Attempts -> Encodings]  BY <1>1 DEF Databases
  <2>3. QED  BY <1>1, <2>1, <2>2 DEF LogsConverted
<1>3. File!UpgradeTo(v, view.tables)
  <2>1. view = [disk EXCEPT !.version = v, !.tables = view.tables, !.logs = view.logs]
    BY <1>1, FieldsFact
  <2>2. QED  BY <1>1, <1>2, <2>1, FileFact DEF File!UpgradeTo
<1> HIDE DEF v
<1>4. CASE unmade = {}
  <2>1. view.tables = Schema(v) /\ disk.tables = Schema(disk.version)
    BY <1>1, <1>4 DEF Schema, TwoTables, Current
  <2>2. QED  BY <1>1, <1>3, <2>1, FileFact DEF File!Upgrade
<1>5. CASE unmade = {"level"}
  <2>1. /\ view.tables = {"attempt"} /\ v \in 2 .. Current
        /\ "level" \notin disk.tables
    BY <1>1, <1>5 DEF TwoTables, Tables, Current
  <2>2. QED  BY <1>3, <2>1, FileFact DEF File!UpgradeWithoutLevels
<1>6. QED  BY <1>1, <1>4, <1>5

\* Every step is one of DatabaseFile, or leaves the file alone.
LEMMA NextRefines ==
    ASSUME IInv, [Next]_vars
    PROVE  [File!Next]_disk
<1>1. CASE Commit
  <2>1. CASE Fails \/ Refused  BY <2>1, FailsFact DEF Refused
  <2>2. CASE disk' = view  BY <1>1, <2>2, CommitRefines DEF Commit, File!Next
  <2>3. QED  BY <1>1, <2>1, <2>2 DEF Commit
<1>2. CASE Create \/ SetVersion \/ (\E a \in Attempts : ConvertRow(a))
  <2>1. txn  BY <1>2 DEF Create, SetVersion, ConvertRow, IInv, Stage, First
  <2>2. UNCHANGED disk
    BY <1>2, <2>1, FailsFact DEF Create, SetVersion, ConvertRow, Write, Refused
  <2>3. QED  BY <2>2
<1>3. ASSUME NEW f \in Files, LoadFile(f) PROVE [File!Next]_disk
  <2>1. pc # "down" /\ view.version = Current  BY <1>3 DEF LoadFile, IInv, Stage
  <2>2. CASE UNCHANGED disk  BY <2>2
  <2>3. CASE disk' # disk
    <3>1. /\ FileId[f] \in LevelIds /\ FileId[f] \notin view.levels /\ ~txn
          /\ "level" \in view.tables
          /\ disk' = [view EXCEPT !.levels = @ \cup {FileId[f]}]
      BY <1>3, <2>3, MigrationAssumption DEF LoadFile, Refused, Write
    <3>2. view = disk  BY <2>1, <3>1 DEF IInv, InStep
    <3>3. File!AddLevel
      BY <2>1, <3>1, <3>2, FileFact DEF File!AddLevel
    <3>4. QED  BY <3>3 DEF File!Next
  <2>4. QED  BY <2>2, <2>3
<1>4. ASSUME NEW a \in Attempts, RecordAttempt(a) PROVE [File!Next]_disk
  <2>1. pc = "up"  BY <1>4 DEF RecordAttempt
  <2>2. CASE UNCHANGED disk  BY <2>2
  <2>3. CASE view.version # Current
    BY <1>4, <2>1, <2>3, MisfiledFact DEF File!MisfileAttempt, File!AddLog, File!Next
  <2>4. CASE disk' # disk /\ view.version = Current
    <3>1. /\ view.logs[a] = "none" /\ ~txn
          /\ disk' = [view EXCEPT !.logs[a] = "new"]
      BY <1>4, <2>4 DEF RecordAttempt, Write
    <3>2. view = disk  BY <2>1, <3>1 DEF IInv, InStep
    <3>3. File!AddAttempt
      BY <2>4, <3>1, <3>2, FileFact DEF File!AddAttempt, File!AddLog
    <3>4. QED  BY <3>3 DEF File!Next
  <2>5. QED  BY <2>2, <2>3, <2>4
<1>5. CASE \/ \E p \in Paths : Start(p)
           \/ ReadVersion \/ Begin \/ ConvertEnds \/ ConvertFails \/ Check
           \/ LoadEnds \/ LoadFails \/ RecordFails \/ Exit \/ Crash
  BY <1>5, FailsFact
  DEF Start, ReadVersion, Begin, ConvertEnds, Refused, ConvertFails, Check, LoadEnds,
      LoadFails, RecordFails, Exit, Crash, Close
<1>6. CASE UNCHANGED vars  BY <1>6 DEF vars
<1>7. QED
  BY <1>1, <1>2, <1>3, <1>4, <1>5, <1>6 DEF Next, Opening, Using

(* Every start, upgrade, rollback, crash and play is, on the file, an upgrade *)
(* that keeps what is there and converts every log once, one more level, one *)
(* more attempt, or nothing.                                                 *)
THEOREM Refinement == Spec => FileSpec
<1>1. IInv /\ [Next]_vars => [File!Next]_disk  BY NextRefines
<1>2. QED  BY <1>1, InitRefines, Invariance, PTL DEF Spec, FileSpec, File!Spec
=============================================================================
