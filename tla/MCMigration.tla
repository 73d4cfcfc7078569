---------------------------- MODULE MCMigration -----------------------------
(* Model-checking instance of opening the database. *)
EXTENDS Migration

\* Three levels, two of them with one number, and a file that is none.
Ids == [f \in Files |-> CASE f \in {"1.txt", "01.txt"} -> 1 [] f = "2.txt" -> 2 [] OTHER -> 0]
=============================================================================
