------------------------------ MODULE LevelPit ------------------------------
(***************************************************************************)
(* The level pit's window on the level table: which levels one page shows  *)
(* and what the arrow keys do to it (screens/levels.c and the queries of   *)
(* db.c it makes).  Level ids are "not necessarily continuous" (db.h), so  *)
(* the window is kept by id, never by position.                            *)
(***************************************************************************)
EXTENDS Integers, FiniteSets

CONSTANTS
    Levels,     \* the ids in the level table
    PageSize    \* rows on a page (16 in the code)

ASSUME LevelsAssumption == Levels \subseteq Nat /\ IsFiniteSet(Levels)
ASSUME PageSizeAssumption == PageSize \in Nat /\ PageSize > 1

\* db_get_metadata(top_id - 1), before its LIMIT.  A top_id of 0 wraps to
\* UINT32_MAX and is bound as -1, which comes to the same set.
From(top) == {l \in Levels : l >= top}

\* Levels that come before l in that list.
Before(top, l) == {m \in From(top) : m < l}

\* The number of rows it returns.
NumRows(top) ==
    IF Cardinality(From(top)) < PageSize THEN Cardinality(From(top)) ELSE PageSize

\* metadata[i].id
Row(top, i) == CHOOSE l \in From(top) : Cardinality(Before(top, l)) = i

\* The id drawn on the selected row, 0 when no row is selected.
SelectedId(top, index) ==
    IF index < NumRows(top) THEN Row(top, index) ELSE 0

\* db_get_level_bounds (an empty table gives 0 and 0).
MinLevel == IF Levels = {} THEN 0 ELSE CHOOSE l \in Levels : \A m \in Levels : l <= m
MaxLevel == IF Levels = {} THEN 0 ELSE CHOOSE l \in Levels : \A m \in Levels : m <= l

\* db_get_previous_level
Previous(top) ==
    LET below == {l \in Levels : l < top}
    IN  IF below = {} THEN 0 ELSE CHOOSE l \in below : \A m \in below : m <= l

-----------------------------------------------------------------------------
(* The window is a pair of top_id and selected_index. *)

InitialWindow == [top |-> 1, index |-> 0]

\* The up key.
UpKey(w) ==
    IF w.index > 0 THEN [w EXCEPT !.index = @ - 1]
    ELSE IF w.top > MinLevel THEN [w EXCEPT !.top = Previous(w.top)]
    ELSE w

\* Mutant: the selection moves one row past the end of a short page.
DownKeyTooFar(w, rows) ==
    IF w.index < rows THEN [w EXCEPT !.index = @ + 1]
    ELSE IF rows = PageSize /\ Row(w.top, rows - 1) < MaxLevel
         THEN [w EXCEPT !.top = Row(w.top, 1)]
    ELSE w

\* Mutant: scrolling down puts the selection back on the first row.
DownKeyToFirst(w, rows) ==
    IF w.index < rows - 1 THEN [w EXCEPT !.index = @ + 1]
    ELSE IF rows = PageSize /\ Row(w.top, rows - 1) < MaxLevel
         THEN [top |-> Row(w.top, 1), index |-> 0]
    ELSE w

\* The down key, on a page that read `rows` rows.
DownKey(w, rows) ==
    IF w.index < rows - 1 THEN [w EXCEPT !.index = @ + 1]
    ELSE IF rows = PageSize /\ Row(w.top, rows - 1) < MaxLevel
         THEN [w EXCEPT !.top = Row(w.top, 1)]
    ELSE w
=============================================================================
