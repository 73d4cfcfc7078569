--------------------------- MODULE ScreensProofs ----------------------------
(***************************************************************************)
(* What holds of a player's screens for any level table, any page size and *)
(* any keys.                                                               *)
(*                                                                         *)
(* The first part is about the level pit's window on the level table: the  *)
(* selected row is a row the page displays, and the arrow keys walk the    *)
(* table level by level.  The second is about the stack: its shape, what   *)
(* each screen on it may claim, and what follows from them for a single    *)
(* step -- keys act within one tick, and the attempt table only ever       *)
(* receives the truth.                                                     *)
(*                                                                         *)
(* The parts of the invariant meet only in the kind of the top screen, so  *)
(* the proof is about what the stack operations do (Replaced, Append, and  *)
(* dropping the top) and then, action by action, about which of them is    *)
(* applied to what.                                                        *)
(***************************************************************************)
EXTENDS Screens, SequenceTheorems, Induction

Windows == [top : Nat, index : Nat]

\* The selection is on a displayed row.
Shown(w) == w.index < NumRows(w.top)

-----------------------------------------------------------------------------
(* The level pit's window: least and greatest levels. *)

\* SELECT MAX(id): the level with the highest number.
LEMMA MaxLevelFact ==
    ASSUME Levels # {}
    PROVE  MaxLevel \in Levels /\ \A m \in Levels : m <= MaxLevel
BY LevelsAssumption, GreatestExists DEF MaxLevel

\* The level with the lowest number.
LEMMA MinLevelFact ==
    ASSUME Levels # {}
    PROVE  MinLevel \in Levels /\ \A m \in Levels : MinLevel <= m
BY LevelsAssumption, LeastExists DEF MinLevel

(* db_get_previous_level finds the next lower level when there is one.     *)
LEMMA PreviousFact ==
    ASSUME NEW top \in Nat, NEW k \in Levels, k < top
    PROVE  /\ Previous(top) \in Levels /\ Previous(top) < top
           /\ \A m \in Levels : m < top => m <= Previous(top)
<1> DEFINE below == {l \in Levels : l < top}
<1>1. below \in SUBSET Nat /\ below # {}  BY LevelsAssumption
<1>2. IsFiniteSet(below)  BY LevelsAssumption, FS_Subset
<1>3. \E l \in below : \A m \in below : m <= l
  BY <1>1, <1>2, GreatestExists
<1>4. Previous(top) \in below /\ \A m \in below : m <= Previous(top)
  BY <1>1, <1>3 DEF Previous
<1>5. QED  BY <1>4

-----------------------------------------------------------------------------
(* What a page shows. *)

\* The levels from some number on are finitely many, and so are the rows of a page.
LEMMA FromFact ==
    ASSUME NEW top \in Nat
    PROVE  /\ From(top) \in SUBSET Nat
           /\ IsFiniteSet(From(top))
           /\ Cardinality(From(top)) \in Nat
           /\ NumRows(top) \in Nat
           /\ From(top) # {} => NumRows(top) > 0
<1>1. From(top) \in SUBSET Nat /\ IsFiniteSet(From(top))
  BY LevelsAssumption, FS_Subset DEF From
<1>2. Cardinality(From(top)) \in Nat  BY <1>1, FS_CardinalityType
<1>3. From(top) # {} => Cardinality(From(top)) # 0  BY <1>1, FS_EmptySet
<1>4. QED  BY <1>1, <1>2, <1>3, PageSizeAssumption DEF NumRows

(* Starting the page at a lower id never shortens it. *)
LEMMA FromGrows ==
    ASSUME NEW a \in Nat, NEW b \in Nat, a <= b
    PROVE  NumRows(b) <= NumRows(a)
<1>1. From(b) \subseteq From(a)
  <2>1. \A l \in Levels : l \in Nat  BY LevelsAssumption
  <2>2. \A l \in Levels : l >= b => l >= a  BY <2>1
  <2>3. QED  BY <2>2 DEF From
<1>2. Cardinality(From(b)) <= Cardinality(From(a))
  BY <1>1, FromFact, FS_Subset
<1>3. QED  BY <1>2, FromFact, PageSizeAssumption DEF NumRows

(* metadata[1].id exists on a page of two rows or more, and starting the   *)
(* page there drops exactly one level from it.                             *)
LEMMA SecondRow ==
    ASSUME NEW top \in Nat, Cardinality(From(top)) >= 2
    PROVE  /\ Row(top, 1) \in Levels
           /\ Cardinality(From(Row(top, 1))) = Cardinality(From(top)) - 1
<1> DEFINE F == From(top)
           r == Row(top, 1)
<1>1. /\ F \in SUBSET Nat /\ IsFiniteSet(F)
      /\ Cardinality(F) \in Nat
  BY FromFact
<1>2. F # {}  BY FS_EmptySet
<1>3. PICK a \in F : \A m \in F : a <= m
  <2> HIDE DEF F
  <2>1. QED  BY <1>1, <1>2, LeastExists
<1>4. F \ {a} # {} /\ F \ {a} \in SUBSET Nat
  <2> HIDE DEF F
  <2>1. Cardinality(F \ {a}) = Cardinality(F) - 1  BY <1>1, FS_RemoveElement
  <2>2. Cardinality(F \ {a}) # 0  BY <1>1, <2>1 DEF F
  <2>3. QED  BY <1>1, <2>2, FS_EmptySet
<1>5. PICK b \in F \ {a} : \A m \in F \ {a} : b <= m
  <2> HIDE DEF F
  <2>1. QED  BY <1>4, LeastExists
<1>6. Before(top, b) = {a}  BY <1>1, <1>3, <1>5 DEF Before
<1>7. Cardinality(Before(top, b)) = 1  BY <1>6, FS_Singleton
<1>8. r \in F /\ Cardinality(Before(top, r)) = 1
  BY <1>5, <1>7 DEF Row
<1>9. r \in Levels /\ r \in Nat  BY <1>1, <1>8 DEF From
<1>10. From(r) = F \ Before(top, r) /\ F \cap Before(top, r) = Before(top, r)
  <2>1. r \in Nat /\ r >= top /\ \A l \in Levels : l \in Nat
    BY <1>8, <1>9, LevelsAssumption DEF From
  <2> HIDE DEF r
  <2>2. \A l \in Levels : l >= r <=> l >= top /\ ~(l < r)  BY <2>1
  <2>3. QED  BY <2>2 DEF From, Before
<1>11. Cardinality(F \ Before(top, r)) = Cardinality(F) - Cardinality(F \cap Before(top, r))
  <2> HIDE DEF F, r
  <2>1. QED  BY <1>1, FS_Difference
<1>12. QED  BY <1>8, <1>9, <1>10, <1>11

(* On a page that is exactly full, the last row is the highest level.      *)
LEMMA LastRow ==
    ASSUME NEW top \in Nat, Cardinality(From(top)) = PageSize
    PROVE  ~(Row(top, PageSize - 1) < MaxLevel)
<1> DEFINE F == From(top)
           r == Row(top, PageSize - 1)
<1>1. /\ F \in SUBSET Nat /\ IsFiniteSet(F)
      /\ Cardinality(F) = PageSize
  BY FromFact
<1>2. F # {}  BY <1>1, FS_EmptySet, PageSizeAssumption
<1>3. PICK M \in F : \A m \in F : m <= M
  <2> HIDE DEF F
  <2>1. QED  BY <1>1, <1>2, GreatestExists
<1>4. Before(top, M) = F \ {M}  BY <1>1, <1>3 DEF Before
<1>5. Cardinality(Before(top, M)) = PageSize - 1
  <2> HIDE DEF F
  <2>1. QED  BY <1>1, <1>4, FS_RemoveElement
<1>6. r \in F /\ Cardinality(Before(top, r)) = PageSize - 1
  BY <1>5 DEF Row
<1>7. Before(top, r) = F \ {r}
  <2>1. Before(top, r) \subseteq F \ {r}  BY <1>1 DEF Before
  <2> HIDE DEF F, r
  <2>2. IsFiniteSet(F \ {r}) /\ Cardinality(F \ {r}) = PageSize - 1
    BY <1>1, <1>6, FS_RemoveElement
  <2>3. QED  BY <1>6, <2>1, <2>2, FS_Subset
<1>8. Levels # {}  BY <1>2 DEF From
<1>9. MaxLevel \in F
  <2>1. MaxLevel \in Levels /\ M <= MaxLevel
    BY <1>8, MaxLevelFact DEF From
  <2>2. M \in Nat /\ M >= top /\ MaxLevel \in Nat
    BY <2>1, LevelsAssumption DEF From
  <2>3. MaxLevel >= top  BY <2>1, <2>2
  <2>4. QED  BY <2>1, <2>3 DEF From
<1>10. MaxLevel = r \/ MaxLevel < r
  BY <1>7, <1>9 DEF Before
<1>11. r \in Nat /\ MaxLevel \in Nat  BY <1>1, <1>6, <1>9
<1>12. QED  BY <1>10, <1>11

-----------------------------------------------------------------------------
(* The keys. *)

(* The up key keeps the selection on a displayed row. *)
THEOREM UpKeyShown ==
    ASSUME NEW w \in Windows
    PROVE  UpKey(w) \in Windows /\ (Shown(w) => Shown(UpKey(w)))
<1>1. w.top \in Nat /\ w.index \in Nat  BY DEF Windows
<1>2. CASE w.index > 0
  BY <1>1, <1>2, FromFact DEF UpKey, Windows, Shown
<1>3. CASE w.index = 0 /\ w.top > MinLevel /\ Levels # {}
  <2>1. Previous(w.top) \in Levels /\ Previous(w.top) < w.top
    BY <1>1, <1>3, MinLevelFact, PreviousFact
  <2>2. Previous(w.top) \in Nat  BY <2>1, LevelsAssumption
  <2>3. UpKey(w) = [w EXCEPT !.top = Previous(w.top)]  BY <1>1, <1>3 DEF UpKey
  <2>4. NumRows(w.top) <= NumRows(Previous(w.top))
    BY <1>1, <2>1, <2>2, FromGrows
  <2>5. QED  BY <1>1, <2>2, <2>3, <2>4, FromFact DEF Windows, Shown
<1>4. CASE w.index = 0 /\ w.top > MinLevel /\ Levels = {}
  <2>1. Previous(w.top) = 0  BY <1>4 DEF Previous
  <2>2. UpKey(w) = [w EXCEPT !.top = 0]  BY <1>1, <1>4, <2>1 DEF UpKey
  <2>3. NumRows(w.top) <= NumRows(0)  BY <1>1, FromGrows
  <2>4. QED  BY <1>1, <2>2, <2>3, FromFact DEF Windows, Shown
<1>5. CASE w.index = 0 /\ ~(w.top > MinLevel)
  BY <1>1, <1>5 DEF UpKey
<1>6. QED  BY <1>1, <1>2, <1>3, <1>4, <1>5

(* So does the down key, also when the page scrolls under the selection,   *)
(* and when the query for the page failed.                                 *)
THEOREM DownKeyShown ==
    ASSUME NEW w \in Windows, NEW rows \in {0, NumRows(w.top)}
    PROVE  DownKey(w, rows) \in Windows /\ (Shown(w) => Shown(DownKey(w, rows)))
<1>1. /\ w.top \in Nat /\ w.index \in Nat
      /\ NumRows(w.top) \in Nat /\ rows \in Nat /\ rows <= NumRows(w.top)
  BY FromFact DEF Windows
<1>2. CASE w.index < rows - 1
  BY <1>1, <1>2 DEF DownKey, Windows, Shown
<1>3. CASE ~(w.index < rows - 1) /\ rows = PageSize /\ Row(w.top, rows - 1) < MaxLevel
  <2> DEFINE c == Cardinality(From(w.top))
  <2>1. c \in Nat /\ rows = NumRows(w.top) /\ rows > 1
    BY <1>1, <1>3, FromFact, PageSizeAssumption
  <2>2. c > PageSize
    BY <1>1, <1>3, <2>1, LastRow, PageSizeAssumption DEF NumRows
  <2>3. Row(w.top, 1) \in Levels /\ Cardinality(From(Row(w.top, 1))) = c - 1
    BY <1>1, <2>1, <2>2, SecondRow, PageSizeAssumption
  <2>4. Row(w.top, 1) \in Nat /\ NumRows(Row(w.top, 1)) = PageSize
    <3>1. Row(w.top, 1) \in Nat  BY <2>3, LevelsAssumption
    <3>2. ~(c - 1 < PageSize)  BY <2>1, <2>2, PageSizeAssumption
    <3>3. QED  BY <2>3, <3>1, <3>2 DEF NumRows
  <2>5. DownKey(w, rows) = [w EXCEPT !.top = Row(w.top, 1)]  BY <1>3 DEF DownKey
  <2>6. QED  BY <1>1, <1>3, <2>1, <2>4, <2>5 DEF Windows, Shown
<1>4. CASE ~(w.index < rows - 1) /\ ~(rows = PageSize /\ Row(w.top, rows - 1) < MaxLevel)
  BY <1>4 DEF DownKey
<1>5. QED  BY <1>2, <1>3, <1>4

-----------------------------------------------------------------------------
(* From one row of the page to the next: the rank of a level on a page, and *)
(* what the keys do to it.                                                  *)

\* How many of the levels from top on come before l.
Rank(top, l) == Cardinality(Before(top, l))

\* So are the levels before a level on a page: it has a rank.
LEMMA RankFact ==
    ASSUME NEW top \in Nat, NEW l
    PROVE  /\ IsFiniteSet(Before(top, l)) /\ Rank(top, l) \in Nat
           /\ Before(top, l) \subseteq From(top)
<1>1. Before(top, l) \subseteq From(top)  BY DEF Before
<1>2. IsFiniteSet(Before(top, l))  BY <1>1, FromFact, FS_Subset
<1>3. QED  BY <1>1, <1>2, FS_CardinalityType DEF Rank

(* A lower level has a lower rank. *)
LEMMA RankGrows ==
    ASSUME NEW top \in Nat, NEW a \in From(top), NEW b \in From(top), a < b
    PROVE  Rank(top, a) < Rank(top, b)
<1>0. \A l \in From(top) : l \in Nat  BY FromFact
<1>1. Before(top, a) \subseteq Before(top, b)
  <2>1. ASSUME NEW l \in From(top), l < a PROVE l < b  BY <1>0, <2>1
  <2>2. QED  BY <2>1 DEF Before
<1>2. a \in Before(top, b) /\ a \notin Before(top, a)  BY <1>0 DEF Before
<1>3. Rank(top, a) <= Rank(top, b)  BY <1>1, RankFact, FS_Subset DEF Rank
<1>4. Rank(top, a) # Rank(top, b)
  BY <1>1, <1>2, RankFact, FS_Subset DEF Rank
<1>5. QED  BY <1>3, <1>4, RankFact

(* So levels of adjacent ranks are adjacent in the table. *)
LEMMA Adjacent ==
    ASSUME NEW top \in Nat, NEW a \in From(top), NEW b \in From(top),
           Rank(top, b) = Rank(top, a) + 1
    PROVE  a < b /\ ~\E l \in Levels : a < l /\ l < b
<1>0. /\ \A l \in From(top) : l \in Nat /\ Rank(top, l) \in Nat
      /\ Rank(top, a) \in Nat /\ Rank(top, b) \in Nat /\ a \in Nat /\ b \in Nat
  BY FromFact, RankFact
<1>1. a < b
  <2>1. ~(b < a)  BY <1>0, RankGrows
  <2>2. b # a  BY <1>0
  <2>3. QED  BY <1>0, <2>1, <2>2
<1>2. ASSUME NEW l \in Levels, a < l, l < b PROVE FALSE
  <2>1. l \in From(top)
    <3>1. l \in Nat /\ a >= top  BY LevelsAssumption DEF From
    <3>2. l >= top  BY <1>0, <1>2, <3>1
    <3>3. QED  BY <3>2 DEF From
  <2>2. Rank(top, a) < Rank(top, l) /\ Rank(top, l) < Rank(top, b)
    BY <1>2, <2>1, RankGrows
  <2>3. QED  BY <1>0, <2>1, <2>2
<1>3. QED  BY <1>1, <1>2

(* There is a level of every rank below the number of levels: each row of   *)
(* the page has one.                                                        *)
LEMMA RowFact ==
    ASSUME NEW top \in Nat, NEW i \in 0 .. Cardinality(From(top)) - 1
    PROVE  Row(top, i) \in From(top) /\ Rank(top, Row(top, i)) = i
<1> DEFINE c == Cardinality(From(top))
           S == {k \in 0 .. c - 1 : \E l \in From(top) : Rank(top, l) = k}
<1>0. c \in Nat /\ From(top) \in SUBSET Nat /\ IsFiniteSet(From(top)) BY FromFact
<1>1. 0 \in S
  <2>1. From(top) # {}  BY <1>0, FS_EmptySet
  <2>2. PICK l \in From(top) : \A m \in From(top) : l <= m
    BY <1>0, <2>1, LeastExists
  <2>3. Before(top, l) = {}
    <3>1. \A m \in From(top) : m \in Nat  BY <1>0
    <3>2. QED  BY <2>2, <3>1 DEF Before
  <2>4. Rank(top, l) = 0  BY <2>3, FS_EmptySet DEF Rank
  <2>5. QED  BY <1>0, <2>4
<1>2. ASSUME NEW k \in 0 + 1 .. c - 1, k - 1 \in S PROVE k \in S
  <2>1. PICK l \in From(top) : Rank(top, l) = k - 1  BY <1>2
  <2> DEFINE B == Before(top, l) \cup {l}
             D == From(top) \ B
  <2>2. IsFiniteSet(B) /\ Cardinality(B) = k
    <3>1. l \notin Before(top, l)  BY <1>0 DEF Before
    <3>2. IsFiniteSet(Before(top, l)) /\ Cardinality(Before(top, l)) = k - 1
      BY <2>1, RankFact DEF Rank
    <3>3. QED  BY <3>1, <3>2, FS_AddElement
  <2>3. D # {}
    <3>1. B # From(top)  BY <2>2
    <3>2. B \subseteq From(top)  BY RankFact
    <3>3. QED  BY <3>1, <3>2
  <2>4. PICK m \in D : \A n \in D : m <= n
    <3>1. D \in SUBSET Nat  BY <1>0
    <3> HIDE DEF D
    <3>2. QED  BY <2>3, <3>1, LeastExists
  <2>5. Before(top, m) = B
    <3>1. l < m
      <4>1. m \in From(top) /\ m # l /\ ~(m < l) /\ m \in Nat /\ l \in Nat
        BY <1>0 DEF Before
      <4>2. QED  BY <4>1
    <3>2. ASSUME NEW n \in B PROVE n \in Before(top, m)
      BY <1>0, <3>1 DEF Before
    <3>3. ASSUME NEW n \in Before(top, m) PROVE n \in B
      <4>1. n \in From(top) /\ n < m /\ n \in Nat /\ m \in Nat  BY <1>0 DEF Before
      <4>2. n \notin D  BY <2>4, <4>1
      <4>3. QED  BY <4>1, <4>2
    <3>4. QED  BY <3>2, <3>3
  <2>6. Rank(top, m) = k  BY <2>2, <2>5 DEF Rank
  <2>7. QED  BY <2>6
<1> HIDE DEF S
<1>3. \A k \in 0 .. c - 1 : k \in S
  <2>1. c - 1 \in Int /\ 0 \in Int  BY <1>0
  <2>2. \A k \in 0 + 1 .. c - 1 : k - 1 \in S => k \in S  BY <1>2
  <2> HIDE DEF c
  <2>3. QED  BY <1>1, <2>1, <2>2, IntervalInduction, Zenon
<1>4. \E l \in From(top) : Rank(top, l) = i  BY <1>3 DEF S
<1>5. QED  BY <1>4 DEF Row, Rank

(* The selected level of a shown window. *)
LEMMA SelectedFact ==
    ASSUME NEW w \in Windows, Shown(w)
    PROVE  /\ SelectedId(w.top, w.index) \in From(w.top)
           /\ SelectedId(w.top, w.index) \in Levels
           /\ Rank(w.top, SelectedId(w.top, w.index)) = w.index
           /\ w.index < NumRows(w.top) /\ w.index \in 0 .. Cardinality(From(w.top)) - 1
<1>1. w.top \in Nat /\ w.index \in Nat /\ Cardinality(From(w.top)) \in Nat /\ w.index < NumRows(w.top)
  BY FromFact DEF Windows, Shown
<1>2. w.index \in 0 .. Cardinality(From(w.top)) - 1
  BY <1>1, PageSizeAssumption DEF NumRows
<1>3. SelectedId(w.top, w.index) = Row(w.top, w.index)
  BY <1>1 DEF SelectedId
<1>4. QED  BY <1>1, <1>2, <1>3, RowFact DEF From


(* The up key goes to the level before, if there is one. *)
LEMMA UpKeyWalks ==
    ASSUME NEW w \in Windows, Shown(w)
    PROVE  LET old == SelectedId(w.top, w.index)
               up  == UpKey(w)
               new == SelectedId(up.top, up.index)
           IN  up # w => new < old /\ ~\E l \in Levels : new < l /\ l < old
<1> DEFINE old == SelectedId(w.top, w.index)
           up  == UpKey(w)
           new == SelectedId(up.top, up.index)
<1>1. /\ up \in Windows /\ Shown(up)
      /\ w.top \in Nat /\ w.index \in Nat
      /\ old \in From(w.top) /\ old \in Levels /\ old \in Nat
      /\ new \in From(up.top) /\ new \in Levels /\ new \in Nat
      /\ Rank(w.top, old) = w.index /\ Rank(up.top, new) = up.index
  BY UpKeyShown, SelectedFact, LevelsAssumption DEF Windows
<1> SUFFICES ASSUME up # w PROVE new < old /\ ~\E l \in Levels : new < l /\ l < old
  OBVIOUS
<1>2. CASE w.index > 0
  <2>1. up.top = w.top /\ up.index = w.index - 1  BY <1>1, <1>2 DEF UpKey, Windows
  <2>2. new \in From(w.top) /\ Rank(w.top, old) = Rank(w.top, new) + 1
    BY <1>1, <2>1
  <2> HIDE DEF old, new, up
  <2>3. QED  BY <1>1, <2>2, Adjacent
<1>3. CASE ~(w.index > 0)
  <2>1. w.index = 0 /\ w.top > MinLevel /\ up = [w EXCEPT !.top = Previous(w.top)]
    BY <1>1, <1>3 DEF UpKey
  <2>2. MinLevel \in Levels  BY <1>1, MinLevelFact
  <2>3. /\ Previous(w.top) \in Levels /\ Previous(w.top) < w.top /\ Previous(w.top) \in Nat
        /\ \A l \in Levels : l < w.top => l <= Previous(w.top)
    BY <1>1, <2>1, <2>2, PreviousFact, LevelsAssumption
  <2>4. up.top = Previous(w.top) /\ up.index = 0  BY <1>1, <2>1 DEF Windows
  <2>5. new = Previous(w.top)
    <3>1. Previous(w.top) \in From(up.top)  BY <2>3, <2>4 DEF From
    <3>2. ~(Previous(w.top) < new)
      <4>1. ASSUME Previous(w.top) < new PROVE Rank(up.top, Previous(w.top)) < 0
        <5> HIDE DEF new, up
        <5>1. up.top \in Nat  BY <1>1 DEF Windows
        <5>2. QED  BY <1>1, <2>4, <3>1, <4>1, <5>1, RankGrows
      <4>2. Rank(up.top, Previous(w.top)) \in Nat  BY <1>1, RankFact DEF Windows
      <4> HIDE DEF new, up
      <4>3. QED  BY <4>1, <4>2
    <3>3. new >= up.top  BY <1>1 DEF From
    <3> HIDE DEF new, up
    <3>4. QED  BY <1>1, <2>3, <2>4, <3>2, <3>3
  <2>6. old >= w.top  BY <1>1 DEF From
  <2>7. ASSUME NEW l \in Levels, new < l, l < old PROVE FALSE
    <3>1. l \in Nat  BY LevelsAssumption
    <3>2. ~(l < w.top)  BY <1>1, <2>3, <2>5, <2>7, <3>1
    <3>3. l \in From(w.top)  BY <1>1, <3>1, <3>2 DEF From
    <3>4. Rank(w.top, l) < 0
      <4> HIDE DEF old
      <4>1. QED  BY <1>1, <2>1, <2>7, <3>3, RankGrows
    <3>5. QED  BY <1>1, <3>4, RankFact
  <2> HIDE DEF new, old, up
  <2>8. QED  BY <1>1, <2>3, <2>5, <2>6, <2>7
<1>4. QED  BY <1>2, <1>3

(* Where the page scrolls a row down, every row shows the next level. *)
LEMMA ScrolledRank ==
    ASSUME NEW top \in Nat, Cardinality(From(top)) >= 2,
           NEW l \in From(Row(top, 1))
    PROVE  l \in From(top) /\ Rank(top, l) = Rank(Row(top, 1), l) + 1
<1> DEFINE r == Row(top, 1)
           c == Cardinality(From(top))
<1>1. c \in Nat /\ 1 \in 0 .. c - 1 BY FromFact
<1>2. r \in From(top) /\ Rank(top, r) = 1 /\ r \in Nat
  BY <1>1, RowFact, FromFact
<1> HIDE DEF r
<1>3. /\ \A k \in Levels : k \in Nat
      /\ r >= top /\ l \in Levels /\ l >= r
  BY <1>2, LevelsAssumption DEF From, r
<1>4. l \in From(top)  BY <1>2, <1>3 DEF From
<1>5. Before(top, l) = Before(r, l) \cup Before(top, r)
  <2>1. ASSUME NEW k \in Levels
        PROVE  k >= top /\ k < l <=> (k >= r /\ k < l) \/ (k >= top /\ k < r)
    BY <1>2, <1>3
  <2>2. QED  BY <2>1 DEF Before, From
<1>6. Before(r, l) \cap Before(top, r) = {}
  <2>1. ASSUME NEW k \in Levels PROVE ~(k >= r /\ k < r)  BY <1>2, <1>3
  <2>2. QED  BY <2>1 DEF Before, From
<1>7. Cardinality(Before(r, l) \cup Before(top, r)) = Cardinality(Before(r, l)) + Cardinality(Before(top, r))
  <2> DEFINE S == Before(r, l)
             T == Before(top, r)
  <2>1. /\ IsFiniteSet(S) /\ Cardinality(S) \in Nat
        /\ IsFiniteSet(T) /\ Cardinality(T) \in Nat
    BY <1>2, RankFact DEF Rank
  <2>2. S \cap T = {}  BY <1>6
  <2> HIDE DEF S, T
  <2>3. Cardinality(S \cup T) = Cardinality(S) + Cardinality(T) - Cardinality(S \cap T)
    BY <2>1, FS_Union
  <2>4. Cardinality(S \cap T) = 0  BY <2>2, FS_EmptySet
  <2>5. QED  BY <2>1, <2>3, <2>4 DEF S, T
<1>8. QED  BY <1>2, <1>4, <1>5, <1>7 DEF Rank, r

(* The down key goes to the level behind, if there is one. *)
LEMMA DownKeyWalks ==
    ASSUME NEW w \in Windows, Shown(w), NEW rows \in {0, NumRows(w.top)}
    PROVE  LET old  == SelectedId(w.top, w.index)
               down == DownKey(w, rows)
               new  == SelectedId(down.top, down.index)
           IN  down # w => new > old /\ ~\E l \in Levels : old < l /\ l < new
<1> DEFINE old  == SelectedId(w.top, w.index)
           down == DownKey(w, rows)
           new  == SelectedId(down.top, down.index)
<1>1. /\ down \in Windows /\ Shown(down)
      /\ w.top \in Nat /\ w.index \in Nat
      /\ old \in From(w.top) /\ old \in Levels /\ old \in Nat
      /\ new \in From(down.top) /\ new \in Levels /\ new \in Nat
      /\ Rank(w.top, old) = w.index /\ Rank(down.top, new) = down.index
  BY DownKeyShown, SelectedFact, LevelsAssumption DEF Windows
<1>2. /\ NumRows(w.top) \in Nat /\ Cardinality(From(w.top)) \in Nat
      /\ rows \in Nat /\ w.index < NumRows(w.top)
  BY FromFact DEF Shown, Windows
<1> SUFFICES ASSUME down # w PROVE new > old /\ ~\E l \in Levels : old < l /\ l < new
  OBVIOUS
<1>3. new \in From(w.top) /\ Rank(w.top, new) = Rank(w.top, old) + 1
  <2>1. CASE w.index < rows - 1
    <3>1. down.top = w.top /\ down.index = w.index + 1  BY <1>1, <2>1 DEF DownKey, Windows
    <3>2. QED  BY <1>1, <3>1
  <2>2. CASE ~(w.index < rows - 1)
    <3>1. rows = PageSize /\ down = [w EXCEPT !.top = Row(w.top, 1)]
      BY <2>2 DEF DownKey
    <3>2. Cardinality(From(w.top)) >= 2
      BY <1>2, <3>1, PageSizeAssumption DEF NumRows
    <3>3. down.top = Row(w.top, 1) /\ down.index = w.index  BY <3>1 DEF Windows
    <3>4. new \in From(w.top) /\ Rank(w.top, new) = Rank(Row(w.top, 1), new) + 1
      <4> HIDE DEF new, down
      <4>1. QED  BY <1>1, <3>2, <3>3, ScrolledRank
    <3>5. QED  BY <1>1, <3>3, <3>4
  <2>3. QED  BY <2>1, <2>2
<1> HIDE DEF new, old, down
<1>4. QED  BY <1>1, <1>3, Adjacent

(* Whatever the window, the id of the selected row is a number.            *)
LEMMA SelectedType ==
    ASSUME NEW w \in Windows
    PROVE  /\ SelectedId(w.top, w.index) \in Nat
           /\ ~(MaxLevel > 0) => SelectedId(w.top, w.index) = 0
<1> DEFINE sel == SelectedId(w.top, w.index)
<1>1. CASE Shown(w)
  <2>1. sel \in Levels /\ sel \in Nat  BY <1>1, SelectedFact, LevelsAssumption
  <2>2. MaxLevel \in Nat /\ sel <= MaxLevel  BY <2>1, MaxLevelFact, LevelsAssumption
  <2>3. \A m, n \in Nat : m <= n /\ ~(n > 0) => m = 0  OBVIOUS
  <2>4. QED  BY <2>1, <2>2, <2>3
<1>2. CASE ~Shown(w)
  BY <1>2 DEF Shown, SelectedId
<1>3. QED  BY <1>1, <1>2

(* A page that starts below the first level starts with it.                *)
LEMMA FirstRow ==
    ASSUME Levels # {}
    PROVE  SelectedId(0, 0) = MinLevel
<1>1. MinLevel \in Levels /\ \A l \in Levels : MinLevel <= l /\ l \in Nat
  BY MinLevelFact, LevelsAssumption
<1>2. MinLevel \in From(0) /\ MinLevel \in Nat  BY <1>1 DEF From
<1>3. /\ NumRows(0) \in Nat /\ NumRows(0) > 0 /\ Cardinality(From(0)) \in Nat
  BY <1>2, FromFact
<1>4. Cardinality(From(0)) > 0  BY <1>3, PageSizeAssumption DEF NumRows
<1>5. 0 \in 0 .. Cardinality(From(0)) - 1  BY <1>3, <1>4
<1>6. Row(0, 0) \in From(0) /\ Rank(0, Row(0, 0)) = 0  BY <1>5, RowFact
<1>7. MinLevel <= Row(0, 0) /\ Row(0, 0) \in Nat  BY <1>1, <1>6 DEF From
<1>8. ~(MinLevel < Row(0, 0))
  <2>1. ASSUME MinLevel < Row(0, 0) PROVE Rank(0, MinLevel) < 0
    BY <1>2, <1>6, <2>1, RankGrows
  <2>2. Rank(0, MinLevel) \in Nat  BY RankFact
  <2>3. QED  BY <2>1, <2>2
<1>9. Row(0, 0) = MinLevel  BY <1>2, <1>7, <1>8
<1>10. QED  BY <1>3, <1>9 DEF SelectedId

-----------------------------------------------------------------------------
(* A pit that is opened while there is a level above 0 selects one.        *)
LEMMA InitialShown ==
    InitialWindow \in Windows /\ (MaxLevel > 0 => Shown(InitialWindow))
<1>1. InitialWindow \in Windows  BY DEF InitialWindow, Windows
<1>2. ASSUME MaxLevel > 0 PROVE From(1) # {}
  <2>1. Levels # {}  BY <1>2 DEF MaxLevel
  <2>2. MaxLevel \in Levels /\ MaxLevel \in Nat  BY <2>1, MaxLevelFact, LevelsAssumption
  <2>3. MaxLevel >= 1  BY <1>2, <2>2
  <2>4. QED  BY <2>2, <2>3 DEF From
<1>3. QED  BY <1>1, <1>2, FromFact DEF Shown, InitialWindow

-----------------------------------------------------------------------------
(* The stack of screens. *)

Screen == Titles \cup Pits \cup Games \cup Replays \cup {NullScreen}

\* What the properties say of one screen, when W are the levels that were won.
Valid(x, W) ==
    /\ x.kind = "game" =>
          /\ x.last = "won" => x.win
          /\ x.last = "died" => x.die /\ ~x.win
          /\ x.recorded <=> x.last # "in_progress"
    /\ x.kind = "pit" => (MaxLevel > 0 => Shown(x.window))
    /\ x.kind = "replay" => x.level \in W

Shape(s) ==
    /\ Len(s) <= 3
    /\ \A i \in 1..Len(s) :
          /\ i = 1 <=> s[i].kind = "title"
          /\ s[i].kind = "pit" => i = 2
          /\ s[i].kind = "replay" => i = 3
          /\ i = 3 => s[2].kind = "pit"

Good(s, W) ==
    /\ s \in Seq(Screen)
    /\ Shape(s)
    /\ \A i \in 1..Len(s) : Valid(s[i], W)

IInv ==
    /\ Good(stack, wins)
    /\ keys \subseteq Keys
    /\ phase \in Phases
    /\ wins \subseteq Levels
    /\ inserted \subseteq Attempts

-----------------------------------------------------------------------------
(* The stack operations. *)

(* A screen that changes without changing its kind. *)
LEMMA ReplaceTop ==
    ASSUME NEW s, NEW W, Good(s, W), s # <<>>,
           NEW x \in Screen, x.kind = s[Len(s)].kind, Valid(x, W)
    PROVE  Good([s EXCEPT ![Len(s)] = x], W)
<1> DEFINE t == [s EXCEPT ![Len(s)] = x]
<1>1. t \in Seq(Screen) /\ Len(t) = Len(s)  BY DEF Good
<1>2. \A i \in 1..Len(s) : t[i] = IF i = Len(s) THEN x ELSE s[i]  BY DEF Good
<1>3. \A i \in 1..Len(s) : t[i].kind = s[i].kind  BY <1>2
<1>4. Shape(t)
  <2> HIDE DEF t
  <2>1. Len(s) \in Nat /\ Shape(s)  BY DEF Good
  <2>2. ASSUME NEW i \in 1..Len(t)
        PROVE  /\ i = 1 <=> t[i].kind = "title"
               /\ t[i].kind = "pit" => i = 2
               /\ t[i].kind = "replay" => i = 3
               /\ i = 3 => t[2].kind = "pit"
    <3>1. /\ i \in 1..Len(s) /\ t[i].kind = s[i].kind
          /\ i = 3 => 2 \in 1..Len(s)
      BY <1>1, <1>3, <2>1
    <3>2. i = 3 => t[2].kind = s[2].kind  BY <1>3, <3>1
    <3>3. QED  BY <2>1, <3>1, <3>2 DEF Shape
  <2>3. QED  BY <1>1, <2>1, <2>2 DEF Shape
<1>5. \A i \in 1..Len(t) : Valid(t[i], W)
  BY <1>1, <1>2 DEF Good
<1>6. QED  BY <1>1, <1>4, <1>5 DEF Good

(* A screen that is opened on another one. *)
LEMMA PushOn ==
    ASSUME NEW s, NEW W, Good(s, W), s # <<>>,
           NEW x \in Screen, Valid(x, W),
           \/ s[Len(s)].kind \in {"title", "pit"} /\ x.kind \in {"game", "null"}
           \/ s[Len(s)].kind = "title" /\ x.kind = "pit"
           \/ s[Len(s)].kind = "pit" /\ x.kind = "replay"
    PROVE  Good(Append(s, x), W)
<1> DEFINE t == Append(s, x)
<1>1. Len(s) \in Nat \ {0} /\ Shape(s)  BY DEF Good
<1>2. t \in Seq(Screen) /\ Len(t) = Len(s) + 1  BY DEF Good
<1>3. \A i \in 1..Len(t) : t[i] = IF i = Len(t) THEN x ELSE s[i]  BY <1>1, <1>2 DEF Good
<1>4. \/ Len(s) = 1 /\ s[1].kind = "title"
      \/ Len(s) = 2 /\ s[2].kind = "pit"
  <2>0. Len(s) <= 3  BY <1>1 DEF Shape
  <2>1. Len(s) \in 1..3 /\ Len(s) \in 1..Len(s)
    <3>1. \A n \in Nat \ {0} : n <= 3 => n \in 1..3 /\ n \in 1..n  OBVIOUS
    <3>2. QED  BY <1>1, <2>0, <3>1, Zenon
  <2>2. Len(s) = 1 <=> s[Len(s)].kind = "title"  BY <1>1, <2>1 DEF Shape
  <2>3. s[Len(s)].kind = "pit" => Len(s) = 2  BY <1>1, <2>1 DEF Shape
  <2>4. QED  BY <2>1, <2>2, <2>3
<1>5. Shape(t)
  <2>1. x.kind # "title"  OBVIOUS
  <2>2. ASSUME NEW i \in 1..Len(t)
        PROVE  /\ i = 1 <=> t[i].kind = "title"
               /\ t[i].kind = "pit" => i = 2
               /\ t[i].kind = "replay" => i = 3
               /\ i = 3 => t[2].kind = "pit"
    <3>1. CASE i = Len(t)
      BY <1>1, <1>2, <1>3, <1>4, <2>1, <3>1
    <3>2. CASE i # Len(t)
      BY <1>1, <1>2, <1>3, <1>4, <3>2 DEF Shape
    <3>3. QED  BY <3>1, <3>2
  <2>3. QED  BY <1>1, <1>2, <1>4, <2>2 DEF Shape
<1>6. \A i \in 1..Len(t) : Valid(t[i], W)
  BY <1>1, <1>2, <1>3 DEF Good
<1>7. QED  BY <1>2, <1>5, <1>6 DEF Good

(* The top screen is destroyed. *)
LEMMA PopTop ==
    ASSUME NEW s, NEW W, Good(s, W), s # <<>>
    PROVE  Good(SubSeq(s, 1, Len(s) - 1), W)
<1> DEFINE n == Len(s)
           t == SubSeq(s, 1, n - 1)
<1>1. n \in Nat \ {0} /\ Shape(s)  BY DEF Good
<1>2. \A i \in 1..(n - 1) : s[i] \in Screen  BY <1>1 DEF Good
<1>3. /\ t \in Seq(Screen) /\ Len(t) = n - 1
      /\ \A i \in 1..Len(t) : t[i] = s[i]
  <2> HIDE DEF n
  <2>1. 1 \in Int /\ n - 1 \in Int  BY <1>1
  <2>2. /\ t \in Seq(Screen)
        /\ Len(t) = IF 1 <= n - 1 THEN n - 1 - 1 + 1 ELSE 0
        /\ \A i \in 1..(n - 1 - 1 + 1) : t[i] = s[1 + i - 1]
    BY <1>2, <2>1, SubSeqProperties DEF t
  <2> HIDE DEF t
  <2>3. QED  BY <1>1, <2>2
<1> HIDE DEF t
<1>4. Shape(t)
  <2>1. Len(t) <= 3 /\ 1..Len(t) \subseteq 1..Len(s)  BY <1>1, <1>3 DEF Shape
  <2>2. ASSUME NEW i \in 1..Len(t)
        PROVE  /\ i = 1 <=> t[i].kind = "title"
               /\ t[i].kind = "pit" => i = 2
               /\ t[i].kind = "replay" => i = 3
               /\ i = 3 => t[2].kind = "pit"
    BY <1>1, <1>3, <2>1 DEF Shape
  <2>3. QED  BY <2>1, <2>2 DEF Shape
<1>5. \A i \in 1..Len(t) : Valid(t[i], W)  BY <1>1, <1>3 DEF Good
<1>6. QED  BY <1>3, <1>4, <1>5 DEF Good, t

-----------------------------------------------------------------------------
(* The screens that are created. *)

\* A game screen that is created is valid, or is none when its level cannot be read.
LEMMA GameScreenFact ==
    ASSUME NEW l, NEW ok \in BOOLEAN, NEW W
    PROVE  /\ GameScreen(l, ok) \in Screen
           /\ GameScreen(l, ok).kind \in {"game", "null"}
           /\ Valid(GameScreen(l, ok), W)
BY DEF GameScreen, Loads, NewPlay, NullScreen, Screen, Games, Valid

\* So is a replay screen.
LEMMA ReplayScreenFact ==
    ASSUME NEW l, NEW ok \in BOOLEAN, NEW W, l \in W
    PROVE  /\ ReplayScreen(l, ok) \in Screen
           /\ ReplayScreen(l, ok).kind \in {"replay", "null"}
           /\ Valid(ReplayScreen(l, ok), W)
BY DEF ReplayScreen, Loads, NullScreen, Screen, Replays, Valid

\* A level pit that is created shows its first page.
LEMMA PitScreenFact ==
    ASSUME NEW W
    PROVE  PitScreen \in Screen /\ PitScreen.kind = "pit" /\ Valid(PitScreen, W)
BY InitialShown DEF PitScreen, Screen, Pits, Windows, Valid

(* One tick of a play that has not been recorded yet. *)
LEMMA PlayTickFact ==
    ASSUME NEW g \in Games, ~g.recorded, NEW h \in PlayTick(g), NEW W
    PROVE  h \in Games /\ h.kind = "game" /\ Valid(h, W)
BY DEF PlayTick, Games, Valid

\* A play that begins has not been recorded.
LEMMA NewPlayFact ==
    ASSUME NEW l, NEW ok \in BOOLEAN, Loads(l, ok)
    PROVE  NewPlay(l) \in Games /\ ~NewPlay(l).recorded
BY DEF NewPlay, Games, Loads

(* What the invariant says of the top screen. *)
LEMMA TopFact ==
    ASSUME IInv, stack # <<>>
    PROVE  /\ Len(stack) \in 1..3
           /\ Top \in Screen
           /\ Valid(Top, wins)
           /\ Top.kind = "title" => Top \in Titles
           /\ Top.kind = "pit" => Top \in Pits
           /\ Top.kind = "game" => Top \in Games
           /\ Top.kind \in {"title", "pit"} => Len(stack) <= 2
<1>1. Len(stack) \in Nat \ {0} /\ Shape(stack)  BY DEF IInv, Good
<1>2. Len(stack) <= 3  BY <1>1 DEF Shape
<1>3. Len(stack) \in 1..3 /\ Len(stack) \in 1..Len(stack)
  <2>1. \A n \in Nat \ {0} : n <= 3 => n \in 1..3 /\ n \in 1..n  OBVIOUS
  <2>2. QED  BY <1>1, <1>2, <2>1, Zenon
<1>4. Top \in Screen /\ Valid(Top, wins)  BY <1>3 DEF IInv, Good, Top
<1>5. /\ Top.kind = "title" => Top \in Titles
      /\ Top.kind = "pit" => Top \in Pits
      /\ Top.kind = "game" => Top \in Games
  BY <1>4 DEF Screen, Titles, Pits, Games, Replays, NullScreen
<1>6. Top.kind \in {"title", "pit"} => Len(stack) <= 2
  BY <1>1, <1>3 DEF Shape, Top
<1>7. QED  BY <1>3, <1>4, <1>5, <1>6

-----------------------------------------------------------------------------
(* What each kind of step does to the invariant. *)

\* A stack stays good when more levels are won.
LEMMA GoodGrows ==
    ASSUME NEW s, NEW W, NEW V, W \subseteq V, Good(s, W)
    PROVE  Good(s, V)
BY DEF Good, Valid

(* The tick goes on below the screen that was popped. *)
LEMMA PopStep ==
    ASSUME IInv, stack # <<>>, Pop,
           wins \subseteq wins', wins' \subseteq Levels, inserted' \subseteq Attempts
    PROVE  IInv'
<1>1. Good(SubSeq(stack, 1, Len(stack) - 1), wins)  BY PopTop DEF IInv
<1>2. Good(stack', wins')  BY <1>1, GoodGrows DEF Pop
<1>3. QED  BY <1>2 DEF IInv, Pop

(* The top screen changed. *)
LEMMA ReplaceStep ==
    ASSUME IInv, stack # <<>>, NEW x \in Screen, x.kind = Top.kind, Valid(x, wins),
           stack' = Replaced(x), keys' = {}, Done,
           wins \subseteq wins', wins' \subseteq Levels, inserted' \subseteq Attempts
    PROVE  IInv'
<1>1. Good(Replaced(x), wins)  BY ReplaceTop DEF IInv, Replaced, Top
<1>2. Good(stack', wins')  BY <1>1, GoodGrows
<1>3. QED  BY <1>2 DEF IInv, Done, Phases

(* A screen was opened on top. *)
LEMMA PushStep ==
    ASSUME IInv, stack # <<>>, NEW x \in Screen, Valid(x, wins),
           \/ Top.kind \in {"title", "pit"} /\ x.kind \in {"game", "null"}
           \/ Top.kind = "title" /\ x.kind = "pit"
           \/ Top.kind = "pit" /\ x.kind = "replay",
           stack' = Append(stack, x), keys' = {}, Done, NoInsert
    PROVE  IInv'
<1>1. Good(stack', wins)  BY PushOn DEF IInv, Top
<1>2. QED  BY <1>1 DEF IInv, Done, NoInsert, Phases

(* Nothing changed but the keys and the phase. *)
LEMMA StayStep ==
    ASSUME IInv, UNCHANGED stack, keys' \subseteq Keys, phase' \in Phases,
           wins \subseteq wins', wins' \subseteq Levels, inserted' \subseteq Attempts
    PROVE  IInv'
BY GoodGrows DEF IInv

(* What an insertion does to the attempt table. *)
LEMMA InsertFact ==
    ASSUME IInv, NEW g \in Games, NEW ok \in BOOLEAN,
           NEW st \in {"won", "died", "quit", "retried"}, Insert(g, st, ok)
    PROVE  wins \subseteq wins' /\ wins' \subseteq Levels /\ inserted' \subseteq Attempts
BY DEF IInv, Insert, Games, Attempts

\* A step that records nothing takes no win away.
LEMMA NoInsertFact ==
    ASSUME IInv, NoInsert
    PROVE  wins \subseteq wins' /\ wins' \subseteq Levels /\ inserted' \subseteq Attempts
BY DEF IInv, NoInsert

-----------------------------------------------------------------------------
\* A session begins with the title screen, and the invariant holds.
LEMMA InitIInv == Init => IInv
<1> SUFFICES ASSUME Init PROVE IInv  OBVIOUS
<1>1. TitleScreen \in Screen /\ TitleScreen.kind = "title" /\ Valid(TitleScreen, wins)
  BY DEF TitleScreen, Screen, Titles, Valid
<1>2. Good(stack, wins)
  <2>1. stack \in Seq(Screen) /\ Len(stack) = 1 /\ stack[1] = TitleScreen
    BY <1>1 DEF Init
  <2>2. \A i \in 1..Len(stack) : i = 1  BY <2>1
  <2>3. QED  BY <1>1, <2>1, <2>2 DEF Good, Shape
<1>3. QED  BY <1>2 DEF Init, IInv, Phases

(* Every update of the title screen keeps the invariant. *)
LEMMA TitleIInv == IInv /\ (TitleOpen \/ TitleQuit \/ TitleStay) => IInv'
<1> SUFFICES ASSUME IInv, TitleOpen \/ TitleQuit \/ TitleStay PROVE IInv'
  OBVIOUS
<1>1. /\ stack # <<>> /\ Top.kind = "title" /\ Top \in Titles
      /\ Len(stack) # MAX_SCREENS
      /\ wins' = wins /\ inserted' = {}
  BY TopFact, ScreensAssumption DEF TitleOpen, TitleQuit, TitleStay, TopIs
<1>2. NoInsert /\ wins \subseteq wins' /\ wins' \subseteq Levels /\ inserted' \subseteq Attempts
  BY <1>1 DEF NoInsert, IInv
<1>3. CASE TitleOpen
  <2>1. CASE Top.selection = 0 /\ \E ok \in DbOutcomes : Push(stack, GameScreen(ClassicLevel, ok))
    <3>1. PICK ok \in DbOutcomes : Push(stack, GameScreen(ClassicLevel, ok))
      BY <2>1
    <3>2. /\ GameScreen(ClassicLevel, ok) \in Screen
          /\ GameScreen(ClassicLevel, ok).kind \in {"game", "null"}
          /\ Valid(GameScreen(ClassicLevel, ok), wins)
      BY GameScreenFact, ScreensAssumption
    <3>3. QED  BY <1>1, <1>2, <1>3, <3>1, <3>2, PushStep DEF Push, TitleOpen
  <2>2. CASE Push(stack, PitScreen)
    BY <1>1, <1>2, <1>3, <2>2, PitScreenFact, PushStep DEF Push, TitleOpen
  <2>3. QED  BY <1>3, <2>1, <2>2 DEF TitleOpen
<1>4. CASE TitleQuit
  BY <1>1, <1>2, <1>4, PopStep DEF TitleQuit
<1>5. CASE TitleStay
  <2>1. CASE UNCHANGED stack
    BY <1>2, <1>5, <2>1, StayStep DEF TitleStay, Done, Phases
  <2>2. ASSUME NEW sel \in 0..3, stack' = Replaced([Top EXCEPT !.selection = sel])
        PROVE  IInv'
    <3>1. /\ [Top EXCEPT !.selection = sel] \in Screen
          /\ [Top EXCEPT !.selection = sel].kind = "title"
          /\ Valid([Top EXCEPT !.selection = sel], wins)
      BY <1>1 DEF Screen, Titles, Valid
    <3>2. QED  BY <1>1, <1>2, <1>5, <2>2, <3>1, ReplaceStep DEF TitleStay
  <2>3. CASE stack' = Replaced([Top EXCEPT !.selection = @ - 1]) /\ Top.selection > 0
    BY <1>1, <2>2, <2>3 DEF Titles
  <2>4. CASE stack' = Replaced([Top EXCEPT !.selection = @ + 1]) /\ Top.selection < 3
    BY <1>1, <2>2, <2>4 DEF Titles
  <2>5. QED  BY <1>5, <2>1, <2>3, <2>4 DEF TitleStay
<1>6. QED  BY <1>3, <1>4, <1>5

(* Every update of the game screen keeps the invariant. *)
LEMMA GameIInv ==
    IInv /\ (GameRetry \/ GameQuit \/ GameContinue \/ GamePlay \/ GameOver) => IInv'
<1> SUFFICES ASSUME IInv,
                    GameRetry \/ GameQuit \/ GameContinue \/ GamePlay \/ GameOver
             PROVE  IInv'
  OBVIOUS
<1>1. stack # <<>> /\ Top.kind = "game" /\ Top \in Games /\ Valid(Top, wins)
  BY TopFact DEF GameRetry, GameQuit, GameContinue, GamePlay, GameOver, Played, TopIs
<1>2. wins \subseteq wins' /\ wins' \subseteq Levels /\ inserted' \subseteq Attempts
  <2>1. CASE NoInsert  BY <2>1, NoInsertFact
  <2>2. ASSUME NEW ok \in DbOutcomes, NEW st \in {"won", "died", "quit", "retried"},
               Insert(Top, st, ok)
        PROVE  wins \subseteq wins' /\ wins' \subseteq Levels /\ inserted' \subseteq Attempts
    BY <1>1, <2>2, InsertFact, ScreensAssumption
  <2>3. Verdict(Top) # "in_progress" => Verdict(Top) \in {"won", "died"}  BY DEF Verdict
  <2>4. QED
    BY <2>1, <2>2, <2>3 DEF GameRetry, GameQuit, GameContinue, GamePlay, GameOver
<1>3. ASSUME NEW l, NEW ok \in DbOutcomes, Loads(l, ok),
             NEW g \in PlayTick(NewPlay(l)), stack' = Replaced(g), keys' = {}, Done
      PROVE  IInv'
  <2>1. g \in Games /\ g.kind = "game" /\ Valid(g, wins)
    BY <1>3, NewPlayFact, PlayTickFact, ScreensAssumption
  <2>2. QED  BY <1>1, <1>2, <1>3, <2>1, ReplaceStep DEF Screen
<1>4. CASE GameRetry
  BY <1>1, <1>2, <1>3, <1>4, PopStep DEF GameRetry
<1>5. CASE GameQuit
  BY <1>1, <1>2, <1>5, PopStep DEF GameQuit
<1>6. CASE GameContinue
  BY <1>1, <1>2, <1>3, <1>6, PopStep DEF GameContinue
<1>7. CASE GamePlay
  <2>1. ~Top.recorded
    BY <1>1, <1>7 DEF GamePlay, Verdict, Valid, Games
  <2>2. PICK g \in PlayTick(Top) : stack' = Replaced(g)  BY <1>7 DEF GamePlay
  <2>3. g \in Games /\ g.kind = "game" /\ Valid(g, wins)
    BY <1>1, <2>1, PlayTickFact
  <2>4. QED  BY <1>1, <1>2, <1>7, <2>2, <2>3, ReplaceStep DEF GamePlay, Played, Screen
<1>8. CASE GameOver
  <2>1. CASE UNCHANGED stack
    BY <1>2, <1>8, <2>1, StayStep DEF GameOver, Played, Done, Phases
  <2>2. CASE stack' = Replaced([Top EXCEPT !.last = Verdict(Top), !.recorded = TRUE])
    <3> DEFINE x == [Top EXCEPT !.last = Verdict(Top), !.recorded = TRUE]
    <3>1. Verdict(Top) \in {"won", "died"}  BY <1>8 DEF GameOver, Verdict
    <3>2. /\ Verdict(Top) = "won" => Top.win
          /\ Verdict(Top) = "died" => Top.die /\ ~Top.win
      BY DEF Verdict
    <3>3. x \in Games  BY <1>1, <3>1 DEF Games
    <3>4. /\ x.kind = "game" /\ x.win = Top.win /\ x.die = Top.die
          /\ x.last = Verdict(Top) /\ x.recorded = TRUE
      BY <1>1 DEF Games
    <3>5. Valid(x, wins)  BY <3>1, <3>2, <3>4 DEF Valid
    <3> HIDE DEF x
    <3>6. QED  BY <1>1, <1>2, <1>8, <2>2, <3>3, <3>4, <3>5, ReplaceStep
               DEF GameOver, Played, Screen, x
  <2>3. QED  BY <1>8, <2>1, <2>2 DEF GameOver
<1>9. QED  BY <1>4, <1>5, <1>6, <1>7, <1>8

(* The arrow keys in the pit, with every query that may fail on the way. *)
LEMMA PitMoveFact ==
    ASSUME NEW p \in Pits, Valid(p, wins), NEW ok \in BOOLEAN
    PROVE  /\ LET x == [p EXCEPT !.window = UpKey(p.window)]
              IN  x \in Screen /\ x.kind = "pit" /\ Valid(x, wins)
           /\ p.window.index = 0 =>
                 LET x == [p EXCEPT !.window = [p.window EXCEPT !.top = 0]]
                 IN  x \in Screen /\ x.kind = "pit" /\ Valid(x, wins)
           /\ LET x == [p EXCEPT !.window = DownKey(p.window, Rows(p.window, ok))]
              IN  x \in Screen /\ x.kind = "pit" /\ Valid(x, wins)
<1>1. p.window \in Windows /\ (MaxLevel > 0 => Shown(p.window))
  BY DEF Pits, Windows, Valid
<1>2. ASSUME NEW w \in Windows, MaxLevel > 0 => Shown(w)
      PROVE  LET x == [p EXCEPT !.window = w]
             IN  x \in Screen /\ x.kind = "pit" /\ Valid(x, wins)
  <2> DEFINE x == [p EXCEPT !.window = w]
  <2>1. x \in Pits /\ x.kind = "pit" /\ x.window = w  BY DEF Pits, Windows
  <2> HIDE DEF x
  <2>2. x \in Screen /\ Valid(x, wins)  BY <1>2, <2>1 DEF Screen, Valid
  <2>3. QED  BY <2>1, <2>2 DEF x
<1>3. UpKey(p.window) \in Windows /\ (MaxLevel > 0 => Shown(UpKey(p.window)))
  BY <1>1, UpKeyShown
<1>4. ASSUME p.window.index = 0
      PROVE  /\ [p.window EXCEPT !.top = 0] \in Windows
             /\ MaxLevel > 0 => Shown([p.window EXCEPT !.top = 0])
  <2>1. p.window.top \in Nat /\ 0 <= p.window.top  BY <1>1 DEF Windows
  <2>2. NumRows(p.window.top) <= NumRows(0)  BY <2>1, FromGrows
  <2>3. NumRows(p.window.top) \in Nat /\ NumRows(0) \in Nat  BY <2>1, FromFact
  <2>4. /\ [p.window EXCEPT !.top = 0] \in Windows
        /\ [p.window EXCEPT !.top = 0].top = 0
        /\ [p.window EXCEPT !.top = 0].index = 0
    BY <1>1, <1>4 DEF Windows
  <2>5. QED  BY <1>1, <1>4, <2>2, <2>3, <2>4 DEF Shown
<1>5. /\ DownKey(p.window, Rows(p.window, ok)) \in Windows
      /\ MaxLevel > 0 => Shown(DownKey(p.window, Rows(p.window, ok)))
  <2>1. Rows(p.window, ok) \in {0, NumRows(p.window.top)}  BY DEF Rows
  <2>2. QED  BY <1>1, <2>1, DownKeyShown
<1>6. QED  BY <1>2, <1>3, <1>4, <1>5

(* Every update of the level pit keeps the invariant. *)
LEMMA PitIInv ==
    IInv /\ (\/ PitFails \/ PitScrollbarWild \/ PitPlay \/ PitMove
            \/ PitQuit \/ PitReplay \/ PitIdle) => IInv'
<1> SUFFICES ASSUME IInv,
                    \/ PitFails \/ PitScrollbarWild \/ PitPlay \/ PitMove
                    \/ PitQuit \/ PitReplay \/ PitIdle
             PROVE  IInv'
  OBVIOUS
<1>1. /\ stack # <<>> /\ Top.kind = "pit" /\ Top \in Pits /\ Valid(Top, wins)
      /\ Len(stack) # MAX_SCREENS
      /\ NoInsert
  <2>1. TopIs("pit") /\ NoInsert
    BY DEF PitFails, PitScrollbarWild, PitPlay, PitMove, PitQuit, PitReplay, PitIdle
  <2>2. QED  BY <2>1, TopFact, ScreensAssumption DEF TopIs
<1>2. wins \subseteq wins' /\ wins' \subseteq Levels /\ inserted' \subseteq Attempts
  BY <1>1, NoInsertFact
<1>3. CASE PitFails \/ PitQuit
  BY <1>1, <1>2, <1>3, PopStep DEF PitFails, PitQuit
<1>4. CASE PitScrollbarWild
  BY <1>2, <1>4, StayStep DEF PitScrollbarWild, IInv, Phases
<1>5. CASE PitIdle
  BY <1>2, <1>5, StayStep DEF PitIdle, Done, Phases
<1>6. CASE PitPlay
  <2>1. PICK l : \E ok \in DbOutcomes : stack' = Append(stack, GameScreen(l, ok))
    BY <1>1, <1>6 DEF PitPlay
  <2>2. PICK ok \in DbOutcomes : stack' = Append(stack, GameScreen(l, ok))
    BY <2>1
  <2>3. /\ GameScreen(l, ok) \in Screen
        /\ GameScreen(l, ok).kind \in {"game", "null"}
        /\ Valid(GameScreen(l, ok), wins)
    BY GameScreenFact, ScreensAssumption
  <2>4. QED  BY <1>1, <1>6, <2>2, <2>3, PushStep DEF PitPlay
<1>7. CASE PitReplay
  <2>1. PICK l : \E okC \in DbOutcomes :
           \/ UNCHANGED stack
           \/ l \in wins /\ stack' = Append(stack, ReplayScreen(l, okC))
    BY <1>1, <1>7 DEF PitReplay
  <2>2. CASE UNCHANGED stack
    BY <1>2, <1>7, <2>2, StayStep DEF PitReplay, Done, Phases
  <2>3. ASSUME NEW okC \in DbOutcomes,
               l \in wins /\ stack' = Append(stack, ReplayScreen(l, okC))
        PROVE  IInv'
    <3>1. /\ ReplayScreen(l, okC) \in Screen
          /\ ReplayScreen(l, okC).kind \in {"replay", "null"}
          /\ Valid(ReplayScreen(l, okC), wins)
      BY <2>3, ReplayScreenFact, ScreensAssumption
    <3>2. QED  BY <1>1, <1>7, <2>3, <3>1, PushStep DEF PitReplay
  <2>4. QED  BY <2>1, <2>2, <2>3
<1>8. CASE PitMove
  <2>1. PICK ok \in DbOutcomes :
           \/ stack' = Replaced([Top EXCEPT !.window = UpKey(Top.window)])
           \/ /\ ~(Top.window.index > 0)
              /\ stack' = Replaced([Top EXCEPT !.window = [Top.window EXCEPT !.top = 0]])
           \/ stack' = Replaced([Top EXCEPT !.window = DownKey(Top.window, Rows(Top.window, ok))])
    BY <1>8 DEF PitMove
  <2>2. Top.window.index \in Nat  BY <1>1 DEF Pits
  <2>3. ~(Top.window.index > 0) => Top.window.index = 0  BY <2>2
  <2>4. ASSUME NEW x, x \in Screen /\ x.kind = "pit" /\ Valid(x, wins), stack' = Replaced(x)
        PROVE  IInv'
    BY <1>1, <1>2, <1>8, <2>4, ReplaceStep DEF PitMove
  <2>5. ok \in BOOLEAN  BY ScreensAssumption
  <2>6. QED  BY <1>1, <2>1, <2>3, <2>4, <2>5, PitMoveFact
<1>9. QED  BY <1>3, <1>4, <1>5, <1>6, <1>7, <1>8

(* And so does everything else. *)
LEMMA RestIInv ==
    IInv /\ (\/ NullOnTop \/ PeekEmpty \/ ReplayQuit \/ ReplayPlay
            \/ BeginTick \/ Environment \/ Finished) => IInv'
<1> SUFFICES ASSUME IInv PROVE
      (\/ NullOnTop \/ PeekEmpty \/ ReplayQuit \/ ReplayPlay
       \/ BeginTick \/ Environment \/ Finished) => IInv'
  OBVIOUS
<1>1. wins \subseteq Levels /\ keys \subseteq Keys /\ phase \in Phases /\ {} \subseteq Attempts
  BY DEF IInv
<1>2. NullOnTop \/ PeekEmpty \/ BeginTick => IInv'
  BY <1>1, StayStep DEF NullOnTop, PeekEmpty, BeginTick, Phases, Over
<1>3. ReplayQuit => IInv'
  BY NoInsertFact, PopStep DEF ReplayQuit, TopIs
<1>4. ReplayPlay => IInv'
  BY NoInsertFact, StayStep DEF ReplayPlay, Done, Phases
<1>5. Environment => IInv'
  <2>1. ASSUME NEW k \in Keys, PressKey(k) PROVE IInv'
    BY <1>1, <2>1, StayStep DEF PressKey
  <2>2. ASSUME NEW l \in Levels, OtherWins(l) PROVE IInv'
    BY <1>1, <2>2, StayStep DEF OtherWins
  <2>3. Disconnect => IInv'
    BY <1>1, StayStep DEF Disconnect, Phases
  <2>4. QED  BY <2>1, <2>2, <2>3 DEF Environment
<1>6. Finished => IInv'
  BY DEF Finished, vars, IInv
<1>7. QED  BY <1>2, <1>3, <1>4, <1>5, <1>6

\* The invariant holds in every state of every session.
THEOREM Invariance == Spec => []IInv
<1>1. Init => IInv  BY InitIInv
<1>2. IInv /\ [Next]_vars => IInv'
  <2>1. IInv /\ UNCHANGED vars => IInv'  BY DEF IInv, vars
  <2>2. IInv /\ Next => IInv'
    BY TitleIInv, GameIInv, PitIInv, RestIInv DEF Next, UpdateStep
  <2>3. QED  BY <2>1, <2>2
<1>3. QED  BY <1>1, <1>2, PTL DEF Spec

-----------------------------------------------------------------------------
(* What the runs check of the instance, for every instance. *)

(* The stack holds screens, whatever was pushed, popped or replaced by       *)
(* state.c and the screens.                                                  *)
THEOREM TypeCorrect == Spec => []TypeOK
<1>1. IInv => TypeOK  BY DEF IInv, Good, TypeOK, Screen
<1>2. QED  BY <1>1, Invariance, PTL

(* state_push_screen never meets its limit: three screens are the most the   *)
(* title, the pit and what they open can stack up.                           *)
THEOREM StackIsShallow == Spec => []StackShape
<1>1. IInv => StackShape  BY DEF IInv, Good, Shape, StackShape
<1>2. QED  BY <1>1, Invariance, PTL

(* The pit's selection stays on a row it displays, for every table of levels *)
(* with a level above 0 and every page size, also when queries fail.         *)
THEOREM SelectionIsShown == Spec => []SelectionShown
<1>1. IInv => SelectionShown
  BY DEF IInv, Good, Valid, SelectionShown, Shown
<1>2. QED  BY <1>1, Invariance, PTL

(* A play remembers only outcomes the game had, and that it was recorded     *)
(* exactly when it was.                                                      *)
THEOREM OutcomesAreHonest == Spec => []LastStateIsHonest
<1>1. IInv => LastStateIsHonest  BY DEF IInv, Good, Valid, LastStateIsHonest
<1>2. QED  BY <1>1, Invariance, PTL

(* A replay on the stack is of a level that was won.                         *)
THEOREM ReplaysShowWins == Spec => []ReplaysAreWins
<1>1. IInv => ReplaysAreWins  BY DEF IInv, Good, Valid, ReplaysAreWins
<1>2. QED  BY <1>1, Invariance, PTL

(* A step that ends a tick of state_update leaves no key pressed: the ones   *)
(* that push do so below the limit, by the shape of the stack.               *)
THEOREM KeysActOnce == Spec => KeysConsumed
<1> DEFINE A == phase = "updating" /\ phase' = "idle" => keys' = {}
<1>1. ASSUME IInv, Next, phase = "updating", phase' = "idle" PROVE keys' = {}
  <2>1. CASE TitleOpen
    <3>1. Len(stack) # MAX_SCREENS
      BY <1>1, <2>1, TopFact, ScreensAssumption DEF TitleOpen, TopIs
    <3>2. QED  BY <2>1, <3>1 DEF TitleOpen, Push
  <2>2. CASE NullOnTop \/ PeekEmpty \/ PitScrollbarWild
    BY <1>1, <2>2 DEF NullOnTop, PeekEmpty, PitScrollbarWild, Over
  <2>3. CASE TitleQuit \/ GameQuit \/ PitFails \/ PitQuit \/ ReplayQuit
    BY <1>1, <2>3 DEF TitleQuit, GameQuit, PitFails, PitQuit, ReplayQuit, Pop
  <2>4. CASE TitleStay \/ PitPlay \/ PitMove \/ PitReplay \/ PitIdle \/ ReplayPlay
    BY <2>4 DEF TitleStay, PitPlay, PitMove, PitReplay, PitIdle, ReplayPlay
  <2>5. CASE GameRetry \/ GameContinue
    BY <1>1, <2>5 DEF GameRetry, GameContinue, Pop
  <2>6. CASE GamePlay \/ GameOver
    BY <2>6 DEF GamePlay, GameOver, Played
  <2>7. CASE BeginTick \/ Environment \/ Finished
    BY <1>1, <2>7 DEF BeginTick, Environment, PressKey, OtherWins, Disconnect, Finished, Over
  <2>8. QED
    BY <1>1, <2>1, <2>2, <2>3, <2>4, <2>5, <2>6, <2>7 DEF Next, UpdateStep
<1>2. IInv /\ [Next]_vars => [A]_vars  BY <1>1
<1>3. QED  BY <1>2, Invariance, PTL DEF Spec, KeysConsumed

(* Every attempt any step inserts is of the play on top of the stack, is its *)
(* first, and says how that play stood.                                      *)
THEOREM AttemptsTellTheTruth == Spec => AttemptsAreTruthful
<1> DEFINE True(a) == /\ Top.kind = "game" /\ ~Top.recorded
                      /\ a.level = Top.level
                      /\ a.state = "won" <=> Top.win
                      /\ a.state = "died" <=> Top.die /\ ~Top.win
<1>1. ASSUME IInv, TopIs("game"), NEW st, NEW ok \in DbOutcomes, Insert(Top, st, ok),
             \/ st \in {"retried", "quit"} /\ Legitimate(Top)
             \/ st = Verdict(Top) /\ st # "in_progress" /\ Top.last # st
      PROVE  \A a \in inserted' : True(a)
  <2>1. Top \in Games /\ Top.kind = "game" /\ Valid(Top, wins)
    BY <1>1, TopFact DEF TopIs
  <2>2. ~Top.recorded
    BY <1>1, <2>1 DEF Valid, Games, Legitimate, Verdict
  <2>3. ASSUME NEW a \in inserted' PROVE a.level = Top.level /\ a.state = st
    BY <1>1, <2>3 DEF Insert
  <2>4. /\ st = "won" <=> Top.win
        /\ st = "died" <=> Top.die /\ ~Top.win
    BY <1>1, <2>1 DEF Legitimate, Verdict, Games
  <2>5. QED  BY <2>1, <2>2, <2>3, <2>4
<1>2. ASSUME inserted' = {} PROVE \A a \in inserted' : True(a)
  BY <1>2
<1>3. ASSUME IInv, Next PROVE (\A a \in inserted' : True(a)) \/ UNCHANGED vars
  <2> HIDE DEF True
  <2>1. CASE GameRetry \/ GameQuit
    BY <1>1, <1>2, <1>3, <2>1 DEF GameRetry, GameQuit, NoInsert
  <2>2. CASE GameOver
    BY <1>1, <1>2, <1>3, <2>2 DEF GameOver, Played, NoInsert
  <2>3. CASE GameContinue \/ GamePlay
    BY <1>2, <2>3 DEF GameContinue, GamePlay, NoInsert
  <2>4. CASE \/ NullOnTop \/ PeekEmpty \/ TitleOpen \/ TitleQuit \/ TitleStay
             \/ BeginTick \/ Environment
    BY <1>2, <2>4 DEF NullOnTop, PeekEmpty, TitleOpen, TitleQuit, TitleStay, BeginTick,
                      Environment, PressKey, OtherWins, Disconnect
  <2>5. CASE \/ PitFails \/ PitScrollbarWild \/ PitPlay \/ PitMove \/ PitQuit
             \/ PitReplay \/ PitIdle \/ ReplayQuit \/ ReplayPlay
    BY <1>2, <2>5 DEF PitFails, PitScrollbarWild, PitPlay, PitMove, PitQuit,
                      PitReplay, PitIdle, ReplayQuit, ReplayPlay, NoInsert
  <2>6. CASE Finished  BY <2>6 DEF Finished
  <2>7. QED
    BY <1>3, <2>1, <2>2, <2>3, <2>4, <2>5, <2>6 DEF Next, UpdateStep
<1>4. IInv /\ [Next]_vars => [\A a \in inserted' : True(a)]_vars  BY <1>3
<1>5. QED  BY <1>4, Invariance, PTL DEF Spec, AttemptsAreTruthful

(* The arrow keys walk the level table one level at a time, for every table  *)
(* of levels, every page size and wherever the page scrolls; only a query    *)
(* that fails makes the selection jump, and then to the first level.         *)
THEOREM PitWalks == Spec => PitWalksLevels
<1> DEFINE Walk(old, new) ==
              /\ new > old => "down" \in keys /\ ~\E l \in Levels : old < l /\ l < new
              /\ new < old =>
                    /\ "up" \in keys
                    /\ \/ ~\E l \in Levels : new < l /\ l < old
                       \/ FALSE \in DbOutcomes /\ new = MinLevel
           Sel(w) == SelectedId(w.top, w.index)
           A == (TopIs("pit") /\ Len(stack') = Len(stack)) =>
                   Walk(Sel(Top.window), Sel(Top'.window))
<1>0. \A m, n \in Nat : (m < n => ~(m > n)) /\ (m > n => ~(m < n)) /\ (m <= n => ~(m > n))
  OBVIOUS
<1>1. ASSUME NEW n \in Nat PROVE Walk(n, n)
  <2>1. ~(n > n) /\ ~(n < n)  OBVIOUS
  <2>2. QED  BY <2>1, Zenon
<1>2. ASSUME NEW w \in Windows, Shown(w), MaxLevel > 0, "up" \in keys
      PROVE  Walk(Sel(w), Sel(UpKey(w)))
  <2>1. Sel(w) \in Nat /\ Sel(UpKey(w)) \in Nat
    BY UpKeyShown, SelectedType
  <2>2. CASE UpKey(w) = w  BY <1>1, <2>1, <2>2
  <2>3. CASE UpKey(w) # w
    <3>1. /\ Sel(UpKey(w)) < Sel(w)
          /\ ~\E l \in Levels : Sel(UpKey(w)) < l /\ l < Sel(w)
      BY <1>2, <2>3, UpKeyWalks
    <3> HIDE DEF Sel
    <3>2. ~(Sel(UpKey(w)) > Sel(w))  BY <1>0, <2>1, <3>1
    <3>3. QED  BY <1>2, <3>1, <3>2, Zenon
  <2>4. QED  BY <2>2, <2>3
<1>3. ASSUME NEW w \in Windows, Shown(w), MaxLevel > 0, w.index = 0,
             "up" \in keys, FALSE \in DbOutcomes
      PROVE  Walk(Sel(w), Sel([w EXCEPT !.top = 0]))
  <2>1. Sel([w EXCEPT !.top = 0]) = SelectedId(0, 0)  BY <1>3 DEF Windows
  <2>2. Levels # {}  BY <1>3 DEF MaxLevel
  <2>3. Sel([w EXCEPT !.top = 0]) = MinLevel  BY <2>1, <2>2, FirstRow
  <2>4. Sel(w) \in Levels /\ Sel(w) \in Nat  BY <1>3, SelectedFact, SelectedType
  <2>5. MinLevel <= Sel(w) /\ MinLevel \in Nat  BY <2>2, <2>4, MinLevelFact, LevelsAssumption
  <2> HIDE DEF Sel
  <2>6. ~(MinLevel > Sel(w))  BY <1>0, <2>4, <2>5
  <2>7. QED  BY <1>3, <2>3, <2>6, Zenon
<1>4. ASSUME NEW w \in Windows, Shown(w), MaxLevel > 0, "down" \in keys,
             NEW rows \in {0, NumRows(w.top)}
      PROVE  Walk(Sel(w), Sel(DownKey(w, rows)))
  <2>1. Sel(w) \in Nat /\ Sel(DownKey(w, rows)) \in Nat
    BY DownKeyShown, SelectedType
  <2>2. CASE DownKey(w, rows) = w  BY <1>1, <2>1, <2>2
  <2>3. CASE DownKey(w, rows) # w
    <3>1. /\ Sel(DownKey(w, rows)) > Sel(w)
          /\ ~\E l \in Levels : Sel(w) < l /\ l < Sel(DownKey(w, rows))
      BY <1>4, <2>3, DownKeyWalks
    <3> HIDE DEF Sel
    <3>2. ~(Sel(DownKey(w, rows)) < Sel(w))  BY <1>0, <2>1, <3>1
    <3>3. QED  BY <1>4, <3>1, <3>2, Zenon
  <2>4. QED  BY <2>2, <2>3
<1>5. ASSUME IInv, Next, TopIs("pit"), Len(stack') = Len(stack)
      PROVE  Walk(Sel(Top.window), Sel(Top'.window))
  <2> DEFINE w == Top.window
  <2>1. /\ stack # <<>> /\ phase = "updating" /\ Top.kind = "pit"
        /\ Top \in Pits /\ Valid(Top, wins) /\ Len(stack) \in 1..3
        /\ stack \in Seq(Screen)
    BY <1>5, TopFact DEF TopIs, IInv, Good
  <2>2. w \in Windows /\ (MaxLevel > 0 => Shown(w))
    BY <2>1 DEF Pits, Windows, Valid
  <2>3. CASE stack' = stack
    <3>1. Top' = Top  BY <2>3 DEF Top
    <3>2. Sel(w) \in Nat  BY <2>2, SelectedType
    <3>3. QED  BY <1>1, <3>1, <3>2
  <2>4. ~Pop
    <3>1. ASSUME Pop PROVE FALSE
      <4>1. Len(stack') = Len(stack) - 1
        <5>1. stack' = SubSeq(stack, 1, Len(stack) - 1)  BY <3>1 DEF Pop
        <5>2. /\ 1 \in Int /\ Len(stack) - 1 \in Int
              /\ (IF 1 <= Len(stack) - 1 THEN Len(stack) - 1 - 1 + 1 ELSE 0) = Len(stack) - 1
          <6>1. \A n \in 1..3 : /\ 1 \in Int /\ n - 1 \in Int
                                /\ (IF 1 <= n - 1 THEN n - 1 - 1 + 1 ELSE 0) = n - 1
            OBVIOUS
          <6>2. QED  BY <2>1, <6>1, Zenon
        <5>3. \A i \in 1..(Len(stack) - 1) : stack[i] \in Screen  BY <2>1
        <5>4. Len(SubSeq(stack, 1, Len(stack) - 1)) =
                 IF 1 <= Len(stack) - 1 THEN Len(stack) - 1 - 1 + 1 ELSE 0
          BY <5>2, <5>3, SubSeqProperties
        <5>5. QED  BY <5>1, <5>2, <5>4
      <4>2. QED  BY <1>5, <2>1, <4>1
    <3>2. QED  BY <3>1
  <2>5. ASSUME NEW x, stack' = Append(stack, x) PROVE FALSE
    <3>1. Len(stack') = Len(stack) + 1  BY <2>1, <2>5
    <3>2. QED  BY <1>5, <2>1, <3>1
  <2>6. PitMove \/ stack' = stack
    <3>1. /\ ~NullOnTop /\ ~PeekEmpty /\ ~TitleOpen /\ ~TitleQuit /\ ~TitleStay
          /\ ~GameRetry /\ ~GameQuit /\ ~GameContinue /\ ~GamePlay /\ ~GameOver
          /\ ~ReplayQuit /\ ~ReplayPlay
      BY <2>1 DEF NullOnTop, PeekEmpty, TitleOpen, TitleQuit, TitleStay,
                  GameRetry, GameQuit, GameContinue, GamePlay, GameOver, Played,
                  ReplayQuit, ReplayPlay, TopIs
    <3>2. ~BeginTick /\ ~Environment /\ ~Finished
      BY <2>1 DEF BeginTick, Environment, PressKey, OtherWins, Disconnect, Finished, Over
    <3>3. PitFails \/ PitQuit => Pop  BY DEF PitFails, PitQuit
    <3>4. PitScrollbarWild \/ PitIdle => stack' = stack  BY DEF PitScrollbarWild, PitIdle
    <3>5. PitPlay \/ PitReplay => stack' = stack \/ \E x : stack' = Append(stack, x)
      BY DEF PitPlay, PitReplay
    <3>6. QED  BY <1>5, <2>4, <2>5, <3>1, <3>2, <3>3, <3>4, <3>5 DEF Next, UpdateStep
  <2>7. ASSUME NEW v \in Windows, stack' = Replaced([Top EXCEPT !.window = v])
        PROVE  Top'.window = v
    <3>1. [Top EXCEPT !.window = v].window = v  BY <2>1 DEF Pits
    <3>2. Top' = [Top EXCEPT !.window = v]
      BY <1>5, <2>1, <2>7 DEF Replaced, Top
    <3>3. QED  BY <3>1, <3>2
  <2>8. CASE PitMove
    <3>1. PICK ok \in DbOutcomes :
             \/ "up" \in keys /\ stack' = Replaced([Top EXCEPT !.window = UpKey(w)])
             \/ /\ "up" \in keys /\ ~ok /\ ~(w.index > 0)
                /\ stack' = Replaced([Top EXCEPT !.window = [w EXCEPT !.top = 0]])
             \/ "down" \in keys /\ stack' = Replaced([Top EXCEPT !.window = DownKey(w, Rows(w, ok))])
      BY <2>8 DEF PitMove
    <3>2. ok \in BOOLEAN /\ (~ok => FALSE \in DbOutcomes)
      <4>1. ok \in BOOLEAN  BY ScreensAssumption
      <4>2. ok = TRUE \/ ok = FALSE  BY <4>1
      <4>3. QED  BY <4>1, <4>2
    <3>3. ~(w.index > 0) => w.index = 0  BY <2>2 DEF Windows
    <3>4. /\ UpKey(w) \in Windows
          /\ [w EXCEPT !.top = 0] \in Windows
          /\ DownKey(w, Rows(w, ok)) \in Windows
          /\ Rows(w, ok) \in {0, NumRows(w.top)}
      BY <2>2, UpKeyShown, DownKeyShown DEF Rows, Windows
    <3>5. CASE MaxLevel > 0
      <4> HIDE DEF w, Walk, Sel
      <4>1. CASE "up" \in keys /\ stack' = Replaced([Top EXCEPT !.window = UpKey(w)])
        BY <1>2, <2>2, <2>7, <3>4, <3>5, <4>1 DEF w
      <4>2. CASE /\ "up" \in keys /\ ~ok /\ ~(w.index > 0)
                 /\ stack' = Replaced([Top EXCEPT !.window = [w EXCEPT !.top = 0]])
        BY <1>3, <2>2, <2>7, <3>2, <3>3, <3>4, <3>5, <4>2 DEF w
      <4>3. CASE "down" \in keys /\ stack' = Replaced([Top EXCEPT !.window = DownKey(w, Rows(w, ok))])
        BY <1>4, <2>2, <2>7, <3>4, <3>5, <4>3 DEF w
      <4>4. QED  BY <3>1, <4>1, <4>2, <4>3
    <3>6. CASE ~(MaxLevel > 0)
      <4>1. Top'.window \in Windows  BY <2>7, <3>1, <3>4
      <4>2. Sel(w) = 0 /\ Sel(Top'.window) = 0  BY <2>2, <3>6, <4>1, SelectedType
      <4>3. 0 \in Nat  OBVIOUS
      <4> HIDE DEF Walk, Sel
      <4>4. QED  BY <1>1, <4>2, <4>3
    <3>7. QED  BY <3>5, <3>6
  <2>9. QED  BY <2>3, <2>6, <2>8
<1>6. IInv /\ [Next]_vars => [A]_vars
  <2> HIDE DEF Walk, Sel
  <2>1. QED  BY <1>5
<1>7. QED  BY <1>6, Invariance, PTL DEF Spec, PitWalksLevels
=============================================================================
