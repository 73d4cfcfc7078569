----------------------------- MODULE MCScreens ------------------------------
(* Model-checking instances of a player's screens. *)
EXTENDS Screens

\* A level table with gaps, longer than a page.
GappedLevels == {2, 4, 5, 7}
=============================================================================
