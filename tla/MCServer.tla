------------------------------ MODULE MCServer ------------------------------
(* Model-checking instance of the server: interchangeable sessions. *)
EXTENDS Server, TLC

Symmetry == Permutations(Sessions)
=============================================================================
