----------------------------- MODULE MCDisplay ------------------------------
(* Model-checking instance of the display: a field of a single cell.        *)
EXTENDS Display

\* A width of 81 is the letter Q.
MCMessages == {Key(113), Key(Escape), Arrow(1), Answer(Will, NAWS),
               NewSize(1, 2), NewSize(81, 1), NewSize(IAC, 1)}

\* The messages are such as DisplayProofs speaks of (PacketsRead).
ASSUME MessagesAreProper == \A m \in Messages : IsMessage(m)

\* A pound sign, which takes two bytes; blanks take one and are in both styles.
MCInks  == {<<163, "bright">>}
=============================================================================
