----------------------------- MODULE MCInputLog -----------------------------
(* Model-checking instance of the input log: every old log of up to five    *)
(* bytes.                                                                   *)
EXTENDS InputLog

Texts == UNION {[1 .. n -> Digit \cup Moves] : n \in 0 .. 5}
MCOldLogs == {s \in Texts : IsOldLog(s)}
=============================================================================
