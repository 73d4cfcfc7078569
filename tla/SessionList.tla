---------------------------- MODULE SessionList ----------------------------
(***************************************************************************)
(* What the server's session container does for its caller, without the    *)
(* pointers: an ordered list, served once per pass from the newest session *)
(* to the oldest.  Only the session being served can be removed.  Removing *)
(* the first one empties the whole list: every session behind it is lost   *)
(* (still open, still counted, never served again), which is what          *)
(* server_disconnect_session does when it clears the list head.            *)
(***************************************************************************)
EXTENDS Naturals, Sequences, SequencesExt

CONSTANT Sessions   \* every session the process may ever create

VARIABLES
    list,   \* the sessions a pass will visit, newest first
    done,   \* how many of them this pass has visited
    lost    \* open sessions no pass will ever visit again

vars == <<list, done, lost>>

Init ==
    /\ list = <<>>
    /\ done = 0
    /\ lost = {}

(* A new session goes to the front, and only between two passes. *)
Add(s) ==
    /\ done = 0
    /\ s \notin ToSet(list) \cup lost
    /\ list' = <<s>> \o list
    /\ UNCHANGED <<done, lost>>

(* The pass moves to the next session of the list. *)
Serve ==
    /\ done < Len(list)
    /\ done' = done + 1
    /\ UNCHANGED <<list, lost>>

(* The session being served leaves; the pass resumes after its predecessor. *)
Depart ==
    /\ done > 0
    /\ done' = done - 1
    /\ \/ /\ done = 1
          /\ list' = <<>>
          /\ lost' = lost \cup ToSet(Tail(list))
       \/ /\ done > 1
          /\ list' = RemoveAt(list, done)
          /\ UNCHANGED lost

(* A pass ends only when every session of the list has had its turn. *)
EndPass ==
    /\ done = Len(list)
    /\ done' = 0
    /\ UNCHANGED <<list, lost>>

Next == Serve \/ Depart \/ EndPass \/ \E s \in Sessions : Add(s)

Spec == Init /\ [][Next]_vars
=============================================================================
