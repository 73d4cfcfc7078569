------------------------------- MODULE Server -------------------------------
(***************************************************************************)
(* The Telnet server: run_server in main.c, the session list in server.c   *)
(* and the socket calls in session.c.  One thread serves every session;    *)
(* clients, the network and signals interleave with each of its calls.     *)
(*                                                                         *)
(* What a session computes is not here: state_update is a choice of        *)
(* whether the session wants to stay (module Screens says when), and a     *)
(* received packet is only counted.                                        *)
(***************************************************************************)
EXTENDS Integers, FiniteSets

CONSTANTS
    Sessions,     \* every session the process may ever create (one per accept)
    NULL,         \* the null pointer
    MaxSends      \* bound: packets one client sends

ASSUME SessionsAssumption ==
    /\ IsFiniteSet(Sessions)
    /\ NULL \notin Sessions

ASSUME BoundsAssumption == MaxSends \in Nat

VARIABLES
    alloc,        \* session structs that are allocated and not yet freed
    id,           \* the number each session struct was created with
    nextId,       \* next_session_id
    next, prev,   \* the links of each session struct
    head,         \* server->sessions
    numSessions,  \* server->num_sessions
    cursor,       \* the local variable `session` of the serving loop
    pc,           \* where the server's thread is
    alive, keep,  \* the locals `alive` and `keep_alive`
    peer,         \* the client's side of each connection
    queued,       \* connections in the listen backlog
    inbox,        \* packets received by the kernel, not yet by the server
    toSend,       \* packets the client may still send
    sigterm       \* has SIGTERM been delivered?

listVars == <<alloc, id, nextId, next, prev, head, numSessions>>
netVars  == <<peer, queued, inbox, toSend>>
vars == <<listVars, netVars, cursor, pc, alive, keep, sigterm>>

Pointer == Sessions \cup {NULL}

(* Labels of the thread while it holds a session, and when it has ended. *)
Serving == {"receive", "update", "flush", "retire"}
Ended   == {"down", "killed"}
Labels  == {"select", "accept", "next", "destroy", "destroying"} \cup Serving \cup Ended

Init ==
    /\ alloc = {}
    /\ id = [s \in Sessions |-> 0]
    /\ nextId = 1
    /\ next = [s \in Sessions |-> NULL]
    /\ prev = [s \in Sessions |-> NULL]
    /\ head = NULL
    /\ numSessions = 0
    /\ cursor = NULL
    /\ pc = "select"
    /\ alive = FALSE
    /\ keep = FALSE
    /\ peer = [s \in Sessions |-> "absent"]
    /\ queued = {}
    /\ inbox = [s \in Sessions |-> 0]
    /\ toSend = [s \in Sessions |-> MaxSends]
    /\ sigterm = FALSE

-----------------------------------------------------------------------------
(* The session list. *)

\* session_create, which always succeeds.
Create(s) ==
    /\ id' = [id EXCEPT ![s] = nextId]
    /\ nextId' = nextId + 1
    /\ alloc' = alloc \cup {s}

\* Mutant: the iterator follows the wrong link.
AdvanceBack(s) == IF s = NULL THEN head ELSE prev[s]

\* Where server_next_session leads from a session, or from NULL.
Advance(s) == IF s = NULL THEN head ELSE next[s]

\* Mutant: the new session goes behind the first one.
LinkSecond(s) ==
    /\ next' = [x \in Sessions |-> IF head = NULL THEN next[x]
                                   ELSE IF x = s THEN next[head]
                                   ELSE IF x = head THEN s
                                   ELSE next[x]]
    /\ prev' = [x \in Sessions |-> IF head = NULL THEN prev[x]
                                   ELSE IF x = s THEN head
                                   ELSE IF x = next[head] THEN s
                                   ELSE prev[x]]
    /\ head' = IF head = NULL THEN s ELSE head
    /\ numSessions' = numSessions + 1

\* Mutant: the new session's successor is never linked back to it.
LinkNoBack(s) ==
    /\ next' = [next EXCEPT ![s] = head]
    /\ prev' = [prev EXCEPT ![s] = NULL]
    /\ head' = s
    /\ numSessions' = numSessions + 1

\* server_update, once accept and session_create have succeeded.
Link(s) ==
    /\ next' = [next EXCEPT ![s] = head]
    /\ prev' = [x \in Sessions |-> IF x = s THEN NULL
                                   ELSE IF x = head THEN s
                                   ELSE prev[x]]
    /\ head' = s
    /\ numSessions' = numSessions + 1

\* Mutant: the successor keeps pointing back at the freed session.
DisconnectNoBack(s) ==
    /\ next' = [x \in Sessions |-> IF x = s THEN NULL
                                   ELSE IF x = prev[s] THEN next[s]
                                   ELSE next[x]]
    /\ prev' = [prev EXCEPT ![s] = NULL]
    /\ head' = IF head = s THEN NULL ELSE head
    /\ numSessions' = numSessions - 1
    /\ alloc' = alloc \ {s}
    /\ UNCHANGED <<id, nextId>>

\* Mutant: the count is only decremented for the head of the list.
DisconnectNoCount(s) ==
    /\ next' = [x \in Sessions |-> IF x = s THEN NULL
                                   ELSE IF x = prev[s] THEN next[s]
                                   ELSE next[x]]
    /\ prev' = [x \in Sessions |-> IF x = s THEN NULL
                                   ELSE IF x = next[s] THEN prev[s]
                                   ELSE prev[x]]
    /\ head' = IF head = s THEN NULL ELSE head
    /\ numSessions' = IF head = s THEN numSessions - 1 ELSE numSessions
    /\ alloc' = alloc \ {s}
    /\ UNCHANGED <<id, nextId>>

\* server_disconnect_session.  The links of a freed struct read as NULL here;
\* MemorySafe says nobody reads them.
Disconnect(s) ==
    /\ next' = [x \in Sessions |-> IF x = s THEN NULL
                                   ELSE IF x = prev[s] THEN next[s]
                                   ELSE next[x]]
    /\ prev' = [x \in Sessions |-> IF x = s THEN NULL
                                   ELSE IF x = next[s] THEN prev[s]
                                   ELSE prev[x]]
    /\ head' = IF head = s THEN NULL ELSE head
    /\ numSessions' = numSessions - 1
    /\ alloc' = alloc \ {s}
    /\ UNCHANGED <<id, nextId>>

-----------------------------------------------------------------------------
(* The thread: server_update. *)

\* select times out: nothing is waiting to be accepted.
SelectTimeout ==
    /\ pc = "select"
    /\ queued = {}
    /\ pc' = "next"
    /\ UNCHANGED <<listVars, netVars, cursor, alive, keep, sigterm>>

\* select reports the listening socket readable.
SelectReady ==
    /\ pc = "select"
    /\ queued # {}
    /\ pc' = "accept"
    /\ UNCHANGED <<listVars, netVars, cursor, alive, keep, sigterm>>

\* accept and session_create succeed; nothing compares the number of sessions
\* with MAX_SESSIONS.
Accept(s) ==
    /\ pc = "accept"
    /\ s \in queued
    /\ queued' = queued \ {s}
    /\ Create(s)
    /\ Link(s)
    /\ pc' = "next"
    /\ UNCHANGED <<peer, inbox, toSend, cursor, alive, keep, sigterm>>

\* accept fails (no descriptor left, connection aborted): server_update
\* returns false and the main loop ends.
AcceptFails ==
    /\ pc = "accept"
    /\ pc' = "destroy"
    /\ UNCHANGED <<listVars, netVars, cursor, alive, keep, sigterm>>

-----------------------------------------------------------------------------
(* The thread: the loop over the sessions. *)

\* server_next_session finds a session to serve.
BeginSession ==
    /\ pc = "next"
    /\ Advance(cursor) # NULL
    /\ cursor' = Advance(cursor)
    /\ pc' = "receive"
    /\ UNCHANGED <<listVars, netVars, alive, keep, sigterm>>

\* The list is exhausted: back to server_update.
EndPass ==
    /\ pc = "next"
    /\ Advance(cursor) = NULL
    /\ cursor' = NULL
    /\ pc' = "select"
    /\ UNCHANGED <<listVars, netVars, alive, keep, sigterm>>

\* Mutant: data is taken without asking whether there is any.
ReceiveDataUnchecked ==
    /\ pc = "receive"
    /\ peer[cursor] # "reset"
    /\ inbox' = [inbox EXCEPT ![cursor] = @ - 1]
    /\ UNCHANGED <<listVars, peer, queued, toSend, cursor, pc, alive, keep, sigterm>>

\* session_receive returns data, terminal_parse consumes it, and the loop
\* asks for more.
ReceiveData ==
    /\ pc = "receive"
    /\ peer[cursor] # "reset"
    /\ inbox[cursor] > 0
    /\ inbox' = [inbox EXCEPT ![cursor] = @ - 1]
    /\ UNCHANGED <<listVars, peer, queued, toSend, cursor, pc, alive, keep, sigterm>>

\* Mutant: a closed connection reads as an idle one.
ReceiveEndIgnoresClose ==
    /\ pc = "receive"
    /\ inbox[cursor] = 0 \/ peer[cursor] = "reset"
    /\ alive' = (peer[cursor] \in {"up", "closed"})
    /\ pc' = "update"
    /\ UNCHANGED <<listVars, netVars, cursor, keep, sigterm>>

\* session_receive returns without data: EWOULDBLOCK (alive), end of file or
\* an error (not alive).
ReceiveEnd ==
    /\ pc = "receive"
    /\ inbox[cursor] = 0 \/ peer[cursor] = "reset"
    /\ alive' = (peer[cursor] = "up")
    /\ pc' = "update"
    /\ UNCHANGED <<listVars, netVars, cursor, keep, sigterm>>

\* state_update, called even for a connection that is already gone.
Update ==
    /\ pc = "update"
    /\ keep' \in BOOLEAN
    /\ pc' = "flush"
    /\ UNCHANGED <<listVars, netVars, cursor, alive, sigterm>>

\* terminal_flush and session_send until nothing is left.  A failed send is
\* logged and ignored.
Flush ==
    /\ pc = "flush"
    /\ pc' = "retire"
    /\ UNCHANGED <<listVars, netVars, cursor, alive, keep, sigterm>>

\* The client went away after the receive: the second send on the dead
\* connection raises SIGPIPE, which the process neither ignores nor handles.
FlushKilled ==
    /\ pc = "flush"
    /\ alive
    /\ peer[cursor] # "up"
    /\ pc' = "killed"
    /\ UNCHANGED <<listVars, netVars, cursor, alive, keep, sigterm>>

Retain ==
    /\ pc = "retire"
    /\ alive /\ keep
    /\ pc' = "next"
    /\ UNCHANGED <<listVars, netVars, cursor, alive, keep, sigterm>>

\* Mutant: the loop goes on from the successor of the session it just freed.
RetireForward ==
    /\ pc = "retire"
    /\ ~(alive /\ keep)
    /\ cursor' = next[cursor]
    /\ Disconnect(cursor)
    /\ pc' = "next"
    /\ UNCHANGED <<netVars, alive, keep, sigterm>>

\* The connection is gone or the session wants to end: disconnect it and go
\* back to the session before it.
Retire ==
    /\ pc = "retire"
    /\ ~(alive /\ keep)
    /\ cursor' = prev[cursor]
    /\ Disconnect(cursor)
    /\ pc' = "next"
    /\ UNCHANGED <<netVars, alive, keep, sigterm>>

-----------------------------------------------------------------------------
(* The thread: server_destroy, which walks the list the same way. *)

DestroyNext ==
    /\ pc = "destroy"
    /\ Advance(cursor) # NULL
    /\ cursor' = Advance(cursor)
    /\ pc' = "destroying"
    /\ UNCHANGED <<listVars, netVars, alive, keep, sigterm>>

DestroySession ==
    /\ pc = "destroying"
    /\ cursor' = prev[cursor]
    /\ Disconnect(cursor)
    /\ pc' = "destroy"
    /\ UNCHANGED <<netVars, alive, keep, sigterm>>

\* Mutant: shutting down waits for every connection to be gone.
DestroyDoneWaits ==
    /\ pc = "destroy"
    /\ Advance(cursor) = NULL
    /\ numSessions = 0
    /\ pc' = "down"
    /\ UNCHANGED <<listVars, netVars, cursor, alive, keep, sigterm>>

DestroyDone ==
    /\ pc = "destroy"
    /\ Advance(cursor) = NULL
    /\ pc' = "down"
    /\ UNCHANGED <<listVars, netVars, cursor, alive, keep, sigterm>>

-----------------------------------------------------------------------------
(* The environment. *)

\* SIGTERM arrives.  handle_signal clears `running` only for SIGKILL, so the
\* one effect is that select, if the thread is inside it, returns EINTR and
\* server_update fails.  At any other moment the signal is lost.
Sigterm ==
    /\ pc \notin Ended
    /\ ~sigterm
    /\ sigterm' = TRUE
    /\ \/ pc = "select" /\ pc' = "destroy"
       \/ UNCHANGED pc
    /\ UNCHANGED <<listVars, netVars, cursor, alive, keep>>

ClientConnect(s) ==
    /\ peer[s] = "absent"
    /\ pc \notin Ended
    /\ peer' = [peer EXCEPT ![s] = "up"]
    /\ queued' = queued \cup {s}
    /\ UNCHANGED <<listVars, inbox, toSend, cursor, pc, alive, keep, sigterm>>

ClientSend(s) ==
    /\ peer[s] = "up"
    /\ pc \notin Ended
    /\ toSend[s] > 0
    /\ toSend' = [toSend EXCEPT ![s] = @ - 1]
    /\ inbox' = [inbox EXCEPT ![s] = @ + 1]
    /\ UNCHANGED <<listVars, peer, queued, cursor, pc, alive, keep, sigterm>>

\* The client closes (end of file after what it sent) or resets (what it sent
\* is discarded).
ClientLeave(s) ==
    /\ peer[s] = "up"
    /\ pc \notin Ended
    /\ \E how \in {"closed", "reset"} : peer' = [peer EXCEPT ![s] = how]
    /\ UNCHANGED <<listVars, queued, inbox, toSend, cursor, pc, alive, keep, sigterm>>

-----------------------------------------------------------------------------
ServerStep ==
    \/ SelectTimeout \/ SelectReady
    \/ \E s \in Sessions : Accept(s)
    \/ AcceptFails
    \/ BeginSession \/ EndPass
    \/ ReceiveData \/ ReceiveEnd \/ Update
    \/ Flush \/ FlushKilled \/ Retain \/ Retire
    \/ DestroyNext \/ DestroySession \/ DestroyDone

Environment ==
    \/ Sigterm
    \/ \E s \in Sessions : ClientConnect(s) \/ ClientSend(s) \/ ClientLeave(s)

\* The process has exited; nothing moves any more.
Exited == pc \in Ended /\ UNCHANGED vars

Next == ServerStep \/ Environment \/ Exited

Spec == Init /\ [][Next]_vars

\* The operating system keeps scheduling the one thread; nothing is assumed of
\* clients or signals.
FairSpec == Spec /\ WF_vars(ServerStep)

-----------------------------------------------------------------------------
(* The list a pass will visit. *)

N == Cardinality(Sessions)

\* Chain[i] is the i-th session from the head (from 0), or NULL past the end.
Chain[i \in 0..N] ==
    IF i = 0 THEN head
    ELSE IF Chain[i - 1] = NULL THEN NULL
    ELSE next[Chain[i - 1]]

Listed == {Chain[i] : i \in 0..N} \ {NULL}

ListLength == Cardinality({i \in 0..N : Chain[i] # NULL})

LinkedList == [i \in 1..ListLength |-> Chain[i - 1]]

Orphans == alloc \ Listed

\* How far the pass has come: the position of the cursor in the list.
Position ==
    IF cursor \notin Listed THEN 0
    ELSE CHOOSE i \in 1..ListLength : LinkedList[i] = cursor

-----------------------------------------------------------------------------
(* Correctness properties. *)

TypeOK ==
    /\ alloc \subseteq Sessions
    /\ id \in [Sessions -> Nat]
    /\ nextId \in Nat
    /\ next \in [Sessions -> Pointer]
    /\ prev \in [Sessions -> Pointer]
    /\ head \in Pointer
    /\ numSessions \in Int
    /\ cursor \in Pointer
    /\ pc \in Labels
    /\ alive \in BOOLEAN
    /\ keep \in BOOLEAN
    /\ peer \in [Sessions -> {"absent", "up", "closed", "reset"}]
    /\ queued \subseteq Sessions
    /\ inbox \in [Sessions -> Nat]
    /\ toSend \in [Sessions -> Nat]
    /\ sigterm \in BOOLEAN

\* No pointer the server can follow leads to a freed session: not the list
\* head, not a link of a live session, not the loop's own variable, however
\* many sessions were disconnected in the middle of the pass.
MemorySafe ==
    /\ head \in alloc \cup {NULL}
    /\ cursor \in alloc \cup {NULL}
    /\ pc \in Serving \cup {"destroying"} => cursor # NULL
    /\ \A s \in alloc : {next[s], prev[s]} \subseteq alloc \cup {NULL}

\* Forward and backward links agree, also among the sessions that were lost
\* from the list: what makes unlinking a session in the middle safe.
DoublyLinked ==
    /\ head # NULL => prev[head] = NULL
    /\ \A s \in alloc :
          /\ next[s] # NULL => prev[next[s]] = s
          /\ prev[s] # NULL => next[prev[s]] = s

\* The links lead from newer sessions to older ones, so no pass can run in a
\* circle, whatever was unlinked from the middle of the list.
NewestFirst ==
    \A s \in alloc :
        /\ id[s] < nextId
        /\ next[s] # NULL => id[next[s]] < id[s]

\* num_sessions, the "players online" of the title screen, counts exactly the
\* connections that are open, including those no longer in the list.
CountIsOpenSessions == numSessions = Cardinality(alloc)

\* server_update, the pass over the sessions and server_disconnect_session
\* treat the linked list as the ordered list of module SessionList: each pass
\* serves every listed session exactly once, newest first, whoever leaves on
\* the way.
List == INSTANCE SessionList
            WITH list <- LinkedList, done <- Position, lost <- Orphans
ListSpec == List!Spec

\* Every listed session gets its turn again and again, until it is
\* disconnected, is lost behind a departing head, or the process ends.
ListedIsServed ==
    \A s \in Sessions :
        s \in Listed ~> (pc = "update" /\ cursor = s) \/ s \notin Listed \/ pc \in Ended

\* A client that has left is disconnected in the end, unless its session was
\* lost from the list or the process ends first.
LeaverIsReaped ==
    \A s \in Sessions :
        (s \in Listed /\ peer[s] # "up") ~> s \notin Listed \/ pc \in Ended

\* Once server_update has failed, server_destroy runs to its end.
ShutdownCompletes == pc = "destroy" ~> pc = "down"

\* main.c says of its loop "Accept new connections and update existing ones":
\* an existing session is one the loop still reaches.
ExistingSessionsAreListed == pc = "select" => alloc = Listed
=============================================================================
