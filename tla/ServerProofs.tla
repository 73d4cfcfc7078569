---------------------------- MODULE ServerProofs ----------------------------
(***************************************************************************)
(* What holds of the server for any number of sessions: no pointer the     *)
(* server can follow leads to a freed session, the two directions of every *)
(* link agree, num_sessions counts the open connections, and the linked    *)
(* sessions behave as the ordered list of module SessionList.              *)
(*                                                                         *)
(* MemorySafe alone is not inductive.  Unlinking a session repairs only    *)
(* the neighbours the session itself names, so the proof needs to know     *)
(* that nobody else points at it (DoublyLinked) and that it does not point *)
(* at itself (NewestFirst); linking a session needs to know that it was    *)
(* not allocated before (Fresh).                                           *)
(***************************************************************************)
EXTENDS Server, SequenceTheorems, Induction

\* A connection becomes a session at most once: one that waits in the backlog
\* has no session yet, one that was never made is in neither place.
Fresh ==
    /\ queued \cap alloc = {}
    /\ \A s \in Sessions : peer[s] = "absent" => s \notin queued \cup alloc

\* The part of the invariant that only linking and unlinking can disturb.
Sound ==
    /\ head \in alloc \cup {NULL}
    /\ \A s \in alloc : {next[s], prev[s]} \subseteq alloc \cup {NULL}
    /\ DoublyLinked
    /\ NewestFirst
    /\ CountIsOpenSessions

IInv ==
    /\ TypeOK
    /\ MemorySafe
    /\ Sound
    /\ Fresh

\* The types of the session list's own variables.
ListTypes ==
    /\ alloc \subseteq Sessions
    /\ id \in [Sessions -> Nat]
    /\ nextId \in Nat
    /\ next \in [Sessions -> Pointer]
    /\ prev \in [Sessions -> Pointer]
    /\ head \in Pointer
    /\ numSessions \in Int

-----------------------------------------------------------------------------
(* The list survives the linking of a session that was not in it ...  *)
LEMMA LinkIsSound ==
    ASSUME TypeOK, Sound, NEW s \in Sessions, s \notin alloc, Create(s), Link(s)
    PROVE  ListTypes' /\ Sound'
<1> USE SessionsAssumption DEF Pointer
<1>1. ListTypes'
  BY DEF TypeOK, ListTypes, Create, Link
<1>2. head' \in alloc' \cup {NULL}
  BY DEF Create, Link
<1>3. \A x \in alloc' : {next'[x], prev'[x]} \subseteq alloc' \cup {NULL}
  BY DEF TypeOK, Sound, Create, Link
<1>4. DoublyLinked'
  BY DEF TypeOK, Sound, DoublyLinked, Create, Link
<1>5. NewestFirst'
  BY DEF TypeOK, Sound, NewestFirst, Create, Link
<1>6. CountIsOpenSessions'
  <2>1. IsFiniteSet(alloc)
    BY FS_Subset DEF TypeOK
  <2>2. Cardinality(alloc \cup {s}) = Cardinality(alloc) + 1
    BY <2>1, FS_AddElement
  <2>3. QED  BY <2>2 DEF Sound, CountIsOpenSessions, Create, Link
<1>7. QED  BY <1>1, <1>2, <1>3, <1>4, <1>5, <1>6 DEF Sound

(* ... and the unlinking of any session, wherever it stands; the session   *)
(* the loop goes back to is still allocated.                               *)
LEMMA DisconnectIsSound ==
    ASSUME TypeOK, Sound, NEW s \in alloc, Disconnect(s)
    PROVE  /\ ListTypes' /\ Sound'
           /\ prev[s] \in alloc' \cup {NULL}
<1> USE SessionsAssumption DEF Pointer
<1>1. s \in Sessions  BY DEF TypeOK
<1>2. ListTypes'
  BY <1>1 DEF TypeOK, ListTypes, Disconnect
<1>3. head' \in alloc' \cup {NULL}
  BY DEF Sound, Disconnect
<1>4. \A x \in alloc' : {next'[x], prev'[x]} \subseteq alloc' \cup {NULL}
  BY <1>1 DEF TypeOK, Sound, DoublyLinked, Disconnect
<1>5. DoublyLinked'
  BY <1>1 DEF TypeOK, Sound, DoublyLinked, Disconnect
<1>6. NewestFirst'
  BY <1>1 DEF TypeOK, Sound, DoublyLinked, NewestFirst, Disconnect
<1>7. CountIsOpenSessions'
  <2>1. IsFiniteSet(alloc)
    BY FS_Subset DEF TypeOK
  <2>2. Cardinality(alloc \ {s}) = Cardinality(alloc) - 1
    BY <2>1, FS_RemoveElement
  <2>3. QED  BY <2>2 DEF Sound, CountIsOpenSessions, Disconnect
<1>8. prev[s] \in alloc' \cup {NULL}
  <2>1. prev[s] # s
    BY <1>1 DEF TypeOK, Sound, DoublyLinked, NewestFirst
  <2>2. QED  BY <2>1 DEF Sound, Disconnect
<1>9. QED  BY <1>2, <1>3, <1>4, <1>5, <1>6, <1>7, <1>8 DEF Sound

(* Where the iterator leads from a live session, a live session is. *)
LEMMA AdvanceIsSafe ==
    ASSUME IInv
    PROVE  Advance(cursor) \in alloc \cup {NULL}
BY DEF IInv, MemorySafe, Advance

(* A step that leaves the list alone keeps it sound. *)
LEMMA ListUntouched ==
    ASSUME IInv, UNCHANGED listVars
    PROVE  ListTypes' /\ Sound'
BY DEF IInv, TypeOK, ListTypes, Sound, DoublyLinked, NewestFirst,
       CountIsOpenSessions, listVars, Pointer

-----------------------------------------------------------------------------
\* Before the first client comes the invariant holds.
LEMMA InitIInv == Init => IInv
<1> SUFFICES ASSUME Init PROVE IInv  OBVIOUS
<1> USE SessionsAssumption, BoundsAssumption
<1>1. TypeOK
  <2>1. peer \in [Sessions -> {"absent", "up", "closed", "reset"}]
    BY DEF Init
  <2>2. alive \in BOOLEAN /\ keep \in BOOLEAN /\ sigterm \in BOOLEAN
    BY DEF Init
  <2>3. QED  BY <2>1, <2>2 DEF Init, TypeOK, Pointer, Labels
<1>2. MemorySafe
  BY DEF Init, MemorySafe, Serving
<1>3. Sound
  BY FS_EmptySet DEF Init, Sound, DoublyLinked, NewestFirst, CountIsOpenSessions
<1>4. Fresh
  BY DEF Init, Fresh
<1>5. QED  BY <1>1, <1>2, <1>3, <1>4 DEF IInv

(* Every step of the server's thread keeps the invariant. *)
LEMMA ServerStepIInv == IInv /\ ServerStep => IInv'
<1> SUFFICES ASSUME IInv, ServerStep PROVE IInv'  OBVIOUS
<1> USE SessionsAssumption
<1>0. TypeOK /\ MemorySafe /\ Sound /\ Fresh  BY DEF IInv
<1>1. ASSUME UNCHANGED listVars,
             UNCHANGED <<peer, queued, toSend, sigterm>>,
             inbox' \in [Sessions -> Nat],
             alive' \in BOOLEAN, keep' \in BOOLEAN, pc' \in Labels,
             cursor' \in alloc \cup {NULL},
             pc' \in Serving \cup {"destroying"} => cursor' # NULL
      PROVE  IInv'
  <2>1. ListTypes' /\ Sound'  BY <1>1, ListUntouched
  <2>2. TypeOK'  BY <1>0, <1>1, <2>1 DEF TypeOK, ListTypes, Pointer
  <2>3. MemorySafe'  BY <1>0, <1>1 DEF MemorySafe, listVars
  <2>4. Fresh'  BY <1>0, <1>1 DEF Fresh, listVars
  <2>5. QED  BY <2>1, <2>2, <2>3, <2>4 DEF IInv
<1>2. ASSUME cursor \in alloc, Disconnect(cursor), cursor' = prev[cursor],
             UNCHANGED <<netVars, alive, keep, sigterm>>,
             pc' \in {"next", "destroy"}
      PROVE  IInv'
  <2>1. /\ ListTypes' /\ Sound'
        /\ prev[cursor] \in alloc' \cup {NULL}
    BY <1>0, <1>2, DisconnectIsSound
  <2>2. TypeOK'
    BY <1>0, <1>2, <2>1 DEF TypeOK, ListTypes, netVars, Labels, Pointer
  <2>3. MemorySafe'
    BY <1>2, <2>1 DEF MemorySafe, Sound, Serving
  <2>4. Fresh'
    BY <1>0, <1>2 DEF Fresh, Disconnect, netVars
  <2>5. QED  BY <2>1, <2>2, <2>3, <2>4 DEF IInv
<1>3. CASE SelectTimeout
  BY <1>0, <1>1, <1>3 DEF SelectTimeout, netVars, TypeOK, MemorySafe, Labels, Serving
<1>4. CASE SelectReady
  BY <1>0, <1>1, <1>4 DEF SelectReady, netVars, TypeOK, MemorySafe, Labels, Serving
<1>5. CASE \E s \in Sessions : Accept(s)
  <2>1. PICK s \in Sessions : Accept(s)  BY <1>5
  <2>2. s \notin alloc  BY <1>0, <2>1 DEF Fresh, Accept
  <2>3. ListTypes' /\ Sound'
    BY <1>0, <2>1, <2>2, LinkIsSound DEF Accept
  <2>4. TypeOK'
    BY <1>0, <2>1, <2>3 DEF TypeOK, ListTypes, Accept, Labels
  <2>5. MemorySafe'
    BY <1>0, <2>1, <2>3 DEF MemorySafe, Sound, Accept, Create, Serving
  <2>6. Fresh'
    BY <1>0, <2>1 DEF Fresh, Accept, Create
  <2>7. QED  BY <2>3, <2>4, <2>5, <2>6 DEF IInv
<1>6. CASE AcceptFails
  BY <1>0, <1>1, <1>6 DEF AcceptFails, netVars, TypeOK, MemorySafe, Labels, Serving
<1>7. CASE BeginSession
  BY <1>0, <1>1, <1>7, AdvanceIsSafe DEF BeginSession, netVars, TypeOK, Labels, Serving
<1>8. CASE EndPass
  BY <1>0, <1>1, <1>8 DEF EndPass, netVars, TypeOK, Labels, Serving
<1>9. CASE ReceiveData
  <2>1. cursor \in Sessions  BY <1>0, <1>9 DEF ReceiveData, TypeOK, MemorySafe, Serving
  <2>2. inbox' \in [Sessions -> Nat]  BY <1>0, <1>9, <2>1 DEF ReceiveData, TypeOK
  <2>3. QED  BY <1>0, <1>1, <1>9, <2>2 DEF ReceiveData, TypeOK, MemorySafe
<1>10. CASE ReceiveEnd
  BY <1>0, <1>1, <1>10 DEF ReceiveEnd, netVars, TypeOK, MemorySafe, Labels, Serving
<1>11. CASE Update
  BY <1>0, <1>1, <1>11 DEF Update, netVars, TypeOK, MemorySafe, Labels, Serving
<1>12. CASE Flush
  BY <1>0, <1>1, <1>12 DEF Flush, netVars, TypeOK, MemorySafe, Labels, Serving
<1>13. CASE FlushKilled
  BY <1>0, <1>1, <1>13 DEF FlushKilled, netVars, TypeOK, MemorySafe, Labels, Serving, Ended
<1>14. CASE Retain
  BY <1>0, <1>1, <1>14 DEF Retain, netVars, TypeOK, MemorySafe, Labels, Serving
<1>15. CASE Retire
  BY <1>0, <1>2, <1>15 DEF Retire, MemorySafe, Serving
<1>16. CASE DestroyNext
  BY <1>0, <1>1, <1>16, AdvanceIsSafe DEF DestroyNext, netVars, TypeOK, Labels, Serving
<1>17. CASE DestroySession
  BY <1>0, <1>2, <1>17 DEF DestroySession, MemorySafe, Serving
<1>18. CASE DestroyDone
  BY <1>0, <1>1, <1>18 DEF DestroyDone, netVars, TypeOK, MemorySafe, Labels, Serving, Ended
<1>19. QED
  BY <1>3, <1>4, <1>5, <1>6, <1>7, <1>8, <1>9, <1>10, <1>11, <1>12, <1>13, <1>14,
     <1>15, <1>16, <1>17, <1>18 DEF ServerStep

(* So does every step of a client, and the arrival of a signal. *)
LEMMA EnvironmentIInv == IInv /\ Environment => IInv'
<1> SUFFICES ASSUME IInv, Environment PROVE IInv'  OBVIOUS
<1>0. TypeOK /\ MemorySafe /\ Sound /\ Fresh  BY DEF IInv
<1>1. UNCHANGED listVars
  BY DEF Environment, Sigterm, ClientConnect, ClientSend, ClientLeave
<1>2. ListTypes' /\ Sound'  BY <1>1, ListUntouched
<1>3. CASE Sigterm
  <2>1. TypeOK'
    BY <1>0, <1>2, <1>3 DEF Sigterm, TypeOK, ListTypes, netVars, Labels
  <2>2. MemorySafe' /\ Fresh'
    BY <1>0, <1>1, <1>3 DEF Sigterm, MemorySafe, Fresh, netVars, listVars, Serving
  <2>3. QED  BY <1>2, <2>1, <2>2 DEF IInv
<1>4. ASSUME NEW s \in Sessions, ClientConnect(s) PROVE IInv'
  <2>1. TypeOK'
    BY <1>0, <1>2, <1>4 DEF ClientConnect, TypeOK, ListTypes
  <2>2. MemorySafe' /\ Fresh'
    BY <1>0, <1>1, <1>4 DEF ClientConnect, TypeOK, MemorySafe, Fresh, listVars
  <2>3. QED  BY <1>2, <2>1, <2>2 DEF IInv
<1>5. ASSUME NEW s \in Sessions, ClientSend(s) PROVE IInv'
  <2>1. TypeOK'
    BY <1>0, <1>2, <1>5 DEF ClientSend, TypeOK, ListTypes
  <2>2. MemorySafe' /\ Fresh'
    BY <1>0, <1>1, <1>5 DEF ClientSend, MemorySafe, Fresh, listVars
  <2>3. QED  BY <1>2, <2>1, <2>2 DEF IInv
<1>6. ASSUME NEW s \in Sessions, ClientLeave(s) PROVE IInv'
  <2>1. TypeOK'
    BY <1>0, <1>2, <1>6 DEF ClientLeave, TypeOK, ListTypes
  <2>2. MemorySafe' /\ Fresh'
    BY <1>0, <1>1, <1>6 DEF ClientLeave, TypeOK, MemorySafe, Fresh, listVars
  <2>3. QED  BY <1>2, <2>1, <2>2 DEF IInv
<1>7. QED  BY <1>3, <1>4, <1>5, <1>6 DEF Environment

\* A step that changes nothing keeps it.
LEMMA StutterIInv == IInv /\ UNCHANGED vars => IInv'
BY ListUntouched
   DEF IInv, vars, listVars, netVars, TypeOK, MemorySafe, Fresh, ListTypes, Pointer

\* The invariant holds whatever clients connect, close, reset or stay silent.
THEOREM Invariance == Spec => []IInv
<1>1. Init => IInv  BY InitIInv
<1>2. IInv /\ [Next]_vars => IInv'
  BY ServerStepIInv, EnvironmentIInv, StutterIInv DEF Next, Exited
<1>3. QED  BY <1>1, <1>2, PTL DEF Spec

-----------------------------------------------------------------------------
(* Every variable keeps its type, whatever clients and signals do. *)
THEOREM TypeCorrect == Spec => []TypeOK
BY Invariance, PTL DEF IInv

(* The server never follows a pointer to a freed session: run_server may   *)
(* disconnect any session it serves, in any order and any number in one    *)
(* pass, and go on from the predecessor it saved.                          *)
THEOREM NoUseAfterFree == Spec => []MemorySafe
BY Invariance, PTL DEF IInv

(* Links agree in both directions and lead from newer to older sessions,   *)
(* so a pass is never led round in a circle by the unlinking in            *)
(* server_disconnect_session.                                              *)
THEOREM ListIntegrity == Spec => [](DoublyLinked /\ NewestFirst)
BY Invariance, PTL DEF IInv, Sound

(* In every chain of links, the list and the part lost behind a departed  *)
(* head alike, a newer session stands before an older one: a pass that      *)
(* starts at the head ends.                                                 *)
THEOREM OrderedList == Spec => []NewestFirst
BY ListIntegrity, PTL

(* num_sessions counts the open connections, lost ones included: every     *)
(* accept is matched by at most one disconnect.                            *)
THEOREM CountCorrect == Spec => []CountIsOpenSessions
BY Invariance, PTL DEF IInv, Sound

-----------------------------------------------------------------------------
(* The refinement.  Ids fall along the links, so the links from the head     *)
(* spell out a finite list without repetition (Follows), and the cursor is   *)
(* on it (Pass).  What linking and unlinking do to that list is what the     *)
(* abstract machine does to its own.                                         *)

\* L is the list that starts at the head and follows the links to their end.
Follows(L) ==
    /\ L \in Seq(alloc)
    /\ head = IF L = <<>> THEN NULL ELSE L[1]
    /\ \A i \in 1..Len(L) : next[L[i]] = IF i = Len(L) THEN NULL ELSE L[i + 1]

\* Every index of a sequence is a natural number, and what is at it an element.
LEMMA Element ==
    ASSUME NEW S, NEW L \in Seq(S), NEW i \in 1..Len(L)
    PROVE  L[i] \in S /\ i \in Nat /\ Len(L) \in Nat
OBVIOUS

(* Ids fall along the list, so no session is on it twice.                    *)
LEMMA Falling ==
    ASSUME TypeOK, Sound, NEW L, Follows(L),
           NEW i \in 1..Len(L), NEW j \in i + 1 .. Len(L)
    PROVE  id[L[j]] < id[L[i]]
<1> DEFINE n == Len(L)
           S == {k \in i + 1 .. n : id[L[k]] < id[L[i]]}
<1>1. L \in Seq(alloc) /\ n \in Nat /\ i \in Nat /\ i + 1 \in Int  BY DEF Follows
<1>2. ASSUME NEW k \in 1..n, k < n
      PROVE  /\ L[k] \in alloc /\ L[k + 1] \in alloc
             /\ id[L[k + 1]] < id[L[k]]
             /\ id[L[k + 1]] \in Nat /\ id[L[k]] \in Nat
  <2>1. k # n /\ k + 1 \in 1..n  BY <1>1, <1>2
  <2>2. L[k] \in alloc /\ L[k + 1] \in alloc  BY <1>1, <2>1
  <2>3. next[L[k]] = L[k + 1]  BY <2>1 DEF Follows
  <2>4. L[k + 1] # NULL  BY <2>2, SessionsAssumption DEF TypeOK
  <2>5. id[L[k + 1]] < id[L[k]]  BY <2>2, <2>3, <2>4 DEF Sound, NewestFirst
  <2>6. QED  BY <2>2, <2>5 DEF TypeOK
<1>3. i + 1 \in S
  <2>1. i < n /\ i + 1 \in i + 1 .. n  BY <1>1
  <2>2. QED  BY <1>2, <2>1
<1>4. ASSUME NEW k \in i + 1 + 1 .. n, k - 1 \in S PROVE k \in S
  <2>1. k - 1 \in 1..n /\ k - 1 < n /\ k \in i + 1 .. n /\ k - 1 + 1 = k /\ i \in 1..n /\ i < n
    BY <1>1
  <2>2. id[L[k]] < id[L[k - 1]] /\ id[L[k]] \in Nat /\ id[L[k - 1]] \in Nat /\ id[L[i]] \in Nat
    BY <1>2, <2>1
  <2>3. id[L[k - 1]] < id[L[i]]  BY <1>4
  <2>4. id[L[k]] < id[L[i]]  BY <2>2, <2>3
  <2>5. QED  BY <2>1, <2>4
<1> HIDE DEF S
<1>5. \A k \in i + 1 .. n : k \in S
  <2>1. i + 1 \in Int /\ n \in Int  BY <1>1
  <2> HIDE DEF n
  <2>2. \A k \in i + 1 + 1 .. n : k - 1 \in S => k \in S  BY <1>4
  <2>3. QED  BY <1>3, <2>1, <2>2, IntervalInduction, Zenon
<1>6. QED  BY <1>5 DEF S

\* No session is twice in the list that the pointers make.
LEMMA Distinct ==
    ASSUME TypeOK, Sound, NEW L, Follows(L),
           NEW i \in 1..Len(L), NEW j \in 1..Len(L), L[i] = L[j]
    PROVE  i = j
<1>1. Len(L) \in Nat /\ L[i] \in alloc  BY DEF Follows
<1>2. id[L[i]] \in Nat  BY <1>1 DEF TypeOK
<1>3. ASSUME i < j PROVE FALSE
  <2>1. j \in i + 1 .. Len(L)  BY <1>1, <1>3
  <2>2. QED  BY <1>2, <2>1, Falling
<1>4. ASSUME j < i PROVE FALSE
  <2>1. i \in j + 1 .. Len(L)  BY <1>1, <1>4
  <2>2. QED  BY <1>2, <2>1, Falling
<1>5. QED  BY <1>1, <1>3, <1>4

(* So the list is no longer than there are sessions.                         *)
LEMMA Short ==
    ASSUME TypeOK, Sound, NEW L, Follows(L)
    PROVE  Len(L) \in Nat /\ N \in Nat /\ Len(L) <= N
<1>1. L \in [1..Len(L) -> Sessions] /\ Len(L) \in Nat
  BY DEF Follows, TypeOK
<1>2. L \in Injection(1..Len(L), Sessions)
  BY <1>1, Distinct DEF Injection, IsInjective
<1>3. Cardinality(1..Len(L)) <= N  BY <1>2, FS_Injection, SessionsAssumption DEF N
<1>4. Cardinality(1..Len(L)) = Len(L)
  <2>1. 1 \in Int /\ Len(L) \in Int  BY <1>1
  <2>2. Cardinality(1..Len(L)) = IF 1 > Len(L) THEN 0 ELSE Len(L) - 1 + 1
    BY <2>1, FS_Interval
  <2>3. QED  BY <1>1, <2>2
<1>5. N \in Nat  BY SessionsAssumption, FS_CardinalityType DEF N
<1>6. QED  BY <1>1, <1>3, <1>4, <1>5

(* Chain steps through exactly this list.                                    *)
LEMMA ChainFact ==
    ASSUME TypeOK, Sound, NEW L, Follows(L)
    PROVE  \A i \in 0..N : Chain[i] = IF i < Len(L) THEN L[i + 1] ELSE NULL
<1> DEFINE at(i) == IF i < Len(L) THEN L[i + 1] ELSE NULL
           Eq(g) == g = [i \in 0..N |-> IF i = 0 THEN head
                                        ELSE IF g[i - 1] = NULL THEN NULL
                                        ELSE next[g[i - 1]]]
           G == [i \in 0..N |-> at(i)]
           S == {i \in 0..N : Chain[i] = at(i)}
<1>0. Len(L) \in Nat /\ N \in Nat /\ L \in Seq(alloc)  BY Short DEF Follows
<1>1. ASSUME NEW i \in 1..N
      PROVE  at(i) = IF at(i - 1) = NULL THEN NULL ELSE next[at(i - 1)]
  <2>1. i \in Nat /\ i - 1 \in Nat /\ i - 1 + 1 = i  BY <1>0
  <2>2. CASE i - 1 < Len(L)
    <3>1. i \in 1..Len(L) /\ at(i - 1) = L[i]  BY <1>0, <2>1, <2>2
    <3>2. L[i] # NULL  BY <1>0, <3>1, SessionsAssumption DEF TypeOK
    <3>3. next[L[i]] = IF i = Len(L) THEN NULL ELSE L[i + 1]  BY <3>1 DEF Follows
    <3>4. i = Len(L) \/ i < Len(L)  BY <1>0, <3>1
    <3>5. QED  BY <1>0, <3>1, <3>2, <3>3, <3>4
  <2>3. CASE ~(i - 1 < Len(L))
    BY <1>0, <2>1, <2>3
  <2>4. QED  BY <2>2, <2>3
<1>2. at(0) = head
  <2>1. CASE L = <<>>  BY <2>1 DEF Follows
  <2>2. CASE L # <<>>  BY <1>0, <2>2 DEF Follows
  <2>3. QED  BY <2>1, <2>2
<1> HIDE DEF at
<1>3. Eq(G)
  <2>1. ASSUME NEW i \in 0..N
        PROVE  G[i] = IF i = 0 THEN head
                      ELSE IF G[i - 1] = NULL THEN NULL ELSE next[G[i - 1]]
    <3>1. CASE i = 0  BY <1>2, <3>1
    <3>2. CASE i # 0
      <4>1. i \in 1..N /\ i - 1 \in 0..N  BY <1>0, <3>2
      <4>2. QED  BY <1>1, <3>2, <4>1
    <3>3. QED  BY <3>1, <3>2
  <2>2. QED  BY <2>1
<1>4. Eq(Chain)
  <2>1. Chain = CHOOSE g : Eq(g)  BY DEF Chain
  <2> HIDE DEF Eq
  <2>2. QED  BY <1>3, <2>1
<1>5. 0 \in S
  <2>1. 0 \in 0..N  BY <1>0
  <2>2. Chain[0] = head  BY <1>4, <2>1
  <2>3. QED  BY <1>2, <2>1, <2>2
<1>6. ASSUME NEW i \in 0 + 1 .. N, i - 1 \in S PROVE i \in S
  <2>1. i \in 1..N /\ i \in 0..N /\ i # 0  BY <1>0
  <2>2. Chain[i] = IF Chain[i - 1] = NULL THEN NULL ELSE next[Chain[i - 1]]
    BY <1>4, <2>1
  <2>3. QED  BY <1>1, <1>6, <2>1, <2>2
<1> HIDE DEF S
<1>7. \A i \in 0..N : i \in S
  <2>1. 0 \in Int /\ N \in Int  BY <1>0
  <2>2. \A i \in 0 + 1 .. N : i - 1 \in S => i \in S  BY <1>6
  <2>3. QED  BY <1>5, <2>1, <2>2, IntervalInduction, Zenon
<1>8. QED  BY <1>7 DEF S, at

(* What the refinement mapping reads off the links.                          *)
LEMMA ListFact ==
    ASSUME TypeOK, Sound, NEW L, Follows(L)
    PROVE  /\ Listed = {L[i] : i \in 1..Len(L)}
           /\ ListLength = Len(L)
           /\ LinkedList = L
<1>1. /\ Len(L) \in Nat /\ N \in Nat /\ Len(L) <= N /\ L \in Seq(alloc)
      /\ \A i \in 1..Len(L) : L[i] # NULL
  <2>1. L \in Seq(alloc) /\ alloc \subseteq Sessions  BY DEF Follows, TypeOK
  <2>2. \A i \in 1..Len(L) : L[i] # NULL  BY <2>1, SessionsAssumption
  <2>3. QED  BY <2>1, <2>2, Short
<1>2. ASSUME NEW i \in 0..N
      PROVE  /\ Chain[i] # NULL <=> i \in 0..Len(L) - 1
             /\ Chain[i] # NULL => i + 1 \in 1..Len(L) /\ Chain[i] = L[i + 1]
  <2>1. Chain[i] = IF i < Len(L) THEN L[i + 1] ELSE NULL  BY ChainFact
  <2>2. CASE i < Len(L)
    <3>1. i + 1 \in 1..Len(L) /\ i \in 0..Len(L) - 1  BY <1>1, <2>2
    <3>2. QED  BY <1>1, <2>1, <2>2, <3>1
  <2>3. CASE ~(i < Len(L))
    <3>1. i \notin 0..Len(L) - 1  BY <1>1, <2>3
    <3>2. QED  BY <2>1, <2>3, <3>1
  <2>4. QED  BY <2>2, <2>3
<1>3. ASSUME NEW i \in 1..Len(L)
      PROVE  i - 1 \in 0..N /\ i - 1 \in 0..Len(L) - 1 /\ Chain[i - 1] = L[i]
  <2>1. i - 1 \in 0..N /\ i - 1 \in 0..Len(L) - 1 /\ i - 1 + 1 = i  BY <1>1
  <2>2. QED  BY <1>2, <2>1
<1>4. Listed = {L[i] : i \in 1..Len(L)}
  <2>1. ASSUME NEW x \in Listed PROVE x \in {L[i] : i \in 1..Len(L)}
    <3>1. PICK i \in 0..N : x = Chain[i] /\ x # NULL  BY <2>1 DEF Listed
    <3>2. QED  BY <1>2, <3>1
  <2>2. ASSUME NEW i \in 1..Len(L) PROVE L[i] \in Listed
    BY <1>1, <1>3, <2>2 DEF Listed
  <2>3. QED  BY <2>1, <2>2
<1>5. ListLength = Len(L)
  <2>1. {i \in 0..N : Chain[i] # NULL} = 0..Len(L) - 1
    <3>1. 0..Len(L) - 1 \subseteq 0..N  BY <1>1
    <3>2. QED  BY <1>2, <3>1
  <2>2. 0 \in Int /\ Len(L) - 1 \in Int  BY <1>1
  <2>3. Cardinality(0..Len(L) - 1) = IF 0 > Len(L) - 1 THEN 0 ELSE Len(L) - 1 - 0 + 1
    BY <2>2, FS_Interval
  <2>4. \A n \in Nat : (IF 0 > n - 1 THEN 0 ELSE n - 1 - 0 + 1) = n  OBVIOUS
  <2>5. Cardinality(0..Len(L) - 1) = Len(L)  BY <1>1, <2>3, <2>4, Zenon
  <2>6. QED  BY <2>1, <2>5 DEF ListLength
<1>6. LinkedList = L
  <2>1. LinkedList = [i \in 1..Len(L) |-> L[i]]  BY <1>3, <1>5 DEF LinkedList
  <2>2. QED  BY <1>1, <2>1
<1>7. QED  BY <1>4, <1>5, <1>6

(* The pass has got to the p-th session of the list L, and a new session is  *)
(* only accepted between two passes.                                         *)
Pass(L, p) ==
    /\ Follows(L)
    /\ p \in 0..Len(L)
    /\ cursor = IF p = 0 THEN NULL ELSE L[p]
    /\ pc \in {"select", "accept"} => p = 0

(* What the abstract list is then.                                           *)
LEMMA PassFact ==
    ASSUME TypeOK, Sound, NEW L, NEW p, Pass(L, p)
    PROVE  /\ LinkedList = L
           /\ Position = p
           /\ Orphans = alloc \ {L[i] : i \in 1..Len(L)}
<1>1. /\ Follows(L) /\ L \in Seq(alloc) /\ Len(L) \in Nat /\ p \in 0..Len(L)
      /\ cursor = IF p = 0 THEN NULL ELSE L[p]
  BY DEF Pass, Follows
<1>2. /\ LinkedList = L /\ ListLength = Len(L)
      /\ Listed = {L[i] : i \in 1..Len(L)}
  BY <1>1, ListFact
<1>3. Position = p
  <2>1. CASE p = 0
    <3>1. NULL \notin Listed  BY DEF Listed
    <3>2. QED  BY <1>1, <2>1, <3>1 DEF Position
  <2>2. CASE p # 0
    <3>1. p \in 1..Len(L) /\ cursor = L[p]  BY <1>1, <2>2
    <3>2. cursor \in Listed  BY <1>2, <3>1
    <3>3. \A i \in 1..ListLength : LinkedList[i] = cursor => i = p
      BY <1>1, <1>2, <3>1, Distinct
    <3>4. p \in 1..ListLength /\ LinkedList[p] = cursor  BY <1>2, <3>1
    <3>5. (CHOOSE i \in 1..ListLength : LinkedList[i] = cursor) = p  BY <3>3, <3>4
    <3>6. QED  BY <3>2, <3>5 DEF Position
  <2>3. QED  BY <2>1, <2>2
<1>4. QED  BY <1>2, <1>3 DEF Orphans

(* Accepting a connection puts its session in front of the list.             *)
LEMMA LinkFollows ==
    ASSUME TypeOK, Sound, NEW L, Follows(L),
           NEW s \in Sessions, s \notin alloc, Create(s), Link(s),
           NEW M, M = <<s>> \o L
    PROVE  /\ Follows(M)'
           /\ {M[i] : i \in 1..Len(M)} = {L[i] : i \in 1..Len(L)} \cup {s}
<1>1. /\ L \in Seq(alloc) /\ Len(L) \in Nat
      /\ alloc' = alloc \cup {s} /\ alloc \subseteq Sessions
      /\ next' = [next EXCEPT ![s] = head] /\ head' = s
      /\ next \in [Sessions -> Pointer]
      /\ s # NULL
  BY SessionsAssumption DEF Follows, Create, Link, TypeOK
<1>2. <<s>> \in Seq(alloc') /\ L \in Seq(alloc') /\ Len(<<s>>) = 1  BY <1>1
<1>3. /\ M \in Seq(alloc') /\ Len(M) = Len(L) + 1
      /\ \A i \in 1..Len(L) + 1 : M[i] = IF i = 1 THEN s ELSE L[i - 1]
  <2>1. /\ M \in Seq(alloc') /\ Len(M) = 1 + Len(L)
        /\ \A i \in 1..1 + Len(L) : M[i] = IF i <= 1 THEN <<s>>[i] ELSE L[i - 1]
    BY <1>2, ConcatProperties
  <2>2. QED  BY <1>1, <2>1
<1>4. M # <<>> /\ M[1] = s  BY <1>1, <1>3
<1>5. ASSUME NEW i \in 1..Len(M)
      PROVE  next'[M[i]] = IF i = Len(M) THEN NULL ELSE M[i + 1]
  <2>1. CASE i = 1
    <3>1. M[i] = s /\ next'[s] = head  BY <1>1, <1>4, <2>1
    <3>2. CASE L = <<>>
      <4>1. Len(M) = 1 /\ head = NULL  BY <1>3, <3>2 DEF Follows
      <4>2. QED  BY <2>1, <3>1, <4>1
    <3>3. CASE L # <<>>
      <4>1. Len(L) > 0 /\ head = L[1]  BY <1>1, <3>3 DEF Follows
      <4>2. Len(M) # 1 /\ M[2] = L[1]  BY <1>1, <1>3, <4>1
      <4>3. QED  BY <2>1, <3>1, <4>1, <4>2
    <3>4. QED  BY <3>2, <3>3
  <2>2. CASE i # 1
    <3>1. /\ i - 1 \in 1..Len(L) /\ M[i] = L[i - 1]
          /\ i - 1 + 1 = i /\ i + 1 - 1 = i
          /\ i - 1 = Len(L) <=> i = Len(M)
      BY <1>1, <1>3, <2>2
    <3>2. L[i - 1] \in alloc  BY <1>1, <3>1
    <3>3. next'[M[i]] = next[L[i - 1]]  BY <1>1, <3>1, <3>2
    <3>4. next[L[i - 1]] = IF i - 1 = Len(L) THEN NULL ELSE L[i]
      BY <3>1 DEF Follows
    <3>5. i # Len(M) => M[i + 1] = L[i]  BY <1>1, <1>3, <3>1
    <3>6. QED  BY <3>1, <3>3, <3>4, <3>5
  <2>3. QED  BY <2>1, <2>2
<1>6. Follows(M)'  BY <1>1, <1>3, <1>4, <1>5 DEF Follows
<1>7. {M[i] : i \in 1..Len(M)} = {L[i] : i \in 1..Len(L)} \cup {s}
  <2>1. ASSUME NEW i \in 1..Len(M) PROVE M[i] = s \/ \E j \in 1..Len(L) : M[i] = L[j]
    <3>1. i # 1 => i - 1 \in 1..Len(L)  BY <1>1, <1>3
    <3>2. QED  BY <1>3, <3>1
  <2>2. ASSUME NEW j \in 1..Len(L) PROVE \E i \in 1..Len(M) : M[i] = L[j]
    <3>1. /\ j + 1 \in 1..Len(M) /\ j + 1 \in 1..Len(L) + 1
          /\ j + 1 # 1 /\ j + 1 - 1 = j
      BY <1>1, <1>3
    <3>2. M[j + 1] = L[j]  BY <1>3, <3>1
    <3>3. QED  BY <3>1, <3>2
  <2>3. 1 \in 1..Len(M)  BY <1>1, <1>3
  <2>4. QED  BY <1>4, <2>1, <2>2, <2>3
<1>8. QED  BY <1>6, <1>7

(* Disconnecting the first session empties the list.                         *)
LEMMA HeadDeparts ==
    ASSUME TypeOK, Sound, NEW L, Follows(L), L # <<>>, Disconnect(L[1])
    PROVE  Follows(<<>>)' /\ prev[L[1]] = NULL
<1>1. L[1] = head /\ head # NULL
  <2>1. L[1] \in alloc  BY DEF Follows
  <2>2. QED  BY <2>1, SessionsAssumption DEF Follows, TypeOK
<1>2. head' = NULL  BY <1>1 DEF Disconnect
<1>3. Follows(<<>>)'  BY <1>2 DEF Follows
<1>4. QED  BY <1>1, <1>3 DEF Sound, DoublyLinked

(* Disconnecting any other one takes just that one out of it.                *)
LEMMA OtherDeparts ==
    ASSUME TypeOK, Sound, NEW L, Follows(L), NEW p \in 2..Len(L), Disconnect(L[p])
    PROVE  /\ Follows(List!RemoveAt(L, p))'
           /\ Len(List!RemoveAt(L, p)) = Len(L) - 1
           /\ List!RemoveAt(L, p)[p - 1] = L[p - 1]
           /\ prev[L[p]] = L[p - 1]
           /\ {List!RemoveAt(L, p)[i] : i \in 1..Len(List!RemoveAt(L, p))}
                 = {L[i] : i \in 1..Len(L)} \ {L[p]}
<1> DEFINE n == Len(L)
           s == L[p]
           M == List!RemoveAt(L, p)
<1>1. /\ L \in Seq(alloc) /\ n \in Nat /\ p \in Nat /\ p - 1 \in 1..n /\ p \in 1..n
      /\ alloc \subseteq Sessions /\ next \in [Sessions -> Pointer]
      /\ s \in alloc /\ s # NULL
      /\ \A i \in 1..n : L[i] \in alloc /\ L[i] # NULL
  <2>1. L \in Seq(alloc) /\ alloc \subseteq Sessions /\ next \in [Sessions -> Pointer]
    BY DEF Follows, TypeOK
  <2>2. n \in Nat /\ p \in Nat /\ p - 1 \in 1..n /\ p \in 1..n  BY <2>1
  <2>3. \A i \in 1..n : L[i] \in alloc /\ L[i] # NULL  BY <2>1, SessionsAssumption
  <2>4. QED  BY <2>1, <2>2, <2>3
<1>2. \A i, j \in 1..n : L[i] = L[j] => i = j  BY Distinct
<1>3. /\ M \in Seq(alloc) /\ Len(M) = n - 1
      /\ \A i \in 1..n - 1 : M[i] = IF i < p THEN L[i] ELSE L[i + 1]
  <2> DEFINE A == SubSeq(L, 1, p - 1)
             B == SubSeq(L, p + 1, n)
  <2>1. M = A \o B  BY DEF List!RemoveAt
  <2>2. /\ A \in Seq(alloc) /\ Len(A) = p - 1
        /\ \A i \in 1..p - 1 : A[i] = L[i]
    <3>1. 1 \in Int /\ p - 1 \in Int /\ 1 <= p - 1 /\ p - 1 - 1 + 1 = p - 1
      BY <1>1
    <3>2. \A i \in 1..p - 1 : L[i] \in alloc  BY <1>1
    <3>3. /\ A \in Seq(alloc)
          /\ Len(A) = IF 1 <= p - 1 THEN p - 1 - 1 + 1 ELSE 0
          /\ \A i \in 1..p - 1 - 1 + 1 : A[i] = L[1 + i - 1]
      BY <3>1, <3>2, SubSeqProperties
    <3> HIDE DEF A
    <3>4. QED  BY <1>1, <3>1, <3>3
  <2>3. /\ B \in Seq(alloc) /\ Len(B) = n - p
        /\ \A i \in 1..n - p : B[i] = L[p + i]
    <3>1. p + 1 \in Int /\ n \in Int  BY <1>1
    <3>2. \A i \in p + 1 .. n : L[i] \in alloc  BY <1>1
    <3>3. /\ B \in Seq(alloc)
          /\ Len(B) = IF p + 1 <= n THEN n - (p + 1) + 1 ELSE 0
          /\ \A i \in 1..n - (p + 1) + 1 : B[i] = L[p + 1 + i - 1]
      BY <3>1, <3>2, SubSeqProperties
    <3> HIDE DEF B, s, n, M
    <3>4. n - (p + 1) + 1 = n - p /\ (~(p + 1 <= n) => n - p = 0)  BY <1>1
    <3>5. \A i \in 1..n - p : p + 1 + i - 1 = p + i  BY <1>1
    <3>6. QED  BY <3>3, <3>4, <3>5
  <2> HIDE DEF A, B, M
  <2>4. /\ M \in Seq(alloc) /\ Len(M) = Len(A) + Len(B)
        /\ \A i \in 1..Len(A) + Len(B) : M[i] = IF i <= Len(A) THEN A[i] ELSE B[i - Len(A)]
    BY <2>1, <2>2, <2>3, ConcatProperties
  <2>5. Len(A) + Len(B) = n - 1  BY <1>1, <2>2, <2>3
  <2>6. ASSUME NEW i \in 1..n - 1 PROVE M[i] = IF i < p THEN L[i] ELSE L[i + 1]
    <3>1. M[i] = IF i <= p - 1 THEN A[i] ELSE B[i - (p - 1)]  BY <2>2, <2>4, <2>5
    <3>2. CASE i < p
      <4>1. i <= p - 1 /\ i \in 1..p - 1  BY <1>1, <3>2
      <4>2. QED  BY <2>2, <3>1, <3>2, <4>1
    <3>3. CASE ~(i < p)
      <4>1. ~(i <= p - 1) /\ i - (p - 1) \in 1..n - p /\ p + (i - (p - 1)) = i + 1
        BY <1>1, <3>3
      <4>2. QED  BY <2>3, <3>1, <3>3, <4>1
    <3>4. QED  BY <3>2, <3>3
  <2>7. QED  BY <2>4, <2>5, <2>6
<1> HIDE DEF M
<1>4. \A i \in 1..n - 1 : /\ M[i] = IF i < p THEN L[i] ELSE L[i + 1]
                          /\ M[i] \in alloc \ {s}
  <2>1. ASSUME NEW i \in 1..n - 1 PROVE M[i] \in alloc \ {s}
    <3>1. i \in 1..n /\ i + 1 \in 1..n /\ (i < p => i # p) /\ (~(i < p) => i + 1 # p)
      BY <1>1
    <3>2. QED  BY <1>1, <1>2, <1>3, <3>1
  <2>2. QED  BY <1>3, <2>1
<1>5. M \in Seq(alloc')
  <2>1. alloc' = alloc \ {s}  BY DEF Disconnect
  <2>2. QED  BY <1>1, <1>3, <1>4, <2>1
<1>6. prev[s] = L[p - 1]
  <2>1. p - 1 # n /\ p - 1 + 1 = p  BY <1>1
  <2>2. next[L[p - 1]] = s  BY <1>1, <2>1 DEF Follows
  <2>3. L[p - 1] \in alloc  BY <1>1
  <2>4. QED  BY <1>1, <2>2, <2>3 DEF Sound, DoublyLinked
<1>7. next[s] = IF p = n THEN NULL ELSE L[p + 1]  BY <1>1 DEF Follows
<1>8. ASSUME NEW i \in 1..n - 1
      PROVE  next'[M[i]] = IF i = n - 1 THEN NULL ELSE M[i + 1]
  <2>1. M[i] \in Sessions /\ M[i] # s  BY <1>1, <1>4
  <2>2. next'[M[i]] = IF M[i] = L[p - 1] THEN next[s] ELSE next[M[i]]
    BY <1>6, <2>1 DEF Disconnect
  <2>3. i \in 1..n /\ i + 1 \in 1..n /\ i \in Nat  BY <1>1
  <2>4. CASE i < p - 1
    <3>1. /\ M[i] = L[i] /\ i # p - 1 /\ i # n /\ i # n - 1
          /\ i + 1 \in 1..n - 1 /\ i + 1 < p
      BY <1>1, <1>4, <2>4
    <3>2. next'[M[i]] = next[L[i]]  BY <1>1, <1>2, <2>2, <2>3, <3>1
    <3>3. QED  BY <1>4, <2>3, <3>1, <3>2 DEF Follows
  <2>5. CASE i = p - 1
    <3>1. /\ M[i] = L[p - 1] /\ i < p /\ (i = n - 1 <=> p = n)
          /\ i # n - 1 => i + 1 \in 1..n - 1 /\ ~(i + 1 < p) /\ i + 1 + 1 = p + 1
      BY <1>1, <1>4, <2>5
    <3>2. next'[M[i]] = next[s]  BY <2>2, <3>1
    <3>3. i # n - 1 => M[i + 1] = L[p + 1]  BY <1>4, <3>1
    <3>4. QED  BY <1>7, <3>1, <3>2, <3>3
  <2>6. CASE i > p - 1
    <3>1. /\ M[i] = L[i + 1] /\ i + 1 # p - 1 /\ (i + 1 = n <=> i = n - 1)
          /\ i # n - 1 => i + 1 \in 1..n - 1 /\ ~(i + 1 < p)
      BY <1>1, <1>4, <2>3, <2>6
    <3>2. next'[M[i]] = next[L[i + 1]]  BY <1>1, <1>2, <2>2, <2>3, <3>1
    <3>3. next[L[i + 1]] = IF i + 1 = n THEN NULL ELSE L[i + 1 + 1]
      BY <2>3 DEF Follows
    <3>4. i # n - 1 => M[i + 1] = L[i + 1 + 1]  BY <1>4, <3>1
    <3>5. QED  BY <3>1, <3>2, <3>3, <3>4
  <2>7. QED  BY <1>1, <2>3, <2>4, <2>5, <2>6
<1>9. M # <<>> /\ head' = M[1]
  <2>1. 1 \in 1..n - 1 /\ 1 < p /\ 1 \in 1..n /\ 1 # p  BY <1>1
  <2>2. M # <<>> /\ M[1] = L[1]  BY <1>3, <1>4, <2>1
  <2>3. head = L[1] /\ head # s  BY <1>1, <1>2, <2>1 DEF Follows
  <2>4. QED  BY <2>2, <2>3 DEF Disconnect
<1>10. Follows(M)'  BY <1>3, <1>5, <1>8, <1>9 DEF Follows
<1>11. M[p - 1] = L[p - 1]
  <2>1. p - 1 \in 1..n - 1 /\ p - 1 < p  BY <1>1
  <2>2. QED  BY <1>4, <2>1
<1>12. {M[i] : i \in 1..Len(M)} = {L[i] : i \in 1..n} \ {s}
  <2>1. ASSUME NEW i \in 1..Len(M) PROVE M[i] \in {L[j] : j \in 1..n} \ {s}
    <3>1. i \in 1..n - 1 /\ i \in 1..n /\ i + 1 \in 1..n  BY <1>1, <1>3
    <3>2. QED  BY <1>4, <3>1
  <2>2. ASSUME NEW j \in 1..n, L[j] # s PROVE \E i \in 1..Len(M) : M[i] = L[j]
    <3>1. CASE j < p
      <4>1. j \in 1..n - 1  BY <1>1, <3>1
      <4>2. QED  BY <1>3, <1>4, <3>1, <4>1
    <3>2. CASE j > p
      <4>1. j - 1 \in 1..n - 1 /\ ~(j - 1 < p) /\ j - 1 + 1 = j  BY <1>1, <3>2
      <4>2. QED  BY <1>3, <1>4, <4>1
    <3>3. j # p  BY <2>2
    <3>4. QED  BY <1>1, <3>1, <3>2, <3>3
  <2>3. QED  BY <2>1, <2>2
<1>13. QED  BY <1>3, <1>6, <1>10, <1>11, <1>12 DEF M

(* Where the iterator leads: to the next session of the list, or to its end. *)
LEMMA AdvanceFact ==
    ASSUME TypeOK, Sound, NEW L, NEW p, Pass(L, p)
    PROVE  /\ Advance(cursor) = IF p = Len(L) THEN NULL ELSE L[p + 1]
           /\ p # Len(L) => p + 1 \in 1..Len(L) /\ L[p + 1] # NULL
<1>1. /\ L \in Seq(alloc) /\ Len(L) \in Nat /\ p \in Nat /\ p <= Len(L)
      /\ alloc \subseteq Sessions
  BY DEF Pass, Follows, TypeOK
<1>2. \A i \in 1..Len(L) : L[i] # NULL  BY <1>1, SessionsAssumption
<1>3. p # Len(L) => p + 1 \in 1..Len(L)  BY <1>1
<1>4. CASE p = 0
  <2>1. Advance(cursor) = head  BY <1>4 DEF Pass, Advance
  <2>2. CASE L = <<>>  BY <1>4, <2>1, <2>2 DEF Pass, Follows
  <2>3. CASE L # <<>>
    <3>1. Len(L) # 0 /\ p + 1 = 1  BY <1>1, <1>4, <2>3
    <3>2. head = L[1]  BY <2>3 DEF Pass, Follows
    <3>3. QED  BY <1>2, <1>3, <1>4, <2>1, <3>1, <3>2
  <2>4. QED  BY <2>2, <2>3
<1>5. CASE p # 0
  <2>1. p \in 1..Len(L) /\ cursor = L[p]  BY <1>1, <1>5 DEF Pass
  <2>2. Advance(cursor) = next[L[p]]  BY <1>2, <2>1 DEF Advance
  <2>3. next[L[p]] = IF p = Len(L) THEN NULL ELSE L[p + 1]  BY <2>1 DEF Pass, Follows
  <2>4. QED  BY <1>2, <1>3, <2>2, <2>3
<1>6. QED  BY <1>4, <1>5

\* The abstract state that L and p stand for.
Mapped(L, p) ==
    /\ LinkedList = L
    /\ Position = p
    /\ Orphans = alloc \ {L[i] : i \in 1..Len(L)}

\* The walked list is what the refinement mapping says it is.
LEMMA Mapping == TypeOK /\ Sound => \A L, p : Pass(L, p) => Mapped(L, p)
BY PassFact DEF Mapped

(* The same session is departed by both machines, and the pass resumes       *)
(* after its predecessor.                                                    *)
LEMMA DepartStep ==
    ASSUME TypeOK, Sound, NEW L, NEW p, Pass(L, p), cursor # NULL,
           Disconnect(cursor), cursor' = prev[cursor], pc' \in {"next", "destroy"}
    PROVE  \E M, q : /\ Pass(M, q)'
                     /\ Mapped(L, p) /\ Mapped(M, q)' => List!Depart
<1>1. /\ Follows(L) /\ L \in Seq(alloc) /\ Len(L) \in Nat /\ p \in 0..Len(L)
      /\ cursor = IF p = 0 THEN NULL ELSE L[p]
  BY DEF Pass, Follows
<1>2. p # 0 /\ p \in 1..Len(L) /\ cursor = L[p]  BY <1>1
<1>3. alloc' = alloc \ {L[p]}  BY <1>2 DEF Disconnect
<1>4. CASE p = 1
  <2>1. L # <<>> /\ Disconnect(L[1])  BY <1>1, <1>2, <1>4
  <2>2. Follows(<<>>)' /\ cursor' = NULL  BY <1>1, <1>2, <1>4, <2>1, HeadDeparts
  <2>3. Pass(<<>>, 0)'  BY <2>2 DEF Pass
  <2>4. ASSUME Mapped(L, p), Mapped(<<>>, 0)' PROVE List!Depart
    <3>1. {<<>>[i] : i \in 1..Len(<<>>)} = {}  OBVIOUS
    <3>2. LinkedList' = <<>> /\ Position' = 0 /\ Orphans' = alloc'
      BY <2>4, <3>1 DEF Mapped
    <3>3. LinkedList = L /\ Position = 1 /\ Orphans = alloc \ {L[i] : i \in 1..Len(L)}
      BY <1>4, <2>4 DEF Mapped
    <3>4. {L[i] : i \in 1..Len(L)} = {L[1]} \cup List!ToSet(Tail(L))
      <4>1. /\ Len(Tail(L)) = Len(L) - 1 /\ Tail(L) \in Seq(alloc)
            /\ \A i \in 1..Len(Tail(L)) : Tail(L)[i] = L[i + 1]
        BY <1>1, <2>1, HeadTailProperties
      <4>2. DOMAIN Tail(L) = 1..Len(L) - 1  BY <4>1
      <4>3. ASSUME NEW i \in 1..Len(L) PROVE i = 1 \/ \E j \in 1..Len(L) - 1 : L[i] = Tail(L)[j]
        <5>1. i # 1 => i - 1 \in 1..Len(L) - 1 /\ i - 1 + 1 = i  BY <1>1
        <5>2. QED  BY <4>1, <5>1
      <4>4. ASSUME NEW j \in 1..Len(L) - 1 PROVE j + 1 \in 1..Len(L) /\ Tail(L)[j] = L[j + 1]
        BY <1>1, <4>1
      <4>5. 1 \in 1..Len(L)  BY <1>2, <1>4
      <4>6. List!ToSet(Tail(L)) = {Tail(L)[j] : j \in 1..Len(L) - 1}
        BY <4>2 DEF List!ToSet
      <4>7. {L[i] : i \in 1..Len(L)} = {L[1]} \cup {Tail(L)[j] : j \in 1..Len(L) - 1}
        BY <4>3, <4>4, <4>5
      <4>8. QED  BY <4>6, <4>7
    <3>5. \A i \in 1..Len(Tail(L)) : Tail(L)[i] \in alloc \ {L[1]}
      <4>1. /\ Len(Tail(L)) = Len(L) - 1
            /\ \A i \in 1..Len(Tail(L)) : Tail(L)[i] = L[i + 1]
        BY <1>1, <2>1, HeadTailProperties
      <4>2. ASSUME NEW i \in 1..Len(Tail(L)) PROVE Tail(L)[i] \in alloc \ {L[1]}
        <5>1. i + 1 \in 1..Len(L) /\ i + 1 # 1 /\ 1 \in 1..Len(L)  BY <1>1, <4>1
        <5>2. L[i + 1] # L[1]  BY <1>1, <5>1, Distinct
        <5>3. QED  BY <1>1, <4>1, <5>1, <5>2
      <4>3. QED  BY <4>2
    <3>6. List!ToSet(Tail(L)) \subseteq alloc \ {L[1]}
      <4>1. Tail(L) \in Seq(alloc)  BY <1>1, <2>1, HeadTailProperties
      <4>2. DOMAIN Tail(L) = 1..Len(Tail(L))  BY <4>1
      <4>3. QED  BY <3>5, <4>2 DEF List!ToSet
    <3>7. Orphans' = Orphans \cup List!ToSet(Tail(L))
      <4> HIDE DEF List!ToSet
      <4>1. QED  BY <1>3, <1>4, <3>2, <3>3, <3>4, <3>6
    <3>8. QED  BY <3>2, <3>3, <3>7 DEF List!Depart
  <2>5. QED  BY <2>3, <2>4
<1>5. CASE p # 1
  <2> DEFINE M == List!RemoveAt(L, p)
  <2>1. p \in 2..Len(L) /\ Disconnect(L[p])  BY <1>1, <1>2, <1>5
  <2>2. /\ Follows(M)' /\ Len(M) = Len(L) - 1 /\ M[p - 1] = L[p - 1] /\ prev[L[p]] = L[p - 1]
        /\ {M[i] : i \in 1..Len(M)} = {L[i] : i \in 1..Len(L)} \ {L[p]}
    BY <1>1, <2>1, OtherDeparts
  <2> HIDE DEF M
  <2>3. p - 1 # 0 /\ p - 1 \in 0..Len(M) /\ cursor' = M[p - 1]  BY <1>1, <1>2, <2>1, <2>2
  <2>4. Pass(M, p - 1)'  BY <2>2, <2>3 DEF Pass
  <2>5. ASSUME Mapped(L, p), Mapped(M, p - 1)' PROVE List!Depart
    <3>1. LinkedList = L /\ Position = p /\ LinkedList' = M /\ Position' = p - 1
      BY <2>5 DEF Mapped
    <3>2. Orphans' = Orphans  BY <1>2, <1>3, <2>2, <2>5 DEF Mapped
    <3>3. p > 1 /\ p > 0  BY <2>1
    <3>4. QED  BY <3>1, <3>2, <3>3 DEF List!Depart, M
  <2>6. QED  BY <2>4, <2>5
<1>6. QED  BY <1>4, <1>5

(* Every step of the server is a step of the abstract list, or none.         *)
LEMMA ListStep ==
    ASSUME IInv, NEW L, NEW p, Pass(L, p), [Next]_vars
    PROVE  \E M, q : /\ Pass(M, q)'
                     /\ Mapped(L, p) /\ Mapped(M, q)' => [List!Next]_List!vars
<1>0. TypeOK /\ Sound /\ MemorySafe /\ Fresh  BY DEF IInv
<1>1. /\ Follows(L) /\ L \in Seq(alloc) /\ Len(L) \in Nat /\ p \in 0..Len(L)
      /\ cursor = IF p = 0 THEN NULL ELSE L[p]
  BY DEF Pass, Follows
<1>2. ASSUME UNCHANGED <<listVars, cursor>>,
             pc' \in {"select", "accept"} => pc \in {"select", "accept"}
      PROVE  /\ Pass(L, p)'
             /\ Mapped(L, p) /\ Mapped(L, p)' => [List!Next]_List!vars
  <2>1. Pass(L, p)'  BY <1>2 DEF Pass, Follows, listVars
  <2>2. ASSUME Mapped(L, p), Mapped(L, p)' PROVE UNCHANGED List!vars
    BY <1>2, <2>2 DEF Mapped, List!vars, listVars
  <2>3. QED  BY <2>1, <2>2
<1>3. ASSUME Advance(cursor) # NULL, cursor' = Advance(cursor), UNCHANGED listVars,
             pc' \notin {"select", "accept"}
      PROVE  /\ Pass(L, p + 1)'
             /\ Mapped(L, p) /\ Mapped(L, p + 1)' => List!Serve
  <2>1. p # Len(L) /\ p + 1 \in 1..Len(L) /\ cursor' = L[p + 1]
    BY <1>0, <1>3, AdvanceFact
  <2>2. p + 1 # 0 /\ p + 1 \in 0..Len(L) /\ p < Len(L)  BY <1>1, <2>1
  <2>3. Pass(L, p + 1)'  BY <1>1, <1>3, <2>1, <2>2 DEF Pass, Follows, listVars
  <2>4. ASSUME Mapped(L, p), Mapped(L, p + 1)' PROVE List!Serve
    <3>1. /\ LinkedList = L /\ Position = p
          /\ LinkedList' = L /\ Position' = p + 1 /\ Orphans' = Orphans
      BY <1>3, <2>4 DEF Mapped, listVars
    <3>2. QED  BY <2>2, <3>1 DEF List!Serve
  <2>5. QED  BY <2>3, <2>4
<1>4. CASE \E s \in Sessions : Accept(s)
  <2>1. PICK s \in Sessions : Accept(s)  BY <1>4
  <2>2. s \notin alloc /\ p = 0 /\ cursor = NULL
    BY <1>0, <1>1, <2>1 DEF Fresh, Accept, Pass
  <2>0. PICK M : M = <<s>> \o L  OBVIOUS
  <2>3. /\ Follows(M)'
        /\ {M[i] : i \in 1..Len(M)} = {L[i] : i \in 1..Len(L)} \cup {s}
    <3>1. /\ TypeOK /\ Sound /\ Follows(L)
          /\ s \in Sessions /\ s \notin alloc /\ Create(s) /\ Link(s)
      BY <1>0, <1>1, <2>1, <2>2 DEF Accept
    <3>2. Follows(M)'  BY <2>0, <3>1, LinkFollows
    <3>3. {M[i] : i \in 1..Len(M)} = {L[i] : i \in 1..Len(L)} \cup {s}
      BY <2>0, <3>1, LinkFollows
    <3>4. QED  BY <3>2, <3>3
  <2>4. Len(M) \in Nat  BY <2>3 DEF Follows
  <2>5. Pass(M, 0)'  BY <2>1, <2>2, <2>3, <2>4 DEF Pass, Accept
  <2>6. ASSUME Mapped(L, p), Mapped(M, 0)' PROVE List!Add(s)
    <3>1. LinkedList = L /\ Position = 0 /\ LinkedList' = <<s>> \o L /\ Position' = 0
      BY <2>0, <2>2, <2>6 DEF Mapped
    <3>2. List!ToSet(L) = {L[i] : i \in 1..Len(L)}
      BY <1>1 DEF List!ToSet
    <3>3. \A i \in 1..Len(L) : L[i] \in alloc  BY <1>1
    <3>4. alloc' = alloc \cup {s}  BY <2>1 DEF Accept, Create
    <3>5. Orphans = alloc \ {L[i] : i \in 1..Len(L)} /\ Orphans' = alloc' \ {M[i] : i \in 1..Len(M)}
      BY <2>6 DEF Mapped
    <3>6. s \notin List!ToSet(L) \cup Orphans  BY <2>2, <3>2, <3>3, <3>5
    <3>7. Orphans' = Orphans  BY <2>2, <2>3, <3>3, <3>4, <3>5
    <3>8. QED  BY <3>1, <3>6, <3>7 DEF List!Add
  <2>7. Mapped(L, p) /\ Mapped(M, 0)' => [List!Next]_List!vars
    BY <2>6 DEF List!Next
  <2>8. QED  BY <2>5, <2>7
<1>5. CASE BeginSession \/ DestroyNext
  <2>1. /\ Advance(cursor) # NULL /\ cursor' = Advance(cursor) /\ UNCHANGED listVars
        /\ pc' \notin {"select", "accept"}
    BY <1>5 DEF BeginSession, DestroyNext
  <2>2. QED  BY <1>3, <2>1 DEF List!Next
<1>6. CASE EndPass
  <2>1. Advance(cursor) = NULL /\ cursor' = NULL /\ UNCHANGED listVars
    BY <1>6 DEF EndPass
  <2>2. p = Len(L)  BY <1>0, <2>1, AdvanceFact
  <2>3. Pass(L, 0)'  BY <1>1, <2>1 DEF Pass, Follows, listVars
  <2>4. ASSUME Mapped(L, p), Mapped(L, 0)' PROVE List!EndPass
    BY <2>1, <2>2, <2>4 DEF Mapped, List!EndPass, listVars
  <2>5. QED  BY <2>3, <2>4 DEF List!Next
<1>7. CASE Retire \/ DestroySession
  <2>1. /\ cursor # NULL /\ Disconnect(cursor) /\ cursor' = prev[cursor]
        /\ pc' \in {"next", "destroy"}
    BY <1>0, <1>7 DEF Retire, DestroySession, MemorySafe, Serving
  <2>2. QED  BY <1>0, <2>1, DepartStep DEF List!Next
<1>8. CASE \/ SelectTimeout \/ SelectReady \/ AcceptFails
           \/ ReceiveData \/ ReceiveEnd \/ Update
           \/ Flush \/ FlushKilled \/ Retain \/ DestroyDone
  <2>1. /\ UNCHANGED <<listVars, cursor>>
        /\ pc' \in {"select", "accept"} => pc \in {"select", "accept"}
    BY <1>8 DEF SelectTimeout, SelectReady, AcceptFails, ReceiveData, ReceiveEnd, Update,
                Flush, FlushKilled, Retain, DestroyDone
  <2>2. QED  BY <1>2, <2>1
<1>9. CASE Environment \/ UNCHANGED vars
  <2>1. /\ UNCHANGED <<listVars, cursor>>
        /\ pc' \in {"select", "accept"} => pc \in {"select", "accept"}
    BY <1>9 DEF Environment, Sigterm, ClientConnect, ClientSend, ClientLeave, vars
  <2>2. QED  BY <1>2, <2>1
<1>10. QED
  BY <1>4, <1>5, <1>6, <1>7, <1>8, <1>9 DEF Next, ServerStep, Exited

\* The links make a list, and the pass is somewhere on it.
Listing == \E L, p : Pass(L, p)

\* The empty list is the list of the initial state.
LEMMA InitListing == Init => Pass(<<>>, 0) /\ Listing
<1>1. Init => Pass(<<>>, 0)  BY DEF Init, Pass, Follows
<1>2. QED  BY <1>1 DEF Listing

-----------------------------------------------------------------------------
(* server_update, the loop of run_server, server_disconnect_session and      *)
(* server_destroy together implement the ordered list of module SessionList, *)
(* for any number of sessions: every pass serves every listed session once,  *)
(* newest first, whoever leaves on the way, and what a departing head takes  *)
(* with it is exactly the rest of the list.                                  *)
THEOREM ImplementsSessionList == Spec => ListSpec
<1>1. Init => Listing /\ List!Init
  <2>1. ASSUME Init PROVE List!Init
    <3>1. Pass(<<>>, 0) /\ TypeOK /\ Sound /\ alloc = {}
      BY <2>1, InitListing, InitIInv DEF IInv, Init
    <3>2. Mapped(<<>>, 0)  BY <3>1, Mapping
    <3>3. QED  BY <3>1, <3>2 DEF Mapped, List!Init
  <2>2. QED  BY <2>1, InitListing
<1>2. IInv => (\A L, p : Pass(L, p) => Mapped(L, p))
  BY Mapping DEF IInv
<1>3. IInv' => (\A L, p : Pass(L, p) => Mapped(L, p))'
  BY <1>2, PTL
<1>4. IInv /\ IInv' /\ Listing /\ [Next]_vars => Listing' /\ [List!Next]_List!vars
  <2> SUFFICES ASSUME IInv, IInv', Listing, [Next]_vars
               PROVE  Listing' /\ [List!Next]_List!vars
    OBVIOUS
  <2>1. PICK L, p : Pass(L, p)  BY DEF Listing
  <2>2. PICK M, q : /\ Pass(M, q)'
                    /\ Mapped(L, p) /\ Mapped(M, q)' => [List!Next]_List!vars
    BY <2>1, ListStep
  <2>3. Mapped(L, p) /\ Mapped(M, q)'  BY <1>2, <1>3, <2>1, <2>2
  <2>4. QED  BY <2>2, <2>3 DEF Listing
<1>5. QED  BY <1>1, <1>4, Invariance, PTL DEF Spec, ListSpec, List!Spec
=============================================================================
