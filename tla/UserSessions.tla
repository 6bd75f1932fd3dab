---------------------------- MODULE UserSessions ----------------------------
(***************************************************************************)
(* What the proxy promises to its users, without connections, cookies or   *)
(* nodes: users have sessions, are present or absent, and are handed their *)
(* messages.  Module Toscar implements this specification.                 *)
(*                                                                         *)
(* A session is one login.  Its user never changes, and its client never   *)
(* changes either, except that the client may go away and leave the session *)
(* unattended (enableprorogueall).                                         *)
(***************************************************************************)
CONSTANTS
    Ids,       \* what sessions and clients are known by
    Users,
    Nobody     \* no client, or no message

VARIABLES
    sessions,  \* the sessions that exist: id -> [user, client]
    present,   \* the users others see as connected here
    handed     \* the message the last step handed to a client, or Nobody

abstract == <<sessions, present, handed>>

Session == [user : Users, client : Ids \cup {Nobody}]
UsersOf(ss) == {ss[i].user : i \in DOMAIN ss}
Attended(ss) == {ss[i].user : i \in {i \in DOMAIN ss : ss[i].client # Nobody}}

Init ==
    /\ sessions = [i \in {} |-> 0]
    /\ present = {}
    /\ handed = Nobody

\* Client c has presented a cookie for user u.
Login(i, u, c) ==
    /\ i \notin DOMAIN sessions
    /\ sessions' = [j \in DOMAIN sessions \cup {i} |->
                       IF j = i THEN [user |-> u, client |-> c] ELSE sessions[j]]
    /\ handed' = Nobody
    /\ UNCHANGED present

\* The sessions outside S end and those of L lose their client.  A user with
\* an ended session disappears if that was the last session, and may do so
\* if nobody attends the others; nobody else disappears.  P are the users
\* present before.
Leave(S, L, P) ==
    /\ S \subseteq DOMAIN sessions
    /\ sessions' = [i \in S |-> IF i \in L THEN [sessions[i] EXCEPT !.client = Nobody]
                                           ELSE sessions[i]]
    /\ present' \subseteq P
    /\ \A u \in P \ present' :
          u \in {sessions[i].user : i \in DOMAIN sessions \ S} \ Attended(sessions')
    /\ present' \cap {sessions[i].user : i \in DOMAIN sessions \ S} \subseteq UsersOf(sessions')
    /\ handed' = Nobody

End == \E S, L \in SUBSET DOMAIN sessions : Leave(S, L, present)

\* An attended user appears; the step may fail after that and end sessions.
Appear(u) ==
    /\ u \in Attended(sessions)
    /\ \E S, L \in SUBSET DOMAIN sessions : Leave(S, L, present \cup {u})

\* A message for u is handed to the client of one of u's sessions.
Hand(u, i) ==
    /\ u \in present
    /\ i \in DOMAIN sessions /\ sessions[i].user = u /\ sessions[i].client # Nobody
    /\ handed' = [user |-> u, client |-> sessions[i].client]
    /\ UNCHANGED <<sessions, present>>

\* A step that is not about users.
Other == handed' = Nobody /\ UNCHANGED <<sessions, present>>

Next ==
    \/ Other
    \/ \E u \in Users, i \in Ids : Hand(u, i)
    \/ \E i, c \in Ids, u \in Users : Login(i, u, c)
    \/ End
    \/ \E u \in Users : Appear(u)

Spec == Init /\ [][Next]_abstract

============================================================================
