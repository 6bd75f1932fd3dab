----------------------------- MODULE ConnTable -----------------------------
(***************************************************************************)
(* The connection table of naf/conn.c as a value, and the operations that  *)
(* rewrite it.                                                             *)
(*                                                                         *)
(* A table is a function whose domain is the set of addresses that hold a  *)
(* live struct nafconn (an entry of gnb.fdlist whose fd is not -1).  An    *)
(* address leaves the domain when naf_conn_free returns and malloc may     *)
(* hand it out again, so a pointer that outlives its connection is visible *)
(* as an endpoint outside the domain, or as an endpoint that silently      *)
(* denotes somebody else's connection.                                     *)
(*                                                                         *)
(* The operators only look at the fields type, endpoint and closing; the   *)
(* modules that use them put further fields in the record.  The field      *)
(* parent is left out: no code of the repository ever sets it, so          *)
(* remchildren and naf_conn_getparent never find anything.                 *)
(***************************************************************************)
EXTENDS Naturals, FiniteSets

CONSTANTS
    Addr,   \* addresses malloc can return for a struct nafconn
    NULL    \* the null pointer

ASSUME NullIsNoAddr == NULL \notin Addr

\* The NAF_CONN_TYPE_ bits that some conditional of the code tests.
ConnType == {"CLIENT", "SERVER", "LISTENER", "DETECTING", "CONNECTING",
             "PROROGUEDEATH", "LOCAL"}

-----------------------------------------------------------------------------
(* naf_conn_free and the cascade of remendpoint *)

\* remendpoint clears the pointer but keeps these connections.
Spared(conn) == \/ "PROROGUEDEATH" \in conn.type
                \/ "LOCAL" \in conn.type

\* With every connection of S freed, remendpoint has nobody left to free.
CascadeClosed(cs, S) ==
    \A a \in DOMAIN cs : cs[a].endpoint \in S /\ ~Spared(cs[a]) => a \in S

\* Mutation: remendpoint only clears pointers.
Doomed_Alone(cs, dead) == {dead}

\* The connections freed by naf_conn_free(dead): dead, and by the recursion
\* through remendpoint every unspared connection whose endpoint is freed.
\* No set that leaves one of them out is closed.
Doomed(cs, dead) ==
    {a \in DOMAIN cs :
        \A S \in SUBSET DOMAIN cs : dead \in S /\ a \notin S => ~CascadeClosed(cs, S)}

\* Mutation: remendpoint keeps the pointer of a connection it spares.
Unlinked_Never(conn, D) == conn

Unlinked(conn, D) ==
    IF conn.endpoint \in D THEN [conn EXCEPT !.endpoint = NULL] ELSE conn

\* What naf_conn_free leaves when it frees the connections of D.
naf_conn_free(cs, D) == [a \in DOMAIN cs \ D |-> Unlinked(cs[a], D)]

-----------------------------------------------------------------------------
(* The other operations *)

\* naf_conn_addconn: malloc returns some address that is not in use.
naf_conn_addconn(cs, a, conn) ==
    [x \in DOMAIN cs \cup {a} |-> IF x = a THEN conn ELSE cs[x]]

\* nbio_setcloseonflush: the connection closes once its queue is written.
naf_conn_schedulekill(cs, a) == [cs EXCEPT ![a].closing = TRUE]

\* The type naf_conn_startconnect gives to the connection it opens.
PeerType(conn, inprogress) ==
    (IF "CLIENT" \in conn.type THEN conn.type \ {"CLIENT"}
                               ELSE conn.type \cup {"CLIENT"})
        \cup {"SERVER"} \cup (IF inprogress THEN {"CONNECTING"} ELSE {})

\* Mutation: only the local connection is linked.
naf_conn_startconnect_OneWay(cs, localconn, a, conn) ==
    [naf_conn_addconn(cs, a, conn) EXCEPT ![localconn].endpoint = a]

\* naf_conn_startconnect once the socket exists: the new connection at a is
\* added and the two are made each other's endpoint.
naf_conn_startconnect(cs, localconn, a, conn) ==
    [naf_conn_addconn(cs, a, [conn EXCEPT !.endpoint = localconn])
        EXCEPT ![localconn].endpoint = a]

============================================================================
