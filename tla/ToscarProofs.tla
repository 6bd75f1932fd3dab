---------------------------- MODULE ToscarProofs ----------------------------
(***************************************************************************)
(* Proofs about Toscar, for every set of addresses, names and cookies and  *)
(* every configuration.                                                    *)
(*                                                                         *)
(* The invariants of the two tables are stated over table values, TableInv *)
(* and NodeInv, because a handler may change a table and then free a       *)
(* connection of the changed table in the same step.                       *)
(***************************************************************************)
EXTENDS Toscar, TLAPS

-----------------------------------------------------------------------------
(* The inductive invariant over table values *)

Typed(cs) == DOMAIN cs \subseteq Addr /\ cs \in [DOMAIN cs -> Conn]

\* Every connection is on exactly one side.
OneSide(cs) ==
    \A a \in DOMAIN cs : "CLIENT" \in cs[a].type <=> "SERVER" \notin cs[a].type

Linked(cs) == \A a \in DOMAIN cs : cs[a].endpoint \in DOMAIN cs \cup {NULL}

\* Clients point at servers that point back, servers point at clients.
Paired(cs) ==
    \A a \in DOMAIN cs : cs[a].endpoint # NULL =>
        /\ "CLIENT" \in cs[a].type =>
               /\ "SERVER" \in cs[cs[a].endpoint].type
               /\ cs[cs[a].endpoint].endpoint = a
        /\ "SERVER" \in cs[a].type => "CLIENT" \in cs[cs[a].endpoint].type

NoOrphan(cs) ==
    \A a \in DOMAIN cs :
        "SERVER" \in cs[a].type /\ ~Spared(cs[a]) => cs[a].endpoint # NULL

Tagged(cs) == \A a \in DOMAIN cs : cs[a].sn # NULL => "SERVER" \in cs[a].type

Owned(cs) ==
    \A a \in DOMAIN cs :
        cs[a].sn # NULL /\ cs[a].endpoint # NULL => cs[a].sn \in cs[cs[a].endpoint].users

\* Nobody logs in on the connection of a host that has lost its client: hosts
\* do not ask for logins, or none is ever left without its client.
Sided == ~HostsLogIn \/ ProrogueSettings = {FALSE}

\* The sides of a connection are only kept apart in that case.
TableInv(cs) ==
    /\ Typed(cs) /\ Linked(cs) /\ NoOrphan(cs) /\ Tagged(cs)
    /\ Sided => OneSide(cs) /\ Paired(cs) /\ Owned(cs)

TypedNodes(ns) == DOMAIN ns \subseteq Names /\ ns \in [DOMAIN ns -> Node]

Backed(cs, ns) == \A n \in DOMAIN ns : IsLocal(ns[n]) => toscar__findconn(cs, n) # {}

-----------------------------------------------------------------------------
(* The cascade of naf_conn_free *)

\* The set naf_conn_free frees contains the connection it is called for,
\* lies within the table, and is closed under remendpoint.
LEMMA DoomedClosed ==
    ASSUME NEW cs, NEW dead \in DOMAIN cs
    PROVE  /\ dead \in Doomed(cs, dead)
           /\ Doomed(cs, dead) \subseteq DOMAIN cs
           /\ CascadeClosed(cs, Doomed(cs, dead))
  BY DEF Doomed, CascadeClosed

\* Freeing a closed set of connections keeps the invariant of the table.
LEMMA FreeKeepsTable ==
    ASSUME NEW cs, TableInv(cs), NEW D \in SUBSET DOMAIN cs, CascadeClosed(cs, D)
    PROVE  TableInv(naf_conn_free(cs, D))
<1> DEFINE t == naf_conn_free(cs, D)
<1>1. /\ DOMAIN t = DOMAIN cs \ D
      /\ \A a \in DOMAIN t : t[a] = Unlinked(cs[a], D)
  BY DEF naf_conn_free
<1>2. ASSUME NEW a \in DOMAIN t
      PROVE  /\ a \in DOMAIN cs /\ a \notin D
             /\ cs[a] \in Conn
             /\ t[a] \in Conn
             /\ t[a].type = cs[a].type /\ t[a].sn = cs[a].sn
             /\ t[a].users = cs[a].users
             /\ Spared(t[a]) <=> Spared(cs[a])
             /\ cs[a].endpoint \in D => t[a].endpoint = NULL
             /\ cs[a].endpoint \notin D => t[a].endpoint = cs[a].endpoint
  BY <1>1, <1>2 DEF Unlinked, TableInv, Typed, Conn, Spared
<1>3. Typed(t)
  BY <1>1, <1>2 DEF TableInv, Typed, naf_conn_free
<1>4. Sided => OneSide(t)
  BY <1>1, <1>2 DEF TableInv, OneSide
<1>5. Linked(t) /\ Tagged(t)
  BY <1>1, <1>2 DEF TableInv, Linked, Tagged
<1>6. ASSUME NEW a \in DOMAIN t, t[a].endpoint # NULL
      PROVE  /\ t[a].endpoint = cs[a].endpoint
             /\ cs[a].endpoint \in DOMAIN t
  BY <1>1, <1>2, <1>6 DEF TableInv, Linked
<1>7. Sided => Paired(t)
  BY <1>1, <1>2, <1>6 DEF TableInv, Paired
<1>8. NoOrphan(t)
  BY <1>1, <1>2 DEF TableInv, NoOrphan, CascadeClosed
<1>9. Sided => Owned(t)
  BY <1>1, <1>2, <1>6 DEF TableInv, Owned
<1> QED
  BY <1>3, <1>4, <1>5, <1>7, <1>8, <1>9 DEF TableInv

\* freetag leaves no local node behind, and takes one down only if every
\* other server connection of the user is without a client.
LEMMA FreeKeepsBacked ==
    ASSUME NEW cs, TableInv(cs), NEW ns, TypedNodes(ns), Backed(cs, ns),
           NEW D \in SUBSET DOMAIN cs, NEW G,
           MustGoOffline(cs, D) \subseteq G
    PROVE  /\ TypedNodes(Without(ns, G))
           /\ Backed(naf_conn_free(cs, D), Without(ns, G))
<1> DEFINE t == naf_conn_free(cs, D)
           m == Without(ns, G)
<1>1. /\ DOMAIN t = DOMAIN cs \ D
      /\ \A a \in DOMAIN t : t[a] = Unlinked(cs[a], D)
  BY DEF naf_conn_free
<1>2. \A a \in DOMAIN t : t[a].type = cs[a].type /\ t[a].sn = cs[a].sn
  BY <1>1 DEF Unlinked, TableInv, Typed, Conn
<1>3. DOMAIN m = DOMAIN ns \ G /\ \A n \in DOMAIN m : m[n] = ns[n]
  BY DEF Without
<1>4. TypedNodes(m)
  BY <1>3 DEF TypedNodes, Without
<1>5. ASSUME NEW n \in DOMAIN m, IsLocal(m[n])
      PROVE  toscar__findconn(t, n) # {}
  <2>1. n \in DOMAIN ns /\ n \notin G /\ IsLocal(ns[n]) /\ n # NULL
    BY <1>3, <1>5, NullIsNoName DEF TypedNodes
  <2>2. PICK s \in toscar__findconn(cs, n) : TRUE
    BY <2>1 DEF Backed
  <2>3. CASE s \notin D
    <3>1. s \in toscar__findconn(t, n)
      BY <1>1, <1>2, <2>2, <2>3 DEF toscar__findconn
    <3> QED
      BY <3>1
  <2>4. CASE s \in D
    <3>1. n \in {cs[a].sn : a \in D} \ {NULL}
      BY <2>1, <2>2, <2>4 DEF toscar__findconn
    <3>2. n \notin MustGoOffline(cs, D)
      BY <2>1
    <3>3. PICK a \in OtherServers(cs, D, n) : cs[a].endpoint # NULL
      BY <3>1, <3>2 DEF MustGoOffline
    <3>4. a \in toscar__findconn(t, n)
      BY <1>1, <1>2, <3>3 DEF OtherServers, toscar__findconn
    <3> QED
      BY <3>4
  <2> QED
    BY <2>3, <2>4
<1> QED
  BY <1>4, <1>5 DEF Backed

\* Freeing a connection, with the tag destructors, keeps both invariants.
LEMMA FreeConnKeeps ==
    ASSUME NEW cs, TableInv(cs), NEW ns, TypedNodes(ns), Backed(cs, ns),
           NEW dead \in DOMAIN cs, FreeConn(cs, ns, dead)
    PROVE  TableInv(conns') /\ TypedNodes(nodes') /\ Backed(conns', nodes')
<1> DEFINE D == Doomed(cs, dead)
<1>1. PICK G : /\ MustGoOffline(cs, D) \subseteq G
               /\ conns' = naf_conn_free(cs, D)
               /\ nodes' = Without(ns, G)
  BY DEF FreeConn
<1>2. D \in SUBSET DOMAIN cs /\ CascadeClosed(cs, D)
  BY DoomedClosed
<1> HIDE DEF D
<1> QED
  BY <1>1, <1>2, FreeKeepsTable, FreeKeepsBacked

-----------------------------------------------------------------------------
(* The other changes of the table *)

\* t is cs with fields changed that no link depends on, or with more users
\* recorded for a client.
Relabelled(cs, t) ==
    /\ DOMAIN t = DOMAIN cs
    /\ \A a \in DOMAIN cs :
          /\ t[a].endpoint = cs[a].endpoint
          /\ t[a].sn = cs[a].sn
          /\ cs[a].users \subseteq t[a].users
          /\ "CLIENT" \in t[a].type <=> "CLIENT" \in cs[a].type
          /\ "SERVER" \in t[a].type <=> "SERVER" \in cs[a].type
          /\ Spared(t[a]) <=> Spared(cs[a])

\* Such a change keeps the invariants.
LEMMA RelabelKeeps ==
    ASSUME NEW cs, TableInv(cs), NEW t, Typed(t), Relabelled(cs, t)
    PROVE  /\ TableInv(t)
           /\ \A ns : TypedNodes(ns) /\ Backed(cs, ns) => Backed(t, ns)
<1>1. Linked(t) /\ NoOrphan(t) /\ Tagged(t) /\ (Sided => OneSide(t) /\ Paired(t))
  BY DEF TableInv, Relabelled, OneSide, Linked, Paired, NoOrphan, Tagged
<1>2. Sided => Owned(t)
  BY DEF TableInv, Relabelled, Linked, Owned
<1>3. \A n : toscar__findconn(t, n) = toscar__findconn(cs, n)
  BY DEF Relabelled, toscar__findconn
<1> QED
  BY <1>1, <1>2, <1>3 DEF TableInv, Backed

\* A fresh client connection keeps the invariants.
LEMMA AcceptKeeps ==
    ASSUME NEW cs, TableInv(cs), NEW a \in Addr \ DOMAIN cs, prorogueall \in BOOLEAN,
           NEW t, t = naf_conn_addconn(cs, a, FreshConn({"CLIENT"}))
    PROVE  /\ TableInv(t)
           /\ \A ns : TypedNodes(ns) /\ Backed(cs, ns) => Backed(t, ns)
<1> DEFINE conn == FreshConn({"CLIENT"})
<1>1. /\ conn \in Conn
      /\ conn.endpoint = NULL /\ conn.sn = NULL
      /\ "CLIENT" \in conn.type /\ "SERVER" \notin conn.type
  BY DEF FreshConn, Prepared, Conn, ConnType
<1> HIDE DEF conn
<1>2. /\ DOMAIN t = DOMAIN cs \cup {a}
      /\ t[a] = conn
      /\ \A x \in DOMAIN cs : t[x] = cs[x]
  BY DEF naf_conn_addconn, conn
<1>3. Typed(t)
  BY <1>1, <1>2 DEF TableInv, Typed, naf_conn_addconn
<1>4. Linked(t) /\ NoOrphan(t) /\ Tagged(t) /\ (Sided => OneSide(t))
  BY <1>1, <1>2 DEF TableInv, OneSide, Linked, NoOrphan, Tagged
<1>5. Sided => Paired(t)
  BY <1>1, <1>2 DEF TableInv, Linked, Paired
<1>6. Sided => Owned(t)
  BY <1>1, <1>2 DEF TableInv, Linked, Owned
<1>7. \A n : toscar__findconn(cs, n) \subseteq toscar__findconn(t, n)
  BY <1>2 DEF toscar__findconn
<1> QED
  BY <1>3, <1>4, <1>5, <1>6, <1>7 DEF TableInv, Backed

\* Opening a server connection for c, a client where that matters, keeps the
\* invariants, provided the client is recorded as a user of the name the
\* connection is tagged with.
LEMMA ConnectKeeps ==
    ASSUME NEW cs, TableInv(cs), NEW c \in DOMAIN cs, Sided => "CLIENT" \in cs[c].type,
           NEW a \in Addr \ DOMAIN cs, NEW peer \in Conn,
           "SERVER" \in peer.type,
           "CLIENT" \in cs[c].type => "CLIENT" \notin peer.type, peer.endpoint = c,
           NEW client \in Conn, client.endpoint = a,
           client.type = cs[c].type, client.sn = cs[c].sn,
           cs[c].users \subseteq client.users,
           peer.sn # NULL => peer.sn \in client.users,
           NEW t,
           t = [x \in DOMAIN cs \cup {a} |->
                   IF x = a THEN peer ELSE IF x = c THEN client ELSE cs[x]]
    PROVE  /\ TableInv(t)
           /\ \A ns : TypedNodes(ns) /\ Backed(cs, ns) => Backed(t, ns)
<1>1. /\ DOMAIN t = DOMAIN cs \cup {a}
      /\ a # c /\ a # NULL /\ c # NULL
      /\ t[a] = peer /\ t[c] = client
      /\ \A x \in DOMAIN cs : x # c => t[x] = cs[x]
  BY NullIsNoAddr DEF TableInv, Typed
<1>2. Typed(t)
  BY <1>1 DEF TableInv, Typed
<1>3. Linked(t) /\ NoOrphan(t) /\ Tagged(t) /\ (Sided => OneSide(t))
  BY <1>1 DEF TableInv, OneSide, Linked, NoOrphan, Tagged
<1>4. ASSUME Sided
      PROVE  Paired(t)
  <2>1. ASSUME NEW x \in DOMAIN cs, x # c, cs[x].endpoint # NULL,
               "CLIENT" \in cs[x].type
        PROVE  cs[x].endpoint # c /\ cs[x].endpoint \in DOMAIN cs
    BY <1>4, <2>1 DEF TableInv, OneSide, Linked, Paired
  <2>2. ASSUME NEW x \in DOMAIN t, t[x].endpoint # NULL
        PROVE  /\ "CLIENT" \in t[x].type =>
                      /\ "SERVER" \in t[t[x].endpoint].type
                      /\ t[t[x].endpoint].endpoint = x
               /\ "SERVER" \in t[x].type => "CLIENT" \in t[t[x].endpoint].type
    <3>1. CASE x = a
      BY <1>1, <1>4, <3>1
    <3>2. CASE x = c
      BY <1>1, <1>4, <3>2 DEF TableInv, OneSide
    <3>3. CASE x # a /\ x # c
      BY <1>1, <1>4, <2>1, <2>2, <3>3 DEF TableInv, Linked, Paired
    <3> QED
      BY <3>1, <3>2, <3>3
  <2> QED
    BY <2>2 DEF Paired
<1>5. ASSUME Sided
      PROVE  Owned(t)
  <2>1. ASSUME NEW x \in DOMAIN t, t[x].sn # NULL, t[x].endpoint # NULL
        PROVE  t[x].sn \in t[t[x].endpoint].users
    <3>1. CASE x = a
      BY <1>1, <2>1, <3>1
    <3>2. x # c
      BY <1>1, <1>5, <2>1 DEF TableInv, OneSide, Tagged
    <3>3. CASE x # a
      BY <1>1, <1>5, <2>1, <3>2, <3>3 DEF TableInv, Linked, Owned
    <3> QED
      BY <3>1, <3>3
  <2> QED
    BY <2>1 DEF Owned
<1>6. \A n : toscar__findconn(cs, n) \subseteq toscar__findconn(t, n)
  BY <1>1 DEF toscar__findconn
<1> QED
  BY <1>2, <1>3, <1>4, <1>5, <1>6 DEF TableInv, Backed

-----------------------------------------------------------------------------
(* The node table *)

\* A node coming online keeps the table well typed; a local one needs a
\* server connection of that name.
LEMMA OnlineKeeps ==
    ASSUME NEW cs, NEW ns, TypedNodes(ns), Backed(cs, ns),
           NEW n \in Names, NEW metric \in Metric,
           metric = GNR_NODE_METRIC_LOCAL => toscar__findconn(cs, n) # {}
    PROVE  LET m == gnr_node_online(ns, n, metric)
           IN  TypedNodes(m) /\ Backed(cs, m)
<1>1. NewNode(metric) \in Node /\ NewNode(metric).metric = metric
  BY TtlAssumption, MetricAssumption DEF NewNode, Node, Metric, GNR_NODE_METRIC_LOCAL
<1> QED
  BY <1>1 DEF gnr_node_online, TypedNodes, Backed, IsLocal

\* Using, aging and timing out nodes creates none and changes no metric.
LEMMA NodesKept ==
    ASSUME NEW cs, NEW ns, TypedNodes(ns), Backed(cs, ns)
    PROVE  /\ \A G : TypedNodes(gnr_node_usehit(ns, G)) /\ Backed(cs, gnr_node_usehit(ns, G))
           /\ TypedNodes(Aged(ns)) /\ Backed(cs, Aged(ns))
           /\ TypedNodes(gnr_node__hash_timeout(ns)) /\ Backed(cs, gnr_node__hash_timeout(ns))
<1>1. \A G : TypedNodes(gnr_node_usehit(ns, G)) /\ Backed(cs, gnr_node_usehit(ns, G))
  BY TtlAssumption DEF gnr_node_usehit, TypedNodes, Backed, IsLocal, Node
<1>2. TypedNodes(Aged(ns)) /\ Backed(cs, Aged(ns))
  BY TtlAssumption DEF Aged, TypedNodes, Backed, IsLocal, Node
<1>3. TypedNodes(gnr_node__hash_timeout(ns)) /\ Backed(cs, gnr_node__hash_timeout(ns))
  BY DEF gnr_node__hash_timeout, Without, TypedNodes, Backed
<1> QED
  BY <1>1, <1>2, <1>3

-----------------------------------------------------------------------------
(* The actions *)

\* The invariants of a connection table and a node table together.
Good(cs, ns) == TableInv(cs) /\ TypedNodes(ns) /\ Backed(cs, ns)

CacheOK == DOMAIN ckcache \subseteq Cookies /\ ckcache \in [DOMAIN ckcache -> Cookie]

\* Good tables that become the tables of the next state are good there.
LEMMA GoodNext ==
    ASSUME NEW cs, NEW ns, Good(cs, ns), conns' = cs, nodes' = ns
    PROVE  Good(conns, nodes)'
<1>1. Good(conns', nodes')
  OBVIOUS
<1>2. Sided' <=> Sided
  BY DEF Sided
<1> QED
  BY <1>1, <1>2 DEF Good, TableInv, Typed, OneSide, Linked, Paired, NoOrphan, Tagged, Owned,
     TypedNodes, Backed, toscar__findconn

\* Keeping, freeing and forwarding after a handler changed good tables.
LEMMA OutcomeKeeps ==
    ASSUME NEW cs, NEW ns, Good(cs, ns), NEW c \in DOMAIN cs
    PROVE  /\ Keep(cs, ns) => Good(conns, nodes)'
           /\ FreeConn(cs, ns, c) => Good(conns, nodes)'
           /\ Forward(cs, ns, c) => Good(conns, nodes)'
<1>1. Keep(cs, ns) => Good(conns, nodes)'
  BY GoodNext DEF Keep
<1>2. FreeConn(cs, ns, c) => Good(conns, nodes)'
  BY FreeConnKeeps DEF Good
<1> QED
  BY <1>1, <1>2 DEF Forward

\* Replacing one connection by a well-typed one keeps the table typed.
LEMMA EntryTyped ==
    ASSUME NEW cs, Typed(cs), NEW c \in DOMAIN cs, NEW r \in Conn
    PROVE  Typed([cs EXCEPT ![c] = r])
<1>1. DOMAIN cs \subseteq Addr /\ cs \in [DOMAIN cs -> Conn]
  BY DEF Typed
<1>2. [cs EXCEPT ![c] = r] \in [DOMAIN cs -> Conn]
  BY <1>1
<1> QED
  BY <1>1, <1>2 DEF Typed

\* Fields a handler sets without touching links keep the tables good.
LEMMA FieldsKeep ==
    ASSUME NEW cs, NEW ns, Good(cs, ns), NEW c \in DOMAIN cs
    PROVE  /\ Good(naf_conn_schedulekill(cs, c), ns)
           /\ Good([cs EXCEPT ![c].type = @ \ {"CONNECTING"}], ns)
           /\ \A b \in BOOLEAN : Good([cs EXCEPT ![c].ready = b], ns)
           /\ Good([cs EXCEPT ![c].online = TRUE], ns)
<1>1. TableInv(cs) /\ Typed(cs) /\ TypedNodes(ns) /\ Backed(cs, ns)
  BY DEF Good, TableInv
<1>0. Typed(cs) /\ cs[c] \in Conn
  BY <1>1 DEF Typed
<1>2. ASSUME NEW t, Typed(t), Relabelled(cs, t)
      PROVE  Good(t, ns)
  BY <1>1, <1>2, RelabelKeeps DEF Good
<1>3. Good(naf_conn_schedulekill(cs, c), ns)
  <2> DEFINE t == naf_conn_schedulekill(cs, c)
  <2>0. [cs[c] EXCEPT !.closing = TRUE] \in Conn
    BY <1>0 DEF Conn, ConnType
  <2>1. Typed(t)
    <3>1. t = [cs EXCEPT ![c] = [cs[c] EXCEPT !.closing = TRUE]]
      BY DEF naf_conn_schedulekill
    <3>2. Typed([cs EXCEPT ![c] = [cs[c] EXCEPT !.closing = TRUE]])
      BY <1>0, <2>0, EntryTyped
    <3> QED
      BY <3>1, <3>2, Zenon
  <2>2. Relabelled(cs, t)
    BY <1>1 DEF Typed, Conn, naf_conn_schedulekill, Relabelled, Spared
  <2> QED
    BY <1>2, <2>1, <2>2
<1>4. Good([cs EXCEPT ![c].type = @ \ {"CONNECTING"}], ns)
  <2> DEFINE t == [cs EXCEPT ![c].type = @ \ {"CONNECTING"}]
  <2>0. [cs[c] EXCEPT !.type = @ \ {"CONNECTING"}] \in Conn
    BY <1>0 DEF Conn, ConnType
  <2>1. Typed(t)
    <3>1. t = [cs EXCEPT ![c] = [cs[c] EXCEPT !.type = @ \ {"CONNECTING"}]]
      OBVIOUS
    <3> QED
      BY <1>0, <2>0, <3>1, EntryTyped
  <2>2. Relabelled(cs, t)
    BY <1>1 DEF Typed, Conn, Relabelled, Spared
  <2> QED
    BY <1>2, <2>1, <2>2
<1>6. ASSUME NEW b \in BOOLEAN
      PROVE  Good([cs EXCEPT ![c].ready = b], ns)
  <2> DEFINE t == [cs EXCEPT ![c].ready = b]
  <2>0. [cs[c] EXCEPT !.ready = b] \in Conn
    BY <1>0 DEF Conn, ConnType
  <2>1. Typed(t)
    <3>1. t = [cs EXCEPT ![c] = [cs[c] EXCEPT !.ready = b]]
      OBVIOUS
    <3> QED
      BY <1>0, <2>0, <3>1, EntryTyped
  <2>2. Relabelled(cs, t)
    BY <1>1 DEF Typed, Conn, Relabelled, Spared
  <2> QED
    BY <1>2, <2>1, <2>2
<1>7. Good([cs EXCEPT ![c].online = TRUE], ns)
  <2> DEFINE t == [cs EXCEPT ![c].online = TRUE]
  <2>0. [cs[c] EXCEPT !.online = TRUE] \in Conn
    BY <1>0 DEF Conn, ConnType
  <2>1. Typed(t)
    <3>1. t = [cs EXCEPT ![c] = [cs[c] EXCEPT !.online = TRUE]]
      OBVIOUS
    <3> QED
      BY <1>0, <2>0, <3>1, EntryTyped
  <2>2. Relabelled(cs, t)
    BY <1>1 DEF Typed, Conn, Relabelled, Spared
  <2> QED
    BY <1>2, <2>1, <2>2
<1> QED
  BY <1>3, <1>4, <1>6, <1>7

\* Scheduling several connections to be killed keeps the tables good
\* (keepalive, detaching old connections).
LEMMA KillManyKeeps ==
    ASSUME NEW cs, NEW ns, Good(cs, ns), NEW K
    PROVE  Good([a \in DOMAIN cs |-> IF a \in K THEN [cs[a] EXCEPT !.closing = TRUE]
                                                ELSE cs[a]], ns)
<1> DEFINE t == [a \in DOMAIN cs |-> IF a \in K THEN [cs[a] EXCEPT !.closing = TRUE]
                                                ELSE cs[a]]
<1>1. TableInv(cs) /\ Typed(cs) /\ TypedNodes(ns) /\ Backed(cs, ns)
  BY DEF Good, TableInv
<1>2. Typed(t)
  BY <1>1 DEF Typed, Conn
<1>3. Relabelled(cs, t)
  BY <1>1 DEF Typed, Conn, Relabelled, Spared
<1> HIDE DEF t
<1>4. Good(t, ns)
  BY <1>1, <1>2, <1>3, RelabelKeeps DEF Good
<1> QED
  BY <1>4 DEF t

\* Nothing is spared by remendpoint: no connection is marked PROROGUEDEATH
\* or LOCAL, and none will be.
NoneSpared == prorogueall = FALSE /\ \A a \in DOMAIN conns : ~Spared(conns[a])

Guarded == ProrogueSettings = {FALSE} => NoneSpared

\* The connection opened for a client is a server connection to be linked.
LEMMA PeerIsServer ==
    ASSUME Good(conns, nodes), prorogueall \in BOOLEAN,
           NEW c \in DOMAIN conns,
           NEW inprogress \in BOOLEAN, NEW sn \in Names \cup {NULL}
    PROVE  LET peer == Peer(c, inprogress, sn)
           IN  /\ peer \in Conn /\ peer.sn = sn
               /\ "SERVER" \in peer.type
               /\ "CLIENT" \in conns[c].type => "CLIENT" \notin peer.type
<1>1. conns[c].type \subseteq ConnType
  BY DEF Good, TableInv, Typed, Conn
<1>2. LET T == PeerType(conns[c], inprogress)
      IN  /\ T \subseteq ConnType /\ "SERVER" \in T
          /\ "CLIENT" \in conns[c].type => "CLIENT" \notin T
  BY <1>1 DEF PeerType, ConnType
<1> QED
  BY <1>2 DEF Peer, FreshConn, Prepared, Conn, ConnType

\* Where the sides are kept apart, only a client is without an endpoint and
\* asks for a login.
LEMMA SenderIsClient ==
    ASSUME Good(conns, nodes), Guarded, Sided, NEW c \in DOMAIN conns,
           IsServer(c) => HostsLogIn, conns[c].endpoint = NULL
    PROVE  "CLIENT" \in conns[c].type /\ conns[c].sn = NULL
<1>1. ~IsServer(c)
  BY DEF IsServer, Sided, Guarded, NoneSpared, Good, TableInv, NoOrphan
<1> QED
  BY <1>1 DEF IsServer, Good, TableInv, OneSide, Tagged

\* Login and cookie presentation keep the tables good.
LEMMA LoginKeeps ==
    ASSUME Good(conns, nodes), prorogueall \in BOOLEAN, CacheOK, Guarded, NEW c \in Addr,
           \/ (IsServer(c) => HostsLogIn) /\ toscar_snachandler_0017_0006(c)
           \/ \E ck \in Cookies : toscar_flap_handlechan1__newconn(c, ck)
    PROVE  Good(conns, nodes)'
<1>1. c \in DOMAIN conns /\ conns[c] \in Conn /\ c # NULL
  BY NullIsNoAddr DEF toscar_snachandler_0017_0006, toscar_flap_handlechan1__newconn,
     CanRead, Good, TableInv, Typed
<1>2. CASE FreeConn(conns, nodes, c) \/ Keep(conns, nodes)
  BY <1>1, <1>2, OutcomeKeeps
<1>6. ASSUME Sided, toscar_snachandler_0017_0006(c), conns[c].endpoint = NULL,
             IsServer(c) => HostsLogIn
      PROVE  "CLIENT" \in conns[c].type
  BY <1>1, <1>6, SenderIsClient
<1>7. ASSUME NEW ck \in Cookies, toscar_flap_handlechan1__newconn(c, ck)
      PROVE  "CLIENT" \in conns[c].type
  BY <1>7 DEF toscar_flap_handlechan1__newconn, IsClient
<1>3. ASSUME Sided => "CLIENT" \in conns[c].type, NEW a \in Addr \ DOMAIN conns, NEW inprogress \in BOOLEAN,
             conns' = naf_conn_startconnect(
                          conns, c, a, Peer(c, inprogress, NULL)),
             nodes' = nodes
      PROVE  Good(conns, nodes)'
  <2> DEFINE peer == [Peer(c, inprogress, NULL) EXCEPT !.endpoint = c]
             client == [conns[c] EXCEPT !.endpoint = a]
  <2>1. /\ peer \in Conn /\ peer.sn = NULL /\ peer.endpoint = c
        /\ "SERVER" \in peer.type
        /\ "CLIENT" \in conns[c].type => "CLIENT" \notin peer.type
    BY <1>1, PeerIsServer DEF Conn
  <2>2. /\ client \in Conn /\ client.endpoint = a /\ client.type = conns[c].type
        /\ client.sn = conns[c].sn /\ client.users = conns[c].users
    BY <1>1 DEF Conn
  <2>3. conns' = [x \in DOMAIN conns \cup {a} |->
                     IF x = a THEN peer ELSE IF x = c THEN client ELSE conns[x]]
    BY <1>1, <1>3 DEF naf_conn_startconnect, naf_conn_addconn
  <2> HIDE DEF peer, client
  <2>4. TableInv(conns') /\ Backed(conns', nodes)
    BY <1>1, <1>3, <2>1, <2>2, <2>3, ConnectKeeps DEF Good
  <2> QED
    BY <1>3, <2>4 DEF Good, Backed, TypedNodes, toscar__findconn
<1>4. ASSUME "CLIENT" \in conns[c].type,
             NEW a \in Addr \ DOMAIN conns, NEW inprogress \in BOOLEAN,
             NEW sn \in Names,
             conns' = [naf_conn_startconnect(
                           conns, c, a, Peer(c, inprogress, sn))
                          EXCEPT ![c].users = @ \cup {sn}, ![c].online = FALSE],
             nodes' = nodes
      PROVE  Good(conns, nodes)'
  <2> DEFINE peer == [Peer(c, inprogress, sn) EXCEPT !.endpoint = c]
             client == [conns[c] EXCEPT !.endpoint = a, !.users = @ \cup {sn},
                                        !.online = FALSE]
  <2>1. /\ peer \in Conn /\ peer.sn = sn /\ peer.endpoint = c
        /\ "SERVER" \in peer.type
        /\ "CLIENT" \in conns[c].type => "CLIENT" \notin peer.type
    BY <1>1, PeerIsServer DEF Conn
  <2>2. /\ client \in Conn /\ client.endpoint = a /\ client.type = conns[c].type
        /\ client.sn = conns[c].sn /\ client.users = conns[c].users \cup {sn}
    BY <1>1 DEF Conn
  <2>3. conns' = [x \in DOMAIN conns \cup {a} |->
                     IF x = a THEN peer ELSE IF x = c THEN client ELSE conns[x]]
    BY <1>1, <1>4 DEF naf_conn_startconnect, naf_conn_addconn
  <2> HIDE DEF peer, client
  <2>4. TableInv(conns') /\ Backed(conns', nodes)
    <3>1. TableInv(conns) /\ conns[c].users \subseteq client.users /\ peer.sn \in client.users
      BY <2>1, <2>2 DEF Good
    <3> QED
      <4>1. /\ Sided => "CLIENT" \in conns[c].type
            /\ "CLIENT" \notin peer.type /\ TypedNodes(nodes) /\ Backed(conns, nodes)
        BY <1>4, <2>1 DEF Good
      <4>2. TableInv(conns') /\ (TypedNodes(nodes) /\ Backed(conns, nodes) => Backed(conns', nodes))
        BY <1>1, <2>1, <2>2, <2>3, <3>1, <4>1, ConnectKeeps
      <4> QED
        BY <4>1, <4>2
  <2> QED
    BY <1>4, <2>4 DEF Good, Backed, TypedNodes, toscar__findconn
<1>5. \A ck \in DOMAIN ckcache : ckcache[ck].sn \in Names
  BY DEF CacheOK, Cookie
<1>8. CASE (IsServer(c) => HostsLogIn) /\ toscar_snachandler_0017_0006(c)
  BY <1>2, <1>3, <1>6, <1>8 DEF toscar_snachandler_0017_0006
<1>9. CASE \E ck \in Cookies : toscar_flap_handlechan1__newconn(c, ck)
  BY <1>2, <1>4, <1>5, <1>7, <1>9 DEF toscar_flap_handlechan1__newconn
<1> QED
  BY <1>8, <1>9

\* Client Online: the node goes up while the server connection tagged with
\* its name is in the table.
LEMMA ClientOnlineKeeps ==
    ASSUME Good(conns, nodes), NEW c \in Addr, toscar_snachandler_0001_0002(c)
    PROVE  Good(conns, nodes)'
<1>1. c \in DOMAIN conns
  BY DEF toscar_snachandler_0001_0002, CanRead
<1>2. CASE FreeConn(conns, nodes, c)
  BY <1>1, <1>2, OutcomeKeeps
<1>3. CASE IsClient(c) /\ SessionName(c) # NULL
  <2> DEFINE sn == SessionName(c)
             s  == conns[c].endpoint
             ds == toscar__detacholdconns(conns, sn)
             cs == [ds EXCEPT ![c].online = TRUE]
             ns == gnr_node_online(nodes, sn, GNR_NODE_METRIC_LOCAL)
  <2>1. s \in DOMAIN conns /\ sn = conns[s].sn /\ sn \in Names
    BY <1>1, <1>3 DEF SessionName, Good, TableInv, Typed, Linked, Conn
  <2>2. Good(ds, nodes)
    <3> DEFINE K == {a \in DOMAIN conns :
                        a \in toscar__findconn(conns, sn) /\ conns[a].endpoint = NULL}
    <3>1. ds = [a \in DOMAIN conns |-> IF a \in K THEN [conns[a] EXCEPT !.closing = TRUE]
                                                  ELSE conns[a]]
      BY DEF toscar__detacholdconns
    <3> HIDE DEF K, ds
    <3> QED
      BY <3>1, KillManyKeeps
  <2>3. DOMAIN ds = DOMAIN conns
    BY DEF toscar__detacholdconns
  <2>4. Good(cs, nodes)
    BY <1>1, <2>2, <2>3, FieldsKeep
  <2>5. s \in toscar__findconn(cs, sn)
    <3>1. "SERVER" \in conns[s].type
      BY <1>3, <2>1 DEF Good, TableInv, Tagged
    <3>2. /\ DOMAIN cs = DOMAIN conns
          /\ cs[s] = ds[s] \/ cs[s] = [ds[s] EXCEPT !.online = TRUE]
          /\ ds[s] = conns[s] \/ ds[s] = [conns[s] EXCEPT !.closing = TRUE]
      BY <2>1, <2>3 DEF toscar__detacholdconns
    <3>3. conns[s] \in Conn /\ ds[s] \in Conn
      BY <2>1, <2>2, <2>3 DEF Good, TableInv, Typed
    <3>4. cs[s].type = conns[s].type /\ cs[s].sn = conns[s].sn
      <4>1. ds[s].type = conns[s].type /\ ds[s].sn = conns[s].sn
        BY <3>2, <3>3 DEF Conn
      <4> HIDE DEF ds, cs
      <4> QED
        BY <3>2, <3>3, <4>1 DEF Conn
    <3> QED
      BY <2>1, <3>1, <3>2, <3>4 DEF toscar__findconn
  <2> HIDE DEF sn, s, ds, cs, ns
  <2>6. GNR_NODE_METRIC_LOCAL \in Metric
    BY MetricAssumption DEF Metric, GNR_NODE_METRIC_LOCAL
  <2>7. Good(cs, ns)
    BY <2>1, <2>4, <2>5, <2>6, OnlineKeeps DEF Good, ns
  <2>8. c \in DOMAIN cs /\ Forward(cs, ns, c)
    BY <1>1, <1>3, <2>3 DEF toscar_snachandler_0001_0002, cs, ns, ds, sn
  <2> QED
    BY <2>7, <2>8, OutcomeKeeps
<1> QED
  BY <1>2, <1>3 DEF toscar_snachandler_0001_0002

\* An IM handed over goes to a client of its destination.
Delivers == Sided => DeliveredToOwner

\* Routing an IM keeps the tables good, and hands it only to a client of
\* its destination.
LEMMA RouteKeeps ==
    ASSUME Good(conns, nodes), NEW ns, Good(conns, ns),
           NEW src \in Names, NEW dst \in Names,
           gnr_msg_route(ns, src, dst), UNCHANGED conns
    PROVE  Good(conns, nodes)' /\ im' \in IM /\ Delivers'
<1>1. Good(conns, nodes)'
  <2>1. Good(conns, nodes')
    BY NodesKept DEF gnr_msg_route, Good
  <2> QED
    BY <2>1, GoodNext
<1>2. CASE im' \in {Fate("noroute", src, dst, NULL), Fate("noconn", src, dst, NULL)}
  BY <1>1, <1>2 DEF Fate, IM, Delivers, DeliveredToOwner
<1>3. ASSUME NEW s \in toscar__findconn(conns, src), im' = Fate("outgoing", src, dst, s)
      PROVE  im' \in IM /\ Delivers'
  BY <1>3 DEF Fate, IM, Delivers, DeliveredToOwner, toscar__findconn, Good, TableInv, Typed
<1>4. ASSUME NEW s \in toscar__findconn(conns, dst),
             im' = Fate(IF conns[s].endpoint = NULL THEN "noclient" ELSE "incoming",
                        src, dst, conns[s].endpoint)
      PROVE  im' \in IM /\ Delivers'
  <2>1. /\ s \in DOMAIN conns /\ conns[s].sn = dst /\ dst # NULL
        /\ conns[s].endpoint \in DOMAIN conns \cup {NULL}
        /\ conns[s].endpoint \in Addr \cup {NULL}
    BY NullIsNoName DEF toscar__findconn, Good, TableInv, Linked, Typed
  <2>2. Sided /\ conns[s].endpoint # NULL => dst \in conns[conns[s].endpoint].users
    BY <2>1 DEF Good, TableInv, Owned
  <2> QED
    BY <1>4, <2>1, <2>2 DEF Fate, IM, Delivers, DeliveredToOwner, Sided
<1> QED
  BY <1>1, <1>2, <1>3, <1>4 DEF gnr_msg_route, toscar_gnroutputfunc

-----------------------------------------------------------------------------
(* The inductive invariant *)

IInv == TypeOK /\ Good(conns, nodes) /\ Delivers /\ Guarded

\* The cookie cache stays well typed.
LEMMA CacheKeeps ==
    ASSUME CacheOK, Next
    PROVE  CacheOK'
<1>1. ASSUME NEW ck \in Cookies, NEW sn \in Names, ckcache' = toscar_ckcache_add(ck, sn)
      PROVE  CacheOK'
  BY <1>1, CookieAssumption DEF CacheOK, toscar_ckcache_add, Cookie
<1>2. ASSUME NEW ck \in Cookies, ckcache' = toscar_ckcache_rem(ck)
      PROVE  CacheOK'
  BY <1>2 DEF CacheOK, toscar_ckcache_rem
<1>3. CASE timerhandler
  BY <1>3 DEF timerhandler, toscar_ckcache_timer, CacheOK
<1>4. CASE Tick
  BY <1>4, CookieAssumption DEF Tick, CacheOK, Cookie
<1>5. CASE UNCHANGED ckcache
  BY <1>5 DEF CacheOK
<1>6. ASSUME NEW c \in Addr, ConnStep(c)
      PROVE  CacheOK'
  BY <1>5, <1>6 DEF ConnStep, connhandler_eof, CloseOnFlush, finishconnect
<1>7. ASSUME NEW c \in Addr, ClientStep(c)
      PROVE  CacheOK'
  BY <1>2, <1>5, <1>7 DEF ClientStep, toscar_snachandler_0017_0006, RefuseLogin,
     toscar_flap_handlechan1__newconn, toscar_snachandler_0001_0002,
     toscar_snachandler_0004_0006
<1>8. ASSUME NEW c \in Addr, HostStep(c)
      PROVE  CacheOK'
  BY <1>1, <1>5, <1>8 DEF HostStep, toscar_flap_handlechan1__conncomplete,
     toscar_snachandler_0001_0003, toscar_snachandler_0001_000b, connhandler_eof,
     toscar_snachandler_0017_0003, toscar_snachandler_0004_0007
<1> QED
  BY <1>3, <1>4, <1>5, <1>6, <1>7, <1>8 DEF Next, connhandler_incomingconn,
     gnr_node__timeout, signalhandler, toscar__force_disconnect

\* Every step of a client or a host keeps the tables good and delivers IMs
\* to their owners.
LEMMA PacketKeeps ==
    ASSUME IInv, NEW c \in Addr, ClientStep(c) \/ HostStep(c)
    PROVE  Good(conns, nodes)' /\ im' \in IM \cup {NULL} /\ Delivers'
<1>1. Good(conns, nodes) /\ CacheOK /\ prorogueall \in BOOLEAN /\ Guarded
  BY DEF IInv, TypeOK, CacheOK
<1>2. im' = NULL => im' \in IM \cup {NULL} /\ Delivers'
  BY DEF Delivers, DeliveredToOwner
<1>3. ASSUME NEW dst \in Names, toscar_snachandler_0004_0006(c, dst)
      PROVE  Good(conns, nodes)' /\ im' \in IM \cup {NULL} /\ Delivers'
  <2>1. c \in DOMAIN conns
    BY <1>3 DEF toscar_snachandler_0004_0006, CanRead
  <2>2. CASE FreeConn(conns, nodes, c) /\ im' = NULL
    BY <1>1, <1>2, <2>1, <2>2, OutcomeKeeps
  <2>3. CASE /\ SessionName(c) # NULL
             /\ gnr_msg_route(gnr_node_online(nodes, dst, GNR_NODE_METRIC_MAX),
                              SessionName(c), dst)
             /\ UNCHANGED conns
    <3> DEFINE ns == gnr_node_online(nodes, dst, GNR_NODE_METRIC_MAX)
    <3>1. SessionName(c) \in Names
      BY <1>1, <2>1, <2>3 DEF SessionName, Good, TableInv, Typed, Linked, Conn
    <3>2. Good(conns, ns)
      BY <1>1, OnlineKeeps, MetricAssumption DEF Good, Metric, GNR_NODE_METRIC_LOCAL
    <3> HIDE DEF ns
    <3>3. gnr_msg_route(ns, SessionName(c), dst)
      BY <2>3 DEF ns
    <3> QED
      BY <1>1, <2>3, <3>1, <3>2, <3>3, RouteKeeps
  <2> QED
    BY <1>3, <2>2, <2>3 DEF toscar_snachandler_0004_0006
<1>4. ASSUME NEW src \in Names, toscar_snachandler_0004_0007(c, src)
      PROVE  Good(conns, nodes)' /\ im' \in IM \cup {NULL} /\ Delivers'
  <2>1. c \in DOMAIN conns
    BY <1>4 DEF toscar_snachandler_0004_0007, CanRead
  <2>2. CASE FreeConn(conns, nodes, c) /\ im' = NULL
    BY <1>1, <1>2, <2>1, <2>2, OutcomeKeeps
  <2>3. CASE /\ conns[c].sn # NULL
             /\ gnr_msg_route(gnr_node_online(nodes, src, GNR_NODE_METRIC_MAX),
                              src, conns[c].sn)
             /\ UNCHANGED conns
    <3> DEFINE ns == gnr_node_online(nodes, src, GNR_NODE_METRIC_MAX)
    <3>1. conns[c].sn \in Names
      BY <1>1, <2>1, <2>3 DEF Good, TableInv, Typed, Conn
    <3>2. Good(conns, ns)
      BY <1>1, OnlineKeeps, MetricAssumption DEF Good, Metric, GNR_NODE_METRIC_LOCAL
    <3> HIDE DEF ns
    <3>3. gnr_msg_route(ns, src, conns[c].sn)
      BY <2>3 DEF ns
    <3> QED
      BY <1>1, <2>3, <3>1, <3>2, <3>3, RouteKeeps
  <2> QED
    BY <1>4, <2>2, <2>3 DEF toscar_snachandler_0004_0007
<1>5. ASSUME \/ (IsServer(c) => HostsLogIn) /\ toscar_snachandler_0017_0006(c)
             \/ \E ck \in Cookies : toscar_flap_handlechan1__newconn(c, ck)
      PROVE  Good(conns, nodes)' /\ im' = NULL
  BY <1>1, <1>5, LoginKeeps
     DEF toscar_snachandler_0017_0006, toscar_flap_handlechan1__newconn
<1>6. ASSUME toscar_snachandler_0001_0002(c)
      PROVE  Good(conns, nodes)' /\ im' = NULL
  BY <1>1, <1>6, ClientOnlineKeeps DEF toscar_snachandler_0001_0002
<1>7. ASSUME RefuseLogin(c)
      PROVE  Good(conns, nodes)' /\ im' = NULL
  <2>1. c \in DOMAIN conns /\ Good(naf_conn_schedulekill(conns, c), nodes)
    BY <1>1, <1>7, FieldsKeep DEF RefuseLogin, CanRead
  <2>2. c \in DOMAIN naf_conn_schedulekill(conns, c)
    BY <2>1 DEF naf_conn_schedulekill
  <2> QED
    BY <1>7, <2>1, <2>2, OutcomeKeeps DEF RefuseLogin
<1>8. ASSUME toscar_flap_handlechan1__conncomplete(c)
      PROVE  Good(conns, nodes)' /\ im' = NULL
  BY <1>1, <1>8, OutcomeKeeps DEF toscar_flap_handlechan1__conncomplete, CanRead
<1>9. ASSUME toscar_snachandler_0001_0003(c)
      PROVE  Good(conns, nodes)' /\ im' = NULL
  <2>1. c \in DOMAIN conns /\ Good([conns EXCEPT ![c].ready = IsServer(c)], nodes)
    BY <1>1, <1>9, FieldsKeep DEF toscar_snachandler_0001_0003, CanRead, IsServer
  <2>2. c \in DOMAIN [conns EXCEPT ![c].ready = IsServer(c)]
    BY <2>1
  <2> QED
    BY <1>9, <2>1, <2>2, OutcomeKeeps DEF toscar_snachandler_0001_0003
<1>10. ASSUME toscar_snachandler_0001_000b(c)
       PROVE  Good(conns, nodes)' /\ im' = NULL
  BY <1>1, <1>10, OutcomeKeeps DEF toscar_snachandler_0001_000b, connhandler_eof
<1>11. ASSUME \E ck \in Cookies, sn \in Names : toscar_snachandler_0017_0003(c, ck, sn)
       PROVE  Good(conns, nodes)' /\ im' = NULL
  BY <1>1, <1>11, OutcomeKeeps DEF toscar_snachandler_0017_0003, CanRead
<1> QED
  BY <1>2, <1>3, <1>4, <1>5, <1>6, <1>7, <1>8, <1>9, <1>10, <1>11
     DEF ClientStep, HostStep

\* Sockets, timers, configuration and operator keep the tables good too.
LEMMA OtherKeeps ==
    ASSUME IInv, Next, ~ \E c \in Addr : ClientStep(c) \/ HostStep(c)
    PROVE  Good(conns, nodes)' /\ im' = NULL
<1>1. Good(conns, nodes) /\ prorogueall \in BOOLEAN
  BY DEF IInv, TypeOK
<1>2. CASE connhandler_incomingconn
  <2>1. PICK a \in Addr \ DOMAIN conns :
            conns' = naf_conn_addconn(conns, a, FreshConn({"CLIENT"}))
    BY <1>2 DEF connhandler_incomingconn
  <2>2. nodes' = nodes /\ im' = NULL
    BY <1>2 DEF connhandler_incomingconn
  <2>3. TableInv(conns') /\ Backed(conns', nodes)
    BY <1>1, <2>1, AcceptKeeps DEF Good
  <2> QED
    BY <1>1, <2>2, <2>3 DEF Good, Backed, TypedNodes, toscar__findconn
<1>3. ASSUME NEW c \in Addr, ConnStep(c)
      PROVE  Good(conns, nodes)' /\ im' = NULL
  <2>1. CASE connhandler_eof(c) \/ CloseOnFlush(c)
    BY <1>1, <2>1, OutcomeKeeps DEF connhandler_eof, CloseOnFlush
  <2>2. CASE finishconnect(c)
    <3> DEFINE t == [conns EXCEPT ![c].type = @ \ {"CONNECTING"}]
    <3>1. c \in DOMAIN conns /\ Good(t, nodes) /\ conns' = t /\ nodes' = nodes
      BY <1>1, <2>2, FieldsKeep DEF finishconnect
    <3>2. c \in DOMAIN t
      BY <3>1
    <3> HIDE DEF t
    <3> QED
      BY <2>2, <3>1, <3>2, OutcomeKeeps DEF Keep, finishconnect
  <2> QED
    BY <1>3, <2>1, <2>2 DEF ConnStep
<1>4. CASE timerhandler
  <2>1. PICK K : conns' = [a \in DOMAIN conns |->
                    IF a \in K THEN [conns[a] EXCEPT !.closing = TRUE] ELSE conns[a]]
    BY <1>4 DEF timerhandler
  <2>2. Good(conns', nodes) /\ nodes' = nodes /\ im' = NULL
    BY <1>1, <1>4, <2>1, KillManyKeeps DEF timerhandler
  <2> QED
    BY <2>2 DEF Good, Backed, TypedNodes, toscar__findconn
<1>5. CASE gnr_node__timeout \/ Tick
  <2>1. Good(conns, nodes') /\ conns' = conns /\ im' = NULL
    BY <1>1, <1>5, NodesKept DEF gnr_node__timeout, Tick, Good
  <2> QED
    BY <2>1, GoodNext
<1>6. CASE signalhandler
  <2>1. conns' = conns /\ nodes' = nodes /\ im' = NULL
    BY <1>6 DEF signalhandler
  <2> QED
    BY <1>1, <2>1, GoodNext
<1>7. ASSUME NEW sn \in Names, toscar__force_disconnect(sn)
      PROVE  Good(conns, nodes)' /\ im' = NULL
  <2>1. PICK s \in DOMAIN conns : conns' = naf_conn_schedulekill(conns, s)
    BY <1>7 DEF toscar__force_disconnect, toscar__findconn
  <2>2. Good(conns', nodes) /\ nodes' = nodes /\ im' = NULL
    BY <1>1, <1>7, <2>1, FieldsKeep DEF toscar__force_disconnect
  <2> QED
    BY <2>2 DEF Good, Backed, TypedNodes, toscar__findconn
<1> QED
  BY <1>2, <1>3, <1>4, <1>5, <1>6, <1>7 DEF Next

\* No configuration change or crash leaves BOOLEAN.
LEMMA FlagsKeep ==
    ASSUME prorogueall \in BOOLEAN, crashed \in BOOLEAN, Next
    PROVE  prorogueall' \in BOOLEAN /\ crashed' \in BOOLEAN
<1> DEFINE Kept == prorogueall' = prorogueall /\ (crashed' = crashed \/ crashed' = TRUE)
<1>1. connhandler_incomingconn \/ timerhandler \/ gnr_node__timeout \/ Tick => Kept
  BY DEF connhandler_incomingconn, timerhandler, gnr_node__timeout, Tick
<1>2. ASSUME NEW c \in Addr, ConnStep(c)
      PROVE  Kept
  BY <1>2 DEF ConnStep, connhandler_eof, CloseOnFlush, finishconnect
<1>3. ASSUME NEW c \in Addr, ClientStep(c)
      PROVE  Kept
  BY <1>3 DEF ClientStep, toscar_snachandler_0017_0006, RefuseLogin,
     toscar_flap_handlechan1__newconn, toscar_snachandler_0001_0002, toscar_snachandler_0004_0006
<1>4. ASSUME NEW c \in Addr, HostStep(c)
      PROVE  Kept
  <2>1. ASSUME NEW ck \in Cookies, NEW sn \in Names, toscar_snachandler_0017_0003(c, ck, sn)
        PROVE  Kept
    BY <2>1, Zenon DEF toscar_snachandler_0017_0003
  <2>2. ASSUME NEW src \in Names, toscar_snachandler_0004_0007(c, src)
        PROVE  Kept
    BY <2>2 DEF toscar_snachandler_0004_0007
  <2>3. toscar_flap_handlechan1__conncomplete(c) => Kept
    BY DEF toscar_flap_handlechan1__conncomplete
  <2>4. toscar_snachandler_0001_0003(c) \/ toscar_snachandler_0001_000b(c) => Kept
    BY DEF toscar_snachandler_0001_0003, toscar_snachandler_0001_000b, connhandler_eof
  <2> QED
    BY <1>4, <2>1, <2>2, <2>3, <2>4 DEF HostStep
<1>5. ASSUME NEW sn \in Names, toscar__force_disconnect(sn)
      PROVE  Kept
  BY <1>5 DEF toscar__force_disconnect
<1>6. signalhandler => prorogueall' \in BOOLEAN /\ crashed' = crashed
  BY ProrogueAssumption DEF signalhandler
<1> QED
  BY <1>1, <1>2, <1>3, <1>4, <1>5, <1>6 DEF Next

\* The table only holds old connections with no more types than before, and
\* fresh ones.
LEMMA TypesStep ==
    ASSUME IInv, NoneSpared, ProrogueSettings = {FALSE}, Next
    PROVE  NoneSpared'
<1> DEFINE Plain(cs) == \A a \in DOMAIN cs : ~Spared(cs[a])
<1>1. Typed(conns) /\ Plain(conns) /\ prorogueall = FALSE
  BY DEF IInv, Good, TableInv, NoneSpared
<1>2. ASSUME NEW cs, Typed(cs), Plain(cs), NEW ns, NEW c \in DOMAIN cs, FreeConn(cs, ns, c)
      PROVE  Plain(conns')
  <2>1. PICK D : conns' = naf_conn_free(cs, D)
    BY <1>2 DEF FreeConn
  <2> QED
    BY <1>2, <2>1 DEF naf_conn_free, Unlinked, Spared, Typed, Conn
<1>3. ASSUME NEW cs, Typed(cs), Plain(cs), NEW ns, NEW c \in DOMAIN cs, Forward(cs, ns, c)
      PROVE  Plain(conns')
  BY <1>2, <1>3 DEF Forward, Keep
<1>4. CASE connhandler_incomingconn
  BY <1>1, <1>4 DEF connhandler_incomingconn, naf_conn_addconn, FreshConn, Prepared,
     Spared, NoneSpared
<1>5. ASSUME NEW c \in Addr, ConnStep(c)
      PROVE  Plain(conns')
  <2>1. CASE connhandler_eof(c) \/ CloseOnFlush(c)
    BY <1>1, <1>2, <2>1 DEF connhandler_eof, CloseOnFlush
  <2>2. CASE finishconnect(c)
    BY <1>1, <2>2 DEF finishconnect, Spared, Typed, Conn
  <2> QED
    BY <1>5, <2>1, <2>2 DEF ConnStep
<1>6. ASSUME NEW c \in DOMAIN conns, NEW a \in Addr \ DOMAIN conns,
             NEW inprogress, NEW sn,
             conns' = naf_conn_startconnect(conns, c, a, Peer(c, inprogress, sn))
      PROVE  Plain(conns')
  <2>1. ~Spared([Peer(c, inprogress, sn) EXCEPT !.endpoint = c])
    BY <1>1, <1>6 DEF Peer, FreshConn, Prepared, PeerType, Spared
  <2> QED
    BY <1>1, <1>6, <2>1 DEF naf_conn_startconnect, naf_conn_addconn, Spared, Typed, Conn
<1>7. ASSUME NEW c \in Addr, toscar_snachandler_0017_0006(c)
      PROVE  Plain(conns')
  BY <1>1, <1>2, <1>6, <1>7 DEF toscar_snachandler_0017_0006, CanRead, Keep
<1>8. ASSUME NEW c \in Addr, NEW ck \in Cookies, toscar_flap_handlechan1__newconn(c, ck)
      PROVE  Plain(conns')
  <2>1. c \in DOMAIN conns
    BY <1>8 DEF toscar_flap_handlechan1__newconn, CanRead
  <2>2. CASE FreeConn(conns, nodes, c)
    BY <1>1, <1>2, <2>1, <2>2
  <2>3. ASSUME NEW a \in Addr \ DOMAIN conns, NEW inprogress \in BOOLEAN, NEW sn,
               conns' = [naf_conn_startconnect(
                             conns, c, a, Peer(c, inprogress, sn))
                            EXCEPT ![c].users = @ \cup {sn}, ![c].online = FALSE]
        PROVE  Plain(conns')
    <3> DEFINE peer == [Peer(c, inprogress, sn) EXCEPT !.endpoint = c]
               client == [conns[c] EXCEPT !.endpoint = a, !.users = @ \cup {sn},
                                          !.online = FALSE]
    <3>1. ~Spared(peer)
      BY <1>1, <2>1 DEF Peer, FreshConn, Prepared, PeerType, Spared
    <3>2. conns[c] \in Conn
      BY <1>1, <2>1 DEF Typed
    <3>3. ~Spared(client)
      BY <1>1, <2>1, <3>2 DEF Spared, Conn
    <3>4. conns' = [x \in DOMAIN conns \cup {a} |->
                       IF x = a THEN peer ELSE IF x = c THEN client ELSE conns[x]]
      BY <2>1, <2>3, <3>2 DEF naf_conn_startconnect, naf_conn_addconn, Conn
    <3> HIDE DEF peer, client
    <3> QED
      BY <1>1, <3>1, <3>3, <3>4
  <2> QED
    BY <1>8, <2>2, <2>3 DEF toscar_flap_handlechan1__newconn
<1>9. ASSUME NEW c \in Addr, toscar_snachandler_0001_0002(c)
      PROVE  Plain(conns')
  <2>1. c \in DOMAIN conns
    BY <1>9 DEF toscar_snachandler_0001_0002, CanRead
  <2> DEFINE ds == toscar__detacholdconns(conns, SessionName(c))
             cs == [ds EXCEPT ![c].online = TRUE]
  <2>2. Typed(ds) /\ Plain(ds) /\ DOMAIN ds = DOMAIN conns
    <3>1. /\ DOMAIN ds = DOMAIN conns
          /\ \A a \in DOMAIN conns : ds[a] \in Conn /\ ds[a].type = conns[a].type
      BY <1>1 DEF toscar__detacholdconns, Typed, Conn
    <3>2. Typed(ds)
      BY <1>1, <3>1 DEF toscar__detacholdconns, Typed
    <3> HIDE DEF ds
    <3> QED
      BY <1>1, <3>1, <3>2 DEF Spared
  <2> HIDE DEF ds
  <2>3. Typed(cs) /\ Plain(cs) /\ c \in DOMAIN cs
    <3>1. /\ DOMAIN cs = DOMAIN ds
          /\ \A a \in DOMAIN ds : cs[a] \in Conn /\ cs[a].type = ds[a].type
      BY <2>1, <2>2 DEF Typed, Conn
    <3>2. Typed(cs)
      BY <2>2, <3>1 DEF Typed
    <3> HIDE DEF cs
    <3> QED
      BY <2>1, <2>2, <3>1, <3>2 DEF Spared
  <2>4. \/ FreeConn(conns, nodes, c)
        \/ \E ns : Forward(cs, ns, c)
    BY <1>9 DEF toscar_snachandler_0001_0002, ds
  <2> HIDE DEF cs
  <2> QED
    BY <1>1, <1>2, <1>3, <2>1, <2>3, <2>4
<1>10. ASSUME NEW c \in Addr, toscar_snachandler_0001_0003(c)
       PROVE  Plain(conns')
  <2> DEFINE cs == [conns EXCEPT ![c].ready = IsServer(c)]
  <2>1. Typed(cs) /\ Plain(cs) /\ c \in DOMAIN cs /\ Forward(cs, nodes, c)
    <3>1. c \in DOMAIN conns /\ IsServer(c) \in BOOLEAN
      BY <1>10 DEF toscar_snachandler_0001_0003, CanRead, IsServer
    <3> QED
      BY <1>1, <1>10, <3>1 DEF toscar_snachandler_0001_0003, Typed, Conn, Spared
  <2> HIDE DEF cs
  <2> QED
    BY <1>3, <2>1
<1>11. ASSUME NEW c \in Addr, \/ RefuseLogin(c)
                              \/ toscar_flap_handlechan1__conncomplete(c)
       PROVE  Plain(conns')
  BY <1>1, <1>11 DEF RefuseLogin, toscar_flap_handlechan1__conncomplete, CanRead, Keep,
     naf_conn_schedulekill, Typed, Conn, Spared
<1>12. ASSUME NEW c \in Addr,
              \/ \E n \in Names : \/ toscar_snachandler_0004_0006(c, n)
                                 \/ toscar_snachandler_0004_0007(c, n)
              \/ toscar_snachandler_0001_000b(c)
              \/ \E ck \in Cookies, sn \in Names : toscar_snachandler_0017_0003(c, ck, sn)
       PROVE  Plain(conns')
  BY <1>1, <1>2, <1>12 DEF toscar_snachandler_0004_0006, toscar_snachandler_0004_0007,
     toscar_snachandler_0001_000b, toscar_snachandler_0017_0003, connhandler_eof,
     CanRead, Keep
<1>13. CASE timerhandler \/ \E sn \in Names : toscar__force_disconnect(sn)
  BY <1>1, <1>13 DEF timerhandler, toscar__force_disconnect, toscar__findconn,
     naf_conn_schedulekill, Typed, Conn, Spared, NoneSpared
<1>14. CASE gnr_node__timeout \/ Tick \/ signalhandler
  BY <1>1, <1>14 DEF gnr_node__timeout, Tick, signalhandler, NoneSpared
<1>15. prorogueall' = FALSE
  BY <1>1 DEF Next, ConnStep, ClientStep, HostStep,
     connhandler_incomingconn, connhandler_eof, CloseOnFlush, finishconnect,
     toscar_snachandler_0017_0006, RefuseLogin, toscar_flap_handlechan1__newconn,
     toscar_snachandler_0001_0002, toscar_snachandler_0004_0006,
     toscar_flap_handlechan1__conncomplete, toscar_snachandler_0001_0003,
     toscar_snachandler_0001_000b, toscar_snachandler_0017_0003,
     toscar_snachandler_0004_0007, timerhandler, gnr_node__timeout, signalhandler,
     toscar__force_disconnect, Tick
<1> QED
  BY <1>4, <1>5, <1>7, <1>8, <1>9, <1>10, <1>11, <1>12, <1>13, <1>14, <1>15
     DEF Next, ClientStep, HostStep, NoneSpared

\* The initial state satisfies the inductive invariant.
LEMMA InitEstablishes == Init => IInv
  BY ProrogueAssumption DEF Init, IInv, TypeOK, Good, TableInv, Typed, OneSide, Linked,
     Paired, NoOrphan, Tagged, Owned, TypedNodes, Backed, Delivers, DeliveredToOwner,
     Guarded, NoneSpared

\* Every step preserves the inductive invariant.
LEMMA StepPreserves == IInv /\ [Next]_vars => IInv'
<1>1. ASSUME IInv, Next
      PROVE  IInv'
  <2>1. Good(conns, nodes)' /\ im' \in IM \cup {NULL} /\ Delivers'
    <3>1. CASE \E c \in Addr : ClientStep(c) \/ HostStep(c)
      BY <1>1, <3>1, PacketKeeps
    <3>2. CASE ~ \E c \in Addr : ClientStep(c) \/ HostStep(c)
      <4>1. Good(conns, nodes)' /\ im' = NULL
        BY <1>1, <3>2, OtherKeeps
      <4> QED
        BY <4>1 DEF Delivers, DeliveredToOwner
    <3> QED
      BY <3>1, <3>2
  <2>2. CacheOK'
    BY <1>1, CacheKeeps DEF IInv, TypeOK, CacheOK
  <2>3. prorogueall' \in BOOLEAN /\ crashed' \in BOOLEAN
    BY <1>1, FlagsKeep DEF IInv, TypeOK
  <2>4. Guarded'
    BY <1>1, TypesStep DEF IInv, Guarded
  <2> QED
    BY <2>1, <2>2, <2>3, <2>4 DEF IInv, TypeOK, Good, TableInv, Typed, TypedNodes, CacheOK
<1>2. ASSUME IInv, UNCHANGED vars
      PROVE  IInv'
  <2>1. Good(conns, nodes)'
    BY <1>2, GoodNext DEF IInv, vars
  <2>2. Delivers' /\ Guarded'
    <3>1. Sided' <=> Sided
      BY DEF Sided
    <3> QED
      BY <1>2, <3>1 DEF IInv, vars, Delivers, DeliveredToOwner, Guarded, NoneSpared
  <2> QED
    BY <1>2, <2>1, <2>2 DEF IInv, vars, TypeOK
<1> QED
  BY <1>1, <1>2

\* The inductive invariant holds in every reachable state.
THEOREM Invariance == Spec => []IInv
  BY InitEstablishes, StepPreserves, PTL DEF Spec

-----------------------------------------------------------------------------
(* What it establishes *)

\* Type correctness of the whole proxy state.
THEOREM TypeCorrect == Spec => []TypeOK
<1>1. IInv => TypeOK
  BY DEF IInv
<1> QED
  BY <1>1, Invariance, PTL

\* No dangling endpoint pointer, ever: the comment in front of remendpoint
\* worries about pointers other than the dead connection's own, and the
\* cascade clears those as well.
THEOREM NoDanglingEndpoint == Spec => []LinksLive
<1>1. IInv => LinksLive
  BY DEF IInv, Good, TableInv, Linked, LinksLive
<1> QED
  BY <1>1, Invariance, PTL

\* A client and the server connection opened for it point at each other.
THEOREM ClientsPaired ==
    ASSUME Sided
    PROVE  Spec => []ClientPaired
<1>1. IInv => ClientPaired
  BY DEF IInv, Good, TableInv, Linked, OneSide, Paired, ClientPaired, IsClient, IsServer
<1> QED
  BY <1>1, Invariance, PTL

\* A server connection that is not prorogued never outlives its client.
THEOREM NoOrphans == Spec => []NoOrphanServer
<1>1. IInv => NoOrphanServer
  BY DEF IInv, Good, TableInv, NoOrphan, NoOrphanServer, IsServer
<1> QED
  BY <1>1, Invariance, PTL

\* Screen name tags always belong to the client that presented the cookie.
THEOREM SessionsOwned ==
    ASSUME Sided
    PROVE  Spec => []SessionOwnsName
<1>1. IInv => SessionOwnsName
  BY DEF IInv, Good, TableInv, Linked, Paired, Tagged, Owned, SessionOwnsName, IsServer,
     IsClient
<1> QED
  BY <1>1, Invariance, PTL

\* IMs are only handed to clients logged in as their destination.
THEOREM Delivery ==
    ASSUME Sided
    PROVE  Spec => []DeliveredToOwner
<1>1. IInv => DeliveredToOwner
  BY DEF IInv, Delivers
<1> QED
  BY <1>1, Invariance, PTL

\* No local node outlives the last server connection of its user.
THEOREM NodesBacked == Spec => []LocalNodeBacked
<1>1. IInv => LocalNodeBacked
  BY DEF IInv, Good, Backed, LocalNodeBacked
<1> QED
  BY <1>1, Invariance, PTL

-----------------------------------------------------------------------------
(* Without enableprorogueall no host meets a null endpoint *)

\* The step relation HostsCannotCrash asks for.
CrashStep ==
    ~crashed /\ crashed' => \E c \in DOMAIN conns : IsClient(c) /\ conns[c].endpoint = NULL

\* 0017/0003 is the only handler that crashes, and only without an endpoint;
\* every connection to a host has one.
LEMMA NextCrashes ==
    ASSUME IInv, ProrogueSettings = {FALSE}, Next
    PROVE  CrashStep
<1>1. ASSUME NEW s \in Addr, NEW ck \in Cookies, NEW sn \in Names,
             toscar_snachandler_0017_0003(s, ck, sn)
      PROVE  CrashStep
  <2>1. CASE conns[s].endpoint # NULL
    BY <1>1, <2>1 DEF toscar_snachandler_0017_0003, CrashStep
  <2>2. CASE conns[s].endpoint = NULL
    <3>1. s \in DOMAIN conns
      BY <1>1 DEF toscar_snachandler_0017_0003, CanRead
    <3>2. "SERVER" \notin conns[s].type
      BY <2>2, <3>1 DEF IInv, Good, TableInv, NoOrphan, Guarded, NoneSpared
    <3>3. IsClient(s)
      BY <3>1, <3>2 DEF IInv, Good, TableInv, OneSide, Sided, IsClient
    <3> QED
      BY <2>2, <3>1, <3>3 DEF CrashStep
  <2> QED
    BY <2>1, <2>2
<1>2. CASE crashed' = crashed
  BY <1>2 DEF CrashStep
<1> QED
  BY <1>1, <1>2 DEF Next, ConnStep, ClientStep, HostStep,
     connhandler_incomingconn, connhandler_eof, CloseOnFlush, finishconnect,
     toscar_snachandler_0017_0006, RefuseLogin, toscar_flap_handlechan1__newconn,
     toscar_snachandler_0001_0002, toscar_snachandler_0004_0006,
     toscar_flap_handlechan1__conncomplete, toscar_snachandler_0001_0003,
     toscar_snachandler_0001_000b, toscar_snachandler_0004_0007, timerhandler,
     gnr_node__timeout, signalhandler, toscar__force_disconnect, Tick

\* With enableprorogueall off (the default), the null endpoint of 0017/0003
\* is only ever met on the connection of a client that has not logged in:
\* nothing a host sends, in any order, makes the process die.
THEOREM HostsNeverCrash ==
    ASSUME ProrogueSettings = {FALSE}
    PROVE  Spec => HostsCannotCrash
<1>1. IInv /\ [Next]_vars => [CrashStep]_vars
  BY NextCrashes
<1>2. Spec => [][CrashStep]_vars
  BY <1>1, Invariance, PTL DEF Spec
<1> QED
  BY <1>2 DEF HostsCannotCrash, CrashStep

-----------------------------------------------------------------------------
(* When a local node goes down *)

\* The step relation LocalNodeKept asks for.
KeptStep ==
    \A n \in DOMAIN nodes \ DOMAIN nodes' :
        IsLocal(nodes[n]) =>
            /\ \E a \in DOMAIN conns \ DOMAIN conns' : conns[a].sn = n
            /\ \A s \in toscar__findconn(conns', n) : conns'[s].endpoint = NULL

\* Freeing a connection of a table that carries the names of conns.
LEMMA FreeKept ==
    ASSUME Typed(conns), NEW cs, Typed(cs), DOMAIN cs = DOMAIN conns,
           \A a \in DOMAIN conns : cs[a].sn = conns[a].sn,
           NEW ns, DOMAIN nodes \subseteq DOMAIN ns,
           NEW c \in DOMAIN cs, FreeConn(cs, ns, c)
    PROVE  KeptStep
<1> DEFINE D == Doomed(cs, c)
<1>1. PICK G \in SUBSET MayGoOffline(cs, D) : /\ conns' = naf_conn_free(cs, D)
                                              /\ nodes' = Without(ns, G)
  BY DEF FreeConn
<1>2. D \subseteq DOMAIN cs
  BY DoomedClosed
<1> HIDE DEF D
<1>3. /\ DOMAIN conns' = DOMAIN cs \ D
      /\ \A a \in DOMAIN conns' : conns'[a] = Unlinked(cs[a], D)
  BY <1>1 DEF naf_conn_free
<1>4. \A a \in DOMAIN conns' :
         /\ conns'[a].type = cs[a].type /\ conns'[a].sn = cs[a].sn
         /\ cs[a].endpoint \in D \cup {NULL} => conns'[a].endpoint = NULL
  BY <1>3 DEF Unlinked, Typed, Conn
<1>5. ASSUME NEW n \in DOMAIN nodes \ DOMAIN nodes'
      PROVE  /\ \E a \in DOMAIN conns \ DOMAIN conns' : conns[a].sn = n
             /\ \A s \in toscar__findconn(conns', n) : conns'[s].endpoint = NULL
  <2>1. n \in MayGoOffline(cs, D)
    BY <1>1, <1>5 DEF Without
  <2>2. PICK a \in D : cs[a].sn = n
    BY <2>1 DEF MayGoOffline
  <2>3. \E a_1 \in DOMAIN conns \ DOMAIN conns' : conns[a_1].sn = n
    BY <1>2, <1>3, <2>2
  <2>4. ASSUME NEW s \in toscar__findconn(conns', n)
        PROVE  conns'[s].endpoint = NULL
    <3>1. s \in DOMAIN conns' /\ s \in OtherServers(cs, D, n)
      BY <1>3, <1>4, <2>4 DEF toscar__findconn, OtherServers
    <3>2. cs[s].endpoint \in D \cup {NULL}
      BY <2>1, <3>1 DEF MayGoOffline
    <3> QED
      BY <1>4, <3>1, <3>2
  <2> QED
    BY <2>3, <2>4
<1> QED
  BY <1>5 DEF KeptStep

\* Every step takes local nodes down the way LocalNodeKept says.
LEMMA NextKept ==
    ASSUME IInv, Next
    PROVE  KeptStep
<1>1. Typed(conns) /\ Linked(conns)
  BY DEF IInv, Good, TableInv
<1>2. CASE DOMAIN nodes \subseteq DOMAIN nodes'
  BY <1>2 DEF KeptStep
<1>3. \A ns, n, metric : DOMAIN ns \subseteq DOMAIN gnr_node_online(ns, n, metric)
  BY DEF gnr_node_online
<1>4. \A ns, G : DOMAIN gnr_node_usehit(ns, G) = DOMAIN ns
  BY DEF gnr_node_usehit
<1>5. ASSUME NEW c \in DOMAIN conns, FreeConn(conns, nodes, c)
      PROVE  KeptStep
  BY <1>1, <1>5, FreeKept
<1>6. ASSUME NEW c \in Addr, \/ connhandler_eof(c) \/ CloseOnFlush(c)
                              \/ toscar_snachandler_0001_000b(c)
      PROVE  KeptStep
  BY <1>5, <1>6 DEF connhandler_eof, CloseOnFlush, toscar_snachandler_0001_000b
<1>7. ASSUME NEW c \in Addr, toscar_snachandler_0001_0002(c)
      PROVE  KeptStep
  <2>1. c \in DOMAIN conns
    BY <1>7 DEF toscar_snachandler_0001_0002, CanRead
  <2> DEFINE ds == toscar__detacholdconns(conns, SessionName(c))
             cs == [ds EXCEPT ![c].online = TRUE]
             ns == gnr_node_online(nodes, SessionName(c), GNR_NODE_METRIC_LOCAL)
  <2>2. /\ DOMAIN ds = DOMAIN conns
        /\ \A a \in DOMAIN conns : ds[a] \in Conn /\ ds[a].sn = conns[a].sn
    BY <1>1 DEF toscar__detacholdconns, Typed, Conn
  <2>3. \/ FreeConn(conns, nodes, c)
        \/ Forward(cs, ns, c)
    BY <1>7 DEF toscar_snachandler_0001_0002
  <2>4. ds \in [DOMAIN ds -> Conn]
    BY <2>2 DEF toscar__detacholdconns
  <2> HIDE DEF ds
  <2>5. /\ DOMAIN cs = DOMAIN conns
        /\ \A a \in DOMAIN conns : cs[a] \in Conn /\ cs[a].sn = conns[a].sn
    BY <2>1, <2>2, <2>4 DEF Conn
  <2>6. Typed(cs)
    BY <1>1, <2>5 DEF Typed
  <2> HIDE DEF cs, ns
  <2>7. DOMAIN nodes \subseteq DOMAIN ns
    BY <1>3 DEF ns
  <2>8. FreeConn(cs, ns, c) => KeptStep
    BY <1>1, <2>1, <2>5, <2>6, <2>7, FreeKept
  <2>9. Keep(cs, ns) => KeptStep
    BY <1>2, <2>7 DEF Keep
  <2> QED
    BY <1>5, <2>1, <2>3, <2>8, <2>9 DEF Forward
<1>8. ASSUME NEW c \in Addr, toscar_snachandler_0001_0003(c)
      PROVE  KeptStep
  <2> DEFINE cs == [conns EXCEPT ![c].ready = IsServer(c)]
  <2>1. c \in DOMAIN conns /\ Forward(cs, nodes, c) /\ IsServer(c) \in BOOLEAN
    BY <1>8 DEF toscar_snachandler_0001_0003, CanRead, IsServer
  <2>2. /\ DOMAIN cs = DOMAIN conns
        /\ \A a \in DOMAIN conns : cs[a] \in Conn /\ cs[a].sn = conns[a].sn
    BY <1>1, <2>1 DEF Typed, Conn
  <2>3. Typed(cs)
    BY <1>1, <2>2 DEF Typed
  <2> HIDE DEF cs
  <2> QED
    BY <1>1, <1>2, <2>1, <2>2, <2>3, FreeKept DEF Forward, Keep
<1>9. ASSUME NEW c \in Addr,
             \/ toscar_snachandler_0017_0006(c)
             \/ \E ck \in Cookies : toscar_flap_handlechan1__newconn(c, ck)
             \/ \E ck \in Cookies, sn \in Names : toscar_snachandler_0017_0003(c, ck, sn)
      PROVE  KeptStep
  BY <1>2, <1>5, <1>9 DEF toscar_snachandler_0017_0006, toscar_flap_handlechan1__newconn,
     toscar_snachandler_0017_0003, CanRead, Keep
<1>10. ASSUME NEW c \in Addr, NEW n \in Names,
              \/ toscar_snachandler_0004_0006(c, n) \/ toscar_snachandler_0004_0007(c, n)
       PROVE  KeptStep
  BY <1>2, <1>3, <1>4, <1>5, <1>10 DEF toscar_snachandler_0004_0006,
     toscar_snachandler_0004_0007, gnr_msg_route, CanRead
<1>11. ASSUME NEW c \in Addr, \/ finishconnect(c) \/ RefuseLogin(c)
                               \/ toscar_flap_handlechan1__conncomplete(c)
       PROVE  KeptStep
  BY <1>2, <1>11 DEF finishconnect, RefuseLogin, toscar_flap_handlechan1__conncomplete, Keep
<1>12. CASE gnr_node__timeout
  BY <1>12 DEF gnr_node__timeout, gnr_node__hash_timeout, Without, TimedOut, KeptStep
<1>13. CASE \/ connhandler_incomingconn \/ timerhandler \/ signalhandler \/ Tick
            \/ \E sn \in Names : toscar__force_disconnect(sn)
  BY <1>2, <1>13 DEF connhandler_incomingconn, timerhandler, signalhandler, Tick, Aged,
     toscar__force_disconnect
<1> QED
  BY <1>6, <1>7, <1>8, <1>9, <1>10, <1>11, <1>12, <1>13
     DEF Next, ConnStep, ClientStep, HostStep

\* A local node goes down only in a step that frees a connection of its
\* user, and only if no other connection of the user has a client.
THEOREM LocalNodesKept == Spec => LocalNodeKept
<1>1. IInv /\ [Next]_vars => [KeptStep]_vars
  BY NextKept
<1>2. Spec => [][KeptStep]_vars
  BY <1>1, Invariance, PTL DEF Spec
<1> QED
  BY <1>2 DEF LocalNodeKept, KeptStep

-----------------------------------------------------------------------------
(***************************************************************************)
(* The proxy implements UserSessions: what Toscar does to connections,     *)
(* cookies and nodes looks to its users like the sessions, the presence    *)
(* and the delivery that UserSessions promises.  The refinement mapping is *)
(* the instance Seen of module Toscar; the inductive invariant IInv above  *)
(* supplies what the mapping needs to know about reachable tables.         *)
(***************************************************************************)

(* What the mapping looks at *)

\* t tags the connections of cs alike and links the tagged ones alike.
SameSessions(cs, t) ==
    /\ {s \in DOMAIN t : t[s].sn # NULL} = {s \in DOMAIN cs : cs[s].sn # NULL}
    /\ \A s \in {s \in DOMAIN cs : cs[s].sn # NULL} :
          t[s].sn = cs[s].sn /\ t[s].endpoint = cs[s].endpoint

\* Tables that agree on that show the same sessions.
LEMMA SessionsKept ==
    ASSUME NEW cs, NEW t, SameSessions(cs, t)
    PROVE  SessionsOf(t) = SessionsOf(cs)
  BY DEF SessionsOf, SameSessions

\* Using and aging nodes, timing out external ones, and bringing up an
\* external one change nobody's presence.
LEMMA PresenceKept ==
    ASSUME NEW ns, TypedNodes(ns)
    PROVE  /\ \A G : PresentIn(gnr_node_usehit(ns, G)) = PresentIn(ns)
           /\ PresentIn(Aged(ns)) = PresentIn(ns)
           /\ PresentIn(gnr_node__hash_timeout(ns)) = PresentIn(ns)
           /\ \A n \in Names :
                 PresentIn(gnr_node_online(ns, n, GNR_NODE_METRIC_MAX)) = PresentIn(ns)
<1>1. ASSUME NEW G
      PROVE  PresentIn(gnr_node_usehit(ns, G)) = PresentIn(ns)
  BY DEF gnr_node_usehit, PresentIn, IsLocal, TypedNodes, Node
<1>2. PresentIn(Aged(ns)) = PresentIn(ns)
  BY DEF Aged, PresentIn, IsLocal, TypedNodes, Node
<1>3. PresentIn(gnr_node__hash_timeout(ns)) = PresentIn(ns)
  BY DEF gnr_node__hash_timeout, Without, TimedOut, PresentIn
<1>4. ASSUME NEW n \in Names
      PROVE  PresentIn(gnr_node_online(ns, n, GNR_NODE_METRIC_MAX)) = PresentIn(ns)
  BY MetricAssumption DEF gnr_node_online, NewNode, PresentIn, IsLocal, GNR_NODE_METRIC_LOCAL
<1> QED
  BY <1>1, <1>2, <1>3, <1>4

\* Client Online makes at most the session's user present.
LEMMA PresenceRaised ==
    ASSUME NEW ns, NEW n \in Names
    PROVE  PresentIn(gnr_node_online(ns, n, GNR_NODE_METRIC_LOCAL))
              \in {PresentIn(ns), PresentIn(ns) \cup {n}}
  BY DEF gnr_node_online, NewNode, PresentIn, IsLocal

-----------------------------------------------------------------------------
(* The steps *)

\* A step that shows the same sessions and users, and hands over nothing.
LEMMA OtherStep ==
    ASSUME SessionsOf(conns') = SessionsOf(conns), PresentIn(nodes') = PresentIn(nodes),
           im' = NULL
    PROVE  Seen!Other
  BY DEF Seen!Other, Handed, SessionsOf, PresentIn, IsLocal

\* naf_conn_free and its tag destructors, on tables that show the sessions
\* of conns and the users P: the sessions of the freed connections end, those
\* whose client was freed lose it, and freetag takes down the users that
\* UserSessions allows to disappear.
LEMMA FreeLeaves ==
    ASSUME NEW cs, TableInv(cs), SessionsOf(cs) = SessionsOf(conns),
           NEW ns, NEW c \in DOMAIN cs, FreeConn(cs, ns, c), im' = NULL
    PROVE  \E S, L \in SUBSET DOMAIN SessionsOf(conns) : Seen!Leave(S, L, PresentIn(ns))
<1> DEFINE D == Doomed(cs, c)
           old == SessionsOf(cs)
           new == SessionsOf(conns')
           S == DOMAIN old \ D
           L == {s \in DOMAIN old : cs[s].endpoint \in D}
           ended == {old[i].user : i \in DOMAIN old \ S}
<1>1. PICK G \in SUBSET MayGoOffline(cs, D) : /\ MustGoOffline(cs, D) \subseteq G
                                              /\ conns' = naf_conn_free(cs, D)
                                              /\ nodes' = Without(ns, G)
  BY DEF FreeConn
<1>2. D \subseteq DOMAIN cs /\ Typed(cs)
  BY DoomedClosed DEF TableInv
<1> HIDE DEF D
<1>3. /\ DOMAIN conns' = DOMAIN cs \ D
      /\ \A a \in DOMAIN conns' : conns'[a] = Unlinked(cs[a], D)
  BY <1>1 DEF naf_conn_free
<1>4. \A a \in DOMAIN conns' :
         /\ conns'[a].sn = cs[a].sn
         /\ conns'[a].endpoint = IF cs[a].endpoint \in D THEN NULL ELSE cs[a].endpoint
  BY <1>2, <1>3 DEF Unlinked, Typed, Conn
<1>5. /\ DOMAIN old = {s \in DOMAIN cs : cs[s].sn # NULL}
      /\ \A s \in DOMAIN old : /\ old[s] = [user |-> cs[s].sn, client |-> cs[s].endpoint]
                               /\ old[s].user = cs[s].sn
                               /\ old[s].client = cs[s].endpoint
  BY DEF SessionsOf
<1>6. /\ DOMAIN new = S
      /\ \A s \in S : /\ new[s] = [user |-> conns'[s].sn, client |-> conns'[s].endpoint]
                      /\ new[s].user = conns'[s].sn
                      /\ new[s].client = conns'[s].endpoint
  BY <1>3, <1>4, <1>5 DEF SessionsOf
<1> HIDE DEF old, new
<1>7. new = [i \in S |-> IF i \in L THEN [old[i] EXCEPT !.client = NULL] ELSE old[i]]
  <2>1. ASSUME NEW i \in S
        PROVE  new[i] = IF i \in L THEN [old[i] EXCEPT !.client = NULL] ELSE old[i]
    <3>1. /\ i \in DOMAIN old /\ i \in DOMAIN conns'
          /\ old[i] = [user |-> cs[i].sn, client |-> cs[i].endpoint]
          /\ new[i] = [user |-> cs[i].sn, client |-> conns'[i].endpoint]
      BY <1>3, <1>4, <1>5, <1>6
    <3>2. CASE i \in L
      BY <1>4, <3>1, <3>2
    <3>3. CASE i \notin L
      BY <1>4, <3>1, <3>3
    <3> QED
      BY <3>2, <3>3
  <2>2. new = [i \in DOMAIN new |-> new[i]]
    BY DEF SessionsOf, new
  <2> HIDE DEF S, L
  <2> QED
    BY <1>6, <2>1, <2>2
<1>8. PresentIn(nodes') = PresentIn(ns) \ G
  BY <1>1 DEF PresentIn, Without
<1>9. ASSUME NEW u \in PresentIn(ns) \ PresentIn(nodes')
      PROVE  u \in ended \ Seen!Attended(new)
  <2>1. u \in MayGoOffline(cs, D) /\ u # NULL
    BY <1>1, <1>8 DEF MayGoOffline
  <2>2. PICK a \in D : cs[a].sn = u
    BY <2>1 DEF MayGoOffline
  <2>3. u \in ended
    BY <1>2, <1>5, <2>1, <2>2
  <2>4. ASSUME NEW s \in S, new[s].user = u
        PROVE  new[s].client = NULL
    <3>1. s \in DOMAIN cs \ D /\ cs[s].sn = u
      BY <1>3, <1>4, <1>5, <1>6, <2>4
    <3>2. s \in OtherServers(cs, D, u)
      BY <2>1, <3>1 DEF OtherServers, toscar__findconn, TableInv, Tagged
    <3>3. cs[s].endpoint \in D \cup {NULL}
      BY <2>1, <3>2 DEF MayGoOffline
    <3> QED
      BY <1>3, <1>4, <1>6, <3>1, <3>3
  <2> HIDE DEF S, L
  <2>5. u \notin Seen!Attended(new)
    BY <1>6, <2>4 DEF Seen!Attended
  <2> QED
    BY <2>3, <2>5
<1>10. ASSUME NEW u \in PresentIn(nodes') \cap ended
       PROVE  u \in Seen!UsersOf(new)
  <2>1. u \notin MustGoOffline(cs, D)
    BY <1>1, <1>8
  <2>2. PICK a \in D : a \in DOMAIN old /\ cs[a].sn = u
    BY <1>5
  <2>3. u \in {cs[b].sn : b \in D} \ {NULL}
    BY <1>5, <2>2
  <2>4. PICK s \in OtherServers(cs, D, u) : cs[s].endpoint # NULL
    BY <2>1, <2>3 DEF MustGoOffline
  <2>5. s \in S /\ new[s].user = u
    BY <1>3, <1>4, <1>5, <1>6, <2>3, <2>4 DEF OtherServers, toscar__findconn
  <2> HIDE DEF S, L
  <2> QED
    BY <1>6, <2>5 DEF Seen!UsersOf
<1>11. S \in SUBSET DOMAIN SessionsOf(conns) /\ L \in SUBSET DOMAIN SessionsOf(conns)
  BY DEF old
<1>12. Handed(im') = NULL
  BY DEF Handed
<1>13. ASSUME old = SessionsOf(conns)
       PROVE  Seen!Leave(S, L, PresentIn(ns))
  <2> HIDE DEF S, L
  <2> QED
    BY <1>7, <1>8, <1>9, <1>10, <1>11, <1>12, <1>13 DEF Seen!Leave, new
<1> QED
  BY <1>11, <1>13 DEF old

\* The end of a connection of conns is the end of some sessions, or nothing
\* its users notice.
LEMMA FreeEnds ==
    ASSUME Good(conns, nodes), NEW c \in DOMAIN conns,
           FreeConn(conns, nodes, c), im' = NULL
    PROVE  Seen!End
<1>1. TableInv(conns)
  BY DEF Good
<1>2. \E S, L \in SUBSET DOMAIN SessionsOf(conns) : Seen!Leave(S, L, PresentIn(nodes))
  BY <1>1, FreeLeaves
<1> QED
  BY <1>2 DEF Seen!End

\* 0017/0006 opens a connection without a name, which is no session.
LEMMA AuthorizerStep ==
    ASSUME IInv, Sided, NEW c \in Addr, IsServer(c) => HostsLogIn,
           toscar_snachandler_0017_0006(c)
    PROVE  Seen!Other \/ Seen!End
<1>1. /\ c \in DOMAIN conns /\ conns[c] \in Conn
      /\ Good(conns, nodes) /\ TableInv(conns) /\ im' = NULL
  BY DEF toscar_snachandler_0017_0006, CanRead, IInv, Good, TableInv, Typed
<1>2. CASE FreeConn(conns, nodes, c)
  BY <1>1, <1>2, FreeEnds
<1>3. CASE Keep(conns, nodes)
  BY <1>1, <1>3, OtherStep DEF Keep
<1>4. ASSUME conns[c].endpoint = NULL, NEW a \in Addr \ DOMAIN conns,
             NEW inprogress \in BOOLEAN,
             conns' = naf_conn_startconnect(conns, c, a, Peer(c, inprogress, NULL)),
             nodes' = nodes
      PROVE  Seen!Other
  <2> DEFINE peer == [Peer(c, inprogress, NULL) EXCEPT !.endpoint = c]
             client == [conns[c] EXCEPT !.endpoint = a]
  <2>1. peer.sn = NULL /\ client.sn = NULL /\ conns[c].sn = NULL
    BY <1>1, <1>4, SenderIsClient DEF IInv, Peer, FreshConn, Conn
  <2>2. conns' = [x \in DOMAIN conns \cup {a} |->
                     IF x = a THEN peer ELSE IF x = c THEN client ELSE conns[x]]
    BY <1>1, <1>4 DEF naf_conn_startconnect, naf_conn_addconn
  <2> HIDE DEF peer, client
  <2>3. SameSessions(conns, conns')
    BY <1>1, <2>1, <2>2 DEF SameSessions
  <2> QED
    BY <1>1, <1>4, <2>3, SessionsKept, OtherStep
<1> QED
  BY <1>2, <1>3, <1>4 DEF toscar_snachandler_0017_0006

\* Channel 1 with a cookie of the cache is a login as the cookie's user.
LEMMA CookieStep ==
    ASSUME IInv, Sided, NEW c \in Addr, NEW ck \in Cookies,
           toscar_flap_handlechan1__newconn(c, ck)
    PROVE  \/ Seen!End
           \/ \E i, k \in Addr, u \in Names : Seen!Login(i, u, k)
<1>1. /\ c \in DOMAIN conns /\ "CLIENT" \in conns[c].type /\ conns[c] \in Conn
      /\ Good(conns, nodes) /\ TableInv(conns) /\ im' = NULL
  BY DEF toscar_flap_handlechan1__newconn, CanRead, IsClient, IInv, Good, TableInv, Typed
<1>2. CASE FreeConn(conns, nodes, c)
  BY <1>1, <1>2, FreeEnds
<1>3. ASSUME NEW a \in Addr \ DOMAIN conns, NEW inprogress \in BOOLEAN,
             NEW sn \in Names,
             conns' = [naf_conn_startconnect(
                           conns, c, a, Peer(c, inprogress, sn))
                          EXCEPT ![c].users = @ \cup {sn}, ![c].online = FALSE],
             nodes' = nodes
      PROVE  Seen!Login(a, sn, c)
  <2> DEFINE peer == [Peer(c, inprogress, sn) EXCEPT !.endpoint = c]
             client == [conns[c] EXCEPT !.endpoint = a, !.users = @ \cup {sn},
                                        !.online = FALSE]
  <2>1. /\ peer.sn = sn /\ peer.endpoint = c /\ sn # NULL
        /\ client.sn = NULL /\ conns[c].sn = NULL
    BY <1>1, NullIsNoName DEF Peer, FreshConn, Conn, TableInv, OneSide, Tagged
  <2>2. conns' = [x \in DOMAIN conns \cup {a} |->
                     IF x = a THEN peer ELSE IF x = c THEN client ELSE conns[x]]
    BY <1>1, <1>3 DEF naf_conn_startconnect, naf_conn_addconn
  <2> HIDE DEF peer, client
  <2> DEFINE old == SessionsOf(conns)
             new == SessionsOf(conns')
  <2>3. {s \in DOMAIN conns' : conns'[s].sn # NULL}
           = {s \in DOMAIN conns : conns[s].sn # NULL} \cup {a}
    BY <1>1, <2>1, <2>2
  <2>4. \A s \in {s \in DOMAIN conns : conns[s].sn # NULL} : conns'[s] = conns[s]
    BY <2>1, <2>2
  <2>5. conns'[a] = peer
    BY <2>2
  <2>6. /\ DOMAIN new = DOMAIN old \cup {a}
        /\ new[a] = [user |-> sn, client |-> c]
        /\ \A s \in DOMAIN old : new[s] = old[s]
        /\ a \notin DOMAIN old
        /\ new = [j \in DOMAIN new |-> new[j]]
    BY <2>1, <2>3, <2>4, <2>5 DEF SessionsOf
  <2> HIDE DEF old, new
  <2>7. new = [j \in DOMAIN old \cup {a} |->
                  IF j = a THEN [user |-> sn, client |-> c] ELSE old[j]]
    BY <2>6
  <2> QED
    BY <1>1, <1>3, <2>6, <2>7 DEF Seen!Login, Handed, PresentIn, old, new
<1>4. \A k \in DOMAIN ckcache : ckcache[k].sn \in Names
  BY DEF IInv, TypeOK, Cookie
<1> QED
  BY <1>2, <1>3, <1>4 DEF toscar_flap_handlechan1__newconn

\* Client Online makes the user of an attended session present.
LEMMA ClientOnlineStep ==
    ASSUME IInv, Sided, NEW c \in Addr, toscar_snachandler_0001_0002(c)
    PROVE  Seen!Other \/ Seen!End \/ \E u \in Names : Seen!Appear(u)
<1>1. /\ c \in DOMAIN conns /\ conns[c] \in Conn
      /\ Good(conns, nodes) /\ TableInv(conns) /\ im' = NULL
  BY DEF toscar_snachandler_0001_0002, CanRead, IInv, Good, TableInv, Typed
<1>2. CASE FreeConn(conns, nodes, c)
  BY <1>1, <1>2, FreeEnds
<1>3. CASE IsClient(c) /\ SessionName(c) # NULL
  <2> DEFINE sn == SessionName(c)
             s  == conns[c].endpoint
             ds == toscar__detacholdconns(conns, sn)
             cs == [ds EXCEPT ![c].online = TRUE]
             ns == gnr_node_online(nodes, sn, GNR_NODE_METRIC_LOCAL)
  <2>1. /\ s \in DOMAIN conns /\ sn = conns[s].sn /\ sn \in Names /\ sn # NULL
        /\ conns[s].endpoint = c /\ c # NULL
    BY <1>1, <1>3, NullIsNoAddr DEF SessionName, TableInv, Typed, Linked, Paired, Conn,
       IsClient
  <2>2. sn \in Seen!Attended(SessionsOf(conns))
    BY <2>1 DEF Seen!Attended, SessionsOf
  <2>3. Forward(cs, ns, c)
    BY <1>3 DEF toscar_snachandler_0001_0002
  <2>4. TableInv(ds) /\ DOMAIN ds = DOMAIN conns
    <3> DEFINE K == {a \in DOMAIN conns :
                        a \in toscar__findconn(conns, sn) /\ conns[a].endpoint = NULL}
    <3>1. ds = [a \in DOMAIN conns |-> IF a \in K THEN [conns[a] EXCEPT !.closing = TRUE]
                                                  ELSE conns[a]]
      BY DEF toscar__detacholdconns
    <3> HIDE DEF K, ds
    <3> QED
      BY <1>1, <3>1, KillManyKeeps DEF Good
  <2>5. \A a \in DOMAIN conns : /\ ds[a].sn = conns[a].sn
                                /\ ds[a].endpoint = conns[a].endpoint
    BY <1>1 DEF toscar__detacholdconns, TableInv, Typed, Conn
  <2> HIDE DEF sn, s, ds, ns
  <2>6. TableInv(cs) /\ c \in DOMAIN cs
    <3>1. Typed(cs) /\ Relabelled(ds, cs)
      BY <1>1, <2>4 DEF TableInv, Typed, Conn, Relabelled, Spared
    <3> QED
      BY <1>1, <2>4, <3>1, RelabelKeeps
  <2>7. SameSessions(conns, cs)
    BY <1>1, <2>4, <2>5 DEF SameSessions, TableInv, Typed, Conn
  <2> HIDE DEF cs
  <2>8. SessionsOf(cs) = SessionsOf(conns)
    BY <2>7, SessionsKept
  <2>9. PresentIn(ns) = PresentIn(nodes) \/ PresentIn(ns) = PresentIn(nodes) \cup {sn}
    BY <2>1, PresenceRaised DEF ns
  <2>10. CASE Keep(cs, ns)
    <3>1. SessionsOf(conns') = SessionsOf(conns) /\ PresentIn(nodes') = PresentIn(ns)
      BY <2>8, <2>10 DEF Keep
    <3>2. CASE PresentIn(ns) = PresentIn(nodes)
      BY <1>1, <3>1, <3>2, OtherStep
    <3>3. CASE PresentIn(ns) = PresentIn(nodes) \cup {sn}
      <4> DEFINE S == DOMAIN SessionsOf(conns)
      <4>1. SessionsOf(conns) = [i \in S |-> SessionsOf(conns)[i]]
        BY DEF SessionsOf
      <4>2. Seen!Leave(S, {}, PresentIn(nodes) \cup {sn})
        BY <1>1, <3>1, <3>3, <4>1 DEF Seen!Leave, Handed
      <4> QED
        BY <2>1, <2>2, <4>2 DEF Seen!Appear
    <3> QED
      BY <2>9, <3>2, <3>3
  <2>11. CASE FreeConn(cs, ns, c)
    <3>1. \E S, L \in SUBSET DOMAIN SessionsOf(conns) : Seen!Leave(S, L, PresentIn(ns))
      BY <1>1, <2>6, <2>8, <2>11, FreeLeaves
    <3>2. CASE PresentIn(ns) = PresentIn(nodes)
      BY <3>1, <3>2 DEF Seen!End
    <3>3. CASE PresentIn(ns) = PresentIn(nodes) \cup {sn}
      BY <2>1, <2>2, <3>1, <3>3 DEF Seen!Appear
    <3> QED
      BY <2>9, <3>2, <3>3
  <2> QED
    BY <2>3, <2>10, <2>11 DEF Forward
<1> QED
  BY <1>2, <1>3 DEF toscar_snachandler_0001_0002

\* An IM is handed to nobody, or to the client of a session of a user who is
\* present.
LEMMA RouteStep ==
    ASSUME Good(conns, nodes), NEW ns, PresentIn(ns) = PresentIn(nodes), TypedNodes(ns),
           NEW src \in Names, NEW dst \in Names,
           gnr_msg_route(ns, src, dst), UNCHANGED conns
    PROVE  \/ Seen!Other
           \/ \E u \in Names, i \in Addr : Seen!Hand(u, i)
<1>1. /\ SessionsOf(conns') = SessionsOf(conns) /\ PresentIn(nodes') = PresentIn(nodes)
      /\ TableInv(conns)
  BY PresenceKept DEF gnr_msg_route, Good
<1>2. CASE Handed(im') = NULL
  BY <1>1, <1>2 DEF Seen!Other
<1>3. ASSUME NEW s \in toscar__findconn(conns, dst), IsLocal(ns[dst]), dst \in DOMAIN ns,
             conns[s].endpoint # NULL, im' # NULL,
             im' = Fate("incoming", src, dst, conns[s].endpoint)
      PROVE  Seen!Hand(dst, s) /\ s \in Addr
  <2>1. /\ s \in DOMAIN conns /\ s \in Addr /\ conns[s].sn = dst /\ dst # NULL
        /\ dst \in PresentIn(nodes)
    BY <1>1, <1>3, NullIsNoName DEF toscar__findconn, TableInv, Typed, PresentIn
  <2>2. /\ s \in DOMAIN SessionsOf(conns)
        /\ SessionsOf(conns)[s] = [user |-> dst, client |-> conns[s].endpoint]
    BY <2>1 DEF SessionsOf
  <2>3. Handed(im') = [user |-> dst, client |-> conns[s].endpoint]
    BY <1>3 DEF Handed, Fate
  <2> QED
    BY <1>1, <1>3, <2>1, <2>2, <2>3 DEF Seen!Hand
<1> QED
  BY <1>2, <1>3 DEF gnr_msg_route, toscar_gnroutputfunc, toscar_msgrouting, Fate, Handed

\* Every step of the proxy is a step of UserSessions.
LEMMA NextSeen ==
    ASSUME IInv, Sided, Next
    PROVE  Seen!Next
<1>1. /\ Good(conns, nodes) /\ TableInv(conns) /\ Typed(conns) /\ OneSide(conns)
      /\ TypedNodes(nodes)
  BY DEF IInv, Good, TableInv
<1>2. ASSUME SameSessions(conns, conns'), PresentIn(nodes') = PresentIn(nodes), im' = NULL
      PROVE  Seen!Next
  BY <1>2, SessionsKept, OtherStep DEF Seen!Next
<1>3. ASSUME NEW c \in DOMAIN conns, FreeConn(conns, nodes, c), im' = NULL
      PROVE  Seen!Next
  BY <1>1, <1>3, FreeEnds DEF Seen!Next
<1>4. CASE connhandler_incomingconn
  <2>1. PICK a \in Addr \ DOMAIN conns :
               conns' = naf_conn_addconn(conns, a, FreshConn({"CLIENT"}))
    BY <1>4 DEF connhandler_incomingconn
  <2>2. SameSessions(conns, conns')
    BY <2>1 DEF SameSessions, naf_conn_addconn, FreshConn
  <2> QED
    BY <1>2, <1>4, <2>2 DEF connhandler_incomingconn
<1>5. ASSUME NEW c \in Addr, \/ connhandler_eof(c) \/ CloseOnFlush(c)
                              \/ toscar_snachandler_0001_000b(c)
      PROVE  Seen!Next
  BY <1>3, <1>5 DEF connhandler_eof, CloseOnFlush, toscar_snachandler_0001_000b
<1>6. ASSUME NEW c \in Addr, \/ finishconnect(c) \/ RefuseLogin(c)
                              \/ toscar_flap_handlechan1__conncomplete(c)
      PROVE  Seen!Next
  <2>1. SameSessions(conns, conns')
    BY <1>1, <1>6 DEF finishconnect, RefuseLogin, toscar_flap_handlechan1__conncomplete,
       Keep, CanRead, naf_conn_schedulekill, SameSessions, Typed, Conn
  <2> QED
    BY <1>2, <1>6, <2>1 DEF finishconnect, RefuseLogin,
       toscar_flap_handlechan1__conncomplete, Keep
<1>7. ASSUME NEW c \in Addr, IsServer(c) => HostsLogIn, toscar_snachandler_0017_0006(c)
      PROVE  Seen!Next
  BY <1>7, AuthorizerStep DEF Seen!Next
<1>8. ASSUME NEW c \in Addr, NEW ck \in Cookies, toscar_flap_handlechan1__newconn(c, ck)
      PROVE  Seen!Next
  BY <1>8, CookieStep DEF Seen!Next
<1>9. ASSUME NEW c \in Addr, toscar_snachandler_0001_0002(c)
      PROVE  Seen!Next
  BY <1>9, ClientOnlineStep DEF Seen!Next
<1>10. ASSUME NEW c \in Addr, toscar_snachandler_0001_0003(c)
       PROVE  Seen!Next
  <2> DEFINE cs == [conns EXCEPT ![c].ready = IsServer(c)]
  <2>1. /\ c \in DOMAIN conns /\ Forward(cs, nodes, c) /\ im' = NULL
        /\ IsServer(c) \in BOOLEAN
    BY <1>10 DEF toscar_snachandler_0001_0003, CanRead, IsServer
  <2>2. Good(cs, nodes) /\ c \in DOMAIN cs
    BY <1>1, <2>1, FieldsKeep
  <2>3. SameSessions(conns, cs)
    BY <1>1, <2>1 DEF SameSessions, Typed, Conn
  <2> HIDE DEF cs
  <2>4. SessionsOf(cs) = SessionsOf(conns)
    BY <2>3, SessionsKept
  <2>5. CASE Keep(cs, nodes)
    BY <1>2, <2>1, <2>3, <2>5 DEF Keep
  <2>6. CASE FreeConn(cs, nodes, c)
    <3>1. \E S, L \in SUBSET DOMAIN SessionsOf(conns) : Seen!Leave(S, L, PresentIn(nodes))
      BY <2>1, <2>2, <2>4, <2>6, FreeLeaves DEF Good
    <3> QED
      BY <3>1 DEF Seen!Next, Seen!End
  <2> QED
    BY <2>1, <2>5, <2>6 DEF Forward
<1>11. ASSUME NEW c \in Addr, NEW ck \in Cookies, NEW sn \in Names,
              toscar_snachandler_0017_0003(c, ck, sn)
       PROVE  Seen!Next
  <2>1. Keep(conns, nodes) => SameSessions(conns, conns')
    BY DEF Keep, SameSessions
  <2> QED
    BY <1>2, <1>3, <1>11, <2>1 DEF toscar_snachandler_0017_0003, CanRead, Keep
<1>12. ASSUME NEW n \in Names, NEW src \in Names, NEW dst \in Names, UNCHANGED conns,
              gnr_msg_route(gnr_node_online(nodes, n, GNR_NODE_METRIC_MAX), src, dst)
       PROVE  Seen!Next
  <2> DEFINE ns == gnr_node_online(nodes, n, GNR_NODE_METRIC_MAX)
  <2>1. PresentIn(ns) = PresentIn(nodes)
    BY <1>1, PresenceKept
  <2>2. TypedNodes(ns)
    BY <1>1, OnlineKeeps, MetricAssumption DEF Good, Metric, GNR_NODE_METRIC_LOCAL
  <2> HIDE DEF ns
  <2>3. gnr_msg_route(ns, src, dst)
    BY <1>12 DEF ns
  <2> QED
    BY <1>1, <1>12, <2>1, <2>2, <2>3, RouteStep DEF Seen!Next
<1>13. ASSUME NEW c \in Addr, NEW n \in Names,
              \/ toscar_snachandler_0004_0006(c, n) \/ toscar_snachandler_0004_0007(c, n)
       PROVE  Seen!Next
  <2>1. c \in DOMAIN conns
    BY <1>13 DEF toscar_snachandler_0004_0006, toscar_snachandler_0004_0007, CanRead
  <2>2. conns[c].sn \in Names \cup {NULL} /\ SessionName(c) \in Names \cup {NULL}
    BY <1>1, <2>1 DEF SessionName, TableInv, Typed, Linked, Conn
  <2> QED
    BY <1>3, <1>12, <1>13, <2>1, <2>2
       DEF toscar_snachandler_0004_0006, toscar_snachandler_0004_0007
<1>14. CASE timerhandler \/ \E sn \in Names : toscar__force_disconnect(sn)
  <2>1. SameSessions(conns, conns')
    BY <1>1, <1>14 DEF timerhandler, toscar__force_disconnect, toscar__findconn,
       naf_conn_schedulekill, SameSessions, Typed, Conn
  <2> QED
    BY <1>2, <1>14, <2>1 DEF timerhandler, toscar__force_disconnect
<1>15. CASE gnr_node__timeout \/ Tick \/ signalhandler
  <2>1. SameSessions(conns, conns') /\ PresentIn(nodes') = PresentIn(nodes)
    BY <1>1, <1>15, PresenceKept DEF gnr_node__timeout, Tick, signalhandler, SameSessions
  <2> QED
    BY <1>2, <1>15, <2>1 DEF gnr_node__timeout, Tick, signalhandler
<1> QED
  BY <1>4, <1>5, <1>6, <1>7, <1>8, <1>9, <1>10, <1>11, <1>13, <1>14, <1>15
     DEF Next, ConnStep, ClientStep, HostStep

-----------------------------------------------------------------------------
(* The refinement *)

\* For every set of addresses, names and cookies the proxy implements
\* UserSessions, unless a host logs in on a prorogued connection: a session
\* keeps its user and its client, presence starts with an attended session
\* and ends with a connection of the user, and an IM is handed to a client of
\* its destination.
THEOREM ImplementsUserSessions ==
    ASSUME Sided
    PROVE  Spec => SeenByUsers
<1>1. Init => Seen!Init
  BY DEF Init, Seen!Init, SessionsOf, PresentIn, Handed
<1>2. IInv /\ [Next]_vars => [Seen!Next]_(Seen!abstract)
  <2>1. ASSUME IInv, Next
        PROVE  Seen!Next
    BY <2>1, NextSeen
  <2>2. ASSUME UNCHANGED vars
        PROVE  UNCHANGED Seen!abstract
    BY <2>2 DEF vars, Seen!abstract, SessionsOf, PresentIn, Handed, IsLocal
  <2> QED
    BY <2>1, <2>2
<1> QED
  BY <1>1, <1>2, Invariance, PTL DEF Spec, SeenByUsers, Seen!Spec

============================================================================
