------------------------------- MODULE Toscar -------------------------------
(***************************************************************************)
(* The AIM/OSCAR proxy: timps/oscar running on the connection table of     *)
(* naf/conn.c and the node table of gnr/node.c, with the login cookie      *)
(* cache of timps/oscar/ckcache.c.                                         *)
(*                                                                         *)
(* The process is single threaded: naf_main polls, and every event runs    *)
(* one handler to completion.  One action is one event: it includes the    *)
(* cleanup that connhandler_read does when the handler returns -1.         *)
(* Clients and AOL hosts are the environment; they send packets in any     *)
(* order and close at any time.  toscar_flap_handlesnac dispatches on the  *)
(* packet alone: clients may send the packets of hosts and hosts those of  *)
(* clients, and only the handlers that look at the side of a connection    *)
(* have a guard on it here.  Packets that no handler looks at are          *)
(* forwarded unchanged and do not appear.  Allocation is assumed to        *)
(* succeed.                                                                *)
(***************************************************************************)
EXTENDS ConnTable, NodeTable

CONSTANTS
    Cookies,           \* login cookies
    CKCACHE_TIMEOUT,   \* age beyond which a cookie is dropped
    ProrogueSettings,  \* values enableprorogueall takes in the configuration
    HostsLogIn         \* whether hosts send 0017/0006, which asks for a login

ASSUME NullIsNoName == NULL \notin Names
ASSUME CookieAssumption == CKCACHE_TIMEOUT \in Nat
ASSUME ProrogueAssumption == ProrogueSettings \subseteq BOOLEAN /\ ProrogueSettings # {}
ASSUME HostsAssumption == HostsLogIn \in BOOLEAN

VARIABLES
    conns,        \* live connections (naf/conn.c, gnb.fdlist)
    nodes,        \* online nodes (gnr/node.c, gnr__nodehash)
    ckcache,      \* cookies waiting for their client (timps_oscar__ckcache)
    prorogueall,  \* timps_oscar__enableprorogueall
    crashed,      \* a null pointer was dereferenced; the process is gone
    im            \* what became of the IM the last step routed, or NULL

vars == <<conns, nodes, ckcache, prorogueall, crashed, im>>

-----------------------------------------------------------------------------
(* State *)

Conn == [type     : SUBSET ConnType,
         endpoint : Addr \cup {NULL},
         closing  : BOOLEAN,                      \* nbio_setcloseonflush
         sn       : Names \cup {NULL},            \* tag conn.screenname
         ready    : BOOLEAN,                      \* TOSCAR_FLAG_READY
         \* history: users whose cookies this client presented, and whether
         \* its Client Online was accepted
         users    : SUBSET Names,
         online   : BOOLEAN]

\* time(NULL) - addtime is kept as age; the servtype of an entry is never
\* stored by ckc__alloc and nothing depends on it, so it is left out.
Cookie == [sn : Names, age : 0 .. CKCACHE_TIMEOUT + 1]

IM == [fate : {"incoming", "outgoing", "noclient", "noconn", "noroute"},
       src : Names, dst : Names, to : Addr \cup {NULL}]

IsClient(a) == a \in DOMAIN conns /\ "CLIENT" \in conns[a].type
IsServer(a) == a \in DOMAIN conns /\ "SERVER" \in conns[a].type
\* connhandler_read ignores readability until the connect has finished.
Connected(a) == "CONNECTING" \notin conns[a].type

TypeOK ==
    /\ DOMAIN conns \subseteq Addr /\ conns \in [DOMAIN conns -> Conn]
    /\ DOMAIN nodes \subseteq Names /\ nodes \in [DOMAIN nodes -> Node]
    /\ DOMAIN ckcache \subseteq Cookies /\ ckcache \in [DOMAIN ckcache -> Cookie]
    /\ prorogueall \in BOOLEAN
    /\ crashed \in BOOLEAN
    /\ im \in IM \cup {NULL}

-----------------------------------------------------------------------------
(* Looking connections up by screen name *)

\* Mutation: the screen name is not compared.
toscar__findconn_Any(cs, sn) ==
    {a \in DOMAIN cs : "SERVER" \in cs[a].type /\ cs[a].sn # NULL}

\* The servers toscar__findconn can return: fdlist order decides.
toscar__findconn(cs, sn) ==
    {a \in DOMAIN cs : "SERVER" \in cs[a].type /\ cs[a].sn = sn}

\* Mutation: the dying connection counts as another one of its user.
OtherServers_Self(cs, D, sn) == toscar__findconn(cs, sn)

\* freetag of conn.screenname runs for every tagged connection of D while
\* the cascade is under way.  toscar__userhasotherclient surely finds a
\* survivor whose client is not in D; one whose client is in D it finds
\* only if remendpoint has not reached it yet, which fdlist order decides.
OtherServers(cs, D, sn) == toscar__findconn(cs, sn) \ D

MustGoOffline(cs, D) ==
    {sn \in {cs[a].sn : a \in D} \ {NULL} :
        \A a \in OtherServers(cs, D, sn) : cs[a].endpoint = NULL}

\* Mutation: other connections of the user are not looked for.
MayGoOffline_Any(cs, D) == {cs[a].sn : a \in D} \ {NULL}

MayGoOffline(cs, D) ==
    {sn \in {cs[a].sn : a \in D} \ {NULL} :
        \A a \in OtherServers(cs, D, sn) : cs[a].endpoint \in D \cup {NULL}}

\* Mutation: naf_conn_free without remendpoint.
FreeConn_Leave(cs, ns, dead) ==
    /\ conns' = [a \in DOMAIN cs \ {dead} |-> cs[a]]
    /\ nodes' = Without(ns, MustGoOffline(cs, {dead}))

\* naf_conn_free(dead) with the tag destructors it runs.
FreeConn(cs, ns, dead) ==
    \E D \in {Doomed(cs, dead)} :
        /\ conns' = naf_conn_free(cs, D)
        /\ \E G \in SUBSET MayGoOffline(cs, D) :
              /\ MustGoOffline(cs, D) \subseteq G
              /\ nodes' = Without(ns, G)

\* The handler returned normally.
Keep(cs, ns) == conns' = cs /\ nodes' = ns

\* HRET_FORWARD: a full transmit queue at the endpoint refuses the packet,
\* and then the connection it was read from is freed.
Forward(cs, ns, c) ==
    \/ Keep(cs, ns)
    \/ cs[c].endpoint # NULL /\ FreeConn(cs, ns, c)

-----------------------------------------------------------------------------
(* Connections *)

\* toscar_flap_prepareconn, called by takeconn.
Prepared(type) == type \cup (IF prorogueall THEN {"PROROGUEDEATH"} ELSE {})

FreshConn(type) ==
    [type |-> Prepared(type), endpoint |-> NULL, closing |-> FALSE, sn |-> NULL,
     ready |-> FALSE, users |-> {}, online |-> FALSE]

\* A client connects to the listener that timps-oscar owns.
connhandler_incomingconn ==
    /\ ~crashed
    /\ \E a \in Addr \ DOMAIN conns :
          conns' = naf_conn_addconn(conns, a, FreshConn({"CLIENT"}))
    /\ im' = NULL
    /\ UNCHANGED <<nodes, ckcache, prorogueall, crashed>>

\* End of file or error on the socket, a packet that fails the FLAP checks,
\* or the end of a scheduled kill: the connection is freed.
connhandler_eof(c) ==
    /\ ~crashed
    /\ c \in DOMAIN conns
    /\ FreeConn(conns, nodes, c)
    /\ im' = NULL
    /\ UNCHANGED <<ckcache, prorogueall, crashed>>

\* The queue of a connection scheduled to be killed has been written.
CloseOnFlush(c) == c \in DOMAIN conns /\ conns[c].closing /\ connhandler_eof(c)

\* A connecting socket becomes writable (its failure is connhandler_eof).
finishconnect(c) ==
    /\ ~crashed
    /\ c \in DOMAIN conns /\ ~Connected(c)
    /\ conns' = [conns EXCEPT ![c].type = @ \ {"CONNECTING"}]
    /\ im' = NULL
    /\ UNCHANGED <<nodes, ckcache, prorogueall, crashed>>

-----------------------------------------------------------------------------
(* Logging in *)

\* A packet can be read from c, which is not waiting for its connect.
CanRead(c) == ~crashed /\ c \in DOMAIN conns /\ Connected(c)

\* The connection naf_conn_startconnect opens for c.  The login or cookie TLVs
\* it carries until conncomplete sends them (tags conn.logintlvs and
\* conn.cookietlvs) decide nothing and are left out.
Peer(c, inprogress, sn) == [FreshConn(PeerType(conns[c], inprogress)) EXCEPT !.sn = sn]

\* Mutation: the authorizer's connection is tagged with the claimed name.
toscar_snachandler_0017_0006_Tag(c) ==
    /\ CanRead(c) /\ conns[c].endpoint = NULL
    /\ \E a \in Addr \ DOMAIN conns, sn \in Names :
          conns' = naf_conn_startconnect(conns, c, a, Peer(c, FALSE, sn))
    /\ im' = NULL
    /\ UNCHANGED <<nodes, ckcache, prorogueall, crashed>>

\* 0017/0006 with an acceptable screen name.  Without an endpoint the
\* authorizer is called; a failing connect drops the connection.
toscar_snachandler_0017_0006(c) ==
    /\ CanRead(c)
    /\ \/ conns[c].endpoint # NULL /\ Keep(conns, nodes)
       \/ /\ conns[c].endpoint = NULL
          /\ \/ /\ \E a \in Addr \ DOMAIN conns, inprogress \in BOOLEAN :
                      conns' = naf_conn_startconnect(
                                   conns, c, a, Peer(c, inprogress, NULL))
                /\ UNCHANGED nodes
             \/ FreeConn(conns, nodes, c)
    /\ im' = NULL
    /\ UNCHANGED <<ckcache, prorogueall, crashed>>

\* 0017/0006 with an invalid screen name: refuse and close.
RefuseLogin(c) ==
    /\ CanRead(c)
    /\ Keep(naf_conn_schedulekill(conns, c), nodes)
    /\ im' = NULL
    /\ UNCHANGED <<ckcache, prorogueall, crashed>>

\* toscar_ckcache_rem takes the cookie out whether or not the connect to the
\* host that issued it succeeds.
toscar_ckcache_rem(ck) == [k \in DOMAIN ckcache \ {ck} |-> ckcache[k]]

\* Mutation: the second cookie of a client renames the session it has.
toscar_flap_handlechan1__newconn_Rename(c, ck) ==
    /\ CanRead(c) /\ IsClient(c) /\ ck \in DOMAIN ckcache
    /\ \/ /\ conns[c].endpoint = NULL
          /\ \E a \in Addr \ DOMAIN conns :
                conns' = [naf_conn_startconnect(conns, c, a, Peer(c, FALSE, ckcache[ck].sn))
                             EXCEPT ![c].users = @ \cup {ckcache[ck].sn}]
       \/ /\ conns[c].endpoint # NULL
          /\ conns' = [conns EXCEPT ![conns[c].endpoint].sn = ckcache[ck].sn,
                                    ![c].users = @ \cup {ckcache[ck].sn}]
    /\ ckcache' = toscar_ckcache_rem(ck)
    /\ im' = NULL
    /\ UNCHANGED <<nodes, prorogueall, crashed>>

\* Channel 1 with a cookie.  The screen name goes on the server connection,
\* and a client that already has an endpoint gets a second one.
toscar_flap_handlechan1__newconn(c, ck) ==
    /\ CanRead(c) /\ IsClient(c)
    /\ \/ FreeConn(conns, nodes, c)   \* unknown cookie, or no connection
       \/ /\ ck \in DOMAIN ckcache
          /\ \E a \in Addr \ DOMAIN conns, inprogress \in BOOLEAN :
                LET sn == ckcache[ck].sn
                IN  conns' = [naf_conn_startconnect(
                                  conns, c, a, Peer(c, inprogress, sn))
                                 EXCEPT ![c].users = @ \cup {sn},
                                        ![c].online = FALSE]
          /\ UNCHANGED nodes
    /\ ckcache' = toscar_ckcache_rem(ck)
    /\ im' = NULL
    /\ UNCHANGED <<prorogueall, crashed>>

\* toscar__detacholdconns: servers of the user that lost their client.
toscar__detacholdconns(cs, sn) ==
    [a \in DOMAIN cs |->
        IF a \in toscar__findconn(cs, sn) /\ cs[a].endpoint = NULL
        THEN [cs[a] EXCEPT !.closing = TRUE]
        ELSE cs[a]]

\* The screen name of the session c belongs to: the tag of its endpoint.
SessionName(c) ==
    IF conns[c].endpoint = NULL THEN NULL ELSE conns[conns[c].endpoint].sn

\* 0001/0002 Client Online.
toscar_snachandler_0001_0002(c) ==
    /\ CanRead(c)
    /\ \/ /\ ~IsClient(c) \/ SessionName(c) = NULL
          /\ FreeConn(conns, nodes, c)
       \/ /\ IsClient(c) /\ SessionName(c) # NULL
          /\ LET sn == SessionName(c)
                 cs == [toscar__detacholdconns(conns, sn) EXCEPT ![c].online = TRUE]
             IN  Forward(cs, gnr_node_online(nodes, sn, GNR_NODE_METRIC_LOCAL), c)
    /\ im' = NULL
    /\ UNCHANGED <<ckcache, prorogueall, crashed>>

-----------------------------------------------------------------------------
(* What hosts answer *)

\* Channel 1 from a host: the login or cookie waiting for it is
\* sent; no table changes.
toscar_flap_handlechan1__conncomplete(s) ==
    /\ CanRead(s) /\ IsServer(s)
    /\ Keep(conns, nodes)
    /\ im' = NULL
    /\ UNCHANGED <<ckcache, prorogueall, crashed>>

\* 0001/0003 Host Online.  The flag of a connection that is no server's is
\* never read and is not kept.
toscar_snachandler_0001_0003(s) ==
    /\ CanRead(s)
    /\ Forward([conns EXCEPT ![s].ready = IsServer(s)], nodes, s)
    /\ im' = NULL
    /\ UNCHANGED <<ckcache, prorogueall, crashed>>

\* 0001/000b Server Pause: disconnect for safety.
toscar_snachandler_0001_000b(s) == CanRead(s) /\ connhandler_eof(s)

toscar_ckcache_add(ck, sn) ==
    [k \in DOMAIN ckcache \cup {ck} |->
        IF k = ck THEN [sn |-> sn, age |-> 0] ELSE ckcache[k]]

\* 0017/0003 with a cookie (one without is forwarded or an error).  The
\* reply carries the address of the client's side, read through the
\* endpoint: without an endpoint that is a null pointer, unless the
\* configuration gives extipaddr with a port.
toscar_snachandler_0017_0003(s, ck, sn) ==
    /\ CanRead(s)
    /\ \/ /\ ck \in DOMAIN ckcache
          /\ FreeConn(conns, nodes, s)
          /\ UNCHANGED <<ckcache, crashed>>
       \/ /\ ck \notin DOMAIN ckcache
          /\ ckcache' = toscar_ckcache_add(ck, sn)
          /\ \/ conns[s].endpoint # NULL /\ Keep(conns, nodes) /\ UNCHANGED crashed
             \/ FreeConn(conns, nodes, s) /\ UNCHANGED crashed
             \/ conns[s].endpoint = NULL /\ Keep(conns, nodes) /\ crashed' = TRUE
    /\ im' = NULL
    /\ UNCHANGED prorogueall

-----------------------------------------------------------------------------
(* Instant messages *)

\* toscar_msgrouting, the handler of the routing stage that takes messages.
toscar_msgrouting(ns, src, dst) ==
    /\ src \in DOMAIN ns /\ dst \in DOMAIN ns
    /\ IsLocal(ns[dst]) \/ IsLocal(ns[src])

\* toscar_gnroutputfunc: where the message goes.  Its result is ignored.
Fate(fate, src, dst, to) == [fate |-> fate, src |-> src, dst |-> dst, to |-> to]

toscar_gnroutputfunc(ns, src, dst) ==
    LET found == toscar__findconn(conns, IF IsLocal(ns[dst]) THEN dst ELSE src)
    IN  \/ found = {} /\ im' = Fate("noconn", src, dst, NULL)
        \/ \E s \in found :
              IF ~IsLocal(ns[dst])
              THEN im' = Fate("outgoing", src, dst, s)
              ELSE im' = Fate(IF conns[s].endpoint = NULL THEN "noclient" ELSE "incoming",
                              src, dst, conns[s].endpoint)

\* gnr_msg_route: routing, the post-routing usehit and the output.
gnr_msg_route(ns, src, dst) ==
    \/ /\ toscar_msgrouting(ns, src, dst)
       /\ nodes' = gnr_node_usehit(ns, {src, dst})
       /\ toscar_gnroutputfunc(ns, src, dst)
    \/ /\ ~toscar_msgrouting(ns, src, dst)
       /\ nodes' = ns
       /\ im' = Fate("noroute", src, dst, NULL)

\* 0004/0006, an IM of a client: an unknown destination becomes an external
\* node.
toscar_snachandler_0004_0006(c, dst) ==
    /\ CanRead(c)
    /\ \/ SessionName(c) = NULL /\ FreeConn(conns, nodes, c) /\ im' = NULL
       \/ /\ SessionName(c) # NULL
          /\ gnr_msg_route(gnr_node_online(nodes, dst, GNR_NODE_METRIC_MAX),
                           SessionName(c), dst)
          /\ UNCHANGED conns
    /\ UNCHANGED <<ckcache, prorogueall, crashed>>

\* 0004/0007, an IM that a host relays: an unknown sender becomes an
\* external node.
toscar_snachandler_0004_0007(s, src) ==
    /\ CanRead(s)
    /\ \/ conns[s].sn = NULL /\ FreeConn(conns, nodes, s) /\ im' = NULL
       \/ /\ conns[s].sn # NULL
          /\ gnr_msg_route(gnr_node_online(nodes, src, GNR_NODE_METRIC_MAX),
                           src, conns[s].sn)
          /\ UNCHANGED conns
    /\ UNCHANGED <<ckcache, prorogueall, crashed>>

-----------------------------------------------------------------------------
(* Timers, configuration, operator *)

\* Mutation: the cutoff is never reached.
toscar_ckcache_timer_Never(cache) ==
    [k \in {k \in DOMAIN cache : cache[k].age <= CKCACHE_TIMEOUT + 1} |-> cache[k]]

\* toscar_ckcache_timer.
toscar_ckcache_timer(cache) ==
    [k \in {k \in DOMAIN cache : cache[k].age <= CKCACHE_TIMEOUT} |-> cache[k]]

\* The connections toscar__keepalive_matcher looks at.  Which of them have
\* not transmitted for txtimeout seconds is left open here.
KeptAlive(cs) == {a \in DOMAIN cs : "SERVER" \in cs[a].type /\ cs[a].ready}

timerhandler ==
    /\ ~crashed
    /\ ckcache' = toscar_ckcache_timer(ckcache)
    /\ \E K \in SUBSET KeptAlive(conns) :
          conns' = [a \in DOMAIN conns |->
                       IF a \in K THEN [conns[a] EXCEPT !.closing = TRUE] ELSE conns[a]]
    /\ im' = NULL
    /\ UNCHANGED <<nodes, prorogueall, crashed>>

\* The timer of the gnr module.
gnr_node__timeout ==
    /\ ~crashed
    /\ nodes' = gnr_node__hash_timeout(nodes)
    /\ im' = NULL
    /\ UNCHANGED <<conns, ckcache, prorogueall, crashed>>

\* NAF_SIGNAL_CONFCHANGE: only connections prepared later are affected.
signalhandler ==
    /\ ~crashed
    /\ prorogueall' \in ProrogueSettings
    /\ im' = NULL
    /\ UNCHANGED <<conns, nodes, ckcache, crashed>>

\* The RPC oscar->disconnectuser.
toscar__force_disconnect(sn) ==
    /\ ~crashed
    /\ \E s \in toscar__findconn(conns, sn) : conns' = naf_conn_schedulekill(conns, s)
    /\ im' = NULL
    /\ UNCHANGED <<nodes, ckcache, prorogueall, crashed>>

\* A unit of time passes.
Tick ==
    /\ ~crashed
    /\ nodes' = Aged(nodes)
    /\ ckcache' = [k \in DOMAIN ckcache |->
                      [ckcache[k] EXCEPT
                          !.age = IF @ <= CKCACHE_TIMEOUT THEN @ + 1 ELSE @]]
    /\ im' = NULL
    /\ UNCHANGED <<conns, prorogueall, crashed>>

-----------------------------------------------------------------------------
(* Specification *)

Init ==
    /\ conns = [a \in {} |-> 0]
    /\ nodes = [n \in {} |-> 0]
    /\ ckcache = [k \in {} |-> 0]
    /\ prorogueall \in ProrogueSettings
    /\ crashed = FALSE
    /\ im = NULL

ConnStep(c) ==
    \/ connhandler_eof(c)
    \/ CloseOnFlush(c)
    \/ finishconnect(c)

\* The packets meant for clients to send, and those meant for hosts.
ClientStep(c) ==
    \/ (IsServer(c) => HostsLogIn) /\ toscar_snachandler_0017_0006(c)
    \/ RefuseLogin(c)
    \/ \E ck \in Cookies : toscar_flap_handlechan1__newconn(c, ck)
    \/ toscar_snachandler_0001_0002(c)
    \/ \E dst \in Names : toscar_snachandler_0004_0006(c, dst)

HostStep(s) ==
    \/ toscar_flap_handlechan1__conncomplete(s)
    \/ toscar_snachandler_0001_0003(s)
    \/ toscar_snachandler_0001_000b(s)
    \/ \E ck \in Cookies, sn \in Names : toscar_snachandler_0017_0003(s, ck, sn)
    \/ \E src \in Names : toscar_snachandler_0004_0007(s, src)

Next ==
    \/ connhandler_incomingconn
    \/ \E c \in Addr : ConnStep(c) \/ ClientStep(c) \/ HostStep(c)
    \/ timerhandler
    \/ gnr_node__timeout
    \/ signalhandler
    \/ \E sn \in Names : toscar__force_disconnect(sn)
    \/ Tick

Spec == Init /\ [][Next]_vars

\* naf_main runs the timers between polls, and a poll never waits longer
\* than its timeout, so time passes and both timers keep running.
FairSpec ==
    /\ Spec
    /\ WF_vars(Tick)
    /\ WF_vars(timerhandler)
    /\ WF_vars(gnr_node__timeout)

-----------------------------------------------------------------------------
(* What users see of it: a server connection tagged conn.screenname is a     *)
(* session, a local node is a user who is present, and an IM queued for a    *)
(* client has been handed to it.                                             *)

Handed(msg) ==
    IF msg # NULL /\ msg.fate = "incoming" THEN [user |-> msg.dst, client |-> msg.to] ELSE NULL

SessionsOf(cs) ==
    [s \in {s \in DOMAIN cs : cs[s].sn # NULL} |->
        [user |-> cs[s].sn, client |-> cs[s].endpoint]]

PresentIn(ns) == {n \in DOMAIN ns : IsLocal(ns[n])}

Seen == INSTANCE UserSessions WITH
            Ids <- Addr, Users <- Names, Nobody <- NULL,
            sessions <- SessionsOf(conns), present <- PresentIn(nodes), handed <- Handed(im)

-----------------------------------------------------------------------------
(* Properties *)

\* No connection keeps a pointer to a freed one: remendpoint clears every
\* pointer to the dead connection before naf_free releases it.
LinksLive == \A a \in DOMAIN conns : conns[a].endpoint \in DOMAIN conns \cup {NULL}

\* The endpoint of a client is a server connection opened for that client:
\* what SNAC handlers read through conn->endpoint belongs to the session,
\* also when addresses are reused and when a client logs in twice.
ClientPaired ==
    \A c \in DOMAIN conns :
        IsClient(c) /\ conns[c].endpoint # NULL =>
            /\ ~IsServer(c)
            /\ IsServer(conns[c].endpoint)
            /\ conns[conns[c].endpoint].endpoint = c

\* A server connection that is not marked PROROGUEDEATH never outlives its
\* client: the cascade of naf_conn_free takes both.
NoOrphanServer ==
    \A s \in DOMAIN conns :
        IsServer(s) /\ ~Spared(conns[s]) => conns[s].endpoint # NULL

\* A server connection tagged conn.screenname belongs to a client that
\* presented a cookie issued for that name.
SessionOwnsName ==
    \A s \in DOMAIN conns :
        /\ conns[s].sn # NULL => IsServer(s)
        /\ conns[s].sn # NULL /\ conns[s].endpoint # NULL =>
               /\ IsClient(conns[s].endpoint)
               /\ conns[s].sn \in conns[conns[s].endpoint].users

\* toscar_gnroutputfunc hands an IM only to a client that logged in as its
\* destination.
DeliveredToOwner ==
    im # NULL /\ im.fate = "incoming" =>
        /\ im.to \in DOMAIN conns
        /\ im.dst \in conns[im.to].users

\* freetag takes the local node of a user down with the user's last server
\* connection: no local node is left without a connection.
LocalNodeBacked ==
    \A n \in DOMAIN nodes : IsLocal(nodes[n]) => toscar__findconn(conns, n) # {}

\* A host answers on a connection that was opened for a client, so its login
\* answer does not reach the null dereference of 0017/0003: where the
\* process dies, it was a client without an endpoint that sent the answer.
HostsCannotCrash ==
    [][~crashed /\ crashed' => \E c \in DOMAIN conns : IsClient(c) /\ conns[c].endpoint = NULL]_vars

\* Local nodes never time out, and the death of one connection of a user
\* does not take the node down while another one has a client
\* (toscar__userhasotherclient).
LocalNodeKept ==
    [][\A n \in DOMAIN nodes \ DOMAIN nodes' :
          IsLocal(nodes[n]) =>
              /\ \E a \in DOMAIN conns \ DOMAIN conns' : conns[a].sn = n
              /\ \A s \in toscar__findconn(conns', n) : conns'[s].endpoint = NULL]_vars

\* Users see sessions, presence and delivery as UserSessions promises them,
\* whatever becomes of connections, cookies and nodes: a session keeps its
\* user and its client, presence starts with a client that is there and ends
\* with a connection of the user (freetag), and an IM is handed to a client
\* of a session of its destination.
SeenByUsers == Seen!Spec

\* A cookie nobody presents leaves the cache (toscar_ckcache_timer).
\* The process may not live that long (crashed).
CookieExpires ==
    \A ck \in Cookies : ck \in DOMAIN ckcache ~> ck \notin DOMAIN ckcache \/ crashed

\* An external node stays only while routed messages keep using it.
ExternalNodeExpires ==
    \A n \in Names :
        []<>(\/ n \notin DOMAIN nodes \/ IsLocal(nodes[n]) \/ crashed
             \/ im # NULL /\ im.fate # "noroute" /\ n \in {im.src, im.dst})

\* "Their metric is exactly zero and the lifetime of the gnrnode is equal to
\* the lifetime of the connection": a user whose Client Online was accepted
\* has a local node.
OnlineUserIsLocal ==
    \A c \in DOMAIN conns :
        conns[c].online /\ SessionName(c) # NULL =>
            /\ SessionName(c) \in DOMAIN nodes
            /\ IsLocal(nodes[SessionName(c)])

============================================================================
