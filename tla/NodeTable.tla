----------------------------- MODULE NodeTable -----------------------------
(***************************************************************************)
(* The node table of gnr/node.c as a value, and the operations that        *)
(* rewrite it.                                                             *)
(*                                                                         *)
(* A table maps the names that are in gnr__nodehash to their gnrnode.  Two *)
(* spellings that gnr_node_namecmp holds equal are one name here (module   *)
(* NodeName is about the comparison itself); the service is always "AIM".  *)
(* time(NULL) - lastuse is kept as idle, which stops at MaxIdle: the only  *)
(* use of it is the comparison with ttl, and no ttl exceeds MaxIdle.       *)
(***************************************************************************)
EXTENDS Integers

CONSTANTS
    Names,                  \* screen names
    GNR_NODE_METRIC_MAX,    \* the metric of external nodes
    GNR_NODE_TTL_DEFAULT,   \* idle time after which a remote node expires
    MaxIdle                 \* where the idle clocks saturate

GNR_NODE_METRIC_LOCAL == 0

ASSUME MetricAssumption ==
    GNR_NODE_METRIC_MAX \in Nat /\ GNR_NODE_METRIC_MAX > GNR_NODE_METRIC_LOCAL
ASSUME TtlAssumption ==
    /\ GNR_NODE_TTL_DEFAULT \in Nat /\ GNR_NODE_TTL_DEFAULT > 0
    /\ MaxIdle \in Nat /\ GNR_NODE_TTL_DEFAULT <= MaxIdle

Metric == GNR_NODE_METRIC_LOCAL .. GNR_NODE_METRIC_MAX

Node == [metric: Metric, ttl: -1 .. MaxIdle, idle: 0 .. MaxIdle, refcount: Int]

IsLocal(gn) == gn.metric = GNR_NODE_METRIC_LOCAL

\* Mutation: the metric grows on the way.
NewNode_Farther(metric) ==
    [metric |-> metric + 1, idle |-> 0, refcount |-> 0, ttl |-> GNR_NODE_TTL_DEFAULT]

\* The node gnr_node_online creates.
NewNode(metric) ==
    [metric |-> metric, idle |-> 0, refcount |-> 0,
     ttl |-> IF metric > GNR_NODE_METRIC_LOCAL THEN GNR_NODE_TTL_DEFAULT ELSE -1]

\* An existing node is returned as it is: its metric is not looked at.
gnr_node_online(ns, name, metric) ==
    IF name \in DOMAIN ns
    THEN ns
    ELSE [n \in DOMAIN ns \cup {name} |-> IF n = name THEN NewNode(metric) ELSE ns[n]]

\* The nodes of G go offline (hash removal followed by freenode).
Without(ns, G) == [n \in DOMAIN ns \ G |-> ns[n]]

gnr_node_usehit(ns, G) ==
    [n \in DOMAIN ns |-> IF n \in G THEN [ns[n] EXCEPT !.idle = 0] ELSE ns[n]]

\* Mutation: the comparison with the time to live is strict.
TimedOut_Strict(gn) ==
    ~IsLocal(gn) /\ gn.ttl # -1 /\ gn.refcount <= 0 /\ gn.idle > gn.ttl

\* The condition under which gnr_node__hash_timeout removes a node.
TimedOut(gn) == /\ ~IsLocal(gn)
                /\ gn.ttl # -1
                /\ gn.refcount <= 0
                /\ gn.idle >= gn.ttl

gnr_node__hash_timeout(ns) == Without(ns, {n \in DOMAIN ns : TimedOut(ns[n])})

\* One unit of time passes.  The idle time of a local node is never read and
\* is not counted.
Aged(ns) ==
    [n \in DOMAIN ns |->
        IF ~IsLocal(ns[n]) /\ ns[n].idle < MaxIdle
        THEN [ns[n] EXCEPT !.idle = @ + 1]
        ELSE ns[n]]

============================================================================
