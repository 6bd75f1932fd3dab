------------------------------ MODULE GnrNode ------------------------------
(***************************************************************************)
(* The node registry of gnr/node.c in full: the hash table with its        *)
(* chains, names compared as the code compares them, reference counts,     *)
(* time to live, and the statistics.  Every exported operation is an       *)
(* action that any module may call.  Module NodeTable is the view of it    *)
(* that timps/oscar has, with one spelling for each name.                  *)
(*                                                                         *)
(* A chain is the set of the addresses linked into it: its order could     *)
(* only matter to a search that has two nodes to choose from, and the      *)
(* searches meet at most one (Unique, FoundBySpelling).                    *)
(***************************************************************************)
EXTENDS NodeName, FiniteSets

CONSTANTS
    Addr,                   \* addresses of nodes: bounds the number online
    Name,                   \* names the nodes are looked up by
    MaxRefs,                \* bound of the reference counts
    GNR_NODE_METRIC_MAX,
    GNR_NODE_TTL_DEFAULT,
    MaxIdle                 \* where now - lastuse saturates

GNR_NODE_METRIC_LOCAL == 0

ASSUME GnrNodeAssumption ==
    /\ Name \subseteq Seq(Char) \ {<<>>}
    /\ GNR_NODE_HASH_SIZE \in Nat \ {0}
    /\ GNR_NODE_METRIC_MAX \in Nat /\ GNR_NODE_METRIC_MAX > GNR_NODE_METRIC_LOCAL
    /\ MaxIdle \in Nat /\ GNR_NODE_TTL_DEFAULT \in 1 .. MaxIdle
    /\ MaxRefs \in Nat

VARIABLES
    nodehash,  \* gnr__nodehash: the nodes in the chain of every index
    node,      \* the nodes allocated, by address
    stats      \* gnr__nodestats

vars == <<nodehash, node, stats>>

Index == 0 .. GNR_NODE_HASH_SIZE - 1
Metric == GNR_NODE_METRIC_LOCAL .. GNR_NODE_METRIC_MAX
Counter == {"total", "local", "peered", "external"}
Node == [name : Name, metric : Metric, ttl : -1 .. MaxIdle, idle : 0 .. MaxIdle,
         refcount : -MaxRefs .. MaxRefs]

TypeOK ==
    /\ nodehash \in [Index -> SUBSET Addr]
    /\ DOMAIN node \subseteq Addr
    /\ node \in [DOMAIN node -> Node]
    /\ stats \in [Counter -> Nat]

-----------------------------------------------------------------------------
(* Helpers *)

\* The counters that count a node with this metric.
Counts(c, metric) ==
    \/ c = "total"
    \/ c = "local" /\ metric = GNR_NODE_METRIC_LOCAL
    \/ c = "external" /\ metric = GNR_NODE_METRIC_MAX
    \/ c = "peered" /\ metric \notin {GNR_NODE_METRIC_LOCAL, GNR_NODE_METRIC_MAX}

Counted(st, metric, by) ==
    [c \in Counter |-> IF Counts(c, metric) THEN st[c] + by ELSE st[c]]

\* The chain of every name, computed once.
IndexOf == [name \in Name |-> gnr_node__hash_getidx(name)]

\* What a walk over all chains meets.
Linked == UNION {nodehash[i] : i \in Index}

\* The nodes of its chain with an equal name.
gnr_node_findbyname(name) ==
    {p \in nodehash[IndexOf[name]] : gnr_node_namecmp(node[p].name, name) = 0}

\* The nodes of gone are unlinked and freed.
FreeNodes(gone) ==
    /\ nodehash' = [i \in Index |-> nodehash[i] \ gone]
    /\ node' = [p \in DOMAIN node \ gone |-> node[p]]
    /\ stats' = [c \in Counter |->
                    stats[c] - Cardinality({p \in gone : Counts(c, node[p].metric)})]

-----------------------------------------------------------------------------
(* Operations *)

\* An existing node is returned unchanged; a new one is linked into the chain
\* of its own spelling's index.
gnr_node_online(name, metric) ==
    \/ gnr_node_findbyname(name) # {} /\ UNCHANGED vars
    \/ /\ gnr_node_findbyname(name) = {}
       /\ \E p \in Addr \ DOMAIN node :
             /\ node' = [q \in DOMAIN node \cup {p} |->
                    IF q = p
                    THEN [name |-> name, metric |-> metric, refcount |-> 0, idle |-> 0,
                          ttl |-> IF metric > GNR_NODE_METRIC_LOCAL
                                  THEN GNR_NODE_TTL_DEFAULT ELSE -1]
                    ELSE node[q]]
             /\ nodehash' = [nodehash EXCEPT ![IndexOf[name]] = @ \cup {p}]
       /\ stats' = Counted(stats, metric, 1)

\* Mutation: freenode forgets the statistics.
gnr_node_offline_Uncounted(p) ==
    /\ nodehash' = [nodehash EXCEPT ![IndexOf[node[p].name]] = @ \ {p}]
    /\ node' = [q \in DOMAIN node \ {p} |-> node[q]]
    /\ UNCHANGED stats

\* The node is freed when the chain its name hashes to has it.
gnr_node_offline(p) == FreeNodes({p} \cap nodehash[IndexOf[node[p].name]])

\* One matcher of the kind gnr_node_offline_many is called with.
gnr_node_offline_many(metric) == FreeNodes({p \in Linked : node[p].metric = metric})

\* Mutation: references do not keep a node.
gnr_node__hash_timeout_Refs ==
    FreeNodes({p \in Linked : /\ node[p].metric # GNR_NODE_METRIC_LOCAL
                              /\ node[p].ttl # -1
                              /\ node[p].idle >= node[p].ttl})

gnr_node__hash_timeout ==
    FreeNodes({p \in Linked : /\ node[p].metric # GNR_NODE_METRIC_LOCAL
                              /\ node[p].ttl # -1
                              /\ node[p].refcount <= 0
                              /\ node[p].idle >= node[p].ttl})

gnr_node_usehit(p) ==
    /\ node' = [node EXCEPT ![p].idle = 0]
    /\ UNCHANGED <<nodehash, stats>>

gnr_node_remetric(p, newmetric) ==
    /\ stats' = Counted(Counted(stats, node[p].metric, -1), newmetric, 1)
    /\ node' = [node EXCEPT ![p].metric = newmetric, ![p].idle = 0,
                            ![p].ttl = IF newmetric = GNR_NODE_METRIC_LOCAL
                                       THEN -1 ELSE GNR_NODE_TTL_DEFAULT]
    /\ UNCHANGED nodehash

gnr_node_setttl(p, newttl) ==
    /\ node' = [node EXCEPT ![p].ttl = IF node[p].metric = GNR_NODE_METRIC_LOCAL
                                       THEN @
                                       ELSE IF newttl = -1
                                            THEN GNR_NODE_TTL_DEFAULT ELSE newttl]
    /\ UNCHANGED <<nodehash, stats>>

gnr_node_ref(p) ==
    /\ node[p].refcount < MaxRefs
    /\ node' = [node EXCEPT ![p].refcount = @ + 1]
    /\ UNCHANGED <<nodehash, stats>>

gnr_node_unref(p) ==
    /\ node[p].refcount > -MaxRefs
    /\ node' = [node EXCEPT ![p].refcount = @ - 1]
    /\ UNCHANGED <<nodehash, stats>>

\* A unit of time passes; the clock of a local node is never read.
Tick ==
    /\ node' = [p \in DOMAIN node |->
           [node[p] EXCEPT !.idle = IF /\ node[p].metric # GNR_NODE_METRIC_LOCAL
                                       /\ node[p].idle < MaxIdle
                                    THEN @ + 1 ELSE @]]
    /\ UNCHANGED <<nodehash, stats>>

-----------------------------------------------------------------------------
\* gnr_node__hash_init
Init ==
    /\ nodehash = [i \in Index |-> {}]
    /\ node = <<>>
    /\ stats = [c \in Counter |-> 0]

Next ==
    \/ \E name \in Name, metric \in Metric : gnr_node_online(name, metric)
    \/ \E p \in DOMAIN node :
          \/ gnr_node_offline(p)
          \/ gnr_node_usehit(p)
          \/ \E metric \in Metric : gnr_node_remetric(p, metric)
          \/ \E ttl \in -1 .. MaxIdle : gnr_node_setttl(p, ttl)
          \/ gnr_node_ref(p)
          \/ gnr_node_unref(p)
    \/ \E metric \in Metric : gnr_node_offline_many(metric)
    \/ gnr_node__hash_timeout
    \/ Tick

Spec == Init /\ [][Next]_vars

-----------------------------------------------------------------------------
(* Properties *)

\* The statistics are exact after every sequence of operations, remetric
\* and timeouts included: what is linked is what freenode counts down.
StatsExact ==
    \A c \in Counter :
        stats[c] = Cardinality({p \in Linked : Counts(c, node[p].metric)})

\* Two nodes whose names have the same letters, case ignored, have different
\* numbers of spaces at the end, whichever chains they are in.  gnrnode.h
\* promises more, "Case and spacing are ignored": a name and the same name
\* with a space behind it are two nodes, since gnr_node_namecmp skips the
\* spaces of one name only while the other has characters left.
Unique ==
    \A p, q \in Linked :
        /\ NormalForm(node[p].name) = NormalForm(node[q].name)
        /\ TrailingSpaces(node[p].name) = TrailingSpaces(node[q].name)
        => p = q

\* A search finds a node under the spellings of its name that differ in case
\* and in spaces before the last letter, whatever chain they hash to, and
\* under no other one: not when more or fewer spaces follow the last letter.
FoundBySpelling ==
    \A p \in Linked, name \in Name :
        p \in gnr_node_findbyname(name) <=>
            /\ NormalForm(name) = NormalForm(node[p].name)
            /\ TrailingSpaces(name) = TrailingSpaces(node[p].name)

\* Where the two comparisons differ, on the name of a node and any other one:
\* toscar_sncmp reads behind the ends of two names that both end in spaces and
\* have the same letters, and may call them equal or not whatever
\* gnr_node_namecmp says; on all other names it says the same.
ComparisonsAgree ==
    \A p \in Linked, name \in Name :
        toscar_sncmp(name, node[p].name) =
            IF /\ NormalForm(name) = NormalForm(node[p].name)
               /\ EndsInSpace(name) /\ EndsInSpace(node[p].name)
            THEN {0, 1}
            ELSE {gnr_node_namecmp(node[p].name, name)}

\* A timeout run leaves a referenced node, a local one, and one with a use
\* within its time to live, and no other: whatever the metrics and the times
\* to live were set to before, no node away from here is kept for ever.
TimeoutExact ==
    [][gnr_node__hash_timeout =>
          Linked' = {p \in Linked : \/ node[p].refcount > 0
                                    \/ node[p].metric = GNR_NODE_METRIC_LOCAL
                                    \/ node[p].idle < node[p].ttl}]_vars

============================================================================
