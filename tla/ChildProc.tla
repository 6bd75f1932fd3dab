----------------------------- MODULE ChildProc -----------------------------
(***************************************************************************)
(* Child processes: naf/processes.c, the SIGCHLD branch of sighandler in   *)
(* naf/daemon.c, and the cleanup naf_conn_free asks for when a redirected  *)
(* stream goes away.                                                       *)
(*                                                                         *)
(* Three parties run: the main thread, which is inside a function at       *)
(* main.at; the signal handler, which interrupts it anywhere; and the      *)
(* kernel with the children.  What naf_childproc_fork and                  *)
(* naf_childproc_cleanconn do to the list is one step per write or list    *)
(* element.                                                                *)
(*                                                                         *)
(* sighandler is installed with signal(): SIGCHLD is held back while it    *)
(* runs, several that arrive meanwhile count as one, and one comes when a  *)
(* child dies, is stopped or is continued.  A struct naf_childproc_t       *)
(* leaves the domain of procs when it is freed, and its address may be     *)
(* reused; where a freed one would be read, or a list that has become a    *)
(* cycle walked, the model stops.                                          *)
(***************************************************************************)
EXTENDS FiniteSets

CONSTANTS
    Procs,         \* addresses of struct naf_childproc_t
    Pids,          \* process ids; the kernel reuses one that was waited for
    Conns,         \* addresses of connections that carry a stream
    NULL

Points == {"loop", "forked", "filled", "linking", "cleaning"}

ASSUME NullAssumption == NULL \notin Procs \cup Pids \cup Conns

VARIABLES
    procs,      \* live structs
    list,       \* naf__childrenlist
    conns,      \* live stream connections
    children,   \* the kernel's children of this process, zombies included
    zombies,    \* those that are dead and not waited for
    pending,    \* SIGCHLD is waiting to be delivered
    handling,   \* sighandler is running
    main,       \* what the main thread is doing
    seen        \* which of Incidents have happened

vars == <<procs, list, conns, children, zombies, pending, handling, main, seen>>

\* What the properties have to except: a struct was started twice; the
\* handler took the child the main thread had in hand; a child was stopped
\* or continued.
Incidents == {"startedtwice", "struck", "stopped"}

\* streams stands for stdstreams.in, out and err, which are treated alike.
Proc == [status  : {"NOTSTARTED", "RUNNING"},
         pid     : Pids \cup {NULL},
         streams : SUBSET Conns,
         next    : Procs \cup {NULL}]

Main == [at : Points, cp : Procs \cup {NULL}, pid : Pids \cup {NULL}, conn : Conns \cup {NULL}]

InLoop == [at |-> "loop", cp |-> NULL, pid |-> NULL, conn |-> NULL]

TypeOK ==
    /\ DOMAIN procs \subseteq Procs /\ procs \in [DOMAIN procs -> Proc]
    /\ list \in Procs \cup {NULL}
    /\ conns \subseteq Conns
    /\ zombies \subseteq children /\ children \subseteq Pids
    /\ pending \in BOOLEAN /\ handling \in BOOLEAN
    /\ main \in Main
    /\ seen \subseteq Incidents

\* The main thread is at p and not interrupted.
At(p) == ~handling /\ main.at = p

-----------------------------------------------------------------------------
(* The list *)

\* S holds everything that can be reached from the pointer from.
Reached(from, S) ==
    /\ from \in S \cup {NULL}
    /\ \A p \in S \cap DOMAIN procs : procs[p].next \in S \cup {NULL}

\* The structs on naf__childrenlist, freed ones included.
Listed == {p \in Procs : \A S \in SUBSET Procs : Reached(list, S) => p \in S}

\* The list can be walked to its end.
Sound == Listed \subseteq DOMAIN procs

\* Every struct on the list is pointed at once, by the head of the list or by
\* one other struct: the list has no cycle.
Unshared ==
    \A p \in Listed : procs[p].next # NULL =>
        /\ procs[p].next # list
        /\ \A q \in Listed : procs[q].next = procs[p].next => q = p

\* Mutation: the successor is dropped with the removed struct.
naf_childproc__remove_Cut(ps, p) ==
    [q \in DOMAIN ps |-> IF ps[q].next = p THEN [ps[q] EXCEPT !.next = NULL] ELSE ps[q]]

\* The structs after the walk of naf_childproc__remove has taken p out.
naf_childproc__remove(ps, p) ==
    [q \in DOMAIN ps |->
        IF q \in Listed /\ ps[q].next = p THEN [ps[q] EXCEPT !.next = ps[p].next] ELSE ps[q]]

naf_childproc_free_real(ps, p) == [q \in DOMAIN ps \ {p} |-> ps[q]]

-----------------------------------------------------------------------------
(* The functions modules call *)

\* A socket pair for each stream.  If one cannot be had, the struct is freed
\* and the connections made so far keep a closed descriptor.
naf_childproc_create ==
    /\ At("loop")
    /\ \E p \in Procs \ DOMAIN procs, S \in SUBSET (Conns \ conns) :
          /\ conns' = conns \cup S
          /\ \/ procs' = [q \in DOMAIN procs \cup {p} |->
                             IF q = p
                             THEN [status |-> "NOTSTARTED", pid |-> NULL,
                                   streams |-> S, next |-> NULL]
                             ELSE procs[q]]
             \/ UNCHANGED procs
    /\ UNCHANGED <<list, children, zombies, pending, handling, main, seen>>

\* Only a child that was never started; its connections are left to libnbio,
\* which finds the descriptors closed.  (The descriptor of a connection that
\* is gone is read from freed memory; descriptors are not modelled.)
naf_childproc_free(p) ==
    /\ At("loop")
    /\ p \in DOMAIN procs /\ procs[p].status = "NOTSTARTED"
    /\ procs' = naf_childproc_free_real(procs, p)
    /\ UNCHANGED <<list, conns, children, zombies, pending, handling, main, seen>>

\* The child exists from here on (a failing fork changes nothing).  The state
\* of the struct is not looked at: one that is running can be started again.
naf_childproc_fork(p) ==
    /\ At("loop")
    /\ p \in DOMAIN procs
    /\ \E pid \in Pids \ children :
          /\ children' = children \cup {pid}
          /\ main' = [InLoop EXCEPT !.at = "forked", !.cp = p, !.pid = pid]
    /\ seen' = IF procs[p].status = "NOTSTARTED" THEN seen ELSE seen \cup {"startedtwice"}
    /\ UNCHANGED <<procs, list, conns, zombies, pending, handling>>

naf_childproc_system(p) ==
    /\ p \in DOMAIN procs /\ procs[p].status = "NOTSTARTED"
    /\ naf_childproc_fork(p)

\* The parent notes the pid and the state and closes its copies of the
\* child's ends ...
fork_parent ==
    /\ At("forked") /\ main.cp \in DOMAIN procs
    /\ procs' = [procs EXCEPT ![main.cp].pid = main.pid, ![main.cp].status = "RUNNING"]
    /\ main' = [main EXCEPT !.at = "filled"]
    /\ UNCHANGED <<list, conns, children, zombies, pending, handling, seen>>

\* ... and puts the struct at the head of the list in two writes.
fork_next ==
    /\ At("filled") /\ main.cp \in DOMAIN procs
    /\ procs' = [procs EXCEPT ![main.cp].next = list]
    /\ main' = [main EXCEPT !.at = "linking"]
    /\ UNCHANGED <<list, conns, children, zombies, pending, handling, seen>>

fork_link ==
    /\ At("linking")
    /\ list' = main.cp
    /\ main' = InLoop
    /\ UNCHANGED <<procs, conns, children, zombies, pending, handling, seen>>

-----------------------------------------------------------------------------
(* The end of a stream *)

\* naf_conn_free of a stream, whatever ended it: the other end was closed, the
\* owner's connready refused it or there is none, or it was to be killed.
naf_conn_free(c) ==
    /\ At("loop")
    /\ c \in conns
    /\ main' = [InLoop EXCEPT !.at = "cleaning", !.cp = list, !.conn = c]
    /\ UNCHANGED <<procs, list, conns, children, zombies, pending, handling, seen>>

\* Mutation: the loop ends with the first child.
naf_childproc_cleanconn_First ==
    /\ At("cleaning") /\ main.cp \in DOMAIN procs
    /\ procs' = [procs EXCEPT ![main.cp].streams = @ \ {main.conn}]
    /\ main' = [main EXCEPT !.cp = NULL]
    /\ UNCHANGED <<list, conns, children, zombies, pending, handling, seen>>

\* One child in the loop of naf_childproc_cleanconn.
naf_childproc_cleanconn ==
    /\ At("cleaning") /\ main.cp \in DOMAIN procs
    /\ procs' = [procs EXCEPT ![main.cp].streams = @ \ {main.conn}]
    /\ main' = [main EXCEPT !.cp = procs[main.cp].next]
    /\ UNCHANGED <<list, conns, children, zombies, pending, handling, seen>>

\* The end of the loop, and the rest of naf_conn_free.
conn_freed ==
    /\ At("cleaning") /\ main.cp = NULL
    /\ conns' = conns \ {main.conn}
    /\ main' = InLoop
    /\ UNCHANGED <<procs, list, children, zombies, pending, handling, seen>>

-----------------------------------------------------------------------------
(* The kernel and the signal handler *)

ChildDies(pid) ==
    /\ pid \in children \ zombies
    /\ zombies' = zombies \cup {pid}
    /\ pending' = TRUE
    /\ UNCHANGED <<procs, list, conns, children, handling, main, seen>>

\* A child is stopped or continued, which SIGCHLD tells as well.
ChildStops(pid) ==
    /\ pid \in children \ zombies
    /\ pending' = TRUE
    /\ seen' = seen \cup {"stopped"}
    /\ UNCHANGED <<procs, list, conns, children, zombies, handling, main>>

\* SIGCHLD is delivered.
sighandler ==
    /\ pending /\ ~handling
    /\ pending' = FALSE
    /\ handling' = TRUE
    /\ UNCHANGED <<procs, list, conns, children, zombies, main, seen>>

PidAt(p) == {procs[q].pid : q \in {p} \cap DOMAIN procs}

\* The children whose structs the interrupted main thread goes on to use: the
\* one it starts, the one it has read from the list head and the one its loop
\* is at.
InHand ==
    CASE main.at = "loop" -> {}
      [] main.at \in {"forked", "filled"} -> {main.pid}
      [] main.at = "linking" -> {main.pid} \cup PidAt(list)
      [] main.at = "cleaning" -> PidAt(main.cp)

\* The struct naf_childproc__remove finds for a pid.
WithPid(pid) == {p \in Listed : procs[p].pid = pid}

\* Mutation: every dead child is waited for.
naf_childproc__sigchild_handler_All ==
    /\ handling /\ handling' = FALSE
    /\ children' = children \ zombies
    /\ zombies' = {}
    /\ UNCHANGED <<procs, list, conns, pending, main, seen>>

\* One wait(), for one child, whichever the kernel picks.  The owner is told,
\* and the struct freed; its connections live on.  wait() fails if there is
\* no child, and blocks if all are alive.
naf_childproc__sigchild_handler ==
    /\ handling /\ handling' = FALSE
    /\ \/ children = {} /\ UNCHANGED <<procs, list, children, zombies, seen>>
       \/ \E pid \in zombies :
             /\ Sound /\ Unshared
             /\ seen' = IF pid \in InHand THEN seen \cup {"struck"} ELSE seen
             /\ children' = children \ {pid}
             /\ zombies' = zombies \ {pid}
             /\ \/ WithPid(pid) = {} /\ UNCHANGED <<procs, list>>   \* unknown child
                \/ \E p \in WithPid(pid) :
                      /\ procs' = naf_childproc_free_real(naf_childproc__remove(procs, p), p)
                      /\ list' = IF list = p THEN procs[p].next ELSE list
    /\ UNCHANGED <<conns, pending, main>>

-----------------------------------------------------------------------------
(* Specification *)

Init ==
    /\ procs = [p \in {} |-> 0]
    /\ list = NULL
    /\ conns = {} /\ children = {} /\ zombies = {}
    /\ pending = FALSE /\ handling = FALSE
    /\ main = InLoop
    /\ seen = {}

Next ==
    \/ naf_childproc_create
    \/ \E p \in Procs :
         naf_childproc_free(p) \/ naf_childproc_fork(p) \/ naf_childproc_system(p)
    \/ fork_parent \/ fork_next \/ fork_link
    \/ \E c \in Conns : naf_conn_free(c)
    \/ naf_childproc_cleanconn \/ conn_freed
    \/ \E pid \in Pids : ChildDies(pid) \/ ChildStops(pid)
    \/ sighandler
    \/ naf_childproc__sigchild_handler

Spec == Init /\ [][Next]_vars

-----------------------------------------------------------------------------
(* Properties *)

\* The child whose fork is not finished, if any.
Starting == IF main.at \in {"forked", "filled", "linking"} THEN {main.pid} ELSE {}

\* The list has exactly one struct for each child the kernel has, dead ones
\* included: whichever child wait() returns, its owner is found and told, and
\* no other.  This holds wherever SIGCHLD interrupts naf_childproc_fork and
\* naf_childproc_cleanconn, until the handler takes the very child they have
\* in hand or a caller starts a struct twice.
ListMatchesKernel ==
    seen \subseteq {"stopped"} =>
        /\ Sound
        /\ {procs[p].pid : p \in Listed} = children \ Starting
        /\ \A p, q \in Listed : procs[p].pid = procs[q].pid => p = q

\* No stream of a listed child comes to dangle: when naf_conn_free frees the
\* connection, the loop of naf_childproc_cleanconn has been at every child
\* that holds it, whatever SIGCHLD took off the list meanwhile.  (A child that
\* is not listed yet is not looked at, and keeps the pointer.)
StreamsCleared ==
    [][\A p \in Listed \cap Listed' \cap DOMAIN procs \cap DOMAIN procs' :
           procs'[p].streams \ conns' \subseteq procs[p].streams \ conns]_vars

\* wait() in the handler does not block the server until a child is stopped
\* or continued: there is a dead child for every SIGCHLD that is delivered,
\* however many deaths one signal stands for.
WaitReturns == (pending \/ handling) /\ "stopped" \notin seen => zombies # {}

\* "only children in the RUNNING state are listed"
ListedRunning == \A p \in Listed : p \in DOMAIN procs /\ procs[p].status = "RUNNING"

============================================================================
