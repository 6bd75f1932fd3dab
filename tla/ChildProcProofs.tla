-------------------------- MODULE ChildProcProofs --------------------------
(***************************************************************************)
(* Proofs about ChildProc, for every number of structs, process ids and    *)
(* connections and wherever SIGCHLD interrupts the main thread: that the   *)
(* list of children matches the kernel's until the handler takes a child   *)
(* the main thread has in hand or a struct is started twice; that no       *)
(* stream of a listed child comes to dangle; and that wait() in the        *)
(* handler blocks only once a child was stopped or continued.              *)
(***************************************************************************)
EXTENDS ChildProc, TLAPS

-----------------------------------------------------------------------------
(* The inductive invariant *)

\* Reached and Listed over values: the structs ps, walked from the pointer x.
Closed(ps, x, S) ==
    /\ x \in S \cup {NULL}
    /\ \A p \in S \cap DOMAIN ps : ps[p].next \in S \cup {NULL}

Walk(ps, x) == {p \in Procs : \A S \in SUBSET Procs : Closed(ps, x, S) => p \in S}

TypedProcs(ps) == DOMAIN ps \subseteq Procs /\ ps \in [DOMAIN ps -> Proc]

\* The running child that is not on the list yet.
Linking == IF main.at \in {"filled", "linking"} THEN {main.cp} ELSE {}

Running == {p \in DOMAIN procs : procs[p].status = "RUNNING"}

\* Nothing has happened that ListMatchesKernel has to except.
Calm == seen \subseteq {"stopped"}

\* What ListMatchesKernel says then.
Matches ==
    /\ Sound
    /\ {procs[p].pid : p \in Listed} = children \ Starting
    /\ \A p, q \in Listed : procs[p].pid = procs[q].pid => p = q

\* Where the main thread is.
MainInv ==
    /\ main.at \in {"forked", "filled", "linking"} =>
           main.cp \in DOMAIN procs /\ main.pid \in children
    /\ main.at = "forked" => procs[main.cp].status = "NOTSTARTED"
    /\ main.at \in {"filled", "linking"} =>
           procs[main.cp].status = "RUNNING" /\ procs[main.cp].pid = main.pid
    /\ main.at = "linking" => procs[main.cp].next = list

\* A signal that arrives while the handler runs stands for another death.
WaitInv ==
    "stopped" \notin seen =>
        /\ pending \/ handling => zombies # {}
        /\ pending /\ handling => \E x, y \in zombies : x # y

IInv ==
    /\ TypeOK
    /\ MainInv
    /\ Listed = Running \ Linking
    /\ Unshared
    /\ Matches

\* As long as the loop of naf_childproc_cleanconn is at a struct that exists,
\* that struct is on the list, and the listed holders of the connection are
\* still before it.
CleaningInv ==
    main.at = "cleaning" /\ main.cp \in DOMAIN procs \cup {NULL} =>
        /\ main.cp \in Listed \cup {NULL}
        /\ \A p \in Listed \cap DOMAIN procs :
              main.conn \in procs[p].streams => p \in Walk(procs, main.cp)

-----------------------------------------------------------------------------
(* What the list is *)

\* Listed is what a walk from the head of the list visits.
LEMMA ListedIsWalk == Listed = Walk(procs, list) /\ Listed' = Walk(procs', list')
  BY DEF Listed, Reached, Walk, Closed

\* A walk is closed under next, and nothing smaller is.
LEMMA WalkClosed ==
    ASSUME NEW ps, TypedProcs(ps), NEW x \in Procs \cup {NULL}
    PROVE  /\ Walk(ps, x) \subseteq Procs
           /\ x \in Walk(ps, x) \cup {NULL}
           /\ \A p \in Walk(ps, x) \cap DOMAIN ps : ps[p].next \in Walk(ps, x) \cup {NULL}
           /\ \A S \in SUBSET Procs : Closed(ps, x, S) => Walk(ps, x) \subseteq S
<1>1. x \in Walk(ps, x) \cup {NULL}
  BY DEF Walk, Closed
<1>2. ASSUME NEW p \in Walk(ps, x) \cap DOMAIN ps
      PROVE  ps[p].next \in Walk(ps, x) \cup {NULL}
  <2>1. ps[p].next \in Procs \cup {NULL}
    BY DEF TypedProcs, Proc
  <2>2. \A S \in SUBSET Procs : Closed(ps, x, S) => ps[p].next \in S \cup {NULL}
    BY DEF Walk, Closed
  <2> QED
    BY <2>1, <2>2 DEF Walk
<1> QED
  BY <1>1, <1>2 DEF Walk

\* A walk that has passed the struct x has the rest of the list before it.
LEMMA WalkNext ==
    ASSUME NEW ps, TypedProcs(ps), NEW x \in DOMAIN ps
    PROVE  Walk(ps, x) \subseteq {x} \cup Walk(ps, ps[x].next)
<1>1. x \in Procs /\ ps[x].next \in Procs \cup {NULL}
  BY DEF TypedProcs, Proc
<1> DEFINE W == Walk(ps, ps[x].next)
<1>2. /\ W \subseteq Procs
      /\ ps[x].next \in W \cup {NULL}
      /\ \A p \in W \cap DOMAIN ps : ps[p].next \in W \cup {NULL}
  BY <1>1, WalkClosed
<1> HIDE DEF W
<1>3. {x} \cup W \in SUBSET Procs /\ Closed(ps, x, {x} \cup W)
  BY <1>1, <1>2 DEF Closed
<1>4. Walk(ps, x) \subseteq {x} \cup W
  BY <1>1, <1>3, WalkClosed
<1> QED
  BY <1>4 DEF W

\* The walk from a null pointer visits nothing.
LEMMA WalkNull == \A ps : Walk(ps, NULL) = {}
<1>1. \A ps : Closed(ps, NULL, {})
  BY DEF Closed
<1> QED
  BY <1>1 DEF Walk

\* Changes that leave the successors of the visited structs alone leave the
\* walk alone.
LEMMA WalkKept ==
    ASSUME NEW ps, TypedProcs(ps), NEW qs, TypedProcs(qs), NEW x \in Procs \cup {NULL},
           Walk(ps, x) \subseteq DOMAIN ps,
           \A p \in Walk(ps, x) : p \in DOMAIN qs /\ qs[p].next = ps[p].next
    PROVE  Walk(qs, x) = Walk(ps, x)
<1> DEFINE V == Walk(ps, x)
           W == Walk(qs, x)
<1>1. /\ V \subseteq Procs /\ x \in V \cup {NULL}
      /\ \A p \in V : ps[p].next \in V \cup {NULL}
      /\ \A S \in SUBSET Procs : Closed(ps, x, S) => V \subseteq S
  BY WalkClosed
<1>2. /\ W \subseteq Procs /\ x \in W \cup {NULL}
      /\ \A p \in W \cap DOMAIN qs : qs[p].next \in W \cup {NULL}
      /\ \A S \in SUBSET Procs : Closed(qs, x, S) => W \subseteq S
  BY WalkClosed
<1> HIDE DEF W
<1>3. Closed(qs, x, V)
  BY <1>1 DEF Closed
<1>4. Closed(ps, x, V \cap W)
  BY <1>1, <1>2 DEF Closed
<1> HIDE DEF V
<1>5. W \subseteq V /\ V \subseteq V \cap W
  BY <1>1, <1>2, <1>3, <1>4
<1> QED
  BY <1>5 DEF V, W

\* A struct put before the head of the list is visited first.
LEMMA WalkLinked ==
    ASSUME NEW ps, TypedProcs(ps), NEW x \in Procs \cup {NULL},
           NEW p \in DOMAIN ps, ps[p].next = x
    PROVE  Walk(ps, p) = Walk(ps, x) \cup {p}
<1>1. p \in Procs /\ p # NULL
  BY NullAssumption DEF TypedProcs
<1>2. Walk(ps, p) \subseteq {p} \cup Walk(ps, x)
  BY WalkNext
<1> DEFINE W == Walk(ps, p)
<1>3. /\ W \subseteq Procs /\ p \in W
      /\ \A q \in W \cap DOMAIN ps : ps[q].next \in W \cup {NULL}
  BY <1>1, WalkClosed
<1> HIDE DEF W
<1>4. Closed(ps, x, W)
  BY <1>3 DEF Closed
<1>5. Walk(ps, x) \subseteq W
  BY <1>3, <1>4, WalkClosed
<1> QED
  BY <1>2, <1>3, <1>5 DEF W

\* Unshared over values.
Single(ps, x) ==
    \A p \in Walk(ps, x) : ps[p].next # NULL =>
        /\ ps[p].next # x
        /\ \A q \in Walk(ps, x) : ps[q].next = ps[p].next => q = p

\* A list whose structs are pointed at once has no struct that points at
\* itself.
LEMMA NoLoop ==
    ASSUME NEW ps, TypedProcs(ps), NEW x \in Procs \cup {NULL},
           Walk(ps, x) \subseteq DOMAIN ps, Single(ps, x),
           NEW p \in Walk(ps, x)
    PROVE  ps[p].next # p
<1> DEFINE W == Walk(ps, x)
<1>1. /\ W \subseteq Procs /\ x \in W \cup {NULL}
      /\ \A q \in W : ps[q].next \in W \cup {NULL}
      /\ \A S \in SUBSET Procs : Closed(ps, x, S) => W \subseteq S
  BY WalkClosed
<1>2. \A q \in W : ps[q].next # NULL =>
         ps[q].next # x /\ \A r \in W : ps[r].next = ps[q].next => r = q
  BY DEF Single
<1> HIDE DEF W
<1>3. p \in W /\ p \in Procs /\ p # NULL
  BY <1>1, NullAssumption DEF W
<1> SUFFICES ASSUME ps[p].next = p PROVE FALSE
  OBVIOUS
<1>4. Closed(ps, x, W \ {p})
  BY <1>1, <1>2, <1>3 DEF Closed
<1> QED
  BY <1>1, <1>3, <1>4

\* naf_childproc__remove takes the struct p, and only p, off the list; the
\* structs that stay are still pointed at once.
LEMMA WalkRemoved ==
    ASSUME NEW ps, TypedProcs(ps), NEW x \in Procs \cup {NULL},
           Walk(ps, x) \subseteq DOMAIN ps, Single(ps, x),
           NEW p \in Walk(ps, x),
           NEW qs, TypedProcs(qs), DOMAIN qs = DOMAIN ps \ {p},
           \A q \in DOMAIN qs :
               qs[q].next = IF q \in Walk(ps, x) /\ ps[q].next = p
                            THEN ps[p].next ELSE ps[q].next,
           NEW y, y = IF x = p THEN ps[p].next ELSE x
    PROVE  Walk(qs, y) = Walk(ps, x) \ {p} /\ Single(qs, y)
<1> DEFINE V == Walk(ps, x)
           W == Walk(qs, y)
<1>1. /\ V \subseteq Procs /\ x \in V \cup {NULL}
      /\ \A q \in V : ps[q].next \in V \cup {NULL}
      /\ \A S \in SUBSET Procs : Closed(ps, x, S) => V \subseteq S
  BY WalkClosed
<1>2. \A q \in V : ps[q].next # NULL =>
         ps[q].next # x /\ \A r \in V : ps[r].next = ps[q].next => r = q
  BY DEF Single
<1>3. p \in V /\ p \in Procs /\ p # NULL /\ ps[p].next # p
  BY <1>1, NoLoop, NullAssumption
<1>4. \A q \in V \ {p} :
         /\ q \in DOMAIN qs
         /\ qs[q].next = IF ps[q].next = p THEN ps[p].next ELSE ps[q].next
  OBVIOUS
<1>5. y \in Procs \cup {NULL}
  BY <1>1, <1>3
<1>6. /\ W \subseteq Procs /\ y \in W \cup {NULL}
      /\ \A q \in W \cap DOMAIN qs : qs[q].next \in W \cup {NULL}
      /\ \A S \in SUBSET Procs : Closed(qs, y, S) => W \subseteq S
  BY <1>5, WalkClosed
<1> HIDE DEF V, W
<1>7. W \subseteq V \ {p}
  <2>1. y \in (V \ {p}) \cup {NULL}
    BY <1>1, <1>3
  <2>2. \A q \in V \ {p} : qs[q].next \in (V \ {p}) \cup {NULL}
    BY <1>1, <1>3, <1>4
  <2>3. Closed(qs, y, V \ {p})
    BY <2>1, <2>2 DEF Closed
  <2> QED
    BY <1>1, <1>6, <2>3
<1>8. V \subseteq W \cup {p}
  <2>1. W \subseteq V \ {p} /\ W \subseteq DOMAIN qs
    BY <1>4, <1>7
  <2>2. CASE x = p \/ \E q \in W : ps[q].next = p
    <3>1. ps[p].next \in W \cup {NULL}
      BY <1>4, <1>6, <2>1, <2>2
    <3>2. Closed(ps, x, W \cup {p})
      BY <1>3, <1>4, <1>6, <2>1, <3>1 DEF Closed
    <3> QED
      BY <1>1, <1>3, <2>1, <3>2
  <2>3. CASE x # p /\ \A q \in W : ps[q].next # p
    <3>1. Closed(ps, x, W)
      BY <1>4, <1>6, <2>1, <2>3 DEF Closed
    <3> QED
      BY <1>1, <2>1, <3>1
  <2> QED
    BY <2>2, <2>3
<1>9. W = V \ {p}
  BY <1>7, <1>8
<1>10. ASSUME NEW q \in W, qs[q].next # NULL
       PROVE  qs[q].next # y /\ \A r \in W : qs[r].next = qs[q].next => r = q
  <2>1. CASE ps[q].next = p
    BY <1>1, <1>2, <1>3, <1>4, <1>9, <1>10, <2>1
  <2>2. CASE ps[q].next # p
    BY <1>1, <1>2, <1>3, <1>4, <1>9, <1>10, <2>2
  <2> QED
    BY <2>1, <2>2
<1> QED
  BY <1>9, <1>10 DEF Single, V, W

-----------------------------------------------------------------------------
(* Types, wherever signals are taken *)

\* Every step preserves the types.
LEMMA TypesStep == TypeOK /\ [Next]_vars => TypeOK'
<1> SUFFICES ASSUME TypeOK, [Next]_vars
             PROVE  TypeOK'
  OBVIOUS
<1>1. CASE naf_childproc_create
  BY <1>1 DEF naf_childproc_create, TypeOK, Proc
<1>2. ASSUME NEW p \in Procs, naf_childproc_free(p)
      PROVE  TypeOK'
  BY <1>2 DEF naf_childproc_free, naf_childproc_free_real, TypeOK
<1>3. ASSUME NEW p \in Procs, naf_childproc_fork(p)
      PROVE  TypeOK'
  BY <1>3 DEF naf_childproc_fork, TypeOK, Main, InLoop, Points, Incidents
<1>4. CASE fork_parent
  <2>1. procs' \in [DOMAIN procs -> Proc]
    <3>1. main.pid \in Pids \cup {NULL} /\ procs \in [DOMAIN procs -> Proc]
      BY DEF TypeOK, Main
    <3>2. CASE main.cp \in DOMAIN procs
      <4>1. [procs[main.cp] EXCEPT !.pid = main.pid, !.status = "RUNNING"] \in Proc
        <5>1. procs[main.cp] \in Proc
          BY <3>1, <3>2
        <5>2. \A r \in Proc, pid \in Pids \cup {NULL} :
                 [r EXCEPT !.pid = pid, !.status = "RUNNING"] \in Proc
          BY DEF Proc
        <5> QED
          BY <3>1, <5>1, <5>2
      <4>2. procs' = [procs EXCEPT ![main.cp] = [procs[main.cp] EXCEPT
                                       !.pid = main.pid, !.status = "RUNNING"]]
        BY <1>4, <3>1, <3>2 DEF fork_parent, Proc
      <4> QED
        BY <3>1, <4>1, <4>2
    <3>3. CASE main.cp \notin DOMAIN procs
      BY <1>4, <3>1, <3>3 DEF fork_parent
    <3> QED
      BY <3>2, <3>3
  <2> QED
    BY <1>4, <2>1 DEF fork_parent, TypeOK, Main, Points
<1>5. CASE fork_next
  <2>1. procs' \in [DOMAIN procs -> Proc]
    <3>1. list \in Procs \cup {NULL} /\ procs \in [DOMAIN procs -> Proc]
      BY DEF TypeOK
    <3>2. CASE main.cp \in DOMAIN procs
      BY <1>5, <3>1, <3>2 DEF fork_next, Proc
    <3>3. CASE main.cp \notin DOMAIN procs
      BY <1>5, <3>1, <3>3 DEF fork_next
    <3> QED
      BY <3>2, <3>3
  <2> QED
    BY <1>5, <2>1 DEF fork_next, TypeOK, Main, Points
<1>6. CASE fork_link \/ conn_freed
  BY <1>6 DEF fork_link, conn_freed, TypeOK, Main, InLoop, Points
<1>7. ASSUME NEW c \in Conns, naf_conn_free(c)
      PROVE  TypeOK'
  BY <1>7 DEF naf_conn_free, TypeOK, Main, InLoop, Points
<1>8. CASE naf_childproc_cleanconn
  <2>1. procs' \in [DOMAIN procs -> Proc]
    BY <1>8 DEF naf_childproc_cleanconn, TypeOK, Proc
  <2>2. procs[main.cp].next \in Procs \cup {NULL}
    BY <1>8 DEF naf_childproc_cleanconn, TypeOK, Proc
  <2> QED
    BY <1>8, <2>1, <2>2 DEF naf_childproc_cleanconn, TypeOK, Main
<1>9. CASE naf_childproc__sigchild_handler
  <2>1. ASSUME Sound, NEW p \in Listed,
               procs' = naf_childproc_free_real(naf_childproc__remove(procs, p), p),
               list' = IF list = p THEN procs[p].next ELSE list
        PROVE  TypedProcs(procs') /\ list' \in Procs \cup {NULL}
    <3>1. p \in DOMAIN procs /\ procs[p].next \in Procs \cup {NULL}
      BY <2>1 DEF Sound, TypeOK, Proc
    <3>2. naf_childproc__remove(procs, p) \in [DOMAIN procs -> Proc]
      BY <3>1 DEF naf_childproc__remove, TypeOK, Proc
    <3> QED
      BY <2>1, <3>1, <3>2 DEF naf_childproc_free_real, TypedProcs, TypeOK
  <2>2. /\ seen' \subseteq Incidents /\ zombies' \subseteq children' /\ children' \subseteq Pids
        /\ handling' \in BOOLEAN /\ UNCHANGED <<conns, pending, main>>
    BY <1>9 DEF naf_childproc__sigchild_handler, TypeOK, Incidents
  <2>3. TypedProcs(procs') /\ list' \in Procs \cup {NULL}
    BY <1>9, <2>1 DEF naf_childproc__sigchild_handler, WithPid, TypedProcs, TypeOK
  <2> QED
    BY <2>2, <2>3 DEF TypedProcs, TypeOK
<1>10. CASE sighandler \/ UNCHANGED vars \/ \E pid \in Pids : ChildDies(pid) \/ ChildStops(pid)
  BY <1>10 DEF sighandler, ChildDies, ChildStops, vars, TypeOK, Incidents
<1> QED
  BY <1>1, <1>2, <1>3, <1>4, <1>5, <1>6, <1>7, <1>8, <1>9, <1>10 DEF Next, naf_childproc_system

\* The server starts with well-typed state.
LEMMA InitTypes == Init => TypeOK
<1> SUFFICES ASSUME Init PROVE TypeOK
  OBVIOUS
<1>1. DOMAIN procs = {} /\ procs \in [DOMAIN procs -> Proc]
  BY DEF Init
<1>2. main \in Main
  BY DEF Init, InLoop, Main, Points
<1> QED
  BY <1>1, <1>2 DEF Init, TypeOK

\* The structs, the list and the main thread keep their types.
THEOREM TypeCorrect == Spec => []TypeOK
  BY InitTypes, TypesStep, PTL DEF Spec

-----------------------------------------------------------------------------
(* The handler's wait(), wherever signals are taken *)

\* Every step keeps a dead child for every signal.
LEMMA WaitStep ==
    ASSUME TypeOK, WaitInv, [Next]_vars
    PROVE  WaitInv'
<1> SUFFICES ASSUME "stopped" \notin seen'
             PROVE  /\ pending' \/ handling' => zombies' # {}
                    /\ pending' /\ handling' => \E x, y \in zombies' : x # y
  BY DEF WaitInv
<1>a. "stopped" \notin seen
  BY DEF Next, naf_childproc_create, naf_childproc_free, naf_childproc_system, naf_childproc_fork,
     fork_parent, fork_next, fork_link, naf_conn_free, naf_childproc_cleanconn, conn_freed,
     ChildDies, ChildStops, sighandler, naf_childproc__sigchild_handler, vars
<1>b. /\ pending \/ handling => zombies # {}
      /\ pending /\ handling => \E x, y \in zombies : x # y
  BY <1>a DEF WaitInv
<1>1. CASE naf_childproc__sigchild_handler
  <2>1. children # {}
    BY <1>1, <1>b DEF naf_childproc__sigchild_handler, TypeOK
  <2>2. PICK pid \in zombies : zombies' = zombies \ {pid}
    BY <1>1, <2>1 DEF naf_childproc__sigchild_handler
  <2> QED
    BY <1>1, <1>b, <2>2 DEF naf_childproc__sigchild_handler
<1>2. ASSUME NEW pid \in Pids, ChildDies(pid)
      PROVE  /\ pending' \/ handling' => zombies' # {}
             /\ pending' /\ handling' => \E x, y \in zombies' : x # y
  <2>1. pid \notin zombies /\ zombies' = zombies \cup {pid} /\ handling' = handling
    BY <1>2 DEF ChildDies
  <2>2. handling => \E x \in zombies : x # pid
    BY <1>b, <2>1
  <2> QED
    BY <2>1, <2>2
<1>3. CASE sighandler
  BY <1>3, <1>b DEF sighandler
<1>4. CASE UNCHANGED <<zombies, pending, handling>>
  BY <1>4, <1>b
<1>5. ASSUME NEW pid \in Pids, ChildStops(pid)
      PROVE  FALSE
  BY <1>5 DEF ChildStops
<1> QED
  BY <1>1, <1>2, <1>3, <1>4, <1>5 DEF Next, naf_childproc_create, naf_childproc_free,
     naf_childproc_system, naf_childproc_fork, fork_parent, fork_next, fork_link, naf_conn_free,
     naf_childproc_cleanconn, conn_freed, vars

\* Until a child is stopped or continued, wait() in the handler does not
\* block, however many deaths one signal stands for and wherever the main
\* thread was interrupted.
THEOREM WaitBlocksOnlyAfterStop == Spec => []WaitReturns
<1>1. Init => WaitInv
  BY DEF Init, WaitInv
<1>2. TypeOK /\ WaitInv /\ [Next]_vars => WaitInv'
  BY WaitStep
<1>3. WaitInv => WaitReturns
  BY DEF WaitInv, WaitReturns
<1> QED
  BY <1>1, <1>2, <1>3, TypeCorrect, PTL DEF Spec

-----------------------------------------------------------------------------
(* The list *)

\* What the parts of the invariant say of the list.
LEMMA ListFacts ==
    ASSUME IInv
    PROVE  /\ TypedProcs(procs) /\ list \in Procs \cup {NULL}
           /\ Listed = Walk(procs, list)
           /\ Listed \subseteq DOMAIN procs /\ Listed \subseteq Running
           /\ Single(procs, list)
           /\ list \in Listed \cup {NULL}
           /\ \A p \in Listed : procs[p].next \in Listed \cup {NULL}
<1>1. TypedProcs(procs) /\ list \in Procs \cup {NULL} /\ Listed = Walk(procs, list)
  BY ListedIsWalk DEF IInv, TypeOK, TypedProcs
<1>2. Listed \subseteq Running /\ Listed \subseteq DOMAIN procs
  BY DEF IInv, Running
<1>3. Single(procs, list)
  BY <1>1 DEF IInv, Unshared, Single
<1> QED
  BY <1>1, <1>2, <1>3, WalkClosed

\* A step that leaves the list alone.
LEMMA ListKept ==
    ASSUME IInv, TypeOK', list' = list,
           \A p \in Listed : p \in DOMAIN procs' /\ procs'[p].next = procs[p].next
    PROVE  Listed' = Listed /\ Unshared'
<1>1. TypedProcs(procs') /\ list' \in Procs \cup {NULL}
  BY DEF TypeOK, TypedProcs
<1>2. Listed' = Listed
  BY <1>1, ListFacts, ListedIsWalk, WalkKept
<1> QED
  BY <1>2 DEF IInv, Unshared

\* naf_childproc_create and naf_childproc_free touch structs that are not on
\* the list.
LEMMA CreateFreeStep ==
    ASSUME IInv, TypeOK',
           naf_childproc_create \/ \E p \in Procs : naf_childproc_free(p)
    PROVE  IInv'
<1>1. /\ At("loop") /\ list' = list
      /\ UNCHANGED <<list, children, handling, main>>
  BY DEF naf_childproc_create, naf_childproc_free
<1>2. /\ \A p \in Running : p \in DOMAIN procs' /\ procs'[p] = procs[p]
      /\ \A p \in DOMAIN procs' \ DOMAIN procs : procs'[p].status = "NOTSTARTED"
      /\ \A p \in DOMAIN procs' \cap DOMAIN procs : procs'[p] = procs[p]
  <2>1. CASE naf_childproc_create
    BY <2>1 DEF naf_childproc_create, Running
  <2>2. CASE \E p \in Procs : naf_childproc_free(p)
    BY <2>2 DEF naf_childproc_free, naf_childproc_free_real, Running
  <2> QED
    BY <2>1, <2>2
<1>3. Running' = Running /\ Linking = {} /\ Linking' = {}
  BY <1>1, <1>2 DEF Running, Linking, At
<1>4. Listed' = Listed /\ Unshared' /\ \A p \in Listed : procs'[p] = procs[p]
  BY <1>1, <1>2, ListFacts, ListKept
<1>5. Matches'
  <2>1. Starting' = Starting /\ children' = children
    BY <1>1 DEF Starting
  <2>2. \A p \in Listed : p \in DOMAIN procs' /\ procs'[p] = procs[p]
    BY <1>2, ListFacts
  <2> QED
    BY <1>4, <2>1, <2>2 DEF IInv, Matches, Sound
<1>6. MainInv'
  BY <1>1 DEF At, IInv, MainInv
<1> QED
  BY <1>3, <1>4, <1>5, <1>6 DEF IInv

\* naf_childproc_fork up to the list.
LEMMA ForkStep ==
    ASSUME IInv, TypeOK', Calm',
           (\E p \in Procs : naf_childproc_fork(p)) \/ fork_parent \/ fork_next
    PROVE  IInv'
<1>1. CASE \E p \in Procs : naf_childproc_fork(p)
  <2>1. PICK p \in DOMAIN procs, pid \in Pids \ children :
               /\ procs[p].status = "NOTSTARTED"
               /\ children' = children \cup {pid}
               /\ main' = [at |-> "forked", cp |-> p, pid |-> pid, conn |-> NULL]
    <3>1. PICK p \in Procs : naf_childproc_fork(p)
      BY <1>1
    <3>2. p \in DOMAIN procs /\ procs[p].status = "NOTSTARTED"
      BY <3>1 DEF naf_childproc_fork, Calm
    <3>3. PICK pid \in Pids \ children :
                 /\ children' = children \cup {pid}
                 /\ main' = [InLoop EXCEPT !.at = "forked", !.cp = p, !.pid = pid]
      BY <3>1 DEF naf_childproc_fork
    <3>4. main' = [at |-> "forked", cp |-> p, pid |-> pid, conn |-> NULL]
      BY <3>3 DEF InLoop
    <3> QED
      BY <3>2, <3>3, <3>4
  <2>2. At("loop") /\ UNCHANGED <<procs, list, conns, handling>>
    BY <1>1 DEF naf_childproc_fork
  <2>3. Listed' = Listed /\ Unshared'
    BY <2>2, ListFacts, ListKept
  <2>4. Linking = {} /\ Linking' = {} /\ Starting = {} /\ Starting' = {pid}
    BY <2>1, <2>2 DEF At, Linking, Starting
  <2>5. Matches'
    BY <2>1, <2>2, <2>3, <2>4 DEF IInv, Matches, Sound
  <2>6. MainInv'
    BY <2>1, <2>2 DEF At, IInv, MainInv
  <2> QED
    BY <2>2, <2>3, <2>4, <2>5, <2>6 DEF IInv, Running
<1>2. CASE fork_parent
  <2> DEFINE cp == main.cp
  <2>1. /\ At("forked") /\ UNCHANGED <<list, conns, children, handling>>
        /\ main' = [main EXCEPT !.at = "filled"]
        /\ cp \in DOMAIN procs /\ procs[cp].status = "NOTSTARTED" /\ main.pid \in children
    BY <1>2 DEF fork_parent, At, IInv, MainInv
  <2>2. /\ main'.at = "filled" /\ main'.cp = cp /\ main'.pid = main.pid
    BY <2>1 DEF IInv, TypeOK, Main
  <2>3. /\ DOMAIN procs' = DOMAIN procs
        /\ procs'[cp].status = "RUNNING" /\ procs'[cp].pid = main.pid
        /\ procs'[cp].streams = procs[cp].streams
        /\ \A p \in DOMAIN procs \ {cp} : procs'[p] = procs[p]
    <3>1. procs \in [DOMAIN procs -> Proc] /\ procs[cp] \in Proc
      BY <2>1 DEF IInv, TypeOK
    <3>2. procs' = [procs EXCEPT ![cp].pid = main.pid, ![cp].status = "RUNNING"]
      BY <1>2 DEF fork_parent
    <3> HIDE DEF cp
    <3> QED
      BY <2>1, <3>1, <3>2 DEF Proc
  <2>4. cp \notin Listed
    BY <2>1, ListFacts DEF Running
  <2>5. Listed' = Listed /\ Unshared' /\ \A p \in Listed : procs'[p] = procs[p]
    BY <2>1, <2>3, <2>4, ListFacts, ListKept
  <2>6. Linking = {} /\ Linking' = {cp} /\ Starting' = Starting
    BY <2>1, <2>2 DEF At, Linking, Starting
  <2>7. Running' = Running \cup {cp} /\ cp \notin Running
    BY <2>1, <2>3 DEF Running
  <2>8. Matches'
    BY <2>1, <2>3, <2>5, <2>6, ListFacts DEF IInv, Matches, Sound
  <2>9. MainInv'
    BY <2>1, <2>2, <2>3 DEF At, IInv, MainInv
  <2> QED
    BY <2>5, <2>6, <2>7, <2>8, <2>9 DEF IInv
<1>3. CASE fork_next
  <2> DEFINE cp == main.cp
  <2>1. /\ At("filled") /\ UNCHANGED <<list, conns, children, handling>>
        /\ main' = [main EXCEPT !.at = "linking"]
        /\ cp \in DOMAIN procs /\ procs[cp].status = "RUNNING"
        /\ procs[cp].pid = main.pid /\ main.pid \in children
    BY <1>3 DEF fork_next, At, IInv, MainInv
  <2>2. main'.at = "linking" /\ main'.cp = cp /\ main'.pid = main.pid
    BY <2>1 DEF IInv, TypeOK, Main
  <2>3. /\ DOMAIN procs' = DOMAIN procs
        /\ procs'[cp].next = list
        /\ \A p \in DOMAIN procs : /\ procs'[p].status = procs[p].status
                                   /\ procs'[p].pid = procs[p].pid
                                   /\ procs'[p].streams = procs[p].streams
        /\ \A p \in DOMAIN procs \ {cp} : procs'[p] = procs[p]
    BY <1>3, <2>1 DEF fork_next, IInv, TypeOK, Proc
  <2>4. Linking = {cp} /\ Linking' = {cp} /\ Starting' = Starting
    BY <2>1, <2>2 DEF At, Linking, Starting
  <2>5. cp \notin Listed
    BY <2>4 DEF IInv
  <2>6. Listed' = Listed /\ Unshared' /\ \A p \in Listed : procs'[p] = procs[p]
    BY <2>1, <2>3, <2>5, ListFacts, ListKept
  <2>7. Running' = Running
    BY <2>3 DEF Running
  <2>8. Matches'
    BY <2>1, <2>3, <2>4, <2>6, ListFacts DEF IInv, Matches, Sound
  <2>9. MainInv'
    BY <2>1, <2>2, <2>3 DEF At, IInv, MainInv
  <2> QED
    BY <2>4, <2>6, <2>7, <2>8, <2>9 DEF IInv
<1> QED
  BY <1>1, <1>2, <1>3

\* The struct becomes the head of the list.
LEMMA LinkStep ==
    ASSUME IInv, TypeOK', fork_link
    PROVE  IInv'
<1> DEFINE cp == main.cp
<1>1. /\ At("linking") /\ list' = cp /\ main' = InLoop
      /\ UNCHANGED <<procs, conns, children, handling>>
      /\ cp \in DOMAIN procs /\ procs[cp].status = "RUNNING"
      /\ procs[cp].pid = main.pid /\ main.pid \in children /\ procs[cp].next = list
  BY DEF fork_link, At, IInv, MainInv
<1>2. /\ Linking = {cp} /\ Linking' = {} /\ Starting = {main.pid} /\ Starting' = {}
  BY <1>1 DEF At, Linking, Starting, InLoop
<1>3. cp \notin Listed /\ cp # NULL
  BY <1>1, <1>2, NullAssumption DEF IInv, TypeOK
<1>4. Listed' = Listed \cup {cp}
  <2>1. Walk(procs, cp) = Walk(procs, list) \cup {cp}
    BY <1>1, ListFacts, WalkLinked
  <2> QED
    BY <1>1, <2>1, ListFacts, ListedIsWalk
<1>5. Listed' = Running' \ Linking'
  BY <1>1, <1>2, <1>4 DEF IInv, Running
<1>6. Unshared'
  <2>1. \A p \in Listed : procs[p].next \in Listed \cup {NULL}
    BY ListFacts
  <2>2. list \in Listed \cup {NULL}
    BY ListFacts
  <2>3. \A p \in Listed : procs[p].next # NULL =>
           procs[p].next # list /\ \A q \in Listed : procs[q].next = procs[p].next => q = p
    BY DEF IInv, Unshared
  <2> HIDE DEF cp
  <2>4. ASSUME NEW p \in Listed \cup {cp}, procs[p].next # NULL
        PROVE  /\ procs[p].next # cp
               /\ \A q \in Listed \cup {cp} : procs[q].next = procs[p].next => q = p
    BY <1>1, <1>3, <2>1, <2>2, <2>3, <2>4
  <2> QED
    BY <1>1, <1>4, <2>4 DEF Unshared
<1>7. Matches'
  <2>1. {procs[p].pid : p \in Listed} = children \ {main.pid}
    BY <1>2 DEF IInv, Matches
  <2>2. {procs[p].pid : p \in Listed \cup {cp}} = children
    BY <1>1, <2>1
  <2>3. \A p \in Listed : procs[p].pid # main.pid
    BY <2>1
  <2>4. \A p, q \in Listed \cup {cp} : procs[p].pid = procs[q].pid => p = q
    BY <1>1, <2>3 DEF IInv, Matches
  <2>5. Listed \cup {cp} \subseteq DOMAIN procs
    BY <1>1, ListFacts
  <2> HIDE DEF cp
  <2> QED
    BY <1>1, <1>2, <1>4, <2>2, <2>4, <2>5 DEF Matches, Sound
<1>8. MainInv'
  BY <1>1 DEF IInv, At, MainInv, InLoop
<1> QED
  BY <1>5, <1>6, <1>7, <1>8 DEF IInv

\* The end of a stream leaves the list as it is.
LEMMA CleanStep ==
    ASSUME IInv, TypeOK',
           (\E c \in Conns : naf_conn_free(c)) \/ naf_childproc_cleanconn \/ conn_freed
    PROVE  IInv'
<1>1. /\ UNCHANGED <<list, children>>
      /\ main.at \in {"loop", "cleaning"} /\ main'.at \in {"loop", "cleaning"}
  <2>1. CASE \E c \in Conns : naf_conn_free(c)
    BY <2>1 DEF naf_conn_free, At, InLoop
  <2>2. CASE naf_childproc_cleanconn
    <3>1. /\ UNCHANGED <<list, children>> /\ main.at = "cleaning"
          /\ main' = [main EXCEPT !.cp = procs[main.cp].next]
      BY <2>2 DEF naf_childproc_cleanconn, At
    <3> QED
      BY <3>1 DEF IInv, TypeOK, Main
  <2>3. CASE conn_freed
    BY <2>3 DEF conn_freed, At, InLoop
  <2> QED
    BY <2>1, <2>2, <2>3
<1>2. /\ DOMAIN procs' = DOMAIN procs
      /\ \A p \in DOMAIN procs : /\ procs'[p].status = procs[p].status
                                 /\ procs'[p].pid = procs[p].pid
                                 /\ procs'[p].next = procs[p].next
  <2>1. CASE naf_childproc_cleanconn
    BY <2>1 DEF naf_childproc_cleanconn, IInv, TypeOK, Proc
  <2>2. CASE UNCHANGED procs
    BY <2>2
  <2> QED
    BY <2>1, <2>2 DEF naf_conn_free, conn_freed
<1>3. Listed' = Listed /\ Unshared'
  BY <1>1, <1>2, ListFacts, ListKept
<1>4. Linking = {} /\ Linking' = {} /\ Starting = {} /\ Starting' = {} /\ Running' = Running
  BY <1>1, <1>2 DEF Linking, Starting, Running
<1>5. Matches'
  BY <1>1, <1>2, <1>3, <1>4, ListFacts DEF IInv, Matches, Sound
<1>6. MainInv'
  BY <1>1 DEF MainInv
<1> QED
  BY <1>3, <1>4, <1>5, <1>6 DEF IInv

\* What the kernel does, and the arrival of the signal.
LEMMA SignalStep ==
    ASSUME IInv, TypeOK',
           sighandler \/ (\E pid \in Pids : ChildDies(pid) \/ ChildStops(pid)) \/ UNCHANGED vars
    PROVE  IInv'
<1>1. UNCHANGED <<procs, list, children, main>>
  BY DEF sighandler, ChildDies, ChildStops, vars
<1>2. Listed' = Listed /\ Unshared'
  BY <1>1, ListFacts, ListKept
<1>3. MainInv'
  BY <1>1 DEF IInv, MainInv
<1>4. Matches'
  BY <1>1, <1>2 DEF IInv, Matches, Sound, Starting
<1> QED
  BY <1>1, <1>2, <1>3, <1>4 DEF IInv, Running, Linking

\* The handler finds the one struct of the child wait() returned and takes it
\* off the list, as long as the main thread does not have it in hand.
LEMMA HandlerStep ==
    ASSUME IInv, TypeOK', Calm', naf_childproc__sigchild_handler
    PROVE  IInv'
<1>1. UNCHANGED <<conns, main>>
  BY DEF naf_childproc__sigchild_handler
<1>2. Linking' = Linking /\ Starting' = Starting
  BY <1>1 DEF Linking, Starting
<1>4. CASE UNCHANGED <<procs, list, children>>
  <2>1. Listed' = Listed /\ Unshared'
    BY <1>4, ListFacts, ListKept
  <2>2. MainInv'
    BY <1>1, <1>4 DEF IInv, MainInv
  <2> QED
    BY <1>1, <1>2, <1>4, <2>1, <2>2
       DEF IInv, Matches, Sound, Running
<1>5. ASSUME NEW pid \in zombies, pid \notin InHand
      PROVE  WithPid(pid) # {} /\ pid \notin Starting
  <2>1. pid \notin Starting
    BY <1>5 DEF InHand, Starting
  <2> QED
    BY <2>1 DEF IInv, TypeOK, Matches, WithPid
<1>6. ASSUME NEW pid \in zombies, pid \notin InHand, children' = children \ {pid},
             NEW p \in WithPid(pid),
             procs' = naf_childproc_free_real(naf_childproc__remove(procs, p), p),
             list' = IF list = p THEN procs[p].next ELSE list
      PROVE  IInv'
  <2>1. p \in Listed /\ p \in DOMAIN procs /\ procs[p].pid = pid
    BY ListFacts DEF WithPid
  <2>2. /\ DOMAIN procs' = DOMAIN procs \ {p}
        /\ \A q \in DOMAIN procs' :
              /\ procs'[q].status = procs[q].status
              /\ procs'[q].pid = procs[q].pid
              /\ procs'[q].streams = procs[q].streams
              /\ procs'[q].next = IF q \in Listed /\ procs[q].next = p
                                  THEN procs[p].next ELSE procs[q].next
    BY <1>6 DEF naf_childproc_free_real, naf_childproc__remove, IInv, TypeOK, Proc
  <2>3. Listed' = Listed \ {p} /\ Single(procs', list')
    <3>1. TypedProcs(procs')
      BY DEF TypeOK, TypedProcs
    <3>2. /\ TypedProcs(procs) /\ list \in Procs \cup {NULL}
          /\ Walk(procs, list) \subseteq DOMAIN procs /\ Single(procs, list)
          /\ p \in Walk(procs, list) /\ Listed = Walk(procs, list)
      BY <2>1, ListFacts
    <3>3. \A q \in DOMAIN procs' :
             procs'[q].next = IF q \in Walk(procs, list) /\ procs[q].next = p
                              THEN procs[p].next ELSE procs[q].next
      BY <2>2, <3>2
    <3>4. DOMAIN procs' = DOMAIN procs \ {p}
      BY <2>2
    <3>5. Walk(procs', list') = Walk(procs, list) \ {p} /\ Single(procs', list')
      BY <1>6, <3>1, <3>2, <3>3, <3>4, WalkRemoved
    <3> QED
      BY <3>2, <3>5, ListedIsWalk
  <2>4. Unshared'
    BY <2>3, ListedIsWalk DEF Single, Unshared
  <2>5. Listed' = Running' \ Linking'
    BY <1>2, <2>1, <2>2, <2>3 DEF IInv, Running
  <2>a. pid \notin Starting
    BY <1>5, <1>6
  <2>6. Matches'
    <3>1. \A q \in Listed \ {p} : q \in DOMAIN procs' /\ procs'[q].pid = procs[q].pid
      BY <2>2, ListFacts
    <3>2. {procs[q].pid : q \in Listed} = children \ Starting
      BY DEF IInv, Matches
    <3>3. \A q, r \in Listed : procs[q].pid = procs[r].pid => q = r
      BY DEF IInv, Matches
    <3>4. {procs'[q].pid : q \in Listed'} = children' \ Starting
      BY <1>6, <2>1, <2>3, <2>a, <3>1, <3>2, <3>3
    <3> QED
      BY <1>2, <2>3, <3>1, <3>3, <3>4 DEF Matches, Sound
  <2>7. MainInv'
    <3>1. main.at \in {"forked", "filled", "linking"} =>
             /\ main.cp \in DOMAIN procs /\ main.cp \notin Listed
             /\ main.pid \in children /\ main.pid # pid
      BY <2>a, ListFacts DEF IInv, MainInv, Running, Linking, Starting
    <3>2. main.at \in {"forked", "filled", "linking"} =>
             /\ main.cp \in DOMAIN procs' /\ main.pid \in children'
             /\ procs'[main.cp].status = procs[main.cp].status
             /\ procs'[main.cp].pid = procs[main.cp].pid
             /\ procs'[main.cp].next = procs[main.cp].next
      BY <1>6, <2>1, <2>2, <3>1
    <3>3. main.at = "linking" => list # p
      <4>1. main.at = "linking" => PidAt(list) \subseteq InHand
        BY DEF InHand
      <4> QED
        BY <1>6, <2>1, <4>1 DEF PidAt
    <3> QED
      BY <1>1, <1>6, <3>2, <3>3 DEF IInv, MainInv
  <2> QED
    BY <2>4, <2>5, <2>6, <2>7 DEF IInv
<1>7. ASSUME NEW pid \in zombies, seen' = IF pid \in InHand THEN seen \cup {"struck"} ELSE seen
      PROVE  pid \notin InHand
  BY <1>7 DEF Calm
<1> QED
  BY <1>4, <1>5, <1>6, <1>7 DEF naf_childproc__sigchild_handler

\* The invariant holds of every behaviour until something of what
\* ListMatchesKernel excepts has happened.
LEMMA Invariance == Spec => [](Calm => IInv)
<1>1. Init => (Calm => IInv)
  <2> SUFFICES ASSUME Init PROVE IInv
    OBVIOUS
  <2>1. TypeOK
    BY InitTypes
  <2>2. Listed = {}
    BY ListedIsWalk, WalkNull DEF Init
  <2>3. main.at = "loop" /\ DOMAIN procs = {}
    BY DEF Init, InLoop
  <2> QED
    BY <2>1, <2>2, <2>3 DEF Init, IInv, MainInv, Running, Linking, Unshared,
       Matches, Sound, Starting
<1>2. TypeOK /\ (Calm => IInv) /\ [Next]_vars => (Calm => IInv)'
  <2> SUFFICES ASSUME TypeOK, Calm => IInv, [Next]_vars, Calm'
               PROVE  IInv'
    OBVIOUS
  <2>1. TypeOK'
    BY TypesStep
  <2>2. Calm
    BY DEF Calm, Next, naf_childproc_create, naf_childproc_free, naf_childproc_system,
       naf_childproc_fork, fork_parent, fork_next, fork_link, naf_conn_free,
       naf_childproc_cleanconn, conn_freed, ChildDies, ChildStops, sighandler,
       naf_childproc__sigchild_handler, vars
  <2> QED
    BY <2>1, <2>2, CreateFreeStep, ForkStep, LinkStep, CleanStep, SignalStep, HandlerStep
       DEF Next, naf_childproc_system
<1> QED
  BY <1>1, <1>2, TypeCorrect, PTL DEF Spec

\* The list has exactly one struct for each child of the kernel, so the owner
\* of whichever child wait() returns is found, and no other: wherever SIGCHLD
\* interrupts the main thread, until the handler takes a child the main
\* thread has in hand or a struct is started twice.
THEOREM OwnersFound == Spec => []ListMatchesKernel
<1>1. (Calm => IInv) => ListMatchesKernel
  BY DEF IInv, Calm, Matches, ListMatchesKernel
<1> QED
  BY <1>1, Invariance, PTL

-----------------------------------------------------------------------------
(* The streams *)

\* The handler takes p off the list: from any other struct of the list the
\* others are reached as before.
LEMMA WalkAround ==
    ASSUME NEW ps, TypedProcs(ps), NEW x \in Procs \cup {NULL},
           Walk(ps, x) \subseteq DOMAIN ps, Single(ps, x),
           NEW p \in Walk(ps, x),
           NEW qs, TypedProcs(qs), DOMAIN qs = DOMAIN ps \ {p},
           \A q \in DOMAIN qs :
               qs[q].next = IF q \in Walk(ps, x) /\ ps[q].next = p
                            THEN ps[p].next ELSE ps[q].next,
           NEW z \in Walk(ps, x) \ {p}
    PROVE  Walk(ps, z) \subseteq Walk(qs, z) \cup {p}
<1> DEFINE V == Walk(ps, x)
           W == Walk(qs, z)
           S == W \cap (V \ {p})
<1>1. V \subseteq Procs /\ \A q \in V : ps[q].next \in V \cup {NULL}
  BY WalkClosed
<1>2. z \in Procs \cup {NULL} /\ z \in Procs /\ z # NULL /\ p \in Procs /\ p # NULL
  BY <1>1, NullAssumption
<1>3. /\ W \subseteq Procs /\ z \in W
      /\ \A q \in W \cap DOMAIN qs : qs[q].next \in W \cup {NULL}
  BY <1>2, WalkClosed
<1>4. ps[p].next # p
  BY NoLoop
<1>5. p \in V /\ z \in V \ {p} /\ \A q \in V \ {p} :
         /\ q \in DOMAIN qs
         /\ qs[q].next = IF ps[q].next = p THEN ps[p].next ELSE ps[q].next
  OBVIOUS
<1>6. \A T \in SUBSET Procs : Closed(ps, z, T) => Walk(ps, z) \subseteq T
  BY <1>2, WalkClosed
<1> HIDE DEF V, W
<1>7. z \in S /\ S \subseteq Procs /\ S \cup {p} \subseteq Procs
  BY <1>1, <1>2, <1>3, <1>5
<1>8. CASE \E q \in S : ps[q].next = p
  <2>1. ps[p].next \in S \cup {NULL}
    BY <1>1, <1>3, <1>4, <1>5, <1>8
  <2>2. \A q \in S : ps[q].next \in S \cup {p} \cup {NULL}
    BY <1>1, <1>3, <1>5
  <2>3. Closed(ps, z, S \cup {p})
    BY <1>7, <2>1, <2>2 DEF Closed
  <2> QED
    BY <1>6, <1>7, <2>3 DEF W
<1>9. CASE \A q \in S : ps[q].next # p
  <2>1. \A q \in S : ps[q].next \in S \cup {NULL}
    BY <1>1, <1>3, <1>5, <1>9
  <2>2. Closed(ps, z, S)
    BY <1>7, <2>1 DEF Closed
  <2> QED
    BY <1>6, <1>7, <2>2 DEF W
<1> QED
  BY <1>8, <1>9

\* The walk of naf_childproc_cleanconn, step by step.
LEMMA CleaningStep ==
    ASSUME TypeOK, TypeOK', CleaningInv, [Next]_vars
    PROVE  CleaningInv'
<1>t. /\ TypedProcs(procs) /\ TypedProcs(procs') /\ list \in Procs \cup {NULL}
      /\ main.at \in Points /\ main.cp \in Procs \cup {NULL}
  BY DEF TypeOK, TypedProcs, Main
<1>l. /\ Listed = Walk(procs, list) /\ Listed \subseteq Procs /\ list \in Listed \cup {NULL}
      /\ \A p \in Listed \cap DOMAIN procs : procs[p].next \in Listed \cup {NULL}
  BY <1>t, ListedIsWalk, WalkClosed
<1> SUFFICES ASSUME main'.at = "cleaning", main'.cp \in DOMAIN procs' \cup {NULL}
             PROVE  /\ main'.cp \in Listed' \cup {NULL}
                    /\ \A p \in Listed' \cap DOMAIN procs' :
                          main'.conn \in procs'[p].streams => p \in Walk(procs', main'.cp)
  BY DEF CleaningInv
<1>1. ASSUME NEW c \in Conns, naf_conn_free(c)
      PROVE  /\ main'.cp \in Listed' \cup {NULL}
             /\ \A p \in Listed' \cap DOMAIN procs' :
                   main'.conn \in procs'[p].streams => p \in Walk(procs', main'.cp)
  <2>1. procs' = procs /\ list' = list /\ main'.cp = list
    BY <1>1 DEF naf_conn_free, InLoop
  <2>2. Listed' = Listed
    BY <2>1, ListedIsWalk
  <2> QED
    BY <1>l, <2>1, <2>2
<1>2. CASE naf_childproc_cleanconn
  <2> DEFINE cp == main.cp
             nx == procs[cp].next
  <2>1. /\ main.at = "cleaning" /\ cp \in DOMAIN procs /\ list' = list
        /\ main' = [main EXCEPT !.cp = nx]
        /\ procs' = [procs EXCEPT ![cp].streams = @ \ {main.conn}]
    BY <1>2 DEF naf_childproc_cleanconn, At
  <2>2. main'.cp = nx /\ main'.conn = main.conn
    BY <2>1 DEF TypeOK, Main
  <2>3. /\ DOMAIN procs' = DOMAIN procs
        /\ \A p \in DOMAIN procs : /\ procs'[p].next = procs[p].next
                                   /\ procs'[p].streams \subseteq procs[p].streams
        /\ main.conn \notin procs'[cp].streams
    BY <2>1 DEF TypeOK, Proc
  <2>4. Walk(procs', nx) = Walk(procs, nx) /\ Walk(procs', list) = Walk(procs, list)
    BY <2>3 DEF Walk, Closed
  <2>5. Listed' = Listed
    BY <2>1, <2>4, ListedIsWalk
  <2>6. cp \in Listed /\ \A p \in Listed \cap DOMAIN procs :
           main.conn \in procs[p].streams => p \in Walk(procs, cp)
    BY <1>t, <2>1, NullAssumption DEF CleaningInv, TypedProcs
  <2>7. Walk(procs, cp) \subseteq {cp} \cup Walk(procs, nx)
    BY <1>t, <2>1, WalkNext
  <2>8. nx \in Listed \cup {NULL}
    BY <1>l, <2>1, <2>6
  <2> HIDE DEF cp, nx
  <2> QED
    BY <2>2, <2>3, <2>4, <2>5, <2>6, <2>7, <2>8
<1>3. CASE UNCHANGED <<procs, list, main>>
  <2>1. Listed' = Listed
    BY <1>3, ListedIsWalk
  <2> QED
    BY <1>3, <2>1 DEF CleaningInv
<1>4. ASSUME NEW pid \in zombies, Sound, Unshared, main' = main, NEW p \in WithPid(pid),
             procs' = naf_childproc_free_real(naf_childproc__remove(procs, p), p),
             list' = IF list = p THEN procs[p].next ELSE list
      PROVE  /\ main'.cp \in Listed' \cup {NULL}
             /\ \A q \in Listed' \cap DOMAIN procs' :
                   main'.conn \in procs'[q].streams => q \in Walk(procs', main'.cp)
  <2> DEFINE cp == main.cp
  <2>1. p \in Listed /\ p \in DOMAIN procs /\ Listed \subseteq DOMAIN procs
    BY <1>4 DEF WithPid, Sound
  <2>2. /\ DOMAIN procs' = DOMAIN procs \ {p}
        /\ \A q \in DOMAIN procs' :
              /\ procs'[q].streams = procs[q].streams
              /\ procs'[q].next = IF q \in Listed /\ procs[q].next = p
                                  THEN procs[p].next ELSE procs[q].next
    BY <1>4 DEF naf_childproc_free_real, naf_childproc__remove, TypeOK, Proc
  <2>3. Single(procs, list) /\ Walk(procs, list) \subseteq DOMAIN procs /\ p \in Walk(procs, list)
    BY <1>4, <1>l, <2>1 DEF Unshared, Single
  <2>4. \A q \in DOMAIN procs' :
           procs'[q].next = IF q \in Walk(procs, list) /\ procs[q].next = p
                            THEN procs[p].next ELSE procs[q].next
    BY <1>l, <2>2
  <2>a. DOMAIN procs' = DOMAIN procs \ {p}
    BY <2>2
  <2>5. Walk(procs', list') = Walk(procs, list) \ {p}
    BY <1>4, <1>t, <2>3, <2>4, <2>a, WalkRemoved
  <2>6. Listed' = Listed \ {p}
    BY <1>l, <2>5, ListedIsWalk
  <2>7. /\ cp \in (Listed \cup {NULL}) \ {p}
        /\ \A q \in Listed \cap DOMAIN procs :
              main.conn \in procs[q].streams => q \in Walk(procs, cp)
    BY <1>4, <2>2 , NullAssumption, <1>t, <2>1 DEF CleaningInv, TypedProcs
  <2>8. CASE cp = NULL
    <3>1. \A q \in Listed \cap DOMAIN procs : main.conn \notin procs[q].streams
      BY <2>7, <2>8, WalkNull
    <3> QED
      BY <1>4, <2>2, <2>6, <2>8, <3>1
  <2>9. CASE cp # NULL
    <3>1. cp \in Walk(procs, list) \ {p}
      BY <1>l, <2>7, <2>9
    <3>2. Walk(procs, cp) \subseteq Walk(procs', cp) \cup {p}
      BY <1>t, <2>3, <2>4, <2>a, <3>1, WalkAround
    <3> HIDE DEF cp
    <3>3. \A q \in Listed' \cap DOMAIN procs' :
             main.conn \in procs'[q].streams => q \in Walk(procs', cp)
      BY <2>2, <2>6, <2>7, <3>2
    <3> QED
      BY <1>4, <2>6, <2>7, <3>3 DEF cp
  <2> QED
    BY <2>8, <2>9
<1>5. main'.at = "cleaning" =>
         \/ \E c \in Conns : naf_conn_free(c)
         \/ naf_childproc_cleanconn
         \/ UNCHANGED <<procs, list, main>>
         \/ naf_childproc__sigchild_handler
  <2>1. main.at = "loop" /\ main' = main => main'.at # "cleaning"
    OBVIOUS
  <2>2. naf_childproc_create \/ (\E p \in Procs : naf_childproc_free(p)) =>
           main.at = "loop" /\ main' = main
    BY DEF naf_childproc_create, naf_childproc_free, At
  <2>3. (\E p \in Procs : naf_childproc_fork(p)) => main'.at # "cleaning"
    BY DEF naf_childproc_fork, InLoop
  <2>4. fork_parent \/ fork_next => main'.at # "cleaning"
    <3>1. \A r \in Main : /\ [r EXCEPT !.at = "filled"].at = "filled"
                          /\ [r EXCEPT !.at = "linking"].at = "linking"
      BY DEF Main
    <3> QED
      BY <3>1 DEF fork_parent, fork_next, TypeOK
  <2>5. fork_link \/ conn_freed => main'.at # "cleaning"
    BY DEF fork_link, conn_freed, InLoop
  <2>6. sighandler \/ (\E pid \in Pids : ChildDies(pid) \/ ChildStops(pid)) \/ UNCHANGED vars =>
           UNCHANGED <<procs, list, main>>
    BY DEF ChildDies, ChildStops, sighandler, vars
  <2> QED
    BY <2>1, <2>2, <2>3, <2>4, <2>5, <2>6 DEF Next, naf_childproc_system
<1>6. CASE naf_childproc__sigchild_handler
  BY <1>3, <1>4, <1>6 DEF naf_childproc__sigchild_handler
<1> QED
  BY <1>1, <1>2, <1>3, <1>5, <1>6

\* No step makes a stream of a listed child dangle.
LEMMA ClearedStep ==
    ASSUME TypeOK, TypeOK', CleaningInv, [Next]_vars,
           NEW p \in Listed \cap Listed' \cap DOMAIN procs \cap DOMAIN procs'
    PROVE  procs'[p].streams \ conns' \subseteq procs[p].streams \ conns
<1>1. CASE naf_childproc_create
  BY <1>1 DEF naf_childproc_create
<1>2. CASE conn_freed
  <2>1. main.at = "cleaning" /\ main.cp = NULL /\ procs' = procs /\ conns' = conns \ {main.conn}
    BY <1>2 DEF conn_freed, At
  <2>2. main.conn \notin procs[p].streams
    BY <2>1, WalkNull DEF CleaningInv
  <2> QED
    BY <2>1, <2>2
<1>3. CASE conns' = conns /\ procs'[p].streams \subseteq procs[p].streams
  BY <1>3
<1>4. CASE naf_childproc_cleanconn
  <2>1. procs'[p].streams \subseteq procs[p].streams /\ conns' = conns
    BY <1>4 DEF naf_childproc_cleanconn, TypeOK, Proc
  <2> QED
    BY <1>3, <2>1
<1>5. CASE fork_parent \/ fork_next
  <2>1. procs'[p].streams = procs[p].streams /\ conns' = conns
    BY <1>5 DEF fork_parent, fork_next, TypeOK, Proc
  <2> QED
    BY <1>3, <2>1
<1>6. CASE naf_childproc__sigchild_handler
  <2>1. conns' = conns
    BY <1>6 DEF naf_childproc__sigchild_handler
  <2>2. CASE procs' = procs
    BY <1>3, <2>1, <2>2
  <2>3. ASSUME NEW q, procs' = naf_childproc_free_real(naf_childproc__remove(procs, q), q)
        PROVE  procs'[p].streams = procs[p].streams
    BY <2>3 DEF naf_childproc_free_real, naf_childproc__remove, TypeOK, Proc
  <2> QED
    BY <1>3, <1>6, <2>1, <2>2, <2>3 DEF naf_childproc__sigchild_handler
<1>7. CASE UNCHANGED <<procs, conns>>
  BY <1>7
<1>8. ASSUME NEW q \in Procs, naf_childproc_free(q)
      PROVE  procs'[p] = procs[p] /\ conns' = conns
  BY <1>8 DEF naf_childproc_free, naf_childproc_free_real
<1> QED
  BY <1>1, <1>2, <1>3, <1>4, <1>5, <1>6, <1>7, <1>8 DEF Next, naf_childproc_system,
     naf_childproc_fork, fork_link, naf_conn_free, ChildDies, ChildStops, sighandler, vars

\* No stream of a listed child comes to dangle: naf_childproc_cleanconn has
\* been at every listed child that holds a connection before naf_conn_free
\* frees it, whatever the handler took off the list during the loop.
THEOREM StreamsAreCleared == Spec => StreamsCleared
<1>1. Init => CleaningInv
  BY DEF Init, InLoop, CleaningInv
<1>2. TypeOK /\ TypeOK' /\ CleaningInv /\ [Next]_vars => CleaningInv'
  BY CleaningStep
<1>3. TypeOK /\ TypeOK' /\ CleaningInv /\ [Next]_vars =>
         [\A p \in Listed \cap Listed' \cap DOMAIN procs \cap DOMAIN procs' :
             procs'[p].streams \ conns' \subseteq procs[p].streams \ conns]_vars
  BY ClearedStep
<1> QED
  BY <1>1, <1>2, <1>3, TypeCorrect, PTL DEF Spec, StreamsCleared

============================================================================
