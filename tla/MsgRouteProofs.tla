-------------------------- MODULE MsgRouteProofs --------------------------
(***************************************************************************)
(* The invariants of MsgRoute about messages and nodes, for every set of   *)
(* users, both module options and any number of libotr's callbacks, and    *)
(* the one about what modules register, for the option -M.                 *)
(***************************************************************************)
EXTENDS MsgRoute, Recursion, SequenceTheorems

-----------------------------------------------------------------------------
(* Lists *)

InList(list, m) == \E i \in DOMAIN list : list[i] = m

\* The list so far, after each element.
AmongLoop(g, s, S) ==
    /\ g[0] = <<>>
    /\ \A i \in 1 .. Len(s) : g[i] = IF s[i] \in S THEN Append(g[i - 1], s[i]) ELSE g[i - 1]
    /\ Among(s, S) = g[Len(s)]

\* The loop that walks a list and keeps the members of S is defined: each
\* round extends a list of members of S by one or by nothing.
LEMMA AmongDefined ==
    ASSUME NEW T, NEW s \in Seq(T), NEW S
    PROVE  \E g \in [0 .. Len(s) -> Seq(T \cap S)] : AmongLoop(g, s, S)
<1> DEFINE X == Seq(T \cap S)
           N == Len(s)
           step == [i \in 1 .. N |-> [p \in X |-> IF s[i] \in S THEN Append(p, s[i]) ELSE p]]
           seen == CHOOSE seen : seen = [i \in 0 .. N |->
                       IF i = 0 THEN <<>>
                       ELSE IF s[i] \in S THEN Append(seen[i - 1], s[i]) ELSE seen[i - 1]]
<1>1. Among(s, S) = seen[N]
      BY DEF Among
<1>2. N \in Nat /\ <<>> \in X
      OBVIOUS
<1>3. \A i \in 1 .. N : \A p \in X : (IF s[i] \in S THEN Append(p, s[i]) ELSE p) \in X
      OBVIOUS
<1>4. step \in [1 .. N -> [X -> X]]
    <2> HIDE DEF X
    <2>q. QED BY <1>3
<1>5. PICK g \in [0 .. N -> X] : Loop(g, N, <<>>, step)
    <2> HIDE DEF X, N, step
    <2>q. QED BY <1>2, <1>4, LoopDefined, Zenon
<1>6. /\ g[0] = <<>>
      /\ \A i \in 1 .. N : g[i] = IF s[i] \in S THEN Append(g[i - 1], s[i]) ELSE g[i - 1]
    <2>1. \A i \in 1 .. N : i - 1 \in 0 .. N
          BY <1>2
    <2> HIDE DEF X, N
    <2>2. \A i \in 1 .. N : g[i - 1] \in X
          BY <2>1
    <2>3. \A i \in 1 .. N : \A p \in X :
             step[i][p] = IF s[i] \in S THEN Append(p, s[i]) ELSE p
          OBVIOUS
    <2> HIDE DEF step
    <2>4. g[0] = <<>> /\ \A i \in 1 .. N : g[i] = step[i][g[i - 1]]
          BY <1>5 DEF Loop
    <2>q. QED BY <2>2, <2>3, <2>4
<1>7. g = [i \in 0 .. N |->
              IF i = 0 THEN <<>>
              ELSE IF s[i] \in S THEN Append(g[i - 1], s[i]) ELSE g[i - 1]]
    <2> HIDE DEF X, step
    <2>1. \A i \in 0 .. N : i # 0 => i \in 1 .. N
          BY <1>2
    <2> HIDE DEF N
    <2>q. QED BY <1>6, <2>1
<1>8. seen = [i \in 0 .. N |->
                 IF i = 0 THEN <<>>
                 ELSE IF s[i] \in S THEN Append(seen[i - 1], s[i]) ELSE seen[i - 1]]
    <2> HIDE DEF X, step, N
    <2>q. QED BY <1>7, Zenon
<1> HIDE DEF seen, X, step, N
<1> DEFINE R == {i \in 0 .. N : seen[i] = g[i]}
<1>9. 0 \in R
      BY <1>2, <1>6, <1>8
<1>10. ASSUME NEW i \in 0 .. N, i < N, i \in R PROVE i + 1 \in R
    <2>1. i + 1 \in 1 .. N /\ i + 1 \in 0 .. N /\ (i + 1) - 1 = i /\ i + 1 # 0
          BY <1>2, <1>10
    <2>2. seen[i + 1] = IF s[i + 1] \in S THEN Append(seen[(i + 1) - 1], s[i + 1])
                                          ELSE seen[(i + 1) - 1]
        <3> DEFINE j == i + 1
        <3>1. j \in 0 .. N /\ j # 0
              BY <2>1
        <3> HIDE DEF j
        <3>2. seen[j] = IF s[j] \in S THEN Append(seen[j - 1], s[j]) ELSE seen[j - 1]
              BY <1>8, <3>1
        <3>q. QED BY <3>2 DEF j
    <2>3. g[i + 1] = IF s[i + 1] \in S THEN Append(g[(i + 1) - 1], s[i + 1]) ELSE g[(i + 1) - 1]
          BY <1>6, <2>1
    <2>q. QED BY <1>10, <2>1, <2>2, <2>3
<1>11. seen[N] = g[N]
    <2> HIDE DEF R
    <2>1. \A i \in 0 .. N : i < N /\ i \in R => i + 1 \in R
          BY <1>10
    <2>2. \A i \in 0 .. N : i \in R
          BY <1>2, <1>9, <2>1, Rounds, Zenon
    <2>3. N \in R
          BY <1>2, <2>2
    <2>q. QED BY <2>3 DEF R
<1>q. QED BY <1>1, <1>6, <1>11 DEF N, X, AmongLoop

\* Among keeps what is in S and nothing else.
LEMMA AmongType ==
    ASSUME NEW T, NEW s \in Seq(T), NEW S
    PROVE  Among(s, S) \in Seq(T \cap S)
<1>1. PICK g \in [0 .. Len(s) -> Seq(T \cap S)] : AmongLoop(g, s, S)
      BY AmongDefined
<1>q. QED BY <1>1 DEF AmongLoop

\* A member of S that is in the list is in what the walk keeps.
LEMMA AmongHas ==
    ASSUME NEW T, NEW s \in Seq(T), NEW S, NEW m \in S, InList(s, m)
    PROVE  InList(Among(s, S), m)
<1> DEFINE N == Len(s)
<1>0. PICK g \in [0 .. N -> Seq(T \cap S)] : AmongLoop(g, s, S)
      BY AmongDefined
<1>1. /\ \A i \in 1 .. N : g[i] = IF s[i] \in S THEN Append(g[i - 1], s[i]) ELSE g[i - 1]
      /\ Among(s, S) = g[N]
      BY <1>0 DEF AmongLoop
<1>2. N \in Nat
      OBVIOUS
<1>3. PICK j \in 1 .. N : s[j] = m
      BY DEF InList
<1> HIDE DEF N
<1> DEFINE R == {i \in 0 .. N : j <= i => InList(g[i], m)}
<1>4. 0 \in R
      BY <1>2
<1>5. ASSUME NEW i \in 0 .. N, i < N, i \in R PROVE i + 1 \in R
    <2>1. i + 1 \in 1 .. N /\ i + 1 \in 0 .. N /\ (i + 1) - 1 = i
          BY <1>2, <1>5
    <2>2. g[i + 1] = IF s[i + 1] \in S THEN Append(g[i], s[i + 1]) ELSE g[i]
          BY <1>1, <2>1
    <2>3. g[i] \in Seq(T \cap S)
          OBVIOUS
    <2>4. CASE j <= i
        <3>1. InList(g[i], m)
              BY <1>5, <2>4
        <3>2. s[i + 1] \in S => InList(Append(g[i], s[i + 1]), m)
              BY <2>3, <3>1 DEF InList
        <3>q. QED BY <2>1, <2>2, <3>1, <3>2
    <2>5. CASE j = i + 1
        <3>1. InList(Append(g[i], m), m)
            <4> DEFINE a == Append(g[i], m)
            <4>1. Len(g[i]) + 1 \in DOMAIN a /\ a[Len(g[i]) + 1] = m
                  BY <2>3
            <4>q. QED BY <4>1 DEF InList
        <3>q. QED BY <1>3, <2>1, <2>2, <2>5, <3>1
    <2>6. CASE j > i + 1
          BY <2>1, <2>6
    <2>q. QED BY <2>4, <2>5, <2>6
<1>6. N \in R
    <2> HIDE DEF R
    <2>1. \A i \in 0 .. N : i < N /\ i \in R => i + 1 \in R
          BY <1>5
    <2>2. \A i \in 0 .. N : i \in R
          BY <1>2, <1>4, <2>1, Rounds, Zenon
    <2>q. QED BY <1>2, <2>2
<1>q. QED BY <1>1, <1>6

\* r is s with e after its first n elements.
Inserted(r, s, n, e) ==
    /\ Len(r) = Len(s) + 1
    /\ \A i \in 1 .. n : r[i] = s[i]
    /\ r[n + 1] = e
    /\ \A i \in n + 2 .. Len(s) + 1 : r[i] = s[i - 1]

\* Inserting at a place of a list: what is before the place stays, the rest
\* moves by one.
LEMMA InsertAtFacts ==
    ASSUME NEW S, NEW s \in Seq(S), NEW e \in S, NEW n \in 0 .. Len(s)
    PROVE  /\ InsertAt(s, n + 1, e) \in Seq(S)
           /\ Inserted(InsertAt(s, n + 1, e), s, n, e)
<1> DEFINE a == SubSeq(s, 1, n)
           b == SubSeq(s, n + 1, Len(s))
           r == a \o <<e>> \o b
<1>1. a \in Seq(S) /\ Len(a) = n /\ \A i \in 1 .. n : a[i] = s[i]
      OBVIOUS
<1>2. b \in Seq(S) /\ Len(b) = Len(s) - n /\ \A i \in 1 .. Len(s) - n : b[i] = s[i + n]
      OBVIOUS
<1>3. InsertAt(s, n + 1, e) = r
    <2>1. InsertAt(s, n + 1, e) = SubSeq(s, 1, (n + 1) - 1) \o <<e>> \o SubSeq(s, n + 1, Len(s))
          BY DEF InsertAt
    <2>2. (n + 1) - 1 = n
          OBVIOUS
    <2>q. QED BY <2>1, <2>2, Zenon
<1> HIDE DEF a, b
<1>4. /\ r \in Seq(S) /\ Len(r) = Len(a) + 1 + Len(b)
      /\ \A i \in 1 .. Len(a) : r[i] = a[i]
      /\ r[Len(a) + 1] = e
      /\ \A i \in 1 .. Len(b) : r[Len(a) + 1 + i] = b[i]
    <2>1. a \in Seq(S) /\ b \in Seq(S)
          BY <1>1, <1>2
    <2>q. QED BY <2>1
<1> HIDE DEF r
<1>5. ASSUME NEW i \in n + 2 .. Len(s) + 1 PROVE r[i] = s[i - 1]
    <2>1. i - 1 - n \in 1 .. Len(b) /\ i = Len(a) + 1 + (i - 1 - n) /\ i - 1 - n + n = i - 1
          BY <1>1, <1>2
    <2>q. QED BY <1>2, <1>4, <2>1
<1>6. Len(r) = Len(s) + 1 /\ r[n + 1] = e /\ \A i \in 1 .. n : r[i] = s[i]
      BY <1>1, <1>2, <1>4
<1>q. QED BY <1>3, <1>4, <1>5, <1>6 DEF Inserted

\* mh_insert keeps the order of the positions, the other handlers, and adds
\* the new one.
LEMMA MhInsert ==
    ASSUME NEW list \in Seq(Handler), NEW m \in Modules, NEW position \in 0 .. 100
    PROVE  /\ mh_insert(list, m, position) \in Seq(Handler)
           /\ \E n \in 0 .. Len(list) :
                 /\ \A i \in 1 .. n : list[i].position < position
                 /\ n < Len(list) => ~(list[n + 1].position < position)
                 /\ Inserted(mh_insert(list, m, position), list, n,
                             [module |-> m, position |-> position])
<1> DEFINE before(h) == h.position < position
           Place(k) == /\ \A i \in 1 .. k : before(list[i])
                       /\ k < Len(list) => ~before(list[k + 1])
           e == [module |-> m, position |-> position]
           n == CHOOSE k \in 0 .. Len(list) : Place(k)
           T == {k \in 0 .. Len(list) : k < Len(list) => ~before(list[k + 1])}
<1>1. Len(list) \in Nat
      OBVIOUS
<1>2. T \subseteq Nat /\ T # {}
    <2>1. Len(list) \in T
          BY <1>1
    <2>q. QED BY <2>1
<1>3. PICK k \in T : \A l \in T : k <= l
    <2> HIDE DEF T
    <2>q. QED BY <1>2, LeastNatural, Zenon
<1>4. k \in 0 .. Len(list) /\ Place(k)
    <2>1. ASSUME NEW i \in 1 .. k PROVE before(list[i])
        <3>1. i - 1 \in 0 .. Len(list) /\ i - 1 < Len(list) /\ ~(k <= i - 1) /\ i - 1 + 1 = i
              BY <1>1
        <3>2. i - 1 \notin T
              BY <1>3, <3>1
        <3>q. QED BY <3>1, <3>2
    <2>q. QED BY <2>1
<1>5. n \in 0 .. Len(list) /\ Place(n)
    <2> HIDE DEF Place
    <2>q. QED BY <1>4, Zenon
<1>6. mh_insert(list, m, position) = InsertAt(list, n + 1, e)
      BY DEF mh_insert
<1>7. e \in Handler
      BY DEF Handler
<1> HIDE DEF n, e
<1>q. QED BY <1>5, <1>6, <1>7, InsertAtFacts DEF e

-----------------------------------------------------------------------------
(* The inductive invariant *)

Frames == [srcmod : Outputs, src : Names, dst : Names, text : Text,
           stage : Stage \cup {"output", "done"}, pos : Nat \ {0},
           target : Outputs \cup {NULL}, newtext : BOOLEAN, calls : Nat]

Message == [src : Names, dst : Names, text : Text]

History == [messages : Seq(Message), logs : SUBSET (Names \X Names \X Names \X Text),
            asked : BOOLEAN, taken : BOOLEAN, stale : BOOLEAN, crashed : BOOLEAN]

Types ==
    /\ toload \in Seq(Modules)
    /\ tounload = NULL \/ tounload \in Seq(Modules)
    /\ loaded \subseteq Modules
    /\ handlers \in [Stage -> Seq(Handler)]
    /\ evhlist \in Seq(Listeners)
    /\ userlogs \in BOOLEAN
    /\ bot \in {NULL, Bot}
    /\ sessions \subseteq Names
    /\ stack \in Seq(Frames)
    /\ history \in History

\* Loading.  The two modules whose handlers matter come after gnr, which
\* clears the lists, and stay in them until the shutdown; the list for
\* routing is sorted, which puts timps-otr first.
Watched == {"timps-logging", "timps-otr"}
\* Every g in the list has an m behind it.
After(list, g, m) == \A i \in DOMAIN list : list[i] = g =>
                        \E j \in DOMAIN list : i < j /\ list[j] = m
\* m has a handler where its init puts it.
HasHandler(hs, m) == \E i \in DOMAIN hs[StageOf(m)] : hs[StageOf(m)][i].module = m
Registered(m) == HasHandler(handlers, m)
Sorted(list) == \A i, j \in DOMAIN list : i < j => list[i].position <= list[j].position
Placed(list) == \A i \in DOMAIN list :
    list[i].position = IF list[i].module = "timps-otr" THEN 30 ELSE 75

LoadInv ==
    /\ tounload # NULL => toload = <<>>
    /\ stack # <<>> => Running
    /\ tounload = NULL => \A m \in Watched : InList(toload, m) \/ Registered(m)
    /\ \A m \in Watched : After(toload, "gnr", m)
    /\ tounload = NULL => Sorted(handlers["routing"]) /\ Placed(handlers["routing"])

\* Nodes.  A stream is counted where its tag is; timps-otr still hears of its
\* bot's node.
NodesRight(ns, st) ==
    /\ DOMAIN ns \subseteq Names /\ ns \in [DOMAIN ns -> Node]
    /\ st \in [Names -> Nat]
    /\ \A x \in Names : st[x] = IF x \in DOMAIN ns /\ ns[x].log THEN 1 ELSE 0

NodeInv ==
    /\ NodesRight(nodes, streams)
    /\ bot # NULL => Online(bot) /\ Listens("timps-otr")
    /\ evhfreed => tounload # NULL /\ DOMAIN nodes = {}

\* The calls under way: a message of a client, and inside its call at most
\* one of timps-otr's own, which never comes back to timps-otr.
FrameRight(f, i) ==
    /\ f.srcmod = IF i = 1 THEN "timps-oscar" ELSE "timps-otr"
    /\ i = 1 => f.text \in Brought
    /\ i = 2 => f.text \notin Brought /\ f.target # "timps-otr"
    /\ f.stage \in {"prerouting", "routing"} => f.target = NULL
    /\ f.newtext => i = 1 /\ f.target = "timps-otr"
    /\ f.calls <= MaxCallbacks

StackInv ==
    /\ Len(stack) <= 2
    /\ \A i \in DOMAIN stack : FrameRight(stack[i], i)

\* What is on the wire.
NoCopy == \A i \in DOMAIN history.messages : history.messages[i].text = "notice"

WireInv ==
    /\ stack = <<>> => history.messages = <<>> /\ ~history.taken
    /\ stack # <<>> => (history.taken <=> stack[1].newtext)
    /\ stack # <<>> /\ stack[1].stage # "done" => NoCopy
    /\ Len(stack) = 2 /\ stack[2].text = "otr" =>
          /\ stack[1].newtext /\ stack[1].stage = "done"
          /\ stack[2].stage # "done" => NoCopy
    /\ OneCopy

\* What libotr has seen, and what it is not shown.
Spared(f) == Local(f.src) /\ f.text = "tagged"
Unasked(f) == Spared(f) \/ (~Local(f.src) /\ ~Local(f.dst))
AskInv ==
    /\ stack # <<>> =>
          /\ stack[1].target = "timps-oscar" => history.asked \/ Spared(stack[1])
          /\ stack[1].stage = "routing" /\ stack[1].pos > 1 => history.asked \/ Unasked(stack[1])
    /\ OtrAskedFirst

\* What is in the logs.
Written(f) == \A n \in {f.src, f.dst} : Online(n) /\ nodes[n].log =>
                 <<n, f.src, f.dst, f.text>> \in history.logs
\* The handler of timps-logging has seen f.
Reached(f) ==
    \/ f.stage = "output"
    \/ f.stage = "postrouting" /\ \E p \in DOMAIN handlers["postrouting"] :
          p < f.pos /\ handlers["postrouting"][p].module = "timps-logging"

LogInv ==
    /\ \A i \in DOMAIN stack : Reached(stack[i]) => Written(stack[i])
    /\ LoggedBeforeSent

IInv == Types /\ LoadInv /\ NodeInv /\ StackInv /\ WireInv /\ AskInv /\ LogInv

-----------------------------------------------------------------------------
(* The order of loading *)

\* What a concatenation has, and what comes last in it.
LEMMA ConcatLists ==
    ASSUME NEW S, NEW a \in Seq(S), NEW b \in Seq(S), NEW g, NEW m
    PROVE  /\ a \o b \in Seq(S)
           /\ InList(a, m) \/ InList(b, m) => InList(a \o b, m)
           /\ InList(a \o b, m) => InList(a, m) \/ InList(b, m)
           /\ ~InList(b, g) /\ InList(b, m) => After(a \o b, g, m)
           /\ ~InList(b, g) /\ After(a, g, m) => After(a \o b, g, m)
<1> DEFINE c == a \o b
<1>1. /\ c \in Seq(S) /\ Len(c) = Len(a) + Len(b) /\ DOMAIN c = 1 .. Len(a) + Len(b)
      /\ \A i \in 1 .. Len(a) : c[i] = a[i]
      /\ \A i \in 1 .. Len(b) : c[Len(a) + i] = b[i]
      OBVIOUS
<1>2. DOMAIN a = 1 .. Len(a) /\ DOMAIN b = 1 .. Len(b) /\ Len(a) \in Nat /\ Len(b) \in Nat
      OBVIOUS
<1> HIDE DEF c
<1>3. \A i \in DOMAIN c : \/ i \in DOMAIN a /\ c[i] = a[i]
                          \/ /\ i > Len(a) /\ i - Len(a) \in DOMAIN b
                             /\ c[i] = b[i - Len(a)]
    <2>1. SUFFICES ASSUME NEW i \in DOMAIN c, i \notin DOMAIN a
                   PROVE  i > Len(a) /\ i - Len(a) \in DOMAIN b /\ c[i] = b[i - Len(a)]
          BY <1>1, <1>2
    <2>2. i > Len(a) /\ i - Len(a) \in 1 .. Len(b) /\ Len(a) + (i - Len(a)) = i
          BY <1>1, <1>2, <2>1
    <2>q. QED BY <1>1, <1>2, <2>2
<1>4. InList(a, m) => InList(c, m)
      BY <1>1, <1>2 DEF InList
<1>5. ASSUME NEW k \in DOMAIN b
      PROVE  Len(a) + k \in DOMAIN c /\ c[Len(a) + k] = b[k] /\ Len(a) + k > Len(a)
      BY <1>1, <1>2
<1>6. InList(b, m) => InList(c, m)
      BY <1>5 DEF InList
<1>7. InList(c, m) => InList(a, m) \/ InList(b, m)
      BY <1>3 DEF InList
<1>8. ASSUME ~InList(b, g), InList(b, m) PROVE After(c, g, m)
    <2>1. PICK k \in DOMAIN b : b[k] = m
          BY <1>8 DEF InList
    <2>2. ASSUME NEW i \in DOMAIN c, c[i] = g PROVE i < Len(a) + k
          BY <1>2, <1>3, <1>8, <2>2 DEF InList
    <2>q. QED BY <1>5, <2>1, <2>2 DEF After
<1>9. ASSUME ~InList(b, g), After(a, g, m) PROVE After(c, g, m)
    <2>1. ASSUME NEW i \in DOMAIN c, c[i] = g PROVE \E j \in DOMAIN c : i < j /\ c[j] = m
        <3>1. i \in DOMAIN a /\ a[i] = g
              BY <1>3, <1>9, <2>1 DEF InList
        <3>2. PICK j \in DOMAIN a : i < j /\ a[j] = m
              BY <1>9, <3>1 DEF After
        <3>q. QED BY <1>1, <1>2, <3>2
    <2>q. QED BY <2>1 DEF After
<1>q. QED BY <1>1, <1>4, <1>6, <1>7, <1>8, <1>9 DEF c

\* The modules main registers: timps-logging and timps-otr are among them,
\* whichever option added timps-otr.
LEMMA ModlistFacts ==
    /\ modlist \in Seq(Modules)
    /\ InList(modlist, "timps-logging") /\ InList(modlist, "timps-otr")
    /\ {"gnr", "timps-logging", "timps-oscar", "timps", "timps-otr"} \subseteq Modules
<1> DEFINE a == <<"timps", "timps-logging", "timps-oscar", "gnr">>
           b == <<"rpc", "stats", "net", "ipv4", "conn", "config", "core">>
           A == {"timps", "timps-logging", "timps-oscar", "gnr",
                 "rpc", "stats", "net", "ipv4", "conn", "config", "core"}
<1>1. a \in Seq(A) /\ b \in Seq(A) /\ Len(a) = 4 /\ Len(b) = 7
      OBVIOUS
<1>2. Residents = a \o b
      BY DEF Residents
<1>3. a[1] = "timps" /\ a[2] = "timps-logging" /\ a[3] = "timps-oscar" /\ a[4] = "gnr"
      OBVIOUS
<1> HIDE DEF a, b, A
<1>4. /\ Residents \in Seq(A) /\ Len(Residents) = 11
      /\ Residents[1] = "timps" /\ Residents[2] = "timps-logging"
      /\ Residents[3] = "timps-oscar" /\ Residents[4] = "gnr"
    <2>1. a \in Seq(A) /\ b \in Seq(A)
          BY <1>1
    <2>2. /\ a \o b \in Seq(A) /\ Len(a \o b) = Len(a) + Len(b)
          /\ \A i \in 1 .. Len(a) : (a \o b)[i] = a[i]
          BY <2>1
    <2>q. QED BY <1>1, <1>2, <1>3, <2>2
<1>5. \A i \in 1 .. 11 : Residents[i] \in Modules
      BY <1>4 DEF Modules, ToSet
<1>6. Residents \in Seq(Modules)
    <2>1. \A i \in 1 .. Len(Residents) : Residents[i] \in Modules
          BY <1>4, <1>5
    <2>2. Residents = [i \in 1 .. Len(Residents) |-> Residents[i]] /\ Len(Residents) \in Nat
          BY <1>4
    <2> HIDE DEF A
    <2>q. QED BY <2>1, <2>2, SeqDef
<1>7. "timps-otr" \in Modules
      BY DEF Modules
<1>8. <<"timps-otr">> \in Seq(Modules) /\ InList(<<"timps-otr">>, "timps-otr")
      BY <1>7 DEF InList
<1>9. InList(Residents, "timps-logging")
      BY <1>4 DEF InList
<1>10. modlist \in {<<"timps-otr">> \o Residents, Residents \o <<"timps-otr">>}
      BY DEF modlist
<1>11. /\ modlist \in Seq(Modules)
       /\ InList(modlist, "timps-logging") /\ InList(modlist, "timps-otr")
    <2> DEFINE o == <<"timps-otr">>
    <2> HIDE DEF o
    <2>1. o \in Seq(Modules) /\ InList(o, "timps-otr") /\ modlist \in {o \o Residents, Residents \o o}
          BY <1>8, <1>10 DEF o
    <2>2. CASE modlist = o \o Residents
          BY <1>6, <1>9, <2>1, <2>2, ConcatLists
    <2>3. CASE modlist = Residents \o o
          BY <1>6, <1>9, <2>1, <2>3, ConcatLists
    <2>q. QED BY <2>1, <2>2, <2>3
<1>q. QED BY <1>4, <1>5, <1>7, <1>11

\* What naf_init1 is going to load.
LEMMA LoadOrder ==
    /\ naf_module__loadall \in Seq(Modules)
    /\ \A m \in Watched : InList(naf_module__loadall, m) /\ After(naf_module__loadall, "gnr", m)
<1> DEFINE P(pri) == {m \in Modules : startuppri(m) = pri}
<1>1. \A pri : LoadPass(pri) \in Seq(Modules \cap P(pri))
      BY ModlistFacts, AmongType DEF LoadPass
<1>2. ASSUME NEW pri PROVE LoadPass(pri) \in Seq(Modules)
    <2> HIDE DEF P
    <2>1. LoadPass(pri) \in Seq(Modules \cap P(pri))
          BY <1>1
    <2>q. QED BY <2>1
<1>3. "timps-logging" \in P(3) /\ "timps-otr" \in P(0) /\ "gnr" \notin P(3) /\ "gnr" \notin P(0)
      BY ModlistFacts DEF startuppri
<1>4. InList(LoadPass(3), "timps-logging") /\ InList(LoadPass(0), "timps-otr")
    <2> HIDE DEF P
    <2>1. \A pri : LoadPass(pri) = Among(modlist, P(pri))
          BY DEF LoadPass, P
    <2>q. QED BY <1>3, <2>1, ModlistFacts, AmongHas
<1>5. ~InList(LoadPass(3), "gnr") /\ ~InList(LoadPass(0), "gnr")
    <2> HIDE DEF P
    <2>1. LoadPass(3) \in Seq(Modules \cap P(3)) /\ LoadPass(0) \in Seq(Modules \cap P(0))
          BY <1>1
    <2>q. QED BY <1>3, <2>1 DEF InList
<1> DEFINE a == LoadPass(5) \o LoadPass(4)
           c == LoadPass(3)
           d == LoadPass(0)
<1>6. naf_module__loadall = (a \o c) \o d
      BY DEF naf_module__loadall
<1>7. a \in Seq(Modules) /\ c \in Seq(Modules) /\ d \in Seq(Modules)
      BY <1>2
<1> HIDE DEF a, c, d
<1>8. /\ a \o c \in Seq(Modules) /\ InList(a \o c, "timps-logging")
      /\ After(a \o c, "gnr", "timps-logging")
      BY <1>4, <1>5, <1>7, ConcatLists DEF c
<1>9. /\ (a \o c) \o d \in Seq(Modules)
      /\ InList((a \o c) \o d, "timps-logging") /\ InList((a \o c) \o d, "timps-otr")
      /\ After((a \o c) \o d, "gnr", "timps-logging")
      /\ After((a \o c) \o d, "gnr", "timps-otr")
    <2> DEFINE e == a \o c
    <2> HIDE DEF e
    <2>1. e \in Seq(Modules) /\ InList(e, "timps-logging") /\ After(e, "gnr", "timps-logging")
          BY <1>8 DEF e
    <2>2. InList(d, "timps-otr") /\ ~InList(d, "gnr")
          BY <1>4, <1>5 DEF d
    <2>3. /\ e \o d \in Seq(Modules)
          /\ InList(e \o d, "timps-logging") /\ InList(e \o d, "timps-otr")
          /\ After(e \o d, "gnr", "timps-logging") /\ After(e \o d, "gnr", "timps-otr")
          BY <1>7, <2>1, <2>2, ConcatLists
    <2>q. QED BY <2>3 DEF e
<1>q. QED BY <1>6, <1>9 DEF Watched

-----------------------------------------------------------------------------
(* Steps outside of a call *)

\* Nothing is being routed.
LEMMA QuietStep ==
    ASSUME stack' = <<>>, history'.messages = <<>>, ~history'.taken
    PROVE  StackInv' /\ WireInv' /\ AskInv' /\ LogInv'
<1>1. StackInv'
      BY DEF StackInv
<1>2. WireInv'
      BY DEF WireInv, OneCopy
<1>3. AskInv'
      BY DEF AskInv, OtrAskedFirst
<1>4. LogInv'
      BY DEF LogInv, LoggedBeforeSent
<1>q. QED BY <1>1, <1>2, <1>3, <1>4

\* A step that leaves modules and handler lists alone keeps what is known of
\* them.
LEMMA ListsKept ==
    ASSUME LoadInv, UNCHANGED lists, stack' # <<>> => Running
    PROVE  LoadInv'
BY DEF LoadInv, lists, Running, Registered, HasHandler, Sorted, Placed, InList, After

\* gnr_node_online and the stream that timps-logging opens.
LEMMA NodeOnline ==
    ASSUME NodesRight(nodes, streams), userlogs \in BOOLEAN,
           NEW n \in Names, NEW m \in Modules, NEW local \in BOOLEAN,
           gnr_node_online(n, m, local)
    PROVE  /\ NodesRight(nodes', streams')
           /\ DOMAIN nodes' = DOMAIN nodes \cup {n}
<1>1. CASE Online(n)
      BY <1>1 DEF gnr_node_online, NodesRight, Online
<1>2. CASE ~Online(n)
    <2>1. PICK up \in BOOLEAN :
             /\ nodes' = [x \in DOMAIN nodes \cup {n} |->
                             IF x = n THEN [owner |-> m, local |-> local, log |-> up]
                                      ELSE nodes[x]]
             /\ streams' = [streams EXCEPT ![n] = @ + (IF up THEN 1 ELSE 0)]
          BY <1>2 DEF gnr_node_online, tlogging_nodeup
    <2> DEFINE new == [owner |-> m, local |-> local, log |-> up]
               D == DOMAIN nodes \cup {n}
    <2>2. /\ nodes' = [x \in D |-> IF x = n THEN new ELSE nodes[x]]
          /\ streams' = [streams EXCEPT ![n] = @ + (IF up THEN 1 ELSE 0)]
          BY <2>1
    <2>3. new \in Node /\ new.log = up
          BY <2>1 DEF Node
    <2> HIDE DEF new
    <2>4. n \notin DOMAIN nodes
          BY <1>2 DEF Online
    <2>5. /\ DOMAIN nodes' = D /\ nodes' \in [D -> Node] /\ D \subseteq Names
          BY <2>2, <2>3 DEF NodesRight
    <2>6. streams' \in [Names -> Nat]
          BY <2>2 DEF NodesRight
    <2>7. ASSUME NEW x \in Names
          PROVE  streams'[x] = IF x \in DOMAIN nodes' /\ nodes'[x].log THEN 1 ELSE 0
        <3>1. CASE x = n
            <4>1. streams[n] = 0
                  BY <2>4 DEF NodesRight
            <4>2. streams'[n] = 0 + (IF up THEN 1 ELSE 0)
                  BY <2>2, <4>1 DEF NodesRight
            <4>3. nodes'[n] = new
                  BY <2>2
            <4>q. QED BY <2>1, <2>3, <2>5, <3>1, <4>2, <4>3
        <3>2. CASE x # n
            <4>1. streams'[x] = streams[x]
                  BY <2>2, <3>2 DEF NodesRight
            <4>2. x \in DOMAIN nodes' <=> x \in DOMAIN nodes
                  BY <2>5, <3>2
            <4>3. x \in DOMAIN nodes => nodes'[x] = nodes[x]
                  BY <2>2, <3>2
            <4>q. QED BY <4>1, <4>2, <4>3 DEF NodesRight
        <3>q. QED BY <3>1, <3>2
    <2>q. QED BY <2>5, <2>6, <2>7 DEF NodesRight
<1>q. QED BY <1>1, <1>2

\* freenode of every node of N.
LEMMA NodesFreed ==
    ASSUME NodesRight(nodes, streams), NEW N \in SUBSET DOMAIN nodes, FreeNodes(N)
    PROVE  /\ NodesRight(nodes', streams')
           /\ DOMAIN nodes' = DOMAIN nodes \ N
           /\ \A x \in DOMAIN nodes' : nodes'[x] = nodes[x]
<1>1. /\ nodes' = [n \in DOMAIN nodes \ N |-> nodes[n]]
      /\ streams' = [n \in Names |-> IF n \in Logged(N) THEN streams[n] - 1 ELSE streams[n]]
      BY DEF FreeNodes, StreamsClosed
<1>2. /\ DOMAIN nodes' = DOMAIN nodes \ N
      /\ \A x \in DOMAIN nodes' : nodes'[x] = nodes[x]
      /\ nodes' \in [DOMAIN nodes' -> Node] /\ DOMAIN nodes' \subseteq Names
      BY <1>1 DEF NodesRight
<1>3. ASSUME NEW x \in Names
      PROVE  /\ streams'[x] \in Nat
             /\ streams'[x] = IF x \in DOMAIN nodes' /\ nodes'[x].log THEN 1 ELSE 0
    <2>1. streams[x] = IF x \in DOMAIN nodes /\ nodes[x].log THEN 1 ELSE 0
          BY DEF NodesRight
    <2>2. streams'[x] = IF x \in Logged(N) THEN streams[x] - 1 ELSE streams[x]
          BY <1>1
    <2>3. x \in Logged(N) <=> x \in N /\ nodes[x].log
          BY DEF Logged
    <2>4. CASE x \in N
          BY <1>2, <2>1, <2>2, <2>3, <2>4
    <2>5. CASE x \notin N
          BY <1>2, <2>1, <2>2, <2>3, <2>5
    <2>q. QED BY <2>4, <2>5
<1>4. streams' \in [Names -> Nat]
      BY <1>1, <1>3
<1>q. QED BY <1>2, <1>3, <1>4 DEF NodesRight

\* Nodes go while the loop runs: timps-logging and timps-otr hear of it.
LEMMA FreeStep ==
    ASSUME IInv, AtPoll, NEW N \in SUBSET DOMAIN nodes, FreeNodes(N),
           UNCHANGED <<lists, userlogs, stack, history>>, sessions' \subseteq Names
    PROVE  IInv'
<1>1. Types /\ LoadInv /\ NodeInv /\ WireInv /\ tounload = NULL /\ stack = <<>>
      BY DEF IInv, AtPoll, Running
<1>2. /\ NodesRight(nodes', streams') /\ DOMAIN nodes' = DOMAIN nodes \ N
      /\ \A x \in DOMAIN nodes' : nodes'[x] = nodes[x]
      BY <1>1, NodesFreed DEF NodeInv
<1>6. bot' \in {NULL, Bot} /\ (bot' # NULL => bot' = bot /\ bot \notin N)
      BY <1>1 DEF FreeNodes, totr_nodedown, Types, NodeInv
<1>7. Types'
      BY <1>1, <1>6 DEF Types, lists
<1>8. LoadInv'
      BY <1>1, ListsKept
<1>9. NodeInv'
    <2>1. Listens("timps-otr")' = Listens("timps-otr")
          BY DEF Listens, lists
    <2>2. bot' # NULL => Online(bot)' /\ Listens("timps-otr")'
          BY <1>1, <1>2, <1>6, <2>1 DEF NodeInv, Online
    <2>q. QED BY <1>1, <1>2, <2>2 DEF NodeInv, lists
<1>10. StackInv' /\ WireInv' /\ AskInv' /\ LogInv'
    <2>1. stack' = <<>> /\ history'.messages = <<>> /\ ~history'.taken
          BY <1>1 DEF WireInv
    <2>q. QED BY <2>1, QuietStep
<1>q. QED BY <1>7, <1>8, <1>9, <1>10 DEF IInv

\* A node comes up while the loop runs.
LEMMA OnlineStep ==
    ASSUME Types, NodeInv, tounload = NULL, NEW n \in Names, NEW m \in Modules,
           NEW local \in BOOLEAN, gnr_node_online(n, m, local),
           UNCHANGED <<lists, bot, history>>
    PROVE  NodeInv'
<1>1. /\ NodesRight(nodes', streams') /\ DOMAIN nodes' = DOMAIN nodes \cup {n}
    <2>1. NodesRight(nodes, streams) /\ userlogs \in BOOLEAN
          BY DEF NodeInv, Types
    <2>q. QED BY <2>1, NodeOnline, Zenon
<1>2. Listens("timps-otr")' = Listens("timps-otr")
      BY DEF Listens, lists
<1>3. bot' # NULL => Online(bot)' /\ Listens("timps-otr")'
      BY <1>1, <1>2 DEF NodeInv, Online
<1>q. QED BY <1>1, <1>3 DEF NodeInv, lists

\* A login, a Client Online and a logout keep the invariant.
LEMMA SessionStep ==
    ASSUME IInv, NEW n \in Names, Session(n)
    PROVE  IInv'
<1>1. AtPoll /\ Types /\ LoadInv /\ NodeInv /\ WireInv
      BY DEF IInv, Session, Login, ClientOnline, Logout
<1>2. tounload = NULL /\ stack = <<>> /\ history.messages = <<>> /\ ~history.taken
      BY <1>1 DEF AtPoll, Running, WireInv
<1>3. CASE Login(n)
    <2>1. Types'
          BY <1>1, <1>3 DEF Login, Types, lists
    <2>2. LoadInv'
          BY <1>1, <1>2, <1>3, ListsKept DEF Login
    <2>3. NodeInv'
          BY <1>1, <1>3 DEF Login, NodeInv, lists, Logged, Listens, Online
    <2>4. StackInv' /\ WireInv' /\ AskInv' /\ LogInv'
          BY <1>2, <1>3, QuietStep DEF Login
    <2>q. QED BY <2>1, <2>2, <2>3, <2>4 DEF IInv
<1>4. CASE ClientOnline(n)
    <2>1. Types'
          BY <1>1, <1>4 DEF ClientOnline, Types, lists
    <2>2. LoadInv'
          BY <1>1, <1>2, <1>4, ListsKept DEF ClientOnline
    <2>3. NodeInv'
        <3>1. "timps-oscar" \in Modules
              BY ModlistFacts
        <3>q. QED BY <1>1, <1>2, <1>4, <3>1, OnlineStep DEF ClientOnline
    <2>4. StackInv' /\ WireInv' /\ AskInv' /\ LogInv'
          BY <1>2, <1>4, QuietStep DEF ClientOnline
    <2>q. QED BY <2>1, <2>2, <2>3, <2>4 DEF IInv
<1>5. CASE Logout(n)
    <2>1. {n} \cap DOMAIN nodes \in SUBSET DOMAIN nodes
          OBVIOUS
    <2>2. FreeNodes({n} \cap DOMAIN nodes) /\ UNCHANGED <<lists, userlogs, stack, history>>
          BY <1>5 DEF Logout
    <2>3. sessions' \subseteq Names
          BY <1>1, <1>5 DEF Logout, Types
    <2>q. QED BY <1>1, <2>1, <2>2, <2>3, FreeStep
<1>q. QED BY <1>3, <1>4, <1>5 DEF Session

\* The expiry of a node keeps the invariant.
LEMMA TimeoutStep ==
    ASSUME IInv, gnr_node__timeout
    PROVE  IInv'
<1>1. PICK n \in DOMAIN nodes : FreeNodes({n})
      BY DEF gnr_node__timeout
<1>2. {n} \in SUBSET DOMAIN nodes /\ AtPoll
      /\ UNCHANGED <<lists, userlogs, stack, history>>
      BY DEF gnr_node__timeout
<1>3. sessions' \subseteq Names
      BY DEF gnr_node__timeout, IInv, Types
<1>q. QED BY <1>1, <1>2, <1>3, FreeStep

\* An RPC request keeps the invariant: it changes tags and nothing else.
LEMMA RequestStep ==
    ASSUME IInv, naf_rpc_request_issue
    PROVE  IInv'
<1>1. /\ UNCHANGED <<toload, tounload, loaded, handlers, statslist, evhlist, evhfreed, nodes,
                     streams, userlogs, bot, sessions, stack, history>>
      /\ stack = <<>> /\ Types /\ LoadInv /\ NodeInv /\ WireInv
      BY DEF naf_rpc_request_issue, AtPoll, IInv
<1>2. Types'
      BY <1>1 DEF Types
<1>3. LoadInv'
      BY <1>1 DEF LoadInv, Running, Registered, HasHandler, Sorted, Placed, InList, After
<1>4. NodeInv'
      BY <1>1 DEF NodeInv, Logged, Listens, Online
<1>5. StackInv' /\ WireInv' /\ AskInv' /\ LogInv'
      BY <1>1, QuietStep DEF WireInv
<1>q. QED BY <1>2, <1>3, <1>4, <1>5 DEF IInv

-----------------------------------------------------------------------------
(* Loading and unloading *)

\* What mh_insert makes of a list: the old handlers, the new one, in order.
Grown(r, list, e) ==
    /\ \A i \in DOMAIN list : \E j \in DOMAIN r : r[j] = list[i]
    /\ \E j \in DOMAIN r : r[j] = e
    /\ \A j \in DOMAIN r : r[j] = e \/ \E i \in DOMAIN list : r[j] = list[i]
    /\ Sorted(list) => Sorted(r)

\* The fields of a handler.
LEMMA HandlerTypes ==
    \A h \in Handler : h.position \in Int /\ h.module \in Modules
BY DEF Handler

\* mh_insert adds its handler to the list, and nothing else.
LEMMA MhInsertGrows ==
    ASSUME NEW list \in Seq(Handler), NEW m \in Modules, NEW position \in 0 .. 100
    PROVE  /\ mh_insert(list, m, position) \in Seq(Handler)
           /\ Grown(mh_insert(list, m, position), list, [module |-> m, position |-> position])
<1> DEFINE r == mh_insert(list, m, position)
           e == [module |-> m, position |-> position]
           L == Len(list)
<1>1. r \in Seq(Handler)
      BY MhInsert
<1>2. PICK n \in 0 .. L :
         /\ \A i \in 1 .. n : list[i].position < position
         /\ n < L => ~(list[n + 1].position < position)
         /\ Inserted(r, list, n, e)
      BY MhInsert
<1>3. /\ L \in Nat /\ DOMAIN list = 1 .. L /\ DOMAIN r = 1 .. L + 1
      /\ \A i \in 1 .. n : r[i] = list[i]
      /\ r[n + 1] = e
      /\ \A i \in n + 2 .. L + 1 : r[i] = list[i - 1]
      BY <1>1, <1>2 DEF Inserted
<1>4. e.position = position /\ position \in Int /\ \A i \in 1 .. L : list[i].position \in Int
    <2>1. \A i \in 1 .. L : list[i] \in Handler
          BY <1>3
    <2>2. \A h \in Handler : h.position \in Int
          BY HandlerTypes
    <2>3. e.position = position
          OBVIOUS
    <2>4. position \in Int
          OBVIOUS
    <2> HIDE DEF e, L
    <2>q. QED BY <2>1, <2>2, <2>3, <2>4
<1> HIDE DEF r, e, L
<1>5. ASSUME NEW i \in DOMAIN list PROVE \E j \in DOMAIN r : r[j] = list[i]
    <2>1. CASE i <= n
          BY <1>2, <1>3, <2>1
    <2>2. CASE i > n
        <3>1. i + 1 \in n + 2 .. L + 1 /\ (i + 1) - 1 = i /\ i + 1 \in DOMAIN r
              BY <1>2, <1>3, <2>2
        <3>2. r[i + 1] = list[i]
              BY <1>3, <3>1
        <3>q. QED BY <3>1, <3>2
    <2>q. QED BY <1>2, <1>3, <2>1, <2>2
<1>6. n + 1 \in DOMAIN r
      BY <1>2, <1>3
<1>7. ASSUME NEW j \in DOMAIN r
      PROVE  \/ j \in 1 .. n /\ r[j] = list[j]
             \/ j = n + 1 /\ r[j] = e
             \/ j \in n + 2 .. L + 1 /\ j - 1 \in n + 1 .. L /\ r[j] = list[j - 1]
      BY <1>2, <1>3
<1>8. ASSUME NEW j \in DOMAIN r
      PROVE  r[j] = e \/ \E i \in DOMAIN list : r[j] = list[i]
      BY <1>2, <1>3, <1>7
<1>9. ASSUME Sorted(list), NEW i \in DOMAIN r, NEW j \in DOMAIN r, i < j
      PROVE  r[i].position <= r[j].position
    <2>1. \A p, q \in 1 .. L : p < q => list[p].position <= list[q].position
          BY <1>3, <1>9 DEF Sorted
    <2>2. \A q \in n + 1 .. L : ~(list[q].position < position)
        <3>1. SUFFICES ASSUME NEW q \in n + 1 .. L PROVE ~(list[q].position < position)
              OBVIOUS
        <3>2. n + 1 \in 1 .. L /\ q \in 1 .. L /\ n < L
              BY <1>2, <1>3
        <3>3. q = n + 1 \/ list[n + 1].position <= list[q].position
              BY <2>1, <3>2
        <3>q. QED BY <1>2, <1>4, <3>2, <3>3
    <2>3. CASE i \in 1 .. n /\ r[i] = list[i]
        <3>1. i \in 1 .. L
              BY <1>2, <1>3, <2>3
        <3>2. CASE j \in 1 .. n /\ r[j] = list[j]
              BY <1>2, <1>3, <1>9, <2>1, <2>3, <3>1, <3>2
        <3>3. CASE j = n + 1 /\ r[j] = e
              BY <1>2, <1>4, <2>3, <3>1, <3>3
        <3>4. CASE j - 1 \in n + 1 .. L /\ r[j] = list[j - 1]
            <4>1. j - 1 \in 1 .. L /\ i < j - 1
                  BY <1>2, <1>3, <2>3, <3>4
            <4>q. QED BY <2>1, <2>3, <3>1, <3>4, <4>1
        <3>q. QED BY <1>7, <3>2, <3>3, <3>4
    <2>4. CASE i = n + 1 /\ r[i] = e
        <3>1. j - 1 \in n + 1 .. L /\ j - 1 \in 1 .. L /\ r[j] = list[j - 1]
              BY <1>2, <1>3, <1>7, <1>9, <2>4
        <3>q. QED BY <1>4, <2>2, <2>4, <3>1
    <2>5. CASE i - 1 \in n + 1 .. L /\ r[i] = list[i - 1]
        <3>1. j - 1 \in 1 .. L /\ i - 1 \in 1 .. L /\ r[j] = list[j - 1] /\ i - 1 < j - 1
              BY <1>2, <1>3, <1>7, <1>9, <2>5
        <3>q. QED BY <2>1, <2>5, <3>1
    <2>q. QED BY <1>7, <2>3, <2>4, <2>5
<1>10. Sorted(list) => Sorted(r)
      BY <1>9 DEF Sorted
<1>11. Grown(r, list, e)
      BY <1>3, <1>5, <1>6, <1>8, <1>10 DEF Grown
<1>q. QED BY <1>1, <1>11 DEF r, e

\* The lists after a handler was added to one of them.
Added(new, hs, stage, e) ==
    /\ new \in [Stage -> Seq(Handler)]
    /\ Grown(new[stage], hs[stage], e)
    /\ \A s \in Stage \ {stage} : new[s] = hs[s]

\* gnr_msg_addmsghandler changes one list, as mh_insert does.
LEMMA HandlerAdded ==
    ASSUME NEW hs \in [Stage -> Seq(Handler)], NEW stage \in Stage, NEW m \in Modules,
           NEW position \in 0 .. 100
    PROVE  Added(gnr_msg_addmsghandler(hs, stage, position, m), hs, stage,
                 [module |-> m, position |-> position])
<1> DEFINE r == mh_insert(hs[stage], m, position)
           e == [module |-> m, position |-> position]
<1>1. hs[stage] \in Seq(Handler)
      OBVIOUS
<1>2. r \in Seq(Handler) /\ Grown(r, hs[stage], e)
      BY <1>1, MhInsertGrows
<1>3. gnr_msg_addmsghandler(hs, stage, position, m) = [hs EXCEPT ![stage] = r]
      BY DEF gnr_msg_addmsghandler
<1> HIDE DEF r, e
<1>q. QED BY <1>2, <1>3 DEF Added, e

\* Where a handler of the routing list has to be.
InPlace(stage, e) ==
    stage = "routing" => e.position = IF e.module = "timps-otr" THEN 30 ELSE 75

\* What adding keeps of the order of the lists and of their handlers.
LEMMA AddedKeeps ==
    ASSUME NEW hs \in [Stage -> Seq(Handler)], NEW new, NEW stage \in Stage,
           NEW e \in Handler, Added(new, hs, stage, e)
    PROVE  /\ \A w : HasHandler(hs, w) => HasHandler(new, w)
           /\ stage = StageOf(e.module) => HasHandler(new, e.module)
           /\ /\ Sorted(hs["routing"]) /\ Placed(hs["routing"])
              /\ InPlace(stage, e)
              => Sorted(new["routing"]) /\ Placed(new["routing"])
<1>1. Grown(new[stage], hs[stage], e) /\ \A s \in Stage \ {stage} : new[s] = hs[s]
      BY DEF Added
<1>2. ASSUME NEW w, HasHandler(hs, w) PROVE HasHandler(new, w)
    <2>1. StageOf(w) \in Stage
          BY DEF StageOf, Stage
    <2>2. CASE StageOf(w) = stage
        <3>1. PICK i \in DOMAIN hs[stage] : hs[stage][i].module = w
              BY <1>2, <2>2 DEF HasHandler
        <3>2. PICK j \in DOMAIN new[stage] : new[stage][j] = hs[stage][i]
              BY <1>1 DEF Grown
        <3>q. QED BY <2>2, <3>1, <3>2 DEF HasHandler
    <2>3. CASE StageOf(w) # stage
          BY <1>1, <1>2, <2>1, <2>3 DEF HasHandler
    <2>q. QED BY <2>2, <2>3
<1>3. stage = StageOf(e.module) => HasHandler(new, e.module)
      BY <1>1 DEF Grown, HasHandler
<1>4. ASSUME Sorted(hs["routing"]), Placed(hs["routing"]),
             InPlace(stage, e)
      PROVE  Sorted(new["routing"]) /\ Placed(new["routing"])
    <2>1. CASE stage = "routing"
        <3>1. Sorted(new["routing"])
              BY <1>1, <1>4, <2>1 DEF Grown
        <3>2. ASSUME NEW j \in DOMAIN new["routing"]
              PROVE  new["routing"][j].position =
                        IF new["routing"][j].module = "timps-otr" THEN 30 ELSE 75
            <4>1. CASE new["routing"][j] = e
                  BY <1>4, <2>1, <4>1 DEF InPlace
            <4>2. CASE \E i \in DOMAIN hs["routing"] : new["routing"][j] = hs["routing"][i]
                  BY <1>4, <4>2 DEF Placed
            <4>q. QED BY <1>1, <2>1, <4>1, <4>2 DEF Grown
        <3>q. QED BY <3>1, <3>2 DEF Placed
    <2>2. CASE stage # "routing"
          BY <1>1, <1>4, <2>2 DEF Stage
    <2>q. QED BY <2>1, <2>2
<1>q. QED BY <1>2, <1>3, <1>4

\* The handlers after the init of a module.
LEMMA HandlersAfterLoad ==
    ASSUME handlers \in [Stage -> Seq(Handler)], NEW m \in Modules,
           Sorted(handlers["routing"]), Placed(handlers["routing"])
    PROVE  /\ AddHandlers(m) \in [Stage -> Seq(Handler)]
           /\ m # "gnr" => \A w : HasHandler(handlers, w) => HasHandler(AddHandlers(m), w)
           /\ m \in Watched => HasHandler(AddHandlers(m), m)
           /\ Sorted(AddHandlers(m)["routing"]) /\ Placed(AddHandlers(m)["routing"])
<1> DEFINE new == AddHandlers(m)
<1>1. "routing" \in Stage /\ "postrouting" \in Stage
      BY DEF Stage
<1>2. CASE m = "gnr"
    <2> DEFINE e == [module |-> m, position |-> 100]
    <2>1. NoHandlers \in [Stage -> Seq(Handler)] /\ NoHandlers["routing"] = <<>>
          BY <1>1 DEF NoHandlers
    <2>2. new = gnr_msg_addmsghandler(NoHandlers, "postrouting", 100, m)
          BY <1>2 DEF AddHandlers
    <2>3. e \in Handler
          BY DEF Handler
    <2>4. Added(new, NoHandlers, "postrouting", e)
        <3>1. 100 \in 0 .. 100
              OBVIOUS
        <3> HIDE DEF new
        <3>q. QED BY <1>1, <2>1, <2>2, <3>1, HandlerAdded, Zenon
    <2>5. new \in [Stage -> Seq(Handler)]
          BY <2>4 DEF Added
    <2>6. Sorted(NoHandlers["routing"]) /\ Placed(NoHandlers["routing"])
          BY <2>1 DEF Sorted, Placed
    <2> HIDE DEF e, new
    <2>7. Sorted(new["routing"]) /\ Placed(new["routing"])
          BY <1>1, <2>1, <2>3, <2>4, <2>6, AddedKeeps DEF InPlace
    <2>q. QED BY <1>2, <2>5, <2>7 DEF Watched, new
<1>3. CASE m \in {"timps-logging", "timps-otr", "timps-oscar", "timps"}
    <2> DEFINE stage == IF m = "timps-logging" THEN "postrouting" ELSE "routing"
               position == IF m = "timps-logging" THEN 50 ELSE IF m = "timps-otr" THEN 30 ELSE 75
               e == [module |-> m, position |-> position]
    <2>1. stage \in Stage /\ position \in 0 .. 100 /\ stage = StageOf(m)
          BY <1>1, <1>3 DEF StageOf
    <2>2. new = gnr_msg_addmsghandler(handlers, stage, position, m)
          BY <1>3 DEF AddHandlers
    <2>3. e \in Handler /\ e.module = m /\ e.position = position
          BY <2>1 DEF Handler
    <2>4. stage = "routing" => position = IF m = "timps-otr" THEN 30 ELSE 75
          BY <1>3
    <2> HIDE DEF e, new, stage, position
    <2>5. Added(new, handlers, stage, e)
          BY <2>1, <2>2, HandlerAdded DEF e
    <2>6. new \in [Stage -> Seq(Handler)]
          BY <2>5 DEF Added
    <2>7. /\ \A w : HasHandler(handlers, w) => HasHandler(new, w)
          /\ HasHandler(new, m)
          /\ Sorted(new["routing"]) /\ Placed(new["routing"])
        <3>1. stage = StageOf(e.module)
              BY <2>1, <2>3, Zenon
        <3>2. InPlace(stage, e)
              BY <2>3, <2>4 DEF InPlace
        <3>3. HasHandler(new, e.module)
              BY <2>1, <2>3, <2>5, <3>1, AddedKeeps, Zenon
        <3>4. \A w : HasHandler(handlers, w) => HasHandler(new, w)
              BY <2>1, <2>3, <2>5, AddedKeeps, Zenon
        <3>5. Sorted(new["routing"]) /\ Placed(new["routing"])
              BY <2>1, <2>3, <2>5, <3>2, AddedKeeps, Zenon
        <3>q. QED BY <2>3, <3>3, <3>4, <3>5, Zenon
    <2>q. QED BY <2>6, <2>7 DEF new
<1>4. CASE m \notin {"gnr", "timps-logging", "timps-otr", "timps-oscar", "timps"}
    <2>1. new = handlers
          BY <1>4 DEF AddHandlers
    <2>q. QED BY <1>4, <2>1 DEF Watched
<1>q. QED BY <1>2, <1>3, <1>4

\* A step along a list.
LEMMA TailFacts ==
    ASSUME NEW S, NEW s \in Seq(S), s # <<>>, NEW g, NEW m
    PROVE  /\ Head(s) \in S /\ Tail(s) \in Seq(S)
           /\ InList(s, m) => Head(s) = m \/ InList(Tail(s), m)
           /\ After(s, g, m) => After(Tail(s), g, m)
           /\ After(s, g, m) /\ Head(s) = g => InList(Tail(s), m)
<1> DEFINE t == Tail(s)
<1>1. /\ Len(s) \in Nat /\ Len(s) >= 1 /\ DOMAIN s = 1 .. Len(s) /\ Head(s) = s[1] /\ s[1] \in S
      /\ t \in Seq(S) /\ Len(t) = Len(s) - 1 /\ DOMAIN t = 1 .. Len(s) - 1
      /\ \A i \in 1 .. Len(s) - 1 : t[i] = s[i + 1]
      OBVIOUS
<1> HIDE DEF t
<1>2. ASSUME NEW i \in DOMAIN s, i # 1
      PROVE  i - 1 \in DOMAIN t /\ t[i - 1] = s[i]
      BY <1>1, <1>2
<1>3. ASSUME InList(s, m), Head(s) # m PROVE InList(t, m)
    <2>1. PICK i \in DOMAIN s : s[i] = m
          BY <1>3 DEF InList
    <2>2. i # 1
          BY <1>1, <1>3, <2>1
    <2>q. QED BY <1>2, <2>1, <2>2 DEF InList
<1>4. ASSUME After(s, g, m) PROVE After(t, g, m)
    <2>1. ASSUME NEW i \in DOMAIN t, t[i] = g PROVE \E j \in DOMAIN t : i < j /\ t[j] = m
        <3>1. i + 1 \in DOMAIN s /\ s[i + 1] = g
              BY <1>1, <2>1
        <3>2. PICK j \in DOMAIN s : i + 1 < j /\ s[j] = m
              BY <1>4, <3>1 DEF After
        <3>3. j # 1 /\ i < j - 1
              BY <1>1, <3>1, <3>2
        <3>q. QED BY <1>2, <3>2, <3>3
    <2>q. QED BY <2>1 DEF After
<1>5. ASSUME After(s, g, m), Head(s) = g PROVE InList(t, m)
    <2>1. PICK j \in DOMAIN s : 1 < j /\ s[j] = m
          BY <1>1, <1>5 DEF After
    <2>2. j # 1
          BY <2>1
    <2>q. QED BY <1>2, <2>1, <2>2 DEF InList
<1>q. QED BY <1>1, <1>3, <1>4, <1>5 DEF t

\* naf_module__load.
LEMMA LoadStep ==
    ASSUME IInv, naf_module__load
    PROVE  IInv'
<1> DEFINE m == Head(toload)
<1>1. Types /\ LoadInv /\ NodeInv /\ WireInv
      BY DEF IInv
<1>2. /\ toload # <<>> /\ loaded' = loaded \cup {m} /\ handlers' = AddHandlers(m)
      /\ evhlist' = IF m \in Listeners THEN <<m>> \o evhlist ELSE evhlist
      /\ toload' = Tail(toload)
      /\ UNCHANGED <<tounload, evhfreed, userlogs, sessions, stack, history>>
      BY DEF naf_module__load
<1>3. IF m = "timps-otr" THEN Init_otr ELSE UNCHANGED <<nodes, streams, bot>>
      BY DEF naf_module__load
<1>4. tounload = NULL /\ stack = <<>> /\ history.messages = <<>> /\ ~history.taken
      BY <1>1, <1>2 DEF LoadInv, Running, WireInv
<1>5. toload \in Seq(Modules)
      BY <1>1 DEF Types
<1>6. m \in Modules /\ Tail(toload) \in Seq(Modules)
      BY <1>2, <1>5, TailFacts
<1>7. /\ handlers \in [Stage -> Seq(Handler)]
      /\ Sorted(handlers["routing"]) /\ Placed(handlers["routing"])
      BY <1>1, <1>4 DEF Types, LoadInv
<1> HIDE DEF m
<1>8. /\ handlers' \in [Stage -> Seq(Handler)]
      /\ m # "gnr" => \A w : HasHandler(handlers, w) => HasHandler(handlers', w)
      /\ m \in Watched => HasHandler(handlers', m)
      /\ Sorted(handlers'["routing"]) /\ Placed(handlers'["routing"])
      BY <1>2, <1>6, <1>7, HandlersAfterLoad
<1>9. evhlist' \in Seq(Listeners) /\ \A w : Listens(w) => Listens(w)'
    <2>1. evhlist \in Seq(Listeners)
          BY <1>1 DEF Types
    <2>2. CASE m \in Listeners
        <3>1. evhlist' = <<m>> \o evhlist /\ <<m>> \in Seq(Listeners)
              BY <1>2, <2>2
        <3>2. evhlist' \in Seq(Listeners) /\ \A w : InList(evhlist, w) => InList(evhlist', w)
              BY <2>1, <3>1, ConcatLists
        <3>q. QED BY <3>2 DEF Listens, InList
    <2>3. CASE m \notin Listeners
          BY <1>2, <2>1, <2>3 DEF Listens
    <2>q. QED BY <2>2, <2>3
<1>10. m = "timps-otr" => Listens("timps-otr")'
    <2>1. SUFFICES ASSUME m = "timps-otr" PROVE InList(evhlist', "timps-otr")
          BY DEF Listens, InList
    <2>2. evhlist' = <<m>> \o evhlist /\ <<m>> \in Seq(Listeners) /\ evhlist \in Seq(Listeners)
          BY <1>1, <1>2, <2>1 DEF Listeners, Types
    <2>3. InList(<<m>>, "timps-otr")
          BY <2>1 DEF InList
    <2>q. QED BY <2>2, <2>3, ConcatLists
<1>11. Types'
    <2>1. bot' \in {NULL, Bot}
          BY <1>1, <1>3 DEF Types, Init_otr
    <2>q. QED BY <1>1, <1>2, <1>6, <1>8, <1>9, <2>1 DEF Types
<1>12. LoadInv'
    <2>1. ASSUME NEW w \in Watched PROVE InList(toload', w) \/ HasHandler(handlers', w)
        <3>1. InList(toload, w) \/ HasHandler(handlers, w)
              BY <1>1, <1>4 DEF LoadInv, Registered
        <3>2. After(toload, "gnr", w)
              BY <1>1 DEF LoadInv
        <3>3. CASE m = "gnr"
              BY <1>2, <1>5, <3>2, <3>3, TailFacts DEF m
        <3>4. CASE m # "gnr"
              BY <1>2, <1>5, <1>8, <3>1, <3>4, TailFacts DEF m
        <3>q. QED BY <3>3, <3>4
    <2>2. ASSUME NEW w \in Watched PROVE After(toload', "gnr", w)
          BY <1>1, <1>2, <1>5, TailFacts DEF LoadInv
    <2>q. QED BY <1>2, <1>4, <1>8, <2>1, <2>2 DEF LoadInv, Registered
<1>13. NodeInv'
    <2>1. CASE m = "timps-otr"
        <3>1. gnr_node_online(Bot, "timps-otr", TRUE) /\ bot' = Bot
              BY <1>3, <2>1 DEF Init_otr
        <3>2. Bot \in Names /\ "timps-otr" \in Modules /\ TRUE \in BOOLEAN
              BY ModlistFacts DEF Names
        <3>3. /\ NodesRight(nodes', streams') /\ DOMAIN nodes' = DOMAIN nodes \cup {Bot}
              BY <1>1, <3>1, <3>2, NodeOnline DEF NodeInv, Types
        <3>4. Online(bot)' /\ Listens("timps-otr")'
              BY <1>10, <2>1, <3>1, <3>3 DEF Online
        <3>q. QED BY <1>1, <1>2, <1>4, <3>3, <3>4 DEF NodeInv
    <2>2. CASE m # "timps-otr"
        <3>1. UNCHANGED <<nodes, streams, bot>>
              BY <1>3, <2>2
        <3>2. Online(bot)' = Online(bot)
              BY <3>1 DEF Online
        <3>q. QED BY <1>1, <1>2, <1>4, <1>9, <3>1, <3>2 DEF NodeInv
    <2>q. QED BY <2>1, <2>2
<1>14. StackInv' /\ WireInv' /\ AskInv' /\ LogInv'
      BY <1>2, <1>4, QuietStep
<1>q. QED BY <1>11, <1>12, <1>13, <1>14 DEF IInv

\* The sequences of modules are not NULL.
LEMMA NullFacts == NULL \notin Seq(Modules) /\ NULL \notin Modules
BY NullAssumption

\* What is forgotten when a message is done with.
LEMMA IdleFacts ==
    ASSUME history \in History
    PROVE  Idle \in History /\ Idle.messages = <<>> /\ ~Idle.taken
<1> DEFINE a == [history EXCEPT !.messages = <<>>]
           b == [a EXCEPT !.logs = {}]
           c == [b EXCEPT !.asked = FALSE]
           d == [c EXCEPT !.taken = FALSE]
<1>1. Idle = d
      BY DEF Idle
<1>2. a \in History /\ a.messages = <<>>
    <2>1. \A e \in Seq(Message) :
             /\ [history EXCEPT !.messages = e] \in History
             /\ [history EXCEPT !.messages = e].messages = e
          BY DEF History
    <2>2. <<>> \in Seq(Message)
          OBVIOUS
    <2>q. QED BY <2>1, <2>2
<1> HIDE DEF a
<1>3. b \in History /\ b.messages = a.messages
      BY <1>2 DEF History
<1> HIDE DEF b
<1>4. c \in History /\ c.messages = b.messages
      BY <1>3 DEF History
<1> HIDE DEF c
<1>5. d \in History /\ d.messages = c.messages /\ ~d.taken
      BY <1>4 DEF History
<1> HIDE DEF d
<1>q. QED BY <1>1, <1>2, <1>3, <1>4, <1>5

\* sighandler_shutdown: SIGINT.
LEMMA ShutdownStep ==
    ASSUME IInv, sighandler_shutdown
    PROVE  IInv'
<1>1. Types /\ LoadInv /\ NodeInv /\ Running
      BY DEF IInv, sighandler_shutdown
<1>2. /\ tounload' = modlist /\ stack' = <<>> /\ history' = Idle
      /\ UNCHANGED <<toload, loaded, handlers, taglists, statslist, evhlist, evhfreed,
                     nodes, streams, userlogs, bot, sessions>>
      BY DEF sighandler_shutdown
<1>3. modlist \in Seq(Modules) /\ modlist # NULL
      BY ModlistFacts, NullFacts
<1>4. history' \in History /\ history'.messages = <<>> /\ ~history'.taken
      BY <1>1, <1>2, IdleFacts DEF Types
<1>5. Types'
      BY <1>1, <1>2, <1>3, <1>4 DEF Types
<1>6. LoadInv'
      BY <1>1, <1>2, <1>3 DEF LoadInv, Running, After
<1>7. NodeInv'
    <2>1. Online(bot)' = Online(bot) /\ Listens("timps-otr")' = Listens("timps-otr")
          BY <1>2 DEF Online, Listens
    <2>q. QED BY <1>1, <1>2, <1>3, <2>1 DEF NodeInv, Running
<1>8. StackInv' /\ WireInv' /\ AskInv' /\ LogInv'
      BY <1>2, <1>4, QuietStep
<1>q. QED BY <1>5, <1>6, <1>7, <1>8 DEF IInv

\* signalhandler of timps-logging changes its option only.
LEMMA SignalStep ==
    ASSUME IInv, signalhandler
    PROVE  IInv'
<1>1. /\ userlogs' \in BOOLEAN
      /\ UNCHANGED <<lists, nodes, streams, bot, sessions, stack, history>>
      /\ Types /\ LoadInv /\ NodeInv /\ StackInv /\ WireInv /\ AskInv /\ LogInv
      BY DEF signalhandler, IInv
<1>2. Types'
      BY <1>1 DEF Types, lists
<1>3. LoadInv'
      BY <1>1, ListsKept DEF LoadInv
<1>4. NodeInv'
      BY <1>1 DEF NodeInv, lists, Logged, Listens, Online
<1>5. StackInv' /\ WireInv'
      BY <1>1 DEF StackInv, FrameRight, WireInv, NoCopy, OneCopy
<1>6. AskInv'
      BY <1>1 DEF AskInv, OtrAskedFirst, Unasked, Spared, Local, Online
<1>7. LogInv'
      BY <1>1 DEF LogInv, LoggedBeforeSent, Reached, Written, Online, lists
<1>q. QED BY <1>2, <1>3, <1>4, <1>5, <1>6, <1>7 DEF IInv

\* naf_module__unloadall: what one module's modshutdown does.
LEMMA UnloadStep ==
    ASSUME IInv, naf_module__unloadall
    PROVE  IInv'
<1> DEFINE m == Head(tounload)
<1>1. Types /\ LoadInv /\ NodeInv /\ WireInv
      BY DEF IInv
<1>2. /\ tounload \notin {NULL, <<>>} /\ loaded' = loaded \ {m}
      /\ handlers' = gnr_msg_remmsghandler(handlers, StageOf(m), m)
      /\ evhfreed' = (evhfreed \/ m = "gnr")
      /\ evhlist' = IF m \in Listeners THEN gnr_event_unregister(m) ELSE evhlist
      /\ tounload' = Tail(tounload)
      /\ UNCHANGED <<toload, userlogs, sessions, stack>>
      BY DEF naf_module__unloadall
<1>3. \/ m = "gnr" /\ FreeNodes(DOMAIN nodes)
      \/ m = "timps-otr" /\ bot # NULL /\ Online(bot) /\ FreeNodes({bot})
      \/ /\ m # "gnr" /\ (m = "timps-otr" => bot = NULL \/ ~Online(bot))
         /\ UNCHANGED <<nodes, streams, bot>>
      BY DEF naf_module__unloadall
<1>13. history' = history \/ history' = [history EXCEPT !.stale = TRUE]
      BY DEF naf_module__unloadall
<1>4. /\ tounload \in Seq(Modules) /\ toload = <<>>
      /\ stack = <<>> /\ history.messages = <<>> /\ ~history.taken
      BY <1>1, <1>2 DEF Types, LoadInv, Running, WireInv
<1>5. m \in Modules /\ tounload' \in Seq(Modules) /\ tounload' # NULL
      BY <1>2, <1>4, TailFacts, NullFacts
<1> HIDE DEF m
<1>6. handlers' \in [Stage -> Seq(Handler)]
    <2> DEFINE H == {h \in Handler : h.module # m}
    <2>1. StageOf(m) \in Stage /\ handlers[StageOf(m)] \in Seq(Handler)
          BY <1>1 DEF StageOf, Stage, Types
    <2>2. Among(handlers[StageOf(m)], H) \in Seq(Handler \cap H)
          BY <2>1, AmongType
    <2>3. handlers' = [handlers EXCEPT ![StageOf(m)] = Among(handlers[StageOf(m)], H)]
          BY <1>2 DEF gnr_msg_remmsghandler
    <2> HIDE DEF H
    <2>4. Among(handlers[StageOf(m)], H) \in Seq(Handler)
          BY <2>2
    <2>q. QED BY <1>1, <2>1, <2>3, <2>4 DEF Types
<1>7. /\ evhlist' \in Seq(Listeners)
      /\ m # "timps-otr" => (Listens("timps-otr") => Listens("timps-otr")')
    <2>1. evhlist \in Seq(Listeners)
          BY <1>1 DEF Types
    <2>2. CASE m \in Listeners
        <3> DEFINE L == Listeners \ {m}
        <3>1. evhlist' = Among(evhlist, L)
              BY <1>2, <2>2 DEF gnr_event_unregister
        <3>2. evhlist' \in Seq(Listeners \cap L)
              BY <2>1, <3>1, AmongType
        <3>3. m # "timps-otr" => "timps-otr" \in L
              BY DEF Listeners
        <3> HIDE DEF L
        <3>4. evhlist' \in Seq(Listeners)
              BY <3>2
        <3>5. m # "timps-otr" => (InList(evhlist, "timps-otr") => InList(evhlist', "timps-otr"))
              BY <2>1, <3>1, <3>3, AmongHas
        <3>q. QED BY <3>4, <3>5 DEF Listens, InList
    <2>3. CASE m \notin Listeners
          BY <1>2, <2>1, <2>3 DEF Listens
    <2>q. QED BY <2>2, <2>3
<1>8. /\ NodesRight(nodes', streams')
      /\ bot' \in {NULL, Bot}
      /\ bot' # NULL => Online(bot)' /\ Listens("timps-otr")'
      /\ evhfreed' => DOMAIN nodes' = {}
    <2>1. NodesRight(nodes, streams) /\ (bot # NULL => Online(bot) /\ Listens("timps-otr"))
          /\ (evhfreed => DOMAIN nodes = {}) /\ bot \in {NULL, Bot}
          BY <1>1 DEF NodeInv, Types
    <2>2. ASSUME NEW N \in SUBSET DOMAIN nodes, FreeNodes(N), bot # NULL => bot \in N
          PROVE  /\ NodesRight(nodes', streams') /\ DOMAIN nodes' = DOMAIN nodes \ N
                 /\ bot' = NULL
        <3>1. NodesRight(nodes', streams') /\ DOMAIN nodes' = DOMAIN nodes \ N
              BY <2>1, <2>2, NodesFreed
        <3>2. bot' = NULL
              BY <2>1, <2>2 DEF FreeNodes, totr_nodedown
        <3>q. QED BY <3>1, <3>2
    <2>3. CASE m = "gnr"
        <3>1. FreeNodes(DOMAIN nodes) /\ DOMAIN nodes \in SUBSET DOMAIN nodes
              BY <1>3, <2>3
        <3>2. bot # NULL => bot \in DOMAIN nodes
              BY <2>1 DEF Online
        <3>q. QED BY <2>2, <3>1, <3>2
    <2>4. CASE m = "timps-otr" /\ bot # NULL
        <3>1. Online(bot) /\ ~evhfreed /\ {bot} \in SUBSET DOMAIN nodes
              BY <2>1, <2>4 DEF Online
        <3>2. FreeNodes({bot})
              BY <1>3, <2>4, <3>1
        <3>q. QED BY <1>2, <2>2, <2>4, <3>1, <3>2
    <2>5. CASE m # "gnr" /\ (m = "timps-otr" => bot = NULL)
        <3>1. UNCHANGED <<nodes, streams, bot>>
              BY <1>3, <2>5
        <3>2. Online(bot)' = Online(bot) /\ (evhfreed' => evhfreed)
              BY <1>2, <2>5, <3>1 DEF Online
        <3>q. QED BY <1>7, <2>1, <2>5, <3>1, <3>2
    <2>q. QED BY <2>3, <2>4, <2>5
<1>14. history' \in History /\ history'.messages = <<>> /\ ~history'.taken
      BY <1>1, <1>4, <1>13 DEF Types, History
<1>9. Types'
      BY <1>1, <1>2, <1>4, <1>5, <1>6, <1>7, <1>8, <1>14 DEF Types
<1>10. LoadInv'
      BY <1>1, <1>2, <1>4, <1>5 DEF LoadInv, Running, After
<1>11. NodeInv'
      BY <1>5, <1>8 DEF NodeInv
<1>12. StackInv' /\ WireInv' /\ AskInv' /\ LogInv'
      BY <1>2, <1>4, <1>14, QuietStep
<1>q. QED BY <1>9, <1>10, <1>11, <1>12 DEF IInv

-----------------------------------------------------------------------------
(* Calls *)

\* What the lists promise while the loop runs: timps-otr is the first in the
\* list for routing, and timps-logging is in the one for postrouting.
LEMMA OtrFirst ==
    ASSUME Types, LoadInv, Running
    PROVE  /\ 1 \in DOMAIN handlers["routing"]
           /\ handlers["routing"][1].module = "timps-otr"
           /\ \E p \in DOMAIN handlers["postrouting"] :
                 handlers["postrouting"][p].module = "timps-logging"
<1> DEFINE list == handlers["routing"]
<1>1. ~InList(<<>>, "timps-otr") /\ ~InList(<<>>, "timps-logging")
      BY DEF InList
<1>2. Registered("timps-otr") /\ Registered("timps-logging")
      BY <1>1 DEF LoadInv, Running, Watched
<1>3. PICK i \in DOMAIN list : list[i].module = "timps-otr"
      BY <1>2 DEF Registered, HasHandler, StageOf
<1>4. list \in Seq(Handler) /\ Sorted(list) /\ Placed(list)
      BY DEF Types, Stage, LoadInv, Running
<1> HIDE DEF list
<1>5. 1 \in DOMAIN list /\ (i # 1 => 1 < i)
      BY <1>3, <1>4
<1>6. CASE i # 1
    <2>1. list[1].position <= list[i].position
          BY <1>4, <1>5, <1>6 DEF Sorted
    <2>2. list[i].position = 30
          BY <1>3, <1>4 DEF Placed
    <2>3. list[1].module # "timps-otr" => list[1].position = 75
          BY <1>4, <1>5 DEF Placed
    <2>q. QED BY <1>2, <1>5, <2>1, <2>2, <2>3 DEF list, Registered, HasHandler, StageOf
<1>q. QED BY <1>2, <1>3, <1>5, <1>6 DEF list, Registered, HasHandler, StageOf

\* The innermost call.
LEMMA TopFacts ==
    ASSUME Types, StackInv, stack # <<>>
    PROVE  /\ Len(stack) \in {1, 2} /\ DOMAIN stack = 1 .. Len(stack)
           /\ Top \in Frames /\ FrameRight(Top, Len(stack))
           /\ Top = stack[Len(stack)]
<1>1. stack \in Seq(Frames)
      BY DEF Types
<1>2. Len(stack) \in 1 .. 2 /\ DOMAIN stack = 1 .. Len(stack)
    <2>1. Len(stack) \in Nat \ {0} /\ DOMAIN stack = 1 .. Len(stack)
          BY <1>1, EmptySeq, LenProperties
    <2>2. Len(stack) <= 2
          BY DEF StackInv
    <2>q. QED BY <2>1, <2>2
<1>3. Top = stack[Len(stack)]
      BY DEF Top
<1>q. QED BY <1>1, <1>2, <1>3 DEF StackInv

\* The fields of a call.
LEMMA FrameFields ==
    ASSUME NEW f \in Frames
    PROVE  /\ f.srcmod \in Outputs /\ f.src \in Names /\ f.dst \in Names /\ f.text \in Text
           /\ f.stage \in Stage \cup {"output", "done"} /\ f.pos \in Nat /\ f.pos > 0
           /\ f.target \in Outputs \cup {NULL} /\ f.newtext \in BOOLEAN /\ f.calls \in Nat
BY DEF Frames

\* Nothing but the calls and their history changes.
LEMMA CallStep ==
    ASSUME IInv, Calls, Rest, UNCHANGED nodes,
           stack' \in Seq(Frames), history' \in History
    PROVE  Types' /\ LoadInv' /\ NodeInv'
<1>1. Types /\ LoadInv /\ NodeInv /\ Running
      BY DEF IInv, Calls
<1>2. UNCHANGED <<lists, streams, userlogs, sessions, bot>>
      BY DEF Rest
<1>3. Types'
      BY <1>1, <1>2 DEF Types, lists
<1>4. LoadInv'
      BY <1>1, <1>2, ListsKept
<1>5. NodeInv'
      BY <1>1, <1>2 DEF NodeInv, lists, Logged, Listens, Online
<1>q. QED BY <1>3, <1>4, <1>5

\* g is the call f, further on.
SameCall(g, f) ==
    /\ g.srcmod = f.srcmod /\ g.src = f.src /\ g.dst = f.dst /\ g.text = f.text
    /\ g.calls = f.calls

\* The calls after the innermost one was replaced.
LEMMA SetTopFacts ==
    ASSUME Types, StackInv, stack # <<>>, NEW f \in Frames, SetTop(f)
    PROVE  /\ stack' \in Seq(Frames) /\ Len(stack') = Len(stack)
           /\ DOMAIN stack' = 1 .. Len(stack) /\ DOMAIN stack = 1 .. Len(stack)
           /\ stack'[Len(stack)] = f
           /\ \A i \in 1 .. Len(stack) : i # Len(stack) => stack'[i] = stack[i]
           /\ stack' # <<>>
<1> DEFINE n == Len(stack)
<1>1. stack \in Seq(Frames) /\ stack' = [stack EXCEPT ![n] = f]
      BY DEF Types, SetTop
<1>2. n \in {1, 2} /\ DOMAIN stack = 1 .. n
      BY TopFacts
<1>3. n \in 1 .. Len(stack) /\ n = Len(stack)
      BY <1>2
<1> HIDE DEF n
<1>4. /\ stack' \in Seq(Frames) /\ Len(stack') = n
      /\ \A j \in 1 .. n : stack'[j] = IF j = n THEN f ELSE stack[j]
      BY <1>1, <1>3, ExceptSeq
<1>5. DOMAIN stack' = 1 .. n
      BY <1>4, LenProperties
<1>6. Len(stack') # 0
      BY <1>2, <1>4
<1>7. stack' # <<>>
      BY <1>6, EmptySeq
<1>q. QED BY <1>2, <1>3, <1>4, <1>5, <1>7 DEF n

\* What a handler may make of the innermost call.
LEMMA TopStep ==
    ASSUME IInv, Calls, Rest, UNCHANGED nodes, Top.stage # "done",
           NEW f \in Frames, SetTop(f), SameCall(f, Top),
           f.stage \in {"prerouting", "routing"} => f.target = NULL,
           Len(stack) = 2 => f.target # "timps-otr",
           f.newtext => Len(stack) = 1 /\ f.target = "timps-otr",
           history' \in History, history'.messages = history.messages,
           history.logs \subseteq history'.logs,
           history.asked => history'.asked,
           Len(stack) = 1 => (history'.taken <=> f.newtext),
           Len(stack) = 2 => (history'.taken <=> history.taken),
           Len(stack) = 1 /\ f.target = "timps-oscar" => history'.asked \/ Spared(f),
           Len(stack) = 1 /\ f.stage = "routing" /\ f.pos > 1 => history'.asked \/ Unasked(f),
           Reached(f) => Written(f)'
    PROVE  IInv'
<1> DEFINE n == Len(stack)
<1>1. Types /\ StackInv /\ WireInv /\ AskInv /\ LogInv /\ stack # <<>>
      BY DEF IInv, Calls
<1>2. /\ n \in {1, 2} /\ DOMAIN stack = 1 .. n /\ Top = stack[n] /\ FrameRight(Top, n)
      BY <1>1, TopFacts
<1>4. /\ stack' \in Seq(Frames) /\ Len(stack') = n /\ DOMAIN stack' = 1 .. n
      /\ stack'[n] = f /\ \A i \in 1 .. n : i # n => stack'[i] = stack[i]
      BY <1>1, SetTopFacts
<1>5. stack' # <<>>
      BY <1>1, SetTopFacts
<1> HIDE DEF n
<1>12. /\ n = 1 => stack'[1] = f /\ stack[1] = Top
       /\ n = 2 => stack'[1] = stack[1]
      BY <1>2, <1>4
<1>6. Types' /\ LoadInv' /\ NodeInv'
      BY <1>4, CallStep
<1>7. UNCHANGED <<lists, nodes>>
      BY DEF Rest
<1>8. StackInv'
    <2>1. FrameRight(f, n)
          BY <1>2 DEF FrameRight, SameCall, n
    <2>2. \A i \in DOMAIN stack' : FrameRight(stack'[i], i)
          BY <1>1, <1>2, <1>4, <2>1 DEF StackInv
    <2>q. QED BY <1>2, <1>4, <2>2 DEF StackInv
<1>9. WireInv'
    <2>1. stack[1].stage # "done" => NoCopy
          BY <1>1 DEF WireInv
    <2>2. NoCopy' <=> NoCopy
          BY DEF NoCopy
    <2>3. history'.taken <=> stack'[1].newtext
        <3>1. history.taken <=> stack[1].newtext
              BY <1>1 DEF WireInv
        <3>q. QED BY <1>2, <1>12, <3>1 DEF n
    <2>4. stack'[1].stage # "done" => NoCopy
          BY <1>1, <1>2, <1>4, <2>1
    <2>5. n = 2 /\ f.text = "otr" =>
             /\ stack[1].newtext /\ stack[1].stage = "done" /\ NoCopy
          BY <1>1, <1>2 DEF WireInv, SameCall, n
    <2>6. OneCopy'
        <3>1. history'.taken => history.taken \/ NoCopy
              BY <1>2, <2>1 DEF n
        <3>q. QED BY <1>1, <3>1 DEF WireInv, OneCopy, NoCopy
    <2>q. QED BY <1>2, <1>4, <1>5, <2>2, <2>3, <2>4, <2>5, <2>6 DEF WireInv
<1>10. AskInv'
    <2>2. stack'[1].target = "timps-oscar" => history'.asked \/ Spared(stack'[1])
          BY <1>1, <1>2, <1>12 DEF AskInv, n
    <2>3. stack'[1].stage = "routing" /\ stack'[1].pos > 1 => history'.asked \/ Unasked(stack'[1])
          BY <1>1, <1>2, <1>12 DEF AskInv, n
    <2>4. OtrAskedFirst'
          BY <1>1 DEF AskInv, OtrAskedFirst, Local, Online
    <2>q. QED BY <2>2, <2>3, <2>4 DEF AskInv, Unasked, Spared, Local, Online
<1>11. LogInv'
    <2>1. \A g : Reached(g)' <=> Reached(g)
          BY <1>7 DEF Reached, lists
    <2>2. \A g : Written(g) => Written(g)'
          BY DEF Written, Online
    <2>3. ASSUME NEW i \in DOMAIN stack' PROVE (Reached(stack[i]) => Written(stack[i]))'
        <3>1. PICK g : g = stack'[i] /\ (Reached(g) => Written(g)')
              BY <1>1, <1>2, <1>4, <2>2 DEF LogInv
        <3>2. Reached(g)' => Written(g)'
              BY <2>1, <3>1
        <3>q. QED BY <3>1, <3>2 DEF Reached, Written, Online
    <2>4. LoggedBeforeSent'
          BY <1>1 DEF LogInv, LoggedBeforeSent
    <2>q. QED BY <2>3, <2>4 DEF LogInv
<1>q. QED BY <1>6, <1>8, <1>9, <1>10, <1>11 DEF IInv

\* Changing one field of a call.
LEMMA FieldSet ==
    ASSUME NEW f \in Frames
    PROVE  /\ \A p \in Nat \ {0} :
                 LET g == [f EXCEPT !.pos = p]
                 IN  /\ g \in Frames /\ SameCall(g, f) /\ g.stage = f.stage
                     /\ g.target = f.target /\ g.newtext = f.newtext /\ g.pos = p
           /\ \A s \in Stage \cup {"output", "done"} :
                 LET g == [f EXCEPT !.stage = s]
                 IN  /\ g \in Frames /\ SameCall(g, f) /\ g.stage = s
                     /\ g.target = f.target /\ g.newtext = f.newtext /\ g.pos = f.pos
           /\ \A m \in Outputs :
                 LET g == [f EXCEPT !.target = m]
                 IN  /\ g \in Frames /\ SameCall(g, f) /\ g.stage = f.stage
                     /\ g.target = m /\ g.newtext = f.newtext /\ g.pos = f.pos
           /\ \A new \in BOOLEAN :
                 LET g == [f EXCEPT !.newtext = new]
                 IN  /\ g \in Frames /\ SameCall(g, f) /\ g.stage = f.stage
                     /\ g.target = f.target /\ g.newtext = new /\ g.pos = f.pos
BY DEF Frames, SameCall

\* PassOn: the next handler of the list.
LEMMA FramePassed ==
    ASSUME NEW f \in Frames
    PROVE  LET g == [f EXCEPT !.pos = @ + 1]
           IN  /\ g \in Frames /\ SameCall(g, f) /\ g.stage = f.stage /\ g.target = f.target
               /\ g.newtext = f.newtext /\ g.pos = f.pos + 1
<1>1. f.pos + 1 \in Nat \ {0}
      BY FrameFields
<1>2. [f EXCEPT !.pos = @ + 1] = [f EXCEPT !.pos = f.pos + 1]
      OBVIOUS
<1>q. QED BY <1>1, <1>2, FieldSet

\* NextStage: the first handler of another list.
LEMMA FrameMoved ==
    ASSUME NEW f \in Frames, NEW stage \in Stage \cup {"output", "done"}
    PROVE  LET g == [f EXCEPT !.pos = 1, !.stage = stage]
           IN  /\ g \in Frames /\ SameCall(g, f) /\ g.stage = stage /\ g.target = f.target
               /\ g.newtext = f.newtext /\ g.pos = 1
<1> DEFINE a == [f EXCEPT !.pos = 1]
           b == [a EXCEPT !.stage = stage]
<1>1. /\ a \in Frames /\ SameCall(a, f) /\ a.target = f.target /\ a.newtext = f.newtext
      /\ a.pos = 1
      BY FieldSet
<1> HIDE DEF a
<1>2. /\ b \in Frames /\ SameCall(b, a) /\ b.target = a.target /\ b.stage = stage
      /\ b.newtext = a.newtext /\ b.pos = a.pos
      BY <1>1, FieldSet
<1> HIDE DEF b
<1>3. b = [f EXCEPT !.pos = 1, !.stage = stage]
      BY DEF a, b
<1>4. SameCall(b, f)
      BY <1>1, <1>2 DEF SameCall
<1>q. QED BY <1>1, <1>2, <1>3, <1>4

\* g is f after m took the message.
Took(g, f, m, new) ==
    /\ g \in Frames /\ SameCall(g, f) /\ g.stage = "postrouting" /\ g.target = m
    /\ g.newtext = new /\ g.pos = 1

\* TakeIt: the end of the routing stage.
LEMMA FrameTaken ==
    ASSUME NEW f \in Frames, NEW m \in Outputs, NEW new \in BOOLEAN
    PROVE  Took([f EXCEPT !.target = m, !.stage = "postrouting", !.pos = 1, !.newtext = new],
                f, m, new)
<1> DEFINE a == [f EXCEPT !.target = m]
           b == [a EXCEPT !.stage = "postrouting"]
           c == [b EXCEPT !.pos = 1]
           d == [c EXCEPT !.newtext = new]
<1>1. a \in Frames /\ SameCall(a, f) /\ a.target = m
      BY FieldSet
<1>2. "postrouting" \in Stage \cup {"output", "done"} /\ 1 \in Nat \ {0}
      BY DEF Stage
<1> HIDE DEF a
<1>3. b \in Frames /\ SameCall(b, a) /\ b.target = a.target /\ b.stage = "postrouting"
      BY <1>1, <1>2, FieldSet
<1> HIDE DEF b
<1>4. c \in Frames /\ SameCall(c, b) /\ c.target = b.target /\ c.stage = b.stage /\ c.pos = 1
      BY <1>2, <1>3, FieldSet
<1> HIDE DEF c
<1>5. /\ d \in Frames /\ SameCall(d, c) /\ d.target = c.target /\ d.stage = c.stage
      /\ d.pos = c.pos /\ d.newtext = new
      BY <1>4, FieldSet
<1> HIDE DEF d
<1>6. d = [f EXCEPT !.target = m, !.stage = "postrouting", !.pos = 1, !.newtext = new]
      BY DEF a, b, c, d
<1>7. SameCall(d, f)
      BY <1>1, <1>3, <1>4, <1>5 DEF SameCall
<1>q. QED BY <1>1, <1>3, <1>4, <1>5, <1>6, <1>7 DEF Took

\* A handler that leaves the message as it is.
LEMMA HandlerStep ==
    ASSUME IInv, Calls, Rest, UNCHANGED <<nodes, history>>, Top.stage # "done",
           NEW f \in Frames, SetTop(f), SameCall(f, Top),
           f.newtext = Top.newtext, f.newtext => f.target = "timps-otr",
           f.stage \in {"prerouting", "routing"} => f.target = NULL,
           Len(stack) = 2 => f.target # "timps-otr",
           Len(stack) = 1 /\ f.target = "timps-oscar" => history.asked \/ Spared(f),
           Len(stack) = 1 /\ f.stage = "routing" /\ f.pos > 1 => history.asked \/ Unasked(f),
           Reached(f) => Written(f)
    PROVE  IInv'
<1>1. Types /\ StackInv /\ WireInv /\ stack # <<>>
      BY DEF IInv, Calls
<1>2. /\ Len(stack) \in {1, 2} /\ FrameRight(Top, Len(stack)) /\ Top = stack[Len(stack)]
      BY <1>1, TopFacts
<1>3. f.newtext => Len(stack) = 1 /\ f.target = "timps-otr"
      BY <1>2 DEF FrameRight
<1>4. Len(stack) = 1 => (history'.taken <=> f.newtext)
      BY <1>1, <1>2 DEF WireInv
<1>5. history' \in History /\ history' = history
      BY <1>1 DEF Types
<1>6. history'.messages = history.messages
      /\ history.logs \subseteq history'.logs /\ (history.asked => history'.asked)
      /\ (Len(stack) = 2 => (history'.taken <=> history.taken))
      BY <1>5
<1>7. Reached(f) => Written(f)'
      BY <1>5 DEF Written, Online
<1>8. /\ Len(stack) = 1 /\ f.target = "timps-oscar" => history'.asked \/ Spared(f)
      /\ Len(stack) = 1 /\ f.stage = "routing" /\ f.pos > 1 => history'.asked \/ Unasked(f)
      BY <1>5
<1>q. QED BY <1>3, <1>4, <1>5, <1>6, <1>7, <1>8, TopStep

\* The facts about the innermost call that the handlers need.
LEMMA CallFacts ==
    ASSUME IInv, Calls
    PROVE  /\ Len(stack) \in {1, 2} /\ Top \in Frames /\ Top = stack[Len(stack)]
           /\ FrameRight(Top, Len(stack))
           /\ Len(stack) = 1 /\ Top.target = "timps-oscar" => history.asked \/ Spared(Top)
           /\ Len(stack) = 1 /\ Top.stage = "routing" /\ Top.pos > 1 =>
                 history.asked \/ Unasked(Top)
           /\ Reached(Top) => Written(Top)
           /\ \A f : SameCall(f, Top) => /\ Unasked(f) <=> Unasked(Top)
                                         /\ Spared(f) <=> Spared(Top)
                                         /\ Written(f) <=> Written(Top)
<1>1. Types /\ StackInv /\ AskInv /\ LogInv /\ stack # <<>>
      BY DEF IInv, Calls
<1>2. /\ Len(stack) \in {1, 2} /\ DOMAIN stack = 1 .. Len(stack) /\ Top \in Frames
      /\ FrameRight(Top, Len(stack)) /\ Top = stack[Len(stack)]
      BY <1>1, TopFacts
<1>3. /\ Len(stack) = 1 /\ Top.target = "timps-oscar" => history.asked \/ Spared(Top)
      /\ Len(stack) = 1 /\ Top.stage = "routing" /\ Top.pos > 1 => history.asked \/ Unasked(Top)
      BY <1>1, <1>2 DEF AskInv
<1>4. Reached(Top) => Written(Top)
      BY <1>1, <1>2 DEF LogInv
<1>5. \A f : SameCall(f, Top) => /\ Unasked(f) <=> Unasked(Top)
                                 /\ Spared(f) <=> Spared(Top)
                                 /\ Written(f) <=> Written(Top)
      BY DEF SameCall, Unasked, Spared, Written
<1>q. QED BY <1>2, <1>3, <1>4, <1>5

\* When the last handler of a stage has returned, gnr_msg_route goes on to
\* the next one; the invariant is kept.
LEMMA NextStageStep ==
    ASSUME IInv, NextStage
    PROVE  IInv'
<1> DEFINE stage == CASE Top.stage = "prerouting"  -> "routing"
                      [] Top.stage = "routing"     -> "postrouting"
                      [] Top.stage = "postrouting" -> "output"
           f == [Top EXCEPT !.pos = 1, !.stage = stage]
<1>1. /\ Calls /\ Rest /\ UNCHANGED <<nodes, history>> /\ Top.stage \in Stage
      /\ Top.pos > Len(handlers[Top.stage])
      BY DEF NextStage
<1>2. SetTop(f)
      BY DEF NextStage
<1>3. /\ Top.stage # "done" /\ stage \in {"routing", "postrouting", "output"}
      /\ stage \in Stage \cup {"output", "done"}
      /\ stage = "output" => Top.stage = "postrouting"
      /\ stage = "routing" => Top.stage = "prerouting"
      BY <1>1 DEF Stage
<1>4. /\ Top \in Frames /\ FrameRight(Top, Len(stack)) /\ Len(stack) \in {1, 2}
      /\ Len(stack) = 1 /\ Top.target = "timps-oscar" => history.asked \/ Spared(Top)
      /\ Reached(Top) => Written(Top)
      /\ \A g : SameCall(g, Top) => /\ Spared(g) <=> Spared(Top)
                                    /\ Written(g) <=> Written(Top)
      BY <1>1, CallFacts
<1> HIDE DEF stage
<1>5. /\ f \in Frames /\ SameCall(f, Top) /\ f.stage = stage /\ f.target = Top.target
      /\ f.newtext = Top.newtext /\ f.pos = 1
      BY <1>3, <1>4, FrameMoved
<1> HIDE DEF f
<1>6. Reached(f) => Written(f)
    <2>1. handlers["postrouting"] \in Seq(Handler) /\ Types /\ LoadInv /\ Running
          BY <1>1 DEF IInv, Types, Stage, Calls
    <2>2. CASE stage = "output"
        <3>1. PICK p \in DOMAIN handlers["postrouting"] :
                 handlers["postrouting"][p].module = "timps-logging"
              BY <2>1, OtrFirst
        <3>2. Top.stage = "postrouting" /\ Top.pos > Len(handlers["postrouting"])
              BY <1>1, <1>3, <2>2
        <3>3. p < Top.pos
              BY <1>4, <2>1, <3>1, <3>2, FrameFields
        <3>4. Reached(Top)
              BY <3>1, <3>2, <3>3 DEF Reached
        <3>q. QED BY <1>4, <1>5, <3>4
    <2>3. CASE stage # "output"
          BY <1>5, <2>1, <2>3 DEF Reached
    <2>q. QED BY <2>2, <2>3
<1>7. /\ f.newtext => f.target = "timps-otr"
      /\ f.stage \in {"prerouting", "routing"} => f.target = NULL
      /\ Len(stack) = 2 => f.target # "timps-otr"
      /\ Len(stack) = 1 /\ f.target = "timps-oscar" => history.asked \/ Spared(f)
      /\ ~(f.pos > 1)
      BY <1>3, <1>4, <1>5 DEF FrameRight
<1>q. QED BY <1>1, <1>2, <1>3, <1>5, <1>6, <1>7, HandlerStep

\* A handler that passes the message on.
LEMMA PassStep ==
    ASSUME IInv, Calls, Rest, UNCHANGED <<nodes, history>>, PassOn, Top.stage \in Stage,
           Top.stage = "routing" => \/ Len(stack) = 2 \/ Top.pos > 1 \/ Unasked(Top),
           Top.stage = "postrouting" =>
              handlers["postrouting"][Top.pos].module # "timps-logging"
    PROVE  IInv'
<1> DEFINE f == [Top EXCEPT !.pos = @ + 1]
<1>1. SetTop(f)
      BY DEF PassOn
<1>2. Top.stage # "done"
      BY DEF Stage
<1>3. /\ Top \in Frames /\ FrameRight(Top, Len(stack)) /\ Len(stack) \in {1, 2}
      /\ Len(stack) = 1 /\ Top.target = "timps-oscar" => history.asked \/ Spared(Top)
      /\ Len(stack) = 1 /\ Top.stage = "routing" /\ Top.pos > 1 => history.asked \/ Unasked(Top)
      /\ Reached(Top) => Written(Top)
      /\ \A g : SameCall(g, Top) => /\ Unasked(g) <=> Unasked(Top)
                                    /\ Spared(g) <=> Spared(Top)
                                    /\ Written(g) <=> Written(Top)
      BY CallFacts
<1>4. /\ f \in Frames /\ SameCall(f, Top) /\ f.stage = Top.stage /\ f.target = Top.target
      /\ f.newtext = Top.newtext /\ f.pos = Top.pos + 1
      BY <1>3, FramePassed
<1> HIDE DEF f
<1>5. Reached(f) => Written(f)
    <2>1. ASSUME Reached(f) PROVE Reached(Top)
        <3>1. PICK p \in DOMAIN handlers["postrouting"] :
                 /\ p < f.pos /\ handlers["postrouting"][p].module = "timps-logging"
                 /\ f.stage = "postrouting"
              BY <1>4, <2>1 DEF Reached, Stage
        <3>2. p # Top.pos /\ p \in Nat /\ Top.pos \in Nat
            <4>1. handlers["postrouting"] \in Seq(Handler)
                  BY DEF IInv, Types, Stage
            <4>q. QED BY <1>3, <1>4, <3>1, <4>1, FrameFields
        <3>3. p < Top.pos
              BY <1>4, <3>1, <3>2
        <3>q. QED BY <1>4, <3>1, <3>3 DEF Reached
    <2>q. QED BY <1>3, <1>4, <2>1
<1>6. /\ f.newtext => f.target = "timps-otr"
      /\ f.stage \in {"prerouting", "routing"} => f.target = NULL
      /\ Len(stack) = 2 => f.target # "timps-otr"
      /\ Len(stack) = 1 /\ f.target = "timps-oscar" => history.asked \/ Spared(f)
      /\ Len(stack) = 1 /\ f.stage = "routing" /\ f.pos > 1 => history.asked \/ Unasked(f)
      BY <1>3, <1>4 DEF FrameRight
<1>q. QED BY <1>1, <1>2, <1>4, <1>5, <1>6, HandlerStep

\* A handler other than the one of timps-otr is not asked first.
LEMMA NotFirst ==
    ASSUME IInv, NEW m, m # "timps-otr", AtHandler("routing", m)
    PROVE  Top.pos > 1 /\ Calls /\ Top.stage = "routing"
<1>1. Calls /\ Top.stage = "routing" /\ handlers["routing"][Top.pos].module = m
      BY DEF AtHandler
<1>2. handlers["routing"][1].module = "timps-otr"
      BY <1>1, OtrFirst DEF IInv, Calls
<1>3. Top.pos # 1
      BY <1>1, <1>2
<1>4. Top.pos \in Nat /\ Top.pos > 0
      BY <1>1, CallFacts, FrameFields
<1>q. QED BY <1>1, <1>3, <1>4

\* The handlers that pass every message on: timps and gnr.
LEMMA PlainSteps ==
    ASSUME IInv, timps_msgrouting \/ gnr_node__msg_postrouting
    PROVE  IInv'
<1>1. CASE timps_msgrouting
    <2>1. PassOn /\ Rest /\ UNCHANGED <<nodes, history>> /\ AtHandler("routing", "timps")
          BY <1>1 DEF timps_msgrouting
    <2>2. Top.pos > 1 /\ Calls /\ Top.stage = "routing" /\ Top.stage \in Stage
          BY <2>1, NotFirst DEF Stage
    <2>q. QED BY <2>1, <2>2, PassStep
<1>2. CASE gnr_node__msg_postrouting
    <2>1. /\ PassOn /\ Rest /\ UNCHANGED <<nodes, history>> /\ Calls
          /\ Top.stage = "postrouting" /\ Top.stage \in Stage
          /\ handlers["postrouting"][Top.pos].module = "gnr"
          BY <1>2 DEF gnr_node__msg_postrouting, AtHandler, Stage
    <2>q. QED BY <2>1, PassStep
<1>q. QED BY <1>1, <1>2

\* A handler that takes a message for its own output function.
LEMMA TakeStep ==
    ASSUME IInv, Calls, Rest, UNCHANGED <<nodes, history>>, Top.stage = "routing",
           NEW m \in Outputs, TakeIt(m, FALSE),
           Len(stack) = 2 => m # "timps-otr",
           Len(stack) = 1 /\ m = "timps-oscar" => history.asked \/ Spared(Top)
    PROVE  IInv'
<1> DEFINE f == [Top EXCEPT !.target = m, !.stage = "postrouting", !.pos = 1, !.newtext = FALSE]
<1>1. SetTop(f)
      BY DEF TakeIt
<1>2. /\ Top \in Frames /\ FrameRight(Top, Len(stack)) /\ Len(stack) \in {1, 2}
      /\ \A g : SameCall(g, Top) => (Spared(g) <=> Spared(Top))
      BY CallFacts
<1>3. /\ f \in Frames /\ SameCall(f, Top) /\ f.stage = "postrouting" /\ f.target = m
      /\ f.newtext = FALSE /\ f.pos = 1
    <2>1. FALSE \in BOOLEAN
          OBVIOUS
    <2>2. Took(f, Top, m, FALSE)
          BY <1>2, <2>1, FrameTaken, Zenon
    <2> HIDE DEF f
    <2>q. QED BY <2>2, Zenon DEF Took
<1>4. Top.newtext = FALSE
    <2>1. Top.newtext \in BOOLEAN /\ Top.target = NULL /\ (Top.newtext => Top.target = "timps-otr")
          BY <1>2, FrameFields DEF FrameRight
    <2>2. NULL # "timps-otr"
          BY NullFacts, ModlistFacts
    <2>q. QED BY <2>1, <2>2
<1> HIDE DEF f
<1>5. ~Reached(f)
    <2>1. handlers["postrouting"] \in Seq(Handler)
          BY DEF IInv, Types, Stage
    <2>q. QED BY <1>3, <2>1 DEF Reached
<1>6. /\ f.newtext = Top.newtext
      /\ f.newtext => f.target = "timps-otr"
      /\ f.stage \in {"prerouting", "routing"} => f.target = NULL
      /\ Len(stack) = 2 => f.target # "timps-otr"
      /\ Len(stack) = 1 /\ f.target = "timps-oscar" => history.asked \/ Spared(f)
      /\ f.stage # "routing" /\ Top.stage # "done"
      BY <1>2, <1>3, <1>4
<1>q. QED BY <1>1, <1>3, <1>5, <1>6, HandlerStep

\* toscar_msgrouting keeps the invariant.
LEMMA OscarRoutingStep ==
    ASSUME IInv, toscar_msgrouting
    PROVE  IInv'
<1>1. /\ Rest /\ UNCHANGED <<nodes, history>> /\ AtHandler("routing", "timps-oscar")
      BY DEF toscar_msgrouting
<1>2. Top.pos > 1 /\ Calls /\ Top.stage = "routing" /\ Top.stage \in Stage
      BY <1>1, NotFirst DEF Stage
<1>3. CASE PassOn
      BY <1>1, <1>2, <1>3, PassStep
<1>4. CASE /\ Owned(Top.dst) \/ Owned(Top.src)
           /\ TakeIt("timps-oscar", Top.newtext)
    <2>1. Unasked(Top) => Spared(Top)
          BY <1>4 DEF Unasked, Owned
    <2>2. Len(stack) = 1 => history.asked \/ Spared(Top)
          BY <1>2, <2>1, CallFacts
    <2>3. Top.newtext = FALSE
        <3>1. Top \in Frames /\ FrameRight(Top, Len(stack))
              BY <1>2, CallFacts
        <3>2. /\ Top.newtext \in BOOLEAN /\ Top.target = NULL
              /\ (Top.newtext => Top.target = "timps-otr")
              BY <1>2, <3>1, FrameFields DEF FrameRight
        <3>3. NULL # "timps-otr"
              BY NullFacts, ModlistFacts
        <3>q. QED BY <3>2, <3>3
    <2>4. TakeIt("timps-oscar", FALSE)
          BY <1>4, <2>3
    <2>5. "timps-oscar" \in Outputs
          BY DEF Outputs
    <2>q. QED BY <1>1, <1>2, <2>2, <2>4, <2>5, TakeStep
<1>q. QED BY <1>3, <1>4 DEF toscar_msgrouting

\* timps-otr is asked about messages of others in the outermost call only.
LEMMA OtrOutermost ==
    ASSUME IInv, AtOtr
    PROVE  /\ Calls /\ Top.stage = "routing" /\ Top.stage \in Stage
           /\ ~totr_ignores => Len(stack) = 1
           /\ totr_ignores => Len(stack) = 2
<1>1. Calls /\ Top.stage = "routing"
      BY DEF AtOtr, AtHandler
<1>2. Len(stack) \in {1, 2} /\ FrameRight(Top, Len(stack))
      BY <1>1, CallFacts
<1>q. QED BY <1>1, <1>2 DEF FrameRight, totr_ignores, Stage

\* The ways out of timps-otr's routing handler that do not ask libotr keep
\* the invariant.
LEMMA OtrPlainStep ==
    ASSUME IInv, totr_msgroutinghandler_Plain \/ totr_msgroutinghandler_Foreign
    PROVE  IInv'
<1>1. AtOtr /\ Rest /\ UNCHANGED <<nodes, history>>
      BY DEF totr_msgroutinghandler_Plain, totr_msgroutinghandler_Foreign
<1>2. /\ Calls /\ Top.stage = "routing" /\ Top.stage \in Stage
      /\ ~totr_ignores => Len(stack) = 1
      /\ totr_ignores => Len(stack) = 2
      BY <1>1, OtrOutermost
<1>3. CASE totr_ignores /\ PassOn
      BY <1>1, <1>2, <1>3, PassStep
<1>4. CASE ~totr_ignores /\ TakeIt("timps-otr", FALSE)
    <2>1. "timps-otr" \in Outputs
          BY DEF Outputs
    <2>2. Len(stack) # 2
          BY <1>2, <1>4
    <2>q. QED BY <1>1, <1>2, <1>4, <2>1, <2>2, TakeStep
<1>5. CASE totr_msgroutinghandler_Foreign
    <2>1. PassOn /\ Unasked(Top)
          BY <1>5 DEF totr_msgroutinghandler_Foreign, Unasked
    <2>q. QED BY <1>1, <1>2, <2>1, PassStep
<1>6. CASE totr_unasked /\ PassOn
    <2>1. Unasked(Top)
          BY <1>6 DEF totr_unasked, Unasked, Spared
    <2>q. QED BY <1>1, <1>2, <1>6, <2>1, PassStep
<1>q. QED BY <1>3, <1>4, <1>5, <1>6 DEF totr_msgroutinghandler_Plain

\* Changing the history of a message.
LEMMA HistorySet ==
    ASSUME NEW h \in History
    PROVE  /\ LET g == [h EXCEPT !.asked = TRUE]
              IN  /\ g \in History /\ g.messages = h.messages
                  /\ g.logs = h.logs /\ g.asked /\ (g.taken <=> h.taken)
           /\ LET g == [h EXCEPT !.taken = TRUE]
              IN  /\ g \in History /\ g.messages = h.messages
                  /\ g.logs = h.logs /\ (g.asked <=> h.asked) /\ g.taken
           /\ \A logs \in SUBSET (Names \X Names \X Names \X Text) :
                 LET g == [h EXCEPT !.logs = logs]
                 IN  /\ g \in History /\ g.messages = h.messages
                     /\ g.logs = logs /\ (g.asked <=> h.asked) /\ (g.taken <=> h.taken)
           /\ \A messages \in Seq(Message) :
                 LET g == [h EXCEPT !.messages = messages]
                 IN  /\ g \in History /\ g.messages = messages
                     /\ g.logs = h.logs /\ (g.asked <=> h.asked) /\ (g.taken <=> h.taken)
<1>1. LET g == [h EXCEPT !.asked = TRUE]
      IN  /\ g \in History /\ g.messages = h.messages
          /\ g.logs = h.logs /\ g.asked /\ (g.taken <=> h.taken)
      BY DEF History
<1>2. LET g == [h EXCEPT !.taken = TRUE]
      IN  /\ g \in History /\ g.messages = h.messages
          /\ g.logs = h.logs /\ (g.asked <=> h.asked) /\ g.taken
      BY DEF History
<1>3. ASSUME NEW logs \in SUBSET (Names \X Names \X Names \X Text)
      PROVE  LET g == [h EXCEPT !.logs = logs]
             IN  /\ g \in History /\ g.messages = h.messages
                 /\ g.logs = logs /\ (g.asked <=> h.asked) /\ (g.taken <=> h.taken)
      BY DEF History
<1>4. ASSUME NEW messages \in Seq(Message)
      PROVE  LET g == [h EXCEPT !.messages = messages]
             IN  /\ g \in History /\ g.messages = messages
                 /\ g.logs = h.logs /\ (g.asked <=> h.asked) /\ (g.taken <=> h.taken)
      BY DEF History
<1>q. QED BY <1>1, <1>2, <1>3, <1>4

\* libotr has returned.
LEMMA OtrStep ==
    ASSUME IInv, totr_msgroutinghandler_Otr
    PROVE  IInv'
<1>1. AtLibotr /\ Rest /\ UNCHANGED nodes /\ history \in History
      BY DEF totr_msgroutinghandler_Otr, IInv, Types
<1>2. Calls /\ Top.stage = "routing" /\ Len(stack) = 1 /\ Top.stage # "done"
      BY <1>1, OtrOutermost DEF AtLibotr
<1>3. Top \in Frames /\ FrameRight(Top, 1) /\ WireInv /\ Top = stack[1] /\ stack # <<>>
      BY <1>2, CallFacts DEF IInv, Calls
<1>4. /\ Top.target = NULL /\ (Top.newtext => Top.target = "timps-otr")
      /\ NULL # "timps-otr" /\ NULL # "timps-oscar"
      BY <1>2, <1>3, NullFacts, ModlistFacts DEF FrameRight
<1>5. CASE PassOn /\ history' = [history EXCEPT !.asked = TRUE]
    <2> DEFINE f == [Top EXCEPT !.pos = @ + 1]
    <2>1. SetTop(f)
          BY <1>5 DEF PassOn
    <2>2. /\ f \in Frames /\ SameCall(f, Top) /\ f.stage = Top.stage /\ f.target = Top.target
          /\ f.newtext = Top.newtext
          BY <1>3, FramePassed
    <2> HIDE DEF f
    <2>3. /\ history' \in History /\ history'.messages = history.messages
          /\ history'.logs = history.logs
          /\ history'.asked /\ (history'.taken <=> history.taken)
          BY <1>1, <1>5, HistorySet
    <2>4. ~Reached(f)
          BY <1>2, <2>2 DEF Reached
    <2>5. history'.taken <=> f.newtext
          BY <1>3, <2>2, <2>3 DEF WireInv
    <2>6. ~f.newtext /\ f.target = NULL
          BY <1>4, <2>2
    <2>q. QED BY <1>1, <1>2, <2>1, <2>2, <2>3, <2>4, <2>5, <2>6, TopStep
<1>6. CASE /\ TakeIt("timps-otr", TRUE)
           /\ history' = [history EXCEPT !.asked = TRUE, !.taken = TRUE]
    <2> DEFINE f == [Top EXCEPT !.target = "timps-otr", !.stage = "postrouting", !.pos = 1,
                                !.newtext = TRUE]
               h == [history EXCEPT !.asked = TRUE]
    <2>1. SetTop(f)
          BY <1>6 DEF TakeIt
    <2>2. /\ f \in Frames /\ SameCall(f, Top) /\ f.stage = "postrouting"
          /\ f.target = "timps-otr" /\ f.newtext = TRUE /\ f.pos = 1
        <3>1. TRUE \in BOOLEAN /\ "timps-otr" \in Outputs
              BY DEF Outputs
        <3>2. Took(f, Top, "timps-otr", TRUE)
              BY <1>3, <3>1, FrameTaken, Zenon
        <3> HIDE DEF f
        <3>q. QED BY <3>2, Zenon DEF Took
    <2> HIDE DEF f
    <2>3. /\ h \in History /\ h.messages = history.messages
          /\ h.logs = history.logs /\ h.asked
          BY <1>1, HistorySet
    <2>4. history' = [h EXCEPT !.taken = TRUE]
          BY <1>6
    <2> HIDE DEF h
    <2>5. /\ history' \in History /\ history'.messages = history.messages
          /\ history'.logs = history.logs
          /\ history'.asked /\ history'.taken
          BY <2>3, <2>4, HistorySet
    <2>6. ~Reached(f)
        <3>1. handlers["postrouting"] \in Seq(Handler)
              BY DEF IInv, Types, Stage
        <3>q. QED BY <2>2, <3>1 DEF Reached
    <2>7. (history'.taken <=> f.newtext) /\ f.stage \notin {"prerouting", "routing"}
          BY <2>2, <2>5
    <2>q. QED BY <1>1, <1>2, <2>1, <2>2, <2>5, <2>6, <2>7, TopStep
<1>q. QED BY <1>5, <1>6 DEF totr_msgroutinghandler_Otr

\* tlogging_msglogger.
LEMMA LoggerStep ==
    ASSUME IInv, tlogging_msglogger
    PROVE  IInv'
<1> DEFINE new == {<<n, Top.src, Top.dst, Top.text>> : n \in LogsOf(Top)}
           logs == history.logs \cup new
           next == [Top EXCEPT !.pos = @ + 1]
<1>1. /\ Calls /\ Rest /\ UNCHANGED nodes /\ Top.stage = "postrouting" /\ Top.stage # "done"
      /\ SetTop(next) /\ history' = [history EXCEPT !.logs = logs] /\ history \in History
      BY DEF tlogging_msglogger, AtHandler, PassOn, IInv, Types
<1>2. /\ Top \in Frames /\ FrameRight(Top, Len(stack)) /\ Len(stack) \in {1, 2}
      /\ Top = stack[Len(stack)] /\ WireInv /\ stack # <<>>
      /\ Len(stack) = 1 /\ Top.target = "timps-oscar" => history.asked \/ Spared(Top)
      /\ \A g : SameCall(g, Top) => (Spared(g) <=> Spared(Top))
      BY <1>1, CallFacts DEF IInv, Calls
<1>3. PICK f \in Frames :
         /\ f = next /\ SameCall(f, Top) /\ f.stage = Top.stage /\ f.target = Top.target
         /\ f.newtext = Top.newtext
      BY <1>2, FramePassed
<1>11. SetTop(f)
      BY <1>1, <1>3
<1> HIDE DEF next
<1>4. new \in SUBSET (Names \X Names \X Names \X Text)
    <2>1. Top.src \in Names /\ Top.dst \in Names /\ Top.text \in Text
          BY <1>2, FrameFields
    <2>2. LogsOf(Top) \subseteq Names
          BY <2>1 DEF LogsOf
    <2>q. QED BY <2>1, <2>2
<1>5. logs \in SUBSET (Names \X Names \X Names \X Text)
      BY <1>1, <1>4 DEF History
<1>6. history.logs \subseteq logs /\ new \subseteq logs
      OBVIOUS
<1> HIDE DEF logs
<1>7. /\ history' \in History /\ history'.messages = history.messages
      /\ history'.logs = logs
      /\ (history'.asked <=> history.asked) /\ (history'.taken <=> history.taken)
      BY <1>1, <1>5, HistorySet
<1>8. Written(f)'
    <2>1. ASSUME NEW n \in {f.src, f.dst}, Online(n), nodes[n].log
          PROVE  <<n, f.src, f.dst, f.text>> \in new
        <3>1. f.src = Top.src /\ f.dst = Top.dst /\ f.text = Top.text
              BY <1>3 DEF SameCall
        <3>2. n \in LogsOf(Top)
              BY <2>1, <3>1 DEF LogsOf
        <3>q. QED BY <3>1, <3>2
    <2> HIDE DEF new
    <2>2. \A n \in {f.src, f.dst} : Online(n) /\ nodes[n].log =>
             <<n, f.src, f.dst, f.text>> \in history'.logs
          BY <1>6, <1>7, <2>1
    <2>q. QED BY <1>1, <2>2 DEF Written, Online
<1>9. /\ f.stage \notin {"prerouting", "routing"}
      /\ Len(stack) = 2 => f.target # "timps-otr"
      /\ f.newtext => Len(stack) = 1 /\ f.target = "timps-otr"
      /\ Len(stack) = 1 => (history'.taken <=> f.newtext)
      /\ Len(stack) = 1 /\ f.target = "timps-oscar" => history'.asked \/ Spared(f)
    <2>1. Len(stack) = 1 => (history.taken <=> Top.newtext)
          BY <1>2 DEF WireInv
    <2>q. QED BY <1>1, <1>2, <1>3, <1>7, <2>1 DEF FrameRight
<1>12. history.logs \subseteq history'.logs /\ (history.asked => history'.asked)
      BY <1>6, <1>7
<1>q. QED BY <1>1, <1>3, <1>7, <1>8, <1>9, <1>11, <1>12, TopStep

\* The message as toscar_gnroutputfunc puts it on the wire.
Sent(f) == [src |-> f.src, dst |-> f.dst, text |-> f.text]

\* What is recorded of a message that goes on the wire is the message of its
\* frame.
LEMMA SentFacts ==
    ASSUME NEW f \in Frames
    PROVE  \E e \in Message : e = Sent(f) /\ e.src = f.src /\ e.dst = f.dst /\ e.text = f.text
<1> DEFINE e == Sent(f)
<1>1. e.src = f.src /\ e.dst = f.dst /\ e.text = f.text
      BY DEF Sent
<1>2. e \in Message
      BY FrameFields DEF Sent, Message
<1> HIDE DEF e
<1>q. QED BY <1>1, <1>2 DEF e

\* The innermost call once its output function has been called.
LEMMA DoneFacts ==
    ASSUME Top \in Frames
    PROVE  \E f \in Frames :
              /\ f = Done /\ SameCall(f, Top) /\ f.stage = "done" /\ f.target = Top.target
              /\ f.newtext = Top.newtext /\ f.pos = Top.pos
<1> DEFINE f == [Top EXCEPT !.stage = "done"]
<1>1. "done" \in Stage \cup {"output", "done"}
      OBVIOUS
<1>2. /\ f \in Frames /\ SameCall(f, Top) /\ f.stage = "done" /\ f.target = Top.target
      /\ f.newtext = Top.newtext /\ f.pos = Top.pos
      BY <1>1, FieldSet
<1>3. f = Done
      BY DEF Done
<1> HIDE DEF f
<1>q. QED BY <1>2, <1>3

\* toscar_gnroutputfunc.
LEMMA OutputStep ==
    ASSUME IInv, toscar_gnroutputfunc
    PROVE  IInv'
<1> DEFINE n == Len(stack)
<1>1. /\ Calls /\ Rest /\ UNCHANGED nodes /\ SetTop(Done) /\ history \in History
      /\ Top.stage = "output" /\ Top.target = "timps-oscar" /\ Top.stage # "done"
      /\ WireInv /\ AskInv /\ LogInv /\ StackInv /\ Types /\ stack # <<>>
      BY DEF toscar_gnroutputfunc, AtOutput, IInv, Types, Calls
<1>2. /\ Top \in Frames /\ FrameRight(Top, n) /\ n \in {1, 2} /\ Top = stack[n]
      /\ n = 1 /\ Top.target = "timps-oscar" => history.asked \/ Spared(Top)
      /\ \A g : SameCall(g, Top) => (Spared(g) <=> Spared(Top))
      /\ Reached(Top) => Written(Top)
      BY <1>1, CallFacts
<1>3. PICK f \in Frames :
         /\ f = Done /\ SameCall(f, Top) /\ f.stage = "done" /\ f.target = Top.target
         /\ f.newtext = Top.newtext
      BY <1>2, DoneFacts
<1>4. SetTop(f)
      BY <1>1, <1>3
<1>5. ~Reached(f)
      BY <1>3 DEF Reached
<1>6. ~Top.newtext
      BY <1>1, <1>2 DEF FrameRight
<1>7. CASE history' = history
    <2>1. /\ f.stage \notin {"prerouting", "routing"} /\ ~f.newtext
          /\ f.target # "timps-otr" /\ (n = 1 => history.asked \/ Spared(f))
          BY <1>1, <1>2, <1>3, <1>6
    <2>q. QED BY <1>1, <1>3, <1>4, <1>5, <1>7, <2>1, HandlerStep
<1>8. CASE history' = [history EXCEPT !.messages = Append(@, Sent(Top))]
    <2>1. PICK e \in Message : e = Sent(Top) /\ e.src = Top.src /\ e.dst = Top.dst
                               /\ e.text = Top.text
          BY <1>2, SentFacts
    <2>2. PICK old \in Seq(Message) : old = history.messages
          BY <1>1 DEF History
    <2>3. PICK k \in Nat : k = Len(old)
          OBVIOUS
    <2>4. /\ Append(old, e) \in Seq(Message) /\ DOMAIN old = 1 .. k
          /\ DOMAIN Append(old, e) = 1 .. k + 1
          /\ Append(old, e)[k + 1] = e /\ \A i \in 1 .. k : Append(old, e)[i] = old[i]
          BY <2>3
    <2>5. history' = [history EXCEPT !.messages = Append(old, e)]
          BY <1>8, <2>1, <2>2
    <2>6. /\ history' \in History /\ history'.messages = Append(old, e)
          /\ history'.logs = history.logs
          /\ (history'.asked <=> history.asked) /\ (history'.taken <=> history.taken)
        <3>1. PICK all \in Seq(Message) : all = Append(old, e)
              BY <2>4
        <3>2. history' = [history EXCEPT !.messages = all] /\ history \in History
              BY <1>1, <2>5, <3>1
        <3>q. QED BY <3>1, <3>2, HistorySet, Zenon
    <2>7. PICK new : new = history'.messages /\ DOMAIN new = 1 .. k + 1 /\ new[k + 1] = e
                     /\ \A i \in 1 .. k : new[i] = old[i]
          BY <2>4, <2>6
    <2>8. /\ stack' \in Seq(Frames) /\ Len(stack') = n /\ DOMAIN stack' = 1 .. n
          /\ stack'[n] = f /\ (\A i \in 1 .. n : i # n => stack'[i] = stack[i])
          /\ DOMAIN stack = 1 .. n /\ stack' # <<>>
          BY <1>1, <1>4, SetTopFacts
    <2> HIDE DEF n
    <2>9. Types' /\ LoadInv' /\ NodeInv'
          BY <1>1, <2>6, <2>8, CallStep
    <2>10. StackInv'
        <3>1. FrameRight(f, n)
              BY <1>2, <1>3 DEF FrameRight, SameCall
        <3>2. \A i \in DOMAIN stack' : FrameRight(stack'[i], i)
              BY <1>1, <2>8, <3>1 DEF StackInv
        <3>q. QED BY <1>2, <2>8, <3>2 DEF StackInv
    <2>11. /\ stack[1].stage # "done" => NoCopy
           /\ (history.taken <=> stack[1].newtext) /\ OneCopy
           /\ n = 2 /\ Top.text = "otr" => stack[1].newtext /\ stack[1].stage = "done" /\ NoCopy
          BY <1>1, <1>2 DEF WireInv, n
    <2>12. n = 1 => Top.text \in Brought /\ NoCopy /\ ~history.taken
          BY <1>1, <1>2, <1>6, <2>11 DEF FrameRight
    <2>13. n = 2 => Top.text \in {"otr", "notice"}
          BY <1>2, FrameFields DEF FrameRight, Text, Brought
    <2>14. NoCopy <=> \A i \in 1 .. k : old[i].text = "notice"
          BY <2>2, <2>4 DEF NoCopy
    <2>15. NoCopy' <=> \A i \in 1 .. k + 1 : new[i].text = "notice"
          BY <2>7 DEF NoCopy
    <2>16. n = 2 /\ Top.text = "notice" => (NoCopy => NoCopy')
          BY <2>1, <2>3, <2>7, <2>14, <2>15
    <2>17. OneCopy'
        <3> DEFINE copies == {i \in 1 .. k : old[i].text # "notice"}
                   copies2 == {i \in 1 .. k + 1 : new[i].text # "notice"}
        <3>1. /\ \A i, j \in copies : i = j
              /\ history.taken => \A i \in copies : old[i].text = "otr"
              BY <2>2, <2>4, <2>11 DEF OneCopy
        <3>2. SUFFICES /\ \A i, j \in copies2 : i = j
                       /\ history'.taken => \A i \in copies2 : new[i].text = "otr"
              BY <2>7 DEF OneCopy
        <3>3. CASE NoCopy /\ (history.taken => Top.text = "otr")
            <4>1. \A i \in copies2 : i = k + 1
                  BY <2>3, <2>7, <2>14, <3>3
            <4>q. QED BY <2>1, <2>6, <2>7, <3>3, <4>1
        <3>4. CASE n = 2 /\ Top.text = "notice"
            <4>1. \A i \in copies2 : i \in copies /\ new[i] = old[i]
                  BY <2>1, <2>3, <2>7, <3>4
            <4>q. QED BY <2>6, <3>1, <4>1
        <3>q. QED BY <1>2, <2>11, <2>12, <2>13, <3>3, <3>4
    <2>18. /\ n = 1 => stack'[1] = f /\ stack[1] = Top
           /\ n = 2 => stack'[1] = stack[1] /\ stack'[2] = f
          BY <1>2, <2>8
    <2>19. WireInv'
        <3>1. history'.taken <=> stack'[1].newtext
              BY <1>2, <1>3, <2>6, <2>11, <2>18
        <3>2. stack'[1].stage # "done" => NoCopy'
              BY <1>2, <1>3, <2>11, <2>13, <2>16, <2>18
        <3>3. Len(stack') = 2 /\ stack'[2].text = "otr" =>
                 /\ stack'[1].newtext /\ stack'[1].stage = "done" /\ stack'[2].stage = "done"
              BY <1>3, <2>8, <2>11, <2>18 DEF SameCall
        <3>q. QED BY <2>8, <2>17, <3>1, <3>2, <3>3 DEF WireInv
    <2>20. AskInv'
        <3>1. stack'[1].target = "timps-oscar" => history'.asked \/ Spared(stack'[1])
              BY <1>1, <1>2, <1>3, <2>6, <2>18 DEF AskInv
        <3>2. stack'[1].stage = "routing" /\ stack'[1].pos > 1 =>
                 history'.asked \/ Unasked(stack'[1])
              BY <1>1, <1>2, <1>3, <2>6, <2>18 DEF AskInv
        <3>3. OtrAskedFirst'
            <4> DEFINE Shown(m) == m.text = "client" \/ (m.text = "tagged" /\ ~Local(m.src))
            <4>1. \A i \in 1 .. k : Shown(old[i]) => history.asked
                  BY <1>1, <2>2, <2>4 DEF AskInv, OtrAskedFirst
            <4>2. Shown(e) => history.asked
                  BY <1>1, <1>2, <2>1, <2>13 DEF Spared
            <4>3. \A i \in 1 .. k + 1 : i \in 1 .. k \/ i = k + 1
                  BY <2>3
            <4>5. \A i \in DOMAIN new : Shown(new[i]) => history'.asked
                <5> HIDE DEF Shown
                <5>q. QED BY <2>6, <2>7, <4>1, <4>2, <4>3
            <4>q. QED BY <1>1, <2>7, <4>5 DEF OtrAskedFirst, Local, Online
        <3>q. QED BY <1>1, <3>1, <3>2, <3>3 DEF AskInv, Unasked, Spared, Local, Online
    <2>21. LogInv'
        <3>1. ASSUME NEW i \in DOMAIN stack' PROVE (Reached(stack[i]) => Written(stack[i]))'
            <4>1. PICK g : g = stack'[i] /\ (Reached(g) => Written(g))
                  BY <1>1, <1>5, <2>8 DEF LogInv
            <4>2. Reached(g)' => Written(g)'
                  BY <1>1, <2>6, <4>1 DEF Reached, Written, Online, Rest, lists
            <4>q. QED BY <4>1, <4>2 DEF Reached, Written, Online
        <3>2. LoggedBeforeSent'
            <4>1. \A i \in 1 .. k : \A x \in {old[i].src, old[i].dst} \cap DOMAIN nodes :
                     nodes[x].log => <<x, old[i].src, old[i].dst, old[i].text>> \in history.logs
                  BY <1>1, <2>2, <2>4 DEF LogInv, LoggedBeforeSent
            <4>2. \A x \in {e.src, e.dst} \cap DOMAIN nodes :
                     nodes[x].log => <<x, e.src, e.dst, e.text>> \in history.logs
                <5>1. Written(Top)
                      BY <1>1, <1>2 DEF Reached
                <5> HIDE DEF n
                <5>q. QED BY <2>1, <5>1 DEF Written, Online
            <4>3. \A i \in 1 .. k + 1 : i \in 1 .. k \/ i = k + 1
                  BY <2>3
            <4>q. QED BY <1>1, <2>6, <2>7, <4>1, <4>2, <4>3 DEF LoggedBeforeSent
        <3>q. QED BY <3>1, <3>2 DEF LogInv
    <2>q. QED BY <2>9, <2>10, <2>19, <2>20, <2>21 DEF IInv
<1>q. QED BY <1>7, <1>8 DEF toscar_gnroutputfunc, Sent

\* A call as gnr_msg_route starts it.
LEMMA NewFrame ==
    ASSUME NEW m \in Outputs, NEW src \in Names, NEW dst \in Names, NEW text \in Text
    PROVE  \E g \in Frames :
              /\ g = Frame(m, src, dst, text) /\ g.srcmod = m /\ g.src = src /\ g.dst = dst
              /\ g.text = text /\ g.stage = "prerouting" /\ g.pos = 1 /\ g.target = NULL
              /\ ~g.newtext /\ g.calls = 0
<1> DEFINE g == Frame(m, src, dst, text)
<1>1. /\ g.srcmod = m /\ g.src = src /\ g.dst = dst
      /\ g.text = text /\ g.stage = "prerouting" /\ g.pos = 1 /\ g.target = NULL
      /\ ~g.newtext /\ g.calls = 0
      BY DEF Frame
<1>2. g \in Frames
      BY DEF Frame, Frames, Stage
<1> HIDE DEF g
<1>q. QED BY <1>1, <1>2 DEF g

\* Appending adds one element and keeps the others.
LEMMA AppendFacts ==
    ASSUME NEW S, NEW s \in Seq(S), NEW e \in S
    PROVE  /\ Append(s, e) \in Seq(S) /\ Len(Append(s, e)) = Len(s) + 1
           /\ \A i \in 1 .. Len(s) : Append(s, e)[i] = s[i]
           /\ Append(s, e)[Len(s) + 1] = e
OBVIOUS

\* Appending to a list of one, the only push gnr_msg_route makes.
LEMMA PairFacts ==
    ASSUME NEW S, NEW s \in Seq(S), Len(s) = 1, NEW e \in S
    PROVE  /\ Append(s, e) \in Seq(S) /\ Len(Append(s, e)) = 2
           /\ Append(s, e)[1] = s[1] /\ Append(s, e)[2] = e
<1> DEFINE t == Append(s, e)
<1>1. /\ t \in Seq(S) /\ Len(t) = Len(s) + 1
      /\ \A i \in 1 .. Len(s) : t[i] = s[i]
      /\ t[Len(s) + 1] = e
      BY AppendFacts, Zenon
<1> HIDE DEF t
<1>2. t[1] = s[1] /\ t[2] = e /\ Len(t) = 2
    <2>1. 1 \in 1 .. Len(s) /\ Len(s) + 1 = 2
          OBVIOUS
    <2>q. QED BY <1>1, <2>1
<1>q. QED BY <1>1, <1>2 DEF t

\* timps-otr enters gnr_msg_route again.
LEMMA EnterStep ==
    ASSUME IInv, Calls, Rest, UNCHANGED <<nodes, history>>, Len(stack) = 1,
           Top.stage # "done", NEW f \in Frames, NEW g \in Frames,
           stack' = Append([stack EXCEPT ![1] = f], g),
           f.srcmod = Top.srcmod, f.src = Top.src, f.dst = Top.dst, f.text = Top.text,
           f.target = Top.target, f.newtext = Top.newtext, f.pos = Top.pos,
           f.calls <= MaxCallbacks, f.stage = Top.stage \/ f.stage = "done",
           g.srcmod = "timps-otr", g.text \notin Brought, g.target = NULL,
           g.stage = "prerouting", ~g.newtext, g.calls = 0,
           g.text = "otr" => f.newtext /\ f.stage = "done"
    PROVE  IInv'
<1>1. Types /\ StackInv /\ WireInv /\ AskInv /\ LogInv /\ stack # <<>> /\ stack \in Seq(Frames)
      BY DEF IInv, Calls, Types
<1>2. /\ Top \in Frames /\ FrameRight(Top, 1) /\ Top = stack[1] /\ DOMAIN stack = {1}
      BY <1>1, TopFacts
<1>3. /\ stack' \in Seq(Frames) /\ Len(stack') = 2 /\ DOMAIN stack' = {1, 2}
      /\ stack'[1] = f /\ stack'[2] = g
    <2> DEFINE s == [stack EXCEPT ![1] = f]
    <2>1. 1 \in 1 .. Len(stack)
          OBVIOUS
    <2>2. s \in Seq(Frames) /\ Len(s) = 1 /\ s[1] = f
          BY <1>1, <2>1, ExceptSeq
    <2> HIDE DEF s
    <2>3. stack' = Append(s, g)
          BY DEF s
    <2>4. stack' \in Seq(Frames) /\ Len(stack') = 2 /\ stack'[1] = f /\ stack'[2] = g
        <3>1. /\ Append(s, g) \in Seq(Frames) /\ Len(Append(s, g)) = 2
              /\ Append(s, g)[1] = s[1] /\ Append(s, g)[2] = g
              BY <2>2, PairFacts
        <3>q. QED BY <2>2, <2>3, <3>1, Zenon
    <2>q. QED BY <2>4
<1>4. stack' # <<>>
    <2>1. Len(stack') # 0
          BY <1>3
    <2>q. QED BY <2>1, EmptySeq
<1>5. history' \in History /\ history' = history /\ NULL # "timps-otr"
      BY <1>1, NullFacts, ModlistFacts DEF Types
<1>6. Types' /\ LoadInv' /\ NodeInv'
      BY <1>3, <1>5, CallStep
<1>7. StackInv'
    <2>1. FrameRight(f, 1)
        <3>1. f.stage \in {"prerouting", "routing"} => f.target = NULL
              BY <1>2 DEF FrameRight
        <3>q. QED BY <1>2, <3>1 DEF FrameRight
    <2>2. FrameRight(g, 2)
          BY <1>5, CallbackAssumption DEF FrameRight
    <2>3. \A i \in DOMAIN stack' : FrameRight(stack'[i], i)
          BY <1>3, <2>1, <2>2
    <2>q. QED BY <1>3, <2>3 DEF StackInv
<1>8. WireInv'
    <2>1. NoCopy /\ OneCopy /\ (history.taken <=> Top.newtext)
          BY <1>1, <1>2 DEF WireInv
    <2>2. NoCopy' /\ OneCopy' /\ (history'.taken <=> f.newtext)
          BY <1>5, <2>1 DEF NoCopy, OneCopy
    <2>q. QED BY <1>3, <1>4, <2>2 DEF WireInv
<1>9. AskInv'
    <2>1. /\ f.target = "timps-oscar" => history.asked \/ Spared(Top)
          /\ f.stage = "routing" /\ f.pos > 1 => history.asked \/ Unasked(Top)
          BY <1>1, <1>2 DEF AskInv
    <2>2. (Unasked(Top) <=> Unasked(f)) /\ (Spared(Top) <=> Spared(f))
          BY DEF Unasked, Spared
    <2>3. OtrAskedFirst'
          BY <1>1, <1>5 DEF AskInv, OtrAskedFirst, Local, Online
    <2>q. QED BY <1>3, <1>5, <2>1, <2>2, <2>3 DEF AskInv, Unasked, Spared, Local, Online
<1>10. LogInv'
    <2>1. Reached(f) => Written(f)
        <3>1. Reached(f) => Reached(Top)
              BY DEF Reached
        <3>2. Reached(Top) => Written(Top)
              BY <1>1, <1>2 DEF LogInv
        <3>3. Written(Top) => Written(f)
              BY DEF Written
        <3>q. QED BY <3>1, <3>2, <3>3
    <2>2. ~Reached(g)
          BY DEF Reached
    <2>3. ASSUME NEW i \in DOMAIN stack' PROVE (Reached(stack[i]) => Written(stack[i]))'
        <3>1. PICK x : x = stack'[i] /\ (Reached(x) => Written(x))
              BY <1>3, <2>1, <2>2
        <3>2. Reached(x)' => Written(x)'
              BY <1>5, <3>1 DEF Reached, Written, Online, Rest, lists
        <3>3. Reached(stack[i])' => Reached(x)'
              BY <3>1 DEF Reached
        <3>4. Written(x)' => Written(stack[i])'
            <4>1. SUFFICES ASSUME Written(x)', NEW n \in {stack'[i].src, stack'[i].dst},
                                  Online(n)', nodes'[n].log
                           PROVE  <<n, stack'[i].src, stack'[i].dst, stack'[i].text>>
                                     \in history'.logs
                  BY DEF Written
            <4>2. <<n, x.src, x.dst, x.text>> \in history'.logs
                  BY <3>1, <4>1 DEF Written
            <4>q. QED BY <3>1, <4>2
        <3>q. QED BY <3>2, <3>3, <3>4
    <2>4. LoggedBeforeSent'
          BY <1>1, <1>5 DEF LogInv, LoggedBeforeSent
    <2>q. QED BY <2>3, <2>4 DEF LogInv
<1>q. QED BY <1>6, <1>7, <1>8, <1>9, <1>10 DEF IInv

\* A callback of libotr sends a message.
LEMMA UiopStep ==
    ASSUME IInv, totr_uiop
    PROVE  IInv'
<1>1. /\ AtLibotr /\ Top.calls < MaxCallbacks /\ Rest /\ UNCHANGED <<nodes, history>>
      BY DEF totr_uiop
<1>2. PICK m \in Notices :
         /\ m[1] # NULL
         /\ stack' = totr_sendmsg([stack EXCEPT ![Len(stack)].calls = @ + 1], m[1], m[2])
      BY DEF totr_uiop
<1>3. Calls /\ Top.stage = "routing" /\ Len(stack) = 1 /\ Top.stage # "done"
      BY <1>1, OtrOutermost DEF AtLibotr
<1>4. Top \in Frames /\ Top = stack[1] /\ stack \in Seq(Frames)
      BY <1>3, CallFacts DEF IInv, Types
<1>5. m[1] \in Names /\ m[2] \in Names
    <2>1. Top.src \in Names /\ Top.dst \in Names
          BY <1>4, FrameFields
    <2>2. Account \in Names /\ Contact \in Names
          BY <2>1 DEF Account, Contact
    <2>3. bot # NULL => bot \in Names
          BY DEF IInv, Types, Names
    <2>q. QED BY <1>2, <2>2, <2>3 DEF Notices
<1>6. PICK f \in Frames :
         /\ f = [Top EXCEPT !.calls = @ + 1]
         /\ f.srcmod = Top.srcmod /\ f.src = Top.src /\ f.dst = Top.dst /\ f.text = Top.text
         /\ f.target = Top.target /\ f.newtext = Top.newtext /\ f.pos = Top.pos
         /\ f.stage = Top.stage /\ f.calls = Top.calls + 1
    <2> DEFINE f == [Top EXCEPT !.calls = @ + 1]
    <2>1. f \in Frames
        <3> DEFINE n == Top.calls + 1
        <3>1. n \in Nat
              BY <1>4 DEF Frames
        <3>2. f = [Top EXCEPT !.calls = n]
              OBVIOUS
        <3> HIDE DEF n, f
        <3>q. QED BY <1>4, <3>1, <3>2 DEF Frames
    <2>2. /\ f.srcmod = Top.srcmod /\ f.src = Top.src /\ f.dst = Top.dst /\ f.text = Top.text
          /\ f.target = Top.target /\ f.newtext = Top.newtext /\ f.pos = Top.pos
          /\ f.stage = Top.stage /\ f.calls = Top.calls + 1
          BY <1>4 DEF Frames
    <2> HIDE DEF f
    <2>q. QED BY <2>1, <2>2 DEF f
<1>7. PICK g \in Frames :
         /\ g = Frame("timps-otr", m[1], m[2], "notice")
         /\ g.srcmod = "timps-otr" /\ g.text = "notice" /\ g.stage = "prerouting"
         /\ g.target = NULL /\ ~g.newtext /\ g.calls = 0
    <2>1. "timps-otr" \in Outputs /\ "notice" \in Text
          BY DEF Outputs, Text
    <2>q. QED BY <1>5, <2>1, NewFrame
<1>8. stack' = Append([stack EXCEPT ![1] = f], g)
    <2>1. [stack EXCEPT ![1].calls = @ + 1] = [stack EXCEPT ![1] = f]
          BY <1>4, <1>6
    <2>q. QED BY <1>2, <1>3, <1>7, <2>1 DEF totr_sendmsg
<1>9. f.calls <= MaxCallbacks
      BY <1>1, <1>4, <1>6, FrameFields, CallbackAssumption
<1>10. g.text \notin Brought /\ g.text # "otr"
      BY <1>7 DEF Brought
<1>q. QED BY <1>1, <1>3, <1>6, <1>7, <1>8, <1>9, <1>10, EnterStep

\* totr_gnroutputfunc.
LEMMA OtrOutputStep ==
    ASSUME IInv, totr_gnroutputfunc
    PROVE  IInv'
<1>1. /\ Calls /\ Rest /\ UNCHANGED <<nodes, history>> /\ stack \in Seq(Frames)
      /\ Top.stage = "output" /\ Top.target = "timps-otr" /\ Top.stage # "done"
      BY DEF totr_gnroutputfunc, AtOutput, IInv, Types
<1>2. /\ Top \in Frames /\ Top = stack[1] /\ FrameRight(Top, 1) /\ Len(stack) = 1
      BY <1>1, CallFacts DEF FrameRight
<1>3. PICK f \in Frames :
         /\ f = Done /\ SameCall(f, Top) /\ f.stage = "done" /\ f.target = Top.target
         /\ f.newtext = Top.newtext /\ f.pos = Top.pos
      BY <1>2, DoneFacts
<1>4. /\ f.srcmod = Top.srcmod /\ f.src = Top.src /\ f.dst = Top.dst /\ f.text = Top.text
      /\ f.calls <= MaxCallbacks
      BY <1>2, <1>3 DEF SameCall, FrameRight
<1>5. "timps-otr" \in Outputs /\ {"notice", "otr"} \subseteq Text
      /\ Top.src \in Names /\ Top.dst \in Names
      BY <1>2, FrameFields DEF Outputs, Text
<1>6. CASE totr_isbot
    <2>1. stack' = Append([stack EXCEPT ![1] = f], Frame("timps-otr", bot, Top.src, "notice"))
          BY <1>2, <1>3, <1>6 DEF totr_gnroutputfunc, totr_sendmsg
    <2>2. bot \in Names
          BY <1>5, <1>6 DEF totr_isbot
    <2>3. PICK g \in Frames :
             /\ g = Frame("timps-otr", bot, Top.src, "notice")
             /\ g.srcmod = "timps-otr" /\ g.text = "notice" /\ g.stage = "prerouting"
             /\ g.target = NULL /\ ~g.newtext /\ g.calls = 0
          BY <1>5, <2>2, NewFrame
    <2>4. stack' = Append([stack EXCEPT ![1] = f], g)
          BY <2>1, <2>3
    <2>5. g.text \notin Brought /\ g.text # "otr"
          BY <2>3 DEF Brought
    <2>q. QED BY <1>1, <1>2, <1>3, <1>4, <2>3, <2>4, <2>5, EnterStep
<1>7. CASE ~totr_isbot /\ Top.newtext
    <2>1. stack' = Append([stack EXCEPT ![1] = f], Frame("timps-otr", Top.src, Top.dst, "otr"))
          BY <1>2, <1>3, <1>7 DEF totr_gnroutputfunc
    <2>2. PICK g \in Frames :
             /\ g = Frame("timps-otr", Top.src, Top.dst, "otr")
             /\ g.srcmod = "timps-otr" /\ g.text = "otr" /\ g.stage = "prerouting"
             /\ g.target = NULL /\ ~g.newtext /\ g.calls = 0
          BY <1>5, NewFrame
    <2>3. stack' = Append([stack EXCEPT ![1] = f], g)
          BY <2>1, <2>2
    <2>4. g.text \notin Brought /\ (g.text = "otr" => f.newtext /\ f.stage = "done")
          BY <1>3, <1>7, <2>2 DEF Brought
    <2>q. QED BY <1>1, <1>2, <1>3, <1>4, <2>2, <2>3, <2>4, EnterStep
<1>8. CASE ~totr_isbot /\ ~Top.newtext
    <2>1. SetTop(f)
          BY <1>3, <1>8 DEF totr_gnroutputfunc, SetTop
    <2>2. ~Reached(f)
          BY <1>3 DEF Reached
    <2>3. /\ f.stage \notin {"prerouting", "routing", "postrouting"} /\ ~f.newtext
          /\ f.target = "timps-otr" /\ Len(stack) # 2
          BY <1>1, <1>2, <1>3, <1>8
    <2>4. f.target # "timps-oscar"
          BY <2>3
    <2>q. QED BY <1>1, <1>3, <2>1, <2>2, <2>3, <2>4, HandlerStep
<1>q. QED BY <1>6, <1>7, <1>8

\* gnr_msg_route returns to the loop, or to timps-otr inside the outer call.
LEMMA ReturnStep ==
    ASSUME IInv, Return
    PROVE  IInv'
<1>1. /\ Calls /\ Rest /\ UNCHANGED nodes /\ stack' = Front(stack)
      /\ history' = IF Len(stack) = 1 THEN Idle ELSE history
      /\ Types /\ StackInv /\ WireInv /\ AskInv /\ LogInv /\ stack # <<>>
      /\ stack \in Seq(Frames) /\ history \in History
      BY DEF Return, IInv, Types, Calls
<1>2. Len(stack) \in {1, 2} /\ DOMAIN stack = 1 .. Len(stack)
      BY <1>1, TopFacts
<1>3. CASE Len(stack) = 1
    <2>1. stack' = <<>>
        <3>1. stack' = SubSeq(stack, 1, 1 - 1)
              BY <1>1, <1>3 DEF Front
        <3>2. 1 - 1 \in Int /\ 1 \in Int /\ 1 - 1 < 1
              OBVIOUS
        <3>q. QED BY <3>1, <3>2, SubSeqEmpty
    <2>2. /\ history' \in History /\ history'.messages = <<>> /\ ~history'.taken
          BY <1>1, <1>3, IdleFacts
    <2>3. <<>> \in Seq(Frames)
          OBVIOUS
    <2>4. Types' /\ LoadInv' /\ NodeInv'
          BY <1>1, <2>1, <2>2, <2>3, CallStep
    <2>q. QED BY <2>1, <2>2, <2>4, QuietStep DEF IInv
<1>4. CASE Len(stack) = 2
    <2>1. /\ stack' \in Seq(Frames) /\ Len(stack') = 1 /\ DOMAIN stack' = {1}
          /\ stack'[1] = stack[1]
        <3>1. stack' = SubSeq(stack, 1, 2 - 1)
              BY <1>1, <1>4 DEF Front
        <3>2. stack' = SubSeq(stack, 1, 1)
              BY <3>1
        <3>3. \A s \in Seq(Frames) : Len(s) = 2 =>
                 /\ SubSeq(s, 1, 1) \in Seq(Frames) /\ Len(SubSeq(s, 1, 1)) = 1
                 /\ SubSeq(s, 1, 1)[1] = s[1]
              OBVIOUS
        <3>4. stack' \in Seq(Frames) /\ Len(stack') = 1 /\ stack'[1] = stack[1]
              BY <1>1, <1>4, <3>2, <3>3
        <3>q. QED BY <3>4
    <2>2. history' = history
          BY <1>1, <1>4
    <2>3. stack' # <<>>
        <3>1. Len(stack') # 0
              BY <2>1
        <3>q. QED BY <3>1, EmptySeq
    <2>4. Types' /\ LoadInv' /\ NodeInv'
          BY <1>1, <2>1, <2>2, CallStep
    <2>5. StackInv'
          BY <1>1, <1>2, <2>1 DEF StackInv
    <2>6. WireInv'
        <3>1. OneCopy' /\ (NoCopy => NoCopy')
              BY <1>1, <2>2 DEF WireInv, OneCopy, NoCopy
        <3>q. QED BY <1>1, <2>1, <2>2, <2>3, <3>1 DEF WireInv
    <2>7. AskInv'
        <3>1. OtrAskedFirst'
              BY <1>1, <2>2 DEF AskInv, OtrAskedFirst, Local, Online
        <3>q. QED BY <1>1, <2>1, <2>2, <3>1 DEF AskInv, Unasked, Spared, Local, Online
    <2>8. LogInv'
        <3>1. ASSUME NEW i \in DOMAIN stack' PROVE (Reached(stack[i]) => Written(stack[i]))'
            <4>1. PICK x : x = stack'[i] /\ (Reached(x) => Written(x))
                  BY <1>1, <1>2, <1>4, <2>1 DEF LogInv
            <4>2. Reached(x)' => Written(x)'
                  BY <1>1, <2>2, <4>1 DEF Reached, Written, Online, Rest, lists
            <4>q. QED BY <4>1, <4>2 DEF Reached, Written, Online
        <3>2. LoggedBeforeSent'
              BY <1>1, <2>2 DEF LogInv, LoggedBeforeSent
        <3>q. QED BY <3>1, <3>2 DEF LogInv
    <2>q. QED BY <2>4, <2>5, <2>6, <2>7, <2>8 DEF IInv
<1>q. QED BY <1>2, <1>3, <1>4

\* The process is gone.
LEMMA CrashStep ==
    ASSUME IInv, totr_crash
    PROVE  IInv'
<1>1. /\ stack' = <<>> /\ tounload' = <<>> /\ history' = [Idle EXCEPT !.crashed = TRUE]
      /\ UNCHANGED <<toload, loaded, handlers, taglists, statslist, evhlist, evhfreed,
                     nodes, streams, userlogs, bot, sessions>>
      /\ Types /\ LoadInv /\ NodeInv /\ Running /\ history \in History
      BY DEF totr_crash, AtOtr, AtHandler, Calls, IInv, Types
<1>2. Idle \in History /\ Idle.messages = <<>> /\ ~Idle.taken
      BY <1>1, IdleFacts
<1>3. \A h \in History : LET g == [h EXCEPT !.crashed = TRUE]
                         IN  /\ g \in History /\ g.messages = h.messages
                             /\ (g.taken <=> h.taken)
      BY DEF History
<1>4. history' \in History /\ history'.messages = <<>> /\ ~history'.taken
      BY <1>1, <1>2, <1>3
<1>5. <<>> \in Seq(Modules) /\ <<>> # NULL
    <2>1. <<>> \in Seq(Modules)
          OBVIOUS
    <2>q. QED BY <2>1, NullFacts
<1>6. Types'
      BY <1>1, <1>4, <1>5 DEF Types
<1>7. LoadInv'
      BY <1>1, <1>5 DEF LoadInv, Running, After
<1>8. NodeInv'
    <2>1. Online(bot)' = Online(bot) /\ Listens("timps-otr")' = Listens("timps-otr")
          BY <1>1 DEF Online, Listens
    <2>q. QED BY <1>1, <1>4, <1>5, <2>1 DEF NodeInv
<1>9. StackInv' /\ WireInv' /\ AskInv' /\ LogInv'
      BY <1>1, <1>4, QuietStep
<1>q. QED BY <1>6, <1>7, <1>8, <1>9 DEF IInv

\* timps-oscar brings a message in.
LEMMA MessageStep ==
    ASSUME IInv, NEW user \in Names, NEW other \in Names, NEW out \in BOOLEAN,
           NEW text \in Brought, OscarMessage(user, other, out, text)
    PROVE  IInv'
<1>1. /\ AtPoll /\ gnr_node_online(other, "timps-oscar", FALSE)
      /\ UNCHANGED <<lists, userlogs, sessions, bot, history>>
      /\ Types /\ LoadInv /\ NodeInv /\ WireInv
      BY DEF OscarMessage, IInv
<1>2. /\ tounload = NULL /\ stack = <<>> /\ Running /\ history.messages = <<>>
      /\ ~history.taken
      BY <1>1 DEF AtPoll, Running, WireInv
<1>3. PICK f \in Frames :
         /\ stack' = <<f>> /\ f.srcmod = "timps-oscar" /\ f.text \in Brought
         /\ f.stage = "prerouting" /\ f.target = NULL /\ ~f.newtext /\ f.calls = 0
    <2>1. "timps-oscar" \in Outputs /\ text \in Text
          BY DEF Outputs, Text
    <2>2. CASE out
        <3>1. stack' = <<Frame("timps-oscar", user, other, text)>>
              BY <2>2 DEF OscarMessage
        <3>q. QED BY <2>1, <3>1, NewFrame
    <2>3. CASE ~out
        <3>1. stack' = <<Frame("timps-oscar", other, user, text)>>
              BY <2>3 DEF OscarMessage
        <3>q. QED BY <2>1, <3>1, NewFrame
    <2>q. QED BY <2>2, <2>3
<1>4. /\ stack' \in Seq(Frames) /\ Len(stack') = 1 /\ DOMAIN stack' = {1} /\ stack'[1] = f
      /\ stack' # <<>>
      BY <1>3
<1>5. Types'
      BY <1>1, <1>4 DEF Types, lists
<1>6. LoadInv'
      BY <1>1, <1>2, ListsKept
<1>7. NodeInv'
    <2>1. "timps-oscar" \in Modules /\ FALSE \in BOOLEAN
          BY ModlistFacts
    <2>q. QED BY <1>1, <1>2, <2>1, OnlineStep
<1>8. StackInv'
    <2>1. FrameRight(f, 1)
          BY <1>3, CallbackAssumption DEF FrameRight
    <2>q. QED BY <1>4, <2>1 DEF StackInv
<1>9. WireInv'
      BY <1>1, <1>2, <1>3, <1>4 DEF WireInv, NoCopy, OneCopy
<1>10. AskInv'
    <2>1. NULL # "timps-oscar"
          BY NullFacts, ModlistFacts
    <2>q. QED BY <1>1, <1>2, <1>3, <1>4, <2>1 DEF AskInv, OtrAskedFirst
<1>11. LogInv'
      BY <1>1, <1>2, <1>3, <1>4 DEF LogInv, LoggedBeforeSent, Reached
<1>q. QED BY <1>5, <1>6, <1>7, <1>8, <1>9, <1>10, <1>11 DEF IInv

-----------------------------------------------------------------------------
(* The theorems *)

\* Nothing is loaded, and what naf_init1 is going to load is in order.
LEMMA InitInv == Init => IInv
<1> SUFFICES ASSUME Init PROVE IInv
    OBVIOUS
<1>1. /\ toload = naf_module__loadall /\ tounload = NULL /\ loaded = {}
      /\ handlers = NoHandlers /\ evhlist = <<>> /\ evhfreed = FALSE
      /\ nodes = [n \in {} |-> 0] /\ streams = [n \in Names |-> 0] /\ userlogs = FALSE
      /\ bot = NULL /\ sessions = {} /\ stack = <<>>
      BY DEF Init
<1>2. history = [messages |-> <<>>, logs |-> {}, asked |-> FALSE, taken |-> FALSE,
                 stale |-> FALSE, crashed |-> FALSE]
      BY DEF Init
<1>3. history \in History /\ history.messages = <<>> /\ ~history.taken
      BY <1>2 DEF History
<1>4. NoHandlers \in [Stage -> Seq(Handler)] /\ NoHandlers["routing"] = <<>>
      BY DEF NoHandlers, Stage
<1>5. Types
    <2>1. evhlist \in Seq(Listeners) /\ stack \in Seq(Frames)
          BY <1>1
    <2>2. toload \in Seq(Modules) /\ tounload = NULL /\ loaded \subseteq Modules
          BY <1>1, LoadOrder
    <2>3. userlogs \in BOOLEAN /\ bot \in {NULL, Bot} /\ sessions \subseteq Names
          BY <1>1
    <2>4. handlers \in [Stage -> Seq(Handler)]
          BY <1>1, <1>4
    <2>q. QED BY <1>3, <2>1, <2>2, <2>3, <2>4 DEF Types
<1>6. LoadInv
      BY <1>1, <1>4, LoadOrder DEF LoadInv, Sorted, Placed
<1>7. NodeInv
    <2>1. DOMAIN nodes = {}
          BY <1>1
    <2>2. NodesRight(nodes, streams)
        <3>1. nodes \in [DOMAIN nodes -> Node]
              BY <1>1, <2>1
        <3>2. streams \in [Names -> Nat] /\ \A x \in Names : streams[x] = 0
              BY <1>1
        <3>q. QED BY <2>1, <3>1, <3>2 DEF NodesRight
    <2>q. QED BY <1>1, <1>3, <2>1, <2>2 DEF NodeInv, Logged
<1>8. StackInv /\ WireInv /\ AskInv /\ LogInv
    <2>1. StackInv
          BY <1>1 DEF StackInv
    <2>2. WireInv
          BY <1>1, <1>3 DEF WireInv, OneCopy
    <2>3. AskInv
          BY <1>1, <1>3 DEF AskInv, OtrAskedFirst
    <2>4. LogInv
          BY <1>1, <1>3 DEF LogInv, LoggedBeforeSent
    <2>q. QED BY <2>1, <2>2, <2>3, <2>4
<1>q. QED BY <1>5, <1>6, <1>7, <1>8 DEF IInv

\* One step per action.
LEMMA NextInv == IInv /\ [Next]_vars => IInv'
<1> SUFFICES ASSUME IInv, [Next]_vars PROVE IInv'
    OBVIOUS
<1>1. CASE Lifecycle
      BY <1>1, LoadStep, ShutdownStep, UnloadStep, SignalStep DEF Lifecycle
<1>2. CASE \E n \in Names : Session(n)
      BY <1>2, SessionStep
<1>3. CASE gnr_node__timeout
      BY <1>3, TimeoutStep
<1>4. CASE naf_rpc_request_issue
      BY <1>4, RequestStep
<1>5. CASE \E user, other \in Names, out \in BOOLEAN, text \in Brought :
              OscarMessage(user, other, out, text)
      BY <1>5, MessageStep
<1>6. CASE RouteStep
      BY <1>6, NextStageStep, PlainSteps, OscarRoutingStep, OtrPlainStep, UiopStep, OtrStep,
         CrashStep, LoggerStep, OutputStep, OtrOutputStep, ReturnStep DEF RouteStep
<1>7. CASE UNCHANGED vars
    <2>1. UNCHANGED <<lists, nodes, streams, userlogs, bot, sessions, stack, history>>
          BY <1>7 DEF vars
    <2>2. Types /\ LoadInv /\ NodeInv /\ StackInv /\ WireInv /\ AskInv /\ LogInv
          BY DEF IInv
    <2>3. Types'
          BY <2>1, <2>2 DEF Types, lists
    <2>4. LoadInv'
          BY <2>1, <2>2, ListsKept DEF LoadInv
    <2>5. NodeInv'
          BY <2>1, <2>2 DEF NodeInv, lists, Logged, Listens, Online
    <2>6. StackInv' /\ WireInv'
          BY <2>1, <2>2 DEF StackInv, FrameRight, WireInv, NoCopy, OneCopy
    <2>7. AskInv'
          BY <2>1, <2>2 DEF AskInv, OtrAskedFirst, Unasked, Spared, Local, Online
    <2>8. LogInv'
          BY <2>1, <2>2 DEF LogInv, LoggedBeforeSent, Reached, Written, Online, lists
    <2>q. QED BY <2>3, <2>4, <2>5, <2>6, <2>7, <2>8 DEF IInv
<1>q. QED BY <1>1, <1>2, <1>3, <1>4, <1>5, <1>6, <1>7 DEF Next

\* IInv holds in every state.
THEOREM Invariance == Spec => []IInv
BY InitInv, NextInv, PTL DEF Spec

\* gnr_msg_route is never entered a third time, however many callbacks libotr
\* makes and whatever it decides.
THEOREM NeverThirdCall == Spec => []NestingBounded
<1>1. IInv => NestingBounded
      BY DEF IInv, StackInv, NestingBounded
<1>q. QED BY <1>1, Invariance, PTL

\* A message of a client reaches the wire at most once, and in the clear only
\* if libotr left it as it was.
THEOREM NeverTwice == Spec => []OneCopy
<1>1. IInv => OneCopy
      BY DEF IInv, WireInv
<1>q. QED BY <1>1, Invariance, PTL

\* libotr sees the text of a client before timps-oscar sends it, although
\* timps-otr is loaded last and with either option; the exception is what the
\* handler itself lets through, a local user's message without a text or with
\* OTR_MESSAGE_TAG.
THEOREM SeenByOtrFirst == Spec => []OtrAskedFirst
<1>1. IInv => OtrAskedFirst
      BY DEF IInv, AskInv
<1>q. QED BY <1>1, Invariance, PTL

\* tlogging_msglogger has written whatever goes on the wire.
THEOREM WireIsLogged == Spec => []LoggedBeforeSent
<1>1. IInv => LoggedBeforeSent
      BY DEF IInv, LogInv
<1>q. QED BY <1>1, Invariance, PTL

\* No log stream leaks and none is closed twice, whether NODEDOWN closes it or,
\* at the shutdown, freetag of timps-logging.
THEOREM StreamsCounted == Spec => []StreamsOwned
<1>1. IInv => StreamsOwned
      BY DEF IInv, NodeInv, NodesRight, StreamsOwned, Online
<1>q. QED BY <1>1, Invariance, PTL

\* timps_otr__botnode never dangles.
THEOREM BotNodeLive == Spec => []BotLive
<1>1. IInv => BotLive
      BY DEF IInv, NodeInv, BotLive
<1>q. QED BY <1>1, Invariance, PTL

\* What the type invariant says besides Types.
TagTypes == DOMAIN taglists = Modules /\ evhfreed \in BOOLEAN

\* Every step keeps the types of the tag lists.
LEMMA TagTypesStep == TagTypes /\ [Next]_vars => TagTypes'
<1> SUFFICES ASSUME TagTypes, [Next]_vars PROVE TagTypes'
    OBVIOUS
<1>1. CASE naf_module__load
      BY <1>1 DEF naf_module__load, TagTypes
<1>2. CASE naf_module__unloadall
      BY <1>2 DEF naf_module__unloadall, TagTypes
<1>3. CASE naf_rpc_request_issue
      BY <1>3 DEF naf_rpc_request_issue, TagTypes
<1>4. CASE UNCHANGED <<taglists, evhfreed>>
      BY <1>4 DEF TagTypes
<1>5. \/ naf_module__load \/ naf_module__unloadall \/ naf_rpc_request_issue
      \/ UNCHANGED <<taglists, evhfreed>>
    <2>1. Rest => UNCHANGED <<taglists, evhfreed>>
          BY DEF Rest, lists
    <2>2. Lifecycle => \/ naf_module__load \/ naf_module__unloadall
                       \/ UNCHANGED <<taglists, evhfreed>>
          BY DEF Lifecycle, sighandler_shutdown, signalhandler, lists
    <2>3. \A n : Session(n) => UNCHANGED <<taglists, evhfreed>>
          BY DEF Session, Login, ClientOnline, Logout, lists
    <2>4. \A user, other, out, text :
             OscarMessage(user, other, out, text) => UNCHANGED <<taglists, evhfreed>>
          BY DEF OscarMessage, lists
    <2>5. gnr_node__timeout => UNCHANGED <<taglists, evhfreed>>
          BY DEF gnr_node__timeout, lists
    <2>6. RouteStep => UNCHANGED <<taglists, evhfreed>>
          BY <2>1 DEF RouteStep, NextStage, timps_msgrouting, toscar_msgrouting,
             totr_msgroutinghandler_Plain, totr_uiop, totr_msgroutinghandler_Otr, totr_crash,
             totr_msgroutinghandler_Foreign, tlogging_msglogger, gnr_node__msg_postrouting,
             toscar_gnroutputfunc, totr_gnroutputfunc, Return
    <2>7. UNCHANGED vars => UNCHANGED <<taglists, evhfreed>>
          BY DEF vars, lists
    <2>q. QED BY <2>2, <2>3, <2>4, <2>5, <2>6, <2>7 DEF Next
<1>q. QED BY <1>1, <1>2, <1>3, <1>4, <1>5

\* Type correctness.
THEOREM TypeCorrect == Spec => []TypeOK
<1>1. Init => TagTypes
      BY DEF Init, TagTypes
<1>2. IInv /\ TagTypes => TypeOK
    <2> SUFFICES ASSUME IInv, TagTypes PROVE TypeOK
        OBVIOUS
    <2>1. Types /\ StackInv /\ NodesRight(nodes, streams)
          BY DEF IInv, NodeInv
    <2>2. streams \in [Names -> 0 .. 1]
        <3>1. streams \in [Names -> Nat] /\ \A x \in Names : streams[x] \in 0 .. 1
              BY <2>1 DEF NodesRight
        <3>q. QED BY <3>1
    <2>3. ASSUME NEW i \in DOMAIN stack
          PROVE  stack[i].text \in Text /\ stack[i].calls <= MaxCallbacks
        <3>1. stack[i] \in Frames /\ FrameRight(stack[i], i)
              BY <2>1 DEF Types, StackInv
        <3>q. QED BY <3>1, FrameFields DEF FrameRight
    <2>q. QED BY <2>1, <2>2, <2>3 DEF TypeOK, Types, NodesRight, TagTypes
<1>q. QED BY <1>1, <1>2, TagTypesStep, Invariance, PTL DEF Spec

-----------------------------------------------------------------------------
(* The registries: what each module has in them, with -M *)

Distinct(list) == \A i, j \in DOMAIN list : list[i] = list[j] => i = j

\* The order of loading.  Nothing is loaded before rpc, whose absence would
\* lose methods, and no handler is registered before gnr has cleared the
\* lists.
Later == (Handles \ {"gnr"}) \cup {"stats"}
LoadOrderInv ==
    /\ Distinct(toload)
    /\ \A i \in DOMAIN toload : toload[i] \notin loaded
    /\ tounload = NULL => \A m \in Modules : m \in loaded \/ InList(toload, m)
    /\ \A i \in DOMAIN toload : toload[i] = "rpc" => i = 1
    /\ \A i \in DOMAIN toload : toload[i] = "gnr" =>
          /\ loaded \cap Later = {}
          /\ \A j \in DOMAIN toload : toload[j] \in Later => i < j

\* The order of unloading.  Who has registered with gnr goes before gnr, and
\* stats goes after it.
UnloadOrderInv ==
    tounload # NULL =>
       /\ Distinct(tounload)
       /\ \A i \in DOMAIN tounload : tounload[i] \in loaded
       /\ \A i \in DOMAIN tounload : tounload[i] \in Outputs \cup Listeners =>
             \E j \in DOMAIN tounload : i < j /\ tounload[j] = "gnr"
       /\ \A i \in DOMAIN tounload : tounload[i] = "stats" =>
             "gnr" \notin loaded \/ \E j \in DOMAIN tounload : j < i /\ tounload[j] = "gnr"

\* Handlers: each belongs to a loaded module and is where that module's
\* shutdown looks for it.
HandlersOwned(hs, ld) ==
    \A s \in Stage : \A i \in DOMAIN hs[s] :
       hs[s][i].module \in ld /\ StageOf(hs[s][i].module) = s

HandlerInv ==
    /\ HandlersOwned(handlers, loaded)
    /\ tounload = NULL => \A m \in Handles \cap loaded : Registered(m)

EventInv ==
    /\ \A i \in DOMAIN evhlist : evhlist[i] \in loaded
    /\ tounload = NULL => \A m \in Listeners \cap loaded : Listens(m)
    /\ evhfreed => "gnr" \notin loaded
    /\ ~history.stale

\* Tags: at most the methods in front and the output function behind them.
Rpi(methods) == [owner |-> "rpc", name |-> RPI, data |-> methods]
Out(m) == [owner |-> "gnr", name |-> OUTPUTFUNC, data |-> {m}]
Bare(m) == IF m \in Outputs THEN <<Out(m)>> ELSE <<>>
Offering(m) == IF m \in Outputs THEN <<Rpi(MethodsOf(m)), Out(m)>> ELSE <<Rpi(MethodsOf(m))>>

TagsWhenLoaded(list, m) == list = Offering(m) \/ (list = Bare(m) /\ MethodsOf(m) = {})
TagsLeft(list, m) == list = <<>> \/ list = <<Rpi(MethodsOf(m) \ Unregistered(m))>>

TagInv ==
    /\ DOMAIN taglists = Modules
    /\ \A m \in Modules :
          /\ m \in loaded => TagsWhenLoaded(taglists[m], m)
          /\ m \notin loaded => TagsLeft(taglists[m], m)
          /\ m \notin loaded /\ tounload = NULL => taglists[m] = <<>>

Stat(m) == [owner |-> m, name |-> StatOf(m)]
StatsOf(ld) ==
    IF "stats" \in ld
    THEN IF "gnr" \in ld THEN <<Stat("stats"), Stat("gnr")>> ELSE <<Stat("stats")>>
    ELSE IF "gnr" \in ld THEN <<Stat("gnr")>> ELSE <<>>
StatsInv == statslist = StatsOf(loaded)

RegInv ==
    /\ LoadOrderInv /\ UnloadOrderInv /\ HandlerInv /\ EventInv /\ TagInv /\ StatsInv

-----------------------------------------------------------------------------
(* The order of loading and unloading *)

\* The module list that -M gives.
LEMMA ModlistWithM ==
    ASSUME ModuleOption = "M"
    PROVE  /\ Len(modlist) = 12
           /\ modlist[1] = "timps-otr" /\ modlist[2] = "timps" /\ modlist[3] = "timps-logging"
           /\ modlist[4] = "timps-oscar" /\ modlist[5] = "gnr" /\ modlist[6] = "rpc"
           /\ modlist[7] = "stats" /\ modlist[8] = "net" /\ modlist[9] = "ipv4"
           /\ modlist[10] = "conn" /\ modlist[11] = "config" /\ modlist[12] = "core"
<1> DEFINE o == <<"timps-otr">>
           a == <<"timps", "timps-logging", "timps-oscar", "gnr">>
           b == <<"rpc", "stats", "net", "ipv4", "conn", "config", "core">>
           ab == a \o b
           r == o \o ab
           A == {"timps-otr", "timps", "timps-logging", "timps-oscar", "gnr", "rpc", "stats",
                 "net", "ipv4", "conn", "config", "core"}
<1>1. modlist = r
      BY DEF modlist, Residents
<1>2. /\ o \in Seq(A) /\ Len(o) = 1 /\ o[1] = "timps-otr"
      /\ a \in Seq(A) /\ Len(a) = 4
      /\ a[1] = "timps" /\ a[2] = "timps-logging" /\ a[3] = "timps-oscar" /\ a[4] = "gnr"
      OBVIOUS
<1>3. /\ b \in Seq(A) /\ Len(b) = 7
      /\ b[1] = "rpc" /\ b[2] = "stats" /\ b[3] = "net" /\ b[4] = "ipv4" /\ b[5] = "conn"
      /\ b[6] = "config" /\ b[7] = "core"
      OBVIOUS
<1> HIDE DEF o, a, b, A
<1>4. /\ ab \in Seq(A) /\ Len(ab) = 11
      /\ \A i \in 1 .. 4 : ab[i] = a[i]
      /\ \A i \in 1 .. 7 : ab[4 + i] = b[i]
    <2>1. a \in Seq(A) /\ b \in Seq(A) /\ Len(a) = 4 /\ Len(b) = 7
          BY <1>2, <1>3
    <2>2. /\ ab \in Seq(A) /\ Len(ab) = Len(a) + Len(b)
          /\ \A i \in 1 .. Len(a) : ab[i] = a[i]
          /\ \A i \in 1 .. Len(b) : ab[Len(a) + i] = b[i]
        <3>1. a \in Seq(A) /\ b \in Seq(A)
              BY <2>1
        <3>q. QED BY <3>1
    <2> HIDE DEF ab
    <2>q. QED BY <2>1, <2>2
<1> HIDE DEF ab
<1>5. /\ Len(r) = 12 /\ r[1] = o[1]
      /\ \A i \in 1 .. 11 : r[1 + i] = ab[i]
    <2>1. o \in Seq(A) /\ ab \in Seq(A) /\ Len(o) = 1 /\ Len(ab) = 11
          BY <1>2, <1>4
    <2>2. /\ Len(r) = Len(o) + Len(ab)
          /\ \A i \in 1 .. Len(o) : r[i] = o[i]
          /\ \A i \in 1 .. Len(ab) : r[Len(o) + i] = ab[i]
        <3>1. o \in Seq(A) /\ ab \in Seq(A)
              BY <2>1
        <3>q. QED BY <3>1
    <2> HIDE DEF r
    <2>q. QED BY <2>1, <2>2
<1> HIDE DEF r
<1>6. /\ ab[1] = "timps" /\ ab[2] = "timps-logging" /\ ab[3] = "timps-oscar" /\ ab[4] = "gnr"
      BY <1>2, <1>4
<1>7. /\ ab[4 + 1] = "rpc" /\ ab[4 + 2] = "stats" /\ ab[4 + 3] = "net" /\ ab[4 + 4] = "ipv4"
      /\ ab[4 + 5] = "conn" /\ ab[4 + 6] = "config" /\ ab[4 + 7] = "core"
      BY <1>3, <1>4
<1>8. /\ r[1 + 1] = ab[1] /\ r[1 + 2] = ab[2] /\ r[1 + 3] = ab[3] /\ r[1 + 4] = ab[4]
      /\ r[1 + 5] = ab[5] /\ r[1 + 6] = ab[6] /\ r[1 + 7] = ab[7] /\ r[1 + 8] = ab[8]
      /\ r[1 + 9] = ab[9] /\ r[1 + 10] = ab[10] /\ r[1 + 11] = ab[11]
      BY <1>5
<1>q. QED BY <1>1, <1>2, <1>5, <1>6, <1>7, <1>8

\* The walk of the list in the pass for a priority.
WalkWithM(g, pri) ==
    /\ g[0] = <<>> /\ LoadPass(pri) = g[12]
    /\ g[1] = IF pri = 0 THEN Append(g[0], "timps-otr") ELSE g[0]
    /\ g[2] = IF pri = 3 THEN Append(g[1], "timps") ELSE g[1]
    /\ g[3] = IF pri = 3 THEN Append(g[2], "timps-logging") ELSE g[2]
    /\ g[4] = IF pri = 3 THEN Append(g[3], "timps-oscar") ELSE g[3]
    /\ g[5] = IF pri = 4 THEN Append(g[4], "gnr") ELSE g[4]
    /\ g[6] = IF pri = 5 THEN Append(g[5], "rpc") ELSE g[5]
    /\ g[7] = IF pri = 3 THEN Append(g[6], "stats") ELSE g[6]
    /\ g[8] = IF pri = 5 THEN Append(g[7], "net") ELSE g[7]
    /\ g[9] = IF pri = 4 THEN Append(g[8], "ipv4") ELSE g[8]
    /\ g[10] = IF pri = 4 THEN Append(g[9], "conn") ELSE g[9]
    /\ g[11] = IF pri = 4 THEN Append(g[10], "config") ELSE g[10]
    /\ g[12] = IF pri = 3 THEN Append(g[11], "core") ELSE g[11]

\* What Append makes of a list, recognised by its length and its elements.
LEMMA AppendIs ==
    ASSUME NEW S, NEW s \in Seq(S), NEW t \in Seq(S), NEW e \in S, Len(t) = Len(s) + 1,
           \A i \in 1 .. Len(s) : t[i] = s[i], t[Len(s) + 1] = e
    PROVE  Append(s, e) = t
<1>1. /\ Append(s, e) \in Seq(S) /\ Len(Append(s, e)) = Len(s) + 1
      /\ \A i \in 1 .. Len(s) + 1 : Append(s, e)[i] = IF i = Len(s) + 1 THEN e ELSE s[i]
      OBVIOUS
<1>q. QED BY <1>1, SeqEqual

\* Append to a list of one element.
LEMMA AppendTo1 ==
    ASSUME NEW a, NEW b
    PROVE  Append(<<a>>, b) = <<a, b>>
<1> DEFINE S == {a, b}
           s == <<a>>
           t == <<a, b>>
<1>1. s \in Seq(S) /\ t \in Seq(S) /\ b \in S
      OBVIOUS
<1>2. Len(s) = 1 /\ Len(t) = 2 /\ t[2] = b /\ \A i \in 1 .. 1 : t[i] = s[i]
      OBVIOUS
<1> HIDE DEF S, s, t
<1>3. Len(t) = Len(s) + 1 /\ t[Len(s) + 1] = b /\ \A i \in 1 .. Len(s) : t[i] = s[i]
      BY <1>2
<1>4. Append(s, b) = t
      BY <1>1, <1>3, AppendIs
<1>q. QED BY <1>4 DEF s, t

\* Append to a list of two elements.
LEMMA AppendTo2 ==
    ASSUME NEW a, NEW b, NEW c
    PROVE  Append(<<a, b>>, c) = <<a, b, c>>
<1> DEFINE S == {a, b, c}
           s == <<a, b>>
           t == <<a, b, c>>
<1>1. s \in Seq(S) /\ t \in Seq(S) /\ c \in S
      OBVIOUS
<1>2. Len(s) = 2 /\ Len(t) = 3 /\ t[3] = c /\ \A i \in 1 .. 2 : t[i] = s[i]
      OBVIOUS
<1> HIDE DEF S, s, t
<1>3. Len(t) = Len(s) + 1 /\ t[Len(s) + 1] = c /\ \A i \in 1 .. Len(s) : t[i] = s[i]
      BY <1>2
<1>4. Append(s, c) = t
      BY <1>1, <1>3, AppendIs
<1>q. QED BY <1>4 DEF s, t

\* Append to a list of three.
LEMMA AppendTo3 ==
    ASSUME NEW a, NEW b, NEW c, NEW d
    PROVE  Append(<<a, b, c>>, d) = <<a, b, c, d>>
<1> DEFINE S == {a, b, c, d}
           s == <<a, b, c>>
           t == <<a, b, c, d>>
<1>1. s \in Seq(S) /\ t \in Seq(S) /\ d \in S
      OBVIOUS
<1>2. Len(s) = 3 /\ Len(t) = 4 /\ t[4] = d /\ \A i \in 1 .. 3 : t[i] = s[i]
      OBVIOUS
<1> HIDE DEF S, s, t
<1>3. Len(t) = Len(s) + 1 /\ t[Len(s) + 1] = d /\ \A i \in 1 .. Len(s) : t[i] = s[i]
      BY <1>2
<1>4. Append(s, d) = t
      BY <1>1, <1>3, AppendIs
<1>q. QED BY <1>4 DEF s, t

\* Append to a list of four.
LEMMA AppendTo4 ==
    ASSUME NEW a, NEW b, NEW c, NEW d, NEW e
    PROVE  Append(<<a, b, c, d>>, e) = <<a, b, c, d, e>>
<1> DEFINE S == {a, b, c, d, e}
           s == <<a, b, c, d>>
           t == <<a, b, c, d, e>>
<1>1. s \in Seq(S) /\ t \in Seq(S) /\ e \in S
      OBVIOUS
<1>2. Len(s) = 4 /\ Len(t) = 5 /\ t[5] = e /\ \A i \in 1 .. 4 : t[i] = s[i]
      OBVIOUS
<1> HIDE DEF S, s, t
<1>3. Len(t) = Len(s) + 1 /\ t[Len(s) + 1] = e /\ \A i \in 1 .. Len(s) : t[i] = s[i]
      BY <1>2
<1>4. Append(s, e) = t
      BY <1>1, <1>3, AppendIs
<1>q. QED BY <1>4 DEF s, t

\* What each pass of naf_module__loadall loads.
LEMMA PassesWithM ==
    ASSUME ModuleOption = "M"
    PROVE  /\ LoadPass(5) = <<"rpc", "net">>
           /\ LoadPass(4) = <<"gnr", "ipv4", "conn", "config">>
           /\ LoadPass(3) = <<"timps", "timps-logging", "timps-oscar", "stats", "core">>
           /\ LoadPass(0) = <<"timps-otr">>
<1> DEFINE P(pri) == {m \in Modules : startuppri(m) = pri}
<1>0. \A i \in 1 .. 12 : modlist[i] \in Modules
    <2>1. modlist \in Seq(Modules) /\ Len(modlist) = 12
          BY ModlistFacts, ModlistWithM
    <2>2. \A i \in 1 .. Len(modlist) : modlist[i] \in Modules
          BY ModlistFacts
    <2>q. QED BY <2>1, <2>2
<1>1. \A pri : \E g : AmongLoop(g, modlist, P(pri))
      BY ModlistFacts, AmongDefined
<1>p. /\ startuppri("timps-otr") = 0 /\ startuppri("timps") = 3
      /\ startuppri("timps-logging") = 3 /\ startuppri("timps-oscar") = 3
      /\ startuppri("gnr") = 4 /\ startuppri("rpc") = 5 /\ startuppri("stats") = 3
      /\ startuppri("net") = 5 /\ startuppri("ipv4") = 4 /\ startuppri("conn") = 4
      /\ startuppri("config") = 4 /\ startuppri("core") = 3
      BY DEF startuppri
<1>m. \A m \in {"timps-otr", "timps", "timps-logging", "timps-oscar", "gnr", "rpc", "stats",
                "net", "ipv4", "conn", "config", "core"} :
         m \in Modules /\ \A pri : m \in P(pri) <=> startuppri(m) = pri
      BY <1>0, ModlistWithM
<1>l. \A pri : LoadPass(pri) = Among(modlist, P(pri))
      BY DEF LoadPass
<1> HIDE DEF P
<1>2. ASSUME NEW pri, NEW g, AmongLoop(g, modlist, P(pri))
      PROVE  WalkWithM(g, pri)
    <2>1. \A i \in 1 .. 12 : g[i] = IF modlist[i] \in P(pri) THEN Append(g[i - 1], modlist[i])
                                                             ELSE g[i - 1]
          BY <1>2, ModlistWithM DEF AmongLoop
    <2>2. g[0] = <<>> /\ LoadPass(pri) = g[12]
          BY <1>2, <1>l, ModlistWithM DEF AmongLoop
    <2>3. ASSUME NEW i \in 1 .. 12, NEW j, NEW m, NEW p, j = i - 1, modlist[i] = m,
                 m \in P(pri) <=> p = pri
          PROVE  g[i] = IF pri = p THEN Append(g[j], m) ELSE g[j]
          BY <2>1, <2>3
    <2>4. /\ "timps-otr" \in P(pri) <=> 0 = pri
          /\ "timps" \in P(pri) <=> 3 = pri
          /\ "timps-logging" \in P(pri) <=> 3 = pri
          /\ "timps-oscar" \in P(pri) <=> 3 = pri
          /\ "gnr" \in P(pri) <=> 4 = pri
          /\ "rpc" \in P(pri) <=> 5 = pri
          /\ "stats" \in P(pri) <=> 3 = pri
          /\ "net" \in P(pri) <=> 5 = pri
          /\ "ipv4" \in P(pri) <=> 4 = pri
          /\ "conn" \in P(pri) <=> 4 = pri
          /\ "config" \in P(pri) <=> 4 = pri
          /\ "core" \in P(pri) <=> 3 = pri
          BY <1>m, <1>p
    <2>5. g[1] = IF pri = 0 THEN Append(g[0], "timps-otr") ELSE g[0]
          BY <2>3, <2>4, ModlistWithM
    <2>6. g[2] = IF pri = 3 THEN Append(g[1], "timps") ELSE g[1]
          BY <2>3, <2>4, ModlistWithM
    <2>7. g[3] = IF pri = 3 THEN Append(g[2], "timps-logging") ELSE g[2]
          BY <2>3, <2>4, ModlistWithM
    <2>8. g[4] = IF pri = 3 THEN Append(g[3], "timps-oscar") ELSE g[3]
          BY <2>3, <2>4, ModlistWithM
    <2>9. g[5] = IF pri = 4 THEN Append(g[4], "gnr") ELSE g[4]
          BY <2>3, <2>4, ModlistWithM
    <2>10. g[6] = IF pri = 5 THEN Append(g[5], "rpc") ELSE g[5]
          BY <2>3, <2>4, ModlistWithM
    <2>11. g[7] = IF pri = 3 THEN Append(g[6], "stats") ELSE g[6]
          BY <2>3, <2>4, ModlistWithM
    <2>12. g[8] = IF pri = 5 THEN Append(g[7], "net") ELSE g[7]
          BY <2>3, <2>4, ModlistWithM
    <2>13. g[9] = IF pri = 4 THEN Append(g[8], "ipv4") ELSE g[8]
          BY <2>3, <2>4, ModlistWithM
    <2>14. g[10] = IF pri = 4 THEN Append(g[9], "conn") ELSE g[9]
          BY <2>3, <2>4, ModlistWithM
    <2>15. g[11] = IF pri = 4 THEN Append(g[10], "config") ELSE g[10]
          BY <2>3, <2>4, ModlistWithM
    <2>16. g[12] = IF pri = 3 THEN Append(g[11], "core") ELSE g[11]
          BY <2>3, <2>4, ModlistWithM
    <2>q. QED BY <2>2, <2>5, <2>6, <2>7, <2>8, <2>9, <2>10, <2>11, <2>12, <2>13, <2>14, <2>15,
                 <2>16 DEF WalkWithM
<1>3. LoadPass(5) = <<"rpc", "net">>
    <2>1. PICK g : AmongLoop(g, modlist, P(5))
          BY <1>1
    <2>2. WalkWithM(g, 5)
          BY <1>2, <2>1, Zenon
    <2>n. 5 # 0 /\ 5 # 3 /\ 5 # 4
          OBVIOUS
    <2>3. /\ g[0] = <<>> /\ LoadPass(5) = g[12]
          /\ g[1] = g[0] /\ g[2] = g[1] /\ g[3] = g[2]
          /\ g[4] = g[3] /\ g[5] = g[4] /\ g[6] = Append(g[5], "rpc")
          /\ g[7] = g[6] /\ g[8] = Append(g[7], "net") /\ g[9] = g[8]
          /\ g[10] = g[9] /\ g[11] = g[10] /\ g[12] = g[11]
          BY <2>2, <2>n, Zenon DEF WalkWithM
    <2>4. Append(<<>>, "rpc") = <<"rpc">>
          OBVIOUS
    <2>5. Append(<<"rpc">>, "net") = <<"rpc", "net">>
          BY AppendTo1
    <2>q. QED BY <2>3, <2>4, <2>5, Zenon
<1>4. LoadPass(4) = <<"gnr", "ipv4", "conn", "config">>
    <2>1. PICK g : AmongLoop(g, modlist, P(4))
          BY <1>1
    <2>2. WalkWithM(g, 4)
          BY <1>2, <2>1, Zenon
    <2>n. 4 # 0 /\ 4 # 3 /\ 4 # 5
          OBVIOUS
    <2>3. /\ g[0] = <<>> /\ LoadPass(4) = g[12]
          /\ g[1] = g[0] /\ g[2] = g[1] /\ g[3] = g[2]
          /\ g[4] = g[3] /\ g[5] = Append(g[4], "gnr") /\ g[6] = g[5]
          /\ g[7] = g[6] /\ g[8] = g[7] /\ g[9] = Append(g[8], "ipv4")
          /\ g[10] = Append(g[9], "conn") /\ g[11] = Append(g[10], "config") /\ g[12] = g[11]
          BY <2>2, <2>n, Zenon DEF WalkWithM
    <2>4. Append(<<>>, "gnr") = <<"gnr">>
          OBVIOUS
    <2>5. Append(<<"gnr">>, "ipv4") = <<"gnr", "ipv4">>
          BY AppendTo1
    <2>6. Append(<<"gnr", "ipv4">>, "conn") = <<"gnr", "ipv4", "conn">>
          BY AppendTo2
    <2>7. Append(<<"gnr", "ipv4", "conn">>, "config") = <<"gnr", "ipv4", "conn", "config">>
          BY AppendTo3
    <2>q. QED BY <2>3, <2>4, <2>5, <2>6, <2>7, Zenon
<1>5. LoadPass(3) = <<"timps", "timps-logging", "timps-oscar", "stats", "core">>
    <2>1. PICK g : AmongLoop(g, modlist, P(3))
          BY <1>1
    <2>2. WalkWithM(g, 3)
          BY <1>2, <2>1, Zenon
    <2>n. 3 # 0 /\ 3 # 4 /\ 3 # 5
          OBVIOUS
    <2>3. /\ g[0] = <<>> /\ LoadPass(3) = g[12]
          /\ g[1] = g[0] /\ g[2] = Append(g[1], "timps") /\ g[3] = Append(g[2], "timps-logging")
          /\ g[4] = Append(g[3], "timps-oscar") /\ g[5] = g[4] /\ g[6] = g[5]
          /\ g[7] = Append(g[6], "stats") /\ g[8] = g[7] /\ g[9] = g[8]
          /\ g[10] = g[9] /\ g[11] = g[10] /\ g[12] = Append(g[11], "core")
          BY <2>2, <2>n, Zenon DEF WalkWithM
    <2>4. Append(<<>>, "timps") = <<"timps">>
          OBVIOUS
    <2>5. Append(<<"timps">>, "timps-logging") = <<"timps", "timps-logging">>
          BY AppendTo1
    <2>6. Append(<<"timps", "timps-logging">>, "timps-oscar") = <<"timps", "timps-logging", "timps-oscar">>
          BY AppendTo2
    <2>7. Append(<<"timps", "timps-logging", "timps-oscar">>, "stats")
             = <<"timps", "timps-logging", "timps-oscar", "stats">>
          BY AppendTo3
    <2>8. Append(<<"timps", "timps-logging", "timps-oscar", "stats">>, "core")
             = <<"timps", "timps-logging", "timps-oscar", "stats", "core">>
          BY AppendTo4
    <2>q. QED BY <2>3, <2>4, <2>5, <2>6, <2>7, <2>8, Zenon
<1>6. LoadPass(0) = <<"timps-otr">>
    <2>1. PICK g : AmongLoop(g, modlist, P(0))
          BY <1>1
    <2>2. WalkWithM(g, 0)
          BY <1>2, <2>1, Zenon
    <2>n. 0 # 3 /\ 0 # 4 /\ 0 # 5
          OBVIOUS
    <2>3. /\ g[0] = <<>> /\ LoadPass(0) = g[12]
          /\ g[1] = Append(g[0], "timps-otr") /\ g[2] = g[1] /\ g[3] = g[2]
          /\ g[4] = g[3] /\ g[5] = g[4] /\ g[6] = g[5]
          /\ g[7] = g[6] /\ g[8] = g[7] /\ g[9] = g[8]
          /\ g[10] = g[9] /\ g[11] = g[10] /\ g[12] = g[11]
          BY <2>2, <2>n, Zenon DEF WalkWithM
    <2>q. QED BY <2>3
<1>q. QED BY <1>3, <1>4, <1>5, <1>6

\* The modules in the order in which naf_module__loadall loads them.
LEMMA LoadallWithM ==
    ASSUME ModuleOption = "M"
    PROVE  /\ Len(naf_module__loadall) = 12
           /\ naf_module__loadall[1] = "rpc" /\ naf_module__loadall[2] = "net"
           /\ naf_module__loadall[3] = "gnr" /\ naf_module__loadall[4] = "ipv4"
           /\ naf_module__loadall[5] = "conn" /\ naf_module__loadall[6] = "config"
           /\ naf_module__loadall[7] = "timps" /\ naf_module__loadall[8] = "timps-logging"
           /\ naf_module__loadall[9] = "timps-oscar" /\ naf_module__loadall[10] = "stats"
           /\ naf_module__loadall[11] = "core" /\ naf_module__loadall[12] = "timps-otr"
<1> DEFINE a == <<"rpc", "net">>
           b == <<"gnr", "ipv4", "conn", "config">>
           c == <<"timps", "timps-logging", "timps-oscar", "stats", "core">>
           d == <<"timps-otr">>
           ab == a \o b
           abc == ab \o c
           r == abc \o d
           A == {"timps-otr", "timps", "timps-logging", "timps-oscar", "gnr", "rpc", "stats",
                 "net", "ipv4", "conn", "config", "core"}
<1>1. naf_module__loadall = r
      BY PassesWithM DEF naf_module__loadall
<1>2. /\ a \in Seq(A) /\ Len(a) = 2 /\ a[1] = "rpc" /\ a[2] = "net"
      /\ b \in Seq(A) /\ Len(b) = 4
      /\ b[1] = "gnr" /\ b[2] = "ipv4" /\ b[3] = "conn" /\ b[4] = "config"
      OBVIOUS
<1>3. /\ c \in Seq(A) /\ Len(c) = 5 /\ c[1] = "timps" /\ c[2] = "timps-logging"
      /\ c[3] = "timps-oscar" /\ c[4] = "stats" /\ c[5] = "core"
      /\ d \in Seq(A) /\ Len(d) = 1 /\ d[1] = "timps-otr"
      OBVIOUS
<1> HIDE DEF a, b, c, d, A
<1>4. /\ ab \in Seq(A) /\ Len(ab) = Len(a) + Len(b)
      /\ \A i \in 1 .. Len(a) : ab[i] = a[i]
      /\ \A i \in 1 .. Len(b) : ab[Len(a) + i] = b[i]
    <2>1. a \in Seq(A) /\ b \in Seq(A)
          BY <1>2
    <2>q. QED BY <2>1
<1> HIDE DEF ab
<1>5. /\ abc \in Seq(A) /\ Len(abc) = Len(ab) + Len(c)
      /\ \A i \in 1 .. Len(ab) : abc[i] = ab[i]
      /\ \A i \in 1 .. Len(c) : abc[Len(ab) + i] = c[i]
    <2>1. ab \in Seq(A) /\ c \in Seq(A)
          BY <1>3, <1>4
    <2>q. QED BY <2>1
<1> HIDE DEF abc
<1>6. /\ Len(r) = Len(abc) + Len(d)
      /\ \A i \in 1 .. Len(abc) : r[i] = abc[i]
      /\ \A i \in 1 .. Len(d) : r[Len(abc) + i] = d[i]
    <2>1. abc \in Seq(A) /\ d \in Seq(A)
          BY <1>3, <1>5
    <2>q. QED BY <2>1
<1> HIDE DEF r
<1>7. /\ Len(ab) = 6 /\ ab[1] = "rpc" /\ ab[2] = "net"
      /\ ab[2 + 1] = "gnr" /\ ab[2 + 2] = "ipv4" /\ ab[2 + 3] = "conn" /\ ab[2 + 4] = "config"
      BY <1>2, <1>4
<1>8. /\ Len(abc) = 11 /\ \A i \in 1 .. 6 : abc[i] = ab[i]
      /\ abc[6 + 1] = "timps" /\ abc[6 + 2] = "timps-logging" /\ abc[6 + 3] = "timps-oscar"
      /\ abc[6 + 4] = "stats" /\ abc[6 + 5] = "core"
      BY <1>3, <1>5, <1>7
<1>9. Len(r) = 12 /\ (\A i \in 1 .. 11 : r[i] = abc[i]) /\ r[11 + 1] = "timps-otr"
      BY <1>3, <1>6, <1>8
<1>10. /\ abc[1] = ab[1] /\ abc[2] = ab[2] /\ abc[3] = ab[3] /\ abc[4] = ab[4]
       /\ abc[5] = ab[5] /\ abc[6] = ab[6]
      BY <1>8
<1>11. /\ r[1] = abc[1] /\ r[2] = abc[2] /\ r[3] = abc[3] /\ r[4] = abc[4]
       /\ r[5] = abc[5] /\ r[6] = abc[6] /\ r[7] = abc[7] /\ r[8] = abc[8]
       /\ r[9] = abc[9] /\ r[10] = abc[10] /\ r[11] = abc[11]
      BY <1>9
<1>q. QED BY <1>1, <1>7, <1>8, <1>9, <1>10, <1>11

\* The modules.
LEMMA ModulesAre ==
    Modules = {"timps-otr", "timps", "timps-logging", "timps-oscar", "gnr", "rpc", "stats",
               "net", "ipv4", "conn", "config", "core"}
<1> DEFINE a == <<"timps", "timps-logging", "timps-oscar", "gnr">>
           b == <<"rpc", "stats", "net", "ipv4", "conn", "config", "core">>
           ab == a \o b
           A == {"timps", "timps-logging", "timps-oscar", "gnr", "rpc", "stats",
                 "net", "ipv4", "conn", "config", "core"}
<1>1. Modules = {ab[i] : i \in DOMAIN ab} \cup {"timps-otr"}
      BY DEF Modules, Residents, ToSet
<1>2. /\ a \in Seq(A) /\ Len(a) = 4
      /\ a[1] = "timps" /\ a[2] = "timps-logging" /\ a[3] = "timps-oscar" /\ a[4] = "gnr"
      OBVIOUS
<1>3. /\ b \in Seq(A) /\ Len(b) = 7
      /\ b[1] = "rpc" /\ b[2] = "stats" /\ b[3] = "net" /\ b[4] = "ipv4" /\ b[5] = "conn"
      /\ b[6] = "config" /\ b[7] = "core"
      OBVIOUS
<1> HIDE DEF a, b
<1>4. /\ ab \in Seq(A) /\ Len(ab) = Len(a) + Len(b)
      /\ \A i \in 1 .. Len(a) : ab[i] = a[i]
      /\ \A i \in 1 .. Len(b) : ab[Len(a) + i] = b[i]
    <2> HIDE DEF A
    <2>1. a \in Seq(A) /\ b \in Seq(A)
          BY <1>2, <1>3
    <2>q. QED BY <2>1
<1> HIDE DEF ab
<1>5. DOMAIN ab = 1 .. 11
    <2> HIDE DEF A
    <2>1. ab \in Seq(A) /\ Len(ab) = 11
          BY <1>2, <1>3, <1>4
    <2>q. QED BY <2>1
<1>6. /\ ab[1] = "timps" /\ ab[2] = "timps-logging" /\ ab[3] = "timps-oscar" /\ ab[4] = "gnr"
    <2> HIDE DEF A
    <2>q. QED BY <1>2, <1>4
<1>7. /\ ab[4 + 1] = "rpc" /\ ab[4 + 2] = "stats" /\ ab[4 + 3] = "net" /\ ab[4 + 4] = "ipv4"
      /\ ab[4 + 5] = "conn" /\ ab[4 + 6] = "config" /\ ab[4 + 7] = "core"
    <2> HIDE DEF A
    <2>q. QED BY <1>2, <1>3, <1>4
<1>8. {ab[i] : i \in DOMAIN ab} \subseteq A
      BY <1>4
<1>9. \A m \in A : \E i \in DOMAIN ab : ab[i] = m
      BY <1>5, <1>6, <1>7
<1>q. QED BY <1>1, <1>8, <1>9

\* The order that LoadOrderInv asks for.
LEMMA LoadallInOrder ==
    ASSUME ModuleOption = "M"
    PROVE  LET l == naf_module__loadall
           IN  /\ Distinct(l)
               /\ \A m \in Modules : InList(l, m)
               /\ \A i \in DOMAIN l : l[i] = "rpc" => i = 1
               /\ \A i, j \in DOMAIN l : l[i] = "gnr" /\ l[j] \in Later => i < j
<1> DEFINE l == naf_module__loadall
<1>1. l \in Seq(Modules)
      BY LoadOrder
<1>2. /\ Len(l) = 12 /\ l[1] = "rpc" /\ l[2] = "net" /\ l[3] = "gnr" /\ l[4] = "ipv4"
      /\ l[5] = "conn" /\ l[6] = "config" /\ l[7] = "timps" /\ l[8] = "timps-logging"
      /\ l[9] = "timps-oscar" /\ l[10] = "stats" /\ l[11] = "core" /\ l[12] = "timps-otr"
      BY LoadallWithM
<1> HIDE DEF l
<1>3. DOMAIN l = 1 .. 12
      BY <1>1, <1>2
<1>4. \A i \in 1 .. 12 : \/ i = 1 \/ i = 2 \/ i = 3 \/ i = 4 \/ i = 5 \/ i = 6 \/ i = 7
                         \/ i = 8 \/ i = 9 \/ i = 10 \/ i = 11 \/ i = 12
      OBVIOUS
<1>5. Distinct(l)
      BY <1>2, <1>3, <1>4 DEF Distinct
<1>6. \A m \in Modules : InList(l, m)
      BY <1>2, <1>3, ModulesAre DEF InList
<1>7. \A i \in DOMAIN l : (l[i] = "rpc" => i = 1) /\ (l[i] = "gnr" => i = 3)
      BY <1>2, <1>3, <1>4
<1>8. \A j \in DOMAIN l : l[j] \in Later => 3 < j
      BY <1>2, <1>3, <1>4 DEF Later, Handles
<1>q. QED BY <1>5, <1>6, <1>7, <1>8 DEF l

\* The order that UnloadOrderInv asks for.
LEMMA ModlistInOrder ==
    ASSUME ModuleOption = "M"
    PROVE  /\ Distinct(modlist)
           /\ \A i \in DOMAIN modlist : modlist[i] \in Outputs \cup Listeners =>
                 \E j \in DOMAIN modlist : i < j /\ modlist[j] = "gnr"
           /\ \A i \in DOMAIN modlist : modlist[i] = "stats" =>
                 \E j \in DOMAIN modlist : j < i /\ modlist[j] = "gnr"
<1> DEFINE l == modlist
<1>1. l \in Seq(Modules)
      BY ModlistFacts
<1>2. /\ Len(l) = 12 /\ l[1] = "timps-otr" /\ l[2] = "timps" /\ l[3] = "timps-logging"
      /\ l[4] = "timps-oscar" /\ l[5] = "gnr" /\ l[6] = "rpc" /\ l[7] = "stats" /\ l[8] = "net"
      /\ l[9] = "ipv4" /\ l[10] = "conn" /\ l[11] = "config" /\ l[12] = "core"
      BY ModlistWithM
<1> HIDE DEF l
<1>3. DOMAIN l = 1 .. 12
      BY <1>1, <1>2
<1>4. \A i \in 1 .. 12 : \/ i = 1 \/ i = 2 \/ i = 3 \/ i = 4 \/ i = 5 \/ i = 6 \/ i = 7
                         \/ i = 8 \/ i = 9 \/ i = 10 \/ i = 11 \/ i = 12
      OBVIOUS
<1>5. Distinct(l)
      BY <1>2, <1>3, <1>4 DEF Distinct
<1>6. \A i \in DOMAIN l : l[i] \in Outputs \cup Listeners => i < 5
      BY <1>2, <1>3, <1>4 DEF Outputs, Listeners
<1>7. \A i \in DOMAIN l : l[i] = "stats" => 5 < i
      BY <1>2, <1>3, <1>4
<1>8. 5 \in DOMAIN l /\ l[5] = "gnr"
      BY <1>2, <1>3
<1>q. QED BY <1>5, <1>6, <1>7, <1>8 DEF l

\* Nothing is loaded and nothing registered.
LEMMA InitReg ==
    ASSUME ModuleOption = "M", Init
    PROVE  RegInv
<1>1. /\ toload = naf_module__loadall /\ tounload = NULL /\ loaded = {}
      /\ handlers = NoHandlers /\ taglists = [m \in Modules |-> <<>>] /\ statslist = <<>>
      /\ evhlist = <<>> /\ evhfreed = FALSE
      BY DEF Init
<1>2. ~history.stale
      BY DEF Init
<1>3. LoadOrderInv
      BY <1>1, LoadallInOrder DEF LoadOrderInv
<1>4. UnloadOrderInv
      BY <1>1 DEF UnloadOrderInv
<1>5. HandlerInv
      BY <1>1 DEF HandlerInv, HandlersOwned, NoHandlers
<1>6. EventInv
      BY <1>1, <1>2 DEF EventInv
<1>7. TagInv
      BY <1>1 DEF TagInv, TagsLeft
<1>8. StatsInv
      BY <1>1 DEF StatsInv, StatsOf
<1>q. QED BY <1>3, <1>4, <1>5, <1>6, <1>7, <1>8 DEF RegInv

-----------------------------------------------------------------------------
(* Tag lists *)

\* NULL is none of the things a tag holds or belongs to.
LEMMA TagNulls ==
    /\ NULL # "rpc" /\ NULL # "gnr" /\ NULL # {}
    /\ \A m \in Modules : NULL # {m} /\ NULL # MethodsOf(m)
<1>1. "rpc" \in Modules /\ "gnr" \in Modules
      BY ModulesAre
<1>q. QED BY <1>1, NullFacts, DataAssumption

\* The smallest number of a set with one member.
LEMMA MinOne ==
    ASSUME NEW n \in Nat
    PROVE  Min({n}) = n
BY DEF Min

\* A tag in front of none and of one.
LEMMA Prepended ==
    ASSUME NEW a, NEW b
    PROVE  <<a>> \o <<>> = <<a>> /\ <<a>> \o <<b>> = <<a, b>>
<1> DEFINE S == {a, b}
           x == <<a>> \o <<b>>
           y == <<a, b>>
<1>1. <<a>> \in Seq(S) /\ <<b>> \in Seq(S) /\ y \in Seq(S) /\ Len(y) = 2 /\ y[1] = a /\ y[2] = b
      OBVIOUS
<1>2. <<a>> \o <<>> = <<a>>
    <2> HIDE DEF S
    <2>1. \A s \in Seq(S) : s \o <<>> = s
          BY ConcatEmptySeq
    <2>q. QED BY <1>1, <2>1
<1>3. x \in Seq(S)
    <2> HIDE DEF S
    <2>q. QED BY <1>1, ConcatProperties
<1>4. Len(x) = 2 /\ x[1] = a /\ x[2] = b
      OBVIOUS
<1> HIDE DEF S, x, y
<1>5. x = y
    <2>1. \A i \in 1 .. 2 : i = 1 \/ i = 2
          OBVIOUS
    <2>2. \A i \in 1 .. 2 : x[i] = y[i]
          BY <1>1, <1>4, <2>1
    <2>q. QED BY <1>1, <1>3, <1>4, <2>2, SeqEqual
<1>q. QED BY <1>2, <1>5 DEF x, y

\* The first and the second of two taken away.
LEMMA RemovedSecond ==
    ASSUME NEW a, NEW b
    PROVE  RemoveAt(<<a, b>>, 2) = <<a>>
<1> DEFINE l == <<a, b>>
           S == {a, b}
<1>0. l \in Seq(S) /\ <<a>> \in Seq(S) /\ Len(<<a>>) = 1 /\ <<a>>[1] = a /\ Len(l) = 2 /\ l[1] = a
      OBVIOUS
<1>1. SubSeq(<<a, b>>, 1, 2 - 1) = <<a>>
    <2> DEFINE t == SubSeq(l, 1, 1)
               o == <<a>>
    <2>1. o \in Seq(S) /\ Len(o) = 1 /\ o[1] = a
          BY <1>0
    <2> HIDE DEF S, l, o
    <2>2. t \in Seq(S) /\ Len(t) = 1 /\ t[1] = l[1]
          BY <1>0
    <2> HIDE DEF t
    <2>3. t = o
          BY <1>0, <2>1, <2>2, SeqEqual
    <2>4. 2 - 1 = 1
          OBVIOUS
    <2>q. QED BY <2>3, <2>4 DEF t, o, l
<1>2. SubSeq(<<a, b>>, 2 + 1, Len(<<a, b>>)) = <<>>
    <2> HIDE DEF S, l
    <2>1. SubSeq(l, 2 + 1, Len(l)) = <<>>
          BY <1>0
    <2>q. QED BY <2>1 DEF l
<1>3. RemoveAt(<<a, b>>, 2) = SubSeq(<<a, b>>, 1, 2 - 1) \o SubSeq(<<a, b>>, 2 + 1, Len(<<a, b>>))
      BY DEF RemoveAt
<1>q. QED BY <1>1, <1>2, <1>3, Prepended

\* A list that has the methods of a module, alone or before an output
\* function: a search by rpc, or without an owner, finds them.
LEMMA MethodsThere ==
    ASSUME NEW m, NEW methods, NEW mod \in {"rpc", NULL},
           NEW list \in {<<Rpi(methods)>>, <<Rpi(methods), Out(m)>>}
    PROVE  /\ Found(list, mod, RPI) = 1
           /\ naf_tag_fetch(list, mod, RPI) = methods
<1>1. /\ 1 \in DOMAIN list /\ list[1] = Rpi(methods)
      /\ \A i \in DOMAIN list : i = 1 \/ list[i] = Out(m)
      OBVIOUS
<1>2. /\ Rpi(methods).name = RPI /\ Rpi(methods).owner = "rpc" /\ Rpi(methods).data = methods
      /\ Out(m).name # RPI
      BY DEF Rpi, Out, RPI, OUTPUTFUNC
<1>3. Fetchable(list, mod, RPI) = {1}
    <2> HIDE DEF Rpi, Out
    <2>q. QED BY <1>1, <1>2 DEF Fetchable
<1>4. Found(list, mod, RPI) = 1
      BY <1>3, MinOne DEF Found
<1>q. QED BY <1>1, <1>2, <1>3, <1>4 DEF naf_tag_fetch

\* A list that has none.
LEMMA MethodsMissing ==
    ASSUME NEW m, NEW mod, NEW list \in {<<>>, <<Out(m)>>}
    PROVE  naf_tag_fetch(list, mod, RPI) = NULL /\ ~naf_tag_ispresent(list, mod, RPI)
<1>1. \A i \in DOMAIN list : list[i] = Out(m)
      OBVIOUS
<1>2. Out(m).name # RPI
      BY DEF Out, RPI, OUTPUTFUNC
<1>3. Fetchable(list, mod, RPI) = {}
      BY <1>1, <1>2 DEF Fetchable
<1>q. QED BY <1>1, <1>2, <1>3 DEF naf_tag_fetch, naf_tag_ispresent, IsTag

\* fetchinfo leaves a list with methods alone and adds an empty set to one
\* without.
LEMMA FetchinfoFacts ==
    ASSUME NEW m, NEW methods, methods # NULL, NEW mod \in {"rpc", NULL}
    PROVE  /\ fetchinfo(<<Rpi(methods)>>, mod) = <<Rpi(methods)>>
           /\ fetchinfo(<<Rpi(methods), Out(m)>>, mod) = <<Rpi(methods), Out(m)>>
           /\ fetchinfo(<<>>, "rpc") = <<Rpi({})>>
           /\ fetchinfo(<<Out(m)>>, "rpc") = <<Rpi({}), Out(m)>>
<1>1. /\ naf_tag_fetch(<<Rpi(methods)>>, mod, RPI) = methods
      /\ naf_tag_fetch(<<Rpi(methods), Out(m)>>, mod, RPI) = methods
      BY MethodsThere
<1>2. /\ naf_tag_fetch(<<>>, "rpc", RPI) = NULL /\ ~naf_tag_ispresent(<<>>, "rpc", RPI)
      /\ naf_tag_fetch(<<Out(m)>>, "rpc", RPI) = NULL /\ ~naf_tag_ispresent(<<Out(m)>>, "rpc", RPI)
      BY MethodsMissing
<1>3. \A list : /\ naf_tag_fetch(list, "rpc", RPI) = NULL
                /\ ~naf_tag_ispresent(list, "rpc", RPI)
                => fetchinfo(list, "rpc") = <<Rpi({})>> \o list
      BY TagNulls DEF fetchinfo, naf_tag_add, Rpi
<1>4. <<Rpi({})>> \o <<>> = <<Rpi({})>> /\ <<Rpi({})>> \o <<Out(m)>> = <<Rpi({}), Out(m)>>
    <2> DEFINE a == Rpi({})
               b == Out(m)
    <2> HIDE DEF a, b
    <2>1. <<a>> \o <<>> = <<a>> /\ <<a>> \o <<b>> = <<a, b>>
          BY Prepended
    <2>q. QED BY <2>1 DEF a, b
<1>5. /\ fetchinfo(<<Rpi(methods)>>, mod) = <<Rpi(methods)>>
      /\ fetchinfo(<<Rpi(methods), Out(m)>>, mod) = <<Rpi(methods), Out(m)>>
      BY <1>1 DEF fetchinfo
<1>6. /\ fetchinfo(<<>>, "rpc") = <<Rpi({})>>
      /\ fetchinfo(<<Out(m)>>, "rpc") = <<Rpi({}), Out(m)>>
      BY <1>2, <1>3, <1>4
<1>q. QED BY <1>5, <1>6

\* The methods of a list replaced by others.
LEMMA MethodsSet ==
    ASSUME NEW m, NEW methods, NEW new
    PROVE  /\ [<<Rpi(methods)>> EXCEPT ![1].data = new] = <<Rpi(new)>>
           /\ [<<Rpi(methods), Out(m)>> EXCEPT ![1].data = new] = <<Rpi(new), Out(m)>>
<1> DEFINE a == Rpi(methods)
           b == [a EXCEPT !.data = new]
           c == Out(m)
<1>1. b = Rpi(new)
      BY DEF Rpi
<1>2. [<<a>> EXCEPT ![1].data = new] = [<<a>> EXCEPT ![1] = b]
      OBVIOUS
<1>3. [<<a, c>> EXCEPT ![1].data = new] = [<<a, c>> EXCEPT ![1] = b]
      OBVIOUS
<1> HIDE DEF a, b, c
<1>4. \A x, y, z : [<<x>> EXCEPT ![1] = y] = <<y>> /\ [<<x, z>> EXCEPT ![1] = y] = <<y, z>>
      OBVIOUS
<1>q. QED BY <1>1, <1>2, <1>3, <1>4 DEF a, c

\* naf_rpc_register_method on a list without methods, when rpc is loaded.
LEMMA MethodsRegistered ==
    ASSUME NEW m, NEW methods, methods # {}
    PROVE  /\ naf_rpc_register_method(<<>>, "rpc", methods) = <<Rpi(methods)>>
           /\ naf_rpc_register_method(<<Out(m)>>, "rpc", methods) = <<Rpi(methods), Out(m)>>
<1>1. /\ fetchinfo(<<>>, "rpc") = <<Rpi({})>>
      /\ fetchinfo(<<Out(m)>>, "rpc") = <<Rpi({}), Out(m)>>
      BY TagNulls, FetchinfoFacts
<1>2. /\ Found(<<Rpi({})>>, "rpc", RPI) = 1 /\ naf_tag_fetch(<<Rpi({})>>, "rpc", RPI) = {}
      /\ Found(<<Rpi({}), Out(m)>>, "rpc", RPI) = 1
      /\ naf_tag_fetch(<<Rpi({}), Out(m)>>, "rpc", RPI) = {}
      BY MethodsThere
<1>3. Methods(<<>>, "rpc") = {} /\ Methods(<<Out(m)>>, "rpc") = {}
      BY <1>1, <1>2 DEF Methods
<1>4. \A list : Methods(list, "rpc") = {} =>
         naf_rpc_register_method(list, "rpc", methods) = SetMethods(list, "rpc", methods)
      BY TagNulls DEF naf_rpc_register_method
<1>5. /\ SetMethods(<<>>, "rpc", methods) = [<<Rpi({})>> EXCEPT ![1].data = methods]
      /\ SetMethods(<<Out(m)>>, "rpc", methods) = [<<Rpi({}), Out(m)>> EXCEPT ![1].data = methods]
      BY <1>1, <1>2 DEF SetMethods
<1>q. QED BY <1>3, <1>4, <1>5, MethodsSet

\* naf_rpc_unregister_method of all methods of a list, with rpc or when it is
\* gone.
LEMMA MethodsUnregistered ==
    ASSUME NEW m, NEW methods, methods # NULL, methods # {}, NEW mod \in {"rpc", NULL}
    PROVE  /\ naf_rpc_unregister_method(<<Rpi(methods)>>, mod, methods) = <<Rpi({})>>
           /\ naf_rpc_unregister_method(<<Rpi(methods), Out(m)>>, mod, methods) = <<Rpi({}), Out(m)>>
<1>1. /\ fetchinfo(<<Rpi(methods)>>, mod) = <<Rpi(methods)>>
      /\ fetchinfo(<<Rpi(methods), Out(m)>>, mod) = <<Rpi(methods), Out(m)>>
      BY FetchinfoFacts
<1>2. /\ Found(<<Rpi(methods)>>, mod, RPI) = 1 /\ naf_tag_fetch(<<Rpi(methods)>>, mod, RPI) = methods
      /\ Found(<<Rpi(methods), Out(m)>>, mod, RPI) = 1
      /\ naf_tag_fetch(<<Rpi(methods), Out(m)>>, mod, RPI) = methods
      BY MethodsThere
<1>3. Methods(<<Rpi(methods)>>, mod) = methods /\ Methods(<<Rpi(methods), Out(m)>>, mod) = methods
      BY <1>1, <1>2 DEF Methods
<1>4. \A list : Methods(list, mod) = methods =>
         naf_rpc_unregister_method(list, mod, methods) = SetMethods(list, mod, {})
    <2>1. methods \ methods = {}
          OBVIOUS
    <2>q. QED BY <2>1, Zenon DEF naf_rpc_unregister_method
<1>5. /\ SetMethods(<<Rpi(methods)>>, mod, {}) = [<<Rpi(methods)>> EXCEPT ![1].data = {}]
      /\ SetMethods(<<Rpi(methods), Out(m)>>, mod, {})
            = [<<Rpi(methods), Out(m)>> EXCEPT ![1].data = {}]
      BY <1>1, <1>2 DEF SetMethods
<1>q. QED BY <1>3, <1>4, <1>5, MethodsSet

\* The output function: found by gnr where it is, and taken away by gnr.
LEMMA OutputFacts ==
    ASSUME NEW m, NEW methods
    PROVE  /\ naf_tag_fetch(<<Out(m)>>, "gnr", OUTPUTFUNC) = {m}
           /\ naf_tag_fetch(<<Rpi(methods), Out(m)>>, "gnr", OUTPUTFUNC) = {m}
           /\ naf_tag_remove(<<Out(m)>>, "gnr", OUTPUTFUNC) = <<>>
           /\ naf_tag_remove(<<Rpi(methods), Out(m)>>, "gnr", OUTPUTFUNC) = <<Rpi(methods)>>
           /\ ~naf_tag_ispresent(<<>>, "gnr", OUTPUTFUNC)
           /\ ~naf_tag_ispresent(<<Rpi(methods)>>, "gnr", OUTPUTFUNC)
<1> DEFINE a == Rpi(methods)
           b == Out(m)
<1>1. /\ a.name # OUTPUTFUNC /\ b.name = OUTPUTFUNC /\ b.owner = "gnr" /\ b.data = {m}
      BY DEF Rpi, Out, RPI, OUTPUTFUNC
<1> HIDE DEF a, b
<1>2. /\ Fetchable(<<b>>, "gnr", OUTPUTFUNC) = {1}
      /\ {i \in DOMAIN <<b>> : IsTag(<<b>>[i], "gnr", OUTPUTFUNC)} = {1}
      BY <1>1, TagNulls DEF Fetchable, IsTag
<1>3. /\ Fetchable(<<a, b>>, "gnr", OUTPUTFUNC) = {2}
      /\ {i \in DOMAIN <<a, b>> : IsTag(<<a, b>>[i], "gnr", OUTPUTFUNC)} = {2}
    <2>1. /\ DOMAIN <<a, b>> = 1 .. 2 /\ <<a, b>>[1] = a /\ <<a, b>>[2] = b
          OBVIOUS
    <2>2. \A i \in 1 .. 2 : i = 1 \/ i = 2
          OBVIOUS
    <2>q. QED BY <1>1, <2>1, <2>2, TagNulls DEF Fetchable, IsTag
<1>4. Min({1}) = 1 /\ Min({2}) = 2
      BY MinOne
<1>5. naf_tag_fetch(<<b>>, "gnr", OUTPUTFUNC) = {m}
      BY <1>1, <1>2, <1>4 DEF naf_tag_fetch, Found
<1>6. naf_tag_fetch(<<a, b>>, "gnr", OUTPUTFUNC) = {m}
      BY <1>1, <1>3, <1>4 DEF naf_tag_fetch, Found
<1>7. naf_tag_remove(<<b>>, "gnr", OUTPUTFUNC) = <<>>
    <2>1. naf_tag_ispresent(<<b>>, "gnr", OUTPUTFUNC)
          BY <1>2 DEF naf_tag_ispresent
    <2>2. RemoveAt(<<b>>, 1) = <<>>
          BY DEF RemoveAt
    <2>q. QED BY <1>2, <1>4, <2>1, <2>2, TagNulls DEF naf_tag_remove
<1>8. naf_tag_remove(<<a, b>>, "gnr", OUTPUTFUNC) = <<a>>
    <2>1. naf_tag_ispresent(<<a, b>>, "gnr", OUTPUTFUNC)
          BY <1>3 DEF naf_tag_ispresent
    <2>2. RemoveAt(<<a, b>>, 2) = <<a>>
          BY RemovedSecond
    <2>q. QED BY <1>3, <1>4, <2>1, <2>2, TagNulls DEF naf_tag_remove
<1>9. ~naf_tag_ispresent(<<>>, "gnr", OUTPUTFUNC) /\ ~naf_tag_ispresent(<<a>>, "gnr", OUTPUTFUNC)
      BY <1>1 DEF naf_tag_ispresent, IsTag
<1>q. QED BY <1>5, <1>6, <1>7, <1>8, <1>9 DEF a, b

\* The tags that the init of a module makes on it, once rpc and, for a module
\* with an output function, gnr are loaded.
LEMMA TagsMade ==
    ASSUME NEW m \in Modules, NEW ld, "rpc" \in ld, m \in Outputs => "gnr" \in ld
    PROVE  TagsWhenLoaded(naf_rpc_register_method(gnr_msg_register(<<>>, m, ld), rpc__module(ld),
                                                  MethodsOf(m)), m)
<1>1. rpc__module(ld) = "rpc"
      BY DEF rpc__module
<1>2. gnr_msg_register(<<>>, m, ld) = Bare(m)
    <2>1. CASE m \in Outputs
        <3>1. gnr__module(ld) = "gnr"
              BY <2>1 DEF gnr__module
        <3>2. naf_tag_add(<<>>, "gnr", OUTPUTFUNC, {m}) = <<Out(m)>> \o <<>>
              BY TagNulls, OutputFacts DEF naf_tag_add, Out
        <3>3. <<Out(m)>> \o <<>> = <<Out(m)>>
              BY Prepended
        <3>q. QED BY <2>1, <3>1, <3>2, <3>3 DEF gnr_msg_register, Bare
    <2>2. CASE m \notin Outputs
          BY <2>2 DEF gnr_msg_register, Bare
    <2>q. QED BY <2>1, <2>2
<1>3. CASE MethodsOf(m) = {}
      BY <1>1, <1>2, <1>3 DEF naf_rpc_register_method, TagsWhenLoaded
<1>4. CASE MethodsOf(m) # {}
    <2>1. naf_rpc_register_method(Bare(m), "rpc", MethodsOf(m)) = Offering(m)
          BY <1>4, MethodsRegistered DEF Bare, Offering
    <2>q. QED BY <1>1, <1>2, <2>1 DEF TagsWhenLoaded
<1>q. QED BY <1>3, <1>4

\* The forms of the tag list of a loaded module.
LEMMA LoadedLists ==
    ASSUME NEW m, NEW list, TagsWhenLoaded(list, m)
    PROVE  \/ list = <<Rpi(MethodsOf(m)), Out(m)>> /\ m \in Outputs
           \/ list = <<Rpi(MethodsOf(m))>> /\ m \notin Outputs
           \/ list = <<Out(m)>> /\ m \in Outputs /\ MethodsOf(m) = {}
           \/ list = <<>> /\ m \notin Outputs /\ MethodsOf(m) = {}
BY DEF TagsWhenLoaded, Offering, Bare

\* A request for a method may add an empty set of methods.
LEMMA TagsAsked ==
    ASSUME NEW m \in Modules, NEW list, TagsWhenLoaded(list, m)
    PROVE  /\ TagsWhenLoaded(fetchinfo(list, "rpc"), m)
           /\ Methods(list, "rpc") = MethodsOf(m)
<1> DEFINE D == MethodsOf(m)
<1>1. D # NULL
      BY TagNulls
<1>2. /\ fetchinfo(<<Rpi(D)>>, "rpc") = <<Rpi(D)>>
      /\ fetchinfo(<<Rpi(D), Out(m)>>, "rpc") = <<Rpi(D), Out(m)>>
      /\ fetchinfo(<<>>, "rpc") = <<Rpi({})>>
      /\ fetchinfo(<<Out(m)>>, "rpc") = <<Rpi({}), Out(m)>>
    <2> HIDE DEF D
    <2>1. /\ fetchinfo(<<Rpi(D)>>, "rpc") = <<Rpi(D)>>
          /\ fetchinfo(<<Rpi(D), Out(m)>>, "rpc") = <<Rpi(D), Out(m)>>
          BY <1>1, FetchinfoFacts
    <2>2. /\ fetchinfo(<<>>, "rpc") = <<Rpi({})>>
          /\ fetchinfo(<<Out(m)>>, "rpc") = <<Rpi({}), Out(m)>>
          BY TagNulls, FetchinfoFacts
    <2>q. QED BY <2>1, <2>2
<1>3. fetchinfo(list, "rpc") = Offering(m)
      BY <1>2, LoadedLists DEF Offering
<1>4. naf_tag_fetch(Offering(m), "rpc", RPI) = D
      BY MethodsThere DEF Offering
<1>q. QED BY <1>3, <1>4 DEF TagsWhenLoaded, Methods

\* The output function of a loaded module is found.
LEMMA OutputFound ==
    ASSUME NEW m \in Outputs, NEW list, TagsWhenLoaded(list, m)
    PROVE  naf_tag_fetch(list, "gnr", OUTPUTFUNC) = {m}
BY LoadedLists, OutputFacts

\* What the shutdown of a module leaves of its tags, with rpc or when it is
\* gone.
LEMMA TagsTakenBack ==
    ASSUME NEW m \in Modules, NEW list, TagsWhenLoaded(list, m), NEW mod \in {"rpc", NULL},
           m \in Outputs => "gnr" \in loaded
    PROVE  TagsLeft(gnr_msg_unregister(naf_rpc_unregister_method(list, mod, Unregistered(m)), m), m)
<1> DEFINE D == MethodsOf(m)
           kept == D \ Unregistered(m)
           l == naf_rpc_unregister_method(list, mod, Unregistered(m))
<1>1. D # NULL
      BY TagNulls
<1>2. \/ m \in Outputs /\ l = <<Rpi(kept), Out(m)>>
      \/ m \notin Outputs /\ l = <<Rpi(kept)>>
      \/ m \in Outputs /\ l = <<Out(m)>>
      \/ m \notin Outputs /\ l = <<>>
    <2>1. CASE Unregistered(m) = {}
        <3>1. l = list
              BY <2>1 DEF naf_rpc_unregister_method
        <3>2. kept = D
              BY <2>1
        <3>q. QED BY <3>1, <3>2, LoadedLists
    <2>2. CASE Unregistered(m) # {}
        <3>1. Unregistered(m) = D
              BY <2>2 DEF Unregistered
        <3>2. kept = {} /\ D # {}
              BY <2>2, <3>1
        <3>3. /\ naf_rpc_unregister_method(<<Rpi(D)>>, mod, D) = <<Rpi({})>>
              /\ naf_rpc_unregister_method(<<Rpi(D), Out(m)>>, mod, D) = <<Rpi({}), Out(m)>>
              BY <1>1, <3>2, MethodsUnregistered
        <3> HIDE DEF kept
        <3>q. QED BY <3>1, <3>2, <3>3, LoadedLists
    <2>q. QED BY <2>1, <2>2
<1> HIDE DEF l, kept
<1>3. CASE m \in Outputs
    <2>1. gnr_msg_unregister(l, m) = naf_tag_remove(l, "gnr", OUTPUTFUNC)
          BY <1>3 DEF gnr_msg_unregister, gnr__module
    <2>2. naf_tag_remove(l, "gnr", OUTPUTFUNC) \in {<<>>, <<Rpi(kept)>>}
        <3>1. /\ naf_tag_remove(<<Out(m)>>, "gnr", OUTPUTFUNC) = <<>>
              /\ naf_tag_remove(<<Rpi(kept), Out(m)>>, "gnr", OUTPUTFUNC) = <<Rpi(kept)>>
              BY OutputFacts
        <3>2. l = <<Out(m)>> \/ l = <<Rpi(kept), Out(m)>>
              BY <1>2, <1>3
        <3>q. QED BY <3>1, <3>2
    <2>q. QED BY <2>1, <2>2 DEF TagsLeft, l, kept
<1>4. CASE m \notin Outputs
    <2>1. gnr_msg_unregister(l, m) = l
          BY <1>4 DEF gnr_msg_unregister
    <2>q. QED BY <1>2, <1>4, <2>1 DEF TagsLeft, l, kept
<1>q. QED BY <1>3, <1>4

\* What is left has no output function and none of the methods that the
\* shutdown takes back.
LEMMA NothingLeft ==
    ASSUME NEW m, NEW list, TagsLeft(list, m)
    PROVE  /\ ~naf_tag_ispresent(list, "gnr", OUTPUTFUNC)
           /\ Unregistered(m) \cap UNION {list[i].data : i \in DOMAIN list} = {}
<1> DEFINE kept == MethodsOf(m) \ Unregistered(m)
<1>1. list = <<>> \/ list = <<Rpi(kept)>>
      BY DEF TagsLeft
<1>2. Rpi(kept).data = kept /\ Unregistered(m) \cap kept = {}
      BY DEF Rpi
<1> HIDE DEF kept
<1>3. \A i \in DOMAIN list : list[i] = Rpi(kept)
      BY <1>1
<1>4. Unregistered(m) \cap UNION {list[i].data : i \in DOMAIN list} = {}
      BY <1>2, <1>3
<1>5. ~naf_tag_ispresent(list, "gnr", OUTPUTFUNC)
      BY <1>1, OutputFacts
<1>q. QED BY <1>4, <1>5

-----------------------------------------------------------------------------
(* Steps that change the registries *)

\* Adding a handler where its module belongs.
LEMMA AddedOwned ==
    ASSUME NEW hs \in [Stage -> Seq(Handler)], NEW new, NEW stage \in Stage, NEW e, NEW ld,
           Added(new, hs, stage, e), HandlersOwned(hs, ld), stage = StageOf(e.module)
    PROVE  HandlersOwned(new, ld \cup {e.module}) /\ HasHandler(new, e.module)
<1>1. Grown(new[stage], hs[stage], e) /\ \A s \in Stage \ {stage} : new[s] = hs[s]
      BY DEF Added
<1>2. ASSUME NEW s \in Stage, NEW i \in DOMAIN new[s]
      PROVE  new[s][i].module \in ld \cup {e.module} /\ StageOf(new[s][i].module) = s
    <2>1. CASE s = stage
        <3>1. CASE new[s][i] = e
              BY <2>1, <3>1
        <3>2. CASE \E j \in DOMAIN hs[s] : new[s][i] = hs[s][j]
              BY <3>2 DEF HandlersOwned
        <3>q. QED BY <1>1, <2>1, <3>1, <3>2 DEF Grown
    <2>2. CASE s # stage
          BY <1>1, <2>2 DEF HandlersOwned
    <2>q. QED BY <2>1, <2>2
<1>3. HasHandler(new, e.module)
      BY <1>1 DEF Grown, HasHandler
<1>q. QED BY <1>2, <1>3 DEF HandlersOwned

\* The handlers after the init of a module all belong to loaded ones.
LEMMA HandlersJoined ==
    ASSUME handlers \in [Stage -> Seq(Handler)], NEW m \in Modules, NEW ld,
           HandlersOwned(handlers, ld)
    PROVE  /\ HandlersOwned(AddHandlers(m), ld \cup {m})
           /\ m \in Handles => HasHandler(AddHandlers(m), m)
<1> DEFINE new == AddHandlers(m)
<1>1. CASE m \in Handles
    <2> DEFINE stage == StageOf(m)
               position == IF m = "gnr" THEN 100 ELSE IF m = "timps-logging" THEN 50
                           ELSE IF m = "timps-otr" THEN 30 ELSE 75
               hs == IF m = "gnr" THEN NoHandlers ELSE handlers
               e == [module |-> m, position |-> position]
    <2>1. stage \in Stage /\ position \in 0 .. 100
          BY DEF StageOf, Stage
    <2>2. new = gnr_msg_addmsghandler(hs, stage, position, m)
          BY <1>1 DEF AddHandlers, Handles, StageOf
    <2>3. hs \in [Stage -> Seq(Handler)] /\ HandlersOwned(hs, ld)
          BY DEF NoHandlers, HandlersOwned
    <2>4. e.module = m
          OBVIOUS
    <2> HIDE DEF new, stage, position, hs, e
    <2>5. Added(new, hs, stage, e)
          BY <2>1, <2>2, <2>3, HandlerAdded DEF e
    <2>6. stage = StageOf(e.module)
          BY <2>4 DEF stage
    <2>7. HandlersOwned(new, ld \cup {e.module}) /\ HasHandler(new, e.module)
          BY <2>1, <2>3, <2>5, <2>6, AddedOwned, Zenon
    <2>q. QED BY <2>4, <2>7 DEF new
<1>2. CASE m \notin Handles
    <2>1. new = handlers
          BY <1>2 DEF AddHandlers, Handles
    <2>q. QED BY <1>2, <2>1 DEF HandlersOwned
<1>q. QED BY <1>1, <1>2

\* What is known of the module that is loaded next.
LEMMA NextLoaded ==
    ASSUME RegInv, toload \in Seq(Modules), toload # <<>>, tounload = NULL
    PROVE  LET m == Head(toload)
           IN  /\ m \in Modules /\ m \notin loaded
               /\ m # "rpc" => "rpc" \in loaded
               /\ m \in Later => "gnr" \in loaded
               /\ m = "gnr" => loaded \cap Later = {}
<1> DEFINE m == Head(toload)
<1>1. Len(toload) \in Nat /\ 1 \in DOMAIN toload /\ m = toload[1] /\ m \in Modules
      BY TailFacts
<1>2. LoadOrderInv
      BY DEF RegInv
<1> HIDE DEF m
<1>3. m \notin loaded /\ (m = "gnr" => loaded \cap Later = {})
      BY <1>1, <1>2 DEF LoadOrderInv
<1>4. m # "rpc" => "rpc" \in loaded
    <2>1. "rpc" \in Modules
          BY ModulesAre
    <2>q. QED BY <1>1, <1>2, <2>1 DEF LoadOrderInv, InList
<1>5. ASSUME m \in Later PROVE "gnr" \in loaded
    <2>1. "gnr" \in Modules
          BY ModulesAre
    <2>2. ASSUME NEW i \in DOMAIN toload, toload[i] = "gnr" PROVE FALSE
        <3>1. i < 1
              BY <1>1, <1>2, <1>5, <2>2 DEF LoadOrderInv
        <3>2. i \in 1 .. Len(toload)
              BY <2>2
        <3>q. QED BY <1>1, <3>1, <3>2
    <2>q. QED BY <1>2, <2>1, <2>2 DEF LoadOrderInv, InList
<1>q. QED BY <1>1, <1>3, <1>4, <1>5 DEF m

\* The places of the rest of a list.
LEMMA TailPlaces ==
    ASSUME NEW S, NEW s \in Seq(S), s # <<>>
    PROVE  /\ Head(s) = s[1] /\ 1 \in DOMAIN s
           /\ \A i \in DOMAIN Tail(s) : i \in Nat /\ i + 1 \in DOMAIN s /\ i + 1 # 1 /\ Tail(s)[i] = s[i + 1]
           /\ \A i \in DOMAIN s : i # 1 => i \in Nat /\ i - 1 \in DOMAIN Tail(s) /\ Tail(s)[i - 1] = s[i]
<1> DEFINE t == Tail(s)
<1>1. /\ Len(s) \in Nat /\ Len(s) >= 1 /\ DOMAIN s = 1 .. Len(s) /\ Head(s) = s[1]
      /\ DOMAIN t = 1 .. Len(s) - 1 /\ \A i \in 1 .. Len(s) - 1 : t[i] = s[i + 1]
      OBVIOUS
<1> HIDE DEF t
<1>2. ASSUME NEW i \in DOMAIN t PROVE i \in Nat /\ i + 1 \in DOMAIN s /\ i + 1 # 1 /\ t[i] = s[i + 1]
      BY <1>1
<1>3. ASSUME NEW i \in DOMAIN s, i # 1 PROVE i \in Nat /\ i - 1 \in DOMAIN t /\ t[i - 1] = s[i]
      BY <1>1, <1>3
<1>q. QED BY <1>1, <1>2, <1>3 DEF t

\* The rest of a list without repetitions has none, and not its head.
LEMMA TailDistinct ==
    ASSUME NEW S, NEW s \in Seq(S), s # <<>>, Distinct(s)
    PROVE  Distinct(Tail(s)) /\ ~InList(Tail(s), Head(s))
<1> DEFINE t == Tail(s)
<1>1. /\ Head(s) = s[1] /\ 1 \in DOMAIN s
      /\ \A i \in DOMAIN t : i \in Nat /\ i + 1 \in DOMAIN s /\ i + 1 # 1 /\ t[i] = s[i + 1]
      BY TailPlaces
<1> HIDE DEF t
<1>2. ASSUME NEW i \in DOMAIN t, NEW j \in DOMAIN t, t[i] = t[j] PROVE i = j
    <2>1. i + 1 = j + 1
          BY <1>1, <1>2 DEF Distinct
    <2>2. i \in Nat /\ j \in Nat
          BY <1>1
    <2>q. QED BY <2>1, <2>2
<1>3. ASSUME NEW i \in DOMAIN t PROVE t[i] # Head(s)
      BY <1>1 DEF Distinct
<1>q. QED BY <1>2, <1>3 DEF Distinct, InList, t

\* naf_module__load: the next module finds what it needs, and is entered in
\* every registry it belongs to.
LEMMA LoadReg ==
    ASSUME IInv, RegInv, naf_module__load
    PROVE  RegInv'
<1> DEFINE m == Head(toload)
<1>1. Types /\ LoadInv /\ NodeInv
      BY DEF IInv
<1>2. /\ toload # <<>> /\ loaded' = loaded \cup {m} /\ handlers' = AddHandlers(m)
      /\ taglists' = [taglists EXCEPT ![m] =
                         naf_rpc_register_method(gnr_msg_register(@, m, loaded'),
                                                 rpc__module(loaded'), MethodsOf(m))]
      /\ statslist' = IF m \in Counting THEN registerstat(statslist, m, StatOf(m)) ELSE statslist
      /\ evhlist' = IF m \in Listeners THEN <<m>> \o evhlist ELSE evhlist
      /\ toload' = Tail(toload)
      /\ UNCHANGED <<tounload, evhfreed, userlogs, sessions, stack, history>>
      BY DEF naf_module__load
<1>3. tounload = NULL /\ toload \in Seq(Modules)
      BY <1>1, <1>2 DEF LoadInv, Types
<1>4. /\ m \in Modules /\ m \notin loaded
      /\ m # "rpc" => "rpc" \in loaded
      /\ m \in Later => "gnr" \in loaded
      /\ m = "gnr" => loaded \cap Later = {}
      BY <1>2, <1>3, NextLoaded
<1>5. /\ LoadOrderInv /\ HandlerInv /\ EventInv /\ TagInv /\ StatsInv
      BY DEF RegInv
<1>6. LoadOrderInv'
    <2> DEFINE t == Tail(toload)
    <2>1. Distinct(t) /\ ~InList(t, m)
          BY <1>2, <1>3, <1>5, TailDistinct DEF LoadOrderInv
    <2>2. /\ m = toload[1] /\ 1 \in DOMAIN toload
          /\ \A i \in DOMAIN t : /\ i \in Nat /\ i + 1 \in DOMAIN toload /\ i + 1 # 1
                                 /\ t[i] = toload[i + 1]
          /\ \A i \in DOMAIN toload : i # 1 => /\ i \in Nat /\ i - 1 \in DOMAIN t
                                               /\ t[i - 1] = toload[i]
          BY <1>2, <1>3, TailPlaces
    <2>3. toload' = t
          BY <1>2
    <2> HIDE DEF t, m
    <2>4. \A i \in DOMAIN t : t[i] \notin loaded'
          BY <1>2, <1>5, <2>1, <2>2 DEF LoadOrderInv, InList
    <2>5. ASSUME NEW w \in Modules PROVE w \in loaded' \/ InList(t, w)
        <3>1. CASE w \in loaded \/ w = m
              BY <1>2, <3>1
        <3>2. CASE w \notin loaded /\ w # m
            <4>1. PICK i \in DOMAIN toload : toload[i] = w
                  BY <1>3, <1>5, <3>2 DEF LoadOrderInv, InList
            <4>2. i # 1
                  BY <2>2, <3>2, <4>1
            <4>q. QED BY <2>2, <4>1, <4>2 DEF InList
        <3>q. QED BY <3>1, <3>2
    <2>6. \A i \in DOMAIN t : t[i] # "rpc"
          BY <1>5, <2>2 DEF LoadOrderInv
    <2>7. ASSUME NEW i \in DOMAIN t, t[i] = "gnr"
          PROVE  loaded' \cap Later = {} /\ \A j \in DOMAIN t : t[j] \in Later => i < j
        <3>1. toload[i + 1] = "gnr" /\ i + 1 \in DOMAIN toload /\ i \in Nat
              BY <2>2, <2>7
        <3>2. loaded \cap Later = {} /\ \A j \in DOMAIN toload : toload[j] \in Later => i + 1 < j
              BY <1>5, <3>1 DEF LoadOrderInv
        <3>3. ~(i + 1 < 1)
              BY <3>1
        <3>4. m \notin Later
              BY <2>2, <3>2, <3>3
        <3>5. ASSUME NEW j \in DOMAIN t, t[j] \in Later PROVE i < j
            <4>1. j + 1 \in DOMAIN toload /\ toload[j + 1] \in Later /\ j \in Nat
                  BY <2>2, <3>5
            <4>2. i + 1 < j + 1
                  BY <3>2, <4>1
            <4>q. QED BY <3>1, <4>1, <4>2
        <3>q. QED BY <1>2, <3>2, <3>4, <3>5
    <2>8. tounload' = NULL
          BY <1>2, <1>3
    <2>q. QED BY <2>1, <2>3, <2>4, <2>5, <2>6, <2>7 DEF LoadOrderInv
<1>7. UnloadOrderInv'
      BY <1>2, <1>3 DEF UnloadOrderInv
<1>8. HandlerInv'
    <2>1. handlers \in [Stage -> Seq(Handler)] /\ HandlersOwned(handlers, loaded)
          /\ Sorted(handlers["routing"]) /\ Placed(handlers["routing"])
          BY <1>1, <1>3, <1>5 DEF Types, HandlerInv, LoadInv
    <2> HIDE DEF m
    <2>2. /\ HandlersOwned(handlers', loaded')
          /\ m \in Handles => HasHandler(handlers', m)
          BY <1>2, <1>4, <2>1, HandlersJoined
    <2>3. m # "gnr" => \A w : HasHandler(handlers, w) => HasHandler(handlers', w)
          BY <1>2, <1>4, <2>1, HandlersAfterLoad
    <2>4. ASSUME NEW w \in Handles \cap loaded' PROVE HasHandler(handlers', w)
        <3>1. CASE w = m
              BY <2>2, <3>1
        <3>2. CASE w # m
            <4>1. w \in loaded /\ HasHandler(handlers, w)
                  BY <1>2, <1>3, <1>5, <3>2 DEF HandlerInv, Registered
            <4>2. m # "gnr"
                  BY <1>4, <3>2, <4>1 DEF Later
            <4>q. QED BY <2>3, <4>1, <4>2
        <3>q. QED BY <3>1, <3>2
    <2>q. QED BY <2>2, <2>4 DEF HandlerInv, Registered
<1>9. EventInv'
    <2> DEFINE o == <<m>>
    <2>1. evhlist \in Seq(Listeners)
          BY <1>1 DEF Types
    <2>2. m \in Listeners => o \in Seq(Listeners)
          OBVIOUS
    <2>3. InList(o, m) /\ \A w : InList(o, w) => w = m
          BY DEF InList
    <2>4. evhlist' = IF m \in Listeners THEN o \o evhlist ELSE evhlist
          BY <1>2
    <2> HIDE DEF m, o
    <2>5. \A w : InList(evhlist', w) <=> InList(evhlist, w) \/ (w = m /\ m \in Listeners)
        <3>1. CASE m \in Listeners
            <4>1. \A w : InList(o \o evhlist, w) <=> InList(o, w) \/ InList(evhlist, w)
                  BY <2>1, <2>2, <3>1, ConcatLists
            <4>q. QED BY <2>3, <2>4, <3>1, <4>1
        <3>2. CASE m \notin Listeners
              BY <2>4, <3>2
        <3>q. QED BY <3>1, <3>2
    <2>6. \A i \in DOMAIN evhlist' : evhlist'[i] \in loaded'
        <3>1. \A w : InList(evhlist, w) => w \in loaded
              BY <1>5 DEF EventInv, InList
        <3>2. \A w : InList(evhlist', w) => w \in loaded'
              BY <1>2, <2>5, <3>1
        <3>q. QED BY <3>2 DEF InList
    <2>7. ASSUME NEW w \in Listeners \cap loaded' PROVE InList(evhlist', w)
        <3>1. w = m \/ InList(evhlist, w)
              BY <1>2, <1>3, <1>5 DEF EventInv, Listens, InList
        <3>q. QED BY <2>5, <3>1
    <2>8. \A w \in Listeners \cap loaded' : Listens(w)'
          BY <2>7 DEF Listens, InList
    <2>9. ~evhfreed'
          BY <1>1, <1>2, <1>3 DEF NodeInv
    <2>10. ~history'.stale
          BY <1>2, <1>5 DEF EventInv
    <2>q. QED BY <2>6, <2>8, <2>9, <2>10 DEF EventInv
<1>10. TagInv'
    <2> DEFINE l == naf_rpc_register_method(gnr_msg_register(<<>>, m, loaded'),
                                            rpc__module(loaded'), MethodsOf(m))
    <2>1. taglists[m] = <<>> /\ DOMAIN taglists = Modules
          BY <1>3, <1>4, <1>5 DEF TagInv
    <2>2. taglists' = [taglists EXCEPT ![m] = l]
          BY <1>2, <2>1
    <2>3. "rpc" \in loaded' /\ (m \in Outputs => "gnr" \in loaded')
          BY <1>2, <1>4 DEF Outputs, Later, Handles
    <2>4. TagsWhenLoaded(l, m)
        <3> HIDE DEF m
        <3>q. QED BY <1>4, <2>3, TagsMade
    <2> HIDE DEF l, m
    <2>5. /\ DOMAIN taglists' = Modules /\ taglists'[m] = l
          /\ \A w \in Modules : w # m => taglists'[w] = taglists[w]
          BY <1>4, <2>1, <2>2
    <2>6. ASSUME NEW w \in Modules
          PROVE  /\ w \in loaded' => TagsWhenLoaded(taglists'[w], w)
                 /\ w \notin loaded' => taglists'[w] = <<>>
        <3>1. CASE w = m
              BY <1>2, <2>4, <2>5, <3>1
        <3>2. CASE w # m
              BY <1>2, <1>3, <1>5, <2>5, <3>2 DEF TagInv
        <3>q. QED BY <3>1, <3>2
    <2>q. QED BY <2>5, <2>6 DEF TagInv, TagsLeft
<1>11. StatsInv'
    <2>1. statslist = StatsOf(loaded)
          BY <1>5 DEF StatsInv
    <2> HIDE DEF m
    <2>2. CASE m = "gnr"
        <3>1. "stats" \notin loaded /\ "gnr" \notin loaded
              BY <1>4, <2>2 DEF Later
        <3>2. statslist = <<>>
              BY <2>1, <3>1 DEF StatsOf
        <3>3. statslist' = <<Stat("gnr")>> \o <<>>
              BY <1>2, <2>2, <3>2 DEF Counting, registerstat, Stat
        <3>4. StatsOf(loaded') = <<Stat("gnr")>>
              BY <1>2, <2>2, <3>1 DEF StatsOf
        <3>q. QED BY <3>3, <3>4, Prepended DEF StatsInv
    <2>3. CASE m = "stats"
        <3>1. "stats" \notin loaded /\ "gnr" \in loaded
              BY <1>4, <2>3 DEF Later
        <3>2. statslist = <<Stat("gnr")>>
              BY <2>1, <3>1 DEF StatsOf
        <3>3. statslist' = <<Stat("stats")>> \o <<Stat("gnr")>>
              BY <1>2, <2>3, <3>2 DEF Counting, registerstat, Stat
        <3>4. StatsOf(loaded') = <<Stat("stats"), Stat("gnr")>>
              BY <1>2, <2>3, <3>1 DEF StatsOf
        <3>q. QED BY <3>3, <3>4, Prepended DEF StatsInv
    <2>4. CASE m \notin {"gnr", "stats"}
        <3>1. statslist' = statslist
              BY <1>2, <2>4 DEF Counting
        <3>2. StatsOf(loaded') = StatsOf(loaded)
              BY <1>2, <2>4 DEF StatsOf
        <3>q. QED BY <2>1, <3>1, <3>2 DEF StatsInv
    <2>q. QED BY <2>2, <2>3, <2>4
<1>q. QED BY <1>6, <1>7, <1>8, <1>9, <1>10, <1>11 DEF RegInv

\* A list of elements that are all in T.
LEMMA ListOf ==
    ASSUME NEW S, NEW s \in Seq(S), NEW T, \A i \in DOMAIN s : s[i] \in T
    PROVE  s \in Seq(T)
<1>1. Len(s) \in Nat /\ DOMAIN s = 1 .. Len(s) /\ s = [i \in 1 .. Len(s) |-> s[i]]
      OBVIOUS
<1>q. QED BY <1>1, SeqDef

\* What is known of the module that is unloaded next.
LEMMA NextUnloaded ==
    ASSUME RegInv, tounload # NULL, tounload \in Seq(Modules), tounload # <<>>
    PROVE  LET m == Head(tounload)
           IN  /\ m \in Modules /\ m \in loaded
               /\ m \in Outputs \cup Listeners => "gnr" \in loaded
               /\ m = "stats" => "gnr" \notin loaded
<1> DEFINE m == Head(tounload)
<1>1. 1 \in DOMAIN tounload /\ m = tounload[1] /\ m \in Modules
      BY TailFacts, TailPlaces
<1>2. UnloadOrderInv
      BY DEF RegInv
<1>3. \A j \in DOMAIN tounload : ~(j < 1)
      OBVIOUS
<1> HIDE DEF m
<1>q. QED BY <1>1, <1>2, <1>3 DEF UnloadOrderInv, m

\* The statistics after naf_stats_unregisterstat for gnr.
LEMMA StatsWithoutGnr ==
    naf_stats_unregisterstat(<<Stat("stats"), Stat("gnr")>>, "gnr", StatOf("gnr")) = <<Stat("stats")>>
    /\ naf_stats_unregisterstat(<<Stat("gnr")>>, "gnr", StatOf("gnr")) = <<>>
<1> DEFINE a == Stat("stats")
           b == Stat("gnr")
<1>1. a # b /\ b = [owner |-> "gnr", name |-> StatOf("gnr")]
      BY DEF Stat
<1>2. \A l : naf_stats_unregisterstat(l, "gnr", StatOf("gnr"))
                = IF {i \in DOMAIN l : l[i] = b} = {} THEN l
                  ELSE RemoveAt(l, Min({i \in DOMAIN l : l[i] = b}))
      BY <1>1 DEF naf_stats_unregisterstat
<1> HIDE DEF a, b
<1>3. {i \in DOMAIN <<b>> : <<b>>[i] = b} = {1}
      OBVIOUS
<1>4. {i \in DOMAIN <<a, b>> : <<a, b>>[i] = b} = {2}
    <2>1. /\ DOMAIN <<a, b>> = 1 .. 2 /\ <<a, b>>[1] = a /\ <<a, b>>[2] = b
          OBVIOUS
    <2>2. \A i \in 1 .. 2 : i = 1 \/ i = 2
          OBVIOUS
    <2>q. QED BY <1>1, <2>1, <2>2
<1>5. Min({1}) = 1 /\ Min({2}) = 2
      BY MinOne
<1>6. RemoveAt(<<b>>, 1) = <<>>
      BY DEF RemoveAt
<1>7. RemoveAt(<<a, b>>, 2) = <<a>>
      BY RemovedSecond
<1>8. naf_stats_unregisterstat(<<b>>, "gnr", StatOf("gnr")) = <<>>
      BY <1>2, <1>3, <1>5, <1>6
<1>9. naf_stats_unregisterstat(<<a, b>>, "gnr", StatOf("gnr")) = <<a>>
      BY <1>2, <1>4, <1>5, <1>7
<1>q. QED BY <1>8, <1>9 DEF a, b

\* naf_module__unloadall: a module leaves every registry while those that
\* keep them are still there, or finds its entries without them.
LEMMA UnloadReg ==
    ASSUME IInv, RegInv, naf_module__unloadall
    PROVE  RegInv'
<1> DEFINE m == Head(tounload)
<1>1. Types /\ LoadInv /\ NodeInv
      BY DEF IInv
<1>2. /\ tounload \notin {NULL, <<>>} /\ loaded' = loaded \ {m}
      /\ handlers' = gnr_msg_remmsghandler(handlers, StageOf(m), m)
      /\ taglists' = [taglists EXCEPT ![m] =
                         gnr_msg_unregister(
                             naf_rpc_unregister_method(@, rpc__module(loaded), Unregistered(m)), m)]
      /\ evhfreed' = (evhfreed \/ m = "gnr")
      /\ evhlist' = IF m \in Listeners THEN gnr_event_unregister(m) ELSE evhlist
      /\ tounload' = Tail(tounload)
      /\ UNCHANGED <<toload, userlogs, sessions, stack>>
      BY DEF naf_module__unloadall
<1>3. statslist' = CASE m = "gnr"   -> naf_stats_unregisterstat(statslist, m, StatOf(m))
                     [] m = "stats" -> freestatlist
                     [] OTHER       -> statslist
      BY DEF naf_module__unloadall
<1>4. (m \in Listeners /\ evhfreed) \/ history' = history
      BY DEF naf_module__unloadall
<1>5. tounload # NULL /\ tounload # <<>> /\ tounload \in Seq(Modules) /\ toload = <<>>
      BY <1>1, <1>2 DEF Types, LoadInv
<1>6. /\ m \in Modules /\ m \in loaded
      /\ m \in Outputs \cup Listeners => "gnr" \in loaded
      /\ m = "stats" => "gnr" \notin loaded
      BY <1>5, NextUnloaded
<1>7. UnloadOrderInv /\ HandlerInv /\ EventInv /\ TagInv /\ StatsInv
      BY DEF RegInv
<1>8. tounload' # NULL
      BY <1>2, <1>5, TailFacts, NullFacts
<1>9. LoadOrderInv'
      BY <1>2, <1>5, <1>8 DEF LoadOrderInv, Distinct
<1>10. UnloadOrderInv'
    <2> DEFINE t == Tail(tounload)
    <2>1. Distinct(t) /\ ~InList(t, m)
          BY <1>5, <1>7, TailDistinct DEF UnloadOrderInv
    <2>2. /\ m = tounload[1] /\ 1 \in DOMAIN tounload
          /\ \A i \in DOMAIN t : /\ i \in Nat /\ i + 1 \in DOMAIN tounload /\ i + 1 # 1
                                 /\ t[i] = tounload[i + 1]
          /\ \A i \in DOMAIN tounload : i # 1 => /\ i \in Nat /\ i - 1 \in DOMAIN t
                                                 /\ t[i - 1] = tounload[i]
          BY <1>5, TailPlaces
    <2>3. tounload' = t
          BY <1>2
    <2> HIDE DEF t, m
    <2>4. \A i \in DOMAIN t : t[i] \in loaded'
          BY <1>2, <1>5, <1>7, <2>1, <2>2 DEF UnloadOrderInv, InList
    <2>5. ASSUME NEW i \in DOMAIN t, t[i] \in Outputs \cup Listeners
          PROVE  \E j \in DOMAIN t : i < j /\ t[j] = "gnr"
        <3>1. i \in Nat /\ i + 1 \in DOMAIN tounload /\ tounload[i + 1] \in Outputs \cup Listeners
              BY <2>2, <2>5
        <3>2. PICK j \in DOMAIN tounload : i + 1 < j /\ tounload[j] = "gnr"
              BY <1>5, <1>7, <3>1 DEF UnloadOrderInv
        <3>3. j # 1
              BY <3>1, <3>2
        <3>4. j - 1 \in DOMAIN t /\ t[j - 1] = "gnr" /\ j \in Nat
              BY <2>2, <3>2, <3>3
        <3>5. i < j - 1
              BY <3>1, <3>2, <3>4
        <3>q. QED BY <3>4, <3>5
    <2>6. ASSUME NEW i \in DOMAIN t, t[i] = "stats", "gnr" \in loaded'
          PROVE  \E j \in DOMAIN t : j < i /\ t[j] = "gnr"
        <3>1. i \in Nat /\ i + 1 \in DOMAIN tounload /\ tounload[i + 1] = "stats"
              BY <2>2, <2>6
        <3>2. "gnr" \in loaded /\ "gnr" # m
              BY <1>2, <2>6
        <3>3. PICK j \in DOMAIN tounload : j < i + 1 /\ tounload[j] = "gnr"
              BY <1>5, <1>7, <3>1, <3>2 DEF UnloadOrderInv
        <3>4. j # 1
              BY <2>2, <3>2, <3>3
        <3>5. j - 1 \in DOMAIN t /\ t[j - 1] = "gnr" /\ j \in Nat
              BY <2>2, <3>3, <3>4
        <3>6. j - 1 < i
              BY <3>1, <3>3, <3>5
        <3>q. QED BY <3>5, <3>6
    <2>q. QED BY <2>1, <2>3, <2>4, <2>5, <2>6 DEF UnloadOrderInv
<1>11. HandlerInv'
    <2> DEFINE stage == StageOf(m)
               T == {h \in Handler : h.module \in loaded /\ StageOf(h.module) = stage}
               H == {h \in Handler : h.module # m}
               new == Among(handlers[stage], H)
    <2>1. handlers \in [Stage -> Seq(Handler)] /\ stage \in Stage
          BY <1>1 DEF Types, StageOf, Stage
    <2>2. handlers' = [handlers EXCEPT ![stage] = new]
          BY <1>2 DEF gnr_msg_remmsghandler
    <2>3. handlers[stage] \in Seq(T)
        <3>1. handlers[stage] \in Seq(Handler)
              BY <2>1
        <3>2. \A i \in DOMAIN handlers[stage] : handlers[stage][i] \in T
              BY <1>7, <2>1, <3>1 DEF HandlerInv, HandlersOwned
        <3> HIDE DEF T, stage
        <3>q. QED BY <3>1, <3>2, ListOf
    <2>4. new \in Seq(T \cap H)
        <3> HIDE DEF T, H, stage
        <3>q. QED BY <2>3, AmongType
    <2>5. \A h \in T \cap H : h.module \in loaded' /\ StageOf(h.module) = stage
          BY <1>2
    <2>6. \A i \in DOMAIN new : new[i] \in T \cap H
        <3> HIDE DEF T, H, stage, new
        <3>q. QED BY <2>4
    <2>7. /\ handlers'[stage] = new
          /\ \A s \in Stage : s # stage => handlers'[s] = handlers[s]
        <3> HIDE DEF new, stage
        <3>q. QED BY <2>1, <2>2
    <2>8. ASSUME NEW s \in Stage, NEW i \in DOMAIN handlers'[s]
          PROVE  handlers'[s][i].module \in loaded' /\ StageOf(handlers'[s][i].module) = s
        <3>1. CASE s = stage
            <4> HIDE DEF T, H, new
            <4>q. QED BY <2>5, <2>6, <2>7, <3>1
        <3>2. CASE s # stage
            <4>1. handlers'[s] = handlers[s]
                  BY <2>7, <3>2
            <4>2. handlers[s][i].module \in loaded /\ StageOf(handlers[s][i].module) = s
                  BY <1>7, <2>8, <4>1 DEF HandlerInv, HandlersOwned
            <4>3. handlers[s][i].module # m
                  BY <3>2, <4>2
            <4>q. QED BY <1>2, <4>1, <4>2, <4>3
        <3>q. QED BY <3>1, <3>2
    <2>q. QED BY <1>8, <2>8 DEF HandlerInv, HandlersOwned
<1>12. EventInv'
    <2>1. \A i \in DOMAIN evhlist' : evhlist'[i] \in loaded'
        <3>1. evhlist \in Seq(Listeners) /\ \A i \in DOMAIN evhlist : evhlist[i] \in loaded
              BY <1>1, <1>7 DEF Types, EventInv
        <3>2. CASE m \in Listeners
            <4> DEFINE L == Listeners \ {m}
            <4>1. evhlist' = Among(evhlist, L)
                  BY <1>2, <3>2 DEF gnr_event_unregister
            <4> HIDE DEF L
            <4>2. evhlist \in Seq(loaded)
                  BY <3>1, ListOf
            <4>3. evhlist' \in Seq(loaded \cap L)
                  BY <4>1, <4>2, AmongType
            <4>4. \A i \in DOMAIN evhlist' : evhlist'[i] \in loaded \cap L
                  BY <4>3
            <4>q. QED BY <1>2, <4>4 DEF L
        <3>3. CASE m \notin Listeners
            <4> HIDE DEF m
            <4>1. evhlist' = evhlist /\ \A i \in DOMAIN evhlist : evhlist[i] \in Listeners
                  BY <1>2, <3>1, <3>3
            <4>q. QED BY <1>2, <3>1, <3>3, <4>1
        <3>q. QED BY <3>2, <3>3
    <2>2. evhfreed' => "gnr" \notin loaded'
          BY <1>2, <1>7 DEF EventInv
    <2>3. ~history'.stale
        <3>1. history \in History /\ ~history.stale
              BY <1>1, <1>7 DEF Types, EventInv
        <3>2. ~(m \in Listeners /\ evhfreed)
              BY <1>6, <1>7 DEF EventInv
        <3>q. QED BY <1>4, <3>1, <3>2
    <2>q. QED BY <1>8, <2>1, <2>2, <2>3 DEF EventInv
<1>13. TagInv'
    <2> DEFINE l == gnr_msg_unregister(
                        naf_rpc_unregister_method(taglists[m], rpc__module(loaded), Unregistered(m)), m)
    <2>1. TagsWhenLoaded(taglists[m], m) /\ DOMAIN taglists = Modules
          BY <1>6, <1>7 DEF TagInv
    <2>2. taglists' = [taglists EXCEPT ![m] = l]
          BY <1>2
    <2>3. rpc__module(loaded) \in {"rpc", NULL}
          BY DEF rpc__module
    <2>4. TagsLeft(l, m)
        <3> HIDE DEF m
        <3>q. QED BY <1>6, <2>1, <2>3, TagsTakenBack
    <2> HIDE DEF l, m
    <2>5. /\ DOMAIN taglists' = Modules /\ taglists'[m] = l
          /\ \A w \in Modules : w # m => taglists'[w] = taglists[w]
          BY <1>6, <2>1, <2>2
    <2>6. ASSUME NEW w \in Modules
          PROVE  /\ w \in loaded' => TagsWhenLoaded(taglists'[w], w)
                 /\ w \notin loaded' => TagsLeft(taglists'[w], w)
        <3>1. CASE w = m
              BY <1>2, <2>4, <2>5, <3>1
        <3>2. CASE w # m
              BY <1>2, <1>7, <2>5, <3>2 DEF TagInv
        <3>q. QED BY <3>1, <3>2
    <2>q. QED BY <1>8, <2>5, <2>6 DEF TagInv
<1>14. StatsInv'
    <2>1. statslist = StatsOf(loaded)
          BY <1>7 DEF StatsInv
    <2> HIDE DEF m
    <2>2. CASE m = "gnr"
        <3>1. statslist' = naf_stats_unregisterstat(statslist, "gnr", StatOf("gnr"))
              BY <1>3, <2>2
        <3>2. CASE "stats" \in loaded
              BY <1>2, <1>6, <2>1, <2>2, <3>1, <3>2, StatsWithoutGnr DEF StatsOf, StatsInv
        <3>3. CASE "stats" \notin loaded
              BY <1>2, <1>6, <2>1, <2>2, <3>1, <3>3, StatsWithoutGnr DEF StatsOf, StatsInv
        <3>q. QED BY <3>2, <3>3
    <2>3. CASE m = "stats"
        <3>1. statslist' = <<>>
              BY <1>3, <2>3 DEF freestatlist
        <3>2. StatsOf(loaded') = <<>>
              BY <1>2, <1>6, <2>3 DEF StatsOf
        <3>q. QED BY <3>1, <3>2 DEF StatsInv
    <2>4. CASE m \notin {"gnr", "stats"}
        <3>1. statslist' = statslist
              BY <1>3, <2>4
        <3>2. StatsOf(loaded') = StatsOf(loaded)
              BY <1>2, <2>4 DEF StatsOf
        <3>q. QED BY <2>1, <3>1, <3>2 DEF StatsInv
    <2>q. QED BY <2>2, <2>3, <2>4
<1>q. QED BY <1>9, <1>10, <1>11, <1>12, <1>13, <1>14 DEF RegInv

\* naf_rpc_request_issue: a request adds an empty set of methods at most.
LEMMA RequestReg ==
    ASSUME IInv, RegInv, naf_rpc_request_issue
    PROVE  RegInv'
<1>1. /\ Running
      /\ UNCHANGED <<toload, tounload, loaded, handlers, statslist, evhlist, evhfreed, nodes,
                     streams, userlogs, bot, sessions, stack, history>>
      BY DEF naf_rpc_request_issue, AtPoll
<1>2. PICK asked \in {{m} : m \in loaded} \cup {loaded} :
          taglists' = [m \in Modules |->
                          IF m \in asked THEN fetchinfo(taglists[m], rpc__module(loaded))
                                        ELSE taglists[m]]
      BY DEF naf_rpc_request_issue
<1>3. LoadOrderInv /\ UnloadOrderInv /\ HandlerInv /\ EventInv /\ TagInv /\ StatsInv
      BY DEF RegInv
<1>4. asked \subseteq loaded
      OBVIOUS
<1>5. rpc__module(loaded) = "rpc"
    <2>1. "rpc" \in Modules /\ toload = <<>> /\ tounload = NULL
          BY <1>1, ModulesAre DEF Running
    <2>2. ~InList(toload, "rpc")
          BY <2>1 DEF InList
    <2>q. QED BY <1>3, <2>1, <2>2 DEF LoadOrderInv, rpc__module
<1>6. ASSUME NEW m \in Modules
      PROVE  /\ m \in loaded => TagsWhenLoaded(taglists'[m], m)
             /\ m \notin loaded => taglists'[m] = taglists[m]
    <2>1. CASE m \in asked
        <3>1. taglists'[m] = fetchinfo(taglists[m], "rpc") /\ m \in loaded
              BY <1>2, <1>4, <1>5, <2>1
        <3>2. TagsWhenLoaded(taglists[m], m)
              BY <1>3, <3>1 DEF TagInv
        <3>q. QED BY <3>1, <3>2, TagsAsked
    <2>2. CASE m \notin asked
        <3>1. taglists'[m] = taglists[m]
              BY <1>2, <2>2
        <3>q. QED BY <1>3, <3>1 DEF TagInv
    <2>q. QED BY <2>1, <2>2
<1>7. DOMAIN taglists' = Modules
      BY <1>2
<1>8. TagInv'
      BY <1>1, <1>3, <1>6, <1>7 DEF TagInv
<1>9. LoadOrderInv' /\ UnloadOrderInv'
      BY <1>1, <1>3 DEF LoadOrderInv, UnloadOrderInv
<1>10. HandlerInv' /\ EventInv' /\ StatsInv'
      BY <1>1, <1>3 DEF HandlerInv, Registered, EventInv, Listens, StatsInv
<1>q. QED BY <1>8, <1>9, <1>10 DEF RegInv

-----------------------------------------------------------------------------
(* The other steps *)

\* No field of history but stale says that a freed list was walked.
LEMMA StaleKept ==
    ASSUME NEW h \in History, NEW e
    PROVE  /\ [h EXCEPT !.messages = e].stale = h.stale
           /\ [h EXCEPT !.logs = e].stale = h.stale
           /\ [h EXCEPT !.asked = e].stale = h.stale
           /\ [h EXCEPT !.taken = e].stale = h.stale
           /\ [h EXCEPT !.crashed = e].stale = h.stale
BY DEF History

\* The end of a message leaves it alone.
LEMMA IdleStale ==
    ASSUME history \in History
    PROVE  /\ Idle.stale = history.stale
           /\ [Idle EXCEPT !.crashed = TRUE].stale = history.stale
<1> DEFINE a == [history EXCEPT !.messages = <<>>]
           b == [a EXCEPT !.logs = {}]
           c == [b EXCEPT !.asked = FALSE]
           d == [c EXCEPT !.taken = FALSE]
<1>1. Idle = d
      BY DEF Idle
<1>2. a \in History /\ a.stale = history.stale
    <2>1. \A e \in Seq(Message) : [history EXCEPT !.messages = e] \in History
          BY DEF History
    <2>2. <<>> \in Seq(Message)
          OBVIOUS
    <2>q. QED BY <2>1, <2>2, StaleKept
<1> HIDE DEF a
<1>3. b \in History /\ b.stale = a.stale
      BY <1>2 DEF History
<1> HIDE DEF b
<1>4. c \in History /\ c.stale = b.stale
      BY <1>3 DEF History
<1> HIDE DEF c
<1>5. d.stale = c.stale
      BY <1>4 DEF History
<1>6. Idle \in History
      BY IdleFacts
<1>7. [Idle EXCEPT !.crashed = TRUE].stale = Idle.stale
    <2> HIDE DEF d
    <2>q. QED BY <1>6, StaleKept
<1>q. QED BY <1>1, <1>2, <1>3, <1>4, <1>5, <1>7

\* A step that leaves the lists alone.
LEMMA KeptReg ==
    ASSUME RegInv, UNCHANGED lists, history'.stale = history.stale
    PROVE  RegInv'
<1>1. UNCHANGED <<toload, tounload, loaded, handlers, taglists, statslist, evhlist, evhfreed>>
      BY DEF lists
<1>2. LoadOrderInv' /\ UnloadOrderInv'
      BY <1>1 DEF RegInv, LoadOrderInv, UnloadOrderInv
<1>3. HandlerInv' /\ EventInv'
      BY <1>1 DEF RegInv, HandlerInv, Registered, EventInv, Listens
<1>4. TagInv' /\ StatsInv'
      BY <1>1 DEF RegInv, TagInv, StatsInv
<1>q. QED BY <1>2, <1>3, <1>4 DEF RegInv

\* The shutdown begins, or the process is gone: the modules that are loaded
\* are unloaded in the order of the list, or never.
LEMMA StoppedReg ==
    ASSUME IInv, RegInv, Running, NEW list \in {modlist, <<>>}, ModuleOption = "M",
           tounload' = list, history'.stale = history.stale,
           UNCHANGED <<toload, loaded, handlers, taglists, statslist, evhlist, evhfreed>>
    PROVE  RegInv'
<1>1. LoadOrderInv /\ HandlerInv /\ EventInv /\ TagInv /\ StatsInv
      BY DEF RegInv
<1>2. toload = <<>> /\ tounload = NULL
      BY DEF Running
<1>3. \A m \in Modules : m \in loaded
    <2>1. \A m : ~InList(toload, m)
          BY <1>2 DEF InList
    <2>q. QED BY <1>1, <1>2, <2>1 DEF LoadOrderInv
<1>4. tounload' # NULL
    <2>1. modlist \in Seq(Modules) /\ <<>> \in Seq(Modules)
          BY ModlistFacts
    <2>q. QED BY <2>1, NullFacts
<1>5. LoadOrderInv'
      BY <1>1, <1>2, <1>4 DEF LoadOrderInv
<1>6. UnloadOrderInv'
    <2>1. CASE list = <<>>
        <3>1. DOMAIN tounload' = {}
              BY <2>1
        <3>q. QED BY <3>1 DEF UnloadOrderInv, Distinct
    <2>2. CASE list = modlist
        <3>1. \A i \in DOMAIN modlist : modlist[i] \in loaded
            <4>1. \A i \in DOMAIN modlist : modlist[i] \in Modules
                  BY ModlistFacts
            <4>q. QED BY <1>3, <4>1
        <3>2. tounload' = modlist /\ loaded' = loaded
              BY <2>2
        <3>q. QED BY <3>1, <3>2, ModlistInOrder DEF UnloadOrderInv
    <2>q. QED BY <2>1, <2>2
<1>7. HandlerInv' /\ EventInv'
      BY <1>1, <1>4 DEF HandlerInv, EventInv
<1>8. TagInv' /\ StatsInv'
      BY <1>1, <1>4 DEF TagInv, StatsInv
<1>q. QED BY <1>5, <1>6, <1>7, <1>8 DEF RegInv

\* Every step but those that load, unload or stop, and a request, leaves the
\* lists and history.stale alone.
Keeps == UNCHANGED lists /\ history'.stale = history.stale

\* Sessions, the timer, a new configuration and a message that comes in.
LEMMA PollKeeps ==
    ASSUME IInv, \/ signalhandler
                 \/ \E n \in Names : Session(n)
                 \/ gnr_node__timeout
                 \/ \E user, other \in Names, out \in BOOLEAN, text \in Brought :
                       OscarMessage(user, other, out, text)
    PROVE  Keeps
<1>2. CASE signalhandler
      BY <1>2 DEF signalhandler, Keeps
<1>3. ASSUME NEW n \in Names, Session(n) PROVE Keeps
      BY <1>3 DEF Session, Login, ClientOnline, Logout, Keeps
<1>4. CASE gnr_node__timeout
      BY <1>4 DEF gnr_node__timeout, Keeps
<1>5. ASSUME NEW user, NEW other, NEW out, NEW text, OscarMessage(user, other, out, text)
      PROVE  Keeps
      BY <1>5 DEF OscarMessage, Keeps
<1>q. QED BY <1>2, <1>3, <1>4, <1>5

\* The steps of a message on its way.
LEMMA RouteKeeps ==
    ASSUME IInv, RouteStep, ~totr_crash
    PROVE  Keeps
<1>1. history \in History
      BY DEF IInv, Types
<1>2. Rest => UNCHANGED lists
      BY DEF Rest
<1>3. CASE \/ NextStage \/ timps_msgrouting \/ toscar_msgrouting \/ totr_msgroutinghandler_Plain
           \/ totr_uiop \/ totr_msgroutinghandler_Foreign \/ gnr_node__msg_postrouting
           \/ totr_gnroutputfunc
    <2>1. Rest /\ UNCHANGED history
          BY <1>3 DEF NextStage, timps_msgrouting, toscar_msgrouting, totr_msgroutinghandler_Plain,
             totr_uiop, totr_msgroutinghandler_Foreign, gnr_node__msg_postrouting, totr_gnroutputfunc
    <2>q. QED BY <1>2, <2>1 DEF Keeps
<1>4. CASE totr_msgroutinghandler_Otr
    <2> DEFINE a == [history EXCEPT !.asked = TRUE]
               b == [a EXCEPT !.taken = TRUE]
    <2>1. Rest /\ (history' = a \/ history' = b)
          BY <1>4 DEF totr_msgroutinghandler_Otr
    <2>2. a \in History /\ a.stale = history.stale
          BY <1>1 DEF History
    <2> HIDE DEF a
    <2>3. b.stale = a.stale
          BY <2>2, StaleKept
    <2>q. QED BY <1>2, <2>1, <2>2, <2>3 DEF Keeps
<1>5. CASE tlogging_msglogger
    <2> DEFINE w == history.logs \cup {<<n, Top.src, Top.dst, Top.text>> : n \in LogsOf(Top)}
    <2>1. Rest /\ history' = [history EXCEPT !.logs = w]
          BY <1>5 DEF tlogging_msglogger
    <2> HIDE DEF w
    <2>2. [history EXCEPT !.logs = w].stale = history.stale
          BY <1>1, StaleKept
    <2>q. QED BY <1>2, <2>1, <2>2 DEF Keeps
<1>6. CASE toscar_gnroutputfunc
    <2> DEFINE w == Append(history.messages, [src |-> Top.src, dst |-> Top.dst, text |-> Top.text])
    <2>1. Rest /\ (history' = [history EXCEPT !.messages = w] \/ history' = history)
          BY <1>6 DEF toscar_gnroutputfunc
    <2> HIDE DEF w
    <2>2. [history EXCEPT !.messages = w].stale = history.stale
          BY <1>1, StaleKept
    <2>q. QED BY <1>2, <2>1, <2>2 DEF Keeps
<1>7. CASE Return
    <2>1. Rest /\ (history' = Idle \/ history' = history)
          BY <1>7 DEF Return
    <2>q. QED BY <1>1, <1>2, <2>1, IdleStale DEF Keeps
<1>q. QED BY <1>3, <1>4, <1>5, <1>6, <1>7 DEF RouteStep

\* One step per action.
LEMMA RegNext ==
    ASSUME ModuleOption = "M"
    PROVE  IInv /\ RegInv /\ [Next]_vars => RegInv'
<1> SUFFICES ASSUME IInv, RegInv, [Next]_vars PROVE RegInv'
    OBVIOUS
<1>1. history \in History
      BY DEF IInv, Types
<1>2. CASE naf_module__load
      BY <1>2, LoadReg
<1>3. CASE naf_module__unloadall
      BY <1>3, UnloadReg
<1>4. CASE naf_rpc_request_issue
      BY <1>4, RequestReg
<1>5. CASE sighandler_shutdown
    <2>1. /\ Running /\ tounload' = modlist /\ history' = Idle
          /\ UNCHANGED <<toload, loaded, handlers, taglists, statslist, evhlist, evhfreed>>
          BY <1>5 DEF sighandler_shutdown
    <2>2. history'.stale = history.stale
          BY <1>1, <2>1, IdleStale
    <2>q. QED BY <2>1, <2>2, StoppedReg
<1>6. CASE totr_crash
    <2>1. /\ Running /\ tounload' = <<>> /\ history' = [Idle EXCEPT !.crashed = TRUE]
          /\ UNCHANGED <<toload, loaded, handlers, taglists, statslist, evhlist, evhfreed>>
          BY <1>6 DEF totr_crash, AtOtr, AtHandler, Calls
    <2>2. history'.stale = history.stale
          BY <1>1, <2>1, IdleStale
    <2>q. QED BY <2>1, <2>2, StoppedReg
<1>7. CASE Keeps
      BY <1>7, KeptReg DEF Keeps
<1>8. CASE UNCHANGED vars
      BY <1>8, KeptReg DEF vars
<1>9. CASE RouteStep /\ ~totr_crash
      BY <1>7, <1>9, RouteKeeps
<1>10. CASE \/ signalhandler
            \/ \E n \in Names : Session(n)
            \/ gnr_node__timeout
            \/ \E user, other \in Names, out \in BOOLEAN, text \in Brought :
                  OscarMessage(user, other, out, text)
      BY <1>7, <1>10, PollKeeps
<1>q. QED BY <1>2, <1>3, <1>4, <1>5, <1>6, <1>8, <1>9, <1>10 DEF Next, Lifecycle

\* While the loop runs every module is loaded.
LEMMA AllLoaded ==
    ASSUME RegInv, Running
    PROVE  \A m \in Modules : m \in loaded
<1>1. toload = <<>> /\ tounload = NULL /\ LoadOrderInv
      BY DEF Running, RegInv
<1>2. \A m : ~InList(toload, m)
      BY <1>1 DEF InList
<1>q. QED BY <1>1, <1>2 DEF LoadOrderInv

\* The methods are served while the loop runs and taken back afterwards.
LEMMA RegMethods ==
    ASSUME RegInv, loaded \subseteq Modules
    PROVE  MethodsServed
<1>1. TagInv
      BY DEF RegInv
<1>2. ASSUME Running, NEW m \in loaded PROVE Callable(m) = MethodsOf(m)
    <2>1. "rpc" \in loaded /\ m \in Modules
          BY <1>2, AllLoaded, ModulesAre
    <2>2. rpc__module(loaded) = "rpc"
          BY <2>1 DEF rpc__module
    <2>3. TagsWhenLoaded(taglists[m], m)
          BY <1>1, <1>2, <2>1 DEF TagInv
    <2>4. Methods(taglists[m], "rpc") = MethodsOf(m)
          BY <2>1, <2>3, TagsAsked
    <2>q. QED BY <2>2, <2>4 DEF Callable
<1>3. ASSUME NEW m \in Modules \ loaded
      PROVE  Unregistered(m) \cap UNION {taglists[m][i].data : i \in DOMAIN taglists[m]} = {}
    <2>1. TagsLeft(taglists[m], m)
          BY <1>1 DEF TagInv
    <2>q. QED BY <2>1, NothingLeft
<1>q. QED BY <1>2, <1>3 DEF MethodsServed

\* No statistic of an unloaded module, and while the loop runs all of them.
LEMMA RegStats ==
    ASSUME RegInv
    PROVE  StatsLive
<1>1. statslist = StatsOf(loaded)
      BY DEF RegInv, StatsInv
<1>2. Stat("stats").owner = "stats" /\ Stat("gnr").owner = "gnr"
      BY DEF Stat
<1> DEFINE a == Stat("stats")
           b == Stat("gnr")
<1>3. \/ statslist = <<a, b>> /\ "stats" \in loaded /\ "gnr" \in loaded
      \/ statslist = <<a>> /\ "stats" \in loaded /\ "gnr" \notin loaded
      \/ statslist = <<b>> /\ "gnr" \in loaded /\ "stats" \notin loaded
      \/ statslist = <<>> /\ "stats" \notin loaded
      BY <1>1 DEF StatsOf
<1>4. a.owner = "stats" /\ b.owner = "gnr"
      BY <1>2
<1> HIDE DEF a, b
<1>5. \A i \in DOMAIN statslist : statslist[i].owner \in loaded
      BY <1>3, <1>4
<1>6. ASSUME Running PROVE {statslist[i].owner : i \in DOMAIN statslist} = Counting
    <2>1. "stats" \in loaded /\ "gnr" \in loaded
          BY <1>6, AllLoaded, ModulesAre
    <2>2. statslist = <<a, b>>
          BY <1>3, <2>1
    <2>3. {<<a, b>>[i].owner : i \in DOMAIN <<a, b>>} = {a.owner, b.owner}
          OBVIOUS
    <2>q. QED BY <1>4, <2>2, <2>3 DEF Counting
<1>q. QED BY <1>5, <1>6 DEF StatsLive

\* The registries are right wherever RegInv holds.
LEMMA RegHandlers ==
    ASSUME IInv, RegInv
    PROVE  HandlersLive
<1>1. HandlerInv /\ EventInv /\ TagInv /\ loaded \subseteq Modules
      BY DEF RegInv, IInv, Types
<1>2. Outputs \subseteq Modules /\ Handles \subseteq Modules /\ Listeners \subseteq Modules
      BY ModulesAre DEF Outputs, Handles, Listeners
<1>3. \A s \in Stage : \A i \in DOMAIN handlers[s] : handlers[s][i].module \in loaded
      BY <1>1 DEF HandlerInv, HandlersOwned
<1>4. ASSUME NEW m \in Outputs, m \notin loaded
      PROVE  ~naf_tag_ispresent(taglists[m], "gnr", OUTPUTFUNC)
    <2>1. TagsLeft(taglists[m], m)
          BY <1>1, <1>2, <1>4 DEF TagInv
    <2>q. QED BY <2>1, NothingLeft
<1>5. ASSUME Running
      PROVE  /\ \A m \in Handles : \E i \in DOMAIN handlers[StageOf(m)] :
                   handlers[StageOf(m)][i].module = m
             /\ \A m \in Listeners : Listens(m)
             /\ \A m \in Outputs : HasOutput(m)
    <2>1. tounload = NULL
          BY <1>5 DEF Running
    <2>2. \A m \in Modules : m \in loaded
          BY <1>5, AllLoaded
    <2>3. \A m \in Handles : Registered(m)
          BY <1>1, <1>2, <2>1, <2>2 DEF HandlerInv
    <2>4. \A m \in Listeners : Listens(m)
          BY <1>1, <1>2, <2>1, <2>2 DEF EventInv
    <2>5. ASSUME NEW m \in Outputs PROVE HasOutput(m)
        <3>1. "gnr" \in loaded /\ m \in loaded /\ m \in Modules
              BY <1>2, <2>2, ModulesAre
        <3>2. gnr__module(loaded) = "gnr"
              BY <3>1 DEF gnr__module
        <3>3. TagsWhenLoaded(taglists[m], m)
              BY <1>1, <3>1 DEF TagInv
        <3>4. naf_tag_fetch(taglists[m], "gnr", OUTPUTFUNC) = {m}
              BY <3>3, OutputFound
        <3>5. {m} # NULL
              BY <3>1, TagNulls
        <3>q. QED BY <3>2, <3>4, <3>5 DEF HasOutput
    <2>q. QED BY <2>3, <2>4, <2>5 DEF Registered, HasHandler
<1>6. MethodsServed /\ StatsLive
      BY <1>1, RegMethods, RegStats
<1>7. (\A i \in DOMAIN evhlist : evhlist[i] \in loaded) /\ ~history.stale
      BY <1>1 DEF EventInv
<1>q. QED BY <1>3, <1>4, <1>5, <1>6, <1>7 DEF HandlersLive

\* With -M, which puts timps-otr before gnr in the order of unloading: the
\* handlers, event handlers, output functions and statistics of an unloaded
\* module are gone, and the methods of the four that take theirs back (rpc,
\* stats, conn, config and core never do); no freed list is walked; and while
\* the loop runs nothing is missing from any registry.  With -m timps-otr is
\* unloaded after gnr and walks the freed list of events.
THEOREM RegistriesRight ==
    ASSUME ModuleOption = "M"
    PROVE  Spec => []HandlersLive
<1>1. Init => RegInv
      BY InitReg
<1>2. IInv /\ RegInv /\ [Next]_vars => RegInv'
      BY RegNext
<1>3. IInv /\ RegInv => HandlersLive
      BY RegHandlers
<1>q. QED BY <1>1, <1>2, <1>3, Invariance, PTL DEF Spec

============================================================================
