---------------------------- MODULE HttpdProofs ----------------------------
(***************************************************************************)
(* The invariants of Httpd for every configuration file, every number of   *)
(* connections and every Content-Length.                                   *)
(*                                                                         *)
(* The listeners first: what cleanlisteners leaves is found by induction   *)
(* over the rounds of its loop.  Then the connections, each of which is    *)
(* always in one of the shapes of Good.                                    *)
(***************************************************************************)
EXTENDS Httpd, Recursion

-----------------------------------------------------------------------------
(* Listeners *)

\* The socket of a listener is its own.
Distinct(o) == \A l, k \in o : l.port = k.port /\ l.addr = k.addr => l = k

\* What the loop of cleanlisteners keeps: every socket belongs to an entry,
\* and one on any address has the owner of its entry.
Configured(o, cf) ==
    /\ o \subseteq Listener
    /\ Distinct(o)
    /\ \A l \in o : \E i \in DOMAIN cf : SameSocket(l, cf[i])
    /\ \A l \in o : l.addr = ANY =>
          \E i \in DOMAIN cf : SameSocket(l, cf[i]) /\ cf[i].owner = l.owner

\* The first n entries have been looked at.
Established(o, cf, n, mods, bad) ==
    \A i \in 1 .. n : OwnerKnown(cf[i], mods) /\ cf[i] \notin bad =>
        \E l \in o : SameSocket(l, cf[i])

\* The sockets that stay belong to entries with an address.
LEMMA KeptConfigured ==
    ASSUME NEW o \in SUBSET Listener, Distinct(o), NEW cf \in Seq(Entry)
    PROVE  Configured({l \in o : listenport_isconfigured(cf, l)}, cf)
<1> DEFINE kept == {l \in o : listenport_isconfigured(cf, l)}
<1>1. kept \subseteq Listener /\ Distinct(kept)
      BY DEF Distinct
<1>2. ASSUME NEW l \in kept PROVE l.addr # ANY /\ \E i \in DOMAIN cf : SameSocket(l, cf[i])
    <2>1. PICK i \in DOMAIN cf : cf[i].port = l.port /\ cf[i].addr # NONE /\ cf[i].addr = l.addr
          BY DEF listenport_isconfigured
    <2>2. cf[i] \in Entry
          OBVIOUS
    <2>3. cf[i].addr \in Addrs
          BY <2>1, <2>2 DEF Entry
    <2>q. QED BY <2>1, <2>3, AddrAssumption DEF SameSocket, BoundAddr
<1>q. QED BY <1>1, <1>2 DEF Configured

\* One round of the loop.
LEMMA ListenEstablish ==
    ASSUME NEW cf \in Seq(Entry), NEW n \in 1 .. Len(cf), NEW mods, NEW bad, NEW o,
           Configured(o, cf), Established(o, cf, n - 1, mods, bad)
    PROVE  /\ Configured(listenestablish(o, cf[n], mods, bad), cf)
           /\ Established(listenestablish(o, cf[n], mods, bad), cf, n, mods, bad)
<1> DEFINE e == cf[n]
           new == [port |-> e.port, addr |-> BoundAddr(e), owner |-> e.owner]
           p == listenestablish(o, e, mods, bad)
<1>1. e \in Entry /\ n \in DOMAIN cf
      OBVIOUS
<1>2. new \in Listener
      BY <1>1 DEF Entry, Listener, BoundAddr
<1>3. SameSocket(new, e) /\ new.owner = e.owner
      BY DEF SameSocket
<1>4. CASE Wanted(o, e, mods) /\ e \notin bad
    <2>1. p = o \cup {new}
          BY <1>4 DEF listenestablish
    <2>2. \A l \in o : ~(l.port = new.port /\ l.addr = new.addr)
          BY <1>4 DEF Wanted, findlistenport
    <2> HIDE DEF new, p, e
    <2>3. p \subseteq Listener /\ Distinct(p)
          BY <1>2, <2>1, <2>2 DEF Configured, Distinct
    <2>4. \A l \in p : \E i \in DOMAIN cf : SameSocket(l, cf[i])
          BY <1>1, <1>3, <2>1 DEF Configured, e
    <2>5. \A l \in p : l.addr = ANY =>
             \E i \in DOMAIN cf : SameSocket(l, cf[i]) /\ cf[i].owner = l.owner
          BY <1>1, <1>3, <2>1 DEF Configured, e
    <2>6. Established(p, cf, n, mods, bad)
        <3>1. SUFFICES ASSUME NEW i \in 1 .. n, OwnerKnown(cf[i], mods), cf[i] \notin bad
                       PROVE  \E l \in p : SameSocket(l, cf[i])
              BY DEF Established
        <3>2. CASE i = n
              BY <3>2, <1>3, <2>1 DEF e
        <3>3. CASE i # n
            <4>1. i \in 1 .. n - 1
                  BY <3>3
            <4>q. QED BY <4>1, <3>1, <2>1 DEF Established
        <3>q. QED BY <3>2, <3>3
    <2>q. QED BY <2>3, <2>4, <2>5, <2>6 DEF Configured, p, e
<1>5. CASE ~(Wanted(o, e, mods) /\ e \notin bad)
    <2>1. p = o
          BY <1>5 DEF listenestablish
    <2>2. OwnerKnown(e, mods) /\ e \notin bad => \E l \in o : SameSocket(l, e)
          BY <1>5 DEF Wanted, findlistenport, SameSocket
    <2> HIDE DEF new, p, e
    <2>3. Established(o, cf, n, mods, bad)
        <3>1. SUFFICES ASSUME NEW i \in 1 .. n, OwnerKnown(cf[i], mods), cf[i] \notin bad
                       PROVE  \E l \in o : SameSocket(l, cf[i])
              BY DEF Established
        <3>2. CASE i = n
              BY <3>1, <3>2, <2>2 DEF e
        <3>3. CASE i # n
            <4>1. i \in 1 .. n - 1
                  BY <3>3
            <4>q. QED BY <4>1, <3>1 DEF Established
        <3>q. QED BY <3>2, <3>3
    <2>q. QED BY <2>1, <2>3 DEF p, e
<1>q. QED BY <1>4, <1>5

\* The loop.
LEMMA CleanListeners ==
    ASSUME NEW o \in SUBSET Listener, Distinct(o), NEW cf \in Seq(Entry), NEW mods, NEW bad
    PROVE  /\ Configured(cleanlisteners(o, cf, mods, bad), cf)
           /\ Established(cleanlisteners(o, cf, mods, bad), cf, Len(cf), mods, bad)
<1> DEFINE kept == {l \in o : listenport_isconfigured(cf, l)}
           X == SUBSET Listener
           step == [i \in 1 .. Len(cf) |-> [p \in X |-> listenestablish(p, cf[i], mods, bad)]]
           round == CHOOSE round : round = [n \in 0 .. Len(cf) |->
                        IF n = 0 THEN kept ELSE listenestablish(round[n - 1], cf[n], mods, bad)]
<1>1. cleanlisteners(o, cf, mods, bad) = round[Len(cf)]
      BY DEF cleanlisteners
<1>2. \A i \in 1 .. Len(cf) : \A p \in X : listenestablish(p, cf[i], mods, bad) \in X
    <2>1. SUFFICES ASSUME NEW i \in 1 .. Len(cf), NEW p \in X
                   PROVE  listenestablish(p, cf[i], mods, bad) \in X
          OBVIOUS
    <2>2. cf[i] \in Entry
          OBVIOUS
    <2>3. [port |-> cf[i].port, addr |-> BoundAddr(cf[i]), owner |-> cf[i].owner] \in Listener
          BY <2>2 DEF Entry, Listener, BoundAddr
    <2>q. QED BY <2>3 DEF listenestablish
<1>3. kept \in X
      OBVIOUS
<1>4. Len(cf) \in Nat
      OBVIOUS
<1>5. step \in [1 .. Len(cf) -> [X -> X]]
      BY <1>2
<1>6. PICK g \in [0 .. Len(cf) -> X] : Loop(g, Len(cf), kept, step)
    <2> HIDE DEF kept, X, step
    <2>q. QED BY <1>3, <1>4, <1>5, LoopDefined, Zenon
<1>7. g = [n \in 0 .. Len(cf) |->
              IF n = 0 THEN kept ELSE listenestablish(g[n - 1], cf[n], mods, bad)]
    <2>1. ASSUME NEW n \in 0 .. Len(cf), n # 0
          PROVE  g[n] = listenestablish(g[n - 1], cf[n], mods, bad)
        <3>1. n \in 1 .. Len(cf) /\ n - 1 \in 0 .. Len(cf)
              BY <1>4, <2>1
        <3>2. g[n - 1] \in X
              BY <3>1
        <3>3. g[n] = step[n][g[n - 1]]
              BY <1>6, <3>1 DEF Loop
        <3> HIDE DEF X
        <3>q. QED BY <3>1, <3>2, <3>3
    <2> HIDE DEF kept, X, step
    <2>q. QED BY <1>6, <2>1 DEF Loop
<1>8. round = [n \in 0 .. Len(cf) |->
                  IF n = 0 THEN kept ELSE listenestablish(round[n - 1], cf[n], mods, bad)]
    <2> HIDE DEF kept, step, X
    <2>q. QED BY <1>7, Zenon
<1> DEFINE S == {n \in 0 .. Len(cf) : Configured(round[n], cf)
                                      /\ Established(round[n], cf, n, mods, bad)}
<1>9. 0 \in S
    <2>1. round[0] = kept
        <3> HIDE DEF kept, round
        <3>q. QED BY <1>4, <1>8
    <2>2. Configured(kept, cf)
          BY KeptConfigured
    <2>3. Established(kept, cf, 0, mods, bad)
          BY DEF Established
    <2> HIDE DEF kept, round
    <2>q. QED BY <1>4, <2>1, <2>2, <2>3
<1>10. ASSUME NEW n \in 0 .. Len(cf), n < Len(cf), n \in S PROVE n + 1 \in S
    <2> HIDE DEF kept, round
    <2>1. n + 1 \in 1 .. Len(cf) /\ n + 1 \in 0 .. Len(cf) /\ (n + 1) - 1 = n /\ n + 1 # 0
          BY <1>4, <1>10
    <2>2. round[n + 1] = listenestablish(round[n], cf[n + 1], mods, bad)
          BY <1>8, <2>1
    <2>3. Configured(round[n], cf) /\ Established(round[n], cf, (n + 1) - 1, mods, bad)
          BY <1>10, <2>1
    <2>4. Configured(round[n + 1], cf) /\ Established(round[n + 1], cf, n + 1, mods, bad)
          BY <2>1, <2>2, <2>3, ListenEstablish
    <2>q. QED BY <2>1, <2>4
<1>11. Len(cf) \in S
    <2> HIDE DEF S
    <2>1. \A n \in 0 .. Len(cf) : n < Len(cf) /\ n \in S => n + 1 \in S
          BY <1>10
    <2>2. \A n \in 0 .. Len(cf) : n \in S
          BY <1>4, <1>9, <2>1, Rounds, Zenon
    <2>q. QED BY <1>4, <2>2
<1> HIDE DEF round
<1>q. QED BY <1>1, <1>11

-----------------------------------------------------------------------------
(* The inductive invariant *)

\* Detection is over once a connection has an owner; before, nothing of a
\* request has been read.
Detection(k) ==
    /\ k.owner = NONE => k.detecting \/ k.closing
    /\ k.owner # NONE => ~k.detecting /\ ~k.raw
    /\ k.detecting => k.state = "FRESH" /\ k.clen = NULL

\* Everything but a connection of timps-oscar has a read pending, and the
\* read fits.
Pending(k) ==
    /\ k.owner = "httpd" => k.want > 0
    /\ k.owner = NONE => k.raw \/ k.want > 0
    /\ k.want <= k.size /\ k.size <= SOAPMAXREQPAYLOADLEN

\* A body is announced with a length that was accepted, and a method called
\* only in the last state of a connection.
Request(k) ==
    /\ k.clen # NULL => Accepted(k.clen)
    /\ k.calls \in {0, 1}
    /\ k.state # "PROCESSING" => k.calls = 0

Good(k) == k \in Conn /\ Detection(k) /\ Pending(k) /\ Request(k)

\* The listeners: see Configured and Established.
ListenInv ==
    /\ phase \in {"secondpass", "final", "running"}
    /\ loaded \subseteq Mods
    /\ conf \in Confs
    /\ open \subseteq Listener /\ Distinct(open)
    /\ refused \subseteq Entry
    /\ phase # "secondpass" => loaded = Mods
    /\ phase = "running" => /\ Configured(open, conf)
                            /\ Established(open, conf, Len(conf), Mods, refused)

ConnInv ==
    /\ conns \in [Conns -> Conn \cup {NULL}]
    /\ \A c \in Conns : Open(c) => Good(conns[c])

IInv == ListenInv /\ ConnInv

-----------------------------------------------------------------------------
(* What the steps make of a connection *)

\* r is the connection k with another read.
OnlyRead(r, k, w, z) ==
    /\ r \in Conn
    /\ r.want = w /\ r.size = z
    /\ r.owner = k.owner /\ r.detecting = k.detecting /\ r.raw = k.raw
    /\ r.state = k.state /\ r.closing = k.closing
    /\ r.file = k.file /\ r.clen = k.clen /\ r.calls = k.calls

\* Posting a read changes the pending read of a connection and nothing else.
LEMMA ReadingFields ==
    ASSUME NEW k \in Conn, NEW w \in Nat, NEW z \in Nat
    PROVE  OnlyRead(Reading(k, w, z), k, w, z)
BY DEF OnlyRead, Reading, Conn

\* A connection that is right but for its read, once it has one that fits.
LEMMA ReadingGood ==
    ASSUME NEW k \in Conn, Detection(k), Request(k), NEW w \in Nat, NEW z \in Nat,
           0 < w, w <= z, z <= SOAPMAXREQPAYLOADLEN
    PROVE  Good(Reading(k, w, z))
<1> DEFINE r == Reading(k, w, z)
<1>1. OnlyRead(r, k, w, z)
      BY ReadingFields
<1> HIDE DEF r
<1>2. Detection(r)
      BY <1>1 DEF OnlyRead, Detection
<1>3. Pending(r)
      BY <1>1 DEF OnlyRead, Pending
<1>4. Request(r)
      BY <1>1 DEF OnlyRead, Request
<1>q. QED BY <1>1, <1>2, <1>3, <1>4 DEF Good, OnlyRead, r

\* A connection that was just accepted (naf_conn_addconn) is in order: in
\* detection, with no read posted and no request begun.
LEMMA NewGood == Good(NewConn)
BY TxAssumption, TimeoutAssumption, ModsAssumption, HttpdAssumption
   DEF Good, NewConn, Conn, State, File, Detection, Pending, Request, SOAPMAXREQPAYLOADLEN

\* takeconn ends detection and asks for the first line.
LEMMA TakeconnGood ==
    ASSUME NEW k \in Conn, k.calls = 0, k.clen = NULL, NEW t, t = takeconn(k)
    PROVE  /\ t \in Conn /\ Pending(t) /\ Request(t)
           /\ t.want > 0
           /\ t.detecting = FALSE /\ t.raw = k.raw /\ t.owner = k.owner
           /\ t.state = "FRESH" /\ t.calls = 0 /\ t.clen = NULL
<1> DEFINE d == [k EXCEPT !.detecting = FALSE, !.state = "FRESH", !.delim = TRUE]
<1>1. /\ d \in Conn /\ d.detecting = FALSE /\ d.raw = k.raw /\ d.owner = k.owner
      /\ d.state = "FRESH" /\ d.calls = k.calls /\ d.clen = k.clen
      BY DEF Conn, State
<1>2. t = Reading(d, 1024, 1024)
      BY DEF takeconn, SOAPBUFLEN
<1> HIDE DEF d
<1>3. /\ t \in Conn /\ t.want = 1024 /\ t.size = 1024
      /\ t.detecting = FALSE /\ t.raw = k.raw /\ t.owner = k.owner
      /\ t.state = "FRESH" /\ t.calls = 0 /\ t.clen = NULL
    <2>1. OnlyRead(t, d, 1024, 1024)
          BY <1>1, <1>2, ReadingFields
    <2>q. QED BY <1>1, <2>1 DEF OnlyRead
<1>q. QED BY <1>3 DEF Pending, Request, SOAPMAXREQPAYLOADLEN

\* A connection of a listener with an owner is handed to that module without
\* detection (connhandler_incomingconn).
LEMMA ForcedGood ==
    ASSUME NEW m \in Mods
    PROVE  Good(Forced(NewConn, m))
<1>1. m # NONE /\ m \in {"httpd", "timps-oscar"} /\ "httpd" # NONE
      BY ModsAssumption, HttpdAssumption
<1> DEFINE t == IF m = "httpd" THEN takeconn(NewConn) ELSE [NewConn EXCEPT !.detecting = FALSE]
           f == [t EXCEPT !.owner = m, !.raw = t.detecting /\ t.raw]
<1>2. Forced(NewConn, m) = f
      BY DEF Forced
<1>3. /\ NewConn \in Conn /\ NewConn.calls = 0 /\ NewConn.clen = NULL
      /\ NewConn.want = 0 /\ NewConn.size = 0
      BY NewGood DEF Good, NewConn
<1>4. /\ t \in Conn /\ t.detecting = FALSE /\ t.calls = 0 /\ t.clen = NULL
      /\ t.want \in Nat /\ t.want <= t.size /\ t.size <= SOAPMAXREQPAYLOADLEN
      /\ m = "httpd" => t.want > 0
    <2>1. CASE m = "httpd"
        <3>1. t = takeconn(NewConn)
              BY <2>1
        <3>2. t \in Conn /\ Pending(t) /\ t.want > 0 /\ t.detecting = FALSE
              /\ t.calls = 0 /\ t.clen = NULL
              BY <1>3, <3>1, TakeconnGood
        <3> HIDE DEF t
        <3>q. QED BY <3>2 DEF Pending, Conn
    <2>2. CASE m # "httpd"
        <3>1. t = [NewConn EXCEPT !.detecting = FALSE]
              BY <2>2
        <3> HIDE DEF t
        <3>2. /\ t \in Conn /\ t.detecting = FALSE /\ t.calls = NewConn.calls
              /\ t.clen = NewConn.clen /\ t.want = NewConn.want /\ t.size = NewConn.size
              BY <1>3, <3>1 DEF Conn
        <3>q. QED BY <1>3, <2>2, <3>2 DEF SOAPMAXREQPAYLOADLEN
    <2>q. QED BY <2>1, <2>2
<1> HIDE DEF t
<1>5. (t.detecting /\ t.raw) = FALSE
      BY <1>4
<1>6. /\ f \in Conn /\ f.owner = m /\ f.raw = FALSE /\ f.detecting = FALSE
      /\ f.want = t.want /\ f.size = t.size /\ f.calls = 0 /\ f.clen = NULL
      BY <1>4, <1>5 DEF Conn
<1> HIDE DEF f
<1>q. QED BY <1>1, <1>2, <1>4, <1>6 DEF Good, Detection, Pending, Request

\* timerhandler leaves a connection that exceeded the detection timeout taken
\* by httpd or closing.
LEMMA TimedOutGood ==
    ASSUME NEW c, Good(conns[c]), conns[c].detecting
    PROVE  Good(TimedOut(c))
<1> DEFINE k == conns[c]
           t == takeconn(k)
           r == [t EXCEPT !.raw = FALSE, !.closing = TRUE]
<1>1. k \in Conn /\ k.owner = NONE /\ k.calls = 0 /\ k.clen = NULL
      BY DEF Good, Detection, Request
<1>2. TimedOut(c) = r
      BY DEF TimedOut
<1> HIDE DEF k
<1>3. /\ t \in Conn /\ Pending(t) /\ t.want > 0 /\ t.detecting = FALSE /\ t.owner = NONE
      /\ t.calls = 0 /\ t.clen = NULL
      BY <1>1, TakeconnGood
<1> HIDE DEF t
<1>4. /\ r \in Conn /\ r.want = t.want /\ r.size = t.size /\ r.detecting = FALSE
      /\ r.owner = t.owner /\ r.closing = TRUE /\ r.calls = t.calls /\ r.clen = t.clen
      BY <1>3 DEF Conn
<1> HIDE DEF r
<1>q. QED BY <1>2, <1>3, <1>4, ModsAssumption, HttpdAssumption
          DEF Good, Detection, Pending, Request

\* The time a connection has spent in detection may grow up to the timeout.
LEMMA OlderGood ==
    ASSUME NEW k, Good(k), k.age < Timeout
    PROVE  Good([k EXCEPT !.age = @ + 1])
BY TimeoutAssumption DEF Good, Conn, Detection, Pending, Request

\* A connection of httpd after takeread.
TakenFrom(t, k) ==
    /\ t \in Conn
    /\ t.owner = "httpd" /\ t.detecting = FALSE /\ t.raw = FALSE
    /\ t.state = k.state /\ t.clen = k.clen /\ t.calls = k.calls
    /\ Detection(t) /\ Request(t)

\* What naf_conn_takeread leaves of a connection httpd has: all fields but
\* the read that was completed.
LEMMA TakenFields ==
    ASSUME NEW c, Good(conns[c]), conns[c].owner = "httpd"
    PROVE  TakenFrom(Taken(c), conns[c])
<1> DEFINE k == conns[c]
           t == Taken(c)
<1>1. k \in Conn /\ k.owner = "httpd" /\ k.owner # NONE
      BY ModsAssumption, HttpdAssumption DEF Good
<1>2. k.detecting = FALSE /\ k.raw = FALSE
      BY <1>1 DEF Good, Detection, Conn
<1>3. Detection(k) /\ Request(k)
      BY DEF Good
<1>4. t = Reading(k, 0, 0)
      BY DEF Taken
<1> HIDE DEF k
<1>5. OnlyRead(t, k, 0, 0)
      BY <1>1, <1>4, ReadingFields
<1> HIDE DEF t
<1>6. Detection(t) /\ Request(t)
      BY <1>3, <1>5 DEF OnlyRead, Detection, Request
<1>q. QED BY <1>1, <1>2, <1>5, <1>6 DEF TakenFrom, OnlyRead, k, t

\* After a request line httpd reads headers, into a buffer that holds them.
LEMMA FirstLineGood ==
    ASSUME NEW k, NEW t, TakenFrom(t, k), k.state = "FRESH",
           NEW method \in {"get", "post"}, NEW file \in File
    PROVE  Good(Reading([t EXCEPT !.state = "INHEADERS", !.method = method, !.file = file],
                        SOAPBUFLEN, SOAPBUFLEN))
<1> DEFINE d == [t EXCEPT !.state = "INHEADERS", !.method = method, !.file = file]
<1>1. t \in Conn
      BY DEF TakenFrom
<1>2. d \in Conn
      BY <1>1 DEF Conn, State
<1>3. /\ d.state = "INHEADERS" /\ d.owner = t.owner /\ d.detecting = t.detecting
      /\ d.raw = t.raw /\ d.closing = t.closing /\ d.clen = t.clen /\ d.calls = t.calls
      BY <1>1 DEF Conn
<1> HIDE DEF d
<1>4. Detection(d)
      BY <1>3, ModsAssumption, HttpdAssumption DEF TakenFrom, Detection
<1>5. Request(d)
      BY <1>3 DEF TakenFrom, Request
<1>q. QED BY <1>2, <1>4, <1>5, ReadingGood DEF d, SOAPBUFLEN, SOAPMAXREQPAYLOADLEN

\* After a header httpd reads the next one, into a buffer of the same size.
LEMMA HeaderGood ==
    ASSUME NEW k, NEW t, TakenFrom(t, k)
    PROVE  Good(Reading(t, SOAPBUFLEN, SOAPBUFLEN))
BY ReadingGood DEF TakenFrom, SOAPBUFLEN, SOAPMAXREQPAYLOADLEN

\* After a Content-Length that httpd accepts the first value is kept and the
\* next header is read.
LEMMA LengthGood ==
    ASSUME NEW k, NEW t, TakenFrom(t, k), NEW n \in Lengths, Accepted(n)
    PROVE  Good(Reading([t EXCEPT !.clen = IF @ = NULL THEN n ELSE @],
                        SOAPBUFLEN, SOAPBUFLEN))
<1> DEFINE d == [t EXCEPT !.clen = IF @ = NULL THEN n ELSE @]
<1>1. t \in Conn
      BY DEF TakenFrom
<1>2. d \in Conn
      BY <1>1 DEF Conn
<1>3. /\ d.owner = t.owner /\ d.detecting = t.detecting /\ d.state = t.state
      /\ d.raw = t.raw /\ d.closing = t.closing /\ d.calls = t.calls
      /\ d.clen = IF t.clen = NULL THEN n ELSE t.clen
      BY <1>1 DEF Conn
<1> HIDE DEF d
<1>4. Detection(d)
      BY <1>3, ModsAssumption, HttpdAssumption DEF TakenFrom, Detection
<1>5. Request(d)
      BY <1>3 DEF TakenFrom, Request
<1>q. QED BY <1>2, <1>4, <1>5, ReadingGood DEF d, SOAPBUFLEN, SOAPMAXREQPAYLOADLEN

\* The read of a body is as long as Content-Length, and its buffer is too.
LEMMA BodyGood ==
    ASSUME NEW k, NEW t, TakenFrom(t, k), k.state = "INHEADERS", k.clen \notin {NULL, 0}
    PROVE  Good(Reading([t EXCEPT !.state = "INREQPAYLOAD"], k.clen, BodyBuffer(k.clen)))
<1> DEFINE d == [t EXCEPT !.state = "INREQPAYLOAD"]
           n == k.clen
<1>1. t \in Conn /\ t.clen = n
      BY DEF TakenFrom
<1>2. d \in Conn
      BY <1>1 DEF Conn, State
<1>3. /\ d.state = "INREQPAYLOAD" /\ d.owner = t.owner /\ d.detecting = t.detecting
      /\ d.raw = t.raw /\ d.closing = t.closing /\ d.clen = t.clen /\ d.calls = t.calls
      BY <1>1 DEF Conn
<1> HIDE DEF d
<1>4. Detection(d)
      BY <1>3, ModsAssumption, HttpdAssumption DEF TakenFrom, Detection
<1>5. Request(d)
      BY <1>3 DEF TakenFrom, Request
<1>6. n \in Nat /\ 0 < n /\ n <= SOAPMAXREQPAYLOADLEN
    <2>1. n \in Lengths
          BY <1>1 DEF Conn
    <2>2. Accepted(n)
          BY <1>1 DEF TakenFrom, Request
    <2>3. n \in Nat /\ n # 0
          BY <2>1, LengthAssumption
    <2> HIDE DEF n
    <2>q. QED BY <2>2, <2>3 DEF Accepted, SOAPMAXREQPAYLOADLEN
<1> HIDE DEF n
<1>7. BodyBuffer(n) \in Nat /\ n <= BodyBuffer(n) /\ BodyBuffer(n) <= SOAPMAXREQPAYLOADLEN
      BY <1>6 DEF BodyBuffer, SOAPBUFLEN, SOAPMAXREQPAYLOADLEN
<1>8. Good(Reading(d, n, BodyBuffer(n)))
      BY <1>2, <1>4, <1>5, <1>6, <1>7, ReadingGood
<1>q. QED BY <1>8 DEF d, n

\* The request is complete: the last state, a byte to read the end into, and
\* no method called so far.
Complete(k) == Good(k) /\ k.owner = "httpd" /\ k.state = "PROCESSING" /\ k.calls = 0

\* A request that enters PROCESSING is complete, and the monitor buffer that
\* notices the client's end is posted, raw or not.
LEMMA CompleteFields ==
    ASSUME NEW k, NEW t, TakenFrom(t, k), k.state # "PROCESSING",
           NEW d \in Conn, d.state = "PROCESSING", d.owner = t.owner,
           d.detecting = t.detecting, d.raw = t.raw, d.closing = t.closing,
           d.clen = t.clen, d.calls = t.calls
    PROVE  Complete(reqmonitorbuf(d))
<1>1. Detection(d)
      BY ModsAssumption, HttpdAssumption DEF TakenFrom, Detection
<1>2. Request(d) /\ d.calls = 0
      BY DEF TakenFrom, Request
<1>3. Good(Reading(d, 1, 1))
      BY <1>1, <1>2, ReadingGood DEF SOAPMAXREQPAYLOADLEN
<1>4. OnlyRead(Reading(d, 1, 1), d, 1, 1)
      BY ReadingFields
<1>q. QED BY <1>2, <1>3, <1>4 DEF Complete, OnlyRead, TakenFrom, reqmonitorbuf, SOAPMONBUFLEN

\* A request without a body is complete at its empty line.
LEMMA NoBodyComplete ==
    ASSUME NEW k, NEW t, TakenFrom(t, k), k.state = "INHEADERS"
    PROVE  Complete(reqmonitorbuf([t EXCEPT !.delim = FALSE, !.state = "PROCESSING"]))
<1> DEFINE d == [t EXCEPT !.delim = FALSE, !.state = "PROCESSING"]
<1>1. t \in Conn
      BY DEF TakenFrom
<1>2. d \in Conn
      BY <1>1 DEF Conn, State
<1>3. /\ d.state = "PROCESSING" /\ d.owner = t.owner /\ d.detecting = t.detecting
      /\ d.raw = t.raw /\ d.closing = t.closing /\ d.clen = t.clen /\ d.calls = t.calls
      BY <1>1 DEF Conn
<1> HIDE DEF d
<1>4. Complete(reqmonitorbuf(d))
      BY <1>2, <1>3, CompleteFields
<1>q. QED BY <1>4 DEF d

\* A request with a body is complete when its body was read.
LEMMA PayloadComplete ==
    ASSUME NEW k, NEW t, TakenFrom(t, k), k.state = "INREQPAYLOAD"
    PROVE  Complete(Processing(t))
<1> DEFINE d == [t EXCEPT !.state = "PROCESSING"]
<1>1. t \in Conn
      BY DEF TakenFrom
<1>2. d \in Conn
      BY <1>1 DEF Conn, State
<1>3. /\ d.state = "PROCESSING" /\ d.owner = t.owner /\ d.detecting = t.detecting
      /\ d.raw = t.raw /\ d.closing = t.closing /\ d.clen = t.clen /\ d.calls = t.calls
      BY <1>1 DEF Conn
<1>4. Processing(t) = reqmonitorbuf(d)
      BY DEF Processing
<1> HIDE DEF d
<1>q. QED BY <1>2, <1>3, <1>4, CompleteFields

\* An answer is queued, and perhaps a method was called.
LEMMA AnswerGood ==
    ASSUME NEW k, Complete(k), NEW r \in Conn, r.want = k.want, r.size = k.size,
           r.owner = k.owner, r.detecting = k.detecting, r.raw = k.raw,
           r.state = k.state, r.clen = k.clen, r.calls \in {0, 1}, r.closing = TRUE
    PROVE  Good(r)
<1>1. Detection(r)
      BY ModsAssumption, HttpdAssumption DEF Complete, Good, Detection
<1>2. Pending(r)
      BY DEF Complete, Good, Pending
<1>3. Request(r)
      BY DEF Complete, Good, Request
<1>q. QED BY <1>1, <1>2, <1>3 DEF Good

\* libnbio's queue of writes never exceeds its capacity.
LEMMA QueuedFits ==
    ASSUME NEW tx \in 0 .. TxMax, NEW n \in Nat
    PROVE  Queued(tx, n) \in 0 .. TxMax
BY TxAssumption DEF Queued

\* httpd_send404 answers a complete request and closes on flush.
LEMMA Send404Good ==
    ASSUME NEW k, Complete(k)
    PROVE  Good(send404(k))
<1> DEFINE q == Queued(k.tx, 1)
           r == [k EXCEPT !.tx = q, !.closing = TRUE]
<1>1. k \in Conn /\ k.calls = 0
      BY DEF Complete, Good
<1>2. q \in 0 .. TxMax
      BY <1>1, QueuedFits DEF Conn
<1>3. send404(k) = r
      BY DEF send404
<1> HIDE DEF q
<1>4. r \in Conn
      BY <1>1, <1>2 DEF Conn
<1>5. /\ r.want = k.want /\ r.size = k.size /\ r.owner = k.owner
      /\ r.detecting = k.detecting /\ r.raw = k.raw /\ r.state = k.state
      /\ r.clen = k.clen /\ r.calls = k.calls /\ r.closing = TRUE
      BY <1>1 DEF Conn
<1> HIDE DEF r
<1>q. QED BY <1>1, <1>3, <1>4, <1>5, AnswerGood

\* An answer after a call of a method, of however many pieces, leaves the
\* connection closing with at most one call.
LEMMA CalledGood ==
    ASSUME NEW k, Complete(k), NEW n \in Nat, NEW calls \in {0, 1}
    PROVE  Good([[k EXCEPT !.tx = Queued(@, n), !.calls = calls] EXCEPT !.closing = TRUE])
<1> DEFINE q == Queued(k.tx, n)
           r == [[k EXCEPT !.tx = q, !.calls = calls] EXCEPT !.closing = TRUE]
<1>1. k \in Conn
      BY DEF Complete, Good
<1>2. q \in 0 .. TxMax
      BY <1>1, QueuedFits DEF Conn
<1> HIDE DEF q
<1>3. r \in Conn
    <2> DEFINE a == [k EXCEPT !.tx = q, !.calls = calls]
    <2>0. calls \in Nat
          OBVIOUS
    <2>1. a \in Conn
          BY <1>1, <1>2, <2>0 DEF Conn
    <2> HIDE DEF a
    <2>2. [a EXCEPT !.closing = TRUE] \in Conn
          BY <2>1 DEF Conn
    <2>q. QED BY <2>2 DEF a
<1>4. /\ r.want = k.want /\ r.size = k.size /\ r.owner = k.owner
      /\ r.detecting = k.detecting /\ r.raw = k.raw /\ r.state = k.state
      /\ r.clen = k.clen /\ r.calls = calls /\ r.closing = TRUE
      BY <1>1 DEF Conn
<1> HIDE DEF r
<1>5. Good(r)
      BY <1>3, <1>4, AnswerGood
<1>q. QED BY <1>5 DEF r, q

\* An answer without a call leaves the connection closing.
LEMMA AnsweredGood ==
    ASSUME NEW k, Complete(k), NEW n \in Nat
    PROVE  Good([[k EXCEPT !.tx = Queued(@, n)] EXCEPT !.closing = TRUE])
<1> DEFINE q == Queued(k.tx, n)
           r == [[k EXCEPT !.tx = q] EXCEPT !.closing = TRUE]
<1>1. k \in Conn /\ k.calls = 0
      BY DEF Complete, Good
<1>2. q \in 0 .. TxMax
      BY <1>1, QueuedFits DEF Conn
<1> HIDE DEF q
<1>3. r \in Conn
      BY <1>1, <1>2 DEF Conn
<1>4. /\ r.want = k.want /\ r.size = k.size /\ r.owner = k.owner
      /\ r.detecting = k.detecting /\ r.raw = k.raw /\ r.state = k.state
      /\ r.clen = k.clen /\ r.calls = k.calls /\ r.closing = TRUE
      BY <1>1 DEF Conn
<1> HIDE DEF r
<1>5. Good(r)
      BY <1>1, <1>3, <1>4, AnswerGood
<1>q. QED BY <1>5 DEF r, q

\* Every answer, or the end of the connection.
LEMMA DorequestGood ==
    ASSUME NEW c, NEW k, NEW body, Complete(k), dorequest(c, k, body)
    PROVE  \E r : (r = NULL \/ Good(r)) /\ SetConn(c, r)
<1>1. k.calls = 0 /\ naf_rpc_request_issue(k.calls) = {0, 1}
      BY DEF Complete, naf_rpc_request_issue
<1>2. CASE SetConn(c, send404(k))
      BY <1>2, Send404Good
<1>3. ASSUME NEW answered \in nafrpc_page_handler(k),
             SetConn(c, [answered EXCEPT !.closing = TRUE])
      PROVE  Good([answered EXCEPT !.closing = TRUE])
    <2>1. CASE answered = [k EXCEPT !.tx = Queued(@, 2)]
          BY <2>1, AnsweredGood
    <2>2. CASE \E n \in IF k.file = "longer" THEN 2 .. MaxPieces ELSE {} :
                   \E calls \in naf_rpc_request_issue(k.calls) :
                      answered = [k EXCEPT !.tx = Queued(@, 1 + n), !.calls = calls]
        <3>1. PICK n \in 2 .. MaxPieces, calls \in {0, 1} :
                 answered = [k EXCEPT !.tx = Queued(@, 1 + n), !.calls = calls]
              BY <1>1, <2>2, Zenon
        <3>2. 1 + n \in Nat
              BY TxAssumption
        <3>q. QED BY <3>1, <3>2, CalledGood
    <2>3. \/ answered = [k EXCEPT !.tx = Queued(@, 2)]
          \/ \E n \in IF k.file = "longer" THEN 2 .. MaxPieces ELSE {} :
                \E calls \in naf_rpc_request_issue(k.calls) :
                   answered = [k EXCEPT !.tx = Queued(@, 1 + n), !.calls = calls]
        <3> DEFINE one == [k EXCEPT !.tx = Queued(@, 2)]
                   pieces == IF k.file = "longer" THEN 2 .. MaxPieces ELSE {}
                   rec(n, calls) == [k EXCEPT !.tx = Queued(@, 1 + n), !.calls = calls]
                   called(n) == {rec(n, calls) : calls \in naf_rpc_request_issue(k.calls)}
        <3>1. answered \in {one} \cup UNION {called(n) : n \in pieces}
              BY <1>3, Zenon DEF nafrpc_page_handler
        <3> HIDE DEF one, pieces, called
        <3>2. answered = one \/ \E n \in pieces : answered \in called(n)
              BY <3>1
        <3> HIDE DEF rec
        <3>3. answered = one \/ \E n \in pieces : \E calls \in naf_rpc_request_issue(k.calls) :
                                   answered = rec(n, calls)
              BY <3>2, Zenon DEF called
        <3>q. QED BY <3>3, Zenon DEF one, pieces, rec
    <2>q. QED BY <2>1, <2>2, <2>3
<1>4. ASSUME NEW calls \in {0, 1}
      PROVE  Good([sendsoapbody(k) EXCEPT !.calls = calls, !.closing = TRUE])
    <2> DEFINE q == Queued(k.tx, 1)
               r == [[k EXCEPT !.tx = q] EXCEPT !.calls = calls, !.closing = TRUE]
    <2>1. k \in Conn
          BY DEF Complete, Good
    <2>2. q \in 0 .. TxMax
          BY <2>1, QueuedFits DEF Conn
    <2> HIDE DEF q
    <2>3. r \in Conn
        <3> DEFINE a == [k EXCEPT !.tx = q]
        <3>1. a \in Conn
              BY <2>1, <2>2 DEF Conn
        <3> HIDE DEF a
        <3>0. calls \in Nat
              OBVIOUS
        <3>2. [a EXCEPT !.calls = calls, !.closing = TRUE] \in Conn
              BY <3>0, <3>1 DEF Conn
        <3>q. QED BY <3>2 DEF a
    <2>4. /\ r.want = k.want /\ r.size = k.size /\ r.owner = k.owner
          /\ r.detecting = k.detecting /\ r.raw = k.raw /\ r.state = k.state
          /\ r.clen = k.clen /\ r.calls = calls /\ r.closing = TRUE
          BY <2>1 DEF Conn
    <2> HIDE DEF r
    <2>5. Good(r)
          BY <2>3, <2>4, AnswerGood
    <2>q. QED BY <2>5 DEF r, q, sendsoapbody
<1>5. CASE dorequest_get(c, k)
      BY <1>2, <1>3, <1>5 DEF dorequest_get
<1>6. CASE dorequest_post(c, k, body)
    <2>1. CASE handlenafrpc(c, k, body)
        <3>1. PICK parsed \in parsesoaprequest(body) :
                 IF parsed
                 THEN \E calls \in naf_rpc_request_issue(k.calls) :
                         SetConn(c, [sendsoapbody(k) EXCEPT !.calls = calls, !.closing = TRUE])
                 ELSE naf_conn_free(c)
              BY <2>1 DEF handlenafrpc
        <3>2. CASE naf_conn_free(c)
              BY <3>2 DEF naf_conn_free
        <3>3. CASE \E calls \in naf_rpc_request_issue(k.calls) :
                      SetConn(c, [sendsoapbody(k) EXCEPT !.calls = calls, !.closing = TRUE])
              BY <1>1, <1>4, <3>3
        <3>q. QED BY <3>1, <3>2, <3>3
    <2>q. QED BY <1>2, <1>6, <2>1 DEF dorequest_post
<1>q. QED BY <1>5, <1>6 DEF dorequest

-----------------------------------------------------------------------------
(* The steps keep the invariant *)

\* CONFCHANGE, in whatever phase.
LEMMA ConfChangeStep ==
    ASSUME NEW cf \in Confs, NEW mods, open \subseteq Listener, Distinct(open),
           ConfChange(cf, mods)
    PROVE  /\ open' \subseteq Listener /\ Distinct(open') /\ refused' \subseteq Entry
           /\ Configured(open', cf)
           /\ Established(open', cf, Len(cf), mods, refused')
<1>1. cf \in Seq(Entry)
      BY ConfAssumption
<1>2. PICK bad \in SUBSET Range(cf) :
         open' = cleanlisteners(open, cf, mods, bad) /\ refused' = bad
      BY DEF ConfChange
<1>3. Configured(open', cf) /\ Established(open', cf, Len(cf), mods, refused')
      BY <1>1, <1>2, CleanListeners
<1>4. refused' \subseteq Entry
      BY <1>1, <1>2 DEF Range
<1>q. QED BY <1>3, <1>4 DEF Configured

\* A step on one connection.
LEMMA SetConnStep ==
    ASSUME ConnInv, NEW c \in Conns, NEW r, r = NULL \/ Good(r), SetConn(c, r)
    PROVE  ConnInv'
<1>1. r \in Conn \cup {NULL}
      BY DEF Good
<1>2. conns' = [conns EXCEPT ![c] = r] /\ conns \in [Conns -> Conn \cup {NULL}]
      BY DEF SetConn, ConnInv
<1>3. conns' \in [Conns -> Conn \cup {NULL}]
      BY <1>1, <1>2
<1>4. ASSUME NEW d \in Conns, conns'[d] # NULL PROVE Good(conns'[d])
    <2>1. CASE d = c
          BY <1>2, <1>4, <2>1
    <2>2. CASE d # c
          BY <1>2, <1>4, <2>2 DEF ConnInv, Open
    <2>q. QED BY <2>1, <2>2
<1>q. QED BY <1>3, <1>4 DEF ConnInv, Open, Good, Detection, Pending, Request, Accepted

\* The two passes of start-up and a reload keep the invariant: the listeners
\* are brought in line with the configuration, connections stay.
LEMMA ListenStep ==
    ASSUME IInv, naf_init1 \/ naf_init_final \/ signalhandler
    PROVE  IInv'
<1>1. /\ open \subseteq Listener /\ Distinct(open) /\ conf \in Confs
      /\ phase # "secondpass" => loaded = Mods
      /\ loaded \subseteq Mods
      BY DEF IInv, ListenInv
<1>2. ConnInv'
      BY DEF IInv, ConnInv, naf_init1, naf_init_final, signalhandler, Open
<1>3. CASE naf_init1
    <2>1. open' \subseteq Listener /\ Distinct(open)' /\ refused' \subseteq Entry
          BY <1>1, <1>3, ConfChangeStep DEF naf_init1, Distinct
    <2>q. QED BY <1>1, <1>2, <1>3, <2>1 DEF naf_init1, IInv, ListenInv
<1>4. CASE naf_init_final
    <2>1. /\ open' \subseteq Listener /\ Distinct(open') /\ refused' \subseteq Entry
          /\ Configured(open', conf')
          /\ Established(open', conf', Len(conf'), Mods, refused')
          BY <1>1, <1>4, ConfChangeStep DEF naf_init_final
    <2>q. QED BY <1>1, <1>2, <1>4, <2>1
              DEF naf_init_final, IInv, ListenInv, Distinct, Configured, Established
<1>5. CASE signalhandler
    <2>1. conf' \in Confs /\ loaded = Mods /\ ConfChange(conf', loaded)
          BY <1>1, <1>5 DEF signalhandler
    <2>2. /\ open' \subseteq Listener /\ Distinct(open') /\ refused' \subseteq Entry
          /\ Configured(open', conf')
          /\ Established(open', conf', Len(conf'), Mods, refused')
          BY <1>1, <2>1, ConfChangeStep
    <2>q. QED BY <1>1, <1>2, <1>5, <2>1, <2>2 DEF signalhandler, IInv, ListenInv
<1>q. QED BY <1>3, <1>4, <1>5

\* The timer of naf and the passing of time keep every connection in order.
LEMMA TimerStep ==
    ASSUME ConnInv, timerhandler \/ Tick
    PROVE  ConnInv'
<1>1. conns \in [Conns -> Conn \cup {NULL}]
      BY DEF ConnInv
<1>2. CASE timerhandler
    <2>1. \A c \in Conns : Due(c) => Good(TimedOut(c))
          BY TimedOutGood DEF Due, ConnInv
    <2>2. conns' = [c \in Conns |-> IF Due(c) THEN TimedOut(c) ELSE conns[c]]
          BY <1>2 DEF timerhandler
    <2>3. \A c \in Conns : conns'[c] = NULL \/ Good(conns'[c])
          BY <2>1, <2>2 DEF ConnInv, Open
    <2>q. QED BY <2>2, <2>3 DEF ConnInv, Open, Good
<1>3. CASE Tick
    <2> DEFINE older(c) == [conns[c] EXCEPT !.age = @ + 1]
    <2>1. \A c \in Conns : Open(c) /\ conns[c].age < Timeout => Good(older(c))
          BY OlderGood DEF ConnInv
    <2>2. conns' = [c \in Conns |-> IF Open(c) /\ conns[c].age < Timeout
                                    THEN older(c) ELSE conns[c]]
          BY <1>3 DEF Tick
    <2> HIDE DEF older
    <2>3. \A c \in Conns : conns'[c] = NULL \/ Good(conns'[c])
          BY <2>1, <2>2 DEF ConnInv, Open
    <2>q. QED BY <2>2, <2>3 DEF ConnInv, Open, Good
<1>q. QED BY <1>2, <1>3

\* Accepting, offering, ending and flushing a connection keep every
\* connection in order.
LEMMA ConnectionStep ==
    ASSUME IInv, NEW c \in Conns,
           \/ \E l \in open : connhandler_incomingconn(c, l)
           \/ connhandler_read_Unowned(c) \/ connhandler_eof(c) \/ Flushed(c)
    PROVE  ConnInv'
<1>1. ConnInv /\ open \subseteq Listener
      BY DEF IInv, ListenInv
<1>2. ASSUME NEW l \in open, connhandler_incomingconn(c, l) PROVE ConnInv'
    <2>1. l.owner = NONE \/ l.owner \in Mods
          BY <1>1 DEF Listener
    <2>2. CASE l.owner = NONE
          BY <1>1, <1>2, <2>2, NewGood, SetConnStep DEF connhandler_incomingconn
    <2>3. CASE l.owner # NONE
          BY <1>1, <1>2, <2>1, <2>3, ForcedGood, SetConnStep DEF connhandler_incomingconn
    <2>q. QED BY <2>2, <2>3
<1>3. CASE connhandler_read_Unowned(c) \/ connhandler_eof(c) \/ Flushed(c)
    <2>1. SetConn(c, NULL)
          BY <1>3 DEF connhandler_read_Unowned, connhandler_eof, Flushed, naf_conn_free
    <2>q. QED BY <1>1, <2>1, SetConnStep
<1>q. QED BY <1>2, <1>3

\* Whatever httpd's connready reads, the connection stays in order or is freed.
LEMMA ConnreadyStep ==
    ASSUME ConnInv, NEW c \in Conns, connready(c)
    PROVE  ConnInv'
<1> DEFINE k == conns[c]
           t == Taken(c)
<1>1. SUFFICES \E r : (r = NULL \/ Good(r)) /\ SetConn(c, r)
      BY SetConnStep
<1>2. ASSUME NEW s, Ready(c, s) PROVE TakenFrom(t, k) /\ k.state = s
      BY <1>2, TakenFields DEF Ready, ConnInv
<1>3. ASSUME naf_conn_free(c) PROVE \E r : (r = NULL \/ Good(r)) /\ SetConn(c, r)
      BY <1>3 DEF naf_conn_free
<1>4. CASE FirstLine(c)
    <2>1. CASE naf_conn_free(c)
          BY <1>3, <2>1
    <2>2. ASSUME NEW method \in {"get", "post"}, NEW file \in File,
                 SetConn(c, Reading([t EXCEPT !.state = "INHEADERS",
                                         !.method = method, !.file = file],
                                    SOAPBUFLEN, SOAPBUFLEN))
          PROVE  \E r : (r = NULL \/ Good(r)) /\ SetConn(c, r)
        <3>1. TakenFrom(t, k) /\ k.state = "FRESH"
              BY <1>2, <1>4 DEF FirstLine
        <3> HIDE DEF k, t
        <3>q. QED BY <2>2, <3>1, FirstLineGood
    <2>q. QED BY <1>4, <2>1, <2>2 DEF FirstLine
<1>5. CASE HeaderLine_Bad(c) \/ TooMuch(c)
      BY <1>3, <1>5 DEF HeaderLine_Bad, TooMuch
<1>6. CASE HeaderLine(c)
    <2>1. TakenFrom(t, k)
          BY <1>2, <1>6 DEF HeaderLine
    <2>2. \/ SetConn(c, Reading(t, SOAPBUFLEN, SOAPBUFLEN))
          \/ \E n \in Lengths :
                /\ Accepted(n)
                /\ SetConn(c, Reading([t EXCEPT !.clen = IF @ = NULL THEN n ELSE @],
                                      SOAPBUFLEN, SOAPBUFLEN))
          BY <1>6 DEF HeaderLine
    <2> HIDE DEF k, t
    <2>q. QED BY <2>1, <2>2, HeaderGood, LengthGood
<1>7. CASE NoBody(c)
    <2>1. TakenFrom(t, k) /\ k.state = "INHEADERS"
          BY <1>2, <1>7 DEF NoBody
    <2>2. dorequest(c, reqmonitorbuf([t EXCEPT !.delim = FALSE, !.state = "PROCESSING"]), FALSE)
          BY <1>7 DEF NoBody
    <2> HIDE DEF k, t
    <2>3. Complete(reqmonitorbuf([t EXCEPT !.delim = FALSE, !.state = "PROCESSING"]))
          BY <2>1, NoBodyComplete
    <2>q. QED BY <2>2, <2>3, DorequestGood
<1>8. CASE BodyFollows(c)
    <2>1. TakenFrom(t, k) /\ k.state = "INHEADERS" /\ k.clen \notin {NULL, 0}
          BY <1>2, <1>8 DEF BodyFollows
    <2>2. SetConn(c, Reading([t EXCEPT !.state = "INREQPAYLOAD"], k.clen, BodyBuffer(k.clen)))
          BY <1>8 DEF BodyFollows
    <2> HIDE DEF k, t
    <2>q. QED BY <2>1, <2>2, BodyGood
<1>9. CASE Payload(c)
    <2>1. TakenFrom(t, k) /\ k.state = "INREQPAYLOAD"
          BY <1>2, <1>9 DEF Payload
    <2>2. dorequest(c, Processing(t), TRUE)
          BY <1>9 DEF Payload
    <2> HIDE DEF k, t
    <2>3. Complete(Processing(t))
          BY <2>1, PayloadComplete
    <2>q. QED BY <2>2, <2>3, DorequestGood
<1>10. CASE Written(c)
    <2> DEFINE r == [k EXCEPT !.tx = @ - 1]
    <2>1. Good(k) /\ k.tx > 0 /\ SetConn(c, r)
          BY <1>10 DEF Written, ConnInv
    <2> HIDE DEF k
    <2>2. Good(r)
          BY <2>1, TxAssumption DEF Good, Conn, Detection, Pending, Request
    <2> HIDE DEF r
    <2>q. QED BY <2>1, <2>2
<1>q. QED BY <1>4, <1>5, <1>6, <1>7, <1>8, <1>9, <1>10 DEF connready

-----------------------------------------------------------------------------
(* Theorems *)

\* A step that leaves the listeners alone keeps what is known of them.
LEMMA RestListens ==
    ASSUME ListenInv, Rest
    PROVE  ListenInv'
BY DEF Rest, ListenInv, Distinct, Configured, Established

\* The inductive invariant holds of every behaviour, of every configuration.
LEMMA Invariance == Spec => []IInv
<1>1. Init => IInv
    <2>1. SUFFICES ASSUME Init PROVE IInv
          OBVIOUS
    <2>2. ListenInv
          BY <2>1 DEF Init, ListenInv, Distinct
    <2>3. ConnInv
          BY <2>1 DEF Init, ConnInv, Open
    <2>q. QED BY <2>2, <2>3 DEF IInv
<1>2. IInv /\ [Next]_vars => IInv'
    <2>1. SUFFICES ASSUME IInv, [Next]_vars PROVE IInv'
          OBVIOUS
    <2>2. ListenInv /\ ConnInv
          BY <2>1 DEF IInv
    <2>3. CASE naf_init1 \/ naf_init_final \/ signalhandler
          BY <2>1, <2>3, ListenStep
    <2>4. CASE timerhandler \/ Tick
          BY <2>2, <2>4, TimerStep, RestListens DEF IInv, timerhandler, Tick
    <2>5. ASSUME NEW c \in Conns,
                 \/ \E l \in open : connhandler_incomingconn(c, l)
                 \/ connhandler_read_Unowned(c) \/ connhandler_eof(c) \/ Flushed(c)
          PROVE  IInv'
        <3>1. Rest
              BY <2>5 DEF connhandler_incomingconn, connhandler_read_Unowned,
                          connhandler_eof, Flushed
        <3>q. QED BY <2>1, <2>2, <2>5, <3>1, ConnectionStep, RestListens DEF IInv
    <2>6. ASSUME NEW c \in Conns, connready(c) PROVE IInv'
        <3>1. Rest
              BY <2>6 DEF connready, FirstLine, HeaderLine_Bad, HeaderLine, NoBody,
                          BodyFollows, Payload, TooMuch, Written
        <3>q. QED BY <2>2, <2>6, <3>1, ConnreadyStep, RestListens DEF IInv
    <2>7. CASE UNCHANGED vars
        <3>1. ListenInv'
              BY <2>2, <2>7, RestListens DEF vars, Rest
        <3>2. ConnInv'
              BY <2>2, <2>7 DEF vars, ConnInv, Open
        <3>q. QED BY <3>1, <3>2 DEF IInv
    <2>q. QED BY <2>1, <2>3, <2>4, <2>5, <2>6, <2>7 DEF Next
<1>q. QED BY <1>1, <1>2, PTL DEF Spec

\* Type correctness of the listeners and of every field of every connection:
\* the queue of writes never exceeds the 220 buffers naf_conn_addconn asks for.
THEOREM TypeCorrect == Spec => []TypeOK
<1>1. IInv => TypeOK
      BY DEF IInv, ListenInv, ConnInv, TypeOK
<1>q. QED BY <1>1, Invariance, PTL

\* Whatever state a connection is in, libnbio has something to read its end
\* into (httpd_reqmonitorbuf, takeconn, updaterawmode).
THEOREM EndIsNoticed == Spec => []EofNoticed
<1>1. IInv => EofNoticed
    <2>1. SUFFICES ASSUME IInv, NEW c \in Conns, Open(c)
                   PROVE  \/ conns[c].raw
                          \/ conns[c].want > 0
                          \/ conns[c].owner = "timps-oscar"
          BY DEF EofNoticed
    <2>2. Good(conns[c])
          BY <2>1 DEF IInv, ConnInv
    <2>3. conns[c].owner \in {"httpd", "timps-oscar", NONE}
          BY <2>2, HttpdAssumption DEF Good, Conn
    <2>q. QED BY <2>2, <2>3 DEF Good, Pending
<1>q. QED BY <1>1, Invariance, PTL

\* A connection is in protocol detection exactly while nobody has it: it
\* leaves it in takeconn, and a connection the timer gives up is being closed.
THEOREM NoneForgotten == Spec => []DetectedOrOwned
<1>1. IInv => DetectedOrOwned
    <2>1. SUFFICES ASSUME IInv, NEW c \in Conns, Open(c)
                   PROVE  \/ conns[c].owner = NONE /\ (conns[c].detecting \/ conns[c].closing)
                          \/ conns[c].owner # NONE /\ ~conns[c].detecting /\ ~conns[c].raw
          BY DEF DetectedOrOwned
    <2>q. QED BY <2>1 DEF IInv, ConnInv, Good, Detection
<1>q. QED BY <1>1, Invariance, PTL

\* No read of httpd is longer than its buffer, for every Content-Length a
\* client can announce.
THEOREM ReadsFit == Spec => []ReadFits
<1>1. IInv => ReadFits
      BY DEF IInv, ConnInv, Good, Pending, ReadFits
<1>q. QED BY <1>1, Invariance, PTL

\* No connection calls two methods, and none before its request is complete.
THEOREM CalledOnce == Spec => []OneRequest
<1>1. IInv => OneRequest
    <2>1. SUFFICES ASSUME IInv, NEW c \in Conns, Open(c)
                   PROVE  /\ conns[c].calls <= 1
                          /\ conns[c].calls = 1 => conns[c].state = "PROCESSING"
          BY DEF OneRequest
    <2>2. Request(conns[c])
          BY <2>1 DEF IInv, ConnInv, Good
    <2>q. QED BY <2>2 DEF Request
<1>q. QED BY <1>1, Invariance, PTL

\* cleanlisteners brings the listening sockets in line with every value of
\* listenports, whichever sockets are open before and whichever it fails to
\* make.
THEOREM ListenersRight == Spec => []ListenersFollowConf
<1>1. IInv => ListenersFollowConf
    <2>1. SUFFICES ASSUME IInv, phase = "running"
                   PROVE  ListenersFollowConf
          BY DEF ListenersFollowConf
    <2>2. /\ Configured(open, conf) /\ Established(open, conf, Len(conf), Mods, refused)
          /\ conf \in Seq(Entry)
          BY <2>1, ConfAssumption DEF IInv, ListenInv
    <2>3. \A i \in DOMAIN conf : OwnerKnown(conf[i], Mods) /\ i \in 1 .. Len(conf)
        <3>1. SUFFICES ASSUME NEW i \in DOMAIN conf
                       PROVE  OwnerKnown(conf[i], Mods) /\ i \in 1 .. Len(conf)
              OBVIOUS
        <3>2. conf[i] \in Entry /\ i \in 1 .. Len(conf)
              BY <2>2
        <3>q. QED BY <3>2 DEF Entry, OwnerKnown
    <2>4. \A i \in DOMAIN conf : conf[i] \notin refused => \E l \in open : SameSocket(l, conf[i])
          BY <2>2, <2>3 DEF Established
    <2>q. QED BY <2>2, <2>4 DEF ListenersFollowConf, Configured, Distinct
<1>q. QED BY <1>1, Invariance, PTL

============================================================================
