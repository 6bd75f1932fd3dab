------------------------------- MODULE Httpd -------------------------------
(***************************************************************************)
(* What happens to a connection that somebody opens to timpsd: accepted by *)
(* a listener (naf/conn.c), handed to the listener's module or left in     *)
(* protocol detection until the timer gives it up, and, if it belongs to   *)
(* httpd, the request it carries (naf/httpd.c).  Connections of            *)
(* timps-oscar are those of Toscar and only come and go here.              *)
(*                                                                         *)
(* libnbio is external.  It holds one read buffer per connection and       *)
(* TxMax buffers to write; it reports READ when the buffer is full or ends *)
(* with the delimiter, or at once in raw mode; it notices the end of a     *)
(* connection only while it has something to read into; and a connection   *)
(* with closeonflush ends when nothing is left to write.                   *)
(***************************************************************************)
EXTENDS Listeners

CONSTANTS
    Conns,      \* addresses a nafconn can have
    NULL,
    Confs,      \* values of listenports
    Lengths,    \* values of Content-Length
    TxMax,      \* 220 in naf_conn_addconn
    MaxPieces,  \* bound: writes of a page handler
    Timeout     \* NAF_CONN_DETECT_TIMEOUT

ASSUME TxAssumption == TxMax \in Nat \ {0} /\ MaxPieces \in Nat \ {0}
ASSUME TimeoutAssumption == Timeout \in Nat \ {0}
ASSUME HttpdAssumption == Mods = {"httpd", "timps-oscar"}
ASSUME ConfAssumption == Confs \subseteq Seq(Entry)
ASSUME LengthAssumption == Lengths \subseteq Nat

VARIABLES
    phase,    \* of the start-up: "secondpass", "final", "running"
    loaded,   \* modules of Mods that are loaded
    conf,     \* listenports
    open,     \* the listeners
    refused,  \* entries whose socket could not be made the last time
    conns     \* NULL or a connection

vars == <<phase, loaded, conf, open, refused, conns>>

SOAPBUFLEN == 1024
SOAPMONBUFLEN == 1
SOAPMAXREQPAYLOADLEN == 2048

\* The names the code tells apart: /nafrpc, a longer one, and any other.
File == {"nafrpc", "longer", "other"}

State == {"FRESH", "INHEADERS", "INREQPAYLOAD", "PROCESSING"}

\* want and size: the read libnbio has been asked for and the size of the
\* buffer (0: none); method: the tag conn.httprequest.get or .post, file:
\* its value; clen: the tag conn.httpheader.content-length; calls: methods
\* called on behalf of the connection.
Conn == [owner : Mods \cup {NONE}, detecting : BOOLEAN, raw : BOOLEAN,
         state : State, delim : BOOLEAN, want : Nat, size : Nat,
         tx : 0 .. TxMax, closing : BOOLEAN, age : 0 .. Timeout,
         method : {NULL, "get", "post"}, file : File \cup {NULL},
         clen : Lengths \cup {NULL}, calls : Nat]

-----------------------------------------------------------------------------
(* Listeners *)

ConfChange(newconf, mods) ==
    \E bad \in SUBSET Range(newconf) :
        /\ open' = cleanlisteners(open, newconf, mods, bad)
        /\ refused' = bad

\* The signal "to jumpstart logging" comes before httpd and timps-oscar are
\* loaded.
naf_init1 ==
    /\ phase = "secondpass"
    /\ ConfChange(conf, loaded)
    /\ loaded' = Mods
    /\ phase' = "final"
    /\ UNCHANGED <<conf, conns>>

naf_init_final ==
    /\ phase = "final"
    /\ ConfChange(conf, loaded)
    /\ phase' = "running"
    /\ UNCHANGED <<loaded, conf, conns>>

\* SIGHUP: the file is read again, and CONFCHANGE sent.
signalhandler ==
    /\ phase = "running"
    /\ conf' \in Confs
    /\ ConfChange(conf', loaded)
    /\ UNCHANGED <<phase, loaded, conns>>

-----------------------------------------------------------------------------
(* Connections *)

Open(c) == conns[c] # NULL
SetConn(c, k) == conns' = [conns EXCEPT ![c] = k]
naf_conn_free(c) == SetConn(c, NULL)
Rest == UNCHANGED <<phase, loaded, conf, open, refused>>

\* naf_conn_addconn for an accepted connection, in raw mode for detection.
NewConn ==
    [owner |-> NONE, detecting |-> TRUE, raw |-> TRUE, state |-> "FRESH",
     delim |-> FALSE, want |-> 0, size |-> 0, tx |-> 0, closing |-> FALSE,
     age |-> 0, method |-> NULL, file |-> NULL, clen |-> NULL, calls |-> 0]

Reading(k, want, size) == [k EXCEPT !.want = want, !.size = size]

\* Mutation: the connection stays in protocol detection.
takeconn_Detecting(k) ==
    Reading([k EXCEPT !.state = "FRESH", !.delim = TRUE], SOAPBUFLEN, SOAPBUFLEN)

\* takeconn of httpd.
takeconn(k) ==
    Reading([k EXCEPT !.detecting = FALSE, !.state = "FRESH", !.delim = TRUE],
            SOAPBUFLEN, SOAPBUFLEN)

\* The new owner sets the connection up, and updaterawmode follows.
Forced(k, m) ==
    LET t == IF m = "httpd" THEN takeconn(k) ELSE [k EXCEPT !.detecting = FALSE]
    IN  [t EXCEPT !.owner = m, !.raw = t.detecting /\ t.raw]

connhandler_incomingconn(c, l) ==
    /\ phase = "running" /\ ~Open(c) /\ l \in open
    /\ SetConn(c, IF l.owner = NONE THEN NewConn ELSE Forced(NewConn, l.owner))
    /\ Rest

\* READ in protocol detection: no module has a protocoldetect function.
\* READ on a connection that nobody owns.
connhandler_read_Unowned(c) ==
    /\ Open(c) /\ conns[c].owner = NONE
    /\ conns[c].raw \/ conns[c].want > 0
    /\ naf_conn_free(c)
    /\ Rest

\* The peer goes away, or timps-oscar is done with the connection.
connhandler_eof(c) ==
    /\ Open(c)
    /\ conns[c].raw \/ conns[c].want > 0 \/ conns[c].owner = "timps-oscar"
    /\ naf_conn_free(c)
    /\ Rest

\* closeonflush.
Flushed(c) ==
    /\ Open(c) /\ conns[c].closing /\ conns[c].tx = 0
    /\ naf_conn_free(c)
    /\ Rest

Due(c) == Open(c) /\ conns[c].detecting /\ conns[c].age >= Timeout

\* Mutation: a connection that httpd does not take is forgotten.
TimedOut_Forget(c) == [takeconn(conns[c]) EXCEPT !.raw = FALSE]

\* timerhandler_matcher: raw mode ends, connready of httpd is asked and
\* returns what takeconn does, which is not 1, so nobody owns the connection.
TimedOut(c) == [takeconn(conns[c]) EXCEPT !.raw = FALSE, !.closing = TRUE]

timerhandler ==
    /\ \E c \in Conns : Due(c)
    /\ conns' = [c \in Conns |-> IF Due(c) THEN TimedOut(c) ELSE conns[c]]
    /\ Rest

Tick ==
    /\ \E c \in Conns : Open(c) /\ conns[c].age < Timeout
    /\ conns' = [c \in Conns |->
                    IF Open(c) /\ conns[c].age < Timeout
                    THEN [conns[c] EXCEPT !.age = @ + 1] ELSE conns[c]]
    /\ Rest

-----------------------------------------------------------------------------
(* Requests *)

\* The read of an httpd connection in this state is complete; takeread
\* removes its buffer.
Ready(c, state) ==
    /\ Open(c) /\ conns[c].owner = "httpd" /\ ~conns[c].detecting
    /\ conns[c].state = state /\ conns[c].want > 0
Taken(c) == Reading(conns[c], 0, 0)

\* naf_conn_reqwrite n times; a page handler does not mind if it fails.
Queued(tx, n) == IF tx + n > TxMax THEN TxMax ELSE tx + n

\* handlefirstreqline.
FirstLine(c) ==
    /\ Ready(c, "FRESH")
    /\ \/ naf_conn_free(c)
       \/ \E method \in {"get", "post"}, file \in File :
             SetConn(c, Reading([Taken(c) EXCEPT !.state = "INHEADERS",
                                    !.method = method, !.file = file],
                                SOAPBUFLEN, SOAPBUFLEN))
    /\ Rest

Accepted(n) == n <= SOAPMAXREQPAYLOADLEN

\* A line without a colon, or with a Content-Length that is refused.
HeaderLine_Bad(c) ==
    /\ Ready(c, "INHEADERS")
    /\ naf_conn_free(c)
    /\ Rest

\* handleheaderline: the first Content-Length counts, naf_conn_tag_add
\* refuses the others.
HeaderLine(c) ==
    /\ Ready(c, "INHEADERS")
    /\ \/ SetConn(c, Reading(Taken(c), SOAPBUFLEN, SOAPBUFLEN))
       \/ \E n \in Lengths :
             /\ Accepted(n)
             /\ SetConn(c, Reading([Taken(c) EXCEPT !.clen = IF @ = NULL THEN n ELSE @],
                                   SOAPBUFLEN, SOAPBUFLEN))
    /\ Rest

\* Mutation: nothing to read into.
reqmonitorbuf_None(k) == k

reqmonitorbuf(k) == Reading(k, SOAPMONBUFLEN, SOAPMONBUFLEN)

\* Mutation: a page that does not exist leaves the connection open.
send404_Open(k) == [k EXCEPT !.tx = Queued(@, 1)]

send404(k) == [k EXCEPT !.tx = Queued(@, 1), !.closing = TRUE]

\* naf_rpc_request_issue: the module and the method of the request may not
\* exist; if they do, the method has run when it returns.
naf_rpc_request_issue(calls) == {calls, calls + 1}

\* naf_httpd_page__find_hard, then naf_httpd_page__find_loose, in the list
\* where modinit puts /nafrpc.
naf_httpd_page__find(file) == file \in {"nafrpc", "longer"}

\* nafrpc_page_handler after the status line: a complaint about the name
\* or the request in one piece, or the method and what it returned.
nafrpc_page_handler(k) ==
    {[k EXCEPT !.tx = Queued(@, 2)]} \cup
    UNION {{[k EXCEPT !.tx = Queued(@, 1 + n), !.calls = calls] :
               calls \in naf_rpc_request_issue(k.calls)} :
           n \in IF k.file = "longer" THEN 2 .. MaxPieces ELSE {}}

dorequest_get(c, k) ==
    \/ ~naf_httpd_page__find(k.file) /\ SetConn(c, send404(k))
    \/ /\ naf_httpd_page__find(k.file)
       /\ \E answered \in nafrpc_page_handler(k) :
             SetConn(c, [answered EXCEPT !.closing = TRUE])

\* Whether the body holds an envelope that names a module and a method.
parsesoaprequest(body) == IF body THEN BOOLEAN ELSE {FALSE}

\* What the method returned, or a fault, in one piece.
sendsoapbody(k) == [k EXCEPT !.tx = Queued(@, 1)]

\* What cannot be parsed has no answer: the caller frees the connection.
handlenafrpc(c, k, body) ==
    \E parsed \in parsesoaprequest(body) :
        IF parsed
        THEN \E calls \in naf_rpc_request_issue(k.calls) :
                SetConn(c, [sendsoapbody(k) EXCEPT !.calls = calls, !.closing = TRUE])
        ELSE naf_conn_free(c)

dorequest_post(c, k, body) ==
    \/ k.file = "nafrpc" /\ handlenafrpc(c, k, body)
    \/ k.file # "nafrpc" /\ SetConn(c, send404(k))

dorequest(c, k, body) ==
    \/ k.method = "get" /\ dorequest_get(c, k)
    \/ k.method = "post" /\ dorequest_post(c, k, body)

\* The blank line of a request without a body.
NoBody(c) ==
    /\ Ready(c, "INHEADERS")
    /\ conns[c].clen \in {NULL, 0}
    /\ dorequest(c, reqmonitorbuf([Taken(c) EXCEPT !.delim = FALSE,
                                       !.state = "PROCESSING"]), FALSE)
    /\ Rest

\* Mutation: the limit is the one of the payload.
BodyBuffer_Max(n) == IF n > SOAPMAXREQPAYLOADLEN THEN n ELSE SOAPBUFLEN

\* The buffer of the headers is used again if it is large enough.
BodyBuffer(n) == IF n > SOAPBUFLEN THEN n ELSE SOAPBUFLEN

\* The blank line before a body; the delimiter stays.
BodyFollows(c) ==
    /\ Ready(c, "INHEADERS")
    /\ conns[c].clen \notin {NULL, 0}
    /\ SetConn(c, Reading([Taken(c) EXCEPT !.state = "INREQPAYLOAD"],
                          conns[c].clen, BodyBuffer(conns[c].clen)))
    /\ Rest

\* Mutation: the connection is ready for another body.
Processing_Again(k) == Reading(k, SOAPBUFLEN, SOAPBUFLEN)

Processing(k) == reqmonitorbuf([k EXCEPT !.state = "PROCESSING"])

\* A body, or the part of it before the delimiter.
Payload(c) ==
    /\ Ready(c, "INREQPAYLOAD")
    /\ dorequest(c, Processing(Taken(c)), TRUE)
    /\ Rest

\* More data while the answer is being written.
TooMuch(c) ==
    /\ Ready(c, "PROCESSING")
    /\ naf_conn_free(c)
    /\ Rest

\* WRITE: naf_conn_takewrite.
Written(c) ==
    /\ Open(c) /\ conns[c].owner = "httpd" /\ conns[c].tx > 0
    /\ SetConn(c, [conns[c] EXCEPT !.tx = @ - 1])
    /\ Rest

-----------------------------------------------------------------------------
(* Specification *)

Init ==
    /\ phase = "secondpass"
    /\ loaded = {}
    /\ conf \in Confs
    /\ open = {}
    /\ refused = {}
    /\ conns = [c \in Conns |-> NULL]

connready(c) ==
    \/ FirstLine(c)
    \/ HeaderLine_Bad(c)
    \/ HeaderLine(c)
    \/ NoBody(c)
    \/ BodyFollows(c)
    \/ Payload(c)
    \/ TooMuch(c)
    \/ Written(c)

Next ==
    \/ naf_init1 \/ naf_init_final \/ signalhandler
    \/ timerhandler \/ Tick
    \/ \E c \in Conns :
          \/ \E l \in open : connhandler_incomingconn(c, l)
          \/ connhandler_read_Unowned(c) \/ connhandler_eof(c) \/ Flushed(c)
          \/ connready(c)

Spec == Init /\ [][Next]_vars

\* Time passes, naf_main runs the timers, poll closes what is flushed, and
\* a client takes the answer it asked for (httpd has no timeout for one that
\* does not).
FairSpec ==
    /\ Spec
    /\ WF_vars(Tick) /\ WF_vars(timerhandler)
    /\ \A c \in Conns : WF_vars(Flushed(c)) /\ WF_vars(Written(c))

-----------------------------------------------------------------------------
(* Properties *)

TypeOK ==
    /\ phase \in {"secondpass", "final", "running"}
    /\ loaded \subseteq Mods
    /\ conf \in Confs
    /\ open \subseteq Listener
    /\ refused \subseteq Entry
    /\ conns \in [Conns -> Conn \cup {NULL}]

\* "the only way to detect the EOF is to have a pending read": whatever
\* state a connection is in, and while it is being closed, libnbio can tell
\* that the peer is gone.
EofNoticed ==
    \A c \in Conns : Open(c) =>
        \/ conns[c].raw
        \/ conns[c].want > 0
        \/ conns[c].owner = "timps-oscar"

\* A connection is in protocol detection exactly while nobody has it, and a
\* connection that nobody has after detection is being closed.
DetectedOrOwned ==
    \A c \in Conns : Open(c) =>
        \/ conns[c].owner = NONE /\ (conns[c].detecting \/ conns[c].closing)
        \/ conns[c].owner # NONE /\ ~conns[c].detecting /\ ~conns[c].raw

\* No read is longer than its buffer, whatever Content-Length a client
\* announces, and none exceeds SOAPMAXREQPAYLOADLEN.
ReadFits ==
    \A c \in Conns : Open(c) =>
        /\ conns[c].want <= conns[c].size
        /\ conns[c].size <= SOAPMAXREQPAYLOADLEN

\* A connection carries one request: no method is called twice, and none
\* before the request is complete.
OneRequest ==
    \A c \in Conns : Open(c) =>
        /\ conns[c].calls <= 1
        /\ conns[c].calls = 1 => conns[c].state = "PROCESSING"

SameSocket(l, e) == l.port = e.port /\ l.addr = BoundAddr(e)

\* Once the start-up is over, and after every reload, there is one listener
\* for each address and port of listenports (unless the socket was refused)
\* and no other; one on any address has the owner its entry names.
ListenersFollowConf ==
    phase = "running" =>
        /\ \A l \in open : \E i \in DOMAIN conf : SameSocket(l, conf[i])
        /\ \A i \in DOMAIN conf : conf[i] \notin refused =>
              \E l \in open : SameSocket(l, conf[i])
        /\ \A l, k \in open : l.port = k.port /\ l.addr = k.addr => l = k
        /\ \A l \in open : l.addr = ANY =>
              \E i \in DOMAIN conf : SameSocket(l, conf[i]) /\ conf[i].owner = l.owner

\* A connection that nobody has is given up in the end.
UnownedEnds ==
    \A c \in Conns : (Open(c) /\ conns[c].owner = NONE) ~> (~Open(c) \/ conns[c].owner # NONE)

\* A request that has been carried out does not keep its connection.
AnsweredEnds ==
    \A c \in Conns : (Open(c) /\ conns[c].state = "PROCESSING")
                         ~> (~Open(c) \/ conns[c].state # "PROCESSING")

============================================================================
