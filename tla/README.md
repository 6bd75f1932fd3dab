# A verification project for timps

timps is a transparent instant-messaging proxy: AIM clients connect to `timpsd`
instead of AOL's hosts, `timpsd` opens a connection to the real host for each of
them, rewrites the few packets it has to and routes the messages itself. The
program is one thread around `poll` (libnbio), a small module framework (`naf`), a
registry of users and a message router (`gnr`), and the protocol module
`timps-oscar`. This directory holds TLA+ models of its parts, the TLC
configurations that check them and proofs that TLAPS checks.

    tlc -workers 2 -config MCToscar.cfg MCToscar    # one run; all are listed below
    tlapm ToscarProofs.tla                          # eight modules hold proofs; minutes each

## 1. The system

| part | state | operations | interacts with |
|---|---|---|---|
| connections, `naf/conn.c` | `nafconn`: type flags, owner, endpoint, tags, queues; listeners | accept, connect, read, write, eof, free with its cascade, scheduled kill, reload of listeners, detection timeout | every module, through `connready`, `takeconn`, `connkill`, `freetag` |
| modules, `naf/module.c`, `naf/daemon.c` | list of modules, status, time of the last timer run | add, load by priority, unload in list order, timers, signals, protocol detection | everything |
| node registry, `gnr/node.c` | hash table of users: owner, metric, ttl, last use, references; counters | online, offline, find, use, remetric, expiry | events to `timps-logging`, `timps-otr` |
| message routing, `gnr/msg.c` | three lists of handlers by position | register, route through prerouting, routing, postrouting, output | handlers of all modules; re-entered by `timps-otr` |
| events, `gnr/core.c` | list of event handlers | register, throw, free | node registry, listeners |
| OSCAR sessions, `timps/oscar/{oscar,flap,snac}.c` | flags and tags of connections | login, cookie hand-over, Client Online, Host Online, pause, disconnect | connections, cookie cache, nodes |
| cookie cache, `timps/oscar/ckcache.c` | cookies issued to clients and the host behind each | add, take, expire | sessions |
| instant messages, `timps/oscar/im.c` | the message being handled | 0004/0006, 0004/0007 to a `gnrmsg` and back, text converted on the way | routing, buffers, TLVs |
| buffers and TLVs, `naf/sbuf.c`, `naf/tlv.c` | length and position of a buffer; lists of TLVs | put, get, growth; parse, remove, render | instant messages, logins |
| keepalive, `timps/oscar/oscar.c` | times of the last write, FLAP sequence numbers | nop, give up | transmit queue |
| logs, `timps/logging.c` | one stream per local user, as a tag of the node | open, write, close | node events, routing |
| OTR, `modules/timpsotr` | bot node; keys (libotr) | rewrite, notices, bot | routing, node events |
| httpd, `naf/httpd.c` | state of the request, tags, posted read | request line, headers, body, answer | connections, RPC |
| child processes, `naf/processes.c` | list of children, their streams | create, fork, free, reap on `SIGCHLD`, forget a stream | connections, signals |
| tags, RPC methods, statistics, `naf/tags.c`, `naf/rpc.c`, `naf/stats.c` | lists on modules, list of counters | add, remove, fetch; register, unregister, request | every module's start and shutdown |
| cache, memory accounting, configuration (`naf/*.c`), IPv4 (`naf/ipv4`), console, `libmx` | | | not modelled, section 8 |

What is hard here: only signal handlers run in between, but every handler may free the
connection it was called for, and the free cascades to the endpoint and from there
to tags, nodes, log streams and events; freed addresses are handed out again;
packets of client and host, closes, timers and reloads come in any order; a user
may have several sessions; messages for a user create nodes before the user logs
in; routing is re-entered; modules go away in an order that differs from the one
they came in; buffers have limits that text reaches by growing on its way. The list of hazards in `PROJECT.json` gives the lines.

## 2. The modules

| module | models | used by |
|---|---|---|
| `ConnTable` | endpoint links of the connection table, `remendpoint`, `naf_conn_free`, `naf_conn_startconnect` | `Toscar` |
| `NodeTable` | nodes as sessions need them: metric, idle time, expiry | `Toscar` |
| `Toscar` | sessions: connections, cookies, nodes, IMs, timers, configuration | `MCToscar`, `ToscarProofs` |
| `UserSessions` | what `Toscar` promises: an abstract specification | `Toscar` |
| `KeepAlive` | transmit side of one server connection | `KeepAliveProofs` |
| `NodeName` | the two name comparisons and the hash | `GnrNode` |
| `GnrNode` | the registry in full: chains, counters, references | `MCGnrNode`, `GnrNodeProofs` |
| `Tags`, `Rpc`, `Stats` | tag lists, RPC methods, statistics, as operators | `MsgRoute` |
| `MsgRoute` | module list, handler lists, events, methods, logs, OTR, from start-up to shutdown | `MCMsgRoute`, `MsgRouteProofs` |
| `Sbuf`, `Tlv` | buffers and TLV lists, as operators | `Icbm` |
| `Icbm` | an instant message from its payload to the frame that is sent | `MCIcbm`, `IcbmProofs` |
| `ChildProc` | list of children, streams, kernel and signal handler | `MCChildProc`, `ChildProcProofs` |
| `Listeners` | `listenports` and the sockets it stands for | `Httpd` |
| `Httpd` | accepted connections, protocol detection, HTTP requests | `MCHttpd`, `HttpdProofs` |
| `ToscarProofs` | theorems about `Toscar`, among them that it implements `UserSessions` | |
| `KeepAliveProofs`, `GnrNodeProofs`, `MsgRouteProofs`, `IcbmProofs`, `ChildProcProofs`, `HttpdProofs` | theorems about the module of that name | |
| `Recursion` | lemmas on loops of a fixed number of rounds | the four of them that reason about loops: `GnrNodeProofs`, `MsgRouteProofs`, `IcbmProofs`, `HttpdProofs` |

### Toscar

A connection is a record under the address of its `nafconn`, so a freed address
can be used again. The fields are the type bits that decide anything (client,
server, connecting, `PROROGUEDEATH`), `endpoint`, the tag `conn.screenname`, the
flags of `toscar_flap`, and whether a kill is scheduled. Every handler of
`snac.c`'s dispatch table, the FLAP channel 1 exchange, `connhandler_eof`, the
finished or failed connect, the three timers, `enableprorogueall` and the RPC
`disconnectuser` are actions. An action is a whole handler, including the free of
the connection when the handler or the forwarding of its packet fails: `Forward`
and `Keep` are the two ends of `toscar_flap_handleread`. The cascade of
`naf_conn_free` is `Doomed`, the set of connections that go together; `freetag`
then decides which nodes must (`MustGoOffline`) and which may
(`MayGoOffline`) go, because the order in which the cascade runs through
libnbio's list is libnbio's. The dispatch looks at the group and subtype of a SNAC and
not at the connection it came on, so every handler is enabled on both sides of a
session. `HostsLogIn` says whether hosts send 0017/0006, which is how a client asks for
a login: it is TRUE in all passing runs, FALSE in `orphan_login`, and a condition of some
theorems (section 7).

### UserSessions, and how Toscar implements it

`UserSessions` knows users, sessions, who is present, and the message the last step
handed to a client. A session's user never changes, and its client only by going
away; nobody becomes present without an attended session, or absent but by the end
of a session of theirs; a message for a user is handed to the client of one of the
user's sessions and to no other. `Toscar` implements it (`SeenByUsers`) with this
mapping: a session is a server connection with the tag `conn.screenname`, known by
its address, its client is the endpoint (`SessionsOf`); the users with a local node
are present (`PresentIn`); what was handed over is the last IM that
went to a client (`Handed`).

### KeepAlive

Times are ages that stop at `MaxAge`. The environment sends packets, takes them
within `FlushDelay` while it is alive, and may become stuck. Sequence numbers are
taken modulo `SeqMod` (2^16 in the code).

### NodeName, GnrNode

A name is the sequence of its characters, and a character the value of a signed
`char`. `gnr_node_namecmp`, `toscar_sncmp` and `gnr_node__hash_getkey` are translated
loop by loop, as recursive functions of the number of rounds: the state of a comparison is
the places of its two pointers, the key has its 16 bits. What "case and spacing are
ignored" means is `NormalForm`; the spaces behind the last letter, which the code does
not ignore, are counted by `TrailingSpaces`. `toscar_sncmp` is a set of results,
because it reads behind the end of two names that both end in spaces. A node has an address; a chain is a set of addresses,
because its order matters only to a search with two nodes to choose from.

### MsgRoute

Start-up loads `rpc` and `net`, then `gnr` and the rest of the second pass, the
modules of timps, and `timps-otr` last; `SIGINT` unloads them in the order of the
list, `rpc` and `stats` in the middle. Modules that register nothing with others are
left out. Methods and output functions are tags of the modules (`Rpc`, `Tags`), so a
tag without an owner cannot be added but is found by a search without one. A call of `gnr_msg_route` is a frame of
`stack`, one step is one handler; `timps-otr` pushes frames. libotr's decision
(pass, rewrite, call back) is free. A text a client brings has OTR's tag in it or not (`Brought`): with it the handler
lets a local user's message pass without asking (`totr_unasked`), and a message without
text is treated the same. A log file may fail to open. `history` records what the properties
compare: what went on the wire, what was logged, whether libotr was asked.

### Sbuf, Tlv, Icbm

Bytes are counted and not written, with the lengths of the code: a buffer is its
length, its position and whether it may grow; lengths are 16 bits. A payload is a
head, whole TLVs and a tail that is cut off at any byte of a TLV's head or before
its value. One step is one round of the loops of `naf_tlv_parse_limit`,
`toscar_icbm__extractmsgtext` and `naf_tlv_render`. The reference the frame is
compared with (`Whole`) is stated on sequences, without buffers. The TLVs that may come are a
constant. A section may say that it is longer than its block, which the code does not
check: the text then grows by bytes that nobody wrote, of which `Unwritten` are
characters; a message block without a value is read from memory that nobody wrote
(`Leftovers`). The head may end inside the user info. timps-otr may replace the message
by a text of its own of any length in `OtrTexts`. A NUL inside a text, at which `strlen` stops, is
left out.

### ChildProc

The main thread, the signal handler and the kernel. The handler may interrupt the main
thread at any point, because the code masks nothing: what `naf_childproc_fork` and the
loop of `naf_childproc_cleanconn` do is one step per write or list element. `SIGCHLD` comes when a
child dies, is stopped or is continued; `wait` blocks if no child is dead. A stream may be
freed for any reason and whatever the state of its child; `naf_childproc_fork` may be called
for a struct that was started before. The list is kept by its `next` pointers, so a freed
struct on it is seen, and a cycle too; the model stops where the code would walk either.
`seen` records three incidents that properties must except: a struct was started twice,
the handler took the child the main thread had in hand (`InHand`: the one it
starts, the one behind the list head it has just read, the one its loop is at), a child
was stopped.

### Listeners, Httpd

A connection has at most one read posted: its length and the size of its buffer.
A step is one completed read, write, close, timer run or reload. Clients send any
sequence of lines and bodies; `Lengths` are the values at the limits of the code.
A file name is `/nafrpc`, a longer one (a GET takes it for a method of a module) or
another; whether a request names a method that exists is left open, and `calls`
counts the methods that ran.

## 3. Runs

| run | expects | what it shows |
|---|---|---|
| `sessions` | pass | endpoint links, names, deliveries and nodes, whatever packets either side sends, `enableprorogueall` off; `Toscar` implements `UserSessions` |
| `expiry` | pass | endpoints stay live with the setting changing while connections exist; cookies and unused external nodes go away |
| `online_before_message` | violation | an IM before Client Online leaves the user with an external node |
| `orphan_login` | violation | a host's login answer on a connection that outlived its client dereferences a null endpoint |
| `keepalive` | pass | a live host is spared, sequence numbers on the wire are consecutive, a stuck host is noticed |
| `stuck_host` | violation | its connection stays open all the same |
| `node_registry` | pass | counters, expiry, and exactly which spellings are one node and find it |
| `routing` | pass | one copy, libotr first but for texts with its tag, logs before output, streams, bot, and the registries from start-up to shutdown |
| `http` | pass | reads fit, one request, every end is noticed, listeners follow the configuration |
| `relay` | pass | frames of well-formed messages are whole up to the end of a full buffer and no put is refused; the handler returns |
| `children` | pass | with `SIGCHLD` at any point, the list and the kernel agree until the child in hand is taken, listed children lose freed streams, `wait` blocks only after a stop |
| `children_signals` | violation | `SIGCHLD` inside `naf_childproc_fork` leaves a freed struct on the list |

The properties, by what they are for:

* **No stale endpoint.** `LinksLive`, `ClientPaired`: an endpoint is a live
  connection, a client's is a server connection that points back. `NoOrphanServer`:
  without prorogue no server connection is left without its client.
* **Names.** `SessionOwnsName`: a tagged server connection belongs to a client that
  presented a cookie issued for the name. `DeliveredToOwner`: an IM delivered
  locally went to such a client. `SeenByUsers`: all this as one specification.
* **Nodes.** `LocalNodeBacked`, `LocalNodeKept`: a local node lives as long as a
  session of its user. `OnlineUserIsLocal`, which the header promises, fails.
  `StatsExact`, `Unique`, `FoundBySpelling`, `ComparisonsAgree`, `TimeoutExact`
  for the registry. The header's "Case and spacing are ignored" (`gnrnode.h:51`) is true of
  spaces before the last letter only, and the properties say so: a name and the same name
  with a space behind it are two nodes, and where both end in spaces the two comparisons
  may disagree. `HostsCannotCrash`, which fails with prorogue.
* **Time.** `LiveHostSpared`, `StuckDetected`, `CookieExpires`,
  `ExternalNodeExpires`, `UnownedEnds`, `AnsweredEnds`.
* **Routing.** `NestingBounded`, `OneCopy`, `OtrAskedFirst`, `LoggedBeforeSent`,
  `StreamsOwned`, `BotLive`, `HandlersLive`: with `MethodsServed` and `StatsLive`, the
  lists of handlers, events, output functions and statistics hold nothing of an
  unloaded module and lack nothing of a loaded one while the loop runs. Of the methods
  that is so for net, ipv4, gnr and timps-oscar; rpc, stats, conn, config and core never
  take theirs back.
* **Messages.** `Framed`, `CutOnlyWhenFull`, `MessageHandled`: what is relayed is what
  came, in a frame that fits its buffer, if the message block is well-formed
  (`WellFormed`), and so is a text of timps-otr of up to `MAXTEXT` bytes. Of other
  messages the code makes sure of nothing and nothing is claimed. Two more exceptions
  are named in the properties: a frame that fills its buffer to the last byte, and a
  payload with a single byte left over.
* **Children.** `ListMatchesKernel`, `StreamsCleared`, `WaitReturns`, each up to the incidents
  it names; `ListedRunning`, which a comment promises, fails.
* **HTTP.** `EofNoticed`, `DetectedOrOwned`, `ReadFits`, `OneRequest`,
  `ListenersFollowConf`.

Each property has a mutant: a definition with a plausible bug (`X_Something`,
marked "Mutation" where it is defined) that makes TLC find the property violated.

## 4. Bounds

* `sessions`: two users, three addresses, one cookie at a time. Three addresses hold
  a client with its server and another client, so a freed address can be taken while
  its old neighbours still exist; a second session of the same user, and a second
  user, fit. The cookie is a value that is used again. The theorems cover every
  number of addresses, users and cookies.
* `expiry`: two addresses, one user, two cookies, both settings; liveness, so no symmetry. Nodes
  expire one by one, so a second user would add nothing. The
  liveness properties except behaviours that end in the null dereference of
  0017/0003.
* `keepalive`: settings at the exact limit of `SettingsSuffice`
  (`KeepAliveProofs`): each of the three delays plus one makes `LiveHostSpared`
  fail. The queue holds 2, sequence numbers count to 3, so both wrap.
* `node_registry`: ten spellings of four names, with up to two spaces
  behind the last letter, two addresses (with symmetry: they are
  only compared), three chains, two of the names in one of them, one reference. The
  theorems cover names of any length over all characters and any number of nodes and chains.
* `routing`: two users and the bot, one callback of libotr per message (routing its
  notice changes no node, so a second one starts from the same tables),
  `timps-otr` added with `-M` as timps' README says. The stack needs no bound: that
  it stays at two is `NestingBounded`.
* `http`: one connection, because connections of different clients share nothing
  here; two ports, one address, four configurations with a doubled port, a changed
  owner, an address that comes and goes; a write queue of 3 (220 in the code) and up
  to 4 writes. `Timeout` is the code's 2 s, and `Lengths` its real numbers.

* `relay`: up to three TLVs of ten, among them message blocks of one, two and three
  sections, one whose section is longer than it and one without a value, text that fills the 512 byte buffer exactly, another TLV that does so
  behind a shorter text, and the longest UNICODE text a FLAP can carry, which becomes
  28 497 bytes. User info counts of 0 and 2, with fewer, as many and more
  TLVs there. Unwritten
  memory holds no characters or as many as a section can have; texts of timps-otr are as
  long as `MAXTEXT` and longer than any buffer.
* `children`: three children, as many process ids, one stream, all of them reused;
  symmetry. Three children give a list with a middle; the loop of
  `naf_childproc_cleanconn` treats the streams of a child alike, and the theorem has any number.

`CHECK_DEADLOCK FALSE` in `routing`, because the process ends; in the `Toscar` runs, where a
null dereference ends it; in the `children` runs, where the model stops at a broken list
and `wait` may block; and in the `KeepAlive` runs, because the connection is gone for good.

## 5. Fairness

`naf_main` runs the timers whenever two seconds have passed between two polls, so
the timer actions and the passing of time are weakly fair. This assumes that
handlers return: `gethostbyname` in `naf_conn_startconnect` blocks the thread, and
is listed as a hazard. `KeepAlive` has no fairness for a stuck host. `Httpd` assumes
in `FairSpec` that a client takes its answer or closes, because httpd has no timeout
of its own: `AnsweredEnds` says that nothing else can keep such a connection. In
`Icbm` every step is a step of the handler that runs, so `Next` is weakly fair.

## 6. What the environment may do

Clients and hosts send any packet the dispatch table knows, in any order, at any time,
repeated or not at all; both may close at any time; connects may fail; the transmit
queue may be full at any time (`Toscar`) or when it is (`KeepAlive`, `Httpd`).
Memory allocation succeeds. The code runs signal handlers at once, between any two
instructions: `ChildProc` has that for `SIGCHLD`; the reload and the shutdown are
taken between two handlers of `MsgRoute` and `Httpd`, because the steps needed for
more are finer than theirs (a hazard without a property). Children may die, stop and go on at any time. Message
blocks may be well-formed or not. libnbio, libotr and the
clock are external, marked so in the map.

## 7. Proofs

`ToscarProofs` proves, for every set of addresses, users and cookies and all
settings allowed by the assumptions of `Toscar`, `ConnTable` and `NodeTable`:

* `TypeCorrect`, `NoDanglingEndpoint`, `NoOrphans`, `NodesBacked` without a condition;
* `ClientsPaired`, `SessionsOwned`, `Delivery` under `Sided`: hosts do not ask for logins
  (`~HostsLogIn`), or `enableprorogueall` is off in every configuration. Without it a
  server connection that has outlived its client could, by a login of its own, become
  the client of another;
* `HostsNeverCrash`: if `enableprorogueall` is off in every configuration, no packet of a host
  reaches the null dereference of 0017/0003, and what does is that packet sent by a
  client that has no endpoint; `orphan_login` shows that the condition is needed;
* `LocalNodesKept`: the action property, from the invariant.

The inductive invariant is `IInv`: the types, `Good(conns, nodes)` (links live,
pairing, ownership of names and backing of nodes, stated for a pair of tables), of which
pairing and ownership are under `Sided`, and that IMs were delivered to their owners. None of the parts is
inductive alone: that a cascade leaves no dangling link needs the pairing, that a
node stays backed needs to know which sessions a cascade takes along, and the
delivery of an IM needs the ownership of names. `Good` speaks of tables and not of
states, so the lemmas about one operation (`FreeKeepsTable`, `AcceptKeeps`,
`ConnectKeeps`, `OnlineKeeps`, ...) are used in the middle of a handler that does
several. `StepPreserves` takes the actions in groups: frees, packets, logins,
routing, timers.

`KeepAliveProofs` proves `TypeCorrect` (the queue never exceeds its capacity) and
`SettingsSpareLiveHosts`: if the keepalive frequency, the timer period and the
host's delay fit into the timeout, and so do the delays of a login, a live host is
never given up. The invariant adds to the types that only a stuck host is given up
and that on an open, live connection the age of the last write is bounded by where
the connection is between nop, write and timer (`Recent`). With the defaults
(nop after 15 s of silence, timer every 5 s but up to 7 s with the accuracy of
`naf_main`, timeout 30 s) a host may take 8 s.

`NumbersConsecutive`: the packets on the wire, in the queue and the next number are
consecutive, for every capacity and width. The property alone is not inductive, because
a write moves the front of the queue to the wire: `Chain` says that each number in the
queue follows the one before it, the first the last one sent and `nextseqnum` the last
one queued.

`ToscarProofs` also proves `ImplementsUserSessions`, `Spec => SeenByUsers`, under
`Sided`. The initial states map, and each action is shown to be a step of
`UserSessions` or to leave it alone. Most handlers end in `Forward` or in a free,
so the work is in what a cascade looks like through the mapping: a connection that
goes takes its session along, what stays keeps its user and its client or loses the
client, and nobody's presence ends without the end of a session. `IInv` is what makes
the mapped step allowed: that the client of a session is the one it was opened
for (`Paired`), that a local node has a session (`Backed`), that the destination of
a delivery is the owner of the name.

`ChildProcProofs` proves, with a signal between any two steps of the main thread and for
any number of children, process ids and streams: `TypeCorrect`; `WaitBlocksOnlyAfterStop`,
from `WaitInv`: until a child is stopped, a pending signal stands for a zombie, and one that
arrives while the handler runs for another; `OwnersFound`; and `StreamsAreCleared`.
`OwnersFound` rests on `IInv`, which holds while nothing but stops has been `seen` (`Calm`): the list
is the running children but for the one that `naf_childproc_fork` is about to link, no two
structs point to the same one (`Unshared`: without it an unlinked struct could still be on
the list), and what the main thread has in its hands is still what the list says
(`MainInv`). Each of the places where the handler may run is a case of the proof that it keeps
this unless it takes the child in hand; `children_signals` shows the list broken when it does.
`StreamsAreCleared` needs that the loop of `naf_childproc_cleanconn` has every holder of the
connection still before it (`CleaningInv`), also when the handler unlinks a child that the
loop has not reached (`WalkAround`).

`HttpdProofs` proves `EndIsNoticed`, `NoneForgotten`, `ReadsFit`, `CalledOnce`,
`ListenersRight` and `TypeCorrect` for any number of connections, every
configuration and every Content-Length. A connection is always in one of the shapes
of `Good`: in detection nothing of a request has been read; unless timps-oscar has it, a
read is posted that fits its buffer; a length that is kept was accepted; a method was called only in
PROCESSING. `ReadFits` needs the third, because the body is read steps after its
length was checked; `OneRequest` needs that PROCESSING is never left. `ListenInv` says what
`cleanlisteners` leaves, by induction over the rounds of its loop: every socket
belongs to an entry (`Configured`), the entries seen so far have one unless the bind
failed or the owner is not loaded (`Established`).

`MsgRouteProofs` proves `NeverThirdCall`, `NeverTwice`, `SeenByOtrFirst`,
`WireIsLogged`, `StreamsCounted`, `BotNodeLive` and `TypeCorrect` for every set of users, both
module options and any number of callbacks of libotr. `SeenByOtrFirst` excepts what the handler
excepts: a local user's text with OTR's tag. The invariant has one part for each
thing that has to be known before a message comes in:

* `LoadInv`: until the shutdown timps-logging and timps-otr are either still to be
  loaded, behind gnr, or have their handlers; the list for routing is sorted. Loading is a
  walk of the module list once per priority, and that gnr, which clears the lists,
  comes first is proved of that walk (`AmongHas`, `ConcatLists`).
* `NodeInv`: a stream is counted where its tag is; whoever has registered for node
  events still hears of them when there is something to close; gnr frees its list
  of listeners only when no node is left to speak of.
* `StackInv`: the outer call is a message of a client, the inner one timps-otr's own,
  which its handler lets through. This is why there is no third.
* `WireInv`: while the outer call is not done there is nothing on the wire but
  notices; afterwards the inner call may send libotr's text only if the outer took its
  own away. `AskInv` and `LogInv`: a call that has passed the place of a handler has
  been seen by it, which is what sorting by position buys.

`RegistriesRight` is `HandlersLive` for `ModuleOption = "M"`; with `-m` it is false, see
section 8. Of the methods it speaks of the four modules that take theirs back. Its invariant, `RegInv`, is proved on top of the one above and says what every
list is at each moment of the start-up and the shutdown:

* `LoadOrderInv`: each module is loaded or still to be loaded and not both; rpc is first, so
  no `naf_rpc_register_method` finds it missing; gnr, which clears the handlers, comes before all who
  register with it. That the walks of `naf_module__loadall` give this order is proved of the
  list that `-M` makes (`LoadallWithM`).
* `UnloadOrderInv`: those who have registered with gnr are unloaded before it, stats after it.
* `HandlerInv`, `EventInv`: an entry belongs to a loaded module and is in the list where
  that module's shutdown looks for it; the list of events is freed only with gnr.
* `TagInv`: the tag list of a module is the methods in front of the output function, or one
  of them, or empty, as it is loaded or not. The methods of net and ipv4 are taken back by a
  search without an owner, because rpc is gone: `TagsTakenBack` needs both cases.
* `StatsInv`: the list of statistics is a function of what is loaded.

`GnrNodeProofs` has two parts. The first is about names, of any length and any bytes:
`NamecmpIgnoresCaseAndSpace` and `SncmpIgnoresCaseAndSpace` say exactly what
both comparisons decide, the one that steps over a space in one name at a time and the one that
skips all of them in both: whether the normal forms and the numbers of spaces behind the last
letter are equal, except that the second may say anything when the normal forms are equal
and both names end in spaces. The loop invariant
(`Agree`) is that the letters before the two pointers are the same; the work is in the
other direction: where the loop stops early, one normal form ends or differs at the place
where the letters before the pointers end (`Begins`). Equal names have equal keys, because
the key is a function of the letters. The second is about the table:
`NodesAreUnique`, `NodesAreFound`, `StatsAreExact`, `ComparisonsDoAgree`, `TimeoutIsExact`,
`TypeCorrect`. The invariant adds to `StatsExact` and `Unique` that the nodes are finitely
many, that a node is in the chain of its name and in no other (`InChains`: without it a
second node of the same name could be hidden in another chain, and `gnr_node_offline` might
free nothing), and that a node which is not local has a time to live (`Mortal`), which
`TimeoutExact` needs.

`IcbmProofs` proves `FramedAlways` and `CutOnlyWhenFullAlways`: for every payload that a FLAP
can carry whose message block is well-formed, any number of TLVs and sections, what goes out
is what came in, with its text converted, up to a TLV that fills the buffer to the last
byte, and no put is refused half-way; nor is one for a text of timps-otr of at most
`MAXTEXT` = 31 600 bytes. The condition is needed, since the code checks neither the lengths
of ISO-8859-1 sections nor those of libotr's texts. The invariant follows the message through its loops:

* `Parsing`: the position in the payload is the length of the head and of the TLVs read so
  far, user info first; with a single byte left over, the loop never leaves it.
* what remains after the three `naf_tlv_remove` is what the handler has not understood
  (`NotUnderstood`), by induction over the prefixes of the list;
* `Converting`: the text is the sum of the converted sections so far; a section grows at
  most three and a half times;
* `Rendering`: what is in the frame and what is still to be rendered make up `Whole`, and
  there is room for the rest (`Room`), or the frame is full and holds a prefix.

The last needs to know how a buffer grows: by one block of 512 bytes or by as many as a put
needs, so it may be larger than its contents by less than a block. `PutFits` is the account of one put
(its bytes, and another 255 if it is long), `RenderFits` that of a TLV. All TLVs
of a message of 8 182 bytes cost at most 29 000, the head of a frame 286, and with a block of
512 that is within the maximum of 32 768. A text of timps-otr goes without other TLVs and costs at most
31 900. (A frame to a client with a short name has room for somewhat more than `MAXTEXT`.)

Assumptions, all evaluated by TLC in the runs: addresses, names, cookies, modules,
lists of modules, TLVs, lengths and what a tag of a module points to are not `NULL` or `NONE`; the bot's name is none of the users'; 0.0.0.0 is not
written in `listenports` as an address (`ANY`); configurations are sequences of entries and lengths are
naturals; capacities, periods, timeouts and the
number of chains are positive; names of nodes are not empty, local is not the largest metric, and the default time to
live can be reached; sections that are said to lie inside a message block are not longer than it, the length of a name
fits in a byte and a count of TLVs in two. No theorem bounds the
number of addresses, users, names, nodes, connections, children, messages or TLVs.

Loops over lists are written as recursive functions of the round (`Among`,
`cleanlisteners`, `Total`, the comparisons and the key of a name), which `Recursion` can reason about: `Rounds` is induction over a set of
round numbers, from the well-foundedness of the naturals, and `LoopDefined` says that
the function of the values after each round exists.

Only model-checked: liveness (`StuckDetected`, `CookieExpires`, `ExternalNodeExpires`,
`UnownedEnds`, `AnsweredEnds`, `MessageHandled`), which is out of the prover's reach under
fairness, and what the four runs that expect a violation show. Every other property of a
passing run is a theorem.

## 8. Not modelled

* `naf/cache.c` and the pool allocator of `naf/memory.c`: nothing in the repository
  calls them. The byte counts of `naf/memory.c` are only reported.
* `naf/nafconfig.c`: a store of strings. What changes behaviour changes freely in the
  models: `enableprorogueall`, the listening ports, the user logs.
* The bytes of messages, XML and log lines: `libmx`, the SOAP bodies of `httpd.c`,
  `naf/logging.c`, `nafconsole`. The argument lists of RPC requests.
* `naf/ipv4`, which timps does not use.
* Cloning of tags and the child's side of `fork`; `naf_sbuf_setpos`, `naf_sbuf_prepend`
  and the TLVs of logins, which are built from fixed parts.
* Daemonising, privileges, limits: system calls without state of the program.
* Failed loads of modules, and a thread that blocks in `gethostbyname`.

Seen while reading, and not the subject of a run:

* A second cookie on one client connection leaves two server connections pointing to
  it; `remendpoint`'s comment excludes that case. `Toscar` has it, and the
  invariants hold.
* A listener without an address is closed and opened again by every reload, because
  `listenport_isconfigured` wants an address; one with an address keeps its old
  owner when the entry names another.
* With `listenports=5190/timps-oscar` the first `CONFCHANGE` cannot find the owner;
  the listener opens with the second.
* httpd's `connready` returns 0 from `takeconn` when it is offered a connection after
  the detection timeout, and so does not get it; no module has a `protocoldetect`.
* httpd leaves the delimiter in place for a body, so a body with a line break ends
  there and its rest ends the connection; the buffer of data that comes during
  PROCESSING is not freed; `naf_conn_tag_fetch` writes a pointer over an `int`.
* A module added with `-m` is unloaded after gnr and looks for its event handler in
  the freed list (`HandlersLive` fails with `ModuleOption = "m"`); the README of
  timps uses `-M`.
* `timps-otr` reads the metric of a node that need not exist (`totr_crash`), and the name of a
  destination that has none. A local user's message with OTR's tag in its text is not shown
  to libotr, although it need not be an OTR message.
* The dispatch of SNACs does not look at the type of the connection, as a comment marked
  XXX above it admits (`snac.c:482`): 0017/0003 from a client that has no endpoint reaches
  the null dereference of `orphan_login` also with `enableprorogueall` off.
  `HostsCannotCrash` speaks of hosts for that reason.
* The methods of rpc, stats, conn, config and core stay registered when their modules are
  unloaded at the shutdown.
* A name with a trailing space is another node than the one without, although
  `gnrnode.h` says spacing is ignored: `Unique`, `FoundBySpelling` and `ComparisonsAgree`
  say exactly where. "This should never actually happen" in `freetag` of `timps-logging`
  (`logging.c:312`) does happen at the shutdown, when gnr frees the nodes after
  `timps-logging` has given up its event handler; the stream is closed once all the same, which is `StreamsOwned`.
* `naf_tlv_render` drops the TLVs behind one that fills its buffer to the last byte,
  and a payload that ends in a single byte keeps `naf_tlv_parse_limit` in its loop for
  ever: the exceptions of `CutOnlyWhenFull` and `MessageHandled`. The count of TLVs in
  rendered user info can disagree with the TLVs that follow. UNICODE is written in
  decimal entities with hexadecimal digits. The TLVs that `toscar_icbm__parsechan1`
  takes out of the list are not freed. Neither the length of an ISO-8859-1 section
  (`im.c:117`) nor that of a text from libotr is compared with anything, and a message
  block without a value is read from memory that nobody wrote; a put of the message that
  is refused leaves a TLV whose value is missing.
* One `wait` is made per `SIGCHLD`: of several deaths behind one signal the others are
  reported with the next. `naf_childproc_free` closes descriptors and leaves their
  connections to libnbio. A child that is stopped or continued raises a `SIGCHLD` too (there is no
  `SA_NOCLDSTOP`), and the `wait` of the handler, without `WNOHANG`, then blocks the server until
  a child dies. `naf_childproc_fork` does not look at the state: a struct that is started
  twice makes the list a cycle. A child that is not started yet is not on the list, so it
  keeps the pointer to a stream that is freed.
* `naf_memory__module_free` leaves a pointer to the freed counts, and the methods of
  `net` and `ipv4`, which belong to `rpc`, are freed after `rpc` is unloaded.
* A module whose load failed is tried again by every later pass; the
  result of `init` is ignored. The hash uses only even chains for a table of even
  size. A late Host Online may end a connection the timer has just given up.

## 9. What is left

Every invariant and action property of the runs is proved, so what remains is breadth, and
it needs finer steps than the models have now: signals that run the reload and the unloading inside
any instruction (`naf/daemon.c:116`), modules whose load fails, and a table of httpd pages
with more than one entry.
