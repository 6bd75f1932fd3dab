------------------------------ MODULE MsgRoute ------------------------------
(***************************************************************************)
(* The modules of timpsd around a message: naf/module.c loads and unloads  *)
(* them, gnr/msg.c keeps their handlers in three lists and takes a message *)
(* through them, gnr/core.c tells them about nodes.                        *)
(*                                                                         *)
(*   timps-oscar    brings messages in and puts them on the wire           *)
(*   timps-logging  writes a log stream for every local user               *)
(*   timps          has an empty routing handler                           *)
(*   timps-otr      lets libotr rewrite messages; it owns a bot node       *)
(*                                                                         *)
(* and around them the modules of naf that offer methods to RPC or hold    *)
(* what others register.  Modules that do neither are left out.            *)
(*                                                                         *)
(* gnr_msg_route is entered again while it runs: timps-otr routes messages *)
(* of its own from inside its handler and from its output function.  The   *)
(* calls under way are a stack of frames, and one action is one call of a  *)
(* handler.  The sessions of timps-oscar are a set of names here (Toscar   *)
(* has them in full); libotr is external and decides freely.               *)
(***************************************************************************)
EXTENDS Rpc, Stats

CONSTANTS
    Users,         \* screen names
    Bot,           \* TOTR_BOTNAME_DEFAULT
    ModuleOption,  \* "M" or "m": the option that adds timps-otr
    MaxCallbacks   \* bound: callbacks libotr makes for one message

ASSUME NamesAssumption == Bot \notin Users /\ NULL \notin Users \cup {Bot}
ASSUME OptionAssumption == ModuleOption \in {"M", "m"}
ASSUME CallbackAssumption == MaxCallbacks \in Nat

VARIABLES
    toload,    \* modules naf_init1 has yet to load, in order
    tounload,  \* modules naf_module__unloadall has yet to look at, or NULL
    loaded,    \* MOD_STATUS_LOADED
    handlers,  \* gnr__msghandlers
    taglists,  \* the tags of each module
    statslist, \* naf__statslist
    evhlist,   \* gnr__evhlist: the modules whose node handlers it holds
    evhfreed,  \* evh__freeall has run and left gnr__evhlist as it was
    nodes,     \* online nodes: owner, metric, tag gnrnode.userlogstream
    streams,   \* number of open log streams per user
    userlogs,  \* timps_logging__enableuserlogs
    bot,       \* timps_otr__botnode
    sessions,  \* users with a connection tagged conn.screenname
    stack,     \* calls of gnr_msg_route under way, the innermost last
    history    \* what became of the message timps-oscar brought in (put on
               \* the wire, logged, shown to libotr, rewritten), and whether
               \* a freed list was walked or a null pointer dereferenced

lists == <<toload, tounload, loaded, handlers, taglists, statslist,
           evhlist, evhfreed>>
vars == <<lists, nodes, streams, userlogs, bot, sessions, stack, history>>

Names == Users \cup {Bot}

-----------------------------------------------------------------------------
(* The module list *)

\* naf_module__registerresident puts each module before the others; naf_init0
\* registers core, config, conn, ipv4, net, stats and rpc, main gnr,
\* timps-oscar, timps-logging and timps, and then the options are read: -M
\* puts a module before all others, -m after them.
Residents ==
    <<"timps", "timps-logging", "timps-oscar", "gnr">>
      \o <<"rpc", "stats", "net", "ipv4", "conn", "config", "core">>

Modules == ToSet(Residents) \cup {"timps-otr"}

ASSUME NullAssumption == NULL \notin Modules \cup Seq(Modules)

modlist == IF ModuleOption = "M" THEN <<"timps-otr">> \o Residents
                                 ELSE Residents \o <<"timps-otr">>

startuppri(m) ==
    CASE m \in {"rpc", "net"}                    -> 5  \* NAF_MODULE_PRI_FIRSTPASS
      [] m \in {"gnr", "ipv4", "conn", "config"} -> 4  \* NAF_MODULE_PRI_SECONDPASS
      [] m = "timps-otr"                         -> 0  \* NAF_MODULE_PRI_LASTPASS
      [] OTHER                                   -> 3  \* NAF_MODULE_PRI_THIRDPASS

\* The elements of s that are in S, in order: a walk along a linked list.
Among(s, S) ==
    LET seen[i \in 0 .. Len(s)] ==
            IF i = 0 THEN <<>>
            ELSE IF s[i] \in S THEN Append(seen[i - 1], s[i]) ELSE seen[i - 1]
    IN  seen[Len(s)]

\* naf_module__loadall: by descending priority, then in list order.
LoadPass(pri) == Among(modlist, {m \in Modules : startuppri(m) = pri})
naf_module__loadall == LoadPass(5) \o LoadPass(4) \o LoadPass(3) \o LoadPass(0)

Running == toload = <<>> /\ tounload = NULL

-----------------------------------------------------------------------------
(* What modules register with other modules *)

\* The pointers rpc and gnr keep to themselves, when ld are loaded: NULL
\* before they are loaded and after their shutdown.
rpc__module(ld) == IF "rpc" \in ld THEN "rpc" ELSE NULL
gnr__module(ld) == IF "gnr" \in ld THEN "gnr" ELSE NULL

\* The methods the init of a module registers.
MethodsOf(m) ==
    CASE m = "rpc"         -> {"help"}
      [] m = "stats"       -> {"getstat", "liststats"}
      [] m = "net"         -> {"ifconfig"}
      [] m = "ipv4"        -> {"route"}
      [] m = "conn"        -> {"getconninfo", "getconnstats"}
      [] m = "config"      -> {"setvar", "getvar"}
      [] m = "core"        -> {"modstatus", "modmemoryuse", "shutdown", "listmodules"}
      [] m = "gnr"         -> {"listmsghandlers", "listnodes", "getnodeinfo"}
      [] m = "timps-oscar" -> {"disconnectuser"}
      [] OTHER             -> {}

\* Pointers to what a tag holds are not NULL.
ASSUME DataAssumption ==
    /\ \A m \in Modules : NULL \notin {{m}, MethodsOf(m)}
    /\ NULL # {}

\* Those its shutdown takes back; the other modules of naf leave theirs.
Unregistered(m) == IF m \in {"net", "ipv4", "gnr", "timps-oscar"} THEN MethodsOf(m) ELSE {}

\* gnr's four counters of nodes are one statistic here.
Counting == {"gnr", "stats"}
StatOf(m) == IF m = "gnr" THEN "nodes.current" ELSE "core.starttime"

OUTPUTFUNC == "module.gnrmsg_outputfunc"
Outputs == {"timps-oscar", "timps-otr"}

\* The tag list of m after its init has called gnr_msg_register, if it does.
gnr_msg_register(list, m, ld) ==
    IF m \in Outputs THEN naf_tag_add(list, gnr__module(ld), OUTPUTFUNC, {m}) ELSE list

gnr_msg_unregister(list, m) ==
    IF m \in Outputs THEN naf_tag_remove(list, gnr__module(loaded), OUTPUTFUNC) ELSE list

HasOutput(m) == naf_tag_fetch(taglists[m], gnr__module(loaded), OUTPUTFUNC) # NULL

\* The methods that can be called in m.
Callable(m) == IF m \in loaded THEN Methods(taglists[m], rpc__module(loaded)) ELSE {}

-----------------------------------------------------------------------------
(* The handler lists *)

Stage == {"prerouting", "routing", "postrouting"}
Handler == [module : Modules, position : 0 .. 100]

\* Mutation: a handler goes behind the others whatever its position.
mh_insert_Last(list, m, position) == Append(list, [module |-> m, position |-> position])

\* mh_insert: before the first handler whose position is not smaller.
mh_insert(list, m, position) ==
    LET before(h) == h.position < position
        n == CHOOSE k \in 0 .. Len(list) :
                /\ \A i \in 1 .. k : before(list[i])
                /\ k < Len(list) => ~before(list[k + 1])
    IN  InsertAt(list, n + 1, [module |-> m, position |-> position])

gnr_msg_addmsghandler(hs, stage, position, m) ==
    [hs EXCEPT ![stage] = mh_insert(@, m, position)]

gnr_msg_remmsghandler(hs, stage, m) ==
    [hs EXCEPT ![stage] = Among(@, {h \in Handler : h.module # m})]

\* gnr_msg__register clears the lists.
NoHandlers == [s \in Stage |-> <<>>]

-----------------------------------------------------------------------------
(* Nodes and the events about them *)

Node == [owner : Modules, local : BOOLEAN, log : BOOLEAN]

Online(n) == n \in DOMAIN nodes
Local(n) == Online(n) /\ nodes[n].local
Listens(m) == \E i \in DOMAIN evhlist : evhlist[i] = m

\* tlogging_nodeeventhandler on NODEUP: only local users get a log, unless
\* its file cannot be opened.
tlogging_nodeup(local) ==
    IF Listens("timps-logging") /\ local /\ userlogs THEN BOOLEAN ELSE {FALSE}

\* gnr_node_online with the NODEUP event.
gnr_node_online(n, m, local) ==
    IF Online(n) THEN UNCHANGED <<nodes, streams>>
    ELSE \E opened \in tlogging_nodeup(local) :
            /\ nodes' = [x \in DOMAIN nodes \cup {n} |->
                            IF x = n THEN [owner |-> m, local |-> local, log |-> opened]
                                     ELSE nodes[x]]
            /\ streams' = [streams EXCEPT ![n] = @ + (IF opened THEN 1 ELSE 0)]

Logged(N) == {n \in N : nodes[n].log}

\* Mutation: the tag is removed and the stream not closed.
StreamsClosed_Leak(N) == streams

\* tlogging_nodeeventhandler closes the streams on NODEDOWN and removes the
\* tag; freetag closes those whose tag is still there.  That is its comment's
\* "should never actually happen": gnr frees the nodes at the shutdown, after
\* timps-logging has given up its event handler.
StreamsClosed(N) == [n \in Names |-> IF n \in Logged(N) THEN streams[n] - 1 ELSE streams[n]]

\* Mutation: the bot's node is not looked for.
totr_nodedown_Never(N) == bot

\* totr_nodeeventhandler.
totr_nodedown(N) == IF Listens("timps-otr") /\ bot \in N THEN NULL ELSE bot

\* freenode for every node of N, with the NODEDOWN events and the tags.
FreeNodes(N) ==
    /\ nodes' = [n \in DOMAIN nodes \ N |-> nodes[n]]
    /\ streams' = StreamsClosed(N)
    /\ bot' = totr_nodedown(N)

-----------------------------------------------------------------------------
(* Loading and unloading *)

\* modinit of timps-otr also brings its bot online.
Init_otr ==
    /\ gnr_node_online(Bot, "timps-otr", TRUE)
    /\ bot' = Bot

Listeners == {"timps-logging", "timps-otr"}

\* The handlers a module's init registers.
AddHandlers(m) ==
    CASE m = "gnr"           -> gnr_msg_addmsghandler(NoHandlers, "postrouting", 100, m)
      [] m = "timps-logging" -> gnr_msg_addmsghandler(handlers, "postrouting", 50, m)
      [] m = "timps-otr"     -> gnr_msg_addmsghandler(handlers, "routing", 30, m)
      [] m \in {"timps-oscar", "timps"} -> gnr_msg_addmsghandler(handlers, "routing", 75, m)
      [] OTHER               -> handlers

Handles == {"gnr", "timps-logging", "timps-otr", "timps-oscar", "timps"}
StageOf(m) == IF m \in {"gnr", "timps-logging"} THEN "postrouting" ELSE "routing"

\* naf_module__load of the next module.
naf_module__load ==
    /\ toload # <<>>
    /\ LET m == Head(toload)
       IN  /\ loaded' = loaded \cup {m}
           /\ handlers' = AddHandlers(m)
           /\ taglists' = [taglists EXCEPT ![m] =
                              naf_rpc_register_method(gnr_msg_register(@, m, loaded'),
                                                      rpc__module(loaded'), MethodsOf(m))]
           /\ statslist' = IF m \in Counting THEN registerstat(statslist, m, StatOf(m))
                                            ELSE statslist
           /\ evhlist' = IF m \in Listeners THEN <<m>> \o evhlist ELSE evhlist
           /\ IF m = "timps-otr" THEN Init_otr ELSE UNCHANGED <<nodes, streams, bot>>
    /\ toload' = Tail(toload)
    /\ UNCHANGED <<tounload, evhfreed, userlogs, sessions, stack, history>>

\* No message is being routed.
Idle == [history EXCEPT !.messages = <<>>, !.logs = {}, !.asked = FALSE, !.taken = FALSE]

\* SIGINT: the handler unloads everything and exits; whatever it
\* interrupted never goes on.
sighandler_shutdown ==
    /\ Running
    /\ tounload' = modlist
    /\ stack' = <<>>
    /\ history' = Idle
    /\ UNCHANGED <<toload, loaded, handlers, taglists, statslist, evhlist, evhfreed,
                   nodes, streams, userlogs, bot, sessions>>

\* Mutation: the event handler is left behind.
gnr_event_unregister_Keep(m) == evhlist

\* gnr_event_unregister; walking a freed list is what history.stale records.
gnr_event_unregister(m) == Among(evhlist, Listeners \ {m})

\* modshutdown of each module; gnr frees the nodes and then the events.
naf_module__unloadall ==
    /\ tounload \notin {NULL, <<>>}
    /\ LET m == Head(tounload)
       IN  /\ loaded' = loaded \ {m}
           /\ handlers' = gnr_msg_remmsghandler(handlers, StageOf(m), m)
           /\ taglists' = [taglists EXCEPT ![m] =
                              gnr_msg_unregister(
                                  naf_rpc_unregister_method(@, rpc__module(loaded), Unregistered(m)), m)]
           /\ statslist' = CASE m = "gnr"   -> naf_stats_unregisterstat(statslist, m, StatOf(m))
                              [] m = "stats" -> freestatlist
                              [] OTHER       -> statslist
           /\ evhfreed' = (evhfreed \/ m = "gnr")
           /\ evhlist' = IF m \in Listeners THEN gnr_event_unregister(m) ELSE evhlist
           /\ history' = IF m \in Listeners /\ evhfreed /\ evhlist # <<>>
                         THEN [history EXCEPT !.stale = TRUE] ELSE history
           /\ CASE m = "gnr" -> FreeNodes(DOMAIN nodes)
                [] m = "timps-otr" /\ bot # NULL /\ Online(bot) -> FreeNodes({bot})
                [] OTHER -> UNCHANGED <<nodes, streams, bot>>
    /\ tounload' = Tail(tounload)
    /\ UNCHANGED <<toload, userlogs, sessions, stack>>

\* NAF_SIGNAL_CONFCHANGE to timps-logging: at the end of the start-up, and
\* on SIGHUP at any time.  Streams that are open stay open.
signalhandler ==
    /\ toload = <<>> /\ "timps-logging" \in loaded
    /\ userlogs' \in BOOLEAN
    /\ UNCHANGED <<lists, nodes, streams, bot, sessions, stack, history>>

-----------------------------------------------------------------------------
(* Sessions of timps-oscar and the timer of gnr *)

AtPoll == Running /\ stack = <<>>

\* A request from httpd for a method of a module: looking for it makes a tag
\* on the module.  rpc's help looks at every module.  The methods that
\* change anything here are disconnectuser, which is Logout, and shutdown,
\* which is sighandler_shutdown.
naf_rpc_request_issue ==
    /\ AtPoll
    /\ \E asked \in {{m} : m \in loaded} \cup {loaded} :
          taglists' = [m \in Modules |->
                          IF m \in asked THEN fetchinfo(taglists[m], rpc__module(loaded))
                                        ELSE taglists[m]]
    /\ UNCHANGED <<toload, tounload, loaded, handlers, statslist, evhlist, evhfreed, nodes,
                   streams, userlogs, bot, sessions, stack, history>>

\* A connection of n gets its conn.screenname tag.
Login(n) ==
    /\ AtPoll /\ n \notin sessions
    /\ sessions' = sessions \cup {n}
    /\ UNCHANGED <<lists, nodes, streams, userlogs, bot, stack, history>>

\* 0001/0002 Client Online.
ClientOnline(n) ==
    /\ AtPoll /\ n \in sessions
    /\ gnr_node_online(n, "timps-oscar", TRUE)
    /\ UNCHANGED <<lists, userlogs, bot, sessions, stack, history>>

\* freetag of timps-oscar takes the node of the user down, whoever owns it.
Logout(n) ==
    /\ AtPoll /\ n \in sessions
    /\ sessions' = sessions \ {n}
    /\ FreeNodes({n} \cap DOMAIN nodes)
    /\ UNCHANGED <<lists, userlogs, stack, history>>

\* gnr_node__hash_timeout: any node that is not local may have expired.
gnr_node__timeout ==
    /\ AtPoll
    /\ \E n \in DOMAIN nodes : ~nodes[n].local /\ FreeNodes({n})
    /\ UNCHANGED <<lists, userlogs, sessions, stack, history>>

-----------------------------------------------------------------------------
(* Routing *)

\* text: "client" is what timps-oscar brought in, "tagged" too, but without
\* any text or with OTR_MESSAGE_TAG in it; "otr" is what libotr made of
\* either, "notice" a message timps-otr sends by itself.
Brought == {"client", "tagged"}
Text == Brought \cup {"otr", "notice"}

Frame(m, src, dst, text) ==
    [srcmod |-> m, src |-> src, dst |-> dst, text |-> text,
     stage |-> "prerouting", pos |-> 1, target |-> NULL,
     newtext |-> FALSE, calls |-> 0]

Top == stack[Len(stack)]
Calls == stack # <<>> /\ Running
\* The handler whose turn it is in the innermost call.
AtHandler(stage, m) ==
    /\ Calls /\ Top.stage = stage
    /\ Top.pos <= Len(handlers[stage])
    /\ handlers[stage][Top.pos].module = m

SetTop(f) == stack' = [stack EXCEPT ![Len(stack)] = f]
\* The handler did not take the message.
PassOn == SetTop([Top EXCEPT !.pos = @ + 1])

\* Mutation: the remaining handlers are asked as well.
TakeIt_GoOn(m, newtext) ==
    SetTop([Top EXCEPT !.target = m, !.pos = @ + 1, !.newtext = newtext])

\* The handler took the message: the routing stage ends.
TakeIt(m, newtext) ==
    SetTop([Top EXCEPT !.target = m, !.stage = "postrouting", !.pos = 1,
                       !.newtext = newtext])

Rest == UNCHANGED <<lists, streams, userlogs, sessions, bot>>

\* 0004/0006 and 0004/0007: timps-oscar brings a message in.  The user at
\* the other end becomes an external node.
OscarMessage(user, other, out, text) ==
    /\ AtPoll /\ user \in sessions
    /\ gnr_node_online(other, "timps-oscar", FALSE)
    /\ stack' = <<IF out THEN Frame("timps-oscar", user, other, text)
                         ELSE Frame("timps-oscar", other, user, text)>>
    /\ UNCHANGED <<lists, userlogs, sessions, bot, history>>

\* The end of a handler list.
NextStage ==
    /\ Calls
    /\ Top.stage \in Stage
    /\ Top.pos > Len(handlers[Top.stage])
    /\ SetTop([Top EXCEPT !.pos = 1,
                          !.stage = CASE @ = "prerouting"  -> "routing"
                                      [] @ = "routing"     -> "postrouting"
                                      [] @ = "postrouting" -> "output"])
    /\ Rest /\ UNCHANGED <<nodes, history>>

timps_msgrouting ==
    /\ AtHandler("routing", "timps")
    /\ PassOn
    /\ Rest /\ UNCHANGED <<nodes, history>>

Owned(n) == Local(n) /\ nodes[n].owner = "timps-oscar"

toscar_msgrouting ==
    /\ AtHandler("routing", "timps-oscar")
    /\ IF Online(Top.src) /\ Online(Top.dst) /\ (Owned(Top.dst) \/ Owned(Top.src))
       THEN TakeIt("timps-oscar", Top.newtext)
       ELSE PassOn
    /\ Rest /\ UNCHANGED <<nodes, history>>

\* Mutation: messages of timps-otr itself are not let through.
totr_ignores_None == FALSE

totr_ignores == Top.srcmod = "timps-otr"

totr_isbot == bot # NULL /\ Top.dst = bot

\* A local user sends a message that libotr is not shown.
totr_unasked == Local(Top.src) /\ Top.text = "tagged"

\* The handler reads the metric of the source node, and then the metric or
\* the name of the destination's, without asking whether they exist.
totr_nullnode == ~Online(Top.src) \/ (~totr_unasked /\ ~Online(Top.dst))

AtOtr == AtHandler("routing", "timps-otr")

\* Messages that are let through, and the ones for the bot.
totr_msgroutinghandler_Plain ==
    /\ AtOtr
    /\ \/ totr_ignores /\ PassOn
       \/ ~totr_ignores /\ totr_isbot /\ TakeIt("timps-otr", FALSE)
       \/ ~totr_ignores /\ ~totr_isbot /\ totr_unasked /\ PassOn
    /\ Rest /\ UNCHANGED <<nodes, history>>

\* Messages that go through libotr.
AtLibotr == AtOtr /\ ~totr_ignores /\ ~totr_isbot /\ ~totr_unasked /\ ~totr_nullnode
                  /\ (Local(Top.src) \/ Local(Top.dst))
Account == IF Local(Top.src) THEN Top.src ELSE Top.dst
Contact == IF Local(Top.src) THEN Top.dst ELSE Top.src

\* totr_sendmsg and totrbot_sendmsg: a new call of gnr_msg_route.
totr_sendmsg(calls, src, dst) == Append(calls, Frame("timps-otr", src, dst, "notice"))

\* Source and destination of what libotr's callbacks send: a note of the bot
\* (create_privkey), one in the name of the contact (gone_secure and the
\* like), a message to the contact (inject_message).
Notices == {<<bot, Account>>, <<Contact, Account>>, <<Account, Contact>>}

totr_uiop ==
    /\ AtLibotr /\ Top.calls < MaxCallbacks
    /\ \E m \in Notices :
          /\ m[1] # NULL
          /\ stack' = totr_sendmsg([stack EXCEPT ![Len(stack)].calls = @ + 1], m[1], m[2])
    /\ Rest /\ UNCHANGED <<nodes, history>>

\* otrl_message_sending and otrl_message_receiving return: with a new text
\* the message is taken, without one it goes on as it is.
totr_msgroutinghandler_Otr ==
    /\ AtLibotr
    /\ \/ PassOn /\ history' = [history EXCEPT !.asked = TRUE]
       \/ /\ TakeIt("timps-otr", TRUE)
          /\ history' = [history EXCEPT !.asked = TRUE, !.taken = TRUE]
    /\ Rest /\ UNCHANGED nodes

\* The process is gone.
totr_crash ==
    /\ AtOtr /\ ~totr_ignores /\ ~totr_isbot /\ totr_nullnode
    /\ stack' = <<>> /\ tounload' = <<>>
    /\ history' = [Idle EXCEPT !.crashed = TRUE]
    /\ UNCHANGED <<toload, loaded, handlers, taglists, statslist, evhlist, evhfreed,
                   nodes, streams, userlogs, bot, sessions>>

\* Neither end is local: nothing to do.
totr_msgroutinghandler_Foreign ==
    /\ AtOtr /\ ~totr_ignores /\ ~totr_isbot /\ ~totr_nullnode
    /\ ~Local(Top.src) /\ ~Local(Top.dst)
    /\ PassOn
    /\ Rest /\ UNCHANGED <<nodes, history>>

\* Mutation: only the log of the recipient.
LogsOf_Dest(f) == {n \in {f.dst} : Online(n) /\ nodes[n].log}

\* The users whose stream the message is written to.
LogsOf(f) == {n \in {f.src, f.dst} : Online(n) /\ nodes[n].log}

tlogging_msglogger ==
    /\ AtHandler("postrouting", "timps-logging")
    /\ history' = [history EXCEPT
                      !.logs = @ \cup {<<n, Top.src, Top.dst, Top.text>> : n \in LogsOf(Top)}]
    /\ PassOn
    /\ Rest /\ UNCHANGED nodes

\* gnr_node__msg_postrouting: the time of the last use is not kept here.
gnr_node__msg_postrouting ==
    /\ AtHandler("postrouting", "gnr")
    /\ PassOn
    /\ Rest /\ UNCHANGED <<nodes, history>>

AtOutput == Calls /\ Top.stage = "output"
Done == [Top EXCEPT !.stage = "done"]

\* toscar_gnroutputfunc: the message goes to a connection of the local user.
toscar_gnroutputfunc ==
    /\ AtOutput /\ Top.target = "timps-oscar" /\ HasOutput(Top.target)
    /\ SetTop(Done)
    /\ LET user == IF Local(Top.dst) THEN Top.dst ELSE Top.src
       IN  history' = IF user \in sessions
                      THEN [history EXCEPT !.messages =
                               Append(@, [src |-> Top.src, dst |-> Top.dst,
                                          text |-> Top.text])]
                      ELSE history
    /\ Rest /\ UNCHANGED nodes

\* totr_gnroutputfunc: the bot answers, or the new text is routed.
totr_gnroutputfunc ==
    /\ AtOutput /\ Top.target = "timps-otr" /\ HasOutput(Top.target)
    /\ LET done == [stack EXCEPT ![Len(stack)] = Done]
       IN  IF totr_isbot
           THEN stack' = totr_sendmsg(done, bot, Top.src)
           ELSE IF Top.newtext
                THEN stack' = Append(done, Frame("timps-otr", Top.src, Top.dst, "otr"))
                ELSE stack' = done
    /\ Rest /\ UNCHANGED <<nodes, history>>

\* gnr_msg_route returns.
Return ==
    /\ Calls
    /\ \/ Top.stage = "done"
       \/ AtOutput /\ Top.target = NULL
    /\ stack' = Front(stack)
    /\ history' = IF Len(stack) = 1 THEN Idle ELSE history
    /\ Rest /\ UNCHANGED nodes

-----------------------------------------------------------------------------
(* Specification *)

Init ==
    /\ toload = naf_module__loadall
    /\ tounload = NULL
    /\ loaded = {}
    /\ handlers = NoHandlers
    /\ taglists = [m \in Modules |-> <<>>] /\ statslist = <<>>
    /\ evhlist = <<>> /\ evhfreed = FALSE
    /\ nodes = [n \in {} |-> 0]
    /\ streams = [n \in Names |-> 0]
    /\ userlogs = FALSE
    /\ bot = NULL
    /\ sessions = {}
    /\ stack = <<>>
    /\ history = [messages |-> <<>>, logs |-> {}, asked |-> FALSE, taken |-> FALSE,
                  stale |-> FALSE, crashed |-> FALSE]

Lifecycle == naf_module__load \/ sighandler_shutdown \/ naf_module__unloadall \/ signalhandler

Session(n) == Login(n) \/ ClientOnline(n) \/ Logout(n)

RouteStep ==
    \/ NextStage
    \/ timps_msgrouting
    \/ toscar_msgrouting
    \/ totr_msgroutinghandler_Plain
    \/ totr_uiop
    \/ totr_msgroutinghandler_Otr
    \/ totr_crash
    \/ totr_msgroutinghandler_Foreign
    \/ tlogging_msglogger
    \/ gnr_node__msg_postrouting
    \/ toscar_gnroutputfunc
    \/ totr_gnroutputfunc
    \/ Return

Next ==
    \/ Lifecycle
    \/ \E n \in Names : Session(n)
    \/ gnr_node__timeout
    \/ naf_rpc_request_issue
    \/ \E user, other \in Names, out \in BOOLEAN, text \in Brought :
          OscarMessage(user, other, out, text)
    \/ RouteStep

Spec == Init /\ [][Next]_vars

-----------------------------------------------------------------------------
(* Properties *)

TypeOK ==
    /\ toload \in Seq(Modules) /\ (tounload = NULL \/ tounload \in Seq(Modules))
    /\ loaded \subseteq Modules /\ DOMAIN taglists = Modules
    /\ handlers \in [Stage -> Seq(Handler)]
    /\ evhlist \in Seq(Listeners) /\ evhfreed \in BOOLEAN
    /\ DOMAIN nodes \subseteq Names /\ nodes \in [DOMAIN nodes -> Node]
    /\ streams \in [Names -> 0 .. 1]
    /\ userlogs \in BOOLEAN
    /\ bot \in {NULL, Bot}
    /\ sessions \subseteq Names
    /\ \A i \in DOMAIN stack : stack[i].text \in Text /\ stack[i].calls <= MaxCallbacks

\* gnr_msg_route is entered again from timps-otr only, and never a third
\* time: what timps-otr routes does not come back to it.
NestingBounded == Len(stack) <= 2

\* A message reaches the wire at most once, and once libotr has made a new
\* text of it (an encrypted one, or that encryption failed) the user's own
\* text never does.
OneCopy ==
    LET copies == {i \in DOMAIN history.messages : history.messages[i].text # "notice"}
    IN  /\ \A i, j \in copies : i = j
        /\ history.taken => \A i \in copies : history.messages[i].text = "otr"

\* No user's text is put on the wire before libotr has seen it, because the
\* handler of timps-otr comes first although its module is loaded last.  The
\* exception is in the handler: what a local user sends with OTR_MESSAGE_TAG
\* anywhere in its text, or without a text, goes out as it is.
OtrAskedFirst ==
    \A i \in DOMAIN history.messages :
        LET m == history.messages[i]
        IN  \/ m.text = "client"
            \/ m.text = "tagged" /\ ~Local(m.src)
            => history.asked

\* Whatever goes on the wire has been written to the log of both its users
\* before (tlogging_msglogger).
LoggedBeforeSent ==
    \A i \in DOMAIN history.messages :
        LET m == history.messages[i]
        IN  \A n \in {m.src, m.dst} \cap DOMAIN nodes :
               nodes[n].log => <<n, m.src, m.dst, m.text>> \in history.logs

\* Every open log stream is the tag of one live node: none leaks and none is
\* closed twice, whatever the order of NODEDOWN, freetag and the shutdown, in
\* which it is freetag that closes the streams of the users still online.
StreamsOwned ==
    \A n \in Names : streams[n] = IF Online(n) /\ nodes[n].log THEN 1 ELSE 0

\* timps_otr__botnode never points to a freed node, also when a user of the
\* same name logs out.
BotLive == bot # NULL => Online(bot)

\* Every method a module's init registers can be called while the loop runs,
\* although naf_rpc_register_method fails silently before rpc is loaded; and
\* of net, ipv4, gnr and timps-oscar, which take their methods back, none is
\* left, although net and ipv4 do so when rpc is gone and can only find them
\* because naf_tag_fetch takes NULL for any owner.  rpc, stats, conn, config
\* and core never take theirs back.
MethodsServed ==
    /\ Running => \A m \in loaded : Callable(m) = MethodsOf(m)
    /\ tounload # NULL =>
          \A m \in Modules \ loaded :
             Unregistered(m) \cap UNION {taglists[m][i].data : i \in DOMAIN taglists[m]} = {}

\* No statistic points into a module that has been unloaded, and while the
\* loop runs none is missing: gnr registers its own before stats is loaded.
StatsLive ==
    /\ \A i \in DOMAIN statslist : statslist[i].owner \in loaded
    /\ Running => {statslist[i].owner : i \in DOMAIN statslist} = Counting

\* The lists of message and event handlers, the output functions and the
\* statistics hold nothing of a module that has been unloaded, and of the
\* methods only those of the five modules that never unregister remain; no
\* module has looked for its event handler in the list gnr has freed; and
\* while the loop runs every loaded module is in all the registries it
\* belongs to: gnr_msg__register, which clears the lists, came first.
HandlersLive ==
    /\ \A s \in Stage : \A i \in DOMAIN handlers[s] : handlers[s][i].module \in loaded
    /\ \A i \in DOMAIN evhlist : evhlist[i] \in loaded
    /\ ~history.stale
    /\ \A m \in Outputs : ~naf_tag_ispresent(taglists[m], "gnr", OUTPUTFUNC) \/ m \in loaded
    /\ Running =>
          /\ \A m \in Handles : \E i \in DOMAIN handlers[StageOf(m)] :
                handlers[StageOf(m)][i].module = m
          /\ \A m \in Listeners : Listens(m)
          /\ \A m \in Outputs : HasOutput(m)
    /\ MethodsServed
    /\ StatsLive

============================================================================
