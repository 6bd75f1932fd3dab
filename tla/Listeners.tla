----------------------------- MODULE Listeners -----------------------------
(***************************************************************************)
(* The listening sockets of naf/conn.c and how cleanlisteners brings them  *)
(* in line with the parameter listenports, a list of                       *)
(* [address:]port[/module].  The list is a sequence of entries; a socket   *)
(* is what the kernel says it is bound to, with the module its connections *)
(* are forced upon.                                                        *)
(***************************************************************************)
EXTENDS Naturals, Sequences, SequencesExt

CONSTANTS
    Ports, Addrs,  \* ports and addresses that occur in listenports
    Mods,          \* modules that can be named as owners
    ANY,           \* INADDR_ANY
    NONE           \* no address, or no module, in an entry

ASSUME AddrAssumption == ANY \notin Addrs \cup {NONE} /\ NONE \notin Addrs
ASSUME ModsAssumption == NONE \notin Mods

Entry == [port : Ports, addr : Addrs \cup {NONE}, owner : Mods \cup {NONE}]
Listener == [port : Ports, addr : Addrs \cup {ANY}, owner : Mods \cup {NONE}]

\* The address a socket for the entry is bound to.
BoundAddr(e) == IF e.addr = NONE THEN ANY ELSE e.addr

\* The address of a socket is never missing, so an entry without one
\* matches no socket.
listenport_isconfigured(conf, l) ==
    \E i \in DOMAIN conf :
        /\ conf[i].port = l.port
        /\ conf[i].addr # NONE
        /\ conf[i].addr = l.addr

findlistenport(open, e) == \E l \in open : l.port = e.port /\ l.addr = BoundAddr(e)

\* naf_module_findbyname finds loaded modules only.
OwnerKnown(e, loaded) == e.owner = NONE \/ e.owner \in loaded

\* Mutation: no check for a socket that is already open.
Wanted_Dup(open, e, loaded) == OwnerKnown(e, loaded)

Wanted(open, e, loaded) == OwnerKnown(e, loaded) /\ ~findlistenport(open, e)

\* One round of the loop; the sockets of "refused" entries cannot be made.
listenestablish(open, e, loaded, refused) ==
    IF Wanted(open, e, loaded) /\ e \notin refused
    THEN open \cup {[port |-> e.port, addr |-> BoundAddr(e), owner |-> e.owner]}
    ELSE open

\* The sockets that stay, and then the entries in order.
cleanlisteners(open, conf, loaded, refused) ==
    LET round[n \in 0 .. Len(conf)] ==
            IF n = 0 THEN {l \in open : listenport_isconfigured(conf, l)}
            ELSE listenestablish(round[n - 1], conf[n], loaded, refused)
    IN  round[Len(conf)]

============================================================================
