------------------------------ MODULE MCHttpd ------------------------------
(* Instances of Httpd for TLC. *)
EXTENDS Httpd

CONSTANTS c1, a

E1(addr, owner) == [port |-> 80, addr |-> addr, owner |-> owner]
E2(addr, owner) == [port |-> 5190, addr |-> addr, owner |-> owner]

\* The owner of a port changes, a port gets an address and loses it, a port
\* is listed twice, a port goes away.
MCConfs ==
    {<<E1(NONE, "httpd"), E2(NONE, "timps-oscar")>>,
     <<E1(NONE, NONE)>>,
     <<E1(a, "httpd"), E1(NONE, "httpd")>>,
     <<E1(a, NONE), E1(a, "httpd")>>}

============================================================================
