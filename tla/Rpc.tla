-------------------------------- MODULE Rpc ---------------------------------
(***************************************************************************)
(* naf/rpc.c: the methods of a module, kept in the tag module.rpi that the *)
(* module rpc hangs on it.  The data of the tag stands for the struct it   *)
(* points to: the set of method names.  ourmodule is rpc, or NULL while    *)
(* rpc is not loaded.                                                      *)
(***************************************************************************)
EXTENDS Tags

RPI == "module.rpi"

\* The tag list of a module after fetchinfo, which makes a tag if there is
\* none; that fails without an owner.
fetchinfo(list, ourmodule) ==
    IF naf_tag_fetch(list, ourmodule, RPI) # NULL THEN list
    ELSE naf_tag_add(list, ourmodule, RPI, {})

\* What fetchinfo returns.
Methods(list, ourmodule) == naf_tag_fetch(fetchinfo(list, ourmodule), ourmodule, RPI)

\* The list after the struct fetchinfo returns has been changed.
SetMethods(list, ourmodule, methods) ==
    [fetchinfo(list, ourmodule) EXCEPT ![Found(fetchinfo(list, ourmodule), ourmodule, RPI)].data = methods]

\* A call for each of names; the calls fail if there is no struct.
naf_rpc_register_method(list, ourmodule, names) ==
    IF names = {} \/ Methods(list, ourmodule) = NULL THEN list
    ELSE SetMethods(list, ourmodule, Methods(list, ourmodule) \cup names)

naf_rpc_unregister_method(list, ourmodule, names) ==
    IF names = {} \/ Methods(list, ourmodule) = NULL THEN list
    ELSE SetMethods(list, ourmodule, Methods(list, ourmodule) \ names)

=============================================================================
