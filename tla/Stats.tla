------------------------------- MODULE Stats --------------------------------
(***************************************************************************)
(* naf/stats.c: the list of statistics, each a name and a pointer to a     *)
(* variable of the module that owns it.                                    *)
(***************************************************************************)
EXTENDS Sequences, SequencesExt

registerstat(list, owner, name) == <<[owner |-> owner, name |-> name]>> \o list

\* The first of that name; the name holds the owner's.
naf_stats_unregisterstat(list, owner, name) ==
    LET those == {i \in DOMAIN list : list[i] = [owner |-> owner, name |-> name]}
    IN  IF those = {} THEN list ELSE RemoveAt(list, Min(those))

\* The list of stats when its module is unloaded.
freestatlist == <<>>

=============================================================================
