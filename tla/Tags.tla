-------------------------------- MODULE Tags --------------------------------
(***************************************************************************)
(* naf/tags.c: named data that modules hang on the objects of others.  A   *)
(* list is a sequence, the newest tag first.  The type of a tag only tells *)
(* its owner's freetag what the data is and is left out.                   *)
(***************************************************************************)
EXTENDS Naturals, Sequences, SequencesExt

CONSTANT NULL

IsTag(tag, mod, name) == tag.owner = mod /\ tag.name = name

naf_tag_ispresent(list, mod, name) == \E i \in DOMAIN list : IsTag(list[i], mod, name)

\* Refused without an owner, and if the owner has a tag of that name there.
naf_tag_add(list, mod, name, data) ==
    IF mod = NULL \/ naf_tag_ispresent(list, mod, name) THEN list
    ELSE <<[owner |-> mod, name |-> name, data |-> data]>> \o list

\* The list without the first tag of that owner and name.
naf_tag_remove(list, mod, name) ==
    IF mod = NULL \/ ~naf_tag_ispresent(list, mod, name) THEN list
    ELSE RemoveAt(list, Min({i \in DOMAIN list : IsTag(list[i], mod, name)}))

\* The tags naf_tag_fetch looks for: without an owner, those of anybody.
Fetchable(list, mod, name) ==
    {i \in DOMAIN list : list[i].name = name /\ (mod = NULL \/ list[i].owner = mod)}

\* The place of the first of them.
Found(list, mod, name) == Min(Fetchable(list, mod, name))

\* The data naf_tag_fetch returns, or NULL if it returns -1.
naf_tag_fetch(list, mod, name) ==
    IF Fetchable(list, mod, name) = {} THEN NULL ELSE list[Found(list, mod, name)].data

=============================================================================
