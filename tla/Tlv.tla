-------------------------------- MODULE Tlv ---------------------------------
(***************************************************************************)
(* naf/tlv.c: type-length-value lists, kept as sequences.  A value is its  *)
(* length; the sections of a message block (type 0x0002) are kept as well, *)
(* because timps/oscar/im.c takes them apart.                              *)
(***************************************************************************)
EXTENDS Sbuf, SequencesExt

\* 0x0002, 0x0003, 0x0004 and every other type.
Types == {"msgblock", "ack", "autoresponse", "other"}

naf_tlv_new(type, length, sections) ==
    [type |-> type, length |-> length, sections |-> sections]

\* The TLV of zeroes or of a bare type that a read past the end gives.
NoValue(type) == naf_tlv_new(type, 0, <<>>)

\* Where a list has TLVs of a type, and the first of them.
Typed(list, type) == {i \in DOMAIN list : list[i].type = type}
FirstOf(list, type) == CHOOSE i \in Typed(list, type) : \A j \in Typed(list, type) : i <= j

\* The first TLV of the type, if there is one.
naf_tlv_get(list, type) ==
    IF Typed(list, type) = {} THEN <<>> ELSE <<list[FirstOf(list, type)]>>

\* Mutation: all of them.
naf_tlv_remove_All(list, type) == SelectSeq(list, LAMBDA tlv : tlv.type # type)

\* The list after naf_tlv_remove: without the first TLV of the type.
naf_tlv_remove(list, type) ==
    IF Typed(list, type) = {} THEN list ELSE RemoveAt(list, FirstOf(list, type))

Total(lengths) ==
    LET sum[n \in 0 .. Len(lengths)] == IF n = 0 THEN 0 ELSE sum[n - 1] + lengths[n]
    IN  sum[Len(lengths)]

naf_tlv_getrenderedsize(list) == Total([i \in DOMAIN list |-> 2 + 2 + list[i].length])

\* One round of naf_tlv_render: the type, the length, the value.
RenderOne(tlv, sb) == naf_sbuf_putraw(naf_sbuf_put(naf_sbuf_put(sb, 2), 2), tlv.length)

=============================================================================
