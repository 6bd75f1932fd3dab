-------------------------------- MODULE Icbm --------------------------------
(***************************************************************************)
(* An instant message taken apart and put together again:                  *)
(* timps/oscar/im.c, touserinfo and toscar_newsnacsb of                    *)
(* timps/oscar/snac.c, over naf/tlv.c and naf/sbuf.c.                      *)
(*                                                                         *)
(* The state is that of the one message being handled (struct gnrmsg and   *)
(* the locals of the handler); there is one action per round of the        *)
(* parsing, converting and rendering loops.  Bytes are counted, with the   *)
(* sizes of the code, not written.  Which of the two output functions      *)
(* gnr_msg_route ends in is MsgRoute's subject and left open here.         *)
(* Tags of a message are fields of gm: this module is their only owner.    *)
(*                                                                         *)
(* A payload is a head (cookie, channel, name, and for 0004/0007 the       *)
(* warning level and a count of user info TLVs), whole TLVs, and a tail:   *)
(*   tail = 1, 2, 3   that many bytes, the first two a type;               *)
(*   tail = 4         the type and length of a TLV whose value is missing. *)
(* The type in a tail is none the code knows.  A payload that ends before  *)
(* the length of the name is taken for one with an empty name.             *)
(*                                                                         *)
(* What a section of a message block says its length is may be more than   *)
(* the block holds, and memory that is read before it is written holds     *)
(* anything: Unwritten and Leftovers are the outcomes considered.  A text  *)
(* is as long as what was converted: a NUL inside it, at which strlen      *)
(* stops, is left out.                                                     *)
(***************************************************************************)
EXTENDS Tlv

CONSTANTS
    Tlvs,       \* the TLVs a client or the host may send
    MaxTlvs,    \* in one message
    NameLens,   \* lengths of names
    TlvCounts,  \* counts in the head of user info
    Unwritten,  \* numbers of characters that bytes nobody wrote may hold
    Leftovers,  \* sections that a block nobody wrote may seem to have
    OtrTexts,   \* lengths of the texts timps-otr sends
    NULL

MAXSNACLEN == 8192
SNACHDRLEN == 10
FLAPHDRLEN == 6
MSGCOOKIELEN == 8
MSGBLOCKLEN == 16   \* of _naf_tlv_addoscarmsgblock, without the text

\* A section whose encoding is "overlong" is ISO-8859-1 and longer than the
\* rest of its block; "malformed" is where the parser gives up, as it does at
\* UNICODE that is too long.
Encodings == {"iso", "narrow", "wide", "other", "overlong", "malformed"}
Section == [encoding : Encodings, bytes : Nat]

TLV == [type : Types, length : Nat, sections : Seq(Section)]

\* All the sections of a block that need to be are inside it.
Inside(tlv) == \A i \in DOMAIN tlv.sections : tlv.sections[i].encoding # "overlong"

\* Sections that lie inside a block are no longer than it; the length of a
\* name is one byte and the count of TLVs two.
ASSUME TlvsAssumption ==
    \A tlv \in Tlvs :
        /\ tlv \in TLV
        /\ Inside(tlv) =>
              Total([i \in DOMAIN tlv.sections |-> tlv.sections[i].bytes]) <= tlv.length
ASSUME BoundsAssumption == MaxTlvs \in Nat /\ NameLens \subseteq 0 .. 255 /\ TlvCounts \subseteq 0 .. U16 - 1
ASSUME MemoryAssumption == Unwritten \subseteq Nat /\ Leftovers \subseteq Seq(Section)
ASSUME OtrAssumption == OtrTexts \subseteq Nat
ASSUME NullAssumption == NULL \notin Nat /\ NULL \notin TLV

VARIABLES
    pc,        \* the loop or function that runs
    snac,      \* the payload, or NULL between messages
    payload,   \* snac->payload
    srcinfo,   \* TLVs of the sender's user info
    tlvh,      \* TLVs of the message
    gm,        \* what the message carries for rendering
    sections,  \* of the message block, not yet converted
    msgtext,   \* length of the text converted so far, or NULL
    unrepresentable,
    out,       \* the SNAC being rendered
    todo,      \* lists that naf_tlv_render has still to render
    sent,      \* TLVs rendered
    dir        \* "tohost": sendoutgoing, "toclient": sendincoming

vars == <<pc, snac, payload, srcinfo, tlvh, gm, sections, msgtext,
          unrepresentable, out, todo, sent, dir>>

\* otr: timps-otr made the message.
NewMsg == [text |-> NULL, msgtlv |-> NULL, ack |-> FALSE, auto |-> FALSE, otr |-> FALSE]

Init ==
    /\ pc = "idle" /\ snac = NULL /\ payload = naf_sbuf_init_buf(0)
    /\ srcinfo = <<>> /\ tlvh = <<>> /\ gm = NewMsg
    /\ sections = <<>> /\ msgtext = NULL /\ unrepresentable = FALSE
    /\ out = naf_sbuf_init /\ todo = <<>> /\ sent = <<>> /\ dir = NULL

-----------------------------------------------------------------------------
(* The payload *)

\* cut: the payload ends inside the cookie or the name.
\* info: the bytes there are of the warning level and the count of TLVs, both
\* of which are 0 if they are not there.
Heads ==
    [subtype : {"0006"}, info : {0}, tlvcnt : {0},
     msgchan : {1, 2}, namelen : NameLens, cut : BOOLEAN]
      \cup [subtype : {"0007"}, info : {4}, tlvcnt : TlvCounts,
            msgchan : {1, 2}, namelen : NameLens, cut : BOOLEAN]
      \cup [subtype : {"0007"}, info : {0, 2}, tlvcnt : {0},
            msgchan : {1, 2}, namelen : NameLens, cut : {FALSE}]

\* The payload ends inside the user info.
ShortInfo(head) == head.subtype = "0007" /\ head.info < 4

\* Cookie, channel, length of the name, name; user info adds the warning
\* level and the number of its TLVs.
HeadLen(s) == MSGCOOKIELEN + 2 + 1 + s.head.namelen + s.head.info

PayloadLen(s) == HeadLen(s) + naf_tlv_getrenderedsize(s.tlvs) + s.tail

\* The TLV that starts at offset n; in the tail, the one its bytes pretend.
TlvAt(s, n) ==
    LET starts == {i \in DOMAIN s.tlvs :
                      n = HeadLen(s) + naf_tlv_getrenderedsize(SubSeq(s.tlvs, 1, i - 1))}
    IN  IF starts # {} THEN s.tlvs[CHOOSE i \in starts : TRUE]
        ELSE naf_tlv_new("other", IF s.tail = 4 THEN 1 ELSE 0, <<>>)

\* A FLAP that is too long ends the connection before the SNAC is looked at.
toscar_flap_handleread ==
    /\ pc = "idle"
    /\ \E head \in Heads, tail \in 0 .. 4, n \in 0 .. MaxTlvs :
       /\ head.cut \/ head.msgchan # 1 => n = 0    \* the TLVs do not matter
       /\ ShortInfo(head) => n = 0 /\ tail < 2
       /\ \E tlvs \in [1 .. n -> Tlvs] :
             /\ snac' = [head |-> head, tlvs |-> tlvs, tail |-> tail]
             /\ SNACHDRLEN + PayloadLen(snac') <= MAXSNACLEN
             /\ payload' = naf_sbuf_init_buf(PayloadLen(snac'))
    /\ pc' = "head"
    /\ UNCHANGED <<srcinfo, tlvh, gm, sections, msgtext, unrepresentable, out, todo, sent, dir>>

\* The handlers return, and everything they allocated for the message goes.
Return ==
    /\ pc' = "idle" /\ snac' = NULL /\ payload' = naf_sbuf_init_buf(0)
    /\ srcinfo' = <<>> /\ tlvh' = <<>> /\ gm' = NewMsg
    /\ sections' = <<>> /\ msgtext' = NULL /\ unrepresentable' = FALSE
    /\ out' = naf_sbuf_init /\ todo' = <<>> /\ sent' = <<>> /\ dir' = NULL

-----------------------------------------------------------------------------
(* Taking the message apart *)

\* HRET_ERROR: no whole cookie or name.
toscar_snachandler_error ==
    /\ pc = "head" /\ snac.head.cut
    /\ Return

\* The head of 0004/0006, and that of 0004/0007 up to the TLVs of the user
\* info: touserinfo_extract.
toscar_snachandler_head ==
    /\ pc = "head" /\ ~snac.head.cut
    /\ payload' = naf_sbuf_get(payload, HeadLen(snac))
    /\ pc' = IF snac.head.subtype = "0007" /\ snac.head.tlvcnt # 0 THEN "userinfo" ELSE "parse"
    /\ UNCHANGED <<snac, srcinfo, tlvh, gm, sections, msgtext, unrepresentable, out, todo, sent, dir>>

\* Mutation: naf_sbuf_get16 does not take the last two bytes.
NoProgress_Two == naf_sbuf_bytesremaining(payload) \in {1, 2}

\* A round of naf_tlv_parse_limit that reads nothing: one byte is left.
NoProgress == naf_sbuf_bytesremaining(payload) = 1

\* One round of naf_tlv_parse_limit: list gets a TLV (listp is its next value)
\* unless its value is missing, which ends the loop, as reaching the limit
\* does.
ParseRound(list, listp, limit, then) ==
    LET here   == TlvAt(snac, payload.pos)
        typed  == naf_sbuf_get(payload, 2)
        sized  == naf_sbuf_get(typed, 2)
        type   == IF naf_sbuf_has(payload, 2) THEN here.type ELSE "other"
        length == IF naf_sbuf_has(typed, 2) THEN here.length ELSE 0
        whole  == naf_sbuf_has(sized, length)
    IN  /\ naf_sbuf_bytesremaining(payload) > 0
        /\ payload' = naf_sbuf_getraw(sized, length)
        /\ listp = IF whole THEN Append(list, naf_tlv_new(type, length, here.sections)) ELSE list
        /\ pc' = IF whole /\ Len(list) + 1 # limit THEN pc ELSE then

ParseEnd(then) ==
    /\ naf_sbuf_bytesremaining(payload) = 0
    /\ pc' = then
    /\ UNCHANGED <<payload, srcinfo, tlvh>>

\* The TLVs of the user info: naf_tlv_parse_limit with the count of the head.
touserinfo_extract ==
    /\ pc = "userinfo"
    /\ \/ ParseRound(srcinfo, srcinfo', snac.head.tlvcnt, "parse") /\ UNCHANGED tlvh
       \/ ParseEnd("parse")
    /\ UNCHANGED <<snac, gm, sections, msgtext, unrepresentable, out, todo, sent, dir>>

\* The TLVs of the message: no limit.  Without progress the loop goes on for
\* ever; the empty TLVs it collects are left out.
naf_tlv_parse ==
    /\ pc = "parse"
    /\ \/ ~NoProgress /\ ParseRound(tlvh, tlvh', -1, "chan") /\ UNCHANGED srcinfo
       \/ NoProgress /\ UNCHANGED <<pc, payload, srcinfo, tlvh>>
       \/ ParseEnd("chan")
    /\ UNCHANGED <<snac, gm, sections, msgtext, unrepresentable, out, todo, sent, dir>>

\* Not an instant message: HRET_FORWARD, the SNAC goes on as it came.
OtherChannel ==
    /\ pc = "chan" /\ snac.head.msgchan # 1
    /\ Return

\* toscar_icbm__parsechan1 takes the first message block and the flags out of
\* the list; what is left becomes the tag gnrmsg.extraoscartlvs.  For a block
\* without a value naf_sbuf_init allocates 512 bytes that nobody writes.
toscar_icbm__parsechan1 ==
    /\ pc = "chan" /\ snac.head.msgchan = 1
    /\ LET blocks == naf_tlv_get(tlvh, "msgblock")
       IN  /\ sections' \in CASE blocks = <<>> -> {<<>>}
                              [] blocks # <<>> /\ Head(blocks).length # 0 -> {Head(blocks).sections}
                              [] OTHER -> Leftovers
           /\ gm' = [gm EXCEPT !.msgtlv = IF blocks = <<>> THEN NULL ELSE Head(blocks),
                               !.ack  = naf_tlv_get(tlvh, "ack") # <<>>,
                               !.auto = naf_tlv_get(tlvh, "autoresponse") # <<>>]
    /\ tlvh' = naf_tlv_remove(naf_tlv_remove(naf_tlv_remove(tlvh, "msgblock"), "ack"), "autoresponse")
    /\ pc' = "text"
    /\ UNCHANGED <<snac, payload, srcinfo, msgtext, unrepresentable, out, todo, sent, dir>>

-----------------------------------------------------------------------------
(* The text of the message *)

\* extendstr and the characters added: one for a byte, one for a 16 bit
\* character below 128, and the seven of an entity for any other.
Converted(section) ==
    CASE section.encoding = "iso"    -> section.bytes
      [] section.encoding = "narrow" -> section.bytes \div 2
      [] section.encoding = "wide"   -> 7 * (section.bytes \div 2)

\* UNICODE of an odd length cannot be represented either.
Representable(section) ==
    \/ section.encoding = "iso"
    \/ section.encoding \in {"narrow", "wide"} /\ section.bytes % 2 = 0

TextSoFar == IF msgtext = NULL THEN 0 ELSE msgtext

\* One round of toscar_icbm__extractmsgtext.
extractmsgtext_section ==
    /\ pc = "text" /\ sections # <<>> /\ Head(sections).encoding \notin {"overlong", "malformed"}
    /\ IF Representable(Head(sections))
       THEN /\ msgtext' = Converted(Head(sections)) + TextSoFar
            /\ UNCHANGED unrepresentable
       ELSE unrepresentable' = TRUE /\ UNCHANGED msgtext
    /\ sections' = Tail(sections)
    /\ UNCHANGED <<pc, snac, payload, srcinfo, tlvh, gm, out, todo, sent, dir>>

\* The round for a section that is longer than what is left: the text grows by
\* as many bytes, naf_sbuf_getrawbuf writes none of them and does not move.
extractmsgtext_overlong ==
    /\ pc = "text" /\ sections # <<>> /\ Head(sections).encoding = "overlong"
    /\ \E n \in Unwritten : n <= Head(sections).bytes /\ msgtext' = n + TextSoFar
    /\ sections' = Tail(sections)
    /\ UNCHANGED <<pc, snac, payload, srcinfo, tlvh, gm, unrepresentable, out, todo, sent, dir>>

\* It returns -1: no text, and the block becomes the tag gnrmsg.oscarmsgtlv.
extractmsgtext_error ==
    /\ pc = "text" /\ sections # <<>> /\ Head(sections).encoding = "malformed"
    /\ sections' = <<>> /\ msgtext' = NULL /\ unrepresentable' = FALSE
    /\ pc' = "route"
    /\ UNCHANGED <<snac, payload, srcinfo, tlvh, gm, out, todo, sent, dir>>

\* It returns 0 or 1; the block is kept only in the second case.
extractmsgtext_end ==
    /\ pc = "text" /\ sections = <<>>
    /\ gm' = [gm EXCEPT !.text = msgtext, !.msgtlv = IF unrepresentable THEN @ ELSE NULL]
    /\ msgtext' = NULL /\ unrepresentable' = FALSE
    /\ pc' = "route"
    /\ UNCHANGED <<snac, payload, srcinfo, tlvh, sections, out, todo, sent, dir>>

-----------------------------------------------------------------------------
(* Putting it together *)

\* timps-otr takes the message and sends a text of its own or of libotr
\* instead, without the tags: totr_sendnewmsg and totr_vsendmsg.
totr_sendnewmsg ==
    /\ pc = "route" /\ ~gm.otr
    /\ \E n \in OtrTexts : gm' = [NewMsg EXCEPT !.text = n, !.otr = TRUE]
    /\ srcinfo' = <<>> /\ tlvh' = <<>>
    /\ UNCHANGED <<pc, snac, payload, sections, msgtext, unrepresentable, out, todo, sent, dir>>

\* The TLV _naf_tlv_addoscarmsgblock makes; none without a text.  Only a text
\* of nearly 64 KB, to whose length the code's naf_u16_t is too short, is
\* refused here; the sixteen bytes before it are put as one.
_naf_tlv_addoscarmsgblock(text) ==
    LET sb == naf_sbuf_put(naf_sbuf_init_buf(MSGBLOCKLEN + text), MSGBLOCKLEN)
    IN  naf_tlv_new("msgblock", naf_sbuf_putraw(sb, text).pos, <<[encoding |-> "iso", bytes |-> text]>>)

MsgBlock ==
    CASE gm.msgtlv # NULL -> <<gm.msgtlv>>
      [] gm.msgtlv = NULL /\ gm.text # NULL -> <<_naf_tlv_addoscarmsgblock(gm.text)>>
      [] OTHER -> <<>>

Flags(ack, auto) ==
    (IF ack THEN <<NoValue("ack")>> ELSE <<>>) \o (IF auto THEN <<NoValue("autoresponse")>> ELSE <<>>)

\* The lists toscar_icbm__renderchan1 renders.
toscar_icbm__renderchan1(ack) == <<MsgBlock, Flags(ack, gm.auto), tlvh>>

\* toscar_newsnacsb, the cookie and the channel.
toscar_newsnacsb ==
    naf_sbuf_put(naf_sbuf_putraw(naf_sbuf_put(naf_sbuf_init, FLAPHDRLEN + SNACHDRLEN), MSGCOOKIELEN), 2)

PutName(sb) == naf_sbuf_putraw(naf_sbuf_put(sb, 1), snac.head.namelen)

\* To the host, for a message of a local user: the name is the receiver's.
toscar_icbm_sendoutgoing ==
    /\ pc = "route" /\ snac.head.subtype = "0006"
    /\ out' = PutName(toscar_newsnacsb)
    /\ todo' = toscar_icbm__renderchan1(gm.ack)
    /\ dir' = "tohost"
    /\ pc' = "render"
    /\ UNCHANGED <<snac, payload, srcinfo, tlvh, gm, sections, msgtext, unrepresentable, sent>>

\* To a client: from the host, or from another client, whose message has no
\* user info.  touserinfo_render: the sender's name, warning level and TLVs.
toscar_icbm_sendincoming ==
    /\ pc = "route"
    /\ out' = naf_sbuf_put(naf_sbuf_put(PutName(toscar_newsnacsb), 2), 2)
    /\ gm' = [gm EXCEPT !.ack = FALSE]
    /\ todo' = <<srcinfo>> \o toscar_icbm__renderchan1(FALSE)
    /\ dir' = "toclient"
    /\ pc' = "render"
    /\ UNCHANGED <<snac, payload, srcinfo, tlvh, sections, msgtext, unrepresentable, sent>>

\* No route: a handler dropped the message, or its connection is gone.
NotSent ==
    /\ pc = "route"
    /\ Return

\* One round of naf_tlv_render, which ends with the list or when the buffer
\* has no bytes left.
naf_tlv_render ==
    /\ pc = "render" /\ todo # <<>>
    /\ IF Head(todo) # <<>> /\ naf_sbuf_bytesremaining(out) > 0
       THEN /\ out' = RenderOne(Head(Head(todo)), out)
            /\ sent' = Append(sent, Head(Head(todo)))
            /\ todo' = <<Tail(Head(todo))>> \o Tail(todo)
       ELSE todo' = Tail(todo) /\ UNCHANGED <<out, sent>>
    /\ UNCHANGED <<pc, snac, payload, srcinfo, tlvh, gm, sections, msgtext, unrepresentable, dir>>

\* toscar_flap_sendsbuf_consume sends what is before out.pos.
toscar_flap_sendsbuf_consume ==
    /\ pc = "render" /\ todo = <<>>
    /\ Return

Next ==
    \/ toscar_flap_handleread
    \/ toscar_snachandler_error \/ toscar_snachandler_head
    \/ touserinfo_extract \/ naf_tlv_parse
    \/ OtherChannel \/ toscar_icbm__parsechan1
    \/ extractmsgtext_section \/ extractmsgtext_overlong
    \/ extractmsgtext_error \/ extractmsgtext_end
    \/ totr_sendnewmsg \/ toscar_icbm_sendoutgoing \/ toscar_icbm_sendincoming \/ NotSent
    \/ naf_tlv_render \/ toscar_flap_sendsbuf_consume

Spec == Init /\ [][Next]_vars

\* The handler is one call: nothing else runs until it returns.
FairSpec == Spec /\ WF_vars(Next)

-----------------------------------------------------------------------------
(* What a relayed message should be *)

\* The TLVs a payload holds: a two byte tail passes for one without a value.
Held(s) == s.tlvs \o (IF s.tail = 2 THEN <<NoValue("other")>> ELSE <<>>)

First(n, list) == SubSeq(list, 1, IF n < Len(list) THEN n ELSE Len(list))
Rest(n, list) == SubSeq(list, n + 1, Len(list))

\* All of a message block is text that ISO-8859-1 and HTML can carry.
AllText(tlv) == \A i \in DOMAIN tlv.sections : Representable(tlv.sections[i])

TextLen(tlv) == Total([i \in DOMAIN tlv.sections |-> Converted(tlv.sections[i])])

\* The message block that stands for tlv: itself if there is more than text
\* in it, nothing if there is no text at all.
Relayed(tlv) ==
    CASE ~AllText(tlv) -> <<tlv>>
      [] AllText(tlv) /\ tlv.sections # <<>> ->
            <<naf_tlv_new("msgblock", MSGBLOCKLEN + TextLen(tlv),
                          <<[encoding |-> "iso", bytes |-> TextLen(tlv)]>>)>>
      [] OTHER -> <<>>

\* How many of the TLVs are user info, and those that are the message.
Info(s) == IF s.head.subtype = "0007" THEN s.head.tlvcnt ELSE 0
Msg(s) == Rest(Info(s), Held(s))

\* All but the first message block and the first of each flag.
NotUnderstood(msg) ==
    LET left[n \in 0 .. Len(msg)] ==
            IF n = 0 THEN <<>>
            ELSE IF msg[n].type # "other" /\ \A i \in 1 .. n - 1 : msg[i].type # msg[n].type
                 THEN left[n - 1]
                 ELSE Append(left[n - 1], msg[n])
    IN  left[Len(msg)]

\* What goes out for s: user info, message, flags without the request for an
\* acknowledgement if it goes to a client, then all that was not understood.
Whole(s) ==
    LET Has(type) == Typed(Msg(s), type) # {}
    IN  First(Info(s), Held(s))
          \o (IF Has("msgblock") THEN Relayed(Msg(s)[FirstOf(Msg(s), "msgblock")]) ELSE <<>>)
          \o Flags(dir = "tohost" /\ Has("ack"), Has("autoresponse"))
          \o NotUnderstood(Msg(s))

OutHeadLen ==
    FLAPHDRLEN + SNACHDRLEN + MSGCOOKIELEN + 2 + 1 + snac.head.namelen
        + (IF dir = "toclient" THEN 2 + 2 ELSE 0)

Ready == pc = "render" /\ todo = <<>>

\* The message block, if there is one, has a value and its sections lie
\* inside it; toscar_icbm__extractmsgtext does not check it.
WellFormed(s) ==
    LET block == Msg(s)[FirstOf(Msg(s), "msgblock")]
    IN  Typed(Msg(s), "msgblock") # {} => block.length # 0 /\ Inside(block)

\* The longest text of timps-otr that surely has room behind a head.
MAXTEXT == 31600

\* The frame of a relayed message whose block is well-formed, and that of a
\* message timps-otr made with a text of at most MAXTEXT bytes, holds exactly
\* what was put into it and lies inside its buffer: although text grows up to
\* three and a half times when UNICODE becomes entities (im.c:129-160), no put
\* is refused half-way through a TLV because the buffer has reached its
\* maximum (sbuf.c:79-107), and no length wraps.  Of other messages the code
\* does not make sure of that, and nothing is claimed.
Framed ==
    pc = "render" /\ (IF gm.otr THEN gm.text <= MAXTEXT ELSE WellFormed(snac)) =>
        /\ out.pos = OutHeadLen + naf_tlv_getrenderedsize(sent)
        /\ out.pos <= out.buflen /\ out.buflen <= NAF_SBUF_DEFAULT_MAXBUFLEN

\* The frame of a relayed message whose block is well-formed lacks TLVs of the
\* message only at its end, and only if what it has fills the buffer to the
\* last byte, where naf_tlv_render stops (tlv.c:122) instead of letting the
\* buffer grow.
CutOnlyWhenFull ==
    Ready /\ ~gm.otr /\ WellFormed(snac) =>
             /\ IsPrefix(sent, Whole(snac))
             /\ sent # Whole(snac) => naf_sbuf_bytesremaining(out) = 0

\* The handler of a message returns, whatever is cut off its end, unless a
\* single byte is left over: the loop of naf_tlv_parse_limit (tlv.c:80) then
\* reads nothing and goes on for ever.
MessageHandled == (pc = "head" /\ snac.tail \notin {1, 3}) ~> (pc = "idle")

=============================================================================
