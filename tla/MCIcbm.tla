------------------------------- MODULE MCIcbm -------------------------------
(* Icbm with payloads whose relayed frames end before, at and after the    *)
(* end of a 512 byte buffer, and with the longest text there can be.       *)
EXTENDS Icbm

Part(e, n) == [encoding |-> e, bytes |-> n]

Block(ss) ==
    naf_tlv_new("msgblock",
                CASE Len(ss) = 0 -> 8
                  [] Len(ss) = 1 -> 16 + ss[1].bytes
                  [] Len(ss) = 2 -> 24 + ss[1].bytes + ss[2].bytes
                  [] Len(ss) = 3 -> 32 + ss[1].bytes + ss[2].bytes + ss[3].bytes, ss)

\* Sent to the host behind a name of 5 bytes, 100 bytes of text and the last
\* TLV below fill the buffer.
MCTlvs ==
    {Block(<<Part("iso", 100)>>),
     Block(<<Part("wide", 8142)>>), Block(<<>>),
     Block(<<Part("narrow", 10), Part("other", 1)>>),
     Block(<<Part("iso", 2), Part("wide", 5), Part("malformed", 0)>>),
     naf_tlv_new("msgblock", 19, <<Part("overlong", 65531), Part("iso", 3)>>), NoValue("msgblock"),
     NoValue("ack"), NoValue("autoresponse"), naf_tlv_new("other", 356, <<>>)}

\* A block of 512 bytes that nobody wrote is malformed, or happens to be text.
MCLeftovers == {<<Part("malformed", 0)>>, <<Part("iso", 496)>>}

=============================================================================
