-------------------------------- MODULE Sbuf --------------------------------
(***************************************************************************)
(* naf/sbuf.c: bounded and growing byte buffers.  Only the arithmetic is   *)
(* kept: a buffer is its length, its position and whether it may grow.     *)
(* Lengths and positions are naf_u16_t.  Memory for a larger buffer is     *)
(* always found.                                                           *)
(***************************************************************************)
EXTENDS Integers

NAF_SBUF_DEFAULT_BUFLEN == 512
NAF_SBUF_DEFAULT_BLOCKSIZE == 256
NAF_SBUF_DEFAULT_MAXBUFLEN == 32768

U16 == 65536

Sbuf == [buflen : 0 .. U16 - 1, pos : 0 .. U16 - 1, autoresize : BOOLEAN]

\* naf_sbuf_init without a buffer and without a length.
naf_sbuf_init == [buflen |-> NAF_SBUF_DEFAULT_BUFLEN, pos |-> 0, autoresize |-> TRUE]

\* naf_sbuf_init around the caller's n bytes.
naf_sbuf_init_buf(n) == [buflen |-> n % U16, pos |-> 0, autoresize |-> FALSE]

naf_sbuf_bytesremaining(sb) == sb.buflen - sb.pos

\* Mutation: one block, however much is needed.
Extended_OneBlock(sb, n) == sb.buflen + NAF_SBUF_DEFAULT_BLOCKSIZE

\* The length naf_sbuf__extendbuf computes: a block for each block begun.
Extended(sb, n) ==
    LET blocks == (n + NAF_SBUF_DEFAULT_BLOCKSIZE - 1) \div NAF_SBUF_DEFAULT_BLOCKSIZE
    IN  (sb.buflen + blocks * NAF_SBUF_DEFAULT_BLOCKSIZE) % U16

MayExtend(sb, n) == sb.autoresize /\ Extended(sb, n) <= NAF_SBUF_DEFAULT_MAXBUFLEN

\* put8, put16 and put32: a buffer that is too short grows by n, or the call
\* is refused and changes nothing.
naf_sbuf_put(sb, n) ==
    LET fits == naf_sbuf_bytesremaining(sb) >= n
    IN  IF fits \/ MayExtend(sb, n % U16)
        THEN [sb EXCEPT !.buflen = IF fits THEN @ ELSE Extended(sb, n % U16),
                        !.pos = (@ + n) % U16]
        ELSE sb

\* naf_sbuf_putraw and naf_sbuf_putstr of n bytes.
naf_sbuf_putraw(sb, n) == naf_sbuf_put(sb, n)

\* get8, get16, get32 and getrawbuf of n bytes succeed.
naf_sbuf_has(sb, n) == naf_sbuf_bytesremaining(sb) >= n

\* Where get8, get16 and get32 leave the buffer: they return 0 and do not
\* move when they fail.
naf_sbuf_get(sb, n) == IF naf_sbuf_has(sb, n) THEN [sb EXCEPT !.pos = @ + n] ELSE sb

\* naf_sbuf_getrawbuf, and naf_sbuf_getraw and naf_sbuf_getstr around it.
naf_sbuf_getraw(sb, n) == naf_sbuf_get(sb, n)

=============================================================================
