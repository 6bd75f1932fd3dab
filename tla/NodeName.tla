----------------------------- MODULE NodeName ------------------------------
(***************************************************************************)
(* How names are compared and hashed: gnr_node_namecmp and                 *)
(* gnr_node__hash_getidx of gnr/node.c, and toscar_sncmp, the second       *)
(* comparison, which timps/oscar uses to look connections up.  A character *)
(* is the value of a char, which is signed; a name is the sequence of its  *)
(* characters, the terminating NUL left out.  The loops are recursive      *)
(* functions of the number of rounds.                                      *)
(***************************************************************************)
EXTENDS Integers, Sequences

CONSTANT GNR_NODE_HASH_SIZE

NUL == 0
Space == 32
Char == (-128 .. 127) \ {NUL}

\* The functions of the C locale: the program never leaves it.
toupper(ch) == IF ch \in 97 .. 122 THEN ch - 32 ELSE ch
tolower(ch) == IF ch \in 65 .. 90 THEN ch + 32 ELSE ch

\* What a pointer to the i-th character of a name reads.
At(name, i) == IF i \in 1 .. Len(name) THEN name[i] ELSE NUL

\* What "case and spacing are ignored" means: the letters that remain.
NormalForm(name) ==
    LET letters[n \in 0 .. Len(name)] ==
            IF n = 0 THEN <<>>
            ELSE IF name[n] = Space
                 THEN letters[n - 1]
                 ELSE Append(letters[n - 1], tolower(name[n]))
    IN  letters[Len(name)]

EndsInSpace(name) == At(name, Len(name)) = Space

\* Where the last letter is, 0 for a name without one.
LastLetter(name) ==
    CHOOSE k \in 0 .. Len(name) :
        At(name, k) # Space /\ \A l \in k + 1 .. Len(name) : At(name, l) = Space

\* What the comment leaves out: how many spaces follow the last letter.
TrailingSpaces(name) == Len(name) - LastLetter(name)

-----------------------------------------------------------------------------
(* Comparisons *)

\* A round of gnr_node_namecmp: both pointers skip one space at a time, and
\* stop at the end of either name or at letters that differ.
NamecmpRound(sn1, sn2, p) ==
    LET c1 == At(sn1, p[1])
        c2 == At(sn2, p[2])
    IN  IF c1 = NUL \/ c2 = NUL
        THEN p
        ELSE IF c1 = Space \/ c2 = Space
             THEN <<IF c1 = Space THEN p[1] + 1 ELSE p[1],
                    IF c2 = Space THEN p[2] + 1 ELSE p[2]>>
             ELSE IF toupper(c1) # toupper(c2)
                  THEN p
                  ELSE <<p[1] + 1, p[2] + 1>>

\* What is left of either name counts.
gnr_node_namecmp(sn1, sn2) ==
    LET rounds == Len(sn1) + Len(sn2)
        curPtr[n \in 0 .. rounds] ==
            IF n = 0 THEN <<1, 1>> ELSE NamecmpRound(sn1, sn2, curPtr[n - 1])
        end == curPtr[rounds]
    IN  IF At(sn1, end[1]) = NUL /\ At(sn2, end[2]) = NUL THEN 0 ELSE 1

\* Mutation: only the letters are compared, spaces are not skipped.
SkipSpaces_Never(name, i) == i

\* Where a pointer is after skipping spaces.
SkipSpaces(name, i) ==
    CHOOSE k \in i .. Len(name) + 1 :
        At(name, k) # Space /\ \A l \in i .. k - 1 : At(name, l) = Space

\* The spaces skipped in one round lead to both ends at once.
BothRunOut(sn1, sn2, p) ==
    /\ At(sn1, p[1]) # NUL /\ At(sn2, p[2]) # NUL
    /\ At(sn1, SkipSpaces(sn1, p[1])) = NUL /\ At(sn2, SkipSpaces(sn2, p[2])) = NUL

\* A round of toscar_sncmp.
SncmpRound(sn1, sn2, p) ==
    LET p1 == SkipSpaces(sn1, p[1])
        p2 == SkipSpaces(sn2, p[2])
    IN  IF \/ At(sn1, p[1]) = NUL \/ At(sn2, p[2]) = NUL
           \/ BothRunOut(sn1, sn2, p)
           \/ toupper(At(sn1, p1)) # toupper(At(sn2, p2))
        THEN p
        ELSE <<p1 + 1, p2 + 1>>

\* The results toscar_sncmp can return.  When both run out, the pointers step
\* over the NULs and the memory behind them decides.
toscar_sncmp(sn1, sn2) ==
    LET rounds == Len(sn1) + Len(sn2)
        ptr[n \in 0 .. rounds] ==
            IF n = 0 THEN <<1, 1>> ELSE SncmpRound(sn1, sn2, ptr[n - 1])
        end == ptr[rounds]
    IN  IF BothRunOut(sn1, sn2, end)
        THEN {0, 1}
        ELSE {IF At(sn1, end[1]) = NUL /\ At(sn2, end[2]) = NUL THEN 0 ELSE 1}

-----------------------------------------------------------------------------
(* Hashing *)

\* The exclusive or of two values of 16 bits.
Xor16(x, y) ==
    LET Bit(w) == IF (x \div w + y \div w) % 2 = 1 THEN w ELSE 0
    IN  Bit(1) + Bit(2) + Bit(4) + Bit(8) + Bit(16) + Bit(32) + Bit(64) + Bit(128)
        + Bit(256) + Bit(512) + Bit(1024) + Bit(2048) + Bit(4096) + Bit(8192)
        + Bit(16384) + Bit(32768)

\* The key, a naf_u16_t, after one more letter.
KeyWith(key, ch) == (Xor16(key, ch % 65536) * 2) % 65536

\* Mutation: the case of the letters goes into the key.
gnr_node__hash_getkey_Case(name) ==
    LET key[n \in 0 .. Len(name)] ==
            IF n = 0 THEN 0
            ELSE IF name[n] = Space THEN key[n - 1] ELSE KeyWith(key[n - 1], name[n])
    IN  key[Len(name)]

\* Mutation: so do the spaces.
gnr_node__hash_getkey_Spaces(name) ==
    LET key[n \in 0 .. Len(name)] ==
            IF n = 0 THEN 0 ELSE KeyWith(key[n - 1], tolower(name[n]))
    IN  key[Len(name)]

gnr_node__hash_getkey(name) ==
    LET key[n \in 0 .. Len(name)] ==
            IF n = 0 THEN 0
            ELSE IF name[n] = Space
                 THEN key[n - 1]
                 ELSE KeyWith(key[n - 1], tolower(name[n]))
    IN  key[Len(name)]

gnr_node__hash_getidx(name) == gnr_node__hash_getkey(name) % GNR_NODE_HASH_SIZE

============================================================================
