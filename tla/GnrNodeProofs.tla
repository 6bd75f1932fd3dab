--------------------------- MODULE GnrNodeProofs ---------------------------
(***************************************************************************)
(* Proofs about the node registry, for every set of names, every table     *)
(* size and any number of nodes.                                           *)
(*                                                                         *)
(* The first part is about names: what the two comparisons and the hash    *)
(* compute, from invariants of their loops.  The second part is the        *)
(* inductive invariant of the table.                                       *)
(***************************************************************************)
EXTENDS GnrNode, Recursion, FiniteSetTheorems

-----------------------------------------------------------------------------
(* The loops of NodeName as functions of the number of rounds *)

\* The letters among the first n characters.
Letters(name) ==
    CHOOSE letters : letters = [n \in 0 .. Len(name) |->
        IF n = 0 THEN <<>>
        ELSE IF name[n] = Space
             THEN letters[n - 1]
             ELSE Append(letters[n - 1], tolower(name[n]))]

\* The key of the first n characters.
Key(name) ==
    CHOOSE key : key = [n \in 0 .. Len(name) |->
        IF n = 0 THEN 0
        ELSE IF name[n] = Space
             THEN key[n - 1]
             ELSE KeyWith(key[n - 1], tolower(name[n]))]

\* Where the pointers of gnr_node_namecmp are after n rounds.
CurPtr(sn1, sn2) ==
    CHOOSE curPtr : curPtr = [n \in 0 .. Len(sn1) + Len(sn2) |->
        IF n = 0 THEN <<1, 1>> ELSE NamecmpRound(sn1, sn2, curPtr[n - 1])]

\* Where the pointers of toscar_sncmp are.
Ptr(sn1, sn2) ==
    CHOOSE ptr : ptr = [n \in 0 .. Len(sn1) + Len(sn2) |->
        IF n = 0 THEN <<1, 1>> ELSE SncmpRound(sn1, sn2, ptr[n - 1])]

\* A lower case letter is an integer.
LEMMA LowerType ==
    ASSUME NEW ch \in Char PROVE tolower(ch) \in Int /\ toupper(ch) \in Int /\ ch \in Int /\ ch # NUL
BY DEF Char, tolower, toupper

\* The letters of a name exist and are what the loop says.
LEMMA LettersLoop ==
    ASSUME NEW name \in Seq(Char)
    PROVE  /\ Letters(name) \in [0 .. Len(name) -> Seq(Int)]
           /\ Letters(name)[0] = <<>>
           /\ \A n \in 1 .. Len(name) :
                 Letters(name)[n] = IF name[n] = Space
                                    THEN Letters(name)[n - 1]
                                    ELSE Append(Letters(name)[n - 1], tolower(name[n]))
<1> DEFINE N == Len(name)
           X == Seq(Int)
           F(g) == [n \in 0 .. N |->
                      IF n = 0 THEN <<>>
                      ELSE IF name[n] = Space
                           THEN g[n - 1]
                           ELSE Append(g[n - 1], tolower(name[n]))]
           step == [n \in 1 .. N |-> [x \in X |->
                      IF name[n] = Space THEN x ELSE Append(x, tolower(name[n]))]]
<1>1. N \in Nat /\ <<>> \in X
      OBVIOUS
<1>2. \A n \in 1 .. N : name[n] \in Char /\ tolower(name[n]) \in Int
      BY LowerType
<1>3. step \in [1 .. N -> [X -> X]]
      BY <1>2
<1>4. PICK g \in [0 .. N -> X] : Loop(g, N, <<>>, step)
    <2> HIDE DEF N, X, step
    <2>q. QED BY <1>1, <1>3, LoopDefined, Zenon
<1>5. ASSUME NEW n \in 1 .. N
      PROVE  g[n] = IF name[n] = Space THEN g[n - 1] ELSE Append(g[n - 1], tolower(name[n]))
    <2>1. n - 1 \in 0 .. N
          BY <1>1
    <2>2. g[n - 1] \in X
          BY <2>1
    <2>3. g[n] = step[n][g[n - 1]]
          BY <1>4 DEF Loop
    <2> HIDE DEF X, N
    <2>q. QED BY <2>2, <2>3
<1>6. g = F(g)
    <2> HIDE DEF step, X
    <2>1. \A n \in 0 .. N : n # 0 => n \in 1 .. N
          BY <1>1
    <2>2. g[0] = <<>>
          BY <1>4 DEF Loop
    <2> HIDE DEF N
    <2>q. QED BY <1>5, <2>1, <2>2
<1>7. Letters(name) = F(Letters(name))
    <2> DEFINE P(x) == x = F(x)
    <2>1. P(g)
          BY <1>6
    <2>2. Letters(name) = CHOOSE x : P(x)
          BY DEF Letters
    <2> HIDE DEF P
    <2>3. P(Letters(name))
          BY <2>1, <2>2, Zenon
    <2>q. QED BY <2>3 DEF P
<1> HIDE DEF N, X, step
<1> DEFINE L == Letters(name)
<1>8. L[0] = <<>> /\ \A n \in 1 .. N : L[n] = IF name[n] = Space
                                    THEN L[n - 1]
                                    ELSE Append(L[n - 1], tolower(name[n]))
    <2> HIDE DEF L
    <2>1. L = F(L) 
        BY <1>7 DEF L
    <2>2. 0 \in 0 .. N /\ \A n \in 1 .. N : n \in 0 .. N /\ n # 0
        BY <1>1
    <2>q. QED BY <2>1, <2>2
<1>9. L \in [0 .. N -> X]
    <2> DEFINE S == {n \in 0 .. N : L[n] \in X}
    <2>1. 0 \in S
          BY <1>1, <1>8
    <2>2. \A n \in 0 .. N : n < N /\ n \in S => n + 1 \in S
        <3>1. SUFFICES ASSUME NEW n \in 0 .. N, n < N, n \in S PROVE n + 1 \in S
              OBVIOUS
        <3>2. n + 1 \in 1 .. N /\ n + 1 - 1 = n /\ n + 1 \in 0 .. N
              BY <1>1, <3>1
        <3>3. L[n] \in X
              BY <3>1
        <3> HIDE DEF L
        <3>4. L[n + 1] = IF name[n + 1] = Space
                         THEN L[n] ELSE Append(L[n], tolower(name[n + 1]))
              BY <1>8, <3>2
        <3>5. tolower(name[n + 1]) \in Int
              BY <1>2, <3>2
        <3>6. L[n + 1] \in X
              BY <3>3, <3>4, <3>5 DEF X
        <3>q. QED BY <3>2, <3>6
    <2>3. \A n \in 0 .. N : L[n] \in X
        <3>1. \A n \in 0 .. N : n \in S
            <4> HIDE DEF S
            <4>q. QED BY <1>1, <2>1, <2>2, Rounds
        <3>q. QED BY <3>1
    <2>4. L = F(L)
          BY <1>7
    <2> HIDE DEF L
    <2>q. QED BY <2>3, <2>4
<1>q. QED BY <1>8, <1>9 DEF N, X

\* A bit of a key, and with it the next key, is an integer.
LEMMA KeyType ==
    ASSUME NEW key \in Int, NEW ch \in Int PROVE KeyWith(key, ch) \in Int
<1> DEFINE c == ch % 65536
           Bit(w) == IF (key \div w + c \div w) % 2 = 1 THEN w ELSE 0
<1>1. c \in Int
      OBVIOUS
<1>2. /\ Bit(1) \in Int /\ Bit(2) \in Int /\ Bit(4) \in Int /\ Bit(8) \in Int
      /\ Bit(16) \in Int /\ Bit(32) \in Int /\ Bit(64) \in Int /\ Bit(128) \in Int
      /\ Bit(256) \in Int /\ Bit(512) \in Int /\ Bit(1024) \in Int /\ Bit(2048) \in Int
      /\ Bit(4096) \in Int /\ Bit(8192) \in Int /\ Bit(16384) \in Int /\ Bit(32768) \in Int
      OBVIOUS
<1>3. Xor16(key, c) =
          Bit(1) + Bit(2) + Bit(4) + Bit(8) + Bit(16) + Bit(32) + Bit(64) + Bit(128)
          + Bit(256) + Bit(512) + Bit(1024) + Bit(2048) + Bit(4096) + Bit(8192)
          + Bit(16384) + Bit(32768)
    <2> HIDE DEF c
    <2>q. QED BY DEF Xor16
<1>4. KeyWith(key, ch) = (Xor16(key, c) * 2) % 65536
      BY DEF KeyWith
<1> HIDE DEF Bit, c
<1>5. Xor16(key, c) \in Int
      BY <1>2, <1>3
<1>q. QED BY <1>4, <1>5

\* The keys of the beginnings of a name exist and are what the loop says.
LEMMA KeyLoop ==
    ASSUME NEW name \in Seq(Char)
    PROVE  /\ Key(name) \in [0 .. Len(name) -> Int]
           /\ Key(name)[0] = 0
           /\ \A n \in 1 .. Len(name) :
                 Key(name)[n] = IF name[n] = Space
                                THEN Key(name)[n - 1]
                                ELSE KeyWith(Key(name)[n - 1], tolower(name[n]))
<1> DEFINE N == Len(name)
           F(g) == [n \in 0 .. N |->
                      IF n = 0 THEN 0
                      ELSE IF name[n] = Space
                           THEN g[n - 1]
                           ELSE KeyWith(g[n - 1], tolower(name[n]))]
           step == [n \in 1 .. N |-> [x \in Int |->
                      IF name[n] = Space THEN x ELSE KeyWith(x, tolower(name[n]))]]
<1>1. N \in Nat /\ 0 \in Int
      OBVIOUS
<1>2. \A n \in 1 .. N : tolower(name[n]) \in Int
      BY LowerType
<1>3. step \in [1 .. N -> [Int -> Int]]
    <2> HIDE DEF N
    <2>q. QED BY <1>2, KeyType
<1>4. PICK g \in [0 .. N -> Int] : Loop(g, N, 0, step)
    <2> HIDE DEF N, step
    <2>q. QED BY <1>1, <1>3, LoopDefined, Zenon
<1>5. ASSUME NEW n \in 1 .. N
      PROVE  g[n] = IF name[n] = Space THEN g[n - 1] ELSE KeyWith(g[n - 1], tolower(name[n]))
    <2>1. n - 1 \in 0 .. N
          BY <1>1
    <2>2. g[n - 1] \in Int
          BY <2>1
    <2>3. g[n] = step[n][g[n - 1]]
          BY <1>4 DEF Loop
    <2> HIDE DEF N
    <2>q. QED BY <2>2, <2>3
<1>6. g = F(g)
    <2> HIDE DEF step
    <2>1. \A n \in 0 .. N : n # 0 => n \in 1 .. N
          BY <1>1
    <2>2. g[0] = 0
          BY <1>4 DEF Loop
    <2> HIDE DEF N
    <2>q. QED BY <1>5, <2>1, <2>2
<1>7. Key(name) = F(Key(name))
    <2> DEFINE P(x) == x = F(x)
    <2>1. P(g)
          BY <1>6
    <2>2. Key(name) = CHOOSE x : P(x)
          BY DEF Key
    <2> HIDE DEF P
    <2>3. P(Key(name))
          BY <2>1, <2>2, Zenon
    <2>q. QED BY <2>3 DEF P
<1> HIDE DEF N, step
<1> DEFINE K == Key(name)
<1>8. K = F(K)
      BY <1>7
<1>9. 0 \in 0 .. N /\ \A n \in 1 .. N : n \in 0 .. N /\ n # 0
      BY <1>1
<1> HIDE DEF K
<1>10. K[0] = 0 /\ \A n \in 1 .. N : K[n] = IF name[n] = Space
                                           THEN K[n - 1]
                                           ELSE KeyWith(K[n - 1], tolower(name[n]))
      BY <1>8, <1>9
<1>11. \A n \in 0 .. N : K[n] \in Int
    <2> DEFINE S == {n \in 0 .. N : K[n] \in Int}
    <2>1. 0 \in S
          BY <1>9, <1>10
    <2>2. \A n \in 0 .. N : n < N /\ n \in S => n + 1 \in S
        <3>1. SUFFICES ASSUME NEW n \in 0 .. N, n < N, n \in S PROVE n + 1 \in S
              OBVIOUS
        <3>2. n + 1 \in 1 .. N /\ (n + 1) - 1 = n /\ n + 1 \in 0 .. N
              BY <1>1, <3>1
        <3>3. K[n + 1] = IF name[n + 1] = Space
                         THEN K[n] ELSE KeyWith(K[n], tolower(name[n + 1]))
              BY <1>10, <3>2
        <3>4. K[n + 1] \in Int
              BY <1>2, <3>1, <3>2, <3>3, KeyType
        <3>q. QED BY <3>2, <3>4
    <2>3. \A n \in 0 .. N : n \in S
        <3> HIDE DEF S
        <3>q. QED BY <1>1, <2>1, <2>2, Rounds
    <2>q. QED BY <2>3
<1>12. K \in [0 .. N -> Int]
      BY <1>8, <1>11
<1>q. QED BY <1>10, <1>12 DEF N, K

-----------------------------------------------------------------------------
(* gnr_node_namecmp *)

\* Where two pointers into the names can be.
Pair(sn1, sn2) == (1 .. Len(sn1) + 1) \X (1 .. Len(sn2) + 1)

\* The two pointers.
LEMMA PairParts ==
    ASSUME NEW sn1 \in Seq(Char), NEW sn2 \in Seq(Char), NEW p \in Pair(sn1, sn2)
    PROVE  /\ \E i \in 1 .. Len(sn1) + 1, j \in 1 .. Len(sn2) + 1 : p = <<i, j>>
           /\ p[1] \in Int /\ p[2] \in Int
BY DEF Pair

\* A pointer reads NUL at the end of its name and nowhere before.
LEMMA Reading ==
    ASSUME NEW name \in Seq(Char), NEW i \in 1 .. Len(name) + 1
    PROVE  /\ Len(name) \in Nat
           /\ At(name, i) = NUL <=> i = Len(name) + 1
           /\ i # Len(name) + 1 => i \in 1 .. Len(name) /\ At(name, i) = name[i] /\ At(name, i) \in Char
<1>1. Len(name) \in Nat /\ \A k \in 1 .. Len(name) : name[k] \in Char /\ name[k] # NUL
    <2>1. Len(name) \in Nat /\ \A k \in 1 .. Len(name) : name[k] \in Char
          OBVIOUS
    <2>2. \A ch \in Char : ch # NUL
          BY DEF Char
    <2>q. QED BY <2>1, <2>2
<1>2. i # Len(name) + 1 => i \in 1 .. Len(name)
      BY <1>1
<1>3. Len(name) + 1 \notin 1 .. Len(name)
      BY <1>1
<1>4. CASE i = Len(name) + 1
      BY <1>1, <1>3, <1>4 DEF At
<1>5. CASE i # Len(name) + 1
      BY <1>1, <1>2, <1>5 DEF At
<1>q. QED BY <1>4, <1>5

\* A round keeps the pointers inside the names.
LEMMA NamecmpRoundType ==
    ASSUME NEW sn1 \in Seq(Char), NEW sn2 \in Seq(Char), NEW p \in Pair(sn1, sn2)
    PROVE  NamecmpRound(sn1, sn2, p) \in Pair(sn1, sn2)
<1>1. PICK i \in 1 .. Len(sn1) + 1, j \in 1 .. Len(sn2) + 1 : p = <<i, j>>
      BY DEF Pair
<1>2. /\ Len(sn1) \in Nat /\ Len(sn2) \in Nat
      /\ At(sn1, i) # NUL => i + 1 \in 1 .. Len(sn1) + 1
      /\ At(sn2, j) # NUL => j + 1 \in 1 .. Len(sn2) + 1
      BY Reading
<1>q. QED BY <1>1, <1>2 DEF NamecmpRound, Pair

\* The rounds of gnr_node_namecmp.
LEMMA CurPtrLoop ==
    ASSUME NEW sn1 \in Seq(Char), NEW sn2 \in Seq(Char)
    PROVE  /\ CurPtr(sn1, sn2) \in [0 .. Len(sn1) + Len(sn2) -> Pair(sn1, sn2)]
           /\ CurPtr(sn1, sn2)[0] = <<1, 1>>
           /\ \A n \in 1 .. Len(sn1) + Len(sn2) :
                 CurPtr(sn1, sn2)[n] = NamecmpRound(sn1, sn2, CurPtr(sn1, sn2)[n - 1])
<1> DEFINE N == Len(sn1) + Len(sn2)
           X == Pair(sn1, sn2)
           Move(p) == NamecmpRound(sn1, sn2, p)
           F(g) == [n \in 0 .. N |-> IF n = 0 THEN <<1, 1>> ELSE Move(g[n - 1])]
           step == [n \in 1 .. N |-> [x \in X |-> Move(x)]]
           C == CurPtr(sn1, sn2)
<1>1. N \in Nat /\ <<1, 1>> \in X
      BY DEF Pair
<1>2. \A x \in X : Move(x) \in X
      BY NamecmpRoundType
<1>3. C = CHOOSE x : x = F(x)
      BY DEF CurPtr
<1> HIDE DEF Move, X, C, N
<1>4. step \in [1 .. N -> [X -> X]]
      BY <1>2
<1>5. PICK g \in [0 .. N -> X] : Loop(g, N, <<1, 1>>, step)
    <2> HIDE DEF step
    <2>q. QED BY <1>1, <1>4, LoopDefined, Zenon
<1>6. \A n \in 1 .. N : n - 1 \in 0 .. N /\ n \in 0 .. N /\ n # 0
      BY <1>1
<1>7. \A n \in 1 .. N : g[n] = Move(g[n - 1])
    <2>1. \A n \in 1 .. N : g[n - 1] \in X
          BY <1>6
    <2>2. \A n \in 1 .. N : g[n] = step[n][g[n - 1]]
          BY <1>5 DEF Loop
    <2>q. QED BY <2>1, <2>2
<1>8. g = F(g)
    <2>1. \A n \in 0 .. N : n # 0 => n \in 1 .. N
          BY <1>1
    <2>2. g[0] = <<1, 1>>
          BY <1>5 DEF Loop
    <2>q. QED BY <1>7, <2>1, <2>2
<1>9. C = F(C)
    <2> DEFINE P(x) == x = F(x)
    <2>1. P(g)
          BY <1>8
    <2>2. C = CHOOSE x : P(x)
          BY <1>3
    <2> HIDE DEF P
    <2>3. P(C)
          BY <2>1, <2>2, Zenon
    <2>q. QED BY <2>3 DEF P
<1>10. C[0] = <<1, 1>> /\ \A n \in 1 .. N : C[n] = Move(C[n - 1])
    <2>1. 0 \in 0 .. N
          BY <1>1
    <2>q. QED BY <1>6, <1>9, <2>1
<1>11. \A n \in 0 .. N : C[n] \in X
    <2> DEFINE S == {n \in 0 .. N : C[n] \in X}
    <2>1. 0 \in S
        <3>1. 0 \in 0 .. N
              BY <1>1
        <3>q. QED BY <1>1, <1>10, <3>1
    <2>2. \A n \in 0 .. N : n < N /\ n \in S => n + 1 \in S
        <3>1. SUFFICES ASSUME NEW n \in 0 .. N, n < N, n \in S PROVE n + 1 \in S
              OBVIOUS
        <3>2. n + 1 \in 1 .. N /\ (n + 1) - 1 = n /\ n + 1 \in 0 .. N
              BY <1>1, <3>1
        <3>3. C[n + 1] = Move(C[n])
              BY <1>10, <3>2
        <3>q. QED BY <1>2, <3>1, <3>2, <3>3
    <2>3. \A n \in 0 .. N : n \in S
        <3> HIDE DEF S
        <3>q. QED BY <1>1, <2>1, <2>2, Rounds
    <2>q. QED BY <2>3
<1>12. C \in [0 .. N -> X]
    <2> HIDE DEF F
    <2>1. DOMAIN C = 0 .. N /\ C = [n \in 0 .. N |-> C[n]]
          BY <1>9 DEF F
    <2>q. QED BY <1>11, <2>1
<1>q. QED BY <1>10, <1>12 DEF N, X, C, Move

\* Letters that are equal in upper case are equal in lower case.
LEMMA SameLetter ==
    ASSUME NEW a \in Char, NEW b \in Char
    PROVE  toupper(a) = toupper(b) <=> tolower(a) = tolower(b)
BY DEF Char, toupper, tolower

\* The letters read so far are the same ones, and so is the key.
Agree(sn1, sn2, p) ==
    /\ Letters(sn1)[p[1] - 1] = Letters(sn2)[p[2] - 1]
    /\ Key(sn1)[p[1] - 1] = Key(sn2)[p[2] - 1]

\* What reading one more character does.
LEMMA ReadOne ==
    ASSUME NEW name \in Seq(Char), NEW i \in 1 .. Len(name) + 1, At(name, i) # NUL
    PROVE  /\ i \in 1 .. Len(name) /\ i + 1 \in 1 .. Len(name) + 1
           /\ (i + 1) - 1 = i
           /\ At(name, i) = name[i] /\ At(name, i) \in Char
           /\ At(name, i) = Space => /\ Letters(name)[i] = Letters(name)[i - 1]
                                     /\ Key(name)[i] = Key(name)[i - 1]
           /\ At(name, i) # Space =>
                 /\ Letters(name)[i] = Append(Letters(name)[i - 1], tolower(At(name, i)))
                 /\ Key(name)[i] = KeyWith(Key(name)[i - 1], tolower(At(name, i)))
<1>1. i \in 1 .. Len(name) /\ At(name, i) = name[i] /\ At(name, i) \in Char /\ Len(name) \in Nat
      BY Reading
<1>2. i + 1 \in 1 .. Len(name) + 1 /\ (i + 1) - 1 = i
      BY <1>1
<1>3. /\ Letters(name)[i] = IF name[i] = Space
                            THEN Letters(name)[i - 1]
                            ELSE Append(Letters(name)[i - 1], tolower(name[i]))
      /\ Key(name)[i] = IF name[i] = Space
                        THEN Key(name)[i - 1]
                        ELSE KeyWith(Key(name)[i - 1], tolower(name[i]))
      BY <1>1, LettersLoop, KeyLoop
<1>q. QED BY <1>1, <1>2, <1>3

\* A round of gnr_node_namecmp keeps the agreement.
LEMMA NamecmpRoundAgrees ==
    ASSUME NEW sn1 \in Seq(Char), NEW sn2 \in Seq(Char), NEW p \in Pair(sn1, sn2),
           Agree(sn1, sn2, p)
    PROVE  Agree(sn1, sn2, NamecmpRound(sn1, sn2, p))
<1>1. PICK i \in 1 .. Len(sn1) + 1, j \in 1 .. Len(sn2) + 1 : p = <<i, j>>
      BY DEF Pair
<1> DEFINE c1 == At(sn1, i)
           c2 == At(sn2, j)
<1>2. SUFFICES ASSUME c1 # NUL, c2 # NUL
               PROVE  Agree(sn1, sn2, NamecmpRound(sn1, sn2, p))
      BY <1>1 DEF NamecmpRound
<1>3. /\ (i + 1) - 1 = i /\ (j + 1) - 1 = j
      /\ c1 \in Char /\ c2 \in Char
      /\ c1 = Space => Letters(sn1)[i] = Letters(sn1)[i - 1] /\ Key(sn1)[i] = Key(sn1)[i - 1]
      /\ c2 = Space => Letters(sn2)[j] = Letters(sn2)[j - 1] /\ Key(sn2)[j] = Key(sn2)[j - 1]
      /\ c1 # Space => /\ Letters(sn1)[i] = Append(Letters(sn1)[i - 1], tolower(c1))
                       /\ Key(sn1)[i] = KeyWith(Key(sn1)[i - 1], tolower(c1))
      /\ c2 # Space => /\ Letters(sn2)[j] = Append(Letters(sn2)[j - 1], tolower(c2))
                       /\ Key(sn2)[j] = KeyWith(Key(sn2)[j - 1], tolower(c2))
      BY <1>2, ReadOne
<1>4. Letters(sn1)[i - 1] = Letters(sn2)[j - 1] /\ Key(sn1)[i - 1] = Key(sn2)[j - 1]
      BY <1>1 DEF Agree
<1>5. CASE c1 = Space \/ c2 = Space
    <2>1. NamecmpRound(sn1, sn2, p) = <<IF c1 = Space THEN i + 1 ELSE i,
                                        IF c2 = Space THEN j + 1 ELSE j>>
          BY <1>1, <1>2, <1>5 DEF NamecmpRound
    <2> HIDE DEF c1, c2
    <2>q. QED BY <1>3, <1>4, <2>1 DEF Agree
<1>6. CASE c1 # Space /\ c2 # Space
    <2>1. CASE toupper(c1) # toupper(c2)
          BY <1>1, <1>2, <1>6, <2>1 DEF NamecmpRound
    <2>2. CASE toupper(c1) = toupper(c2)
        <3>1. NamecmpRound(sn1, sn2, p) = <<i + 1, j + 1>>
              BY <1>1, <1>2, <1>6, <2>2 DEF NamecmpRound
        <3>2. tolower(c1) = tolower(c2)
              BY <1>3, <2>2, SameLetter
        <3>3. Letters(sn1)[i] = Letters(sn2)[j] /\ Key(sn1)[i] = Key(sn2)[j]
            <4> HIDE DEF c1, c2
            <4>q. QED BY <1>3, <1>4, <1>6, <3>2
        <3>q. QED BY <1>3, <3>1, <3>3 DEF Agree
    <2>q. QED BY <2>1, <2>2
<1>q. QED BY <1>5, <1>6

\* Once both names are read, either both ended in a space or none did.
EndAlike(sn1, sn2, p) ==
    p = <<Len(sn1) + 1, Len(sn2) + 1>> => (EndsInSpace(sn1) <=> EndsInSpace(sn2))

\* The last round reads the last characters of both.
LEMMA NamecmpRoundEnds ==
    ASSUME NEW sn1 \in Seq(Char), NEW sn2 \in Seq(Char), NEW p \in Pair(sn1, sn2),
           EndAlike(sn1, sn2, p)
    PROVE  EndAlike(sn1, sn2, NamecmpRound(sn1, sn2, p))
<1>1. PICK i \in 1 .. Len(sn1) + 1, j \in 1 .. Len(sn2) + 1 : p = <<i, j>>
      BY DEF Pair
<1>2. SUFFICES ASSUME At(sn1, i) # NUL, At(sn2, j) # NUL
               PROVE  EndAlike(sn1, sn2, NamecmpRound(sn1, sn2, p))
      BY <1>1 DEF NamecmpRound
<1>3. /\ Len(sn1) \in Nat /\ Len(sn2) \in Nat
      /\ i \in 1 .. Len(sn1) /\ j \in 1 .. Len(sn2)
      BY <1>2, Reading
<1>4. SUFFICES ASSUME NamecmpRound(sn1, sn2, p) = <<Len(sn1) + 1, Len(sn2) + 1>>
               PROVE  EndsInSpace(sn1) <=> EndsInSpace(sn2)
      BY DEF EndAlike
<1>5. i = Len(sn1) /\ j = Len(sn2)
      BY <1>1, <1>2, <1>3, <1>4 DEF NamecmpRound
<1>6. At(sn1, i) = Space <=> At(sn2, j) = Space
      BY <1>1, <1>2, <1>3, <1>4 DEF NamecmpRound
<1>q. QED BY <1>5, <1>6 DEF EndsInSpace

\* A round that moves reads a character.
LEMMA NamecmpRoundMoves ==
    ASSUME NEW sn1 \in Seq(Char), NEW sn2 \in Seq(Char), NEW p \in Pair(sn1, sn2),
           NamecmpRound(sn1, sn2, p) # p
    PROVE  LET q == NamecmpRound(sn1, sn2, p) IN q[1] + q[2] >= p[1] + p[2] + 1
<1>1. PICK i \in 1 .. Len(sn1) + 1, j \in 1 .. Len(sn2) + 1 : p = <<i, j>>
      BY DEF Pair
<1>2. i \in Int /\ j \in Int
      OBVIOUS
<1>q. QED BY <1>1, <1>2 DEF NamecmpRound

\* The pointers of gnr_node_namecmp when it returns.
End(sn1, sn2) == CurPtr(sn1, sn2)[Len(sn1) + Len(sn2)]

\* When gnr_node_namecmp returns, what was read agrees, and the loop is over.
LEMMA NamecmpEnd ==
    ASSUME NEW sn1 \in Seq(Char), NEW sn2 \in Seq(Char)
    PROVE  /\ End(sn1, sn2) \in Pair(sn1, sn2)
           /\ Agree(sn1, sn2, End(sn1, sn2))
           /\ EndAlike(sn1, sn2, End(sn1, sn2))
           /\ NamecmpRound(sn1, sn2, End(sn1, sn2)) = End(sn1, sn2)
<1> DEFINE N == Len(sn1) + Len(sn2)
           C == CurPtr(sn1, sn2)
           Move(p) == NamecmpRound(sn1, sn2, p)
           Good(n) == /\ Agree(sn1, sn2, C[n]) /\ EndAlike(sn1, sn2, C[n])
                      /\ Move(C[n]) = C[n] \/ C[n][1] + C[n][2] >= n + 2
           S == {n \in 0 .. N : Good(n)}
<1>1. /\ N \in Nat /\ Len(sn1) \in Nat /\ Len(sn2) \in Nat
      /\ \A n \in 0 .. N : C[n] \in Pair(sn1, sn2)
      /\ C[0] = <<1, 1>>
      /\ \A n \in 1 .. N : C[n] = Move(C[n - 1])
    <2>1. N \in Nat /\ Len(sn1) \in Nat /\ Len(sn2) \in Nat
          OBVIOUS
    <2>2. /\ C \in [0 .. N -> Pair(sn1, sn2)]
          /\ C[0] = <<1, 1>>
          /\ \A n \in 1 .. N : C[n] = Move(C[n - 1])
          BY CurPtrLoop
    <2> HIDE DEF N, C, Move
    <2>q. QED BY <2>1, <2>2
<1> HIDE DEF N, C
<1>2. 0 \in S
    <2>1. Agree(sn1, sn2, <<1, 1>>)
        <3>1. Letters(sn1)[0] = Letters(sn2)[0] /\ Key(sn1)[0] = Key(sn2)[0]
              BY LettersLoop, KeyLoop
        <3>q. QED BY <3>1 DEF Agree
    <2>2. EndAlike(sn1, sn2, <<1, 1>>)
          BY <1>1 DEF EndAlike, EndsInSpace, At
    <2>3. 0 \in 0 .. N /\ C[0][1] + C[0][2] >= 0 + 2
          BY <1>1
    <2>4. Good(0)
          BY <1>1, <2>1, <2>2, <2>3
    <2> HIDE DEF Good
    <2>q. QED BY <2>3, <2>4
<1>3. \A n \in 0 .. N : n < N /\ n \in S => n + 1 \in S
    <2>1. SUFFICES ASSUME NEW n \in 0 .. N, n < N, n \in S PROVE n + 1 \in S
          OBVIOUS
    <2>2. n + 1 \in 1 .. N /\ (n + 1) - 1 = n /\ n + 1 \in 0 .. N /\ n \in Nat
          BY <1>1, <2>1
    <2>3. C[n + 1] = Move(C[n])
          BY <1>1, <2>2
    <2>4. C[n] \in Pair(sn1, sn2) /\ Good(n) /\ C[n + 1] \in Pair(sn1, sn2)
          BY <1>1, <2>1, <2>2
    <2>5. Agree(sn1, sn2, C[n + 1])
          BY <2>3, <2>4, NamecmpRoundAgrees
    <2>6. EndAlike(sn1, sn2, C[n + 1])
          BY <2>3, <2>4, NamecmpRoundEnds
    <2>7. Move(C[n + 1]) = C[n + 1] \/ C[n + 1][1] + C[n + 1][2] >= n + 1 + 2
        <3>1. CASE Move(C[n]) = C[n]
              BY <2>3, <3>1
        <3>2. CASE Move(C[n]) # C[n]
            <4>1. C[n + 1][1] + C[n + 1][2] >= C[n][1] + C[n][2] + 1
                  BY <2>3, <2>4, <3>2, NamecmpRoundMoves
            <4>2. C[n][1] + C[n][2] >= n + 2
                  BY <2>4, <3>2
            <4>3. PICK i \in Int, j \in Int : C[n][1] = i /\ C[n][2] = j
                  BY <2>4, PairParts
            <4>4. PICK k \in Int, l \in Int : C[n + 1][1] = k /\ C[n + 1][2] = l
                  BY <2>4, PairParts
            <4>5. k + l >= i + j + 1 /\ i + j >= n + 2
                  BY <4>1, <4>2, <4>3, <4>4
            <4>6. k + l >= n + 1 + 2
                  BY <2>2, <4>5
            <4>q. QED BY <4>4, <4>6
        <3>q. QED BY <3>1, <3>2
    <2>q. QED BY <2>2, <2>5, <2>6, <2>7
<1>4. N \in S
    <2> HIDE DEF S
    <2>1. \A n \in 0 .. N : n \in S
          BY <1>1, <1>2, <1>3, Rounds
    <2>q. QED BY <1>1, <2>1
<1>5. C[N] \in Pair(sn1, sn2) /\ Good(N)
      BY <1>1, <1>4
<1>6. Move(C[N]) = C[N]
    <2>1. SUFFICES ASSUME C[N][1] + C[N][2] >= N + 2 PROVE Move(C[N]) = C[N]
          BY <1>5
    <2>2. PICK i \in 1 .. Len(sn1) + 1, j \in 1 .. Len(sn2) + 1 : C[N] = <<i, j>>
          BY <1>5 DEF Pair
    <2>3. i = Len(sn1) + 1
          BY <1>1, <2>1, <2>2 DEF N
    <2>4. At(sn1, i) = NUL
          BY <2>3, Reading
    <2>q. QED BY <2>2, <2>4 DEF NamecmpRound
<1>q. QED BY <1>5, <1>6 DEF End, C, N

\* gnr_node_namecmp returns 0 when both names are read to the end.
LEMMA NamecmpResult ==
    ASSUME NEW sn1 \in Seq(Char), NEW sn2 \in Seq(Char)
    PROVE  gnr_node_namecmp(sn1, sn2) =
               IF End(sn1, sn2) = <<Len(sn1) + 1, Len(sn2) + 1>> THEN 0 ELSE 1
<1>1. gnr_node_namecmp(sn1, sn2) =
          IF At(sn1, End(sn1, sn2)[1]) = NUL /\ At(sn2, End(sn1, sn2)[2]) = NUL THEN 0 ELSE 1
      BY DEF gnr_node_namecmp, End, CurPtr
<1>2. PICK i \in 1 .. Len(sn1) + 1, j \in 1 .. Len(sn2) + 1 : End(sn1, sn2) = <<i, j>>
      BY NamecmpEnd DEF Pair
<1>3. /\ At(sn1, i) = NUL <=> i = Len(sn1) + 1
      /\ At(sn2, j) = NUL <=> j = Len(sn2) + 1
      BY Reading
<1>q. QED BY <1>1, <1>2, <1>3

\* Names that gnr_node_namecmp takes for equal have the same letters, hash to
\* the same key and end alike.
LEMMA EqualNames ==
    ASSUME NEW sn1 \in Seq(Char), NEW sn2 \in Seq(Char), gnr_node_namecmp(sn1, sn2) = 0
    PROVE  /\ NormalForm(sn1) = NormalForm(sn2)
           /\ gnr_node__hash_getkey(sn1) = gnr_node__hash_getkey(sn2)
           /\ EndsInSpace(sn1) <=> EndsInSpace(sn2)
<1>1. End(sn1, sn2) = <<Len(sn1) + 1, Len(sn2) + 1>>
      BY NamecmpResult
<1>2. Agree(sn1, sn2, End(sn1, sn2)) /\ EndAlike(sn1, sn2, End(sn1, sn2))
      BY NamecmpEnd
<1>3. Len(sn1) + 1 - 1 = Len(sn1) /\ Len(sn2) + 1 - 1 = Len(sn2)
      OBVIOUS
<1>4. /\ Letters(sn1)[Len(sn1)] = Letters(sn2)[Len(sn2)]
      /\ Key(sn1)[Len(sn1)] = Key(sn2)[Len(sn2)]
      BY <1>1, <1>2, <1>3 DEF Agree
<1>5. \A name : NormalForm(name) = Letters(name)[Len(name)]
      BY DEF NormalForm, Letters
<1>6. \A name : gnr_node__hash_getkey(name) = Key(name)[Len(name)]
      BY DEF gnr_node__hash_getkey, Key
<1>q. QED BY <1>1, <1>2, <1>4, <1>5, <1>6 DEF EndAlike

\* The comparison does not depend on the order of its arguments.
LEMMA NamecmpSymmetric ==
    ASSUME NEW sn1 \in Seq(Char), NEW sn2 \in Seq(Char)
    PROVE  gnr_node_namecmp(sn1, sn2) = gnr_node_namecmp(sn2, sn1)
<1> DEFINE N == Len(sn1) + Len(sn2)
           C == CurPtr(sn1, sn2)
           D == CurPtr(sn2, sn1)
           Swap(p) == <<p[2], p[1]>>
           S == {n \in 0 .. N : D[n] = Swap(C[n])}
<1>1. /\ N \in Nat /\ N = Len(sn2) + Len(sn1) /\ Len(sn1) \in Nat /\ Len(sn2) \in Nat
      /\ C[0] = <<1, 1>> /\ D[0] = <<1, 1>>
      /\ \A n \in 0 .. N : C[n] \in Pair(sn1, sn2)
      /\ \A n \in 1 .. N : /\ C[n] = NamecmpRound(sn1, sn2, C[n - 1])
                           /\ D[n] = NamecmpRound(sn2, sn1, D[n - 1])
    <2>1. N = Len(sn2) + Len(sn1) /\ Len(sn1) \in Nat /\ Len(sn2) \in Nat
          OBVIOUS
    <2>2. N \in Nat
          BY <2>1
    <2>3. /\ C \in [0 .. N -> Pair(sn1, sn2)] /\ C[0] = <<1, 1>>
          /\ \A n \in 1 .. N : C[n] = NamecmpRound(sn1, sn2, C[n - 1])
          BY CurPtrLoop
    <2>4. /\ D[0] = <<1, 1>>
          /\ \A n \in 1 .. Len(sn2) + Len(sn1) : D[n] = NamecmpRound(sn2, sn1, D[n - 1])
          BY CurPtrLoop
    <2> HIDE DEF N, C, D
    <2>q. QED BY <2>1, <2>2, <2>3, <2>4
<1>2. ASSUME NEW p \in Pair(sn1, sn2)
      PROVE  NamecmpRound(sn2, sn1, Swap(p)) = Swap(NamecmpRound(sn1, sn2, p))
    <2>1. PICK i \in 1 .. Len(sn1) + 1, j \in 1 .. Len(sn2) + 1 : p = <<i, j>>
          BY DEF Pair
    <2>q. QED BY <2>1 DEF NamecmpRound
<1> HIDE DEF N, C, D
<1>3. 0 \in S
      BY <1>1
<1>4. \A n \in 0 .. N : n < N /\ n \in S => n + 1 \in S
    <2>1. SUFFICES ASSUME NEW n \in 0 .. N, n < N, n \in S PROVE n + 1 \in S
          OBVIOUS
    <2>2. n + 1 \in 1 .. N /\ (n + 1) - 1 = n /\ n + 1 \in 0 .. N
          BY <1>1, <2>1
    <2>3. C[n + 1] = NamecmpRound(sn1, sn2, C[n]) /\ D[n + 1] = NamecmpRound(sn2, sn1, D[n])
          BY <1>1, <2>2
    <2>4. D[n] = Swap(C[n]) /\ C[n] \in Pair(sn1, sn2)
          BY <1>1, <2>1
    <2> HIDE DEF Swap
    <2>5. D[n + 1] = Swap(C[n + 1])
          BY <1>2, <2>3, <2>4
    <2>q. QED BY <2>2, <2>5
<1>5. D[N] = Swap(C[N])
    <2>1. \A n \in 0 .. N : n \in S
        <3> HIDE DEF S
        <3>q. QED BY <1>1, <1>3, <1>4, Rounds
    <2>q. QED BY <1>1, <2>1
<1>6. End(sn1, sn2) = C[N] /\ End(sn2, sn1) = D[N]
      BY <1>1 DEF End, C, D, N
<1>7. PICK i \in 1 .. Len(sn1) + 1, j \in 1 .. Len(sn2) + 1 : C[N] = <<i, j>>
      BY <1>6, NamecmpEnd DEF Pair
<1>8. D[N] = <<j, i>>
      BY <1>5, <1>7
<1>q. QED BY <1>6, <1>7, <1>8, NamecmpResult

-----------------------------------------------------------------------------
(* Names with the same letters *)

\* s is t or t cut short.
Begins(s, t) == Len(s) <= Len(t) /\ \A k \in 1 .. Len(s) : t[k] = s[k]

\* Reading on only adds letters.
LEMMA LettersGrow ==
    ASSUME NEW name \in Seq(Char), NEW k \in 0 .. Len(name), NEW m \in 0 .. k
    PROVE  Begins(Letters(name)[m], Letters(name)[k])
<1> DEFINE N == Len(name)
           L == Letters(name)
           R == k - m
           S == {r \in 0 .. R : Begins(L[m], L[m + r])}
<1>1. /\ N \in Nat /\ R \in Nat /\ m \in Nat /\ k \in 0 .. N
      /\ \A n \in 0 .. N : L[n] \in Seq(Int)
      /\ \A n \in 1 .. N : L[n] = IF name[n] = Space THEN L[n - 1]
                                 ELSE Append(L[n - 1], tolower(name[n]))
      /\ \A n \in 1 .. N : tolower(name[n]) \in Int
    <2>1. N \in Nat /\ R \in Nat /\ m \in Nat /\ k \in 0 .. N /\ \A n \in 1 .. N : name[n] \in Char
          OBVIOUS
    <2>q. QED BY <2>1, LettersLoop, LowerType
<1> HIDE DEF N, L
<1>2. 0 \in S
      BY <1>1 DEF Begins
<1>3. \A r \in 0 .. R : r < R /\ r \in S => r + 1 \in S
    <2>1. SUFFICES ASSUME NEW r \in 0 .. R, r < R, r \in S PROVE r + 1 \in S
          OBVIOUS
    <2>2. /\ r + 1 \in 0 .. R /\ m + r \in 0 .. N /\ m + (r + 1) \in 1 .. N
          /\ (m + (r + 1)) - 1 = m + r /\ m \in 0 .. N
          BY <1>1, <2>1
    <2>3. L[m + (r + 1)] = IF name[m + (r + 1)] = Space THEN L[m + r]
                           ELSE Append(L[m + r], tolower(name[m + (r + 1)]))
          BY <1>1, <2>2
    <2>4. L[m] \in Seq(Int) /\ L[m + r] \in Seq(Int) /\ tolower(name[m + (r + 1)]) \in Int
          BY <1>1, <2>2
    <2>5. Begins(L[m], L[m + r])
          BY <2>1
    <2>6. Begins(L[m], L[m + (r + 1)])
        <3> DEFINE a == L[m]
                   b == L[m + r]
                   c == L[m + (r + 1)]
        <3>1. c = b \/ c = Append(b, tolower(name[m + (r + 1)]))
              BY <2>3
        <3>2. a \in Seq(Int) /\ b \in Seq(Int) /\ Begins(a, b)
              BY <2>4, <2>5
        <3>3. Len(c) >= Len(b) /\ Len(c) \in Nat /\ \A j \in 1 .. Len(b) : c[j] = b[j]
            <4>1. CASE c = b
                  BY <3>2, <4>1
            <4>2. CASE c = Append(b, tolower(name[m + (r + 1)]))
                <5> DEFINE ch == tolower(name[m + (r + 1)])
                <5>1. ch \in Int /\ b \in Seq(Int) /\ c = Append(b, ch)
                      BY <2>4, <4>2
                <5> HIDE DEF b, c, ch
                <5>q. QED BY <5>1
            <4>q. QED BY <3>1, <4>1, <4>2
        <3>4. Len(a) \in Nat /\ Len(b) \in Nat
              BY <3>2
        <3> HIDE DEF a, b, c
        <3>5. Begins(a, c)
              BY <3>2, <3>3, <3>4 DEF Begins
        <3>q. QED BY <3>5 DEF a, c
    <2>q. QED BY <2>2, <2>6
<1>4. R \in S
    <2>1. \A r \in 0 .. R : r \in S
        <3> HIDE DEF S, R
        <3>q. QED BY <1>1, <1>2, <1>3, Rounds
    <2>2. R \in 0 .. R
          BY <1>1
    <2>q. QED BY <2>1, <2>2
<1>5. m + R = k
      BY <1>1
<1>q. QED BY <1>4, <1>5 DEF L, N

\* A letter ahead is missing from what was read.
LEMMA LettersLeft ==
    ASSUME NEW name \in Seq(Char), NEW k \in 1 .. Len(name), NEW i \in 1 .. k,
           At(name, k) # Space
    PROVE  Letters(name)[i - 1] # NormalForm(name)
<1> DEFINE N == Len(name)
           L == Letters(name)
<1>1. /\ N \in Nat /\ N \in 0 .. N /\ k \in 0 .. N /\ k - 1 \in 0 .. N /\ i - 1 \in 0 .. N
      /\ i - 1 \in 0 .. k - 1 /\ k \in 1 .. N
      OBVIOUS
<1>2. NormalForm(name) = L[N]
      BY DEF NormalForm, Letters
<1>3. name[k] # Space
      BY <1>1 DEF At
<1>4. /\ L[k] = Append(L[k - 1], tolower(name[k])) /\ L[k - 1] \in Seq(Int)
      /\ L[i - 1] \in Seq(Int) /\ L[N] \in Seq(Int)
      BY <1>1, <1>3, LettersLoop
<1>5. Len(L[i - 1]) <= Len(L[k - 1]) /\ Len(L[k]) <= Len(L[N])
    <2>1. Begins(L[i - 1], L[k - 1]) /\ Begins(L[k], L[N])
          BY <1>1, LettersGrow
    <2>q. QED BY <2>1 DEF Begins
<1>6. Len(L[k]) = Len(L[k - 1]) + 1 /\ Len(L[k - 1]) \in Nat /\ Len(L[i - 1]) \in Nat
    <2> DEFINE l == L[k - 1]
    <2>1. l \in Seq(Int) /\ L[k] = Append(l, tolower(name[k])) /\ L[i - 1] \in Seq(Int)
          BY <1>4
    <2> HIDE DEF l, L
    <2>q. QED BY <2>1 DEF l
<1>7. Len(L[i - 1]) # Len(L[N])
      BY <1>5, <1>6
<1>q. QED BY <1>2, <1>7

\* Letters that differ after the same beginning make different names.
LEMMA DifferentLetter ==
    ASSUME NEW sn1 \in Seq(Char), NEW sn2 \in Seq(Char),
           NEW i \in 1 .. Len(sn1), NEW j \in 1 .. Len(sn2),
           Letters(sn1)[i - 1] = Letters(sn2)[j - 1],
           sn1[i] # Space, sn2[j] # Space, toupper(sn1[i]) # toupper(sn2[j])
    PROVE  NormalForm(sn1) # NormalForm(sn2)
<1> DEFINE l == Letters(sn1)[i - 1]
           a == tolower(sn1[i])
           b == tolower(sn2[j])
<1>1. a # b /\ a \in Int /\ b \in Int
    <2>1. sn1[i] \in Char /\ sn2[j] \in Char
          OBVIOUS
    <2>q. QED BY <2>1, SameLetter, LowerType
<1>2. Letters(sn1)[i] = Append(l, a) /\ l \in Seq(Int)
    <2>1. i - 1 \in 0 .. Len(sn1)
          OBVIOUS
    <2>q. QED BY <2>1, LettersLoop
<1>3. Letters(sn2)[j] = Append(l, b)
      BY LettersLoop
<1>4. NormalForm(sn1) = Letters(sn1)[Len(sn1)] /\ NormalForm(sn2) = Letters(sn2)[Len(sn2)]
      BY DEF NormalForm, Letters
<1>5. Begins(Append(l, a), NormalForm(sn1))
    <2>1. Len(sn1) \in 0 .. Len(sn1) /\ i \in 0 .. Len(sn1)
          OBVIOUS
    <2>2. Begins(Letters(sn1)[i], Letters(sn1)[Len(sn1)])
          BY <2>1, LettersGrow
    <2>q. QED BY <1>2, <1>4, <2>2
<1>6. Begins(Append(l, b), NormalForm(sn2))
    <2>1. Len(sn2) \in 0 .. Len(sn2) /\ j \in 0 .. Len(sn2)
          OBVIOUS
    <2>2. Begins(Letters(sn2)[j], Letters(sn2)[Len(sn2)])
          BY <2>1, LettersGrow
    <2>q. QED BY <1>3, <1>4, <2>2
<1>7. l \in Seq(Int)
      BY <1>2
<1> HIDE DEF l, a, b
<1>8. /\ Append(l, a)[Len(l) + 1] = a /\ Append(l, b)[Len(l) + 1] = b
      /\ Len(Append(l, a)) = Len(l) + 1 /\ Len(Append(l, b)) = Len(l) + 1
      /\ Len(l) + 1 \in 1 .. Len(l) + 1
      BY <1>1, <1>7
<1>9. NormalForm(sn1)[Len(l) + 1] = a /\ NormalForm(sn2)[Len(l) + 1] = b
      BY <1>5, <1>6, <1>8 DEF Begins
<1>q. QED BY <1>1, <1>9

\* Skipping spaces ends at the next character that is none, or at the end.
LEMMA SkipSpacesTo ==
    ASSUME NEW name \in Seq(Char), NEW i \in 1 .. Len(name) + 1
    PROVE  /\ SkipSpaces(name, i) \in i .. Len(name) + 1
           /\ SkipSpaces(name, i) \in 1 .. Len(name) + 1
           /\ At(name, SkipSpaces(name, i)) # Space
           /\ \A l \in i .. SkipSpaces(name, i) - 1 : At(name, l) = Space
<1> DEFINE N == Len(name)
           T == {k \in i .. N + 1 : At(name, k) # Space}
           Stop(k) == At(name, k) # Space /\ \A l \in i .. k - 1 : At(name, l) = Space
<1>1. N \in Nat /\ i \in Nat /\ i >= 1 /\ i <= N + 1
      OBVIOUS
<1>2. N + 1 \in T
    <2>1. At(name, N + 1) = NUL
          BY <1>1, Reading
    <2>q. QED BY <1>1, <2>1 DEF NUL, Space
<1>3. PICK k \in T : \A m \in T : k <= m
    <2>1. T \subseteq Nat /\ T # {}
          BY <1>1, <1>2
    <2> HIDE DEF T
    <2>q. QED BY <2>1, LeastNatural
<1>4. k \in i .. N + 1 /\ Stop(k)
    <2>1. ASSUME NEW l \in i .. k - 1 PROVE At(name, l) = Space
          BY <1>1, <1>3
    <2>q. QED BY <1>3, <2>1
<1>5. SkipSpaces(name, i) = CHOOSE x \in i .. N + 1 : Stop(x)
      BY DEF SkipSpaces
<1>6. SkipSpaces(name, i) \in i .. N + 1 /\ Stop(SkipSpaces(name, i))
    <2> HIDE DEF Stop, N
    <2>q. QED BY <1>4, <1>5
<1>q. QED BY <1>1, <1>6

\* No letter is lost by skipping.
LEMMA SkipSpacesLetters ==
    ASSUME NEW name \in Seq(Char), NEW i \in 1 .. Len(name) + 1
    PROVE  Letters(name)[SkipSpaces(name, i) - 1] = Letters(name)[i - 1]
<1> DEFINE N == Len(name)
           k == SkipSpaces(name, i)
           L == Letters(name)
           R == k - i
           S == {r \in 0 .. R : L[(i + r) - 1] = L[i - 1]}
<1>1. /\ k \in i .. N + 1 /\ \A l \in i .. k - 1 : At(name, l) = Space
      /\ N \in Nat /\ i \in Nat /\ i >= 1 /\ i <= N + 1
      BY SkipSpacesTo
<1> HIDE DEF k, N
<1>4. R \in Nat /\ i + R = k
      BY <1>1
<1>5. 0 \in S
      BY <1>1, <1>4
<1>6. \A r \in 0 .. R : r < R /\ r \in S => r + 1 \in S
    <2>1. SUFFICES ASSUME NEW r \in 0 .. R, r < R, r \in S PROVE r + 1 \in S
          OBVIOUS
    <2>2. /\ i + r \in 1 .. N /\ i + r \in i .. k - 1 /\ r + 1 \in 0 .. R
          /\ (i + (r + 1)) - 1 = i + r
          BY <1>1, <1>4, <2>1
    <2>3. name[i + r] = Space
        <3>1. At(name, i + r) = Space
              BY <1>1, <2>2
        <3>q. QED BY <2>2, <3>1 DEF At, N
    <2>4. L[i + r] = L[(i + r) - 1]
          BY <2>2, <2>3, LettersLoop DEF N
    <2>q. QED BY <2>1, <2>2, <2>4
<1>7. R \in S
    <2>1. \A r \in 0 .. R : r \in S
        <3> HIDE DEF S, R
        <3>q. QED BY <1>4, <1>5, <1>6, Rounds
    <2>2. R \in 0 .. R
          BY <1>4
    <2>q. QED BY <2>1, <2>2
<1>q. QED BY <1>4, <1>7 DEF k

\* The last letter, and the spaces behind it.
LEMMA LastLetterIs ==
    ASSUME NEW name \in Seq(Char)
    PROVE  /\ LastLetter(name) \in 0 .. Len(name)
           /\ At(name, LastLetter(name)) # Space
           /\ \A l \in LastLetter(name) + 1 .. Len(name) : At(name, l) = Space
<1> DEFINE N == Len(name)
           Blank(k) == \A l \in k + 1 .. N : At(name, l) = Space
           T == {k \in 0 .. N : Blank(k)}
           Last(k) == At(name, k) # Space /\ Blank(k)
<1>1. N \in Nat
      OBVIOUS
<1>2. N \in T
      BY <1>1
<1>3. PICK k \in T : \A m \in T : k <= m
    <2>1. T \subseteq Nat /\ T # {}
          BY <1>1, <1>2
    <2> HIDE DEF T
    <2>q. QED BY <2>1, LeastNatural
<1>4. At(name, k) # Space
    <2>1. CASE k = 0
          BY <2>1 DEF At, NUL, Space
    <2>2. CASE k # 0
        <3>1. SUFFICES ASSUME At(name, k) = Space PROVE FALSE
              OBVIOUS
        <3>2. k - 1 \in 0 .. N /\ k \in Nat
              BY <1>1, <2>2
        <3>3. Blank(k - 1)
              BY <1>1, <3>1, <3>2
        <3>4. k - 1 \in T
              BY <3>2, <3>3
        <3>5. k <= k - 1
            <4> HIDE DEF T
            <4>q. QED BY <1>3, <3>4
        <3>q. QED BY <3>2, <3>5
    <2>q. QED BY <2>1, <2>2
<1>5. k \in 0 .. N /\ Last(k)
      BY <1>3, <1>4
<1>6. LastLetter(name) = CHOOSE x \in 0 .. N : Last(x)
      BY DEF LastLetter
<1>7. LastLetter(name) \in 0 .. N /\ Last(LastLetter(name))
    <2> HIDE DEF Last, N
    <2>q. QED BY <1>5, <1>6
<1>q. QED BY <1>7

\* A name that does not end in a space has none behind its last letter.
LEMMA NoTrailing ==
    ASSUME NEW name \in Seq(Char), ~EndsInSpace(name) PROVE TrailingSpaces(name) = 0
<1>1. /\ Len(name) \in Nat /\ LastLetter(name) \in 0 .. Len(name)
      /\ \A l \in LastLetter(name) + 1 .. Len(name) : At(name, l) = Space
      BY LastLetterIs
<1>2. At(name, Len(name)) # Space
      BY DEF EndsInSpace
<1>3. LastLetter(name) = Len(name)
      BY <1>1, <1>2
<1>q. QED BY <1>1, <1>3 DEF TrailingSpaces

\* All letters are read when the last one is.
LEMMA AllLettersRead ==
    ASSUME NEW name \in Seq(Char), NEW i \in 1 .. Len(name) + 1
    PROVE  Letters(name)[i - 1] = NormalForm(name) <=> i - 1 >= LastLetter(name)
<1> DEFINE N == Len(name)
           m == LastLetter(name)
<1>1. /\ N \in Nat /\ m \in 0 .. N /\ At(name, m) # Space
      /\ \A l \in m + 1 .. N : At(name, l) = Space
      BY LastLetterIs
<1>2. NormalForm(name) = Letters(name)[N]
      BY DEF NormalForm, Letters
<1> HIDE DEF m, N
<1>3. CASE i - 1 >= m
    <2> DEFINE k == SkipSpaces(name, i)
    <2>1. k \in i .. N + 1 /\ At(name, k) # Space /\ Letters(name)[k - 1] = Letters(name)[i - 1]
          BY SkipSpacesTo, SkipSpacesLetters DEF N
    <2> HIDE DEF k
    <2>2. k = N + 1
          BY <1>1, <1>3, <2>1 DEF N
    <2>3. k - 1 = N
          BY <1>1, <2>2
    <2>q. QED BY <1>2, <1>3, <2>1, <2>3 DEF m
<1>4. CASE ~(i - 1 >= m)
    <2>1. m \in 1 .. N /\ i \in 1 .. m
          BY <1>1, <1>4 DEF N
    <2>2. Letters(name)[i - 1] # NormalForm(name)
          BY <1>1, <2>1, LettersLeft DEF N
    <2>q. QED BY <1>4, <2>2 DEF m
<1>q. QED BY <1>3, <1>4

\* Once the last letters are read, the same number of spaces is.
LockStep(sn1, sn2, p) ==
    p[1] - 1 >= LastLetter(sn1) =>
        (p[1] - 1) - LastLetter(sn1) = (p[2] - 1) - LastLetter(sn2)

\* A round of gnr_node_namecmp skips a space behind each last letter.
LEMMA NamecmpRoundLocks ==
    ASSUME NEW sn1 \in Seq(Char), NEW sn2 \in Seq(Char), NEW p \in Pair(sn1, sn2),
           NormalForm(sn1) = NormalForm(sn2),
           Agree(sn1, sn2, p), LockStep(sn1, sn2, p)
    PROVE  LockStep(sn1, sn2, NamecmpRound(sn1, sn2, p))
<1>1. PICK i \in 1 .. Len(sn1) + 1, j \in 1 .. Len(sn2) + 1 : p = <<i, j>>
      BY DEF Pair
<1> DEFINE q == NamecmpRound(sn1, sn2, p)
           c1 == At(sn1, i)
           c2 == At(sn2, j)
           m1 == LastLetter(sn1)
           m2 == LastLetter(sn2)
<1>2. q \in Pair(sn1, sn2) /\ Agree(sn1, sn2, q)
      BY NamecmpRoundType, NamecmpRoundAgrees
<1>3. PICK k \in 1 .. Len(sn1) + 1, l \in 1 .. Len(sn2) + 1 : q = <<k, l>>
      BY <1>2 DEF Pair
<1>4. /\ m1 \in 0 .. Len(sn1) /\ \A x \in m1 + 1 .. Len(sn1) : At(sn1, x) = Space
      /\ m2 \in 0 .. Len(sn2) /\ \A x \in m2 + 1 .. Len(sn2) : At(sn2, x) = Space
      BY LastLetterIs
<1>5. i - 1 >= m1 <=> j - 1 >= m2
    <2>1. Letters(sn1)[i - 1] = Letters(sn2)[j - 1]
          BY <1>1 DEF Agree
    <2>q. QED BY <2>1, AllLettersRead
<1>6. k - 1 >= m1 <=> l - 1 >= m2
    <2>1. Letters(sn1)[k - 1] = Letters(sn2)[l - 1]
          BY <1>2, <1>3 DEF Agree
    <2>q. QED BY <2>1, AllLettersRead
<1>7. i - 1 >= m1 => (i - 1) - m1 = (j - 1) - m2
      BY <1>1 DEF LockStep
<1>8. SUFFICES ASSUME k - 1 >= m1 PROVE (k - 1) - m1 = (l - 1) - m2
      BY <1>3 DEF LockStep
<1>9. CASE q = p
      BY <1>1, <1>3, <1>7, <1>8, <1>9
<1>10. CASE q # p
    <2>1. c1 # NUL /\ c2 # NUL
          BY <1>1, <1>10 DEF NamecmpRound
    <2>2. /\ i \in 1 .. Len(sn1) /\ j \in 1 .. Len(sn2)
          /\ Len(sn1) \in Nat /\ Len(sn2) \in Nat
          BY <2>1, Reading
    <2>3. /\ k \in {i, i + 1} /\ l \in {j, j + 1}
          /\ c1 = Space /\ c2 = Space => k = i + 1 /\ l = j + 1
          BY <1>1, <1>3, <1>10, <2>1, <2>2 DEF NamecmpRound
    <2>4. i - 1 >= m1 => c1 = Space
          BY <1>4, <2>2
    <2>5. j - 1 >= m2 => c2 = Space
          BY <1>4, <2>2
    <2> HIDE DEF c1, c2, m1, m2, q
    <2>6. CASE i - 1 >= m1
          BY <1>4, <1>5, <1>7, <2>2, <2>3, <2>4, <2>5, <2>6
    <2>7. CASE ~(i - 1 >= m1)
          BY <1>4, <1>5, <1>6, <1>8, <2>2, <2>3, <2>7
    <2>q. QED BY <2>6, <2>7
<1>q. QED BY <1>9, <1>10

\* And so it is when gnr_node_namecmp returns.
LEMMA NamecmpLocked ==
    ASSUME NEW sn1 \in Seq(Char), NEW sn2 \in Seq(Char), NormalForm(sn1) = NormalForm(sn2)
    PROVE  LockStep(sn1, sn2, End(sn1, sn2))
<1> DEFINE N == Len(sn1) + Len(sn2)
           C == CurPtr(sn1, sn2)
           S == {n \in 0 .. N : Agree(sn1, sn2, C[n]) /\ LockStep(sn1, sn2, C[n])}
<1>1. N \in Nat /\ Len(sn1) \in Nat /\ Len(sn2) \in Nat
      OBVIOUS
<1>2. /\ C \in [0 .. N -> Pair(sn1, sn2)]
      /\ C[0] = <<1, 1>>
      /\ \A n \in 1 .. N : C[n] = NamecmpRound(sn1, sn2, C[n - 1])
      BY CurPtrLoop
<1> HIDE DEF N, C
<1>3. 0 \in S
    <2>1. Letters(sn1)[0] = Letters(sn2)[0] /\ Key(sn1)[0] = Key(sn2)[0]
          BY LettersLoop, KeyLoop
    <2>2. Agree(sn1, sn2, C[0])
          BY <1>2, <2>1 DEF Agree
    <2>3. LockStep(sn1, sn2, C[0])
        <3>1. 1 \in 1 .. Len(sn1) + 1 /\ 1 \in 1 .. Len(sn2) + 1 /\ 1 - 1 = 0
              BY <1>1
        <3>2. /\ Letters(sn1)[1 - 1] = NormalForm(sn1) <=> 1 - 1 >= LastLetter(sn1)
              /\ Letters(sn2)[1 - 1] = NormalForm(sn2) <=> 1 - 1 >= LastLetter(sn2)
              BY <3>1, AllLettersRead
        <3>3. 0 >= LastLetter(sn1) <=> 0 >= LastLetter(sn2)
              BY <2>1, <3>1, <3>2
        <3>4. LastLetter(sn1) \in Nat /\ LastLetter(sn2) \in Nat
              BY <1>1, LastLetterIs
        <3>q. QED BY <1>2, <3>3, <3>4 DEF LockStep
    <2>4. 0 \in 0 .. N
          BY <1>1
    <2>q. QED BY <2>2, <2>3, <2>4
<1>4. \A n \in 0 .. N : n < N /\ n \in S => n + 1 \in S
    <2>1. SUFFICES ASSUME NEW n \in 0 .. N, n < N, n \in S PROVE n + 1 \in S
          OBVIOUS
    <2>2. n + 1 \in 1 .. N /\ (n + 1) - 1 = n /\ n + 1 \in 0 .. N
          BY <1>1, <2>1
    <2>3. C[n + 1] = NamecmpRound(sn1, sn2, C[n])
          BY <1>2, <2>2
    <2>4. C[n] \in Pair(sn1, sn2) /\ Agree(sn1, sn2, C[n]) /\ LockStep(sn1, sn2, C[n])
          BY <1>2, <2>1
    <2>5. Agree(sn1, sn2, C[n + 1])
          BY <2>3, <2>4, NamecmpRoundAgrees
    <2>6. LockStep(sn1, sn2, C[n + 1])
          BY <2>3, <2>4, NamecmpRoundLocks
    <2>q. QED BY <2>2, <2>5, <2>6
<1>5. \A n \in 0 .. N : n \in S
    <2> HIDE DEF S
    <2>q. QED BY <1>1, <1>3, <1>4, Rounds
<1>6. N \in 0 .. N
      BY <1>1
<1>q. QED BY <1>5, <1>6 DEF End, C, N

\* gnr_node_namecmp ignores case, as the comment above it says, and the spaces
\* before the last letter; it counts those behind it.
THEOREM NamecmpIgnoresCaseAndSpace ==
    ASSUME NEW sn1 \in Seq(Char), NEW sn2 \in Seq(Char)
    PROVE  gnr_node_namecmp(sn1, sn2) =
               IF /\ NormalForm(sn1) = NormalForm(sn2)
                  /\ TrailingSpaces(sn1) = TrailingSpaces(sn2)
               THEN 0 ELSE 1
<1>1. PICK i \in 1 .. Len(sn1) + 1, j \in 1 .. Len(sn2) + 1 : End(sn1, sn2) = <<i, j>>
      BY NamecmpEnd DEF Pair
<1> DEFINE m1 == LastLetter(sn1)
           m2 == LastLetter(sn2)
<1>2. gnr_node_namecmp(sn1, sn2) \in {0, 1}
      BY NamecmpResult
<1>3. gnr_node_namecmp(sn1, sn2) = 0 <=> i = Len(sn1) + 1 /\ j = Len(sn2) + 1
      BY <1>1, NamecmpResult
<1>4. gnr_node_namecmp(sn1, sn2) = 0 => NormalForm(sn1) = NormalForm(sn2)
      BY EqualNames
<1>5. SUFFICES ASSUME NormalForm(sn1) = NormalForm(sn2)
               PROVE  i = Len(sn1) + 1 /\ j = Len(sn2) + 1 <=>
                          Len(sn1) - m1 = Len(sn2) - m2
      BY <1>2, <1>3, <1>4 DEF TrailingSpaces
<1>6. /\ Len(sn1) \in Nat /\ Len(sn2) \in Nat /\ m1 \in 0 .. Len(sn1) /\ m2 \in 0 .. Len(sn2)
      /\ i # Len(sn1) + 1 => i \in 1 .. Len(sn1)
      /\ j # Len(sn2) + 1 => j \in 1 .. Len(sn2)
      BY LastLetterIs
<1>7. i - 1 >= m1 <=> j - 1 >= m2
    <2>1. Letters(sn1)[i - 1] = Letters(sn2)[j - 1]
          BY <1>1, NamecmpEnd DEF Agree
    <2>q. QED BY <1>5, <2>1, AllLettersRead
<1>8. i - 1 >= m1 => (i - 1) - m1 = (j - 1) - m2
      BY <1>1, <1>5, NamecmpLocked DEF LockStep
<1>9. CASE i = Len(sn1) + 1 \/ j = Len(sn2) + 1
    <2> HIDE DEF m1, m2
    <2>q. QED BY <1>6, <1>7, <1>8, <1>9
<1>10. CASE i # Len(sn1) + 1 /\ j # Len(sn2) + 1
    <2>1. /\ i \in 1 .. Len(sn1) /\ j \in 1 .. Len(sn2)
          /\ At(sn1, i) = sn1[i] /\ At(sn2, j) = sn2[j]
          /\ At(sn1, i) # NUL /\ At(sn2, j) # NUL
          BY <1>6, <1>10, Reading
    <2>2. NamecmpRound(sn1, sn2, <<i, j>>) = <<i, j>>
          BY <1>1, NamecmpEnd
    <2>3. i \in Nat /\ j \in Nat
          OBVIOUS
    <2>4. sn1[i] # Space /\ sn2[j] # Space /\ toupper(sn1[i]) # toupper(sn2[j])
          BY <2>1, <2>2, <2>3 DEF NamecmpRound
    <2>5. Letters(sn1)[i - 1] = Letters(sn2)[j - 1]
          BY <1>1, NamecmpEnd DEF Agree
    <2>q. QED BY <1>5, <2>1, <2>4, <2>5, DifferentLetter
<1>q. QED BY <1>9, <1>10

-----------------------------------------------------------------------------
(* toscar_sncmp *)

\* Upper case makes no NUL.
LEMMA UpperNotNul ==
    ASSUME NEW ch \in Char PROVE toupper(ch) # toupper(NUL)
BY DEF Char, NUL, toupper

\* A round of toscar_sncmp that moves goes behind two equal letters.
LEMMA SncmpRoundMoves ==
    ASSUME NEW sn1 \in Seq(Char), NEW sn2 \in Seq(Char),
           NEW i \in 1 .. Len(sn1) + 1, NEW j \in 1 .. Len(sn2) + 1
    PROVE  LET p == <<i, j>>
               p1 == SkipSpaces(sn1, i)
               p2 == SkipSpaces(sn2, j)
           IN  \/ /\ SncmpRound(sn1, sn2, p) = p
                  /\ \/ i = Len(sn1) + 1 \/ j = Len(sn2) + 1
                     \/ BothRunOut(sn1, sn2, p)
                     \/ toupper(At(sn1, p1)) # toupper(At(sn2, p2))
               \/ /\ SncmpRound(sn1, sn2, p) = <<p1 + 1, p2 + 1>>
                  /\ i \in 1 .. Len(sn1) /\ j \in 1 .. Len(sn2)
                  /\ p1 \in i .. Len(sn1) /\ p2 \in j .. Len(sn2)
                  /\ sn1[p1] # Space /\ sn2[p2] # Space
                  /\ toupper(sn1[p1]) = toupper(sn2[p2])
<1> DEFINE p == <<i, j>>
           p1 == SkipSpaces(sn1, i)
           p2 == SkipSpaces(sn2, j)
           c1 == At(sn1, p1)
           c2 == At(sn2, p2)
           Over == \/ At(sn1, i) = NUL \/ At(sn2, j) = NUL
                   \/ BothRunOut(sn1, sn2, p)
                   \/ toupper(c1) # toupper(c2)
<1>1. SncmpRound(sn1, sn2, p) = IF Over THEN p ELSE <<p1 + 1, p2 + 1>>
      BY DEF SncmpRound
<1>2. /\ p1 \in i .. Len(sn1) + 1 /\ p1 \in 1 .. Len(sn1) + 1 /\ c1 # Space
      /\ p2 \in j .. Len(sn2) + 1 /\ p2 \in 1 .. Len(sn2) + 1 /\ c2 # Space
      BY SkipSpacesTo
<1>3. /\ Len(sn1) \in Nat /\ Len(sn2) \in Nat
      /\ At(sn1, i) = NUL <=> i = Len(sn1) + 1
      /\ At(sn2, j) = NUL <=> j = Len(sn2) + 1
      /\ c1 # NUL => p1 # Len(sn1) + 1 /\ c1 = sn1[p1] /\ c1 \in Char
      /\ c2 # NUL => p2 # Len(sn2) + 1 /\ c2 = sn2[p2] /\ c2 \in Char
      BY <1>2, Reading
<1>4. BothRunOut(sn1, sn2, p) <=>
          At(sn1, i) # NUL /\ At(sn2, j) # NUL /\ c1 = NUL /\ c2 = NUL
      BY DEF BothRunOut
<1> HIDE DEF c1, c2, p1, p2, p
<1>5. CASE Over
      BY <1>1, <1>3, <1>5 DEF c1, c2, p1, p2, p
<1>6. CASE ~Over
    <2>1. ~(c1 = NUL /\ c2 = NUL) /\ toupper(c1) = toupper(c2)
          BY <1>4, <1>6
    <2>2. c1 # NUL /\ c2 # NUL
          BY <1>3, <2>1, UpperNotNul
    <2>3. p1 \in i .. Len(sn1) /\ p2 \in j .. Len(sn2)
          BY <1>2, <1>3, <2>2
    <2>4. i \in 1 .. Len(sn1) /\ j \in 1 .. Len(sn2)
          BY <1>3, <1>6
    <2>5. SncmpRound(sn1, sn2, p) = <<p1 + 1, p2 + 1>>
          BY <1>1, <1>6
    <2>6. sn1[p1] # Space /\ sn2[p2] # Space /\ toupper(sn1[p1]) = toupper(sn2[p2])
          BY <1>2, <1>3, <2>1, <2>2
    <2>q. QED BY <2>3, <2>4, <2>5, <2>6 DEF p1, p2, p
<1>q. QED BY <1>5, <1>6

\* A round keeps the pointers inside the names.
LEMMA SncmpRoundType ==
    ASSUME NEW sn1 \in Seq(Char), NEW sn2 \in Seq(Char), NEW p \in Pair(sn1, sn2)
    PROVE  SncmpRound(sn1, sn2, p) \in Pair(sn1, sn2)
<1>1. PICK i \in 1 .. Len(sn1) + 1, j \in 1 .. Len(sn2) + 1 : p = <<i, j>>
      BY DEF Pair
<1> DEFINE p1 == SkipSpaces(sn1, i)
           p2 == SkipSpaces(sn2, j)
<1>2. \/ SncmpRound(sn1, sn2, p) = p
      \/ /\ SncmpRound(sn1, sn2, p) = <<p1 + 1, p2 + 1>>
         /\ p1 \in i .. Len(sn1) /\ p2 \in j .. Len(sn2)
      BY <1>1, SncmpRoundMoves
<1>3. Len(sn1) \in Nat /\ Len(sn2) \in Nat
      OBVIOUS
<1> HIDE DEF p1, p2
<1>q. QED BY <1>2, <1>3 DEF Pair

\* The rounds of toscar_sncmp.
LEMMA PtrLoop ==
    ASSUME NEW sn1 \in Seq(Char), NEW sn2 \in Seq(Char)
    PROVE  /\ Ptr(sn1, sn2) \in [0 .. Len(sn1) + Len(sn2) -> Pair(sn1, sn2)]
           /\ Ptr(sn1, sn2)[0] = <<1, 1>>
           /\ \A n \in 1 .. Len(sn1) + Len(sn2) :
                 Ptr(sn1, sn2)[n] = SncmpRound(sn1, sn2, Ptr(sn1, sn2)[n - 1])
<1> DEFINE N == Len(sn1) + Len(sn2)
           X == Pair(sn1, sn2)
           Move(p) == SncmpRound(sn1, sn2, p)
           F(g) == [n \in 0 .. N |-> IF n = 0 THEN <<1, 1>> ELSE Move(g[n - 1])]
           step == [n \in 1 .. N |-> [x \in X |-> Move(x)]]
           C == Ptr(sn1, sn2)
<1>1. N \in Nat /\ <<1, 1>> \in X
      BY DEF Pair
<1>2. \A x \in X : Move(x) \in X
      BY SncmpRoundType
<1>3. C = CHOOSE x : x = F(x)
      BY DEF Ptr
<1> HIDE DEF Move, X, C, N
<1>4. step \in [1 .. N -> [X -> X]]
      BY <1>2
<1>5. PICK g \in [0 .. N -> X] : Loop(g, N, <<1, 1>>, step)
    <2> HIDE DEF step
    <2>q. QED BY <1>1, <1>4, LoopDefined, Zenon
<1>6. \A n \in 1 .. N : n - 1 \in 0 .. N /\ n \in 0 .. N /\ n # 0
      BY <1>1
<1>7. \A n \in 1 .. N : g[n] = Move(g[n - 1])
    <2>1. \A n \in 1 .. N : g[n - 1] \in X
          BY <1>6
    <2>2. \A n \in 1 .. N : g[n] = step[n][g[n - 1]]
          BY <1>5 DEF Loop
    <2>q. QED BY <2>1, <2>2
<1>8. g = F(g)
    <2>1. \A n \in 0 .. N : n # 0 => n \in 1 .. N
          BY <1>1
    <2>2. g[0] = <<1, 1>>
          BY <1>5 DEF Loop
    <2>q. QED BY <1>7, <2>1, <2>2
<1>9. C = F(C)
    <2> DEFINE P(x) == x = F(x)
    <2>1. P(g)
          BY <1>8
    <2>2. C = CHOOSE x : P(x)
          BY <1>3
    <2> HIDE DEF P
    <2>3. P(C)
          BY <2>1, <2>2, Zenon
    <2>q. QED BY <2>3 DEF P
<1>10. C[0] = <<1, 1>> /\ \A n \in 1 .. N : C[n] = Move(C[n - 1])
    <2>1. 0 \in 0 .. N
          BY <1>1
    <2>q. QED BY <1>6, <1>9, <2>1
<1>11. \A n \in 0 .. N : C[n] \in X
    <2> DEFINE S == {n \in 0 .. N : C[n] \in X}
    <2>1. 0 \in S
        <3>1. 0 \in 0 .. N
              BY <1>1
        <3>q. QED BY <1>1, <1>10, <3>1
    <2>2. \A n \in 0 .. N : n < N /\ n \in S => n + 1 \in S
        <3>1. SUFFICES ASSUME NEW n \in 0 .. N, n < N, n \in S PROVE n + 1 \in S
              OBVIOUS
        <3>2. n + 1 \in 1 .. N /\ (n + 1) - 1 = n /\ n + 1 \in 0 .. N
              BY <1>1, <3>1
        <3>3. C[n + 1] = Move(C[n])
              BY <1>10, <3>2
        <3>q. QED BY <1>2, <3>1, <3>2, <3>3
    <2>3. \A n \in 0 .. N : n \in S
        <3> HIDE DEF S
        <3>q. QED BY <1>1, <2>1, <2>2, Rounds
    <2>q. QED BY <2>3
<1>12. C \in [0 .. N -> X]
    <2> HIDE DEF F
    <2>1. DOMAIN C = 0 .. N /\ C = [n \in 0 .. N |-> C[n]]
          BY <1>9 DEF F
    <2>q. QED BY <1>11, <2>1
<1>q. QED BY <1>10, <1>12 DEF N, X, C, Move

\* A round of toscar_sncmp reads the same letters from both names and leaves
\* the pointers behind a letter.
LEMMA SncmpRoundAgrees ==
    ASSUME NEW sn1 \in Seq(Char), NEW sn2 \in Seq(Char),
           NEW i \in 1 .. Len(sn1) + 1, NEW j \in 1 .. Len(sn2) + 1,
           Letters(sn1)[i - 1] = Letters(sn2)[j - 1],
           At(sn1, i - 1) # Space, At(sn2, j - 1) # Space
    PROVE  LET q == SncmpRound(sn1, sn2, <<i, j>>)
           IN  /\ Letters(sn1)[q[1] - 1] = Letters(sn2)[q[2] - 1]
               /\ At(sn1, q[1] - 1) # Space /\ At(sn2, q[2] - 1) # Space
               /\ q = <<i, j>> \/ q[1] + q[2] >= i + j + 1
<1> DEFINE q == SncmpRound(sn1, sn2, <<i, j>>)
           p1 == SkipSpaces(sn1, i)
           p2 == SkipSpaces(sn2, j)
<1>1. CASE q = <<i, j>>
      BY <1>1
<1>2. CASE q # <<i, j>>
    <2>1. /\ q = <<p1 + 1, p2 + 1>>
          /\ i \in 1 .. Len(sn1) /\ j \in 1 .. Len(sn2)
          /\ p1 \in i .. Len(sn1) /\ p2 \in j .. Len(sn2)
          /\ sn1[p1] # Space /\ sn2[p2] # Space
          /\ toupper(sn1[p1]) = toupper(sn2[p2])
          BY <1>2, SncmpRoundMoves
    <2>2. /\ Letters(sn1)[p1 - 1] = Letters(sn1)[i - 1]
          /\ Letters(sn2)[p2 - 1] = Letters(sn2)[j - 1]
          BY SkipSpacesLetters
    <2> HIDE DEF p1, p2, q
    <2>3. p1 \in 1 .. Len(sn1) /\ p2 \in 1 .. Len(sn2) /\ p1 >= i /\ p2 >= j
          BY <2>1
    <2>4. sn1[p1] \in Char /\ sn2[p2] \in Char
          BY <2>3
    <2>5. tolower(sn1[p1]) = tolower(sn2[p2])
          BY <2>1, <2>4, SameLetter
    <2>6. /\ Letters(sn1)[p1] = Append(Letters(sn1)[p1 - 1], tolower(sn1[p1]))
          /\ Letters(sn2)[p2] = Append(Letters(sn2)[p2 - 1], tolower(sn2[p2]))
          BY <2>1, <2>3, LettersLoop
    <2>7. Letters(sn1)[p1] = Letters(sn2)[p2]
          BY <2>2, <2>5, <2>6
    <2>8. /\ q[1] - 1 = p1 /\ q[2] - 1 = p2
          /\ q[1] + q[2] >= i + j + 1
          BY <2>1, <2>3
    <2>9. Letters(sn1)[q[1] - 1] = Letters(sn2)[q[2] - 1]
          BY <2>7, <2>8
    <2>10. At(sn1, p1) # Space /\ At(sn2, p2) # Space
          BY <2>1, <2>3 DEF At
    <2>q. QED BY <2>8, <2>9, <2>10 DEF q
<1>q. QED BY <1>1, <1>2

\* The pointers of toscar_sncmp when it returns.
SncmpEnd(sn1, sn2) == Ptr(sn1, sn2)[Len(sn1) + Len(sn2)]

\* When toscar_sncmp returns, the letters read are the same, the pointers are
\* behind a letter or at the beginning, and the loop is over.
LEMMA SncmpStops ==
    ASSUME NEW sn1 \in Seq(Char), NEW sn2 \in Seq(Char)
    PROVE  \E i \in 1 .. Len(sn1) + 1, j \in 1 .. Len(sn2) + 1 :
              /\ SncmpEnd(sn1, sn2) = <<i, j>>
              /\ Letters(sn1)[i - 1] = Letters(sn2)[j - 1]
              /\ At(sn1, i - 1) # Space /\ At(sn2, j - 1) # Space
              /\ SncmpRound(sn1, sn2, <<i, j>>) = <<i, j>>
<1> DEFINE N == Len(sn1) + Len(sn2)
           C == Ptr(sn1, sn2)
           Move(p) == SncmpRound(sn1, sn2, p)
           Good(n) == /\ Letters(sn1)[C[n][1] - 1] = Letters(sn2)[C[n][2] - 1]
                      /\ At(sn1, C[n][1] - 1) # Space /\ At(sn2, C[n][2] - 1) # Space
                      /\ Move(C[n]) = C[n] \/ C[n][1] + C[n][2] >= n + 2
           S == {n \in 0 .. N : Good(n)}
<1>1. N \in Nat /\ Len(sn1) \in Nat /\ Len(sn2) \in Nat
      OBVIOUS
<1>2. /\ C \in [0 .. N -> Pair(sn1, sn2)]
      /\ C[0] = <<1, 1>>
      /\ \A n \in 1 .. N : C[n] = Move(C[n - 1])
      BY PtrLoop
<1> HIDE DEF N, C
<1>3. 0 \in S
    <2>1. Letters(sn1)[0] = Letters(sn2)[0]
          BY LettersLoop
    <2>2. C[0][1] - 1 = 0 /\ C[0][2] - 1 = 0 /\ C[0][1] + C[0][2] >= 0 + 2 /\ 0 \in 0 .. N
          BY <1>1, <1>2
    <2>3. At(sn1, 0) # Space /\ At(sn2, 0) # Space
          BY DEF At, NUL, Space
    <2>q. QED BY <2>1, <2>2, <2>3
<1>4. \A n \in 0 .. N : n < N /\ n \in S => n + 1 \in S
    <2>1. SUFFICES ASSUME NEW n \in 0 .. N, n < N, n \in S PROVE n + 1 \in S
          OBVIOUS
    <2>2. n + 1 \in 1 .. N /\ (n + 1) - 1 = n /\ n + 1 \in 0 .. N /\ n \in Nat
          BY <1>1, <2>1
    <2>3. C[n + 1] = Move(C[n])
          BY <1>2, <2>2
    <2>4. PICK i \in 1 .. Len(sn1) + 1, j \in 1 .. Len(sn2) + 1 : C[n] = <<i, j>>
        <3>1. C[n] \in Pair(sn1, sn2)
              BY <1>2
        <3>q. QED BY <3>1, PairParts
    <2>5. PICK k \in 1 .. Len(sn1) + 1, l \in 1 .. Len(sn2) + 1 : C[n + 1] = <<k, l>>
        <3>1. C[n + 1] \in Pair(sn1, sn2)
              BY <1>2, <2>2
        <3>q. QED BY <3>1, PairParts
    <2>6. /\ Letters(sn1)[i - 1] = Letters(sn2)[j - 1]
          /\ At(sn1, i - 1) # Space /\ At(sn2, j - 1) # Space
          /\ Move(C[n]) = C[n] \/ i + j >= n + 2
        <3>1. C[n][1] = i /\ C[n][2] = j
              BY <2>4
        <3>2. Good(n)
              BY <2>1
        <3> HIDE DEF Move
        <3>q. QED BY <3>1, <3>2
    <2>7. /\ Letters(sn1)[k - 1] = Letters(sn2)[l - 1]
          /\ At(sn1, k - 1) # Space /\ At(sn2, l - 1) # Space
          /\ Move(C[n]) = C[n] \/ k + l >= i + j + 1
        <3>1. SncmpRound(sn1, sn2, <<i, j>>) = <<k, l>>
              BY <2>3, <2>4, <2>5
        <3>2. LET q == SncmpRound(sn1, sn2, <<i, j>>)
              IN  /\ Letters(sn1)[q[1] - 1] = Letters(sn2)[q[2] - 1]
                  /\ At(sn1, q[1] - 1) # Space /\ At(sn2, q[2] - 1) # Space
                  /\ q = <<i, j>> \/ q[1] + q[2] >= i + j + 1
              BY <2>6, SncmpRoundAgrees
        <3>3. /\ Letters(sn1)[k - 1] = Letters(sn2)[l - 1]
              /\ At(sn1, k - 1) # Space /\ At(sn2, l - 1) # Space
              /\ <<k, l>> = <<i, j>> \/ k + l >= i + j + 1
              BY <3>1, <3>2
        <3>q. QED BY <2>4, <3>1, <3>3
    <2>8. Move(C[n + 1]) = C[n + 1] \/ k + l >= n + 1 + 2
        <3>1. CASE Move(C[n]) = C[n]
              BY <2>3, <3>1
        <3>2. CASE Move(C[n]) # C[n]
            <4>1. k + l >= i + j + 1 /\ i + j >= n + 2
                  BY <2>6, <2>7, <3>2
            <4>2. i \in Int /\ j \in Int /\ k \in Int /\ l \in Int
                  BY <1>1
            <4>q. QED BY <2>2, <4>1, <4>2
        <3>q. QED BY <3>1, <3>2
    <2>9. C[n + 1][1] = k /\ C[n + 1][2] = l
          BY <2>5
    <2>10. Good(n + 1)
          BY <2>7, <2>8, <2>9
    <2> HIDE DEF Good
    <2>q. QED BY <2>2, <2>10
<1>5. N \in S
    <2>1. \A n \in 0 .. N : n \in S
        <3> HIDE DEF S
        <3>q. QED BY <1>1, <1>3, <1>4, Rounds
    <2>2. N \in 0 .. N
          BY <1>1
    <2>q. QED BY <2>1, <2>2
<1>6. PICK i \in 1 .. Len(sn1) + 1, j \in 1 .. Len(sn2) + 1 : C[N] = <<i, j>>
    <2>1. N \in 0 .. N
          BY <1>1
    <2>2. C[N] \in Pair(sn1, sn2)
          BY <1>2, <2>1
    <2>q. QED BY <2>2, PairParts
<1>7. /\ Letters(sn1)[i - 1] = Letters(sn2)[j - 1]
      /\ At(sn1, i - 1) # Space /\ At(sn2, j - 1) # Space
      /\ Move(C[N]) = C[N] \/ i + j >= N + 2
    <2>1. C[N][1] = i /\ C[N][2] = j
          BY <1>6
    <2>2. Good(N)
          BY <1>5
    <2> HIDE DEF Move
    <2>q. QED BY <2>1, <2>2
<1>8. Move(C[N]) = C[N]
    <2>1. SUFFICES ASSUME i + j >= N + 2 PROVE Move(C[N]) = C[N]
          BY <1>7
    <2>2. i = Len(sn1) + 1
          BY <1>1, <2>1 DEF N
    <2>3. ~(i \in 1 .. Len(sn1))
          BY <1>1, <2>2
    <2>q. QED BY <1>6, <2>3, SncmpRoundMoves
<1>q. QED BY <1>6, <1>7, <1>8 DEF SncmpEnd, C, N

\* toscar_sncmp, too, ignores case and the spaces before the last letter.  It
\* takes a name that ends in a space for no name that does not, and of two
\* that do, with the same letters, it cannot tell anything.
THEOREM SncmpIgnoresCaseAndSpace ==
    ASSUME NEW sn1 \in Seq(Char), NEW sn2 \in Seq(Char)
    PROVE  toscar_sncmp(sn1, sn2) =
               IF NormalForm(sn1) # NormalForm(sn2) THEN {1}
               ELSE IF EndsInSpace(sn1) /\ EndsInSpace(sn2) THEN {0, 1}
               ELSE IF EndsInSpace(sn1) \/ EndsInSpace(sn2) THEN {1} ELSE {0}
<1>1. PICK i \in 1 .. Len(sn1) + 1, j \in 1 .. Len(sn2) + 1 :
              /\ SncmpEnd(sn1, sn2) = <<i, j>>
              /\ Letters(sn1)[i - 1] = Letters(sn2)[j - 1]
              /\ At(sn1, i - 1) # Space /\ At(sn2, j - 1) # Space
              /\ SncmpRound(sn1, sn2, <<i, j>>) = <<i, j>>
      BY SncmpStops
<1> DEFINE p1 == SkipSpaces(sn1, i)
           p2 == SkipSpaces(sn2, j)
           N1 == Len(sn1)
           N2 == Len(sn2)
<1>2. /\ N1 \in Nat /\ N2 \in Nat
      /\ At(sn1, i) = NUL <=> i = N1 + 1
      /\ At(sn2, j) = NUL <=> j = N2 + 1
      /\ i # N1 + 1 => i \in 1 .. N1
      /\ j # N2 + 1 => j \in 1 .. N2
      BY Reading
<1>3. /\ p1 \in i .. N1 + 1 /\ p1 \in 1 .. N1 + 1
      /\ p2 \in j .. N2 + 1 /\ p2 \in 1 .. N2 + 1
      /\ At(sn1, p1) # Space /\ At(sn2, p2) # Space
      /\ \A l \in i .. p1 - 1 : At(sn1, l) = Space
      /\ \A l \in j .. p2 - 1 : At(sn2, l) = Space
      BY SkipSpacesTo
<1>4. /\ Letters(sn1)[p1 - 1] = Letters(sn1)[i - 1]
      /\ Letters(sn2)[p2 - 1] = Letters(sn2)[j - 1]
      BY SkipSpacesLetters
<1>5. /\ At(sn1, p1) = NUL <=> p1 = N1 + 1
      /\ At(sn2, p2) = NUL <=> p2 = N2 + 1
      /\ p1 # N1 + 1 => p1 \in 1 .. N1 /\ At(sn1, p1) = sn1[p1]
      /\ p2 # N2 + 1 => p2 \in 1 .. N2 /\ At(sn2, p2) = sn2[p2]
      BY <1>3, Reading
<1>6. NormalForm(sn1) = Letters(sn1)[N1] /\ NormalForm(sn2) = Letters(sn2)[N2]
      BY DEF NormalForm, Letters
<1>7. toscar_sncmp(sn1, sn2) =
          IF BothRunOut(sn1, sn2, <<i, j>>)
          THEN {0, 1}
          ELSE {IF i = N1 + 1 /\ j = N2 + 1 THEN 0 ELSE 1}
    <2>1. toscar_sncmp(sn1, sn2) =
              IF BothRunOut(sn1, sn2, SncmpEnd(sn1, sn2))
              THEN {0, 1}
              ELSE {IF At(sn1, SncmpEnd(sn1, sn2)[1]) = NUL
                       /\ At(sn2, SncmpEnd(sn1, sn2)[2]) = NUL THEN 0 ELSE 1}
          BY DEF toscar_sncmp, SncmpEnd, Ptr
    <2>2. SncmpEnd(sn1, sn2)[1] = i /\ SncmpEnd(sn1, sn2)[2] = j
          BY <1>1
    <2>q. QED BY <1>1, <1>2, <2>1, <2>2
<1>8. BothRunOut(sn1, sn2, <<i, j>>) <=>
          i # N1 + 1 /\ j # N2 + 1 /\ p1 = N1 + 1 /\ p2 = N2 + 1
      BY <1>2, <1>5 DEF BothRunOut
<1>9. /\ i = N1 + 1 => i - 1 = N1 /\ ~EndsInSpace(sn1)
      /\ j = N2 + 1 => j - 1 = N2 /\ ~EndsInSpace(sn2)
      BY <1>1, <1>2 DEF EndsInSpace
<1>10. /\ i \in 1 .. N1 /\ ~EndsInSpace(sn1) => Letters(sn1)[i - 1] # NormalForm(sn1)
       /\ j \in 1 .. N2 /\ ~EndsInSpace(sn2) => Letters(sn2)[j - 1] # NormalForm(sn2)
    <2>1. ASSUME NEW name \in Seq(Char), NEW k \in 1 .. Len(name), ~EndsInSpace(name)
          PROVE  Letters(name)[k - 1] # NormalForm(name)
        <3>1. Len(name) \in 1 .. Len(name)
              OBVIOUS
        <3>2. At(name, Len(name)) # Space
              BY <2>1 DEF EndsInSpace
        <3>q. QED BY <3>1, <3>2, LettersLeft
    <2>q. QED BY <2>1
<1> HIDE DEF p1, p2, N1, N2
<1>11. CASE i = N1 + 1 \/ j = N2 + 1
    <2>1. ~BothRunOut(sn1, sn2, <<i, j>>)
          BY <1>8, <1>11
    <2>2. CASE i = N1 + 1 /\ j = N2 + 1
        <3>1. NormalForm(sn1) = NormalForm(sn2)
              BY <1>1, <1>6, <1>9, <2>2
        <3>2. toscar_sncmp(sn1, sn2) = {0}
              BY <1>7, <2>1, <2>2
        <3>q. QED BY <1>9, <2>2, <3>1, <3>2
    <2>3. CASE ~(i = N1 + 1 /\ j = N2 + 1)
        <3>1. toscar_sncmp(sn1, sn2) = {1}
              BY <1>7, <2>1, <2>3
        <3>2. NormalForm(sn1) = NormalForm(sn2) => EndsInSpace(sn1) \/ EndsInSpace(sn2)
              BY <1>1, <1>2, <1>6, <1>9, <1>10, <1>11, <2>3
        <3>3. ~(EndsInSpace(sn1) /\ EndsInSpace(sn2))
              BY <1>9, <1>11
        <3>q. QED BY <3>1, <3>2, <3>3
    <2>q. QED BY <2>2, <2>3
<1>12. CASE BothRunOut(sn1, sn2, <<i, j>>)
    <2>1. /\ p1 = N1 + 1 /\ p2 = N2 + 1 /\ p1 - 1 = N1 /\ p2 - 1 = N2
          /\ N1 \in i .. p1 - 1 /\ N2 \in j .. p2 - 1
          BY <1>2, <1>3, <1>8, <1>12
    <2>2. NormalForm(sn1) = NormalForm(sn2)
          BY <1>1, <1>4, <1>6, <2>1
    <2>3. EndsInSpace(sn1) /\ EndsInSpace(sn2)
          BY <1>3, <2>1 DEF EndsInSpace, N1, N2
    <2>q. QED BY <1>7, <1>12, <2>2, <2>3
<1>13. CASE i # N1 + 1 /\ j # N2 + 1 /\ ~BothRunOut(sn1, sn2, <<i, j>>)
    <2>1. toscar_sncmp(sn1, sn2) = {1}
          BY <1>7, <1>13
    <2>2. toupper(At(sn1, p1)) # toupper(At(sn2, p2))
        <3>1. SncmpRound(sn1, sn2, <<i, j>>) # <<p1 + 1, p2 + 1>>
              BY <1>1, <1>2, <1>3
        <3>q. QED BY <1>13, <3>1, SncmpRoundMoves DEF p1, p2, N1, N2
    <2>3. NormalForm(sn1) # NormalForm(sn2)
        <3>1. Letters(sn1)[p1 - 1] = Letters(sn2)[p2 - 1]
              BY <1>1, <1>4
        <3>2. CASE p1 # N1 + 1 /\ p2 # N2 + 1
            <4>1. /\ p1 \in 1 .. Len(sn1) /\ p2 \in 1 .. Len(sn2)
                  /\ sn1[p1] # Space /\ sn2[p2] # Space /\ toupper(sn1[p1]) # toupper(sn2[p2])
                  BY <1>3, <1>5, <2>2, <3>2 DEF N1, N2
            <4>q. QED BY <3>1, <4>1, DifferentLetter
        <3>3. CASE p1 = N1 + 1 /\ p2 # N2 + 1
            <4>1. p1 - 1 = N1 /\ p2 \in 1 .. Len(sn2) /\ p2 \in 1 .. p2
                  BY <1>2, <1>5, <3>3 DEF N2
            <4>2. Letters(sn2)[p2 - 1] # NormalForm(sn2)
                  BY <1>3, <4>1, LettersLeft
            <4>q. QED BY <1>6, <3>1, <4>1, <4>2
        <3>4. CASE p1 # N1 + 1 /\ p2 = N2 + 1
            <4>1. p2 - 1 = N2 /\ p1 \in 1 .. Len(sn1) /\ p1 \in 1 .. p1
                  BY <1>2, <1>5, <3>4 DEF N1
            <4>2. Letters(sn1)[p1 - 1] # NormalForm(sn1)
                  BY <1>3, <4>1, LettersLeft
            <4>q. QED BY <1>6, <3>1, <4>1, <4>2
        <3>5. ~(p1 = N1 + 1 /\ p2 = N2 + 1)
              BY <1>8, <1>13
        <3>q. QED BY <3>2, <3>3, <3>4, <3>5
    <2>q. QED BY <2>1, <2>3
<1>q. QED BY <1>11, <1>12, <1>13

-----------------------------------------------------------------------------
(* The table *)

\* A node is in the chain its name hashes to and in no other, and a chain has
\* no freed nodes.
InChains ==
    /\ \A i \in Index : nodehash[i] \subseteq DOMAIN node
    /\ \A p \in DOMAIN node, i \in Index : p \in nodehash[i] <=> i = IndexOf[node[p].name]

\* Only local nodes have no time to live.
Mortal == \A p \in DOMAIN node : node[p].metric # GNR_NODE_METRIC_LOCAL => node[p].ttl # -1

\* No two nodes have names that gnr_node_namecmp takes for the same one.
OnePerName ==
    \A p, q \in Linked :
        gnr_node_namecmp(node[p].name, node[q].name) = 0 => p = q

IInv ==
    /\ TypeOK
    /\ IsFiniteSet(DOMAIN node)
    /\ InChains
    /\ StatsExact
    /\ OnePerName
    /\ Mortal

\* The nodes that a counter counts.
CountedBy(c, nd) == {p \in DOMAIN nd : Counts(c, nd[p].metric)}

\* Every name hashes into the table, and equal names to the same index.
LEMMA IndexType ==
    /\ \A name \in Name : name \in Seq(Char) /\ IndexOf[name] \in Index
    /\ \A a, b \in Name : gnr_node_namecmp(a, b) = 0 => IndexOf[a] = IndexOf[b]
<1>1. Name \subseteq Seq(Char) /\ GNR_NODE_HASH_SIZE \in Nat \ {0}
      BY GnrNodeAssumption
<1>2. ASSUME NEW name \in Name PROVE IndexOf[name] \in Index
    <2>1. name \in Seq(Char)
          BY <1>1
    <2>2. gnr_node__hash_getkey(name) = Key(name)[Len(name)]
          BY DEF gnr_node__hash_getkey, Key
    <2>3. Len(name) \in 0 .. Len(name)
          BY <2>1
    <2>4. gnr_node__hash_getkey(name) \in Int
          BY <2>1, <2>2, <2>3, KeyLoop
    <2>q. QED BY <1>1, <2>4 DEF IndexOf, gnr_node__hash_getidx, Index
<1>3. ASSUME NEW a \in Name, NEW b \in Name, gnr_node_namecmp(a, b) = 0
      PROVE  IndexOf[a] = IndexOf[b]
    <2>1. gnr_node__hash_getkey(a) = gnr_node__hash_getkey(b)
          BY <1>1, <1>3, EqualNames
    <2>q. QED BY <2>1 DEF IndexOf, gnr_node__hash_getidx
<1>q. QED BY <1>1, <1>2, <1>3

\* A walk over all chains meets every node, and no other address.
LEMMA ChainsHoldAll ==
    ASSUME NEW nh, NEW nd, nd \in [DOMAIN nd -> Node],
           \A i \in Index : nh[i] \subseteq DOMAIN nd,
           \A p \in DOMAIN nd, i \in Index : p \in nh[i] <=> i = IndexOf[nd[p].name]
    PROVE  UNION {nh[i] : i \in Index} = DOMAIN nd
<1>1. UNION {nh[i] : i \in Index} \subseteq DOMAIN nd
      OBVIOUS
<1>2. ASSUME NEW p \in DOMAIN nd PROVE p \in UNION {nh[i] : i \in Index}
    <2>1. nd[p].name \in Name
          BY DEF Node
    <2>2. IndexOf[nd[p].name] \in Index
          BY <2>1, IndexType
    <2>q. QED BY <2>2
<1>q. QED BY <1>1, <1>2

\* So a node is linked as long as it is allocated.
LEMMA LinkedIsAllocated ==
    /\ TypeOK /\ InChains => Linked = DOMAIN node
    /\ TypeOK' /\ InChains' => Linked' = DOMAIN node'
BY ChainsHoldAll DEF TypeOK, InChains, Linked

\* The statistics in terms of the nodes allocated.
LEMMA StatsExactAlloc ==
    ASSUME TypeOK, InChains
    PROVE  StatsExact <=> \A c \in Counter : stats[c] = Cardinality(CountedBy(c, node))
<1>1. Linked = DOMAIN node
      BY LinkedIsAllocated
<1>q. QED BY <1>1 DEF StatsExact, CountedBy

\* Exact statistics of a finite table are naturals.
LEMMA CountType ==
    ASSUME NEW nd, IsFiniteSet(DOMAIN nd), NEW c
    PROVE  IsFiniteSet(CountedBy(c, nd)) /\ Cardinality(CountedBy(c, nd)) \in Nat
<1>1. CountedBy(c, nd) \in SUBSET DOMAIN nd
      BY DEF CountedBy
<1>q. QED BY <1>1, FS_Subset, FS_CardinalityType

\* Operations that change neither names nor chains keep lookups as they are.
LEMMA NamesUnchanged ==
    ASSUME IInv, TypeOK', nodehash' = nodehash, DOMAIN node' = DOMAIN node,
           \A p \in DOMAIN node : node'[p].name = node[p].name
    PROVE  IsFiniteSet(DOMAIN node)' /\ InChains' /\ OnePerName' /\ Linked' = DOMAIN node
<1>1. Linked = DOMAIN node
      BY LinkedIsAllocated DEF IInv
<1>2. Linked' = Linked
      BY DEF Linked
<1>3. InChains'
      BY DEF IInv, InChains
<1>4. OnePerName'
      BY <1>1, <1>2 DEF IInv, OnePerName
<1>q. QED BY <1>1, <1>2, <1>3, <1>4 DEF IInv

\* Operations that change no metric either keep the statistics.
LEMMA MetricsUnchanged ==
    ASSUME IInv, TypeOK', nodehash' = nodehash, stats' = stats, DOMAIN node' = DOMAIN node,
           \A p \in DOMAIN node : node'[p].name = node[p].name,
           \A p \in DOMAIN node : node'[p].metric = node[p].metric,
           Mortal'
    PROVE  IInv'
<1>1. IsFiniteSet(DOMAIN node)' /\ InChains' /\ OnePerName' /\ Linked' = DOMAIN node
      BY NamesUnchanged
<1>2. Linked = DOMAIN node
      BY LinkedIsAllocated DEF IInv
<1>3. StatsExact'
    <2>1. \A c : {p \in Linked' : Counts(c, node'[p].metric)} = {p \in Linked : Counts(c, node[p].metric)}
          BY <1>1, <1>2
    <2>q. QED BY <2>1 DEF IInv, StatsExact
<1>q. QED BY <1>1, <1>3 DEF IInv

-----------------------------------------------------------------------------
(* The operations *)

\* Freeing nodes unlinks them and counts each of them down where it was
\* counted.
LEMMA FreeNodesKeeps ==
    ASSUME IInv, NEW gone \in SUBSET Linked, FreeNodes(gone)
    PROVE  IInv' /\ Linked' = Linked \ gone
<1>1. /\ Linked = DOMAIN node
      /\ \A c \in Counter : stats[c] = Cardinality(CountedBy(c, node))
      BY LinkedIsAllocated, StatsExactAlloc DEF IInv
<1>2. /\ DOMAIN node' = DOMAIN node \ gone
      /\ \A p \in DOMAIN node \ gone : node'[p] = node[p]
      /\ nodehash' = [i \in Index |-> nodehash[i] \ gone]
      BY DEF FreeNodes
<1>3. IsFiniteSet(DOMAIN node')
      BY <1>2, FS_Difference DEF IInv
<1>4. ASSUME NEW c \in Counter
      PROVE  stats'[c] = Cardinality(CountedBy(c, node')) /\ stats'[c] \in Nat
    <2> DEFINE S == CountedBy(c, node)
               T == {p \in gone : Counts(c, node[p].metric)}
    <2>1. stats'[c] = stats[c] - Cardinality(T)
          BY DEF FreeNodes
    <2>2. IsFiniteSet(S) /\ S \cap T = T
          BY <1>1, CountType DEF IInv, CountedBy
    <2>3. CountedBy(c, node') = S \ T
          BY <1>1, <1>2 DEF CountedBy
    <2>4. Cardinality(S \ T) = Cardinality(S) - Cardinality(S \cap T)
          BY <2>2, FS_Difference
    <2>5. Cardinality(CountedBy(c, node')) \in Nat
          BY <1>3, CountType
    <2>q. QED BY <1>1, <2>1, <2>2, <2>3, <2>4, <2>5
<1>5. TypeOK'
    <2>1. nodehash' \in [Index -> SUBSET Addr]
          BY <1>2 DEF IInv, TypeOK
    <2>2. DOMAIN node' \subseteq Addr /\ node' \in [DOMAIN node' -> Node]
          BY <1>2 DEF IInv, TypeOK, FreeNodes
    <2>3. stats' \in [Counter -> Nat]
        <3>1. stats' = [c \in Counter |-> stats'[c]]
              BY DEF FreeNodes
        <3>q. QED BY <1>4, <3>1
    <2>q. QED BY <2>1, <2>2, <2>3 DEF TypeOK
<1>6. InChains'
      BY <1>2 DEF IInv, InChains
<1>7. Linked' = DOMAIN node'
      BY <1>5, <1>6, LinkedIsAllocated
<1>8. StatsExact'
    <2>1. \A c : {p \in Linked' : Counts(c, node'[p].metric)} = CountedBy(c, node')
          BY <1>7 DEF CountedBy
    <2>q. QED BY <1>4, <2>1 DEF StatsExact
<1>9. OnePerName'
      BY <1>1, <1>2, <1>7 DEF IInv, OnePerName
<1>10. Mortal'
      BY <1>2 DEF IInv, Mortal
<1>q. QED BY <1>1, <1>2, <1>3, <1>5, <1>6, <1>7, <1>8, <1>9, <1>10 DEF IInv

\* gnr_node_online creates a node only where no chain has an equal name.
LEMMA OnlineKeeps ==
    ASSUME IInv, NEW name \in Name, NEW metric \in Metric, gnr_node_online(name, metric)
    PROVE  IInv'
<1>1. CASE UNCHANGED vars
      BY <1>1 DEF IInv, TypeOK, InChains, StatsExact, OnePerName, Mortal, Linked, vars
<1>2. CASE ~UNCHANGED vars
    <2> DEFINE gn == [name |-> name, metric |-> metric, refcount |-> 0, idle |-> 0,
                      ttl |-> IF metric > GNR_NODE_METRIC_LOCAL
                              THEN GNR_NODE_TTL_DEFAULT ELSE -1]
               idx == IndexOf[name]
    <2>1. PICK p \in Addr \ DOMAIN node :
             /\ node' = [q \in DOMAIN node \cup {p} |-> IF q = p THEN gn ELSE node[q]]
             /\ nodehash' = [nodehash EXCEPT ![idx] = @ \cup {p}]
          BY <1>2 DEF gnr_node_online
    <2>2. gnr_node_findbyname(name) = {} /\ stats' = Counted(stats, metric, 1)
          BY <1>2 DEF gnr_node_online
    <2>3. gn \in Node /\ (gn.metric # GNR_NODE_METRIC_LOCAL => gn.ttl # -1)
          BY GnrNodeAssumption DEF Node, Metric, GNR_NODE_METRIC_LOCAL
    <2>4. gn.name = name /\ gn.metric = metric
          OBVIOUS
    <2> HIDE DEF gn
    <2>5. /\ DOMAIN node' = DOMAIN node \cup {p} /\ node'[p] = gn
          /\ \A q \in DOMAIN node : node'[q] = node[q] /\ q # p
          BY <2>1
    <2>6. idx \in Index /\ \A q \in DOMAIN node : node[q].name \in Name
          BY IndexType DEF IInv, TypeOK, Node
    <2>7. /\ nodehash'[idx] = nodehash[idx] \cup {p}
          /\ \A i \in Index : i # idx => nodehash'[i] = nodehash[i]
          BY <2>1, <2>6 DEF IInv, TypeOK
    <2>8. IsFiniteSet(DOMAIN node')
          BY <2>5, FS_AddElement DEF IInv
    <2>9. Linked = DOMAIN node /\ \A c \in Counter : stats[c] = Cardinality(CountedBy(c, node))
          BY LinkedIsAllocated, StatsExactAlloc DEF IInv
    <2>10. ASSUME NEW c \in Counter
           PROVE  stats'[c] = Cardinality(CountedBy(c, node')) /\ stats'[c] \in Nat
        <3> DEFINE S == CountedBy(c, node)
        <3>1. IsFiniteSet(S) /\ p \notin S /\ Cardinality(S) \in Nat
              BY CountType DEF IInv, CountedBy
        <3>2. CASE Counts(c, metric)
            <4>1. CountedBy(c, node') = S \cup {p}
                  BY <2>4, <2>5, <3>2 DEF CountedBy
            <4>2. stats'[c] = stats[c] + 1
                  BY <2>2, <3>2 DEF Counted
            <4>3. Cardinality(S \cup {p}) = Cardinality(S) + 1
                  BY <3>1, FS_AddElement
            <4>q. QED BY <2>9, <3>1, <4>1, <4>2, <4>3
        <3>3. CASE ~Counts(c, metric)
            <4>1. CountedBy(c, node') = S
                  BY <2>4, <2>5, <3>3 DEF CountedBy
            <4>2. stats'[c] = stats[c]
                  BY <2>2, <3>3 DEF Counted
            <4>q. QED BY <2>9, <3>1, <4>1, <4>2
        <3>q. QED BY <3>2, <3>3
    <2>11. TypeOK'
        <3>1. nodehash' \in [Index -> SUBSET Addr]
              BY <2>1 DEF IInv, TypeOK
        <3>2. DOMAIN node' \subseteq Addr /\ node' \in [DOMAIN node' -> Node]
              BY <2>1, <2>3 DEF IInv, TypeOK
        <3>3. stats' \in [Counter -> Nat]
            <4>1. stats' = [c \in Counter |-> stats'[c]]
                  BY <2>2 DEF Counted
            <4>q. QED BY <2>10, <4>1
        <3>q. QED BY <3>1, <3>2, <3>3 DEF TypeOK
    <2>12. InChains'
        <3>1. ASSUME NEW i \in Index PROVE nodehash'[i] \subseteq DOMAIN node'
              BY <2>5, <2>7 DEF IInv, InChains
        <3>2. ASSUME NEW q \in DOMAIN node', NEW i \in Index
              PROVE  q \in nodehash'[i] <=> i = IndexOf[node'[q].name]
            <4>1. CASE q = p
                <5>1. p \notin nodehash[i]
                      BY DEF IInv, InChains
                <5>q. QED BY <2>4, <2>5, <2>7, <4>1, <5>1
            <4>2. CASE q # p
                  BY <2>5, <2>7, <4>2 DEF IInv, InChains
            <4>q. QED BY <4>1, <4>2
        <3>q. QED BY <3>1, <3>2 DEF InChains
    <2>13. Linked' = DOMAIN node'
          BY <2>11, <2>12, LinkedIsAllocated
    <2>14. StatsExact'
        <3>1. \A c : {q \in Linked' : Counts(c, node'[q].metric)} = CountedBy(c, node')
              BY <2>13 DEF CountedBy
        <3>q. QED BY <2>10, <3>1 DEF StatsExact
    <2>15. ASSUME NEW q \in DOMAIN node
           PROVE  /\ gnr_node_namecmp(node[q].name, name) # 0
                  /\ gnr_node_namecmp(name, node[q].name) # 0
        <3>1. gnr_node_namecmp(name, node[q].name) = gnr_node_namecmp(node[q].name, name)
              BY <2>6, IndexType, NamecmpSymmetric
        <3>2. SUFFICES ASSUME gnr_node_namecmp(node[q].name, name) = 0 PROVE FALSE
              BY <3>1
        <3>3. IndexOf[node[q].name] = idx
              BY <2>6, <3>2, IndexType
        <3>4. q \in nodehash[idx]
              BY <2>6, <3>3 DEF IInv, InChains
        <3>q. QED BY <2>2, <3>2, <3>4 DEF gnr_node_findbyname
    <2>16. OnePerName'
        <3>1. SUFFICES ASSUME NEW q \in DOMAIN node', NEW r \in DOMAIN node',
                              gnr_node_namecmp(node'[q].name, node'[r].name) = 0
                       PROVE  q = r
              BY <2>13 DEF OnePerName
        <3>2. CASE q = p /\ r # p
              BY <2>4, <2>5, <2>15, <3>1, <3>2
        <3>3. CASE q # p /\ r = p
              BY <2>4, <2>5, <2>15, <3>1, <3>3
        <3>4. CASE q # p /\ r # p
              BY <2>5, <2>9, <3>1, <3>4 DEF IInv, OnePerName
        <3>q. QED BY <3>2, <3>3, <3>4
    <2>17. Mortal'
          BY <2>3, <2>5 DEF IInv, Mortal
    <2>q. QED BY <2>8, <2>11, <2>12, <2>14, <2>16, <2>17 DEF IInv
<1>q. QED BY <1>1, <1>2

\* gnr_node_remetric counts the node from one counter to another.
LEMMA RemetricKeeps ==
    ASSUME IInv, NEW p \in DOMAIN node, NEW newmetric \in Metric,
           gnr_node_remetric(p, newmetric)
    PROVE  IInv'
<1>1. node[p] \in Node /\ node \in [DOMAIN node -> Node] /\ p \in Addr
      BY DEF IInv, TypeOK
<1> DEFINE gn == [node[p] EXCEPT !.metric = newmetric, !.idle = 0,
                                 !.ttl = IF newmetric = GNR_NODE_METRIC_LOCAL
                                         THEN -1 ELSE GNR_NODE_TTL_DEFAULT]
<1>2. node' = [node EXCEPT ![p] = gn]
      BY <1>1 DEF gnr_node_remetric
<1>3. /\ gn \in Node /\ gn.name = node[p].name /\ gn.metric = newmetric
      /\ gn.metric # GNR_NODE_METRIC_LOCAL => gn.ttl # -1
    <2> DEFINE t == IF newmetric = GNR_NODE_METRIC_LOCAL THEN -1 ELSE GNR_NODE_TTL_DEFAULT
    <2>1. t \in -1 .. MaxIdle /\ 0 \in 0 .. MaxIdle
          /\ (newmetric # GNR_NODE_METRIC_LOCAL => t # -1)
          BY GnrNodeAssumption
    <2>2. gn = [node[p] EXCEPT !.metric = newmetric, !.idle = 0, !.ttl = t]
          OBVIOUS
    <2> HIDE DEF gn, t
    <2>3. gn \in Node
          BY <1>1, <2>1, <2>2 DEF Node
    <2>4. gn.name = node[p].name /\ gn.metric = newmetric /\ gn.ttl = t
          BY <1>1, <2>2 DEF Node
    <2>q. QED BY <2>1, <2>3, <2>4
<1> HIDE DEF gn
<1>4. /\ DOMAIN node' = DOMAIN node /\ node'[p] = gn /\ node' \in [DOMAIN node -> Node]
      /\ \A q \in DOMAIN node : q # p => node'[q] = node[q]
      BY <1>1, <1>2, <1>3
<1>5. nodehash' = nodehash
      /\ stats' = Counted(Counted(stats, node[p].metric, -1), newmetric, 1)
      BY DEF gnr_node_remetric
<1>6. Linked = DOMAIN node /\ \A c \in Counter : stats[c] = Cardinality(CountedBy(c, node))
      BY LinkedIsAllocated, StatsExactAlloc DEF IInv
<1>7. ASSUME NEW c \in Counter
      PROVE  stats'[c] = Cardinality(CountedBy(c, node')) /\ stats'[c] \in Nat
    <2> DEFINE S == CountedBy(c, node)
               old == IF Counts(c, node[p].metric) THEN -1 ELSE 0
               new == IF Counts(c, newmetric) THEN 1 ELSE 0
    <2>1. IsFiniteSet(S) /\ Cardinality(S) \in Nat
          BY CountType DEF IInv
    <2>2. stats'[c] = Cardinality(S) + old + new
          BY <1>5, <1>6, <2>1 DEF Counted
    <2>3. p \in S <=> Counts(c, node[p].metric)
          BY DEF CountedBy
    <2>4. CASE Counts(c, newmetric)
        <3>1. CountedBy(c, node') = S \cup {p}
              BY <1>3, <1>4, <2>4 DEF CountedBy
        <3>2. Cardinality(S \cup {p}) = IF p \in S THEN Cardinality(S) ELSE Cardinality(S) + 1
              BY <2>1, FS_AddElement
        <3>q. QED BY <2>1, <2>2, <2>3, <2>4, <3>1, <3>2
    <2>5. CASE ~Counts(c, newmetric)
        <3>1. CountedBy(c, node') = S \ {p}
              BY <1>3, <1>4, <2>5 DEF CountedBy
        <3>2. /\ Cardinality(S \ {p}) = IF p \in S THEN Cardinality(S) - 1 ELSE Cardinality(S)
              /\ Cardinality(S \ {p}) \in Nat
              BY <2>1, FS_RemoveElement, FS_CardinalityType
        <3>q. QED BY <2>1, <2>2, <2>3, <2>5, <3>1, <3>2
    <2>q. QED BY <2>4, <2>5
<1>8. TypeOK'
    <2>1. stats' \in [Counter -> Nat]
        <3>1. stats' = [c \in Counter |-> stats'[c]]
              BY <1>5 DEF Counted
        <3>q. QED BY <1>7, <3>1
    <2>q. QED BY <1>4, <1>5, <2>1 DEF IInv, TypeOK
<1>9. IsFiniteSet(DOMAIN node)' /\ InChains' /\ OnePerName' /\ Linked' = DOMAIN node
    <2>1. \A q \in DOMAIN node : node'[q].name = node[q].name
          BY <1>3, <1>4
    <2>q. QED BY <1>4, <1>5, <1>8, <2>1, NamesUnchanged
<1>10. StatsExact'
    <2>1. \A c : {q \in Linked' : Counts(c, node'[q].metric)} = CountedBy(c, node')
          BY <1>4, <1>9 DEF CountedBy
    <2>q. QED BY <1>7, <2>1 DEF StatsExact
<1>11. Mortal'
      BY <1>3, <1>4 DEF IInv, Mortal
<1>q. QED BY <1>8, <1>9, <1>10, <1>11 DEF IInv

\* Changing a node without its name and metric keeps the invariant, as long
\* as it stays mortal.
LEMMA UpdateKeeps ==
    ASSUME IInv, NEW p \in DOMAIN node, NEW gn \in Node,
           gn.name = node[p].name, gn.metric = node[p].metric,
           gn.metric # GNR_NODE_METRIC_LOCAL => gn.ttl # -1,
           node' = [node EXCEPT ![p] = gn], nodehash' = nodehash, stats' = stats
    PROVE  IInv'
<1>1. node \in [DOMAIN node -> Node]
      BY DEF IInv, TypeOK
<1>2. /\ DOMAIN node' = DOMAIN node /\ node'[p] = gn /\ node' \in [DOMAIN node -> Node]
      /\ \A q \in DOMAIN node : q # p => node'[q] = node[q]
      BY <1>1
<1>3. TypeOK'
      BY <1>2 DEF IInv, TypeOK
<1>4. Mortal'
      BY <1>2 DEF IInv, Mortal
<1>5. \A q \in DOMAIN node : node'[q].name = node[q].name
      BY <1>2
<1>6. \A q \in DOMAIN node : node'[q].metric = node[q].metric
      BY <1>2
<1>q. QED BY <1>2, <1>3, <1>4, <1>5, <1>6, MetricsUnchanged

\* The operations on one node that are not about its metric.
LEMMA OneNodeKeeps ==
    ASSUME IInv, NEW p \in DOMAIN node,
           \/ gnr_node_usehit(p)
           \/ \E ttl \in -1 .. MaxIdle : gnr_node_setttl(p, ttl)
           \/ gnr_node_ref(p)
           \/ gnr_node_unref(p)
    PROVE  IInv'
<1>1. /\ node[p] \in Node /\ node \in [DOMAIN node -> Node]
      /\ node[p].metric # GNR_NODE_METRIC_LOCAL => node[p].ttl # -1
      /\ node[p].refcount \in Int
      BY GnrNodeAssumption DEF IInv, TypeOK, Mortal, Node
<1>2. MaxIdle \in Nat /\ MaxRefs \in Nat /\ GNR_NODE_TTL_DEFAULT \in 1 .. MaxIdle
      BY GnrNodeAssumption
<1>3. CASE gnr_node_usehit(p)
    <2> DEFINE gn == [node[p] EXCEPT !.idle = 0]
    <2>1. /\ node' = [node EXCEPT ![p] = gn] /\ nodehash' = nodehash /\ stats' = stats
          BY <1>1, <1>3 DEF gnr_node_usehit
    <2>2. /\ gn \in Node /\ gn.name = node[p].name /\ gn.metric = node[p].metric
          /\ gn.ttl = node[p].ttl
          BY <1>1, <1>2 DEF Node
    <2> HIDE DEF gn
    <2>q. QED BY <1>1, <2>1, <2>2, UpdateKeeps
<1>4. ASSUME NEW newttl \in -1 .. MaxIdle, gnr_node_setttl(p, newttl) PROVE IInv'
    <2> DEFINE t == IF node[p].metric = GNR_NODE_METRIC_LOCAL
                    THEN node[p].ttl
                    ELSE IF newttl = -1 THEN GNR_NODE_TTL_DEFAULT ELSE newttl
               gn == [node[p] EXCEPT !.ttl = t]
    <2>1. /\ node' = [node EXCEPT ![p] = gn] /\ nodehash' = nodehash /\ stats' = stats
          BY <1>1, <1>4 DEF gnr_node_setttl
    <2>2. t \in -1 .. MaxIdle /\ (node[p].metric # GNR_NODE_METRIC_LOCAL => t # -1)
          BY <1>1, <1>2 DEF Node
    <2>3. gn = [node[p] EXCEPT !.ttl = t]
          OBVIOUS
    <2> HIDE DEF gn, t
    <2>4. /\ gn \in Node /\ gn.name = node[p].name /\ gn.metric = node[p].metric /\ gn.ttl = t
          BY <1>1, <2>2, <2>3 DEF Node
    <2>q. QED BY <2>1, <2>2, <2>4, UpdateKeeps
<1>5. CASE gnr_node_ref(p)
    <2> DEFINE gn == [node[p] EXCEPT !.refcount = @ + 1]
    <2>1. /\ node' = [node EXCEPT ![p] = gn] /\ nodehash' = nodehash /\ stats' = stats
          /\ node[p].refcount < MaxRefs
          BY <1>1, <1>5 DEF gnr_node_ref
    <2>2. /\ gn \in Node /\ gn.name = node[p].name /\ gn.metric = node[p].metric
          /\ gn.ttl = node[p].ttl
          BY <1>1, <1>2, <2>1 DEF Node
    <2> HIDE DEF gn
    <2>q. QED BY <1>1, <2>1, <2>2, UpdateKeeps
<1>6. CASE gnr_node_unref(p)
    <2> DEFINE gn == [node[p] EXCEPT !.refcount = @ - 1]
    <2>1. /\ node' = [node EXCEPT ![p] = gn] /\ nodehash' = nodehash /\ stats' = stats
          /\ node[p].refcount > -MaxRefs
          BY <1>1, <1>6 DEF gnr_node_unref
    <2>2. /\ gn \in Node /\ gn.name = node[p].name /\ gn.metric = node[p].metric
          /\ gn.ttl = node[p].ttl
          BY <1>1, <1>2, <2>1 DEF Node
    <2> HIDE DEF gn
    <2>q. QED BY <1>1, <2>1, <2>2, UpdateKeeps
<1>q. QED BY <1>3, <1>4, <1>5, <1>6

\* Time passes for all nodes at once.
LEMMA TickKeeps ==
    ASSUME IInv, Tick PROVE IInv'
<1>1. node \in [DOMAIN node -> Node] /\ MaxIdle \in Nat
      BY GnrNodeAssumption DEF IInv, TypeOK
<1>2. nodehash' = nodehash /\ stats' = stats /\ DOMAIN node' = DOMAIN node
      BY DEF Tick
<1>3. ASSUME NEW p \in DOMAIN node
      PROVE  /\ node'[p] \in Node /\ node'[p].name = node[p].name
             /\ node'[p].metric = node[p].metric /\ node'[p].ttl = node[p].ttl
    <2> DEFINE t == IF /\ node[p].metric # GNR_NODE_METRIC_LOCAL
                       /\ node[p].idle < MaxIdle
                    THEN node[p].idle + 1 ELSE node[p].idle
    <2>1. node'[p] = [node[p] EXCEPT !.idle = t]
          BY DEF Tick
    <2>2. node[p] \in Node /\ t \in 0 .. MaxIdle
          BY <1>1 DEF Node
    <2> HIDE DEF t
    <2>q. QED BY <2>1, <2>2 DEF Node
<1>4. TypeOK'
    <2>1. node' \in [DOMAIN node -> Node]
          BY <1>3 DEF Tick
    <2>q. QED BY <1>2, <2>1 DEF IInv, TypeOK
<1>5. Mortal'
      BY <1>2, <1>3 DEF IInv, Mortal
<1>6. \A q \in DOMAIN node : node'[q].name = node[q].name
      BY <1>3
<1>7. \A q \in DOMAIN node : node'[q].metric = node[q].metric
      BY <1>3
<1>q. QED BY <1>2, <1>4, <1>5, <1>6, <1>7, MetricsUnchanged

\* The table starts empty.
LEMMA InitIInv == Init => IInv
<1>1. SUFFICES ASSUME Init PROVE IInv
      OBVIOUS
<1>2. DOMAIN node = {} /\ Linked = {}
      BY <1>1 DEF Init, Linked
<1>3. TypeOK
      BY <1>1, <1>2 DEF Init, TypeOK
<1>4. IsFiniteSet(DOMAIN node) /\ Cardinality({}) = 0
      BY <1>2, FS_EmptySet
<1>5. InChains /\ OnePerName /\ Mortal
      BY <1>1, <1>2 DEF Init, InChains, OnePerName, Mortal
<1>6. StatsExact
    <2>1. \A c : {p \in Linked : Counts(c, node[p].metric)} = {}
          BY <1>2
    <2>q. QED BY <1>1, <1>4, <2>1 DEF Init, StatsExact
<1>q. QED BY <1>3, <1>4, <1>5, <1>6 DEF IInv

\* Every operation keeps the invariant.
LEMMA NextIInv == IInv /\ [Next]_vars => IInv'
<1>1. SUFFICES ASSUME IInv, [Next]_vars PROVE IInv'
      OBVIOUS
<1>2. ASSUME NEW name \in Name, NEW metric \in Metric, gnr_node_online(name, metric)
      PROVE  IInv'
      BY <1>1, <1>2, OnlineKeeps
<1>3. ASSUME NEW p \in DOMAIN node, gnr_node_offline(p) PROVE IInv'
    <2> DEFINE gone == {p} \cap nodehash[IndexOf[node[p].name]]
    <2>1. Linked = DOMAIN node
          BY <1>1, LinkedIsAllocated DEF IInv
    <2>2. gone \in SUBSET Linked /\ FreeNodes(gone)
          BY <1>3, <2>1 DEF gnr_node_offline
    <2> HIDE DEF gone
    <2>q. QED BY <1>1, <2>2, FreeNodesKeeps
<1>4. ASSUME NEW p \in DOMAIN node, NEW metric \in Metric, gnr_node_remetric(p, metric)
      PROVE  IInv'
      BY <1>1, <1>4, RemetricKeeps
<1>5. ASSUME NEW p \in DOMAIN node,
             \/ gnr_node_usehit(p)
             \/ \E ttl \in -1 .. MaxIdle : gnr_node_setttl(p, ttl)
             \/ gnr_node_ref(p)
             \/ gnr_node_unref(p)
      PROVE  IInv'
      BY <1>1, <1>5, OneNodeKeeps
<1>6. ASSUME NEW metric \in Metric, gnr_node_offline_many(metric) PROVE IInv'
    <2> DEFINE gone == {p \in Linked : node[p].metric = metric}
    <2>1. gone \in SUBSET Linked /\ FreeNodes(gone)
          BY <1>6 DEF gnr_node_offline_many
    <2> HIDE DEF gone
    <2>q. QED BY <1>1, <2>1, FreeNodesKeeps
<1>7. CASE gnr_node__hash_timeout
    <2> DEFINE gone == {p \in Linked : /\ node[p].metric # GNR_NODE_METRIC_LOCAL
                                       /\ node[p].ttl # -1
                                       /\ node[p].refcount <= 0
                                       /\ node[p].idle >= node[p].ttl}
    <2>1. gone \in SUBSET Linked /\ FreeNodes(gone)
          BY <1>7 DEF gnr_node__hash_timeout
    <2> HIDE DEF gone
    <2>q. QED BY <1>1, <2>1, FreeNodesKeeps
<1>8. CASE Tick
      BY <1>1, <1>8, TickKeeps
<1>9. CASE UNCHANGED vars
      BY <1>1, <1>9 DEF IInv, TypeOK, InChains, StatsExact, OnePerName, Mortal, Linked, vars
<1>q. QED BY <1>1, <1>2, <1>3, <1>4, <1>5, <1>6, <1>7, <1>8, <1>9 DEF Next

\* The inductive invariant holds.
LEMMA Invariance == Spec => []IInv
BY InitIInv, NextIInv, PTL DEF Spec

\* The variables keep their types: no counter goes below zero.
THEOREM TypeCorrect == Spec => []TypeOK
<1>1. IInv => TypeOK
      BY DEF IInv
<1>q. QED BY <1>1, Invariance, PTL

\* The statistics of freenode, gnr_node_online and gnr_node_remetric are
\* exact.
THEOREM StatsAreExact == Spec => []StatsExact
<1>1. IInv => StatsExact
      BY DEF IInv
<1>q. QED BY <1>1, Invariance, PTL

\* Two nodes with the same letters end in different numbers of spaces.
THEOREM NodesAreUnique == Spec => []Unique
<1>1. IInv => Unique
    <2>1. SUFFICES ASSUME IInv, NEW p \in Linked, NEW q \in Linked,
                          NormalForm(node[p].name) = NormalForm(node[q].name),
                          TrailingSpaces(node[p].name) = TrailingSpaces(node[q].name)
                   PROVE  p = q
          BY DEF Unique
    <2>2. node[p].name \in Name /\ node[q].name \in Name
          BY <2>1, LinkedIsAllocated DEF IInv, TypeOK, Node
    <2>3. gnr_node_namecmp(node[p].name, node[q].name) = 0
          BY <2>1, <2>2, IndexType, NamecmpIgnoresCaseAndSpace
    <2>q. QED BY <2>1, <2>3 DEF IInv, OnePerName
<1>q. QED BY <1>1, Invariance, PTL

\* gnr_node_findbyname finds a node under the spellings of its name that differ
\* in case and in spaces before the last letter, and under no others.
THEOREM NodesAreFound == Spec => []FoundBySpelling
<1>1. IInv => FoundBySpelling
    <2>1. SUFFICES ASSUME IInv, NEW p \in Linked, NEW name \in Name
                   PROVE  p \in gnr_node_findbyname(name) <=>
                              /\ NormalForm(name) = NormalForm(node[p].name)
                              /\ TrailingSpaces(name) = TrailingSpaces(node[p].name)
          BY DEF FoundBySpelling
    <2>2. Linked = DOMAIN node /\ node[p].name \in Name
          BY <2>1, LinkedIsAllocated DEF IInv, TypeOK, Node
    <2>3. \A a \in Name : a \in Seq(Char) /\ IndexOf[a] \in Index
          BY IndexType
    <2>4. gnr_node_namecmp(node[p].name, name) = 0 <=>
              /\ NormalForm(name) = NormalForm(node[p].name)
              /\ TrailingSpaces(name) = TrailingSpaces(node[p].name)
          BY <2>2, <2>3, NamecmpIgnoresCaseAndSpace
    <2>5. gnr_node_namecmp(node[p].name, name) = 0 => p \in nodehash[IndexOf[name]]
        <3>1. SUFFICES ASSUME gnr_node_namecmp(node[p].name, name) = 0
                       PROVE  p \in nodehash[IndexOf[name]]
              OBVIOUS
        <3>2. IndexOf[node[p].name] = IndexOf[name]
              BY <2>2, <3>1, IndexType
        <3>q. QED BY <2>1, <2>2, <2>3, <3>2 DEF IInv, InChains
    <2>q. QED BY <2>4, <2>5 DEF gnr_node_findbyname
<1>q. QED BY <1>1, Invariance, PTL

\* gnr_node_namecmp and toscar_sncmp differ on names that both end in spaces
\* and have the same letters, and on no others.
THEOREM ComparisonsDoAgree == Spec => []ComparisonsAgree
<1>1. IInv => ComparisonsAgree
    <2>1. SUFFICES ASSUME IInv, NEW p \in Linked, NEW name \in Name
                   PROVE  toscar_sncmp(name, node[p].name) =
                              IF /\ NormalForm(name) = NormalForm(node[p].name)
                                 /\ EndsInSpace(name) /\ EndsInSpace(node[p].name)
                              THEN {0, 1}
                              ELSE {gnr_node_namecmp(node[p].name, name)}
          BY DEF ComparisonsAgree
    <2> DEFINE a == node[p].name
    <2>2. a \in Seq(Char) /\ name \in Seq(Char)
        <3>1. Linked = DOMAIN node
              BY <2>1, LinkedIsAllocated DEF IInv
        <3>2. node[p].name \in Name
              BY <2>1, <3>1 DEF IInv, TypeOK, Node
        <3>q. QED BY <3>2, IndexType
    <2>3. toscar_sncmp(name, a) =
              IF NormalForm(name) # NormalForm(a) THEN {1}
              ELSE IF EndsInSpace(name) /\ EndsInSpace(a) THEN {0, 1}
              ELSE IF EndsInSpace(name) \/ EndsInSpace(a) THEN {1} ELSE {0}
          BY <2>2, SncmpIgnoresCaseAndSpace
    <2>4. gnr_node_namecmp(a, name) \in {0, 1}
          BY <2>2, NamecmpIgnoresCaseAndSpace
    <2>5. gnr_node_namecmp(a, name) = 0 =>
              NormalForm(a) = NormalForm(name) /\ (EndsInSpace(a) <=> EndsInSpace(name))
          BY <2>2, EqualNames
    <2>6. NormalForm(a) = NormalForm(name) /\ ~EndsInSpace(a) /\ ~EndsInSpace(name)
              => gnr_node_namecmp(a, name) = 0
        <3>1. \A b \in Seq(Char) : ~EndsInSpace(b) => TrailingSpaces(b) = 0
              BY NoTrailing
        <3>q. QED BY <2>2, <3>1, NamecmpIgnoresCaseAndSpace
    <2> HIDE DEF a
    <2>7. CASE NormalForm(name) # NormalForm(a)
          BY <2>3, <2>4, <2>5, <2>7 DEF a
    <2>8. CASE NormalForm(name) = NormalForm(a) /\ EndsInSpace(name) /\ EndsInSpace(a)
          BY <2>3, <2>8 DEF a
    <2>9. CASE NormalForm(name) = NormalForm(a) /\ (EndsInSpace(name) <=> ~EndsInSpace(a))
          BY <2>3, <2>4, <2>5, <2>9 DEF a
    <2>10. CASE NormalForm(name) = NormalForm(a) /\ ~EndsInSpace(name) /\ ~EndsInSpace(a)
          BY <2>3, <2>6, <2>10 DEF a
    <2>q. QED BY <2>7, <2>8, <2>9, <2>10
<1>q. QED BY <1>1, Invariance, PTL

\* gnr_node__hash_timeout frees what has expired and nothing else, whatever
\* gnr_node_setttl and gnr_node_remetric did before.
THEOREM TimeoutIsExact == Spec => TimeoutExact
<1> DEFINE A == gnr_node__hash_timeout =>
                    Linked' = {p \in Linked : \/ node[p].refcount > 0
                                              \/ node[p].metric = GNR_NODE_METRIC_LOCAL
                                              \/ node[p].idle < node[p].ttl}
<1>1. IInv /\ [Next]_vars => [A]_vars
    <2>1. SUFFICES ASSUME IInv, gnr_node__hash_timeout PROVE A
          OBVIOUS
    <2> DEFINE gone == {p \in Linked : /\ node[p].metric # GNR_NODE_METRIC_LOCAL
                                       /\ node[p].ttl # -1
                                       /\ node[p].refcount <= 0
                                       /\ node[p].idle >= node[p].ttl}
    <2>2. gone \in SUBSET Linked /\ FreeNodes(gone)
          BY <2>1 DEF gnr_node__hash_timeout
    <2>3. Linked' = Linked \ gone
        <3> HIDE DEF gone
        <3>q. QED BY <2>1, <2>2, FreeNodesKeeps
    <2>4. \A p \in Linked : /\ node[p].refcount \in Int /\ node[p].idle \in Int
                            /\ node[p].ttl \in Int
                            /\ node[p].metric # GNR_NODE_METRIC_LOCAL => node[p].ttl # -1
        <3>1. Linked = DOMAIN node
              BY <2>1, LinkedIsAllocated DEF IInv
        <3>q. QED BY <2>1, <3>1, GnrNodeAssumption DEF IInv, TypeOK, Node, Mortal
    <2>q. QED BY <2>3, <2>4
<1>2. Spec => [][A]_vars
    <2> HIDE DEF A
    <2>q. QED BY <1>1, Invariance, PTL DEF Spec
<1>q. QED BY <1>2, PTL DEF TimeoutExact
============================================================================
