----------------------------- MODULE IcbmProofs -----------------------------
(***************************************************************************)
(* Proofs about relayed instant messages, for every set of TLVs, any       *)
(* number of them in a message, all lengths of names and all counts.       *)
(*                                                                         *)
(* First what the loops over lists and sections compute, then what puts do *)
(* to a buffer that grows, then the inductive invariant: the state of the  *)
(* handler in terms of the payload it was given.                           *)
(***************************************************************************)
EXTENDS Icbm, Recursion, SequenceTheorems

\* Two sequences put together.
LEMMA Joined ==
    ASSUME NEW S, NEW l \in Seq(S), NEW m \in Seq(S)
    PROVE  /\ l \o m \in Seq(S) /\ Len(l \o m) = Len(l) + Len(m)
           /\ \A i \in 1 .. Len(l) : (l \o m)[i] = l[i]
           /\ \A i \in 1 .. Len(m) : (l \o m)[Len(l) + i] = m[i]
           /\ \A i \in 1 .. Len(l) + Len(m) :
                 i > Len(l) => i - Len(l) \in 1 .. Len(m) /\ (l \o m)[i] = m[i - Len(l)]
OBVIOUS

-----------------------------------------------------------------------------
(* Sums *)

\* The sums of the first n lengths.
Sums(lengths) ==
    CHOOSE sum : sum = [n \in 0 .. Len(lengths) |->
        IF n = 0 THEN 0 ELSE sum[n - 1] + lengths[n]]

\* The sums exist and are what the loop says.
LEMMA SumsLoop ==
    ASSUME NEW lengths \in Seq(Nat)
    PROVE  /\ Sums(lengths) \in [0 .. Len(lengths) -> Nat]
           /\ Sums(lengths)[0] = 0
           /\ \A n \in 1 .. Len(lengths) : Sums(lengths)[n] = Sums(lengths)[n - 1] + lengths[n]
           /\ Total(lengths) = Sums(lengths)[Len(lengths)]
<1> DEFINE N == Len(lengths)
           F(g) == [n \in 0 .. N |-> IF n = 0 THEN 0 ELSE g[n - 1] + lengths[n]]
           step == [n \in 1 .. N |-> [x \in Nat |-> x + lengths[n]]]
           S == Sums(lengths)
<1>1. N \in Nat /\ 0 \in Nat
      OBVIOUS
<1>2. \A n \in 1 .. N : lengths[n] \in Nat
      OBVIOUS
<1>3. S = CHOOSE x : x = F(x)
      BY DEF Sums
<1>0. Total(lengths) = S[N]
      BY DEF Sums, Total
<1> HIDE DEF N, S
<1>4. step \in [1 .. N -> [Nat -> Nat]]
      BY <1>2
<1>5. PICK g \in [0 .. N -> Nat] : Loop(g, N, 0, step)
    <2> HIDE DEF step
    <2>q. QED BY <1>1, <1>4, LoopDefined, Zenon
<1>6. \A n \in 1 .. N : n - 1 \in 0 .. N /\ n \in 0 .. N /\ n # 0
      BY <1>1
<1>7. \A n \in 1 .. N : g[n] = g[n - 1] + lengths[n]
    <2>1. \A n \in 1 .. N : g[n - 1] \in Nat
          BY <1>6
    <2>2. \A n \in 1 .. N : g[n] = step[n][g[n - 1]]
          BY <1>5 DEF Loop
    <2>q. QED BY <2>1, <2>2
<1>8. g[0] = 0
      BY <1>5 DEF Loop
<1>9. \A n \in 0 .. N : n # 0 => n \in 1 .. N
      BY <1>1
<1>10. g = F(g)
    <2> HIDE DEF step
    <2>q. QED BY <1>7, <1>8, <1>9
<1>11. S = F(S)
    <2> DEFINE P(x) == x = F(x)
    <2>1. P(g)
          BY <1>10
    <2>2. S = CHOOSE x : P(x)
          BY <1>3
    <2> HIDE DEF P
    <2>3. P(S)
          BY <2>1, <2>2, Zenon
    <2>q. QED BY <2>3 DEF P
<1>12. S[0] = 0 /\ \A n \in 1 .. N : S[n] = S[n - 1] + lengths[n]
      BY <1>1, <1>6, <1>11
<1>13. \A n \in 0 .. N : S[n] \in Nat
    <2> DEFINE T == {n \in 0 .. N : S[n] \in Nat}
    <2>1. 0 \in T
          BY <1>1, <1>12
    <2>2. ASSUME NEW i \in 0 .. N, i < N, i \in T PROVE i + 1 \in T
        <3>1. i + 1 \in 1 .. N /\ i + 1 - 1 = i
              BY <1>1, <2>2
        <3>2. S[i + 1] = S[i] + lengths[i + 1]
              BY <1>12, <3>1
        <3>q. QED BY <1>2, <2>2, <3>1, <3>2
    <2> HIDE DEF T
    <2>3. \A i \in 0 .. N : i \in T
          BY <1>1, <2>1, <2>2, Rounds
    <2>q. QED BY <2>3 DEF T
<1>14. S \in [0 .. N -> Nat]
      BY <1>11, <1>13
<1>q. QED BY <1>0, <1>12, <1>14 DEF S, N

\* A sum is a natural number, and that of nothing is 0.
LEMMA TotalType ==
    ASSUME NEW lengths \in Seq(Nat)
    PROVE  Total(lengths) \in Nat /\ (Len(lengths) = 0 => Total(lengths) = 0)
BY SumsLoop

\* Two sequences of lengths that begin alike have sums that begin alike.
LEMMA SumsAlike ==
    ASSUME NEW a \in Seq(Nat), NEW b \in Seq(Nat), NEW n \in Nat,
           n <= Len(a), n <= Len(b), \A i \in 1 .. n : a[i] = b[i]
    PROVE  Sums(a)[n] = Sums(b)[n]
<1> DEFINE T == {i \in 0 .. n : Sums(a)[i] = Sums(b)[i]}
<1>1. 0 \in T
      BY SumsLoop
<1>2. ASSUME NEW i \in 0 .. n, i < n, i \in T PROVE i + 1 \in T
    <2>1. i + 1 \in 1 .. n /\ i + 1 \in 1 .. Len(a) /\ i + 1 \in 1 .. Len(b) /\ i + 1 - 1 = i
          BY <1>2
    <2>2. Sums(a)[i + 1] = Sums(a)[i] + a[i + 1] /\ Sums(b)[i + 1] = Sums(b)[i] + b[i + 1]
          BY <2>1, SumsLoop
    <2>3. a[i + 1] = b[i + 1]
          BY <2>1
    <2>q. QED BY <1>2, <2>1, <2>2, <2>3
<1> HIDE DEF T
<1>3. \A i \in 0 .. n : i \in T
      BY <1>1, <1>2, Rounds
<1>q. QED BY <1>3 DEF T

\* The sum grows by a length that is appended.
LEMMA TotalAppend ==
    ASSUME NEW a \in Seq(Nat), NEW b \in Seq(Nat), NEW x \in Nat,
           Len(b) = Len(a) + 1, b[Len(b)] = x, \A i \in 1 .. Len(a) : a[i] = b[i]
    PROVE  Total(b) = Total(a) + x
<1>0. Len(a) \in Nat /\ Len(a) <= Len(a) /\ Len(a) <= Len(b)
      OBVIOUS
<1>1. Sums(a)[Len(a)] = Sums(b)[Len(a)]
      BY <1>0, SumsAlike, Zenon
<1>2. Len(b) \in 1 .. Len(b) /\ Len(b) - 1 = Len(a)
      OBVIOUS
<1>3. Sums(b)[Len(b)] = Sums(b)[Len(a)] + x
      BY <1>2, SumsLoop
<1>q. QED BY <1>1, <1>3, SumsLoop

\* The sum of two sequences put together.
LEMMA TotalConcat ==
    ASSUME NEW a \in Seq(Nat), NEW b \in Seq(Nat)
    PROVE  Total(a \o b) = Total(a) + Total(b)
<1> DEFINE c == a \o b
           N == Len(b)
           T == {i \in 0 .. N : Sums(c)[Len(a) + i] = Total(a) + Sums(b)[i]}
<1>1. /\ c \in Seq(Nat) /\ Len(c) = Len(a) + Len(b)
      /\ \A i \in 1 .. Len(a) : a[i] = c[i]
      /\ \A i \in 1 .. Len(b) : c[Len(a) + i] = b[i]
      OBVIOUS
<1>0. N \in Nat /\ Len(a) \in Nat /\ Len(a) <= Len(a) /\ Len(a) <= Len(c) /\ Total(a) \in Nat
      BY <1>1, TotalType
<1> HIDE DEF c
<1>2. 0 \in T
    <2>1. Sums(a)[Len(a)] = Sums(c)[Len(a)]
          BY <1>0, <1>1, SumsAlike, Zenon
    <2>2. Sums(b)[0] = 0 /\ Total(a) = Sums(a)[Len(a)]
          BY SumsLoop
    <2>q. QED BY <1>0, <2>1, <2>2
<1>c. \A n \in 1 .. Len(c) : Sums(c)[n] = Sums(c)[n - 1] + c[n]
      BY <1>1, SumsLoop
<1>3. ASSUME NEW i \in 0 .. N, i < N, i \in T PROVE i + 1 \in T
    <2>1. i + 1 \in 1 .. Len(b) /\ i + 1 - 1 = i /\ i \in 0 .. Len(b)
          BY <1>0, <1>3
    <2>2. Len(a) + (i + 1) \in 1 .. Len(c) /\ Len(a) + (i + 1) - 1 = Len(a) + i
          BY <1>0, <1>1, <2>1
    <2>3. Sums(c)[Len(a) + (i + 1)] = Sums(c)[Len(a) + i] + b[i + 1]
        <3> DEFINE n == Len(a) + (i + 1)
        <3>1. c[n] = b[i + 1]
              BY <1>1, <2>1
        <3>2. n \in 1 .. Len(c) /\ n - 1 = Len(a) + i
              BY <2>2
        <3> HIDE DEF n
        <3>3. Sums(c)[n] = Sums(c)[n - 1] + c[n]
              BY <1>c, <3>2
        <3>q. QED BY <3>1, <3>2, <3>3 DEF n
    <2>4. Sums(b)[i + 1] = Sums(b)[i] + b[i + 1]
          BY <2>1, SumsLoop
    <2>5. Sums(b)[i] \in Nat
          BY <2>1, SumsLoop
    <2>6. b[i + 1] \in Nat
          BY <2>1
    <2>7. Sums(c)[Len(a) + i] = Total(a) + Sums(b)[i] /\ Total(a) \in Nat
          BY <1>0, <1>3
    <2>8. Sums(c)[Len(a) + (i + 1)] = Total(a) + Sums(b)[i + 1]
          BY <2>3, <2>4, <2>5, <2>6, <2>7
    <2>q. QED BY <2>1, <2>8
<1>4. \A i \in 0 .. N : i \in T
    <2> HIDE DEF T, N
    <2>q. QED BY <1>0, <1>2, <1>3, Rounds, Zenon
<1>5. Sums(c)[Len(a) + Len(b)] = Total(a) + Sums(b)[Len(b)]
      BY <1>0, <1>4
<1>q. QED BY <1>1, <1>5, SumsLoop DEF c

\* Lengths that are at most twice others sum up to at most twice their sum.
LEMMA TotalTwice ==
    ASSUME NEW a \in Seq(Nat), NEW b \in Seq(Nat), Len(a) = Len(b),
           \A i \in 1 .. Len(a) : a[i] <= 2 * b[i]
    PROVE  Total(a) <= 2 * Total(b)
<1> DEFINE N == Len(a)
           A == Sums(a)
           B == Sums(b)
           T == {i \in 0 .. N : A[i] <= 2 * B[i]}
<1>0. N \in Nat
      OBVIOUS
<1>a. /\ A \in [0 .. N -> Nat] /\ A[0] = 0 /\ \A n \in 1 .. N : A[n] = A[n - 1] + a[n]
      /\ B \in [0 .. N -> Nat] /\ B[0] = 0 /\ \A n \in 1 .. N : B[n] = B[n - 1] + b[n]
      /\ Total(a) = A[N] /\ Total(b) = B[N]
      BY SumsLoop
<1>b. \A n \in 1 .. N : a[n] \in Nat /\ b[n] \in Nat /\ a[n] <= 2 * b[n]
      OBVIOUS
<1> HIDE DEF N, A, B
<1>1. 0 \in T
      BY <1>0, <1>a
<1>2. ASSUME NEW i \in 0 .. N, i < N, i \in T PROVE i + 1 \in T
    <2>1. i + 1 \in 1 .. N /\ i + 1 - 1 = i /\ A[i] \in Nat /\ B[i] \in Nat
          BY <1>0, <1>2, <1>a
    <2>2. A[i + 1] = A[i] + a[i + 1] /\ B[i + 1] = B[i] + b[i + 1]
          BY <1>a, <2>1
    <2>3. a[i + 1] \in Nat /\ b[i + 1] \in Nat /\ a[i + 1] <= 2 * b[i + 1]
          BY <1>b, <2>1
    <2>4. A[i] <= 2 * B[i]
          BY <1>2
    <2>5. A[i + 1] <= 2 * B[i + 1]
        <3> DEFINE x == A[i]
                   y == B[i]
                   u == a[i + 1]
                   v == b[i + 1]
        <3>1. x \in Nat /\ y \in Nat /\ u \in Nat /\ v \in Nat /\ x <= 2 * y /\ u <= 2 * v
              BY <2>1, <2>3, <2>4
        <3>2. A[i + 1] = x + u /\ B[i + 1] = y + v
              BY <2>2
        <3> HIDE DEF x, y, u, v
        <3>q. QED BY <3>1, <3>2
    <2>q. QED BY <1>0, <2>1, <2>5
<1>3. \A i \in 0 .. N : i \in T
    <2> HIDE DEF T
    <2>q. QED BY <1>0, <1>1, <1>2, Rounds, Zenon
<1>q. QED BY <1>0, <1>3, <1>a

\* Lengths that are at most seven halves of others likewise.
LEMMA TotalSevenHalves ==
    ASSUME NEW a \in Seq(Nat), NEW b \in Seq(Nat), Len(a) = Len(b),
           \A i \in 1 .. Len(a) : 2 * a[i] <= 7 * b[i]
    PROVE  2 * Total(a) <= 7 * Total(b)
<1> DEFINE N == Len(a)
           A == Sums(a)
           B == Sums(b)
           T == {i \in 0 .. N : 2 * A[i] <= 7 * B[i]}
<1>0. N \in Nat
      OBVIOUS
<1>a. /\ A \in [0 .. N -> Nat] /\ A[0] = 0 /\ \A n \in 1 .. N : A[n] = A[n - 1] + a[n]
      /\ B \in [0 .. N -> Nat] /\ B[0] = 0 /\ \A n \in 1 .. N : B[n] = B[n - 1] + b[n]
      /\ Total(a) = A[N] /\ Total(b) = B[N]
      BY SumsLoop
<1>b. \A n \in 1 .. N : a[n] \in Nat /\ b[n] \in Nat /\ 2 * a[n] <= 7 * b[n]
      OBVIOUS
<1> HIDE DEF N, A, B
<1>1. 0 \in T
      BY <1>0, <1>a
<1>2. ASSUME NEW i \in 0 .. N, i < N, i \in T PROVE i + 1 \in T
    <2>1. i + 1 \in 1 .. N /\ i + 1 - 1 = i /\ A[i] \in Nat /\ B[i] \in Nat
          BY <1>0, <1>2, <1>a
    <2>2. A[i + 1] = A[i] + a[i + 1] /\ B[i + 1] = B[i] + b[i + 1]
          BY <1>a, <2>1
    <2>3. a[i + 1] \in Nat /\ b[i + 1] \in Nat /\ 2 * a[i + 1] <= 7 * b[i + 1]
          BY <1>b, <2>1
    <2>4. 2 * A[i] <= 7 * B[i]
          BY <1>2
    <2>5. 2 * A[i + 1] <= 7 * B[i + 1]
        <3> DEFINE x == A[i]
                   y == B[i]
                   u == a[i + 1]
                   v == b[i + 1]
        <3>1. x \in Nat /\ y \in Nat /\ u \in Nat /\ v \in Nat /\ 2 * x <= 7 * y /\ 2 * u <= 7 * v
              BY <2>1, <2>3, <2>4
        <3>2. A[i + 1] = x + u /\ B[i + 1] = y + v
              BY <2>2
        <3> HIDE DEF x, y, u, v
        <3>q. QED BY <3>1, <3>2
    <2>q. QED BY <1>0, <2>1, <2>5
<1>3. \A i \in 0 .. N : i \in T
    <2> HIDE DEF T
    <2>q. QED BY <1>0, <1>1, <1>2, Rounds, Zenon
<1>q. QED BY <1>0, <1>3, <1>a

-----------------------------------------------------------------------------
(* Sizes of lists of TLVs *)

\* What f counts for each TLV of a list.
Lengths(f, list) == [i \in DOMAIN list |-> f[list[i]]]

\* The bytes of a TLV, and the bytes a buffer may have to grow by for it: a
\* value of more than a block may be given up to a block too much.
Bytes == [tlv \in TLV |-> 4 + tlv.length]
Growth == [tlv \in TLV |-> 4 + tlv.length + (IF tlv.length < 256 THEN 0 ELSE 255)]

Size(list) == naf_tlv_getrenderedsize(list)
Cost(list) == Total(Lengths(Growth, list))

\* The fields of a TLV.
LEMMA TlvFields ==
    ASSUME NEW tlv \in TLV
    PROVE  /\ tlv.type \in Types /\ tlv.length \in Nat
           /\ tlv.sections \in Seq(Section)
BY DEF TLV

\* Bytes and Growth count in Nat, and Growth is at most twice as much.
LEMMA Counting ==
    /\ Bytes \in [TLV -> Nat] /\ Growth \in [TLV -> Nat]
    /\ \A tlv \in TLV : Growth[tlv] <= 2 * Bytes[tlv] /\ Growth[tlv] <= Bytes[tlv] + 255
<1>1. ASSUME NEW tlv \in TLV
      PROVE  /\ 4 + tlv.length \in Nat
             /\ 4 + tlv.length + (IF tlv.length < 256 THEN 0 ELSE 255) \in Nat
             /\ Growth[tlv] <= 2 * Bytes[tlv] /\ Growth[tlv] <= Bytes[tlv] + 255
    <2>1. tlv.length \in Nat
          BY TlvFields
    <2>q. QED BY <2>1 DEF Bytes, Growth
<1>q. QED BY <1>1 DEF Bytes, Growth

\* What is counted is a sequence of numbers as long as the list.
LEMMA LengthsType ==
    ASSUME NEW f \in [TLV -> Nat], NEW list \in Seq(TLV)
    PROVE  /\ Lengths(f, list) \in Seq(Nat) /\ Len(Lengths(f, list)) = Len(list)
           /\ \A i \in 1 .. Len(list) : Lengths(f, list)[i] = f[list[i]]
<1>1. DOMAIN list = 1 .. Len(list) /\ Len(list) \in Nat
      OBVIOUS
<1>2. \A i \in 1 .. Len(list) : f[list[i]] \in Nat
      OBVIOUS
<1>q. QED BY <1>1, <1>2 DEF Lengths

\* Counting two lists put together.
LEMMA LengthsConcat ==
    ASSUME NEW f \in [TLV -> Nat], NEW l \in Seq(TLV), NEW m \in Seq(TLV)
    PROVE  Total(Lengths(f, l \o m)) = Total(Lengths(f, l)) + Total(Lengths(f, m))
<1> DEFINE a == Lengths(f, l)
           b == Lengths(f, m)
           c == Lengths(f, l \o m)
<1>1. /\ a \in Seq(Nat) /\ Len(a) = Len(l) /\ \A i \in 1 .. Len(l) : a[i] = f[l[i]]
      /\ b \in Seq(Nat) /\ Len(b) = Len(m) /\ \A i \in 1 .. Len(m) : b[i] = f[m[i]]
      BY LengthsType
<1>2. /\ l \o m \in Seq(TLV) /\ Len(l \o m) = Len(l) + Len(m)
      /\ \A i \in 1 .. Len(l) : (l \o m)[i] = l[i]
      /\ \A i \in 1 .. Len(m) : (l \o m)[Len(l) + i] = m[i]
      OBVIOUS
<1>3. c \in Seq(Nat) /\ Len(c) = Len(l) + Len(m) /\ \A i \in 1 .. Len(l \o m) : c[i] = f[(l \o m)[i]]
      BY <1>2, LengthsType
<1> HIDE DEF a, b, c
<1>4. c = a \o b
    <2> DEFINE ab == a \o b
    <2>1. /\ ab \in Seq(Nat) /\ Len(ab) = Len(l) + Len(m)
          /\ \A i \in 1 .. Len(l) : ab[i] = a[i]
          /\ \A i \in 1 .. Len(l) + Len(m) : i > Len(l) => ab[i] = b[i - Len(l)]
        <3>0. a \in Seq(Nat) /\ b \in Seq(Nat)
              BY <1>1
        <3>1. /\ ab \in Seq(Nat) /\ Len(ab) = Len(a) + Len(b)
              /\ \A i \in 1 .. Len(a) : ab[i] = a[i]
              /\ \A i \in 1 .. Len(a) + Len(b) :
                    i > Len(a) => i - Len(a) \in 1 .. Len(b) /\ ab[i] = b[i - Len(a)]
              BY <3>0
        <3> HIDE DEF ab
        <3>2. Len(a) = Len(l) /\ Len(b) = Len(m)
              BY <1>1
        <3>q. QED BY <3>1, <3>2
    <2> HIDE DEF ab
    <2>2. ASSUME NEW i \in 1 .. Len(l) + Len(m) PROVE c[i] = ab[i]
        <3>a. i \in 1 .. Len(l \o m)
              BY <1>2
        <3>b. i \in Nat /\ Len(l) \in Nat
              OBVIOUS
        <3>1. c[i] = f[(l \o m)[i]] /\ i \in Nat /\ Len(l) \in Nat
              BY <1>3, <3>a, <3>b
        <3>2. CASE i <= Len(l)
            <4>1. i \in 1 .. Len(l)
                  BY <3>1, <3>2
            <4>q. QED BY <1>1, <1>2, <2>1, <3>1, <4>1
        <3>3. CASE i > Len(l)
            <4>1. i - Len(l) \in 1 .. Len(m) /\ (l \o m)[i] = m[i - Len(l)]
                  BY <3>3, Joined
            <4>q. QED BY <1>1, <2>1, <3>1, <3>3, <4>1
        <3>q. QED BY <3>1, <3>2, <3>3
    <2>q. QED BY <1>3, <2>1, <2>2, SeqEqual DEF ab
<1>q. QED BY <1>1, <1>4, TotalConcat DEF a, b, c

\* The size of a list counts its bytes.
LEMMA SizeIsTotal ==
    ASSUME NEW list \in Seq(TLV)
    PROVE  Size(list) = Total(Lengths(Bytes, list))
<1>1. \A i \in DOMAIN list : list[i] \in TLV /\ list[i].length \in Nat
      BY TlvFields
<1>2. \A i \in DOMAIN list : 2 + 2 + list[i].length = Bytes[list[i]]
      BY <1>1 DEF Bytes
<1>3. [i \in DOMAIN list |-> 2 + 2 + list[i].length] = Lengths(Bytes, list)
      BY <1>2 DEF Lengths
<1>q. QED BY <1>3 DEF Size, naf_tlv_getrenderedsize

\* Sizes and costs are numbers, 0 for no TLV, those of the TLV for one.
LEMMA SizeType ==
    ASSUME NEW list \in Seq(TLV)
    PROVE  /\ Size(list) \in Nat /\ Cost(list) \in Nat
           /\ list = <<>> => Size(list) = 0 /\ Cost(list) = 0
<1>1. list = <<>> => Len(list) = 0
      OBVIOUS
<1>2. /\ Lengths(Bytes, list) \in Seq(Nat) /\ Len(Lengths(Bytes, list)) = Len(list)
      /\ Lengths(Growth, list) \in Seq(Nat) /\ Len(Lengths(Growth, list)) = Len(list)
      BY LengthsType, Counting
<1>3. Size(list) = Total(Lengths(Bytes, list)) /\ Cost(list) = Total(Lengths(Growth, list))
      BY SizeIsTotal DEF Cost
<1>q. QED BY <1>1, <1>2, <1>3, TotalType

LEMMA SizeOne ==
    ASSUME NEW tlv \in TLV
    PROVE  Size(<<tlv>>) = 4 + tlv.length /\ Cost(<<tlv>>) = Growth[tlv]
<1> DEFINE l == <<tlv>>
<1>1. l \in Seq(TLV) /\ Len(l) = 1 /\ l[1] = tlv
      OBVIOUS
<1> HIDE DEF l
<1>2. ASSUME NEW f \in [TLV -> Nat] PROVE Total(Lengths(f, l)) = f[tlv]
    <2> DEFINE a == Lengths(f, l)
               e == <<>>
    <2>1. a \in Seq(Nat) /\ Len(a) = 1 /\ a[1] = f[tlv]
          BY <1>1, LengthsType
    <2>2. e \in Seq(Nat) /\ Len(e) = 0
          OBVIOUS
    <2> HIDE DEF a, e
    <2>3. f[tlv] \in Nat /\ Len(a) = Len(e) + 1 /\ a[Len(a)] = f[tlv]
          /\ \A i \in 1 .. Len(e) : e[i] = a[i]
          BY <2>1, <2>2
    <2>4. Total(a) = Total(e) + f[tlv] /\ Total(e) = 0
          BY <2>1, <2>2, <2>3, TotalAppend, TotalType
    <2>q. QED BY <2>3, <2>4 DEF a
<1>3. Size(l) = Bytes[tlv] /\ Cost(l) = Growth[tlv]
      BY <1>1, <1>2, Counting, SizeIsTotal DEF Cost
<1>q. QED BY <1>3 DEF l, Bytes

\* Sizes and costs of two lists put together.
LEMMA SizeConcat ==
    ASSUME NEW l \in Seq(TLV), NEW m \in Seq(TLV)
    PROVE  Size(l \o m) = Size(l) + Size(m) /\ Cost(l \o m) = Cost(l) + Cost(m)
<1>1. l \o m \in Seq(TLV)
      OBVIOUS
<1>q. QED BY <1>1, LengthsConcat, Counting, SizeIsTotal DEF Cost

\* A buffer never grows by more than twice what is put.
LEMMA CostTwice ==
    ASSUME NEW list \in Seq(TLV)
    PROVE  Cost(list) <= 2 * Size(list)
<1> DEFINE a == Lengths(Growth, list)
           b == Lengths(Bytes, list)
<1>1. /\ a \in Seq(Nat) /\ Len(a) = Len(list) /\ \A i \in 1 .. Len(list) : a[i] = Growth[list[i]]
      /\ b \in Seq(Nat) /\ Len(b) = Len(list) /\ \A i \in 1 .. Len(list) : b[i] = Bytes[list[i]]
      BY LengthsType, Counting
<1>2. \A i \in 1 .. Len(list) : list[i] \in TLV
      OBVIOUS
<1> HIDE DEF a, b
<1>3. \A i \in 1 .. Len(a) : a[i] <= 2 * b[i]
      BY <1>1, <1>2, Counting
<1>4. Total(a) <= 2 * Total(b)
      BY <1>1, <1>3, TotalTwice
<1>q. QED BY <1>4, SizeIsTotal DEF a, b, Cost

-----------------------------------------------------------------------------
(* A buffer that grows *)

\* The buffer can take puts that it need not grow by more than r for.
Room(sb, r) ==
    /\ sb \in Sbuf /\ sb.autoresize /\ sb.pos <= sb.buflen
    /\ sb.pos + 512 + r <= NAF_SBUF_DEFAULT_MAXBUFLEN
    /\ sb.buflen + r <= NAF_SBUF_DEFAULT_MAXBUFLEN

\* The fields of a buffer.
LEMMA SbufFields ==
    ASSUME NEW sb \in Sbuf
    PROVE  sb.buflen \in Nat /\ sb.pos \in Nat /\ sb.buflen < U16 /\ sb.pos < U16
<1>1. U16 \in Nat
      BY DEF U16
<1>2. sb.buflen \in 0 .. U16 - 1 /\ sb.pos \in 0 .. U16 - 1
      BY DEF Sbuf
<1>q. QED BY <1>1, <1>2

\* Another length and position.
LEMMA SbufExcept ==
    ASSUME NEW sb \in Sbuf, NEW len, NEW pos
    PROVE  [sb EXCEPT !.buflen = len, !.pos = pos]
               = [buflen |-> len, pos |-> pos, autoresize |-> sb.autoresize]
<1> DEFINE auto == sb.autoresize
           t == [sb EXCEPT !.buflen = len]
<1>1. sb = [buflen |-> sb.buflen, pos |-> sb.pos, autoresize |-> auto]
      BY DEF Sbuf
<1> HIDE DEF auto
<1>2. t = [buflen |-> len, pos |-> sb.pos, autoresize |-> auto]
      BY <1>1
<1>3. [sb EXCEPT !.buflen = len, !.pos = pos] = [t EXCEPT !.pos = pos]
      OBVIOUS
<1> HIDE DEF t
<1>4. [t EXCEPT !.pos = pos] = [buflen |-> len, pos |-> pos, autoresize |-> auto]
      BY <1>2
<1>q. QED BY <1>3, <1>4 DEF auto

\* A buffer from its fields.
LEMMA SbufMade ==
    ASSUME NEW len \in Nat, NEW pos \in Nat, NEW auto \in BOOLEAN, len < U16, pos < U16
    PROVE  [buflen |-> len, pos |-> pos, autoresize |-> auto] \in Sbuf
<1>1. U16 \in Nat
      BY DEF U16
<1>2. len \in 0 .. U16 - 1 /\ pos \in 0 .. U16 - 1
      BY <1>1
<1>q. QED BY <1>2 DEF Sbuf

\* What a put of n bytes may cost.
CostOfPut(n) == n + (IF n < 256 THEN 0 ELSE 255)

\* A put that there is room for moves the position and leaves the rest of the
\* room: less than a block of the new buffer is unused if it had to grow by
\* one, and less than a block more is added than the bytes put if by several.
LEMMA PutFits ==
    ASSUME NEW sb, NEW r \in Nat, NEW n \in Nat, Room(sb, r + CostOfPut(n))
    PROVE  naf_sbuf_put(sb, n).pos = sb.pos + n /\ Room(naf_sbuf_put(sb, n), r)
<1> DEFINE len == sb.buflen
           pos == sb.pos
           c == CostOfPut(n)
           e == ((n + 255) \div 256) * 256
<1>0. U16 = 65536 /\ NAF_SBUF_DEFAULT_MAXBUFLEN = 32768 /\ NAF_SBUF_DEFAULT_BLOCKSIZE = 256
      BY DEF U16, NAF_SBUF_DEFAULT_MAXBUFLEN, NAF_SBUF_DEFAULT_BLOCKSIZE
<1>a. sb \in Sbuf /\ sb.autoresize = TRUE
      BY DEF Room, Sbuf
<1>1. /\ len \in Nat /\ pos \in Nat /\ pos <= len
      /\ c \in Nat /\ pos + 512 + (r + c) <= 32768 /\ len + (r + c) <= 32768
    <2>1. len \in Nat /\ pos \in Nat
          BY <1>a, SbufFields
    <2>2. c \in Nat
          BY DEF CostOfPut
    <2>3. pos <= len /\ pos + 512 + (r + c) <= 32768 /\ len + (r + c) <= 32768
          BY <1>0 DEF Room
    <2>q. QED BY <2>1, <2>2, <2>3
<1>b. ASSUME NEW x, NEW y
      PROVE  [sb EXCEPT !.buflen = x, !.pos = y] = [buflen |-> x, pos |-> y, autoresize |-> TRUE]
    <2>1. [sb EXCEPT !.buflen = x, !.pos = y]
              = [buflen |-> x, pos |-> y, autoresize |-> sb.autoresize]
          BY <1>a, SbufExcept
    <2>q. QED BY <1>a, <2>1
<1>2. /\ n <= c /\ (n >= 256 => c = n + 255)
      BY DEF CostOfPut
<1>3. e \in Nat /\ n <= e /\ e <= n + 255 /\ (n < 256 => e <= 256)
      OBVIOUS
<1>4. n % U16 = n /\ (pos + n) % U16 = pos + n
    <2> HIDE DEF c, pos, len
    <2>q. QED BY <1>0, <1>1, <1>2
<1>5. Extended(sb, n) = (len + e) % 65536
      BY <1>0 DEF Extended
<1> HIDE DEF e, c
<1>6. ASSUME NEW x \in Nat, NEW y \in Nat, x + r <= 32768, y + 512 + r <= 32768, y <= x
      PROVE  Room([buflen |-> x, pos |-> y, autoresize |-> TRUE], r)
    <2>1. x < U16 /\ y < U16
          BY <1>0, <1>6
    <2>2. [buflen |-> x, pos |-> y, autoresize |-> TRUE] \in Sbuf
          BY <2>1, SbufMade
    <2>q. QED BY <1>0, <1>6, <2>2 DEF Room
<1>7. CASE len - pos >= n
    <2>1. naf_sbuf_put(sb, n) = [sb EXCEPT !.buflen = len, !.pos = pos + n]
          BY <1>4, <1>7 DEF naf_sbuf_put, naf_sbuf_bytesremaining
    <2>2. naf_sbuf_put(sb, n) = [buflen |-> len, pos |-> pos + n, autoresize |-> TRUE]
          BY <1>b, <2>1
    <2> HIDE DEF len, pos
    <2>3. pos + n \in Nat /\ pos + n <= len /\ pos + n + 512 + r <= 32768 /\ len + r <= 32768
          BY <1>1, <1>2, <1>7
    <2>q. QED BY <1>1, <1>6, <2>2, <2>3 DEF pos
<1>8. CASE ~(len - pos >= n)
    <2>1. /\ (len + e) % 65536 = len + e /\ len + e <= 32768
          /\ pos + n <= len + e /\ len + e + r <= 32768 /\ pos + n + 512 + r <= 32768
        <3> HIDE DEF len, pos
        <3>1. CASE n < 256
              BY <1>1, <1>2, <1>3, <1>8, <3>1
        <3>2. CASE n >= 256
              BY <1>1, <1>2, <1>3, <1>8, <3>2
        <3>q. QED BY <3>1, <3>2
    <2>2. MayExtend(sb, n)
          BY <1>0, <1>a, <1>5, <2>1 DEF MayExtend
    <2>3. Extended(sb, n) = len + e
          BY <1>5, <2>1
    <2>4. naf_sbuf_put(sb, n) = [sb EXCEPT !.buflen = len + e, !.pos = pos + n]
        <3> HIDE DEF e
        <3>q. QED BY <1>4, <1>8, <2>2, <2>3 DEF naf_sbuf_put, naf_sbuf_bytesremaining
    <2>5. naf_sbuf_put(sb, n) = [buflen |-> len + e, pos |-> pos + n, autoresize |-> TRUE]
          BY <1>b, <2>4
    <2> HIDE DEF len, pos
    <2>6. len + e \in Nat /\ pos + n \in Nat
          BY <1>1, <1>3
    <2>q. QED BY <1>6, <2>1, <2>5, <2>6 DEF pos
<1>q. QED BY <1>7, <1>8

\* A round of naf_tlv_render that there is room for.
LEMMA RenderFits ==
    ASSUME NEW sb, NEW r \in Nat, NEW tlv \in TLV, Room(sb, r + Growth[tlv])
    PROVE  RenderOne(tlv, sb).pos = sb.pos + 4 + tlv.length /\ Room(RenderOne(tlv, sb), r)
<1> DEFINE n == tlv.length
           a == naf_sbuf_put(sb, 2)
           b == naf_sbuf_put(a, 2)
           c == naf_sbuf_put(b, n)
<1>1. n \in Nat
      BY TlvFields
<1>2. Growth[tlv] = 2 + (2 + CostOfPut(n)) /\ CostOfPut(n) \in Nat
      BY <1>1 DEF Growth, CostOfPut
<1>3. CostOfPut(2) = 2
      BY DEF CostOfPut
<1> HIDE DEF n, a, b, c
<1>4. a.pos = sb.pos + 2 /\ Room(a, r + CostOfPut(n) + 2)
    <2> DEFINE r1 == r + CostOfPut(n) + 2
    <2>1. r1 \in Nat /\ r + Growth[tlv] = r1 + CostOfPut(2)
          BY <1>2, <1>3
    <2> HIDE DEF r1
    <2>q. QED BY <2>1, PutFits DEF a, r1
<1>5. b.pos = a.pos + 2 /\ Room(b, r + CostOfPut(n))
    <2> DEFINE r1 == r + CostOfPut(n)
    <2>1. r1 \in Nat /\ r + CostOfPut(n) + 2 = r1 + CostOfPut(2)
          BY <1>2, <1>3
    <2> HIDE DEF r1
    <2>q. QED BY <1>4, <2>1, PutFits DEF b, r1
<1>6. c.pos = b.pos + n /\ Room(c, r)
      BY <1>1, <1>5, PutFits DEF c
<1>7. RenderOne(tlv, sb) = c
      BY DEF RenderOne, naf_sbuf_putraw, a, b, c, n
<1>8. sb.pos \in Nat
      BY SbufFields DEF Room
<1>q. QED BY <1>1, <1>4, <1>5, <1>6, <1>7, <1>8 DEF n

-----------------------------------------------------------------------------
(* Pieces of lists *)

\* The first k elements of a sequence and the others.
LEMMA Pieces ==
    ASSUME NEW S, NEW l \in Seq(S), NEW k \in 0 .. Len(l)
    PROVE  /\ SubSeq(l, 1, k) \in Seq(S) /\ Len(SubSeq(l, 1, k)) = k
           /\ \A i \in 1 .. k : SubSeq(l, 1, k)[i] = l[i]
           /\ SubSeq(l, k + 1, Len(l)) \in Seq(S) /\ Len(SubSeq(l, k + 1, Len(l))) = Len(l) - k
           /\ \A i \in 1 .. Len(l) - k : SubSeq(l, k + 1, Len(l))[i] = l[k + i]
<1>1. k \in Int /\ Len(l) \in Nat /\ 0 <= k /\ k <= Len(l)
      OBVIOUS
<1>2. \A i \in 1 .. k : l[i] \in S
      OBVIOUS
<1>3. \A i \in 1 .. Len(l) - k : l[k + i] \in S
      OBVIOUS
<1>q. QED BY <1>1, <1>2, <1>3

\* Put together they are the sequence.
LEMMA PiecesJoined ==
    ASSUME NEW S, NEW l \in Seq(S), NEW k \in 0 .. Len(l)
    PROVE  SubSeq(l, 1, k) \o SubSeq(l, k + 1, Len(l)) = l
<1> DEFINE a == SubSeq(l, 1, k)
           b == SubSeq(l, k + 1, Len(l))
           c == a \o b
<1>1. /\ a \in Seq(S) /\ Len(a) = k /\ \A i \in 1 .. k : a[i] = l[i]
      /\ b \in Seq(S) /\ Len(b) = Len(l) - k /\ \A i \in 1 .. Len(l) - k : b[i] = l[k + i]
      BY Pieces
<1>2. k \in Int /\ Len(l) \in Nat /\ 0 <= k /\ k <= Len(l)
      OBVIOUS
<1> HIDE DEF a, b
<1>3. a \in Seq(S) /\ b \in Seq(S)
      BY <1>1
<1>4. /\ c \in Seq(S) /\ Len(c) = Len(a) + Len(b)
      /\ \A i \in 1 .. Len(a) : c[i] = a[i]
      /\ \A i \in 1 .. Len(a) + Len(b) :
            i > Len(a) => i - Len(a) \in 1 .. Len(b) /\ c[i] = b[i - Len(a)]
      BY <1>3
<1> HIDE DEF c
<1>5. Len(c) = Len(l)
      BY <1>1, <1>2, <1>4
<1>6. ASSUME NEW i \in 1 .. Len(l) PROVE c[i] = l[i]
    <2>1. CASE i <= k
        <3>1. i \in 1 .. k
              BY <1>2, <2>1
        <3>q. QED BY <1>1, <1>4, <3>1
    <2>2. CASE i > k
        <3>1. i - k \in 1 .. Len(l) - k /\ k + (i - k) = i
              BY <1>2, <2>2
        <3>2. c[i] = b[i - k]
              BY <1>1, <1>2, <1>4, <1>5, <2>2
        <3>3. b[i - k] = l[k + (i - k)]
              BY <1>1, <3>1
        <3>q. QED BY <3>1, <3>2, <3>3
    <2>q. QED BY <1>2, <2>1, <2>2
<1>7. c = l
      BY <1>4, <1>5, <1>6, SeqEqual
<1>q. QED BY <1>7 DEF c, a, b

\* One more element.
LEMMA PieceGrows ==
    ASSUME NEW S, NEW l \in Seq(S), NEW k \in 0 .. Len(l), k < Len(l)
    PROVE  SubSeq(l, 1, k + 1) = Append(SubSeq(l, 1, k), l[k + 1])
<1> DEFINE a == SubSeq(l, 1, k)
           b == SubSeq(l, 1, k + 1)
<1>1. a \in Seq(S) /\ Len(a) = k /\ \A i \in 1 .. k : a[i] = l[i]
      BY Pieces
<1>2. k + 1 \in 0 .. Len(l) /\ k \in Nat /\ l[k + 1] \in S
      OBVIOUS
<1>3. b \in Seq(S) /\ Len(b) = k + 1 /\ \A i \in 1 .. k + 1 : b[i] = l[i]
      BY <1>2, Pieces
<1> HIDE DEF a, b
<1> DEFINE x == l[k + 1]
           c == Append(a, x)
<1>4. x \in S
      BY <1>2
<1> HIDE DEF x
<1>5. c \in Seq(S) /\ Len(c) = Len(a) + 1 /\ c[Len(a) + 1] = x /\ \A i \in 1 .. Len(a) : c[i] = a[i]
      BY <1>1, <1>4
<1> HIDE DEF c
<1>6. Len(b) = Len(c) /\ \A i \in 1 .. Len(b) : b[i] = c[i]
    <2>1. ASSUME NEW i \in 1 .. k + 1 PROVE b[i] = c[i]
        <3>1. i = k + 1 \/ i \in 1 .. k
              BY <1>2
        <3>q. QED BY <1>1, <1>3, <1>5, <3>1 DEF x
    <2>q. QED BY <1>1, <1>3, <1>5, <2>1
<1>7. b = c
      BY <1>3, <1>5, <1>6, SeqEqual
<1>q. QED BY <1>7 DEF a, b, c, x

\* All of a sequence, and nothing of it.
LEMMA PieceWhole ==
    ASSUME NEW S, NEW l \in Seq(S)
    PROVE  /\ SubSeq(l, 1, Len(l)) = l /\ SubSeq(l, 1, 0) = <<>>
           /\ \A n \in Nat : n >= Len(l) => SubSeq(l, n + 1, Len(l)) = <<>>
           /\ l \o <<>> = l /\ <<>> \o l = l
OBVIOUS

\* What is before and behind the first n elements.
LEMMA FirstRest ==
    ASSUME NEW S, NEW l \in Seq(S), NEW n \in Nat
    PROVE  /\ First(n, l) \in Seq(S) /\ Rest(n, l) \in Seq(S)
           /\ First(n, l) \o Rest(n, l) = l
<1>1. CASE n < Len(l)
    <2>1. First(n, l) = SubSeq(l, 1, n) /\ n \in 0 .. Len(l)
          BY <1>1 DEF First
    <2>2. SubSeq(l, 1, n) \in Seq(S) /\ SubSeq(l, n + 1, Len(l)) \in Seq(S)
          BY <2>1, Pieces
    <2>3. SubSeq(l, 1, n) \o SubSeq(l, n + 1, Len(l)) = l
          BY <2>1, PiecesJoined
    <2>4. Rest(n, l) = SubSeq(l, n + 1, Len(l))
          BY DEF Rest
    <2>q. QED BY <2>1, <2>2, <2>3, <2>4, Zenon
<1>2. CASE ~(n < Len(l))
    <2>1. n >= Len(l)
          BY <1>2
    <2>2. First(n, l) = l
          BY <1>2, PieceWhole DEF First
    <2>3. Rest(n, l) = <<>>
          BY <2>1, PieceWhole DEF Rest
    <2>4. <<>> \in Seq(S)
          OBVIOUS
    <2>q. QED BY <2>2, <2>3, <2>4, PieceWhole
<1>q. QED BY <1>1, <1>2

-----------------------------------------------------------------------------
(* Taking TLVs out of a list *)

\* i is where l has its first TLV of a type.
IsFirst(l, type, i) ==
    /\ i \in 1 .. Len(l) /\ l[i].type = type
    /\ \A j \in 1 .. i - 1 : l[j].type # type

\* FirstOf finds it.
LEMMA FirstOfIsFirst ==
    ASSUME NEW l \in Seq(TLV), NEW type
    PROVE  /\ Typed(l, type) # {} => IsFirst(l, type, FirstOf(l, type))
           /\ \A i : IsFirst(l, type, i) => FirstOf(l, type) = i /\ Typed(l, type) # {}
<1> DEFINE T == Typed(l, type)
           P(i) == i \in T /\ \A j \in T : i <= j
<1>1. T \subseteq 1 .. Len(l) /\ Len(l) \in Nat /\ \A i \in 1 .. Len(l) : i \in T <=> l[i].type = type
      BY DEF Typed
<1>2. FirstOf(l, type) = CHOOSE i \in T : \A j \in T : i <= j
      BY DEF FirstOf
<1> HIDE DEF T
<1>3. ASSUME NEW i PROVE P(i) <=> IsFirst(l, type, i)
    <2>1. ASSUME P(i) PROVE IsFirst(l, type, i)
        <3>1. i \in 1 .. Len(l) /\ l[i].type = type
              BY <1>1, <2>1
        <3>2. ASSUME NEW j \in 1 .. i - 1 PROVE l[j].type # type
            <4>1. j \in 1 .. Len(l) /\ ~(i <= j)
                  BY <1>1, <3>1
            <4>q. QED BY <1>1, <2>1, <4>1
        <3>q. QED BY <3>1, <3>2 DEF IsFirst
    <2>2. ASSUME IsFirst(l, type, i) PROVE P(i)
        <3>1. i \in T
              BY <1>1, <2>2 DEF IsFirst
        <3>2. ASSUME NEW j \in T PROVE i <= j
            <4>1. j \in 1 .. Len(l) /\ i \in 1 .. Len(l) /\ l[j].type = type
                  BY <1>1, <3>1
            <4>2. CASE j < i
                <5>1. j \in 1 .. i - 1
                      BY <4>1, <4>2
                <5>q. QED BY <2>2, <4>1, <5>1 DEF IsFirst
            <4>q. QED BY <4>1, <4>2
        <3>q. QED BY <3>1, <3>2
    <2>q. QED BY <2>1, <2>2
<1>4. ASSUME T # {} PROVE P(FirstOf(l, type))
    <2>1. T \subseteq Nat
          BY <1>1
    <2>2. \E i \in T : \A j \in T : i <= j
          BY <1>4, <2>1, LeastNatural
    <2>q. QED BY <1>2, <2>2, Zenon
<1>5. ASSUME NEW i, P(i) PROVE FirstOf(l, type) = i /\ T # {}
    <2>1. P(FirstOf(l, type))
          BY <1>4, <1>5
    <2>2. i \in Int /\ FirstOf(l, type) \in Int
        <3>1. \A x \in T : x \in Int
              BY <1>1
        <3>2. i \in T /\ FirstOf(l, type) \in T
              BY <1>5, <2>1
        <3>q. QED BY <3>1, <3>2, Zenon
    <2>3. i <= FirstOf(l, type) /\ FirstOf(l, type) <= i
          BY <1>5, <2>1
    <2>q. QED BY <1>5, <2>2, <2>3
<1> HIDE DEF P
<1>q. QED BY <1>3, <1>4, <1>5 DEF T

\* A list without its element i.
Without(l, i) == SubSeq(l, 1, i - 1) \o SubSeq(l, i + 1, Len(l))

LEMMA WithoutIs ==
    ASSUME NEW l \in Seq(TLV), NEW i \in 1 .. Len(l)
    PROVE  /\ Without(l, i) \in Seq(TLV) /\ Len(Without(l, i)) = Len(l) - 1
           /\ \A j \in 1 .. Len(l) - 1 : Without(l, i)[j] = IF j < i THEN l[j] ELSE l[j + 1]
           /\ Size(l) = Size(Without(l, i)) + 4 + l[i].length
<1> DEFINE a == SubSeq(l, 1, i - 1)
           b == SubSeq(l, i + 1, Len(l))
           c == SubSeq(l, 1, i)
           w == a \o b
<1>0. i - 1 \in 0 .. Len(l) /\ i \in 0 .. Len(l) /\ i - 1 < Len(l) /\ i - 1 + 1 = i /\ l[i] \in TLV
      OBVIOUS
<1>i. i \in Nat /\ Len(l) \in Nat /\ 1 <= i /\ i <= Len(l)
      OBVIOUS
<1>1. /\ a \in Seq(TLV) /\ Len(a) = i - 1 /\ \A j \in 1 .. i - 1 : a[j] = l[j]
      /\ b \in Seq(TLV) /\ Len(b) = Len(l) - i /\ \A j \in 1 .. Len(l) - i : b[j] = l[i + j]
      /\ c \in Seq(TLV)
      BY <1>0, Pieces
<1>2. c = Append(a, l[i])
    <2>1. SubSeq(l, 1, i - 1 + 1) = Append(SubSeq(l, 1, i - 1), l[i - 1 + 1])
          BY <1>0, PieceGrows
    <2>q. QED BY <1>0, <2>1
<1>3. c \o b = l
      BY <1>0, PiecesJoined
<1> HIDE DEF a, b, c
<1>4. Size(l) = Size(c) + Size(b)
      BY <1>1, <1>3, SizeConcat
<1>5. c = a \o <<l[i]>> /\ <<l[i]>> \in Seq(TLV)
      BY <1>0, <1>1, <1>2
<1>6. Size(c) = Size(a) + (4 + l[i].length)
    <2>1. Size(a \o <<l[i]>>) = Size(a) + Size(<<l[i]>>)
          BY <1>1, <1>5, SizeConcat
    <2>2. Size(<<l[i]>>) = 4 + l[i].length
          BY <1>0, SizeOne
    <2>q. QED BY <1>5, <2>1, <2>2
<1>7. Size(w) = Size(a) + Size(b)
      BY <1>1, SizeConcat
<1>8. a \in Seq(TLV) /\ b \in Seq(TLV)
      BY <1>1
<1>9. /\ w \in Seq(TLV) /\ Len(w) = Len(a) + Len(b)
      /\ \A j \in 1 .. Len(a) : w[j] = a[j]
      /\ \A j \in 1 .. Len(a) + Len(b) :
            j > Len(a) => j - Len(a) \in 1 .. Len(b) /\ w[j] = b[j - Len(a)]
      BY <1>8
<1>10. Without(l, i) = w
      BY DEF Without, a, b
<1> HIDE DEF w
<1>11. Len(w) = Len(l) - 1
      BY <1>0, <1>1, <1>9
<1>12. ASSUME NEW j \in 1 .. Len(l) - 1 PROVE w[j] = IF j < i THEN l[j] ELSE l[j + 1]
    <2>1. CASE j < i
        <3>1. j \in 1 .. i - 1
              BY <1>0, <2>1
        <3>q. QED BY <1>1, <1>9, <2>1, <3>1
    <2>2. CASE ~(j < i)
        <3>1. /\ j \in 1 .. Len(a) + Len(b) /\ j > Len(a) /\ j - Len(a) = j - i + 1
              /\ j - i + 1 \in 1 .. Len(l) - i /\ i + (j - i + 1) = j + 1
              BY <1>i, <1>1, <2>2
        <3>2. w[j] = b[j - i + 1]
              BY <1>9, <3>1
        <3>3. b[j - i + 1] = l[i + (j - i + 1)]
              BY <1>1, <3>1
        <3>q. QED BY <2>2, <3>1, <3>2, <3>3
    <2>q. QED BY <2>1, <2>2
<1>13. Size(a) \in Nat /\ Size(b) \in Nat /\ l[i].length \in Nat
      BY <1>0, <1>8, SizeType, TlvFields
<1>14. Size(l) = Size(w) + 4 + l[i].length
      BY <1>4, <1>6, <1>7, <1>13
<1>q. QED BY <1>9, <1>10, <1>11, <1>12, <1>14

\* naf_tlv_remove takes out the first TLV of the type, if there is one.
LEMMA RemoveIs ==
    ASSUME NEW l \in Seq(TLV), NEW type
    PROVE  /\ Typed(l, type) = {} => naf_tlv_remove(l, type) = l
           /\ \A i : IsFirst(l, type, i) => naf_tlv_remove(l, type) = Without(l, i)
<1>1. Typed(l, type) = {} => naf_tlv_remove(l, type) = l
      BY DEF naf_tlv_remove
<1>2. ASSUME NEW i, IsFirst(l, type, i) PROVE naf_tlv_remove(l, type) = Without(l, i)
    <2>1. Typed(l, type) # {} /\ FirstOf(l, type) = i
          BY <1>2, FirstOfIsFirst
    <2>q. QED BY <2>1 DEF naf_tlv_remove, RemoveAt, Without
<1>q. QED BY <1>1, <1>2

\* A list that has a TLV of a type has a first one.
LEMMA TypedHasFirst ==
    ASSUME NEW l \in Seq(TLV), NEW type
    PROVE  Typed(l, type) # {} <=> \E i : IsFirst(l, type, i)
BY FirstOfIsFirst

\* What is left is a list.
LEMMA RemoveType ==
    ASSUME NEW l \in Seq(TLV), NEW type
    PROVE  naf_tlv_remove(l, type) \in Seq(TLV)
<1>1. ASSUME NEW i, IsFirst(l, type, i) PROVE naf_tlv_remove(l, type) \in Seq(TLV)
    <2>1. i \in 1 .. Len(l)
          BY <1>1 DEF IsFirst
    <2>q. QED BY <1>1, <2>1, RemoveIs, WithoutIs
<1>q. QED BY <1>1, RemoveIs, TypedHasFirst

\* The other types are not touched.
LEMMA RemoveKeeps ==
    ASSUME NEW l \in Seq(TLV), NEW type, NEW other, other # type
    PROVE  Typed(naf_tlv_remove(l, type), other) = {} <=> Typed(l, other) = {}
<1> DEFINE r == naf_tlv_remove(l, type)
<1>1. CASE Typed(l, type) = {}
      BY <1>1, RemoveIs
<1>2. CASE Typed(l, type) # {}
    <2>1. PICK i : IsFirst(l, type, i)
          BY <1>2, TypedHasFirst
    <2>2. i \in 1 .. Len(l) /\ l[i].type = type /\ Len(l) \in Nat
          BY <2>1 DEF IsFirst
    <2>3. r = Without(l, i)
          BY <2>1, RemoveIs
    <2>4. /\ r \in Seq(TLV) /\ Len(r) = Len(l) - 1
          /\ \A j \in 1 .. Len(l) - 1 : r[j] = IF j < i THEN l[j] ELSE l[j + 1]
          BY <2>2, <2>3, WithoutIs
    <2> HIDE DEF r
    <2>5. \A s \in Seq(TLV) : Typed(s, other) = {} <=> \A j \in 1 .. Len(s) : s[j].type # other
          BY DEF Typed
    <2>6. ASSUME NEW j \in 1 .. Len(l), l[j].type = other
          PROVE  \E k \in 1 .. Len(r) : r[k].type = other
        <3>1. j # i
              BY <2>2, <2>6
        <3>2. CASE j < i
            <4>1. j \in 1 .. Len(l) - 1
                  BY <2>2, <3>2
            <4>q. QED BY <2>4, <2>6, <3>2, <4>1
        <3>3. CASE j > i
            <4>1. j - 1 \in 1 .. Len(l) - 1 /\ ~(j - 1 < i) /\ j - 1 + 1 = j
                  BY <2>2, <3>3
            <4>2. r[j - 1] = l[j]
                  BY <2>4, <4>1
            <4>q. QED BY <2>4, <2>6, <4>1, <4>2
        <3>q. QED BY <2>2, <3>1, <3>2, <3>3
    <2>7. ASSUME NEW k \in 1 .. Len(r), r[k].type = other
          PROVE  \E j \in 1 .. Len(l) : l[j].type = other
        <3>1. k \in 1 .. Len(l) - 1 /\ k \in 1 .. Len(l) /\ k + 1 \in 1 .. Len(l)
              BY <2>2, <2>4
        <3>2. r[k] = l[k] \/ r[k] = l[k + 1]
              BY <2>4, <3>1
        <3>q. QED BY <2>7, <3>1, <3>2
    <2>q. QED BY <2>4, <2>5, <2>6, <2>7 DEF r
<1>q. QED BY <1>1, <1>2

\* One more TLV at the end.
LEMMA AppendIs ==
    ASSUME NEW l \in Seq(TLV), NEW t \in TLV
    PROVE  /\ Append(l, t) \in Seq(TLV) /\ Len(Append(l, t)) = Len(l) + 1
           /\ Append(l, t)[Len(l) + 1] = t
           /\ \A j \in 1 .. Len(l) : Append(l, t)[j] = l[j]
OBVIOUS

\* Taking a TLV out of a list that has one more at the end.
LEMMA RemoveAppend ==
    ASSUME NEW l \in Seq(TLV), NEW t \in TLV, NEW type
    PROVE  naf_tlv_remove(Append(l, t), type)
               = IF t.type = type /\ Typed(l, type) = {}
                 THEN naf_tlv_remove(l, type)
                 ELSE Append(naf_tlv_remove(l, type), t)
<1> DEFINE m == Append(l, t)
           n == Len(l)
<1>1. m \in Seq(TLV) /\ Len(m) = n + 1 /\ m[n + 1] = t /\ (\A j \in 1 .. n : m[j] = l[j]) /\ n \in Nat
      BY AppendIs
<1> HIDE DEF m
<1>2. CASE Typed(l, type) # {}
    <2>1. PICK i : IsFirst(l, type, i)
          BY <1>2, TypedHasFirst
    <2>2. i \in 1 .. n /\ l[i].type = type /\ \A j \in 1 .. i - 1 : l[j].type # type
          BY <2>1 DEF IsFirst
    <2> DEFINE v == Without(l, i)
               w == Without(m, i)
               x == Append(v, t)
    <2>3. i \in 1 .. n + 1 /\ m[i].type = type /\ \A j \in 1 .. i - 1 : m[j].type # type
          BY <1>1, <2>2
    <2>4. IsFirst(m, type, i)
          BY <1>1, <2>3 DEF IsFirst
    <2>5. /\ v \in Seq(TLV) /\ Len(v) = n - 1
          /\ \A j \in 1 .. n - 1 : v[j] = IF j < i THEN l[j] ELSE l[j + 1]
          BY <2>2, WithoutIs
    <2>6. /\ w \in Seq(TLV) /\ Len(w) = n + 1 - 1
          /\ \A j \in 1 .. n + 1 - 1 : w[j] = IF j < i THEN m[j] ELSE m[j + 1]
        <3>1. i \in 1 .. Len(m)
              BY <1>1, <2>3
        <3>2. /\ w \in Seq(TLV) /\ Len(w) = Len(m) - 1
              /\ \A j \in 1 .. Len(m) - 1 : w[j] = IF j < i THEN m[j] ELSE m[j + 1]
              BY <1>1, <3>1, WithoutIs
        <3> HIDE DEF w
        <3>q. QED BY <1>1, <3>2
    <2> HIDE DEF v, w
    <2>7. /\ x \in Seq(TLV) /\ Len(x) = Len(v) + 1 /\ x[Len(v) + 1] = t
          /\ \A j \in 1 .. Len(v) : x[j] = v[j]
          BY <2>5, AppendIs
    <2> HIDE DEF x, n
    <2>8. ASSUME NEW j \in 1 .. n PROVE w[j] = x[j]
        <3>1. CASE j = n
            <4>1. w[j] = m[n + 1]
                  BY <1>1, <2>2, <2>6, <3>1
            <4>2. x[j] = t
                  BY <1>1, <2>5, <2>7, <3>1
            <4>q. QED BY <1>1, <4>1, <4>2
        <3>2. CASE j # n
            <4>1. j \in 1 .. n - 1 /\ j + 1 \in 1 .. n /\ j \in 1 .. n + 1 - 1
                  BY <1>1, <3>2
            <4>2. x[j] = IF j < i THEN l[j] ELSE l[j + 1]
                  BY <2>5, <2>7, <4>1
            <4>3. w[j] = IF j < i THEN m[j] ELSE m[j + 1]
                  BY <2>6, <4>1
            <4>q. QED BY <1>1, <4>1, <4>2, <4>3
        <3>q. QED BY <3>1, <3>2
    <2>9. Len(w) = n /\ Len(x) = n
          BY <1>1, <2>5, <2>6, <2>7
    <2>10. w = x
          BY <2>6, <2>7, <2>8, <2>9, SeqEqual
    <2>11. naf_tlv_remove(m, type) = w /\ naf_tlv_remove(l, type) = v
          BY <1>1, <2>1, <2>4, RemoveIs DEF v, w
    <2>q. QED BY <1>2, <2>10, <2>11 DEF m, x
<1>3. CASE Typed(l, type) = {} /\ t.type = type
    <2>1. \A j \in 1 .. n : l[j].type # type
          BY <1>3 DEF Typed
    <2>2. IsFirst(m, type, n + 1) /\ n + 1 \in 1 .. n + 1
          BY <1>1, <1>3, <2>1 DEF IsFirst
    <2> DEFINE w == Without(m, n + 1)
    <2>3. /\ w \in Seq(TLV) /\ Len(w) = n + 1 - 1
          /\ \A j \in 1 .. n + 1 - 1 : w[j] = IF j < n + 1 THEN m[j] ELSE m[j + 1]
        <3>1. n + 1 \in 1 .. Len(m)
              BY <1>1, <2>2
        <3>2. /\ w \in Seq(TLV) /\ Len(w) = Len(m) - 1
              /\ \A j \in 1 .. Len(m) - 1 : w[j] = IF j < n + 1 THEN m[j] ELSE m[j + 1]
              BY <1>1, <3>1, WithoutIs
        <3> HIDE DEF w
        <3>q. QED BY <1>1, <3>2
    <2> HIDE DEF w
    <2>4. Len(w) = n /\ \A j \in 1 .. n : w[j] = l[j]
          BY <1>1, <2>3
    <2>5. w = l
          BY <2>3, <2>4, SeqEqual
    <2>6. naf_tlv_remove(m, type) = w /\ naf_tlv_remove(l, type) = l
          BY <1>1, <1>3, <2>2, RemoveIs DEF w
    <2>q. QED BY <1>3, <2>5, <2>6 DEF m
<1>4. CASE Typed(l, type) = {} /\ t.type # type
    <2>1. \A j \in 1 .. n : l[j].type # type
          BY <1>4 DEF Typed
    <2>2. \A j \in 1 .. n + 1 : m[j].type # type
          BY <1>1, <1>4, <2>1
    <2>3. Typed(m, type) = {}
          BY <1>1, <2>2 DEF Typed
    <2>4. naf_tlv_remove(m, type) = m /\ naf_tlv_remove(l, type) = l
          BY <1>1, <1>4, <2>3, RemoveIs
    <2>q. QED BY <1>4, <2>4 DEF m
<1>q. QED BY <1>2, <1>3, <1>4

\* The TLV at n is the first of a type that is understood.
Understood(msg, n) ==
    msg[n].type # "other" /\ \A i \in 1 .. n - 1 : msg[i].type # msg[n].type

\* The TLVs among the first n that are not.
Left(msg) ==
    CHOOSE left : left = [n \in 0 .. Len(msg) |->
        IF n = 0 THEN <<>>
        ELSE IF Understood(msg, n) THEN left[n - 1] ELSE Append(left[n - 1], msg[n])]

\* They are what the loop of NotUnderstood says.
LEMMA LeftLoop ==
    ASSUME NEW msg \in Seq(TLV)
    PROVE  /\ Left(msg)[0] = <<>>
           /\ \A n \in 1 .. Len(msg) :
                 Left(msg)[n] = IF Understood(msg, n) THEN Left(msg)[n - 1]
                                ELSE Append(Left(msg)[n - 1], msg[n])
           /\ NotUnderstood(msg) = Left(msg)[Len(msg)]
<1> DEFINE N == Len(msg)
           X == Seq(TLV)
           G(n, x) == IF Understood(msg, n) THEN x ELSE Append(x, msg[n])
           F(g) == [n \in 0 .. N |-> IF n = 0 THEN <<>> ELSE
                        IF Understood(msg, n) THEN g[n - 1] ELSE Append(g[n - 1], msg[n])]
           step == [n \in 1 .. N |-> [x \in X |-> G(n, x)]]
           L == Left(msg)
<1>1. N \in Nat /\ <<>> \in X
      OBVIOUS
<1>2. \A n \in 1 .. N, x \in X : G(n, x) \in X
    <2>1. ASSUME NEW n \in 1 .. N, NEW x \in X PROVE G(n, x) \in X
        <3>1. msg[n] \in TLV
              OBVIOUS
        <3>2. Append(x, msg[n]) \in X
              BY <3>1, AppendIs
        <3>q. QED BY <3>2
    <2>q. QED BY <2>1
<1>3. L = CHOOSE x : x = F(x)
      BY DEF Left
<1>4. NotUnderstood(msg) = L[N]
      BY DEF NotUnderstood, Left, Understood
<1> HIDE DEF N, L, X
<1>5. step \in [1 .. N -> [X -> X]]
    <2> HIDE DEF G
    <2>q. QED BY <1>2
<1>6. PICK g \in [0 .. N -> X] : Loop(g, N, <<>>, step)
    <2> HIDE DEF step
    <2>q. QED BY <1>1, <1>5, LoopDefined, Zenon
<1>7. \A n \in 1 .. N : n - 1 \in 0 .. N /\ n \in 0 .. N /\ n # 0
      BY <1>1
<1>8. \A n \in 1 .. N : g[n] = G(n, g[n - 1])
    <2> HIDE DEF G
    <2>1. \A n \in 1 .. N : g[n - 1] \in X
          BY <1>7
    <2>2. \A n \in 1 .. N : g[n] = step[n][g[n - 1]]
          BY <1>6 DEF Loop
    <2>q. QED BY <2>1, <2>2
<1>9. g[0] = <<>>
      BY <1>6 DEF Loop
<1>10. \A n \in 0 .. N : n # 0 => n \in 1 .. N
      BY <1>1
<1>11. g = F(g)
    <2> HIDE DEF step
    <2>q. QED BY <1>8, <1>9, <1>10
<1>12. L = F(L)
    <2> DEFINE P(x) == x = F(x)
    <2>1. P(g)
          BY <1>11
    <2>2. L = CHOOSE x : P(x)
          BY <1>3
    <2> HIDE DEF P
    <2>3. P(L)
          BY <2>1, <2>2, Zenon
    <2>q. QED BY <2>3 DEF P
<1>13. L[0] = <<>> /\ \A n \in 1 .. N : L[n] = G(n, L[n - 1])
    <2>1. 0 \in 0 .. N
          BY <1>1
    <2>2. F(L)[0] = <<>>
          BY <2>1
    <2>3. ASSUME NEW n \in 1 .. N PROVE F(L)[n] = G(n, L[n - 1])
          BY <1>7
    <2> HIDE DEF F, G
    <2>q. QED BY <1>12, <2>2, <2>3
<1>q. QED BY <1>4, <1>13 DEF L, N

\* What toscar_icbm__parsechan1 leaves of a list.
Parsed(l) == naf_tlv_remove(naf_tlv_remove(naf_tlv_remove(l, "msgblock"), "ack"), "autoresponse")

\* A TLV more, and the list that is left grows by it unless it is understood.
LEMMA ParsedAppend ==
    ASSUME NEW l \in Seq(TLV), NEW t \in TLV
    PROVE  Parsed(Append(l, t))
               = IF t.type # "other" /\ Typed(l, t.type) = {} THEN Parsed(l)
                 ELSE Append(Parsed(l), t)
<1> DEFINE r1 == naf_tlv_remove(l, "msgblock")
           r2 == naf_tlv_remove(r1, "ack")
           r3 == naf_tlv_remove(r2, "autoresponse")
<1>1. r1 \in Seq(TLV)
      BY RemoveType
<1>2. r2 \in Seq(TLV)
      BY <1>1, RemoveType
<1>3. /\ Typed(r1, "ack") = {} <=> Typed(l, "ack") = {}
      /\ Typed(r1, "autoresponse") = {} <=> Typed(l, "autoresponse") = {}
      BY RemoveKeeps
<1>4. Typed(r2, "autoresponse") = {} <=> Typed(l, "autoresponse") = {}
      BY <1>1, <1>3, RemoveKeeps
<1>5. naf_tlv_remove(Append(l, t), "msgblock")
          = IF t.type = "msgblock" /\ Typed(l, "msgblock") = {} THEN r1 ELSE Append(r1, t)
      BY RemoveAppend
<1>6. naf_tlv_remove(Append(r1, t), "ack")
          = IF t.type = "ack" /\ Typed(r1, "ack") = {} THEN r2 ELSE Append(r2, t)
      BY <1>1, RemoveAppend
<1>7. naf_tlv_remove(Append(r2, t), "autoresponse")
          = IF t.type = "autoresponse" /\ Typed(r2, "autoresponse") = {} THEN r3 ELSE Append(r3, t)
      BY <1>2, RemoveAppend
<1>8. t.type \in {"msgblock", "ack", "autoresponse", "other"}
      BY TlvFields DEF Types
<1>9. Parsed(l) = r3
      BY DEF Parsed
<1>10. Parsed(Append(l, t))
          = naf_tlv_remove(naf_tlv_remove(naf_tlv_remove(Append(l, t), "msgblock"), "ack"), "autoresponse")
      BY DEF Parsed
<1> HIDE DEF r1, r2, r3
<1>a. r2 = naf_tlv_remove(r1, "ack") /\ r3 = naf_tlv_remove(r2, "autoresponse")
      BY DEF r1, r2, r3
<1>11. CASE t.type = "msgblock"
      BY <1>5, <1>6, <1>7, <1>9, <1>10, <1>11, <1>a
<1>12. CASE t.type = "ack"
      BY <1>3, <1>5, <1>6, <1>7, <1>9, <1>10, <1>12, <1>a
<1>13. CASE t.type = "autoresponse"
      BY <1>4, <1>5, <1>6, <1>7, <1>9, <1>10, <1>13, <1>a
<1>14. CASE t.type = "other"
      BY <1>5, <1>6, <1>7, <1>9, <1>10, <1>14, <1>a
<1>q. QED BY <1>8, <1>11, <1>12, <1>13, <1>14

\* toscar_icbm__parsechan1 leaves what is not understood.
LEMMA ParsedIsNotUnderstood ==
    ASSUME NEW msg \in Seq(TLV)
    PROVE  Parsed(msg) = NotUnderstood(msg)
<1> DEFINE N == Len(msg)
           P(n) == SubSeq(msg, 1, n)
           S == {n \in 0 .. N : Parsed(P(n)) = Left(msg)[n]}
<1>0. N \in Nat
      OBVIOUS
<1>1. 0 \in S
    <2>1. P(0) = <<>>
          BY PieceWhole
    <2>2. <<>> \in Seq(TLV) /\ \A type : Typed(<<>>, type) = {}
          BY DEF Typed
    <2>3. \A type : naf_tlv_remove(<<>>, type) = <<>>
          BY <2>2, RemoveIs
    <2>4. Parsed(<<>>) = <<>>
          BY <2>3 DEF Parsed
    <2>5. Left(msg)[0] = <<>>
          BY LeftLoop
    <2>6. 0 \in 0 .. N
          BY <1>0
    <2> HIDE DEF P
    <2>q. QED BY <2>1, <2>4, <2>5, <2>6
<1>2. ASSUME NEW n \in 0 .. N, n < N, n \in S PROVE n + 1 \in S
    <2> DEFINE l == P(n)
               t == msg[n + 1]
    <2>1. n \in 0 .. Len(msg) /\ n + 1 \in 1 .. Len(msg) /\ n + 1 - 1 = n /\ n \in Nat
          BY <1>0, <1>2
    <2>2. P(n + 1) = Append(l, t) /\ t \in TLV
          BY <1>2, <2>1, PieceGrows
    <2>3. l \in Seq(TLV) /\ Len(l) = n /\ \A i \in 1 .. n : l[i] = msg[i]
          BY <2>1, Pieces
    <2>4. Left(msg)[n + 1] = IF Understood(msg, n + 1) THEN Left(msg)[n] ELSE Append(Left(msg)[n], t)
        <3> DEFINE k == n + 1
        <3>1. k \in 1 .. Len(msg) /\ k - 1 = n
              BY <2>1
        <3> HIDE DEF k
        <3>2. Left(msg)[k] = IF Understood(msg, k) THEN Left(msg)[k - 1] ELSE Append(Left(msg)[k - 1], msg[k])
              BY <3>1, LeftLoop
        <3>q. QED BY <3>1, <3>2 DEF k
    <2> HIDE DEF l
    <2>5. Understood(msg, n + 1) <=> t.type # "other" /\ Typed(l, t.type) = {}
        <3>1. Typed(l, t.type) = {} <=> \A i \in 1 .. n : msg[i].type # t.type
              BY <2>3 DEF Typed
        <3>2. Understood(msg, n + 1) <=> t.type # "other" /\ \A i \in 1 .. n + 1 - 1 : msg[i].type # t.type
              BY DEF Understood
        <3>q. QED BY <2>1, <3>1, <3>2
    <2>6. Parsed(Append(l, t)) = IF t.type # "other" /\ Typed(l, t.type) = {} THEN Parsed(l)
                                 ELSE Append(Parsed(l), t)
          BY <2>2, <2>3, ParsedAppend
    <2>7. Parsed(l) = Left(msg)[n]
          BY <1>2 DEF l
    <2>8. Parsed(P(n + 1)) = Left(msg)[n + 1]
        <3> HIDE DEF P
        <3>q. QED BY <2>2, <2>4, <2>5, <2>6, <2>7
    <2>q. QED BY <1>0, <2>1, <2>8
<1>3. \A n \in 0 .. N : n \in S
    <2> HIDE DEF S, N
    <2>q. QED BY <1>0, <1>1, <1>2, Rounds, Zenon
<1>4. Parsed(P(N)) = Left(msg)[N]
      BY <1>0, <1>3
<1>5. P(N) = msg
      BY PieceWhole
<1>q. QED BY <1>4, <1>5, LeftLoop

-----------------------------------------------------------------------------
(* The text of a message *)

SectionBytes(ss) == Total([i \in DOMAIN ss |-> ss[i].bytes])
TextOf(ss) == Total([i \in DOMAIN ss |-> Converted(ss[i])])

\* TLVs that are no shorter than the sections inside them.
SoundTlv == {tlv \in TLV : Inside(tlv) => SectionBytes(tlv.sections) <= tlv.length}

\* Text grows at most three and a half times.
LEMMA ConvertedBound ==
    ASSUME NEW section \in Section, Representable(section)
    PROVE  Converted(section) \in Nat /\ 2 * Converted(section) <= 7 * section.bytes
<1> DEFINE n == section.bytes
<1>1. n \in Nat
      BY DEF Section
<1>2. n \div 2 \in Nat /\ 2 * (n \div 2) <= n
    <2> HIDE DEF n
    <2>q. QED BY <1>1
<1>3. CASE section.encoding = "iso"
    <2>1. Converted(section) = n
          BY <1>3 DEF Converted
    <2> HIDE DEF n
    <2>q. QED BY <1>1, <2>1 DEF n
<1>4. CASE section.encoding = "narrow"
    <2>1. Converted(section) = n \div 2
          BY <1>4 DEF Converted
    <2> DEFINE h == n \div 2
    <2> HIDE DEF h
    <2>2. 2 * h <= n /\ h \in Nat /\ Converted(section) = h
          BY <1>2, <2>1 DEF h
    <2> HIDE DEF n
    <2>q. QED BY <1>1, <2>2 DEF n
<1>5. CASE section.encoding = "wide"
    <2>1. Converted(section) = 7 * (n \div 2)
          BY <1>5 DEF Converted
    <2> DEFINE h == n \div 2
    <2> HIDE DEF h
    <2>2. 2 * h <= n /\ h \in Nat /\ Converted(section) = 7 * h
          BY <1>2, <2>1 DEF h
    <2> HIDE DEF n
    <2>q. QED BY <1>1, <2>2 DEF n
<1>q. QED BY <1>3, <1>4, <1>5 DEF Representable

\* All of ss can be converted.
AllOf(ss) == \A i \in 1 .. Len(ss) : Representable(ss[i])

\* What conversion gives is a sequence of lengths.
LEMMA TextLengths ==
    ASSUME NEW ss \in Seq(Section), AllOf(ss)
    PROVE  LET conv == [i \in DOMAIN ss |-> Converted(ss[i])]
               bytes == [i \in DOMAIN ss |-> ss[i].bytes]
           IN  /\ conv \in Seq(Nat) /\ Len(conv) = Len(ss)
               /\ \A i \in 1 .. Len(ss) : conv[i] = Converted(ss[i])
               /\ bytes \in Seq(Nat) /\ Len(bytes) = Len(ss)
               /\ \A i \in 1 .. Len(ss) : 2 * conv[i] <= 7 * bytes[i]
<1> DEFINE conv == [i \in DOMAIN ss |-> Converted(ss[i])]
           bytes == [i \in DOMAIN ss |-> ss[i].bytes]
<1>1. DOMAIN ss = 1 .. Len(ss) /\ Len(ss) \in Nat
      OBVIOUS
<1>2. \A i \in 1 .. Len(ss) : ss[i] \in Section /\ Representable(ss[i])
      BY DEF AllOf
<1>3. \A i \in 1 .. Len(ss) : /\ Converted(ss[i]) \in Nat /\ ss[i].bytes \in Nat
                              /\ 2 * Converted(ss[i]) <= 7 * ss[i].bytes
      BY <1>2, ConvertedBound DEF Section
<1>4. conv \in Seq(Nat) /\ Len(conv) = Len(ss) /\ \A i \in 1 .. Len(ss) : conv[i] = Converted(ss[i])
      BY <1>1, <1>3
<1>5. bytes \in Seq(Nat) /\ Len(bytes) = Len(ss) /\ \A i \in 1 .. Len(ss) : bytes[i] = ss[i].bytes
      BY <1>1, <1>3
<1>q. QED BY <1>3, <1>4, <1>5

\* The text of sections that can be converted.
LEMMA TextBound ==
    ASSUME NEW ss \in Seq(Section), AllOf(ss)
    PROVE  TextOf(ss) \in Nat /\ 2 * TextOf(ss) <= 7 * SectionBytes(ss)
<1> DEFINE conv == [i \in DOMAIN ss |-> Converted(ss[i])]
           bytes == [i \in DOMAIN ss |-> ss[i].bytes]
<1>1. /\ conv \in Seq(Nat) /\ Len(conv) = Len(ss)
      /\ bytes \in Seq(Nat) /\ Len(bytes) = Len(ss)
      /\ \A i \in 1 .. Len(ss) : 2 * conv[i] <= 7 * bytes[i]
      BY TextLengths
<1>2. TextOf(ss) = Total(conv) /\ SectionBytes(ss) = Total(bytes)
      BY DEF TextOf, SectionBytes
<1> HIDE DEF conv, bytes
<1>3. Total(conv) \in Nat /\ 2 * Total(conv) <= 7 * Total(bytes)
      BY <1>1, TotalType, TotalSevenHalves
<1>q. QED BY <1>2, <1>3

\* One section more.
LEMMA TextAppend ==
    ASSUME NEW ss \in Seq(Section), AllOf(ss), NEW x \in Section, Representable(x)
    PROVE  /\ AllOf(Append(ss, x)) /\ Append(ss, x) \in Seq(Section)
           /\ TextOf(Append(ss, x)) = TextOf(ss) + Converted(x)
<1> DEFINE t == Append(ss, x)
<1>1. /\ t \in Seq(Section) /\ Len(t) = Len(ss) + 1 /\ t[Len(ss) + 1] = x
      /\ \A i \in 1 .. Len(ss) : t[i] = ss[i]
      OBVIOUS
<1> HIDE DEF t
<1>2. AllOf(t)
    <2>1. ASSUME NEW i \in 1 .. Len(t) PROVE Representable(t[i])
        <3>1. i \in 1 .. Len(ss) \/ i = Len(ss) + 1
              BY <1>1
        <3>q. QED BY <1>1, <3>1 DEF AllOf
    <2>q. QED BY <2>1 DEF AllOf
<1> DEFINE a == [i \in DOMAIN ss |-> Converted(ss[i])]
           b == [i \in DOMAIN t |-> Converted(t[i])]
<1>3. a \in Seq(Nat) /\ Len(a) = Len(ss) /\ \A i \in 1 .. Len(ss) : a[i] = Converted(ss[i])
      BY TextLengths
<1>4. b \in Seq(Nat) /\ Len(b) = Len(t) /\ \A i \in 1 .. Len(t) : b[i] = Converted(t[i])
      BY <1>1, <1>2, TextLengths
<1>5. TextOf(ss) = Total(a) /\ TextOf(t) = Total(b)
      BY DEF TextOf
<1> HIDE DEF a, b
<1>6. Converted(x) \in Nat
      BY ConvertedBound
<1>7. /\ Len(b) = Len(a) + 1 /\ b[Len(b)] = Converted(x)
      /\ \A i \in 1 .. Len(a) : a[i] = b[i]
    <2>1. Len(ss) \in Nat /\ Len(ss) + 1 \in 1 .. Len(ss) + 1 /\ 1 .. Len(ss) \subseteq 1 .. Len(ss) + 1
          OBVIOUS
    <2>q. QED BY <1>1, <1>3, <1>4, <2>1
<1>8. Total(b) = Total(a) + Converted(x)
      BY <1>3, <1>4, <1>6, <1>7, TotalAppend
<1>q. QED BY <1>1, <1>2, <1>5, <1>8 DEF t

\* The text of a message block.
LEMMA TextLenBound ==
    ASSUME NEW tlv \in SoundTlv, AllText(tlv)
    PROVE  TextLen(tlv) \in Nat /\ 2 * TextLen(tlv) <= 7 * tlv.length
<1>a. tlv \in TLV /\ tlv.sections \in Seq(Section) /\ tlv.length \in Nat
      BY TlvFields DEF SoundTlv
<1>b. Inside(tlv)
    <2>1. \A i \in DOMAIN tlv.sections : Representable(tlv.sections[i])
          BY DEF AllText
    <2>q. QED BY <2>1 DEF Inside, Representable
<1>1. tlv.sections \in Seq(Section) /\ tlv.length \in Nat /\ SectionBytes(tlv.sections) <= tlv.length
      BY <1>a, <1>b DEF SoundTlv
<1>2. AllOf(tlv.sections)
      BY <1>1 DEF AllText, AllOf
<1>3. TextOf(tlv.sections) \in Nat /\ 2 * TextOf(tlv.sections) <= 7 * SectionBytes(tlv.sections)
      BY <1>1, <1>2, TextBound
<1>4. SectionBytes(tlv.sections) \in Nat
    <2> DEFINE ss == tlv.sections
               bytes == [i \in DOMAIN ss |-> ss[i].bytes]
    <2>1. bytes \in Seq(Nat)
          BY <1>1, <1>2, TextLengths
    <2>2. SectionBytes(ss) = Total(bytes)
          BY DEF SectionBytes
    <2> HIDE DEF bytes
    <2>q. QED BY <2>1, <2>2, TotalType
<1>5. TextLen(tlv) = TextOf(tlv.sections)
      BY DEF TextLen, TextOf
<1>q. QED BY <1>1, <1>3, <1>4, <1>5

-----------------------------------------------------------------------------
(* What goes out for a payload *)

\* Payloads that toscar_flap_handleread accepts.
Snacs == [head : Heads, tlvs : Seq(Tlvs), tail : 0 .. 4]
Accepted(s) == s \in Snacs /\ SNACHDRLEN + PayloadLen(s) <= MAXSNACLEN

\* The fields of a payload.
LEMMA SnacFields ==
    ASSUME NEW s \in Snacs
    PROVE  /\ s.head \in Heads /\ s.tlvs \in Seq(Tlvs) /\ s.tail \in {0, 1, 2, 3, 4}
           /\ s.head.subtype \in {"0006", "0007"} /\ s.head.tlvcnt \in Nat
           /\ s.head.namelen \in Nat /\ s.head.namelen <= 255 /\ s.head.info \in Nat
<1>1. s.head \in Heads /\ s.tlvs \in Seq(Tlvs) /\ s.tail \in {0, 1, 2, 3, 4}
      BY DEF Snacs
<1>2. U16 \in Nat
      BY DEF U16
<1>3. /\ \A n \in NameLens : n \in Nat /\ n <= 255
      /\ \A n \in TlvCounts : n \in Nat
    <2>1. NameLens \subseteq 0 .. 255 /\ TlvCounts \subseteq 0 .. U16 - 1
          BY BoundsAssumption
    <2>2. \A n \in 0 .. U16 - 1 : n \in Nat
          BY <1>2
    <2>3. \A n \in 0 .. 255 : n \in Nat /\ n <= 255
          OBVIOUS
    <2>q. QED BY <2>1, <2>2, <2>3, Zenon
<1>4. /\ s.head.namelen \in NameLens /\ s.head.subtype \in {"0006", "0007"}
      /\ s.head.tlvcnt = 0 \/ s.head.tlvcnt \in TlvCounts
      /\ s.head.info \in {0, 2, 4}
      BY <1>1 DEF Heads
<1>q. QED BY <1>1, <1>3, <1>4

\* A TLV without a value.
LEMMA NoValueType ==
    ASSUME NEW type \in Types
    PROVE  /\ NoValue(type) \in SoundTlv /\ NoValue(type).length = 0 /\ NoValue(type).type = type
           /\ Growth[NoValue(type)] = 4
<1> DEFINE v == NoValue(type)
<1>1. v = [type |-> type, length |-> 0, sections |-> <<>>]
      BY DEF NoValue, naf_tlv_new
<1>2. v \in TLV /\ v.length = 0 /\ v.type = type /\ v.sections = <<>>
      BY <1>1 DEF TLV
<1> HIDE DEF v
<1>3. SectionBytes(<<>>) = 0
    <2> DEFINE e == [i \in DOMAIN <<>> |-> <<>>[i].bytes]
    <2>1. e \in Seq(Nat) /\ Len(e) = 0
          OBVIOUS
    <2>2. SectionBytes(<<>>) = Total(e)
          BY DEF SectionBytes
    <2> HIDE DEF e
    <2>q. QED BY <2>1, <2>2, TotalType
<1>4. Growth[v] = 4
      BY <1>2 DEF Growth
<1>5. v \in SoundTlv
      BY <1>2, <1>3 DEF SoundTlv
<1>q. QED BY <1>2, <1>4, <1>5 DEF v

\* Lists of sound TLVs are lists of TLVs.
LEMMA SoundSeq ==
    ASSUME NEW l \in Seq(SoundTlv)
    PROVE  l \in Seq(TLV)
<1>1. SoundTlv \subseteq TLV
      BY DEF SoundTlv
<1>q. QED BY <1>1

\* The TLVs of a payload are sound.
LEMMA HeldType ==
    ASSUME NEW s \in Snacs
    PROVE  /\ s.tlvs \in Seq(SoundTlv) /\ Held(s) \in Seq(SoundTlv)
           /\ Size(Held(s)) = Size(s.tlvs) + (IF s.tail = 2 THEN 4 ELSE 0)
<1> DEFINE t == s.tlvs
           v == NoValue("other")
           e == <<v>>
<1>1. t \in Seq(SoundTlv)
    <2>1. Tlvs \subseteq SoundTlv
          BY TlvsAssumption DEF SoundTlv, SectionBytes
    <2>2. t \in Seq(Tlvs)
          BY SnacFields
    <2> HIDE DEF t
    <2>q. QED BY <2>1, <2>2
<1>2. v \in SoundTlv /\ v.length = 0 /\ v \in TLV
      BY NoValueType DEF Types, SoundTlv
<1>3. Held(s) = t \o (IF s.tail = 2 THEN e ELSE <<>>)
      BY DEF Held
<1> HIDE DEF t, v
<1>4. Size(e) = 4
      BY <1>2, SizeOne
<1>5. e \in Seq(SoundTlv)
      BY <1>2
<1> HIDE DEF e
<1>6. Size(t) \in Nat
      BY <1>1, SoundSeq, SizeType
<1>7. CASE s.tail = 2
    <2>1. Held(s) = t \o e
          BY <1>3, <1>7
    <2>2. t \o e \in Seq(SoundTlv)
          BY <1>1, <1>5
    <2>3. Size(t \o e) = Size(t) + Size(e)
          BY <1>1, <1>5, SoundSeq, SizeConcat
    <2>q. QED BY <1>1, <1>4, <1>7, <2>1, <2>2, <2>3 DEF t
<1>8. CASE s.tail # 2
    <2>1. Held(s) = t
          BY <1>1, <1>3, <1>8, PieceWhole
    <2>q. QED BY <1>1, <1>6, <1>8, <2>1 DEF t
<1>q. QED BY <1>7, <1>8

\* The flags: four bytes each.
LEMMA FlagsCost ==
    ASSUME NEW ack \in BOOLEAN, NEW auto \in BOOLEAN
    PROVE  /\ Flags(ack, auto) \in Seq(TLV)
           /\ Cost(Flags(ack, auto)) = (IF ack THEN 4 ELSE 0) + (IF auto THEN 4 ELSE 0)
<1> DEFINE A == <<NoValue("ack")>>
           B == <<NoValue("autoresponse")>>
           x == IF ack THEN A ELSE <<>>
           y == IF auto THEN B ELSE <<>>
<1>1. /\ NoValue("ack") \in TLV /\ Growth[NoValue("ack")] = 4
      /\ NoValue("autoresponse") \in TLV /\ Growth[NoValue("autoresponse")] = 4
      BY NoValueType DEF Types, SoundTlv
<1>2. Cost(A) = 4 /\ Cost(B) = 4
      BY <1>1, SizeOne
<1>3. A \in Seq(TLV) /\ B \in Seq(TLV) /\ <<>> \in Seq(TLV)
      BY <1>1
<1>4. Cost(<<>>) = 0
      BY <1>3, SizeType
<1>5. Flags(ack, auto) = x \o y
      BY DEF Flags
<1> HIDE DEF A, B
<1>6. x \in Seq(TLV) /\ Cost(x) = (IF ack THEN 4 ELSE 0)
      BY <1>2, <1>3, <1>4
<1>7. y \in Seq(TLV) /\ Cost(y) = (IF auto THEN 4 ELSE 0)
      BY <1>2, <1>3, <1>4
<1> HIDE DEF x, y
<1>8. Cost(x \o y) = Cost(x) + Cost(y) /\ x \o y \in Seq(TLV)
      BY <1>6, <1>7, SizeConcat, Joined
<1>q. QED BY <1>5, <1>6, <1>7, <1>8

\* The message block that is sent.
LEMMA RelayedCost ==
    ASSUME NEW tlv \in SoundTlv
    PROVE  /\ Relayed(tlv) \in Seq(TLV)
           /\ 2 * Cost(Relayed(tlv)) <= 7 * tlv.length + 550
<1>0. tlv \in TLV /\ tlv.length \in Nat
      BY TlvFields DEF SoundTlv
<1>1. CASE ~AllText(tlv)
    <2>1. Relayed(tlv) = <<tlv>>
          BY <1>1 DEF Relayed
    <2>2. Cost(<<tlv>>) = Growth[tlv]
          BY <1>0, SizeOne
    <2>3. Growth[tlv] \in Nat /\ Growth[tlv] <= 4 + tlv.length + 255
          BY <1>0 DEF Growth
    <2>4. <<tlv>> \in Seq(TLV)
          BY <1>0
    <2>q. QED BY <1>0, <2>1, <2>2, <2>3, <2>4
<1>2. CASE AllText(tlv) /\ tlv.sections # <<>>
    <2> DEFINE n == TextLen(tlv)
               b == naf_tlv_new("msgblock", MSGBLOCKLEN + n, <<[encoding |-> "iso", bytes |-> n]>>)
    <2>1. Relayed(tlv) = <<b>>
          BY <1>2 DEF Relayed
    <2>2. n \in Nat /\ 2 * n <= 7 * tlv.length
          BY <1>2, TextLenBound
    <2> HIDE DEF n
    <2>3. b \in TLV /\ b.length = 16 + n
          BY <2>2 DEF naf_tlv_new, TLV, Section, Types, Encodings, MSGBLOCKLEN
    <2> HIDE DEF b
    <2>4. Cost(<<b>>) = Growth[b]
          BY <2>3, SizeOne
    <2>5. Growth[b] \in Nat /\ Growth[b] <= 4 + (16 + n) + 255
          BY <2>2, <2>3 DEF Growth
    <2>6. <<b>> \in Seq(TLV)
          BY <2>3
    <2>7. 2 * Growth[b] <= 7 * tlv.length + 550
          BY <1>0, <2>2, <2>5
    <2>q. QED BY <2>1, <2>4, <2>6, <2>7
<1>3. CASE AllText(tlv) /\ tlv.sections = <<>>
    <2>1. Relayed(tlv) = <<>>
          BY <1>3 DEF Relayed
    <2>2. <<>> \in Seq(TLV)
          OBVIOUS
    <2>3. Cost(<<>>) = 0
          BY <2>2, SizeType
    <2>q. QED BY <1>0, <2>1, <2>2, <2>3
<1>q. QED BY <1>1, <1>2, <1>3

\* Taking out a TLV takes its bytes away.
LEMMA RemoveSize ==
    ASSUME NEW l \in Seq(TLV), NEW type
    PROVE  Size(l) = Size(naf_tlv_remove(l, type))
                       + (IF Typed(l, type) = {} THEN 0 ELSE 4 + l[FirstOf(l, type)].length)
<1>1. CASE Typed(l, type) = {}
    <2>1. Size(l) \in Nat /\ naf_tlv_remove(l, type) = l
          BY <1>1, SizeType, RemoveIs
    <2>q. QED BY <1>1, <2>1
<1>2. CASE Typed(l, type) # {}
    <2> DEFINE i == FirstOf(l, type)
    <2>1. IsFirst(l, type, i)
          BY <1>2, FirstOfIsFirst
    <2> HIDE DEF i
    <2>2. i \in 1 .. Len(l)
          BY <2>1 DEF IsFirst
    <2>3. naf_tlv_remove(l, type) = Without(l, i)
          BY <2>1, RemoveIs
    <2>4. Size(l) = Size(Without(l, i)) + 4 + l[i].length /\ Without(l, i) \in Seq(TLV)
          BY <2>2, WithoutIs
    <2>5. l[i] \in TLV
          BY <2>2
    <2>6. l[i].length \in Nat /\ Size(Without(l, i)) \in Nat
          BY <2>4, <2>5, TlvFields, SizeType
    <2>q. QED BY <1>2, <2>3, <2>4, <2>6 DEF i
<1>q. QED BY <1>1, <1>2

\* What is not understood, and what is, have the size of the message.
LEMMA NotUnderstoodSize ==
    ASSUME NEW msg \in Seq(TLV)
    PROVE  /\ NotUnderstood(msg) \in Seq(TLV)
           /\ Size(NotUnderstood(msg))
                + (IF Typed(msg, "msgblock") = {} THEN 0
                   ELSE 4 + msg[FirstOf(msg, "msgblock")].length)
                + (IF Typed(msg, "ack") = {} THEN 0 ELSE 4)
                + (IF Typed(msg, "autoresponse") = {} THEN 0 ELSE 4) <= Size(msg)
<1> DEFINE r1 == naf_tlv_remove(msg, "msgblock")
           r2 == naf_tlv_remove(r1, "ack")
           r3 == naf_tlv_remove(r2, "autoresponse")
           b == IF Typed(msg, "msgblock") = {} THEN 0 ELSE 4 + msg[FirstOf(msg, "msgblock")].length
<1>1. NotUnderstood(msg) = r3
      BY ParsedIsNotUnderstood DEF Parsed
<1>2. r1 \in Seq(TLV)
      BY RemoveType
<1>3. r2 \in Seq(TLV)
      BY <1>2, RemoveType
<1>4. r3 \in Seq(TLV)
      BY <1>3, RemoveType
<1>5. /\ Typed(r1, "ack") = {} <=> Typed(msg, "ack") = {}
      /\ Typed(r1, "autoresponse") = {} <=> Typed(msg, "autoresponse") = {}
      BY RemoveKeeps
<1>6. Typed(r2, "autoresponse") = {} <=> Typed(msg, "autoresponse") = {}
      BY <1>2, <1>5, RemoveKeeps
<1>7. Size(msg) = Size(r1) + b
      BY RemoveSize
<1>8. Size(r1) = Size(r2) + (IF Typed(r1, "ack") = {} THEN 0 ELSE 4 + r1[FirstOf(r1, "ack")].length)
      BY <1>2, RemoveSize
<1>9. Size(r2) = Size(r3) + (IF Typed(r2, "autoresponse") = {} THEN 0
                             ELSE 4 + r2[FirstOf(r2, "autoresponse")].length)
      BY <1>3, RemoveSize
<1> HIDE DEF r1, r2, r3
<1>10. ASSUME NEW l \in Seq(TLV), NEW type, Typed(l, type) # {}
       PROVE  l[FirstOf(l, type)].length \in Nat
    <2>1. FirstOf(l, type) \in 1 .. Len(l)
          BY <1>10, FirstOfIsFirst DEF IsFirst
    <2>2. l[FirstOf(l, type)] \in TLV
          BY <2>1
    <2>q. QED BY <2>2, TlvFields
<1>11. b \in Nat
      BY <1>10
<1> HIDE DEF b
<1>12. Size(r1) \in Nat /\ Size(r2) \in Nat /\ Size(r3) \in Nat
      BY <1>2, <1>3, <1>4, SizeType
<1>13. Size(r2) + (IF Typed(msg, "ack") = {} THEN 0 ELSE 4) <= Size(r1)
    <2>1. CASE Typed(msg, "ack") = {}
          BY <1>5, <1>8, <1>12, <2>1
    <2>2. CASE Typed(msg, "ack") # {}
        <3> DEFINE k == r1[FirstOf(r1, "ack")].length
        <3>1. k \in Nat
              BY <1>2, <1>5, <1>10, <2>2
        <3>2. Size(r1) = Size(r2) + (4 + k)
              BY <1>5, <1>8, <2>2
        <3> HIDE DEF k
        <3>q. QED BY <1>12, <2>2, <3>1, <3>2
    <2>q. QED BY <2>1, <2>2
<1>14. Size(r3) + (IF Typed(msg, "autoresponse") = {} THEN 0 ELSE 4) <= Size(r2)
    <2>1. CASE Typed(msg, "autoresponse") = {}
          BY <1>6, <1>9, <1>12, <2>1
    <2>2. CASE Typed(msg, "autoresponse") # {}
        <3> DEFINE k == r2[FirstOf(r2, "autoresponse")].length
        <3>1. k \in Nat
              BY <1>3, <1>6, <1>10, <2>2
        <3>2. Size(r2) = Size(r3) + (4 + k)
              BY <1>6, <1>9, <2>2
        <3> HIDE DEF k
        <3>q. QED BY <1>12, <2>2, <3>1, <3>2
    <2>q. QED BY <2>1, <2>2
<1> DEFINE u == IF Typed(msg, "ack") = {} THEN 0 ELSE 4
           v == IF Typed(msg, "autoresponse") = {} THEN 0 ELSE 4
<1>15. u \in Nat /\ v \in Nat /\ Size(r2) + u <= Size(r1) /\ Size(r3) + v <= Size(r2)
      BY <1>13, <1>14
<1> HIDE DEF u, v
<1>16. Size(r3) + b + u + v <= Size(msg)
      BY <1>7, <1>11, <1>12, <1>15
<1>q. QED BY <1>1, <1>4, <1>16 DEF b, u, v

\* What goes out in a given direction.
BlockOf(msg) ==
    IF Typed(msg, "msgblock") # {} THEN Relayed(msg[FirstOf(msg, "msgblock")]) ELSE <<>>
FlagsOf(d, msg) == Flags(d = "tohost" /\ Typed(msg, "ack") # {}, Typed(msg, "autoresponse") # {})
WholeTo(d, s) ==
    First(Info(s), Held(s)) \o BlockOf(Msg(s)) \o FlagsOf(d, Msg(s)) \o NotUnderstood(Msg(s))

\* The frame and all that its buffer may have to grow by stay far below the
\* maximum of a buffer, whatever the payload and the text in it.
LEMMA WholeCost ==
    ASSUME NEW s, Accepted(s), NEW d
    PROVE  /\ First(Info(s), Held(s)) \in Seq(TLV) /\ BlockOf(Msg(s)) \in Seq(TLV)
           /\ FlagsOf(d, Msg(s)) \in Seq(TLV) /\ NotUnderstood(Msg(s)) \in Seq(TLV)
           /\ WholeTo(d, s) \in Seq(TLV) /\ Cost(WholeTo(d, s)) <= 29000
           /\ Cost(BlockOf(Msg(s))) <= 29000
<1> DEFINE H == Held(s)
           msg == Msg(s)
           W1 == First(Info(s), H)
           W2 == BlockOf(msg)
           W3 == FlagsOf(d, msg)
           W4 == NotUnderstood(msg)
           hasb == Typed(msg, "msgblock") # {}
           b == IF hasb THEN msg[FirstOf(msg, "msgblock")].length ELSE 0
           u == IF Typed(msg, "ack") = {} THEN 0 ELSE 4
           v == IF Typed(msg, "autoresponse") = {} THEN 0 ELSE 4
<1>1. s \in Snacs /\ Info(s) \in Nat
      BY SnacFields DEF Accepted, Info
<1>2. H \in Seq(SoundTlv) /\ s.tlvs \in Seq(SoundTlv) /\ Size(H) = Size(s.tlvs) + (IF s.tail = 2 THEN 4 ELSE 0)
      BY <1>1, HeldType
<1>3. W1 \in Seq(SoundTlv) /\ msg \in Seq(SoundTlv) /\ W1 \o msg = H
      BY <1>1, <1>2, FirstRest DEF Msg
<1>4. W1 \in Seq(TLV) /\ msg \in Seq(TLV) /\ s.tlvs \in Seq(TLV)
      BY <1>2, <1>3, SoundSeq
<1>5. Size(H) <= 8173
    <2> DEFINE h == s.head.namelen
               k == s.head.info
               z == Size(s.tlvs)
               q == s.tail
    <2>1. z \in Nat /\ h \in Nat /\ k \in Nat /\ q \in {0, 1, 2, 3, 4}
          BY <1>1, <1>4, SizeType, SnacFields
    <2>2. HeadLen(s) = 8 + 2 + 1 + h + k
          BY DEF HeadLen, MSGCOOKIELEN
    <2>3. 10 + (HeadLen(s) + z + q) <= 8192
          BY DEF Accepted, PayloadLen, SNACHDRLEN, MAXSNACLEN, Size
    <2>4. Size(H) = z + (IF q = 2 THEN 4 ELSE 0)
          BY <1>2
    <2> HIDE DEF h, k, z, q
    <2>q. QED BY <2>1, <2>2, <2>3, <2>4
<1>6. Size(W1) \in Nat /\ Size(msg) \in Nat /\ Size(W1) + Size(msg) = Size(H)
      BY <1>3, <1>4, SizeConcat, SizeType
<1>7. W4 \in Seq(TLV) /\ Size(W4) + (IF Typed(msg, "msgblock") = {} THEN 0
                   ELSE 4 + msg[FirstOf(msg, "msgblock")].length) + u + v <= Size(msg)
      BY <1>4, NotUnderstoodSize
<1>8. b \in Nat /\ W2 \in Seq(TLV) /\ 2 * Cost(W2) <= 7 * b + 550
    <2>1. CASE hasb
        <3> DEFINE t == msg[FirstOf(msg, "msgblock")]
        <3>1. FirstOf(msg, "msgblock") \in 1 .. Len(msg)
              BY <1>4, <2>1, FirstOfIsFirst DEF IsFirst
        <3>2. t \in SoundTlv
              BY <1>3, <3>1
        <3>3. b = t.length /\ W2 = Relayed(t)
              BY <2>1 DEF BlockOf
        <3> HIDE DEF t, b
        <3>q. QED BY <3>2, <3>3, RelayedCost, TlvFields DEF SoundTlv
    <2>2. CASE ~hasb
        <3>1. b = 0 /\ W2 = <<>>
              BY <2>2 DEF BlockOf
        <3>2. <<>> \in Seq(TLV)
              OBVIOUS
        <3>3. Cost(<<>>) = 0
              BY <3>2, SizeType
        <3> HIDE DEF b
        <3>q. QED BY <3>1, <3>2, <3>3
    <2>q. QED BY <2>1, <2>2
<1>9. W3 \in Seq(TLV) /\ Cost(W3) <= u + v /\ u \in Nat /\ v \in Nat
    <2> DEFINE x == (d = "tohost" /\ Typed(msg, "ack") # {})
               y == Typed(msg, "autoresponse") # {}
    <2>1. W3 = Flags(x, y) /\ x \in BOOLEAN /\ y \in BOOLEAN
          BY DEF FlagsOf
    <2>2. (x => u = 4) /\ (y => v = 4) /\ u \in Nat /\ v \in Nat
          OBVIOUS
    <2> HIDE DEF x, y, u, v
    <2>3. W3 \in Seq(TLV) /\ Cost(W3) = (IF x THEN 4 ELSE 0) + (IF y THEN 4 ELSE 0)
          BY <2>1, FlagsCost
    <2>q. QED BY <2>2, <2>3
<1>10. Size(W4) \in Nat /\ Cost(W4) \in Nat /\ Cost(W3) \in Nat /\ Cost(W2) \in Nat /\ Cost(W1) \in Nat
       /\ Cost(W4) <= 2 * Size(W4) /\ Cost(W1) <= 2 * Size(W1)
      BY <1>4, <1>7, <1>8, <1>9, SizeType, CostTwice
<1>11. WholeTo(d, s) = W1 \o W2 \o W3 \o W4
      BY DEF WholeTo
<1>12. Size(W4) + b + u + v <= Size(msg)
    <2> DEFINE p == IF Typed(msg, "msgblock") = {} THEN 0 ELSE 4 + msg[FirstOf(msg, "msgblock")].length
    <2>1. p \in Nat /\ b <= p
        <3>1. CASE hasb
            <4>1. p = 4 + b
                  BY <3>1
            <4> HIDE DEF b, p
            <4>q. QED BY <1>8, <4>1
        <3>2. CASE ~hasb
            <4>1. p = 0 /\ b = 0
                  BY <3>2
            <4> HIDE DEF b, p
            <4>q. QED BY <4>1
        <3>q. QED BY <3>1, <3>2
    <2>2. Size(W4) + p + u + v <= Size(msg)
          BY <1>7
    <2> DEFINE z == Size(W4)
               m == Size(msg)
    <2>3. z \in Nat /\ m \in Nat /\ b \in Nat /\ u \in Nat /\ v \in Nat
          BY <1>6, <1>8, <1>9, <1>10
    <2>4. z + p + u + v <= m
          BY <2>2
    <2>5. z + b + u + v <= m
        <3> HIDE DEF z, m, b, p, u, v
        <3>q. QED BY <2>1, <2>3, <2>4
    <2>q. QED BY <2>5
<1> HIDE DEF W1, W2, W3, W4, b, u, v, msg, H
<1>13. Cost(W1) + Cost(W2) + Cost(W3) + Cost(W4) <= 29000
    <2> DEFINE c1 == Cost(W1)
               c2 == Cost(W2)
               c3 == Cost(W3)
               c4 == Cost(W4)
               z1 == Size(W1)
               z4 == Size(W4)
               m == Size(msg)
    <2>1. /\ c1 \in Nat /\ c2 \in Nat /\ c3 \in Nat /\ c4 \in Nat
          /\ z1 \in Nat /\ z4 \in Nat /\ m \in Nat /\ b \in Nat /\ u \in Nat /\ v \in Nat
          /\ z1 + m <= 8173 /\ 2 * c2 <= 7 * b + 550 /\ c3 <= u + v
          /\ c4 <= 2 * z4 /\ c1 <= 2 * z1 /\ z4 + b + u + v <= m
          BY <1>5, <1>6, <1>8, <1>9, <1>10, <1>12
    <2> HIDE DEF c1, c2, c3, c4, z1, z4, m
    <2>2. c1 + c3 + c4 + 2 * b <= 2 * (z1 + m)
          BY <2>1
    <2>3. b <= 8173
          BY <2>1
    <2>4. 2 * (c1 + c2 + c3 + c4) <= 57761
          BY <2>1, <2>2, <2>3
    <2>5. c1 + c2 + c3 + c4 <= 29000
          BY <2>1, <2>4
    <2>q. QED BY <2>5 DEF c1, c2, c3, c4
<1>14. W1 \o W2 \in Seq(TLV) /\ Cost(W1 \o W2) = Cost(W1) + Cost(W2)
      BY <1>4, <1>8, SizeConcat, Joined
<1>15. W1 \o W2 \o W3 \in Seq(TLV) /\ Cost(W1 \o W2 \o W3) = Cost(W1) + Cost(W2) + Cost(W3)
      BY <1>9, <1>14, SizeConcat, Joined
<1>16. /\ W1 \o W2 \o W3 \o W4 \in Seq(TLV)
       /\ Cost(W1 \o W2 \o W3 \o W4) = Cost(W1) + Cost(W2) + Cost(W3) + Cost(W4)
      BY <1>7, <1>15, SizeConcat, Joined
<1>17. Cost(WholeTo(d, s)) <= 29000 /\ WholeTo(d, s) \in Seq(TLV)
      BY <1>11, <1>13, <1>16
<1>18. Cost(W2) <= 29000
      BY <1>10, <1>13
<1>q. QED BY <1>4, <1>7, <1>8, <1>9, <1>17, <1>18 DEF W1, W2, W3, W4, msg, H

-----------------------------------------------------------------------------
(* Taking a payload apart *)

\* The payload of s, read up to offset p.
Read(s, p) == [buflen |-> PayloadLen(s), pos |-> p, autoresize |-> FALSE]

\* Where the TLV behind the first j of them starts.
Offset(s, j) == HeadLen(s) + Size(SubSeq(s.tlvs, 1, j))

\* Numbers about a payload.
LEMMA PayloadNumbers ==
    ASSUME NEW s, Accepted(s)
    PROVE  /\ s \in Snacs /\ s.tlvs \in Seq(TLV) /\ Len(s.tlvs) \in Nat
           /\ HeadLen(s) \in Nat /\ PayloadLen(s) \in Nat /\ PayloadLen(s) <= 8182
           /\ HeadLen(s) <= PayloadLen(s)
           /\ Offset(s, 0) = HeadLen(s) /\ Offset(s, Len(s.tlvs)) + s.tail = PayloadLen(s)
<1>1. s \in Snacs
      BY DEF Accepted
<1>2. s.tlvs \in Seq(TLV) /\ Len(s.tlvs) \in Nat
      BY <1>1, HeldType, SoundSeq
<1>3. HeadLen(s) \in Nat
    <2> DEFINE h == s.head.namelen
               k == s.head.info
    <2>1. HeadLen(s) = 8 + 2 + 1 + h + k
          BY DEF HeadLen, MSGCOOKIELEN
    <2>2. h \in Nat /\ k \in Nat
          BY <1>1, SnacFields
    <2> HIDE DEF h, k
    <2>q. QED BY <2>1, <2>2
<1>4. Size(s.tlvs) \in Nat /\ s.tail \in Nat
      BY <1>1, <1>2, SizeType, SnacFields
<1>5. PayloadLen(s) = HeadLen(s) + Size(s.tlvs) + s.tail
      BY DEF PayloadLen, Size
<1>6. 10 + PayloadLen(s) <= 8192
      BY DEF Accepted, SNACHDRLEN, MAXSNACLEN
<1>7. SubSeq(s.tlvs, 1, 0) = <<>> /\ SubSeq(s.tlvs, 1, Len(s.tlvs)) = s.tlvs
      BY <1>2, PieceWhole
<1>8. Size(<<>>) = 0
    <2>1. <<>> \in Seq(TLV)
          OBVIOUS
    <2>q. QED BY <2>1, SizeType
<1>9. Offset(s, 0) = HeadLen(s) /\ Offset(s, Len(s.tlvs)) = HeadLen(s) + Size(s.tlvs)
    <2>1. Offset(s, 0) = HeadLen(s) + Size(SubSeq(s.tlvs, 1, 0))
          BY DEF Offset
    <2>2. Offset(s, Len(s.tlvs)) = HeadLen(s) + Size(SubSeq(s.tlvs, 1, Len(s.tlvs)))
          BY DEF Offset
    <2>3. Offset(s, 0) = HeadLen(s) + 0
          BY <1>7, <1>8, <2>1, Zenon
    <2>4. Offset(s, Len(s.tlvs)) = HeadLen(s) + Size(s.tlvs)
          BY <1>7, <2>2, Zenon
    <2>q. QED BY <1>3, <2>3, <2>4
<1>q. QED BY <1>1, <1>2, <1>3, <1>4, <1>5, <1>6, <1>9

\* The next TLV starts where this one ends.
LEMMA OffsetNext ==
    ASSUME NEW s, Accepted(s), NEW j \in 0 .. Len(s.tlvs)
    PROVE  /\ Offset(s, j) \in Nat
           /\ j < Len(s.tlvs) => Offset(s, j + 1) = Offset(s, j) + 4 + s.tlvs[j + 1].length
<1>1. s.tlvs \in Seq(TLV) /\ HeadLen(s) \in Nat
      BY PayloadNumbers
<1> DEFINE a == SubSeq(s.tlvs, 1, j)
<1>2. a \in Seq(TLV)
      BY <1>1, Pieces
<1>3. Size(a) \in Nat
      BY <1>2, SizeType
<1>4. ASSUME j < Len(s.tlvs) PROVE Offset(s, j + 1) = Offset(s, j) + 4 + s.tlvs[j + 1].length
    <2> DEFINE t == s.tlvs[j + 1]
    <2>1. t \in TLV
          BY <1>1, <1>4
    <2>2. SubSeq(s.tlvs, 1, j + 1) = Append(a, t)
          BY <1>1, <1>4, PieceGrows
    <2>3. t.length \in Nat
          BY <2>1, TlvFields
    <2> HIDE DEF a, t
    <2>4. Append(a, t) = a \o <<t>> /\ <<t>> \in Seq(TLV)
          BY <1>2, <2>1
    <2>5. Size(Append(a, t)) = Size(a) + (4 + t.length)
          BY <1>2, <2>1, <2>4, SizeConcat, SizeOne
    <2>6. Offset(s, j) = HeadLen(s) + Size(a) /\ Offset(s, j + 1) = HeadLen(s) + Size(Append(a, t))
          BY <2>2 DEF Offset, a
    <2>q. QED BY <1>1, <1>3, <2>3, <2>5, <2>6 DEF t
<1>5. Offset(s, j) \in Nat
      BY <1>1, <1>3 DEF Offset
<1>q. QED BY <1>4, <1>5

\* Later TLVs start further behind.
LEMMA OffsetsGrow ==
    ASSUME NEW s, Accepted(s), NEW i \in 0 .. Len(s.tlvs), NEW j \in 0 .. Len(s.tlvs), i < j
    PROVE  Offset(s, i) + 4 <= Offset(s, j)
<1> DEFINE N == Len(s.tlvs)
           n == N - (i + 1)
           T == {k \in 0 .. n : Offset(s, i) + 4 <= Offset(s, i + 1 + k)}
<1>0. s.tlvs \in Seq(TLV) /\ N \in Nat
      BY PayloadNumbers
<1>a. ASSUME NEW k \in 0 .. N, k < N
      PROVE  /\ Offset(s, k) \in Nat /\ Offset(s, k + 1) \in Nat
             /\ Offset(s, k) + 4 <= Offset(s, k + 1)
    <2>1. s.tlvs[k + 1] \in TLV
          BY <1>0, <1>a
    <2>2. s.tlvs[k + 1].length \in Nat
          BY <2>1, TlvFields
    <2>3. k + 1 \in 0 .. N
          BY <1>0, <1>a
    <2>4. Offset(s, k) \in Nat /\ Offset(s, k + 1) \in Nat
          BY <2>3, OffsetNext
    <2>5. Offset(s, k + 1) = Offset(s, k) + 4 + s.tlvs[k + 1].length
          BY <1>a, OffsetNext
    <2> DEFINE l == s.tlvs[k + 1].length
    <2> HIDE DEF l
    <2>q. QED BY <2>2, <2>4, <2>5 DEF l
<1>1. n \in Nat /\ i \in 0 .. N /\ i < N
      BY <1>0
<1> HIDE DEF N
<1>2. 0 \in T
    <2>1. Offset(s, i) + 4 <= Offset(s, i + 1)
          BY <1>1, <1>a
    <2>2. i + 1 + 0 = i + 1 /\ 0 \in 0 .. n
          BY <1>1
    <2> HIDE DEF n
    <2>q. QED BY <2>1, <2>2
<1>3. ASSUME NEW k \in 0 .. n, k < n, k \in T PROVE k + 1 \in T
    <2>1. i + 1 + k \in 0 .. N /\ i + 1 + k < N /\ i + 1 + (k + 1) = i + 1 + k + 1 /\ k + 1 \in 0 .. n
          BY <1>0, <1>1, <1>3
    <2> DEFINE q == i + 1 + k
    <2> HIDE DEF q
    <2>2. Offset(s, q) \in Nat /\ Offset(s, q + 1) \in Nat /\ Offset(s, q) + 4 <= Offset(s, q + 1)
          BY <1>a, <2>1 DEF q
    <2>3. Offset(s, i) \in Nat /\ Offset(s, i) + 4 <= Offset(s, q)
          BY <1>1, <1>3, <1>a DEF q
    <2>4. Offset(s, i) + 4 <= Offset(s, q + 1)
          BY <2>2, <2>3
    <2>5. q + 1 = i + 1 + (k + 1)
          BY <2>1 DEF q
    <2> HIDE DEF n
    <2>q. QED BY <2>1, <2>4, <2>5
<1>4. \A k \in 0 .. n : k \in T
    <2> HIDE DEF T, n
    <2>q. QED BY <1>1, <1>2, <1>3, Rounds, Zenon
<1>5. j - (i + 1) \in 0 .. n /\ i + 1 + (j - (i + 1)) = j
      BY <1>0 DEF N
<1> HIDE DEF n
<1>6. Offset(s, i) + 4 <= Offset(s, i + 1 + (j - (i + 1)))
      BY <1>4, <1>5
<1>q. QED BY <1>5, <1>6

\* The TLV that starts at an offset is the next one; behind the last it is
\* the tail that passes for one.
LEMMA TlvAtOffset ==
    ASSUME NEW s, Accepted(s), NEW j \in 0 .. Len(s.tlvs)
    PROVE  TlvAt(s, Offset(s, j))
               = IF j < Len(s.tlvs) THEN s.tlvs[j + 1]
                 ELSE naf_tlv_new("other", IF s.tail = 4 THEN 1 ELSE 0, <<>>)
<1> DEFINE N == Len(s.tlvs)
           starts == {i \in DOMAIN s.tlvs : Offset(s, j) = Offset(s, i - 1)}
<1>1. s.tlvs \in Seq(TLV) /\ N \in Nat /\ DOMAIN s.tlvs = 1 .. N
      BY PayloadNumbers
<1>2. TlvAt(s, Offset(s, j))
          = IF starts # {} THEN s.tlvs[CHOOSE i \in starts : TRUE]
            ELSE naf_tlv_new("other", IF s.tail = 4 THEN 1 ELSE 0, <<>>)
      BY DEF TlvAt, Offset, Size
<1>3. \A i \in 1 .. N : Offset(s, j) = Offset(s, i - 1) => i = j + 1
    <2>1. SUFFICES ASSUME NEW i \in 1 .. N, i # j + 1, Offset(s, j) = Offset(s, i - 1) PROVE FALSE
          OBVIOUS
    <2>2. i - 1 \in 0 .. N /\ i - 1 # j /\ j \in 0 .. N
          BY <1>1, <2>1
    <2> DEFINE k == i - 1
    <2> HIDE DEF k
    <2>3. k \in 0 .. N /\ k # j /\ Offset(s, j) = Offset(s, k)
          BY <2>1, <2>2 DEF k
    <2>4. Offset(s, j) \in Nat /\ Offset(s, k) \in Nat
          BY <2>3, OffsetNext
    <2>5. CASE k < j
          BY <2>3, <2>4, <2>5, OffsetsGrow
    <2>6. CASE k > j
          BY <2>3, <2>4, <2>6, OffsetsGrow
    <2>7. k < j \/ k > j
          BY <1>1, <2>3
    <2>q. QED BY <2>5, <2>6, <2>7
<1>4. CASE j < N
    <2>1. j + 1 \in 1 .. N /\ j + 1 - 1 = j
          BY <1>1, <1>4
    <2>2. starts = {j + 1}
        <3>1. \A i \in starts : i = j + 1
              BY <1>1, <1>3
        <3>2. j + 1 \in starts
              BY <1>1, <2>1
        <3> HIDE DEF starts
        <3>q. QED BY <3>1, <3>2
    <2> HIDE DEF starts
    <2>q. QED BY <1>2, <1>4, <2>2
<1>5. CASE ~(j < N)
    <2>1. starts = {}
        <3>1. SUFFICES ASSUME NEW i \in starts PROVE FALSE
              OBVIOUS
        <3>2. i \in 1 .. N /\ i = j + 1
              BY <1>1, <1>3
        <3>q. QED BY <1>1, <1>5, <3>2
    <2> HIDE DEF starts
    <2>q. QED BY <1>2, <1>5, <2>1
<1>q. QED BY <1>4, <1>5

\* One round of naf_tlv_parse_limit: the type and the length, if they are
\* there, whether the value is, the TLV, and how far the payload is read then.
RoundTyped(pl) == naf_sbuf_get(pl, 2)
RoundSized(pl) == naf_sbuf_get(RoundTyped(pl), 2)
RoundType(s, pl) == IF naf_sbuf_has(pl, 2) THEN TlvAt(s, pl.pos).type ELSE "other"
RoundLength(s, pl) == IF naf_sbuf_has(RoundTyped(pl), 2) THEN TlvAt(s, pl.pos).length ELSE 0
RoundWhole(s, pl) == naf_sbuf_has(RoundSized(pl), RoundLength(s, pl))
RoundNext(s, pl) == naf_sbuf_getraw(RoundSized(pl), RoundLength(s, pl))
RoundTlv(s, pl) == naf_tlv_new(RoundType(s, pl), RoundLength(s, pl), TlvAt(s, pl.pos).sections)

\* Reading n bytes.
LEMMA ReadMore ==
    ASSUME NEW s, NEW p \in Nat, NEW n \in Nat, PayloadLen(s) \in Nat
    PROVE  /\ naf_sbuf_has(Read(s, p), n) <=> PayloadLen(s) - p >= n
           /\ naf_sbuf_get(Read(s, p), n) = IF PayloadLen(s) - p >= n THEN Read(s, p + n) ELSE Read(s, p)
           /\ naf_sbuf_bytesremaining(Read(s, p)) = PayloadLen(s) - p /\ Read(s, p).pos = p
<1>1. Read(s, p).buflen = PayloadLen(s) /\ Read(s, p).pos = p
      BY DEF Read
<1>2. naf_sbuf_has(Read(s, p), n) <=> PayloadLen(s) - p >= n
      BY <1>1 DEF naf_sbuf_has, naf_sbuf_bytesremaining
<1>3. [Read(s, p) EXCEPT !.pos = @ + n] = Read(s, p + n)
    <2> DEFINE r == Read(s, p)
               q == p + n
               no == FALSE
    <2>1. r = [buflen |-> PayloadLen(s), pos |-> p, autoresize |-> no]
          BY DEF Read
    <2>2. [r EXCEPT !.pos = @ + n] = [r EXCEPT !.pos = q]
          BY <1>1
    <2> HIDE DEF r, q, no
    <2>3. [r EXCEPT !.pos = q] = [buflen |-> PayloadLen(s), pos |-> q, autoresize |-> no]
          BY <2>1
    <2>q. QED BY <2>2, <2>3 DEF Read, q, r, no
<1>q. QED BY <1>1, <1>2, <1>3 DEF naf_sbuf_get, naf_sbuf_bytesremaining

\* A round in front of a TLV reads it.
LEMMA RoundInside ==
    ASSUME NEW s, Accepted(s), NEW j \in 0 .. Len(s.tlvs), j < Len(s.tlvs)
    PROVE  LET pl == Read(s, Offset(s, j))
           IN  /\ RoundWhole(s, pl) /\ RoundTlv(s, pl) = s.tlvs[j + 1]
               /\ RoundNext(s, pl) = Read(s, Offset(s, j + 1))
<1> DEFINE P == PayloadLen(s)
           p == Offset(s, j)
           t == s.tlvs[j + 1]
           n == t.length
           pl == Read(s, p)
           L == Len(s.tlvs)
<1>1. P \in Nat /\ p \in Nat /\ s.tlvs \in Seq(TLV) /\ L \in Nat
      BY PayloadNumbers, OffsetNext
<1>2. j + 1 \in 1 .. L /\ j + 1 \in 0 .. L /\ L \in 0 .. L
      BY <1>1
<1>3. t \in TLV /\ n \in Nat
      BY <1>1, <1>2, TlvFields
<1>4. Offset(s, j + 1) = p + 4 + n
      BY OffsetNext
<1>5. p + 4 + n <= P
    <2>1. Offset(s, L) + s.tail = P /\ s \in Snacs
          BY PayloadNumbers
    <2>2. s.tail \in Nat
          BY <2>1, SnacFields
    <2>3. Offset(s, j + 1) <= Offset(s, L) /\ Offset(s, L) \in Nat
        <3>1. Offset(s, L) \in Nat /\ Offset(s, j + 1) \in Nat
              BY <1>2, OffsetNext
        <3>2. CASE j + 1 = L
              BY <3>1, <3>2
        <3>3. CASE j + 1 < L
            <4>1. Offset(s, j + 1) + 4 <= Offset(s, L)
                  BY <1>2, <3>3, OffsetsGrow
            <4>q. QED BY <3>1, <4>1
        <3>q. QED BY <1>2, <3>2, <3>3
    <2>q. QED BY <1>1, <1>3, <1>4, <2>1, <2>2, <2>3
<1>6. TlvAt(s, pl.pos) = t
    <2>1. pl.pos = p
          BY DEF Read
    <2>q. QED BY <2>1, TlvAtOffset
<1>7. t = naf_tlv_new(t.type, t.length, t.sections)
      BY <1>3 DEF naf_tlv_new, TLV
<1>8. P = PayloadLen(s)
      OBVIOUS
<1> HIDE DEF P, p, t, n
<1>9. RoundTyped(pl) = Read(s, p + 2) /\ naf_sbuf_has(pl, 2)
    <2>1. P - p >= 2
          BY <1>1, <1>3, <1>5
    <2>q. QED BY <1>1, <1>8, <2>1, ReadMore DEF RoundTyped
<1>10. RoundSized(pl) = Read(s, p + 2 + 2) /\ naf_sbuf_has(RoundTyped(pl), 2)
    <2>1. P - (p + 2) >= 2 /\ p + 2 \in Nat
          BY <1>1, <1>3, <1>5
    <2>q. QED BY <1>1, <1>8, <1>9, <2>1, ReadMore DEF RoundSized
<1>11. RoundLength(s, pl) = n /\ RoundType(s, pl) = t.type
      BY <1>6, <1>9, <1>10 DEF RoundLength, RoundType, n
<1>12. RoundWhole(s, pl) /\ RoundNext(s, pl) = Read(s, p + 2 + 2 + n)
    <2>1. P - (p + 2 + 2) >= n /\ p + 2 + 2 \in Nat
          BY <1>1, <1>3, <1>5
    <2>2. naf_sbuf_has(Read(s, p + 2 + 2), n)
          BY <1>1, <1>3, <1>8, <2>1, ReadMore
    <2>3. naf_sbuf_get(Read(s, p + 2 + 2), n) = Read(s, p + 2 + 2 + n)
          BY <1>1, <1>3, <1>8, <2>1, ReadMore
    <2>q. QED BY <1>10, <1>11, <2>2, <2>3 DEF RoundWhole, RoundNext, naf_sbuf_getraw
<1>13. p + 2 + 2 + n = p + 4 + n
      BY <1>1, <1>3
<1>14. RoundTlv(s, pl) = t
      BY <1>6, <1>7, <1>11 DEF RoundTlv, n
<1>q. QED BY <1>4, <1>12, <1>13, <1>14 DEF p, t

\* A round behind the last TLV.  Of two bytes it makes an empty TLV; of three,
\* too, and leaves one; of a type and a length it makes none.
LEMMA RoundBehind ==
    ASSUME NEW s, Accepted(s), s.tail # 0
    PROVE  LET P  == PayloadLen(s)
               pl == Read(s, Offset(s, Len(s.tlvs)))
           IN  /\ s.tail = 1 => RoundNext(s, pl) = Read(s, P - 1)
               /\ s.tail = 2 => /\ RoundWhole(s, pl) /\ RoundTlv(s, pl) = NoValue("other")
                                /\ RoundNext(s, pl) = Read(s, P)
               /\ s.tail = 3 => RoundWhole(s, pl) /\ RoundNext(s, pl) = Read(s, P - 1)
               /\ s.tail = 4 => ~RoundWhole(s, pl) /\ RoundNext(s, pl) = Read(s, P)
<1> DEFINE P == PayloadLen(s)
           L == Len(s.tlvs)
           p == Offset(s, L)
           pl == Read(s, p)
           v == naf_tlv_new("other", IF s.tail = 4 THEN 1 ELSE 0, <<>>)
<1>1. P \in Nat /\ s \in Snacs /\ L \in Nat /\ p + s.tail = P
      BY PayloadNumbers
<1>2. L \in 0 .. L /\ ~(L < L)
      BY <1>1
<1>3. p \in Nat
      BY <1>2, OffsetNext
<1>4. TlvAt(s, pl.pos) = v
    <2>1. pl.pos = p
          BY DEF Read
    <2>q. QED BY <1>2, <2>1, TlvAtOffset
<1>5. v.type = "other" /\ v.sections = <<>> /\ v.length = IF s.tail = 4 THEN 1 ELSE 0
      BY DEF naf_tlv_new
<1>6. s.tail \in {1, 2, 3, 4}
      BY <1>1, SnacFields
<1>7. P = PayloadLen(s) /\ P - 1 = PayloadLen(s) - 1
      OBVIOUS
<1> HIDE DEF P, p, v
<1>8. ASSUME s.tail = 1
      PROVE  RoundNext(s, pl) = Read(s, P - 1)
    <2>1. P - p = 1 /\ P - 1 = p
          BY <1>1, <1>3, <1>8
    <2>2. naf_sbuf_get(pl, 2) = pl /\ ~naf_sbuf_has(pl, 2)
          BY <1>1, <1>3, <1>7, <2>1, ReadMore
    <2>3. RoundTyped(pl) = pl /\ RoundSized(pl) = pl /\ RoundLength(s, pl) = 0
          BY <2>2 DEF RoundTyped, RoundSized, RoundLength
    <2>4. naf_sbuf_get(pl, 0) = pl
        <3>1. naf_sbuf_get(Read(s, p), 0) = IF P - p >= 0 THEN Read(s, p + 0) ELSE Read(s, p)
              BY <1>1, <1>3, <1>7, ReadMore
        <3>q. QED BY <1>3, <3>1
    <2>q. QED BY <2>1, <2>3, <2>4 DEF RoundNext, naf_sbuf_getraw
<1>9. ASSUME s.tail = 2
      PROVE  RoundWhole(s, pl) /\ RoundTlv(s, pl) = NoValue("other") /\ RoundNext(s, pl) = Read(s, P)
    <2>1. P - p = 2 /\ p + 2 = P /\ P - (p + 2) = 0 /\ p + 2 \in Nat
          BY <1>1, <1>3, <1>9
    <2>2. naf_sbuf_get(pl, 2) = Read(s, p + 2) /\ naf_sbuf_has(pl, 2)
          BY <1>1, <1>3, <1>7, <2>1, ReadMore
    <2>3. naf_sbuf_get(Read(s, p + 2), 2) = Read(s, p + 2) /\ ~naf_sbuf_has(Read(s, p + 2), 2)
          BY <1>1, <1>7, <2>1, ReadMore
    <2>4. /\ RoundTyped(pl) = Read(s, p + 2) /\ RoundSized(pl) = Read(s, p + 2)
          /\ RoundLength(s, pl) = 0 /\ RoundType(s, pl) = "other"
          BY <1>4, <1>5, <2>2, <2>3 DEF RoundTyped, RoundSized, RoundLength, RoundType
    <2>5. naf_sbuf_get(Read(s, p + 2), 0) = Read(s, p + 2) /\ naf_sbuf_has(Read(s, p + 2), 0)
        <3>1. naf_sbuf_get(Read(s, p + 2), 0)
                  = IF P - (p + 2) >= 0 THEN Read(s, p + 2 + 0) ELSE Read(s, p + 2)
              BY <1>1, <1>7, <2>1, ReadMore
        <3>2. naf_sbuf_has(Read(s, p + 2), 0)
              BY <1>1, <1>7, <2>1, ReadMore
        <3>q. QED BY <2>1, <3>1, <3>2
    <2>6. RoundTlv(s, pl) = NoValue("other")
          BY <1>4, <1>5, <2>4 DEF RoundTlv, NoValue
    <2>q. QED BY <2>1, <2>4, <2>5, <2>6 DEF RoundNext, RoundWhole, naf_sbuf_getraw
<1>10. ASSUME s.tail = 3
       PROVE  RoundWhole(s, pl) /\ RoundNext(s, pl) = Read(s, P - 1)
    <2>1. P - p = 3 /\ p + 2 = P - 1 /\ P - (p + 2) = 1 /\ p + 2 \in Nat
          BY <1>1, <1>3, <1>10
    <2>2. naf_sbuf_get(pl, 2) = Read(s, p + 2)
          BY <1>1, <1>3, <1>7, <2>1, ReadMore
    <2>3. naf_sbuf_get(Read(s, p + 2), 2) = Read(s, p + 2) /\ ~naf_sbuf_has(Read(s, p + 2), 2)
          BY <1>1, <1>7, <2>1, ReadMore
    <2>4. RoundSized(pl) = Read(s, p + 2) /\ RoundLength(s, pl) = 0
          BY <2>2, <2>3 DEF RoundTyped, RoundSized, RoundLength
    <2>5. naf_sbuf_get(Read(s, p + 2), 0) = Read(s, p + 2) /\ naf_sbuf_has(Read(s, p + 2), 0)
        <3>1. naf_sbuf_get(Read(s, p + 2), 0)
                  = IF P - (p + 2) >= 0 THEN Read(s, p + 2 + 0) ELSE Read(s, p + 2)
              BY <1>1, <1>7, <2>1, ReadMore
        <3>2. naf_sbuf_has(Read(s, p + 2), 0)
              BY <1>1, <1>7, <2>1, ReadMore
        <3>q. QED BY <2>1, <3>1, <3>2
    <2>q. QED BY <2>1, <2>4, <2>5 DEF RoundNext, RoundWhole, naf_sbuf_getraw
<1>11. ASSUME s.tail = 4
       PROVE  ~RoundWhole(s, pl) /\ RoundNext(s, pl) = Read(s, P)
    <2>1. P - p = 4 /\ p + 2 \in Nat /\ P - (p + 2) = 2 /\ p + 2 + 2 = P /\ P - P = 0
          BY <1>1, <1>3, <1>11
    <2>2. naf_sbuf_get(pl, 2) = Read(s, p + 2)
          BY <1>1, <1>3, <1>7, <2>1, ReadMore
    <2>3. naf_sbuf_get(Read(s, p + 2), 2) = Read(s, p + 2 + 2) /\ naf_sbuf_has(Read(s, p + 2), 2)
          BY <1>1, <1>7, <2>1, ReadMore
    <2>4. RoundSized(pl) = Read(s, P) /\ RoundLength(s, pl) = 1
          BY <1>4, <1>5, <1>11, <2>1, <2>2, <2>3 DEF RoundTyped, RoundSized, RoundLength
    <2>5. naf_sbuf_get(Read(s, P), 1) = Read(s, P) /\ ~naf_sbuf_has(Read(s, P), 1)
          BY <1>1, <1>7, <2>1, ReadMore
    <2>q. QED BY <2>4, <2>5 DEF RoundNext, RoundWhole, naf_sbuf_getraw
<1>q. QED BY <1>6, <1>8, <1>9, <1>10, <1>11 DEF P, p

\* A round in front of a single byte reads nothing.
LEMMA RoundStuck ==
    ASSUME NEW s, Accepted(s), PayloadLen(s) # 0
    PROVE  RoundNext(s, Read(s, PayloadLen(s) - 1)) = Read(s, PayloadLen(s) - 1)
<1> DEFINE P == PayloadLen(s)
           p == P - 1
           pl == Read(s, p)
<1>1. P \in Nat
      BY PayloadNumbers
<1>2. P = PayloadLen(s) /\ p = PayloadLen(s) - 1
      OBVIOUS
<1>3. P # 0
      OBVIOUS
<1>4. p \in Nat /\ P - p = 1
      BY <1>1, <1>3
<1> HIDE DEF P, p
<1>5. naf_sbuf_get(pl, 2) = pl /\ ~naf_sbuf_has(pl, 2)
      BY <1>1, <1>2, <1>4, ReadMore
<1>6. RoundTyped(pl) = pl /\ RoundSized(pl) = pl /\ RoundLength(s, pl) = 0
      BY <1>5 DEF RoundTyped, RoundSized, RoundLength
<1>7. naf_sbuf_get(pl, 0) = pl
    <2>1. naf_sbuf_get(Read(s, p), 0) = IF P - p >= 0 THEN Read(s, p + 0) ELSE Read(s, p)
          BY <1>1, <1>2, <1>4, ReadMore
    <2>q. QED BY <1>4, <2>1
<1>q. QED BY <1>2, <1>6, <1>7 DEF RoundNext, naf_sbuf_getraw

-----------------------------------------------------------------------------
(* The inductive invariant *)

\* p bytes are read and give the TLVs of l: some TLVs of the payload, or all
\* of them and the tail.
ReadSo(s, p, l) ==
    \/ \E j \in 0 .. Len(s.tlvs) : l = SubSeq(s.tlvs, 1, j) /\ p = Offset(s, j)
    \/ l = Held(s) /\ p = PayloadLen(s)

\* The loops of naf_tlv_parse_limit.  With a byte left over they never get any
\* further; without, user info is what comes first.
Parsing ==
    /\ payload.pos \in Nat /\ payload = Read(snac, payload.pos)
    /\ \/ PayloadLen(snac) # 0 /\ payload.pos = PayloadLen(snac) - 1
       \/ /\ srcinfo \in Seq(TLV) /\ tlvh \in Seq(TLV)
          /\ ReadSo(snac, payload.pos, srcinfo \o tlvh)
          /\ pc = "userinfo" => tlvh = <<>> /\ Len(srcinfo) < Info(snac)
          /\ pc = "parse" => \/ Len(srcinfo) = Info(snac)
                             \/ /\ Len(srcinfo) < Info(snac) /\ tlvh = <<>>
                                /\ srcinfo = Held(snac) /\ payload.pos = PayloadLen(snac)

\* The first message block and its sections.
Block(s) == Msg(s)[FirstOf(Msg(s), "msgblock")]
HasBlock(s) == Typed(Msg(s), "msgblock") # {}
SectionsOf(s) == IF HasBlock(s) THEN Block(s).sections ELSE <<>>

\* toscar_icbm__extractmsgtext has converted the first k sections.
Converting ==
    /\ gm.text = NULL /\ gm.msgtlv = IF HasBlock(snac) THEN Block(snac) ELSE NULL
    /\ \E k \in 0 .. Len(SectionsOf(snac)) :
          /\ sections = SubSeq(SectionsOf(snac), k + 1, Len(SectionsOf(snac)))
          /\ unrepresentable = ~AllOf(SubSeq(SectionsOf(snac), 1, k))
          /\ ~unrepresentable =>
                msgtext = IF k = 0 THEN NULL ELSE TextOf(SubSeq(SectionsOf(snac), 1, k))

\* The k-th list from the end of todo, and all of them.
Back(lists, k) == IF k <= Len(lists) THEN lists[Len(lists) + 1 - k] ELSE <<>>
Flat(lists) == Back(lists, 4) \o Back(lists, 3) \o Back(lists, 2) \o Back(lists, 1)

\* The message block made of a text, and what goes out: that alone for a
\* message of timps-otr.
MadeOf(n) == naf_tlv_new("msgblock", MSGBLOCKLEN + n, <<[encoding |-> "iso", bytes |-> n]>>)
Outgoing(d, s, otr, text) == IF otr THEN <<MadeOf(text)>> ELSE WholeTo(d, s)

\* The messages Framed is about.
Fits == IF gm.otr THEN gm.text <= MAXTEXT ELSE WellFormed(snac)

\* naf_tlv_render has rendered the beginning of what should go out, and there
\* is room for the rest unless the buffer is full.
Rendering ==
    /\ dir \in {"tohost", "toclient"}
    /\ todo \in Seq(Seq(TLV)) /\ Len(todo) <= 4 /\ sent \in Seq(TLV)
    /\ out \in Sbuf /\ out.pos = OutHeadLen + Size(sent)
    /\ out.pos <= out.buflen /\ out.buflen <= NAF_SBUF_DEFAULT_MAXBUFLEN
    /\ \/ /\ sent \o Flat(todo) = Outgoing(dir, snac, gm.otr, gm.text)
          /\ Room(out, Cost(Flat(todo)))
       \/ /\ IsPrefix(sent, Outgoing(dir, snac, gm.otr, gm.text))
          /\ out.buflen - out.pos = 0

\* What a message carries, taken from a payload or made by timps-otr.
FromPayload ==
    /\ srcinfo = First(Info(snac), Held(snac)) /\ tlvh = NotUnderstood(Msg(snac))
    /\ gm.ack = (Typed(Msg(snac), "ack") # {})
    /\ gm.auto = (Typed(Msg(snac), "autoresponse") # {})
FromOtr ==
    /\ srcinfo = <<>> /\ tlvh = <<>> /\ gm.text \in Nat /\ gm.msgtlv = NULL
    /\ gm.ack = FALSE /\ gm.auto = FALSE

IInv ==
    /\ pc \in {"idle", "head", "userinfo", "parse", "chan", "text", "route", "render"}
    /\ pc # "idle" => Accepted(snac)
    /\ pc \in {"idle", "head"} => srcinfo = <<>> /\ tlvh = <<>>
    /\ pc \in {"idle", "head", "userinfo", "parse", "chan"} =>
          gm = NewMsg /\ msgtext = NULL /\ unrepresentable = FALSE
    /\ pc # "render" => sent = <<>>
    /\ pc = "head" => payload = Read(snac, 0)
    /\ pc \in {"userinfo", "parse"} => Parsing
    /\ pc = "chan" => srcinfo = First(Info(snac), Held(snac)) /\ tlvh = Msg(snac)
    /\ pc \in {"text", "route"} =>
          gm = [text |-> gm.text, msgtlv |-> gm.msgtlv, ack |-> gm.ack, auto |-> gm.auto, otr |-> gm.otr]
    /\ pc = "text" => gm.otr = FALSE /\ FromPayload
    /\ pc = "text" /\ WellFormed(snac) => Converting
    /\ pc = "route" /\ gm.otr => FromOtr
    /\ pc = "route" /\ ~gm.otr => FromPayload
    /\ pc = "route" /\ ~gm.otr /\ WellFormed(snac) => MsgBlock = BlockOf(Msg(snac))
    /\ pc = "render" /\ Fits => Rendering

\* All of the payload is read: that is all the TLVs it holds.
LEMMA ReadAll ==
    ASSUME NEW s, Accepted(s), NEW l \in Seq(TLV), ReadSo(s, PayloadLen(s), l)
    PROVE  l = Held(s)
<1>1. SUFFICES ASSUME NEW j \in 0 .. Len(s.tlvs), l = SubSeq(s.tlvs, 1, j), PayloadLen(s) = Offset(s, j)
               PROVE  l = Held(s)
      BY DEF ReadSo
<1> DEFINE L == Len(s.tlvs)
<1>2. /\ s \in Snacs /\ s.tlvs \in Seq(TLV) /\ L \in Nat
      /\ Offset(s, L) + s.tail = Offset(s, j)
      BY <1>1, PayloadNumbers
<1>3. s.tail \in Nat /\ L \in 0 .. L
      BY <1>2, SnacFields
<1>4. Offset(s, L) \in Nat /\ Offset(s, j) \in Nat
      BY <1>3, OffsetNext
<1>5. j = L
    <2>1. CASE j < L
        <3>1. Offset(s, j) + 4 <= Offset(s, L)
              BY <1>3, <2>1, OffsetsGrow
        <3>q. QED BY <1>2, <1>3, <1>4, <3>1
    <2>q. QED BY <1>2, <2>1
<1>6. s.tail = 0
      BY <1>2, <1>3, <1>4, <1>5
<1>7. l = s.tlvs
      BY <1>1, <1>2, <1>5, PieceWhole
<1>8. Held(s) = s.tlvs
      BY <1>2, <1>6, PieceWhole DEF Held
<1>q. QED BY <1>7, <1>8

\* What a round of naf_tlv_parse_limit can do while there are bytes left: read
\* a TLV, find that its value is missing, or leave a single byte.
LEMMA RoundGoes ==
    ASSUME NEW s, Accepted(s), NEW p \in Nat, NEW l \in Seq(TLV), ReadSo(s, p, l),
           PayloadLen(s) - p > 0
    PROVE  LET pl == Read(s, p)
               t  == RoundTlv(s, pl)
           IN  \/ \E q \in Nat : /\ RoundWhole(s, pl) /\ RoundNext(s, pl) = Read(s, q)
                                 /\ t \in TLV /\ ReadSo(s, q, Append(l, t))
               \/ ~RoundWhole(s, pl) /\ RoundNext(s, pl) = Read(s, PayloadLen(s)) /\ l = Held(s)
               \/ /\ PayloadLen(s) # 0 /\ RoundNext(s, pl) = Read(s, PayloadLen(s) - 1)
                  /\ PayloadLen(s) - p = 1 \/ RoundWhole(s, pl)
<1> DEFINE P == PayloadLen(s)
           L == Len(s.tlvs)
           pl == Read(s, p)
           t == RoundTlv(s, pl)
<1>1. /\ s \in Snacs /\ s.tlvs \in Seq(TLV) /\ L \in Nat /\ P \in Nat
      /\ Offset(s, L) + s.tail = P
      BY PayloadNumbers
<1>2. PICK j \in 0 .. L : l = SubSeq(s.tlvs, 1, j) /\ p = Offset(s, j)
      BY <1>1 DEF ReadSo
<1>3. CASE j < L
    <2>1. RoundWhole(s, pl) /\ t = s.tlvs[j + 1] /\ RoundNext(s, pl) = Read(s, Offset(s, j + 1))
          BY <1>2, <1>3, RoundInside
    <2>2. j + 1 \in 0 .. L /\ j + 1 \in 1 .. L
          BY <1>1, <1>3
    <2>3. t \in TLV
          BY <1>1, <2>1, <2>2
    <2>4. Append(l, t) = SubSeq(s.tlvs, 1, j + 1)
          BY <1>1, <1>2, <1>3, <2>1, PieceGrows
    <2>5. ReadSo(s, Offset(s, j + 1), Append(l, t)) /\ Offset(s, j + 1) \in Nat
          BY <2>2, <2>4, OffsetNext DEF ReadSo
    <2>q. QED BY <2>1, <2>3, <2>5
<1>4. CASE ~(j < L)
    <2>1. j = L /\ l = s.tlvs /\ p = Offset(s, L)
          BY <1>1, <1>2, <1>4, PieceWhole
    <2>2. s.tail \in {1, 2, 3, 4}
        <3>1. s.tail \in {0, 1, 2, 3, 4}
              BY <1>1, SnacFields
        <3>2. s.tail # 0
              BY <1>1, <2>1
        <3>q. QED BY <3>1, <3>2
    <2>a. /\ s.tail = 1 => RoundNext(s, pl) = Read(s, P - 1)
          /\ s.tail = 2 => RoundWhole(s, pl) /\ t = NoValue("other") /\ RoundNext(s, pl) = Read(s, P)
          /\ s.tail = 3 => RoundWhole(s, pl) /\ RoundNext(s, pl) = Read(s, P - 1)
          /\ s.tail = 4 => ~RoundWhole(s, pl) /\ RoundNext(s, pl) = Read(s, P)
          BY <2>1, <2>2, RoundBehind
    <2>3. CASE s.tail = 1
        <3>1. P - p = 1 /\ P # 0
              BY <1>1, <2>1, <2>3
        <3>q. QED BY <2>a, <2>3, <3>1
    <2>4. CASE s.tail = 2
        <3>1. Held(s) = l \o <<NoValue("other")>>
              BY <2>1, <2>4 DEF Held
        <3>2. NoValue("other") \in TLV
              BY NoValueType DEF Types, SoundTlv
        <3>3. Append(l, t) = Held(s) /\ t \in TLV
            <4> DEFINE v == NoValue("other")
            <4>1. t = v
                  BY <2>a, <2>4
            <4> HIDE DEF v, t
            <4>2. v \in TLV
                  BY <3>2 DEF v
            <4>3. Append(l, v) = l \o <<v>>
                  BY <4>2
            <4>q. QED BY <3>1, <4>1, <4>2, <4>3 DEF v
        <3>4. ReadSo(s, P, Append(l, t))
              BY <3>3 DEF ReadSo
        <3>q. QED BY <1>1, <2>a, <2>4, <3>3, <3>4
    <2>5. CASE s.tail = 3
        <3>1. P # 0
              BY <1>1, <2>1, <2>5
        <3>q. QED BY <2>a, <2>5, <3>1
    <2>6. CASE s.tail = 4
        <3>1. Held(s) = l
              BY <2>1, <2>6, PieceWhole DEF Held
        <3>q. QED BY <2>a, <2>6, <3>1
    <2>q. QED BY <2>2, <2>3, <2>4, <2>5, <2>6
<1>q. QED BY <1>3, <1>4

\* User info and message are told apart by the number of TLVs.
LEMMA SplitHeld ==
    ASSUME NEW si \in Seq(TLV), NEW th \in Seq(TLV), NEW n \in Nat,
           Len(si) = n \/ (Len(si) < n /\ th = <<>>)
    PROVE  si = First(n, si \o th) /\ th = Rest(n, si \o th)
<1> DEFINE H == si \o th
<1>1. /\ H \in Seq(TLV) /\ Len(H) = Len(si) + Len(th)
      /\ \A i \in 1 .. Len(si) : H[i] = si[i]
      /\ \A i \in 1 .. Len(th) : H[Len(si) + i] = th[i]
      BY Joined
<1>2. CASE Len(si) < n /\ th = <<>>
    <2>1. H = si
          BY <1>2, PieceWhole
    <2>2. First(n, si) = SubSeq(si, 1, Len(si)) /\ Rest(n, si) = SubSeq(si, n + 1, Len(si))
          BY <1>2 DEF First, Rest
    <2>3. First(n, si) = si /\ Rest(n, si) = <<>>
          BY <1>2, <2>2, PieceWhole
    <2>q. QED BY <1>2, <2>1, <2>3
<1>3. CASE Len(si) = n
    <2> HIDE DEF H
    <2>1. n \in 0 .. Len(H) /\ Len(H) - n = Len(th)
          BY <1>1, <1>3
    <2>2. /\ SubSeq(H, 1, n) \in Seq(TLV) /\ Len(SubSeq(H, 1, n)) = n
          /\ \A i \in 1 .. n : SubSeq(H, 1, n)[i] = H[i]
          /\ SubSeq(H, n + 1, Len(H)) \in Seq(TLV) /\ Len(SubSeq(H, n + 1, Len(H))) = Len(H) - n
          /\ \A i \in 1 .. Len(H) - n : SubSeq(H, n + 1, Len(H))[i] = H[n + i]
          BY <1>1, <2>1, Pieces
    <2> DEFINE a == SubSeq(H, 1, n)
               b == SubSeq(H, n + 1, Len(H))
    <2>3. First(n, H) = a /\ Rest(n, H) = b
        <3>1. (IF n < Len(H) THEN n ELSE Len(H)) = n
              BY <2>1
        <3>q. QED BY <3>1 DEF First, Rest
    <2> HIDE DEF a, b
    <2>4. a \in Seq(TLV) /\ Len(a) = Len(si) /\ \A i \in 1 .. Len(si) : a[i] = si[i]
          BY <1>1, <1>3, <2>2 DEF a
    <2>5. b \in Seq(TLV) /\ Len(b) = Len(th) /\ \A i \in 1 .. Len(th) : b[i] = th[i]
        <3>1. b \in Seq(TLV) /\ Len(b) = Len(th) /\ \A i \in 1 .. Len(th) : b[i] = H[n + i]
              BY <2>1, <2>2 DEF b
        <3>q. QED BY <1>1, <1>3, <3>1
    <2>6. a = si
          BY <2>4, SeqEqual
    <2>7. b = th
          BY <2>5, SeqEqual
    <2>q. QED BY <2>3, <2>6, <2>7 DEF H
<1>q. QED BY <1>2, <1>3

LEMMA InitIInv == Init => IInv
BY DEF Init, IInv

\* Nothing is kept of a message that was handled.
LEMMA ReturnKeeps == Return => IInv'
<1> SUFFICES ASSUME Return PROVE IInv'
    OBVIOUS
<1>1. pc' = "idle" /\ srcinfo' = <<>> /\ tlvh' = <<>> /\ gm' = NewMsg /\ msgtext' = NULL
      /\ unrepresentable' = FALSE /\ sent' = <<>>
      BY DEF Return
<1>q. QED BY <1>1 DEF IInv

\* A payload arrives.
LEMMA HandlereadKeeps == IInv /\ toscar_flap_handleread => IInv'
<1> SUFFICES ASSUME IInv, toscar_flap_handleread PROVE IInv'
    OBVIOUS
<1>1. /\ pc = "idle" /\ pc' = "head"
      /\ UNCHANGED <<srcinfo, tlvh, gm, msgtext, unrepresentable, sent>>
      BY DEF toscar_flap_handleread
<1>a. PICK head \in Heads, tail \in 0 .. 4, n \in 0 .. MaxTlvs :
          \E tlvs \in [1 .. n -> Tlvs] :
             /\ snac' = [head |-> head, tlvs |-> tlvs, tail |-> tail]
             /\ SNACHDRLEN + PayloadLen(snac') <= MAXSNACLEN
             /\ payload' = naf_sbuf_init_buf(PayloadLen(snac'))
      BY DEF toscar_flap_handleread
<1>2. PICK tlvs \in [1 .. n -> Tlvs] :
          /\ snac' = [head |-> head, tlvs |-> tlvs, tail |-> tail]
          /\ SNACHDRLEN + PayloadLen(snac') <= MAXSNACLEN
          /\ payload' = naf_sbuf_init_buf(PayloadLen(snac'))
      BY <1>a
<1>3. MaxTlvs \in Nat
      BY BoundsAssumption
<1>4. n \in Nat
      BY <1>3
<1>5. tlvs \in Seq(Tlvs)
      BY <1>4
<1>6. Accepted(snac')
      BY <1>2, <1>5 DEF Accepted, Snacs
<1>7. PayloadLen(snac') \in Nat /\ PayloadLen(snac') <= 8182
      BY <1>6, PayloadNumbers
<1>8. PayloadLen(snac') % U16 = PayloadLen(snac')
    <2> DEFINE P == PayloadLen(snac')
    <2>1. P \in Nat /\ P <= 8182
          BY <1>7
    <2> HIDE DEF P
    <2>2. P % 65536 = P
          BY <2>1
    <2>q. QED BY <2>2 DEF P, U16
<1>9. payload' = Read(snac', 0)
      BY <1>2, <1>8 DEF naf_sbuf_init_buf, Read
<1>q. QED BY <1>1, <1>6, <1>9 DEF IInv

\* The head is read.
LEMMA HeadKeeps == IInv /\ toscar_snachandler_head => IInv'
<1> SUFFICES ASSUME IInv, toscar_snachandler_head PROVE IInv'
    OBVIOUS
<1>1. /\ pc = "head" /\ payload' = naf_sbuf_get(payload, HeadLen(snac))
      /\ pc' = IF snac.head.subtype = "0007" /\ snac.head.tlvcnt # 0 THEN "userinfo" ELSE "parse"
      /\ snac' = snac /\ srcinfo' = srcinfo /\ tlvh' = tlvh /\ gm' = gm /\ msgtext' = msgtext
      /\ unrepresentable' = unrepresentable /\ sent' = sent
      BY DEF toscar_snachandler_head
<1>2. /\ Accepted(snac) /\ payload = Read(snac, 0) /\ srcinfo = <<>> /\ tlvh = <<>> /\ gm = NewMsg
      /\ msgtext = NULL /\ unrepresentable = FALSE /\ sent = <<>>
      BY <1>1 DEF IInv
<1> DEFINE h == HeadLen(snac)
           L == Len(snac.tlvs)
<1>3. /\ h \in Nat /\ h <= PayloadLen(snac) /\ PayloadLen(snac) \in Nat /\ Offset(snac, 0) = h
      /\ snac.tlvs \in Seq(TLV) /\ L \in Nat
      BY <1>2, PayloadNumbers
<1>4. payload' = Read(snac, h) /\ payload'.pos = h
    <2> HIDE DEF h
    <2>1. PayloadLen(snac) - 0 >= h /\ 0 + h = h
          BY <1>3
    <2>2. naf_sbuf_get(Read(snac, 0), h) = Read(snac, 0 + h)
          BY <1>3, <2>1, ReadMore
    <2>3. payload' = Read(snac, h)
          BY <1>1, <1>2, <2>1, <2>2 DEF h
    <2>4. Read(snac, h).pos = h
          BY DEF Read
    <2>q. QED BY <2>3, <2>4
<1>5. ReadSo(snac, h, <<>>)
    <2>1. SubSeq(snac.tlvs, 1, 0) = <<>> /\ 0 \in 0 .. L
          BY <1>3, PieceWhole
    <2>q. QED BY <1>3, <2>1 DEF ReadSo
<1>6. <<>> \in Seq(TLV) /\ <<>> \o <<>> = <<>> /\ Len(<<>>) = 0
      OBVIOUS
<1>7. pc' \in {"userinfo", "parse"}
      BY <1>1
<1>8. pc' = "userinfo" => 0 < Info(snac)
    <2>1. snac.head.tlvcnt \in Nat
          BY <1>2, SnacFields DEF Accepted
    <2>q. QED BY <1>1, <2>1 DEF Info
<1>9. pc' = "parse" => 0 = Info(snac)
      BY <1>1 DEF Info
<1>10. Parsing'
    <2> HIDE DEF h
    <2>1. srcinfo' = <<>> /\ tlvh' = <<>> /\ srcinfo' \o tlvh' = <<>>
          BY <1>1, <1>2, <1>6
    <2>2. ReadSo(snac', payload'.pos, srcinfo' \o tlvh')
          BY <1>1, <1>4, <1>5, <2>1
    <2>3. payload'.pos \in Nat /\ payload' = Read(snac', payload'.pos)
          BY <1>1, <1>3, <1>4
    <2>4. pc' = "userinfo" => tlvh' = <<>> /\ Len(srcinfo') < Info(snac')
          BY <1>1, <1>6, <1>8, <2>1
    <2>5. pc' = "parse" => Len(srcinfo') = Info(snac')
          BY <1>1, <1>6, <1>9, <2>1
    <2>q. QED BY <1>6, <2>1, <2>2, <2>3, <2>4, <2>5 DEF Parsing
<1>q. QED BY <1>1, <1>2, <1>7, <1>10 DEF IInv

\* What a round of naf_tlv_parse_limit does, in the terms used above.
LEMMA RoundIs ==
    ASSUME Accepted(snac), payload = Read(snac, payload.pos), NEW STATE list, NEW STATE limit,
           NEW then, NEW ACTION listp, ParseRound(list, listp, limit, then)
    PROVE  /\ naf_sbuf_bytesremaining(payload) > 0 /\ payload' = RoundNext(snac, payload)
           /\ listp = IF RoundWhole(snac, payload) THEN Append(list, RoundTlv(snac, payload)) ELSE list
           /\ pc' = IF RoundWhole(snac, payload) /\ Len(list) + 1 # limit THEN pc ELSE then
BY DEF ParseRound, RoundNext, RoundWhole, RoundTlv, RoundTyped, RoundSized, RoundType, RoundLength

\* How far the payload is read, and how much of it is left.
LEMMA ParsingAt ==
    ASSUME Parsing, Accepted(snac)
    PROVE  /\ PayloadLen(snac) \in Nat /\ payload.pos \in Nat
           /\ naf_sbuf_bytesremaining(payload) = PayloadLen(snac) - payload.pos
<1>1. payload.pos \in Nat /\ payload = Read(snac, payload.pos)
      BY DEF Parsing
<1>2. payload.buflen = PayloadLen(snac)
      BY <1>1 DEF Read
<1>3. PayloadLen(snac) \in Nat
      BY PayloadNumbers
<1>q. QED BY <1>1, <1>2, <1>3 DEF naf_sbuf_bytesremaining

\* A single byte is left and stays.
LEMMA StuckStays ==
    ASSUME Parsing, Accepted(snac), payload.pos = PayloadLen(snac) - 1, PayloadLen(snac) # 0
    PROVE  RoundNext(snac, payload) = payload
<1>1. payload = Read(snac, PayloadLen(snac) - 1)
      BY DEF Parsing
<1>q. QED BY <1>1, RoundStuck

\* A round over the user info.
LEMMA UserinfoKeeps == IInv /\ touserinfo_extract => IInv'
<1> SUFFICES ASSUME IInv, touserinfo_extract PROVE IInv'
    OBVIOUS
<1>1. /\ pc = "userinfo" /\ tlvh' = tlvh
      /\ snac' = snac /\ gm' = gm /\ msgtext' = msgtext
      /\ unrepresentable' = unrepresentable /\ sent' = sent
      /\ \/ ParseRound(srcinfo, srcinfo', snac.head.tlvcnt, "parse")
         \/ /\ naf_sbuf_bytesremaining(payload) = 0 /\ pc' = "parse" /\ payload' = payload
            /\ srcinfo' = srcinfo
      BY DEF touserinfo_extract, ParseEnd
<1>2. /\ Accepted(snac) /\ Parsing /\ gm = NewMsg
      /\ msgtext = NULL /\ unrepresentable = FALSE /\ sent = <<>>
      BY <1>1 DEF IInv
<1> DEFINE P == PayloadLen(snac)
           p == payload.pos
           n == snac.head.tlvcnt
<1>3. P \in Nat /\ p \in Nat /\ naf_sbuf_bytesremaining(payload) = P - p /\ payload = Read(snac, p)
      BY <1>2, ParsingAt DEF Parsing
<1>p. \A q : Read(snac, q).pos = q
      BY DEF Read
<1>4. SUFFICES pc' \in {"userinfo", "parse"} /\ Parsing'
      BY <1>1, <1>2, <1>4 DEF IInv
<1>5. CASE P # 0 /\ p = P - 1
    <2>1. ParseRound(srcinfo, srcinfo', snac.head.tlvcnt, "parse")
          BY <1>1, <1>3, <1>5
    <2>2. payload' = payload /\ pc' \in {"userinfo", "parse"}
        <3>1. payload' = RoundNext(snac, payload) /\ (pc' = pc \/ pc' = "parse")
              BY <1>2, <1>3, <2>1, RoundIs
        <3>q. QED BY <1>1, <1>2, <1>5, <3>1, StuckStays
    <2>3. payload'.pos \in Nat /\ payload' = Read(snac', payload'.pos)
          BY <1>1, <1>3, <2>2
    <2>4. PayloadLen(snac') # 0 /\ payload'.pos = PayloadLen(snac') - 1
          BY <1>1, <1>5, <2>2
    <2>q. QED BY <2>2, <2>3, <2>4 DEF Parsing
<1>6. CASE ~(P # 0 /\ p = P - 1)
    <2>1. /\ srcinfo \in Seq(TLV) /\ tlvh = <<>> /\ ReadSo(snac, p, srcinfo \o tlvh)
          /\ Len(srcinfo) < Info(snac)
          BY <1>1, <1>2, <1>6 DEF Parsing
    <2>2. srcinfo \o tlvh = srcinfo /\ ReadSo(snac, p, srcinfo) /\ Info(snac) \in Nat /\ Info(snac) = n
        <3>1. srcinfo \o tlvh = srcinfo
              BY <2>1, PieceWhole
        <3>2. n \in Nat /\ Info(snac) \in {0, n}
              BY <1>2, SnacFields DEF Accepted, Info
        <3>3. Len(srcinfo) \in Nat
              BY <2>1
        <3>q. QED BY <2>1, <3>1, <3>2, <3>3
    <2> HIDE DEF p, P, n
    <2>3. CASE /\ naf_sbuf_bytesremaining(payload) = 0 /\ pc' = "parse" /\ payload' = payload
               /\ srcinfo' = srcinfo
        <3>1. p = P
              BY <1>3, <2>3
        <3>2. srcinfo = Held(snac)
              BY <1>2, <2>1, <2>2, <3>1, ReadAll DEF P
        <3>3. /\ payload'.pos \in Nat /\ payload' = Read(snac', payload'.pos)
              /\ payload'.pos = PayloadLen(snac')
              BY <1>1, <1>3, <2>3, <3>1 DEF p, P
        <3>4. /\ srcinfo' \in Seq(TLV) /\ tlvh' \in Seq(TLV) /\ tlvh' = <<>>
              /\ ReadSo(snac', payload'.pos, srcinfo' \o tlvh')
              /\ Len(srcinfo') < Info(snac') /\ srcinfo' = Held(snac')
            <4>1. /\ srcinfo' = srcinfo /\ tlvh' = tlvh /\ snac' = snac /\ payload'.pos = p
                  BY <1>1, <2>3 DEF p
            <4>2. <<>> \in Seq(TLV)
                  OBVIOUS
            <4>q. QED BY <2>1, <3>2, <4>1, <4>2
        <3>q. QED BY <2>3, <3>3, <3>4 DEF Parsing
    <2>4. CASE ParseRound(srcinfo, srcinfo', snac.head.tlvcnt, "parse")
        <3> DEFINE t == RoundTlv(snac, payload)
                   w == RoundWhole(snac, payload)
        <3>1. /\ P - p > 0 /\ payload' = RoundNext(snac, payload)
              /\ srcinfo' = IF w THEN Append(srcinfo, t) ELSE srcinfo
              /\ pc' = IF w /\ Len(srcinfo) + 1 # n THEN "userinfo" ELSE "parse"
              BY <1>1, <1>2, <1>3, <2>4, RoundIs DEF p, n
        <3>2. \/ \E q \in Nat : /\ w /\ RoundNext(snac, payload) = Read(snac, q)
                                /\ t \in TLV /\ ReadSo(snac, q, Append(srcinfo, t))
              \/ ~w /\ RoundNext(snac, payload) = Read(snac, P) /\ srcinfo = Held(snac)
              \/ P # 0 /\ RoundNext(snac, payload) = Read(snac, P - 1)
              BY <1>2, <1>3, <2>1, <2>2, <3>1, RoundGoes DEF P
        <3> HIDE DEF t, w
        <3>3. <<>> \in Seq(TLV) /\ tlvh' = <<>> /\ pc' \in {"userinfo", "parse"}
              BY <1>1, <2>1, <3>1
        <3>4. CASE \E q \in Nat : /\ w /\ RoundNext(snac, payload) = Read(snac, q)
                                  /\ t \in TLV /\ ReadSo(snac, q, Append(srcinfo, t))
            <4>1. PICK q \in Nat : /\ w /\ RoundNext(snac, payload) = Read(snac, q)
                                   /\ t \in TLV /\ ReadSo(snac, q, Append(srcinfo, t))
                  BY <3>4
            <4> DEFINE l == Append(srcinfo, t)
            <4>2. l \in Seq(TLV) /\ Len(l) = Len(srcinfo) + 1 /\ Len(srcinfo) \in Nat
                  BY <2>1, <4>1, AppendIs
            <4>3. srcinfo' = l /\ payload' = Read(snac, q) /\ payload'.pos = q
                  BY <1>p, <3>1, <4>1
            <4> HIDE DEF l
            <4>4. srcinfo' \o tlvh' = l
                  BY <3>3, <4>2, <4>3, PieceWhole
            <4>5. ReadSo(snac', payload'.pos, srcinfo' \o tlvh')
                  BY <1>1, <4>1, <4>3, <4>4 DEF l
            <4>6. payload'.pos \in Nat /\ payload' = Read(snac', payload'.pos)
                  BY <1>1, <4>3
            <4>7. pc' = "userinfo" => Len(srcinfo') < Info(snac')
                  BY <1>1, <2>1, <2>2, <3>1, <4>2, <4>3
            <4>8. pc' = "parse" => Len(srcinfo') = Info(snac')
                  BY <1>1, <2>1, <2>2, <3>1, <4>1, <4>2, <4>3
            <4>9. srcinfo' \in Seq(TLV) /\ tlvh' \in Seq(TLV)
                  BY <3>3, <4>2, <4>3
            <4>q. QED BY <3>3, <4>5, <4>6, <4>7, <4>8, <4>9 DEF Parsing
        <3>5. CASE ~w /\ RoundNext(snac, payload) = Read(snac, P) /\ srcinfo = Held(snac)
            <4>1. /\ payload' = Read(snac, P) /\ payload'.pos = P /\ pc' = "parse" /\ srcinfo' = srcinfo
                  BY <1>p, <3>1, <3>5
            <4>2. /\ payload'.pos \in Nat /\ payload' = Read(snac', payload'.pos)
                  /\ payload'.pos = PayloadLen(snac')
                  BY <1>1, <1>3, <4>1 DEF P
            <4>3. srcinfo' \o tlvh' = Held(snac')
                  BY <1>1, <2>2, <3>5, <4>1
            <4>4. /\ srcinfo' \in Seq(TLV) /\ tlvh' \in Seq(TLV) /\ tlvh' = <<>>
                  /\ ReadSo(snac', payload'.pos, srcinfo' \o tlvh')
                  /\ Len(srcinfo') < Info(snac') /\ srcinfo' = Held(snac')
                <5>1. ReadSo(snac', payload'.pos, srcinfo' \o tlvh')
                      BY <4>2, <4>3 DEF ReadSo
                <5>q. QED BY <1>1, <2>1, <3>3, <3>5, <4>1, <5>1
            <4>q. QED BY <3>3, <4>1, <4>2, <4>4 DEF Parsing
        <3>6. CASE P # 0 /\ RoundNext(snac, payload) = Read(snac, P - 1)
            <4>1. payload' = Read(snac, P - 1) /\ payload'.pos = P - 1 /\ P - 1 \in Nat
                  BY <1>p, <1>3, <3>1, <3>6
            <4>2. payload'.pos \in Nat /\ payload' = Read(snac', payload'.pos)
                  BY <1>1, <4>1
            <4>3. PayloadLen(snac') # 0 /\ payload'.pos = PayloadLen(snac') - 1
                  BY <1>1, <3>6, <4>1 DEF P
            <4>q. QED BY <3>3, <4>2, <4>3 DEF Parsing
        <3>q. QED BY <3>2, <3>4, <3>5, <3>6
    <2>q. QED BY <1>1, <2>3, <2>4
<1>q. QED BY <1>5, <1>6

\* A round over the message.
LEMMA ParseKeeps == IInv /\ naf_tlv_parse => IInv'
<1> SUFFICES ASSUME IInv, naf_tlv_parse PROVE IInv'
    OBVIOUS
<1>1. /\ pc = "parse" /\ srcinfo' = srcinfo
      /\ snac' = snac /\ gm' = gm /\ msgtext' = msgtext
      /\ unrepresentable' = unrepresentable /\ sent' = sent
      /\ \/ ~NoProgress /\ ParseRound(tlvh, tlvh', -1, "chan")
         \/ pc' = pc /\ payload' = payload /\ tlvh' = tlvh
         \/ /\ naf_sbuf_bytesremaining(payload) = 0 /\ pc' = "chan" /\ payload' = payload
            /\ tlvh' = tlvh
      BY DEF naf_tlv_parse, ParseEnd
<1>2. /\ Accepted(snac) /\ Parsing /\ gm = NewMsg
      /\ msgtext = NULL /\ unrepresentable = FALSE /\ sent = <<>>
      BY <1>1 DEF IInv
<1> DEFINE P == PayloadLen(snac)
           p == payload.pos
           l == srcinfo \o tlvh
<1>3. P \in Nat /\ p \in Nat /\ naf_sbuf_bytesremaining(payload) = P - p /\ payload = Read(snac, p)
      BY <1>2, ParsingAt DEF Parsing
<1>p. \A q : Read(snac, q).pos = q
      BY DEF Read
<1>4. CASE pc' = pc /\ payload' = payload /\ tlvh' = tlvh
    <2>1. Parsing'
          BY <1>1, <1>2, <1>4 DEF Parsing, PayloadLen, HeadLen, Info, Held, Read, ReadSo, Offset
    <2>q. QED BY <1>1, <1>2, <1>4, <2>1 DEF IInv
<1>5. CASE P # 0 /\ p = P - 1
    <2>1. naf_sbuf_bytesremaining(payload) = 1
          BY <1>3, <1>5
    <2>2. pc' = pc /\ payload' = payload /\ tlvh' = tlvh
          BY <1>1, <2>1 DEF NoProgress
    <2>q. QED BY <1>4, <2>2
<1>6. CASE ~(P # 0 /\ p = P - 1)
    <2>1. /\ srcinfo \in Seq(TLV) /\ tlvh \in Seq(TLV) /\ ReadSo(snac, p, l)
          /\ \/ Len(srcinfo) = Info(snac)
             \/ /\ Len(srcinfo) < Info(snac) /\ tlvh = <<>>
                /\ srcinfo = Held(snac) /\ p = P
          BY <1>1, <1>2, <1>6 DEF Parsing
    <2>2. l \in Seq(TLV) /\ Info(snac) \in Nat
        <3>1. l \in Seq(TLV)
              BY <2>1, Joined
        <3>2. Info(snac) \in Nat
              BY <1>2, SnacFields DEF Accepted, Info
        <3>q. QED BY <3>1, <3>2
    <2> HIDE DEF p, P, l
    <2>3. pc' = "chan" /\ tlvh' = tlvh /\ l = Held(snac) => IInv'
        <3> SUFFICES ASSUME pc' = "chan", tlvh' = tlvh, l = Held(snac) PROVE IInv'
            OBVIOUS
        <3>1. srcinfo = First(Info(snac), l) /\ tlvh = Rest(Info(snac), l)
              BY <2>1, <2>2, SplitHeld DEF l
        <3>2. srcinfo' = First(Info(snac'), Held(snac')) /\ tlvh' = Msg(snac')
              BY <1>1, <3>1 DEF Msg
        <3>q. QED BY <1>1, <1>2, <3>2 DEF IInv
    <2>4. CASE naf_sbuf_bytesremaining(payload) = 0 /\ pc' = "chan" /\ tlvh' = tlvh
        <3>1. p = P
              BY <1>3, <2>4
        <3>2. l = Held(snac)
              BY <1>2, <2>1, <2>2, <3>1, ReadAll DEF P
        <3>q. QED BY <2>3, <2>4, <3>2
    <2>5. CASE ParseRound(tlvh, tlvh', -1, "chan") /\ ~NoProgress
        <3> DEFINE t == RoundTlv(snac, payload)
                   w == RoundWhole(snac, payload)
        <3>0. Len(tlvh) \in Nat
              BY <2>1
        <3>1. /\ P - p > 0 /\ P - p # 1 /\ payload' = RoundNext(snac, payload)
              /\ tlvh' = IF w THEN Append(tlvh, t) ELSE tlvh
              /\ pc' = IF w THEN "parse" ELSE "chan"
              BY <1>1, <1>2, <1>3, <2>5, <3>0, RoundIs DEF p, NoProgress
        <3>2. \/ \E q \in Nat : /\ w /\ RoundNext(snac, payload) = Read(snac, q)
                                /\ t \in TLV /\ ReadSo(snac, q, Append(l, t))
              \/ ~w /\ RoundNext(snac, payload) = Read(snac, P) /\ l = Held(snac)
              \/ P # 0 /\ RoundNext(snac, payload) = Read(snac, P - 1) /\ (P - p = 1 \/ w)
              BY <1>2, <1>3, <2>1, <2>2, <3>1, RoundGoes DEF P
        <3> HIDE DEF t, w
        <3>4. CASE \E q \in Nat : /\ w /\ RoundNext(snac, payload) = Read(snac, q)
                                  /\ t \in TLV /\ ReadSo(snac, q, Append(l, t))
            <4>1. PICK q \in Nat : /\ w /\ RoundNext(snac, payload) = Read(snac, q)
                                   /\ t \in TLV /\ ReadSo(snac, q, Append(l, t))
                  BY <3>4
            <4>2. Append(tlvh, t) \in Seq(TLV) /\ srcinfo \o Append(tlvh, t) = Append(l, t)
                  BY <2>1, <4>1 DEF l
            <4>3. tlvh' = Append(tlvh, t) /\ pc' = "parse" /\ payload' = Read(snac, q)
                  /\ payload'.pos = q
                  BY <1>p, <3>1, <4>1
            <4>4. ReadSo(snac', payload'.pos, srcinfo' \o tlvh')
                  BY <1>1, <4>1, <4>2, <4>3
            <4>5. payload'.pos \in Nat /\ payload' = Read(snac', payload'.pos)
                  BY <1>1, <4>3
            <4>6. Len(srcinfo') = Info(snac')
                  BY <1>1, <1>3, <2>1, <3>1
            <4>7. srcinfo' \in Seq(TLV) /\ tlvh' \in Seq(TLV)
                  BY <1>1, <2>1, <4>2, <4>3
            <4>8. Parsing'
                  BY <4>3, <4>4, <4>5, <4>6, <4>7 DEF Parsing
            <4>q. QED BY <1>1, <1>2, <4>3, <4>8 DEF IInv
        <3>5. CASE ~w /\ RoundNext(snac, payload) = Read(snac, P) /\ l = Held(snac)
              BY <2>3, <3>1, <3>5
        <3>6. CASE P # 0 /\ RoundNext(snac, payload) = Read(snac, P - 1) /\ (P - p = 1 \/ w)
            <4>1. /\ payload' = Read(snac, P - 1) /\ payload'.pos = P - 1 /\ P - 1 \in Nat
                  /\ pc' = "parse"
                  BY <1>p, <1>3, <3>1, <3>6
            <4>2. payload'.pos \in Nat /\ payload' = Read(snac', payload'.pos)
                  BY <1>1, <4>1
            <4>3. PayloadLen(snac') # 0 /\ payload'.pos = PayloadLen(snac') - 1
                  BY <1>1, <3>6, <4>1 DEF P
            <4>4. Parsing'
                  BY <4>2, <4>3 DEF Parsing
            <4>q. QED BY <1>1, <1>2, <4>1, <4>4 DEF IInv
        <3>q. QED BY <3>2, <3>4, <3>5, <3>6
    <2>q. QED BY <1>1, <1>4, <2>4, <2>5
<1>q. QED BY <1>5, <1>6

\* The handler returns.
LEMMA ReturnsKeep ==
    \/ toscar_snachandler_error \/ OtherChannel \/ NotSent \/ toscar_flap_sendsbuf_consume
    => IInv'
BY ReturnKeeps DEF toscar_snachandler_error, OtherChannel, NotSent, toscar_flap_sendsbuf_consume

\* The message of a payload, its message block and the sections of that.
LEMMA MsgType ==
    ASSUME NEW s, Accepted(s)
    PROVE  /\ Msg(s) \in Seq(SoundTlv) /\ Msg(s) \in Seq(TLV)
           /\ HasBlock(s) => Block(s) \in SoundTlv /\ Block(s) \in TLV
           /\ SectionsOf(s) \in Seq(Section)
<1>1. s \in Snacs
      BY DEF Accepted
<1>2. Held(s) \in Seq(SoundTlv) /\ Info(s) \in Nat
      BY <1>1, HeldType, SnacFields DEF Info
<1>3. Msg(s) \in Seq(SoundTlv)
      BY <1>2, FirstRest DEF Msg
<1>4. Msg(s) \in Seq(TLV)
      BY <1>3, SoundSeq
<1>5. HasBlock(s) => Block(s) \in SoundTlv /\ Block(s) \in TLV
    <2> SUFFICES ASSUME HasBlock(s) PROVE Block(s) \in SoundTlv
        BY DEF SoundTlv
    <2>1. IsFirst(Msg(s), "msgblock", FirstOf(Msg(s), "msgblock"))
          BY <1>4, FirstOfIsFirst DEF HasBlock
    <2>2. FirstOf(Msg(s), "msgblock") \in 1 .. Len(Msg(s))
          BY <2>1 DEF IsFirst
    <2> DEFINE i == FirstOf(Msg(s), "msgblock")
               m == Msg(s)
    <2> HIDE DEF i, m
    <2>3. m \in Seq(SoundTlv) /\ i \in 1 .. Len(m)
          BY <1>3, <2>2 DEF i, m
    <2>4. m[i] \in SoundTlv
          BY <2>3
    <2>q. QED BY <2>4 DEF Block, i, m
<1>6. SectionsOf(s) \in Seq(Section)
    <2>1. CASE HasBlock(s)
          BY <1>5, <2>1, TlvFields DEF SectionsOf, Section
    <2>2. CASE ~HasBlock(s)
          BY <2>2 DEF SectionsOf
    <2>q. QED BY <2>1, <2>2
<1>q. QED BY <1>3, <1>4, <1>5, <1>6

\* What a message carries once it is taken apart.
LEMMA MsgMade ==
    ASSUME NEW block, NEW ack, NEW auto
    PROVE  [NewMsg EXCEPT !.msgtlv = block, !.ack = ack, !.auto = auto]
               = [text |-> NULL, msgtlv |-> block, ack |-> ack, auto |-> auto, otr |-> FALSE]
<1> DEFINE no == FALSE
           m == [text |-> NULL, msgtlv |-> NULL, ack |-> no, auto |-> no, otr |-> no]
           a == [m EXCEPT !.msgtlv = block]
           b == [a EXCEPT !.ack = ack]
           c == [b EXCEPT !.auto = auto]
<1> HIDE DEF no
<1>1. a = [text |-> NULL, msgtlv |-> block, ack |-> no, auto |-> no, otr |-> no]
      OBVIOUS
<1> HIDE DEF a
<1>2. b = [text |-> NULL, msgtlv |-> block, ack |-> ack, auto |-> no, otr |-> no]
      BY <1>1
<1> HIDE DEF b
<1>3. c = [text |-> NULL, msgtlv |-> block, ack |-> ack, auto |-> auto, otr |-> no]
      BY <1>2
<1>q. QED BY <1>3, Zenon DEF a, b, no, NewMsg

\* The message is taken apart.
LEMMA Parsechan1Keeps == IInv /\ toscar_icbm__parsechan1 => IInv'
<1> SUFFICES ASSUME IInv, toscar_icbm__parsechan1 PROVE IInv'
    OBVIOUS
<1> DEFINE blocks == naf_tlv_get(tlvh, "msgblock")
           text   == IF HasBlock(snac) THEN Block(snac) ELSE NULL
           ack    == Typed(Msg(snac), "ack") # {}
           auto   == Typed(Msg(snac), "autoresponse") # {}
<1>1. /\ pc = "chan" /\ pc' = "text"
      /\ snac' = snac /\ srcinfo' = srcinfo /\ msgtext' = msgtext
      /\ unrepresentable' = unrepresentable /\ sent' = sent
      /\ gm' = [gm EXCEPT !.msgtlv = IF blocks = <<>> THEN NULL ELSE Head(blocks),
                          !.ack  = naf_tlv_get(tlvh, "ack") # <<>>,
                          !.auto = naf_tlv_get(tlvh, "autoresponse") # <<>>]
      /\ tlvh' = Parsed(tlvh)
      BY DEF toscar_icbm__parsechan1, Parsed
<1>b. sections' \in CASE blocks = <<>> -> {<<>>}
                     [] blocks # <<>> /\ Head(blocks).length # 0 -> {Head(blocks).sections}
                     [] OTHER -> Leftovers
      BY DEF toscar_icbm__parsechan1
<1>2. /\ Accepted(snac) /\ gm = NewMsg /\ msgtext = NULL /\ unrepresentable = FALSE
      /\ sent = <<>> /\ tlvh = Msg(snac) /\ srcinfo = First(Info(snac), Held(snac))
      BY <1>1 DEF IInv
<1>3. tlvh' = NotUnderstood(Msg(snac'))
      BY <1>1, <1>2, MsgType, ParsedIsNotUnderstood
<1>4. /\ blocks = (IF HasBlock(snac) THEN <<Block(snac)>> ELSE <<>>)
      /\ (naf_tlv_get(tlvh, "ack") # <<>>) = ack
      /\ (naf_tlv_get(tlvh, "autoresponse") # <<>>) = auto
      BY <1>2 DEF naf_tlv_get, HasBlock, Block
<1>5. /\ WellFormed(snac) => sections' = SectionsOf(snac)
      /\ (IF blocks = <<>> THEN NULL ELSE Head(blocks)) = text
    <2> HIDE DEF blocks
    <2>1. CASE HasBlock(snac)
        <3>1. blocks = <<Block(snac)>>
              BY <1>4, <2>1
        <3>2. blocks # <<>> /\ Head(blocks) = Block(snac)
              BY <3>1
        <3>3. WellFormed(snac) => Block(snac).length # 0
              BY <2>1 DEF WellFormed, HasBlock, Block
        <3>4. WellFormed(snac) => sections' = Block(snac).sections
              BY <1>b, <3>2, <3>3
        <3>q. QED BY <2>1, <3>2, <3>4 DEF SectionsOf
    <2>2. CASE ~HasBlock(snac)
        <3>1. blocks = <<>>
              BY <1>4, <2>2
        <3>2. sections' = <<>>
              BY <1>b, <3>1
        <3>q. QED BY <2>2, <3>1, <3>2 DEF SectionsOf
    <2>q. QED BY <2>1, <2>2
<1>6. gm' = [text |-> NULL, msgtlv |-> text, ack |-> ack, auto |-> auto, otr |-> FALSE]
    <2> HIDE DEF text, ack, auto, blocks
    <2> DEFINE g == [gm EXCEPT !.msgtlv = text, !.ack = ack, !.auto = auto]
    <2>1. gm' = g
          BY <1>1, <1>4, <1>5
    <2>2. g = [text |-> NULL, msgtlv |-> text, ack |-> ack, auto |-> auto, otr |-> FALSE]
          BY <1>2, MsgMade
    <2>q. QED BY <2>1, <2>2
<1>a. gm'.text = NULL /\ gm'.msgtlv = text /\ gm'.ack = ack /\ gm'.auto = auto /\ gm'.otr = FALSE
    <2> DEFINE no == FALSE
    <2>1. gm' = [text |-> NULL, msgtlv |-> text, ack |-> ack, auto |-> auto, otr |-> no]
          BY <1>6
    <2> HIDE DEF text, ack, auto, no
    <2>2. gm'.text = NULL /\ gm'.msgtlv = text /\ gm'.ack = ack /\ gm'.auto = auto /\ gm'.otr = no
          BY <2>1
    <2>q. QED BY <2>2 DEF no
<1>7. WellFormed(snac') => Converting'
    <2> SUFFICES ASSUME WellFormed(snac') PROVE Converting'
        OBVIOUS
    <2> HIDE DEF blocks, text, ack, auto
    <2>1. gm'.text = NULL /\ gm'.msgtlv = text
          BY <1>a
    <2> DEFINE ss == SectionsOf(snac)
    <2>2. ss \in Seq(Section)
          BY <1>2, MsgType
    <2>a. sections' = ss
          BY <1>1, <1>5
    <2> HIDE DEF ss
    <2>3. /\ 0 \in 0 .. Len(ss) /\ SubSeq(ss, 0 + 1, Len(ss)) = ss /\ AllOf(SubSeq(ss, 1, 0))
        <3>1. SubSeq(ss, 1, Len(ss)) = ss /\ SubSeq(ss, 1, 0) = <<>>
              BY <2>2, PieceWhole
        <3>2. AllOf(<<>>)
              BY DEF AllOf
        <3>3. 0 + 1 = 1 /\ 0 \in 0 .. Len(ss)
              BY <2>2
        <3>4. SubSeq(ss, 0 + 1, Len(ss)) = SubSeq(ss, 1, Len(ss))
              BY <3>3
        <3>q. QED BY <3>1, <3>2, <3>3, <3>4
    <2>4. sections' = SubSeq(ss, 0 + 1, Len(ss)) /\ unrepresentable' = ~AllOf(SubSeq(ss, 1, 0))
          /\ msgtext' = NULL
          BY <1>1, <1>2, <2>a, <2>3
    <2>5. /\ ss = SectionsOf(snac') /\ text = IF HasBlock(snac') THEN Block(snac') ELSE NULL
          BY <1>1 DEF ss, text
    <2>q. QED BY <2>1, <2>3, <2>4, <2>5 DEF Converting
<1>8. gm' = [text |-> gm'.text, msgtlv |-> gm'.msgtlv, ack |-> gm'.ack, auto |-> gm'.auto,
             otr |-> gm'.otr]
      BY <1>6, <1>a, Zenon
<1>9. FromPayload'
      BY <1>1, <1>2, <1>3, <1>a DEF FromPayload
<1>q. QED BY <1>1, <1>2, <1>7, <1>8, <1>9, <1>a DEF IInv

\* The next of the sections that are left.
LEMMA NextSection ==
    ASSUME NEW ss \in Seq(Section), NEW k \in 0 .. Len(ss), SubSeq(ss, k + 1, Len(ss)) # <<>>
    PROVE  /\ k < Len(ss) /\ ss[k + 1] \in Section
           /\ Head(SubSeq(ss, k + 1, Len(ss))) = ss[k + 1]
           /\ Tail(SubSeq(ss, k + 1, Len(ss))) = SubSeq(ss, (k + 1) + 1, Len(ss))
           /\ SubSeq(ss, 1, k + 1) = Append(SubSeq(ss, 1, k), ss[k + 1])
<1> DEFINE r == SubSeq(ss, k + 1, Len(ss))
           n == SubSeq(ss, (k + 1) + 1, Len(ss))
<1>1. /\ r \in Seq(Section) /\ Len(r) = Len(ss) - k
      /\ \A i \in 1 .. Len(ss) - k : r[i] = ss[k + i]
      BY Pieces
<1>2. k < Len(ss)
    <2>1. Len(ss) \in Nat /\ k \in Nat /\ k <= Len(ss)
          OBVIOUS
    <2> HIDE DEF r
    <2>2. Len(r) = 0 => r = <<>>
          BY <1>1
    <2>3. r # <<>>
          BY DEF r
    <2>q. QED BY <1>1, <2>1, <2>2, <2>3
<1>3. /\ n \in Seq(Section) /\ Len(n) = Len(ss) - (k + 1)
      /\ \A i \in 1 .. Len(ss) - (k + 1) : n[i] = ss[(k + 1) + i]
    <2>1. k + 1 \in 0 .. Len(ss)
          BY <1>2
    <2>q. QED BY <2>1, Pieces
<1>4. Len(ss) \in Nat /\ k \in Nat /\ ss[k + 1] \in Section
      BY <1>2
<1> HIDE DEF r, n
<1>5. Head(r) = ss[k + 1]
      BY <1>1, <1>2, <1>4
<1>6. Tail(r) = n
    <2>1. Tail(r) \in Seq(Section) /\ Len(Tail(r)) = Len(n)
        <3>1. r # <<>> /\ Len(r) - 1 = Len(n)
              BY <1>1, <1>2, <1>3, <1>4
        <3>2. Tail(r) \in Seq(Section) /\ Len(Tail(r)) = Len(r) - 1
              BY <1>1, <3>1, HeadTailProperties
        <3>q. QED BY <3>1, <3>2
    <2>2. ASSUME NEW i \in 1 .. Len(n) PROVE Tail(r)[i] = n[i]
        <3>1. i \in 1 .. Len(ss) - (k + 1) /\ i + 1 \in 1 .. Len(ss) - k
              BY <1>2, <1>3, <1>4
        <3>2. Tail(r)[i] = r[i + 1]
              BY <1>1, <2>1, <3>1
        <3>3. k + (i + 1) = (k + 1) + i
              BY <1>4, <3>1
        <3>q. QED BY <1>1, <1>3, <3>1, <3>2, <3>3
    <2>q. QED BY <1>3, <2>1, <2>2, SeqEqual
<1>7. SubSeq(ss, 1, k + 1) = Append(SubSeq(ss, 1, k), ss[k + 1])
      BY <1>2, PieceGrows
<1>q. QED BY <1>2, <1>4, <1>5, <1>6, <1>7 DEF r, n

\* Sections can be converted if those before the last can be and that one.
LEMMA AllOfAppend ==
    ASSUME NEW ss \in Seq(Section), NEW x \in Section
    PROVE  AllOf(Append(ss, x)) <=> AllOf(ss) /\ Representable(x)
<1> DEFINE a == Append(ss, x)
<1>1. /\ Len(ss) \in Nat /\ Len(a) = Len(ss) + 1 /\ a[Len(ss) + 1] = x
      /\ \A i \in 1 .. Len(ss) : a[i] = ss[i]
      OBVIOUS
<1> HIDE DEF a
<1>2. \A i \in 1 .. Len(a) : i = Len(ss) + 1 \/ i \in 1 .. Len(ss)
      BY <1>1
<1>3. Len(ss) + 1 \in 1 .. Len(a) /\ \A i \in 1 .. Len(ss) : i \in 1 .. Len(a)
      BY <1>1
<1>4. ASSUME AllOf(a) PROVE AllOf(ss) /\ Representable(x)
    <2>1. ASSUME NEW i \in 1 .. Len(ss) PROVE Representable(ss[i])
        <3>1. Representable(a[i])
              BY <1>3, <1>4 DEF AllOf
        <3>2. a[i] = ss[i]
              BY <1>1
        <3>q. QED BY <3>1, <3>2
    <2>2. Representable(x)
        <3>1. Representable(a[Len(ss) + 1])
              BY <1>3, <1>4 DEF AllOf
        <3>q. QED BY <1>1, <3>1
    <2>q. QED BY <2>1, <2>2 DEF AllOf
<1>5. ASSUME AllOf(ss), Representable(x) PROVE AllOf(a)
    <2>1. ASSUME NEW i \in 1 .. Len(a) PROVE Representable(a[i])
        <3>1. CASE i = Len(ss) + 1
            <4>1. a[i] = x
                  BY <1>1, <3>1
            <4>q. QED BY <1>5, <4>1
        <3>2. CASE i \in 1 .. Len(ss)
            <4>1. a[i] = ss[i]
                  BY <1>1, <3>2
            <4>2. Representable(ss[i])
                  BY <1>5, <3>2 DEF AllOf
            <4>q. QED BY <4>1, <4>2
        <3>q. QED BY <1>2, <3>1, <3>2
    <2>q. QED BY <2>1 DEF AllOf
<1>q. QED BY <1>4, <1>5 DEF a

\* While the text is converted the rest of the message stays what it is.
LEMMA TextKeeps ==
    ASSUME IInv, pc = "text", pc' = "text", snac' = snac, srcinfo' = srcinfo, tlvh' = tlvh,
           gm' = gm, sent' = sent, WellFormed(snac) => Converting'
    PROVE  IInv'
<1>1. Accepted(snac) /\ sent = <<>> /\ gm.otr = FALSE /\ FromPayload
      /\ gm = [text |-> gm.text, msgtlv |-> gm.msgtlv, ack |-> gm.ack, auto |-> gm.auto, otr |-> gm.otr]
      BY DEF IInv
<1>2. FromPayload'
      BY <1>1 DEF FromPayload
<1>3. gm' = [text |-> gm'.text, msgtlv |-> gm'.msgtlv, ack |-> gm'.ack, auto |-> gm'.auto, otr |-> gm'.otr]
      BY <1>1, Zenon
<1>4. /\ pc' = "text" /\ Accepted(snac') /\ sent' = <<>> /\ gm'.otr = FALSE
      /\ WellFormed(snac') => Converting'
      BY <1>1
<1>q. QED BY <1>2, <1>3, <1>4 DEF IInv

\* A section is converted.
LEMMA SectionKeeps == IInv /\ extractmsgtext_section => IInv'
<1> SUFFICES ASSUME IInv, extractmsgtext_section PROVE IInv'
    OBVIOUS
<1> DEFINE ss == SectionsOf(snac)
           x  == Head(sections)
<1>1. /\ pc = "text" /\ pc' = "text" /\ snac' = snac /\ srcinfo' = srcinfo /\ tlvh' = tlvh
      /\ gm' = gm /\ sent' = sent /\ sections # <<>> /\ sections' = Tail(sections)
      /\ Representable(x) => /\ msgtext' = Converted(x) + (IF msgtext = NULL THEN 0 ELSE msgtext)
                             /\ unrepresentable' = unrepresentable
      /\ ~Representable(x) => unrepresentable' = TRUE
      BY DEF extractmsgtext_section, TextSoFar
<1>b. SUFFICES ASSUME WellFormed(snac) PROVE Converting'
      BY <1>1, <1>b, TextKeeps
<1>2. Accepted(snac) /\ Converting
      BY <1>1, <1>b DEF IInv
<1>3. ss \in Seq(Section)
      BY <1>2, MsgType
<1>4. PICK k \in 0 .. Len(ss) :
          /\ sections = SubSeq(ss, k + 1, Len(ss))
          /\ unrepresentable = ~AllOf(SubSeq(ss, 1, k))
          /\ ~unrepresentable => msgtext = IF k = 0 THEN NULL ELSE TextOf(SubSeq(ss, 1, k))
      BY <1>2 DEF Converting
<1> HIDE DEF ss
<1> DEFINE before == SubSeq(ss, 1, k)
<1>6. /\ k < Len(ss) /\ x \in Section /\ sections' = SubSeq(ss, (k + 1) + 1, Len(ss))
      /\ SubSeq(ss, 1, k + 1) = Append(before, x)
      BY <1>1, <1>3, <1>4, NextSection
<1>7. before \in Seq(Section) /\ k \in Nat /\ Len(ss) \in Nat /\ k + 1 \in 0 .. Len(ss) /\ k + 1 # 0
      BY <1>3, <1>6, Pieces
<1>a. k = 0 => before = <<>>
      BY <1>3, PieceWhole
<1> HIDE DEF before, x
<1>8. unrepresentable' = ~AllOf(Append(before, x))
    <2>1. AllOf(Append(before, x)) <=> AllOf(before) /\ Representable(x)
          BY <1>6, <1>7, AllOfAppend
    <2>2. unrepresentable = ~AllOf(before)
          BY <1>4 DEF before
    <2>3. CASE Representable(x)
          BY <1>1, <2>1, <2>2, <2>3
    <2>4. CASE ~Representable(x)
          BY <1>1, <2>1, <2>4
    <2>q. QED BY <2>3, <2>4
<1>9. ~unrepresentable' => msgtext' = TextOf(Append(before, x))
    <2> SUFFICES ASSUME ~unrepresentable' PROVE msgtext' = TextOf(Append(before, x))
        OBVIOUS
    <2>1. AllOf(before) /\ Representable(x)
          BY <1>6, <1>7, <1>8, AllOfAppend
    <2>2. ~unrepresentable
          BY <1>4, <2>1 DEF before
    <2>3. msgtext = IF k = 0 THEN NULL ELSE TextOf(before)
          BY <1>4, <2>2 DEF before
    <2>4. TextOf(Append(before, x)) = TextOf(before) + Converted(x)
          BY <1>6, <1>7, <2>1, TextAppend
    <2>5. TextOf(before) \in Nat /\ Converted(x) \in Nat
          BY <1>6, <1>7, <2>1, TextBound, ConvertedBound
    <2>6. msgtext' = Converted(x) + (IF msgtext = NULL THEN 0 ELSE msgtext)
          BY <1>1, <2>1
    <2>7. CASE k = 0
        <3>1. TextOf(before) = 0
            <4>1. [i \in DOMAIN <<>> |-> Converted(<<>>[i])] \in Seq(Nat)
                  OBVIOUS
            <4>2. Len([i \in DOMAIN <<>> |-> Converted(<<>>[i])]) = 0
                  OBVIOUS
            <4>q. QED BY <1>a, <2>7, <4>1, <4>2, TotalType DEF TextOf
        <3>q. QED BY <2>3, <2>4, <2>5, <2>6, <2>7, <3>1
    <2>8. CASE k # 0
        <3>1. msgtext = TextOf(before) /\ msgtext # NULL
              BY <2>3, <2>5, <2>8, NullAssumption
        <3>q. QED BY <2>4, <2>5, <2>6, <3>1
    <2>q. QED BY <2>7, <2>8
<1>10. /\ gm'.text = NULL /\ gm'.msgtlv = IF HasBlock(snac') THEN Block(snac') ELSE NULL
      BY <1>1, <1>2 DEF Converting
<1>11. /\ sections' = SubSeq(ss, (k + 1) + 1, Len(ss))
       /\ unrepresentable' = ~AllOf(SubSeq(ss, 1, k + 1))
       /\ ~unrepresentable' => msgtext' = IF k + 1 = 0 THEN NULL ELSE TextOf(SubSeq(ss, 1, k + 1))
      BY <1>6, <1>7, <1>8, <1>9
<1>12. ss = SectionsOf(snac')
      BY <1>1 DEF ss
<1>q. QED BY <1>7, <1>10, <1>11, <1>12 DEF Converting

\* The sections of a well-formed block lie inside it.
LEMMA SectionsInside ==
    ASSUME NEW s, Accepted(s), WellFormed(s), NEW i \in 1 .. Len(SectionsOf(s))
    PROVE  SectionsOf(s)[i].encoding # "overlong"
<1>1. SectionsOf(s) \in Seq(Section)
      BY MsgType
<1>2. HasBlock(s)
    <2>1. CASE ~HasBlock(s)
        <3>1. SectionsOf(s) = <<>>
              BY <2>1 DEF SectionsOf
        <3>2. Len(SectionsOf(s)) = 0
              BY <3>1
        <3>q. QED BY <3>2
    <2>q. QED BY <2>1
<1>3. Inside(Block(s)) /\ SectionsOf(s) = Block(s).sections
      BY <1>2 DEF WellFormed, HasBlock, Block, SectionsOf
<1> DEFINE ss == SectionsOf(s)
<1>4. i \in DOMAIN ss
      BY <1>1
<1>q. QED BY <1>3, <1>4 DEF Inside

\* A section that is longer than the rest of its block.
LEMMA OverlongKeeps == IInv /\ extractmsgtext_overlong => IInv'
<1> SUFFICES ASSUME IInv, extractmsgtext_overlong PROVE IInv'
    OBVIOUS
<1>1. /\ pc = "text" /\ pc' = "text" /\ snac' = snac /\ srcinfo' = srcinfo /\ tlvh' = tlvh
      /\ gm' = gm /\ sent' = sent /\ sections # <<>> /\ Head(sections).encoding = "overlong"
      BY DEF extractmsgtext_overlong
<1>2. ASSUME WellFormed(snac) PROVE FALSE
    <2> DEFINE ss == SectionsOf(snac)
    <2>1. Accepted(snac) /\ Converting
          BY <1>1, <1>2 DEF IInv
    <2>2. ss \in Seq(Section)
          BY <2>1, MsgType
    <2>3. PICK k \in 0 .. Len(ss) : sections = SubSeq(ss, k + 1, Len(ss))
          BY <2>1 DEF Converting
    <2>a. \A i \in 1 .. Len(ss) : ss[i].encoding # "overlong"
          BY <1>2, <2>1, SectionsInside
    <2> HIDE DEF ss
    <2>4. k < Len(ss) /\ Head(sections) = ss[k + 1] /\ Len(ss) \in Nat /\ k \in Nat
          BY <1>1, <2>2, <2>3, NextSection
    <2>5. k + 1 \in 1 .. Len(ss)
          BY <2>4
    <2>q. QED BY <1>1, <2>a, <2>4, <2>5
<1>q. QED BY <1>1, <1>2, TextKeeps

\* A put that fits into a buffer as it is.
LEMMA PutInside ==
    ASSUME NEW sb \in Sbuf, NEW n \in Nat, sb.pos + n <= sb.buflen
    PROVE  /\ naf_sbuf_put(sb, n) \in Sbuf /\ naf_sbuf_put(sb, n).buflen = sb.buflen
           /\ naf_sbuf_put(sb, n).pos = sb.pos + n
<1> DEFINE len == sb.buflen
           pos == sb.pos
           auto == sb.autoresize
<1>0. U16 = 65536
      BY DEF U16
<1>1. len \in Nat /\ pos \in Nat /\ len < 65536
      BY <1>0, SbufFields
<1>2. \A x, y : [sb EXCEPT !.buflen = x, !.pos = y] = [buflen |-> x, pos |-> y, autoresize |-> auto]
      BY SbufExcept
<1>3. auto \in BOOLEAN
      BY DEF Sbuf
<1>4. (pos + n) % U16 = pos + n /\ len - pos >= n
    <2>1. pos + n \in Nat /\ pos + n < 65536
          BY <1>1
    <2>2. pos + n <= len
          OBVIOUS
    <2> HIDE DEF len, pos
    <2>q. QED BY <1>0, <1>1, <2>1, <2>2
<1>5. naf_sbuf_put(sb, n) = [sb EXCEPT !.buflen = len, !.pos = pos + n]
      BY <1>4 DEF naf_sbuf_put, naf_sbuf_bytesremaining
<1>6. naf_sbuf_put(sb, n) = [buflen |-> len, pos |-> pos + n, autoresize |-> auto]
      BY <1>2, <1>5
<1> HIDE DEF auto, len, pos
<1>7. [buflen |-> len, pos |-> pos + n, autoresize |-> auto] \in Sbuf
    <2>1. pos + n \in Nat /\ len < U16 /\ pos + n < U16
          BY <1>0, <1>1 DEF len, pos
    <2>q. QED BY <1>1, <1>3, <2>1, SbufMade
<1>q. QED BY <1>6, <1>7 DEF len, pos

\* A message block made of a text.
LEMMA BlockMade ==
    ASSUME NEW n \in Nat, 16 + n <= 32000
    PROVE  _naf_tlv_addoscarmsgblock(n) = MadeOf(n)
<1> DEFINE a == naf_sbuf_init_buf(MSGBLOCKLEN + n)
           b == naf_sbuf_put(a, MSGBLOCKLEN)
           c == naf_sbuf_putraw(b, n)
<1>1. MSGBLOCKLEN = 16 /\ 16 \in Nat /\ 16 + n \in Nat
      BY DEF MSGBLOCKLEN
<1>2. a \in Sbuf /\ a.buflen = 16 + n /\ a.pos = 0
    <2> DEFINE m == MSGBLOCKLEN + n
    <2>1. m \in Nat /\ m = 16 + n /\ m < 65536
          BY <1>1
    <2> HIDE DEF m
    <2>2. m % U16 = m /\ m < U16 /\ 0 < U16 /\ 0 \in Nat
          BY <2>1 DEF U16
    <2> DEFINE no == FALSE
               r == [buflen |-> m, pos |-> 0, autoresize |-> no]
    <2>3. a = r
        <3>1. (MSGBLOCKLEN + n) % U16 = m
              BY <2>2 DEF m
        <3>2. a = [buflen |-> (MSGBLOCKLEN + n) % U16, pos |-> 0, autoresize |-> no]
              BY DEF naf_sbuf_init_buf
        <3> HIDE DEF a, no
        <3>q. QED BY <3>1, <3>2
    <2>4. no \in BOOLEAN
          OBVIOUS
    <2> HIDE DEF a, no
    <2>5. r \in Sbuf
          BY <2>1, <2>2, <2>4, SbufMade
    <2>6. r.buflen = m /\ r.pos = 0
          OBVIOUS
    <2> HIDE DEF r
    <2>q. QED BY <2>1, <2>3, <2>5, <2>6
<1>3. b \in Sbuf /\ b.buflen = 16 + n /\ b.pos = 16
    <2>1. b = naf_sbuf_put(a, 16)
          BY <1>1
    <2> HIDE DEF a, b
    <2>2. a.pos + 16 <= a.buflen /\ a.pos + 16 = 16
          BY <1>1, <1>2
    <2>q. QED BY <1>1, <1>2, <2>1, <2>2, PutInside
<1>4. c.pos = 16 + n
    <2>1. c = naf_sbuf_put(b, n)
          BY DEF naf_sbuf_putraw
    <2> HIDE DEF a, b, c
    <2>2. b.pos + n <= b.buflen /\ b.pos + n = 16 + n
          BY <1>1, <1>3
    <2>q. QED BY <1>3, <2>1, <2>2, PutInside
<1>5. c.pos = MSGBLOCKLEN + n
    <2> HIDE DEF a, b, c
    <2>q. QED BY <1>4 DEF MSGBLOCKLEN
<1>6. _naf_tlv_addoscarmsgblock(n) = naf_tlv_new("msgblock", c.pos, <<[encoding |-> "iso", bytes |-> n]>>)
      BY DEF _naf_tlv_addoscarmsgblock
<1> HIDE DEF a, b, c
<1>q. QED BY <1>5, <1>6 DEF MadeOf

\* The text of a message block, and what follows of a block from its sections.
LEMMA BlockText ==
    ASSUME NEW s, Accepted(s), HasBlock(s)
    PROVE  /\ SectionsOf(s) = Block(s).sections /\ Block(s) # NULL
           /\ BlockOf(Msg(s)) = Relayed(Block(s))
           /\ AllText(Block(s)) <=> AllOf(SectionsOf(s))
           /\ AllOf(SectionsOf(s)) =>
                 /\ TextLen(Block(s)) = TextOf(SectionsOf(s)) /\ TextOf(SectionsOf(s)) \in Nat
                 /\ SectionsOf(s) # <<>> => 16 + TextOf(SectionsOf(s)) <= 32000
<1> DEFINE b == Block(s)
           ss == SectionsOf(s)
<1>1. b \in SoundTlv /\ b \in TLV /\ ss \in Seq(Section)
      BY MsgType
<1>2. ss = b.sections
      BY DEF SectionsOf
<1>3. b # NULL
      BY <1>1, NullAssumption
<1>4. BlockOf(Msg(s)) = Relayed(b)
      BY DEF BlockOf, HasBlock, Block
<1>5. Cost(Relayed(b)) <= 29000 /\ Cost(Relayed(b)) \in Nat
    <2>1. BlockOf(Msg(s)) \in Seq(TLV) /\ Cost(BlockOf(Msg(s))) <= 29000
          BY WholeCost
    <2>q. QED BY <1>4, <2>1, SizeType
<1> HIDE DEF b, ss
<1>6. AllText(b) <=> AllOf(ss)
    <2>1. DOMAIN ss = 1 .. Len(ss)
          BY <1>1
    <2>q. QED BY <1>2, <2>1 DEF AllText, AllOf
<1>7. TextLen(b) = TextOf(ss)
      BY <1>2 DEF TextLen, TextOf
<1>8. ASSUME AllOf(ss) PROVE TextOf(ss) \in Nat /\ (ss # <<>> => 16 + TextOf(ss) <= 32000)
    <2> DEFINE n == TextOf(ss)
               t == naf_tlv_new("msgblock", MSGBLOCKLEN + n, <<[encoding |-> "iso", bytes |-> n]>>)
    <2>1. n \in Nat
          BY <1>1, <1>8, TextBound
    <2>2. ss # <<>> => Relayed(b) = <<t>>
          BY <1>2, <1>6, <1>7, <1>8 DEF Relayed
    <2> HIDE DEF n
    <2>3. t \in TLV /\ t.length = 16 + n
          BY <2>1 DEF naf_tlv_new, TLV, Section, Types, Encodings, MSGBLOCKLEN
    <2> HIDE DEF t
    <2>4. Cost(<<t>>) = Growth[t]
          BY <2>3, SizeOne
    <2>5. Growth[t] \in Nat /\ 4 + (16 + n) <= Growth[t]
          BY <2>1, <2>3 DEF Growth
    <2>6. ss # <<>> => 16 + n <= 32000
        <3> SUFFICES ASSUME ss # <<>> PROVE 16 + n <= 32000
            OBVIOUS
        <3>1. Growth[t] <= 29000
              BY <1>5, <2>2, <2>4
        <3>q. QED BY <2>1, <2>5, <3>1
    <2>q. QED BY <2>1, <2>6 DEF n
<1>q. QED BY <1>2, <1>3, <1>4, <1>6, <1>7, <1>8 DEF b, ss

\* A block that cannot be converted stays what it is.
LEMMA ErrorKeeps == IInv /\ extractmsgtext_error => IInv'
<1> SUFFICES ASSUME IInv, extractmsgtext_error PROVE IInv'
    OBVIOUS
<1> DEFINE ss == SectionsOf(snac)
           x  == Head(sections)
<1>1. /\ pc = "text" /\ pc' = "route" /\ snac' = snac /\ srcinfo' = srcinfo /\ tlvh' = tlvh
      /\ gm' = gm /\ sent' = sent /\ sections # <<>> /\ x.encoding = "malformed"
      BY DEF extractmsgtext_error
<1>a. /\ Accepted(snac) /\ sent = <<>> /\ gm.otr = FALSE /\ FromPayload
      /\ gm = [text |-> gm.text, msgtlv |-> gm.msgtlv, ack |-> gm.ack, auto |-> gm.auto, otr |-> gm.otr]
      BY <1>1 DEF IInv
<1>b. SUFFICES ASSUME WellFormed(snac) PROVE MsgBlock' = BlockOf(Msg(snac'))
    <2>1. FromPayload'
          BY <1>1, <1>a DEF FromPayload
    <2>2. gm' = [text |-> gm'.text, msgtlv |-> gm'.msgtlv, ack |-> gm'.ack, auto |-> gm'.auto, otr |-> gm'.otr]
          BY <1>1, <1>a, Zenon
    <2>3. /\ pc' = "route" /\ Accepted(snac') /\ sent' = <<>> /\ gm'.otr = FALSE
          /\ WellFormed(snac') => MsgBlock' = BlockOf(Msg(snac'))
          BY <1>1, <1>a, <1>b
    <2>q. QED BY <2>1, <2>2, <2>3 DEF IInv
<1>2. Accepted(snac) /\ Converting
      BY <1>1, <1>a, <1>b DEF IInv
<1>3. ss \in Seq(Section)
      BY <1>2, MsgType
<1>4. PICK k \in 0 .. Len(ss) : sections = SubSeq(ss, k + 1, Len(ss))
      BY <1>2 DEF Converting
<1>5. k < Len(ss) /\ x = ss[k + 1] /\ Len(ss) \in Nat /\ k \in Nat
    <2> HIDE DEF ss
    <2>q. QED BY <1>1, <1>3, <1>4, NextSection
<1>6. HasBlock(snac)
    <2>1. ss # <<>>
          BY <1>5
    <2>q. QED BY <2>1 DEF SectionsOf
<1>7. ~AllOf(ss)
    <2> HIDE DEF ss, x
    <2>1. k + 1 \in 1 .. Len(ss)
          BY <1>5
    <2>2. ~Representable(ss[k + 1])
          BY <1>1, <1>5 DEF Representable
    <2>q. QED BY <2>1, <2>2 DEF AllOf
<1>8. BlockOf(Msg(snac)) = <<Block(snac)>> /\ Block(snac) # NULL
    <2>1. Block(snac) # NULL /\ BlockOf(Msg(snac)) = Relayed(Block(snac)) /\ ~AllText(Block(snac))
          BY <1>2, <1>6, <1>7, BlockText
    <2>2. Relayed(Block(snac)) = <<Block(snac)>>
          BY <2>1 DEF Relayed
    <2>q. QED BY <2>1, <2>2
<1>9. gm'.msgtlv = Block(snac)
      BY <1>1, <1>2, <1>6 DEF Converting
<1>10. MsgBlock' = BlockOf(Msg(snac'))
    <2>1. MsgBlock' = <<gm'.msgtlv>>
          BY <1>8, <1>9 DEF MsgBlock
    <2>q. QED BY <1>1, <1>8, <1>9, <2>1
<1>q. QED BY <1>10

\* The gnrmsg with its text and the block it keeps.
WithText(g, text, block) == [g EXCEPT !.text = text, !.msgtlv = block]

\* What a message carries once its text is converted.
LEMMA TextMade ==
    ASSUME NEW g, NEW text, NEW block,
           g = [text |-> g.text, msgtlv |-> g.msgtlv, ack |-> g.ack, auto |-> g.auto, otr |-> g.otr]
    PROVE  WithText(g, text, block)
               = [text |-> text, msgtlv |-> block, ack |-> g.ack, auto |-> g.auto, otr |-> g.otr]
<1> DEFINE a == [g EXCEPT !.text = text]
           b == [a EXCEPT !.msgtlv = block]
<1>1. a = [text |-> text, msgtlv |-> g.msgtlv, ack |-> g.ack, auto |-> g.auto, otr |-> g.otr]
      OBVIOUS
<1>2. WithText(g, text, block) = b
      BY DEF WithText
<1> HIDE DEF a
<1>3. b = [text |-> text, msgtlv |-> block, ack |-> g.ack, auto |-> g.auto, otr |-> g.otr]
      BY <1>1
<1>q. QED BY <1>2, <1>3

\* All sections are converted.
LEMMA EndKeeps == IInv /\ extractmsgtext_end => IInv'
<1> SUFFICES ASSUME IInv, extractmsgtext_end PROVE IInv'
    OBVIOUS
<1> DEFINE ss == SectionsOf(snac)
           block == IF unrepresentable THEN gm.msgtlv ELSE NULL
<1>1. /\ pc = "text" /\ pc' = "route" /\ snac' = snac /\ srcinfo' = srcinfo /\ tlvh' = tlvh
      /\ sent' = sent /\ sections = <<>>
      /\ gm' = [gm EXCEPT !.text = msgtext, !.msgtlv = block]
      BY DEF extractmsgtext_end
<1>a. /\ Accepted(snac) /\ sent = <<>> /\ gm.otr = FALSE /\ FromPayload
      /\ gm = [text |-> gm.text, msgtlv |-> gm.msgtlv, ack |-> gm.ack, auto |-> gm.auto, otr |-> gm.otr]
      BY <1>1 DEF IInv
<1>6. gm' = [text |-> msgtext, msgtlv |-> block, ack |-> gm.ack, auto |-> gm.auto, otr |-> gm.otr]
    <2> HIDE DEF block
    <2>1. gm' = WithText(gm, msgtext, block)
          BY <1>1 DEF WithText
    <2>2. WithText(gm, msgtext, block)
              = [text |-> msgtext, msgtlv |-> block, ack |-> gm.ack, auto |-> gm.auto, otr |-> gm.otr]
          BY <1>a, TextMade
    <2>q. QED BY <2>1, <2>2, Zenon
<1>7. gm'.text = msgtext /\ gm'.msgtlv = block /\ gm'.ack = gm.ack /\ gm'.auto = gm.auto /\ gm'.otr = gm.otr
    <2> HIDE DEF block
    <2>q. QED BY <1>6
<1>b. SUFFICES ASSUME WellFormed(snac) PROVE MsgBlock' = BlockOf(Msg(snac))
    <2>1. FromPayload'
          BY <1>1, <1>a, <1>7 DEF FromPayload
    <2>2. gm' = [text |-> gm'.text, msgtlv |-> gm'.msgtlv, ack |-> gm'.ack, auto |-> gm'.auto, otr |-> gm'.otr]
        <3> HIDE DEF block
        <3>q. QED BY <1>6, <1>7, Zenon
    <2>3. /\ pc' = "route" /\ Accepted(snac') /\ sent' = <<>> /\ gm'.otr = FALSE
          /\ WellFormed(snac') => MsgBlock' = BlockOf(Msg(snac'))
          BY <1>1, <1>a, <1>b, <1>7
    <2>q. QED BY <2>1, <2>2, <2>3 DEF IInv
<1>2. Accepted(snac) /\ Converting
      BY <1>1, <1>a, <1>b DEF IInv
<1>3. ss \in Seq(Section)
      BY <1>2, MsgType
<1>4. /\ unrepresentable = ~AllOf(ss)
      /\ ~unrepresentable => msgtext = IF ss = <<>> THEN NULL ELSE TextOf(ss)
    <2>1. PICK k \in 0 .. Len(ss) :
              /\ sections = SubSeq(ss, k + 1, Len(ss))
              /\ unrepresentable = ~AllOf(SubSeq(ss, 1, k))
              /\ ~unrepresentable => msgtext = IF k = 0 THEN NULL ELSE TextOf(SubSeq(ss, 1, k))
          BY <1>2 DEF Converting
    <2> HIDE DEF ss
    <2>2. Len(SubSeq(ss, k + 1, Len(ss))) = Len(ss) - k
          BY <1>3, Pieces
    <2>3. Len(ss) \in Nat /\ k \in Nat /\ Len(<<>>) = 0
          BY <1>3
    <2>4. k = Len(ss)
        <3>1. Len(SubSeq(ss, k + 1, Len(ss))) = 0
              BY <1>1, <2>1, <2>3
        <3>q. QED BY <2>2, <2>3, <3>1
    <2>5. SubSeq(ss, 1, k) = ss
          BY <1>3, <2>4, PieceWhole
    <2>6. k = 0 <=> ss = <<>>
          BY <1>3, <2>4
    <2>q. QED BY <2>1, <2>5, <2>6
<1>5. gm.msgtlv = IF HasBlock(snac) THEN Block(snac) ELSE NULL
      BY <1>2 DEF Converting
<1> HIDE DEF block
<1>9. MsgBlock' = BlockOf(Msg(snac))
    <2> DEFINE n == TextOf(ss)
    <2>1. CASE ~HasBlock(snac)
        <3>1. ss = <<>> /\ BlockOf(Msg(snac)) = <<>>
              BY <2>1 DEF SectionsOf, BlockOf, HasBlock
        <3>2. AllOf(ss)
              BY <3>1 DEF AllOf
        <3>3. msgtext = NULL /\ block = NULL
              BY <1>4, <3>1, <3>2 DEF block
        <3>q. QED BY <1>7, <3>1, <3>3 DEF MsgBlock
    <2>2. CASE HasBlock(snac) /\ unrepresentable
        <3>1. block = Block(snac)
              BY <1>5, <2>2 DEF block
        <3>2. Block(snac) # NULL /\ BlockOf(Msg(snac)) = <<Block(snac)>>
            <4>a. ~AllOf(SectionsOf(snac)) /\ HasBlock(snac)
                  BY <1>4, <2>2
            <4>1. /\ Block(snac) # NULL /\ BlockOf(Msg(snac)) = Relayed(Block(snac))
                  /\ ~AllText(Block(snac))
                  BY <1>2, <4>a, BlockText
            <4>2. Relayed(Block(snac)) = <<Block(snac)>>
                  BY <4>1 DEF Relayed
            <4>q. QED BY <4>1, <4>2
        <3>q. QED BY <1>7, <3>1, <3>2 DEF MsgBlock
    <2>3. CASE HasBlock(snac) /\ ~unrepresentable
        <3>1. /\ AllOf(ss) /\ block = NULL /\ msgtext = IF ss = <<>> THEN NULL ELSE n
              BY <1>4, <2>3 DEF block
        <3>2. /\ ss = Block(snac).sections /\ BlockOf(Msg(snac)) = Relayed(Block(snac))
              /\ AllText(Block(snac)) /\ TextLen(Block(snac)) = n /\ n \in Nat
              /\ ss # <<>> => 16 + n <= 32000
              BY <1>2, <2>3, <3>1, BlockText
        <3> HIDE DEF n
        <3>3. CASE ss = <<>>
            <4>1. Relayed(Block(snac)) = <<>>
                  BY <3>2, <3>3 DEF Relayed
            <4>2. gm'.text = NULL /\ gm'.msgtlv = NULL
                  BY <1>7, <3>1, <3>3
            <4>3. MsgBlock' = <<>>
                  BY <4>2 DEF MsgBlock
            <4>q. QED BY <3>2, <4>1, <4>3
        <3>4. CASE ss # <<>>
            <4> DEFINE t == naf_tlv_new("msgblock", MSGBLOCKLEN + n, <<[encoding |-> "iso", bytes |-> n]>>)
            <4>1. Relayed(Block(snac)) = <<t>>
                  BY <3>2, <3>4 DEF Relayed
            <4>2. gm'.text = n /\ gm'.msgtlv = NULL /\ n # NULL
                  BY <1>7, <3>1, <3>2, <3>4, NullAssumption
            <4>3. MsgBlock' = <<_naf_tlv_addoscarmsgblock(n)>>
                  BY <4>2 DEF MsgBlock
            <4>4. _naf_tlv_addoscarmsgblock(n) = t
                  BY <3>2, <3>4, BlockMade DEF MadeOf
            <4> HIDE DEF t
            <4>q. QED BY <3>2, <4>1, <4>3, <4>4
        <3>q. QED BY <3>3, <3>4
    <2>q. QED BY <2>1, <2>2, <2>3
<1>q. QED BY <1>9

\* The head of a frame: cookie, channel, name, and for a client the warning
\* level and the number of TLVs.  A frame begins with a buffer of 512 bytes.
HeadOut(n) == naf_sbuf_putraw(naf_sbuf_put(toscar_newsnacsb, 1), n)
HeadIn(n) == naf_sbuf_put(naf_sbuf_put(HeadOut(n), 2), 2)

\* A put of less than a block costs the bytes put.
LEMMA SmallPut ==
    ASSUME NEW sb, NEW n \in Nat, n < 256, NEW r \in Nat, NEW all, all = r + n, Room(sb, all)
    PROVE  naf_sbuf_put(sb, n).pos = sb.pos + n /\ Room(naf_sbuf_put(sb, n), r)
<1>1. CostOfPut(n) = n
      BY DEF CostOfPut
<1>2. Room(sb, r + CostOfPut(n))
      BY <1>1
<1>q. QED BY <1>2, PutFits

\* There is room behind it for all that goes out.
LEMMA HeadRoom ==
    ASSUME NEW n \in Nat, n <= 255, NEW r \in Nat, r <= 31900
    PROVE  /\ HeadOut(n).pos = 27 + n /\ Room(HeadOut(n), r)
           /\ HeadIn(n).pos = 31 + n /\ Room(HeadIn(n), r)
<1> DEFINE a == naf_sbuf_init
           b == naf_sbuf_put(a, 16)
           c == naf_sbuf_put(b, 8)
           d == naf_sbuf_put(c, 2)
           e == naf_sbuf_put(d, 1)
           f == naf_sbuf_put(e, n)
           g == naf_sbuf_put(f, 2)
           h == naf_sbuf_put(g, 2)
<1>2. f = HeadOut(n) /\ h = HeadIn(n)
      BY DEF HeadOut, HeadIn, toscar_newsnacsb, naf_sbuf_putraw, FLAPHDRLEN, SNACHDRLEN, MSGCOOKIELEN
<1>3. ASSUME NEW x, NEW m \in Nat, m < 256, NEW z \in Nat, NEW y \in Nat, y = z + m, Room(x, y)
      PROVE  naf_sbuf_put(x, m).pos = x.pos + m /\ Room(naf_sbuf_put(x, m), z)
      BY <1>3, SmallPut
<1>4. ASSUME NEW q \in Nat, q <= 31904
      PROVE  f.pos = 27 + n /\ Room(f, q)
    <2>1. a.pos = 0 /\ Room(a, q + 27 + n)
        <3> DEFINE yes == TRUE
                   len == 512
                   v == [buflen |-> len, pos |-> 0, autoresize |-> yes]
        <3>1. a = v
              BY DEF naf_sbuf_init, NAF_SBUF_DEFAULT_BUFLEN
        <3>a. yes \in BOOLEAN
              OBVIOUS
        <3>2. yes
              OBVIOUS
        <3>3. len \in Nat /\ 0 \in Nat /\ len < U16 /\ 0 < U16 /\ len = 512
              BY DEF U16
        <3> HIDE DEF a, yes, len
        <3>4. v \in Sbuf
              BY <3>a, <3>3, SbufMade
        <3>5. v.pos = 0 /\ v.buflen = 512 /\ v.autoresize = yes
              BY <3>3
        <3> HIDE DEF v
        <3>6. 0 + 512 + (q + 27 + n) <= 32768 /\ 512 + (q + 27 + n) <= 32768 /\ 0 <= 512
              BY <1>4
        <3>q. QED BY <3>1, <3>2, <3>4, <3>5, <3>6 DEF Room, NAF_SBUF_DEFAULT_MAXBUFLEN
    <2> HIDE DEF a, b, c, d, e, f
    <2>2. b.pos = a.pos + 16 /\ Room(b, q + 11 + n)
        <3>1. q + 27 + n \in Nat /\ q + 11 + n \in Nat /\ q + 27 + n = (q + 11 + n) + 16
              BY <1>4
        <3>q. QED BY <1>3, <2>1, <3>1 DEF b
    <2>3. c.pos = b.pos + 8 /\ Room(c, q + 3 + n)
        <3>1. q + 3 + n \in Nat /\ q + 11 + n \in Nat /\ q + 11 + n = (q + 3 + n) + 8
              BY <1>4
        <3>q. QED BY <1>3, <2>2, <3>1 DEF c
    <2>4. d.pos = c.pos + 2 /\ Room(d, q + 1 + n)
        <3>1. q + 1 + n \in Nat /\ q + 3 + n \in Nat /\ q + 3 + n = (q + 1 + n) + 2
              BY <1>4
        <3>q. QED BY <1>3, <2>3, <3>1 DEF d
    <2>5. e.pos = d.pos + 1 /\ Room(e, q + n)
        <3>1. q + n \in Nat /\ q + 1 + n \in Nat /\ q + 1 + n = (q + n) + 1
              BY <1>4
        <3>q. QED BY <1>3, <2>4, <3>1 DEF e
    <2>6. f.pos = e.pos + n /\ Room(f, q)
        <3>1. q + n \in Nat /\ n < 256
              BY <1>4
        <3>q. QED BY <1>3, <2>5, <3>1 DEF f
    <2>q. QED BY <2>1, <2>2, <2>3, <2>4, <2>5, <2>6
<1>5. f.pos = 27 + n /\ Room(f, r) /\ Room(f, r + 4)
    <2>1. r \in Nat /\ r <= 31904 /\ r + 4 \in Nat /\ r + 4 <= 31904
          OBVIOUS
    <2> HIDE DEF f
    <2>q. QED BY <1>4, <2>1
<1> HIDE DEF f, g, h
<1>6. g.pos = f.pos + 2 /\ Room(g, r + 2)
    <2>1. r + 2 \in Nat /\ r + 4 \in Nat /\ r + 4 = (r + 2) + 2
          OBVIOUS
    <2>q. QED BY <1>3, <1>5, <2>1 DEF g
<1>7. h.pos = g.pos + 2 /\ Room(h, r)
    <2>1. r + 2 \in Nat
          OBVIOUS
    <2>q. QED BY <1>3, <1>6, <2>1 DEF h
<1>q. QED BY <1>2, <1>5, <1>6, <1>7

\* What Rendering says of a frame with nothing but its head.
LEMMA FrameBegun ==
    ASSUME NEW c \in Nat, NEW sb, Room(sb, c)
    PROVE  sb \in Sbuf /\ sb.pos <= sb.buflen /\ sb.buflen <= NAF_SBUF_DEFAULT_MAXBUFLEN
<1>1. sb \in Sbuf /\ sb.pos <= sb.buflen /\ sb.buflen + c <= NAF_SBUF_DEFAULT_MAXBUFLEN
      BY DEF Room
<1>2. sb.buflen \in Nat
      BY <1>1, SbufFields
<1>3. sb.buflen <= NAF_SBUF_DEFAULT_MAXBUFLEN
    <2> DEFINE y == sb.buflen
    <2>1. y \in Nat /\ y + c <= 32768
          BY <1>1, <1>2 DEF NAF_SBUF_DEFAULT_MAXBUFLEN
    <2> HIDE DEF y
    <2>2. y <= 32768
          BY <2>1
    <2>q. QED BY <2>2 DEF y, NAF_SBUF_DEFAULT_MAXBUFLEN
<1>q. QED BY <1>1, <1>3

\* The lists of a message put together, without user info and with it.
LEMMA FlatThree ==
    ASSUME NEW a \in Seq(TLV), NEW b \in Seq(TLV), NEW c \in Seq(TLV)
    PROVE  /\ <<a, b, c>> \in Seq(Seq(TLV)) /\ Len(<<a, b, c>>) = 3
           /\ Flat(<<a, b, c>>) = <<>> \o a \o b \o c
<1> DEFINE S == Seq(TLV)
           l == <<a, b, c>>
<1>1. a \in S /\ b \in S /\ c \in S
      OBVIOUS
<1> HIDE DEF S
<1>2. l \in Seq(S) /\ Len(l) = 3 /\ l[1] = a /\ l[2] = b /\ l[3] = c
      BY <1>1
<1> HIDE DEF l
<1>3. Back(l, 4) = <<>> /\ Back(l, 3) = a /\ Back(l, 2) = b /\ Back(l, 1) = c
      BY <1>2 DEF Back
<1>q. QED BY <1>2, <1>3 DEF l, S, Flat

LEMMA FlatFour ==
    ASSUME NEW l, Len(l) = 4
    PROVE  Flat(l) = l[1] \o l[2] \o l[3] \o l[4]
<1>1. Back(l, 4) = l[1] /\ Back(l, 3) = l[2] /\ Back(l, 2) = l[3] /\ Back(l, 1) = l[4]
      BY DEF Back
<1>q. QED BY <1>1, Zenon DEF Flat

\* A list in front of three.
LEMMA OneAndThree ==
    ASSUME NEW S, NEW i \in S, NEW a \in S, NEW b \in S, NEW c \in S
    PROVE  <<i>> \o <<a, b, c>> = <<i, a, b, c>>
<1> DEFINE x == <<i>> \o <<a, b, c>>
           y == <<i, a, b, c>>
<1>1. x \in Seq(S) /\ y \in Seq(S)
    <2>1. <<i>> \in Seq(S) /\ <<a, b, c>> \in Seq(S)
          OBVIOUS
    <2>2. x \in Seq(S)
          BY <2>1, ConcatProperties
    <2>q. QED BY <2>2
<1>2. Len(x) = 4 /\ Len(y) = 4
      OBVIOUS
<1>3. \A j \in 1 .. 4 : x[j] = y[j]
      OBVIOUS
<1> HIDE DEF x, y
<1>4. x = y
      BY <1>1, <1>2, <1>3, SeqEqual
<1>q. QED BY <1>4 DEF x, y

\* The message block of a message that timps-otr made.
LEMMA MadeOfCost ==
    ASSUME NEW n \in Nat, n <= MAXTEXT
    PROVE  /\ <<MadeOf(n)>> \in Seq(TLV) /\ Cost(<<MadeOf(n)>>) \in Nat
           /\ Cost(<<MadeOf(n)>>) <= 31900 /\ _naf_tlv_addoscarmsgblock(n) = MadeOf(n)
<1> DEFINE b == MadeOf(n)
<1>1. n <= 31600
      BY DEF MAXTEXT
<1>2. b \in TLV /\ b.length = 16 + n
      BY DEF MadeOf, naf_tlv_new, TLV, Section, Types, Encodings, MSGBLOCKLEN
<1>3. _naf_tlv_addoscarmsgblock(n) = b
      BY <1>1, BlockMade
<1> HIDE DEF b
<1>4. Cost(<<b>>) = Growth[b] /\ <<b>> \in Seq(TLV)
      BY <1>2, SizeOne
<1>5. Growth[b] \in Nat /\ Growth[b] <= 4 + (16 + n) + 255
      BY <1>2 DEF Growth
<1>6. Growth[b] <= 31900
      BY <1>1, <1>5
<1>q. QED BY <1>3, <1>4, <1>5, <1>6 DEF b

\* What toscar_icbm_sendoutgoing and toscar_icbm_sendincoming take: the user
\* info i, the ack flag, the flags f and all that is to go out, W.
Chosen(d, i, ack, f, W) ==
    /\ d \in {"tohost", "toclient"}
    /\ f = Flags(ack, gm.auto)
    /\ W = Outgoing(d, snac, gm.otr, gm.text)
    /\ d = "tohost" => snac.head.subtype = "0006" /\ i = <<>> /\ ack = gm.ack
    /\ d = "toclient" => i = srcinfo /\ ack = FALSE

\* The lists that are rendered are what goes out, and there is room for them.
Lists(i, f, W) ==
    /\ i \in Seq(TLV) /\ MsgBlock \in Seq(TLV) /\ f \in Seq(TLV) /\ tlvh \in Seq(TLV)
    /\ W \in Seq(TLV) /\ Cost(W) \in Nat /\ Cost(W) <= 31900
    /\ W = i \o MsgBlock \o f \o tlvh

\* Whatever is taken, the lists are what goes out, and fit.
LEMMA ListsOut ==
    ASSUME IInv, pc = "route", Fits,
           NEW d, NEW STATE i, NEW STATE ack, NEW STATE f, NEW STATE W,
           Chosen(d, i, ack, f, W)
    PROVE  Lists(i, f, W)
<1>a. /\ d \in {"tohost", "toclient"} /\ f = Flags(ack, gm.auto)
      /\ W = Outgoing(d, snac, gm.otr, gm.text)
      /\ d = "tohost" => snac.head.subtype = "0006" /\ i = <<>> /\ ack = gm.ack
      /\ d = "toclient" => i = srcinfo /\ ack = FALSE
      BY DEF Chosen
<1> SUFFICES /\ i \in Seq(TLV) /\ MsgBlock \in Seq(TLV) /\ f \in Seq(TLV) /\ tlvh \in Seq(TLV)
             /\ W \in Seq(TLV) /\ Cost(W) \in Nat /\ Cost(W) <= 31900
             /\ W = i \o MsgBlock \o f \o tlvh
      BY DEF Lists
<1> DEFINE msg == Msg(snac)
<1>1. Accepted(snac)
      BY DEF IInv
<1>2. CASE gm.otr
    <2>1. /\ srcinfo = <<>> /\ tlvh = <<>> /\ gm.text \in Nat /\ gm.msgtlv = NULL
          /\ gm.ack = FALSE /\ gm.auto = FALSE /\ gm.text <= MAXTEXT
          BY <1>2 DEF IInv, FromOtr, Fits
    <2> DEFINE b == MadeOf(gm.text)
    <2>2. /\ <<b>> \in Seq(TLV) /\ Cost(<<b>>) \in Nat /\ Cost(<<b>>) <= 31900
          /\ _naf_tlv_addoscarmsgblock(gm.text) = b
          BY <2>1, MadeOfCost
    <2>3. MsgBlock = <<b>>
        <3>1. gm.text # NULL
              BY <2>1, NullAssumption
        <3>2. MsgBlock = <<_naf_tlv_addoscarmsgblock(gm.text)>>
              BY <2>1, <3>1 DEF MsgBlock
        <3>q. QED BY <2>2, <3>2
    <2>4. W = <<b>>
          BY <1>2, <1>a DEF Outgoing
    <2>5. i = <<>> /\ ack = FALSE
          BY <1>a, <2>1
    <2>6. f = <<>>
          BY <1>a, <2>1, <2>5 DEF Flags
    <2> HIDE DEF b
    <2>7. <<>> \in Seq(TLV) /\ <<>> \o <<b>> \o <<>> \o <<>> = <<b>>
        <3> DEFINE l == <<b>>
        <3>1. l \in Seq(TLV)
              BY <2>2
        <3> HIDE DEF l
        <3>2. <<>> \o l = l /\ l \o <<>> = l
              BY <3>1, PieceWhole
        <3>3. <<>> \o l \o <<>> \o <<>> = l
              BY <3>2, Zenon
        <3>q. QED BY <3>3 DEF l
    <2>8. W = i \o MsgBlock \o f \o tlvh
          BY <2>1, <2>3, <2>4, <2>5, <2>6, <2>7, Zenon
    <2>q. QED BY <2>1, <2>2, <2>3, <2>4, <2>5, <2>6, <2>7, <2>8
<1>3. CASE ~gm.otr
    <2>1. WellFormed(snac) /\ FromPayload /\ MsgBlock = BlockOf(msg)
          BY <1>3 DEF Fits, IInv
    <2>2. /\ srcinfo = First(Info(snac), Held(snac)) /\ tlvh = NotUnderstood(msg)
          /\ gm.ack = (Typed(msg, "ack") # {}) /\ gm.auto = (Typed(msg, "autoresponse") # {})
          BY <2>1 DEF FromPayload
    <2>3. W = WholeTo(d, snac)
          BY <1>3, <1>a DEF Outgoing
    <2>4. i = First(Info(snac), Held(snac))
        <3>1. CASE d = "toclient"
              BY <1>a, <2>2, <3>1
        <3>2. CASE d = "tohost"
            <4>1. Info(snac) = 0
                  BY <1>a, <3>2 DEF Info
            <4>2. Held(snac) \in Seq(SoundTlv)
                  BY <1>1, HeldType DEF Accepted
            <4>3. First(0, Held(snac)) = <<>>
                  BY <4>2 DEF First
            <4>q. QED BY <1>a, <3>2, <4>1, <4>3
        <3>q. QED BY <1>a, <3>1, <3>2
    <2>5. f = FlagsOf(d, msg)
        <3> DEFINE x == Typed(msg, "ack") # {}
                   y == Typed(msg, "autoresponse") # {}
        <3>1. FlagsOf(d, msg) = Flags(d = "tohost" /\ x, y)
              BY DEF FlagsOf
        <3>2. ack = (d = "tohost" /\ x) /\ gm.auto = y
            <4>1. CASE d = "tohost"
                  BY <1>a, <2>2, <4>1
            <4>2. CASE d = "toclient"
                  BY <1>a, <2>2, <4>2
            <4>q. QED BY <1>a, <4>1, <4>2
        <3> HIDE DEF x, y
        <3>q. QED BY <1>a, <3>1, <3>2
    <2>6. /\ First(Info(snac), Held(snac)) \in Seq(TLV) /\ BlockOf(msg) \in Seq(TLV)
          /\ FlagsOf(d, msg) \in Seq(TLV) /\ NotUnderstood(msg) \in Seq(TLV)
          /\ WholeTo(d, snac) \in Seq(TLV) /\ Cost(WholeTo(d, snac)) <= 29000
          BY <1>1, <1>a, WholeCost
    <2>7. WholeTo(d, snac) = First(Info(snac), Held(snac)) \o BlockOf(msg) \o FlagsOf(d, msg) \o NotUnderstood(msg)
          BY DEF WholeTo
    <2>8. Cost(WholeTo(d, snac)) \in Nat
          BY <2>6, SizeType
    <2> DEFINE c == Cost(WholeTo(d, snac))
    <2>9. c \in Nat /\ c <= 29000
          BY <2>6, <2>8
    <2> HIDE DEF c, msg
    <2>10. c <= 31900
          BY <2>9
    <2>11. Cost(W) \in Nat /\ Cost(W) <= 31900
          BY <2>3, <2>9, <2>10 DEF c
    <2>12. W = i \o MsgBlock \o f \o tlvh
          BY <2>1, <2>2, <2>3, <2>4, <2>5, <2>7, Zenon
    <2>13. i \in Seq(TLV)
          BY <2>4, <2>6
    <2>14. MsgBlock \in Seq(TLV)
          BY <2>1, <2>6
    <2>15. f \in Seq(TLV)
          BY <2>5, <2>6
    <2>16. tlvh \in Seq(TLV)
          BY <2>2, <2>6
    <2>17. W \in Seq(TLV)
          BY <2>3, <2>6
    <2>q. QED BY <2>11, <2>12, <2>13, <2>14, <2>15, <2>16, <2>17
<1>q. QED BY <1>2, <1>3, SMTT(60)

\* A frame to the host is begun.
LEMMA OutgoingKeeps == IInv /\ toscar_icbm_sendoutgoing => IInv'
<1> SUFFICES ASSUME IInv, toscar_icbm_sendoutgoing PROVE IInv'
    OBVIOUS
<1> DEFINE n == snac.head.namelen
           W == Outgoing("tohost", snac, gm.otr, gm.text)
           i == <<>>
           b == MsgBlock
           f == Flags(gm.ack, gm.auto)
           u == tlvh
<1>1. /\ pc = "route" /\ pc' = "render" /\ snac' = snac /\ sent' = sent /\ dir' = "tohost"
      /\ snac.head.subtype = "0006" /\ gm' = gm
      /\ out' = HeadOut(n) /\ todo' = <<b, f, u>>
      BY DEF toscar_icbm_sendoutgoing, PutName, HeadOut, toscar_icbm__renderchan1
<1>2. Accepted(snac) /\ sent = <<>>
      BY <1>1 DEF IInv
<1>a. gm'.otr = gm.otr /\ gm'.text = gm.text
      BY <1>1
<1>3. SUFFICES ASSUME Fits PROVE Rendering'
    <2>1. Fits' <=> Fits
          BY <1>1, <1>a DEF Fits
    <2>q. QED BY <1>1, <1>2, <1>3, <2>1 DEF IInv
<1>4. /\ i \in Seq(TLV) /\ b \in Seq(TLV) /\ f \in Seq(TLV) /\ u \in Seq(TLV)
      /\ W \in Seq(TLV) /\ Cost(W) \in Nat /\ Cost(W) <= 31900
      /\ W = i \o b \o f \o u
    <2> DEFINE d == "tohost"
               ack == gm.ack
    <2>1. Chosen(d, i, ack, f, W) /\ pc = "route"
          BY <1>1 DEF Chosen
    <2> HIDE DEF d, i, ack, W, f
    <2>2. Lists(i, f, W)
          BY <1>3, <2>1, ListsOut
    <2>q. QED BY <2>2 DEF Lists
<1>6. n \in Nat /\ n <= 255
      BY <1>2, SnacFields DEF Accepted
<1> HIDE DEF W, i, b, f, u, n
<1>9. out'.pos = 27 + n /\ Room(out', Cost(W))
    <2> DEFINE c == Cost(W)
    <2>1. c \in Nat /\ c <= 31900
          BY <1>4
    <2> HIDE DEF c
    <2>2. HeadOut(n).pos = 27 + n /\ Room(HeadOut(n), c)
          BY <1>6, <2>1, HeadRoom
    <2>q. QED BY <1>1, <2>2 DEF c
<1>10. todo' \in Seq(Seq(TLV)) /\ Len(todo') <= 4 /\ Flat(todo') = W
    <2>1. <<b, f, u>> \in Seq(Seq(TLV)) /\ Len(<<b, f, u>>) = 3 /\ Flat(<<b, f, u>>) = <<>> \o b \o f \o u
        <3>1. b \in Seq(TLV) /\ f \in Seq(TLV) /\ u \in Seq(TLV)
              BY <1>4
        <3>q. QED BY <3>1, FlatThree, Zenon
    <2>a. W = <<>> \o b \o f \o u
          BY <1>4 DEF i
    <2> DEFINE t == <<b, f, u>>
    <2> HIDE DEF t
    <2>2. t \in Seq(Seq(TLV)) /\ Len(t) = 3 /\ Flat(t) = W
          BY <2>1, <2>a DEF t
    <2>3. todo' = t
          BY <1>1 DEF t
    <2>4. todo' \in Seq(Seq(TLV)) /\ Len(todo') = 3 /\ Flat(todo') = W
          BY <2>2, <2>3, Zenon
    <2>q. QED BY <2>4
<1>11. OutHeadLen' = 27 + n
    <2>1. OutHeadLen' = 6 + 10 + 8 + 2 + 1 + snac.head.namelen + 0
          BY <1>1 DEF OutHeadLen, FLAPHDRLEN, SNACHDRLEN, MSGCOOKIELEN
    <2>q. QED BY <1>6, <2>1 DEF n
<1>12. /\ out' \in Sbuf /\ out'.pos = 27 + n + Size(<<>>)
       /\ out'.pos <= out'.buflen /\ out'.buflen <= NAF_SBUF_DEFAULT_MAXBUFLEN
    <2> DEFINE k == 27 + n
    <2>1. k \in Nat /\ out'.pos = k
          BY <1>6, <1>9
    <2> HIDE DEF k
    <2>2. k = k + Size(<<>>)
        <3>1. <<>> \in Seq(TLV)
              OBVIOUS
        <3>2. Size(<<>>) = 0
              BY <3>1, SizeType
        <3>q. QED BY <2>1, <3>2
    <2> DEFINE c == Cost(W)
               o == out'
    <2>3. c \in Nat /\ Room(o, c)
          BY <1>4, <1>9
    <2> HIDE DEF c, o
    <2>4. o \in Sbuf /\ o.pos <= o.buflen /\ o.buflen <= NAF_SBUF_DEFAULT_MAXBUFLEN
          BY <2>3, FrameBegun
    <2>q. QED BY <2>1, <2>2, <2>4 DEF k, o
<1>13. <<>> \o W = W /\ <<>> \in Seq(TLV)
      BY <1>4, PieceWhole
<1>14. W = Outgoing(dir', snac', gm'.otr, gm'.text)
      BY <1>1, <1>a DEF W
<1>15. Rendering'
    <2>1. /\ dir' \in {"tohost", "toclient"} /\ sent' = <<>> /\ sent' \in Seq(TLV)
          BY <1>1, <1>2, <1>13
    <2>2. sent' \o Flat(todo') = Outgoing(dir', snac', gm'.otr, gm'.text) /\ Room(out', Cost(Flat(todo')))
          BY <1>9, <1>10, <1>13, <1>14, <2>1
    <2>3. out'.pos = OutHeadLen' + Size(sent')
          BY <1>11, <1>12, <2>1
    <2>q. QED BY <1>10, <1>12, <2>1, <2>2, <2>3 DEF Rendering
<1>q. QED BY <1>15

\* A frame to a client is begun.
LEMMA IncomingKeeps == IInv /\ toscar_icbm_sendincoming => IInv'
<1> SUFFICES ASSUME IInv, toscar_icbm_sendincoming PROVE IInv'
    OBVIOUS
<1> DEFINE n == snac.head.namelen
           W == Outgoing("toclient", snac, gm.otr, gm.text)
           i == srcinfo
           b == MsgBlock
           f == Flags(FALSE, gm.auto)
           u == tlvh
<1>1. /\ pc = "route" /\ pc' = "render" /\ snac' = snac /\ sent' = sent /\ dir' = "toclient"
      /\ gm' = [gm EXCEPT !.ack = FALSE]
      /\ out' = HeadIn(n) /\ todo' = <<i>> \o <<b, f, u>>
      BY DEF toscar_icbm_sendincoming, PutName, HeadOut, HeadIn, toscar_icbm__renderchan1
<1>2. Accepted(snac) /\ sent = <<>>
      BY <1>1 DEF IInv
<1>a. gm'.otr = gm.otr /\ gm'.text = gm.text
    <2> DEFINE no == FALSE
    <2>1. gm = [text |-> gm.text, msgtlv |-> gm.msgtlv, ack |-> gm.ack, auto |-> gm.auto, otr |-> gm.otr]
          BY <1>1 DEF IInv
    <2>2. gm' = [gm EXCEPT !.ack = no]
          BY <1>1
    <2> HIDE DEF no
    <2>q. QED BY <2>1, <2>2
<1>3. SUFFICES ASSUME Fits PROVE Rendering'
    <2>1. Fits' <=> Fits
          BY <1>1, <1>a DEF Fits
    <2>q. QED BY <1>1, <1>2, <1>3, <2>1 DEF IInv
<1>4. /\ i \in Seq(TLV) /\ b \in Seq(TLV) /\ f \in Seq(TLV) /\ u \in Seq(TLV)
      /\ W \in Seq(TLV) /\ Cost(W) \in Nat /\ Cost(W) <= 31900
      /\ W = i \o b \o f \o u
    <2> DEFINE d == "toclient"
               ack == FALSE
    <2>1. Chosen(d, i, ack, f, W) /\ pc = "route"
          BY <1>1 DEF Chosen
    <2> HIDE DEF d, i, ack, W, f
    <2>2. Lists(i, f, W)
          BY <1>3, <2>1, ListsOut
    <2>q. QED BY <2>2 DEF Lists
<1>6. n \in Nat /\ n <= 255
      BY <1>2, SnacFields DEF Accepted
<1> HIDE DEF W, i, b, f, u, n
<1>9. out'.pos = 31 + n /\ Room(out', Cost(W))
    <2> DEFINE c == Cost(W)
    <2>1. c \in Nat /\ c <= 31900
          BY <1>4
    <2> HIDE DEF c
    <2>2. HeadIn(n).pos = 31 + n /\ Room(HeadIn(n), c)
          BY <1>6, <2>1, HeadRoom
    <2>q. QED BY <1>1, <2>2 DEF c
<1>10. todo' \in Seq(Seq(TLV)) /\ Len(todo') <= 4 /\ Flat(todo') = W
    <2>1. i \in Seq(TLV) /\ b \in Seq(TLV) /\ f \in Seq(TLV) /\ u \in Seq(TLV)
          BY <1>4
    <2>2. todo' = <<i, b, f, u>>
        <3>1. <<i>> \o <<b, f, u>> = <<i, b, f, u>>
              BY <2>1, OneAndThree, Zenon
        <3>q. QED BY <1>1, <3>1, Zenon
    <2> DEFINE S == Seq(TLV)
    <2>3. i \in S /\ b \in S /\ f \in S /\ u \in S
          BY <2>1
    <2> HIDE DEF S
    <2>4. /\ todo' \in Seq(S) /\ Len(todo') = 4
          /\ todo'[1] = i /\ todo'[2] = b /\ todo'[3] = f /\ todo'[4] = u
          BY <2>2, <2>3
    <2>5. Flat(todo') = i \o b \o f \o u
          BY <2>4, FlatFour
    <2>q. QED BY <1>4, <2>4, <2>5 DEF S
<1>11. OutHeadLen' = 31 + n
    <2>1. OutHeadLen' = 6 + 10 + 8 + 2 + 1 + snac.head.namelen + (2 + 2)
          BY <1>1 DEF OutHeadLen, FLAPHDRLEN, SNACHDRLEN, MSGCOOKIELEN
    <2>q. QED BY <1>6, <2>1 DEF n
<1>12. /\ out' \in Sbuf /\ out'.pos = 31 + n + Size(<<>>)
       /\ out'.pos <= out'.buflen /\ out'.buflen <= NAF_SBUF_DEFAULT_MAXBUFLEN
    <2> DEFINE k == 31 + n
    <2>1. k \in Nat /\ out'.pos = k
          BY <1>6, <1>9
    <2> HIDE DEF k
    <2>2. k = k + Size(<<>>)
        <3>1. <<>> \in Seq(TLV)
              OBVIOUS
        <3>2. Size(<<>>) = 0
              BY <3>1, SizeType
        <3>q. QED BY <2>1, <3>2
    <2> DEFINE c == Cost(W)
               o == out'
    <2>3. c \in Nat /\ Room(o, c)
          BY <1>4, <1>9
    <2> HIDE DEF c, o
    <2>4. o \in Sbuf /\ o.pos <= o.buflen /\ o.buflen <= NAF_SBUF_DEFAULT_MAXBUFLEN
          BY <2>3, FrameBegun
    <2>q. QED BY <2>1, <2>2, <2>4 DEF k, o
<1>13. <<>> \o W = W /\ <<>> \in Seq(TLV)
      BY <1>4, PieceWhole
<1>14. W = Outgoing(dir', snac', gm'.otr, gm'.text)
      BY <1>1, <1>a DEF W
<1>15. Rendering'
    <2>1. /\ dir' \in {"tohost", "toclient"} /\ sent' = <<>> /\ sent' \in Seq(TLV)
          BY <1>1, <1>2, <1>13
    <2>2. sent' \o Flat(todo') = Outgoing(dir', snac', gm'.otr, gm'.text) /\ Room(out', Cost(Flat(todo')))
          BY <1>9, <1>10, <1>13, <1>14, <2>1
    <2>3. out'.pos = OutHeadLen' + Size(sent')
          BY <1>11, <1>12, <2>1
    <2>q. QED BY <1>10, <1>12, <2>1, <2>2, <2>3 DEF Rendering
<1>q. QED BY <1>15

\* A message that timps-otr makes.
LEMMA OtrMade ==
    ASSUME NEW n
    PROVE  [NewMsg EXCEPT !.text = n, !.otr = TRUE]
               = [text |-> n, msgtlv |-> NULL, ack |-> FALSE, auto |-> FALSE, otr |-> TRUE]
<1> DEFINE no == FALSE
           yes == TRUE
           m == [text |-> NULL, msgtlv |-> NULL, ack |-> no, auto |-> no, otr |-> no]
           a == [m EXCEPT !.text = n]
           b == [a EXCEPT !.otr = yes]
<1> HIDE DEF no, yes
<1>1. a = [text |-> n, msgtlv |-> NULL, ack |-> no, auto |-> no, otr |-> no]
      OBVIOUS
<1> HIDE DEF a
<1>2. b = [text |-> n, msgtlv |-> NULL, ack |-> no, auto |-> no, otr |-> yes]
      BY <1>1
<1>q. QED BY <1>2, Zenon DEF a, no, yes, NewMsg

\* timps-otr sends a message of its own.
LEMMA OtrKeeps == IInv /\ totr_sendnewmsg => IInv'
<1> SUFFICES ASSUME IInv, totr_sendnewmsg PROVE IInv'
    OBVIOUS
<1>1. /\ pc = "route" /\ pc' = "route" /\ snac' = snac /\ sent' = sent
      /\ srcinfo' = <<>> /\ tlvh' = <<>>
      BY DEF totr_sendnewmsg
<1>2. PICK n \in OtrTexts : gm' = [NewMsg EXCEPT !.text = n, !.otr = TRUE]
      BY DEF totr_sendnewmsg
<1>3. gm' = [text |-> n, msgtlv |-> NULL, ack |-> FALSE, auto |-> FALSE, otr |-> TRUE]
      BY <1>2, OtrMade
<1>4. gm'.text = n /\ gm'.msgtlv = NULL /\ gm'.ack = FALSE /\ gm'.auto = FALSE /\ gm'.otr = TRUE
    <2> DEFINE no == FALSE
               yes == TRUE
    <2>1. gm' = [text |-> n, msgtlv |-> NULL, ack |-> no, auto |-> no, otr |-> yes]
          BY <1>3
    <2> HIDE DEF no, yes
    <2>2. gm'.text = n /\ gm'.msgtlv = NULL /\ gm'.ack = no /\ gm'.auto = no /\ gm'.otr = yes
          BY <2>1
    <2>q. QED BY <2>2 DEF no, yes
<1>5. n \in Nat
      BY OtrAssumption
<1>6. FromOtr'
      BY <1>1, <1>4, <1>5 DEF FromOtr
<1>7. gm' = [text |-> gm'.text, msgtlv |-> gm'.msgtlv, ack |-> gm'.ack, auto |-> gm'.auto, otr |-> gm'.otr]
      BY <1>3, <1>4, Zenon
<1>8. Accepted(snac) /\ sent = <<>>
      BY <1>1 DEF IInv
<1>q. QED BY <1>1, <1>4, <1>6, <1>7, <1>8 DEF IInv

\* Four lists put together, when the first that is not empty loses its head.
Chained(a, b, c, d) == a \o b \o c \o d

LEMMA ChainedType ==
    ASSUME NEW a \in Seq(TLV), NEW b \in Seq(TLV), NEW c \in Seq(TLV), NEW d \in Seq(TLV)
    PROVE  Chained(a, b, c, d) \in Seq(TLV)
<1>1. a \o b \in Seq(TLV)
      BY ConcatProperties
<1>2. (a \o b) \o c \in Seq(TLV)
      BY <1>1, ConcatProperties
<1>3. ((a \o b) \o c) \o d \in Seq(TLV)
      BY <1>2, ConcatProperties
<1>q. QED BY <1>3 DEF Chained

Ahead(x, l) == x \o l

LEMMA ChainedTake ==
    ASSUME NEW x \in Seq(TLV), NEW a \in Seq(TLV), NEW b \in Seq(TLV), NEW c \in Seq(TLV), NEW d \in Seq(TLV)
    PROVE  Chained(Ahead(x, a), b, c, d) = Ahead(x, Chained(a, b, c, d))
<1> DEFINE ab == a \o b
           abc == ab \o c
<1>1. ab \in Seq(TLV)
      BY ConcatProperties
<1>2. (x \o a) \o b = x \o ab
      BY SMTT(30)
<1> HIDE DEF ab
<1>3. abc \in Seq(TLV)
      BY <1>1, ConcatProperties
<1>4. (x \o ab) \o c = x \o abc
      BY <1>1, SMTT(30)
<1> HIDE DEF abc
<1>5. (x \o abc) \o d = x \o (abc \o d)
      BY <1>3, SMTT(30)
<1>6. ((x \o a) \o b) \o c = x \o abc
      BY <1>2, <1>4, Zenon
<1>7. (((x \o a) \o b) \o c) \o d = x \o (abc \o d)
      BY <1>5, <1>6, Zenon
<1>q. QED BY <1>7, Zenon DEF Chained, Ahead, ab, abc

\* An empty list in front does not count.
LEMMA ChainedEmpty ==
    ASSUME NEW b \in Seq(TLV), NEW c \in Seq(TLV), NEW d \in Seq(TLV)
    PROVE  Chained(<<>>, b, c, d) = Chained(b, c, d, <<>>)
<1>1. <<>> \o b = b
      BY ConcatEmptySeq
<1>2. (b \o c) \o d \in Seq(TLV)
      BY ConcatProperties
<1>3. ((b \o c) \o d) \o <<>> = (b \o c) \o d
      BY <1>2, ConcatEmptySeq
<1>q. QED BY <1>1, <1>3 DEF Chained

\* The lists of todo.
LEMMA BackType ==
    ASSUME NEW l \in Seq(Seq(TLV)), NEW k \in Nat, k # 0
    PROVE  Back(l, k) \in Seq(TLV)
<1> DEFINE S == Seq(TLV)
<1>1. l \in Seq(S) /\ Len(l) \in Nat
      OBVIOUS
<1>2. <<>> \in S
      OBVIOUS
<1> HIDE DEF S
<1>3. CASE k <= Len(l)
    <2>1. Len(l) + 1 - k \in 1 .. Len(l)
          BY <1>1, <1>3
    <2>q. QED BY <1>1, <1>3, <2>1 DEF Back, S
<1>4. CASE ~(k <= Len(l))
      BY <1>2, <1>4 DEF Back, S
<1>q. QED BY <1>3, <1>4

\* A list that is done is dropped.
LEMMA BackTail ==
    ASSUME NEW l \in Seq(Seq(TLV)), l # <<>>, Head(l) = <<>>, NEW k \in Nat, k # 0
    PROVE  Back(Tail(l), k) = Back(l, k)
<1> DEFINE S == Seq(TLV)
           t == Tail(l)
           n == Len(l)
<1>1. l \in Seq(S) /\ n \in Nat /\ n # 0 /\ l[1] = <<>>
      OBVIOUS
<1> HIDE DEF S
<1>2. Len(t) = n - 1 /\ \A i \in 1 .. Len(t) : t[i] = l[i + 1]
      BY <1>1, HeadTailProperties
<1> HIDE DEF t, n
<1>3. CASE k < n
    <2>1. n - k \in 1 .. Len(t) /\ Len(t) + 1 - k = n - k /\ n + 1 - k = (n - k) + 1
          BY <1>1, <1>2, <1>3
    <2>2. t[n - k] = l[(n - k) + 1]
          BY <1>2, <2>1
    <2>3. k <= Len(t) /\ k <= n
          BY <1>1, <1>2, <1>3
    <2>4. Back(t, k) = t[n - k] /\ Back(l, k) = l[(n - k) + 1]
          BY <2>1, <2>3 DEF Back, n
    <2>q. QED BY <2>2, <2>4 DEF t
<1>4. CASE k = n
    <2>1. ~(k <= Len(t)) /\ k <= n /\ n + 1 - k = 1
          BY <1>1, <1>2, <1>4
    <2>2. Back(t, k) = <<>> /\ Back(l, k) = l[1]
          BY <2>1 DEF Back, n
    <2>q. QED BY <1>1, <2>2 DEF t
<1>5. CASE k > n
    <2>1. ~(k <= Len(t)) /\ ~(k <= n)
          BY <1>1, <1>2, <1>5
    <2>2. Back(t, k) = <<>> /\ Back(l, k) = <<>>
          BY <2>1 DEF Back, n
    <2>q. QED BY <2>2 DEF t
<1>q. QED BY <1>1, <1>3, <1>4, <1>5

\* The first list is replaced.
LEMMA BackPut ==
    ASSUME NEW l \in Seq(Seq(TLV)), l # <<>>, NEW h \in Seq(TLV)
    PROVE  LET m == <<h>> \o Tail(l)
               n == Len(l)
           IN  /\ m \in Seq(Seq(TLV)) /\ Len(m) = n
               /\ Back(l, n) = Head(l) /\ Back(m, n) = h
               /\ \A k \in Nat : k # 0 /\ k # n => Back(m, k) = Back(l, k)
<1> DEFINE S == Seq(TLV)
           t == Tail(l)
           n == Len(l)
           m == <<h>> \o t
<1>1. l \in Seq(S) /\ n \in Nat /\ n # 0 /\ h \in S /\ Head(l) = l[1]
      OBVIOUS
<1> HIDE DEF S
<1>2. t \in Seq(S) /\ Len(t) = n - 1 /\ \A i \in 1 .. Len(t) : t[i] = l[i + 1]
      BY <1>1, HeadTailProperties
<1> HIDE DEF t, n
<1>3. <<h>> \in Seq(S) /\ Len(<<h>>) = 1 /\ <<h>>[1] = h
      BY <1>1
<1>4. /\ m \in Seq(S) /\ Len(m) = n /\ m[1] = h
      /\ \A i \in 1 .. n : i # 1 => m[i] = l[i]
    <2> DEFINE o == <<h>>
    <2>1. o \in Seq(S) /\ Len(o) = 1 /\ o[1] = h
          BY <1>3
    <2>a. m = o \o t
          OBVIOUS
    <2> HIDE DEF o, m
    <2>2. /\ m \in Seq(S) /\ Len(m) = Len(o) + Len(t)
          /\ \A i \in 1 .. Len(o) + Len(t) : m[i] = IF i <= Len(o) THEN o[i] ELSE t[i - Len(o)]
          BY <1>2, <2>1, <2>a, ConcatProperties
    <2>3. Len(m) = n
          BY <1>1, <1>2, <2>1, <2>2
    <2>4. m[1] = h
          BY <1>1, <1>2, <2>1, <2>2
    <2>5. ASSUME NEW i \in 1 .. n, i # 1 PROVE m[i] = l[i]
        <3>1. i \in 1 .. Len(o) + Len(t) /\ ~(i <= Len(o)) /\ i - Len(o) \in 1 .. Len(t)
              /\ (i - Len(o)) + 1 = i
              BY <1>1, <1>2, <2>1, <2>5
        <3>2. m[i] = t[i - Len(o)]
              BY <2>2, <3>1
        <3>3. t[i - Len(o)] = l[(i - Len(o)) + 1]
              BY <1>2, <3>1
        <3>q. QED BY <3>1, <3>2, <3>3
    <2>q. QED BY <2>2, <2>3, <2>4, <2>5
<1> HIDE DEF m
<1>5. Back(l, n) = Head(l) /\ Back(m, n) = h
    <2>1. n <= n /\ n + 1 - n = 1
          BY <1>1
    <2>q. QED BY <1>1, <1>4, <2>1 DEF Back, n
<1>6. ASSUME NEW k \in Nat, k # 0, k # n PROVE Back(m, k) = Back(l, k)
    <2>1. CASE k <= n
        <3>1. n + 1 - k \in 1 .. n /\ n + 1 - k # 1
              BY <1>1, <1>6, <2>1
        <3>2. Back(m, k) = m[n + 1 - k] /\ Back(l, k) = l[n + 1 - k]
              BY <1>4, <2>1 DEF Back, n
        <3>q. QED BY <1>4, <3>1, <3>2
    <2>2. CASE ~(k <= n)
          BY <1>4, <2>2 DEF Back, n
    <2>q. QED BY <2>1, <2>2
<1>q. QED BY <1>4, <1>5, <1>6 DEF m, n, t, S

\* Dropping a list that is done leaves what is to be rendered.
LEMMA FlatTail ==
    ASSUME NEW l \in Seq(Seq(TLV)), l # <<>>, Head(l) = <<>>
    PROVE  Flat(Tail(l)) = Flat(l)
<1>1. /\ Back(Tail(l), 4) = Back(l, 4) /\ Back(Tail(l), 3) = Back(l, 3)
      /\ Back(Tail(l), 2) = Back(l, 2) /\ Back(Tail(l), 1) = Back(l, 1)
      BY BackTail
<1>q. QED BY <1>1, Zenon DEF Flat

\* A round takes one TLV off what is to be rendered.
LEMMA FlatTake ==
    ASSUME NEW l \in Seq(Seq(TLV)), l # <<>>, Len(l) <= 4, Head(l) # <<>>
    PROVE  LET m == <<Tail(Head(l))>> \o Tail(l)
           IN  /\ m \in Seq(Seq(TLV)) /\ Len(m) <= 4 /\ Head(Head(l)) \in TLV
               /\ Flat(m) \in Seq(TLV) /\ Flat(l) = <<Head(Head(l))>> \o Flat(m)
<1> DEFINE h == Head(l)
           x == <<Head(h)>>
           t == Tail(h)
           m == <<t>> \o Tail(l)
           n == Len(l)
<1>1. h \in Seq(TLV) /\ h # <<>> /\ n \in 1 .. 4
    <2> DEFINE S == Seq(TLV)
    <2>1. l \in Seq(S)
          OBVIOUS
    <2> HIDE DEF S
    <2>2. h \in S
          BY <2>1, HeadTailProperties
    <2>3. n \in Nat /\ n # 0
          BY <2>1
    <2>4. n <= 4
          OBVIOUS
    <2>5. n \in 1 .. 4
        <3> HIDE DEF n
        <3>q. QED BY <2>3, <2>4
    <2>q. QED BY <2>2, <2>5 DEF S
<1> HIDE DEF h
<1>2. Head(h) \in TLV /\ t \in Seq(TLV)
      BY <1>1, HeadTailProperties
<1>3. x \in Seq(TLV) /\ x \o t = h
    <2>1. x \in Seq(TLV)
          BY <1>2
    <2>2. x \o t = h
          BY <1>1
    <2>q. QED BY <2>1, <2>2
<1> HIDE DEF x, t
<1>4. /\ m \in Seq(Seq(TLV)) /\ Len(m) = n
      /\ Back(l, n) = h /\ Back(m, n) = t
      /\ \A k \in Nat : k # 0 /\ k # n => Back(m, k) = Back(l, k)
      BY <1>2, BackPut DEF h
<1> DEFINE b(k) == Back(l, k)
           c(k) == Back(m, k)
<1>5. /\ b(1) \in Seq(TLV) /\ b(2) \in Seq(TLV) /\ b(3) \in Seq(TLV) /\ b(4) \in Seq(TLV)
      /\ c(1) \in Seq(TLV) /\ c(2) \in Seq(TLV) /\ c(3) \in Seq(TLV) /\ c(4) \in Seq(TLV)
    <2>1. 1 \in Nat /\ 2 \in Nat /\ 3 \in Nat /\ 4 \in Nat /\ 1 # 0 /\ 2 # 0 /\ 3 # 0 /\ 4 # 0
          OBVIOUS
    <2> HIDE DEF m
    <2>q. QED BY <1>4, <2>1, BackType
<1>6. Flat(l) = Chained(b(4), b(3), b(2), b(1)) /\ Flat(m) = Chained(c(4), c(3), c(2), c(1))
    <2> HIDE DEF m
    <2>q. QED BY Zenon DEF Flat, Chained
<1> HIDE DEF m
<1>7. \A k \in Nat : k > n => b(k) = <<>> /\ c(k) = <<>>
      BY <1>1, <1>4 DEF Back
<1>e. <<>> \in Seq(TLV)
      OBVIOUS
<1>h. h = Ahead(x, t)
      BY <1>3 DEF Ahead
<1>8. Flat(l) = Ahead(x, Flat(m))
    <2> HIDE DEF n, b, c
    <2>a. ASSUME NEW u \in Seq(TLV), NEW v \in Seq(TLV), NEW w \in Seq(TLV)
          PROVE  Chained(h, u, v, w) = Ahead(x, Chained(t, u, v, w))
        <3>1. Chained(Ahead(x, t), u, v, w) = Ahead(x, Chained(t, u, v, w))
              BY <1>2, <1>3, ChainedTake
        <3>q. QED BY <1>h, <3>1
    <2>b. ASSUME NEW u \in Seq(TLV), NEW v \in Seq(TLV), NEW w \in Seq(TLV)
          PROVE  Chained(<<>>, u, v, w) = Chained(u, v, w, <<>>)
          BY ChainedEmpty
    <2>t. t \in Seq(TLV) /\ h \in Seq(TLV) /\ <<>> \in Seq(TLV)
          BY <1>1, <1>2, <1>e
    <2> DEFINE e == <<>>
    <2>e. /\ e \in Seq(TLV)
          /\ \A u, v, w \in Seq(TLV) : Chained(e, u, v, w) = Chained(u, v, w, e)
          /\ \A u, v, w \in Seq(TLV) : Chained(h, u, v, w) = Ahead(x, Chained(t, u, v, w))
          BY <2>a, <2>b, <2>t
    <2> HIDE DEF e
    <2>1. CASE n = 4
        <3>1. b(4) = h /\ c(4) = t /\ c(3) = b(3) /\ c(2) = b(2) /\ c(1) = b(1)
              BY <1>4, <2>1 DEF b, c
        <3>2. Chained(h, b(3), b(2), b(1)) = Ahead(x, Chained(t, b(3), b(2), b(1)))
              BY <1>5, <2>e
        <3>q. QED BY <1>6, <3>1, <3>2
    <2>2. CASE n = 3
        <3>1. b(4) = e /\ c(4) = e /\ b(3) = h /\ c(3) = t /\ c(2) = b(2) /\ c(1) = b(1)
              BY <1>4, <1>7, <2>2 DEF b, c, e
        <3>2. Chained(h, b(2), b(1), e) = Ahead(x, Chained(t, b(2), b(1), e))
              BY <1>5, <2>e
        <3>3. Chained(e, h, b(2), b(1)) = Chained(h, b(2), b(1), e)
              BY <1>5, <2>e, <2>t
        <3>4. Chained(e, t, b(2), b(1)) = Chained(t, b(2), b(1), e)
              BY <1>5, <2>e, <2>t
        <3>q. QED BY <1>6, <3>1, <3>2, <3>3, <3>4
    <2>3. CASE n = 2
        <3>1. b(4) = e /\ c(4) = e /\ b(3) = e /\ c(3) = e /\ b(2) = h /\ c(2) = t /\ c(1) = b(1)
              BY <1>4, <1>7, <2>3 DEF b, c, e
        <3>2. Chained(h, b(1), e, e) = Ahead(x, Chained(t, b(1), e, e))
              BY <1>5, <2>e
        <3>3. Chained(e, e, h, b(1)) = Chained(h, b(1), e, e)
              BY <1>5, <2>e, <2>t
        <3>4. Chained(e, e, t, b(1)) = Chained(t, b(1), e, e)
              BY <1>5, <2>e, <2>t
        <3>q. QED BY <1>6, <3>1, <3>2, <3>3, <3>4
    <2>4. CASE n = 1
        <3>1. /\ b(4) = e /\ c(4) = e /\ b(3) = e /\ c(3) = e /\ b(2) = e /\ c(2) = e
              /\ b(1) = h /\ c(1) = t
              BY <1>4, <1>7, <2>4 DEF b, c, e
        <3>2. Chained(h, e, e, e) = Ahead(x, Chained(t, e, e, e))
              BY <2>e
        <3>3. Chained(e, e, e, h) = Chained(h, e, e, e)
              BY <2>e, <2>t
        <3>4. Chained(e, e, e, t) = Chained(t, e, e, e)
              BY <2>e, <2>t
        <3>q. QED BY <1>6, <3>1, <3>2, <3>3, <3>4
    <2>q. QED BY <1>1, <2>1, <2>2, <2>3, <2>4
<1>9. Flat(m) \in Seq(TLV)
      BY <1>5, <1>6, ChainedType
<1>10. Len(m) <= 4
      BY <1>1, <1>4
<1>11. Flat(l) = x \o Flat(m)
      BY <1>8 DEF Ahead
<1>q. QED BY <1>2, <1>4, <1>9, <1>10, <1>11 DEF m, x, t, h

LEMMA FlatType ==
    ASSUME NEW l \in Seq(Seq(TLV))
    PROVE  Flat(l) \in Seq(TLV)
<1>1. /\ Back(l, 4) \in Seq(TLV) /\ Back(l, 3) \in Seq(TLV) /\ Back(l, 2) \in Seq(TLV)
      /\ Back(l, 1) \in Seq(TLV)
    <2>1. 1 \in Nat /\ 2 \in Nat /\ 3 \in Nat /\ 4 \in Nat /\ 1 # 0 /\ 2 # 0 /\ 3 # 0 /\ 4 # 0
          OBVIOUS
    <2>q. QED BY <2>1, BackType
<1>2. Chained(Back(l, 4), Back(l, 3), Back(l, 2), Back(l, 1)) \in Seq(TLV)
      BY <1>1, ChainedType
<1>q. QED BY <1>2 DEF Flat, Chained

\* The beginning of a list.
LEMMA PrefixOf ==
    ASSUME NEW l \in Seq(TLV), NEW m \in Seq(TLV)
    PROVE  IsPrefix(l, l \o m)
<1> DEFINE w == l \o m
<1>1. Len(l) \in Nat /\ Len(m) \in Nat
      OBVIOUS
<1>2. /\ w \in Seq(TLV) /\ Len(w) = Len(l) + Len(m) /\ \A i \in 1 .. Len(l) : w[i] = l[i]
      BY Joined
<1> HIDE DEF w
<1>3. Len(l) <= Len(w) /\ Len(l) \in 0 .. Len(w)
      BY <1>1, <1>2
<1>4. SubSeq(l, 1, Len(l)) = l
      BY PieceWhole
<1>5. /\ SubSeq(w, 1, Len(l)) \in Seq(TLV) /\ Len(SubSeq(w, 1, Len(l))) = Len(l)
      /\ \A i \in 1 .. Len(l) : SubSeq(w, 1, Len(l))[i] = w[i]
      BY <1>2, <1>3, Pieces
<1>6. SubSeq(w, 1, Len(l)) = l
    <2> DEFINE z == SubSeq(w, 1, Len(l))
    <2>1. z \in Seq(TLV) /\ Len(z) = Len(l) /\ \A i \in 1 .. Len(l) : z[i] = l[i]
          BY <1>2, <1>5
    <2> HIDE DEF z
    <2>2. z = l
          BY <2>1, SeqEqual
    <2>q. QED BY <2>2 DEF z
<1>7. IsPrefix(l, w)
      BY <1>3, <1>4, <1>6 DEF IsPrefix
<1>q. QED BY <1>7 DEF w

\* One TLV is rendered, in terms of lists only.
LEMMA OneRendered ==
    ASSUME NEW s \in Seq(TLV), NEW x \in TLV, NEW m \in Seq(TLV)
    PROVE  /\ Append(s, x) \in Seq(TLV) /\ Size(Append(s, x)) = Size(s) + 4 + x.length
           /\ s \o (<<x>> \o m) = Append(s, x) \o m
           /\ Cost(<<x>> \o m) = Cost(m) + Growth[x] /\ Cost(m) \in Nat
<1>1. <<x>> \in Seq(TLV) /\ Append(s, x) \in Seq(TLV) /\ s \o <<x>> = Append(s, x)
      OBVIOUS
<1>2. Size(s \o <<x>>) = Size(s) + Size(<<x>>) /\ Size(<<x>>) = 4 + x.length
      BY <1>1, SizeConcat, SizeOne
<1>3. Size(s) \in Nat /\ x.length \in Nat
      BY SizeType, TlvFields
<1>4. Size(Append(s, x)) = Size(s) + 4 + x.length
    <2>1. Size(Append(s, x)) = Size(s) + (4 + x.length)
          BY <1>1, <1>2, Zenon
    <2> DEFINE p == Size(s)
               q == x.length
    <2>2. p \in Nat /\ q \in Nat /\ Size(Append(s, x)) = p + (4 + q)
          BY <1>3, <2>1
    <2> HIDE DEF p, q
    <2>3. p + (4 + q) = p + 4 + q
          BY <2>2
    <2>q. QED BY <2>2, <2>3 DEF p, q
<1>5. Cost(<<x>> \o m) = Cost(<<x>>) + Cost(m) /\ Cost(<<x>>) = Growth[x] /\ Growth[x] \in Nat
      /\ Cost(m) \in Nat
      BY <1>1, SizeConcat, SizeOne, SizeType, Counting
<1>6. s \o (<<x>> \o m) = Append(s, x) \o m
    <2> DEFINE o == <<x>>
    <2>1. o \in Seq(TLV)
          BY <1>1
    <2>2. s \o o = Append(s, x)
          BY <1>1
    <2> HIDE DEF o
    <2>3. s \o (o \o m) = (s \o o) \o m
          BY <2>1
    <2>4. s \o (o \o m) = Append(s, x) \o m
          BY <2>2, <2>3, Zenon
    <2>q. QED BY <2>4, Zenon DEF o
<1>7. Cost(<<x>> \o m) = Cost(m) + Growth[x]
    <2> DEFINE p == Cost(<<x>> \o m)
               q == Cost(<<x>>)
               r == Cost(m)
    <2>1. p = q + r /\ q = Growth[x] /\ q \in Nat /\ r \in Nat
          BY <1>5
    <2> HIDE DEF p, q, r
    <2>2. p = r + Growth[x]
          BY <2>1
    <2>q. QED BY <2>2 DEF p, r
<1>q. QED BY <1>1, <1>4, <1>5, <1>6, <1>7

\* A buffer with room is inside its maximum.
LEMMA RoomInside ==
    ASSUME NEW sb, NEW r \in Nat, Room(sb, r)
    PROVE  /\ sb \in Sbuf /\ sb.pos <= sb.buflen /\ sb.buflen <= NAF_SBUF_DEFAULT_MAXBUFLEN
<1>1. sb \in Sbuf /\ sb.pos <= sb.buflen /\ sb.buflen + r <= 32768
      BY DEF Room, NAF_SBUF_DEFAULT_MAXBUFLEN
<1>2. sb.buflen \in Nat
      BY <1>1, SbufFields
<1>3. sb.buflen <= 32768
    <2> DEFINE y == sb.buflen
    <2>1. y \in Nat /\ y + r <= 32768
          BY <1>1, <1>2
    <2> HIDE DEF y
    <2>2. y <= 32768
          BY <2>1
    <2>q. QED BY <2>2 DEF y
<1>q. QED BY <1>1, <1>3 DEF NAF_SBUF_DEFAULT_MAXBUFLEN

\* A round of naf_tlv_render.
LEMMA RenderKeeps == IInv /\ naf_tlv_render => IInv'
<1> SUFFICES ASSUME IInv, naf_tlv_render PROVE IInv'
    OBVIOUS
<1> DEFINE more == Head(todo) # <<>> /\ naf_sbuf_bytesremaining(out) > 0
           W == Outgoing(dir, snac, gm.otr, gm.text)
<1>1. /\ pc = "render" /\ pc' = "render" /\ snac' = snac /\ gm' = gm
      /\ dir' = dir /\ todo # <<>>
      /\ more => /\ out' = RenderOne(Head(Head(todo)), out)
                 /\ sent' = Append(sent, Head(Head(todo)))
                 /\ todo' = <<Tail(Head(todo))>> \o Tail(todo)
      /\ ~more => todo' = Tail(todo) /\ out' = out /\ sent' = sent
      BY DEF naf_tlv_render
<1>3. SUFFICES ASSUME Fits PROVE Rendering'
    <2>1. Fits' <=> Fits
          BY <1>1 DEF Fits
    <2>2. Accepted(snac)
          BY <1>1 DEF IInv
    <2>q. QED BY <1>1, <1>3, <2>1, <2>2 DEF IInv
<1>2. Accepted(snac) /\ Rendering
      BY <1>1, <1>3 DEF IInv
<1>4. /\ dir \in {"tohost", "toclient"}
      /\ todo \in Seq(Seq(TLV)) /\ Len(todo) <= 4 /\ sent \in Seq(TLV)
      /\ out \in Sbuf /\ out.pos = OutHeadLen + Size(sent)
      /\ out.pos <= out.buflen /\ out.buflen <= NAF_SBUF_DEFAULT_MAXBUFLEN
      /\ \/ sent \o Flat(todo) = W /\ Room(out, Cost(Flat(todo)))
         \/ IsPrefix(sent, W) /\ out.buflen - out.pos = 0
      BY <1>2 DEF Rendering
<1>5. OutHeadLen' = OutHeadLen /\ W = Outgoing(dir', snac', gm'.otr, gm'.text) /\ dir' \in {"tohost", "toclient"}
      BY <1>1, <1>4 DEF OutHeadLen
<1>6. out.pos \in Nat /\ out.buflen \in Nat
      BY <1>4, SbufFields
<1>7. Tail(todo) \in Seq(Seq(TLV)) /\ Len(Tail(todo)) <= 4
    <2> DEFINE S == Seq(TLV)
    <2>1. todo \in Seq(S) /\ Len(todo) \in Nat
          BY <1>4
    <2> HIDE DEF S
    <2>2. Tail(todo) \in Seq(S) /\ Len(Tail(todo)) = Len(todo) - 1
          BY <1>1, <2>1, HeadTailProperties
    <2>3. Len(Tail(todo)) <= 4
          BY <1>4, <2>1, <2>2
    <2>q. QED BY <2>2, <2>3 DEF S
<1> HIDE DEF W
<1>8. CASE more
    <2> DEFINE x == Head(Head(todo))
               m == <<Tail(Head(todo))>> \o Tail(todo)
               r == Cost(Flat(m))
    <2>1. sent \o Flat(todo) = W /\ Room(out, Cost(Flat(todo)))
          BY <1>4, <1>6, <1>8 DEF naf_sbuf_bytesremaining
    <2>2. /\ m \in Seq(Seq(TLV)) /\ Len(m) <= 4 /\ x \in TLV
          /\ Flat(m) \in Seq(TLV) /\ Flat(todo) = <<x>> \o Flat(m)
          BY <1>1, <1>4, <1>8, FlatTake
    <2>3. todo' = m /\ sent' = Append(sent, x) /\ out' = RenderOne(x, out)
          BY <1>1, <1>8
    <2> HIDE DEF x, m
    <2> DEFINE f == Flat(m)
    <2>4. f \in Seq(TLV) /\ Flat(todo) = <<x>> \o f
          BY <2>2
    <2> HIDE DEF f
    <2>5. /\ Append(sent, x) \in Seq(TLV) /\ Size(Append(sent, x)) = Size(sent) + 4 + x.length
          /\ sent \o (<<x>> \o f) = Append(sent, x) \o f
          /\ Cost(<<x>> \o f) = Cost(f) + Growth[x] /\ Cost(f) \in Nat
          BY <1>4, <2>2, <2>4, OneRendered
    <2>6. Append(sent, x) \o f = W
          BY <2>1, <2>4, <2>5, Zenon
    <2>7. Room(out, Cost(f) + Growth[x])
          BY <2>1, <2>4, <2>5, Zenon
    <2>8. RenderOne(x, out).pos = out.pos + 4 + x.length /\ Room(RenderOne(x, out), Cost(f))
        <3> DEFINE c == Cost(f)
        <3>1. c \in Nat /\ Room(out, c + Growth[x])
              BY <2>5, <2>7
        <3> HIDE DEF c
        <3>2. RenderOne(x, out).pos = out.pos + 4 + x.length /\ Room(RenderOne(x, out), c)
              BY <2>2, <3>1, RenderFits
        <3>q. QED BY <3>2 DEF c
    <2>9. out'.pos = out.pos + 4 + x.length /\ Room(out', Cost(f))
          BY <2>3, <2>8
    <2>10. out' \in Sbuf /\ out'.pos <= out'.buflen /\ out'.buflen <= NAF_SBUF_DEFAULT_MAXBUFLEN
        <3> DEFINE c == Cost(f)
        <3>1. c \in Nat /\ Room(out', c)
              BY <2>5, <2>9
        <3> HIDE DEF c
        <3>q. QED BY <3>1, RoomInside
    <2>11. out'.pos = OutHeadLen' + Size(sent')
        <3> DEFINE o == OutHeadLen
                   z == Size(sent)
                   n == x.length
        <3>1. n \in Nat /\ z \in Nat
              BY <1>4, <2>2, TlvFields, SizeType
        <3>2. o \in Int
            <4>1. snac.head.namelen \in Nat
                  BY <1>2, SnacFields DEF Accepted
            <4> DEFINE k == snac.head.namelen
                       j == IF dir = "toclient" THEN 2 + 2 ELSE 0
            <4>2. o = 6 + 10 + 8 + 2 + 1 + k + j /\ k \in Nat /\ j \in Nat
                  BY <4>1 DEF OutHeadLen, FLAPHDRLEN, SNACHDRLEN, MSGCOOKIELEN
            <4> HIDE DEF o, k, j
            <4>q. QED BY <4>2
        <3>3. out.pos = o + z
              BY <1>4
        <3>4. out'.pos = out.pos + 4 + n
              BY <2>9
        <3>5. OutHeadLen' = o /\ Size(sent') = z + 4 + n
              BY <1>5, <2>3, <2>5
        <3> HIDE DEF o, z, n
        <3>6. (o + z) + 4 + n = o + (z + 4 + n)
              BY <3>1, <3>2
        <3>q. QED BY <3>3, <3>4, <3>5, <3>6
    <2>12. sent' \o Flat(todo') = W /\ Room(out', Cost(Flat(todo')))
          BY <2>3, <2>6, <2>9 DEF f
    <2>13. todo' \in Seq(Seq(TLV)) /\ Len(todo') <= 4 /\ sent' \in Seq(TLV)
          BY <2>2, <2>3, <2>5
    <2>q. QED BY <1>5, <2>10, <2>11, <2>12, <2>13 DEF Rendering
<1>9. CASE ~more
    <2>1. /\ todo' \in Seq(Seq(TLV)) /\ Len(todo') <= 4 /\ sent' \in Seq(TLV)
          /\ out' \in Sbuf /\ out'.pos = OutHeadLen' + Size(sent')
          /\ out'.pos <= out'.buflen /\ out'.buflen <= NAF_SBUF_DEFAULT_MAXBUFLEN
          BY <1>1, <1>4, <1>5, <1>7, <1>9
    <2>2. \/ sent' \o Flat(todo') = W /\ Room(out', Cost(Flat(todo')))
          \/ IsPrefix(sent', W) /\ out'.buflen - out'.pos = 0
        <3>1. CASE Head(todo) = <<>>
            <4>1. Flat(Tail(todo)) = Flat(todo)
                  BY <1>1, <1>4, <3>1, FlatTail
            <4>2. Flat(todo') = Flat(todo) /\ sent' = sent /\ out' = out
                  BY <1>1, <1>9, <4>1
            <4>q. QED BY <1>4, <4>2
        <3>2. CASE Head(todo) # <<>>
            <4>1. ~(out.buflen - out.pos > 0)
                  BY <1>9, <3>2 DEF naf_sbuf_bytesremaining
            <4>2. out.buflen - out.pos = 0
                  BY <1>4, <1>6, <4>1
            <4>3. IsPrefix(sent, W)
                <5>1. CASE sent \o Flat(todo) = W
                    <6>1. Flat(todo) \in Seq(TLV)
                          BY <1>4, FlatType
                    <6>2. IsPrefix(sent, sent \o Flat(todo))
                          BY <1>4, <6>1, PrefixOf
                    <6>q. QED BY <5>1, <6>2
                <5>q. QED BY <1>4, <5>1
            <4>q. QED BY <1>1, <1>9, <4>2, <4>3
        <3>q. QED BY <3>1, <3>2
    <2>q. QED BY <1>5, <2>1, <2>2 DEF Rendering
<1>q. QED BY <1>8, <1>9

\* A step that changes nothing.
LEMMA StutterKeeps == IInv /\ UNCHANGED vars => IInv'
<1> SUFFICES ASSUME IInv, UNCHANGED vars PROVE IInv'
    OBVIOUS
<1>1. /\ pc' = pc /\ snac' = snac /\ payload' = payload /\ srcinfo' = srcinfo /\ tlvh' = tlvh
      /\ gm' = gm /\ sections' = sections /\ msgtext' = msgtext
      /\ unrepresentable' = unrepresentable /\ out' = out /\ todo' = todo /\ sent' = sent /\ dir' = dir
      BY DEF vars
<1>2. Parsing' = Parsing
      BY <1>1 DEF Parsing
<1>3. Converting' = Converting
      BY <1>1 DEF Converting
<1>4. Rendering' = Rendering
      BY <1>1 DEF Rendering, OutHeadLen
<1>5. MsgBlock' = MsgBlock
      BY <1>1 DEF MsgBlock
<1>6. (Fits' <=> Fits) /\ (FromPayload' <=> FromPayload) /\ (FromOtr' <=> FromOtr)
      BY <1>1 DEF Fits, FromPayload, FromOtr
<1>7. (gm = [text |-> gm.text, msgtlv |-> gm.msgtlv, ack |-> gm.ack, auto |-> gm.auto, otr |-> gm.otr])'
      <=> gm = [text |-> gm.text, msgtlv |-> gm.msgtlv, ack |-> gm.ack, auto |-> gm.auto, otr |-> gm.otr]
      BY <1>1
<1>q. QED BY <1>1, <1>2, <1>3, <1>4, <1>5, <1>6, <1>7 DEF IInv

\* The invariant holds of every behaviour.
LEMMA Invariance == Spec => []IInv
<1>1. IInv /\ [Next]_vars => IInv'
    <2> SUFFICES ASSUME IInv, [Next]_vars PROVE IInv'
        OBVIOUS
    <2>1. CASE toscar_flap_handleread
          BY <2>1, HandlereadKeeps
    <2>2. CASE \/ toscar_snachandler_error \/ OtherChannel \/ NotSent \/ toscar_flap_sendsbuf_consume
          BY <2>2, ReturnsKeep
    <2>3. CASE toscar_snachandler_head
          BY <2>3, HeadKeeps
    <2>4. CASE touserinfo_extract
          BY <2>4, UserinfoKeeps
    <2>5. CASE naf_tlv_parse
          BY <2>5, ParseKeeps
    <2>6. CASE toscar_icbm__parsechan1
          BY <2>6, Parsechan1Keeps
    <2>7. CASE extractmsgtext_section
          BY <2>7, SectionKeeps
    <2>a. CASE extractmsgtext_overlong
          BY <2>a, OverlongKeeps
    <2>b. CASE totr_sendnewmsg
          BY <2>b, OtrKeeps
    <2>8. CASE extractmsgtext_error
          BY <2>8, ErrorKeeps
    <2>9. CASE extractmsgtext_end
          BY <2>9, EndKeeps
    <2>10. CASE toscar_icbm_sendoutgoing
          BY <2>10, OutgoingKeeps
    <2>11. CASE toscar_icbm_sendincoming
          BY <2>11, IncomingKeeps
    <2>12. CASE naf_tlv_render
          BY <2>12, RenderKeeps
    <2>13. CASE UNCHANGED vars
          BY <2>13, StutterKeeps
    <2>q. QED BY <2>a, <2>b, <2>1, <2>2, <2>3, <2>4, <2>5, <2>6, <2>7, <2>8, <2>9, <2>10, <2>11, <2>12, <2>13 DEF Next
<1>q. QED BY <1>1, InitIInv, PTL DEF Spec

-----------------------------------------------------------------------------
(* The theorems *)

\* A frame holds exactly the head and the TLVs put into it and lies inside its
\* buffer, for every relayed message of a FLAP whose message block is not
\* empty and has its sections inside it, and for every text of at most MAXTEXT
\* bytes that timps-otr sends: no put of naf_tlv_render (tlv.c) is refused
\* half-way, and no 16 bit length wraps.
THEOREM FramedAlways == Spec => []Framed
<1>1. IInv => Framed
      BY DEF IInv, Fits, Rendering, Framed, Size
<1>q. QED BY <1>1, Invariance, PTL

\* What a relayed message with a well-formed block lacks when it is sent is missing at its end, and only
\* if the frame fills its buffer: naf_tlv_parse_limit, toscar_icbm__parsechan1,
\* the conversion of the text and the output functions lose nothing else.
THEOREM CutOnlyWhenFullAlways == Spec => []CutOnlyWhenFull
<1>1. IInv => CutOnlyWhenFull
    <2> SUFFICES ASSUME IInv, pc = "render", todo = <<>>, ~gm.otr, WellFormed(snac)
                 PROVE  /\ IsPrefix(sent, Whole(snac))
                        /\ sent # Whole(snac) => naf_sbuf_bytesremaining(out) = 0
        BY DEF CutOnlyWhenFull, Ready
    <2>1. Accepted(snac) /\ Rendering
          BY DEF IInv, Fits
    <2> DEFINE W == WholeTo(dir, snac)
    <2>2. Whole(snac) = W
          BY DEF Whole, WholeTo, BlockOf, FlagsOf
    <2>3. Flat(todo) = <<>>
        <3>1. /\ Back(todo, 4) = <<>> /\ Back(todo, 3) = <<>> /\ Back(todo, 2) = <<>>
              /\ Back(todo, 1) = <<>>
              BY DEF Back
        <3>2. <<>> \o <<>> = <<>>
              OBVIOUS
        <3>q. QED BY <3>1, <3>2, Zenon DEF Flat
    <2>4. sent \in Seq(TLV)
          BY <2>1 DEF Rendering
    <2>5. sent \o <<>> = sent /\ <<>> \in Seq(TLV)
          BY <2>4, PieceWhole
    <2>6. IsPrefix(sent, sent)
        <3>1. IsPrefix(sent, sent \o <<>>)
              BY <2>4, <2>5, PrefixOf
        <3>q. QED BY <2>5, <3>1
    <2>7. \/ sent \o Flat(todo) = W
          \/ IsPrefix(sent, W) /\ naf_sbuf_bytesremaining(out) = 0
          BY <2>1 DEF Rendering, Outgoing, naf_sbuf_bytesremaining
    <2> HIDE DEF W
    <2>8. CASE sent \o Flat(todo) = W
        <3>1. sent = W
              BY <2>3, <2>5, <2>8, Zenon
        <3>q. QED BY <2>2, <2>6, <3>1
    <2>9. CASE IsPrefix(sent, W) /\ naf_sbuf_bytesremaining(out) = 0
          BY <2>2, <2>9
    <2>q. QED BY <2>7, <2>8, <2>9
<1>q. QED BY <1>1, Invariance, PTL
============================================================================
