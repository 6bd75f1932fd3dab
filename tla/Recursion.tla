----------------------------- MODULE Recursion -----------------------------
(***************************************************************************)
(* Induction over the rounds of a loop.  The induction theorems of the     *)
(* library are about a predicate; these are about a set and a function, so *)
(* that they can be cited with no operator to instantiate.                 *)
(***************************************************************************)
EXTENDS Integers, WellFoundedInduction, TLAPS

\* A nonempty set of naturals has a least element.
LEMMA LeastNatural ==
    ASSUME NEW T, T \subseteq Nat, T # {}
    PROVE  \E m \in T : \A k \in T : m <= k
<1>1. PICK m \in T : \A k \in T : <<k, m>> \notin OpToRel(<, Nat)
      BY NatLessThanWellFounded, WFMin, Zenon
<1>2. ASSUME NEW k \in T PROVE m <= k
    <2>1. k \in Nat /\ m \in Nat
          OBVIOUS
    <2>2. ~(k < m)
          BY <1>1, <2>1 DEF OpToRel
    <2>q. QED BY <2>1, <2>2
<1>q. QED BY <1>2

\* A set that has 0 and, with each round but the last, the next one has all
\* rounds: induction over a set instead of a predicate.
LEMMA Rounds ==
    ASSUME NEW n \in Nat, NEW S, 0 \in S,
           \A i \in 0 .. n : i < n /\ i \in S => i + 1 \in S
    PROVE  \A i \in 0 .. n : i \in S
<1>1. SUFFICES ASSUME {i \in 0 .. n : i \notin S} # {} PROVE FALSE
      OBVIOUS
<1>2. PICK m \in 0 .. n : /\ m \notin S
                          /\ \A k \in 0 .. n : k \notin S => m <= k
    <2>1. {i \in 0 .. n : i \notin S} \subseteq Nat
          OBVIOUS
    <2>2. \E m \in {i \in 0 .. n : i \notin S} :
             \A k \in {i \in 0 .. n : i \notin S} : m <= k
          BY <1>1, <2>1, LeastNatural, Zenon
    <2>q. QED BY <2>2
<1>3. m # 0 /\ m - 1 \in 0 .. n /\ m - 1 < n /\ m - 1 + 1 = m
      BY <1>2
<1>4. m - 1 \in S
      BY <1>2, <1>3
<1>q. QED BY <1>2, <1>3, <1>4

\* g holds the results of the rounds of a loop that starts with x.
Loop(g, n, x, step) == g[0] = x /\ \A i \in 1 .. n : g[i] = step[i][g[i - 1]]

\* A loop of n rounds over a domain that its steps do not leave can be run:
\* there is a function of the values after each round.
LEMMA LoopDefined ==
    ASSUME NEW n \in Nat, NEW X, NEW start \in X,
           NEW step \in [1 .. n -> [X -> X]]
    PROVE  \E g \in [0 .. n -> X] : Loop(g, n, start, step)
<1> DEFINE Done(m, g) == g[0] = start /\ \A i \in 1 .. m : g[i] = step[i][g[i - 1]]
           S == {m \in 0 .. n : \E g \in [0 .. n -> X] : Done(m, g)}
<1>1. 0 \in S
    <2> DEFINE c == [i \in 0 .. n |-> start]
    <2>1. c \in [0 .. n -> X] /\ Done(0, c)
          OBVIOUS
    <2> HIDE DEF c
    <2>2. \E g \in [0 .. n -> X] : Done(0, g)
          BY <2>1
    <2>q. QED BY <2>2
<1>2. ASSUME NEW m \in 0 .. n, m < n, m \in S PROVE m + 1 \in S
    <2>1. PICK g \in [0 .. n -> X] : Done(m, g)
          BY <1>2
    <2> DEFINE h == [i \in 0 .. n |-> IF i = m + 1 THEN step[m + 1][g[m]] ELSE g[i]]
    <2>2. m + 1 \in 1 .. n /\ m \in 0 .. n
          BY <1>2
    <2>3. step[m + 1][g[m]] \in X
          BY <2>2
    <2>4. h \in [0 .. n -> X]
          BY <2>3
    <2>5. ASSUME NEW i \in 1 .. m + 1 PROVE h[i] = step[i][h[i - 1]]
        <3>1. i \in 0 .. n /\ i - 1 \in 0 .. n /\ i - 1 # m + 1
              BY <2>2
        <3>2. h[i - 1] = g[i - 1]
              BY <3>1
        <3>3. CASE i = m + 1
              BY <3>1, <3>2, <3>3
        <3>4. CASE i # m + 1
            <4>1. i \in 1 .. m
                  BY <3>4
            <4>2. g[i] = step[i][g[i - 1]]
                  BY <4>1, <2>1
            <4>q. QED BY <3>1, <3>2, <3>4, <4>2
        <3>q. QED BY <3>3, <3>4
    <2>6. h[0] = start
          BY <2>1, <2>2
    <2>7. Done(m + 1, h)
          BY <2>5, <2>6
    <2> HIDE DEF h
    <2>q. QED BY <2>2, <2>4, <2>7
<1>3. n \in S
    <2> HIDE DEF S
    <2>1. \A i \in 0 .. n : i < n /\ i \in S => i + 1 \in S
          BY <1>2
    <2>2. \A i \in 0 .. n : i \in S
          BY <1>1, <2>1, Rounds, Zenon
    <2>q. QED BY <2>2
<1>q. QED BY <1>3 DEF Loop
============================================================================
