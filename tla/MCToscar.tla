------------------------------ MODULE MCToscar ------------------------------
(* Instances of Toscar for TLC. *)
EXTENDS Toscar, TLC

CONSTANTS a1, a2, a3, alice, bob, k1, k2

Symmetry == Permutations(Addr) \cup Permutations(Names) \cup Permutations(Cookies)

============================================================================
