---------------------------- MODULE MCChildProc ----------------------------
(* Instances of ChildProc for TLC. *)
EXTENDS ChildProc, TLC

CONSTANTS p1, p2, p3, n1, n2, n3, c1

Symmetry == Permutations(Procs) \cup Permutations(Pids) \cup Permutations(Conns)

============================================================================
