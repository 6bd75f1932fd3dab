----------------------------- MODULE MCMsgRoute -----------------------------
(* Instances of MsgRoute for TLC. *)
EXTENDS MsgRoute

CONSTANTS alice, bob

Symmetry == Permutations(Users)

============================================================================
