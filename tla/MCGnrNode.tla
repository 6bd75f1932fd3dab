----------------------------- MODULE MCGnrNode -----------------------------
(* Instances of GnrNode for TLC. *)
EXTENDS GnrNode, TLC

\* Two letters that differ only in case, and a third one.
UpperA == 65
LowerA == 97
LowerB == 98

\* Spellings of four names, with spaces before, inside and behind the
\* letters; a and ab are in one chain.
Spellings ==
    {<<LowerA>>, <<UpperA>>, <<Space, LowerA>>, <<LowerA, Space>>,
     <<Space, UpperA, Space>>, <<LowerA, Space, Space>>, <<LowerB>>,
     <<LowerA, LowerB>>, <<UpperA, Space, LowerB>>, <<Space>>}

\* The address of a node is only ever compared.
AddrSymmetry == Permutations(Addr)

============================================================================
