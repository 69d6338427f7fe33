------------------------------- MODULE MC_Tree -------------------------------
(* Model-checking instance of Tree: two ids, three versions, a buffer of    *)
(* one.  Ids and versions are only compared for equality, so both sets are  *)
(* symmetric.                                                               *)
EXTENDS Tree, TLC

CONSTANTS i1, i2, v1, v2, v3

MCIds == {i1, i2}
MCVersions == {v1, v2, v3}
MCSymmetry == Permutations(MCIds) \cup Permutations(MCVersions)
=============================================================================
