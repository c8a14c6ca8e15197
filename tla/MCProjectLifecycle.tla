------------------------- MODULE MCProjectLifecycle -------------------------
(***************************************************************************)
(* Small instances of ProjectLifecycle: one collection stands for the    *)
(* many purgeable ones.                                                    *)
(***************************************************************************)
EXTENDS ProjectLifecycle, TLC

CONSTANTS p1, p2, c1, c2, s1, s2

MCCollections == <<"documents">>
MCSymmetry == Permutations({c1, c2}) \cup Permutations({s1, s2})
=============================================================================
