----------------------------- MODULE MCScullBare -----------------------------
(* Small instances of ScullBare for TLC.                                   *)
EXTENDS ScullBare, TLC

CONSTANTS p1, p2, p3, a, b

One == {<<a>>}
Runs == {<<a>>, <<a, b>>}
Symmetry == Permutations(Proc)
=============================================================================
