--------------------------- MODULE MCAccountPool ---------------------------
(* AccountPool on small instances.                                         *)
EXTENDS AccountPool, TLC

CONSTANTS a1, a2, w1, w2, w3, admin

Symmetry == Permutations(Workers) \cup Permutations(Accounts)
=============================================================================
