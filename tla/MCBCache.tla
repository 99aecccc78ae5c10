------------------------------ MODULE MCBCache ------------------------------
(* Instances of BCache for TLC. *)
EXTENDS BCache, TLC

CONSTANTS p1, p2, k1, k2, k3, k4

TwoProcs == {p1, p2}
FourBlocks == {k1, k2, k3, k4}

Symmetry == Permutations(TwoProcs) \cup Permutations(FourBlocks)
=============================================================================
