--------------------------- MODULE MCBaileysBots ---------------------------
(* Instances of BaileysBots for TLC.                                       *)
EXTENDS BaileysBots, TLC

Symmetry == Permutations(Bots) \cup Permutations(Socks)
=============================================================================
