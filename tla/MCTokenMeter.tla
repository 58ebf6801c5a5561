---------------------------- MODULE MCTokenMeter ----------------------------
(* Instances of TokenMeter for TLC.                                        *)
EXTENDS TokenMeter, TLC

Symmetry ==
  Permutations(Users) \cup Permutations(Subs) \cup Permutations(Requests)
=============================================================================
