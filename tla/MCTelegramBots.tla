--------------------------- MODULE MCTelegramBots ---------------------------
(* Instances of TelegramBots for TLC.                                      *)
EXTENDS TelegramBots, TLC

Symmetry == Permutations(Clients)
=============================================================================
