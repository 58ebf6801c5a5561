---------------------------- MODULE MCCatalogue ----------------------------
(* Instances of Catalogue for TLC: histories about pictures, about the     *)
(* variants of one product, and about pages, each with its own budget.     *)
EXTENDS Catalogue

CONSTANTS o1, o2, x1, x2, x3

MCOptionOf(x) == IF x = x3 THEN o2 ELSE o1

Kinds == {"upload", "add", "edit", "delete", "user", "option", "value", "drop",
          "generate", "walk"}
Budget(b) == [k \in Kinds |-> IF k \in DOMAIN b THEN b[k] ELSE 0]
MCBudgets ==
  {Budget([upload |-> 3, add |-> 2, edit |-> 2, delete |-> 1, user |-> 1]),
   Budget([upload |-> 3, add |-> 1, edit |-> 1, user |-> 2]),
   Budget([add |-> 1, option |-> 2, value |-> 3, generate |-> 2, drop |-> 1,
           delete |-> 1]),
   Budget([add |-> 3, delete |-> 1, walk |-> 1])}
Symmetry == Permutations(Calls) \cup Permutations(Products)
              \cup Permutations(Pictures \ Links)
=============================================================================
