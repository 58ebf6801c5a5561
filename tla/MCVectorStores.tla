--------------------------- MODULE MCVectorStores ---------------------------
(* Instances of VectorStores and Answers for TLC: histories of the stores  *)
(* alone, and histories with questions, each with its own budget.          *)
EXTENDS Answers, TLC

CONSTANTS a1, a2, a3, u1, u2
MCOwner == a1 :> u1 @@ a2 :> u1 @@ a3 :> u2

Operations == {"file", "product", "clear", "change", "ask"}
Budget(b) == [k \in Operations |-> IF k \in DOMAIN b THEN b[k] ELSE 0]
MCBudgets == {Budget([file |-> Many, product |-> Many, clear |-> Many]),
              Budget([product |-> 1, clear |-> 1, change |-> 1, ask |-> 1]),
              Budget([product |-> 2, change |-> 1, ask |-> 1])}
Symmetry == Permutations(Calls)
=============================================================================
