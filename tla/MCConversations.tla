-------------------------- MODULE MCConversations --------------------------
(* Instances of Conversations for TLC.                                     *)
EXTENDS Conversations, TLC

Symmetry == Permutations(Rooms) \cup Permutations(Convs)
              \cup Permutations(Messages)

(***************************************************************************)
(* The memory of a session depends on its messages only, and nothing else  *)
(* depends on the memory.  So the histories explored are those of several  *)
(* conversations with staff about, where the memory expires as soon as the *)
(* call that wrote it has an answer, and those of at most one conversation *)
(* and one test without staff.                                             *)
(***************************************************************************)
Forgetting ==
  \A r \in Sessions : memory[r] = <<>> \/
    \E m \in Messages : roomOf[m] = r /\ pc[m] \in {"recall2", "append2", "answer"}
Alone ==
  /\ human = {} /\ desk = None
  /\ \E c \in Convs : \A d \in Convs \ {c} : convRoom[d] = None /\ log[d] = <<>>
  /\ \A c \in Convs : StaffRows(c) = {}
  /\ \A m \in Messages : unstored[m] <= 1
OneHistory == Forgetting \/ Alone
=============================================================================
