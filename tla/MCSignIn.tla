------------------------------ MODULE MCSignIn ------------------------------
(* Instances of SignIn for TLC.                                            *)
EXTENDS SignIn

Symmetry == Permutations(Users) \cup Permutations(Requests) \cup Permutations(Passwords)

(***************************************************************************)
(* Users meet in codes and passwords only: an account with a provider and  *)
(* the business rows are of one user, and only his requests write them.    *)
(* So the histories explored are those of people who sign in by email, and *)
(* those of one person with every provider.                                *)
(***************************************************************************)
ByEmail ==
  /\ \A u \in Users : business[u] = {}
  /\ \A u \in Users, p \in Providers \ {"email"} : accounts[<<u, p>>] = None
  /\ \A r \in Requests : saw[r].op \notin {"oauth", "joined", "business"}
OneUser ==
  \E u \in Users : \A w \in Users \ {u} :
    stored[w] = None /\ w \notin crossed /\ w \notin {of[r] : r \in Requests}
OneHistory == ByEmail \/ OneUser
=============================================================================
