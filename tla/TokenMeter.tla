----------------------------- MODULE TokenMeter -----------------------------
(***************************************************************************)
(* The token balance of an account: UserSubscribtionService with the code  *)
(* that spends (AiService.TokenCheck, RAGService, the graph of             *)
(* CustomerServiceWorkFlow) and the code that grants.                      *)
(*                                                                         *)
(* Balances live in the UserSubcribtion table, which may hold several rows *)
(* of one user; findFirst gives no order, so it may return any of them.    *)
(* Every charge is a read, an await, and a write of the computed balance.  *)
(***************************************************************************)
EXTENDS Integers, FiniteSets

CONSTANTS
  Users,     \* accounts
  Subs,      \* identities of rows of the UserSubcribtion table
  Requests,  \* identities of operations in progress, reused
  None,      \* no account
  Plans,     \* initialToken of the subscriptions on offer
  Managed,   \* rows an administrator edits or deletes
  Failing,   \* operations that may fail
  MaxUsage,  \* bound: tokens one LLM call may use
  MaxTokens  \* bound: the balance of a row

ASSUME MeterAssumption ==
  /\ None \notin Users
  /\ Plans \subseteq Nat /\ Managed \subseteq Subs
  /\ MaxUsage \in Nat /\ MaxTokens \in Nat

VARIABLES
  owner,    \* the account of a row; None: there is no such row
  balance,  \* tokenRemain of a row
  user,     \* the account an operation is for; None: it is over
  stage,    \* the LLM call to come, or "create" for a purchase
  paying,   \* operations that have read the balance to be charged
  bill,     \* the row read, and the balance computed from it
  (* observers, read by properties only *)
  orderly,  \* accounts nothing was begun for during something else
  due       \* the balance by the rules: what was granted less what was used

rows == <<owner, balance>>
progress == <<user, stage, paying, bill>>
vars == <<rows, progress, orderly, due>>

Nodes == {"classify", "product", "generate"}
Rows(u) == {s \in Subs : owner[s] = u}
Busy(u) == \E r \in Requests : user[r] = u

\* updateToken never writes less than zero.
Charged(t, n) == IF t - n < 0 THEN 0 ELSE t - n

Init ==
  /\ owner = [s \in Subs |-> None]
  /\ balance = [s \in Subs |-> 0]
  /\ user = [r \in Requests |-> None]
  /\ stage = [r \in Requests |-> "idle"]
  /\ paying = {}
  /\ bill \in [Requests -> [row : Subs, left : {0}]]
  /\ orderly = Users
  /\ due = [u \in Users |-> 0]

Begins(r, u, at) ==
  /\ user[r] = None
  /\ user' = [user EXCEPT ![r] = u]
  /\ stage' = [stage EXCEPT ![r] = at]
  /\ orderly' = IF Busy(u) THEN orderly \ {u} ELSE orderly

Ends(r) ==
  /\ user' = [user EXCEPT ![r] = None]
  /\ stage' = [stage EXCEPT ![r] = "idle"]

-----------------------------------------------------------------------------
(* Spending                                                                *)

\* A customer's message is answered only if the row found has tokens left.
TokenCheck(r, u) ==
  /\ \E s \in Rows(u) : balance[s] > 0
  /\ Begins(r, u, "classify")
  /\ UNCHANGED <<rows, paying, bill, due>>

\* The graph: every message is classified, product questions once more, and
\* an answer is generated.
Advance(r) ==
  \/ /\ stage[r] = "classify"
     /\ \E n \in {"product", "generate"} : stage' = [stage EXCEPT ![r] = n]
     /\ UNCHANGED user
  \/ /\ stage[r] = "product"
     /\ stage' = [stage EXCEPT ![r] = "generate"]
     /\ UNCHANGED user
  \/ stage[r] = "generate" /\ Ends(r)

\* The LLM has answered and updateToken has read a row, if there is one.
Invoke(r) ==
  /\ stage[r] \in Nodes /\ r \notin paying
  /\ \E n \in 1..MaxUsage :
       /\ due' = [due EXCEPT ![user[r]] = IF @ - n < 0 THEN 0 ELSE @ - n]
       /\ \/ /\ Rows(user[r]) = {}
             /\ Advance(r)
             /\ UNCHANGED <<paying, bill>>
          \/ /\ \E s \in Rows(user[r]) :
                  bill' = [bill EXCEPT ![r] =
                             [row |-> s, left |-> Charged(balance[s], n)]]
             /\ paying' = paying \cup {r}
             /\ UNCHANGED <<user, stage>>
  /\ UNCHANGED <<rows, orderly>>

\* updateToken writes what it computed, whatever the balance is by now.
BillUnwritten(r) ==  \* Mutant: only a balance that went below zero is written.
  /\ r \in paying /\ owner[bill[r].row] # None
  /\ balance' = IF bill[r].left = 0
                THEN [balance EXCEPT ![bill[r].row] = 0] ELSE balance
  /\ paying' = paying \ {r}
  /\ Advance(r)
  /\ UNCHANGED <<owner, bill, orderly, due>>
Bill(r) ==
  /\ r \in paying /\ owner[bill[r].row] # None
  /\ balance' = [balance EXCEPT ![bill[r].row] = bill[r].left]
  /\ paying' = paying \ {r}
  /\ Advance(r)
  /\ UNCHANGED <<owner, bill, orderly, due>>

\* The operation throws or its process ends.  A charge that is not written
\* is lost, and the account is no longer accounted for.
Fails(r) ==
  /\ r \in Failing /\ user[r] # None
  /\ paying' = paying \ {r}
  /\ orderly' = IF r \in paying THEN orderly \ {user[r]} ELSE orderly
  /\ Ends(r)
  /\ UNCHANGED <<rows, bill, due>>

-----------------------------------------------------------------------------
(* Granting                                                                *)

\* addNewUserSubscribtion reads the balance left in a row of the user.
BuyRead(r, u) ==
  /\ \/ /\ Rows(u) = {}
        /\ bill' = [bill EXCEPT ![r].left = 0]
     \/ \E s \in Rows(u) : bill' = [bill EXCEPT ![r].left = balance[s]]
  /\ Begins(r, u, "create")
  /\ UNCHANGED <<rows, paying, due>>

\* It creates a row with that balance and the new tokens; the row it read
\* stays, so an account that buys again is outside the observer.
BuyCreate(r) ==
  /\ stage[r] = "create"
  /\ \E s \in Subs, p \in Plans :
       /\ owner[s] = None /\ \A q \in paying : bill[q].row # s
       /\ bill[r].left + p <= MaxTokens
       /\ owner' = [owner EXCEPT ![s] = user[r]]
       /\ balance' = [balance EXCEPT ![s] = bill[r].left + p]
       /\ due' = [due EXCEPT ![user[r]] = @ + p]
  /\ orderly' = IF Rows(user[r]) = {} THEN orderly ELSE orderly \ {user[r]}
  /\ Ends(r)
  /\ UNCHANGED <<paying, bill>>

\* editUserSubscribtion by an administrator, who enters no debt but may give
\* the row to another account.
Edit(s) ==
  /\ owner[s] # None
  /\ \E u \in Users, v \in 0..MaxTokens :
       /\ owner' = [owner EXCEPT ![s] = u]
       /\ balance' = [balance EXCEPT ![s] = v]
       /\ due' = [due EXCEPT ![owner[s]] = 0, ![u] = v]
       /\ orderly' = IF u = owner[s] /\ ~Busy(u) THEN orderly
                     ELSE orderly \ {u, owner[s]}
  /\ UNCHANGED progress

Delete(s) ==
  /\ owner[s] # None
  /\ owner' = [owner EXCEPT ![s] = None]
  /\ balance' = [balance EXCEPT ![s] = 0]
  /\ due' = [due EXCEPT ![owner[s]] = 0]
  /\ orderly' = IF Busy(owner[s]) THEN orderly \ {owner[s]} ELSE orderly
  /\ UNCHANGED progress

-----------------------------------------------------------------------------
Next ==
  \/ \E r \in Requests :
       \/ \E u \in Users : TokenCheck(r, u) \/ BuyRead(r, u)
       \/ Invoke(r) \/ Bill(r) \/ Fails(r) \/ BuyCreate(r)
  \/ \E s \in Managed : Edit(s) \/ Delete(s)

Spec == Init /\ [][Next]_vars

-----------------------------------------------------------------------------
\* Every variable holds a value of its kind; no balance is negative.
TypeOK ==
  /\ owner \in [Subs -> Users \cup {None}]
  /\ balance \in [Subs -> 0..MaxTokens]
  /\ user \in [Requests -> Users \cup {None}]
  /\ stage \in [Requests -> Nodes \cup {"idle", "create"}]
  /\ paying \subseteq Requests
  /\ bill \in [Requests -> [row : Subs, left : 0..MaxTokens]]
  /\ orderly \subseteq Users
  /\ due \in [Users -> Nat]

\* An account whose operations come one at a time, and which has bought once,
\* has exactly the tokens it was granted less those its answers used, as soon
\* as the charge in progress is written: the clamp, the several charges of one
\* answer, edits and cancellations lose and invent nothing.
OrderlyBalanceIsDue ==
  \A u \in orderly : \A s \in Rows(u) :
    IF \E r \in paying : user[r] = u
    THEN \A r \in paying : user[r] = u =>
           bill[r] = [row |-> s, left |-> due[u]]
    ELSE balance[s] = due[u]
=============================================================================
