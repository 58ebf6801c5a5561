---------------------------- MODULE QuotaProofs ----------------------------
(***************************************************************************)
(* Theorems about the two quotas a request meets: the tokens of its        *)
(* account (TokenMeter), for every set of accounts, rows and operations,   *)
(* and every tariff, and the rate of its key (RateLimiter), for every      *)
(* limit, every set of keys and requests, and any number of failures.      *)
(* The two share no state, and no theorem speaks of both.                  *)
(***************************************************************************)
EXTENDS TokenMeter, RateLimiter, TLAPS

-----------------------------------------------------------------------------
(* Tokens                                                                  *)

\* An operation in progress has an account and a stage, pays only between two
\* LLM calls, and the row it pays from is of its account while it exists,
\* unless it was given to another account meanwhile.
Shape ==
  /\ \A r \in Requests : user[r] = None <=> stage[r] = "idle"
  /\ \A r \in paying : stage[r] \in Nodes
  /\ \A r \in paying : \/ owner[bill[r].row] \in {user[r], None}
                       \/ {owner[bill[r].row], user[r]} \cap orderly = {}

\* One operation, one row, and no tokens without a row.
OneAtATime ==
  \A r, q \in Requests : user[r] \in orderly /\ user[q] = user[r] => r = q
OneRow ==
  \A s, t \in Subs : owner[s] \in orderly /\ owner[t] = owner[s] => s = t
NoRowNoDue == \A u \in orderly : Rows(u) = {} => due[u] = 0

\* A purchase has read what is due.
PurchaseReadDue ==
  \A r \in Requests : user[r] \in orderly /\ stage[r] = "create"
    => bill[r].left = due[user[r]]

IInv == /\ TypeOK /\ Shape /\ OneAtATime /\ OneRow /\ NoRowNoDue
        /\ PurchaseReadDue /\ OrderlyBalanceIsDue

USE MeterAssumption DEF Nodes, Rows, Busy

\* A new table holds nothing.
LEMMA InitIInv == Init => IInv
BY DEF Init, IInv, TypeOK, Shape, OneAtATime, OneRow, NoRowNoDue,
       PurchaseReadDue, OrderlyBalanceIsDue

\* The graph moves one operation on or ends it.
LEMMA AdvanceMoves ==
  ASSUME TypeOK, Shape, NEW r \in Requests, stage[r] \in Nodes, Advance(r)
  PROVE  /\ user' \in [Requests -> Users \cup {None}]
         /\ stage' \in [Requests -> Nodes \cup {"idle", "create"}]
         /\ \A q \in Requests : user'[q] = None <=> stage'[q] = "idle"
         /\ \A q \in Requests : q # r => user'[q] = user[q] /\ stage'[q] = stage[q]
         /\ user'[r] \in {user[r], None} /\ stage'[r] # "create"
<1>1. CASE stage[r] = "classify"
  BY <1>1 DEF Advance, TypeOK, Shape
<1>2. CASE stage[r] = "product"
  BY <1>2 DEF Advance, TypeOK, Shape
<1>3. CASE stage[r] = "generate"
  BY <1>3 DEF Advance, Ends, TypeOK, Shape
<1> QED BY <1>1, <1>2, <1>3

\* An answer begun is the only operation of an orderly account.
LEMMA TokenCheckIInv ==
  ASSUME IInv, NEW r \in Requests, NEW u \in Users, TokenCheck(r, u)
  PROVE  IInv'
<1> USE DEF IInv, TokenCheck, Begins, rows
<1>1. TypeOK' /\ Shape'
  BY DEF TypeOK, Shape
<1>2. OneAtATime' /\ OneRow' /\ NoRowNoDue'
  BY DEF TypeOK, OneAtATime, OneRow, NoRowNoDue
<1>3. PurchaseReadDue' /\ OrderlyBalanceIsDue'
  BY DEF TypeOK, Shape, PurchaseReadDue, OrderlyBalanceIsDue
<1> QED BY <1>1, <1>2, <1>3

\* The balance read is the one due, so the bill computed from it is.
LEMMA InvokeIInv ==
  ASSUME IInv, NEW r \in Requests, Invoke(r)
  PROVE  IInv'
<1> USE DEF IInv, Invoke, Charged, rows
<1>0. user[r] \in Users
  BY DEF TypeOK, Shape
<1>1. PICK n \in 1..MaxUsage :
        /\ due' = [due EXCEPT ![user[r]] = IF @ - n < 0 THEN 0 ELSE @ - n]
        /\ \/ /\ Rows(user[r]) = {}
              /\ Advance(r)
              /\ UNCHANGED <<paying, bill>>
           \/ /\ \E s \in Rows(user[r]) :
                   bill' = [bill EXCEPT ![r] =
                              [row |-> s, left |-> Charged(balance[s], n)]]
              /\ paying' = paying \cup {r}
              /\ UNCHANGED <<user, stage>>
  OBVIOUS
<1>2. due' \in [Users -> Nat]
  BY <1>0, <1>1 DEF TypeOK
<1>3. CASE Rows(user[r]) = {} /\ Advance(r) /\ UNCHANGED <<paying, bill>>
  <2>0. /\ user' \in [Requests -> Users \cup {None}]
        /\ stage' \in [Requests -> Nodes \cup {"idle", "create"}]
        /\ \A q \in Requests : user'[q] = None <=> stage'[q] = "idle"
        /\ \A q \in Requests : q # r => user'[q] = user[q] /\ stage'[q] = stage[q]
        /\ user'[r] \in {user[r], None} /\ stage'[r] # "create"
    BY <1>3, AdvanceMoves
  <2>1. TypeOK'
    BY <2>0, <1>2, <1>3 DEF TypeOK
  <2>2. Shape'
    <3>1. \A q \in paying : q # r => user'[q] = user[q] /\ stage'[q] = stage[q]
      BY <2>0 DEF TypeOK
    <3> QED BY <2>0, <3>1, <1>3, SMTT(30) DEF TypeOK, Shape
  <2>3. OneAtATime' /\ OneRow'
    BY <2>0, <1>3 DEF TypeOK, OneAtATime, OneRow
  <2>4. NoRowNoDue'
    BY <1>0, <1>1 DEF TypeOK, NoRowNoDue
  <2>5. PurchaseReadDue'
    BY <2>0, <1>0, <1>1, <1>3 DEF TypeOK, OneAtATime, PurchaseReadDue
  <2>6. OrderlyBalanceIsDue'
    BY <2>0, <1>0, <1>1, <1>3 DEF TypeOK, OrderlyBalanceIsDue
  <2> QED BY <2>1, <2>2, <2>3, <2>4, <2>5, <2>6
<1>4. ASSUME NEW s \in Rows(user[r]),
             bill' = [bill EXCEPT ![r] =
                        [row |-> s, left |-> Charged(balance[s], n)]],
             paying' = paying \cup {r}, UNCHANGED <<user, stage>>
      PROVE  IInv'
  <2>1. Charged(balance[s], n) \in 0..MaxTokens
    BY DEF TypeOK
  <2>2. TypeOK' /\ Shape'
    BY <1>2, <1>4, <2>1 DEF TypeOK, Shape
  <2>3. OneAtATime' /\ OneRow' /\ NoRowNoDue'
    BY <1>0, <1>1, <1>4 DEF TypeOK, OneAtATime, OneRow, NoRowNoDue
  <2>4. PurchaseReadDue'
    BY <1>0, <1>1, <1>4 DEF TypeOK, OneAtATime, PurchaseReadDue
  <2>5. OrderlyBalanceIsDue'
    <3> SUFFICES ASSUME NEW u \in orderly', NEW t \in Rows(u)'
                 PROVE IF \E q \in paying' : user'[q] = u
                       THEN \A q \in paying' : user'[q] = u =>
                              bill'[q] = [row |-> t, left |-> due'[u]]
                       ELSE balance'[t] = due'[u]
      BY DEF OrderlyBalanceIsDue
    <3>0. /\ user' = user /\ balance' = balance
          /\ u \in orderly /\ t \in Rows(u)
      BY <1>4
    <3>1. CASE u = user[r]
      <4>1. t = s /\ \A q \in paying' : user[q] = u => q = r
        BY <3>0, <1>4, <3>1 DEF TypeOK, OneRow, OneAtATime
      <4>6. ~\E q \in paying : user[q] = u
        BY <3>0, <3>1 DEF TypeOK, OneAtATime
      <4>2. balance[s] = due[u]
        BY <3>0, <4>1, <4>6 DEF OrderlyBalanceIsDue
      <4>3. bill'[r] = [row |-> s, left |-> due'[u]]
        BY <3>0, <1>0, <1>1, <1>4, <3>1, <4>2 DEF TypeOK
      <4>4. r \in paying' /\ user[r] = u
        BY <1>4, <3>1
      <4>5. \A q \in paying' : user[q] = u =>
              bill'[q] = [row |-> t, left |-> due'[u]]
        BY <4>1, <4>3
      <4> QED BY <3>0, <4>4, <4>5
    <3>2. CASE u # user[r]
      BY <3>0, <1>0, <1>1, <1>4, <3>2 DEF TypeOK, OrderlyBalanceIsDue
    <3> QED BY <3>1, <3>2
  <2> QED BY <2>2, <2>3, <2>4, <2>5
<1> QED BY <1>1, <1>3, <1>4

\* The bill is written to the only row.
LEMMA BillIInv ==
  ASSUME IInv, NEW r \in Requests, Bill(r)
  PROVE  IInv'
<1> USE DEF IInv, Bill
<1>0. /\ user[r] \in Users /\ bill[r].row \in Subs
      /\ bill[r].left \in 0..MaxTokens /\ stage[r] \in Nodes
      /\ \/ owner[bill[r].row] = user[r]
         \/ {owner[bill[r].row], user[r]} \cap orderly = {}
  BY DEF TypeOK, Shape
<1>5. /\ user' \in [Requests -> Users \cup {None}]
      /\ stage' \in [Requests -> Nodes \cup {"idle", "create"}]
      /\ \A q \in Requests : user'[q] = None <=> stage'[q] = "idle"
      /\ \A q \in Requests : q # r => user'[q] = user[q] /\ stage'[q] = stage[q]
      /\ user'[r] \in {user[r], None} /\ stage'[r] # "create"
  BY <1>0, AdvanceMoves
<1>1. TypeOK' /\ Shape'
  <2>1. TypeOK'
    BY <1>0, <1>5 DEF TypeOK
  <2>2. Shape'
    BY <1>0, <1>5 DEF TypeOK, Shape
  <2> QED BY <2>1, <2>2
<1>2. OneAtATime' /\ OneRow' /\ NoRowNoDue'
  BY <1>5 DEF TypeOK, OneAtATime, OneRow, NoRowNoDue
<1>3. PurchaseReadDue'
  BY <1>5 DEF TypeOK, PurchaseReadDue
<1>4. OrderlyBalanceIsDue'
  <2> SUFFICES ASSUME NEW u \in orderly, NEW t \in Rows(u)
               PROVE IF \E q \in paying' : user'[q] = u
                     THEN \A q \in paying' : user'[q] = u =>
                            bill[q] = [row |-> t, left |-> due[u]]
                     ELSE balance'[t] = due[u]
    BY DEF OrderlyBalanceIsDue
  <2>1. \A q \in paying' : user'[q] = user[q]
    BY <1>5 DEF TypeOK
  <2>2. CASE u = user[r]
    <3>1. \A q \in paying' : user[q] # u
      BY <2>2 DEF TypeOK, OneAtATime
    <3>2. bill[r] = [row |-> t, left |-> due[u]]
      BY <2>2 DEF OrderlyBalanceIsDue
    <3>3. balance'[t] = due[u]
      BY <3>2 DEF TypeOK
    <3> QED BY <2>1, <3>1, <3>3
  <2>3. CASE u # user[r]
    <3>1. bill[r].row # t
      BY <1>0, <2>3
    <3> QED BY <2>1, <2>3, <3>1, SMTT(30) DEF TypeOK, OrderlyBalanceIsDue
  <2> QED BY <2>2, <2>3
<1> QED BY <1>1, <1>2, <1>3, <1>4

\* An operation that fails with a charge unwritten is counted as disorder.
LEMMA FailsIInv ==
  ASSUME IInv, NEW r \in Requests, Fails(r)
  PROVE  IInv'
<1> USE DEF IInv, Fails, Ends, rows
<1>1. TypeOK' /\ Shape'
  BY DEF TypeOK, Shape
<1>2. OneAtATime' /\ OneRow' /\ NoRowNoDue' /\ PurchaseReadDue'
  BY DEF TypeOK, OneAtATime, OneRow, NoRowNoDue, PurchaseReadDue
<1>3. OrderlyBalanceIsDue'
  <2> SUFFICES ASSUME NEW u \in orderly', NEW t \in Rows(u)'
               PROVE IF \E q \in paying' : user'[q] = u
                     THEN \A q \in paying' : user'[q] = u =>
                            bill'[q] = [row |-> t, left |-> due'[u]]
                     ELSE balance'[t] = due'[u]
    BY DEF OrderlyBalanceIsDue
  <2>1. /\ u \in orderly /\ t \in Rows(u)
        /\ \A q \in paying : user[q] = u => q # r
    BY DEF TypeOK
  <2>2. \A q \in Requests : q # r => user'[q] = user[q]
    BY DEF TypeOK
  <2>3. \A q \in Requests : (q \in paying /\ user[q] = u)
                               <=> (q \in paying' /\ user'[q] = u)
    BY <2>1, <2>2 DEF TypeOK
  <2>4. UNCHANGED <<bill, balance, due>>
    OBVIOUS
  <2> QED BY <2>1, <2>3, <2>4 DEF TypeOK, OrderlyBalanceIsDue
<1> QED BY <1>1, <1>2, <1>3

\* A purchase begun alone reads the balance due: nothing without a row.
LEMMA BuyReadIInv ==
  ASSUME IInv, NEW r \in Requests, NEW u \in Users, BuyRead(r, u)
  PROVE  IInv'
<1> USE DEF IInv, BuyRead, Begins, rows
<1>0. /\ bill' \in [Requests -> [row : Subs, left : 0..MaxTokens]]
      /\ \A q \in Requests : q # r => bill'[q] = bill[q]
      /\ r \notin paying
  <2>1. r \notin paying
    BY DEF Shape
  <2>2. \E n \in 0..MaxTokens : bill' = [bill EXCEPT ![r].left = n]
    BY DEF TypeOK
  <2> QED BY <2>1, <2>2 DEF TypeOK
<1>1. TypeOK' /\ Shape'
  <2>1. TypeOK'
    BY <1>0 DEF TypeOK
  <2>2. Shape'
    BY <1>0 DEF TypeOK, Shape
  <2> QED BY <2>1, <2>2
<1>2. OneAtATime' /\ OneRow' /\ NoRowNoDue'
  BY DEF TypeOK, OneAtATime, OneRow, NoRowNoDue
<1>3. PurchaseReadDue'
  <2> SUFFICES ASSUME NEW q \in Requests, user'[q] \in orderly',
                      stage'[q] = "create"
               PROVE  bill'[q].left = due[user'[q]]
    BY DEF PurchaseReadDue
  <2>1. CASE q # r
    BY <1>0, <2>1 DEF TypeOK, PurchaseReadDue
  <2>2. CASE q = r
    <3>1. user'[r] = u /\ u \in orderly /\ ~\E x \in Requests : user[x] = u
      BY <2>2 DEF TypeOK
    <3>2. CASE Rows(u) = {}
      <4>0. ~\E s \in Rows(u) : bill' = [bill EXCEPT ![r].left = balance[s]]
        BY <3>2, Zenon
      <4>2. bill' = [bill EXCEPT ![r].left = 0]
        BY <4>0
      <4>1. bill'[r].left = 0
        BY <4>2 DEF TypeOK
      <4> QED BY <2>2, <3>1, <3>2, <4>1 DEF NoRowNoDue
    <3>3. CASE Rows(u) # {}
      <4>1. PICK s \in Rows(u) : bill' = [bill EXCEPT ![r].left = balance[s]]
        BY <3>3
      <4>2. balance[s] = due[u]
        BY <3>1 DEF TypeOK, OrderlyBalanceIsDue
      <4>3. bill'[r].left = balance[s]
        BY <4>1 DEF TypeOK
      <4> QED BY <2>2, <3>1, <4>2, <4>3
    <3> QED BY <3>2, <3>3
  <2> QED BY <2>1, <2>2
<1>4. OrderlyBalanceIsDue'
  <2>1. \A q \in paying : user'[q] = user[q] /\ bill'[q] = bill[q]
    BY <1>0 DEF TypeOK
  <2> QED BY <2>1 DEF TypeOK, OrderlyBalanceIsDue
<1> QED BY <1>1, <1>2, <1>3, <1>4

\* The row it creates is the first one of the account, or the account is no
\* longer observed.
LEMMA BuyCreateIInv ==
  ASSUME IInv, NEW r \in Requests, BuyCreate(r)
  PROVE  IInv'
<1> USE DEF IInv, BuyCreate, Ends
<1>1. PICK s \in Subs, p \in Plans :
        /\ owner[s] = None /\ \A q \in paying : bill[q].row # s
        /\ bill[r].left + p <= MaxTokens
        /\ owner' = [owner EXCEPT ![s] = user[r]]
        /\ balance' = [balance EXCEPT ![s] = bill[r].left + p]
        /\ due' = [due EXCEPT ![user[r]] = @ + p]
  OBVIOUS
<1>2. /\ user[r] \in Users /\ r \notin paying /\ p \in Nat
      /\ bill[r].left \in 0..MaxTokens
      /\ \A q \in Requests : q # r => user'[q] = user[q] /\ stage'[q] = stage[q]
      /\ user'[r] = None /\ stage'[r] = "idle"
  BY DEF TypeOK, Shape
<1>3. TypeOK'
  BY <1>1, <1>2 DEF TypeOK
<1>4. Shape'
  <2>1. \A q \in Requests : user'[q] = None <=> stage'[q] = "idle"
    BY <1>2 DEF Shape
  <2>2. /\ paying' = paying /\ bill' = bill /\ orderly' \subseteq orderly
        /\ \A q \in paying : q # r
    BY <1>2
  <2>3. \A q \in paying : stage'[q] \in Nodes
    BY <1>2, <2>2 DEF TypeOK, Shape
  <2>4. \A q \in paying : owner'[bill[q].row] = owner[bill[q].row]
    BY <1>1 DEF TypeOK
  <2>5. \A q \in paying : user'[q] = user[q]
    BY <1>2, <2>2 DEF TypeOK
  <2> QED BY <2>1, <2>2, <2>3, <2>4, <2>5 DEF Shape
<1>5. \A u \in orderly' : u # user[r] => Rows(u)' = Rows(u)
  BY <1>1, <1>2 DEF TypeOK
<1>6. \A u \in orderly' : u = user[r] =>
        Rows(u)' = {s} /\ due[u] = bill[r].left
  <2> SUFFICES ASSUME NEW u \in orderly', u = user[r]
               PROVE  Rows(u)' = {s} /\ due[u] = bill[r].left
    OBVIOUS
  <2>1. Rows(u) = {}
    BY DEF TypeOK
  <2>2. due[u] = bill[r].left
    BY <1>2, <2>1 DEF TypeOK, PurchaseReadDue
  <2>3. \A t \in Subs : owner'[t] = u <=> t = s
    BY <1>1, <1>2, <2>1 DEF TypeOK
  <2> QED BY <2>2, <2>3
<1>7. OneAtATime'
  BY <1>2 DEF TypeOK, OneAtATime
<1>8. OneRow'
  BY <1>1, <1>2 DEF TypeOK, OneRow
<1>9. NoRowNoDue'
  BY <1>1, <1>2, <1>5, <1>6 DEF TypeOK, NoRowNoDue
<1>10. PurchaseReadDue'
  BY <1>1, <1>2 DEF TypeOK, OneAtATime, PurchaseReadDue
<1>11. OrderlyBalanceIsDue'
  <2> SUFFICES ASSUME NEW u \in orderly', NEW t \in Rows(u)'
               PROVE IF \E q \in paying' : user'[q] = u
                     THEN \A q \in paying' : user'[q] = u =>
                            bill'[q] = [row |-> t, left |-> due'[u]]
                     ELSE balance'[t] = due'[u]
    BY DEF OrderlyBalanceIsDue
  <2>1. \A q \in paying : user'[q] = user[q]
    BY <1>2 DEF TypeOK
  <2>2. CASE u = user[r]
    <3>1. ~\E q \in paying' : user'[q] = u
      BY <1>2, <2>1, <2>2 DEF TypeOK, OneAtATime
    <3>2. t = s /\ balance'[s] = due'[u]
      BY <1>1, <1>2, <1>6, <2>2 DEF TypeOK
    <3> QED BY <3>1, <3>2
  <2>3. CASE u # user[r]
    <3>1. t \in Rows(u) /\ t # s /\ due'[u] = due[u] /\ balance'[t] = balance[t]
      BY <1>1, <1>2, <1>5, <2>3 DEF TypeOK
    <3> QED BY <2>1, <2>3, <3>1 DEF TypeOK, OrderlyBalanceIsDue
  <2> QED BY <2>2, <2>3
<1> QED BY <1>3, <1>4, <1>7, <1>8, <1>9, <1>10, <1>11

\* An administrator who meets no operation in progress sets what is due.
LEMMA ManagedIInv ==
  ASSUME IInv, NEW s \in Managed, Edit(s) \/ Delete(s)
  PROVE  IInv'
<1> USE DEF IInv, progress
<1>0. s \in Subs /\ owner[s] \in Users
  BY DEF Edit, Delete, TypeOK
<1>1. TypeOK' /\ Shape'
  BY <1>0 DEF Edit, Delete, TypeOK, Shape
<1>2. OneAtATime' /\ OneRow' /\ PurchaseReadDue'
  BY <1>0 DEF Edit, Delete, TypeOK, OneAtATime, OneRow, PurchaseReadDue
<1>3. NoRowNoDue'
  BY <1>0 DEF Edit, Delete, TypeOK, NoRowNoDue
<1>4. OrderlyBalanceIsDue'
  <2>1. CASE Edit(s)
    BY <1>0, <2>1 DEF Edit, TypeOK, OneRow, OrderlyBalanceIsDue
  <2>2. CASE Delete(s)
    <3> SUFFICES ASSUME NEW u \in orderly', NEW t \in Rows(u)'
                 PROVE IF \E q \in paying' : user'[q] = u
                       THEN \A q \in paying' : user'[q] = u =>
                              bill'[q] = [row |-> t, left |-> due'[u]]
                       ELSE balance'[t] = due'[u]
      BY DEF OrderlyBalanceIsDue
    <3>1. u \in orderly /\ t \in Rows(u) /\ t # s
      BY <1>0, <2>2 DEF Delete, TypeOK
    <3>2. u # owner[s]
      BY <1>0, <3>1 DEF OneRow
    <3>3. UNCHANGED progress /\ due'[u] = due[u] /\ balance'[t] = balance[t]
      BY <1>0, <2>2, <3>1, <3>2 DEF Delete, TypeOK
    <3> QED BY <3>1, <3>3 DEF OrderlyBalanceIsDue
  <2> QED BY <2>1, <2>2
<1> QED BY <1>1, <1>2, <1>3, <1>4

\* Every operation, step by step, keeps the balance due.
LEMMA NextIInv == IInv /\ [Next]_vars => IInv'
<1> SUFFICES ASSUME IInv, [Next]_vars PROVE IInv'
  OBVIOUS
<1>1. CASE UNCHANGED vars
  BY <1>1 DEF vars, rows, progress, IInv, TypeOK, Shape, OneAtATime, OneRow,
              NoRowNoDue, PurchaseReadDue, OrderlyBalanceIsDue
<1>2. ASSUME NEW r \in Requests, NEW u \in Users,
             TokenCheck(r, u) \/ BuyRead(r, u)
      PROVE  IInv'
  BY <1>2, TokenCheckIInv, BuyReadIInv
<1>3. ASSUME NEW r \in Requests,
             Invoke(r) \/ Bill(r) \/ Fails(r) \/ BuyCreate(r)
      PROVE  IInv'
  BY <1>3, InvokeIInv, BillIInv, FailsIInv, BuyCreateIInv
<1>4. ASSUME NEW s \in Managed, Edit(s) \/ Delete(s) PROVE IInv'
  BY <1>4, ManagedIInv
<1> QED BY <1>1, <1>2, <1>3, <1>4 DEF Next

\* What the steps rely on is never lost.
LEMMA Invariance == Spec => []IInv
BY InitIInv, NextIInv, PTL DEF Spec

\* Balances stay within their bounds: updateToken never stores a debt.
THEOREM TypeCorrect == Spec => []TypeOK
<1>1. IInv => TypeOK
  BY DEF IInv
<1> QED BY <1>1, Invariance, PTL

\* An account used one operation at a time is charged exactly what it used.
THEOREM MeterCorrect == Spec => []OrderlyBalanceIsDue
<1>1. IInv => OrderlyBalanceIsDue
  BY DEF IInv
<1> QED BY <1>1, Invariance, PTL

-----------------------------------------------------------------------------
(* Rates                                                                   *)

\* A request that asks nothing has nothing pending, one that does has a place.
IdleIsBlank ==
  \A r \in Arrivals :
    /\ asks[r] = NoKey => r \notin landed /\ r \notin late
    /\ asks[r] # NoKey => place[r] >= 1

\* A key cannot lapse while the expire of its first request is to come.
FirstInTime ==
  \A r \in Arrivals : asks[r] # NoKey /\ First(place[r]) /\ r \notin landed => r \notin late

\* Only keys that are there have a time to live.
KeysExpire == \A k \in expires : count[k] > 0

\* Places are counted before they are admitted, or awaited in the window they
\* belong to.
PlacesAreCounted ==
  /\ \A k \in Keys : \A p \in admitted[k] : p <= count[k]
  /\ \A r \in Arrivals \ late : asks[r] # NoKey => place[r] <= count[asks[r]]

LimiterIInv == /\ LimiterTypeOK /\ WindowIsLimited
               /\ IdleIsBlank /\ FirstInTime /\ KeysExpire /\ PlacesAreCounted

USE LimiterAssumption

\* No key is there at first.
LEMMA LimiterInitIInv == LimiterInit => LimiterIInv
BY DEF LimiterInit, LimiterIInv, LimiterTypeOK, WindowIsLimited, IdleIsBlank, FirstInTime,
  KeysExpire, PlacesAreCounted

\* A request is given a place nobody has, above all that were given.
LEMMA IncrIInv ==
  ASSUME LimiterIInv, NEW r \in Arrivals, NEW k \in Keys, Incr(r, k)
  PROVE  LimiterIInv'
<1> USE DEF LimiterIInv, Incr, LimiterTypeOK
<1>1. /\ asks[r] = NoKey /\ r \notin landed /\ r \notin late /\ count[k] + 1 \in 1..MaxCount
      /\ count' = [count EXCEPT ![k] = @ + 1] /\ count'[k] = count[k] + 1
      /\ asks' = [asks EXCEPT ![r] = k] /\ place' = [place EXCEPT ![r] = count[k] + 1]
      /\ UNCHANGED <<expires, landed, late, admitted, failures>>
  BY DEF IdleIsBlank
<1>2. IdleIsBlank' /\ FirstInTime' /\ KeysExpire'
  BY <1>1 DEF IdleIsBlank, FirstInTime, KeysExpire
<1>3. PlacesAreCounted'
  BY <1>1 DEF PlacesAreCounted
<1>4. WindowIsLimited'
  <2>1. count[k] + 1 \notin admitted[k]
    BY DEF PlacesAreCounted
  <2>2. \A q \in Arrivals \ late : asks[q] = k => place[q] # count[k] + 1
    BY DEF PlacesAreCounted
  <2> QED BY <1>1, <2>1, <2>2 DEF WindowIsLimited
<1>5. k \in expires => count[k] # 0
  BY DEF KeysExpire
<1>6. LimiterTypeOK'
  BY <1>1, <1>5 DEF First
<1> QED BY <1>2, <1>3, <1>4, <1>6

\* The expire of a first request finds the key it was counted by.
LEMMA ExpireIInv ==
  ASSUME LimiterIInv, NEW r \in Arrivals, ExpireLands(r)
  PROVE  LimiterIInv'
<1> USE DEF LimiterIInv, ExpireLands, LimiterTypeOK
<1>1. PICK k \in Keys : k = asks[r]
  OBVIOUS
<1>2. /\ First(place[r]) /\ r \notin landed /\ r \notin late /\ count[k] > 0
      /\ landed' = landed \cup {r} /\ expires' = expires \cup {k}
      /\ UNCHANGED <<count, asks, place, late, admitted, failures>>
  BY <1>1 DEF FirstInTime
<1>3. WindowIsLimited' /\ IdleIsBlank' /\ FirstInTime' /\ KeysExpire' /\ PlacesAreCounted'
  BY <1>1, <1>2 DEF WindowIsLimited, IdleIsBlank, FirstInTime, KeysExpire, PlacesAreCounted
<1>4. \A q \in Arrivals \ {r} : asks[q] = k /\ First(place[q]) => q \in landed
  BY <1>1, <1>2 DEF FirstInTime, WindowIsLimited, First
<1>5. LimiterTypeOK'
  BY <1>1, <1>2, <1>4
<1> QED BY <1>3, <1>5

\* Requests that leave make no place that was free another's.
LEMMA LeaveIInv ==
  ASSUME LimiterIInv, NEW R \in SUBSET Arrivals, Leave(R), UNCHANGED <<count, expires>>,
         failures' \in 0..MaxFailures,
         \/ admitted' = admitted
         \/ \E r \in R \ late : /\ asks[r] # NoKey /\ place[r] <= Limit
                                /\ admitted' = [admitted EXCEPT ![asks[r]] = @ \cup {place[r]}]
  PROVE  LimiterIInv'
<1> USE DEF LimiterIInv
<1>1. /\ \A q \in Arrivals : asks'[q] # NoKey =>
           q \notin R /\ asks[q] # NoKey /\ asks'[q] = asks[q] /\ place'[q] = place[q]
      /\ \A q \in Arrivals : asks'[q] = NoKey => q \in R \/ asks[q] = NoKey
      /\ landed' = landed \ R /\ late' = late \ R
      /\ asks' \in [Arrivals -> Keys \cup {NoKey}] /\ place' \in [Arrivals -> 0..MaxCount]
  BY DEF Leave, LimiterTypeOK
<1>2. IdleIsBlank' /\ FirstInTime' /\ KeysExpire'
  BY <1>1 DEF IdleIsBlank, FirstInTime, KeysExpire
<1>3. CASE admitted' = admitted
  <2>1. LimiterTypeOK'
    BY <1>1, <1>3 DEF LimiterTypeOK
  <2>2. WindowIsLimited' /\ PlacesAreCounted'
    BY <1>1, <1>3 DEF WindowIsLimited, PlacesAreCounted
  <2> QED BY <1>2, <2>1, <2>2
<1>4. ASSUME NEW r \in R \ late, asks[r] # NoKey, place[r] <= Limit,
             admitted' = [admitted EXCEPT ![asks[r]] = @ \cup {place[r]}]
      PROVE  LimiterIInv'
  <2>1. PICK k \in Keys : k = asks[r]
    BY <1>4 DEF LimiterTypeOK
  <2>2. /\ admitted' = [admitted EXCEPT ![k] = @ \cup {place[r]}]
        /\ place[r] \in 1..MaxCount /\ place[r] \in 1..Limit /\ place[r] <= count[k]
    BY <1>4, <2>1 DEF LimiterTypeOK, IdleIsBlank, PlacesAreCounted
  <2>3. LimiterTypeOK'
    BY <1>1, <2>2 DEF LimiterTypeOK
  <2>4. admitted'[k] = admitted[k] \cup {place[r]}
        /\ \A l \in Keys \ {k} : admitted'[l] = admitted[l]
    BY <2>2 DEF LimiterTypeOK
  <2>5. PlacesAreCounted'
    <3>1. \A l \in Keys : \A p \in admitted'[l] : p <= count[l]
      BY <2>2, <2>4 DEF PlacesAreCounted
    <3>2. \A q \in Arrivals \ late' : asks'[q] # NoKey => place'[q] <= count[asks'[q]]
      BY <1>1 DEF PlacesAreCounted
    <3> QED BY <3>1, <3>2 DEF PlacesAreCounted
  <2>6. WindowIsLimited'
    <3>1. \A l \in Keys : admitted'[l] \subseteq 1..Limit
      BY <2>2, <2>4 DEF WindowIsLimited
    <3>2. ASSUME NEW q \in Arrivals \ late', asks'[q] # NoKey
          PROVE  /\ place'[q] \notin admitted'[asks'[q]]
                 /\ \A o \in Arrivals \ late' : asks'[o] = asks'[q] /\ place'[o] = place'[q] => o = q
      <4>1. q \in Arrivals \ late /\ q \notin R /\ asks[q] # NoKey /\ asks[q] \in Keys
        BY <1>1, <3>2 DEF LimiterTypeOK
      <4>2. asks[q] = k => place[q] # place[r]
        BY <2>1, <4>1, <1>4 DEF WindowIsLimited
      <4>3. place[q] \notin admitted'[asks[q]]
        BY <2>4, <4>1, <4>2 DEF WindowIsLimited
      <4> QED BY <1>1, <3>2, <4>1, <4>3 DEF WindowIsLimited
    <3> QED BY <3>1, <3>2 DEF WindowIsLimited
  <2> QED BY <1>2, <2>3, <2>5, <2>6
<1> QED BY <1>3, <1>4

LEMMA DecideIInv ==
  ASSUME LimiterIInv, NEW r \in Arrivals, Decide(r)
  PROVE  LimiterIInv'
<1>1. place[r] \in Nat /\ failures \in 0..MaxFailures
  BY DEF LimiterIInv, LimiterTypeOK
<1>2. CASE Exceeds(place[r]) \/ r \in late
  BY <1>1, <1>2, LeaveIInv DEF Decide
<1>3. CASE ~(Exceeds(place[r]) \/ r \in late)
  <2>1. place[r] <= Limit /\ {r} \in SUBSET Arrivals /\ r \in {r} \ late
    BY <1>1, <1>3 DEF Exceeds
  <2>2. /\ Leave({r}) /\ asks[r] # NoKey /\ UNCHANGED <<count, expires>> /\ failures' \in 0..MaxFailures
        /\ admitted' = [admitted EXCEPT ![asks[r]] = @ \cup {place[r]}]
    BY <1>1, <1>3 DEF Decide
  <2> QED BY <2>1, <2>2, LeaveIInv
<1> QED BY <1>2, <1>3

\* Requests that fail or die leave their place empty.
LEMMA FailureIInv ==
  ASSUME LimiterIInv, Crash \/ \E r \in Arrivals : RequestFails(r)
  PROVE  LimiterIInv'
<1>1. Failure => failures' \in 0..MaxFailures
  BY DEF Failure, LimiterIInv, LimiterTypeOK
<1> QED BY <1>1, LeaveIInv DEF Crash, RequestFails

\* A key that lapses takes its counts with it; nobody's expire is to come.
LEMMA LapseIInv ==
  ASSUME LimiterIInv, NEW k \in Keys, Lapse(k)
  PROVE  LimiterIInv'
<1> USE DEF LimiterIInv, Lapse
<1>1. /\ late' = late \cup {r \in Arrivals : asks[r] = k}
      /\ count'[k] = 0 /\ admitted'[k] = {} /\ expires' = expires \ {k}
      /\ \A l \in Keys \ {k} : count'[l] = count[l] /\ admitted'[l] = admitted[l]
      /\ UNCHANGED <<asks, place, landed, failures>>
  BY DEF LimiterTypeOK
<1>2. \A r \in Arrivals \ late' : asks[r] # k
  BY <1>1
<1>3. LimiterTypeOK'
  <2>1. \A r \in Arrivals : asks[r] # NoKey /\ First(place[r]) /\ r \notin landed => asks[r] # k
    BY DEF LimiterTypeOK
  <2> QED BY <1>1, <2>1 DEF LimiterTypeOK
<1>4. IdleIsBlank' /\ FirstInTime' /\ KeysExpire'
  BY <1>1 DEF LimiterTypeOK, IdleIsBlank, FirstInTime, KeysExpire
<1>5. WindowIsLimited'
  BY <1>1, <1>2 DEF LimiterTypeOK, WindowIsLimited
<1>6. PlacesAreCounted'
  BY <1>1, <1>2 DEF LimiterTypeOK, PlacesAreCounted
<1> QED BY <1>3, <1>4, <1>5, <1>6

\* Every step keeps the places.
LEMMA LimiterNextIInv == LimiterIInv /\ [LimiterNext]_limiterVars => LimiterIInv'
<1> SUFFICES ASSUME LimiterIInv, [LimiterNext]_limiterVars PROVE LimiterIInv'
  OBVIOUS
<1>1. CASE UNCHANGED limiterVars
  BY <1>1 DEF limiterVars, LimiterIInv, LimiterTypeOK, WindowIsLimited, IdleIsBlank, FirstInTime,
    KeysExpire, PlacesAreCounted
<1>2. CASE LimiterNext
  BY <1>2, IncrIInv, ExpireIInv, DecideIInv, LapseIInv, FailureIInv DEF LimiterNext
<1> QED BY <1>1, <1>2

\* An expire finds only a key that is there and has no time to live.
THEOREM LimiterTypeCorrect == LimiterSpec => []LimiterTypeOK
<1>1. LimiterIInv => LimiterTypeOK
  BY DEF LimiterIInv
<1> QED BY <1>1, LimiterInitIInv, LimiterNextIInv, PTL DEF LimiterSpec

\* No window admits more than the limit, nor a place twice, whatever fails or
\* comes late, and whenever.
THEOREM WindowCorrect == LimiterSpec => []WindowIsLimited
<1>1. LimiterIInv => WindowIsLimited
  BY DEF LimiterIInv
<1> QED BY <1>1, LimiterInitIInv, LimiterNextIInv, PTL DEF LimiterSpec

\* A step of a request, of Redis or of a failure is one of a window or none.
LEMMA StepOfWindows == LimiterIInv /\ [LimiterNext]_limiterVars => [Windows!Next]_(Windows!vars)
<1> SUFFICES ASSUME LimiterIInv, [LimiterNext]_limiterVars
             PROVE  (\E k \in Keys : Windows!Open(k) \/ Windows!Time(k) \/ Windows!Admit(k)
                                     \/ Windows!Close(k))
                    \/ UNCHANGED Windows!vars
  BY DEF Windows!Next
<1> USE DEF LimiterIInv, LimiterTypeOK, Windows!vars
<1> DEFINE Opened == {k \in Keys : count[k] > 0}
<1>1. ASSUME NEW r \in Arrivals, NEW k \in Keys, Incr(r, k)
      PROVE  Windows!Open(k) \/ UNCHANGED Windows!vars
  <2>1. count' = [count EXCEPT ![k] = @ + 1] /\ UNCHANGED <<expires, admitted>>
    BY <1>1 DEF Incr
  <2>2. Opened' = Opened \cup {k}
    BY <2>1
  <2> QED BY <2>1, <2>2 DEF Windows!Open
<1>2. ASSUME NEW r \in Arrivals, ExpireLands(r)
      PROVE  \E k \in Keys : Windows!Time(k)
  <2>1. PICK k \in Keys : k = asks[r]
    BY <1>2 DEF ExpireLands
  <2>2. k \in Opened /\ k \notin expires /\ expires' = expires \cup {k} /\ UNCHANGED <<count, admitted>>
    BY <1>2, <2>1 DEF ExpireLands
  <2> QED BY <2>2 DEF Windows!Time
<1>3. ASSUME NEW r \in Arrivals, Decide(r)
      PROVE  (\E k \in Keys : Windows!Admit(k)) \/ UNCHANGED Windows!vars
  <2>1. UNCHANGED <<count, expires>>
    BY <1>3 DEF Decide
  <2>2. CASE Exceeds(place[r]) \/ r \in late
    BY <1>3, <2>1, <2>2 DEF Decide
  <2>3. CASE ~(Exceeds(place[r]) \/ r \in late)
    <3>1. PICK k \in Keys : k = asks[r]
      BY <1>3 DEF Decide
    <3>2. admitted' = [admitted EXCEPT ![k] = @ \cup {place[r]}]
      BY <1>3, <2>3, <3>1 DEF Decide
    <3>3. place[r] \in 1..Limit /\ place[r] <= count[k]
      BY <2>3, <3>1 DEF Exceeds, IdleIsBlank, PlacesAreCounted
    <3>4. k \in Opened /\ place[r] \in 1..Limit \ admitted[k]
      BY <2>3, <3>1, <3>3 DEF WindowIsLimited
    <3> QED BY <2>1, <3>2, <3>4 DEF Windows!Admit
  <2> QED BY <2>2, <2>3
<1>4. ASSUME NEW k \in Keys, Lapse(k)
      PROVE  Windows!Close(k)
  <2>1. count' = [count EXCEPT ![k] = 0] /\ k \in expires
    BY <1>4 DEF Lapse
  <2>2. Opened' = Opened \ {k}
    BY <2>1
  <2> QED BY <1>4, <2>1, <2>2 DEF Lapse, Windows!Close
<1>5. CASE Crash \/ \E r \in Arrivals : RequestFails(r)
  BY <1>5 DEF Crash, RequestFails
<1>6. CASE UNCHANGED limiterVars
  BY <1>6 DEF limiterVars
<1> QED
  BY <1>1, <1>2, <1>3, <1>4, <1>5, <1>6 DEF LimiterNext

\* The counters in Redis implement AdmissionWindow, because no key lapses before
\* the expire of its first request has been executed, and each request keeps a
\* place of its own until then and after.
THEOREM Implements == LimiterSpec => CountersAreWindows
<1>1. LimiterInit => Windows!Init
  BY DEF LimiterInit, Windows!Init
<1> QED
  BY <1>1, LimiterInitIInv, LimiterNextIInv, StepOfWindows, PTL DEF LimiterSpec, CountersAreWindows, Windows!Spec
=============================================================================
