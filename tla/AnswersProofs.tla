---------------------------- MODULE AnswersProofs ----------------------------
(***************************************************************************)
(* Proofs about VectorStores and Answers, for any number of calls, agents, *)
(* users, chunks and products, any batches, attempts and pages: that what  *)
(* was stored is there in full and found, that what was cleared is gone,   *)
(* and that an answer is given from rows that were in the table, and from  *)
(* all of them when all were asked for.                                    *)
(*                                                                         *)
(* StoresInv is inductive for the stores alone.  A step of Answers is one  *)
(* of the stores or leaves them be (StoresAreStores), so AnswersInv only   *)
(* adds what the question has read of them and of the table.               *)
(***************************************************************************)
EXTENDS Answers, FiniteSetTheorems, TLAPS

-----------------------------------------------------------------------------
(* The inductive invariant of the stores                                   *)

\* A call at work has something left to write.
CallsFit == \A c \in Calls : Storing(c) => call[c].pos <= Len(call[c].kind)

\* A point is what the call that wrote it makes of its item.
RowsFit ==
  \A r \in rows :
    /\ call[r.by].state # "new"
    /\ r.kind = call[r.by].kind /\ r.agent = call[r.by].agent
    /\ r.id = PointId(r.by, r.item) /\ r.item <= Len(r.kind)

\* Nothing is about to be stored for what was cleared.
ClearedAtRest ==
  \A k \in cleared : \A c \in Calls :
    Storing(c) => ~(call[c].agent = k[1] /\ call[c].kind = k[2])

\* In Qdrant a product has one point for all agents, so no other call may be
\* writing products beside one whose points are to be whole.
NoRival ==
  \A c \in whole : backend = "qdrant" /\ call[c].kind = "product" =>
    \A d \in Calls \ {c} : Storing(d) => call[d].kind # "product"

\* What a call has stored is a beginning of what it has to store: up to the
\* batch it is at, or with it, if its answer was lost.
StoredTo(c, k) ==
  \A i \in Positions : (\E r \in rows : r.by = c /\ r.item = i) <=> i <= k
Beginning(c) ==
  /\ call[c].state # "new"
  /\ Storing(c) => StoredTo(c, call[c].pos - 1) \/ StoredTo(c, BatchEnd(c))
  /\ call[c].state = "stored" => StoredTo(c, Len(call[c].kind))
  /\ call[c].state = "failed" => \E k \in 0..Len(call[c].kind) : StoredTo(c, k)
Beginnings == \A c \in whole : Beginning(c)

StoresInv ==
  /\ TypeOK /\ CallsFit /\ RowsFit /\ ClearedAtRest /\ ClearedIsGone
  /\ NoRival /\ Beginnings

-----------------------------------------------------------------------------
(* The inductive invariant of the questions                                *)

\* Only an order has told the LLM of an order, and only a product question has
\* looked for products.
Told ==
  /\ question.at \in {"retrieve", "product", "rows", "orders"} => ~question.state.order
  /\ question.at = "orders" => question.intent = "ORDER"
  /\ question.at \in {"product", "rows"} => question.intent = "PRODUCT"
  /\ question.at \in {"humanHandle", "generate"} =>
       (question.state.order <=> question.intent = "ORDER")
  /\ question.at = "classify" => ~question.state.order /\ question.ids = {}

\* What is in the table, and what was read of it, has been there.
ReadRecently ==
  InProgress => RowsNow \subseteq recent /\ question.state.products \subseteq recent

\* What is on offer all the time was found, and then looked up.
Covers(products) == \A i \in offered : \E p \in products : p[1] = i
FoundAll ==
  /\ offered \subseteq OnOffer(question.of)
  /\ question.all /\ (backend = "qdrant" => NumProducts <= ScrollLimit) =>
       /\ question.at \in {"rows", "generate", "answered", "failed"}
       /\ question.at = "rows" => offered \subseteq question.ids
       /\ question.at = "generate" => Covers(question.state.products)

AnswersInv ==
  /\ StoresInv
  /\ AnswersTypeOK /\ Told
  /\ ReadRecently /\ ShownWasTrue
  /\ FoundAll /\ AllMeansAll

-----------------------------------------------------------------------------
(* Batches and points                                                      *)

\* Min and Max choose from a set: here is what they choose from two.
LEMMA MinOfTwo ==
  ASSUME NEW a \in Int, NEW b \in Int
  PROVE  Min({a, b}) = IF a <= b THEN a ELSE b
<1> DEFINE m == IF a <= b THEN a ELSE b
<1>1. m \in {a, b} /\ \A y \in {a, b} : m <= y
  OBVIOUS
<1>2. \A x \in {a, b} : (\A y \in {a, b} : x <= y) => x = m
  OBVIOUS
<1> QED BY <1>1, <1>2 DEF Min

\* The same of Max.
LEMMA MaxOfTwo ==
  ASSUME NEW a \in Int, NEW b \in Int
  PROVE  Max({a, b}) \in {a, b} /\ a <= Max({a, b}) /\ b <= Max({a, b})
<1> DEFINE m == IF a <= b THEN b ELSE a
<1>1. m \in {a, b} /\ \A y \in {a, b} : m >= y
  OBVIOUS
<1>2. \A x \in {a, b} : (\A y \in {a, b} : x >= y) => x = m
  OBVIOUS
<1> QED BY <1>1, <1>2 DEF Max

\* The sizes of documents and lists.
LEMMA Sizes ==
  /\ {FileLen, NumProducts, ChunkSize, RETRY, ScrollLimit} \subseteq Nat
  /\ FileLen > 0 /\ NumProducts > 0 /\ ChunkSize > 0 /\ RETRY > 0 /\ ScrollLimit > 0
  /\ \A kind \in Kinds : Len(kind) \in Positions /\ Len(kind) <= Max({FileLen, NumProducts})
  /\ Max({FileLen, NumProducts}) \in Nat
  /\ Positions \subseteq Nat
<1>1. /\ {FileLen, NumProducts, ChunkSize, RETRY, ScrollLimit} \subseteq Nat
      /\ FileLen > 0 /\ NumProducts > 0 /\ ChunkSize > 0 /\ RETRY > 0 /\ ScrollLimit > 0
  BY StoresAssumption
<1> QED BY <1>1, MaxOfTwo DEF Kinds, Len, Positions

\* A batch begins where the call is, and ends within what it has to store.
LEMMA BatchBounds ==
  ASSUME TypeOK, CallsFit, NEW c \in Calls, Storing(c)
  PROVE  /\ call[c].kind \in Kinds /\ call[c].agent \in Agents
         /\ call[c].pos \in Positions
         /\ BatchEnd(c) \in Positions
         /\ call[c].pos <= BatchEnd(c) /\ BatchEnd(c) <= Len(call[c].kind)
<1>1. /\ call[c].kind \in Kinds /\ call[c].agent \in Agents
      /\ call[c].pos \in Nat /\ call[c].pos >= 1 /\ call[c].pos <= Len(call[c].kind)
      /\ backend \in Backends
  <2>1. call[c] \in Call /\ call[c].pos <= Len(call[c].kind) /\ backend \in Backends
    BY DEF TypeOK, CallsFit
  <2>2. call[c].pos \in 1..Max({FileLen, NumProducts}) + 1
    BY <2>1 DEF Call
  <2>3. call[c].kind \in Kinds /\ call[c].agent \in Agents
    BY <2>1 DEF Call
  <2> QED BY <2>1, <2>2, <2>3, Sizes
<1>2. call[c].pos \in Positions /\ Len(call[c].kind) \in Positions
  BY <1>1, Sizes DEF Positions
<1>3. call[c].pos <= BatchEnd(c) /\ BatchEnd(c) <= Len(call[c].kind) /\ BatchEnd(c) \in Int
  <2>1. CASE backend = "qdrant" /\ call[c].kind = "file"
    <3>1. BatchEnd(c) = Min({call[c].pos + ChunkSize - 1, FileLen})
      BY <2>1 DEF BatchEnd, QdrantBatch
    <3>2. /\ call[c].pos + ChunkSize - 1 \in Int /\ FileLen \in Int
          /\ call[c].pos + ChunkSize - 1 >= call[c].pos /\ Len(call[c].kind) = FileLen
      BY <1>1, <2>1, Sizes DEF Len
    <3> QED BY <1>1, <3>1, <3>2, MinOfTwo
  <2>2. CASE backend = "qdrant" /\ call[c].kind # "file"
    BY <1>1, <1>2, <2>2, Sizes DEF BatchEnd, QdrantBatch
  <2>3. CASE backend # "qdrant"
    BY <1>1, <1>2, <2>3, Sizes DEF BatchEnd, PostgreBatch, SupabaseBatch, Backends
  <2> QED BY <2>1, <2>2, <2>3
<1> QED BY <1>1, <1>2, <1>3, Sizes DEF Positions

\* The points of a batch, one for each item of it.
PointOf(c, i) == [kind |-> call[c].kind, id |-> PointId(c, i), agent |-> call[c].agent,
                  item |-> i, by |-> c]
\* ... and nothing but that.
LEMMA PointsOfBatch ==
  ASSUME TypeOK, CallsFit, NEW c \in Calls, Storing(c)
  PROVE  /\ Points(c) = {PointOf(c, i) : i \in call[c].pos..BatchEnd(c)}
         /\ Points(c) \subseteq Row
         /\ \A p \in Points(c) :
              /\ p.kind = call[c].kind /\ p.agent = call[c].agent /\ p.by = c
              /\ p.id = PointId(c, p.item) /\ p.item \in Positions
              /\ call[c].pos <= p.item /\ p.item <= BatchEnd(c)
         /\ \A i \in Positions : call[c].pos <= i /\ i <= BatchEnd(c) =>
              \E p \in Points(c) : p.item = i
<1>1. Points(c) = {PointOf(c, i) : i \in call[c].pos..BatchEnd(c)}
  BY DEF Points, PointOf
<1>2. ASSUME NEW i \in call[c].pos..BatchEnd(c) PROVE i \in Positions
  BY BatchBounds, Sizes DEF Positions
<1>3. ASSUME NEW i \in Positions PROVE PointId(c, i) \in Id
  <2>1. 0 \in 0..RETRY
    BY Sizes
  <2> QED BY <2>1 DEF PointId, Id
<1>4. ASSUME NEW i \in Positions PROVE PointOf(c, i) \in Row
  <2>1. call[c].kind \in Kinds /\ call[c].agent \in Agents /\ PointId(c, i) \in Id
    BY <1>3, BatchBounds
  <2> HIDE DEF Kinds, Id, Positions
  <2> QED BY <2>1 DEF PointOf, Row
<1>5. ASSUME NEW i \in Positions
      PROVE  /\ PointOf(c, i).kind = call[c].kind /\ PointOf(c, i).agent = call[c].agent
             /\ PointOf(c, i).id = PointId(c, i) /\ PointOf(c, i).item = i
             /\ PointOf(c, i).by = c
  BY DEF PointOf
<1>6. \A i \in Positions : call[c].pos <= i /\ i <= BatchEnd(c) => i \in call[c].pos..BatchEnd(c)
  BY BatchBounds, Sizes
<1>7. \A i \in call[c].pos..BatchEnd(c) : call[c].pos <= i /\ i <= BatchEnd(c)
  OBVIOUS
<1> QED BY <1>1, <1>2, <1>4, <1>5, <1>6, <1>7

\* A point is told by its fields.
LEMMA RowsByFields ==
  ASSUME NEW r \in Row, NEW s \in Row, r.kind = s.kind, r.id = s.id, r.agent = s.agent,
         r.item = s.item, r.by = s.by
  PROVE  r = s
  BY DEF Row

\* Ids of different items are different.
LEMMA IdsDiffer ==
  ASSUME NEW c \in Calls, NEW d \in Calls, NEW i, NEW j, PointId(c, i) = PointId(d, j),
         call[c].kind = call[d].kind
  PROVE  /\ i = j
         /\ c = d \/ (backend = "qdrant" /\ call[c].kind = "product")
  BY DEF PointId
-----------------------------------------------------------------------------
(* A call that writes a batch, or fails to                                 *)

\* What lands replaces nothing but itself, unless a product of a call that is
\* no longer whole.
LEMMA LandStep ==
  ASSUME StoresInv, NEW c \in Calls, Storing(c), Land(c)
  PROVE  /\ rows' \subseteq Row
         /\ \A r, s \in rows' : r.kind = s.kind /\ r.id = s.id => r = s
         /\ \A r \in rows' : r \in rows \/ r \in Points(c)
         /\ Points(c) \subseteq rows'
         /\ \A r \in rows : r.by = c => r \in rows'
         /\ \A r \in rows : r.by \in whole => r \in rows'
<1>1. rows' = {r \in rows : \A p \in Points(c) : r.id # p.id \/ r.kind # p.kind} \cup Points(c)
  BY DEF Land
<1>2. /\ rows \subseteq Row /\ TypeOK /\ CallsFit /\ RowsFit /\ NoRival
      /\ \A r, s \in rows : r.kind = s.kind /\ r.id = s.id => r = s
  BY DEF StoresInv, TypeOK
<1>3. /\ Points(c) \subseteq Row
      /\ \A p \in Points(c) :
           /\ p.kind = call[c].kind /\ p.agent = call[c].agent /\ p.by = c
           /\ p.id = PointId(c, p.item)
  BY <1>2, PointsOfBatch
<1>4. \A p, q \in Points(c) : p.id = q.id => p = q
  <2> SUFFICES ASSUME NEW p \in Points(c), NEW q \in Points(c), p.id = q.id PROVE p = q
    OBVIOUS
  <2>1. p.item = q.item
    BY <1>3, IdsDiffer
  <2> QED BY <1>3, <2>1, RowsByFields
<1>5. ASSUME NEW r \in rows, NEW p \in Points(c), r.id = p.id, r.kind = p.kind
      PROVE  r.by = c => r = p
  <2>1. r \in Row /\ r.kind = call[r.by].kind /\ r.agent = call[r.by].agent
        /\ r.id = PointId(r.by, r.item)
    BY <1>2 DEF RowsFit
  <2>a. PointId(r.by, r.item) = PointId(c, p.item)
    BY <1>3, <1>5, <2>1
  <2>2. r.by = c => r.item = p.item
    BY <2>a, IdsDiffer
  <2> QED BY <1>3, <1>5, <2>1, <2>2, RowsByFields
<1>6. ASSUME NEW r \in rows, NEW p \in Points(c), r.id = p.id, r.kind = p.kind, r.by # c
      PROVE  r.by \notin whole
  <2>1. r \in Row /\ r.kind = call[r.by].kind /\ r.id = PointId(r.by, r.item)
    BY <1>2 DEF RowsFit
  <2>2. r.by \in Calls
    BY <2>1 DEF Row
  <2>a. PointId(r.by, r.item) = PointId(c, p.item) /\ call[r.by].kind = call[c].kind
    BY <1>3, <1>6, <2>1
  <2>3. backend = "qdrant" /\ call[c].kind = "product"
    BY <1>6, <2>a, <2>2, IdsDiffer
  <2> QED BY <1>2, <1>3, <1>6, <2>1, <2>2, <2>3 DEF NoRival
<1>7. \A r \in rows : r.by = c \/ r.by \in whole => r \in rows'
  BY <1>1, <1>5, <1>6
<1>8. \A r, s \in rows' : r.kind = s.kind /\ r.id = s.id => r = s
  BY <1>1, <1>2, <1>4
<1> QED BY <1>1, <1>2, <1>3, <1>7, <1>8

\* Ids and batches are those of the call as it was begun.
LEMMA SameCall ==
  ASSUME NEW c \in Calls, backend' = backend, call'[c].kind = call[c].kind
  PROVE  /\ \A i : PointId(c, i)' = PointId(c, i)
         /\ call'[c].pos = call[c].pos => BatchEnd(c)' = BatchEnd(c)
<1>1. \A i : PointId(c, i)' = PointId(c, i)
  BY DEF PointId
<1>2. call'[c].pos = call[c].pos => BatchEnd(c)' = BatchEnd(c)
  <2>1. call'[c].pos = call[c].pos =>
        /\ PostgreBatch(c)' = PostgreBatch(c) /\ SupabaseBatch(c)' = SupabaseBatch(c)
        /\ QdrantBatch(c)' = QdrantBatch(c)
    BY DEF PostgreBatch, SupabaseBatch, QdrantBatch, Len
  <2> QED BY <2>1, Zenon DEF BatchEnd
<1> QED BY <1>1, <1>2

\* A call at work goes on, ends or fails.
Proceeds(c, x) ==
  /\ Land(c) \/ UNCHANGED rows
  /\ call' = [call EXCEPT ![c] = x]
  /\ x \in Call /\ x.kind = call[c].kind /\ x.agent = call[c].agent /\ x.state # "new"
  /\ x.state = "storing" => x.pos <= Len(x.kind)
  /\ UNCHANGED <<backend, whole, cleared>>

\* It takes nothing from the points of other calls, and stores only for
\* collections that nobody has cleared meanwhile.
LEMMA ProceedsKeeps ==
  ASSUME StoresInv, NEW c \in Calls, Storing(c), NEW x, Proceeds(c, x)
  PROVE  /\ TypeOK' /\ CallsFit' /\ RowsFit' /\ ClearedAtRest' /\ ClearedIsGone' /\ NoRival'
         /\ \A d \in whole \ {c} : Beginning(d)'
<1>1. /\ call' \in [Calls -> Call] /\ call'[c] = x
      /\ \A d \in Calls \ {c} : call'[d] = call[d]
      /\ \A d \in Calls : call'[d].kind = call[d].kind /\ call'[d].agent = call[d].agent
      /\ UNCHANGED <<backend, whole, cleared>>
  BY DEF StoresInv, TypeOK, Proceeds
<1>2. \A d \in Calls : Storing(d)' => Storing(d)
  BY <1>1 DEF Storing
<1>3. \A d \in Calls, i \in Positions : PointId(d, i)' = PointId(d, i)
  BY <1>1, SameCall
<1>4. /\ rows' \subseteq Row /\ (\A r, s \in rows' : r.kind = s.kind /\ r.id = s.id => r = s)
      /\ \A r \in rows' : r \in rows \/ r \in Points(c)
      /\ \A r \in rows : r.by \in whole => r \in rows'
  BY LandStep DEF Proceeds, StoresInv, TypeOK
<1>5. TypeOK'
  BY <1>1, <1>4 DEF StoresInv, TypeOK
<1>6. CallsFit'
  BY <1>1 DEF StoresInv, CallsFit, Proceeds, Storing
<1>7. \A p \in Points(c) :
        /\ p.kind = call[c].kind /\ p.agent = call[c].agent /\ p.by = c
        /\ p.id = PointId(c, p.item) /\ p.item \in Positions /\ p.item <= Len(p.kind)
  <2> SUFFICES ASSUME NEW p \in Points(c)
               PROVE  /\ p.kind = call[c].kind /\ p.agent = call[c].agent /\ p.by = c
                      /\ p.id = PointId(c, p.item) /\ p.item \in Positions
                      /\ p.item <= Len(p.kind)
    OBVIOUS
  <2>1. /\ p.kind = call[c].kind /\ p.agent = call[c].agent /\ p.by = c
        /\ p.id = PointId(c, p.item) /\ p.item \in Positions /\ p.item <= BatchEnd(c)
    BY PointsOfBatch DEF StoresInv
  <2>2. BatchEnd(c) <= Len(call[c].kind) /\ BatchEnd(c) \in Positions /\ call[c].kind \in Kinds
    BY BatchBounds DEF StoresInv
  <2>3. Len(call[c].kind) \in Nat /\ BatchEnd(c) \in Nat /\ p.item \in Nat
    BY <2>1, <2>2, Sizes
  <2>4. p.item <= Len(call[c].kind)
    BY <2>1, <2>2, <2>3
  <2>5. p.item <= Len(p.kind)
    BY <2>1, <2>4, Zenon
  <2> QED BY <2>1, <2>5
<1>8. RowsFit'
  <2> SUFFICES ASSUME NEW r \in rows'
               PROVE  /\ call'[r.by].state # "new"
                      /\ r.kind = call'[r.by].kind /\ r.agent = call'[r.by].agent
                      /\ r.id = PointId(r.by, r.item)' /\ r.item <= Len(r.kind)
    BY DEF RowsFit, Len
  <2>1. r.by \in Calls /\ r.item \in Positions
    BY <1>4 DEF Row
  <2>2. /\ r.kind = call[r.by].kind /\ r.agent = call[r.by].agent
        /\ r.id = PointId(r.by, r.item) /\ r.item <= Len(r.kind)
        /\ r.by = c \/ call[r.by].state # "new"
    BY <1>4, <1>7 DEF StoresInv, RowsFit
  <2>3. call'[r.by].state # "new"
    BY <1>1, <2>1, <2>2 DEF Proceeds
  <2> QED BY <1>1, <1>3, <2>1, <2>2, <2>3
<1>9. ClearedAtRest'
  BY <1>1, <1>2 DEF StoresInv, ClearedAtRest
<1>10. ClearedIsGone'
  <2> SUFFICES ASSUME NEW k \in cleared, ~(backend = "qdrant" /\ k[2] = "file"), NEW r \in rows',
                      r.agent = k[1], r.kind = k[2]
               PROVE  FALSE
    BY <1>1 DEF ClearedIsGone
  <2>1. r \notin rows
    BY DEF StoresInv, ClearedIsGone
  <2>2. r.kind = call[c].kind /\ r.agent = call[c].agent
    BY <1>4, <1>7, <2>1
  <2> QED BY <2>2 DEF StoresInv, ClearedAtRest
<1>11. NoRival'
  <2>1. whole \subseteq Calls
    BY DEF StoresInv, TypeOK
  <2> QED BY <1>1, <1>2, <2>1 DEF StoresInv, NoRival
<1>12. ASSUME NEW d \in whole \ {c} PROVE Beginning(d)'
  <2>1. d \in Calls /\ call'[d] = call[d] /\ (Storing(d)' <=> Storing(d)) /\ Beginning(d)
    BY <1>1 DEF StoresInv, TypeOK, Beginnings, Storing
  <2>2. BatchEnd(d)' = BatchEnd(d)
    BY <1>1, <2>1, SameCall
  <2>3. \A i : (\E r \in rows' : r.by = d /\ r.item = i) <=> (\E r \in rows : r.by = d /\ r.item = i)
    <3>1. \A r : r.by = d => (r \in rows' <=> r \in rows)
      BY <1>4, <1>7
    <3> QED BY <3>1
  <2>4. \A k : StoredTo(d, k)' <=> StoredTo(d, k)
    BY <2>3 DEF StoredTo
  <2>5. call'[d].state # "new"
    BY <2>1 DEF Beginning
  <2>6. Storing(d)' => StoredTo(d, call[d].pos - 1)' \/ StoredTo(d, BatchEnd(d))'
    BY <2>1, <2>2, <2>4 DEF Beginning
  <2>7. /\ call'[d].state = "stored" => StoredTo(d, Len(call[d].kind))'
        /\ call'[d].state = "failed" => \E k \in 0..Len(call[d].kind) : StoredTo(d, k)'
    BY <2>1, <2>4 DEF Beginning
  <2> QED BY <2>1, <2>5, <2>6, <2>7 DEF Beginning
<1> QED BY <1>5, <1>6, <1>8, <1>9, <1>10, <1>11, <1>12

\* What has landed goes to the end of the batch.
LEMMA LandedToEnd ==
  ASSUME StoresInv, NEW c \in Calls, Storing(c), Land(c), NEW e, e = BatchEnd(c),
         StoredTo(c, call[c].pos - 1) \/ StoredTo(c, e)
  PROVE  StoredTo(c, e)'
<1>1. call[c].pos \in Nat /\ e \in Nat /\ call[c].pos <= e /\ Positions \subseteq Nat
  BY BatchBounds, Sizes DEF StoresInv
<1>2. /\ \A r \in rows' : r \in rows \/ r \in Points(c)
      /\ Points(c) \subseteq rows' /\ \A r \in rows : r.by = c => r \in rows'
  BY LandStep
<1>3. /\ \A p \in Points(c) : p.by = c /\ p.item <= e
      /\ \A i \in Positions : call[c].pos <= i /\ i <= e => \E p \in Points(c) : p.item = i
  BY PointsOfBatch DEF StoresInv
<1> SUFFICES ASSUME NEW i \in Positions
             PROVE  (\E r \in rows' : r.by = c /\ r.item = i) <=> i <= e
  BY DEF StoredTo, Positions
<1>4. i \in Nat
  BY <1>1
<1>5. /\ (\E r \in rows : r.by = c /\ r.item = i) => i <= e
      /\ i <= call[c].pos - 1 => \E r \in rows : r.by = c /\ r.item = i
  BY <1>1, <1>4 DEF StoredTo
<1>6. ASSUME NEW r \in rows', r.by = c, r.item = i PROVE i <= e
  BY <1>2, <1>3, <1>5, <1>6
<1>7. ASSUME i <= e PROVE \E r \in rows' : r.by = c /\ r.item = i
  BY <1>1, <1>2, <1>3, <1>4, <1>5, <1>7
<1> QED BY <1>6, <1>7

\* What has not landed leaves the call where it was.
LEMMA StoredStays ==
  ASSUME UNCHANGED rows, NEW c, NEW k
  PROVE  StoredTo(c, k)' <=> StoredTo(c, k)
  BY DEF StoredTo, Positions

\* What is left of a call when it fails, ...
LEMMA CallFails ==
  ASSUME NEW y \in Call, NEW x, x = [y EXCEPT !.state = "failed"]
  PROVE  x \in Call /\ x.kind = y.kind /\ x.agent = y.agent /\ x.state = "failed"
  BY DEF Call, States
\* ... when it is to be tried again.
LEMMA CallRetries ==
  ASSUME NEW y \in Call, y.attempt + 1 \in 0..RETRY, NEW x, x = [y EXCEPT !.attempt = @ + 1]
  PROVE  /\ x \in Call /\ x.kind = y.kind /\ x.agent = y.agent
         /\ x.pos = y.pos /\ x.state = y.state
  BY DEF Call

\* A call that proceeds has stored a beginning.
LEMMA ProceedsStores ==
  ASSUME StoresInv, NEW c \in Calls, Storing(c), NEW x, Proceeds(c, x),
         \/ x.state = "failed"
         \/ x.state = "storing" /\ x.pos = call[c].pos
         \/ /\ Land(c) /\ x.pos = BatchEnd(c) + 1
            /\ x.state = IF BatchEnd(c) = Len(call[c].kind) THEN "stored" ELSE "storing"
  PROVE  StoresInv'
<1>1. /\ TypeOK' /\ CallsFit' /\ RowsFit' /\ ClearedAtRest' /\ ClearedIsGone' /\ NoRival'
      /\ \A d \in whole \ {c} : Beginning(d)'
  BY ProceedsKeeps
<1>2. call'[c] = x /\ whole' = whole /\ backend' = backend
  BY DEF StoresInv, TypeOK, Proceeds
<1>3. x.kind = call[c].kind /\ x.state # "new"
  BY DEF Proceeds
<1>4. PICK e \in Nat : e = BatchEnd(c)
  BY BatchBounds, Sizes DEF StoresInv
<1>5. PICK k \in Nat : k = call[c].pos - 1
  <2>1. call[c].pos \in Nat /\ call[c].pos >= 1
    BY BatchBounds DEF StoresInv, Positions
  <2> QED BY <2>1
<1>6. PICK n \in Nat : n = Len(call[c].kind)
  BY BatchBounds, Sizes DEF StoresInv
<1>7. k <= n /\ e <= n
  <2>1. call[c].pos <= e /\ e <= n /\ call[c].pos \in Nat
    BY <1>4, <1>6, BatchBounds, Sizes DEF StoresInv
  <2> QED BY <1>5, <2>1
<1>8. ASSUME c \in whole PROVE Beginning(c)'
  <2>1. StoredTo(c, k) \/ StoredTo(c, e)
    BY <1>4, <1>5, <1>8 DEF StoresInv, Beginnings, Beginning
  <2>2. Land(c) => StoredTo(c, e)'
    BY <1>4, <1>5, <2>1, LandedToEnd
  <2>3. UNCHANGED rows => StoredTo(c, k)' \/ StoredTo(c, e)'
    BY <2>1, StoredStays
  <2>4. StoredTo(c, k)' \/ StoredTo(c, e)'
    BY <2>2, <2>3 DEF Proceeds
  <2>5. Len(call'[c].kind) = n
    BY <1>2, <1>3, <1>6
  <2>6. CASE x.state = "failed"
    <3>1. \E m \in 0..n : StoredTo(c, m)'
      BY <1>7, <2>4
    <3> QED BY <1>2, <2>5, <2>6, <3>1 DEF Beginning, Storing, Len
  <2>7. CASE x.state = "storing" /\ x.pos = call[c].pos
    <3>1. call'[c].pos - 1 = k /\ BatchEnd(c)' = e
      BY <1>2, <1>3, <1>4, <1>5, <2>7, SameCall
    <3> QED BY <1>2, <2>4, <2>7, <3>1 DEF Beginning, Storing
  <2>8. CASE /\ Land(c) /\ x.pos = BatchEnd(c) + 1
             /\ x.state = IF BatchEnd(c) = Len(call[c].kind) THEN "stored" ELSE "storing"
    <3>1. x.pos - 1 = e
      BY <1>4, <2>8
    <3>2. x.state = "stored" => e = n
      BY <1>4, <1>6, <2>8
    <3>3. x.state \in {"stored", "storing"}
      BY <2>8
    <3>4. StoredTo(c, e)'
      BY <2>2, <2>8
    <3>5. call'[c].pos - 1 = e
      BY <1>2, <3>1
    <3> QED BY <1>2, <2>5, <3>2, <3>3, <3>4, <3>5 DEF Beginning, Storing, Len
  <2> QED BY <2>6, <2>7, <2>8
<1>9. Beginnings'
  BY <1>1, <1>2, <1>8 DEF Beginnings
<1> QED BY <1>1, <1>9 DEF StoresInv

\* A batch that is answered: the call is past it, or at its end.
LEMMA WriteKeeps ==
  ASSUME StoresInv, NEW c \in Calls, Write(c)
  PROVE  StoresInv'
<1>1. Storing(c) /\ Land(c) /\ call' = [call EXCEPT ![c] = GoesOn(c)]
  BY DEF Write
<1>2. call[c] \in Call /\ call[c].state = "storing"
  BY <1>1 DEF StoresInv, TypeOK, Storing
<1>3. /\ BatchEnd(c) + 1 \in 1..Max({FileLen, NumProducts}) + 1 /\ BatchEnd(c) \in Nat
      /\ Len(call[c].kind) \in Nat /\ BatchEnd(c) <= Len(call[c].kind)
  <2>1. /\ BatchEnd(c) \in Nat /\ Len(call[c].kind) \in Nat
        /\ BatchEnd(c) <= Len(call[c].kind)
        /\ Len(call[c].kind) <= Max({FileLen, NumProducts})
        /\ Max({FileLen, NumProducts}) \in Nat
    BY <1>1, BatchBounds, Sizes DEF StoresInv
  <2> QED BY <2>1
<1> DEFINE s == IF BatchEnd(c) = Len(call[c].kind) THEN "stored" ELSE "storing"
<1>4. GoesOn(c) = [call[c] EXCEPT !.pos = BatchEnd(c) + 1, !.attempt = 0, !.state = s]
  BY <1>2 DEF GoesOn
<1>5. s \in States /\ 0 \in 0..RETRY
  BY Sizes DEF States
<1>6. /\ GoesOn(c) \in Call /\ GoesOn(c).kind = call[c].kind /\ GoesOn(c).agent = call[c].agent
      /\ GoesOn(c).pos = BatchEnd(c) + 1 /\ GoesOn(c).state = s
  <2>1. PICK pos \in 1..Max({FileLen, NumProducts}) + 1 : pos = BatchEnd(c) + 1
    BY <1>3
  <2>2. PICK state \in States : state = s
    BY <1>5
  <2>3. PICK x : x = GoesOn(c)
    OBVIOUS
  <2>a. PICK attempt \in 0..RETRY : attempt = 0
    BY <1>5
  <2>b. PICK y \in Call : y = call[c]
    BY <1>2
  <2>4. x = [y EXCEPT !.pos = pos, !.attempt = attempt, !.state = state]
    BY <1>4, <2>1, <2>2, <2>3, <2>a, <2>b
  <2>5. /\ x \in Call /\ x.kind = call[c].kind /\ x.agent = call[c].agent
        /\ x.pos = pos /\ x.state = state
    BY <2>b, <2>4 DEF Call
  <2> QED BY <2>1, <2>2, <2>3, <2>5
<1>7. s = "storing" => BatchEnd(c) + 1 <= Len(call[c].kind)
  BY <1>3
<1>8. Proceeds(c, GoesOn(c))
  BY <1>1, <1>6, <1>7 DEF Proceeds, Write
<1> QED BY <1>1, <1>6, <1>8, ProceedsStores

\* One that is not, whether or not it landed, leaves the call where it was.
LEMMA UnansweredKeeps ==
  ASSUME StoresInv, NEW c \in Calls, Unanswered(c) \/ Refused(c)
  PROVE  StoresInv'
<1>1. Storing(c) /\ (Land(c) \/ UNCHANGED rows) /\ UNCHANGED <<backend, whole, cleared>>
  BY DEF Unanswered, Refused
<1>2. call[c] \in Call /\ call[c].state = "storing" /\ call[c].pos <= Len(call[c].kind)
  BY <1>1 DEF StoresInv, TypeOK, Storing, CallsFit
<1>3. CASE call' = [call EXCEPT ![c].state = "failed"]
  <2>1. PICK x : x = [call[c] EXCEPT !.state = "failed"]
    OBVIOUS
  <2>2. x \in Call /\ x.kind = call[c].kind /\ x.agent = call[c].agent /\ x.state = "failed"
    BY <1>2, <2>1, CallFails
  <2>3. call' = [call EXCEPT ![c] = x]
    BY <1>3, <2>1, Zenon
  <2>4. Proceeds(c, x)
    BY <1>1, <2>2, <2>3 DEF Proceeds
  <2> QED BY <1>1, <2>2, <2>4, ProceedsStores
<1>4. CASE Retries(c) /\ call' = [call EXCEPT ![c].attempt = @ + 1]
  <2>1. PICK x : x = [call[c] EXCEPT !.attempt = @ + 1]
    OBVIOUS
  <2>2. call[c].attempt + 1 \in 0..RETRY
    BY <1>2, <1>4, Sizes DEF Retries, Call
  <2>3. /\ x \in Call /\ x.kind = call[c].kind /\ x.agent = call[c].agent
        /\ x.pos = call[c].pos /\ x.state = "storing"
    BY <1>2, <2>1, <2>2, CallRetries
  <2>4. call' = [call EXCEPT ![c] = x]
    BY <1>4, <2>1, Zenon
  <2>5. Proceeds(c, x)
    BY <1>1, <1>2, <2>3, <2>4 DEF Proceeds
  <2> QED BY <1>1, <2>3, <2>5, ProceedsStores
<1> QED BY <1>3, <1>4 DEF Unanswered, Refused

-----------------------------------------------------------------------------
(* Filters                                                                 *)

\* In all three stores a filter by user leaves the points of the user's agents, ...
LEMMA UserFilter ==
  ASSUME NEW r \in Row, NEW u, backend \in Backends
  PROVE  /\ PostgreWhere(PostgreMetadata(r), OfUser(u)) <=> Owner[r.agent] = u
         /\ SupabaseContains(SupabaseMetadata(r), OfUser(u)) <=> Owner[r.agent] = u
         /\ QdrantMust(QdrantMetadata(r), OfUser(u)) <=> Owner[r.agent] = u
         /\ Matches(r, OfUser(u)) <=> Owner[r.agent] = u
<1>1. PostgreWhere(PostgreMetadata(r), OfUser(u)) <=> Owner[r.agent] = u
  BY DEF PostgreWhere, PostgreMetadata, OfUser
<1>2. SupabaseContains(SupabaseMetadata(r), OfUser(u)) <=> Owner[r.agent] = u
  BY DEF SupabaseContains, SupabaseMetadata, OfUser
<1>3. QdrantMust(QdrantMetadata(r), OfUser(u)) <=> Owner[r.agent] = u
  <2>1. CASE r.kind = "file"
    BY <2>1 DEF QdrantMust, SupabaseContains, QdrantMetadata, OfUser
  <2>2. CASE r.kind # "file"
    BY <2>2 DEF QdrantMust, SupabaseContains, QdrantMetadata, OfUser
  <2> QED BY <2>1, <2>2
<1>4. Matches(r, OfUser(u)) <=> Owner[r.agent] = u
  BY <1>1, <1>2, <1>3 DEF Matches, Metadata, Backends
<1> QED BY <1>1, <1>2, <1>3, <1>4

\* ... and one by agent the agent's, but for documents in Qdrant.
LEMMA AgentFilter ==
  ASSUME NEW r \in Row, NEW a, backend \in Backends
  PROVE  /\ Matches(r, OfAgent(a)) => r.agent = a
         /\ r.agent = a /\ ~(backend = "qdrant" /\ r.kind = "file") => Matches(r, OfAgent(a))
<1>1. PostgreWhere(PostgreMetadata(r), OfAgent(a)) <=> r.agent = a
  BY DEF PostgreWhere, PostgreMetadata, OfAgent
<1>2. SupabaseContains(SupabaseMetadata(r), OfAgent(a)) <=> r.agent = a
  BY DEF SupabaseContains, SupabaseMetadata, OfAgent
<1>3. QdrantMust(QdrantMetadata(r), OfAgent(a)) => r.agent = a
  <2>1. CASE r.kind = "file"
    BY <2>1 DEF QdrantMust, SupabaseContains, QdrantMetadata, OfAgent
  <2>2. CASE r.kind # "file"
    BY <2>2 DEF QdrantMust, SupabaseContains, QdrantMetadata, OfAgent
  <2> QED BY <2>1, <2>2
<1>4. r.kind # "file" /\ r.agent = a => QdrantMust(QdrantMetadata(r), OfAgent(a))
  BY DEF QdrantMust, SupabaseContains, QdrantMetadata, OfAgent
<1> QED BY <1>1, <1>2, <1>3, <1>4 DEF Matches, Metadata, Backends

-----------------------------------------------------------------------------
(* A call that begins, and what is cleared                                 *)

\* A call that begins has stored nothing, and takes from the whole ones those
\* whose products it may replace.
LEMMA StoreKeeps ==
  ASSUME StoresInv, NEW c \in Calls, NEW kind \in Kinds, NEW a \in Agents,
         StoreVector(c, kind, a)
  PROVE  StoresInv'
<1>1. /\ call[c].state = "new" /\ backend' = backend /\ rows' = rows
      /\ cleared' = cleared \ {<<a, kind>>}
      /\ call' = [call EXCEPT ![c] = [kind |-> kind, agent |-> a, pos |-> 1,
                                      attempt |-> 0, state |-> "storing"]]
  BY DEF StoreVector
<1>2. /\ TypeOK /\ CallsFit /\ RowsFit /\ ClearedAtRest /\ ClearedIsGone
      /\ NoRival /\ Beginnings
  BY DEF StoresInv
<1>3. PICK x : x = [kind |-> kind, agent |-> a, pos |-> 1, attempt |-> 0, state |-> "storing"]
  OBVIOUS
<1>4. x \in Call /\ x.kind = kind /\ x.agent = a /\ x.pos = 1 /\ x.state = "storing"
  <2>1. 1 \in 1..Max({FileLen, NumProducts}) + 1 /\ 0 \in 0..RETRY
    BY Sizes
  <2>2. x.kind = kind /\ x.agent = a /\ x.pos = 1 /\ x.state = "storing"
    BY <1>3
  <2> HIDE DEF Kinds
  <2>3. x \in Call
    BY <1>3, <2>1 DEF Call, States
  <2> QED BY <2>2, <2>3
<1>5. /\ call' \in [Calls -> Call] /\ call'[c] = x
      /\ \A d \in Calls \ {c} : call'[d] = call[d]
  <2>1. call' = [call EXCEPT ![c] = x]
    BY <1>1, <1>3, Zenon
  <2> QED BY <1>2, <1>4, <2>1 DEF TypeOK
<1>6. c \notin whole /\ \A r \in rows : r.by # c
  BY <1>1, <1>2 DEF Beginnings, Beginning, RowsFit
<1>7. \A d \in Calls \ {c} : Storing(d)' <=> Storing(d)
  BY <1>5 DEF Storing
<1>8. /\ whole' \subseteq whole \cup {c}
      /\ backend = "qdrant" /\ kind = "product" =>
           /\ \A d \in whole' \ {c} : call[d].kind # "product"
           /\ c \in whole' => \A d \in Calls : call[d].kind = "product" => ~Storing(d)
  <2>1. whole' = (whole \ (IF backend = "qdrant" /\ kind = "product"
                           THEN {d \in Calls : call[d].kind = kind} ELSE {}))
                 \cup (IF \E d \in (IF backend = "qdrant" /\ kind = "product"
                                    THEN {d \in Calls : call[d].kind = kind} ELSE {}) :
                            Storing(d) THEN {} ELSE {c})
    BY DEF StoreVector
  <2> QED BY <1>2, <1>6, <2>1 DEF TypeOK
<1>9. TypeOK'
  BY <1>1, <1>2, <1>5, <1>8 DEF TypeOK
<1>10. CallsFit'
  <2>1. 1 <= Len(kind)
    BY Sizes DEF Positions
  <2>2. ASSUME NEW d \in Calls, Storing(d)' PROVE call'[d].pos <= Len(call'[d].kind)
    BY <1>2, <1>4, <1>5, <1>7, <2>1, <2>2 DEF CallsFit
  <2> QED BY <2>2 DEF CallsFit, Len
<1>11. RowsFit'
  <2> SUFFICES ASSUME NEW r \in rows
               PROVE  /\ call'[r.by].state # "new"
                      /\ r.kind = call'[r.by].kind /\ r.agent = call'[r.by].agent
                      /\ r.id = PointId(r.by, r.item)' /\ r.item <= Len(r.kind)
    BY <1>1 DEF RowsFit, Len
  <2>1. r.by \in Calls \ {c}
    BY <1>2, <1>6 DEF TypeOK, Row
  <2>2. PointId(r.by, r.item)' = PointId(r.by, r.item)
    BY <1>1, <1>5, <2>1, SameCall
  <2> QED BY <1>2, <1>5, <2>1, <2>2 DEF RowsFit
<1>12. ClearedAtRest'
  <2> SUFFICES ASSUME NEW k \in cleared, k # <<a, kind>>, NEW d \in Calls, Storing(d)',
                      call'[d].agent = k[1], call'[d].kind = k[2]
               PROVE  FALSE
    BY <1>1 DEF ClearedAtRest
  <2>1. k = <<k[1], k[2]>>
    BY <1>2 DEF TypeOK
  <2> QED BY <1>2, <1>4, <1>5, <1>7, <2>1 DEF ClearedAtRest
<1>13. ClearedIsGone'
  BY <1>1, <1>2 DEF ClearedIsGone
<1>14. NoRival'
  <2> SUFFICES ASSUME NEW w \in whole', backend = "qdrant", call'[w].kind = "product",
                      NEW d \in Calls \ {w}, Storing(d)', call'[d].kind = "product"
               PROVE  FALSE
    BY <1>1 DEF NoRival
  <2>1. whole \subseteq Calls
    BY <1>2 DEF TypeOK
  <2>2. CASE kind = "product"
    BY <1>4, <1>5, <1>7, <1>8, <2>1, <2>2
  <2>3. CASE kind # "product"
    BY <1>2, <1>4, <1>5, <1>7, <1>8, <2>1, <2>3 DEF NoRival
  <2> QED BY <2>2, <2>3
<1>15. ASSUME NEW d \in whole' PROVE Beginning(d)'
  <2>1. CASE d = c
    <3>1. \A i \in Positions : ~(i <= 0)
      BY DEF Positions
    <3>2. StoredTo(c, 0)'
      BY <1>1, <1>6, <3>1 DEF StoredTo, Positions
    <3>3. call'[c].pos - 1 = 0
      BY <1>4, <1>5
    <3> QED BY <1>4, <1>5, <2>1, <3>2, <3>3 DEF Beginning, Storing
  <2>2. CASE d # c
    <3>1. d \in whole /\ d \in Calls /\ call'[d] = call[d] /\ Beginning(d)
      BY <1>2, <1>5, <1>8, <2>2 DEF TypeOK, Beginnings
    <3>2. BatchEnd(d)' = BatchEnd(d)
      BY <1>1, <3>1, SameCall
    <3>3. \A k : StoredTo(d, k)' <=> StoredTo(d, k)
      BY <1>1, StoredStays
    <3> QED BY <3>1, <3>2, <3>3 DEF Beginning, Storing, Len
  <2> QED BY <2>1, <2>2
<1>16. Beginnings'
  BY <1>15 DEF Beginnings
<1> QED BY <1>9, <1>10, <1>11, <1>12, <1>13, <1>14, <1>16 DEF StoresInv

\* Deleting takes only points of the agent and the kind it names.
LEMMA DeleteKeeps ==
  ASSUME StoresInv, NEW kind \in Kinds, NEW a \in Agents, DeleteByFilter(kind, a)
  PROVE  StoresInv'
<1>1. /\ rows' = rows \ In(kind, OfAgent(a)) /\ UNCHANGED <<backend, call>>
      /\ whole' = {c \in whole : call[c].kind # kind \/ call[c].agent # a}
      /\ cleared' \subseteq cleared \cup {<<a, kind>>}
      /\ <<a, kind>> \in cleared' /\ <<a, kind>> \notin cleared =>
           \A c \in Calls : ~(Storing(c) /\ call[c].kind = kind /\ call[c].agent = a)
  BY DEF DeleteByFilter
<1>2. /\ TypeOK /\ CallsFit /\ RowsFit /\ ClearedAtRest /\ ClearedIsGone
      /\ NoRival /\ Beginnings
  BY DEF StoresInv
<1>3. /\ \A r \in rows : r \notin rows' => r.kind = kind /\ r.agent = a
      /\ \A r \in rows' : r.kind = kind /\ r.agent = a => backend = "qdrant" /\ kind = "file"
  BY <1>1, <1>2, AgentFilter DEF In, TypeOK
<1>4. TypeOK'
  BY <1>1, <1>2 DEF TypeOK
<1>5. CallsFit' /\ NoRival'
  BY <1>1, <1>2 DEF CallsFit, NoRival, Storing, Len
<1>6. RowsFit'
  <2>1. \A r \in rows' : r \in rows /\ r.by \in Calls
    BY <1>1, <1>2 DEF TypeOK, Row
  <2>2. \A d \in Calls : \A i : PointId(d, i)' = PointId(d, i)
    BY <1>1, SameCall
  <2> QED BY <1>1, <1>2, <2>1, <2>2 DEF RowsFit, Len
<1>7. ClearedAtRest'
  BY <1>1, <1>2 DEF ClearedAtRest, Storing
<1>8. ClearedIsGone'
  <2> SUFFICES ASSUME NEW k \in cleared', ~(backend = "qdrant" /\ k[2] = "file"),
                      NEW r \in rows', r.agent = k[1], r.kind = k[2]
               PROVE  FALSE
    BY <1>1 DEF ClearedIsGone
  <2> QED BY <1>1, <1>2, <1>3 DEF ClearedIsGone
<1>9. ASSUME NEW d \in whole' PROVE Beginning(d)'
  <2>1. d \in whole /\ d \in Calls /\ call' = call /\ Beginning(d)
    BY <1>1, <1>2 DEF TypeOK, Beginnings
  <2>2. BatchEnd(d)' = BatchEnd(d)
    BY <1>1, <2>1, SameCall
  <2>3. \A r : r.by = d => (r \in rows' <=> r \in rows)
    BY <1>1, <1>2, <1>3, <2>1 DEF RowsFit
  <2>4. \A i : (\E r \in rows' : r.by = d /\ r.item = i) <=> (\E r \in rows : r.by = d /\ r.item = i)
    BY <2>3
  <2>5. \A k : StoredTo(d, k)' <=> StoredTo(d, k)
    BY <2>4 DEF StoredTo
  <2> QED BY <2>1, <2>2, <2>5 DEF Beginning, Storing, Len
<1>10. Beginnings'
  BY <1>9 DEF Beginnings
<1> QED BY <1>4, <1>5, <1>6, <1>7, <1>8, <1>10 DEF StoresInv

-----------------------------------------------------------------------------
(* The stores                                                              *)

\* Nothing is stored, and no call has begun.
LEMMA InitStores == Init => StoresInv
<1> SUFFICES ASSUME Init PROVE StoresInv
  OBVIOUS
<1>1. /\ backend \in Backends /\ rows = {} /\ whole = {} /\ cleared = {}
      /\ call = [c \in Calls |-> [kind |-> "file", agent |-> CHOOSE a \in Agents : TRUE,
                                  pos |-> 1, attempt |-> 0, state |-> "new"]]
  BY DEF Init
<1>2. PICK a \in Agents : a = CHOOSE x \in Agents : TRUE
  BY StoresAssumption
<1>3. 1 \in 1..Max({FileLen, NumProducts}) + 1 /\ 0 \in 0..RETRY
  BY Sizes
<1>4. PICK x : x = [kind |-> "file", agent |-> a, pos |-> 1, attempt |-> 0, state |-> "new"]
  OBVIOUS
<1>5. x \in Call /\ x.state = "new"
  BY <1>3, <1>4 DEF Call, States, Kinds
<1>6. call = [c \in Calls |-> x]
  BY <1>1, <1>2, <1>4
<1>7. TypeOK
  BY <1>1, <1>5, <1>6 DEF TypeOK
<1>8. \A c \in Calls : ~Storing(c)
  BY <1>5, <1>6 DEF Storing
<1> QED BY <1>1, <1>7, <1>8 DEF StoresInv, CallsFit, RowsFit, ClearedAtRest, ClearedIsGone,
          NoRival, Beginnings

\* Each step of the stores keeps StoresInv.
LEMMA NextStores == StoresInv /\ [Next]_vars => StoresInv'
<1> SUFFICES ASSUME StoresInv, [Next]_vars PROVE StoresInv'
  OBVIOUS
<1>1. ASSUME NEW c \in Calls, NEW kind \in Kinds, NEW a \in Agents, StoreVector(c, kind, a)
      PROVE  StoresInv'
  BY <1>1, StoreKeeps
<1>2. ASSUME NEW c \in Calls, Write(c) \/ Unanswered(c) \/ Refused(c) PROVE StoresInv'
  BY <1>2, WriteKeeps, UnansweredKeeps
<1>3. ASSUME NEW kind \in Kinds, NEW a \in Agents, DeleteByFilter(kind, a) PROVE StoresInv'
  BY <1>3, DeleteKeeps
<1>4. CASE UNCHANGED vars
  <2>1. UNCHANGED <<backend, rows, call, whole, cleared>>
    BY <1>4 DEF vars
  <2>2. \A c \in Calls : /\ (\A i : PointId(c, i)' = PointId(c, i))
                         /\ BatchEnd(c)' = BatchEnd(c)
    BY <2>1, SameCall
  <2>3. ASSUME NEW c \in whole PROVE Beginning(c)'
    <3>1. c \in Calls /\ Beginning(c) /\ \A k : StoredTo(c, k)' <=> StoredTo(c, k)
      BY <2>1, StoredStays DEF StoresInv, TypeOK, Beginnings
    <3> QED BY <2>1, <2>2, <3>1 DEF Beginning, Storing, Len
  <2>4. TypeOK' /\ CallsFit' /\ ClearedAtRest' /\ ClearedIsGone' /\ NoRival'
    BY <2>1 DEF StoresInv, TypeOK, CallsFit, ClearedAtRest, ClearedIsGone, NoRival,
       Storing, Len
  <2>5. RowsFit'
    BY <2>1, <2>2 DEF StoresInv, TypeOK, RowsFit, Row, Len
  <2>6. Beginnings'
    BY <2>1, <2>3 DEF Beginnings
  <2> QED BY <2>4, <2>5, <2>6 DEF StoresInv
<1> QED BY <1>1, <1>2, <1>3, <1>4 DEF Next

\* The points of a call are as many as their items.
LEMMA PointsByItem ==
  ASSUME StoresInv, NEW c \in Calls, NEW r \in rows, NEW s \in rows,
         r.by = c, s.by = c, r.item = s.item
  PROVE  r = s
<1>1. /\ r \in Row /\ r.kind = call[c].kind /\ r.agent = call[c].agent /\ r.id = PointId(c, r.item)
      /\ s \in Row /\ s.kind = call[c].kind /\ s.agent = call[c].agent /\ s.id = PointId(c, s.item)
  BY DEF StoresInv, TypeOK, RowsFit
<1> QED BY <1>1, RowsByFields

\* A beginning that ends at the last item is everything; what failed is one too.
LEMMA AnsweredIsStored == StoresInv => StoredAsAnswered
<1> SUFFICES ASSUME StoresInv, NEW c \in whole
             PROVE  LET stored == {r \in rows : r.by = c}
                        items == {r.item : r \in stored} IN
                    CASE call[c].state = "stored" ->
                           /\ Cardinality(stored) = Len(call[c].kind)
                           /\ items = 1..Len(call[c].kind)
                      [] call[c].state = "failed" -> \A i \in items : 1..i \subseteq items
                      [] OTHER -> TRUE
  BY DEF StoredAsAnswered
<1> DEFINE stored == {r \in rows : r.by = c}
           items == {r.item : r \in stored}
<1>1. c \in Calls /\ Beginning(c) /\ rows \subseteq Row /\ call[c].kind \in Kinds
  BY DEF StoresInv, TypeOK, Beginnings, Call
<1>2. \A i \in items : i \in Positions
  BY <1>1 DEF Row
<1>3. \A k : StoredTo(c, k) => \A i \in Positions : i \in items <=> i <= k
  BY DEF StoredTo
<1>4. PICK n \in Nat : n = Len(call[c].kind) /\ n \in Positions
  BY <1>1, Sizes
<1>5. \A i \in Positions : 1..i \subseteq Positions
  BY Sizes DEF Positions
<1>6. ASSUME call[c].state = "stored" PROVE Cardinality(stored) = n /\ items = 1..n
  <2>1. StoredTo(c, n)
    BY <1>1, <1>4, <1>6 DEF Beginning
  <2>2. items = 1..n
    <3>1. \A i \in Positions : i \in items <=> i <= n
      BY <1>3, <2>1
    <3>2. \A i \in Positions : i <= n => i \in 1..n
      BY DEF Positions
    <3>3. \A i \in 1..n : i <= n /\ i \in Positions
      BY <1>4, <1>5
    <3> HIDE DEF items
    <3> QED BY <1>2, <3>1, <3>2, <3>3
  <2> DEFINE f == [r \in stored |-> r.item]
  <2>3. f \in [stored -> 1..n] /\ \A r \in stored : f[r] = r.item
    BY <2>2
  <2>4. \A r, s \in stored : r.item = s.item => r = s
    BY <1>1, PointsByItem
  <2>5. \A i \in 1..n : \E r \in stored : r.item = i
    BY <2>2
  <2> HIDE DEF f, stored, items
  <2>6. f \in Injection(stored, 1..n) /\ f \in Surjection(stored, 1..n)
    BY <2>3, <2>4, <2>5 DEF Injection, Surjection, IsInjective
  <2>7. IsFiniteSet(1..n) /\ Cardinality(1..n) = n
    BY <1>4, FS_Interval
  <2> QED BY <2>2, <2>6, <2>7, FS_Injection
<1>7. ASSUME call[c].state = "failed" PROVE \A i \in items : 1..i \subseteq items
  <2>1. PICK k \in Nat : StoredTo(c, k)
    BY <1>1, <1>4, <1>7 DEF Beginning
  <2> HIDE DEF items
  <2> SUFFICES ASSUME NEW i \in items, NEW j \in 1..i PROVE j \in items
    OBVIOUS
  <2>2. i \in Positions /\ j \in Positions /\ i <= k
    BY <1>2, <1>3, <1>5, <2>1
  <2>3. j <= i /\ j \in Nat /\ i \in Nat
    BY <2>2, Sizes
  <2> QED BY <1>3, <2>1, <2>2, <2>3
<1> QED BY <1>4, <1>6, <1>7

\* What a search for a user may find.
ProductsOf(u) == {r \in rows : r.kind = "product" /\ Owner[r.agent] = u}

\* In Qdrant there is a point for each product at most, so a page may hold all.
LEMMA OnePage ==
  ASSUME StoresInv, NEW u, backend = "qdrant"
  PROVE  Cardinality(ProductsOf(u)) \in Nat /\ Cardinality(ProductsOf(u)) <= NumProducts
<1> DEFINE F == ProductsOf(u)
           f == [r \in F |-> r.item]
<1>1. ASSUME NEW r \in F
      PROVE  /\ r \in rows /\ r.kind = "product" /\ r.id = <<r.item>>
             /\ r.item \in 1..NumProducts
  <2>1. /\ r \in rows /\ r \in Row /\ r.kind = "product" /\ r.kind = call[r.by].kind
        /\ r.id = PointId(r.by, r.item) /\ r.item <= Len(r.kind)
    BY DEF ProductsOf, StoresInv, TypeOK, RowsFit
  <2>2. r.id = <<r.item>>
    BY <2>1 DEF PointId
  <2>3. r.item \in Positions /\ r.item <= NumProducts
    BY <2>1 DEF Row, Len
  <2>4. NumProducts \in Nat /\ r.item \in Nat /\ r.item >= 1
    BY <2>3, Sizes DEF Positions
  <2> QED BY <2>1, <2>2, <2>3, <2>4
<1>2. \A r, s \in F : r.item = s.item => r = s
  BY <1>1 DEF StoresInv, TypeOK
<1>3. f \in [F -> 1..NumProducts] /\ \A r \in F : f[r] = r.item
  BY <1>1
<1> HIDE DEF F, f
<1>4. f \in Injection(F, 1..NumProducts)
  BY <1>2, <1>3 DEF Injection, IsInjective
<1>5. NumProducts \in Nat /\ NumProducts > 0
  BY Sizes
<1>6. IsFiniteSet(1..NumProducts) /\ Cardinality(1..NumProducts) = NumProducts
  BY <1>5, FS_Interval
<1>7. IsFiniteSet(F) /\ Cardinality(F) <= NumProducts
  BY <1>4, <1>6, FS_Injection
<1> QED BY <1>7, FS_CardinalityType DEF F

\* searchByFilter finds nothing of others, and all of the user if a page holds it.
LEMMA SearchFinds ==
  ASSUME StoresInv, NEW u, NEW found \in SearchByFilter("product", u)
  PROVE  /\ found \subseteq ProductsOf(u)
         /\ (backend = "qdrant" => NumProducts <= ScrollLimit) => found = ProductsOf(u)
<1>1. In("product", OfUser(u)) = ProductsOf(u)
  BY UserFilter DEF In, ProductsOf, StoresInv, TypeOK
<1>2. CASE backend = "qdrant" /\ Cardinality(ProductsOf(u)) > ScrollLimit
  <2>1. found \in kSubset(ScrollLimit, ProductsOf(u))
    BY <1>1, <1>2 DEF SearchByFilter
  <2>2. found \subseteq ProductsOf(u)
    BY <2>1 DEF kSubset
  <2>3. ~(NumProducts <= ScrollLimit)
    BY <1>2, OnePage, Sizes
  <2> QED BY <1>2, <2>2, <2>3
<1>3. CASE ~(backend = "qdrant" /\ Cardinality(ProductsOf(u)) > ScrollLimit)
  BY <1>1, <1>3 DEF SearchByFilter
<1> QED BY <1>2, <1>3

\* similaritySearch finds nothing of others.
LEMMA NearestFinds ==
  ASSUME StoresInv, NEW u, NEW limit,
         NEW found \in SimilaritySearch("product", OfUser(u), limit)
  PROVE  found \subseteq ProductsOf(u)
<1>1. rows \subseteq Row /\ backend \in Backends
  BY DEF StoresInv, TypeOK
<1>2. \A S : \A s \in Closest(S, limit) : s \subseteq S
  BY DEF Closest, kSubset
<1>3. CASE backend = "postgre"
  <2>1. found \in Closest({r \in rows : /\ r.kind = "product"
                                        /\ PostgreWhere(PostgreMetadata(r), OfUser(u))}, limit)
    BY <1>3 DEF SimilaritySearch, PostgreSearch
  <2> QED BY <1>1, <1>2, <2>1, UserFilter DEF ProductsOf
<1>4. CASE backend = "qdrant"
  <2>1. found \in Closest({r \in rows : /\ r.kind = "product"
                                        /\ QdrantMust(QdrantMetadata(r), OfUser(u))}, limit)
    BY <1>4 DEF SimilaritySearch, QdrantSearch
  <2> QED BY <1>1, <1>2, <2>1, UserFilter DEF ProductsOf
<1>5. CASE backend = "supabase"
  <2> DEFINE filter == NormalizeFilter(OfUser(u))
  <2>1. found \in Closest({r \in rows : /\ r.kind = "product"
                                        /\ RpcMatch(SupabaseMetadata(r), filter)}, limit)
    BY <1>5 DEF SimilaritySearch, SupabaseSearch
  <2>2. "userId" \in DOMAIN filter /\ filter["userId"] = u
    BY DEF NormalizeFilter, OfUser
  <2> HIDE DEF filter
  <2>3. \A r \in rows : RpcMatch(SupabaseMetadata(r), filter) => Owner[r.agent] = u
    BY <2>2 DEF RpcMatch, SupabaseMetadata
  <2> QED BY <1>2, <2>1, <2>3 DEF ProductsOf
<1> QED BY <1>1, <1>3, <1>4, <1>5 DEF Backends

\* What a call has stored for an agent of the user is among that.
LEMMA StoredIsThere ==
  ASSUME StoresInv, NEW u, NEW c \in whole, call[c].state = "stored",
         call[c].kind = "product", Owner[call[c].agent] = u, NEW i \in 1..NumProducts
  PROVE  \E r \in ProductsOf(u) : r.item = i
<1>1. StoredTo(c, NumProducts)
  BY DEF StoresInv, Beginnings, Beginning, Len
<1>2. i \in Positions /\ i <= NumProducts
  BY Sizes DEF Positions
<1>3. PICK r \in rows : r.by = c /\ r.item = i
  BY <1>1, <1>2 DEF StoredTo
<1>4. r.kind = "product" /\ r.agent = call[c].agent
  BY <1>3 DEF StoresInv, RowsFit
<1> QED BY <1>3, <1>4 DEF ProductsOf

\* The searches of the workflow find what is there, and nothing of others.
LEMMA StoredFound == StoresInv => StoredIsFound
<1> SUFFICES ASSUME StoresInv, NEW u \in Users, NEW found \in SearchByFilter("product", u)
             PROVE  /\ \A r \in found \cup UNION SimilaritySearch("product", OfUser(u), 1) :
                         Owner[r.agent] = u
                    /\ \A c \in whole :
                         /\ call[c].state = "stored" /\ call[c].kind = "product"
                         /\ Owner[call[c].agent] = u
                         /\ (backend = "qdrant" => NumProducts <= ScrollLimit)
                         => \A i \in 1..NumProducts : \E r \in found : r.item = i
  BY DEF StoredIsFound
<1>1. \A r \in found : Owner[r.agent] = u
  BY SearchFinds DEF ProductsOf
<1>2. \A s \in SimilaritySearch("product", OfUser(u), 1) : \A r \in s : Owner[r.agent] = u
  BY NearestFinds DEF ProductsOf
<1>3. \A c \in whole :
        /\ call[c].state = "stored" /\ call[c].kind = "product"
        /\ Owner[call[c].agent] = u
        /\ (backend = "qdrant" => NumProducts <= ScrollLimit)
        => \A i \in 1..NumProducts : \E r \in found : r.item = i
  BY SearchFinds, StoredIsThere
<1> QED BY <1>1, <1>2, <1>3

\* StoresInv holds of the stores alone.
LEMMA StoresInductive == Spec => []StoresInv
  BY InitStores, NextStores, PTL DEF Spec

\* Batches, lost answers, retries, and the calls for other agents leave no hole
\* and no double in what a call has stored, in any of the three stores.
THEOREM AnsweredStored == Spec => []StoredAsAnswered
  BY StoresInductive, AnsweredIsStored, PTL

\* deleteAllVectorByUserOrPrompt leaves nothing of the collection of an agent,
\* but for documents in Qdrant.
THEOREM ClearedGone == Spec => []ClearedIsGone
<1>1. StoresInv => ClearedIsGone
  BY DEF StoresInv
<1> QED BY <1>1, StoresInductive, PTL

\* The filters of the workflow find what the worker has stored for a user's
\* agents, in all three stores, and both searches find nothing of others.
THEOREM StoredAreFound == Spec => []StoredIsFound
  BY StoresInductive, StoredFound, PTL

-----------------------------------------------------------------------------
(* A question and its steps                                                *)

Prompts == [sections : SUBSET {"ORDER STATUS"}, products : Lists]
Question == [at : Stations, of : Users, intent : Intents, all : BOOLEAN,
             ids : SUBSET Products, state : [order : BOOLEAN, products : Lists],
             prompt : Prompts]

\* A step of the graph leaves the stores and the table alone, and asks for the
\* same user.
NodeStep == /\ UNCHANGED <<vars, goods, recent, offered>>
            /\ question' \in Question /\ question'.of = question.of

\* The fields of a question that has read nothing.
LEMMA NewQuestion ==
  ASSUME NEW s \in Stations, NEW u \in Users
  PROVE  /\ QuestionOf(u, s) \in Question
         /\ QuestionOf(u, s).at = s /\ QuestionOf(u, s).of = u
         /\ QuestionOf(u, s).intent = "other" /\ QuestionOf(u, s).all = FALSE
         /\ QuestionOf(u, s).ids = {}
         /\ QuestionOf(u, s).state.order = FALSE /\ QuestionOf(u, s).state.products = {}
         /\ QuestionOf(u, s).prompt.sections = {} /\ QuestionOf(u, s).prompt.products = {}
<1>0. PICK x : x = QuestionOf(u, s)
  OBVIOUS
<1>1. PICK st : st = [order |-> FALSE, products |-> {}]
  OBVIOUS
<1>2. PICK p : p = [sections |-> {}, products |-> {}]
  OBVIOUS
<1>3. /\ st \in [order : BOOLEAN, products : Lists] /\ st.order = FALSE /\ st.products = {}
      /\ p \in Prompts /\ p.sections = {} /\ p.products = {}
  BY <1>1, <1>2 DEF Lists, Prompts
<1>4. x = [at |-> s, of |-> u, intent |-> "other", all |-> FALSE, ids |-> {},
           state |-> st, prompt |-> p]
  BY <1>0, <1>1, <1>2 DEF QuestionOf
<1>5. /\ x \in Question /\ x.at = s /\ x.of = u /\ x.intent = "other" /\ x.all = FALSE
      /\ x.ids = {} /\ x.state = st /\ x.prompt = p
  BY <1>3, <1>4 DEF Question, Intents
<1> QED BY <1>0, <1>3, <1>5

\* A question that only moves on.
LEMMA MovesAt ==
  ASSUME NEW q \in Question, NEW s \in Stations, NEW x, x = [q EXCEPT !.at = s]
  PROVE  /\ x \in Question /\ x.at = s /\ x.of = q.of /\ x.intent = q.intent /\ x.all = q.all
         /\ x.ids = q.ids /\ x.state = q.state /\ x.prompt = q.prompt
  BY DEF Question
\* States of a question.
LEMMA StateFields ==
  ASSUME NEW q \in Question
  PROVE  /\ q.state \in [order : BOOLEAN, products : Lists]
         /\ q.at \in Stations /\ q.ids \subseteq Products /\ q.intent \in Intents
         /\ q.all \in BOOLEAN /\ q.prompt \in Prompts
         /\ q.state.order \in BOOLEAN /\ q.state.products \in Lists
  BY DEF Question

-----------------------------------------------------------------------------
(* The steps of the graph                                                  *)

\* What is on offer and what is in the table does not depend on the question.
LEMMA SameOffer ==
  ASSUME UNCHANGED <<vars, goods>>
  PROVE  RowsNow' = RowsNow /\ \A u : OnOffer(u)' = OnOffer(u)
  BY DEF vars, RowsNow, OnOffer, Products

\* What FoundAll says of a question that asked for all.
FoundSoFar ==
  question.all /\ (backend = "qdrant" => NumProducts <= ScrollLimit) =>
    /\ question.at \in {"rows", "generate", "answered", "failed"}
    /\ question.at = "rows" => offered \subseteq question.ids
    /\ question.at = "generate" => Covers(question.state.products)

\* The parts of AnswersInv that speak of the question.
OfQuestion ==
  /\ question.at = "answered" => (question.prompt.sections # {} <=> question.intent = "ORDER")
  /\ question.ids # {} => question.intent = "PRODUCT"
  /\ Told /\ ReadRecently /\ ShownWasTrue /\ FoundSoFar /\ AllMeansAll

\* AnswersInv, sorted by what it speaks of; ...
LEMMA PartsOfAnswers ==
  AnswersInv <=>
    /\ StoresInv /\ OfQuestion /\ question \in Question
    /\ goods \in [Products -> (0..MaxEdits) \cup {Gone}]
    /\ recent \subseteq Products \X (0..MaxEdits) /\ offered \subseteq Products
    /\ offered \subseteq OnOffer(question.of)
  BY DEF AnswersInv, StoresInv, OfQuestion, AnswersTypeOK, FoundAll, FoundSoFar, Question, Prompts

\* ... and the same of the next state.
LEMMA PartsOfAnswersNext ==
  AnswersInv' <=>
    /\ StoresInv' /\ OfQuestion' /\ question' \in Question
    /\ goods' \in [Products -> (0..MaxEdits) \cup {Gone}]
    /\ recent' \subseteq Products \X (0..MaxEdits) /\ offered' \subseteq Products
    /\ offered' \subseteq OnOffer(question.of)'
<1>1. AnswersTypeOK' <=>
        /\ TypeOK' /\ question' \in Question
        /\ goods' \in [Products -> (0..MaxEdits) \cup {Gone}]
        /\ question'.at = "answered" =>
             (question'.prompt.sections # {} <=> question'.intent = "ORDER")
        /\ question'.ids # {} => question'.intent = "PRODUCT"
        /\ recent' \subseteq Products \X (0..MaxEdits) /\ offered' \subseteq Products
  BY DEF AnswersTypeOK, Question, Prompts, Products, Lists, Stations, Intents
<1> QED BY <1>1 DEF AnswersInv, StoresInv, OfQuestion, FoundAll, FoundSoFar

\* A step of the graph has only to keep what is said of the question.
LEMMA NodeKeeps ==
  ASSUME AnswersInv, StoresInv', NodeStep, OfQuestion'
  PROVE  AnswersInv'
<1>1. /\ UNCHANGED <<goods, recent, offered>> /\ question'.of = question.of
      /\ question' \in Question
  BY DEF NodeStep
<1>2. OnOffer(question.of)' = OnOffer(question.of)
  <2>1. PICK u : u = question.of
    OBVIOUS
  <2>2. OnOffer(u)' = OnOffer(u) /\ question'.of = u
    BY <1>1, <2>1, SameOffer DEF NodeStep
  <2> QED BY <2>1, <2>2 DEF OnOffer, Products
<1> QED BY <1>1, <1>2, PartsOfAnswers, PartsOfAnswersNext

\* What a question that goes on has of before.
LEMMA Before ==
  ASSUME AnswersInv, UNCHANGED <<vars, goods, recent, offered>>
  PROVE  /\ question \in Question /\ OfQuestion /\ offered \subseteq OnOffer(question.of)
         /\ InProgress => RowsNow' \subseteq recent' /\ question.state.products \subseteq recent'
         /\ backend' = backend /\ offered' = offered /\ recent' = recent
<1>1. RowsNow' = RowsNow
  BY SameOffer
<1> QED BY <1>1, PartsOfAnswers DEF OfQuestion, ReadRecently, vars

\* The intent is all that Classify sets.
LEMMA ClassifyKeeps ==
  ASSUME AnswersInv, StoresInv', Classify PROVE AnswersInv'
<1>0. UNCHANGED <<vars, goods, recent, offered>>
  BY DEF Classify
<1>1. PICK i \in Intents :
        question.at = "classify" /\ question' = [question EXCEPT !.at = "retrieve", !.intent = i]
  BY DEF Classify, Goes
<1>2. "retrieve" \in Stations
  BY DEF Stations
<1>3. /\ question' \in Question /\ question'.at = "retrieve" /\ question'.of = question.of
      /\ question'.intent = i /\ question'.all = question.all /\ question'.ids = question.ids
      /\ question'.state = question.state /\ question'.prompt = question.prompt
  BY <1>0, <1>1, <1>2, Before DEF Question
<1>4. OfQuestion'
  BY <1>0, <1>1, <1>3, Before
     DEF OfQuestion, Told, ReadRecently, ShownWasTrue, FoundSoFar, AllMeansAll, InProgress
<1> QED BY <1>0, <1>3, <1>4, NodeKeeps DEF NodeStep

\* The stage is chosen by the intent.
LEMMA RetrieveKeeps ==
  ASSUME AnswersInv, StoresInv', Retrieve PROVE AnswersInv'
<1>0. UNCHANGED <<vars, goods, recent, offered>>
  BY DEF Retrieve
<1>1. question.at = "retrieve" /\ question' = [question EXCEPT !.at = Stage(question.intent)]
  BY DEF Retrieve, Goes, At
<1>2. /\ Stage(question.intent) \in {"orders", "humanHandle", "product", "generate"}
      /\ Stage(question.intent) = "orders" <=> question.intent = "ORDER"
      /\ Stage(question.intent) = "product" => question.intent = "PRODUCT"
  BY DEF Stage
<1>3. Stage(question.intent) \in Stations
  BY <1>2 DEF Stations
<1>4. PICK s \in Stations : s = Stage(question.intent)
  BY <1>3
<1>5. /\ question' \in Question /\ question'.at = s /\ question'.of = question.of
      /\ question'.intent = question.intent /\ question'.all = question.all
      /\ question'.ids = question.ids
      /\ question'.state = question.state /\ question'.prompt = question.prompt
  BY <1>0, <1>1, <1>4, Before, MovesAt
<1>6. OfQuestion'
  BY <1>0, <1>1, <1>2, <1>4, <1>5, Before
     DEF OfQuestion, Told, ReadRecently, ShownWasTrue, FoundSoFar, AllMeansAll, InProgress, Covers
<1> QED BY <1>0, <1>5, <1>6, NodeKeeps DEF NodeStep

\* What the searches return are products, all of them if all are asked for.
LEMMA FoundProducts ==
  ASSUME AnswersInv, NEW ids
  PROVE  /\ ids \in Nearest(question.of) => ids \subseteq Products
         /\ ids \in All(question.of) => ids \subseteq Products
         /\ ids \in All(question.of) /\ (backend = "qdrant" => NumProducts <= ScrollLimit) =>
              offered \subseteq ids
<1>1. StoresInv /\ offered \subseteq OnOffer(question.of)
  BY PartsOfAnswers
<1>2. \A r \in ProductsOf(question.of) : r.item \in Products
  <2>1. \A r \in ProductsOf(question.of) : r \in Row /\ r.item <= NumProducts
    BY <1>1 DEF ProductsOf, StoresInv, TypeOK, RowsFit, Len
  <2>2. \A r \in Row : r.item \in Positions
    BY DEF Row
  <2> QED BY <2>1, <2>2, Sizes DEF Products, Positions
<1>3. ASSUME ids \in Nearest(question.of) PROVE ids \subseteq Products
  <2>1. PICK s \in SimilaritySearch("product", OfUser(question.of), TopK) :
          ids = {r.item : r \in s}
    BY <1>3 DEF Nearest
  <2> QED BY <1>1, <1>2, <2>1, NearestFinds
<1>4. ASSUME ids \in All(question.of)
      PROVE  /\ ids \subseteq Products
             /\ (backend = "qdrant" => NumProducts <= ScrollLimit) => offered \subseteq ids
  <2>1. PICK s \in SearchByFilter("product", question.of) : ids = {r.item : r \in s}
    BY <1>4 DEF All
  <2>2. /\ s \subseteq ProductsOf(question.of)
        /\ (backend = "qdrant" => NumProducts <= ScrollLimit) => s = ProductsOf(question.of)
    BY <1>1, <2>1, SearchFinds
  <2>3. ASSUME NEW i \in offered PROVE \E r \in ProductsOf(question.of) : r.item = i
    <3>1. PICK c \in whole : /\ call[c].state = "stored" /\ call[c].kind = "product"
                             /\ Owner[call[c].agent] = question.of
      BY <1>1, <2>3 DEF OnOffer
    <3>2. i \in 1..NumProducts
      BY <1>1, <2>3 DEF OnOffer, Products
    <3> QED BY <1>1, <3>1, <3>2, StoredIsThere
  <2> QED BY <1>2, <2>1, <2>2, <2>3
<1> QED BY <1>3, <1>4

\* Both searches are for the user who asks.
LEMMA SearchKeeps ==
  ASSUME AnswersInv, StoresInv', Search PROVE AnswersInv'
<1>0. UNCHANGED <<vars, goods, recent, offered>>
  BY DEF Search
<1>1. CASE \E ids \in All(question.of) :
             Goes("product", [question EXCEPT !.at = "rows", !.all = TRUE, !.ids = ids])
  <2>1. PICK ids \in All(question.of) :
          /\ question.at = "product"
          /\ question' = [question EXCEPT !.at = "rows", !.all = TRUE, !.ids = ids]
    BY <1>1 DEF Goes
  <2>2. /\ ids \in SUBSET Products
        /\ (backend = "qdrant" => NumProducts <= ScrollLimit) => offered \subseteq ids
    BY <2>1, FoundProducts
  <2>3. "rows" \in Stations
    BY DEF Stations
  <2>4. /\ question' \in Question /\ question'.at = "rows" /\ question'.of = question.of
        /\ question'.intent = question.intent /\ question'.ids = ids
        /\ question'.state = question.state /\ question'.prompt = question.prompt
    BY <1>0, <2>1, <2>2, <2>3, Before DEF Question
  <2>5. OfQuestion'
    BY <1>0, <2>1, <2>2, <2>4, Before
       DEF OfQuestion, Told, ReadRecently, ShownWasTrue, FoundSoFar, AllMeansAll, InProgress
  <2> QED BY <1>0, <2>4, <2>5, NodeKeeps DEF NodeStep
<1>2. CASE \E ids \in Nearest(question.of) :
             Goes("product", [question EXCEPT !.ids = ids,
                                !.at = IF ids = {} THEN "generate" ELSE "rows"])
  <2>1. PICK ids \in Nearest(question.of) :
          /\ question.at = "product"
          /\ question' = [question EXCEPT !.ids = ids,
                            !.at = IF ids = {} THEN "generate" ELSE "rows"]
    BY <1>2 DEF Goes
  <2>2. ids \in SUBSET Products
    BY <2>1, FoundProducts
  <2>3. PICK s \in Stations : s = IF ids = {} THEN "generate" ELSE "rows"
    BY DEF Stations
  <2>4. /\ question' \in Question /\ question'.at = s /\ question'.of = question.of
        /\ question'.intent = question.intent /\ question'.ids = ids
        /\ question'.all = question.all
        /\ question'.state = question.state /\ question'.prompt = question.prompt
    BY <1>0, <2>1, <2>2, <2>3, Before DEF Question
  <2>5. OfQuestion'
    BY <1>0, <2>1, <2>2, <2>3, <2>4, Before
       DEF OfQuestion, Told, ReadRecently, ShownWasTrue, FoundSoFar, AllMeansAll, InProgress
  <2> QED BY <1>0, <2>4, <2>5, NodeKeeps DEF NodeStep
<1> QED BY <1>1, <1>2 DEF Search

\* The rows that are read are those of the table.
LEMMA RowsRead ==
  ASSUME AnswersInv, NEW l, l = ProductSerialiase(FindMany(question.ids))
  PROVE  /\ l \in Lists /\ l \subseteq RowsNow
         /\ \A i \in question.ids : goods[i] # Gone => \E p \in l : p[1] = i
<1>1. question.ids \subseteq Products
  BY PartsOfAnswers, StateFields
<1>2. goods \in [Products -> (0..MaxEdits) \cup {Gone}]
  BY PartsOfAnswers
<1>3. \A i \in question.ids : goods[i] # Gone => <<i, goods[i]>> \in l
  BY DEF ProductSerialiase, FindMany
<1>4. \A p \in l : \E i \in Products : goods[i] # Gone /\ p = <<i, goods[i]>>
  BY <1>1 DEF ProductSerialiase, FindMany
<1>5. l \subseteq RowsNow
  BY <1>4 DEF RowsNow
<1>6. l \subseteq Products \X (0..MaxEdits)
  BY <1>2, <1>4
<1> QED BY <1>3, <1>5, <1>6 DEF Lists

\* The rows are read of the table as it is now.
LEMMA LookUpRowsKeeps ==
  ASSUME AnswersInv, StoresInv', LookUpRows PROVE AnswersInv'
<1>0. UNCHANGED <<vars, goods, recent, offered>>
  BY DEF LookUpRows
<1>1. PICK l : l = ProductSerialiase(FindMany(question.ids))
  OBVIOUS
<1>2. /\ question.at = "rows"
      /\ question' = [question EXCEPT !.at = "generate", !.state.products = l]
  BY <1>1 DEF LookUpRows, Goes
<1>3. /\ l \in Lists /\ l \subseteq RowsNow
      /\ \A i \in question.ids : goods[i] # Gone => \E p \in l : p[1] = i
  BY <1>1, RowsRead
<1>4. PICK st : st = [question.state EXCEPT !.products = l]
  OBVIOUS
<1>5. /\ st \in [order : BOOLEAN, products : Lists]
      /\ st.order = question.state.order /\ st.products = l
  BY <1>0, <1>3, <1>4, Before, StateFields
<1>6. question' = [question EXCEPT !.at = "generate", !.state = st]
  BY <1>0, <1>2, <1>4, Before DEF Question
<1>7. "generate" \in Stations
  BY DEF Stations
<1>8. /\ question' \in Question /\ question'.at = "generate" /\ question'.of = question.of
      /\ question'.intent = question.intent /\ question'.ids = question.ids
      /\ question'.all = question.all
      /\ question'.state = st /\ question'.prompt = question.prompt
  BY <1>0, <1>5, <1>6, <1>7, Before DEF Question
<1>9. OfQuestion /\ offered \subseteq OnOffer(question.of) /\ backend' = backend
  BY <1>0, Before
<1>10. question.all /\ (backend = "qdrant" => NumProducts <= ScrollLimit) => Covers(l)
  BY <1>2, <1>3, <1>9 DEF OfQuestion, FoundSoFar, OnOffer, Covers
<1>11. FoundSoFar'
  BY <1>0, <1>5, <1>8, <1>9, <1>10 DEF FoundSoFar, Covers
<1>12. ReadRecently'
  <2>1. RowsNow' = RowsNow /\ recent' = recent /\ RowsNow \subseteq recent
    BY <1>0, <1>2, <1>9, SameOffer DEF OfQuestion, ReadRecently, InProgress
  <2> QED BY <1>3, <1>5, <1>8, <2>1 DEF ReadRecently
<1>13. OfQuestion'
  BY <1>0, <1>2, <1>5, <1>8, <1>9, <1>11, <1>12
     DEF OfQuestion, Told, ShownWasTrue, AllMeansAll
<1> QED BY <1>0, <1>8, <1>13, NodeKeeps DEF NodeStep

\* Only orders pass here.
LEMMA OrderKeeps ==
  ASSUME AnswersInv, StoresInv', Order PROVE AnswersInv'
<1>0. UNCHANGED <<vars, goods, recent, offered>>
  BY DEF Order
<1>1. /\ question.at = "orders"
      /\ question' = [question EXCEPT !.at = "humanHandle", !.state.order = TRUE]
  BY DEF Order, Goes
<1>2. PICK st : st = [question.state EXCEPT !.order = TRUE]
  OBVIOUS
<1>3. /\ st \in [order : BOOLEAN, products : Lists]
      /\ st.order = TRUE /\ st.products = question.state.products
  BY <1>0, <1>2, Before, StateFields
<1>4. question' = [question EXCEPT !.at = "humanHandle", !.state = st]
  BY <1>0, <1>1, <1>2, Before DEF Question
<1>5. "humanHandle" \in Stations
  BY DEF Stations
<1>6. /\ question' \in Question /\ question'.at = "humanHandle" /\ question'.of = question.of
      /\ question'.intent = question.intent /\ question'.ids = question.ids
      /\ question'.all = question.all
      /\ question'.state = st /\ question'.prompt = question.prompt
  BY <1>0, <1>3, <1>4, <1>5, Before DEF Question
<1>7. OfQuestion'
  BY <1>0, <1>1, <1>3, <1>6, Before
     DEF OfQuestion, Told, ReadRecently, ShownWasTrue, FoundSoFar, AllMeansAll, InProgress
<1> QED BY <1>0, <1>6, <1>7, NodeKeeps DEF NodeStep

\* Nothing but the station changes.
LEMMA HumanHandleKeeps ==
  ASSUME AnswersInv, StoresInv', HumanHandle \/ QuestionFails PROVE AnswersInv'
<1>0. UNCHANGED <<vars, goods, recent, offered>>
  BY DEF HumanHandle, QuestionFails
<1>1. PICK s \in {"generate", "failed"} :
        /\ s = "generate" => question.at = "humanHandle"
        /\ InProgress
        /\ question' = [question EXCEPT !.at = s]
  BY DEF HumanHandle, QuestionFails, Goes, At, InProgress
<1>2. s \in Stations
  BY DEF Stations
<1>3. /\ question' \in Question /\ question'.at = s /\ question'.of = question.of
      /\ question'.intent = question.intent /\ question'.ids = question.ids
      /\ question'.all = question.all
      /\ question'.state = question.state /\ question'.prompt = question.prompt
  BY <1>0, <1>1, <1>2, Before, MovesAt
<1>4. OfQuestion'
  BY <1>0, <1>1, <1>3, Before
     DEF OfQuestion, Told, ReadRecently, ShownWasTrue, FoundSoFar, AllMeansAll, InProgress
<1> QED BY <1>0, <1>3, <1>4, NodeKeeps DEF NodeStep

\* The prompt tells what the state has.
LEMMA GenerateKeeps ==
  ASSUME AnswersInv, StoresInv', Generate PROVE AnswersInv'
<1>0. UNCHANGED <<vars, goods, recent, offered>>
  BY DEF Generate
<1>1. PICK p : p = CustomerServicePrompt(question.state)
  OBVIOUS
<1>2. question.at = "generate" /\ question' = [question EXCEPT !.at = "answered", !.prompt = p]
  BY <1>1 DEF Generate, Goes
<1>3. /\ p \in Prompts /\ p.products = question.state.products
      /\ p.sections # {} <=> question.state.order
  <2>1. question.state.products \in Lists
    BY <1>0, Before, StateFields
  <2>2. PICK sections \in SUBSET {"ORDER STATUS"} :
          sections = IF question.state.order THEN {"ORDER STATUS"} ELSE {}
    OBVIOUS
  <2>3. p = [sections |-> sections, products |-> question.state.products]
    BY <1>1, <2>2 DEF CustomerServicePrompt
  <2> QED BY <2>1, <2>2, <2>3 DEF Prompts
<1>4. "answered" \in Stations
  BY DEF Stations
<1>5. /\ question' \in Question /\ question'.at = "answered" /\ question'.of = question.of
      /\ question'.intent = question.intent /\ question'.ids = question.ids
      /\ question'.all = question.all
      /\ question'.state = question.state /\ question'.prompt = p
  BY <1>0, <1>2, <1>3, <1>4, Before DEF Question
<1>6. /\ OfQuestion /\ backend' = backend /\ offered' = offered /\ recent' = recent
      /\ question.state.products \subseteq recent
  BY <1>0, <1>2, Before DEF OfQuestion, ReadRecently, InProgress
<1>7. OfQuestion'
  BY <1>2, <1>3, <1>5, <1>6
     DEF OfQuestion, Told, ReadRecently, ShownWasTrue, FoundSoFar, AllMeansAll, InProgress, Covers
<1> QED BY <1>0, <1>5, <1>7, NodeKeeps DEF NodeStep

-----------------------------------------------------------------------------
(* Beside the graph                                                        *)

\* A new question has read nothing.
LEMMA AskKeeps ==
  ASSUME AnswersInv, StoresInv', NEW u \in Users, Ask(u) PROVE AnswersInv'
<1>1. /\ UNCHANGED <<vars, goods>> /\ question' = QuestionOf(u, "classify")
      /\ recent' = RowsNow /\ offered' = OnOffer(u)
  BY DEF Ask
<1>2. "classify" \in Stations
  BY DEF Stations
<1>3. /\ question' \in Question /\ question'.at = "classify" /\ question'.of = u
      /\ question'.all = FALSE /\ question'.ids = {}
      /\ question'.state.order = FALSE /\ question'.state.products = {}
  <2>1. PICK x : x = QuestionOf(u, "classify")
    OBVIOUS
  <2>2. /\ x \in Question /\ x.at = "classify" /\ x.of = u
        /\ x.all = FALSE /\ x.ids = {}
        /\ x.state.order = FALSE /\ x.state.products = {}
    BY <1>2, <2>1, NewQuestion
  <2> QED BY <1>1, <2>1, <2>2
<1>4. RowsNow' = RowsNow /\ OnOffer(u)' = OnOffer(u)
  BY <1>1, SameOffer
<1>5. OfQuestion'
  BY <1>1, <1>3, <1>4
     DEF OfQuestion, Told, ReadRecently, ShownWasTrue, FoundSoFar, AllMeansAll
<1>6. goods \in [Products -> (0..MaxEdits) \cup {Gone}]
  BY PartsOfAnswers
<1>7. RowsNow \subseteq Products \X (0..MaxEdits) /\ OnOffer(u) \subseteq Products
  BY <1>6 DEF RowsNow, OnOffer
<1>8. offered' \subseteq OnOffer(question.of)'
  BY <1>1, <1>3, <1>4 DEF OnOffer, Products
<1> QED BY <1>1, <1>3, <1>5, <1>6, <1>7, <1>8, PartsOfAnswersNext

\* While the question stays, the table and what is on offer may change.
LEMMA QuestionStays ==
  ASSUME AnswersInv, StoresInv', UNCHANGED <<backend, question>>,
         goods' \in [Products -> (0..MaxEdits) \cup {Gone}],
         recent \subseteq recent', recent' \subseteq Products \X (0..MaxEdits),
         RowsNow \subseteq recent => RowsNow' \subseteq recent',
         offered' \subseteq offered, \A u : offered' \subseteq OnOffer(u)' \/ u # question.of
  PROVE  AnswersInv'
<1>1. question \in Question /\ OfQuestion /\ offered \subseteq Products
  BY PartsOfAnswers
<1>2. offered' \subseteq OnOffer(question.of)'
  <2>1. PICK u : u = question.of
    OBVIOUS
  <2>2. offered' \subseteq OnOffer(u)' /\ question'.of = u
    BY <2>1
  <2> QED BY <2>2 DEF OnOffer, Products
<1>3. OfQuestion'
  BY <1>1 DEF OfQuestion, Told, ReadRecently, ShownWasTrue, FoundSoFar, AllMeansAll, InProgress, Covers
<1> QED BY <1>1, <1>2, <1>3, PartsOfAnswersNext

\* An edit adds to what has been in the table, and takes nothing off offer.
LEMMA EditProductKeeps ==
  ASSUME AnswersInv, StoresInv', NEW i \in Products, EditProduct(i) PROVE AnswersInv'
<1>1. /\ goods[i] # Gone /\ goods[i] < MaxEdits /\ goods' = [goods EXCEPT ![i] = goods[i] + 1]
      /\ recent' = recent \cup {<<i, goods[i] + 1>>} /\ UNCHANGED <<vars, question, offered>>
  BY DEF EditProduct
<1>2. /\ goods \in [Products -> (0..MaxEdits) \cup {Gone}]
      /\ recent \subseteq Products \X (0..MaxEdits)
      /\ offered \subseteq OnOffer(question.of)
  BY PartsOfAnswers
<1>3. goods[i] + 1 \in 0..MaxEdits /\ goods[i] + 1 # Gone
  BY <1>1, <1>2, AnswersAssumption
<1>4. /\ goods' \in [Products -> (0..MaxEdits) \cup {Gone}] /\ goods'[i] = goods[i] + 1
      /\ \A j \in Products \ {i} : goods'[j] = goods[j]
  BY <1>1, <1>2, <1>3
<1>5. \A j \in Products : goods'[j] = Gone <=> goods[j] = Gone
  BY <1>1, <1>3, <1>4
<1>6. \A u : OnOffer(u)' = OnOffer(u)
  BY <1>1, <1>5 DEF OnOffer, Products, vars
<1>7. ASSUME RowsNow \subseteq recent PROVE RowsNow' \subseteq recent'
  <2>1. \A j \in Products \ {i} : goods'[j] # Gone => <<j, goods'[j]>> \in recent
    BY <1>4, <1>5, <1>7 DEF RowsNow
  <2>2. \A j \in Products : goods'[j] # Gone => <<j, goods'[j]>> \in recent'
    BY <1>1, <1>4, <2>1
  <2> QED BY <2>2 DEF RowsNow, Products
<1>8. recent' \subseteq Products \X (0..MaxEdits)
  BY <1>1, <1>2, <1>3
<1> HIDE DEF Products
<1> QED BY <1>1, <1>2, <1>4, <1>6, <1>7, <1>8, QuestionStays DEF vars

\* A product that is deleted is not on offer any more.
LEMMA DeleteProductKeeps ==
  ASSUME AnswersInv, StoresInv', NEW i \in Products, DeleteProduct(i) PROVE AnswersInv'
<1>1. /\ goods' = [goods EXCEPT ![i] = Gone] /\ offered' = offered \ {i}
      /\ UNCHANGED <<vars, question, recent>>
  BY DEF DeleteProduct
<1>2. /\ goods \in [Products -> (0..MaxEdits) \cup {Gone}]
      /\ recent \subseteq Products \X (0..MaxEdits)
      /\ offered \subseteq OnOffer(question.of)
  BY PartsOfAnswers
<1>3. /\ goods' \in [Products -> (0..MaxEdits) \cup {Gone}] /\ goods'[i] = Gone
      /\ \A j \in Products \ {i} : goods'[j] = goods[j]
  BY <1>1, <1>2
<1>4. \A u : OnOffer(u) \ {i} \subseteq OnOffer(u)'
  BY <1>1, <1>3 DEF OnOffer, Products, vars
<1>5. RowsNow' \subseteq RowsNow
  BY <1>3 DEF RowsNow, Products
<1> QED BY <1>1, <1>2, <1>3, <1>4, <1>5, QuestionStays DEF vars

\* Stores, and what they no longer hold whole is not on offer.
LEMMA StoreStepKeeps ==
  ASSUME AnswersInv, StoresInv', StoreStep PROVE AnswersInv'
<1>1. /\ UNCHANGED <<goods, question, recent>>
      /\ offered' = offered \cap OnOffer(question.of)'
  BY DEF StoreStep
<1>2. backend' = backend
  BY DEF StoreStep, Store, Clear, StoreVector, DeleteByFilter, Write, Unanswered, Refused
<1>3. /\ goods \in [Products -> (0..MaxEdits) \cup {Gone}]
      /\ recent \subseteq Products \X (0..MaxEdits)
  BY PartsOfAnswers
<1>4. RowsNow' = RowsNow
  BY <1>1 DEF RowsNow, Products
<1>5. \A u : offered' \subseteq OnOffer(u)' \/ u # question.of
  BY <1>1 DEF OnOffer, Products
<1> QED BY <1>1, <1>2, <1>3, <1>4, <1>5, QuestionStays

\* No step at all.
LEMMA AnswersStutter ==
  ASSUME AnswersInv, StoresInv', UNCHANGED allVars PROVE AnswersInv'
<1>1. UNCHANGED <<vars, goods, question, recent, offered>>
  BY DEF allVars, asking
<1>2. RowsNow' = RowsNow /\ \A u : OnOffer(u)' = OnOffer(u)
  BY <1>1, SameOffer
<1> QED BY <1>1, <1>2, PartsOfAnswers, QuestionStays DEF vars

\* A step of Answers is one of the stores, or leaves them be.
LEMMA StoresAreStores == [AnswersNext]_allVars => [Next]_vars
<1>1. StoreStep => Next
  BY DEF StoreStep, Store, Clear, Next
<1>2. AnswersNext => StoreStep \/ UNCHANGED vars
  BY DEF AnswersNext, EditProduct, DeleteProduct, Ask, Classify, Retrieve, Search, LookUpRows,
     Order, HumanHandle, Generate, QuestionFails
<1>3. UNCHANGED allVars => UNCHANGED vars
  BY DEF allVars
<1> QED BY <1>1, <1>2, <1>3

\* Nobody has asked.
LEMMA InitAnswers == AnswersInit => AnswersInv
<1> SUFFICES ASSUME AnswersInit PROVE AnswersInv
  OBVIOUS
<1>1. /\ Init /\ goods = [i \in Products |-> 0] /\ question = NoQuestion
      /\ recent = {} /\ offered = {}
  BY DEF AnswersInit
<1>2. StoresInv
  BY <1>1, InitStores
<1>3. goods \in [Products -> (0..MaxEdits) \cup {Gone}]
  BY <1>1, AnswersAssumption
<1>4. PICK a \in Users : a = AnyUser
  BY StoresAssumption DEF AnyUser
<1>5. PICK x : x = QuestionOf(a, "answered")
  OBVIOUS
<1>6. "answered" \in Stations
  BY DEF Stations
<1>7. /\ x \in Question /\ x.at = "answered" /\ x.intent = "other" /\ x.all = FALSE /\ x.ids = {}
      /\ x.prompt.sections = {} /\ x.prompt.products = {}
  BY <1>5, <1>6, NewQuestion
<1>8. question = x
  BY <1>1, <1>4, <1>5 DEF NoQuestion
<1>9. OfQuestion
  BY <1>7, <1>8
     DEF OfQuestion, Told, ReadRecently, ShownWasTrue, FoundSoFar, AllMeansAll, InProgress
<1> QED BY <1>1, <1>2, <1>3, <1>7, <1>8, <1>9, PartsOfAnswers

\* Each step keeps AnswersInv.
LEMMA NextAnswers == AnswersInv /\ [AnswersNext]_allVars => AnswersInv'
<1> SUFFICES ASSUME AnswersInv, [AnswersNext]_allVars PROVE AnswersInv'
  OBVIOUS
<1>1. StoresInv'
  BY StoresAreStores, NextStores DEF AnswersInv
<1> QED BY <1>1, ClassifyKeeps, RetrieveKeeps, SearchKeeps, LookUpRowsKeeps, OrderKeeps,
           HumanHandleKeeps, GenerateKeeps, AskKeeps, EditProductKeeps, DeleteProductKeeps,
           StoreStepKeeps, AnswersStutter DEF AnswersNext

\* AnswersInv holds of questions, table and stores together.
LEMMA AnswersInductive == AnswersSpec => []AnswersInv
  BY InitAnswers, NextAnswers, PTL DEF AnswersSpec

\* Under the questions, the table and the worker the stores are those of
\* VectorStores: what is proved of them holds here.
THEOREM AnswersHaveStores == AnswersSpec => Spec
<1>1. AnswersInit => Init
  BY DEF AnswersInit
<1> QED BY <1>1, StoresAreStores, PTL DEF AnswersSpec, Spec

\* Every variable has its type, the LLM is told of an order after an order and
\* never else, and only a product question has products.
THEOREM TypeCorrect == AnswersSpec => []AnswersTypeOK
<1>1. AnswersInv => AnswersTypeOK
  BY DEF AnswersInv
<1> QED BY <1>1, AnswersInductive, PTL

\* Every product that Generate puts before the LLM is a row that was in the
\* table since the question came, however products are edited and deleted.
THEOREM ShownIsTrue == AnswersSpec => []ShownWasTrue
<1>1. AnswersInv => ShownWasTrue
  BY DEF AnswersInv
<1> QED BY <1>1, AnswersInductive, PTL

\* Asked for all products, the graph shows all that were on offer all the time,
\* whichever store they are in, and in Qdrant if a page holds them.
THEOREM AllAreShown == AnswersSpec => []AllMeansAll
<1>1. AnswersInv => AllMeansAll
  BY DEF AnswersInv
<1> QED BY <1>1, AnswersInductive, PTL
=============================================================================
