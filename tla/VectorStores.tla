---------------------------- MODULE VectorStores ----------------------------
(***************************************************************************)
(* The three vector stores an installation can be wired to, which offer    *)
(* the same calls: PostgreStoreService, SupabaseStoreService and           *)
(* VectorStoreService (Qdrant).  They differ in what one request writes,   *)
(* in what they do when no answer comes, in the ids of their points and in *)
(* the metadata they put beside them; callers filter all three alike.      *)
(*                                                                         *)
(* Texts, embeddings and distances are data: a document is its chunks      *)
(* 1..FileLen, the products of an agent are 1..NumProducts, which other    *)
(* agents sell too, and a similarity search may return any few matches (the *)
(* index is approximate).  The AgentUserDataTrain collection has no caller. *)
(*                                                                         *)
(* Qdrant applies updates in the order it took them.  It is asked to wait  *)
(* for it only when a document is stored: products and deletions may be    *)
(* seen by a search a moment after the answer.  `rows' is what has been    *)
(* taken, so of Qdrant's products and deletions the properties speak of    *)
(* the time when they are applied.                                         *)
(***************************************************************************)
EXTENDS Integers, FiniteSetsExt

CONSTANTS
  Calls,        \* calls of storeVectorFile and storeVectorProduct
  Agents, Users,
  Owner,        \* the user of an agent
  FileLen,      \* chunks of a document
  NumProducts,  \* products of an agent
  ChunkSize,    \* CHUNK_SIZE (50): points of one upsert to Qdrant
  RETRY,        \* RETRY (3): attempts at it
  ScrollLimit   \* points one scroll of Qdrant returns (10 by default)

ASSUME StoresAssumption ==
  /\ Owner \in [Agents -> Users] /\ Agents # {}
  /\ {FileLen, NumProducts, ChunkSize, RETRY, ScrollLimit} \subseteq Nat \ {0}

VARIABLES
  backend,  \* the store the installation is wired to
  rows,     \* its points
  call,     \* where a call has come to
  (* observers, read by properties only *)
  whole,    \* calls whose points nobody has had a reason to remove or replace
  cleared   \* collections of agents deleted since the last call for them

vars == <<backend, rows, call, whole, cleared>>

-----------------------------------------------------------------------------
Backends == {"postgre", "supabase", "qdrant"}
Kinds == {"file", "product"}
Len(kind) == IF kind = "file" THEN FileLen ELSE NumProducts
Positions == 1..(FileLen + NumProducts)
\* A random id, made by a call in an attempt; or that of a product.
Id == (Calls \X Positions \X (0..RETRY)) \cup {<<i>> : i \in Positions}
Row == [kind : Kinds, id : Id, agent : Agents, item : Positions, by : Calls]
States == {"new", "storing", "stored", "failed"}
Call == [kind : Kinds, agent : Agents, pos : 1..Max({FileLen, NumProducts}) + 1,
         attempt : 0..RETRY, state : States]

Storing(c) == call[c].state = "storing"

Init ==
  /\ backend \in Backends
  /\ rows = {} /\ whole = {} /\ cleared = {}
  /\ call = [c \in Calls |->
       [kind |-> "file", agent |-> CHOOSE a \in Agents : TRUE, pos |-> 1,
        attempt |-> 0, state |-> "new"]]

-----------------------------------------------------------------------------
(* Filters                                                                 *)

\* The metadata of a point.
\* Mutant: it names the agent differently.
DocumentIdMetadata(r) == [userId |-> Owner[r.agent], documentId |-> r.agent]
\* Mutant: the user is left out.
NoUserMetadata(r) == [agentId |-> r.agent]
PostgreMetadata(r) == [userId |-> Owner[r.agent], agentId |-> r.agent]
SupabaseMetadata(r) == [userId |-> Owner[r.agent], agentId |-> r.agent]
\* Qdrant's documents carry their agent as documentId.
QdrantMetadata(r) ==
  IF r.kind = "file" THEN [userId |-> Owner[r.agent], documentId |-> r.agent]
  ELSE [userId |-> Owner[r.agent], agentId |-> r.agent]
Metadata(r) == CASE backend = "postgre" -> PostgreMetadata(r)
                 [] backend = "supabase" -> SupabaseMetadata(r)
                 [] backend = "qdrant" -> QdrantMetadata(r)

\* WHERE metadata->>'key' = 'value' AND ...; a key that is not there is NULL.
PostgreWhere(m, must) == \A f \in must : f[1] \in DOMAIN m /\ m[f[1]] = f[2]
\* metadata contains {key: value}, for every clause.
SupabaseContains(m, must) == must \subseteq {<<k, m[k]>> : k \in DOMAIN m}
\* The `must' of Qdrant itself.
QdrantMust(m, must) == SupabaseContains(m, must)
Matches(r, must) == CASE backend = "postgre" -> PostgreWhere(Metadata(r), must)
                      [] backend = "supabase" -> SupabaseContains(Metadata(r), must)
                      [] backend = "qdrant" -> QdrantMust(Metadata(r), must)

In(kind, must) == {r \in rows : r.kind = kind /\ Matches(r, must)}

\* deleteAllVectorByUserOrPrompt, and what every retrieval asks for.
OfAgent(a) == {<<"userId", Owner[a]>>, <<"agentId", a>>}
OfUser(u) == {<<"userId", u>>}

\* searchByFilter: the results it may return.
SearchByFilter(kind, u) ==
  LET found == In(kind, OfUser(u)) IN
    IF backend = "qdrant" /\ Cardinality(found) > ScrollLimit
    THEN kSubset(ScrollLimit, found)
    ELSE {found}

\* The nearest of what was found: any, for distances are data.
Closest(found, limit) == kSubset(Min({limit, Cardinality(found)}), found)

\* ORDER BY embedding <=> $1 LIMIT limit, of the rows the same WHERE leaves.
PostgreSearch(kind, must, limit) ==
  Closest({r \in rows : r.kind = kind /\ PostgreWhere(PostgreMetadata(r), must)}, limit)

\* The clauses become one object, which the function in the database compares
\* with the metadata.
NormalizeFilter(must) ==
  [k \in {f[1] : f \in must} |-> CHOOSE v \in {f[2] : f \in must} : <<k, v>> \in must]
RpcMatch(m, filter) == \A k \in DOMAIN filter : k \in DOMAIN m /\ m[k] = filter[k]
SupabaseSearch(kind, must, limit) ==
  Closest({r \in rows : r.kind = kind
             /\ RpcMatch(SupabaseMetadata(r), NormalizeFilter(must))}, limit)

QdrantSearch(kind, must, limit) ==
  Closest({r \in rows : r.kind = kind /\ QdrantMust(QdrantMetadata(r), must)}, limit)

\* similaritySearch: the results it may return.
SimilaritySearch(kind, must, limit) ==
  CASE backend = "postgre" -> PostgreSearch(kind, must, limit)
    [] backend = "supabase" -> SupabaseSearch(kind, must, limit)
    [] backend = "qdrant" -> QdrantSearch(kind, must, limit)

-----------------------------------------------------------------------------
(* Storing                                                                 *)

\* The document is read and cut, or the products serialised, and embedded.
StoreVector(c, kind, a) ==
  /\ call[c].state = "new"
  /\ call' = [call EXCEPT ![c] = [kind |-> kind, agent |-> a, pos |-> 1,
                                  attempt |-> 0, state |-> "storing"]]
  /\ LET rivals == IF backend = "qdrant" /\ kind = "product"
                   THEN {d \in Calls : call[d].kind = kind} ELSE {}
     IN whole' = (whole \ rivals) \cup
                 (IF \E d \in rivals : Storing(d) THEN {} ELSE {c})
  /\ cleared' = cleared \ {<<a, kind>>}
  /\ UNCHANGED <<backend, rows>>

\* Where the points that one request writes end: a row, everything, or
\* CHUNK_SIZE chunks of a document and a single product.
PostgreBatch(c) == call[c].pos
SupabaseBatch(c) == Len(call[c].kind)
QdrantBatch(c) ==
  IF call[c].kind = "file" THEN Min({call[c].pos + ChunkSize - 1, FileLen})
  ELSE call[c].pos
BatchEnd(c) == CASE backend = "postgre" -> PostgreBatch(c)
                 [] backend = "supabase" -> SupabaseBatch(c)
                 [] backend = "qdrant" -> QdrantBatch(c)

\* A product is stored in Qdrant under its own id, all else under a new one,
\* made before the first attempt.
\* Mutant: the ids are made anew for each attempt.
IdPerAttempt(c, i) ==
  IF backend = "qdrant" /\ call[c].kind = "product"
  THEN <<i>> ELSE <<c, i, call[c].attempt>>
PointId(c, i) ==
  IF backend = "qdrant" /\ call[c].kind = "product"
  THEN <<i>> ELSE <<c, i, 0>>
Points(c) ==
  {[kind |-> call[c].kind, id |-> PointId(c, i), agent |-> call[c].agent, item |-> i,
    by |-> c] : i \in call[c].pos..BatchEnd(c)}

\* insert or upsert
Land(c) ==
  LET new == Points(c) IN
  rows' = {r \in rows : \A p \in new : r.id # p.id \/ r.kind # p.kind} \cup new

GoesOn(c) == [call[c] EXCEPT !.pos = BatchEnd(c) + 1, !.attempt = 0,
    !.state = IF BatchEnd(c) = Len(call[c].kind) THEN "stored" ELSE @]

Write(c) ==
  /\ Storing(c)
  /\ Land(c)
  /\ call' = [call EXCEPT ![c] = GoesOn(c)]
  /\ UNCHANGED <<backend, whole, cleared>>

\* No answer, whether or not the points landed.  Only the batches of
\* documents in Qdrant are tried again, RETRY times in all.
Retries(c) == backend = "qdrant" /\ call[c].kind = "file" /\ call[c].attempt + 1 < RETRY
Unanswered(c) ==
  /\ Storing(c)
  /\ Land(c) \/ UNCHANGED rows
  /\ call' = IF Retries(c) THEN [call EXCEPT ![c].attempt = @ + 1]
             ELSE [call EXCEPT ![c].state = "failed"]
  /\ UNCHANGED <<backend, whole, cleared>>

\* handleQdrantError, and the catch of the others.
Refused(c) ==
  /\ Storing(c)
  /\ call' = [call EXCEPT ![c].state = "failed"]
  /\ UNCHANGED <<backend, rows, whole, cleared>>

-----------------------------------------------------------------------------
\* Qdrant's answer says that the deletion is taken: no update that comes
\* later can be overtaken by it.
DeleteByFilter(kind, a) ==
  /\ rows' = rows \ In(kind, OfAgent(a))
  /\ whole' = {c \in whole : call[c].kind # kind \/ call[c].agent # a}
  /\ cleared' = IF \E c \in Calls : Storing(c) /\ call[c].kind = kind /\ call[c].agent = a
                THEN cleared ELSE cleared \cup {<<a, kind>>}
  /\ UNCHANGED <<backend, call>>

Next ==
  \/ \E c \in Calls : \/ \E kind \in Kinds, a \in Agents : StoreVector(c, kind, a)
                      \/ Write(c) \/ Unanswered(c) \/ Refused(c)
  \/ \E kind \in Kinds, a \in Agents : DeleteByFilter(kind, a)

Spec == Init /\ [][Next]_vars

-----------------------------------------------------------------------------
(* Type correctness; and no two points of a collection have one id.        *)
TypeOK ==
  /\ backend \in Backends
  /\ rows \subseteq Row
  /\ call \in [Calls -> Call]
  /\ whole \subseteq Calls
  /\ cleared \subseteq Agents \X Kinds
  /\ \A r, s \in rows : r.kind = s.kind /\ r.id = s.id => r = s

(* A call that returned has stored every chunk or product, and once: with  *)
(* batches, with answers that were lost after the points had landed, with  *)
(* retries, and with deletions and calls for other agents in between.      *)
(* What failed left a beginning of what it had to store, and nothing       *)
(* beyond: the worker's next attempt finds no hole to account for.         *)
StoredAsAnswered ==
  \A c \in whole :
    LET stored == {r \in rows : r.by = c}
        items == {r.item : r \in stored} IN
    CASE call[c].state = "stored" ->
           Cardinality(stored) = Len(call[c].kind) /\ items = 1..Len(call[c].kind)
      [] call[c].state = "failed" -> \A i \in items : 1..i \subseteq items
      [] OTHER -> TRUE

(* An agent's collection that was deleted with no call in progress holds   *)
(* nothing of it.  Excepted are documents in Qdrant: they carry their      *)
(* agent under a key that the worker's filter does not name.               *)
ClearedIsGone ==
  \A k \in cleared :
    (backend = "qdrant" /\ k[2] = "file") \/ ~\E r \in rows : r.agent = k[1] /\ r.kind = k[2]

(* The workflow finds the products that the worker stored for an agent of  *)
(* the user, whichever store they are in, and neither search finds one of  *)
(* another user; Qdrant as long as they fit in one page.                   *)
StoredIsFound ==
  \A u \in Users : \A found \in SearchByFilter("product", u) :
    /\ \A r \in found \cup UNION SimilaritySearch("product", OfUser(u), 1) :
         Owner[r.agent] = u
    /\ \A c \in whole :
         /\ call[c].state = "stored" /\ call[c].kind = "product"
         /\ Owner[call[c].agent] = u
         /\ (backend = "qdrant" => NumProducts <= ScrollLimit)
         => \A i \in 1..NumProducts : \E r \in found : r.item = i
=============================================================================
