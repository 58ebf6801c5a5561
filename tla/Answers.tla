------------------------------ MODULE Answers ------------------------------
(***************************************************************************)
(* A question on its way through the graph of CustomerServiceWorkFlow      *)
(* (classify, retrieve, product or orders and humanHandle, generate), and  *)
(* the goods it puts before the LLM: rows of the products table, found     *)
(* through the vector store, while products are edited and deleted and     *)
(* agents are stored and cleared.                                          *)
(*                                                                         *)
(* A product is its version, which an edit changes; its vectors stay what  *)
(* they were.  What the LLM says is a choice.  The charges of the calls    *)
(* are in TokenMeter, the hand-over and the memory in Conversations.       *)
(***************************************************************************)
EXTENDS VectorStores

CONSTANTS
  Gone,      \* a product that has been deleted
  TopK,      \* results of a similarity search (3)
  MaxEdits,  \* bound: edits of a product
  Many,      \* no bound
  Budgets    \* bounds: how often each operation is called in a history

ASSUME AnswersAssumption == TopK \in Nat \ {0} /\ MaxEdits \in Nat /\ Gone \notin Nat

VARIABLES
  goods,     \* the products table
  question,  \* the question in progress
  left,      \* what is left of the budget
  (* observers, read by properties only *)
  recent,    \* rows of products there have been since the question came
  offered    \* products sold and found all the time since then

asking == <<goods, question, left, recent, offered>>
allVars == <<vars, asking>>

-----------------------------------------------------------------------------
Products == 1..NumProducts
Intents == {"ORDER", "HUMAN_HANDLE", "PRODUCT", "other"}
Stations == {"classify", "retrieve", "product", "rows", "orders", "humanHandle",
             "generate", "answered", "failed"}
AnyUser == CHOOSE u \in Users : TRUE
\* What a question has come to; `state' is what the nodes of the graph set.
QuestionOf(u, s) ==
  [at |-> s, of |-> u, intent |-> "other", all |-> FALSE, ids |-> {},
   state |-> [order |-> FALSE, products |-> {}],
   prompt |-> [sections |-> {}, products |-> {}]]
NoQuestion == QuestionOf(AnyUser, "answered")
InProgress == question.at \notin {"answered", "failed"}

RowsNow == {<<i, goods[i]>> : i \in {i \in Products : goods[i] # Gone}}
\* Products that a call has stored for the user and whose rows are there.
OnOffer(u) ==
  {i \in Products :
     /\ goods[i] # Gone
     /\ \E c \in whole : /\ call[c].state = "stored" /\ call[c].kind = "product"
                         /\ Owner[call[c].agent] = u}
Spend(op) == /\ left[op] # 0
             /\ left' = IF left[op] = Many THEN left ELSE [left EXCEPT ![op] = @ - 1]

AnswersInit ==
  /\ Init
  /\ goods = [i \in Products |-> 0]
  /\ question = NoQuestion
  /\ left \in Budgets
  /\ recent = {} /\ offered = {}

-----------------------------------------------------------------------------
(* The products table, and the worker's calls                              *)

\* editProduct; nothing tells the agents.
EditProduct(i) ==
  /\ Spend("change")
  /\ goods[i] # Gone /\ goods[i] < MaxEdits
  /\ goods' = [goods EXCEPT ![i] = @ + 1]
  /\ recent' = recent \cup {<<i, goods[i] + 1>>}
  /\ UNCHANGED <<vars, question, offered>>

\* deleteProduct
DeleteProduct(i) ==
  /\ Spend("change")
  /\ goods[i] # Gone
  /\ goods' = [goods EXCEPT ![i] = Gone]
  /\ offered' = offered \ {i}
  /\ UNCHANGED <<vars, question, recent>>

\* ingestAgent and DegestAgent: no list with a missing product is stored.
Store(c, kind, a) ==
  /\ Spend(kind)
  /\ kind = "product" => \A i \in Products : goods[i] # Gone
  /\ StoreVector(c, kind, a)
Clear(kind, a) == Spend("clear") /\ DeleteByFilter(kind, a)

StoreStep ==
  /\ \/ \E c \in Calls, kind \in Kinds, a \in Agents : Store(c, kind, a)
     \/ \E kind \in Kinds, a \in Agents : Clear(kind, a)
     \/ \E c \in Calls : (Write(c) \/ Unanswered(c) \/ Refused(c)) /\ UNCHANGED left
  /\ UNCHANGED <<goods, question, recent>>
  /\ offered' = offered \cap OnOffer(question.of)'

-----------------------------------------------------------------------------
(* The graph                                                               *)

Goes(from, new) == question.at = from /\ question' = new
At(s) == [question EXCEPT !.at = s]

\* workflow: the model is chosen, the history read, the graph invoked.
Ask(u) ==
  /\ Spend("ask") /\ ~InProgress
  /\ question' = QuestionOf(u, "classify")
  /\ recent' = RowsNow /\ offered' = OnOffer(u)
  /\ UNCHANGED <<vars, goods>>

\* classifyIntent: the LLM answers with a category, or with anything.
Classify ==
  /\ \E i \in Intents :
       Goes("classify", [question EXCEPT !.at = "retrieve", !.intent = i])
  /\ UNCHANGED <<vars, goods, left, recent, offered>>

\* condtionalStages
\* Mutant: what is not named goes to the products.
ProductOtherwise(intent) == CASE intent = "ORDER" -> "orders"
                              [] intent = "HUMAN_HANDLE" -> "humanHandle"
                              [] OTHER -> "product"
Stage(intent) == CASE intent = "ORDER" -> "orders"
                   [] intent = "HUMAN_HANDLE" -> "humanHandle"
                   [] intent = "PRODUCT" -> "product"
                   [] OTHER -> "generate"
\* Retrieve: the documents of the user that are nearest to the question.
Retrieve ==
  /\ Goes("retrieve", At(Stage(question.intent)))
  /\ UNCHANGED <<vars, goods, left, recent, offered>>

\* productIds are those of the metadata of what the searches return.
Nearest(u) ==
  {{r.item : r \in s} : s \in SimilaritySearch("product", OfUser(u), TopK)}
All(u) == {{r.item : r \in s} : s \in SearchByFilter("product", u)}

\* product: the LLM tells PRODUCT ALL from the rest; the store is searched.
Search ==
  /\ \/ \E ids \in All(question.of) :
          Goes("product", [question EXCEPT !.at = "rows", !.all = TRUE, !.ids = ids])
     \/ \E ids \in Nearest(question.of) :
          Goes("product", [question EXCEPT !.ids = ids,
                             !.at = IF ids = {} THEN "generate" ELSE "rows"])
  /\ UNCHANGED <<vars, goods, left, recent, offered>>

\* Mutant: findFirst.
FindFirst(ids) == LET there == {i \in ids : goods[i] # Gone} IN
                  IF there = {} THEN {} ELSE {Min(there)}
\* product.findMany where id in productIds.
FindMany(ids) == {i \in ids : goods[i] # Gone}
\* Mutant: what was found by its vectors is shown as they have it.
AsStored(found) == {<<i, 0>> : i \in found}
\* Every product found, with its price and stock.
ProductSerialiase(found) == {<<i, goods[i]>> : i \in found}
LookUpRows ==
  /\ Goes("rows", [question EXCEPT !.at = "generate",
               !.state.products = ProductSerialiase(FindMany(question.ids))])
  /\ UNCHANGED <<vars, goods, left, recent, offered>>

\* order adds a text that the customer will be handed over.
Order ==
  /\ Goes("orders", [question EXCEPT !.at = "humanHandle", !.state.order = TRUE])
  /\ UNCHANGED <<vars, goods, left, recent, offered>>
HumanHandle ==
  /\ Goes("humanHandle", At("generate"))
  /\ UNCHANGED <<vars, goods, left, recent, offered>>

\* The prompt has a section for an order if a node has set one; the documents
\* and the history are texts.
CustomerServicePrompt(state) ==
  [sections |-> IF state.order THEN {"ORDER STATUS"} ELSE {},
   products |-> state.products]
\* Generate
Generate ==
  /\ Goes("generate", [question EXCEPT !.at = "answered",
                          !.prompt = CustomerServicePrompt(question.state)])
  /\ UNCHANGED <<vars, goods, left, recent, offered>>

\* A call of a service, the store or the database fails, and so does workflow.
QuestionFails ==
  /\ InProgress /\ question' = At("failed")
  /\ UNCHANGED <<vars, goods, left, recent, offered>>

AnswersNext ==
  \/ \E i \in Products : EditProduct(i) \/ DeleteProduct(i)
  \/ StoreStep
  \/ \E u \in Users : Ask(u)
  \/ Classify \/ Retrieve \/ Search \/ LookUpRows \/ Order \/ HumanHandle
  \/ Generate \/ QuestionFails

AnswersSpec == AnswersInit /\ [][AnswersNext]_allVars

-----------------------------------------------------------------------------
Lists == SUBSET (Products \X (0..MaxEdits))
(* The question holds what its station implies: only a product question has *)
(* products, and the LLM is told of an order after an order and never else. *)
AnswersTypeOK ==
  /\ TypeOK
  /\ goods \in [Products -> (0..MaxEdits) \cup {Gone}]
  /\ question \in [at : Stations, of : Users, intent : Intents, all : BOOLEAN,
                   ids : SUBSET Products,
                   state : [order : BOOLEAN, products : Lists],
                   prompt : [sections : SUBSET {"ORDER STATUS"}, products : Lists]]
  /\ question.at = "answered" =>
       (question.prompt.sections # {} <=> question.intent = "ORDER")
  /\ question.ids # {} => question.intent = "PRODUCT"
  /\ recent \subseteq Products \X (0..MaxEdits)
  /\ offered \subseteq Products

(* The store and the table are read one after the other, and vectors are   *)
(* never told of a product's edits and deletion.  Still every product in   *)
(* the prompt is a row that was in the table, with that price and stock,   *)
(* at some time since the question came: none that had been deleted        *)
(* before, and no old price from the vectors.                              *)
ShownWasTrue == question.at = "answered" => question.prompt.products \subseteq recent

(* Asked for all products, the workflow shows each that was stored for the *)
(* user and in the table all the time, whatever is edited, deleted, stored *)
(* and cleared beside it; with Qdrant as long as one page holds them.      *)
AllMeansAll ==
  question.at = "answered" /\ question.all
    /\ (backend = "qdrant" => NumProducts <= ScrollLimit)
  => \A i \in offered : \E p \in question.prompt.products : p[1] = i
=============================================================================
