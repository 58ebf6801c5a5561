------------------------ MODULE AgentIngestionProofs ------------------------
(***************************************************************************)
(* Proofs about AgentIngestion, for any number of agents, documents,       *)
(* products, tasks and workers: that its variables have their types, that  *)
(* the document of an agent handled in order is kept, that such an agent   *)
(* that is READY has all its pieces, and that it is an agent of            *)
(* AgentKnowledge.  Each rests on the invariant of the one before it.      *)
(***************************************************************************)
EXTENDS AgentIngestion, SequenceTheorems, TLAPS

-----------------------------------------------------------------------------
(* The inductive invariant                                                 *)

TaskData == [kind : {"add", "edit", "delete"}, agent : Agents,
             old : Contents, new : Contents]

Whole == [file : Files, list : Lists]

\* A task in progress has the data of its kind, and takes the steps of its kind.
DataThere ==
  \A t \in Tasks : Active(t) =>
    /\ data[t] \in TaskData
    /\ data[t].kind # "delete" => New(t) \in Whole
    /\ data[t].kind # "add" => Old(t) \in Whole
    /\ pc[t] = "create" => data[t].kind = "add"
    /\ pc[t] = "update" => data[t].kind = "edit"
    /\ pc[t] = "moveIn" => data[t].kind # "delete"
    /\ pc[t] = "moveOut" => data[t].kind # "add"
    /\ pc[t] \in {"list", "listRest", "file", "fileRest", "ready"}
         => data[t].kind # "delete"

\* A row has both its parts.
RowsWhole == \A a \in Agents : HasRow(a) => row[a] \in Whole

\* The queue holds jobs that wait, each once.
QueueWaits ==
  \A i, j \in 1..Len(waiting) :
    /\ pc[waiting[i]] = "waiting"
    /\ waiting[i] = waiting[j] => i = j

\* The document of an orderly agent is named by no other agent.
NotShared ==
  \A a \in orderly, b \in Agents, f \in Files :
    a \in Naming(f) /\ b \in Naming(f) => a = b

\* An orderly agent has one task in progress.
OneTask ==
  \A a \in orderly : \A t, u \in Tasks :
    Active(t) /\ Active(u) /\ Agent(t) = a /\ Agent(u) = a => t = u

\* How far a request is, in terms of its row and its documents.
InPlace(f) == folder[f] = "file"
Written(t) == HasRow(Agent(t)) /\ row[Agent(t)] = New(t)
Progress(t) ==
  /\ pc[t] = "create" => ~HasRow(Agent(t))
  /\ pc[t] = "update" => /\ HasRow(Agent(t)) /\ row[Agent(t)] = Old(t)
                         /\ InPlace(Old(t).file)
  /\ pc[t] = "moveIn" => Written(t) /\ (data[t].kind = "edit" => ~FileSame(t))
  /\ pc[t] = "moveOut" =>
       \/ data[t].kind = "delete" /\ ~HasRow(Agent(t))
       \/ Written(t) /\ ~FileSame(t) /\ InPlace(New(t).file)
  /\ pc[t] = "enqueue" /\ HasRow(Agent(t)) => InPlace(row[Agent(t)].file)

RequestsProgress ==
  \A t \in Tasks : Requesting(t) /\ Agent(t) \in orderly => Progress(t)

TInv == TypeOK /\ DataThere /\ RowsWhole /\ QueueWaits
DInv == NotShared /\ OneTask /\ RequestsProgress /\ DocumentIsKept
IInv == TInv /\ DInv

-----------------------------------------------------------------------------
(* Types                                                                   *)

\* The steps of a request, which write the row, the folders and the queue.
LEMMA BeginTypes ==
  ASSUME TInv, NEW t \in Tasks, NEW a \in Agents, NEW f \in Files,
         NEW l \in Lists, Add(t, a, f, l) \/ Edit(t, a, f, l) \/ Delete(t, a)
  PROVE  TInv'
<1> USE DEF TInv, Begin
<1>1. orderly' \subseteq Agents
  BY DEF TypeOK, Add, Edit, Delete, Begins
<1>2. begun' \in 0..MaxRequests
  BY BoundAssumption DEF TypeOK, Add, Edit, Delete
<1>3. CASE Add(t, a, f, l)
  <2>1. data'[t] = [kind |-> "add", agent |-> a, old |-> Nothing,
                    new |-> [file |-> f, list |-> l]]
    BY <1>3 DEF TypeOK, Add
  <2>2. data'[t] \in TaskData /\ data'[t].new \in Whole
    BY <2>1 DEF TaskData, Contents, Nothing, Whole
  <2>3. TypeOK'
    BY <1>1, <1>2, <1>3, <2>2 DEF TypeOK, Add, Goto, RequestSteps, database,
       jobs, TaskData
  <2>4. DataThere'
    BY <1>3, <2>1, <2>2 DEF TypeOK, Add, Goto, DataThere, Active, New, Old
  <2>5. RowsWhole' /\ QueueWaits'
    BY <1>3 DEF TypeOK, Add, Goto, RowsWhole, QueueWaits, HasRow, database
  <2> QED BY <2>3, <2>4, <2>5
<1>4. CASE Edit(t, a, f, l)
  <2>1. data'[t] = [kind |-> "edit", agent |-> a, old |-> row[a],
                    new |-> [file |-> f, list |-> l]]
    BY <1>4 DEF TypeOK, Edit
  <2>2. data'[t] \in TaskData /\ data'[t].new \in Whole /\ data'[t].old \in Whole
    BY <1>4, <2>1 DEF TaskData, Contents, Whole, RowsWhole, Edit, TypeOK
  <2>3. TypeOK'
    BY <1>1, <1>2, <1>4, <2>2 DEF TypeOK, Edit, Goto, RequestSteps, database,
       jobs, TaskData
  <2>4. DataThere'
    BY <1>4, <2>1, <2>2 DEF TypeOK, Edit, Goto, DataThere, Active, New, Old
  <2>5. RowsWhole' /\ QueueWaits'
    BY <1>4 DEF TypeOK, Edit, Goto, RowsWhole, QueueWaits, HasRow, database
  <2> QED BY <2>3, <2>4, <2>5
<1>5. CASE Delete(t, a)
  <2>1. data'[t] = [kind |-> "delete", agent |-> a, old |-> row[a],
                    new |-> Nothing]
    BY <1>5 DEF TypeOK, Delete
  <2>2. data'[t] \in TaskData /\ data'[t].old \in Whole
    BY <1>5, <2>1 DEF TaskData, Contents, Whole, RowsWhole, Delete, TypeOK,
       Nothing
  <2>3. TypeOK'
    BY <1>1, <1>2, <1>5, <2>2 DEF TypeOK, Delete, Goto, RequestSteps, jobs,
       TaskData, Contents, Nothing
  <2>4. DataThere'
    BY <1>5, <2>1, <2>2 DEF TypeOK, Delete, Goto, DataThere, Active, New, Old
  <2>5. RowsWhole' /\ QueueWaits'
    BY <1>5 DEF TypeOK, Delete, Goto, RowsWhole, QueueWaits, HasRow
  <2> QED BY <2>3, <2>4, <2>5
<1> QED BY <1>3, <1>4, <1>5

\* A job joins the queue at its end.
LEMMA AppendTypes ==
  ASSUME TInv, NEW t \in Tasks, Active(t), pc[t] # "waiting",
         Goto(t, "waiting"), waiting' = Append(waiting, t)
  PROVE  waiting' \in Seq(Tasks) /\ QueueWaits'
<1>0. waiting \in Seq(Tasks) /\ \A i \in 1..Len(waiting) : waiting[i] \in Tasks
  BY DEF TInv, TypeOK
<1>1. /\ waiting' \in Seq(Tasks)
      /\ Len(waiting') = Len(waiting) + 1
      /\ \A i \in 1..Len(waiting) : waiting'[i] = waiting[i]
      /\ waiting'[Len(waiting) + 1] = t
  BY <1>0, AppendProperties
<1>2. \A i \in 1..Len(waiting) : waiting[i] # t
  BY DEF TInv, QueueWaits
<1>3. pc'[t] = "waiting" /\ \A u \in Tasks : u # t => pc'[u] = pc[u]
  BY DEF TInv, TypeOK, Goto
<1> QED BY <1>0, <1>1, <1>2, <1>3 DEF TInv, QueueWaits

LEMMA RequestTypes ==
  ASSUME TInv, NEW t \in Tasks,
         \/ Create(t) \/ Update(t) \/ MoveIn(t) \/ MoveOut(t) \/ Enqueue(t)
         \/ RequestFails(t)
  PROVE  TInv'
<1> USE DEF TInv
<1>0. Active(t) /\ data[t] \in TaskData /\ Agent(t) \in Agents
  BY DEF Create, Update, MoveIn, MoveOut, Enqueue, RequestFails, Requesting,
     RequestSteps, Active, DataThere, TaskData, Agent
<1>1. CASE Create(t)
  <2>1. New(t) \in Whole /\ Agent(t) \in Agents
    BY <1>1, <1>0 DEF Create, DataThere
  <2>2. row' \in [Agents -> Contents] /\ \A a \in Agents \ {Agent(t)} : row'[a] = row[a]
    BY <1>1, <2>1 DEF Create, TypeOK, Whole, Contents
  <2>3. row'[Agent(t)] \in Whole
    BY <1>1, <2>1 DEF Create, TypeOK
  <2>4. TypeOK'
    BY <1>1, <2>1, <2>2 DEF Create, TypeOK, Goto, RequestSteps, jobs, observers
  <2>5. DataThere' /\ QueueWaits'
    BY <1>0, <1>1 DEF Create, TypeOK, Goto, DataThere, QueueWaits,
       Active, New, Old, FileSame, jobs
  <2>6. RowsWhole'
    BY <1>1, <2>1, <2>2, <2>3 DEF Create, TypeOK, RowsWhole, HasRow
  <2> QED BY <2>4, <2>5, <2>6
<1>5. CASE Update(t)
  <2>1. New(t) \in Whole /\ Agent(t) \in Agents
    BY <1>5, <1>0 DEF Update, DataThere
  <2>2. row' \in [Agents -> Contents] /\ \A a \in Agents \ {Agent(t)} : row'[a] = row[a]
    BY <1>5, <2>1 DEF Update, TypeOK, Whole, Contents
  <2>3. row'[Agent(t)] \in Whole
    BY <1>5, <2>1 DEF Update, TypeOK
  <2>4. TypeOK'
    BY <1>5, <2>1, <2>2 DEF Update, TypeOK, Goto, RequestSteps, jobs, observers
  <2>5. DataThere' /\ QueueWaits'
    BY <1>0, <1>5 DEF Update, TypeOK, Goto, DataThere, QueueWaits,
       Active, New, Old, FileSame, jobs
  <2>6. RowsWhole'
    BY <1>5, <2>1, <2>2, <2>3 DEF Update, TypeOK, RowsWhole, HasRow
  <2> QED BY <2>4, <2>5, <2>6
<1>2. CASE MoveIn(t) \/ MoveOut(t)
  <2>1. TypeOK'
    BY <1>0, <1>2 DEF MoveIn, MoveOut, Move, TypeOK, Goto, RequestSteps, jobs,
       observers, database
  <2>2. DataThere' /\ QueueWaits' /\ RowsWhole'
    BY <1>0, <1>2 DEF MoveIn, MoveOut, TypeOK, Goto, DataThere, QueueWaits,
       Active, New, Old, RowsWhole, HasRow, database, TaskData
  <2> QED BY <2>1, <2>2
<1>3. CASE Enqueue(t)
  <2>1. waiting' \in Seq(Tasks) /\ QueueWaits'
    BY <1>0, <1>3, AppendTypes DEF Enqueue
  <2>2. TypeOK'
    BY <1>0, <1>3, <2>1 DEF Enqueue, IngestJob, DegestJob, RemovalJob, TypeOK, Goto,
       QueueSteps, jobs, database
  <2>3. DataThere' /\ RowsWhole'
    BY <1>0, <1>3 DEF Enqueue, TypeOK, Goto, DataThere, Active, New, Old,
       RowsWhole, HasRow, database
  <2> QED BY <2>1, <2>2, <2>3
<1>4. CASE RequestFails(t)
  <2>1. TypeOK'
    BY <1>0, <1>4, WorkAssumption DEF RequestFails, End, Drop, TypeOK, Goto, database
  <2>2. DataThere' /\ QueueWaits' /\ RowsWhole'
    BY <1>0, <1>4 DEF RequestFails, End, TypeOK, Goto, DataThere, QueueWaits,
       Active, New, Old, RowsWhole, HasRow, database, Requesting, RequestSteps
  <2> QED BY <2>1, <2>2
<1> QED BY <1>1, <1>2, <1>3, <1>4, <1>5

\* What every step of the queue and of the workers leaves alone: rows and
\* folders, and requests.  A job may go on or end.
Later ==
  /\ row' = row /\ folder' = folder
  /\ \A a \in Agents : HasRow(a)' <=> HasRow(a)
  /\ orderly' \subseteq orderly
  /\ \A t \in Tasks :
       \/ pc'[t] = pc[t] /\ data'[t] = data[t]
       \/ /\ pc[t] \notin RequestSteps \cup {"idle"} /\ pc'[t] \notin RequestSteps
          /\ pc'[t] = "idle" \/ data'[t] = data[t]

\* The part of TInv that is about tasks and the queue.
TasksTyped ==
  /\ pc \in [Tasks -> {"idle"} \cup RequestSteps \cup QueueSteps \cup WorkerSteps]
  /\ data \in [Tasks -> TaskData \cup {None}]
  /\ tries \in [Tasks -> 0..(Attempts - 1)]
  /\ stalls \in [Tasks -> 0..1]
  /\ DataThere /\ QueueWaits /\ RowsWhole

\* A job ends: what is known of the other tasks is as before.
LEMMA EndTypes ==
  ASSUME TInv, NEW t \in Tasks, pc[t] \in QueueSteps \cup WorkerSteps,
         pc[t] # "waiting", End(t), row' = row, waiting' = waiting,
         \A a \in Agents : HasRow(a)' <=> HasRow(a),
         orderly' \subseteq orderly, folder' = folder
  PROVE  TasksTyped' /\ Later
<1> USE DEF TInv, End, Goto
<1>1. /\ pc' \in [Tasks -> {"idle"} \cup RequestSteps \cup QueueSteps \cup WorkerSteps]
      /\ data' \in [Tasks -> TaskData \cup {None}]
  BY DEF TypeOK, TaskData
<1>2. tries' \in [Tasks -> 0..(Attempts - 1)] /\ stalls' \in [Tasks -> 0..1]
  BY WorkAssumption DEF TypeOK
<1>3. DataThere'
  BY DEF TypeOK, DataThere, Active, New, Old
<1>4. QueueWaits' /\ RowsWhole'
  BY DEF TypeOK, QueueWaits, RowsWhole
<1>5. Later
  BY DEF TypeOK, Later, QueueSteps, WorkerSteps, RequestSteps
<1> QED BY <1>1, <1>2, <1>3, <1>4, <1>5 DEF TasksTyped

\* A job goes on from step to step: so do the types.
LEMMA GoTypes ==
  ASSUME TInv, NEW t \in Tasks, pc[t] \in QueueSteps \cup WorkerSteps,
         NEW s \in QueueSteps \cup WorkerSteps, Goto(t, s), UNCHANGED data,
         s \in {"list", "listRest", "file", "fileRest", "ready"}
           => data[t].kind # "delete",
         row' = row, \A a \in Agents : HasRow(a)' <=> HasRow(a),
         orderly' \subseteq orderly, folder' = folder
  PROVE  /\ pc' \in [Tasks -> {"idle"} \cup RequestSteps \cup QueueSteps \cup WorkerSteps]
         /\ DataThere' /\ RowsWhole' /\ Later
         /\ pc[t] # "waiting" /\ waiting' = waiting => QueueWaits'
<1> USE DEF TInv, Goto
<1>1. pc' \in [Tasks -> {"idle"} \cup RequestSteps \cup QueueSteps \cup WorkerSteps]
  BY DEF TypeOK
<1>2. DataThere'
  BY DEF TypeOK, DataThere, Active, New, Old, QueueSteps, WorkerSteps
<1>3. RowsWhole' /\ (pc[t] # "waiting" /\ waiting' = waiting => QueueWaits')
  BY DEF TypeOK, QueueWaits, RowsWhole
<1>4. Later
  BY DEF TypeOK, Later, QueueSteps, WorkerSteps, RequestSteps
<1> QED BY <1>1, <1>2, <1>3, <1>4

\* Storing and clearing keep the type of the vectors.
LEMMA VectorTypes ==
  ASSUME TypeOK, NEW a \in Agents
  PROVE  /\ \A S \in SUBSET Pieces :
              Without(a, S) \in [Agents -> [Pieces -> {"none", "part", "whole", "several"}]]
         /\ \A t \in Tasks, p \in Pieces : Agent(t) = a
              /\ (StoreFirst(t, p) \/ StoreRest(t, p)) =>
              vectors' \in [Agents -> [Pieces -> {"none", "part", "whole", "several"}]]
<1>1. \A n \in {"none", "part", "whole", "several"} :
        /\ FirstRow(n) \in {"none", "part", "whole", "several"}
        /\ RestOfRows(n) \in {"none", "part", "whole", "several"}
  BY DEF FirstRow, RestOfRows
<1>2. \A p \in Pieces : vectors[a][p] \in {"none", "part", "whole", "several"}
  BY DEF TypeOK
<1>3. ASSUME NEW S \in SUBSET Pieces
      PROVE  Without(a, S) \in [Agents -> [Pieces -> {"none", "part", "whole", "several"}]]
  BY <1>2 DEF TypeOK, Without
<1>4. ASSUME NEW t \in Tasks, NEW p \in Pieces, Agent(t) = a,
             StoreFirst(t, p) \/ StoreRest(t, p)
      PROVE  vectors' \in [Agents -> [Pieces -> {"none", "part", "whole", "several"}]]
  <2>1. PICK n \in {"none", "part", "whole", "several"} :
          vectors' = [vectors EXCEPT ![a] = [vectors[a] EXCEPT ![p] = n]]
    BY <1>1, <1>2, <1>4 DEF StoreFirst, StoreRest
  <2> QED BY <2>1 DEF TypeOK
<1> QED BY <1>3, <1>4

LEMMA WorkTypes ==
  ASSUME TInv, NEW t \in Tasks, Work(t)
  PROVE  TInv' /\ Later
<1> USE DEF TInv
<1>0. /\ pc[t] \in WorkerSteps /\ Active(t) /\ pc[t] # "waiting"
      /\ data[t] \in TaskData /\ Agent(t) \in Agents
      /\ data[t].kind # "delete" => New(t) \in Whole
      /\ pc[t] \in {"list", "listRest", "file", "fileRest", "ready"}
           => data[t].kind # "delete"
  <2>1. pc[t] \in WorkerSteps
    BY DEF Work, ClearFiles, ClearLists, List, ListRest, File, FileRest, Ready,
       StepFails, Running, Retry, GiveUp, WorkerSteps
  <2>2. Active(t) /\ pc[t] # "waiting"
    BY <2>1 DEF WorkerSteps, Active
  <2> QED BY <2>1, <2>2 DEF DataThere, TaskData, Agent
<1>1. CASE ClearFiles(t)
  <2>1. vectors' \in [Agents -> [Pieces -> {"none", "part", "whole", "several"}]]
    BY <1>0, <1>1, VectorTypes DEF ClearFiles, Pieces
  <2>2. Goto(t, "clearLists") /\ UNCHANGED <<row, status, folder, data, tries, stalls,
          waiting, begun, orderly, kept, repeated>>
    BY <1>1 DEF ClearFiles, jobs, observers
  <2>3. /\ pc' \in [Tasks -> {"idle"} \cup RequestSteps \cup QueueSteps \cup WorkerSteps]
        /\ DataThere' /\ RowsWhole' /\ Later /\ QueueWaits'
    BY <1>0, <2>2, GoTypes DEF HasRow, WorkerSteps
  <2> QED BY <2>1, <2>2, <2>3 DEF TypeOK
<1>2. CASE ClearLists(t)
  <2>1. vectors' \in [Agents -> [Pieces -> {"none", "part", "whole", "several"}]]
    BY <1>0, <1>2, VectorTypes DEF ClearLists, Pieces
  <2>2. UNCHANGED <<row, status, folder, waiting, begun, orderly, kept, repeated>>
    BY <1>2 DEF ClearLists, observers
  <2>3. CASE data[t].kind = "delete" /\ End(t)
    <3>1. TasksTyped' /\ Later
      BY <1>0, <2>2, <2>3, EndTypes DEF HasRow
    <3> QED BY <2>1, <2>2, <3>1 DEF TypeOK, TaskData, TasksTyped
  <2>4. CASE data[t].kind # "delete" /\ Goto(t, AfterClearing(t)) /\ UNCHANGED <<data, jobs>>
    <3>1. AfterClearing(t) \in {"list", "file", "ready"}
      BY DEF AfterClearing
    <3>2. /\ pc' \in [Tasks -> {"idle"} \cup RequestSteps \cup QueueSteps \cup WorkerSteps]
          /\ DataThere' /\ RowsWhole' /\ Later /\ QueueWaits'
      BY <1>0, <2>2, <2>4, <3>1, GoTypes DEF HasRow, WorkerSteps
    <3> QED BY <2>1, <2>2, <2>4, <3>2 DEF TypeOK, jobs
  <2> QED BY <1>2, <2>3, <2>4 DEF ClearLists
<1>3. CASE List(t)
  <2>1. New(t).list \in Pieces
    BY <1>0, <1>3 DEF List, Whole, Pieces
  <2>2. vectors' \in [Agents -> [Pieces -> {"none", "part", "whole", "several"}]]
    BY <1>0, <1>3, <2>1, VectorTypes DEF List
  <2>3. /\ Goto(t, "listRest")
        /\ UNCHANGED <<row, status, folder, data, tries, stalls, waiting, begun,
                       orderly, kept, repeated>>
    BY <1>3 DEF List, jobs, observers
  <2>4. data[t].kind # "delete"
    BY <1>0, <1>3 DEF List
  <2>5. /\ pc' \in [Tasks -> {"idle"} \cup RequestSteps \cup QueueSteps \cup WorkerSteps]
        /\ DataThere' /\ RowsWhole' /\ Later /\ QueueWaits'
    BY <1>0, <2>3, <2>4, GoTypes DEF HasRow, WorkerSteps
  <2> QED BY <2>2, <2>3, <2>5 DEF TypeOK
<1>4. CASE ListRest(t)
  <2>1. New(t).list \in Pieces
    BY <1>0, <1>4 DEF ListRest, Whole, Pieces
  <2>2. vectors' \in [Agents -> [Pieces -> {"none", "part", "whole", "several"}]]
    BY <1>0, <1>4, <2>1, VectorTypes DEF ListRest
  <2>3. /\ Goto(t, IF FileSame(t) THEN "ready" ELSE "file")
        /\ UNCHANGED <<row, status, folder, data, tries, stalls, waiting, begun,
                       orderly, kept, repeated>>
    BY <1>4 DEF ListRest, jobs, observers
  <2>4. data[t].kind # "delete"
    BY <1>0, <1>4 DEF ListRest
  <2>5. /\ pc' \in [Tasks -> {"idle"} \cup RequestSteps \cup QueueSteps \cup WorkerSteps]
        /\ DataThere' /\ RowsWhole' /\ Later /\ QueueWaits'
    BY <1>0, <2>3, <2>4, GoTypes DEF HasRow, WorkerSteps
  <2> QED BY <2>2, <2>3, <2>5 DEF TypeOK
<1>5. CASE File(t)
  <2>1. New(t).file \in Pieces
    BY <1>0, <1>5 DEF File, Whole, Pieces
  <2>2. vectors' \in [Agents -> [Pieces -> {"none", "part", "whole", "several"}]]
    BY <1>0, <1>5, <2>1, VectorTypes DEF File
  <2>3. /\ Goto(t, "fileRest")
        /\ UNCHANGED <<row, status, folder, data, tries, stalls, waiting, begun,
                       orderly, kept, repeated>>
    BY <1>5 DEF File, jobs, observers
  <2>4. data[t].kind # "delete"
    BY <1>0, <1>5 DEF File
  <2>5. /\ pc' \in [Tasks -> {"idle"} \cup RequestSteps \cup QueueSteps \cup WorkerSteps]
        /\ DataThere' /\ RowsWhole' /\ Later /\ QueueWaits'
    BY <1>0, <2>3, <2>4, GoTypes DEF HasRow, WorkerSteps
  <2> QED BY <2>2, <2>3, <2>5 DEF TypeOK
<1>6. CASE FileRest(t)
  <2>1. New(t).file \in Pieces
    BY <1>0, <1>6 DEF FileRest, Whole, Pieces
  <2>2. vectors' \in [Agents -> [Pieces -> {"none", "part", "whole", "several"}]]
    BY <1>0, <1>6, <2>1, VectorTypes DEF FileRest
  <2>3. /\ Goto(t, "ready")
        /\ UNCHANGED <<row, status, folder, data, tries, stalls, waiting, begun,
                       orderly, kept, repeated>>
    BY <1>6 DEF FileRest, jobs, observers
  <2>4. data[t].kind # "delete"
    BY <1>0, <1>6 DEF FileRest
  <2>5. /\ pc' \in [Tasks -> {"idle"} \cup RequestSteps \cup QueueSteps \cup WorkerSteps]
        /\ DataThere' /\ RowsWhole' /\ Later /\ QueueWaits'
    BY <1>0, <2>3, <2>4, GoTypes DEF HasRow, WorkerSteps
  <2> QED BY <2>2, <2>3, <2>5 DEF TypeOK
<1>7. CASE Ready(t)
  <2>1. /\ status' \in [Agents -> {"none", "Processing", "READY", "FAILED"}]
        /\ \A a \in Agents : HasRow(a)' <=> HasRow(a)
    BY <1>0, <1>7 DEF Ready, TypeOK, HasRow
  <2>2. UNCHANGED <<row, vectors, folder, waiting, begun, orderly, kept, repeated>>
    BY <1>7 DEF Ready, observers
  <2>3. CASE End(t)
    <3>1. TasksTyped' /\ Later
      BY <1>0, <2>1, <2>2, <2>3, EndTypes
    <3> QED BY <2>1, <2>2, <3>1 DEF TypeOK, TaskData, TasksTyped
  <2>4. CASE Goto(t, "catch") /\ UNCHANGED <<data, jobs>>
    <3>1. /\ pc' \in [Tasks -> {"idle"} \cup RequestSteps \cup QueueSteps \cup WorkerSteps]
          /\ DataThere' /\ RowsWhole' /\ Later /\ QueueWaits'
      BY <1>0, <2>1, <2>2, <2>4, GoTypes DEF WorkerSteps
    <3> QED BY <2>1, <2>2, <2>4, <3>1 DEF TypeOK, jobs
  <2> QED BY <1>7, <2>3, <2>4 DEF Ready
<1>8. CASE StepFails(t)
  <2>1. /\ Goto(t, "catch")
        /\ UNCHANGED <<row, status, vectors, folder, data, tries, stalls, waiting,
                       begun, orderly, kept, repeated>>
    BY <1>8 DEF StepFails, database, jobs, observers
  <2>2. /\ pc' \in [Tasks -> {"idle"} \cup RequestSteps \cup QueueSteps \cup WorkerSteps]
        /\ DataThere' /\ RowsWhole' /\ Later /\ QueueWaits'
    BY <1>0, <2>1, GoTypes DEF HasRow, WorkerSteps
  <2> QED BY <2>1, <2>2 DEF TypeOK
<1>9. ASSUME Report(t)
      PROVE  /\ status' \in [Agents -> {"none", "Processing", "READY", "FAILED"}]
             /\ \A a \in Agents : HasRow(a)' <=> HasRow(a)
  BY <1>0, <1>9 DEF Report, TypeOK, HasRow
<1>10. CASE Retry(t)
  <2>1. /\ Report(t) /\ Goto(t, "delayed") /\ repeated' \subseteq Agents
        /\ UNCHANGED <<row, vectors, folder, data, stalls, waiting, begun, orderly, kept>>
    BY <1>0, <1>10 DEF Retry, Repeats, TypeOK
  <2>2. tries' \in [Tasks -> 0..(Attempts - 1)]
    <3>1. tries[t] \in 0..(Attempts - 1) /\ tries[t] + 1 # Attempts
      BY <1>10 DEF Retry, Exhausted, TypeOK
    <3>2. tries[t] + 1 \in 0..(Attempts - 1)
      BY <3>1, WorkAssumption
    <3> QED BY <1>10, <3>2 DEF Retry, TypeOK
  <2>3. /\ pc' \in [Tasks -> {"idle"} \cup RequestSteps \cup QueueSteps \cup WorkerSteps]
        /\ DataThere' /\ RowsWhole' /\ Later /\ QueueWaits'
    BY <1>0, <1>9, <2>1, GoTypes DEF WorkerSteps, QueueSteps
  <2> QED BY <1>9, <2>1, <2>2, <2>3 DEF TypeOK
<1>11. CASE GiveUp(t)
  <2>1. /\ Report(t) /\ End(t) /\ orderly' \subseteq orderly
        /\ UNCHANGED <<row, vectors, folder, waiting, begun, kept, repeated>>
    BY <1>11 DEF GiveUp, Drop
  <2>2. TasksTyped' /\ Later
    BY <1>0, <1>9, <2>1, EndTypes
  <2> QED BY <1>9, <2>1, <2>2 DEF TypeOK, TaskData, TasksTyped
<1> QED BY <1>1, <1>2, <1>3, <1>4, <1>5, <1>6, <1>7, <1>8, <1>10, <1>11 DEF Work

LEMMA QueueTypes ==
  ASSUME TInv, Take \/ Crash \/ \E t \in Tasks : Promote(t) \/ Recover(t) \/ Abandon(t)
  PROVE  TInv' /\ Later
<1> USE DEF TInv
<1>1. CASE Take
  <2> DEFINE t == Head(waiting)
  <2>1. /\ t \in Tasks /\ t = waiting[1] /\ Len(waiting) > 0
        /\ waiting' \in Seq(Tasks) /\ Len(waiting') = Len(waiting) - 1
        /\ \A i \in 1..Len(waiting') : waiting'[i] = waiting[i + 1]
    BY <1>1, HeadTailProperties DEF Take, TypeOK
  <2>2. pc[t] = "waiting"
    BY <2>1 DEF QueueWaits
  <2>3. /\ Goto(t, FirstStep(t)) /\ FirstStep(t) \in {"list", "clearFiles"}
        /\ FirstStep(t) = "list" => data[t].kind # "delete"
        /\ UNCHANGED <<row, status, vectors, folder, data, tries, stalls, begun,
                       orderly, kept, repeated>>
    BY <1>1 DEF Take, FirstStep, database, jobs, observers
  <2> HIDE DEF t
  <2>4. /\ pc' \in [Tasks -> {"idle"} \cup RequestSteps \cup QueueSteps \cup WorkerSteps]
        /\ DataThere' /\ RowsWhole' /\ Later
    BY <2>1, <2>2, <2>3, GoTypes DEF HasRow, WorkerSteps, QueueSteps
  <2>5. QueueWaits'
    <3>1. Len(waiting) \in Nat /\ \A u \in Tasks \ {t} : pc'[u] = pc[u]
      BY <2>3 DEF TypeOK, Goto
    <3>2. \A i \in 1..Len(waiting') :
            /\ i + 1 \in 1..Len(waiting) /\ waiting'[i] = waiting[i + 1]
            /\ waiting[i + 1] \in Tasks \ {t} /\ pc'[waiting[i + 1]] = "waiting"
      <4>1. SUFFICES ASSUME NEW i \in 1..Len(waiting')
                     PROVE  /\ i + 1 \in 1..Len(waiting) /\ waiting'[i] = waiting[i + 1]
                            /\ waiting[i + 1] \in Tasks \ {t}
                            /\ pc'[waiting[i + 1]] = "waiting"
        OBVIOUS
      <4>2. i + 1 \in 1..Len(waiting) /\ 1 \in 1..Len(waiting) /\ i + 1 # 1
        BY <2>1, <3>1
      <4>3. waiting[i + 1] \in Tasks
        BY <4>2 DEF TypeOK
      <4>4. waiting[i + 1] # t /\ pc[waiting[i + 1]] = "waiting"
        BY <2>1, <4>2 DEF QueueWaits
      <4> QED BY <2>1, <3>1, <4>2, <4>3, <4>4
    <3> SUFFICES ASSUME NEW i \in 1..Len(waiting'), NEW j \in 1..Len(waiting')
                 PROVE  /\ pc'[waiting'[i]] = "waiting"
                        /\ waiting'[i] = waiting'[j] => i = j
      BY DEF QueueWaits
    <3>3. waiting[i + 1] = waiting[j + 1] => i + 1 = j + 1
      BY <3>2 DEF QueueWaits
    <3> QED BY <3>2, <3>3
  <2> QED BY <2>1, <2>3, <2>4, <2>5 DEF TypeOK
<1>2. CASE Crash
  <2>1. /\ pc' = [t \in Tasks |-> IF Running(t) THEN "stalled" ELSE pc[t]]
        /\ UNCHANGED <<row, status, vectors, folder, data, tries, stalls, waiting,
                       begun, orderly, kept, repeated>>
    BY <1>2 DEF Crash, database, jobs, observers
  <2>2. TypeOK'
    BY <2>1 DEF TypeOK, QueueSteps
  <2>3. DataThere' /\ RowsWhole'
    BY <2>1 DEF DataThere, RowsWhole, HasRow, Active, New, Old, Running, WorkerSteps
  <2>4. QueueWaits' /\ Later
    BY <2>1 DEF QueueWaits, Later, TypeOK, HasRow, Running, WorkerSteps, RequestSteps
  <2> QED BY <2>2, <2>3, <2>4
<1>3. ASSUME NEW t \in Tasks, Promote(t)
      PROVE  TInv' /\ Later
  <2>1. /\ pc[t] = "delayed" /\ Goto(t, "waiting") /\ waiting' = Append(waiting, t)
        /\ UNCHANGED <<row, status, vectors, folder, data, tries, stalls, begun,
                       orderly, kept, repeated>>
    BY <1>3 DEF Promote, database, jobs, observers
  <2>2. waiting' \in Seq(Tasks) /\ QueueWaits'
    BY <2>1, AppendTypes DEF Active
  <2>3. /\ pc' \in [Tasks -> {"idle"} \cup RequestSteps \cup QueueSteps \cup WorkerSteps]
        /\ DataThere' /\ RowsWhole' /\ Later
    BY <2>1, GoTypes DEF HasRow, QueueSteps
  <2> QED BY <2>1, <2>2, <2>3 DEF TypeOK
<1>4. ASSUME NEW t \in Tasks, Recover(t)
      PROVE  TInv' /\ Later
  <2>1. /\ pc[t] = "stalled" /\ Goto(t, "waiting") /\ waiting' = <<t>> \o waiting
        /\ stalls' = [stalls EXCEPT ![t] = 1] /\ repeated' \in {repeated, repeated \cup {Agent(t)}}
        /\ UNCHANGED <<row, status, vectors, folder, data, tries, begun, orderly, kept>>
    BY <1>4 DEF Recover, Repeats, database
  <2>2. Agent(t) \in Agents
    BY <2>1 DEF DataThere, Active, TaskData, Agent
  <2>3. <<t>> \in Seq(Tasks) /\ Len(<<t>>) = 1 /\ <<t>>[1] = t
    OBVIOUS
  <2>4. /\ waiting \in Seq(Tasks) /\ waiting' \in Seq(Tasks)
        /\ Len(waiting') = Len(waiting) + 1
        /\ \A i \in 1..Len(waiting') :
             waiting'[i] = IF i = 1 THEN t ELSE waiting[i - 1]
    <3>1. waiting \in Seq(Tasks)
      BY DEF TypeOK
    <3>2. /\ waiting' \in Seq(Tasks) /\ Len(waiting') = 1 + Len(waiting)
          /\ \A i \in 1..1 + Len(waiting) : waiting'[i] =
               IF i <= 1 THEN <<t>>[i] ELSE waiting[i - 1]
      BY <2>1, <2>3, <3>1, ConcatProperties
    <3>3. Len(waiting) \in Nat
      BY <3>1
    <3> QED BY <2>3, <3>1, <3>2, <3>3
  <2>5. \A i \in 1..Len(waiting) : waiting[i] # t /\ waiting[i] \in Tasks
    BY <2>1, <2>4 DEF QueueWaits
  <2>6. QueueWaits'
    <3>1. pc'[t] = "waiting" /\ \A u \in Tasks \ {t} : pc'[u] = pc[u]
      BY <2>1 DEF TypeOK, Goto
    <3> SUFFICES ASSUME NEW i \in 1..Len(waiting'), NEW j \in 1..Len(waiting')
                 PROVE  /\ pc'[waiting'[i]] = "waiting"
                        /\ waiting'[i] = waiting'[j] => i = j
      BY DEF QueueWaits
    <3>2. \A k \in 1..Len(waiting') : k # 1 =>
            /\ k - 1 \in 1..Len(waiting) /\ waiting'[k] = waiting[k - 1]
            /\ waiting[k - 1] # t /\ pc'[waiting[k - 1]] = "waiting"
      BY <2>4, <2>5, <3>1 DEF QueueWaits
    <3>3. waiting'[1] = t
      BY <2>4
    <3>4. i # 1 /\ j # 1 /\ waiting'[i] = waiting'[j] => i - 1 = j - 1
      BY <3>2 DEF QueueWaits
    <3> QED BY <3>1, <3>2, <3>3, <3>4
  <2>7. /\ pc' \in [Tasks -> {"idle"} \cup RequestSteps \cup QueueSteps \cup WorkerSteps]
        /\ DataThere' /\ RowsWhole' /\ Later
    BY <2>1, GoTypes DEF HasRow, QueueSteps
  <2>8. stalls' \in [Tasks -> 0..1] /\ repeated' \subseteq Agents
    BY <2>1, <2>2 DEF TypeOK
  <2> QED BY <2>1, <2>4, <2>6, <2>7, <2>8 DEF TypeOK
<1>5. ASSUME NEW t \in Tasks, Abandon(t)
      PROVE  TInv' /\ Later
  <2>1. /\ pc[t] = "stalled" /\ End(t) /\ orderly' \subseteq orderly
        /\ UNCHANGED <<row, status, vectors, folder, waiting, begun, kept, repeated>>
    BY <1>5 DEF Abandon, Drop, database
  <2>2. TasksTyped' /\ Later
    BY <2>1, EndTypes DEF HasRow, QueueSteps
  <2> QED BY <2>1, <2>2 DEF TypeOK, TaskData, TasksTyped
<1> QED BY <1>1, <1>2, <1>3, <1>4, <1>5

\* An upload and the clean-up touch only the folders.
LEMMA FolderTypes ==
  ASSUME TInv, NEW f \in Files, Upload(f) \/ CleanUp(f)
  PROVE  TInv'
<1> USE DEF TInv
<1>1. /\ folder' \in [Files -> {"none", "temp", "file"}]
      /\ UNCHANGED <<database, pc, data, jobs, waiting, begun, observers>>
  BY DEF Upload, CleanUp, TypeOK
<1>2. TypeOK'
  BY <1>1 DEF TypeOK, database, jobs, observers
<1>3. DataThere' /\ RowsWhole' /\ QueueWaits'
  BY <1>1 DEF DataThere, RowsWhole, QueueWaits, HasRow, Active, New, Old, database
<1> QED BY <1>2, <1>3

\* Nothing has happened yet.
LEMMA InitIInv ==
  ASSUME Init
  PROVE  IInv
<1>1. TypeOK
  BY WorkAssumption, BoundAssumption DEF Init, TypeOK, Contents, Nothing
<1>2. \A t \in Tasks : ~Active(t) /\ ~Requesting(t)
  BY DEF Init, Active, Requesting, RequestSteps
<1>3. \A a \in Agents : ~HasRow(a)
  BY DEF Init, HasRow
<1>4. TInv
  BY <1>1, <1>2, <1>3 DEF TInv, DataThere, RowsWhole, QueueWaits, Init
<1>5. DInv
  BY <1>2 DEF DInv, NotShared, OneTask, RequestsProgress, DocumentIsKept, Init
<1> QED BY <1>4, <1>5 DEF IInv

\* The types are inductive.
LEMMA NextTypes == TInv /\ [Next]_vars => TInv'
<1> SUFFICES ASSUME TInv, [Next]_vars PROVE TInv'
  OBVIOUS
<1>1. CASE UNCHANGED vars
  BY <1>1 DEF TInv, vars, database, jobs, observers, TypeOK, DataThere, RowsWhole,
     QueueWaits, HasRow, Active, New, Old
<1>2. ASSUME NEW f \in Files, Upload(f) \/ CleanUp(f)
      PROVE  TInv'
  BY <1>2, FolderTypes
<1>3. ASSUME NEW t \in Tasks, NEW a \in Agents, NEW f \in Files, NEW l \in Lists,
             Add(t, a, f, l) \/ Edit(t, a, f, l)
      PROVE  TInv'
  BY <1>3, BeginTypes
<1>4. ASSUME NEW t \in Tasks, NEW a \in Agents, Delete(t, a)
      PROVE  TInv'
  <2>1. row[a].file \in Files /\ row[a].list \in Lists
    BY <1>4 DEF Delete, TInv, RowsWhole, Whole
  <2> QED BY <1>4, <2>1, BeginTypes
<1>5. ASSUME NEW t \in Tasks, Request(t)
      PROVE  TInv'
  BY <1>5, RequestTypes DEF Request
<1>6. ASSUME NEW t \in Tasks, Work(t)
      PROVE  TInv'
  BY <1>6, WorkTypes
<1>7. ASSUME Take \/ Crash \/ \E t \in Tasks : Promote(t) \/ Recover(t) \/ Abandon(t)
      PROVE  TInv'
  BY <1>7, QueueTypes
<1> QED BY <1>1, <1>2, <1>3, <1>4, <1>5, <1>6, <1>7 DEF Next

\* Every variable has its type, and no job is tried more often than allowed.
THEOREM TypeCorrect == Spec => []TypeOK
<1>1. Init => TInv
  BY InitIInv DEF IInv
<1>2. TInv => TypeOK
  BY DEF TInv
<1> QED BY <1>1, <1>2, NextTypes, PTL DEF Spec

-----------------------------------------------------------------------------
(* Documents                                                               *)

\* What names a document.
LEMMA NamingIs ==
  ASSUME NEW f \in Files, NEW a \in Agents
  PROVE  /\ HasRow(a) /\ row[a].file = f => a \in Naming(f)
         /\ \A t \in Tasks : Active(t) /\ Agent(t) = a
              /\ f \in {New(t).file, Old(t).file} => a \in Naming(f)
BY NoneAssumption DEF Naming

\* Steps of the queue and of the workers name nothing new and move nothing.
LEMMA LaterKeeps ==
  ASSUME IInv, TInv', Later
  PROVE  DInv'
<1> USE DEF IInv, TInv, DInv
<1>0. /\ orderly' \subseteq orderly /\ row' = row /\ folder' = folder
      /\ \A a \in Agents : HasRow(a)' <=> HasRow(a)
      /\ \A t \in Tasks : Active(t)' => Active(t) /\ data'[t] = data[t]
      /\ \A t \in Tasks : Requesting(t)' => pc'[t] = pc[t] /\ Requesting(t)
      /\ \A t \in Tasks : Requesting(t) => Requesting(t)' /\ data'[t] = data[t]
      /\ orderly \subseteq Agents
      /\ \A t \in Tasks : Requesting(t) => Active(t) /\ Agent(t) \in Agents
  BY DEF Later, Active, Requesting, RequestSteps, TypeOK, DataThere, TaskData, Agent
<1>1. \A f \in Files : Naming(f)' \subseteq Naming(f)
  BY <1>0 DEF Naming, Agent, New, Old
<1>2. NotShared'
  BY <1>0, <1>1 DEF NotShared
<1>3. OneTask'
  BY <1>0 DEF OneTask, Agent
<1>4. RequestsProgress'
  <2> SUFFICES ASSUME NEW t \in Tasks, Requesting(t)', (Agent(t) \in orderly)'
               PROVE  Progress(t)'
    BY DEF RequestsProgress
  <2>1. /\ Requesting(t) /\ data'[t] = data[t] /\ pc'[t] = pc[t]
        /\ Agent(t) \in orderly /\ (HasRow(Agent(t))' <=> HasRow(Agent(t)))
        /\ Agent(t)' = Agent(t)
    BY <1>0 DEF Agent
  <2>2. Progress(t)
    BY <2>1 DEF RequestsProgress
  <2> QED BY <1>0, <2>1, <2>2 DEF Progress, Written, InPlace, FileSame, New, Old, HasRow
<1>5. DocumentIsKept'
  BY <1>0 DEF DocumentIsKept, Agent
<1> QED BY <1>2, <1>3, <1>4, <1>5

\* An upload and the clean-up leave the folder file alone.
LEMMA FolderKeeps ==
  ASSUME IInv, NEW f \in Files, Upload(f) \/ CleanUp(f)
  PROVE  DInv'
<1> USE DEF IInv, TInv, DInv
<1>0. /\ UNCHANGED <<row, status, pc, data, orderly>>
      /\ \A g \in Files : InPlace(g)' <=> InPlace(g)
  BY DEF Upload, CleanUp, TypeOK, InPlace, database, observers
<1>1. NotShared' /\ OneTask'
  BY <1>0 DEF NotShared, OneTask, Naming, HasRow, Active, Agent, New, Old
<1>2. RequestsProgress'
  <2> SUFFICES ASSUME NEW t \in Tasks, Requesting(t), Agent(t) \in orderly
               PROVE  Progress(t)'
    BY <1>0 DEF RequestsProgress, Requesting, Agent
  <2>1. /\ Progress(t) /\ Active(t) /\ Agent(t) \in Agents
        /\ HasRow(Agent(t)) => row[Agent(t)].file \in Files
        /\ data[t].kind # "delete" => New(t).file \in Files
        /\ data[t].kind # "add" => Old(t).file \in Files
    BY DEF RequestsProgress, DataThere, TaskData, Requesting, RequestSteps, Active,
       Agent, Whole, RowsWhole
  <2>2. pc[t] = "update" => data[t].kind = "edit"
    BY <2>1 DEF DataThere
  <2>3. Written(t) => New(t).file \in Files
    BY <2>1 DEF Written
  <2> QED BY <1>0, <2>1, <2>2, <2>3 DEF Progress, Written, FileSame, New, Old, HasRow, Agent
<1>3. DocumentIsKept'
  BY <1>0 DEF DocumentIsKept, InPlace, RowsWhole, Whole, HasRow, Agent, Requesting, TypeOK
<1> QED BY <1>1, <1>2, <1>3

\* A request begins.  The agents that stay orderly are those it does not
\* concern, and its own if that is the only one to name the document.
LEMMA BeginKeeps ==
  ASSUME IInv, NEW t \in Tasks, NEW a \in Agents, NEW f \in Files,
         NEW l \in Lists, Add(t, a, f, l) \/ Edit(t, a, f, l) \/ Delete(t, a)
  PROVE  DInv'
<1> USE DEF IInv, TInv, DInv
<1>0. /\ pc[t] = "idle" /\ pc'[t] \in RequestSteps /\ data'[t].agent = a
      /\ \A u \in Tasks \ {t} : pc'[u] = pc[u] /\ data'[u] = data[u]
      /\ folder' = folder
      /\ \A x \in Agents \ {a} : row'[x] = row[x] /\ (HasRow(x)' <=> HasRow(x))
      /\ HasRow(a)' => HasRow(a) /\ row'[a] = row[a]
  BY DEF Add, Edit, Delete, Begin, Goto, TypeOK, RequestSteps, HasRow, database
<1>1. /\ Active(t)' /\ Requesting(t)' /\ Agent(t)' = a /\ ~Active(t)
      /\ \A u \in Tasks \ {t} : /\ (Active(u)' <=> Active(u)) /\ Agent(u)' = Agent(u)
                               /\ (Requesting(u)' <=> Requesting(u))
                               /\ New(u)' = New(u) /\ Old(u)' = Old(u)
      /\ ~Requesting(t)
      /\ \A u \in Tasks : Requesting(u) => Active(u)
      /\ \A u \in Tasks : Active(u) => Agent(u) \in Agents
  BY <1>0 DEF Active, Requesting, RequestSteps, Agent, New, Old, DataThere, TaskData
<1>2. PICK g \in {f, None} :
        LET others == Naming(g) \ {a} IN
        /\ orderly' = IF Settled(a) /\ others = {}
                      THEN orderly \cup (IF HasRow(a) THEN {} ELSE {a})
                      ELSE orderly \ ({a} \cup others)
        /\ New(t)'.file = g
        /\ Old(t)'.file = None \/ (HasRow(a) /\ Old(t)' = row[a])
  <2>1. CASE Add(t, a, f, l)
    <3>1. /\ data'[t] = [kind |-> "add", agent |-> a, old |-> Nothing,
                         new |-> [file |-> f, list |-> l]]
          /\ ~HasRow(a)
      BY <2>1 DEF Add, Begin, TypeOK
    <3> QED BY <2>1, <3>1 DEF Add, Begins, New, Old, Nothing
  <2>2. CASE Edit(t, a, f, l)
    <3>1. /\ data'[t] = [kind |-> "edit", agent |-> a, old |-> row[a],
                         new |-> [file |-> f, list |-> l]]
          /\ HasRow(a)
      BY <2>2 DEF Edit, Begin, TypeOK
    <3> QED BY <2>2, <3>1 DEF Edit, Begins, New, Old
  <2>3. CASE Delete(t, a)
    <3>1. /\ data'[t] = [kind |-> "delete", agent |-> a, old |-> row[a],
                         new |-> Nothing]
          /\ HasRow(a)
      BY <2>3 DEF Delete, Begin, TypeOK
    <3> QED BY <2>3, <3>1 DEF Delete, Begins, New, Old, Nothing
  <2> QED BY <2>1, <2>2, <2>3
<1>3. \A h \in Files : Naming(h)' \subseteq Naming(h) \cup (IF h = g THEN {a} ELSE {})
  <2> SUFFICES ASSUME NEW h \in Files, NEW x \in Naming(h)', x \notin Naming(h)
               PROVE  h = g /\ x = a
    OBVIOUS
  <2>1. x \in Agents /\ h # None
    BY NoneAssumption DEF Naming
  <2>2. ~(HasRow(x)' /\ row'[x].file = h)
    BY <1>0, <2>1, NamingIs
  <2>3. PICK u \in Tasks : Active(u)' /\ Agent(u)' = x /\ h \in {New(u)'.file, Old(u)'.file}
    BY <2>2 DEF Naming
  <2>4. u = t
    BY <1>1, <2>1, <2>3, NamingIs
  <2> QED BY <1>1, <1>2, <2>1, <2>3, <2>4, NamingIs
<1>4. \A x \in orderly' : x \in Agents /\ (x # a => x \in orderly)
  BY <1>2 DEF TypeOK
<1>5. a \in orderly' => Settled(a) /\ (a \in orderly \/ ~HasRow(a))
  BY <1>2
<1>6. NotShared'
  <2> SUFFICES ASSUME NEW x \in orderly', NEW y \in Agents, NEW h \in Files,
                      x \in Naming(h)', y \in Naming(h)'
               PROVE  x = y
    BY DEF NotShared
  <2>1. CASE h = g
    <3>1. Naming(g) \ {a} = {}
      BY <1>2, <1>3, <2>1
    <3> QED BY <1>3, <2>1, <3>1
  <2>2. CASE h # g /\ x \in orderly
    BY <1>3, <2>2 DEF NotShared
  <2>3. CASE h # g /\ x \notin orderly
    <3>1. x = a /\ Settled(a) /\ ~HasRow(a) /\ a \in Naming(h)
      BY <1>3, <1>4, <1>5, <2>3
    <3> QED BY <3>1 DEF Naming, Settled
  <2> QED BY <2>1, <2>2, <2>3
<1>7. OneTask'
  BY <1>1, <1>4, <1>5 DEF OneTask, Settled
<1>8. RequestsProgress'
  <2> SUFFICES ASSUME NEW u \in Tasks, Requesting(u)', (Agent(u) \in orderly)'
               PROVE  Progress(u)'
    BY DEF RequestsProgress
  <2>1. CASE u = t
    <3>1. a \in orderly' /\ Settled(a)
      BY <1>1, <1>5, <2>1
    <3>2. CASE Add(t, a, f, l)
      BY <1>1, <2>1, <3>2 DEF Add, Begin, Goto, TypeOK, Progress, HasRow, database
    <3>3. CASE Edit(t, a, f, l)
      <4>1. a \in orderly /\ HasRow(a)
        BY <1>5, <3>1, <3>3 DEF Edit
      <4>2. InPlace(row[a].file)
        BY <1>1, <3>1, <4>1 DEF DocumentIsKept, Settled, InPlace
      <4>3. /\ pc'[t] = "update" /\ data'[t].old = row[a] /\ row' = row /\ status' = status
            /\ data'[t].agent = a
        BY <3>3 DEF Edit, Begin, Goto, TypeOK, database
      <4> QED BY <1>0, <2>1, <4>1, <4>2, <4>3 DEF Progress, InPlace, HasRow, Agent, Old
    <3>4. CASE Delete(t, a)
      <4>1. /\ pc'[t] = "moveOut" /\ data'[t].kind = "delete" /\ status'[a] = "none"
            /\ data'[t].agent = a
        BY <3>4 DEF Delete, Begin, Goto, TypeOK
      <4> QED BY <2>1, <4>1 DEF Progress, HasRow, Agent
    <3> QED BY <3>2, <3>3, <3>4
  <2>2. CASE u # t
    <3>1. Agent(u) # a /\ Agent(u) \in orderly /\ Requesting(u) /\ Agent(u) \in Agents
      BY <1>1, <1>4, <1>5, <2>2 DEF Settled
    <3>2. Progress(u)
      BY <3>1 DEF RequestsProgress
    <3>3. /\ pc'[u] = pc[u] /\ data'[u] = data[u] /\ Agent(u)' = Agent(u)
          /\ row'[Agent(u)] = row[Agent(u)] /\ (HasRow(Agent(u))' <=> HasRow(Agent(u)))
      BY <1>0, <1>1, <2>2, <3>1
    <3> HIDE DEF IInv, TInv, DInv
    <3> QED BY <1>0, <3>2, <3>3 DEF Progress, Written, InPlace, FileSame, New, Old, HasRow
  <2> QED BY <2>1, <2>2
<1>9. DocumentIsKept'
  BY <1>0, <1>1, <1>4 DEF DocumentIsKept
<1> QED BY <1>6, <1>7, <1>8, <1>9

\* A step of a request leaves other orderly agents alone: they have other
\* tasks, and other documents.
LEMMA RequestKeeps ==
  ASSUME IInv, NEW t \in Tasks,
         \/ Create(t) \/ Update(t) \/ MoveIn(t) \/ MoveOut(t) \/ Enqueue(t)
         \/ RequestFails(t)
  PROVE  DInv'
<1> USE DEF IInv, TInv, DInv
<1>0. PICK a \in Agents :
      /\ Requesting(t) /\ Active(t) /\ data[t] \in TaskData /\ a = Agent(t)
      /\ data[t].kind # "delete" => New(t) \in Whole
      /\ data[t].kind # "add" => Old(t) \in Whole
  BY DEF Create, Update, MoveIn, MoveOut, Enqueue, RequestFails, Requesting,
     RequestSteps, Active, DataThere, TaskData, Agent
<1>1. /\ orderly' \subseteq orderly /\ orderly \subseteq Agents
      /\ a \in orderly' => data' = data
      /\ \A u \in Tasks \ {t} : pc'[u] = pc[u] /\ data'[u] = data[u]
      /\ Active(t)' => data'[t] = data[t]
  BY <1>0 DEF Create, Update, MoveIn, MoveOut, Enqueue, RequestFails, End, Drop, Goto,
     TypeOK, Active, observers
<1>2. \A u \in Tasks : Active(u)' => Active(u) /\ data'[u] = data[u]
  BY <1>0, <1>1 DEF Active
<1>3. \A u \in Tasks \ {t} : (Requesting(u)' <=> Requesting(u)) /\ Agent(u)' = Agent(u)
  BY <1>1 DEF Requesting, Agent
<1>4. \A x \in Agents \ {a} : row'[x] = row[x] /\ (HasRow(x)' <=> HasRow(x))
  BY <1>0 DEF Create, Update, MoveIn, MoveOut, Enqueue, RequestFails, TypeOK, HasRow, database
<1>5. HasRow(a)' => \/ HasRow(a) /\ row'[a] = row[a]
                    \/ row'[a] = New(t) /\ New(t) \in Whole
  BY <1>0 DEF Create, Update, MoveIn, MoveOut, Enqueue, RequestFails, TypeOK, HasRow,
     database, DataThere
<1>6. \A f \in Files : Naming(f)' \subseteq Naming(f)
  <2> SUFFICES ASSUME NEW f \in Files, NEW x \in Naming(f)'
               PROVE  x \in Naming(f)
    OBVIOUS
  <2>1. x \in Agents
    BY DEF Naming
  <2>2. CASE HasRow(x)' /\ row'[x].file = f
    BY <1>0, <1>4, <1>5, <2>1, <2>2, NamingIs
  <2>3. ASSUME NEW u \in Tasks, Active(u)', Agent(u)' = x, f \in {New(u)'.file, Old(u)'.file}
        PROVE  x \in Naming(f)
    BY <1>2, <2>1, <2>3, NamingIs DEF Agent, New, Old
  <2> QED BY <2>2, <2>3 DEF Naming
<1>7. NotShared'
  BY <1>1, <1>6 DEF NotShared
<1>8. OneTask'
  BY <1>1, <1>2 DEF OneTask, Agent
<1>9. \A x \in orderly \ {a}, f \in Files :
        x \in Naming(f) /\ InPlace(f) => InPlace(f)'
  <2> SUFFICES ASSUME NEW x \in orderly \ {a}, NEW f \in Files, x \in Naming(f),
                      InPlace(f)
               PROVE  InPlace(f)'
    OBVIOUS
  <2>1. CASE MoveOut(t)
    <3>1. Old(t).file \in Files /\ a \in Naming(Old(t).file)
      BY <1>0, <2>1, NamingIs DEF MoveOut, Whole, DataThere
    <3>2. f # Old(t).file
      BY <1>0, <3>1 DEF NotShared
    <3> QED BY <2>1, <3>1, <3>2 DEF MoveOut, Move, Outdated, InPlace, TypeOK
  <2>2. CASE ~MoveOut(t)
    BY <2>2 DEF Create, Update, MoveIn, Enqueue, RequestFails, Move, InPlace, TypeOK
  <2> QED BY <2>1, <2>2
<1>10. ASSUME a \in orderly'
       PROVE  /\ Requesting(t)' => Progress(t)'
              /\ ~Requesting(t)' /\ HasRow(a)' => InPlace(row[a].file)'
  <2>1. Progress(t) /\ data' = data /\ Agent(t) = a /\ Agent(t)' = a
    BY <1>0, <1>1, <1>10 DEF RequestsProgress, Agent
  <2>2. CASE Create(t)
    <3>1. /\ pc'[t] = "moveIn" /\ data[t].kind = "add" /\ row'[a] = New(t)
          /\ status'[a] = "Processing"
      BY <1>0, <2>2 DEF Create, Goto, TypeOK, DataThere
    <3> QED BY <2>1, <3>1 DEF Progress, Written, HasRow, Agent, New, Requesting, RequestSteps
  <2>3. CASE Update(t)
    <3>1. /\ pc[t] = "update" /\ pc'[t] = IF FileSame(t) THEN "enqueue" ELSE "moveIn"
          /\ row'[a] = New(t) /\ status' = status /\ folder' = folder /\ HasRow(a)
      BY <1>0, <2>3 DEF Update, Goto, TypeOK
    <3> QED BY <2>1, <3>1 DEF Progress, Written, HasRow, Agent, New, Old, FileSame,
              InPlace, Requesting, RequestSteps
  <2>4. CASE MoveIn(t)
    <3>1. /\ pc[t] = "moveIn" /\ folder'[New(t).file] = "file"
          /\ pc'[t] = IF data[t].kind = "add" THEN "enqueue" ELSE "moveOut"
          /\ row' = row /\ status' = status
          /\ data[t].kind \in {"add", "edit"}
      BY <1>0, <2>4 DEF MoveIn, Move, Goto, TypeOK, DataThere, Whole, TaskData, database
    <3> QED BY <2>1, <3>1 DEF Progress, Written, HasRow, Agent, New, Old, FileSame,
              InPlace, Requesting, RequestSteps
  <2>5. CASE MoveOut(t)
    <3>1. /\ pc[t] = "moveOut" /\ pc'[t] = "enqueue" /\ row' = row /\ status' = status
          /\ \A f \in Files \ {Old(t).file} : folder'[f] = folder[f]
          /\ data[t].kind \in {"delete", "edit"}
      BY <1>0, <2>5 DEF MoveOut, Move, Outdated, Goto, TypeOK, DataThere, TaskData, database
    <3>2. HasRow(a) => /\ row[a] = New(t) /\ New(t).file # Old(t).file /\ row[a].file \in Files
                       /\ InPlace(New(t).file)
      BY <2>1, <3>1 DEF Progress, Written, FileSame, RowsWhole, Whole
    <3>3. HasRow(a)' => InPlace(row[a].file)'
      BY <3>1, <3>2 DEF HasRow, InPlace
    <3> QED BY <2>1, <3>1, <3>3 DEF Progress, HasRow, Agent, Requesting, RequestSteps
  <2>6. CASE Enqueue(t)
    <3>1. /\ pc[t] = "enqueue" /\ pc'[t] = "waiting" /\ row' = row /\ status' = status
          /\ folder' = folder
      BY <1>0, <2>6 DEF Enqueue, Goto, TypeOK, database
    <3> QED BY <2>1, <3>1 DEF Progress, HasRow, InPlace, Agent, Requesting, RequestSteps
  <2>7. CASE RequestFails(t)
    BY <1>0, <1>10, <2>7 DEF RequestFails, Drop
  <2> QED BY <2>2, <2>3, <2>4, <2>5, <2>6, <2>7
<1>11. RequestsProgress'
  <2> SUFFICES ASSUME NEW u \in Tasks, Requesting(u)', (Agent(u) \in orderly)'
               PROVE  Progress(u)'
    BY DEF RequestsProgress
  <2>1. CASE u = t
    <3>1. Agent(t)' = a
      BY <1>0, <1>2, <2>1 DEF Agent, Requesting, RequestSteps, Active
    <3> QED BY <1>10, <2>1, <3>1
  <2>2. CASE u # t
    <3>1. /\ pc'[u] = pc[u] /\ data'[u] = data[u] /\ Agent(u)' = Agent(u)
          /\ Requesting(u) /\ Active(u) /\ Agent(u) \in orderly
      BY <1>1, <1>3, <2>2 DEF Requesting, RequestSteps, Active
    <3>2. Agent(u) # a
      BY <1>0, <2>2, <3>1 DEF OneTask
    <3>3. Progress(u)
      BY <3>1 DEF RequestsProgress
    <3>4. /\ row'[Agent(u)] = row[Agent(u)] /\ (HasRow(Agent(u))' <=> HasRow(Agent(u)))
          /\ Agent(u) \in orderly \ {a} /\ Agent(u) \in Agents
      BY <1>1, <1>4, <3>1, <3>2
    <3>5. \A f \in Files : f \in {New(u).file, Old(u).file} /\ InPlace(f) => InPlace(f)'
      BY <1>9, <3>1, <3>4, NamingIs
    <3>6. HasRow(Agent(u)) /\ InPlace(row[Agent(u)].file) => (InPlace(row[Agent(u)].file))'
      <4>1. HasRow(Agent(u)) => row[Agent(u)].file \in Files
        BY <3>4 DEF RowsWhole, Whole
      <4>2. HasRow(Agent(u)) => Agent(u) \in Naming(row[Agent(u)].file)
        BY <3>4, <4>1, NamingIs
      <4>3. InPlace(row[Agent(u)].file)' <=> folder'[row[Agent(u)].file] = "file"
        BY <3>1, <3>4 DEF InPlace
      <4> QED BY <1>9, <3>4, <4>1, <4>2, <4>3 DEF InPlace
    <3>7. /\ pc[u] = "update" => Old(u).file \in Files
          /\ pc[u] = "moveOut" /\ Written(u) => New(u).file \in Files
      BY <3>1, <3>4 DEF DataThere, Whole, Written, RowsWhole
    <3>8. /\ Written(u) => Written(u)'
          /\ New(u)' = New(u) /\ Old(u)' = Old(u) /\ (FileSame(u)' <=> FileSame(u))
      BY <3>1, <3>4 DEF Written, New, Old, FileSame
    <3> HIDE DEF IInv, TInv, DInv
    <3> QED BY <3>1, <3>3, <3>4, <3>5, <3>6, <3>7, <3>8 DEF Progress, InPlace
  <2> QED BY <2>1, <2>2
<1>12. DocumentIsKept'
  <2> SUFFICES ASSUME NEW x \in orderly', HasRow(x)',
                      \A u \in Tasks : Requesting(u)' => Agent(u)' # x
               PROVE  InPlace(row[x].file)'
    BY DEF DocumentIsKept, InPlace
  <2>1. CASE x = a
    <3>1. Requesting(t)' => Agent(t)' = a
      BY <1>0, <1>2 DEF Agent, Requesting, RequestSteps, Active
    <3> QED BY <1>10, <2>1, <3>1
  <2>2. CASE x # a
    <3>1. /\ x \in orderly \ {a} /\ x \in Agents /\ HasRow(x) /\ row'[x] = row[x]
          /\ \A u \in Tasks : Requesting(u) => Agent(u) # x
      BY <1>0, <1>1, <1>3, <1>4, <2>2
    <3>2. row[x].file \in Files /\ InPlace(row[x].file)
      BY <3>1 DEF DocumentIsKept, RowsWhole, Whole, InPlace
    <3>3. x \in Naming(row[x].file)
      BY <3>1, <3>2, NamingIs
    <3> QED BY <1>9, <3>1, <3>2, <3>3 DEF InPlace
  <2> QED BY <2>1, <2>2
<1> QED BY <1>7, <1>8, <1>11, <1>12

\* Every step keeps the invariant.
LEMMA NextIInv == IInv /\ [Next]_vars => IInv'
<1> SUFFICES ASSUME IInv, [Next]_vars PROVE DInv'
  BY NextTypes DEF IInv
<1>0. TInv /\ TInv'
  BY NextTypes DEF IInv
<1>1. CASE UNCHANGED vars
  <2>1. Later
    BY <1>1 DEF vars, database, observers, Later, HasRow
  <2> QED BY <1>0, <2>1, LaterKeeps
<1>2. ASSUME NEW f \in Files, Upload(f) \/ CleanUp(f)
      PROVE  DInv'
  BY <1>2, FolderKeeps
<1>3. ASSUME NEW t \in Tasks, NEW a \in Agents, NEW f \in Files, NEW l \in Lists,
             Add(t, a, f, l) \/ Edit(t, a, f, l)
      PROVE  DInv'
  BY <1>3, BeginKeeps
<1>4. ASSUME NEW t \in Tasks, NEW a \in Agents, Delete(t, a)
      PROVE  DInv'
  <2>1. row[a].file \in Files /\ row[a].list \in Lists
    BY <1>0, <1>4 DEF Delete, TInv, RowsWhole, Whole
  <2> QED BY <1>4, <2>1, BeginKeeps
<1>5. ASSUME NEW t \in Tasks, Request(t)
      PROVE  DInv'
  BY <1>5, RequestKeeps DEF Request
<1>6. ASSUME \/ Take \/ Crash
             \/ \E t \in Tasks : Promote(t) \/ Recover(t) \/ Abandon(t) \/ Work(t)
      PROVE  DInv'
  <2>1. Later
    BY <1>0, <1>6, QueueTypes, WorkTypes
  <2> QED BY <1>0, <2>1, LaterKeeps
<1> QED BY <1>1, <1>2, <1>3, <1>4, <1>5, <1>6 DEF Next

\* Whatever other requests and jobs do, and whenever the clean-up runs, the
\* document that the row of an orderly agent names is in the folder file.
THEOREM DocumentKept == Spec => []DocumentIsKept
<1>1. IInv => DocumentIsKept
  BY DEF IInv, DInv
<1> QED BY <1>1, InitIInv, NextIInv, PTL DEF Spec

-----------------------------------------------------------------------------
(* What jobs store                                                         *)

\* What the data of a task of an orderly agent say of its row.
StoreSteps == {"list", "listRest", "file", "fileRest", "ready"}
Known(t) ==
  /\ data[t].kind = "add" => Old(t) = Nothing
  /\ data[t].kind = "delete" => New(t) = Nothing /\ ~HasRow(Agent(t))
  /\ data[t].kind # "delete" /\ pc[t] \notin {"create", "update"} => Written(t)

\* From when its job has cleared the agent, only what it names is stored.
Copies(t, p) == vectors[Agent(t)][p]
NoneOf(t, S) == \A p \in S : Copies(t, p) = "none"
OnlyNamed(t) ==
  /\ pc[t] = "clearLists" => NoneOf(t, Files)
  /\ data[t].kind = "add" \/ pc[t] \in StoreSteps => NoneOf(t, Pieces \ Named(New(t)))

\* A job that keeps nothing stores each piece in full ...
InFull(t) ==
  Agent(t) \notin kept =>
    /\ data[t].kind = "edit" /\ pc[t] \notin RequestSteps => ~FileSame(t) /\ ~ListSame(t)
    /\ pc[t] = "listRest" => Copies(t, New(t).list) \in {"part", "several"}
    /\ pc[t] \in {"file", "fileRest", "ready"}
         => Copies(t, New(t).list) \in {"whole", "several"}
    /\ pc[t] = "fileRest" => Copies(t, New(t).file) \in {"part", "several"}
    /\ pc[t] = "ready" => Copies(t, New(t).file) \in {"whole", "several"}

\* ... and an edit, and an ingestion at its first attempt, no piece twice.
AtFirst(t) == data[t].kind = "add" /\ Agent(t) \notin repeated
NoMore(t) ==
  /\ data[t].kind = "add" /\ pc[t] \in RequestSteps => NoneOf(t, Pieces)
  /\ AtFirst(t) => pc[t] # "delayed" /\ (pc[t] = "waiting" => NoneOf(t, Pieces))
  /\ AtFirst(t) \/ data[t].kind = "edit" =>
       /\ pc[t] \in StoreSteps => \A p \in Pieces : Copies(t, p) # "several"
       /\ pc[t] = "list" => Copies(t, New(t).list) = "none"
       /\ pc[t] = "listRest" => Copies(t, New(t).list) = "part"
       /\ pc[t] \in {"list", "listRest", "file"} => Copies(t, New(t).file) = "none"
       /\ pc[t] = "fileRest" => Copies(t, New(t).file) = "part"

JobInv(t) == Known(t) /\ OnlyNamed(t) /\ InFull(t) /\ NoMore(t)
JobsStore == \A t \in Tasks : Active(t) /\ Agent(t) \in orderly => JobInv(t)
KInv == JobsStore /\ ReadyIsComplete

\* What ReadyIsComplete says of one agent.
Complete(a) ==
  /\ \A p \in Named(row[a]) : vectors[a][p] \in {"whole", "several"} \/ a \in kept
  /\ \A p \in Pieces : vectors[a][p] # "several" \/ a \in repeated

\* A step of task t for agent a leaves the other tasks and agents alone.
Alone(t, a) ==
  /\ Active(t) => Agent(t) = a
  /\ Active(t)' => Agent(t)' = a
  /\ \A u \in Tasks \ {t} : pc'[u] = pc[u] /\ data'[u] = data[u]
  /\ \A x \in Agents \ {a} :
       /\ row'[x] = row[x] /\ status'[x] = status[x] /\ vectors'[x] = vectors[x]
       /\ x \in orderly' => x \in orderly
       /\ (x \in kept' <=> x \in kept) /\ (x \in repeated' <=> x \in repeated)
  /\ a \in orderly' => \A u \in Tasks \ {t} : Active(u) => Agent(u) # a

\* So such a step has to keep the invariant for t and a only.
LEMMA AloneKeeps ==
  ASSUME TInv, TInv', KInv, NEW t \in Tasks, NEW a \in Agents, Alone(t, a),
         a \in orderly' /\ Active(t)' => JobInv(t)',
         a \in orderly' /\ ~Active(t)' /\ status'[a] = "READY" => Complete(a)'
  PROVE  KInv'
<1>1. ASSUME NEW u \in Tasks, u # t, Active(u)', Agent(u)' \in orderly'
      PROVE  JobInv(u)'
  <2>1. PICK x \in Agents : x = Agent(u) /\ x = Agent(u)'
    BY <1>1 DEF Alone, Active, Agent, TInv, DataThere, TaskData
  <2>2. /\ x # a /\ x \in orderly /\ Active(u) /\ pc'[u] = pc[u] /\ data'[u] = data[u]
        /\ row'[x] = row[x] /\ status'[x] = status[x] /\ vectors'[x] = vectors[x]
        /\ (x \in kept' <=> x \in kept) /\ (x \in repeated' <=> x \in repeated)
    BY <1>1, <2>1 DEF Alone, Active
  <2>3. JobInv(u)
    BY <2>1, <2>2 DEF KInv, JobsStore
  <2>4. Known(u)'
    BY <2>1, <2>2, <2>3 DEF JobInv, Known, New, Old, HasRow, Written
  <2>5. OnlyNamed(u)'
    BY <2>1, <2>2, <2>3 DEF JobInv, OnlyNamed, NoneOf, Copies, New
  <2>6. InFull(u)'
    BY <2>1, <2>2, <2>3 DEF JobInv, InFull, Copies, New, Old, FileSame, ListSame
  <2>7. NoMore(u)'
    BY <2>1, <2>2, <2>3 DEF JobInv, NoMore, AtFirst, NoneOf, Copies, New
  <2> QED BY <2>4, <2>5, <2>6, <2>7 DEF JobInv
<1>2. JobsStore'
  BY <1>1 DEF JobsStore, Alone
<1>3. ASSUME NEW x \in orderly', status'[x] = "READY", Settled(x)', x \in Agents
      PROVE  Complete(x)'
  <2>1. CASE x = a
    <3>1. ~Active(t)'
      BY <1>3, <2>1 DEF Settled, Alone
    <3> QED BY <1>3, <2>1, <3>1
  <2>2. CASE x # a
    <3>1. /\ x \in orderly /\ row'[x] = row[x] /\ status[x] = "READY" /\ vectors'[x] = vectors[x]
          /\ (x \in kept' <=> x \in kept) /\ (x \in repeated' <=> x \in repeated)
      BY <1>3, <2>2 DEF Alone
    <3>2. Settled(x)
      BY <1>3, <2>2 DEF Settled, Alone, Active, Agent
    <3>3. Complete(x)
      BY <3>1, <3>2 DEF KInv, ReadyIsComplete, OrderlyAndReady, Complete
    <3> QED BY <3>1, <3>3 DEF Complete
  <2> QED BY <2>1, <2>2
<1>4. ReadyIsComplete'
  BY <1>3 DEF TInv, TypeOK, ReadyIsComplete, OrderlyAndReady, Complete
<1> QED BY <1>2, <1>4 DEF KInv

\* Each step of a request or a job is one for the agent of its task.
LEMMA StepIsAlone ==
  ASSUME IInv, NEW t \in Tasks, Request(t) \/ Promote(t) \/ Recover(t) \/ Abandon(t) \/ Work(t)
  PROVE  /\ Active(t) /\ data[t] \in TaskData /\ Agent(t) \in Agents /\ Alone(t, Agent(t))
         /\ orderly' \in {orderly, orderly \ {Agent(t)}} /\ orderly' \subseteq orderly
<1> USE DEF IInv, TInv, DInv
<1>1. Active(t)
  BY DEF Request, Create, Update, MoveIn, MoveOut, Enqueue, RequestFails, Requesting, Promote,
     Recover, Abandon, Work, ClearFiles, ClearLists, List, ListRest, File, FileRest, Ready,
     StepFails, Running, Retry, GiveUp, Active, RequestSteps, WorkerSteps
<1>2. data[t] \in TaskData /\ Agent(t) \in Agents
  BY <1>1 DEF DataThere, TaskData, Agent
<1> DEFINE a == Agent(t)
<1>3. /\ \A u \in Tasks \ {t} : pc'[u] = pc[u] /\ data'[u] = data[u]
      /\ Active(t)' => data'[t] = data[t]
  BY <1>1 DEF TypeOK, Request, Create, Update, MoveIn, MoveOut, Enqueue, RequestFails, Promote,
     Recover, Abandon, Work, ClearFiles, ClearLists, List, ListRest, File, FileRest, Ready,
     StepFails, Retry, GiveUp, End, Goto, jobs, Active
<1>4. \A x \in Agents \ {a} :
        row'[x] = row[x] /\ status'[x] = status[x] /\ vectors'[x] = vectors[x]
  BY <1>2 DEF TypeOK, Request, Create, Update, MoveIn, MoveOut, Enqueue, RequestFails, Promote,
     Recover, Abandon, Work, ClearFiles, ClearLists, List, ListRest, File, FileRest, Ready,
     StepFails, Retry, GiveUp, Report, Without, StoreFirst, StoreRest, database
<1>5. /\ orderly' \in {orderly, orderly \ {a}}
      /\ orderly' \subseteq orderly
      /\ \A x \in Agents \ {a} : (x \in kept' <=> x \in kept) /\ (x \in repeated' <=> x \in repeated)
  BY DEF Request, Create, Update, MoveIn, MoveOut, Enqueue, RequestFails, Promote,
     Recover, Abandon, Work, ClearFiles, ClearLists, List, ListRest, File, FileRest, Ready,
     StepFails, Retry, GiveUp, observers, IngestJob, DegestJob, RemovalJob, Repeats, Drop
<1>6. Active(t)' => Agent(t)' = a
  BY <1>3 DEF Agent
<1>7. a \in orderly' => \A u \in Tasks \ {t} : Active(u) => Agent(u) # a
  BY <1>1, <1>5 DEF OneTask
<1> QED BY <1>1, <1>2, <1>3, <1>4, <1>5, <1>6, <1>7 DEF Alone

\* The steps of a request up to its job.
LEMMA RequestStores ==
  ASSUME IInv, TInv', KInv, NEW t \in Tasks, Request(t)
  PROVE  KInv'
<1> DEFINE a == Agent(t)
<1>0. /\ Active(t) /\ data[t] \in TaskData /\ a \in Agents /\ Alone(t, a)
      /\ orderly' \subseteq orderly
  BY StepIsAlone
<1>1. CASE RequestFails(t)
  <2>1. pc'[t] = "idle" /\ a \notin orderly'
    BY <1>1 DEF RequestFails, End, Drop, Goto, IInv, TInv, TypeOK
  <2> QED BY <1>0, <2>1, AloneKeeps DEF IInv, Active
<1>2. CASE ~RequestFails(t)
  <2>1. PICK b \in Agents : b = a
    BY <1>0
  <2>2. /\ data' = data /\ pc[t] \in RequestSteps /\ Active(t)' /\ vectors' = vectors
        /\ pc'[t] \in (RequestSteps \ {"create", "update"}) \cup {"waiting"}
        /\ pc'[t] = "waiting" => pc[t] = "enqueue"
    BY <1>0, <1>2 DEF Request, Create, Update, MoveIn, MoveOut, Enqueue, Goto, RequestSteps, Active,
       IInv, TInv, TypeOK, database
  <2>3. /\ New(t)' = New(t) /\ Old(t)' = Old(t) /\ Agent(t)' = a /\ data'[t] = data[t]
        /\ vectors'[a] = vectors[a]
    BY <2>2 DEF New, Old, Agent
  <2>4. ASSUME b \in orderly' PROVE JobInv(t)'
    <3>1. JobInv(t)
      BY <1>0, <2>1, <2>4 DEF KInv, JobsStore
    <3>2. data[t].kind # "delete" => Written(t)'
      <4>1. CASE Create(t) \/ Update(t)
        BY <1>0, <2>1, <2>3, <4>1 DEF Create, Update, Written, HasRow, IInv, TInv, TypeOK
      <4>2. CASE ~(Create(t) \/ Update(t))
        <5>1. UNCHANGED database /\ pc[t] \notin {"create", "update"}
          BY <1>2, <4>2 DEF Request, MoveIn, MoveOut, Enqueue
        <5> QED BY <2>3, <3>1, <5>1 DEF JobInv, Known, Written, HasRow, database
      <4> QED BY <4>1, <4>2
    <3>3. data[t].kind = "delete" => status'[b] = status[b]
      BY <1>0, <1>2, <2>1 DEF Request, Create, Update, MoveIn, MoveOut, Enqueue, database,
         IInv, TInv, DataThere
    <3>4. Known(t)'
      BY <2>1, <2>2, <2>3, <3>1, <3>2, <3>3 DEF JobInv, Known, HasRow
    <3>5. pc'[t] \notin StoreSteps \cup {"clearLists", "delayed"}
      BY <2>2 DEF StoreSteps, RequestSteps
    <3>6. OnlyNamed(t)'
      BY <2>3, <3>1, <3>5 DEF JobInv, OnlyNamed, NoneOf, Copies
    <3>7. InFull(t)'
      <4>1. ASSUME data[t].kind = "edit", b \notin kept', pc'[t] \notin RequestSteps
            PROVE  ~FileSame(t) /\ ~ListSame(t)
        BY <1>2, <2>1, <2>2, <4>1 DEF Request, Create, Update, MoveIn, MoveOut, Enqueue, IngestJob,
           DegestJob, RemovalJob, RequestSteps
      <4> QED BY <2>1, <2>3, <3>5, <4>1 DEF InFull, StoreSteps, FileSame, ListSame
    <3>8. NoMore(t)'
      BY <2>2, <2>3, <3>1, <3>5 DEF JobInv, NoMore, AtFirst, NoneOf, Copies, StoreSteps
    <3> QED BY <3>4, <3>6, <3>7, <3>8 DEF JobInv
  <2> QED BY <1>0, <2>1, <2>2, <2>4, AloneKeeps DEF IInv
<1> QED BY <1>1, <1>2

\* A request begins: an added agent has nothing stored.
LEMMA BeginStores ==
  ASSUME IInv, IInv', KInv, NEW t \in Tasks, NEW a \in Agents, NEW f \in Files,
         NEW l \in Lists, Add(t, a, f, l) \/ Edit(t, a, f, l) \/ Delete(t, a)
  PROVE  KInv'
<1> USE DEF IInv, TInv, TypeOK
<1>0. /\ pc[t] = "idle" /\ ~Active(t) /\ Active(t)' /\ Agent(t)' = a /\ pc'[t] \in RequestSteps
      /\ \A u \in Tasks \ {t} : pc'[u] = pc[u] /\ data'[u] = data[u]
      /\ UNCHANGED <<vectors, kept, repeated>>
  BY DEF Add, Edit, Delete, Begin, Goto, Active, Agent, RequestSteps, database
<1>1. \A x \in Agents \ {a} : /\ row'[x] = row[x] /\ status'[x] = status[x]
                              /\ x \in orderly' => x \in orderly
  BY DEF Add, Edit, Delete, Begins, database
<1>2. a \in orderly' => \A u \in Tasks \ {t} : Active(u) => Agent(u) # a
  BY DEF Add, Edit, Delete, Begins, Settled
<1>3. Alone(t, a)
  BY <1>0, <1>1, <1>2 DEF Alone
<1>4. pc'[t] \notin StoreSteps \cup {"clearLists", "waiting", "delayed"}
  BY <1>0 DEF RequestSteps, StoreSteps
<1>5. ASSUME a \in orderly' PROVE JobInv(t)'
  <2>1. CASE Add(t, a, f, l)
    <3>1. /\ data'[t] = [kind |-> "add", agent |-> a, old |-> Nothing, new |-> [file |-> f, list |-> l]]
          /\ pc'[t] = "create"
      BY <2>1 DEF Add, Begin, Goto
    <3>2. \A p \in Pieces : vectors'[a][p] = "none"
      BY <1>0, <2>1 DEF Add, Stored
    <3>3. NoneOf(t, Pieces)' /\ NoneOf(t, Pieces \ Named(New(t)))'
      BY <1>0, <3>2 DEF NoneOf, Copies
    <3> QED BY <1>4, <3>1, <3>3, <1>0 DEF JobInv, Known, OnlyNamed, InFull, NoMore, Old, StoreSteps
  <2>2. CASE Edit(t, a, f, l)
    <3>1. data'[t].kind = "edit" /\ pc'[t] = "update"
      BY <2>2 DEF Edit, Begin, Goto
    <3> QED BY <1>0, <1>4, <3>1 DEF JobInv, Known, OnlyNamed, InFull, NoMore, AtFirst, StoreSteps
  <2>3. CASE Delete(t, a)
    <3>1. data'[t].kind = "delete" /\ New(t)' = Nothing /\ status'[a] = "none"
      BY <2>3 DEF Delete, Begin, New
    <3> QED BY <1>0, <1>4, <3>1 DEF JobInv, Known, OnlyNamed, InFull, NoMore, AtFirst, StoreSteps, HasRow
  <2> QED BY <2>1, <2>2, <2>3
<1> QED BY <1>0, <1>3, <1>5, AloneKeeps

\* The job goes on with nothing changed but its step, which is no storing step.
LEMMA GoStores ==
  ASSUME NEW t \in Tasks, JobInv(t), NEW s \in QueueSteps \cup WorkerSteps,
         Active(t), pc[t] \notin RequestSteps, pc'[t] = s, UNCHANGED <<row, vectors, data, kept>>,
         \A a \in Agents : HasRow(a)' <=> HasRow(a), Agent(t) \in Agents,
         s \notin StoreSteps \cup {"clearLists"},
         Agent(t) \in repeated => Agent(t) \in repeated',
         AtFirst(t) => (s \in {"delayed", "waiting"} => Agent(t) \in repeated')
  PROVE  JobInv(t)'
<1>1. /\ pc'[t] = s /\ New(t)' = New(t) /\ Old(t)' = Old(t) /\ Agent(t)' = Agent(t)
      /\ (HasRow(Agent(t))' <=> HasRow(Agent(t)))
  BY DEF New, Old, Agent, HasRow
<1>2. pc[t] \notin {"create", "update"} /\ s \notin RequestSteps
  BY DEF RequestSteps, QueueSteps, WorkerSteps
<1>3. Known(t)'
  BY <1>1, <1>2 DEF JobInv, Known, Written
<1>4. OnlyNamed(t)'
  BY <1>1, <1>2 DEF JobInv, OnlyNamed, NoneOf, Copies
<1>5. InFull(t)'
  BY <1>1, <1>2 DEF JobInv, InFull, FileSame, ListSame, StoreSteps
<1>6. NoMore(t)'
  BY <1>1, <1>2 DEF JobInv, NoMore, AtFirst, StoreSteps
<1> QED BY <1>3, <1>4, <1>5, <1>6 DEF JobInv

\* Steps of the queue for one job, and failures of a worker.
LEMMA QueueStores ==
  ASSUME IInv, TInv', KInv, NEW t \in Tasks,
         Promote(t) \/ Recover(t) \/ Abandon(t) \/ StepFails(t) \/ Retry(t) \/ GiveUp(t)
  PROVE  KInv'
<1> USE DEF IInv, TInv, TypeOK
<1>0. PICK a \in Agents : a = Agent(t) /\ Active(t) /\ data[t] \in TaskData /\ Alone(t, a)
                          /\ orderly' \subseteq orderly
  BY StepIsAlone DEF Work
<1>1. CASE Abandon(t)
  <2>1. pc'[t] = "idle" /\ a \notin orderly'
    BY <1>0, <1>1 DEF Abandon, End, Drop, Goto
  <2> QED BY <1>0, <2>1, AloneKeeps DEF Active
<1>2. CASE GiveUp(t)
  <2>1. pc'[t] = "idle" /\ (a \in orderly' => status'[a] = "FAILED")
    BY <1>0, <1>2 DEF GiveUp, End, Drop, Goto
  <2> QED BY <1>0, <2>1, AloneKeeps DEF Active
<1>3. CASE Promote(t) \/ Recover(t) \/ StepFails(t) \/ Retry(t)
  <2>1. PICK s \in QueueSteps \cup WorkerSteps :
          /\ s \notin StoreSteps \cup {"clearLists"} /\ Goto(t, s) /\ pc'[t] = s
          /\ s = "waiting" => pc[t] \in {"delayed", "stalled"}
          /\ s = "delayed" => pc[t] = "catch"
    BY <1>3 DEF Promote, Recover, StepFails, Retry, QueueSteps, WorkerSteps, StoreSteps, Goto
  <2>2. /\ UNCHANGED <<row, vectors, data, kept>> /\ pc[t] \notin RequestSteps
        /\ \A x \in Agents : HasRow(x)' <=> HasRow(x)
    BY <1>0, <1>3 DEF Promote, Recover, StepFails, Running, Retry, Report, database, observers,
       RequestSteps, WorkerSteps, HasRow
  <2>3. /\ a \in repeated => a \in repeated'
        /\ data[t].kind = "add" /\ s = "waiting" /\ pc[t] = "stalled" => a \in repeated'
        /\ data[t].kind = "add" /\ s = "delayed" => a \in repeated'
    BY <1>0, <1>3, <2>1 DEF Promote, Recover, StepFails, Retry, Repeats, observers, Goto
  <2>4. ASSUME a \in orderly' PROVE JobInv(t)'
    <3>1. JobInv(t)
      BY <1>0, <2>4 DEF KInv, JobsStore
    <3>2. AtFirst(t) => pc[t] # "delayed"
      BY <3>1 DEF JobInv, NoMore
    <3>3. AtFirst(t) => (s \in {"delayed", "waiting"} => a \in repeated')
      BY <1>0, <2>1, <2>3, <3>2 DEF AtFirst
    <3> QED BY <1>0, <2>1, <2>2, <2>3, <3>1, <3>3, GoStores
  <2>5. Active(t)'
    BY <2>1 DEF Active, Goto, QueueSteps, WorkerSteps
  <2> QED BY <1>0, <2>4, <2>5, AloneKeeps
<1> QED BY <1>1, <1>2, <1>3

\* What a worker step on the vectors needs to know, and keeps anyway.
LEMMA WorkerGoes ==
  ASSUME IInv, NEW t \in Tasks, JobInv(t), NEW s \in WorkerSteps,
         Active(t), pc[t] \in WorkerSteps, Goto(t, s), UNCHANGED <<row, data, observers>>,
         \A a \in Agents : HasRow(a)' <=> HasRow(a), Agent(t) \in Agents
  PROVE  /\ Known(t)' /\ pc'[t] = s
         /\ New(t)' = New(t) /\ Old(t)' = Old(t) /\ Agent(t)' = Agent(t)
         /\ data[t].kind = "edit" /\ Agent(t) \notin kept => ~FileSame(t) /\ ~ListSame(t)
         /\ data[t].kind # "delete" => Written(t) /\ New(t) \in Whole
         /\ data[t].kind = "add" => ~FileSame(t) /\ ~ListSame(t)
<1>1. /\ pc'[t] = s /\ New(t)' = New(t) /\ Old(t)' = Old(t) /\ Agent(t)' = Agent(t)
      /\ (HasRow(Agent(t))' <=> HasRow(Agent(t)))
  BY DEF IInv, TInv, TypeOK, Goto, New, Old, Agent, HasRow
<1>2. pc[t] \notin RequestSteps /\ pc[t] \notin {"create", "update"} /\ s \notin RequestSteps
  BY DEF RequestSteps, WorkerSteps
<1>3. Known(t)'
  BY <1>1, <1>2 DEF JobInv, Known, Written
<1>4. data[t].kind # "delete" => Written(t) /\ New(t) \in Whole
  BY <1>2 DEF JobInv, Known, IInv, TInv, DataThere
<1>5. data[t].kind = "add" => ~FileSame(t) /\ ~ListSame(t)
  BY <1>4, NoneAssumption DEF JobInv, Known, FileSame, ListSame, Nothing, Whole
<1>6. data[t].kind = "edit" /\ Agent(t) \notin kept => ~FileSame(t) /\ ~ListSame(t)
  BY <1>2 DEF JobInv, InFull
<1> QED BY <1>1, <1>3, <1>4, <1>5, <1>6

\* The worker clears the agent of documents, then of products.
LEMMA ClearStores ==
  ASSUME IInv, TInv', KInv, NEW t \in Tasks, ClearFiles(t) \/ ClearLists(t)
  PROVE  KInv'
<1> USE DEF IInv, TInv, TypeOK
<1>0. PICK a \in Agents : a = Agent(t) /\ Active(t) /\ data[t] \in TaskData /\ Alone(t, a)
                          /\ orderly' \subseteq orderly
  BY StepIsAlone DEF Work
<1>1. CASE ClearFiles(t)
  <2>1. /\ Goto(t, "clearLists") /\ vectors' = Without(a, Files) /\ pc[t] \in WorkerSteps
        /\ UNCHANGED <<row, status, data, observers>> /\ "clearLists" \in WorkerSteps
    BY <1>0, <1>1 DEF ClearFiles, WorkerSteps
  <2>2. ASSUME a \in orderly' PROVE JobInv(t)'
    <3>1. JobInv(t) /\ \A x \in Agents : HasRow(x)' <=> HasRow(x)
      BY <1>0, <2>1, <2>2 DEF KInv, JobsStore, HasRow
    <3>2. Known(t)' /\ pc'[t] = "clearLists" /\ Agent(t)' = a /\ New(t)' = New(t) /\ Old(t)' = Old(t)
          /\ (data[t].kind = "edit" /\ a \notin kept => ~FileSame(t) /\ ~ListSame(t))
      BY <1>0, <2>1, <3>1, WorkerGoes
    <3>3. \A p \in Pieces : vectors'[a][p] = IF p \in Files THEN "none" ELSE vectors[a][p]
      BY <1>0, <2>1 DEF Without
    <3>4. OnlyNamed(t)'
      BY <1>0, <2>1, <3>1, <3>2, <3>3 DEF JobInv, OnlyNamed, NoneOf, Copies, Pieces, StoreSteps
    <3>5. InFull(t)'
      BY <1>0, <2>1, <3>2 DEF InFull, observers, FileSame, ListSame
    <3>6. NoMore(t)'
      BY <2>1, <3>2 DEF NoMore, RequestSteps, StoreSteps
    <3> QED BY <3>2, <3>4, <3>5, <3>6 DEF JobInv
  <2>3. Active(t)'
    BY <2>1 DEF Active, Goto
  <2> QED BY <1>0, <2>2, <2>3, AloneKeeps
<1>2. CASE ClearLists(t) /\ data[t].kind # "delete"
  <2>1. PICK s \in {"list", "file", "ready"} :
          s = AfterClearing(t) /\ s \in StoreSteps /\ s \in WorkerSteps
    BY DEF AfterClearing, StoreSteps, WorkerSteps
  <2>2. /\ Goto(t, s) /\ vectors' = Without(a, Lists) /\ pc[t] = "clearLists"
        /\ UNCHANGED <<row, status, data, observers>> /\ pc[t] \in WorkerSteps
    BY <1>0, <1>2, <2>1 DEF ClearLists, WorkerSteps
  <2>3. ASSUME a \in orderly' PROVE JobInv(t)'
    <3>1. JobInv(t) /\ \A x \in Agents : HasRow(x)' <=> HasRow(x)
      BY <1>0, <2>2, <2>3 DEF KInv, JobsStore, HasRow
    <3>2. Known(t)' /\ pc'[t] = s /\ Agent(t)' = a /\ New(t)' = New(t) /\ Old(t)' = Old(t)
          /\ (data[t].kind = "edit" /\ a \notin kept => ~FileSame(t) /\ ~ListSame(t))
          /\ (data[t].kind = "add" => ~FileSame(t) /\ ~ListSame(t)) /\ New(t) \in Whole
      BY <1>0, <1>2, <2>1, <2>2, <3>1, WorkerGoes
    <3>3. \A p \in Pieces : vectors'[a][p] = "none"
      BY <1>0, <2>2, <3>1 DEF Without, JobInv, OnlyNamed, NoneOf, Copies, Pieces
    <3>4. OnlyNamed(t)'
      BY <3>2, <3>3 DEF OnlyNamed, NoneOf, Copies, Pieces
    <3>5. data[t].kind \in {"add", "edit"}
      BY <1>0, <1>2 DEF TaskData
    <3>6. a \notin kept => s = "list"
      BY <1>0, <2>1, <3>2, <3>5 DEF AfterClearing
    <3>7. InFull(t)'
      BY <1>0, <2>2, <3>2, <3>6 DEF InFull, observers, FileSame, ListSame
    <3>8. NoMore(t)'
      BY <2>1, <3>2, <3>3 DEF NoMore, AtFirst, NoneOf, Copies, RequestSteps, Pieces, Whole
    <3> QED BY <3>2, <3>4, <3>7, <3>8 DEF JobInv
  <2>4. Active(t)'
    BY <2>1, <2>2 DEF Active, Goto
  <2> QED BY <1>0, <2>3, <2>4, AloneKeeps
<1>3. CASE ClearLists(t) /\ data[t].kind = "delete"
  <2>1. pc'[t] = "idle" /\ status' = status
    BY <1>3 DEF ClearLists, End, Goto
  <2>2. a \in orderly' => status'[a] # "READY"
    BY <1>0, <1>3, <2>1 DEF KInv, JobsStore, JobInv, Known, HasRow
  <2> QED BY <1>0, <2>1, <2>2, AloneKeeps DEF Active
<1> QED BY <1>1, <1>2, <1>3

\* The worker stores the products, then the document.
LEMMA PiecesStored ==
  ASSUME IInv, TInv', KInv, NEW t \in Tasks, List(t) \/ ListRest(t) \/ File(t) \/ FileRest(t)
  PROVE  KInv'
<1> USE DEF IInv, TInv, TypeOK
<1>0. PICK a \in Agents : a = Agent(t) /\ Active(t) /\ data[t] \in TaskData /\ Alone(t, a)
                          /\ orderly' \subseteq orderly
  BY StepIsAlone DEF Work
<1> DEFINE s == CASE pc[t] = "list" -> "listRest"
                  [] pc[t] = "listRest" -> IF FileSame(t) THEN "ready" ELSE "file"
                  [] pc[t] = "file" -> "fileRest"
                  [] pc[t] = "fileRest" -> "ready"
           q == IF pc[t] \in {"list", "listRest"} THEN New(t).list ELSE New(t).file
           n == IF pc[t] \in {"list", "file"} THEN FirstRow(vectors[a][q]) ELSE RestOfRows(vectors[a][q])
<1>1. /\ pc[t] \in {"list", "listRest", "file", "fileRest"} /\ pc[t] \in WorkerSteps
      /\ data[t].kind \in {"add", "edit"} /\ New(t) \in Whole
      /\ UNCHANGED <<row, status, data, observers>>
  BY <1>0 DEF List, ListRest, File, FileRest, WorkerSteps, DataThere, TaskData
<1>2. Goto(t, s) /\ vectors' = [vectors EXCEPT ![a][q] = n]
  BY <1>0 DEF List, ListRest, File, FileRest, StoreFirst, StoreRest
<1>3. s \in StoreSteps /\ s \in WorkerSteps /\ s # "list" /\ q \in {New(t).file, New(t).list} /\ q \in Pieces
  BY <1>1 DEF StoreSteps, WorkerSteps, Whole, Pieces
<1>4. \A p \in Pieces : vectors'[a][p] = IF p = q THEN n ELSE vectors[a][p]
  BY <1>2
<1>5. ASSUME a \in orderly' PROVE JobInv(t)'
  <2>1. JobInv(t) /\ \A x \in Agents : HasRow(x)' <=> HasRow(x)
    BY <1>0, <1>1, <1>5 DEF KInv, JobsStore, HasRow
  <2>2. Known(t)' /\ pc'[t] = s /\ Agent(t)' = a /\ New(t)' = New(t) /\ Old(t)' = Old(t)
        /\ (data[t].kind = "edit" /\ a \notin kept => ~FileSame(t) /\ ~ListSame(t))
        /\ (data[t].kind = "add" => ~FileSame(t) /\ ~ListSame(t))
    BY <1>0, <1>1, <1>2, <1>3, <2>1, WorkerGoes
  <2>3. New(t).file \in Files /\ New(t).list \in Lists /\ New(t).file # New(t).list
        /\ New(t).file \in Pieces /\ New(t).list \in Pieces
        /\ q \in Named(New(t))
    BY <1>1, <1>3, DisjointAssumption, NoneAssumption DEF Whole, Pieces, Named
  <2>4. pc[t] \in StoreSteps
    BY <1>1 DEF StoreSteps
  <2>5. OnlyNamed(t)'
    <3>1. \A p \in Pieces \ Named(New(t)) : vectors'[a][p] = "none"
      BY <1>0, <1>4, <2>1, <2>3, <2>4 DEF JobInv, OnlyNamed, NoneOf, Copies
    <3> QED BY <1>3, <2>2, <3>1 DEF OnlyNamed, NoneOf, Copies, StoreSteps
  <2>6. InFull(t)'
    <3>1. ASSUME a \notin kept
          PROVE  /\ s = "listRest" => vectors'[a][New(t).list] \in {"part", "several"}
                 /\ s \in {"file", "fileRest", "ready"} => vectors'[a][New(t).list] \in {"whole", "several"}
                 /\ s = "fileRest" => vectors'[a][New(t).file] \in {"part", "several"}
                 /\ s = "ready" => vectors'[a][New(t).file] \in {"whole", "several"}
      <4>1. ~FileSame(t)
        BY <1>1, <2>2, <3>1
      <4> QED BY <1>0, <1>1, <1>4, <2>1, <2>3, <3>1, <4>1 DEF JobInv, InFull, Copies, FirstRow, RestOfRows
    <3> QED BY <1>0, <1>1, <2>2, <3>1 DEF InFull, observers, FileSame, ListSame, Copies
  <2>7. NoMore(t)'
    <3>1. ASSUME AtFirst(t) \/ data[t].kind = "edit"
          PROVE  /\ \A p \in Pieces : vectors'[a][p] # "several"
                 /\ s = "listRest" => vectors'[a][New(t).list] = "part"
                 /\ s \in {"list", "listRest", "file"} => vectors'[a][New(t).file] = "none"
                 /\ s = "fileRest" => vectors'[a][New(t).file] = "part"
      <4>1. /\ \A p \in Pieces : vectors[a][p] # "several"
            /\ pc[t] = "list" => vectors[a][New(t).list] = "none"
            /\ pc[t] = "listRest" => vectors[a][New(t).list] = "part"
            /\ pc[t] \in {"list", "listRest", "file"} => vectors[a][New(t).file] = "none"
            /\ pc[t] = "fileRest" => vectors[a][New(t).file] = "part"
        BY <1>0, <2>1, <2>4, <3>1 DEF JobInv, NoMore, Copies
      <4>2. n = IF pc[t] \in {"list", "file"} THEN "part" ELSE "whole"
        BY <1>1, <4>1 DEF FirstRow, RestOfRows
      <4> QED BY <1>1, <1>4, <2>3, <4>1, <4>2
    <3> QED BY <1>0, <1>1, <1>3, <2>2, <3>1
            DEF NoMore, AtFirst, observers, Copies, StoreSteps, RequestSteps
  <2> QED BY <2>2, <2>5, <2>6, <2>7 DEF JobInv
<1>6. Active(t)'
  BY <1>2, <1>3 DEF Active, Goto, StoreSteps
<1> QED BY <1>0, <1>5, <1>6, AloneKeeps

\* The job reports that the agent is READY.
LEMMA ReadyStores ==
  ASSUME IInv, TInv', KInv, NEW t \in Tasks, Ready(t)
  PROVE  KInv'
<1> USE DEF IInv, TInv, TypeOK
<1>0. PICK a \in Agents : a = Agent(t) /\ Active(t) /\ data[t] \in TaskData /\ Alone(t, a)
                          /\ orderly' \subseteq orderly
  BY StepIsAlone DEF Work
<1>1. /\ pc[t] = "ready" /\ HasRow(a) /\ UNCHANGED <<row, vectors, observers>>
      /\ data[t].kind \in {"add", "edit"} /\ New(t) \in Whole
      /\ status' = [status EXCEPT ![a] = "READY"]
  BY <1>0 DEF Ready, DataThere, TaskData
<1>2. CASE Goto(t, "catch") /\ UNCHANGED data
  <2>1. Active(t)' /\ pc'[t] = "catch" /\ pc[t] \notin RequestSteps /\ \A x \in Agents : HasRow(x)' <=> HasRow(x)
    BY <1>0, <1>1, <1>2 DEF Active, Goto, HasRow, RequestSteps
  <2>2. "catch" \in QueueSteps \cup WorkerSteps /\ "catch" \notin StoreSteps \cup {"clearLists"}
    BY DEF WorkerSteps, StoreSteps
  <2>3. a \in orderly' => JobInv(t)'
    BY <1>0, <1>1, <1>2, <2>1, <2>2, GoStores DEF KInv, JobsStore, observers
  <2> QED BY <1>0, <2>1, <2>3, AloneKeeps
<1>3. CASE End(t)
  <2>1. ~Active(t)'
    BY <1>3 DEF End, Goto, Active
  <2>2. ASSUME a \in orderly' PROVE Complete(a)'
    <3>1. JobInv(t) /\ pc[t] \notin {"create", "update"} /\ pc[t] \in StoreSteps
      BY <1>0, <1>1, <2>2 DEF KInv, JobsStore, StoreSteps
    <3>2. row[a] = New(t) /\ (data[t].kind = "add" => AtFirst(t) \/ a \in repeated)
      BY <1>0, <1>1, <3>1 DEF JobInv, Known, Written, AtFirst
    <3>3. \A p \in Named(row[a]) : vectors[a][p] \in {"whole", "several"} \/ a \in kept
      BY <1>0, <1>1, <3>1, <3>2 DEF JobInv, InFull, Copies, Named
    <3>4. \A p \in Pieces : vectors[a][p] # "several" \/ a \in repeated
      BY <1>0, <1>1, <3>1, <3>2 DEF JobInv, NoMore, Copies
    <3> QED BY <1>1, <3>3, <3>4 DEF Complete, observers
  <2> QED BY <1>0, <2>1, <2>2, AloneKeeps
<1> QED BY <1>2, <1>3 DEF Ready

\* A worker takes the first job of the queue, which waits.
LEMMA TakeStores ==
  ASSUME IInv, TInv', KInv, Take
  PROVE  KInv'
<1> USE DEF IInv, TInv, TypeOK
<1>1. PICK t \in Tasks : t = Head(waiting) /\ pc[t] = "waiting"
  <2>1. /\ Len(waiting) > 0 /\ Head(waiting) = waiting[1] /\ waiting[1] \in Tasks
        /\ 1 \in 1..Len(waiting)
    BY EmptySeq, LenProperties, ElementOfSeq DEF Take
  <2>2. pc[waiting[1]] = "waiting"
    BY <2>1 DEF QueueWaits
  <2> QED BY <2>1, <2>2
<1>2. Goto(t, FirstStep(t)) /\ UNCHANGED <<database, folder, data, jobs, begun, observers>>
  BY <1>1 DEF Take
<1>3. PICK a \in Agents : a = Agent(t) /\ Active(t) /\ data[t] \in TaskData
  BY <1>1 DEF DataThere, TaskData, Active, Agent
<1>4. \A u \in Tasks \ {t} : pc'[u] = pc[u]
  BY <1>2 DEF Goto
<1>5. Alone(t, a)
  BY <1>2, <1>3, <1>4 DEF Alone, database, observers, Agent, DInv, OneTask
<1>6. FirstStep(t) \in {"list", "clearFiles"} /\ pc'[t] = FirstStep(t) /\ Active(t)'
      /\ (data[t].kind = "add" <=> FirstStep(t) = "list")
  BY <1>1, <1>2 DEF FirstStep, Goto, Active
<1>7. ASSUME a \in orderly' PROVE JobInv(t)'
  <2>1. JobInv(t) /\ pc[t] \notin RequestSteps \cup {"create", "update"}
    BY <1>1, <1>2, <1>3, <1>7 DEF KInv, JobsStore, observers, RequestSteps
  <2>2. /\ New(t)' = New(t) /\ Old(t)' = Old(t) /\ Agent(t)' = a /\ data' = data
        /\ UNCHANGED <<row, status, vectors, kept, repeated>>
    BY <1>2, <1>3 DEF New, Old, Agent, database, observers
  <2>3. Known(t)'
    BY <1>3, <1>6, <2>1, <2>2 DEF JobInv, Known, Written, HasRow
  <2>4. OnlyNamed(t)'
    BY <1>3, <1>6, <2>1, <2>2 DEF JobInv, OnlyNamed, NoneOf, Copies, StoreSteps
  <2>5. InFull(t)'
    BY <1>3, <1>6, <2>1, <2>2 DEF JobInv, InFull, Copies, FileSame, ListSame
  <2>6. pc'[t] = "list" => New(t) \in Whole
    BY <1>1, <1>3, <1>6 DEF DataThere
  <2>7. NoMore(t)'
    BY <1>1, <1>3, <1>6, <2>1, <2>2, <2>6
       DEF JobInv, NoMore, AtFirst, NoneOf, Copies, StoreSteps, RequestSteps, Pieces, Whole
  <2> QED BY <2>3, <2>4, <2>5, <2>7 DEF JobInv
<1> QED BY <1>1, <1>3, <1>5, <1>6, <1>7, AloneKeeps

\* A task that is left alone keeps what it has.
LEMMA SameStores ==
  ASSUME NEW t \in Tasks, JobInv(t), pc'[t] = pc[t], data'[t] = data[t],
         UNCHANGED <<row, status, vectors, kept, repeated>>
  PROVE  JobInv(t)'
<1>1. New(t)' = New(t) /\ Old(t)' = Old(t) /\ Agent(t)' = Agent(t)
  BY DEF New, Old, Agent
<1>2. Known(t)'
  BY <1>1 DEF JobInv, Known, Written, HasRow
<1>3. OnlyNamed(t)' /\ InFull(t)'
  BY <1>1 DEF JobInv, OnlyNamed, InFull, NoneOf, Copies, FileSame, ListSame
<1>4. NoMore(t)'
  BY <1>1 DEF JobInv, NoMore, AtFirst, NoneOf, Copies
<1> QED BY <1>2, <1>3, <1>4 DEF JobInv

\* The worker process ends and leaves what its jobs have stored.
LEMMA CrashStores ==
  ASSUME IInv, KInv, Crash
  PROVE  KInv'
<1> USE DEF IInv, TInv, TypeOK
<1>1. UNCHANGED <<row, status, vectors, data, orderly, kept, repeated>>
  BY DEF Crash, database, observers
<1>2. \A t \in Tasks : pc'[t] = IF Running(t) THEN "stalled" ELSE pc[t]
  BY DEF Crash
<1>3. \A t \in Tasks : Active(t)' <=> Active(t)
  BY <1>2 DEF Active, Running, WorkerSteps
<1>4. ASSUME NEW t \in Tasks, Active(t)', Agent(t)' \in orderly' PROVE JobInv(t)'
  <2>1. JobInv(t) /\ Active(t) /\ Agent(t) \in Agents
    BY <1>1, <1>3, <1>4 DEF KInv, JobsStore, DataThere, TaskData, Agent
  <2>2. CASE Running(t)
    <3>1. pc'[t] = "stalled" /\ pc[t] \notin RequestSteps
      BY <1>2, <2>2 DEF Running, WorkerSteps, RequestSteps
    <3>2. "stalled" \in QueueSteps \cup WorkerSteps /\ "stalled" \notin StoreSteps \cup {"clearLists"}
      BY DEF QueueSteps, StoreSteps
    <3> QED BY <1>1, <2>1, <3>1, <3>2, GoStores DEF HasRow
  <2>3. CASE ~Running(t)
    BY <1>1, <1>2, <2>1, <2>3, SameStores
  <2> QED BY <2>2, <2>3
<1>5. ReadyIsComplete'
  BY <1>1, <1>3 DEF KInv, ReadyIsComplete, OrderlyAndReady, Settled, Agent
<1> QED BY <1>4, <1>5 DEF KInv, JobsStore

\* Nothing stored depends on the folders.
LEMMA FoldersStore ==
  ASSUME KInv, UNCHANGED <<database, pc, data, observers>>
  PROVE  KInv'
<1>1. /\ UNCHANGED <<row, status, vectors, pc, data, orderly, kept, repeated>>
      /\ \A t \in Tasks : (Active(t)' <=> Active(t)) /\ Agent(t)' = Agent(t)
  BY DEF database, observers, Active, Agent
<1>2. JobsStore'
  BY <1>1, SameStores DEF KInv, JobsStore
<1>3. ReadyIsComplete'
  BY <1>1 DEF KInv, ReadyIsComplete, OrderlyAndReady, Settled
<1> QED BY <1>2, <1>3 DEF KInv

\* Every step keeps what jobs store in order.
LEMMA NextKInv == IInv /\ IInv' /\ KInv /\ [Next]_vars => KInv'
<1> SUFFICES ASSUME IInv, IInv', KInv, [Next]_vars PROVE KInv'
  OBVIOUS
<1>0. TInv /\ TInv'
  BY DEF IInv
<1>1. CASE UNCHANGED vars
  BY <1>1, FoldersStore DEF vars
<1>2. ASSUME NEW f \in Files, Upload(f) \/ CleanUp(f)
      PROVE  KInv'
  BY <1>2, FoldersStore DEF Upload, CleanUp
<1>3. ASSUME NEW t \in Tasks, NEW a \in Agents, NEW f \in Files, NEW l \in Lists,
             Add(t, a, f, l) \/ Edit(t, a, f, l)
      PROVE  KInv'
  BY <1>3, BeginStores
<1>4. ASSUME NEW t \in Tasks, NEW a \in Agents, Delete(t, a)
      PROVE  KInv'
  <2>1. row[a].file \in Files /\ row[a].list \in Lists
    BY <1>0, <1>4 DEF Delete, TInv, RowsWhole, Whole
  <2> QED BY <1>4, <2>1, BeginStores
<1>5. ASSUME NEW t \in Tasks, Request(t)
      PROVE  KInv'
  BY <1>0, <1>5, RequestStores
<1>6. ASSUME NEW t \in Tasks, Promote(t) \/ Recover(t) \/ Abandon(t) \/ Work(t)
      PROVE  KInv'
  BY <1>0, <1>6, QueueStores, ClearStores, PiecesStored, ReadyStores DEF Work
<1>7. CASE Take \/ Crash
  BY <1>0, <1>7, TakeStores, CrashStores
<1> QED BY <1>1, <1>2, <1>3, <1>4, <1>5, <1>6, <1>7 DEF Next

\* Nothing is stored at first.
LEMMA InitKInv == Init => KInv
  BY DEF Init, KInv, JobsStore, ReadyIsComplete, OrderlyAndReady, Active

\* A READY agent that was handled in order has every piece of its row in full,
\* unless its last edit kept one, and no piece twice, unless its ingestion was
\* repeated, whatever fails and crashes.
THEOREM ReadyComplete == Spec => []ReadyIsComplete
<1>1. KInv => ReadyIsComplete
  BY DEF KInv
<1>2. Init => IInv
  BY InitIInv
<1> QED BY <1>1, <1>2, InitKInv, NextIInv, NextKInv, PTL DEF Spec

-----------------------------------------------------------------------------
(* Orderly agents are agents of AgentKnowledge                             *)

\* What AgentKnowledge sees of an agent nobody is to rely on, ...
LEMMA ViewOfOther ==
  ASSUME NEW a
  PROVE  /\ a \notin orderly => Stage(a) = "out" /\ Wants(a) = {} /\ Knows(a) = {}
         /\ (a \notin orderly => Stage(a) = "out" /\ Wants(a) = {} /\ Knows(a) = {})'
  BY DEF Stage, Wants, Knows

\* ... of one with a task, before a step and after it, ...
LEMMA ViewOfTask ==
  ASSUME OneTask, NEW t \in Tasks, Active(t), Agent(t) \in orderly
  PROVE  /\ ~Settled(Agent(t)) /\ Stage(Agent(t)) = "changing"
         /\ Wants(Agent(t)) = Named(New(t))
         /\ Knows(Agent(t)) = {p \in Pieces : vectors[Agent(t)][p] # "none"}
<1>1. ~Settled(Agent(t))
  BY DEF Settled
<1>2. Task(Agent(t)) = t
  BY DEF Task, OneTask
<1> QED BY <1>1, <1>2 DEF Stage, Wants, Knows
LEMMA ViewOfTaskNext ==
  ASSUME OneTask', NEW t \in Tasks, Active(t)', NEW a \in Agents, Agent(t)' = a, a \in orderly'
  PROVE  /\ ~Settled(a)' /\ Stage(a)' = "changing"
         /\ Wants(a)' = Named(New(t))'
         /\ Knows(a)' = {p \in Pieces : vectors'[a][p] # "none"}
<1>1. ~Settled(a)'
  BY DEF Settled
<1>2. Task(a)' = t
  BY DEF Task, OneTask
<1> QED BY <1>1, <1>2 DEF Stage, Wants, Knows

\* ... and of one at rest.
LEMMA ViewAtRest ==
  ASSUME NEW a \in Agents
  PROVE  /\ a \in orderly /\ Settled(a) =>
              /\ Stage(a) = IF HasRow(a) THEN status[a] ELSE "out"
              /\ Wants(a) = Named(row[a])
              /\ Knows(a) = {p \in Pieces : vectors[a][p] # "none"}
         /\ (a \in orderly /\ Settled(a) =>
              /\ Stage(a) = IF HasRow(a) THEN status[a] ELSE "out"
              /\ Wants(a) = Named(row[a])
              /\ Knows(a) = {p \in Pieces : vectors[a][p] # "none"})'
  BY DEF Stage, Wants, Knows

\* An agent that a step leaves alone looks as before.
LEMMA ViewFrame ==
  ASSUME TInv, OneTask, OneTask', NEW x \in Agents, x \in orderly' <=> x \in orderly,
         row'[x] = row[x], status'[x] = status[x], vectors'[x] = vectors[x],
         \A u \in Tasks : (Active(u)' /\ Agent(u)' = x) <=> (Active(u) /\ Agent(u) = x),
         \A u \in Tasks : Active(u) /\ Agent(u) = x => data'[u] = data[u]
  PROVE  Stage(x)' = Stage(x) /\ Wants(x)' = Wants(x) /\ Knows(x)' = Knows(x)
<1>1. CASE x \notin orderly
  BY <1>1, ViewOfOther
<1>2. CASE x \in orderly /\ Settled(x)
  <2>1. Settled(x)' /\ (HasRow(x)' <=> HasRow(x))
    BY <1>2 DEF Settled, HasRow
  <2>2. /\ Stage(x)' = (IF HasRow(x)' THEN status'[x] ELSE "out")
        /\ Wants(x)' = Named(row'[x])
        /\ Knows(x)' = {p \in Pieces : vectors'[x][p] # "none"}
    BY <1>2, <2>1, ViewAtRest
  <2>3. /\ Stage(x) = (IF HasRow(x) THEN status[x] ELSE "out")
        /\ Wants(x) = Named(row[x])
        /\ Knows(x) = {p \in Pieces : vectors[x][p] # "none"}
    BY <1>2, ViewAtRest
  <2>4. {p \in Pieces : vectors'[x][p] # "none"} = {p \in Pieces : vectors[x][p] # "none"}
    OBVIOUS
  <2> QED BY <2>1, <2>2, <2>3, <2>4
<1>3. CASE x \in orderly /\ ~Settled(x)
  <2>1. PICK u \in Tasks : Active(u) /\ Agent(u) = x
    BY <1>3 DEF Settled
  <2>2. Active(u)' /\ Agent(u)' = x /\ New(u)' = New(u)
    BY <2>1 DEF New
  <2>3. /\ Stage(x) = "changing" /\ Wants(x) = Named(New(u))
        /\ Knows(x) = {p \in Pieces : vectors[x][p] # "none"}
    BY <1>3, <2>1, ViewOfTask
  <2>4. /\ Stage(x)' = "changing" /\ Wants(x)' = Named(New(u))'
        /\ Knows(x)' = {p \in Pieces : vectors'[x][p] # "none"}
    BY <1>3, <2>2, ViewOfTaskNext
  <2>5. Named(New(u))' = Named(New(u))
    BY <2>2 DEF Named
  <2>6. {p \in Pieces : vectors'[x][p] # "none"} = {p \in Pieces : vectors[x][p] # "none"}
    OBVIOUS
  <2> QED BY <2>3, <2>4, <2>5, <2>6
<1> QED BY <1>1, <1>2, <1>3

\* A step for one agent shows of that agent only, ...
LEMMA ViewOfStep ==
  ASSUME TInv, OneTask, OneTask', NEW t \in Tasks, NEW a \in Agents, Alone(t, a),
         NEW x \in Agents, x # a, x \in orderly' <=> x \in orderly
  PROVE  Stage(x)' = Stage(x) /\ Wants(x)' = Wants(x) /\ Knows(x)' = Knows(x)
<1>1. \A u \in Tasks : Active(u) /\ Agent(u) = x => u # t /\ data'[u] = data[u]
  BY DEF Alone
<1>2. \A u \in Tasks : (Active(u)' /\ Agent(u)' = x) <=> (Active(u) /\ Agent(u) = x)
  BY DEF Alone, Active, Agent
<1> QED BY <1>1, <1>2, ViewFrame DEF Alone

\* ... unless it says that nobody is to rely on some others.
LEMMA MapOfStep ==
  ASSUME TInv, OneTask, OneTask', NEW t \in Tasks, NEW a \in Agents, Alone(t, a),
         \A x \in Agents \ {a} : x \in orderly' <=> x \in orderly
  PROVE  /\ [x \in Agents |-> Stage(x)]' = [[x \in Agents |-> Stage(x)] EXCEPT ![a] = Stage(a)']
         /\ [x \in Agents |-> Wants(x)]' = [[x \in Agents |-> Wants(x)] EXCEPT ![a] = Wants(a)']
         /\ [x \in Agents |-> Knows(x)]' = [[x \in Agents |-> Knows(x)] EXCEPT ![a] = Knows(a)']
<1>1. \A x \in Agents \ {a} : Stage(x)' = Stage(x) /\ Wants(x)' = Wants(x) /\ Knows(x)' = Knows(x)
  BY ViewOfStep
<1> QED BY <1>1

\* Then an agent that was relied on is given up: Lose.
LEMMA LoseOne ==
  ASSUME TInv, OneTask, OneTask', NEW t \in Tasks, NEW a \in Agents, Alone(t, a),
         NEW L \in SUBSET Agents, a \in L, orderly' = orderly \ L
  PROVE  Knowledge!Lose
<1>1. \A x \in L : Stage(x)' = "out" /\ Wants(x)' = {} /\ Knows(x)' = {}
  BY ViewOfOther
<1>2. \A x \in Agents \ L : Stage(x)' = Stage(x) /\ Wants(x)' = Wants(x) /\ Knows(x)' = Knows(x)
  BY ViewOfStep
<1> QED BY <1>1, <1>2 DEF Knowledge!Lose

\* Nothing changes of an agent that looks the same.
LEMMA StutterOfStep ==
  ASSUME TInv, OneTask, OneTask', NEW t \in Tasks, NEW a \in Agents, Alone(t, a),
         \A x \in Agents \ {a} : x \in orderly' <=> x \in orderly,
         Stage(a)' = Stage(a), Wants(a)' = Wants(a), Knows(a)' = Knows(a)
  PROVE  UNCHANGED Knowledge!vars
<1>1. \A x \in Agents : Stage(x)' = Stage(x) /\ Wants(x)' = Wants(x) /\ Knows(x)' = Knows(x)
  BY ViewOfStep
<1> QED BY <1>1 DEF Knowledge!vars

\* A row that is not there is empty.
RowsEmpty == \A a \in Agents : ~HasRow(a) => row[a] = Nothing

\* Rows come and go with their status.
LEMMA RowsInductive == TInv /\ RowsEmpty /\ [Next]_vars => RowsEmpty'
<1> SUFFICES ASSUME TInv, RowsEmpty, [Next]_vars PROVE RowsEmpty'
  OBVIOUS
<1> USE DEF TInv, TypeOK
<1>1. CASE UNCHANGED <<row, status>>
  BY <1>1 DEF RowsEmpty, HasRow
<1>2. ASSUME NEW t \in Tasks, NEW a \in Agents, Delete(t, a)
      PROVE  RowsEmpty'
  BY <1>2 DEF Delete, RowsEmpty, HasRow, Contents, Nothing
<1>3. ASSUME NEW t \in Tasks, Create(t) \/ Update(t) \/ Ready(t) \/ Retry(t) \/ GiveUp(t)
      PROVE  RowsEmpty'
  <2>1. Agent(t) \in Agents
    BY <1>3 DEF Create, Update, Ready, Retry, GiveUp, DataThere, Active, TaskData, Agent
  <2> QED BY <1>3, <2>1 DEF Create, Update, Ready, Retry, GiveUp, Report, RowsEmpty, HasRow
<1>4. ASSUME NEW t \in Tasks, \/ MoveIn(t) \/ MoveOut(t) \/ Enqueue(t) \/ RequestFails(t)
                              \/ Promote(t) \/ Recover(t) \/ Abandon(t) \/ ClearFiles(t)
                              \/ ClearLists(t) \/ List(t) \/ ListRest(t) \/ File(t)
                              \/ FileRest(t) \/ StepFails(t)
      PROVE  UNCHANGED <<row, status>>
  BY <1>4 DEF MoveIn, MoveOut, Enqueue, RequestFails, Promote, Recover, Abandon, ClearFiles,
     ClearLists, List, ListRest, File, FileRest, StepFails, database
<1>5. CASE \/ \E f \in Files : Upload(f) \/ CleanUp(f)
           \/ \E t \in Tasks, a \in Agents, f \in Files, l \in Lists : Add(t, a, f, l) \/ Edit(t, a, f, l)
           \/ Take \/ Crash \/ UNCHANGED vars
  BY <1>1, <1>5 DEF Upload, CleanUp, Add, Edit, Take, Crash, vars, database
<1> HIDE DEF TInv, TypeOK
<1> QED BY <1>1, <1>2, <1>3, <1>4, <1>5 DEF Next, Request, Work

\* A job adds only pieces that its request names.
LEMMA OnlyNamedAreAdded ==
  ASSUME TInv, NEW t \in Tasks, Active(t),
         Request(t) \/ Promote(t) \/ Recover(t) \/ Abandon(t) \/ Work(t), NEW p \in Pieces,
         vectors'[Agent(t)][p] # "none"
  PROVE  vectors[Agent(t)][p] # "none" \/ p \in Named(New(t))
<1> USE DEF TInv, TypeOK
<1>0. PICK a \in Agents : a = Agent(t)
  BY DEF DataThere, TaskData, Agent
<1>1. CASE vectors' = vectors
  BY <1>1
<1>2. CASE ClearFiles(t) \/ ClearLists(t)
  BY <1>0, <1>2 DEF ClearFiles, ClearLists, Without
<1>3. CASE List(t) \/ ListRest(t)
  <2>1. New(t).list \in Lists /\ New(t).list # None
    BY <1>3, NoneAssumption DEF List, ListRest, DataThere, Whole
  <2> QED BY <1>0, <1>3, <2>1 DEF List, ListRest, StoreFirst, StoreRest, Named
<1>4. CASE File(t) \/ FileRest(t)
  <2>1. New(t).file \in Files /\ New(t).file # None
    BY <1>4, NoneAssumption DEF File, FileRest, DataThere, Whole
  <2> QED BY <1>0, <1>4, <2>1 DEF File, FileRest, StoreFirst, StoreRest, Named
<1>5. CASE ~(ClearFiles(t) \/ ClearLists(t) \/ List(t) \/ ListRest(t) \/ File(t) \/ FileRest(t))
  <2>1. vectors' = vectors
    BY <1>5 DEF Request, Create, Update, MoveIn, MoveOut, Enqueue, RequestFails, Promote, Recover,
       Abandon, Work, Ready, StepFails, Retry, GiveUp, database
  <2> QED BY <1>1, <2>1
<1> QED BY <1>2, <1>3, <1>4, <1>5

\* A task of an orderly agent ends with a report, or with nothing left.
LEMMA EndsWell ==
  ASSUME IInv, KInv, RowsEmpty, NEW t \in Tasks, NEW a \in Agents, a = Agent(t), Active(t),
         data[t] \in TaskData, a \in orderly, a \in orderly', ~Active(t)',
         Request(t) \/ Promote(t) \/ Recover(t) \/ Abandon(t) \/ Work(t)
  PROVE  \/ /\ status'[a] \in {"READY", "FAILED"} /\ row' = row /\ vectors' = vectors
            /\ row[a] = New(t) /\ Named(New(t)) # {}
            /\ status'[a] = "READY" => \A p \in Pieces : vectors[a][p] # "none" => p \in Named(New(t))
         \/ /\ New(t) = Nothing /\ status'[a] = "none" /\ row'[a] = Nothing
            /\ \A p \in Pieces : vectors'[a][p] = "none"
<1> USE DEF IInv, TInv, TypeOK
<1>0. JobInv(t)
  BY DEF KInv, JobsStore
<1>1. Ready(t) \/ GiveUp(t) \/ ClearLists(t)
  BY DEF Request, Create, Update, MoveIn, MoveOut, Enqueue, RequestFails, Promote, Recover, Abandon,
     Work, ClearFiles, List, ListRest, File, FileRest, StepFails, Retry, Drop, Goto, Active
<1>2. ASSUME data[t].kind # "delete" PROVE Named(New(t)) # {}
  <2>1. New(t).file \in Files /\ New(t).file # None
    BY <1>2, NoneAssumption DEF DataThere, Whole
  <2> QED BY <2>1 DEF Named
<1>3. CASE Ready(t)
  <2>1. /\ pc[t] = "ready" /\ status' = [status EXCEPT ![a] = "READY"] /\ row' = row /\ vectors' = vectors
        /\ data[t].kind # "delete"
    BY <1>3 DEF Ready, DataThere
  <2>2. row[a] = New(t)
    BY <1>0, <2>1 DEF JobInv, Known, Written
  <2>3. \A p \in Pieces : vectors[a][p] # "none" => p \in Named(New(t))
    BY <1>0, <2>1 DEF JobInv, OnlyNamed, StoreSteps, NoneOf, Copies
  <2> QED BY <1>2, <2>1, <2>2, <2>3
<1>4. CASE GiveUp(t)
  <2>1. /\ pc[t] = "catch" /\ status'[a] = "FAILED" /\ row' = row /\ vectors' = vectors
    BY <1>4 DEF GiveUp, Drop
  <2>2. data[t].kind # "delete"
    BY <1>0, <1>4, <2>1 DEF JobInv, Known, GiveUp, Report, HasRow
  <2>3. row[a] = New(t)
    BY <1>0, <2>1, <2>2 DEF JobInv, Known, Written
  <2> QED BY <1>2, <2>1, <2>2, <2>3
<1>5. CASE ClearLists(t)
  <2>1. /\ data[t].kind = "delete" /\ pc[t] = "clearLists" /\ vectors' = Without(a, Lists)
        /\ UNCHANGED <<row, status>>
    BY <1>5 DEF ClearLists, Goto, Active, AfterClearing
  <2>2. New(t) = Nothing /\ ~HasRow(a)
    BY <1>0, <2>1 DEF JobInv, Known
  <2>3. \A p \in Pieces : vectors'[a][p] = "none"
    BY <1>0, <2>1 DEF Without, JobInv, OnlyNamed, NoneOf, Copies, Pieces
  <2> QED BY <2>1, <2>2, <2>3 DEF RowsEmpty, HasRow
<1> QED BY <1>1, <1>3, <1>4, <1>5

\* A step of a task is a step of AgentKnowledge, or does not show.
LEMMA TaskRefines ==
  ASSUME IInv, IInv', KInv, RowsEmpty, NEW t \in Tasks,
         Request(t) \/ Promote(t) \/ Recover(t) \/ Abandon(t) \/ Work(t)
  PROVE  Knowledge!Next \/ UNCHANGED Knowledge!vars
<1>0. /\ TInv /\ OneTask /\ OneTask' /\ TypeOK
  BY DEF IInv, TInv, DInv
<1>1. PICK a \in Agents : /\ a = Agent(t) /\ Active(t) /\ data[t] \in TaskData /\ Alone(t, a)
                          /\ orderly' \in {orderly, orderly \ {a}}
  BY StepIsAlone
<1>2. \A x \in Agents \ {a} : x \in orderly' <=> x \in orderly
  BY <1>1
<1>3. CASE a \notin orderly
  <2>1. Stage(a)' = Stage(a) /\ Wants(a)' = Wants(a) /\ Knows(a)' = Knows(a)
    BY <1>1, <1>3, ViewOfOther
  <2> QED BY <1>0, <1>1, <1>2, <2>1, StutterOfStep
<1>4. CASE a \in orderly /\ a \notin orderly'
  <2>1. orderly' = orderly \ {a} /\ {a} \in SUBSET Agents
    BY <1>1, <1>4
  <2>2. Knowledge!Lose
    BY <1>0, <1>1, <2>1, LoseOne
  <2> QED BY <2>2 DEF Knowledge!Next
<1>5. CASE a \in orderly /\ a \in orderly'
  <2>1. /\ [x \in Agents |-> Stage(x)]' = [[x \in Agents |-> Stage(x)] EXCEPT ![a] = Stage(a)']
        /\ [x \in Agents |-> Wants(x)]' = [[x \in Agents |-> Wants(x)] EXCEPT ![a] = Wants(a)']
        /\ [x \in Agents |-> Knows(x)]' = [[x \in Agents |-> Knows(x)] EXCEPT ![a] = Knows(a)']
    BY <1>0, <1>1, <1>2, MapOfStep
  <2>2. /\ Stage(a) = "changing" /\ Wants(a) = Named(New(t))
        /\ Knows(a) = {p \in Pieces : vectors[a][p] # "none"}
    BY <1>0, <1>1, <1>5, ViewOfTask
  <2>3. CASE Active(t)'
    <3>1. data'[t] = data[t] /\ Agent(t)' = a
      BY <1>0, <1>1, <2>3 DEF Alone, TypeOK, Request, Create, Update, MoveIn, MoveOut, Enqueue,
         RequestFails, Promote, Recover, Abandon, Work, ClearFiles, ClearLists, List, ListRest, File,
         FileRest, Ready, StepFails, Retry, GiveUp, End, Goto, jobs, Active
    <3>2. /\ Stage(a)' = "changing" /\ Wants(a)' = Named(New(t))'
          /\ Knows(a)' = {p \in Pieces : vectors'[a][p] # "none"}
      BY <1>0, <1>5, <2>3, <3>1, ViewOfTaskNext
    <3>3. Named(New(t))' = Named(New(t))
      BY <3>1 DEF New, Named
    <3>4. Knows(a)' \subseteq Knows(a) \cup Wants(a)
      BY <1>0, <1>1, <2>2, <3>2, OnlyNamedAreAdded
    <3>5. Knowledge!Change(a)
      BY <2>1, <2>2, <3>2, <3>3, <3>4 DEF Knowledge!Change
    <3> QED BY <3>5 DEF Knowledge!Next
  <2>4. CASE ~Active(t)'
    <3>1. Settled(a)'
      BY <1>1, <1>5, <2>4 DEF Alone, Settled, Active, Agent
    <3>2. /\ Stage(a)' = (IF HasRow(a)' THEN status'[a] ELSE "out")
          /\ Wants(a)' = Named(row'[a])
          /\ Knows(a)' = {p \in Pieces : vectors'[a][p] # "none"}
      BY <1>5, <3>1, ViewAtRest
    <3>3. CASE /\ status'[a] \in {"READY", "FAILED"} /\ row' = row /\ vectors' = vectors
               /\ row[a] = New(t) /\ Named(New(t)) # {}
               /\ status'[a] = "READY" => \A p \in Pieces : vectors[a][p] # "none" => p \in Named(New(t))
      <4>1. Stage(a)' = status'[a] /\ Wants(a)' = Wants(a) /\ Knows(a)' = Knows(a)
        BY <2>2, <3>2, <3>3 DEF HasRow
      <4>2. CASE status'[a] = "READY"
        <5>1. Knows(a) \subseteq Wants(a)
          BY <2>2, <3>3, <4>2
        <5>2. Knowledge!Succeed(a)
          BY <2>1, <2>2, <3>3, <4>1, <4>2, <5>1 DEF Knowledge!Succeed, Knowledge!Becomes
        <5> QED BY <5>2 DEF Knowledge!Next
      <4>3. CASE status'[a] = "FAILED"
        <5>1. Knowledge!Fail(a)
          BY <2>1, <2>2, <3>3, <4>1, <4>3 DEF Knowledge!Fail, Knowledge!Becomes
        <5> QED BY <5>1 DEF Knowledge!Next
      <4> QED BY <3>3, <4>2, <4>3
    <3>4. CASE /\ New(t) = Nothing /\ status'[a] = "none" /\ row'[a] = Nothing
               /\ \A p \in Pieces : vectors'[a][p] = "none"
      <4>1. Named(Nothing) = {}
        BY DEF Named, Nothing
      <4>2. Stage(a)' = "out" /\ Wants(a) = {} /\ Wants(a)' = {} /\ Knows(a)' = {}
        BY <2>2, <3>2, <3>4, <4>1 DEF HasRow
      <4>3. Knowledge!Go(a)
        BY <2>1, <2>2, <4>2 DEF Knowledge!Go, Knowledge!Becomes
      <4> QED BY <4>3 DEF Knowledge!Next
    <3> QED BY <1>1, <1>5, <2>4, <3>3, <3>4, EndsWell
  <2> QED BY <2>3, <2>4
<1> QED BY <1>3, <1>4, <1>5

\* A request that begins is a Request of AgentKnowledge, or loses the agents
\* it does not respect.
LEMMA BeginRefines ==
  ASSUME IInv, IInv', NEW t \in Tasks, NEW a \in Agents, NEW f \in Files,
         NEW l \in Lists, Add(t, a, f, l) \/ Edit(t, a, f, l) \/ Delete(t, a)
  PROVE  Knowledge!Next \/ UNCHANGED Knowledge!vars
<1> USE DEF IInv, TInv, DInv, TypeOK
<1>1. /\ pc[t] = "idle" /\ ~Active(t) /\ Active(t)' /\ Agent(t)' = a /\ data'[t] \in TaskData
      /\ \A u \in Tasks \ {t} : pc'[u] = pc[u] /\ data'[u] = data[u]
      /\ UNCHANGED <<vectors, kept, repeated>>
  <2>1. /\ pc[t] = "idle" /\ Active(t)' /\ Agent(t)' = a
        /\ \A u \in Tasks \ {t} : pc'[u] = pc[u] /\ data'[u] = data[u]
        /\ UNCHANGED <<vectors, kept, repeated>>
    BY DEF Add, Edit, Delete, Begin, Goto, Active, Agent, RequestSteps, database
  <2>2. data'[t] \in TaskData
    BY <2>1 DEF DataThere
  <2> QED BY <2>1, <2>2 DEF Active
<1>2. PICK others \in SUBSET (Agents \ {a}), fresh \in SUBSET {a} :
        /\ orderly' = IF Settled(a) /\ others = {} THEN orderly \cup fresh
                      ELSE orderly \ ({a} \cup others)
        /\ fresh # {} => \A p \in Pieces : vectors[a][p] = "none"
        /\ \A x \in Agents \ {a} : row'[x] = row[x] /\ status'[x] = status[x]
  <2> DEFINE Change(others, fresh) ==
        /\ orderly' = IF Settled(a) /\ others = {} THEN orderly \cup fresh
                      ELSE orderly \ ({a} \cup others)
        /\ fresh # {} => \A p \in Pieces : vectors[a][p] = "none"
        /\ \A x \in Agents \ {a} : row'[x] = row[x] /\ status'[x] = status[x]
  <2>1. Naming(f) \ {a} \in SUBSET (Agents \ {a}) /\ Naming(None) \ {a} \in SUBSET (Agents \ {a})
    BY DEF Naming
  <2>2. CASE Add(t, a, f, l)
    <3>1. Change(Naming(f) \ {a}, {a})
      BY <2>2 DEF Add, Begins, database, Stored
    <3> Naming(f) \ {a} \in SUBSET (Agents \ {a}) /\ {a} \in SUBSET {a}
      BY <2>1
    <3> WITNESS Naming(f) \ {a} \in SUBSET (Agents \ {a}), {a} \in SUBSET {a}
    <3> QED BY <3>1
  <2>3. CASE Edit(t, a, f, l)
    <3>1. Change(Naming(f) \ {a}, {})
      BY <2>3 DEF Edit, Begins, database
    <3> Naming(f) \ {a} \in SUBSET (Agents \ {a}) /\ {} \in SUBSET {a}
      BY <2>1
    <3> WITNESS Naming(f) \ {a} \in SUBSET (Agents \ {a}), {} \in SUBSET {a}
    <3> QED BY <3>1
  <2>4. CASE Delete(t, a)
    <3>1. Change(Naming(None) \ {a}, {})
      BY <2>4 DEF Delete, Begins
    <3> Naming(None) \ {a} \in SUBSET (Agents \ {a}) /\ {} \in SUBSET {a}
      BY <2>1
    <3> WITNESS Naming(None) \ {a} \in SUBSET (Agents \ {a}), {} \in SUBSET {a}
    <3> QED BY <3>1
  <2> QED BY <2>2, <2>3, <2>4
<1>3. Alone(t, a)
  <2>1. \A x \in Agents \ {a} : x \in orderly' => x \in orderly
    BY <1>2
  <2>2. a \in orderly' => Settled(a)
    BY <1>2
  <2> QED BY <1>1, <1>2, <2>1, <2>2 DEF Alone, Settled
<1>4. CASE ~(Settled(a) /\ others = {})
  <2>1. orderly' = orderly \ ({a} \cup others) /\ {a} \cup others \in SUBSET Agents
    BY <1>2, <1>4
  <2>2. PICK L \in SUBSET Agents : a \in L /\ orderly' = orderly \ L
    BY <2>1
  <2>3. TInv /\ OneTask /\ OneTask'
    OBVIOUS
  <2> HIDE DEF IInv, TInv, DInv, TypeOK
  <2>4. Knowledge!Lose
    BY <1>3, <2>2, <2>3, LoseOne
  <2> QED BY <2>4 DEF Knowledge!Next
<1>5. CASE Settled(a) /\ others = {}
  <2>1. /\ orderly' = orderly \cup fresh
        /\ \A x \in Agents \ {a} : x \in orderly' <=> x \in orderly
    BY <1>2, <1>5
  <2>2. CASE a \notin orderly'
    <3>1. Stage(a)' = Stage(a) /\ Wants(a)' = Wants(a) /\ Knows(a)' = Knows(a)
      BY <2>1, <2>2, ViewOfOther
    <3> QED BY <1>3, <2>1, <3>1, StutterOfStep
  <2>3. CASE a \in orderly'
    <3>1. /\ [x \in Agents |-> Stage(x)]' = [[x \in Agents |-> Stage(x)] EXCEPT ![a] = Stage(a)']
          /\ [x \in Agents |-> Wants(x)]' = [[x \in Agents |-> Wants(x)] EXCEPT ![a] = Wants(a)']
          /\ [x \in Agents |-> Knows(x)]' = [[x \in Agents |-> Knows(x)] EXCEPT ![a] = Knows(a)']
      BY <1>3, <2>1, MapOfStep
    <3>2. /\ Stage(a)' = "changing" /\ Wants(a)' = Named(New(t))'
          /\ Knows(a)' = {p \in Pieces : vectors'[a][p] # "none"}
      BY <1>1, <2>3, ViewOfTaskNext
    <3>3. Stage(a) # "changing" /\ Knows(a)' = Knows(a)
      <4>1. CASE a \in orderly
        <5>1. /\ Stage(a) = (IF HasRow(a) THEN status[a] ELSE "out")
              /\ Knows(a) = {p \in Pieces : vectors[a][p] # "none"}
          BY <1>5, <4>1, ViewAtRest
        <5> QED BY <1>1, <3>2, <5>1
      <4>2. CASE a \notin orderly
        <5>1. Stage(a) = "out" /\ Knows(a) = {}
          BY <4>2, ViewOfOther
        <5>2. \A p \in Pieces : vectors[a][p] = "none"
          BY <1>2, <2>1, <2>3, <4>2
        <5> QED BY <1>1, <3>2, <5>1, <5>2
      <4> QED BY <4>1, <4>2
    <3>4. Wants(a)' \in SUBSET Pieces
      BY <1>1, <3>2 DEF Named, Pieces, TaskData, Contents, New
    <3>5. Knowledge!Request(a)
      <4>1. [[x \in Agents |-> Knows(x)] EXCEPT ![a] = Knows(a)'] = [x \in Agents |-> Knows(x)]
        BY <3>3
      <4> QED BY <3>1, <3>2, <3>3, <3>4, <4>1 DEF Knowledge!Request, Knowledge!Becomes
    <3> QED BY <3>5 DEF Knowledge!Next
  <2> QED BY <2>2, <2>3
<1> QED BY <1>4, <1>5

\* Folders, the queue and the end of the worker process do not show.
LEMMA OthersDoNotShow ==
  ASSUME IInv, IInv', UNCHANGED <<database, data, orderly>>,
         \A u \in Tasks : Active(u)' <=> Active(u)
  PROVE  UNCHANGED Knowledge!vars
<1>1. TInv /\ OneTask /\ OneTask' /\ UNCHANGED <<row, status, vectors, data, orderly>>
  BY DEF IInv, DInv, database
<1>2. ASSUME NEW x \in Agents
      PROVE  Stage(x)' = Stage(x) /\ Wants(x)' = Wants(x) /\ Knows(x)' = Knows(x)
  BY <1>1, ViewFrame DEF Agent
<1> QED BY <1>2 DEF Knowledge!vars

\* Every step of AgentIngestion is one of AgentKnowledge, or does not show.
LEMMA StepRefines ==
  IInv /\ IInv' /\ KInv /\ RowsEmpty /\ [Next]_vars => [Knowledge!Next]_(Knowledge!vars)
<1> SUFFICES ASSUME IInv, IInv', KInv, RowsEmpty, [Next]_vars
             PROVE  Knowledge!Next \/ UNCHANGED Knowledge!vars
  OBVIOUS
<1>1. ASSUME NEW f \in Files, Upload(f) \/ CleanUp(f)
      PROVE  UNCHANGED Knowledge!vars
  BY <1>1, OthersDoNotShow DEF Upload, CleanUp, observers, Active
<1>2. CASE UNCHANGED vars
  BY <1>2, OthersDoNotShow DEF vars, observers, Active
<1>3. CASE Take
  <2>1. PICK t \in Tasks : t = Head(waiting) /\ pc[t] = "waiting"
    <3>1. /\ Len(waiting) > 0 /\ Head(waiting) = waiting[1] /\ waiting[1] \in Tasks
          /\ 1 \in 1..Len(waiting)
      BY <1>3, EmptySeq, LenProperties, ElementOfSeq DEF Take, IInv, TInv, TypeOK
    <3>2. pc[waiting[1]] = "waiting"
      BY <3>1 DEF IInv, TInv, QueueWaits
    <3> QED BY <3>1, <3>2
  <2>2. pc' = [pc EXCEPT ![t] = FirstStep(t)] /\ FirstStep(t) # "idle"
    BY <1>3, <2>1 DEF Take, Goto, FirstStep
  <2>3. \A u \in Tasks : Active(u)' <=> Active(u)
    BY <2>1, <2>2 DEF Active, IInv, TInv, TypeOK
  <2>4. UNCHANGED <<database, data, orderly>>
    BY <1>3 DEF Take, observers
  <2> QED BY <2>3, <2>4, OthersDoNotShow
<1>4. CASE Crash
  <2>1. \A u \in Tasks : Active(u)' <=> Active(u)
    BY <1>4 DEF Crash, Active, Running, WorkerSteps
  <2>2. UNCHANGED <<database, data, orderly>>
    BY <1>4 DEF Crash, observers
  <2> QED BY <2>1, <2>2, OthersDoNotShow
<1>5. ASSUME NEW t \in Tasks, NEW a \in Agents, Delete(t, a)
      PROVE  Knowledge!Next \/ UNCHANGED Knowledge!vars
  <2>1. row[a].file \in Files /\ row[a].list \in Lists
    BY <1>5 DEF Delete, IInv, TInv, RowsWhole, Whole
  <2> QED BY <1>5, <2>1, BeginRefines
<1>6. ASSUME NEW t \in Tasks, NEW a \in Agents, NEW f \in Files, NEW l \in Lists,
             Add(t, a, f, l) \/ Edit(t, a, f, l)
      PROVE  Knowledge!Next \/ UNCHANGED Knowledge!vars
  BY <1>6, BeginRefines
<1> QED BY <1>1, <1>2, <1>3, <1>4, <1>5, <1>6, TaskRefines DEF Next

\* Requests, files, jobs, retries and crashes implement AgentKnowledge: what an
\* orderly agent knows changes only during a request for it and only towards
\* the pieces the request names, and what it is READY with is nothing else.
THEOREM Implements == Spec => OrderlyAgentsAreKnowledge
<1>1. Init => IInv
  BY InitIInv
<1>2. Init => RowsEmpty
  BY DEF Init, RowsEmpty
<1>3. Init => Knowledge!Init
  <2> SUFFICES ASSUME Init PROVE Knowledge!Init
    OBVIOUS
  <2>1. \A a \in Agents : a \notin orderly
    BY DEF Init
  <2> QED BY <2>1, ViewOfOther DEF Knowledge!Init
<1>4. IInv => TInv
  BY DEF IInv
<1> QED BY <1>1, <1>2, <1>3, <1>4, InitKInv, NextIInv, NextKInv, RowsInductive, StepRefines, PTL
        DEF Spec, OrderlyAgentsAreKnowledge, Knowledge!Spec
=============================================================================
