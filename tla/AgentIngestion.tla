--------------------------- MODULE AgentIngestion ---------------------------
(***************************************************************************)
(* Agents and what they know: UserAgentService keeps a row per agent, moves *)
(* its document between the folders temp and file, and queues a job; the   *)
(* worker container (VectorWorkerService with                              *)
(* UserAgentVectorIngestionService) turns the document and the products of *)
(* the row into vectors, and reports in the row's vectoreStatus.           *)
(*                                                                         *)
(* A task is one request and the job it queues: the request runs in the    *)
(* back end up to its last await, then BullMQ keeps it, then a worker runs *)
(* it, perhaps several times.  Any await of a request or a job may fail,   *)
(* which also stands for the end of the back-end process; the end of the   *)
(* worker process leaves its jobs stalled.  The rate limiter in front of   *)
(* add and edit is RateLimiter.                                            *)
(***************************************************************************)
EXTENDS Integers, Sequences, FiniteSets

CONSTANTS
  Agents,    \* identities of rows of UserAgent
  Files,     \* names of documents
  Lists,     \* values of productIds
  Tasks,     \* places for requests and the jobs they queue
  None,      \* no file, no list, no task
  Attempts,  \* attempts of a job, 3 in the code
  Workers,   \* jobs run at once, 2 in the code
  MaxRequests \* bound: requests in all

ASSUME NoneAssumption == None \notin Files \cup Lists
ASSUME DisjointAssumption == Files \cap Lists = {}
ASSUME WorkAssumption == Attempts \in Nat \ {0} /\ Workers \in Nat \ {0}
ASSUME BoundAssumption == MaxRequests \in Nat

VARIABLES
  (* the database and the disk *)
  row,      \* file and list of an agent
  status,   \* its vectoreStatus; "none": there is no such row
  vectors,  \* how many copies of a piece are stored for an agent
  folder,   \* the folder a file is in
  (* tasks *)
  pc,       \* the step a task has come to
  data,     \* the agent, and the old and the new content of its row
  tries,    \* attempts that failed
  stalls,   \* attempts that ended with the worker process
  waiting,  \* the queue of jobs
  begun,    \* the number of requests so far
  (* observers, read by properties only *)
  orderly,  \* agents handled one task at a time, see Begins and Drop
  kept,     \* agents whose last edit kept the document or the products
  repeated  \* agents whose ingestion took more than one attempt

database == <<row, status, vectors>>
jobs == <<tries, stalls>>
observers == <<orderly, kept, repeated>>
vars == <<database, folder, pc, data, jobs, waiting, begun, observers>>

Pieces == Files \cup Lists
Contents == [file : Files \cup {None}, list : Lists \cup {None}]
Nothing == [file |-> None, list |-> None]
RequestSteps == {"create", "update", "moveIn", "moveOut", "enqueue"}
WorkerSteps == {"clearFiles", "clearLists", "list", "listRest", "file",
                "fileRest", "ready", "catch"}
QueueSteps == {"waiting", "delayed", "stalled"}

HasRow(a) == status[a] # "none"
Active(t) == pc[t] # "idle"
Requesting(t) == pc[t] \in RequestSteps
Running(t) == pc[t] \in WorkerSteps
Goto(t, s) == pc' = [pc EXCEPT ![t] = s]
Agent(t) == data[t].agent
New(t) == data[t].new
Old(t) == data[t].old

\* A task is over and its place is free.
End(t) ==
  /\ Goto(t, "idle")
  /\ data' = [data EXCEPT ![t] = None]
  /\ tries' = [tries EXCEPT ![t] = 0]
  /\ stalls' = [stalls EXCEPT ![t] = 0]

Settled(a) == \A t \in Tasks : Active(t) => Agent(t) # a
Stored(p) == {a \in Agents : vectors[a][p] # "none"}
\* Agents whose row names f, or is about to, or did until now.
Naming(f) ==
  {a \in Agents : f # None /\
     \/ HasRow(a) /\ row[a].file = f
     \/ \E t \in Tasks : /\ Active(t) /\ Agent(t) = a
                         /\ f \in {New(t).file, Old(t).file}}
\* An agent is orderly while each of its tasks begins after the last one has
\* ended, no other agent names its documents, and ...
Begins(a, f, fresh) ==
  LET others == Naming(f) \ {a} IN
  orderly' = IF Settled(a) /\ others = {} THEN orderly \cup fresh
             ELSE orderly \ ({a} \cup others)
\* ... no task ends without its job being queued or its outcome reported.
Drop(t) == orderly' = orderly \ {Agent(t)}

Init ==
  /\ row = [a \in Agents |-> Nothing]
  /\ status = [a \in Agents |-> "none"]
  /\ vectors = [a \in Agents |-> [p \in Pieces |-> "none"]]
  /\ folder = [f \in Files |-> "none"]
  /\ pc = [t \in Tasks |-> "idle"]
  /\ data = [t \in Tasks |-> None]
  /\ tries = [t \in Tasks |-> 0]
  /\ stalls = [t \in Tasks |-> 0]
  /\ waiting = <<>>
  /\ begun = 0
  /\ orderly = {} /\ kept = {} /\ repeated = {}

-----------------------------------------------------------------------------
(* Files                                                                   *)

\* An upload has a name that nothing has, or a name nothing refers to again.
Upload(f) ==
  /\ folder[f] = "none" /\ Naming(f) = {} /\ Stored(f) = {}
  /\ folder' = [folder EXCEPT ![f] = "temp"]
  /\ UNCHANGED <<database, pc, data, jobs, waiting, begun, observers>>

\* The clean-up of every minute.  A file has the time of its upload wherever
\* it is moved, so any file in temp may be found to be five minutes old.
CleanUp(f) ==
  /\ folder[f] = "temp"
  /\ folder' = [folder EXCEPT ![f] = "none"]
  /\ UNCHANGED <<database, pc, data, jobs, waiting, begun, observers>>

-----------------------------------------------------------------------------
(* Requests                                                                *)

Begin(t, kind, a, old, new, s) ==
  /\ pc[t] = "idle" /\ begun < MaxRequests
  /\ begun' = begun + 1
  /\ data' = [data EXCEPT ![t] =
       [kind |-> kind, agent |-> a, old |-> old, new |-> new]]
  /\ Goto(t, s)

\* addNewUserAgent finds the document in temp.
Add(t, a, f, l) ==
  /\ ~HasRow(a) /\ Settled(a) /\ \A p \in Pieces : a \notin Stored(p)
  /\ folder[f] = "temp"
  /\ Begin(t, "add", a, Nothing, [file |-> f, list |-> l], "create")
  /\ Begins(a, f, {a})
  /\ UNCHANGED <<database, folder, jobs, waiting, kept, repeated>>

Create(t) ==
  /\ pc[t] = "create"
  /\ row' = [row EXCEPT ![Agent(t)] = New(t)]
  /\ status' = [status EXCEPT ![Agent(t)] = "Processing"]
  /\ Goto(t, "moveIn")
  /\ UNCHANGED <<vectors, folder, data, jobs, waiting, begun, observers>>

\* editUserAgent reads the old row; nothing looks at the document, which may
\* be gone by now.
Edit(t, a, f, l) ==
  /\ HasRow(a)
  /\ Begin(t, "edit", a, row[a], [file |-> f, list |-> l], "update")
  /\ Begins(a, f, {})
  /\ UNCHANGED <<database, folder, jobs, waiting, kept, repeated>>

FileSame(t) == New(t).file = Old(t).file
ListSame(t) == New(t).list = Old(t).list

\* The status stays what it was.
Update(t) ==
  /\ pc[t] = "update" /\ HasRow(Agent(t))
  /\ row' = [row EXCEPT ![Agent(t)] = New(t)]
  /\ Goto(t, IF FileSame(t) THEN "enqueue" ELSE "moveIn")
  /\ UNCHANGED <<status, vectors, folder, data, jobs, waiting, begun, observers>>

Delete(t, a) ==
  /\ HasRow(a)
  /\ Begin(t, "delete", a, row[a], Nothing, "moveOut")
  /\ Begins(a, None, {})
  /\ row' = [row EXCEPT ![a] = Nothing]
  /\ status' = [status EXCEPT ![a] = "none"]
  /\ UNCHANGED <<vectors, folder, jobs, waiting, kept, repeated>>

\* A move is a rename, which fails unless the file is where it should be.
Move(f, from, to) ==
  /\ folder[f] = from
  /\ folder' = [folder EXCEPT ![f] = to]

MoveIn(t) ==
  /\ pc[t] = "moveIn"
  /\ Move(New(t).file, "temp", "file")
  /\ Goto(t, IF data[t].kind = "add" THEN "enqueue" ELSE "moveOut")
  /\ UNCHANGED <<database, data, jobs, waiting, begun, observers>>

NewInstead(t) == \* Mutant: an edit moves the new document out.
  IF data[t].kind = "edit" THEN New(t).file ELSE Old(t).file
Outdated(t) == Old(t).file

MoveOut(t) ==
  /\ pc[t] = "moveOut"
  /\ Move(Outdated(t), "file", "temp")
  /\ Goto(t, "enqueue")
  /\ UNCHANGED <<database, data, jobs, waiting, begun, observers>>

\* The job of an add is to ingest everything; that of an edit is told what
\* stays the same; that of a delete is told nothing, so nothing does.
IngestJob(t) == data[t].kind = "add" /\ kept' = kept \ {Agent(t)}
DegestJob(t) ==
  /\ data[t].kind = "edit"
  /\ kept' = IF FileSame(t) \/ ListSame(t) THEN kept \cup {Agent(t)}
             ELSE kept \ {Agent(t)}
RemovalJob(t) == data[t].kind = "delete" /\ kept' = kept \ {Agent(t)}

Enqueue(t) ==
  /\ pc[t] = "enqueue"
  /\ Goto(t, "waiting")
  /\ waiting' = Append(waiting, t)
  /\ IngestJob(t) \/ DegestJob(t) \/ RemovalJob(t)
  /\ repeated' = repeated \ {Agent(t)}
  /\ UNCHANGED <<database, folder, data, jobs, orderly, begun>>

\* The database, the disk or Redis refuses, or the back end ends: what the
\* request has done stays.
RequestFails(t) ==
  /\ Requesting(t)
  /\ End(t)
  /\ Drop(t)
  /\ UNCHANGED <<database, folder, waiting, kept, repeated, begun>>

-----------------------------------------------------------------------------
(* The queue                                                               *)

\* Mutant: a repeated job does not clear first.
FirstTimeOnly(t) ==
  IF data[t].kind = "delete" \/ (data[t].kind = "edit" /\ tries[t] + stalls[t] = 0)
  THEN "clearFiles" ELSE "list"
FirstStep(t) == IF data[t].kind = "add" THEN "list" ELSE "clearFiles"

Take ==
  /\ waiting # <<>>
  /\ Cardinality({t \in Tasks : Running(t)}) < Workers
  /\ Goto(Head(waiting), FirstStep(Head(waiting)))
  /\ waiting' = Tail(waiting)
  /\ UNCHANGED <<database, folder, data, jobs, begun, observers>>

\* The back-off of a failed attempt is over.
Promote(t) ==
  /\ pc[t] = "delayed"
  /\ Goto(t, "waiting")
  /\ waiting' = Append(waiting, t)
  /\ UNCHANGED <<database, folder, data, jobs, begun, observers>>

\* The worker process ends.
Crash ==
  /\ \E t \in Tasks : Running(t)
  /\ pc' = [t \in Tasks |-> IF Running(t) THEN "stalled" ELSE pc[t]]
  /\ UNCHANGED <<database, folder, data, jobs, waiting, begun, observers>>

\* An ingestion begins again with what it has stored left in place.
Repeats(t) == repeated' = IF data[t].kind = "add" THEN repeated \cup {Agent(t)}
                          ELSE repeated

RecoverAlways(t) == \* Mutant: a job that stalls is never given up.
  /\ pc[t] = "stalled"
  /\ stalls' = [stalls EXCEPT ![t] = 1]
  /\ waiting' = <<t>> \o waiting
  /\ Goto(t, "waiting")
  /\ Repeats(t)
  /\ UNCHANGED <<database, folder, data, tries, orderly, kept, begun>>

\* BullMQ finds the job without a lock and puts it first, once...
Recover(t) ==
  /\ pc[t] = "stalled" /\ stalls[t] = 0
  /\ stalls' = [stalls EXCEPT ![t] = 1]
  /\ waiting' = <<t>> \o waiting
  /\ Goto(t, "waiting")
  /\ Repeats(t)
  /\ UNCHANGED <<database, folder, data, tries, orderly, kept, begun>>

\* ... and the second time gives it up, of which no handler hears.
Abandon(t) ==
  /\ pc[t] = "stalled" /\ stalls[t] = 1
  /\ End(t)
  /\ Drop(t)
  /\ UNCHANGED <<database, folder, waiting, kept, repeated, begun>>

-----------------------------------------------------------------------------
(* The worker                                                              *)

AllStay(a, S) == vectors \* Mutant: the filter matches no row.
Without(a, S) == [vectors EXCEPT ![a] = [p \in Pieces |->
                    IF p \in S THEN "none" ELSE vectors[a][p]]]

ClearFiles(t) ==
  /\ pc[t] = "clearFiles"
  /\ vectors' = Without(Agent(t), Files)
  /\ Goto(t, "clearLists")
  /\ UNCHANGED <<row, status, folder, data, jobs, waiting, begun, observers>>

\* Only what an edit has changed is stored again.
AfterClearing(t) == CASE ~ListSame(t) -> "list"
                      [] ListSame(t) /\ ~FileSame(t) -> "file"
                      [] OTHER -> "ready"

\* After a delete that is all.
ClearLists(t) ==
  /\ pc[t] = "clearLists"
  /\ vectors' = Without(Agent(t), Lists)
  /\ \/ data[t].kind = "delete" /\ End(t)
     \/ /\ data[t].kind # "delete"
        /\ Goto(t, AfterClearing(t))
        /\ UNCHANGED <<data, jobs>>
  /\ UNCHANGED <<row, status, folder, waiting, begun, observers>>

\* Storing inserts the rows of a piece one by one, outside a transaction: the
\* first one, then the rest.  "part" is some rows of one copy, "several" more
\* than a copy.
FirstRow(n) == IF n = "none" THEN "part" ELSE "several"
RestOfRows(n) == CASE n = "none" -> "part"
                   [] n = "part" -> "whole"
                   [] OTHER -> "several"

StoreFirst(t, p) == vectors' = [vectors EXCEPT ![Agent(t)][p] = FirstRow(@)]
StoreRest(t, p) == vectors' = [vectors EXCEPT ![Agent(t)][p] = RestOfRows(@)]

List(t) ==
  /\ pc[t] = "list"
  /\ StoreFirst(t, New(t).list)
  /\ Goto(t, "listRest")
  /\ UNCHANGED <<row, status, folder, data, jobs, waiting, begun, observers>>

ListRest(t) ==
  /\ pc[t] = "listRest"
  /\ StoreRest(t, New(t).list)
  /\ Goto(t, IF FileSame(t) THEN "ready" ELSE "file")
  /\ UNCHANGED <<row, status, folder, data, jobs, waiting, begun, observers>>

\* The document is read from the folder file.
File(t) ==
  /\ pc[t] = "file"
  /\ folder[New(t).file] = "file"
  /\ StoreFirst(t, New(t).file)
  /\ Goto(t, "fileRest")
  /\ UNCHANGED <<row, status, folder, data, jobs, waiting, begun, observers>>

FileRest(t) ==
  /\ pc[t] = "fileRest"
  /\ StoreRest(t, New(t).file)
  /\ Goto(t, "ready")
  /\ UNCHANGED <<row, status, folder, data, jobs, waiting, begun, observers>>

\* An ingestion publishes after the update, which may still fail; a change
\* publishes before it.
Ready(t) ==
  /\ pc[t] = "ready" /\ HasRow(Agent(t))
  /\ status' = [status EXCEPT ![Agent(t)] = "READY"]
  /\ \/ End(t)
     \/ data[t].kind = "add" /\ Goto(t, "catch") /\ UNCHANGED <<data, jobs>>
  /\ UNCHANGED <<row, vectors, folder, waiting, begun, observers>>

\* Products that are not found, a document that is not there or cannot be
\* read, an embedding or a database that does not answer, a row that is gone.
StepFails(t) ==
  /\ Running(t) /\ pc[t] # "catch"
  /\ Goto(t, "catch")
  /\ UNCHANGED <<database, folder, data, jobs, waiting, begun, observers>>

Exhausted(t) == tries[t] + 1 = Attempts

\* The handler of the failure reports it, unless it fails too...
Report(t) ==
  \/ HasRow(Agent(t)) /\ status' = [status EXCEPT ![Agent(t)] = "FAILED"]
  \/ UNCHANGED status

\* ... and BullMQ tries again after a while,
Retry(t) ==
  /\ pc[t] = "catch" /\ ~Exhausted(t)
  /\ Report(t)
  /\ tries' = [tries EXCEPT ![t] = @ + 1]
  /\ Goto(t, "delayed")
  /\ Repeats(t)
  /\ UNCHANGED <<row, vectors, folder, data, stalls, waiting, orderly, kept, begun>>

\* but not after the last attempt.
GiveUp(t) ==
  /\ pc[t] = "catch" /\ Exhausted(t)
  /\ Report(t)
  /\ End(t)
  /\ IF status'[Agent(t)] = "FAILED" THEN UNCHANGED orderly ELSE Drop(t)
  /\ UNCHANGED <<row, vectors, folder, waiting, kept, repeated, begun>>

-----------------------------------------------------------------------------
Request(t) ==
  \/ Create(t) \/ Update(t) \/ MoveIn(t) \/ MoveOut(t) \/ Enqueue(t)
  \/ RequestFails(t)

Work(t) ==
  \/ ClearFiles(t) \/ ClearLists(t) \/ List(t) \/ ListRest(t) \/ File(t)
  \/ FileRest(t) \/ Ready(t) \/ StepFails(t) \/ Retry(t) \/ GiveUp(t)

Next ==
  \/ \E f \in Files : Upload(f) \/ CleanUp(f)
  \/ \E t \in Tasks :
       \/ \E a \in Agents :
            \/ \E f \in Files, l \in Lists : Add(t, a, f, l) \/ Edit(t, a, f, l)
            \/ Delete(t, a)
       \/ Request(t) \/ Promote(t) \/ Recover(t) \/ Abandon(t) \/ Work(t)
  \/ Take \/ Crash

Spec == Init /\ [][Next]_vars

\* The back end answers or fails, BullMQ hands jobs out, attempts end.
Fairness ==
  /\ WF_vars(Take)
  /\ \A t \in Tasks : WF_vars(Request(t)) /\ WF_vars(Promote(t))
                        /\ WF_vars(Recover(t) \/ Abandon(t)) /\ WF_vars(Work(t))
FairSpec == Spec /\ Fairness

-----------------------------------------------------------------------------
\* Every variable holds a value of its kind; no job is tried more than
\* Attempts times.
TypeOK ==
  /\ row \in [Agents -> Contents]
  /\ status \in [Agents -> {"none", "Processing", "READY", "FAILED"}]
  /\ vectors \in [Agents -> [Pieces -> {"none", "part", "whole", "several"}]]
  /\ folder \in [Files -> {"none", "temp", "file"}]
  /\ pc \in [Tasks -> {"idle"} \cup RequestSteps \cup QueueSteps \cup WorkerSteps]
  /\ data \in [Tasks -> [kind : {"add", "edit", "delete"}, agent : Agents,
                         old : Contents, new : Contents] \cup {None}]
  /\ tries \in [Tasks -> 0..(Attempts - 1)]
  /\ stalls \in [Tasks -> 0..1]
  /\ waiting \in Seq(Tasks)
  /\ begun \in 0..MaxRequests
  /\ orderly \subseteq Agents
  /\ kept \subseteq Agents /\ repeated \subseteq Agents

Named(c) == {c.file, c.list} \ {None}
OrderlyAndReady == {a \in orderly : status[a] = "READY" /\ Settled(a)}

\* A READY agent that was handled in order has the document and the products
\* of its row in full, unless its last edit kept one: DegestAgent removes what
\* was kept and does not store it again.  Only an ingestion that was repeated
\* leaves more than one copy: an edit may be repeated as often as BullMQ likes.
ReadyIsComplete ==
  \A a \in OrderlyAndReady :
    /\ \A p \in Named(row[a]) : vectors[a][p] \in {"whole", "several"} \/ a \in kept
    /\ \A p \in Pieces : vectors[a][p] # "several" \/ a \in repeated

\* The clean-up does not take the document of an agent: while no request of an
\* orderly agent is at work, the document of its row is in the folder file.
DocumentIsKept ==
  \A a \in orderly :
    HasRow(a) /\ (\A t \in Tasks : Requesting(t) => Agent(t) # a)
      => folder[row[a].file] = "file"

-----------------------------------------------------------------------------
(* An orderly agent as an agent of AgentKnowledge                          *)

Task(a) == CHOOSE t \in Tasks : Active(t) /\ Agent(t) = a
Stage(a) == CASE a \in orderly /\ ~Settled(a) -> "changing"
              [] a \in orderly /\ Settled(a) /\ HasRow(a) -> status[a]
              [] OTHER -> "out"
Wants(a) == CASE a \in orderly /\ ~Settled(a) -> Named(New(Task(a)))
              [] a \in orderly /\ Settled(a) -> Named(row[a])
              [] OTHER -> {}
Knows(a) == {p \in Pieces : a \in orderly /\ vectors[a][p] # "none"}

Knowledge == INSTANCE AgentKnowledge
  WITH stage <- [a \in Agents |-> Stage(a)],
       wants <- [a \in Agents |-> Wants(a)],
       knows <- [a \in Agents |-> Knows(a)]

\* What an orderly agent knows changes only during a request, and only towards
\* the pieces that request names: READY it answers from nothing else, deleted
\* it leaves nothing behind and nothing comes back, FAILED it has nothing that
\* nobody asked for, whatever fails, crashes and is repeated on the way.
OrderlyAgentsAreKnowledge == Knowledge!Spec

\* Nobody waits for ever for an agent whose job was queued: an attempt says
\* that it is READY or FAILED, or removes it, whatever fails and crashes.
OrderlyChangesEnd == Knowledge!ChangesEnd
=============================================================================
