--------------------------- MODULE Conversations ---------------------------
(***************************************************************************)
(* How a customer's message is answered, from AiService.wrapper to the     *)
(* message rows: the conversation of its room (ConversationService), the   *)
(* graph of CustomerServiceWorkFlow with its hand-over to human staff, and *)
(* the chat memory in Redis (ChatMemoryRedisService).                      *)
(*                                                                         *)
(* The platforms start one wrapper call per message and never wait for the *)
(* previous one, so calls of one room interleave at every await.  The      *)
(* tokens the calls use are in TokenMeter: here a call may be refused.     *)
(* Staff answer through ConversationSocket, over the platform first and    *)
(* into the table second.  A row of a message needs its conversation, and  *)
(* goes with it; single rows edited or deleted by hand are left out, for   *)
(* nothing of the program reads them.                                      *)
(***************************************************************************)
EXTENDS Integers, Sequences, FiniteSets

CONSTANTS
  Rooms,     \* rooms, made of bot and customer
  Convs,     \* identities of rows of the Conversation table
  Agents,    \* agents, tried by their owners in a room of their own
  Messages,  \* messages of customers and of owners, each arriving at most once
  None,      \* no room, no conversation
  Kept,      \* entries the memory keeps, 6 in the code
  MaxAnswers, \* bound: messages an answer of the LLM consists of
  MaxStaff   \* bound: rows of messages of staff at a time

ASSUME NoneAssumption == None \notin Rooms \cup Agents \cup Convs
ASSUME AgentsAssumption == Rooms \cap Agents = {}
ASSUME KeptAssumption == Kept \in Nat \ {0}
ASSUME AnswersAssumption == MaxAnswers \in Nat

VARIABLES
  (* the database and Redis *)
  convRoom,  \* the room of a conversation; None: there is no such row
  human,     \* conversations whose column humanHandle is true
  log,       \* the rows of messages of a conversation, oldest first
  memory,    \* the chat memory of a session
  (* the calls of wrapper *)
  pc,        \* the step a call has come to
  roomOf,    \* the session its message belongs to
  conv,      \* the conversation addNewConversation returned
  target,    \* the conversation humanHandle found
  recalled,  \* the history appendMessage read
  unstored,  \* how many messages of its answer are still to be stored
  desk,      \* the conversation a message of staff is on its way for
  (* observers, read by properties only *)
  serial,    \* sessions nothing was begun for while a call was in progress
  handed     \* conversations the workflow handed over and nobody gave back

rooms == <<convRoom, human>>
store == <<rooms, log, memory>>
calls == <<pc, roomOf, conv, target, recalled, unstored>>
observers == <<serial, handed>>
vars == <<store, calls, desk, observers>>

\* What the chat memory is kept by: the room, or the agent in a test.
Sessions == Rooms \cup Agents
Entries == [who : {"customer", "assistant"}, of : Messages]
OfStaff == [who |-> "staff", of |-> None]
Said(c, e) == log' = [log EXCEPT ![c] = Append(@, e)]
Steps == {"test", "find", "create", "question", "handover", "handing", "recall1",
          "append1", "recall2", "append2", "answer", "storing"}
Active(m) == pc[m] \in Steps
Busy(r) == \E m \in Messages : Active(m) /\ roomOf[m] = r
Begins(r) == serial' = IF Busy(r) THEN serial \ {r} ELSE serial
Goto(m, s) == pc' = [pc EXCEPT ![m] = s]

\* The calls in M are over: nothing they held is used again.
End(M) ==
  /\ pc' = [m \in Messages |-> IF m \in M THEN "done" ELSE pc[m]]
  /\ roomOf' = [m \in Messages |-> IF m \in M THEN None ELSE roomOf[m]]
  /\ conv' = [m \in Messages |-> IF m \in M THEN None ELSE conv[m]]
  /\ target' = [m \in Messages |-> IF m \in M THEN None ELSE target[m]]
  /\ recalled' = [m \in Messages |-> IF m \in M THEN <<>> ELSE recalled[m]]
  /\ unstored' = [m \in Messages |-> IF m \in M THEN 0 ELSE unstored[m]]

Init ==
  /\ convRoom = [c \in Convs |-> None]
  /\ human = {}
  /\ log = [c \in Convs |-> <<>>]
  /\ memory = [r \in Sessions |-> <<>>]
  /\ pc = [m \in Messages |-> "new"]
  /\ roomOf = [m \in Messages |-> None]
  /\ conv = [m \in Messages |-> None]
  /\ target = [m \in Messages |-> None]
  /\ recalled = [m \in Messages |-> <<>>]
  /\ unstored = [m \in Messages |-> 0]
  /\ desk = None
  /\ serial = Sessions /\ handed = {}

-----------------------------------------------------------------------------
(* Finding the conversation                                                *)

\* A message arrives and the account has tokens.
Receive(m, r) ==
  /\ pc[m] = "new"
  /\ Goto(m, "find")
  /\ roomOf' = [roomOf EXCEPT ![m] = r]
  /\ Begins(r)
  /\ UNCHANGED <<store, conv, target, recalled, unstored, desk, handed>>

\* Nobody answers it: the platform has no active bot for it, or the account no
\* tokens.
NoBot(m) ==
  /\ pc[m] = "new"
  /\ End({m})
  /\ UNCHANGED <<store, desk, observers>>

NothingFound(r) == {} \* Mutant: addNewConversation does not look for one.
Existing(r) == {c \in Convs : convRoom[c] = r}

NeverTurnedAway(c) == FALSE \* Mutant: humanHandle is not looked at.
TurnedAway(c) == c \in human

\* addNewConversation looks for the room; nothing is done for a customer who
\* is in the hands of staff.
Find(m) ==
  /\ pc[m] = "find"
  /\ \/ /\ Existing(roomOf[m]) = {}
        /\ Goto(m, "create")
        /\ UNCHANGED <<roomOf, conv, target, recalled, unstored>>
     \/ \E c \in Existing(roomOf[m]) :
          \/ TurnedAway(c) /\ End({m})
          \/ /\ ~TurnedAway(c)
             /\ Goto(m, "question")
             /\ conv' = [conv EXCEPT ![m] = c]
             /\ UNCHANGED <<roomOf, target, recalled, unstored>>
  /\ UNCHANGED <<store, desk, observers>>

\* It found none and creates one, in the hands of the bot.
Create(m) ==
  /\ pc[m] = "create"
  /\ \E c \in Convs :
       /\ convRoom[c] = None
       /\ desk # c
       /\ \A n \in Messages : Active(n) => c \notin {conv[n], target[n]}
       /\ convRoom' = [convRoom EXCEPT ![c] = roomOf[m]]
       /\ conv' = [conv EXCEPT ![m] = c]
  /\ Goto(m, "question")
  /\ UNCHANGED <<human, log, memory, roomOf, target, recalled, unstored, desk,
                 observers>>

\* The owner of an agent tries it, whatever human staff are doing.
Test(m, a) ==
  /\ pc[m] = "new"
  /\ Goto(m, "test")
  /\ roomOf' = [roomOf EXCEPT ![m] = a]
  /\ Begins(a)
  /\ UNCHANGED <<store, conv, target, recalled, unstored, desk, handed>>

-----------------------------------------------------------------------------
(* The graph and the memory                                                *)

\* Only agents of customer service have a workflow; any other answers nothing.
\* The LLM classifies the question: ORDER and HUMAN_HANDLE go to humanHandle.
\* What the graph does for the others only reads (the catalogue, the vectors,
\* the LLM) and takes no step of its own, nor does generate.
ChooseAgent(m) ==
  \/ /\ \E s \in {"handover", "recall1"} : Goto(m, s)
     /\ UNCHANGED <<roomOf, conv, target, recalled, unstored>>
  \/ End({m})

\* The question is stored, which fails without its conversation.
Unstored(m) == UNCHANGED log \* Mutant: the question is not stored.
Asked(m) == Said(conv[m], [who |-> "customer", of |-> m])
Question(m) ==
  /\ pc[m] = "question" /\ convRoom[conv[m]] # None
  /\ Asked(m)
  /\ ChooseAgent(m)
  /\ UNCHANGED <<rooms, memory, desk, observers>>

\* A test has no conversation, and stores no question.
RunTest(m) ==
  /\ pc[m] = "test"
  /\ ChooseAgent(m)
  /\ UNCHANGED <<store, desk, observers>>

\* humanHandle looks the conversation up by its room once more...
FindTarget(m) ==
  /\ pc[m] = "handover"
  /\ \/ /\ Existing(roomOf[m]) = {}
        /\ Goto(m, "recall1")
        /\ UNCHANGED target
     \/ /\ target' \in {[target EXCEPT ![m] = c] : c \in Existing(roomOf[m])}
        /\ Goto(m, "handing")
  /\ UNCHANGED <<store, roomOf, conv, recalled, unstored, desk, observers>>

HandOverAnyway(m) == \* Mutant: an update of no row passes for one of a row.
  /\ pc[m] = "handing"
  /\ human' = human \cup {target[m]}
  /\ handed' = handed \cup {target[m]}
  /\ Goto(m, "recall1")
  /\ UNCHANGED <<convRoom, log, memory, roomOf, conv, target, recalled,
                 unstored, desk, serial>>

\* ... and gives what it found to staff; the update fails without its row.
HandOver(m) ==
  /\ pc[m] = "handing" /\ convRoom[target[m]] # None
  /\ human' = human \cup {target[m]}
  /\ handed' = handed \cup {target[m]}
  /\ Goto(m, "recall1")
  /\ UNCHANGED <<convRoom, log, memory, roomOf, conv, target, recalled,
                 unstored, desk, serial>>

\* Both calls of appendMessage read the history of the room.
RecallOnce(m) == \* Mutant: the second one relies on what the first one read.
  recalled' = IF pc[m] = "recall1"
              THEN [recalled EXCEPT ![m] = memory[roomOf[m]]] ELSE recalled
Recall(m) == recalled' = [recalled EXCEPT ![m] = memory[roomOf[m]]]

ReadMemory(m) ==
  /\ \/ pc[m] = "recall1" /\ Goto(m, "append1")
     \/ pc[m] = "recall2" /\ Goto(m, "append2")
  /\ Recall(m)
  /\ UNCHANGED <<store, roomOf, conv, target, unstored, desk, observers>>

\* [...history, message].slice(-Kept)
LastKept(s) == SubSeq(s, IF Len(s) > Kept THEN Len(s) - Kept + 1 ELSE 1, Len(s))
Remembered(m, who) ==
  [memory EXCEPT ![roomOf[m]] =
     LastKept(Append(recalled[m], [who |-> who, of |-> m]))]

\* The question is written first, the answer second; what was read is gone then.
WriteMemory(m) ==
  /\ \/ /\ pc[m] = "append1"
        /\ memory' = Remembered(m, "customer")
        /\ Goto(m, "recall2")
        /\ UNCHANGED recalled
     \/ /\ pc[m] = "append2"
        /\ memory' = Remembered(m, "assistant")
        /\ Goto(m, "answer")
        /\ recalled' = [recalled EXCEPT ![m] = <<>>]
  /\ UNCHANGED <<rooms, log, roomOf, conv, target, unstored, desk, observers>>

\* The answer is a list of messages.  wrapper begins to store each and returns
\* the list to be sent: nobody waits for the rows.
Tested(m) == roomOf[m] \in Agents
Answer(m) ==
  /\ pc[m] = "answer" /\ ~Tested(m)
  /\ Goto(m, "storing")
  /\ \E n \in 1..MaxAnswers : unstored' = [unstored EXCEPT ![m] = n]
  /\ UNCHANGED <<store, roomOf, conv, target, recalled, desk, observers>>

\* A row of the answer lands, whatever has been said, edited or begun meanwhile.
StoreAnswer(m) ==
  /\ pc[m] = "storing" /\ convRoom[conv[m]] # None
  /\ Said(conv[m], [who |-> "assistant", of |-> m])
  /\ \/ unstored[m] = 1 /\ End({m})
     \/ /\ unstored[m] > 1
        /\ unstored' = [unstored EXCEPT ![m] = @ - 1]
        /\ UNCHANGED <<pc, roomOf, conv, target, recalled>>
  /\ UNCHANGED <<rooms, memory, desk, observers>>

\* The answer of a test goes to the owner's screen and nowhere else.
ShowAnswer(m) ==
  /\ pc[m] = "answer" /\ Tested(m)
  /\ End({m})
  /\ UNCHANGED <<store, desk, observers>>

-----------------------------------------------------------------------------
(* Failures                                                                *)

\* A step throws, the LLM fails, its answer is not JSON or has no messages:
\* the call is over.
Fails(m) ==
  /\ Active(m) /\ pc[m] # "storing"
  /\ End({m})
  /\ UNCHANGED <<store, desk, observers>>

Dies ==
  /\ End({m \in Messages : Active(m)})
  /\ desk' = None
  /\ UNCHANGED <<store, observers>>

\* A row that is refused, its conversation having gone, ends the process, and
\* with it the other rows.
AnswerRejects(m) == pc[m] = "storing" /\ convRoom[conv[m]] = None /\ Dies

\* The webhook of WhatsApp Business answers Meta before it calls wrapper, and
\* Telegram's client emits the message to an async handler: nobody awaits
\* these calls, and whatever fails in one, from the look-up of the account to
\* the sending of the answer, ends the process.
HookRejects(m) ==
  /\ pc[m] # "done" /\ ~Tested(m)
  /\ End({m} \cup {n \in Messages : Active(n)})
  /\ desk' = None
  /\ UNCHANGED <<store, observers>>

Crash == (\E m \in Messages : Active(m)) /\ Dies

-----------------------------------------------------------------------------
(* Staff and Redis                                                         *)

StaffRows(c) == {i \in DOMAIN log[c] : log[c][i] = OfStaff}

\* sendMessage of staff: that they have the conversation is what the request
\* says, no column is read.  The message goes out over the platform...  (Of a
\* conversation that has gone before nothing would be stored.)
StaffSend(c) ==
  /\ desk = None /\ convRoom[c] # None
  /\ Cardinality(UNION {{d} \X StaffRows(d) : d \in Convs}) < MaxStaff
  /\ desk' = c
  /\ UNCHANGED <<store, calls, observers>>

\* ... and is then stored, which fails if the conversation has gone.
StaffStore ==
  /\ desk # None /\ convRoom[desk] # None
  /\ Said(desk, OfStaff) /\ desk' = None
  /\ UNCHANGED <<rooms, memory, calls, observers>>

\* The platform refuses the message, or the row: the socket's filter takes it.
StaffFails == desk # None /\ desk' = None /\ UNCHANGED <<store, calls, observers>>

\* editConversation writes the room and humanHandle it is sent.
EditConversation(c) ==
  /\ convRoom[c] # None
  /\ \/ human' = human \cup {c} /\ UNCHANGED handed
     \/ human' = human \ {c} /\ handed' = handed \ {c}
  /\ \E r \in Rooms :
       /\ convRoom' = [convRoom EXCEPT ![c] = r]
       /\ serial' = IF r # convRoom[c] \/ Busy(r)
                    THEN serial \ {convRoom[c], r} ELSE serial
  /\ UNCHANGED <<log, memory, calls, desk>>

\* deleteConversation; its messages go with it, the chat memory stays.
DeleteConversation(c) ==
  /\ convRoom[c] # None
  /\ convRoom' = [convRoom EXCEPT ![c] = None]
  /\ log' = [log EXCEPT ![c] = <<>>]
  /\ human' = human \ {c}
  /\ handed' = handed \ {c}
  /\ Begins(convRoom[c])
  /\ UNCHANGED <<memory, calls, desk>>

\* The memory expires half an hour after it was last written.
Expire(r) ==
  /\ memory[r] # <<>>
  /\ memory' = [memory EXCEPT ![r] = <<>>]
  /\ UNCHANGED <<rooms, log, calls, desk, observers>>

-----------------------------------------------------------------------------
Next ==
  \/ \E m \in Messages :
       \/ \E r \in Rooms : Receive(m, r)
       \/ \E a \in Agents : Test(m, a)
       \/ NoBot(m) \/ RunTest(m) \/ ShowAnswer(m)
       \/ Find(m) \/ Create(m) \/ Question(m) \/ FindTarget(m) \/ HandOver(m)
       \/ ReadMemory(m) \/ WriteMemory(m) \/ Answer(m) \/ StoreAnswer(m)
       \/ Fails(m) \/ AnswerRejects(m) \/ HookRejects(m)
  \/ Crash
  \/ \E c \in Convs : EditConversation(c) \/ DeleteConversation(c) \/ StaffSend(c)
  \/ StaffStore \/ StaffFails
  \/ \E r \in Sessions : Expire(r)

Spec == Init /\ [][Next]_vars

-----------------------------------------------------------------------------
\* Every variable holds a value of its kind; no interleaving of writers makes
\* the memory longer than the prompt may hold.
TypeOK ==
  /\ convRoom \in [Convs -> Rooms \cup {None}]
  /\ human \subseteq Convs
  /\ log \in [Convs -> Seq(Entries \cup {OfStaff})]
  /\ memory \in [Sessions -> Seq(Entries)]
  /\ \A r \in Sessions : Len(memory[r]) <= Kept
  /\ pc \in [Messages -> Steps \cup {"new", "done"}]
  /\ roomOf \in [Messages -> Sessions \cup {None}]
  /\ conv \in [Messages -> Convs \cup {None}]
  /\ target \in [Messages -> Convs \cup {None}]
  /\ recalled \in [Messages -> Seq(Entries)]
  /\ unstored \in [Messages -> 0..MaxAnswers]
  /\ desk \in Convs \cup {None}
  /\ serial \subseteq Sessions /\ handed \subseteq Convs

\* A room whose messages come one at a time, each when the rows of the answer
\* before it have landed, has one conversation at most, though nothing in the
\* table forbids a second one.
SerialRoomHasOneConversation ==
  \A c, d \in Convs :
    convRoom[c] = convRoom[d] /\ convRoom[c] \in serial => c = d

\* In such a session, a room or an agent's test, the memory the LLM is given
\* pairs every answer with the question it answers, whatever fails, crashes,
\* is cut or expires.
SerialMemoryPairs ==
  \A r \in serial : \A i \in 2..Len(memory[r]) :
    memory[r][i].who = "assistant" =>
      memory[r][i - 1] = [who |-> "customer", of |-> memory[r][i].of]

\* In such a room what is stored reads as a dialogue: leaving out what staff
\* said, the messages of an answer come right after the question they answer,
\* whichever of them a deletion, a failure or a crash has kept from the table.
SerialLogIsADialogue ==
  \A c \in Convs : convRoom[c] \in serial =>
    \A i \in 1..Len(log[c]) : log[c][i].who = "assistant" =>
      \E j \in 1..(i - 1) :
        /\ log[c][j] = [who |-> "customer", of |-> log[c][i].of]
        /\ \A k \in (j + 1)..(i - 1) : log[c][k] \in {OfStaff, log[c][i]}

\* Whatever is deleted, moved or given back while the graph runs, what the
\* workflow has handed over is a conversation that exists and staff have.
HandedIsWithStaff ==
  \A c \in handed : c \in human /\ convRoom[c] \in Rooms

\* While staff have the conversation of such a room, only what they say is
\* stored, and the answer of the call that handed it over: what the customer
\* says meanwhile is not.
SerialStaffTalkAlone ==
  [][\A c \in human : convRoom[c] \in serial /\ Len(log'[c]) > Len(log[c]) =>
       LET e == log'[c][Len(log'[c])] IN
       e = OfStaff \/ (e.who = "assistant" /\ target[e.of] = c)]_vars
=============================================================================
