------------------------ MODULE ConversationsProofs ------------------------
(***************************************************************************)
(* Theorems about Conversations: its type invariant, that what is handed   *)
(* over is with staff, and that a room whose messages come one at a time   *)
(* has one conversation, a memory that pairs answers with questions, a log *)
(* that reads as a dialogue, and is left to staff once they have it.       *)
(***************************************************************************)
EXTENDS Conversations, SequenceTheorems, TLAPS

\* What a call refers to at the step it has come to.
Held ==
  \A m \in Messages :
    /\ Active(m) => roomOf[m] \in Sessions
    /\ pc[m] \in {"find", "create"} => roomOf[m] \in Rooms
    /\ pc[m] = "handing" => target[m] \in Convs

IInv == TypeOK /\ Held /\ HandedIsWithStaff

-----------------------------------------------------------------------------
(* Sequences                                                               *)

\* The end of a sequence that the memory keeps: it is never empty, no longer
\* than Kept, and its entries are the last ones in their order.
LEMMA KeptPart ==
  ASSUME NEW S, NEW s \in Seq(S), s # <<>>,
         NEW k, k = LastKept(s)
  PROVE  /\ k \in Seq(S) /\ k # <<>> /\ Len(k) <= Kept
         /\ Len(s) - Len(k) \in Nat
         /\ \A i \in 1..Len(k) : k[i] = s[i + (Len(s) - Len(k))]
<1> DEFINE from == IF Len(s) > Kept THEN Len(s) - Kept + 1 ELSE 1
<1>1. Len(s) \in Nat /\ Len(s) > 0 /\ Kept \in Nat /\ Kept > 0
  BY KeptAssumption
<1>2. from \in 1..Len(s) /\ Len(s) - from + 1 <= Kept
  BY <1>1
<1>3. k = SubSeq(s, from, Len(s))
  BY DEF LastKept
<1> HIDE DEF from
<1>4. /\ k \in Seq(S)
      /\ Len(k) = Len(s) - from + 1
      /\ \A i \in 1..(Len(s) - from + 1) : k[i] = s[from + i - 1]
  <2>1. \A i \in from..Len(s) : s[i] \in S
    BY <1>1, <1>2
  <2>2. from \in Int /\ Len(s) \in Int /\ from <= Len(s)
    BY <1>1, <1>2
  <2> QED  BY ONLY <1>3, <2>1, <2>2, SubSeqProperties
<1>5. k # <<>> /\ Len(k) <= Kept /\ Len(s) - Len(k) = from - 1
  BY <1>1, <1>2, <1>4
<1>6. ASSUME NEW i \in 1..Len(k) PROVE k[i] = s[i + (Len(s) - Len(k))]
  <2>1. i \in 1..(Len(s) - from + 1) /\ i + (Len(s) - Len(k)) = from + i - 1
    BY <1>1, <1>2, <1>4
  <2> QED  BY <1>4, <2>1
<1>7. Len(s) - Len(k) \in Nat
  BY <1>1, <1>2, <1>5
<1> QED  BY <1>4, <1>5, <1>6, <1>7

-----------------------------------------------------------------------------
(* Types, and what is handed over                                          *)

\* Nothing has arrived at first.
LEMMA InitIInv == Init => IInv
  BY KeptAssumption, AnswersAssumption
     DEF Init, IInv, TypeOK, Held, HandedIsWithStaff, Active, Steps

\* Calls that are over refer to nothing any more.
LEMMA EndIInv ==
  ASSUME IInv, NEW M \in SUBSET Messages, End(M),
         convRoom' = convRoom, human' = human, memory' = memory, handed' = handed,
         log' \in [Convs -> Seq(Entries \cup {OfStaff})],
         desk' \in Convs \cup {None}, serial' \subseteq Sessions
  PROVE  IInv'
<1> USE DEF IInv
<1>1. TypeOK'
  <2>1. unstored' \in [Messages -> 0..MaxAnswers]
    BY AnswersAssumption DEF TypeOK, End
  <2> QED  BY <2>1 DEF TypeOK, End
<1>2. Held'
  BY DEF TypeOK, Held, Active, Steps, End
<1>3. HandedIsWithStaff'
  BY DEF HandedIsWithStaff
<1> QED  BY <1>1, <1>2, <1>3

\* A conversation gets another entry.
LEMMA SaidType ==
  ASSUME TypeOK, NEW c, NEW e \in Entries \cup {OfStaff}, Said(c, e)
  PROVE  log' \in [Convs -> Seq(Entries \cup {OfStaff})]
<1>1. \A s \in Seq(Entries \cup {OfStaff}) : Append(s, e) \in Seq(Entries \cup {OfStaff})
  BY AppendProperties
<1> QED  BY <1>1 DEF TypeOK, Said

\* A message arrives, or is tried.
LEMMA ArrivalIInv ==
  ASSUME IInv, NEW m \in Messages, NEW r \in Sessions,
         (Receive(m, r) /\ r \in Rooms) \/ Test(m, r)
  PROVE  IInv'
<1> USE DEF IInv, Receive, Test, Goto, Begins, store, rooms
<1>1. TypeOK'
  BY DEF TypeOK, Steps
<1>2. Held'
  BY DEF TypeOK, Held, Active, Steps
<1>3. HandedIsWithStaff'
  BY DEF HandedIsWithStaff
<1> QED  BY <1>1, <1>2, <1>3

\* The conversation of its room is found, or made.
LEMMA FindIInv ==
  ASSUME IInv, NEW m \in Messages, Find(m) \/ Create(m)
  PROVE  IInv'
<1> USE DEF IInv, store, rooms, observers
<1>1. CASE Find(m) /\ Existing(roomOf[m]) = {} /\ Goto(m, "create")
                   /\ UNCHANGED <<roomOf, conv, target, recalled, unstored>>
  <2>1. TypeOK'
    BY <1>1 DEF Find, TypeOK, Steps, Goto
  <2>2. Held' /\ HandedIsWithStaff'
    BY <1>1 DEF Find, TypeOK, Held, Active, Steps, Goto, HandedIsWithStaff
  <2> QED  BY <2>1, <2>2
<1>2. CASE Find(m) /\ End({m})
  BY <1>2, EndIInv DEF Find, TypeOK
<1>3. ASSUME NEW c \in Existing(roomOf[m]), Find(m), Goto(m, "question"),
             conv' = [conv EXCEPT ![m] = c], UNCHANGED <<roomOf, target, recalled, unstored>>
      PROVE  IInv'
  <2>1. TypeOK'
    BY <1>3 DEF Find, TypeOK, Steps, Goto, Existing
  <2>2. Held' /\ HandedIsWithStaff'
    BY <1>3 DEF Find, TypeOK, Held, Active, Steps, Goto, HandedIsWithStaff
  <2> QED  BY <2>1, <2>2
<1>4. CASE Create(m)
  <2>1. roomOf[m] \in Rooms
    BY <1>4 DEF Create, Held
  <2>2. TypeOK'
    BY <1>4, <2>1 DEF Create, TypeOK, Steps, Goto
  <2>3. Held'
    BY <1>4 DEF Create, TypeOK, Held, Active, Steps, Goto
  <2>4. HandedIsWithStaff'
    BY <1>4, <2>1, NoneAssumption DEF Create, TypeOK, HandedIsWithStaff
  <2> QED  BY <2>2, <2>3, <2>4
<1> QED  BY <1>1, <1>2, <1>3, <1>4 DEF Find

\* The question is stored, unless it is a test, and the graph begins.
LEMMA QuestionIInv ==
  ASSUME IInv, NEW m \in Messages, Question(m) \/ RunTest(m)
  PROVE  IInv'
<1> USE DEF IInv, store, rooms, observers
<1>1. log' \in [Convs -> Seq(Entries \cup {OfStaff})]
  <2>1. [who |-> "customer", of |-> m] \in Entries
    BY DEF Entries
  <2> QED  BY <2>1, SaidType DEF Question, RunTest, Asked, TypeOK
<1>2. CASE End({m})
  BY <1>1, <1>2, EndIInv DEF Question, RunTest, TypeOK
<1>3. ASSUME NEW s \in {"handover", "recall1"}, Goto(m, s),
             UNCHANGED <<roomOf, conv, target, recalled, unstored>>
      PROVE  IInv'
  <2>1. TypeOK'
    BY <1>1, <1>3 DEF Question, RunTest, TypeOK, Steps, Goto
  <2>2. Held'
    BY <1>3 DEF Question, RunTest, TypeOK, Held, Active, Steps, Goto
  <2>3. HandedIsWithStaff'
    BY DEF Question, RunTest, HandedIsWithStaff
  <2> QED  BY <2>1, <2>2, <2>3
<1> QED  BY <1>2, <1>3 DEF Question, RunTest, ChooseAgent

\* What is handed over is a conversation that is there.
LEMMA HandOverIInv ==
  ASSUME IInv, NEW m \in Messages, FindTarget(m) \/ HandOver(m)
  PROVE  IInv'
<1> USE DEF IInv, store, rooms, observers, Goto
<1>1. CASE FindTarget(m)
  <2>1. TypeOK'
    BY <1>1 DEF FindTarget, TypeOK, Steps, Existing
  <2>2. Held'
    BY <1>1 DEF FindTarget, TypeOK, Held, Active, Steps, Existing
  <2>3. HandedIsWithStaff'
    BY <1>1 DEF FindTarget, HandedIsWithStaff
  <2> QED  BY <2>1, <2>2, <2>3
<1>2. CASE HandOver(m)
  <2>1. target[m] \in Convs /\ convRoom[target[m]] \in Rooms
    BY <1>2 DEF HandOver, Held, TypeOK
  <2>2. TypeOK'
    BY <1>2, <2>1 DEF HandOver, TypeOK, Steps
  <2>3. Held'
    BY <1>2 DEF HandOver, TypeOK, Held, Active, Steps
  <2>4. HandedIsWithStaff'
    BY <1>2, <2>1 DEF HandOver, HandedIsWithStaff
  <2> QED  BY <2>2, <2>3, <2>4
<1> QED  BY <1>1, <1>2

\* The messages of an answer begin to be stored.
LEMMA AnswerIInv ==
  ASSUME IInv, NEW m \in Messages, Answer(m)
  PROVE  IInv'
<1> USE DEF IInv, store, rooms, observers, Goto, Answer
<1>1. TypeOK'
  <2>1. PICK n \in 1..MaxAnswers : unstored' = [unstored EXCEPT ![m] = n]
    OBVIOUS
  <2>2. unstored' \in [Messages -> 0..MaxAnswers]
    BY <2>1, AnswersAssumption DEF TypeOK
  <2> QED  BY <2>2 DEF TypeOK, Steps
<1>2. Held'
  BY DEF TypeOK, Held, Active, Steps
<1>3. HandedIsWithStaff'
  BY DEF HandedIsWithStaff
<1> QED  BY <1>1, <1>2, <1>3

\* What appendMessage writes is never longer than the memory.
LEMMA MemoryIInv ==
  ASSUME IInv, NEW m \in Messages, ReadMemory(m) \/ WriteMemory(m)
  PROVE  IInv'
<1> USE DEF IInv, store, rooms, observers, Goto
<1>1. roomOf[m] \in Sessions
  BY DEF Held, Active, Steps, ReadMemory, WriteMemory
<1>2. CASE ReadMemory(m)
  <2>1. TypeOK'
    BY <1>1, <1>2 DEF ReadMemory, Recall, TypeOK, Steps
  <2>2. Held' /\ HandedIsWithStaff'
    BY <1>2 DEF ReadMemory, TypeOK, Held, Active, Steps, HandedIsWithStaff
  <2> QED  BY <2>1, <2>2
<1>3. CASE WriteMemory(m)
  <2>1. PICK who \in {"customer", "assistant"} : memory' = Remembered(m, who)
    BY <1>3 DEF WriteMemory
  <2>2. [who |-> who, of |-> m] \in Entries
    BY DEF Entries
  <2> DEFINE s == Append(recalled[m], [who |-> who, of |-> m])
  <2>3. s \in Seq(Entries) /\ s # <<>>
    <3>1. recalled[m] \in Seq(Entries)
      BY DEF TypeOK
    <3> QED  BY ONLY <2>2, <3>1, AppendProperties
  <2>4. LastKept(s) \in Seq(Entries) /\ Len(LastKept(s)) <= Kept
    BY ONLY <2>3, KeptPart
  <2>5. memory' = [memory EXCEPT ![roomOf[m]] = LastKept(s)]
    BY <2>1 DEF Remembered
  <2>7. recalled' \in [Messages -> Seq(Entries)]
    <3>1. recalled' = recalled \/ recalled' = [recalled EXCEPT ![m] = <<>>]
      BY <1>3 DEF WriteMemory
    <3>2. <<>> \in Seq(Entries)
      BY EmptySeq
    <3> QED  BY <3>1, <3>2 DEF TypeOK
  <2>6. TypeOK'
    BY <1>1, <1>3, <2>4, <2>5, <2>7 DEF WriteMemory, TypeOK, Steps
  <2>8. Held' /\ HandedIsWithStaff'
    BY <1>3 DEF WriteMemory, TypeOK, Held, Active, Steps, HandedIsWithStaff
  <2> QED  BY <2>6, <2>8
<1> QED  BY <1>2, <1>3

\* A call ends: answered, turned away, failed, or with the process.
LEMMA OverIInv ==
  ASSUME IInv,
         \/ \E m \in Messages :
              \/ NoBot(m) \/ StoreAnswer(m) \/ ShowAnswer(m) \/ Fails(m)
              \/ AnswerRejects(m) \/ HookRejects(m)
         \/ Crash
  PROVE  IInv'
<1> USE DEF IInv, store, rooms, observers
<1>1. ASSUME NEW m \in Messages, StoreAnswer(m) PROVE IInv'
  <2>1. [who |-> "assistant", of |-> m] \in Entries
    BY DEF Entries
  <2>2. log' \in [Convs -> Seq(Entries \cup {OfStaff})]
    BY <1>1, <2>1, SaidType DEF StoreAnswer
  <2>3. CASE End({m})
    BY <1>1, <2>2, <2>3, EndIInv DEF StoreAnswer, TypeOK
  <2>4. CASE unstored[m] > 1 /\ unstored' = [unstored EXCEPT ![m] = @ - 1]
             /\ UNCHANGED <<pc, roomOf, conv, target, recalled>>
    <3>1. unstored' \in [Messages -> 0..MaxAnswers]
      BY <2>4, AnswersAssumption DEF TypeOK
    <3>2. TypeOK'
      BY <1>1, <2>2, <2>4, <3>1 DEF StoreAnswer, TypeOK
    <3>3. Held' /\ HandedIsWithStaff'
      BY <1>1, <2>4 DEF StoreAnswer, Held, Active, HandedIsWithStaff
    <3> QED  BY <3>2, <3>3
  <2> QED  BY <1>1, <2>3, <2>4 DEF StoreAnswer
<1>2. ASSUME NEW m \in Messages, NoBot(m) \/ ShowAnswer(m) \/ Fails(m) PROVE IInv'
  BY <1>2, EndIInv DEF NoBot, ShowAnswer, Fails, TypeOK
<1>3. ASSUME NEW m \in Messages, HookRejects(m) PROVE IInv'
  BY <1>3, EndIInv DEF HookRejects, TypeOK
<1>4. CASE Dies
  BY <1>4, EndIInv DEF Dies, TypeOK
<1> QED  BY <1>1, <1>2, <1>3, <1>4 DEF AnswerRejects, Crash

\* Staff write, edit or delete a conversation, or a memory expires.
LEMMA StaffIInv ==
  ASSUME IInv,
         \/ \E c \in Convs : EditConversation(c) \/ DeleteConversation(c) \/ StaffSend(c)
         \/ StaffStore \/ StaffFails
         \/ \E r \in Sessions : Expire(r)
  PROVE  IInv'
<1> USE DEF IInv, store, rooms, calls, observers
<1>1. Held'
  BY DEF Held, Active, EditConversation, DeleteConversation, StaffSend, StaffStore,
         StaffFails, Expire
<1>2. ASSUME NEW c \in Convs, EditConversation(c) PROVE TypeOK' /\ HandedIsWithStaff'
  BY <1>2 DEF EditConversation, TypeOK, HandedIsWithStaff
<1>3. ASSUME NEW c \in Convs, DeleteConversation(c) PROVE TypeOK' /\ HandedIsWithStaff'
  BY <1>3 DEF DeleteConversation, Begins, TypeOK, HandedIsWithStaff
<1>4. CASE StaffStore
  <2>1. log' \in [Convs -> Seq(Entries \cup {OfStaff})]
    BY <1>4, SaidType DEF StaffStore
  <2> QED  BY <1>1, <1>4, <2>1 DEF StaffStore, TypeOK, HandedIsWithStaff
<1>5. ASSUME StaffFails \/ \E c \in Convs : StaffSend(c) PROVE TypeOK' /\ HandedIsWithStaff'
  BY <1>5 DEF StaffFails, StaffSend, TypeOK, HandedIsWithStaff
<1>6. ASSUME NEW r \in Sessions, Expire(r) PROVE TypeOK' /\ HandedIsWithStaff'
  BY <1>6, KeptAssumption DEF Expire, TypeOK, HandedIsWithStaff
<1> QED  BY <1>1, <1>2, <1>3, <1>4, <1>5, <1>6

\* Each step keeps IInv.
LEMMA NextIInv == IInv /\ [Next]_vars => IInv'
<1> SUFFICES ASSUME IInv, [Next]_vars PROVE IInv'
  OBVIOUS
<1>1. CASE UNCHANGED vars
  BY <1>1 DEF vars, store, rooms, calls, observers, IInv, TypeOK, Held, Active,
              HandedIsWithStaff
<1>2. CASE Next
  BY <1>2, ArrivalIInv, FindIInv, QuestionIInv, HandOverIInv, MemoryIInv, AnswerIInv,
     OverIInv, StaffIInv DEF Next, Sessions
<1> QED  BY <1>1, <1>2

\* Every variable holds a value of its kind, and the memory of a room is never
\* longer than the prompt may hold, whatever calls interleave.
THEOREM TypeCorrect == Spec => []TypeOK
<1>1. IInv => TypeOK
  BY DEF IInv
<1> QED  BY <1>1, InitIInv, NextIInv, PTL DEF Spec

\* What the workflow has handed over is there and staff have it.
THEOREM HandOverCorrect == Spec => []HandedIsWithStaff
<1>1. IInv => HandedIsWithStaff
  BY DEF IInv
<1> QED  BY <1>1, InitIInv, NextIInv, PTL DEF Spec

-----------------------------------------------------------------------------
(* Rooms whose messages come one at a time                                 *)

\* One call at a time is in progress for such a session, ...
OneCall ==
  \A m, n \in Messages :
    Active(m) /\ Active(n) /\ roomOf[m] = roomOf[n] /\ roomOf[m] \in serial => m = n

\* ... it makes a conversation where there is none, ...
NoneToCreate ==
  \A m \in Messages :
    pc[m] = "create" /\ roomOf[m] \in serial => Existing(roomOf[m]) = {}

\* ... and what it finds in the memory when it writes its answer is what it
\* wrote there itself, unless that has expired.
Pairs(s) ==
  \A i \in 2..Len(s) :
    s[i].who = "assistant" => s[i - 1] = [who |-> "customer", of |-> s[i].of]
EndsWith(s, m) == s = <<>> \/ s[Len(s)] = [who |-> "customer", of |-> m]
OwnMemory ==
  /\ \A r \in serial : Pairs(memory[r])
  /\ \A m \in Messages : roomOf[m] \in serial =>
       /\ pc[m] \in {"append1", "append2"} => Pairs(recalled[m])
       /\ pc[m] = "append2" => EndsWith(recalled[m], m)
       /\ pc[m] = "recall2" => EndsWith(memory[roomOf[m]], m)

SerialInv ==
  IInv /\ OneCall /\ NoneToCreate /\ SerialRoomHasOneConversation /\ OwnMemory

\* No call is in progress at first, and there is no conversation.
LEMMA InitSerialInv == Init => SerialInv
<1> SUFFICES ASSUME Init PROVE SerialInv
  OBVIOUS
<1>1. OneCall /\ NoneToCreate /\ SerialRoomHasOneConversation
  BY NoneAssumption DEF Init, OneCall, NoneToCreate, SerialRoomHasOneConversation,
     Active, Steps, Sessions
<1>2. \A r \in Sessions : memory[r] = <<>>
  BY DEF Init
<1>3. OwnMemory
  BY <1>2 DEF Init, OwnMemory, Pairs
<1> QED  BY <1>1, <1>3, InitIInv DEF SerialInv

\* Every step ends calls, begins one, moves one on, or leaves them alone.
Begun(m, r) ==
  /\ pc[m] = "new" /\ pc' \in {[pc EXCEPT ![m] = s] : s \in {"find", "test"}}
  /\ roomOf' = [roomOf EXCEPT ![m] = r]
  /\ Begins(r)
  /\ UNCHANGED <<convRoom, memory, recalled>>
Moved(m) ==
  /\ Active(m) /\ pc' \in {[pc EXCEPT ![m] = s] : s \in Steps}
  /\ UNCHANGED <<roomOf, serial>>
Ended == \E M \in SUBSET Messages : End(M) /\ UNCHANGED <<convRoom, memory, serial>>
Outside == UNCHANGED calls /\ serial' \subseteq serial

\* There are no other steps.
LEMMA Kinds ==
  ASSUME IInv, [Next]_vars
  PROVE  \/ \E m \in Messages, r \in Sessions : Begun(m, r)
         \/ \E m \in Messages : Moved(m)
         \/ Ended
         \/ Outside
<1>1. ASSUME NEW m \in Messages, NEW r \in Sessions, Receive(m, r) \/ Test(m, r)
      PROVE  Begun(m, r)
  BY <1>1 DEF Receive, Test, Begun, Goto, store, rooms
<1>2. ASSUME NEW m \in Messages,
             \/ Find(m) \/ Create(m) \/ Question(m) \/ RunTest(m) \/ FindTarget(m)
             \/ HandOver(m) \/ ReadMemory(m) \/ WriteMemory(m) \/ Answer(m)
      PROVE  Moved(m) \/ Ended
  <2>1. CASE End({m}) /\ (Find(m) \/ Question(m) \/ RunTest(m))
    BY <2>1 DEF Ended, Find, Question, RunTest, store, rooms, observers
  <2>2. CASE \/ Create(m) \/ FindTarget(m) \/ HandOver(m) \/ ReadMemory(m)
             \/ WriteMemory(m) \/ Answer(m)
    BY <2>2 DEF Moved, Create, FindTarget, HandOver, ReadMemory, WriteMemory, Answer,
                Goto, Active, Steps, observers
  <2>3. CASE (Find(m) \/ Question(m) \/ RunTest(m)) /\ ~End({m})
    BY <2>3 DEF Moved, Find, Question, RunTest, ChooseAgent, Goto, Active, Steps,
                observers
  <2> QED  BY <1>2, <2>1, <2>2, <2>3
<1>3. ASSUME NEW m \in Messages,
             \/ NoBot(m) \/ ShowAnswer(m) \/ Fails(m) \/ HookRejects(m) \/ AnswerRejects(m)
      PROVE  Ended
  BY <1>3 DEF Ended, NoBot, ShowAnswer, Fails, HookRejects, AnswerRejects, Dies, store,
              rooms, observers
<1>6. ASSUME NEW m \in Messages, StoreAnswer(m)
      PROVE  Moved(m) \/ Ended
  <2>1. pc[m] = "storing" /\ UNCHANGED <<convRoom, memory, serial>>
    BY <1>6 DEF StoreAnswer, rooms, observers
  <2>2. CASE End({m})
    BY <2>1, <2>2 DEF Ended
  <2>3. CASE UNCHANGED <<pc, roomOf>>
    BY <2>1, <2>3 DEF Moved, Active, Steps, IInv, TypeOK
  <2> QED  BY <1>6, <2>2, <2>3 DEF StoreAnswer
<1>4. Crash => Ended
  BY DEF Ended, Crash, Dies, store, rooms, observers
<1>5. ASSUME \/ \E c \in Convs :
                  EditConversation(c) \/ DeleteConversation(c) \/ StaffSend(c)
             \/ StaffStore \/ StaffFails \/ \E r \in Sessions : Expire(r)
             \/ UNCHANGED vars
      PROVE  Outside
  BY <1>5 DEF Outside, EditConversation, DeleteConversation, Begins, StaffSend,
              StaffStore, StaffFails, Expire, vars, observers
<1> QED  BY <1>1, <1>2, <1>3, <1>4, <1>5, <1>6 DEF Next, Sessions

\* A call that begins in such a session is the only one.
LEMMA NextOneCall ==
  ASSUME IInv, OneCall, [Next]_vars
  PROVE  OneCall'
<1> USE DEF IInv, OneCall, TypeOK, Held, Active, Steps
<1>1. ASSUME NEW m \in Messages, NEW r \in Sessions, Begun(m, r)
      PROVE  OneCall'
  BY <1>1 DEF Begun, Begins, Busy
<1>2. ASSUME NEW m \in Messages, Moved(m) PROVE OneCall'
  BY <1>2 DEF Moved
<1>3. CASE Ended
  BY <1>3 DEF Ended, End
<1>4. CASE Outside
  BY <1>4 DEF Outside, calls
<1> QED  BY <1>1, <1>2, <1>3, <1>4, Kinds

\* A conversation appears in such a room when it is created, by the only call
\* of the room, which had found none.
LEMMA NextRooms ==
  ASSUME IInv, OneCall, NoneToCreate, SerialRoomHasOneConversation, [Next]_vars
  PROVE  NoneToCreate' /\ SerialRoomHasOneConversation'
<1> USE DEF IInv, NoneToCreate, SerialRoomHasOneConversation, Existing
<1>1. CASE /\ UNCHANGED <<convRoom, serial>>
           /\ \A m \in Messages :
                pc'[m] = "create" => pc[m] = "create" /\ roomOf'[m] = roomOf[m]
  BY <1>1
<1>2. ASSUME NEW m \in Messages, NEW r \in Sessions, Receive(m, r) \/ Test(m, r)
      PROVE  NoneToCreate' /\ SerialRoomHasOneConversation'
  <2>1. convRoom' = convRoom /\ serial' \subseteq serial
    BY <1>2 DEF Receive, Test, Begins, store, rooms
  <2>2. \A n \in Messages : pc'[n] = "create" => pc[n] = "create" /\ n # m
    BY <1>2 DEF Receive, Test, Goto, TypeOK
  <2>3. \A n \in Messages : n # m => roomOf'[n] = roomOf[n]
    BY <1>2 DEF Receive, Test, TypeOK
  <2> QED  BY <2>1, <2>2, <2>3
<1>3. CASE Ended
  BY <1>1, <1>3 DEF Ended, End
<1>4. ASSUME NEW m \in Messages, Find(m)
      PROVE  NoneToCreate' /\ SerialRoomHasOneConversation'
  <2>1. UNCHANGED <<convRoom, serial>>
    BY <1>4 DEF Find, store, rooms, observers
  <2>2. CASE End({m})
    BY <1>1, <2>1, <2>2 DEF End
  <2>3. CASE ~End({m}) /\ Existing(roomOf[m]) # {}
    <3>1. pc' = [pc EXCEPT ![m] = "question"] /\ roomOf' = roomOf
      BY <1>4, <2>3 DEF Find, Goto
    <3> QED  BY <1>1, <2>1, <3>1 DEF TypeOK
  <2>4. CASE Existing(roomOf[m]) = {}
    <3>1. pc' = [pc EXCEPT ![m] = "create"] /\ roomOf' = roomOf
      BY <1>4, <2>4 DEF Find, Goto
    <3>2. \A c \in Convs : convRoom'[c] # roomOf'[m]
      BY <2>1, <2>4, <3>1
    <3> QED  BY <2>1, <3>1, <3>2 DEF TypeOK
  <2> QED  BY <2>2, <2>3, <2>4
<1>5. ASSUME NEW m \in Messages, Create(m)
      PROVE  NoneToCreate' /\ SerialRoomHasOneConversation'
  <2>1. PICK c \in Convs : convRoom' = [convRoom EXCEPT ![c] = roomOf[m]]
    BY <1>5 DEF Create
  <2>2. roomOf[m] \in serial => \A d \in Convs : convRoom[d] # roomOf[m]
    BY <1>5 DEF Create
  <2>3. UNCHANGED <<roomOf, serial>> /\ pc' = [pc EXCEPT ![m] = "question"]
    BY <1>5 DEF Create, Goto, observers
  <2>4. SerialRoomHasOneConversation'
    BY <2>1, <2>2, <2>3 DEF TypeOK
  <2>5. NoneToCreate'
    BY <1>5, <2>1, <2>3 DEF TypeOK, OneCall, Create, Active, Steps
  <2> QED  BY <2>4, <2>5
<1>6. ASSUME NEW m \in Messages,
             \/ Question(m) \/ RunTest(m) \/ FindTarget(m) \/ HandOver(m)
             \/ ReadMemory(m) \/ WriteMemory(m) \/ Answer(m) \/ StoreAnswer(m)
      PROVE  NoneToCreate' /\ SerialRoomHasOneConversation'
  <2>1. UNCHANGED <<convRoom, serial>>
    BY <1>6 DEF Question, RunTest, FindTarget, HandOver, ReadMemory, WriteMemory, Answer,
                StoreAnswer, store, rooms, observers
  <2>2. CASE End({m})
    BY <1>1, <2>1, <2>2 DEF End
  <2>3. CASE ~End({m})
    BY <1>1, <1>6, <2>1, <2>3 DEF Question, RunTest, ChooseAgent, FindTarget, HandOver,
       ReadMemory, WriteMemory, Answer, StoreAnswer, Goto, TypeOK
  <2> QED  BY <2>2, <2>3
<1>7. ASSUME NEW c \in Convs, EditConversation(c) \/ DeleteConversation(c)
      PROVE  NoneToCreate' /\ SerialRoomHasOneConversation'
  <2>1. CASE EditConversation(c)
    BY <1>7, <2>1, NoneAssumption DEF EditConversation, Busy, Active, Steps, calls, TypeOK
  <2>2. CASE DeleteConversation(c)
    BY <1>7, <2>2, NoneAssumption
       DEF DeleteConversation, Begins, calls, TypeOK, Sessions
  <2> QED  BY <1>7, <2>1, <2>2
<1>8. ASSUME \/ \E c \in Convs : StaffSend(c)
             \/ StaffStore \/ StaffFails \/ \E r \in Sessions : Expire(r)
             \/ UNCHANGED vars
      PROVE  NoneToCreate' /\ SerialRoomHasOneConversation'
  BY <1>1, <1>8 DEF StaffSend, StaffStore, StaffFails, Expire, vars, calls, store, rooms,
     observers
<1>9. ASSUME \/ \E m \in Messages :
                  \/ NoBot(m) \/ ShowAnswer(m) \/ Fails(m) \/ HookRejects(m)
                  \/ AnswerRejects(m)
             \/ Crash
      PROVE  Ended
  BY <1>9 DEF Ended, NoBot, ShowAnswer, Fails, HookRejects, AnswerRejects, Crash,
         Dies, store, rooms, observers
<1> HIDE DEF IInv, NoneToCreate, SerialRoomHasOneConversation
<1> QED  BY <1>2, <1>3, <1>4, <1>5, <1>6, <1>7, <1>8, <1>9 DEF Next, Sessions

\* What appendMessage writes pairs answers with questions if what it read did,
\* and it ends with the new entry.
LEMMA PairedPart ==
  ASSUME NEW s \in Seq(Entries), NEW e \in Entries, Pairs(s),
         e.who = "assistant" => EndsWith(s, e.of),
         NEW k, k = LastKept(Append(s, e))
  PROVE  k \in Seq(Entries) /\ Pairs(k) /\ k # <<>> /\ k[Len(k)] = e
<1> DEFINE t == Append(s, e)
           d == Len(t) - Len(k)
<1>1. /\ t \in Seq(Entries) /\ t # <<>> /\ Len(t) = Len(s) + 1 /\ t[Len(s) + 1] = e
      /\ \A i \in 1..Len(s) : t[i] = s[i]
      /\ Len(s) \in Nat
  BY AppendProperties, LenProperties
<1>2. Pairs(t)
  <2>1. SUFFICES ASSUME NEW i \in 2..Len(t), t[i].who = "assistant"
                 PROVE  t[i - 1] = [who |-> "customer", of |-> t[i].of]
    BY DEF Pairs
  <2>2. CASE i \in 2..Len(s)
    <3>1. t[i] = s[i] /\ t[i - 1] = s[i - 1]
      BY <1>1, <2>2
    <3> QED  BY <2>1, <2>2, <3>1 DEF Pairs
  <2>3. CASE i = Len(s) + 1
    <3>1. t[i] = e /\ t[i - 1] = s[Len(s)] /\ Len(s) > 0
      BY <1>1, <2>1, <2>3
    <3>2. s # <<>>
      BY <3>1
    <3> QED  BY <2>1, <3>1, <3>2 DEF EndsWith
  <2> QED  BY <1>1, <2>1, <2>2, <2>3
<1> HIDE DEF t
<1>3. /\ k \in Seq(Entries) /\ k # <<>> /\ d \in Nat
      /\ \A i \in 1..Len(k) : k[i] = t[i + d]
  <2>1. k = LastKept(t)
    BY DEF t
  <2> QED  BY ONLY <1>1, <2>1, KeptPart
<1>4. Len(k) \in Nat /\ Len(k) > 0 /\ Len(k) + d = Len(t)
  BY <1>1, <1>3
<1> HIDE DEF d
<1>5. k[Len(k)] = e
  BY <1>1, <1>3, <1>4
<1>6. Pairs(k)
  <2>1. SUFFICES ASSUME NEW i \in 2..Len(k), k[i].who = "assistant"
                 PROVE  k[i - 1] = [who |-> "customer", of |-> k[i].of]
    BY DEF Pairs
  <2>2. k[i] = t[i + d] /\ k[i - 1] = t[(i + d) - 1] /\ i + d \in 2..Len(t)
    <3>1. i \in 1..Len(k) /\ i - 1 \in 1..Len(k) /\ (i - 1) + d = (i + d) - 1
      BY <1>3, <1>4
    <3>2. k[i - 1] = t[(i - 1) + d]
      BY <1>3, <3>1
    <3> QED  BY <1>1, <1>3, <1>4, <3>1, <3>2
  <2> QED  BY <1>2, <2>1, <2>2 DEF Pairs
<1> QED  BY <1>3, <1>5, <1>6

\* Only the room's own call reads and writes its memory.
LEMMA NextOwnMemory ==
  ASSUME IInv, OneCall, OwnMemory, [Next]_vars
  PROVE  OwnMemory'
<1> USE DEF IInv
<1>1. \A m \in Messages : Active(m) => roomOf[m] \in Sessions /\ roomOf[m] # None
  BY NoneAssumption DEF Held, Sessions
<1>2. CASE /\ memory' = memory /\ serial' \subseteq serial
           /\ \A m \in Messages :
                pc'[m] \in {"append1", "recall2", "append2"} =>
                  /\ pc[m] = pc'[m] /\ roomOf'[m] = roomOf[m]
                  /\ recalled'[m] = recalled[m]
  BY <1>2 DEF OwnMemory, EndsWith
<1>3. ASSUME NEW m \in Messages, NEW r \in Sessions, Begun(m, r)
      PROVE  OwnMemory'
  BY <1>2, <1>3 DEF Begun, Begins, TypeOK
<1>4. CASE Ended
  BY <1>2, <1>4 DEF Ended, End
<1>5. CASE UNCHANGED <<memory, calls>> /\ serial' \subseteq serial
  BY <1>2, <1>5 DEF calls
<1>6. ASSUME NEW r \in Sessions, Expire(r)
      PROVE  OwnMemory'
  <2>1. memory' = [memory EXCEPT ![r] = <<>>] /\ UNCHANGED <<pc, roomOf, recalled, serial>>
    BY <1>6 DEF Expire, calls, observers
  <2>2. \A q \in Sessions : memory'[q] = memory[q] \/ memory'[q] = <<>>
    BY <2>1 DEF TypeOK
  <2>3. Pairs(<<>>)
    BY DEF Pairs
  <2>4. \A q \in serial' : Pairs(memory'[q])
    BY <2>1, <2>2, <2>3 DEF OwnMemory, TypeOK
  <2>5. \A m \in Messages : pc[m] = "recall2" /\ roomOf[m] \in serial =>
          EndsWith(memory[roomOf[m]], m)'
    BY <1>1, <2>1, <2>2 DEF OwnMemory, EndsWith, Active, Steps
  <2> QED  BY <2>1, <2>4, <2>5 DEF OwnMemory, EndsWith
<1>7. ASSUME NEW m \in Messages, Moved(m), memory' = memory, recalled' = recalled,
             pc'[m] \notin {"append1", "recall2", "append2"}
      PROVE  OwnMemory'
  BY <1>2, <1>7 DEF Moved, TypeOK
<1>8. ASSUME NEW m \in Messages, ReadMemory(m)
      PROVE  OwnMemory'
  <2>1. /\ UNCHANGED <<memory, roomOf, serial>>
        /\ recalled' = [recalled EXCEPT ![m] = memory[roomOf[m]]]
        /\ \/ pc[m] = "recall1" /\ pc' = [pc EXCEPT ![m] = "append1"]
           \/ pc[m] = "recall2" /\ pc' = [pc EXCEPT ![m] = "append2"]
    BY <1>8 DEF ReadMemory, Recall, Goto, store, observers
  <2>2. ASSUME NEW n \in Messages, n # m, roomOf'[n] \in serial'
        PROVE  /\ pc'[n] \in {"append1", "append2"} => Pairs(recalled'[n])
               /\ pc'[n] = "append2" => EndsWith(recalled'[n], n)
               /\ pc'[n] = "recall2" => EndsWith(memory'[roomOf'[n]], n)
    <3>1. pc'[n] = pc[n] /\ recalled'[n] = recalled[n] /\ roomOf'[n] = roomOf[n]
      BY <2>1, <2>2 DEF TypeOK
    <3> QED  BY <2>1, <2>2, <3>1 DEF OwnMemory
  <2>3. ASSUME roomOf'[m] \in serial'
        PROVE  /\ Pairs(recalled'[m])
               /\ pc'[m] = "append2" => EndsWith(recalled'[m], m)
               /\ pc'[m] # "recall2"
    <3>1. recalled'[m] = memory[roomOf[m]] /\ roomOf[m] \in serial
      BY <2>1, <2>3 DEF TypeOK
    <3>2. pc'[m] = "append2" => pc[m] = "recall2"
      BY <2>1 DEF TypeOK
    <3>3. pc'[m] # "recall2"
      BY <2>1 DEF TypeOK
    <3> QED  BY <3>1, <3>2, <3>3 DEF OwnMemory
  <2>4. \A r \in serial' : Pairs(memory'[r])
    BY <2>1 DEF OwnMemory
  <2> QED  BY <2>2, <2>3, <2>4 DEF OwnMemory, Pairs, EndsWith
<1>9. ASSUME NEW m \in Messages, WriteMemory(m)
      PROVE  OwnMemory'
  <2>1. /\ UNCHANGED <<roomOf, serial>>
        /\ recalled' = recalled \/ recalled' = [recalled EXCEPT ![m] = <<>>]
        /\ \/ /\ pc[m] = "append1" /\ pc' = [pc EXCEPT ![m] = "recall2"]
              /\ memory' = Remembered(m, "customer")
           \/ /\ pc[m] = "append2" /\ pc' = [pc EXCEPT ![m] = "answer"]
              /\ memory' = Remembered(m, "assistant")
    BY <1>9 DEF WriteMemory, Goto, observers
  <2>2. PICK who \in {"customer", "assistant"} :
          /\ memory' = Remembered(m, who)
          /\ who = IF pc[m] = "append1" THEN "customer" ELSE "assistant"
    BY <2>1
  <2> DEFINE e == [who |-> who, of |-> m]
             k == LastKept(Append(recalled[m], e))
  <2>3. e \in Entries /\ e.who = who /\ e.of = m
    BY DEF Entries
  <2>4. roomOf[m] \in Sessions /\ recalled[m] \in Seq(Entries)
    BY <1>1, <2>1 DEF Active, Steps, TypeOK
  <2>5. memory' = [memory EXCEPT ![roomOf[m]] = k]
    BY <2>2 DEF Remembered
  <2> HIDE DEF e
  <2>6. ASSUME roomOf[m] \in serial
        PROVE  Pairs(k) /\ k[Len(k)] = e
    <3>1. Pairs(recalled[m]) /\ (e.who = "assistant" => EndsWith(recalled[m], e.of))
      BY <2>1, <2>2, <2>3, <2>6 DEF OwnMemory
    <3> HIDE DEF k
    <3>2. k = LastKept(Append(recalled[m], e))
      BY DEF k
    <3> QED  BY ONLY <2>3, <2>4, <3>1, <3>2, PairedPart
  <2> HIDE DEF k
  <2>7. \A r \in serial' : Pairs(memory'[r])
    BY <2>1, <2>4, <2>5, <2>6 DEF OwnMemory, TypeOK
  <2>8. ASSUME NEW n \in Messages, n # m, roomOf'[n] \in serial'
        PROVE  /\ pc'[n] \in {"append1", "append2"} => Pairs(recalled'[n])
               /\ pc'[n] = "append2" => EndsWith(recalled'[n], n)
               /\ pc'[n] = "recall2" => EndsWith(memory'[roomOf'[n]], n)
    <3>1. pc'[n] = pc[n] /\ recalled'[n] = recalled[n] /\ roomOf'[n] = roomOf[n]
      BY <2>1, <2>8 DEF TypeOK
    <3>2. Active(m)
      BY <2>1 DEF Active, Steps
    <3>3. pc[n] = "recall2" => memory'[roomOf[n]] = memory[roomOf[n]]
      <4>1. pc[n] = "recall2" => Active(n) /\ roomOf[n] \in Sessions
        BY <1>1 DEF Active, Steps
      <4>2. pc[n] = "recall2" => roomOf[n] # roomOf[m]
        BY <2>1, <2>8, <3>1, <3>2, <4>1 DEF OneCall
      <4> QED  BY <2>5, <4>1, <4>2 DEF TypeOK
    <3> QED  BY <2>1, <2>8, <3>1, <3>3 DEF OwnMemory
  <2>9. ASSUME roomOf'[m] \in serial'
        PROVE  /\ pc'[m] \notin {"append1", "append2"}
               /\ pc'[m] = "recall2" => EndsWith(memory'[roomOf'[m]], m)
    <3>1. pc'[m] \notin {"append1", "append2"}
      BY <2>1 DEF TypeOK
    <3>2. pc'[m] = "recall2" => e = [who |-> "customer", of |-> m]
      BY <2>1, <2>2 DEF e, TypeOK
    <3>3. memory'[roomOf'[m]] = k /\ k[Len(k)] = e
      BY <2>1, <2>4, <2>5, <2>6, <2>9 DEF TypeOK
    <3> QED  BY <3>1, <3>2, <3>3 DEF EndsWith
  <2> QED  BY <2>7, <2>8, <2>9 DEF OwnMemory, Pairs, EndsWith
<1>10. ASSUME NEW m \in Messages,
              \/ Find(m) \/ Create(m) \/ Question(m) \/ RunTest(m) \/ FindTarget(m)
              \/ HandOver(m) \/ Answer(m) \/ StoreAnswer(m)
       PROVE  OwnMemory'
  <2>1. memory' = memory
    BY <1>10 DEF Find, Create, Question, RunTest, FindTarget, HandOver, Answer,
       StoreAnswer, store
  <2>2. CASE End({m}) /\ UNCHANGED serial
    BY <1>2, <2>1, <2>2 DEF End
  <2>3. CASE ~(End({m}) /\ UNCHANGED serial)
    <3>1. recalled' = recalled /\ pc'[m] \notin {"append1", "recall2", "append2"}
          /\ Moved(m)
      BY <1>10, <2>3 DEF Find, Create, Question, RunTest, ChooseAgent, FindTarget,
         HandOver, Answer, StoreAnswer, Goto, Moved, Active, Steps, observers, TypeOK
    <3> QED  BY <1>7, <2>1, <3>1
  <2> QED  BY <2>2, <2>3
<1>11. ASSUME \/ \E m \in Messages :
                   \/ NoBot(m) \/ ShowAnswer(m) \/ Fails(m) \/ HookRejects(m)
                   \/ AnswerRejects(m)
              \/ Crash
       PROVE  Ended
  BY <1>11 DEF Ended, NoBot, ShowAnswer, Fails, HookRejects, AnswerRejects,
               Crash, Dies, store, rooms, observers
<1>12. ASSUME NEW m \in Messages, NEW r \in Sessions, Receive(m, r) \/ Test(m, r)
       PROVE  OwnMemory'
  BY <1>3, <1>12 DEF Receive, Test, Begun, Goto, store, rooms
<1>13. ASSUME \/ \E c \in Convs :
                   EditConversation(c) \/ DeleteConversation(c) \/ StaffSend(c)
              \/ StaffStore \/ StaffFails \/ UNCHANGED vars
       PROVE  OwnMemory'
  BY <1>5, <1>13 DEF EditConversation, DeleteConversation, Begins, StaffSend, StaffStore,
     StaffFails, vars, observers, store
<1> HIDE DEF IInv
<1> QED  BY <1>4, <1>6, <1>8, <1>9, <1>10, <1>11, <1>12, <1>13 DEF Next, Sessions

\* Each step keeps SerialInv.
LEMMA NextSerialInv == SerialInv /\ [Next]_vars => SerialInv'
  BY NextIInv, NextOneCall, NextRooms, NextOwnMemory DEF SerialInv

\* A room whose messages come one at a time never gets a second conversation,
\* whatever staff edit or delete and wherever the process dies.
THEOREM OneConversation == Spec => []SerialRoomHasOneConversation
<1>1. SerialInv => SerialRoomHasOneConversation
  BY DEF SerialInv
<1> QED  BY <1>1, InitSerialInv, NextSerialInv, PTL DEF Spec

\* In the memory of such a room every answer follows the question it answers,
\* for every number of rooms and messages and every size of the memory.
THEOREM MemoryPairs == Spec => []SerialMemoryPairs
<1>1. SerialInv => SerialMemoryPairs
  BY DEF SerialInv, OwnMemory, Pairs, SerialMemoryPairs
<1> QED  BY <1>1, InitSerialInv, NextSerialInv, PTL DEF Spec
-----------------------------------------------------------------------------
(* What is stored in such rooms                                            *)

\* Staff have conversations that exist, and what is gone takes its log along; ...
RowsOrNothing == \A c \in Convs : convRoom[c] = None => c \notin human /\ log[c] = <<>>

\* ... a call knows of a conversation from its look-up on, ...
Unknowing ==
  \A m \in Messages :
    /\ pc[m] \in {"new", "test", "find", "create"} => conv[m] = None
    /\ pc[m] \in {"new", "test", "find", "create", "question", "handover"} => target[m] = None

\* ... and one of such a room is still in the room of the call that knows it, ...
Addressed ==
  \A m \in Messages : Active(m) =>
    \A c \in {conv[m], target[m]} \cap Convs :
      convRoom[c] \in serial => convRoom[c] = roomOf[m]

\* ... is with staff only because that call handed it over, ...
InHands ==
  \A m \in Messages : \A c \in human :
    Active(m) /\ conv[m] = c /\ convRoom[c] \in serial => target[m] = c

\* ... and ends with the call's question, what staff said since, and what has
\* landed of the call's answer.
LastSaid(s, m) ==
  \E j \in 1..Len(s) :
    /\ s[j] = [who |-> "customer", of |-> m]
    /\ \A k \in (j + 1)..Len(s) : s[k] \in {OfStaff, [who |-> "assistant", of |-> m]}
Asking ==
  \A m \in Messages : \A c \in Convs :
    Active(m) /\ pc[m] # "question" /\ conv[m] = c /\ convRoom[c] \in serial =>
      LastSaid(log[c], m)

TalkInv ==
  /\ SerialInv
  /\ RowsOrNothing /\ Unknowing /\ Addressed /\ InHands /\ Asking /\ SerialLogIsADialogue

\* Nobody has said anything.
LEMMA InitTalkInv == Init => TalkInv
<1> SUFFICES ASSUME Init PROVE TalkInv
  OBVIOUS
<1>1. /\ human = {} /\ \A c \in Convs : log[c] = <<>>
      /\ \A m \in Messages : pc[m] = "new" /\ conv[m] = None /\ target[m] = None
  BY DEF Init
<1>2. Unknowing
  BY <1>1 DEF Unknowing
<1> QED  BY <1>1, <1>2, InitSerialInv DEF TalkInv, RowsOrNothing, Addressed, InHands, Asking,
            SerialLogIsADialogue, Active, Steps

\* The parts of SerialInv that count here.
LEMMA TalkFacts ==
  ASSUME TalkInv
  PROVE  /\ TypeOK /\ Held /\ HandedIsWithStaff /\ OneCall /\ NoneToCreate
         /\ None \notin Convs /\ None \notin serial
         /\ RowsOrNothing /\ Unknowing /\ Addressed /\ InHands /\ Asking
         /\ SerialLogIsADialogue
  BY NoneAssumption DEF TalkInv, SerialInv, IInv, TypeOK, Sessions

\* A step that stores nothing, gives nothing to staff and tells no call of a
\* conversation keeps all this.
Quiet ==
  /\ UNCHANGED <<convRoom, human, log>> /\ serial' \subseteq serial
  /\ \A m \in Messages : Active(m)' =>
       /\ conv'[m] = conv[m] /\ target'[m] = target[m]
       /\ \/ Active(m) /\ roomOf'[m] = roomOf[m] /\ (pc[m] = "question" => pc'[m] = "question")
          \/ conv[m] = None /\ target[m] = None

\* What it keeps.
LEMMA QuietKeeps ==
  ASSUME TalkInv, SerialInv', Unknowing', Quiet PROVE TalkInv'
<1>1. /\ None \notin Convs /\ human \subseteq Convs
      /\ RowsOrNothing /\ Addressed /\ InHands /\ Asking /\ SerialLogIsADialogue
  BY TalkFacts DEF TypeOK
<1>2. RowsOrNothing'
  BY <1>1 DEF Quiet, RowsOrNothing
<1>3. Addressed'
  BY <1>1 DEF Quiet, Addressed
<1>4. InHands'
  BY <1>1 DEF Quiet, InHands
<1>5. Asking'
  <2> SUFFICES ASSUME NEW m \in Messages, NEW c \in Convs, Active(m)', pc'[m] # "question",
                      conv'[m] = c, convRoom'[c] \in serial'
               PROVE  LastSaid(log[c], m)
    BY DEF Asking, Quiet, LastSaid, OfStaff
  <2>1. Active(m) /\ pc[m] # "question" /\ conv[m] = c /\ convRoom[c] \in serial
    BY <1>1 DEF Quiet
  <2> QED  BY <1>1, <2>1 DEF Asking
<1>6. SerialLogIsADialogue'
  BY <1>1 DEF Quiet, SerialLogIsADialogue, OfStaff
<1> QED  BY <1>2, <1>3, <1>4, <1>5, <1>6 DEF TalkInv

\* Most steps are such.
LEMMA QuietSteps ==
  ASSUME TalkInv,
         \/ \E m \in Messages :
              \/ \E r \in Rooms : Receive(m, r)
              \/ \E a \in Agents : Test(m, a)
              \/ NoBot(m) \/ RunTest(m) \/ ShowAnswer(m) \/ Fails(m)
              \/ AnswerRejects(m) \/ HookRejects(m)
              \/ Find(m) /\ (End({m}) \/ (Goto(m, "create") /\ UNCHANGED <<roomOf, conv, target>>))
              \/ FindTarget(m) /\ UNCHANGED target
              \/ ReadMemory(m) \/ WriteMemory(m) \/ Answer(m)
         \/ Crash
         \/ \E c \in Convs : StaffSend(c)
         \/ StaffFails
         \/ \E r \in Sessions : Expire(r)
         \/ UNCHANGED vars
  PROVE  Quiet /\ Unknowing'
<1>0. TypeOK /\ Unknowing
  BY TalkFacts
<1> USE DEF TypeOK, Quiet, Unknowing, Active, Steps, store, rooms
<1>1. ASSUME NEW m \in Messages,
             (\E r \in Rooms : Receive(m, r)) \/ (\E a \in Agents : Test(m, a))
      PROVE  Quiet /\ Unknowing'
  BY <1>0, <1>1 DEF Receive, Test, Goto, Begins
<1>2. ASSUME NEW M \in SUBSET Messages, End(M), UNCHANGED <<convRoom, human, log, serial>>
      PROVE  Quiet /\ Unknowing'
  BY <1>0, <1>2 DEF End
<1>3. ASSUME NEW m \in Messages,
             \/ NoBot(m) \/ ShowAnswer(m) \/ Fails(m) \/ AnswerRejects(m) \/ HookRejects(m)
             \/ (Find(m) \/ RunTest(m)) /\ End({m})
      PROVE  Quiet /\ Unknowing'
  <2>1. PICK M \in SUBSET Messages : End(M) /\ UNCHANGED <<convRoom, human, log, serial>>
    BY <1>3 DEF NoBot, ShowAnswer, Fails, AnswerRejects, HookRejects, Dies, Find, RunTest,
       observers
  <2> QED  BY <1>2, <2>1
<1>6. CASE Crash
  BY <1>2, <1>6 DEF Crash, Dies, observers
<1>4. ASSUME NEW m \in Messages,
             \/ Find(m) /\ Goto(m, "create") /\ UNCHANGED <<roomOf, conv, target>>
             \/ RunTest(m) /\ ~End({m})
             \/ FindTarget(m) /\ UNCHANGED target
             \/ ReadMemory(m) \/ WriteMemory(m) \/ Answer(m)
      PROVE  Quiet /\ Unknowing'
  <2>1. /\ UNCHANGED <<convRoom, human, log, serial, roomOf, conv, target>>
        /\ \/ pc[m] = "find" /\ pc' = [pc EXCEPT ![m] = "create"]
           \/ /\ pc[m] = "test"
              /\ pc' = [pc EXCEPT ![m] = "handover"] \/ pc' = [pc EXCEPT ![m] = "recall1"]
           \/ pc[m] = "handover" /\ pc' = [pc EXCEPT ![m] = "recall1"]
           \/ pc[m] = "handover" /\ pc' = [pc EXCEPT ![m] = "handing"]
           \/ pc[m] = "recall1" /\ pc' = [pc EXCEPT ![m] = "append1"]
           \/ pc[m] = "append1" /\ pc' = [pc EXCEPT ![m] = "recall2"]
           \/ pc[m] = "recall2" /\ pc' = [pc EXCEPT ![m] = "append2"]
           \/ pc[m] = "append2" /\ pc' = [pc EXCEPT ![m] = "answer"]
           \/ pc[m] = "answer" /\ pc' = [pc EXCEPT ![m] = "storing"]
    BY <1>4 DEF Find, RunTest, ChooseAgent, FindTarget, ReadMemory, WriteMemory, Answer,
       Goto, observers
  <2>2. PICK s \in Steps \ {"question"} :
          /\ pc' = [pc EXCEPT ![m] = s] /\ pc[m] \in Steps \ {"question"}
          /\ s \in {"test", "find", "create"} => pc[m] = "find"
          /\ s = "handover" => pc[m] = "test"
    BY <2>1
  <2>3. \A n \in Messages : pc'[n] = pc[n] \/ (n = m /\ pc'[n] = s)
    BY <1>0, <2>2
  <2> QED  BY <1>0, <2>1, <2>2, <2>3
<1>5. ASSUME \/ \E c \in Convs : StaffSend(c)
             \/ StaffFails
             \/ \E r \in Sessions : Expire(r)
             \/ UNCHANGED vars
      PROVE  Quiet /\ Unknowing'
  BY <1>0, <1>5 DEF StaffSend, StaffFails, Expire, vars, calls, observers
<1> HIDE DEF TypeOK, Quiet, Unknowing
<1> QED  BY <1>1, <1>3, <1>4, <1>5, <1>6

\* A log reads as a dialogue if the messages of an answer are the first things,
\* but for what staff said, after its question.
Dialogue(s) ==
  \A i \in 1..Len(s) : s[i].who = "assistant" =>
    \E j \in 1..(i - 1) :
      /\ s[j] = [who |-> "customer", of |-> s[i].of]
      /\ \A k \in (j + 1)..(i - 1) : s[k] \in {OfStaff, s[i]}

\* A question asked last is the last one, and stays it while staff speak and it
\* is answered.
LEMMA AppendLast ==
  ASSUME NEW S, NEW s \in Seq(S), NEW e \in S, NEW x
  PROVE  /\ e = [who |-> "customer", of |-> x] => LastSaid(Append(s, e), x)
         /\ e \in {OfStaff, [who |-> "assistant", of |-> x]} /\ LastSaid(s, x) =>
              LastSaid(Append(s, e), x)
<1>1. PICK t : t = Append(s, e)
  OBVIOUS
<1>2. /\ Len(t) = Len(s) + 1 /\ t[Len(s) + 1] = e /\ \A i \in 1..Len(s) : t[i] = s[i]
      /\ Len(s) \in Nat
  BY <1>1, AppendProperties, LenProperties
<1> DEFINE Late == {OfStaff, [who |-> "assistant", of |-> x]}
<1>3. e = [who |-> "customer", of |-> x] => LastSaid(t, x)
  BY <1>2 DEF LastSaid
<1>4. ASSUME e \in Late, LastSaid(s, x) PROVE LastSaid(t, x)
  <2>1. PICK j \in 1..Len(s) : /\ s[j] = [who |-> "customer", of |-> x]
                               /\ \A k \in (j + 1)..Len(s) : s[k] \in Late
    BY <1>4 DEF LastSaid
  <2> HIDE DEF Late
  <2>2. j \in 1..Len(t) /\ t[j] = [who |-> "customer", of |-> x]
    BY <1>2, <2>1
  <2>3. ASSUME NEW k \in (j + 1)..Len(t) PROVE t[k] \in Late
    BY <1>2, <1>4, <2>1
  <2> QED  BY <2>2, <2>3 DEF LastSaid, Late
<1> QED  BY <1>1, <1>3, <1>4

\* An entry continues a dialogue, if it is no answer or answers what was asked
\* last.
LEMMA AppendDialogue ==
  ASSUME NEW S, NEW s \in Seq(S), NEW e \in S, Dialogue(s),
         e.who = "assistant" =>
           e = [who |-> "assistant", of |-> e.of] /\ LastSaid(s, e.of)
  PROVE  Dialogue(Append(s, e))
<1>1. PICK t : t = Append(s, e)
  OBVIOUS
<1>2. /\ Len(t) = Len(s) + 1 /\ t[Len(s) + 1] = e /\ \A i \in 1..Len(s) : t[i] = s[i]
      /\ Len(s) \in Nat
  BY <1>1, AppendProperties, LenProperties
<1> SUFFICES ASSUME NEW i \in 1..Len(t), t[i].who = "assistant"
             PROVE  \E j \in 1..(i - 1) :
                      /\ t[j] = [who |-> "customer", of |-> t[i].of]
                      /\ \A k \in (j + 1)..(i - 1) : t[k] \in {OfStaff, t[i]}
  BY <1>1 DEF Dialogue
<1>3. CASE i \in 1..Len(s)
  <2>1. t[i] = s[i]
    BY <1>2, <1>3
  <2>2. PICK j \in 1..(i - 1) : /\ s[j] = [who |-> "customer", of |-> s[i].of]
                                /\ \A k \in (j + 1)..(i - 1) : s[k] \in {OfStaff, s[i]}
    BY <1>3, <2>1 DEF Dialogue
  <2>4. i \in Int /\ 1 <= i /\ i <= Len(s) /\ j \in Int /\ 1 <= j /\ j < i
    BY <1>2, <1>3, <2>2
  <2>5. \A k \in j..(i - 1) : k \in 1..Len(s)
    BY <1>2, <2>4
  <2>6. j \in j..(i - 1) /\ \A k \in (j + 1)..(i - 1) : k \in j..(i - 1)
    BY <2>4
  <2>3. t[j] = s[j] /\ \A k \in (j + 1)..(i - 1) : t[k] = s[k]
    BY ONLY <1>2, <2>5, <2>6
  <2> QED  BY <2>1, <2>2, <2>3
<1>4. CASE i = Len(s) + 1
  <2>1. t[i] = e
    BY <1>2, <1>4
  <2>2. PICK j \in 1..Len(s) : /\ s[j] = [who |-> "customer", of |-> e.of]
                               /\ \A k \in (j + 1)..Len(s) : s[k] \in {OfStaff, e}
    BY <2>1 DEF LastSaid
  <2>3. t[j] = s[j] /\ \A k \in (j + 1)..Len(s) : t[k] = s[k]
    BY <1>2, <2>2
  <2>4. i - 1 = Len(s)
    BY <1>2, <1>4
  <2> QED  BY <2>1, <2>2, <2>3, <2>4
<1> QED  BY <1>2, <1>3, <1>4

\* The conversation that a call has of such a room is no other call's.
LEMMA OwnConversation ==
  ASSUME TalkInv, NEW m \in Messages, NEW n \in Messages, NEW c \in Convs,
         Active(m), Active(n), c \in {conv[m], target[m]}, c \in {conv[n], target[n]},
         convRoom[c] \in serial
  PROVE  m = n
<1>1. convRoom[c] = roomOf[m] /\ convRoom[c] = roomOf[n]
  BY TalkFacts DEF Addressed
<1> QED  BY <1>1, TalkFacts DEF OneCall

\* A conversation is found, in its room and with the bot, or made.
LEMMA FindTalk ==
  ASSUME TalkInv, SerialInv', NEW m \in Messages,
         \/ /\ Find(m) /\ Goto(m, "question") /\ UNCHANGED <<roomOf, target>>
            /\ \E c \in Existing(roomOf[m]) : ~TurnedAway(c) /\ conv' = [conv EXCEPT ![m] = c]
         \/ Create(m)
  PROVE  TalkInv'
<1>1. /\ TypeOK /\ Held /\ None \notin Convs
      /\ RowsOrNothing /\ Unknowing /\ Addressed /\ InHands /\ Asking /\ SerialLogIsADialogue
  BY TalkFacts
<1>2. PICK c \in Convs :
        /\ conv' = [conv EXCEPT ![m] = c] /\ convRoom'[c] = roomOf[m] /\ c \notin human
        /\ \A d \in Convs : d # c => convRoom'[d] = convRoom[d]
        /\ \/ convRoom'[c] = convRoom[c]
           \/ /\ log[c] = <<>>
              /\ \A n \in Messages : Active(n) => c \notin {conv[n], target[n]}
  <2>1. CASE Create(m)
    <3>1. PICK c \in Convs : /\ convRoom[c] = None
                             /\ \A n \in Messages : Active(n) => c \notin {conv[n], target[n]}
                             /\ convRoom' = [convRoom EXCEPT ![c] = roomOf[m]]
                             /\ conv' = [conv EXCEPT ![m] = c]
      BY <2>1 DEF Create
    <3> QED  BY <1>1, <3>1 DEF TypeOK, RowsOrNothing
  <2>2. CASE Find(m) /\ \E c \in Existing(roomOf[m]) :
               ~TurnedAway(c) /\ conv' = [conv EXCEPT ![m] = c]
    BY <1>1, <2>2 DEF Find, Existing, TurnedAway, store, rooms
  <2> QED  BY <2>1, <2>2
<1>3. /\ UNCHANGED <<human, log, roomOf, target, serial>>
      /\ pc' = [pc EXCEPT ![m] = "question"] /\ pc[m] \in {"find", "create"}
  BY DEF Find, Create, Goto, store, rooms, observers
<1>4. /\ conv'[m] = c /\ pc'[m] = "question" /\ Active(m) /\ target[m] = None
      /\ \A n \in Messages \ {m} : conv'[n] = conv[n] /\ pc'[n] = pc[n]
      /\ \A n \in Messages : Active(n)' <=> Active(n)
  BY <1>1, <1>2, <1>3 DEF TypeOK, Active, Steps, Unknowing
<1>5. roomOf[m] # None
  BY <1>1, <1>3, NoneAssumption DEF Held
<1>6. RowsOrNothing'
  BY <1>1, <1>2, <1>3, <1>5 DEF RowsOrNothing
<1>7. Unknowing'
  BY <1>1, <1>3, <1>4 DEF Unknowing
<1>8. Addressed'
  <2> SUFFICES ASSUME NEW n \in Messages, Active(n)', NEW d \in Convs,
                      d \in {conv'[n], target'[n]}, convRoom'[d] \in serial'
               PROVE  convRoom'[d] = roomOf'[n]
    BY DEF Addressed
  <2>1. CASE n = m
    BY <1>1, <1>2, <1>3, <1>4, <2>1
  <2>2. CASE n # m
    <3>1. Active(n) /\ d \in {conv[n], target[n]}
      BY <1>3, <1>4, <2>2
    <3>2. convRoom'[d] = convRoom[d]
      BY <1>2, <3>1
    <3> QED  BY <1>1, <1>3, <3>1, <3>2 DEF Addressed
  <2> QED  BY <2>1, <2>2
<1>9. InHands'
  <2> SUFFICES ASSUME NEW n \in Messages, NEW d \in human, Active(n)', conv'[n] = d,
                      convRoom'[d] \in serial'
               PROVE  target[n] = d
    BY <1>3 DEF InHands
  <2>1. d # c /\ n # m /\ d \in Convs
    BY <1>1, <1>2, <1>4 DEF TypeOK
  <2> QED  BY <1>1, <1>2, <1>3, <1>4, <2>1 DEF InHands
<1>10. Asking'
  <2> SUFFICES ASSUME NEW n \in Messages, NEW d \in Convs, Active(n)', pc'[n] # "question",
                      conv'[n] = d, convRoom'[d] \in serial'
               PROVE  LastSaid(log'[d], n)
    BY DEF Asking, LastSaid, OfStaff
  <2>1. n # m /\ Active(n) /\ conv[n] = d /\ pc[n] # "question"
    BY <1>4
  <2>2. convRoom'[d] = convRoom[d]
    BY <1>2, <2>1
  <2> QED  BY <1>1, <1>3, <2>1, <2>2 DEF Asking
<1>11. SerialLogIsADialogue'
  <2>1. \A d \in Convs : convRoom'[d] \in serial => convRoom[d] \in serial \/ log[d] = <<>>
    BY <1>2
  <2>2. \A d \in Convs : convRoom'[d] \in serial => Dialogue(log[d])
    BY <1>1, <2>1 DEF SerialLogIsADialogue, Dialogue
  <2> QED  BY <1>3, <2>2 DEF SerialLogIsADialogue, Dialogue, OfStaff
<1> QED  BY <1>6, <1>7, <1>8, <1>9, <1>10, <1>11 DEF TalkInv

\* A question is stored by the only call that has the conversation.
LEMMA QuestionTalk ==
  ASSUME TalkInv, SerialInv', NEW m \in Messages, Question(m)
  PROVE  TalkInv'
<1>1. /\ TypeOK /\ None \notin Convs
      /\ RowsOrNothing /\ Unknowing /\ Addressed /\ InHands /\ Asking /\ SerialLogIsADialogue
  BY TalkFacts
<1>2. /\ pc[m] = "question" /\ Active(m) /\ UNCHANGED <<convRoom, human, serial>>
      /\ log' = [log EXCEPT ![conv[m]] = Append(@, [who |-> "customer", of |-> m])]
      /\ \/ UNCHANGED <<roomOf, conv, target>> /\ \E s \in {"handover", "recall1"} :
              pc' = [pc EXCEPT ![m] = s]
         \/ End({m})
      /\ convRoom[conv[m]] # None
  BY DEF Question, Asked, Said, ChooseAgent, Goto, Active, Steps, rooms, observers
<1>3. \A n \in Messages : Active(n)' =>
        /\ Active(n) /\ roomOf'[n] = roomOf[n] /\ conv'[n] = conv[n] /\ target'[n] = target[n]
        /\ pc'[n] = pc[n] \/ (n = m /\ pc'[n] \in {"handover", "recall1"})
  BY <1>1, <1>2 DEF TypeOK, Active, Steps, End
<1> DEFINE e == [who |-> "customer", of |-> m]
<1>4. /\ \A c \in Convs : c # conv[m] => log'[c] = log[c]
      /\ \A c \in Convs : c = conv[m] => log'[c] = Append(log[c], e)
      /\ \A c \in Convs : log[c] \in Seq(Entries \cup {OfStaff})
  BY <1>1, <1>2 DEF TypeOK
<1>5. /\ e \in Entries \cup {OfStaff} /\ e.who # "assistant"
      /\ e = [who |-> "customer", of |-> m]
  BY DEF Entries
<1> HIDE DEF e
<1>6. RowsOrNothing'
  BY <1>1, <1>2, <1>4 DEF RowsOrNothing
<1>7. Unknowing'
  BY <1>1, <1>2 DEF Unknowing, TypeOK, End
<1>8. Addressed' /\ InHands'
  BY <1>1, <1>2, <1>3 DEF Addressed, InHands
<1>9. Asking'
  <2> SUFFICES ASSUME NEW n \in Messages, NEW c \in Convs, Active(n)', pc'[n] # "question",
                      conv'[n] = c, convRoom'[c] \in serial'
               PROVE  LastSaid(log'[c], n)
    BY DEF Asking, LastSaid, OfStaff
  <2>1. Active(n) /\ conv[n] = c /\ convRoom[c] \in serial
    BY <1>2, <1>3
  <2>2. CASE c = conv[m]
    <3>1. n = m
      BY <1>2, <2>1, <2>2, OwnConversation
    <3>2. LastSaid(Append(log[c], e), m)
      BY <1>4, <1>5, AppendLast
    <3>3. LastSaid(log'[c], m)
      BY <1>4, <2>2, <3>2
    <3> QED  BY <3>1, <3>3
  <2>3. CASE c # conv[m]
    BY <1>1, <1>3, <1>4, <2>1, <2>3 DEF Asking
  <2> QED  BY <2>2, <2>3
<1>10. SerialLogIsADialogue'
  <2>1. ASSUME NEW c \in Convs, convRoom[c] \in serial PROVE Dialogue(log'[c])
    <3>1. Dialogue(log[c])
      BY <1>1, <2>1 DEF SerialLogIsADialogue, Dialogue
    <3>2. Dialogue(Append(log[c], e))
      BY <1>4, <1>5, <3>1, AppendDialogue
    <3> QED  BY <1>4, <3>1, <3>2
  <2> QED  BY <1>2, <2>1 DEF SerialLogIsADialogue, Dialogue, OfStaff
<1> QED  BY <1>6, <1>7, <1>8, <1>9, <1>10 DEF TalkInv

\* An answer follows the question of its call.
LEMMA StoreAnswerTalk ==
  ASSUME TalkInv, SerialInv', NEW m \in Messages, StoreAnswer(m)
  PROVE  TalkInv'
<1>1. /\ TypeOK /\ None \notin Convs
      /\ RowsOrNothing /\ Unknowing /\ Addressed /\ InHands /\ Asking /\ SerialLogIsADialogue
  BY TalkFacts
<1>2. /\ pc[m] = "storing" /\ Active(m) /\ UNCHANGED <<convRoom, human, serial>>
      /\ End({m}) \/ UNCHANGED <<pc, roomOf, conv, target>>
      /\ log' = [log EXCEPT ![conv[m]] = Append(@, [who |-> "assistant", of |-> m])]
      /\ convRoom[conv[m]] # None
  BY DEF StoreAnswer, Said, Active, Steps, rooms, observers
<1>3. \A n \in Messages : Active(n)' =>
        /\ Active(n) /\ roomOf'[n] = roomOf[n] /\ conv'[n] = conv[n]
        /\ target'[n] = target[n] /\ pc'[n] = pc[n]
  BY <1>1, <1>2 DEF TypeOK, Active, Steps, End
<1> DEFINE e == [who |-> "assistant", of |-> m]
<1>4. /\ \A c \in Convs : c # conv[m] => log'[c] = log[c]
      /\ \A c \in Convs : c = conv[m] => log'[c] = Append(log[c], e)
      /\ \A c \in Convs : log[c] \in Seq(Entries \cup {OfStaff})
  BY <1>1, <1>2 DEF TypeOK
<1>5. /\ e \in Entries \cup {OfStaff} /\ e.of = m
      /\ e = [who |-> "assistant", of |-> m]
  BY DEF Entries
<1> HIDE DEF e
<1>6. RowsOrNothing'
  BY <1>1, <1>2, <1>4 DEF RowsOrNothing
<1>7. Unknowing'
  BY <1>1, <1>2 DEF Unknowing, TypeOK, End
<1>8. Addressed' /\ InHands'
  BY <1>1, <1>2, <1>3 DEF Addressed, InHands
<1>9. Asking'
  <2> SUFFICES ASSUME NEW n \in Messages, NEW c \in Convs, Active(n)', pc'[n] # "question",
                      conv'[n] = c, convRoom'[c] \in serial'
               PROVE  LastSaid(log'[c], n)
    BY DEF Asking, LastSaid, OfStaff
  <2>1. Active(n) /\ conv[n] = c /\ convRoom[c] \in serial /\ pc[n] # "question"
    BY <1>2, <1>3
  <2>2. LastSaid(log[c], n)
    BY <1>1, <2>1 DEF Asking
  <2>3. CASE c = conv[m]
    <3>1. n = m
      BY <1>2, <2>1, <2>3, OwnConversation
    <3>2. LastSaid(Append(log[c], e), m)
      BY <1>4, <1>5, <2>2, <3>1, AppendLast
    <3>3. LastSaid(log'[c], m)
      BY <1>4, <2>3, <3>2
    <3> QED  BY <3>1, <3>3
  <2>4. CASE c # conv[m]
    <3>1. log'[c] = log[c]
      BY <1>4, <2>4
    <3> QED  BY <2>2, <3>1
  <2> QED  BY <2>3, <2>4
<1>10. SerialLogIsADialogue'
  <2>1. ASSUME NEW c \in Convs, convRoom[c] \in serial PROVE Dialogue(log'[c])
    <3>1. Dialogue(log[c])
      BY <1>1, <2>1 DEF SerialLogIsADialogue, Dialogue
    <3>2. c = conv[m] => LastSaid(log[c], m)
      BY <1>1, <1>2, <2>1 DEF Asking
    <3>3. c = conv[m] => Dialogue(Append(log[c], e))
      BY <1>4, <1>5, <3>1, <3>2, AppendDialogue
    <3> QED  BY <1>4, <3>1, <3>3
  <2> QED  BY <1>2, <2>1 DEF SerialLogIsADialogue, Dialogue, OfStaff
<1> QED  BY <1>6, <1>7, <1>8, <1>9, <1>10 DEF TalkInv

\* What is handed over is the conversation of the call, if its room is such.
LEMMA HandOverTalk ==
  ASSUME TalkInv, SerialInv', NEW m \in Messages,
         \/ HandOver(m)
         \/ /\ FindTarget(m) /\ Goto(m, "handing")
            /\ \E c \in Existing(roomOf[m]) : target' = [target EXCEPT ![m] = c]
  PROVE  TalkInv'
<1>1. /\ TypeOK /\ Held /\ None \notin Convs
      /\ RowsOrNothing /\ Unknowing /\ Addressed /\ InHands /\ Asking /\ SerialLogIsADialogue
  BY TalkFacts
<1>2. CASE HandOver(m)
  <2>1. /\ pc[m] = "handing" /\ Active(m) /\ pc' = [pc EXCEPT ![m] = "recall1"]
        /\ human' = human \cup {target[m]} /\ convRoom[target[m]] # None
        /\ UNCHANGED <<convRoom, log, roomOf, conv, target, serial>>
    BY <1>2 DEF HandOver, Goto, Active, Steps
  <2>2. target[m] \in Convs
    BY <1>1, <2>1 DEF Held
  <2>3. \A n \in Messages :
          /\ Active(n)' => Active(n)
          /\ pc'[n] = pc[n] \/ (n = m /\ pc'[n] = "recall1")
    BY <1>1, <2>1 DEF TypeOK, Active, Steps
  <2>4. RowsOrNothing'
    BY <1>1, <2>1, <2>2 DEF RowsOrNothing
  <2>5. Unknowing' /\ Addressed'
    BY <1>1, <2>1, <2>3 DEF Unknowing, Addressed
  <2>6. InHands'
    <3> SUFFICES ASSUME NEW n \in Messages, NEW c \in human', Active(n)', conv[n] = c,
                        convRoom[c] \in serial
                 PROVE  target[n] = c
      BY <2>1 DEF InHands
    <3>1. CASE c \in human
      BY <1>1, <2>3, <3>1 DEF InHands
    <3>2. CASE c = target[m]
      BY <2>1, <2>2, <2>3, <3>2, OwnConversation
    <3> QED  BY <2>1, <3>1, <3>2
  <2>7. Asking'
    <3> SUFFICES ASSUME NEW n \in Messages, NEW c \in Convs, Active(n)', pc'[n] # "question",
                        conv'[n] = c, convRoom'[c] \in serial'
                 PROVE  LastSaid(log'[c], n)
      BY DEF Asking, LastSaid, OfStaff
    <3>1. Active(n) /\ pc[n] # "question" /\ conv[n] = c /\ convRoom[c] \in serial
      BY <2>1, <2>3
    <3> QED  BY <1>1, <2>1, <3>1 DEF Asking
  <2>8. SerialLogIsADialogue'
    BY <1>1, <2>1 DEF SerialLogIsADialogue, OfStaff
  <2> QED  BY <2>4, <2>5, <2>6, <2>7, <2>8 DEF TalkInv
<1>3. ASSUME FindTarget(m), Goto(m, "handing"),
             NEW c \in Existing(roomOf[m]), target' = [target EXCEPT ![m] = c]
      PROVE  TalkInv'
  <2>1. /\ pc[m] = "handover" /\ Active(m) /\ pc' = [pc EXCEPT ![m] = "handing"]
        /\ c \in Convs /\ convRoom[c] = roomOf[m] /\ target[m] = None
        /\ UNCHANGED <<convRoom, human, log, roomOf, conv, serial>>
    BY <1>1, <1>3
       DEF FindTarget, Goto, Existing, Active, Steps, store, rooms, observers, Unknowing
  <2>2. \A n \in Messages :
          /\ Active(n)' => Active(n)
          /\ (pc'[n] = pc[n] /\ target'[n] = target[n])
             \/ (n = m /\ pc'[n] = "handing" /\ target'[n] = c)
    BY <1>1, <1>3, <2>1 DEF TypeOK, Active, Steps
  <2>3. RowsOrNothing' /\ SerialLogIsADialogue'
    BY <1>1, <2>1 DEF RowsOrNothing, SerialLogIsADialogue, OfStaff
  <2>4. Unknowing'
    BY <1>1, <2>1, <2>2 DEF Unknowing
  <2>5. Addressed'
    <3> SUFFICES ASSUME NEW n \in Messages, Active(n)', NEW d \in Convs,
                        d \in {conv[n], target'[n]}, convRoom[d] \in serial
                 PROVE  convRoom[d] = roomOf[n]
      BY <2>1 DEF Addressed
    <3>1. CASE d \in {conv[n], target[n]}
      BY <1>1, <2>2, <3>1 DEF Addressed
    <3>2. CASE d \notin {conv[n], target[n]}
      BY <2>1, <2>2, <3>2
    <3> QED  BY <3>1, <3>2
  <2>6. InHands'
    <3> SUFFICES ASSUME NEW n \in Messages, NEW d \in human, Active(n)', conv[n] = d,
                        convRoom[d] \in serial
                 PROVE  target'[n] = d
      BY <2>1 DEF InHands
    <3>1. target[n] = d /\ d \in Convs
      BY <1>1, <2>2 DEF InHands, TypeOK
    <3> QED  BY <1>1, <2>1, <2>2, <3>1
  <2>7. Asking'
    <3> SUFFICES ASSUME NEW n \in Messages, NEW d \in Convs, Active(n)', pc'[n] # "question",
                        conv'[n] = d, convRoom'[d] \in serial'
                 PROVE  LastSaid(log'[d], n)
      BY DEF Asking, LastSaid, OfStaff
    <3>1. Active(n) /\ pc[n] # "question" /\ conv[n] = d /\ convRoom[d] \in serial
      BY <2>1, <2>2
    <3> QED  BY <1>1, <2>1, <3>1 DEF Asking
  <2> QED  BY <2>3, <2>4, <2>5, <2>6, <2>7 DEF TalkInv
<1> QED  BY <1>2, <1>3

\* Staff store what they have sent.
LEMMA StaffStoreTalk ==
  ASSUME TalkInv, SerialInv', StaffStore
  PROVE  TalkInv'
<1>1. /\ TypeOK /\ None \notin Convs
      /\ RowsOrNothing /\ Unknowing /\ Addressed /\ InHands /\ Asking /\ SerialLogIsADialogue
  BY TalkFacts
<1>2. /\ desk \in Convs /\ convRoom[desk] # None
      /\ log' = [log EXCEPT ![desk] = Append(@, OfStaff)]
      /\ UNCHANGED <<convRoom, human, serial, pc, roomOf, conv, target>>
  BY <1>1 DEF StaffStore, Said, TypeOK, rooms, calls, observers
<1>3. /\ \A c \in Convs : c # desk => log'[c] = log[c]
      /\ log'[desk] = Append(log[desk], OfStaff)
      /\ \A c \in Convs : log[c] \in Seq(Entries \cup {OfStaff})
  BY <1>1, <1>2 DEF TypeOK
<1>4. OfStaff \in Entries \cup {OfStaff} /\ OfStaff.who # "assistant"
  BY DEF OfStaff
<1>5. RowsOrNothing'
  BY <1>1, <1>2, <1>3 DEF RowsOrNothing
<1>6. Unknowing' /\ Addressed' /\ InHands'
  BY <1>1, <1>2 DEF Unknowing, Addressed, InHands, Active
<1>7. Asking'
  <2> SUFFICES ASSUME NEW m \in Messages, NEW c \in Convs, Active(m)', pc'[m] # "question",
                      conv'[m] = c, convRoom'[c] \in serial'
               PROVE  LastSaid(log'[c], m)
    BY DEF Asking, LastSaid, OfStaff
  <2>1. LastSaid(log[c], m)
    BY <1>1, <1>2 DEF Asking, Active
  <2>2. LastSaid(Append(log[c], OfStaff), m)
    BY <1>3, <1>4, <2>1, AppendLast
  <2> QED  BY <1>3, <2>1, <2>2
<1>8. SerialLogIsADialogue'
  <2>1. ASSUME NEW c \in Convs, convRoom[c] \in serial PROVE Dialogue(log'[c])
    <3>1. Dialogue(log[c])
      BY <1>1, <2>1 DEF SerialLogIsADialogue, Dialogue
    <3>2. Dialogue(Append(log[c], OfStaff))
      BY <1>3, <1>4, <3>1, AppendDialogue
    <3> QED  BY <1>3, <3>1, <3>2
  <2> QED  BY <1>2, <2>1 DEF SerialLogIsADialogue, Dialogue, OfStaff
<1> QED  BY <1>5, <1>6, <1>7, <1>8 DEF TalkInv

\* A conversation that is moved, or given to staff while a call is in progress,
\* is in no such room afterwards, nor is one that is deleted.
LEMMA ManageTalk ==
  ASSUME TalkInv, SerialInv', NEW c \in Convs, EditConversation(c) \/ DeleteConversation(c)
  PROVE  TalkInv'
<1>1. /\ TypeOK /\ None \notin Convs /\ None \notin serial
      /\ RowsOrNothing /\ Unknowing /\ Addressed /\ InHands /\ Asking /\ SerialLogIsADialogue
  BY TalkFacts
<1>2. /\ UNCHANGED <<pc, roomOf, conv, target>> /\ serial' \subseteq serial
      /\ convRoom[c] # None
      /\ \A d \in Convs \ {c} : convRoom'[d] = convRoom[d] /\ log'[d] = log[d]
      /\ \A d \in human' : d \in human \/ d = c
      /\ convRoom'[c] = None => c \notin human' /\ log'[c] = <<>>
      /\ convRoom'[c] \in serial' =>
           convRoom'[c] = convRoom[c] /\ log'[c] = log[c] /\ ~Busy(convRoom[c])
  <2>1. CASE DeleteConversation(c)
    BY <1>1, <2>1 DEF DeleteConversation, Begins, calls, TypeOK
  <2>2. CASE EditConversation(c)
    <3>1. PICK r \in Rooms :
            /\ convRoom' = [convRoom EXCEPT ![c] = r]
            /\ serial' = IF r # convRoom[c] \/ Busy(r)
                         THEN serial \ {convRoom[c], r} ELSE serial
      BY <2>2 DEF EditConversation
    <3>2. r # None
      BY NoneAssumption
    <3> QED  BY <1>1, <2>2, <3>1, <3>2 DEF EditConversation, calls, TypeOK
  <2> QED  BY <2>1, <2>2
<1>3. ASSUME NEW m \in Messages, Active(m), NEW d \in {conv[m], target[m]} \cap Convs,
             convRoom'[d] \in serial'
      PROVE  d # c /\ convRoom'[d] = convRoom[d] /\ convRoom[d] \in serial
  <2>1. d # c
    <3> SUFFICES ASSUME d = c PROVE FALSE
      OBVIOUS
    <3>1. convRoom[c] \in serial /\ ~Busy(convRoom[c])
      BY <1>2, <1>3
    <3>2. convRoom[c] = roomOf[m]
      BY <1>1, <1>3, <3>1 DEF Addressed
    <3> QED  BY <1>3, <3>1, <3>2 DEF Busy
  <2> QED  BY <1>2, <1>3, <2>1
<1>4. \A m \in Messages : Active(m)' <=> Active(m)
  BY <1>2 DEF Active
<1>5. RowsOrNothing'
  BY <1>1, <1>2 DEF RowsOrNothing
<1>6. Unknowing'
  BY <1>1, <1>2 DEF Unknowing
<1>7. Addressed'
  <2> SUFFICES ASSUME NEW m \in Messages, Active(m)', NEW d \in {conv[m], target[m]} \cap Convs,
                      convRoom'[d] \in serial'
               PROVE  convRoom'[d] = roomOf[m]
    BY <1>2 DEF Addressed
  <2> QED  BY <1>1, <1>3, <1>4 DEF Addressed
<1>8. InHands'
  <2> SUFFICES ASSUME NEW m \in Messages, Active(m)', NEW d \in human', conv[m] = d,
                      convRoom'[d] \in serial'
               PROVE  target[m] = d
    BY <1>2 DEF InHands
  <2>1. d \in Convs
    BY <1>1, <1>2 DEF TypeOK
  <2> QED  BY <1>1, <1>2, <1>3, <1>4, <2>1 DEF InHands
<1>9. Asking'
  <2> SUFFICES ASSUME NEW m \in Messages, NEW d \in Convs, Active(m)', pc'[m] # "question",
                      conv'[m] = d, convRoom'[d] \in serial'
               PROVE  LastSaid(log'[d], m)
    BY DEF Asking, LastSaid, OfStaff
  <2>1. /\ Active(m) /\ pc[m] # "question" /\ conv[m] = d /\ convRoom[d] \in serial
        /\ log'[d] = log[d]
    BY <1>2, <1>3, <1>4
  <2> QED  BY <1>1, <2>1 DEF Asking
<1>10. SerialLogIsADialogue'
  <2>1. ASSUME NEW d \in Convs, convRoom'[d] \in serial' PROVE Dialogue(log'[d])
    <3>1. convRoom[d] \in serial /\ log'[d] = log[d]
      BY <1>2, <2>1
    <3> QED  BY <1>1, <3>1 DEF SerialLogIsADialogue, Dialogue
  <2> QED  BY <2>1 DEF SerialLogIsADialogue, Dialogue, OfStaff
<1> QED  BY <1>5, <1>6, <1>7, <1>8, <1>9, <1>10 DEF TalkInv

\* Each step keeps TalkInv.
LEMMA NextTalkInv == TalkInv /\ [Next]_vars => TalkInv'
<1> SUFFICES ASSUME TalkInv, [Next]_vars PROVE TalkInv'
  OBVIOUS
<1>1. SerialInv'
  BY NextSerialInv DEF TalkInv
<1>2. ASSUME NEW m \in Messages, Find(m) PROVE TalkInv'
  <2>1. \/ End({m}) \/ (Goto(m, "create") /\ UNCHANGED <<roomOf, conv, target>>)
        \/ /\ Goto(m, "question") /\ UNCHANGED <<roomOf, target>>
           /\ \E c \in Existing(roomOf[m]) : ~TurnedAway(c) /\ conv' = [conv EXCEPT ![m] = c]
    BY <1>2 DEF Find
  <2> QED  BY <1>1, <1>2, <2>1, QuietSteps, QuietKeeps, FindTalk
<1>3. ASSUME NEW m \in Messages, FindTarget(m) PROVE TalkInv'
  <2>1. \/ UNCHANGED target
        \/ /\ Goto(m, "handing")
           /\ \E c \in Existing(roomOf[m]) : target' = [target EXCEPT ![m] = c]
    BY <1>3 DEF FindTarget
  <2> QED  BY <1>1, <1>3, <2>1, QuietSteps, QuietKeeps, HandOverTalk
<1>4. ASSUME NEW m \in Messages,
             Create(m) \/ Question(m) \/ HandOver(m) \/ StoreAnswer(m)
      PROVE  TalkInv'
  BY <1>1, <1>4, FindTalk, QuestionTalk, HandOverTalk, StoreAnswerTalk
<1>5. ASSUME NEW c \in Convs, EditConversation(c) \/ DeleteConversation(c) PROVE TalkInv'
  BY <1>1, <1>5, ManageTalk
<1>6. CASE StaffStore
  BY <1>1, <1>6, StaffStoreTalk
<1>7. ASSUME \/ \E m \in Messages :
                  \/ \E r \in Rooms : Receive(m, r)
                  \/ \E a \in Agents : Test(m, a)
                  \/ NoBot(m) \/ RunTest(m) \/ ShowAnswer(m) \/ Fails(m)
                  \/ AnswerRejects(m) \/ HookRejects(m) \/ ReadMemory(m) \/ WriteMemory(m)
                  \/ Answer(m)
             \/ Crash
             \/ \E c \in Convs : StaffSend(c)
             \/ StaffFails
             \/ \E r \in Sessions : Expire(r)
             \/ UNCHANGED vars
      PROVE  TalkInv'
  BY <1>1, <1>7, QuietSteps, QuietKeeps
<1> QED  BY <1>2, <1>3, <1>4, <1>5, <1>6, <1>7 DEF Next

\* What a room whose messages come one at a time has stored reads as a dialogue,
\* wherever staff speak in between and whatever fails, is deleted or moved.
THEOREM LogIsADialogue == Spec => []SerialLogIsADialogue
<1>1. TalkInv => SerialLogIsADialogue
  BY DEF TalkInv
<1> QED  BY <1>1, InitTalkInv, NextTalkInv, PTL DEF Spec

\* With such a room in the hands of staff, nothing is stored but what they say
\* and the answer of the call that handed it over.
THEOREM StaffTalkAlone == Spec => SerialStaffTalkAlone
<1> DEFINE Alone ==
      \A c \in human : convRoom[c] \in serial /\ Len(log'[c]) > Len(log[c]) =>
        LET e == log'[c][Len(log'[c])] IN
        e = OfStaff \/ (e.who = "assistant" /\ target[e.of] = c)
<1>1. TalkInv /\ [Next]_vars => [Alone]_vars
  <2> SUFFICES ASSUME TalkInv, Next, NEW c \in human, convRoom[c] \in serial,
                      Len(log'[c]) > Len(log[c])
               PROVE  LET e == log'[c][Len(log'[c])] IN
                      e = OfStaff \/ (e.who = "assistant" /\ target[e.of] = c)
    OBVIOUS
  <2>1. /\ TypeOK /\ None \notin Convs /\ Unknowing /\ InHands /\ c \in Convs
        /\ log[c] \in Seq(Entries \cup {OfStaff})
    BY TalkFacts DEF TypeOK
  <2>2. log' # log
    BY <2>1
  <2>3. ASSUME NEW d, NEW e \in Entries \cup {OfStaff}, Said(d, e)
        PROVE  d = c /\ log'[c][Len(log'[c])] = e
    <3>1. d = c
      BY <2>1, <2>3 DEF Said, TypeOK
    <3>2. log'[c] = Append(log[c], e)
      BY <2>1, <2>3, <3>1 DEF Said, TypeOK
    <3> QED  BY <2>1, <3>1, <3>2, AppendProperties
  <2>4. CASE StaffStore
    BY <2>3, <2>4 DEF StaffStore
  <2>5. ASSUME NEW m \in Messages, StoreAnswer(m)
        PROVE  \E e \in Entries : /\ log'[c][Len(log'[c])] = e
                                  /\ e.who = "assistant" /\ target[e.of] = c
    <3>1. PICK e \in Entries : e = [who |-> "assistant", of |-> m]
      BY DEF Entries
    <3>2. conv[m] = c /\ log'[c][Len(log'[c])] = e
      BY <2>3, <2>5, <3>1 DEF StoreAnswer
    <3>3. target[m] = c
      BY <2>1, <2>5, <3>2 DEF StoreAnswer, InHands, Active, Steps
    <3> QED  BY <3>1, <3>2, <3>3
  <2>6. ASSUME NEW m \in Messages, Question(m) PROVE FALSE
    <3>1. PICK e \in Entries : e = [who |-> "customer", of |-> m]
      BY DEF Entries
    <3>2. conv[m] = c
      BY <2>3, <2>6, <3>1 DEF Question, Asked
    <3>3. target[m] = c /\ target[m] = None
      BY <2>1, <2>6, <3>2 DEF Question, InHands, Unknowing, Active, Steps
    <3> QED  BY <2>1, <3>3
  <2>7. ASSUME NEW d \in Convs, DeleteConversation(d) PROVE FALSE
    <3>1. log'[c] = log[c] \/ log'[c] = <<>>
      BY <2>1, <2>7 DEF DeleteConversation, TypeOK
    <3> QED  BY <2>1, <3>1
  <2>8. \/ StaffStore
        \/ \E m \in Messages : StoreAnswer(m) \/ Question(m)
        \/ \E d \in Convs : DeleteConversation(d)
    BY <2>2 DEF Next, Receive, Test, NoBot, RunTest, ShowAnswer, Find, Create, FindTarget,
       HandOver, ReadMemory, WriteMemory, Answer, Fails, AnswerRejects, HookRejects, Dies, Crash,
       EditConversation, StaffSend, StaffFails, Expire, store
  <2> QED  BY <2>4, <2>5, <2>6, <2>7, <2>8
<1>2. [][Alone]_vars => SerialStaffTalkAlone
  BY PTL DEF SerialStaffTalkAlone
<1> QED  BY <1>1, <1>2, InitTalkInv, NextTalkInv, PTL DEF Spec

=============================================================================
