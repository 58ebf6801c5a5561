------------------------- MODULE TelegramBotsProofs -------------------------
(***************************************************************************)
(* Proofs of TelegramBots, for any number of bots, clients and contents    *)
(* and any bounds.  The invariant IInv says what is under way on a bot     *)
(* whose operations do not overlap, and how far isActive and isUsed may be *)
(* behind meanwhile.  A step ends the process, is one of the process, or   *)
(* changes records; the part of IInv that tells of a bot (a content) is    *)
(* kept by a frame lemma unless the step is an operation on it.            *)
(***************************************************************************)
EXTENDS TelegramBots, TLAPS

-----------------------------------------------------------------------------
(* A client that does something was made for a bot.                        *)
Owned == \A t \in Clients : t \in polling \/ stops[t] > 0 => owner[t] \in Bots

(* A disabled client is silent, and one that is asked polls unless its     *)
(* polling failed.                                                         *)
Listening ==
  /\ \A t \in Clients : phase[t] = "off" => t \notin polling
  /\ \A t \in Clients : phase[t] = "asked" => t \in polling \/ t \in deaf
  /\ RegisteredBotHears

(* Nothing outlives the process, and nothing comes before its row.         *)
Blank(b) ==
  /\ ~Registered(b) /\ ClientsOf(b) = {} /\ writes[b] = NoWrites
  /\ \A k \in looked : k.bot # b
Rooted ==
  /\ proc = "down" => FreshMemory
  /\ \A b \in active : Has(b)
  /\ \A b \in Bots : row[b] = "new" => Blank(b)

(* No client of b awaits an answer of Telegram. *)
Calm(b) == \A t \in ClientsOf(b) : stops[t] = 0 /\ phase[t] \notin {"asked", "lost"}

(* One operation on b at a time: *)
\* a call that has looked b up finds everything at rest;
OneCall(b) ==
  \A k \in looked : k.bot = b =>
    /\ writes[b] = NoWrites /\ Calm(b)
    /\ \A l \in looked : l.bot = b => l = k
\* a client that is asked is the only one that does anything;
OneAsked(b) ==
  \A t \in ClientsOf(b) : phase[t] = "asked" =>
    /\ ~Registered(b) /\ writes[b] = NoWrites
    /\ \A u \in ClientsOf(b) :
         stops[u] = 0 /\ (u # t => u \notin polling /\ phase[u] # "asked")
\* a client that is stopped is the registered one, and was stopped once;
OneStopped(b) ==
  \A t \in ClientsOf(b) : stops[t] > 0 =>
    /\ bots[b] = t /\ stops[t] = 1 /\ phase[t] = "off"
    /\ \A u \in ClientsOf(b) : u \notin polling
\* no getMe failed, and the one client that polls is known to a stop;
OneClient(b) ==
  /\ \A t \in ClientsOf(b) : phase[t] # "lost"
  /\ \A t, u \in ClientsOf(b) : {t, u} \subseteq polling => t = u
  /\ \A t \in ClientsOf(b) : t \in polling /\ phase[t] = "known" => bots[b] = t
\* and one update of isActive is in flight, which tells of the registry.
OneWrite(b) ==
  /\ writes[b]["on"] > 0 =>
       /\ writes[b]["on"] = 1 /\ writes[b]["off"] = 0 /\ Registered(b)
       /\ \A t \in ClientsOf(b) : stops[t] = 0
  /\ writes[b]["off"] > 0 =>
       /\ writes[b]["off"] = 1 /\ writes[b]["on"] = 0
       /\ Registered(b) => stops[bots[b]] > 0
Orderly(b) == OneCall(b) /\ OneAsked(b) /\ OneStopped(b) /\ OneClient(b) /\ OneWrite(b)

(* isActive is behind the registry only by what is under way. *)
Truthful(b) ==
  /\ writes[b] = NoWrites /\ (\E t \in ClientsOf(b) : stops[t] > 0) => b \notin active
  /\ ~Busy(b) => (b \in active <=> Registered(b))
  /\ \A k \in looked : k.bot = b =>
       /\ Registered(b) => b \in active
       /\ k.op = "disable" /\ b \in active => Registered(b)

(* Both, of every bot whose operations did not overlap.                    *)
SerialInv ==
  \A b \in serial : Orderly(b) /\ (proc = "up" /\ Has(b) => Truthful(b))

(* The marks of a content given to one bot at a time.                      *)
UsedBy(b, c) == Has(b) /\ uses[b] = c
Marked(c) == \E k \in marks : k.content = c
UnusedWhenNew ==
  \A c \in Contents : content[c] = "new" =>
    ~Marked(c) /\ c \notin isUsed /\ \A b \in Bots : uses[b] # c
OneBot(c) ==
  /\ \A b, d \in Bots : UsedBy(b, c) /\ UsedBy(d, c) => b = d
  /\ \A k, l \in marks : k.content = c /\ l.content = c => k = l
  /\ \A k \in marks : k.content = c => (k.value <=> \E b \in Bots : UsedBy(b, c))
  /\ Exists(c) /\ ~Marked(c) => (c \in isUsed <=> \E b \in Bots : UsedBy(b, c))
TidyInv == UnusedWhenNew /\ \A c \in tidy : OneBot(c)

(* The inductive invariant.                                                *)
IInv == TypeOK /\ Owned /\ Listening /\ Rooted /\ SerialInv /\ TidyInv

-----------------------------------------------------------------------------
(* A process that has ended leaves nothing behind.                         *)
LEMMA DeathIsFresh == Dies => FreshMemory'
  BY DEF Dies, FreshMemory

(* An update of isActive in flight, and the functions that count them.     *)
LEMMA WriteIssued ==
  ASSUME TypeOK, NEW b \in Bots, NEW v \in Status, IssueWrite(b, v)
  PROVE  /\ writes' \in [Bots -> [Status -> 0..MaxWrites]]
         /\ \A d \in Bots : \A w \in Status :
              writes'[d][w] = IF d = b /\ w = v THEN writes[d][w] + 1 ELSE writes[d][w]
  <1>1. writes \in [Bots -> [Status -> 0..MaxWrites]] /\ MaxWrites \in Nat
    BY TelegramAssumption DEF TypeOK
  <1>2. writes[b][v] + 1 \in 0..MaxWrites
    BY <1>1 DEF IssueWrite
  <1> QED BY <1>1, <1>2 DEF IssueWrite

(* DisableBot by its two branches.                                         *)
LEMMA Disabling ==
  ASSUME TypeOK, NEW b \in Bots, NEW P \in SUBSET Clients, DisableBot(b, P)
  PROVE  \/ /\ Registered(b) /\ bots[b] \in Clients /\ stops[bots[b]] + 1 \in 0..MaxStops
            /\ IssueWrite(b, "off")
            /\ phase' = [phase EXCEPT ![bots[b]] = "off"]
            /\ polling' = P \ {bots[b]}
            /\ stops' = [stops EXCEPT ![bots[b]] = @ + 1]
         \/ ~Registered(b) /\ polling' = P /\ UNCHANGED <<writes, phase, stops>>
  BY TelegramAssumption DEF DisableBot, TypeOK, Registered

(* What addNewBot and deleteBot have still to mark.                        *)
LEMMA MarkingTypes ==
  ASSUME NEW b \in Bots, NEW c \in Contents \cup {None}, NEW v \in BOOLEAN
  PROVE  Marking(b, c, v) \subseteq Mark
  <1>1. CASE c = None
    BY <1>1 DEF Marking
  <1>2. CASE c \in Contents
    <2>1. [bot |-> b, content |-> c, value |-> v] \in [bot : Bots, content : Contents, value : BOOLEAN]
      BY <1>2, Zenon
    <2> QED BY <1>2, <2>1 DEF Marking, Mark
  <1> QED BY <1>1, <1>2

(* Every step keeps the variables in their types, and the registry to      *)
(* clients that were made.                                                 *)
LEMMA TypeInductive == TypeOK /\ Owned /\ [Next]_vars => TypeOK'
  <1> SUFFICES ASSUME TypeOK, Owned, [Next]_vars PROVE TypeOK'
    OBVIOUS
  <1> USE TelegramAssumption
  <1>a. ASSUME Dies PROVE TypeOK'
    BY <1>a DEF Dies, TypeOK, records, Registered, NoWrites, Status, Phases
  <1>1. CASE Crash
    BY <1>1, <1>a DEF Crash
  <1>2. CASE Boot
    BY <1>2 DEF Boot, TypeOK, records, registry, Registered, Hosted, Call
  <1>3. ASSUME NEW b \in Bots, NEW op \in {"start", "disable"}, LookUp(b, op) PROVE TypeOK'
    BY <1>3 DEF LookUp, BeginsOn, TypeOK, records, registry, Registered, Call
  <1>4. ASSUME NEW b \in Bots, StartCall(b) PROVE TypeOK'
    <2>1. PICK t \in Clients : NewClient(b, t)
      BY <1>4 DEF StartCall
    <2>2. CASE Registered(b)
      BY <1>4, <2>1, <2>2 DEF StartCall, NewClient, TypeOK, records, Registered
    <2>3. CASE ~Registered(b)
      <3>1. /\ phase[t] = "unused" /\ owner' = [owner EXCEPT ![t] = b]
            /\ phase' = [phase EXCEPT ![t] = "asked"] /\ polling' = polling \cup {t}
            /\ looked' \subseteq looked
            /\ UNCHANGED <<records, active, proc, bots, stops, writes, marks, serial, tidy, deaf>>
        BY <1>4, <2>1, <2>3 DEF StartCall, NewClient
      <3>2. \A d \in Bots : Registered(d)' => owner'[bots'[d]] = d /\ phase'[bots'[d]] # "asked"
        BY <3>1 DEF TypeOK, Registered
      <3>3. \A u \in Clients : owner'[u] = None <=> phase'[u] = "unused"
        BY <3>1 DEF TypeOK
      <3>4. owner' \in [Clients -> Bots \cup {None}] /\ phase' \in [Clients -> Phases]
        BY <3>1 DEF TypeOK, Phases
      <3> QED BY <3>1, <3>2, <3>3, <3>4 DEF TypeOK, records
    <2> QED BY <2>2, <2>3
  <1>5. ASSUME NEW b \in Bots, StartThrows(b) PROVE TypeOK'
    BY <1>5, <1>a DEF StartThrows
  <1>b. ASSUME NEW b \in Bots, NEW P \in SUBSET Clients, DisableBot(b, P),
               UNCHANGED <<records, active, proc, bots, owner, marks, tidy>>,
               looked' \subseteq looked, serial' \subseteq serial,
               deaf' \subseteq Clients
        PROVE  TypeOK'
    <2>1. CASE ~Registered(b)
      BY <1>b, <2>1 DEF DisableBot, TypeOK, records, Registered
    <2>2. CASE Registered(b)
      <3>1. writes' \in [Bots -> [Status -> 0..MaxWrites]]
        BY <1>b, <2>2, WriteIssued DEF DisableBot, Status
      <3>2. /\ bots[b] \in Clients /\ owner[bots[b]] = b /\ phase' = [phase EXCEPT ![bots[b]] = "off"]
            /\ stops' = [stops EXCEPT ![bots[b]] = @ + 1] /\ stops[bots[b]] + 1 \in 0..MaxStops
            /\ polling' \subseteq Clients /\ phase[bots[b]] # "unused"
        BY <1>b, <2>2, Disabling DEF TypeOK
      <3>3. phase' \in [Clients -> Phases] /\ stops' \in [Clients -> 0..MaxStops]
        BY <3>2 DEF TypeOK, Phases
      <3>4. \A t \in Clients : owner'[t] = None <=> phase'[t] = "unused"
        BY <1>b, <3>2 DEF TypeOK
      <3>5. \A d \in Bots : Registered(d)' => owner'[bots'[d]] = d /\ phase'[bots'[d]] # "asked"
        BY <1>b, <3>2 DEF TypeOK, Registered
      <3> QED BY <1>b, <3>1, <3>2, <3>3, <3>4, <3>5 DEF TypeOK, records
    <2> QED BY <2>1, <2>2
  <1>6. ASSUME NEW b \in Bots, DisableCall(b) PROVE TypeOK'
    BY <1>6, <1>b DEF DisableCall, TypeOK
  <1>7. ASSUME NEW b \in Bots, DeleteBot(b) PROVE TypeOK'
    <2>1. Marking(b, uses[b], FALSE) \subseteq Mark
      BY MarkingTypes DEF TypeOK
    <2>2. marks' \subseteq Mark /\ tidy' \subseteq Contents
      BY <1>7, <2>1 DEF DeleteBot, Rewrites, Untidy, TypeOK
    <2> QED BY <1>7, <2>2 DEF DeleteBot, Rewrites, TypeOK, registry, Registered, Existence
  <1>8. ASSUME NEW b \in Bots, NEW v \in Status, StatusWriteLands(b, v) PROVE TypeOK'
    <2>1. writes' \in [Bots -> [Status -> 0..MaxWrites]]
      BY <1>8 DEF StatusWriteLands, TypeOK
    <2> QED BY <1>8, <2>1 DEF StatusWriteLands, TypeOK, records, registry, Registered
  <1>9. ASSUME NEW b \in Bots, NEW v \in Status, StatusWriteThrows(b, v) PROVE TypeOK'
    BY <1>9, <1>a DEF StatusWriteThrows
  <1>10. ASSUME NEW b \in Bots, NEW c \in Contents \cup {None}, AddNewBot(b, c) PROVE TypeOK'
    <2>1. Marking(b, c, TRUE) \subseteq Mark
      BY MarkingTypes DEF TypeOK
    <2>2. marks' \subseteq Mark /\ tidy' \subseteq Contents
      BY <1>10, <2>1 DEF AddNewBot, Rewrites, Untidy, TypeOK
    <2> QED BY <1>10, <2>2 DEF AddNewBot, Rewrites, TypeOK, registry, Registered, Existence
  <1>11. ASSUME NEW b \in Bots, NEW c \in Contents \cup {None}, EditBot(b, c) PROVE TypeOK'
    BY <1>11 DEF EditBot, Rewrites, TypeOK, registry, Registered, Mark, Existence
  <1>12. ASSUME NEW k \in looked, StatusCall(k) PROVE TypeOK'
    BY <1>12 DEF StatusCall, TypeOK, records, registry, Registered, Call
  <1>13. ASSUME NEW k \in looked, StatusCallThrows(k) PROVE TypeOK'
    BY <1>13, <1>a DEF StatusCallThrows
  <1>14. ASSUME NEW k \in marks, MarkContent(k) PROVE TypeOK'
    BY <1>14 DEF MarkContent, TypeOK, registry, Registered, Mark
  <1>15. ASSUME NEW t \in Clients, Connection(t) PROVE TypeOK'
    <2>1. owner[t] \in Bots /\ phase[t] = "asked" /\ "on" \in Status
      BY <1>15 DEF Connection, TypeOK, Status
    <2>2. writes' \in [Bots -> [Status -> 0..MaxWrites]]
      BY <1>15, <2>1, WriteIssued DEF Connection
    <2>3. phase' = [phase EXCEPT ![t] = "known"] /\ bots' = [bots EXCEPT ![owner[t]] = t]
      BY <1>15 DEF Connection
    <2>4. \A d \in Bots : Registered(d)' => owner[bots'[d]] = d /\ phase'[bots'[d]] # "asked"
      BY <2>1, <2>3 DEF TypeOK, Registered
    <2>5. \A u \in Clients : owner[u] = None <=> phase'[u] = "unused"
      BY <2>1, <2>3 DEF TypeOK
    <2>6. phase' \in [Clients -> Phases] /\ bots' \in [Bots -> Clients \cup {None}]
      BY <2>1, <2>3 DEF TypeOK, Phases
    <2> QED BY <1>15, <2>2, <2>4, <2>5, <2>6 DEF Connection, TypeOK, records
  <1>16. ASSUME NEW t \in Clients, GetMeThrows(t) PROVE TypeOK'
    BY <1>16 DEF GetMeThrows, TypeOK, records, Registered, Phases
  <1>17. ASSUME NEW t \in Clients, PollingError(t) PROVE TypeOK'
    <2> USE <1>17 DEF PollingError
    <2>1. deaf' \subseteq Clients /\ polling \ {t} \in SUBSET Clients /\ serial' \subseteq serial
      BY DEF TypeOK, BeginsOn
    <2>2. owner[t] \in Bots
      BY DEF Owned
    <2> QED BY <2>1, <2>2, <1>b DEF StopsBot
  <1>18. ASSUME NEW t \in Clients, StopReturns(t) PROVE TypeOK'
    BY <1>18 DEF StopReturns, Owned, TypeOK, records, Registered
  <1>d. ASSUME NEW t \in Clients, StopRejects(t) PROVE TypeOK'
    BY <1>d DEF StopRejects, TypeOK, records, Registered
  <1>19. ASSUME NEW t \in Clients, Collect(t) PROVE TypeOK'
    BY <1>19 DEF Collect, TypeOK, records, Registered, Phases
  <1>20. ASSUME NEW t \in Clients, ReplyThrows(t) PROVE TypeOK'
    BY <1>20, <1>a DEF ReplyThrows
  <1>c. ASSUME NEW C \in SUBSET Contents, NEW s \in Kinds \cup {"gone"}, SetContents(C, s) PROVE TypeOK'
    BY <1>c DEF SetContents, TypeOK, registry, Registered
  <1>21. ASSUME NEW c \in Contents, AddNewContentIntegration(c) PROVE TypeOK'
    BY <1>21, <1>c DEF AddNewContentIntegration
  <1>22. ASSUME NEW c \in Contents, EditContentIntegration(c) PROVE TypeOK'
    BY <1>22 DEF EditContentIntegration, Exists, Kinds, TypeOK, registry, Registered
  <1>23. ASSUME NEW c \in Contents, DeleteContentIntegration(c) PROVE TypeOK'
    BY <1>23, <1>c DEF DeleteContentIntegration
  <1>24. ASSUME NEW C \in SUBSET Contents, DeleteUserIntegration(C) PROVE TypeOK'
    BY <1>24, <1>c DEF DeleteUserIntegration
  <1>25. CASE UNCHANGED vars
    BY <1>25 DEF vars, TypeOK, records, registry, Registered
  <1> HIDE TelegramAssumption
  <1> QED BY <1>1, <1>2, <1>3, <1>4, <1>5, <1>6, <1>7, <1>8, <1>9, <1>10, <1>11, <1>12, <1>13,
             <1>14, <1>15, <1>16, <1>17, <1>18, <1>d, <1>19, <1>20, <1>21, <1>22, <1>23, <1>24, <1>25
       DEF Next

-----------------------------------------------------------------------------
(* A step ends the process, is one of its own, or changes records only.    *)
ProcessStep ==
  \/ Boot
  \/ \E b \in Bots :
       \/ \E op \in {"start", "disable"} : LookUp(b, op)
       \/ StartCall(b) \/ DisableCall(b)
       \/ \E v \in Status : StatusWriteLands(b, v)
  \/ \E k \in looked : StatusCall(k)
  \/ \E t \in Clients :
       \/ Connection(t) \/ GetMeThrows(t) \/ PollingError(t)
       \/ StopReturns(t) \/ StopRejects(t) \/ Collect(t)
RecordStep ==
  \/ \E b \in Bots :
       \/ DeleteBot(b)
       \/ \E c \in Contents \cup {None} : AddNewBot(b, c) \/ EditBot(b, c)
  \/ \E k \in marks : MarkContent(k)
  \/ \E C \in SUBSET Contents, s \in Kinds \cup {"gone"} :
       /\ (\A c \in C : content[c] = "new" /\ s \in Kinds) \/ (\A c \in C : Exists(c) /\ s = "gone")
       /\ SetContents(C, s)
  \/ \E c \in Contents : EditContentIntegration(c)

(* Every step of Next is of one of the three kinds.                        *)
LEMMA KindsOfSteps == Next => Dies \/ ProcessStep \/ RecordStep
  <1> SUFFICES ASSUME Next PROVE Dies \/ ProcessStep \/ RecordStep
    OBVIOUS
  <1>1. CASE \E c \in Contents : \/ AddNewContentIntegration(c)
                                \/ DeleteContentIntegration(c)
    BY <1>1 DEF AddNewContentIntegration, DeleteContentIntegration, RecordStep
  <1>2. CASE \E C \in SUBSET Contents : DeleteUserIntegration(C)
    BY <1>2 DEF DeleteUserIntegration, RecordStep
  <1>3. CASE Crash \/ \E b \in Bots : StartThrows(b) \/ \E v \in Status : StatusWriteThrows(b, v)
    BY <1>3 DEF Crash, StartThrows, StatusWriteThrows
  <1>4. CASE \E k \in looked : StatusCallThrows(k)
    BY <1>4 DEF StatusCallThrows
  <1>5. CASE \E t \in Clients : ReplyThrows(t)
    BY <1>5 DEF ReplyThrows
  <1> QED BY <1>1, <1>2, <1>3, <1>4, <1>5 DEF Next, ProcessStep, RecordStep

(* A step of the process leaves the records alone.                         *)
LEMMA FrameOfProcess == ProcessStep => UNCHANGED <<records, marks, tidy>>
  BY DEF ProcessStep, Boot, LookUp, StartCall, DisableCall, StatusWriteLands, StatusCall,
         Connection, GetMeThrows, PollingError, StopReturns, StopRejects, Collect
(* A step that changes records leaves the process alone.                   *)
LEMMA FrameOfRecords == RecordStep => UNCHANGED <<proc, looked, registry, writes, serial, deaf>>
  BY DEF RecordStep, DeleteBot, AddNewBot, EditBot, Rewrites, MarkContent, SetContents,
         EditContentIntegration

(* The clients and the registry, whatever else the process does, by what   *)
(* is done to them.                                                        *)
LEMMA StepsOfClients ==
  ASSUME ProcessStep, TypeOK, Owned
  PROVE  \/ UNCHANGED <<registry, deaf>>
         \/ \E b \in Bots, t \in Clients :
              /\ ~Registered(b) /\ NewClient(b, t) /\ UNCHANGED <<bots, stops, deaf>>
         \/ \E t \in Clients : \/ Connection(t) \/ GetMeThrows(t)
                             \/ StopReturns(t) \/ StopRejects(t) \/ Collect(t)
         \/ \E b \in Bots : DisableBot(b, polling) /\ UNCHANGED <<bots, owner, deaf>>
         \/ \E t \in Clients :
              /\ t \in polling /\ owner[t] \in Bots
              /\ DisableBot(owner[t], polling \ {t}) /\ UNCHANGED <<bots, owner>>
              /\ deaf' = IF phase[t] = "asked" THEN deaf \cup {t} ELSE deaf
  <1>1. CASE Boot \/ \E b \in Bots : \/ \E op \in {"start", "disable"} : LookUp(b, op)
                                     \/ \E v \in Status : StatusWriteLands(b, v)
    BY <1>1 DEF Boot, LookUp, StatusWriteLands
  <1>2. CASE \E k \in looked : StatusCall(k)
    BY <1>2 DEF StatusCall
  <1>3. ASSUME NEW b \in Bots, StartCall(b)
        PROVE  \/ UNCHANGED <<registry, deaf>>
               \/ \E t \in Clients :
                    /\ ~Registered(b) /\ NewClient(b, t) /\ UNCHANGED <<bots, stops, deaf>>
    BY <1>3 DEF StartCall, NewClient, registry
  <1>4. ASSUME NEW b \in Bots, DisableCall(b)
        PROVE  DisableBot(b, polling) /\ UNCHANGED <<bots, owner, deaf>>
    BY <1>4 DEF DisableCall
  <1>5. ASSUME NEW t \in Clients, PollingError(t)
        PROVE  /\ t \in polling /\ owner[t] \in Bots
               /\ DisableBot(owner[t], polling \ {t}) /\ UNCHANGED <<bots, owner>>
               /\ deaf' = IF phase[t] = "asked" THEN deaf \cup {t} ELSE deaf
    BY <1>5 DEF PollingError, StopsBot, Owned
  <1> QED BY <1>1, <1>2, <1>3, <1>4, <1>5, ProcessStep DEF ProcessStep

-----------------------------------------------------------------------------
(* Every step keeps clients owned, and registered clients heard.           *)
LEMMA ListeningInductive ==
  TypeOK /\ Owned /\ Listening /\ [Next]_vars => Owned' /\ Listening'
  <1> SUFFICES ASSUME TypeOK, Owned, Listening, [Next]_vars PROVE Owned' /\ Listening'
    OBVIOUS
  <1> USE TelegramAssumption
  <1>1. CASE Dies
    BY <1>1 DEF Dies, Owned, Listening, RegisteredBotHears
  <1>2. CASE UNCHANGED <<registry, deaf>>
    BY <1>2 DEF registry, Owned, Listening, RegisteredBotHears
  <1>3. ASSUME NEW b \in Bots, NEW t \in Clients,
               ~Registered(b), NewClient(b, t), UNCHANGED <<bots, stops, deaf>>
        PROVE  Owned' /\ Listening'
    <2>1. /\ phase[t] = "unused" /\ owner' = [owner EXCEPT ![t] = b]
          /\ phase' = [phase EXCEPT ![t] = "asked"] /\ polling' = polling \cup {t}
      BY <1>3 DEF NewClient
    <2>2. Owned'
      BY <1>3, <2>1 DEF Owned, TypeOK
    <2>3. \A d \in Bots : bots[d] # t
      BY <2>1 DEF TypeOK, Registered
    <2>4. RegisteredBotHears'
      BY <1>3, <2>1, <2>3 DEF Listening, RegisteredBotHears, TypeOK
    <2> QED BY <1>3, <2>1, <2>2, <2>4 DEF Listening, TypeOK
  <1>4. ASSUME NEW t \in Clients, Connection(t) PROVE Owned' /\ Listening'
    <2>1. /\ phase[t] = "asked" /\ phase' = [phase EXCEPT ![t] = "known"]
          /\ bots' = [bots EXCEPT ![owner[t]] = t]
          /\ UNCHANGED <<owner, polling, stops, deaf>>
      BY <1>4 DEF Connection
    <2>2. Owned'
      BY <2>1 DEF Owned
    <2>3. RegisteredBotHears'
      BY <2>1 DEF Listening, RegisteredBotHears, TypeOK
    <2> QED BY <2>1, <2>2, <2>3 DEF Listening, TypeOK
  <1>5. ASSUME NEW t \in Clients, GetMeThrows(t) PROVE Owned' /\ Listening'
    BY <1>5 DEF GetMeThrows, Owned, Listening, RegisteredBotHears, TypeOK, Registered
  <1>6. ASSUME NEW t \in Clients, StopReturns(t) PROVE Owned' /\ Listening'
    <2>1. /\ stops' = [stops EXCEPT ![t] = @ - 1] /\ bots' = [bots EXCEPT ![owner[t]] = None]
          /\ UNCHANGED <<owner, phase, polling, deaf>> /\ owner[t] \in Bots /\ stops[t] > 0
      BY <1>6 DEF StopReturns, Owned
    <2>2. Owned'
      BY <2>1 DEF Owned, TypeOK
    <2>3. RegisteredBotHears'
      BY <2>1 DEF Listening, RegisteredBotHears, TypeOK, Registered
    <2> QED BY <2>1, <2>2, <2>3 DEF Listening
  <1>a. ASSUME NEW t \in Clients, StopRejects(t) PROVE Owned' /\ Listening'
    BY <1>a DEF StopRejects, Owned, Listening, RegisteredBotHears, TypeOK, Registered
  <1>7. ASSUME NEW t \in Clients, Collect(t) PROVE Owned' /\ Listening'
    <2>1. \A d \in Bots : bots[d] # t
      BY <1>7 DEF Collect, TypeOK, Registered
    <2>2. Owned'
      BY <1>7 DEF Collect, Owned, TypeOK
    <2>3. RegisteredBotHears'
      BY <1>7, <2>1 DEF Collect, Listening, RegisteredBotHears, TypeOK
    <2> QED BY <1>7, <2>2, <2>3 DEF Collect, Listening, TypeOK
  <1>8. ASSUME NEW b \in Bots, NEW P \in SUBSET polling, DisableBot(b, P),
               UNCHANGED <<bots, owner>>,
               \A t \in polling \ P : bots[b] = t \/ \A d \in Bots : bots[d] # t,
               deaf \subseteq deaf', \A t \in polling \ P : phase[t] = "asked" => t \in deaf'
        PROVE  Owned' /\ Listening'
    <2>1. \/ /\ Registered(b) /\ bots[b] \in Clients /\ stops[bots[b]] + 1 \in 0..MaxStops
             /\ phase' = [phase EXCEPT ![bots[b]] = "off"]
             /\ polling' = P \ {bots[b]}
             /\ stops' = [stops EXCEPT ![bots[b]] = @ + 1]
          \/ ~Registered(b) /\ polling' = P /\ UNCHANGED <<writes, phase, stops>>
      BY <1>8, Disabling DEF TypeOK
    <2>2. CASE ~Registered(b)
      BY <1>8, <2>1, <2>2 DEF Owned, Listening, RegisteredBotHears, TypeOK, Registered
    <2>3. CASE Registered(b)
      <3>1. Owned'
        BY <1>8, <2>1, <2>3 DEF Owned, TypeOK, Registered
      <3>2. RegisteredBotHears'
        BY <1>8, <2>1, <2>3 DEF Listening, RegisteredBotHears, TypeOK, Registered
      <3> QED BY <1>8, <2>1, <2>3, <3>1, <3>2 DEF Listening, TypeOK
    <2> QED BY <2>2, <2>3
  <1>9. ASSUME NEW b \in Bots, DisableBot(b, polling), UNCHANGED <<bots, owner, deaf>>
        PROVE  Owned' /\ Listening'
    BY <1>9, <1>8
  <1>10. ASSUME NEW t \in Clients, t \in polling, owner[t] \in Bots,
                DisableBot(owner[t], polling \ {t}), UNCHANGED <<bots, owner>>,
                deaf' = IF phase[t] = "asked" THEN deaf \cup {t} ELSE deaf
         PROVE  Owned' /\ Listening'
    <2>1. \A d \in Bots : bots[d] = t => d = owner[t]
      BY DEF TypeOK, Registered
    <2>2. polling \ {t} \in SUBSET polling
      OBVIOUS
    <2> QED BY <1>10, <2>1, <2>2, <1>8
  <1>11. CASE ProcessStep
    BY <1>11, StepsOfClients, <1>2, <1>3, <1>4, <1>5, <1>6, <1>a, <1>7, <1>9, <1>10
  <1>12. CASE RecordStep \/ UNCHANGED vars
    BY <1>12, <1>2, FrameOfRecords DEF vars
  <1> QED BY <1>1, <1>11, <1>12, KindsOfSteps

-----------------------------------------------------------------------------
(* A row that is not yet made stays without client, call and update.       *)
LEMMA BlankStays ==
  ASSUME TypeOK, Owned, NEW b \in Bots, row[b] = "new", Blank(b), ProcessStep
  PROVE  Blank(b)'
  <1> USE TelegramAssumption
  <1>1. CASE Boot
    BY <1>1 DEF Boot, Hosted, Has, registry, Blank, Registered, ClientsOf
  <1>2. ASSUME NEW d \in Bots, NEW op \in {"start", "disable"}, LookUp(d, op) PROVE Blank(b)'
    BY <1>2 DEF LookUp, Has, registry, Blank, Registered, ClientsOf
  <1>3. ASSUME NEW d \in Bots, StartCall(d) PROVE Blank(b)'
    <2>1. d # b
      BY <1>3 DEF StartCall, Blank
    <2>2. PICK t \in Clients : NewClient(d, t)
      BY <1>3 DEF StartCall
    <2>3. owner' = owner \/ owner' = [owner EXCEPT ![t] = d]
      BY <2>2 DEF NewClient
    <2>4. ClientsOf(b)' = {}
      BY <2>1, <2>3 DEF Blank, ClientsOf, TypeOK
    <2> QED BY <1>3, <2>4 DEF StartCall, Blank, Registered
  <1>4. ASSUME NEW d \in Bots, NEW P \in SUBSET Clients, DisableBot(d, P),
               UNCHANGED <<bots, owner>>, looked' \subseteq looked, d # b
        PROVE  Blank(b)'
    <2>1. writes'[b] = writes[b]
      BY <1>4, Disabling, WriteIssued DEF IssueWrite, TypeOK
    <2> QED BY <1>4, <2>1 DEF Blank, Registered, ClientsOf
  <1>5. ASSUME NEW d \in Bots, DisableCall(d) PROVE Blank(b)'
    <2>1. d # b
      BY <1>5 DEF DisableCall, Blank
    <2> QED BY <1>5, <2>1, <1>4 DEF DisableCall, TypeOK
  <1>6. ASSUME NEW d \in Bots, NEW v \in Status, StatusWriteLands(d, v) PROVE Blank(b)'
    <2>1. d # b
      BY <1>6 DEF StatusWriteLands, Blank, NoWrites
    <2> QED BY <1>6, <2>1 DEF StatusWriteLands, registry, Blank, Registered, ClientsOf, TypeOK
  <1>7. ASSUME NEW k \in looked, StatusCall(k) PROVE Blank(b)'
    BY <1>7 DEF StatusCall, registry, Blank, Registered, ClientsOf
  <1>8. ASSUME NEW t \in Clients, Connection(t) PROVE Blank(b)'
    <2>1. owner[t] \in Bots /\ owner[t] # b
      BY <1>8 DEF Connection, TypeOK, Blank, ClientsOf
    <2> QED BY <1>8, <2>1 DEF Connection, IssueWrite, Blank, Registered, ClientsOf, TypeOK
  <1>9. ASSUME NEW t \in Clients, GetMeThrows(t) PROVE Blank(b)'
    BY <1>9 DEF GetMeThrows, Blank, Registered, ClientsOf
  <1>10. ASSUME NEW t \in Clients, PollingError(t) PROVE Blank(b)'
    <2>1. owner[t] # b /\ owner[t] \in Bots
      BY <1>10 DEF PollingError, Owned, Blank, ClientsOf
    <2>2. polling \ {t} \in SUBSET Clients
      BY DEF TypeOK
    <2> QED BY <1>10, <2>1, <2>2, <1>4 DEF PollingError, StopsBot
  <1>11. ASSUME NEW t \in Clients, StopReturns(t) PROVE Blank(b)'
    BY <1>11 DEF StopReturns, Blank, Registered, ClientsOf, TypeOK
  <1>a. ASSUME NEW t \in Clients, StopRejects(t) PROVE Blank(b)'
    BY <1>a DEF StopRejects, Blank, Registered, ClientsOf, TypeOK
  <1>12. ASSUME NEW t \in Clients, Collect(t) PROVE Blank(b)'
    BY <1>12 DEF Collect, Blank, Registered, ClientsOf, TypeOK
  <1> HIDE TelegramAssumption
  <1> QED BY <1>1, <1>2, <1>3, <1>5, <1>6, <1>7, <1>8, <1>9, <1>10, <1>11, <1>a, <1>12
         DEF ProcessStep

(* A process that is down takes no step but a start.                       *)
LEMMA DownOnlyBoots ==
  ASSUME TypeOK, proc = "down", FreshMemory, ProcessStep
  PROVE  proc' = "up"
  <1> QED BY DEF FreshMemory, ProcessStep, Boot, LookUp, StartCall, DisableCall, StatusWriteLands,
                 StatusCall, Connection, GetMeThrows, PollingError, StopReturns, StopRejects, Collect, NoWrites

(* Every step keeps the memory of a process that is down fresh, the active *)
(* bots in the database, and everything behind a row that was made.        *)
LEMMA RootedInductive == TypeOK /\ Owned /\ Rooted /\ [Next]_vars => Rooted'
  <1> SUFFICES ASSUME TypeOK, Owned, Rooted, [Next]_vars PROVE Rooted'
    OBVIOUS
  <1>1. CASE Dies
    <2>1. FreshMemory'
      BY <1>1, DeathIsFresh
    <2>2. \A b \in Bots : Blank(b)'
      BY <2>1, TelegramAssumption DEF FreshMemory, Blank, Registered, ClientsOf
    <2> QED BY <1>1, <2>1, <2>2 DEF Dies, records, Rooted, Has
  <1>2. CASE ProcessStep
    <2>1. row' = row
      BY <1>2, FrameOfProcess DEF records
    <2>2. proc' = "up"
      BY <1>2, DownOnlyBoots DEF ProcessStep, Rooted, TypeOK, Boot, LookUp, StartCall, DisableCall,
         StatusWriteLands, StatusCall, Connection, GetMeThrows, PollingError, StopReturns, StopRejects, Collect
    <2>3. \A b \in active' : Has(b)'
      BY <1>2, <2>1 DEF Rooted, Has, ProcessStep, Boot, LookUp, StartCall, DisableCall,
         StatusWriteLands, StatusCall, Connection, GetMeThrows, PollingError, StopReturns, StopRejects, Collect
    <2> QED BY <1>2, <2>1, <2>2, <2>3, BlankStays DEF Rooted
  <1>3. CASE RecordStep
    <2>1. UNCHANGED <<proc, looked, registry, writes, serial, deaf>>
      BY <1>3, FrameOfRecords
    <2>2. proc = "down" => marks' = {}
      BY <1>3 DEF Rooted, FreshMemory, RecordStep, DeleteBot, AddNewBot, EditBot, Rewrites,
                  MarkContent, SetContents, EditContentIntegration
    <2>3. /\ \A b \in Bots : row'[b] = "new" => row[b] = "new"
          /\ \A b \in active' : (b \in active /\ row'[b] = row[b]) \/ Has(b)'
      <3>1. ASSUME NEW b \in Bots, NEW e \in {"there", "gone"}, row' = [row EXCEPT ![b] = e],
                   \/ active' = active \ {b}
                   \/ e = "there" /\ active' = active
            PROVE  /\ \A d \in Bots : row'[d] = "new" => row[d] = "new"
                   /\ \A d \in active' : (d \in active /\ row'[d] = row[d]) \/ Has(d)'
        BY <3>1 DEF TypeOK, Has
      <3>2. CASE \E b \in Bots : \/ DeleteBot(b)
                                 \/ \E c \in Contents \cup {None} : AddNewBot(b, c) \/ EditBot(b, c)
        BY <3>1, <3>2 DEF DeleteBot, AddNewBot, EditBot, Rewrites
      <3>3. CASE UNCHANGED <<row, active>>
        BY <3>3
      <3> QED BY <1>3, <3>2, <3>3 DEF RecordStep, MarkContent, SetContents, EditContentIntegration
    <2> QED BY <2>1, <2>2, <2>3 DEF Rooted, FreshMemory, registry, Blank, Registered, ClientsOf, Has
  <1>4. CASE UNCHANGED vars
    BY <1>4 DEF vars, records, registry, Rooted, FreshMemory, Blank, Registered, ClientsOf, Has
  <1> QED BY <1>1, <1>2, <1>3, <1>4, KindsOfSteps

-----------------------------------------------------------------------------
(* What a content's bots and marks say of it depends on nothing else.      *)
LEMMA OneBotFrame ==
  ASSUME NEW c \in Contents, OneBot(c),
         \A b \in Bots : UsedBy(b, c)' <=> UsedBy(b, c),
         \A k \in marks' : k.content = c => k \in marks,
         \A k \in marks : k.content = c => k \in marks',
         Exists(c)' => Exists(c) /\ (c \in isUsed' <=> c \in isUsed)
  PROVE  OneBot(c)'
  BY DEF OneBot, Marked

(* addNewBot: the one bot, and the mark TRUE of it.                        *)
LEMMA AddIsTidy ==
  ASSUME TypeOK, TidyInv, NEW b \in Bots, NEW c \in Contents \cup {None}, AddNewBot(b, c)
  PROVE  TidyInv'
  <1> USE TelegramAssumption
  <1> DEFINE k == [bot |-> b, content |-> c, value |-> TRUE]
  <1>1. /\ row[b] = "new" /\ (c # None => Exists(c)) /\ row' = [row EXCEPT ![b] = "there"]
        /\ uses' = [uses EXCEPT ![b] = c] /\ UNCHANGED <<content, isUsed>>
        /\ marks' = marks \cup Marking(b, c, TRUE) /\ Untidy(c, b)
    BY DEF AddNewBot, Rewrites, Offered
  <1>2. marks' = IF c = None THEN marks ELSE marks \cup {k}
    BY <1>1 DEF Marking
  <1>3. \A d \in Contents : d # c => \A x \in marks' : x.content = d => x \in marks
    BY <1>2
  <1>4. \A d \in Contents : d # c => \A a \in Bots : UsedBy(a, d)' <=> UsedBy(a, d)
    BY <1>1 DEF UsedBy, Has, TypeOK
  <1>5. UnusedWhenNew'
    <2>1. \A d \in Contents : content[d] = "new" => d # c
      BY <1>1 DEF Exists, Kinds
    <2> QED BY <1>1, <1>3, <2>1 DEF TidyInv, UnusedWhenNew, Marked, TypeOK
  <1>6. ASSUME NEW d \in tidy', d # c PROVE OneBot(d)'
    <2>1. d \in tidy /\ d \in Contents
      BY <1>1 DEF Untidy, TypeOK
    <2> QED BY <1>1, <1>2, <1>3, <1>4, <1>6, <2>1, OneBotFrame DEF TidyInv, Exists
  <1>7. ASSUME c \in tidy' PROVE OneBot(c)'
    <2>1. c \in tidy /\ c \in Contents /\ ~SharedWith(c, b) /\ ~Marked(c)
      BY <1>1, <1>7 DEF Untidy, TypeOK, Marked
    <2>2. \A a \in Bots : UsedBy(a, c)' <=> a = b
      BY <1>1, <2>1 DEF UsedBy, Has, SharedWith, TypeOK
    <2>3. k \in marks' /\ \A x \in marks' : x.content = c <=> x = k
      BY <1>2, <2>1 DEF Marked
    <2>4. k.content = c /\ k.value = TRUE
      OBVIOUS
    <2> HIDE DEF k
    <2>5. Marked(c)'
      BY <2>3, <2>4 DEF Marked
    <2>6. k.value <=> \E a \in Bots : UsedBy(a, c)'
      BY <2>2, <2>4
    <2> QED BY <2>2, <2>3, <2>5, <2>6 DEF OneBot
  <1> QED BY <1>5, <1>6, <1>7 DEF TidyInv

(* deleteBot: no bot, and the mark FALSE of what it used.                  *)
LEMMA DeleteIsTidy ==
  ASSUME TypeOK, TidyInv, NEW b \in Bots, DeleteBot(b)
  PROVE  TidyInv'
  <1> USE TelegramAssumption
  <1> SUFFICES ASSUME NEW c, c = uses[b] PROVE TidyInv'
    OBVIOUS
  <1> DEFINE k == [bot |-> b, content |-> c, value |-> FALSE]
  <1>1. /\ Has(b) /\ row' = [row EXCEPT ![b] = "gone"]
        /\ uses' = [uses EXCEPT ![b] = None] /\ UNCHANGED <<content, isUsed>>
        /\ marks' = marks \cup Marking(b, c, FALSE) /\ Untidy(c, b)
        /\ c \in Contents \cup {None}
    BY DEF DeleteBot, Rewrites, TypeOK
  <1>2. marks' = IF c = None THEN marks ELSE marks \cup {k}
    BY <1>1 DEF Marking
  <1>3. \A d \in Contents : d # c => \A x \in marks' : x.content = d => x \in marks
    BY <1>2
  <1>4. \A d \in Contents : d # c => \A a \in Bots : UsedBy(a, d)' <=> UsedBy(a, d)
    BY <1>1 DEF UsedBy, Has, TypeOK
  <1>5. UnusedWhenNew'
    <2>1. \A d \in Contents : content[d] = "new" => d # c
      BY <1>1 DEF TidyInv, UnusedWhenNew
    <2> QED BY <1>1, <1>3, <2>1 DEF TidyInv, UnusedWhenNew, Marked, TypeOK
  <1>6. ASSUME NEW d \in tidy', d # c PROVE OneBot(d)'
    <2>1. d \in tidy /\ d \in Contents
      BY <1>1 DEF Untidy, TypeOK
    <2> QED BY <1>1, <1>2, <1>3, <1>4, <1>6, <2>1, OneBotFrame DEF TidyInv, Exists
  <1>7. ASSUME c \in tidy' PROVE OneBot(c)'
    <2>1. c \in tidy /\ c \in Contents /\ ~SharedWith(c, b) /\ ~Marked(c)
      BY <1>1, <1>7 DEF Untidy, TypeOK, Marked
    <2>2. \A a \in Bots : ~UsedBy(a, c)'
      BY <1>1, <2>1 DEF UsedBy, Has, SharedWith, TypeOK
    <2>3. k \in marks' /\ \A x \in marks' : x.content = c <=> x = k
      BY <1>2, <2>1 DEF Marked
    <2>4. k.content = c /\ k.value = FALSE
      OBVIOUS
    <2> HIDE DEF k
    <2>5. Marked(c)'
      BY <2>3, <2>4 DEF Marked
    <2>6. k.value <=> \E a \in Bots : UsedBy(a, c)'
      BY <2>2, <2>4
    <2> QED BY <2>2, <2>3, <2>5, <2>6 DEF OneBot
  <1> QED BY <1>5, <1>6, <1>7 DEF TidyInv

(* editBot gives up on both contents.                                      *)
LEMMA EditIsTidy ==
  ASSUME TypeOK, TidyInv, NEW b \in Bots, NEW c \in Contents \cup {None}, EditBot(b, c)
  PROVE  TidyInv'
  <1>1. /\ Has(b) /\ (c # None => Exists(c)) /\ row' = [row EXCEPT ![b] = "there"]
        /\ uses' = [uses EXCEPT ![b] = c] /\ UNCHANGED <<content, isUsed, marks>>
        /\ tidy' = tidy \ {c, uses[b]}
    BY DEF EditBot, Rewrites, Offered
  <1>2. UnusedWhenNew'
    BY <1>1, TelegramAssumption DEF TidyInv, UnusedWhenNew, Marked, TypeOK, Exists, Kinds
  <1>3. ASSUME NEW d \in tidy' PROVE OneBot(d)'
    <2>1. \A a \in Bots : UsedBy(a, d)' <=> UsedBy(a, d)
      BY <1>1, <1>3 DEF UsedBy, Has, TypeOK
    <2>2. d \in tidy /\ d \in Contents
      BY <1>1 DEF TypeOK
    <2> QED BY <1>1, <2>1, <2>2, OneBotFrame DEF TidyInv, Exists
  <1> QED BY <1>2, <1>3 DEF TidyInv

(* The mark is written.                                                    *)
LEMMA MarkIsTidy ==
  ASSUME TypeOK, TidyInv, NEW k \in marks, MarkContent(k)
  PROVE  TidyInv'
  <1>1. /\ marks' = marks \ {k} /\ UNCHANGED <<row, uses, content, tidy>>
        /\ isUsed' = IF ~Exists(k.content) THEN isUsed
                     ELSE IF k.value THEN isUsed \cup {k.content}
                     ELSE isUsed \ {k.content}
        /\ k.content \in Contents
    BY DEF MarkContent, TypeOK, Mark
  <1>2. UnusedWhenNew'
    BY <1>1 DEF TidyInv, UnusedWhenNew, Marked, Exists, Kinds
  <1>3. \A a \in Bots : \A d \in Contents : UsedBy(a, d)' <=> UsedBy(a, d)
    BY <1>1 DEF UsedBy, Has
  <1>4. ASSUME NEW d \in tidy', d # k.content PROVE OneBot(d)'
    BY <1>1, <1>3, <1>4, OneBotFrame DEF TidyInv, Exists, TypeOK
  <1>5. ASSUME k.content \in tidy' PROVE OneBot(k.content)'
    <2>1. OneBot(k.content)
      BY <1>1, <1>5 DEF TidyInv
    <2>2. \A l \in marks' : l.content # k.content
      BY <1>1, <2>1 DEF OneBot
    <2>3. Exists(k.content)' => (k.content \in isUsed' <=> k.value)
      BY <1>1 DEF Exists
    <2>4. k.value <=> \E a \in Bots : UsedBy(a, k.content)
      BY <2>1 DEF OneBot
    <2> QED BY <1>1, <1>3, <2>1, <2>2, <2>3, <2>4 DEF OneBot
  <1> QED BY <1>2, <1>4, <1>5 DEF TidyInv

(* Contents are made or deleted.                                           *)
LEMMA ContentsAreTidy ==
  ASSUME TypeOK, TidyInv, NEW C \in SUBSET Contents, NEW s \in Kinds \cup {"gone"},
         (\A c \in C : content[c] = "new" /\ s \in Kinds) \/ (\A c \in C : Exists(c) /\ s = "gone"),
         SetContents(C, s)
  PROVE  TidyInv'
  <1>1. /\ UNCHANGED <<row, uses, marks, tidy>> /\ isUsed' = isUsed \ C
        /\ \A c \in Contents : content'[c] = IF c \in C THEN s ELSE content[c]
    BY DEF SetContents
  <1>2. UnusedWhenNew'
    BY <1>1 DEF TidyInv, UnusedWhenNew, Marked, Kinds
  <1>3. \A a \in Bots : \A d \in Contents : UsedBy(a, d)' <=> UsedBy(a, d)
    BY <1>1 DEF UsedBy, Has
  <1>4. ASSUME NEW d \in tidy' PROVE OneBot(d)'
    <2>1. d \in tidy /\ d \in Contents /\ OneBot(d)
      BY <1>1 DEF TypeOK, TidyInv
    <2>2. CASE d \notin C \/ s = "gone"
      <3>1. Exists(d)' => Exists(d) /\ (d \in isUsed' <=> d \in isUsed)
        BY <1>1, <2>1, <2>2 DEF Exists, Kinds
      <3> QED BY <1>1, <1>3, <2>1, <3>1, OneBotFrame
    <2>3. CASE d \in C /\ content[d] = "new"
      <3>1. ~Marked(d) /\ \A a \in Bots : ~UsedBy(a, d)
        BY <2>1, <2>3 DEF TidyInv, UnusedWhenNew, UsedBy
      <3> QED BY <1>1, <1>3, <2>1, <2>3, <3>1 DEF OneBot, Marked
    <2> QED BY <2>2, <2>3
  <1> QED BY <1>2, <1>4 DEF TidyInv

(* Every step keeps the marks of contents in order.                        *)
LEMMA TidyInductive == TypeOK /\ TidyInv /\ [Next]_vars => TidyInv'
  <1> SUFFICES ASSUME TypeOK, TidyInv, [Next]_vars PROVE TidyInv'
    OBVIOUS
  <1>1. CASE Dies
    <2>1. /\ UNCHANGED records /\ marks' = {} /\ tidy' = tidy \ {k.content : k \in marks}
      BY <1>1 DEF Dies
    <2>2. UnusedWhenNew'
      BY <2>1 DEF records, TidyInv, UnusedWhenNew, Marked
    <2>3. \A a \in Bots : \A d \in Contents : UsedBy(a, d)' <=> UsedBy(a, d)
      BY <2>1 DEF UsedBy, Has, records
    <2>4. ASSUME NEW d \in tidy' PROVE OneBot(d)'
      <3>1. d \in tidy /\ d \in Contents /\ ~Marked(d)
        BY <2>1 DEF TypeOK, Marked
      <3> QED BY <2>1, <2>3, <3>1, OneBotFrame DEF TidyInv, Exists, records, Marked
    <2> QED BY <2>2, <2>4 DEF TidyInv
  <1>2. CASE UNCHANGED <<records, marks, tidy>>
    <2>1. \A a \in Bots : \A d \in Contents : UsedBy(a, d)' <=> UsedBy(a, d)
      BY <1>2 DEF UsedBy, Has, records
    <2>2. \A d \in tidy' : OneBot(d)'
      BY <1>2, <2>1, OneBotFrame DEF TypeOK, TidyInv, Exists, records
    <2> QED BY <1>2, <2>2 DEF records, TidyInv, UnusedWhenNew, Marked
  <1>3. CASE \E c \in Contents : EditContentIntegration(c)
    <2>1. PICK c \in Contents : EditContentIntegration(c)
      BY <1>3
    <2>2. /\ UNCHANGED <<row, uses, isUsed, marks, tidy>> /\ Exists(c)
          /\ content' = [content EXCEPT ![c] = CHOOSE kind \in Kinds : kind # @]
      BY <2>1 DEF EditContentIntegration
    <2>3. \A d \in Contents : (Exists(d)' <=> Exists(d)) /\ (content'[d] = "new" <=> content[d] = "new")
      BY <2>2 DEF Exists, Kinds, TypeOK
    <2>4. \A a \in Bots : \A d \in Contents : UsedBy(a, d)' <=> UsedBy(a, d)
      BY <2>2 DEF UsedBy, Has
    <2>5. \A d \in tidy' : OneBot(d)'
      BY <2>2, <2>3, <2>4, OneBotFrame DEF TypeOK, TidyInv
    <2> QED BY <2>2, <2>3, <2>5 DEF TidyInv, UnusedWhenNew, Marked
  <1>4. CASE RecordStep
    BY <1>3, <1>4, AddIsTidy, DeleteIsTidy, EditIsTidy, MarkIsTidy, ContentsAreTidy DEF RecordStep
  <1>5. CASE ProcessStep
    BY <1>2, <1>5, FrameOfProcess
  <1>6. CASE UNCHANGED vars
    BY <1>2, <1>6 DEF vars
  <1> QED BY <1>1, <1>4, <1>5, <1>6, KindsOfSteps

-----------------------------------------------------------------------------
(* No update in flight means none of either value.                         *)
LEMMA NoneInFlight ==
  ASSUME NEW f \in [Status -> 0..MaxWrites]
  PROVE  f = NoWrites <=> f["on"] = 0 /\ f["off"] = 0
  BY TelegramAssumption DEF Status, NoWrites

(* The order on a bot depends on its own calls, clients and updates only;  *)
(* a client of it that is not asked, lost or awaited may be forgotten.     *)
LEMMA OrderFrame ==
  ASSUME NEW b \in Bots, Orderly(b), TypeOK, TypeOK',
         \A k \in looked' : k.bot = b => k \in looked,
         \A k \in looked : k.bot = b => k \in looked',
         ClientsOf(b)' \subseteq ClientsOf(b),
         \A t \in ClientsOf(b) \ ClientsOf(b)' : stops[t] = 0 /\ phase[t] \notin {"asked", "lost"},
         \A t \in ClientsOf(b)' :
           stops'[t] = stops[t] /\ phase'[t] = phase[t] /\ (t \in polling' <=> t \in polling),
         bots'[b] = bots[b], writes'[b] = writes[b], b \in active' <=> b \in active
  PROVE  Orderly(b)' /\ (Truthful(b) => Truthful(b)')
  <1>1. Registered(b)' <=> Registered(b)
    BY DEF Registered
  <1>2. OneCall(b)'
    BY DEF Orderly, OneCall, Calm
  <1>3. OneAsked(b)'
    BY <1>1 DEF Orderly, OneAsked
  <1>4. OneStopped(b)'
    BY DEF Orderly, OneStopped
  <1>5. OneClient(b)'
    BY DEF Orderly, OneClient
  <1>6. Registered(b) => stops'[bots'[b]] = stops[bots[b]]
    BY DEF TypeOK, Registered, ClientsOf
  <1>7. OneWrite(b)'
    BY <1>1, <1>6 DEF Orderly, OneWrite
  <1>8. Busy(b)' <=> Busy(b)
    BY DEF Busy
  <1>9. Truthful(b) => Truthful(b)'
    BY <1>1, <1>8 DEF Truthful
  <1> QED BY <1>2, <1>3, <1>4, <1>5, <1>7, <1>9 DEF Orderly

(* A client that is not in use is not anywhere.                            *)
LEMMA UnusedIsIdle ==
  ASSUME TypeOK, Owned, NEW t \in Clients, phase[t] = "unused"
  PROVE  owner[t] = None /\ stops[t] = 0 /\ t \notin polling
  BY TelegramAssumption DEF TypeOK, Owned

(* startBot of b: its client was there, or the new one is its only one.    *)
LEMMA StartIsOrderly ==
  ASSUME TypeOK, TypeOK', Owned, Listening, NEW b \in Bots, Orderly(b), StartCall(b)
  PROVE  Orderly(b)' /\ (Truthful(b) => Truthful(b)')
  <1> DEFINE k == [bot |-> b, op |-> "start"]
  <1>1. k \in looked /\ looked' = looked \ {k} /\ k.bot = b
    BY DEF StartCall
  <1>2. /\ UNCHANGED <<active, bots, stops, writes>>
        /\ \A l \in looked' : l.bot # b
    BY <1>1 DEF StartCall, Orderly, OneCall
  <1>3. writes[b] = NoWrites /\ Calm(b)
    BY <1>1 DEF Orderly, OneCall
  <1>4. OneCall(b)'
    BY <1>2 DEF OneCall
  <1>5. PICK t \in Clients : NewClient(b, t)
    BY DEF StartCall
  <1>6. CASE Registered(b)
    <2>1. UNCHANGED <<owner, phase, polling>> /\ Registered(b)'
      BY <1>2, <1>5, <1>6 DEF NewClient, Registered
    <2>2. OneAsked(b)' /\ OneStopped(b)' /\ OneClient(b)' /\ OneWrite(b)'
      BY <1>2, <2>1 DEF Orderly, OneAsked, OneStopped, OneClient, OneWrite, ClientsOf, Registered
    <2>3. Truthful(b) => (Registered(b) <=> b \in active)
      BY <1>1, <1>6 DEF Truthful
    <2>4. Truthful(b) => Truthful(b)'
      BY <1>2, <1>3, <2>1, <2>3 DEF Truthful, Calm, ClientsOf, Registered
    <2> QED BY <1>4, <2>2, <2>4 DEF Orderly
  <1>7. CASE ~Registered(b)
    <2>1. /\ phase[t] = "unused" /\ owner' = [owner EXCEPT ![t] = b]
          /\ phase' = [phase EXCEPT ![t] = "asked"] /\ polling' = polling \cup {t}
      BY <1>5, <1>7 DEF NewClient
    <2>2. ClientsOf(b)' = ClientsOf(b) \cup {t} /\ t \notin ClientsOf(b) /\ stops[t] = 0
      BY <2>1, UnusedIsIdle, TelegramAssumption DEF ClientsOf, TypeOK
    <2>3. \A u \in ClientsOf(b) : u \notin polling
      BY <1>3, <1>7, TelegramAssumption
         DEF Orderly, OneClient, Calm, Listening, TypeOK, Phases, ClientsOf, Registered
    <2>4. /\ ~Registered(b)' /\ phase'[t] = "asked"
          /\ \A u \in ClientsOf(b)' : stops'[u] = 0 /\ (u # t => u \notin polling' /\ phase'[u] \notin {"asked", "lost"})
      BY <1>2, <1>3, <1>7, <2>1, <2>2, <2>3 DEF TypeOK, Registered, Calm, ClientsOf
    <2>5. OneAsked(b)' /\ OneStopped(b)' /\ OneClient(b)'
      BY <1>2, <1>3, <2>4 DEF OneAsked, OneStopped, OneClient
    <2>6. OneWrite(b)'
      BY <1>2, <1>3, NoneInFlight DEF OneWrite, TypeOK
    <2>7. Busy(b)'
      BY <2>2, <2>4 DEF Busy
    <2>8. Truthful(b)'
      BY <1>2, <2>4, <2>7 DEF Truthful
    <2> QED BY <1>4, <2>5, <2>6, <2>8 DEF Orderly
  <1> QED BY <1>6, <1>7

(* getMe answers: b is registered and the update is on its way.            *)
LEMMA ConnectionIsOrderly ==
  ASSUME TypeOK, TypeOK', Owned, Listening, NEW b \in Bots, Orderly(b),
         NEW t \in Clients, owner[t] = b, Connection(t)
  PROVE  Orderly(b)' /\ Truthful(b)'
  <1>1. /\ phase[t] = "asked" /\ phase' = [phase EXCEPT ![t] = "known"]
        /\ bots' = [bots EXCEPT ![b] = t] /\ IssueWrite(b, "on") /\ t \in ClientsOf(b)
        /\ UNCHANGED <<active, looked, owner, polling, stops>>
    BY DEF Connection, ClientsOf
  <1>2. /\ writes[b] = NoWrites /\ \A u \in ClientsOf(b) : stops[u] = 0 /\ (u # t => u \notin polling /\ phase[u] # "asked")
    BY <1>1 DEF Orderly, OneAsked
  <1>3. writes'[b]["on"] = 1 /\ writes'[b]["off"] = 0 /\ writes'[b] # NoWrites
    <2>1. writes'[b]["on"] = writes[b]["on"] + 1 /\ writes'[b]["off"] = writes[b]["off"]
      BY <1>1, WriteIssued DEF Status
    <2> QED BY <1>2, <2>1 DEF NoWrites, Status
  <1>4. /\ ClientsOf(b)' = ClientsOf(b) /\ Registered(b)' /\ bots'[b] = t /\ phase'[t] = "known"
        /\ \A u \in ClientsOf(b) : u # t => phase'[u] = phase[u]
    BY <1>1, TelegramAssumption DEF ClientsOf, Registered, TypeOK
  <1>5. OneCall(b)'
    BY <1>1 DEF Orderly, OneCall, Calm
  <1>6. OneAsked(b)' /\ OneStopped(b)' /\ OneClient(b)'
    BY <1>1, <1>2, <1>4 DEF Orderly, OneAsked, OneStopped, OneClient
  <1>7. OneWrite(b)'
    BY <1>1, <1>2, <1>3, <1>4 DEF OneWrite
  <1>8. Busy(b)' /\ \A k \in looked' : k.bot # b
    BY <1>1, <1>3 DEF Busy, Orderly, OneCall, Calm
  <1>9. Truthful(b)'
    BY <1>3, <1>8 DEF Truthful
  <1> QED BY <1>5, <1>6, <1>7, <1>9 DEF Orderly

(* b is disabled while nothing else of it is under way: its client, if it  *)
(* has one, is silent and awaited, and the update is on its way.           *)
LEMMA DisableIsOrderly ==
  ASSUME TypeOK, TypeOK', Owned, Listening, NEW b \in Bots, Orderly(b),
         NEW P \in SUBSET polling, DisableBot(b, P),
         \A t \in polling \ P : t \in ClientsOf(b) /\ (Registered(b) => t = bots[b]),
         writes[b] = NoWrites, Calm(b), UNCHANGED <<active, bots, owner>>,
         \A k \in looked' : k.bot # b
  PROVE  Orderly(b)' /\ ((b \in active <=> Registered(b)) => Truthful(b)')
  <1>1. ClientsOf(b)' = ClientsOf(b) /\ (Registered(b)' <=> Registered(b))
    BY DEF ClientsOf, Registered
  <1>2. OneCall(b)'
    BY DEF OneCall
  <1>3. CASE ~Registered(b)
    <2>1. polling' = P /\ UNCHANGED <<writes, phase, stops>>
      BY <1>3 DEF DisableBot
    <2>2. OneAsked(b)' /\ OneStopped(b)' /\ OneClient(b)' /\ OneWrite(b)'
      BY <1>1, <2>1 DEF Orderly, OneAsked, OneStopped, OneClient, OneWrite, Calm
    <2>3. (b \in active <=> Registered(b)) => Truthful(b)'
      BY <1>1, <2>1 DEF Truthful, Calm
    <2> QED BY <1>2, <2>2, <2>3 DEF Orderly
  <1>4. CASE Registered(b)
    <2>1. PICK t \in Clients : t = bots[b] /\ owner[t] = b
      BY <1>4 DEF Registered, TypeOK
    <2>2. /\ IssueWrite(b, "off") /\ phase' = [phase EXCEPT ![t] = "off"]
          /\ polling' = P \ {t} /\ stops' = [stops EXCEPT ![t] = @ + 1]
      BY <1>4, <2>1, Disabling DEF TypeOK
    <2>3. writes'[b]["off"] = 1 /\ writes'[b]["on"] = 0 /\ writes'[b] # NoWrites
      <3>1. writes'[b]["off"] = writes[b]["off"] + 1 /\ writes'[b]["on"] = writes[b]["on"]
        BY <2>2, WriteIssued DEF Status
      <3> QED BY <3>1 DEF NoWrites, Status
    <2>4. /\ t \in ClientsOf(b) /\ stops'[t] = 1 /\ phase'[t] = "off" /\ bots'[b] = t
          /\ \A u \in ClientsOf(b) : u # t => stops'[u] = 0 /\ phase'[u] = phase[u]
      BY <2>1, <2>2 DEF ClientsOf, Calm, TypeOK
    <2>5. \A u \in ClientsOf(b) : u \notin polling'
      BY <1>4, <2>1, <2>2, TelegramAssumption
         DEF Orderly, OneClient, Calm, Listening, TypeOK, Phases, ClientsOf
    <2>6. OneAsked(b)' /\ OneStopped(b)' /\ OneClient(b)' /\ OneWrite(b)'
      BY <1>1, <1>4, <2>3, <2>4, <2>5 DEF Orderly, OneAsked, OneStopped, OneClient, OneWrite, Calm
    <2>7. Busy(b)'
      BY <2>3 DEF Busy
    <2>8. Truthful(b)'
      BY <2>3, <2>7 DEF Truthful
    <2> QED BY <1>2, <2>6, <2>8 DEF Orderly
  <1> QED BY <1>3, <1>4

(* stopPolling() returns: the registry forgets the client that stopped.    *)
LEMMA StopIsOrderly ==
  ASSUME TypeOK, TypeOK', NEW b \in Bots, Orderly(b),
         NEW t \in Clients, owner[t] = b, StopReturns(t)
  PROVE  Orderly(b)' /\ (Truthful(b) => Truthful(b)')
  <1>1. /\ stops[t] > 0 /\ stops' = [stops EXCEPT ![t] = @ - 1] /\ bots' = [bots EXCEPT ![b] = None]
        /\ t \in ClientsOf(b) /\ UNCHANGED <<active, looked, owner, phase, polling, writes>>
    BY DEF StopReturns, ClientsOf
  <1>2. /\ stops[t] = 1 /\ \A u \in ClientsOf(b) : u \notin polling /\ (u # t => ~(stops[u] > 0))
    BY <1>1 DEF Orderly, OneStopped
  <1>3. /\ ClientsOf(b)' = ClientsOf(b) /\ ~Registered(b)' /\ bots'[b] = None
        /\ \A u \in ClientsOf(b) : stops'[u] = 0
    BY <1>1, <1>2 DEF ClientsOf, Registered, TypeOK
  <1>4. \A k \in looked : k.bot # b
    BY <1>1 DEF Orderly, OneCall, Calm
  <1>5. \A u \in ClientsOf(b) : phase[u] # "asked"
    BY <1>1 DEF Orderly, OneAsked
  <1>6. OneCall(b)' /\ OneAsked(b)' /\ OneStopped(b)' /\ OneClient(b)'
    BY <1>1, <1>2, <1>3, <1>4, <1>5 DEF Orderly, OneCall, OneAsked, OneStopped, OneClient
  <1>7. OneWrite(b)'
    BY <1>1, <1>3 DEF Orderly, OneWrite
  <1>8. Truthful(b) => Truthful(b)'
    BY <1>1, <1>3, <1>4 DEF Truthful, Busy
  <1> QED BY <1>6, <1>7, <1>8 DEF Orderly

(* An update of isActive lands: it was the only one.                       *)
LEMMA LandsIsOrderly ==
  ASSUME TypeOK, TypeOK', NEW b \in Bots, Orderly(b), NEW v \in Status, StatusWriteLands(b, v)
  PROVE  Orderly(b)' /\ Truthful(b)'
  <1>1. /\ writes[b][v] > 0 /\ writes' = [writes EXCEPT ![b][v] = @ - 1]
        /\ active' = (IF v = "on" THEN active \cup {b} ELSE active \ {b})
        /\ UNCHANGED <<looked, bots, owner, phase, polling, stops>>
    BY DEF StatusWriteLands, registry
  <1>2. /\ writes'[b][v] = writes[b][v] - 1
        /\ \A w \in Status : w # v => writes'[b][w] = writes[b][w]
    BY <1>1 DEF TypeOK
  <1>3. v = "on" \/ v = "off"
    BY DEF Status
  <1>4. writes'[b]["on"] = 0 /\ writes'[b]["off"] = 0
    BY <1>1, <1>2, <1>3 DEF Orderly, OneWrite, Status
  <1>5. writes[b] # NoWrites
    BY <1>1 DEF NoWrites
  <1>6. (\A k \in looked : k.bot # b) /\ (\A t \in ClientsOf(b) : phase[t] # "asked")
    BY <1>5 DEF Orderly, OneCall, OneAsked
  <1>7. ClientsOf(b)' = ClientsOf(b) /\ (Registered(b)' <=> Registered(b))
    BY <1>1 DEF ClientsOf, Registered
  <1>8. OneCall(b)' /\ OneAsked(b)' /\ OneStopped(b)' /\ OneClient(b)' /\ OneWrite(b)'
    BY <1>1, <1>4, <1>6, <1>7 DEF Orderly, OneCall, OneAsked, OneStopped, OneClient, OneWrite
  <1>9. CASE v = "on"
    <2>1. Registered(b) /\ (\A t \in ClientsOf(b) : stops[t] = 0) /\ b \in active'
      BY <1>1, <1>9 DEF Orderly, OneWrite
    <2>2. Truthful(b)'
      BY <1>1, <1>6, <1>7, <2>1 DEF Truthful
    <2> QED BY <1>8, <2>2 DEF Orderly
  <1>10. CASE v = "off"
    <2>1. b \notin active' /\ (Registered(b) => \E t \in ClientsOf(b) : stops[t] > 0)
      BY <1>1, <1>10 DEF Orderly, OneWrite, ClientsOf, Registered, TypeOK
    <2>2. Truthful(b)'
      BY <1>1, <1>6, <1>7, <2>1 DEF Truthful, Busy
    <2> QED BY <1>8, <2>2 DEF Orderly
  <1> QED BY <1>3, <1>9, <1>10

(* What is fresh is in order.                                              *)
LEMMA FreshIsOrderly ==
  ASSUME NEW b \in Bots, FreshMemory
  PROVE  Orderly(b) /\ ~Registered(b) /\ ClientsOf(b) = {}
  BY TelegramAssumption DEF FreshMemory, Orderly, OneCall, OneAsked, OneStopped, OneClient, OneWrite,
       NoWrites, Status, Registered, ClientsOf

(* A bot at rest, as an operation finds it that begins on it.              *)
LEMMA BeginsAtRest ==
  ASSUME NEW b \in Bots, BeginsOn(b), b \in serial'
  PROVE  /\ b \in serial /\ ~Busy(b) /\ writes[b] = NoWrites
         /\ \A k \in looked : k.bot # b
         /\ \A t \in ClientsOf(b) : ~(stops[t] > 0) /\ phase[t] \notin {"asked", "lost"}
  BY DEF BeginsOn, Busy

(* A step of the process keeps a bot in order whose operations do not      *)
(* overlap.                                                                *)
LEMMA ProcessIsOrderly ==
  ASSUME TypeOK, TypeOK', Owned, Listening, Rooted, SerialInv, ProcessStep, NEW b \in serial'
  PROVE  Orderly(b)' /\ (proc' = "up" /\ Has(b)' => Truthful(b)')
  <1> DEFINE Goal == Orderly(b)' /\ (proc' = "up" /\ Has(b)' => Truthful(b)')
  <1> SUFFICES Goal
    OBVIOUS
  <1>1. b \in Bots /\ (Has(b)' <=> Has(b))
    BY FrameOfProcess, TelegramAssumption DEF TypeOK, records, Has
  <1>2. CASE Boot
    <2>1. /\ proc = "down" /\ looked' = [bot : Hosted, op : {"start"}]
          /\ UNCHANGED <<active, registry, writes, deaf>>
      BY <1>2 DEF Boot, TypeOK
    <2>2. Orderly(b) /\ ~Registered(b) /\ ClientsOf(b) = {} /\ writes[b] = NoWrites
      BY <1>1, <2>1, FreshIsOrderly DEF Rooted, FreshMemory
    <2>3. \A k, l \in looked' : k.bot = b /\ l.bot = b => k = l /\ k.op = "start"
      BY <2>1
    <2>4. Orderly(b)'
      BY <2>1, <2>2, <2>3 DEF registry, Orderly, OneCall, OneAsked, OneStopped, OneClient, OneWrite,
         Calm, ClientsOf, Registered, NoWrites, Status
    <2>5. ASSUME b \in active, Has(b) PROVE Busy(b)'
      <3>1. b \in serial
        BY <1>2 DEF Boot
      <3>2. b \in Hosted
        BY <1>1, <2>5, <3>1 DEF Hosted, TypeOK
      <3>3. [bot |-> b, op |-> "start"] \in looked'
        BY <2>1, <3>2
      <3> QED BY <3>3 DEF Busy
    <2>6. Has(b)' => Truthful(b)'
      BY <1>1, <2>1, <2>2, <2>3, <2>5 DEF registry, Truthful, ClientsOf, Registered
    <2> QED BY <2>4, <2>6
  <1>3. ASSUME ~Boot PROVE proc = "up" /\ proc' = "up" /\ b \in serial
    <2>1. proc' = proc /\ serial' \subseteq serial
      BY <1>3 DEF ProcessStep, LookUp, StartCall, DisableCall, StatusWriteLands, StatusCall,
         Connection, GetMeThrows, PollingError, StopReturns, StopRejects, Collect, BeginsOn
    <2> QED BY <2>1, DownOnlyBoots DEF Rooted, TypeOK
  <1>4. ~Boot => Orderly(b) /\ (Has(b) => Truthful(b))
    BY <1>3 DEF SerialInv
  <1>5. ASSUME NEW d \in Bots, NEW op \in {"start", "disable"}, LookUp(d, op), ~Boot PROVE Goal
    <2>1. /\ looked' = looked \cup {[bot |-> d, op |-> op]} /\ BeginsOn(d)
          /\ UNCHANGED <<active, bots, owner, phase, polling, stops, writes>>
      BY <1>5 DEF LookUp, registry
    <2>2. CASE d # b
      BY <1>1, <1>3, <1>4, <1>5, <2>1, <2>2, OrderFrame DEF ClientsOf
    <2>3. CASE d = b
      <3>1. /\ ~Busy(b) /\ writes[b] = NoWrites /\ (\A k \in looked : k.bot # b)
            /\ \A t \in ClientsOf(b) : ~(stops[t] > 0) /\ phase[t] \notin {"asked", "lost"}
        BY <1>1, <2>1, <2>3, BeginsAtRest
      <3>2. Calm(b)
        BY <3>1 DEF Calm, TypeOK, ClientsOf
      <3>3. OneCall(b)'
        BY <2>1, <2>3, <3>1, <3>2 DEF OneCall, Calm, ClientsOf
      <3>4. OneAsked(b)' /\ OneStopped(b)' /\ OneClient(b)' /\ OneWrite(b)'
        BY <1>4, <1>5, <2>1 DEF Orderly, OneAsked, OneStopped, OneClient, OneWrite, ClientsOf, Registered
      <3>5. [bot |-> b, op |-> op] \in looked'
        BY <2>1, <2>3
      <3>6. Busy(b)'
        BY <3>5 DEF Busy
      <3>7. Has(b) => Truthful(b)'
        BY <1>4, <1>5, <2>1, <3>1, <3>6 DEF Truthful, ClientsOf, Registered
      <3> QED BY <1>1, <3>3, <3>4, <3>7 DEF Orderly
    <2> QED BY <2>2, <2>3
  <1>6. ASSUME NEW d \in Bots, StartCall(d), ~Boot PROVE Goal
    <2>1. CASE d # b
      <3>1. PICK t \in Clients : NewClient(d, t)
        BY <1>6 DEF StartCall
      <3>2. \/ UNCHANGED <<owner, phase, polling>>
            \/ /\ phase[t] = "unused" /\ owner' = [owner EXCEPT ![t] = d]
               /\ phase' = [phase EXCEPT ![t] = "asked"] /\ polling' = polling \cup {t}
        BY <3>1 DEF NewClient
      <3>3. phase[t] = "unused" => t \notin ClientsOf(b)
        BY <1>1, TelegramAssumption DEF TypeOK, ClientsOf
      <3>4. ClientsOf(b)' = ClientsOf(b)
        BY <1>1, <2>1, <3>2, <3>3 DEF ClientsOf, TypeOK
      <3>5. \A u \in ClientsOf(b) : phase'[u] = phase[u] /\ (u \in polling' <=> u \in polling)
        BY <3>2, <3>3 DEF ClientsOf, TypeOK
      <3>6. UNCHANGED <<active, bots, stops, writes>> /\ looked' = looked \ {[bot |-> d, op |-> "start"]}
        BY <1>6 DEF StartCall
      <3> QED BY <1>1, <1>3, <1>4, <1>6, <2>1, <3>4, <3>5, <3>6, OrderFrame
    <2>2. CASE d = b
      BY <1>1, <1>4, <1>6, <2>2, StartIsOrderly
    <2> QED BY <2>1, <2>2
  <1>7. ASSUME NEW d \in Bots, d # b, NEW P \in SUBSET polling, DisableBot(d, P), ~Boot,
               \A t \in polling \ P : owner[t] = d, UNCHANGED <<active, bots, owner>>,
               \A k \in looked' : k.bot = b => k \in looked,
               \A k \in looked : k.bot = b => k \in looked'
        PROVE  Goal
    <2>1. ClientsOf(b)' = ClientsOf(b)
      BY <1>7 DEF ClientsOf
    <2>2. writes'[b] = writes[b]
      BY <1>1, <1>7 DEF DisableBot, IssueWrite, TypeOK
    <2>3. \A u \in ClientsOf(b) :
            stops'[u] = stops[u] /\ phase'[u] = phase[u] /\ (u \in polling' <=> u \in polling)
      BY <1>7 DEF DisableBot, ClientsOf, TypeOK, Registered
    <2> QED BY <1>1, <1>3, <1>4, <1>7, <2>1, <2>2, <2>3, OrderFrame
  <1>8. ASSUME NEW d \in Bots, DisableCall(d), ~Boot PROVE Goal
    <2> DEFINE k == [bot |-> d, op |-> "disable"]
    <2>1. /\ k \in looked /\ looked' = looked \ {k} /\ k.bot = d /\ k.op = "disable"
          /\ DisableBot(d, polling) /\ UNCHANGED <<active, bots, owner>>
      BY <1>8 DEF DisableCall
    <2>2. CASE d # b
      BY <1>7, <1>8, <2>1, <2>2
    <2>3. CASE d = b
      <3>1. writes[b] = NoWrites /\ Calm(b) /\ \A l \in looked' : l.bot # b
        BY <1>4, <1>8, <2>1, <2>3 DEF Orderly, OneCall
      <3>2. Has(b) => (b \in active <=> Registered(b))
        BY <1>4, <1>8, <2>1, <2>3 DEF Truthful
      <3> QED BY <1>1, <1>4, <1>8, <2>1, <2>3, <3>1, <3>2, DisableIsOrderly
    <2> QED BY <2>2, <2>3
  <1>9. ASSUME NEW d \in Bots, NEW v \in Status, StatusWriteLands(d, v), ~Boot PROVE Goal
    <2>1. CASE d # b
      <3>1. /\ writes' = [writes EXCEPT ![d][v] = @ - 1] /\ (b \in active' <=> b \in active)
            /\ UNCHANGED <<looked, bots, owner, phase, polling, stops>>
        BY <1>9, <2>1 DEF StatusWriteLands, registry
      <3>2. ClientsOf(b)' = ClientsOf(b) /\ writes'[b] = writes[b]
        BY <1>1, <2>1, <3>1 DEF ClientsOf, TypeOK
      <3> QED BY <1>1, <1>3, <1>4, <1>9, <3>1, <3>2, OrderFrame
    <2>2. CASE d = b
      BY <1>1, <1>4, <1>9, <2>2, LandsIsOrderly
    <2> QED BY <2>1, <2>2
  <1>10. ASSUME NEW k \in looked, StatusCall(k), ~Boot PROVE Goal
    <2>1. k.bot # b
      BY <1>3, <1>10 DEF StatusCall, TypeOK
    <2>2. /\ looked' = looked \ {k} /\ (b \in active' <=> b \in active)
          /\ UNCHANGED <<bots, owner, phase, polling, stops, writes>>
      BY <1>10, <2>1 DEF StatusCall, registry
    <2>3. ClientsOf(b)' = ClientsOf(b)
      BY <2>2 DEF ClientsOf
    <2> QED BY <1>1, <1>3, <1>4, <1>10, <2>1, <2>2, <2>3, OrderFrame
  <1>11. ASSUME NEW t \in Clients, Connection(t), ~Boot PROVE Goal
    <2>1. owner[t] \in Bots
      BY <1>11 DEF Connection, TypeOK
    <2>2. CASE owner[t] # b
      <3>1. /\ phase' = [phase EXCEPT ![t] = "known"] /\ bots' = [bots EXCEPT ![owner[t]] = t]
            /\ UNCHANGED <<active, looked, owner, polling, stops>> /\ IssueWrite(owner[t], "on")
        BY <1>11 DEF Connection
      <3>2. ClientsOf(b)' = ClientsOf(b) /\ writes'[b] = writes[b] /\ bots'[b] = bots[b]
        BY <1>1, <2>1, <2>2, <3>1 DEF ClientsOf, TypeOK, IssueWrite
      <3>3. \A u \in ClientsOf(b) : phase'[u] = phase[u]
        BY <2>2, <3>1 DEF ClientsOf, TypeOK
      <3> QED BY <1>1, <1>3, <1>4, <1>11, <3>1, <3>2, <3>3, OrderFrame
    <2>3. CASE owner[t] = b
      BY <1>1, <1>4, <1>11, <2>3, ConnectionIsOrderly
    <2> QED BY <2>2, <2>3
  <1>12. ASSUME NEW t \in Clients, GetMeThrows(t), ~Boot PROVE Goal
    <2>1. /\ owner[t] # b /\ phase' = [phase EXCEPT ![t] = "lost"]
          /\ UNCHANGED <<active, looked, bots, owner, polling, stops, writes>>
      BY <1>12 DEF GetMeThrows
    <2>2. ClientsOf(b)' = ClientsOf(b) /\ \A u \in ClientsOf(b) : phase'[u] = phase[u]
      BY <2>1 DEF ClientsOf, TypeOK
    <2> QED BY <1>1, <1>3, <1>4, <1>12, <2>1, <2>2, OrderFrame
  <1>13. ASSUME NEW t \in Clients, PollingError(t), ~Boot PROVE Goal
    <2>1. /\ t \in polling /\ owner[t] \in Bots /\ DisableBot(owner[t], polling \ {t})
          /\ BeginsOn(owner[t]) /\ UNCHANGED <<active, looked, bots, owner>>
          /\ polling \ {t} \in SUBSET polling
      BY <1>13 DEF PollingError, StopsBot, Owned
    <2>2. CASE owner[t] # b
      BY <1>7, <1>13, <2>1, <2>2
    <2>3. CASE owner[t] = b
      <3>1. /\ ~Busy(b) /\ writes[b] = NoWrites /\ (\A k \in looked : k.bot # b)
            /\ \A u \in ClientsOf(b) : ~(stops[u] > 0) /\ phase[u] \notin {"asked", "lost"}
        BY <1>1, <2>1, <2>3, BeginsAtRest
      <3>2. Calm(b) /\ t \in ClientsOf(b)
        BY <2>3, <3>1 DEF Calm, TypeOK, ClientsOf
      <3>3. phase[t] = "known"
        BY <1>1, <2>1, <2>3, <3>1, <3>2, TelegramAssumption DEF Listening, TypeOK, Phases
      <3>4. bots[b] = t
        BY <1>4, <1>13, <2>1, <3>2, <3>3 DEF Orderly, OneClient
      <3>5. Has(b) => (b \in active <=> Registered(b))
        BY <1>4, <1>13, <3>1 DEF Truthful
      <3> QED BY <1>1, <1>4, <1>13, <2>1, <2>3, <3>1, <3>2, <3>4, <3>5, DisableIsOrderly
    <2> QED BY <2>2, <2>3
  <1>14. ASSUME NEW t \in Clients, StopReturns(t), ~Boot PROVE Goal
    <2>1. owner[t] \in Bots
      BY <1>14 DEF StopReturns, Owned
    <2>2. CASE owner[t] # b
      <3>1. /\ stops' = [stops EXCEPT ![t] = @ - 1] /\ bots' = [bots EXCEPT ![owner[t]] = None]
            /\ UNCHANGED <<active, looked, owner, phase, polling, writes>>
        BY <1>14 DEF StopReturns
      <3>2. ClientsOf(b)' = ClientsOf(b) /\ bots'[b] = bots[b]
        BY <1>1, <2>1, <2>2, <3>1 DEF ClientsOf, TypeOK
      <3>3. \A u \in ClientsOf(b) : stops'[u] = stops[u]
        BY <2>2, <3>1 DEF ClientsOf, TypeOK
      <3> QED BY <1>1, <1>3, <1>4, <1>14, <3>1, <3>2, <3>3, OrderFrame
    <2>3. CASE owner[t] = b
      BY <1>1, <1>4, <1>14, <2>3, StopIsOrderly
    <2> QED BY <2>2, <2>3
  <1>a. ASSUME NEW t \in Clients, StopRejects(t), ~Boot PROVE Goal
    <2>1. /\ owner[t] # b /\ stops' = [stops EXCEPT ![t] = @ - 1]
          /\ UNCHANGED <<active, looked, bots, owner, phase, polling, writes>>
      BY <1>a DEF StopRejects
    <2>2. ClientsOf(b)' = ClientsOf(b) /\ \A u \in ClientsOf(b) : stops'[u] = stops[u]
      BY <2>1 DEF ClientsOf, TypeOK
    <2> QED BY <1>1, <1>3, <1>4, <1>a, <2>1, <2>2, OrderFrame
  <1>15. ASSUME NEW t \in Clients, Collect(t), ~Boot PROVE Goal
    <2>1. /\ phase[t] # "asked" /\ stops[t] = 0
          /\ owner' = [owner EXCEPT ![t] = None] /\ phase' = [phase EXCEPT ![t] = "unused"]
          /\ UNCHANGED <<active, looked, bots, polling, stops, writes>>
      BY <1>15 DEF Collect
    <2>2. t \in ClientsOf(b) => phase[t] # "lost"
      BY <1>4, <1>15 DEF Orderly, OneClient
    <2>3. ClientsOf(b)' = ClientsOf(b) \ {t}
      BY <1>1, <2>1, TelegramAssumption DEF ClientsOf, TypeOK
    <2>4. \A u \in ClientsOf(b)' : phase'[u] = phase[u]
      BY <2>1, <2>3 DEF ClientsOf, TypeOK
    <2> QED BY <1>1, <1>3, <1>4, <1>15, <2>1, <2>2, <2>3, <2>4, OrderFrame
  <1> HIDE DEF Goal
  <1> QED BY <1>2, <1>5, <1>6, <1>8, <1>9, <1>10, <1>11, <1>12, <1>13, <1>14, <1>a, <1>15
         DEF ProcessStep

(* A step that changes records does not touch the registry, and changes    *)
(* the status only of the bot it deletes.                                  *)
LEMMA RecordsAreOrderly ==
  ASSUME TypeOK, TypeOK', Rooted, SerialInv, RecordStep, NEW b \in serial'
  PROVE  Orderly(b)' /\ (proc' = "up" /\ Has(b)' => Truthful(b)')
  <1>1. /\ UNCHANGED <<proc, looked, bots, owner, phase, polling, stops, writes>>
        /\ b \in serial /\ b \in Bots /\ ClientsOf(b)' = ClientsOf(b)
    BY FrameOfRecords, TelegramAssumption DEF registry, ClientsOf, TypeOK
  <1>2. Orderly(b) /\ (proc = "up" /\ Has(b) => Truthful(b))
    BY <1>1 DEF SerialInv
  <1>3. Orderly(b)'
    BY <1>1, <1>2 DEF Orderly, OneCall, OneAsked, OneStopped, OneClient, OneWrite, Calm, Registered
  <1>4. \/ ~Has(b)'
        \/ row[b] = "new" /\ active' = active
        \/ Has(b) /\ (b \in active' <=> b \in active)
    <2>1. ASSUME NEW d \in Bots, DeleteBot(d)
          PROVE  ~Has(b)' \/ (Has(b) /\ (b \in active' <=> b \in active))
      BY <1>1, <2>1 DEF DeleteBot, Rewrites, Has, TypeOK
    <2>2. ASSUME NEW d \in Bots, NEW c \in Contents \cup {None}, AddNewBot(d, c) \/ EditBot(d, c)
          PROVE  \/ ~Has(b)'
                 \/ row[b] = "new" /\ active' = active
                 \/ Has(b) /\ (b \in active' <=> b \in active)
      BY <1>1, <2>2 DEF AddNewBot, EditBot, Rewrites, Has, TypeOK
    <2>3. ASSUME UNCHANGED <<row, active>>
          PROVE  ~Has(b)' \/ (Has(b) /\ (b \in active' <=> b \in active))
      BY <2>3 DEF Has
    <2> QED BY <2>1, <2>2, <2>3 DEF RecordStep, MarkContent, SetContents, EditContentIntegration
  <1>5. CASE Has(b) /\ (b \in active' <=> b \in active)
    BY <1>1, <1>2, <1>5, OrderFrame
  <1>6. CASE row[b] = "new" /\ active' = active
    <2>1. Blank(b) /\ b \notin active'
      BY <1>1, <1>6 DEF Rooted, Has
    <2>2. Truthful(b)'
      BY <1>1, <2>1 DEF Truthful, Blank, Registered
    <2> QED BY <1>3, <2>2
  <1> QED BY <1>3, <1>4, <1>5, <1>6

(* Every step keeps the bots in order whose operations do not overlap.     *)
LEMMA SerialInductive ==
  TypeOK /\ TypeOK' /\ Owned /\ Listening /\ Rooted /\ SerialInv /\ [Next]_vars => SerialInv'
  <1> SUFFICES ASSUME TypeOK, TypeOK', Owned, Listening, Rooted, SerialInv, [Next]_vars,
                      NEW b \in serial'
               PROVE  Orderly(b)' /\ (proc' = "up" /\ Has(b)' => Truthful(b)')
    BY DEF SerialInv
  <1>1. b \in Bots
    BY TelegramAssumption DEF TypeOK
  <1>2. CASE Dies
    <2>1. FreshMemory'
      BY <1>2, DeathIsFresh
    <2>2. Orderly(b)'
      <3>1. bots'[b] = None /\ writes'[b] = NoWrites
        BY <1>1, <2>1 DEF FreshMemory
      <3>2. ClientsOf(b)' = {} /\ looked' = {}
        BY <1>1, <2>1, TelegramAssumption DEF FreshMemory, ClientsOf
      <3> QED BY <3>1, <3>2 DEF Orderly, OneCall, OneAsked, OneStopped, OneClient, OneWrite,
               NoWrites, Status, Registered
    <2> QED BY <1>2, <2>2 DEF Dies
  <1>3. CASE UNCHANGED vars
    <2>1. b \in serial /\ UNCHANGED vars /\ ClientsOf(b)' = ClientsOf(b)
      BY <1>3 DEF vars, registry, ClientsOf
    <2> QED BY <1>1, <2>1, OrderFrame DEF vars, records, registry, SerialInv, Has
  <1> QED BY <1>2, <1>3, ProcessIsOrderly, RecordsAreOrderly, KindsOfSteps

-----------------------------------------------------------------------------
(* The initial states satisfy the invariant, and every step keeps it.      *)
LEMMA InitIInv == Init => IInv
  <1> SUFFICES ASSUME Init PROVE IInv
    OBVIOUS
  <1> USE TelegramAssumption
  <1>1. /\ row = [b \in Bots |-> "new"] /\ uses = [b \in Bots |-> None]
        /\ content = [c \in Contents |-> "new"] /\ active = {} /\ isUsed = {}
        /\ tidy = Contents /\ proc = "down" /\ FreshMemory
    BY DEF Init
  <1>2. TypeOK
    <2>1. writes \in [Bots -> [Status -> 0..MaxWrites]]
      BY <1>1 DEF FreshMemory, NoWrites
    <2> QED BY <1>1, <2>1 DEF FreshMemory, TypeOK, Existence, Phases, Registered
  <1>3. Owned /\ Listening
    BY <1>1 DEF FreshMemory, Owned, Listening, RegisteredBotHears
  <1>4. Rooted
    <2>1. \A b \in Bots : Blank(b)
      BY <1>1 DEF FreshMemory, Blank, Registered, ClientsOf
    <2> QED BY <1>1, <2>1 DEF Rooted
  <1>5. SerialInv
    BY <1>1, FreshIsOrderly DEF FreshMemory, SerialInv
  <1>6. TidyInv
    BY <1>1 DEF FreshMemory, TidyInv, UnusedWhenNew, Marked, OneBot, UsedBy, Has, Exists, Kinds
  <1> QED BY <1>2, <1>3, <1>4, <1>5, <1>6 DEF IInv

(* Every step keeps it.                                                    *)
LEMMA NextIInv == IInv /\ [Next]_vars => IInv'
  BY TypeInductive, ListeningInductive, RootedInductive, SerialInductive, TidyInductive DEF IInv

(* The invariant holds in every state a process can reach, through crashes *)
(* and restarts.                                                           *)
THEOREM Invariance == Spec => []IInv
  BY InitIInv, NextIInv, PTL DEF Spec

(* The variables keep their types; an unused client has no owner, and a    *)
(* registered one is a client that was made for that bot.                  *)
THEOREM TypeCorrectness == Spec => []TypeOK
  <1>1. IInv => TypeOK
    BY DEF IInv
  <1> QED BY <1>1, Invariance, PTL

(* Whatever the order of starts, errors, stops and answers of Telegram, a  *)
(* client in the registry of BotFatherService polls and listens, unless it *)
(* is being stopped or its polling failed before it was known.             *)
THEOREM RegisteredBotsHear == Spec => []RegisteredBotHears
  <1>1. IInv => RegisteredBotHears
    BY DEF IInv, Listening
  <1> QED BY <1>1, Invariance, PTL

(* A bot whose operations do not overlap has one client that polls, and    *)
(* that one is where disableBot looks for it.                              *)
THEOREM SerialBotsHaveOneClient == Spec => []SerialBotHasOneClient
  <1>1. IInv => SerialBotHasOneClient
    BY DEF IInv, SerialInv, Orderly, OneClient, SerialBotHasOneClient
  <1> QED BY <1>1, Invariance, PTL

(* At rest, isActive of such a bot says whether it is registered, though   *)
(* the updates of it are not awaited.                                      *)
THEOREM SerialStatusIsTold == Spec => []SerialStatusIsTrue
  <1>1. IInv => SerialStatusIsTrue
    BY DEF IInv, SerialInv, Truthful, SerialStatusIsTrue
  <1> QED BY <1>1, Invariance, PTL

(* With no mark of it to come, isUsed of a content given to one bot at a   *)
(* time says whether a bot uses it.                                        *)
THEOREM TidyContentsAreMarked == Spec => []TidyContentIsMarked
  <1>1. IInv => TidyContentIsMarked
    BY DEF IInv, TidyInv, OneBot, Marked, UsedBy, TidyContentIsMarked
  <1> QED BY <1>1, Invariance, PTL

-----------------------------------------------------------------------------
(* TelegramBots implements BotRegistry                                     *)

At(t, stage) == [client |-> t, stage |-> stage]

(* A serial bot has one client that is asked, registered or being stopped. *)
LEMMA OneHeld ==
  ASSUME TypeOK, NEW b \in serial, Orderly(b),
         NEW t \in Clients, owner[t] = b, Held(t)
  PROVE  /\ \A u \in Clients : owner[u] = b /\ Held(u) => u = t
         /\ Kept(b) = {At(t, Stage(t))}
  <1>1. \A u \in ClientsOf(b) : Held(u) => u = bots[b] \/ (phase[u] = "asked" /\ ~Registered(b))
    BY DEF Held, Orderly, OneAsked, OneStopped, ClientsOf
  <1>2. \A u, v \in ClientsOf(b) : phase[u] = "asked" /\ phase[v] = "asked" => u = v
    BY DEF Orderly, OneAsked
  <1>3. \A u \in ClientsOf(b) : u = bots[b] => Registered(b)
    BY TelegramAssumption DEF ClientsOf, Registered
  <1>4. \A u \in Clients : owner[u] = b /\ Held(u) => u = t
    BY <1>1, <1>2, <1>3 DEF ClientsOf
  <1>5. {u \in ClientsOf(b) : b \in serial /\ Held(u)} = {t}
    BY <1>4 DEF ClientsOf
  <1>6. Kept(b) = {At(t, Stage(t))}
    BY <1>5 DEF Kept, At
  <1> QED BY <1>4, <1>6

(* What it keeps otherwise, and after a step.                              *)
LEMMA KeepsNone ==
  ASSUME NEW b, \A t \in Clients : b \in serial /\ owner[t] = b => ~Held(t)
  PROVE  Kept(b) = {}
  BY DEF Kept, ClientsOf
LEMMA KeepsNoneNext ==
  ASSUME NEW b, \A t \in Clients : b \in serial' /\ owner'[t] = b => ~Held(t)'
  PROVE  Kept(b)' = {}
  BY DEF Kept, ClientsOf
LEMMA KeepsOneNext ==
  ASSUME NEW b \in serial', NEW t \in Clients,
         \A u \in Clients : owner'[u] = b /\ Held(u)' <=> u = t
  PROVE  Kept(b)' = {At(t, Stage(t)')}
  BY DEF Kept, ClientsOf, At
LEMMA KeepsSame ==
  ASSUME NEW b, b \in serial' <=> b \in serial,
         \A t \in Clients : (owner'[t] = b /\ Held(t)') <=> (owner[t] = b /\ Held(t)),
         \A t \in Clients : owner[t] = b /\ Held(t) => Stage(t)' = Stage(t)
  PROVE  Kept(b)' = Kept(b)
  BY DEF Kept, ClientsOf

(* What a step may do to the one client of a bot.                          *)
Moves(b) ==
  \E t \in Clients :
    \/ /\ Kept(b) = {} /\ Kept(b)' = {At(t, "starting")}
       /\ \A d \in Telegram, stage \in Registry!Stages : At(t, stage) \notin Kept(d)
    \/ Kept(b) = {At(t, "starting")} /\ Kept(b)' = {At(t, "on")}
    \/ Kept(b) = {At(t, "on")} /\ Kept(b)' = {At(t, "stopping")}
    \/ Kept(b) = {At(t, "stopping")} /\ Kept(b)' = {}

(* Such a step, of one bot, is a step of the registry.                     *)
LEMMA OneBotMoves ==
  ASSUME serial \subseteq Telegram, NEW b \in Bots,
         \A d \in Telegram \ {b} : Kept(d)' = Kept(d),
         serial' \in {serial, serial \ {b}},
         b \in serial' => Moves(b) \/ Kept(b)' = Kept(b)
  PROVE  Registry!Next \/ UNCHANGED Registry!vars
  <1> DEFINE now == [d \in Telegram |-> Kept(d)]
             next == [d \in Telegram |-> Kept(d)']
  <1>1. (\A d : d \notin serial => Kept(d) = {}) /\ (\A d : d \notin serial' => Kept(d)' = {})
    BY DEF Kept
  <1>2. CASE b \notin serial
    <2>1. serial' = serial /\ Kept(b)' = Kept(b)
      BY <1>1, <1>2
    <2>2. next = now
      BY <2>1
    <2> QED BY <2>1, <2>2 DEF Registry!vars
  <1>3. CASE b \in serial /\ b \notin serial'
    <2>1. serial' = serial \ {b} /\ Kept(b)' = {}
      BY <1>1, <1>3
    <2>2. next = [now EXCEPT ![b] = {}]
      BY <1>3, <2>1
    <2>3. Registry!Overlaps(b)
      BY <2>1, <2>2 DEF Registry!Overlaps
    <2> QED BY <1>3, <2>3 DEF Registry!Next
  <1>4. CASE b \in serial'
    <2>1. serial' = serial /\ b \in Telegram /\ b \in serial
      BY <1>4
    <2>2. CASE Kept(b)' = Kept(b)
      <3>1. next = now
        BY <2>2
      <3> QED BY <2>1, <3>1 DEF Registry!vars
    <2>3. CASE Moves(b)
      <3>1. next = [now EXCEPT ![b] = Kept(b)'] /\ now[b] = Kept(b)
        BY <2>1
      <3>2. PICK t \in Clients :
              \/ /\ Kept(b) = {} /\ Kept(b)' = {At(t, "starting")}
                 /\ \A d \in Telegram, stage \in Registry!Stages : At(t, stage) \notin Kept(d)
              \/ Kept(b) = {At(t, "starting")} /\ Kept(b)' = {At(t, "on")}
              \/ Kept(b) = {At(t, "on")} /\ Kept(b)' = {At(t, "stopping")}
              \/ Kept(b) = {At(t, "stopping")} /\ Kept(b)' = {}
        BY <2>3 DEF Moves
      <3>3. ASSUME Kept(b) = {}, Kept(b)' = {At(t, "starting")},
                   \A d \in Telegram, stage \in Registry!Stages : At(t, stage) \notin Kept(d)
            PROVE  Registry!Start(b)
        <4>1. \A d \in Telegram, stage \in Registry!Stages : Registry!At(t, stage) \notin now[d]
          BY <3>3 DEF At, Registry!At
        <4>2. next = [now EXCEPT ![b] = {Registry!At(t, "starting")}]
          BY <3>1, <3>3 DEF At, Registry!At
        <4> QED BY <3>1, <3>3, <4>1, <4>2 DEF Registry!Start
      <3>4. ASSUME NEW from, NEW to, Kept(b) = {At(t, from)}, Kept(b)' = {At(t, to)}
            PROVE  Registry!Goes(b, from, to)
        <4>1. next = [now EXCEPT ![b] = {Registry!At(t, to)}] /\ now[b] = {Registry!At(t, from)}
          BY <3>1, <3>4 DEF At, Registry!At
        <4> QED BY <4>1 DEF Registry!Goes
      <3>5. ASSUME NEW from, Kept(b) = {At(t, from)}, Kept(b)' = {}
            PROVE  Registry!Ends(b, from)
        <4>1. next = [now EXCEPT ![b] = {}] /\ now[b] = {Registry!At(t, from)}
          BY <3>1, <3>5 DEF At, Registry!At
        <4> QED BY <4>1 DEF Registry!Ends
      <3>6. Registry!Step(b)
        BY <2>1, <3>2, <3>3, <3>4, <3>5 DEF Registry!Step
      <3> QED BY <2>1, <3>6 DEF Registry!Next
    <2> QED BY <1>4, <2>2, <2>3
  <1> QED BY <1>2, <1>3, <1>4

(* Steps about the clients of one bot.                                     *)
Touches(b) ==
  /\ \A d \in Bots \ {b} : bots'[d] = bots[d]
  /\ \A t \in Clients :
       \/ owner[t] \in {b, None} /\ owner'[t] \in {b, None}
       \/ owner'[t] = owner[t] /\ phase'[t] = phase[t] /\ stops'[t] = stops[t]
  /\ serial' \in {serial, serial \ {b}}

(* They leave what other bots keep alone.                                  *)
LEMMA TouchRegistry ==
  ASSUME TypeOK, NEW b \in Bots, Touches(b),
         b \in serial' => Moves(b) \/ Kept(b)' = Kept(b)
  PROVE  Registry!Next \/ UNCHANGED Registry!vars
  <1>1. ASSUME NEW d \in Bots, d # b PROVE Kept(d)' = Kept(d)
    <2>1. ASSUME NEW t \in Clients, owner[t] = d \/ owner'[t] = d
          PROVE  /\ owner[t] = d /\ owner'[t] = d
                 /\ (Held(t)' <=> Held(t)) /\ Stage(t)' = Stage(t)
      <3>1. /\ owner[t] = d /\ owner'[t] = d /\ bots'[d] = bots[d]
            /\ phase'[t] = phase[t] /\ stops'[t] = stops[t]
        BY <1>1, <2>1, TelegramAssumption DEF Touches
      <3> QED BY <3>1 DEF Held, Stage
    <2>2. d \in serial' <=> d \in serial
      BY <1>1 DEF Touches
    <2> QED BY <2>1, <2>2, KeepsSame
  <1>2. serial \subseteq Telegram /\ Telegram \subseteq Bots
    BY TelegramAssumption DEF TypeOK
  <1> QED BY <1>1, <1>2, OneBotMoves DEF Touches

(* startBot of a bot that has no client makes one.                         *)
LEMMA StartMoves ==
  ASSUME IInv, NEW b \in Bots, StartCall(b)
  PROVE  Registry!Next \/ UNCHANGED Registry!vars
  <1>1. PICK t \in Clients : NewClient(b, t)
    BY DEF StartCall
  <1>2. UNCHANGED <<bots, stops, serial>> /\ [bot |-> b, op |-> "start"] \in looked
    BY DEF StartCall
  <1>3. CASE Registered(b)
    <2>1. UNCHANGED <<owner, phase>>
      BY <1>1, <1>3 DEF NewClient
    <2>2. Touches(b)
      BY <1>2, <2>1 DEF Touches
    <2>3. Kept(b)' = Kept(b)
      BY <1>2, <2>1, KeepsSame DEF Held, Stage
    <2> QED BY <2>2, <2>3, TouchRegistry DEF IInv
  <1>4. CASE ~Registered(b)
    <2>1. /\ phase[t] = "unused" /\ owner' = [owner EXCEPT ![t] = b]
          /\ phase' = [phase EXCEPT ![t] = "asked"]
      BY <1>1, <1>4 DEF NewClient
    <2>2. /\ owner[t] = None /\ stops[t] = 0 /\ owner'[t] = b /\ phase'[t] = "asked"
          /\ \A u \in Clients \ {t} : owner'[u] = owner[u] /\ phase'[u] = phase[u]
      BY <2>1, UnusedIsIdle DEF IInv, TypeOK
    <2>3. Touches(b)
      BY <1>2, <2>2 DEF Touches
    <2>4. ASSUME b \in serial' PROVE Moves(b)
      <3>1. Calm(b) /\ b \in serial
        BY <1>2, <2>4 DEF IInv, SerialInv, Orderly, OneCall
      <3>2. \A u \in Clients : owner[u] = b => ~Held(u)
        BY <1>4, <3>1, TelegramAssumption DEF Held, Calm, ClientsOf, Registered
      <3>3. \A u \in Clients : owner'[u] = b /\ Held(u)' <=> u = t
        BY <1>2, <2>2, <3>2 DEF Held
      <3>4. Stage(t)' = "starting"
        BY <1>2, <2>2 DEF Stage
      <3>5. Kept(b)' = {At(t, "starting")} /\ Kept(b) = {}
        BY <2>4, <3>2, <3>3, <3>4, KeepsOneNext, KeepsNone
      <3>6. \A d \in Telegram, stage \in Registry!Stages : At(t, stage) \notin Kept(d)
        <4> SUFFICES ASSUME NEW d \in Telegram PROVE \A k \in Kept(d) : k.client # t
          BY DEF At
        <4>1. owner[t] # d
          BY <2>2, TelegramAssumption
        <4> QED BY <4>1 DEF Kept, ClientsOf
      <3> QED BY <3>5, <3>6 DEF Moves
    <2> QED BY <2>3, <2>4, TouchRegistry DEF IInv
  <1> QED BY <1>3, <1>4

(* getMe answers: the client that asked is the one that is registered.     *)
LEMMA ConnectionMoves ==
  ASSUME IInv, NEW t \in Clients, Connection(t)
  PROVE  Registry!Next \/ UNCHANGED Registry!vars
  <1>1. /\ phase[t] = "asked" /\ phase' = [phase EXCEPT ![t] = "known"]
        /\ UNCHANGED <<owner, stops, serial>>
    BY DEF Connection
  <1>2. PICK b \in Bots : b = owner[t]
    BY <1>1 DEF IInv, TypeOK
  <1>3. bots' = [bots EXCEPT ![b] = t]
    BY <1>2 DEF Connection
  <1>4. /\ phase'[t] = "known" /\ bots'[b] = t
        /\ \A u \in Clients \ {t} : phase'[u] = phase[u]
        /\ \A d \in Bots \ {b} : bots'[d] = bots[d]
    BY <1>1, <1>3 DEF IInv, TypeOK
  <1>5. Touches(b)
    BY <1>1, <1>2, <1>4 DEF Touches
  <1>6. ASSUME b \in serial' PROVE Moves(b)
    <2>1. b \in serial /\ Orderly(b)
      BY <1>1, <1>6 DEF IInv, SerialInv
    <2>2. stops[t] = 0
      BY <1>1, <1>2, <2>1 DEF Orderly, OneAsked, ClientsOf
    <2>3. Held(t) /\ Stage(t) = "starting" /\ Stage(t)' = "on"
      BY <1>1, <1>4, <2>2 DEF Held, Stage
    <2>4. Kept(b) = {At(t, "starting")} /\ \A u \in Clients : owner[u] = b /\ Held(u) => u = t
      BY <1>2, <2>1, <2>3, OneHeld DEF IInv
    <2>5. \A u \in Clients : owner'[u] = b /\ Held(u)' <=> u = t
      BY <1>1, <1>2, <1>4, <2>4 DEF Held
    <2>6. Kept(b)' = {At(t, "on")}
      BY <1>6, <2>3, <2>5, KeepsOneNext
    <2> QED BY <2>4, <2>6 DEF Moves
  <1> QED BY <1>5, <1>6, TouchRegistry DEF IInv

(* A stop of a bot at rest is that of its registered client.               *)
LEMMA DisableMoves ==
  ASSUME IInv, NEW b \in Bots, NEW P \in SUBSET Clients, DisableBot(b, P),
         UNCHANGED <<bots, owner>>, serial' \in {serial, serial \ {b}},
         b \in serial' => Calm(b)
  PROVE  Registry!Next \/ UNCHANGED Registry!vars
  <1>1. CASE ~Registered(b)
    <2>1. UNCHANGED <<phase, stops>>
      BY <1>1 DEF DisableBot
    <2>2. Touches(b)
      BY <2>1 DEF Touches
    <2>3. b \in serial' => Kept(b)' = Kept(b)
      BY <2>1, KeepsSame DEF Held, Stage
    <2> QED BY <2>2, <2>3, TouchRegistry DEF IInv
  <1>2. CASE Registered(b)
    <2>1. PICK t \in Clients : t = bots[b]
      BY <1>2 DEF IInv, TypeOK, Registered
    <2>2. /\ owner[t] = b /\ phase[t] # "asked" /\ bots'[b] = t /\ bots[owner[t]] = t
          /\ phase' = [phase EXCEPT ![t] = "off"] /\ stops' = [stops EXCEPT ![t] = @ + 1]
      BY <1>2, <2>1, Disabling DEF IInv, TypeOK
    <2>3. /\ stops[t] \in Nat /\ stops'[t] = stops[t] + 1 /\ phase'[t] = "off"
          /\ \A u \in Clients \ {t} : phase'[u] = phase[u] /\ stops'[u] = stops[u]
      BY <2>2, TelegramAssumption DEF IInv, TypeOK
    <2>4. Touches(b)
      BY <2>2, <2>3 DEF Touches
    <2>5. ASSUME b \in serial' PROVE Moves(b)
      <3>1. b \in serial /\ Orderly(b) /\ Calm(b)
        BY <2>5 DEF IInv, SerialInv
      <3>2. stops[t] = 0
        BY <2>2, <3>1 DEF Calm, ClientsOf
      <3>3. Held(t) /\ Stage(t) = "on"
        BY <2>2, <3>2 DEF Held, Stage
      <3>4. Stage(t)' = "stopping"
        BY <2>3, <3>2 DEF Stage
      <3>5. Kept(b) = {At(t, "on")} /\ \A u \in Clients : owner[u] = b /\ Held(u) => u = t
        BY <2>2, <3>1, <3>3, OneHeld DEF IInv
      <3>6. \A u \in Clients : owner'[u] = b /\ Held(u)' <=> u = t
        BY <2>2, <2>3, <3>2, <3>5 DEF Held
      <3>7. Kept(b)' = {At(t, "stopping")}
        BY <2>5, <3>4, <3>6, KeepsOneNext
      <3> QED BY <3>5, <3>7 DEF Moves
    <2> QED BY <2>4, <2>5, TouchRegistry DEF IInv
  <1> QED BY <1>1, <1>2

(* stopPolling() returns: the client is gone.                              *)
LEMMA StopMoves ==
  ASSUME IInv, NEW t \in Clients, StopReturns(t)
  PROVE  Registry!Next \/ UNCHANGED Registry!vars
  <1>1. /\ stops[t] > 0 /\ stops' = [stops EXCEPT ![t] = @ - 1]
        /\ UNCHANGED <<owner, phase, serial>>
    BY DEF StopReturns
  <1>2. PICK b \in Bots : b = owner[t]
    BY <1>1 DEF IInv, Owned
  <1>3. bots' = [bots EXCEPT ![b] = None]
    BY <1>2 DEF StopReturns
  <1>4. /\ stops'[t] = stops[t] - 1 /\ bots'[b] = None
        /\ \A u \in Clients \ {t} : stops'[u] = stops[u]
        /\ \A d \in Bots \ {b} : bots'[d] = bots[d]
    BY <1>1, <1>3 DEF IInv, TypeOK
  <1>5. Touches(b)
    BY <1>1, <1>2, <1>4 DEF Touches
  <1>6. ASSUME b \in serial' PROVE Moves(b)
    <2>1. b \in serial /\ Orderly(b) /\ t \in ClientsOf(b)
      BY <1>1, <1>2, <1>6 DEF IInv, SerialInv, ClientsOf
    <2>2. stops[t] = 1 /\ phase[t] = "off"
      BY <1>1, <2>1 DEF Orderly, OneStopped
    <2>3. Held(t) /\ Stage(t) = "stopping"
      BY <1>1 DEF Held, Stage
    <2>4. Kept(b) = {At(t, "stopping")} /\ \A u \in Clients : owner[u] = b /\ Held(u) => u = t
      BY <1>2, <2>1, <2>3, OneHeld DEF IInv
    <2>5. \A u \in Clients : owner'[u] = b => ~Held(u)'
      <3> SUFFICES ASSUME NEW u \in Clients, owner[u] = b PROVE ~Held(u)'
        BY <1>1
      <3>1. CASE u = t
        BY <1>1, <1>2, <1>4, <2>2, <3>1, TelegramAssumption DEF Held
      <3>2. CASE u # t
        <4>1. phase[u] # "asked" /\ ~(stops[u] > 0)
          BY <2>4, <3>2 DEF Held
        <4> QED BY <1>1, <1>4, <3>2, <4>1, TelegramAssumption DEF Held
      <3> QED BY <3>1, <3>2
    <2>6. Kept(b)' = {}
      BY <2>5, KeepsNoneNext
    <2> QED BY <2>4, <2>6 DEF Moves
  <1> QED BY <1>5, <1>6, TouchRegistry DEF IInv

(* A client whose getMe or whose stop failed takes its bot out of order;   *)
(* one that is garbage was nobody's.                                       *)
LEMMA LostAndCollected ==
  ASSUME IInv, NEW t \in Clients, GetMeThrows(t) \/ StopRejects(t) \/ Collect(t)
  PROVE  Registry!Next \/ UNCHANGED Registry!vars
  <1>1. CASE GetMeThrows(t)
    <2>1. /\ phase[t] = "asked" /\ phase' = [phase EXCEPT ![t] = "lost"]
          /\ UNCHANGED <<bots, owner, stops>>
      BY <1>1 DEF GetMeThrows
    <2>2. PICK b \in Bots : b = owner[t]
      BY <2>1 DEF IInv, TypeOK
    <2>3. serial' = serial \ {b}
      BY <1>1, <2>2 DEF GetMeThrows
    <2>4. \A u \in Clients \ {t} : phase'[u] = phase[u]
      BY <2>1
    <2>5. Touches(b)
      BY <2>1, <2>2, <2>3, <2>4 DEF Touches
    <2> QED BY <2>3, <2>5, TouchRegistry DEF IInv
  <1>2. CASE Collect(t)
    <2>1. /\ phase[t] \notin {"unused", "asked"} /\ stops[t] = 0 /\ bots[owner[t]] # t
          /\ owner' = [owner EXCEPT ![t] = None] /\ phase' = [phase EXCEPT ![t] = "unused"]
          /\ UNCHANGED <<bots, stops, serial>>
      BY <1>2 DEF Collect
    <2>2. PICK b \in Bots : b = owner[t]
      BY <2>1 DEF IInv, TypeOK
    <2>3. /\ owner'[t] = None
          /\ \A u \in Clients \ {t} : owner'[u] = owner[u] /\ phase'[u] = phase[u]
      BY <2>1 DEF IInv, TypeOK
    <2>4. Touches(b)
      BY <2>1, <2>2, <2>3 DEF Touches
    <2>5. ~Held(t) /\ \A u \in Clients \ {t} : (Held(u)' <=> Held(u)) /\ Stage(u)' = Stage(u)
      BY <2>1, <2>3 DEF Held, Stage
    <2>6. Kept(b)' = Kept(b)
      BY <2>1, <2>3, <2>5, KeepsSame, TelegramAssumption
    <2> QED BY <2>4, <2>6, TouchRegistry DEF IInv
  <1>3. CASE StopRejects(t)
    <2>1. /\ stops[t] > 0 /\ stops' = [stops EXCEPT ![t] = @ - 1]
          /\ UNCHANGED <<bots, owner, phase>>
      BY <1>3 DEF StopRejects
    <2>2. PICK b \in Bots : b = owner[t]
      BY <2>1 DEF IInv, Owned
    <2>3. serial' = serial \ {b}
      BY <1>3, <2>2 DEF StopRejects
    <2>4. \A u \in Clients \ {t} : stops'[u] = stops[u]
      BY <2>1
    <2>5. Touches(b)
      BY <2>1, <2>2, <2>3, <2>4 DEF Touches
    <2> QED BY <2>3, <2>5, TouchRegistry DEF IInv
  <1> QED BY <1>1, <1>2, <1>3

(* Steps that leave clients alone: an operation may still begin on a bot.  *)
LEMMA QuietMoves ==
  ASSUME IInv, NEW b \in Bots, UNCHANGED <<bots, owner, phase, stops>>,
         serial' \in {serial, serial \ {b}}
  PROVE  Registry!Next \/ UNCHANGED Registry!vars
  <1>1. Touches(b)
    BY DEF Touches
  <1>2. b \in serial' => Kept(b)' = Kept(b)
    BY KeepsSame DEF Held, Stage
  <1> QED BY <1>1, <1>2, TouchRegistry DEF IInv
LEMMA StillMoves ==
  ASSUME UNCHANGED <<bots, owner, phase, stops, serial>>
  PROVE  UNCHANGED Registry!vars
  <1>1. \A b \in Telegram : Kept(b)' = Kept(b)
    BY KeepsSame DEF Held, Stage
  <1> QED BY <1>1 DEF Registry!vars

(* Every step of the service is a step of the registry or leaves it alone. *)
LEMMA NextMoves == IInv /\ [Next]_vars => [Registry!Next]_Registry!vars
  <1> DEFINE Goal == Registry!Next \/ UNCHANGED Registry!vars
  <1> SUFFICES ASSUME IInv, [Next]_vars PROVE Goal
    OBVIOUS
  <1>1. CASE Dies
    <2>1. \A b \in Bots, t \in Clients : owner'[t] # b
      BY <1>1, TelegramAssumption DEF Dies
    <2>2. \A b \in Telegram : Kept(b)' = {}
      BY <2>1, KeepsNoneNext, TelegramAssumption
    <2>3. Registry!Restart
      BY <1>1, <2>2 DEF Dies, Registry!Restart
    <2> QED BY <2>3 DEF Registry!Next
  <1>2. CASE RecordStep \/ UNCHANGED vars
    <2>1. UNCHANGED <<bots, owner, phase, stops, serial>>
      BY <1>2, FrameOfRecords DEF vars, registry
    <2> QED BY <2>1, StillMoves
  <1>3. CASE Boot \/ (\E k \in looked : StatusCall(k))
             \/ \E b \in Bots, v \in Status : StatusWriteLands(b, v)
    <2>1. UNCHANGED <<bots, owner, phase, stops, serial>>
      BY <1>3 DEF Boot, StatusCall, StatusWriteLands, registry
    <2> QED BY <2>1, StillMoves
  <1>4. ASSUME NEW b \in Bots, NEW op \in {"start", "disable"}, LookUp(b, op) PROVE Goal
    <2>1. UNCHANGED <<bots, owner, phase, stops>> /\ serial' \in {serial, serial \ {b}}
      BY <1>4 DEF LookUp, registry, BeginsOn
    <2> QED BY <2>1, QuietMoves
  <1>5. ASSUME NEW b \in Bots, DisableCall(b) PROVE Goal
    <2> DEFINE k == [bot |-> b, op |-> "disable"]
    <2>1. /\ k \in looked /\ k.bot = b /\ DisableBot(b, polling)
          /\ UNCHANGED <<bots, owner, serial>> /\ polling \in SUBSET Clients
      BY <1>5 DEF DisableCall, IInv, TypeOK
    <2>2. b \in serial' => Calm(b)
      BY <2>1 DEF IInv, SerialInv, Orderly, OneCall
    <2> QED BY <2>1, <2>2, DisableMoves
  <1>6. ASSUME NEW t \in Clients, PollingError(t) PROVE Goal
    <2>1. PICK b \in Bots : b = owner[t]
      BY <1>6 DEF PollingError, IInv, Owned
    <2>2. /\ DisableBot(b, polling \ {t}) /\ BeginsOn(b)
          /\ UNCHANGED <<bots, owner>> /\ polling \ {t} \in SUBSET Clients
      BY <1>6, <2>1 DEF PollingError, StopsBot, IInv, TypeOK
    <2>3. serial' \in {serial, serial \ {b}}
      BY <2>2 DEF BeginsOn
    <2>4. b \in serial' => Calm(b)
      BY <2>2, BeginsAtRest DEF Calm, ClientsOf, IInv, TypeOK
    <2> QED BY <2>2, <2>3, <2>4, DisableMoves
  <1>7. CASE \E b \in Bots : StartCall(b)
    BY <1>7, StartMoves
  <1>8. CASE \E t \in Clients :
               \/ Connection(t) \/ GetMeThrows(t)
               \/ StopReturns(t) \/ StopRejects(t) \/ Collect(t)
    BY <1>8, ConnectionMoves, LostAndCollected, StopMoves
  <1>9. CASE ProcessStep
    BY <1>3, <1>4, <1>5, <1>6, <1>7, <1>8, <1>9 DEF ProcessStep
  <1> QED BY <1>1, <1>2, <1>9, KindsOfSteps

(* The clients of bots whose starts and stops do not overlap are clients   *)
(* of BotRegistry: one at a time, asked, registered, stopped and gone, in  *)
(* that order, through errors, crashes and whatever befalls other bots.    *)
THEOREM Implements == Spec => SerialBotsAreRegistry
  <1>1. Init => Registry!Init
    <2> SUFFICES ASSUME Init PROVE Registry!Init
      OBVIOUS
    <2>1. serial = Telegram /\ \A b \in Telegram, t \in Clients : owner[t] # b
      BY TelegramAssumption DEF Init, FreshMemory
    <2>2. \A b \in Telegram : Kept(b) = {}
      BY <2>1, KeepsNone
    <2> QED BY <2>1, <2>2 DEF Registry!Init
  <1> QED BY <1>1, Invariance, NextMoves, PTL
          DEF Spec, SerialBotsAreRegistry, Registry!Spec
=============================================================================
