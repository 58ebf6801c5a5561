------------------------- MODULE BaileysBotsProofs -------------------------
(***************************************************************************)
(* Theorems about BaileysBots, for every set of bots and sockets and every *)
(* value of the bounds.                                                    *)
(***************************************************************************)
EXTENDS BaileysBots, TLAPS

Begun == {"open"} \cup Closed

\* What the steps rely on: a socket in use has a bot, events and awaits belong
\* to sockets that have come far enough to have them, and nothing refers to a
\* socket whose identity has been given back.
NothingDangles ==
  /\ \A s \in Socks : conn[s] # "unused" => owner[s] \in Bots
  /\ \A s \in wired : conn[s] \in {"connecting", "open"}
  /\ \A s \in Socks : logouts[s] > 0 => conn[s] \in Begun
  /\ \A s \in Socks : purge[s] # "idle" => conn[s] \in Closed
  /\ \A s \in replying : conn[s] \in Begun
  /\ \A b \in Bots : handlers[b] # None =>
       owner[handlers[b]] = b /\ conn[handlers[b]] \in {"connecting"} \cup Begun

IInv == TypeOK /\ NothingDangles /\ RegisteredIsOwn /\ NoDeafConnection

USE NoneAssumption, BoundsAssumption DEF Closed, ConnStates, Requests,
  Status, Live, Begun

\* No process runs at first, and nothing is in use.
LEMMA InitIInv == Init => IInv
<1>1. Init => TypeOK
  <2> SUFFICES ASSUME Init PROVE TypeOK
    OBVIOUS
  <2>1. NoWrites \in [Status -> 0..MaxWrites]
    BY DEF NoWrites
  <2>2. /\ timers \in [Bots -> 0..MaxTimers]
        /\ logouts \in [Socks -> 0..MaxLogouts]
        /\ writes \in [Bots -> [Status -> 0..MaxWrites]]
    BY <2>1 DEF Init, FreshMemory
  <2> QED BY <2>2 DEF Init, FreshMemory, TypeOK
<1>2. Init => NothingDangles
  BY DEF Init, FreshMemory, NothingDangles
<1>3. Init => RegisteredIsOwn /\ NoDeafConnection
  BY DEF Init, FreshMemory, RegisteredIsOwn, NoDeafConnection
<1> QED BY <1>1, <1>2, <1>3 DEF IInv

\* When the process ends its memory is as it was at first.
LEMMA DiesIInv ==
  ASSUME IInv, Dies, UNCHANGED database
  PROVE  IInv'
<1>1. TypeOK'
  <2>1. NoWrites \in [Status -> 0..MaxWrites]
    BY DEF NoWrites
  <2>2. /\ timers' \in [Bots -> 0..MaxTimers]
        /\ logouts' \in [Socks -> 0..MaxLogouts]
        /\ writes' \in [Bots -> [Status -> 0..MaxWrites]]
    BY <2>1 DEF Dies
  <2> QED BY <2>2 DEF Dies, database, IInv, TypeOK
<1>2. NothingDangles'
  BY DEF Dies, NothingDangles
<1>3. RegisteredIsOwn' /\ NoDeafConnection'
  BY DEF Dies, RegisteredIsOwn, NoDeafConnection
<1> QED BY <1>1, <1>2, <1>3 DEF IInv

\* A status update that begins is counted once, within the bound.
LEMMA IssueWriteType ==
  ASSUME TypeOK, NEW b \in Bots, NEW v \in Status, IssueWrite(b, v)
  PROVE  writes' \in [Bots -> [Status -> 0..MaxWrites]]
<1>1. writes[b] \in [Status -> 0..MaxWrites] /\ writes[b][v] \in 0..MaxWrites
  BY DEF TypeOK
<1>2. writes[b][v] + 1 \in 0..MaxWrites
  BY <1>1 DEF IssueWrite
<1>3. [writes[b] EXCEPT ![v] = @ + 1] \in [Status -> 0..MaxWrites]
  BY <1>1, <1>2
<1> QED BY <1>3 DEF IssueWrite, TypeOK

\* disableBot begins at most MaxLogouts logouts of the registered socket.
LEMMA DisableBotType ==
  ASSUME TypeOK, NEW b \in Bots, DisableBot(b)
  PROVE  /\ stopReason' \in [Bots -> {"none", "manual", "logout"}]
         /\ logouts' \in [Socks -> 0..MaxLogouts]
BY DEF DisableBot, TypeOK

\* What is on its way to the database when a device is unlinked still is.
LEMMA UnlinkedSaves ==
  ASSUME saving \subseteq Saves, NEW b \in Bots, Unlinked(b)
  PROVE  /\ saving' \subseteq Saves
         /\ \A v \in saving : \E w \in saving' : w.bot = v.bot
<1>1. ASSUME NEW v \in saving
      PROVE  RevokedSave(v, b) \in Saves /\ RevokedSave(v, b).bot = v.bot
  BY DEF RevokedSave, Saves
<1>2. saving' = {RevokedSave(v, b) : v \in saving}
  BY DEF Unlinked
<1> QED BY <1>1, <1>2

\* Steps that leave sockets, registry and logouts alone.
LEMMA QuietIInv ==
  ASSUME IInv,
         \/ Boot
         \/ \E b \in Bots :
              \/ \E op \in {"start", "disable"} : LookUp(b, op)
              \/ DeleteBot(b) \/ PhoneUnlinks(b)
              \/ \E v \in Status : StatusWriteLands(b, v)
         \/ \E s \in Socks :
              \/ CredsUpdate(s) \/ Message(s) \/ ReplyEnds(s)
              \/ PurgeStatus(s) \/ PurgeSession(s) \/ PurgeKeys(s)
         \/ \E v \in saving : SaveLands(v)
  PROVE  IInv'
<1> USE DEF IInv, TypeOK, NothingDangles, RegisteredIsOwn, NoDeafConnection,
      database, maps, sockets, awaits
<1>1. CASE Boot
  BY <1>1 DEF Boot, ActiveBots
<1>2. ASSUME NEW b \in Bots, NEW op \in {"start", "disable"}, LookUp(b, op)
      PROVE  IInv'
  BY <1>2 DEF LookUp
<1>3. ASSUME NEW b \in Bots, DeleteBot(b) PROVE IInv'
  BY <1>3 DEF DeleteBot
<1>4. ASSUME NEW b \in Bots, NEW v \in Status, StatusWriteLands(b, v) PROVE IInv'
  BY <1>4 DEF StatusWriteLands
<1>5. ASSUME NEW s \in Socks, CredsUpdate(s) PROVE IInv'
  <2>1. owner[s] \in Bots /\ creds'[s] \in {"linked", "revoked"}
    BY <1>5 DEF CredsUpdate
  <2>2. saving' \subseteq Saves
    BY <1>5, <2>1 DEF CredsUpdate, Saves
  <2> QED BY <1>5, <2>2 DEF CredsUpdate
<1>6. ASSUME NEW b \in Bots, PhoneUnlinks(b) PROVE IInv'
  <2>1. saving' \subseteq Saves
    BY <1>6, UnlinkedSaves DEF PhoneUnlinks
  <2> QED BY <1>6, <2>1 DEF PhoneUnlinks, Unlinked, CredsUnlinked, Revoked
<1>7. ASSUME NEW s \in Socks, Message(s) PROVE IInv'
  BY <1>7 DEF Message
<1>8. ASSUME NEW s \in Socks, ReplyEnds(s) PROVE IInv'
  BY <1>8 DEF ReplyEnds
<1>9. ASSUME NEW s \in Socks, PurgeStatus(s) PROVE IInv'
  BY <1>9 DEF PurgeStatus
<1>10. ASSUME NEW s \in Socks, PurgeSession(s) PROVE IInv'
  BY <1>10 DEF PurgeSession
<1>11. ASSUME NEW s \in Socks, PurgeKeys(s) PROVE IInv'
  BY <1>11 DEF PurgeKeys
<1>12. ASSUME NEW v \in saving, SaveLands(v) PROVE IInv'
  <2>1. v.bot \in Bots /\ v.creds \in {"linked", "revoked"}
    BY DEF Saves
  <2>2. session' \in [Bots -> {"none", "linked", "revoked"}]
    BY <1>12, <2>1 DEF SaveLands
  <2> QED BY <1>12, <2>2 DEF SaveLands
<1> HIDE DEF IInv
<1> QED BY <1>1, <1>2, <1>3, <1>4, <1>5, <1>6, <1>7, <1>8, <1>9, <1>10, <1>11,
        <1>12

\* startBot touches one unused identity at most, and only of a bot that is not
\* registered.
LEMMA StartBotTouchesOne ==
  ASSUME conn \in [Socks -> ConnStates], owner \in [Socks -> Bots \cup {None}],
         NEW b \in Bots, StartBot(b)
  PROVE  /\ conn' \in [Socks -> ConnStates]
         /\ owner' \in [Socks -> Bots \cup {None}]
         /\ \A s \in Socks :
              \/ conn'[s] = conn[s] /\ owner'[s] = owner[s]
              \/ /\ conn[s] = "unused" /\ conn'[s] = "auth"
                 /\ owner'[s] = b /\ bots[b] = None
<1>1. CASE Registered(b)
  BY <1>1 DEF StartBot
<1>2. CASE ~Registered(b)
  <2>1. PICK s \in Socks : /\ conn[s] = "unused"
                          /\ conn' = [conn EXCEPT ![s] = "auth"]
                          /\ owner' = [owner EXCEPT ![s] = b]
    BY <1>2 DEF StartBot
  <2>2. conn' \in [Socks -> ConnStates] /\ owner' \in [Socks -> Bots \cup {None}]
    BY <2>1
  <2>3. \A t \in Socks : conn'[t] = (IF t = s THEN "auth" ELSE conn[t])
                       /\ owner'[t] = (IF t = s THEN b ELSE owner[t])
    BY <2>1
  <2> QED BY <1>2, <2>1, <2>2, <2>3 DEF Registered
<1> QED BY <1>1, <1>2

\* startBot: an identity is given to a socket that waits for its credentials.
LEMMA StartBotIInv ==
  ASSUME IInv, NEW b \in Bots, StartBot(b),
         looked' \subseteq Requests, timers' \in [Bots -> 0..MaxTimers],
         UNCHANGED <<database, proc, maps, creds, wired, logouts, writes,
                     purge, replying, saving>>
  PROVE  IInv'
<1> USE DEF IInv, TypeOK, database, maps
<1>0. /\ conn' \in [Socks -> ConnStates]
      /\ owner' \in [Socks -> Bots \cup {None}]
      /\ \A s \in Socks :
           \/ conn'[s] = conn[s] /\ owner'[s] = owner[s]
           \/ /\ conn[s] = "unused" /\ conn'[s] = "auth"
              /\ owner'[s] = b /\ bots[b] = None
  BY StartBotTouchesOne
<1>1. TypeOK'
  <2>1. serial' \subseteq Bots
    BY DEF StartBot, BeginsOperation
  <2> QED BY <1>0, <2>1
<1>2. NothingDangles'
  <2>1. \A s \in Socks : conn'[s] # "unused" => owner'[s] \in Bots
    <3> SUFFICES ASSUME NEW s \in Socks, conn'[s] # "unused"
                 PROVE  owner'[s] \in Bots
      OBVIOUS
    <3> QED BY <1>0 DEF NothingDangles
  <2>6. \A s \in wired' : conn'[s] \in {"connecting", "open"}
    BY <1>0 DEF NothingDangles
  <2>2. \A s \in Socks : logouts'[s] > 0 => conn'[s] \in Begun
    BY <1>0 DEF NothingDangles
  <2>4. \A s \in Socks : purge'[s] # "idle" => conn'[s] \in Closed
    BY <1>0 DEF NothingDangles
  <2>5. \A s \in replying' : conn'[s] \in Begun
    BY <1>0 DEF NothingDangles
  <2>3. \A c \in Bots : handlers'[c] # None =>
          /\ owner'[handlers'[c]] = c
          /\ conn'[handlers'[c]] \in {"connecting"} \cup Begun
    <3> SUFFICES ASSUME NEW c \in Bots, handlers[c] # None
                 PROVE  /\ owner'[handlers[c]] = c
                        /\ conn'[handlers[c]] \in {"connecting"} \cup Begun
      OBVIOUS
    <3>1. /\ handlers[c] \in Socks /\ owner[handlers[c]] = c
          /\ conn[handlers[c]] \in {"connecting"} \cup Begun
      BY DEF NothingDangles
    <3> QED BY <1>0, <3>1
  <2> QED BY <2>1, <2>2, <2>3, <2>4, <2>5, <2>6 DEF NothingDangles
<1>3. RegisteredIsOwn'
  <2> SUFFICES ASSUME NEW c \in Bots, bots[c] # None
               PROVE  /\ owner'[bots[c]] = c
                      /\ conn'[bots[c]] \in {"open"} \cup Closed
    BY DEF RegisteredIsOwn
  <2>1. /\ bots[c] \in Socks /\ owner[bots[c]] = c
        /\ conn[bots[c]] \in {"open"} \cup Closed
    BY DEF RegisteredIsOwn
  <2> QED BY <1>0, <2>1
<1>4. NoDeafConnection'
  BY <1>0 DEF NoDeafConnection
<1> QED BY <1>1, <1>2, <1>3, <1>4

\* A socket is made with its handlers, and is not registered yet.
LEMMA CreateSocketIInv ==
  ASSUME IInv, NEW s \in Socks, CreateSocket(s)
  PROVE  IInv'
<1> USE DEF IInv, TypeOK, CreateSocket, SocketWith, AuthState,
      database, maps, sockets, awaits
<1>0. owner[s] \in Bots
  BY DEF NothingDangles
<1>1. TypeOK'
  BY <1>0
<1>2. NothingDangles'
  BY DEF NothingDangles, RegisteredIsOwn
<1>3. RegisteredIsOwn'
  BY DEF NothingDangles, RegisteredIsOwn
<1>4. NoDeafConnection'
  BY DEF NothingDangles, RegisteredIsOwn, NoDeafConnection
<1> QED BY <1>1, <1>2, <1>3, <1>4 DEF IInv

\* A start that fails gives its socket back, which nothing refers to.
LEMMA AuthFailsIInv ==
  ASSUME IInv, NEW s \in Socks, AuthFails(s)
  PROVE  IInv'
<1> USE DEF IInv, TypeOK, AuthFails, database, maps, sockets, awaits
<1>1. TypeOK'
  OBVIOUS
<1>2. NothingDangles'
  BY DEF NothingDangles, RegisteredIsOwn
<1>3. RegisteredIsOwn'
  BY DEF NothingDangles, RegisteredIsOwn
<1>4. NoDeafConnection'
  BY DEF NothingDangles, RegisteredIsOwn, NoDeafConnection
<1> QED BY <1>1, <1>2, <1>3, <1>4 DEF IInv

\* disableBot detaches handlers only from a socket whose logout it begins.
LEMMA DisableCallIInv ==
  ASSUME IInv, NEW b \in Bots, DisableCall(b)
  PROVE  IInv'
<1> USE DEF IInv, TypeOK, DisableCall, DisableBot, Detached,
      database, maps, sockets, awaits
<1>1. TypeOK'
  BY SMTT(30) DEF BeginsOperation
<1>2. NothingDangles'
  BY SMTT(30) DEF NothingDangles, RegisteredIsOwn
<1>3. RegisteredIsOwn'
  BY DEF NothingDangles, RegisteredIsOwn
<1>4. NoDeafConnection'
  BY DEF NothingDangles, RegisteredIsOwn, NoDeafConnection
<1> QED BY <1>1, <1>2, <1>3, <1>4 DEF IInv

\* disableBot ends by forgetting the bot, whose socket is closed by then.
LEMMA LogoutReturnsIInv ==
  ASSUME IInv, NEW s \in Socks, LogoutReturns(s)
  PROVE  IInv'
<1> USE DEF IInv, TypeOK, LogoutReturns, Unlinked, CredsUnlinked, Revoked,
      IssueWrite, database, maps, sockets, awaits
<1>0. owner[s] \in Bots
  BY DEF NothingDangles
<1>1. TypeOK'
  <2>1. writes' \in [Bots -> [Status -> 0..MaxWrites]]
    BY <1>0, IssueWriteType
  <2>2. conn' \in [Socks -> ConnStates]
    BY <1>0, SMTT(30)
  <2>6. session' \in [Bots -> {"none", "linked", "revoked"}]
    BY <1>0, SMTT(30)
  <2>5. logouts' \in [Socks -> 0..MaxLogouts]
    BY <1>0
  <2>3. creds' \in [Socks -> {"fresh", "linked", "revoked"}]
    BY <1>0
  <2>4. /\ bots' \in [Bots -> Socks \cup {None}]
        /\ handlers' \in [Bots -> Socks \cup {None}]
        /\ wired' \subseteq Socks
    BY <1>0
  <2>7. saving' \subseteq Saves
    BY <1>0, UnlinkedSaves
  <2> QED BY <2>1, <2>2, <2>3, <2>4, <2>5, <2>6, <2>7
<1>2. NothingDangles'
  <2>1. \A x \in Socks : conn'[x] # "unused" => owner'[x] \in Bots
    BY DEF NothingDangles
  <2>2. \A x \in wired' : conn'[x] \in {"connecting", "open"}
    BY DEF NothingDangles
  <2>3. \A x \in Socks : logouts'[x] > 0 => conn'[x] \in Begun
    BY DEF NothingDangles
  <2>4. \A x \in Socks : purge'[x] # "idle" => conn'[x] \in Closed
    BY DEF NothingDangles
  <2>5. \A x \in replying' : conn'[x] \in Begun
    BY DEF NothingDangles
  <2>6. \A c \in Bots : handlers'[c] # None =>
          /\ owner'[handlers'[c]] = c
          /\ conn'[handlers'[c]] \in {"connecting"} \cup Begun
    BY DEF NothingDangles
  <2> QED BY <2>1, <2>2, <2>3, <2>4, <2>5, <2>6 DEF NothingDangles
<1>3. RegisteredIsOwn'
  BY DEF NothingDangles, RegisteredIsOwn
<1>4. NoDeafConnection'
  BY DEF NothingDangles, RegisteredIsOwn, NoDeafConnection
<1> QED BY <1>1, <1>2, <1>3, <1>4 DEF IInv

\* Only an open socket of the bot itself is registered.
LEMMA OpenIInv ==
  ASSUME IInv, NEW s \in Socks, Open(s)
  PROVE  IInv'
<1> USE DEF IInv, TypeOK, Open, IssueWrite,
      database, maps, sockets, awaits
<1>0. owner[s] \in Bots
  BY DEF NothingDangles
<1>1. TypeOK'
  <2>1. writes' \in [Bots -> [Status -> 0..MaxWrites]]
    BY <1>0, IssueWriteType
  <2>2. conn' \in [Socks -> ConnStates]
    OBVIOUS
  <2>3. bots' \in [Bots -> Socks \cup {None}]
    BY <1>0
  <2> QED BY <2>1, <2>2, <2>3
<1>2. NothingDangles'
  BY DEF NothingDangles, RegisteredIsOwn
<1>3. RegisteredIsOwn'
  BY DEF NothingDangles, RegisteredIsOwn
<1>4. NoDeafConnection'
  BY DEF NothingDangles, RegisteredIsOwn, NoDeafConnection
<1> QED BY <1>1, <1>2, <1>3, <1>4 DEF IInv

\* A socket that closes is not live, so what it detaches leaves nothing deaf.
LEMMA CloseIInv ==
  ASSUME IInv, NEW s \in Socks, NEW how \in Closed, Close(s,how)
  PROVE  IInv'
<1> USE DEF IInv, TypeOK, Close, CloseHandler, Purges, Reconnects, DisableBot,
      Detached, database, maps, sockets, awaits
<1>0. owner[s] \in Bots
  BY DEF NothingDangles
<1>1. TypeOK'
  <2>1. /\ conn' \in [Socks -> ConnStates]
        /\ creds' \in [Socks -> {"fresh", "linked", "revoked"}]
    BY <1>0
  <2>2. timers' \in [Bots -> 0..MaxTimers]
    BY <1>0
  <2>5. purge' \in [Socks -> {"idle", "status", "session", "keys"}]
    BY <1>0
  <2>3. wired' \subseteq Socks
    BY <1>0
  <2>4. /\ stopReason' \in [Bots -> {"none", "manual", "logout"}]
        /\ logouts' \in [Socks -> 0..MaxLogouts]
    BY <1>0, DisableBotType
  <2> QED BY <2>1, <2>2, <2>3, <2>4, <2>5
<1>2. NothingDangles'
  <2>1. \A x \in Socks : conn'[x] # "unused" => owner'[x] \in Bots
    BY <1>0 DEF NothingDangles
  <2>2. \A x \in wired' : conn'[x] \in {"connecting", "open"}
    BY DEF NothingDangles
  <2>3. \A x \in Socks : logouts'[x] > 0 => conn'[x] \in Begun
    BY <1>0 DEF NothingDangles, RegisteredIsOwn
  <2>4. \A x \in Socks : purge'[x] # "idle" => conn'[x] \in Closed
    BY DEF NothingDangles
  <2>5. \A x \in replying' : conn'[x] \in Begun
    BY DEF NothingDangles
  <2>6. \A c \in Bots : handlers'[c] # None =>
          /\ owner'[handlers'[c]] = c
          /\ conn'[handlers'[c]] \in {"connecting"} \cup Begun
    BY DEF NothingDangles
  <2> QED BY <2>1, <2>2, <2>3, <2>4, <2>5, <2>6 DEF NothingDangles
<1>3. RegisteredIsOwn'
  BY DEF NothingDangles, RegisteredIsOwn
<1>4. NoDeafConnection'
  BY DEF NothingDangles, RegisteredIsOwn, NoDeafConnection
<1> QED BY <1>1, <1>2, <1>3, <1>4 DEF IInv

\* An identity is reused only when no map refers to its socket.
LEMMA CollectIInv ==
  ASSUME IInv, NEW s \in Socks, Collect(s)
  PROVE  IInv'
<1> USE DEF IInv, TypeOK, Collect, database, maps, sockets, awaits
<1>1. TypeOK'
  OBVIOUS
<1>2. NothingDangles'
  BY DEF NothingDangles, RegisteredIsOwn
<1>3. RegisteredIsOwn'
  BY DEF NothingDangles, RegisteredIsOwn
<1>4. NoDeafConnection'
  BY DEF NothingDangles, RegisteredIsOwn, NoDeafConnection
<1> QED BY <1>1, <1>2, <1>3, <1>4 DEF IInv

\* Every step preserves the invariant: one case per action.
LEMMA NextIInv == IInv /\ [Next]_vars => IInv'
<1> SUFFICES ASSUME IInv, [Next]_vars PROVE IInv'
  OBVIOUS
<1>1. CASE UNCHANGED vars
  BY <1>1 DEF vars, database, maps, sockets, awaits, IInv, TypeOK,
    NothingDangles, RegisteredIsOwn, NoDeafConnection
<1>2. CASE Crash
  BY <1>2, DiesIInv DEF Crash, IInv, TypeOK
<1>3. CASE Boot
  BY <1>3, QuietIInv
<1>4. ASSUME NEW b \in Bots, NEW op \in {"start", "disable"}, LookUp(b, op)
      PROVE  IInv'
  BY <1>4, QuietIInv
<1>5. ASSUME NEW b \in Bots, DeleteBot(b) \/ PhoneUnlinks(b) PROVE IInv'
  BY <1>5, QuietIInv
<1>6. ASSUME NEW b \in Bots, StartCall(b) \/ TimerFires(b) PROVE IInv'
  <2>1. /\ StartBot(b) /\ looked' \subseteq Requests
        /\ timers' \in [Bots -> 0..MaxTimers]
    BY <1>6 DEF StartCall, TimerFires, Retry, IInv, TypeOK
  <2> QED BY <1>6, <2>1, StartBotIInv DEF StartCall, TimerFires
<1>7. ASSUME NEW b \in Bots, DisableCall(b) PROVE IInv'
  BY <1>7, DisableCallIInv
<1>8. ASSUME NEW b \in Bots, NEW v \in Status, StatusWriteLands(b, v)
      PROVE  IInv'
  BY <1>8, QuietIInv
<1>9. ASSUME NEW b \in Bots, NEW v \in Status, StatusWriteFails(b, v)
      PROVE  IInv'
  BY <1>9, DiesIInv DEF StatusWriteFails, IInv, TypeOK
<1>10. ASSUME NEW s \in Socks, CreateSocket(s) \/ AuthFails(s) PROVE IInv'
  BY <1>10, CreateSocketIInv, AuthFailsIInv
<1>11. ASSUME NEW s \in Socks, LogoutReturns(s) PROVE IInv'
  BY <1>11, LogoutReturnsIInv
<1>12. ASSUME NEW s \in Socks,
              LogoutRejects(s) \/ ReplyRejects(s) \/ PurgeRejects(s)
       PROVE  IInv'
  BY <1>12, DiesIInv
  DEF LogoutRejects, ReplyRejects, PurgeRejects, IInv, TypeOK
<1>13. ASSUME NEW s \in Socks, Open(s) PROVE IInv'
  BY <1>13, OpenIInv
<1>14. ASSUME NEW s \in Socks, NEW how \in Closed, Close(s, how) PROVE IInv'
  BY <1>14, CloseIInv
<1>15. ASSUME NEW s \in Socks, CredsUpdate(s) \/ Message(s) \/ ReplyEnds(s)
       PROVE  IInv'
  BY <1>15, QuietIInv
<1>16. ASSUME NEW s \in Socks, PurgeStatus(s) \/ PurgeSession(s) \/ PurgeKeys(s)
       PROVE  IInv'
  BY <1>16, QuietIInv
<1>17. ASSUME NEW s \in Socks, Collect(s) PROVE IInv'
  BY <1>17, CollectIInv
<1>18. ASSUME NEW v \in saving, SaveLands(v) \/ SaveRejects(v) PROVE IInv'
  BY <1>18, QuietIInv, DiesIInv DEF SaveRejects, IInv, TypeOK
<1> QED BY <1>1, <1>2, <1>3, <1>4, <1>5, <1>6, <1>7, <1>8, <1>9, <1>10, <1>11,
        <1>12, <1>13, <1>14, <1>15, <1>16, <1>17, <1>18 DEF Next

\* The inductive invariant holds in every reachable state.
THEOREM Invariance == Spec => []IInv
BY InitIInv, NextIInv, PTL DEF Spec

\* Every variable always holds a value of its kind.
THEOREM TypeCorrect == Spec => []TypeOK
BY Invariance, PTL DEF IInv

\* The registry never holds another bot's socket or one that is not connected
\* yet, however starts, disables, drops and crashes are interleaved.
THEOREM RegistryCorrect == Spec => []RegisteredIsOwn
BY Invariance, PTL DEF IInv

\* No connection lives on without handlers, except until its logout returns.
THEOREM NoConnectionIsDeaf == Spec => []NoDeafConnection
BY Invariance, PTL DEF IInv

-----------------------------------------------------------------------------
(* Bots whose operations do not overlap.                                   *)

OneAlive ==
  \A s, t \in Socks : owner[s] \in serial /\ owner[t] = owner[s]
    /\ Alive(s) /\ Alive(t) => s = t
OpenIsRegistered ==
  \A s \in Socks : owner[s] \in serial /\ conn[s] = "open" => bots[owner[s]] = s
\* A logout under way is that of the one connection, if there is one.
LogoutOfTheOne ==
  \A s, t \in Socks : owner[s] \in serial /\ owner[t] = owner[s]
    /\ logouts[s] > 0 /\ Alive(t) => s = t
PurgeAlone ==
  \A s, t \in Socks : owner[s] \in serial /\ owner[t] = owner[s]
    /\ purge[s] # "idle" => ~Alive(t)
NoOffWrite ==
  \A s \in Socks : owner[s] \in serial /\ Alive(s) => writes[owner[s]]["off"] = 0
OpenHasCreds == \A s \in Socks : conn[s] = "open" => creds[s] # "fresh"
CredsStored ==
  \A s \in Socks : owner[s] \in serial /\ Live(s) /\ creds[s] # "fresh" =>
    session[owner[s]] # "none" \/ \E v \in saving : v.bot = owner[s]
OpenIsRecorded ==
  \A s \in Socks : owner[s] \in serial \cap rows /\ conn[s] = "open"
    /\ writes[owner[s]]["on"] = 0 => owner[s] \in active

SerialInv ==
  /\ OneAlive /\ OpenIsRegistered /\ LogoutOfTheOne /\ PurgeAlone
  /\ NoOffWrite /\ OpenHasCreds /\ CredsStored /\ OpenIsRecorded

\* Steps that leave the socket of every bot, its registration and its logouts
\* alone, or take a socket away.
LEMMA QuietSerial ==
  ASSUME IInv, SerialInv,
         \/ Boot
         \/ \E b \in Bots :
              \/ \E op \in {"start", "disable"} : LookUp(b, op)
              \/ DeleteBot(b) \/ PhoneUnlinks(b)
              \/ \E v \in Status : StatusWriteLands(b, v)
         \/ \E s \in Socks :
              \/ AuthFails(s) \/ CredsUpdate(s) \/ Message(s) \/ ReplyEnds(s)
              \/ PurgeStatus(s) \/ PurgeSession(s) \/ PurgeKeys(s)
              \/ Collect(s)
         \/ \E v \in saving : SaveLands(v)
  PROVE  SerialInv'
<1> USE DEF IInv, TypeOK, NothingDangles, RegisteredIsOwn, NoDeafConnection,
      Alive, SerialInv, OneAlive, OpenIsRegistered, LogoutOfTheOne, PurgeAlone,
      NoOffWrite, OpenHasCreds, CredsStored, OpenIsRecorded,
      database, maps, sockets, awaits
<1>1. CASE Boot
  BY <1>1 DEF Boot, ActiveBots
<1>2. ASSUME NEW b \in Bots, NEW op \in {"start", "disable"}, LookUp(b, op)
      PROVE  SerialInv'
  BY <1>2 DEF LookUp
<1>3. ASSUME NEW b \in Bots, DeleteBot(b) PROVE SerialInv'
  BY <1>3 DEF DeleteBot
<1>4. ASSUME NEW s \in Socks, AuthFails(s) PROVE SerialInv'
  BY <1>4 DEF AuthFails
<1>5. ASSUME NEW b \in Bots, NEW v \in Status, StatusWriteLands(b, v)
      PROVE  SerialInv'
  BY <1>5 DEF StatusWriteLands
<1>6. ASSUME NEW s \in Socks, CredsUpdate(s) PROVE SerialInv'
  <2>1. saving \subseteq saving'
        /\ [bot |-> owner[s], creds |-> creds'[s]] \in saving'
    BY <1>6 DEF CredsUpdate
  <2>2. \A t \in Socks : creds'[t] = "fresh" => creds[t] = "fresh"
    BY <1>6 DEF CredsUpdate
  <2>3. \A t \in Socks : t # s => creds'[t] = creds[t]
    BY <1>6 DEF CredsUpdate
  <2>4. \E v \in saving' : v.bot = owner[s]
    BY <2>1
  <2>5. CredsStored'
    BY <1>6, <2>1, <2>3, <2>4 DEF CredsUpdate
  <2> QED BY <1>6, <2>2, <2>5 DEF CredsUpdate
<1>7. ASSUME NEW b \in Bots, PhoneUnlinks(b) PROVE SerialInv'
  <2>1. \A v \in saving : \E w \in saving' : w.bot = v.bot
    BY <1>7, UnlinkedSaves DEF PhoneUnlinks
  <2>2. \A s \in Socks : creds'[s] = "fresh" <=> creds[s] = "fresh"
    BY <1>7 DEF PhoneUnlinks, CredsUnlinked, Revoked
  <2>3. \A c \in Bots : session'[c] = "none" <=> session[c] = "none"
    BY <1>7 DEF PhoneUnlinks, Unlinked, Revoked
  <2>4. CredsStored'
    BY <1>7, <2>1, <2>2, <2>3 DEF PhoneUnlinks
  <2> QED BY <1>7, <2>2, <2>4 DEF PhoneUnlinks
<1>8. ASSUME NEW s \in Socks, Message(s) PROVE SerialInv'
  BY <1>8 DEF Message
<1>9. ASSUME NEW s \in Socks, ReplyEnds(s) PROVE SerialInv'
  BY <1>9 DEF ReplyEnds
<1>10. ASSUME NEW s \in Socks, PurgeStatus(s) PROVE SerialInv'
  BY <1>10 DEF PurgeStatus
<1>11. ASSUME NEW s \in Socks, PurgeSession(s) PROVE SerialInv'
  BY <1>11 DEF PurgeSession
<1>12. ASSUME NEW s \in Socks, PurgeKeys(s) PROVE SerialInv'
  BY <1>12 DEF PurgeKeys
<1>13. ASSUME NEW s \in Socks, Collect(s) PROVE SerialInv'
  BY <1>13 DEF Collect
<1>14. ASSUME NEW v \in saving, SaveLands(v) PROVE SerialInv'
  <2>1. v.creds # "none" /\ v.bot \in Bots
    BY DEF Saves
  <2>2. CredsStored'
    BY <1>14, <2>1 DEF SaveLands
  <2> QED BY <1>14, <2>2 DEF SaveLands
<1> HIDE DEF IInv, SerialInv
<1> QED BY <1>1, <1>2, <1>3, <1>4, <1>5, <1>6, <1>7, <1>8, <1>9, <1>10, <1>11,
        <1>12, <1>13, <1>14

\* An empty memory has no operations that could overlap.
LEMMA DiesSerial ==
  ASSUME IInv, Dies
  PROVE  SerialInv'
BY DEF Dies, Alive, SerialInv, OneAlive, OpenIsRegistered, LogoutOfTheOne,
  PurgeAlone, NoOffWrite, OpenHasCreds, CredsStored, OpenIsRecorded, TypeOK

\* A start that keeps the bot serial begins when nothing of it is alive.
LEMMA StartBotSerial ==
  ASSUME IInv, SerialInv, NEW b \in Bots, StartBot(b),
         UNCHANGED <<database, proc, maps, creds, wired, logouts, writes,
                     purge, replying, saving>>
  PROVE  SerialInv'
<1> USE DEF IInv, TypeOK, SerialInv, Alive, StartBot, Registered,
      BeginsOperation, Busy, SocksOf, NoWrites, database, maps
<1>a. /\ conn' \in [Socks -> ConnStates]
      /\ owner' \in [Socks -> Bots \cup {None}]
      /\ \A s \in Socks :
           \/ conn'[s] = conn[s] /\ owner'[s] = owner[s]
           \/ /\ conn[s] = "unused" /\ conn'[s] = "auth"
              /\ owner'[s] = b /\ bots[b] = None
  BY StartBotTouchesOne
<1>b. serial' \subseteq serial
  BY DEF StartBot, BeginsOperation
<1>1. OneAlive'
  BY DEF OneAlive, OpenIsRegistered
<1>2. OpenIsRegistered'
  BY <1>a, <1>b DEF OpenIsRegistered
<1>0. ASSUME NEW t \in Socks, owner'[t] \in serial', Alive(t)', ~Alive(t)
      PROVE  owner'[t] = b /\ ~Busy(b)
  BY <1>0
<1>3. LogoutOfTheOne'
  <2> SUFFICES ASSUME NEW s \in Socks, NEW t \in Socks, owner'[s] \in serial',
                      owner'[t] = owner'[s], logouts[s] > 0, Alive(t)'
               PROVE  s = t
    BY DEF LogoutOfTheOne
  <2>0. conn[s] # "unused"
    BY DEF NothingDangles
  <2>1. owner'[s] = owner[s] /\ owner[s] \in serial
    BY <2>0
  <2>2. CASE Alive(t)
    BY <2>1, <2>2 DEF LogoutOfTheOne
  <2>3. CASE ~Alive(t)
    BY <1>0, <2>1, <2>3
  <2> QED BY <2>2, <2>3
<1>4. PurgeAlone'
  <2> SUFFICES ASSUME NEW s \in Socks, NEW t \in Socks, owner'[s] \in serial',
                      owner'[t] = owner'[s], purge[s] # "idle", Alive(t)'
               PROVE  FALSE
    BY DEF PurgeAlone
  <2>0. conn[s] # "unused"
    BY DEF NothingDangles
  <2>1. owner'[s] = owner[s] /\ owner[s] \in serial
    BY <2>0
  <2>2. CASE Alive(t)
    BY <2>1, <2>2 DEF PurgeAlone
  <2>3. CASE ~Alive(t)
    BY <1>0, <2>1, <2>3
  <2> QED BY <2>2, <2>3
<1>5. NoOffWrite'
  BY SMTT(30) DEF NoOffWrite
<1>6. OpenHasCreds' /\ CredsStored'
  <2>1. \A s \in Socks : Live(s)' => /\ conn'[s] = conn[s]
                                    /\ owner'[s] = owner[s] /\ Live(s)
    BY <1>a
  <2>2. OpenHasCreds'
    BY <2>1 DEF OpenHasCreds
  <2>3. CredsStored'
    BY <1>b, <2>1 DEF CredsStored
  <2> QED BY <2>2, <2>3
<1>7. OpenIsRecorded'
  BY DEF OpenIsRecorded
<1> QED BY <1>1, <1>2, <1>3, <1>4, <1>5, <1>6, <1>7

\* The start that waited for its credentials is still the only one.
LEMMA CreateSocketSerial ==
  ASSUME IInv, SerialInv, NEW s \in Socks, CreateSocket(s)
  PROVE  SerialInv'
<1> USE DEF IInv, TypeOK, NothingDangles, SerialInv, Alive, CreateSocket,
      SocketWith, AuthState, database, awaits
<1>1. OneAlive' /\ OpenIsRegistered'
  BY DEF OneAlive, OpenIsRegistered
<1>2. LogoutOfTheOne' /\ PurgeAlone' /\ NoOffWrite'
  BY DEF LogoutOfTheOne, PurgeAlone, NoOffWrite
<1>3. OpenHasCreds' /\ CredsStored' /\ OpenIsRecorded'
  BY DEF OpenHasCreds, CredsStored, OpenIsRecorded
<1> QED BY <1>1, <1>2, <1>3

\* A disableBot that keeps the bot serial logs out its one connection.
LEMMA DisableCallSerial ==
  ASSUME IInv, SerialInv, NEW b \in Bots, DisableCall(b)
  PROVE  SerialInv'
<1> USE DEF IInv, TypeOK, RegisteredIsOwn, SerialInv, Alive, DisableCall,
      DisableBot, BeginsOperation, Busy, SocksOf, database
<1>1. OneAlive' /\ OpenIsRegistered' /\ PurgeAlone'
  BY DEF OneAlive, OpenIsRegistered, PurgeAlone
<1>2. LogoutOfTheOne'
  <2> SUFFICES ASSUME NEW s \in Socks, NEW t \in Socks, owner[s] \in serial',
                      owner[t] = owner[s], logouts'[s] > 0, Alive(t)
               PROVE  s = t
    BY DEF LogoutOfTheOne
  <2>1. owner[s] \in serial
    OBVIOUS
  <2>2. CASE logouts[s] > 0
    BY <2>1, <2>2 DEF LogoutOfTheOne
  <2>3. CASE ~(logouts[s] > 0)
    <3>1. bots[b] = s /\ owner[s] = b
      BY <2>3
    <3>2. ~Busy(b)
      BY <3>1
    <3>3. conn[t] = "open"
      BY <3>1, <3>2
    <3> QED BY <2>1, <3>1, <3>3 DEF OpenIsRegistered
  <2> QED BY <2>2, <2>3
<1>3. NoOffWrite' /\ OpenHasCreds' /\ CredsStored' /\ OpenIsRecorded'
  BY DEF NoOffWrite, OpenHasCreds, CredsStored, OpenIsRecorded
<1> QED BY <1>1, <1>2, <1>3

\* The logout is that of the one connection, so what it deregisters is closed.
LEMMA LogoutReturnsSerial ==
  ASSUME IInv, SerialInv, NEW s \in Socks, LogoutReturns(s)
  PROVE  SerialInv'
<1> USE DEF IInv, TypeOK, NothingDangles, RegisteredIsOwn, SerialInv, Alive,
      LogoutReturns
<1>1. OneAlive' /\ OpenIsRegistered'
  BY DEF OneAlive, OpenIsRegistered, LogoutOfTheOne
<1>2. LogoutOfTheOne' /\ PurgeAlone'
  BY DEF LogoutOfTheOne, PurgeAlone
<1>3. NoOffWrite'
  BY DEF NoOffWrite, LogoutOfTheOne, IssueWrite
<1>0. ASSUME Live(s), NEW x \in Socks, x # s
      PROVE  creds'[x] = "fresh" <=> creds[x] = "fresh"
  <2>1. creds' = [CredsUnlinked(owner[s]) EXCEPT ![s] = "fresh"]
    BY <1>0
  <2>2. creds'[x] = IF owner[x] = owner[s] THEN Revoked(creds[x]) ELSE creds[x]
    BY <1>0, <2>1 DEF CredsUnlinked
  <2> QED BY <2>2 DEF Revoked
<1>4. OpenHasCreds'
  BY <1>0 DEF OpenHasCreds
<1>5. CredsStored'
  <2>1. CASE Live(s)
    <3> SUFFICES ASSUME NEW x \in Socks, owner[x] \in serial, Live(x)',
                        creds'[x] # "fresh"
                 PROVE  \/ session'[owner[x]] # "none"
                        \/ \E v \in saving' : v.bot = owner[x]
      BY DEF CredsStored
    <3>0. x # s
      BY <2>1
    <3>1. Live(x) /\ creds[x] # "fresh"
      BY <1>0, <2>1, <3>0
    <3>2. owner[x] # owner[s]
      BY <3>0, <3>1 DEF LogoutOfTheOne
    <3>3. session'[owner[x]] = session[owner[x]]
      BY <2>1, <3>2 DEF Unlinked
    <3>4. \A v \in saving : \E w \in saving' : w.bot = v.bot
      BY <2>1, UnlinkedSaves
    <3> QED BY <3>1, <3>3, <3>4 DEF CredsStored
  <2>2. CASE ~Live(s)
    BY <2>2 DEF CredsStored
  <2> QED BY <2>1, <2>2
<1>6. OpenIsRecorded'
  BY DEF OpenIsRecorded, LogoutOfTheOne, IssueWrite
<1> QED BY <1>1, <1>2, <1>3, <1>4, <1>5, <1>6

\* The one connection opens, is registered, and its status is written.
LEMMA OpenSerial ==
  ASSUME IInv, SerialInv, NEW s \in Socks, Open(s)
  PROVE  SerialInv'
<1> USE DEF IInv, TypeOK, NothingDangles, NoDeafConnection, RegisteredIsOwn,
      SerialInv, Alive, Open, database
<1>1. OneAlive' /\ OpenIsRegistered'
  BY DEF OneAlive, OpenIsRegistered
<1>2. LogoutOfTheOne' /\ PurgeAlone'
  BY DEF LogoutOfTheOne, PurgeAlone
<1>3. NoOffWrite'
  BY DEF NoOffWrite, IssueWrite
<1>5. OpenIsRecorded'
  BY DEF OpenIsRecorded, OneAlive, IssueWrite
<1>4. OpenHasCreds' /\ CredsStored'
  BY DEF OpenHasCreds, CredsStored
<1> QED BY <1>1, <1>2, <1>3, <1>4, <1>5

\* The disableBot of a purge finds the socket that closed, or one that had
\* closed before: nothing of the bot is alive any more.
LEMMA CloseSerial ==
  ASSUME IInv, SerialInv, NEW s \in Socks, NEW how \in Closed, Close(s, how)
  PROVE  SerialInv'
<1> USE DEF IInv, TypeOK, NothingDangles, RegisteredIsOwn, SerialInv, Alive,
      Close, CloseHandler, DisableBot, database
<1>1. OneAlive' /\ OpenIsRegistered'
  BY DEF OneAlive, OpenIsRegistered
<1>2. LogoutOfTheOne'
  <2> SUFFICES ASSUME NEW x \in Socks, NEW y \in Socks, owner[x] \in serial,
                      owner[y] = owner[x], logouts'[x] > 0, Alive(y)'
               PROVE  x = y
    BY DEF LogoutOfTheOne
  <2>1. y # s /\ Alive(y)
    OBVIOUS
  <2>2. CASE logouts[x] > 0
    BY <2>1, <2>2 DEF LogoutOfTheOne
  <2>3. CASE ~(logouts[x] > 0)
    <3>0. owner[s] \in Bots
      OBVIOUS
    <3>1. x = bots[owner[s]]
      BY <2>3, <3>0
    <3>2. owner[x] = owner[s]
      BY <3>0, <3>1
    <3> QED BY <2>1, <3>2 DEF OneAlive
  <2> QED BY <2>2, <2>3
<1>3. PurgeAlone'
  BY DEF PurgeAlone, OneAlive
<1>4. NoOffWrite' /\ OpenHasCreds'
  BY DEF NoOffWrite, OpenHasCreds
<1>5. CredsStored' /\ OpenIsRecorded'
  BY DEF CredsStored, OpenIsRecorded
<1> QED BY <1>1, <1>2, <1>3, <1>4, <1>5

\* Every step preserves what serial bots rely on.
LEMMA NextSerial == IInv /\ SerialInv /\ [Next]_vars => SerialInv'
<1> SUFFICES ASSUME IInv, SerialInv, [Next]_vars PROVE SerialInv'
  OBVIOUS
<1>1. CASE UNCHANGED vars
  BY <1>1 DEF vars, database, maps, sockets, awaits, SerialInv,
    Alive, OneAlive, OpenIsRegistered, LogoutOfTheOne, PurgeAlone, NoOffWrite,
    OpenHasCreds, CredsStored, OpenIsRecorded
<1>2. CASE Crash
  BY <1>2, DiesSerial DEF Crash
<1>3. CASE Boot
  BY <1>3, QuietSerial
<1>4. ASSUME NEW b \in Bots, NEW op \in {"start", "disable"}, LookUp(b, op)
      PROVE  SerialInv'
  BY <1>4, QuietSerial
<1>5. ASSUME NEW b \in Bots, DeleteBot(b) \/ PhoneUnlinks(b) PROVE SerialInv'
  BY <1>5, QuietSerial
<1>6. ASSUME NEW b \in Bots, StartCall(b) \/ TimerFires(b) PROVE SerialInv'
  BY <1>6, StartBotSerial DEF StartCall, TimerFires, Retry
<1>7. ASSUME NEW b \in Bots, DisableCall(b) PROVE SerialInv'
  BY <1>7, DisableCallSerial
<1>8. ASSUME NEW b \in Bots, NEW v \in Status, StatusWriteLands(b, v)
      PROVE  SerialInv'
  BY <1>8, QuietSerial
<1>9. ASSUME NEW b \in Bots, NEW v \in Status, StatusWriteFails(b, v)
      PROVE  SerialInv'
  BY <1>9, DiesSerial DEF StatusWriteFails
<1>10. ASSUME NEW s \in Socks, CreateSocket(s) \/ Open(s) PROVE SerialInv'
  BY <1>10, CreateSocketSerial, OpenSerial
<1>11. ASSUME NEW s \in Socks, LogoutReturns(s) PROVE SerialInv'
  BY <1>11, LogoutReturnsSerial
<1>12. ASSUME NEW s \in Socks,
              LogoutRejects(s) \/ ReplyRejects(s) \/ PurgeRejects(s)
       PROVE  SerialInv'
  BY <1>12, DiesSerial DEF LogoutRejects, ReplyRejects, PurgeRejects
<1>13. ASSUME NEW s \in Socks, NEW how \in Closed, Close(s, how)
       PROVE  SerialInv'
  BY <1>13, CloseSerial
<1>14. ASSUME NEW s \in Socks,
              \/ AuthFails(s) \/ CredsUpdate(s) \/ Message(s) \/ ReplyEnds(s)
              \/ Collect(s)
       PROVE  SerialInv'
  BY <1>14, QuietSerial
<1>15. ASSUME NEW s \in Socks, PurgeStatus(s) \/ PurgeSession(s) \/ PurgeKeys(s)
       PROVE  SerialInv'
  BY <1>15, QuietSerial
<1>16. ASSUME NEW v \in saving, SaveLands(v) \/ SaveRejects(v) PROVE SerialInv'
  BY <1>16, QuietSerial, DiesSerial DEF SaveRejects
<1> QED BY <1>1, <1>2, <1>3, <1>4, <1>5, <1>6, <1>7, <1>8, <1>9, <1>10, <1>11,
        <1>12, <1>13, <1>14, <1>15, <1>16 DEF Next

\* What serial bots rely on is never lost.
LEMMA SerialInvariance == Spec => [](IInv /\ SerialInv)
<1>1. Init => SerialInv
  BY DEF Init, FreshMemory, SerialInv, Alive, OneAlive, OpenIsRegistered,
    LogoutOfTheOne, PurgeAlone, NoOffWrite, OpenHasCreds, CredsStored,
    OpenIsRecorded
<1> QED BY <1>1, Invariance, NextSerial, PTL DEF Spec

\* A bot whose operations do not overlap has at most one connection, and an
\* open one is the registered one.
THEOREM OneConnection == Spec => []SerialBotHasOneConnection
<1>1. IInv /\ SerialInv => SerialBotHasOneConnection
  BY DEF IInv, TypeOK, SerialInv, OneAlive, OpenIsRegistered,
    SerialBotHasOneConnection, SocksOf
<1> QED BY <1>1, SerialInvariance, PTL

\* Such a bot, once connected and recorded, is started with its credentials
\* after a crash.
THEOREM SurvivesCrash == Spec => []ConnectedBotSurvivesCrash
<1>1. IInv /\ SerialInv => ConnectedBotSurvivesCrash
  BY DEF IInv, TypeOK, RegisteredIsOwn, SerialInv, OpenIsRecorded,
    OpenHasCreds, CredsStored, ConnectedBotSurvivesCrash
<1> QED BY <1>1, SerialInvariance, PTL

-----------------------------------------------------------------------------
(* BaileysBots implements BotRegistry                                      *)

\* A serial bot has one socket that is alive, registered or being logged out,
\* and only bots that are observed are serial.
OneHeld ==
  /\ serial \subseteq Observed
  /\ \A s, t \in Socks : owner[s] \in serial /\ owner[t] = owner[s]
       /\ Held(s) /\ Held(t) => s = t

At(s, stage) == [client |-> s, stage |-> stage]

\* An identity that is not in use is no socket of a bot.
LEMMA UnusedNotHeld ==
  ASSUME IInv, NEW s \in Socks, conn[s] = "unused", owner[s] \in Bots
  PROVE  ~Held(s)
BY DEF IInv, TypeOK, NothingDangles, RegisteredIsOwn, Held, Alive

\* What a bot keeps: its one socket, or nothing.
LEMMA KeepsOne ==
  ASSUME OneHeld, NEW s \in Socks, owner[s] \in serial, Held(s)
  PROVE  Kept(owner[s]) = {At(s, Stage(s))}
BY DEF OneHeld, Kept, SocksOf, At

LEMMA KeepsOneNext ==
  ASSUME OneHeld', NEW s \in Socks, owner'[s] \in serial', Held(s)',
         NEW b, b = owner'[s]
  PROVE  Kept(b)' = {At(s, Stage(s)')}
BY DEF OneHeld, Kept, SocksOf, At

LEMMA KeepsNone ==
  ASSUME NEW b, \A s \in Socks : b \in serial /\ owner[s] = b => ~Held(s)
  PROVE  Kept(b) = {}
BY DEF Kept, SocksOf

LEMMA KeepsNoneNext ==
  ASSUME NEW b, \A s \in Socks : b \in serial' /\ owner'[s] = b => ~Held(s)'
  PROVE  Kept(b)' = {}
BY DEF Kept, SocksOf

\* A bot whose sockets a step leaves alone keeps what it has.
LEMMA KeepsSame ==
  ASSUME NEW b, b \in serial' <=> b \in serial,
         \A s \in Socks : (owner'[s] = b /\ Held(s)') <=> (owner[s] = b /\ Held(s)),
         \A s \in Socks : owner[s] = b /\ Held(s) => Stage(s)' = Stage(s)
  PROVE  Kept(b)' = Kept(b)
BY DEF Kept, SocksOf

\* What a step may do to the one socket of a bot.
Moves(b) ==
  \E s \in Socks :
    \/ /\ Kept(b) = {} /\ Kept(b)' = {At(s, "starting")}
       /\ \A d \in Observed, stage \in Registry!Stages : At(s, stage) \notin Kept(d)
    \/ Kept(b) = {At(s, "starting")} /\ Kept(b)' \in {{}, {At(s, "on")}}
    \/ Kept(b) = {At(s, "on")} /\ Kept(b)' \in {{At(s, "dropped")}, {At(s, "stopping")}}
    \/ Kept(b) = {At(s, "dropped")} /\ Kept(b)' = {At(s, "stopping")}
    \/ Kept(b) = {At(s, "stopping")} /\ Kept(b)' = {}

\* Steps of the registry are those of one bot.
LEMMA OneBotMoves ==
  ASSUME OneHeld, NEW b \in Bots, \A d \in Observed \ {b} : Kept(d)' = Kept(d),
         serial' \in {serial, serial \ {b}},
         b \in serial' => Moves(b) \/ Kept(b)' = Kept(b)
  PROVE  Registry!Next \/ UNCHANGED Registry!vars
<1> DEFINE now == [d \in Observed |-> Kept(d)]
           next == [d \in Observed |-> Kept(d)']
<1>0. \A d : d \notin serial => Kept(d) = {}
  BY DEF Kept
<1>00. \A d : d \notin serial' => Kept(d)' = {}
  BY DEF Kept
<1>1. CASE b \notin serial
  <2>1. serial' = serial /\ Kept(b)' = Kept(b)
    BY <1>1, <1>0, <1>00
  <2>2. next = now
    BY <2>1
  <2> QED BY <2>1, <2>2 DEF Registry!vars
<1>2. CASE b \in serial /\ b \notin serial'
  <2>1. serial' = serial \ {b} /\ Kept(b)' = {} /\ b \in Observed
    BY <1>2, <1>00 DEF OneHeld
  <2>2. next = [now EXCEPT ![b] = {}]
    BY <2>1
  <2>3. Registry!Overlaps(b)
    BY <2>1, <2>2 DEF Registry!Overlaps
  <2> QED BY <1>2, <2>3 DEF Registry!Next
<1>3. CASE b \in serial'
  <2>1. serial' = serial /\ b \in Observed /\ b \in serial
    BY <1>3 DEF OneHeld
  <2>2. CASE Kept(b)' = Kept(b)
    <3>1. next = now
      BY <2>2
    <3> QED BY <2>1, <3>1 DEF Registry!vars
  <2>3. CASE Moves(b)
    <3>1. next = [now EXCEPT ![b] = Kept(b)'] /\ now[b] = Kept(b)
      BY <2>1
    <3>2. PICK s \in Socks :
            \/ /\ Kept(b) = {} /\ Kept(b)' = {At(s, "starting")}
               /\ \A d \in Observed, stage \in Registry!Stages : At(s, stage) \notin Kept(d)
            \/ Kept(b) = {At(s, "starting")} /\ Kept(b)' \in {{}, {At(s, "on")}}
            \/ Kept(b) = {At(s, "on")} /\ Kept(b)' \in {{At(s, "dropped")}, {At(s, "stopping")}}
            \/ Kept(b) = {At(s, "dropped")} /\ Kept(b)' = {At(s, "stopping")}
            \/ Kept(b) = {At(s, "stopping")} /\ Kept(b)' = {}
      BY <2>3 DEF Moves
    <3>3. Registry!Step(b)
      <4>1. CASE /\ Kept(b) = {} /\ Kept(b)' = {At(s, "starting")}
                 /\ \A d \in Observed, stage \in Registry!Stages : At(s, stage) \notin Kept(d)
        <5>1. \A d \in Observed, stage \in Registry!Stages : Registry!At(s, stage) \notin now[d]
          BY <4>1 DEF At, Registry!At
        <5>2. next = [now EXCEPT ![b] = {Registry!At(s, "starting")}]
          BY <3>1, <4>1 DEF At, Registry!At
        <5>3. Registry!Start(b)
          BY <3>1, <4>1, <5>1, <5>2 DEF Registry!Start
        <5> QED BY <2>1, <5>3 DEF Registry!Step
      <4>2. ASSUME NEW from, NEW to, Kept(b) = {At(s, from)}, Kept(b)' = {At(s, to)}
            PROVE  Registry!Goes(b, from, to)
        <5>1. next = [now EXCEPT ![b] = {Registry!At(s, to)}] /\ now[b] = {Registry!At(s, from)}
          BY <3>1, <4>2 DEF At, Registry!At
        <5> QED BY <5>1 DEF Registry!Goes
      <4>3. ASSUME NEW from, Kept(b) = {At(s, from)}, Kept(b)' = {}
            PROVE  Registry!Ends(b, from)
        <5>1. next = [now EXCEPT ![b] = {}] /\ now[b] = {Registry!At(s, from)}
          BY <3>1, <4>3 DEF At, Registry!At
        <5> QED BY <5>1 DEF Registry!Ends
      <4> QED BY <2>1, <3>2, <4>1, <4>2, <4>3 DEF Registry!Step
    <3> QED BY <2>1, <3>3 DEF Registry!Next
  <2> QED BY <1>3, <2>2, <2>3
<1> QED BY <1>1, <1>2, <1>3

\* The process ends: nobody has a client.
LEMMA DiesRestarts ==
  ASSUME Dies
  PROVE  Registry!Next /\ OneHeld'
<1>1. \A b \in Bots, s \in Socks : owner'[s] # b
  BY DEF Dies
<1>2. \A b \in Observed : Kept(b)' = {}
  BY <1>1 DEF Kept, SocksOf
<1>3. serial' = Observed
  BY DEF Dies
<1>4. Registry!Restart
  BY <1>2, <1>3 DEF Registry!Restart
<1>5. OneHeld'
  BY <1>1, <1>3 DEF OneHeld
<1> QED BY <1>4, <1>5 DEF Registry!Next

\* Steps that leave sockets, their registration and their logouts alone.
LEMMA QuietRegistry ==
  ASSUME OneHeld, UNCHANGED <<owner, bots, serial, logouts>>,
         \A s \in Socks : \/ conn'[s] = conn[s]
                          \/ conn[s] = "auth" /\ conn'[s] = "connecting"
  PROVE  UNCHANGED Registry!vars /\ OneHeld'
<1>1. \A s \in Socks : (Held(s)' <=> Held(s)) /\ Stage(s)' = Stage(s)
  BY DEF Held, Alive, Stage
<1>2. \A b \in Observed : Kept(b)' = Kept(b)
  BY <1>1, KeepsSame
<1>3. OneHeld'
  BY <1>1 DEF OneHeld
<1> QED BY <1>2, <1>3 DEF Registry!vars

\* A start makes a socket for a bot that has none, unless it overlaps.
LEMMA StartRegistry ==
  ASSUME IInv, SerialInv, OneHeld, NEW b \in Bots, StartBot(b),
         UNCHANGED <<bots, logouts>>
  PROVE  (Registry!Next \/ UNCHANGED Registry!vars) /\ OneHeld'
<1>0. /\ bots \in [Bots -> Socks \cup {None}] /\ conn \in [Socks -> ConnStates]
      /\ owner \in [Socks -> Bots \cup {None}]
  BY DEF IInv, TypeOK
<1>1. CASE Registered(b)
  BY <1>1, QuietRegistry DEF StartBot
<1>2. CASE ~Registered(b)
  <2>1. PICK s \in Socks :
          /\ conn[s] = "unused"
          /\ conn' = [conn EXCEPT ![s] = "auth"] /\ owner' = [owner EXCEPT ![s] = b]
    BY <1>2 DEF StartBot
  <2>2. /\ owner'[s] = b /\ conn'[s] = "auth" /\ bots[b] = None
        /\ \A t \in Socks \ {s} : owner'[t] = owner[t] /\ conn'[t] = conn[t]
    BY <1>0, <1>2, <2>1 DEF Registered
  <2>3. logouts[s] = 0
    BY <2>1 DEF IInv, TypeOK, NothingDangles
  <2>4. \A t \in Socks \ {s} : (Held(t)' <=> Held(t)) /\ Stage(t)' = Stage(t)
    BY <2>2 DEF Held, Alive, Stage
  <2>5. \A d \in Bots : owner[s] = d => ~Held(s)
    BY <2>1, UnusedNotHeld
  <2>6. serial' = IF Busy(b) THEN serial \ {b} ELSE serial
    BY <1>2 DEF StartBot, BeginsOperation
  <2>7. \A d \in Observed \ {b} : Kept(d)' = Kept(d)
    <3> SUFFICES ASSUME NEW d \in Observed, d # b PROVE Kept(d)' = Kept(d)
      OBVIOUS
    <3>1. d \in Bots
      BY DEF OneHeld
    <3>2. \A t \in Socks : (owner'[t] = d /\ Held(t)') <=> (owner[t] = d /\ Held(t))
      BY <2>2, <2>4, <2>5, <3>1
    <3>3. \A t \in Socks : owner[t] = d /\ Held(t) => Stage(t)' = Stage(t)
      BY <2>4, <2>5, <3>1
    <3> QED BY <2>6, <3>2, <3>3, KeepsSame
  <2>8. ASSUME b \in serial'
        PROVE  \A t \in Socks : owner[t] = b => ~Held(t)
    <3> SUFFICES ASSUME NEW t \in Socks, owner[t] = b, Held(t) PROVE FALSE
      OBVIOUS
    <3>1. ~Busy(b) /\ b \in serial
      BY <2>6, <2>8
    <3>2. conn[t] \notin {"auth", "connecting"} /\ ~(logouts[t] > 0)
      BY <3>1 DEF Busy, SocksOf
    <3>3. conn[t] = "open" => bots[b] = t
      BY <3>1 DEF SerialInv, OpenIsRegistered
    <3> QED BY <2>2, <3>2, <3>3 DEF Held, Alive
  <2>9. OneHeld'
    <3>1. serial' \subseteq Observed
      BY <2>6 DEF OneHeld
    <3>2. ASSUME NEW t \in Socks, NEW u \in Socks, owner'[t] \in serial',
                 owner'[u] = owner'[t], Held(t)', Held(u)'
          PROVE  t = u
      <4>1. CASE t # s /\ u # s
        BY <2>2, <2>4, <2>6, <3>2, <4>1 DEF OneHeld
      <4>2. CASE t = s /\ u # s
        BY <2>2, <2>4, <2>8, <3>2, <4>2
      <4>3. CASE t # s /\ u = s
        BY <2>2, <2>4, <2>8, <3>2, <4>3
      <4> QED BY <4>1, <4>2, <4>3
    <3> QED BY <3>1, <3>2 DEF OneHeld
  <2>10. ASSUME b \in serial' PROVE Moves(b)
    <3>1. Kept(b) = {}
      BY <2>8, <2>10, KeepsNone
    <3>2. Held(s)' /\ Stage(s)' = "starting"
      BY <2>2, <2>3 DEF Held, Alive, Stage
    <3>3. Kept(b)' = {At(s, "starting")}
      BY <2>2, <2>9, <2>10, <3>2, KeepsOneNext
    <3>4. \A d \in Observed, stage \in Registry!Stages : At(s, stage) \notin Kept(d)
      <4> SUFFICES ASSUME NEW d \in Observed PROVE \A k \in Kept(d) : k.client # s
        BY DEF At
      <4>1. d \in Bots
        BY DEF OneHeld
      <4> QED BY <2>5, <4>1 DEF Kept, SocksOf
    <3> QED BY <3>1, <3>3, <3>4 DEF Moves
  <2>11. serial' \in {serial, serial \ {b}}
    BY <2>6
  <2> QED BY <2>7, <2>9, <2>10, <2>11, OneBotMoves
<1> QED BY <1>1, <1>2

\* Steps about one socket of a bot, and perhaps about what is registered for it.
Touches(s, b) ==
  /\ owner[s] = b /\ owner'[s] \in {b, None}
  /\ \A d \in Bots \ {b} : bots'[d] = bots[d]
  /\ \A t \in Socks \ {s} :
       /\ conn'[t] = conn[t] /\ owner'[t] = owner[t]
       /\ owner[t] # b => logouts'[t] = logouts[t]

\* They leave the sockets of other bots alone.
LEMMA OthersKeep ==
  ASSUME NEW s \in Socks, NEW b \in Bots, Touches(s, b), NEW d \in Bots, d # b,
         d \in serial' <=> d \in serial
  PROVE  /\ \A t \in Socks : (owner'[t] = d /\ Held(t)') <=> (owner[t] = d /\ Held(t))
         /\ Kept(d)' = Kept(d)
<1>1. ASSUME NEW t \in Socks, owner[t] = d
      PROVE  owner'[t] = d /\ (Held(t)' <=> Held(t)) /\ Stage(t)' = Stage(t)
  <2>1. t # s /\ owner'[t] = d /\ conn'[t] = conn[t] /\ logouts'[t] = logouts[t]
        /\ bots'[d] = bots[d]
    BY <1>1 DEF Touches
  <2> QED BY <1>1, <2>1 DEF Held, Alive, Stage
<1>2. \A t \in Socks : owner'[t] = d => owner[t] = d
  BY DEF Touches
<1> QED BY <1>1, <1>2, KeepsSame

\* So it is for this bot to move as it may, and to have one socket at most.
LEMMA TouchRegistry ==
  ASSUME OneHeld, NEW s \in Socks, NEW b \in Bots, Touches(s, b),
         serial' \in {serial, serial \ {b}},
         b \in serial' =>
           /\ \A t, u \in Socks : owner'[t] = b /\ owner'[u] = b
                                    /\ Held(t)' /\ Held(u)' => t = u
           /\ Moves(b) \/ Kept(b)' = Kept(b)
  PROVE  (Registry!Next \/ UNCHANGED Registry!vars) /\ OneHeld'
<1>1. \A d \in Observed \ {b} : Kept(d)' = Kept(d)
  BY OthersKeep DEF OneHeld
<1>2. OneHeld'
  <2>1. serial' \subseteq Observed
    BY DEF OneHeld
  <2>2. ASSUME NEW t \in Socks, NEW u \in Socks, owner'[t] \in serial',
               owner'[u] = owner'[t], Held(t)', Held(u)'
        PROVE  t = u
    <3>1. CASE owner'[t] = b
      BY <2>2, <3>1
    <3>2. CASE owner'[t] # b
      <4>1. PICK d : d = owner'[t]
        OBVIOUS
      <4>2. d \in Bots /\ d # b /\ d \in serial /\ d \in serial'
        BY <2>2, <3>2, <4>1 DEF OneHeld
      <4>3. owner[t] = d /\ Held(t) /\ owner[u] = d /\ Held(u)
        BY <2>2, <4>1, <4>2, OthersKeep
      <4> QED BY <4>2, <4>3 DEF OneHeld
    <3> QED BY <3>1, <3>2
  <2> QED BY <2>1, <2>2 DEF OneHeld
<1> QED BY <1>1, <1>2, OneBotMoves

\* A start that fails has no socket.
LEMMA AuthFailsRegistry ==
  ASSUME IInv, OneHeld, NEW s \in Socks, AuthFails(s)
  PROVE  (Registry!Next \/ UNCHANGED Registry!vars) /\ OneHeld'
<1>1. /\ conn[s] = "auth" /\ conn' = [conn EXCEPT ![s] = "unused"]
      /\ owner' = [owner EXCEPT ![s] = None] /\ UNCHANGED <<bots, logouts, serial>>
  BY DEF AuthFails, maps, awaits
<1>2. PICK b \in Bots : b = owner[s]
  BY <1>1 DEF IInv, NothingDangles
<1>3. /\ owner'[s] = None /\ logouts[s] = 0
      /\ \A t \in Socks \ {s} : owner'[t] = owner[t] /\ conn'[t] = conn[t]
  BY <1>1 DEF IInv, TypeOK, NothingDangles
<1>4. Touches(s, b)
  BY <1>1, <1>2, <1>3 DEF Touches
<1>5. Held(s) /\ Stage(s) = "starting"
  BY <1>1, <1>3 DEF Held, Alive, Stage
<1>6. ASSUME b \in serial'
      PROVE  /\ \A t \in Socks : owner'[t] = b => ~Held(t)'
             /\ Moves(b)
  <2>1. \A t \in Socks \ {s} : owner[t] = b => ~Held(t)
    BY <1>1, <1>2, <1>5, <1>6 DEF OneHeld
  <2>2. \A t \in Socks : owner'[t] = b => ~Held(t)'
    BY <1>1, <1>3, <2>1 DEF Held, Alive
  <2>3. Kept(b)' = {}
    BY <2>2, KeepsNoneNext
  <2>4. Kept(b) = {At(s, "starting")}
    BY <1>1, <1>2, <1>5, <1>6, KeepsOne
  <2> QED BY <2>2, <2>3, <2>4 DEF Moves
<1> QED BY <1>1, <1>4, <1>6, TouchRegistry

\* What is collected has no client to be.
LEMMA CollectRegistry ==
  ASSUME IInv, OneHeld, NEW s \in Socks, Collect(s)
  PROVE  (Registry!Next \/ UNCHANGED Registry!vars) /\ OneHeld'
<1>1. /\ conn[s] \in Closed /\ conn' = [conn EXCEPT ![s] = "unused"]
      /\ logouts[s] = 0 /\ bots[owner[s]] # s
      /\ owner' = [owner EXCEPT ![s] = None] /\ UNCHANGED <<bots, logouts, serial>>
  BY DEF Collect, maps, awaits
<1>2. PICK b \in Bots : b = owner[s]
  BY <1>1 DEF IInv, NothingDangles
<1>3. /\ owner'[s] = None /\ ~Held(s)
      /\ \A t \in Socks \ {s} : owner'[t] = owner[t] /\ conn'[t] = conn[t]
  BY <1>1 DEF IInv, TypeOK, Held, Alive
<1>4. Touches(s, b)
  BY <1>1, <1>2, <1>3 DEF Touches
<1>5. \A t \in Socks \ {s} : (Held(t)' <=> Held(t)) /\ Stage(t)' = Stage(t)
  BY <1>1, <1>3 DEF Held, Alive, Stage
<1>6. Kept(b)' = Kept(b)
  BY <1>1, <1>3, <1>5, KeepsSame
<1>7. b \in serial => \A t, u \in Socks : owner'[t] = b /\ owner'[u] = b
                                    /\ Held(t)' /\ Held(u)' => t = u
  BY <1>3, <1>5 DEF OneHeld
<1> QED BY <1>1, <1>4, <1>6, <1>7, TouchRegistry

\* The one connection opens and is registered.
LEMMA OpenRegistry ==
  ASSUME IInv, OneHeld, NEW s \in Socks, Open(s)
  PROVE  (Registry!Next \/ UNCHANGED Registry!vars) /\ OneHeld'
<1>1. /\ conn[s] = "connecting" /\ conn' = [conn EXCEPT ![s] = "open"]
      /\ UNCHANGED <<owner, logouts, serial>>
  BY DEF Open
<1>2. PICK b \in Bots : b = owner[s]
  BY <1>1 DEF IInv, NothingDangles
<1>3. s \in wired /\ logouts[s] = 0
  BY <1>1 DEF IInv, TypeOK, NothingDangles, NoDeafConnection
<1>4. /\ bots' = [bots EXCEPT ![b] = s] /\ bots'[b] = s
      /\ conn'[s] = "open" /\ \A t \in Socks \ {s} : conn'[t] = conn[t]
  BY <1>1, <1>2, <1>3 DEF Open, IInv, TypeOK
<1>5. Touches(s, b)
  BY <1>1, <1>2, <1>4 DEF Touches, IInv, TypeOK
<1>6. Held(s) /\ Stage(s) = "starting" /\ Held(s)' /\ Stage(s)' = "on"
  BY <1>1, <1>3, <1>4 DEF Held, Alive, Stage
<1>7. ASSUME b \in serial'
      PROVE  /\ \A t, u \in Socks : owner'[t] = b /\ owner'[u] = b
                                    /\ Held(t)' /\ Held(u)' => t = u
             /\ Moves(b)
  <2>1. \A t \in Socks \ {s} : owner[t] = b => ~Held(t)
    BY <1>1, <1>2, <1>6, <1>7 DEF OneHeld
  <2>2. \A t \in Socks \ {s} : owner'[t] = b => ~Held(t)'
    BY <1>1, <1>4, <2>1 DEF Held, Alive
  <2>3. Kept(b) = {At(s, "starting")}
    BY <1>1, <1>2, <1>6, <1>7, KeepsOne
  <2>4. Kept(b)' = {At(s, "on")}
    <3>1. SUFFICES \A t \in Socks : owner'[t] = b /\ Held(t)' <=> t = s
      BY <1>6, <1>7 DEF Kept, SocksOf, At
    <3> QED BY <1>1, <1>2, <1>6, <2>2
  <2> QED BY <2>2, <2>3, <2>4 DEF Moves
<1> QED BY <1>1, <1>5, <1>7, TouchRegistry

\* A disable asks the registered socket to stop, unless it overlaps.
LEMMA DisableCallRegistry ==
  ASSUME IInv, OneHeld, NEW b \in Bots, DisableCall(b)
  PROVE  (Registry!Next \/ UNCHANGED Registry!vars) /\ OneHeld'
<1>1. /\ UNCHANGED <<bots, owner, conn>>
      /\ serial' = IF Busy(b) THEN serial \ {b} ELSE serial
      /\ serial' \in {serial, serial \ {b}}
  BY DEF DisableCall, BeginsOperation
<1>2. CASE bots[b] = None
  <2>1. logouts' = logouts
    BY <1>2 DEF DisableCall, DisableBot
  <2>2. \A t \in Socks : (Held(t)' <=> Held(t)) /\ Stage(t)' = Stage(t)
    BY <1>1, <2>1 DEF Held, Alive, Stage
  <2>3. \A d \in Observed : d # b \/ b \in serial' => Kept(d)' = Kept(d)
    BY <1>1, <2>2, KeepsSame
  <2>4. OneHeld'
    BY <1>1, <2>2 DEF OneHeld
  <2>5. b \in serial' => Kept(b)' = Kept(b)
    BY <1>1, <2>3 DEF OneHeld
  <2> QED BY <1>1, <2>3, <2>4, <2>5, OneBotMoves
<1>3. CASE bots[b] # None
  <2>1. PICK s \in Socks : s = bots[b]
    BY <1>3 DEF IInv, TypeOK
  <2>2. owner[s] = b /\ conn[s] \in Begun /\ bots[owner[s]] = s
    BY <1>3, <2>1 DEF IInv, RegisteredIsOwn
  <2>3. /\ logouts' = [logouts EXCEPT ![s] = @ + 1] /\ logouts'[s] = logouts[s] + 1
        /\ \A t \in Socks \ {s} : logouts'[t] = logouts[t]
    BY <1>3, <2>1 DEF DisableCall, DisableBot, IInv, TypeOK
  <2>4. Touches(s, b)
    BY <1>1, <2>2, <2>3 DEF Touches
  <2>5. logouts[s] \in Nat /\ logouts'[s] > 0
    BY <2>3 DEF IInv, TypeOK
  <2>6. Held(s) /\ Held(s)' /\ Stage(s)' = "stopping"
    BY <1>1, <2>2, <2>5 DEF Held, Stage
  <2>7. \A t \in Socks \ {s} : Held(t)' <=> Held(t)
    BY <1>1, <2>3 DEF Held, Alive
  <2>8. ASSUME b \in serial'
        PROVE  /\ \A t, u \in Socks : owner'[t] = b /\ owner'[u] = b
                                      /\ Held(t)' /\ Held(u)' => t = u
               /\ Moves(b)
    <3>1. b \in serial /\ ~Busy(b)
      BY <1>1, <2>8
    <3>2. logouts[s] = 0 /\ conn[s] \notin {"auth", "connecting"}
      BY <2>2, <2>5, <3>1 DEF Busy, SocksOf
    <3>3. Stage(s) \in {"on", "dropped"}
      BY <3>2 DEF Stage
    <3>4. Kept(b) = {At(s, Stage(s))}
      BY <2>2, <2>6, <3>1, KeepsOne
    <3>5. \A t \in Socks : owner[t] = b /\ Held(t) => t = s
      BY <2>2, <2>6, <3>1 DEF OneHeld
    <3>6. \A t \in Socks : owner'[t] = b /\ Held(t)' <=> t = s
      BY <1>1, <2>2, <2>6, <2>7, <3>5
    <3>7. Kept(b)' = {At(s, "stopping")}
      BY <2>6, <2>8, <3>6 DEF Kept, SocksOf, At
    <3> QED BY <3>3, <3>4, <3>6, <3>7 DEF Moves
  <2> QED BY <1>1, <2>4, <2>8, TouchRegistry
<1> QED BY <1>2, <1>3

\* The last logout of a socket to return takes it away.
LEMMA LogoutReturnsRegistry ==
  ASSUME IInv, OneHeld, NEW s \in Socks, LogoutReturns(s)
  PROVE  (Registry!Next \/ UNCHANGED Registry!vars) /\ OneHeld'
<1>1. /\ logouts[s] > 0 /\ logouts' = [logouts EXCEPT ![s] = @ - 1]
      /\ UNCHANGED <<owner, serial>>
  BY DEF LogoutReturns
<1>2. PICK b \in Bots : b = owner[s]
  BY <1>1 DEF IInv, NothingDangles
<1>3. bots' = [bots EXCEPT ![b] = None] /\ bots'[b] = None
  BY <1>2 DEF LogoutReturns, IInv, TypeOK
<1>4. conn' = IF Live(s) THEN [conn EXCEPT ![s] = "out"] ELSE conn
  BY DEF LogoutReturns
<1>5. /\ conn'[s] \in Closed /\ logouts'[s] = logouts[s] - 1 /\ logouts[s] \in Nat
      /\ \A t \in Socks \ {s} : conn'[t] = conn[t] /\ logouts'[t] = logouts[t]
  BY <1>1, <1>4 DEF IInv, TypeOK, NothingDangles
<1>6. Touches(s, b)
  BY <1>1, <1>2, <1>3, <1>5 DEF Touches, IInv, TypeOK
<1>7. Held(s) /\ Stage(s) = "stopping"
  BY <1>1 DEF Held, Stage
<1>8. (Held(s)' <=> logouts'[s] > 0) /\ (logouts'[s] > 0 => Stage(s)' = "stopping")
  BY <1>1, <1>2, <1>3, <1>5 DEF Held, Alive, Stage
<1>9. ASSUME b \in serial'
      PROVE  /\ \A t, u \in Socks : owner'[t] = b /\ owner'[u] = b
                                    /\ Held(t)' /\ Held(u)' => t = u
             /\ Moves(b) \/ Kept(b)' = Kept(b)
  <2>1. \A t \in Socks \ {s} : owner[t] = b => ~Held(t)
    BY <1>1, <1>2, <1>7, <1>9 DEF OneHeld
  <2>2. \A t \in Socks \ {s} : owner[t] = b => ~Held(t)'
    <3> SUFFICES ASSUME NEW t \in Socks \ {s}, owner[t] = b PROVE ~Held(t)'
      OBVIOUS
    <3>1. ~Alive(t) /\ ~(logouts[t] > 0) /\ bots'[owner'[t]] # t
      BY <1>1, <1>3, <2>1 DEF Held
    <3> QED BY <1>5, <3>1 DEF Held, Alive
  <2>3. Kept(b) = {At(s, "stopping")}
    BY <1>1, <1>2, <1>7, <1>9, KeepsOne
  <2>4. CASE logouts'[s] > 0
    <3>1. \A t \in Socks : owner'[t] = b /\ Held(t)' <=> t = s
      BY <1>1, <1>2, <1>8, <2>2, <2>4
    <3>2. Kept(b)' = {At(s, "stopping")}
      BY <1>8, <1>9, <2>4, <3>1 DEF Kept, SocksOf, At
    <3> QED BY <2>3, <3>1, <3>2
  <2>5. CASE ~(logouts'[s] > 0)
    <3>1. \A t \in Socks : owner'[t] = b => ~Held(t)'
      BY <1>1, <1>8, <2>2, <2>5
    <3>2. Kept(b)' = {}
      BY <3>1, KeepsNoneNext
    <3> QED BY <2>3, <3>1, <3>2 DEF Moves
  <2> QED BY <2>4, <2>5
<1> QED BY <1>1, <1>6, <1>9, TouchRegistry

\* A connection that closes before it was open is refused; an open one drops,
\* or is stopped by its own handler.
LEMMA CloseRegistry ==
  ASSUME IInv, SerialInv, OneHeld, NEW s \in Socks, NEW how \in Closed, Close(s, how)
  PROVE  (Registry!Next \/ UNCHANGED Registry!vars) /\ OneHeld'
<1>1. /\ conn[s] \in {"connecting", "open"} /\ conn' = [conn EXCEPT ![s] = how]
      /\ UNCHANGED <<owner, bots, serial>>
  BY DEF Close
<1>2. PICK b \in Bots : b = owner[s]
  BY <1>1 DEF IInv, NothingDangles
<1>3. conn'[s] = how /\ \A t \in Socks \ {s} : conn'[t] = conn[t]
  BY <1>1 DEF IInv, TypeOK
<1>4. \/ logouts' = logouts
      \/ bots[b] # None /\ logouts' = [logouts EXCEPT ![bots[b]] = @ + 1]
  BY <1>2 DEF Close, CloseHandler, DisableBot
<1>5. \A t \in Socks : \/ logouts'[t] = logouts[t]
                       \/ t = bots[b] /\ logouts'[t] = logouts[t] + 1
  BY <1>4 DEF IInv, TypeOK
<1>6. \A t \in Socks : logouts[t] \in Nat
  BY DEF IInv, TypeOK
<1>7. Touches(s, b)
  <2>1. \A t \in Socks : owner[t] # b => t # bots[b]
    BY DEF IInv, RegisteredIsOwn
  <2> QED BY <1>1, <1>2, <1>3, <1>5, <2>1 DEF Touches
<1>8. Held(s)
  BY <1>1 DEF Held, Alive
<1>9. ASSUME b \in serial'
      PROVE  /\ \A t, u \in Socks : owner'[t] = b /\ owner'[u] = b
                                    /\ Held(t)' /\ Held(u)' => t = u
             /\ Moves(b) \/ Kept(b)' = Kept(b)
  <2>1. \A t \in Socks \ {s} : owner[t] = b => ~Held(t)
    BY <1>1, <1>2, <1>8, <1>9 DEF OneHeld
  <2>2. bots[b] \in {s, None}
    BY <2>1 DEF IInv, TypeOK, RegisteredIsOwn, Held
  <2>3. \A t \in Socks \ {s} : owner[t] = b => ~Held(t)'
    BY <1>1, <1>3, <1>5, <2>1, <2>2 DEF Held, Alive
  <2>4. Kept(b) = {At(s, Stage(s))}
    BY <1>1, <1>2, <1>8, <1>9, KeepsOne
  <2>5. Held(s)' <=> (logouts'[s] > 0 \/ bots[b] = s)
    BY <1>1, <1>2, <1>3 DEF Held, Alive
  <2>6. Held(s)' => Kept(b)' = {At(s, Stage(s)')}
    <3> SUFFICES ASSUME Held(s)' PROVE Kept(b)' = {At(s, Stage(s)')}
      OBVIOUS
    <3>1. \A t \in Socks : owner'[t] = b /\ Held(t)' <=> t = s
      BY <1>1, <1>2, <2>3
    <3> QED BY <1>9, <3>1 DEF Kept, SocksOf, At
  <2>7. \A t, u \in Socks : owner'[t] = b /\ owner'[u] = b
                                    /\ Held(t)' /\ Held(u)' => t = u
    BY <1>1, <2>3
  <2>8. CASE logouts[s] > 0
    <3>1. logouts'[s] > 0
      BY <1>5, <1>6, <2>8
    <3>2. Stage(s) = "stopping" /\ Stage(s)' = "stopping"
      BY <2>8, <3>1 DEF Stage
    <3> QED BY <2>4, <2>5, <2>6, <2>7, <3>1, <3>2
  <2>9. CASE logouts[s] = 0 /\ conn[s] = "open"
    <3>1. bots[b] = s
      BY <1>1, <1>2, <1>9, <2>9 DEF SerialInv, OpenIsRegistered
    <3>2. Stage(s) = "on"
      BY <2>9 DEF Stage
    <3>3. logouts'[s] \in {0, 1}
      BY <1>5, <2>9
    <3>4. Stage(s)' \in {"dropped", "stopping"}
      BY <1>3, <3>3 DEF Stage
    <3> QED BY <2>4, <2>5, <2>6, <2>7, <3>1, <3>2, <3>4 DEF Moves
  <2>10. CASE logouts[s] = 0 /\ conn[s] = "connecting"
    <3>1. bots[b] # s
      BY <2>10 DEF IInv, RegisteredIsOwn
    <3>2. logouts'[s] = 0
      BY <1>5, <2>10, <3>1
    <3>3. \A t \in Socks : owner'[t] = b => ~Held(t)'
      BY <1>1, <2>3, <2>5, <3>1, <3>2
    <3>4. Kept(b)' = {}
      BY <3>3, KeepsNoneNext
    <3>5. Stage(s) = "starting"
      BY <2>10 DEF Stage
    <3> QED BY <2>4, <2>7, <3>4, <3>5 DEF Moves
  <2> QED BY <1>1, <1>6, <2>8, <2>9, <2>10
<1> QED BY <1>1, <1>7, <1>9, TouchRegistry

\* Every step of the service is a step of the registry or leaves it alone.
LEMMA NextRegistry ==
  IInv /\ SerialInv /\ OneHeld /\ [Next]_vars =>
    [Registry!Next]_Registry!vars /\ OneHeld'
<1> SUFFICES ASSUME IInv, SerialInv, OneHeld, [Next]_vars
             PROVE  (Registry!Next \/ UNCHANGED Registry!vars) /\ OneHeld'
  OBVIOUS
<1>1. CASE UNCHANGED <<owner, bots, serial, logouts, conn>>
  BY <1>1, QuietRegistry
<1>2. CASE UNCHANGED vars
  BY <1>1, <1>2 DEF vars, maps, sockets, awaits
<1>3. CASE Crash \/ Boot
  BY <1>1, <1>3, DiesRestarts DEF Crash, Boot, maps, sockets
<1>4. ASSUME NEW b \in Bots,
             \/ \E op \in {"start", "disable"} : LookUp(b, op)
             \/ DeleteBot(b) \/ PhoneUnlinks(b)
             \/ \E v \in Status : StatusWriteLands(b, v)
      PROVE  UNCHANGED <<owner, bots, serial, logouts, conn>>
  BY <1>4 DEF LookUp, DeleteBot, PhoneUnlinks, StatusWriteLands, maps, sockets,
    awaits
<1>5. ASSUME NEW b \in Bots, NEW v \in Status, StatusWriteFails(b, v)
      PROVE  (Registry!Next \/ UNCHANGED Registry!vars) /\ OneHeld'
  BY <1>5, DiesRestarts DEF StatusWriteFails
<1>6. ASSUME NEW b \in Bots, StartCall(b) \/ TimerFires(b)
      PROVE  (Registry!Next \/ UNCHANGED Registry!vars) /\ OneHeld'
  BY <1>6, StartRegistry DEF StartCall, TimerFires, Retry, maps
<1>7. ASSUME NEW b \in Bots, DisableCall(b)
      PROVE  (Registry!Next \/ UNCHANGED Registry!vars) /\ OneHeld'
  BY <1>7, DisableCallRegistry
<1>8. ASSUME NEW s \in Socks, CreateSocket(s)
      PROVE  (Registry!Next \/ UNCHANGED Registry!vars) /\ OneHeld'
  <2>1. /\ UNCHANGED <<owner, bots, serial, logouts>> /\ conn[s] = "auth"
        /\ conn' = [conn EXCEPT ![s] = "connecting"]
    BY <1>8 DEF CreateSocket, SocketWith, awaits
  <2>2. \A t \in Socks : \/ conn'[t] = conn[t]
                         \/ conn[t] = "auth" /\ conn'[t] = "connecting"
    BY <2>1 DEF IInv, TypeOK
  <2> QED BY <2>1, <2>2, QuietRegistry
<1>9. ASSUME NEW s \in Socks,
             \/ CredsUpdate(s) \/ Message(s) \/ ReplyEnds(s)
             \/ PurgeStatus(s) \/ PurgeSession(s) \/ PurgeKeys(s)
      PROVE  UNCHANGED <<owner, bots, serial, logouts, conn>>
  BY <1>9 DEF CredsUpdate, Message, ReplyEnds, PurgeStatus, PurgeSession,
    PurgeKeys, maps, sockets, awaits
<1>10. ASSUME NEW s \in Socks,
              LogoutRejects(s) \/ ReplyRejects(s) \/ PurgeRejects(s)
       PROVE  (Registry!Next \/ UNCHANGED Registry!vars) /\ OneHeld'
  BY <1>10, DiesRestarts DEF LogoutRejects, ReplyRejects, PurgeRejects
<1>11. ASSUME NEW s \in Socks,
              AuthFails(s) \/ LogoutReturns(s) \/ Open(s) \/ Collect(s)
       PROVE  (Registry!Next \/ UNCHANGED Registry!vars) /\ OneHeld'
  BY <1>11, AuthFailsRegistry, LogoutReturnsRegistry, OpenRegistry,
    CollectRegistry
<1>12. ASSUME NEW s \in Socks, NEW how \in Closed, Close(s, how)
       PROVE  (Registry!Next \/ UNCHANGED Registry!vars) /\ OneHeld'
  BY <1>12, CloseRegistry
<1>13. ASSUME NEW v \in saving, SaveLands(v)
       PROVE  UNCHANGED <<owner, bots, serial, logouts, conn>>
  BY <1>13 DEF SaveLands, maps, sockets
<1>14. ASSUME NEW v \in saving, SaveRejects(v)
       PROVE  (Registry!Next \/ UNCHANGED Registry!vars) /\ OneHeld'
  BY <1>14, DiesRestarts DEF SaveRejects
<1> QED BY <1>1, <1>2, <1>3, <1>4, <1>5, <1>6, <1>7, <1>8, <1>9, <1>10, <1>11,
        <1>12, <1>13, <1>14 DEF Next

\* The sockets of bots whose operations do not overlap are clients of
\* BotRegistry: one at a time, started, opened, dropped and stopped in that
\* order, however drops, refusals, logouts, crashes and the operations on
\* other bots come in between.
THEOREM Implements == Spec => SerialBotsAreRegistry
<1>1. Init => Registry!Init /\ OneHeld
  <2> SUFFICES ASSUME Init PROVE Registry!Init /\ OneHeld
    OBVIOUS
  <2>1. serial = Observed /\ \A b \in Bots, s \in Socks : owner[s] # b
    BY DEF Init, FreshMemory
  <2>2. \A b \in Observed : Kept(b) = {}
    BY <2>1 DEF Kept, SocksOf
  <2>3. OneHeld
    BY <2>1 DEF OneHeld
  <2> QED BY <2>1, <2>2, <2>3 DEF Registry!Init
<1> QED BY <1>1, SerialInvariance, NextRegistry, PTL
        DEF Spec, SerialBotsAreRegistry, Registry!Spec
=============================================================================
