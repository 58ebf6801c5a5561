---------------------------- MODULE BaileysBots ----------------------------
(***************************************************************************)
(* The life of WhatsApp bots that run over the Baileys library:            *)
(* BaileysService (whatsaap.service.ts) with the callers that reach it,    *)
(* Integrationservice.startBot/disableBot, BotService.deleteBot and        *)
(* onModuleInit, and the rows it leaves in the database.                   *)
(*                                                                         *)
(* The process is one Node.js event loop: the code between two awaits is   *)
(* one step.  An await is a program counter kept in `looked', `conn',      *)
(* `logouts', `writes', `purge', `saving' or `replying'.  A rejected       *)
(* promise that nobody awaits ends the process (Node's default), which is  *)
(* restarted by its supervisor.  botCallbacks only carries progress texts  *)
(* to the user interface and is left out.                                  *)
(***************************************************************************)
EXTENDS Integers, FiniteSets

CONSTANTS
  Bots,        \* ids of bots of type 'baileys'
  Socks,       \* identities of Baileys sockets, reused once unreferenced
  None,        \* no socket, no bot
  MaxLogouts,  \* bound: disableBot calls awaiting logout() of one socket
  MaxWrites,   \* bound: isActive updates of one bot and value in flight
  MaxTimers,   \* bound: reconnect timers of one bot pending
  MaxCalls,    \* bound: client calls between their lookups and the service
  MaxReplies,  \* bound: sockets with a message being answered
  MaxSaves,    \* bound: different credentials on their way to the database
  Observed     \* bots for which the observer `serial' is kept

ASSUME NoneAssumption == None \notin Socks /\ None \notin Bots
ASSUME BoundsAssumption ==
  /\ MaxLogouts \in Nat /\ MaxWrites \in Nat
  /\ MaxTimers \in Nat /\ MaxCalls \in Nat /\ MaxReplies \in Nat
  /\ MaxSaves \in Nat
  /\ Observed \subseteq Bots

VARIABLES
  (* the database, which survives a restart *)
  rows,        \* bots with a row in the BOT table
  active,      \* bots whose column isActive is true
  session,     \* WhatsappSession row: none, or whether WhatsApp still links it
  (* the memory of the process *)
  proc,        \* "up", or "down" until its supervisor starts it again
  looked,      \* calls that found their bot and agent, service call to come
  bots,        \* Map bots: the registered socket of a bot
  handlers,    \* Map handlers: the socket whose handler functions it holds
  stopReason,  \* Map stopReason
  owner,       \* the bot a socket was made for
  conn,        \* where a socket is in its life
  creds,       \* the credentials of a connection that has begun
  wired,       \* sockets whose three event handlers are attached
  timers,      \* 10s reconnect timers pending, per bot
  logouts,     \* disableBot calls awaiting sock.logout(), per socket
  writes,      \* updateBotStatus calls in flight, per bot and value
  purge,       \* where the logOut that a closed socket started has come to
  replying,    \* sockets with a message being answered
  saving,      \* credentials saveCreds is writing, and for which bot
  (* an observer, read by properties only *)
  serial       \* bots no operation on which began during another one

database == <<rows, active, session>>
maps == <<bots, handlers, stopReason>>
sockets == <<owner, conn, creds, wired>>
awaits == <<looked, timers, logouts, writes, purge, replying, saving>>
vars == <<database, proc, maps, sockets, awaits, serial>>

-----------------------------------------------------------------------------
Closed == {"lost", "bad", "out"}
ConnStates == {"unused", "auth", "connecting", "open"} \cup Closed
Saves == [bot : Bots, creds : {"linked", "revoked"}]
Requests == [bot : Bots, op : {"start", "disable"}]
Status == {"on", "off"}
NoWrites == [v \in Status |-> 0]

SocksOf(b) == {s \in Socks : owner[s] = b}
Live(s) == conn[s] \in {"connecting", "open"}
Alive(s) == conn[s] = "auth" \/ Live(s)

\* An operation on b has been begun and has not run to its end.
Busy(b) == \/ \E s \in SocksOf(b) : \/ conn[s] \in {"auth", "connecting"}
                                    \/ logouts[s] > 0
                                    \/ purge[s] # "idle"
           \/ writes[b] # NoWrites
\* Every operation that begins records whether b was at rest.
BeginsOperation(b) == serial' = IF Busy(b) THEN serial \ {b} ELSE serial

-----------------------------------------------------------------------------
\* Everything a process holds in memory, when it has just (or not yet) begun.
FreshMemory ==
  /\ looked = {} /\ wired = {} /\ replying = {} /\ saving = {}
  /\ bots = [b \in Bots |-> None]
  /\ handlers = [b \in Bots |-> None]
  /\ stopReason = [b \in Bots |-> "none"]
  /\ owner = [s \in Socks |-> None]
  /\ conn = [s \in Socks |-> "unused"]
  /\ creds = [s \in Socks |-> "fresh"]
  /\ timers = [b \in Bots |-> 0]
  /\ logouts = [s \in Socks |-> 0]
  /\ writes = [b \in Bots |-> NoWrites]
  /\ purge = [s \in Socks |-> "idle"]
  /\ serial = Observed

Init ==
  /\ rows = Bots
  /\ active \in SUBSET Bots
  /\ session \in [Bots -> {"none", "linked", "revoked"}]
  /\ proc = "down"
  /\ FreshMemory

\* The process ends: its memory is gone and WhatsApp drops its sockets.
Dies ==
  /\ proc' = "down"
  /\ looked' = {} /\ wired' = {} /\ replying' = {} /\ saving' = {}
  /\ bots' = [b \in Bots |-> None]
  /\ handlers' = [b \in Bots |-> None]
  /\ stopReason' = [b \in Bots |-> "none"]
  /\ owner' = [s \in Socks |-> None]
  /\ conn' = [s \in Socks |-> "unused"]
  /\ creds' = [s \in Socks |-> "fresh"]
  /\ timers' = [b \in Bots |-> 0]
  /\ logouts' = [s \in Socks |-> 0]
  /\ writes' = [b \in Bots |-> NoWrites]
  /\ purge' = [s \in Socks |-> "idle"]
  /\ serial' = Observed

Crash ==
  /\ proc = "up"
  /\ Dies
  /\ UNCHANGED database

\* Mutant: it looks for the inactive ones.
InactiveBots == rows \ active
ActiveBots == rows \cap active

\* onModuleInit: every active bot is started once its agent has been read.
Boot ==
  /\ proc # "up"
  /\ proc' = "up"
  /\ looked' = {[bot |-> b, op |-> "start"] : b \in ActiveBots}
  /\ UNCHANGED <<database, maps, sockets, timers, logouts, writes, purge,
                 replying, saving, serial>>

\* Integrationservice.startBot / disableBot up to the call of the service.
LookUp(b, op) ==
  /\ proc = "up" /\ b \in rows
  /\ [bot |-> b, op |-> op] \notin looked
  /\ Cardinality(looked) < MaxCalls
  /\ looked' = looked \cup {[bot |-> b, op |-> op]}
  /\ UNCHANGED <<database, proc, maps, sockets, timers, logouts, writes, purge,
                 replying, saving, serial>>

\* BotService.deleteBot: the row goes first, so the disableBot it then calls
\* finds no bot and returns.
DeleteBot(b) ==
  /\ proc = "up" /\ b \in rows
  /\ rows' = rows \ {b}
  /\ active' = active \ {b}
  /\ UNCHANGED <<session, proc, maps, sockets, awaits, serial>>

-----------------------------------------------------------------------------
(* BaileysService.startBot                                                 *)

\* Mutant: the check of the registry is dropped.
NeverRegistered(b) == FALSE
Registered(b) == bots[b] # None

\* The part before the first await: a registered bot is only announced,
\* any other gets a start that waits for its credentials.
StartBot(b) ==
  \/ /\ Registered(b)
     /\ UNCHANGED <<owner, conn, serial>>
  \/ /\ ~Registered(b)
     /\ \E s \in Socks :
          /\ conn[s] = "unused"
          /\ conn' = [conn EXCEPT ![s] = "auth"]
          /\ owner' = [owner EXCEPT ![s] = b]
     /\ BeginsOperation(b)

StartCall(b) ==
  /\ [bot |-> b, op |-> "start"] \in looked
  /\ looked' = looked \ {[bot |-> b, op |-> "start"]}
  /\ StartBot(b)
  /\ UNCHANGED <<database, proc, maps, creds, wired, timers, logouts, writes,
                 purge, replying, saving>>

GiveUp(b) == UNCHANGED <<owner, conn, serial>> \* Mutant: no new start.
Retry(b) == StartBot(b)

TimerFires(b) ==
  /\ timers[b] > 0
  /\ timers' = [timers EXCEPT ![b] = @ - 1]
  /\ Retry(b)
  /\ UNCHANGED <<database, proc, maps, creds, wired, looked, logouts, writes,
                 purge, replying, saving>>

\* useDatabaseAuthState: the stored credentials, or new ones.
AuthState(b) == IF session[b] = "none" THEN "fresh" ELSE session[b]

\* It has answered: the socket exists and has its handlers.
SocketWith(s, registry) ==
  /\ conn[s] = "auth"
  /\ conn' = [conn EXCEPT ![s] = "connecting"]
  /\ creds' = [creds EXCEPT ![s] = AuthState(owner[s])]
  /\ wired' = wired \cup {s}
  /\ handlers' = [handlers EXCEPT ![owner[s]] = s]
  /\ bots' = registry
  /\ UNCHANGED <<database, proc, stopReason, owner, awaits, serial>>
\* Mutant: it is registered when it is made and not when it is open.
CreateRegistered(s) == SocketWith(s, [bots EXCEPT ![owner[s]] = s])
CreateSocket(s) == SocketWith(s, bots)

\* useDatabaseAuthState has failed: the catch reports it and the start is over.
AuthFails(s) ==
  /\ conn[s] = "auth"
  /\ conn' = [conn EXCEPT ![s] = "unused"]
  /\ owner' = [owner EXCEPT ![s] = None]
  /\ UNCHANGED <<database, proc, maps, creds, wired, awaits, serial>>

-----------------------------------------------------------------------------
(* BaileysService.disableBot and logOut                                    *)

\* disableBot up to its first await.
DisableBot(b) ==
  /\ stopReason' = [stopReason EXCEPT ![b] = "manual"]
  /\ IF bots[b] = None
     THEN UNCHANGED logouts
     ELSE /\ logouts[bots[b]] < MaxLogouts
          /\ logouts' = [logouts EXCEPT ![bots[b]] = @ + 1]

\* The socket it takes the handlers off.  The functions it takes off are those
\* in `handlers', which are another socket's if a later start replaced them.
\* Mutant: they are taken off the socket they belong to, registered or not.
DetachedFromLatest(b) == {s \in Socks : handlers[b] = s}
Detached(b) == {s \in Socks : bots[b] = s /\ handlers[b] = s}

DisableCall(b) ==
  /\ [bot |-> b, op |-> "disable"] \in looked
  /\ looked' = looked \ {[bot |-> b, op |-> "disable"]}
  /\ DisableBot(b)
  /\ wired' = wired \ Detached(b)
  /\ BeginsOperation(b)
  /\ UNCHANGED <<database, proc, bots, handlers, owner, conn, creds, timers,
                 writes, purge, replying, saving>>

\* WhatsApp forgets the device of b: the credentials stored, in use and on
\* their way to the database open no connection any more.
Revoked(c) == IF c = "linked" THEN "revoked" ELSE c
RevokedSave(v, b) == IF v.bot = b THEN [v EXCEPT !.creds = "revoked"] ELSE v
Unlinked(b) ==
  /\ session' = [session EXCEPT ![b] = Revoked(@)]
  /\ saving' = {RevokedSave(v, b) : v \in saving}
CredsUnlinked(b) ==
  [s \in Socks |-> IF owner[s] = b THEN Revoked(creds[s]) ELSE creds[s]]

\* Mutant: the status to write is ignored.
IssueInactive(b, v) ==
  /\ writes[b]["off"] < MaxWrites
  /\ writes' = [writes EXCEPT ![b]["off"] = @ + 1]
IssueWrite(b, v) ==
  /\ writes[b][v] < MaxWrites
  /\ writes' = [writes EXCEPT ![b][v] = @ + 1]

\* await sock.logout() returns: the device is unlinked and the socket closed
\* (the 'close' this emits carries 401 and is ignored, see Close), unless an
\* earlier call has done so; the rest of disableBot forgets whatever is
\* registered for the bot by now.
LogoutReturns(s) ==
  /\ logouts[s] > 0
  /\ logouts' = [logouts EXCEPT ![s] = @ - 1]
  /\ wired' = wired \ {s}
  /\ IF Live(s)
     THEN /\ conn' = [conn EXCEPT ![s] = "out"]
          /\ Unlinked(owner[s])
          /\ creds' = [CredsUnlinked(owner[s]) EXCEPT ![s] = "fresh"]
     ELSE UNCHANGED <<conn, session, creds, saving>>
  /\ bots' = [bots EXCEPT ![owner[s]] = None]
  /\ handlers' = [handlers EXCEPT ![owner[s]] = None]
  /\ IssueWrite(owner[s], "off")
  /\ UNCHANGED <<rows, active, proc, stopReason, owner, looked, timers, purge,
                 replying, serial>>

\* sock.logout() of a closed socket throws, and disableBot is not awaited.
LogoutRejects(s) ==
  /\ logouts[s] > 0 /\ conn[s] \in Closed
  /\ Dies
  /\ UNCHANGED database

\* updateBotStatus, begun by an 'open' event or at the end of disableBot.
StatusWriteLands(b, v) ==
  /\ writes[b][v] > 0 /\ b \in rows
  /\ active' = IF v = "on" THEN active \cup {b} ELSE active \ {b}
  /\ writes' = [writes EXCEPT ![b][v] = @ - 1]
  /\ UNCHANGED <<rows, session, proc, maps, sockets, looked, timers, logouts,
                 purge, replying, saving, serial>>

\* prisma.bot.update throws when the row is gone, and nobody catches it.
StatusWriteFails(b, v) ==
  /\ writes[b][v] > 0 /\ b \notin rows
  /\ Dies
  /\ UNCHANGED database

-----------------------------------------------------------------------------
(* The handlers of a socket's events                                       *)

\* 'connection.update' with connection = 'open'.
Open(s) ==
  /\ conn[s] = "connecting" /\ creds[s] = "linked"
  /\ conn' = [conn EXCEPT ![s] = "open"]
  /\ IF s \in wired
     THEN /\ bots' = [bots EXCEPT ![owner[s]] = s]
          /\ IssueWrite(owner[s], "on")
     ELSE UNCHANGED <<bots, writes>>
  /\ UNCHANGED <<database, proc, handlers, stopReason, owner, creds, wired,
                 looked, timers, logouts, purge, replying, saving, serial>>

\* Which part of the handler of 'close' runs: `logOut' for a session that is
\* no good, nothing for 401 unless stopReason is 'logout', else the reconnect
\* unless the stop was manual.
Purges(s, how) ==
  \/ how = "bad"
  \/ how = "out" /\ stopReason[owner[s]] = "logout"
Reconnects(s, how) == how = "lost" /\ stopReason[owner[s]] # "manual"

CloseHandler(s, how) ==
  \/ /\ s \in wired /\ Purges(s, how)
     /\ DisableBot(owner[s])
     /\ wired' = wired \ (Detached(owner[s]) \cup {s})
     /\ purge' = [purge EXCEPT ![s] = "status"]
     /\ UNCHANGED timers
  \/ /\ s \in wired /\ ~Purges(s, how)
     /\ IF Reconnects(s, how)
        THEN /\ timers[owner[s]] < MaxTimers
             /\ timers' = [timers EXCEPT ![owner[s]] = @ + 1]
             /\ UNCHANGED stopReason
        ELSE /\ stopReason' = IF how = "lost"
                              THEN [stopReason EXCEPT ![owner[s]] = "none"]
                              ELSE stopReason
             /\ UNCHANGED timers
     /\ wired' = wired \ {s}
     /\ UNCHANGED <<purge, logouts>>
  \/ /\ s \notin wired
     /\ UNCHANGED <<purge, timers, stopReason, wired, logouts>>

\* 'connection.update' with connection = 'close': the line dropped ("lost"),
\* WhatsApp answered 403 or 500 ("bad"), or 401 to unlinked credentials.
\* It is the last event of a socket.
Close(s, how) ==
  /\ Live(s)
  /\ how = "out" => creds[s] = "revoked"
  /\ conn' = [conn EXCEPT ![s] = how]
  /\ creds' = [creds EXCEPT ![s] = "fresh"]
  /\ CloseHandler(s, how)
  /\ UNCHANGED <<database, proc, bots, handlers, owner, looked, writes,
                 replying, saving, serial>>

\* 'creds.update': the QR code has been scanned, or keys were renewed; what
\* the socket holds by now is sent to the database.
CredsUpdate(s) ==
  /\ Live(s) /\ s \in wired
  /\ creds' = [creds EXCEPT ![s] = IF @ = "fresh" THEN "linked" ELSE @]
  /\ saving' = saving \cup {[bot |-> owner[s], creds |-> creds'[s]]}
  /\ Cardinality(saving') <= MaxSaves
  /\ UNCHANGED <<database, proc, maps, owner, conn, wired, looked, timers,
                 logouts, writes, purge, replying, serial>>

\* saveCreds: they replace the row, or make it, whatever has become of the
\* socket they come from, and of the bot: no key refers to its row.
SaveLands(v) ==
  /\ v \in saving
  /\ session' = [session EXCEPT ![v.bot] = v.creds]
  /\ saving' = saving \ {v}
  /\ UNCHANGED <<rows, active, proc, maps, sockets, looked, timers, logouts,
                 writes, purge, replying, serial>>

\* The upsert fails, another one having made the row, say; nobody catches it.
SaveRejects(v) ==
  /\ v \in saving
  /\ Dies
  /\ UNCHANGED database

\* The user removes the device on the phone.
PhoneUnlinks(b) ==
  /\ \/ session[b] = "linked" \/ \E s \in SocksOf(b) : creds[s] = "linked"
     \/ [bot |-> b, creds |-> "linked"] \in saving
  /\ Unlinked(b)
  /\ creds' = CredsUnlinked(b)
  /\ UNCHANGED <<rows, active, proc, maps, owner, conn, wired, looked, timers,
                 logouts, writes, purge, replying, serial>>

\* 'messages.upsert': a customer wrote; the answer is being produced.
Message(s) ==
  /\ conn[s] = "open" /\ s \in wired /\ s \notin replying
  /\ Cardinality(replying) < MaxReplies
  /\ replying' = replying \cup {s}
  /\ UNCHANGED <<database, proc, maps, sockets, looked, timers, logouts, writes,
                 purge, saving, serial>>

\* humanTyping uses the socket the message came from, sendMessage the one
\* registered now, and nothing is sent when none is.
ReplyArrives(s) ==
  conn[s] = "open" /\ (bots[owner[s]] # None => conn[bots[owner[s]]] = "open")

\* The answer is sent, or there is none: wrapper returned nothing, or no
\* messages, or threw, which is caught.
ReplyEnds(s) ==
  /\ s \in replying
  /\ replying' = replying \ {s}
  /\ UNCHANGED <<database, proc, maps, sockets, looked, timers, logouts, writes,
                 purge, saving, serial>>

\* Sending over a closed socket throws inside an async map nobody awaits.
ReplyRejects(s) ==
  /\ s \in replying /\ ~ReplyArrives(s)
  /\ Dies
  /\ UNCHANGED database

-----------------------------------------------------------------------------
(* logOut after its first await                                            *)

PurgeStatus(s) ==
  /\ purge[s] = "status" /\ owner[s] \in rows
  /\ active' = active \ {owner[s]}
  /\ purge' = [purge EXCEPT ![s] = "session"]
  /\ UNCHANGED <<rows, session, proc, maps, sockets, looked, timers, logouts,
                 writes, replying, saving, serial>>

PurgeSession(s) ==
  /\ purge[s] = "session" /\ session[owner[s]] # "none"
  /\ session' = [session EXCEPT ![owner[s]] = "none"]
  /\ purge' = [purge EXCEPT ![s] = "keys"]
  /\ UNCHANGED <<rows, active, proc, maps, sockets, looked, timers, logouts,
                 writes, replying, saving, serial>>

\* The keys are gone too, and the handler of 'close' forgets the stop reason.
PurgeKeys(s) ==
  /\ purge[s] = "keys"
  /\ purge' = [purge EXCEPT ![s] = "idle"]
  /\ stopReason' = [stopReason EXCEPT ![owner[s]] = "none"]
  /\ UNCHANGED <<database, proc, bots, handlers, sockets, looked, timers,
                 logouts, writes, replying, saving, serial>>

\* Both prisma calls throw when the row they name does not exist.
PurgeRejects(s) ==
  /\ \/ purge[s] = "status" /\ owner[s] \notin rows
     \/ purge[s] = "session" /\ session[owner[s]] = "none"
  /\ Dies
  /\ UNCHANGED database

\* A closed socket nothing refers to is garbage; its identity is used again.
Collect(s) ==
  /\ conn[s] \in Closed
  /\ s \notin replying
  /\ logouts[s] = 0 /\ purge[s] = "idle"
  /\ bots[owner[s]] # s /\ handlers[owner[s]] # s
  /\ conn' = [conn EXCEPT ![s] = "unused"]
  /\ owner' = [owner EXCEPT ![s] = None]
  /\ UNCHANGED <<database, proc, maps, creds, wired, awaits, serial>>

-----------------------------------------------------------------------------
Next ==
  \/ Crash \/ Boot
  \/ \E b \in Bots :
       \/ \E op \in {"start", "disable"} : LookUp(b, op)
       \/ DeleteBot(b) \/ StartCall(b) \/ DisableCall(b) \/ TimerFires(b)
       \/ PhoneUnlinks(b)
       \/ \E v \in Status : StatusWriteLands(b, v) \/ StatusWriteFails(b, v)
  \/ \E s \in Socks :
       \/ CreateSocket(s) \/ AuthFails(s)
       \/ LogoutReturns(s) \/ LogoutRejects(s)
       \/ Open(s) \/ CredsUpdate(s) \/ Message(s)
       \/ \E how \in Closed : Close(s, how)
       \/ ReplyEnds(s) \/ ReplyRejects(s)
       \/ PurgeStatus(s) \/ PurgeSession(s) \/ PurgeKeys(s) \/ PurgeRejects(s)
       \/ Collect(s)
  \/ \E v \in saving : SaveLands(v) \/ SaveRejects(v)

Spec == Init /\ [][Next]_vars

\* What the event loop, the database and the supervisor get done, for a
\* process that is not killed again and again; clients, the phone, the network
\* and the failures owe nothing.
Fairness ==
  /\ WF_vars(Boot)
  /\ \A b \in Bots :
       /\ WF_vars(StartCall(b)) /\ WF_vars(DisableCall(b))
       /\ WF_vars(TimerFires(b))
       /\ \A v \in Status :
            WF_vars(StatusWriteLands(b, v) \/ StatusWriteFails(b, v))
  /\ \A s \in Socks :
       /\ WF_vars(CreateSocket(s) \/ AuthFails(s))
       /\ WF_vars(LogoutReturns(s) \/ LogoutRejects(s))
       /\ WF_vars(ReplyEnds(s) \/ ReplyRejects(s))
       /\ WF_vars(\/ PurgeStatus(s) \/ PurgeSession(s)
                  \/ PurgeKeys(s) \/ PurgeRejects(s))
       /\ WF_vars(Collect(s))
  /\ \A v \in Saves : WF_vars(SaveLands(v) \/ SaveRejects(v))

FairSpec == Spec /\ Fairness /\ <>[][~Crash]_vars

\* As little of it as starting bots, and starting them again, relies on: the
\* supervisor, the calls and the timers of a bot, and whatever work is left of
\* a socket being done, in no particular order.
Work(s) ==
  \/ ReplyEnds(s) \/ ReplyRejects(s)
  \/ LogoutReturns(s) \/ LogoutRejects(s)
  \/ PurgeStatus(s) \/ PurgeSession(s) \/ PurgeKeys(s) \/ PurgeRejects(s)
  \/ Collect(s)
StartFairness ==
  /\ WF_vars(Boot)
  /\ \A b \in Bots : WF_vars(StartCall(b)) /\ WF_vars(TimerFires(b))
  /\ \A s \in Socks : WF_vars(Work(s))

StartSpec == Spec /\ StartFairness /\ <>[][~Crash]_vars

-----------------------------------------------------------------------------
\* Every variable holds a value of its kind.
TypeOK ==
  /\ rows \subseteq Bots
  /\ active \subseteq rows
  /\ session \in [Bots -> {"none", "linked", "revoked"}]
  /\ proc \in {"up", "down"}
  /\ looked \subseteq Requests
  /\ bots \in [Bots -> Socks \cup {None}]
  /\ handlers \in [Bots -> Socks \cup {None}]
  /\ stopReason \in [Bots -> {"none", "manual", "logout"}]
  /\ owner \in [Socks -> Bots \cup {None}]
  /\ conn \in [Socks -> ConnStates]
  /\ creds \in [Socks -> {"fresh", "linked", "revoked"}]
  /\ wired \subseteq Socks
  /\ timers \in [Bots -> 0..MaxTimers]
  /\ logouts \in [Socks -> 0..MaxLogouts]
  /\ writes \in [Bots -> [Status -> 0..MaxWrites]]
  /\ purge \in [Socks -> {"idle", "status", "session", "keys"}]
  /\ saving \subseteq Saves
  /\ replying \subseteq Socks
  /\ serial \subseteq Bots

\* A socket that is registered for a bot was made for that bot and reached
\* 'open': sendMessage never uses a socket of another bot or one that still
\* waits for its QR code, however starts and disables of the bot overlap.
RegisteredIsOwn ==
  \A b \in Bots : bots[b] # None =>
    /\ owner[bots[b]] = b
    /\ conn[bots[b]] \in {"open"} \cup Closed

\* A connected socket without its handlers loses every message a customer
\* sends, so disableBot detaches them only from a socket whose logout is
\* under way: no connection is left deaf.
NoDeafConnection ==
  \A s \in Socks : Live(s) /\ s \notin wired => logouts[s] > 0

\* A bot whose operations are run one after the other has at most one
\* connection, the registered one, whatever drops, refusals, logouts, crashes
\* and restarts come in between.
SerialBotHasOneConnection ==
  \A b \in serial :
    /\ \A s, t \in SocksOf(b) : Alive(s) /\ Alive(t) => s = t
    /\ \A s \in SocksOf(b) : conn[s] = "open" => bots[b] = s

\* Connections open, close and are purged while the credentials and the status
\* they brought are still on their way.  Once both have landed, a connected bot
\* of such a client would come back after a crash: it is active and has
\* credentials, which no purge or late write of an earlier connection has
\* taken away or cleared.
ConnectedBotSurvivesCrash ==
  \A b \in rows :
    (bots[b] # None /\ conn[bots[b]] = "open" /\ b \in serial
       /\ writes[b]["on"] = 0 /\ \A v \in saving : v.bot # b)
    => b \in active /\ session[b] # "none"

\* The process never forgets a bot between a drop before registration and its
\* next attempt: the timer leads to a socket of the bot, or to a bot that has
\* been registered by somebody else, or the process ends.
DropIsRetried ==
  \A b \in Bots : timers[b] > 0 ~>
      \/ \E t \in SocksOf(b) : Alive(t)
      \/ bots[b] # None \/ proc # "up"

\* After a restart every bot that was active is started again.
RestartResumes ==
  \A b \in Bots : proc # "up" /\ b \in active ~>
    \/ \E s \in SocksOf(b) : conn[s] = "auth"
    \/ b \notin active

-----------------------------------------------------------------------------
(* The sockets of serial bots as clients of BotRegistry                    *)

Held(s) == Alive(s) \/ logouts[s] > 0 \/ bots[owner[s]] = s
Stage(s) == CASE logouts[s] > 0 -> "stopping"
              [] logouts[s] = 0 /\ conn[s] \in {"auth", "connecting"} -> "starting"
              [] logouts[s] = 0 /\ conn[s] = "open" -> "on"
              [] OTHER -> "dropped"
Kept(b) == {[client |-> s, stage |-> Stage(s)] :
              s \in {t \in SocksOf(b) : b \in serial /\ Held(t)}}

Registry == INSTANCE BotRegistry
  WITH Bots <- Observed, Clients <- Socks, orderly <- serial,
       client <- [b \in Observed |-> Kept(b)]

\* A bot whose operations do not overlap has one socket at a time: the one that
\* was started is the one that opens, that stays registered when it drops, and
\* that a disable takes away, and no other is made for it until then.
SerialBotsAreRegistry == Registry!Spec

-----------------------------------------------------------------------------
(* What the source says of the program, and the code does not do.          *)

\* whatsaap.service.ts:138: a connection that drops is reconnected.
DroppedConnectionReturns ==
  \A s \in Socks, b \in Bots :
    (timers[b] > 0 /\ bots[b] = s /\ conn[s] = "lost") ~>
      \/ \E t \in SocksOf(b) : Alive(t)
      \/ bots[b] # s \/ b \notin rows \/ session[b] # "linked"
=============================================================================
