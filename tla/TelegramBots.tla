---------------------------- MODULE TelegramBots ----------------------------
(***************************************************************************)
(* Bots on Telegram and on web pages, and the records they are made of:    *)
(* BotFatherService, the other branches of Integrationservice, BotService, *)
(* ContentIntegrationService and UserIntegrationService.                   *)
(*                                                                         *)
(* As in BaileysBots, a step runs from one await to the next and a         *)
(* rejection that nobody catches ends the process.  A client is a          *)
(* TelegramBot object: it polls from the moment it is made.  Its maps      *)
(* `bots' and `handlers' change together and are one variable, `bots'; the *)
(* callbacks only carry progress texts.  A request is taken to name the    *)
(* type and the content of its bot's row, as the user interface does.      *)
(***************************************************************************)
EXTENDS Integers, FiniteSets

CONSTANTS
  Bots,       \* ids of bots, each used for one row
  Telegram,   \* those of type 'botFather'; the others are web or WABA bots
  Contents,   \* ids of ContentIntegration rows (a bot's credentials)
  Clients,    \* identities of TelegramBot objects, reused once unreferenced
  None,       \* no client, no content, no bot
  MaxCalls,   \* bound: client calls between their lookups and the service
  MaxMarks,   \* bound: BotService calls between a row and its mark
  MaxStops,   \* bound: disableBot calls awaiting stopPolling() of one client
  MaxWrites   \* bound: isActive updates of one bot and value in flight

ASSUME TelegramAssumption ==
  /\ None \notin Clients \cup Contents \cup Bots
  /\ Telegram \subseteq Bots
  /\ MaxCalls \in Nat /\ MaxMarks \in Nat /\ MaxStops \in Nat /\ MaxWrites \in Nat

VARIABLES
  (* the database *)
  row,       \* of a bot: not yet made, there, or deleted
  uses,      \* the contentIntegrationId of a bot's row
  active,    \* bots whose column isActive is true
  content,   \* of a content: not yet made, with a token or not, or deleted
  isUsed,    \* contents whose column isUsed is true
  (* the process *)
  proc,      \* "up", or "down" after a crash or a rejection
  looked,    \* calls that found bot and agent, service call to come
  bots,      \* the registered client of a bot
  owner,     \* the bot a client was made for
  phase,     \* where a client is in its life
  polling,   \* clients that poll Telegram
  stops,     \* disableBot calls awaiting stopPolling(), per client
  writes,    \* updateBotStatus calls in flight, per bot and value
  marks,     \* BotService calls about to write isUsed
  (* observers, read by properties only *)
  serial,    \* bots every operation on which began at rest and succeeded
  tidy,      \* contents with one bot at a time and no change of it cut short
  deaf       \* clients that failed half-way: their polling before getMe was
             \* answered, or their stop

records == <<row, uses, content, isUsed>>
registry == <<bots, owner, phase, polling, stops>>
vars == <<records, active, proc, looked, registry, writes, marks, serial, tidy, deaf>>

-----------------------------------------------------------------------------
Existence == {"new", "there", "gone"}
Kinds == {"token", "other"}
Phases == {"unused", "asked", "known", "lost", "off"}
Status == {"on", "off"}
Call == [bot : Bots, op : {"start", "disable"}]
Mark == [bot : Bots, content : Contents, value : BOOLEAN]
NoWrites == [v \in Status |-> 0]

Has(b) == row[b] = "there"
Exists(c) == content[c] \in Kinds
ClientsOf(b) == {t \in Clients : owner[t] = b}
Registered(b) == bots[b] # None
\* An operation on b, or a client it does not know of, is under way.
Busy(b) == \/ writes[b] # NoWrites
           \/ \E t \in ClientsOf(b) : stops[t] > 0 \/ phase[t] \in {"asked", "lost"}
           \/ \E k \in looked : k.bot = b
BeginsOn(b) == serial' = IF Busy(b) THEN serial \ {b} ELSE serial

FreshMemory ==
  /\ looked = {} /\ polling = {} /\ marks = {} /\ deaf = {}
  /\ bots = [b \in Bots |-> None]
  /\ owner = [t \in Clients |-> None]
  /\ phase = [t \in Clients |-> "unused"]
  /\ stops = [t \in Clients |-> 0]
  /\ writes = [b \in Bots |-> NoWrites]
  /\ serial = Telegram

Init ==
  /\ row = [b \in Bots |-> "new"]
  /\ uses = [b \in Bots |-> None]
  /\ content = [c \in Contents |-> "new"]
  /\ active = {} /\ isUsed = {}
  /\ tidy = Contents
  /\ proc = "down"
  /\ FreshMemory

\* The process ends: its memory and its requests are gone.
Dies ==
  /\ proc' = "down"
  /\ looked' = {} /\ polling' = {} /\ marks' = {} /\ deaf' = {}
  /\ bots' = [b \in Bots |-> None]
  /\ owner' = [t \in Clients |-> None]
  /\ phase' = [t \in Clients |-> "unused"]
  /\ stops' = [t \in Clients |-> 0]
  /\ writes' = [b \in Bots |-> NoWrites]
  /\ serial' = Telegram
  /\ tidy' = tidy \ {k.content : k \in marks}
  /\ UNCHANGED <<records, active>>

Crash == proc = "up" /\ Dies

-----------------------------------------------------------------------------
(* Integrationservice                                                      *)

Hosted == {b \in Telegram \cap active : Has(b)}

\* onModuleInit: the active bots have been read, and their agents.
Boot ==
  /\ proc # "up"
  /\ proc' = "up"
  /\ looked' = [bot : Hosted, op : {"start"}]
  /\ UNCHANGED <<records, active, registry, writes, marks, serial,
                 tidy, deaf>>

LookUp(b, op) ==
  /\ proc = "up" /\ Has(b)
  /\ [bot |-> b, op |-> op] \notin looked /\ Cardinality(looked) < MaxCalls
  /\ looked' = looked \cup {[bot |-> b, op |-> op]}
  /\ BeginsOn(b)
  /\ UNCHANGED <<records, active, proc, registry, writes, marks, tidy, deaf>>

IssueWrite(b, v) ==
  /\ writes[b][v] < MaxWrites
  /\ writes' = [writes EXCEPT ![b][v] = @ + 1]

\* The branches of a web or WABA bot: only its status changes, unless the
\* row is gone by now.
StatusCall(k) ==
  /\ k \in looked /\ k.bot \notin Telegram /\ Has(k.bot)
  /\ looked' = looked \ {k}
  /\ active' = IF k.op = "start" THEN active \cup {k.bot} ELSE active \ {k.bot}
  /\ UNCHANGED <<records, proc, registry, writes, marks, serial, tidy, deaf>>
StatusCallThrows(k) ==
  k \in looked /\ k.bot \notin Telegram /\ ~Has(k.bot) /\ Dies

\* The credentials of b, decrypted, if its row names some that are there.
HasToken(b) == uses[b] # None /\ content[uses[b]] = "token"

\* Mutant: the check of the registry is dropped.
NewClientAlways(b, t) ==
  /\ phase[t] = "unused"
  /\ owner' = [owner EXCEPT ![t] = b]
  /\ phase' = [phase EXCEPT ![t] = "asked"]
  /\ polling' = polling \cup {t}
NewClient(b, t) ==
  IF Registered(b) THEN UNCHANGED <<owner, phase, polling>>
  ELSE /\ phase[t] = "unused"
       /\ owner' = [owner EXCEPT ![t] = b]
       /\ phase' = [phase EXCEPT ![t] = "asked"]
       /\ polling' = polling \cup {t}

\* startBot of both services: the credentials are read, and a client that
\* polls at once asks Telegram who it is.
StartCall(b) ==
  /\ [bot |-> b, op |-> "start"] \in looked /\ b \in Telegram /\ HasToken(b)
  /\ looked' = looked \ {[bot |-> b, op |-> "start"]}
  /\ \E t \in Clients : NewClient(b, t)
  /\ UNCHANGED <<records, active, proc, bots, stops, writes, marks, serial, tidy, deaf>>

\* There are none: configJson or decrypt throws, in a promise nobody awaits.
StartThrows(b) ==
  /\ [bot |-> b, op |-> "start"] \in looked /\ b \in Telegram /\ ~HasToken(b)
  /\ Dies

-----------------------------------------------------------------------------
(* BotFatherService                                                        *)

\* getMe answers: the client listens, is registered and the bot is active.
\* Mutant: the status is not written.
KnownSilently(t) ==
  /\ phase[t] = "asked"
  /\ phase' = [phase EXCEPT ![t] = "known"]
  /\ bots' = [bots EXCEPT ![owner[t]] = t]
  /\ UNCHANGED <<records, active, proc, looked, owner, polling, stops, writes,
                 marks, serial, tidy, deaf>>
Connection(t) ==
  /\ phase[t] = "asked"
  /\ phase' = [phase EXCEPT ![t] = "known"]
  /\ bots' = [bots EXCEPT ![owner[t]] = t]
  /\ IssueWrite(owner[t], "on")
  /\ UNCHANGED <<records, active, proc, looked, owner, polling, stops, marks,
                 serial, tidy, deaf>>

\* getMe throws: the start is given up, but the client goes on polling.
GetMeThrows(t) ==
  /\ phase[t] = "asked"
  /\ phase' = [phase EXCEPT ![t] = "lost"]
  /\ serial' = serial \ {owner[t]}
  /\ UNCHANGED <<records, active, proc, looked, bots, owner, polling, stops,
                 writes, marks, tidy, deaf>>

\* disableBot to its first await, for a bot whose clients now polling are P.
DisableBot(b, P) ==
  IF Registered(b)
  THEN LET t == bots[b] IN
       /\ stops[t] < MaxStops
       /\ IssueWrite(b, "off")
       /\ phase' = [phase EXCEPT ![t] = "off"]
       /\ polling' = P \ {t}
       /\ stops' = [stops EXCEPT ![t] = @ + 1]
  ELSE polling' = P /\ UNCHANGED <<writes, phase, stops>>

DisableCall(b) ==
  /\ [bot |-> b, op |-> "disable"] \in looked /\ b \in Telegram
  /\ looked' = looked \ {[bot |-> b, op |-> "disable"]}
  /\ DisableBot(b, polling)
  /\ UNCHANGED <<records, active, proc, bots, owner, marks, serial,
                 tidy, deaf>>

\* 'polling_error', of any cause: the client stops, and whichever client is
\* registered for its bot is disabled.
\* Mutant: only the client stops.
StopsItself(t) ==
  /\ polling' = polling \ {t}
  /\ UNCHANGED <<writes, phase, stops>>
StopsBot(t) == DisableBot(owner[t], polling \ {t})

PollingError(t) ==
  /\ t \in polling
  /\ StopsBot(t)
  /\ deaf' = IF phase[t] = "asked" THEN deaf \cup {t} ELSE deaf
  /\ BeginsOn(owner[t])
  /\ UNCHANGED <<records, active, proc, looked, bots, owner, marks, tidy>>

\* await stopPolling() returns: whatever is registered by now is forgotten.
StopReturns(t) ==
  /\ stops[t] > 0
  /\ stops' = [stops EXCEPT ![t] = @ - 1]
  /\ bots' = [bots EXCEPT ![owner[t]] = None]
  /\ UNCHANGED <<records, active, proc, looked, owner, phase, polling, writes,
                 marks, serial, tidy, deaf>>

\* It rejects, which is caught: the client stays registered, with its
\* handlers off and its bot said to be inactive, until another disable.
StopRejects(t) ==
  /\ stops[t] > 0
  /\ stops' = [stops EXCEPT ![t] = @ - 1]
  /\ deaf' = deaf \cup {t}
  /\ serial' = serial \ {owner[t]}
  /\ UNCHANGED <<records, active, proc, looked, bots, owner, phase, polling,
                 writes, marks, tidy>>

\* A client nobody holds or waits for is garbage.
Collect(t) ==
  /\ phase[t] \notin {"unused", "asked"} /\ t \notin polling
  /\ stops[t] = 0 /\ bots[owner[t]] # t
  /\ owner' = [owner EXCEPT ![t] = None]
  /\ phase' = [phase EXCEPT ![t] = "unused"]
  /\ deaf' = deaf \ {t}
  /\ UNCHANGED <<records, active, proc, looked, bots, polling, stops, writes,
                 marks, serial, tidy>>

\* updateBotStatus, which throws when the row is gone.
StatusWriteLands(b, v) ==
  /\ writes[b][v] > 0 /\ Has(b)
  /\ active' = IF v = "on" THEN active \cup {b} ELSE active \ {b}
  /\ writes' = [writes EXCEPT ![b][v] = @ - 1]
  /\ UNCHANGED <<records, proc, looked, registry, marks, serial,
                 tidy, deaf>>
StatusWriteThrows(b, v) == writes[b][v] > 0 /\ ~Has(b) /\ Dies

\* A message is being answered (see Conversations): neither wrapper nor
\* sendMessage is caught, and a blocked bot cannot send.
ReplyThrows(t) == phase[t] \in {"known", "off"} /\ Dies

-----------------------------------------------------------------------------
(* BotService                                                              *)

SharedWith(c, b) == \E d \in Bots \ {b} : Has(d) /\ uses[d] = c
Untidy(c, b) ==
  tidy' = IF SharedWith(c, b) \/ \E k \in marks : k.content = c
          THEN tidy \ {c} ELSE tidy

\* A change of what b uses, the writes M of isUsed to come.
Rewrites(b, exists, c, M) ==
  /\ proc = "up"
  /\ row' = [row EXCEPT ![b] = exists]
  /\ uses' = [uses EXCEPT ![b] = c]
  /\ marks' = marks \cup M /\ Cardinality(marks') <= MaxMarks
  /\ UNCHANGED <<content, isUsed, proc, looked, registry, writes, serial, deaf>>

\* What a form offers as the credentials of a bot.
Offered == {c \in Contents : Exists(c)} \cup {None}

\* addNewBot: the row, then the mark.
NoMark(b, c, v) == {} \* Mutant
Marking(b, c, v) == IF c = None THEN {}
                    ELSE {[bot |-> b, content |-> c, value |-> v]}
AddNewBot(b, c) ==
  /\ row[b] = "new" /\ c \in Offered
  /\ Rewrites(b, "there", c, Marking(b, c, TRUE))
  /\ Untidy(c, b)
  /\ UNCHANGED active

\* editBot may name other credentials and marks neither.
EditBot(b, c) ==
  /\ Has(b) /\ c \in Offered \ {uses[b]}
  /\ Rewrites(b, "there", c, {})
  /\ tidy' = tidy \ {c, uses[b]}
  /\ UNCHANGED active

\* deleteBot: the row goes first, so that the disableBot it calls for an
\* active bot finds no row and returns; then the mark.
DeleteBot(b) ==
  /\ Has(b)
  /\ Rewrites(b, "gone", None, Marking(b, uses[b], FALSE))
  /\ Untidy(uses[b], b)
  /\ active' = active \ {b}

\* Its update of the content, which fails when the content is gone.
MarkContent(k) ==
  /\ k \in marks
  /\ marks' = marks \ {k}
  /\ isUsed' = IF ~Exists(k.content) THEN isUsed
               ELSE IF k.value THEN isUsed \cup {k.content}
               ELSE isUsed \ {k.content}
  /\ UNCHANGED <<row, uses, content, active, proc, looked, registry, writes,
                 serial, tidy, deaf>>

-----------------------------------------------------------------------------
(* ContentIntegrationService, UserIntegrationService                       *)

SetContents(C, to) ==
  /\ proc = "up" /\ C # {}
  /\ content' = [c \in Contents |-> IF c \in C THEN to ELSE content[c]]
  /\ isUsed' = isUsed \ C
  /\ UNCHANGED <<row, uses, active, proc, looked, registry, writes, marks,
                 serial, tidy, deaf>>

AddNewContentIntegration(c) ==
  content[c] = "new" /\ \E kind \in Kinds : SetContents({c}, kind)
\* An edit may be to another provider, whose credentials hold no token; a
\* client that has been made keeps the token it has.
EditContentIntegration(c) ==
  /\ proc = "up" /\ Exists(c)
  /\ content' = [content EXCEPT ![c] = CHOOSE kind \in Kinds : kind # @]
  /\ UNCHANGED <<row, uses, isUsed, active, proc, looked, registry, writes,
                 marks, serial, tidy, deaf>>
\* Nothing asks whether a bot uses it.
DeleteContentIntegration(c) == Exists(c) /\ SetContents({c}, "gone")
\* deleteUserIntegration: the contents of the integration go with it.
DeleteUserIntegration(C) ==
  /\ \A c \in C : Exists(c)
  /\ SetContents(C, "gone")

-----------------------------------------------------------------------------
Next ==
  \/ Crash \/ Boot
  \/ \E b \in Bots :
       \/ \E op \in {"start", "disable"} : LookUp(b, op)
       \/ StartCall(b) \/ StartThrows(b) \/ DisableCall(b) \/ DeleteBot(b)
       \/ \E v \in Status : StatusWriteLands(b, v) \/ StatusWriteThrows(b, v)
       \/ \E c \in Contents \cup {None} : AddNewBot(b, c) \/ EditBot(b, c)
  \/ \E k \in looked : StatusCall(k) \/ StatusCallThrows(k)
  \/ \E k \in marks : MarkContent(k)
  \/ \E t \in Clients :
       \/ Connection(t) \/ GetMeThrows(t) \/ PollingError(t) \/ StopReturns(t)
       \/ StopRejects(t) \/ Collect(t) \/ ReplyThrows(t)
  \/ \E c \in Contents : \/ AddNewContentIntegration(c)
                         \/ EditContentIntegration(c)
                         \/ DeleteContentIntegration(c)
  \/ \E C \in SUBSET Contents : DeleteUserIntegration(C)

Spec == Init /\ [][Next]_vars

-----------------------------------------------------------------------------
(* Type correctness, with what the variables have to do with one another:  *)
(* an unused client has no owner, and a registered one is a client of the  *)
(* bot it is registered for, made and not collected.                       *)
TypeOK ==
  /\ row \in [Bots -> Existence] /\ uses \in [Bots -> Contents \cup {None}]
  /\ active \subseteq Bots /\ isUsed \subseteq Contents /\ tidy \subseteq Contents
  /\ content \in [Contents -> Kinds \cup {"new", "gone"}]
  /\ proc \in {"up", "down"}
  /\ looked \subseteq Call /\ marks \subseteq Mark
  /\ bots \in [Bots -> Clients \cup {None}] /\ owner \in [Clients -> Bots \cup {None}]
  /\ phase \in [Clients -> Phases] /\ polling \subseteq Clients
  /\ stops \in [Clients -> 0..MaxStops]
  /\ writes \in [Bots -> [Status -> 0..MaxWrites]]
  /\ deaf \subseteq Clients /\ serial \subseteq Telegram
  /\ \A t \in Clients : owner[t] = None <=> phase[t] = "unused"
  /\ \A b \in Bots : Registered(b) => owner[bots[b]] = b /\ phase[bots[b]] # "asked"

(* A bot the registry shows as connected hears its customers: its client   *)
(* polls and listens, unless it is being stopped.  The clients exempted    *)
(* are those whose polling failed while getMe was asked (start, error,     *)
(* disable and getMe in an order nobody wrote down), which are registered  *)
(* after they were disabled, and those whose stop was rejected, which      *)
(* disableBot leaves registered without their handlers.                    *)
RegisteredBotHears ==
  \A b \in Bots : LET t == bots[b] IN
    t # None => \/ phase[t] = "known" /\ t \in polling
                \/ stops[t] > 0
                \/ t \in deaf

(* A bot whose starts and stops never overlapped has one client, so that   *)
(* a message gets one answer, and the client that answers is the one that  *)
(* a stop would reach.  It holds over getMe that takes its time, polling   *)
(* errors, crashes and restarts; a bot whose getMe or whose stop failed is *)
(* not spoken of until the next process.                                   *)
SerialBotHasOneClient ==
  \A b \in serial :
    /\ \A t, u \in ClientsOf(b) : {t, u} \subseteq polling => t = u
    /\ \A t \in ClientsOf(b) : t \in polling /\ phase[t] = "known" => bots[b] = t

(* When such a bot is at rest, the isActive that the dashboard shows, and  *)
(* that the next process goes by, says whether it is connected: though     *)
(* nobody awaits the updates of it, and though a crash may swallow one.    *)
(* (It is not so of a bot whose stop was rejected: inactive, registered.)  *)
SerialStatusIsTrue ==
  \A b \in serial :
    proc = "up" /\ Has(b) /\ ~Busy(b) => (b \in active <=> Registered(b))

(* isUsed tells which credentials a bot uses, once the calls that change   *)
(* it are over, for credentials that were given to one bot at a time by    *)
(* addNewBot and taken from it by deleteBot, none of them cut short.       *)
TidyContentIsMarked ==
  \A c \in tidy :
    Exists(c) /\ (\A k \in marks : k.content # c)
      => (c \in isUsed <=> \E b \in Bots : Has(b) /\ uses[b] = c)

-----------------------------------------------------------------------------
(* The clients of serial bots as clients of BotRegistry                    *)

Held(t) == phase[t] = "asked" \/ stops[t] > 0 \/ bots[owner[t]] = t
Stage(t) == CASE stops[t] > 0 -> "stopping"
              [] stops[t] = 0 /\ phase[t] = "asked" -> "starting"
              [] OTHER -> "on"
Kept(b) == {[client |-> t, stage |-> Stage(t)] :
              t \in {u \in ClientsOf(b) : b \in serial /\ Held(u)}}

Registry == INSTANCE BotRegistry
  WITH Bots <- Telegram, orderly <- serial,
       client <- [b \in Telegram |-> Kept(b)]

(* A bot whose starts and stops succeeded one by one has one client at a   *)
(* time: the one that asked getMe is the one that is registered and the    *)
(* one that a stop or a polling error takes away, and no other is made     *)
(* until then.                                                             *)
SerialBotsAreRegistry == Registry!Spec
=============================================================================
