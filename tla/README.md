# Nexora chat bot: a TLA+ verification project

Nexora answers the customers of its users over WhatsApp, Telegram and a website
widget with an LLM.  This directory models the back end (`src/src`, one NestJS
process on Node.js with Postgres, Redis and BullMQ) at the level of the steps
between two `await`s, checks it with TLC, and proves the main invariants with
TLAPS for any number of bots, accounts, agents and requests.

Contents: [inventory](#inventory), [modules](#modules-and-how-they-map-to-the-code),
[runs](#runs), [fairness](#fairness), [proofs](#proofs),
[disagreements](#where-the-code-disagrees-with-its-text),
[what is not modelled](#what-is-not-modelled), [plan](#plan).

To check one instance, and the proofs of one module:

    tlc -workers 2 -config BaileysBots_safety.cfg MCBaileysBots.tla
    tlapm BaileysBotsProofs.tla

## Inventory

| component | state it keeps | operations | who calls it |
|---|---|---|---|
| WhatsApp bots (`integrations/service/baileys/whatsaap.service.ts`) | maps `bots`, `handlers`, `stopReason`, `botCallbacks`; sockets; 10 s timers | `startBot`, `disableBot`, `logOut`, `sendMessage`, handlers of `connection.update`, `creds.update`, `messages.upsert`, `onModuleInit` | integration service, Baileys events, itself |
| WhatsApp session store (`session.service.ts`) | credentials and keys of a bot in Postgres | read at a start, upsert on `creds.update` | WhatsApp bots |
| integration service, bot records | `BOT` rows with `isActive` | look-up of bot and agent before a start or stop; bot CRUD | socket gateway, controllers |
| answering (`AiService.wrapper`, `CustomerServiceWorkFlow`) | the call in progress | check tokens, find conversation, classify, hand over, generate, remember, store | every platform, one un-awaited call per message |
| conversations, messages | rows; column `humanHandle` | find or create by room, edit, delete | wrapper, staff |
| chat memory (`ChatMemoryRedisService`) | last 6 entries of a room, 30 minutes | `getHistory`, `appendMessage` | wrapper |
| token accounting (`UserSubscribtionService`) | rows with `tokenRemain` | purchase, edit, delete, `updateToken` | wrapper and RAG service after each LLM call; administrators |
| rate limiters | counters in Redis | `incr`, `expire` | every HTTP request; creation of agents |
| Telegram bots (`botFather.service.ts`) | maps as above; pollers | `startBot`, `disableBot`, polling errors, `onModuleInit` | integration service, the library's events, itself |
| bot records, content integrations | rows of bots with `isActive`, of credentials with `isUsed` | create, edit, delete with their marks | controllers |
| agents and vectors (`userAgent.service.ts`, `worker/`) | agent row and status, files, BullMQ jobs, vectors | add, edit, delete; INGEST, DEGEST with 3 attempts; a clean-up every minute | users, two workers |
| vector stores (`vector/service/`) | points of documents and products in Postgres, Supabase or Qdrant | store, clear, search by likeness and by filter | worker, workflow |
| the graph and its products (`customerService.workflow.ts`, `RAG.service.ts`) | the state of one question | classify, retrieve, product, orders and humanHandle, generate | wrapper |
| sign-in (`auth/`, `user.service.ts`) | users, accounts with their tokens, one-time codes, WhatsApp Business rows, cookies | register, login, OTP, refresh, logout, passwords, Google, Facebook | controllers |
| messages of staff, tests of an agent (`gateway/`) | none of its own | send to the platform and store; run the graph | socket clients |
| products, variants, pictures, profiles | rows of products, options, values, variants; directories of pictures | CRUD, generation of variants, pages, moves of pictures | controllers |
| website chat, WhatsApp Business | none | hand messages to wrapper, send answers | webhook, socket |
| orders, plans, categories, dashboard, payments, LLM and embedding clients, seeding | rows, or nothing | single-row CRUD, calls of external services | controllers |

How they interact: a platform hands each message to `wrapper` and does not wait;
`wrapper` uses token accounting, conversations, memory, the RAG service; the
integration service starts and stops platforms and writes `isActive`; agents
talk to workers only through BullMQ and the database.  All but the workers share
one event loop, so the only interleaving points are `await`s, timers and events,
and a rejected promise nobody awaits ends the process for everybody (Node's
default); docker-compose starts it again (`restart: unless-stopped`).

Hard behaviours: a registry of sockets that is written by events of any of them;
stop reasons shared by several stops and closes; timers that outlive their
reason; rows deleted under operations in progress; read-await-write on balances,
memories and conversations; two Redis calls that are not one; restarts from rows
written in any order.  `PROJECT.json` lists each under `hazards` with its line.

What makes each component correct:

- *WhatsApp bots*: the registry holds a bot's own socket; no connection is left
  without handlers; one connection per bot; what is connected can be resumed
  after a crash; a drop is retried; active bots come back after a restart.
- *Tokens*: a balance is what was granted less what was used; nothing is served
  beyond the grants.
- *Answering*: one conversation per room; what is handed over is with staff and
  the bot keeps out; the memory pairs questions and answers.
- *Agents*: what an agent may answer from changes only while a request for it is
  carried out, and towards what this request names; READY it has all of it, once;
  its document is kept; a deleted agent is forgotten; nobody waits for ever.
- *Telegram bots and records*: a bot shown as connected hears its customers, one
  client answers for it, `isActive` and `isUsed` say what is true.
- *Vector stores, graph*: what was answered is stored once, what was cleared is
  gone, a user's products are found and no other user's, what the LLM is shown
  was true while the question was being answered.
- *Sign-in*: a code opens once, the one mailed last counts, cookies handed out
  work, nobody is left without a way in.
- *Catalogue*: a picture is where its row says; generated variants are the
  combinations of their product; a client that reads pages misses nothing.
- *Limiters*: a window admits no more than its limit; refusals end.

## Modules and how they map to the code

`PROJECT.json` maps every definition to its lines.  Conventions: an action is
one stretch of code between two `await`s, with its guards; a program counter is
a variable that says which `await` an operation has come to; *observers* are
variables that properties read and no guard does.

**BaileysBots** - bots with their row, `isActive` and session row in the
database; the process's `bots`, `handlers`, `stopReason`; per socket its owner,
its stage (`conn`), the credentials it began with, and whether its handlers are
attached (`wired`).  The awaits: `looked` (bot and agent found, service call to
come), `conn = "auth"` (credentials being read), `logouts` (`sock.logout()`),
`writes` (`updateBotStatus`), `purge` (the steps of `logOut` after its first
await), `saving` (the upsert of `saveCreds`), `replying`, and `timers`.
Credentials are sent to the database by `CredsUpdate` and land later (`SaveLands`),
perhaps after their socket has closed or the session was purged.  A reply is sent,
or there is nothing to send (`ReplyEnds`).  `Dies` is the end of the process, from a
`Crash` or from one of the rejections nobody awaits (`LogoutRejects`,
`StatusWriteFails`, `PurgeRejects`, `SaveRejects`, `ReplyRejects`); it empties the
memory and leaves the database; `Boot` is `onModuleInit`.  A socket's identity is reused
once nothing refers to it.  WhatsApp is modelled by what it does to a session:
`linked` after the scan, `revoked` when the phone or a logout unlinks it, and
closes with 401 only of revoked credentials; 403 and 500 may come at any time.
The observer `serial` holds the bots no operation on which began while another
was in progress.

**TokenMeter** - rows with owner and balance; operations in progress: an answer
on its way through the graph (`classify`, perhaps `product`, `generate`) or a
purchase.  `Invoke` is the LLM call with the read of `updateToken`, `Bill` its
write.  `findFirst` has no order, so any row of the account may be returned.
Observers: `due`, the balance by the rules, and `orderly`, the accounts used one
operation at a time, with one purchase, whose charges all got written.

**Conversations** - conversation rows with room and `humanHandle`, the rows of
messages of a conversation (`log`), the memory of a session, and for each message
the step its `wrapper` call has come to.  A session is a room, or an agent its
owner is trying (`Test`, `RunTest`, `ShowAnswer`: the graph and the memory with
no conversation).  LLM calls, retrieval and the catalogue only read and take no
step; the LLM's classification is a choice.  An answer consists of up to
`MaxAnswers` messages: `wrapper` begins to store them and returns (`Answer`), and
the rows land one by one, whatever else is stored between (`StoreAnswer`,
`unstored`).  A failing step ends the call, with two exceptions that end the
process: the storing of the answers, which nobody awaits (`AnswerRejects`), and
everything in a call of the webhook of WhatsApp Business or of the handler of
Telegram (`HookRejects`).  Staff send over the platform first (`StaffSend`) and
store second (`StaffStore`), with or without having taken the conversation over,
and edit and delete conversations meanwhile.  The tokens a call uses are in TokenMeter; the modules share no
variable.  Observers: `serial` sessions, those in which no message came before the
call of the last one was over and its rows had landed, and `handed`, the
conversations the workflow gave to staff.

**Answers** (which extends **VectorStores**) - one question on its way through the
graph: `question.at` is its station, `state` what the nodes have put together for
the prompt; and `goods`, the products table, a product being its version.
Searches go to the store, rows are read from the table afterwards.  Observers:
`recent`, the rows there have been since the question came, and `offered`, the
products sold and found all that time.

**VectorStores** - the points of the three stores behind the same calls.  A point
has an id, an agent, a kind, the metadata its store writes and the call that wrote
it.  They differ in what one request writes (a row in Postgres, everything in
Supabase, up to `CHUNK_SIZE` points in Qdrant), in retries (Qdrant tries a request
`RETRY` times; its answer may be lost after the points have landed), in ids (a
product is stored in Qdrant under its own id, all else under a new one made
before the first attempt) and in the keys of their metadata, by which callers
filter alike.  `backend` is chosen once.  `rows` is what the store has taken: of
Qdrant, which is asked to wait only when a document is stored, the properties
speak of the time when the updates it answered are applied.  Observers: `whole`,
`cleared`.

**AdmissionWindow** - what a limiter promises: a window opens, its clock starts,
places up to the limit are taken, each once, and it closes when the clock runs out.
RateLimiter's `CountersAreWindows` is its refinement.

**RateLimiter** - a counter with or without a time to live, and the requests in
progress, each with its key and its place in the count; both limiters are this
pair of calls.  Redis executing `incr` (`Incr`) or `expire` (`ExpireLands`) and the
process having the answer and acting on it (`Decide`) are steps of their own: in
between the key may lapse, the request may fail, executed or not
(`RequestFails`), and the process may end (`Crash`).  Observers: `admitted`, the
places admitted in the life of a key; `late`, requests whose key has lapsed since it
counted them; and the failures so far.

**AgentIngestion** - the rows of agents (document, products, `vectoreStatus`),
the vectors stored for them, the folder each document is in, and *tasks*.  A task
is one request (`add`, `edit`, `delete`) and the job it queues: its program
counter goes through the awaits of `UserAgentService`, then the queue (`waiting`,
`delayed` during a back-off, `stalled` after the end of the worker process), then
the awaits of the job (`clearFiles`, `clearLists`, `list`, `listRest`, `file`,
`fileRest`, `ready`, `catch`).  Two workers take jobs in the order of the queue; a
failed attempt is retried up to three times, a stalled job runs once more and is
then given up.  The rows of a document or of a list of products are inserted
without a transaction, so a copy of them is stored in two steps and an attempt may
end between them: per agent and piece there is nothing, a part, a whole copy, or
more (`several`).  A document is moved between `temp` and `file` by `rename`, which
fails when it is not there; `CleanUp` removes any document of `temp`, since a moved
file keeps the time of its upload and that may be long ago.  Owners of agents,
which the filters of the vectors also name, do not change, and contents of
documents are one name.  Observers: `orderly`, the agents each of whose tasks
begins after the last one has ended, whose documents nobody else names, and none
of whose tasks ended without a queued job or a reported outcome; `kept`, those
whose last edit kept the document or the products; `repeated`, those whose
ingestion took more than one attempt.

**AgentKnowledge** - the abstract specification of an agent: a stage ("out",
"changing", "READY", "FAILED"), the pieces its last request named and the pieces
it may answer from.  AgentIngestion maps every orderly agent to one (`Stage`,
`Wants`, `Knows`) and every other agent to "out"; a part of a document counts as
known.

**BotRegistry** - the abstract specification of a platform's service: a bot whose
starts and stops have not overlapped has no client or one, which is starting, on,
dropped (its line is lost and it is still held) or stopping.  A client is made
for a bot that has none, is refused or connects, drops, is stopped, and is gone;
a request that begins during another gives the promise up for its bot
(`Overlaps`), and a restart begins anew.  BaileysBots and TelegramBots both
implement it (`SerialBotsAreRegistry`).  What a bot is held to keep (`Held`) is a
socket or client that is alive or asking, registered, or being stopped; `Stage`
is read off `conn` or `phase`, the awaits of a stop and the registry.  A Telegram
client never comes to "dropped": a polling error stops it.

**TelegramBots** - the row of a bot with its content and `isActive`, contents with
`isUsed`, and per client (a `TelegramBot` object) its phase: `asked` (getMe on its
way), `known`, `lost` (its polling failed), `off`.  A client polls from its
creation, is registered when getMe answers, and `disableBot` awaits
`stopPolling`.  That returns (`StopReturns`), or rejects, which is caught and leaves
the client registered, without handlers and said to be inactive (`StopRejects`).  `looked`, `stops`, `writes` and `marks` are the other awaits:
lookups before a service call, `stopPolling`, un-awaited updates of `isActive`, and
the write of `isUsed` after a row.  `Boot` is `onModuleInit`, which ends the
process when a bot's content is missing or holds no token, on this start and
every later one.  Web and WABA bots share the records and have no client.
Observers: `serial`, `tidy`, `deaf`.

**SignIn** - the password column, accounts (two tokens per provider), codes in the
order of their creation, and WhatsApp Business rows of each user; cookies and
mailbox; and per request its step (`at`), its user and what it has read (`saw`).
A request makes at most one token of each kind and one code, so it names them.
`sendOtp` mails to the email it is given and stores the code for the id it is given,
which may be two people's or nobody's (`SendOtp`, `SendOtpToNone`), and a forgotten
password is written to the user of the id while the code checked is that of the
email (`ForgotPassword`, `ResetPassword`).  `login` sends the mail before its code's
row is there and awaits neither (`mail`); `MailRejects` ends the process.
`MakeContents` makes the numbers Meta shows, if any, and users add and delete
integrations and contents by hand.  Requests whose row was deleted under them are
`orphans`.  Observers: `serial`; `cut`; `crossed`, the people named by email without
their id or by id without their email; `bare`, those of whom Meta showed no numbers
or who changed their integrations by hand; `fresh`, `opened`, `spent`.

**Catalogue** - products in the order of their creation, pictures in `temp` or
`image`, options, values and variants with their values; requests with the step
they have come to; a generation with the combinations it has still to make
(`plan`) and the variants it has made without their values (`made`), in any order
as `Promise.all` runs its branches; one client walking the pages.  `CleanUp`
removes any picture in `temp`.  A user may have come with a link for a picture
(`Links`), from Google or Facebook, which is in neither directory and which every
move of it fails on.  Observers: `tidy`, `plain`, `runs`.

**BaileysBotsProofs**, **QuotaProofs** (of TokenMeter and RateLimiter),
**ConversationsProofs**, **AgentIngestionProofs**, **TelegramBotsProofs**,
**SignInProofs**, **AnswersProofs**, **CatalogueProofs** - invariants, lemmas,
theorems.
**MC...** - symmetry sets, owners and budgets for TLC.

## Runs

Deadlock is not checked in any run: an idle system waits for its clients, and at
the bounds named below nothing more may arrive.

| run | what it asks | instance, and why it is enough |
|---|---|---|
| `bots_safety` | `RegisteredIsOwn`, `NoDeafConnection`, `SerialBotHasOneConnection`, `ConnectedBotSurvivesCrash`, `SerialBotsAreRegistry` | one bot with two sockets, two calls, one timer, two logouts of a socket, one status write per value and one save of credentials in flight, any number of crashes. Replies, which change nothing but may end the process as a crash does, are in `bots_liveness`. Bots share only the process, and a bot's identity is compared only with that of its own sockets; two sockets let every start overtake another (an old socket kept by the registry or by `handlers` beside a new one). The theorems cover any number. 1.9 million states |
| `bots_liveness` | `DropIsRetried`, `RestartResumes` | two sockets, one of each pending thing, a message being answered, whose reply over a closed socket ends the process: every way to drop and to die is there; bots begin with any session, and no new one is paired. Under `StartSpec`. 0.6 million states |
| `tokens_safety` | `OrderlyBalanceIsDue` | two accounts, two rows, two operations, LLM calls of 1 or 2 tokens against grants of 2, so that charges meet, exceed and fall short of the balance; `Plans = {2}`, `MaxTokens = 2`, both rows edited and deleted (also given to the other account), both operations failing |
| `conversations` | `HandedIsWithStaff`, `SerialRoomHasOneConversation`, `SerialMemoryPairs`, `SerialLogIsADialogue`, `SerialStaffTalkAlone` | two rooms, two conversations, an agent to try, two messages, answers of one or two messages, one row of staff: two calls of a room or of two, the rows of an answer landing around a question, a word of staff, an edit and a deletion; a memory of 2 entries, which the second message overflows and finds cut. The memory of a session depends on its messages only, and nothing else depends on the memory, so `OneHistory` explores two families of histories: with several conversations and staff the memory expires when the call that wrote it has its answer, and with one conversation and a test it lasts. 1.5 million states |
| `ingestion_serial` | `ReadyIsComplete`, `OrderlyAgentsAreKnowledge`, `OrderlyChangesEnd` | one agent, two documents, two lists of products, one task at a time, the three attempts of the code and both stalls, four requests: an ingestion, two edits in which each part changes, stays or changes back, and a deletion (and an agent added again). 0.6 million states |
| `ingestion_overlap` | `OrderlyAgentsAreKnowledge`, `DocumentIsKept` | two agents, two documents, one list, two tasks and two jobs at once, one attempt each, three requests: two requests for one upload, an edit to a document of the other agent, jobs of one agent in parallel. More attempts repeat what `ingestion_serial` covers. 1.7 million states |
| `limiter_window` | `CountersAreWindows`, `RefusalEndsWithoutFailure` | two keys, two requests in progress, limit 2, counters to 4, two failures or crashes: a place beyond the limit, a late first request beside the next window's, an `expire` that is lost and one whose answer is. 0.04 million states |
| `signin` | `TypeOK`, `SerialCookiesWork`, `OAuthUserIsComplete`, `SerialCodeOpensOnce`, `SerialNewestCodeCounts` | two users, all three providers, three requests of which two run at once: a sign-in and two more that overtake one another, each cut off anywhere, with integrations changed by hand; two codes, of one user or of one for the other, and a use of either. Users meet in codes and passwords only, so `OneHistory` explores two families of histories: two people who sign in by email, and one with every provider. 0.4 million states |
| `telegram` | `SerialBotsAreRegistry`, `RegisteredBotHears`, `SerialBotHasOneClient`, `SerialStatusIsTrue`, `TidyContentIsMarked` | a Telegram and a web bot sharing one content, two clients, one call, two marks, one stop of a client and one status write per value in flight, so that an old client, an old status and an old mark may each come after the new one. 1.9 million states |
| `vectors` | `AnswersTypeOK`, `StoredAsAnswered`, `ClearedIsGone`, `StoredIsFound`, `ShownWasTrue`, `AllMeansAll` | each store in turn; three agents of two users, two calls at once, documents of 3 chunks in batches of 2, two products. Three budgets: the stores alone without a bound; a store, a clearing, an edit and a question; two stores, an edit and a question. 1.6 million states |
| `catalogue` | `TidyOwnerHasPicture`, `VariantIsAChoice`, `EveryCombinationAsOften`, `WalkMissesNothing` | two requests at once; four budgets: two for pictures (three uploads of two names, so one name is uploaded again, between products and with a user, who may have come with a link), one for variants (two options, three values, two generations, one deletion of each kind), one for a walk over three products in pages of one. 0.5 million states |
| `bots_reconnect` | `DroppedConnectionReturns`, see below | as `bots_liveness`, without replies, with a session paired anew, under all of `FairSpec` |

`TypeOK` of BaileysBots, TelegramBots, TokenMeter, Conversations, AgentIngestion
and Catalogue, and `LimiterTypeOK` of RateLimiter, are theorems and not repeated in
their runs (nor is `WindowIsLimited`, which `CountersAreWindows` contains).

What the passing runs show.  `RegisteredIsOwn` and `NoDeafConnection` hold under
all interleavings: although `handlers` may hold another socket's functions,
`disableBot` takes handlers off a live socket only when a logout of that socket
is under way.  The two serial properties are what a client that waits for each
operation may rely on; overlapping starts do make two connections, which is why
they are not stated for all bots.  `SerialBotsAreRegistry`, of both platforms, adds
what the steps between two states may be: the client that was started is the one
that connects, that is held when its line drops, and that a stop takes away, and
no other is made before.  In particular a dropped socket of WhatsApp is never
replaced, which is the liveness failure below.  In the same way two first messages at once
make two conversations of a room, which then disagree about who handles it.
`ConnectedBotSurvivesCrash` is about credentials that have landed: while a save of
the bot is under way it promises nothing, and afterwards no purge or save of an
earlier connection may have undone it.  `DropIsRetried` is about the timer alone: it leads to a socket, to a bot
registered by somebody else, or to the end of the process.  `OrderlyBalanceIsDue`
is exact: several charges per answer, the clamp, edits and cancellations lose and
invent nothing as long as an account's operations do not overlap.

`HandedIsWithStaff` holds although `humanHandle` looks a conversation up and
updates it later, because the update of a deleted row fails.  `SerialMemoryPairs`
holds through failures between the two appends, through the cut and the expiry.
`SerialLogIsADialogue` holds however many messages an answer has, in whatever order
and however late they land or fail to, with messages of staff stored between a
question and its answer and between two messages of one answer;
`SerialStaffTalkAlone` says that after a hand-over the only entries besides those
of staff are the answer of the call that made it.

`ingestion_serial` holds with any attempt failing or crashing at any step:
`DegestAgent` clears before it stores, so its job is idempotent, while a repeated
`ingestAgent` may leave several copies.  `OrderlyAgentsAreKnowledge` is the
refinement: whatever rows, files, jobs, retries and stalls do, an agent handled
in order changes what it knows only during a request and only towards the pieces
named; READY it has nothing else; deleted it leaves nothing.  `OrderlyChangesEnd`
is the liveness of the abstract agent, about requests that queued their job.
`ingestion_overlap` says what the other agent and the clean-up cannot do to an
agent that is handled in order; without that order an old job may store what a
deletion has removed, and two agents may end up with one document.

`CountersAreWindows` holds with every answer of Redis late or lost: a window may
close with nothing admitted, a request whose key has lapsed takes no place of the
next window, and none is admitted on a key that is gone but by an answer it was
given before.  `SerialNewestCodeCounts` needs one request at a time and none cut
off, since mail and row leave in one order and arrive in any, and none that names
one person for the mail and another for the row.  `OAuthUserIsComplete` holds for
overlapping requests too: that the row of the business is there whatever happens
to integrations, and the numbers unless Meta showed none or the user changed them.
`RegisteredBotHears` excepts `deaf` clients alone.  `ShownWasTrue` and `AllMeansAll` hold although the vectors of
edited and deleted products stay as they were, because the prompt is made of
rows read afterwards.  `StoredAsAnswered` holds for Qdrant because a repeated
batch has the ids of the first, for the others because they do not repeat.
`EveryCombinationAsOften` says what a second generation does: it adds every
combination again, none twice and none not at all.

### What the properties except

Behaviour of the code that a reader may not expect; no text of the repository
says otherwise, so it is stated here.

- The branch of `connection.update` for 401 asks for `stopReason = 'logout'`, which
  `disableBot`, called by `logOut`, has overwritten: it never runs.
- `deleteBot` deletes the row and then asks for a `disableBot` that finds no row and
  returns: the connection stays until the process ends.
- Two charges of an account at once: one is lost (`orderly` excepts them).
- A key of a limiter whose `expire` was never executed never lapses (`failures > 0`).
- A bot that opens and whose process ends before `saveCreds` has landed comes back
  without a session, or with an old one (`saving`).  A save that lands after a purge
  brings back the row that was deleted.
- `wrapper` does not wait for the messages of its answer to be stored, so the next
  message of the room may be stored among them; a room counts as `serial` as long as
  its messages come when the rows of the last answer have landed.
- `sendOtp` mails a code to the email of the request and stores it for the id of the
  request; `updateUserPassword` checks a code of the email and writes the password of
  the id.  People named by one without the other are `crossed`, and
  `SerialNewestCodeCounts` says nothing of them.
- Connecting WhatsApp Business makes no contents when Meta shows no numbers, and no
  later sign-in makes them up (`bare`).
- An edit that changes the document alone clears the products too and does not
  store them again; one that changes neither leaves the agent READY with nothing
  (`kept`).  An ingestion that took several attempts may leave several copies of
  its vectors (`repeated`).  A request that fails after it has created the row
  leaves it Processing, with no job, for ever.
- A Telegram client whose polling failed before getMe answered is registered
  afterwards, and hears nothing; one whose `stopPolling` rejects stays registered
  without its handlers and is said to be inactive, and every later start finds it
  connected (`deaf`; its bot is `serial` no more).
- Documents in Qdrant carry `documentId` where the worker clears by another key,
  so that no clearing removes them; one scroll of Qdrant returns 10 points.
- The worker writes to Postgres; `RAGService.Retrieve` reads documents from
  Supabase, which nothing wires the worker to; the product branch of the workflow
  reads Postgres.  So the properties of documents are about the stores, and those
  of products about answers too.  Searches filter by user, not by agent.
- `validateUser` looks a WhatsApp Business account up by `busineesId` and stores the
  `wabaId`, so it never finds one; a second connection fails on the unique index
  after its first row.  `changeUserPassword` stores the new password unhashed, and
  no login with it succeeds.
- `deleteProduct` leaves the picture in its directory; `updateUser` moves the
  picture also when none is sent, so that with a link of Google or Facebook it
  writes the row and then fails; `totalPages` is not rounded.

Bounds in the guards: `MaxLogouts`, `MaxWrites`, `MaxTimers`, `MaxCalls`,
`MaxReplies`, `MaxSaves` (BaileysBots); `MaxUsage`, `MaxTokens` (TokenMeter); `MaxCount`,
`MaxFailures` (RateLimiter); `MaxRequests` and the places in `Tasks`
(AgentIngestion); `MaxAnswers`, `MaxStaff` and the number of messages and rows
(Conversations);
`MaxAtOnce` and the number of requests (SignIn); `MaxCalls`, `MaxMarks`,
`MaxStops`, `MaxWrites` (TelegramBots); `MaxEdits` and `Budgets` (Answers);
`Budgets` and the rows (Catalogue).
`MaxReplies` is 0 where a reply could only end the process, which `Crash` does there
anyway, and 1 in `bots_liveness`; `MaxSaves` is 0 in `bots_liveness`,
whose bots begin with any session there can be and connect with it, but pair no new
one; it is 1 in `bots_safety`, whose properties are about what is stored.
`OneHistory` of MCConversations and of MCSignIn are the only constraints of runs; the
theorems have none.
The `WF` conditions are on actions whose bounds (`MaxWrites`, `MaxTimers`) may
disable them only for a while, since the writes and timers that fill them are
themselves fair.

## Fairness

`BaileysBots!FairSpec`: weak fairness of what the event loop owes (a call that
has its look-ups, a timer), of what the database and Redis answer, of a logout's
return or rejection, of a save and a reply, which end one way or the other, of
garbage collection, and of `Boot`, which docker-compose performs; and the process is not killed from outside for ever
(`<>[][~Crash]_vars`).  `BaileysBots!StartSpec`, for the liveness that holds, asks for less:
`Boot`, the calls and timers of a bot, and that what is left of a socket (replies,
logouts, purges, its memory) goes on in some order.  Nothing is assumed of clients, the phone, the network,
WhatsApp's answers to a connection, or failures.  `RateLimiter!FairSpec`: Redis
executes the `expire` it is sent (unless the call fails first) and keys lapse;
answers, and what requests do with them, owe nothing.  `AgentIngestion!FairSpec`:
a request answers or fails, BullMQ hands out waiting jobs, ends back-offs and finds
stalled jobs, and an attempt ends one way or another; nothing says that a step
succeeds or that the worker stays up, but a job can stall only twice, and an
attempt can fail only as often as the queue tries.  The other modules state no
liveness: each of their calls may fail at any step.

## Proofs

All theorems hold for every value of the constants that satisfies the named
assumptions: `None` (`NoKey` in RateLimiter) is none of the identities, and the bounds are naturals
(`NoneAssumption`, `BoundsAssumption`, `MeterAssumption`, `LimiterAssumption`,
`WorkAssumption`, `BoundAssumption`, Conversations' `AnswersAssumption`), the memory keeps at least one entry
(`KeptAssumption`), and rooms, agents, documents and lists are apart
(`AgentsAssumption`, `DisjointAssumption`).  `TelegramAssumption` adds that
Telegram bots are bots; `SignInAssumption` that the sign-ins in use are among
the three the code has and the one by email is in use; SignIn's `NoneAssumption`
that `None` is none of the records of accounts and users; `StoresAssumption` that
there is an agent, that every agent has an owner, and that lengths, batches,
attempts and pages are at least 1; Answers' `AnswersAssumption` that a search asks
for one product at least; `LinksAssumption` that links are among what a row names as
its picture; `LimitAssumption` that a page has room for one row;
`OptionAssumption` that every value is made for one of the options.
Each follows the same argument: an inductive invariant, `Init => IInv`, one
lemma per action (or per group of actions that disturb the same part), then PTL.

*BaileysBotsProofs.*  `IInv` is `TypeOK`, `RegisteredIsOwn`, `NoDeafConnection`
and `NothingDangles`: whatever a map, an await or a handler refers to is a
socket in use, with an owner, and at the stage that this reference implies; for
example a socket with a logout under way has been open.  Without it the registry
could be left with a recycled identity.  Theorems: `TypeCorrect`,
`RegistryCorrect`, `NoConnectionIsDeaf`.  For serial bots `SerialInv` adds eight
parts: at most one socket is alive (`OneAlive`), an open one is registered
(`OpenIsRegistered`), a logout or a purge in progress leaves no other socket
alive (`LogoutOfTheOne`, `PurgeAlone`), no write of inactive is in flight beside
a live socket (`NoOffWrite`), and an open socket has linked or revoked
credentials that are stored or on their way, and a row that is active or about to
be (`OpenHasCreds`, `CredsStored`, `OpenIsRecorded`).  Theorems: `OneConnection`,
`SurvivesCrash`.  For the refinement of BotRegistry one part more is needed: a
serial bot holds one socket at most, a dropped or stopping one included
(`OneHeld`).  Every step is about sockets of one bot or about none, or ends the
process; `TouchRegistry` reduces the first kind to what that bot keeps before and
after (`Moves`), `OthersKeep` does away with the other bots.  `OpenIsRegistered`
is what makes a line that drops, or a stop, find the socket in the registry, and
`RegisteredIsOwn` what makes a connection refused before it was open leave
nothing.  Theorem: `Implements`.

*QuotaProofs.*  Of tokens: `OrderlyBalanceIsDue` is not inductive: that the row of a
bill is still the account's, that an orderly account has one operation and one
row, that it has nothing due without a row, and that a purchase in progress has
read what is due, have to be added (`Shape`, `OneAtATime`, `OneRow`, `NoRowNoDue`,
`PurchaseReadDue`).  Theorems: `TypeCorrect`, `MeterCorrect`.
Of rates: places are admitted, or awaited, only as far as the key has counted
(`PlacesAreCounted`), no key lapses before the `expire` of its first request has
been executed (`FirstInTime`), only keys that are there have a time to live
(`KeysExpire`), and who asks nothing has nothing pending (`IdleIsBlank`).  That two
requests never have one place is part of `WindowIsLimited` itself.  From the same
invariant every step is shown to be one of AdmissionWindow or a stutter: in
particular a request decided on after its key has lapsed takes no step.
Theorems: `LimiterTypeCorrect`, `WindowCorrect`, `Implements`.

*TelegramBotsProofs.*  `RegisteredBotHears` needs that a disabled client is silent
and an asked one polls unless its polling failed (`Listening`), and that what does
anything was made for a bot (`Owned`).  For a bot whose operations do not overlap
`Orderly` names the one operation there can be: a call that found everything at
rest (`OneCall`), a client waiting for `getMe` (`OneAsked`), a client being stopped
(`OneStopped`), an update of `isActive` in flight (`OneWrite`); beside them one
client polls, and the registry knows it (`OneClient`).  `Truthful` says how far
`isActive` may be behind meanwhile.  Such a bot can begin an operation only when
none of these is under way, and nothing else touches it: frame lemmas dispose of
the steps of other bots.  `Rooted` holds what a crash and a boot need: nothing
outlives the process, nothing comes before its row.  For contents `OneBot` ties
`isUsed` and the one mark to come to the row that uses the content.  Theorems:
`TypeCorrectness`, `RegisteredBotsHear`, `SerialBotsHaveOneClient`,
`SerialStatusIsTold`, `TidyContentsAreMarked`.  `Implements` is the refinement of
BotRegistry, along the same lines as for WhatsApp; here no further invariant is
needed, since `OneAsked` and `OneStopped` already leave a bot one client that is
asked, registered or being stopped (`OneHeld`).

*AgentIngestionProofs.*  `TInv` adds to `TypeOK` that a task has the data of its
kind (`DataThere`), that a row has both its parts (`RowsWhole`) and that the queue
holds waiting jobs, each once (`QueueWaits`).  `DocumentIsKept` speaks of agents at
rest, so `DInv` adds how far a request at work has come in terms of the row and
the folders (`Progress`), that an orderly agent has one task (`OneTask`) and that
nobody else names its document (`NotShared`); the last is what a move of another
agent's document needs.  Steps of the queue and of the workers keep all this for
one reason, `Later`: they leave rows, folders and requests alone.  `ReadyIsComplete`
is about the end of a job, so `KInv` says for each of its steps what the job of
an orderly agent has cleared and stored: the row is what it will report on
(`Known`), from the clearing on nothing but what it names is there (`OnlyNamed`),
each list and document it has passed is there in full (`InFull`), and, but for an
ingestion that is repeated, once (`NoMore`).  Every step is one of a single task
for a single agent, which leaves the others alone (`Alone`, `StepIsAlone`).  The same
invariant shows that the steps of a request map to those of AgentKnowledge
under the refinement mapping (`TaskRefines`, `BeginRefines`): what an agent knows
grows only towards what is asked (`OnlyNamedAreAdded`), and a request ends with
a report on that, or with nothing left (`EndsWell`).  Theorems: `TypeCorrect`,
`DocumentKept`, `ReadyComplete`, `Implements`.

*ConversationsProofs.*  `IInv` is `TypeOK`, `HandedIsWithStaff` and `Held`: at every
step a call refers to what that step needs, for instance a hand-over to a row it
has found.  That no memory outgrows the prompt rests on a lemma about the end of
a sequence (`KeptPart`).  For rooms whose messages come one at a time `SerialInv`
adds that one call is in progress (`OneCall`), that a call about to create a
conversation knows there is none (`NoneToCreate`), and what the call has read of
the memory at each step (`OwnMemory`): when it writes its answer, the last entry
is its own question, or the memory has expired.  `PairedPart` then says that
appending to a paired memory and cutting its front leaves it paired.  Most steps
touch none of this; `Kinds` sorts them by what they do to calls.  `TalkInv` goes
on to what is stored: a conversation that a call has found stays in its room, or
that room no longer counts (`Addressed`: editing or deleting it under the call
takes the room out of `serial`); staff have it only if the call handed it over
(`InHands`); and past its question it ends with the question, what staff said
since, and what has landed of the answer (`Asking`).  `AppendDialogue` says which
entry continues a dialogue; `QuietSteps` names the steps that store nothing.  `StaffTalkAlone` is an action
property: of the steps that store, a question is excluded by `InHands` and an
answer is its call's.  Theorems: `TypeCorrect`, `HandOverCorrect`,
`OneConversation`, `MemoryPairs`, `LogIsADialogue`, `StaffTalkAlone`.

*SignInProofs.*  `TInv` says what a request has read and owns at each of its steps
(`StepsFit`, `TokensAreOwn`, `CodesAreOwn`) and what it can rely on: accounts are
never given up, and the row of a user goes only with the knowledge of the
requests under way (`AccountsStay`, `RowsStay`).  For users whose requests come one
at a time (`OneAtATime`, in which a mail on its way counts) three parts follow the
three rules.  `Opens`: a code that has opened is used in every row that has it, and
one that a request is about to use has not opened.  `NewestCounts`: the code mailed
last counts, or its row is still to come, or its mail is; that a code is mailed to
whose row it gets, or both are crossed, is `MailsMeet`.  `CookiesRenewed`: fresh
cookies are tokens of an account, and a refresh has read those of the jar.  That
users of Google and Facebook are complete holds for all requests, overlapping or
not: `MakersInv` says that a user without a password and without an account has
the one request that is about to make it, `JoinedInv` that one of Facebook
without his numbers, and not bare, has a request that will make them or another
that made the integration and goes on, and `WabaInv` the same of the row that comes
first.  Theorems: `TypeCorrect`, `CodeOpensOnce`,
`NewestCodeCounts`, `CookiesWork`, `OAuthIsComplete`.

*AnswersProofs.*  Of the stores alone, `StoredAsAnswered` needs to know that what a
call has stored so far is a beginning, up to the batch it is at or, when an
answer was lost, with it (`Beginnings`).  That a batch which lands takes nothing
from it rests on the ids: a point has the id its call makes of its item
(`RowsFit`), so points of two calls meet only as products in Qdrant, and there no
other call is writing products beside one that counts (`NoRival`).
`ClearedIsGone` needs that nobody is storing for what counts as cleared
(`ClearedAtRest`), and the lemma that a filter by agent finds all of his points
but documents in Qdrant (`AgentFilter`).  For `StoredIsFound`, `OnePage` counts:
in Qdrant a product has one point for everybody, so a user has at most
`NumProducts` and a page of that size holds them.  `AnswersHaveStores` then shows
that Answers only ever takes steps of VectorStores, and `AnswersInv` adds what
the question has read: the table as it is and what was read of it have been there
since it came (`ReadRecently`), and a question for all has found, and then looked
up, whatever stayed on offer (`FoundAll`).  Theorems: `AnsweredStored`,
`ClearedGone`, `StoredAreFound`, `AnswersHaveStores`, `TypeCorrect`,
`ShownIsTrue`, `AllAreShown`.

*CatalogueProofs.*  `TInv` gives every variable its type: no product is listed
twice (`RowsFit`), every value is of an option that is there (`VarietyFits`), and a
call has the data of its step (`CallsFit`, `StepFits`).  For pictures `PInv` says of
a tidy owner that one request is at work for it (`OneRequest`), that no other
row or request names a picture of it (`Unshared`), that the picture is in place
unless it is a link or that request is about to move it (`InPlace`), and that the request knows
which one that is (`MovesItsOwn`).  `VInv` is about generations: what one has still
to link has one value of each of some options of its product (`OneOfEach`), and a
variant it has made belongs to the product or is gone, has no values yet
(`MadeFits`), and was made by it alone (`MadeOnce`).  `EveryCombinationAsOften` counts,
so `CInv` counts too: while nothing is edited and nothing fails, the variants
there are of a combination and those that generations have still to make or to
link add up to the generations begun (`AsOften`), plans are of the product's
combinations (`PlansFit`), and there are no other variants (`NoOthers`).  For the
walk, `Walking` says that the reader has seen the rows there were when it began
which are as near to the newest as it has read (`ReadSoFar`), by a lemma on what a
page lists (`PageLists`).  Theorems: `TypeCorrect`, `PictureInPlace`,
`VariantCorrect`, `CombinationsEven`, `WalkCorrect`.

Only model-checked: liveness (fairness and `ENABLED` are beyond the prover) and the
statement that fails.  Every safety property of a run is a theorem.

## Where the code disagrees with its text

A run that ends in a counterexample; `PROJECT.json` quotes the lines.

- `DroppedConnectionReturns`: a bot that was open stays in `bots` after a drop,
  so the `startBot` of the timer returns at once.

## What is not modelled

- Contents: texts, prompts, retrieved documents, answers, embeddings and
  distances, progress callbacks, encryption of credentials.
- The signal keys beside a WhatsApp session; a session is one of three values.
- `POST /api/conversation` reaches `addNewConversation` too; it adds the same
  find and create to a room as a message does, without the rest.
- Expiry dates of subscriptions and lifetimes of tokens: the first are read by no
  code on these paths, the second only refuse.
- Delivery of an answer to the website and to WhatsApp Business: the website's
  condition `(response?.data, length !== 0)` throws and is caught by the socket's
  filter, the other posts a text; neither keeps state.
- A request of the dashboard that names another type or content than its bot's
  row has; a socket request the schema refuses, whose un-awaited copy rejects.
- Products created within one millisecond, whose order in the pages is open.
- The moment between Qdrant's answer to an update it was not asked to wait for (a
  deletion, a product) and its application, in which a search may still see what
  was there before; updates are applied in the order they were taken.
- `AgentUserDataTrain` of the vector stores, `clear` of the memory and orders, which
  nothing calls; orders would throw besides (`orderitems` in the schema,
  `orderItems` in the service).
- More than one back-end process: docker-compose starts one.
- Components marked `not_modelled` in `PROJECT.json`: adapters of external
  services, single-row CRUD and reports, which keep no state that interleaves.

## Plan

1. Done: the modules and proofs above.
2. Orders, once the application imports them.
3. Deliveries to the website and to WhatsApp Business, once they keep state.
