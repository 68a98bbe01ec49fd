# TLA+ models of the social-media bridge

The repository bridges WhatsApp, Telegram and Instagram to an MCP server. This
directory holds TLA+ models of its stateful parts, the TLC configurations that
check them on small instances, and proofs of the properties that matter most.
Paths below are relative to the repository (`src/...` in `PROJECT.json`).

    tlc -workers 2 -config MCChats.cfg MCChats       # one run
    tlapm EventPublisherProofs.tla                   # one proof module

`PROJECT.json` lists every run with its configuration, every definition with the
lines it stands for, the deliberate mutation each property must detect, the
findings, the hazards and the theorems.

## 1. The system

All services are Node.js (one Python): a handler runs undisturbed from one
`await` to the next, and everything that goes wrong goes wrong across an await,
a timer, a callback of a library or a restart of the pod. An action of a model
is therefore one such stretch of a handler, with every call it makes.

| Component | State it keeps | Operations | Talks to | What is hard | Correct when |
|---|---|---|---|---|---|
| WhatsApp event publisher (`connectors/whatsapp-web/src/events/publisher.ts`) | NATS client, `connected`/`connecting`/`stopped`, reconnect timer, retainer, `draining` | connect, disconnect, publish*, watchers, drainRetention | NATS; called by the Baileys client | outages seen late, a flush that may or may not have arrived, shutdown during a drain | every accepted event has one fate; order kept; the retry is never lost |
| Instagram publisher (`connectors/instagram/src/publisher.ts`) | the same, own copy | connect, disconnect, publish | NATS; called by the webhook | the same, with other guards | the same |
| Telegram publisher (`connectors/telegram/src/events/publisher.ts`) | client, flags, timer | connect, disconnect, publish* | NATS | forgets a client that reconnects by itself | what is lost is imported later |
| Credential write-back (`shared/src/session-store/credential-write-back.ts`) | timer, `inFlight`, `pending`, `due` | schedule, flush, cancel | credential store | persists during a put, shutdown, failures | the last persist reaches the row, puts do not overlap |
| Credential session (`connectors/whatsapp-web/src/credential-session.ts`, `connectors/telegram/src/main.ts`) | `opened`, `invalidated`, hooks | load, attach, invalidated hook | write-back, store, client | a logout while a write is scheduled or running, restart between two steps | the row follows the login and dies with it |
| WhatsApp pairing pool (`connectors/whatsapp-web/src/pairing/session-pool.ts`) | `sessions`, `expired`, `qrExhausted`, `starts`, a client and a directory per sub | start, status, me, evictIdle, close, onQr, markExpired, drop | store, Baileys client, HTTP app | several awaits in start(); eviction, logout and reconnect interleave | no client without an entry, a dead login leaves |
| Telegram pairing pool (`connectors/telegram/src/pairing/session-pool.ts`) | the same with `identities`, password waiter | the same, submitPassword, runFlow, lazyLoadIdentity | store, mtcute | a background flow outlives its entry | the row only moves to newer logins; half-done pairings go |
| Instagram credentials (`connectors/instagram/src/credential-resolution.ts`, `oauth-pairing.ts`) | a row per sub and label | resolve, refresh, pair | Meta, store | two requests refresh one token, a callback pairs it meanwhile | a caller acts as an account paired for it |
| Credential store and resolver (`shared/src/session-store`) | one row per (session, channel) | get, put, delete, resolve, adopt | Postgres | adoption | house traffic never reads a user's row, and vice versa |
| Baileys client: connection (`connectors/whatsapp-web/src/baileys-client.ts`) | socket, `connecting`, `ready`, `lastState`, timers | connect, disconnect, renewQR, reconnect, watchdog | WhatsApp | handlers of old sockets, connects that meet | reconnects unless told not to |
| Baileys client: ingest (same file, `db-writer.ts`, `audio-attachments.ts`) | `messages`, keys, sync state | messages.upsert, history batches, updates, receipts, markAsRead, backfills | WhatsApp, Postgres, MinIO, publisher | live, append and history batches store one message next to each other; queries nobody awaits | one event per message; a tick never falls; progress counts what was stored |
| Baileys client: sending (same file, `api/controller.ts`, `durable-message-store.ts`) | caches, waiters, recent failures, payload table | sendMessage, sendFile, forward, react, getMessage | WhatsApp, Postgres | a refusal before its waiter, a timeout of what went out, a cache that forgot | sent once; a kept message is found again |
| Open worker (`workers/whatsapp-open-worker`) | request rows | claim, open, click, update, reset stale | Postgres, WhatsApp Web | death or a lost database around the click | no second click unless somebody asked again |
| Synapse bridge (`connectors/whatsapp-synapse-bridge/src`) | dedup window, me-cache | handle, forward | NATS, gateway | redelivery, retries | one forward per message |
| Telegram client, API (`connectors/telegram/src`) | mtcute client, the cached list of unread chats | every route and method | Telegram, publisher | methods of several calls, one of which fails; callers that share a listing | the code of an answer says what was done; no list shown is newer than the one kept |
| Telegram sync (`connectors/telegram-sync/sync`, Python) | rows, watermark, transcription state | live and history ingest, media, transcription | NATS, connector, Postgres | live, import and crashes meet on one row | nothing skipped; one attachment; transcribed |
| Instagram connector (`connectors/instagram/src/main.ts`, `webhook.ts`) | accounts | webhook, Graph API | Meta, publisher | copies delivered again | one row per happening |
| WhatsApp Cloud connector | - | webhook, send | Meta, NATS | - | - |
| mcp-server ingestion (`application/*ingestion.service.ts`, `infrastructure/events/consumers.ts`, `jobs/instagram-backfill.ts`) | rows | consume, upsert, backfill | NATS, Postgres, Meta | the connector writes the same table; failures swallowed | one row per message, filed where it belongs |
| MCP tools (`mcp/server.ts`, `mcp/tool-registry.ts`, `domain/*`) | Redis ledger, drafts, registry, bindings | every tool call | connectors, index, Redis | retries with a key, writes of several parts, a registry that changes | sent once per key; only the account asked for |
| MCP sessions (`mcp/sse-server.ts`) | session table, streams | initialize, POST, GET, DELETE, sweep | MCP clients | sweep next to streams and calls | a listener is not cut, what is abandoned goes |
| Unread digest (`application/unread-digest.service.ts`) | digest row | start, continue, status | LLM, Postgres | overlapping continues, failures | every chat handled is summarised or warned of; completes |
| Brain jobs (`jobs/brain-ingest*.ts`, `brain-replay.ts`) | cursor per account | ingest, replay | Postgres, the Brain | cursor against rows, death between push and cursor | no row behind the cursor unpushed |
| The rest: HTTP routes, search, embedding, summaries, migrations, generators | - | - | LLM, Postgres | - | - |

## 2. Modules and what they model

| Module | Models | State and actions |
|---|---|---|
| `EventRetainer` | `BoundedEventRetainer` | pure operators: the queue is a set of entries numbered by emission |
| `EventFate` | what a publisher promises of one event | abstract specification, implemented by both publishers |
| `EventPublisher` | the WhatsApp publisher and its NATS client | one action per handler stretch; the client, the wire and the server are the environment |
| `InstagramPublisher` | the Instagram one, fed by the webhook | the same retainer; its own guards and counters |
| `CredentialMirror` | what the row promises: it only moves forward along the versions the session had | abstract specification |
| `CredentialWriteBack` | `createCredentialWriteBack` | `timer`, `due`, `pending` as in the code; `inFlight` is "an export or a put is under way" |
| `CredentialSession` | the three wirings of the write-back | extends `CredentialWriteBack` by the hooks, the wipe of the directory and restarts |
| `InstagramCredentials` | resolution, refresh and pairing | `rows` is the table, `req` and `pair` what each request and callback has read; `paired` is history |
| `PairingPool` | `SessionPool`, with the part of the Baileys client it drives | `live` is the list of `LiveSession`s, `sessions`, `expired`, `exhausted` the maps |
| `TelegramPool` | `TelegramSessionPool` | the same shape; the flow of an entry runs on after its drop; `loads` are the me() calls that look a row up, any number of them for one sub |
| `BaileysConnection` | the connection of `BaileysClient` in the process of `main.ts` | `this.sock` and what each baileys socket has done; flags, timer and watchdog as in the code |
| `WhatsAppIngest` | a message from delivery to its event, its rows and its forward | one delivery is a handler with the messages left; the bus, mcp-server's handler and the bridge follow |
| `WhatsAppReads` | ticks and read receipts of one chat | `queries` are the updates nobody awaits; `reader` the calls of markAsRead() |
| `WhatsAppHistory` | reconnect bursts, backfills and their batches | `whatsapp_sync_state` against the rows that were inserted |
| `WhatsAppRetry` | where a message is found again | two bounded caches in order of insertion, the payload table, the row |
| `WhatsAppSend` | sends, refusals, the open worker | `wire` is what became of each message, `row` the request, `worker` the loops |
| `SynapseBridge` | the bridge's process: its NATS link, own JID and deduplication | `loop` is the `for await` of each connection, `entries` the `Map`; `sighting` and `again` are history |
| `TelegramApi` | the routes of the Telegram connector over its client | the routes and the calls each method makes are tables; a request is a caller with the calls left; the list of unread chats and who shares it |
| `TelegramSync` | one chat live over NATS and by imports | the publisher's connection, the watermark, the pages, the attachments, the transcriber |
| `InstagramIngest` | webhook and backfill copies in mcp-server | four tables and the handlers between their queries |
| `ToolCalls` | the write tools, the ledger and drafts | `ledger` is Redis; `call` where each call stands and what it sent |
| `ToolRouting` | which account and which place a call reaches | the registry's enabled accounts and one call under way; validation, binding and dispatch are operators |
| `McpSessions` | streamable HTTP sessions | table, streams and clients; time in ticks of the sweep |
| `UnreadDigest` | the digest | the row, and what each call read of it |
| `BrainIngest` | brain-ingest and brain-replay | cursors with their milliseconds, rows with their microseconds |
| `MC*` | instances for TLC | components that share nothing are checked in turn: a variable `part`, or a condition, says which one moves |
| `*Proofs` | theorems; each names the modules it is about in its EXTENDS (section 4) | - |

`CredentialSession` composes the write-back with the hooks; `PairingPool` has the
same write-back in the coarse form its properties need (a set of entries with a
write to make), with many entries, which `CredentialSession` does not have.
`WhatsAppIngest` composes connector, NATS, mcp-server and bridge; `WhatsAppSend`
the API, the client and the worker; `TelegramSync` the publisher, the consumer,
the import and the transcriber. `WhatsAppIngest` has the attempts of one forward,
`SynapseBridge` the process around them: two loops, one filter, one cache. Both publishers implement `EventFate`.

Each module groups its invariants in one (`PublisherInv`, `PoolInv`, ...): a
conjunction of named parts, the module's type invariant among them.

### Publishers

`client` is `nc` together with the state of the transport behind it. `notices`
is the status iterator: `watchStatus()` reads an outage later than it happens,
and until then the code takes the client for connected. A published event is on
the `wire` until the server takes it; losing the transport loses any part of the
wire. `fate` is the retention counter an event was last counted in, so that the
counters of `retentionStats()` become a statement about each event. The clock of
the age window is replaced by the choice of how many head entries have expired.
A flush may fail at any moment after it began, whether its transport is up or
not: it times out after 2 s. In `InstagramPublisher` a webhook reaches
`publish()` only after Meta has its 200, so what is lost is lost for good.

### Credentials

In `CredentialWriteBack` a credential is a version number; a persist makes the
next one. `asked` is the newest version schedule() was called for, `promised`
what a flush has promised to land. In `CredentialSession` `wiring` says which of
the three deployments a behaviour is of; a login is a range of versions and
`dead` ends one; a restart loses all memory, and a put that was sent may or may
not have landed. In `InstagramCredentials` a token is kept as whose it is and how
old; a row is keyed by sub and label, `Own` for none.

### Pairing pools

Entry x is the x-th start(); a login is named after the entry that paired it, and
`Old` is the login of the subs `Held` had a row for when the process began.
Each await of start() that another handler can overtake is a step of its own, as
is a drop() that has a write to flush and the hook of an ended login. Time is
order only: `cooling` are the subs checkStartRate() refuses, `idle` the entries
evictIdle() would drop. Assumed of the durations: awaits on disk and store, and
the 2 s debounce, end before what takes a person, a 5 s reconnect delay, or 60 s.

Some meetings break a sub for good (section 5). The models allow them and note
the sub in the history variable `met`: in `PairingPool` a drop of an entry inside
connect(), and a start that empties the directory while a drop flushes from it;
in `TelegramPool` a lookup of me() that meets a start or a flow, one that deletes
the row another is about to put back, and a flow that ends after its drop or next
to an earlier one. In both, a start that waited in
evictIdle() for a place looks at neither the listing nor the rate again, and when
another start of the sub came meanwhile its entry is replaced unseen: the sub has
then met that start. The properties that such a meeting
breaks are stated for the subs it has not happened to, and say that nothing else
leads there and no other sub is harmed.

### BaileysConnection

`callers` holds whoever awaits a connect() under way: main() exits when it
rejects and the pod starts over, the renew button, the timer and the watchdog
only log it. connect() is two steps, up to its first await on the disk and
from the last one; disconnect(), renewQR() and reconnectNow() await nothing but
settled promises in between and are one step each. The `close` of a socket the
code ends comes at once, later (`LateClose`), or never: the repository does not
say which, so all three are allowed. A `hung` socket never gets anywhere.
`wanted`, `woken` and `failed` are history. The delays are any time at all; the
watchdog is taken as switched on (the default).

### WhatsApp messages

`WhatsAppIngest` works message by message, since handleUpsert awaits each; the
insert decides (`xmax = 0`) who emits. `WhatsAppReads` numbers the messages of one
chat by their timestamps; an update's query runs whenever the database gets to
it. `WhatsAppHistory` keeps of the progress the count only. `WhatsAppRetry` keeps
of a content what it is worth: the message, its durable copy, or the text made
of its row; the eviction of both caches is by insertion order, as `Map` has it.
`WhatsAppSend` has one text to one number, hence one request row; what the
worker's page shows is a choice.

### mcp-server

`ToolCalls` starts after validation and routing, which `ToolRouting` models: the
tables of the tool registry are operators, and the check compares, for each call
TLC can make, whom the code asks with whom the arguments name. `UnreadDigest` has
several calls with the row each read. `BrainIngest` counts time in ticks, `PerMs`
to the millisecond, and cuts the cursor as toISOString() does.

## 3. Runs

Bounds are the constants named "bound" in the modules. A run that holds several
components, which share nothing, checks one after the other.

| Run | Shows | Bounds |
|---|---|---|
| `publisher` | both publishers: every accepted event is held, settled and counted exactly once; order; no lost retry; both implement `EventFate`; a held event is settled in the end unless the publisher is stopped or stuck on a live link | 2 keys, cap 2, 3 events, 2 flaps: a full queue, a duplicate key, an overflow during a drain, a second failed flush; Instagram 4 webhooks, 2 outages |
| `records` | no last persist lost, puts in order, a flush covers what came before, implements `CredentialMirror`; the history progress counts exactly the rows the imports inserted | 4 persists, 2 failures: one more than the write in flight, the trailing one and the scheduled one; 3 texts in 2 chats, batch 2, budget 3, 2 bursts, 2 handlers |
| `session` | what each of the three wirings keeps; an ended login's row goes; the Instagram rows under refreshes, pairings and expiry | 4 persists, 1 failure, 2 restarts; 1 sub, 3 names, 2 accounts, 1 request, 2 callbacks |
| `chats` | two subs compete for one place of the pool; the ticks and receipts of a chat; a message goes out once unless somebody asked again, a claim does not outlive its worker; a kept message is found again | 2 subs, one with a row, 1 place, 2 starts, 1 QR, 1 failure; 3 messages, limit 2, 2 updates, 1 reader; 1 call of 7 kinds, 2 workers, 3 asks, 2 faults; 2 notes, caches of 2 and 1 |
| `connection` | one socket, `ready` only while it is open, something always under way, quiet after a logout, connected or at a QR in the end; the cursor passes no unpushed row and every row filed ahead of it goes | 3 sockets in use or with a close to come; 3 rows in 2 accounts, batch 2, 1 fault |
| `telegram_pool` | the row moves only to newer logins, no orphan, no row of an expired sub, a pairing nobody completes is closed | 3 subs, one with a row, 2 places, 1 QR, in three scenes (`MCTelegramPool`): 1 start, 2 lookups that overlap, 1 failure; 2 starts, 1 lookup; 4 starts of all subs, nobody scans or looks up |
| `tools` | what was sent, answered and kept in the ledger agree; every tool with every account, channel and target reaches only the account asked for, and the answer tells what is missing | 3 calls with or without one key, 2 failures, 1 death, 1 expiry; 2 accounts per channel, 2 disabled at a time |
| `mcp_server` | a digest's chats are each covered, and it completes; a stream protects its session, an abandoned one goes, a client of a dead one gets on | 2 calls, 3 chats, batch 2, 1 failure; 1 client, 2 ids, 1 place, idle 1, age 3, 2 responses |
| `telegram_sync` | the watermark passes nothing that is not stored, what NATS lost is imported, one attachment, transcribed in the end; a request to the connector answers by what it did, and no list of unread chats goes back in time | 2 messages, one a voice note, batch 2, 2 pages, 2 faults, 1 crash; 2 callers, one of every route and one of the listing and the group in two steps, 1 change of what is unread |
| `ingest` | one event and one forward per message, the direction of a row never lost, what is heard is emitted; one row per Instagram happening, under its thread and sender; the bridge forwards once what its cache remembers, flagged by its direction, and comes back after each lost link | 2 messages (a voice note, an own one), 2 handlers, 2 attempts, 1 fault, 1 restart; 2 happenings, 2 copies; a message from a customer, an own one and one of the labels worker, a cache of 1, 2 links, 3 arrivals, 1 failed connect |
| `brain_close` | the cursor that does not move (finding) | 2 rows in one millisecond, a batch of 2 |
| `telegram_places` | the client the pool no longer lists (finding) | 3 subs, 2 places, 4 starts, no QR, no lookup, no failure: a start that waits for the entry it evicted is passed by another of its sub |

The bounds are chosen for the longest chain a hazard needs: two actors on one
row (or one place), one failure, one write in flight with one behind it. Where an
identity matters (two subs, two accounts, two keys) there are two, so that one
can be harmed by the other's steps. `MCTelegramPool` checks one scene after the
other because two lookups, two flows and a fight for places at once are out of
TLC's reach: in the first two, one sub acts, in the third nobody gets as far as a
login. What they do together (three lookups, or a lookup next to a fight for
places) is left to `PoolStaysWhole` and `RowsMoveOn`, which know no scenes.

Runs have `CHECK_DEADLOCK FALSE` because each bound stops the environment, and
because a publisher that was shut down, or a pool nobody calls, does stop.

### Fairness

Everywhere: the runtime runs every handler that is due (weak fairness of timers,
watchers, settled promises and awaits). Beyond that:

- `EventPublisher`, `InstagramPublisher`: a lost transport comes back or is given
  up, and connecting does not fail for ever (strong fairness of `ConnectOk`,
  `IgConnectOk`: attempts are repeated, each may fail).
- `CredentialSession`: a login the provider has ended is refused each time it is
  presented.
- `BaileysConnection`: not every socket hangs, and not every one that does not is
  closed before it opens or shows a QR (strong fairness of `SocketMade(k,
  "starting")` and of `Opened`).
- `TelegramPool`: the idle time passes whatever else the sub does, its lookups
  included (strong fairness of `GoIdle`). Nobody is assumed to start, scan or give a password.
- `TelegramSync`: imports and the picking of voice notes are repeated; `Start` of
  a worker that crashed is Kubernetes.
- `UnreadDigest`: callers go on calling continue while the digest is in progress,
  which is what the tool's answer asks of them.
- `WhatsAppSend`: the loop of a worker goes on. `WhatsAppIngest`: handlers and
  `Post` go on.
- `McpSessions`: the sweep's interval, the end of a call, a proxy that closes the
  responses of a client that is gone, and a client that, told its session is
  unknown, initializes again when there is room often enough.
- `SynapseBridge`: a connect() ends, the timer fires, a request to /me ends at
  least by its timeout, and each loop takes its next event (`MCIngest` checks the
  other two components next to a bridge whose process has exited, `BridgeExited`,
  of which nothing is left to be fair to).
- `BrainIngest`: the CronJob runs again, and not every run fails (faults are
  bounded).

## 4. Proofs

Proved with TLAPS for every value of the constants; no theorem has an assumption
beyond the named ASSUMEs of the modules, which give constants their types, keep
the one that stands for "none" apart from the names next to it, and say that what
the code keeps in tables and files (rows, texts, declared accounts) is finite.
Every safety property that a passing run checks is a theorem under the
specification of its module: types included, and for any number of rows,
callers, faults and restarts. Each proof has the same shape: an inductive
invariant, a lemma per action (or per kind of step, where actions share what they
change), and a theorem that adds the temporal step. What follows is what each
invariant adds to the properties, and why it has to.

- `EventPublisherProofs`, both publishers.
  - `PublisherCorrect`: `ConnectionInv` (which connection states go together;
    without it a retry could be armed next to a client), `DrainInv` (`draining`
    is set exactly while there is a batch), `RetainerInv` (`HeldExactly`,
    `OneEntryPerKey`, `BatchBeforeQueue`) and, on top of it, `RepublishedInOrder`
    and `DeliveryInv` (`FlushInv`: a flush that may still be confirmed lost
    nothing of its batch; `CopyInv`: an event none of whose flushes failed is in
    one place only). Each layer is inductive relative to the ones before it.
  - `InstagramPublisherCorrect`: `IgKeptInv` says that an entry has a number of
    its own (`OwnNumbers`), that queue and batch have none in common (`Apart`), that
    a batch is there only while a drain is (`BatchIsDraining`), and that an event
    not yet delivered by Meta has no fate (`FatesSoFar`). Without `Apart` a drain
    that republishes its batch could settle what the queue still holds.
  - `ImplementsFate`, `InstagramImplementsFate`: each action changes a fate only in
    a way `EventFate` allows; both use the accounting, which says whose fate a
    step may change.
- `CredentialProofs`, those who keep rows.
  - `WriteBackCorrect`: `Inv` adds the guards that make the properties inductive:
    at most one run is active, a put carries a version between the row and the
    session, and whatever was asked is stored, being stored, or due. `FlushLands`
    and `ImplementsMirror` are step theorems from it.
  - `HistoryCorrect`: `ImportInv` counts, for each chat, the rows the imports
    inserted against the progress, what handlers have in hand and what went
    uncounted. The sum is kept because a row is inserted once, and what a handler
    has in hand is of history (`NewIsHistory`); `OneBurst` and
    `BurstBudget` say at which step a burst may be, and that its requests fit what
    is left.
  - `SessionCorrect` joins `DeadStaysDeleted` (past the delete nothing is scheduled
    or in flight until the process restarts) and `AliveStays` (`AliveInv`: while a
    login lives no hook runs that would cancel or delete, and what it asked for
    last is stored, failed or due).
  - `CredentialsCorrect`: `IgInv` is `RowsArePaired` with what each actor of the
    Instagram rows may have in its hands: `AskInv` (the row a request read, or is
    about to write after a refresh, was paired for its key), `PairInv` (a callback
    about to put chose a key from a row it read, and that row is of another
    account if it will replace one) and `DueInv`. `OwnAccountStays` is a step
    theorem: only a callback's put changes the account of a row, a refresh
    rewrites the account it read.
- `BaileysConnectionProofs`, the run `connection`.
  - `ConnectionCorrect`: `Inv` is the conjunction of the checked invariants and
    `ConnectInv` (while a connect() is under way there is one caller, no socket
    and no timer), without which two connects could overlap. `Destroyed` and
    `NothingLives` carry the steps that end a socket, `EventInv` those of a
    socket that lives, which is the current one.
  - `BrainCorrect`: `CarryInv` follows a batch from the cursor it was fetched from
    (`LiveFrom`: the row's cursor, or SINCE without one) to the one it will leave
    (`BatchCovers`: of what that cursor will pass, each row is known or in the
    part of the batch still to push). The lemmas are about the order of rows:
    keys are ordered, a finite set of rows has a first and a last, the oldest n
    leave none of the older ones behind, and cutting a cursor to its millisecond
    never moves it forward. A replay, whose cursors are its own, only adds to
    what is known.
- `IngestProofs`, the three components of the run `ingest`.
  - `IngestCorrect`: `OneEmitter` (a message has an event, or one handler that
    will emit it, or none) is what makes "once" inductive: the handler whose
    insert created the row is the only one past it.
  - `IgIngestCorrect`: `IgFar` says of each handler which rows are there at the
    step it has reached, so that the message it inserts has its thread,
    sender and membership.
  - `BridgeCorrect`: `CacheInv` and `Remembers` relate the cache to what was
    seen: an entry's place is after all but the entries recorded after it, so what
    the cap evicted has as many behind it as the cap.
- `TelegramProofs`, the runs `telegram_sync` and `telegram_pool`.
  - `SyncCorrect`: `CoverInv` follows the span an import has covered page by page,
    down to the watermark it began from; `AttachInv` the attachment of a voice note.
  - `ApiCorrect`: `Truthful` relates what a request did so far to the answer it
    can still give; `ListingInv` the generations of the shared listing.
  - `PoolStaysWhole`, `RowsMoveOn`: what the pool says of a sub is in a listing, a
    cache, two marks and a row, each written by flows and lookups that outlive their
    call. `Standing` (entries and listing: a start that gave up its place waits
    alone), `Filed` (types) and `Parted`: of a sub outside `met` one flow at most
    can still change what is known, and no lookup has read the row meanwhile
    (`FlowAlone`, `Unloaded`); or no flow is left, and however many lookups there
    are, each that is to put has read the row as it stands, and each that is to
    delete a login that is dead (`LoadsAlone`). Without `Parted` a put of an older
    flow could follow that of a newer one.
- `WhatsAppProofs`, the run `chats`.
  - `PoolHolds`, `RowsLand`: a login is in the client, the directory, the row and
    a write that is due. `AllSound` is what an entry says of itself whatever it
    met; `AllWhole`, of the subs outside `met`, that a client or a write is of the
    entry that is listed or inside its drop (`HasPlace`), that the directory has
    its login (`HasDirectory`), and that while an entry loads no other client,
    write or drop of the sub is there (`StartsAlone`, `LeavesAlone`); so the four
    agree. In both pools the invariant first failed for a start that waits for a
    place, which led to the run `telegram_places`.
  - `ReadsInvariant`, `TicksHold`: no message is left behind the watermark because
    a read one settles those before it (`ReadSettles`): each was in the list of the
    same call (`ListsAccount`), over its limit, or behind the watermark already, or
    its key came late. `QueriesTrue`: a query that will write `read` is WhatsApp's
    own report.
  - `RetryInvariant`: a text made of a row is cached under its own message's keys
    only, and a copy a call could find is neither deleted nor hidden while the
    call runs (`LookupsTrue`, `CopiesMigrated`).
  - `SendInvariant`: `SendsTrue` says of each call, by the step it has reached,
    what may have become of its messages, and who refused them; `AsksSuffice` pays
    each click with an ask, which the request holds while it waits, and the worker
    that claimed it gives back, loses or spends.
- `ServerProofs`, the run `mcp_server`.
  - `DigestInvariant`: a checkpoint overwrites whatever the row has become since
    it was read. That harms nothing because every row a call has in hand is
    `Whole` by itself: its parts are contiguous, and cover what they count.
  - `McpInvariant`, `StreamsAreSafe`: the count of a session is the number of its
    streams (`Counted`), so the sweep never closes one with a stream.
- `ToolProofs`, the run `tools`.
  - `ToolCallsCorrect`: `OwnerInv` says whose a ledger entry is, `HolderInv` what
    each call that holds one may still do with it, and `OneHolder` that no two
    calls hold the same life of a key; a payload then goes out by its holder, once.
  - `RoutingHolds`: all is settled when a plan is made. `RouteIInv` says that each
    place in the plan and in what was done `Fits`: it is of the account the caller
    named or was bound to (`Allowed`), and of the source the answer will name
    (`Told`). `ReadPlanFits` and `WritePlanFits` prove it handler by handler; the
    requests only move places from the one to the other, whatever the registry's
    file becomes between them.

Only model-checked: liveness (`HeldIsSettled`, `EndedRowGoes`, `ClaimIsLetGo`,
`Recovers`, `EveryRowGoes`, `HalfDoneGoes`, `Completes`, `SessionsEnd`,
`SyncGetsThere`, `HeardIsEmitted`, `BridgeGoesOn`), since the provers have no
ENABLED.

## 5. Findings, and limits the models show

Two runs end in a counterexample; the sentences they contradict are quoted in
`PROJECT.json`.

- `brain_close`: a batch of rows in one millisecond leaves the cursor where it
  was. `EveryRowGoes` holds of the instance of `connection`, where every row of
  an account has a millisecond to itself.
- `telegram_places`: start() reads the sub's entry and checks its rate, then awaits
  evictIdle() (`telegram/src/pairing/session-pool.ts:226-259`), which unlists an
  idle entry at once and waits for its disconnect. Another start of the same sub
  finds the place free meanwhile and takes it; when one more place comes free
  before the disconnect has ended, the first lists its entry over the other's,
  whose client stays connected: neither the size, nor the eviction, nor close()
  knows of it. With nothing idle evictIdle() awaits nothing, and pool_full is
  thrown before anything else happens (`StartEvicts` needs an idle entry). The
  WhatsApp pool has the same order (`whatsapp-web/src/pairing/session-pool.ts:204-260`).

The models also show where the code does less than one could expect. No run is
spent on these; the properties are stated so as to leave them out, or allow them.

**Publishers.** A publish or flush that fails on a live link makes
`markDisconnected()` clear `connected` and wait, as its comment says, for the
watcher to flip it back on RECONNECT; the client kept its link, so no such notice
comes, and what is held stays until the next outage (`Stuck`, which
`HeldIsSettled` leaves out). The same holds of the Instagram publisher after the
timeout of a flush. A failed flush may publish its batch twice
(`CopiesOnlyAfterFailedFlush`: the only way). A requeued batch may exceed the
cap, or come back into a retainer that disconnect() has cleared. On SIGINT the
Instagram connector clears its retainer and exits; SIGTERM has no handler. The
Telegram publisher forgets its client on a failed publish although the client
still reconnects by itself (`events/publisher.ts:181`).

**Connection.** A reconnect whose connect() rejects leaves the client with
neither timer nor watchdog (`main.ts:180-181` promises the watchdog); `Recovers`
is stated from the last connect() that did not reject.

**Credential rows.** telegram's cancel(), and the default per-sub wiring, let a
write land after the delete of a dead credential (`telegram/src/main.ts:81-82`);
`NeverResurrected` (in `SessionInv`) is of the pool's wiring. A put that failed is not repeated
until the next persist. Instagram: two unlabelled pairings race, and the second
overwrites the first though its page said it was linked; a refresh under way may
overwrite a re-pairing, or bring back the identity a label had before; a
pairing link works until it expires, however often; an unknown label serves the
caller's own row, as documented.

**Pairing pools.** The limit of ten is checked before awaits and can be exceeded.
A drop that meets connect() leaves a client nobody closes, whose later logout
empties the directory and deletes the row of its successor; a start that meets
the flush of a drop empties the directory the first row is read from. A replaced
entry may mark its successor's sub expired. `store.delete()` that fails leaves a
dead login paired. In `TelegramPool` a late flow or a lookup may land an older
login over a newer one ("the row is written either way"). me() calls are not kept
apart there: one that finds the login dead deletes the row and marks the sub
expired, and the put of another that found it alive before brings the row back.
No failure is needed; `met` notes it, and `ExpiredHasNoRow`, `IdentityIsRow` and
`RowMovesOn` leave such a sub out. In both pools polling the state does not keep a half-done pairing
alive, but me() renews `lastTouched` (`telegram/src/pairing/session-pool.ts:316`,
`whatsapp-web/src/pairing/session-pool.ts:306`), so that asking it often enough does.

**Ingest.** A message stored by a history sync first gets no event when it
comes live; a crash between insert and emit loses the event. The bridge says it
never drops on a transient failure, and drops when its attempts are exhausted,
keeping the message in the dedup window; a retry holds back what follows
(`gateway-client.ts:89`). `Map.set` on a key that is there does not move it to
the end, so a refreshed entry of the window is evicted as early as before.
Instagram: a live mention and its backfilled copy are two rows; live threads and
Meta's conversation ids are two conversations, a commenter's id and name two
participants; the backfill stores own messages INBOUND; a failed handleEvent is
counted as ingested; `last_message_at` is overwritten by an older time on the
WhatsApp path (`repository.updateConversationLastMessage`); mcp-server's consumer
keeps NATS's default number of reconnects and then stays silent.

**Ticks, history, sending.** Of more than a hundred unread messages the older
ones get no receipt and are marked read; a key stored late is passed by the
watermark; a later `read` or `delivered` overwrites `deleted` and `failed`; the
badge is zeroed though a newer message arrived; a tick that comes before its row
is lost. `fetchMessageHistory` is called with the oldest key in one place and the
newest in another (`baileys-client.ts:2422-2425`); `oldest_message_id` is
overwritten where `oldest_timestamp` takes the LEAST; an answer that comes after
the five-minute window is dropped; repeated backfills ask the same first chats. A
durable lookup that fails once makes the retry answer a reconstruction without
quote or context, which is then cached and also served to quotes and forwards.
A crash after the worker's click leaves `opened` for ever, and enqueuing an
opened or failed request again may send again; a database failure after the click
marks `failed` what was sent; reacting to an unknown message answers `reacted:
true`; a text that timed out may still go out later.

**Telegram API.** createManagedGroup that fails after the group was made answers
500 and names no group; getReactionUsers and reactToMessage swallow failures and
answer as if there were none; callers who join a listing of unread chats are given
its failure though an older list is kept. `TelegramApiInv` allows these. A call of
the library is one call here, though addChatMembers() adds the members of a legacy
chat one by one: after a failure half way some of them are in, where the model has a
500 with nothing done.

**Telegram sync.** `history.py:111-115` moves the watermark over what a failed
insert skipped; an import that hit the page cap starts from the newest again
(`:56-57` says it resumes); `transcriber.py:109-113` retries below three
attempts, but a `failed` note is never picked again; a database error leaves
`processing` until a restart; a crash between row and attachment loses the media.

**mcp-server.** startPairing "needs no accountId" (`tool-registry.ts:803`), but validation asks for one; a bound
caller's unscoped social_search_messages is refused by its own schema; a target
that names the personal namespace is served under any account
(`server.ts:924-926` lets "bare (personal) targets" pass). Overlapping continues of a
digest can set its checkpoint back. The idle sweep and the cap ignore a POST that
is running. BrainIngest: the cursor could even fall when ids disorder within a
millisecond; rows committed late, or given a text by the transcriber later, are
behind the cursor and never ingested (`missed`); the loop over accounts ends at
the first one that fails; the manifest sets `BRAIN_INGEST_MAX_RUNTIME_MS` and
`BRAIN_PUSH_*`, which the job does not read.

## 6. Plan

1. Credential resolver and adoption, over `CredentialSession`.
2. The /sse transport next to `McpSessions`.

### Not modelled

close() of both pools (the process exits after it). The pairing HTTP services,
the social API and most routes: a call or a query each. Credential adapters,
media, contacts, avatars, object storage: conversions and I/O. The Telegram
client: mtcute's behaviour is not in the repository. The WhatsApp Cloud
connector: stateless. Search, summaries, style, embedding: a model or a query,
and the embedding loop depends on no earlier step. Migrations and the
multi-account backfill: run alone. Generators of manifests and contracts. In the
modelled parts: the contents of messages, delays, and the `/sse` sessions;
`WhatsAppRetry`'s protocol messages, and the messages `SynapseBridge` gates before
it asks for the own JID, are in the model but not in the instances.
