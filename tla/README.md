# Verification of emit

TLA+ models of the emit document service, checked with TLC on small instances
and proved with TLAPS for every value of their constants. Source paths below are
relative to the repository; Java packages are under `src/main/java/dev/emit`.

emit renders documents to PDF for several tenants. A tenant creates a document
over REST, asks for its PDF with `POST /v1/documents/{id}/generate`, and reads
the document back until it is `DONE` or `FAILED`. Generation is asynchronous:
the request publishes an event to Kafka, and a consumer of the same program
renders the PDF and stores it in the document's row. Every tenant has a
PostgreSQL schema of its own, a rate limit in Redis and an API key; an
administrator manages tenants with a token. A console in the browser, built around
Swagger UI, runs the calls and follows their documents; a static demo of it answers
the API inside the page.

## Contents

1. [Inventory](#inventory)
2. [Modules](#modules)
3. [Runs](#runs)
4. [Fairness](#fairness)
5. [Proofs](#proofs)
6. [Where the code and its documentation disagree](#where-the-code-and-its-documentation-disagree)
7. [What is not modelled](#what-is-not-modelled)
8. [Plan](#plan)
9. [How to run](#how-to-run)

## Inventory

| Component | Code | State it keeps | Operations |
|---|---|---|---|
| PDF generation worker | `document/`: `Document`, `DocumentService`, `PdfGenerationService`, `DocumentGenerationConsumer`, `KafkaDocumentEventPublisher` | the document rows; the records and offsets of the main, retry and dead-letter topics; the row each delivery holds in memory | create, generate, read, PDF; deliver, claim, render, store, retry, abandon |
| Rate limiter | `shared/ratelimit/` | a sorted set and its expiry in Redis, per tenant | `tryConsume`, and the filter's pass / 429 / 503 |
| Tenancy | `shared/multitenancy/`, `shared/security/` | the thread's tenant; the `search_path` of every pooled connection | the filters, the route rules, the scope of a request or an event, checkout and return of a connection |
| Tenants: provisioning and migrations | `tenant/` | the `tenants` table, the schemas, Liquibase's lock | create, list, find, deactivate, reactivate, migrate at startup |
| Login and tokens | `shared/auth/`, `shared/security/JwtService` | none | login, validate |
| Error mapping, request ids | `shared/web/` | none (the MDC of the thread) | exception to status and message |
| PDF and template rendering | `document/adapter/out/pdf`, `.../template` | none | title and content to bytes, or an exception |
| OpenAPI and Swagger UI | `shared/openapi/` | none | built once |
| Console: following a run | `src/main/resources/static/swagger/console/follow.js`, `lifecycle.js` | the followed run, its phase, its pending reads | start, read, back off, stop, resume |
| Console: credentials and answers | `auth.js`, `credentials.js`, `action-bar.js`, `responses.js` | credentials held, the timer of the nearest expiry, what answers left | authorize, log out, expire, capture, paint |
| Console: description and carried ids | `spec.js`, `map.js`, `schemas.js`, `response-index.js`, `responses.js` | the index of the description; ids carried into path parameters | index, mark, link, carry |
| Console: an operation | `editor.js`, `result.js`, `history.js`, `statusbar.js` | the body edited, the last answer's sheet, the recent calls | edit, execute, paint, load |
| Console: the journey | `journey.js` | the run of all steps and its timers, the steps done | run, stop, click, wait |
| Console: finding and scrolling | `operations.js`, `map.js` | what is open, the scroll and its corrections, the place named | open, find, bring into view, fold |
| Console: the window | `shell.js`, `index.js`, `failure.js`, `live.js`, `statusbar.js` | placeholders, what is dressed, the health light | load, reveal, dress again, check |
| Console: controls | `palette.js`, `keyboard.js`, `legend.js`, `history.js`, `shell.js` | rail, density, drawer, overlays, the focus | keys, clicks, resize, reload |
| Demo | `demo/api.js` | tenants and documents in localStorage, calls in memory | the API's routes, reload |
| Console: figures, layout and wording | `theme.css`, `theme/`, `json-tree.js`, `overview.js`, the drawing halves of the modules above | none | repaint |
| Design fidelity and scenario tools | `docs/design/fidelity/` | none | compare drawings |

### How they interact

* A request passes the tenant filter, the token filter, the limiter and the route
  rules, in this order (`SecurityConfig`; two of the three are registered before
  the same anchor and keep the order of registration). The tenant filter opens a
  `TenantContext` scope around the rest; everything below reads the thread's
  tenant from it: the limiter for its key, Hibernate for the schema, generate for
  the event.
* `DocumentService.requestGeneration` reads the row, requires `PENDING`, and
  waits for the broker's acknowledgement. It writes nothing: the row changes only
  when a consumer takes the event.
* `@RetryableTopic` gives the listener one topic per attempt and a dead-letter
  topic, each a log with its own consumer and offset. A failed delivery is a
  publication to the next topic followed by the commit of an offset.
* `PdfGenerationService` works in two transactions with the render between them.
  The second one merges the row as the first one read it; rows have no version.
* Connections are pooled and shared by requests, events and migrations. The
  connection provider sets the path at checkout and resets it at return.

### What is hard, and what makes it correct

* **Generation.** At-least-once delivery, consumers that crash or stall, two
  requests for one document in two topics at once, acknowledgements that come
  late or never, and transactions that overwrite each other. Correct means: what a
  row says is true of its run; the PDF is served exactly when it is done; a
  document is failed only when its attempts are used up; work that was accepted is
  never lost and eventually settles.
* **Rate limiter.** Concurrent requests of many instances, commands that are sent
  twice or answered too late, an expiring key, a restart of Redis, and integer
  arithmetic at the edge of the window. Correct means: no window of any position
  admits more than the limit, and the headers never promise what does not happen.
* **Tenancy.** Threads and connections outlive the job they serve, on every way
  out of it. Correct means: no tenant's work in another tenant's schema, no
  tenant left on a thread, no role without its credential, and racing switches of
  a tenant that still take effect.
* **Provisioning.** A transaction, and a schema made and migrated outside it on
  other connections of the same pool, under a lock of the process and one of the
  schema; failures and crashes at every step; two versions of the program on one
  database. Correct means: no tenant without a migrated schema of its own, one
  migration at a time, no connection or lock kept by what failed, and an end to
  every wait.
* **Following a run.** Timers, reads and clicks whose effects overlap, on a page
  painted some frames ago, with a budget that others spend from. Correct means:
  one chain of reads per follow, never an older state over a newer one, an end to
  the reading, and requests left for the reader.
* **The rest of the console.** A page that is redrawn some frames after its state
  changed, from signatures that decide what is redrawn; several listeners, timers and
  scrolls that act for intentions the reader has given up since; a React tree that drops
  what the console put into it. Correct means: once no frame is due, what is painted is
  what is true; an id or an answer lands where it belongs and never over what the reader
  typed; a run of all steps acts for itself alone and ends; the placeholders go away and
  the light heals.
* **Demo.** One function that stands in for the whole server, with no timers, and state
  that outlives the page by halves. Correct means: it promises of a document what the
  API does.

PROJECT.json lists each of these hazards at the line where it bites, with the
properties that cover it.

## Modules

### Generation: the worker

`Generation.tla` is the path of a document from `POST /documents` to the settled
row. Its variables are the tables and logs the code itself relies on:

| Variable | Code |
|---|---|
| `rows` | the `documents` table: status, whether `startedAt` and `finishedAt` are set, whether there is a PDF, and `queuedAt`, which stands for the request whose event stamped it |
| `req` | what each call of `/generate` was answered: 202 (`accepted`), 503 (`unqueued`), 404 or 409 (`refused`) |
| `log[t][p]` | the records of partition `p` of topic `t`: topic 1 is the main topic, then one per retry, `Dlq` the dead letters |
| `pos`, `committed` | how far the present consumer of the partition is, and the offset it would restart from |
| `worker` | each consumer thread: the delivery it is in, the row it read, whether its partition was taken from it (`zombie`) |
| `faults` | failures so far, bounded by `MaxFaults`; the end of a stalled thread (`Die`) is not one more, its stall was |

| Action | Code |
|---|---|
| `Create`, `Generate` | `DocumentService.create`, `requestGeneration` up to the send |
| `BrokerAppends` | the send reaches the log, even after the caller was told 503 |
| `Accept`, `NotQueued` | the acknowledgement in time, or any exception of the publisher |
| `Deliver`, `Skip`, `ReadFails` | the consumer reads the row: goes on, skips a duplicate, or fails |
| `Claim` | `markAsProcessing` and the first commit (a `PENDING` row only) |
| `Store` | `markAsDone` and the second commit, of the whole row as it was read |
| `Abandon` | the dead-letter handler's read and `markAsFailed` |
| `AttemptFails`, `Route`, `RouteFails` | an exception; its publication to the next topic; the publication fails and the record is delivered again |
| `Crash`, `Pause`, `Die` | a consumer dies and its partition goes back to some offset not before the committed one; a consumer misses the poll interval and works on while another has its partition; such a thread ends |

A transaction is two steps wherever another process can act between its read and
its commit. The record's fate in a failed dead-letter delivery is the one
`@RetryableTopic` has by default: it goes through the dead-letter topic again.

`MCGeneration.tla` gives each document a partition of its own in the main topic
and one partition to every other topic, so that two documents share consumers
where the code lets them. `MCServer.tla` sets it beside Tenancy, `MCFollowed.tla`
beside Follow, and `MCReading.tla` sets Follow beside RateLimiter: the parts share no variable, so a behaviour is about one of them
(`part`, chosen at the start) while the other rests in an initial state.

### RateLimiter: the sliding window

`RateLimiter.tla` is one tenant's key: the script (`RunScript`: prune, count,
add, expire, in one atomic step, as Redis runs it), the two ends of a call in the
filter (`Answer`, `Unavailable`), and what Redis does by itself (`Tick`, and
`Restart` with any subset of the members, as a snapshot may hold). A command may
run after its caller gave up, and twice when the driver reconnects (`Reaches`).
`runs` records every run of the script with what it returned; it is a history
the properties read.

### Tenancy: whose schema a thread works in

`Tenancy.tla` follows jobs through pooled threads and pooled connections.

| Variable | Code |
|---|---|
| `active` | the `active` column of the `tenants` table |
| `job[w]` | the request or event a thread serves: its stage, route, API key, token, connection, and transactions to go |
| `context[w]`, `scope[w]` | the `ThreadLocal` of `TenantContext`, and what the open `Scope` will restore |
| `switch[w]` | the tenant a deactivation or reactivation has read, what it saw, and (history) whether another one overlapped it |
| `path[c]` | the `search_path` of a pooled connection |
| `lost` | connections that were checked out and never returned |

| Action | Code |
|---|---|
| `Receive`, `Lookup` | `TenantFilter`: no key, or the lookup in the `tenants` table and the 401, the 403 or the scope |
| `Authenticate` | `JwtAuthenticationFilter` |
| `RateLimit` | `RateLimitFilter`: only for a thread with a tenant |
| `Authorize` | the route rules of `SecurityConfig` |
| `Consume` | `TenantContextDecorator.run` around an event |
| `Checkout`, `CheckoutTimesOut`, `ConnectionFails` | `getConnection` and its failures |
| `Documents`, `ReadTenants`, `ReadTenant`, `CommitTenant` | the transactions behind the routes; a switch of a tenant is a read and a commit, and the commit writes only a row that differs from what was read (dirty checking) |
| `Migrate` | Liquibase borrows a connection from the pool without the provider and leaves its path behind |

Every transaction ends in `Release`, `releaseConnection`, which resets the path
or, when that statement fails, never returns the connection. Every job ends in
`End`, on each of its refusals, failures and successes: the scope is closed by
the try-with-resources of the filter and of the decorator.

### Provisioning: how a tenant comes to have a schema

`Provisioning.tla` has several instances of the program on one database, each with
a changelog of its own version, a pool and a lock.

| Variable | Code |
|---|---|
| `tenants` | the `tenants` table, with (history) the instance that wrote each row |
| `made`, `version`, `locked` | the schemas, the change sets applied to each, and its `DATABASECHANGELOGLOCK` |
| `up`, `listed`, `todo` | where an instance is between down and serving, the tenants its runner read, and those it has yet to migrate |
| `mutex`, `free`, `lost` | who holds the instance's `MIGRATION_LOCK`; the idle connections of its pool, and those taken from it for good because their path could not be set or reset |
| `thread` | a request that creates a tenant, or the starting thread of an instance: where it is and what it works on |

| Action | Code |
|---|---|
| `Create`, `CreateSchema`, `Commit` | `TenantService.create`: the transaction begins with a connection; `createSchema`, on a second one; the row and the transaction's end |
| `Lock`, `Connect`, `LockSchema`, `ChangeSet`, `MigrationReturns` | `runMigrations`: the process's lock, then inside Liquibase a connection, the schema's lock, one change set after the other, and the way back |
| `Start`, `NextSchema`, `Migrated`, `Open` | an instance starts: the runner lists the tenants, migrates one after the other, and the port opens |
| `Crash` | an instance dies at any point: transactions are rolled back, a lock Liquibase wrote stays |

`Fails` is the exception out of any of these: it gives back what the thread held, and
ends the creation or the start. The row is written at the commit and not by `save`:
its id is made in the process, so Hibernate has no reason to send the insert earlier
(the diagram in ADR 0001, `docs/decisions`, draws it first). That is why two creations of one
name both make and migrate their schemas before one of them is refused.

### Follow: the console's reader of a run

`Follow.tla` is `follow.js` with the part of `responses.js` that paints its note. The
page is one thread, so an action is one callback: a timeout, an answer, a frame or a
click.

| Variable | Code |
|---|---|
| `follows`, `followRun` | the follow objects (document, state shown, phase, reads, run), and the counter that numbers the runs |
| `timers`, `reads` | the timeouts that are set, with the run they were set for; the fetches on their way, and the server's answer once it is given |
| `generating`, `note`, `slot` | the generate call that executes, the follow in `responseNotes`, and what the last frame painted for it |
| `status`, `budget` | the server's side: the documents, and the requests the tenant has left |
| `others` | history: requests served to others since a follow read last |

| Action | Code |
|---|---|
| `Execute`, `captureResponses` | a generate call and its answer: `startFollow` after a 202, `resumeFollow` after a 409 |
| `Fire`, `Arrive` | the timeouts of `scheduleRead` and of `Retry-After`; what `readState` does with an answer |
| `paintResponseNotes`, `CheckAgain` | a frame, which paints only what its signature says has changed; the button of the painted note |
| `Serve`, `Progress`, `Refill`, `Spend` | the server: it answers a read, a consumer moves the document, the window gives a request back, others take one |

A read may always find no key (the reader logged out), and a fetch may always fail.

### The rest of the console

Eight parts, none of which writes what another one reads except through Swagger's store,
which each of them models for itself. The page is one thread: an action is a callback
that runs to its end, and a frame paints what is true then. Whether something *is*
painted is what the code decides with a signature, so the signatures are in the models
and the markup is not.

**`Credentials.tla` and `Answers.tla`** (which extends it): what the page sends and
what comes back.

| Variable | Code |
|---|---|
| `now`, `held` | the clock, and Swagger's store of authorizations |
| `expiryTarget`, `expiryTimer` | `armExpiry`'s timer and the expiry it is aimed at |
| `behind` | changes since the last frame; one is queued unless it is 0 |
| `tag`, `dialog`, `sends` | the topbar's tag, the cards of the dialog and the action bars, as painted |
| `calls` | the call of each operation that is out, with the credential it was sent with |
| `notes`, `slots` | `responseNotes`, and the notes as painted with the credential their button offers |
| `handed`, `sent` of a refusal | history: how many credentials an operation's answers handed on, and what the refused call went out with |

`Authorize`, `LogOut`, `UseThis` and an answer that hands a credential over change the
store; `Tick` and `ExpiryFires` are the clock; `Execute`, `ArriveOk`, `ArriveNotOk` and
`ClearResponse` are the calls; `DialogTick`, `BarTick` and `Frame` paint. A refusal is
explained by what is held when the frame is painted, not when the call was made, which
is why `NotesTellTheState` is about every way in which Authorize can change later, and
compares what is painted with what the call was sent with and what its answer handed on.
A timer waits `MaxTimer` at most: what expires later is in the instance too.

**`Description.tla` and `Carry.tla`**: what the page reads out of an OpenAPI document,
as operators over documents (tags, required credentials, badges, links, the index
of answers and what is folded out of it), and the ids that a create carries into the
operations under its collection.

| Variable | Code |
|---|---|
| `doc` | the description of this page |
| `param` | Swagger's value of each path parameter |
| `carriedIds`, `chip`, `carryNote` | the id last carried there, the chip in the field, and the note of the last create |
| `typed`, `created` | history: what the reader typed last, and what each collection created last |

`carryId` fills the fields whose value is absent or carried and keeps the others;
`TypeId` is the reader; `CarryFrame` rebuilds the chips. `PageAgrees` compares what
different modules of the page say of one document; it is checked over documents with
every way to say who may call (absent, empty, one of two, both, an empty requirement).

**`Operation.tla`**: an open operation between one call and the next.

| Variable | Code |
|---|---|
| `open`, `text`, `editing`, `verdict` | the open blocks, their editors and the line under each |
| `request`, `pending`, `response` | Swagger's last request and response, and the calls that are out |
| `latest` | `runtime.latestAnswer` and the last budget |
| `sheet`, `row`, `bar` | the answer's sheet, the mark on the row, the statusbar, as painted |
| `callHistory`, `historySeen` | the kept calls, and the response captured last |

`Toggle`, `Type`, `Edit`, `Load`, `ExecuteBody`, `Answer`, and `OperationFrame`, which
captures the history and paints all four. A request may go out before the frame of the
answer before it, whose entry then gets the newer body.

**`Journey.tla`**: "Run all steps".

| Variable | Code |
|---|---|
| `autopilot`, `step`, `thread` | the run of the page, the step of each run, and the timer each run has pending |
| `blockOpen`, `calling`, `lastAnswers`, `evidence` | what a run waits for: the block with its button, the call that is out, the last answer, credentials and the state of the followed document |
| `walk` | the progress as the rail, the strip and the panel paint it |

A run is a chain of timers (`whileRunning`, `Goes`, `Misses`, `ClickStep`,
`nextJourneyStep`), each of which ends if its run is no longer the page's. The reader
may stop, start again, close a block, execute or log out meanwhile (`StopRun`,
`runJourney`, `ToggleStep`, `ExecuteStep`, `LogsOut`); the server may refuse, fail the
document, or never answer.

**`Places.tla`**: where the page is.

| Variable | Code |
|---|---|
| `tagsOpen`, `blocksOpen`, `rendered` | Swagger's layout, and the tags whose operations React has in the page |
| `finding` | the loops of `openOperation` that look for a block frame by frame |
| `listening` | the `scrollend` listeners of `bringIntoView`, in their order |
| `at`, `short`, `scrolling` | what is at the top, whether landed content moved it, whether a scroll goes on |
| `camera`, `place`, `tools` | the camera of a run, the place the map and the crumb name, the tags that say "Close all" |
| `asked`, `fought`, `landed` | history: what was asked of the page last, whether an older listener or a key came between, how much content landed since |

A position is a block, the overview or the reader's own, not a number of pixels.
`ScrollEnd` runs all listeners in order, each of which may correct twice and may see the
scroll another one asked for.

**`Window.tla`**: the first moments, and what keeps the page dressed.

| Variable | Code |
|---|---|
| `visible`, `loadingStatus`, `spec`, `info`, `faces` | the tab, Swagger's loading, the description read, its head rendered, the faces |
| `ceilings`, `loadingExpired`, `window` | the two timers of the placeholders, and what the window shows |
| `dressed`, `queued` | what the console put into the page, and whether a frame is queued |
| `server`, `checks`, `light` | the server, the health checks on their way with their answers, the light |

React may drop what is in its tree at any moment (`ReactRenders`); frames are not run in
a tab behind; a health check that is answered late is painted late.

**`Controls.tla`**: the rail, the density, the drawer, the legend, the recent calls, the
palette and the keys. Escape and Ctrl reach several listeners depending on the focus; a
click that chooses an entry goes on to the document's own listeners.

**`Demo.tla`**: `demo/api.js`. `tenants` and `documents` are what it keeps in
localStorage, `hits` the calls of the last minute in memory; a document's state is
computed from when its generation was asked for. `Reload` keeps the first two if the
storage works and empties the third. `delivered` is the last answer with a document in
it, for the refinement below.

**`Filtering.tla`** has `Array.prototype.filter`, which the palette's matches and the
demo's calls of the last minute are made with.

**`DocumentLifecycle.tla`** is the abstract specification: what the API promises of a
document, whoever answers for it. It has an owner, a state that only moves forward and
only once it was asked for, and what is handed out is its owner's, the file not before
`DONE`. `Demo` implements it under the mapping in `Promise`; `Generation` does not, since
a slower delivery takes a `DONE` document back (see `TerminalIsFinal`), and has
`SingleRunFollowsLifecycle` for the documents with one request.

**`MCConsole.tla`** instantiates these parts. They share no variable, so a behaviour is
about one of them (`part`, chosen at the start) while the others rest in an initial
state: their product would multiply the states and add nothing.

### What connects the modules

The Java modules share no variable: Generation does not depend on where its tables
are, Tenancy not on what a transaction does in them, and the limiter appears in
Tenancy as the choice of its answer. In Follow the document's worker and the limiter
are what the page can see of them: a status that only moves forward, a number of
requests left. Provisioning has the pool and the lock, Tenancy the path the migration
leaves on its connection; both have the connections that are never returned. In Journey
the follow is the state it ends in, and in Answers the follow's part of a note is left to
Follow and the carried id's to Carry.

## Runs

| Run | Instance | What it shows |
|---|---|---|
| `server` | Tenancy: 2 tenants, 2 request threads, 1 consumer, 2 connections, 1 failure. Generation: 2 documents on 2 partitions, 2 requests, 2 workers, 2 attempts, 1 fault, consumers that may stall | `ServerOK` (both parts' types), `Isolation`, `ContextIsTheJobs`, `GrantedByCredential`, `SwitchTakesEffect`; `PdfServedIffDone`, `StampsTellTheRun`, `FailedOnlyWhenExhausted`, `SingleRunFollowsLifecycle`: what survives two deliveries of one record at the same time; no deadlock of the threads |
| `followed` | Generation: 1 document, 2 requests, 2 workers, 2 attempts, 1 fault, no stalls. Follow: 1 document, 1 follow, 2 runs of 2 reads, a budget of 3 with a reserve of 1. `FollowedSpec` | `UnfinishedIsOutstanding`; `AcceptedSettles`: a 202 leads to a document that is `DONE` or `FAILED` and stays so; `ReadingStops` |
| `reading` | RateLimiter: 3 requests, limit 2, window of 3 ticks, second of 2, clock to 5, 1 resend, 1 restart. Follow: as in `followed`, with 3 runs | `ReadingOK` (both parts' types), `SlidingWindow`, `RemainingIsKept`, `RetryAfterFreesASlot`; `OneChain`, `ShownIsTrue`, `ReserveIsTheReaders`, `NeverBack` |
| `generation_503` | 1 document, 1 request, no fault | `NotQueuedNeverRuns` is violated |
| `generation_final` | 1 document, 2 requests, 3 attempts, no fault | `TerminalIsFinal` is violated |
| `tenancy_both` | Tenancy as in `server`, fewer threads | `AdminFindsTenants` is violated |
| `provisioning_run` | an old and a new instance, pools of 2 and 3, 2 creations, 2 names, 2 schemas, 3 starts, `FairSpec` | `TypeOK`, `RoutableIsMigrated`, `OneMigrationAtATime`, `ConnectionsAddUp`, `StaleOnlyIfAddedLate`, `WorkEnds` |
| `provisioning_serve` | the same with one creation | `SafeToServe` is violated |
| `console` | each part of the console and the demo, on the instance below | `ConsoleOK` (the types and the invariants of the parts), `ExpiryIsShown`, `NotesTellTheState`, `FieldsHoldTheirIds`, `PageAgrees`, `SheetIsTheAnswer`, `HistoryHasTheAnswer`, `LandsWhereAsked`, `JourneyActsForItself`, `JourneyEnds`, `WindowSettles`, `DemoFollowsLifecycle` |
| `journey_stuck` | the journey of the same instance | `StepNotDoneStopsTheRun` is violated |
| `expiry_clip` | the answers of the same instance | `ExpiryRepaints` is violated |
| `denial_sent` | the answers of the same instance | `RefusedAsSent` is violated |

Why these bounds. *Generation*: a document is disturbed by two things only, a
second request for it and a second delivery of a record, so two requests, two
workers and one or two faults make every overlap; a second document adds what is
shared, the single partition of the retry and dead-letter topics. Two attempts
have a first try, a retry and dead letters; the third of the code is one more
retry like the second, and `generation_final` has all three topics. `MaxFaults` bounds
crashes, stalls and failed publications; failures of a render are not faults and
may happen at every attempt. *RateLimiter*: the limit must be exceeded (3 > 2),
the window must end and begin again within the run (the clock goes to 5, nearly
twice the window of 3), and a window that is no whole number of seconds (3 ticks
of 2 to the second) shows the rounding of the reset. *Tenancy*: one thread that
serves two tenants in turn, two threads and a consumer that race for two
connections, and a migration that leaves a path behind; the second failure would
only repeat the first. *Provisioning*: two creations race for a name, a schema, the
lock and the connections; they exhaust a pool of two, and in a pool of three they can
both reach a migration, so that the lock matters. Changelogs of one and two change
sets make a schema that is behind, one that is up to date and one that is ahead; three
starts of two instances let one restart, with the lock a crash left behind. *Follow*: a
run needs a first read, which is not asked for the budget, and one that is. In
`reading` three runs let a click on a button that is still painted start the third while
a read of the second, which an earlier click started, is on its way, and let a resumption
after a 429 meet both; `followed` asks only whether one run stops, and two show a run that
another overtakes. The theorems of FollowProofs are about any number. Follows share only
the budget, and one is enough to meet it. Where two parts stand in one run they share the names of
model values (`r1` is a tenant and a request), which neither compares with the other's.

*Console*: the parts are independent, so each has the bounds its own hazards need.
Answers: two schemes, a token that expires at 1, one that expires at 2, a token and a
key that never do, a clock to 2 and a timer that waits 1 at most, so that one expiry is
within its reach and one is not; two operations, two calls, one act of the reader in
Authorize; so a token can expire while another is offered, while its call is out and while
the dialog shows it, and an operation can hand on two tokens while a third is held. Carry: nine documents and an empty one; three ids, so that a typed
value can equal an earlier, the present or a later carried one; two typings. Operation:
one operation, a history of 2 and 3 calls, so that an entry is pushed out. Journey: three
steps, one of each kind, the last two in a chain; two runs, one act of the reader, one
poll before a deadline. Window: two checks that overlap and two disturbances. Places:
two blocks in two tags, 3 wishes, 3 landings of content after each, and the code's 2
corrections, so that more lands than a scroll may correct.
Controls: two rows and 3 acts, from each kind of screen and with and without storage.
Demo: two tenants, two documents, one call per window, a clock to 2, so that a document
passes through all its states and a window ends. The constants `MaxChanges`, `MaxCalls`,
`MaxTyped`, `MaxSent`, `MaxReads`, `MaxRunsStarted`, `MaxDisturbed`, `MaxAsked`,
`MaxLanded`, `MaxHandled`, `MaxDocuments`, `MaxClock` and `MaxTime` bound these
instances and nothing of the code.

Deadlock is checked in `server`, for the threads of Tenancy, which never stop;
a generation whose requests are settled may rest (`GenerationRests`). The other
configurations say `CHECK_DEADLOCK FALSE`: their requests are bounded, and so is
the limiter's clock, the creations, starts, follows and runs, and what the reader of the
console does, so they stop when all is served.

Symmetry is used where the named sets are only compared, never in a run with a
liveness property. Documents and partitions are numbers and not symmetric.

Each property of a passing run is paired in PROJECT.json with a broken variant
of one definition (a claim that misses its guard, a rewind past uncommitted
records, an expiry that is set only once, a scope that is not restored) under
which TLC finds it violated. The variants stand in the modules before what they
break.

## Fairness

Four runs need fairness. For `followed`, `FollowedSpec` assumes of Generation, where that
is the part that moves:

* weak fairness of `Poll(t, p)` for every topic and partition: a consumer of a
  listener container keeps polling the partitions the group gives it, which the
  container's loop does while any instance is alive;
* weak fairness of `Work(w)` for every worker: a thread in a delivery goes on,
  to a commit, a failure or a publication. The render, the database and the
  producer all return or time out.

Nothing is assumed of requests, of acknowledgements or of faults: a client need
not call, the broker need not take an event, and a render may fail every time.
Faults are finite (`MaxFaults`), as in any system that is to make progress; the
retries of a dead-letter handler that fails are bounded by the same counter.
A consumer that stalls (`CanPause`) is excluded, see below.

`FairSpec` of Provisioning assumes weak fairness of `Work(t)` for every thread: a
statement returns, a wait for a connection or for a schema's lock ends (Hikari and
Liquibase both give up after a time), and a thread that waits for the lock of the
process gets it while it stays free. No client need come, nothing need start, and
every step may fail. `WorkEnds` then says that what is waited for is given back or the
wait has an end: the lock has no timeout and is only ever released by its `finally`.

Of Follow it assumes that the page goes on while it waits for anything
(`Waited`, as in `FollowFairSpec`): a timeout fires, the server answers, a fetch settles. Frames, clicks and
the document's worker are not fair: a document may never settle, and reading stops
all the same, since its backoff or its budget ends.

`console` and `journey_stuck` assume of the parts with a liveness property:

* `JourneyFair`: a timer a run has set fires (`RunsOn`). No answer need come, and the
  reader need not do anything: the deadlines end a run.
* `WindowFair`: the ceilings of the placeholders fire, a frame that is queued in a tab in
  view runs, and a transition ends (`LoadingGoesOn`); the interval of the health check
  fires in such a tab and a check that was asked is answered or fails (`HealthGoesOn`).
  Neither the description nor the faces need ever arrive.

`MCConsole` assumes each of them only while its part is the one that moves.

## Proofs

TLAPS checks these for all documents, requests, workers, partitions, attempts,
limits, windows, tenants, threads, connections, follows, schemes, operations,
descriptions, journeys, blocks and bounds, under the assumptions each module states about
its constants: numbers are naturals, the special values are not members of the sets they
stand beside or words a note is painted with, an instance is no creation, Provisioning counts connections over finitely
many threads, and the descriptions of Carry are well-formed (`CarryAssumption`: paths are
sequences of segments, security is a sequence of requirements, and no scheme is called
PUBLIC). Every safety property that a passing run checks is stated by a theorem; the
types of `ServerOK` and `ReadingOK` by one of each part.

| Theorem | Module | States |
|---|---|---|
| `TypeCorrect` | GenerationProofs | `Spec => []TypeOK` |
| `ServedIffDone` | GenerationTheorems | `Spec => []PdfServedIffDone` |
| `StampsTrue` | GenerationTheorems | `Spec => []StampsTellTheRun` |
| `FailedMeansExhausted` | GenerationTheorems | `Spec => []FailedOnlyWhenExhausted` |
| `NoWorkLost` | GenerationTheorems | `~CanPause => (Spec => []UnfinishedIsOutstanding)` |
| `SingleRunIsGuarded` | GenerationTheorems | `Spec => SingleRunFollowsLifecycle` |
| `LimiterTypes` | RateLimiterProofs | `Spec => []TypeOK` |
| `ExactWindow` | RateLimiterProofs | `Spec => []SlidingWindow` |
| `RemainingKept` | RateLimiterProofs | `Spec => []RemainingIsKept` |
| `RetryAfterExact` | RateLimiterProofs | `Limit > 0 => (Spec => []RetryAfterFreesASlot)` |
| `Invariance`, `TypeCorrect` | TenancyProofs | `TenancySpec => []Inv`, `TenancySpec => []TenancyTypeOK` |
| `ContextConfined` | TenancyProofs | `TenancySpec => []ContextIsTheJobs` |
| `Isolated` | TenancyProofs | `TenancySpec => []Isolation` |
| `Granted` | TenancyProofs | `TenancySpec => []GrantedByCredential` |
| `SwitchesTakeEffect` | TenancyProofs | `TenancySpec => SwitchTakesEffect` |
| `Invariance`, `TypeCorrect` | ProvisioningProofs | `Spec => []Inv`, `Spec => []TypeOK` |
| `Routable` | ProvisioningProofs | `Spec => []RoutableIsMigrated` |
| `OneAtATime` | ProvisioningProofs | `Spec => []OneMigrationAtATime` |
| `NoConnectionLost` | ProvisioningProofs | `Spec => []ConnectionsAddUp` |
| `StaleOnlyIfLate` | ProvisioningProofs | `Spec => []StaleOnlyIfAddedLate` |
| `TypeCorrect` | FollowProofs | `FollowSpec => []FollowTypeOK` |
| `OneChainAlways` | FollowProofs | `FollowSpec => []OneChain` |
| `ShownIsTrueAlways` | FollowProofs | `FollowSpec => []ShownIsTrue` |
| `ReserveIsTheReadersAlways` | FollowProofs | `FollowSpec => []ReserveIsTheReaders` |
| `NeverBackAlways` | FollowProofs | `FollowSpec => NeverBack` |
| `ExpiryAlwaysShown` | ConsoleProofs | `AnswersSpec => []ExpiryIsShown` |
| `NotesAlwaysTell` | ConsoleProofs | `AnswersSpec => []NotesTellTheState` |
| `SheetIsAlwaysTheAnswer` | ConsoleProofs | `OperationSpec => []SheetIsTheAnswer` |
| `HistoryAlwaysHasTheAnswer` | ConsoleProofs | `OperationSpec => []HistoryHasTheAnswer` |
| `RunsActInTurn` | ConsoleProofs | `JourneySpec => JourneyActsForItself` |
| `WalkIsPainted` | ConsoleProofs | `JourneySpec => []JourneyOK` |
| `HistoryIsBounded` | ConsoleProofs | `OperationSpec => []OperationOK` |
| `FieldsAlwaysHoldTheirIds` | PageProofs | `CarrySpec => []FieldsHoldTheirIds` |
| `PageAlwaysAgrees` | PageProofs | `CarrySpec => []PageAgrees` |
| `PageRestsWhereAsked` | PageProofs | `PlacesSpec => []LandsWhereAsked` |
| `PageGoesWhereAsked` | PageProofs | `PlacesSpec => [](asked # "overview" => at = asked)` |
| `WindowIsDressed` | PageProofs | `WindowSpec => []WindowOK` |
| `ControlsShowWhatIsKept` | PageProofs | `ControlsSpec => []ControlsOK` |
| `BudgetsAndPagesHold` | PageProofs | `DemoSpec => []DemoOK` |
| `Implements` | PageProofs | `DemoSpec => DemoFollowsLifecycle` |
| `WholePageHolds` | PageProofs | `Spec => []ConsoleOK` |
| `WholePageKeepsPromises` | PageProofs | `Spec` implies six of the properties above, for the page that has all the parts |
| `WholePageTellsTheState` | PageProofs | the other three: `ExpiryIsShown`, `NotesTellTheState`, `LandsWhereAsked` |

**Generation.** `TypeOK` is not inductive: that the position of a partition stays
behind its log when a worker finishes needs the worker to be in a delivery of the
record at that position. `Core` in GenerationProofs adds it: every record is of a
request that names a document and lies in that document's partition (`LogOK`,
`ReqOK`), a busy worker has a well-formed delivery (`WorkerOK`), one that still
owns its partition is at the record behind `pos` (`HoldsRecord`) and is the only
one (`SoleOwner`). On top of it, `RowsInv` in GenerationTheorems says of every
row, *and of every copy of a row a worker holds*, that its status, stamps and
content agree: a blind commit writes a copy, so the copies must be as good as the
rows. That a record of topic `t` went through all topics before it makes
`FailedOnlyWhenExhausted` inductive. `NoWorkLost` needs that no worker is cut off
from its partition (`~CanPause`): then every delivery that ends either leaves its
document finished, or leaves a record in the next topic, or is delivered again;
the position moves past a record only in the first two cases. With stalls it does
not hold: a worker that lost its partition overwrites a finished row with
`PROCESSING` and dies.

`SingleRunIsGuarded` says that the blind commits of the worker, which check nothing in
the database, still go through the guarded lifecycle of `Document` as long as nothing
fails, although the retries of a request are taken by other workers. It rests on `Calm`,
which holds until the first fault: every busy worker owns its partition (`NoZombies`); a
request is in the log of a topic once (`OnlyOnce`), and in that of the next topic only
when its record in this one was passed (`PassedOn`); only the last topic abandons
(`DlqAbandons`). So two workers are never busy with one request (`NotAhead`), and what a
worker read of a document with one request is still its row (`SnapshotsCurrent`): its
transition is one from the row's own status.

**RateLimiter.** The inductive invariant relates the history to the set: every
admitted call that is still inside a window ending now is a member with the score
of its last admission, since the last restart, or was re-admitted later. The
members within a window are at most the limit when the script admits one more, so
no window that ends at this run exceeds it, and a window that ends earlier lost
none of its runs. The restart narrows the claim to the runs since. `RemainingKept` needs
one more part, `Announced`: what a run announced as left, together with the members that
nothing admitted since then, never exceeds the limit; so a full set has as many members
admitted since as were announced. `RetryAfterExact` rests on `Waiting`: of the slots
taken at a refusal one is free, or leaves by the end of the seconds that were answered
(`OneLeaves`, for which the set was full: `FullWhenRefused`), and none of them leaves
before the last of these seconds (`NotLong`, for which a call's last admission is its
score: `LastIsScore`). It assumes a limit above zero: with
a limit of zero, which nothing in `RateLimitProperties` refuses, everybody is refused and
no slot ever frees.

**Tenancy.** `JobOK` says for each thread what its stage implies: which tenant the
context holds given the scope, which path its connection has (`ScopeSchema`), that
nothing but the handler has a route, and which roles stand behind it. It is
inductive since a step of one thread touches only its own job and a connection
nobody else holds (`OthersJobs`), which is part of `TypeOK`. `SwitchOK` adds that
a switch that is alone saw the row as it still is. The three lemmas `TypeStep`,
`JobStep` and `SwitchStep` treat every action once; `EndJobs`, `EndTypes` and
`EndSwitches` treat the end of a job once for all the actions that reach it.

**Provisioning.** The size of a pool in `TypeOK` is not inductive: that a connection
given back was taken needs the accounts of the whole pool, `ConnectionsAddUp`. Its
preservation is one lemma, `Accounts`: a step of one thread changes only its own
membership in the sets of holders, so it is enough that what the step takes, gives
or loses is the difference of what the two stages say the thread holds (`Holds`). `Placed` says
where a thread with work is, `Locks` that a thread inside Liquibase is the one the
process's lock names, `Schemed` that a schema is made and migrated by the stage its
creation is in, and `Listed` what the runner has done so far. Each action has a lemma
that preserves all of `Inv`; the exception (`FailsStep`) and the return of a migration
(`ReturnsStep`) are proved once for the actions they end. `StaleOnlyIfLate` follows from
`Listed` and from versions that never decrease: a tenant that was listed is up to date,
and one that was not is as new as its creator.

**Follow.** `OneChain` is not inductive: that a stopped follow has no timer needs to know
that the timer which stopped it was its only one, and which timers are of its present
run. `Inv` has the types, `Tied` (a timer and a read are of a follow and of a run that
was started; the counter has numbered every run) and, for every follow, `Fine`: it waits
for exactly one timer or read of its present run while it reads on, and for none
otherwise (`Waits`); what it shows is a state its document has reached (`Told`); an
answer on its way to it is one its document had, and not behind what it shows (`Good`);
and the budget it last saw is spared but for what others took (`Spared`). A new run gets
a number that nothing waits for, so starting, resuming and clicking are one lemma; an
answer of an older run is dropped by the same comparison in every case. `NeverBack` then
needs only `Good`: a step that changes what a follow shows is the arrival of an answer to
its present run.

**Demo.** The simulation maps the derived state to the lifecycle's. Its invariant
`DocumentsKept` says that a document which was asked for exists and that times are numbers; a step that
lets time pass is `Advance`, since a document that is not asked for stays `PENDING` and
the others only move on (`ViewIsState`, `TimeStep`); a reload that loses the storage is
`Forget`; creating, asking, reading and listing are `Create`, `Request` and `Read` of the
caller, which is the owner. The budget needs `DemoInv`: a tenant's calls are in the past
and at most the limit, since a call is added to those still in the window only when they
are fewer (`SpendsKept`). That every page size shows a document of a tenant on one page
only (`OnePage`) is arithmetic about its place in the list, whose range is that of a
cardinality (`PlaceFacts`).

**Console.** What is painted can only be wrong without a change of the store when a
token expires, so `ExpiryAlwaysShown` rests on the timer: where no frame is due it fires
no later than anything that is held expires (`Armed`), and it is set for what it aims at
(`Aimed`), which the comparison in `armExpiry` relies on when it leaves the timer alone.
When the clock passes an expiry the timer is therefore due, and the frame it asks for is
the one the page is read after (`Quiet`). What `Armed` excepts is a credential that
expires further ahead than a timer can wait while such a timer, cut short, has fired
(`Cut`): that is the case `ExpiryIsShown` excepts (`Unnoticed`), and `expiry_clip` shows
that it happens. `NotesAlwaysTell` needs that a slot kept for its signature is still about
the credential held (`SignedIsTrue`), and that a button was painted from an answer, the
only one where one was handed on (`OffersKept`).
For an operation, `Asked` says that the store's request is the last call of its operation
and the response no later one, and `Signed` that a painted sheet bears the signature of
one status of its call: two sheets with the signature of an answer that came are of one
call, so the sheet that is kept is the one that would be painted (`Fresh`).
`Kept` orders the history by `historySeen`, which is never ahead of the response, and
bounds each body by the calls sent since; `Newest` says what the first entry was captured
from and `Told` that the row tells the same answer. For the
journey, `Turns` says that runs start in the order of their numbers and none after the
page's own, and `ClickedOnce` that the run which clicked last has another step before its
click and the same one after it, until it moves on.

`WalkIsPainted` needs that every change of what the walk counts comes with a frame
(`WalkKept`), `HistoryIsBounded` that a frame cuts the history it adds to.

**Descriptions and carried ids.** `AgreesOf` is about any well-formed description: the
badge of an operation has the schemes of all its requirements, the call sends those of the
first, and each cause of a refusal is either folded into the shared answers or left in
the index. `FieldsHoldTheirIds` is not inductive, since an answer fills the operations of
one collection and the reader types in one field. `CarryInv` therefore says for each field
and each collection it lies under what the field holds by who wrote it last; that a
create of one collection does not fill the field of another needs `OneCollection`: the
collection of a path is the segments before its first id, so a path has one at most.

**Where the page rests.** `Settle` folds over the listeners of a scroll's end, of which
there may be any number, and each sees what the one before left. The fold is a recursive
function, of which only its value at 0 and from one n to the next is known
(`SettledSteps`); what holds of all its values is proved by the least n where it would
fail (`ReachesAll`), without an induction theorem. `SettlesAll` shows that after n
listeners the page is at the block of the newest of them that moved it, and that those
left are in order (`Ordered`: an older listener has corrected at least as often as a newer
one, so the newest is the last to leave). `Aims` says that the page is at the block asked
for last, which is the newest listener's; from these two `PageGoesWhereAsked` follows
whatever lands. `MadeUp` adds that, where nobody fought over the page and no more content
landed since the last wish than one scroll may correct, one listener at most waits, and has
corrected as often as content landed at most: it has a correction left for each. A third
piece of content is made up for by nobody, which is the limit in `bringIntoView`.

**Palette, folds and the window.** `ControlsInv` has what `ControlsOK` promises and what it
takes: a palette's selection is an entry of its matches (`PaletteFine`), an open palette
says what its entries would do now (`Current`, unless something changed behind it), rail
and density are what the kept choices restore on this screen (`FoldsFine`). `Those` of
Filtering, in place of `Array.prototype.filter`, is bounded by its argument and in the
set (`ThoseFacts`), by `ReachesAll` once more. `WindowInv` adds that a description which
was read had been loaded.

**The whole page.** A behaviour of `MCConsole` is one of every part at once, up to
fairness (`PageImplementsItsParts`): a step moves one part, and the others rest. So what
is proved of a part's specification holds of the page, and `WholePageHolds` collects it.
Window and Journey have fairness in theirs, which a page owes only to the part that
moves; their invariants do not rest on it and are proved without.

Only model-checked: liveness (`AcceptedSettles`, `WorkEnds`, `ReadingStops`,
`JourneyEnds`, `WindowSettles`), since the prover has no rule for fairness. What the
disagreements below violate is found by TLC, as a counterexample needs no proof.

## Where the code and its documentation disagree

Seven runs end in a counterexample, each of one property that quotes what a comment or a
document says.

* **A 503 that runs** (`generation_503`, `NotQueuedNeverRuns`). The publisher answers 503
  when the acknowledgement is late, and the record is appended all the same.
  `GenerationNotQueuedException.java:3` and ADR 0002 say that nothing will run.
* **A finished document that is taken back** (`generation_final`, `TerminalIsFinal`). The
  first delivery of one request failed before its claim and went to the retry topic; the
  other request of the document is in the main topic. Two workers read the same `PENDING`
  row. One claims, renders and commits `DONE`; the other calls `markAsProcessing` on its
  copy and merges it (`PdfGenerationService.java:46-51`), and the row is `PROCESSING`
  again. `Document.java:77-78` refuses that, but asks the copy; `README.md:259-261` draws
  `DONE` as final. Line 73 merges a copy in the same way, so that a render which ends
  after the dead-letter handler turns `FAILED` into `DONE`; this run's counterexample is
  the shorter one. Follow takes a document's status to move forward only, which is so of
  a document with one request.
* **A token with a key** (`tenancy_both`, `AdminFindsTenants`). A request with both is
  admitted to the tenant routes and looks for the tenants in the tenant's schema, against
  `TenantController.java:38` and `JwtAuthenticationFilter.java:51-52`.
* **A stale schema that is served** (`provisioning_serve`, `SafeToServe`). A tenant that an
  older instance creates after the runner's list was read, against
  `TenantMigrationsRunner.java:17-18, 42`.
* **A run of all steps that stands still** (`journey_stuck`, `StepNotDoneStopsTheRun`). A
  block closed in the 700 ms before its click, against `state.js:14-16`.
* **An expiry nobody notices** (`expiry_clip`, `ExpiryRepaints`). A token whose `exp` is
  more than 24.8 days ahead has its timer cut to `MAX_TIMER_MS`. The timer fires, the
  frame it asks for calls `armExpiry`, whose target has not changed, and no timer is set
  for the rest of the way (auth.js:108). After the expiry the tag says held until
  something else repaints, against auth.js:95-96.
* **A refusal of what was never sent** (`denial_sent`, `RefusedAsSent`). A call goes out
  with nothing, a login fills the scheme, the 401 of the first call arrives:
  `captureDenial` keeps what is held *then* (responses.js:144) and the note says the new
  token was refused, against responses.js:133-134 and 149-150.

These have no run of their own; the property is in the module, and TLC shows it with one
line of a configuration changed.

* **A button with an older token.** Two logins in turn hand on two tokens while a third is
  held: both notes have the signature "offered", so the slot is kept and its button
  applies the first answer's token, although the answer above it is the second
  (responses.js:265; `docs/design/scenarios/credentials.js:53` accepts "the response token").
  Console.cfg with `SPECIFICATION AnswersOnly` and the invariant `OfferIsTheAnswers`.
* **A kept call with another call's body.** A call is answered, and before the frame that
  captures the answer the reader executes the operation again: the entry has the first
  answer with the second body (history.js:30-38), where history.js:11-12 says "the body it
  sent". Console.cfg with `SPECIFICATION OperationOnly` and `HistoryHoldsWhatWasSent`.
  What holds of every entry is `HistoryHasTheAnswer`.
* **A sheet of calls that got no answer.** All of them have one signature (result.js:298-304:
  no status, no duration, no headers), so a second one keeps the sheet and the request of the
  first, where result.js:317 says that a new answer "shows the request as it went".
  `SheetIsTheAnswer` without `response[op].status # None` shows it.
* **A legend that closes at once.** Chosen in the palette with the mouse, it is opened by
  the entry, and the same click goes on to the document's listener, which closes what was
  clicked outside of (`Choose` in Controls). With the keyboard it stays open. No comment
  says otherwise.

## What is not modelled

* *Contents*: titles, templates, PDF bytes, keys, tokens and messages. A render
  succeeds or fails; a key belongs to a tenant or to none; a token is absent, valid
  or not.
* *Time* in Generation: timeouts and backoffs are choices of when something
  happens, so a late acknowledgement or a slow retry is any order of steps. In the
  limiter time is Redis's clock, which does not run backwards.
* *The list and read endpoints* of documents, which change nothing.
* *Kafka and PostgreSQL themselves*: a log is durable once appended, and a
  transaction is atomic at its commit with read-committed reads. A partition goes
  back to an offset that was committed, never further.
* *Pool exhaustion by slow acknowledgements*: generate holds a connection while it
  waits for the broker. Both halves are modelled, their product is not, as nothing
  is promised about it.
* *Login, error mapping, OpenAPI, rendering*: functions without state. What a token
  grants is in Tenancy, that a render may fail in Generation.
* *The console's figures, layout and wording*: markup, icons, colours, widths, the
  highlighting of JSON. They are idempotent drawings of state that the modules above have;
  when they are redrawn is modelled, what they look like is not. `docs/design/fidelity`
  compares drawings and is no part of the program.
* *Swagger UI, React and the browser*: the console's modules have what the page sees of
  them: a store with one request and one response per operation, renders that drop what
  was added, frames that wait for a tab in view, `scrollend`.
* *Positions in pixels, the validation of a body against its schema, the demo's refusals
  one by one*: a block is at the top or is not, a body is valid or is not, a call is
  refused or is not.
* *A storage that fails now and then, or is shared*: in Demo localStorage works for the
  whole behaviour or not at all, and one page has it to itself. In the code `save` swallows
  each failure by itself (demo/api.js:46-52), and a second tab writes its own copy over the
  first's, so a reload after one failed save, or after another tab's, may move a document
  back: `DemoFollowsLifecycle` does not say otherwise.
* *What a change set does*: in Provisioning a schema is the number of change sets applied.
* *A request's thread and the starting runner in one process*: the port opens after the
  runner, so they do not meet, although `TenantProvisioner.java:55-56` guards against it.

## Plan

1. Done: Generation, RateLimiter, Tenancy, Provisioning, Follow, their runs and
   theorems, those of Follow and of the limiter's headers included.
2. Done: the rest of the console, its run, and `DocumentLifecycle` with the proof that
   the demo implements it.
3. Done: `SingleRunFollowsLifecycle` as a theorem, with the calm before the first fault.
4. Done: theorems for every part of the console and for the page that has them all.
5. Left: an abstract limiter that admits at most a number of calls per window, shared by
   RateLimiter and the budgets of Follow and Demo.

## How to run

    tlc -workers 2 -config Server.cfg MCServer.tla
    tlc -workers 2 -config Followed.cfg MCFollowed.tla
    tlc -workers 2 -config Reading.cfg MCReading.tla
    tlc -workers 2 -config Provisioning_run.cfg MCProvisioning.tla
    tlc -workers 2 -config Console.cfg MCConsole.tla
    tlc -workers 2 -config Generation_503.cfg MCGeneration.tla
    tlc -workers 2 -config Generation_final.cfg MCGeneration.tla
    tlc -workers 2 -config Tenancy_both.cfg MCTenancy.tla
    tlc -workers 2 -config Provisioning_serve.cfg MCProvisioning.tla
    tlc -workers 2 -config Journey_stuck.cfg MCConsole.tla
    tlc -workers 2 -config Expiry_clip.cfg MCConsole.tla
    tlc -workers 2 -config Denial_sent.cfg MCConsole.tla
    tlapm GenerationProofs.tla
    tlapm GenerationTheorems.tla
    tlapm RateLimiterProofs.tla
    tlapm TenancyProofs.tla
    tlapm ProvisioningProofs.tla
    tlapm FollowProofs.tla
    tlapm ConsoleProofs.tla
    tlapm PageProofs.tla

Each of the first five takes two to three minutes; the others end with their
counterexample in seconds.
