# DistributedCrawler: TLA+ verification project

This directory holds TLA+ specifications of the crawler's processes, TLC
configurations that check them on small instances, and TLAPS proofs of their
main safety properties. `PROJECT.json` maps every definition to the source
lines it models and lists the hazards, runs and theorems.

## 1. The system and its parts

The crawler turns a list of seed URLs into a report. Processes share Postgres,
an object store and a message broker and nothing else; every worker may run
several times, may die anywhere and may get a message twice.

| Part | State | Operations | What is hard about it |
|---|---|---|---|
| Crawl job service (`application/service/crawl_job`) | rows of job configs, jobs, tasks, outbox | create, delete | deletion while handlers run |
| Outbox publisher (`worker/outbox_publisher.go`) | open transaction | fetch batch, publish, commit | messages leave before the commit |
| Stuck task recovery (`worker/stuck_task_recovery.go`) | none | republish by status and age | duplicates of tasks that are merely waiting |
| Fetch worker (`worker/fetch_worker.go`) | copy of the row, page | load, download, store, save, publish, ack | whole-row write of an old copy; crash between save and publish |
| Parser worker (`worker/parser_worker.go`) | copy of the row, links | guard, upload, transaction, publish links, ack | guard and write are apart; failed publishes are only logged |
| Export worker (`worker/export_worker.go`) | lock on the job, tasks read | select, read, two reports, mark | results that arrive during the export |
| Scheduler worker (`worker/scheduler_worker.go`) | copy of the config, clock reading | list, evaluate, create run | stale copy; several loops |
| Worker registry (`workerhealth`, `api/worker`, `worker/monitoring.go`) | record, command channel, pending commands | heartbeat, attach, detach, drain, kill, list | late handlers of old connections |
| RabbitMQ client | channels, unacknowledged messages | publish, consume, ack, requeue, reconnect | redelivery while the first handler still runs |
| Kafka client | committed offset, position | publish, consume, commit | cumulative offsets, rebalances |
| Fetch process (`app/worker_app.go`, `worker/fetch_worker.go`) | consumers, active tasks, drain state | consume, drain, stop, kill | which handler is cut off, messages taken during a drain |
| Rate limiters (`infra/cache`) | token bucket per host | allow | several workers, rounding, buckets that are forgotten |
| robots.txt cache (`infra/cache`) | copy per host with a time to live | look up, download, store | slow downloads overwrite newer copies |
| HTTP, browser and Selenium fetchers | attempt counter | fetch with retries | which errors are permanent |
| Authentication and user service | users, refresh tokens, access tokens | register, login, refresh, logout, change role | requests that interleave between statements |
| API server: gateway, interceptors, validation, REST handlers | none | every call, over REST or gRPC | two doors with checks of their own |
| Job store behind the API: codec, sharded client, keyset pagination | rows with JSONB columns on shards | submit, delete, list, count, read | pages while rows move; shard keys; numbers through JSON |
| Queue routing (`domain/crawl/models/queue_routing.go`) | none | select a queue | weights, wrap-around of sums |
| Extraction and reports (`parser_worker.go`, `export_worker.go`) | result objects, reports | extract, store, load, tabulate | fields that some pages and items lack, results that cannot be read |
| Preview service | preview rows, objects | create, get | object store outside the transaction |
| Memory broker, telemetry, configuration, HTML sanitizer, UI | - | - | see section 7 |

Interactions: the job service writes seed tasks and outbox events in one
transaction; the publisher turns events into crawl messages; fetch workers
ask robots.txt and the rate limiter, store pages and publish parsing messages;
parsers store results, insert the tasks of links and publish crawl messages;
recovery republishes tasks that stay IN_PROGRESS; the export worker reads all
results of a settled job; the scheduler waits for a run's export and creates the
next one; the registry sends drain and kill commands to workers over their
heartbeat streams; the API server reads and writes the same tables on behalf of
clients whose access tokens the authentication service has signed.

What makes each part correct is the list of its properties in section 3; what
can go wrong in it is the list of hazards in `PROJECT.json`.

## 2. Modules

| Module | Models |
|---|---|
| `CrawlState` | shared state of one job: tables, queues, object store, private state of all handlers; operators on rows |
| `JobService`, `OutboxPublisher`, `FetchWorker`, `ParserWorker`, `ExportWorker` | the steps of one component each (`OutboxPublisher` also has the recovery loop) |
| `JobLife` | what the owner of a job is promised: a list that only grows, by all links of a page at once, exports of a list that stands still, deletion for good (abstract) |
| `CrawlPipeline` | the composition of the steps, invariants, fairness and liveness; implements `JobLife` |
| `SchedulerWorker` | scheduler loops for one scheduled configuration |
| `WorkerRegistry` | registry, WorkerStream handlers with senders, and the worker's monitor, for one worker |
| `KafkaConsumer` | consumer group on one partition |
| `SessionLife` | what sessions promise: opened once for one user, ended once and for good (abstract) |
| `AuthService` | users, refresh and access tokens, requests that interleave; implements `SessionLife` |
| `RateLimiter` | token buckets in Redis and in memory |
| `Fetchers` | how an attempt of each kind of fetcher ends |
| `FetchProcess` | extends both: consumers, robots.txt cache, limiter, retries, drain, stop, kill |
| `ApiMessages`, `ApiValidation`, `ApiGateway` | messages as sets of records, their rules, and the way of a request through REST or gRPC to a handler |
| `JobConfigCodec` | message, domain model, row and back |
| `QueueRouting` | `SelectCrawlQueue` as the set of its possible results |
| `JobStore` | tables on shards, filters, order, keyset pages, counts |
| `JobApi` | extends the API modules: the server beside the workers |
| `JobReport` | extends `JobApi`: what the parser extracts from the pages of a job, the result objects and the reports made of them |
| `MCPipeline`, `MCScheduler`, `MCRegistry`, `MCKafka`, `MCAuth`, `MCFetch`, `MCApi` | instances for TLC |
| `PipelineProofs`, `SchedulerProofs`, `RegistryProofs`, `KafkaProofs`, `AuthProofs`, `FetchProofs` | theorems about one module each (`FetchProofs` has those of `RateLimiter`, too) |
| `JobApiProofs`, `JobApiReadProofs` | theorems about `JobApi`: what it checks and stores; what its readers see |

### 2.1 The pipeline

`tasks[t]` is the row of one URL: status, whether the key of the page is set,
the depth, and the result, which is `none`, `new` (stamped after exported_at, or
never exported) or `old`; the export's query compares nothing else. A handler
(`fw[w]`, `pw[p]`) keeps the copy of the row it loaded and writes the copy back
whole, as `Update` of the task repository does. Every database transaction is
one step; every call between two transactions that can fail or be interleaved is
a boundary between steps. A fault is a failed call or a death of the process;
the message is then ready again, as it is after a nack or a lost connection.

- Fetch handler: `FetchStart` (load), `FetchReject`/`FetchFail`/`FetchInvalidURL`,
  `FetchStore` (upload), `FetchSave` (row), publish and acknowledgement. A refusal
  by robots.txt at this point is one of the outcomes of `FetchFail`.
- Parser handler: guard and load, upload and stamp, one transaction for the
  result reference and the new rows, then the publishes, each of which may fail
  and is then forgotten, then the acknowledgement.
- Export worker: select and lock one job, read the results (a result that
  cannot be read becomes an entry in the report's error list), write JSON, write
  CSV and mark. Its row lock delays inserts of tasks and deletion.

`JobLife` knows of the job only its state, the URLs it lists with their depths,
whether an export is under way or done, and what the two reports name. The refinement
mapping reads this off the tables and the store; of messages, copies of rows and
handlers the owner sees nothing, so fetching, storing, publishing, recovery and
crashes of handlers have to be stutters, and the parser's transaction one step.

Abstractions: `Links[t]` is the set of links that a page yields after crawl
mode, URL patterns, robots.txt and limits, the same at every attempt (a link to
the URL of a repeated seed is the earlier seed's task); crawl
queues are one bag, as a job is spread over several and order is not
guaranteed; the silent loss of a message by RabbitMQ (there are no publisher
confirms) is not modelled. A message that is delivered again while its handler still
runs, because the channel is lost, has the effect of one that recovery repeats, and
`FetchProcess` has the channels themselves.

### 2.2 Scheduler

`List` takes the copy of the configuration, `Evaluate` reads the clock,
`InitNextRun`/`SetNextRun` compute and write the first NextRunAt,
`CheckLastRun` looks up the latest run and `CreateScheduledJob` is the
transaction. A cron expression is a monotone function `NextActivation` with
`NextActivation[t] > t`; an expression that never fires again (the library
then returns the zero time) is outside this assumption.

### 2.3 Worker registry

Each connection has a handler (`srv[c].pc`), a sender goroutine
(`srv[c].sender` with the pending commands it took over in `todo`), a command
channel, heartbeats under way (`up`) and commands under way (`down`). The worker
may open a new connection while the handler of an old one has not noticed the
end of its own; its deferred `DetachStream` names the worker only, and so closes
the newer channel. Operations under the registry's mutex are one step. Uptime,
worker type and backoff times are left out, and all clocks agree.

### 2.4 Kafka client

A member's loop has a position, the message in hand and whether it is to be
committed. `Rebalance` hands the partition to a member, which continues from the
committed offset while the old one finishes its handler; `Restart` does the same
and drops the message in hand. Group generations of the library are external:
only the current owner's commit takes effect.

### 2.5 Sessions

A request (`req[r]`) is a sequence of statements under READ COMMITTED. An update
waits for rows that another transaction has updated and then sees them again,
so of two refreshes with one token one finds it revoked. `access` is the set of
access tokens handed out, with the role signed into them and the number of role
changes when their request began. A token may expire at any moment after its
issue. Passwords, hashes and JWT syntax are left out: a request with wrong
credentials changes nothing.

`SessionLife` knows of each session only whether it is unused, live or ended and
whose it is. The refinement mapping reads this off the refresh token's row.

### 2.6 The fetch process

A process has one consumer for each of its queues: the default crawl queue, and
one more if WORKER_REGION is set. A message goes through
`Deliver`, `HandlerStarts` (which counts it as active), the end of the handler and
the answer to the broker, and in between through `RobotsLookup`, `RobotsReply`,
`RobotsStore`, `LimitCheck`, the wait and `LimitCheckAgain`, and
`FetchAttempt` as often as the retry policy says. `BeginDrain` only sets a flag;
`DrainPoll` stops the process when it sees no active task; a consumer that finds
the context done may still take a message, because Go's select picks any ready
case. `Close` cuts off every consumer that is not through; `Kill` drops the
process.

`open` is the set of consumers whose channel to the broker is up. `LoseChannel` may
happen at any moment: the broker takes the message back and may give it to
another consumer, while the handler that had it goes on. Its Ack or Nack then goes
to a closed channel and changes nothing, which the code does not notice; the
consumer finds the channel closed at its next select and opens another one
(`Reconnect`), unless its context is done. A denied page is acknowledged, or
requeued if the row cannot be updated.

Tokens are counted in units, `Unit` of them to a request, so that fractional
rates stay exact; the rounding of floats in Lua and Go is not modelled. `debt`
is an auxiliary variable: the units admitted so far that time at the rate has
not yet paid for; it never feeds back. The site's robots.txt goes through a
given history `Served`. How long an old robots.txt may be obeyed is not bounded: a
slow worker that stores its copy starts the 24 hours again, and the model does the
same; `RobotsObeyed` only asks for a version served since nobody last had a copy.

### 2.7 The API

`Message(call)` is what the handler gets: over gRPC the message itself, over REST
the one that the gateway makes of path, query and body, and on four routes what
the API server's own handlers make of it. `Arrive(call)` applies the checks on the way
(token, role, validation rules, or the handler's own). `JobApi` runs clients
against the tables while workers find tasks, complete them and export jobs. A
list is followed page by page as a *pass*, which remembers which rows stayed
(`steady`) and which moved (`moved`); an analytics call is two statements.

The first state chooses a deployment (number of shards, crawl queues) and a
workload (which operations, how many), so that one run covers several small
questions: lists in each order, lists of tasks, counting, regions, one queue, two
shards, and calls of every method by every caller. With two shards `CreateJob` is always
rolled back: the insert of the tasks is a query without shard key inside the
transaction (`QueriesWorkInTx`). No job is ever stored there, and only previews and the calls that need no
job are left. Seeds with the same URL get one row, as `ON CONFLICT DO NOTHING` has it.
A token whose role the server does not know does not verify.

`JobReport` adds no state: the contents of results and reports follow from the
configuration of a job and the pages. A page is a tree of elements with the elements
that each selector finds; `extractData` applies extractors, transforms and types to it,
`ToJSON` and `FromJSON` are the way through the object store, where a nil slice becomes
null and a number a float64, and `generateCSVReport` lays out the rows. Any subset of
the results may fail to load.

Abstractions: strings are members of one ordered set, so ILIKE is
equality; a presigned link is its object's key; the tasks of a job are worked
off together; one user submits, with one configuration per job; an export batch
takes all eligible jobs; a uint64 beyond the float64 range is represented by one extra
bit (`FloatBits`); scheduled runs are in `SchedulerWorker`, accounts in
`AuthService`, workers in `WorkerRegistry`; extracted numbers are integers, so that NaN
and infinities, with which `json.Marshal` fails, do not occur; error texts are one value. The `queue_weights` that the REST answer
adds to the message are left out.

## 3. Runs

| Run | Instance | Shows |
|---|---|---|
| `pipeline_safety` | a slow seed, one without host, one out of scope; 2 fetch and 2 parser handlers, 1 fault, deletion | `StoredBeforeReferenced`: rows never refer to objects that are not stored; `FetchedIsCovered`: a Fetched task always has a message or a handler; `PagelessIsFailed`: a parsing message that is requeued for ever, as its row lost the page key to an older copy, belongs to a Failed task |
| `pipeline_live` | a seed, a repeated seed, a link; 1 fetch and 2 parser handlers, 1 fault, deletion, fairness | `FrontierClosed`: a Parsed page has contributed its links; `OwnerSees`: refinement of `JobLife`, with links, exports and deletion; `ExportIsFinal`: without faults the export comes at the right moment and is complete; `TasksSettle`, `JobExported` |
| `parser_guard` | one slow task, 2 fetch and 2 parser handlers | violation: the idempotency guard can be passed twice |
| `export_late_result` | the same, no faults | violation: a late result stays out of the report |
| `scheduler` | loop of the API server, of its own process, or both; 6 time units, 1 failure, fairness | with one loop `RunsDoNotOverlap` and `OneRunPerActivation`; with both `DueIsRun`: a due schedule is never stuck |
| `registry` | 2 connections at once, 1 break, 2 commands, buffer of 1, 2 time units, fairness | `RegisteredStreamIsOpen`: no use of a closed channel; `CommandsAreNotDuplicated`; `StreamSettles`: the worker gets a working channel back |
| `kafka_delivery` | 2 members, 3 messages, 3 rebalances, 1 error, 1 lost commit, fairness | `NoMessageSkipped`, `EveryMessageHandled` |
| `kafka_retry` | 1 member, 1 error | violation: a failed message is committed by its successor |
| `auth_sessions` | 2 users, 2 requests at once, 3 sessions, 1 role change | `SessionsLive`: refinement of `SessionLife`; `LoginEndsEarlierSessions`; `OutdatedRolesAreOld`: a role taken away is only in tokens of requests that began before |
| `fetch_process` | 2 processes, 2 messages of a limited host, one of which obeys a robots.txt that changes twice; channels that break | `RateBound`, `WaitIsEnough`, `RobotsObeyed` |
| `fetch_drain` | 2 processes, one with a second queue, 2 messages, 2 attempts, channels that break under running handlers, fairness | `EveryMessageHasOnePlace`: a message is in the queue, settled or held by one consumer with an open channel; `CleanExit`; `DrainEnds`: a drained process ends |
| `job_api` | 3 job ids, 10 workloads in deployments with 1 and 2 shards and queues, page sizes up to 3 | `PassIsExact`: a pass over a list is complete and without repetition while rows come, go and move; `ConfigSurvives`: a configuration is read back as sent; `ReadersAgree`: GetJob, GetTask and ListJobs tell the same of a job; `EveryCallIsChecked`; `PreviewIsBacked`; `RoutedWithinReach`; `AnalyticsConsistent`; `ReportTellsResults`: the reports have what was extracted, each value under its column |

Each passing run except `fetch_drain` also checks the type invariant of its module
(`pipeline_live` has that of `pipeline_safety`); that of `JobApi` says of every
answer that it is a well-formed message.

Why the bounds are enough. *Pipeline*: the races are between two handlers of one
task, so two of each kind on one task reach all of them; a third message adds
only repetitions, and recovery refills the queue whenever it is empty
(`QueueCap = 1`). One fault puts a crash at every point. *Scheduler, registry*: the
clock bounds let activations pass during a run, and a silent worker be marked and
removed. *Sessions*: a third session is needed for a login that meets one
session committed before and one after its own start. *Fetch process*: two
messages of the limited host compete for one token, and each may be worked on twice
when a channel breaks; `TTL = 2` with 3 units to a request and the rates of `MCFetch` lets the bucket
be refilled before it is forgotten. *API*: with pages of one and two rows, three
jobs make every pass cross a page boundary while a row before, at or behind the
cursor changes; the weights' modulus and the number of bits are small so that
wrap-around and rounding happen. `CHECK_DEADLOCK FALSE` is set where the system
comes to rest when the bounds are used up; the fetch process has no such end, as
its clock goes on.

Each property of a passing run has a mutant: a changed definition (the operators
commented "A plausible bug" or "Mutant") with which TLC finds the property
violated.

## 4. Fairness

Weak fairness is assumed for steps of running goroutines and tickers (the
outbox publisher, recovery, handlers in progress, the export worker, scheduler
loops, monitor, handlers and senders, Kafka loops). For the start of a handler on
a queued message strong fairness is assumed: the broker gives every message to
some idle consumer, although consumers are busy again and again. Faults, broken
connections, deletion, commands and rebalances are never forced, and are
bounded. A deleted job has nothing to finish: `TasksSettle` and `JobExported` then claim
nothing more.

In the fetch process, weak fairness is assumed for the handler's steps, the clock,
the drain's poll and the closing of a process. The return of a consumer from its
loop has strong fairness: its select has two ready cases, the done context and
the next message, Go picks one at random, and so it cannot pick the message
for ever. Drain and stop requests, kills and changes of robots.txt are not forced.
`AuthService` and `JobApi` make only safety claims and have no fairness.

## 5. Proofs

The theorems hold for every value of the constants that satisfies the named
assumptions: sets of tasks, handlers, requests and connections of any size,
bounds that are naturals, the monotone activation function, messages of the
types that the API declares. `CodecAssumption` says of the libraries' conversions that
JSON text is written as it was read, and of `FloatBits` that the greatest number has one bit
more; `StoreAssumption` that strings have a finite collation and that ids name one thing;
`NilAssumption` that nil is none of the values a field may have. Where the property is not inductive, the invariant
that is proved says what else has to hold.

Pipeline (`PipelineProofs`):

- `TypeCorrect`: all variables of the pipeline keep their types, and a handler
  is idle exactly when it has no task.
- `ReferencesAreStored` (`StoredBeforeReferenced`): not inductive as it stands,
  since a handler writes back a copy. The invariant is
  `TypeOK /\ CopiesAreSound /\ StoredBeforeReferenced`: copies satisfy at the moment
  they will be written what rows satisfy.
- `FetchedNeverForgotten` (`FetchedIsCovered`): the former together with
  `FetchedIsCovered`; the fetch handler between save and publish and the message
  it holds are what covers a task through a crash.
- `FrontierAlwaysClosed` (`FrontierClosed`): needs `DepthsAgree`, that copies
  agree with the table on the depth, and that rows only disappear with the job.
- `PagelessTasksAreFailed` (`PagelessIsFailed`): for any number of fetch handlers with
  copies of any age. `KeysKept` adds that the row of everybody who will publish or
  requeue a parsing message has the key or is Failed as well; a handler that writes an
  older copy without key does so only to mark the task Failed.
- `ExportIsComplete` (`ExportIsFinal`): by `OneMessageEach`: as long as no call fails, no
  task is slow and the job is not deleted, each task has exactly what its status says, an
  outbox event, a crawl message or a handler while it is in progress
  (`OneCrawlMessage`, `RowFits`), a parsing message or a handler while it is Fetched
  (`OneParsingMessage`), and never two of them; so the export worker's query, which only
  looks at the statuses, is right, and nothing changes after it (`ExportFits`).
  It builds on the frontier invariant.
- `CrawlStaysTraced`: every task has a chain of links back to a seed, as long as its depth says
  (`CrawlIsTraced`, which no run repeats, as `OwnerSees` implies it). With the frontier invariant, as parsers take the
  depth of a new task from a copy. `ListStep` says that a step of a worker leaves the
  list of tasks and depths as it is (`SameList`) or adds the links of one page that
  are missing, one step deeper (`ListGrows`); deletion empties the list.
- `JobRefinement` (`OwnerSees`): the same lemmas map every step of a fetch or parser handler to `Expand`
  or a stutter, and those of the other components to the step of `JobLife` that is theirs.
  `ExportSound` is needed as well: while an export is under way the job is active, the
  results it has read are of listed URLs, and the CSV report it is about to write has
  what the JSON report has.

Scheduler, registry, Kafka client:

- `SingleLoopNeverOverlaps`, `SingleLoopOncePerActivation`: for one scheduler loop,
  by `SchedInv`: while the loop is between its steps its copy of NextRunAt is the
  database's, its clock is not before any run, and NextRunAt is behind no
  activation that was used.
- `SchedulerTypeCorrect` (`SchedTypeOK`): for any number of loops, with the bound
  on what a stale clock can compute.
- `RegisteredStreamAlwaysOpen`, `RegistryTypeCorrect`: by `RegInv`: the registered
  channel is open and its handler is attached and has not yet detached.
- `NoCommandTwice` (`CommandsAreNotDuplicated`): by `CommandsInv`: the queues of all
  places (pending commands, channels, senders, streams) hold distinct commands,
  have none in common and none that was not issued, so that a new one is new. A
  command only ever moves from the head of one queue to the end of another.
- `PendingOnlyOffline` (`PendingMeansOffline`, which no run repeats): until more commands
  were issued than a channel buffers, none is kept back while a stream is registered. With
  `ChannelsFit`, that no channel holds more commands than were issued, so that a registered
  channel has room.
- `NothingIsSkipped` (`NoMessageSkipped`), `KafkaTypeCorrect`: by `KafkaInv`: all offsets
  before a member's position have been through a handler, except the one in its hands.

Sessions (`AuthProofs`), by `AuthInv`:

- `RequestSound(r)` is what a request relies on between two of its statements: the role
  that it read is its user's or the role has changed since the request began, the rows
  it is about to update are sessions of its user, and after Login's first statement
  every session that came before the request is ended or among those rows.
- With it follow `AuthTypeCorrect`, `RolesTakenAwayStayAway` (`OutdatedRolesAreOld`) and
  `SingleSession` (`LoginEndsEarlierSessions`).
- `SessionRefinement` (`SessionsLive`): the first state maps to the first state of `SessionLife`,
  and each action to `OpenSession`, `EndSessions` or a stutter, with the rows that a
  transaction ends as the closed sessions.

Rate limiter and fetch process (`FetchProofs`):

- `LimiterKeepsRate` (`RateBound`, of the limiter alone): the bound is not inductive.
  `LimiterInvariant` says that debt and the tokens the bucket would have now never exceed
  its capacity: admission moves a request's units from one to the other, a tick moves
  units back or loses them at the capacity, and a forgotten bucket is full without
  harm only if it had been full anyway. This is the hypothesis `Steady` in
  `RateBound`: the time to live is at least the time to refill the bucket.
- `FetchKeepsRate` (`RateBound`, of the fetch process): every step of the process is a step
  of the limiter or leaves its variables alone.
- `NoMessageLost` (`EveryMessageHasOnePlace`), `FetchTypeCorrect`, `RetryAfterSuffices`
  (`WaitIsEnough`): by `FetchInv`, which adds that a consumer has a message exactly while it
  does not wait for one (`HandsOK`), that a message is in the queue, acknowledged or with one
  consumer whose channel is open (`OnePlace`), that nothing but versions of the current epoch is
  remembered of robots.txt (`CopiesOK`), and that the bucket of a worker whose wait is
  not over will have a token in time unless another one takes it (`WaitOK`).
- `RobotsAreObeyed` (`RobotsObeyed`), `DrainLeavesNothing` (`CleanExit`): action properties,
  from the same invariant.

API, what is checked and stored (`JobApiProofs`):

- `CallsAreChecked` (`EveryCallIsChecked`): lemmas say what each way to a handler has
  checked when it lets a call through (`ChainChecks`, `RoutesCheck`) and that the
  resource in the path decides (`PathDecides`); every action calls through one of them.
- `PreviewsAreBacked` (`PreviewIsBacked`).
- `TasksStayWithinReach` (`RoutedWithinReach`): `QueuesAreCandidates` says that
  `SelectCrawlQueue` chooses among the entries that are not excluded wherever the random
  number lands, also if the sum of the weights has wrapped around; the invariant adds that
  rows keep what routing decided.
- `ConfigsSurvive` (`ConfigSurvives`): one lemma for each pair of converters, from transforms
  up to the whole configuration, says that a message becomes a model and the model answers
  the message (`TransformModelled` ... `ExtractionModelled`, `CreatedIsStored`, `MessageOf`). The
  invariant `StoreSound` says that every row of the tables is on the only shard and
  is what `CreateJob` made of its submission, up to the columns that workers and exports
  write (`RowSound`); `TableStep` says what a step can do to the tables at all. The
  patterns that `CreateJob` normalises are a loop, here a recursive function over a sequence,
  typed with the library's theorem on such functions.

API, what its readers see (`JobApiReadProofs`), all on top of `StoreSound`:

- `PassesAreExact` (`PassIsExact`): a pass sees its table through a *view*, the rows
  there are now, their positions, those the filter wants and those deleted for good, the
  same for jobs and tasks. Every finite set of rows at different positions can be listed in
  order (`ListingExists`, over the size of the set), so a page is the beginning of the listing
  behind the cursor (`SeekSpec`, `JobsPage`, `TasksPage`). The invariant of an open pass (`PassSound`)
  says that what was listed and has not moved lies at or before the cursor, and what
  stayed and is still missing behind it. A step of anybody else changes the
  view only so that rows outside `moved` keep their place (`ViewStep`, `ViewUnderRows`), which
  keeps the invariant; a page moves the cursor to its last row (`PageTurned`).
- `ReadersTellTheSame` (`ReadersAgree`): a stored job that can be read is found by all readers,
  and what GetTask tells of it, by a join with the job's columns, is what GetJob and ListJobs tell. It needs no more than `StoreSound`, and that ids of tasks
  name one task, so that the lookup by id finds the row that the list shows (`TaskFound`).
- `AnalyticsAddUp` (`AnalyticsConsistent`): by `CountSound`: between the two statements the number
  of tasks of the job is the sum of the first counts and the tasks added since. A sum over a
  function is out of the prover's reach in general; the tasks of a job have at any
  moment at most two statuses and two depths in this model (they are worked off together, and links of
  links are not followed), so `TotalOfTwo` suffices.
- `AnswersAreMessages` (`ApiTypeOK`): by `StoreSound`, `PassSound`, `CountSound` and `PreviewsTyped`
  together, with lemmas that type each answer from the rows it is made of.

`StoreSound`, `PassSound` and `CountSound` were checked with TLC on the instances of `job_api` before they
were proved.

Only model-checked: liveness (`TasksSettle`, `JobExported`, `DueIsRun`,
`StreamSettles`, `EveryMessageHandled`, `DrainEnds`), which needs fairness and is
out of the prover's reach, and `ReportTellsResults`, whose loops over fields, transforms and
items are folds over sequences. Every other invariant and action property that a run
is expected to pass, and both refinements (`SessionLife`, `JobLife`), have a theorem.
That a site without robots.txt is not remembered is only in the proof of `RobotsAreObeyed`:
the history of the run has no such version.

## 6. Findings

- `parser_guard`: parser_worker.go calls its status check an idempotency guard
  that skips tasks that are already parsed. It is evaluated on a copy; two
  messages of one task handled at once both pass it, and a Parsed row is
  written again.
- `export_late_result`: the export query says that a job is exported again when
  results were updated after the last export. A result stamped after the tasks
  were read and before exported_at is in neither export.
- `kafka_retry`: kafka/client.go says a message with a retryable error is not
  committed and will be delivered again. The loop goes on with the next message,
  whose commit covers the failed one.

Observed while modelling; no document of the repository promises otherwise, so no
run claims a violation:

- a fetch handler that fails with an older copy of the row clears the page key, and
  the parsing message of the first handler is requeued for ever (`PagelessIsFailed` says
  that its task is Failed, so the job is still exported); a URL without a host keeps its job from being exported;
- two scheduler loops create overlapping runs;
- a command reported as delivered is lost with its connection; one that does not fit
  into the channel waits for the next connection although the stream is up
  (registry.go:192), and later ones overtake it;
- a message whose channel is lost is worked on twice at a time, and nobody notices that
  its Ack fails (rabbitmq/client.go:286);
- a process with a region's queue returns when its first consumer does, and the
  handler of the other is cut off (`CleanExit` claims one-queue processes only);
- a query without shard key fans out inside a transaction and fails as soon as
  there are two shards: `CreateJob` is always rolled back there, and the outbox
  publisher, the scheduler and the export worker fail at every poll;
- numbers that a float64 does not hold are rounded in JSONB and can make
  a stored job unreadable; a uint32 sum of weights that wraps to 0 panics;
- a limit of -1 panics in the list handlers;
- the table of roles has no entry for `DeleteJob`; the REST route checks the role
  itself.

## 7. What is not modelled

- Memory broker: a stand-in for development; it promises nothing across a restart
  and acknowledges nothing.
- Telemetry and logging observe; configuration and wiring give the constants
  their values.
- HTML sanitizer, the syntax of selectors, cron expressions, robots.txt and HTML: conversions
  by libraries whose outcome is a nondeterministic choice or a constant. The operations on
  text of `JobReport` (lower case, prices, hashes ...) are constants as well.
- CORS, error texts, the UI and deployment files.
- The silent loss of a message by RabbitMQ (no publisher confirms), clock skew
  between machines and time zones.
- Generated mocks and the boilerplate of generated protobuf code: of it the map names
  the structs and constants that `ApiMessages` declares, the names of methods and patterns of
  routes, the request functions of the gateway and the validation rules, and none of the
  accessors, descriptors and handlers around them.
- Code that nothing calls (`TryStartExport`, `SetTaskResult`, `ListByStatus` and other
  statements of the repositories).

## 8. Plan

Done: pipeline and sessions with their abstract specifications, scheduler, registry, Kafka
client, rate limiter, fetch process with drain, and the API server with its messages,
gateway, codec, store, routing and reports; each with proofs of the safety properties that
its runs check, except for the contents of reports.

Next: tasks of a job that are worked off one by one in `JobApi`, for which `AnalyticsAddUp`
needs sums over more than two values.
