# A formal model of logLogger

logLogger is a log platform: an ingestor puts logs on Kafka, a processor moves
them in batches to Elasticsearch and Redis, an analytics API reads them, and a
retention service deletes old daily indices. Tenants, keys, services and
policies are kept in PostgreSQL, and a load generator exercises the ingestor.
This directory holds TLA+ modules
translated from its Go code, TLC configurations that check them on small
instances, and TLAPS proofs of the properties that matter most.

    tlc -config proc_faults.cfg MCProcessor.tla     # one of the runs below
    tlapm ProcessorProofs.tla                       # one to three minutes per module

## 1. Inventory

| Component | State | Operations | What is hard | What makes it correct |
|---|---|---|---|---|
| Processor (`cmd/processor/batcher.go`) | `batch`, `msgChan`, locals of `ProcessBatch`, the context | fetcher goroutine, select loop, `ProcessBatch` | two goroutines; SIGTERM at any point; retries of calls that took effect; a batch given up while later offsets are committed | no offset is committed before its message is in both sinks or in the dead letter topic |
| Kafka client (`internal/kafka`) | reader position, the group's offsets | fetch, commit, publish, `Consumer.Start` | redelivery after a rebalance; offsets commit everything below them; errors of calls that took effect | at-least-once delivery |
| Elasticsearch writer (`internal/elastic/bulk.go`) | documents by id and daily index | `IndexBatch` | results per item; load shedding; document identity | only bad documents are refused for good; redelivery makes no second copy |
| Elasticsearch search (`internal/elastic/client.go`) | none | `SearchLogs` | pages are read while logs arrive; ties of timestamps | a reader of all pages misses no log that was there |
| Redis writer and queries (`internal/redis`) | counters, leaderboards, windows, recent errors | `RecordLog`, `RecordBatch`, queries | a pipeline is not a transaction; retries; expiry; names are trimmed when they are read only | counts cover indexed logs and stay mutually consistent |
| Retention (`internal/retention`, `cmd/retention`) | `isRunning`, the indices | `RunOnce`, `Start`, `RunRetention`, `DeleteIndicesBefore`, `DeleteIndexByName` | two processes delete the same indices; values read from the clock once; sweeps abort half way | nothing inside its window is deleted; expired indices go |
| Analytics API (`cmd/analytics`) | none | administrative deletes, reads | concurrent requests | the guards of the manager apply to each request |
| Ingestor (`cmd/ingestor`) | requests in progress, the batches of the writer | validate, choose a key, publish, drain | a 503 for a message that was stored; partition choice; shutdown with requests in their handlers | an accepted log is on the topic, and a graceful stop loses none |
| Metadata store (`internal/metadata/postgres.go`, `mock.go`) | tenants, keys, services, policies | CRUD | constraints are left to the schema; a repeated call; the mock as a stand-in | rows are unique and belong to a tenant; an invalid key stays invalid; the mock differs from the SQL in known cases only |
| Migrator (`internal/metadata/migrator.go`) | schema, version table | `Up`, `Down` | the version table is read once and without a lock; a script fails half way | the version table describes the schema; no version is skipped |
| Load generator (`cmd/loadgen`) | job channel, statistics | `Run`, `sendOne`, `Record` | worker pool, cancellation, deadline | every request is counted once; `Run` ends |
| logctl, config, metrics, generated docs | none | – | – | – |

The load generator and other clients meet the ingestor over HTTP, the ingestor
and the processor meet in the topic `app-logs`; the processor and the readers in
Elasticsearch and Redis; the processor, the retention service and the analytics
API in the daily indices. The migrator and the repositories meet in PostgreSQL,
to which no command connects yet: the packages are complete and tested, but
nothing under `cmd` uses them. The hazards of the code, each at
its line, are the list `hazards` of `PROJECT.json`.

## 2. Modules

| Module | Contents |
|---|---|
| `Delivery` | what the processor promises: a message is settled (handled, or lost where that is possible) before the offset moves past it |
| `Processor` | the processor with its consumer and its sinks |
| `MCProcessor` | message sets for TLC |
| `ProcessorProofs` | inductive invariants and theorems about `Processor` |
| `Retention` | the retention service, the administrative deletes, the clock and the writer of late logs |
| `MCRetention` | instance of `Retention` for TLC |
| `RetentionProofs` | inductive invariant and theorems about `Retention` |
| `RedisMetrics` | processors that record logs in Redis command by command, beside the query of the live metrics |
| `MCRedisMetrics` | instances of `RedisMetrics` for TLC |
| `RedisMetricsProofs` | inductive invariants and theorems about `RedisMetrics` |
| `LogMessage` | a log by classes of its fields; parsing, daily index, document id |
| `LoadGen` | the load generator: flags, payloads, workers, statistics |
| `Ingestor` | the ingestor, its server and the Kafka writer |
| `LogIndex` | the processor's effect on the daily indices, and the paged search |
| `Pipeline` | composes `LoadGen`, `Ingestor` and `LogIndex`, from a client to a search |
| `MCPipeline` | instances of `Pipeline` for TLC |
| `PipelineProofs` | inductive invariants and theorems about `Pipeline` and its components |
| `Migrator` | `Up` and `Down` of several processes |
| `Metadata` | the repositories on PostgreSQL, as operators from database to result and database |
| `MetadataMock` | the same operators for the mock |
| `ControlPlane` | composes `Migrator` with the repositories on one database |
| `MCControlPlane` | instance of `ControlPlane` for TLC |
| `ControlPlaneProofs` | inductive invariants and theorems about `ControlPlane` |
| `FiniteFacts` | lemmas about finite sets, powers of two and sorted lists |
| `SumFacts` | lemmas about the sum of a function over a finite set |

Definitions marked MUTATION are faulty variants that no behaviour uses: each
is put in the place of the definition after it to see that a property fails.

### 2.1 Processor

`Run` and its fetcher are two processes that share `msgChan` and `closed`.

* **Fetcher** (`Fetch`, `Send`, `FetcherStop`): `held` is the message between
  `FetchMessage` and the send. `Send` blocks when `msgChan` holds `BulkSize`
  messages. After a cancellation the fetcher may stop at either of its two
  selects, or go on: a select with two ready cases takes any.
* **Select loop** (`Recv`, `Tick`, `Flush`): any ready case. `Flush` is both
  the closed-channel case and the `ctx.Done()` case; both process what is in
  `batch` under a new context and return. What is still in `msgChan` is left.
* **ProcessBatch**: `pc` runs through `parse`, `index`, `items`, `record` and
  `commit`; `cursor` is the loop variable, `validIdx` is `validMsgIndices`,
  `safe` is `safeCommitMsgs`, and `accepted` the true entries of `ItemSuccess`.
  `Return` models what every call site does next: the batch is emptied whether
  there was an error or not (`batch = batch[:0]`).
* **Contexts**: `ctx` says which context the call has. That of `Run` is done
  when `cancelled`; `shutdownCtx` is done when `expired`. A call under a context
  that is done fails.
* **Faults** (`Faults`): `es`, `redis`, `dlq`, `commit` make calls of a service
  fail, after or before they took effect; `throttle` makes the cluster refuse
  items it could map; `cancel` is SIGTERM, `crash` a crash, `rebalance` a
  rebalance, after which the reader resumes at the committed offsets and the
  process keeps what it has in memory. `RecordFail` leaves any prefix of the
  pipeline executed, at the granularity of messages.
* **History**: `dropped` collects the messages the process gave up although
  they were not handled, `faults` counts crashes, stops, rebalances and Redis
  errors.

### 2.2 Retention

A `job` is an operation in progress: its kind, its argument, what it read from
the clock at its start (`cutoff`, `active`), and `todo`, the listed indices it
selected and has not yet deleted. The retention service is one actor (`RunOnce`,
`Stop`, `isRunning`), each request to the API another. `Delete` takes one
index; `DeleteNotFound` is the 404 that ends an operation when another one was
faster; `CallFails` any other error, possibly after the deletion took effect.
`Tick` moves the clock, `Write` is the processor creating an index for a late,
a redelivered or a premature log: the ingestor accepts any timestamp, so the
index of tomorrow may exist.
The clock is a day and an instant of that day, which is what
`idxDate.Before(cutoff)` tells apart.

### 2.3 RedisMetrics

`count` holds the strings and the scores of the two leaderboards, by key;
`recent` the lengths of the lists of recent errors. `RecordBatch` queues the
commands of its logs one log after the other (`Commands` is their order in the
source), so that what is left of a pipeline is told by a place: command `cmd[w]`
of log `nth[w]` of `batch[w]`. `Exec...` is Redis executing the command at that
place, and `Advance` goes on to the next. `Break` is an error of `pipe.Exec`:
the call is repeated as a whole, by go-redis or by the processor, or abandoned.
`Clock` expires keys. `reader` is a `GetLiveMetrics` in progress; `oldest` and
`reader.open` are history. The writer counts the name of a service as it is in
the log, the query reads the counter of the trimmed name (`TrimSpace`, a
constant): what two listed names have in common is read once, and what is
counted under a name with blanks around it is never read (`Unasked`).

### 2.4 Pipeline

`LoadGen`, `Ingestor` and `LogIndex` declare the variables and the steps of one
component each and have no next-state relation; `Pipeline` adds `call`, the
request each worker waits for, and joins them.

* **Load generator**: `config` is the result of `ParseFlags`, `jobs` the
  elements left in the channel of `Run`. A worker is in its `loop`, `ready`
  (waiting for the limiter), `sending` (in `sendOne`) or `done`. `Cancel` is the
  end of `runCtx`: SIGINT, or the timer, which `Run` does not start with `-n`.
  Each check of the context is a step of its own (`TakeJob`, `Abandon`, `Send`),
  so that the signal may come between any two.
* **Ingestor**: `client` is what the client knows, `handler` where `IngestLogs`
  is, `batch` the partitions of a message that waits in the kafka-go writer.
  `IngestLogs` is the handler up to `WriteMessages`: JSON, `validateLogPayload`,
  the level in upper case, the choice of the partition by `LeastBytes`. The
  writer then stores the message (`Produce`), stores it and misses the
  acknowledgement, so that it tries again or gives up (`ProduceUnacked`), or is
  refused (`ProduceRefused`). A client may give up at any time; the handler goes
  on (`GiveUp`, `PublishCancelled`). `Signal`, `Drained`, `DrainTimeout` and
  `CloseProducer` are `Server.Start` and the deferred `Close` of `main`.
* **Index**: `Consume`, `Shed` and `Drop` are what the processor makes of one
  message (the batches are the subject of `Processor`). `Consume`: parse, map,
  index by document id into the index of the log's own day, or dead letter.
  `Shed`: the cluster refuses the document with an item-level 429 or 503, and it
  is dead lettered. `Drop`: the message is given up, because its dead letter
  could not be published or a signal ended its batch, and a later commit passes
  over it. `Disturbed` of `Pipeline` makes the latter two faults; `shed` and
  `lost` record them. `Redeliver` moves a position back. `Ask` and `SearchLogs` are a reader that goes through the pages with
  `page=1, 2, ...` while documents are written; hits with one timestamp are in
  any order, from one request to the next. `reader.missed` is history.

Fields are taken by class, and a class exists for every check that tells two
values apart: a text of at most 1000 characters and more than 1000 bytes, a
service too long for a keyword, a level in lower case, and so on. `Text` is the
set of these classes; it is a constant, and the proofs use of it only that it
has those that the code writes itself.

### 2.5 Control plane

* **Migrator**: `table` is `schema_migrations`, `objects` the versions whose
  tables exist. `StartUp` and `StartDown` read the table once; `UpCommit` is the
  transaction of the next version, `UpConflict` its failure on the primary key
  when another process was faster, `UpFail` a failing statement, a crash, or a
  commit whose answer is lost. `DownCommit` deletes the version without looking
  whether it was there. `Version` is `LoadMigrationsFromDir`: a file that is
  neither `.up.sql` nor `.down.sql` makes a version that has no script.
* **Store**: a call of a repository is one SQL statement and one step. `pg`
  holds the rows of the four tables; a call does nothing while they do not
  exist (`Call`), and `Down` of the first migration drops them with their rows
  (`Schema`). `Validate` of models.go, the unique indices and `ON DELETE
  CASCADE` are in the operators of `Metadata`.
* **Mock**: `MetadataMock` has the same operators for the maps of mock.go.
  `MockAgrees` compares the two in every reachable database. The maps hold the
  caller's pointers, so that what the mock does depends on what a caller does
  with its structs. `stamped` tells a struct that a repository has filled in
  (`Create` sets the id and the times, a lookup returns the row itself) from one
  the caller has made: a change of the former is in the map before `Update` is
  called and stays when `Update` fails (`TenantChanged`, `PolicyChanged`), the
  latter replaces the row with its id and its times (`TenantPut`, `PolicyPut`).
  The header of the module states the rules a caller keeps; ids that are no
  UUID (`GivenId`) are among the values it passes.

## 3. Properties and runs

| Run | Instance | Checks |
|---|---|---|
| `proc_faults` | 1 partition of 3 messages, the first poison, the second unmappable; batches of 2; 2 faults of all kinds but `throttle` | `TypeOK`, `CommitAccounted`, `DualSinkOrder`, `OnlyBadDeadLettered`, `OverCountBound`, `MemoryBound`, `DeliverySpec`, `ShutdownTerminates` |
| `proc_group` | 2 partitions of 2 messages; failing sinks and up to 2 crashes, rebalances or Redis errors | `OffsetSafety`, `EventuallyCommitted` |
| `proc_offset_safety` | as `proc_faults` with 1 fault: a dead letter publish fails, or SIGTERM | finds `OffsetSafety` violated |
| `proc_throttle` | refused items | finds `OnlyBadDeadLettered` violated |
| `retention_sweeps` | service keeps 1 day; one request at a time, keeping 1 or 2 days; days 2 and 3 of two instants; 1 late index, 1 failed call | `TypeOK`, `WindowRespected`, `EventuallyExpired` |
| `retention_midnight` | no failing call | finds `TodayProtected` violated |
| `redis_counters` | 2 processors, 3 services, `" b"` among them; 2 calls, one of them perhaps with a batch of 2; 1 broken connection; a window of 1 step; lists capped at 1 | `TypeOK`, `CounterOrder`, `DriftBound`, `RecentBound`, `WindowExpires`, `LiveTotals` |
| `redis_atomic` | 1 processor, 1 log, 1 broken connection | finds `PipelinesAtomic` violated |
| `redis_window` | 1 processor, 2 errors, a window of 2 steps | finds `SlidingWindow` violated |
| `pipeline` | 2 workers with 2 requests and 2 requests of other clients; 2 partitions; 2 days; 5 sets of flags, 9 payloads; 1 fault of 8 kinds | `TypeOK`, `JobsAccounted`, `GeneratedAccepted`, `SuccessIsStored`, `GracefulStop`, `OnlyRefusedDeadLettered`, `OneDocument`, `PagingComplete`, `EventuallyFinished`, `AcceptedSearchable` |
| `pipeline_trace_order` | two logs with one trace id | finds `TracePartition` violated |
| `control_plane` | 2 processes, 2 directories, 2 `Down`s, 2 faults; 2 tenants, a blank and a proper value of every field | `TypeOK`, `VersionTableExact`, `AppliedPrefix`, `UpComplete`, `TenantIntegrity`, `MockAgrees`, `InvalidForGood` |

What they say:

* `CommitAccounted`: whatever fails, a message below a committed offset was
  handled, or was given up on one of two paths: an aborted batch, or a rejected
  item whose dead letter publish failed. `OffsetSafety` is the documented
  promise without that escape. It holds when dead letter publishes succeed and
  the process is not stopped; `proc_offset_safety` refutes it without these
  conditions, by a failed publish, or by SIGTERM when `dlq` is left out of its
  `Faults`.
* `DualSinkOrder`: Redis never counts what the index does not hold. (A document
  in the index is found by a search after the next refresh.)
* `OverCountBound`: each fault at most doubles the count of a message. It
  doubles because a batch may hold a message twice after a rebalance, and a
  retried pipeline counts both again.
* `OnlyBadDeadLettered`: without load shedding only messages that cannot be
  parsed or mapped are dead lettered. With it, good ones are.
* `MemoryBound`: the process holds at most two batches and one message.
* `DeliverySpec`: `Processor` implements `Delivery` under the mapping
  `handled` = in the dead letter topic, or indexed and counted; `lost` =
  `dropped`; losing is possible only with `dlq` or `cancel` among the faults.
* `EventuallyCommitted`, `ShutdownTerminates`: the topic is committed to its
  end if sinks recover; a stopped process ends even if they do not.
* `WindowRespected`: an index disappears only if an operation in progress may
  delete it *at that moment*, by today's date and not by the one it read.
* `EventuallyExpired`: an index beyond the window of the service is deleted in
  the end, although each abort leaves the rest of a sweep undone.
* `PipelinesAtomic`, `CounterOrder`, `DriftBound`: the documents call a pipeline
  atomic, and it is not: `PipelinesAtomic` is violated. What is left are the
  other two: the counters of a service are ordered as their commands are, and
  the total and the leaderboard differ by at most one log per pipeline in
  progress and per broken connection.
* `RecentBound`, `WindowExpires`: by the same number the list of recent errors
  exceeds its cap, and window counters lack a time to live.
* `LiveTotals`: a total read before the services is at most their sum, up to
  the pipelines that were open when it was read and the logs of services whose
  names have blanks around them: these are in the total, and the query asks for
  the trimmed name.
* `JobsAccounted`: an element of the job channel is unsent, with a worker, or
  recorded once; an interrupted run may lose one per worker, and no other run
  loses any. `EventuallyFinished`: the run ends, even if the ingestor does not
  answer.
* `GeneratedAccepted`, `OnlyRefusedDeadLettered`: the flags of the generator,
  the ingestor and the processor are three judges of a log, and each accepts
  what the one before lets through. Only the cluster refuses more: by the mapping
  of the index, or item by item to shed load.
* `SuccessIsStored`, `GracefulStop`: a 202 is true whatever gets lost, and an
  ingestor that exits without an error has left nothing behind, although
  `ListenAndServe` returns while handlers still run.
* `OneDocument`: the repetitions of writer, client and consumer meet in one
  document, because the id and the index depend on the log alone.
* `PagingComplete`: documents that arrive push a page back, so that a reader
  sees some twice, but it misses none except among ties of a timestamp.
* `AcceptedSearchable`: what was accepted is in the index in the end, or in the
  dead letter topic because the cluster refused it, or is among the messages
  that the processor gave up (`lost`) when a dead letter could not be published
  or it was told to stop: findings 1 and 2, end to end.
* `VersionTableExact`, `AppliedPrefix`, `UpComplete`: transactions and the
  primary key of the version table make up for the missing lock, except that an
  `Up` and a `Down` that overlap can leave a gap (`mixed`).
* `TenantIntegrity`, `InvalidForGood`: no sequence of calls breaks a constraint
  or makes a revoked or expired key valid again.
* `MockAgrees`: for calls that keep to the rules of `MetadataMock`, the cases in
  which the mock differs from the SQL: missing constraints, ids that are no
  UUID, structs that replace a row or were changed before an `Update` that
  fails. Both directions are checked: each named case is a difference and
  there is no other. Lookups, and values too long for their columns, are not
  compared.

**Bounds.** Three messages with batches of two give a full batch and a partial
one, a batch whose positions differ from those of the bulk response, and a
commit above messages that were lost. Two partitions give commits that move one
offset and not the other. Two faults give a fault during the recovery from
another. Two days with two instants give a midnight, a sweep that starts
after midnight of its day, and expired, kept, active and future indices at
once. In `RedisMetrics` two calls of two processors, one of which may be
repeated after a break at any command, are enough to interleave any two
pipelines; the two processors are interchangeable and no liveness is checked,
so that symmetry is sound. In the pipeline two requests of one client meet at
every pair of points, and two documents on pages of one or two give every
boundary of a page. `Bound` in `MCPipeline` keeps other clients, the clock and
the reader idle in behaviours in which the generator runs, so that two groups of
behaviours are explored instead of their product: other clients add nothing to
what a worker sees, which is the answer to its own request. `Bound` in
`MCControlPlane` calls the repositories only in behaviours in which one process
migrates the directory `Plain` and nothing fails, because a statement of a
repository depends on the migrator only by whether the tables exist. The proofs
about `ControlPlane` do not have this bound. `CHECK_DEADLOCK` is off because an idle system stops: the processor waits
in `FetchMessage` at the end of the log, the model's clock ends on `LastDay`.

**Fairness.** Both goroutines of the processor are scheduled (weak fairness of
`Fetcher`, and of `Run` outside its retry loops) and the timer of
`shutdownCtx` fires (`Expire`). That a repeated request is answered in the end
(`SinksRecover`), and that a crashed process is started again, are assumptions
of `EventuallyCommitted` alone; `ShutdownTerminates` does without them. The
ticker is part of `Run`: with no other step possible it must fire. In
`Retention` the ticker of the service keeps firing (`RunOnce`) and the calls of
the service return; a failing call is a return too. Nothing is assumed of
requests or of the processor. In `Pipeline`, `System` is what is scheduled or
has a timer; requests, signals and faults are bounded, so that weak fairness of
the whole is enough. A signal with `-n` is not part of it, while the duration of
a run without `-n` is: the flags `-n 0 -duration 0` give a run that only a
signal ends, and are excluded by this. In `ControlPlane` nothing is assumed, and nothing is said of what
happens in the end: no command calls `Up`, so that nobody is known to call it
again after an error.

## 4. Findings

Each is a violation run with the line of the documentation it contradicts, in
`PROJECT.json`.

1. Run empties the batch after an error of `ProcessBatch` and reads on, and the
   next commit covers what it dropped: a poison message whose dead letter publish
   fails takes its batch with it, and so does SIGTERM during `ProcessBatch`, as
   the batch that is flushed under the fresh context has higher offsets. A
   rejected item whose publish fails is skipped without an error
   (`proc_offset_safety`).
2. A bulk item refused with 429 is dead lettered, not retried
   (`proc_throttle`).
3. `DeleteIndexByName` checks the date before it deletes: across midnight it
   deletes the active index (`retention_midnight`).
4. The pipelines of the writer are called atomic and are not transactions: a
   broken connection leaves a log in the total and not in the leaderboard
   (`redis_atomic`).
5. Each error renews the time to live of the last-5-minutes counter, which is
   therefore not a sliding window: it counts all errors since the last quiet
   period (`redis_window`).
6. Logs with one trace id go to different partitions: the ingestor uses the
   trace id as the key, and the `LeastBytes` balancer ignores keys
   (`pipeline_trace_order`).

## 5. Proofs

`tlapm` proves everything below for every value of the constants that meets
the named assumptions. Every type invariant and every safety invariant and
action property that a passing run checks is a theorem, `OffsetSafety` and
`OnlyBadDeadLettered` under the condition on `Faults` that their runs meet too.

| Module | Assumptions | What they say |
|---|---|---|
| `Processor` | `SizesAssumption`, `MessagesAssumption` | sizes are numbers, a batch is not empty, bad messages are messages |
| `Retention` | `DaysAssumption`, `ClockAssumption`, `ActorAssumption` | day counts are positive (config.go and the handler reject others), the service is not a request |
| `RedisMetrics` | `LogAssumption`, `TrimAssumption`, `FiniteAssumption`, `BoundsAssumption` | logs have a service and a level, a batch has logs (`RecordBatch` returns early otherwise), a trimmed name is blank or a name; finitely many processors and services; a window and a list are not empty |
| `LogMessage` | `TextAssumption`, `StampAssumption` | the texts that the code itself writes are texts; times are positive, days have a length |
| `LoadGen` | `FlagAssumption` | finitely many workers; flags have the types of `ParseFlags` |
| `Ingestor` | `IngestorAssumption` | a topic has at least one and finitely many partitions |
| `LogIndex`, `Pipeline` | `SearchAssumption`, `ClientAssumption` | the default page, the largest page and the result window are positive; a size that is asked for may be any integer; clients send logs |
| `Migrator`, `ControlPlane` | `MigrationsAssumption`, `StoreAssumption` | a directory is a finite set of files with numbers for versions; times and day counts are numbers |

An invariant is proved like this: it is strengthened to one that is inductive
(named below; TLC was asked first on the instances of section 3), a lemma says
what each action does to the part that matters, and the theorem puts the
initial state, the step and the consequence together. Facts that need an
induction (over the members of a finite set, over numbers) are in `FiniteFacts`
and `SumFacts`, where the induction is a smallest counterexample: a minimal set,
or a least number, outside a given set of sets or numbers. `SumFacts` shows in
this way that the sum of `Functions`, a fold that takes the elements in an
order nobody knows, is monotone, zero for zeros, and changes with one value as
it should.

### 5.1 Processor

| Theorem | Statement |
|---|---|
| `TypeCorrect` | `Spec => []TypeOK` |
| `CommitsAccounted` | `Spec => []CommitAccounted` |
| `CountedIsIndexed` | `Spec => []DualSinkOrder` |
| `OffsetsSafe` | `Spec => []OffsetSafety` if `dlq` and `cancel` are not among `Faults` |
| `ImplementsDelivery` | `Spec => DeliverySpec` |
| `MemoryBounded` | `Spec => []MemoryBound` |
| `DeadLettersAreBad` | `Spec => []OnlyBadDeadLettered` if `throttle` is not among `Faults` |
| `OverCountBounded` | `Spec => []OverCountBound` |

`CommitAccounted` is not inductive: that a commit is safe depends on where the
messages below it are. The invariant `Inv` strengthens it in three parts.

* `PhaseInv` says, for each value of `pc`, what the locals of `ProcessBatch`
  hold: before the cursor every message of the batch is in `validIdx` or safe
  and dead lettered; after the item loop everything accepted is indexed and
  everything else is dead lettered or dropped; at `commit` every message of
  the batch is handled or dropped.
* `OrderInv` follows the messages from the reader to the commit. `Ahead(p, n)`
  says that offset `n` is reached with nothing skipped: every message of `p`
  below it is settled, or in the batch, the channel or the fetcher in front of
  it. It holds of the reader's position, and of each message in `held`,
  `msgChan` and `batch` relative to those in front of it (`HeldOrder`,
  `ChanOrder`, `BatchOrder`), and a rebalance, which moves the reader back to
  the committed offset, keeps it.
* `DualSinkOrder` ties `redis` to `es`.

At a commit `BatchOrder` and the `commit` part of `PhaseInv` give
`CommitAccounted`. `CalmInv` (no context is done, nothing is dropped) is
inductive when `dlq` and `cancel` are excluded, and turns `CommitAccounted`
into `OffsetSafety`. The refinement shows that each step is a `Settle`, a
`Commit` or a stutter of `Delivery`, with the invariant for the guard of
`Commit`.

`MemoryBound` needs `RoomInv`: the loop goes back to its select only with room
in the batch, so that `Recv` never makes a batch too long.
`OnlyBadDeadLettered` needs `VerdictInv`: while the items of a response are
gone through, `accepted` is exactly what can be mapped, because nothing touches
the batch or `validIdx` after `IndexOk`.

`OverCountBound` needs the most. `Due(m)` is how often message `m` is counted
in the end if no further fault happens, at most: its count in Redis, plus the
copies in the batch until they are recorded, in the channel and with the fetcher,
plus one if the reader has yet to come to its offset, plus one that a stop or a
process that is not running owes. `DueInv` says `Due(m) <= 2 ^ faults`. A step
without a fault moves a copy from one place to the next. A fault may deliver
every message once more, or count the copies in the batch without taking them
out; either way `Due` at most doubles. `IndexInv` (a position of the batch is in
`validIdx` at most once) and `StopCause` (only a stop closes the channel) are
needed on the way.

### 5.2 Retention

| Theorem | Statement |
|---|---|
| `TypeCorrect` | `Spec => []TypeOK` |
| `WindowKept` | `Spec => WindowRespected` |

`JobInv` says that the cutoff of a job is not later than today allows and that
each index in `todo` was selected by that cutoff and is not the index that was
active at the start. The clock only goes forward, so the clock's steps keep it
(`ClockStep`); other jobs and the processor do not touch the job
(`JobUpdate`). `TodoPermitted` and `OnlyTodoDeleted` then give
`WindowRespected`.

### 5.3 Control plane

| Theorem | Statement |
|---|---|
| `TypeCorrect` | `Spec => []TypeOK` |
| `VersionsExact` | `Spec => []VersionTableExact` |
| `PrefixApplied` | `Spec => []AppliedPrefix` |
| `UpCompletes` | `Spec => []UpComplete` |
| `IntegrityKept` | `Spec => []TenantIntegrity` |
| `InvalidStays` | `Spec => InvalidForGood` |
| `MockAgreesAlways` | `Spec => []MockAgrees` |

`MigratorInv` strengthens what is checked in two parts. `UpInv` says of an `Up`
in progress whose view is `fresh` that every version is recorded or still in
its `todo`: `UpComplete` is this when `todo` is empty. `PrefixInv` says, unless
an `Up` and a `Down` have met, that the recorded versions are the lowest ones,
that an `Up` in progress still has to apply all that is missing, in an order
without gaps, and that what a `Down` undoes is not below any recorded version:
what `UpCommit` adds depends on what `StartUp` read before others went on.
The store needs no strengthening beyond the types: each
call keeps `TenantIntegrity`, and a `Down` that removes the tables empties them
(`MigrationKeeps`). `InvalidForGood` follows from the unique hash, from the
clock, and from `KeysAfter`: a key in the table after a step was there before, is
new under its hash, or is revoked. `MockAgrees` is a statement about the two sets of
operators on any database that satisfies the types and `TenantIntegrity`, whose
ids are UUIDs and whose rows are stamped: one lemma per operation, which shows
that the results or the rows differ in each of the named cases, and agree in
every other one because a row is the only one with its id.

### 5.4 Pipeline

| Theorem | Statement |
|---|---|
| `TypeCorrect` | `Spec => []TypeOK` |
| `EveryJobCounted` | `Spec => []JobsAccounted` |
| `GeneratorAccepted` | `Spec => []GeneratedAccepted` |
| `AcceptedStored` | `Spec => []SuccessIsStored` |
| `StopsGracefully` | `Spec => []GracefulStop` |
| `ValidationsAgree` | `Spec => []OnlyRefusedDeadLettered` |
| `LogIsOneDocument` | `Spec => []OneDocument` |
| `PagesComplete` | `Spec => []PagingComplete` |

A step of the composition is taken apart once (`Moves`) into what it does to the
generator, to the ingestor and its clients, and to the index; each invariant is
proved from the part it is about.

* `LifeInv` follows a log: what is in a handler, in the batch of the writer or
  on the topic has passed the checks before it, so that `ParseLogMessage`
  accepts it, whether it is consumed, shed or dropped (`ValidationsAgree`).
* `OwnInv`: the request of a worker, while it is on the wire, is a valid log
  (`GeneratedValid`, from `Validate` and `SelectLevel`).
* `HeardInv` names the requests behind `stats.success`: they are on the topic,
  their clients have a 202, and no worker waits for one any more. It is the last
  part that makes a success count once.
* The sum of `JobsAccounted` counts the workers in each state; a step moves one
  worker, and the counts change by at most one.
* `StopInv`: the states of the server exclude handlers and messages in the
  batch in the order of `Start` and the deferred `Close`.
* `DocsInv`: the index of a document is the one of its timestamp, and its
  timestamp is part of its id. Two documents with one id are therefore in one
  index, where `Index` replaces the first by the second.
* `ReadInv`: a missed document that shares its timestamp with no other has at
  least `Offset(page, size)` newer ones. `SortedList` and `SortedListIsWhole`
  of `FiniteFacts` say what is on a page of hits sorted with arbitrary ties, and
  documents are never removed while a reader reads.

### 5.5 RedisMetrics

| Theorem | Statement |
|---|---|
| `TypeCorrect` | `Spec => []TypeOK` |
| `CountersOrdered` | `Spec => []CounterOrder` |
| `DriftBounded` | `Spec => []DriftBound` |
| `RecentBounded` | `Spec => []RecentBound` |
| `WindowsExpire` | `Spec => []WindowExpires` |
| `LiveTotalsCover` | `Spec => []LiveTotals` |

`At(S, P)` is the set of the writers that wait for one of the commands number
`P` of a log of a service in `S`, that is, of those between two commands of one
log. `AtExec` says how its size changes when a command is executed, `AtBreak`
when a connection breaks, and `ExecCounts` which counter the command raises.
Each invariant is an inequality between two counters that `At` completes:

* `CountInv`: what was counted in the earlier counter and not yet in the later
  one is at least the number of writers in between. This is `CounterOrder` with
  the writers in between on the smaller side, so that executing the later command
  keeps it, and a broken connection, which only takes writers out, does too.
* `DriftInv` is the converse: the total is at most the leaderboard, plus the
  writers between the two, plus the broken connections. A break takes at most
  one writer out of `At` and raises `breaks`.
* `RecentInv`: the same between `LPUSH` and `LTRIM`.
* `WindowInv`: there is a set of at most `breaks` services such that every other
  counter without a time to live has a writer at its `EXPIRE`. An injection from
  services to their writers gives the bound (`WindowCount`).
* `LiveInv`: what the query has read, and what it has still to read or will
  never ask for (`Due`), make up for the total it has read. It holds at `ListServices` because of `CountInv`
  and was true at `ReadTotal` because of `DriftInv`; others only raise the
  counters that are still to be read. The part of `Due` that is never asked for
  is `Unasked`, the counters of the names that trimming changes.

### 5.6 Only model-checked

Liveness (`EventuallyCommitted`, `ShutdownTerminates`, `EventuallyExpired`,
`EventuallyFinished`, `AcceptedSearchable`): fairness and ENABLED are beyond the
prover. The properties of the violation runs
are false without further assumptions; of these, `OffsetSafety` and
`OnlyBadDeadLettered` are proved under the assumption whose absence the run
shows, and `PipelinesAtomic`, `SlidingWindow`, `TodayProtected` and
`TracePartition` are refuted only. No module uses a RECURSIVE operator: what the code computes in a loop is
an action per iteration or a fold.

## 6. What the models leave out

**Processor and sinks.** One processor is the only member of its group. In
`Processor` messages are distinct documents; identity and daily indices are the
subject of `LogIndex`, where a message is consumed in one step. `MemoryBound` is about
the process; the queue inside the reader of kafka-go comes on top. A message is
counted in Redis in one step in `Processor`; `RedisMetrics` has the single
commands, for one tenant and for service names whose keys are distinct (those of
a service named `total` are not), and without the sets of IP addresses.
Request-level errors of the bulk API are not told apart into transient and
permanent ones. Times of backoff, tickers and timeouts are nondeterministic. In
`Retention` all clocks agree and never go back.

**Pipeline.** The filters of a search, and pages beyond the result window, at
which the reader stops with an error; indices that retention deletes between two pages. A message
that the broker acknowledged stays: the writer asks for one acknowledgement
(`RequireOne`), and what a change of leaders after it can lose is not modelled.
The join of the fields by `|` in `DeterministicID` and its hash are taken to be
injective. The message limit of the ingestor counts
bytes of the trimmed message, although `docs/03-api-spec.md:110` speaks of
characters; the model has the bytes. The service that according to
`docs/03-api-spec.md:109` must exist in PostgreSQL is not looked up by the code.
Latencies, percentiles and the progress line of the load generator, whose rate
is computed from an end time that is not set yet.

**Control plane.** Names other than slugs, descriptions, and the values of the
times of creation, update and last use. Ids of rows are given by the store;
values fit their columns (a text longer than its `VARCHAR` is an error of
PostgreSQL only). A caller of the mock keeps to the rules of the header of
`MetadataMock`: it changes a struct that the mock holds only to pass it to
`Update`, and not its id or tenant. The results of lookups are not compared; one
with an id that is no UUID is "not found" in the mock and an error of
PostgreSQL. A `Down` that overlaps with an `Up` can leave a gap below a recorded
version (`StartDown` takes the highest version that it read): no document forbids
it, and the next `Up` that succeeds closes it. A directory is fixed: a
lower version that is added later is not covered. An update of a tenant replaces its row, so that the later of
two wins and an empty status makes a suspended tenant active; `IsValid` of a key
does not look at its tenant. No document says otherwise, so that no property
does.

**Not modelled.** `Consumer.Start`, `ProcessMessage` and `IndexLog`, the
single-message path, which nothing calls. `logctl` (a sequential client without
state), configuration (the ranges it enforces are the assumptions on the
constants), the Prometheus registry (counters that nothing reads back), and the
generated API documentation.

## 7. Plan

1. Done: `Delivery`, `Processor`, `Retention` with their proofs;
   `RedisMetrics`; `LoadGen`, `Ingestor`, `LogIndex` and `Pipeline`; `Migrator`,
   `Metadata`, `MetadataMock` and `ControlPlane` with their proofs.
2. Done: a theorem for every safety property of a passing run, in
   `ProcessorProofs`, `RetentionProofs`, `RedisMetricsProofs`, `PipelineProofs`
   and `ControlPlaneProofs`.
3. Open: that `Processor`, seen from the daily indices, implements `Consume`,
   `Shed`, `Drop` and `Redeliver` of `LogIndex`, which stand for it in `Pipeline`.
   `Consume` and `Redeliver` alone would not do: `proc_offset_safety` and
   `proc_throttle` are behaviours they do not have. The mapping needs a step of
   `LogIndex` per message where a batch takes one for all, and offsets where
   `LogIndex` has a position per partition; the two meet only in this text now.
   `TodayProtected` under the assumption that no request is in progress at
   midnight.
