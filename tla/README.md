# T2C Data Ingest in TLA+

T2C Data Ingest runs data-transfer jobs (PySpark scripts and plain Python) from a web API. A
FastAPI process writes what users ask for into PostgreSQL; worker replicas poll the database, run
the jobs as subprocesses and advance everything that depends on their results; scheduler replicas
fire the recurring ones. No broker is involved: **the tables are the queues**, and all coordination
is done with row locks, one advisory lock, leases and commits at READ COMMITTED. The modules here
state what that coordination promises, check it on small instances with TLC, and prove its safety
for every instance with TLAPS.

## 1. Inventory

Paths are under `src/backend/src/t2c_ingest/` unless they start with `src/`.

| Component | State | Operations | Modules |
|---|---|---|---|
| Execution lifecycle (`services/execution_service.py`, `src/backend/scripts/run_worker.py`) | `executions`: status, attempt, lease, cancel_requested; each worker's place in its loop | enqueue, cancel, claim, heartbeat, finish, retry, reap | `Executions`, `RunContract` |
| Orchestration lock (`run_worker.py`, `core/db.py`) | a PostgreSQL advisory lock, the connection pool of each worker | try, unlock, commit in between, recycle | `OrchestrationLock` |
| Pipelines (`features/pipelines/`) | graphs of steps, runs, the status of each step of a run | save a graph, run, restart from a step, tick | `Pipelines` |
| Backfill (`features/backfill/`) | `backfill_runs` and what they started | create, roll up | `Backfill` |
| Scheduler (`src/backend/scripts/run_scheduler.py`, `features/schedules/`) | schedules, `schedule_runs`, next_run_at | select, fire, skip, advance; requests on the rows | `Scheduler` |
| Alerts (`features/alerts/`) | channels, notifications, memory of the monitors | emit, dispatch, resend, test, monitor | `Alerts` |
| Ingestion control (`features/ingestion_control/`, `src/spark/jobs/`) | control rows: status, watermark, destinations; source, staging, target and lake tables | resolve, read, write, advance, write back, reset | `Ingestion`, `Registry` |
| Data quality and events (`features/data_quality/`, `features/integration/`) | `dq_results`, summaries, outbox keys | grade, announce, detect incidents | `Quality`, `Events` |
| Integration outbox (`features/integration/outbox.py`) | rows with attempts, backoff, idempotency keys | enqueue, publish, dead-letter, retry | `Outbox`, `Delivery` |
| Data Lake catalog (`features/data_lake/`) | catalog tables and columns | scan, replace, announce schemas | `LakeCatalog`, `Events` |
| Library, runtime and lake queues (`features/cluster_libraries/`, `features/runtime/`) | five tables of long jobs; manifest, builds, the image of the containers | queue, run, end, activate, apply | `WorkQueues`, `Runtime` |
| Job code workspace (`features/jobs/*workspace*`, `code_service.py`, `archive_service.py`) | files, backups, archives | provision, save, rename, remove, archive | `JobCode` |
| Jobs API (`features/jobs/router.py`, `features/tags/`) | `job_definitions`, tags and their links | what starts a job, edit, soft delete; tag | `JobUse`, `Tags`, `JobCode` |
| Connections, destinations, variables | rows that name each other; encrypted columns; the environment of a run | CRUD, test, rotate, resolve | `Registry`, `RunConfig`, `Secrets` |
| Observability, dashboard | none of their own | queries over executions and controls | `Observability` |
| Retention, authentication, audit, frontend, schema | rows that age, append-only rows, screens | | not modelled (section 7) |

**Interactions.** The API, the scheduler, pipelines, backfills and retries all end in
`create_job_execution`, an insert into `executions`. A worker's loop (`main`) is: heartbeat, claim
one execution, resolve what it needs (`RunConfig`), run it to its end, grade what it loaded
(`Quality`), write back the control row (`Ingestion`), then *orchestrate*: try the advisory lock and,
with it, reap expired leases, advance pipelines, roll up backfills, dispatch alerts, publish the
outbox, serve one of the long queues and look for overdue schedules. Pipelines and backfills learn of
results by polling the status of the executions they started.

**What is hard.** Reads and writes that are in different transactions (cancel, reaper, requests that
write the columns they changed, the deletion of a job or a tag); a worker that dies, or is merely
slow, while it holds a lease; session locks under a connection pool; a graph that is replaced while
a run of it goes on; status vocabularies that differ between components; commits around work that no
transaction covers (pip, Docker, files, deliveries); several tables written one after the other with a
watermark at the end; everything that must eventually happen although the process that should do it
may be busy for hours. `PROJECT.json` lists each hazard at its line, with the properties that catch it.

**What makes each component correct** is said in section 3, property by property.

## 2. Modules

One action is one transaction, or one step of a process between two transactions. Where a handler
reads in one transaction and writes in another, or reads and later writes with nothing that locks the
row, it is two actions, and a request carries what it read. Exceptions are named where they are made:
the read and the write of a request are one action where another request of the bounds cannot touch the row
in between, or where the write does not depend on what was read. "History" variables are not in the code;
their comments say so.

### Executions

| Code | Actions |
|---|---|
| `create_job_execution`, `enqueue_job_execution` | `EnqueueRun` (`CreateExecution`) |
| `cancel_execution` | `CancelRead`, `CancelCommit` |
| `_claim_next` | `ClaimLock` (SELECT ... FOR UPDATE SKIP LOCKED), `ClaimCommit`, `NothingQueued` |
| `_run_one` up to the subprocess | `PrepareFails` (the early returns), `Prepared` |
| `_run_subprocess`, `_touch_lease` | `ProcessExits`, `Heartbeat`, `HeartbeatTimeout`, `HeartbeatCancel` |
| the end of `_run_one`, `_maybe_retry` | `Finish`, `AfterRun` |
| `_reap_stale_executions` | `ReapSelect`, `ReapFail`, `ReapRetry` |
| the clock, the processes | `LeaseExpires`, `Crash`, `Restart` |

`lease` keeps of a timestamp only whether it is NULL, in the future or past. One job stands for all of
them, and its `is_active` is `jobActive`. `SlowWorker` is the assumption about time: a worker in it may
let its lease run out while it is alive (it resolves connections for longer than the TTL, its machine
stalls, its lease writes fail and are swallowed); any other worker is timely. `RunContract` is the
abstract specification: what a client of the table may rely on.

### OrchestrationLock

A worker has at most two sessions open at a time, so its pool has at most two connections, taken first
in, first out. What matters is *which* connection a session gets: an advisory lock belongs to the
connection. `check_schedule_overdue` commits the session that took the lock, so its connection goes back
to the pool and the unlock runs on the other one. The model keeps the order of the idle connections, the
connection of the lock session and how often each connection has taken the lock (advisory locks nest).

### Pipelines and Backfill

`save_graph` deletes the steps of a pipeline and inserts new ones, so a step is identified by the save it comes
from, `<<v, k>>`. A request reads the pipeline before it writes (`ReadPipeline`, `StartRun`), and a graph may be
saved in between; a restart may name any step that was ever saved (`Restarts`). `Advance(seen)` is one tick, a
single transaction: finished executions are reflected onto steps, steps are released or skipped until nothing
changes (`Release`), and the run gets its status. `Backfill` adds backfills of jobs, of pipelines, and their
`RollUp`. A step's execution is here only active or ended: its life is that of `Executions`.

### Scheduler and Alerts

A fire is one transaction that holds the schedule's row (`Select`, then the outcome: fired, skipped by the
overlap guard, failed, or rolled back because the slot is recorded). The advance of `next_run_at` is part of it,
except after a fire that raised: then a second session reads the row, unlocked, and commits what it computed
later, and another replica may fire the row in between. A request writes the columns whose value it changed since it read them. A cron expression stands as the distance of its
slots. `used` says that a primary key was given out: a deleted schedule takes its recorded slots with it, and
its id does not come back (`Dropped`). In `Alerts`, `Emit` queues a notification for each channel in the
caller's transaction, which may be rolled back; a dispatch collects, delivers one by one and commits once:
`batch` holds the outcomes it has not committed.

### Ingestion

The two controlled jobs, step by step: read past the watermark, write staging and target and the Data Lake copy,
then the control row; `WriteBack` is what the worker does at the end. `controlled_mysql_to_targets` reads once
and caches; `postgres_to_mysql` queries its source again at every action, so rows may arrive in between, and
takes its watermark from the first read. An upsert is two steps: the INSERT ... SELECT from the staging table
(`Upsert`), then the table is dropped or emptied on its own (`ClearStaging`). An execution has the control its job
or its arguments link it to (`Primary`), whatever the selection it loads: the worker writes the watermark of the
last summary its job printed on *that* control, and the write-back may itself fail and be swallowed
(`WriteBackFails`). A job process may die at any step, and a reset sets any value. Rows are known by the instant of
their incremental column; whole seconds matter since one conversion drops the fraction.

### Quality, Events, LakeCatalog

`Quality` is `_evaluate_data_quality` (one result row per printed summary line, alerts, events and the
summary, in a transaction that a failing `emit` rolls back up to that point) and the incidents of
every tick. `Events` has the grades and the idempotency key of each kind of event. `LakeCatalog` is a scan:
list, read the footers while the bucket changes, replace the catalog, announce.

### Outbox

`publish_pending` selects a batch, then for each row commits `processing`, delivers, and commits the
result; each commit is an action, and an administrator may come in between. What it compares the attempts with
(`limit`) is read before the delivery. `ReadBackFails` is the path
where the row, expired by that commit, cannot be read for the audit: it is inside the same `try`, so what
was delivered is recorded as a failure. `Delivery` is the abstract specification: what becomes of an event.

### WorkQueues and Runtime

`WorkQueues` has the five queues that the orchestrating worker serves one job at a time, in the order of
the loop, with the commit before and after the work. `Runtime` opens one of them up: the manifest, builds,
the activation of an image, and a validation of kind *apply*, which retags the image, recreates each
container (which may not be inspected, removed or run) and then imports the libraries on every host. An activation
reads its build, deprecates the others that are active and committed, and commits: three actions, and two
activations may leave two active builds or none. An apply reads a build that is active, any of them, and tags it
later. `WorkQueues` needs less of it and has the activation in two actions.

### JobCode, JobUse, Tags

`JobCode` is the folder of a job: provisioning, saves, renames and removals with their backups, and the
archive and removal at deletion. `JobUse` is everything that starts a job (a person, a schedule, a step, a
backfill, a retry) beside its edits and its deletion. `Tags` has the put of a job's tags in its four steps
(find, create what is missing, compare, write the difference) beside the CRUD of tags.

### Registry, RunConfig, Secrets

`Registry` has the rows of connections, destinations, controls and links, which name each other with no
foreign key. A request about a destination reads the row and the connection and validates (`AskDest`), and commits
the columns it changes later (`CommitDest`): `waiting` holds those in between. The other requests of the registry
write what they were given whatever the row says by then, and are one action. `RunConfig` extends it with the resolution of a run in four steps, with requests in between:
connections named in arguments, the destination, the control, the linked destinations of the controls it
selects. The database variables are per side; a process has one set of `AWS_*` variables, whose keys are of the last
store injected and whose endpoint is of the first. `Secrets` has what is kept under the master key: a password column, the shared blob of a
connection's other secrets, and variables that are encrypted or plain as they are secret or not.

### Observability

The executions and controls with what the panels read of them, and each panel as an operator: the lists and
numbers of the day, late loads, SLA, stalled loads, anomalies, failures by connection, the report by load,
the histories, the dashboard. A list is cut at its limit (`Cuts`): any of the rows that are no older than what is
left out, since the order is by the instant of the start only.

`MC*` modules are the instances for TLC. `MCServices`, `MCLoads` and `MCConfig` put components side by side
that have no state in common; a behaviour is one of one of them, and `part` says which. `MCScheduledLoads` has three
of them, for safety only, with bounds that are too large for liveness.

## 3. Runs

| Run | Module | Checks | Distinct states |
|---|---|---|---|
| `exec_stalls` | `MCExecutions` | `TypeOK`, `ClaimedOnce`, `RetriedTwiceAtMost`, `EndedStaysEnded`, `RunsEnd` | 80 286 |
| `exec_timely` | `MCExecutions` | `RetryAfterEnd`, `ImplementsContract` | 344 940 |
| `pipe_runs` | `MCPipelines` | `BackfillsOK`, `BackfillEndsWithItsWork`, `StepsFollowDependencies`, `RestartsOnlyDownstream`, `BackfillsEnd`, `EndsAreFinal`, `RunsEnd` | 34 904 |
| `services` | `MCServices` | `OneOrchestrator`, `OrchestrationGoesOn`; `DueIsSettled`; `RepeatedOnlyByAccident`, `AlertsSettle` | 92 157 |
| `scheduled_loads` | `MCScheduledLoads` | `FiresOncePerSlot`, `OverlapBounded`; `NoRowLeftBehind`, `MarkedOnlyByAccident`; `ApplyVouches` | 3 169 662 |
| `loads` | `MCLoads` | `TypesOK`; `ResultsAreAnnounced`, `ShownIsAnnounced`; `DeliveredOnce`, `AttemptsRunOut`, `ImplementsDelivery`, `EventsEnd`; `CodeIsKept`; `LibraryTellsTheTruth`, `QueuesDrain` | 207 896 |
| `config` | `MCConfig` | `MisfitsOnlyByConnection`, `TargetIsWhole`, `StoredIsLastGiven`, `DeletedIsIdle`, `TagsAreThoseGiven`, `PanelsAgree` | 704 832 |
| `exec_cancel_race`, `exec_retry_lost` | `MCExecutions` | `CancelledNeverRuns`, `FailedIsRetried` are violated | |
| `lock_leaked` | `MCOrchestrationLock` | `SkipsForAnother` is violated | |
| `backfill_partial` | `MCBackfill` | `RunsAreRolledUp` is violated | |
| `schema_events` | `LakeCatalog` | `SchemaChangesAnnounced` is violated | |

**What the passing runs show.**

- *Executions*: a row is worked on by one worker; what ended is never queued or
  running again, and however long a worker stalls an execution is retried twice at most (once by its worker, once by a
  reaper: it does happen). With no worker stalling past its lease, a retry comes after the end
  of what it retries, once, with the next attempt number, and no attempt is beyond `retry_count + 1`;
  every run ends; a cancellation ends a run that hangs. The refinement of `RunContract` sums it up.
- *Lock*: one worker at a time does the shared work, and it goes on being done.
- *Pipelines, backfills*: a job is launched only after its upstreams ended as its dependencies ask, whatever
  is saved, disabled or restarted meanwhile; what ended stays ended and ends with no job running; a restart
  touches nothing upstream; a backfill ends once its work has, and says what that work came to.
- *Scheduler*: one execution per planned instant; the overlap that the unlocked count allows is one per
  further replica and no more; every due slot is settled, unless a request, or the second session of a fire that
  raised, wrote over a row that had moved.
- *Alerts*: a target gets a notification twice only after a lost commit or a resend; every committed
  notification is sent or dead in the end.
- *Loads*: no watermark passes a row that is not in its destinations, with failed writes, kills, dead processes,
  orphans and resets, unless the control was given the watermark of another table or reset to a later instant; a
  control is left marked as running only by accidents that are listed, a failed write-back among them; results, grades, alerts and
  events of a load agree; whatever schema the catalog shows was announced.
- *Queues, image*: a library is shown installed only as its last action left it, and the queues drain; an
  apply that ends as a success left every container on the image it names, unless another build was active when it
  was asked for or any was activated since, another worker tagged another build while this one relied on the tag, or a
  container could not be inspected.
- *Code*: what was in a workspace is never gone without a copy, unless requests overlapped on the folder.
- *What runs are given*: a destination fits its connection, unless the connection was retyped or deleted; the
  address, the credentials and the type of a declared database are of one connection, and so are the bucket of a
  declared store and, when the run is given no other store, its keys and endpoint; what is read of a secret or a variable is what was given last; a deleted job stays idle; tags
  are those given; panels that answer the same question agree, a list leaves out what its number counts only when it is full and then
  the oldest, and no failure is missing from all of them.

Several of these have an *unless*, kept in a history variable (`tangled`, `excused`, `torn`, `crossed`,
`moved`, `copies`, `astray`, `stores`, `since`, `late`): mostly the overlap of two requests that the code does not
prevent. The property says that nothing else breaks the promise; the exceptions are what the code would have to lock.

**Bounds and why they are enough.**

- *Two workers, replicas, requests*: every race of the code is between two processes, or a process and the
  API; the proofs lift the invariants they cover to any number.
- *Executions*: `exec_stalls` has one run, `RetryCount = 1` and three rows, so that the reaper and a stalled
  worker can both retry one execution, and one crash; execution 1 may be cancelled and its subprocess may
  hang. `exec_timely` has two runs and room for both retries, both cancellable.
- *Lock*: `MaxNested = 2` lets a connection take the lock again while it has it, which is what decides
  whether an unlock frees it. One of the two workers has a subprocess that hangs.
- *Pipelines*: behaviours of two sizes: one run of a branching graph over success, failure and any result, a
  chain listed against its order or a fork, with two saves, and two runs of a single step beside the
  executions of a backfill of jobs. Runs of one tick do not read each other.
- *Scheduler*: instants 0 to 3, every instant a slot, so that a replica whose fire raised can commit late over
  a row that moved twice; four fires, one fault, `max_active_runs` 1. `scheduled_loads` has two schedules of one job
  (one given, one that a request may create) and two requests; `services`, for liveness, three schedules and one
  request.
- *Alerts*: two notifications, two attempts, a batch of one and a window of one (three batches in the code),
  so that a notification in backoff can block the other; one request, one lost commit.
- *Ingestion*: two tables of the first job, one with two instants and one that stays empty, and one of the second
  with two, so that an execution can load another control than its own; two loads, one fault, one execution at a
  time (theorems lift this: section 5). `NoRowLeftBehind` is over rows that commit in the order of their instants: an
  extraction by watermark cannot promise more.
- *Quality*: five sequences of summary lines (good, wrong, partial, unreadable, none), two executions.
- *Catalog*: two tables, two schemas beside "none" and "unreadable", three writes, three scans.
- *Outbox*: two events in one batch, two attempts, two requests (the second can read what the first left by
  its race: that is how a delivered event becomes dead with attempts left), one interruption.
- *Code*: two clients, two jobs whose names share a slug, four calls. *Queues*: one library, three rows,
  one stop.
- *Registry, RunConfig*: three connections (one unused), two destinations, two controls, two names, two
  requests, four ways a job declares what it uses, one run; every store has keys and an endpoint. The
  partial unique index on destination names is left out.
- *Secrets*: two administrators, a password and two secrets, two values, two keys, two variables of one name
  (global and of the environment), three edits.
- *JobUse*: two requests at a time, four in all, a job, a schedule, a pipeline, two open executions.
  *Runtime*: a library, two builds, two validations, two containers, two activations, which can overlap. *Tags*: two
  clients, three rows, two slugs, three requests. *Observability*: a control that copies within a connection, a job
  of it and one of none, days of two instants, two days, two runs, one success for a mean (three in the code), lists
  of one row (200 in the code, 500 for anomalies), so that they are full.

The bounds are constants (`Max...`) in the guards of the actions that count. `services`, `loads`, `scheduled_loads`,
`config` and `schema_events` turn deadlock checking off: once the bounded instants, loads or requests are used up
nothing is left to do.

**Symmetry** is used in `exec_timely` (workers) and `scheduled_loads` (replicas): nothing tells one from another, and
neither checks liveness.

**Fairness.**

- `Executions`: a live worker's loop goes on, a dead worker is restarted (restart policy of compose and
  Kubernetes), time passes, the heartbeat sees a cancel request (it is a loop around the poll of the
  subprocess), and a subprocess ends unless its execution is in `Endless`. Some worker's reaper is *strongly*
  fair: the attempt at the lock may fail again and again, and `OrchestrationGoesOn` is the property of the
  lock that justifies it. Nothing in the code bounds a job without a timeout: `RunsEnd` is claimed for
  executions that are not in `Endless` or whose cancellation was accepted.
- `OrchestrationLock`: every worker goes on; one in `Hung` need not end its job but keeps committing
  heartbeats. `Recycle` is strongly fair: a connection that is taken again and again is eventually older than
  `pool_recycle` (1800 s). Without it (`Recycle_Never`) the property fails: a connection that kept the lock
  in the pool of a worker whose subprocess hangs keeps everybody out.
- `Pipelines`, `Backfill`: the tick recurs (the lock's property) and jobs that were launched end (`RunsEnd` of
  `Executions`; a hung job is cancelled by its user).
- `Scheduler`: every replica polls for ever. `Alerts`: dispatches recur, a resend that was read is committed,
  a backoff passes; targets may refuse for ever.
- `Outbox`: the publisher goes on, a request that was read is committed, backoffs pass. Deliveries need not
  succeed, and administrators need not ask for anything.
- `WorkQueues`: the orchestrating worker takes jobs and ends what it took.

**Mutants.** Every property of every passing run has a plausible bug, written next to the definition it
changes (`Claimable_Unlocked`: no FOR UPDATE SKIP LOCKED; `LatestRead_Requeried`: the watermark of a second
query; `Merged_Replaced`: a blob that becomes what the request gave; `AfterFailure_Ignored`: an apply whose
failure is not looked at; ...). With it the run finds the property violated.

## 4. What the runs found

Five statements of the code's comments and docs do not hold, each with a run that shows it:

1. **`exec_cancel_race`** (`execution_service.py:154`): "cancel immediately so the worker never claims it".
   The row is read without a lock and written by primary key. A worker that claims it in between runs the job
   while the row says `cancelled`; nothing stops the process, and its end overwrites the status.
   `RunContract` therefore promises less for cancelled rows than for others.
2. **`exec_retry_lost`** (`execution_service.py:175`): failures before the subprocess starts return from
   `_run_one` past the call of `_maybe_retry`.
3. **`lock_leaked`** (`run_worker.py:734`): "a worker that can't get the lock simply skips (another worker is
   orchestrating)". After `check_schedule_overdue` commits the lock session, the unlock runs on another
   connection; the lock stays with an idle connection and workers skip with nobody orchestrating. Exclusion
   still holds (proved), and recycling gives the lock back.
4. **`backfill_partial`** (`backfill/service.py:150`): the tick looks for a run status `partial`; the runner
   writes `partial_success`. Such a backfill stays running.
5. **`schema_events`** (`integration/service.py:198`): "Emite SCHEMA_DISCOVERED/COLUMNS_DISCOVERED (e
   SCHEMA_CHANGED se o hash mudou)". The three share one idempotency key and the outbox inserts nothing over
   a key that is there: only the first is delivered.

Seven more do not hold either. They are definitions next to the properties that do hold of the same code; TLC finds
each violated by a configuration of its component that checks it alone.

- **`EventsAreHandled`** of `Outbox` (`models/outbox.py:15`): "delivers it with retry + exponential backoff and marks
  it sent/dead". The status `processing` is committed before the delivery and the publisher's query takes `pending`
  and `failed` rows only: the row of a publisher that stops in between waits for an administrator. `EventsEnd` says
  that this, and a request that races with the last attempt, are the only ways to lose a row.
- **`MovesOn`** of `Scheduler` (`run_scheduler.py:133`): "it fires the due slot once and moves on to the next future
  slot". After a fire that raised, a second session reads the row without a lock and commits what it computed. A
  replica that fires the row in between moves it further; the late commit moves it back to a slot that is recorded,
  and every later poll is rolled back by the unique index without an advance (`:124`).
- **`WatermarkIsProcessed`** of `Ingestion` (`run_worker.py:258`): "`watermark_atual` = maior valor incremental
  processado". A job that is linked to one control and loads another, or a group, leaves the watermark of the last
  table it printed on the control it is linked to; rows of that control before it are never read.
- **`DestinationsAreComplete`** of `Registry` (`destinations/router.py:146`): "específico exige a tabela". Two
  overlapping updates are each validated against the row they read and write the columns they change: one clears the
  table of a template, the other makes it no template.
- **`TargetHasItsKeys`** of `RunConfig` (`worker_support.py:306`): the docstring has "credenciais da conexão" of the
  destination injected. A run whose arguments name one store and whose target is another has the keys of the last
  beside the endpoint of the first.
- **`ActiveIsApplied`** of `Runtime` (`runtime/service.py:231`): "Recreates the worker containers with the active
  image". A worker that read the active build before an activation may tag it after the next apply tagged the new one;
  that apply makes its containers of the old image and ends in success.
- **`OneIsActive`** of `Runtime` (`runtime/service.py:252`): the repository's README speaks of one active image. Of
  two activations that overlap neither deprecates the other's build; the apply takes either.

Also visible in the models:

- A worker that is alive but slower than its lease is reaped, and its job is started again beside the first:
  give `exec_timely` a `SlowWorker` and `RetryAfterEnd` fails in a few steps. `StallsRetryTwice` says how far it goes.
- A run whose cancellation was accepted, and whose process fails before the next heartbeat, ends `failed` and is
  retried: `enqueue_retry` does not look at `cancel_requested`.
- A restart from a step id of a replaced graph keeps no step, marks all as reused and ends as a success with
  nothing run (`pipelines/runner.py:54`).
- A step and a backfill take the result of the first execution, whatever its retry comes to.

## 5. Proofs

`tlapm` checks them from nothing; no step is taken on trust. Every safety invariant and every action property
that a passing run checks is a theorem, for any number of workers, rows, jobs, graphs, requests, faults and whatever
else the constants bound. The only hypotheses beyond the types of the
constants are `SlowWorker = {}`, for two theorems about retries, and `[]Apart`, for the rows of a load (no two executions use
one staging table at a time). The runs `exec_timely` and `scheduled_loads` check the same properties under them: the latter
has one execution at a time, which is more than `Apart` asks.

| Module | Named assumptions | What they say |
|---|---|---|
| `ExecutionsProofs` | `WorkersAssumption`, `BoundsAssumption` | slow workers are workers; bounds are numbers |
| `OrchestrationLockProofs` | `OrchestrationAssumption` | hung workers are workers; a lock can be taken once |
| `PipelinesProofs` | `GraphsAssumption`, `RunsAssumption`, `BackfillsAssumption` | a graph that can be saved passed `save_graph`'s checks; finitely many jobs |
| `SchedulerProofs` | `SchedulerAssumption` | a period is not zero; finitely many replicas |
| `AlertsProofs` | `AlertsAssumption` | finitely many channels |
| `OutboxProofs` | `OutboxAssumption` | an attempt and a row to a batch at least |
| `LoadsProofs` | `IngestionAssumption`, `QualityAssumption`, `QueuesAssumption`, `CallsAssumption` | finitely many controls, each of one of the two jobs; a report is a sequence |
| `ConfigProofs` | `SetUpAssumption`, `JobsAssumption`, `SecretsAssumption`, `UseAssumption`, `SeenAssumption` | what is in the tables at the start is something the requests could have left; a job's declarations name rows |

An invariant is seldom inductive as a run checks it. What follows says, theorem by theorem, what had to be added.

**`ExecutionsProofs`.** Nothing is assumed about time in the first five.

- `TypeCorrect`: `TypeOK` is inductive because it ties the parts together: rows exist up to `last`, a worker holds a
  row exactly where its `pc` says so, the rows a reaper selected exist, and a worker that finishes has an outcome.
- `ClaimedOnceHolds`: `ClaimedOnce` speaks of workers that *work*; two workers could be about to commit a claim of the
  same row. `ClaimInv` adds what the row lock gives: a worker that holds the lock has a queued row, no row is owned by
  two (locking counts as owning), and the rows a reaper selected are not queued any more.
- `Recoverable` (`RunningIsRecoverable`: a running row has a lease, so the reaper's query reaches it): what `RunsEnd`
  rests on when a worker dies. Inductive with `TypeOK`: the only step that makes a row running also writes its lease,
  and the steps that clear a lease also end the row.
- `EndsAreForGood`: a reaper writes `failed` over rows it selected earlier, a worker its outcome and a cancel its
  status over whatever the row says by then. None of them undoes an end: the only step to `running` is a claim, and
  `ClaimInv` has its row queued from the lock to the commit, whatever a cancel that read it earlier writes.
- `StallsRetryTwice`: what may still be retried is counted together with what was. `OwnerMay` and `ReaperMay` say who
  may yet retry an execution: the worker that has or will claim it, a reaper that has or will select it. `Budget`: who
  may and the retries there are come to two at most; a step that retries spends one of the two. That nobody gets one
  back needs `ClaimInv` (what was claimed is not queued again) and `ReaperInv`: one reaper at a time has rows selected,
  and the row it is to retry has ended and is no longer among them, so that it is not retried twice by it.
- `RetriesAreOrderly`, under `SlowWorker = {}`: `Orderly` adds to `ClaimInv` that one process at a time is to *decide*
  on an execution (the worker that ends it, or the reaper that selected it: `DecidesAlone`), that nobody retried
  what is still to be decided (`Undecided`), that a lease is live while somebody works, so that the reaper
  selects what nobody works on (`UnderwayInv`), and what is true of the retries there are (`RetriesInv`).
- `KeepsContract`, under `SlowWorker = {}`: from `Orderly`, each step of the table, the workers and the reaper is a
  step of `RunContract` or a stutter. The case that needs the invariant is a reaper's failure of a row and its retry.

**`OrchestrationLockProofs`.** `OrchestrationExclusive`, from `TypeOK /\ LockInv`: a worker in the critical section could
have lost its lock. `LockInv` says that all takes of the lock are on one connection of one worker, that a worker doing
the shared work still has it on the connection of its session, or has just returned it to the end of its pool, and which
connections are idle at each step.

**`PipelinesProofs`**

- `ReleasedInOrder`, `RestartsStayDownstream`: `RunsInv` says of each run that it is `Tidy`: what is pending has no
  execution, what has an active one is running; what was launched or skipped was so as its dependencies ask; in a
  restarted run, what may run is in every set of steps that has the restart step and is closed under dependencies
  (`Within`); the run ended only once all its steps had. `Release` and `Downstream` are recursive functions: the
  proofs count their passes (`Passes`, `Reaches`) and show by induction that each pass keeps a run tidy, that the passes
  end, and that what is reached is in every such set.
- `PipelinesEndForGood` (`EndsAreFinal`): a tick leaves alone what ended, and ends a run only when nothing is active.
- `BackfillsRunPipelines`: a step of the composition is a step of `Pipelines` or invisible there, so the theorems above
  hold of it. `BackfillsEndWithTheirWork` adds `Rolled`: a backfill that is over agrees with executions that
  stay as they ended, which is what makes it stable.

**`SchedulerProofs`**

- `OncePerSlot`: `SlotsRecorded`: an execution of a slot has its `schedule_runs` row as long as the schedule is there,
  and the schedule's primary key was used. The second part is needed for deletions: they remove the recorded slots,
  and only because a key is never given out again can no slot of the old schedule be started by a new one.
- `OverlapIsBounded`: `RoomForEach` counts what is active together with the replicas that have counted and not started:
  `Planned + Starting <= MaxActiveRuns + replicas - 1`. A replica that counts finds room for itself, whatever the others
  are about to do.

**`AlertsProofs`.** `AlertsAreSentOnce`: `Spare` gives every notification an account: what was received, plus the delivery
it is still owed (`Owed`: queued, or in the batch and not sent), plus the one a failed resend will reopen (`Reopens`), is
at most one more than what was excused. `HiddenInv` says that a notification flushed and not committed is in no batch.

**`OutboxProofs`**

- `Types` and `DeliversOnce` are inductive as they stand (the second with `TypeOK`).
- `AttemptsAreBounded`: what a request writes was computed from an earlier state, so `AttemptsInv` says what is still
  true of it: it gives no event fewer attempts than it has nor more than `Attempts` ahead, and an undelivered event it
  gives more to had none left, so that the publisher cannot be working on it (`Granted`). `PublisherInv` says that the
  rows of a batch still have attempts left, and that the limit it compares with was read from the row: nobody grants
  more to an event that is being delivered for the first time.
- `KeepsThePromise`: under `EventState` and `AttemptsLeft` each step is a step of `Delivery` or a stutter: a recorded
  failure is a failed attempt of an undelivered event and invisible for a delivered one; the commit of a request asks
  again for those of its rows that are undelivered and do not stay dead, and renews the attempts of those it granted more.

**`LoadsProofs`**

- `MarksAreSettled`: `MarksInv`: a control said to be loading is had by an execution, whose worker is to write the end
  back or whose job is at it; a running mark was not left by an end. Loads may overlap, also on one control. A
  write-back that fails, and a process that dies by itself, are accidents that `left` names.
- `RowsArrive`: `RowsInv`: not only the watermark but every instant a process has *read*, printed in a summary or is
  about to write is `Reached`, that is, stands for rows that are all in the destinations; and between the read and the
  watermark the rows that are missing are in the batch or in the staging table. The staging table of a control has
  one name, so two executions that used it at once would take each other's rows: `Apart` says that none do, from the
  recreation of the table until it is cleared (`Staged`). Any number of loads may otherwise run, also of one control:
  they read, write the Data Lake copy, report and write back while another is at its staging table; write-backs come in
  any order and resets at any time. All of it is about the controls that are not `astray`: reset to a later instant, or
  written by a job that loaded another control last. What an execution carries of its own control is kept apart from
  what its last summary is about (`about`).
- `RowsComeFromSource`: without `Apart`: no table holds a row its source has not, and no watermark is later than
  the last instant a row may have, unless its control is `astray` (`SourcesInv`).
- `QualityIsAnnounced`: `GradeInv` adds that what has a result or an event was evaluated. The evaluation is a loop over
  printed lines; `Accounted` is its loop invariant (what was stored for the lines so far and what
  was announced agree), proved by induction on the number of the line.
- `CatalogIsAnnounced`: `CatalogInv`: every event of a schema is of the one kind that comes first under its key.
- `LibrariesAreTrue`, `ImagesAreBuilt`: `LibrariesInv`, `ImageInv`: the queues only grow, the row the worker runs is
  running, and what is active, being activated or tagged was built with success.
- `GradesTypeCorrect`, `CatalogTypeCorrect`, `CodeTypeCorrect`: the types, from the invariants of the same parts.
- `LoadsAreTyped` (`TypesOK` of `MCLoads`): every step of the composition is a step of one part and leaves the others
  alone (`EachPartSteps`), so a behaviour of the whole is a behaviour of each part (`EachPartBehaves`), and what is
  proved of the parts, the outbox's `Types` included, holds in it.
- `CodeStays`: `CodeInv`: while no copy was missed, requests under way are on different folders (`Alone`) and what each
  is about to overwrite or remove was copied before (`AllPrepared`).

**`ConfigProofs`**

- `DestinationsFit`: `RegistryInv`: what a request is about to commit still fits (`RequestFits`), whatever others
  commit in between: the type of a destination is no column of an update, so two updates cannot mix a type and a
  connection. A connection that was never used is named by nothing (`Known`) and moved nobody.
- `TargetsAreWhole`: `ConfigInv` adds to it that the target a run has so far is that of the connection it declared, or
  that connection was moved (`Whole`), at each of the four steps, with requests in between; and that keys and endpoint
  are of stores the run was given (`OfStores`), so that they are the target's when there is one store.
- `SecretsLast`: `SecretsInv`: the columns hold what was given, under whatever key; a blob under no key is empty, and a
  variable's value is under a key if and only if the variable is secret (`PasswordKept`, `BlobKept`, `VarsKept`).
- `DeletedJobsAreIdle`: `UseInv` adds what a request has seen (`SawRight`), which its commit relies on.
- `TagsStay`: `TagsInv`: a put that has compared has seen every link of its job (`AsksFit`), two puts of a job know of each
  other (`PutsClash`), and a link is to a tag that is there.
- `AppliesVouch`: `RuntimeInv`: no number of active builds is assumed. An apply since whose request nothing was
  activated is on its way (`OnItsWay`): its build is the active one and the one it took; as long as no other worker
  tags another build the tag names it, and what it has recreated runs it or is gone.
- `PanelsTellOneStory`: `SeenInv` (executions began before now) and, of the panels' operators, that the last run is the
  greatest id and the days are intervals in order (`LastRunIs`, `DaysInOrder`). `LastRunIs` and the like rest on the
  existence of a least number (`Least`), proved from the well-foundedness of `<`. A list is any cut at any limit:
  equality with a number is claimed of a list that is not full, and inclusion of the others.

## 6. Only model-checked

- Liveness: fairness and ENABLED are out of the prover's reach. That is `RunsEnd`, `BackfillsEnd`,
  `OrchestrationGoesOn`, `DueIsSettled`, `AlertsSettle`, `EventsEnd`, `QueuesDrain` and the `RunsEnd` of `Pipelines`.
- The violated properties of section 4 are what the code does not keep: there is nothing to prove.

## 7. Not modelled

- *The subprocess after its worker died* has a session of its own and may still write while the retry runs. In
  `Executions` it dies with its worker; `Ingestion` has the orphan, whose load goes on without a write-back.
- *A server that kills the lock connection while its worker goes on*: the worker would orchestrate without the lock.
- *The reads of a tick*: `_advance_one` reads steps and dependencies in several statements; a graph saved between
  two of them is not modelled, nor a failing `emit` that rolls the tick back.
- *Two loads that use one staging table at a time*, as the code allows when `max_active_runs` is 0: the actions of
  `Ingestion` allow it, but no run has two executions at once, and `RowsArrive` is for loads that are `Apart`.
- *Retention*: rows of great age, in batches; with it every module would have to be about ages. It sets the
  `execution_id` of a step to NULL, which a pipeline that waits for months would feel.
- *Authentication, permissions, audit*: checks of a request against static tables, and append-only rows.
- *The frontend*, *migrations*, *seeds*: screens over the API; constraints that matter are in the modules.
- Formatting and transport: SQL addresses, Spark options, the text of alerts, masking, previews, browsing of buckets
  and schemas, queries of the lake, the search of jobs. Sub-folders of a workspace and the detection of secrets.
- The cache of the dashboard, validations of kind *distributed*.
- Smaller simplifications, that no property rests on: the check and the insert of a deduplicated alert are one step
  (`Alerts.Duplicate`), a table of the lake has one file to take its schema from (`LakeCatalog.Inferred`), and libraries
  are installed in one environment, where `pip --user` has one for each replica (`WorkQueues.Effect`).
- `enqueue_pipeline_execution` has no caller.

## 8. Plan

What is left, in order of worth:

1. Compositions: `Pipelines` and `Backfill` over the retries of `Executions`, where a step keeps the result of an execution
   whose retry succeeds; `Ingestion` with two loads that use one staging table at a time.
2. Retention, with the steps that lose their execution.
