# A formal model of LingxingSync

LingxingSync is one Go process (kept alive by Supervisor) that copies data of the
Lingxing ERP into MySQL: configured endpoints are fetched page by page on a
schedule, formal reports are created upstream, polled, downloaded and imported,
daily facts are derived from both, and a small HTTP server shows status and
accepts commands.  This directory holds TLA+ modules for the parts whose
correctness depends on interleaving, failure and order, configurations that
model-check them with TLC, and proofs of their main properties for TLAPS.
Paths in this file are relative to the root of the repository.

## 1. Inventory

| Part | State it keeps | Operations | What is hard |
|---|---|---|---|
| **Endpoint workers** `internal/worker/worker.go` | per worker: trigger and cancel channel (capacity 1), last status; per run: row id, context, helper goroutine | `Run`, `TriggerSync`, `Cancel`, `doSync` and its unit loops, `persistFatalTask` | cancel ids shared by idle select and helpers of several runs, panics, stop in mid-run, failed final `UPDATE`, partial results |
| **Sync task rows** `internal/db/tasks.go` | `sync_tasks` | `InsertTask`, `UpdateTask`, `CancelTask`, `RecoverStaleRunningTasks`, queries, deletion of old rows | three writers of one row; rows left by a crash |
| **Scheduler** `internal/worker/scheduler.go` | cron entries, report gates | trigger on cron, stale sweep every 5 minutes, report jobs, `Rebuild` on reload, `Stop` | overlapping firings, reload in the middle of a job |
| **Formal report runner** `internal/reportexport/export.go`, **audit rows** `internal/db/report_tasks.go` | `ls_report_export_tasks` with a unique `active_scope_key`; raw report tables; upstream report tasks | `EnsureReport`, `Run`, `Resume`, `CreateReportTask`, `ClaimReportCreation`, `MarkReport*`, `SaveReport*` | find / insert / claim are separate statements of several processes; a create call whose answer is lost; late progress writes; an owner that dies |
| **Token holder, API client** `internal/api/token.go`, `client.go` | cached token, expiry, in-flight channel, shared error | `Get`, `ForceRefresh`, `refreshAndWait`, one resend after a token error | waiters read shared fields after they were woken |
| **Background job guards** `internal/server/handlers_rebuild.go`, `handlers_report_run.go`, `scheduler.go` | rebuild snapshot, report busy flag, per-scope gate | POST rebuild, POST report run, goroutine ends, cron firing | check and set in different critical sections; early returns; panics |
| **Process life cycle** `main.go` | up, stopping | start, signal, shutdown with a deadline, restart | what an interrupted run leaves behind |
| **Rate limiters** `internal/worker/limiter.go`, `reportexport/export.go` | limiter of each path, bucket of each quota group, cooldown of each seller | `Wait`, `Get`, `UpdateOrCreate`, `WaitSeller`, `CooldownSeller` | two buckets taken in order; rates and mode change while callers wait; a cooldown learned by one call while another waits |
| **Page fetch, ad partitions, inventory snapshots** `worker.go`, `worker/retry.go`, `db/upsert.go`, `db/fba_inventory_snapshot.go` | offset, pages, attempts, the buffered rows of a partition; raw tables; the snapshot of a day | paging loop, `retryDecision`, `UpsertRows`, `ReplaceAdPartition`, details of known orders, `CaptureFBAInventorySnapshots` | rows that come and go between pages; replacing with a partial result; rows an earlier fetch left |
| **Configuration store, hot reload** `internal/config/store.go`, `config.go`, `server/handlers_config.go`, `scheduler.go`, `registry.go` | the YAML file, its copy in memory, `saveMu`; cron entries, endpoints of the workers, limiters | 13 handlers that edit, reload, `SaveIfCurrent`, `ClassifyChange`, `Rebuild`, `ApplyHotReload` | concurrent saves, four steps of a save, a reload that fails half way, a death, an edit by hand |
| **Listing daily facts** `internal/listingdaily`, `internal/rebuild`, `main.go` | `listing_daily_metrics`: a value, a source and a verified mark for each column; `listing_daily_reconciliations`: an audit for each report and date; `publishMu` | `projectDailyBatch` (end of a sync), `RunListingDaily` (rebuild), `projectFormalReport` (report), `persistBatch` | batches published in any order; raw rows read before the mutex; calls that share a report; lost answers of commits |
| **Retention** `internal/db/tasks.go` | old rows | delete in batches up to a cap | the cap |
| **Dataset API** `internal/datasetapi` | none on the server: the project holds a cursor and a copy | snapshot, changes, CSV export; keyset readers and readers of line items | rows that move to the end of the order while pages are turned; a row is visible later than its stamp |
| **HTTP server, migrations, catalog and parsers, web pages** | – | input, output and tables | – |

How they interact: the scheduler and the handlers put triggers and cancel ids into
the workers' channels; a worker calls the API client (which calls the token
holder and waits for limiters), writes its own task row, and projects what it
fetched into the daily tables; the scheduler, `POST /api/report-run` and the
command line all call the report runner, and nothing but the audit rows keeps two
of them (possibly in two processes) apart; a reload replaces the scheduler's entries
and the workers' endpoint definitions while all of this runs; downstream projects read
the tables that syncs and projections go on writing.

What makes each part correct, in a sentence each, is what the properties of
section 3 say.  `PROJECT.json` lists the hazards at their lines with the properties
that answer them; where there is none, it says why.

## 2. Modules

| Module | Models | Instance | Proofs |
|---|---|---|---|
| `EndpointWorker` | workers, task rows, stale sweep, process | `MCEndpointWorker` | `EndpointWorkerProofs` |
| `TaskLedger` | abstract: what the rows of `sync_tasks` promise; implemented by `EndpointWorker` | – | step simulation in `EndpointWorkerProofs` |
| `ReportExport` | one report scope: audit rows, calls, upstream tasks | `MCReportExport` | `ReportExportProofs` |
| `ReportLedger` | abstract: what the audit rows of a scope promise; implemented by `ReportExport` | – | step simulation in `ReportExportProofs` |
| `TokenHolder` | the token of one account and its callers | `MCTokenHolder` | `RequestProofs` |
| `RateLimiter` | the limiters, the cooldowns of sellers, the calls that wait for them | `MCRateLimiter` | `RequestProofs` |
| `BackgroundJobs` | busy flag, rebuild snapshot, report gate | `MCBackgroundJobs` | `BackgroundJobsProofs` |
| `ListingFacts` | daily facts and audits of one store and channel, the jobs that project | `MCListingFacts` | `ListingFactsProofs` |
| `PageFetch` | one parameter set of an endpoint: pages, retries, what reaches the tables | `MCPageFetch` | `PageFetchProofs` |
| `ConfigStore` | the configuration: file, memory, requests that edit it, what takes it over | `MCConfigStore` | `ConfigStoreProofs` |
| `SettingsCell` | abstract: what the store promises to the requests; implemented by `ConfigStore` | – | step simulation in `ConfigStoreProofs` |
| `DatasetFeed` | a project that copies a dataset while it is written | `MCDatasetFeed` | `DatasetFeedProofs` |

A unit of `EndpointWorker` is a fetch of `PageFetch`; what a sync of `ListingFacts` stores
raw is what fetches stored; the cron entries and endpoints that `ConfigStore` installs are
those `EndpointWorker` and `BackgroundJobs` run; a request of `TokenHolder` is sent when
`RateLimiter` lets it go.  Each pair shares no step, so the modules are checked apart.

Definitions whose comment begins "Faulty variant" are not part of the models.
Each stands beside the operation it deforms and is what a plausible bug would make
of it; substituted for that operation, it makes TLC refute the property named for it
under `mutants` in `PROJECT.json`.  That is how each property was shown to say
something about the code.

### EndpointWorker

State.  `trigger` and `cancelCh` are the two channels of a worker; `pc`, `task`,
`left`, `got`, `status` are where the goroutine of `Run` is and the locals of
`doSync` (units left to fetch, whether rows were received, the final status);
`lastStatus` is the in-memory snapshot.  `helper`, `carried` and `cancelledCtx` belong
to a task id: the one-shot goroutine `doSync` starts, the foreign id it took out of
the channel, and the context it may cancel.  `row` is `sync_tasks.status`, `aged` how
many rows are past the stale age, `fatal` the workers whose start-up
assertion failed when the process started, `stamped` and `projected` which runs stamped
`ls_stores` and published daily rows.  `issued`, `owner`, `asked`, `lost` are history
the properties need; no action reads them to decide what to do, except that ids are
issued in order.

Actions.  `Trigger`, `Cancel` are the handlers and the cron job; `RunExits`,
`RunTakesCancel`, `SkipDisabled`, `RecordFatalTask`, `DoSync`, `InsertFails` are
the cases of the idle select with everything they do before they block again; `Plan`,
`Gate`, `UnitSucceeds`, `UnitFails`, `UnitAborts`, `Panic`, `Project`, `Write`, `Finish`
are `doSync`; `HelperEnds`, `HelperCancels`, `HelperTakesForeign`, `HelperPutsBack` are
the helper; `RunStaleRecovery` is the sweep; `Stop`, `GoDown`, `Restart` the process.
`Mode[w]` tells which loop of `doSync` a worker runs (one fetch, stores, ad accounts,
order details): they differ in what a failed or cancelled unit does to the status.

Abstractions.  A unit either succeeds, with or without rows, fails or is aborted;
its pages and retries are inside it.  `RecoverStaleRunningTasks` closes the rows
counted by `aged`, oldest first, which is what an age threshold does.  The cancel
`UPDATE` tests the status, so it is one atomic step, like the statement.

`TaskLedger` is the abstract specification of the rows: a run opens a row and has one say in
how it ends (`Close`), everybody else may only end a row that says running (`Interrupt`), and a
run that is over has no say (`Abandon`).  `EndpointWorker` implements it under
`rows <- row, live <- Unclosed`, the rows whose run has not written its status.

### ReportExport

State.  `status`, `taskId`, `keyed`, `issued` are the columns `status`,
`report_task_id`, `active_scope_key` and the id counter of one scope's rows; `saved`
are the rows whose report is in the raw tables.  `upstream` and `madeFor` are the
tasks of the report service (external).  A caller has `pc`, the `audit` it works on, the
status it last `read`, its `task` and last `reply`, and is in `owner` (claimed the
creation), `fresh` (inserted its row) and `resuming`.

Actions.  One per SQL statement or HTTP call: `FindActive`, `FindNothing`, `Insert`,
`InsertDuplicate`, `Claim`, `ClaimLost` (`EnsureReport` and the claim); `WaitForTask`
(sharing the task of another call); `Create`, `CreateFails`, `Record`; `Query`,
`Progress`, `PollAgain`, `PollTimesOut` (the poll loop); `Save` (rows and SUCCESS in
one transaction); `MarkError`, `FailQuietly` (the two ways `fail()` ends); `Resume`;
`Die`.  `EnsureFails`, `WaitFails` and `StepFails` are the error returns.

`Init` allows a PENDING row without a key: the key column was added by a migration and
rows older than it have none.

`ReportLedger` is the abstract specification of the audit rows: one row at a time holds the
scope (`Open`), it is ordered upstream once (`Order`) and imported only after that; a row that
ends gives the scope back (`Finish`) and does not get it again, even if a slow call makes it
unfinished once more (`Revive`).  `ReportExport` implements it under `holder <- keyed,
over <- Ended, imported <- saved`; `madeFor` is the same in both.

### TokenHolder

Each caller sends a request (`Request`), checks the connection (`CheckConnection`,
which forces a refresh), reads the cache (`Get`), enters `refreshAndWait`
(`Enter`: becomes the leader or a waiter), publishes (`Publish`: the deferred block of
the leader, which sets token, error and wakes the waiters), reads the shared
fields (`ReadShared`) or gives up.  A request rejected for its token is resent once
(`resending`).

### RateLimiter

State.  `made`, `rate`, `tokens`, `lastFill`, `lastFire` are the registry and the fields of its
limiters and of the report runner's; `until` is the map of `SellerRateLimiter`; `now` is the
clock.  A goroutine has its `place` in the code, the limiter it called (`goal`), the bucket it
asks (`at`: first that of the quota group), the `seller` of its query and the end of its timer
(`wake`).  `passes`, `since`, `cooled` are history: when each bucket let calls through, how many
of them before its rate was changed, and the latest end of the cooldowns learned of a seller.

Actions.  `Ask` is `Get` and the call of `Wait` or `WaitSeller`; `TryAcquire`, `PlanSleep` are the
critical sections of `tryAcquire` and `nextWait`, `Awake` and `Abandon` the two ends of a sleep;
`CheckSeller`, `RecheckSeller` the head and foot of `WaitSeller`'s loop; `Answered` and
`RateLimited` what becomes of the request (the second is `CooldownSeller`); `UpdateOrCreate` the
hot reload, which the handlers run for every endpoint, changed or not; `Tick` the clock.

Abstractions.  Time is discrete and a critical section reads it once.  Tokens are floats that
grow linearly: here they are counted in parts, `Scale` of them to a token, so that the growth in
a tick is a whole number; the rounding of floats is left out.  A rate is what the clamping of
`NewLimiter` leaves: positive.  The group's bucket of the code has one rate for all
(`NewLimiter(1, 600)`), here any.

### BackgroundJobs

Three guards, side by side because they answer one question: who may run now.
`PostReport`/`RejectReport`/`LaunchReport`/`ReportEnds` is the busy flag over every
return path of the handler and its goroutine; `PostRebuild`/.../`RebuildEnds` the
rebuild snapshot; `Fire`/`FiringEnds` the one-token gate of a report scope, shared by
all cron entries of the scope and kept across reloads.

### ListingFacts

State.  `rawApi`, `rawReport` are the raw tables as the readers see them: for a date
and a listing, a value or nothing for each column.  `fact` is
`listing_daily_metrics` (value, `_source` of each column, `verified_fields`,
`is_verified`, `is_provisional`), `audit` the status column of
`listing_daily_reconciliations`.  `publishMu` is the mutex of each process.  A job
has `pc`, the date it works on (`next`), the rows and audits it has collected
(`batch`, `verdicts`) and the failed attempts of its transaction (`tries`).

Actions.  A sync stores its raw rows (`StoreRaw`), reads its dates (`BuildFromSQL`)
and publishes them in one batch.  A rebuild publishes after every date (`Proceed`).  A
report job compares date by date (`Reconcile`; `ReportIsEmpty`, `Agrees` are the tests)
and publishes rows and audits together, or stops at the first error and notes it
(`RejectReport`).  `Lock`, `Commit`, `CommitUnanswered` (committed, but the job sees an
error), `CommitFails`, `CommitRetries`, `BackoffEnds`, `BackoffCancelled` are
`persistBatch`: the mutex is kept through the pauses between attempts.  `Die` ends all
jobs of a process.

Abstractions.  The SELECTs of one date are one step: each fills columns of its own, so
their interleaving with writers changes nothing a column can show.  A row without any
known value is not told from no row.  A transaction is atomic (InnoDB); its deadlocks
and lock waits are `CommitRetries`.  A snapshot report has one date, chosen by
`LastDate = 1`; theorems with more dates cover the reports over a window.

### PageFetch

State.  `mode` is how the endpoint stores: page by page (`plain`, `inventory`), a whole
advertising partition (`ad`), details of known orders in batches (`orders`) or one by one
(`po`), or nothing (`probe`).  `offset`, `pages`, `attempt`, `expected` (the first total) and
`buffer` are the locals of the loop.  `table` holds for each key the second it was last
written in, `started` the database time the task noted, `snapshot` the inventory
snapshot of the day.  `upstream` is the sequence of rows the service holds (external),
`signals` whether it answers with a total, a has_more, both or none.  `base`, `got`,
`lies`, `shrank`, `grew`, `fresh` are history the properties need.

Actions.  `LoopHead`, `Admit` (the limiter), `CallFails` and `Backoff` (`retryDecision`, one
counter for all kinds of failure), `PageFails`, `PageKept` (an answer refused; stored or
buffered, with the decision about another page), `ReplaceAdPartition`, `ReplaceFails`,
`CaptureFBAInventorySnapshots`, `CaptureFails`, `CandidatesFail`, `DetailsKept`,
`DetailsFail`, `ProbeAnswered`; `Start`, `Cancel`, `Die`; `ChangeUpstream` (a row comes or
goes).  `Answers` lets the service say anything; `Honest` is an answer that is true, and
`MaxLies` bounds the others.

Abstractions.  A row is a key and what the code asks of it (has its key, is an FBA row, is of
a known channel).  The shaping of columns, request parameters and store lookups are
left out.

### ConfigStore and SettingsCell

State.  `file` and `cfg` are the configuration on disk and in memory, `saveMu` its
mutex.  A request has `pc`, `job` (edit or reload), the copy it compares (`old`) and the copy
it edits (`snap`): the handlers read the store twice.  `sched`, `reg`, `limits`, `served`
are what runs: the cron entries, the `Endpoint` of each worker, the rate of each limiter
key, the pointer the other handlers read.  `handEdited`, `warned` and `raced` note why
what runs need not be what was saved.

Actions.  `ReadCurrent`, then one of the edits, named for the handlers (`apiCreateAccount`
... `apiCompleteDatasetFields`; `SaveDailyFields` and `SaveChildFields` are the two halves of
`apiSaveDatasetFieldAllowlist`), or `Refuse`; `LoadFile` and `ReloadCompares` are
`apiSettingsReload`.  `LockSave`, `RejectSave`, `FailWrite`, `Rename`, `Switch` are the steps
of `SaveIfCurrent`; `AnswerSaved`, `Rebuild`, `RebuildFails`, `HandOver` what follows when
`saveMu` is released.  `Crash` (which `apiRestart` also is), `Restart`, `EditFile`
(external).

Abstractions.  A configuration has the parts whose handling differs: accounts with their
quota group and check plan, endpoints with a path, the fields a hot reload takes over (`hot`),
the fields no change class looks at (`late`); the cursor secret, published fields and
tokens of the dataset API.  `Loads` and `validate` are the two validations, `Load` runs both,
`Save` one.

`SettingsCell` is the abstract specification: one value, replaced as a whole, and only by a
request that read exactly the value it replaces.  `ConfigStore` implements it under
`value <- cfg, seen <- old`: locking, file steps, failures and deaths of the process are
stutters or `Leave`, `Switch` is `CompareAndSwap`, `Restart` is `Reopen`.

### DatasetFeed

State.  `table` holds the committed rows (stamp and version), `open` what each
transaction has written; a table row may be read as several line items (`Sources`).  The
project holds `cursor` and `copy`; `request` is what the server works on.  `before` and
`late` are history: the rows there when the snapshot began, and the rows committed
behind the cursor.

Actions.  `BeginSnapshot`, `Continue` (with `decodeCursor`), `Answer`, `AnswerLost`;
`apiExportDatasetCSV`, `ExportCSV`; `Statement`, `Commit`, `Rollback` are the writers
(external MySQL, with the statements of the syncs); `Tick` is the clock.  `KeysetRows` and
`LineRows` are the two kinds of readers: one puts the cursor into the query, the other reads
every table row that is not older and passes over lines.

Abstractions.  A place in the order is a stamp and a key; `Top` stands for a watermark inside
a tick.  The columns, the filters of a field list and the encoding of cursors are data.

## 3. Runs

Bounds are small because the interesting cases need few actors: a lost cancel needs
two ids of one worker, a misdirected one two workers, a stale row one crash; a lost
claim needs two callers, a reopened row one more audit row; a shared error needs a
leader, a waiter and one later leader.

| Run | Question | Instance |
|---|---|---|
| `worker_safety` | `RunningRowIsLive`, `CancelHitsOnlyItsTarget`, `StampMeansSuccess`, `SnapshotAgreesWithRow` | a worker like `vc_inventory` (loops over stores, an empty result is a fault) and one like `sc_stores` (one fetch, store source); 2 rows, 1 unit; 6.2 million states |
| `worker_live` | `OnlyCompleteRunsPublish`, `TasksAreALedger`, `RowsSettle`, `TriggersServed`, `HelpersEnd` | one order-detail worker that may lack its table, 2 rows, 2 units, 1 crash, under `FairSpec` |
| `report_calls` | `OneCreator`, `PollsItsOwnTask`, `SuccessIsSaved`, `AuditsAreALedger` | 2 interchangeable callers, 2 rows, 3 upstream tasks, 1 death; 1.1 million states |
| `report_live` | `CallsReturn`, `RecordedScopeIsFreed` | 1 caller that may die once and come back, 2 rows, 2 tasks, under `FairSpec` |
| `token_refresh` | `SingleFlight`, `CallsReturn` | 3 callers, under `FairSpec` |
| `rate_limits` | `RateKept`, `CooldownHeld` | 2 interchangeable callers; a path that changes between a bucket of two and a serial one, the bucket of its group, the report runner's; 1 seller, 2 parts to a token, clock up to 3; 3.3 million states |
| `jobs_guards` | `OneReportInFlight`, `GateIsExclusive`, `RunningIsReal` | 2 report posts, 2 rebuild posts, 2 firings |
| `listing_facts` | `VerifiedFieldsAreReported`, `ReportValuesAreEvidence`, `AuditedIsPublished`, `AuditsTogether`, `FieldsOnlyImprove`, `JobsReturn` | a sync and a report call that share a process, a rebuild in another; 2 dates, 1 listing and column, 2 values, 1 retry, any raw rows to begin with; under `FairSpec` |
| `page_fetch` | `SuccessIsComplete`, `PartitionIsWhole`, `SnapshotIsOneFetch`, `FetchEnds` | 2 fetches in every mode, up to 3 rows in pages of 2, 1 false answer in each, 1 change of the upstream, under `FairSpec` |
| `config_edits` | `MemoryIsFile`, `EditsInForce`, `PublishedFieldsStay`, `ProjectsKeepLoading`, `CompareAndSwap` | 2 interchangeable requests at a time, 3 in all; 2 accounts, endpoints, groups, paths and fields, 1 project; 1 death or hand edit; starts with and without the dataset API; 6.4 million states |
| `dataset_feed` | `CopyIsCurrent`, `SnapshotIsComplete`, `FeedCatchesUp` | 1 project, 2 writers, 3 statements, 2 clock values, pages of 1 row, a row of two line items and a plain one, 2 scopes, under `FairSpec`; 0.8 million states |
| `dataset_missed` | refutes `ChangesMissNothing` | the instance of `dataset_feed` |

The type invariant `TypeOK` of every module is proved (section 4) and is in no
configuration.

The liveness of the report runner is checked with one caller because what it has to
survive is the row a dead caller left: the caller that comes back meets it as a second
one would.  Symmetry is used in `report_calls`, `config_edits` and `rate_limits`, which check no
liveness; requests and callers occur in no other constant.  Deadlock checking is off where a budget of
the model ends the behaviour: of requests (`config_edits`), of fetches (`page_fetch`), of
writes and snapshots (`dataset_feed`, `dataset_missed`), or where its clock stops
(`rate_limits`).  Elsewhere it is on: an idle system
can always be triggered, called or restarted.

Columns and listings never influence each other in `Assemble` and `Upsert`, so one of each
is enough for `ListingFacts`; two dates are what it takes to publish a part of a report,
two values to tell the API from the report.  One retry is enough to hold the mutex through a
pause.  What two calls of one report do to each other is in the theorems, which hold
for any jobs.

In `page_fetch` three rows in pages of two give a full and a short page, a row that moves
from one page to the next, and a first page of which nothing is kept; a second fetch meets
what the first left.  `MaxPages = 3` reaches the cap only through false answers, which is how
the service reaches it.  In `config_edits` the first two requests overlap and the third
finds what they left; two of each kind are needed for a limiter key to be moved or taken.  In
`dataset_feed` two writers commit in the other order than they wrote, the third statement
moves or deletes a row that was read, and pages of one row put a page boundary between any
two.

In `rate_limits` three ticks hold a burst of the bucket of two, a token that comes back and one
that is short; two callers meet at the group's bucket, at the path's and at the seller's cooldown.
Calls of endpoints and of the report runner share no bucket and no seller, so the constraint
`OneKind` explores behaviours with calls of one of the two kinds.  It has no liveness: with a
clock that is bounded a sleep may never end, and without fairness of the mutex beyond what Go
promises a caller may be overtaken.

Besides the run that refutes a property, five configurations that are not runs of
the project are kept, with sentences of the repository the code does not keep
either (section 6): `report_saved_error.cfg`, `rate_reloaded.cfg`, `worker_lost_cancel.cfg`,
`token_shared.cfg`, `listing_failed.cfg`.

### Fairness

- `EndpointWorker!FairSpec`.  Go's `select` chooses at random among the ready cases, so
  a case that is ready again and again is taken: strong fairness of the trigger case
  and of a helper's end.  A goroutine that can run runs: weak fairness of `Body` and
  of a helper's put-back; every fetch inside `Body` has timeouts.  A stopping process
  exits, and Supervisor (`autorestart=true`, `doc/core/06-deployment.md:97`) starts
  it again.  Time passes and the five-minute sweep keeps being scheduled.  Nothing is
  assumed about triggers or cancels.
- `ReportExport!FairSpec`.  HTTP calls and waits have timeouts, so a call goes on; the
  poll deadline passes however often the task is polled.  `RecordedScopeIsFreed` is
  stated on a condition, `Persistence`: upstream tasks end, the scope keeps being
  requested, and no statement fails every time it is tried.
- `TokenHolder!FairSpec`.  An HTTP call ends by its 60 s timeout.  A waiter is not
  assumed to have a deadline: it must be woken.
- `ListingFacts!FairSpec`.  Statements and pauses of a started job end (weak fairness of
  `Work`); `sync.Mutex` hands itself over to a goroutine that has waited for more than a
  millisecond, so a job that can lock again and again does so (strong fairness of `Lock`).
  Nothing is assumed about commits: they may fail each time.
- `PageFetch!FairSpec`.  The limiter admits every request in the end, the HTTP client has a
  timeout, statements of the database return (weak fairness of `Work`).  Nothing is assumed
  about answers: they may fail or be false every time.
- `DatasetFeed!FairSpec`.  A project that has begun asks again (weak fairness of
  `Continue`), not every answer to it is lost (strong fairness of `Answer`), an export
  turns its pages.  The two are the project's side of the contract; the server only has
  to answer a request it has.
- `ConfigStore` has no liveness: a request ends, and nothing waits for it but `saveMu`.
  `BackgroundJobs` has none either: nobody waits for a guard, a refused start is gone.

## 4. Proofs

The proofs hold for any number of workers, callers, requests, writers and rows, in any
`Mode`, for any upstream and any configuration; they assume only the named `ASSUME` of each
module (bounds are natural numbers, `Mode` assigns a mode, a run has at least one unit, the
keys of `DatasetFeed` are numbers below `Top` and every table row has items of its own, `None`
is no value of anything else, a rate of `RateLimiter` gives a whole token in an interval).  Each follows the same plan: an
inductive invariant `IInv`, one lemma for each conjunct of it with one step per
action, and the checked properties as consequences.

**EndpointWorkerProofs.**  Proved: `TypeCorrect`, `RowsOfLiveRuns` (`RunningRowIsLive`),
`CancelIsPrecise` (`CancelHitsOnlyItsTarget`), `StampIsEarned` (`StampMeansSuccess`),
`SnapshotIsTrue` (`SnapshotAgreesWithRow`), `PublishIsComplete` (`OnlyCompleteRunsPublish`),
`RowsFormALedger` (`TasksAreALedger`, the refinement of `TaskLedger`).  None of them is inductive alone: that a
row is live needs to know whose it is.  `IInv` adds that ids in flight were issued
(`FlightIssued`), that a task belongs to the one worker it was inserted for
(`TaskOwned`), that ids not yet issued have no row, helper or context
(`FutureIsBlank`), that an id in the channel or carried by a helper of a worker, if it
is the id of its live run, was asked for (`FlightAsked`), how far a run is
(`RunProgress`), that a running row that is not lost has its run (`RunningIsOwned`), and
that stamps belong to runs that are over (`StampedIsOver`).  `CancelIsPrecise` is the
delicate one: ids wander between channel, helpers of earlier runs and back.
Refinement: `UnclosedMoves` reduces what may become of `Unclosed` to where the runs are, because
a task belongs to one worker (`TaskOwned`) that is at most at one place; `SweepInterrupts` finds
the set of rows the sweep closes, `WriteCloses` and `InsertOpens` are the say of the run and
its beginning, everything else is a stutter or `Abandon`.

**ReportExportProofs.**  Proved: `TypeCorrect`, `CreatorIsAlone` (`OneCreator`),
`CreatedOnce` (`CreateOnce`), `KeyIsFreed` (`KeyHolderIsActive`), `TasksAreOwn`
(`PollsItsOwnTask`), `SuccessIsTrue` (`SuccessIsSaved`), `RowsFormALedger`
(`AuditsAreALedger`, the refinement of `ReportLedger`).  The argument: a claim is a
compare-and-set on PENDING, and a row that was claimed is never PENDING again; until
the task id is stored the creator is the only call that writes the row, because every
other writer (progress, save, error) works on a stored task id; two creators would
need two unfinished rows without a task, but such a row holds the key, of which there is
one, or it is a row older than the key, which every call finds before it inserts.
`IInv` states these as `Creators`, `Sharers`, `Claims`, `Untasked`, `OneUntasked`,
`PendingIsBlank`, and what relates rows and tasks (`TaskNames`, `TaskedRows`,
`RowsIssued`, `CallLocals`).  The refinement says the same of the rows alone: that an
insert finds the scope free, that a creation is the row's first, and that whoever ends a row
gives its key back; `CreateOnce` and `KeyHolderIsActive` remain as theorems of their own and are
in no run, since no step of the ledger can break them.

**RequestProofs.**  For the token: `TypeCorrect`, `FlightIsSingle` (`SingleFlight`); inductive
with the types.  For the limiters: `LimiterTypeCorrect`, `RatesAreKept` (`RateKept`),
`CooldownsAreHeld` (`CooldownHeld`), for any number of buckets, callers, sellers and rates.
`RateKept` is a promise about every stretch of the past, so the invariant `LimiterInv` carries a
balance: `Paid` says of each stretch that began since the rate was last changed how many
tokens the bucket can have left after it (a serial bucket: that its last call is `lastFire`), and
`Accounts` that the times are in order.  An update that changes nothing keeps the balance, one
that changes the rate starts a new one, a creation has nothing to balance.
`CooldownHeld` needs `CooldownsKnown`: what has been learned of a seller is in `until`, or is over;
`ForgetExpired` only forgets what is over, so the second look of `WaitSeller` sees every cooldown.

**BackgroundJobsProofs.**  `TypeCorrect`, `ReportsAreExclusive` (`OneReportInFlight`),
`GatesAreExclusive` (`GateIsExclusive`), `StatusIsReal` (`RunningIsReal`); inductive
together with the types.

**ListingFactsProofs.**  Proved: `TypeCorrect`, `VerifiedFieldsCorrect`, `EvidenceCorrect`,
`AuditedCorrect`, `AuditsCorrect`, `ImprovementCorrect` (for the properties
`VerifiedFieldsAreReported`, `ReportValuesAreEvidence`, `AuditedIsPublished`,
`AuditsTogether`, `FieldsOnlyImprove`), for any jobs, processes, reports, columns,
listings and dates.  What is published was built earlier, so `IInv` first says that what
a job carries is sound by itself: each value has a source (`Sound`), its report values
are those of its report (`Backed`), a date it has an audit for shows the report
everywhere (`Carries`), and from `lock` on there is an audit for each date (`Complete`).
`UpsertImproves` says what the upsert does to any two rows, `PersistImproves` lifts
it to a batch, and `DatabaseSteps` reduces the steps that touch facts or audits to two.
The proof needs neither the mutex nor what was read when: for these properties
the upsert alone makes the order of batches irrelevant.  `MutexIsNeverLeft` is apart from
them: a job that publishes holds the mutex of its process alone, through retries, pauses and
deaths, and nobody else does; it is the safety half of `JobsReturn`, for any number of jobs.

**ConfigStoreProofs.**  Proved: `TypeCorrect`, `MemoryMatchesFile` (`MemoryIsFile`),
`FieldsArePermanent` (`PublishedFieldsStay`), `ProjectsAreLoadable` (`ProjectsKeepLoading`),
`StoreIsACell` (`CompareAndSwap`, the refinement of `SettingsCell`), `RunningIsSaved`
(`EditsInForce`).  `IInv` adds what a request has read (`Reads`), that the holder of `saveMu`
replaces exactly what it checked and the file is ahead of memory only between rename
and switch (`Saves`), and that published fields and loadable projects survive from what was
read to what is in force and to what will be (`Promises`): an edit may be checked against one
reading and made on another, so the promise has to hold for every configuration that can lie
between the two.  `EditsInForce` has an invariant of its own, `Hands`: between the switch and
the hand over the running parts match the configuration that was replaced, which is why a
change of no class may leave them alone.  Refinement: the initial states map to initial
states, each action to a step of the cell or a stutter.

**PageFetchProofs.**  Proved: `TypeCorrect`, `SuccessMeansAll` (`SuccessIsComplete`),
`PartitionStaysWhole` (`PartitionIsWhole`), `SnapshotStaysPure` (`SnapshotIsOneFetch`).  `IInv`
adds that the buffer is as long as the offset and, without false answers and with rows only
coming or only going, that the buffer is the beginning of the upstream or its length has
changed (`Buffered`); that while no row went away every row of the beginning is still there and
those up to the offset are stored (`Covered`): a row that comes moves the others only away
from the beginning; the same for orders (`Detailed`); and that what carries the time of the
task was written by it (`Stamped`).  `FetchesRunOut` is the part of `FetchEnds` that does not
need fairness: a natural number (`Effort`: pages or details that are left, then steps that are
left of one page) falls with every step of `Work`, whatever the upstream answers, and only
`Start` raises it.  It needs that no request is made for details that are all there
(`AskedFor`).  What TLC adds is that some step of `Work` can always be made before the end.

**DatasetFeedProofs.**  Proved: `TypeCorrect`, `CopyStaysCurrent` (`CopyIsCurrent`),
`SnapshotsStayComplete` (`SnapshotIsComplete`).  `IInv` adds that a written row is locked
(`Locks`), that no stamp is ahead of the clock and a row never moves back (`Stamps`), that the
items of a table row are written together and carry one stamp (`Joint`), that a request
continues what the cursor stands for (`Cursors`), and that a row of the beginning has been
read or is ahead (`Begun`).  The lemmas below it give the order its laws and show that what
lies up to the last row of a page is on the page (`PageFilled`, `PageOrder`), and
that both kinds of readers find the same rows (`FoundShape`), because items share a stamp.

Only model-checked: the liveness properties (`RowsSettle`, `TriggersServed`,
`HelpersEnd`, `RecordedScopeIsFreed`, both `CallsReturn`, `JobsReturn`, `FetchEnds`,
`FeedCatchesUp`), because reasoning under fairness and about `ENABLED` is out of the prover's reach.

## 5. Not modelled, and limits

- Inside a sync unit: which parameters are asked for (dates, stores, windows) and how columns
  are shaped.  Hot reload of a worker's endpoint during a run (`UpdateEndpoint` writes fields
  `doSync` reads): `ConfigStore` has what is installed, not what a run in progress reads.
- In the limiters: the rounding of floats and of durations; the fractions of a tick between two
  readings of the clock; the choice of the length of a cooldown (`reportRateLimitRetry`), which is
  any length here.  A reload finds a limiter and updates it in two critical sections; the first
  only reads a pointer that never changes, so the model has one step.
- Retention (`db/tasks.go`): one loop of one function, without shared state.
- The vendor ad projection: one `INSERT ... SELECT`.
- In the configuration: the YAML text and its comments, the checks of single fields, the catalog's
  templates, the backup of the file.
- In the report runner: rate-limit retries (the cooldown is in `RateLimiter`), report parsing,
  the sequence of per-type imports.  A cause of failure is not distinguished, its effect is.
- An owner that dies, or whose context ends, between its claim and the recording of the
  task id leaves a CREATING row that keeps the key, which no later call may claim and
  `Resume` refuses.  The model has this state and no property rules it out: the code
  has no recovery for it.  `RecordedScopeIsFreed` begins where the task id is stored.
- In the daily facts: what each SELECT computes, `report_verified_at`, dimensions.
  `is_verified` and `is_provisional` follow the code and no property is about them
  (section 6).  The inventory snapshot that precedes a projection is part of the raw rows.
- A projection that fails after its report was imported is not repeated (the row is
  SUCCESS, which `Resume` refuses).  `ListingFacts` shows that what is published agrees with
  its audits; that something is published is not promised by the code.
- SQL that only reads, HTML, handlers that only read, the parsers, the catalog and the
  migrations are input and output without interleaving.

## 6. Findings

Each is a sentence of the repository refuted by TLC.  `dataset_missed` is a run and
`PROJECT.json` quotes the sentence; the others are the kept configurations.

| Configuration | What happens |
|---|---|
| `report_saved_error` (`SavedNeverError`) | a late progress update reopens a SUCCESS row, whose failure is then marked ERROR (`db/report_tasks.go:194`; `reportexport/export.go:309-310` says the successful saver wins) |
| `dataset_missed` | a row is stamped when its statement runs and visible when its transaction commits: one that commits behind the watermark is in neither the snapshot nor the changes (`datasetapi/handler.go:395`; `doc/core/04-api.md:384`) |
| `rate_reloaded` (`SerialIsSpaced`) | a path that a reload makes serial sends its next call at once: a bucket of two never writes `lastFire` (`worker/limiter.go:178`; `limiter.go:5` promises the interval since the last call, `limiter.go:162-164` that a change needs no special care of the fields) |
| `worker_lost_cancel` (`CancelReachesItsRun`) | the helper reads one id only; after a stale one a request for its own run stays in the channel until the run is over (`worker.go:439`, `worker.go:317`) |
| `token_shared` (`FailedRefreshIsShared`) | a new refresh resets the shared error before a waiter of the failed one reads it (`token.go:156`, `token.go:130`) |
| `listing_failed` (`ShownReportPassed`) | of two calls that share a report one publishes it, the other fails and overwrites the audit by `failed`, while the facts keep the report's values (`main.go:667`; `doc/core/02-database.md:176-177`) |

Others follow from steps the models contain and have no run of their own:

- the stale sweep and the idle branch of `Run` write rows of live runs, although
  `db/tasks.go:3` calls each worker the only writer of its row;
- the late progress update of `report_saved_error` also makes a closed row unfinished
  again beside the row of a newer request, so that two unfinished rows of a scope exist;
- a run cancelled while it fetches ends as `error`, not `cancelled` (`worker.go:650`; only
  the order-detail paths look at the context), where
  `doc/core/10-frontend-rework-flow.md:232` expects 已取消;
- two rebuild requests can pass the check of `handlers_rebuild.go:55` before either sets
  the flag in `runRebuild`, although line 47 promises one at a time;
- a report request refused after line 28 of `handlers_report_run.go` leaves the busy flag
  set, and every later one is told that a report is being run;
- a batch that read its raw rows early and is published late puts an older API value
  over a newer one until the next projection (`main.go:628`, `sql_store.go:63`);
- a request that is sent again for its token passes no limiter (the resend of `api/client.go`;
  `doc/core/08-api-reference.md:229` lets no retry go round it), and a serial bucket spaces the
  moments it lets calls go, where line 248 has the answer of the one before;
- the token a call has taken of its group's bucket is lost if it is cancelled at its own;
- `nextWait` rounds to the nearest millisecond (`limiter.go:155`), so a call that lacks less than
  half of one asks again and again without a sleep, which the comment on line 154 rules out by
  rounding up (`PlanSleep` goes back to `TryAcquire`);
- an API batch that adds a column to a verified row leaves `is_verified` set, and on the
  current day sets `is_provisional` on a verified row (`sql_store.go:217`).

In the configuration store (`ConfigStore`; `EditsInForce` excludes overlapping hand
overs by `raced`, and answers that asked for a restart or were errors by `warned`):

- `Save` runs `validate`, `Load` also `validateDatasetAPI`: a token of a version with fields of
  its own, made before daily fields are published, gets none, is saved, and the next start
  refuses the file.  `ProjectsKeepLoading` says from where on this cannot happen;
- a reload reads the file before the store (`handlers_config.go:1528`): an edit saved between
  the two is taken back by the reload; an edit checked on one reading and made on a later one
  is accepted if the configuration has meanwhile returned to the first;
- two hot edits may be handed over in the other order than they were saved;
- a restart-class edit that waits for its restart goes partly live with the next hot edit;
- `display`, `window_start_field` and `window_end_field` are in no change class: they are
  saved, answered as needing nothing, and in force after the next edit or restart;
- after a `Rebuild` that failed the report jobs stay unregistered, and repeating the same
  edit is a change of no class;
- `apiCompleteDatasetFields` extends a version that is published;
- `apiUpdateDatasetProjectScopes` finds its token in one reading and edits it in another;
- the dataset handlers take tokens and fields when the process starts, so a deleted token is
  valid until the restart, and a change of fields through them stays in memory
  (`SetFieldPersistence` is never called).

In what is fetched and served (`PageFetch`, `DatasetFeed`):

- the inventory snapshot goes by `synced_at` in seconds: a fetch that begins in the second the
  last one wrote in can take rows of that one (`fresh` in `SnapshotIsOneFetch`);
- one row inserted and one removed between two pages leave the total, and the partition that is
  published is of neither moment (`PartitionIsWhole`);
- the answer to a vendor purchase order is stored under the number that was asked for,
  whatever number it carries;
- deleted rows are never told to a project, which keeps them (`CopyIsCurrent` speaks of rows
  that exist);
- a row updated while an export turns its pages may be in the file twice.

## 7. Plan

What is left, in this order:

1. Retention in `EndpointWorker`: `CleanupOld` removes rows that are final and old, while a run
   that was swept may still write its row; what becomes of `TaskLedger` then.
2. Bounds on work: a call of `ReportExport` makes no more create calls than it claims rows, and
   its polls run out as the steps of a fetch do (`FetchesRunOut`).
3. Composition of `ReportExport` and `ListingFacts`: import, projection and its failure
   after SUCCESS; what a dead or failed call leaves for the next one.
4. What a run in progress reads of an endpoint that is reloaded: `ConfigStore` beside the
   loop of `EndpointWorker`.
