# TLA+ models of the CockroachDB to PostgreSQL migration tool

This directory holds the formal models of the migration tool: what the runner and
the verify-service do, the properties that make them correct, the TLC runs that
check them on small instances, and the TLAPS proofs that establish the most
important ones for every instance. `PROJECT.json` is the index: components, runs,
mutants, the source lines each definition stands for, hazards, findings, theorems.

## The system

Two programs work on a migration.

**Runner** (Rust, `src/crates/runner`). CockroachDB changefeeds push row batches and
resolved watermarks to an HTTP(S) webhook. Each request is one PostgreSQL
transaction on *helper shadow tables* (or on `stream_state` for a watermark) and is
answered 200 after the commit. One reconcile worker per mapping wakes on a timer and
copies the shadow tables into the real tables in one transaction: upserts in foreign
key order, deletes in the reverse order, then the tracking rows. The two services run
under one `try_join`: an error of either ends the process, and a supervisor starts it
again.

**Verify-service** (Go, `src/cockroachdb_molt/molt`). An HTTP API starts jobs that
compare source and destination row by row. A job has a goroutine that verifies the
databases of its plan one after the other; handlers, goroutines and the shutdown path
share an in-memory job store behind one mutex. A request is compiled into a plan of
databases, schemas and tables; for each database the verifier lists the tables of both
sides, compares their definitions, cuts the comparable ones into key ranges and has a
group of workers merge two paged scans of each range. In live mode (a flag of the
command line) rows that differ are looked up again before they are reported.

### Inventory

| Component | State | Operations | What is hard | What makes it correct |
|---|---|---|---|---|
| Webhook ingest (`webhook_runtime`) | shadow tables | row batch, resolved | lost replies, resends, late requests, crashes | acknowledged is durable, the newest event of a row wins |
| Tracking state (`tracking_state.rs`) | `stream_state`, `table_sync_state` | received, reconciled, failure, seed | written by requests and passes that race | watermarks never move back, the two tables agree |
| Reconcile worker (`reconcile_runtime`) | open transaction, real tables | pass, failure record | READ COMMITTED: each statement has its own snapshot | untouched rows exact, order accepted by foreign keys, convergence |
| Reconcile order (`helper_plan.rs`) | indegrees, ready list | `from_schema` | cycles, self references, tables outside the selection | topological, deterministic, cycle only if real |
| Bootstrap (`postgres_bootstrap.rs`) | helper schema | idempotent DDL and seed | crash in between, several mappings | keeps earlier state |
| Payload and routing | none | parse, route | error paths | a refused request has no effect |
| Configuration, startup plan, catalog | none | parse, validate, group | | |
| Metrics, errors, logging | counters | record | | |
| Job store and service (`verifyservice`) | jobs, contexts | start, stop, finish, shutdown | stop racing completion, two-step stop and finish | promised lifecycle, an accepted stop ends the job |
| Verify runner, `verify.Verify` | result, work queue, workers | connect, list, filter, compare definitions, shard, feed | swallowed errors, reads that end early, a worker per shard in continuous mode | succeeded means compared, every difference fails the database, the run returns |
| Table and database verification | lists of tables, definitions | merge, filter, compare | spelling, types and collations that look alike | every table accounted for |
| Sharding | key ranges | split | off-by-one, integer width | ranges partition the keys |
| Row comparison, scan iterators | two cursors, prefetched pages | page, merge, drain | ends of streams, errors, concurrent writes | each key decided once and rightly |
| Live reverification | collected keys, retry queue | flush, look up, retry | rendezvous of two goroutines, lost lookups | every suspicious row is decided after its retries, the shard returns |
| Filters, verify configuration, raw table endpoint | configuration, secret files | validate, resolve, compile, plan | two languages for one glob, secrets that rotate | the plan is what the request asks for, each side with its own fresh credentials |

`PROJECT.json` lists every component with its status and every hazard at its line.

## Modules

| Module | Models | Composes |
|---|---|---|
| `DestinationSql` | the effect of the pass's statements, the constraints of the real tables | |
| `Pipeline` | changefeed, webhook, tracking state and reconcile worker of one mapping | extends `DestinationSql` |
| `MCPipeline` | instances of `Pipeline` | extends `Pipeline` |
| `PipelineProofs` | theorems about `Pipeline` | extends `Pipeline` |
| `ReconcileOrder` | `ReconcileOrder::from_schema` | its result is `DestinationSql`'s `OrderAssumption` |
| `MCReconcileOrder`, `ReconcileOrderProofs` | instances, theorems | extend `ReconcileOrder` |
| `VerifyJobs` | job store, handlers, job goroutines, shutdown | refines `JobLifecycle` |
| `JobLifecycle` | what a polling client is promised | |
| `MCVerifyJobs`, `VerifyJobsProofs` | instances, theorems | extend `VerifyJobs` |
| `TableVerify` | merge and filter of table lists, comparison of definitions | |
| `ShardTable` | split of a key range | |
| `VerifyRun` | one run on one database: `VerifyRunner.Run`, `Verify`, its workers, the result | extends `TableVerify`, `ShardTable`; a shard's rows are `RowVerify`'s subject |
| `TableVerifyProofs` | lemmas about the loops, the merge and the split | extends `TableVerify`, `ShardTable` |
| `MCVerifyRun` | instances of `VerifyRun` | extends `VerifyRun` |
| `VerifyRunProofs` | theorems about `VerifyRun` | extends `VerifyRun`, `TableVerifyProofs` |
| `RowVerify` | one shard: scan iterators, merge, listeners, live reverifier | its `ShardReturns` is the fairness `VerifyRun` assumes of a shard |
| `MCRowVerify` | instances of `RowVerify` | extends `RowVerify` |
| `RowScanProofs` | lemmas about pages, iterators and the comparison of rows | extends `RowVerify` |
| `RowVerifyProofs` | theorems about `RowVerify` | extends `RowScanProofs` |
| `RequestFilter` | globs, their regular expressions, the selections and plans of a request | |
| `VerifyRequest` | startup, configuration, credentials, `POST /jobs` up to its plan, `POST /tables/raw` | extends `RequestFilter`; the accepted job is `VerifyJobs`' subject |
| `MCVerifyRequest`, `VerifyRequestProofs` | instances, theorems | extend `VerifyRequest` |

Operators introduced by a comment that describes a slip (`UpsertDoNothing`,
`StoreResolved`, `ReadyEarly`, ...) are plausible wrong versions of the definition that
follows them. No specification uses them; `PROJECT.json` names, for every checked
property, the one that breaks it.

### DestinationSql and Pipeline

A *row* is a table with a primary-key value, a *value* stands for its other columns;
a value that is itself a row is a foreign key reference. A database state maps rows to
values or to `Absent`.

* **Source and changefeed** (external, modelled from what the runner relies on). `log`
  is the source history in commit order; a position is an MVCC timestamp, and a
  watermark is a position. `Deliverable` keeps the order per row, batches are of one
  table, delivery is at least once (`IngestReplyLost`, `FeedRestart`), resolved *w* is
  sent when everything up to *w* was acknowledged. `SinkTimesOut` and
  `LateRequestCommits` model a request the sink gave up on while the runner still
  works on it (it waits for a database connection and has not noticed that the sink
  closed its own).
* **Webhook.** `IngestRowBatch` is `handle_row_batch` with `persist_row_batch`: the
  batch's mutations in order, the commit, then the 200. A request that fails is rolled
  back and changes nothing. `IngestResolved` is `handle_resolved`; its `UPDATE` waits
  for the row lock a committing pass holds.
* **Reconcile worker.** `BeginPass`, one `ApplyStatement` per upsert and delete, each
  reading the shadow rows committed at that moment, `PersistReconcileSuccess` (takes the
  lock on `stream_state`), `CommitPass`. `AbortPass` is the rollback, because of a
  constraint (`StatementRefused`) or any SQL error (`StatementErrs`); `RecordFailure` is
  the separate transaction that stores `last_error`. With no watermark received yet,
  `persist_reconcile_success` returns early and leaves `last_error` alone
  (`SyncAfterSuccess`).
* **Process.** `ProcessExit` loses the open transaction and the requests in flight;
  `Start` bootstraps, which keeps everything stored.

Watermarks are stored as TEXT and compared as text; CockroachDB renders timestamps with
a fixed number of digits, so the order is that of the positions.

`touched` is a history variable: the shadow rows written since the pass began. It
separates what a pass guarantees (rows left alone) from what it cannot.

### ReconcileOrder

Tables are their indexes in `selected_tables`, as in the code. `CollectEdges` is the
first loop (foreign keys to unselected tables are skipped, duplicates count once),
`PlaceNext` one iteration of the `while`, `Finish` the final length check. The sorted
`Vec` `ready` is a set whose smallest element is taken. The delete order is the reverse
of the upsert order and appears in `Pipeline` as `StatementTable`.

### VerifyJobs and JobLifecycle

An action is one critical section of the store or one step of a goroutine between two.
A stop marks the databases under the lock and calls the cancel function after the
unlock (`owed`, `CallCancel`); shutdown takes the cancel functions without marking
anything. A job's status is derived from its databases (`StatusOf`). `Outcomes` is
what the `Runner` may return: any of them for the safety run, and what `VerifyRunner`
really returns (`VerifyRunnerOutcomes`) for the stop run. The list order and the
numbers of jobs are identified: concurrent posts may be listed in another order than
their ids, which no property depends on. `ResultsAreKept` is about a job of several
databases: what one of them ended with, a failure above all, survives a stop, a shutdown
and whatever happens to the others.

### VerifyRun, TableVerify and ShardTable

`VerifyRun` follows one database through `VerifyRunner.Run` and `Verify`. A scenario is
what the run is given: the catalogs of both sides, the filter, the options, the smallest
and largest key.

* `Connect`, `ListTables`, `FilterTables`, `VerifyNextTable`, `ReportDefinitions`,
  `ShardNextTable`, `StartWorkers`, `CloseQueue`, `Wait` and `CloseConns` are the steps of
  the main goroutine in their order; `Feed` is a send on the unbuffered work queue.
  `TableVerify` holds what the steps compute: `Compare` (the merge of the sorted lists, round
  by round as in the code), `FilterResult` (`Kept` is its append loop), `VerifyTable`.
* A worker is idle, has exited, or has a shard. `ShardReports` tells the result of a
  difference, `ShardEnds` and `ShardErrs` end the shard; the error is logged and the
  worker goes on, as in the code. In continuous mode it starts its shard again.
* `RecordReports` and `StatusAfter` are `recordReport` and the decision taken when the
  run returns.
* Faults: every call to a database may fail. Reads of the catalog may also end early
  without an error being seen (`ListCut`, `VerifyNextTableCut`): `rows.Err()` is wrapped
  around a nil error, or an error is dropped. All four reads of a table, columns and
  primary key of either side, may be cut at once (`Beginnings`). `cut` and `logged` are history variables that
  record such reads and the shard errors that were only logged.

Names are numbers in their order together with the spellings of schema and table, since
lists are merged by lower-cased names while filters match each in its own spelling and
scans use the truth's spelling on both sides. Integer keys have
a width and wrap; floats are rounded to the unit of the model; only the first column of
a key takes part in the split, as in the code.

### RowVerify

Two iterators, the merge, and the reverifier are separate actors. `FetchPage` is the
goroutine of a page; `Receive` is `HasNext`, which asks for the next page as soon as a
full one arrived; `ScanRow`, `TargetBehind`, `TargetEqual`, `TargetAhead`, `TargetOver`,
`TruthOver`, `DrainRow` and `DrainOver` are the branches of `VerifyRowsOnShard`.
`CompareRows` compares datums by family. In live mode `FlushAndScanRow`, `FinalFlush` and
`ScanComplete` are rendezvous with the reverifier's `select`; `PopItem`, `LookupTruth` and
`LookupTarget` are a round of the reverifier, and `Decide` what it does with the answer.
`Write` changes either database at any moment; `FetchFails`, `LookupFails` and the `...Cut`
actions are queries that fail or end early.

Time is left out: a flush interval may pass at any row and any queued item may be due,
which includes the order of the timer heap. `touched` (keys written meanwhile) and
`unsure` (keys whose lookup failed) are history variables: the properties speak of the
rows about which the code can know the truth. An error of the target while it is drained
is excepted in `FinishedIsExact`; the code does not look at it.

### VerifyRequest and RequestFilter

A call is the check at startup, a job request or a raw table request. `Start` begins
`LoadConfig` with `Config.Validate`, `PostJobs` and `PostTablesRaw` begin a request, after
the errors that are found before any credential is looked at (`StartRefused`,
`PostJobsRefused`, `PostTablesRawRefused`). `ReadCredential` is one `os.ReadFile`, `LookupEnv`
or inline value: user and password, source and destination, database after database. The
first error ends the call (`StartFails`, `JobsUnresolved`, `RawUnresolved`); otherwise
`Started`, `JobsPlanned`, `RawRead` or `RawFails` does. `ChangeFile` rotates or removes
a secret file at any moment, between two reads of one request too, so a request may work
with an old user and a new password, or with different secrets on its two sides: the code
takes no snapshot and the properties promise none. `seen` is a history variable, the states
of the files between the arrival of a request and its answer, and `started` those of the
check at startup. Handlers share nothing that changes except the files, so one request is in
progress at a time.

A configuration and a request are records of what the code distinguishes; 0 is an empty
field. A plan is indexed by the positions of its databases in the configuration, whose
order it keeps. A glob is a sequence of tokens; `Matched` follows how many characters the
first tokens may have taken. Database names are matched by `path.Match`,
schemas and tables by the POSIX regular expression `globToRegex` builds, and the two
disagree on escapes, characters beyond ASCII, `[!...]`, and on names with a `/`, at which the
wildcards `*` and `?` of `path.Match` stop (its classes do not) and those of the regular
expression do not. `PlainGlob` names the globs on which they agree, apart from `/`;
`SelectionFollowsGlobs` is about those, and the part of it that says a plan selects nothing
else is about names without `/`. The selections that match one
database are merged into one plan, so that with several of them a plan may select more
tables than any one of them asks for, but never fewer.

## Runs

| Run | Instance | Result |
|---|---|---|
| `pipeline_safety` | 2 parents, 1 child, history of 3, batches of 2, 2 faults, 1 late request, empty or filled real tables | passes: exactness for untouched rows, acceptance by foreign keys, tracking |
| `pipeline_delivery` | 1 parent, 1 child, history of 3, 2 faults, fairness | passes: durable acknowledgements, claims for untouched rows, convergence |
| `watermark_claim` | as above, no fault | **violated**: the reconciled watermark is newer than a real row |
| `late_request` | 2 values, history of 2, 1 late request, fairness | **violated**: the shadow row stays old for good |
| `unique_stall` | 2 parents under a UNIQUE index, no fault, fairness | **violated**: no pass ever succeeds |
| `reconcile_order` | every graph over 3 selected tables + 1 outside, and over 4 selected | passes |
| `verify_jobs` | 2 jobs, 2 databases, any runner, fairness | passes, including the refinement of `JobLifecycle` |
| `verify_stop` | 1 job, 1 database, `VerifyRunner` | **violated**: a stopped job ends as failed or succeeded |
| `row_verify` | 3 keys of the shard and 1 of its neighbour, pages of 2, batches of 2, 2 retries, 1 write, 1 fault, live mode on and off, fairness | passes: each key decided once and rightly, findings retried, rows counted, the shard returns |
| `verify_run` | pairs of table definitions, catalogs of up to 2 x 3 tables under 4 filters, splits 0 to 3 of 4 kinds of keys, option scenarios, 1 fault, fairness | passes: tables accounted for, shards partition the keys, clean means compared, the run returns |
| `swallowed_errors` | as above | **violated**: a database succeeds although no row of a table was compared |
| `verify_request` | 17 configurations (14 of them bad), requests with every kind of glob, database, schema and table names with and without `/`, a secret file that changes once at any moment | passes: plans follow the globs, credentials are fresh, the startup check holds |

The violated properties are sentences of the documentation; `findings` in
`PROJECT.json` quotes each one. One more finding belongs to a run that passes: secret files
are read again for every request (`FreshCredentials` holds), while the guide says at startup
(`docs/operator-guide/verify-service.md:146`). Further disagreements and surprises met while
modelling, which no property is about:

* a page of the target that fails while the rest of the target is drained ends the shard
  without an error (`rowverify.go:265` looks at the error before the drain only);
* a listing of tables that breaks off returns no tables and no error (`dbverify.go:63`), so a
  database of which nothing was read succeeds, and columns and keys of a table may be cut in
  the same way (`query.go:63`, `:139`);
* `{}` does not verify everything (`verify-service.md:404`): it stands for the database glob
  `*`, which does not match a name with a `/` (`filter.go:134`, `:190`);
* unknown fields are refused at the top of a request and ignored inside its `databases`;
* `rows_checked` adds progress summaries that are cumulative, so a shard of more than 10000
  rows counts rows several times (`RowsCheckedExact` states what is left);
* a live scan that fails returns without ending its reverifier (`rowverify.go:84`);
* the docs promise one verify job at a time (409) and only the last result, the code accepts
  and keeps any number;
* the docs say a reconcile tick is skipped while a pass runs, while the tokio interval
  delivers missed ticks afterwards;
* an early success of a pass, before any watermark was received, leaves an older
  `last_error` in place (`tracking_state.rs:212`).

**Bounds.** `MaxLog`, `MaxBatch`, `MaxFaults`, `MaxLate` and `MaxJobs` appear in guards
only. Three source changes are what an insert of a parent, of its child, and a change of
either between two statements of a pass need; two faults combine a crash with a lost
reply or a feed restart with an SQL error; batches of two put two changes of one row in
one request. A pass has four statements with two tables, so ingestion can fall between
any of them. Four tables give every shape of cycle with a tail. Two jobs over two
databases give a stop between databases, inside a run, and a shutdown with another job.

Three keys with pages of two give a full page followed by a partial one, a page boundary
between two sides that differ, a drain, and a summary that is due; the neighbour's key
shows that a scan stays in its range. Two batch entries and two retries give a flush
before the end and a key that is queued twice. One write and one fault are enough for
every exception the properties name. `verify_run` is a union of families of scenarios:
all pairs of 11 definitions for the comparison, all small catalogs for the merge and the
filters, all extremes of integers of 3 bits for the splits, so that the wrap of the range
and of a boundary happen, and the options one at a time; combining them adds nothing,
because each step reads only its own part. In `verify_request` one change of the file falls
between startup and a request, between two reads of either, or repairs a start that failed.
Two workers over two shards, and one worker over several, give every order of handing out
and ending.

**Fairness.** The sink retries until it is answered (`Deliver`), the worker's timer
ticks for ever and its statements return (`Worker`), a dead process is restarted
(`Start`): weak fairness. `IngestResolved` of the newest watermark has strong fairness:
passes take the `stream_state` row lock again and again, but PostgreSQL queues waiters
on a row lock, so the request gets its turn. Faults, source commits and late requests
have none. In `VerifyJobs` handlers and goroutines keep running, and a run is assumed
to return only once its context is cancelled. In `RowVerify` queries return and
goroutines are scheduled (`Merge`, `Reverify`, `FetchPage`, `Receive`); writes and faults
have no fairness. In `VerifyRun` the main goroutine and the workers keep running and a
shard ends one way or the other, which is what `ShardReturns` of `RowVerify` shows.

## What is proved

Every safety invariant, every action property and the refinement that a passing run
checks is also a theorem: it holds for every value of the constants that satisfies the
named assumptions, which TLC evaluates on its instances. Liveness stays with TLC. The
assumptions, and why the code justifies them:

| Assumption | Says |
|---|---|
| `SchemaAssumption`, `OrderAssumption`, `InitialAssumption` (pipeline) | rows belong to tables; every table is once in the order and after the tables it references, as `ReconcileOrderProofs` shows of `from_schema`; the real tables start consistent |
| `InputAssumption` (`ReconcileOrder`) | no table is selected twice |
| `JobsAssumption` | no database is configured twice (`Config.Validate`) |
| `RowVerifyAssumption` | keys are finitely many integers and `Absent` is neither a key nor a row; page, batch and summary sizes are positive; at least one retry |
| `ShardAssumption` | two's complement: the least integer is one further from 0 than the largest |
| `RunAssumption`, `ScenarioAssumption` | at least one CPU; catalogs are finite; the extremes read from a table are keys of its type |
| `RequestAssumption` | `/` is a character; configurations and requests have the shape YAML and JSON give them; a credential that is not declared has no source (`declared` and `sourceCount` read the same fields) |

### Runner

`PipelineProofs`:

* `TypeCorrect`, `TrackingCorrect`, `WatermarksNeverRegress`: direct inductions; the
  second needs the first for the ranges of the watermarks.
* `PassesAreExact`: `UntouchedRowsExact` speaks of the end of a pass and is not
  inductive. `PassProgress` says what the statements executed so far established for
  rows not touched since; ingestion can only enlarge `touched` (`IngestTouches`), a
  statement extends it by its own table, and every table has both its statements in a
  pass (`TableStatements`).
* `QuietPassesAreAccepted`: from `PassProgress` and the constraints of the open
  transaction (`RealConsistentInvariant`). In the upsert phase the parent of a
  referencing row comes earlier in `UpsertOrder`; in the delete phase a row still
  referenced belongs to a later table, whose delete came first.
* `AcknowledgedIsDurable`, `ClaimsHoldForUntouchedRows`: assume `MaxLate = 0`, and the
  run `late_request` shows why. The strengthening is that the acknowledged positions are
  closed downwards per row (`AckedClosed`), so that a resend never brings back a value
  older than an acknowledged one.

`ReconcileOrderProofs`: `LoopInv` (indegree = number of parents still to be placed,
`ready` = unplaced tables without any, each placed after its parents) is inductive;
from it `OrdersAreTopological`, `CyclesAreReal` (a smallest rank among the remaining
tables is impossible) and `OrderIsDetermined`. Together they discharge
`OrderAssumption` of the pipeline.

### Jobs

`VerifyJobsProofs`: `JobInv` relates the statuses of a job's databases to the counter of its
goroutine: those before the counter have ended, the others are all running or all stopping,
and the cancel function is there until the goroutine is done. Jobs share nothing, so the
invariant is one formula about each job, plus `StoppedInv`. It is needed because
`ActiveIsStoppable` alone is not inductive: a status derived from all databases does not say
which of them the goroutine will write next. From it `ActiveJobsAreStoppable`, `SucceededJobsAreClean`,
`StopsAreRequested`, `ResultsAreFinal` (an action property: only a database that has not ended
is ever written, `CurrentIsUndecided`), and step by step the refinement `JobsFollowLifecycle`: a critical
section maps to a step of `JobLifecycle` or leaves what a client sees alone.

### One shard

`RowScanProofs` and `RowVerifyProofs`. A page is the first rows of a range in key order, so
a cursor divides the keys into those handed out and those still *coming*; `Receive` and
`FetchPage` move the border and never a row across it. The invariant then says where every
key is:

* a row that nobody wrote is still coming from its side or the merge has passed it
  (`TruthCover`, `TargetCover`), and the row at hand precedes everything that is coming
  (`RowInv`);
* a key is in exactly one of: decided, pending, queued, being looked up (`PlaceInv`), and
  only keys the merge has passed are in any of them (`HandledInv`);
* every key the merge passed was told to the listener, if there was something to tell
  (`TruthTold`, `TargetTold`), and what an outstanding lookup holds is what the tables hold
  for untouched keys (`LookupFresh`);
* counters, retries and columns already reported (`CountInv`, `RetryInv`, `SeenInv`), and
  what each phase has behind it (`PhaseInv`).

`KeysAreHandledOnce`, `VerdictsAreTrue`, `FinishedShardsAreExact`, `QuietShardsWereReported`,
`FindingsWereRetried` and `RowsAreCounted` follow. The second and the third are the ones a test can
hardly reach: both sides are read in pages at different moments while others write, and the
theorem has any number of writes and faults at any moment.

### One database

`TableVerifyProofs` is about loops and arithmetic. Loops are recursive functions of the
number of rounds; that such a function exists and what holds after each round is proved
with a set form of induction (`SetInduction`: the least number outside the set cannot
exist), since the library's induction theorem cannot be used by the installed provers.

* `ComparedTables`: over sorted lists without two names that differ in letters only, the
  merge pairs exactly the equal names and reports the others on their side. Its invariant
  is that everything behind a cursor is smaller than everything ahead of the other one
  (`MergeOrder`).
* `ShardsCover`, `ShardsDisjoint`: consecutive ranges share their border, the first starts
  and the last ends without a bound, so every key is in one; and if nothing wraps the
  borders increase (`SplitExact`), so no key is in two.

`VerifyRunProofs`: the invariant says what is behind each phase (`PhaseInv`), that a shard
was fed, is at a worker or was run exactly once (`WorkInv`), that lists, table results and
shards are what the catalogs determine (`ListInv`, `TablesInv`, `ShardInv`: the shards of
the tables split so far stand in the list one table after the other), and that the findings
are those of the tables, inside the filter (`ReportInv`, `Accounted`). It is needed because
`CleanMeansCompared` speaks of the last state and of all steps that led to it: no findings
means that no table was missing and no definition differed, hence every table was cut into
shards; these hold every key; and each of them ran. The theorems are `TablesAreAccounted`,
`ShardsPartitionKeys`, `FilterIsKept`, `NobodyIsLeftBehind`, `DifferencesAreKept` (an action
property) and `CleanRunsCompared`.

### Requests

`VerifyRequestProofs`: credentials are read one by one while files change, so nothing about a
connection holds of one state of the files. The inductive invariant says of a call that is
being handled that each credential read so far is what its source held in some state since
the call arrived, and that those still to be read come after them (`ReadOk`); of a call that
was answered that its plan or connection consists of such credentials and its plan follows
its request (`AnswerOk`); and of the process that a configuration that serves resolved in the
states `started` (`ProcessOk`).

* `CredentialsAreFresh`: a connection that resolves has exactly one declared source per
  credential, its own or the default's, and the value that source held at some moment
  between the arrival of the request and its answer. That two credentials come from the same
  moment is neither claimed nor true.
* `PlansFollowGlobs`: a plain glob is its own regular expression and compiles whenever
  `path.Match` accepts it (`PlainRegex`); an empty list of globs means `*`, which matches
  every name as a regular expression (`StarMatches`). The run tries names of up to two letters, the theorem has all.
* `StartupCheckIsEnough`: if the files did not change during the check and hold the same
  during a request, the same databases resolve.

**Only model-checked:** liveness (`Converges`, `StopEndsJob`, `ShardReturns`,
`RunReturns`, `EveryShardStarts`), which needs fairness and is out of the prover's reach. What
`Matched` computes for an arbitrary glob is not compared with a reference definition:
`path.Match` and `regexp` are libraries, and the theorems need only that both uses of it
agree.

## Not modelled

* Runner: payload parsing and routing, configuration, startup plan and catalog loading,
  the steps of bootstrap, several mappings on one destination, metrics. Tables without a
  primary key are outside the pipeline model: their passes fail always (`upsert.rs:15`).
* Verify-service: drivers, the conversion of datums (`RowVerify` assumes that a datum keeps
  its family and value), the SQL that reads catalogs and extremes, parsing of YAML and JSON
  text, rendering of findings, the SQL `FixReporter` prints, metrics and logging. In live
  mode the scan and the reverifier add to the same counters without synchronisation; the
  counters of the scan alone are modelled. `MaxRetries = 0`, which retries for ever, is
  outside the assumption of `RowVerify`.
* Both: TLS, sockets, process arguments, wording.

## Plan

1. `Bootstrap`: several mappings, crash between statements, restart; two mappings on one
   destination whose foreign keys cross.
2. `Ingest`: classification, routing and error answers of a request.
3. Proofs: the invariants of those modules; the fairness `VerifyRun` assumes of a shard as a
   stated interface that `RowVerify` implements.
