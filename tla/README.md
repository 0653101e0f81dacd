# Specifications of ea-bknd-3

TLA+ models of the parts of this server that have something to get wrong over
time: the ETL engine and its runs, sessions, the admin allowlist, the SQL
pipeline behind the MMS sales figures, the meters with every report that is
computed from their readings, and the cache in front of the reports. Each module names the code it follows;
`PROJECT.json` maps every definition to source lines, lists every run, the
properties it checks, a faulty variant of the code that breaks each of them,
the theorems, and the hazards the properties are aimed at.

Paths below are relative to the repository, which is `src/` in the map.

## 1. The system

A Go HTTP server (Gin, PostgreSQL through Bun and pgx, Redis) for the metering
and sales data of an electricity company, with an ETL engine in the same
process and a set of SQL procedures in the same database.

| Component | State it keeps | Operations | Talks to | What is hard | What makes it correct |
|---|---|---|---|---|---|
| **ETL engine** (`internal/etl/engine.go`, `run.go:1-146`) | `jobsByID`, `cancelFuncs`, `sourcePools`, dispatch channel, `running`, `runCancels`; tables `etl_jobs`, `etl_sources`, `etl_job_runs` | `Start`, `reloadLoop`, `reload`, `scheduleJob`, `worker`, `runOnce`, `TriggerNow`, `Cancel`, `Stop` | admin API, ETL runs, PostgreSQL | goroutines over shared maps, manual against scheduled runs, stale copies, process stops | one run per job; no leaked lock; Stop hits the run it names; history is truthful; jobs follow their rows |
| **ETL run** (`run.go:147-830`, `query.go`) | rows gathered, `last_watermark` in `etl_job_state`, destination tables | `extractAndLoad`, `runExtractQuery`, `loadBatch`, `applyDateRangeWindow`, `saveRangeCheckpoint`, filter chunks, keyset pages | source databases, destination tables | runs that break between commits, lost answers, boundaries of batches, slices, chunks and pages | what is behind the checkpoint is accounted for; nothing is loaded twice without a failure; newest version wins |
| **ETL HTTP source** (`httpsource.go`) | offset, page, current rows | `Next`, `fetchPage` | external HTTP APIs | no total to compare with, pages that come short, APIs that ignore paging | a run that succeeds has read in order, and everything unless the API sent less than it had; it always ends |
| **ETL administration** (`service.go`, `handler.go`, `repository.go`) | rows of the ETL tables | CRUD of sources and jobs, `RunNow`, `CancelRun`, listings, test queries | engine | edits while runs are in flight, cascades | deletion and edits never corrupt a run in flight |
| **ETL connectors, credentials** (`connector.go`, `sql/etl_sources_password_encryption.sql`) | none | open a driver, decrypt a password | source databases | I/O | – |
| **Sessions** (`internal/services/auth.go`, `internal/auth`, `internal/middleware`, `internal/handlers/auth.go`, `internal/scheduler`) | `users.token_version`, `refresh_tokens` | three logins, `Refresh`, `Logout`, `CheckTokenVersion`, `ResetAllSessions` | PostgreSQL, LDAP, Azure AD | each request is several statements without a transaction | bounded sessions, single-use refresh tokens, a reset logs out |
| **cmd/breakglass** | a user row and its allowlist entry | create or rotate an emergency account | the tables above | runs next to the server | does not undo a reset |
| **Allowlist** (`internal/notifyemail`) | `notify_emails` | list, add, remove | every admin route | check, then act | never empty |
| **Comments** (`internal/comments`) | comments, reactions (JSON) | create, edit, resolve, delete, react | – | read, then write whole lists | no lost reaction |
| **Announcements, feedback** | their tables | single statements, one transaction | – | little | one active maintenance notice |
| **Response cache** (`internal/cache`) | Redis keys with a TTL | read-through, invalidate | GET routes | answers computed before new data arrives; days that end between reading and storing | an answer is one to what was asked; nothing read while data were landing lasts |
| **Meters** (`internal/meters`) | `meters`, `express_feeders` (soft delete); `meter_consumption_daily`, filled by `migrate_raw_meter_readings` | CRUD; consumption, status, health, map and energy balance reports (SELECTs) | allowlist, response cache, feed of readings | some fifty statements, each with joins, filters and letter case of its own; retired meters; absent records; places that do not fit | figures shown side by side agree; retiring a meter changes no report |
| **Sales queries** (`zeussales`, `zeusbilling`, `botconsumption`, `bxcconsumption`, `pnsconsumption`, `holleyconsumption`, `ecash4consumption`, `alphaconsumption`, `mmssales`, `salessummary`) | none | aggregates | summary tables | fast path against slow path; concurrent fetches joined | the two paths agree |
| **MMS sales pipeline** (`sql/mms_*.sql`, `sql/summary_mms_*.sql`) | `mms_sales_accounting`, `mms_customer_sales`, `mms_sales_daily_summary`, `mms_customer_activity`, `migration_checkpoints`, `synced_through` | accounting procedure, resync, duplicate flags, summaries | external feeds, sales queries | COMMITs inside a procedure, rows delivered between two statements of a batch, breaks, restarts, windows | no gap behind the checkpoint, sums in step with rows, repeated readings count once |
| **Zeus sales pipeline** (`sql/*zeus*.sql`) | staged bills, `zeus_sales`, roster and summary | resumable migration, summary refresh | sales queries | breaks, several versions of a bill | as above |
| **UDIS, raw readings** (`sql/*udis*.sql`, `sql/raw_*.sql`) | readings | one-off rebuilds | – | – | – |
| **AMR customers, feeders, service areas, login statistics** | none | SELECTs | – | – | – |
| **Process wiring** (`cmd/server`, `config`, `database`, `routes`, `logger`) | configuration | start, shutdown | all | order of shutdown | – |

How they interact. The admin API writes `etl_jobs`; the engine notices at its
next reload. Manual runs and Stop call the engine directly and share its maps
with the workers. A run writes the destination tables, among them those the
SQL pipelines start from, and its end to `etl_job_runs`. Every request passes
the middleware, which compares its access token with `users.token_version`;
the scheduler raises that version at midnight UTC. The allowlist guards the
admin routes. The components meet only in tables, in the two maps of the
engine, and in the session version, so each module below stands on one side of
such a meeting point and models the other side as an environment: a run is an
interval with an outcome in `EtlEngine`, and "never overlaps with itself"
(proved there) is what `EtlLoad` and `EtlRange` assume.

## 2. The modules

| Module | Code | State ↔ code |
|---|---|---|
| `EtlEngine` | `engine.go`, `run.go:90-146`, `run.go:780-810`, `service.go:653-724` | variables are the fields of `Engine` and the two tables; `thread` holds the program counters of workers (`runOnce`) and of `TriggerNow` goroutines, `sched` those of scheduling goroutines |
| `RunLedger` | what `etl_job_runs` promises its readers (`ListRunningRuns`, `ListRuns`) | abstract specification; `EtlEngine!RunHistory` is the refinement, with `live` mapped to the runs whose thread has a row and no recorded end |
| `EtlEngineProofs`, `EtlLoadProofs`, `EtlRangeProofs`, `HttpPagesProofs`, `SessionsProofs`, `MmsSalesProofs`, `ResponseCacheProofs` | – | theorems about the module each is named after |
| `MeterReportsProofs` | – | theorems about the tables of the meters, their administration and all their reports, and about `Allowlist` |
| `EtlLoad` | `run.go:221-252, 480-733`, `query.go:97-126` | one plain job; `rows`/`batch` are the result and the slice being gathered in `runExtractQuery`, `Flush` is the transaction of `loadBatch` |
| `WatermarkLog` | what `ETL.md` promises of incremental jobs | abstract specification; `EtlLoad!ImplementsLog` maps `loaded` to the rows the destination accounts for |
| `EtlRange` | `run.go:75-98, 147-220, 254-433`, `query.go:175-214` | one ranged job; `win` is the slice, `values` the filter values left, `cursor` the keyset cursor, `rows` the page left; a reading is a meter, a time and an item, and the key a page ends on is the first two |
| `HttpPages` | `httpsource.go:265-480` | fields of `httpRowSource`, `read` is what the run has scanned; `curtailed` remembers that the API sent a page with less than it had for it, a body without the array being an empty page (`:269-279`) |
| `Sessions` | `services/auth.go:62-469`, `scheduler`, `cmd/breakglass/main.go:120-145` | one user; each statement of a login or refresh is an action |
| `Allowlist` | `notifyemail/handler.go`, `sql/notify_emails.sql` | the check of the caller, the count and the write are separate actions |
| `MmsSales` | `mms_sales_accounting_migration.sql`, `mms_resync_*.sql`, `mms_customer_sales_dedup.sql`, `summary_mms_*.sql` | tables as functions of meter and day; a sum is the set of what was added up, so that a missing, stale or doubled term shows; picking a batch (`:213-222`) and loading it (`:228-348`) are two actions, `slipped` names the rows that got in between, before the first month picked |
| `MeterTables` | `meters/service.go:144-564`, `:6055-6180`, `sql/raw_meter_readings_migration.sql` | `meters`, `feeders`, `daily` are the three tables; the administration's writes, the arrival of readings, the filters of `buildReadingFilters` |
| `MeterConsumption` | `service.go:566-2663` | no state: each daily and aggregated report is an operator of a query `q`, named as its method; `Registers` stands for `app.meter_readings_daily`, the cumulative registers that `GetAggregated` alone sums (`:630-740`) |
| `MeterStatus` | `service.go:2665-3454`, `:3921-4413` | the same for status, health and the top and bottom consumers |
| `MeterMap` | `service.go:3457-3919`, `:4416-4948`, `:5848-5994` | the same for places, lists of filters and the regional map |
| `MeterBalance` | `service.go:4951-5622` | the same for the energy balance between regions |
| `MeterHandlers` | `meters/handler.go` | `Handle...` is what a request answers (400, 500 or a body) or, for the administration, the action it takes; `Next` composes them with the feed |
| `MeterReports` | – | the properties: what the reports promise each other |
| `ResponseCache` | `cache/middleware.go`, `cache/redis.go` | `store` is Redis by key, `threads` the requests under way; looking up, reading and storing are separate actions; a value is a list of names with the separators in it, and `KeyOf` what is left of a request when names and values are sorted and joined unescaped |

`MCEtlEngine`, `MCEtlLoad`, `MCEtlRange`, `MCSessions`, `MCMmsSales`,
`MCMeters` and `MCResponseCache` hold the values and symmetries of the checked
instances. Definitions that end in
`_bug` are faulty variants of the definition they stand before; no action uses
them. They are what `mutants` substitutes to show that a property notices.

Granularity. An action ends where another actor can get in: at a mutex, a
channel operation, a statement, a commit. What happens under one mutex or in
one transaction is one action. A failing statement, a lost answer and the stop
of the process are separate outcomes of the step they can hit. Error paths
that only return an error to the caller and change nothing are left out.

The reports of the meters keep no state, so they are operators, and the state
machine they are checked on is the tables they read. A query is a record of
parameters; a statement with its joins is a set of rows built from the tables;
a `GROUP BY` is a set of groups with their sums. Statements that differ only in
the type of meter share one operator, and those whose filters, joins or
grouping differ have one each, because the differences are what can go wrong.
The six columns that reports select, filter and group by in the same way
(station, location, panel, `ic_og`, voltage, factor) are one, `site`. An area is
a place; that a meter's coordinates lie in it is a set of places, with more than
one on a border and none outside. NULL is a value that compares equal to
nothing, as in SQL; NULL arithmetic and division by zero are `Failed` or `Null`
where a statement meets them.

What is abstracted. Rows are numbers or model values. SQL text is what the
statement does to the tables. Trigger times are "the timer fires, now or
later". Outcomes of an extract are `ok`, `broke` (an error of its own) and
`interrupted` (its context ended).

## 3. The runs

| Run | Question | Bounds, and why they are enough |
|---|---|---|
| `etl_runs` | Do overlap guard, locks, Stop and history survive races, failed writes and process stops? | one job (jobs share nothing but ids), two workers and a manual run: every pair of kinds of thread can meet; three run rows, an edit or deletion, one process stop. Symmetry over threads. |
| `etl_live` | Does the planner follow the table, and does every lock come back? | reload applies stale reads while a job is edited twice, with two generations of goroutines alive; one worker, one manual run |
| `etl_bad_edit` | Does a job without trigger times get scheduled when it is given some? **It does not.** | one edit |
| `load` | Is an incremental run safe to break anywhere, for appending and upserting jobs, and is a full refresh complete? | four rows, batches of two: an inner boundary, a full last batch and a short one; two versions of one record; two breaks, so that a retry can break too |
| `range` | Do slices, chunks and pages of a ranged job fit together under failure, late readings and new meters? | a job with pages of one row and chunks of one meter, one with neither; readings on both sides of every boundary, two of them with one key; the clock from 2 to 4; two breaks |
| `range_bad_ties` | Does a paginated job load all rows of a key? **It does not, when a page ends among them.** | pages of two rows, no breaks and nothing late: the loss needs neither |
| `pages` | When does the pager stop, and what has it read? | 0 to 6 records in pages of 2 with a breaker at 4 pages: short, full, empty and no last page; a short page or a body without the array anywhere; growth in between; an API that ignores paging |
| `sessions` | How far do session limit, rotation and reset hold? | two requests at a time, four tokens, one reset or one failing statement, one password rotation |
| `allowlist` | Can the list become empty? | three emails, two requests, `cmd/breakglass` |
| `sales` | Are rows, flags, sums, activity and checkpoint in step whatever the order of feeds, batches, breaks and resyncs? | two meters, two months of three days, batches of two keys of four (a batch that spans months and one that does not), overlap of a day, four arrivals, any of them between two statements of a batch |
| `meters` | Do the figures that different reports compute from the same readings agree, whatever was registered, edited or retired, and does retiring leave them alone? | two districts of two regions; four meters and a pair of express feeders; one edit of every kind before, between or after up to two arrivals of readings: a number registered again elsewhere, a boundary with an unknown end, a meter outside every area, one on a border without a district and with its type in lower case, a correction, an export, a reading of nobody's meter; eight queries (all, one day, by region and month, by station of the balance, by number, by lower-case type and district, by boundary, an empty range and one without a start). One edit is enough because every report is a function of the tables: what matters is which rows exist, not how they got there. |
| `cache` | Is an answer the answer to what was asked, and is what was stored while readings were landing gone when the day is over? | two requests at a time, four questions that differ in order, parameter and last day, one of them with a value that reads like another parameter, a day of two ticks, a short life of 1 and a long one of 3, the clock to 3: one midnight, with entries stored on both sides of it |

What each property says is in the comment above it; the ones a reader may
argue about:

* `EtlEngine!RunHistory` (refinement): a row is started once under a new id,
  while its job has no other run in flight; it ends once and its end is never
  rewritten. Rows whose end was lost stay "running": nothing in the code
  repairs them, and the ledger says so.
* `EtlEngine!OneScheduler`: reload reads two tables without the mutex and
  applies them later; a job can be unscheduled and rescheduled while its old
  goroutine is still on its way out. Two goroutines may exist, but only one
  has not been told to stop, and it is the one `cancelFuncs` reaches.
* `EtlLoad!ImplementsLog`: the destination holds exactly the source rows up to
  the watermark. It needs rows with distinct watermark values, arriving in
  their order; section 5 says what happens otherwise.
* `EtlLoad!EventuallyLoaded` is stated for appending jobs. An upserting one
  gets stuck for ever behind a batch that holds a conflict key twice, because
  PostgreSQL refuses the statement (`run.go:711`).
* `EtlLoad!ResumeLosesNothing`, which is proved and in no run, since
  `ImplementsLog` says no less, is an action property about the end of a run:
  what its query selected and it did not load is above the watermark that the
  next run starts from. It needs rows with values of their own, too.
* `EtlRange!NothingSkipped` excludes readings that arrive behind the
  checkpoint and meters listed after their slice; the code never asks for
  either again. In a paginated job it says of a reading that some reading with
  its key is in the destination (`StandFor`): the cursor goes behind the key of
  the last row of a page, and skips the others with that key that the page had
  no room for. `PagesLoadAll`, that every reading is there, is what
  `range_bad_ties` refutes; `CatchesUp` is weakened in the same way.
* `HttpPages!EndMeansAll`: a short page is taken for the last, and a body
  without the array at `records_path` counts as an empty page, so a run may
  succeed with a short list. The variable `curtailed` says that the API sent
  less than it had; what is true even then is that records were read in order
  and once each, unless the API also ignores the offset.
* `Sessions!SessionsBounded` is what the code gives instead of "max 2 sessions
  per user" (`auth.go:313`): one more per concurrent request and per failing
  statement.
* `EtlLoad!LoadedOnce` and `MmsSales!SummaryCounts` each say both halves of one
  fact: a row is there once and as its newest version; a repeated reading is
  flagged and not in the sums.
* `Sessions!NoSurvivor` excepts a refresh that read its user before the reset
  and stores afterwards (the variable `late`), and `MmsSales!RecentActivity`
  speaks of the overlap only; section 5 says what happens to the others.
* `MeterReports!ConsumptionAgrees` compares the daily report of a type, the
  periodic one and the general one asked for that type. `GetAggregated` is
  modelled but compared with none of them: it sums cumulative registers. A
  number registered twice is counted twice by all of them, which the property
  allows because all do; what it would not allow is one of them leaving out
  retired meters. Of a pair of express feeders over one day it says how often
  each end is counted: once for every row of the other end.
* `MeterReports!StatusAgrees` adds up the classes of every status and health
  report, pages included, and allows the details to fail only when numbers are
  asked for. The pages of the health categories are added up where all of them
  answer.
* `MeterReports!MapsAgree` compares the map with the series only while every
  meter is in the one area its record names; the spatial lists, counts and
  filter lists are compared always, the list of mismatches with the counts only
  while every area has both of its names: a meter in an area with a region and no
  district is listed as a mismatch, but is counted neither as mismatched nor as
  outside.
* `MeterReports!BalanceAgrees`: over all regions exports and imports cancel but
  for the flows of which one end is no region, and every regional answer is a
  part of the whole one. The line of the meters without a region is excepted: it
  is called "unknown" only after the lines are filtered (`service.go:5163`).
* `MeterReports!RetiringKeepsReports` is an action property over all the
  reports: the lists of the administration lose the meter, no report changes. It is about
  meters: retired pairs of express feeders do leave their reports (section 5).
* `ResponseCache!AnswersTheQuestion` is about requests that give each parameter
  once and have no separators in their values. `buildKey` joins decoded names and
  values without escaping them (`middleware.go:117-138`), so
  `district=B%26region%3DA` has the key of `district=B&region=A`; keys under
  which the answer to such a request was stored are excepted (`spliced`). What is
  left is that the order of names and the sorting of the key never mix up two
  questions, and that nothing else is served under a wrong key.
* `ResponseCache!OverIsComplete` excepts readings that land after their day is
  over and an answer read before midnight and stored after it (section 5).
* `MmsSales!AccountingIsSummed` and `SummaryCounts` except rows that slipped into
  a batch between its two statements, in a month before its first one, until
  somebody rebuilds that month (`slipped`).
* `MmsSales!LoadedUpToCheckpoint` excludes keys delivered or corrected behind
  the checkpoint (the variable `late`), which only `p_reset` loads.

### Fairness

`EtlEngine!FairSpec` assumes weak fairness of the goroutines' own steps: the
Go scheduler runs every goroutine that can run, the reload ticker keeps
ticking, and `extractAndLoad` returns because its context has a timeout
(`run.go:111`). Nothing is assumed of administrators, operators, timers or
crashes, and no strong fairness is needed. A worker that could be starved on
the channel is a different worker taking the job. `EtlLoad` and `EtlRange`
assume that a run in progress goes on and that an idle job is triggered again,
which is what `TimedJobIsScheduled` gives for jobs with trigger times; failures
are bounded by `MaxFaults`. `HttpPages` assumes that the engine goes on
calling `Next`. The source is never obliged to grow nor a call to fail.

Deadlock is checked where the system never stops of itself (`EtlEngine`,
`Allowlist`, `MmsSales`, `ResponseCache`); the other configurations switch it off because a
bounded model comes to an end there (all rows loaded and all breaks spent,
all tokens issued, the list read, all edits made and readings delivered).

## 4. What is proved

`EtlEngineProofs`, checked by TLAPS for every set of jobs, workers and manual
threads, every channel capacity and every bound, from `ConstantsAssumption`
alone (which TLC evaluates in every run of the module).

| Theorem | States | Inductive invariant |
|---|---|---|
| `TypeCorrect` | `[]TypeOK` | `TypeInv`: types, and what the program counter of a thread says of its job, run and outcome (`ThreadShape`); without it the type of the row a thread writes is lost |
| `OverlapGuard` | `[]OneRunPerJob` | `LockInv`: every holding thread's job is in `running`, and the two properties below. That two threads cannot both pass `TryLock` follows from the first part, and that `Unlock` releases no one else's lock from `OneRunPerJob` itself |
| `LockIsHeld` | `[]NoLeakedLock` | `LockInv` |
| `RunningIsTrue` | `[]RunningRowIsLive` | `RunInv`: run ids in threads are below `nextRun` and differ, a carried run's row is its job's, a registered cancel func has an owner |
| `StopIsPrecise` | `[]StopReachesOneRun` | `RunInv` |
| `CancelledMeansStopped` | `[]CancelledWasStopped` | `StopInv`: a context is cancelled, or an outcome "cancelled", only for a run whose `stop` is "sent" |
| `SchedulerIsUnique` | `[]OneScheduler` | itself, with the types |
| `EngineImplementsLedger` | `Spec => RunHistory` | every step of the engine is a step of `RunLedger` or stutters, given `TypeInv`, `LockInv` and `RunInv` |

The argument goes in that order: types first, then the guard, then rows, then
Stop, then the refinement, which uses all of them. Each has an `Init...` lemma,
a `Step...` lemma that splits `Next` into its actions, and frame lemmas for the
variables an action leaves alone. `Slots`, the bound on goroutines of a job
alive at once, is a constraint of the model; the theorems hold for any set of
slots.

`SessionsProofs` and `ResponseCacheProofs`, from `SessionsAssumption` and
`CacheAssumption` alone, for any number of requests at a time:

| Theorem | States | Inductive invariant |
|---|---|---|
| `SessionsTyped` | `[]TypeOK` of `Sessions` | itself; that the surplus a login deletes is a number needs the live sessions to be finite |
| `OnlyOvertakenSurvive` | `[]NoSurvivor` | `CarriedInv`: a refresh under way knows where the session it has found comes from, or that a reset has overtaken it. A reset ends every session, so what is live after it was stored by a request, which had read its user earlier |
| `StaleTokensRefused` | `[]StaleAccessRefused` | `VersionInv`: while the tool has undone no reset, `token_version` is the number of resets, and every pair carries the number there was when its user row was read. The tool undoes one exactly when the version it writes back is older than the one it finds |
| `SessionsAreBounded` | `[]SessionsBounded` | `CountInv` and `FamilyInv`, below |
| `NothingUnfinishedLasts` | `[]OverIsComplete` of `ResponseCache` | `CacheInv`: what was read of days that were over is complete but for late readings (`ReadBy`); an entry stored on a day of its range expires less than `Short` after the range (`ShortLived`); no entry has expired. So an entry of a range that is over for `Short` was stored after the range, and if it was read on that same day, it was read after the range too |
| `AnswersAsAsked` | `[]AnswersTheQuestion` of `ResponseCache` | `AnswerInv`: what is stored under a key that no request with separators used, and what was answered to a plain request with such a key, answers some plain request with that key |

The cap on sessions is three statements, so a count of the live sessions alone is
not inductive. `CountInv` counts with them the requests that are about to insert
a session and will delete none before (`Adding`): together they are at most
`1 + |Threads| + faults`. A request enters `Adding` by finding no surplus, when
the live sessions are at most one; from then on it holds a place that its insert
turns into a session, and only a failed statement adds a place that was not
there. `FamilyInv` does the same for the children of a refresh token: while it is
live, those it has and the requests past its revocation are paid for by failed
revocations; once it is not, its children and the requests that still hold it
are at most the threads and the faults, because nobody can take it up any more.

`ReadBy` is what makes `CacheInv` inductive: that an answer misses nothing is true
only of the moment it is read, and what stays true is that a day that is over
changes through late readings only. The arithmetic of days is three lemmas
(`DayOfGrows`, `DayEnds`, `DaysAreNat`), the only place where division is opened.
`AnswersAsAsked` comes down to one fact about `KeyOf` (`NamesInKey`): two plain
requests with one key ask for the same names, although a key of `ResponseCache` is
not one of a single request. Of the values of a parameter, and of the parts
of each value, the key keeps only how often each occurs, so the proof goes from such
a bag to its members (`SortedMembers`, `SortedCounts`), and a value that was given
once is told from its key (`SortedSingle`).
For this the module says what a value is:
`CacheAssumption` has them in `Seq(Value)`.

`EtlRangeProofs`, `HttpPagesProofs` and `MmsSalesProofs`, from the assumption of
each module alone (`RangeAssumption`, `PagesAssumption`, `SalesAssumption`):

| Theorem | States | Inductive invariant |
|---|---|---|
| `RangeTyped` | `[]TypeOK` of `EtlRange` | `TypeInv`: and the page in hand is of the chunk and the slice, in the order of the keyset |
| `NoSliceSkipped` | `[]NothingSkipped` | `SkipInv` and `TimesInv`, below |
| `PagesTyped` | `[]TypeOK` of `HttpPages` | itself |
| `NoShortList` | `[]EndMeansAll` | `ReadInv`: what was read is a prefix of the list, a page that is not the last is full, behind the last there was nothing if the API sent what it had; one that is deaf to the offset and has a full page never comes to a last one, unless it sends a short page after all (`Endless`) |
| `SalesTyped` | `[]TypeOK` of `MmsSales` | itself |
| `NothingLeftBehind` | `[]LoadedUpToCheckpoint` | itself, with the types: the batch is all there is between two checkpoints |
| `AccountingAlwaysSummed` | `[]AccountingIsSummed` | `AccountingInv`: and no row of the new feed is ever flagged as a duplicate; between picking and loading, what will be inserted is between the last key and the batch's maximum (`FirstLoaded`, `NewBefore`), so what is in no month rebuilt is in `slipped` |
| `WhatCountsIsSummed`, `RecentlyActive` | `[]SummaryCounts`, `[]RecentActivity` | `SummaryInv`, below |

`NoSliceSkipped`: behind the checkpoint nothing that is due is missing
(`Behind`), and of the slice in hand everything due is in the destination or yet
to come (`Gathered`), where in a paginated job a reading is accounted for by any with
its key (`StandFor`), which a break may falsify only by giving the slice up, with
the checkpoint where it was. "Yet to come" (`ToCome`) is a property of a row: in
the page, or of the chunk and behind the cursor, or of a chunk not begun. So a
query that misses a row, a cursor left over from the chunk before and a page that
ends early would each be a step that breaks it. That what is stamped behind the
end of a slice was there when it was asked for is `SliceInv`: a slice does not
reach into the future. `TimesInv` counts: a row has been loaded at most once per
break so far, and once more when it is no longer ahead of the run.
That each query returns its rows once and in order rests on finite sets being
finite (`Devices`, `Feed`), which `RangeAssumption` says.

`SummaryInv`: the three procedures of the resync look only at the meters that
changed and at a window of days, and the invariant says that this is enough. A
flag has a reason (`Justified`); one that is missing is missing only where the
next resync looks (`FlagsDue`); the same for what is summed (`CountedAreSummed`,
`Exact`), rows that slipped into a batch excepted, and the window never moves past a reading it has not seen
(`SyncedDated`).

`MeterReportsProofs`, from `TablesAssumption`, `NamesAssumption`, `RowsAssumption`,
`RegistersAssumption`, `HandlersAssumption` and `MapAssumption`, for any registry, feed and parameters:

| Theorem | States | Argument |
|---|---|---|
| `TablesTyped` | `[]TypeOK` of `MeterTables` | `TablesInv`: tables are sequences of rows with the columns of their table, the foreign keys hold, the readings are finite |
| `EndsAreMeters` | `[]KeysHold`: the ends of every express feeder, retired or not, are rows of `app.meters` | `TablesInv`; rows are marked, never removed |
| `StatusReportsAgree` | `[]StatusAgrees` | in every state of `TablesInv`, below |
| `ConsumptionReportsAgree` | `[]ConsumptionAgrees` | in every state of `TablesInv`: the daily, the periodic and the general report of a type group the same pairs of a reading and a meter, and a sum does not depend on its groups |
| `BalancesAgree` | `[]BalanceAgrees` | in every state of `TablesInv`: a flow is an entry of both of its regions, once in and once out |
| `MapReportsAgree` | `[]MapsAgree` | in every state of `TablesInv` and `PlacesInv`, below |
| `RetiringKeepsFigures` | `RetiringKeepsReports`: a step that retires a meter takes it, and no other, out of the lists of the administration, and changes none of the fourteen reports | `TablesInv`: retiring renames the rows of a report, below |
| `SomebodyStays` | `LastEmailStays` of `Allowlist`, for any emails (finitely many) and any number of requests | `ListInv`: a removal that was counted and not overtaken leaves an email that is not its target |

`StatusReportsAgree` is about six reports that count meters by number, by row
and by the columns of a `GROUP BY`, over a registry in which a number may be
there twice. Whether a meter answered, how many days it did and the category of
its health depend on its number only (`SameNumber`), so that the classes of a
report have no number in common, whatever rows they have, and
`NumbersAddUp` adds them. `StatusReportsAgree`, `RetiringKeepsFigures` and `MapReportsAgree` assume of the constant
`Failed` that it is none of the answers (`FailedIsNoPage`, `FailedIsNoReport`): TLC
gives it a model value, which differs from every other value.

`ConsumptionReportsAgree`, `BalancesAgree` and `MapReportsAgree` compare sums, and a
sum is a fold that `MapThenSumSet` takes over a set in an order it chooses. The
lemmas say what it comes to whatever the order: one term more for one element more
(`SumTake`), the sum of the sums of the parts (`SumParts`), the same over another set
that is numbered by the first (`SumImage`).
They need an induction on the size of the set, which the theorems of the library
state with an operator that the provers cannot instantiate; here it is one on the
least size of a counterexample (`LeastNumber`, `Smallest`), which is first order. On
those rest the lemmas about the model's own operators: the groups of `Grouped` add
up to the rows (`GroupsSum`), so the reports of the same rows agree, whatever the
columns they are grouped by. Of a pair of express feeders the sum over the product
of two sets of readings is the sum over one, times the size of the other (`SumProduct`). In the
balance a flow counts with both signs, once as an entry of either end, and what is
left are the flows with one end that is no region.

`PlacesInv` is the second inductive invariant: the names and the place of a row are
such as `MapAssumption` says of what is typed in, whatever was edited. It makes the
areas of a meter areas of `app.dbo_ecg`, and finite in number, so that the rows
of the spatial join can be counted: the statistics and each report of counts
split the same rows in two ways. The map and the series place a meter by
different columns; where its record names the one area it lies in, the two
joins have the same readings, each once (`SameReadings`, `OnceEach`).

`RetiringKeepsFigures` is about two states. Retiring a meter renames the rows of
`app.meters`: a function that is one to one and keeps every column but `deleted_at`
(`Retiring`, `RetiringRenames`) takes the old rows to the new ones. No report joins,
filters or groups by that column, so its rows are renamed too (`JoinedRenamed`,
`MapRowsRenamed`, `MeteredRenamed`), group by group, and counts and sums over
renamed rows are the same (`RenamedGroups`, `MetersSum`). One report after the other
(`DailyStays` to `BalanceStays`), the fourteen stay. A report may be grouped by
columns that the request names (`service.go:1131-1138`); the proof asked for what
`HandlersAssumption` now says of them, that they are columns of the meter other than
`deleted_at`, which is a time and has no `LOWER`.

What the attempts to prove these changed in the model. `FromA` and `FromB` kept
only the region and the sum of a flow, and so two flows of one region that differ
in nothing but their metering point became one entry; the statement is a `UNION ALL` of rows
that keep their point (`service.go:5211-5260`), and so are the entries now. The two
conditions under "a reader may argue about" above, of the region called "unknown" and of
areas that lack a name, were missing: no state of the checked instance needed them.

`EtlLoadProofs`, from `LoadAssumption` alone, for any tables, batch size and
number of broken runs:

| Theorem | Says |
|---|---|
| `LoadTyped` | types; no batch beyond `BatchSize` |
| `SuccessIsAlwaysComplete` | a run that succeeds has loaded all its query selected, whatever values rows share |

and for rows with watermark values of their own (`OwnValues`, an assumption of the
theorem and not of the model):

| Theorem | Says |
|---|---|
| `LoadedOnceEach` | `LoadedOnce`: nothing twice, newest version kept |
| `NothingIsSkipped` | `NothingSkipped`: nothing at or below the watermark is missing |
| `ResumingLosesNothing` | `ResumeLosesNothing`: whenever a run ends, what it selected and did not load is asked for again |
| `LoadImplementsLog` | `ImplementsLog`: the destination accounts for exactly the rows up to `last_watermark` |

The argument is about one sequence, `Pending == batch \o rows`, what a run has
gathered and not committed: reading leaves it as it is, a commit takes the batch
off its front, every end of a run empties it. `LoadInv`, for every job: its rows
are distinct, in order, not behind the watermark and not in the destination;
what is in the destination is behind the watermark; what the query selected is
in it or loaded. A commit therefore replaces older versions only by rows that
account for them (`CommitLoads`). `LogInv` adds, with `OwnValues`, that the run
still holds every row beyond the watermark except those that came after it
started, so that a batch is exactly the rows between the old and the new
watermark (`BatchIsNext`). That a query returns each selected row once is a
counting argument about finite sets (`ResultsAreComplete`).

Only model-checked:

* all liveness (`LockReleased`, `DisabledEventuallyStops`,
  `TimedJobIsScheduled`, `EventuallyLoaded`, `CatchesUp`, `PagingEnds`), which is
  beyond the prover.

Every invariant and every action property of the passing runs is stated by a
theorem.

## 5. Where code and documentation disagree

Shown by a run (see `findings`):

* trigger times added to a manual-only job are ignored (`engine.go:161`);
* of the readings with one key, those that a page has no room for are never
  asked for again (`run.go:430`, against `:409-410` and
  `sql/enable_udis_aug_filtered_pagination.sql:8-9`). The one paginated job of
  the repository pages by `(id, tv)` over up to six items of each.

Met while modelling, followed by the models, and not given a run of their own
(of the losses, each property that would notice names its exception):

* of rows that share a watermark value, those behind the end of a batch are lost
  when the run breaks after its commit (`run.go:514`, against `ETL.md:277-278`);
* a row of an earlier month that is delivered after a batch was picked is loaded
  with it and left out of the summary (`mms_sales_accounting_migration.sql:343`,
  against `:334-339`);
* the reports on express feeders leave retired pairs out, past days included
  (`meters/service.go:1832`, `:2033`, against `meters/model.go:79-80`);
* an answer read on the last day of its range and stored after midnight is kept
  for long, as "immutable" (`cache/middleware.go:67`, against `:82-83`);
* manual runs extract outside the pool of `ETL_WORKERS` (`engine.go:380`),
  which `ETL.md:248-251` and `engine.go:20-23` call the bound on extracts;
* a Stop between the insert of a run row and the registration of its cancel
  func is answered "not currently running" (`engine.go:389`, against `:448-449`);
* a Stop that arrives after a run has failed, before its status is chosen, is
  recorded as "cancelled" (`run.go:130`, against `models.go:58-60`);
* a copy of a job already on the channel runs after the job is unscheduled
  (`engine.go:208`, against `ETL.md:288-290`);
* a batch that holds a conflict key twice is refused on every run (`run.go:711`);
* a `range_start` in the future saves a checkpoint before it (`run.go:273`), and
  `range_step_seconds` 0 is accepted and loops (`run.go:274`);
* concurrent logins exceed the session limit (`auth.go:323`, against `:313`);
* `cmd/breakglass` writes back `token_version` (`main.go:139`, against `:126`);
* two concurrent removals empty the allowlist (`notifyemail/handler.go:127`,
  against `:120-122`);
* the summary keeps readings flagged behind the overlap
  (`mms_customer_sales_dedup.sql:82`);
* a corrected month is not restated without `p_reset`
  (`mms_sales_accounting_migration.sql:216`, against `:46-48`);
* a refresh that overlaps the nightly reset survives it (`auth.go:394`, against
  `internal/scheduler/session_reset.go`, which logs everyone out);
* an incremental resync drops the activity of the days of a month before its
  overlap (`summary_mms_customer_activity.sql:105`);
* reports join readings with meters by number alone, so a retired number that is
  registered again doubles its sums in all of them (`meters/service.go:758`);
* both ends of a pair of express feeders are joined row by row, so each end's sum
  is multiplied by the readings of the other over more than one day or system
  (`service.go:1788`);
* a filter by meter number makes the status details and the express feeder
  reports answer 500, because it names a table alias they do not have
  (`service.go:3041`, `:1788`);
* in the general and the transformer report the total compares places as they
  were typed with the columns as stored, while the active meters are compared in
  lower case: active can exceed the total (`service.go:1070-1085`, `:1187`); a
  meter registered with its type in lower case is in no report of that type;
* the range of dates is checked in some handlers only: where it is not, a range
  that ends the day before it starts divides by zero (`service.go:3041`);
* on the regional map, a meter with coordinates and no district is placed by its
  coordinates and once more in every district of its region, and one with
  coordinates outside every area nowhere (`service.go:4708-4822`, against the
  comment at `:4710`);
* the spatial statistics divide by the number of meters with coordinates, and JSON
  has no form for what comes out when there is none (`service.go:3683`);
* with meter types given, the arguments of the energy balance are appended in
  another order than their placeholders (`service.go:5029-5071`, against "ALL
  filters properly applied", `:4950`), and a group without a location makes `jsonb_object_agg` fail
  (`service.go:5314`);
* pages of lists are cut without a total order of their rows;
* the aggregated readings sum `total_val` of `app.meter_readings_daily`, a cumulative
  register which `services/meter_metrics.go:62-108` differences
  (`service.go:630-740`);
* a parameter given twice has one cache key whichever value comes first, while
  handlers read the first (`cache/middleware.go:104`);
* a range that is over, but to which readings still come, gets the long TTL
  (`cache/middleware.go:98-102`, against "immutable", `:82-83`);
* names and values are joined into a cache key without escaping the separators in
  them: a stored answer can be served for another question
  (`cache/middleware.go:117-138`);
* a body without an array at `records_path` counts as an empty page, and ends the
  run in success (`httpsource.go:269-279`);
* nothing calls `DeleteByPrefix`, which is meant to follow an upload
  (`cache/redis.go:57`);
* `strings.Split` makes one empty name of an absent parameter, so the meter
  metrics without regions and types filter everything out
  (`internal/handlers/meter_metrics.go`);
* the comment routes lack the middleware their handlers rely on and answer 401
  to every write (`routes.go:331`).

## 6. Not modelled

* Connectors, credentials, SQL text, logging, configuration: I/O or data.
* The queries of the sales packages, AMR customers, feeders, service areas and
  login statistics: read-only. Those of the meters show how they would be done,
  as operators over the tables they read.
* Of the meters: pages, sorting, ratios and formatting; the two requests that draw
  districts and regions (`service.go:5689-5846`), which read tables of their own,
  other than the map's `app.dbo_ecg`; and `meter_metrics.go`, which differences
  the cumulative `meter_readings_daily` that `GetAggregated` sums as it is.
* The cache together with the reports: `ResponseCache` stands for a report by
  the readings it covers.
* Comments: no request reaches the handlers' writes at this commit.
* Two server processes: each would have its own overlap guard; the code keeps
  no lock in the database, and the model has one process that may restart.
* A source edited while its pool is open, and two runs opening it at once.
* The Zeus pipeline, announcements and feedback: planned below. The raw meter
  readings: only what their migration does to the daily consumption.

Modelled, and not caught by any property, because the code does not prevent it
and the property that would notice is stated for the histories without it:

* trigger times that pass while the dispatch channel is full (`engine.go:186`);
  `TimedJobIsScheduled` is stated for jobs that always have trigger times;
* rows that share a watermark value, a row that slips into a batch (`slipped`), an
  answer read before midnight and stored after it, requests whose values read like
  another request's (`spliced`), pairs of express feeders that are retired;
* a batch refused for a conflict key that is twice in it (`run.go:711`), a job
  with a step of zero (`run.go:274`), readings behind the checkpoint of a ranged
  job (`run.go:190`);
* a refresh that overlaps a reset (`late`), a version written back by
  `cmd/breakglass`, removals from the allowlist that overlap (`raced`);
* keys delivered behind the checkpoint of the accounting procedure (`late`),
  readings flagged and months cut behind the overlap of a resync;
* a meter that fits two branches of the regional map or none, and the misplaced
  arguments of the energy balance.

## 7. Plan

Done: `EtlEngine` with `RunLedger`; `EtlLoad` with `WatermarkLog`; `EtlRange`;
`HttpPages`; `Sessions`; `Allowlist`; `MmsSales`; the meters (`MeterTables` to
`MeterReports`); `ResponseCache`. Every invariant that a run checks has a theorem.

Not modelled yet, in order of weight:

1. `ZeusSales`: the resumable migration (staged versions of a bill, the nine
   columns DO UPDATE sets), summary refresh and roster, as `MmsSales` is built.
2. `EtlSources`: `sourcePools`, two runs opening one source, edits of a source,
   `reload` closing pools, composed with a run that uses the pool.
3. `AmrCustomer`, after the pattern of `MeterConsumption`, and the filter,
   grouping and fast-path operators the sales packages share; `SalesSummary`
   with its concurrent fetches.
4. `MeterReadings`: the batch of `sql/raw_meter_readings_migration.sql:95-193`
   and `sql/refresh_meters_udis_id.sql:22-41` with loads landing between their
   statements, and `meter_metrics.go` over what they leave.
5. `TriggerTime`: `nextTriggerTime` over a small day against "the least trigger
   time after now".
6. `Announcements`, `Feedback`.

Runs that concern one question share a configuration, so that a new module
joins an existing MC module where it interacts with one.
