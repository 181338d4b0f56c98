# MacroVision: a TLA+ verification project

MacroVision is a FastAPI service with a SQL database (SQLite or PostgreSQL), a
polling worker that synchronizes economic series from external providers, and a
read-only web client. All coordination between processes goes through database
rows; there is no message broker and, apart from a heartbeat thread, no shared
memory. What is hard about it is therefore what happens between a `SELECT` and
the `UPDATE` that relies on it, across processes that stall, crash and come back.

This project models that coordination in TLA+, checks it with TLC on small
instances, and proves with TLAPS, for every value of the constants, what matters
most about the leases, the schedules, the macro data store, the quality issues, the
FRED client, the analytics runs, the portfolio and the decision workflow.

## The system

| Component | State | Operations | What is hard |
|---|---|---|---|
| Scheduler leases and worker (`scheduler_services.py`, `scheduler_worker.py`) | rows of `provider_sync_runs`: status, attempt, lease owner, expiry, generation | run-now, recover, materialize, claim, execute, renew, retry, fail, succeed | leases that expire under a live process, late completions, stale clock readings, crash between import and completion |
| Schedules and cadences (`scheduler_services.py`, `scheduler_api.py`) | rows of `provider_sync_schedules`: cadence, `next_run_at`, `last_scheduled_for`, `lock_version` | create, patch, enable, disable, run-now, materialize | lost updates, an occurrence run twice or skipped, coalescing after downtime |
| Provider synchronization (`provider_services.py`, `provider_registry.py`) | import batch under an idempotency key, observations, revisions | look up, fetch, import | not fenced by the lease; two imports at once; a provider that changes its answer between attempts |
| FRED client (`fred_provider.py`) | none across requests | metadata and observations: paged GETs with retries | one retry budget for all failures, pages that shift while they are read |
| Macro data store (`macro_data_services.py`, `macro_data_models.py`) | sources, series, immutable observations, revision chains, import batches, quality issues | import file, add observation, patch series, scan stale series, acknowledge or resolve an issue, as-of reads | partial imports, a crash with a batch in `processing`, revision sequences, timestamps taken before the commit |
| Analytics runs (`analytics_services.py`, `analytics_transformations.py`) | runs with request and snapshot fingerprints, outputs with lineage | execute, reuse, retry, fail | two executions of one request, a cutoff between revisions, windows over missing dates, crash before the commit |
| Analytics definitions (`analytics_management_services.py`) | versioned definitions under a `lock_version` | create version, enable, disable, read as of | two next versions at once, which version and which run a read chooses |
| Portfolio (`portfolio_services.py`) | cash, positions, append-only transactions, `lock_version` | buy, sell, deposit, withdraw, price update, snapshot | transactions computed from the same balances, rounding, reads in pieces |
| Decisions (`decision_services.py`) | a status machine with append-only history | research, review, activate, revise, invalidate, close | racing transitions, a gate that reads several tables |
| Investors and journals (`services.py`) | profiles, journals that are closed once | create, close | two closings at once |
| Dashboards and indicator catalog (`dashboard_services.py`, `indicator_services.py`) | none: they read the store and the runs | summary, comparisons | a summary put together from reads between which others commit |
| Web client, migrations, scripts, shared infrastructure | none of their own | reads, DDL, configuration | little |

Interactions. The API process writes schedules and inserts manual runs. A worker
cycle (`run_cycle`) recovers expired runs, materializes due schedules and claims
pending runs, one transaction each and all with one clock reading; then it
executes the claimed runs one after another, each beside a heartbeat thread that
renews its lease in sessions of its own. An execution reads the run, contacts
the provider outside any transaction, imports in a second transaction and
completes the run in a third. Analytics and dashboards read what was imported.

What makes each component correct: a run is claimed by one process at a time and
ends once (leases); every due occurrence is run at most once and in order, with
the settings in force (schedules); an import takes effect once (synchronization,
store); revision chains have no gaps and as-of reads never change their answer
(store); a series has one unresolved issue and no stale one is missed (quality);
the pages of an answer are complete or refused (FRED client); a run is
calculated from what was known at its cutoff, is answered once and can be
replayed from its lineage (analytics); balances add up to the transactions
(portfolio); history agrees with the status (decisions); what is compared
belongs together (dashboards). `PROJECT.json` lists the places where each of
these could go wrong, with the properties that watch them.

## Modules

| Module | Role |
|---|---|
| `RunLifecycle` | abstract: what the scheduler promises about a run, without clock, lease or process |
| `RunLease` | the lease protocol of runs, workers, heartbeats and imports |
| `MCRunLease` | its instances |
| `RunLease_proofs` | its invariants and safety properties, and that it implements `RunLifecycle`, proved |
| `Cadence` | the cadence functions, beside reference definitions |
| `ScheduleTable` | schedules under API clients and materializing workers |
| `ScheduleTable_proofs` | what the cadence functions return, and the safety properties of the schedules, proved |
| `MCScheduleTable`, `MCScheduleTables` | its instances, the second with two tables in one run |
| `ObservationHistory` | abstract: what the macro data store promises about observations and imports |
| `MacroStore` | observations, revisions and import batches under concurrent requests |
| `MacroStore_proofs` | its safety properties, and that it implements `ObservationHistory`, proved |
| `MCMacroStore` | its instances |
| `AtomicRecord` | abstract: a record under a lock version, which requests change one after the other |
| `Portfolio` | cash, positions, transactions and snapshots under clients that overlap |
| `Portfolio_proofs` | that the books add up to the transactions, and the atomic record, proved |
| `Decision` | the status machine of a decision, its research and its history |
| `Journal` | investors, journals and their closing |
| `SeriesQuality` | the bounds of a series, stale scans and the workflow of quality issues |
| `SeriesQuality_proofs` | its properties and the atomic record, proved |
| `FredClient` | one call of the FRED client: attempts, pages, refusals |
| `FredClient_proofs` | that pages are complete and requests bounded, proved |
| `Analytics` | definitions, versions and runs of a derived series |
| `Analytics_proofs` | exact answers and the order of the versions, proved; also that a run of `Transformations` does not look ahead and is what its lineage gives, and what `Dashboard` compares |
| `Transformations` | what one run calculates: cutoff, windows, formulas, lineage |
| `Dashboard` | the reads of a summary while imports and runs commit |
| `MCServices` | the instances of these eight, side by side |
| `Services_proofs` | the properties of `Decision` and `Journal`, proved; and of all instances of `MCServices` at once, from the theorems of each |

### RunLease

One transaction is one step, except where the code selects rows and later
updates them by what it saw: recovery (`RecoverSelect`, `RecoverCommit`) and the
claim (`ClaimSelect`, `ClaimCommit` or `ClaimRollback`). On SQLite nothing is
held in between. On PostgreSQL `FOR UPDATE SKIP LOCKED` keeps the selected rows
(`Locked`), and a claim takes up to `ClaimLimit` rows, one for each concurrency
key (`EffectiveLimit`, `Distinct`). A claim is rolled back as a whole when the
partial unique index on running concurrency keys, or the CHECK that a run starts
no earlier than it was created, rejects one of its rows (`ClaimRejected`).

| State | In the code |
|---|---|
| `run` | table `provider_sync_runs`; `gen` is `lease_generation`, `next` is `next_attempt_at` |
| `imported` | the payload of the import batch under the run's sync idempotency key |
| `pc`, `cur` | where a process stands in `run_cycle`, and its `current` |
| `picked` | ORM objects read in an open transaction |
| `queue`, `active` | the list `claimed` and its current element, with the generation as claimed: sessions do not expire objects on commit, so the value that a process passes on is the one it wrote |
| `answer`, `failure`, `beating` | the provider's answer, the classified exception, the heartbeat thread |

The recovery, claim, completion, retry and renewal actions use the clock as the
code does: the first two the reading of the cycle, which may be arbitrarily old,
the others a reading taken shortly before the UPDATE (`ClockReading`).
`Materialize` stands for the effect of `ScheduleTable` on the runs table: a
worker inserts at most `ClaimLimit` runs of different series.
A heartbeat ends with the execution (`FinishRun`). The code waits for the thread
no longer than a timeout, so that a renewal can come after it; the fence then
refuses it, since the row is no longer running under this generation, and what
such a renewal could do before that is what `Renew` does.
Worker ids may be equal: `default_worker_id` is the host name and the pid, and
`--worker-id` is free.

### ScheduleTable and Cadence

A request reads its row in one step (`Load`) and commits in another
(`CommitChange`), which succeeds only if `lock_version` is still the one that
was read (`StillCurrent`, the mapper's `version_id_col`); run-now looks for a
run under its idempotency key and inserts later (`LookupRun`, `InsertRun`). A
worker selects due schedules with its cycle's clock reading and commits the runs
and the advanced schedules together, or loses the whole batch to one stale row.
The next occurrences are computed by `Cadence`, in minutes with `Day` minutes a
day. `IsOccurrence`, `IsLatestUpTo` and `IsFirstAfter` define independently what
an occurrence is; two properties compare the functions with them on every value
the runs reach.

### MacroStore

The store of one series. `entries` holds the rows of `data_observations`
(sequence 0) and `data_revisions` (from 1), `batch` the import batches by
idempotency key, `pending` what a file import has written and not committed.
Three kinds of request run in any interleaving:

| Request | Code | Steps |
|---|---|---|
| synchronization | `synchronize_provider_series` | `Replay`, or `StartImport`, a `ReadRow` for each date, `Stamp`, `Commit` or `Conflict` |
| correction | `add_observation` | `Stamp`, `Refuse` or `ReadObservation`, `Commit` or `Conflict` |
| file import | `create_import` | `Replay`, or `StartImport`, `OpenBatch`, `ReadFileRow` and `InsertRow` for each row, `FinishImport` or `RecordFailure` |

`Commit` writes what the request read. A synchronization reads a planned
revision's date a second time, and gets either the present rows or, when the
session's identity map still holds the first ones, those; both are allowed
(`MayReread`). The unique constraints decide whether what was computed from old
rows goes through (`UniqueViolation`). Writes wait for each other as the
database makes them (`Waits`): on PostgreSQL for rows of the same date, on
SQLite for any open write transaction. `Interrupt` is every error no handler
expects, at any point: a crash, a lock that is not granted, a deadlock's victim;
a batch that was open then stays in `processing` for ever, as it does in the
code, and a replay is answered with it. On SQLite the driver begins no
transaction for a savepoint, so that each row of a partial import commits by
itself until one is rejected (`SavepointCommits`). Read locks that SQLite holds
inside a savepoint are left out, which allows a little more than can happen.

The instances have a series without quality thresholds and with an irregular
frequency, for which `_quality_checks` finds nothing. A row of `data_quality_issues` names
the series only; `issues` remembers of which row of which import, or of which
observation by hand, each speaks, so that `BatchCountsRows` can ask for one issue
for each rejected row. `errors` of a batch are the row indexes in
`data_import_errors`. The metadata that a provider sends with its answer does not
change here, so that a generated key (`GeneratedKey`) is determined by the answer.

### The services: Portfolio, Decision, Journal, SeriesQuality

A request of these services reads a row and its collections with one SELECT
each and writes at the end, under the `lock_version` it read. Each SELECT is a
step, the write another (`IsCurrent`), and other clients commit in between.
`AtomicRecord` is what the lock version is for: the record changes as if each
request that succeeds had read it and changed it in one step. All four are
shown to implement it (`RecordsAreAtomic`); what a change may be is, for each
of them, one request applied to what is stored.

| Module | State in the code | Actions |
|---|---|---|
| `Portfolio` | `book`: portfolio, balances, positions; `ledger`: transactions; `snapshots` | `LoadPortfolio`, `LoadPositions`, `LoadBalances`, `LoadTransactions`, then `RecordTransaction`, `UpdatePositionPrice`, `CreateSnapshot` or `Refuse` |
| `Decision` | `case`, `attached` (research by kind), `revisions` | `LoadCase`, `LoadCollections`, then `Commit` (all eight operations) or `Refuse` |
| `Journal` | `investors`, `journals` | `CreateInvestorProfile`, `CreateJournal`, `LoadJournal`, `CloseJournal`, `Refuse` |
| `SeriesQuality` | `series`, `latest`, `issues` with their events | `StartScan`, `ReadLatest`, `ReadIssue`, `FinishScan`, `LoadIssue`, `UpdateIssue`, `LoadSeries`, `PatchSeries` |

Money and quantities are integers, in units of the quantum to which the code
rounds half to even (`HalfEven`). `BooksAddUp` compares the rows with the whole
ledger: each balance and each position with the sum of what the transactions say
of it (`LedgerAddsUp`), and the cost basis of each symbol with what was paid less
the cost of what was sold, up to half a quantum for each unit of each buy that
averages (`CostIsAccounted`).

### FredClient

One call, with its page loop and, for each page, its attempts. FRED is external:
it may publish and withdraw observations between two pages, fail in any way,
ignore the dates asked for, and leave out the count of the observations or give
one that is no number. `IsMalformed`, `IsTooMany`, `CountOf` and `IsLastPage` are
the checks of `get_observations`. A missing count is taken to be that of the page,
which ends the call; `call.counted` remembers it, because what is returned then
need not be complete.

### Analytics and Transformations

In `Analytics` a run is one transaction: on PostgreSQL it reads the snapshot of
its first SELECT, on SQLite it holds the write lock (`MayWrite`). What it
calculates is represented by the set of revisions it resolved, and its
fingerprints by equality of what they are made of (`SameRequest`, `IsReusable`).
Rows with status `pending` or `running` exist only inside a transaction, so
that the disposition `active_existing` is never answered.

`Transformations` opens that step: which dates a window needs
(`RequiredTimestamps`, on a real calendar), which revision of each is eligible
at the cutoff (`EligibleVersion`), the nine formulas and the lineage. Meanwhile
sources are stamped and committed later. Values are integers and the output
quantum is 1; an intermediate result is exact, where the code has 38 digits.

### Dashboard

A summary reads observations, revisions, versions, runs and outputs with one
SELECT each; every one is a step between which observations, revisions,
versions and runs are committed.

### MCServices

The services share no row with each other, so that interleaving them would show
nothing. `part` says which of them moves in a behaviour; the other variables
stay as they were. `SeriesQuality` has two instances (one series over several
scans, several series in one), and so has `Dashboard` (one value and many
commits, many values). `MCServices` takes its instances of the modules of proofs
where there is one, so that their theorems can be cited of it in `Services_proofs`.

## What the runs check

| Run | Instance | Question |
|---|---|---|
| `lease_takeover` | 2 processes with one worker id, 1 run, 2 attempts, 2 possible provider answers, a crash, clock readings up to 1 old | Can late completions, recoveries, renewals and imports of two processes damage a run? |
| `lease_batch` | 3 runs of 2 series on PostgreSQL | Batches, skip-locked: can two claims of one series both win? Do two live leases ever overlap? The refinement of `RunLifecycle` |
| `lease_liveness` | a crash, a restart, a dying heartbeat | Does every run end? |
| `lease_overlap` | expected violation | README: "A database uniqueness constraint prevents concurrent execution" |
| `schedule_tables` | two tables: 1 client, 2 SQLite workers, both cadences, 2 configurations; and 2 clients, 2 PostgreSQL workers, 1 idempotency key | Are occurrences repeated, skipped or outdated, are manual runs duplicated? |
| `schedule_liveness` | 2 conflicting workers, 2 schedules in a batch, a client | Is a due occurrence handled in the end, although one stale row loses the batch? |
| `schedule_latest` | expected violation | test: the latest missed occurrence is the one that runs |
| `store_requests` | 2 requests at a time of 3, on PostgreSQL, 2 keys: two answers of a provider, a correction, an atomic and a partial import with opposite row orders, each with a row that is rejected when its date is there already | Are chains and imports right, whatever was stale when it was written; does every request end, although each may wait for the other? |
| `store_imports` | 2 requests at a time of 3, on SQLite: an import with two rows to reject, one that fails, a provider's refused row, a refused observation | What is visible when savepoints commit, do the counts agree and is each rejected row accounted for; does a reader of the past see changes? |
| `store_reverted` | expected violation | README: "Changed historical values ... append immutable revisions" |
| `services` | the eight modules of `MCServices`, 2 clients each | Books, histories, gates, issues, pages, retries, answers, versions, calculations, comparisons: does what overlaps, is refused, is late or is revised leave them right? |
| `analytics_latest` | expected violation | docs: latest reads order by cutoff first |

Bounds. Two processes are enough to show every race in this code: each
compare-and-set concerns one row and one rival, and the theorems about the
leases hold for any number. Two attempts give a first claim, a takeover and the
exhausted case. A lease of one or two ticks is
shorter than a run's execution, so every lease can expire at every step. `Horizon` ends
renewals and idle time so that time is finite; from then on leases only expire,
which the safety runs cover before it. `ClockLag` is how old the reading behind an UPDATE may be and
`DueLag` how late a due occurrence is materialized. `MaxCrashes` allows a crash at any step
and the restart; `MaxVersion` and `MaxTime` end the changes clients send and the
clock, after several periods of each cadence. In the two expected violations the
bounds only make the counterexample short. Symmetry permutes processes, clients
and payloads, sessions and keys, and is used for safety runs only; where processes are permuted
their worker ids are equal.

The store runs are bounded by `MaxRequests`, three requests: two that race and one that finds what they left, under the
same key or on the same dates; two dates allow opposite orders and two values a
change and its reversal. These runs end when all requests were answered, which
is the server waiting for the next one; deadlock is therefore not checked there,
and `EveryRequestEnds` checks that nobody waits for ever. `store_requests` has a
clock that stands still: none of its properties speaks of timestamps, and no step
depends on them. `store_imports` lets it run, for the reads of the past.

In `services`, two clients are the two that read the same version; the bounds on
versions, runs and issues (`MaxVersion`, `MaxRuns`, `MaxIssues`, `MaxLock`,
`MaxRevisions`, `MaxSnapshots`) leave room for one that wins, one that loses and
one that comes after, and for a portfolio that buys, averages and sells out.
`MaxMoney`, `MaxQuantity` and `MaxOutput` are small so that overflow and refusal
occur. A FRED answer has up to 4 days in pages of 2 with 1 retry, and 3
observations are too many. The definitions calculated are eleven, of all nine
types and five frequencies, on dates that were chosen because something is missing
before them: months without the day, a leap day, 52 weeks across it, the turn of
a year. Clients of these parts may stop for good, and bounds end what they may
ask; deadlock is not checked.

Fairness. `lease_liveness` assumes that a live process goes on with its cycle
(HTTP calls and database calls have timeouts), that a stopped worker is started
again by its supervisor, and that time passes. It does not assume that a
heartbeat ever renews or that a provider ever answers well. `schedule_liveness`
assumes that workers keep polling and that a request in progress is answered;
nobody is obliged to send one. `store_requests` assumes that a request is worked
on until it is answered and that PostgreSQL ends one of two transactions that wait
for each other (`BreakDeadlock`); without the second the property fails.

## What the runs show

Four places where the code and what is said of it differ:

* `lease_overlap`: the uniqueness constraint orders rows, not executions. The
  lease is read once before the provider is contacted; a process whose heartbeat
  stopped goes on, imports and tries to complete while its successor executes
  the same run. What does hold is checked and proved: at most one of them has a
  live lease, the loser's completion changes nothing, and the import takes
  effect once.
* `schedule_latest`: for a daily cadence, `calculate_latest_due_occurrence`
  returns the *oldest* missed occurrence when the worker looks before today's
  time of day. The test only looks after it. Fixed intervals are right
  (`CoalescesMissedOccurrences`), and so is the next occurrence of both.
* `store_reverted`: a generated idempotency key is a fingerprint of the answer
  and the request, not of what is stored. A provider that publishes a value,
  corrects it and then withdraws the correction is answered, the third time, with
  the batch of the first: no revision is appended, and the store keeps the
  withdrawn value until the answer changes again. The fingerprint
  (`_payload_document`) also covers the provider's metadata and the vintages, which
  the model holds constant: it repeats when the whole document does. For FRED that takes the same `last_updated` and
  vintage dates as well; for a provider without such fields the values are enough.
  Scheduled runs have keys of their own and are not affected.

* `analytics_latest`: a latest read orders the succeeded runs by `completed_at`
  alone, the architecture document by `calculation_cutoff` first. A run asked
  for an earlier cutoff that completes last is what the latest read then shows,
  and the answer goes back to older knowledge. As-of reads do order by cutoff.

Smaller differences seen while modelling, which no run states: a portfolio
snapshot is read in pieces and writes no lock version, so that on PostgreSQL it
can show a valuation that never was (src/README.md:248 calls it
point-in-time); and an absent member of a window gives the reason
`timestamp_absent`, not `insufficient_history`.

Everything else holds, including some things that are easy to doubt: repeated
worker ids are harmless because of the generation (`GenerationHeldOnce`); a
stale `current` can only make a claim roll back and never writes a row the CHECK
constraints reject elsewhere (`RowChecks`); a claimed batch that waits without a
heartbeat never uses up attempts in such a way that a run is stuck pending
(`EveryRunEnds`, and the theorem `ClaimableAlways`), nor does a claim contact the
provider more than once (`CallsWithinAttempts`); that a run which waits long enough is
failed without having contacted the provider at all is what the code does. In the store,
no interleaving of requests breaks a revision chain (`ChainIsLinked`) or applies
an import twice (`ImplementsHistory`). As-of reads of the past are stable only
once the requests that had read their timestamp by the cutoff have ended
(`SettledReadsAreStable`): timestamps are read before the commit, so a reader
who asks about the last moments may get another answer later. The same is true
of an analytics run, whose cutoff may be the present: `RunsAreReproducible` says
that it is reproducible by its cutoff once that is settled, and by its lineage
always. Pages that shift under a reader of FRED are noticed, unless an observation was
withdrawn meanwhile or the count is missing (`PagesAreComplete`). A dashboard never shows the output of one run
as that of another, whatever was committed between its reads
(`ComparisonsBelongTogether`).
One consequence is worth knowing although no document
contradicts it: when the provider's answer changes between an attempt that
crashed after its import and the next one, the run ends as failed with a
conflict although its data was stored.

Every property is paired, in `PROJECT.json`, with a plausible slip in the code
that breaks it; the slips are the definitions commented "Mutant" next to the
ones they replace.

## What is proved

For every value of the constants that the assumptions of the modules allow, and
from nothing else. The assumptions say what kind of value each constant has, and
what the code needs to work with it: a page and the observations allowed are at
least one (`FredAssumption`), the base currency is a currency and prices are
positive and representable (`PortfolioAssumption`), the clients of `Analytics` and
`Portfolio` and the bounds from which a series is made are finitely many. Those of
`RunLease`, `Cadence`, `ScheduleTable`, `MacroStore` and `Decision` are ASSUMEs; the
others are hypotheses of the theorems, which `MCServices` assumes of its
instances. So the theorems hold for any number of processes, clients, sessions
and workers, any table of schedules and length of a day, any dates and payloads,
any portfolio, and either database.

| Theorem | Statement |
|---|---|
| `TypeCorrect` | `Spec => []TypeOK` |
| `BookkeepingCorrect` | `Spec => []Bookkeeping` |
| `OneRunningAlways` | at most one row of a provider series is running |
| `GenerationAlways` | a generation is held by one process |
| `ClaimableAlways` | a pending run has an attempt left |
| `CompletedForGood` | a completed row never changes |
| `LeaseRespected` | only the holder ends a run with a live lease |
| `SuccessAlways` | a succeeded run has the batch that was imported |
| `ImportedForGood` | an import is never replaced |
| `RowChecksAlways` | a row keeps the CHECK constraints of its table |
| `FailureAlways` | a run fails for a terminal error or after its last attempt |
| `OverlapAlways` | of two executions of a series, one at most has its lease |
| `CallsAlways` | the provider is called at most once for a claim |
| `LifecycleImplemented` | `Spec => ImplementsLifecycle`: every step is one of the life cycle, or hidden |
| `ScheduleTable_proofs!CoalescedOccurrences` | which occurrence a due schedule runs, and for which it waits then |
| `ScheduleTable_proofs!TypeCorrect` | `Spec => []TypeOK` of `ScheduleTable` |
| `RunNowOnceAlways` | one idempotency key makes one run |
| `OccurrencesInOrder` | an occurrence that is materialized is later than all before it |
| `ScheduledFromCurrent` | a scheduled run is made from the schedule as it is then |
| `Coalesces` | `CoalescesMissedOccurrences`, for every cadence and delay |
| `MacroStore_proofs!TypeCorrect` | `Spec => []TypeOK` of `MacroStore` |
| `ChainAlways` | the entries of a date are one linked chain |
| `ReadsSettle` | reads of the past keep their answer once they are settled |
| `SyncAlways` | a synchronization answered with a new batch has taken effect, date by date |
| `BatchesAlways` | the counts of a batch are those of the rows that carry its id; a row of a finished import is stored or has an error and an issue |
| `HistoryImplemented` | `Spec => ImplementsHistory`: an import takes effect once, states are only appended |
| `Services_proofs!TypeCorrect` | `Spec => []TypeOK` of `Decision` |
| `HistoryAlways` | the revisions of a case have no gap, and the last one shows the case |
| `ActiveAlways` | no case is activated without all its research |
| `TerminalForGood` | nothing changes an invalidated or closed case |
| `AtomicImplemented` of `Decision`, `SeriesQuality`, `Portfolio`; `JournalsAtomic` | `Spec => ImplementsAtomicRecord`: overlapping requests change a record as if one after the other |
| `SeriesQuality_proofs!HistoryAlways` | a series has one unresolved issue at most, and the events of an issue are its life |
| `StaleAlways` | what a scan found stale has an unresolved issue, unless a user resolved one meanwhile |
| `AnswersAlways` | a request is answered with a run of its version and of exactly its snapshot; a snapshot has one run |
| `VersionsAlways` | versions become current in the order of their numbers |
| `CalculationsTyped`, `DashboardsTyped`, `JournalsTyped` | `Spec => []TypeOK` of `Transformations`, `Dashboard` and `Journal` |
| `NeverLooksAhead` | a run with a settled cutoff says what a run at that cutoff says at any later time (`NoLookAhead`) |
| `RunsReproducible` | `RunsAreReproducible` of `Transformations`: in addition, the windows, dates and values of a run are what the formula asks of the states that its lineage names |
| `ComparisonsAlways` | what a summary compares belongs together, and its changes are between the values it shows |
| `PagesAlways` | the pages of an answer are complete, unless FRED withdrew an observation or left out the count |
| `RequestsAlways` | a call makes a bounded number of requests |
| `BooksAlways` | balances, positions and costs add up to the ledger |
| `TypeCorrect` of `SeriesQuality`, `Analytics`, `FredClient`, `Portfolio` | `Spec => []TypeOK` |
| `ServicesTyped`, `ServicesBooks`, `ServicesHistory`, `ServicesStale`, `ServicesPages`, `ServicesRequests`, `ServicesAnswers`, `ServicesVersions`, `ServicesRuns`, `ServicesComparisons`, `ServicesAtomic` | `ServicesSpec => ...`: what the run `services` checks of all services side by side, from the theorems above |

The argument for the leases. `IInv == TypeOK /\ Bookkeeping` is inductive. None of the safety
properties is so by itself: that the fence tells a former holder from a current
one needs that generations only grow and that what a process remembers, in
`picked` or in `queue`, is at most as new as the row (`Remembers`); that
recovery leaves an attempt needs that a generation counts claims (`Counted`),
because recovery decides by the attempt it read and compares only the
generation; that success has its batch needs that the answer a process completes
with is the one stored. `RunLease_proofs` first classifies what a step can do to
one row (`RowStep`, `RowSteps`: unchanged, inserted, claimed, renewed, retried,
failed or succeeded, each with the condition under which the code does it) and
then proves each part of the invariant, and each theorem, from this
classification rather than from some thirty actions.

The argument for the rows. The CHECK constraints compare moments, and the moments
come from clock readings of different ages. `RowInv` therefore adds that a row is
started no later than it is due again or acquired (`Ordered`), and for each
process that it began its cycle no earlier than the row it holds was started.
`CallInv` adds that a claim that waits in a queue has made no call, so that
calls are counted by generations. The refinement needs, beside these
steps, that one run of a series is running (`Begin`) and that the generation of a
claim is at least one (`Numbered`); a step in which
several rows change is matched with the actions of `RunLifecycle` on sets of runs.

The argument for schedules. `Known` says that a version names one row: what was
loaded is an earlier version, or the row as it is; a commit that passes
`StillCurrent` was computed from the present row. The order of the occurrences
needs in addition that a change read the clock after what was materialized, or
else has an outdated version (`Asks`), because enabling and changing a cadence
compute `next_run_at` from that reading. The moments themselves are arithmetic:
occurrences are a progression, and the first part of the module compares multiples
of its step.

The argument for chains. Whatever a request read of a date remains part of the
chain of that date as long as the request may write (`Sees`): entries are never
removed, except what a transaction rolls back itself. A new entry whose sequence
the unique constraint accepts is numbered by what was read, so that it was
computed from the whole chain, however old the reads are. Transactions that are
open hold rows of different dates (`Apart`) and hold them only in states in which
they may (`Holds`), so that a commit leaves the chains of the others whole. For
reads of the past, `HeldStamps` says that what a transaction holds has the
timestamp that its request read.

The argument for decisions. What makes the history inductive is `Seen`: a request
in progress read a version that is at most the present one, and if it is the
present one it read the row as it is; what was attached when it read is still
attached. `StepChanges` then says what a step can do: nothing, or the change of
one request that is not refused and that read the case as it is, which is what
each of the three properties needs.

The argument for imports. `SyncAlways` follows from the chain: a row that a
synchronization commits continues what it read, and a date that has other
entries than it read was changed by somebody else. For the counts, `Books` adds to the
invariant that a batch has one request at most that processes it (`OneImport`), that this
request has accounted for every row before its next one, by an entry or by its
rejection (`Accounts`), and that a batch no longer processed is balanced (`Balanced`). The refinement maps
the entries of a date, by their sequence, to its history; because a chain has no gap,
what a step adds to it is appended. `Finish` of the abstract specification is the
step that gives a batch its outcome.

The argument for quality issues. `Known` says for issues and for series what it
says for schedules: a version that is still current names the row that was read.
For the scan, `Reports` accounts for each series that it found stale: an
unresolved issue is there, or a user settled one meanwhile, or the scan still has
to insert one; the partial unique index makes a second insertion a conflict.

The argument for analytics. Revisions, runs and versions are appended, so that a
position names the same row for ever: what a run has seen of them stays what it
saw (`Held`). For the order of the versions, a client whose lock version is still
current read its clock after the last of them.

The argument for cutoffs. It is made once for all definitions and formulas: the
windows, the evaluators and the lineage are functions of the definition and of
the states in force at the cutoff (`SameWindows`, `SameOutput`, `SameRun`). What
is appended later than the cutoff leaves those as they are, at whatever place in
the sequence it comes (`LaterState`), and `Settled` says that nothing else
can still be committed.

The argument for summaries. What has been read stays true while others commit:
observations, versions and runs are added, never taken away (`DataGrows`,
`ReadsKept`), so that an earlier day stays earlier, and a run keeps its version and
its output. Each step of the reader adds what it read to that (`ObservationsRead`
to `OutputRead`). That a percentage is off by half a quantum at most, for values
of either sign, is `RoundingFacts`.

The argument for journals is that of the other records: a version names one
row (`JournalSeen`), and an open one has no outcome.

`Transformations`, `Dashboard` and `Journal` have no module of proofs to themselves:
the theorems are about instances of them. Those in `Analytics_proofs` (`T` and `D`)
have constants and variables of their own and replace no constant, so that the
theorems hold for all values; they share the name of a bound with their host, which no
statement relates to the host. That of `Journal` is the one of `MCServices`, for
the investors and journals it is given there.

The argument for the lineage. What a run writes is made of windows (`IsMadeOf`), and a
window has one state of the store for each of its roles (`IsWindow`). That the dates
of a window are as many as its roles and keep the day of the month comes
from the calendar: a step back in time, which borrows months until there is a
day, leads to an earlier date (`EarlierDay`, `PreviousAnchor`), so that the dates of a
window are different (`RollingWindow`); the recursive functions involved exist
because a function can be applied any number of times (`Iteration`, `CountUp`).
States are only appended, so that `IsTraced`, which says that an output was made
of windows of states that are there, is kept by every step (`TracedStays`); it
is the inductive part, `Traced` with what `NeverLooksAhead` rests on. The rest is
about one output: the links are counted by bijections with roles and
inputs (`LineageIsComplete`), and the value that the evaluator computed is
compared with the formula. The sums of the two are recursions over sets that pick
their elements in an order nobody knows; each is the one function that adds up its
parts (`IsSum`, `SumExists`), and the evaluator's spread, from the sums of values
and squares, is the sum of the distances that the formula asks for
(`SumOfDistances`). A quotient rounded half to even is off by half a quantum at
most (`QuotientFacts`), and so is a root (`RootFacts`). Of the z-score the
property states the sign.

The argument for the services side by side. `part` never changes, so that a
behaviour of all services is a behaviour of each, some of which never move
(`PortfolioRuns`, `QualityRuns`, ...). Two instances of one module share their
variables, and what one of them promises while it moves is carried to the
property. `Comparisons` is `Dashboard` itself; its theorem is that of a second
instance of the proofs, `Compared`, whose definitions are shown to be
equivalent one by one (`ComparedNext`).

The argument for pages. The place of an observation in the answer is the number
of days up to it, so that publishing one moves others to later pages and never
to earlier ones; a page that then repeats a day is refused. `Reads` says that a
day which was there from the start and was not read comes after all that were.
`Attempts` bounds the requests: every page but the last is full.

The argument for the books. A request writes what it computed from rows that it
read one statement after the other. `Fresh` says that, as long as the version has
not changed, they are the rows as they are; once it has, the UPDATE refuses the
request. So an entry of the ledger is committed together with exactly its effect
on the present rows (`TransactionEffect`), and sums and rows move together
(`LedgerStep`). An average rounded half to even (`HalfEvenFacts`) is off by at most half
a quantum, which counts once for each unit held; a sale takes out its cost
without rounding. That the recursive function `Sums` exists, depends only on the
entries summed, and grows by the entry appended is proved by the least
counterexample (`Induction`), with the library's `WFMin`.

`Bookkeeping` and `PendingIsClaimable` (`ClaimableAlways`) are proved and no
longer checked by a run of their own. `RecordsAreAtomic` is proved for each
component, and as a whole of the run (`ServicesAtomic`).

Only model-checked: `TablesTypeOK`, which says of the two tables of one run that
both are well typed (`TypeCorrect` of `ScheduleTable_proofs` says it of each), and
liveness (`EveryRunEnds`, `DueIsHandled`, `EveryRequestEnds`), which with ENABLED is
outside what the prover supports. So are induction schemes that take an operator:
what is proved here by induction is stated with sets (`CountUp`, `PartByPart`,
`Induction`) and the library's `WFMin`. Not reasoned about are the size of a
z-score and the sums of a `Valuation`. No module here uses a RECURSIVE operator.

## Not modelled

Clock skew between hosts (one clock; a skewed host is a process that is late or
early, against which the fences are the defence); lock waits of claims inside
PostgreSQL and deadlocks among them (an error that ends the worker as `Crash`
does); in the scheduler the contents of provider answers beyond whether two are
equal; sources and the descriptive metadata of series; the parsing of files and
of single fields of a provider's answer; the checks of units, aliases and sizes
of a definition; decimal precision beyond one quantum; the texts, catalogs and
history pages of indicators and dashboards; HTTP and JSON, configuration,
logging; migrations (their constraints are guards of the actions); the
benchmark and the scripts; and the web client, which only reads.

## Plan

1. Creation and update of source and series metadata by synchronizations.
2. Compositions: `ScheduleTable` with `RunLease` (schedule to completed run),
   `RunLease` with `MacroStore` (late imports against newer data).
