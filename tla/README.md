# Verification of Go Service Monitor

TLA+ models, TLC checks and TLAPS proofs for the monitor: a Go backend that
checks web sites on a schedule, keeps the results in PostgreSQL, opens and
resolves incidents, and an Angular dashboard that shows them.

## 1. Inventory

| Component | Source | State | Operations | Model |
|---|---|---|---|---|
| Scheduler | `internal/scheduler` | one batch per process: claims, jobs, workers, context | `Run`, `runDue`, dispatch, end of a batch, `RunRetention` | `Scheduler`, `CheckStore` |
| Claims | `internal/repository/monitor.go` 81-128 | session-level advisory locks, one pooled connection per batch | `ClaimDue`, `ReleaseClaims` | `Scheduler` |
| Check store, incidents | `internal/repository/monitor.go` 130-168 | `check_results`, `incidents` | `Create` + `updateIncident`, `DeleteOlderThan` | `CheckStore`, `IncidentLifecycle`, `CreateTx` |
| Monitor rows | `internal/repository/monitor.go` 40-79 | `monitors` | `Create`, `Get`, `List`, `Update`, `Delete` | `CheckStore` (existence, `enabled`), `MonitorAPI` (all columns) |
| Monitor API | `internal/handler/monitor_api.go` | none of its own; a request in progress holds a copy of a row | create, PATCH, delete, manual check | `MonitorAPI`; `CheckStore` (as store steps) |
| SafeChecker | `internal/security/client.go` | semaphore of a process | `Check` | `Scheduler` (start, outcome, cancellation) |
| History and overview | `internal/repository/history.go`, `internal/handler/history_api.go` | none; several statements per answer | `Summary`, `Overview`, `Incidents` | `OverviewPage` (`Overview`), `MonitorAPI` (its failure) |
| Legacy status checks, metrics | `internal/checker`, `internal/handler/monitor.go`, `internal/metrics` | goroutines and a channel per request; counters and gauges | fan-out, collection, `Record` | not modelled |
| Start-up and process | `internal/database`, `cmd/server/main.go` | migrations table, pool, listener, signal context | `Open`, `Migrate`, `serve`, exit | `Scheduler` (start, stop, crash) |
| Dashboard | `frontend/src/app/pages` | signals per page, requests in flight | load, toggle, check, delete, change range | `MonitorsPage`, `OverviewPage` |
| Validation of URLs, models, shell, deployment | `internal/security/url.go`, `internal/model`, `frontend/src/app/app.component.ts`, compose and proxy files | none | pure functions, record types, configuration | not modelled |

How they interact.  Every replica runs one scheduler goroutine, one retention
goroutine and an HTTP server; all share one connection pool and, through
PostgreSQL, all state.  `runDue` takes one connection out of the pool, claims
due monitors with advisory locks that belong to the session of that connection,
hands the monitors to workers over an unbuffered channel, and unlocks when all
workers are done.  The workers check (HTTP, up to 30 s) and store over other
connections.  Users create, change, pause, delete and check monitors through the
API while all of this runs.

What is hard here:

* replicas race for monitors, and the due query and the locks are two steps;
* the lock lives on a connection that nobody watches while the batch runs;
* `updateIncident` looks only at the newest two scheduled results, so it is right
  only if results arrive in the order of their checks;
* a shutdown makes checks fail, and such failures must not count;
* retention deletes results under incidents that stay;
* monitors are paused and deleted while their checks are in flight;
* `Create` runs at READ COMMITTED: every statement has its own snapshot, rows and
  the unique index make transactions wait, and the cascade of a delete waits for
  the foreign keys;
* a PATCH reads, merges and writes every column, and the dashboard sends the
  monitor as it has it cached;
* an answer may be lost after the request was served (the write timeout is shorter
  than a manual check may take);
* `Overview` is put together from many statements, one of whose errors is dropped;
* page loads, saves and actions overlap, and their answers come in any order, while
  a page has one `loading`, one `saving` and one `actionPending`.

Correctness, per component: one owner per monitor, no lock without an owner,
batches end and processes stop (scheduler, claims); results in order, incidents
that agree with the results and with each other (store); no lost updates (API);
answers that describe one state (history, dashboard); every result at its index
(status check); at most one replica migrates (start-up).

## 2. Plan

1. **Core, done:** `CheckStore`, `Scheduler`, `IncidentLifecycle`, the runs and
   theorems below.
2. **Transactions, done:** `CreateTx`, `PostgresChecks.Create` at statement
   granularity; which properties of the store need the lock of the scheduler.
3. **API and its page, done:** `MonitorAPI` (handlers one statement at a time, other
   clients, lost answers) and `MonitorsPage` (what the page makes of it).
4. **Overview, done:** `OverviewPage`, the handler `Overview` and its page.
5. `Process` and `Startup`: `serve`, the pool with a bounded number of
   connections, the order of the deferred calls; concurrent `Migrate`.
6. `SafeCheck` and `StatusCheck`: semaphore, deadlines and classification;
   fan-out, channel closing, gauges.
7. The pages of one monitor and of incidents: navigation from one monitor to
   another under requests, paging over a list that grows.
8. `DueQueue`: liveness of claiming (order, LIMIT, locked heads of the queue).
9. **Proofs, done:** every safety property of the passing runs is a theorem, and
   `StoresAreCalls` ties the single step of `CheckStore` to the statements of
   `CreateTx`, for any number of monitors.

Each module keeps parameters as CONSTANTS with named assumptions, one action per
operation, and no RECURSIVE operator, so that it can be proved about.

## 3. The modules

**`CheckStore`** is the database.  `monitors`, `createdAt`, `results` and
`incidents` are the tables (only the columns the properties can tell apart:
`cause`, latency and messages are left out); `now` is the clock.  The queries of
`ClaimDue` (`IsDue`, `DueOrder`, `DueBatches`) and of `updateIncident` (`TwoDown`,
`Resolve`, `OpenOrExtend`) are operators; `CreateCheck`, `DeleteOlderThan`,
`CreateMonitor`, `UpdateMonitor`, `DeleteMonitor` are the statements, and
`ManualCheck` is the handler of a manual check, whose result may be dated
anywhere between the creation of the monitor and now.  Each is one step: they are
single statements or one transaction.  A monitor may be created enabled or paused.
Monitor ids are random, so the tie-break
by id is a free choice, and an id never comes back after a delete.  One interval
serves all monitors.

**`Scheduler`** is what each replica does.

| Action | Code |
|---|---|
| `ClaimDue` | the CTE of the query, on the statement's snapshot |
| `TryLock` | `pg_try_advisory_lock` for one candidate row |
| `RunDue` | the query returned: batch, or nothing to do |
| `ClaimFails` | the error paths of `ClaimDue`: the server reports an error and the connection returns to the pool with its locks, or the session is gone with them |
| `StartCheck`, `FinishCheck` | `Check`; the start fixes `CheckedAt` |
| `StoreCheck`, `StoreFails` | `checks.Create(ctx, result)` |
| `StopDispatch` | `ctx.Done()` in the dispatch loop |
| `Unlock` | `ReleaseClaims`, one unlock at a time, errors ignored |
| `Shutdown`, `Exit`, `Crash`, `Start` | signal, return of `main`, death, new process |
| `RetireSessions`, `LoseSessions` | what pool and server do to sessions (outside `src/`) |

`lock[m]` names the replica whose session holds the lock; `leaked[r]` are locks
that stayed behind in pooled sessions of `r`.  Because a leaked lock may be in the
session the pool hands out next or in another one, `TryLock` on it may succeed
(advisory locks are re-entrant) or fail.  A check that the cancelled context ended
has the outcome `cut`; the code reports it as down.  The clock moves on with every
check that starts, because real timestamps are finer than model ticks: two checks
never carry the same time.  The clocks of replicas and server are assumed to agree.

**`IncidentLifecycle`** is the promise about outages without any of that: a run of
failures per monitor, an incident open from the second failure in a row until
the next success, a count of incidents, and retention, which may forget failures
but touches no incident.  `Scheduler!Lifecycle` maps the tables to it.
`Scheduler!Calls(m)` maps the rows of monitor `m` to those of `CreateTx` between two
calls: times begin at 1 there, and a row is named by the call that wrote it.

**`MCScheduler`** declares the symmetry of replicas and monitors for TLC.

**`CreateTx`** opens up the step `CreateCheck` of `CheckStore` for one monitor.
`tx[t]` is a call of `Create`: how far it is, what its last query saw, and the
row of `incidents` it has written but not committed.

| Action | Code |
|---|---|
| `Begin` | the call and `Begin(ctx)`; under the lock of the scheduler one scheduled check follows the other |
| `Insert` | the `INSERT INTO check_results`, which takes a share of the monitor's row or fails on the foreign key |
| `LookForActive`, `Resolve` | the `UPDATE incidents`: what its snapshot finds; the write, after waiting for another writer of the row, on the row as it is then |
| `CountFailures` | the `SELECT count(*)` and the early return |
| `FirstFailure`, `OpenOrExtend` | the `INSERT ... ON CONFLICT`: its subquery on the snapshot; the write, after waiting for other writers of the active incident |
| `Commit`, `Fail` | `Commit`; any error, with the deferred `Rollback` |
| `DeleteOlderThan`, `DeleteMonitor` | retention; the delete, which waits for shares of the row and cascades |
| `LoseLock`, `TakeLock` | the scheduler's lock is lost while checks go on; it holds again |

Call `t` stores the result checked at time `t`: the calls are numbered by their
checks, and may run in any order.  `settled` and `forgotten` are history variables: a
scheduled result was stored since the lock was last taken; the committed results that
retention has deleted since failures were last counted.  The interval, `enabled` and the
claim are those of `Scheduler` and not repeated.

**`MonitorAPI`** is the HTTP interface as one browser sees it: `rows` is the table of
monitors, `checked` the monitors with a result in the last 24 hours, which is what the
page asks the overview for, `calls[s]` the call in slot `s` with the statement its handler has
reached, `overviews[s]` the overview requested beside a list.  `ServeCreate`,
`ServeGet`, `ServePatch`, `ServeCheck`, `ServeDelete`, `ServeList`, `OverviewList`
and `OverviewSummaries` are the statements of the handlers; `CallFails` and
`OverviewFails` lose a call before, during or after them.  `Elsewhere` creates,
changes or deletes a monitor: it stands for other clients and for the handler of a call
the browser gave up, which goes on and may write late.  `ResultStored` and `ResultAges` are
what happens to results without any call of the page: the scheduler, or a manual check
of another client, stores the first result of a monitor in 24 hours, and its last one
leaves the 24 hours.  Retention does not appear: after 30 days it deletes only what left
them long before.  The settings of a monitor are one value of `Config`, unique like its name
and URL.  The page sends every column, so nothing of the row that PATCH has read
survives the merge, with one exception that is left out: a toggled monitor without
a keyword does not name that column.  The summaries of an overview are one step: a
monitor gone by then was deleted before or after its own summary, and both outcomes
are there.

**`MonitorsPage`** is `pages/monitors.component.ts`: the signals are its variables
(`form` merges `formOpen` and `editing`).  `Load` is `load()`; `Save`, `Toggle`,
`Check`, `Remove`, `OpenForm`, `Edit`, `CloseForm` and `Retry` are what the user
can do, with guards from the template (the modal form covers the page, the list is
drawn only when it is neither loading nor in error, a button is disabled for the
pending monitor); `Saved`, `SaveFails`, `Toggled`, `Checked`, `Removed` and
`ActionFails` are the answers with the `finalize` that follows; `ListArrives`,
`OverviewArrives` and `LoadFails` are `forkJoin` with `catchError`.  Search, filter,
sort, view, menus, the toast and the texts of errors only choose what is drawn of
this state.  `Background` lets results come and go while the page, which does not
poll, is not told.  `made` counts these, the user's calls and the writes of others for
the bound `MaxCalls`; `Slot` bounds the calls under way.  `alone` and `moved` are history
variables: since a load that ran by itself the calls went one by one, no answer to a
write was lost and nobody else wrote a monitor; the monitors whose results came or went
by themselves since a load was asked for.
**`MCMonitorsPage`** declares the symmetry for TLC.

**`OverviewPage`** is `pages/overview.component.ts` and `PostgresHistory.Overview`
behind it.  `state`, `last`, `recent` and `incidents` are what the answer can tell
of the tables; `StoreResult`, `DayPasses`, `Create`, `Toggle`, `Delete` change them
meanwhile.  `CountMonitors`, `CountIncidents`, `Summarise` and `RequestFails` are the
handler: the error of the count of incidents is dropped, one missing monitor fails
the answer, and the monitors are summarised one by one, in any order.  The three
statements of one summary are one step.  `Load` is `load(value)`, called by the range
buttons (never disabled), `Refresh` and `Retry`; `Shown` and `LoadFails` are its
answers.  `FleetState`, `Rank` and `Queues` are what the template derives.  Uptime,
latency and counts are left out: they are only printed.  `alone` and `steady` are
history variables: since the last load began no other request ran, and nothing
happened to the monitors.

**`SchedulerProofs`**, **`OrderProofs`**, **`IncidentProofs`** and
**`RefinementProofs`** hold the proofs about `Scheduler`, each resting on the one
before, and **`BatchProofs`** those that need `SchedulerProofs` only;
**`CreateTxProofs`**, **`MonitorsPageProofs`** and **`OverviewPageProofs`** belong to
the modules in their names.

Operators introduced by a comment that begins with "Mutant" are variants of the
definition after them that contain a plausible bug.  They are part of no
specification; each was used to confirm that a property fails when the code
has that bug.

## 4. Runs

| Run | Instance | Shows |
|---|---|---|
| `SchedClaims` | 2 replicas, 2 monitors, 1 worker, 3 checks; stops, crashes, failing claims and unlocks, deletes | `TypeOK`, `MutualExclusion`, `LocksMatchClaims`, `StoresInOrder` |
| `SchedIncidents` | 2 replicas, 1 monitor, 6 checks, retention of 3; stops, failing stores, pauses | `IncidentTimeline`, `CutChecksAreNotStored`, `ImplementsLifecycle`, `StoresLikeCalls` |
| `SchedSingle` | 1 replica, 1 monitor, interval 2, 5 ticks, manual checks, retention; crashes, failing stores | `ClaimsOnlyDue`, `IntervalKept`, `IncidentsAccurate` |
| `SchedSessions` | 2 replicas, 2 monitors, 2 workers; sessions lost in batches, stops, failing claims and unlocks | `NoLockOrphaned` |
| `SchedLiveness` | 1 replica, 2 monitors, 2 workers; stops, lost sessions, failing stores, deletes | `BatchGoesOn`, `BatchesOnlyAdvance`, `BatchesEnd`, `ShutdownCompletes` |
| `CreateTx` | 4 calls of `Create`, scheduled and manual; errors, retention, deletion, lost lock | `TypeOK`, `OneActive`, `OutagesRecorded`, `CommitsAreSteps`, `NothingOutlives`, `SomeCallGoesOn` |
| `MonitorsPage` | 2 monitors, 2 contents, 2 slots; after the first load 2 events out of calls of the user, writes of others, results that come or go | `TypeOK`, `PendingHasCall`, `OneSave`, `PageAgrees`, `ToggleOnlyFlips` |
| `MonitorsLive` | 1 monitor, 1 content, 2 slots, 2 such events | `Responds`; the page is never stuck |
| `OverviewPage` | 2 monitors, 2 ranges, 2 slots, 2 loads, 1 change of the fleet, a queue of 1 | `TypeOK`, `NeverBlank`, `LoadingHasRequest`, `ShowsLatest`, `HealthyIsTrue`, `QueueShowsFailures`, `LoadingEnds` |
| `SessionLoss` | as `SchedClaims`, sessions lost in batches | `MutualExclusion` **fails** |
| `StaleClaim` | 2 replicas, 1 monitor, interval 2 | `ClaimsOnlyDue` **fails** |
| `OverviewRace` | as `OverviewPage` | `ShowsSelectedRange` **fails** |

The three failing runs are disagreements between what documents, comments or labels
say and what the code does.
`README.md:24` of the repository promises that advisory locks prevent two
instances from scheduling the same monitor simultaneously; that holds as long as
the server keeps the session, and the theorem `ExclusionHolds` has this as its
assumption.  The comment on `ClaimDue` says that due monitors are claimed
atomically; the due rows are those of the snapshot, and a monitor that another
replica stored and released in between is claimed again.  A single replica is safe
from that: `ClaimsOnlyDue` holds in `SchedSingle`.  The double check
does no harm to incidents: `StoresInOrder` and `ImplementsLifecycle` hold with it.
The overview labels its values with the selected range ("Successful checks in the
selected range", "Selected 24 hours"); `load` remembers the new range at once, does
not cancel the request before it and shows whichever answer arrives, so that of two
loads that overlap the earlier one may have the last word.  `ShowsLatest` is what
holds: it is about loads that ran alone.

What the other runs say is not obvious from the code.  `OneActive` needs neither the
lock nor a higher isolation level, only the unique index with `ON CONFLICT`;
`OutagesRecorded` needs the lock, and says that one scheduled result stored under it
repairs whatever went wrong without it.  `CommitsAreSteps` is why `CheckStore` may take
`Create` as one step, and `StoresLikeCalls` that the step it takes is that one; what
`CreateTx` assumes of the lock, scheduled calls one after the other in the order of
their checks, is `MutualExclusion` with `StoresInOrder`.

`CommitsAreSteps` names the one exception TLC found: the count, the subquery and the commit have a snapshot
each, and if retention deletes a failure after the call has counted it, it
counts all the same, and the incident may name the second failure as its first.  A call
that was rolled back, and a result that was gone when the call counted, never count.

`IntervalKept` is about results, not about attempts: a check whose store failed, or whose
process died before it stored, leaves the monitor due, and it is checked again at once.
What never happens with one replica is a check that begins earlier than an interval
after a result that is stored.

`PageAgrees` and `ToggleOnlyFlips` say how far the cached monitors of the page can be
trusted, and their condition `alone` is needed: a second call under way, another writer or
a lost answer breaks them, and the next load that runs alone restores them.  Of the
scheduler the page can say less: the rows it shows are the stored ones, but whether a
monitor was checked in the last day is what was true at the last load, and a new monitor
is shown as awaiting data until the page loads again, though its first check is seconds
away.  `PageAgrees` therefore leaves out the monitors in `moved`.

`HealthyIsTrue` holds although the count of incidents may have failed unnoticed,
because `fleetState` also looks at the summaries.  `NoLockOrphaned` is what remains of
`LocksMatchClaims` when sessions are lost: a batch may go on without its lock, but no
lock stays without a batch or a pooled session that holds it, so no monitor is shut
out for ever.  `BatchGoesOn` and `BatchesOnlyAdvance` are what `BatchesEnd` rests on,
without fairness and for every fault: a running batch has a job whose next step is
possible, and whatever happens to a job brings the batch nearer to its end.  A worker
that would give up only on some errors, or put a monitor back, breaks one of them.

Bounds.  `MaxTime` bounds the clock and, since each check advances it, the number
of checks.  Three checks are enough for two replicas to hand a monitor over and
back; six are enough for an outage to open, be extended, be resolved, for a
second one to open, and for retention to delete the rows under either.  Two
replicas suffice for every race, since a lock has one holder and the others
only fail to get it; two monitors suffice for a batch of several jobs and for a
claim that gets part of its candidates.  `Requests` and `Faults` name what users
and the environment do in an instance; between them the runs use all of it.

Four transactions are enough for two that overlap after an outage has begun or an
incident was opened, with a manual result or a successor between; five were run once
and pass as well.  In the pages two slots suffice for every pair of overlapping
requests, and two events after the first load for a save whose form is closed and
opened again, two actions on two monitors, or a write of another client or a result of
the scheduler under a call of the page.  The constructor's load and those that follow an answer are not counted.
`Attention` is 5 in the code; one makes a cut of two monitors happen.

Deadlock checking is on for the scheduler and the page of monitors, where
`MonitorsLive` also shows that the page always leaves the user something to do.  It
is off for `CreateTx` and `OverviewPage`, whose bounded calls, loads and changes run
out: there `SomeCallGoesOn` and `LoadingEnds` take its place.  For the scheduler it
says little, because retention is always possible; `BatchesEnd` and `ShutdownCompletes` say what matters.

Fairness (`Fairness` in `Scheduler`) is assumed of goroutines that can run, of
statements, which return with a result or an error, and of checks, which end by
the client timeout (5 s, at most 30 s).  It is not assumed of users, the ticker,
retention, stops and faults, nor is a store assumed to succeed.  For the pages it is
assumed that a call does not hang: its handler goes on, or the browser, the proxy in
front of the server or the server's write timeout gives the call up.  The Go code sets
no deadline for a statement, so that this rests on those timeouts.  A browser delivers an
answer or reports a failure.  Nothing is assumed of users, other clients and the
scheduler.  `CreateTx` assumes nothing.

## 5. Proofs

For every set of replicas and monitors, every number of workers, interval,
retention and clock bound:

* `TypeCorrect`: `Spec => []TypeOK`, with no assumption on faults.
* `LocksCorrect`: `LocksMatchClaims`, if sessions survive their batch
  (`"session" \notin Faults`).  The invariant is inductive by itself: every
  action that gives up a claim also gives up the lock or books it as leaked.
* `ExclusionHolds`: `MutualExclusion`, an immediate consequence, as a lock has
  one holder.
* `OrderHolds`: `StoresInOrder`.  The inductive invariant `OrderInv` says that
  stored results lie in the past and that a check that runs is younger than all
  stored results of its monitor.  It needs mutual exclusion: storing one result
  keeps it only because no other check of the same monitor runs.
* `TimelineHolds` and `AccuracyHolds`: `IncidentTimeline` and `IncidentsAccurate`.
  Neither is inductive.  `IncidentInv` adds that scheduled results of a monitor
  have distinct times (`DistinctTimes`); that a failure not newer than the end of
  an incident is older than the success that ended it, which is still stored
  (`ResolvedBySuccess`: this is why an incident opened later begins after the old
  one ended, even when retention deletes rows); and that what incidents record
  lies before every check of their monitor that runs (`IncidentsPast`).  With
  `OrderInv` it follows that `StoreCheck` always stores a result newer than all
  its tables know (`StoreCheckFresh`), and then `updateIncident` does one of four
  things (`FreshCases`: resolve, ignore, extend, open), each of which keeps the
  invariant.  Retention keeps it because it deletes an initial part of the history.

* `LifecycleImplemented`: `ImplementsLifecycle`, the refinement.  A step either
  leaves the scheduled results and the incidents alone (`Stutters`), or it is
  retention (`Forget`: `StreakForgotten`), a deletion, or `StoreCheck` with a result
  newer than all others.  Such a result ends, begins or extends the streak
  (`StreakEnds`, `StreakBegins`, `StreakGrows`), and `FreshCases` says what happens to
  the incident.  Their number is kept because rewriting the active row is a bijection
  (`RewriteCounts`, from the timeline) and grows by one row when one opens.
* `CutChecksVanish`: `CutChecksAreNotStored`, from `Phases`: a check is cut only
  while the context is done, which lasts until the process is gone, and
  `checks.Create` needs it not done.  No assumption on faults.
* `IntervalHolds`: `IntervalKept`, for a single replica and any faults: the stored
  scheduled results are an interval apart (`ResultsApart`), and a check under way began an
  interval after each of them (`ChecksApart`).  `IntervalInv` adds that candidates and
  queued claims are due (`IntervalInvariant`).  A second replica breaks it (run `StaleClaim`):
  its candidates may be from a snapshot older than the newest result.
* `OnlyDueClaimed`: `ClaimsOnlyDue`, for a single replica, from the same invariant.
  This is the comment on `ClaimDue` with the condition under which it is true.
* `LocksHaveReasons`: `NoLockOrphaned`, with no assumption on faults.  `LocksInv` adds
  that a replica still claiming holds a lock for each row it has got so far, since a
  session that is lost then takes the claim with it.
* `BatchNeverStuck`: `BatchGoesOn`, from `RunsForClaim`: a batch runs for at least one
  claim, and lost sessions take its locks but not its jobs.  If a job is queued and none
  has a worker, a worker is free, since there is at least one; if nothing is queued or
  with a worker, a claim is left to release.
* `BatchesMoveOn`: `BatchesOnlyAdvance`.  A job goes from queued to checking, checked,
  done and out of the batch, or skips some of these (`Forward`, `FewerStepsLeft`), and
  candidates only leave.  With `BatchNeverStuck` this is all of `BatchesEnd` but the
  fairness.
* `StoresAreCalls`: `StoresLikeCalls`, from `IncidentInv`.  The count of `CreateTx`, a
  cardinality over the newest two rows, is `TwoDown` because times are distinct
  (`AmongNewestTwo`, `CountIsTwoDown`, `CallCounts`), at most one incident is active
  (`OneIsActive`), and rewriting a row of the store rewrites one row of the call
  (`CallsRewritten`); `FreshIsCall` goes through what `updateIncident` can do.

For every number of transactions (`CreateTxProofs`):

* `TypeCorrect`: `TypeOK`.
* `OneIncident`: `OneActive`.  The strengthening `OneWriter` says that at most one
  call has written a row of `incidents` it has not committed, that it wrote one row
  only, and that this is the row of the active incident if there is one.  This is where waiting on the unique index
  enters; the lock of the scheduler does not.
* `NothingRemains`: `NothingOutlives`.  `DeletedInv` adds that no call got past the
  foreign key of a monitor that is gone.
* `OutagesAreRecorded`: `OutagesRecorded`.  It is about states in which no scheduled
  call runs, so `OutageInv` follows the calls: a stored result is that of an ended
  call (`DatedInv`); the phase tells what a call may have written (`PhaseInv`); under
  the lock scheduled calls take turns, in the order of their times (`TurnInv`), so that
  all others that move are manual and change nothing that counts (`OthersAreManual`);
  and what a call has written is right for the results with its own (`CorrectInv`).
  The commit then establishes `Recorded`, whatever held before, which is why one
  scheduled result settles what concurrent calls left (`CommitRecords`).  Retention
  keeps it because what is the newest afterwards was so before (`NewestKept`).
* `CreateIsOneStep`: `CommitsAreSteps`.  `ExactInv` sharpens `CorrectInv` from what is
  needed to what is written: the row that resolves, extends or opens, and with which
  first failure.  `MayOpen` is the condition for opening and survives retention:
  either the newest scheduled result is a failure, or none is left and retention has
  deleted a failure since failures were last counted (`forgotten`), and every call that
  has not ended is younger than that (`ForgotFailure`, `RetentionMayOpen`).  `NamesInv` says that incidents are named by
  ended calls, each by another, so that a commit replaces one row.
* `NoCircle`: `SomeCallGoesOn`.  Whoever has written a row of `incidents` is about to
  commit and waits for nobody (`WriterGoesOn`); and if no call has written one, none
  waits, and a call that looks for its first failure finds its own row
  (`SomeoneGoesOn`).  `CanGoOn` is spelled with the guards the actions use
  (`Waits`, `FirstFailures`), so it needs no ENABLED.

For every set of monitors, contents and slots (`MonitorsPageProofs`):

* `TypeCorrect`: `TypeOK`.
* `PendingIsTrue` and `SavesAreSingle`: `PendingHasCall` and `OneSave`.  They are one
  induction, over `PageInv`: every action call is about a monitor (`Aimed`), and the
  saving signal is set as long as a save is under way (`SaveInv`), whatever happens
  to the form.  Four lemmas cover all steps: one that leaves the calls alone
  (`SameCalls`), a new call (`CallStep`), an answer (`AnswerStep`), a handler
  (`HandledType`).
* `QuietPageAgrees`: `PageAgrees`, for pages whose calls run one at a time (`alone`).
  `AgreeInv` says what is true while the one call runs: the list a load has gathered is
  what is stored and its overview right for all monitors but those in `moved`
  (`LoadTrue`, `Known`), which results that come and go keep (`BackgroundAgrees`); and a call that was served but not yet
  answered is followed by a load, or the local change the page will make brings its
  list to what is stored (`LoadFollows`, `After`, `Says`).  A load that failed or
  was lost leaves an error, and then the page claims nothing.
* `TogglesFlip`: `ToggleOnlyFlips`, from the same invariant: only its own handler
  brings a toggle to its answer (`OnlyItsHandler`), and the body it writes back is the
  row on the page, flipped (`Flips`), which is the stored one.

For every set of monitors, ranges and slots (`OverviewPageProofs`):

* `TypeCorrect`: `TypeOK`; `NeverLeftBlank`: `NeverBlank`, inductive by
  itself: a load that ends leaves data or an error, and the first one begins with
  the page.
* `LoadingIsTrue`: `LoadingHasRequest`.  Only a new load sets the signal, and only the
  end of a request clears it; the request of the latest load is under way until then.
* `LatestShown`: `ShowsLatest`, from `LatestInv`: a request that began alone is the
  only one under way and carries the number and range of the page.
* `HealthyHolds`: `HealthyIsTrue`, from `TrueInv`: while nothing happens, each
  monitor of the answer in progress is still to be summarised or its summary is
  right.  The count of incidents is free, which is what the dropped error needs.
* `QueueHolds`: `QueueShowsFailures`, for any finite set of monitors, which the list of
  the server is, and any length of the queue.  It is a fact about one answer
  (`QueueOrder`): failing monitors rank before all others, and a queue that leaves
  one out is full.

The proofs rest on the named assumptions `StoreAssumption`, `SchedulerAssumption`,
`TxAssumption`, `APIAssumption`, `PageAssumption`, `OverviewAssumption` and
`NoDataAssumption` only.  Of the properties of the passing runs
those that are model-checked only are `BatchesEnd`, `ShutdownCompletes`, `Responds` and
`LoadingEnds`: liveness under fairness, which is out of the prover's reach.  The safety
they rest on is proved: `BatchGoesOn` and `BatchesOnlyAdvance`, `PendingHasCall`,
`LoadingHasRequest`.  That the conditions of `BatchGoesOn` and `CanGoOn` enable a step
is not proved either, because it speaks of ENABLED.

## 6. Not modelled

Start-up and migrations, `serve` and the connection pool, the semaphore and
redirects of `SafeChecker`, URL validation, the legacy status endpoint with its
metrics, `History` and `Incidents` with their pages, and the navigation of the shell
(see the plan); latencies, messages, causes and counts of results; the wording of
errors; styles and charts; deployment files.  Validation of a request is modelled as
the page's valid form only: a request the server refuses for its values is one of
the failures of `CallFails`.  Differences between the
clocks of replicas are not modelled: with skew, `checked_at` of two replicas may
not follow the order of their checks.
