# A verification project for baseball-v2

TLA+ models of the parts of this program that decide what ends up in its
database and how a bet is judged by it: the ingest-run protocol, the schedule
ingest, the metered odds poller, capture and replay, bet settlement, the
closing-line lookup, the devigging and CLV arithmetic, and the schema migrations.
TLC checks the models on small instances; TLAPS proves, for every instance, every
safety property that the runs check, but one (section 4 says which, and what the
theorems assume).  All definitions are translated from `src/`; each names the lines it
stands for in `PROJECT.json` under `map`.

## 1. Inventory

The program is a set of short-lived processes (cron jobs and a command line)
that share one Postgres database, one directory of raw captures and one metered
API.  There is no server and no in-process concurrency worth the name: the
concurrency is between processes, and it meets in transactions, row locks,
unique keys, files and the API's balance.

| Component | Code | State it keeps | Operations | What must hold |
|---|---|---|---|---|
| Ingest runs | `database/ingest_run.py`, `database/engine.py` | a row of `ingest_runs` per attempt; the session's transaction, connection and row locks | open and commit the row, reap stale rows, run the body, close as success (flushed, committed by `session_scope`) or as failed (rolled back, recorded, committed), die at any point | data rows visible only under success; no CHECK constraint hit; a live connected run is not called dead; final verdicts; every block ends |
| Odds budget | `ingestion/odds.py` (`poll_odds`, `budget_gate`, `_remaining_credits`), `ingestion/__main__.py` | the API's balance; `api_requests` and `params.remaining_after` of each row | gate, request, record, ping, fail | credits reserved for the first pitches ahead are not spent; the recorded balance errs in one direction; spending can be reconstructed |
| Matching, clusters | `ingestion/odds.py` (`_match_game`, `remaining_start_clusters`) | none: pure functions of the schedule | match an event to a game, count first-pitch clusters | never the other game of a doubleheader; each chain of starts counted once |
| Capture, store, replay | `ingestion/odds.py`, `ingestion/replay.py` | `raw/odds_<second>.json`, `odds_snapshots` | write and read back the capture, parse, `INSERT ... ON CONFLICT DO NOTHING`, replay every file | a price keeps the instant it was observed at; a success has all its rows; `rows_written` adds up; a price is stored once |
| Schedule ingest | `ingestion/schedule.py`, `ingestion/statsapi.py`, `scripts/backfill_schedule.py` | `games` | fetch day by day, upsert row by row, backfill month by month | date and start of a row agree; a change seen is not undone; overlapping ingests end |
| Bets | `betting/cli.py`, `betting/settle.py` | `bets` | log, settle | a settled bet is coherent, carries its own payout, and stays settled |
| Closing line | `betting/clv.py` | none: queries over `odds_snapshots` and `bets` | latest price of a side before first pitch, the opposing side | never an in-game price; only advances; both sides of one instant |
| Odds mathematics | `betting/devig.py`, `betting/odds.py`, `betting/clv.py` (`compute_clv`) | none | conversions, root finding, the two CLV metrics | the root is bracketed and found; the metrics relate as documented |
| Schema | `database/models.py`, `database/migrations/` | the revision, the tables and their constraints | probe the owner, probe for prices, migrate in one transaction | only our database is migrated; no unforced command takes known prices; at head every row has its game |
| Front end, settings, reports | `betting/cli.py`, `config.py`, `sql/`, `scripts/dump_odds.py`, `ingestion/reference.py`, `database/utc.py` | none | parsing, printing, lookup tables | - |

How they interact.  Everything that writes runs inside `ingest_run` inside
`session_scope`: the run row is committed first, then the reaper's verdicts, then
the body's rows together with the run's own verdict.  The poller reads the
balance from the run rows of earlier polls and the schedule from `games`; the
replay reads the poller's files and the *current* schedule; the closing lookup
reads what polls, replays and hand entries have stored, and the start that was
copied into the bet when it was logged.

What is hard.  (a) What a process decides from a committed state (the balance,
a bet's status, the age of a run) may be stale when it acts.  (b) Rollback takes
away more than the data rows: the record of credits spent goes with them.
(c) A process may die, stall or lose its connection between any two
statements.  (d) A replay repeats an old computation on new inputs.  (e) The
schedule lags behind reality, is fetched one day at a time while it changes, and
says contradictory things of a postponed game.  (f) Amounts and probabilities are
rounded, and searches for them have bounds.  `PROJECT.json` lists each such hazard at the line
where it bites, with the properties that would catch it going wrong.

## 2. Modules

| Module | Models | Extends |
|---|---|---|
| `RunLog` | abstract: what `ingest_runs` promises its readers (one verdict per attempt, a reaper's guess corrected by the attempt alone, rows published with success) | - |
| `IngestRuns` | the protocol of `ingest_run.py` with transactions, row locks, pids, crashes, reconnections; refines `RunLog` | - |
| `OddsBudget` | gate, request, recording and failure against the API's balance | - |
| `Matching` | `_match_game` and `remaining_start_clusters` as operators | - |
| `Slate` | every schedule that upserts can build, for checking `Matching` | `Matching` |
| `SnapshotLog` | abstract: what `odds_snapshots` and `rows_written` promise their readers (the table grows by whole runs, a row per key, each row reported by the run that added it) | - |
| `Captures` | files, read-back, matching, the unique key, replay, a schedule that moves; refines `SnapshotLog` | `Matching` |
| `Schedule` | overlapping schedule ingests and the backfill against StatsAPI's moving pages | - |
| `Settle` | `payout_cents` in decimal arithmetic, as operators | - |
| `Bets` | `log_bet`, `settle_bet` with overlapping clerks | `Settle` |
| `ClosingLine` | the closing lookup while rows arrive late and the game moves | - |
| `Devig` | `_solve_k`, an iteration a step, for any integer function in the place of the market's | - |
| `Clv` | probabilities, powers, fair prices and the two CLV metrics in fixed point, on top of the solver | `Devig` |
| `Migrations` | upgrades and guarded downgrades beside concurrent writers | - |
| `MC*` | the instances TLC checks | the module of that name |
| `*_proofs` | the theorems about `IngestRuns`, `OddsBudget`, `Captures`, `Schedule`, `Bets`, `ClosingLine`, `Devig` and `Migrations`; `Captures_proofs` also has those about `Matching` and `Slate`, `Devig_proofs` those about `Clv` | the module of that name (and `Slate`, `Clv`), `TLAPS` |

### State and actions

`IngestRuns`.  `runs` is the committed table (`status`, `started_at`,
`finished_at`, `error`, `backend_pid`); `published` the runs whose data rows are
visible.  Each worker has its program counter `pc`, the row its block yielded
(`run`), its backend (`conn`), the last `utcnow()` it holds (`clock`), whether its
open transaction holds data rows (`pending`), an update of its own row
(`touched`) or the verdicts of a reap (`reaping`); an uncommitted effect stays in
these until the step that commits it.  One action per statement that another
process can come between: `Begin`, `Insert` (add and commit), `ReapClock`,
`ReapUpdate`, `ReapCommit`, `Write`, `Touch` (an autoflush of the own row),
`FlushSuccess`, `Commit`, `Raise` (the rollback), `RecordFailure`; and the
environment's `Abandon` (leave without a verdict), `Crash`, `Reconnect`, `Tick`.
An UPDATE waits while another transaction holds the row (`LockedByOther`) and
then acts on the committed version, as Postgres does at READ COMMITTED.
`churned` is a history variable: the connection changed after the pid was
recorded.

`OddsBudget`.  `credits` is the API's balance and `period` the billing period;
`opened` are the open and successful rows in the order of `started_at`, `left`
and `spent` their committed `remaining_after` and `api_requests`; `gate` holds
what a poll's gate read.  `Open`, `Gate`, `Request`, `RequestRaises` (refused, or
timed out after being charged), `WorkRaises`, `Ping`, `Commit`, `Fail`, `Crash`;
`Reset` (a new period, which nobody announces) and `Slate` (first pitches pass or
are added).  A failed row keeps neither balance nor count, so its slot is given
back.  Two history variables say whether two polls have ever been under way at
once (`overlapped`) and whether a poll that was charged has failed (`forgotten`).

`Captures`.  `disk` maps the second in a file's name to its content (nothing,
torn, or an envelope), `snapshots` is the table, `reported` the sum of
`rows_written` over successful runs, `claimed` the rows successful runs had
parsed.  `actual` is when games really start, `games` the committed schedule,
`fetched` a schedule on its way.  A poll is `Request`, `OpenFile`, `WriteCapture`
(two steps: another process may open the same file between them), `ReadBack`,
`Parse`, `Store`, `CommitPoll`; a replay is `Glob`, then per file `OpenCapture`
(whose first commit also publishes the previous file's run), `Parse`, `Store`,
`FlushReplay`, and at last `Finish`.  `BodyRaises`, `ReadBackRaises`,
`OpenRaises`, `ParseFails`, `Crash` and `ScheduleFails` are the ways to fail.
`Store` waits while another transaction has inserted one of its keys, and keeps
the first of two rows of its own with one key.  `SnapshotLog` has the same three
variables of the table and nothing else; its one step, `Publish`, is the commit of a
run.

`Slate`.  `schedule` maps the `game_pk`s of one pair of clubs to their starts and
changes by `Upsert`; `TimePasses` is the clock that `remaining_start_clusters` reads.

`Schedule`.  `listing` is what StatsAPI holds of each game: its start, the starts it
was moved from, its status.  `Page(d)` is one response: the games of that day,
and, for each game postponed from it, the row that stays behind with the new
official date, the old `gameDate` and a `rescheduleDate` (`statsapi.py:42-57`).  An
ingest is `Daily` (yesterday to tomorrow) or `Backfill`, then one `Fetch` per day,
in any order of the day's games, one `Upsert` per row, waiting while another open
transaction has written that row, and `Commit`; a backfill goes on with
`BackfillNext`.  `Victim` is Postgres ending a deadlock, `Abort` any other failure;
`Delay`, `Postpone` and `Play` are MLB's.  A start counts half days of UTC and the
venue is half a day behind, so every late game has another date in UTC than at its
venue.  `unmoved` and `current` are history variables: the games MLB has not changed
since an ingest began, and those last stored by such an ingest.

`Bets`.  `Read` is the query and the checks of `settle_bet`, `Flush` its three
assignments as one UPDATE by id from the copy read before `ingest_run`'s commits,
`Commit` or `Abort` the end.  A ticket is the stake and the price chosen when the
bet is logged.  `Settle!Payout` is `payout_cents`: a decimal is a coefficient and a
scale, and each result of Python's decimal context is rounded half to even to
`Digits` significant digits, before the last step rounds half up to the cent.
`contested` is a history variable: bets two clerks have had in hand at once.

`ClosingLine`.  `captures` are responses on disk, `snapshots` the rows in the
order of their ids, `cutoff` the bet's copy of the start.  `Capture`, `Store`
(a poll or a replay at any later time), `AddSnapshot` (by hand, possibly
back-dated), `LogBet`, `Move`, `Tick`; `FindClosing` and `FindOpposing` are the
two queries.

`Devig`.  One call of `_solve_k`: `lo`, `hi`, `k` and `iterations` are its locals.
`Refuse`, `Fair`, `Over` and `Under` are the four ways it starts, `Grow` and `Shrink`
an iteration of the bracketing, `Bisect` one of the search, `GiveUp` the exception at
the end.  Exponents are integers, in units of `1/Unit`.  The function whose root is
sought is a constant operator, `Excess`.

`Clv` gives it its value, the sum of the powers of a market's implied probabilities
less 1, in units of `1/One`: whole powers by multiplication, the fraction by square
roots, each result rounded up.  `FairProb`, `PointsPositive` and `PctPositive` are
`devig_power`'s probabilities and the signs of `clv_prob_points` and `clv_pct`.

`Migrations`.  `rev` is `alembic_version` (base, 0001, head), `foreign` whether
another project's tables are there, `games` and `rows` the committed rows of
`games` and of the two tables that refer to it, `writing` the uncommitted row of
each writer.  A migrator runs `Start`, `CheckOwner`, for a downgrade `CheckLoss`
(or `CheckLossErrs`, when the count fails), and `Migrate`, or dies (`Abort`);
`Migrate` is one transaction over all revisions, waits for open transactions and
takes all of its effect or none.  Writers `Insert`, `Commit` or `Rollback`; the
schedule ingest stores games (`ListGame`); `Intrude` makes the database foreign.
`began` is a history variable: the rows there were when the command started.

## 3. Runs

Times are for two TLC workers.

| Run | Instance | Checks | States |
|---|---|---|---|
| `runs_protocol` | 2 workers, 2 rows, 3 pids, clock 1..3, grace 0, heartbeat age 1 | `TypeOK`, `RowsCoherent`, `PublishedRunsSucceeded`, `ConnectedRunsAreNotReaped`, `VerdictsAreFinal`, refinement of `RunLog` | 350,501 (48 s) |
| `runs_liveness` | 2 workers, 2 rows, 2 pids, clock 1..2, no symmetry, `FairSpec` | `EveryBlockEnds` | 265,462 (49 s) |
| `budget` | 2 pollers, 4 row slots, 5 credits, requests of 2, 2 periods, every fault | `TypeOK`, `NeverUnderestimates`, `HistoryAccounts`, `ReserveKept` | 525,734 (11 s) |
| `budget_v_reset` | 1 poller, 4 credits, 2 periods, no faults, `FairSpec` | `SpendsAgainAfterReset`: **violated** | 234 |
| `slate` | 3 games, times 0..9, tolerance 2, gap 1, horizon 6 | `ClustersAreChains`, `NeverTheOtherGame` | 13,310 |
| `captures` | 2 polls, 1 replay, a doubleheader, 2 responses, 2 seconds, a delay, every fault | `TypeOK`, `HonestTimestamps`, `SuccessHasItsRows`, `OncePerObservation`, refinement of `SnapshotLog` | 1,707,713 (104 s) |
| `schedule` | a daily ingest, a backfill over 2 months, 3 days, 2 games, 1 change, failures, `FairSpec` | `TypeOK`, `DatesAgree`, `StartsStayCurrent`, `ReplayedRowWins`, `RangesTile`, `EveryIngestEnds` | 91,368 (90 s) |
| `bets` | 2 clerks, 2 bets, 4 tickets, 6 digits, an overridden payout, failures | `TypeOK`, `SettlementCoherent`, `PayoutIsExact`, `SettledOnce` | 285,505 (7 s) |
| `closing` | times 0..3, 3 rows, postponements, one-sided responses, hand entries | `TypeOK`, `NoLivePriceIsAClose`, `OpposingAtSameInstant`, `CloseOnlyAdvances` | 681,700 (34 s) |
| `closing_v_earlier` | times 0..4, a game moved earlier | `NoLivePriceIsAClose`: **violated** | - |
| `migrate` | 2 migrators, 2 writers, 2 game_pks, 2 rows, a failing probe | `TypeOK`, `RowsHaveGames`, `KnownPricesSurvive` | 636,472 (18 s) |
| `clv` | 228 markets of 15 prices, 14 bits of probability, 9 of exponent, `max_iter` 8 and 30 | `TypeOK`, `Bracketed`, `RaisesOnlyBeyondBounds`, `MetricsAgreeOneWay`, `LongshotPaysMore` | 5,165 (6 s) |

Every property of a passing run has a mutant in `PROJECT.json`: a definition of
the model changed the way a plausible bug would change the code (the operators
marked "Seeded fault"), under which the same run finds the property violated.

What the properties mean:

- `PublishedRunsSucceeded`: nobody reads rows of a run that is not `success`,
  although a reaper may have called the run dead while it was writing.  It rests
  on the rollback preceding the failure record (`ingest_run.py:217`).
- `ConnectedRunsAreNotReaped`: the pid is evidence.  Only a changed connection,
  or a pid that could not be read, exposes a live run to the reaper.
- `VerdictsAreFinal`: a run's own verdict is never rewritten; a reaper's only by
  the run it was about.
- `EveryBlockEnds`: reapers and live runs wait for one another's row locks, and
  these waits end without anybody raising or dying; it fails as soon as a run
  holds the lock of its own row while it reaps.
- `NeverUnderestimates`: within a billing period the recorded balance is stale in
  one direction only.  The gate may overspend, it never starves a poll the month
  can afford.
- `ReserveKept`: the gate's purpose: a poll that goes ahead on a known balance
  leaves the credits reserved for the first pitches ahead.  It holds as long as
  polls do not overlap and none fails after its request, and for no more than
  that: see section 5.
- `HistoryAccounts`: the rows' `api_requests` add up to what the API charged, as
  long as no poll fails after its request.
- `ClustersAreChains`, `NeverTheOtherGame`: the two algorithms against
  definitions that say what they are for.
- `HonestTimestamps`: a row's `captured_at` is the instant of the response its
  price came in, also when two polls share a file name; this is what reading the
  file back (`odds.py:512-519`) buys.
- `SuccessHasItsRows`: `ON CONFLICT DO NOTHING` leaves a row to another transaction,
  which may still fail; waiting for it is what makes the property hold.
- `TableSpec`: every step of the pipeline is a step of `SnapshotLog` or invisible.
  No row is ever changed or taken away, no key stored twice, and `rows_written`
  is the number of rows that this run, and no other that parsed the same file, added.
- `OncePerObservation`: as long as no game moves, one observed price is one row,
  whatever polls and replays of its capture overlap, fail or are repeated.  (When a
  game moves it is not: see section 5.)
- `DatesAgree`, `StartsStayCurrent`, `ReplayedRowWins`: the resolvers make every
  row of a postponed game say the same of its date and start, so it does not matter
  which of two contradictory rows, from pages fetched at different times, is stored
  last; and an ingest that covers the game's new day stores that day's row.
- `RangesTile`: the backfill's months neither overlap nor leave a day out.
- `EveryIngestEnds`: upserts in opposite orders deadlock, and every ingest still
  ends, because Postgres picks a victim and the victim's rollback frees its rows.
- `PayoutIsExact`, `SettlementCoherent`: overlapping settlements overwrite one
  another whole, never column by column, and the amount is the exact one to half a
  cent, in spite of two roundings.
- `Bracketed`: from the first iteration of the search to its answer there is a sign
  change between `lo` and `hi`, on the right side of 1, in both directions of margin.
- `RaisesOnlyBeyondBounds`: bracketing and bisecting share `max_iter`; with the default
  it is never the iterations that run out.
- `MetricsAgreeOneWay`, `LongshotPaysMore`: what `clv.py` and `devig.py` prove or claim
  in prose about their numbers, at margins of both signs.
- `SettledOnce`: a settled bet stays settled as it is, unless two clerks had it in
  hand at once.
- `CloseOnlyAdvances`, `OpposingAtSameInstant`: late and back-dated rows never put
  an older price in the place of the close, and the two sides of it are of one
  instant whenever both were quoted.
- `RowsHaveGames`: whatever writers do before, during and after the migration that
  adds the foreign keys, no row at head is without its game.
- `KnownPricesSurvive`: how far the downgrade guard reaches: prices committed before
  the command started are safe from it unless it was forced or its count failed;
  prices that arrive between its count and its DROP are not.

### Bounds, and why they are enough

Two processes are enough for the races here: each is between a decision and an
action of one process with steps of another.  Three pids let a reconnecting
worker and a restarted one both leave a dead pid behind.  The clock runs one unit
past both thresholds, so each of the two reap conditions is both false and true.
With 2 rows a row can be reaped by its successor; slots of `OddsBudget` are given
back by failing polls, so 4 slots do not bound the number of polls.  5 credits
and requests of 2 leave a remainder, the case in which the API refuses while the
balance is not zero.  The doubleheader's starts are 3.5 hours apart with a
tolerance of 1.5 hours, as `odds.py` has it, and a delay of 2.5 hours puts the
opener into the nightcap's window; 2 responses and 2 seconds let polls share a
file and not share it.  In `slate`, times reach beyond the horizon and three
games suffice for a chain whose ends are more than the gap apart.  In `closing`,
three rows and four instants allow a late row before, at and after the cutoff.  In
`schedule`, one ingest of each kind suffices to deadlock over two games, three days
hold a range that begins after a game's old day and ends before its new one, and the
months are as short as their arithmetic allows; one change is enough for a page to
be out of date, a second only repeats it.  In `bets`, 6 digits keep products within
TLC's integers, and two tickets win exactly half a cent, which the first rounding
puts below the half for one (6 at -1200) and above it for the other (3 at -600).  In `clv`, prices run from -2000 to +60000, so that markets are fair,
overround, underround and beyond both bounds (twelve and a tenth in the place of 10^6
and 10^-6); `max_iter` 8 makes the exception at the end happen, and 30 stands for the
default, which `EnoughAssumption` asks to exceed the doublings and halvings there can
be.  In
`migrate`, two rows are one that the guard can know of and one that arrives after
its count, and the second migrator is the forced one that undoes what the first saw.

Deadlock is checked except in `bets` and `closing`, whose bounds (all bets
settled; time and rows used up) make them stop legitimately, and in `clv`, whose calls
return.  Symmetry is used
only in the runs without temporal properties beyond action properties.

### Fairness

`IngestRuns!FairSpec` is weak fairness of each worker's own next step inside a
block (`Work`): asyncio runs a coroutine whose statement can proceed, network
calls have timeouts, and Postgres grants a lock that is free.  Waiting steps are
enabled only when the lock is free, so weak fairness does not assume that a wait
ends; that is what the run shows.  Nothing obliges a process to begin, write,
raise, crash or reconnect, so no wait ends that way.  `Schedule!FairSpec` is strong
fairness of each ingest's own next step: requests have a timeout (`statsapi.py:28`),
and Postgres queues those who wait for a row, so one that is freed again and again is
granted in the end.  Under weak fairness a stream of daily ingests could lock a row
again each time before a waiting one gets it.  `OddsBudget!FairSpec` is weak fairness of each poller's
steps, `Open` included: cron keeps starting polls (the `README` and
`__main__.py` assume it).

## 4. Proofs

The theorems hold for every value of the constants that the modules' named
assumptions admit: any number of processes, rows, games and files, any times and
thresholds, every fault.  Hardly any of the properties is inductive: what a commit
makes visible was decided steps before, from a state that other processes have
changed since.  So each proof module states an invariant `IInv` that says what every
process holds between its steps, `InvInit` and `InvStep` establish it action by
action, and the properties follow.  TLC checked each `IInv` on the module's run before
it was proved.

| Module | Theorem | Property |
|---|---|---|
| `IngestRuns_proofs` | `TypeCorrect`, `ChecksHold`, `PublishedUnderSuccess`, `EvidenceIsSound`, `FinalVerdicts`, `ImplementsRunLog` | `TypeOK`, `RowsCoherent`, `PublishedRunsSucceeded`, `ConnectedRunsAreNotReaped`, `VerdictsAreFinal`, `LogSpec` |
| `Captures_proofs` | `TypeCorrect`, `TimestampsHonest`, `SuccessHasRows`, `ObservedOnce`, `ImplementsSnapshotLog` | `TypeOK`, `HonestTimestamps`, `SuccessHasItsRows`, `OncePerObservation`, `TableSpec` |
| | `CountsAreRight` | `rows_written` of the successful runs adds up to the table |
| (of `Matching`) | `NeverAnotherGame`, `PassCountsChains` | of `_match_game` and `remaining_start_clusters`, for every schedule |
| (of `Slate`) | `ClustersCountChains`, `OwnGameOrNone` | `ClustersAreChains`, `NeverTheOtherGame` |
| `Schedule_proofs` | `TypeCorrect`, `DateIsOfStart`, `StartIsCurrent`, `LaterRowWins`, `MonthsTile` | `TypeOK`, `DatesAgree`, `StartsStayCurrent`, `ReplayedRowWins`, `RangesTile` |
| `OddsBudget_proofs` | `TypeCorrect`, `GateNeverStarves`, `ReserveIsKept`, `HistoryAddsUp` | `TypeOK`, `NeverUnderestimates`, `ReserveKept`, `HistoryAccounts` |
| `Bets_proofs` | `TypeCorrect`, `Coherent`, `NotSettledAgain`, `AmountBelongsToStatus` | `TypeOK`, `SettlementCoherent`, `SettledOnce`, `PayoutIsExact` |
| `ClosingLine_proofs` | `TypeCorrect`, `CloseIsNotLive`, `CloseAdvances`, `OpposingIsSimultaneous` | `TypeOK`, `NoLivePriceIsAClose`, `CloseOnlyAdvances`, `OpposingAtSameInstant` |
| `Devig_proofs` | `TypeCorrect`, `BracketSound`, `GivesUpOnlyBeyondBounds` | `TypeOK`, `Bracketed`, `RaisesOnlyBeyondBounds` |
| | `AnswerNearRoot`, `RaisesHaveCause`, `NeverOutOfIterations` | how near an answer is to the root, and what an exception means, when f is rounded (no run checks them) |
| (of `Clv`) | `MetricsAgree` | `MetricsAgreeOneWay` |
| `Migrations_proofs` | `TypeCorrect`, `KeysHold`, `NoKnownPriceLost` | `TypeOK`, `RowsHaveGames`, `KnownPricesSurvive` |

Each module but `ClosingLine_proofs` also lists its `Inductive`: `Spec => []IInv`.

### The arguments

`IngestRuns`.  `IInv` adds `Ownership` (the rows of live blocks are theirs alone,
exist, and carry no verdict but a reaper's), `Locks` (who holds which row, and that a
row marked in an open reap is still running and still stale: nobody else could change
it), `Clocks` (what a coroutine remembers is between the row's start and now) and
`Evidence` (an unchanged connection is the pid of the row, hence in
`pg_stat_activity`, hence not reapable).  With `Locks`, the two writers of one row
cannot both hold it, so the verdict committed is about the row as it was read; with
`Ownership`, only the owner can replace a reaper's verdict.  The refinement maps every
step to the step of `RunLog` it commits, or to a stutter.

`Captures`.  `FilesSound` and `HandsSound`: a file that can be read is one whole
envelope, whoever wrote it, and so is what a process has read, so timestamp and events
never come from two responses.  `TransactionsSound`: an open transaction has inserted
rows it has parsed, under keys that neither the table nor another open transaction
has, and every key it has parsed is in the table or its own; this is where the wait in
`Store` is used, and it gives `SuccessHasItsRows` and `CountsAddUp` at the commit.
For the refinement the table itself needs one more invariant, `OneRowPerKey`: rows stored and rows that open
transactions have inserted differ in their keys.  Then the commit of a run maps to
`Publish` of the rows it inserted and the rows it parsed, and no other step changes
what a reader sees.
`ScheduleSound` and `RowsSound`: starts only slip, so while `actual = FirstStarts`
everything any process was ever told are the first starts, each event is at its own
game's start, and by `NeverAnotherGame` its row is under its own game.

`Matching`, `Slate`.  The pass is a fold over the starts ahead, the latest last.  It is
given a closed form, the number of heads (starts that no other one precedes by at most
the gap) and the latest start, and that form satisfies the fold's recursive equation: a
start later than all others is a head just when it is more than the gap past the
previous.  Two functions that satisfy it agree, for there would be a smallest set where
they do not.  `Slate` needs only that the schedule is finite and its starts are times.

`Schedule`.  `RowsSound` and `UpsertedSound` say of every row fetched or upserted,
committed or not, what `DatesAgree` and `StartsStayCurrent` say of the table; of two
open transactions only one has upserted a game (the row lock).  `HomeRowIsLast`: of
the contradictory rows of a postponed game, the one of the new day is on a later page,
so while MLB does not change the game again it is the last one still to come or the
last one upserted.  `RangesSound` is the calendar of the backfill.

`OddsBudget`.  `Rows` (a running poll's row is its own and has recorded nothing),
`Answers` (within a period credits only go down) and `Gated` give
`NeverUnderestimates`.  `ReserveKept` is about the step of a request, but the bound it
needs was laid down when an earlier poll committed: `OneAtATime` (polls that never
overlapped; the running one's row is the last) and `NoneTooHigh` (then the last
recorded balance is not above the API's, but for a charge still to be recorded).
`HistoryAccounts` compares a sum over all rows with one number; its invariant `Ledger`
says what the sum becomes while polls run: as long as nothing is forgotten, each row
has recorded nothing or the cost of one poll, and what the API has charged is that cost
times the rows that have plus the polls charged but not yet recorded.  `SumOfCharges`
turns the sum that the code's reader computes into that count.

`Bets`.  `UpdatesSound`: what a clerk has flushed is one whole settlement, of one
verdict, with its amount.  `HandsTold`: a bet in two hands is contested, and one that
is not is still as its only clerk read it.

`ClosingLine`.  `CutoffIsEarly`: while games only move to later, a bet's cutoff is not
after the real start.  The close is the latest of the eligible rows (`CloseIsLatest`),
and rows are only added.

`Devig`.  The doubling and the halving establish the change of sign that `Bracketed`
is about, so `Growing` and `Shrinking` are part of `IInv`.  For the iterations, `Paced`
says what those drawn so far have bought, without a logarithm: doubling has multiplied
the lower end by 2 to the iterations, halving has divided the upper end by it, and
bisecting has divided the width of a bracket no wider than `KMax`; so they never reach
`Enough`, whose power of two is beyond the square of `KMax`.

`Clv`.  A power is a whole power times a root for each bit of the fraction.  From 1
upwards the whole power is at most `p` and roots are at most 1, so the power is at most
`p`; below 1 the product so far times the last root taken is still at least `p`,
because each root, rounded up, squares to no less than the one before.  `Solved` says
that the answer is on the side of 1 where the margin is, which puts the fair probability
on the known side of the quoted one.  Prices are compared through their probabilities,
of which rounding may make equal what differs but never reverses the order.

`Migrations`.  `IdsGiven` and `UncommittedIsNew`: a row committed while a downgrade is
under way is none it started from.  `Counted`: a downgrade that counted found none of
the prices it started from.  `WritesSound`: a transaction that is open at head holds a
row with its game, because `Migrate` waited for those that were open before.

### What they assume

Besides types and sentinels (a NULL is no value), the modules assume, by name:

- `ScheduleAssumption`: exactly one month begins within `Span` days after each first of
  a month up to the last day, as with the real calendar and the `+ 32 days` of
  `months`; and finitely many games.
- `WinAssumption` (`Bets`): what a win comes to is a number of cents, that is, the
  decimal context is wide enough for the tickets.  `Settle`'s powers of ten are beyond
  the provers.  For the same reason `AmountBelongsToStatus` has the hypothesis
  `ExactWin` for each ticket (half a cent, in one call of `payout_cents`); what is
  proved is that no interleaving puts the amount of one settlement under the status of
  another.  TLC computes the tickets of its run.
- `BudgetAssumption` (`OddsBudget`): finitely many rows.
- `EnoughAssumption` (`Devig`): the default `max_iter` exceeds the doublings and halvings
  between the bounds and the narrowest bracket, `KMax * KMax < 2^Enough`.  In the code
  that is 10^42 < 2^200.
- `ResolutionAssumption` (`Clv`): the fixed point tells the price of a bet from the price
  of a market when one returns more, as 53 bits do for American prices.
- `CapturesAssumption`: finitely many games, whose first starts are natural numbers;
  `FilesAssumption`: an absent or partial file is no capture.

Hypotheses of single theorems: `CloseIsNotLive` has `Moves \subseteq Nat`, games only
move to later; `closing_v_earlier` shows what happens otherwise.  The theorems about
`Devig` and `Clv` have `IntegerExcess`, that `Excess` is a number at all, and
`TypeCorrect`, `BracketSound` and `MetricsAgree` nothing about its shape.
`AnswerNearRoot`, `RaisesHaveCause` and `NeverOutOfIterations` have besides that f falls
as the exponent grows, up to an error of rounding (`FallsWithin(error)`, for any
`error`; the fixed point of `Clv` may rise by a few units where a bit carries).
`GivesUpOnlyBeyondBounds` states the run's property without an error and so for an f
that falls exactly, as the code's does in real numbers.

The library's induction theorems take an operator for a parameter, which the provers
cannot instantiate.  Where these proofs need induction, over numbers, powers of two or
finite sets, they take a least counterexample: that a set of numbers has one is
`WFMin` of the library, for less-than as a set of pairs (`NatPairs`, `Least`), and a
recursive function is what its equation says because a function that satisfies it is
given and another one would differ first somewhere (`DoubledForm`, `Recursion`,
`PassCountsHeads`).

### Only model-checked

- `EveryBlockEnds`, `EveryIngestEnds`: liveness under fairness.
- `LongshotPaysMore`: a strict inequality between products of probabilities, which in
  fixed point holds only as far as rounding leaves a difference; the run's 14 bits leave
  one for its markets, an arbitrary resolution need not.
- The decimal arithmetic of `Settle`, as said above: `PayoutIsExact` for one ticket is a
  hypothesis of `AmountBelongsToStatus`, computed by TLC.
- That the search ends: `GiveUp` after `max_iter` is in `Devig` a step that the run
  reaches, not a theorem.

## 5. What the runs found

Two statements of the repository that the code does not keep, each a run with
`expect: violation`:

- **The budget gate does not recover from a refusal** (`budget_v_reset`).  The
  balance is learned from responses only; after a refusal nothing updates it, so
  the gate refuses in the next billing period too.  In season first pitches are
  always ahead within 24 hours, so the derived reserve stays positive; once fewer
  credits than one poll costs are recorded it refuses whatever the slate.
- **An in-game price can be a closing line** (`closing_v_earlier`): the cutoff is
  the start copied into the bet, and the game may be moved earlier.

Met while modelling and not among the runs; where a property excepts the case by a
history variable, dropping that condition shows it:

- Replaying is not idempotent when a game has moved (`replay.py:48`): the natural
  key contains `game_pk`, which is matched against the schedule of the day of the
  replay.  `OncePerObservation` excepts it with `actual = FirstStarts`.
- A database with rows at 0001 cannot be upgraded: 0002 validates its foreign keys
  against the games table it has just created, so the first price or bet fails it
  (`Reaches` of `Migrations`); the data steps meant for such rows (line 65, "matters
  where snapshots predate `games`") join the empty table.  After a forced downgrade
  to 0001 there is no way up but to delete them.
- Re-ingesting the day a game was postponed from, without its new day (a `--date`, or
  a backfill that stops between the two months), puts "Postponed" and no
  `rescheduled_from_date` in the place of the replayed row's; the start stays right.
  `schedule.py:69` says that re-running "must be a no-op".  This is why
  `ReplayedRowWins` asks for the new day in the range, and `StartsStayCurrent` speaks of
  the start alone.
- The bounds on the exponent refuse a little more than they say: doubling from below
  stops at 2^19, so a root between 524288 and 10^6 raises "no solution for k below
  1e+06" (`devig.py:134`; likewise at the lower end).
- A settled bet can be settled again by a second clerk who read it before
  (`cli.py:322`): the check precedes two commits, and the UPDATE does not repeat it.
  This is what `contested` excepts from `SettledOnce`.
- The downgrade guard takes every failure of its count for a missing table
  (`env.py:135`), and counts before the DROP waits for open polls.  It does not
  count bets.  Offline, `_is_downgrade` is called before `context.configure`
  (`env.py:181`), where its own docstring says it is not valid.
- `ReserveKept` fails with two overlapping pollers (both gates read the same
  balance; and a poll that stalls between gate and request overruns without
  bound) and with one poller that fails after its request (`ingest_run.py:217`
  rolls `remaining_after` back with the rest, and `api_requests` too, so
  `HistoryAccounts` fails as well).
- The healthcheck is pinged before `session_scope` commits (`odds.py:553`).
- Two polls answered in the same second overwrite one file (`odds.py:121`); a body
  that is not JSON raises before anything is written (`odds.py:136`).
- An opener delayed into the nightcap's window is filed under the nightcap as long
  as the schedule has the old times (`odds.py:297`).
- `replay_all` does not catch `AmbiguousGame`: one ambiguous event ends the batch
  (`replay.py:97`).
- A process that stalls for longer than the grace period between committing its
  row and reaping, and gets another connection from the pool, reaps its own row
  (`ingest_run.py:208`); the block's own verdict later replaces that one, which
  `VerdictsAreFinal` allows.
- A snapshot's `commence_time_utc` is read from `games` after the match
  (`odds.py:529`, `replay.py:66`): the start of the schedule as it then is, for a
  replay today's, where `models.py:359` says "as reported by the source AT CAPTURE
  TIME".
- `add_snapshot` takes `captured_at` from its run, and a retry is a new run with a
  later start: it stores a second row, where `cli.py:210` says that "a retried ingest
  run is idempotent".  Polls and replays take it from the envelope and are.
- The other side of a run line is looked up under the same `line` (`clv.py:259`), so a
  pair entered as -1.5 and +1.5 is never found, and `clv_prob_points` stays None.
- `payout_cents` rounds `100 / -odds` to 28 digits before multiplying, so a win of
  exactly half a cent may be rounded down (stake 6 at -1200 returns 6, not 7), against
  "a single rounding step" (`settle.py:46`); `PayoutIsExact` allows it.

## 6. Not modelled, and why

- The rounding of doubles.  `Clv` has 14 bits of probability where Python has 53, and
  its tolerance is coarser in proportion; what it shows of the solver is the control,
  of the metrics the order of the quantities, not the last digit.
- The conversions back to American prices (`decimal_to_american`,
  `implied_prob_to_american`, `fair_odds_american`, `profit_multiple`): display and tests
  use them.
- In `Schedule`: teams and venues (they do not change), other game types (filtered out),
  the run row (`IngestRuns`), and a game made an earlier day's by MLB.
- `models.py`: the constraints appear as invariants of the modules that write the
  tables.  Of the migrations, the columns and indexes, offline mode (no database),
  and the order in which one migration takes its locks: a deadlock with a poll ends
  one of the two, which is `Abort` or `Rollback`.
- `cli.py`'s parsing and printing, `config.py`, `utc.py`, `reference.py`, `scripts/dump_odds.py`
  and `sql/`: no state and no ordering.  A miss in `reference.py` is the `renamed`
  fault of `Captures`.
- `stale_runs` and the reports: they only read.

## 7. Plan

Done, in this order: `IngestRuns` and its proofs, `OddsBudget`, `Matching` and `Slate`,
`Captures`, `Bets`, `ClosingLine`, `Migrations`; then `Schedule`, `Settle` under `Bets`,
`Devig` and `Clv`.  Then the theorems, module by module, in the order of section 4.

Left: in `IngestRuns`, a theorem about what a reaper's verdict says of a run that closes
later, and for `Clv` a bound on the rounding of a power from which `LongshotPaysMore`
would follow with a margin.

Models not written yet: the snapshot's denormalised `commence_time_utc`, read in a
second statement (`odds.py:529`), and an abstract ledger of credits that `OddsBudget`
implements for a lone poller.
